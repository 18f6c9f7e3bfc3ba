----------------------- MODULE BookReconstructorProofs -----------------------
(***************************************************************************)
(* Proofs about BookReconstructor, for every price scale, set of tokens,   *)
(* and set of messages.  The inductive invariant is the conjunction of the *)
(* type invariant and the two safety invariants; the overlay needs the     *)
(* types (a level's sizes are natural numbers), and neither safety         *)
(* invariant needs the other.                                              *)
(***************************************************************************)
EXTENDS BookReconstructor, SequenceTheorems, TLAPS

\* The levels of a snapshot are natural numbers: a size is listed only when it
\* is positive (orderbook/state.py, replace).
LEMMA SnapshotLevelsType ==
  ASSUME NEW snapshot \in Snapshots
  PROVE  /\ SnapshotLevels(snapshot) \in Levels
         /\ SnapshotLevels(WithTick(snapshot)) = SnapshotLevels(snapshot)
         /\ WithTick(snapshot).sequence = snapshot.sequence
         /\ WithTick(snapshot).tick = TickFor(snapshot)
<1>1. ASSUME NEW s \in Side, NEW p \in Price
      PROVE  SizeAt(snapshot.listed[s], p) \in Nat
  <2> DEFINE listed == snapshot.listed[s]
             at == {i \in DOMAIN listed : listed[i].price = p /\ listed[i].size > 0}
  <2>1. listed \in Listed
    BY MessageAssumption
  <2>2. CASE at = {}
    BY <2>2 DEF SizeAt
  <2>3. CASE at # {}
    <3>1. PICK k \in at : k = CHOOSE i \in at : TRUE
      BY <2>3
    <3> HIDE DEF listed
    <3>a. k \in DOMAIN listed /\ listed[k].size > 0
      BY <3>1
    <3>b. listed[k] \in [price : Int, size : Int]
      BY <2>1, <3>a, ElementOfSeq, LenProperties DEF Listed
    <3>2. listed[k].size \in Nat
      BY <3>a, <3>b
    <3>3. SizeAt(listed, p) = listed[k].size
      BY <2>3, <3>1 DEF SizeAt
    <3>4. QED
      BY <3>2, <3>3 DEF listed
  <2>4. QED
    BY <2>2, <2>3
<1>2. SnapshotLevels(snapshot) \in Levels
  BY <1>1 DEF SnapshotLevels, Levels
<1>3. QED
  BY <1>2, MessageAssumption DEF WithTick, SnapshotLevels

\* Applying an accepted level keeps the book a book (orderbook/state.py, apply).
LEMMA MutatedType ==
  ASSUME NEW change \in Changes, NEW book \in Book,
         LevelIsValid(change.price, change.size, book.tick)
  PROVE  Mutated(book, change) \in Book
<1>1. /\ change.side \in Side /\ change.price \in Price /\ change.size \in Nat
      /\ change.bestBid \in Int /\ change.bestAsk \in Int
  BY MessageAssumption DEF LevelIsValid
<1>2. ChangedLevels(book.displayed, change) \in Levels
  BY <1>1 DEF ChangedLevels, Levels, Book
<1>3. ForgetConsumption(book.consumed, change) \in Levels
  BY <1>1 DEF ForgetConsumption, Levels, Book
<1>4. QED
  BY <1>2, <1>3 DEF Mutated, Book

-----------------------------------------------------------------------------
(* What every book satisfies, stated of the book as a value *)

OverlayOK(book) ==
  \A s \in Side, p \in Price :
    book.displayed[s][p] > 0 => book.consumed[s][p] <= book.displayed[s][p]

\* A token that was never registered has seen no message.
Unseen(book) ==
  book.condition = NoCondition => book.lastSequence = 0 /\ ~book.valid

BookOK(book) ==
  /\ book \in Book
  /\ Unseen(book)
  /\ book.valid => ~Crossed(book.displayed)
  /\ OverlayOK(book)

\* A new book is empty and invalid (orderbook/state.py, __init__).
LEMMA NewBookOK ==
  ASSUME NEW condition \in Conditions \cup {NoCondition}
  PROVE  BookOK(NewBook(condition, DefaultTick))
BY BoundAssumption DEF BookOK, NewBook, Book, Levels, NoLevels, OverlayOK, Unseen

\* Invalidating a book disturbs neither its levels nor its overlay.
LEMMA InvalidatedOK ==
  ASSUME NEW book, book \in Book, OverlayOK(book), Unseen(book)
  PROVE  BookOK(Invalidated(book))
BY DEF BookOK, Invalidated, Book, OverlayOK, Unseen

\* A replacement is valid, uncrossed and carries no consumption.
LEMMA ReplacedOK ==
  ASSUME NEW snapshot \in Snapshots, NEW book \in Book, TickFor(snapshot) \in Int,
         SnapshotIsValid(WithTick(snapshot)), book.condition # NoCondition
  PROVE  BookOK(Replaced(book, WithTick(snapshot)))
<1> DEFINE new == Replaced(book, WithTick(snapshot))
<1>1. /\ new.displayed = SnapshotLevels(snapshot)
      /\ new.consumed = NoLevels
      /\ new.condition = book.condition
      /\ new \in Book
  <2>1. NoLevels \in Levels
    BY DEF NoLevels, Levels
  <2>2. snapshot.sequence \in Nat
    BY MessageAssumption
  <2>3. QED
    BY <2>1, <2>2, SnapshotLevelsType DEF Replaced, Book
<1>2. ~Crossed(new.displayed)
  BY <1>1, SnapshotLevelsType DEF SnapshotIsValid
<1>3. OverlayOK(new)
  BY <1>1, SnapshotLevelsType DEF OverlayOK, NoLevels, Levels
<1>4. QED
  BY <1>1, <1>2, <1>3 DEF BookOK, Unseen

\* The mutation forgets the consumption of the level it restates, and a pruned
\* level shows nothing: the overlay stays within the display although the
\* overlay of pruned levels is kept (orderbook/state.py, apply).
LEMMA MutatedOverlay ==
  ASSUME NEW change \in Changes, NEW book \in Book, OverlayOK(book),
         LevelIsValid(change.price, change.size, book.tick)
  PROVE  OverlayOK(Mutated(book, change))
<1>1. /\ change.side \in Side /\ change.price \in Price /\ change.size \in Nat
  BY MessageAssumption DEF LevelIsValid
<1>2. SUFFICES ASSUME NEW s \in Side, NEW p \in Price,
                      Mutated(book, change).displayed[s][p] > 0
               PROVE  Mutated(book, change).consumed[s][p]
                        <= Mutated(book, change).displayed[s][p]
  BY DEF OverlayOK
<1>3. /\ Mutated(book, change).displayed = ChangedLevels(book.displayed, change)
      /\ Mutated(book, change).consumed = ForgetConsumption(book.consumed, change)
  BY DEF Mutated, Book
<1>4. CASE s = change.side /\ p = change.price
  <2>1. ForgetConsumption(book.consumed, change)[s][p] = 0
    BY <1>1, <1>4 DEF ForgetConsumption, Book, Levels
  <2>2. ChangedLevels(book.displayed, change)[s][p] \in Nat
    BY <1>1, <1>4 DEF ChangedLevels
  <2>3. QED
    BY <1>3, <2>1, <2>2
<1>5. CASE ~(s = change.side /\ p = change.price)
  <2>1. ForgetConsumption(book.consumed, change)[s][p] = book.consumed[s][p]
    BY <1>1, <1>5 DEF ForgetConsumption, Book, Levels
  <2>2. ChangedLevels(book.displayed, change)[s][p] = book.displayed[s][p]
    BY <1>2, <1>3, <1>5 DEF ChangedLevels
  <2>3. QED
    BY <1>2, <1>3, <2>1, <2>2 DEF OverlayOK
<1>6. QED
  BY <1>4, <1>5

\* A change that passes its checks leaves an uncrossed, valid book.
LEMMA ChangedOK ==
  ASSUME NEW change \in Changes, NEW book \in Book, OverlayOK(book),
         LevelIsValid(change.price, change.size, book.tick),
         ChangeIsConsistent(book, change), book.condition # NoCondition
  PROVE  BookOK(Changed(book, change))
<1>1. Mutated(book, change) \in Book /\ OverlayOK(Mutated(book, change))
  BY MutatedType, MutatedOverlay
<1>2. change.sequence \in Nat
  BY MessageAssumption
<1>3. /\ Changed(book, change) \in Book
      /\ Changed(book, change).condition = book.condition
      /\ Changed(book, change).displayed = Mutated(book, change).displayed
      /\ Changed(book, change).consumed = Mutated(book, change).consumed
  BY <1>1, <1>2 DEF Changed, Mutated, Book
<1>4. QED
  BY <1>1, <1>3 DEF BookOK, OverlayOK, ChangeIsConsistent, Unseen

\* A fill within the available size keeps the overlay within the display.
LEMMA ConsumedOK ==
  ASSUME NEW book, BookOK(book), NEW side \in Side, NEW p \in Price,
         NEW size \in Nat, size <= Available(book, side, p)
  PROVE  BookOK(Consumed(book, side, p, size))
<1> DEFINE new == Consumed(book, side, p, size)
           more == [book.consumed EXCEPT ![side][p] = @ + size]
<1>1. /\ book \in Book /\ OverlayOK(book)
      /\ book.displayed \in Levels /\ book.consumed \in Levels
  BY DEF BookOK, Book
<1>2. /\ more \in Levels
      /\ \A s \in Side, q \in Price :
           more[s][q] = IF s = side /\ q = p THEN book.consumed[s][q] + size
                        ELSE book.consumed[s][q]
  BY <1>1 DEF Levels
<1>3. new = [book EXCEPT !.consumed = more]
  BY <1>1 DEF Consumed, Book
<1> HIDE DEF more
<1>4. /\ new \in Book
      /\ new.displayed = book.displayed
      /\ new.valid = book.valid /\ new.lastSequence = book.lastSequence
      /\ new.condition = book.condition
      /\ new.consumed = more
  BY <1>1, <1>2, <1>3 DEF Book
<1> HIDE DEF new
<1>5. ASSUME NEW s \in Side, NEW q \in Price, book.displayed[s][q] > 0
      PROVE  more[s][q] <= book.displayed[s][q]
  <2>1. book.displayed[s][q] \in Nat /\ book.consumed[s][q] \in Nat
    BY <1>1 DEF Levels
  <2>2. book.consumed[s][q] <= book.displayed[s][q]
    BY <1>1, <1>5 DEF OverlayOK
  <2>3. CASE s = side /\ q = p
    BY <1>2, <2>1, <2>3 DEF Available
  <2>4. CASE ~(s = side /\ q = p)
    BY <1>2, <2>2, <2>4
  <2>5. QED
    BY <2>3, <2>4
<1>6. OverlayOK(new)
  BY <1>4, <1>5 DEF OverlayOK
<1>7. QED
  BY <1>4, <1>6 DEF BookOK, Unseen, new

-----------------------------------------------------------------------------
(* The inductive invariant *)

IInv ==
  /\ TypeOK
  /\ \A t \in Tokens : BookOK(books[t])

\* Replacing one token's book by an acceptable one keeps all books acceptable.
LEMMA SetBookOK ==
  ASSUME IInv, NEW t \in Tokens, NEW book, BookOK(book), SetBook(t, book)
  PROVE  books' \in [Tokens -> Book] /\ \A u \in Tokens : BookOK(books'[u])
BY DEF IInv, TypeOK, SetBook, BookOK

\* Closing an interval keeps the list a list of intervals.
LEMMA CloseNewestType ==
  ASSUME TypeOK, NEW t \in Tokens, CloseNewest(t)
  PROVE  uncertainty' \in Seq(Interval)
<1>1. /\ Len(uncertainty) \in Nat /\ DOMAIN uncertainty = 1 .. Len(uncertainty)
      /\ \A i \in 1 .. Len(uncertainty) : uncertainty[i] \in Interval
  BY LenProperties, ElementOfSeq DEF TypeOK
<1>2. ASSUME NEW i \in 1 .. Len(uncertainty)
      PROVE  [uncertainty[i] EXCEPT !.open = FALSE] \in Interval
  BY <1>1 DEF Interval
<1>3. uncertainty' \in [1 .. Len(uncertainty) -> Interval]
  BY <1>1, <1>2 DEF CloseNewest
<1>4. QED
  BY <1>1, <1>3, SeqDef

\* apply_snapshot, each of its four outcomes.
LEMMA SnapshotStep ==
  ASSUME IInv, NEW snapshot \in Snapshots, ApplySnapshot(snapshot)
  PROVE  IInv'
<1> DEFINE t == snapshot.token
           book == Registration(snapshot)
<1>1. /\ t \in Tokens /\ TickFor(snapshot) \in Int /\ BookOK(book)
      /\ snapshot.condition \in Conditions
  <2>1. t \in Tokens /\ snapshot.condition \in Conditions /\ snapshot.tick \in Int
    BY MessageAssumption
  <2>2. TickFor(snapshot) \in Int
    BY <2>1 DEF TickFor, IInv, TypeOK
  <2>3. QED
    BY <2>1, <2>2, NewBookOK DEF Registration, IInv
<1>2. /\ book \in Book /\ OverlayOK(book) /\ Unseen(book)
      /\ book.condition # NoCondition
  BY <1>1, ConditionAssumption DEF BookOK, Registration, Registered, NewBook
<1>3. LearnTick(snapshot) => effectiveTick' \in [Tokens -> Int]
  BY <1>1 DEF LearnTick, IInv, TypeOK
<1> HIDE DEF t, book
<1>4. CASE SnapshotMismapped(snapshot)
  BY <1>3, <1>4 DEF SnapshotMismapped, IInv, TypeOK
<1>5. CASE SnapshotStale(snapshot)
  <2>1. SetBook(t, book) /\ CloseNewest(t)
    BY <1>5 DEF SnapshotStale, t, book
  <2>2. QED
    BY <1>1, <1>3, <1>5, <2>1, SetBookOK, CloseNewestType DEF SnapshotStale, IInv, TypeOK
<1>6. CASE SnapshotRejected(snapshot)
  <2>1. SetBook(t, Invalidated(book)) /\ UNCHANGED uncertainty
    BY <1>6 DEF SnapshotRejected, t, book
  <2>2. BookOK(Invalidated(book))
    BY <1>2, InvalidatedOK
  <2>3. QED
    BY <1>1, <1>3, <1>6, <2>1, <2>2, SetBookOK DEF SnapshotRejected, IInv, TypeOK
<1>7. CASE SnapshotAccepted(snapshot)
  <2>1. SetBook(t, Replaced(book, WithTick(snapshot))) /\ CloseNewest(t)
    BY <1>7 DEF SnapshotAccepted, t, book
  <2>2. BookOK(Replaced(book, WithTick(snapshot)))
    BY <1>1, <1>2, <1>7, ReplacedOK DEF SnapshotAccepted
  <2>3. QED
    BY <1>1, <1>3, <1>7, <2>1, <2>2, SetBookOK, CloseNewestType
    DEF SnapshotAccepted, IInv, TypeOK
<1>8. QED
  BY <1>4, <1>5, <1>6, <1>7 DEF ApplySnapshot

\* apply_change, each of its three outcomes.
LEMMA ChangeStep ==
  ASSUME IInv, NEW change \in Changes, ApplyChange(change)
  PROVE  IInv'
<1> DEFINE t == change.token
<1>1. t \in Tokens /\ books[t] \in Book /\ OverlayOK(books[t]) /\ Unseen(books[t])
  BY MessageAssumption DEF IInv, BookOK
<1>2. CASE ChangeRefusesLevel(change)
  <2>1. BookOK(Invalidated(books[t]))
    BY <1>1, InvalidatedOK
  <2>2. QED
    BY <1>1, <1>2, <2>1, SetBookOK DEF ChangeRefusesLevel, IInv, TypeOK
<1>3. CASE ChangeFailsCheck(change)
  <2>1. LevelIsValid(change.price, change.size, books[t].tick)
    BY <1>3 DEF ChangeFailsCheck, LevelIsAccepted
  <2>2. /\ Mutated(books[t], change) \in Book /\ OverlayOK(Mutated(books[t], change))
        /\ Unseen(Mutated(books[t], change))
    BY <1>1, <2>1, MutatedType, MutatedOverlay DEF Unseen, Mutated, Book
  <2>3. BookOK(Invalidated(Mutated(books[t], change)))
    BY <2>2, InvalidatedOK
  <2>4. QED
    BY <1>1, <1>3, <2>3, SetBookOK DEF ChangeFailsCheck, IInv, TypeOK
<1>4. CASE ChangeApplied(change)
  <2>1. BookOK(Changed(books[t], change))
    BY <1>1, <1>4, ChangedOK DEF ChangeApplied, ChangeReachesBook, Registered, LevelIsAccepted
  <2>2. QED
    BY <1>1, <1>4, <2>1, SetBookOK DEF ChangeApplied, IInv, TypeOK
<1>5. QED
  BY <1>2, <1>3, <1>4 DEF ApplyChange

\* A tick change leaves every level, the overlay and the validity alone.
LEMMA TickStep ==
  ASSUME IInv, NEW change \in TickChanges, ApplyTickSizeChange(change)
  PROVE  IInv'
<1>1. change.token \in Tokens /\ change.tick \in Int
  BY MessageAssumption
<1>2. effectiveTick' \in [Tokens -> Int] /\ uncertainty' \in Seq(Interval)
  BY <1>1 DEF ApplyTickSizeChange, IInv, TypeOK
<1>3. BookOK([books[change.token] EXCEPT !.tick = change.tick])
  BY <1>1 DEF IInv, BookOK, Book, OverlayOK, Unseen
<1>4. books' = books \/ SetBook(change.token, [books[change.token] EXCEPT !.tick = change.tick])
  BY <1>1 DEF ApplyTickSizeChange, SetBook, IInv, TypeOK
<1>5. books' \in [Tokens -> Book] /\ \A u \in Tokens : BookOK(books'[u])
  BY <1>1, <1>3, <1>4, SetBookOK DEF IInv, TypeOK
<1>6. QED
  BY <1>2, <1>5 DEF IInv, TypeOK

\* mark_uncertain invalidates a registered book and opens an interval.
LEMMA MarkStep ==
  ASSUME IInv, NEW t \in Tokens, MarkUncertain(t)
  PROVE  IInv'
<1>1. BookOK(Invalidated(books[t]))
  BY InvalidatedOK DEF IInv, BookOK
<1>2. books' = books \/ SetBook(t, Invalidated(books[t]))
  BY DEF MarkUncertain, SetBook
<1>3. books' \in [Tokens -> Book] /\ \A u \in Tokens : BookOK(books'[u])
  BY <1>1, <1>2, SetBookOK DEF IInv, TypeOK
<1>4. uncertainty' \in Seq(Interval)
  BY DEF MarkUncertain, IInv, TypeOK, Interval
<1>5. QED
  BY <1>3, <1>4 DEF MarkUncertain, IInv, TypeOK

\* consume takes no more than is available.
LEMMA ConsumeStep ==
  ASSUME IInv, NEW t \in Tokens, NEW side \in Side, NEW p \in Price,
         NEW size \in 1 .. Available(books[t], side, p), Consume(t, side, p, size)
  PROVE  IInv'
<1>1. BookOK(Consumed(books[t], side, p, size))
  BY ConsumedOK DEF Consume, IInv
<1>2. QED
  BY <1>1, SetBookOK DEF Consume, IInv, TypeOK

\* The books are sound before the first message.
LEMMA IInvInit == Init => IInv
<1> SUFFICES ASSUME Init PROVE IInv
  OBVIOUS
<1>1. BookOK(NewBook(NoCondition, DefaultTick))
  BY NewBookOK
<1>2. NewBook(NoCondition, DefaultTick) \in Book
  BY <1>1 DEF BookOK
<1> QED
  BY <1>1, <1>2, EmptySeq DEF Init, IInv, TypeOK, NoTick

\* Every method keeps every book sound.
LEMMA IInvStep ==
  ASSUME IInv, [Next]_vars
  PROVE  IInv'
<1>1. CASE \E snapshot \in Snapshots : ApplySnapshot(snapshot)
  BY <1>1, SnapshotStep
<1>2. CASE \E change \in Changes : ApplyChange(change)
  BY <1>2, ChangeStep
<1>3. CASE \E change \in TickChanges : ApplyTickSizeChange(change)
  BY <1>3, TickStep
<1>4. CASE \E t \in Tokens : MarkUncertain(t)
  BY <1>4, MarkStep
<1>5. CASE \E t \in Tokens, side \in Side, p \in Price :
             \E size \in 1 .. Available(books[t], side, p) : Consume(t, side, p, size)
  BY <1>5, ConsumeStep
<1>6. CASE UNCHANGED vars
  BY <1>6 DEF vars, IInv, TypeOK
<1>7. QED
  BY <1>1, <1>2, <1>3, <1>4, <1>5, <1>6 DEF Next

\* In every state every book is sound (orderbook/reconstructor.py).
LEMMA IInvInvariant == Spec => []IInv
<1>1. IInv /\ [Next]_vars => IInv'
  BY IInvStep
<1>2. QED
  BY <1>1, IInvInit, PTL DEF Spec

\* Every method keeps the books, the ticks and the interval list well formed.
THEOREM TypeCorrect == Spec => []TypeOK
<1>1. IInv => TypeOK
  BY DEF IInv
<1>2. QED
  BY <1>1, IInvInvariant, PTL

\* No reader of a valid book ever sees a crossed one, whatever messages arrive
\* and in whatever order.
THEOREM UncrossedCorrect == Spec => []ValidBookIsUncrossed
<1>1. IInv => ValidBookIsUncrossed
  BY DEF IInv, BookOK, ValidBookIsUncrossed
<1>2. QED
  BY <1>1, IInvInvariant, PTL

\* Simulated fills never take more than the source shows at a level.
THEOREM OverlayCorrect == Spec => []OverlayWithinDisplay
<1>1. IInv => OverlayWithinDisplay
  BY DEF IInv, BookOK, OverlayOK, OverlayWithinDisplay
<1>2. QED
  BY <1>1, IInvInvariant, PTL

-----------------------------------------------------------------------------
(* The action properties *)

\* The book of token t now shows exactly one snapshot, no older than the book.
ShowsSnapshot(t) ==
  /\ books'[t].consumed = NoLevels
  /\ \E snapshot \in Snapshots :
       /\ snapshot.token = t
       /\ snapshot.sequence >= books[t].lastSequence
       /\ snapshot.sequence = books'[t].lastSequence
       /\ books'[t].displayed = SnapshotLevels(snapshot)

\* What one step may do to one book: replace it by such a snapshot, or edit it
\* without moving its sequence back and without making it valid.
BookStep(t) ==
  /\ books'[t].lastSequence >= books[t].lastSequence
  /\ ShowsSnapshot(t) \/ (books'[t].valid => books[t].valid)

\* A step that sets one book only has to be looked at for that book.
LEMMA SetBookStep ==
  ASSUME IInv, NEW t \in Tokens, NEW book, SetBook(t, book), NEW u \in Tokens,
         \/ ShowsSnapshot(t) /\ book.lastSequence >= books[t].lastSequence
         \/ /\ book.lastSequence >= books[t].lastSequence
            /\ book.valid => books[t].valid
  PROVE  BookStep(u)
<1>1. books'[t] = book /\ (u # t => books'[u] = books[u])
  BY DEF SetBook, IInv, TypeOK
<1>2. books[u].lastSequence \in Nat
  BY DEF IInv, TypeOK, Book
<1>3. QED
  BY <1>1, <1>2 DEF BookStep

\* apply_snapshot replaces a book only through the guards of replace.
LEMMA SnapshotBookStep ==
  ASSUME IInv, NEW snapshot \in Snapshots, ApplySnapshot(snapshot), NEW u \in Tokens
  PROVE  BookStep(u)
<1> DEFINE t == snapshot.token
           book == Registration(snapshot)
<1>1. /\ t \in Tokens /\ snapshot.sequence \in Nat /\ snapshot.condition \in Conditions
      /\ books[t] \in Book /\ books[u] \in Book /\ Unseen(books[t])
  BY MessageAssumption DEF IInv, TypeOK, BookOK
<1>2. book \in Book /\ book.lastSequence = books[t].lastSequence
      /\ (book.valid => books[t].valid)
  BY <1>1, NewBookOK DEF Registration, Registered, Unseen, BookOK, NewBook
<1>3. books[t].lastSequence \in Nat /\ books[u].lastSequence \in Nat
  BY <1>1 DEF Book
<1> HIDE DEF t, book
<1>4. CASE SnapshotMismapped(snapshot)
  BY <1>3, <1>4 DEF SnapshotMismapped, BookStep
<1>5. CASE SnapshotStale(snapshot)
  <2>1. SetBook(t, book)
    BY <1>5 DEF SnapshotStale, t, book
  <2>2. QED
    BY <1>1, <1>2, <1>3, <2>1, SetBookStep
<1>6. CASE SnapshotRejected(snapshot)
  <2>1. SetBook(t, Invalidated(book))
    BY <1>6 DEF SnapshotRejected, t, book
  <2>2. /\ Invalidated(book).lastSequence = book.lastSequence
        /\ ~Invalidated(book).valid
    BY <1>2 DEF Invalidated, Book
  <2>3. QED
    BY <1>1, <1>2, <1>3, <2>1, <2>2, SetBookStep
<1>7. CASE SnapshotAccepted(snapshot)
  <2> DEFINE new == Replaced(book, WithTick(snapshot))
  <2>1. SetBook(t, new)
    BY <1>7 DEF SnapshotAccepted, t, book
  <2>2. /\ new.displayed = SnapshotLevels(snapshot) /\ new.consumed = NoLevels
        /\ new.lastSequence = snapshot.sequence
    BY <1>2, SnapshotLevelsType DEF Replaced, Book
  <2>3. snapshot.sequence >= books[t].lastSequence
    BY <1>1, <1>2, <1>3, <1>7 DEF SnapshotAccepted, IsStale, book
  <2>4. books'[t] = new
    BY <1>1, <2>1 DEF SetBook, IInv, TypeOK
  <2> HIDE DEF new
  <2>5. ShowsSnapshot(t)
    BY <2>2, <2>3, <2>4 DEF ShowsSnapshot, t
  <2>6. QED
    BY <1>1, <2>1, <2>2, <2>3, <2>5, SetBookStep
<1>8. QED
  BY <1>4, <1>5, <1>6, <1>7 DEF ApplySnapshot

\* apply_change works on a valid book only and skips an old sequence.
LEMMA ChangeBookStep ==
  ASSUME IInv, NEW change \in Changes, ApplyChange(change), NEW u \in Tokens
  PROVE  BookStep(u)
<1> DEFINE t == change.token
<1>1. /\ t \in Tokens /\ books[t] \in Book /\ change.sequence \in Nat
      /\ books[t].lastSequence \in Nat
  BY MessageAssumption DEF IInv, TypeOK, Book
<1>2. books[t].valid /\ change.sequence >= books[t].lastSequence
  BY <1>1 DEF ApplyChange, ChangeRefusesLevel, ChangeFailsCheck, ChangeApplied,
              ChangeReachesBook, IsStale
<1>3. /\ Invalidated(books[t]).lastSequence = books[t].lastSequence
      /\ Invalidated(Mutated(books[t], change)).lastSequence = books[t].lastSequence
      /\ Changed(books[t], change).lastSequence = change.sequence
  BY <1>1 DEF Invalidated, Mutated, Changed, Book
<1>4. \/ SetBook(t, Invalidated(books[t]))
      \/ SetBook(t, Invalidated(Mutated(books[t], change)))
      \/ SetBook(t, Changed(books[t], change))
  BY DEF ApplyChange, ChangeRefusesLevel, ChangeFailsCheck, ChangeApplied
<1>5. QED
  BY <1>1, <1>2, <1>3, <1>4, SetBookStep

\* The remaining methods move no sequence and validate no book.
LEMMA OtherBookStep ==
  ASSUME IInv, NEW u \in Tokens,
         \/ \E change \in TickChanges : ApplyTickSizeChange(change)
         \/ \E t \in Tokens : MarkUncertain(t)
         \/ \E t \in Tokens, side \in Side, p \in Price :
              \E size \in 1 .. Available(books[t], side, p) : Consume(t, side, p, size)
         \/ UNCHANGED vars
  PROVE  BookStep(u)
<1>1. books \in [Tokens -> Book] /\ books[u].lastSequence \in Nat
  BY DEF IInv, TypeOK, Book
<1>2. CASE \E change \in TickChanges : ApplyTickSizeChange(change)
  <2>1. PICK change \in TickChanges : ApplyTickSizeChange(change)
    BY <1>2
  <2>2. books'[u].lastSequence = books[u].lastSequence /\ books'[u].valid = books[u].valid
    BY <1>1, <2>1, MessageAssumption DEF ApplyTickSizeChange, Book
  <2>3. QED
    BY <1>1, <2>2 DEF BookStep
<1>3. CASE \E t \in Tokens : MarkUncertain(t)
  <2>1. books'[u].lastSequence = books[u].lastSequence
        /\ (books'[u].valid => books[u].valid)
    BY <1>1, <1>3 DEF MarkUncertain, Invalidated, Book
  <2>2. QED
    BY <1>1, <2>1 DEF BookStep
<1>4. CASE \E t \in Tokens, side \in Side, p \in Price :
             \E size \in 1 .. Available(books[t], side, p) : Consume(t, side, p, size)
  <2>0. PICK t \in Tokens, side \in Side, p \in Price :
             \E size \in 1 .. Available(books[t], side, p) : Consume(t, side, p, size)
    BY <1>4
  <2>1. PICK size \in 1 .. Available(books[t], side, p) : Consume(t, side, p, size)
    BY <2>0
  <2>2. /\ Consumed(books[t], side, p, size).lastSequence = books[t].lastSequence
        /\ Consumed(books[t], side, p, size).valid = books[t].valid
    BY <1>1 DEF Consumed, Book
  <2>3. books[t].lastSequence \in Nat /\ SetBook(t, Consumed(books[t], side, p, size))
    BY <1>1, <2>1 DEF Book, Consume
  <2>4. QED
    BY <2>2, <2>3, SetBookStep
<1>5. CASE UNCHANGED vars
  BY <1>1, <1>5 DEF vars, BookStep
<1>6. QED
  BY <1>2, <1>3, <1>4, <1>5

\* What any step may do to a book, all methods together.
LEMMA NextBookStep ==
  ASSUME IInv, [Next]_vars
  PROVE  \A u \in Tokens : BookStep(u)
BY SnapshotBookStep, ChangeBookStep, OtherBookStep DEF Next

\* No message moves a book back to an older sequence.
THEOREM SequenceCorrect == Spec => SequenceNeverRegresses
<1>1. IInv /\ [Next]_vars =>
        [\A t \in Tokens : books'[t].lastSequence >= books[t].lastSequence]_vars
  BY NextBookStep DEF BookStep
<1>2. QED
  BY <1>1, IInvInvariant, PTL DEF Spec, SequenceNeverRegresses

\* An invalid book becomes valid only by showing exactly one fresh snapshot.
THEOREM RevalidationCorrect == Spec => RevalidatedOnlyBySnapshot
<1>1. IInv /\ [Next]_vars =>
        [\A t \in Tokens : ~books[t].valid /\ books'[t].valid => ShowsSnapshot(t)]_vars
  BY NextBookStep DEF BookStep
<1>2. QED
  BY <1>1, IInvInvariant, PTL DEF Spec, RevalidatedOnlyBySnapshot, ShowsSnapshot
=============================================================================
