-------------------------- MODULE BookReconstructor --------------------------
(***************************************************************************)
(* BookReconstructor (orderbook/reconstructor.py): the books of all tokens,*)
(* the tick each token's messages are read with, and the list of           *)
(* uncertainty intervals.  One action per method; the caller is free, so   *)
(* messages arrive in any order, with any sequence: the collector applies  *)
(* REST answers beside the frame queue, and a replay in exchange-time order*)
(* presents sequences out of order.                                        *)
(*                                                                         *)
(* A method that raises is a step too: what it had already assigned stays. *)
(***************************************************************************)
EXTENDS OrderBook

CONSTANTS Tokens, Snapshots, Changes, TickChanges,
          DefaultTick,    \* the class default, before any message
          MaxIntervals    \* bound on the uncertainty list

Sources == {"clob_rest", "clob_market_ws"}

Listed == Seq([price : Int, size : Int])

ASSUME MessageAssumption ==
  /\ Snapshots \subseteq [token : Tokens, condition : Conditions, source : Sources,
                          tick : Int, sequence : Nat, listed : [Side -> Listed]]
  /\ Changes \subseteq [token : Tokens, condition : Conditions, sequence : Nat,
                        side : Side, price : Int, size : Int,
                        bestBid : Int, bestAsk : Int]
  /\ TickChanges \subseteq [token : Tokens, condition : Conditions, tick : Int]

ASSUME BoundAssumption ==
  DefaultTick \in Int /\ MaxIntervals \in Nat

VARIABLES books,          \* token -> OrderBook; condition NoCondition: none yet
          effectiveTick,  \* token -> tick, NoTick when none is known
          uncertainty     \* sequence of [token, open], oldest first

vars == <<books, effectiveTick, uncertainty>>

NoTick == -1

Interval == [token : Tokens, open : BOOLEAN]

Registered(t) == books[t].condition # NoCondition

Init ==
  /\ books = [t \in Tokens |-> NewBook(NoCondition, DefaultTick)]
  /\ effectiveTick = [t \in Tokens |-> NoTick]
  /\ uncertainty = <<>>

-----------------------------------------------------------------------------
(* apply_snapshot *)

\* REST is authoritative for the tick; a WebSocket snapshot only when no tick
\* is known.
TickFor(snapshot) ==
  IF snapshot.source = "clob_rest" \/ effectiveTick[snapshot.token] = NoTick
  THEN snapshot.tick ELSE effectiveTick[snapshot.token]

WithTick(snapshot) == [snapshot EXCEPT !.tick = TickFor(snapshot)]

\* register: the existing book of the token, or a new one.
Registration(snapshot) ==
  IF Registered(snapshot.token) THEN books[snapshot.token]
  ELSE NewBook(snapshot.condition, DefaultTick)

MappingChanged(message) ==
  Registered(message.token) /\ books[message.token].condition # message.condition

\* Only the newest open interval of the token is closed.
CloseNewest(t) ==
  LET open == {i \in DOMAIN uncertainty : uncertainty[i].token = t /\ uncertainty[i].open}
  IN  uncertainty' = [i \in DOMAIN uncertainty |->
        IF i \in open /\ \A j \in open : j <= i
        THEN [uncertainty[i] EXCEPT !.open = FALSE] ELSE uncertainty[i]]

SetBook(t, book) == books' = [books EXCEPT ![t] = book]

\* The effective tick is stored first, whatever becomes of the snapshot.
LearnTick(snapshot) ==
  effectiveTick' = [effectiveTick EXCEPT ![snapshot.token] = TickFor(snapshot)]

SnapshotMismapped(snapshot) ==
  /\ MappingChanged(snapshot)
  /\ LearnTick(snapshot)
  /\ UNCHANGED <<books, uncertainty>>

SnapshotStale(snapshot) ==
  /\ ~MappingChanged(snapshot)
  /\ IsStale(Registration(snapshot), snapshot)
  /\ LearnTick(snapshot)
  /\ SetBook(snapshot.token, Registration(snapshot))
  /\ CloseNewest(snapshot.token)

SnapshotRejected(snapshot) ==
  /\ ~MappingChanged(snapshot)
  /\ ~IsStale(Registration(snapshot), snapshot)
  /\ ~SnapshotIsValid(WithTick(snapshot))
  /\ LearnTick(snapshot)
  /\ SetBook(snapshot.token, Invalidated(Registration(snapshot)))
  /\ UNCHANGED uncertainty

SnapshotAccepted(snapshot) ==
  /\ ~MappingChanged(snapshot)
  /\ ~IsStale(Registration(snapshot), snapshot)
  /\ SnapshotIsValid(WithTick(snapshot))
  /\ LearnTick(snapshot)
  /\ SetBook(snapshot.token, Replaced(Registration(snapshot), WithTick(snapshot)))
  /\ CloseNewest(snapshot.token)

ApplySnapshot(snapshot) ==
  \/ SnapshotMismapped(snapshot)
  \/ SnapshotStale(snapshot)
  \/ SnapshotRejected(snapshot)
  \/ SnapshotAccepted(snapshot)

-----------------------------------------------------------------------------
(* apply_change *)

\* Faulty variant: an invalid book takes updates.
ChangeReachesAnyBook(change) ==
  /\ Registered(change.token)
  /\ books[change.token].condition = change.condition
  /\ ~IsStale(books[change.token], change)

\* The guard of apply_change, then of OrderBook.apply: no book, an invalid
\* one or one of another condition raises; an old sequence is ignored.
ChangeReachesBook(change) ==
  /\ Registered(change.token)
  /\ books[change.token].valid
  /\ books[change.token].condition = change.condition
  /\ ~IsStale(books[change.token], change)

LevelIsAccepted(change) ==
  LevelIsValid(change.price, change.size, books[change.token].tick)

ChangeRefusesLevel(change) ==
  /\ ChangeReachesBook(change)
  /\ ~LevelIsAccepted(change)
  /\ SetBook(change.token, Invalidated(books[change.token]))
  /\ UNCHANGED <<effectiveTick, uncertainty>>

\* The levels are already changed when the check fails; the sequence is not.
ChangeFailsCheck(change) ==
  /\ ChangeReachesBook(change)
  /\ LevelIsAccepted(change)
  /\ ~ChangeIsConsistent(books[change.token], change)
  /\ SetBook(change.token, Invalidated(Mutated(books[change.token], change)))
  /\ UNCHANGED <<effectiveTick, uncertainty>>

ChangeApplied(change) ==
  /\ ChangeReachesBook(change)
  /\ LevelIsAccepted(change)
  /\ ChangeIsConsistent(books[change.token], change)
  /\ SetBook(change.token, Changed(books[change.token], change))
  /\ UNCHANGED <<effectiveTick, uncertainty>>

ApplyChange(change) ==
  \/ ChangeRefusesLevel(change)
  \/ ChangeFailsCheck(change)
  \/ ChangeApplied(change)

-----------------------------------------------------------------------------
(* The other methods *)

\* The levels already in the book are not checked against the new tick.
ApplyTickSizeChange(change) ==
  /\ change.tick > 0
  /\ effectiveTick' = [effectiveTick EXCEPT ![change.token] = change.tick]
  /\ books' = IF Registered(change.token) /\ ~MappingChanged(change)
              THEN [books EXCEPT ![change.token].tick = change.tick] ELSE books
  /\ UNCHANGED uncertainty

MarkUncertain(t) ==
  /\ Len(uncertainty) < MaxIntervals
  /\ books' = IF Registered(t) THEN [books EXCEPT ![t] = Invalidated(@)] ELSE books
  /\ uncertainty' = Append(uncertainty, [token |-> t, open |-> TRUE])
  /\ UNCHANGED effectiveTick

\* TakerExecutionSimulator.execute takes from a valid book no more than
\* available_levels offers and records it with consume.
Consume(t, side, p, size) ==
  /\ books[t].valid
  /\ size <= Available(books[t], side, p)
  /\ SetBook(t, Consumed(books[t], side, p, size))
  /\ UNCHANGED <<effectiveTick, uncertainty>>

Next ==
  \/ \E snapshot \in Snapshots : ApplySnapshot(snapshot)
  \/ \E change \in Changes : ApplyChange(change)
  \/ \E change \in TickChanges : ApplyTickSizeChange(change)
  \/ \E t \in Tokens : MarkUncertain(t)
  \/ \E t \in Tokens, side \in Side, p \in Price :
       \E size \in 1 .. Available(books[t], side, p) : Consume(t, side, p, size)

Spec == Init /\ [][Next]_vars

-----------------------------------------------------------------------------
(* Properties *)

TypeOK ==
  /\ books \in [Tokens -> Book]
  /\ effectiveTick \in [Tokens -> Int]
  /\ uncertainty \in Seq(Interval)

\* A valid book is never crossed: a change that crosses it has already edited
\* the levels when the check fails, so the flag is what keeps the crossed
\* book from every later reader (orderbook/state.py, apply and replace).
ValidBookIsUncrossed ==
  \A t \in Tokens : books[t].valid => ~Crossed(books[t].displayed)

\* Simulated fills never take more than a level shows, in any state and not
\* only when the fill is recorded: pruning by a reported top leaves the
\* overlay of the pruned level behind, and the level may be shown again with
\* a smaller size (orderbook/state.py, apply, consume, available_levels).
OverlayWithinDisplay ==
  \A t \in Tokens, s \in Side, p \in Price :
    books[t].displayed[s][p] > 0 =>
      books[t].consumed[s][p] <= books[t].displayed[s][p]

\* No message, in whatever order it arrives, moves a book back to an older
\* sequence (the early returns of replace and apply).
SequenceNeverRegresses ==
  [][\A t \in Tokens : books'[t].lastSequence >= books[t].lastSequence]_vars

\* An invalid book becomes valid again only by showing exactly the levels of
\* one snapshot, no older than what the book had seen and with no simulated
\* consumption left: no update, tick change or fill repairs it.
RevalidatedOnlyBySnapshot ==
  [][\A t \in Tokens :
       ~books[t].valid /\ books'[t].valid =>
         /\ books'[t].consumed = NoLevels
         /\ \E snapshot \in Snapshots :
              /\ snapshot.token = t
              /\ snapshot.sequence >= books[t].lastSequence
              /\ snapshot.sequence = books'[t].lastSequence
              /\ books'[t].displayed = SnapshotLevels(snapshot)]_vars
=============================================================================
