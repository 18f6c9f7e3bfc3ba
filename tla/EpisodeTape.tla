----------------------------- MODULE EpisodeTape -----------------------------
(***************************************************************************)
(* An episode's tape (backtest/tape.py): the books of the two tokens of a  *)
(* market, reconstructed once from the recorded events and kept as one row *)
(* per event that left a book.  Values only; the book is OrderBook's.      *)
(*                                                                         *)
(* An event is a snapshot, a change or a tick change as in OrderBook, with *)
(* its kind, token and receipt time "at".  A row keeps the whole ladders;  *)
(* "taken", whether the book acted on the event, is not in the file and is *)
(* there for the properties.  Building a tape publishes it in files: that  *)
(* is left to TapeFiles.                                                   *)
(***************************************************************************)
EXTENDS OrderBook, SequencesExt, Ranking

CONSTANTS TapeTokens,     \* the up and the down token
          DefaultTick,
          TapeEnd         \* later than every time

ASSUME TapeAssumption == Conditions # {} /\ DefaultTick \in Nat \ {0} /\ TapeEnd \in Nat

None == -1

\* What is left of a sequence when only some positions are kept.
Kept(seq, positions) ==
  LET at == Ranked([i \in positions |-> {j \in positions : j < i}])
  IN  [k \in DOMAIN at |-> seq[at[k]]]

Condition == CHOOSE c \in Conditions : TRUE

\* The kinds in the order in which simultaneous events are applied.
KindRank == [snapshot |-> 0, tick |-> 1, update |-> 2]

Precedes(e, f) ==
  \/ e.at < f.at
  \/ e.at = f.at /\ KindRank[e.kind] < KindRank[f.kind]
  \/ e.at = f.at /\ e.kind = f.kind /\ e.sequence < f.sequence

\* The events of a recording; prices and sizes are whatever was received.
Event ==
  [kind : {"snapshot"}, at : Nat, sequence : Nat, token : TapeTokens, source : STRING,
   tick : Int, listed : [Side -> Seq([price : Int, size : Int])]]
  \cup [kind : {"update"}, at : Nat, sequence : Nat, token : TapeTokens, side : Side,
        price : Int, size : Int, bestBid : Int, bestAsk : Int]
  \cup [kind : {"tick"}, at : Nat, sequence : Nat, token : TapeTokens, tick : Int]

\* No two events of a recording tie in all three.
IsRecording(recording) ==
  /\ IsFiniteSet(recording) /\ recording \subseteq Event
  /\ \A e \in recording : e.at < TapeEnd
  /\ \A e, f \in recording : e = f \/ Precedes(e, f) \/ Precedes(f, e)

\* iter_book_events.
Ordered(recording) ==
  Ranked([e \in recording |-> {f \in recording : Precedes(f, e)}])

-----------------------------------------------------------------------------
(* What an event does to the reconstructor, raising or not. *)

WithTick(event, tick) == [event EXCEPT !.tick = tick]

\* A REST snapshot, or a token's first, states the tick; any other snapshot
\* takes the one already known.
TickFor(ticks, event) ==
  IF event.source = "clob_rest" \/ ticks[event.token] = None THEN event.tick
  ELSE ticks[event.token]

SnapshotRaises(book, snapshot) == ~IsStale(book, snapshot) /\ ~SnapshotIsValid(snapshot)

AfterSnapshot(book, snapshot) ==
  IF IsStale(book, snapshot) THEN book
  ELSE IF SnapshotIsValid(snapshot) THEN Replaced(book, snapshot) ELSE Invalidated(book)

ChangeRaises(book, change) ==
  \/ book.condition = NoCondition \/ ~book.valid
  \/ /\ ~IsStale(book, change)
     /\ ~(LevelIsValid(change.price, change.size, book.tick) /\ ChangeIsConsistent(book, change))

AfterChange(book, change) ==
  IF ~book.valid \/ IsStale(book, change) THEN book
  ELSE IF ChangeRaises(book, change) THEN Invalidated(book)
  ELSE Changed(book, change)

\* [ticks, book, raised, took] of one event.
Applied(s, event) ==
  LET book     == s.books[event.token]
      snapshot == WithTick(event, TickFor(s.ticks, event))
      mine     == IF book.condition = NoCondition THEN NewBook(Condition, DefaultTick) ELSE book
  IN  CASE event.kind = "snapshot" ->
             [tick |-> snapshot.tick, book |-> AfterSnapshot(mine, snapshot),
              raised |-> SnapshotRaises(mine, snapshot), took |-> ~IsStale(mine, snapshot)]
        [] event.kind = "tick" ->
             [tick |-> event.tick, book |-> [book EXCEPT !.tick = event.tick],
              raised |-> FALSE, took |-> FALSE]
        [] event.kind = "update" ->
             [tick |-> s.ticks[event.token], book |-> AfterChange(book, event),
              raised |-> ChangeRaises(book, event), took |-> ~IsStale(book, event)]

-----------------------------------------------------------------------------
(* TapeBuilder.build *)

Ladder(book, side) ==
  LET prices == {p \in Price : book.displayed[side][p] > 0}
      best   == Ranked([p \in prices |-> {q \in prices : IF side = "BUY" THEN q > p ELSE q < p}])
  IN  [k \in DOMAIN best |-> [price |-> best[k], size |-> book.displayed[side][best[k]]]]

RowOf(event, after) ==
  [at |-> event.at, token |-> event.token, kind |-> event.kind,
   side  |-> IF event.kind = "update" THEN event.side ELSE "none",
   price |-> IF event.kind = "update" THEN event.price ELSE None,
   valid |-> after.book.valid, taken |-> after.took,
   bids |-> Ladder(after.book, "BUY"), asks |-> Ladder(after.book, "SELL")]

\* Faulty variant: a refused event leaves no span of uncertainty behind.
OpenNoSpan(pending, event) == pending

\* The first refused event opens the token's span.
OpenSpan(pending, event) ==
  IF pending[event.token] = None THEN [pending EXCEPT ![event.token] = event.at] ELSE pending

\* A refused event leaves an invalid book and no row; a snapshot that is
\* not refused closes the token's span.
Record(s, event) ==
  LET after  == Applied(s, event)
      t      == event.token
      closes == event.kind = "snapshot" /\ ~after.raised /\ s.pending[t] # None
  IN  [books   |-> [s.books EXCEPT ![t] = after.book],
       ticks   |-> [s.ticks EXCEPT ![t] = after.tick],
       pending |-> IF after.raised THEN OpenSpan(s.pending, event)
                   ELSE IF closes THEN [s.pending EXCEPT ![t] = None] ELSE s.pending,
       spans   |-> IF closes THEN s.spans \cup {[token |-> t, from |-> s.pending[t], to |-> event.at]}
                   ELSE s.spans,
       rows    |-> IF after.raised \/ after.book.condition = NoCondition THEN s.rows
                   ELSE Append(s.rows, RowOf(event, after))]

Blank == [books   |-> [t \in TapeTokens |-> NewBook(NoCondition, DefaultTick)],
          ticks   |-> [t \in TapeTokens |-> None],
          pending |-> [t \in TapeTokens |-> None],
          spans   |-> {},
          rows    |-> << >>]

Replayed(recording) ==
  LET after[k \in 0 .. Cardinality(recording)] ==
        IF k = 0 THEN Blank
        ELSE CHOOSE s \in {Record(b, Ordered(recording)[k]) : b \in {after[k - 1]}} : TRUE
  IN  after[Cardinality(recording)]

\* A span that no snapshot closed lasts to the end.
Build(recording) ==
  LET open(s) == {t \in TapeTokens : s.pending[t] # None}
  IN  CHOOSE tape \in
        {[rows  |-> s.rows,
          spans |-> s.spans \cup {[token |-> t, from |-> s.pending[t], to |-> TapeEnd] : t \in open(s)}]
         : s \in {Replayed(recording)}} : TRUE

-----------------------------------------------------------------------------
(* EpisodeTape *)

Best(ladder) == IF ladder = << >> THEN None ELSE ladder[1].price

TakerLadder(row, side) == IF side = "BUY" THEN row.asks ELSE row.bids

IsUncertain(tape, token, t) ==
  \E span \in tape.spans : span.token = token /\ span.from <= t /\ t <= span.to

\* _row_at: the last row of the token at or before t, or 0.
RowAt(tape, token, t) ==
  Max({0} \cup {i \in DOMAIN tape.rows : tape.rows[i].token = token /\ tape.rows[i].at <= t})
=============================================================================
