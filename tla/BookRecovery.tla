---------------------------- MODULE BookRecovery ----------------------------
(***************************************************************************)
(* The live collector's books between the exchange and the reader: the     *)
(* WebSocket connection, the bounded parser queue and its worker, and the  *)
(* tasks that repair books over REST (ingestion/supervisor.py,             *)
(* ingestion/clob_ws.py, ingestion/clob_rest.py).  Everything runs on one  *)
(* event loop: a step is what runs between two awaits.                     *)
(*                                                                         *)
(* Data.  A book is a function of Levels; the k-th change the exchange     *)
(* makes writes k at one level, so a value tells which change wrote it.    *)
(* The checks of OrderBook.apply (crossed book, reported top) see a part of*)
(* the book only: a change that leads to a book other than the one the     *)
(* exchange had after it may or may not be noticed.                        *)
(*                                                                         *)
(* Sequences.  A collector sequence is only ever compared with             *)
(* book.last_sequence.  A frame gets its sequence when it enters the queue,*)
(* a REST answer when it arrives, and the worker takes frames in order; so *)
(* the comparison is determined by how many frames at the head of the queue*)
(* were received before the book's last REST snapshot: behind[t].          *)
(***************************************************************************)
EXTENDS Integers, Sequences, FiniteSetsExt, SequencesExt

CONSTANTS ActiveMarkets,   \* sequence of markets, each a sequence of its tokens
          Levels,          \* price levels
          QueueCapacity,   \* size of the parser queue
          EndingMarkets,   \* indices of the markets that may end during the run
          MaxChanges,      \* bounds: changes made by the exchange,
          MaxConnections,  \*   connection attempts,
          MaxFailures      \*   REST requests that fail and full books refused

TokensIn(m) == {ActiveMarkets[m][i] : i \in DOMAIN ActiveMarkets[m]}

Tokens == UNION {TokensIn(m) : m \in DOMAIN ActiveMarkets}

ASSUME RecoveryAssumption ==
  /\ ActiveMarkets \in Seq(Seq(Tokens) \ {<<>>})
  /\ QueueCapacity \in Nat \ {0}
  /\ EndingMarkets \subseteq DOMAIN ActiveMarkets
  /\ MaxChanges \in Nat /\ MaxConnections \in Nat /\ MaxFailures \in Nat

MarketOf(t) == CHOOSE m \in DOMAIN ActiveMarkets : t \in TokensIn(m)

\* The orders in which the exchange may send one frame per token.
TokenOrders ==
  {order \in [1 .. Cardinality(Tokens) -> Tokens] : Range(order) = Tokens}

Content == [Levels -> 0 .. MaxChanges]

VARIABLES
  exchange,    \* the exchange's own book of each token
  changes,     \* number of changes made so far
  connection,  \* number of connection attempts
  connected,
  frames,      \* frames sent on the current connection, not yet received
  queue,       \* parser_queue
  behind,      \* token -> queued frames older than the book's last REST snapshot
  book,        \* token -> [valid, content, connection it was last replaced on]
  open,        \* token -> number of open uncertainty intervals
  spawned,     \* tokens for which a _recover_token task is about to run
  fetch,       \* token -> the request of its running _recover_token task
  task,        \* task -> where its walk over the markets stands
  ended,       \* markets past their end
  failures     \* REST requests that have failed and full books refused

stream == <<exchange, changes, connection, connected, frames>>
books == <<behind, book, open>>
repair == <<spawned, fetch, task>>
recoveryVars == <<stream, queue, books, repair, ended, failures>>

\* The tasks that walk over all markets: _activate_markets at startup and in
\* the discovery loop, the validation loop, and one _recover_all_books per
\* reconnection, which bears the number of its connection.
StartupWalk == -2
DiscoveryWalk == -1
ValidationWalk == 0
Reconnections == 2 .. MaxConnections
Tasks == {StartupWalk, DiscoveryWalk, ValidationWalk} \cup Reconnections

Idle == [stage |-> "idle"]

RecoveryInit ==
  /\ exchange = [t \in Tokens |-> [l \in Levels |-> 0]]
  /\ changes = 0 /\ connection = 0 /\ connected = FALSE
  /\ frames = <<>> /\ queue = <<>>
  /\ behind = [t \in Tokens |-> 0]
  /\ book = [t \in Tokens |-> [valid |-> FALSE, content |-> [l \in Levels |-> 0],
                               connection |-> 0]]
  /\ open = [t \in Tokens |-> 0]
  /\ spawned = {}
  /\ fetch = [t \in Tokens |-> Idle]
  /\ task = [k \in Tasks |-> IF k = StartupWalk THEN [stage |-> "spawned"] ELSE Idle]
  /\ ended = {}
  /\ failures = 0

-----------------------------------------------------------------------------
(* The exchange and the connection *)

\* The exchange changes one level of one book and, while a subscriber is
\* connected, sends it the level's new absolute size.
ExchangeChanges(t, l) ==
  /\ changes < MaxChanges
  /\ changes' = changes + 1
  /\ exchange' = [exchange EXCEPT ![t][l] = changes']
  /\ frames' = IF connected
               THEN Append(frames, [kind |-> "price_change", token |-> t, level |-> l,
                                    size |-> changes', after |-> exchange'[t],
                                    connection |-> connection])
               ELSE frames
  /\ UNCHANGED <<connection, connected, queue, books, repair, ended, failures>>

\* A new subscription is answered by a full book per token.  From the second
\* connection on, _recover_all_books is spawned.
ConnectionOpens ==
  /\ task[StartupWalk] = Idle
  /\ ~connected /\ connection < MaxConnections
  /\ connected' = TRUE
  /\ connection' = connection + 1
  /\ \E order \in TokenOrders :
       frames' = [i \in DOMAIN order |->
                   [kind |-> "book", token |-> order[i], after |-> exchange[order[i]],
                    connection |-> connection']]
  /\ task' = IF connection' > 1
             THEN [task EXCEPT ![connection'] = [stage |-> "spawned"]] ELSE task
  /\ UNCHANGED <<exchange, changes, queue, books, spawned, fetch, ended, failures>>

\* A refused connection counts as an attempt.
ConnectionFails ==
  /\ task[StartupWalk] = Idle
  /\ ~connected /\ connection < MaxConnections
  /\ connection' = connection + 1
  /\ UNCHANGED <<exchange, changes, connected, frames, queue, books, repair, ended, failures>>

\* Frames on the wire are lost.  No book is touched.
Disconnect ==
  /\ connected
  /\ connected' = FALSE
  /\ frames' = <<>>
  /\ UNCHANGED <<exchange, changes, connection, queue, books, repair, ended, failures>>

\* The receive loop numbers the frame and offers it to the parser queue; when
\* the queue is full only parser_enqueue_failures tells.
ReceiveFrame ==
  /\ frames # <<>>
  /\ frames' = Tail(frames)
  /\ queue' = IF Len(queue) < QueueCapacity THEN Append(queue, Head(frames)) ELSE queue
  /\ UNCHANGED <<exchange, changes, connection, connected, books, repair, ended, failures>>

MarketEnds(m) ==
  /\ m \in EndingMarkets \ ended
  /\ ended' = ended \cup {m}
  /\ UNCHANGED <<stream, queue, books, repair, failures>>

-----------------------------------------------------------------------------
(* _book_worker: one queued frame *)

Invalid(b) == [b EXCEPT !.valid = FALSE]

Fresh(content, c) == [valid |-> TRUE, content |-> content, connection |-> c]

\* Only the newest open interval is closed.
CloseOne(n) == IF n = 0 THEN 0 ELSE n - 1

TakeFrame ==
  /\ queue # <<>>
  /\ queue' = Tail(queue)
  /\ behind' = [t \in Tokens |-> IF behind[t] = 0 THEN 0 ELSE behind[t] - 1]
  /\ UNCHANGED <<stream, fetch, task, ended>>

IsStaleFrame(f) == behind[f.token] > 0

\* replace ignores an old snapshot; apply_snapshot closes the interval anyway.
WorkerTakesBook ==
  /\ TakeFrame
  /\ LET f == Head(queue) IN
       /\ f.kind = "book"
       /\ book' = IF IsStaleFrame(f) THEN book
                  ELSE [book EXCEPT ![f.token] = Fresh(f.after, f.connection)]
       /\ open' = [open EXCEPT ![f.token] = CloseOne(@)]
  /\ UNCHANGED <<spawned, failures>>

\* The raised frame: mark_uncertain, then spawn _recover_token.
RejectUpdate(t, b) ==
  /\ book' = [book EXCEPT ![t] = Invalid(b)]
  /\ open' = [open EXCEPT ![t] = @ + 1]
  /\ spawned' = spawned \cup {t}

\* A full book that fails the checks of replace (an old one is not checked).
WorkerRefusesBook ==
  /\ failures < MaxFailures
  /\ failures' = failures + 1
  /\ TakeFrame
  /\ LET f == Head(queue) IN
       /\ f.kind = "book"
       /\ ~IsStaleFrame(f)
       /\ RejectUpdate(f.token, book[f.token])

Updated(f) == [book[f.token] EXCEPT !.content[f.level] = f.size]

\* An invalid book refuses every update, also an old one.
WorkerRefusesUpdate ==
  /\ TakeFrame
  /\ LET f == Head(queue) IN
       /\ f.kind = "price_change"
       /\ ~book[f.token].valid
       /\ RejectUpdate(f.token, book[f.token])
  /\ UNCHANGED failures

WorkerSkipsUpdate ==
  /\ TakeFrame
  /\ LET f == Head(queue) IN
       /\ f.kind = "price_change"
       /\ book[f.token].valid
       /\ IsStaleFrame(f)
  /\ UNCHANGED <<book, open, spawned, failures>>

WorkerAppliesUpdate ==
  /\ TakeFrame
  /\ LET f == Head(queue) IN
       /\ f.kind = "price_change"
       /\ book[f.token].valid
       /\ ~IsStaleFrame(f)
       /\ book' = [book EXCEPT ![f.token] = Updated(f)]
  /\ UNCHANGED <<open, spawned, failures>>

\* A check fails: only a book that differs from the exchange's can fail it,
\* and the levels are already changed then.
WorkerDetectsMismatch ==
  /\ TakeFrame
  /\ LET f == Head(queue) IN
       /\ f.kind = "price_change"
       /\ book[f.token].valid
       /\ ~IsStaleFrame(f)
       /\ Updated(f).content # f.after
       /\ RejectUpdate(f.token, Updated(f))
  /\ UNCHANGED failures

-----------------------------------------------------------------------------
(* REST snapshots.  The answer shows the book at the time it was served and *)
(* is numbered when it arrives, after every frame already in the queue.     *)

\* apply_snapshot of a REST answer, the books in marked being invalidated in
\* the same step.
RestSnapshot(t, content, marked) ==
  /\ book' = [u \in Tokens |-> IF u = t THEN Fresh(content, connection)
                               ELSE IF u \in marked THEN Invalid(book[u]) ELSE book[u]]
  /\ open' = [u \in Tokens |-> IF u = t THEN CloseOne(open[u])
                               ELSE IF u \in marked THEN open[u] + 1 ELSE open[u]]
  /\ behind' = [behind EXCEPT ![t] = Len(queue)]

\* mark_uncertain of all these tokens.
MarkUncertain(marked) ==
  /\ book' = [u \in Tokens |-> IF u \in marked THEN Invalid(book[u]) ELSE book[u]]
  /\ open' = [u \in Tokens |-> IF u \in marked THEN open[u] + 1 ELSE open[u]]
  /\ UNCHANGED behind

RecoverTokenStarts(t) ==
  /\ t \in spawned
  /\ spawned' = spawned \ {t}
  /\ fetch' = IF fetch[t] = Idle /\ MarketOf(t) \notin ended
              THEN [fetch EXCEPT ![t] = [stage |-> "requested"]] ELSE fetch
  /\ UNCHANGED <<stream, queue, books, task, ended, failures>>

RecoverTokenServed(t) ==
  /\ fetch[t].stage = "requested"
  /\ fetch' = [fetch EXCEPT ![t] = [stage |-> "answered", content |-> exchange[t]]]
  /\ UNCHANGED <<stream, queue, books, spawned, task, ended, failures>>

RecoverTokenApplies(t) ==
  /\ fetch[t].stage = "answered"
  /\ RestSnapshot(t, fetch[t].content, {})
  /\ fetch' = [fetch EXCEPT ![t] = Idle]
  /\ UNCHANGED <<stream, queue, spawned, task, ended, failures>>

\* The exception ends the background task: no mark, no retry.
RecoverTokenFails(t) ==
  /\ fetch[t].stage = "requested"
  /\ failures < MaxFailures
  /\ failures' = failures + 1
  /\ fetch' = [fetch EXCEPT ![t] = Idle]
  /\ UNCHANGED <<stream, queue, books, spawned, task, ended>>

\* The answer fails the checks of replace: the book is invalid, unmarked.
RecoverTokenRejected(t) ==
  /\ fetch[t].stage = "answered"
  /\ failures < MaxFailures
  /\ failures' = failures + 1
  /\ book' = [book EXCEPT ![t] = Invalid(@)]
  /\ fetch' = [fetch EXCEPT ![t] = Idle]
  /\ UNCHANGED <<stream, queue, behind, open, spawned, task, ended>>

-----------------------------------------------------------------------------
(* The walks over the markets, each calling _snapshot_market *)

\* Faulty variant: validation refreshes only markets known to be invalid.
WantsInvalidMarket(k, m) ==
  k \in Reconnections \/ \E t \in TokensIn(m) : ~book[t].valid

\* The condition checked when a walk comes to market m.
WantsMarket(k, m) ==
  CASE k = ValidationWalk -> m \notin ended
    [] k \in {StartupWalk, DiscoveryWalk} -> \E t \in TokensIn(m) : ~book[t].valid
    [] k \in Reconnections -> TRUE

\* The markets a walk is started over: validation looks at the end time later.
WalkFrom(k) == IF k = ValidationWalk THEN DOMAIN ActiveMarkets ELSE DOMAIN ActiveMarkets \ ended

\* Faulty variant: the walk ends with the first market it stops at.
OnlyStop(k, todo) ==
  LET stops == {m \in todo : WantsMarket(k, m)}
  IN  IF stops = {} THEN Idle
      ELSE [stage |-> "requested", market |-> Min(stops), index |-> 1, todo |-> {}]

\* The first request of the next market the walk stops at, if there is one.
NextStop(k, todo) ==
  LET stops == {m \in todo : WantsMarket(k, m)}
  IN  IF stops = {} THEN Idle
      ELSE [stage |-> "requested", market |-> Min(stops), index |-> 1,
            todo |-> {m \in todo : m > Min(stops)}]

TokenAt(w) == ActiveMarkets[w.market][w.index]

\* What follows the token a walk is at: the next token, or the next market.
NextRequest(k, w) ==
  IF w.index < Len(ActiveMarkets[w.market])
  THEN [stage |-> "requested", market |-> w.market, index |-> w.index + 1, todo |-> w.todo]
  ELSE NextStop(k, w.todo)

\* _recover_all_books marks both tokens of a market when it comes to it.
MarkedOnEntry(k, w) ==
  IF k \in Reconnections /\ w # Idle /\ w.index = 1 THEN TokensIn(w.market) ELSE {}

WalkStarts(k) ==
  /\ \/ k \in {DiscoveryWalk, ValidationWalk} /\ task[k] = Idle /\ task[StartupWalk] = Idle
     \/ task[k].stage = "spawned"
  /\ task' = [task EXCEPT ![k] = NextStop(k, WalkFrom(k))]
  /\ MarkUncertain(MarkedOnEntry(k, task'[k]))
  /\ UNCHANGED <<stream, queue, spawned, fetch, ended, failures>>

WalkServed(k) ==
  /\ task[k].stage = "requested"
  /\ task' = [task EXCEPT ![k] = [stage |-> "answered", market |-> @.market,
                                  index |-> @.index, todo |-> @.todo,
                                  content |-> exchange[TokenAt(@)]]]
  /\ UNCHANGED <<stream, queue, books, spawned, fetch, ended, failures>>

WalkApplies(k) ==
  /\ task[k].stage = "answered"
  /\ task' = [task EXCEPT ![k] = NextRequest(k, @)]
  /\ RestSnapshot(TokenAt(task[k]), task[k].content, MarkedOnEntry(k, task'[k]))
  /\ UNCHANGED <<stream, queue, spawned, fetch, ended, failures>>

\* A failed request or a refused answer marks the token and the walk goes on.
WalkFails(k) ==
  /\ task[k].stage \in {"requested", "answered"}
  /\ failures < MaxFailures
  /\ failures' = failures + 1
  /\ task' = [task EXCEPT ![k] = NextRequest(k, @)]
  /\ MarkUncertain({TokenAt(task[k])} \cup MarkedOnEntry(k, task'[k]))
  /\ UNCHANGED <<stream, queue, spawned, fetch, ended>>

-----------------------------------------------------------------------------
Worker ==
  \/ WorkerTakesBook
  \/ WorkerRefusesUpdate
  \/ WorkerSkipsUpdate
  \/ WorkerAppliesUpdate
  \/ WorkerDetectsMismatch

RecoverToken(t) ==
  RecoverTokenStarts(t) \/ RecoverTokenServed(t) \/ RecoverTokenApplies(t)

Walk(k) == WalkStarts(k) \/ WalkServed(k) \/ WalkApplies(k)

RecoveryNext ==
  \/ \E t \in Tokens, l \in Levels : ExchangeChanges(t, l)
  \/ ConnectionOpens \/ ConnectionFails \/ Disconnect \/ ReceiveFrame
  \/ \E m \in DOMAIN ActiveMarkets : MarketEnds(m)
  \/ Worker
  \/ WorkerRefusesBook
  \/ \E t \in Tokens : RecoverToken(t) \/ RecoverTokenFails(t) \/ RecoverTokenRejected(t)
  \/ \E k \in Tasks : Walk(k) \/ WalkFails(k)

RecoverySpec == RecoveryInit /\ [][RecoveryNext]_recoveryVars

\* The event loop runs every ready task, the periodic loops come around again,
\* and a REST request that does not fail is answered.  The exchange, the
\* network and the market's end owe nothing.
RecoveryFairness ==
  /\ WF_recoveryVars(ReceiveFrame)
  /\ WF_recoveryVars(Worker)
  /\ \A t \in Tokens : WF_recoveryVars(RecoverToken(t))
  /\ \A k \in Tasks : WF_recoveryVars(Walk(k))

RecoveryFairSpec == RecoverySpec /\ RecoveryFairness

-----------------------------------------------------------------------------
(* Properties *)

Walking == [stage : {"requested"}, market : DOMAIN ActiveMarkets, index : Nat \ {0},
            todo : SUBSET DOMAIN ActiveMarkets]
           \cup [stage : {"answered"}, market : DOMAIN ActiveMarkets, index : Nat \ {0},
                 todo : SUBSET DOMAIN ActiveMarkets, content : Content]

TypeOK ==
  /\ exchange \in [Tokens -> Content] /\ changes \in 0 .. MaxChanges
  /\ connection \in 0 .. MaxConnections /\ connected \in BOOLEAN
  /\ Len(queue) <= QueueCapacity
  /\ behind \in [Tokens -> 0 .. QueueCapacity]
  /\ \A t \in Tokens : behind[t] <= Len(queue)
  /\ book \in [Tokens -> [valid : BOOLEAN, content : Content,
                          connection : 0 .. MaxConnections]]
  /\ open \in [Tokens -> Nat] /\ spawned \subseteq Tokens
  /\ fetch \in [Tokens -> {Idle} \cup [stage : {"requested"}]
                          \cup [stage : {"answered"}, content : Content]]
  /\ task \in [Tasks -> {Idle, [stage |-> "spawned"]} \cup Walking]
  /\ ended \subseteq EndingMarkets /\ failures \in 0 .. MaxFailures

\* When a reconnection's recovery walk is through and nothing failed,
\* every book of a market still open was replaced on the new connection: no
\* frame queued before the answer, and no other walk, brought older levels
\* back in the meantime (supervisor.py, _recover_all_books; the collector
\* reports snapshot_recovery_completed at this point).
CompletedRecoveryReplacedAll ==
  [][\A k \in Reconnections :
       task[k] # Idle /\ task'[k] = Idle /\ failures' = 0 =>
         \A t \in Tokens : MarketOf(t) \in ended' \/ book'[t].connection >= k]_recoveryVars

Exact(t) == book[t].valid /\ book[t].content = exchange[t]

\* Whatever was dropped, lost with a connection, applied twice or out of
\* order, once the exchange is quiet every book of an open market ends up
\* valid and equal to the exchange's, and stays so (the periodic validation
\* snapshots of supervisor.py, _snapshot_validation_loop).
BooksConverge ==
  <>[](\A t \in Tokens : MarketOf(t) \in ended \/ Exact(t))
=============================================================================
