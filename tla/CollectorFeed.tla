---------------------------- MODULE CollectorFeed ----------------------------
(* What keeps the collector subscribed to the markets it should record: the  *)
(* discovery loop (supervisor.py, gamma_client.py) polls Gamma and hands the *)
(* tokens of open and just closed markets to the market channel, whose       *)
(* sockets come and go (MarketSocket), until the supervisor shuts all down.  *)
(*                                                                           *)
(* Books, snapshots and the raw archive are BookRecovery's and RawArchive's: *)
(* here a snapshot is an await of the discovery loop, and the archive's stop *)
(* is the last step of run().                                                *)
EXTENDS MarketSocket

CONSTANTS
  Markets,     \* the markets there will be
  Upcoming,    \* those Gamma does not list yet
  MayEnd       \* those whose end time passes

ASSUME FeedAssumption ==
  /\ Upcoming \subseteq Markets /\ MayEnd \subseteq Markets

VARIABLES
  stage,     \* "open" (or upcoming), "grace" after its end, or "past" that
  listed,    \* the markets Gamma lists
  main,      \* where the supervisor's run() is
  disc       \* where discover_once, _activate_markets and update_assets are

world == <<stage, listed>>
vars == <<desired, phase, link, wire, served, heart, attempts, faults, stop,
          stage, listed, main, disc>>

TokensOf(m) == {<<m, "UP">>, <<m, "DOWN">>}
AllTokens(ms) == UNION {TokensOf(m) : m \in ms}

At(place) == [at |-> place, want |-> {}, removed |-> {}]

Init ==
  /\ SocketInit
  /\ stage = [m \in Markets |-> "open"]
  /\ listed = Markets \ Upcoming
  /\ main = "initial" /\ disc = At("polling")

-----------------------------------------------------------------------------
(* Discovery *)

\* Open and upcoming markets, and those within the grace after their close
\* whose tokens were subscribed.
IsRetained(m) == stage[m] = "grace" /\ TokensOf(m) \cap desired # {}

Wanted(seen) == AllTokens({m \in seen : stage[m] = "open" \/ IsRetained(m)})

\* The broad query finds the listed markets that are not closed, a query by
\* slug its own market, closed or not.
Found(broad, slugs) == {m \in listed : m \in slugs \/ (broad /\ stage[m] = "open")}

\* A request failed with all its retries; its answer is left out silently.
RequestFailed(broad, slugs) == ~broad \/ slugs # listed

\* The answers are in, and the market information of those found.  What to
\* want is decided before the snapshots of books that are not valid are
\* awaited.
PollAnswered ==
  /\ disc.at = "polling"
  /\ \E broad \in BOOLEAN, slugs \in SUBSET listed :
       /\ disc' = [At("snapshots") EXCEPT !.want = Wanted(Found(broad, slugs))]
       /\ IF RequestFailed(broad, slugs) THEN Fault ELSE UNCHANGED faults
  /\ UNCHANGED <<desired, socket, stop, world, main>>

\* An answer that is not JSON raises: the loop carries on, the first
\* discovery ends run().
PollRaises ==
  /\ disc.at = "polling" /\ Fault
  /\ disc' = At(IF main = "initial" THEN "off" ELSE "idle")
  /\ main' = IF main = "initial" THEN "done" ELSE main
  /\ stop' = (stop \/ main = "initial")
  /\ UNCHANGED <<desired, socket, world>>

-----------------------------------------------------------------------------
(* update_assets: the lock is held while the differences are sent *)

LockHeld == disc.at \in {"subscribing", "unsubscribing"}

\* The connection update_assets took is still the channel's, and open.
CanSend == phase["clob"] = "receiving" /\ IsOpen("clob")

Send(operation, tokens) == wire' = Append(wire, [op |-> operation, tokens |-> tokens])

\* The first activation is run()'s own and starts the tasks.
DiscoveryDone ==
  /\ disc' = At(IF main = "initial" THEN "polling" ELSE "idle")
  /\ main' = IF main = "initial" THEN "running" ELSE main
  /\ phase' = IF main = "initial" THEN [s \in Sockets |-> "loop"] ELSE phase

SendRaises == ~CanSend /\ disc' = At("idle") /\ UNCHANGED <<wire, main, phase>>

\* Faulty variant: the set is replaced before the differences are taken.
AddedAfterwards(want) == {}

Added(want) == want \ desired

UpdateAssets ==
  /\ disc.at = "snapshots" /\ phase["clob"] # "locking"
  /\ LET added == Added(disc.want)
         removed == desired \ disc.want
     IN  /\ desired' = disc.want
         /\ IF ~Connected("clob") \/ (added = {} /\ removed = {})
            THEN DiscoveryDone /\ UNCHANGED wire
            ELSE \/ SendRaises
                 \/ /\ CanSend /\ added # {}
                    /\ Send("subscribe", added)
                    /\ disc' = [At("subscribing") EXCEPT !.removed = removed]
                    /\ UNCHANGED <<main, phase>>
                 \/ /\ CanSend /\ added = {}
                    /\ Send("unsubscribe", removed)
                    /\ disc' = At("unsubscribing")
                    /\ UNCHANGED <<main, phase>>
  /\ UNCHANGED <<link, served, heart, attempts, faults, stop, world>>

\* The await of the first send is over; or it, or the second, raises.
Subscribed ==
  /\ disc.at = "subscribing"
  /\ \/ SendRaises
     \/ disc.removed = {} /\ DiscoveryDone /\ UNCHANGED wire
     \/ /\ disc.removed # {} /\ CanSend
        /\ Send("unsubscribe", disc.removed)
        /\ disc' = At("unsubscribing")
        /\ UNCHANGED <<main, phase>>
  /\ UNCHANGED <<desired, link, served, heart, attempts, faults, stop, world>>

Unsubscribed ==
  /\ disc.at = "unsubscribing"
  /\ SendRaises \/ (DiscoveryDone /\ UNCHANGED wire)
  /\ UNCHANGED <<desired, link, served, heart, attempts, faults, stop, world>>

\* Faulty variant: the loop does not look at the stop event.
PollForever ==
  /\ disc.at = "idle"
  /\ disc' = At("polling")
  /\ UNCHANGED <<desired, socket, faults, stop, world, main>>

\* The loop waits for its next poll or for stop.
NextPoll ==
  /\ disc.at = "idle"
  /\ disc' = At(IF stop THEN "ended" ELSE "polling")
  /\ UNCHANGED <<desired, socket, faults, stop, world, main>>

-----------------------------------------------------------------------------
(* The supervisor's run() *)

\* A signal, the end of the duration, or the status loop's disk emergency.
RequestStop ==
  /\ main = "running" /\ ~stop
  /\ stop' = TRUE /\ main' = "closing"
  /\ UNCHANGED <<desired, socket, faults, world, disc>>

\* close() of one socket after the other: only a connection that is there is
\* closed.
NextToClose(place) == IF place = "closing" /\ "rtds" \in Sockets THEN "closing rtds" ELSE "gathering"

CloseSocket(s) ==
  /\ main = IF s = "clob" THEN "closing" ELSE "closing rtds"
  /\ main' = NextToClose(main)
  /\ link' = IF Connected(s) THEN [link EXCEPT ![s] = "closed"] ELSE link
  /\ UNCHANGED <<desired, phase, wire, served, heart, attempts, faults, stop,
                 world, disc>>

HasEnded(s) == phase[s] \in {"ended", "died"}

\* gather() has every task's result, an exception that ended one included;
\* then the archive stops and the run is recorded as clean.
TasksGathered ==
  /\ main = "gathering" /\ disc.at = "ended" /\ \A s \in Sockets : HasEnded(s)
  /\ main' = "done"
  /\ UNCHANGED <<desired, socket, faults, stop, world, disc>>

-----------------------------------------------------------------------------
(* The world *)

MarketIsListed(m) ==
  /\ m \notin listed
  /\ listed' = listed \cup {m}
  /\ UNCHANGED <<desired, socket, faults, stop, stage, main, disc>>

MarketAges(m) ==
  /\ m \in MayEnd \cap listed /\ stage[m] # "past"
  /\ stage' = [stage EXCEPT ![m] = IF @ = "open" THEN "grace" ELSE "past"]
  /\ UNCHANGED <<desired, socket, faults, stop, listed, main, disc>>

-----------------------------------------------------------------------------
SocketStep(s) ==
  \/ Connect(s) \/ LoopEnds(s) \/ Opens(s, LockHeld)
  \/ ConnectionEnds(s) \/ BackoffEnds(s)

Discovery ==
  PollAnswered \/ UpdateAssets \/ Subscribed \/ Unsubscribed \/ NextPoll

Heartbeat == Ping \/ Pong \/ PongMissed

feed == <<world, main, disc>>

Next ==
  \/ \E s \in Sockets :
       /\ \/ SocketStep(s) \/ ConnectFails(s) \/ ConnectRefused(s)
          \/ LinkDrops(s) \/ LinkGoesSilent(s)
       /\ UNCHANGED feed
  \/ LockAcquired(LockHeld) /\ UNCHANGED feed
  \/ (Heartbeat \/ PongLate) /\ UNCHANGED feed
  \/ "rtds" \in Sockets /\ (Activity \/ Check) /\ UNCHANGED feed
  \/ Deliver /\ UNCHANGED feed
  \/ Discovery \/ PollRaises
  \/ RequestStop \/ (\E s \in Sockets : CloseSocket(s)) \/ TasksGathered
  \/ \E m \in Markets : MarketIsListed(m) \/ MarketAges(m)

Spec == Init /\ [][Next]_vars

\* Ready tasks run, timers fire, Gamma answers, a connection attempt that does
\* not fail succeeds and an open connection delivers.  Faults, the
\* stop and the markets' times owe nothing.
Fairness ==
  /\ \A s \in Sockets : WF_vars(SocketStep(s) /\ UNCHANGED feed)
  /\ WF_vars(LockAcquired(LockHeld) /\ UNCHANGED feed)
  /\ WF_vars(Heartbeat /\ UNCHANGED feed)
  /\ "rtds" \in Sockets => WF_vars(Activity /\ UNCHANGED feed) /\ WF_vars(Check /\ UNCHANGED feed)
  /\ WF_vars(Deliver /\ UNCHANGED feed)
  /\ WF_vars(Discovery)
  /\ \A s \in Sockets : WF_vars(CloseSocket(s))
  /\ WF_vars(TasksGathered)

FairSpec == Spec /\ Fairness

-----------------------------------------------------------------------------
(* Properties *)

\* Once every frame sent has arrived and no update is under way, an open
\* connection serves exactly the tokens that are desired: no order of
\* connecting, subscribing, update_assets and its failing sends leaves a token
\* out or one too many (clob_ws.py, update_assets and run).
SettledSubscription ==
  (phase["clob"] = "receiving" /\ link["clob"] = "up" /\ wire = <<>> /\ ~LockHeld)
    => served = desired

OpenMarkets == {m \in listed : stage[m] = "open"}

\* Every listed market that is open is being received, and so are the prices.
Fed ==
  /\ OpenMarkets # {} => link["clob"] = "up" /\ AllTokens(OpenMarkets) \subseteq served
  /\ "rtds" \in Sockets => link["rtds"] = "up"

\* Whatever connections were refused, lost or fell silent, whatever discovery
\* missed, in the end the open markets and the prices are received for good,
\* unless the collector stops or a socket's task has died (clob_ws.py and
\* rtds_ws.py, run and _heartbeat_loop; supervisor.py, _discovery_loop).
FeedRecovers == <>[](stop \/ (\E s \in Sockets : phase[s] = "died") \/ Fed)

\* A connection that was being opened while close() looked for one.
OpenedTooLate(s) == main = "gathering" /\ phase[s] = "receiving" /\ IsOpen(s)

\* A stop ends run(), which waits for all its tasks, unless a connection was
\* opened after close() had found none: its receive loop looks at nothing but
\* the connection (supervisor.py, run; clob_ws.py, run).
StopEnds == stop ~> (main = "done" \/ \E s \in Sockets : OpenedTooLate(s))
=============================================================================
