---------------------------- MODULE MarketSocket ----------------------------
(* The collector's two WebSockets: the CLOB market channel (clob_ws.py) and  *)
(* the RTDS price stream (rtds_ws.py).  Each has a task that connects,       *)
(* subscribes, receives until the connection ends, backs off and connects    *)
(* again, and a heartbeat task beside it.  A step is what a task does        *)
(* between two awaits.                                                       *)
(*                                                                           *)
(* Time is abstract: a timer that is running may fire.  Frames of the feed   *)
(* matter here only as signs of life; what they carry is BookRecovery's.     *)
EXTENDS Naturals, Sequences, FiniteSets

CONSTANTS
  Sockets,        \* "clob" and "rtds"
  MaxMissed,      \* max_missed_heartbeats
  MayRefuse,      \* whether the server may refuse the upgrade to a WebSocket
  ExponentLimit,  \* the largest exponent 2 ** attempt whose product is a float
  MaxFaults       \* bound on faults: of connections, of requests, late answers

ASSUME SocketAssumption ==
  /\ Sockets \subseteq {"clob", "rtds"} /\ "clob" \in Sockets
  /\ MaxMissed \in Nat \ {0} /\ ExponentLimit \in Nat
  /\ MaxFaults \in Nat /\ MayRefuse \in BOOLEAN

VARIABLES
  desired,   \* _desired_assets of the market channel
  phase,     \* where each socket's run() is
  link,      \* the connection: "none", "up", "silent" (half open), "closed"
  wire,      \* subscription frames sent and not yet at the server
  served,    \* the tokens the server sends on this connection
  heart,     \* the heartbeat task: at, missed, and whether RTDS was heard
  attempts,  \* ReconnectPolicy.attempt
  faults, stop

socket == <<phase, link, wire, served, heart, attempts>>

Phases == {"off", "loop", "connecting", "locking", "receiving", "backoff", "ended", "died"}

NoHeart == [at |-> "off", missed |-> 0, heard |-> FALSE]

SocketInit ==
  /\ desired = {}
  /\ phase = [s \in Sockets |-> "off"]
  /\ link = [s \in Sockets |-> "none"]
  /\ wire = <<>> /\ served = {}
  /\ heart = [s \in Sockets |-> NoHeart]
  /\ attempts = [s \in Sockets |-> 0]
  /\ faults = 0 /\ stop = FALSE

\* _connection is set and stats.connected is TRUE.
Connected(s) == phase[s] \in {"locking", "receiving"}

IsOpen(s) == link[s] \in {"up", "silent"}

Fault == faults < MaxFaults /\ faults' = faults + 1

-----------------------------------------------------------------------------
(* run(): connecting *)

\* The market channel waits until there is something to subscribe to.
HasWork(s) == s = "rtds" \/ desired # {}

Connect(s) ==
  /\ phase[s] = "loop" /\ ~stop /\ HasWork(s)
  /\ phase' = [phase EXCEPT ![s] = "connecting"]
  /\ heart' = [heart EXCEPT ![s] = NoHeart]
  /\ UNCHANGED <<desired, link, wire, served, attempts, faults, stop>>

\* The loop's condition is looked at again.
LoopEnds(s) ==
  /\ phase[s] = "loop" /\ stop
  /\ phase' = [phase EXCEPT ![s] = "ended"]
  /\ UNCHANGED <<desired, link, wire, served, heart, attempts, faults, stop>>

\* The initial subscription names everything desired when it is written.
Subscription == [op |-> "market", tokens |-> desired]

\* From the moment the subscription is written the heartbeat runs.
BeginReceiving(s) ==
  /\ phase' = [phase EXCEPT ![s] = "receiving"]
  /\ heart' = [heart EXCEPT ![s] = [NoHeart EXCEPT !.at = "sleep"]]
  /\ wire' = IF s = "clob" THEN <<Subscription>> ELSE wire

\* The connection opens.  The market channel's lock is usually free, and the
\* subscription follows without a pause; else the task waits for the lock.
Opens(s, lockHeld) ==
  /\ phase[s] = "connecting"
  /\ link' = [link EXCEPT ![s] = "up"]
  /\ served' = IF s = "clob" THEN {} ELSE served
  /\ IF s = "clob" /\ lockHeld
     THEN /\ phase' = [phase EXCEPT ![s] = "locking"]
          /\ wire' = <<>> /\ UNCHANGED heart
     ELSE BeginReceiving(s)
  /\ UNCHANGED <<desired, attempts, faults, stop>>

\* The exponent grows with every connection that was not stable; its power
\* times a float overflows past the limit, and the error ends run().
Delayed(s, exponent) ==
  /\ attempts' = [attempts EXCEPT ![s] = IF exponent > ExponentLimit THEN exponent
                                         ELSE exponent + 1]
  /\ phase' = [phase EXCEPT ![s] = IF exponent > ExponentLimit THEN "died" ELSE "backoff"]

\* What follows a connection: the end if stop is set, else a delay.
AfterConnection(s, stable) ==
  /\ link' = [link EXCEPT ![s] = "none"]
  /\ heart' = [heart EXCEPT ![s] = NoHeart]
  /\ wire' = IF s = "clob" THEN <<>> ELSE wire
  /\ served' = IF s = "clob" THEN {} ELSE served
  /\ IF stop
     THEN phase' = [phase EXCEPT ![s] = "ended"] /\ UNCHANGED attempts
     ELSE Delayed(s, IF stable THEN 0 ELSE attempts[s])

\* The lock is handed over.  If the connection went meanwhile the send raises.
LockAcquired(lockHeld) ==
  /\ phase["clob"] = "locking" /\ ~lockHeld
  /\ IF IsOpen("clob")
     THEN BeginReceiving("clob") /\ UNCHANGED <<link, served, attempts>>
     ELSE AfterConnection("clob", FALSE)
  /\ UNCHANGED <<desired, faults, stop>>

\* A failed or timed-out attempt is caught and repeated.
ConnectFails(s) ==
  /\ phase[s] = "connecting" /\ Fault
  /\ AfterConnection(s, FALSE)
  /\ UNCHANGED <<desired, stop>>

\* An upgrade answered with an HTTP error raises an exception that is neither
\* ConnectionClosed, OSError nor TimeoutError: run() ends with it.
ConnectRefused(s) ==
  /\ phase[s] = "connecting" /\ MayRefuse /\ Fault
  /\ phase' = [phase EXCEPT ![s] = "died"]
  /\ UNCHANGED <<desired, link, wire, served, heart, attempts, stop>>

\* The receive loop ends with the connection, stable for long enough or not.
ConnectionEnds(s) ==
  /\ phase[s] = "receiving" /\ link[s] = "closed"
  /\ \E stable \in BOOLEAN : AfterConnection(s, stable)
  /\ UNCHANGED <<desired, faults, stop>>

BackoffEnds(s) ==
  /\ phase[s] = "backoff"
  /\ phase' = [phase EXCEPT ![s] = "loop"]
  /\ UNCHANGED <<desired, link, wire, served, heart, attempts, faults, stop>>

-----------------------------------------------------------------------------
(* Heartbeats *)

LinkIs(s, state) == link' = [link EXCEPT ![s] = state]

\* Faulty variant: the missed answers are counted and nothing is closed.
CountMissForever(s) ==
  /\ heart' = [heart EXCEPT ![s].missed = 1, ![s].at = "sleep"]
  /\ UNCHANGED link

\* One more answer is missing; too many in a row close the connection, which
\* takes the peer's answer or close_timeout and happens either way.
CountMiss(s) ==
  LET missed == heart[s].missed + 1 IN
  IF missed >= MaxMissed
  THEN heart' = [heart EXCEPT ![s] = NoHeart] /\ LinkIs(s, "closed")
  ELSE /\ heart' = [heart EXCEPT ![s].missed = missed, ![s].at = "sleep"]
       /\ UNCHANGED link

\* The market channel sends PING and waits for PONG.  On a closed connection
\* the send raises and the heartbeat task ends.
Ping ==
  /\ heart["clob"].at = "sleep" /\ ~stop
  /\ heart' = [heart EXCEPT !["clob"] = IF IsOpen("clob") THEN [@ EXCEPT !.at = "wait"] ELSE NoHeart]
  /\ UNCHANGED <<desired, phase, link, wire, served, attempts, faults, stop>>

\* PONG arrives during the wait, be it the answer to this PING or a late one.
\* One that comes between two waits is forgotten when the event is cleared.
Pong ==
  /\ heart["clob"].at = "wait" /\ link["clob"] = "up"
  /\ heart' = [heart EXCEPT !["clob"].at = "sleep", !["clob"].missed = 0]
  /\ UNCHANGED <<desired, phase, link, wire, served, attempts, faults, stop>>

\* No answer can come on a connection that is silent or closed.
PongMissed ==
  /\ heart["clob"].at = "wait" /\ link["clob"] # "up"
  /\ CountMiss("clob")
  /\ UNCHANGED <<desired, phase, wire, served, attempts, faults, stop>>

\* The wait is over before the answer of a live server is there.
PongLate ==
  /\ heart["clob"].at = "wait" /\ link["clob"] = "up" /\ Fault
  /\ CountMiss("clob")
  /\ UNCHANGED <<desired, phase, wire, served, attempts, stop>>

\* RTDS answers no PING: any frame is a sign of life.
Activity ==
  /\ phase["rtds"] = "receiving" /\ link["rtds"] = "up"
  /\ heart' = [heart EXCEPT !["rtds"].heard = TRUE, !["rtds"].missed = 0]
  /\ UNCHANGED <<desired, phase, link, wire, served, attempts, faults, stop>>

\* Once per interval the RTDS heartbeat looks whether a frame came since.
Check ==
  /\ heart["rtds"].at = "sleep" /\ ~stop /\ IsOpen("rtds")
  /\ IF heart["rtds"].heard
     THEN /\ heart' = [heart EXCEPT !["rtds"].heard = FALSE, !["rtds"].missed = 0]
          /\ UNCHANGED <<link, faults>>
     ELSE /\ CountMiss("rtds")
          /\ IF link["rtds"] = "up" THEN Fault ELSE UNCHANGED faults
  /\ UNCHANGED <<desired, phase, wire, served, attempts, stop>>

-----------------------------------------------------------------------------
(* The server and the network *)

\* Subscription frames arrive in the order they were sent.
Deliver ==
  /\ wire # <<>> /\ link["clob"] = "up"
  /\ wire' = Tail(wire)
  /\ served' = IF Head(wire).op = "unsubscribe" THEN served \ Head(wire).tokens
               ELSE served \cup Head(wire).tokens
  /\ UNCHANGED <<desired, phase, link, heart, attempts, faults, stop>>

\* The peer or the network closes the connection.
LinkDrops(s) ==
  /\ IsOpen(s) /\ Fault /\ LinkIs(s, "closed")
  /\ UNCHANGED <<desired, phase, wire, served, heart, attempts, stop>>

\* The peer disappears without a word: sends succeed, nothing arrives.
LinkGoesSilent(s) ==
  /\ link[s] = "up" /\ Fault /\ LinkIs(s, "silent")
  /\ UNCHANGED <<desired, phase, wire, served, heart, attempts, stop>>
=============================================================================
