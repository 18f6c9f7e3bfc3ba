--------------------------- MODULE CollectorProofs ---------------------------
(***************************************************************************)
(* Proofs about the collector: the subscription of its market channel      *)
(* (CollectorFeed), and the repair of its books (BookRecovery).  The two   *)
(* models have no variable in common; each theorem is about one of them.   *)
(***************************************************************************)
EXTENDS CollectorFeed, BookRecovery, SumTheorems, SequenceTheorems

-----------------------------------------------------------------------------
(* The subscription: no order of connecting, subscribing, update_assets,   *)
(* failing sends and lost connections leaves a token out of an open        *)
(* connection's subscription or one too many in it.                        *)
(*                                                                         *)
(* The server is behind by the frames on the wire, of which there can be   *)
(* any number: the invariant is about what it will serve once all of them  *)
(* have arrived.                                                           *)

MarketTokens == AllTokens(Markets)
Frames == [op : {"market", "subscribe", "unsubscribe"}, tokens : SUBSET MarketTokens]

\* Whether token t is served once the frames w have reached a server that
\* serves the tokens s: the last frame that names t decides.
Arrives(t, s, w) ==
  \/ t \in s /\ \A i \in 1 .. Len(w) : t \notin w[i].tokens
  \/ \E i \in 1 .. Len(w) :
       /\ t \in w[i].tokens /\ w[i].op # "unsubscribe"
       /\ \A j \in 1 .. Len(w) : j > i => t \notin w[j].tokens

-----------------------------------------------------------------------------
(* The inductive invariant *)

Places == {"polling", "snapshots", "subscribing", "unsubscribing", "idle", "off", "ended"}

FeedTypes ==
  /\ desired \in SUBSET MarketTokens /\ served \in SUBSET MarketTokens
  /\ wire \in Seq(Frames)
  /\ phase \in [Sockets -> Phases]
  /\ link \in [Sockets -> {"none", "up", "silent", "closed"}]
  /\ listed \in SUBSET Markets
  /\ disc \in [at : Places, want : SUBSET MarketTokens, removed : SUBSET MarketTokens]

\* A connection whose task waits for the lock has been told nothing.
LockingIsSilent == phase["clob"] = "locking" => served = {} /\ wire = <<>>

\* Between its two sends update_assets still owes the tokens it will remove,
\* which are no longer desired.
Owed == IF disc.at = "subscribing" THEN disc.removed ELSE {}
OwedIsUndesired == Owed \cap desired = {}

\* What the frames on the wire come to is what is desired, and what is owed.
WireMeetsDesired ==
  CanSend => \A t \in MarketTokens : Arrives(t, served, wire) <=> t \in desired \cup Owed

FInv == FeedTypes /\ LockingIsSilent /\ OwedIsUndesired /\ WireMeetsDesired

-----------------------------------------------------------------------------
(* What frames do to what arrives *)

\* With nothing on the wire the server is not behind.
LEMMA NothingOnTheWire ==
  ASSUME NEW t, NEW s
  PROVE  Arrives(t, s, <<>>) <=> t \in s
BY DEF Arrives

\* The frame sent last decides about its tokens and leaves the others alone.
LEMMA FrameSent ==
  ASSUME NEW t, NEW s, NEW w \in Seq(Frames), NEW f \in Frames
  PROVE  Arrives(t, s, Append(w, f)) <=>
           IF t \in f.tokens THEN f.op # "unsubscribe" ELSE Arrives(t, s, w)
<1> DEFINE v == Append(w, f)
<1>1. /\ Len(w) \in Nat /\ Len(v) = Len(w) + 1 /\ v[Len(w) + 1] = f
      /\ \A i \in 1 .. Len(w) : v[i] = w[i]
  BY AppendProperties
<1> HIDE DEF v
<1>2. CASE t \in f.tokens
  <2>1. \A i \in 1 .. Len(v) : i = Len(v) \/ Len(v) > i
    BY <1>1
  <2>2. Len(v) \in 1 .. Len(v) /\ t \in v[Len(v)].tokens
    BY <1>1, <1>2
  <2>3. Arrives(t, s, v) <=> v[Len(v)].op # "unsubscribe"
    BY <1>1, <2>1, <2>2 DEF Arrives
  <2>4. QED
    BY <1>1, <1>2, <2>3 DEF v
<1>3. CASE t \notin f.tokens
  <2>1. \A i \in 1 .. Len(v) : i \in 1 .. Len(w) \/ v[i] = f
    BY <1>1
  <2>2. \A i \in 1 .. Len(w) : i \in 1 .. Len(v)
    BY <1>1
  <2>3. (\A i \in 1 .. Len(v) : t \notin v[i].tokens)
          <=> (\A i \in 1 .. Len(w) : t \notin w[i].tokens)
    BY <1>1, <1>3, <2>1, <2>2
  <2>4. ASSUME NEW i \in 1 .. Len(w)
        PROVE  (\A j \in 1 .. Len(v) : j > i => t \notin v[j].tokens)
                 <=> (\A j \in 1 .. Len(w) : j > i => t \notin w[j].tokens)
    BY <1>1, <1>3, <2>1, <2>2
  <2>5. \A i \in 1 .. Len(v) : t \in v[i].tokens => i \in 1 .. Len(w)
    BY <1>3, <2>1
  <2>6. Arrives(t, s, v) <=> Arrives(t, s, w)
    BY <1>1, <2>2, <2>3, <2>4, <2>5 DEF Arrives
  <2>7. QED
    BY <1>3, <2>6 DEF v
<1>4. QED
  BY <1>2, <1>3

\* The frame that arrives does at the server what it was going to do.
LEMMA FrameDelivered ==
  ASSUME NEW t, NEW s, NEW w \in Seq(Frames), w # <<>>
  PROVE  Arrives(t, IF Head(w).op = "unsubscribe" THEN s \ Head(w).tokens
                    ELSE s \cup Head(w).tokens, Tail(w)) <=> Arrives(t, s, w)
<1> DEFINE v == Tail(w)
           n == Len(w)
           after == IF w[1].op = "unsubscribe" THEN s \ w[1].tokens ELSE s \cup w[1].tokens
<1>1. /\ Head(w) = w[1] /\ n \in Nat \ {0} /\ Len(v) = n - 1
      /\ \A i \in 1 .. Len(v) : v[i] = w[i + 1]
  BY HeadTailProperties, EmptySeq
<1> HIDE DEF v, n
<1>2. \A i \in 1 .. n : i = 1 \/ (i - 1 \in 1 .. Len(v) /\ w[i] = v[i - 1])
  BY <1>1
<1>3. \A i \in 1 .. Len(v) : i + 1 \in 1 .. n /\ i + 1 > 1
  BY <1>1
<1>4. 1 \in 1 .. n
  BY <1>1
<1>5. (\A i \in 1 .. Len(v) : t \notin v[i].tokens)
        <=> (\A j \in 1 .. n : j > 1 => t \notin w[j].tokens)
  <2>1. ASSUME NEW i \in 1 .. Len(v), \A j \in 1 .. n : j > 1 => t \notin w[j].tokens
        PROVE  t \notin v[i].tokens
    BY <1>1, <1>3, <2>1
  <2>2. ASSUME NEW j \in 1 .. n, j > 1, \A i \in 1 .. Len(v) : t \notin v[i].tokens
        PROVE  t \notin w[j].tokens
    BY <1>2, <2>2
  <2>3. QED
    BY <2>1, <2>2
<1>6. ASSUME NEW i \in 1 .. Len(v)
      PROVE  (\A j \in 1 .. Len(v) : j > i => t \notin v[j].tokens)
               <=> (\A j \in 1 .. n : j > i + 1 => t \notin w[j].tokens)
  <2>1. ASSUME NEW j \in 1 .. Len(v), j > i, \A k \in 1 .. n : k > i + 1 => t \notin w[k].tokens
        PROVE  t \notin v[j].tokens
    <3>1. j + 1 > i + 1
      BY <1>1, <2>1
    <3>2. QED
      BY <1>1, <1>3, <2>1, <3>1
  <2>2. ASSUME NEW j \in 1 .. n, j > i + 1, \A k \in 1 .. Len(v) : k > i => t \notin v[k].tokens
        PROVE  t \notin w[j].tokens
    <3>1. j # 1 /\ j - 1 > i
      BY <1>1, <2>2
    <3>2. QED
      BY <1>2, <2>2, <3>1
  <2>3. QED
    BY <2>1, <2>2
<1>7. Arrives(t, after, v) => Arrives(t, s, w)
  <2>1. CASE t \in after /\ \A i \in 1 .. Len(v) : t \notin v[i].tokens
    <3>1. \A j \in 1 .. n : j > 1 => t \notin w[j].tokens
      BY <1>5, <2>1
    <3>2. CASE t \in w[1].tokens
      BY <1>4, <2>1, <3>1, <3>2 DEF Arrives, n
    <3>3. CASE t \notin w[1].tokens
      <4>1. \A j \in 1 .. n : t \notin w[j].tokens
        BY <1>1, <3>1, <3>3
      <4>2. QED
        BY <2>1, <3>3, <4>1 DEF Arrives, n
    <3>4. QED
      BY <3>2, <3>3
  <2>2. ASSUME NEW i \in 1 .. Len(v), t \in v[i].tokens, v[i].op # "unsubscribe",
               \A j \in 1 .. Len(v) : j > i => t \notin v[j].tokens
        PROVE  Arrives(t, s, w)
    BY <1>1, <1>3, <1>6, <2>2 DEF Arrives, n
  <2>3. QED
    BY <2>1, <2>2 DEF Arrives
<1>8. Arrives(t, s, w) => Arrives(t, after, v)
  <2>1. CASE t \in s /\ \A i \in 1 .. n : t \notin w[i].tokens
    BY <1>4, <1>5, <2>1 DEF Arrives
  <2>2. ASSUME NEW i \in 1 .. n, t \in w[i].tokens, w[i].op # "unsubscribe",
               \A j \in 1 .. n : j > i => t \notin w[j].tokens
        PROVE  Arrives(t, after, v)
    <3>1. CASE i = 1
      BY <1>5, <2>2, <3>1 DEF Arrives
    <3>2. CASE i # 1
      <4>1. i - 1 \in 1 .. Len(v) /\ w[i] = v[i - 1] /\ (i - 1) + 1 = i
        BY <1>1, <1>2, <3>2
      <4>2. \A j \in 1 .. Len(v) : j > i - 1 => t \notin v[j].tokens
        BY <1>6, <2>2, <4>1
      <4>3. QED
        BY <2>2, <4>1, <4>2 DEF Arrives
    <3>3. QED
      BY <3>1, <3>2
  <2>3. QED
    BY <2>1, <2>2 DEF Arrives, n
<1>9. QED
  BY <1>1, <1>7, <1>8 DEF v

-----------------------------------------------------------------------------
(* Frames of the invariant *)

\* A step that changes neither the wire nor what is desired, and opens no
\* connection for subscriptions.
LEMMA SubscriptionFrame ==
  ASSUME FInv, FeedTypes',
         UNCHANGED <<desired, wire, served, disc>>, CanSend' => CanSend,
         phase'["clob"] = "locking" => phase["clob"] = "locking"
  PROVE  FInv'
<1>1. LockingIsSilent'
  BY DEF FInv, LockingIsSilent
<1>2. OwedIsUndesired' /\ Owed' = Owed
  BY DEF FInv, OwedIsUndesired, Owed
<1>3. WireMeetsDesired'
  BY <1>2 DEF FInv, WireMeetsDesired
<1>4. QED
  BY <1>1, <1>2, <1>3 DEF FInv

\* A step after which nothing can be sent.
LEMMA ClosedFrame ==
  ASSUME FInv, FeedTypes', ~CanSend', phase'["clob"] # "locking",
         UNCHANGED <<desired, disc>>
  PROVE  FInv'
BY DEF FInv, LockingIsSilent, OwedIsUndesired, Owed, WireMeetsDesired

\* The initial subscription, written with the lock free, names what is
\* desired to a server that serves nothing.
LEMMA SubscriptionMeetsDesired ==
  ASSUME FInv, FeedTypes', ~LockHeld, UNCHANGED <<desired, disc>>,
         wire' = <<Subscription>>, served' = {}, phase'["clob"] = "receiving"
  PROVE  FInv'
<1>1. Subscription \in Frames /\ <<>> \in Seq(Frames)
  BY DEF FInv, FeedTypes, Subscription, Frames
<1>2. <<Subscription>> = Append(<<>>, Subscription)
  OBVIOUS
<1>3. Owed' = {}
  BY DEF Owed, LockHeld
<1>4. \A t \in MarketTokens : Arrives(t, {}, <<Subscription>>) <=> t \in desired
  <2> SUFFICES ASSUME NEW t \in MarketTokens
               PROVE  Arrives(t, {}, <<Subscription>>) <=> t \in desired
    OBVIOUS
  <2>1. Arrives(t, {}, Append(<<>>, Subscription)) <=>
          IF t \in Subscription.tokens THEN Subscription.op # "unsubscribe" ELSE Arrives(t, {}, <<>>)
    BY <1>1, FrameSent
  <2>2. Subscription.tokens = desired /\ Subscription.op # "unsubscribe"
    BY DEF Subscription
  <2>3. ~Arrives(t, {}, <<>>)
    BY NothingOnTheWire
  <2>4. QED
    BY <1>2, <2>1, <2>2, <2>3
<1>5. WireMeetsDesired'
  BY <1>3, <1>4 DEF WireMeetsDesired
<1>6. QED
  BY <1>3, <1>5 DEF FInv, LockingIsSilent, OwedIsUndesired

-----------------------------------------------------------------------------
(* Connecting and the heartbeat *)

\* The end of a connection leaves nothing that could be sent on.
LEMMA AfterConnectionEffect ==
  ASSUME FInv, NEW s \in Sockets, NEW stable \in BOOLEAN, AfterConnection(s, stable)
  PROVE  /\ phase' \in [Sockets -> Phases] /\ phase'[s] \in {"ended", "died", "backoff"}
         /\ link' \in [Sockets -> {"none", "up", "silent", "closed"}]
         /\ wire' \in Seq(Frames) /\ served' \in SUBSET MarketTokens
         /\ s # "clob" => /\ phase'["clob"] = phase["clob"]
                          /\ link'["clob"] = link["clob"]
                          /\ UNCHANGED <<wire, served>>
<1>1. <<>> \in Seq(Frames)
  OBVIOUS
<1>2. QED
  BY <1>1, SocketAssumption DEF FInv, FeedTypes, AfterConnection, Delayed, Phases

LEMMA AfterConnectionStep ==
  ASSUME FInv, NEW s \in Sockets, NEW stable \in BOOLEAN, AfterConnection(s, stable),
         UNCHANGED <<desired, listed, disc>>
  PROVE  FInv'
<1>1. FeedTypes'
  BY AfterConnectionEffect DEF FInv, FeedTypes
<1>2. CASE s = "clob"
  BY <1>1, <1>2, AfterConnectionEffect, ClosedFrame DEF CanSend
<1>3. CASE s # "clob"
  BY <1>1, <1>3, AfterConnectionEffect, SubscriptionFrame DEF CanSend, IsOpen
<1>4. QED
  BY <1>2, <1>3

\* A connection opens: with the lock free the subscription follows at once.
LEMMA OpensStep ==
  ASSUME FInv, NEW s \in Sockets, Opens(s, LockHeld), UNCHANGED feed
  PROVE  FInv'
<1> USE SocketAssumption DEF feed, world
<1>1. Subscription \in Frames /\ <<>> \in Seq(Frames)
  BY DEF FInv, FeedTypes, Subscription, Frames
<1>2. FeedTypes'
  <2>1. /\ desired' \in SUBSET MarketTokens /\ served' \in SUBSET MarketTokens /\ listed' \in SUBSET Markets
        /\ disc' = disc
    BY DEF FInv, FeedTypes, Opens
  <2>2. wire' \in Seq(Frames) /\ phase' \in [Sockets -> Phases]
    <3>1. <<Subscription>> \in Seq(Frames)
      BY <1>1
    <3>2. CASE s = "clob" /\ LockHeld
      BY <1>1, <3>2 DEF FInv, FeedTypes, Opens, Phases
    <3>3. CASE ~(s = "clob" /\ LockHeld)
      <4>1. BeginReceiving(s)
        BY <3>3 DEF Opens
      <4>2. QED
        BY <3>1, <4>1 DEF FInv, FeedTypes, BeginReceiving, Phases
    <3>4. QED
      BY <3>2, <3>3
  <2>3. link' \in [Sockets -> {"none", "up", "silent", "closed"}]
    BY DEF FInv, FeedTypes, Opens
  <2>4. QED
    BY <2>1, <2>2, <2>3 DEF FInv, FeedTypes
<1>3. CASE s = "clob" /\ LockHeld
  <2>1. phase'["clob"] = "locking" /\ wire' = <<>> /\ served' = {}
    BY <1>3 DEF FInv, FeedTypes, Opens
  <2>2. QED
    BY <1>2, <2>1 DEF FInv, Opens, LockingIsSilent, OwedIsUndesired, Owed,
                      WireMeetsDesired, CanSend
<1>4. CASE s = "clob" /\ ~LockHeld
  <2>1. /\ phase'["clob"] = "receiving" /\ wire' = <<Subscription>> /\ served' = {}
        /\ UNCHANGED <<desired, disc>>
    BY <1>4 DEF FInv, FeedTypes, Opens, BeginReceiving
  <2>2. QED
    BY <1>2, <1>4, <2>1, SubscriptionMeetsDesired
<1>5. CASE s # "clob"
  <2>1. /\ phase'["clob"] = phase["clob"] /\ link'["clob"] = link["clob"]
        /\ UNCHANGED <<desired, wire, served, disc>>
    BY <1>5 DEF FInv, FeedTypes, Opens, BeginReceiving
  <2>2. QED
    BY <1>2, <2>1, SubscriptionFrame DEF CanSend, IsOpen
<1>6. QED
  BY <1>3, <1>4, <1>5

\* The task that waited for the lock has it.
LEMMA LockAcquiredStep ==
  ASSUME FInv, LockAcquired(LockHeld), UNCHANGED feed
  PROVE  FInv'
<1> USE SocketAssumption DEF feed, world
<1>1. CASE IsOpen("clob")
  <2>1. BeginReceiving("clob") /\ UNCHANGED <<link, served>>
    BY <1>1 DEF LockAcquired
  <2>2. Subscription \in Frames
    BY DEF FInv, FeedTypes, Subscription, Frames
  <2>3. FeedTypes'
    BY <2>1, <2>2 DEF FInv, FeedTypes, LockAcquired, BeginReceiving, Phases
  <2>4. phase'["clob"] = "receiving" /\ wire' = <<Subscription>> /\ served' = {}
    BY <2>1 DEF FInv, FeedTypes, LockingIsSilent, LockAcquired, BeginReceiving
  <2>5. QED
    BY <2>3, <2>4, SubscriptionMeetsDesired DEF LockAcquired
<1>2. CASE ~IsOpen("clob")
  BY <1>2, AfterConnectionStep DEF LockAcquired
<1>3. QED
  BY <1>1, <1>2

\* What only moves the phase of a task that has no connection.
LEMMA PhaseStep ==
  ASSUME FInv, NEW s \in Sockets,
         Connect(s) \/ LoopEnds(s) \/ BackoffEnds(s) \/ ConnectRefused(s), UNCHANGED feed
  PROVE  FInv'
<1>1. FeedTypes'
  BY DEF FInv, FeedTypes, Connect, LoopEnds, BackoffEnds, ConnectRefused, Phases, feed, world
<1>2. /\ UNCHANGED <<desired, wire, served, disc, link>>
      /\ phase'["clob"] \in {"receiving", "locking"} => phase'["clob"] = phase["clob"]
  BY SocketAssumption
  DEF FInv, FeedTypes, Connect, LoopEnds, BackoffEnds, ConnectRefused, Phases, feed, world
<1>3. QED
  BY <1>1, <1>2, SubscriptionFrame DEF CanSend, IsOpen

\* What only changes a connection does not open it: a heartbeat that closes
\* it, the network, the peer, close().
LEMMA LinkStep ==
  ASSUME FInv, UNCHANGED <<desired, phase, wire, served, listed, disc>>,
         link' = link
           \/ \E s \in Sockets, state \in {"silent", "closed"} :
                /\ link' = [link EXCEPT ![s] = state]
                /\ state = "silent" => link[s] = "up"
  PROVE  FInv'
<1>1. FeedTypes'
  BY DEF FInv, FeedTypes
<1>2. CanSend' => CanSend
  BY SocketAssumption DEF FInv, FeedTypes, CanSend, IsOpen
<1>3. QED
  BY <1>1, <1>2, SubscriptionFrame

LEMMA CountMissEffect ==
  ASSUME NEW s, CountMiss(s)
  PROVE  link' = link \/ link' = [link EXCEPT ![s] = "closed"]
BY DEF CountMiss, LinkIs

LEMMA HeartbeatStep ==
  ASSUME FInv, Heartbeat \/ PongLate \/ ("rtds" \in Sockets /\ (Activity \/ Check)),
         UNCHANGED feed
  PROVE  FInv'
<1> USE SocketAssumption DEF feed, world
<1>1. UNCHANGED <<desired, phase, wire, served, listed, disc>>
  BY DEF Heartbeat, Ping, Pong, PongMissed, PongLate, Activity, Check
<1>2. link' = link \/ (\E s \in Sockets : link' = [link EXCEPT ![s] = "closed"])
  BY CountMissEffect DEF Heartbeat, Ping, Pong, PongMissed, PongLate, Activity, Check
<1>3. QED
  BY <1>1, <1>2, LinkStep

\* A frame arrives at the server.
LEMMA DeliverStep ==
  ASSUME FInv, Deliver, UNCHANGED feed
  PROVE  FInv'
<1> USE DEF feed, world
<1>1. wire \in Seq(Frames) /\ wire # <<>> /\ wire' = Tail(wire)
  BY DEF FInv, FeedTypes, Deliver
<1>2. Head(wire) \in Frames /\ Tail(wire) \in Seq(Frames)
  BY <1>1, HeadTailProperties
<1>3. FeedTypes'
  BY <1>1, <1>2 DEF FInv, FeedTypes, Deliver, Frames
<1>4. ASSUME NEW t \in MarketTokens
      PROVE  Arrives(t, served', wire') <=> Arrives(t, served, wire)
  <2>1. served' = IF Head(wire).op = "unsubscribe" THEN served \ Head(wire).tokens
                  ELSE served \cup Head(wire).tokens
    BY DEF Deliver
  <2>2. Arrives(t, IF Head(wire).op = "unsubscribe" THEN served \ Head(wire).tokens
                   ELSE served \cup Head(wire).tokens, Tail(wire))
          <=> Arrives(t, served, wire)
    BY <1>1, FrameDelivered
  <2>3. QED
    BY <1>1, <2>1, <2>2, Zenon
<1>5. WireMeetsDesired'
  BY <1>4 DEF FInv, WireMeetsDesired, CanSend, IsOpen, Owed, Deliver
<1>6. QED
  BY <1>3, <1>5 DEF FInv, LockingIsSilent, OwedIsUndesired, Owed, Deliver

-----------------------------------------------------------------------------
(* Discovery and update_assets *)

\* Discovery wants tokens of the markets there are.
LEMMA WantedAreTokens ==
  ASSUME NEW seen \in SUBSET Markets
  PROVE  Wanted(seen) \in SUBSET MarketTokens
BY DEF Wanted, MarketTokens, AllTokens

LEMMA PlaceReached ==
  ASSUME NEW place \in Places
  PROVE  /\ At(place) \in [at : Places, want : SUBSET MarketTokens, removed : SUBSET MarketTokens]
         /\ At(place).at = place
BY DEF At

\* A step of the discovery loop that leaves the channel alone.
LEMMA PollStep ==
  ASSUME FInv, PollAnswered \/ PollRaises \/ NextPoll
  PROVE  FInv'
<1> USE DEF socket, world
<1>1. /\ disc' \in [at : Places, want : SUBSET MarketTokens, removed : SUBSET MarketTokens]
      /\ disc'.at # "subscribing"
  <2>1. CASE PollAnswered
    <3>1. PICK broad \in BOOLEAN, slugs \in SUBSET listed :
            disc' = [At("snapshots") EXCEPT !.want = Wanted(Found(broad, slugs))]
      BY <2>1 DEF PollAnswered
    <3>2. Found(broad, slugs) \in SUBSET Markets
      BY DEF FInv, FeedTypes, Found
    <3>3. Wanted(Found(broad, slugs)) \in SUBSET MarketTokens
      BY <3>2, WantedAreTokens
    <3>4. QED
      BY <3>1, <3>3 DEF At, Places
  <2>2. CASE PollRaises
    BY <2>2 DEF PollRaises, At, Places
  <2>3. CASE NextPoll
    BY <2>3 DEF NextPoll, At, Places
  <2>4. QED
    BY <2>1, <2>2, <2>3
<1>2. disc.at # "subscribing" /\ UNCHANGED <<desired, phase, link, wire, served, listed>>
  BY DEF PollAnswered, PollRaises, NextPoll
<1>3. QED
  BY <1>1, <1>2 DEF FInv, FeedTypes, LockingIsSilent, OwedIsUndesired, Owed,
                    WireMeetsDesired, CanSend, IsOpen

\* The end of an activation.
LEMMA DiscoveryDoneEffect ==
  ASSUME FInv, DiscoveryDone
  PROVE  /\ disc' \in [at : Places, want : SUBSET MarketTokens, removed : SUBSET MarketTokens]
         /\ disc'.at \in {"polling", "idle"}
         /\ phase' \in [Sockets -> Phases]
         /\ phase'["clob"] \in {"receiving", "locking"} => phase'["clob"] = phase["clob"]
BY SocketAssumption DEF FInv, FeedTypes, DiscoveryDone, At, Places, Phases

\* A send that fails, on a connection that no longer is.
LEMMA SendRaisesEffect ==
  ASSUME FInv, SendRaises
  PROVE  /\ disc' \in [at : Places, want : SUBSET MarketTokens, removed : SUBSET MarketTokens]
         /\ disc'.at = "idle" /\ ~CanSend /\ UNCHANGED <<wire, main, phase>>
BY DEF SendRaises, At, Places

\* update_assets replaces the set and sends the first difference.
LEMMA UpdateAssetsStep ==
  ASSUME FInv, UpdateAssets
  PROVE  FInv'
<1> DEFINE added == disc.want \ desired
           removed == desired \ disc.want
           Discs == [at : Places, want : SUBSET MarketTokens, removed : SUBSET MarketTokens]
<1> USE DEF world
<1>1. /\ desired' = disc.want /\ phase["clob"] # "locking" /\ disc.at = "snapshots"
      /\ UNCHANGED <<link, served, listed>>
  BY DEF UpdateAssets
<1>2. disc.want \in SUBSET MarketTokens /\ added \in SUBSET MarketTokens /\ removed \in SUBSET MarketTokens
  BY DEF FInv, FeedTypes
<1>3. CanSend => \A t \in MarketTokens : Arrives(t, served, wire) <=> t \in desired
  BY <1>1 DEF FInv, WireMeetsDesired, Owed
<1>4. CASE DiscoveryDone /\ UNCHANGED wire /\ (~Connected("clob") \/ (added = {} /\ removed = {}))
  <2>1. FeedTypes'
    BY <1>1, <1>2, <1>4, DiscoveryDoneEffect DEF FInv, FeedTypes
  <2>2. Owed' = {}
    BY <1>4, DiscoveryDoneEffect DEF Owed
  <2>3. CanSend' => CanSend /\ desired' = desired
    BY <1>1, <1>2, <1>4, DiscoveryDoneEffect DEF CanSend, IsOpen, Connected
  <2>4. WireMeetsDesired'
    BY <1>1, <1>3, <1>4, <2>2, <2>3 DEF WireMeetsDesired
  <2>5. QED
    BY <1>1, <1>4, <2>1, <2>2, <2>4, DiscoveryDoneEffect DEF FInv, LockingIsSilent, OwedIsUndesired
<1>5. CASE SendRaises
  <2>1. FeedTypes'
    BY <1>1, <1>2, <1>5, SendRaisesEffect DEF FInv, FeedTypes
  <2>2. Owed' = {} /\ ~CanSend' /\ phase' = phase
    BY <1>1, <1>5, SendRaisesEffect DEF Owed, CanSend, IsOpen
  <2>3. QED
    BY <1>1, <2>1, <2>2 DEF FInv, LockingIsSilent, OwedIsUndesired, WireMeetsDesired
<1>6. CASE /\ CanSend /\ added # {} /\ Send("subscribe", added)
           /\ disc' = [At("subscribing") EXCEPT !.removed = removed]
           /\ UNCHANGED phase
  <2> DEFINE frame == [op |-> "subscribe", tokens |-> added]
  <2>1. frame \in Frames /\ frame.op = "subscribe" /\ frame.tokens = added
    BY <1>2 DEF Frames
  <2>2. wire' = Append(wire, frame) /\ wire \in Seq(Frames)
    BY <1>6 DEF Send, FInv, FeedTypes
  <2>3. disc' \in Discs /\ Owed' = removed
    BY <1>2, <1>6 DEF At, Places, Owed
  <2> HIDE DEF frame
  <2>4. wire' \in Seq(Frames)
    BY <2>1, <2>2, AppendProperties
  <2>5. FeedTypes'
    BY <1>1, <1>2, <1>6, <2>3, <2>4 DEF FInv, FeedTypes
  <2>6. \A t \in MarketTokens : Arrives(t, served, wire') <=> t \in added \/ Arrives(t, served, wire)
    BY <2>1, <2>2, FrameSent
  <2>7. WireMeetsDesired'
    BY <1>1, <1>3, <1>6, <2>3, <2>6 DEF WireMeetsDesired
  <2>8. QED
    BY <1>1, <1>6, <2>3, <2>5, <2>7 DEF FInv, LockingIsSilent, OwedIsUndesired
<1>7. CASE /\ CanSend /\ added = {} /\ Send("unsubscribe", removed)
           /\ disc' = At("unsubscribing") /\ UNCHANGED phase
  <2> DEFINE frame == [op |-> "unsubscribe", tokens |-> removed]
  <2>1. frame \in Frames /\ frame.op = "unsubscribe" /\ frame.tokens = removed
    BY <1>2 DEF Frames
  <2>2. wire' = Append(wire, frame) /\ wire \in Seq(Frames)
    BY <1>7 DEF Send, FInv, FeedTypes
  <2>3. disc' \in Discs /\ Owed' = {}
    BY <1>7, PlaceReached DEF Places, Owed
  <2> HIDE DEF frame
  <2>4. wire' \in Seq(Frames)
    BY <2>1, <2>2, AppendProperties
  <2>5. FeedTypes'
    BY <1>1, <1>2, <1>7, <2>3, <2>4 DEF FInv, FeedTypes
  <2>6. \A t \in MarketTokens : Arrives(t, served, wire') <=> t \notin removed /\ Arrives(t, served, wire)
    BY <2>1, <2>2, FrameSent
  <2>7. WireMeetsDesired'
    BY <1>1, <1>3, <1>7, <2>3, <2>6 DEF WireMeetsDesired
  <2>8. QED
    BY <1>1, <1>7, <2>3, <2>5, <2>7 DEF FInv, LockingIsSilent, OwedIsUndesired
<1>8. QED
  BY <1>4, <1>5, <1>6, <1>7 DEF UpdateAssets, Added

\* update_assets after the await of its first send.
LEMMA SubscribedStep ==
  ASSUME FInv, Subscribed
  PROVE  FInv'
<1> DEFINE Discs == [at : Places, want : SUBSET MarketTokens, removed : SUBSET MarketTokens]
<1> USE DEF world
<1>1. disc.at = "subscribing" /\ UNCHANGED <<desired, link, served, listed>>
  BY DEF Subscribed
<1>2. disc.removed \in SUBSET MarketTokens /\ Owed = disc.removed /\ Owed \cap desired = {}
  BY <1>1 DEF FInv, FeedTypes, Owed, OwedIsUndesired
<1>3. CASE SendRaises
  <2>1. FeedTypes'
    BY <1>1, <1>3, SendRaisesEffect DEF FInv, FeedTypes
  <2>2. Owed' = {} /\ ~CanSend' /\ UNCHANGED <<phase, wire>>
    BY <1>1, <1>3, SendRaisesEffect DEF Owed, CanSend, IsOpen
  <2>3. QED
    BY <1>1, <2>1, <2>2 DEF FInv, LockingIsSilent, OwedIsUndesired, WireMeetsDesired
<1>4. CASE disc.removed = {} /\ DiscoveryDone /\ UNCHANGED wire
  <2>1. FeedTypes'
    BY <1>1, <1>4, DiscoveryDoneEffect DEF FInv, FeedTypes
  <2>2. Owed' = {} /\ Owed = {} /\ (CanSend' => CanSend)
    BY <1>1, <1>2, <1>4, DiscoveryDoneEffect DEF Owed, CanSend, IsOpen
  <2>3. WireMeetsDesired'
    BY <1>1, <1>4, <2>2 DEF FInv, WireMeetsDesired
  <2>4. QED
    BY <1>1, <1>4, <2>1, <2>2, <2>3, DiscoveryDoneEffect DEF FInv, LockingIsSilent, OwedIsUndesired
<1>5. CASE /\ CanSend /\ Send("unsubscribe", disc.removed)
           /\ disc' = At("unsubscribing") /\ UNCHANGED phase
  <2> DEFINE frame == [op |-> "unsubscribe", tokens |-> disc.removed]
  <2>1. frame \in Frames /\ frame.op = "unsubscribe" /\ frame.tokens = Owed
    BY <1>2 DEF Frames
  <2>2. wire' = Append(wire, frame) /\ wire \in Seq(Frames)
    BY <1>5 DEF Send, FInv, FeedTypes
  <2>3. disc' \in Discs /\ Owed' = {}
    BY <1>5, PlaceReached DEF Places, Owed
  <2> HIDE DEF frame
  <2>4. wire' \in Seq(Frames)
    BY <2>1, <2>2, AppendProperties
  <2>5. FeedTypes'
    BY <1>1, <1>5, <2>3, <2>4 DEF FInv, FeedTypes
  <2>6. \A t \in MarketTokens : Arrives(t, served, wire') <=> t \notin Owed /\ Arrives(t, served, wire)
    BY <2>1, <2>2, FrameSent
  <2>7. WireMeetsDesired'
    BY <1>1, <1>2, <1>5, <2>3, <2>6 DEF FInv, WireMeetsDesired
  <2>8. QED
    BY <1>1, <1>5, <2>3, <2>5, <2>7 DEF FInv, LockingIsSilent, OwedIsUndesired, CanSend
<1>6. QED
  BY <1>3, <1>4, <1>5 DEF Subscribed

LEMMA UnsubscribedStep ==
  ASSUME FInv, Unsubscribed
  PROVE  FInv'
<1> USE DEF world
<1>1. /\ disc.at = "unsubscribing" /\ Owed = {}
      /\ UNCHANGED <<desired, link, served, wire, listed>>
  BY DEF Unsubscribed, Owed, SendRaises
<1>2. /\ disc' \in [at : Places, want : SUBSET MarketTokens, removed : SUBSET MarketTokens]
      /\ Owed' = {} /\ phase' \in [Sockets -> Phases]
      /\ phase'["clob"] \in {"receiving", "locking"} => phase'["clob"] = phase["clob"]
  BY DiscoveryDoneEffect, SendRaisesEffect DEF Unsubscribed, Owed, FInv, FeedTypes
<1>3. QED
  BY <1>1, <1>2 DEF FInv, FeedTypes, LockingIsSilent, OwedIsUndesired,
                    WireMeetsDesired, CanSend, IsOpen

-----------------------------------------------------------------------------
(* The whole *)

LEMMA FInvInit == Init => FInv
<1> SUFFICES ASSUME Init PROVE FInv
  OBVIOUS
<1>1. FeedTypes
  BY DEF Init, SocketInit, FeedTypes, At, Places, Phases
<1>2. QED
  BY <1>1, SocketAssumption DEF Init, SocketInit, FInv, LockingIsSilent, OwedIsUndesired,
     Owed, WireMeetsDesired, CanSend, At

LEMMA FInvStep == FInv /\ [Next]_vars => FInv'
<1> SUFFICES ASSUME FInv, [Next]_vars PROVE FInv'
  OBVIOUS
<1>1. ASSUME NEW s \in Sockets, SocketStep(s), UNCHANGED feed PROVE FInv'
  <2>1. CASE ConnectionEnds(s)
    <3>1. UNCHANGED <<desired, listed, disc>>
      BY <1>1, <2>1 DEF ConnectionEnds, feed, world
    <3>2. QED
      BY <2>1, <3>1, AfterConnectionStep DEF ConnectionEnds
  <2>2. QED
    BY <1>1, <2>1, PhaseStep, OpensStep DEF SocketStep
<1>2. ASSUME NEW s \in Sockets, ConnectFails(s), UNCHANGED feed PROVE FInv'
  BY <1>2, AfterConnectionStep DEF ConnectFails, feed, world
<1>3. ASSUME NEW s \in Sockets, ConnectRefused(s), UNCHANGED feed PROVE FInv'
  BY <1>3, PhaseStep
<1>4. ASSUME NEW s \in Sockets, LinkDrops(s) \/ LinkGoesSilent(s), UNCHANGED feed PROVE FInv'
  BY <1>4, LinkStep DEF LinkDrops, LinkGoesSilent, LinkIs, feed, world
<1>5. CASE LockAcquired(LockHeld) /\ UNCHANGED feed
  BY <1>5, LockAcquiredStep
<1>6. CASE (Heartbeat \/ PongLate \/ ("rtds" \in Sockets /\ (Activity \/ Check))) /\ UNCHANGED feed
  BY <1>6, HeartbeatStep
<1>7. CASE Deliver /\ UNCHANGED feed
  BY <1>7, DeliverStep
<1>8. CASE Discovery \/ PollRaises
  BY <1>8, PollStep, UpdateAssetsStep, SubscribedStep, UnsubscribedStep DEF Discovery
<1>9. CASE RequestStop \/ TasksGathered
  BY <1>9, LinkStep DEF RequestStop, TasksGathered, socket, world
<1>10. ASSUME NEW s \in Sockets, CloseSocket(s) PROVE FInv'
  BY <1>10, LinkStep DEF CloseSocket, world
<1>11. ASSUME NEW m \in Markets, MarketIsListed(m) \/ MarketAges(m) PROVE FInv'
  <2>1. UNCHANGED <<desired, wire, served, disc, phase, link>> /\ listed' \in SUBSET Markets
    BY <1>11 DEF MarketIsListed, MarketAges, socket, FInv, FeedTypes
  <2>2. FeedTypes' /\ (CanSend' => CanSend)
    BY <2>1 DEF FInv, FeedTypes, CanSend, IsOpen
  <2>3. QED
    BY <2>1, <2>2, SubscriptionFrame
<1>12. CASE UNCHANGED vars
  BY <1>12, LinkStep DEF vars
<1>13. QED
  BY <1>1, <1>2, <1>3, <1>4, <1>5, <1>6, <1>7, <1>8, <1>9, <1>10, <1>11, <1>12 DEF Next

\* Once every frame sent has arrived and no update is under way, an open
\* connection serves exactly the tokens that are desired, for any number of
\* markets, sockets and faults (clob_ws.py, update_assets and run).
THEOREM SubscriptionCorrect == Spec => []SettledSubscription
<1>1. FInv => SettledSubscription
  <2> SUFFICES ASSUME FInv, phase["clob"] = "receiving", link["clob"] = "up",
                      wire = <<>>, ~LockHeld
               PROVE  served = desired
    BY DEF SettledSubscription
  <2>1. CanSend /\ Owed = {}
    BY DEF CanSend, IsOpen, Owed, LockHeld
  <2>2. \A t \in MarketTokens : t \in served <=> t \in desired
    BY <2>1, NothingOnTheWire DEF FInv, WireMeetsDesired
  <2>3. QED
    BY <2>2 DEF FInv, FeedTypes
<1>2. QED
  BY <1>1, FInvInit, FInvStep, PTL DEF Spec

-----------------------------------------------------------------------------
(* The books: when the walk that a reconnection starts is through and no   *)
(* request has failed, every book of a market still open has been replaced *)
(* on that connection.                                                     *)
(*                                                                         *)
(* What could undo it is a frame received before the answer and applied    *)
(* after it.  The invariant says that such a frame is old to its book: what*)
(* the worker would still apply is of no earlier connection than the book. *)

Connections == 0 .. MaxConnections

BookFrames ==
  [kind : {"book"}, token : Tokens, after : Content, connection : Connections]
    \cup [kind : {"price_change"}, token : Tokens, level : Levels, size : 0 .. MaxChanges,
          after : Content, connection : Connections]

Books == [valid : BOOLEAN, content : Content, connection : Connections]

FrameTypes == frames \in Seq(BookFrames) /\ queue \in Seq(BookFrames)

\* BookFrames reach the worker in the order of their connections, and what is on
\* the wire is of the connection that is open.
FramesInOrder ==
  /\ frames # <<>> => connected
  /\ \A i \in 1 .. Len(frames) : frames[i].connection = connection
  /\ \A i \in 1 .. Len(queue) :
       /\ queue[i].connection <= connection
       /\ \A j \in 1 .. Len(queue) : i < j => queue[i].connection <= queue[j].connection

\* A frame the worker would still apply is of no earlier connection than the
\* one its token's book was last replaced on.
BooksAreAhead ==
  \A t \in Tokens :
    /\ book[t].connection <= connection
    /\ \A i \in 1 .. Len(queue) :
         i > behind[t] => book[t].connection <= queue[i].connection

\* The tokens that walk k has been through.
Behind(w) ==
  {t \in Tokens :
     \/ \E m \in DOMAIN ActiveMarkets \ (ended \cup w.todo \cup {w.market}) : t \in TokensIn(m)
     \/ \E i \in 1 .. w.index - 1 : t = ActiveMarkets[w.market][i]}

\* A walk stands at a token of its market, with later markets still to come. A
\* walk of a reconnection at which nothing has failed has left every book that
\* it went through replaced on its connection.
WalkOK(k) ==
  /\ task[k].stage \in {"requested", "answered"} =>
       /\ task[k].index \in 1 .. Len(ActiveMarkets[task[k].market])
       /\ \A m \in task[k].todo : m > task[k].market
  /\ k \in Reconnections =>
       /\ task[k] # Idle => k <= connection
       /\ failures = 0 /\ task[k].stage \in {"requested", "answered"} =>
            \A t \in Behind(task[k]) : book[t].connection >= k

VInv ==
  /\ TypeOK /\ FrameTypes /\ FramesInOrder /\ BooksAreAhead
  /\ \A k \in Tasks : WalkOK(k)

-----------------------------------------------------------------------------
(* Data *)

LEMMA Constants ==
  /\ QueueCapacity \in Nat \ {0} /\ MaxChanges \in Nat
  /\ MaxConnections \in Nat /\ MaxFailures \in Nat
  /\ EndingMarkets \subseteq DOMAIN ActiveMarkets
BY RecoveryAssumption

LEMMA ListedTokens ==
  /\ DOMAIN ActiveMarkets = 1 .. Len(ActiveMarkets) /\ Len(ActiveMarkets) \in Nat
  /\ \A m \in DOMAIN ActiveMarkets :
       /\ Len(ActiveMarkets[m]) \in Nat \ {0} /\ DOMAIN ActiveMarkets[m] = 1 .. Len(ActiveMarkets[m])
       /\ \A i \in 1 .. Len(ActiveMarkets[m]) : ActiveMarkets[m][i] \in Tokens
       /\ TokensIn(m) = {ActiveMarkets[m][i] : i \in 1 .. Len(ActiveMarkets[m])}
       /\ TokensIn(m) \subseteq Tokens
<1>1. ActiveMarkets \in Seq(Seq(Tokens) \ {<<>>})
  BY RecoveryAssumption
<1>2. DOMAIN ActiveMarkets = 1 .. Len(ActiveMarkets) /\ Len(ActiveMarkets) \in Nat
  BY <1>1
<1>3. ASSUME NEW m \in DOMAIN ActiveMarkets
      PROVE  /\ Len(ActiveMarkets[m]) \in Nat \ {0} /\ DOMAIN ActiveMarkets[m] = 1 .. Len(ActiveMarkets[m])
             /\ \A i \in 1 .. Len(ActiveMarkets[m]) : ActiveMarkets[m][i] \in Tokens
  <2>1. ActiveMarkets[m] \in Seq(Tokens) /\ ActiveMarkets[m] # <<>>
    BY <1>1, <1>2
  <2>2. QED
    BY <2>1
<1>4. QED
  BY <1>2, <1>3 DEF TokensIn

\* The market of a token lists it.
LEMMA MarketOfToken ==
  ASSUME NEW t \in Tokens
  PROVE  MarketOf(t) \in DOMAIN ActiveMarkets /\ t \in TokensIn(MarketOf(t))
<1>1. \E m \in DOMAIN ActiveMarkets : t \in TokensIn(m)
  BY DEF Tokens
<1>2. QED
  BY <1>1 DEF MarketOf

LEMMA TokensAreFinite == IsFiniteSet(Tokens)
<1>1. ASSUME NEW m \in DOMAIN ActiveMarkets PROVE IsFiniteSet(TokensIn(m))
  <2>1. IsFiniteSet(1 .. Len(ActiveMarkets[m]))
    <3>1. Len(ActiveMarkets[m]) \in Int /\ 1 \in Int
      BY ListedTokens
    <3>2. QED
      BY <3>1, FS_Interval, Zenon
  <2>2. [i \in 1 .. Len(ActiveMarkets[m]) |-> ActiveMarkets[m][i]]
          \in Surjection(1 .. Len(ActiveMarkets[m]), TokensIn(m))
    BY ListedTokens, SMT DEF Surjection
  <2>3. QED
    BY <2>1, <2>2, FS_Surjection DEF ExistsSurjection
<1>2. IsFiniteSet(DOMAIN ActiveMarkets)
  <2>1. DOMAIN ActiveMarkets = 1 .. Len(ActiveMarkets) /\ Len(ActiveMarkets) \in Int /\ 1 \in Int
    BY ListedTokens
  <2>2. QED
    BY <2>1, FS_Interval, Zenon
<1> DEFINE S == {TokensIn(m) : m \in DOMAIN ActiveMarkets}
<1>3. IsFiniteSet(S)
  <2>1. [m \in DOMAIN ActiveMarkets |-> TokensIn(m)] \in Surjection(DOMAIN ActiveMarkets, S)
    BY SMT DEF Surjection
  <2>2. QED
    BY <1>2, <2>1, FS_Surjection DEF ExistsSurjection
<1>4. \A T \in S : IsFiniteSet(T)
  BY <1>1
<1> HIDE DEF S
<1>5. IsFiniteSet(UNION S)
  BY <1>3, <1>4, FS_UNION
<1>6. QED
  BY <1>5 DEF S, Tokens

\* A task's stage says which kind of record it is.
LEMMA IdleStage ==
  ASSUME NEW w \in {Idle, [stage |-> "spawned"]} \cup Walking
  PROVE  /\ w.stage \in {"idle", "spawned", "requested", "answered"}
         /\ w.stage = "idle" <=> w = Idle
         /\ w.stage = "spawned" <=> w = [stage |-> "spawned"]
         /\ w.stage \in {"requested", "answered"} =>
              /\ w \in Walking /\ w.market \in DOMAIN ActiveMarkets
              /\ w.index \in Nat \ {0} /\ w.todo \in SUBSET DOMAIN ActiveMarkets
         /\ w.stage = "answered" => w.content \in Content
BY DEF Idle, Walking

-----------------------------------------------------------------------------
(* The steps of the walks *)

\* Nothing a step does takes these back.
Advances ==
  /\ connection <= connection' /\ failures <= failures' /\ ended \subseteq ended'
  /\ \A t \in Tokens : book[t].connection <= book'[t].connection

\* A walk that does not move goes on as it was.
LEMMA WalkStands ==
  ASSUME VInv, VInv, NEW k \in Tasks, task'[k] = task[k], Advances,
         connection' \in Nat, failures' \in Nat,
         \A t \in Tokens : book'[t].connection \in Nat
  PROVE  WalkOK(k)'
<1>1. WalkOK(k) /\ connection \in Nat /\ failures \in Nat /\ k \in Int
      /\ task[k] \in {Idle, [stage |-> "spawned"]} \cup Walking
  BY Constants DEF VInv, TypeOK, Tasks, StartupWalk, DiscoveryWalk, ValidationWalk, Reconnections
<1>2. task[k].stage \in {"requested", "answered"} =>
        Behind(task[k])' \subseteq Behind(task[k]) /\ Behind(task[k]) \subseteq Tokens
  <2>1. Behind(task[k]) \subseteq Tokens
    BY DEF Behind
  <2>2. Behind(task[k])' \subseteq Behind(task[k])
    BY DEF Behind, Advances
  <2>3. QED
    BY <2>1, <2>2
<1>3. \A t \in Tokens : book[t].connection \in Nat
  BY Constants DEF VInv, TypeOK
<1>4. QED
  BY <1>1, <1>2, <1>3 DEF WalkOK, Advances

\* A walk goes to the first of its markets that it wants; a reconnection's
\* wants all of them.
LEMMA NextStopIs ==
  ASSUME NEW k \in Tasks, NEW todo \in SUBSET DOMAIN ActiveMarkets
  PROVE  LET w == NextStop(k, todo) IN
         \/ w = Idle /\ \A m \in todo : ~WantsMarket(k, m)
         \/ /\ w \in Walking /\ w.stage = "requested" /\ w.index = 1 /\ w.market \in todo
            /\ w.todo = {m \in todo : m > w.market}
            /\ k \in Reconnections => \A m \in todo : m >= w.market
<1> DEFINE stops == {m \in todo : WantsMarket(k, m)}
<1>1. CASE stops = {}
  BY <1>1 DEF NextStop
<1>2. CASE stops # {}
  <2>1. stops \in SUBSET Int /\ IsFiniteSet(stops)
    <3>1. DOMAIN ActiveMarkets \in SUBSET Int /\ IsFiniteSet(DOMAIN ActiveMarkets)
      BY ListedTokens, FS_Interval
    <3>2. stops \subseteq DOMAIN ActiveMarkets
      OBVIOUS
    <3> HIDE DEF stops
    <3>3. QED
      BY <3>1, <3>2, FS_Subset
  <2>2. Min(stops) \in stops /\ \A m \in stops : Min(stops) <= m
    <3> HIDE DEF stops
    <3> QED BY <1>2, <2>1, MinIsLeast
  <2>3. k \in Reconnections => stops = todo
    BY DEF WantsMarket, Reconnections, ValidationWalk, StartupWalk, DiscoveryWalk
  <2>4. NextStop(k, todo) = [stage |-> "requested", market |-> Min(stops), index |-> 1,
                             todo |-> {m \in todo : m > Min(stops)}]
    BY <1>2 DEF NextStop
  <2>5. Min(stops) \in todo /\ Min(stops) \in Int
    BY <2>1, <2>2
  <2> DEFINE a == Min(stops)
             later == {m \in todo : m > a}
  <2> HIDE DEF stops, a
  <2>6. later \in SUBSET DOMAIN ActiveMarkets
    OBVIOUS
  <2> HIDE DEF later
  <2>7. [stage |-> "requested", market |-> a, index |-> 1, todo |-> later] \in Walking
    BY <2>5, <2>6 DEF a, Walking
  <2>8. QED
    BY <2>2, <2>3, <2>4, <2>5, <2>7 DEF a, later
<1>3. QED
  BY <1>1, <1>2

\* The next request of a walk that has just replaced a book.
LEMMA NextRequestIs ==
  ASSUME NEW k \in Tasks, NEW w \in Walking, w.index \in 1 .. Len(ActiveMarkets[w.market])
  PROVE  LET v == NextRequest(k, w) IN
         /\ v \in {Idle} \cup Walking
         /\ v # Idle => /\ v.stage = "requested" /\ v.index \in 1 .. Len(ActiveMarkets[v.market])
                        /\ ((\A m \in w.todo : m > w.market) => \A m \in v.todo : m > v.market)
                        /\ k \in Reconnections => Behind(v) \subseteq Behind(w) \cup {TokenAt(w)}
         /\ v = Idle /\ k \in Reconnections =>
              \A m \in DOMAIN ActiveMarkets \ ended : TokensIn(m) \subseteq Behind(w) \cup {TokenAt(w)}
<1> DEFINE v == NextRequest(k, w)
           last == Len(ActiveMarkets[w.market])
<1>1. /\ w.market \in DOMAIN ActiveMarkets /\ w.index \in Nat \ {0} /\ w.todo \in SUBSET DOMAIN ActiveMarkets
      /\ last \in Nat /\ Idle.stage = "idle"
  BY ListedTokens DEF Walking, Idle
<1>2. CASE w.index < last
  <2>1. v = [stage |-> "requested", market |-> w.market, index |-> w.index + 1,
             todo |-> w.todo]
    BY <1>2 DEF NextRequest
  <2>2. v \in Walking /\ v # Idle
    BY <1>1, <2>1 DEF Walking, Idle
  <2>3. \A i \in 1 .. v.index - 1 : i \in 1 .. w.index - 1 \/ i = w.index
    BY <1>1, <2>1
  <2>4. Behind(v) \subseteq Behind(w) \cup {TokenAt(w)}
    <3>1. v.todo = w.todo /\ v.market = w.market
      BY <2>1
    <3> HIDE DEF v
    <3>2. QED
      BY <2>3, <3>1, ListedTokens DEF Behind, TokenAt
  <2>5. v.index \in 1 .. Len(ActiveMarkets[v.market])
    BY <1>1, <1>2, <2>1
  <2>6. v.stage = "requested" /\ v.todo = w.todo /\ v.market = w.market
    BY <2>1
  <2> HIDE DEF v
  <2>7. QED
    BY <2>2, <2>4, <2>5, <2>6 DEF v
<1>3. CASE ~(w.index < last)
  <2>1. v = NextStop(k, w.todo) /\ w.index = last
    BY <1>1, <1>3 DEF NextRequest
  <2>2. TokensIn(w.market) \subseteq Behind(w) \cup {TokenAt(w)}
    <3>1. \A i \in 1 .. last : i \in 1 .. w.index - 1 \/ i = w.index
      BY <1>1, <2>1
    <3>2. TokensIn(w.market) = {ActiveMarkets[w.market][i] : i \in 1 .. last}
      BY <1>1, ListedTokens
    <3>3. TokensIn(w.market) \subseteq Tokens
      BY <1>1, ListedTokens
    <3>4. QED
      BY <3>1, <3>2, <3>3 DEF Behind, TokenAt
  <2>3. \A m \in DOMAIN ActiveMarkets \ ended : m \notin w.todo => TokensIn(m) \subseteq Behind(w) \cup {TokenAt(w)}
    BY <2>2, ListedTokens DEF Behind
  <2>4. CASE v = Idle
    <3>1. \A m \in w.todo : ~WantsMarket(k, m)
      BY <1>1, <2>1, <2>4, NextStopIs
    <3>2. k \in Reconnections => w.todo = {}
      BY <3>1 DEF WantsMarket, Reconnections, ValidationWalk, StartupWalk, DiscoveryWalk
    <3> HIDE DEF v
    <3>3. QED
      BY <2>3, <2>4, <3>2 DEF v
  <2>5. CASE v # Idle
    <3>1. /\ v \in Walking /\ v.stage = "requested" /\ v.index = 1 /\ v.market \in w.todo
          /\ v.todo = {m \in w.todo : m > v.market}
          /\ k \in Reconnections => \A m \in w.todo : m >= v.market
      BY <1>1, <2>1, <2>5, NextStopIs
    <3> HIDE DEF v
    <3>2. 1 \in 1 .. Len(ActiveMarkets[v.market])
      BY <1>1, <3>1, ListedTokens
    <3>3. ASSUME k \in Reconnections PROVE Behind(v) \subseteq Behind(w) \cup {TokenAt(w)}
      <4>1. \A m \in w.todo : m \in v.todo \cup {v.market}
        <5>1. \A m \in w.todo : m >= v.market /\ m \in Int
          BY <1>1, <3>1, <3>3, ListedTokens
        <5>2. v.market \in Int
          BY <5>1, <3>1
        <5>3. QED
          BY <3>1, <5>1, <5>2
      <4>2. 1 .. v.index - 1 = {}
        BY <3>1
      <4>3. QED
        BY <2>3, <4>1, <4>2 DEF Behind
    <3>4. QED
      BY <2>5, <3>1, <3>2, <3>3 DEF v
  <2>6. QED
    BY <2>4, <2>5
<1>4. QED
  BY <1>2, <1>3

-----------------------------------------------------------------------------
(* The steps of the books *)

BookTypes ==
  /\ Len(queue) <= QueueCapacity
  /\ behind \in [Tokens -> 0 .. QueueCapacity]
  /\ \A t \in Tokens : behind[t] <= Len(queue)
  /\ book \in [Tokens -> Books]
  /\ open \in [Tokens -> Nat]

\* The books keep what the invariant says of them.
BooksGoOn ==
  /\ BookTypes' /\ BooksAreAhead'
  /\ \A t \in Tokens : book[t].connection <= book'[t].connection

\* The types of what the steps read.
LEMMA Facts ==
  ASSUME VInv
  PROVE  /\ BookTypes /\ connection \in Nat /\ connection \in Connections
         /\ frames \in Seq(BookFrames) /\ queue \in Seq(BookFrames) /\ Len(queue) \in Nat
         /\ \A t \in Tokens : /\ book[t] \in Books /\ book[t].connection \in Nat
                              /\ behind[t] \in Nat /\ open[t] \in Nat
         /\ \A i \in 1 .. Len(queue) : queue[i] \in BookFrames /\ queue[i].connection \in Nat
         /\ \A f \in BookFrames : f.token \in Tokens /\ f.connection \in Nat
                               /\ f.connection \in Connections /\ f.after \in Content
<1>1. BookTypes /\ connection \in Nat /\ connection \in Connections
      /\ frames \in Seq(BookFrames) /\ queue \in Seq(BookFrames)
  BY Constants DEF VInv, TypeOK, BookTypes, FrameTypes, Connections, Books
<1>2. \A f \in BookFrames : f.token \in Tokens /\ f.connection \in Nat
                        /\ f.connection \in Connections /\ f.after \in Content
  BY Constants DEF BookFrames, Connections
<1>3. Len(queue) \in Nat /\ \A i \in 1 .. Len(queue) : queue[i] \in BookFrames
  BY <1>1
<1>4. \A t \in Tokens : /\ book[t] \in Books /\ book[t].connection \in Nat
                        /\ behind[t] \in Nat /\ open[t] \in Nat
  BY <1>1, Constants DEF BookTypes, Books, Connections
<1>5. QED
  BY <1>1, <1>2, <1>3, <1>4

\* The answer shows the connection that is open, and all queued frames are
\* older.
LEMMA SnapshotBooks ==
  ASSUME VInv, NEW t \in Tokens, NEW content \in Content, NEW marked \in SUBSET Tokens,
         RestSnapshot(t, content, marked), UNCHANGED <<stream, queue>>
  PROVE  BooksGoOn /\ book'[t].connection = connection
<1>1. connection' = connection /\ queue' = queue
  BY DEF stream
<1>2. /\ \A u \in Tokens \ {t} : /\ book'[u].connection = book[u].connection
                                 /\ book'[u] \in Books /\ behind'[u] = behind[u]
      /\ book'[t].connection = connection /\ book'[t] \in Books /\ behind'[t] = Len(queue)
  BY Facts DEF RestSnapshot, Fresh, Invalid, Books, BookTypes
<1>3. BookTypes'
  BY <1>1, <1>2, Facts, Constants DEF RestSnapshot, CloseOne, BookTypes
<1>4. BooksAreAhead'
  <2>1. ASSUME NEW u \in Tokens \ {t}
        PROVE  /\ book'[u].connection <= connection'
               /\ \A i \in 1 .. Len(queue') :
                    i > behind'[u] => book'[u].connection <= queue'[i].connection
    BY <1>1, <1>2 DEF VInv, BooksAreAhead
  <2>2. /\ book'[t].connection <= connection'
        /\ \A i \in 1 .. Len(queue') : ~(i > behind'[t])
    BY <1>1, <1>2, Facts
  <2>3. QED
    BY <2>1, <2>2 DEF BooksAreAhead
<1>5. QED
  BY <1>2, <1>3, <1>4, Facts DEF BooksGoOn, VInv, BooksAreAhead

\* Marking a book uncertain does not change when it was replaced.
LEMMA MarkedBooks ==
  ASSUME VInv, NEW marked \in SUBSET Tokens, MarkUncertain(marked), UNCHANGED <<stream, queue>>
  PROVE  BooksGoOn
<1>1. connection' = connection /\ queue' = queue /\ behind' = behind
  BY DEF stream, MarkUncertain
<1>2. \A u \in Tokens : book'[u].connection = book[u].connection /\ book'[u] \in Books
  BY Facts DEF MarkUncertain, Invalid, Books, BookTypes
<1>3. BookTypes'
  BY <1>1, <1>2, Facts DEF MarkUncertain, BookTypes
<1>4. QED
  BY <1>1, <1>2, <1>3, Facts DEF BooksGoOn, VInv, BooksAreAhead

\* A step that replaces no book.
LEMMA SameBooks ==
  ASSUME VInv, UNCHANGED <<behind, open, queue>>, connection' \in Nat, connection <= connection',
         \A t \in Tokens : book'[t].connection = book[t].connection,
         book' \in [Tokens -> Books]
  PROVE  BooksGoOn
<1>1. BookTypes'
  BY Facts DEF BookTypes
<1>2. QED
  BY <1>1, Facts DEF BooksGoOn, VInv, BooksAreAhead

\* A frame leaves the queue; at most its token's book is replaced, by a frame
\* that is not old.
LEMMA TakenBooks ==
  ASSUME VInv, TakeFrame, book' \in [Tokens -> Books], open' \in [Tokens -> Nat],
         \A t \in Tokens :
           \/ book'[t].connection = book[t].connection
           \/ behind[t] = 0 /\ book'[t].connection = Head(queue).connection
  PROVE  BooksGoOn /\ FrameTypes' /\ FramesInOrder'
<1>1. queue # <<>> /\ queue' = Tail(queue) /\ connection' = connection /\ frames' = frames
      /\ connected' = connected
  BY DEF TakeFrame, stream
<1>2. /\ queue' \in Seq(BookFrames) /\ Len(queue') = Len(queue) - 1 /\ Len(queue) > 0
      /\ \A i \in 1 .. Len(queue') : queue'[i] = queue[i + 1] /\ i + 1 \in 1 .. Len(queue)
      /\ Head(queue) = queue[1] /\ Len(queue) \in Nat
  BY <1>1, Facts, HeadTailProperties, EmptySeq
<1>3. \A t \in Tokens : behind'[t] = IF behind[t] = 0 THEN 0 ELSE behind[t] - 1
  BY DEF TakeFrame
<1>4. BookTypes'
  <2>1. \A t \in Tokens : behind'[t] \in 0 .. QueueCapacity /\ behind'[t] <= Len(queue')
    <3>1. \A t \in Tokens : behind[t] \in 0 .. QueueCapacity /\ behind[t] <= Len(queue)
      BY Facts DEF BookTypes
    <3>2. QED
      BY <1>2, <1>3, <3>1, Constants
  <2>2. behind' \in [Tokens -> 0 .. QueueCapacity]
    BY <2>1 DEF TakeFrame
  <2>3. QED
    BY <1>2, <2>1, <2>2, Facts, Constants DEF BookTypes
<1>5. FrameTypes' /\ FramesInOrder'
  <2>1. FramesInOrder /\ FrameTypes
    BY DEF VInv
  <2>2. \A i \in 1 .. Len(queue') :
          /\ queue'[i].connection <= connection'
          /\ \A j \in 1 .. Len(queue') : i < j => queue'[i].connection <= queue'[j].connection
    BY <1>1, <1>2, <2>1 DEF FramesInOrder
  <2>3. QED
    BY <1>1, <1>2, <2>1, <2>2 DEF FramesInOrder, FrameTypes
<1>6. ASSUME NEW t \in Tokens
      PROVE  /\ book'[t].connection <= connection' /\ book[t].connection <= book'[t].connection
             /\ \A i \in 1 .. Len(queue') :
                  i > behind'[t] => book'[t].connection <= queue'[i].connection
  <2>1. /\ book[t].connection <= connection
        /\ \A i \in 1 .. Len(queue) : i > behind[t] => book[t].connection <= queue[i].connection
    BY DEF VInv, BooksAreAhead
  <2>2. \A i \in 1 .. Len(queue) :
          /\ queue[i].connection <= connection /\ queue[1].connection <= queue[i].connection
    <3>1. \A i, j \in 1 .. Len(queue) : i < j => queue[i].connection <= queue[j].connection
      BY DEF VInv, FramesInOrder
    <3>2. 1 \in 1 .. Len(queue)
      BY <1>2
    <3>3. \A i \in 1 .. Len(queue) : queue[i].connection \in Nat /\ (i = 1 \/ 1 < i)
      BY Facts
    <3>4. QED
      BY <3>1, <3>2, <3>3 DEF VInv, FramesInOrder
  <2>3. behind[t] \in Nat /\ book[t].connection \in Nat
    BY Facts
  <2>4. CASE book'[t].connection = book[t].connection
    BY <1>1, <1>2, <1>3, <2>1, <2>3, <2>4
  <2>5. CASE behind[t] = 0 /\ book'[t].connection = Head(queue).connection
    BY <1>1, <1>2, <1>3, <2>1, <2>2, <2>3, <2>5
  <2>6. QED
    BY <2>4, <2>5
<1>7. QED
  BY <1>4, <1>5, <1>6 DEF BooksGoOn, BooksAreAhead

WorkerActs == Worker \/ WorkerRefusesBook

\* Every outcome of a frame for the books.
LEMMA WorkerBooks ==
  ASSUME VInv, WorkerActs
  PROVE  /\ BooksGoOn /\ FrameTypes' /\ FramesInOrder'
         /\ spawned' \in SUBSET Tokens
<1> DEFINE f == Head(queue)
<1>1. TakeFrame
  BY DEF WorkerActs, Worker, WorkerTakesBook, WorkerRefusesBook, WorkerRefusesUpdate,
         WorkerSkipsUpdate, WorkerAppliesUpdate, WorkerDetectsMismatch
<1>2. f \in BookFrames /\ spawned \in SUBSET Tokens
  BY <1>1, Facts, HeadTailProperties DEF TakeFrame, VInv, TypeOK
<1>3. /\ f.token \in Tokens /\ f.after \in Content /\ f.connection \in Connections
      /\ book[f.token] \in Books
      /\ f.kind = "price_change" => f.level \in Levels /\ f.size \in 0 .. MaxChanges
  BY <1>2, Facts DEF BookFrames
<1>4. book \in [Tokens -> Books] /\ open \in [Tokens -> Nat]
  BY Facts DEF BookTypes
<1>5. f.kind = "price_change" => Updated(f) \in Books
                                 /\ Updated(f).connection = book[f.token].connection
  BY <1>3 DEF Updated, Books, Content
<1> DEFINE Kept == \A t \in Tokens :
                     \/ book'[t].connection = book[t].connection
                     \/ behind[t] = 0 /\ book'[t].connection = f.connection
           Good == book' \in [Tokens -> Books] /\ open' \in [Tokens -> Nat] /\ Kept
                   /\ spawned' \in SUBSET Tokens
<1>6. ASSUME NEW b \in Books, b.connection = book[f.token].connection, RejectUpdate(f.token, b)
      PROVE  Good
  <2>1. Invalid(b) \in Books /\ Invalid(b).connection = b.connection
    BY <1>6 DEF Invalid, Books
  <2>2. book' = [book EXCEPT ![f.token] = Invalid(b)]
        /\ open' = [open EXCEPT ![f.token] = @ + 1] /\ spawned' = spawned \cup {f.token}
    BY <1>6 DEF RejectUpdate
  <2> HIDE DEF f
  <2>3. QED
    BY <1>2, <1>3, <1>4, <1>6, <2>1, <2>2
<1>7. ASSUME UNCHANGED <<book, open, spawned>> PROVE Good
  BY <1>2, <1>4, <1>7
<1>8. CASE WorkerTakesBook
  <2>1. /\ open' = [open EXCEPT ![f.token] = CloseOne(@)] /\ spawned' = spawned
        /\ IF IsStaleFrame(f) THEN book' = book
           ELSE book' = [book EXCEPT ![f.token] = Fresh(f.after, f.connection)]
    BY <1>8 DEF WorkerTakesBook
  <2>2. Fresh(f.after, f.connection) \in Books
        /\ Fresh(f.after, f.connection).connection = f.connection
    BY <1>3 DEF Fresh, Books
  <2>3. open' \in [Tokens -> Nat]
    BY <1>3, <1>4, <2>1 DEF CloseOne
  <2>4. ~IsStaleFrame(f) => behind[f.token] = 0
    BY <1>3, Facts DEF IsStaleFrame
  <2> HIDE DEF f
  <2>5. Good
    BY <1>2, <1>3, <1>4, <2>1, <2>2, <2>3, <2>4
  <2>6. QED
    BY <1>1, <2>5, TakenBooks DEF f
<1>9. CASE WorkerRefusesBook
  <2>1. RejectUpdate(f.token, book[f.token])
    BY <1>9 DEF WorkerRefusesBook
  <2>2. Good
    BY <1>3, <1>6, <2>1
  <2>3. QED
    BY <1>1, <2>2, TakenBooks
<1>10. CASE WorkerRefusesUpdate
  <2>1. RejectUpdate(f.token, book[f.token])
    BY <1>10 DEF WorkerRefusesUpdate
  <2>2. Good
    BY <1>3, <1>6, <2>1
  <2>3. QED
    BY <1>1, <2>2, TakenBooks
<1>11. CASE WorkerSkipsUpdate
  <2>1. Good
    BY <1>7, <1>11 DEF WorkerSkipsUpdate
  <2>2. QED
    BY <1>1, <2>1, TakenBooks
<1>12. CASE WorkerAppliesUpdate
  <2>1. book' = [book EXCEPT ![f.token] = Updated(f)] /\ open' = open /\ spawned' = spawned
        /\ f.kind = "price_change"
    BY <1>12 DEF WorkerAppliesUpdate
  <2> HIDE DEF f
  <2>2. Good
    BY <1>2, <1>3, <1>4, <1>5, <2>1
  <2>3. QED
    BY <1>1, <2>2, TakenBooks DEF f
<1>13. CASE WorkerDetectsMismatch
  <2>1. RejectUpdate(f.token, Updated(f)) /\ f.kind = "price_change"
    BY <1>13 DEF WorkerDetectsMismatch
  <2>2. Good
    BY <1>5, <1>6, <2>1
  <2>3. QED
    BY <1>1, <2>2, TakenBooks
<1>14. QED
  BY <1>8, <1>9, <1>10, <1>11, <1>12, <1>13 DEF WorkerActs, Worker

-----------------------------------------------------------------------------
(* The steps of the invariant *)

\* What is left of the types when the books and the frames are taken out.
OtherTypes ==
  /\ exchange \in [Tokens -> Content] /\ changes \in 0 .. MaxChanges
  /\ connection \in 0 .. MaxConnections /\ connected \in BOOLEAN
  /\ spawned \subseteq Tokens
  /\ fetch \in [Tokens -> {Idle} \cup [stage : {"requested"}]
                          \cup [stage : {"answered"}, content : Content]]
  /\ task \in [Tasks -> {Idle, [stage |-> "spawned"]} \cup Walking]
  /\ ended \subseteq EndingMarkets /\ failures \in 0 .. MaxFailures

WalksOK == \A k \in Tasks : WalkOK(k)

LEMMA Parts ==
  VInv <=> OtherTypes /\ BookTypes /\ FrameTypes /\ FramesInOrder /\ BooksAreAhead /\ WalksOK
BY DEF VInv, TypeOK, OtherTypes, BookTypes, Books, Connections, WalksOK

LEMMA PartsAfter ==
  ASSUME OtherTypes', BookTypes', FrameTypes', FramesInOrder', BooksAreAhead', WalksOK'
  PROVE  VInv'
BY DEF VInv, TypeOK, OtherTypes, BookTypes, Books, Connections, WalksOK

\* A step that leaves the feed and the queue alone.
LEMMA SameFrames ==
  ASSUME VInv, UNCHANGED <<stream, queue>>
  PROVE  FrameTypes' /\ FramesInOrder' /\ connection' = connection
BY DEF VInv, FrameTypes, FramesInOrder, stream

\* A step that leaves the walks alone.
LEMMA SameWalks ==
  ASSUME VInv, BooksGoOn, OtherTypes', task' = task, connection <= connection',
         failures <= failures', ended \subseteq ended'
  PROVE  WalksOK'
<1>1. Advances
  BY DEF Advances, BooksGoOn
<1>2. \A t \in Tokens : book'[t].connection \in Nat
  BY Constants DEF BooksGoOn, BookTypes, Books, Connections
<1>3. connection' \in Nat /\ failures' \in Nat
  BY Constants DEF OtherTypes
<1>4. QED
  BY <1>1, <1>2, <1>3, WalkStands DEF WalksOK

\* One turn of _book_worker.
LEMMA WorkerStep ==
  ASSUME VInv, WorkerActs
  PROVE  VInv' /\ task' = task
<1>1. BooksGoOn /\ FrameTypes' /\ FramesInOrder' /\ spawned' \in SUBSET Tokens
  BY WorkerBooks
<1>2. /\ TakeFrame
      /\ failures' = failures \/ (failures < MaxFailures /\ failures' = failures + 1)
  <2>1. CASE Worker
    <3>1. WorkerTakesBook => TakeFrame /\ failures' = failures
      BY DEF WorkerTakesBook
    <3>2. WorkerRefusesUpdate => TakeFrame /\ failures' = failures
      BY DEF WorkerRefusesUpdate
    <3>3. WorkerSkipsUpdate => TakeFrame /\ failures' = failures
      BY DEF WorkerSkipsUpdate
    <3>4. WorkerAppliesUpdate => TakeFrame /\ failures' = failures
      BY DEF WorkerAppliesUpdate
    <3>5. WorkerDetectsMismatch => TakeFrame /\ failures' = failures
      BY DEF WorkerDetectsMismatch
    <3>6. QED
      BY <2>1, <3>1, <3>2, <3>3, <3>4, <3>5 DEF Worker
  <2>2. CASE WorkerRefusesBook
    BY <2>2 DEF WorkerRefusesBook
  <2>3. QED
    BY <2>1, <2>2 DEF WorkerActs
<1>3. UNCHANGED <<stream, fetch, task, ended>>
  BY <1>2 DEF TakeFrame
<1>4. OtherTypes' /\ failures <= failures'
  BY <1>1, <1>2, <1>3, Parts, Constants DEF OtherTypes, stream
<1>5. connection \in Nat
  BY Facts
<1>6. WalksOK'
  BY <1>1, <1>3, <1>4, <1>5, SameWalks DEF stream
<1>7. QED
  BY <1>1, <1>3, <1>4, <1>6, PartsAfter DEF BooksGoOn

\* The exchange, the connection and the receive loop.
LEMMA FeedStep ==
  ASSUME VInv,
         \/ \E t \in Tokens, l \in Levels : ExchangeChanges(t, l)
         \/ ConnectionOpens \/ ConnectionFails \/ Disconnect \/ ReceiveFrame
  PROVE  VInv' /\ \A k \in Tasks : task'[k] = task[k] \/ task'[k] # Idle
<1>0. OtherTypes /\ FrameTypes /\ FramesInOrder /\ BookTypes /\ WalksOK
  BY Parts
<1> USE Constants
<1>1. CASE \E t \in Tokens, l \in Levels : ExchangeChanges(t, l)
  <2>1. PICK t \in Tokens, l \in Levels : ExchangeChanges(t, l)
    BY <1>1
  <2>2. UNCHANGED <<connection, connected, queue, books, repair, ended, failures>>
        /\ changes < MaxChanges /\ changes' = changes + 1
        /\ exchange' = [exchange EXCEPT ![t][l] = changes']
    BY <2>1 DEF ExchangeChanges
  <2>3. exchange' \in [Tokens -> Content] /\ changes' \in 0 .. MaxChanges
    BY <1>0, <2>2 DEF OtherTypes, Content
  <2>4. OtherTypes'
    BY <1>0, <2>2, <2>3 DEF OtherTypes, repair
  <2>5. BooksGoOn
    BY <2>2, Facts, SameBooks DEF books, BookTypes
  <2>6. WalksOK'
    BY <1>0, <2>2, <2>4, <2>5, SameWalks, Facts DEF repair, OtherTypes
  <2>7. FrameTypes' /\ FramesInOrder'
    <3> DEFINE f == [kind |-> "price_change", token |-> t, level |-> l, size |-> changes',
                     after |-> exchange'[t], connection |-> connection]
    <3>1. f \in BookFrames /\ f.connection = connection
      BY <1>0, <2>3, Facts DEF BookFrames, Connections
    <3>2. frames' = IF connected THEN Append(frames, f) ELSE frames
      BY <2>1 DEF ExchangeChanges
    <3> HIDE DEF f
    <3>3. frames' \in Seq(BookFrames) /\ \A i \in 1 .. Len(frames') : frames'[i].connection = connection
      BY <1>0, <3>1, <3>2, AppendProperties DEF FrameTypes, FramesInOrder
    <3>4. frames' # <<>> => connected
      BY <1>0, <3>2 DEF FramesInOrder
    <3>5. QED
      BY <1>0, <2>2, <3>3, <3>4 DEF FrameTypes, FramesInOrder
  <2>8. QED
    BY <2>2, <2>4, <2>5, <2>6, <2>7, PartsAfter DEF BooksGoOn, repair
<1>2. CASE ConnectionOpens
  <2>1. /\ connected' = TRUE /\ connection' = connection + 1 /\ connection < MaxConnections
        /\ UNCHANGED <<exchange, changes, queue, books, spawned, fetch, ended, failures>>
        /\ task' = IF connection' > 1
                   THEN [task EXCEPT ![connection'] = [stage |-> "spawned"]] ELSE task
    BY <1>2 DEF ConnectionOpens
  <2>2. PICK order \in TokenOrders :
          frames' = [i \in DOMAIN order |->
                    [kind |-> "book", token |-> order[i], after |-> exchange[order[i]],
                     connection |-> connection']]
    BY <1>2 DEF ConnectionOpens
  <2>3. connection \in Nat /\ connection' \in Connections
    BY <2>1, Facts DEF Connections
  <2>4. FrameTypes' /\ FramesInOrder'
    <3>1. order \in [1 .. Cardinality(Tokens) -> Tokens] /\ Cardinality(Tokens) \in Nat
      BY TokensAreFinite, FS_CardinalityType DEF TokenOrders
    <3> DEFINE f(i) == [kind |-> "book", token |-> order[i], after |-> exchange[order[i]],
                        connection |-> connection']
    <3>2. \A i \in 1 .. Cardinality(Tokens) : f(i) \in BookFrames /\ f(i).connection = connection'
      BY <1>0, <2>3, <3>1 DEF BookFrames, OtherTypes
    <3>3. frames' = [i \in 1 .. Cardinality(Tokens) |-> f(i)]
      BY <2>2, <3>1
    <3> HIDE DEF f
    <3>4. frames' \in Seq(BookFrames) /\ \A i \in 1 .. Len(frames') : frames'[i].connection = connection'
      <4>1. frames' \in [1 .. Cardinality(Tokens) -> BookFrames]
        BY <3>2, <3>3
      <4>2. frames' \in Seq(BookFrames) /\ Len(frames') = Cardinality(Tokens)
        BY <3>1, <4>1
      <4>3. QED
        BY <3>2, <3>3, <4>2
    <3>5. \A i \in 1 .. Len(queue) : queue[i].connection <= connection'
      <4>1. \A i \in 1 .. Len(queue) :
              queue[i].connection <= connection /\ queue[i].connection \in Nat
        BY <1>0, Facts DEF FramesInOrder
      <4>2. connection' = connection + 1 /\ connection \in Nat
        BY <2>1, <2>3
      <4>3. QED
        BY <4>1, <4>2
    <3>6. QED
      BY <1>0, <2>1, <3>4, <3>5 DEF FrameTypes, FramesInOrder
  <2>5. BooksGoOn
    BY <2>1, <2>3, Facts, SameBooks DEF books, BookTypes
  <2>6. connection' > 1 => connection' \in Reconnections /\ connection' \in Tasks
    BY <2>1, <2>3 DEF Reconnections, Tasks, Connections
  <2>7. OtherTypes'
    BY <1>0, <2>1, <2>3, <2>6 DEF OtherTypes, Connections
  <2>8. ASSUME NEW k \in Tasks PROVE WalkOK(k)' /\ (task'[k] = task[k] \/ task'[k] # Idle)
    <3>1. CASE task'[k] = task[k]
      <4>1. Advances
        BY <1>0, <2>1, <2>3, <2>5, Facts DEF Advances, BooksGoOn, books, OtherTypes
      <4>2. QED
        BY <3>1, <4>1, <2>5, <2>7, WalkStands
           DEF BooksGoOn, BookTypes, Books, Connections, OtherTypes
    <3>2. CASE task'[k] # task[k]
      <4>1. k = connection' /\ task'[k] = [stage |-> "spawned"]
        BY <1>0, <2>1, <2>6, <3>2 DEF OtherTypes
      <4>2. task'[k].stage = "spawned" /\ task'[k] # Idle
        BY <4>1 DEF Idle
      <4>3. k <= connection'
        BY <2>3, <4>1 DEF Connections
      <4>4. QED
        BY <4>2, <4>3 DEF WalkOK
    <3>3. QED
      BY <3>1, <3>2
  <2>9. QED
    BY <2>4, <2>5, <2>7, <2>8, PartsAfter DEF BooksGoOn, WalksOK
<1>3. CASE ConnectionFails \/ Disconnect
  <2>1. /\ UNCHANGED <<exchange, changes, queue, books, repair, ended, failures>>
        /\ connection' \in {connection, connection + 1} /\ connection' \in Connections
        /\ connected' \in BOOLEAN
    <3>1. connection \in Connections /\ connection \in Nat /\ connected \in BOOLEAN
      BY <1>0, Facts DEF OtherTypes
    <3>2. CASE ConnectionFails
      BY <3>1, <3>2 DEF ConnectionFails, Connections
    <3>3. CASE Disconnect
      BY <3>1, <3>3 DEF Disconnect
    <3>4. QED
      BY <1>3, <3>2, <3>3
  <2>2. frames' = <<>>
    BY <1>0, <1>3 DEF ConnectionFails, Disconnect, FramesInOrder
  <2>3. connection <= connection' /\ connection' \in Nat
    BY <2>1, Facts DEF Connections
  <2>4. FrameTypes' /\ FramesInOrder'
    <3>1. \A i \in 1 .. Len(queue) : queue[i].connection <= connection'
      BY <1>0, <2>1, <2>3, Facts DEF FramesInOrder
    <3>2. frames' \in Seq(BookFrames) /\ Len(frames') = 0
      BY <2>2
    <3>3. QED
      BY <1>0, <2>1, <2>2, <3>1, <3>2 DEF FrameTypes, FramesInOrder
  <2>5. BooksGoOn
    BY <2>1, <2>3, Facts, SameBooks DEF books, BookTypes
  <2>6. OtherTypes'
    BY <1>0, <2>1 DEF OtherTypes, repair, Connections
  <2>7. WalksOK'
    BY <2>1, <2>3, <2>5, <2>6, SameWalks DEF repair, OtherTypes
  <2>8. QED
    BY <2>1, <2>4, <2>5, <2>6, <2>7, PartsAfter DEF BooksGoOn, repair
<1>4. CASE ReceiveFrame
  <2>1. /\ frames # <<>> /\ frames' = Tail(frames)
        /\ queue' = IF Len(queue) < QueueCapacity THEN Append(queue, Head(frames)) ELSE queue
        /\ UNCHANGED <<exchange, changes, connection, connected, books, repair, ended, failures>>
    BY <1>4 DEF ReceiveFrame
  <2>2. /\ frames' \in Seq(BookFrames) /\ Head(frames) \in BookFrames /\ Len(frames') = Len(frames) - 1
        /\ Head(frames) = frames[1] /\ Len(frames) \in Nat \ {0}
        /\ \A i \in 1 .. Len(frames') : frames'[i] = frames[i + 1] /\ i + 1 \in 1 .. Len(frames)
    BY <2>1, Facts, HeadTailProperties, EmptySeq
  <2>3. /\ Head(frames).connection = connection /\ (frames' # <<>> => connected)
        /\ \A i \in 1 .. Len(frames') : frames'[i].connection = connection
    BY <1>0, <2>1, <2>2 DEF FramesInOrder
  <2>6. BooksGoOn /\ FrameTypes' /\ FramesInOrder'
    <3>1. CASE queue' = queue
      <4>1. BooksGoOn
        BY <2>1, <3>1, Facts, SameBooks DEF books, BookTypes
      <4>2. FrameTypes' /\ FramesInOrder'
        BY <1>0, <2>1, <2>2, <2>3, <3>1 DEF FrameTypes, FramesInOrder
      <4>3. QED
        BY <1>0, <2>1, <4>1, <4>2
    <3>2. CASE queue' # queue
      <4> DEFINE f == Head(frames)
      <4>1. queue' = Append(queue, f) /\ Len(queue) < QueueCapacity
        BY <2>1, <3>2
      <4> HIDE DEF f
      <4>2. /\ queue' \in Seq(BookFrames) /\ Len(queue') = Len(queue) + 1
            /\ \A i \in 1 .. Len(queue) : queue'[i] = queue[i]
            /\ queue'[Len(queue) + 1] = f
        BY <4>1, <2>2, Facts, AppendProperties DEF f
      <4>3. f.connection = connection /\ Len(queue) \in Nat /\ connection \in Nat
        BY <2>3, Facts DEF f
      <4>4. \A i \in 1 .. Len(queue') : i \in 1 .. Len(queue) \/ i = Len(queue) + 1
        BY <4>2, <4>3
      <4>5. \A i \in 1 .. Len(queue') :
              /\ queue'[i].connection <= connection
              /\ \A j \in 1 .. Len(queue') : i < j => queue'[i].connection <= queue'[j].connection
        <5>1. \A i \in 1 .. Len(queue) :
                /\ queue[i].connection <= connection
                /\ \A j \in 1 .. Len(queue) : i < j => queue[i].connection <= queue[j].connection
          BY <1>0 DEF FramesInOrder
        <5>2. QED
          BY <4>2, <4>3, <4>4, <5>1
      <4>6. FrameTypes' /\ FramesInOrder'
        BY <2>1, <2>2, <2>3, <4>2, <4>5 DEF FrameTypes, FramesInOrder
      <4>7. BookTypes'
        BY <1>0, <2>1, <4>1, <4>2, <4>3 DEF BookTypes, books
      <4>8. BooksAreAhead'
        <5>1. BooksAreAhead
          BY Parts
        <5>2. QED
          BY <2>1, <4>2, <4>3, <4>4, <5>1 DEF BooksAreAhead, books
      <4>9. BooksGoOn
        BY <2>1, <4>7, <4>8, Facts DEF BooksGoOn, books
      <4>10. QED
        BY <4>6, <4>9
    <3>3. QED
      BY <3>1, <3>2
  <2>7. OtherTypes'
    BY <1>0, <2>1 DEF OtherTypes, repair
  <2>8. WalksOK'
    BY <1>0, <2>1, <2>6, <2>7, SameWalks, Facts DEF repair, OtherTypes
  <2>9. QED
    BY <2>1, <2>6, <2>7, <2>8, PartsAfter DEF BooksGoOn, repair
<1>5. QED
  BY <1>1, <1>2, <1>3, <1>4

\* The market's end, and every step of _recover_token.
LEMMA OtherStep ==
  ASSUME VInv,
         \/ \E m \in DOMAIN ActiveMarkets : MarketEnds(m)
         \/ \E t \in Tokens : RecoverToken(t) \/ RecoverTokenFails(t) \/ RecoverTokenRejected(t)
  PROVE  VInv' /\ task' = task
<1>0. OtherTypes /\ BookTypes /\ UNCHANGED <<stream, queue, task>>
  BY Parts DEF MarketEnds, RecoverToken, RecoverTokenStarts, RecoverTokenServed,
     RecoverTokenApplies, RecoverTokenFails, RecoverTokenRejected, repair
<1>1. FrameTypes' /\ FramesInOrder' /\ connection' = connection /\ connection \in Nat
  BY <1>0, SameFrames, Facts
<1> USE Constants
<1> DEFINE Good == /\ BooksGoOn /\ OtherTypes' /\ failures <= failures' /\ ended \subseteq ended'
<1>2. ASSUME UNCHANGED books PROVE BooksGoOn
  BY <1>0, <1>1, <1>2, Facts, SameBooks DEF books, BookTypes
<1>3. ASSUME NEW m \in DOMAIN ActiveMarkets, MarketEnds(m) PROVE Good
  BY <1>0, <1>2, <1>3 DEF MarketEnds, OtherTypes, stream, repair
<1>4. ASSUME NEW t \in Tokens,
             RecoverToken(t) \/ RecoverTokenFails(t) \/ RecoverTokenRejected(t)
      PROVE  Good
  <2> DEFINE F == {Idle} \cup [stage : {"requested"}] \cup [stage : {"answered"}, content : Content]
  <2>0. fetch \in [Tokens -> F] /\ exchange \in [Tokens -> Content] /\ Idle \in F
        /\ \A w \in F : w.stage = "answered" => w.content \in Content
    BY <1>0 DEF OtherTypes, Idle
  <2>1. CASE RecoverTokenStarts(t)
    <3>1. [stage |-> "requested"] \in F
      OBVIOUS
    <3>2. /\ spawned' = spawned \ {t} /\ UNCHANGED <<stream, queue, books, task, ended, failures>>
          /\ fetch' = fetch \/ fetch' = [fetch EXCEPT ![t] = [stage |-> "requested"]]
      BY <2>1 DEF RecoverTokenStarts
    <3> HIDE DEF F
    <3>3. fetch' \in [Tokens -> F]
      BY <2>0, <3>1, <3>2
    <3>4. QED
      BY <1>0, <1>2, <3>2, <3>3 DEF OtherTypes, stream, F
  <2>2. CASE RecoverTokenServed(t)
    <3>1. [stage |-> "answered", content |-> exchange[t]] \in F
      BY <2>0
    <3>2. /\ UNCHANGED <<stream, queue, books, spawned, task, ended, failures>>
          /\ fetch' = [fetch EXCEPT ![t] = [stage |-> "answered", content |-> exchange[t]]]
      BY <2>2 DEF RecoverTokenServed
    <3> HIDE DEF F
    <3>3. fetch' \in [Tokens -> F]
      BY <2>0, <3>1, <3>2
    <3>4. QED
      BY <1>0, <1>2, <3>2, <3>3 DEF OtherTypes, stream, F
  <2>3. CASE RecoverTokenApplies(t)
    <3>1. /\ UNCHANGED <<stream, queue, spawned, task, ended, failures>>
          /\ RestSnapshot(t, fetch[t].content, {}) /\ fetch[t].content \in Content
          /\ fetch' = [fetch EXCEPT ![t] = Idle]
      BY <2>0, <2>3 DEF RecoverTokenApplies
    <3> HIDE DEF F
    <3>2. fetch' \in [Tokens -> F]
      BY <2>0, <3>1
    <3>3. BooksGoOn
      BY <1>0, <3>1, SnapshotBooks
    <3>4. QED
      BY <1>0, <3>1, <3>2, <3>3 DEF OtherTypes, stream, F
  <2>4. CASE RecoverTokenFails(t)
    <3>1. /\ UNCHANGED <<stream, queue, books, spawned, task, ended>>
          /\ failures < MaxFailures /\ failures' = failures + 1
          /\ fetch' = [fetch EXCEPT ![t] = Idle]
      BY <2>4 DEF RecoverTokenFails
    <3> HIDE DEF F
    <3>2. fetch' \in [Tokens -> F]
      BY <2>0, <3>1
    <3>3. QED
      BY <1>0, <1>2, <3>1, <3>2 DEF OtherTypes, stream, F
  <2>5. CASE RecoverTokenRejected(t)
    <3>1. /\ UNCHANGED <<stream, queue, behind, open, spawned, task, ended>>
          /\ failures < MaxFailures /\ failures' = failures + 1
          /\ fetch' = [fetch EXCEPT ![t] = Idle]
          /\ book' = [book EXCEPT ![t] = Invalid(@)]
      BY <2>5 DEF RecoverTokenRejected
    <3> HIDE DEF F
    <3>2. fetch' \in [Tokens -> F]
      BY <2>0, <3>1
    <3>3. book' \in [Tokens -> Books] /\ \A u \in Tokens : book'[u].connection = book[u].connection
      BY <1>0, <3>1, Facts DEF Invalid, Books, BookTypes
    <3>4. BooksGoOn
      BY <1>0, <1>1, <3>1, <3>3, SameBooks
    <3>5. QED
      BY <1>0, <3>1, <3>2, <3>4 DEF OtherTypes, stream, F
  <2>6. QED
    BY <1>4, <2>1, <2>2, <2>3, <2>4, <2>5 DEF RecoverToken
<1>5. Good
  BY <1>3, <1>4
<1>6. WalksOK'
  BY <1>0, <1>1, <1>5, SameWalks
<1>7. QED
  BY <1>0, <1>1, <1>5, <1>6, PartsAfter DEF BooksGoOn

\* What a walk's step must come to.
Moved(k) ==
  /\ task'[k] \in {Idle, [stage |-> "spawned"]} \cup Walking
  /\ WalkOK(k)' /\ UNCHANGED <<stream, queue, spawned, fetch, ended>>
  /\ \A j \in Tasks \ {k} : task'[j] = task[j]
  /\ task' \in [Tasks -> {Idle, [stage |-> "spawned"]} \cup Walking]
  /\ failures' \in 0 .. MaxFailures /\ failures <= failures'

\* The property of one walk.
Replaced(k) ==
  task[k] # Idle /\ task'[k] = Idle /\ failures' = 0 =>
    \A t \in Tokens : MarketOf(t) \in ended' \/ book'[t].connection >= k

\* The other tasks and the frames are as they were.
LEMMA MovedStep ==
  ASSUME VInv, BooksGoOn, NEW k \in Tasks, Moved(k)
  PROVE  VInv' /\ \A j \in Tasks \ {k} : task'[j] = task[j]
<1>1. OtherTypes'
  BY Parts DEF Moved, OtherTypes, stream
<1>2. FrameTypes' /\ FramesInOrder' /\ connection' = connection /\ connection \in Nat
  BY SameFrames, Facts DEF Moved
<1>3. Advances
  BY <1>2 DEF Advances, BooksGoOn, Moved
<1>4. \A t \in Tokens : book'[t].connection \in Nat
  BY Constants DEF BooksGoOn, BookTypes, Books, Connections
<1>5. \A j \in Tasks : WalkOK(j)'
  BY <1>1, <1>2, <1>3, <1>4, Constants, WalkStands DEF Moved, OtherTypes
<1>6. QED
  BY <1>1, <1>2, <1>5, PartsAfter DEF BooksGoOn, WalksOK, Moved

LEMMA WalkFacts ==
  ASSUME VInv, NEW k \in Tasks
  PROVE  /\ task[k] \in {Idle, [stage |-> "spawned"]} \cup Walking
         /\ WalkOK(k) /\ connection \in Nat /\ k \in Int
         /\ failures \in 0 .. MaxFailures /\ ended \subseteq EndingMarkets
         /\ task \in [Tasks -> {Idle, [stage |-> "spawned"]} \cup Walking]
BY Constants, Facts
   DEF VInv, TypeOK, Tasks, StartupWalk, DiscoveryWalk, ValidationWalk, Reconnections

LEMMA SameBehind ==
  ASSUME UNCHANGED ended, NEW k \in Tasks, NEW w, task'[k] = w
  PROVE  Behind(task[k])' = Behind(w)
BY DEF Behind

\* Where a walk goes when it has done with the token it is at.
LEMMA RequestOK ==
  ASSUME VInv, NEW k \in Tasks, task[k] \in Walking, BooksGoOn,
         UNCHANGED <<stream, ended>>, task'[k] = NextRequest(k, task[k]),
         failures' \in Nat, failures <= failures',
         failures' = 0 => book'[TokenAt(task[k])].connection = connection
  PROVE  /\ task'[k] \in {Idle} \cup Walking /\ WalkOK(k)'
         /\ k \in Reconnections => Replaced(k)
         /\ MarkedOnEntry(k, task'[k]) \in SUBSET Tokens
         /\ TokenAt(task[k]) \in Tokens
<1> DEFINE w == task[k]
           v == NextRequest(k, w)
<1>1. /\ w.stage \in {"requested", "answered"} /\ w.index \in 1 .. Len(ActiveMarkets[w.market])
      /\ w.market \in DOMAIN ActiveMarkets /\ w # Idle
      /\ \A m \in w.todo : m > w.market
      /\ k \in Reconnections =>
           /\ k <= connection
           /\ failures = 0 => \A t \in Behind(w) : book[t].connection >= k
  <2>1. w.stage \in {"requested", "answered"} /\ w.market \in DOMAIN ActiveMarkets /\ w # Idle
    BY DEF Walking, Idle
  <2>2. QED
    BY <2>1, WalkFacts DEF WalkOK
<1>2. /\ v \in {Idle} \cup Walking
      /\ v # Idle => /\ v.stage = "requested" /\ v.index \in 1 .. Len(ActiveMarkets[v.market])
                     /\ \A m \in v.todo : m > v.market
                     /\ k \in Reconnections => Behind(v) \subseteq Behind(w) \cup {TokenAt(w)}
      /\ v = Idle /\ k \in Reconnections =>
           \A m \in DOMAIN ActiveMarkets \ ended : TokensIn(m) \subseteq Behind(w) \cup {TokenAt(w)}
  BY <1>1, NextRequestIs
<1>3. TokenAt(w) \in Tokens
  BY <1>1, ListedTokens DEF TokenAt
<1>4. ASSUME k \in Reconnections, failures' = 0
      PROVE  \A t \in Behind(w) \cup {TokenAt(w)} : book'[t].connection >= k
  <2>1. failures = 0
    BY <1>4, WalkFacts, Constants
  <2>2. \A t \in Tokens : /\ book[t].connection \in Nat /\ book'[t].connection \in Nat
                          /\ book[t].connection <= book'[t].connection
    BY Facts, Constants DEF BooksGoOn, BookTypes, Books, Connections
  <2>3. Behind(w) \subseteq Tokens
    BY DEF Behind
  <2>4. QED
    BY <1>1, <1>3, <1>4, <2>1, <2>2, <2>3, WalkFacts
<1> HIDE DEF v, w
<1>5. task[k] = w /\ task'[k] = v
  BY DEF v, w
<1>6. WalkOK(k)'
  <2>1. ASSUME v # Idle, k \in Reconnections, failures' = 0
        PROVE  \A t \in Behind(v) : book'[t].connection >= k
    BY <1>2, <1>4, <2>1
  <2>2. Idle.stage = "idle" /\ connection' = connection
    BY DEF Idle, stream
  <2>3. QED
    BY <1>1, <1>2, <1>5, <2>1, <2>2, SameBehind DEF WalkOK
<1>7. k \in Reconnections => Replaced(k)
  <2>1. ASSUME k \in Reconnections, v = Idle, failures' = 0, NEW t \in Tokens
        PROVE  MarketOf(t) \in ended' \/ book'[t].connection >= k
    BY <1>2, <1>4, <2>1, MarketOfToken
  <2>2. QED
    BY <1>5, <2>1 DEF Replaced
<1>8. MarkedOnEntry(k, v) \in SUBSET Tokens
  <2>1. v # Idle => v.market \in DOMAIN ActiveMarkets
    BY <1>2 DEF Walking
  <2>2. QED
    BY <2>1, ListedTokens DEF MarkedOnEntry
<1>9. QED
  BY <1>2, <1>3, <1>5, <1>6, <1>7, <1>8

\* A step of a walk: it starts, is served, applies an answer or fails.
LEMMA WalkStep ==
  ASSUME VInv, NEW k \in Tasks, Walk(k) \/ WalkFails(k)
  PROVE  /\ VInv' /\ \A j \in Tasks \ {k} : task'[j] = task[j]
         /\ k \in Reconnections => Replaced(k)
<1> USE Constants
<1>0. UNCHANGED <<stream, queue, spawned, fetch, ended>>
  BY DEF Walk, WalkStarts, WalkServed, WalkApplies, WalkFails
<1>1. SUFFICES BooksGoOn /\ Moved(k) /\ (k \in Reconnections => Replaced(k))
  BY MovedStep
<1>2. ASSUME NEW w \in {Idle, [stage |-> "spawned"]} \cup Walking,
             task' = [task EXCEPT ![k] = w]
      PROVE  /\ task'[k] = w /\ \A j \in Tasks \ {k} : task'[j] = task[j]
             /\ task' \in [Tasks -> {Idle, [stage |-> "spawned"]} \cup Walking]
  BY <1>2, WalkFacts
<1>3. CASE WalkStarts(k)
  <2> DEFINE todo == WalkFrom(k)
             w == NextStop(k, todo)
  <2>1. /\ task' = [task EXCEPT ![k] = w] /\ failures' = failures
        /\ MarkUncertain(MarkedOnEntry(k, task'[k]))
        /\ k \in Reconnections => task[k].stage = "spawned"
    BY <1>3 DEF WalkStarts, Reconnections, DiscoveryWalk, ValidationWalk
  <2>2. /\ todo \in SUBSET DOMAIN ActiveMarkets
        /\ k \in Reconnections => todo = DOMAIN ActiveMarkets \ ended
    BY DEF WalkFrom, Reconnections, ValidationWalk
  <2>3. \/ w = Idle /\ \A m \in todo : ~WantsMarket(k, m)
        \/ /\ w \in Walking /\ w.stage = "requested" /\ w.index = 1 /\ w.market \in todo
           /\ w.todo = {m \in todo : m > w.market}
           /\ k \in Reconnections => \A m \in todo : m >= w.market
    BY <2>2, NextStopIs
  <2> HIDE DEF w, todo
  <2>4. /\ task'[k] = w /\ \A j \in Tasks \ {k} : task'[j] = task[j]
        /\ task' \in [Tasks -> {Idle, [stage |-> "spawned"]} \cup Walking]
    BY <1>2, <2>1, <2>3
  <2>5. MarkedOnEntry(k, w) \in SUBSET Tokens
    BY <2>2, <2>3, ListedTokens DEF MarkedOnEntry
  <2>6. BooksGoOn
    BY <1>0, <2>1, <2>4, <2>5, MarkedBooks
  <2>7. k \in Reconnections => k <= connection /\ task[k] # Idle
    BY <2>1, WalkFacts DEF WalkOK, Idle
  <2>8. WalkOK(k)'
    <3>1. w # Idle => 1 \in 1 .. Len(ActiveMarkets[w.market])
      BY <2>2, <2>3, ListedTokens
    <3>2. w # Idle /\ k \in Reconnections => Behind(w) = {}
      <4>1. ASSUME w # Idle, k \in Reconnections
            PROVE  DOMAIN ActiveMarkets \ (ended \cup w.todo \cup {w.market}) = {}
        <5>1. \A m \in todo : m >= w.market /\ m \in Int
          BY <2>2, <2>3, <4>1, ListedTokens
        <5>2. w.market \in Int
          BY <2>3, <4>1, <5>1
        <5>3. \A m \in todo : m \in w.todo \cup {w.market}
          BY <2>3, <4>1, <5>1, <5>2
        <5>4. QED
          BY <2>2, <4>1, <5>3
      <4>2. w # Idle => 1 .. w.index - 1 = {}
        BY <2>3
      <4>3. QED
        BY <4>1, <4>2 DEF Behind
    <3>3. Idle.stage = "idle" /\ connection' = connection
      BY <1>0 DEF Idle, stream
    <3>4. QED
      BY <1>0, <2>3, <2>4, <2>7, <3>1, <3>2, <3>3, SameBehind DEF WalkOK
  <2>9. k \in Reconnections => Replaced(k)
    <3>1. ASSUME k \in Reconnections, w = Idle, NEW t \in Tokens PROVE MarketOf(t) \in ended'
      <4>1. \A m \in todo : FALSE
        BY <2>3, <3>1 DEF WantsMarket, Reconnections, StartupWalk, DiscoveryWalk, ValidationWalk, Idle, Walking
      <4>2. QED
        BY <1>0, <2>2, <3>1, <4>1, MarketOfToken
    <3>2. QED
      BY <2>4, <3>1 DEF Replaced
  <2>10. QED
    BY <1>0, <2>1, <2>4, <2>6, <2>8, <2>9, WalkFacts DEF Moved
<1>4. CASE WalkServed(k)
  <2> DEFINE w == [stage |-> "answered", market |-> task[k].market, index |-> task[k].index,
                   todo |-> task[k].todo, content |-> exchange[TokenAt(task[k])]]
  <2>1. task[k].stage = "requested" /\ task' = [task EXCEPT ![k] = w] /\ UNCHANGED <<books, failures>>
    BY <1>4, WalkFacts DEF WalkServed
  <2>2. /\ task[k].market \in DOMAIN ActiveMarkets /\ task[k].index \in 1 .. Len(ActiveMarkets[task[k].market])
        /\ task[k].index \in Nat \ {0} /\ task[k].todo \in SUBSET DOMAIN ActiveMarkets
        /\ task[k] # Idle
    BY <2>1, WalkFacts, IdleStage DEF WalkOK, Idle
  <2>3. exchange[TokenAt(task[k])] \in Content
    BY <2>2, ListedTokens DEF VInv, TypeOK, TokenAt
  <2>4. w \in Walking /\ w.stage = "answered" /\ w # Idle
        /\ w.market = task[k].market /\ w.index = task[k].index /\ w.todo = task[k].todo
    BY <2>2, <2>3 DEF Walking, Idle
  <2>5. Behind(w) = Behind(task[k])
    BY <2>4 DEF Behind
  <2> HIDE DEF w
  <2>6. /\ task'[k] = w /\ \A j \in Tasks \ {k} : task'[j] = task[j]
        /\ task' \in [Tasks -> {Idle, [stage |-> "spawned"]} \cup Walking]
    BY <1>2, <2>1, <2>4
  <2>7. BooksGoOn
    BY <1>0, <2>1, Facts, SameBooks DEF books, stream, BookTypes
  <2>8. WalkOK(k)'
    <3>1. connection' = connection /\ book' = book
      BY <1>0, <2>1 DEF stream, books
    <3>2. QED
      BY <1>0, <2>1, <2>2, <2>4, <2>5, <2>6, <3>1, WalkFacts, SameBehind DEF WalkOK
  <2>9. QED
    BY <1>0, <2>1, <2>4, <2>6, <2>7, <2>8, WalkFacts DEF Moved, Replaced
<1>5. CASE WalkApplies(k)
  <2> DEFINE w == NextRequest(k, task[k])
  <2>1. /\ task[k].stage = "answered" /\ task' = [task EXCEPT ![k] = w] /\ failures' = failures
        /\ RestSnapshot(TokenAt(task[k]), task[k].content, MarkedOnEntry(k, task'[k]))
    BY <1>5, WalkFacts DEF WalkApplies
  <2>2. /\ task[k] \in Walking /\ task[k].content \in Content
        /\ task[k].index \in 1 .. Len(ActiveMarkets[task[k].market])
        /\ task[k].market \in DOMAIN ActiveMarkets
    BY <2>1, WalkFacts, IdleStage DEF WalkOK
  <2>3. TokenAt(task[k]) \in Tokens
    BY <2>2, ListedTokens DEF TokenAt
  <2>4. w \in {Idle} \cup Walking
    BY <2>2, NextRequestIs
  <2>5. MarkedOnEntry(k, w) \in SUBSET Tokens
    BY <2>4, ListedTokens DEF MarkedOnEntry, Walking
  <2> HIDE DEF w
  <2>6. /\ task'[k] = w /\ \A j \in Tasks \ {k} : task'[j] = task[j]
        /\ task' \in [Tasks -> {Idle, [stage |-> "spawned"]} \cup Walking]
    BY <1>2, <2>1, <2>4
  <2>7. BooksGoOn /\ book'[TokenAt(task[k])].connection = connection
    BY <1>0, <2>1, <2>2, <2>3, <2>5, <2>6, SnapshotBooks
  <2>8. failures' \in Nat /\ failures <= failures' /\ failures' \in 0 .. MaxFailures
    BY <2>1, WalkFacts
  <2>9. WalkOK(k)' /\ (k \in Reconnections => Replaced(k))
    BY <1>0, <2>2, <2>6, <2>7, <2>8, RequestOK DEF w
  <2>10. QED
    BY <1>0, <2>4, <2>6, <2>7, <2>8, <2>9 DEF Moved
<1>6. CASE WalkFails(k)
  <2> DEFINE w == NextRequest(k, task[k])
  <2>1. /\ task[k].stage \in {"requested", "answered"} /\ task' = [task EXCEPT ![k] = w]
        /\ failures < MaxFailures /\ failures' = failures + 1
        /\ MarkUncertain({TokenAt(task[k])} \cup MarkedOnEntry(k, task'[k]))
    BY <1>6, WalkFacts DEF WalkFails
  <2>2. /\ task[k] \in Walking
        /\ task[k].index \in 1 .. Len(ActiveMarkets[task[k].market])
        /\ task[k].market \in DOMAIN ActiveMarkets
    BY <2>1, WalkFacts, IdleStage DEF WalkOK
  <2>3. TokenAt(task[k]) \in Tokens
    BY <2>2, ListedTokens DEF TokenAt
  <2>4. w \in {Idle} \cup Walking
    BY <2>2, NextRequestIs
  <2>5. MarkedOnEntry(k, w) \in SUBSET Tokens
    BY <2>4, ListedTokens DEF MarkedOnEntry, Walking
  <2> HIDE DEF w
  <2>6. /\ task'[k] = w /\ \A j \in Tasks \ {k} : task'[j] = task[j]
        /\ task' \in [Tasks -> {Idle, [stage |-> "spawned"]} \cup Walking]
    BY <1>2, <2>1, <2>4
  <2>7. BooksGoOn
    <3>1. {TokenAt(task[k])} \cup MarkedOnEntry(k, task'[k]) \in SUBSET Tokens
      BY <2>3, <2>5, <2>6
    <3>2. QED
      BY <1>0, <2>1, <3>1, MarkedBooks
  <2>8. failures' \in Nat /\ failures <= failures' /\ failures' \in 0 .. MaxFailures
        /\ failures' # 0
    BY <2>1, WalkFacts
  <2>9. WalkOK(k)' /\ (k \in Reconnections => Replaced(k))
    BY <1>0, <2>2, <2>6, <2>7, <2>8, RequestOK DEF w
  <2>10. QED
    BY <1>0, <2>4, <2>6, <2>7, <2>8, <2>9 DEF Moved
<1>7. QED
  BY <1>3, <1>4, <1>5, <1>6 DEF Walk

\* Nothing is connected, queued or replaced yet.
LEMMA VInvInit == RecoveryInit => VInv
<1> SUFFICES ASSUME RecoveryInit PROVE VInv
  OBVIOUS
<1> USE Constants
<1>1. OtherTypes
  <2>1. /\ exchange = [t \in Tokens |-> [l \in Levels |-> 0]] /\ changes = 0
        /\ connection = 0 /\ connected = FALSE /\ spawned = {} /\ ended = {} /\ failures = 0
        /\ fetch = [t \in Tokens |-> Idle]
        /\ task = [k \in Tasks |-> IF k = StartupWalk THEN [stage |-> "spawned"] ELSE Idle]
    BY DEF RecoveryInit
  <2>2. [l \in Levels |-> 0] \in Content
    BY DEF Content
  <2>3. exchange \in [Tokens -> Content]
    BY <2>1, <2>2
  <2>4. fetch \in [Tokens -> {Idle} \cup [stage : {"requested"}]
                            \cup [stage : {"answered"}, content : Content]]
    BY <2>1, Zenon
  <2>5. task \in [Tasks -> {Idle, [stage |-> "spawned"]} \cup Walking]
    BY <2>1, Zenon
  <2>6. 0 \in 0 .. MaxFailures /\ 0 \in 0 .. MaxConnections /\ 0 \in 0 .. MaxChanges
    OBVIOUS
  <2>7. QED
    BY <2>1, <2>3, <2>4, <2>5, <2>6, Zenon DEF OtherTypes
<1>2. frames = <<>> /\ queue = <<>> /\ Len(frames) = 0 /\ Len(queue) = 0 /\ connection = 0
  BY DEF RecoveryInit
<1>3. FrameTypes /\ FramesInOrder
  BY <1>2 DEF FrameTypes, FramesInOrder
<1>4. \A t \in Tokens : book[t] \in Books /\ book[t].connection = 0
  BY DEF RecoveryInit, Books, Content, Connections
<1>5. BookTypes
  <2>1. behind = [t \in Tokens |-> 0] /\ open = [t \in Tokens |-> 0]
    BY DEF RecoveryInit
  <2>2. book \in [Tokens -> Books]
    BY <1>4 DEF RecoveryInit
  <2>3. QED
    BY <1>2, <2>1, <2>2 DEF BookTypes
<1>6. BooksAreAhead
  BY <1>2, <1>4 DEF BooksAreAhead
<1>7. ASSUME NEW k \in Tasks PROVE WalkOK(k)
  <2>1. k \in Reconnections => k # StartupWalk
    BY DEF Reconnections, StartupWalk
  <2>2. task[k] = IF k = StartupWalk THEN [stage |-> "spawned"] ELSE Idle
    BY DEF RecoveryInit
  <2>3. task[k].stage \notin {"requested", "answered"}
    BY <2>2 DEF Idle
  <2>4. QED
    BY <2>1, <2>2, <2>3 DEF WalkOK
<1>8. QED
  BY <1>1, <1>3, <1>5, <1>6, <1>7, Parts DEF WalksOK

\* Every step keeps the invariant, and no step ends a reconnection's walk with
\* a book that it has not replaced.
LEMMA VInvStep ==
  ASSUME VInv, [RecoveryNext]_recoveryVars
  PROVE  VInv' /\ \A k \in Reconnections : Replaced(k)
<1>1. ASSUME \A k \in Reconnections : task'[k] = task[k] \/ task'[k] # Idle
      PROVE  \A k \in Reconnections : Replaced(k)
  BY <1>1 DEF Replaced
<1>2. Reconnections \subseteq Tasks
  BY DEF Tasks
<1>3. CASE UNCHANGED recoveryVars
  <2>1. VInv'
    BY <1>3 DEF recoveryVars, stream, books, repair, VInv, TypeOK, FrameTypes, FramesInOrder,
                BooksAreAhead, WalkOK, Behind
  <2>2. QED
    BY <1>1, <1>3, <2>1 DEF recoveryVars, repair
<1>4. CASE \/ \E t \in Tokens, l \in Levels : ExchangeChanges(t, l)
           \/ ConnectionOpens \/ ConnectionFails \/ Disconnect \/ ReceiveFrame
  BY <1>1, <1>2, <1>4, FeedStep
<1>5. CASE \/ \E m \in DOMAIN ActiveMarkets : MarketEnds(m)
           \/ \E t \in Tokens : RecoverToken(t) \/ RecoverTokenFails(t) \/ RecoverTokenRejected(t)
  BY <1>1, <1>5, OtherStep
<1>6. CASE Worker \/ WorkerRefusesBook
  BY <1>1, <1>6, WorkerStep DEF WorkerActs
<1>7. CASE \E k \in Tasks : Walk(k) \/ WalkFails(k)
  <2>1. PICK k \in Tasks : Walk(k) \/ WalkFails(k)
    BY <1>7
  <2>2. /\ VInv' /\ \A j \in Tasks \ {k} : task'[j] = task[j]
        /\ k \in Reconnections => Replaced(k)
    BY <2>1, WalkStep
  <2>3. \A j \in Reconnections : Replaced(j)
    BY <1>2, <2>2 DEF Replaced
  <2>4. QED
    BY <2>2, <2>3
<1>8. QED
  BY <1>3, <1>4, <1>5, <1>6, <1>7 DEF RecoveryNext

LEMMA VInvariant == RecoverySpec => []VInv
<1>1. VInv /\ [RecoveryNext]_recoveryVars => VInv'
  BY VInvStep
<1>2. QED
  BY VInvInit, <1>1, PTL DEF RecoverySpec

\* The types of the books, the frames, the tasks and their requests.
THEOREM RecoveryTypeCorrect == RecoverySpec => []TypeOK
<1>1. VInv => TypeOK
  BY DEF VInv
<1>2. QED
  BY <1>1, VInvariant, PTL

\* CompletedRecoveryReplacedAll: _recover_all_books is through and nothing has
\* failed, so every book of a market still open was replaced on the new
\* connection, and neither frames still queued nor other tasks took it back.
THEOREM RecoveryCorrect == RecoverySpec => CompletedRecoveryReplacedAll
<1>1. VInv /\ [RecoveryNext]_recoveryVars =>
        [\A k \in Reconnections : Replaced(k)]_recoveryVars
  BY VInvStep
<1>2. RecoverySpec => [][\A k \in Reconnections : Replaced(k)]_recoveryVars
  BY <1>1, VInvariant, PTL DEF RecoverySpec
<1>3. QED
  BY <1>2 DEF CompletedRecoveryReplacedAll, Replaced

=============================================================================
