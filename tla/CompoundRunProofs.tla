-------------------------- MODULE CompoundRunProofs --------------------------
(***************************************************************************)
(* Proofs about ReplayWallet under any use, and about CompoundRun.         *)
(*                                                                         *)
(* WInv adds to the wallet's types how the pending credits, the newest     *)
(* event, wallet time and the time a call advances to are ordered, and     *)
(* that the ledger is what is spendable plus what is pending.  The release *)
(* loop keeps the order because it takes the credits in heap order.        *)
(*                                                                         *)
(* A replay is a use of the wallet, so WInv holds in it.  CInv relates the *)
(* wallet to the flows of the run: from wallet time on, the cash the flows *)
(* add up to is what the wallet will hold, plus what the current episode   *)
(* has not yet written to it.  The simulator checks each order against a   *)
(* smaller amount, which leaves out this episode's sales, so no time on    *)
(* which the order has a bearing is taken below zero; and when a debit's   *)
(* advance is through, nothing the sum counts is left but available cash.  *)
(***************************************************************************)
EXTENDS CompoundRun, SumTheorems, SequenceTheorems

-----------------------------------------------------------------------------
(* The wallet *)

Ordered ==
  /\ \A c \in pending : c.at >= lastEvent
  /\ call = NoCall => lastEvent <= now /\ \A c \in pending : c.at > now
  /\ call # NoCall => lastEvent <= call.at /\ now <= call.at

WInv == WalletTypeOK /\ Ordered /\ IsFiniteSet(pending)

\* No two credits have the same number, and the next number is free.
Numbered ==
  /\ \A c \in pending : c.seq <= sequence
  /\ \A c, d \in pending : c.seq = d.seq => c = d

WCash == Numbered /\ CashIsConserved

\* The empty call differs from every method in progress.
LEMMA CallIsNotNone ==
  ASSUME NEW op, NEW t, NEW amount
  PROVE  [op |-> op, at |-> t, amount |-> amount] # NoCall
BY DEF NoCall

\* Starting a method only fixes the time to advance to.
LEMMA CallStep ==
  ASSUME WInv, NEW op \in {"advance", "debit", "credit"}, NEW t \in Nat,
         NEW amount \in Nat, Call(op, t, amount)
  PROVE  WInv'
<1>1. call' # NoCall
  BY CallIsNotNone DEF Call
<1>2. WalletTypeOK'
  BY DEF WInv, WalletTypeOK, Call
<1>3. Ordered'
  BY <1>1 DEF WInv, WalletTypeOK, Ordered, Call
<1>4. pending' = pending
  BY DEF Call
<1>5. QED
  BY <1>2, <1>3, <1>4 DEF WInv

\* The popped credit is the first: the others are due no earlier.
LEMMA ReleaseStep ==
  ASSUME WInv, NEW c \in pending, Release(c)
  PROVE  WInv'
<1>1. c \in Credit /\ \A d \in pending : d \in Credit /\ d.at >= c.at
  BY DEF WInv, WalletTypeOK, Release, IsFirst, Precedes, Credit
<1>2. WalletTypeOK'
  BY <1>1 DEF WInv, WalletTypeOK, Release, Credit
<1>3. Ordered'
  BY <1>1 DEF WInv, WalletTypeOK, Ordered, Release, Credit
<1>4. IsFiniteSet(pending')
  BY FS_RemoveElement DEF WInv, Release
<1>5. QED
  BY <1>2, <1>3, <1>4 DEF WInv

\* advance_to returns when every credit left lies after the new time.
LEMMA ReturnStep ==
  ASSUME WInv, Advanced \/ Debited \/ DebitRaises \/ Credited
  PROVE  WInv'
<1> DEFINE Calls == [op : {"advance", "debit", "credit"}, at : Nat, amount : Nat]
<1>1. AdvanceReturns /\ pending' = pending /\ sequence' = sequence
  BY DEF Advanced, Debited, DebitRaises, Credited
<1>2. call \in Calls
  BY <1>1 DEF WInv, WalletTypeOK, AdvanceReturns, LoopIsDone
<1>3. call.at \in Nat /\ call.amount \in Nat
  BY <1>2
<1>4. lastEvent' \in Nat /\ lastEvent' <= call.at
  BY <1>1, <1>3 DEF WInv, WalletTypeOK, Ordered, AdvanceReturns, LoopIsDone,
                    Advanced, Debited, DebitRaises, Credited
<1>5. available' \in Nat /\ ledger' \in Int
  BY <1>3 DEF WInv, WalletTypeOK, Advanced, Debited, DebitRaises, Credited
<1>6. WalletTypeOK'
  BY <1>1, <1>3, <1>4, <1>5 DEF WInv, WalletTypeOK, AdvanceReturns
<1>7. Ordered'
  BY <1>1, <1>3, <1>4 DEF WInv, WalletTypeOK, Ordered, AdvanceReturns, LoopIsDone, Credit
<1>8. QED
  BY <1>1, <1>6, <1>7 DEF WInv

\* A credit that is due goes in at once, any other lies ahead of wallet time.
LEMMA ScheduleStep ==
  ASSUME WInv, NEW t \in Nat, NEW amount \in Nat, ScheduleCredit(t, amount)
  PROVE  WInv'
<1>1. CASE t <= now
  <2>1. WalletTypeOK'
    BY <1>1 DEF WInv, WalletTypeOK, ScheduleCredit, PutInNow
  <2>2. Ordered'
    BY <1>1 DEF WInv, WalletTypeOK, Ordered, ScheduleCredit, PutInNow, Credit
  <2>3. QED
    BY <1>1, <2>1, <2>2 DEF WInv, ScheduleCredit, PutInNow
<1>2. CASE ~(t <= now)
  <2> DEFINE new == [at |-> t, seq |-> sequence + 1, amount |-> amount]
  <2>1. pending' = pending \cup {new} /\ new \in Credit /\ new.at > now
    BY <1>2 DEF WInv, WalletTypeOK, ScheduleCredit, PutAside, Credit
  <2>2. WalletTypeOK'
    BY <1>2, <2>1 DEF WInv, WalletTypeOK, ScheduleCredit, PutAside
  <2>3. Ordered'
    BY <1>2, <2>1 DEF WInv, WalletTypeOK, Ordered, ScheduleCredit, PutAside, Credit
  <2>4. IsFiniteSet(pending')
    BY <2>1, FS_AddElement DEF WInv
  <2>5. QED
    BY <2>2, <2>3, <2>4 DEF WInv
<1>3. QED
  BY <1>1, <1>2

\* Every use of the wallet keeps the order.
LEMMA WInvStep ==
  ASSUME WInv, [WalletNext]_wallet
  PROVE  WInv'
<1>1. ASSUME NEW t \in Nat, NEW amount \in Nat,
             NEW op \in {"advance", "debit", "credit"}, Call(op, t, amount)
      PROVE  WInv'
  BY <1>1, CallStep
<1>2. ASSUME NEW t \in Nat, NEW amount \in Nat, ScheduleCredit(t, amount) PROVE WInv'
  BY <1>2, ScheduleStep
<1>3. CASE WalletStep
  BY <1>3, ReleaseStep, ReturnStep DEF WalletStep
<1>4. CASE UNCHANGED wallet
  <2>1. WalletTypeOK'
    BY <1>4 DEF WInv, WalletTypeOK, wallet
  <2>2. Ordered'
    BY <1>4 DEF WInv, Ordered, wallet
  <2>3. QED
    BY <1>4, <2>1, <2>2 DEF WInv, wallet
<1>5. QED
  BY <1>1, <1>2, <1>3, <1>4 DEF WalletNext

LEMMA WInvInit ==
  ASSUME WalletInit
  PROVE  WInv
BY WalletAssumption, FS_EmptySet DEF WalletInit, WInv, WalletTypeOK, Ordered, NoCall

LEMMA WInvInvariant == WalletSpec => []WInv
BY WInvInit, WInvStep, PTL DEF WalletSpec

\* Available cash is a natural number in every state: no sequence of debits,
\* credits and scheduled credits overdraws the wallet (wallet.py, debit).
THEOREM WalletTypeCorrect == WalletSpec => []WalletTypeOK
<1>1. WInv => WalletTypeOK
  BY DEF WInv
<1>2. QED
  BY <1>1, WInvInvariant, PTL

\* Between calls no credit that is due is left unreleased, whatever the order
\* in which credits were scheduled (wallet.py, advance_to, schedule_credit).
THEOREM PendingCorrect == WalletSpec => []PendingLiesAhead
<1>1. WInv => PendingLiesAhead
  BY DEF WInv, Ordered, PendingLiesAhead
<1>2. QED
  BY <1>1, WInvInvariant, PTL

\* A step never puts an event before the newest one.
LEMMA EventStep ==
  ASSUME WInv, [WalletNext]_wallet
  PROVE  lastEvent' >= lastEvent
<1>1. ASSUME NEW t \in Nat, NEW amount \in Nat, NEW op,
             Call(op, t, amount) \/ ScheduleCredit(t, amount)
      PROVE  lastEvent' >= lastEvent
  BY <1>1 DEF Call, ScheduleCredit, PutInNow, PutAside, WInv, WalletTypeOK, Ordered
<1>2. ASSUME NEW c \in pending, Release(c) PROVE lastEvent' >= lastEvent
  BY <1>2 DEF Release, WInv, WalletTypeOK, Ordered
<1>3. CASE Advanced \/ Debited \/ DebitRaises \/ Credited
  BY <1>3 DEF Advanced, Debited, DebitRaises, Credited, AdvanceReturns, LoopIsDone,
              WInv, WalletTypeOK, Ordered
<1>4. CASE UNCHANGED wallet
  BY <1>4 DEF wallet, WInv, WalletTypeOK
<1>5. QED
  BY <1>1, <1>2, <1>3, <1>4 DEF WalletNext, WalletStep

\* The wallet's events are in order of their timestamps and, between calls,
\* not ahead of wallet time (wallet.py, advance_to).
THEOREM EventsCorrect == WalletSpec => EventsInOrder
<1>1. WInv /\ WInv' /\ [WalletNext]_wallet =>
        [/\ lastEvent' >= lastEvent
         /\ call' = NoCall => lastEvent' <= now']_wallet
  BY EventStep DEF WInv, Ordered
<1>2. QED
  BY <1>1, WInvInvariant, PTL DEF WalletSpec, EventsInOrder

\* What credits are worth, with one more and with one less.
LEMMA WorthOfMore ==
  ASSUME NEW S \in SUBSET Credit, IsFiniteSet(S), NEW c \in Credit, c \notin S
  PROVE  Worth(S \cup {c}) = Worth(S) + c.amount /\ Worth(S) \in Nat
<1> DEFINE f == [d \in S |-> d.amount]
           e == [d \in S \cup {c} |-> d.amount]
<1>1. (\A d \in S : f[d] \in Nat /\ e[d] = f[d]) /\ e[c] = c.amount /\ c.amount \in Nat
  BY DEF Credit
<1>2. Worth(S) = SumFunctionOnSet(f, S)
      /\ Worth(S \cup {c}) = SumFunctionOnSet(e, S \cup {c})
  BY DEF Worth
<1> HIDE DEF f, e
<1>0. \A d \in S \cup {c} : e[d] \in Int
  BY <1>1
<1>3. SumFunctionOnSet(e, S \cup {c}) = e[c] + SumFunctionOnSet(e, S)
  BY <1>0, SumOfMore
<1>4. SumFunctionOnSet(e, S) = SumFunctionOnSet(f, S)
  BY <1>1, SumOfEqual
<1>5. SumFunctionOnSet(f, S) \in Nat
  BY <1>1, SumIsNat
<1>6. QED
  BY <1>1, <1>2, <1>3, <1>4, <1>5

LEMMA WorthOfNone == Worth({}) = 0
BY SumOfNone DEF Worth

LEMMA WorthIsNat ==
  ASSUME NEW S \in SUBSET Credit, IsFiniteSet(S)
  PROVE  Worth(S) \in Nat
<1> DEFINE f == [d \in S |-> d.amount]
<1>1. \A d \in S : f[d] \in Nat
  BY DEF Credit
<1>2. Worth(S) = SumFunctionOnSet(f, S)
  BY DEF Worth
<1> HIDE DEF f
<1>3. QED
  BY <1>1, <1>2, SumIsNat

\* A step moves cash between the ledger, the spendable and the pending part.
LEMMA CashStep ==
  ASSUME WInv, WCash, [WalletNext]_wallet
  PROVE  WCash'
<1> USE DEF WInv, WalletTypeOK, WCash, Numbered
<1>0. PendingCash = Worth(pending) /\ available + Worth(pending) = ledger
  BY DEF CashIsConserved, TotalEquity, PendingCash
<1> SUFFICES Numbered' /\ available' + Worth(pending') = ledger'
  BY DEF CashIsConserved, TotalEquity, PendingCash
<1>1. CASE UNCHANGED <<pending, sequence, available, ledger>>
  BY <1>0, <1>1
<1>2. ASSUME NEW t \in Nat, NEW amount \in Nat, ScheduleCredit(t, amount)
      PROVE  Numbered' /\ available' + Worth(pending') = ledger'
  <2>1. CASE t <= now
    <3>1. pending' = pending /\ sequence' = sequence
          /\ available' = available + amount /\ ledger' = ledger + amount
      BY <1>2, <2>1 DEF ScheduleCredit, PutInNow
    <3>2. Worth(pending) \in Int
      BY WorthIsNat
    <3>3. Numbered'
      BY <3>1
    <3> DEFINE w == Worth(pending)
    <3>4. w \in Int /\ available + w = ledger /\ Worth(pending') = w
      BY <1>0, <3>1, <3>2
    <3> HIDE DEF w
    <3>5. QED
      BY <3>1, <3>3, <3>4
  <2>2. CASE ~(t <= now)
    <3> DEFINE c == [at |-> t, seq |-> sequence + 1, amount |-> amount]
    <3>1. c \in Credit /\ c \notin pending
      BY DEF Credit
    <3>2. /\ pending' = pending \cup {c} /\ sequence' = sequence + 1
          /\ available' = available /\ ledger' = ledger + amount
      BY <1>2, <2>2 DEF ScheduleCredit, PutAside
    <3>3. c.amount = amount /\ c.seq = sequence + 1
      OBVIOUS
    <3> HIDE DEF c
    <3>4. Worth(pending \cup {c}) = Worth(pending) + amount /\ Worth(pending) \in Nat
      BY <3>1, <3>3, WorthOfMore
    <3>5. Numbered'
      BY <3>2, <3>3 DEF Credit
    <3>6. QED
      BY <1>0, <3>2, <3>4, <3>5
  <2>3. QED
    BY <2>1, <2>2
<1>3. ASSUME NEW c \in pending, Release(c)
      PROVE  Numbered' /\ available' + Worth(pending') = ledger'
  <2> DEFINE S == pending \ {c}
  <2>1. S \in SUBSET Credit /\ c \in Credit /\ c \notin S /\ pending = S \cup {c}
        /\ IsFiniteSet(S)
    BY FS_RemoveElement
  <2>2. pending' = S /\ sequence' = sequence /\ available' = available + c.amount
        /\ ledger' = ledger
    BY <1>3 DEF Release
  <2> HIDE DEF S
  <2>3. Worth(pending) = Worth(S) + c.amount /\ Worth(S) \in Nat
    BY <2>1, WorthOfMore
  <2>4. Numbered'
    BY <2>1, <2>2
  <2>5. c.amount \in Nat
    BY <2>1 DEF Credit
  <2>6. QED
    BY <1>0, <2>2, <2>3, <2>4, <2>5
<1>4. CASE Debited \/ Credited
  <2>1. call.amount \in Nat
    BY <1>4 DEF Debited, Credited, AdvanceReturns, LoopIsDone
  <2>2. pending' = pending /\ sequence' = sequence
        /\ available' - available = ledger' - ledger /\ available' \in Int /\ ledger' \in Int
    BY <1>4, <2>1 DEF Debited, Credited
  <2>3. Worth(pending) \in Int
    BY WorthIsNat
  <2>4. QED
    BY <1>0, <2>2, <2>3
<1>5. QED
  BY <1>1, <1>2, <1>3, <1>4 DEF WalletNext, WalletStep, wallet, Call, Advanced, DebitRaises

LEMMA WCashInit ==
  ASSUME WalletInit
  PROVE  WCash
BY WalletAssumption, WorthOfNone
   DEF WalletInit, WCash, Numbered, CashIsConserved, TotalEquity, PendingCash

\* In every state, in the middle of the release loop too and after a refused
\* debit, what is spendable and what is pending add up to what was put in less
\* what was taken out (wallet.py, advance_to, debit, schedule_credit).
THEOREM CashCorrect == WalletSpec => []CashIsConserved
<1>1. WalletInit => WCash
  BY WCashInit
<1>2. WInv /\ WCash /\ [WalletNext]_wallet => WCash'
  BY CashStep
<1>3. WCash => CashIsConserved
  BY DEF WCash
<1>4. QED
  BY <1>1, <1>2, <1>3, WInvInvariant, PTL DEF WalletSpec

-----------------------------------------------------------------------------
(* The replay *)

InEpisode == phase \in {"flat", "children", "held", "sells", "buys"}

Trading == phase \in {"flat", "children", "held"}

\* The time the wallet is at or, within a call, advances to.
WalletTime == IF call = NoCall THEN now ELSE call.at

\* What a call in progress is about to take out.
InDebit == IF call # NoCall /\ call.op = "debit" THEN call.amount ELSE 0

LastTime == Max({Episodes[i].settles : i \in DOMAIN Episodes})

\* The end of the newest episode.
RunEnd == IF episode = 0 THEN StartTime ELSE Current.end

\* What an order has changed by time u.
Change(o, u) ==
  IF o.at > u THEN 0 ELSE IF o.side = "BUY" THEN -o.amount ELSE o.amount

\* What the episode's orders, and its settlement, not yet written to the
\* wallet, change by time u.
Unwritten(u) == SumFunction([i \in DOMAIN orders |-> Change(orders[i], u)])

UnwrittenPayout(u) ==
  IF InEpisode /\ phase # "buys" /\ Current.settles <= u THEN payout ELSE 0

Order == [side : {"BUY", "SELL"}, at : Nat, amount : Nat]

RunTypes ==
  /\ policy \in {"immediate", "children"}
  /\ episode \in 0 .. Len(Episodes)
  /\ phase \in {"next", "flat", "children", "held", "sells", "buys", "finishing", "done"}
  /\ clock \in Nat /\ deadline \in Nat /\ budget \in Int
  /\ orders \in Seq(Order) /\ payout \in Nat
  /\ before \in Int /\ pnl \in Int /\ flow \in [Times -> Int]

\* Which call may be in progress, and what is left to write, in which phase.
ControlOK ==
  /\ InEpisode => episode # 0
  /\ call # NoCall =>
       \/ phase = "buys" /\ call.op = "debit"
       \/ phase = "finishing" /\ call.op = "advance"
  /\ ~InEpisode => orders = <<>>
  /\ Trading => payout = 0
  /\ phase = "buys" => \A i \in DOMAIN orders : orders[i].side = "BUY"

\* Nothing the run still does lies behind wallet time.
TimesOK ==
  /\ StartTime <= WalletTime /\ WalletTime <= RunEnd
  /\ phase \in {"finishing", "done"} /\ episode # 0 => WalletTime = Current.end
  /\ Trading => now <= clock
  /\ phase = "children" => clock <= deadline /\ deadline < Current.end
  /\ \A i \in DOMAIN orders : WalletTime <= orders[i].at /\ orders[i].at <= Current.end
  /\ \A c \in pending : c.at <= LastTime

\* From wallet time on the flows add up to what the wallet will hold and what
\* is not yet written to it.
WalletFollowsFlows ==
  \A u \in Times :
    u >= WalletTime =>
      CashFromFlows(u) =
        PeekAvailableAt(u) - InDebit + Unwritten(u) + UnwrittenPayout(u)

\* The flows of the episode are its net result.
PnlIsFlow == InEpisode => CashFromFlows(LastTime) = before + pnl

CInv ==
  /\ RunTypes /\ ControlOK /\ TimesOK
  /\ WalletFollowsFlows /\ PnlIsFlow /\ CausalSolvency

-----------------------------------------------------------------------------
(* The times of the run *)

\* The episodes lie one after the other, within the times of the run.
LEMMA EpisodeTimes ==
  /\ LastTime \in Nat /\ Times = StartTime .. LastTime /\ StartTime \in Times
  /\ LastTime \in Times
  /\ \A i \in DOMAIN Episodes :
       /\ Episodes[i].start \in Times /\ Episodes[i].entryTo \in Times
       /\ Episodes[i].end \in Times /\ Episodes[i].settles \in Times
       /\ Episodes[i].start <= Episodes[i].entryTo
       /\ Episodes[i].entryTo <= Episodes[i].end
       /\ Episodes[i].end <= Episodes[i].settles
<1> DEFINE E == [start : Nat, entryTo : Nat, end : Nat, settles : Nat]
           S == {Episodes[i].settles : i \in DOMAIN Episodes}
           n == Len(Episodes)
<1>1. Episodes \in Seq(E) /\ n \in Nat \ {0} /\ DOMAIN Episodes = 1 .. n
  BY EpisodesAssumption, LenProperties, EmptySeq
<1>2. \A i \in 1 .. n : Episodes[i] \in E
  BY <1>1, ElementOfSeq
<1>3. IsFiniteSet(S) /\ S \in SUBSET Nat /\ S # {}
  <2>1. [i \in 1 .. n |-> Episodes[i].settles] \in Surjection(1 .. n, S)
    BY <1>1 DEF Surjection
  <2>2. IsFiniteSet(S)
    BY <2>1, <1>1, FS_Interval, FS_Surjection
  <2>3. \A x \in S : x \in Nat
    BY <1>1, <1>2
  <2>4. Episodes[1].settles \in S
    BY <1>1
  <2> HIDE DEF S
  <2>5. QED
    BY <2>2, <2>3, <2>4
<1>4. LastTime = Max(S) /\ Times = StartTime .. Max(S)
  BY DEF LastTime, Times
<1> HIDE DEF S, n
<1>5. Max(S) \in S /\ \A x \in S : x <= Max(S)
  BY <1>3, MaxIsGreatest
<1>6. ASSUME NEW i \in 1 .. n
      PROVE  /\ Episodes[i].start \in Nat /\ Episodes[i].entryTo \in Nat
             /\ Episodes[i].end \in Nat /\ Episodes[i].settles \in Nat
             /\ Episodes[i].settles <= LastTime
             /\ StartTime <= Episodes[i].start
             /\ Episodes[i].start <= Episodes[i].entryTo
             /\ Episodes[i].entryTo <= Episodes[i].end
             /\ Episodes[i].end <= Episodes[i].settles
  <2>1. Episodes[i] \in E /\ Episodes[1] \in E /\ 1 \in DOMAIN Episodes /\ i \in DOMAIN Episodes
    BY <1>1, <1>2
  <2>2. Episodes[i].settles <= LastTime
    BY <1>4, <1>5, <2>1 DEF S
  <2>3. StartTime <= Episodes[i].start
    <3>1. CASE i = 1
      BY <2>1, <3>1, EpisodesAssumption
    <3>2. CASE i # 1
      <4>1. 1 < i
        BY <1>1, <3>2
      <4>2. Episodes[1].end <= Episodes[i].start
        BY <2>1, <4>1, EpisodesAssumption
      <4>3. StartTime = Episodes[1].start /\ Episodes[1].start <= Episodes[1].entryTo
            /\ Episodes[1].entryTo <= Episodes[1].end
        BY <2>1, EpisodesAssumption
      <4>4. QED
        BY <2>1, <4>2, <4>3
    <3>3. QED
      BY <3>1, <3>2
  <2>4. QED
    BY <2>1, <2>2, <2>3, EpisodesAssumption
<1>7. LastTime \in Nat /\ StartTime \in Nat /\ StartTime <= LastTime
  <2>1. 1 \in 1 .. n
    BY <1>1
  <2>2. LastTime \in Nat
    BY <1>3, <1>4, <1>5
  <2>3. /\ StartTime <= Episodes[1].start
        /\ Episodes[1].start <= Episodes[1].entryTo
        /\ Episodes[1].entryTo <= Episodes[1].end
        /\ Episodes[1].end <= Episodes[1].settles
        /\ Episodes[1].settles <= LastTime
    BY <1>6, <2>1
  <2>4. Episodes[1] \in E
    BY <1>2, <2>1
  <2>5. QED
    BY <2>2, <2>3, <2>4, WalletAssumption
<1>8. /\ LastTime \in Nat /\ Times = StartTime .. LastTime /\ StartTime \in Times
      /\ LastTime \in Times
  BY <1>4, <1>7
<1>9. ASSUME NEW i \in 1 .. n
      PROVE  /\ Episodes[i].start \in Times /\ Episodes[i].entryTo \in Times
             /\ Episodes[i].end \in Times /\ Episodes[i].settles \in Times
  BY <1>6, <1>8, <1>9, WalletAssumption
<1>10. QED
  BY <1>1, <1>6, <1>8, <1>9

LEMMA TimesAreFinite == Times \in SUBSET Nat /\ IsFiniteSet(Times)
<1>1. Times = StartTime .. LastTime /\ LastTime \in Nat /\ StartTime \in Nat
  BY EpisodeTimes, WalletAssumption
<1>2. QED
  BY <1>1, FS_Interval

LEMMA TimeIsNat == \A t \in Times : t \in Nat
BY TimesAreFinite

-----------------------------------------------------------------------------
(* What the run's sums are made of *)

\* A flow at time t changes the cash from t on.
LEMMA FlowChange ==
  ASSUME NEW t \in Times, NEW d \in Int, flow \in [Times -> Int],
         flow' = [flow EXCEPT ![t] = @ + d], NEW u \in Times
  PROVE  /\ CashFromFlows(u) \in Int
         /\ CashFromFlows(u)' = CashFromFlows(u) + (IF t <= u THEN d ELSE 0)
<1> DEFINE T == {v \in Times : v <= u}
<1>1. T \in SUBSET Times /\ IsFiniteSet(T) /\ StartCash \in Int /\ (t \in T <=> t <= u)
  BY TimesAreFinite, FS_Subset, WalletAssumption
<1>2. /\ CashFromFlows(u) = StartCash + SumFunctionOnSet(flow, T)
      /\ CashFromFlows(u)' = StartCash + SumFunctionOnSet(flow', T)
  BY DEF CashFromFlows
<1> HIDE DEF T
<1>3. \A v \in T : flow[v] \in Int /\ flow'[v] \in Int
  BY <1>1
<1>4. SumFunctionOnSet(flow, T) \in Int
  BY <1>1, <1>3, SumOfAny
<1>5. CASE t <= u
  <2>1. t \in T /\ \A v \in T \ {t} : flow'[v] = flow[v]
    BY <1>1, <1>5
  <2> DEFINE e == flow'
  <2>0. IsFiniteSet(T) /\ t \in T /\ (\A v \in T : flow[v] \in Int /\ e[v] \in Int)
        /\ \A v \in T \ {t} : e[v] = flow[v]
    BY <1>1, <1>3, <2>1
  <2> HIDE DEF e
  <2>2. SumFunctionOnSet(e, T) = SumFunctionOnSet(flow, T) - flow[t] + e[t]
    BY <2>0, SumOfChange
  <2> USE DEF e
  <2>3. flow'[t] = flow[t] + d /\ flow[t] \in Int
    OBVIOUS
  <2>4. QED
    BY <1>1, <1>2, <1>4, <1>5, <2>2, <2>3
<1>6. CASE ~(t <= u)
  <2>1. \A v \in T : flow'[v] = flow[v]
    BY <1>1, <1>6
  <2>2. SumFunctionOnSet(flow', T) = SumFunctionOnSet(flow, T)
    BY <1>1, <2>1, SumOfEqual
  <2>3. QED
    BY <1>1, <1>2, <1>4, <1>6, <2>2
<1>7. QED
  BY <1>5, <1>6

LEMMA FlowIsInt ==
  ASSUME flow \in [Times -> Int], NEW u \in Times
  PROVE  CashFromFlows(u) \in Int
<1> DEFINE T == {v \in Times : v <= u}
<1>1. IsFiniteSet(T) /\ StartCash \in Int /\ \A v \in T : flow[v] \in Int
  BY TimesAreFinite, FS_Subset, WalletAssumption
<1>2. CashFromFlows(u) = StartCash + SumFunctionOnSet(flow, T)
  BY DEF CashFromFlows
<1> HIDE DEF T
<1>3. QED
  BY <1>1, <1>2, SumOfAny

LEMMA ChangeIsInt ==
  ASSUME NEW o \in Order, NEW u \in Int
  PROVE  /\ Change(o, u) \in Int
         /\ o.at \in Nat /\ o.amount \in Nat /\ o.side \in {"BUY", "SELL"}
BY DEF Change, Order

\* What is spent in this episode outweighs what its orders take away.
LEMMA SpentBounds ==
  ASSUME orders \in Seq(Order), NEW u \in Int
  PROVE  /\ Spent \in Nat /\ Unwritten(u) \in Int
         /\ Unwritten(u) >= -Spent
<1> DEFINE n == Len(orders)
           c == [i \in DOMAIN orders |-> Change(orders[i], u)]
           b == [i \in DOMAIN orders |->
                   IF orders[i].side = "BUY" THEN orders[i].amount ELSE 0]
           d == [i \in DOMAIN orders |-> c[i] + b[i]]
<1>1. n \in Nat /\ DOMAIN orders = 1 .. n /\ \A i \in 1 .. n : orders[i] \in Order
  BY LenProperties, ElementOfSeq
<1>2. Unwritten(u) = SumFunctionOnSet(c, 1 .. n) /\ Spent = SumFunctionOnSet(b, 1 .. n)
  BY <1>1 DEF Unwritten, Spent, SumFunction
<1>3. \A i \in 1 .. n : c[i] \in Int /\ b[i] \in Nat /\ d[i] \in Nat /\ d[i] = c[i] + b[i]
  BY <1>1, ChangeIsInt DEF Change
<1> HIDE DEF n, c, b, d
<1>4. IsFiniteSet(1 .. n)
  BY <1>1, FS_Interval
<1>5. SumFunctionOnSet(d, 1 .. n) =
        SumFunctionOnSet(c, 1 .. n) + SumFunctionOnSet(b, 1 .. n)
  <2>1. \A i \in 1 .. n : c[i] \in Int /\ b[i] \in Int /\ d[i] = c[i] + b[i]
    BY <1>3
  <2>2. QED
    BY <1>4, <2>1, SumOfSums
<1>6. SumFunctionOnSet(d, 1 .. n) \in Nat /\ SumFunctionOnSet(b, 1 .. n) \in Nat
  BY <1>3, <1>4, SumIsNat
<1>7. SumFunctionOnSet(c, 1 .. n) \in Int
  BY <1>3, <1>4, SumOfAny
<1>8. QED
  BY <1>2, <1>5, <1>6, <1>7

\* Taking the element at position k out.
LEMMA RemoveAtIs ==
  ASSUME NEW S, NEW s \in Seq(S), NEW k \in 1 .. Len(s)
  PROVE  /\ RemoveAt(s, k) \in Seq(S)
         /\ DOMAIN RemoveAt(s, k) = 1 .. Len(s) - 1
         /\ \A i \in 1 .. Len(s) - 1 :
              RemoveAt(s, k)[i] = IF i < k THEN s[i] ELSE s[i + 1]
<1> DEFINE front == SubSeq(s, 1, k - 1)
           back == SubSeq(s, k + 1, Len(s))
           n == Len(s)
<1>1. n \in Nat /\ DOMAIN s = 1 .. n /\ k \in 1 .. n
  BY LenProperties
<1>2. front \in Seq(S) /\ Len(front) = k - 1 /\ \A i \in 1 .. k - 1 : front[i] = s[i]
  BY <1>1, SubSeqProperties
<1>3. back \in Seq(S) /\ Len(back) = n - k /\ \A i \in 1 .. n - k : back[i] = s[k + i]
  <2>1. k + 1 \in Int /\ n \in Int /\ \A i \in k + 1 .. n : s[i] \in S
    BY <1>1
  <2>2. /\ back \in Seq(S)
        /\ Len(back) = IF k + 1 <= n THEN n - (k + 1) + 1 ELSE 0
        /\ \A i \in 1 .. n - (k + 1) + 1 : back[i] = s[k + 1 + i - 1]
    BY <2>1, SubSeqProperties
  <2> HIDE DEF back, n
  <2>3. Len(back) = n - k
    BY <1>1, <2>2
  <2>4. ASSUME NEW i \in 1 .. n - k PROVE back[i] = s[k + i]
    <3>1. i \in 1 .. n - (k + 1) + 1 /\ k + 1 + i - 1 = k + i
      BY <1>1
    <3>2. QED
      BY <2>2, <3>1
  <2>5. QED
    BY <2>2, <2>3, <2>4
<1>4. RemoveAt(s, k) = front \o back
  BY DEF RemoveAt
<1> HIDE DEF front, back, n
<1>5. /\ front \o back \in Seq(S) /\ Len(front \o back) = n - 1
      /\ \A i \in 1 .. n - 1 :
           (front \o back)[i] = IF i <= k - 1 THEN front[i] ELSE back[i - (k - 1)]
  <2>1. /\ front \o back \in Seq(S) /\ Len(front \o back) = Len(front) + Len(back)
        /\ \A i \in 1 .. Len(front) + Len(back) :
             (front \o back)[i] = IF i <= Len(front) THEN front[i] ELSE back[i - Len(front)]
    BY <1>2, <1>3, ConcatProperties
  <2>2. Len(front) + Len(back) = n - 1
    BY <1>1, <1>2, <1>3
  <2>3. QED
    BY <1>2, <2>1, <2>2
<1>6. DOMAIN (front \o back) = 1 .. n - 1
  BY <1>5, LenProperties
<1>7. ASSUME NEW i \in 1 .. n - 1
      PROVE  (front \o back)[i] = IF i < k THEN s[i] ELSE s[i + 1]
  <2>1. CASE i < k
    <3>1. i \in 1 .. k - 1 /\ i <= k - 1
      BY <1>1, <2>1
    <3>2. QED
      BY <1>2, <1>5, <2>1, <3>1
  <2>2. CASE ~(i < k)
    <3>1. i - (k - 1) \in 1 .. n - k /\ k + (i - (k - 1)) = i + 1 /\ ~(i <= k - 1)
      BY <1>1, <2>2
    <3>2. QED
      BY <1>3, <1>5, <2>2, <3>1
  <2>3. QED
    BY <2>1, <2>2
<1>8. QED
  BY <1>4, <1>5, <1>6, <1>7 DEF n

\* One more order, and one less.
LEMMA UnwrittenMore ==
  ASSUME orders \in Seq(Order), NEW o \in Order, orders' = Append(orders, o),
         NEW u \in Int
  PROVE  Unwritten(u)' = Unwritten(u) + Change(o, u)
<1> DEFINE n == Len(orders)
           c == [i \in DOMAIN orders |-> Change(orders[i], u)]
           e == [i \in DOMAIN orders' |-> Change(orders'[i], u)]
<1>1. n \in Nat /\ DOMAIN orders = 1 .. n /\ \A i \in 1 .. n : orders[i] \in Order
  BY LenProperties, ElementOfSeq
<1>2. /\ DOMAIN orders' = 1 .. n + 1 /\ orders'[n + 1] = o
      /\ \A i \in 1 .. n : orders'[i] = orders[i]
  BY <1>1, AppendProperties, LenProperties
<1>3. Unwritten(u) = SumFunction(c) /\ Unwritten(u)' = SumFunction(e)
  BY DEF Unwritten
<1>4. /\ c \in [1 .. n -> Int] /\ e \in [1 .. n + 1 -> Int]
      /\ \A i \in 1 .. n : e[i] = c[i]
      /\ e[n + 1] = Change(o, u)
  <2>1. /\ DOMAIN c = 1 .. n /\ DOMAIN e = 1 .. n + 1
        /\ \A i \in 1 .. n : c[i] = Change(orders[i], u)
        /\ \A i \in 1 .. n + 1 : e[i] = Change(orders'[i], u)
    BY <1>1, <1>2
  <2>2. \A i \in 1 .. n : orders[i] \in Order /\ i \in 1 .. n + 1
    BY <1>1
  <2>3. n + 1 \in 1 .. n + 1 /\ \A i \in 1 .. n + 1 : orders'[i] \in Order
    BY <1>1, <1>2, <2>2
  <2>4. c \in [1 .. n -> Int] /\ e \in [1 .. n + 1 -> Int]
    BY <1>1, <1>2, <2>2, <2>3, ChangeIsInt
  <2> HIDE DEF c, e
  <2>5. QED
    BY <1>2, <2>1, <2>2, <2>3, <2>4
<1> HIDE DEF n, c, e
<1>5. SumFunction(e) = SumFunction(c) + e[n + 1]
  BY <1>1, <1>4, SumOfAppended
<1>6. QED
  BY <1>3, <1>4, <1>5

LEMMA UnwrittenLess ==
  ASSUME orders \in Seq(Order), NEW k \in DOMAIN orders,
         orders' = RemoveAt(orders, k), NEW u \in Int
  PROVE  /\ orders' \in Seq(Order)
         /\ \A i \in DOMAIN orders' :
              \E j \in DOMAIN orders : j # k /\ orders'[i] = orders[j]
         /\ Unwritten(u) = Unwritten(u)' + Change(orders[k], u)
         /\ Unwritten(u)' \in Int
<1> DEFINE n == Len(orders)
           c == [i \in DOMAIN orders |-> Change(orders[i], u)]
           e == [i \in DOMAIN orders' |-> Change(orders'[i], u)]
<1>1. n \in Nat /\ DOMAIN orders = 1 .. n /\ \A i \in 1 .. n : orders[i] \in Order
  BY LenProperties, ElementOfSeq
<1>2. /\ orders' \in Seq(Order) /\ DOMAIN orders' = 1 .. n - 1
      /\ \A i \in 1 .. n - 1 : orders'[i] = IF i < k THEN orders[i] ELSE orders[i + 1]
  BY <1>1, RemoveAtIs
<1> HIDE DEF n
<1>3. \A i \in DOMAIN orders' : \E j \in DOMAIN orders : j # k /\ orders'[i] = orders[j]
  <2>1. ASSUME NEW i \in 1 .. n - 1
        PROVE  \E j \in 1 .. n : j # k /\ orders'[i] = orders[j]
    <3>1. CASE i < k
      BY <1>1, <1>2, <3>1
    <3>2. CASE ~(i < k)
      <4>1. i + 1 \in 1 .. n /\ i + 1 # k /\ orders'[i] = orders[i + 1]
        BY <1>1, <1>2, <3>2
      <4>2. QED
        BY <4>1
    <3>3. QED
      BY <3>1, <3>2
  <2>2. QED
    BY <1>1, <1>2, <2>1
<1>4. Unwritten(u) = SumFunction(c) /\ Unwritten(u)' = SumFunction(e)
  BY DEF Unwritten
<1>5. /\ DOMAIN c = 1 .. n /\ DOMAIN e = 1 .. n - 1
      /\ \A i \in 1 .. n : c[i] \in Int /\ c[i] = Change(orders[i], u)
      /\ \A i \in 1 .. n - 1 : e[i] = IF i < k THEN c[i] ELSE c[i + 1]
  <2>1. /\ DOMAIN c = 1 .. n /\ DOMAIN e = 1 .. n - 1
        /\ \A i \in 1 .. n : c[i] = Change(orders[i], u)
        /\ \A i \in 1 .. n - 1 : e[i] = Change(orders'[i], u)
    BY <1>1, <1>2
  <2> HIDE DEF c, e
  <2>2. \A i \in 1 .. n : c[i] \in Int
    BY <1>1, <2>1, ChangeIsInt
  <2>3. ASSUME NEW i \in 1 .. n - 1 PROVE e[i] = IF i < k THEN c[i] ELSE c[i + 1]
    <3>1. i \in 1 .. n /\ i + 1 \in 1 .. n
      BY <1>1
    <3>2. QED
      BY <1>2, <2>1, <3>1
  <2>4. QED
    BY <2>1, <2>2, <2>3
<1>6. k \in 1 .. n
  BY <1>1
<1>7. c \in [1 .. n -> Int] /\ e \in [1 .. n - 1 -> Int]
  <2>1. \A i \in 1 .. n - 1 : orders'[i] \in Order
    BY <1>2, ElementOfSeq, LenProperties
  <2>2. QED
    BY <1>1, <1>2, <2>1, ChangeIsInt
<1> HIDE DEF c, e
<1>8. SumFunction(c) = c[k] + SumFunction(e)
  BY <1>1, <1>5, <1>6, <1>7, SumOfRemoved
<1>9. SumFunction(e) \in Int
  <2>1. IsFiniteSet(1 .. n - 1)
    BY <1>1, FS_Interval
  <2>2. QED
    BY <1>7, <2>1, SumOfAny DEF SumFunction
<1>10. QED
  BY <1>2, <1>3, <1>4, <1>5, <1>6, <1>8, <1>9

\* What the wallet will hold is a natural number and does not fall with time.
LEMMA PeekRises ==
  ASSUME WInv, NEW t \in Int, NEW u \in Int, t <= u
  PROVE  PeekAvailableAt(t) \in Nat /\ PeekAvailableAt(t) <= PeekAvailableAt(u)
<1> DEFINE D == Due(t)
           U == Due(u)
           f == [c \in U |-> c.amount]
           e == [c \in U |-> IF c \in D THEN f[c] ELSE 0]
           g == [c \in D |-> c.amount]
<1>1. available \in Nat /\ pending \in SUBSET Credit /\ IsFiniteSet(pending)
  BY DEF WInv, WalletTypeOK
<1>2. D \in SUBSET U /\ U \in SUBSET Credit /\ IsFiniteSet(U) /\ IsFiniteSet(D)
  <2>1. \A c \in pending : c.at \in Nat
    BY <1>1 DEF Credit
  <2>2. D \in SUBSET U /\ U \in SUBSET pending
    BY <2>1 DEF Due
  <2> HIDE DEF D, U
  <2>3. QED
    BY <1>1, <2>2, FS_Subset
<1>3. /\ PeekAvailableAt(t) = available + Worth(D)
      /\ PeekAvailableAt(u) = available + Worth(U)
  BY DEF PeekAvailableAt
<1> HIDE DEF D, U
<1>4. Worth(D) \in Nat /\ Worth(U) \in Nat
  BY <1>2, WorthIsNat
<1>5. Worth(D) = SumFunctionOnSet(g, D) /\ Worth(U) = SumFunctionOnSet(f, U)
  BY DEF Worth
<1>6. \A c \in U : f[c] \in Nat /\ e[c] = (IF c \in D THEN f[c] ELSE 0)
  BY <1>2 DEF Credit
<1>7. \A c \in D : g[c] = f[c]
  BY <1>2
<1>8. SumFunctionOnSet(f, D) = SumFunctionOnSet(e, U)
  <2> HIDE DEF f
  <2>1. \A c \in U : f[c] \in Int
    BY <1>6
  <2>2. QED
    BY <1>2, <2>1, SumOfPart
<1> HIDE DEF f, g, e
<1>9. SumFunctionOnSet(g, D) = SumFunctionOnSet(f, D)
  BY <1>2, <1>7, SumOfEqual
<1>10. SumFunctionOnSet(e, U) <= SumFunctionOnSet(f, U)
  <2>1. \A c \in U : e[c] \in Int /\ f[c] \in Int /\ e[c] <= f[c]
    BY <1>6
  <2>2. QED
    BY <1>2, <2>1, SumOfLess
<1>11. Worth(D) <= Worth(U)
  BY <1>5, <1>8, <1>9, <1>10
<1>12. QED
  BY <1>1, <1>3, <1>4, <1>11

\* A scheduled credit counts from its time on.
LEMMA PeekAfterCredit ==
  ASSUME WInv, WCash, NEW t \in Nat, NEW amount \in Nat, ScheduleCredit(t, amount),
         NEW u \in Int, u >= now
  PROVE  PeekAvailableAt(u)' = PeekAvailableAt(u) + (IF t <= u THEN amount ELSE 0)
<1>1. available \in Nat /\ now \in Nat /\ pending \in SUBSET Credit /\ IsFiniteSet(pending)
  BY DEF WInv, WalletTypeOK
<1>2. PeekAvailableAt(u) = available + Worth(Due(u))
      /\ PeekAvailableAt(u)' = available' + Worth(Due(u)')
  BY DEF PeekAvailableAt, Due
<1>3. Due(u) \in SUBSET Credit /\ IsFiniteSet(Due(u))
  <2>1. Due(u) \in SUBSET pending
    BY DEF Due
  <2>2. QED
    BY <1>1, <2>1, FS_Subset
<1>4. Worth(Due(u)) \in Nat
  BY <1>3, WorthIsNat
<1>5. CASE t <= now
  <2>1. available' = available + amount /\ Due(u)' = Due(u)
    BY <1>5 DEF ScheduleCredit, PutInNow, Due
  <2>2. t <= u
    BY <1>1, <1>5
  <2> DEFINE w == Worth(Due(u))
  <2>3. w \in Nat /\ PeekAvailableAt(u) = available + w
        /\ PeekAvailableAt(u)' = available' + w
    BY <1>2, <1>4, <2>1
  <2> HIDE DEF w
  <2>4. QED
    BY <1>1, <2>1, <2>2, <2>3
<1>6. CASE ~(t <= now)
  <2> DEFINE c == [at |-> t, seq |-> sequence + 1, amount |-> amount]
  <2>1. available' = available /\ pending' = pending \cup {c}
    BY <1>6 DEF ScheduleCredit, PutAside
  <2>2. c \in Credit /\ c \notin pending /\ c.amount = amount /\ c.at = t
    BY DEF WCash, Numbered, WInv, WalletTypeOK, Credit
  <2> HIDE DEF c
  <2>3. CASE t <= u
    <3>1. Due(u)' = Due(u) \cup {c} /\ c \notin Due(u)
      BY <2>1, <2>2, <2>3 DEF Due
    <3>2. Worth(Due(u) \cup {c}) = Worth(Due(u)) + amount
      BY <1>3, <2>2, <3>1, WorthOfMore
    <3> DEFINE w == Worth(Due(u))
    <3>3. w \in Nat /\ PeekAvailableAt(u) = available + w
          /\ PeekAvailableAt(u)' = available' + (w + amount)
      BY <1>2, <1>4, <3>1, <3>2
    <3> HIDE DEF w
    <3>4. QED
      BY <1>1, <2>1, <2>3, <3>3
  <2>4. CASE ~(t <= u)
    <3>1. Due(u)' = Due(u)
      BY <2>1, <2>2, <2>4 DEF Due
    <3> DEFINE w == Worth(Due(u))
    <3>2. w \in Nat /\ PeekAvailableAt(u) = available + w
          /\ PeekAvailableAt(u)' = available' + w
      BY <1>2, <1>4, <3>1
    <3> HIDE DEF w
    <3>3. QED
      BY <1>1, <2>1, <2>4, <3>2
  <2>5. QED
    BY <2>3, <2>4
<1>7. QED
  BY <1>5, <1>6

\* A released credit moves within what the wallet will hold.
LEMMA PeekAfterRelease ==
  ASSUME WInv, NEW c \in pending, Release(c), NEW u \in Int, u >= call.at
  PROVE  PeekAvailableAt(u)' = PeekAvailableAt(u)
<1>1. available \in Nat /\ pending \in SUBSET Credit /\ IsFiniteSet(pending)
      /\ call.at \in Nat /\ c.at <= call.at /\ c.at \in Nat /\ c.amount \in Nat
  BY DEF WInv, WalletTypeOK, Release, Credit
<1> DEFINE D == Due(u) \ {c}
<1>2. Due(u) = D \cup {c} /\ Due(u)' = D /\ c \notin D
  BY <1>1 DEF Due, Release
<1>3. D \in SUBSET pending
  BY DEF Due
<1>4. /\ PeekAvailableAt(u) = available + Worth(Due(u))
      /\ PeekAvailableAt(u)' = available' + Worth(Due(u)')
      /\ available' = available + c.amount
  BY DEF PeekAvailableAt, Due, Release
<1> HIDE DEF D
<1>5. D \in SUBSET Credit /\ IsFiniteSet(D) /\ c \in Credit
  BY <1>1, <1>3, FS_Subset
<1>6. Worth(D \cup {c}) = Worth(D) + c.amount /\ Worth(D) \in Nat
  BY <1>2, <1>5, WorthOfMore
<1> DEFINE w == Worth(D)
<1>7. /\ w \in Nat /\ PeekAvailableAt(u) = available + (w + c.amount)
      /\ PeekAvailableAt(u)' = available' + w
  BY <1>2, <1>4, <1>6
<1> HIDE DEF w
<1>8. QED
  BY <1>1, <1>4, <1>7

-----------------------------------------------------------------------------
(* The simulator *)

LEMMA CurrentTimes ==
  ASSUME RunTypes, episode # 0
  PROVE  /\ episode \in DOMAIN Episodes
         /\ Current.start \in Times /\ Current.entryTo \in Times
         /\ Current.end \in Times /\ Current.settles \in Times
         /\ Current.start <= Current.entryTo /\ Current.entryTo <= Current.end
         /\ Current.end <= Current.settles
<1>1. episode \in DOMAIN Episodes
  <2>1. DOMAIN Episodes = 1 .. Len(Episodes) /\ Len(Episodes) \in Nat
    BY EpisodesAssumption, LenProperties
  <2>2. QED
    BY <2>1 DEF RunTypes
<1>2. QED
  BY <1>1, EpisodeTimes DEF Current

\* With no call in progress the wallet holds what it shows.
LEMMA Idle ==
  ASSUME CInv, WInv, phase \notin {"buys", "finishing"}
  PROVE  /\ call = NoCall /\ WalletTime = now /\ InDebit = 0
         /\ Trading => \A u : UnwrittenPayout(u) = 0
BY DEF CInv, ControlOK, WalletTime, InDebit, UnwrittenPayout, Trading

\* The simulator's orders: what is spent is covered at every later time.
LEMMA RecordStep ==
  ASSUME CInv, WInv, Trading, UNCHANGED <<wallet, episode, payout>>,
         phase' \in {"children", "held", "sells"},
         NEW side \in {"BUY", "SELL"}, NEW t \in Int, NEW amount \in Nat,
         Record(side, t, amount), now <= t, t <= Current.end,
         side = "BUY" => 1 <= amount /\ amount <= CashAt(t)
  PROVE  /\ orders' \in Seq(Order) /\ pnl' \in Int /\ flow' \in [Times -> Int]
         /\ before' = before
         /\ \A i \in DOMAIN orders' : now <= orders'[i].at /\ orders'[i].at <= Current.end
         /\ WalletFollowsFlows' /\ PnlIsFlow' /\ CausalSolvency'
<1> DEFINE o == [side |-> side, at |-> t, amount |-> amount]
           d == IF side = "BUY" THEN -amount ELSE amount
<1>1. /\ call = NoCall /\ WalletTime = now /\ InDebit = 0
      /\ \A u : UnwrittenPayout(u) = 0
  BY Idle DEF Trading
<1>2. /\ RunTypes /\ orders \in Seq(Order) /\ pnl \in Int /\ before \in Int
      /\ flow \in [Times -> Int] /\ payout = 0 /\ episode # 0 /\ InEpisode /\ now \in Nat
  BY DEF CInv, RunTypes, ControlOK, Trading, InEpisode, WInv, WalletTypeOK
<1>3. t \in Times /\ t \in Nat /\ LastTime \in Times /\ t <= LastTime
  <2>1. Current.end \in Times /\ Times = StartTime .. LastTime /\ StartTime <= now
        /\ LastTime \in Nat /\ LastTime \in Times /\ StartTime \in Nat
    BY <1>1, <1>2, CurrentTimes, EpisodeTimes, WalletAssumption DEF CInv, TimesOK
  <2>2. QED
    BY <1>2, <2>1
<1>4. pnl' = pnl + d /\ d \in Int /\ before' = before
  BY <1>2 DEF Record
<1>5. flow' = [flow EXCEPT ![t] = @ + d]
  <2>1. flow[t] + pnl' - pnl = flow[t] + d
    BY <1>2, <1>3, <1>4
  <2>2. flow' = [flow EXCEPT ![t] = flow[t] + pnl' - pnl]
    BY DEF Record
  <2>3. QED
    BY <2>1, <2>2
<1>6. o \in Order /\ orders' = Append(orders, o)
  BY <1>3 DEF Order, Record
<1>7. \A u \in Times : u \in Int /\ Change(o, u) = IF t <= u THEN d ELSE 0
  BY <1>3, TimesAreFinite DEF Change
<1> HIDE DEF o, d
<1>8. \A u \in Times : CashFromFlows(u)' = CashFromFlows(u) + (IF t <= u THEN d ELSE 0)
                       /\ CashFromFlows(u) \in Int
  BY <1>2, <1>3, <1>4, <1>5, FlowChange
<1>9. \A u \in Times : /\ Unwritten(u)' = Unwritten(u) + (IF t <= u THEN d ELSE 0)
                       /\ Unwritten(u) \in Int
  BY <1>2, <1>6, <1>7, UnwrittenMore, SpentBounds
<1>10. /\ \A u : PeekAvailableAt(u)' = PeekAvailableAt(u) /\ UnwrittenPayout(u)' = 0
       /\ WalletTime' = now /\ InDebit' = 0
  BY <1>1, <1>2 DEF PeekAvailableAt, Due, UnwrittenPayout, WalletTime, InDebit, wallet, Trading
<1>11. \A u \in Times : u >= now => CashFromFlows(u) = PeekAvailableAt(u) + Unwritten(u)
                                    /\ PeekAvailableAt(u) \in Nat
  <2>1. ASSUME NEW u \in Times, u >= now
        PROVE  CashFromFlows(u) = PeekAvailableAt(u) - 0 + Unwritten(u) + 0
    BY <1>1, <2>1 DEF CInv, WalletFollowsFlows
  <2>2. ASSUME NEW u \in Times PROVE PeekAvailableAt(u) \in Nat
    BY <1>7, PeekRises
  <2>3. QED
    BY <1>9, <2>1, <2>2
<1>12. WalletFollowsFlows'
  <2>1. ASSUME NEW u \in Times, u >= now
        PROVE  CashFromFlows(u)' = PeekAvailableAt(u)' - InDebit' + Unwritten(u)'
                                   + UnwrittenPayout(u)'
    <3> DEFINE p == PeekAvailableAt(u)
               w == Unwritten(u)
               x == IF t <= u THEN d ELSE 0
    <3>1. /\ CashFromFlows(u)' = CashFromFlows(u) + x /\ CashFromFlows(u) = p + w
          /\ Unwritten(u)' = w + x /\ PeekAvailableAt(u)' = p
          /\ p \in Int /\ w \in Int /\ x \in Int
      BY <1>4, <1>8, <1>9, <1>10, <1>11, <2>1
    <3> HIDE DEF p, w, x
    <3>2. QED
      BY <1>10, <3>1
  <2>2. QED
    BY <1>10, <2>1 DEF WalletFollowsFlows
<1>13. PnlIsFlow'
  <2>1. CashFromFlows(LastTime)' = CashFromFlows(LastTime) + d
    BY <1>3, <1>8
  <2>2. CashFromFlows(LastTime) = before + pnl
    BY <1>2 DEF CInv, PnlIsFlow
  <2>3. CashFromFlows(LastTime)' = before' + pnl'
    BY <1>2, <1>4, <2>1, <2>2
  <2>4. QED
    BY <2>3 DEF PnlIsFlow
<1>14. CausalSolvency'
  <2>1. ASSUME NEW u \in Times PROVE CashFromFlows(u)' >= 0
    <3>1. CashFromFlows(u) >= 0 /\ CashFromFlows(u) \in Int
      BY <1>8 DEF CInv, CausalSolvency
    <3>2. CASE ~(t <= u) \/ side # "BUY"
      BY <1>4, <1>8, <3>1, <3>2 DEF d
    <3>3. CASE t <= u /\ side = "BUY"
      <4> DEFINE p == PeekAvailableAt(t)
      <4>1. p \in Nat /\ p <= PeekAvailableAt(u) /\ u >= now
        BY <1>2, <1>3, <1>7, <3>3, PeekRises
      <4>2. Spent \in Nat /\ Unwritten(u) >= -Spent /\ Unwritten(u) \in Int
        BY <1>2, <1>7, SpentBounds
      <4>3. CashAt(t) = Max({0, p - Spent})
        BY DEF CashAt
      <4> HIDE DEF p
      <4>4. CashAt(t) = IF 0 >= p - Spent THEN 0 ELSE p - Spent
        BY <4>1, <4>2, <4>3, MaxOfTwo
      <4>5. amount <= p - Spent
        BY <3>3, <4>1, <4>2, <4>4
      <4>6. CashFromFlows(u) >= amount
        BY <1>11, <4>1, <4>2, <4>5
      <4>7. CashFromFlows(u)' = CashFromFlows(u) - amount
        BY <1>8, <3>1, <3>3 DEF d
      <4>8. QED
        BY <3>1, <4>6, <4>7
    <3>4. QED
      BY <3>2, <3>3
  <2>2. QED
    BY <2>1 DEF CausalSolvency
<1>15. orders' \in Seq(Order) /\ flow' \in [Times -> Int]
  BY <1>2, <1>3, <1>4, <1>5, <1>6, AppendProperties
<1>16. \A i \in DOMAIN orders' : now <= orders'[i].at /\ orders'[i].at <= Current.end
  <2>1. DOMAIN orders = 1 .. Len(orders) /\ Len(orders) \in Nat
        /\ DOMAIN orders' = 1 .. Len(orders) + 1 /\ orders'[Len(orders) + 1] = o
        /\ \A i \in 1 .. Len(orders) : orders'[i] = orders[i]
    BY <1>2, <1>6, AppendProperties, LenProperties
  <2>2. o.at = t
    BY DEF o
  <2>3. \A i \in DOMAIN orders : now <= orders[i].at /\ orders[i].at <= Current.end
    BY <1>1 DEF CInv, TimesOK
  <2>4. QED
    BY <2>1, <2>2, <2>3
<1>17. QED
  BY <1>2, <1>4, <1>12, <1>13, <1>14, <1>15, <1>16

\* What holds of a step of the simulator that records an order.
LEMMA TradeStep ==
  ASSUME CInv, WInv, Trading, UNCHANGED <<wallet, policy, episode, deadline, budget, payout>>,
         phase' \in {"children", "held", "sells"},
         NEW side \in {"BUY", "SELL"}, NEW t \in Int, NEW amount \in Nat,
         Record(side, t, amount), now <= t, t <= Current.end,
         side = "BUY" => 1 <= amount /\ amount <= CashAt(t),
         clock' = t, phase' = "children" => phase = "children" /\ t <= deadline
  PROVE  CInv'
<1>1. /\ orders' \in Seq(Order) /\ pnl' \in Int /\ flow' \in [Times -> Int]
      /\ before' = before
      /\ \A i \in DOMAIN orders' : now <= orders'[i].at /\ orders'[i].at <= Current.end
      /\ WalletFollowsFlows' /\ PnlIsFlow' /\ CausalSolvency'
  BY RecordStep
<1>2. call = NoCall /\ call' = NoCall /\ WalletTime = now /\ now' = now /\ pending' = pending
      /\ now \in Nat
  BY Idle DEF Trading, wallet, WInv, WalletTypeOK
<1>3. RunTypes'
  BY <1>1, <1>2 DEF CInv, RunTypes
<1>4. ControlOK'
  BY <1>2 DEF CInv, ControlOK, Trading, InEpisode
<1>5. TimesOK'
  <2>1. WalletTime' = now /\ RunEnd' = RunEnd /\ Current' = Current
    BY <1>2 DEF WalletTime, RunEnd, Current
  <2>2. LastTime' = LastTime
    BY DEF LastTime
  <2>3. now <= RunEnd /\ StartTime <= now /\ \A c \in pending : c.at <= LastTime
    BY <1>2 DEF CInv, TimesOK
  <2>4. phase' = "children" => clock' <= deadline' /\ deadline' < Current.end
    BY DEF CInv, TimesOK
  <2>5. QED
    BY <1>1, <1>2, <2>1, <2>2, <2>3, <2>4 DEF TimesOK, Trading
<1>6. QED
  BY <1>1, <1>3, <1>4, <1>5 DEF CInv

\* Where the episode stands while it is simulated.
LEMMA TradingFacts ==
  ASSUME CInv, WInv, Trading
  PROVE  /\ InEpisode /\ episode # 0 /\ RunTypes
         /\ Current.end \in Nat /\ clock \in Nat /\ now \in Nat /\ budget \in Int
         /\ now <= clock /\ deadline \in Nat
         /\ phase = "children" => clock <= deadline /\ deadline < Current.end
<1>1. InEpisode /\ episode # 0 /\ RunTypes
  BY DEF Trading, InEpisode, CInv, ControlOK
<1>2. Current.end \in Nat
  BY <1>1, CurrentTimes, TimesAreFinite
<1>3. clock \in Nat /\ deadline \in Nat /\ budget \in Int /\ now \in Nat
  BY <1>1 DEF RunTypes, WInv, WalletTypeOK
<1>4. /\ now <= clock
      /\ phase = "children" => clock <= deadline /\ deadline < Current.end
  BY DEF CInv, TimesOK
<1>5. QED
  BY <1>1, <1>2, <1>3, <1>4

LEMMA CashAtIsNat ==
  ASSUME CInv, WInv, NEW t \in Int
  PROVE  CashAt(t) \in Nat /\ Spent \in Nat
<1>1. PeekAvailableAt(t) \in Nat
  BY PeekRises
<1>2. Spent \in Nat
  BY SpentBounds DEF CInv, RunTypes
<1>3. QED
  BY <1>1, <1>2, MaxOfTwo DEF CashAt

LEMMA EntrySpendIsInt ==
  ASSUME CInv, WInv, NEW t \in Int
  PROVE  EntrySpend(t) \in Int
<1>1. MaxSpend \in Int
  BY MaxOfTwo DEF MaxSpend, CInv, RunTypes
<1>2. CashAt(t) \in Int
  BY CashAtIsNat
<1>3. QED
  BY <1>1, <1>2, MinOfTwo DEF EntrySpend

LEMMA ImmediateEntryStep ==
  ASSUME CInv, WInv, NEW t \in Int, NEW arrival \in Int, t <= arrival,
         ImmediateEntry(t, arrival)
  PROVE  CInv'
<1>1. Trading
  BY DEF ImmediateEntry, Trading
<1>2. Current.end \in Int /\ clock \in Int /\ now \in Int /\ now <= clock
  BY <1>1, TradingFacts
<1>3. PICK cost \in 1 .. EntrySpend(t) : Record("BUY", arrival, cost)
  BY DEF ImmediateEntry
<1>4. cost \in Nat /\ 1 <= cost /\ cost <= CashAt(arrival)
  BY <1>3, EntrySpendIsInt, CashAtIsNat DEF ImmediateEntry
<1>5. now <= arrival /\ arrival <= Current.end
  BY <1>2 DEF ImmediateEntry
<1>6. QED
  BY <1>1, <1>3, <1>4, <1>5, TradeStep DEF ImmediateEntry

LEMMA ChildFillsStep ==
  ASSUME CInv, WInv, NEW t \in Int, NEW arrival \in Int, t <= arrival,
         ChildFills(t, arrival)
  PROVE  CInv'
<1>1. Trading
  BY DEF ChildFills, Trading
<1>2. /\ Current.end \in Int /\ clock \in Int /\ now \in Int /\ now <= clock
      /\ deadline \in Int /\ deadline < Current.end /\ budget \in Int
  BY <1>1, TradingFacts DEF ChildFills
<1>3. PICK cost \in 1 .. Min({budget - Spent, CashAt(arrival)}) : Record("BUY", arrival, cost)
  BY DEF ChildFills
<1>4. cost \in Nat /\ 1 <= cost /\ cost <= CashAt(arrival)
  <2>1. CashAt(arrival) \in Int /\ budget - Spent \in Int
    BY <1>2, CashAtIsNat
  <2> DEFINE m == Min({budget - Spent, CashAt(arrival)})
  <2>2. m \in Int /\ m <= CashAt(arrival)
    BY <2>1, MinOfTwo
  <2>3. cost \in 1 .. m
    BY <1>3
  <2> HIDE DEF m
  <2>4. QED
    BY <2>1, <2>2, <2>3
<1>5. now <= arrival /\ arrival <= Current.end
  BY <1>2 DEF ChildFills
<1>6. QED
  BY <1>1, <1>3, <1>4, <1>5, TradeStep DEF ChildFills

LEMMA ExitStep ==
  ASSUME CInv, WInv, NEW t \in Int, NEW arrival \in Int, t <= arrival, Exit(t, arrival)
  PROVE  CInv'
<1>1. Trading
  BY DEF Exit, Trading
<1>2. Current.end \in Int /\ clock \in Int /\ now \in Int /\ now <= clock
  BY <1>1, TradingFacts
<1>3. PICK proceeds \in Proceeds : Record("SELL", arrival, proceeds)
  BY DEF Exit
<1>4. proceeds \in Nat
  BY EpisodesAssumption
<1>5. now <= arrival /\ arrival <= Current.end
  BY <1>2 DEF Exit
<1>6. QED
  BY <1>1, <1>3, <1>4, <1>5, TradeStep DEF Exit

\* A step that leaves the cash alone.
LEMMA CashFrame ==
  ASSUME CInv, UNCHANGED <<available, pending, orders, flow>>,
         WalletTime \in Int, WalletTime' \in Int, WalletTime' >= WalletTime,
         InDebit' = InDebit,
         \A u \in Times : UnwrittenPayout(u)' = UnwrittenPayout(u)
  PROVE  WalletFollowsFlows' /\ CausalSolvency'
<1>1. \A u \in Times : /\ CashFromFlows(u)' = CashFromFlows(u)
                       /\ PeekAvailableAt(u)' = PeekAvailableAt(u)
                       /\ Unwritten(u)' = Unwritten(u) /\ u \in Int
  BY TimesAreFinite DEF CashFromFlows, PeekAvailableAt, Due, Unwritten
<1>2. CausalSolvency'
  BY <1>1 DEF CInv, CausalSolvency
<1>3. WalletFollowsFlows'
  BY <1>1 DEF CInv, WalletFollowsFlows
<1>4. QED
  BY <1>2, <1>3

\* The episode's net result stands.
LEMMA PnlFrame ==
  ASSUME CInv, UNCHANGED <<flow, before, pnl>>, InEpisode' => InEpisode
  PROVE  PnlIsFlow'
<1>1. CashFromFlows(LastTime)' = CashFromFlows(LastTime)
  BY DEF CashFromFlows, LastTime
<1>2. QED
  BY <1>1 DEF CInv, PnlIsFlow

\* A step of the simulator without a cash flow.
LEMMA TradingFrame ==
  ASSUME CInv, WInv, Trading, UNCHANGED <<wallet, policy, episode, orders, payout, books>>,
         phase' \in {"flat", "children", "held", "sells"},
         clock' \in Nat, deadline' \in Nat, budget' \in Int, now <= clock',
         phase' = "children" => clock' <= deadline' /\ deadline' < Current.end
  PROVE  CInv'
<1>1. InEpisode /\ InEpisode' /\ phase \notin {"buys", "finishing"} /\ phase' \notin {"buys"}
  BY DEF Trading, InEpisode
<1>2. /\ call = NoCall /\ call' = NoCall /\ now' = now /\ now \in Nat
      /\ UNCHANGED <<available, pending, orders, flow, before, pnl, episode, payout>>
  BY <1>1, Idle DEF wallet, books, WInv, WalletTypeOK
<1>3. RunTypes'
  BY <1>2 DEF CInv, RunTypes
<1>4. ControlOK'
  BY <1>1, <1>2 DEF CInv, ControlOK, Trading
<1>5. WalletTime = now /\ WalletTime' = now /\ InDebit = 0 /\ InDebit' = 0
  BY <1>2 DEF WalletTime, InDebit
<1>6. \A u \in Times : UnwrittenPayout(u)' = UnwrittenPayout(u)
  BY <1>1, <1>2 DEF UnwrittenPayout, Current
<1>7. WalletFollowsFlows' /\ CausalSolvency' /\ PnlIsFlow'
  BY <1>1, <1>2, <1>5, <1>6, CashFrame, PnlFrame
<1>8. TimesOK'
  <2>1. RunEnd' = RunEnd /\ Current' = Current /\ LastTime' = LastTime
    BY <1>2 DEF RunEnd, Current, LastTime
  <2>2. now <= RunEnd /\ StartTime <= now /\ (\A c \in pending : c.at <= LastTime)
        /\ \A i \in DOMAIN orders : now <= orders[i].at /\ orders[i].at <= Current.end
    BY <1>5 DEF CInv, TimesOK
  <2>3. QED
    BY <1>1, <1>2, <1>5, <2>1, <2>2 DEF TimesOK, Trading
<1>9. QED
  BY <1>3, <1>4, <1>7, <1>8 DEF CInv

LEMMA ParentStartsStep ==
  ASSUME CInv, WInv, NEW t \in Nat, NEW d \in Nat, ParentStarts(t, d)
  PROVE  CInv'
<1>1. Trading
  BY DEF ParentStarts, Trading
<1>2. now \in Nat /\ clock \in Nat /\ now <= clock
  BY <1>1, TradingFacts
<1>3. budget' \in Int
  BY EntrySpendIsInt DEF ParentStarts
<1>4. now <= clock' /\ clock' <= deadline' /\ deadline' < Current.end
  BY <1>2 DEF ParentStarts
<1>5. QED
  BY <1>1, <1>3, <1>4, TradingFrame DEF ParentStarts

LEMMA ParentEndsStep ==
  ASSUME CInv, WInv, ParentEnds
  PROVE  CInv'
<1>1. Trading
  BY DEF ParentEnds, Trading
<1>2. /\ now \in Nat /\ clock \in Nat /\ now <= clock /\ clock <= deadline
      /\ deadline \in Nat /\ budget \in Int
  BY <1>1, TradingFacts DEF ParentEnds
<1>3. now <= clock' /\ phase' \in {"flat", "held"} /\ UNCHANGED <<deadline, budget>>
  BY <1>2 DEF ParentEnds
<1>4. clock' \in Nat
  BY <1>2 DEF ParentEnds
<1>5. QED
  BY <1>1, <1>2, <1>3, <1>4, TradingFrame DEF ParentEnds

LEMMA NoEntryStep ==
  ASSUME CInv, WInv, NoEntry
  PROVE  CInv'
<1>1. Trading
  BY DEF NoEntry, Trading
<1>2. now <= clock /\ clock \in Nat /\ deadline \in Nat /\ budget \in Int
  BY <1>1, TradingFacts
<1>3. UNCHANGED <<clock, deadline, budget, orders, payout>> /\ phase' = "sells"
  BY DEF NoEntry, sim
<1>4. QED
  BY <1>1, <1>2, <1>3, TradingFrame DEF NoEntry

\* The settlement is a flow at its time, and is not yet written.
LEMMA SettleStep ==
  ASSUME CInv, WInv, Settle
  PROVE  CInv'
<1>1. Trading /\ InEpisode /\ InEpisode' /\ phase' = "sells"
      /\ phase \notin {"buys", "finishing"}
  BY DEF Settle, Trading, InEpisode
<1>2. episode # 0 /\ RunTypes
  BY <1>1, TradingFacts
<1>3. PICK amount \in Proceeds : /\ payout' = amount /\ pnl' = pnl + amount
                                 /\ flow' = [flow EXCEPT ![Current.settles] = @ + amount]
  BY DEF Settle
<1>4. amount \in Nat /\ Current.settles \in Times /\ LastTime \in Times
      /\ Current.settles <= LastTime
  <2>1. Times = StartTime .. LastTime /\ LastTime \in Nat /\ StartTime \in Nat
    BY EpisodeTimes, WalletAssumption
  <2>2. QED
    BY <1>2, <2>1, CurrentTimes, EpisodeTimes, EpisodesAssumption
<1>5. /\ call = NoCall /\ call' = NoCall /\ now' = now
      /\ UNCHANGED <<available, pending, orders, before, episode>>
      /\ WalletTime = now /\ InDebit = 0 /\ \A u : UnwrittenPayout(u) = 0
  BY <1>1, Idle DEF Settle, wallet
<1>6. WalletTime' = now /\ InDebit' = 0 /\ Current' = Current
  BY <1>5 DEF WalletTime, InDebit, Current
<1> DEFINE x(u) == IF Current.settles <= u THEN amount ELSE 0
<1>7. \A u \in Times : /\ CashFromFlows(u)' = CashFromFlows(u) + x(u)
                       /\ CashFromFlows(u) \in Int
  <2> DEFINE t == Current.settles
  <2>1. t \in Times /\ amount \in Int /\ flow \in [Times -> Int]
        /\ flow' = [flow EXCEPT ![t] = @ + amount]
    BY <1>2, <1>3, <1>4 DEF RunTypes
  <2> HIDE DEF t
  <2>2. \A u \in Times :
          /\ CashFromFlows(u)' = CashFromFlows(u) + (IF t <= u THEN amount ELSE 0)
          /\ CashFromFlows(u) \in Int
    BY <2>1, FlowChange
  <2>3. QED
    BY <2>2 DEF t
<1>8. \A u \in Times : /\ PeekAvailableAt(u)' = PeekAvailableAt(u)
                       /\ Unwritten(u)' = Unwritten(u)
                       /\ UnwrittenPayout(u)' = x(u) /\ x(u) \in Nat
  BY <1>1, <1>3, <1>4, <1>5, <1>6
     DEF PeekAvailableAt, Due, Unwritten, UnwrittenPayout
<1>9. \A u \in Times : PeekAvailableAt(u) \in Int /\ Unwritten(u) \in Int
  BY <1>2, TimesAreFinite, PeekRises, SpentBounds DEF RunTypes
<1> HIDE DEF x
<1>10. WalletFollowsFlows'
  <2>1. ASSUME NEW u \in Times, u >= now
        PROVE  CashFromFlows(u)' = PeekAvailableAt(u)' - InDebit' + Unwritten(u)'
                                   + UnwrittenPayout(u)'
    <3>1. CashFromFlows(u) = PeekAvailableAt(u) - 0 + Unwritten(u) + 0
      BY <1>5, <2>1 DEF CInv, WalletFollowsFlows
    <3> DEFINE p == PeekAvailableAt(u)
               w == Unwritten(u)
    <3>2. /\ CashFromFlows(u)' = CashFromFlows(u) + x(u) /\ CashFromFlows(u) = p - 0 + w + 0
          /\ Unwritten(u)' = w /\ PeekAvailableAt(u)' = p /\ UnwrittenPayout(u)' = x(u)
          /\ p \in Int /\ w \in Int /\ x(u) \in Int
      BY <1>7, <1>8, <1>9, <3>1
    <3> HIDE DEF p, w
    <3>3. QED
      BY <1>6, <3>2
  <2>2. QED
    BY <1>6, <2>1 DEF WalletFollowsFlows
<1>11. CausalSolvency'
  <2>1. ASSUME NEW u \in Times PROVE CashFromFlows(u)' >= 0
    <3>1. CashFromFlows(u) >= 0
      BY DEF CInv, CausalSolvency
    <3>2. QED
      BY <1>7, <1>8, <3>1
  <2>2. QED
    BY <2>1 DEF CausalSolvency
<1>12. PnlIsFlow'
  <2>1. CashFromFlows(LastTime)' = CashFromFlows(LastTime) + amount
    BY <1>4, <1>7 DEF x
  <2>2. CashFromFlows(LastTime) = before + pnl /\ before \in Int /\ pnl \in Int
    BY <1>1, <1>2 DEF CInv, PnlIsFlow, RunTypes
  <2>3. CashFromFlows(LastTime)' = before' + pnl'
    BY <1>3, <1>4, <1>5, <2>1, <2>2
  <2>4. QED
    BY <2>3 DEF PnlIsFlow
<1>13. RunTypes'
  BY <1>2, <1>3, <1>4, <1>5 DEF Settle, RunTypes
<1>14. ControlOK'
  BY <1>1, <1>2, <1>5 DEF ControlOK, Trading
<1>15. TimesOK'
  <2>1. RunEnd' = RunEnd /\ LastTime' = LastTime
    BY <1>5, <1>6 DEF RunEnd, LastTime
  <2>2. now <= RunEnd /\ StartTime <= now /\ (\A c \in pending : c.at <= LastTime)
        /\ \A i \in DOMAIN orders : now <= orders[i].at /\ orders[i].at <= Current.end
    BY <1>5 DEF CInv, TimesOK
  <2>3. QED
    BY <1>1, <1>5, <1>6, <2>1, <2>2 DEF TimesOK, Trading
<1>16. QED
  BY <1>10, <1>11, <1>12, <1>13, <1>14, <1>15 DEF CInv

-----------------------------------------------------------------------------
(* From episode to episode *)

\* The next episode begins with the cash the flows so far add up to.
LEMMA BeginEpisodeStep ==
  ASSUME CInv, WInv, BeginEpisode
  PROVE  CInv'
<1>1. /\ phase = "next" /\ ~InEpisode /\ phase' = "flat" /\ InEpisode' /\ Trading'
      /\ orders = <<>> /\ orders' = <<>> /\ payout' = 0
  BY DEF BeginEpisode, InEpisode, Trading, CInv, ControlOK
<1>2. /\ call = NoCall /\ call' = NoCall /\ now' = now /\ now \in Nat
      /\ UNCHANGED <<available, pending, flow, orders, wallet>>
      /\ WalletTime = now /\ InDebit = 0
  BY <1>1, Idle DEF BeginEpisode, wallet, WInv, WalletTypeOK
<1>3. episode' = episode + 1 /\ episode' \in DOMAIN Episodes /\ episode' # 0
      /\ episode' \in 0 .. Len(Episodes)
  <2>1. DOMAIN Episodes = 1 .. Len(Episodes) /\ Len(Episodes) \in Nat
    BY EpisodesAssumption, LenProperties
  <2>2. QED
    BY <2>1 DEF BeginEpisode, CInv, RunTypes
<1>4. /\ Current' = Episodes[episode'] /\ Current'.start \in Times /\ Current'.end \in Times
      /\ Current'.start <= Current'.entryTo /\ Current'.entryTo <= Current'.end
      /\ Current'.entryTo \in Times
  BY <1>3, EpisodeTimes DEF Current
<1>5. clock' = Current'.start /\ now <= Current'.start
  <2>1. clock' = Current'.start
    BY <1>4 DEF BeginEpisode
  <2>2. now <= RunEnd /\ RunEnd \in Int
    <3>1. now <= RunEnd
      BY <1>2 DEF CInv, TimesOK
    <3>2. episode # 0 => Current.end \in Nat
      BY CurrentTimes, TimeIsNat DEF CInv
    <3>3. QED
      BY <3>1, <3>2, WalletAssumption DEF RunEnd
  <2>3. RunEnd <= Current'.start
    <3>1. CASE episode = 0
      <4>1. Current' = Episodes[1] /\ RunEnd = StartTime
        BY <1>3, <1>4, <3>1 DEF RunEnd
      <4>2. QED
        BY <4>1, EpisodesAssumption, WalletAssumption
    <3>2. CASE episode # 0
      <4>1. episode \in DOMAIN Episodes /\ RunEnd = Episodes[episode].end /\ episode < episode'
        BY <1>3, <3>2, CurrentTimes DEF CInv, RunTypes, RunEnd, Current
      <4>2. QED
        BY <1>3, <1>4, <4>1, EpisodesAssumption
    <3>3. QED
      BY <3>1, <3>2
  <2>4. Current'.start \in Int
    BY <1>4, TimeIsNat
  <2>5. QED
    BY <1>2, <2>1, <2>2, <2>3, <2>4
<1>6. WalletTime' = now /\ InDebit' = 0
  BY <1>2 DEF WalletTime, InDebit
<1>7. \A u \in Times : UnwrittenPayout(u) = 0 /\ UnwrittenPayout(u)' = 0
  BY <1>1 DEF UnwrittenPayout
<1>8. WalletFollowsFlows' /\ CausalSolvency'
  BY <1>2, <1>6, <1>7, CashFrame
<1>9. before' = CashFromFlows(LastTime) /\ before' \in Int
  <2>1. LastTime \in Times /\ now <= LastTime /\ LastTime \in Nat
    <3>1. LastTime \in Times /\ LastTime \in Nat /\ Times = StartTime .. LastTime
          /\ StartTime \in Nat
      BY EpisodeTimes, WalletAssumption
    <3>2. QED
      BY <1>2, <1>4, <1>5, <3>1
  <2>2. CashFromFlows(LastTime) = PeekAvailableAt(LastTime) - 0 + Unwritten(LastTime) + 0
    BY <1>2, <1>7, <2>1 DEF CInv, WalletFollowsFlows
  <2>3. Unwritten(LastTime) = 0
    <3>1. DOMAIN orders = {}
      BY <1>1, EmptySeq
    <3> DEFINE c == [i \in DOMAIN orders |-> Change(orders[i], LastTime)]
    <3>2. Unwritten(LastTime) = SumFunctionOnSet(c, {})
      BY <3>1 DEF Unwritten, SumFunction
    <3> HIDE DEF c
    <3>3. QED
      BY <3>2, SumOfNone
  <2>4. Due(LastTime) = pending
    BY DEF CInv, TimesOK, Due
  <2>5. PeekAvailableAt(LastTime) = TotalEquity /\ PeekAvailableAt(LastTime) \in Nat
    BY <2>1, <2>4, PeekRises DEF PeekAvailableAt, TotalEquity, PendingCash
  <2>6. before' = TotalEquity
    BY DEF BeginEpisode
  <2>7. QED
    BY <2>2, <2>3, <2>5, <2>6
<1>10. PnlIsFlow'
  <2>1. CashFromFlows(LastTime)' = CashFromFlows(LastTime)
    BY <1>2 DEF CashFromFlows, LastTime
  <2>2. pnl' = 0
    BY DEF BeginEpisode
  <2>3. CashFromFlows(LastTime)' = before' + pnl'
    BY <1>9, <2>1, <2>2
  <2>4. QED
    BY <2>3 DEF PnlIsFlow
<1>11. RunTypes'
  <2>1. clock' \in Nat /\ deadline' \in Nat /\ budget' \in Int
    BY <1>4, <1>5, TimeIsNat DEF BeginEpisode
  <2>2. QED
    BY <1>1, <1>2, <1>3, <1>9, <2>1, EmptySeq DEF BeginEpisode, CInv, RunTypes
<1>12. ControlOK'
  BY <1>1, <1>2, <1>3 DEF ControlOK
<1>13. TimesOK'
  <2>1. RunEnd' = Current'.end /\ LastTime' = LastTime
    BY <1>3 DEF RunEnd, LastTime
  <2>2. StartTime <= now /\ \A c \in pending : c.at <= LastTime
    BY <1>2 DEF CInv, TimesOK
  <2>3. Current'.start \in Int /\ Current'.entryTo \in Int /\ Current'.end \in Int
    BY <1>4, TimeIsNat
  <2>4. now <= Current'.end /\ now <= clock'
    BY <1>2, <1>4, <1>5, <2>3
  <2>5. DOMAIN orders' = {}
    BY <1>1, EmptySeq
  <2>6. QED
    BY <1>1, <1>2, <1>6, <2>1, <2>2, <2>4, <2>5 DEF TimesOK
<1>14. QED
  BY <1>8, <1>10, <1>11, <1>12, <1>13 DEF CInv

\* The end of the newest episode is a time of the run.
LEMMA RunEndFacts ==
  ASSUME CInv
  PROVE  RunEnd \in Nat /\ StartTime \in Nat /\ RunEnd <= LastTime /\ LastTime \in Nat
         /\ RunEnd \in Times
<1>1. RunEnd \in Times
  <2>1. episode # 0 => Current.end \in Times
    BY CurrentTimes DEF CInv
  <2>2. QED
    BY <2>1, EpisodeTimes DEF RunEnd
<1>2. Times = StartTime .. LastTime /\ LastTime \in Nat /\ StartTime \in Nat
  BY EpisodeTimes, WalletAssumption
<1>3. QED
  BY <1>1, <1>2

LEMMA WalletTimeIsNat ==
  ASSUME WInv
  PROVE  WalletTime \in Nat
BY DEF WInv, WalletTypeOK, WalletTime, NoCall

\* The run ends with the wallet read at the end of its newest episode.
LEMMA FinishStep ==
  ASSUME CInv, WInv, Finish
  PROVE  CInv' /\ [WalletNext]_wallet
<1>1. /\ phase = "next" /\ phase' = "finishing" /\ ~InEpisode /\ ~InEpisode'
      /\ ~Trading /\ ~Trading' /\ Call("advance", Horizon, 0)
  BY DEF Finish, InEpisode, Trading
<1>2. /\ now \in Nat /\ now <= RunEnd /\ WalletTime = now /\ InDebit = 0
  BY <1>1, Idle DEF CInv, TimesOK, WInv, WalletTypeOK
<1>3. /\ Horizon \in Nat /\ now <= Horizon /\ Horizon <= RunEnd
      /\ episode # 0 => Horizon = Current.end
  <2>1. CASE episode = 0
    BY <1>2, <2>1 DEF Horizon
  <2>2. CASE episode # 0
    <3>1. Current.end \in Nat /\ RunEnd = Current.end /\ Horizon = Max({now, Current.end})
      BY <2>2, CurrentTimes, TimeIsNat DEF CInv, RunEnd, Horizon
    <3>2. QED
      BY <1>2, <3>1, MaxOfTwo
  <2>3. QED
    BY <2>1, <2>2
<1>4. /\ call' = [op |-> "advance", at |-> Horizon, amount |-> 0] /\ call' # NoCall
      /\ UNCHANGED <<available, pending, orders, flow, before, pnl, episode, payout>>
  BY <1>1, CallIsNotNone DEF Call, Finish, sim, books
<1>5. WalletTime' = Horizon /\ InDebit' = 0 /\ Current' = Current /\ RunEnd' = RunEnd
      /\ LastTime' = LastTime
  BY <1>4 DEF WalletTime, InDebit, Current, RunEnd, LastTime
<1>6. \A u \in Times : UnwrittenPayout(u)' = UnwrittenPayout(u)
  BY <1>1 DEF UnwrittenPayout
<1>7. WalletFollowsFlows' /\ CausalSolvency' /\ PnlIsFlow'
  BY <1>1, <1>2, <1>3, <1>4, <1>5, <1>6, CashFrame, PnlFrame
<1>8. RunTypes'
  BY <1>1, <1>4 DEF Finish, sim, books, CInv, RunTypes
<1>9. ControlOK'
  BY <1>1, <1>4 DEF CInv, ControlOK
<1>10. TimesOK'
  <2>1. orders' = <<>> /\ DOMAIN orders' = {}
    BY <1>1, <1>4, EmptySeq DEF CInv, ControlOK
  <2>2. StartTime <= now /\ \A c \in pending : c.at <= LastTime
    BY <1>2 DEF CInv, TimesOK
  <2>3. StartTime <= Horizon
    BY <1>2, <1>3, <2>2, WalletAssumption
  <2>4. QED
    BY <1>1, <1>3, <1>4, <1>5, <2>1, <2>2, <2>3 DEF TimesOK
<1>11. QED
  BY <1>1, <1>3, <1>7, <1>8, <1>9, <1>10 DEF CInv, WalletNext

LEMMA ReportStep ==
  ASSUME CInv, WInv, Report
  PROVE  CInv'
<1>1. /\ phase = "finishing" /\ phase' = "done" /\ ~InEpisode /\ ~InEpisode'
      /\ ~Trading' /\ call = NoCall
      /\ UNCHANGED <<wallet, available, pending, call, now, policy, episode, sim, books>>
      /\ UNCHANGED <<orders, flow, before, pnl, payout, clock, deadline, budget>>
  BY DEF Report, InEpisode, Trading, wallet, sim, books
<1>2. /\ WalletTime' = WalletTime /\ InDebit' = InDebit /\ Current' = Current
      /\ RunEnd' = RunEnd /\ LastTime' = LastTime
  BY <1>1 DEF WalletTime, InDebit, Current, RunEnd, LastTime
<1>3. \A u \in Times : UnwrittenPayout(u)' = UnwrittenPayout(u)
  BY <1>1 DEF UnwrittenPayout
<1>4. WalletFollowsFlows' /\ CausalSolvency' /\ PnlIsFlow'
  BY <1>1, <1>2, <1>3, WalletTimeIsNat, CashFrame, PnlFrame
<1>5. RunTypes' /\ ControlOK'
  BY <1>1 DEF CInv, RunTypes, ControlOK
<1>6. TimesOK'
  BY <1>1, <1>2 DEF CInv, TimesOK
<1>7. QED
  BY <1>4, <1>5, <1>6 DEF CInv

\* All buys are written: the episode is over.
LEMMA ReconciledStep ==
  ASSUME CInv, WInv, Reconciled
  PROVE  CInv'
<1>1. /\ phase = "buys" /\ phase' = "next" /\ ~InEpisode'
      /\ ~Trading' /\ call = NoCall
      /\ UNCHANGED <<wallet, available, pending, call, now, policy, episode, sim, books>>
      /\ UNCHANGED <<orders, flow, before, pnl, payout, clock, deadline, budget>>
  BY DEF Reconciled, InEpisode, Trading, wallet, sim, books
<1>2. /\ WalletTime' = WalletTime /\ InDebit' = InDebit /\ Current' = Current
      /\ RunEnd' = RunEnd /\ LastTime' = LastTime
  BY <1>1 DEF WalletTime, InDebit, Current, RunEnd, LastTime
<1>3. \A u \in Times : UnwrittenPayout(u)' = UnwrittenPayout(u)
  BY <1>1 DEF UnwrittenPayout
<1>4. WalletFollowsFlows' /\ CausalSolvency' /\ PnlIsFlow'
  BY <1>1, <1>2, <1>3, WalletTimeIsNat, CashFrame, PnlFrame
<1>5. orders = <<>>
  <2>1. DOMAIN orders = {}
    BY <1>1 DEF Reconciled, NoneLeft, CInv, ControlOK
  <2>2. orders \in Seq(Order) /\ DOMAIN orders = 1 .. Len(orders) /\ Len(orders) \in Nat
    BY LenProperties DEF CInv, RunTypes
  <2>3. Len(orders) = 0
    BY <2>1, <2>2
  <2>4. QED
    BY <2>2, <2>3, EmptySeq
<1>6. RunTypes'
  BY <1>1 DEF CInv, RunTypes
<1>7. ControlOK'
  BY <1>1, <1>5 DEF CInv, ControlOK
<1>8. TimesOK'
  BY <1>1, <1>2 DEF CInv, TimesOK
<1>9. QED
  BY <1>4, <1>6, <1>7, <1>8 DEF CInv

-----------------------------------------------------------------------------
(* Writing the episode to the wallet *)

\* A credit is written: what the wallet will hold grows from its time on.
LEMMA ScheduledStep ==
  ASSUME WInv, WCash, call = NoCall, NEW t \in Nat, NEW amount \in Nat, Schedule(t, amount)
  PROVE  /\ [WalletNext]_wallet
         /\ call' = NoCall /\ now' = now
         /\ \A c \in pending' : c \in pending \/ c.at = t
         /\ \A u \in Int : u >= now =>
              /\ PeekAvailableAt(u)' = PeekAvailableAt(u) + (IF t <= u THEN amount ELSE 0)
              /\ PeekAvailableAt(u) \in Nat
<1>1. \A u \in Int : PeekAvailableAt(u) \in Nat
  BY PeekRises
<1>2. CASE ScheduleCredit(t, amount)
  <2>1. \A u \in Int : u >= now =>
          PeekAvailableAt(u)' = PeekAvailableAt(u) + (IF t <= u THEN amount ELSE 0)
    BY <1>2, PeekAfterCredit
  <2>2. /\ call' = NoCall /\ now' = now /\ \A c \in pending' : c \in pending \/ c.at = t
    BY <1>2 DEF ScheduleCredit, PutInNow, PutAside
  <2>3. QED
    BY <1>1, <1>2, <2>1, <2>2 DEF WalletNext
<1>3. CASE amount = 0 /\ UNCHANGED wallet
  <2>1. \A u \in Int : PeekAvailableAt(u)' = PeekAvailableAt(u)
    BY <1>3 DEF PeekAvailableAt, Due, wallet
  <2>2. \A u \in Int : PeekAvailableAt(u)' =
                         PeekAvailableAt(u) + (IF t <= u THEN amount ELSE 0)
    BY <1>1, <1>3, <2>1
  <2>3. QED
    BY <1>1, <1>3, <2>2 DEF wallet
<1>4. QED
  BY <1>2, <1>3 DEF Schedule

LEMMA ApplySellStep ==
  ASSUME CInv, WInv, WCash, NEW i \in DOMAIN orders, ApplySell(i)
  PROVE  CInv' /\ [WalletNext]_wallet
<1> DEFINE o == orders[i]
<1>1. /\ phase = "sells" /\ phase' = "sells" /\ InEpisode /\ InEpisode' /\ ~Trading'
      /\ episode # 0 /\ orders \in Seq(Order) /\ RunTypes
      /\ UNCHANGED <<episode, policy, clock, deadline, budget, payout, before, pnl, flow>>
  BY DEF ApplySell, InEpisode, Trading, books, CInv, ControlOK, RunTypes
<1>2. call = NoCall /\ WalletTime = now /\ InDebit = 0 /\ now \in Nat
  BY <1>1, Idle DEF WInv, WalletTypeOK
<1>3. o \in Order /\ o.at \in Nat /\ o.amount \in Nat /\ o.side = "SELL"
  <2>1. DOMAIN orders = 1 .. Len(orders)
    BY <1>1, LenProperties
  <2>2. o \in Order
    BY <1>1, <2>1, ElementOfSeq
  <2>3. QED
    BY <2>2 DEF Order, ApplySell, IsNext
<1>4. now <= o.at /\ o.at <= Current.end /\ Current.end = RunEnd /\ o.at <= LastTime
  <2>1. now <= o.at /\ o.at <= Current.end /\ Current.end = RunEnd
    BY <1>1, <1>2 DEF CInv, TimesOK, RunEnd
  <2>2. QED
    BY <1>3, <2>1, RunEndFacts
<1>5. /\ [WalletNext]_wallet /\ call' = NoCall /\ now' = now
      /\ \A c \in pending' : c \in pending \/ c.at = o.at
      /\ \A u \in Int : u >= now =>
           /\ PeekAvailableAt(u)' = PeekAvailableAt(u) + (IF o.at <= u THEN o.amount ELSE 0)
           /\ PeekAvailableAt(u) \in Nat
  <2>1. Schedule(o.at, o.amount)
    BY DEF ApplySell
  <2> HIDE DEF o
  <2>2. QED
    BY <1>2, <1>3, <2>1, ScheduledStep
<1>6. /\ orders' \in Seq(Order)
      /\ \A j \in DOMAIN orders' : \E k \in DOMAIN orders : k # i /\ orders'[j] = orders[k]
  BY <1>1, UnwrittenLess DEF ApplySell
<1>7. \A u \in Times : /\ Unwritten(u) = Unwritten(u)' + (IF o.at <= u THEN o.amount ELSE 0)
                       /\ Unwritten(u) \in Int /\ u \in Int
  <2>1. ASSUME NEW u \in Times
        PROVE  /\ Unwritten(u) = Unwritten(u)' + Change(o, u)
               /\ Unwritten(u) \in Int /\ u \in Int
    BY <1>1, TimeIsNat, UnwrittenLess, SpentBounds DEF ApplySell
  <2>2. \A u \in Times : Change(o, u) = IF o.at <= u THEN o.amount ELSE 0
    BY <1>3, TimeIsNat DEF Change
  <2>3. QED
    BY <2>1, <2>2
<1>8. \A u \in Times : Unwritten(u)' \in Int
  BY <1>1, TimeIsNat, UnwrittenLess DEF ApplySell
<1>9. WalletTime' = now /\ InDebit' = 0 /\ Current' = Current /\ RunEnd' = RunEnd
      /\ LastTime' = LastTime
  BY <1>1, <1>5 DEF WalletTime, InDebit, Current, RunEnd, LastTime
<1>10. \A u : UnwrittenPayout(u)' = UnwrittenPayout(u)
  BY <1>1, <1>9 DEF UnwrittenPayout
<1>11. \A u \in Times : UnwrittenPayout(u) \in Nat
  BY <1>1 DEF UnwrittenPayout, RunTypes
<1>12. WalletFollowsFlows'
  <2>1. ASSUME NEW u \in Times, u >= now
        PROVE  CashFromFlows(u)' = PeekAvailableAt(u)' - InDebit' + Unwritten(u)'
                                   + UnwrittenPayout(u)'
    <3> DEFINE p == PeekAvailableAt(u)
               w == Unwritten(u)'
               y == UnwrittenPayout(u)
               x == IF o.at <= u THEN o.amount ELSE 0
    <3>1. CashFromFlows(u) = p - 0 + Unwritten(u) + y
      BY <1>2, <2>1 DEF CInv, WalletFollowsFlows
    <3>2. CashFromFlows(u)' = CashFromFlows(u)
      BY <1>1 DEF CashFromFlows
    <3>3. /\ Unwritten(u) = w + x /\ PeekAvailableAt(u)' = p + x /\ UnwrittenPayout(u)' = y
          /\ p \in Int /\ w \in Int /\ y \in Int /\ x \in Int
      BY <1>3, <1>5, <1>7, <1>8, <1>10, <1>11, <2>1
    <3> HIDE DEF p, w, x, y
    <3>4. CashFromFlows(u)' = p + x - 0 + w + y
      BY <3>1, <3>2, <3>3
    <3>5. QED
      BY <1>9, <3>3, <3>4 DEF w
  <2>2. QED
    BY <1>9, <2>1 DEF WalletFollowsFlows
<1>13. CausalSolvency' /\ PnlIsFlow'
  <2>1. \A u : CashFromFlows(u)' = CashFromFlows(u)
    BY <1>1 DEF CashFromFlows
  <2>2. QED
    BY <1>1, <2>1, PnlFrame DEF CInv, CausalSolvency
<1>14. RunTypes'
  BY <1>1, <1>6 DEF CInv, RunTypes
<1>15. ControlOK'
  BY <1>1, <1>5 DEF ControlOK
<1>16. TimesOK'
  <2>1. StartTime <= now /\ now <= RunEnd
        /\ (\A c \in pending : c.at <= LastTime)
        /\ \A j \in DOMAIN orders : now <= orders[j].at /\ orders[j].at <= Current.end
    BY <1>2 DEF CInv, TimesOK
  <2>2. \A c \in pending' : c.at <= LastTime
    BY <1>4, <1>5, <2>1
  <2>3. \A j \in DOMAIN orders' : now <= orders'[j].at /\ orders'[j].at <= Current.end
    BY <1>6, <2>1
  <2>4. QED
    BY <1>1, <1>9, <2>1, <2>2, <2>3 DEF TimesOK
<1>17. QED
  BY <1>5, <1>12, <1>13, <1>14, <1>15, <1>16 DEF CInv

LEMMA ApplyPayoutStep ==
  ASSUME CInv, WInv, WCash, ApplyPayout
  PROVE  CInv' /\ [WalletNext]_wallet
<1> DEFINE t == Current.settles
<1>1. /\ phase = "sells" /\ phase' = "buys" /\ InEpisode /\ InEpisode' /\ ~Trading'
      /\ episode # 0 /\ orders \in Seq(Order) /\ RunTypes /\ payout \in Nat
      /\ UNCHANGED <<episode, policy, clock, deadline, budget, payout, orders,
                     before, pnl, flow>>
  BY DEF ApplyPayout, InEpisode, Trading, books, sim, CInv, ControlOK, RunTypes
<1>2. call = NoCall /\ WalletTime = now /\ InDebit = 0 /\ now \in Nat
  BY <1>1, Idle DEF WInv, WalletTypeOK
<1>3. t \in Nat /\ t <= LastTime
  <2>1. t \in Times /\ Times = StartTime .. LastTime /\ LastTime \in Nat /\ StartTime \in Nat
    BY <1>1, CurrentTimes, EpisodeTimes, WalletAssumption
  <2>2. QED
    BY <2>1
<1>4. /\ [WalletNext]_wallet /\ call' = NoCall /\ now' = now
      /\ \A c \in pending' : c \in pending \/ c.at = t
      /\ \A u \in Int : u >= now =>
           /\ PeekAvailableAt(u)' = PeekAvailableAt(u) + (IF t <= u THEN payout ELSE 0)
           /\ PeekAvailableAt(u) \in Nat
  <2>1. Schedule(t, payout)
    BY DEF ApplyPayout
  <2> HIDE DEF t
  <2>2. QED
    BY <1>1, <1>2, <1>3, <2>1, ScheduledStep
<1>5. WalletTime' = now /\ InDebit' = 0 /\ Current' = Current /\ RunEnd' = RunEnd
      /\ LastTime' = LastTime
  BY <1>1, <1>4 DEF WalletTime, InDebit, Current, RunEnd, LastTime
<1>6. \A u : /\ UnwrittenPayout(u) = (IF t <= u THEN payout ELSE 0)
             /\ UnwrittenPayout(u)' = 0
             /\ Unwritten(u)' = Unwritten(u) /\ CashFromFlows(u)' = CashFromFlows(u)
  BY <1>1 DEF UnwrittenPayout, Unwritten, CashFromFlows
<1> HIDE DEF t
<1>7. \A u \in Times : Unwritten(u) \in Int /\ u \in Int
  BY <1>1, TimeIsNat, SpentBounds
<1>8. WalletFollowsFlows'
  <2>1. ASSUME NEW u \in Times, u >= now
        PROVE  CashFromFlows(u)' = PeekAvailableAt(u)' - InDebit' + Unwritten(u)'
                                   + UnwrittenPayout(u)'
    <3> DEFINE p == PeekAvailableAt(u)
               w == Unwritten(u)
               x == IF t <= u THEN payout ELSE 0
    <3>1. CashFromFlows(u) = p - 0 + w + x
      BY <1>2, <1>6, <2>1 DEF CInv, WalletFollowsFlows
    <3>2. /\ PeekAvailableAt(u)' = p + x /\ Unwritten(u)' = w /\ UnwrittenPayout(u)' = 0
          /\ CashFromFlows(u)' = CashFromFlows(u)
          /\ p \in Int /\ w \in Int /\ x \in Int
      BY <1>1, <1>4, <1>6, <1>7, <2>1
    <3> HIDE DEF p, w, x
    <3>3. QED
      BY <1>5, <3>1, <3>2
  <2>2. QED
    BY <1>5, <2>1 DEF WalletFollowsFlows
<1>9. CausalSolvency' /\ PnlIsFlow'
  BY <1>1, <1>6, PnlFrame DEF CInv, CausalSolvency
<1>10. RunTypes'
  BY <1>1 DEF RunTypes
<1>11. ControlOK'
  <2>1. \A i \in DOMAIN orders : orders[i].side = "BUY"
    <3>1. DOMAIN orders = 1 .. Len(orders) /\ \A i \in 1 .. Len(orders) : orders[i] \in Order
      BY <1>1, LenProperties, ElementOfSeq
    <3>2. \A i \in DOMAIN orders : orders[i].side \in {"BUY", "SELL"}
      BY <3>1 DEF Order
    <3>3. QED
      BY <3>2 DEF ApplyPayout, NoneLeft
  <2>2. QED
    BY <1>1, <1>4, <2>1 DEF ControlOK
<1>12. TimesOK'
  <2>1. StartTime <= now /\ now <= RunEnd
        /\ (\A c \in pending : c.at <= LastTime)
        /\ \A j \in DOMAIN orders : now <= orders[j].at /\ orders[j].at <= Current.end
    BY <1>2 DEF CInv, TimesOK
  <2>2. \A c \in pending' : c.at <= LastTime
    BY <1>3, <1>4, <2>1
  <2>3. QED
    BY <1>1, <1>5, <2>1, <2>2 DEF TimesOK
<1>13. QED
  BY <1>4, <1>8, <1>9, <1>10, <1>11, <1>12 DEF CInv

\* A debit is begun: its order is counted with the call.
LEMMA ApplyBuyStep ==
  ASSUME CInv, WInv, NEW i \in DOMAIN orders, ApplyBuy(i)
  PROVE  CInv' /\ [WalletNext]_wallet
<1> DEFINE o == orders[i]
<1>1. /\ phase = "buys" /\ phase' = "buys" /\ InEpisode /\ InEpisode' /\ ~Trading'
      /\ episode # 0 /\ orders \in Seq(Order) /\ RunTypes
      /\ UNCHANGED <<episode, policy, clock, deadline, budget, payout, before, pnl, flow>>
      /\ Call("debit", o.at, o.amount)
  BY DEF ApplyBuy, InEpisode, Trading, books, CInv, ControlOK, RunTypes
<1>2. call = NoCall /\ WalletTime = now /\ InDebit = 0 /\ now \in Nat
  BY <1>1 DEF Call, WalletTime, InDebit, WInv, WalletTypeOK
<1>3. o \in Order /\ o.at \in Nat /\ o.amount \in Nat /\ o.side = "BUY"
  <2>1. DOMAIN orders = 1 .. Len(orders)
    BY <1>1, LenProperties
  <2>2. o \in Order
    BY <1>1, <2>1, ElementOfSeq
  <2>3. QED
    BY <2>2 DEF Order, ApplyBuy, IsNext
<1>4. now <= o.at /\ o.at <= Current.end /\ Current.end = RunEnd
  BY <1>1, <1>2 DEF CInv, TimesOK, RunEnd
<1>5. /\ call' = [op |-> "debit", at |-> o.at, amount |-> o.amount] /\ call' # NoCall
      /\ UNCHANGED <<available, pending, now>>
  BY <1>1, CallIsNotNone DEF Call
<1>6. WalletTime' = o.at /\ InDebit' = o.amount /\ Current' = Current /\ RunEnd' = RunEnd
      /\ LastTime' = LastTime
  BY <1>1, <1>5 DEF WalletTime, InDebit, Current, RunEnd, LastTime
<1>7. /\ orders' \in Seq(Order)
      /\ \A j \in DOMAIN orders' : \E k \in DOMAIN orders : k # i /\ orders'[j] = orders[k]
  <2>1. ASSUME NEW u \in Int
        PROVE  /\ orders' \in Seq(Order)
               /\ \A j \in DOMAIN orders' :
                    \E k \in DOMAIN orders : k # i /\ orders'[j] = orders[k]
    BY <1>1, UnwrittenLess DEF ApplyBuy
  <2>2. 0 \in Int
    OBVIOUS
  <2>3. QED
    BY <2>1, <2>2
<1>8. \A u \in Times : /\ Unwritten(u) = Unwritten(u)' + (IF o.at <= u THEN -o.amount ELSE 0)
                       /\ Unwritten(u)' \in Int /\ u \in Int
  <2>1. ASSUME NEW u \in Times
        PROVE  /\ Unwritten(u) = Unwritten(u)' + Change(o, u)
               /\ Unwritten(u)' \in Int /\ u \in Int
    BY <1>1, TimeIsNat, UnwrittenLess DEF ApplyBuy
  <2>2. \A u \in Times : Change(o, u) = IF o.at <= u THEN -o.amount ELSE 0
    BY <1>3, TimeIsNat DEF Change
  <2>3. QED
    BY <2>1, <2>2
<1>9. \A u : /\ UnwrittenPayout(u) = 0 /\ UnwrittenPayout(u)' = 0
             /\ CashFromFlows(u)' = CashFromFlows(u)
             /\ PeekAvailableAt(u)' = PeekAvailableAt(u)
  BY <1>1, <1>5 DEF UnwrittenPayout, CashFromFlows, PeekAvailableAt, Due
<1>10. \A u \in Times : PeekAvailableAt(u) \in Int
  BY <1>8, PeekRises
<1> HIDE DEF o
<1>11. WalletFollowsFlows'
  <2>1. ASSUME NEW u \in Times, u >= o.at
        PROVE  CashFromFlows(u)' = PeekAvailableAt(u)' - InDebit' + Unwritten(u)'
                                   + UnwrittenPayout(u)'
    <3> DEFINE p == PeekAvailableAt(u)
               w == Unwritten(u)'
    <3>1. CashFromFlows(u) = p - 0 + Unwritten(u) + 0
      <4>1. u >= now
        BY <1>2, <1>3, <1>4, <1>8, <2>1
      <4>2. QED
        BY <1>2, <1>9, <4>1 DEF CInv, WalletFollowsFlows
    <3>2. /\ PeekAvailableAt(u)' = p /\ Unwritten(u) = w + (-o.amount)
          /\ CashFromFlows(u)' = CashFromFlows(u) /\ UnwrittenPayout(u)' = 0
          /\ p \in Int /\ w \in Int /\ InDebit' = o.amount /\ o.amount \in Int
      BY <1>3, <1>6, <1>8, <1>9, <1>10, <2>1
    <3> HIDE DEF p, w
    <3>3. CashFromFlows(u)' = p - o.amount + w + 0
      BY <3>1, <3>2
    <3>4. QED
      BY <3>2, <3>3 DEF w
  <2>2. QED
    BY <1>6, <2>1 DEF WalletFollowsFlows
<1>12. CausalSolvency' /\ PnlIsFlow'
  BY <1>1, <1>9, PnlFrame DEF CInv, CausalSolvency
<1>13. RunTypes'
  BY <1>1, <1>7 DEF RunTypes
<1>14. ControlOK'
  <2>1. \A j \in DOMAIN orders' : orders'[j].side = "BUY"
    BY <1>1, <1>7 DEF CInv, ControlOK
  <2>2. call'.op = "debit"
    BY <1>5
  <2>3. QED
    BY <1>1, <2>1, <2>2 DEF ControlOK
<1>15. TimesOK'
  <2>0. ASSUME NEW j \in DOMAIN orders PROVE orders[j].at \in Nat
    <3>1. DOMAIN orders = 1 .. Len(orders)
      BY <1>1, LenProperties
    <3>2. orders[j] \in Order
      BY <1>1, <3>1, ElementOfSeq
    <3>3. QED
      BY <3>2 DEF Order
  <2>1. StartTime <= now /\ (\A c \in pending : c.at <= LastTime)
        /\ \A j \in DOMAIN orders : now <= orders[j].at /\ orders[j].at <= Current.end
    BY <1>2 DEF CInv, TimesOK
  <2>2. \A j \in DOMAIN orders : orders[j].at >= o.at
    <3>1. \A j \in DOMAIN orders : orders[j].side = "BUY"
      BY <1>1 DEF CInv, ControlOK
    <3>2. QED
      BY <1>3, <2>0, <3>1 DEF ApplyBuy, IsNext, o
  <2>3. \A j \in DOMAIN orders' : o.at <= orders'[j].at /\ orders'[j].at <= Current.end
    <3>1. ASSUME NEW j \in DOMAIN orders'
          PROVE  o.at <= orders'[j].at /\ orders'[j].at <= Current.end
      <4>1. PICK k \in DOMAIN orders : orders'[j] = orders[k]
        BY <1>7
      <4>2. orders[k].at >= o.at /\ orders[k].at <= Current.end
        BY <2>1, <2>2
      <4>3. QED
        BY <1>3, <2>0, <4>1, <4>2
    <3>2. QED
      BY <3>1
  <2>4. StartTime <= o.at /\ o.at <= RunEnd
    BY <1>2, <1>3, <1>4, <2>1, WalletAssumption
  <2>5. QED
    BY <1>1, <1>5, <1>6, <2>1, <2>3, <2>4 DEF TimesOK
<1>16. [WalletNext]_wallet
  BY <1>1, <1>3 DEF WalletNext
<1>17. QED
  BY <1>11, <1>12, <1>13, <1>14, <1>15, <1>16 DEF CInv

\* What only buys change is not positive.
LEMMA UnwrittenBuys ==
  ASSUME orders \in Seq(Order), \A i \in DOMAIN orders : orders[i].side = "BUY",
         NEW u \in Int
  PROVE  Unwritten(u) <= 0 /\ Unwritten(u) \in Int
<1> DEFINE n == Len(orders)
           c == [i \in DOMAIN orders |-> Change(orders[i], u)]
           z == [i \in DOMAIN orders |-> 0]
<1>1. n \in Nat /\ DOMAIN orders = 1 .. n /\ \A i \in 1 .. n : orders[i] \in Order
  BY LenProperties, ElementOfSeq
<1>2. Unwritten(u) = SumFunctionOnSet(c, 1 .. n)
  BY <1>1 DEF Unwritten, SumFunction
<1>3. \A i \in 1 .. n : c[i] \in Int /\ z[i] \in Int /\ c[i] <= z[i]
  BY <1>1, ChangeIsInt DEF Change
<1>4. \A i \in 1 .. n : z[i] = 0
  BY <1>1
<1> HIDE DEF n, c, z
<1>5. IsFiniteSet(1 .. n)
  BY <1>1, FS_Interval
<1>6. SumFunctionOnSet(c, 1 .. n) <= SumFunctionOnSet(z, 1 .. n)
  BY <1>3, <1>5, SumOfLess
<1>7. SumFunctionOnSet(z, 1 .. n) = 0
  BY <1>4, <1>5, SumOfZeros
<1>8. SumFunctionOnSet(c, 1 .. n) \in Int
  BY <1>3, <1>5, SumOfAny
<1>9. QED
  BY <1>2, <1>6, <1>7, <1>8

\* When its advance is through, a debit is covered.
LEMMA DebitCovered ==
  ASSUME CInv, WInv, LoopIsDone, call.op = "debit"
  PROVE  call.amount <= available
<1> DEFINE t == call.at
<1>1. /\ call # NoCall /\ phase = "buys" /\ InEpisode /\ WalletTime = t
      /\ InDebit = call.amount /\ call.amount \in Nat /\ available \in Nat
      /\ orders \in Seq(Order) /\ \A u : UnwrittenPayout(u) = 0
  BY DEF LoopIsDone, CInv, ControlOK, InEpisode, WalletTime, InDebit, WInv, WalletTypeOK,
         NoCall, RunTypes, UnwrittenPayout
<1>2. t \in Times /\ t \in Int
  <2>1. StartTime <= t /\ t <= RunEnd /\ t \in Nat
    BY <1>1, WalletTimeIsNat DEF CInv, TimesOK
  <2>2. RunEnd \in Nat /\ RunEnd <= LastTime /\ Times = StartTime .. LastTime
        /\ LastTime \in Nat /\ StartTime \in Nat
    BY RunEndFacts, EpisodeTimes
  <2>3. QED
    BY <2>1, <2>2
<1>3. CashFromFlows(t) = PeekAvailableAt(t) - call.amount + Unwritten(t) + 0
  <2>1. t >= WalletTime
    BY <1>1, <1>2
  <2>2. QED
    BY <1>1, <1>2, <2>1 DEF CInv, WalletFollowsFlows
<1>4. PeekAvailableAt(t) = available
  <2>1. \A c \in pending : c.at \in Nat /\ c.at > t
    BY DEF LoopIsDone, WInv, WalletTypeOK, Credit
  <2>2. Due(t) = {}
    BY <1>2, <2>1 DEF Due
  <2>3. PeekAvailableAt(t) = available + Worth({})
    BY <2>2 DEF PeekAvailableAt
  <2>4. QED
    BY <1>1, <2>3, WorthOfNone
<1>5. Unwritten(t) <= 0 /\ Unwritten(t) \in Int
  BY <1>1, <1>2, UnwrittenBuys DEF CInv, ControlOK
<1>6. CashFromFlows(t) >= 0
  BY <1>2 DEF CInv, CausalSolvency
<1>7. QED
  BY <1>1, <1>3, <1>4, <1>5, <1>6

\* A started call goes on; nothing else of the run moves.
LEMMA WalletMoves ==
  ASSUME CInv, WInv, WalletStep, UNCHANGED run
  PROVE  CInv'
<1>1. /\ call # NoCall /\ ~Trading /\ ~Trading' /\ (InEpisode' <=> InEpisode)
      /\ UNCHANGED <<policy, episode, phase, clock, deadline, budget, orders, payout,
                     before, pnl, flow>>
      /\ \/ phase = "buys" /\ call.op = "debit"
         \/ phase = "finishing" /\ call.op = "advance"
  <2>1. call # NoCall
    BY DEF WalletStep, Release, Advanced, Debited, DebitRaises, Credited, AdvanceReturns,
           LoopIsDone
  <2>2. \/ phase = "buys" /\ call.op = "debit"
        \/ phase = "finishing" /\ call.op = "advance"
    BY <2>1 DEF CInv, ControlOK
  <2>3. QED
    BY <2>1, <2>2 DEF run, sim, books, Trading, InEpisode
<1>2. WalletTime = call.at /\ WalletTime \in Nat /\ call.amount \in Nat /\ available \in Nat
  BY <1>1 DEF WalletTime, WInv, WalletTypeOK, NoCall
<1>3. Current' = Current /\ RunEnd' = RunEnd /\ LastTime' = LastTime
  BY <1>1 DEF Current, RunEnd, LastTime
<1>4. \A u : /\ UnwrittenPayout(u)' = UnwrittenPayout(u)
             /\ Unwritten(u)' = Unwritten(u) /\ CashFromFlows(u)' = CashFromFlows(u)
  BY <1>1, <1>3 DEF UnwrittenPayout, Unwritten, CashFromFlows
<1>5. RunTypes' /\ CausalSolvency' /\ PnlIsFlow'
  BY <1>1, <1>4, PnlFrame DEF CInv, RunTypes, CausalSolvency
<1>6. ASSUME NEW c \in pending, Release(c)
      PROVE  CInv'
  <2>1. call' = call /\ pending' \subseteq pending
    BY <1>6 DEF Release
  <2>2. WalletTime' = WalletTime /\ InDebit' = InDebit
    BY <1>1, <2>1 DEF WalletTime, InDebit
  <2>3. \A u \in Times : u >= WalletTime => PeekAvailableAt(u)' = PeekAvailableAt(u)
    <3>1. ASSUME NEW u \in Times, u >= WalletTime
          PROVE  PeekAvailableAt(u)' = PeekAvailableAt(u)
      <4>1. u \in Int /\ u >= call.at
        BY <1>2, <3>1, TimeIsNat
      <4>2. QED
        BY <1>6, <4>1, PeekAfterRelease
    <3>2. QED
      BY <3>1
  <2>4. WalletFollowsFlows'
    BY <1>4, <2>2, <2>3 DEF CInv, WalletFollowsFlows
  <2>5. ControlOK'
    BY <1>1, <2>1 DEF CInv, ControlOK
  <2>6. TimesOK'
    BY <1>1, <1>3, <2>1, <2>2 DEF CInv, TimesOK
  <2>7. QED
    BY <1>5, <2>4, <2>5, <2>6 DEF CInv
<1>7. ASSUME AdvanceReturns, pending' = pending,
             \A u \in Times : u >= WalletTime =>
               PeekAvailableAt(u)' = PeekAvailableAt(u) - InDebit
      PROVE  CInv'
  <2>1. call' = NoCall /\ WalletTime' = WalletTime /\ InDebit' = 0 /\ now' = WalletTime
    BY <1>2, <1>7 DEF AdvanceReturns, WalletTime, InDebit
  <2>2. WalletFollowsFlows'
    <3>1. ASSUME NEW u \in Times, u >= WalletTime
          PROVE  CashFromFlows(u)' = PeekAvailableAt(u)' - InDebit' + Unwritten(u)'
                                     + UnwrittenPayout(u)'
      <4> DEFINE p == PeekAvailableAt(u)
                 w == Unwritten(u)
                 y == UnwrittenPayout(u)
                 d == InDebit
      <4>1. CashFromFlows(u) = p - d + w + y
        BY <3>1 DEF CInv, WalletFollowsFlows
      <4>2. /\ PeekAvailableAt(u)' = p - d /\ Unwritten(u)' = w /\ UnwrittenPayout(u)' = y
            /\ CashFromFlows(u)' = CashFromFlows(u)
        BY <1>4, <1>7, <3>1
      <4>3. p \in Int /\ d \in Int
        BY <1>2, TimeIsNat, PeekRises DEF InDebit
      <4> HIDE DEF p, w, y, d
      <4>4. p - d - 0 = p - d
        BY <4>3
      <4>5. QED
        BY <2>1, <4>1, <4>2, <4>4
    <3>2. QED
      BY <2>1, <3>1 DEF WalletFollowsFlows
  <2>3. ControlOK'
    BY <1>1, <2>1 DEF CInv, ControlOK
  <2>4. TimesOK'
    BY <1>1, <1>3, <1>7, <2>1 DEF CInv, TimesOK
  <2>5. QED
    BY <1>5, <2>2, <2>3, <2>4 DEF CInv
<1>8. \A u \in Times : PeekAvailableAt(u) \in Nat /\ PeekAvailableAt(u) = available + Worth(Due(u))
                       /\ PeekAvailableAt(u)' = available' + Worth(Due(u)')
  <2>1. \A u \in Times : PeekAvailableAt(u) \in Nat
    <3>1. \A u \in Int : u <= u
      OBVIOUS
    <3>2. QED
      BY <3>1, TimeIsNat, PeekRises
  <2>2. \A u : /\ PeekAvailableAt(u) = available + Worth(Due(u))
              /\ PeekAvailableAt(u)' = available' + Worth(Due(u)')
    BY DEF PeekAvailableAt, Due
  <2>3. QED
    BY <2>1, <2>2
<1>9. CASE Advanced
  <2>1. InDebit = 0 /\ \A u \in Times : PeekAvailableAt(u)' = PeekAvailableAt(u)
    BY <1>9 DEF Advanced, InDebit, PeekAvailableAt, Due
  <2>2. \A u \in Times : PeekAvailableAt(u)' = PeekAvailableAt(u) - InDebit
    BY <1>8, <2>1
  <2>3. QED
    BY <1>7, <1>9, <2>2 DEF Advanced
<1>10. CASE Debited
  <2>1. InDebit = call.amount /\ available' = available - call.amount /\ pending' = pending
    BY <1>1, <1>10 DEF Debited, InDebit
  <2>2. ASSUME NEW u \in Times PROVE PeekAvailableAt(u)' = PeekAvailableAt(u) - InDebit
    <3> DEFINE w == Worth(Due(u))
    <3>1. Due(u)' = Due(u)
      BY <2>1 DEF Due
    <3>2. w \in Nat
      <4>1. Due(u) \in SUBSET pending
        BY DEF Due
      <4>2. Due(u) \in SUBSET Credit /\ IsFiniteSet(Due(u))
        BY <4>1, FS_Subset DEF WInv, WalletTypeOK
      <4>3. QED
        BY <4>2, WorthIsNat
    <3>3. PeekAvailableAt(u) = available + w /\ PeekAvailableAt(u)' = available' + w
      BY <1>8, <3>1
    <3> HIDE DEF w
    <3>4. QED
      BY <1>2, <2>1, <3>2, <3>3
  <2>3. QED
    BY <1>7, <1>10, <2>1, <2>2 DEF Debited
<1>11. CASE DebitRaises
  BY <1>2, <1>11, DebitCovered DEF DebitRaises, AdvanceReturns
<1>12. CASE Credited
  BY <1>1, <1>12 DEF Credited
<1>13. QED
  BY <1>6, <1>9, <1>10, <1>11, <1>12 DEF WalletStep

-----------------------------------------------------------------------------
(* The theorems *)

LEMMA CInvInit ==
  ASSUME Init
  PROVE  CInv
<1>1. /\ phase = "next" /\ ~InEpisode /\ ~Trading /\ call = NoCall /\ now = StartTime
      /\ orders = <<>> /\ pending = {} /\ available = StartCash /\ episode = 0
      /\ StartTime \in Nat /\ StartCash \in Nat
  BY WalletAssumption DEF Init, WalletInit, InEpisode, Trading
<1>2. WalletTime = StartTime /\ InDebit = 0 /\ RunEnd = StartTime
  BY <1>1 DEF WalletTime, InDebit, RunEnd
<1>3. \A u \in Times : CashFromFlows(u) = StartCash
  <2>1. ASSUME NEW u \in Times PROVE CashFromFlows(u) = StartCash
    <3> DEFINE T == {v \in Times : v <= u}
    <3>1. IsFiniteSet(T) /\ \A v \in T : flow[v] = 0
      BY TimesAreFinite, FS_Subset DEF Init
    <3>2. CashFromFlows(u) = StartCash + SumFunctionOnSet(flow, T)
      BY DEF CashFromFlows
    <3> HIDE DEF T
    <3>3. SumFunctionOnSet(flow, T) = 0
      BY <3>1, SumOfZeros
    <3>4. QED
      BY <1>1, <3>2, <3>3
  <2>2. QED
    BY <2>1
<1>4. DOMAIN orders = {} /\ orders \in Seq(Order)
  BY <1>1, EmptySeq
<1>5. \A u \in Times : /\ PeekAvailableAt(u) = StartCash /\ Unwritten(u) = 0
                       /\ UnwrittenPayout(u) = 0
  <2>1. ASSUME NEW u \in Times
        PROVE  /\ PeekAvailableAt(u) = StartCash /\ Unwritten(u) = 0
               /\ UnwrittenPayout(u) = 0
    <3>1. Due(u) = {}
      BY <1>1 DEF Due
    <3>2. PeekAvailableAt(u) = StartCash
      BY <1>1, <3>1, WorthOfNone DEF PeekAvailableAt
    <3> DEFINE c == [i \in DOMAIN orders |-> Change(orders[i], u)]
    <3>3. Unwritten(u) = SumFunctionOnSet(c, {})
      BY <1>4 DEF Unwritten, SumFunction
    <3> HIDE DEF c
    <3>4. QED
      BY <1>1, <3>2, <3>3, SumOfNone DEF UnwrittenPayout
  <2>2. QED
    BY <2>1
<1>6. WalletFollowsFlows /\ CausalSolvency /\ PnlIsFlow
  BY <1>1, <1>2, <1>3, <1>5 DEF WalletFollowsFlows, CausalSolvency, PnlIsFlow
<1>7. RunTypes
  <2>1. 0 \in 0 .. Len(Episodes)
    BY EpisodesAssumption, LenProperties
  <2>2. QED
    BY <1>1, <1>4, <2>1 DEF Init, RunTypes
<1>8. ControlOK
  BY <1>1 DEF ControlOK
<1>9. TimesOK
  BY <1>1, <1>2, <1>4 DEF TimesOK
<1>10. QED
  BY <1>6, <1>7, <1>8, <1>9 DEF CInv

\* Every step of the run keeps CInv and is a use of the wallet.
LEMMA RunStep ==
  ASSUME CInv, WInv, WCash, [Next]_vars
  PROVE  CInv' /\ [WalletNext]_wallet
<1>1. ASSUME UNCHANGED wallet PROVE [WalletNext]_wallet
  BY <1>1
<1>2. ASSUME NEW t \in Times, NEW latency \in 0 .. MaxLatency,
             \/ ImmediateEntry(t, t + latency)
             \/ ParentStarts(t, t + latency)
             \/ ChildFills(t, t + latency)
             \/ Exit(t, t + latency)
      PROVE  CInv' /\ UNCHANGED wallet
  <2>1. t \in Nat /\ t + latency \in Nat /\ t <= t + latency
    BY TimeIsNat, EpisodesAssumption
  <2>2. CASE ImmediateEntry(t, t + latency)
    BY <2>1, <2>2, ImmediateEntryStep DEF ImmediateEntry
  <2>3. CASE ParentStarts(t, t + latency)
    BY <2>1, <2>3, ParentStartsStep DEF ParentStarts
  <2>4. CASE ChildFills(t, t + latency)
    BY <2>1, <2>4, ChildFillsStep DEF ChildFills
  <2>5. CASE Exit(t, t + latency)
    BY <2>1, <2>5, ExitStep DEF Exit
  <2>6. QED
    BY <1>2, <2>2, <2>3, <2>4, <2>5
<1>3. CASE ParentEnds \/ Settle \/ NoEntry \/ BeginEpisode \/ Report \/ Reconciled
  <2>1. CInv'
    BY <1>3, ParentEndsStep, SettleStep, NoEntryStep, BeginEpisodeStep, ReportStep,
       ReconciledStep
  <2>2. UNCHANGED wallet
    BY <1>3 DEF ParentEnds, Settle, NoEntry, BeginEpisode, Report, Reconciled
  <2>3. QED
    BY <2>1, <2>2
<1>4. CASE UNCHANGED vars
  <2>1. UNCHANGED <<wallet, run>>
    BY <1>4 DEF vars
  <2>2. /\ UNCHANGED <<now, available, pending, sequence, call, lastEvent, ledger>>
        /\ UNCHANGED <<policy, episode, phase, clock, deadline, budget, orders, payout,
                       before, pnl, flow>>
    BY <2>1 DEF wallet, run, sim, books
  <2>3. RunTypes' /\ ControlOK'
    BY <2>2 DEF CInv, RunTypes, ControlOK, InEpisode, Trading
  <2>4. /\ WalletTime' = WalletTime /\ InDebit' = InDebit /\ Current' = Current
        /\ RunEnd' = RunEnd /\ LastTime' = LastTime
    BY <2>2 DEF WalletTime, InDebit, Current, RunEnd, LastTime
  <2>5. \A u \in Times : UnwrittenPayout(u)' = UnwrittenPayout(u)
    BY <2>2, <2>4 DEF UnwrittenPayout, InEpisode
  <2>6. WalletFollowsFlows' /\ CausalSolvency' /\ PnlIsFlow'
    BY <2>2, <2>4, <2>5, WalletTimeIsNat, CashFrame, PnlFrame DEF InEpisode
  <2>7. TimesOK'
    BY <2>2, <2>4 DEF CInv, TimesOK, Trading
  <2>8. QED
    BY <2>1, <2>3, <2>6, <2>7 DEF CInv
<1>5. ASSUME NEW i \in DOMAIN orders, ApplySell(i) \/ ApplyBuy(i)
      PROVE  CInv' /\ [WalletNext]_wallet
  BY <1>5, ApplySellStep, ApplyBuyStep
<1>6. CASE ApplyPayout
  BY <1>6, ApplyPayoutStep
<1>7. CASE Finish
  BY <1>7, FinishStep
<1>8. CASE WalletStep /\ UNCHANGED run
  BY <1>8, WalletMoves DEF WalletNext
<1>9. QED
  BY <1>2, <1>3, <1>4, <1>5, <1>6, <1>7, <1>8 DEF Next, Done

LEMMA RunInvariant == Spec => [](CInv /\ WInv /\ WCash)
<1>1. Init => CInv /\ WInv /\ WCash
  BY CInvInit, WInvInit, WCashInit DEF Init
<1>2. CInv /\ WInv /\ WCash /\ [Next]_vars => (CInv /\ WInv /\ WCash)'
  BY RunStep, WInvStep, CashStep
<1>3. QED
  BY <1>1, <1>2, PTL DEF Spec

\* A replay is a use of the wallet: what the theorems on WalletSpec say holds
\* in every replay (backtest_service.py, _apply_result_to_wallet).
THEOREM ReplayUsesWallet == Spec => WalletSpec
<1>1. Init => WalletInit
  BY DEF Init
<1>2. CInv /\ WInv /\ WCash /\ [Next]_vars => [WalletNext]_wallet
  BY RunStep
<1>3. QED
  BY <1>1, <1>2, RunInvariant, PTL DEF Spec, WalletSpec

\* The run's cash flows, in the order of their times, never take the account
\* below zero, for any episodes, latency and proceeds (run_episodes).
THEOREM SolvencyCorrect == Spec => []CausalSolvency
<1>1. CInv => CausalSolvency
  BY DEF CInv
<1>2. QED
  BY <1>1, RunInvariant, PTL

\* No query and no debit lies behind wallet time, each debit is covered when
\* its advance is through, and the wallet's equity has moved by the episode's
\* net result (backtest_service.py, _apply_result_to_wallet; wallet.py, debit).
THEOREM ReplayCorrect == Spec => []ReplayNeverRaises
<1>1. CInv /\ WInv => ReplayNeverRaises
  <2> SUFFICES ASSUME CInv, WInv PROVE ReplayNeverRaises
    OBVIOUS
  <2>1. phase \in {"flat", "children", "held"} => now <= clock
    BY DEF CInv, TimesOK, Trading
  <2>2. ASSUME phase = "buys", NEW i \in DOMAIN orders PROVE orders[i].at >= now
    <3>1. WalletTime <= orders[i].at
      BY DEF CInv, TimesOK
    <3>2. now <= WalletTime /\ now \in Nat /\ WalletTime \in Nat
      BY WalletTimeIsNat DEF WInv, WalletTypeOK, Ordered, WalletTime
    <3>3. orders[i].at \in Nat
      <4>1. orders \in Seq(Order) /\ DOMAIN orders = 1 .. Len(orders)
        BY LenProperties DEF CInv, RunTypes
      <4>2. orders[i] \in Order
        BY <4>1, ElementOfSeq
      <4>3. QED
        BY <4>2 DEF Order
    <3>4. QED
      BY <3>1, <3>2, <3>3
  <2>3. LoopIsDone /\ call.op = "debit" => call.amount <= available
    BY DebitCovered
  <2>4. ASSUME phase = "buys", orders = <<>>, call = NoCall PROVE TotalEquity - before = pnl
    <3>1. CashFromFlows(LastTime) = before + pnl /\ before \in Int /\ pnl \in Int
      BY <2>4 DEF CInv, PnlIsFlow, RunTypes, InEpisode
    <3>2. /\ WalletTime = now /\ InDebit = 0 /\ \A u : UnwrittenPayout(u) = 0
          /\ now <= RunEnd /\ now \in Nat
      BY <2>4 DEF CInv, TimesOK, WalletTime, InDebit, UnwrittenPayout, WInv, WalletTypeOK
    <3>3. LastTime \in Times /\ LastTime \in Nat /\ LastTime >= now
      BY <3>2, RunEndFacts, EpisodeTimes
    <3>4. CashFromFlows(LastTime) = PeekAvailableAt(LastTime) - 0 + Unwritten(LastTime) + 0
      BY <3>2, <3>3 DEF CInv, WalletFollowsFlows
    <3>5. Unwritten(LastTime) = 0
      <4> DEFINE c == [i \in DOMAIN orders |-> Change(orders[i], LastTime)]
      <4>1. Unwritten(LastTime) = SumFunctionOnSet(c, {})
        BY <2>4, EmptySeq DEF Unwritten, SumFunction
      <4> HIDE DEF c
      <4>2. QED
        BY <4>1, SumOfNone
    <3>6. Due(LastTime) = pending
      BY DEF CInv, TimesOK, Due
    <3>7. PeekAvailableAt(LastTime) = TotalEquity /\ PeekAvailableAt(LastTime) \in Nat
      BY <3>3, <3>6, PeekRises DEF PeekAvailableAt, TotalEquity, PendingCash
    <3>8. QED
      BY <3>1, <3>4, <3>5, <3>7
  <2>5. QED
    BY <2>1, <2>2, <2>3, <2>4 DEF ReplayNeverRaises
<1>2. QED
  BY <1>1, RunInvariant, PTL

\* What the report shows as spendable at its horizon is what the flows up to
\* then add up to; what lies ahead is not in it (run_episodes).
THEOREM ReportCorrect == Spec => []ReportIsCausal
<1>1. CInv /\ WInv => ReportIsCausal
  <2> SUFFICES ASSUME CInv, WInv, phase = "done", episode > 0
               PROVE  available = CashFromFlows(Current.end)
    BY DEF ReportIsCausal
  <2> DEFINE t == Current.end
  <2>1. /\ call = NoCall /\ WalletTime = now /\ InDebit = 0 /\ now = t /\ orders = <<>>
        /\ \A u : UnwrittenPayout(u) = 0 /\ episode # 0
    <3>1. call = NoCall /\ WalletTime = now /\ InDebit = 0
      BY Idle
    <3>2. episode # 0
      BY DEF CInv, RunTypes
    <3>3. QED
      BY <3>1, <3>2 DEF CInv, TimesOK, ControlOK, InEpisode, UnwrittenPayout
  <2>2. t \in Times /\ t \in Nat /\ available \in Nat
    BY <2>1, CurrentTimes, TimeIsNat DEF CInv, WInv, WalletTypeOK
  <2>3. CashFromFlows(t) = PeekAvailableAt(t) - 0 + Unwritten(t) + 0
    BY <2>1, <2>2 DEF CInv, WalletFollowsFlows
  <2>4. Unwritten(t) = 0
    <3> DEFINE c == [i \in DOMAIN orders |-> Change(orders[i], t)]
    <3>1. Unwritten(t) = SumFunctionOnSet(c, {})
      BY <2>1, EmptySeq DEF Unwritten, SumFunction
    <3> HIDE DEF c
    <3>2. QED
      BY <3>1, SumOfNone
  <2>5. PeekAvailableAt(t) = available
    <3>1. Due(t) = {}
      BY <2>1, <2>2 DEF WInv, WalletTypeOK, Ordered, Due, Credit
    <3>2. PeekAvailableAt(t) = available + Worth({})
      BY <3>1 DEF PeekAvailableAt
    <3>3. QED
      BY <2>2, <3>2, WorthOfNone
  <2>6. QED
    BY <2>2, <2>3, <2>4, <2>5
<1>2. QED
  BY <1>1, RunInvariant, PTL
=============================================================================
