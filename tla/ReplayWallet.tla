---------------------------- MODULE ReplayWallet ----------------------------
(***************************************************************************)
(* ReplayWallet (backtest/wallet.py): the cash of a replayed account, with *)
(* credits that become spendable at a later time.  debit and credit first  *)
(* run advance_to, whose loop pops the heap of pending credits one by one: *)
(* a call in progress and each pop are states of their own, so that what   *)
(* the loop relies on is visible.                                          *)
(*                                                                         *)
(* The list of WalletEvents is represented by the time of its last entry.  *)
(* A call with a negative amount or a past time raises and changes nothing:*)
(* it is no step.                                                          *)
(***************************************************************************)
EXTENDS Integers, FiniteSets, Functions

CONSTANTS StartCash, StartTime

ASSUME WalletAssumption == StartCash \in Nat /\ StartTime \in Nat

VARIABLES
  now,        \* _now
  available,  \* _available
  pending,    \* _pending: credits [at, seq, amount], seq the push counter
  sequence,   \* _sequence
  call,       \* the method in progress, NoCall when none is
  lastEvent,  \* timestamp of the newest entry of events
  ledger      \* all cash put in minus all taken out, due or not

wallet == <<now, available, pending, sequence, call, lastEvent, ledger>>

NoCall == [op |-> "none"]

WalletInit ==
  /\ now = StartTime /\ available = StartCash
  /\ pending = {} /\ sequence = 0
  /\ call = NoCall /\ lastEvent = StartTime
  /\ ledger = StartCash

\* What the given credits are worth.
Worth(credits) == SumFunctionOnSet([c \in credits |-> c.amount], credits)

PendingCash == Worth(pending)

TotalEquity == available + PendingCash

Due(t) == {c \in pending : c.at <= t}

\* Faulty variant: credits count before they are due.
PeekEverything(t) == available + PendingCash

\* peek_available_at, for t not before now.
PeekAvailableAt(t) == available + Worth(Due(t))

-----------------------------------------------------------------------------
(* advance_to, debit and credit *)

Call(op, t, amount) ==
  /\ call = NoCall
  /\ t >= now
  /\ call' = [op |-> op, at |-> t, amount |-> amount]
  /\ UNCHANGED <<now, available, pending, sequence, lastEvent, ledger>>

\* The heap orders by time, then by push order.
Precedes(c, d) == c.at < d.at \/ (c.at = d.at /\ c.seq < d.seq)

\* Faulty variant: the list is not kept in heap order.
IsAny(c) == c \in pending

IsFirst(c) == c \in pending /\ \A d \in pending \ {c} : Precedes(c, d)

\* Faulty variant: the popped credit is not added.
ReleaseForgetting(c) ==
  /\ call # NoCall
  /\ IsFirst(c)
  /\ c.at <= call.at
  /\ pending' = pending \ {c}
  /\ lastEvent' = c.at
  /\ UNCHANGED <<now, available, sequence, call, ledger>>

\* One turn of the loop.
Release(c) ==
  /\ call # NoCall
  /\ IsFirst(c)
  /\ c.at <= call.at
  /\ available' = available + c.amount
  /\ pending' = pending \ {c}
  /\ lastEvent' = c.at
  /\ UNCHANGED <<now, sequence, call, ledger>>

\* The first credit, and so every credit, is not due: the loop stops.
LoopIsDone == call # NoCall /\ \A c \in pending : c.at > call.at

\* advance_to is through: time has moved and the caller goes on.
AdvanceReturns ==
  /\ LoopIsDone
  /\ now' = call.at
  /\ call' = NoCall

Advanced ==
  /\ AdvanceReturns
  /\ call.op = "advance"
  /\ UNCHANGED <<available, pending, sequence, lastEvent, ledger>>

Debited ==
  /\ AdvanceReturns
  /\ call.op = "debit"
  /\ call.amount <= available
  /\ available' = available - call.amount
  /\ ledger' = ledger - call.amount
  /\ lastEvent' = call.at
  /\ UNCHANGED <<pending, sequence>>

\* InsufficientReplayCash: time has moved and credits were released.
DebitRaises ==
  /\ AdvanceReturns
  /\ call.op = "debit"
  /\ call.amount > available
  /\ UNCHANGED <<available, pending, sequence, lastEvent, ledger>>

Credited ==
  /\ AdvanceReturns
  /\ call.op = "credit"
  /\ available' = available + call.amount
  /\ ledger' = ledger + call.amount
  /\ lastEvent' = call.at
  /\ UNCHANGED <<pending, sequence>>

-----------------------------------------------------------------------------
(* schedule_credit and release_all *)

PutInNow(amount) ==
  /\ available' = available + amount
  /\ lastEvent' = now
  /\ UNCHANGED <<pending, sequence>>

PutAside(t, amount) ==
  /\ sequence' = sequence + 1
  /\ pending' = pending \cup {[at |-> t, seq |-> sequence + 1, amount |-> amount]}
  /\ UNCHANGED <<available, lastEvent>>

\* Faulty variant: a credit is spendable as soon as it is known.
ScheduleCreditNow(t, amount) ==
  /\ call = NoCall
  /\ amount > 0
  /\ PutInNow(amount)
  /\ ledger' = ledger + amount
  /\ UNCHANGED <<now, call>>

\* Faulty variant: a credit due now is put aside like a later one.
ScheduleCreditAlways(t, amount) ==
  /\ call = NoCall
  /\ amount > 0
  /\ PutAside(t, amount)
  /\ ledger' = ledger + amount
  /\ UNCHANGED <<now, call>>

\* A zero credit returns at once: no step.
ScheduleCredit(t, amount) ==
  /\ call = NoCall
  /\ amount > 0
  /\ IF t <= now THEN PutInNow(amount) ELSE PutAside(t, amount)
  /\ ledger' = ledger + amount
  /\ UNCHANGED <<now, call>>

\* release_all advances to the latest due time.
ReleaseAll ==
  \E c \in pending :
    /\ \A d \in pending : d.at <= c.at
    /\ Call("advance", c.at, 0)

\* What a started call does until it returns.
WalletStep ==
  \/ \E c \in pending : Release(c)
  \/ Advanced \/ Debited \/ DebitRaises \/ Credited

-----------------------------------------------------------------------------
(* Any use of the wallet by one caller *)

WalletNext ==
  \/ \E t, amount \in Nat :
       \/ \E op \in {"advance", "debit", "credit"} : Call(op, t, amount)
       \/ ScheduleCredit(t, amount)
  \/ WalletStep

WalletSpec == WalletInit /\ [][WalletNext]_wallet

-----------------------------------------------------------------------------
(* Properties *)

Credit == [at : Nat, seq : Nat, amount : Nat]

\* Cash is a natural number: no order of calls overdraws it.
WalletTypeOK ==
  /\ now \in Nat /\ available \in Nat /\ ledger \in Int
  /\ pending \subseteq Credit /\ sequence \in Nat
  /\ call \in {NoCall} \cup [op : {"advance", "debit", "credit"}, at : Nat, amount : Nat]
  /\ lastEvent \in Nat

\* Between calls every pending credit lies in the future: nothing due is left
\* unreleased, whatever the order in which credits were scheduled (wallet.py,
\* advance_to and schedule_credit).
PendingLiesAhead ==
  call = NoCall => \A c \in pending : c.at > now

\* Cash is neither made nor lost between the spendable and the pending part,
\* in the middle of the release loop too, and after a refused debit.
CashIsConserved == TotalEquity = ledger

\* The events are in order of their timestamps and never ahead of wallet time
\* once a call has returned, although releases are stamped with their due time
\* and other entries with the time of the call (wallet.py, advance_to).
EventsInOrder ==
  [][/\ lastEvent' >= lastEvent
     /\ call' = NoCall => lastEvent' <= now']_wallet
=============================================================================
