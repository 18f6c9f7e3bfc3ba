---------------------------- MODULE WalletClient ----------------------------
(***************************************************************************)
(* ReplayWallet under a free caller: any public method at any time that is *)
(* not in the past.  What holds here holds for every user of the wallet.   *)
(***************************************************************************)
EXTENDS ReplayWallet

CONSTANTS Times, Amounts,
          MaxCredits,   \* bounds: credits scheduled,
          MaxCash       \*   cash put in

ASSUME ClientAssumption ==
  Times \subseteq Nat /\ Amounts \subseteq Nat /\ MaxCredits \in Nat /\ MaxCash \in Nat

PutsIn(t, amount) ==
  /\ ledger + amount <= MaxCash
  /\ \/ Call("credit", t, amount)
     \/ sequence < MaxCredits /\ ScheduleCredit(t, amount)

TakesOut(t, amount) == Call("debit", t, amount)

Waits(t) == Call("advance", t, 0)

Next ==
  \/ \E t \in Times, amount \in Amounts : PutsIn(t, amount) \/ TakesOut(t, amount)
  \/ \E t \in Times : Waits(t)
  \/ ReleaseAll
  \/ WalletStep

Spec == WalletInit /\ [][Next]_wallet
=============================================================================
