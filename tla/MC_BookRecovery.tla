--------------------------- MODULE MC_BookRecovery ---------------------------
(* Instances of BookRecovery: one or two markets of one token.              *)
EXTENDS BookRecovery

CONSTANTS u1, u2, a, b

OneToken == << <<u1>> >>

TwoMarkets == << <<u1>>, <<u2>> >>

OneLevel == {a}

TwoLevels == {a, b}

FirstMarket == {1}
=============================================================================
