-------------------------- MODULE MC_CollectorFeed --------------------------
(* Instances of CollectorFeed: a market that ends and one not listed yet.    *)
EXTENDS CollectorFeed

CONSTANTS m1, m2

TwoMarkets == {m1, m2}
Second == {m2}
First == {m1}
=============================================================================
