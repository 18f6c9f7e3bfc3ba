------------------------------- MODULE Ranking -------------------------------
(***************************************************************************)
(* Sorting: the order that the code gives to finitely many elements.       *)
(***************************************************************************)
EXTENDS Naturals, FiniteSets

\* The elements of a finite set in order, from what comes before each.
Ranked(before) ==
  [k \in 1 .. Cardinality(DOMAIN before) |->
     CHOOSE e \in DOMAIN before : Cardinality(before[e]) = k - 1]

=============================================================================
