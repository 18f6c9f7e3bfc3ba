--------------------------- MODULE MC_CompoundRun ---------------------------
(* Two adjacent episodes: the first may settle after the second has begun.   *)
EXTENDS CompoundRun

MCEpisodes ==
  << [start |-> 0, entryTo |-> 1, end |-> 3, settles |-> 4],
     [start |-> 3, entryTo |-> 5, end |-> 6, settles |-> 7] >>
=============================================================================
