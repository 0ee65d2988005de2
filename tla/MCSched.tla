-------------------------------- MODULE MCSched --------------------------------
(* Instances of SchedCore for TLC: the threads a run starts with. *)
EXTENDS SchedProps, TLC

CONSTANTS t1, t2, t3

Two   == {t1, t2}
Three == {t1, t2, t3}

\* Weighted round-robin threads at the two lowest priorities, one in each group.
WrrBoot   == {<<"WRR", 0, "fg">>, <<"WRR", 1, "bg">>}
\* A thread in the class, and one that may enter it.
EntryBoot == {<<"WRR", 1, "bg">>, <<"NORMAL", 0, "fg">>}

Symmetry2 == Permutations(Two)
=============================================================================
