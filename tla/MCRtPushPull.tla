---------------------------- MODULE MCRtPushPull ----------------------------
(***************************************************************************)
(* RtPushPull on two CPUs.  Threads are alike but for their state.         *)
(***************************************************************************)
EXTENDS RtPushPull, TLC

Alike == Permutations(Thread)
=============================================================================
