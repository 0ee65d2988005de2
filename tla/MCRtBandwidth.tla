---------------------------- MODULE MCRtBandwidth ----------------------------
(* Instances of RtBandwidth for TLC. *)
EXTENDS RtBandwidth

Partitions2 == {{{0, 1}}, {{0}, {1}}}
=============================================================================
