------------------------------ MODULE MCWrrGroup ------------------------------
(* An instance of WrrGroup for TLC: a foreground group, and a background     *)
(* group inside it.                                                          *)
EXTENDS WrrGroup

CONSTANTS p1, p2, p3, fg, bg

TwoGroups  == {fg, bg}
Nested     == (fg :> Root) @@ (bg :> fg)
\* A thread in each group and one to be forked: both at the level picked first,
\* or that level and the last one, or two levels with none at the first.
MixedBoots ==
    {(p1 :> <<fg, b[1]>>) @@ (p2 :> <<bg, b[2]>>) @@ (p3 :> <<>>) :
        b \in {<<0, 0>>, <<0, 2>>, <<1, 2>>}}
Threads    == {p1, p2, p3}
=============================================================================
