----------------------------- MODULE MCGroupTree -----------------------------
(* An instance of GroupTree for TLC. *)
EXTENDS GroupTree

\* Half of the CPU, all of it, more than the period, and no period.
Limits == {<<2, 1>>, <<1, 1>>, <<2, 3>>, <<0, 1>>}

\* RUNTIME_INF, as an s64.
MinusOne == -1

AllCases ==
    LET Nothing == <<2, 0>>  Half == <<2, 1>>  All == <<1, 1>>
    IN  {[ops |-> {"rt", "sysctl", "destroy"}, groups |-> 1 .. 1, shares |-> {Nothing, Half, All}],
         [ops |-> {"rt", "sysctl"}, groups |-> 1 .. 2, shares |-> {Nothing, Half, All}],
         [ops |-> {"rt", "destroy"}, groups |-> 1 .. 2, shares |-> {Nothing, Half, All}],
         [ops |-> {"rt", "attach", "destroy"}, groups |-> 1 .. 2, shares |-> {Nothing, <<2, Inf>>}],
         [ops |-> {"cfs", "destroy"}, groups |-> 1 .. 2, shares |-> {Half, All}],
         \* A group without a limit between two that have one.
         [ops |-> {"cfs"}, groups |-> 1 .. 3, shares |-> {Half, All, <<1, Inf>>}]}
=============================================================================
