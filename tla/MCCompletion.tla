---------------------------- MODULE MCCompletion ----------------------------
(* Instances of Completion for TLC. *)
EXTENDS Completion

\* wait_for_completion, _timeout, and _interruptible_timeout.
ThreeCalls == {[mode |-> "uninterruptible", timed |-> FALSE], [mode |-> "uninterruptible", timed |-> TRUE],
               [mode |-> "interruptible", timed |-> TRUE]}
TwoCalls == {[mode |-> "killable", timed |-> FALSE], [mode |-> "interruptible", timed |-> TRUE]}
=============================================================================
