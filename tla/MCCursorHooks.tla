---------------------------- MODULE MCCursorHooks ----------------------------
(* Instances of CursorHooks for TLC. *)
EXTENDS CursorHooks, TLC

CONSTANTS p1, p2, f1

TwoProcesses == {p1, p2}
TwoEdits == {[file |-> f1, n |-> 1, new |-> TRUE], [file |-> f1, n |-> 2, new |-> FALSE]}
=============================================================================
