---------------------------- MODULE MCTaskLedger ----------------------------
(* A small instance of TaskLedger for TLC. *)
EXTENDS TaskLedger, TLC

CONSTANTS p1, p2, t1, t2, l1, todo, c1, n1

TwoProcesses == {p1, p2}

TwoTasks == {t1, t2}

OnePlan == {l1}

TwoStatuses == {todo, Done}

OneNote == {n1}

OneCommit == {c1}

Symmetry == Permutations(TwoProcesses) \cup Permutations(TwoTasks)
=============================================================================
