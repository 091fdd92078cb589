--------------------------- MODULE MCSessionPipeline ---------------------------
(* An instance of SessionPipeline for TLC. *)
EXTENDS SessionPipeline, TLC

CONSTANTS serve, cli, s1, s2, c1, c2, f1, f2, f3

DaemonAndCLI == {serve, cli}

Daemon == {serve}

TwoSessions == {s1, s2}

(* Two sessions the user spoke in, at the same instant. *)
TwoTalks == {<<[kind |-> "user", session |-> s1, at |-> 1, files |-> {}],
               [kind |-> "user", session |-> s2, at |-> 1, files |-> {}]>>}

(* An edit that belongs to the first commit, and perhaps to the second. *)
CallOrEdit == {[kind |-> "mcp", session |-> Unknown, files |-> {}],
               [kind |-> "tool", session |-> s1, files |-> {f1, f2}]}

WithModel == {TRUE}

TwoCommits == {c1, c2}

ThreeFiles == {f1, f2, f3}

Overlapping == [c \in Commits |-> IF c = c1 THEN {f1, f2} ELSE {f1, f3}]

NameAll == {Files}
=============================================================================
