---------------------------- MODULE MCContextInject ----------------------------
(* An instance of ContextInject for TLC. *)
EXTENDS ContextInject, TLC

CONSTANTS h1, h2, claude, codex, s1, s2

TwoHandlers == {h1, h2}

Symmetric == Permutations(TwoHandlers)

TwoAgents == {claude, codex}

TwoSessions == {s1, s2}

(* More than fits, of every kind; and hardly anything. *)
RichOrPoor ==
    {[rows |-> TRUE, goals |-> <<90, 60>>, findings |-> <<70>>, feedback |-> <<55>>,
      actions |-> <<58, 165>>, tasks |-> <<60, 60, 60>>, guidelines |-> 1600],
     [rows |-> TRUE, goals |-> <<>>, findings |-> <<>>, feedback |-> <<>>,
      actions |-> <<58>>, tasks |-> <<>>, guidelines |-> None]}

(* Two agents work in a session each, one of them on two files. *)
OneEach ==
    {[agent |-> claude, session |-> s1, files |-> <<>>],
     [agent |-> codex, session |-> s2, files |-> <<120, 120>>]}
=============================================================================
