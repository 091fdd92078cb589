--------------------------- MODULE MCDiscussionLog ---------------------------
(* Small instances of DiscussionLog for TLC. *)
EXTENDS DiscussionLog, TLC

CONSTANTS p1, p2, s1, blank, unknown, x, y, ok

Hooks == {p1, p2}

OneHook == {p1}

(* A user prompt, an assistant, and a caller that passes no session id. *)
Mixed == {[session |-> s1, role |-> "user", content |-> x],
          [session |-> s1, role |-> "assistant", content |-> y],
          [session |-> blank, role |-> "tool", content |-> y]}

(* Replay does not look at the role of an entry. *)
PromptAndTool == {m \in Mixed : m.role # "assistant"}

OneDeclaration == {[session |-> s1, text |-> y]}

Trivial == {ok}

HookSymmetry == Permutations(Hooks)
=============================================================================
