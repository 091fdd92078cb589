--------------------------- MODULE StreamProtocol ---------------------------
(***************************************************************************)
(* What a coding agent may rely on while the proxy streams an answer to    *)
(* it, whichever protocol the agent speaks.  An answer is a list of items  *)
(* (the thinking, a text, a tool call).  Items are numbered in the order   *)
(* in which they appear, grow only while they are open, are never touched  *)
(* once closed, and no item is left open when the answer is over; nothing  *)
(* follows the end.  Of thinking and of text there is at most one open     *)
(* item at a time.                                                         *)
(*                                                                         *)
(* ProxyStream implements this specification.                              *)
(***************************************************************************)
EXTENDS Naturals, Sequences

VARIABLE answer  \* [phase, items, reason]; an item is [kind, open, content, whole]

Phases == {"waiting", "live", "over"}

Open(i) == answer.items[i].open

Init ==
    /\ answer.phase = "waiting"
    /\ answer.items = <<>>

(***************************************************************************)
(* The answer that differs from the present one in its items only.         *)
(***************************************************************************)
OnlyItems == answer' = [answer EXCEPT !.items = answer'.items]

Begin ==
    /\ answer.phase = "waiting"
    /\ answer' = [answer EXCEPT !.phase = "live"]

NewItem ==
    LET n == Len(answer.items) + 1
        item == answer'.items[n]
    IN  /\ answer.phase = "live"
        /\ OnlyItems
        /\ Len(answer'.items) = n
        /\ answer'.items = Append(answer.items, item)
        /\ item.open
        /\ item.content = <<>>
        /\ item.kind # "call" =>
               \A i \in DOMAIN answer.items :
                   answer.items[i].kind = item.kind => ~Open(i)

Extend ==
    \E i \in DOMAIN answer.items :
        LET old == answer.items[i].content
            new == answer'.items[i].content
        IN  /\ answer.phase = "live"
            /\ Open(i)
            /\ answer' = [answer EXCEPT !.items[i].content = new]
            /\ Len(old) < Len(new)
            /\ old = SubSeq(new, 1, Len(old))

Close ==
    \E i \in DOMAIN answer.items :
        /\ answer.phase = "live"
        /\ Open(i)
        /\ answer' = [answer EXCEPT !.items[i].open = FALSE,
                                    !.items[i].whole = answer'.items[i].whole]

(***************************************************************************)
(* Items that arrive complete, in one chunk.                               *)
(***************************************************************************)
Deliver ==
    LET n == Len(answer.items)
    IN  /\ answer.phase # "over"
        /\ answer' = [answer EXCEPT !.phase = "live", !.items = answer'.items]
        /\ Len(answer'.items) > n
        /\ answer.items = SubSeq(answer'.items, 1, n)
        /\ \A i \in DOMAIN answer'.items : i > n => ~answer'.items[i].open

(***************************************************************************)
(* An answer may end without having begun: an upstream that sends nothing. *)
(***************************************************************************)
Finish ==
    /\ answer.phase # "over"
    /\ \A i \in DOMAIN answer.items : ~Open(i)
    /\ answer' = [answer EXCEPT !.phase = "over", !.reason = answer'.reason]

Next == Begin \/ NewItem \/ Extend \/ Close \/ Deliver \/ Finish

Spec == Init /\ [][Next]_answer
=============================================================================
