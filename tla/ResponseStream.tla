--------------------------- MODULE ResponseStream ---------------------------
(***************************************************************************)
(* What handleUnifiedStream (proxy/proxy.go) and the emitter of the        *)
(* agent's protocol share while one answer is streamed: the normalised     *)
(* events that wait for the emitter, the reason the handler ended the      *)
(* stream with, the emitter's own fields, and the answer as its client has *)
(* read it so far.  Every write is flushed at once, so the answer changes  *)
(* by one server-sent event at a time.                                     *)
(***************************************************************************)
EXTENDS Naturals, Sequences

CONSTANTS
    None,     \* no index, no id, no reason
    Indexes,  \* the indexes of tool calls
    Objects,  \* the arguments that are a JSON object when their fragments are joined
    Braced    \* the arguments whose first byte is '{'

VARIABLES
    queue,     \* normalised events the emitter has not consumed
    closing,   \* the reason emitter.Done was called with, None before
    answer,    \* what the client has read: [phase, items, reason]
    started,   \* messageStarted, started
    next,      \* nextBlockIndex, outputIndex
    thinkIdx,  \* index of the thinking item, None when there is none
    textIdx,   \* index of the text item, None when there is none
    calls,     \* toolAcc, pendingToolCalls: for every index an accumulator
    said,      \* CodexEmitter's accumulatedText
    logged     \* what Done saved to discussion_log, None before

emitter == <<started, next, thinkIdx, textIdx, calls, said>>

(***************************************************************************)
(* An accumulator: the call's id, its arguments so far, the item it is     *)
(* announced as, the part of the arguments that item still waits for and   *)
(* how far its item is.                                                    *)
(***************************************************************************)
NoCall == [id |-> None, args |-> <<>>, item |-> None, owed |-> <<>>, state |-> "absent"]

Present(c) == calls[c].state # "absent"

InitResponse ==
    /\ queue = <<>>
    /\ closing = None
    /\ answer = [phase |-> "waiting", items |-> <<>>, reason |-> None]
    /\ started = FALSE
    /\ next = 0
    /\ thinkIdx = None
    /\ textIdx = None
    /\ calls = [c \in Indexes |-> NoCall]
    /\ said = <<>>
    /\ logged = None

-----------------------------------------------------------------------------
(* The events and what the client makes of them.                           *)

Ready == queue # <<>>

Event == Head(queue)

Is(types) == Ready /\ Event.type \in types

Consume == queue' = Tail(queue)

(***************************************************************************)
(* Done runs when the handler has given the emitter every event.           *)
(***************************************************************************)
Ending == closing # None /\ ~Ready /\ answer.phase # "over"

WriteBegin == answer' = [answer EXCEPT !.phase = "live"]

(***************************************************************************)
(* Items carry the number the emitter gave them, counted from 0.           *)
(***************************************************************************)
WriteOpen(index, kind, id) ==
    LET item == [kind |-> kind, open |-> TRUE, content |-> <<>>, whole |-> None, id |-> id]
    IN  answer' = [answer EXCEPT !.items =
            IF index \in 0..(Len(@) - 1) THEN [@ EXCEPT ![index + 1] = item]
                                         ELSE Append(@, item)]

WriteDelta(index, delta) ==
    answer' = [answer EXCEPT !.items[index + 1].content = @ \o delta]

WriteStop(index, whole) ==
    answer' = [answer EXCEPT !.items[index + 1].open = FALSE,
                             !.items[index + 1].whole = whole]

WriteEnd(reason) ==
    answer' = [answer EXCEPT !.phase = "over", !.reason = reason]
=============================================================================
