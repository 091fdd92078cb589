---------------------------- MODULE CodexEmitter ----------------------------
(***************************************************************************)
(* proxy/emit_codex.go: normalised events as events of the Responses       *)
(* protocol.  There is at most one reasoning item and one message item per *)
(* answer; a tool call is announced as soon as it has an id or a name, and *)
(* every item is completed in Done, which carries its whole content.       *)
(***************************************************************************)
EXTENDS ResponseStream

CONSTANT SessionID  \* the request's session_id, None when it carries none

Shown == {"thinking", "text", "toolStart"}

StartResponse ==
    /\ Is(Shown)
    /\ ~started
    /\ started' = TRUE
    /\ WriteBegin
    /\ UNCHANGED <<queue, closing, next, thinkIdx, textIdx, calls, said, logged>>

AddReasoning ==
    /\ Is({"thinking"}) /\ started
    /\ thinkIdx = None
    /\ thinkIdx' = next
    /\ next' = next + 1
    /\ WriteOpen(next, "thinking", None)
    /\ UNCHANGED <<queue, closing, started, textIdx, calls, said, logged>>

ReasoningDelta ==
    /\ Is({"thinking"}) /\ started
    /\ thinkIdx # None
    /\ WriteDelta(thinkIdx, Event.delta)
    /\ Consume
    /\ UNCHANGED <<closing, emitter, logged>>

(***************************************************************************)
(* The message item: added with its content part, then extended.           *)
(***************************************************************************)
AddText ==
    /\ Is({"text"}) /\ started
    /\ textIdx = None
    /\ textIdx' = next
    /\ next' = next + 1
    /\ WriteOpen(next, "text", None)
    /\ UNCHANGED <<queue, closing, started, thinkIdx, calls, said, logged>>

(* Mutant: only the last delta is kept for the completed item and the log. *)
OutputTextDeltaLast ==
    /\ Is({"text"}) /\ started
    /\ textIdx # None
    /\ said' = Event.delta
    /\ WriteDelta(textIdx, Event.delta)
    /\ Consume
    /\ UNCHANGED <<closing, started, next, thinkIdx, textIdx, calls, logged>>

OutputTextDelta ==
    /\ Is({"text"}) /\ started
    /\ textIdx # None
    /\ said' = said \o Event.delta
    /\ WriteDelta(textIdx, Event.delta)
    /\ Consume
    /\ UNCHANGED <<closing, started, next, thinkIdx, textIdx, calls, logged>>

Accumulated(event) ==
    LET acc == calls[event.index]
    IN  [acc EXCEPT !.id = IF event.id # None THEN event.id ELSE @,
                    !.args = @ \o event.delta,
                    !.state = IF @ = "absent" THEN "held" ELSE @]

(***************************************************************************)
(* The first start of a call announces it.  The fragment the start carries *)
(* follows in an event of its own.                                         *)
(***************************************************************************)
AddCall ==
    LET c == Event.index
        acc == Accumulated(Event)
    IN  /\ Is({"toolStart"}) /\ started
        /\ calls[c].owed = <<>>
        /\ calls[c].item = None
        /\ acc.id # None
        /\ next' = next + 1
        /\ calls' = [calls EXCEPT ![c] = [acc EXCEPT !.item = next, !.state = "open",
                                                      !.owed = Event.delta]]
        /\ WriteOpen(next, "call", acc.id)
        /\ IF Event.delta = <<>> THEN Consume ELSE UNCHANGED queue
        /\ UNCHANGED <<closing, started, thinkIdx, textIdx, said, logged>>

FirstArguments ==
    LET c == Event.index
    IN  /\ Is({"toolStart"}) /\ started
        /\ calls[c].owed # <<>>
        /\ WriteDelta(calls[c].item, calls[c].owed)
        /\ calls' = [calls EXCEPT ![c].owed = <<>>]
        /\ Consume
        /\ UNCHANGED <<closing, started, next, thinkIdx, textIdx, said, logged>>

(***************************************************************************)
(* Another start for an index that is announced already: its arguments are *)
(* accumulated and not sent.                                               *)
(***************************************************************************)
RepeatedStart ==
    LET c == Event.index
    IN  /\ Is({"toolStart"}) /\ started
        /\ calls[c].owed = <<>>
        /\ calls[c].item # None
        /\ calls' = [calls EXCEPT ![c] = Accumulated(Event)]
        /\ Consume
        /\ UNCHANGED <<closing, answer, started, next, thinkIdx, textIdx, said, logged>>

ArgumentsDelta ==
    LET c == Event.index
    IN  /\ Is({"toolDelta"})
        /\ calls' = [calls EXCEPT ![c] = Accumulated(Event)]
        /\ IF calls[c].item # None /\ Event.delta # <<>>
           THEN WriteDelta(calls[c].item, Event.delta)
           ELSE UNCHANGED answer
        /\ Consume
        /\ UNCHANGED <<closing, started, next, thinkIdx, textIdx, said, logged>>

PassEnd ==
    /\ Is({"done", "error"})
    /\ Consume
    /\ UNCHANGED <<closing, answer, emitter, logged>>

-----------------------------------------------------------------------------
(* Done completes what was announced: the reasoning, the text, and the     *)
(* calls in the order of a Go map.                                         *)

LogDiscussion ==
    /\ Ending
    /\ logged = None /\ SessionID # None /\ said # <<>>
    /\ logged' = said
    /\ UNCHANGED <<queue, closing, answer, emitter>>

Logged == Ending /\ (SessionID # None /\ said # <<>> => logged # None)

ReasoningDone ==
    /\ Logged
    /\ thinkIdx # None
    /\ thinkIdx' = None
    /\ WriteStop(thinkIdx, None)
    /\ UNCHANGED <<queue, closing, started, next, textIdx, calls, said, logged>>

TextDone ==
    /\ Logged
    /\ thinkIdx = None /\ textIdx # None
    /\ textIdx' = None
    /\ WriteStop(textIdx, said)
    /\ UNCHANGED <<queue, closing, started, next, thinkIdx, calls, said, logged>>

CallDone(c) ==
    /\ Logged
    /\ thinkIdx = None /\ textIdx = None
    /\ calls[c].state = "open"
    /\ calls' = [calls EXCEPT ![c].state = "sent"]
    /\ WriteStop(calls[c].item, calls[c].args)
    /\ UNCHANGED <<queue, closing, started, next, thinkIdx, textIdx, said, logged>>

Status(reason) ==
    CASE reason = "length" -> "incomplete"
      [] reason = "error" -> "failed"
      [] OTHER -> "completed"

ResponseCompleted ==
    /\ Logged
    /\ thinkIdx = None /\ textIdx = None
    /\ \A c \in Indexes : calls[c].state # "open"
    /\ WriteEnd(Status(closing))
    /\ UNCHANGED <<queue, closing, emitter, logged>>

Emit ==
    \/ StartResponse \/ AddReasoning \/ ReasoningDelta \/ AddText \/ OutputTextDelta
    \/ AddCall \/ FirstArguments \/ RepeatedStart \/ ArgumentsDelta \/ PassEnd

Done ==
    \/ LogDiscussion \/ ReasoningDone \/ TextDone \/ ResponseCompleted
    \/ \E c \in Indexes : CallDone(c)

Step == Emit \/ Done
=============================================================================
