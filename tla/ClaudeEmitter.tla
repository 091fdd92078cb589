--------------------------- MODULE ClaudeEmitter ----------------------------
(***************************************************************************)
(* proxy/emit_claude.go: normalised events as Anthropic Messages events.   *)
(* Emit and Done run statement by statement: one action writes one         *)
(* server-sent event, in the order of the ifs of the code.  Thinking and   *)
(* text are streamed as blocks; tool calls are held back until Done.       *)
(***************************************************************************)
EXTENDS ResponseStream

Shown == {"thinking", "text", "toolStart"}

StartMessage ==
    /\ Is(Shown)
    /\ ~started
    /\ started' = TRUE
    /\ WriteBegin
    /\ UNCHANGED <<queue, closing, next, thinkIdx, textIdx, calls, said, logged>>

(* Mutant: the index is not taken. *)
OpenThinkingSame ==
    /\ Is({"thinking"}) /\ started
    /\ thinkIdx = None
    /\ thinkIdx' = next
    /\ WriteOpen(next, "thinking", None)
    /\ UNCHANGED <<queue, closing, started, next, textIdx, calls, said, logged>>

OpenThinking ==
    /\ Is({"thinking"}) /\ started
    /\ thinkIdx = None
    /\ thinkIdx' = next
    /\ next' = next + 1
    /\ WriteOpen(next, "thinking", None)
    /\ UNCHANGED <<queue, closing, started, textIdx, calls, said, logged>>

ThinkingDelta ==
    /\ Is({"thinking"}) /\ started
    /\ thinkIdx # None
    /\ WriteDelta(thinkIdx, Event.delta)
    /\ Consume
    /\ UNCHANGED <<closing, emitter, logged>>

(***************************************************************************)
(* A text or a tool call ends the thinking, a tool call also the text, and *)
(* Done both, the text first.  Thinking does not end a text.               *)
(***************************************************************************)
CloseThinking ==
    /\ thinkIdx # None
    /\ \/ Is({"text", "toolStart"}) /\ started
       \/ Ending /\ textIdx = None
    /\ thinkIdx' = None
    /\ WriteStop(thinkIdx, None)
    /\ UNCHANGED <<queue, closing, started, next, textIdx, calls, said, logged>>

CloseText ==
    /\ textIdx # None
    /\ \/ Is({"toolStart"}) /\ started /\ thinkIdx = None
       \/ Ending
    /\ textIdx' = None
    /\ WriteStop(textIdx, None)
    /\ UNCHANGED <<queue, closing, started, next, thinkIdx, calls, said, logged>>

OpenText ==
    /\ Is({"text"}) /\ started
    /\ thinkIdx = None /\ textIdx = None
    /\ textIdx' = next
    /\ next' = next + 1
    /\ WriteOpen(next, "text", None)
    /\ UNCHANGED <<queue, closing, started, thinkIdx, calls, said, logged>>

TextDelta ==
    /\ Is({"text"}) /\ started
    /\ thinkIdx = None /\ textIdx # None
    /\ WriteDelta(textIdx, Event.delta)
    /\ Consume
    /\ UNCHANGED <<closing, emitter, logged>>

(* Mutant: a fragment replaces the arguments instead of adding to them. *)
AccumulatedLast(event) ==
    LET acc == calls[event.index]
    IN  [acc EXCEPT !.id = IF event.id # None THEN event.id ELSE @,
                    !.args = event.delta,
                    !.state = "held"]

(***************************************************************************)
(* The accumulator of the event's index, made when there is none: a later  *)
(* start replaces the id and adds to the arguments.                        *)
(***************************************************************************)
Accumulated(event) ==
    LET acc == calls[event.index]
    IN  [acc EXCEPT !.id = IF event.id # None THEN event.id ELSE @,
                    !.args = @ \o event.delta,
                    !.state = "held"]

HoldCall ==
    /\ Is({"toolStart"}) /\ started
    /\ thinkIdx = None /\ textIdx = None
    /\ calls' = [calls EXCEPT ![Event.index] = Accumulated(Event)]
    /\ Consume
    /\ UNCHANGED <<closing, answer, started, next, thinkIdx, textIdx, said, logged>>

HoldArguments ==
    /\ Is({"toolDelta"})
    /\ calls' = [calls EXCEPT ![Event.index] = Accumulated(Event)]
    /\ Consume
    /\ UNCHANGED <<closing, answer, started, next, thinkIdx, textIdx, said, logged>>

(***************************************************************************)
(* The end of the upstream's answer and an error write nothing: Done does. *)
(***************************************************************************)
PassEnd ==
    /\ Is({"done", "error"})
    /\ Consume
    /\ UNCHANGED <<closing, answer, emitter, logged>>

-----------------------------------------------------------------------------
(* Done, after the open blocks are closed.                                 *)

BlocksClosed == Ending /\ thinkIdx = None /\ textIdx = None

Announcing == \E c \in Indexes : calls[c].state \in {"open", "filled"}

(***************************************************************************)
(* The accumulators are visited in the order of a Go map, which is any.    *)
(***************************************************************************)
OpenCall(c) ==
    /\ BlocksClosed /\ ~Announcing
    /\ calls[c].state = "held"
    /\ next' = next + 1
    /\ calls' = [calls EXCEPT ![c].state = "open", ![c].item = next]
    /\ WriteOpen(next, "call", calls[c].id)
    /\ UNCHANGED <<queue, closing, started, thinkIdx, textIdx, said, logged>>

(***************************************************************************)
(* Arguments that do not begin with '{' are not sent, nor are none.        *)
(***************************************************************************)
Sendable(args) == args # <<>> /\ args \in Braced

CallArguments(c) ==
    /\ BlocksClosed
    /\ calls[c].state = "open"
    /\ Sendable(calls[c].args)
    /\ calls' = [calls EXCEPT ![c].state = "filled"]
    /\ WriteDelta(calls[c].item, calls[c].args)
    /\ UNCHANGED <<queue, closing, started, next, thinkIdx, textIdx, said, logged>>

CloseCall(c) ==
    /\ BlocksClosed
    /\ \/ calls[c].state = "filled"
       \/ calls[c].state = "open" /\ ~Sendable(calls[c].args)
    /\ calls' = [calls EXCEPT ![c].state = "sent"]
    /\ WriteStop(calls[c].item, None)
    /\ UNCHANGED <<queue, closing, started, next, thinkIdx, textIdx, said, logged>>

StopReason(reason) ==
    CASE reason = "length" -> "max_tokens"
      [] reason = "tool_calls" -> "tool_use"
      [] reason = "error" -> "error"
      [] OTHER -> "end_turn"

MessageStop ==
    /\ BlocksClosed
    /\ \A c \in Indexes : calls[c].state \in {"absent", "sent"}
    /\ WriteEnd(StopReason(closing))
    /\ UNCHANGED <<queue, closing, emitter, logged>>

Emit ==
    \/ StartMessage \/ OpenThinking \/ ThinkingDelta \/ OpenText \/ TextDelta
    \/ HoldCall \/ HoldArguments \/ PassEnd

Done ==
    \/ MessageStop
    \/ \E c \in Indexes : OpenCall(c) \/ CallArguments(c) \/ CloseCall(c)

Step == Emit \/ CloseThinking \/ CloseText \/ Done
=============================================================================
