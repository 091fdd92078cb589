--------------------------- MODULE GeminiEmitter ----------------------------
(***************************************************************************)
(* proxy/emit_gemini.go: normalised events as Gemini chunks.  A chunk is   *)
(* complete in itself: thinking and text go out as they come, the tool     *)
(* calls together in one chunk when the stream ends.                       *)
(***************************************************************************)
EXTENDS ResponseStream, FiniteSets

Part(kind, content, id) ==
    [kind |-> kind, open |-> FALSE, content |-> content, whole |-> None, id |-> id]

WriteChunk(parts) ==
    answer' = [answer EXCEPT !.phase = "live", !.items = @ \o parts]

Chunk ==
    /\ Is({"thinking", "text"})
    /\ WriteChunk(<<Part(Event.type, Event.delta, None)>>)
    /\ Consume
    /\ UNCHANGED <<closing, emitter, logged>>

(***************************************************************************)
(* A start sets id and name to what it carries, a delta leaves them.       *)
(***************************************************************************)
Accumulated(event) ==
    LET acc == calls[event.index]
    IN  [acc EXCEPT !.id = IF event.type = "toolStart" THEN event.id ELSE @,
                    !.args = @ \o event.delta,
                    !.state = "held"]

HoldCall ==
    /\ Is({"toolStart", "toolDelta"})
    /\ calls' = [calls EXCEPT ![Event.index] = Accumulated(Event)]
    /\ Consume
    /\ UNCHANGED <<closing, answer, started, next, thinkIdx, textIdx, said, logged>>

PassEnd ==
    /\ Is({"done", "error"})
    /\ Consume
    /\ UNCHANGED <<closing, answer, emitter, logged>>

Held == {c \in Indexes : calls[c].state = "held"}

(***************************************************************************)
(* Arguments that json.Unmarshal refuses become none at all: Done ignores  *)
(* its error.                                                              *)
(***************************************************************************)
Unmarshalled(args) == IF args \in Objects THEN args ELSE <<>>

(***************************************************************************)
(* Done: first the calls that were held, in the order of a Go map.         *)
(***************************************************************************)
FlushCalls ==
    /\ Ending
    /\ Held # {}
    /\ \E order \in [1..Cardinality(Held) -> Held] :
          /\ \A c \in Held : \E i \in DOMAIN order : order[i] = c
          /\ WriteChunk([i \in DOMAIN order |->
                            Part("call", Unmarshalled(calls[order[i]].args),
                                         calls[order[i]].id)])
    /\ calls' = [c \in Indexes |-> IF c \in Held THEN [calls[c] EXCEPT !.state = "sent"]
                                                 ELSE calls[c]]
    /\ UNCHANGED <<queue, closing, started, next, thinkIdx, textIdx, said, logged>>

LastChunk ==
    /\ Ending
    /\ Held = {}
    /\ WriteEnd(closing)
    /\ UNCHANGED <<queue, closing, emitter, logged>>

Step == Chunk \/ HoldCall \/ PassEnd \/ FlushCalls \/ LastChunk
=============================================================================
