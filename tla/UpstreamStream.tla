--------------------------- MODULE UpstreamStream ---------------------------
(***************************************************************************)
(* The upstream half of handleUnifiedStream: parseUpstreamSSE turns each   *)
(* line of the upstream's body into events, StreamNormalizer repairs what  *)
(* models put into their text, and the handler passes the result to the    *)
(* emitter (proxy/unified.go, proxy/normalize.go, proxy/proxy.go).         *)
(*                                                                         *)
(* The parser is a goroutine behind a channel of 16 events.  The channel   *)
(* keeps their order and the handler empties it before it ends, so the     *)
(* parser running ahead shows nowhere: a line is read when the events of   *)
(* the line before it are handled.                                         *)
(*                                                                         *)
(* A text is a sequence of tokens [tag, n]; n is the line it came in.      *)
(*   word       text that does not start with '<'                          *)
(*   angle      text that starts with '<' and holds no markup              *)
(*   thinkOpen  <think> or <|channel>thought                               *)
(*   thinkClose </think> or <channel|>                                     *)
(*   callOpen   <|tool_call>call:name{...}                                 *)
(*   callClose  <tool_call|>                                               *)
(***************************************************************************)
EXTENDS ResponseStream, FiniteSets, SequencesExt

CONSTANTS
    Chunks,       \* what a line may carry: [reasoning, content, call]
    Reasons,      \* finish reasons an upstream gives, "" when it gives none
    ReasoningCap, \* maxReasoningBuf
    BufferCap,    \* the 3000 bytes after which the text buffer is flushed
    MaxLines      \* bound: lines before the end of the body

TextTags == {"word", "angle", "thinkOpen", "thinkClose", "callOpen", "callClose"}

(***************************************************************************)
(* A call found in a text stands between two tokens, an opening and a      *)
(* closing one, so that a text of n tokens holds at most n / 2 of them.    *)
(***************************************************************************)
ASSUME UpstreamAssumption ==
    /\ None \notin Nat
    /\ Indexes \subseteq Nat /\ IsFiniteSet(Indexes)
    /\ ReasoningCap \in Nat /\ BufferCap \in Nat /\ MaxLines \in Nat
    /\ \A chunk \in Chunks :
           /\ chunk.reasoning \in Nat /\ chunk.content \in Seq(TextTags)
           /\ chunk.call # None => chunk.call \in Indexes \X Nat
    /\ \A size \in {0} \cup {Len(chunk.content) : chunk \in Chunks} :
           \A i \in 0 .. BufferCap + size :
              2 * (i + 1) <= BufferCap + size => i \in Indexes

VARIABLES
    body,         \* "open", "done" after [DONE]; then "complete", else "cut"
    lines,        \* lines read so far
    chan,         \* parsed events the handler has not taken
    seenIndexes,  \* seenToolIndices
    finish,       \* the handler's finishReason
    reasoningBuf, \* StreamNormalizer.ReasoningBuf
    hasContent,   \* StreamNormalizer.HasContent
    thinkBuf,     \* StreamNormalizer.ThinkBuf
    crashed,      \* the handler panicked or does not come back from a loop
    heard,        \* history: every text token the upstream sent
    thought,      \* history: every reasoning token the upstream sent
    asked,        \* history: for every native call, the fragments sent
    valve         \* history: the text buffer was flushed for its size

normalizer == <<reasoningBuf, hasContent, thinkBuf>>
parser == <<body, lines, chan, seenIndexes>>
history == <<heard, thought, asked, valve>>
upstream == <<parser, normalizer, finish, crashed, history>>

InitUpstream ==
    /\ body = "open" /\ lines = 0 /\ chan = <<>> /\ seenIndexes = {}
    /\ finish = "" /\ crashed = FALSE
    /\ reasoningBuf = <<>> /\ hasContent = FALSE /\ thinkBuf = <<>>
    /\ heard = <<>> /\ thought = <<>> /\ valve = FALSE
    /\ asked = [c \in Indexes |-> 0]

-----------------------------------------------------------------------------
(* Events.                                                                 *)

CallEvent(type, delta, index, id) ==
    [type |-> type, delta |-> delta, index |-> index, id |-> id, reason |-> None]

Delta(type, delta) == CallEvent(type, delta, None, None)

End(type, reason) == [Delta(type, <<>>) EXCEPT !.reason = reason]

-----------------------------------------------------------------------------
(* The parser.                                                             *)

Drained == chan = <<>> /\ ~Ready /\ closing = None /\ ~crashed

(***************************************************************************)
(* The upstream names a call in the first chunk of its index only.         *)
(***************************************************************************)
Native(index) == [tag |-> "native", n |-> index]

CallEvents(index, size) ==
    LET args == [i \in 1..size |-> Native(index)]
    IN  IF index \notin seenIndexes
        THEN <<CallEvent("toolStart", args, index, Native(index))>>
        ELSE IF args # <<>> THEN <<CallEvent("toolDelta", args, index, None)>>
                            ELSE <<>>

Tokens(tags) == [i \in DOMAIN tags |-> [tag |-> tags[i], n |-> lines]]

Thoughts(size) == [i \in 1..size |-> [tag |-> "thought", n |-> lines]]

ReadChunk(chunk) ==
    LET thoughts == Thoughts(chunk.reasoning)
        content == Tokens(chunk.content)
    IN  /\ Drained
        /\ body = "open" /\ lines < MaxLines
        /\ lines' = lines + 1
        /\ chan' = (IF thoughts # <<>> THEN <<Delta("thinking", thoughts)>> ELSE <<>>)
                   \o (IF content # <<>> THEN <<Delta("text", content)>> ELSE <<>>)
                   \o (IF chunk.call # None THEN CallEvents(chunk.call[1], chunk.call[2])
                                            ELSE <<>>)
        /\ seenIndexes' = IF chunk.call # None THEN seenIndexes \cup {chunk.call[1]}
                                               ELSE seenIndexes
        /\ heard' = heard \o content
        /\ thought' = thought \o thoughts
        /\ asked' = IF chunk.call # None
                    THEN [asked EXCEPT ![chunk.call[1]] = @ + chunk.call[2]]
                    ELSE asked
        /\ UNCHANGED <<body, normalizer, finish, crashed, valve>>

(***************************************************************************)
(* [DONE], with the finish reason the last chunk gave.                     *)
(***************************************************************************)
ReadDone(reason) ==
    /\ Drained
    /\ body = "open"
    /\ body' = "done"
    /\ chan' = <<End("done", reason)>>
    /\ UNCHANGED <<lines, seenIndexes, normalizer, finish, crashed, history>>

(***************************************************************************)
(* A line that is not JSON, or a read error: the parser reports and stops. *)
(***************************************************************************)
ReadError ==
    /\ Drained
    /\ body = "open"
    /\ body' = "cut"
    /\ chan' = <<End("error", None)>>
    /\ UNCHANGED <<lines, seenIndexes, normalizer, finish, crashed, history>>

(***************************************************************************)
(* The body ends, after [DONE] or, when the connection closes, without.    *)
(***************************************************************************)
BodyEnds ==
    /\ Drained
    /\ body \in {"open", "done"}
    /\ body' = IF body = "done" THEN "complete" ELSE "cut"
    /\ UNCHANGED <<lines, chan, seenIndexes, normalizer, finish, crashed, history>>

-----------------------------------------------------------------------------
(* What the normaliser does to a text.                                     *)

Has(tag, text) == \E i \in DOMAIN text : text[i].tag = tag

(***************************************************************************)
(* parseGemmaToolCalls: the text without its complete call blocks, and the *)
(* calls found in them.  A block that is not closed stays in the text.     *)
(***************************************************************************)
ParsedCalls(text) ==
    LET Step(acc, token) ==
            IF acc.block = <<>>
            THEN IF token.tag = "callOpen" THEN [acc EXCEPT !.block = <<token>>]
                                           ELSE [acc EXCEPT !.cleaned = Append(@, token)]
            ELSE IF token.tag = "callClose"
                 THEN [acc EXCEPT !.block = <<>>,
                                  !.calls = Append(@, [tag |-> "inline", n |-> acc.block[1].n])]
                 ELSE [acc EXCEPT !.block = Append(@, token)]
        end == FoldLeft(Step, [cleaned |-> <<>>, block |-> <<>>, calls |-> <<>>], text)
    IN  [cleaned |-> end.cleaned \o end.block, calls |-> end.calls]

(***************************************************************************)
(* stripThinkTags: drops <think>..</think>, and everything from a <think>  *)
(* that is not closed.  A closing tag outside of a block stays.            *)
(***************************************************************************)
StripThinkTags(text) ==
    LET Step(acc, token) ==
            IF acc.inside
            THEN [acc EXCEPT !.inside = token.tag # "thinkClose"]
            ELSE IF token.tag = "thinkOpen" THEN [acc EXCEPT !.inside = TRUE]
                                            ELSE [acc EXCEPT !.kept = Append(@, token)]
    IN  FoldLeft(Step, [kept |-> <<>>, inside |-> FALSE], text).kept

(***************************************************************************)
(* A closing tag stands outside of a block and before one.  For a <think>  *)
(* the code takes the first </think> of the whole text for the partner,    *)
(* joins what is before the one to what is after the other, finds both     *)
(* again and does not end; for a <|channel>thought it looks behind it.     *)
(***************************************************************************)
ClosesBeforeOpening(text) ==
    \E i \in DOMAIN text :
        /\ text[i].tag = "thinkOpen"
        /\ Has("thinkClose", StripThinkTags(SubSeq(text, 1, i - 1)))

TextEvent(text) == IF text = <<>> THEN <<>> ELSE <<Delta("text", text)>>

(***************************************************************************)
(* Calls found in a text are numbered from 0 in every text.                *)
(***************************************************************************)
InlineEvents(found) ==
    [i \in DOMAIN found |-> CallEvent("toolStart", <<found[i]>>, i - 1, found[i])]

HoldsCall(raw) == Has("callOpen", raw) /\ Has("callClose", raw)

(***************************************************************************)
(* processTextDelta on the buffer with the new text: the events and the    *)
(* buffer it leaves.                                                       *)
(***************************************************************************)
TextOut(raw) ==
    IF HoldsCall(raw)
    THEN LET parsed == ParsedCalls(raw)
         IN  TextEvent(parsed.cleaned) \o InlineEvents(parsed.calls)
    ELSE IF Has("thinkClose", raw) THEN TextEvent(StripThinkTags(raw))
    ELSE IF raw[1].tag = "word" \/ Len(raw) > BufferCap THEN TextEvent(raw)
    ELSE <<>>

KeepsBuffering(raw) ==
    /\ ~HoldsCall(raw) /\ ~Has("thinkClose", raw)
    /\ raw[1].tag # "word" /\ Len(raw) <= BufferCap

(* Mutant: what the buffer still holds is forgotten. *)
FinalEventsNoFlush(end) ==
    TextEvent(IF hasContent THEN <<>> ELSE reasoningBuf) \o <<end>>

(***************************************************************************)
(* finalize: what the buffer still holds, then the reasoning as text when  *)
(* no text came, then the end.                                             *)
(***************************************************************************)
FinalEvents(end) ==
    LET parsed == ParsedCalls(thinkBuf)
        promoted == IF hasContent THEN <<>> ELSE reasoningBuf
    IN  TextEvent(parsed.cleaned) \o InlineEvents(parsed.calls)
            \o TextEvent(promoted) \o <<end>>

(* Mutant: the reasoning buffer grows without bound. *)
CappedNever(old, new) == old \o new

(***************************************************************************)
(* The last ReasoningCap tokens.                                           *)
(***************************************************************************)
Capped(old, new) ==
    LET over == Len(old) + Len(new) - ReasoningCap
    IN  IF over > 0 THEN SubSeq(old, over + 1, Len(old)) \o new ELSE old \o new

-----------------------------------------------------------------------------
(* The handler takes an event and normalises it.                           *)

Taken(types) ==
    /\ chan # <<>> /\ ~Ready /\ ~crashed /\ closing = None
    /\ Head(chan).type \in types
    /\ chan' = Tail(chan)

TakeThinking ==
    LET delta == Head(chan).delta
    IN  /\ Taken({"thinking"})
        /\ Len(delta) <= ReasoningCap
        /\ reasoningBuf' = Capped(reasoningBuf, delta)
        /\ queue' = <<Head(chan)>>
        /\ UNCHANGED <<body, lines, seenIndexes, hasContent, thinkBuf, finish, crashed,
                       history, closing>>

(***************************************************************************)
(* A delta longer than the whole buffer: existing[overflow:] is out of     *)
(* range, the handler panics and neither Emit nor Done is called again.    *)
(***************************************************************************)
TakeHugeThinking ==
    /\ Taken({"thinking"})
    /\ Len(Head(chan).delta) > ReasoningCap
    /\ crashed' = TRUE
    /\ UNCHANGED <<body, lines, seenIndexes, normalizer, finish, history, queue, closing>>

TakeText ==
    LET raw == thinkBuf \o Head(chan).delta
    IN  /\ Taken({"text"})
        /\ hasContent' = TRUE
        /\ thinkBuf' = IF KeepsBuffering(raw) THEN raw ELSE <<>>
        /\ queue' = TextOut(raw)
        /\ valve' = (valve \/ (Len(raw) > BufferCap /\ raw[1].tag # "word"
                               /\ ~HoldsCall(raw) /\ ~Has("thinkClose", raw)))
        /\ UNCHANGED <<body, lines, seenIndexes, reasoningBuf, finish, crashed, heard,
                       thought, asked, closing>>

(***************************************************************************)
(* stripThinkTags on such a text: with <think> it does not come back.      *)
(***************************************************************************)
TakeEndlessText ==
    LET raw == thinkBuf \o Head(chan).delta
    IN  /\ Taken({"text"})
        /\ ~HoldsCall(raw) /\ ClosesBeforeOpening(raw)
        /\ crashed' = TRUE
        /\ UNCHANGED <<body, lines, seenIndexes, normalizer, finish, history, queue, closing>>

TakeCall ==
    /\ Taken({"toolStart", "toolDelta"})
    /\ queue' = <<Head(chan)>>
    /\ UNCHANGED <<body, lines, seenIndexes, normalizer, finish, crashed, history, closing>>

TakeDone ==
    /\ Taken({"done"})
    /\ finish' = Head(chan).reason
    /\ thinkBuf' = <<>>
    /\ queue' = FinalEvents(Head(chan))
    /\ UNCHANGED <<body, lines, seenIndexes, reasoningBuf, hasContent, crashed, history,
                   closing>>

(***************************************************************************)
(* An error goes to the emitter as it is and ends the stream.              *)
(***************************************************************************)
TakeError ==
    /\ Taken({"error"})
    /\ queue' = <<Head(chan)>>
    /\ closing' = "error"
    /\ UNCHANGED <<body, lines, seenIndexes, normalizer, finish, crashed, history>>

(* Mutant: Done is called for bodies that ended with [DONE] only. *)
CloseStreamComplete ==
    /\ Drained
    /\ body = "complete"
    /\ closing' = IF finish = "" THEN "STOP" ELSE finish
    /\ UNCHANGED <<upstream, queue>>

(***************************************************************************)
(* The channel is closed: Done, with "STOP" when no reason is known.       *)
(***************************************************************************)
CloseStream ==
    /\ Drained
    /\ body \in {"complete", "cut"}
    /\ closing' = IF finish = "" THEN "STOP" ELSE finish
    /\ UNCHANGED <<upstream, queue>>

Read ==
    \/ \E chunk \in Chunks : ReadChunk(chunk)
    \/ \E reason \in Reasons : ReadDone(reason)
    \/ ReadError
    \/ BodyEnds

Take ==
    \/ TakeThinking \/ TakeHugeThinking
    \/ TakeText \/ TakeEndlessText
    \/ TakeCall \/ TakeDone \/ TakeError
=============================================================================
