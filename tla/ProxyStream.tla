----------------------------- MODULE ProxyStream -----------------------------
(***************************************************************************)
(* One streamed answer on its way through the proxy: the upstream's body,  *)
(* parsed and normalised (UpstreamStream), and the emitter of the agent's  *)
(* protocol (ClaudeEmitter, CodexEmitter or GeminiEmitter).                *)
(***************************************************************************)
EXTENDS UpstreamStream

CONSTANTS
    Agents,    \* a subset of {"claude", "codex", "gemini"}
    SessionID  \* the session a Codex request names, or None

VARIABLE agent

vars == <<agent, upstream, queue, closing, answer, emitter, logged>>

Claude == INSTANCE ClaudeEmitter
Codex  == INSTANCE CodexEmitter
Gemini == INSTANCE GeminiEmitter

Protocol == INSTANCE StreamProtocol WITH answer <- answer

Init ==
    /\ agent \in Agents
    /\ InitUpstream
    /\ InitResponse

Upstream ==
    \/ Read /\ UNCHANGED <<queue, closing>>
    \/ Take
    \/ CloseStream

Emitting ==
    \/ agent = "claude" /\ Claude!Step
    \/ agent = "codex" /\ Codex!Step
    \/ agent = "gemini" /\ Gemini!Step

Next ==
    /\ UNCHANGED agent
    /\ \/ Upstream /\ UNCHANGED <<answer, emitter, logged>>
       \/ Emitting /\ UNCHANGED upstream

Spec == Init /\ [][Next]_vars

(***************************************************************************)
(* The handler's loop goes on as long as it has events, and the body of an *)
(* upstream ends: the model caps the lines, the HTTP connection otherwise. *)
(***************************************************************************)
FairSpec == Spec /\ WF_vars(Next)

-----------------------------------------------------------------------------
(* Properties.                                                             *)

Over == answer.phase = "over"

(***************************************************************************)
(* The text the client has read.                                           *)
(***************************************************************************)
ClientText ==
    FlattenSeq([i \in DOMAIN answer.items |->
        IF answer.items[i].kind = "text" THEN answer.items[i].content ELSE <<>>])

(***************************************************************************)
(* A text read as a whole: what stands outside of think and call markup,   *)
(* and whether the markup is closed and not nested.                        *)
(***************************************************************************)
ReadWhole(text) ==
    LET Partner == [thinkOpen |-> "thinkClose", callOpen |-> "callClose"]
        Opens == {"thinkOpen", "callOpen"}
        Markup == Opens \cup {"thinkClose", "callClose"}
        Step(acc, token) ==
            IF acc.until = None
            THEN IF token.tag \in Opens THEN [acc EXCEPT !.until = Partner[token.tag]]
                 ELSE IF token.tag \in Markup THEN [acc EXCEPT !.good = FALSE]
                 ELSE [acc EXCEPT !.visible = Append(@, token)]
            ELSE IF token.tag = acc.until THEN [acc EXCEPT !.until = None]
                 ELSE [acc EXCEPT !.good = @ /\ token.tag \notin Markup]
    IN  FoldLeft(Step, [visible |-> <<>>, until |-> None, good |-> TRUE], text)

WellFormed(text) == ReadWhole(text).good /\ ReadWhole(text).until = None

(***************************************************************************)
(* A delta the normaliser can tell markup from text in: a block that it    *)
(* leaves open comes after no closing tag of the same delta, and the delta *)
(* begins with '<'; and it holds no markup of both kinds.  Behind a        *)
(* leading word, or behind the end of another block, the opening tag is    *)
(* shown to the client instead of being held back.                         *)
(***************************************************************************)
WellCut(delta) ==
    LET Tagged(tags) == {i \in DOMAIN delta : delta[i].tag \in tags}
        LeftOpen(i) == \A j \in Tagged({"thinkClose", "callClose"}) : j < i
    IN  /\ Tagged({"thinkOpen", "thinkClose"}) = {} \/ Tagged({"callOpen", "callClose"}) = {}
        /\ \A i \in Tagged({"thinkOpen", "callOpen"}) :
               LeftOpen(i) => /\ delta[1].tag # "word"
                              /\ Tagged({"thinkClose", "callClose"}) = {}

(***************************************************************************)
(* The delta of a line, from the tokens the upstream sent.                 *)
(***************************************************************************)
DeltaOf(n) == SelectSeq(heard, LAMBDA token : token.n = n)

(***************************************************************************)
(* A text cut into deltas that are WellCut - within and around whole       *)
(* blocks, inside of a block, before a closing tag as the upstream likes - *)
(* reaches the client of an answer that ended with [DONE]: all of it that  *)
(* stands outside of think and tool-call markup, once, in order, and       *)
(* nothing of what stood inside, whatever the normaliser held back, unless *)
(* the safety valve flushed a buffer that had grown too long.              *)
(***************************************************************************)
VisibleTextKept ==
    (/\ Over /\ body = "complete" /\ heard # <<>>
     /\ WellFormed(heard) /\ ~valve
     /\ \A n \in 0 .. lines - 1 : WellCut(DeltaOf(n))) =>
        ClientText = ReadWhole(heard).visible

(***************************************************************************)
(* An answer that ended with reasoning and no text shows the end of its    *)
(* reasoning as text, once; next to a text no reasoning is shown as text.  *)
(***************************************************************************)
SilentAnswerSpeaks ==
    Over =>
        LET n == Len(thought)
            kept == IF n > ReasoningCap THEN ReasoningCap ELSE n
        IN  /\ body = "complete" /\ heard = <<>> =>
                   ClientText = SubSeq(thought, n - kept + 1, n)
            /\ heard # <<>> => \A i \in DOMAIN ClientText : ClientText[i].tag # "thought"

(***************************************************************************)
(* Tool calls the upstream sends as such, their fragments interleaved as   *)
(* it likes, arrive once each, also when the stream fails, and no call     *)
(* with a part of its arguments: with all that were sent or with none.     *)
(* None may happen to arguments that are no JSON object beginning with     *)
(* '{', as they are when the stream fails in between - Gemini's emitter    *)
(* drops what does not parse, Claude's what begins otherwise - and never   *)
(* with Codex, where what is sent in pieces is what the completed item     *)
(* holds.  Without calls inside of texts: those are numbered from 0 again  *)
(* in every text and meet the native ones in the emitter's accumulators.   *)
(***************************************************************************)
CallsAreWhole ==
    (Over /\ ~Has("callClose", heard)) =>
        \A c \in Indexes :
            LET mine == {i \in DOMAIN answer.items :
                            answer.items[i].kind = "call" /\ answer.items[i].id = Native(c)}
                sent == [j \in 1..asked[c] |-> Native(c)]
            IN  /\ Cardinality(mine) = IF c \in seenIndexes THEN 1 ELSE 0
                /\ \A i \in mine :
                       /\ answer.items[i].content \in {sent, <<>>}
                       /\ (agent = "codex" \/ sent \in Objects \cap Braced) =>
                              answer.items[i].content = sent
                       /\ agent = "codex" => answer.items[i].whole = sent

(***************************************************************************)
(* What the Codex emitter saves to discussion_log as the agent's reply is  *)
(* the text the client has read, all of it, before the answer is over.     *)
(***************************************************************************)
LoggedIsShown ==
    (Over /\ agent = "codex" /\ SessionID # None) =>
        logged = IF ClientText = <<>> THEN None ELSE ClientText

(***************************************************************************)
(* Items appear in order, grow while open, are all closed at the end:      *)
(* the answer is one StreamProtocol allows, for each of the three agents.  *)
(***************************************************************************)
KeepsProtocol == Protocol!Spec

(***************************************************************************)
(* Every answer is brought to its end, whatever the upstream does - unless *)
(* one reasoning chunk is longer than the whole reasoning buffer, or one   *)
(* delta closes a think tag and then opens one.                            *)
(***************************************************************************)
HugeThought ==
    \E n \in 0 .. MaxLines - 1 :
        Cardinality({i \in DOMAIN thought : thought[i].n = n}) > ReasoningCap

CloseThenOpen ==
    \E i, j \in DOMAIN heard :
        /\ i < j /\ heard[i].n = heard[j].n
        /\ heard[i].tag = "thinkClose" /\ heard[j].tag = "thinkOpen"

AnswerCompletes == <>(Over \/ HugeThought \/ CloseThenOpen)
=============================================================================
