-------------------------- MODULE ProxyStreamProofs --------------------------
(***************************************************************************)
(* Theorems about ProxyStream, for any chunks, caps, indexes and bounds.   *)
(***************************************************************************)
EXTENDS ProxyStream, FiniteSetTheorems, SequenceTheorems, WellFoundedInduction,
        TLAPS

-----------------------------------------------------------------------------
(* Induction on numbers and, with it, what FoldLeft computes.             *)

LEMMA LeastNat ==
    ASSUME NEW T \in SUBSET Nat, T # {}
    PROVE  \E x \in T : \A y \in T : x <= y
<1>1. PICK x \in T : \A y \in T : ~(<<y, x>> \in OpToRel(<, Nat))
  BY WFMin, NatLessThanWellFounded
<1>2. ASSUME NEW y \in T PROVE x <= y
  <2>1. SUFFICES ASSUME y < x PROVE FALSE  OBVIOUS
  <2>2. <<y, x>> \in OpToRel(<, Nat)  BY <2>1 DEF OpToRel
  <2>. QED  BY <1>1, <2>2
<1>. QED  BY <1>2

LEMMA GreatestNat ==
    ASSUME NEW T \in SUBSET Nat, T # {}, NEW n \in Nat, \A y \in T : y <= n
    PROVE  \E x \in T : \A y \in T : x >= y
<1>. DEFINE U == {m \in Nat : \A y \in T : y <= m}
<1>1. PICK m \in U : \A u \in U : m <= u
  BY LeastNat
<1>2. m \in T
  <2>1. SUFFICES ASSUME m \notin T PROVE FALSE  OBVIOUS
  <2>2. \A y \in T : y < m  BY <2>1
  <2>3. PICK z \in T : TRUE  OBVIOUS
  <2>4. m \in Nat /\ z \in Nat /\ z < m  BY <2>2
  <2>5. m - 1 \in Nat /\ m - 1 < m  BY <2>4
  <2>6. \A y \in T : y <= m - 1  BY <2>2, <2>4
  <2>7. m - 1 \in U  BY <2>5, <2>6
  <2>. QED  BY <1>1, <2>4, <2>5, <2>7
<1>. QED  BY <1>2

LEMMA NatSetInduction ==
    ASSUME NEW S, S \subseteq Nat, 0 \in S, \A n \in S : n + 1 \in S
    PROVE  S = Nat
<1>1. SUFFICES ASSUME Nat \ S # {} PROVE FALSE
  OBVIOUS
<1>2. PICK x \in Nat \ S : \A y \in Nat \ S : x <= y
  BY <1>1, LeastNat
<1>3. x \in Nat /\ x # 0
  BY <1>2
<1>4. x - 1 \in Nat /\ x - 1 < x /\ (x - 1) + 1 = x
  BY <1>3
<1>5. x - 1 \in S
  BY <1>2, <1>4
<1>. QED
  BY <1>2, <1>4, <1>5

(***************************************************************************)
(* FoldLeft visits the elements of a sequence as the greatest of what is   *)
(* left of its domain: the domain's initial segments.                      *)
(***************************************************************************)
LEMMA SegmentMax ==
    ASSUME NEW n \in Nat \ {0}
    PROVE  /\ 1 .. n # {} /\ Max(1 .. n) = n
           /\ (1 .. n) \ {n} = 1 .. (n - 1)
<1>1. n \in 1 .. n /\ \A y \in 1 .. n : n >= y
  OBVIOUS
<1>2. \A x \in 1 .. n : x >= n => x = n
  OBVIOUS
<1>3. Max(1 .. n) = n
  BY <1>1, <1>2 DEF Max
<1>4. (1 .. n) \ {n} = 1 .. (n - 1)
  OBVIOUS
<1>. QED
  BY <1>1, <1>3, <1>4

LEMMA DomainMax ==
    ASSUME NEW E, NEW seq \in Seq(E), NEW s \in SUBSET DOMAIN seq, s # {}
    PROVE  Max(s) \in DOMAIN seq /\ seq[Max(s)] \in E
<1>1. /\ Len(seq) \in Nat /\ s \in SUBSET Nat
      /\ \A y \in s : y <= Len(seq)
  OBVIOUS
<1>2. \E x \in s : \A y \in s : x >= y
  BY <1>1, GreatestNat
<1>3. Max(s) \in s
  BY <1>2 DEF Max
<1>. QED
  BY <1>3

(***************************************************************************)
(* The function by which FoldLeft is defined: it folds a part of the       *)
(* sequence, its greatest index last.                                      *)
(***************************************************************************)
IsFold(g, step, base, seq) ==
    \A s \in SUBSET DOMAIN seq :
        g[s] = IF s = {} THEN base ELSE step[<<g[s \ {Max(s)}], seq[Max(s)]>>]

(* It exists, when what it folds with is a function on a type.             *)
LEMMA FoldExists ==
    ASSUME NEW T, NEW E, NEW step \in [T \X E -> T], NEW base \in T, NEW seq \in Seq(E)
    PROVE  \E g : g \in [SUBSET DOMAIN seq -> T] /\ IsFold(g, step, base, seq)
<1>. DEFINE Value(g, s) == IF s = {} THEN base
                                     ELSE step[<<g[s \ {Max(s)}], seq[Max(s)]>>]
            Good(n) == \E g \in [SUBSET (1 .. n) -> T] :
                          \A s \in SUBSET (1 .. n) : g[s] = Value(g, s)
            S == {n \in Nat : n <= Len(seq) => Good(n)}
<1>1. 0 \in S
  <2>1. 1 .. 0 = {}
    OBVIOUS
  <2>2. SUBSET (1 .. 0) = {{}}
    BY <2>1
  <2>3. [s \in SUBSET (1 .. 0) |-> base] \in [SUBSET (1 .. 0) -> T]
    OBVIOUS
  <2>4. \A s \in SUBSET (1 .. 0) :
           [t \in SUBSET (1 .. 0) |-> base][s] = Value([t \in SUBSET (1 .. 0) |-> base], s)
    BY <2>2
  <2>. QED
    BY <2>3, <2>4
<1>2. ASSUME NEW n \in S PROVE n + 1 \in S
  <2>1. n \in Nat /\ n + 1 \in Nat
    OBVIOUS
  <2>2. SUFFICES ASSUME n + 1 <= Len(seq) PROVE Good(n + 1)
    BY <2>1
  <2>3. Len(seq) \in Nat /\ n <= Len(seq)
    BY <2>1, <2>2
  <2>4. PICK g \in [SUBSET (1 .. n) -> T] : \A s \in SUBSET (1 .. n) : g[s] = Value(g, s)
    BY <2>3
  <2>5. seq[n + 1] \in E
    BY <2>1, <2>2, <2>3
  <2>. DEFINE h == [s \in SUBSET (1 .. n + 1) |->
                       IF n + 1 \in s THEN step[<<g[s \ {n + 1}], seq[n + 1]>>] ELSE g[s]]
  <2>6. \A s \in SUBSET (1 .. n + 1) : s \ {n + 1} \in SUBSET (1 .. n)
    BY <2>1
  <2>7. \A s \in SUBSET (1 .. n + 1) : n + 1 \notin s => s \in SUBSET (1 .. n)
    BY <2>6
  <2>8. h \in [SUBSET (1 .. n + 1) -> T]
    BY <2>4, <2>5, <2>6, <2>7
  <2>9. \A s \in SUBSET (1 .. n) : h[s] = g[s]
    <3>1. \A s \in SUBSET (1 .. n) : s \in SUBSET (1 .. n + 1) /\ n + 1 \notin s
      BY <2>1
    <3>. QED
      BY <3>1
  <2>10. ASSUME NEW s \in SUBSET (1 .. n + 1) PROVE h[s] = Value(h, s)
    <3>1. CASE n + 1 \in s
      <4>1. \A y \in s : n + 1 >= y
        BY <2>1
      <4>2. \A x \in s : x >= n + 1 => x = n + 1
        BY <2>1
      <4>3. Max(s) = n + 1
        BY <3>1, <4>1, <4>2 DEF Max
      <4>4. h[s \ {n + 1}] = g[s \ {n + 1}]
        BY <2>6, <2>9
      <4>. QED
        BY <3>1, <4>3, <4>4
    <3>2. CASE n + 1 \notin s
      <4>1. s \in SUBSET (1 .. n) /\ s \ {Max(s)} \in SUBSET (1 .. n)
        BY <2>7, <3>2
      <4>2. h[s] = Value(g, s) /\ h[s \ {Max(s)}] = g[s \ {Max(s)}]
        BY <2>4, <2>9, <4>1
      <4>. QED
        BY <4>2
    <3>. QED
      BY <3>1, <3>2
  <2>. HIDE DEF h
  <2>. QED
    BY <2>8, <2>10
<1>3. S = Nat
  <2>. HIDE DEF S
  <2>1. S \subseteq Nat
    BY DEF S
  <2>. QED
    BY <1>1, <1>2, <2>1, NatSetInduction
<1>4. Len(seq) \in Nat /\ DOMAIN seq = 1 .. Len(seq)
  OBVIOUS
<1>5. Good(Len(seq))
  <2>. HIDE DEF Good
  <2>1. Len(seq) \in S
    BY <1>3, <1>4
  <2>. QED
    BY <1>4, <2>1
<1>6. PICK g \in [SUBSET DOMAIN seq -> T] : \A s \in SUBSET DOMAIN seq : g[s] = Value(g, s)
  BY <1>4, <1>5
<1>. QED
  BY <1>6 DEF IsFold

-----------------------------------------------------------------------------
(* The inductive invariant.                                                *)

Token == [tag : TextTags \cup {"thought", "native", "inline"}, n : Nat]

MaybeToken == Token \cup {None}

EventRecord ==
    [type : {"thinking", "text", "toolStart", "toolDelta", "done", "error"},
     delta : Seq(Token), index : Indexes \cup {None}, id : MaybeToken,
     reason : Reasons \cup {None}]

(* Thinking and text are never empty, a call has an index.                 *)
Events ==
    {e \in EventRecord : /\ e.type \in {"thinking", "text"} => e.delta # <<>>
                         /\ e.type \in {"toolStart", "toolDelta"} => e.index \in Indexes}

(* What the normaliser composes: no fragment of a call's arguments.        *)
Composed == {e \in Events : e.type # "toolDelta"}

(* A text no longer than the content of some chunk.                        *)
OneChunk(text) == \E chunk \in Chunks : Len(text) = Len(chunk.content)

ParsedEvents == {e \in Events : e.type = "text" => OneChunk(e.delta)}

UpstreamType ==
    /\ lines \in Nat
    /\ queue \in Seq(Events) /\ chan \in Seq(ParsedEvents)
    /\ reasoningBuf \in Seq(Token)
    /\ thinkBuf \in Seq(Token) /\ Len(thinkBuf) <= BufferCap

Items ==
    [kind : {"thinking", "text", "call"}, open : BOOLEAN, content : Seq(Token),
     whole : Seq(Token) \cup {None}, id : MaybeToken]

AnswerType ==
    /\ answer = [phase |-> answer.phase, items |-> answer.items, reason |-> answer.reason]
    /\ answer.phase \in {"waiting", "live", "over"}
    /\ answer.items \in Seq(Items)

Accumulators ==
    [id : MaybeToken, args : Seq(Token), item : Nat \cup {None}, owed : Seq(Token),
     state : {"absent", "held", "open", "filled", "sent"}]

EmitterType ==
    /\ started \in BOOLEAN
    /\ next \in Nat
    /\ thinkIdx \in Nat \cup {None} /\ textIdx \in Nat \cup {None}
    /\ calls \in [Indexes -> Accumulators]
    /\ said \in Seq(Token)

(* Every event is handled and the handler has called Done.                 *)
Finishing == closing # None /\ queue = <<>>

(* The phase the answer is in.                                             *)
PhaseInv ==
    /\ answer.phase = "waiting" => answer.items = <<>> /\ ~started
    /\ answer.phase = "live" => started \/ agent = "gemini"
    /\ answer.phase = "over" => Finishing

Announced(c) == calls[c].state \in {"open", "filled"}

IsOpen(index, kind) ==
    /\ index \in 0 .. Len(answer.items) - 1
    /\ answer.items[index + 1].open
    /\ answer.items[index + 1].kind = kind

(* What the emitter believes to be open is open.                           *)
OpenInv ==
    /\ thinkIdx # None => IsOpen(thinkIdx, "thinking")
    /\ textIdx # None => IsOpen(textIdx, "text")
    /\ \A c \in Indexes : Announced(c) => IsOpen(calls[c].item, "call")

(* Two calls are never announced as the same item.                         *)
DistinctInv ==
    \A c, d \in Indexes :
        Announced(c) /\ Announced(d) /\ calls[c].item = calls[d].item => c = d

(* What is open the emitter knows of.                                      *)
Owned(i) ==
    \/ answer.items[i].kind = "thinking" /\ thinkIdx = i - 1
    \/ answer.items[i].kind = "text" /\ textIdx = i - 1
    \/ \E c \in Indexes : Announced(c) /\ calls[c].item = i - 1

OwnedInv == \A i \in DOMAIN answer.items : answer.items[i].open => Owned(i)

(* How far calls are, for each of the agents.                              *)
CallsInv ==
    /\ agent # "gemini" => next = Len(answer.items)
    /\ agent = "claude" =>
          \A c \in Indexes : /\ calls[c].state = "held" => started
                             /\ calls[c].state \in {"open", "filled", "sent"} => Finishing
    /\ agent = "codex" =>
          \A c \in Indexes : /\ calls[c].state # "filled"
                             /\ calls[c].state = "sent" => Finishing
                             /\ calls[c].item # None => calls[c].state \in {"open", "sent"}
                             /\ calls[c].owed # <<>> => calls[c].item # None
    /\ agent = "gemini" =>
          /\ thinkIdx = None /\ textIdx = None
          /\ \A c \in Indexes : calls[c].state \in {"absent", "held", "sent"}

HasType(type, events) == \E i \in DOMAIN events : events[i].type = type

(* The first that is heard of a call starts the message.                   *)
StartInv ==
    agent = "claude" =>
        /\ seenIndexes # {} =>
               started \/ HasType("toolStart", chan) \/ HasType("toolStart", queue)
        /\ HasType("toolDelta", chan) \/ HasType("toolDelta", queue) => started

StreamInv ==
    /\ UpstreamType /\ AnswerType /\ EmitterType
    /\ PhaseInv /\ OpenInv /\ DistinctInv /\ OwnedInv /\ CallsInv /\ StartInv

-----------------------------------------------------------------------------
(* What the normaliser makes of a text.                                    *)

(* The calls a text of such tokens can hold: none that is never closed.    *)
Found(S) == {token \in Token : \E other \in S : other.tag = "callClose"}

(***************************************************************************)
(* parseGemmaToolCalls returns a text made of the tokens it was given and  *)
(* calls, and every call used up an opening and a closing token.           *)
(***************************************************************************)
LEMMA ParsedCallsOf ==
    ASSUME NEW S \in SUBSET Token, NEW text \in Seq(S)
    PROVE  /\ ParsedCalls(text).cleaned \in Seq(S)
           /\ ParsedCalls(text).calls \in Seq(Token)
           /\ ParsedCalls(text).calls \in Seq(Found(S))
           /\ 2 * Len(ParsedCalls(text).calls) <= Len(text)
<1>. DEFINE Step(acc, token) ==
              IF acc.block = <<>>
              THEN IF token.tag = "callOpen" THEN [acc EXCEPT !.block = <<token>>]
                                             ELSE [acc EXCEPT !.cleaned = Append(@, token)]
              ELSE IF token.tag = "callClose"
                   THEN [acc EXCEPT !.block = <<>>,
                                    !.calls = Append(@, [tag |-> "inline", n |-> acc.block[1].n])]
                   ELSE [acc EXCEPT !.block = Append(@, token)]
            base == [cleaned |-> <<>>, block |-> <<>>, calls |-> <<>>]
            Accs == [cleaned : Seq(S), block : Seq(S), calls : Seq(Found(S))]
            fold == CHOOSE iter : iter = [s \in SUBSET DOMAIN text |->
                       IF s = {} THEN base ELSE Step(iter[s \ {Max(s)}], text[Max(s)])]
            Size(acc) == 2 * Len(acc.calls) + Len(acc.block)
<1>. DEFINE end == fold[DOMAIN text]
<1>1. /\ ParsedCalls(text).cleaned = end.cleaned \o end.block
      /\ ParsedCalls(text).calls = end.calls
  BY DEF ParsedCalls, FoldLeft, MapThenFoldSet
<1>2. base \in Accs /\ Size(base) = 0
  OBVIOUS
<1>3. ASSUME NEW acc \in Accs, NEW token \in S
      PROVE  Step(acc, token) \in Accs /\ Size(Step(acc, token)) <= Size(acc) + 1
  <2>. DEFINE Result(c, b, k) ==
                /\ Step(acc, token) = [cleaned |-> c, block |-> b, calls |-> k]
                /\ 2 * Len(k) + Len(b) <= 2 * Len(acc.calls) + Len(acc.block) + 1
  <2>1. /\ acc.cleaned \in Seq(S) /\ acc.block \in Seq(S) /\ acc.calls \in Seq(Found(S))
        /\ acc = [cleaned |-> acc.cleaned, block |-> acc.block, calls |-> acc.calls]
        /\ Len(acc.block) \in Nat /\ Len(acc.calls) \in Nat
    OBVIOUS
  <2>2. SUFFICES \E c, b \in Seq(S), k \in Seq(Found(S)) : Result(c, b, k)
    <3>1. SUFFICES ASSUME NEW c \in Seq(S), NEW b \in Seq(S), NEW k \in Seq(Found(S)),
                          Result(c, b, k)
                   PROVE  Step(acc, token) \in Accs /\ Size(Step(acc, token)) <= Size(acc) + 1
      OBVIOUS
    <3>2. Step(acc, token) = [cleaned |-> c, block |-> b, calls |-> k]
      BY <3>1
    <3>. HIDE DEF Step
    <3>. QED
      BY <3>1, <3>2
  <2>3. CASE acc.block = <<>> /\ token.tag = "callOpen"
    <3>1. Step(acc, token) = [cleaned |-> acc.cleaned, block |-> <<token>>, calls |-> acc.calls]
      BY <2>1, <2>3
    <3>2. <<token>> \in Seq(S) /\ Len(<<token>>) = 1 /\ Len(acc.block) = 0
      BY <2>3
    <3>3. Result(acc.cleaned, <<token>>, acc.calls)
      <4>. HIDE DEF Step
      <4>. QED
        BY <2>1, <3>1, <3>2
    <3>. HIDE DEF Result
    <3>. QED
      BY <2>1, <3>2, <3>3
  <2>4. CASE acc.block = <<>> /\ token.tag # "callOpen"
    <3>1. Step(acc, token) =
             [cleaned |-> Append(acc.cleaned, token), block |-> acc.block, calls |-> acc.calls]
      BY <2>1, <2>4
    <3>2. Result(Append(acc.cleaned, token), acc.block, acc.calls)
      <4>. HIDE DEF Step
      <4>. QED
        BY <2>1, <3>1
    <3>3. Append(acc.cleaned, token) \in Seq(S)
      BY <2>1
    <3>. HIDE DEF Result
    <3>. QED
      BY <2>1, <3>2, <3>3
  <2>5. CASE acc.block # <<>> /\ token.tag = "callClose"
    <3>. DEFINE found == [tag |-> "inline", n |-> acc.block[1].n]
    <3>1. Step(acc, token) =
             [cleaned |-> acc.cleaned, block |-> <<>>, calls |-> Append(acc.calls, found)]
      BY <2>1, <2>5
    <3>2. acc.block[1] \in S /\ Len(acc.block) >= 1
      BY <2>1, <2>5
    <3>3. found \in Found(S)
      <4>1. acc.block[1].n \in Nat
        BY <3>2 DEF Token
      <4>. QED
        BY <2>5, <4>1 DEF Token, Found
    <3>. HIDE DEF found
    <3>4. /\ Append(acc.calls, found) \in Seq(Found(S)) /\ <<>> \in Seq(S)
          /\ Len(Append(acc.calls, found)) = Len(acc.calls) + 1
      BY <2>1, <3>3
    <3>5. Result(acc.cleaned, <<>>, Append(acc.calls, found))
      <4>. HIDE DEF Step
      <4>. QED
        BY <2>1, <3>1, <3>2, <3>4
    <3>. HIDE DEF Result
    <3>. QED
      BY <2>1, <3>4, <3>5
  <2>6. CASE acc.block # <<>> /\ token.tag # "callClose"
    <3>1. Step(acc, token) =
             [cleaned |-> acc.cleaned, block |-> Append(acc.block, token), calls |-> acc.calls]
      BY <2>1, <2>6
    <3>2. /\ Append(acc.block, token) \in Seq(S)
          /\ Len(Append(acc.block, token)) = Len(acc.block) + 1
      BY <2>1
    <3>3. Result(acc.cleaned, Append(acc.block, token), acc.calls)
      <4>. HIDE DEF Step
      <4>. QED
        BY <2>1, <3>1, <3>2
    <3>. HIDE DEF Result
    <3>. QED
      BY <2>1, <3>2, <3>3
  <2>. QED
    BY <2>3, <2>4, <2>5, <2>6
<1>. HIDE DEF Step, base, Size
<1>4. fold = [s \in SUBSET DOMAIN text |->
                 IF s = {} THEN base ELSE Step(fold[s \ {Max(s)}], text[Max(s)])]
  <2>. DEFINE step == [p \in Accs \X S |-> Step(p[1], p[2])]
  <2>1. step \in [Accs \X S -> Accs]
    BY <1>3
  <2>2. PICK g : g \in [SUBSET DOMAIN text -> Accs] /\ IsFold(g, step, base, text)
    BY <1>2, <2>1, FoldExists
  <2>3. ASSUME NEW s \in SUBSET DOMAIN text, s # {}
        PROVE  g[s] = Step(g[s \ {Max(s)}], text[Max(s)])
    <3>1. s \ {Max(s)} \in SUBSET DOMAIN text
      OBVIOUS
    <3>2. text[Max(s)] \in S
      BY <2>3, DomainMax
    <3>3. g[s \ {Max(s)}] \in Accs
      <4>. HIDE DEF Accs, step
      <4>. QED
        BY <2>2, <3>1
    <3>. QED
      BY <2>2, <2>3, <3>2, <3>3 DEF IsFold
  <2>4. g = [s \in SUBSET DOMAIN text |->
                IF s = {} THEN base ELSE Step(g[s \ {Max(s)}], text[Max(s)])]
    BY <2>2, <2>3 DEF IsFold
  <2>. QED
    BY <2>4
<1>. HIDE DEF fold
<1>. DEFINE Walked(k) == fold[1 .. k] \in Accs /\ Size(fold[1 .. k]) <= k
            Steps == {k \in Nat : k <= Len(text) => Walked(k)}
<1>5. Len(text) \in Nat /\ DOMAIN text = 1 .. Len(text)
  OBVIOUS
<1>6. 0 \in Steps
  <2>1. 1 .. 0 = {} /\ {} \in SUBSET DOMAIN text
    OBVIOUS
  <2>2. fold[1 .. 0] = base
    BY <1>4, <2>1
  <2>. QED
    BY <1>2, <2>2
<1>7. ASSUME NEW k \in Steps PROVE k + 1 \in Steps
  <2>1. SUFFICES ASSUME k + 1 <= Len(text) PROVE Walked(k + 1)
    OBVIOUS
  <2>2. k \in Nat /\ Walked(k)
    BY <1>5, <2>1
  <2>3. /\ 1 .. k + 1 # {} /\ Max(1 .. k + 1) = k + 1
        /\ (1 .. k + 1) \ {k + 1} = 1 .. k
    <3>1. k + 1 \in Nat \ {0} /\ (k + 1) - 1 = k
      BY <2>2
    <3>. QED
      BY <3>1, SegmentMax
  <2>4. 1 .. k + 1 \in SUBSET DOMAIN text
    BY <1>5, <2>1, <2>2
  <2>5. fold[1 .. k + 1] = Step(fold[1 .. k], text[k + 1])
    BY <1>4, <2>3, <2>4
  <2>6. text[k + 1] \in S
    BY <1>5, <2>1, <2>2
  <2>7. /\ fold[1 .. k + 1] \in Accs
        /\ Size(fold[1 .. k + 1]) <= Size(fold[1 .. k]) + 1
    BY <1>3, <2>2, <2>5, <2>6
  <2>8. Size(fold[1 .. k]) \in Nat /\ Size(fold[1 .. k + 1]) \in Nat
    <3>. HIDE DEF Walked
    <3>1. \A acc \in Accs : Size(acc) \in Nat
      BY DEF Size
    <3>. QED
      BY <2>2, <2>7, <3>1 DEF Walked
  <2>. QED
    BY <2>2, <2>7, <2>8
<1>8. Walked(Len(text))
  <2>1. Steps \subseteq Nat
    OBVIOUS
  <2>. HIDE DEF Walked
  <2>2. Steps = Nat
    <3>. HIDE DEF Steps
    <3>. QED
      BY <1>6, <1>7, <2>1, NatSetInduction
  <2>. QED
    BY <1>5, <2>2
<1>9. end \in Accs /\ Size(end) <= Len(text)
  BY <1>5, <1>8
<1>. HIDE DEF end, Walked, Steps
<1>10. /\ end.cleaned \in Seq(S) /\ end.block \in Seq(S) /\ end.calls \in Seq(Found(S))
  BY <1>9
<1>11. Len(end.block) \in Nat /\ Len(end.calls) \in Nat
  BY <1>10
<1>12. 2 * Len(end.calls) + Len(end.block) <= Len(text)
  BY <1>9 DEF Size
<1>13. 2 * Len(end.calls) <= Len(text)
  <2>. DEFINE a == Len(end.calls)
              b == Len(end.block)
  <2>. HIDE DEF a, b
  <2>1. a \in Nat /\ b \in Nat /\ Len(text) \in Nat /\ 2 * a + b <= Len(text)
    BY <1>5, <1>11, <1>12 DEF a, b
  <2>2. 2 * a <= Len(text)
    BY <2>1
  <2>. QED
    BY <2>2 DEF a
<1>14. end.calls \in Seq(Token)
  <2>1. Found(S) \in SUBSET Token
    BY DEF Found
  <2>. QED
    BY <1>10, <2>1
<1>. QED
  BY <1>1, <1>10, <1>13, <1>14

LEMMA ParsedCallsType ==
    ASSUME NEW text \in Seq(Token)
    PROVE  /\ ParsedCalls(text).cleaned \in Seq(Token)
           /\ ParsedCalls(text).calls \in Seq(Token)
           /\ 2 * Len(ParsedCalls(text).calls) <= Len(text)
<1>1. Token \in SUBSET Token
  OBVIOUS
<1>. QED
  BY <1>1, ParsedCallsOf

(***************************************************************************)
(* stripThinkTags returns a text made of the tokens it was given.          *)
(***************************************************************************)
LEMMA StripThinkTagsOf ==
    ASSUME NEW S, NEW text \in Seq(S)
    PROVE  StripThinkTags(text) \in Seq(S)
<1>. DEFINE Step(acc, token) ==
              IF acc.inside
              THEN [acc EXCEPT !.inside = token.tag # "thinkClose"]
              ELSE IF token.tag = "thinkOpen" THEN [acc EXCEPT !.inside = TRUE]
                                              ELSE [acc EXCEPT !.kept = Append(@, token)]
            base == [kept |-> <<>>, inside |-> FALSE]
            Accs == [kept : Seq(S), inside : BOOLEAN]
            fold == CHOOSE iter : iter = [s \in SUBSET DOMAIN text |->
                       IF s = {} THEN base ELSE Step(iter[s \ {Max(s)}], text[Max(s)])]
            end == fold[DOMAIN text]
<1>1. StripThinkTags(text) = end.kept
  BY DEF StripThinkTags, FoldLeft, MapThenFoldSet
<1>2. base \in Accs
  OBVIOUS
<1>3. ASSUME NEW acc \in Accs, NEW token \in S
      PROVE  Step(acc, token) \in Accs
  <2>1. acc.kept \in Seq(S) /\ Append(acc.kept, token) \in Seq(S)
    OBVIOUS
  <2>. QED
    BY <2>1
<1>. HIDE DEF Step, base
<1>4. fold = [s \in SUBSET DOMAIN text |->
                 IF s = {} THEN base ELSE Step(fold[s \ {Max(s)}], text[Max(s)])]
  <2>. DEFINE step == [p \in Accs \X S |-> Step(p[1], p[2])]
  <2>1. step \in [Accs \X S -> Accs]
    BY <1>3
  <2>2. PICK g : g \in [SUBSET DOMAIN text -> Accs] /\ IsFold(g, step, base, text)
    BY <1>2, <2>1, FoldExists
  <2>3. ASSUME NEW s \in SUBSET DOMAIN text, s # {}
        PROVE  g[s] = Step(g[s \ {Max(s)}], text[Max(s)])
    <3>1. s \ {Max(s)} \in SUBSET DOMAIN text
      OBVIOUS
    <3>2. text[Max(s)] \in S
      BY <2>3, DomainMax
    <3>3. g[s \ {Max(s)}] \in Accs
      <4>. HIDE DEF Accs, step
      <4>. QED
        BY <2>2, <3>1
    <3>. QED
      BY <2>2, <2>3, <3>2, <3>3 DEF IsFold
  <2>4. g = [s \in SUBSET DOMAIN text |->
                IF s = {} THEN base ELSE Step(g[s \ {Max(s)}], text[Max(s)])]
    BY <2>2, <2>3 DEF IsFold
  <2>. QED
    BY <2>4
<1>. HIDE DEF fold, Accs
<1>. DEFINE Steps == {k \in Nat : k <= Len(text) => fold[1 .. k] \in Accs}
<1>5. Len(text) \in Nat /\ DOMAIN text = 1 .. Len(text)
  OBVIOUS
<1>6. 0 \in Steps
  <2>1. 1 .. 0 = {} /\ {} \in SUBSET DOMAIN text
    OBVIOUS
  <2>2. fold[1 .. 0] = base
    BY <1>4, <2>1
  <2>. QED
    BY <1>2, <2>2
<1>7. ASSUME NEW k \in Steps PROVE k + 1 \in Steps
  <2>1. SUFFICES ASSUME k + 1 <= Len(text) PROVE fold[1 .. k + 1] \in Accs
    OBVIOUS
  <2>2. k \in Nat /\ fold[1 .. k] \in Accs
    BY <1>5, <2>1
  <2>3. /\ 1 .. k + 1 # {} /\ Max(1 .. k + 1) = k + 1
        /\ (1 .. k + 1) \ {k + 1} = 1 .. k
    BY <2>2, SegmentMax
  <2>4. 1 .. k + 1 \in SUBSET DOMAIN text
    BY <1>5, <2>1, <2>2
  <2>5. fold[1 .. k + 1] = Step(fold[1 .. k], text[k + 1])
    BY <1>4, <2>3, <2>4
  <2>6. text[k + 1] \in S
    BY <1>5, <2>1, <2>2
  <2>. QED
    BY <1>3, <2>2, <2>5, <2>6
<1>8. Steps = Nat
  <2>1. Steps \subseteq Nat
    OBVIOUS
  <2>. HIDE DEF Steps
  <2>. QED
    BY <1>6, <1>7, <2>1, NatSetInduction
<1>9. end \in Accs
  BY <1>5, <1>8
<1>. HIDE DEF end
<1>. QED
  BY <1>1, <1>9 DEF Accs

LEMMA StripThinkTagsType ==
    ASSUME NEW text \in Seq(Token)
    PROVE  StripThinkTags(text) \in Seq(Token)
  BY StripThinkTagsOf

LEMMA EventType ==
    ASSUME NEW type \in {"thinking", "text", "toolStart", "toolDelta", "done", "error"},
           NEW delta \in Seq(Token), NEW index \in Indexes \cup {None}, NEW id \in MaybeToken,
           NEW reason \in Reasons \cup {None},
           type \in {"thinking", "text"} => delta # <<>>,
           type \in {"toolStart", "toolDelta"} => index \in Indexes
    PROVE  [type |-> type, delta |-> delta, index |-> index, id |-> id, reason |-> reason]
              \in Events
  BY DEF Events, EventRecord

LEMMA ComposedAreEvents ==
    ASSUME NEW events \in Seq(Composed)
    PROVE  events \in Seq(Events)
  BY DEF Composed

LEMMA TextEventType ==
    ASSUME NEW text \in Seq(Token)
    PROVE  TextEvent(text) \in Seq(Composed)
<1>1. CASE text = <<>>
  BY <1>1 DEF TextEvent
<1>2. CASE text # <<>>
  <2>1. Delta("text", text) \in Composed
    BY <1>2, EventType DEF Delta, CallEvent, MaybeToken, Composed
  <2>. QED
    BY <1>2, <2>1 DEF TextEvent
<1>. QED
  BY <1>1, <1>2

(* The calls in a text are numbered below the text's room for calls.       *)
LEMMA InlineEventsType ==
    ASSUME NEW text \in Seq(Token), NEW size \in {0} \cup {Len(chunk.content) : chunk \in Chunks},
           Len(text) <= BufferCap + size
    PROVE  InlineEvents(ParsedCalls(text).calls) \in Seq(Composed)
<1>. DEFINE found == ParsedCalls(text).calls
<1>1. found \in Seq(Token) /\ 2 * Len(found) <= Len(text)
  BY ParsedCallsType
<1>. HIDE DEF found
<1>2. size \in Nat /\ BufferCap \in Nat
  <2>1. \A chunk \in Chunks : Len(chunk.content) \in Nat
    BY UpstreamAssumption
  <2>. QED
    BY <2>1, UpstreamAssumption
<1>3. ASSUME NEW i \in 1 .. Len(found)
      PROVE  CallEvent("toolStart", <<found[i]>>, i - 1, found[i]) \in Composed
  <2>1. Len(found) \in Nat /\ Len(text) \in Nat
    BY <1>1
  <2>2. i - 1 \in 0 .. BufferCap + size /\ 2 * ((i - 1) + 1) <= BufferCap + size
    BY <1>1, <1>2, <2>1
  <2>3. i - 1 \in Indexes
    BY <2>2, UpstreamAssumption
  <2>4. found[i] \in Token /\ <<found[i]>> \in Seq(Token)
    BY <1>1
  <2>. QED
    BY <2>3, <2>4, EventType DEF CallEvent, MaybeToken, Composed
<1>4. InlineEvents(found) = [i \in 1 .. Len(found) |->
                               CallEvent("toolStart", <<found[i]>>, i - 1, found[i])]
  BY <1>1 DEF InlineEvents
<1>5. Len(found) \in Nat
  BY <1>1
<1>6. InlineEvents(found) \in Seq(Composed)
  <2>. DEFINE Element(i) == CallEvent("toolStart", <<found[i]>>, i - 1, found[i])
  <2>1. \A i \in 1 .. Len(found) : Element(i) \in Composed
    BY <1>3
  <2>2. InlineEvents(found) = [i \in 1 .. Len(found) |-> Element(i)]
    BY <1>4
  <2>. HIDE DEF Element
  <2>. QED
    BY <1>5, <2>1, <2>2
<1>. QED
  BY <1>6 DEF found

LEMMA TextOutType ==
    ASSUME NEW raw \in Seq(Token), NEW size \in {0} \cup {Len(chunk.content) : chunk \in Chunks},
           Len(raw) <= BufferCap + size
    PROVE  TextOut(raw) \in Seq(Composed)
<1>1. TextEvent(raw) \in Seq(Composed) /\ TextEvent(StripThinkTags(raw)) \in Seq(Composed)
  BY TextEventType, StripThinkTagsType
<1>2. TextEvent(ParsedCalls(raw).cleaned) \in Seq(Composed)
  BY TextEventType, ParsedCallsType
<1>3. InlineEvents(ParsedCalls(raw).calls) \in Seq(Composed)
  BY InlineEventsType
<1>4. TextEvent(ParsedCalls(raw).cleaned) \o InlineEvents(ParsedCalls(raw).calls) \in Seq(Composed)
  BY <1>2, <1>3
<1>. QED
  BY <1>1, <1>4 DEF TextOut

LEMMA FinalEventsType ==
    ASSUME UpstreamType, NEW end \in Composed
    PROVE  FinalEvents(end) \in Seq(Composed)
<1>1. thinkBuf \in Seq(Token) /\ reasoningBuf \in Seq(Token) /\ Len(thinkBuf) <= BufferCap + 0
  BY UpstreamAssumption DEF UpstreamType
<1>2. TextEvent(ParsedCalls(thinkBuf).cleaned) \in Seq(Composed)
  BY <1>1, TextEventType, ParsedCallsType
<1>3. InlineEvents(ParsedCalls(thinkBuf).calls) \in Seq(Composed)
  BY <1>1, InlineEventsType
<1>4. (IF hasContent THEN <<>> ELSE reasoningBuf) \in Seq(Token)
  BY <1>1
<1>5. TextEvent(IF hasContent THEN <<>> ELSE reasoningBuf) \in Seq(Composed)
  BY <1>4, TextEventType
<1>. QED
  BY <1>2, <1>3, <1>5 DEF FinalEvents

LEMMA CappedType ==
    ASSUME NEW old \in Seq(Token), NEW new \in Seq(Token), Len(new) <= ReasoningCap
    PROVE  Capped(old, new) \in Seq(Token)
<1>. DEFINE over == Len(old) + Len(new) - ReasoningCap
<1>1. over \in Int /\ over <= Len(old) /\ Len(old) \in Nat
  BY UpstreamAssumption
<1>2. CASE over > 0
  <2>1. SubSeq(old, over + 1, Len(old)) \in Seq(Token)
    BY <1>1, <1>2
  <2>. QED
    BY <1>2, <2>1 DEF Capped
<1>3. CASE ~(over > 0)
  BY <1>3 DEF Capped
<1>. QED
  BY <1>2, <1>3

-----------------------------------------------------------------------------
(* The parser and the handler keep the types of what they pass on.         *)

LEMMA ThoughtsType ==
    ASSUME lines \in Nat, NEW size \in Nat
    PROVE  Thoughts(size) \in Seq(Token)
<1>1. [tag |-> "thought", n |-> lines] \in Token
  BY DEF Token
<1>. QED
  BY <1>1 DEF Thoughts

LEMMA TokensType ==
    ASSUME lines \in Nat, NEW tags \in Seq(TextTags)
    PROVE  Tokens(tags) \in Seq(Token) /\ Len(Tokens(tags)) = Len(tags)
<1>1. \A i \in 1 .. Len(tags) : [tag |-> tags[i], n |-> lines] \in Token
  BY DEF Token
<1>2. Tokens(tags) = [i \in 1 .. Len(tags) |-> [tag |-> tags[i], n |-> lines]]
  BY DEF Tokens
<1>. HIDE DEF Token
<1>. QED
  BY <1>1, <1>2

LEMMA NativeType ==
    ASSUME NEW index \in Indexes
    PROVE  Native(index) \in Token
  BY UpstreamAssumption DEF Native, Token

LEMMA CallEventsType ==
    ASSUME NEW index \in Indexes, NEW size \in Nat
    PROVE  CallEvents(index, size) \in Seq(ParsedEvents)
<1>. DEFINE args == [i \in 1 .. size |-> Native(index)]
<1>1. Native(index) \in Token
  BY NativeType
<1>2. args \in Seq(Token)
  BY <1>1
<1>. HIDE DEF args
<1>3. CallEvent("toolStart", args, index, Native(index)) \in ParsedEvents
  BY <1>1, <1>2, EventType DEF ParsedEvents, CallEvent, MaybeToken
<1>4. CallEvent("toolDelta", args, index, None) \in ParsedEvents
  BY <1>1, <1>2, EventType DEF ParsedEvents, CallEvent, MaybeToken
<1>. QED
  BY <1>3, <1>4 DEF CallEvents, args

LEMMA ReadChunkType ==
    ASSUME UpstreamType, NEW chunk \in Chunks, ReadChunk(chunk)
    PROVE  chan' \in Seq(ParsedEvents) /\ lines' \in Nat
<1>. DEFINE thoughts == Thoughts(chunk.reasoning)
            content == Tokens(chunk.content)
<1>1. /\ chunk.reasoning \in Nat /\ chunk.content \in Seq(TextTags)
      /\ chunk.call # None => chunk.call[1] \in Indexes /\ chunk.call[2] \in Nat
  BY UpstreamAssumption
<1>2. lines \in Nat /\ lines' = lines + 1
  BY DEF UpstreamType, ReadChunk
<1>3. thoughts \in Seq(Token) /\ content \in Seq(Token) /\ OneChunk(content)
  BY <1>1, <1>2, ThoughtsType, TokensType DEF OneChunk
<1>4. chan' = (IF thoughts # <<>> THEN <<Delta("thinking", thoughts)>> ELSE <<>>)
              \o (IF content # <<>> THEN <<Delta("text", content)>> ELSE <<>>)
              \o (IF chunk.call # None THEN CallEvents(chunk.call[1], chunk.call[2]) ELSE <<>>)
  BY DEF ReadChunk
<1>. HIDE DEF thoughts, content
<1>5. thoughts # <<>> => Delta("thinking", thoughts) \in ParsedEvents
  BY <1>3, EventType DEF ParsedEvents, Delta, CallEvent, MaybeToken
<1>6. content # <<>> => Delta("text", content) \in ParsedEvents
  BY <1>3, EventType DEF ParsedEvents, Delta, CallEvent, MaybeToken
<1>7. chunk.call # None => CallEvents(chunk.call[1], chunk.call[2]) \in Seq(ParsedEvents)
  BY <1>1, CallEventsType
<1>. QED
  BY <1>2, <1>4, <1>5, <1>6, <1>7

LEMMA EndType ==
    ASSUME NEW type \in {"done", "error"}, NEW reason \in Reasons \cup {None}
    PROVE  <<End(type, reason)>> \in Seq(ParsedEvents)
<1>1. End(type, reason) =
        [type |-> type, delta |-> <<>>, index |-> None, id |-> None, reason |-> reason]
  BY DEF End, Delta, CallEvent
<1>2. <<>> \in Seq(Token) /\ None \in MaybeToken
  BY DEF MaybeToken
<1>3. /\ type \in {"thinking", "text", "toolStart", "toolDelta", "done", "error"}
      /\ type \notin {"thinking", "text"} /\ type \notin {"toolStart", "toolDelta"}
  OBVIOUS
<1>4. End(type, reason) \in Events
  BY <1>1, <1>2, <1>3 DEF Events, EventRecord
<1>5. End(type, reason).type = type /\ type # "text"
  BY <1>1
<1>6. End(type, reason) \in ParsedEvents
  BY <1>4, <1>5 DEF ParsedEvents
<1>. QED
  BY <1>6

(* An event taken from the channel.                                        *)
LEMMA TakenType ==
    ASSUME UpstreamType, NEW types, Taken(types)
    PROVE  /\ Head(chan) \in ParsedEvents /\ Head(chan).type \in types
           /\ chan' = Tail(chan) /\ chan' \in Seq(ParsedEvents)
           /\ <<Head(chan)>> \in Seq(Events)
<1>1. Head(chan) \in ParsedEvents /\ Tail(chan) \in Seq(ParsedEvents)
  BY DEF UpstreamType, Taken
<1>2. Head(chan) \in Events
  BY <1>1 DEF ParsedEvents
<1>. QED
  BY <1>1, <1>2 DEF Taken

LEMMA TakeTextType ==
    ASSUME UpstreamType, TakeText
    PROVE  UpstreamType' /\ queue' \in Seq(Composed)
<1>. DEFINE delta == Head(chan).delta
            raw == thinkBuf \o delta
<1>1. /\ Head(chan) \in ParsedEvents /\ Head(chan).type = "text"
      /\ chan' \in Seq(ParsedEvents)
  BY TakenType DEF TakeText
<1>2. delta \in Seq(Token) /\ OneChunk(delta)
  BY <1>1 DEF ParsedEvents, Events, EventRecord
<1>3. /\ thinkBuf' = IF KeepsBuffering(raw) THEN raw ELSE <<>>
      /\ queue' = TextOut(raw)
      /\ UNCHANGED <<lines, reasoningBuf>>
  BY DEF TakeText
<1>. HIDE DEF delta
<1>4. PICK chunk \in Chunks : Len(delta) = Len(chunk.content)
  BY <1>2 DEF OneChunk
<1>5. /\ thinkBuf \in Seq(Token) /\ Len(thinkBuf) <= BufferCap
      /\ BufferCap \in Nat /\ Len(delta) \in Nat /\ Len(thinkBuf) \in Nat
  BY <1>2, UpstreamAssumption DEF UpstreamType
<1>6. raw \in Seq(Token) /\ Len(raw) = Len(thinkBuf) + Len(delta)
  BY <1>2, <1>5
<1>7. Len(raw) <= BufferCap + Len(delta)
  BY <1>5, <1>6
<1>. HIDE DEF raw
<1>8. TextOut(raw) \in Seq(Events) /\ TextOut(raw) \in Seq(Composed)
  BY <1>4, <1>6, <1>7, TextOutType, ComposedAreEvents
<1>9. thinkBuf' \in Seq(Token) /\ Len(thinkBuf') <= BufferCap
  <2>1. KeepsBuffering(raw) => Len(raw) <= BufferCap
    BY DEF KeepsBuffering
  <2>. QED
    BY <1>3, <1>5, <1>6, <2>1
<1>. QED
  BY <1>1, <1>3, <1>8, <1>9 DEF UpstreamType

LEMMA TakeThinkingType ==
    ASSUME UpstreamType, TakeThinking
    PROVE  UpstreamType'
<1>1. /\ Head(chan) \in ParsedEvents /\ chan' \in Seq(ParsedEvents)
      /\ <<Head(chan)>> \in Seq(Events)
  BY TakenType DEF TakeThinking
<1>2. Head(chan).delta \in Seq(Token)
  BY <1>1 DEF ParsedEvents, Events, EventRecord
<1>3. reasoningBuf' \in Seq(Token)
  BY <1>2, CappedType DEF TakeThinking, UpstreamType
<1>. QED
  BY <1>1, <1>3 DEF UpstreamType, TakeThinking

LEMMA TakeDoneType ==
    ASSUME UpstreamType, TakeDone
    PROVE  UpstreamType' /\ queue' \in Seq(Composed)
<1>1. /\ Head(chan) \in ParsedEvents /\ Head(chan).type = "done"
      /\ chan' \in Seq(ParsedEvents)
  BY TakenType DEF TakeDone
<1>2. Head(chan) \in Composed
  BY <1>1 DEF ParsedEvents, Composed
<1>3. queue' \in Seq(Events) /\ queue' \in Seq(Composed)
  BY <1>2, FinalEventsType, ComposedAreEvents DEF TakeDone
<1>4. <<>> \in Seq(Token) /\ Len(<<>>) <= BufferCap
  BY UpstreamAssumption
<1>. QED
  BY <1>1, <1>3, <1>4 DEF UpstreamType, TakeDone

LEMMA UpstreamKeepsType ==
    ASSUME UpstreamType, Upstream
    PROVE  UpstreamType'
<1>1. ASSUME NEW chunk \in Chunks, ReadChunk(chunk), UNCHANGED <<queue, closing>>
      PROVE  UpstreamType'
  <2>1. chan' \in Seq(ParsedEvents) /\ lines' \in Nat
    BY <1>1, ReadChunkType
  <2>. QED
    BY <1>1, <2>1 DEF UpstreamType, ReadChunk, normalizer
<1>2. ASSUME NEW reason \in Reasons, ReadDone(reason), UNCHANGED <<queue, closing>>
      PROVE  UpstreamType'
  BY <1>2, EndType DEF UpstreamType, ReadDone, normalizer
<1>3. CASE ReadError /\ UNCHANGED <<queue, closing>>
  BY <1>3, EndType DEF UpstreamType, ReadError, normalizer
<1>4. CASE BodyEnds /\ UNCHANGED <<queue, closing>>
  BY <1>4 DEF UpstreamType, BodyEnds, normalizer
<1>5. CASE TakeThinking
  BY <1>5, TakeThinkingType
<1>6. CASE TakeHugeThinking
  <2>1. chan' \in Seq(ParsedEvents)
    BY <1>6, TakenType DEF TakeHugeThinking
  <2>. QED
    BY <1>6, <2>1 DEF UpstreamType, TakeHugeThinking, normalizer
<1>7. CASE TakeText
  BY <1>7, TakeTextType
<1>8. CASE TakeCall
  <2>1. chan' \in Seq(ParsedEvents) /\ <<Head(chan)>> \in Seq(Events)
    BY <1>8, TakenType DEF TakeCall
  <2>. QED
    BY <1>8, <2>1 DEF UpstreamType, TakeCall, normalizer
<1>9. CASE TakeDone
  BY <1>9, TakeDoneType
<1>10. CASE TakeError
  <2>1. chan' \in Seq(ParsedEvents) /\ <<Head(chan)>> \in Seq(Events)
    BY <1>10, TakenType DEF TakeError
  <2>. QED
    BY <1>10, <2>1 DEF UpstreamType, TakeError, normalizer
<1>11. CASE CloseStream
  BY <1>11 DEF UpstreamType, CloseStream, upstream, parser, normalizer
<1>12. CASE TakeEndlessText
  <2>1. chan' \in Seq(ParsedEvents)
    BY <1>12, TakenType DEF TakeEndlessText
  <2>. QED
    BY <1>12, <2>1 DEF UpstreamType, TakeEndlessText, normalizer
<1>. QED
  BY <1>1, <1>2, <1>3, <1>4, <1>5, <1>6, <1>7, <1>8, <1>9, <1>10, <1>11, <1>12
     DEF Upstream, Read, Take

-----------------------------------------------------------------------------
(* What the parser and the handler do to the rest of the invariant.        *)

LEMMA TailHasType ==
    ASSUME NEW S, NEW s \in Seq(S), s # <<>>, NEW type
    PROVE  HasType(type, s) <=> Head(s).type = type \/ HasType(type, Tail(s))
<1>1. /\ Len(s) \in Nat \ {0} /\ Head(s) = s[1] /\ DOMAIN s = 1 .. Len(s)
      /\ DOMAIN Tail(s) = 1 .. Len(s) - 1
      /\ \A i \in 1 .. Len(s) - 1 : Tail(s)[i] = s[i + 1]
  BY HeadTailProperties
<1>2. ASSUME HasType(type, s) PROVE Head(s).type = type \/ HasType(type, Tail(s))
  <2>1. PICK i \in 1 .. Len(s) : s[i].type = type
    BY <1>1, <1>2 DEF HasType
  <2>2. CASE i = 1
    BY <1>1, <2>1, <2>2
  <2>3. CASE i # 1
    <3>1. i - 1 \in 1 .. Len(s) - 1 /\ Tail(s)[i - 1] = s[(i - 1) + 1] /\ (i - 1) + 1 = i
      BY <1>1, <2>3
    <3>. QED
      BY <1>1, <2>1, <3>1 DEF HasType
  <2>. QED
    BY <2>2, <2>3
<1>3. ASSUME HasType(type, Tail(s)) PROVE HasType(type, s)
  <2>1. PICK i \in 1 .. Len(s) - 1 : Tail(s)[i].type = type
    BY <1>1, <1>3 DEF HasType
  <2>2. i + 1 \in 1 .. Len(s) /\ s[i + 1].type = type
    BY <1>1, <2>1
  <2>. QED
    BY <1>1, <2>2 DEF HasType
<1>4. Head(s).type = type => HasType(type, s)
  BY <1>1 DEF HasType
<1>. QED
  BY <1>2, <1>3, <1>4

LEMMA OneHasType ==
    ASSUME NEW e, NEW type
    PROVE  HasType(type, <<e>>) <=> e.type = type
  BY DEF HasType

LEMMA NoneHasType ==
    ASSUME NEW type
    PROVE  ~HasType(type, <<>>)
  BY DEF HasType

LEMMA ComposedHasType ==
    ASSUME NEW events \in Seq(Composed)
    PROVE  ~HasType("toolDelta", events)
  BY DEF HasType, Composed

LEMMA UpstreamWorks ==
    ASSUME Upstream
    PROVE  closing = None /\ queue = <<>>
  BY DEF Upstream, Read, Take, ReadChunk, ReadDone, ReadError, BodyEnds, CloseStream, Drained,
         TakeThinking, TakeHugeThinking, TakeText, TakeEndlessText, TakeCall, TakeDone,
         TakeError, Taken, Ready

LEMMA ReadChunkStarts ==
    ASSUME StartInv, agent = "claude", agent' = agent, started' = started, started \in BOOLEAN,
           UpstreamType, NEW chunk \in Chunks, ReadChunk(chunk), UNCHANGED queue
    PROVE  StartInv'
<1>1. chan = <<>> /\ queue = <<>> /\ queue' = <<>>
  BY DEF ReadChunk, Drained, Ready
<1>2. seenIndexes # {} => started
  BY <1>1, NoneHasType DEF StartInv
<1>3. CASE started
  BY <1>3 DEF StartInv
<1>4. CASE ~started
  <2>. DEFINE thoughts == Thoughts(chunk.reasoning)
              content == Tokens(chunk.content)
              first == (IF thoughts # <<>> THEN <<Delta("thinking", thoughts)>> ELSE <<>>)
                       \o (IF content # <<>> THEN <<Delta("text", content)>> ELSE <<>>)
              tool == IF chunk.call # None THEN CallEvents(chunk.call[1], chunk.call[2]) ELSE <<>>
              args == [i \in 1 .. chunk.call[2] |-> Native(chunk.call[1])]
              start == CallEvent("toolStart", args, chunk.call[1], Native(chunk.call[1]))
  <2>1. seenIndexes = {}
    BY <1>2, <1>4
  <2>2. chan' = first \o tool
    BY DEF ReadChunk
  <2>3. chunk.call # None => tool = <<start>>
    BY <2>1 DEF CallEvents
  <2>4. Delta("thinking", thoughts).type = "thinking" /\ Delta("text", content).type = "text"
    BY DEF Delta, CallEvent
  <2>5. start.type = "toolStart"
    BY DEF CallEvent
  <2>. HIDE DEF thoughts, content, start
  <2>6. \A i \in DOMAIN first : first[i].type # "toolDelta"
    BY <2>4
  <2>7. \A i \in DOMAIN tool : tool[i].type = "toolStart"
    BY <2>3, <2>5
  <2>. DEFINE All == {Delta("thinking", thoughts), Delta("text", content), start}
  <2>8. first \in Seq(All) /\ tool \in Seq(All)
    <3>. DEFINE one == Delta("thinking", thoughts)
                two == Delta("text", content)
    <3>1. one \in All /\ two \in All /\ start \in All
      OBVIOUS
    <3>2. tool = <<start>> \/ tool = <<>>
      BY <2>3
    <3>. HIDE DEF one, two, All
    <3>3. first = (IF thoughts # <<>> THEN <<one>> ELSE <<>>)
                    \o (IF content # <<>> THEN <<two>> ELSE <<>>)
      BY DEF one, two
    <3>. HIDE DEF first, tool
    <3>. DEFINE a == IF thoughts # <<>> THEN <<one>> ELSE <<>>
                b == IF content # <<>> THEN <<two>> ELSE <<>>
    <3>4. a \in Seq(All) /\ b \in Seq(All)
      BY <3>1
    <3>5. first = a \o b
      BY <3>3
    <3>6. <<start>> \in Seq(All) /\ <<>> \in Seq(All)
      BY <3>1
    <3>7. tool \in Seq(All)
      BY <3>2, <3>6, Zenon
    <3>. HIDE DEF a, b
    <3>. QED
      BY <3>4, <3>5, <3>7, ConcatProperties
  <2>. HIDE DEF first, tool, All
  <2>9. \A i \in DOMAIN chan' : chan'[i].type # "toolDelta"
    BY <2>2, <2>6, <2>7, <2>8
  <2>10. ~HasType("toolDelta", chan')
    BY <2>9 DEF HasType
  <2>11. CASE chunk.call = None
    <3>1. seenIndexes' = {}
      BY <2>1, <2>11 DEF ReadChunk
    <3>. QED
      BY <1>1, <2>10, <3>1, NoneHasType DEF StartInv
  <2>12. CASE chunk.call # None
    <3>1. Len(tool) = 1 /\ 1 \in DOMAIN tool
      BY <2>3, <2>12
    <3>2. /\ Len(first) \in Nat /\ first \o tool \in Seq(All)
          /\ Len(first \o tool) = Len(first) + 1
      <4>1. first \in Seq(All) /\ tool \in Seq(All) /\ Len(tool) = 1
        BY <2>8, <3>1
      <4>2. first \o tool \in Seq(All) /\ Len(first \o tool) = Len(first) + Len(tool)
        BY <4>1, ConcatProperties
      <4>3. Len(first) \in Nat
        BY <4>1
      <4>. QED
        BY <4>1, <4>2, <4>3
    <3>3. (first \o tool)[Len(first) + 1] = tool[1]
      BY <2>8, <3>1, <3>2, ConcatProperties
    <3>4. Len(first) + 1 \in DOMAIN chan' /\ chan'[Len(first) + 1] = tool[1]
      BY <2>2, <3>2, <3>3
    <3>5. HasType("toolStart", chan')
      BY <2>7, <3>1, <3>4 DEF HasType
    <3>. QED
      BY <1>1, <2>10, <3>5, NoneHasType DEF StartInv
  <2>. QED
    BY <2>11, <2>12
<1>. QED
  BY <1>3, <1>4

LEMMA TakeStarts ==
    ASSUME StartInv, agent = "claude", agent' = agent, started' = started,
           UpstreamType, Take
    PROVE  StartInv'
<1>1. queue = <<>> /\ chan # <<>> /\ chan' = Tail(chan) /\ seenIndexes' = seenIndexes
  BY DEF Take, TakeThinking, TakeHugeThinking, TakeText, TakeEndlessText, TakeCall, TakeDone,
         TakeError, Taken, Ready
<1>2. chan \in Seq(ParsedEvents)
  BY DEF UpstreamType
<1>3. \/ queue' = <<Head(chan)>>
      \/ Head(chan).type # "toolStart" /\ ~HasType("toolDelta", queue')
  <2>1. CASE TakeThinking \/ TakeCall \/ TakeError
    BY <2>1 DEF TakeThinking, TakeCall, TakeError
  <2>2. CASE TakeHugeThinking \/ TakeEndlessText
    <3>1. queue' = <<>> /\ Head(chan).type \in {"thinking", "text"}
      BY <1>1, <2>2 DEF TakeHugeThinking, TakeEndlessText, Taken
    <3>. QED
      BY <3>1, NoneHasType
  <2>3. CASE TakeText
    <3>1. Head(chan).type = "text" /\ queue' \in Seq(Composed)
      BY <2>3, TakeTextType DEF TakeText, Taken
    <3>. QED
      BY <3>1, ComposedHasType
  <2>4. CASE TakeDone
    <3>1. Head(chan).type = "done" /\ queue' \in Seq(Composed)
      BY <2>4, TakeDoneType DEF TakeDone, Taken
    <3>. QED
      BY <3>1, ComposedHasType
  <2>. QED
    BY <2>1, <2>2, <2>3, <2>4 DEF Take
<1>4. HasType("toolStart", chan) => HasType("toolStart", chan') \/ HasType("toolStart", queue')
  BY <1>1, <1>2, <1>3, TailHasType, OneHasType
<1>5. HasType("toolDelta", chan') \/ HasType("toolDelta", queue') => HasType("toolDelta", chan)
  BY <1>1, <1>2, <1>3, TailHasType, OneHasType
<1>6. ~HasType("toolStart", queue)
  BY <1>1, NoneHasType
<1>. QED
  BY <1>1, <1>4, <1>5, <1>6 DEF StartInv

LEMMA UpstreamStarts ==
    ASSUME StartInv, agent' = agent, started' = started, started \in BOOLEAN,
           UpstreamType, Upstream
    PROVE  StartInv'
<1>1. CASE agent # "claude"
  BY <1>1 DEF StartInv
<1>2. CASE agent = "claude"
  <2>1. ASSUME NEW chunk \in Chunks, ReadChunk(chunk), UNCHANGED <<queue, closing>>
        PROVE  StartInv'
    BY <1>2, <2>1, ReadChunkStarts
  <2>2. ASSUME chan = <<>>, UNCHANGED <<queue, seenIndexes>>,
               ~HasType("toolDelta", chan')
        PROVE  StartInv'
    BY <1>2, <2>2, NoneHasType DEF StartInv
  <2>3. ASSUME NEW reason \in Reasons, ReadDone(reason), UNCHANGED <<queue, closing>>
        PROVE  StartInv'
    <3>1. End("done", reason).type = "done"
      BY DEF End, Delta, CallEvent
    <3>2. ~HasType("toolDelta", chan')
      BY <2>3, <3>1, OneHasType DEF ReadDone
    <3>. QED
      BY <2>2, <2>3, <3>2 DEF ReadDone, Drained
  <2>4. CASE ReadError /\ UNCHANGED <<queue, closing>>
    <3>1. End("error", None).type = "error"
      BY DEF End, Delta, CallEvent
    <3>2. ~HasType("toolDelta", chan')
      BY <2>4, <3>1, OneHasType DEF ReadError
    <3>. QED
      BY <2>2, <2>4, <3>2 DEF ReadError, Drained
  <2>5. CASE BodyEnds /\ UNCHANGED <<queue, closing>>
    BY <2>2, <2>5, NoneHasType DEF BodyEnds, Drained
  <2>6. CASE Take
    BY <1>2, <2>6, TakeStarts
  <2>7. CASE CloseStream
    BY <2>2, <2>7, NoneHasType DEF CloseStream, Drained, upstream, parser
  <2>. QED
    BY <2>1, <2>3, <2>4, <2>5, <2>6, <2>7 DEF Upstream, Read
<1>. QED
  BY <1>1, <1>2

(* A step of the upstream does not touch the answer.                       *)
LEMMA UpstreamKeeps ==
    ASSUME StreamInv, Upstream, UNCHANGED <<agent, answer, emitter, logged>>
    PROVE  StreamInv'
<1>1. closing = None
  BY UpstreamWorks
<1>2. UNCHANGED <<started, next, thinkIdx, textIdx, calls, said>>
  BY DEF emitter
<1>3. UpstreamType' /\ StartInv'
  BY <1>2, UpstreamKeepsType, UpstreamStarts DEF StreamInv, EmitterType
<1>4. AnswerType' /\ EmitterType'
  BY <1>2 DEF StreamInv, AnswerType, EmitterType
<1>5. PhaseInv'
  BY <1>1, <1>2 DEF StreamInv, PhaseInv, Finishing
<1>6. OpenInv' /\ DistinctInv'
  BY <1>2 DEF StreamInv, OpenInv, IsOpen, DistinctInv, Announced
<1>7. OwnedInv'
  BY <1>2 DEF StreamInv, OwnedInv, Owned, Announced
<1>8. CallsInv'
  BY <1>1, <1>2 DEF StreamInv, CallsInv, Finishing
<1>. QED
  BY <1>3, <1>4, <1>5, <1>6, <1>7, <1>8 DEF StreamInv

-----------------------------------------------------------------------------
(* What the writes of an emitter do to the answer, and which step of       *)
(* StreamProtocol each of them is.                                         *)

LEMMA BeginWrite ==
    ASSUME AnswerType, answer.phase = "waiting", WriteBegin
    PROVE  /\ Protocol!Begin
           /\ AnswerType' /\ answer'.phase = "live" /\ answer'.items = answer.items
<1>1. answer' = [phase |-> "live", items |-> answer.items, reason |-> answer.reason]
  BY DEF AnswerType, WriteBegin
<1>. QED
  BY <1>1 DEF AnswerType, WriteBegin, Protocol!Begin

(* The items with one more, open and empty.                                *)
Opened(kind) ==
    /\ AnswerType' /\ answer'.phase = answer.phase
    /\ Len(answer'.items) = Len(answer.items) + 1
    /\ \A i \in 1 .. Len(answer.items) : answer'.items[i] = answer.items[i]
    /\ answer'.items[Len(answer.items) + 1].open
    /\ answer'.items[Len(answer.items) + 1].kind = kind

LEMMA OpenWrite ==
    ASSUME AnswerType, answer.phase = "live",
           NEW index, index = Len(answer.items),
           NEW kind \in {"thinking", "text", "call"}, NEW id \in MaybeToken,
           WriteOpen(index, kind, id),
           kind # "call" =>
               \A i \in DOMAIN answer.items :
                   answer.items[i].kind = kind => ~answer.items[i].open
    PROVE  Protocol!NewItem /\ Opened(kind)
<1>. DEFINE item == [kind |-> kind, open |-> TRUE, content |-> <<>>, whole |-> None, id |-> id]
            items == answer.items
<1>1. items \in Seq(Items) /\ Len(items) \in Nat /\ index \notin 0 .. Len(items) - 1
  BY DEF AnswerType
<1>2. item \in Items /\ item.open /\ item.kind = kind /\ item.content = <<>>
  BY DEF Items
<1>3. answer' = [answer EXCEPT !.items =
                    IF index \in 0 .. (Len(@) - 1) THEN [@ EXCEPT ![index + 1] = item]
                                                    ELSE Append(@, item)]
  BY DEF WriteOpen
<1>. HIDE DEF item
<1>4. answer' = [phase |-> answer.phase, items |-> Append(items, item), reason |-> answer.reason]
  BY <1>1, <1>3 DEF AnswerType
<1>5. /\ answer'.items = Append(items, item)
      /\ answer'.phase = answer.phase /\ answer'.reason = answer.reason
      /\ answer' = [phase |-> answer'.phase, items |-> answer'.items, reason |-> answer'.reason]
      /\ answer' = [answer EXCEPT !.items = answer'.items]
  BY <1>4 DEF AnswerType
<1>. HIDE DEF items
<1>6. /\ Append(items, item) \in Seq(Items)
      /\ Len(Append(items, item)) = Len(items) + 1
      /\ \A i \in 1 .. Len(items) : Append(items, item)[i] = items[i]
      /\ Append(items, item)[Len(items) + 1] = item
  BY <1>1, <1>2, AppendProperties
<1>7. Opened(kind)
  BY <1>2, <1>5, <1>6 DEF Opened, AnswerType, items
<1>8. Protocol!NewItem
  <2>1. answer'.items[Len(items) + 1] = item
    BY <1>5, <1>6
  <2>2. Len(answer'.items) = Len(items) + 1
    BY <1>5, <1>6
  <2>. QED
    BY <1>2, <1>5, <2>1, <2>2 DEF Protocol!NewItem, Protocol!OnlyItems, Protocol!Open, items
<1>. QED
  BY <1>7, <1>8

(* The items, but for the content of one.                                  *)
Extended ==
    /\ AnswerType' /\ answer'.phase = answer.phase
    /\ Len(answer'.items) = Len(answer.items)
    /\ \A i \in 1 .. Len(answer.items) :
           /\ answer'.items[i].open = answer.items[i].open
           /\ answer'.items[i].kind = answer.items[i].kind

LEMMA DeltaWrite ==
    ASSUME AnswerType, answer.phase = "live",
           NEW index, NEW kind, IsOpen(index, kind),
           NEW delta \in Seq(Token), delta # <<>>, WriteDelta(index, delta)
    PROVE  Protocol!Extend /\ Extended
<1>. DEFINE items == answer.items
            i == index + 1
            new == items[i].content \o delta
<1>1. items \in Seq(Items) /\ i \in 1 .. Len(items) /\ items[i].open /\ items[i] \in Items
  BY DEF AnswerType, IsOpen
<1>2. answer' = [answer EXCEPT !.items[i].content = @ \o delta]
  BY DEF WriteDelta
<1>3. answer' = [answer EXCEPT !.items[i].content = new]
  BY <1>2
<1>4. new \in Seq(Token) /\ items[i].content \in Seq(Token)
  BY <1>1 DEF Items
<1>5. /\ Len(items[i].content) < Len(new)
      /\ items[i].content = SubSeq(new, 1, Len(items[i].content))
  BY <1>4
<1>. HIDE DEF i, new
<1>6. answer'.items = [items EXCEPT ![i].content = new]
  BY <1>3 DEF AnswerType
<1>7. /\ answer'.phase = answer.phase /\ answer'.reason = answer.reason
      /\ answer' = [phase |-> answer'.phase, items |-> answer'.items, reason |-> answer'.reason]
  BY <1>3 DEF AnswerType
<1>. HIDE DEF items
<1>8. [items[i] EXCEPT !.content = new] \in Items
  BY <1>1, <1>4 DEF Items
<1>9. /\ answer'.items = [items EXCEPT ![i] = [items[i] EXCEPT !.content = new]]
  BY <1>6
<1>10. answer'.items \in Seq(Items) /\ Len(answer'.items) = Len(items)
  BY <1>1, <1>8, <1>9
<1>11. answer'.items[i].content = new
  BY <1>1, <1>9 DEF Items
<1>12. ASSUME NEW j \in 1 .. Len(items)
       PROVE  answer'.items[j].open = items[j].open /\ answer'.items[j].kind = items[j].kind
  <2>1. items[j] \in Items
    BY <1>1
  <2>2. CASE j = i
    BY <1>1, <1>9, <2>1, <2>2 DEF Items
  <2>3. CASE j # i
    BY <1>1, <1>9, <2>3
  <2>. QED
    BY <2>2, <2>3
<1>13. Protocol!Extend
  <2>1. i \in DOMAIN items /\ Protocol!Open(i)
    BY <1>1 DEF Protocol!Open, items
  <2>. QED
    BY <1>3, <1>5, <1>11, <2>1 DEF Protocol!Extend, items
<1>14. Extended
  BY <1>7, <1>10, <1>12 DEF Extended, AnswerType, items
<1>. QED
  BY <1>13, <1>14

(* The items, of which one is closed.                                      *)
Stopped(index) ==
    /\ AnswerType' /\ answer'.phase = answer.phase
    /\ Len(answer'.items) = Len(answer.items)
    /\ ~answer'.items[index + 1].open
    /\ \A i \in 1 .. Len(answer.items) : i # index + 1 => answer'.items[i] = answer.items[i]

LEMMA StopWrite ==
    ASSUME AnswerType, answer.phase = "live",
           NEW index, NEW kind, IsOpen(index, kind),
           NEW whole \in Seq(Token) \cup {None}, WriteStop(index, whole)
    PROVE  Protocol!Close /\ Stopped(index)
<1>. DEFINE items == answer.items
            i == index + 1
            closed == [items[i] EXCEPT !.open = FALSE, !.whole = whole]
<1>1. items \in Seq(Items) /\ i \in 1 .. Len(items) /\ items[i].open /\ items[i] \in Items
  BY DEF AnswerType, IsOpen
<1>2. answer' = [answer EXCEPT !.items[i].open = FALSE, !.items[i].whole = whole]
  BY DEF WriteStop
<1>. HIDE DEF i
<1>3. closed \in Items /\ closed.open = FALSE /\ closed.whole = whole
  BY <1>1 DEF Items
<1>4. answer'.items = [items EXCEPT ![i] = closed]
  BY <1>1, <1>2 DEF AnswerType
<1>5. /\ answer'.phase = answer.phase /\ answer'.reason = answer.reason
      /\ answer' = [phase |-> answer'.phase, items |-> answer'.items, reason |-> answer'.reason]
  BY <1>2 DEF AnswerType
<1>. HIDE DEF closed, items
<1>6. /\ answer'.items \in Seq(Items) /\ Len(answer'.items) = Len(items)
      /\ answer'.items[i] = closed
      /\ \A j \in 1 .. Len(items) : j # i => answer'.items[j] = items[j]
  BY <1>1, <1>3, <1>4
<1>7. Protocol!Close
  <2>1. i \in DOMAIN items /\ Protocol!Open(i)
    BY <1>1 DEF Protocol!Open, items
  <2>2. answer' = [answer EXCEPT !.items[i].open = FALSE,
                                 !.items[i].whole = answer'.items[i].whole]
    BY <1>2, <1>3, <1>6
  <2>. QED
    BY <2>1, <2>2 DEF Protocol!Close, items
<1>8. Stopped(index)
  BY <1>3, <1>5, <1>6 DEF Stopped, AnswerType, items, i
<1>. QED
  BY <1>7, <1>8

LEMMA EndWrite ==
    ASSUME AnswerType, answer.phase # "over", NEW reason,
           \A i \in DOMAIN answer.items : ~answer.items[i].open, WriteEnd(reason)
    PROVE  /\ Protocol!Finish
           /\ AnswerType' /\ answer'.phase = "over" /\ answer'.items = answer.items
<1>1. answer' = [phase |-> "over", items |-> answer.items, reason |-> reason]
  BY DEF AnswerType, WriteEnd
<1>2. answer' = [answer EXCEPT !.phase = "over", !.reason = answer'.reason]
  <2>1. answer'.reason = reason
    BY <1>1
  <2>2. answer' = [answer EXCEPT !.phase = "over", !.reason = reason]
    BY DEF WriteEnd
  <2>. QED
    BY <2>1, <2>2
<1>. QED
  BY <1>1, <1>2 DEF AnswerType, Protocol!Finish, Protocol!Open

-----------------------------------------------------------------------------
(* What is open, and who knows of it, after each kind of write.            *)

ItemsInv == OpenInv /\ DistinctInv /\ OwnedInv

LEMMA IndexDomain ==
    ASSUME AnswerType
    PROVE  /\ Len(answer.items) \in Nat /\ DOMAIN answer.items = 1 .. Len(answer.items)
           /\ None \notin Nat
  BY UpstreamAssumption DEF AnswerType

(* The calls announced, and as which items, stay as they are.              *)
SameCalls ==
    \A c \in Indexes : /\ Announced(c)' <=> Announced(c)
                       /\ Announced(c) => calls'[c].item = calls[c].item

LEMMA AfterExtend ==
    ASSUME AnswerType, ItemsInv, Extended, UNCHANGED <<thinkIdx, textIdx>>, SameCalls
    PROVE  ItemsInv'
<1>1. /\ Len(answer.items) \in Nat /\ DOMAIN answer.items = 1 .. Len(answer.items)
      /\ DOMAIN answer'.items = 1 .. Len(answer.items)
      /\ Len(answer'.items) = Len(answer.items)
  BY DEF AnswerType, Extended
<1>2. ASSUME NEW index, NEW kind, IsOpen(index, kind)
      PROVE  /\ index \in 0 .. Len(answer'.items) - 1
             /\ answer'.items[index + 1].open
             /\ answer'.items[index + 1].kind = kind
  <2>1. /\ index \in 0 .. Len(answer.items) - 1
        /\ answer.items[index + 1].open /\ answer.items[index + 1].kind = kind
    BY <1>2 DEF IsOpen
  <2>2. index + 1 \in DOMAIN answer.items
    BY <1>1, <2>1
  <2>3. /\ answer'.items[index + 1].open = answer.items[index + 1].open
        /\ answer'.items[index + 1].kind = answer.items[index + 1].kind
    BY <1>1, <2>2 DEF Extended
  <2>. QED
    BY <1>1, <2>1, <2>3
<1>3. OpenInv'
  <2>1. thinkIdx # None => IsOpen(thinkIdx, "thinking")'
    BY <1>2 DEF ItemsInv, OpenInv, IsOpen
  <2>2. textIdx # None => IsOpen(textIdx, "text")'
    BY <1>2 DEF ItemsInv, OpenInv, IsOpen
  <2>3. ASSUME NEW c \in Indexes, Announced(c)' PROVE IsOpen(calls[c].item, "call")'
    <3>1. Announced(c) /\ calls'[c].item = calls[c].item
      BY <2>3 DEF SameCalls
    <3>2. IsOpen(calls[c].item, "call")
      BY <3>1 DEF ItemsInv, OpenInv
    <3>. QED
      BY <1>2, <3>1, <3>2 DEF IsOpen
  <2>. QED
    BY <2>1, <2>2, <2>3 DEF OpenInv
<1>4. DistinctInv'
  BY DEF ItemsInv, DistinctInv, SameCalls
<1>5. OwnedInv'
  BY <1>1 DEF ItemsInv, OwnedInv, Owned, SameCalls, Extended
<1>. QED
  BY <1>3, <1>4, <1>5 DEF ItemsInv

(* What was open is open after another item was added.                     *)
LEMMA StaysOpen ==
    ASSUME AnswerType, NEW new, Opened(new), NEW index, NEW kind, IsOpen(index, kind)
    PROVE  /\ index \in 0 .. Len(answer'.items) - 1 /\ index \in 0 .. Len(answer.items) - 1
           /\ answer'.items[index + 1].open
           /\ answer'.items[index + 1].kind = kind
<1>1. /\ Len(answer.items) \in Nat /\ DOMAIN answer.items = 1 .. Len(answer.items)
  BY DEF AnswerType
<1>2. /\ index \in 0 .. Len(answer.items) - 1
      /\ answer.items[index + 1].open /\ answer.items[index + 1].kind = kind
  BY DEF IsOpen
<1>3. index + 1 \in DOMAIN answer.items
  BY <1>1, <1>2
<1>4. answer'.items[index + 1] = answer.items[index + 1]
  BY <1>1, <1>3 DEF Opened
<1>5. Len(answer'.items) = Len(answer.items) + 1
  BY <1>1 DEF Opened
<1>. QED
  BY <1>1, <1>2, <1>4, <1>5

LEMMA AfterOpenBlock ==
    ASSUME AnswerType, ItemsInv, NEW kind \in {"thinking", "text"}, Opened(kind),
           kind = "thinking" => /\ thinkIdx = None /\ thinkIdx' = Len(answer.items)
                                /\ textIdx' = textIdx,
           kind = "text" => /\ textIdx = None /\ textIdx' = Len(answer.items)
                            /\ thinkIdx' = thinkIdx,
           calls' = calls
    PROVE  ItemsInv'
<1>. DEFINE n == Len(answer.items)
<1>1. /\ n \in Nat /\ DOMAIN answer.items = 1 .. n /\ DOMAIN answer'.items = 1 .. n + 1
      /\ Len(answer'.items) = n + 1
  BY DEF AnswerType, Opened
<1>2. /\ n \in 0 .. Len(answer'.items) - 1
      /\ answer'.items[n + 1].open /\ answer'.items[n + 1].kind = kind
  BY <1>1 DEF Opened
<1>3. OpenInv'
  <2>1. ASSUME thinkIdx' # None PROVE IsOpen(thinkIdx, "thinking")'
    <3>1. CASE kind = "thinking"
      BY <1>2, <3>1 DEF IsOpen
    <3>2. CASE kind = "text"
      <4>1. IsOpen(thinkIdx, "thinking") /\ thinkIdx' = thinkIdx
        BY <2>1, <3>2 DEF ItemsInv, OpenInv
      <4>. QED
        BY <4>1, StaysOpen DEF IsOpen
    <3>. QED
      BY <3>1, <3>2
  <2>2. ASSUME textIdx' # None PROVE IsOpen(textIdx, "text")'
    <3>1. CASE kind = "text"
      BY <1>2, <3>1 DEF IsOpen
    <3>2. CASE kind = "thinking"
      <4>1. IsOpen(textIdx, "text") /\ textIdx' = textIdx
        BY <2>2, <3>2 DEF ItemsInv, OpenInv
      <4>. QED
        BY <4>1, StaysOpen DEF IsOpen
    <3>. QED
      BY <3>1, <3>2
  <2>3. ASSUME NEW c \in Indexes, Announced(c)' PROVE IsOpen(calls[c].item, "call")'
    <3>1. IsOpen(calls[c].item, "call")
      BY <2>3 DEF ItemsInv, OpenInv, Announced
    <3>. QED
      BY <3>1, StaysOpen DEF IsOpen
  <2>. QED
    BY <2>1, <2>2, <2>3 DEF OpenInv
<1>4. DistinctInv'
  BY DEF ItemsInv, DistinctInv, Announced
<1>5. OwnedInv'
  <2>1. SUFFICES ASSUME NEW i \in 1 .. n + 1, answer'.items[i].open PROVE Owned(i)'
    BY <1>1 DEF OwnedInv
  <2>2. CASE i = n + 1
    BY <1>1, <2>2 DEF Owned, Opened
  <2>3. CASE i # n + 1
    <3>1. i \in 1 .. n /\ answer'.items[i] = answer.items[i]
      BY <1>1, <2>3 DEF Opened
    <3>2. Owned(i)
      BY <1>1, <2>1, <3>1 DEF ItemsInv, OwnedInv
    <3>3. n # None /\ i - 1 # None
      BY <1>1, <3>1, UpstreamAssumption
    <3>. QED
      BY <3>1, <3>2, <3>3 DEF Owned, Announced
  <2>. QED
    BY <2>2, <2>3
<1>. QED
  BY <1>3, <1>4, <1>5 DEF ItemsInv

(* The other calls are what they were.                                     *)
OtherCalls(c) == \A d \in Indexes \ {c} : calls'[d] = calls[d]

LEMMA AfterOpenCall ==
    ASSUME AnswerType, ItemsInv, Opened("call"), UNCHANGED <<thinkIdx, textIdx>>,
           NEW c \in Indexes, ~Announced(c), OtherCalls(c),
           calls'[c].item = Len(answer.items), calls'[c].state = "open"
    PROVE  ItemsInv'
<1>. DEFINE n == Len(answer.items)
<1>1. /\ n \in Nat /\ DOMAIN answer.items = 1 .. n /\ DOMAIN answer'.items = 1 .. n + 1
      /\ Len(answer'.items) = n + 1
  BY DEF AnswerType, Opened
<1>2. /\ n \in 0 .. Len(answer'.items) - 1
      /\ answer'.items[n + 1].open /\ answer'.items[n + 1].kind = "call"
  BY <1>1 DEF Opened
<1>3. OpenInv'
  <2>1. ASSUME thinkIdx' # None PROVE IsOpen(thinkIdx, "thinking")'
    <3>1. IsOpen(thinkIdx, "thinking")
      BY <2>1 DEF ItemsInv, OpenInv
    <3>. QED
      BY <3>1, StaysOpen DEF IsOpen
  <2>2. ASSUME textIdx' # None PROVE IsOpen(textIdx, "text")'
    <3>1. IsOpen(textIdx, "text")
      BY <2>2 DEF ItemsInv, OpenInv
    <3>. QED
      BY <3>1, StaysOpen DEF IsOpen
  <2>3. ASSUME NEW d \in Indexes, Announced(d)' PROVE IsOpen(calls[d].item, "call")'
    <3>1. CASE d = c
      BY <1>2, <3>1 DEF IsOpen
    <3>2. CASE d # c
      <4>1. calls'[d] = calls[d]
        BY <3>2 DEF OtherCalls
      <4>2. IsOpen(calls[d].item, "call")
        BY <2>3, <4>1 DEF ItemsInv, OpenInv, Announced
      <4>. QED
        BY <4>1, <4>2, StaysOpen DEF IsOpen
    <3>. QED
      BY <3>1, <3>2
  <2>. QED
    BY <2>1, <2>2, <2>3 DEF OpenInv
<1>4. DistinctInv'
  <2>1. \A d \in Indexes \ {c} : Announced(d)' => Announced(d) /\ calls'[d].item \in 0 .. n - 1
    BY DEF ItemsInv, OpenInv, IsOpen, Announced, OtherCalls
  <2>2. \A d \in Indexes \ {c} : Announced(d)' => calls'[d].item # n
    BY <1>1, <2>1
  <2>. QED
    BY <2>1, <2>2 DEF ItemsInv, DistinctInv, OtherCalls
<1>5. OwnedInv'
  <2>1. SUFFICES ASSUME NEW i \in 1 .. n + 1, answer'.items[i].open PROVE Owned(i)'
    BY <1>1 DEF OwnedInv
  <2>2. CASE i = n + 1
    <3>1. Announced(c)' /\ calls'[c].item = i - 1
      BY <1>1, <2>2 DEF Announced
    <3>. QED
      BY <3>1 DEF Owned
  <2>3. CASE i # n + 1
    <3>1. i \in 1 .. n /\ answer'.items[i] = answer.items[i]
      BY <1>1, <2>3 DEF Opened
    <3>2. Owned(i)
      BY <1>1, <2>1, <3>1 DEF ItemsInv, OwnedInv
    <3>. QED
      BY <3>1, <3>2 DEF Owned, Announced, OtherCalls
  <2>. QED
    BY <2>2, <2>3
<1>. QED
  BY <1>3, <1>4, <1>5 DEF ItemsInv

LEMMA AfterStopBlock ==
    ASSUME AnswerType, ItemsInv, NEW index, index # None, Stopped(index), calls' = calls,
           \/ index = thinkIdx /\ thinkIdx' = None /\ textIdx' = textIdx
           \/ index = textIdx /\ textIdx' = None /\ thinkIdx' = thinkIdx
    PROVE  ItemsInv'
<1>. DEFINE n == Len(answer.items)
<1>1. /\ n \in Nat /\ DOMAIN answer.items = 1 .. n /\ DOMAIN answer'.items = 1 .. n
      /\ Len(answer'.items) = n
  BY DEF AnswerType, Stopped
<1>2. ASSUME NEW i \in 0 .. n - 1, i # index, NEW kind, IsOpen(i, kind)
      PROVE  IsOpen(i, kind)'
  <2>1. i + 1 \in 1 .. n /\ (index \in 0 .. n - 1 => i + 1 # index + 1)
    BY <1>1, <1>2
  <2>2. index \in 0 .. n - 1
    BY DEF ItemsInv, OpenInv, IsOpen
  <2>3. answer'.items[i + 1] = answer.items[i + 1]
    BY <2>1, <2>2 DEF Stopped
  <2>. QED
    BY <1>1, <1>2, <2>3 DEF IsOpen
<1>3. OpenInv'
  <2>1. \A c \in Indexes : Announced(c) => IsOpen(calls[c].item, "call")
    BY DEF ItemsInv, OpenInv
  <2>2. IsOpen(index, "thinking") \/ IsOpen(index, "text")
    BY DEF ItemsInv, OpenInv
  <2>3. \A c \in Indexes : Announced(c) => calls[c].item # index
    BY <2>1, <2>2 DEF IsOpen
  <2>4. \A c \in Indexes : Announced(c)' => IsOpen(calls[c].item, "call")'
    BY <1>2, <2>1, <2>3 DEF IsOpen, Announced
  <2>5. thinkIdx' # None => IsOpen(thinkIdx, "thinking")'
    <3>1. ASSUME thinkIdx' # None PROVE thinkIdx' = thinkIdx /\ index = textIdx
      BY <3>1
    <3>2. ASSUME thinkIdx' # None PROVE thinkIdx # index /\ IsOpen(thinkIdx, "thinking")
      BY <3>1, <3>2 DEF ItemsInv, OpenInv, IsOpen
    <3>. QED
      BY <1>2, <3>1, <3>2 DEF IsOpen
  <2>6. textIdx' # None => IsOpen(textIdx, "text")'
    <3>1. ASSUME textIdx' # None PROVE textIdx' = textIdx /\ index = thinkIdx
      BY <3>1
    <3>2. ASSUME textIdx' # None PROVE textIdx # index /\ IsOpen(textIdx, "text")
      BY <3>1, <3>2 DEF ItemsInv, OpenInv, IsOpen
    <3>. QED
      BY <1>2, <3>1, <3>2 DEF IsOpen
  <2>. QED
    BY <2>4, <2>5, <2>6 DEF OpenInv
<1>4. DistinctInv'
  BY DEF ItemsInv, DistinctInv, Announced
<1>5. OwnedInv'
  <2>1. SUFFICES ASSUME NEW i \in 1 .. n, answer'.items[i].open PROVE Owned(i)'
    BY <1>1 DEF OwnedInv
  <2>2. i # index + 1
    BY <2>1 DEF Stopped
  <2>3. answer'.items[i] = answer.items[i]
    BY <2>2 DEF Stopped
  <2>4. Owned(i)
    BY <1>1, <2>1, <2>3 DEF ItemsInv, OwnedInv
  <2>5. index # i - 1
    BY <2>2
  <2>. QED
    BY <2>3, <2>4, <2>5 DEF Owned, Announced
<1>. QED
  BY <1>3, <1>4, <1>5 DEF ItemsInv

LEMMA AfterStopCall ==
    ASSUME AnswerType, ItemsInv, NEW c \in Indexes, Announced(c), Stopped(calls[c].item),
           OtherCalls(c), calls'[c].state = "sent", UNCHANGED <<thinkIdx, textIdx>>
    PROVE  ItemsInv'
<1>. DEFINE n == Len(answer.items)
            index == calls[c].item
<1>1. /\ n \in Nat /\ DOMAIN answer.items = 1 .. n /\ DOMAIN answer'.items = 1 .. n
      /\ Len(answer'.items) = n
  BY DEF AnswerType, Stopped
<1>2. IsOpen(index, "call") /\ index \in 0 .. n - 1
  BY DEF ItemsInv, OpenInv, IsOpen
<1>3. ASSUME NEW i \in 0 .. n - 1, i # index, NEW kind, IsOpen(i, kind)
      PROVE  IsOpen(i, kind)'
  <2>1. i + 1 \in 1 .. n /\ i + 1 # index + 1
    BY <1>1, <1>2, <1>3
  <2>2. answer'.items[i + 1] = answer.items[i + 1]
    BY <2>1 DEF Stopped
  <2>. QED
    BY <1>1, <1>3, <2>2 DEF IsOpen
<1>4. \A d \in Indexes : Announced(d)' => d # c /\ Announced(d) /\ calls'[d] = calls[d]
  BY DEF Announced, OtherCalls
<1>5. OpenInv'
  <2>1. thinkIdx' # None => IsOpen(thinkIdx, "thinking")'
    <3>1. ASSUME thinkIdx' # None PROVE thinkIdx # index /\ IsOpen(thinkIdx, "thinking")
      BY <1>2, <3>1 DEF ItemsInv, OpenInv, IsOpen
    <3>. QED
      BY <1>3, <3>1 DEF IsOpen
  <2>2. textIdx' # None => IsOpen(textIdx, "text")'
    <3>1. ASSUME textIdx' # None PROVE textIdx # index /\ IsOpen(textIdx, "text")
      BY <1>2, <3>1 DEF ItemsInv, OpenInv, IsOpen
    <3>. QED
      BY <1>3, <3>1 DEF IsOpen
  <2>3. ASSUME NEW d \in Indexes, Announced(d)' PROVE IsOpen(calls[d].item, "call")'
    <3>1. calls[d].item # index /\ IsOpen(calls[d].item, "call")
      BY <1>4, <2>3 DEF ItemsInv, OpenInv, DistinctInv
    <3>2. IsOpen(calls[d].item, "call") => calls[d].item \in 0 .. n - 1
      BY DEF IsOpen
    <3>. QED
      BY <1>3, <1>4, <2>3, <3>1, <3>2 DEF IsOpen
  <2>. QED
    BY <2>1, <2>2, <2>3 DEF OpenInv
<1>6. DistinctInv'
  BY <1>4 DEF ItemsInv, DistinctInv
<1>7. OwnedInv'
  <2>1. SUFFICES ASSUME NEW i \in 1 .. n, answer'.items[i].open PROVE Owned(i)'
    BY <1>1 DEF OwnedInv
  <2>2. i # index + 1
    BY <2>1 DEF Stopped
  <2>3. answer'.items[i] = answer.items[i]
    BY <2>2 DEF Stopped
  <2>4. Owned(i)
    BY <1>1, <2>1, <2>3 DEF ItemsInv, OwnedInv
  <2>5. index # i - 1
    BY <2>2
  <2>. QED
    BY <2>3, <2>4, <2>5 DEF Owned, Announced, OtherCalls
<1>. QED
  BY <1>5, <1>6, <1>7 DEF ItemsInv

LEMMA AfterSameItems ==
    ASSUME ItemsInv, answer'.items = answer.items, UNCHANGED <<thinkIdx, textIdx>>, SameCalls
    PROVE  ItemsInv'
<1>1. OpenInv'
  BY DEF ItemsInv, OpenInv, IsOpen, SameCalls
<1>2. DistinctInv'
  BY DEF ItemsInv, DistinctInv, SameCalls
<1>3. OwnedInv'
  BY DEF ItemsInv, OwnedInv, Owned, SameCalls
<1>. QED
  BY <1>1, <1>2, <1>3 DEF ItemsInv

-----------------------------------------------------------------------------
(* What every step of an emitter has in common.                            *)

(* The queue is left alone, or its head was handled.                       *)
QueueStep ==
    \/ UNCHANGED queue
    \/ Ready /\ Consume /\ (agent = "claude" /\ Event.type = "toolStart" => started)

LEMMA EmitterFrame ==
    ASSUME StreamInv, UNCHANGED <<agent, upstream, closing>>, QueueStep, started => started',
           AnswerType', EmitterType', PhaseInv', ItemsInv', CallsInv'
    PROVE  StreamInv'
<1>1. UNCHANGED <<lines, chan, seenIndexes, reasoningBuf, thinkBuf>>
  BY DEF upstream, parser, normalizer
<1>2. queue \in Seq(Events)
  BY DEF StreamInv, UpstreamType
<1>3. Ready => Head(queue) \in Events /\ Tail(queue) \in Seq(Events)
  BY <1>2 DEF Ready
<1>4. UpstreamType'
  BY <1>1, <1>3 DEF StreamInv, UpstreamType, QueueStep, Consume
<1>5. StartInv'
  <2>1. CASE started \/ agent # "claude" \/ UNCHANGED queue
    BY <1>1, <2>1 DEF StreamInv, StartInv
  <2>2. CASE ~started /\ agent = "claude" /\ Ready /\ Consume /\ Event.type # "toolStart"
    <3>1. HasType("toolStart", queue) => HasType("toolStart", queue')
      BY <1>2, <2>2, TailHasType DEF Ready, Consume, Event
    <3>2. HasType("toolDelta", queue') => HasType("toolDelta", queue)
      BY <1>2, <2>2, TailHasType DEF Ready, Consume, Event
    <3>. QED
      BY <1>1, <2>2, <3>1, <3>2 DEF StreamInv, StartInv
  <2>. QED
    BY <2>1, <2>2 DEF QueueStep
<1>. QED
  BY <1>4, <1>5 DEF StreamInv, ItemsInv

LEMMA EventFacts ==
    ASSUME StreamInv, Ready
    PROVE  /\ Event \in Events /\ Event.delta \in Seq(Token) /\ Event.id \in MaybeToken
           /\ Event.type \in {"thinking", "text"} => Event.delta # <<>>
           /\ Event.type \in {"toolStart", "toolDelta"} => Event.index \in Indexes
           /\ ~Finishing
<1>1. Event \in Events
  BY DEF StreamInv, UpstreamType, Ready, Event
<1>2. ~Finishing
  BY DEF Finishing, Ready
<1>. QED
  BY <1>1, <1>2 DEF Events, EventRecord

LEMMA LiveWhenStarted ==
    ASSUME StreamInv, started, Ready \/ answer.phase # "over"
    PROVE  answer.phase = "live"
<1>1. answer.phase \in {"waiting", "live", "over"}
  BY DEF StreamInv, AnswerType
<1>. QED
  BY <1>1 DEF StreamInv, PhaseInv, Finishing, Ready

LEMMA LiveWhenOpen ==
    ASSUME StreamInv, NEW index, NEW kind, IsOpen(index, kind), Ready \/ answer.phase # "over"
    PROVE  answer.phase = "live"
<1>1. answer.phase \in {"waiting", "live", "over"}
  BY DEF StreamInv, AnswerType
<1>2. answer.items # <<>>
  BY DEF IsOpen
<1>. QED
  BY <1>1, <1>2 DEF StreamInv, PhaseInv, Finishing, Ready

(* The phase does not change and the answer is not over.                   *)
LEMMA SamePhase ==
    ASSUME StreamInv, UNCHANGED <<agent, started>>, answer'.phase = "live", answer.phase = "live"
    PROVE  PhaseInv'
  BY DEF StreamInv, PhaseInv

LEMMA NoneOpen ==
    ASSUME StreamInv, NEW kind \in {"thinking", "text"},
           kind = "thinking" => thinkIdx = None, kind = "text" => textIdx = None
    PROVE  \A i \in DOMAIN answer.items :
              answer.items[i].kind = kind => ~answer.items[i].open
<1>1. ASSUME NEW i \in DOMAIN answer.items, answer.items[i].kind = kind,
             answer.items[i].open
      PROVE  FALSE
  <2>1. Owned(i) /\ i - 1 # None
    BY <1>1, IndexDomain DEF StreamInv, OwnedInv
  <2>2. \E c \in Indexes : Announced(c) /\ calls[c].item = i - 1
    BY <1>1, <2>1 DEF Owned
  <2>3. IsOpen(i - 1, "call") /\ (i - 1) + 1 = i
    BY <1>1, <2>2, IndexDomain DEF StreamInv, OpenInv
  <2>. QED
    BY <1>1, <2>3 DEF IsOpen
<1>. QED
  BY <1>1

-----------------------------------------------------------------------------
(* The steps that ClaudeEmitter and CodexEmitter have in common.           *)

LEMMA Numbered ==
    ASSUME StreamInv, agent # "gemini"
    PROVE  next = Len(answer.items) /\ next \in Nat
  BY DEF StreamInv, EmitterType, CallsInv

LEMMA StartStep ==
    ASSUME StreamInv, agent # "gemini", UNCHANGED <<agent, upstream>>,
           Ready, ~started, started' = TRUE, WriteBegin,
           UNCHANGED <<queue, closing, next, thinkIdx, textIdx, calls, said>>
    PROVE  StreamInv' /\ Protocol!Next
<1>1. answer.phase = "waiting"
  <2>1. ~Finishing
    BY EventFacts
  <2>. QED
    BY <2>1 DEF StreamInv, PhaseInv, AnswerType
<1>2. Protocol!Begin /\ AnswerType' /\ answer'.phase = "live" /\ answer'.items = answer.items
  BY <1>1, BeginWrite DEF StreamInv
<1>3. ItemsInv'
  BY <1>2, AfterSameItems DEF StreamInv, ItemsInv, SameCalls, Announced
<1>4. EmitterType'
  BY DEF StreamInv, EmitterType
<1>5. PhaseInv'
  BY <1>2 DEF PhaseInv
<1>6. CallsInv'
  BY <1>2 DEF StreamInv, CallsInv, Finishing
<1>7. QueueStep
  BY DEF QueueStep
<1>. QED
  BY <1>2, <1>3, <1>4, <1>5, <1>6, <1>7, EmitterFrame DEF Protocol!Next

OpensBlock(kind) ==
    /\ Ready /\ started /\ next' = next + 1 /\ WriteOpen(next, kind, None)
    /\ UNCHANGED <<queue, closing, started, calls, said>>
    /\ kind = "thinking" => thinkIdx = None /\ thinkIdx' = next /\ textIdx' = textIdx
    /\ kind = "text" => textIdx = None /\ textIdx' = next /\ thinkIdx' = thinkIdx

LEMMA OpenStep ==
    ASSUME StreamInv, agent # "gemini", UNCHANGED <<agent, upstream>>,
           NEW kind \in {"thinking", "text"}, OpensBlock(kind)
    PROVE  StreamInv' /\ Protocol!Next
<1>1. next = Len(answer.items) /\ next \in Nat /\ answer.phase = "live"
  BY Numbered, LiveWhenStarted DEF OpensBlock
<1>2. Protocol!NewItem /\ Opened(kind)
  <2>1. AnswerType /\ None \in MaybeToken
    BY DEF StreamInv, MaybeToken
  <2>2. \A i \in DOMAIN answer.items :
           answer.items[i].kind = kind => ~answer.items[i].open
    BY NoneOpen DEF OpensBlock
  <2>. QED
    BY <1>1, <2>1, <2>2, OpenWrite DEF OpensBlock
<1>3. ItemsInv'
  BY <1>1, <1>2, AfterOpenBlock DEF StreamInv, ItemsInv, OpensBlock
<1>4. EmitterType'
  BY <1>1 DEF StreamInv, EmitterType, OpensBlock
<1>5. PhaseInv'
  BY <1>1, <1>2, SamePhase DEF Opened, OpensBlock
<1>6. CallsInv'
  BY <1>1, <1>2 DEF StreamInv, CallsInv, Finishing, Opened, OpensBlock
<1>7. QueueStep /\ (started => started') /\ UNCHANGED closing /\ AnswerType'
  BY <1>2 DEF QueueStep, Opened, OpensBlock
<1>. QED
  BY <1>2, <1>3, <1>4, <1>5, <1>6, <1>7, EmitterFrame DEF Protocol!Next

ExtendsBlock(index, kind) ==
    /\ Ready /\ started /\ Event.type = kind
    /\ IsOpen(index, kind) /\ WriteDelta(index, Event.delta) /\ Consume
    /\ said' = said \/ said' = said \o Event.delta
    /\ UNCHANGED <<closing, started, next, thinkIdx, textIdx, calls>>

LEMMA DeltaStep ==
    ASSUME StreamInv, agent # "gemini", UNCHANGED <<agent, upstream>>,
           NEW index, NEW kind \in {"thinking", "text"}, ExtendsBlock(index, kind)
    PROVE  StreamInv' /\ Protocol!Next
<1>1. /\ answer.phase = "live" /\ ~Finishing
      /\ Event.delta \in Seq(Token) /\ Event.delta # <<>>
  BY EventFacts, LiveWhenStarted DEF ExtendsBlock
<1>2. Protocol!Extend /\ Extended
  BY <1>1, DeltaWrite DEF StreamInv, ExtendsBlock
<1>3. ItemsInv'
  BY <1>2, AfterExtend DEF StreamInv, ItemsInv, SameCalls, Announced, ExtendsBlock
<1>4. EmitterType'
  <2>1. said' \in Seq(Token)
    <3>1. said \in Seq(Token)
      BY DEF StreamInv, EmitterType
    <3>2. said \o Event.delta \in Seq(Token)
      BY <1>1, <3>1
    <3>3. said' = said \/ said' = said \o Event.delta
      BY DEF ExtendsBlock
    <3>. QED
      BY <3>1, <3>2, <3>3
  <2>. QED
    BY <2>1 DEF StreamInv, EmitterType, ExtendsBlock
<1>5. PhaseInv'
  BY <1>1, <1>2, SamePhase DEF Extended, ExtendsBlock
<1>6. CallsInv'
  BY <1>1, <1>2 DEF StreamInv, CallsInv, Extended, ExtendsBlock
<1>7. QueueStep /\ (started => started') /\ UNCHANGED closing /\ AnswerType'
  BY <1>2 DEF QueueStep, Extended, ExtendsBlock
<1>. QED
  BY <1>2, <1>3, <1>4, <1>5, <1>6, <1>7, EmitterFrame DEF Protocol!Next

StopsBlock(index, kind, whole) ==
    /\ Ready \/ answer.phase # "over"
    /\ index # None /\ IsOpen(index, kind) /\ WriteStop(index, whole)
    /\ UNCHANGED <<queue, closing, started, next, calls, said>>
    /\ \/ index = thinkIdx /\ thinkIdx' = None /\ textIdx' = textIdx
       \/ index = textIdx /\ textIdx' = None /\ thinkIdx' = thinkIdx

LEMMA StopStep ==
    ASSUME StreamInv, agent # "gemini", UNCHANGED <<agent, upstream>>,
           NEW index, NEW kind, NEW whole \in Seq(Token) \cup {None},
           StopsBlock(index, kind, whole)
    PROVE  StreamInv' /\ Protocol!Next
<1>1. answer.phase = "live"
  BY LiveWhenOpen DEF StopsBlock
<1>2. Protocol!Close /\ Stopped(index)
  BY <1>1, StopWrite DEF StreamInv, StopsBlock
<1>3. ItemsInv'
  BY <1>2, AfterStopBlock DEF StreamInv, ItemsInv, StopsBlock
<1>4. EmitterType'
  BY DEF StreamInv, EmitterType, StopsBlock
<1>5. PhaseInv'
  BY <1>1, <1>2, SamePhase DEF Stopped, StopsBlock
<1>6. CallsInv'
  BY <1>2 DEF StreamInv, CallsInv, Finishing, Stopped, StopsBlock
<1>7. QueueStep /\ (started => started') /\ UNCHANGED closing /\ AnswerType'
  BY <1>2 DEF QueueStep, Stopped, StopsBlock
<1>. QED
  BY <1>2, <1>3, <1>4, <1>5, <1>6, <1>7, EmitterFrame DEF Protocol!Next

(* The steps on the items of thinking and of text.                         *)
BlockStep(whole) ==
    \/ \E kind \in {"thinking", "text"} : OpensBlock(kind)
    \/ ExtendsBlock(thinkIdx, "thinking")
    \/ ExtendsBlock(textIdx, "text") /\ textIdx # None
    \/ StopsBlock(thinkIdx, "thinking", None)
    \/ StopsBlock(textIdx, "text", whole)

LEMMA BlockKeeps ==
    ASSUME StreamInv, agent # "gemini", UNCHANGED <<agent, upstream>>,
           NEW whole \in Seq(Token) \cup {None}, BlockStep(whole)
    PROVE  StreamInv' /\ Protocol!Next
  BY OpenStep, DeltaStep, StopStep DEF BlockStep

(* An event about which an emitter does nothing.                           *)
LEMMA EventPassed ==
    ASSUME StreamInv, UNCHANGED <<agent, upstream, closing, answer, emitter>>,
           Ready, Consume, Event.type # "toolStart"
    PROVE  StreamInv'
<1>1. UNCHANGED <<started, next, thinkIdx, textIdx, calls, said>>
  BY DEF emitter
<1>2. ItemsInv'
  BY <1>1, AfterSameItems DEF StreamInv, ItemsInv, SameCalls, Announced
<1>3. EmitterType' /\ AnswerType'
  BY <1>1 DEF StreamInv, EmitterType, AnswerType
<1>4. ~Finishing
  BY EventFacts
<1>5. PhaseInv' /\ CallsInv'
  BY <1>1, <1>4 DEF StreamInv, PhaseInv, CallsInv
<1>6. QueueStep
  BY DEF QueueStep
<1>. QED
  BY <1>1, <1>2, <1>3, <1>5, <1>6, EmitterFrame

(* The last write of an answer of which nothing is open.                   *)
LEMMA AnswerEnds ==
    ASSUME StreamInv, UNCHANGED <<agent, upstream, queue, closing, emitter>>, Finishing,
           answer.phase # "over", \A i \in DOMAIN answer.items : ~answer.items[i].open,
           NEW reason, WriteEnd(reason)
    PROVE  StreamInv' /\ Protocol!Next
<1>1. UNCHANGED <<started, next, thinkIdx, textIdx, calls, said>>
  BY DEF emitter
<1>2. /\ Protocol!Finish
      /\ AnswerType' /\ answer'.phase = "over" /\ answer'.items = answer.items
  BY EndWrite DEF StreamInv
<1>3. ItemsInv'
  BY <1>1, <1>2, AfterSameItems DEF StreamInv, ItemsInv, SameCalls, Announced
<1>4. EmitterType'
  BY <1>1 DEF StreamInv, EmitterType
<1>5. PhaseInv' /\ CallsInv'
  BY <1>1, <1>2 DEF StreamInv, PhaseInv, CallsInv, Finishing
<1>6. QueueStep
  BY DEF QueueStep
<1>. QED
  BY <1>1, <1>2, <1>3, <1>4, <1>5, <1>6, EmitterFrame DEF Protocol!Next

LEMMA NothingOpen ==
    ASSUME StreamInv, thinkIdx = None, textIdx = None, \A c \in Indexes : ~Announced(c)
    PROVE  \A i \in DOMAIN answer.items : ~answer.items[i].open
<1>1. \A i \in DOMAIN answer.items : i - 1 # None
  <2>1. DOMAIN answer.items = 1 .. Len(answer.items) /\ Len(answer.items) \in Nat
    BY IndexDomain DEF StreamInv
  <2>2. \A i \in 1 .. Len(answer.items) : i - 1 \in Nat
    BY <2>1
  <2>. QED
    BY <2>1, <2>2, UpstreamAssumption
<1>. QED
  BY <1>1 DEF StreamInv, OwnedInv, Owned

-----------------------------------------------------------------------------
(* ClaudeEmitter.                                                          *)

LEMMA ClaudeCalls ==
    ASSUME StreamInv, agent = "claude"
    PROVE  /\ next = Len(answer.items) /\ next \in Nat
           /\ \A c \in Indexes :
                 /\ calls[c] \in Accumulators
                 /\ calls[c].state = "held" => started
                 /\ calls[c].state \in {"open", "filled", "sent"} => Finishing
  BY DEF StreamInv, EmitterType, CallsInv

LEMMA ClaudeBlocks ==
    ASSUME StreamInv, agent = "claude",
           \/ Claude!OpenThinking \/ Claude!OpenText \/ Claude!ThinkingDelta
           \/ Claude!TextDelta \/ Claude!CloseThinking \/ Claude!CloseText
    PROVE  BlockStep(None)
<1>1. CASE Claude!OpenThinking
  <2>1. OpensBlock("thinking")
    BY <1>1 DEF OpensBlock, Claude!OpenThinking, Claude!Is, Claude!Ready, Claude!WriteOpen,
                Ready, WriteOpen
  <2>. QED
    BY <2>1 DEF BlockStep
<1>2. CASE Claude!OpenText
  <2>1. OpensBlock("text")
    BY <1>2 DEF OpensBlock, Claude!OpenText, Claude!Is, Claude!Ready, Claude!WriteOpen,
                Ready, WriteOpen
  <2>. QED
    BY <2>1 DEF BlockStep
<1>3. CASE Claude!ThinkingDelta
  <2>1. ExtendsBlock(thinkIdx, "thinking")
    BY <1>3 DEF ExtendsBlock, Claude!ThinkingDelta, Claude!Is, Claude!Ready, Claude!WriteDelta,
                Claude!Consume, Claude!Event, Claude!emitter, Ready, WriteDelta, Consume, Event,
                StreamInv, OpenInv
  <2>. QED
    BY <2>1 DEF BlockStep
<1>4. CASE Claude!TextDelta
  <2>1. ExtendsBlock(textIdx, "text") /\ textIdx # None
    BY <1>4 DEF ExtendsBlock, Claude!TextDelta, Claude!Is, Claude!Ready, Claude!WriteDelta,
                Claude!Consume, Claude!Event, Claude!emitter, Ready, WriteDelta, Consume, Event,
                StreamInv, OpenInv
  <2>. QED
    BY <2>1 DEF BlockStep
<1>5. CASE Claude!CloseThinking
  <2>1. StopsBlock(thinkIdx, "thinking", None)
    BY <1>5 DEF StopsBlock, Claude!CloseThinking, Claude!Is, Claude!Ready,
                Claude!WriteStop, Claude!Ending, Ready, WriteStop, StreamInv, OpenInv
  <2>. QED
    BY <2>1 DEF BlockStep
<1>6. CASE Claude!CloseText
  <2>1. StopsBlock(textIdx, "text", None)
    BY <1>6 DEF StopsBlock, Claude!CloseText, Claude!Is, Claude!Ready,
                Claude!WriteStop, Claude!Ending, Ready, WriteStop, StreamInv, OpenInv
  <2>. QED
    BY <2>1 DEF BlockStep
<1>. QED
  BY <1>1, <1>2, <1>3, <1>4, <1>5, <1>6

LEMMA ClaudeStart ==
    ASSUME StreamInv, agent = "claude", UNCHANGED <<agent, upstream>>, Claude!StartMessage
    PROVE  StreamInv' /\ Protocol!Next
  BY StartStep
  DEF Claude!StartMessage, Claude!Is, Claude!Ready, Claude!WriteBegin, Ready, WriteBegin

LEMMA ClaudeHold ==
    ASSUME StreamInv, agent = "claude", UNCHANGED <<agent, upstream>>,
           Claude!HoldCall \/ Claude!HoldArguments
    PROVE  StreamInv' /\ UNCHANGED answer
<1>1. /\ Ready /\ Event.type \in {"toolStart", "toolDelta"} /\ started
      /\ calls' = [calls EXCEPT ![Event.index] = Claude!Accumulated(Event)]
      /\ Consume /\ UNCHANGED <<closing, answer, started, next, thinkIdx, textIdx, said>>
  <2>1. CASE Claude!HoldCall
    BY <2>1 DEF Claude!HoldCall, Claude!Is, Claude!Ready, Claude!Consume, Claude!Event,
                Ready, Consume, Event
  <2>2. CASE Claude!HoldArguments
    <3>1. /\ Ready /\ Event.type = "toolDelta"
          /\ calls' = [calls EXCEPT ![Event.index] = Claude!Accumulated(Event)]
          /\ Consume /\ UNCHANGED <<closing, answer, started, next, thinkIdx, textIdx, said>>
      BY <2>2 DEF Claude!HoldArguments, Claude!Is, Claude!Ready, Claude!Consume, Claude!Event,
                  Ready, Consume, Event
    <3>2. queue \in Seq(Events) /\ queue # <<>>
      BY <3>1 DEF StreamInv, UpstreamType, Ready
    <3>3. HasType("toolDelta", queue)
      BY <3>1, <3>2, TailHasType DEF Event
    <3>4. started
      BY <3>3 DEF StreamInv, StartInv
    <3>. QED
      BY <3>1, <3>4
  <2>. QED
    BY <2>1, <2>2
<1>. DEFINE c == Event.index
<1>2. /\ c \in Indexes /\ Event.delta \in Seq(Token) /\ Event.id \in MaybeToken /\ ~Finishing
  BY <1>1, EventFacts
<1>3. calls \in [Indexes -> Accumulators] /\ calls[c] \in Accumulators
  BY <1>2 DEF StreamInv, EmitterType
<1>4. /\ Claude!Accumulated(Event) \in Accumulators
      /\ Claude!Accumulated(Event).state = "held"
  <2>1. Claude!Accumulated(Event) =
          [calls[c] EXCEPT !.id = IF Event.id # None THEN Event.id ELSE calls[c].id,
                           !.args = calls[c].args \o Event.delta,
                           !.state = "held"]
    BY DEF Claude!Accumulated
  <2>2. calls[c].args \o Event.delta \in Seq(Token)
    BY <1>2, <1>3 DEF Accumulators
  <2>. QED
    BY <1>2, <1>3, <2>1, <2>2 DEF Accumulators
<1>. HIDE DEF c
<1>5. /\ calls' \in [Indexes -> Accumulators] /\ calls'[c].state = "held"
      /\ \A d \in Indexes : d # c => calls'[d] = calls[d]
  BY <1>1, <1>2, <1>3, <1>4 DEF c
<1>6. \A d \in Indexes : ~Announced(d)
  <2>1. \A d \in Indexes : calls[d].state \in {"open", "filled", "sent"} => Finishing
    BY ClaudeCalls
  <2>. QED
    BY <1>2, <2>1 DEF Announced
<1>7. SameCalls
  BY <1>5, <1>6 DEF SameCalls, Announced
<1>8. ItemsInv'
  BY <1>1, <1>7, AfterSameItems DEF StreamInv, ItemsInv
<1>9. EmitterType' /\ AnswerType'
  BY <1>1, <1>5 DEF StreamInv, EmitterType, AnswerType
<1>10. PhaseInv'
  BY <1>1, <1>2 DEF StreamInv, PhaseInv
<1>11. CallsInv'
  BY <1>1, <1>2, <1>5 DEF StreamInv, CallsInv
<1>12. QueueStep
  BY <1>1 DEF QueueStep
<1>. QED
  BY <1>1, <1>8, <1>9, <1>10, <1>11, <1>12, EmitterFrame

LEMMA ClaudePassEnd ==
    ASSUME StreamInv, agent = "claude", UNCHANGED <<agent, upstream>>, Claude!PassEnd
    PROVE  StreamInv' /\ UNCHANGED answer
<1>1. /\ Ready /\ Event.type \in {"done", "error"} /\ Consume
      /\ UNCHANGED <<closing, answer, emitter>>
  BY DEF Claude!PassEnd, Claude!Is, Claude!Ready, Claude!Event, Claude!Consume, Claude!emitter,
         Ready, Event, Consume, emitter
<1>. QED
  BY <1>1, EventPassed

LEMMA ClaudeEndingFacts ==
    ASSUME StreamInv, agent = "claude", Claude!BlocksClosed
    PROVE  /\ Finishing /\ answer.phase # "over" /\ thinkIdx = None /\ textIdx = None
  BY DEF Claude!BlocksClosed, Claude!Ending, Claude!Ready, Finishing

LEMMA ClaudeOpenCall ==
    ASSUME StreamInv, agent = "claude", UNCHANGED <<agent, upstream>>,
           NEW c \in Indexes, Claude!OpenCall(c)
    PROVE  StreamInv' /\ Protocol!Next
<1>1. /\ calls[c].state = "held" /\ next' = next + 1
      /\ calls' = [calls EXCEPT ![c].state = "open", ![c].item = next]
      /\ WriteOpen(next, "call", calls[c].id)
      /\ UNCHANGED <<queue, closing, started, thinkIdx, textIdx, said>>
      /\ Claude!BlocksClosed
  BY DEF Claude!OpenCall, Claude!WriteOpen, WriteOpen
<1>2. Finishing /\ answer.phase # "over"
  BY <1>1, ClaudeEndingFacts
<1>3. started /\ next = Len(answer.items) /\ next \in Nat /\ calls[c] \in Accumulators
  BY <1>1, ClaudeCalls
<1>4. answer.phase = "live"
  BY <1>2, <1>3, LiveWhenStarted
<1>5. Protocol!NewItem /\ Opened("call")
  <2>1. calls[c].id \in MaybeToken
    BY <1>3 DEF Accumulators
  <2>. QED
    BY <1>1, <1>3, <1>4, <2>1, OpenWrite DEF StreamInv
<1>6. calls \in [Indexes -> Accumulators]
  BY DEF StreamInv, EmitterType
<1>7. /\ calls'[c] = [calls[c] EXCEPT !.state = "open", !.item = next]
      /\ calls' = [calls EXCEPT ![c] = [calls[c] EXCEPT !.state = "open", !.item = next]]
  BY <1>1, <1>6
<1>8. calls'[c] \in Accumulators /\ calls'[c].state = "open" /\ calls'[c].item = next
  <2>. DEFINE open == [calls[c] EXCEPT !.state = "open", !.item = next]
  <2>1. open \in Accumulators /\ open.state = "open" /\ open.item = next
    BY <1>3 DEF Accumulators
  <2>. HIDE DEF open
  <2>2. calls'[c] = open
    BY <1>7 DEF open
  <2>. QED
    BY <2>1, <2>2
<1>9. calls' \in [Indexes -> Accumulators] /\ OtherCalls(c)
  BY <1>6, <1>7, <1>8 DEF OtherCalls
<1>10. ItemsInv'
  BY <1>1, <1>3, <1>5, <1>8, <1>9, AfterOpenCall DEF StreamInv, ItemsInv, Announced
<1>11. EmitterType'
  BY <1>1, <1>3, <1>9 DEF StreamInv, EmitterType
<1>12. PhaseInv'
  BY <1>1, <1>4, <1>5, SamePhase DEF Opened
<1>13. CallsInv'
  <2>1. next' = Len(answer'.items) /\ Finishing' /\ started'
    BY <1>1, <1>2, <1>3, <1>5 DEF Opened, Finishing
  <2>. QED
    BY <2>1 DEF CallsInv
<1>14. QueueStep /\ AnswerType'
  BY <1>1, <1>5 DEF QueueStep, Opened
<1>. QED
  BY <1>1, <1>5, <1>10, <1>11, <1>12, <1>13, <1>14, EmitterFrame DEF Protocol!Next

LEMMA ClaudeCallArguments ==
    ASSUME StreamInv, agent = "claude", UNCHANGED <<agent, upstream>>,
           NEW c \in Indexes, Claude!CallArguments(c)
    PROVE  StreamInv' /\ Protocol!Next
<1>1. /\ calls[c].state = "open" /\ calls[c].args # <<>>
      /\ calls' = [calls EXCEPT ![c].state = "filled"]
      /\ WriteDelta(calls[c].item, calls[c].args)
      /\ UNCHANGED <<queue, closing, started, next, thinkIdx, textIdx, said>>
      /\ Claude!BlocksClosed
  BY DEF Claude!CallArguments, Claude!Sendable, Claude!WriteDelta, WriteDelta
<1>2. Finishing /\ answer.phase # "over"
  BY <1>1, ClaudeEndingFacts
<1>3. IsOpen(calls[c].item, "call") /\ Announced(c)
  BY <1>1 DEF StreamInv, OpenInv, Announced
<1>4. answer.phase = "live"
  BY <1>2, <1>3, LiveWhenOpen
<1>5. calls \in [Indexes -> Accumulators] /\ calls[c] \in Accumulators
  BY DEF StreamInv, EmitterType
<1>6. Protocol!Extend /\ Extended
  <2>1. calls[c].args \in Seq(Token)
    BY <1>5 DEF Accumulators
  <2>. QED
    BY <1>1, <1>3, <1>4, <2>1, DeltaWrite DEF StreamInv
<1>7. calls' = [calls EXCEPT ![c] = [calls[c] EXCEPT !.state = "filled"]]
  BY <1>1, <1>5
<1>8. /\ [calls[c] EXCEPT !.state = "filled"] \in Accumulators
      /\ [calls[c] EXCEPT !.state = "filled"].state = "filled"
      /\ [calls[c] EXCEPT !.state = "filled"].item = calls[c].item
  BY <1>5 DEF Accumulators
<1>9. /\ calls' \in [Indexes -> Accumulators] /\ calls'[c].state = "filled"
      /\ calls'[c].item = calls[c].item
      /\ \A d \in Indexes : d # c => calls'[d] = calls[d]
  BY <1>5, <1>7, <1>8
<1>10. SameCalls
  BY <1>3, <1>9 DEF SameCalls, Announced
<1>11. ItemsInv'
  BY <1>1, <1>6, <1>10, AfterExtend DEF StreamInv, ItemsInv
<1>12. EmitterType'
  BY <1>1, <1>9 DEF StreamInv, EmitterType
<1>13. PhaseInv'
  BY <1>1, <1>4, <1>6, SamePhase DEF Extended
<1>14. CallsInv'
  <2>1. next' = Len(answer'.items) /\ Finishing'
    BY <1>1, <1>2, <1>6, ClaudeCalls DEF Extended, Finishing
  <2>2. \A d \in Indexes : calls'[d].state = "held" => started'
    BY <1>1, <1>9, ClaudeCalls
  <2>. QED
    BY <2>1, <2>2 DEF CallsInv
<1>15. QueueStep /\ AnswerType'
  BY <1>1, <1>6 DEF QueueStep, Extended
<1>. QED
  BY <1>1, <1>6, <1>11, <1>12, <1>13, <1>14, <1>15, EmitterFrame DEF Protocol!Next

LEMMA ClaudeCloseCall ==
    ASSUME StreamInv, agent = "claude", UNCHANGED <<agent, upstream>>,
           NEW c \in Indexes, Claude!CloseCall(c)
    PROVE  StreamInv' /\ Protocol!Next
<1>1. /\ calls[c].state \in {"open", "filled"}
      /\ calls' = [calls EXCEPT ![c].state = "sent"]
      /\ WriteStop(calls[c].item, None)
      /\ UNCHANGED <<queue, closing, started, next, thinkIdx, textIdx, said>>
      /\ Claude!BlocksClosed
  BY DEF Claude!CloseCall, Claude!WriteStop, WriteStop
<1>2. Finishing /\ answer.phase # "over"
  BY <1>1, ClaudeEndingFacts
<1>3. IsOpen(calls[c].item, "call") /\ Announced(c)
  BY <1>1 DEF StreamInv, OpenInv, Announced
<1>4. answer.phase = "live"
  BY <1>2, <1>3, LiveWhenOpen
<1>5. calls \in [Indexes -> Accumulators] /\ calls[c] \in Accumulators
  BY DEF StreamInv, EmitterType
<1>6. Protocol!Close /\ Stopped(calls[c].item)
  BY <1>1, <1>3, <1>4, StopWrite DEF StreamInv
<1>7. calls' = [calls EXCEPT ![c] = [calls[c] EXCEPT !.state = "sent"]]
  BY <1>1, <1>5
<1>8. /\ [calls[c] EXCEPT !.state = "sent"] \in Accumulators
      /\ [calls[c] EXCEPT !.state = "sent"].state = "sent"
  BY <1>5 DEF Accumulators
<1>9. /\ calls' \in [Indexes -> Accumulators] /\ calls'[c].state = "sent"
      /\ OtherCalls(c)
  BY <1>5, <1>7, <1>8 DEF OtherCalls
<1>10. ItemsInv'
  BY <1>1, <1>3, <1>6, <1>9, AfterStopCall DEF StreamInv, ItemsInv
<1>11. EmitterType'
  BY <1>1, <1>9 DEF StreamInv, EmitterType
<1>12. PhaseInv'
  BY <1>1, <1>4, <1>6, SamePhase DEF Stopped
<1>13. CallsInv'
  <2>1. next' = Len(answer'.items) /\ Finishing'
    BY <1>1, <1>2, <1>6, ClaudeCalls DEF Stopped, Finishing
  <2>2. \A d \in Indexes : calls'[d].state = "held" => started'
    BY <1>1, <1>9, ClaudeCalls DEF OtherCalls
  <2>. QED
    BY <2>1, <2>2 DEF CallsInv
<1>14. QueueStep /\ AnswerType'
  BY <1>1, <1>6 DEF QueueStep, Stopped
<1>. QED
  BY <1>1, <1>6, <1>10, <1>11, <1>12, <1>13, <1>14, EmitterFrame DEF Protocol!Next

LEMMA ClaudeMessageStop ==
    ASSUME StreamInv, agent = "claude", UNCHANGED <<agent, upstream>>, Claude!MessageStop
    PROVE  StreamInv' /\ Protocol!Next
<1>1. /\ Claude!BlocksClosed /\ \A c \in Indexes : calls[c].state \in {"absent", "sent"}
      /\ WriteEnd(Claude!StopReason(closing)) /\ UNCHANGED <<queue, closing, emitter>>
  BY DEF Claude!MessageStop, Claude!WriteEnd, Claude!emitter, WriteEnd, emitter
<1>2. Finishing /\ answer.phase # "over" /\ thinkIdx = None /\ textIdx = None
  BY <1>1, ClaudeEndingFacts
<1>3. \A i \in DOMAIN answer.items : ~answer.items[i].open
  BY <1>1, <1>2, NothingOpen DEF Announced
<1>. QED
  BY <1>1, <1>2, <1>3, AnswerEnds

LEMMA ClaudeStep ==
    ASSUME StreamInv, agent = "claude", UNCHANGED <<agent, upstream>>, Claude!Step
    PROVE  StreamInv' /\ [Protocol!Next]_answer
<1>1. ASSUME BlockStep(None) PROVE StreamInv' /\ Protocol!Next
  <2>1. None \in Seq(Token) \cup {None}
    BY DEF StreamInv, EmitterType
  <2>. QED
    BY <1>1, <2>1, BlockKeeps
<1>. QED
  BY <1>1, ClaudeStart, ClaudeBlocks, ClaudeHold, ClaudePassEnd,
     ClaudeOpenCall, ClaudeCallArguments, ClaudeCloseCall, ClaudeMessageStop
  DEF Claude!Step, Claude!Emit, Claude!Done

-----------------------------------------------------------------------------
(* CodexEmitter.                                                           *)

LEMMA CodexCalls ==
    ASSUME StreamInv, agent = "codex"
    PROVE  /\ next = Len(answer.items) /\ next \in Nat
           /\ calls \in [Indexes -> Accumulators]
           /\ \A c \in Indexes :
                 /\ calls[c] \in Accumulators
                 /\ calls[c].state # "filled"
                 /\ calls[c].state = "sent" => Finishing
                 /\ calls[c].item # None => calls[c].state \in {"open", "sent"}
                 /\ calls[c].owed # <<>> => calls[c].item # None
  BY DEF StreamInv, EmitterType, CallsInv

(* How a call may change without its item.                                 *)
LEMMA CodexCallsKept ==
    ASSUME StreamInv, agent = "codex", UNCHANGED <<agent, started, closing>>,
           next' = Len(answer'.items),
           \A c \in Indexes :
              /\ calls'[c].state # "filled"
              /\ calls'[c].state = "sent" => Finishing'
              /\ calls'[c].item # None => calls'[c].state \in {"open", "sent"}
              /\ calls'[c].owed # <<>> => calls'[c].item # None
    PROVE  CallsInv'
  BY DEF CallsInv

LEMMA CodexBlocks ==
    ASSUME StreamInv, agent = "codex",
           \/ Codex!AddReasoning \/ Codex!AddText \/ Codex!ReasoningDelta
           \/ Codex!OutputTextDelta \/ Codex!ReasoningDone \/ Codex!TextDone
    PROVE  BlockStep(said)
<1>1. CASE Codex!AddReasoning
  <2>1. OpensBlock("thinking")
    BY <1>1 DEF OpensBlock, Codex!AddReasoning, Codex!Is, Codex!Ready, Codex!WriteOpen,
                Ready, WriteOpen
  <2>. QED
    BY <2>1 DEF BlockStep
<1>2. CASE Codex!AddText
  <2>1. OpensBlock("text")
    BY <1>2 DEF OpensBlock, Codex!AddText, Codex!Is, Codex!Ready, Codex!WriteOpen,
                Ready, WriteOpen
  <2>. QED
    BY <2>1 DEF BlockStep
<1>3. CASE Codex!ReasoningDelta
  <2>1. ExtendsBlock(thinkIdx, "thinking")
    BY <1>3 DEF ExtendsBlock, Codex!ReasoningDelta, Codex!Is, Codex!Ready, Codex!WriteDelta,
                Codex!Consume, Codex!Event, Codex!emitter, Ready, WriteDelta, Consume, Event,
                StreamInv, OpenInv
  <2>. QED
    BY <2>1 DEF BlockStep
<1>4. CASE Codex!OutputTextDelta
  <2>1. ExtendsBlock(textIdx, "text") /\ textIdx # None
    BY <1>4 DEF ExtendsBlock, Codex!OutputTextDelta, Codex!Is, Codex!Ready, Codex!WriteDelta,
                Codex!Consume, Codex!Event, Ready, WriteDelta, Consume, Event,
                StreamInv, OpenInv
  <2>. QED
    BY <2>1 DEF BlockStep
<1>5. CASE Codex!ReasoningDone
  <2>1. StopsBlock(thinkIdx, "thinking", None)
    BY <1>5 DEF StopsBlock, Codex!ReasoningDone, Codex!Is, Codex!Ready, Codex!Logged,
                Codex!WriteStop, Codex!Ending, Ready, WriteStop, StreamInv, OpenInv
  <2>. QED
    BY <2>1 DEF BlockStep
<1>6. CASE Codex!TextDone
  <2>1. StopsBlock(textIdx, "text", said)
    BY <1>6 DEF StopsBlock, Codex!TextDone, Codex!Is, Codex!Ready, Codex!Logged,
                Codex!WriteStop, Codex!Ending, Ready, WriteStop, StreamInv, OpenInv
  <2>. QED
    BY <2>1 DEF BlockStep
<1>. QED
  BY <1>1, <1>2, <1>3, <1>4, <1>5, <1>6

LEMMA CodexStart ==
    ASSUME StreamInv, agent = "codex", UNCHANGED <<agent, upstream>>, Codex!StartResponse
    PROVE  StreamInv' /\ Protocol!Next
  BY StartStep
  DEF Codex!StartResponse, Codex!Is, Codex!Ready, Codex!WriteBegin, Ready, WriteBegin

(***************************************************************************)
(* What a start or a fragment makes of the call of its index.              *)
(***************************************************************************)
LEMMA CodexAccumulated ==
    ASSUME StreamInv, agent = "codex", Ready, Event.type \in {"toolStart", "toolDelta"},
           NEW c, c = Event.index
    PROVE  /\ c \in Indexes /\ calls[c] \in Accumulators
           /\ Codex!Accumulated(Event) \in Accumulators
           /\ Codex!Accumulated(Event).item = calls[c].item
           /\ Codex!Accumulated(Event).owed = calls[c].owed
           /\ Codex!Accumulated(Event).state =
                  IF calls[c].state = "absent" THEN "held" ELSE calls[c].state
<1>1. /\ c \in Indexes /\ calls[c] \in Accumulators
      /\ Event.delta \in Seq(Token) /\ Event.id \in MaybeToken
  BY EventFacts, CodexCalls
<1>. DEFINE id == IF Event.id # None THEN Event.id ELSE calls[c].id
            args == calls[c].args \o Event.delta
            state == IF calls[c].state = "absent" THEN "held" ELSE calls[c].state
<1>2. Codex!Accumulated(Event) = [calls[c] EXCEPT !.id = id, !.args = args, !.state = state]
  BY DEF Codex!Accumulated
<1>3. /\ id \in MaybeToken /\ args \in Seq(Token)
      /\ state \in {"absent", "held", "open", "filled", "sent"}
  BY <1>1 DEF Accumulators
<1>. HIDE DEF id, args
<1>. QED
  BY <1>1, <1>2, <1>3 DEF Accumulators

LEMMA CodexAddCall ==
    ASSUME StreamInv, agent = "codex", UNCHANGED <<agent, upstream>>, Codex!AddCall
    PROVE  StreamInv' /\ Protocol!Next
<1>. DEFINE c == Event.index
            acc == Codex!Accumulated(Event)
            added == [acc EXCEPT !.item = next, !.state = "open", !.owed = Event.delta]
<1>1. /\ Ready /\ Event.type = "toolStart" /\ started
      /\ calls[c].owed = <<>> /\ calls[c].item = None
      /\ next' = next + 1 /\ calls' = [calls EXCEPT ![c] = added]
      /\ WriteOpen(next, "call", acc.id)
      /\ UNCHANGED queue \/ Consume
      /\ UNCHANGED <<closing, started, thinkIdx, textIdx, said>>
  BY DEF Codex!AddCall, Codex!Is, Codex!Ready, Codex!Event, Codex!Consume, Codex!WriteOpen,
         Ready, Event, Consume, WriteOpen
<1>. HIDE DEF c
<1>2. c \in Indexes /\ calls[c] \in Accumulators /\ acc \in Accumulators
  BY <1>1, CodexAccumulated DEF c
<1>3. /\ next = Len(answer.items) /\ next \in Nat /\ calls \in [Indexes -> Accumulators]
      /\ answer.phase = "live" /\ ~Finishing /\ Event.delta \in Seq(Token)
  BY <1>1, CodexCalls, LiveWhenStarted, EventFacts
<1>. HIDE DEF acc
<1>4. added \in Accumulators /\ added.item = next /\ added.state = "open"
  BY <1>2, <1>3 DEF Accumulators
<1>5. Protocol!NewItem /\ Opened("call")
  <2>1. acc.id \in MaybeToken
    BY <1>2 DEF Accumulators
  <2>. QED
    BY <1>1, <1>3, <2>1, OpenWrite DEF StreamInv
<1>. HIDE DEF added
<1>6. calls' \in [Indexes -> Accumulators] /\ calls'[c] = added /\ OtherCalls(c)
  BY <1>1, <1>2, <1>3, <1>4 DEF OtherCalls
<1>7. ~Announced(c)
  <2>1. Announced(c) => calls[c].item \in Nat
    BY <1>2, IndexDomain DEF StreamInv, OpenInv, IsOpen
  <2>. QED
    BY <1>1, <2>1, UpstreamAssumption
<1>8. ItemsInv'
  BY <1>1, <1>2, <1>3, <1>4, <1>5, <1>6, <1>7, AfterOpenCall DEF StreamInv, ItemsInv
<1>9. EmitterType'
  BY <1>1, <1>3, <1>6 DEF StreamInv, EmitterType
<1>10. PhaseInv'
  BY <1>1, <1>3, <1>5, SamePhase DEF Opened
<1>11. CallsInv'
  <2>1. next' = Len(answer'.items) /\ next # None
    BY <1>1, <1>3, <1>5, UpstreamAssumption DEF Opened
  <2>2. \A d \in Indexes :
           /\ calls'[d].state # "filled" /\ calls'[d].state # "sent"
           /\ calls'[d].item # None => calls'[d].state \in {"open", "sent"}
           /\ calls'[d].owed # <<>> => calls'[d].item # None
    BY <1>3, <1>4, <1>6, <2>1, CodexCalls DEF OtherCalls
  <2>. QED
    BY <1>1, <2>1, <2>2, CodexCallsKept
<1>12. QueueStep /\ AnswerType'
  BY <1>1, <1>5 DEF QueueStep, Opened
<1>. QED
  BY <1>1, <1>5, <1>8, <1>9, <1>10, <1>11, <1>12, EmitterFrame DEF Protocol!Next

(***************************************************************************)
(* A step on the accumulator of one call, with or without a delta.         *)
(***************************************************************************)
LEMMA CodexCallStep ==
    ASSUME StreamInv, agent = "codex", UNCHANGED <<agent, upstream>>, Ready, Consume,
           UNCHANGED <<closing, started, next, thinkIdx, textIdx, said>>,
           NEW c \in Indexes, NEW acc \in Accumulators,
           calls' = [calls EXCEPT ![c] = acc],
           acc.item = calls[c].item, acc.owed \in {<<>>, calls[c].owed},
           acc.state = IF calls[c].state = "absent" THEN "held" ELSE calls[c].state,
           \/ UNCHANGED answer
           \/ \E delta \in Seq(Token) :
                  /\ delta # <<>> /\ calls[c].item # None
                  /\ WriteDelta(calls[c].item, delta)
    PROVE  StreamInv' /\ [Protocol!Next]_answer
<1>1. /\ calls \in [Indexes -> Accumulators] /\ ~Finishing
      /\ next = Len(answer.items)
  BY CodexCalls, EventFacts
<1>2. /\ calls' \in [Indexes -> Accumulators] /\ calls'[c] = acc
      /\ \A d \in Indexes : d # c => calls'[d] = calls[d]
  BY <1>1
<1>3. SameCalls
  BY <1>2 DEF SameCalls, Announced
<1>4. \A d \in Indexes :
         /\ calls'[d].state # "filled" /\ calls'[d].state # "sent"
         /\ calls'[d].item # None => calls'[d].state \in {"open", "sent"}
         /\ calls'[d].owed # <<>> => calls'[d].item # None
  BY <1>1, <1>2, CodexCalls
<1>5. EmitterType' /\ QueueStep
  BY <1>2 DEF StreamInv, EmitterType, QueueStep
<1>6. CASE UNCHANGED answer
  <2>1. ItemsInv'
    BY <1>3, <1>6, AfterSameItems DEF StreamInv, ItemsInv
  <2>2. PhaseInv' /\ AnswerType'
    BY <1>1, <1>6 DEF StreamInv, PhaseInv, AnswerType
  <2>3. CallsInv'
    BY <1>1, <1>4, <1>6, CodexCallsKept
  <2>. QED
    BY <1>5, <1>6, <2>1, <2>2, <2>3, EmitterFrame
<1>7. ASSUME NEW delta \in Seq(Token), delta # <<>>, calls[c].item # None,
             WriteDelta(calls[c].item, delta)
      PROVE  StreamInv' /\ Protocol!Next
  <2>1. IsOpen(calls[c].item, "call")
    BY <1>1, <1>7, CodexCalls DEF StreamInv, OpenInv, Announced
  <2>2. answer.phase = "live"
    BY <2>1, LiveWhenOpen
  <2>3. Protocol!Extend /\ Extended
    BY <1>7, <2>1, <2>2, DeltaWrite DEF StreamInv
  <2>4. ItemsInv'
    BY <1>3, <2>3, AfterExtend DEF StreamInv, ItemsInv
  <2>5. PhaseInv' /\ AnswerType'
    BY <2>2, <2>3, SamePhase DEF Extended
  <2>6. CallsInv'
    <3>1. next' = Len(answer'.items)
      BY <1>1, <2>3 DEF Extended
    <3>. QED
      BY <1>4, <3>1, CodexCallsKept
  <2>. QED
    BY <1>5, <2>3, <2>4, <2>5, <2>6, EmitterFrame DEF Protocol!Next
<1>. QED
  BY <1>6, <1>7

LEMMA CodexArguments ==
    ASSUME StreamInv, agent = "codex", UNCHANGED <<agent, upstream>>,
           Codex!FirstArguments \/ Codex!RepeatedStart \/ Codex!ArgumentsDelta
    PROVE  StreamInv' /\ [Protocol!Next]_answer
<1>. DEFINE c == Event.index
<1>1. /\ Ready /\ Event.type \in {"toolStart", "toolDelta"} /\ Consume
      /\ UNCHANGED <<closing, started, next, thinkIdx, textIdx, said>>
  BY DEF Codex!FirstArguments, Codex!RepeatedStart, Codex!ArgumentsDelta,
         Codex!Is, Codex!Ready, Codex!Event, Codex!Consume, Ready, Event, Consume
<1>. HIDE DEF c
<1>2. /\ c \in Indexes /\ calls[c] \in Accumulators /\ Event.delta \in Seq(Token)
      /\ calls \in [Indexes -> Accumulators] /\ ~Finishing
  BY <1>1, EventFacts, CodexCalls DEF c
<1>3. CASE Codex!FirstArguments
  <2>. DEFINE acc == [calls[c] EXCEPT !.owed = <<>>]
  <2>1. /\ calls[c].owed # <<>> /\ WriteDelta(calls[c].item, calls[c].owed)
        /\ calls' = [calls EXCEPT ![c].owed = <<>>]
    BY <1>3 DEF Codex!FirstArguments, Codex!WriteDelta, Codex!Event, WriteDelta, Event, c
  <2>2. calls' = [calls EXCEPT ![c] = acc]
    BY <2>1
  <2>3. calls[c].item # None /\ calls[c].owed \in Seq(Token) /\ calls[c].state # "absent"
    BY <1>2, <2>1, CodexCalls DEF Accumulators
  <2>4. /\ acc \in Accumulators /\ acc.item = calls[c].item /\ acc.owed = <<>>
        /\ acc.state = calls[c].state
    <3>1. <<>> \in Seq(Token)
      OBVIOUS
    <3>2. calls[c] \in Accumulators
      BY <1>2
    <3>. QED
      BY <3>1, <3>2 DEF Accumulators
  <2>. HIDE DEF acc
  <2>. QED
    BY <1>1, <1>2, <2>1, <2>2, <2>3, <2>4, CodexCallStep
<1>4. CASE Codex!RepeatedStart
  <2>1. calls' = [calls EXCEPT ![c] = Codex!Accumulated(Event)] /\ UNCHANGED answer
    BY <1>4 DEF Codex!RepeatedStart, Codex!Event, Event, c
  <2>. QED
    BY <1>1, <1>2, <2>1, CodexAccumulated, CodexCallStep DEF c
<1>5. CASE Codex!ArgumentsDelta
  <2>1. /\ calls' = [calls EXCEPT ![c] = Codex!Accumulated(Event)]
        /\ \/ UNCHANGED answer
           \/ /\ Event.delta # <<>> /\ calls[c].item # None
              /\ WriteDelta(calls[c].item, Event.delta)
    BY <1>5 DEF Codex!ArgumentsDelta, Codex!WriteDelta, Codex!Event, WriteDelta, Event, c
  <2>. QED
    BY <1>1, <1>2, <2>1, CodexAccumulated, CodexCallStep DEF c
<1>. QED
  BY <1>3, <1>4, <1>5

LEMMA CodexQuiet ==
    ASSUME StreamInv, agent = "codex", UNCHANGED <<agent, upstream>>,
           Codex!PassEnd \/ Codex!LogDiscussion
    PROVE  StreamInv' /\ UNCHANGED answer
<1>1. CASE Codex!PassEnd
  <2>1. /\ Ready /\ Event.type \in {"done", "error"} /\ Consume
        /\ UNCHANGED <<closing, answer, emitter>>
    BY <1>1 DEF Codex!PassEnd, Codex!Is, Codex!Ready, Codex!Event, Codex!Consume,
                Codex!emitter, Ready, Event, Consume, emitter
  <2>. QED
    BY <2>1, EventPassed
<1>2. CASE Codex!LogDiscussion
  <2>1. UNCHANGED <<queue, closing, answer, started, next, thinkIdx, textIdx, calls, said>>
    BY <1>2 DEF Codex!LogDiscussion, Codex!emitter
  <2>2. ItemsInv'
    BY <2>1, AfterSameItems DEF StreamInv, ItemsInv, SameCalls, Announced
  <2>3. EmitterType' /\ AnswerType' /\ QueueStep
    BY <2>1 DEF StreamInv, EmitterType, AnswerType, QueueStep
  <2>4. PhaseInv' /\ CallsInv'
    BY <2>1 DEF StreamInv, PhaseInv, CallsInv, Finishing
  <2>. QED
    BY <2>1, <2>2, <2>3, <2>4, EmitterFrame
<1>. QED
  BY <1>1, <1>2

LEMMA CodexCallDone ==
    ASSUME StreamInv, agent = "codex", UNCHANGED <<agent, upstream>>,
           NEW c \in Indexes, Codex!CallDone(c)
    PROVE  StreamInv' /\ Protocol!Next
<1>1. /\ Finishing /\ answer.phase # "over" /\ calls[c].state = "open"
      /\ calls' = [calls EXCEPT ![c].state = "sent"]
      /\ WriteStop(calls[c].item, calls[c].args)
      /\ UNCHANGED <<queue, closing, started, next, thinkIdx, textIdx, said>>
  BY DEF Codex!CallDone, Codex!Logged, Codex!Ending, Codex!Ready, Codex!WriteStop,
         Finishing, WriteStop
<1>2. IsOpen(calls[c].item, "call") /\ Announced(c)
  BY <1>1 DEF StreamInv, OpenInv, Announced
<1>3. answer.phase = "live"
  BY <1>1, <1>2, LiveWhenOpen
<1>4. /\ calls \in [Indexes -> Accumulators] /\ calls[c] \in Accumulators
      /\ next = Len(answer.items)
  BY CodexCalls
<1>5. Protocol!Close /\ Stopped(calls[c].item)
  <2>1. calls[c].args \in Seq(Token)
    BY <1>4 DEF Accumulators
  <2>. QED
    BY <1>1, <1>2, <1>3, <2>1, StopWrite DEF StreamInv
<1>6. calls' = [calls EXCEPT ![c] = [calls[c] EXCEPT !.state = "sent"]]
  BY <1>1, <1>4
<1>7. /\ [calls[c] EXCEPT !.state = "sent"] \in Accumulators
      /\ [calls[c] EXCEPT !.state = "sent"].state = "sent"
      /\ [calls[c] EXCEPT !.state = "sent"].item = calls[c].item
      /\ [calls[c] EXCEPT !.state = "sent"].owed = calls[c].owed
  BY <1>4 DEF Accumulators
<1>8. /\ calls' \in [Indexes -> Accumulators] /\ calls'[c].state = "sent"
      /\ calls'[c].item = calls[c].item /\ calls'[c].owed = calls[c].owed
      /\ OtherCalls(c)
  BY <1>4, <1>6, <1>7 DEF OtherCalls
<1>9. ItemsInv'
  BY <1>1, <1>2, <1>5, <1>8, AfterStopCall DEF StreamInv, ItemsInv
<1>10. EmitterType'
  BY <1>1, <1>8 DEF StreamInv, EmitterType
<1>11. PhaseInv'
  BY <1>1, <1>3, <1>5, SamePhase DEF Stopped
<1>12. CallsInv'
  <2>1. next' = Len(answer'.items) /\ Finishing'
    BY <1>1, <1>4, <1>5 DEF Stopped, Finishing
  <2>2. \A d \in Indexes :
           /\ calls'[d].state # "filled"
           /\ calls'[d].item # None => calls'[d].state \in {"open", "sent"}
           /\ calls'[d].owed # <<>> => calls'[d].item # None
    BY <1>8, CodexCalls DEF OtherCalls
  <2>. QED
    BY <1>1, <2>1, <2>2, CodexCallsKept
<1>13. QueueStep /\ AnswerType'
  BY <1>1, <1>5 DEF QueueStep, Stopped
<1>. QED
  BY <1>1, <1>5, <1>9, <1>10, <1>11, <1>12, <1>13, EmitterFrame DEF Protocol!Next

LEMMA CodexResponseCompleted ==
    ASSUME StreamInv, agent = "codex", UNCHANGED <<agent, upstream>>, Codex!ResponseCompleted
    PROVE  StreamInv' /\ Protocol!Next
<1>1. /\ Finishing /\ answer.phase # "over" /\ thinkIdx = None /\ textIdx = None
      /\ \A c \in Indexes : calls[c].state # "open"
      /\ WriteEnd(Codex!Status(closing)) /\ UNCHANGED <<queue, closing, emitter>>
  BY DEF Codex!ResponseCompleted, Codex!Logged, Codex!Ending, Codex!Ready, Codex!WriteEnd,
         Codex!emitter, Finishing, WriteEnd, emitter
<1>2. \A i \in DOMAIN answer.items : ~answer.items[i].open
  BY <1>1, CodexCalls, NothingOpen DEF Announced
<1>. QED
  BY <1>1, <1>2, AnswerEnds

LEMMA CodexStep ==
    ASSUME StreamInv, agent = "codex", UNCHANGED <<agent, upstream>>, Codex!Step
    PROVE  StreamInv' /\ [Protocol!Next]_answer
<1>1. ASSUME BlockStep(said) PROVE StreamInv' /\ Protocol!Next
  <2>1. said \in Seq(Token) \cup {None}
    BY DEF StreamInv, EmitterType
  <2>. QED
    BY <1>1, <2>1, BlockKeeps
<1>. QED
  BY <1>1, CodexStart, CodexBlocks, CodexAddCall, CodexArguments, CodexQuiet,
     CodexCallDone, CodexResponseCompleted
  DEF Codex!Step, Codex!Emit, Codex!Done

-----------------------------------------------------------------------------
(* GeminiEmitter.                                                          *)

LEMMA GeminiFacts ==
    ASSUME StreamInv, agent = "gemini"
    PROVE  /\ calls \in [Indexes -> Accumulators]
           /\ \A c \in Indexes : calls[c].state \in {"absent", "held", "sent"}
           /\ \A i \in DOMAIN answer.items : ~answer.items[i].open
<1>1. /\ calls \in [Indexes -> Accumulators] /\ thinkIdx = None /\ textIdx = None
      /\ \A c \in Indexes : calls[c].state \in {"absent", "held", "sent"}
  BY DEF StreamInv, EmitterType, CallsInv
<1>. QED
  BY <1>1, NothingOpen DEF Announced

(***************************************************************************)
(* The items a chunk carries, added to those before.                       *)
(***************************************************************************)
LEMMA ChunkWrite ==
    ASSUME AnswerType, answer.phase # "over",
           \A i \in DOMAIN answer.items : ~answer.items[i].open,
           NEW parts \in Seq(Items), parts # <<>>, \A i \in DOMAIN parts : ~parts[i].open,
           answer' = [answer EXCEPT !.phase = "live", !.items = @ \o parts]
    PROVE  /\ Protocol!Deliver
           /\ AnswerType' /\ answer'.phase = "live"
           /\ \A i \in DOMAIN answer'.items : ~answer'.items[i].open
<1>. DEFINE items == answer.items
            n == Len(items)
            all == items \o parts
<1>1. items \in Seq(Items) /\ n \in Nat /\ DOMAIN items = 1 .. n
  BY DEF AnswerType
<1>2. /\ all \in Seq(Items) /\ Len(all) = n + Len(parts) /\ Len(parts) > 0
      /\ \A i \in 1 .. n + Len(parts) : all[i] = IF i <= n THEN items[i] ELSE parts[i - n]
  BY <1>1, ConcatProperties
<1>3. answer' = [phase |-> "live", items |-> all, reason |-> answer.reason]
  BY DEF AnswerType
<1>4. /\ answer'.phase = "live" /\ answer'.items = all
      /\ answer' = [phase |-> answer'.phase, items |-> answer'.items, reason |-> answer'.reason]
      /\ answer' = [answer EXCEPT !.phase = "live", !.items = answer'.items]
  BY <1>3 DEF AnswerType
<1>. HIDE DEF all
<1>5. DOMAIN all = 1 .. n + Len(parts) /\ DOMAIN parts = 1 .. Len(parts) /\ Len(parts) \in Nat
  BY <1>2
<1>6. ASSUME NEW i \in DOMAIN all PROVE ~all[i].open
  <2>1. CASE i <= n
    BY <1>1, <1>2, <1>5, <1>6, <2>1
  <2>2. CASE ~(i <= n)
    <3>1. i - n \in DOMAIN parts /\ all[i] = parts[i - n]
      BY <1>1, <1>2, <1>5, <1>6, <2>2
    <3>. QED
      BY <3>1
  <2>. QED
    BY <2>1, <2>2
<1>7. items = SubSeq(all, 1, n)
  <2>1. /\ SubSeq(all, 1, n) \in Seq(Items) /\ Len(SubSeq(all, 1, n)) = n
        /\ \A i \in 1 .. n : SubSeq(all, 1, n)[i] = all[i]
    BY <1>1, <1>2
  <2>2. ASSUME NEW i \in 1 .. n PROVE SubSeq(all, 1, n)[i] = items[i]
    <3>1. i \in 1 .. n + Len(parts) /\ i <= n
      BY <1>1, <1>5
    <3>2. all[i] = items[i]
      BY <1>2, <3>1
    <3>. QED
      BY <2>1, <3>2
  <2>. QED
    BY <1>1, <2>1, <2>2, SeqEqual
<1>8. Protocol!Deliver
  BY <1>1, <1>2, <1>4, <1>6, <1>7 DEF Protocol!Deliver
<1>. QED
  BY <1>2, <1>4, <1>6, <1>8 DEF AnswerType

(* What a step of GeminiEmitter must show.                                 *)
LEMMA GeminiFrame ==
    ASSUME StreamInv, agent = "gemini", UNCHANGED <<agent, upstream, closing>>, QueueStep,
           UNCHANGED <<started, next, thinkIdx, textIdx, said>>,
           calls' \in [Indexes -> Accumulators],
           \A c \in Indexes : calls'[c].state \in {"absent", "held", "sent"},
           AnswerType', \A i \in DOMAIN answer'.items : ~answer'.items[i].open, PhaseInv'
    PROVE  StreamInv'
<1>1. thinkIdx' = None /\ textIdx' = None /\ EmitterType'
  BY DEF StreamInv, EmitterType, CallsInv
<1>2. ItemsInv'
  BY <1>1 DEF ItemsInv, OpenInv, DistinctInv, OwnedInv, Announced
<1>3. CallsInv'
  BY <1>1 DEF CallsInv
<1>. QED
  BY <1>1, <1>2, <1>3, EmitterFrame

LEMMA GeminiPhase ==
    ASSUME StreamInv, agent = "gemini", agent' = agent,
           answer'.phase = "live" \/ (UNCHANGED <<answer, started, closing>> /\ ~Finishing)
    PROVE  PhaseInv'
  BY DEF StreamInv, PhaseInv

LEMMA GeminiChunk ==
    ASSUME StreamInv, agent = "gemini", UNCHANGED <<agent, upstream>>, Gemini!Chunk
    PROVE  StreamInv' /\ Protocol!Next
<1>. DEFINE part == Gemini!Part(Event.type, Event.delta, None)
<1>1. /\ Ready /\ Event.type \in {"thinking", "text"} /\ Consume
      /\ UNCHANGED <<closing, started, next, thinkIdx, textIdx, calls, said>>
      /\ answer' = [answer EXCEPT !.phase = "live", !.items = @ \o <<part>>]
  BY DEF Gemini!Chunk, Gemini!WriteChunk, Gemini!Is, Gemini!Ready, Gemini!Event,
         Gemini!Consume, Gemini!emitter, Ready, Event, Consume
<1>2. Event.delta \in Seq(Token) /\ ~Finishing
  BY <1>1, EventFacts
<1>3. part \in Items /\ ~part.open
  BY <1>1, <1>2 DEF Items, MaybeToken, Gemini!Part
<1>. HIDE DEF part
<1>4. /\ <<part>> \in Seq(Items) /\ <<part>> # <<>>
      /\ \A i \in DOMAIN <<part>> : ~(<<part>>[i]).open
  BY <1>3
<1>5. answer.phase # "over"
  BY <1>2 DEF StreamInv, PhaseInv
<1>6. /\ Protocol!Deliver
      /\ AnswerType' /\ answer'.phase = "live"
      /\ \A i \in DOMAIN answer'.items : ~answer'.items[i].open
  BY <1>1, <1>4, <1>5, GeminiFacts, ChunkWrite DEF StreamInv
<1>7. PhaseInv' /\ QueueStep
  BY <1>1, <1>6, GeminiPhase DEF QueueStep
<1>. QED
  BY <1>1, <1>6, <1>7, GeminiFacts, GeminiFrame DEF Protocol!Next

LEMMA GeminiQuiet ==
    ASSUME StreamInv, agent = "gemini", UNCHANGED <<agent, upstream>>,
           Gemini!HoldCall \/ Gemini!PassEnd
    PROVE  StreamInv' /\ UNCHANGED answer
<1>1. CASE Gemini!PassEnd
  <2>1. /\ Ready /\ Event.type \in {"done", "error"} /\ Consume
        /\ UNCHANGED <<closing, answer, emitter>>
    BY <1>1 DEF Gemini!PassEnd, Gemini!Is, Gemini!Ready, Gemini!Event, Gemini!Consume,
                Gemini!emitter, Ready, Event, Consume, emitter
  <2>. QED
    BY <2>1, EventPassed
<1>2. CASE Gemini!HoldCall
  <2>. DEFINE c == Event.index
              id == IF Event.type = "toolStart" THEN Event.id ELSE calls[c].id
              args == calls[c].args \o Event.delta
              acc == [calls[c] EXCEPT !.id = id, !.args = args, !.state = "held"]
  <2>1. /\ Ready /\ Event.type \in {"toolStart", "toolDelta"} /\ Consume
        /\ UNCHANGED <<closing, answer, started, next, thinkIdx, textIdx, said>>
    BY <1>2 DEF Gemini!HoldCall, Gemini!Is, Gemini!Ready, Gemini!Event, Gemini!Consume,
                Ready, Event, Consume
  <2>2. /\ c \in Indexes /\ Event.delta \in Seq(Token) /\ Event.id \in MaybeToken
        /\ ~Finishing
    BY <2>1, EventFacts
  <2>3. calls \in [Indexes -> Accumulators] /\ calls[c] \in Accumulators
    BY <2>2, GeminiFacts
  <2>. HIDE DEF c
  <2>4. calls' = [calls EXCEPT ![c] = acc]
    <3>1. calls' = [calls EXCEPT ![c] = Gemini!Accumulated(Event)]
      BY <1>2 DEF Gemini!HoldCall, Gemini!Event, Event, c
    <3>2. Gemini!Accumulated(Event) = acc
      BY DEF Gemini!Accumulated, c
    <3>. QED
      BY <3>1, <3>2
  <2>5. id \in MaybeToken /\ args \in Seq(Token)
    BY <2>2, <2>3 DEF Accumulators
  <2>. HIDE DEF id, args
  <2>6. acc \in Accumulators /\ acc.state = "held"
    BY <2>3, <2>5 DEF Accumulators
  <2>. HIDE DEF acc
  <2>7. /\ calls' \in [Indexes -> Accumulators]
        /\ \A d \in Indexes : calls'[d].state \in {"absent", "held", "sent"}
    BY <2>2, <2>3, <2>4, <2>6, GeminiFacts
  <2>8. PhaseInv' /\ QueueStep
    BY <2>1, <2>2, GeminiPhase DEF QueueStep
  <2>9. AnswerType' /\ \A i \in DOMAIN answer'.items : ~answer'.items[i].open
    BY <2>1, GeminiFacts DEF StreamInv, AnswerType
  <2>. QED
    BY <2>1, <2>7, <2>8, <2>9, GeminiFrame
<1>. QED
  BY <1>1, <1>2

(* What a part carries of the call's arguments.                            *)
Carried(c) == IF calls[c].args \in Objects THEN calls[c].args ELSE <<>>

LEMMA FlushedParts ==
    ASSUME StreamInv, agent = "gemini", Gemini!FlushCalls
    PROVE  \E parts \in Seq(Items) :
              /\ parts # <<>>
              /\ \A i \in DOMAIN parts : ~parts[i].open /\ parts[i].kind = "call"
              /\ answer' = [answer EXCEPT !.phase = "live", !.items = @ \o parts]
              /\ \E order \in Bijection(DOMAIN parts, Gemini!Held) :
                    \A i \in DOMAIN parts : /\ parts[i].id = calls[order[i]].id
                                            /\ parts[i].content = Carried(order[i])
<1>. DEFINE Held == Gemini!Held
            n == Cardinality(Held)
<1>1. PICK order \in [1 .. n -> Held] :
         /\ \A c \in Held : \E i \in DOMAIN order : order[i] = c
         /\ answer' = [answer EXCEPT !.phase = "live", !.items = @ \o
                          [i \in DOMAIN order |->
                              Gemini!Part("call", Carried(order[i]), calls[order[i]].id)]]
  <2>1. \E order \in [1 .. n -> Held] :
           /\ \A c \in Held : \E i \in DOMAIN order : order[i] = c
           /\ Gemini!WriteChunk([i \in DOMAIN order |->
                  Gemini!Part("call", Carried(order[i]), calls[order[i]].id)])
    <3>1. Gemini!Cardinality(Gemini!Held) = n
      BY DEF Gemini!Cardinality, Cardinality
    <3>. QED
      BY <3>1 DEF Gemini!FlushCalls, Gemini!Unmarshalled, Carried
  <2>. QED
    BY <2>1 DEF Gemini!WriteChunk
<1>. DEFINE parts == [i \in DOMAIN order |->
                         Gemini!Part("call", Carried(order[i]), calls[order[i]].id)]
<1>2. Held # {}
  BY DEF Gemini!FlushCalls
<1>3. Held \subseteq Indexes /\ IsFiniteSet(Held) /\ n \in Nat /\ n # 0
  <2>1. Held \subseteq Indexes
    BY DEF Gemini!Held
  <2>2. IsFiniteSet(Held)
    BY <2>1, FS_Subset, UpstreamAssumption
  <2>. QED
    BY <1>2, <2>1, <2>2, FS_CardinalityType, FS_EmptySet
<1>. HIDE DEF Held, n
<1>4. calls \in [Indexes -> Accumulators] /\ \A c \in Indexes : calls[c] \in Accumulators
  BY GeminiFacts
<1>5. /\ parts \in Seq(Items) /\ parts # <<>>
      /\ \A i \in DOMAIN parts : ~parts[i].open /\ parts[i].kind = "call"
  <2>1. DOMAIN parts = 1 .. n
    OBVIOUS
  <2>2. \A i \in 1 .. n : parts[i] \in Items /\ ~parts[i].open /\ parts[i].kind = "call"
    <3>1. TAKE i \in 1 .. n
    <3>2. calls[order[i]] \in Accumulators
      BY <1>3, <1>4
    <3>. QED
      BY <3>2 DEF Gemini!Part, Carried, Items, Accumulators
  <2>. QED
    BY <1>3, <2>1, <2>2
<1>6. \A i \in DOMAIN parts : /\ parts[i].id = calls[order[i]].id
                              /\ parts[i].content = Carried(order[i])
  BY DEF Gemini!Part
<1>7. order \in Bijection(DOMAIN parts, Held)
  <2>1. DOMAIN parts = 1 .. n /\ DOMAIN order = 1 .. n
    OBVIOUS
  <2>2. order \in Surjection(1 .. n, Held)
    BY <1>1, <2>1 DEF Surjection
  <2>3. IsFiniteSet(1 .. n) /\ Cardinality(1 .. n) = Cardinality(Held)
    BY <1>3, FS_Interval DEF n
  <2>4. order \in Injection(1 .. n, Held)
    BY <2>2, <2>3, FS_SurjSameCardinalityImpliesInj
  <2>. QED
    BY <2>1, <2>2, <2>4 DEF Bijection
<1>. HIDE DEF parts
<1>8. order \in Bijection(DOMAIN parts, Gemini!Held)
  BY <1>7 DEF Held
<1>9. answer' = [answer EXCEPT !.phase = "live", !.items = @ \o parts]
  BY <1>1 DEF parts
<1>. QED
  BY <1>5, <1>6, <1>8, <1>9

LEMMA GeminiFlushCalls ==
    ASSUME StreamInv, agent = "gemini", UNCHANGED <<agent, upstream>>, Gemini!FlushCalls
    PROVE  StreamInv' /\ Protocol!Next
<1>. DEFINE Held == Gemini!Held
<1>1. /\ Finishing /\ answer.phase # "over"
      /\ calls' = [c \in Indexes |-> IF c \in Held THEN [calls[c] EXCEPT !.state = "sent"]
                                                   ELSE calls[c]]
      /\ UNCHANGED <<queue, closing, started, next, thinkIdx, textIdx, said>>
  BY DEF Gemini!FlushCalls, Gemini!Ending, Gemini!Ready, Finishing
<1>2. PICK parts \in Seq(Items) :
         /\ parts # <<>>
         /\ \A i \in DOMAIN parts : ~parts[i].open
         /\ answer' = [answer EXCEPT !.phase = "live", !.items = @ \o parts]
  BY FlushedParts
<1>3. Held \subseteq Indexes
  BY DEF Gemini!Held
<1>. HIDE DEF Held
<1>4. calls \in [Indexes -> Accumulators] /\ \A c \in Indexes : calls[c] \in Accumulators
  BY GeminiFacts
<1>5. /\ Protocol!Deliver
      /\ AnswerType' /\ answer'.phase = "live"
      /\ \A i \in DOMAIN answer'.items : ~answer'.items[i].open
  BY <1>1, <1>2, GeminiFacts, ChunkWrite DEF StreamInv
<1>6. /\ calls' \in [Indexes -> Accumulators]
      /\ \A c \in Indexes : calls'[c].state \in {"absent", "held", "sent"}
  <2>1. ASSUME NEW c \in Indexes
        PROVE  calls'[c] \in Accumulators /\ calls'[c].state \in {"absent", "held", "sent"}
    <3>1. CASE c \in Held
      <4>1. calls'[c] = [calls[c] EXCEPT !.state = "sent"]
        BY <1>1, <3>1
      <4>. QED
        BY <1>4, <4>1 DEF Accumulators
    <3>2. CASE c \notin Held
      BY <1>1, <1>4, <3>2, GeminiFacts
    <3>. QED
      BY <3>1, <3>2
  <2>2. calls' = [c \in Indexes |-> calls'[c]]
    BY <1>1
  <2>. QED
    BY <2>1, <2>2
<1>7. PhaseInv' /\ QueueStep
  BY <1>1, <1>5, GeminiPhase DEF QueueStep
<1>. QED
  BY <1>1, <1>5, <1>6, <1>7, GeminiFrame DEF Protocol!Next

LEMMA GeminiStep ==
    ASSUME StreamInv, agent = "gemini", UNCHANGED <<agent, upstream>>, Gemini!Step
    PROVE  StreamInv' /\ [Protocol!Next]_answer
<1>1. CASE Gemini!LastChunk
  <2>1. /\ Finishing /\ answer.phase # "over"
        /\ WriteEnd(closing) /\ UNCHANGED <<queue, closing, emitter>>
    BY <1>1 DEF Gemini!LastChunk, Gemini!Ending, Gemini!Ready, Gemini!WriteEnd,
                Gemini!emitter, Finishing, WriteEnd, emitter
  <2>. QED
    BY <2>1, GeminiFacts, AnswerEnds
<1>. QED
  BY <1>1, GeminiChunk, GeminiQuiet, GeminiFlushCalls DEF Gemini!Step

-----------------------------------------------------------------------------
(* The theorems.                                                           *)

LEMMA StreamInit == Init => StreamInv /\ Protocol!Init
<1>. SUFFICES ASSUME Init PROVE StreamInv /\ Protocol!Init
  OBVIOUS
<1>1. /\ lines = 0 /\ chan = <<>> /\ seenIndexes = {} /\ reasoningBuf = <<>> /\ thinkBuf = <<>>
      /\ queue = <<>> /\ closing = None /\ started = FALSE /\ next = 0
      /\ answer = [phase |-> "waiting", items |-> <<>>, reason |-> None]
      /\ thinkIdx = None /\ textIdx = None /\ calls = [c \in Indexes |-> NoCall] /\ said = <<>>
  BY DEF Init, InitUpstream, InitResponse
<1>2. UpstreamType
  BY <1>1, UpstreamAssumption DEF UpstreamType
<1>3. AnswerType
  BY <1>1 DEF AnswerType
<1>4. NoCall \in Accumulators
  BY DEF NoCall, Accumulators, MaybeToken
<1>5. EmitterType
  <2>1. calls \in [Indexes -> Accumulators]
    BY <1>1, <1>4
  <2>2. said \in Seq(Token)
    BY <1>1
  <2>. QED
    BY <1>1, <2>1, <2>2 DEF EmitterType
<1>6. \A c \in Indexes :
         calls[c].state = "absent" /\ calls[c].item = None /\ calls[c].owed = <<>>
  BY <1>1 DEF NoCall
<1>7. PhaseInv /\ OpenInv /\ DistinctInv /\ OwnedInv
  BY <1>1, <1>6 DEF PhaseInv, OpenInv, DistinctInv, OwnedInv, Announced
<1>8. CallsInv /\ StartInv
  BY <1>1, <1>6 DEF CallsInv, StartInv, HasType
<1>. QED
  BY <1>1, <1>2, <1>3, <1>5, <1>7, <1>8 DEF StreamInv, Protocol!Init

(***************************************************************************)
(* Every step keeps the invariant, and is a step of StreamProtocol or one  *)
(* that the client does not see.                                           *)
(***************************************************************************)
LEMMA StreamStep ==
    ASSUME StreamInv, [Next]_vars
    PROVE  StreamInv' /\ [Protocol!Next]_answer
<1>1. CASE UNCHANGED vars
  <2>1. UNCHANGED <<agent, lines, chan, seenIndexes, reasoningBuf, thinkBuf, queue, closing,
                    answer, started, next, thinkIdx, textIdx, calls, said>>
    BY <1>1 DEF vars, upstream, parser, normalizer, emitter
  <2>2. UpstreamType' /\ AnswerType' /\ EmitterType'
    BY <2>1 DEF StreamInv, UpstreamType, AnswerType, EmitterType
  <2>3. ItemsInv'
    BY <2>1, AfterSameItems DEF StreamInv, ItemsInv, SameCalls, Announced
  <2>4. PhaseInv' /\ CallsInv' /\ StartInv'
    BY <2>1 DEF StreamInv, PhaseInv, CallsInv, StartInv, Finishing
  <2>. QED
    BY <2>1, <2>2, <2>3, <2>4 DEF StreamInv, ItemsInv
<1>2. CASE Upstream /\ UNCHANGED <<agent, answer, emitter, logged>>
  BY <1>2, UpstreamKeeps
<1>3. CASE Emitting /\ UNCHANGED <<agent, upstream>>
  BY <1>3, ClaudeStep, CodexStep, GeminiStep DEF Emitting
<1>. QED
  BY <1>1, <1>2, <1>3 DEF Next

(***************************************************************************)
(* Whatever the upstream sends and however its events are interleaved, an  *)
(* emitter knows of every item that is open and of none that is not, and   *)
(* no two calls share an item.                                             *)
(***************************************************************************)
THEOREM StreamInvariant == Spec => []StreamInv
<1>1. Init => StreamInv
  BY StreamInit
<1>2. StreamInv /\ [Next]_vars => StreamInv'
  BY StreamStep
<1>. QED
  BY <1>1, <1>2, PTL DEF Spec

(***************************************************************************)
(* Each of the three emitters implements StreamProtocol: items appear in   *)
(* order, grow while open, are left alone once closed and are all closed   *)
(* when the answer is over.                                                *)
(***************************************************************************)
THEOREM ProtocolKept == Spec => KeepsProtocol
<1>1. Init => Protocol!Init
  BY StreamInit
<1>2. StreamInv /\ [Next]_vars => [Protocol!Next]_answer
  BY StreamStep
<1>. QED
  BY <1>1, <1>2, StreamInvariant, PTL DEF Spec, KeepsProtocol, Protocol!Spec

-----------------------------------------------------------------------------
(* The text of an answer.                                                  *)

(***************************************************************************)
(* What FlattenSeq computes, element by element.                           *)
(***************************************************************************)
Flattens(f, seqs) ==
    /\ f[1] = seqs[1]
    /\ \A i \in 2 .. Len(seqs) : f[i] = f[i - 1] \o seqs[i]

LEMMA FlattenExists ==
    ASSUME NEW E, NEW seqs \in Seq(Seq(E)), seqs # <<>>
    PROVE  \E f \in [1 .. Len(seqs) -> Seq(E)] :
              Flattens(f, seqs) /\ FlattenSeq(seqs) = f[Len(seqs)]
<1>1. /\ Len(seqs) \in Nat \ {0} /\ DOMAIN seqs = 1 .. Len(seqs)
      /\ \A i \in 1 .. Len(seqs) : seqs[i] \in Seq(E)
  OBVIOUS
<1>. DEFINE Good(n) == \E f \in [1 .. n -> Seq(E)] :
                          /\ f[1] = seqs[1]
                          /\ \A i \in 2 .. n : f[i] = f[i - 1] \o seqs[i]
            Steps == {n \in Nat : n + 1 <= Len(seqs) => Good(n + 1)}
<1>2. 0 \in Steps
  <2>1. [i \in 1 .. 1 |-> seqs[1]] \in [1 .. 1 -> Seq(E)]
    BY <1>1
  <2>2. 2 .. 1 = {} /\ [i \in 1 .. 1 |-> seqs[1]][1] = seqs[1]
    OBVIOUS
  <2>3. Good(1)
    BY <2>1, <2>2
  <2>4. Good(0 + 1)
    BY <2>3
  <2>. HIDE DEF Good
  <2>. QED
    BY <2>4
<1>3. ASSUME NEW n \in Steps PROVE n + 1 \in Steps
  <2>1. SUFFICES ASSUME n + 2 <= Len(seqs) PROVE Good(n + 2)
    <3>1. n \in Nat /\ (n + 1) + 1 = n + 2
      OBVIOUS
    <3>. HIDE DEF Good
    <3>. QED
      BY <3>1
  <2>2. n \in Nat /\ n + 1 <= Len(seqs) /\ n + 2 \in 1 .. Len(seqs)
    BY <1>1, <2>1
  <2>3. PICK f \in [1 .. n + 1 -> Seq(E)] :
           f[1] = seqs[1] /\ \A i \in 2 .. n + 1 : f[i] = f[i - 1] \o seqs[i]
    BY <2>2
  <2>. DEFINE g == [i \in 1 .. n + 2 |-> IF i = n + 2 THEN f[n + 1] \o seqs[i] ELSE f[i]]
  <2>4. f[n + 1] \in Seq(E) /\ seqs[n + 2] \in Seq(E)
    BY <1>1, <2>2, <2>3
  <2>5. f[n + 1] \o seqs[n + 2] \in Seq(E)
    BY <2>4
  <2>6. \A i \in 1 .. n + 2 : i # n + 2 => i \in 1 .. n + 1
    BY <2>2
  <2>7. g \in [1 .. n + 2 -> Seq(E)]
    BY <2>3, <2>5, <2>6
  <2>8. g[1] = seqs[1]
    BY <2>2, <2>3
  <2>9. ASSUME NEW i \in 2 .. n + 2 PROVE g[i] = g[i - 1] \o seqs[i]
    <3>1. i \in 1 .. n + 2 /\ i - 1 \in 1 .. n + 1 /\ i - 1 \in 1 .. n + 2 /\ i - 1 # n + 2
      BY <2>2
    <3>2. g[i - 1] = f[i - 1]
      BY <3>1
    <3>3. CASE i = n + 2
      <4>1. i - 1 = n + 1
        BY <2>2, <3>3
      <4>2. g[i] = f[n + 1] \o seqs[i]
        BY <3>1, <3>3
      <4>3. g[i - 1] = f[n + 1]
        BY <3>2, <4>1
      <4>. HIDE DEF g
      <4>. QED
        BY <4>2, <4>3
    <3>4. CASE i # n + 2
      <4>1. g[i] = f[i] /\ i \in 2 .. n + 1
        BY <2>2, <3>1, <3>4
      <4>. HIDE DEF g
      <4>. QED
        BY <2>3, <3>2, <4>1
    <3>. QED
      BY <3>3, <3>4
  <2>. HIDE DEF g
  <2>. QED
    BY <2>7, <2>8, <2>9
<1>4. Steps = Nat
  <2>1. Steps \subseteq Nat
    OBVIOUS
  <2>. HIDE DEF Steps
  <2>. QED
    BY <1>2, <1>3, <2>1, NatSetInduction
<1>5. Good(Len(seqs))
  <2>. HIDE DEF Good
  <2>1. Len(seqs) - 1 \in Nat /\ (Len(seqs) - 1) + 1 = Len(seqs)
    BY <1>1
  <2>2. Len(seqs) - 1 \in Steps
    <3>. HIDE DEF Steps
    <3>. QED
      BY <1>4, <2>1
  <2>. QED
    BY <1>1, <2>1, <2>2
<1>. DEFINE flatten == CHOOSE g : g = [i \in 1 .. Len(seqs) |->
                          IF i = 1 THEN seqs[i] ELSE g[i - 1] \o seqs[i]]
<1>6. PICK f \in [1 .. Len(seqs) -> Seq(E)] :
         f[1] = seqs[1] /\ \A i \in 2 .. Len(seqs) : f[i] = f[i - 1] \o seqs[i]
  BY <1>5
<1>7. f = [i \in 1 .. Len(seqs) |-> IF i = 1 THEN seqs[i] ELSE f[i - 1] \o seqs[i]]
  <2>1. \A i \in 1 .. Len(seqs) : i # 1 => i \in 2 .. Len(seqs)
    BY <1>1
  <2>. QED
    BY <1>6, <2>1
<1>8. flatten = [i \in 1 .. Len(seqs) |-> IF i = 1 THEN seqs[i] ELSE flatten[i - 1] \o seqs[i]]
  <2>1. \E g : g = [i \in 1 .. Len(seqs) |->
                       IF i = 1 THEN seqs[i] ELSE g[i - 1] \o seqs[i]]
    BY <1>7
  <2>. QED
    BY <2>1, Zenon
<1>9. FlattenSeq(seqs) = flatten[Len(seqs)]
  BY <1>1 DEF FlattenSeq
<1>. HIDE DEF flatten
<1>10. /\ flatten[1] = seqs[1]
       /\ \A i \in 2 .. Len(seqs) : flatten[i] = flatten[i - 1] \o seqs[i]
  <2>1. 1 \in 1 .. Len(seqs) /\ \A i \in 2 .. Len(seqs) : i \in 1 .. Len(seqs) /\ i # 1
    BY <1>1
  <2>. QED
    BY <1>8, <2>1
<1>11. flatten \in [1 .. Len(seqs) -> Seq(E)]
  <2>. DEFINE Typed == {n \in Nat : n + 1 <= Len(seqs) => flatten[n + 1] \in Seq(E)}
  <2>1. 0 \in Typed
    BY <1>1, <1>10
  <2>2. ASSUME NEW n \in Typed PROVE n + 1 \in Typed
    <3>1. SUFFICES ASSUME n + 2 <= Len(seqs) PROVE flatten[n + 2] \in Seq(E)
      BY <1>1
    <3>2. n \in Nat /\ n + 2 \in 2 .. Len(seqs) /\ (n + 2) - 1 = n + 1 /\ n + 1 <= Len(seqs)
      BY <1>1, <3>1
    <3>3. flatten[n + 2] = flatten[n + 1] \o seqs[n + 2]
      BY <1>10, <3>2
    <3>4. flatten[n + 1] \in Seq(E) /\ seqs[n + 2] \in Seq(E)
      BY <1>1, <3>2
    <3>. QED
      BY <3>3, <3>4
  <2>3. Typed = Nat
    <3>1. Typed \subseteq Nat
      OBVIOUS
    <3>. HIDE DEF Typed
    <3>. QED
      BY <2>1, <2>2, <3>1, NatSetInduction
  <2>4. ASSUME NEW i \in 1 .. Len(seqs) PROVE flatten[i] \in Seq(E)
    <3>1. i - 1 \in Nat /\ (i - 1) + 1 = i /\ i <= Len(seqs)
      BY <1>1
    <3>2. i - 1 \in Typed
      BY <2>3, <3>1
    <3>. QED
      BY <3>1, <3>2
  <2>5. DOMAIN flatten = 1 .. Len(seqs)
    BY <1>8
  <2>6. flatten = [i \in 1 .. Len(seqs) |-> flatten[i]]
    BY <1>8, <2>5
  <2>. QED
    BY <2>4, <2>6
<1>. QED
  BY <1>9, <1>10, <1>11 DEF Flattens

(* One element that is not empty.                                          *)
LEMMA FlattenOne ==
    ASSUME NEW E, NEW seqs \in Seq(Seq(E)), NEW k,
           \A i \in DOMAIN seqs : i # k => seqs[i] = <<>>
    PROVE  /\ k \in DOMAIN seqs => FlattenSeq(seqs) = seqs[k]
           /\ k \notin DOMAIN seqs => FlattenSeq(seqs) = <<>>
<1>1. CASE seqs = <<>>
  BY <1>1 DEF FlattenSeq
<1>2. CASE seqs # <<>>
  <2>1. PICK f \in [1 .. Len(seqs) -> Seq(E)] :
           Flattens(f, seqs) /\ FlattenSeq(seqs) = f[Len(seqs)]
    BY <1>2, FlattenExists
  <2>2. /\ Len(seqs) \in Nat \ {0} /\ DOMAIN seqs = 1 .. Len(seqs)
        /\ \A i \in 1 .. Len(seqs) : seqs[i] \in Seq(E)
    BY <1>2
  <2>. DEFINE Want(n) == IF k \in 1 .. n THEN seqs[k] ELSE <<>>
              Steps == {n \in Nat : n + 1 <= Len(seqs) => f[n + 1] = Want(n + 1)}
  <2>3. 0 \in Steps
    <3>1. f[1] = seqs[1] /\ 1 \in DOMAIN seqs /\ 1 .. 1 = {1}
      BY <2>1, <2>2 DEF Flattens
    <3>2. f[1] = Want(1)
      BY <3>1
    <3>. QED
      BY <3>2
  <2>4. ASSUME NEW n \in Steps PROVE n + 1 \in Steps
    <3>1. SUFFICES ASSUME n + 2 <= Len(seqs) PROVE f[n + 2] = Want(n + 2)
      <4>1. n \in Nat /\ (n + 1) + 1 = n + 2
        OBVIOUS
      <4>. HIDE DEF Want
      <4>. QED
        BY <4>1
    <3>2. /\ n \in Nat /\ n + 2 \in 2 .. Len(seqs) /\ (n + 2) - 1 = n + 1
          /\ n + 1 <= Len(seqs) /\ n + 2 \in DOMAIN seqs
      <4>1. Len(seqs) \in Nat /\ DOMAIN seqs = 1 .. Len(seqs) /\ n + 2 <= Len(seqs)
        BY <3>1
      <4>2. n \in Nat
        OBVIOUS
      <4>. HIDE DEF Want, Steps
      <4>. QED
        BY <4>1, <4>2
    <3>3. f[n + 2] = f[n + 1] \o seqs[n + 2] /\ f[n + 1] = Want(n + 1)
      BY <2>1, <3>2 DEF Flattens
    <3>4. CASE k = n + 2
      <4>1. k \notin 1 .. n + 1 /\ k \in 1 .. n + 2
        BY <3>2, <3>4
      <4>2. f[n + 1] = <<>> /\ seqs[n + 2] \in Seq(E)
        BY <2>2, <3>2, <3>3, <4>1
      <4>3. <<>> \o seqs[n + 2] = seqs[n + 2]
        BY <4>2
      <4>. QED
        BY <3>3, <3>4, <4>1, <4>2, <4>3
    <3>5. CASE k # n + 2
      <4>1. k \in 1 .. n + 1 <=> k \in 1 .. n + 2
        <5>1. k \in 1 .. n + 1 => k \in 1 .. n + 2
          BY <3>2
        <5>2. ASSUME k \in 1 .. n + 2 PROVE k \in 1 .. n + 1
          BY <3>2, <3>5, <5>2
        <5>. QED
          BY <5>1, <5>2
      <4>2. seqs[n + 2] = <<>> /\ Want(n + 1) = Want(n + 2)
        BY <3>2, <3>5, <4>1
      <4>3. f[n + 1] \in Seq(E)
        <5>1. n + 1 \in 1 .. Len(seqs)
          BY <3>2
        <5>. QED
          BY <2>1, <5>1
      <4>4. f[n + 1] \o <<>> = f[n + 1]
        BY <4>3
      <4>. HIDE DEF Want
      <4>. QED
        BY <3>3, <4>2, <4>4
    <3>. QED
      BY <3>4, <3>5
  <2>5. Steps = Nat
    <3>1. Steps \subseteq Nat
      OBVIOUS
    <3>. HIDE DEF Steps
    <3>. QED
      BY <2>3, <2>4, <3>1, NatSetInduction
  <2>6. FlattenSeq(seqs) = Want(Len(seqs))
    <3>1. Len(seqs) - 1 \in Nat /\ (Len(seqs) - 1) + 1 = Len(seqs)
      BY <2>2
    <3>2. Len(seqs) - 1 \in Steps
      BY <2>5, <3>1
    <3>. HIDE DEF Want
    <3>. QED
      BY <2>1, <2>2, <3>1, <3>2
  <2>. QED
    BY <2>2, <2>6
<1>. QED
  BY <1>1, <1>2

IsText(i) == answer.items[i].kind = "text"

LEMMA OneText ==
    ASSUME AnswerType, NEW k, \A i \in DOMAIN answer.items : IsText(i) => i = k
    PROVE  /\ k \in DOMAIN answer.items /\ IsText(k) => ClientText = answer.items[k].content
           /\ (\A i \in DOMAIN answer.items : ~IsText(i)) => ClientText = <<>>
<1>. DEFINE texts == [i \in DOMAIN answer.items |->
                         IF answer.items[i].kind = "text" THEN answer.items[i].content ELSE <<>>]
<1>1. ClientText = FlattenSeq(texts)
  BY DEF ClientText
<1>2. /\ Len(answer.items) \in Nat /\ DOMAIN answer.items = 1 .. Len(answer.items)
      /\ \A i \in DOMAIN answer.items : answer.items[i] \in Items
  BY DEF AnswerType
<1>3. \A i \in DOMAIN answer.items : texts[i] \in Seq(Token)
  <2>1. <<>> \in Seq(Token)
    OBVIOUS
  <2>. QED
    BY <1>2, <2>1 DEF Items
<1>4. texts \in Seq(Seq(Token)) /\ DOMAIN texts = DOMAIN answer.items
  <2>1. texts = [i \in DOMAIN answer.items |-> texts[i]]
    OBVIOUS
  <2>. DEFINE n == Len(answer.items)
  <2>2. DOMAIN answer.items = 1 .. n /\ n \in Nat
    BY <1>2
  <2>. HIDE DEF texts, n
  <2>3. texts \in [1 .. n -> Seq(Token)]
    BY <1>3, <2>1, <2>2
  <2>. QED
    BY <2>2, <2>3
<1>5. \A i \in DOMAIN texts : texts[i] = IF IsText(i) THEN answer.items[i].content ELSE <<>>
  BY DEF IsText
<1>. HIDE DEF texts
<1>6. \A i \in DOMAIN texts : i # k => texts[i] = <<>>
  BY <1>4, <1>5
<1>7. CASE k \in DOMAIN answer.items
  BY <1>1, <1>4, <1>5, <1>6, <1>7, FlattenOne
<1>8. CASE k \notin DOMAIN answer.items
  BY <1>1, <1>4, <1>6, <1>8, FlattenOne
<1>. QED
  BY <1>7, <1>8

(***************************************************************************)
(* The items after each write.                                             *)
(***************************************************************************)
LEMMA OpenItems ==
    ASSUME AnswerType, NEW index, index = Len(answer.items), NEW kind, NEW id,
           WriteOpen(index, kind, id)
    PROVE  /\ Len(answer'.items) = Len(answer.items) + 1
           /\ DOMAIN answer'.items = 1 .. Len(answer.items) + 1
           /\ \A i \in DOMAIN answer.items : answer'.items[i] = answer.items[i]
           /\ answer'.items[Len(answer.items) + 1] =
                 [kind |-> kind, open |-> TRUE, content |-> <<>>, whole |-> None, id |-> id]
           /\ answer'.phase = answer.phase
<1>. DEFINE item == [kind |-> kind, open |-> TRUE, content |-> <<>>, whole |-> None, id |-> id]
            items == answer.items
<1>1. items \in Seq(Items) /\ Len(items) \in Nat /\ index \notin 0 .. Len(items) - 1
  BY DEF AnswerType
<1>2. answer' = [answer EXCEPT !.items =
                    IF index \in 0 .. (Len(@) - 1) THEN [@ EXCEPT ![index + 1] = item]
                                                    ELSE Append(@, item)]
  BY DEF WriteOpen
<1>. HIDE DEF item
<1>3. answer' = [phase |-> answer.phase, items |-> Append(items, item), reason |-> answer.reason]
  BY <1>1, <1>2 DEF AnswerType
<1>4. answer'.items = Append(items, item) /\ answer'.phase = answer.phase
  BY <1>3
<1>. HIDE DEF items
<1>5. /\ Len(Append(items, item)) = Len(items) + 1
      /\ DOMAIN Append(items, item) = 1 .. Len(items) + 1
      /\ \A i \in DOMAIN items : Append(items, item)[i] = items[i]
      /\ Append(items, item)[Len(items) + 1] = item
  BY <1>1
<1>. QED
  BY <1>4, <1>5 DEF items, item

LEMMA DeltaItems ==
    ASSUME AnswerType, NEW index \in 0 .. Len(answer.items) - 1, NEW delta,
           WriteDelta(index, delta)
    PROVE  /\ DOMAIN answer'.items = DOMAIN answer.items /\ answer'.phase = answer.phase
           /\ index + 1 \in DOMAIN answer.items
           /\ \A i \in DOMAIN answer.items :
                 /\ answer'.items[i].kind = answer.items[i].kind
                 /\ answer'.items[i].id = answer.items[i].id
                 /\ answer'.items[i].open = answer.items[i].open
                 /\ answer'.items[i].whole = answer.items[i].whole
                 /\ i # index + 1 => answer'.items[i].content = answer.items[i].content
           /\ answer'.items[index + 1].content = answer.items[index + 1].content \o delta
<1>. DEFINE items == answer.items
            i == index + 1
            new == items[i].content \o delta
<1>1. /\ items \in Seq(Items) /\ i \in DOMAIN items
      /\ \A j \in DOMAIN items : items[j] \in Items
  BY DEF AnswerType
<1>2. answer' = [answer EXCEPT !.items[i].content = @ \o delta]
  BY DEF WriteDelta
<1>3. answer' = [answer EXCEPT !.items[i].content = new]
  BY <1>2
<1>. HIDE DEF i, new
<1>4. answer'.items = [items EXCEPT ![i].content = new] /\ answer'.phase = answer.phase
  BY <1>3 DEF AnswerType
<1>. HIDE DEF items
<1>5. answer'.items = [items EXCEPT ![i] = [items[i] EXCEPT !.content = new]]
  BY <1>4
<1>6. /\ [items[i] EXCEPT !.content = new].content = new
      /\ [items[i] EXCEPT !.content = new].kind = items[i].kind
      /\ [items[i] EXCEPT !.content = new].id = items[i].id
      /\ [items[i] EXCEPT !.content = new].open = items[i].open
      /\ [items[i] EXCEPT !.content = new].whole = items[i].whole
  BY <1>1 DEF Items
<1>7. /\ DOMAIN answer'.items = DOMAIN items
      /\ answer'.items[i] = [items[i] EXCEPT !.content = new]
      /\ \A j \in DOMAIN items : j # i => answer'.items[j] = items[j]
  BY <1>1, <1>5
<1>. QED
  BY <1>1, <1>4, <1>6, <1>7 DEF items, i, new

LEMMA StopItems ==
    ASSUME AnswerType, NEW index \in 0 .. Len(answer.items) - 1, NEW whole,
           WriteStop(index, whole)
    PROVE  /\ DOMAIN answer'.items = DOMAIN answer.items /\ answer'.phase = answer.phase
           /\ index + 1 \in DOMAIN answer.items
           /\ \A i \in DOMAIN answer.items :
                 /\ answer'.items[i].kind = answer.items[i].kind
                 /\ answer'.items[i].id = answer.items[i].id
                 /\ answer'.items[i].content = answer.items[i].content
                 /\ i # index + 1 => answer'.items[i].whole = answer.items[i].whole
           /\ answer'.items[index + 1].whole = whole
<1>. DEFINE items == answer.items
            i == index + 1
            closed == [items[i] EXCEPT !.open = FALSE, !.whole = whole]
<1>1. /\ items \in Seq(Items) /\ i \in DOMAIN items
      /\ \A j \in DOMAIN items : items[j] \in Items
  BY DEF AnswerType
<1>2. answer' = [answer EXCEPT !.items[i].open = FALSE, !.items[i].whole = whole]
  BY DEF WriteStop
<1>. HIDE DEF i
<1>3. answer'.items = [items EXCEPT ![i] = closed] /\ answer'.phase = answer.phase
  BY <1>1, <1>2 DEF AnswerType
<1>4. /\ closed.whole = whole /\ closed.kind = items[i].kind
      /\ closed.id = items[i].id /\ closed.content = items[i].content
  BY <1>1 DEF Items
<1>. HIDE DEF items, closed
<1>5. /\ DOMAIN answer'.items = DOMAIN items /\ answer'.items[i] = closed
      /\ \A j \in DOMAIN items : j # i => answer'.items[j] = items[j]
  BY <1>1, <1>3
<1>. QED
  BY <1>1, <1>3, <1>4, <1>5 DEF items, i

(***************************************************************************)
(* The Codex emitter has one text item, and what it accumulates is what    *)
(* the client has read of it.  The log is written when all is handled.     *)
(***************************************************************************)
SaidInv ==
    agent = "codex" =>
        /\ \A i, j \in DOMAIN answer.items : IsText(i) /\ IsText(j) => i = j
        /\ \A i \in DOMAIN answer.items : IsText(i) => answer.items[i].content = said
        /\ said # <<>> => \E i \in DOMAIN answer.items : IsText(i)
        /\ textIdx = None /\ ~Finishing => \A i \in DOMAIN answer.items : ~IsText(i)
        /\ said = <<>> => logged = None
        /\ logged # None => logged = said /\ Finishing
        /\ answer.phase = "over" /\ SessionID # None /\ said # <<>> => logged # None

LEMMA SaidShown == StreamInv /\ SaidInv => LoggedIsShown
<1>. SUFFICES ASSUME StreamInv, SaidInv, Over, agent = "codex", SessionID # None
              PROVE  logged = IF ClientText = <<>> THEN None ELSE ClientText
  BY DEF LoggedIsShown
<1>1. ClientText = said
  <2>1. CASE \E i \in DOMAIN answer.items : IsText(i)
    <3>1. PICK k \in DOMAIN answer.items : IsText(k)
      BY <2>1
    <3>2. \A i \in DOMAIN answer.items : IsText(i) => i = k
      BY <3>1 DEF SaidInv
    <3>3. ClientText = answer.items[k].content
      BY <3>1, <3>2, OneText DEF StreamInv
    <3>. QED
      BY <3>1, <3>3 DEF SaidInv
  <2>2. CASE \A i \in DOMAIN answer.items : ~IsText(i)
    <3>1. ClientText = <<>>
      BY <2>2, OneText DEF StreamInv
    <3>. QED
      BY <2>2, <3>1 DEF SaidInv
  <2>. QED
    BY <2>1, <2>2
<1>. QED
  BY <1>1 DEF SaidInv, Over

(* A step that leaves what was said as it is.                              *)
TextsKept ==
    /\ \A i \in DOMAIN answer'.items : IsText(i)' => i \in DOMAIN answer.items /\ IsText(i)
    /\ \A i \in DOMAIN answer.items :
          IsText(i) => /\ i \in DOMAIN answer'.items /\ IsText(i)'
                       /\ answer'.items[i].content = answer.items[i].content

LEMMA SaidFrame ==
    ASSUME SaidInv, agent = "codex", UNCHANGED <<agent, said, logged>>, TextsKept,
           Finishing => Finishing', textIdx' = None => textIdx = None \/ Finishing',
           answer'.phase = "over" => answer.phase = "over"
    PROVE  SaidInv'
  BY DEF SaidInv, TextsKept

LEMMA OpenKeepsTexts ==
    ASSUME AnswerType, NEW index, index = Len(answer.items),
           NEW kind, kind # "text", NEW id, WriteOpen(index, kind, id)
    PROVE  TextsKept /\ answer'.phase = answer.phase
<1>1. DOMAIN answer.items = 1 .. Len(answer.items) /\ Len(answer.items) \in Nat
  BY DEF AnswerType
<1>2. /\ DOMAIN answer'.items = 1 .. Len(answer.items) + 1
      /\ \A i \in DOMAIN answer.items : answer'.items[i] = answer.items[i]
      /\ answer'.items[Len(answer.items) + 1].kind = kind
      /\ answer'.phase = answer.phase
  <2>1. answer'.items[Len(answer.items) + 1] =
           [kind |-> kind, open |-> TRUE, content |-> <<>>, whole |-> None, id |-> id]
    BY OpenItems
  <2>2. answer'.items[Len(answer.items) + 1].kind = kind
    BY <2>1
  <2>. QED
    BY <2>2, OpenItems
<1>3. ASSUME NEW i \in DOMAIN answer'.items, IsText(i)'
      PROVE  i \in DOMAIN answer.items /\ IsText(i)
  <2>1. i # Len(answer.items) + 1
    BY <1>2, <1>3 DEF IsText
  <2>2. i \in DOMAIN answer.items
    BY <1>1, <1>2, <2>1
  <2>. QED
    BY <1>2, <1>3, <2>2 DEF IsText
<1>4. DOMAIN answer.items \subseteq DOMAIN answer'.items
  BY <1>1, <1>2
<1>. QED
  BY <1>2, <1>3, <1>4 DEF TextsKept, IsText

LEMMA SaidOpens ==
    ASSUME StreamInv, SaidInv, agent = "codex", UNCHANGED <<agent, said, logged, queue, closing>>,
           NEW kind, kind # "text", NEW id, WriteOpen(next, kind, id), UNCHANGED textIdx
    PROVE  SaidInv'
<1>1. AnswerType /\ next = Len(answer.items)
  BY Numbered DEF StreamInv
<1>2. TextsKept /\ answer'.phase = answer.phase
  BY <1>1, OpenKeepsTexts
<1>. QED
  BY <1>2, SaidFrame DEF Finishing

LEMMA SaidDelta ==
    ASSUME StreamInv, SaidInv, agent = "codex", UNCHANGED <<agent, said, logged, closing, textIdx>>,
           Ready, NEW index, NEW kind, kind # "text", IsOpen(index, kind), NEW delta,
           WriteDelta(index, delta)
    PROVE  SaidInv'
<1>1. AnswerType /\ index \in 0 .. Len(answer.items) - 1 /\ ~Finishing
  BY EventFacts DEF StreamInv, IsOpen
<1>2. TextsKept /\ answer'.phase = answer.phase
  BY <1>1, DeltaItems DEF TextsKept, IsText, IsOpen
<1>. QED
  BY <1>1, <1>2, SaidFrame

LEMMA SaidStop ==
    ASSUME StreamInv, SaidInv, agent = "codex", UNCHANGED <<agent, said, logged, queue, closing>>,
           Finishing, NEW index, NEW kind, IsOpen(index, kind), NEW whole, WriteStop(index, whole)
    PROVE  SaidInv'
<1>1. AnswerType /\ index \in 0 .. Len(answer.items) - 1
  BY DEF StreamInv, IsOpen
<1>2. TextsKept /\ answer'.phase = answer.phase
  BY <1>1, StopItems DEF TextsKept, IsText
<1>. QED
  BY <1>2, SaidFrame DEF Finishing

LEMMA SaidAddText ==
    ASSUME StreamInv, SaidInv, agent = "codex", UNCHANGED agent, Codex!AddText
    PROVE  SaidInv'
<1>1. /\ Ready /\ textIdx = None /\ textIdx' = next /\ WriteOpen(next, "text", None)
      /\ UNCHANGED <<queue, closing, said, logged>>
  BY DEF Codex!AddText, Codex!Is, Codex!Ready, Codex!WriteOpen, Ready, WriteOpen
<1>2. AnswerType /\ next = Len(answer.items) /\ next \in Nat /\ ~Finishing /\ ~Finishing'
  BY <1>1, Numbered, EventFacts DEF StreamInv, Finishing
<1>3. DOMAIN answer.items = 1 .. Len(answer.items) /\ Len(answer.items) \in Nat
  BY <1>2 DEF AnswerType
<1>4. \A i \in DOMAIN answer.items : ~IsText(i)
  BY <1>1, <1>2 DEF SaidInv
<1>5. said = <<>> /\ logged = None
  BY <1>2, <1>4 DEF SaidInv
<1>. DEFINE k == Len(answer.items) + 1
<1>6. /\ DOMAIN answer'.items = 1 .. k
      /\ \A i \in DOMAIN answer.items : answer'.items[i] = answer.items[i]
      /\ answer'.items[k].content = <<>>
  <2>1. answer'.items[k] =
           [kind |-> "text", open |-> TRUE, content |-> <<>>, whole |-> None, id |-> None]
    BY <1>1, <1>2, OpenItems
  <2>2. answer'.items[k].content = <<>>
    BY <2>1
  <2>. QED
    BY <1>1, <1>2, <2>2, OpenItems
<1>7. \A i \in DOMAIN answer'.items : i # k => i \in DOMAIN answer.items
  BY <1>3, <1>6
<1>. HIDE DEF k
<1>8. \A i \in DOMAIN answer'.items : IsText(i)' => i = k
  BY <1>4, <1>6, <1>7 DEF IsText
<1>9. textIdx' # None
  BY <1>1, <1>2, UpstreamAssumption
<1>10. said' = <<>> /\ logged' = None
  BY <1>1, <1>5
<1>. QED
  BY <1>6, <1>8, <1>9, <1>10 DEF SaidInv

LEMMA SaidTextDelta ==
    ASSUME StreamInv, SaidInv, agent = "codex", UNCHANGED agent, Codex!OutputTextDelta
    PROVE  SaidInv'
<1>1. /\ Ready /\ textIdx # None /\ said' = said \o Event.delta
      /\ WriteDelta(textIdx, Event.delta) /\ UNCHANGED <<closing, textIdx, logged>>
  BY DEF Codex!OutputTextDelta, Codex!Is, Codex!Ready, Codex!WriteDelta, Codex!Event,
         Ready, WriteDelta, Event
<1>2. /\ AnswerType /\ textIdx \in 0 .. Len(answer.items) - 1 /\ ~Finishing
      /\ IsText(textIdx + 1)
  BY <1>1, EventFacts DEF StreamInv, OpenInv, IsOpen, IsText
<1>. DEFINE k == textIdx + 1
<1>3. /\ DOMAIN answer'.items = DOMAIN answer.items /\ answer'.phase = answer.phase
      /\ k \in DOMAIN answer.items
      /\ \A i \in DOMAIN answer.items : answer'.items[i].kind = answer.items[i].kind
      /\ answer'.items[k].content = answer.items[k].content \o Event.delta
  BY <1>1, <1>2, DeltaItems
<1>. HIDE DEF k
<1>4. \A i \in DOMAIN answer.items : IsText(i)' <=> IsText(i)
  BY <1>3 DEF IsText
<1>5. \A i \in DOMAIN answer.items : IsText(i) => i = k
  BY <1>2, <1>3 DEF SaidInv, k
<1>6. answer.items[k].content = said
  BY <1>2, <1>3 DEF SaidInv, k
<1>7. logged = None
  BY <1>2 DEF SaidInv
<1>8. answer'.phase # "over"
  BY <1>2, <1>3 DEF StreamInv, PhaseInv
<1>9. /\ \A i \in DOMAIN answer'.items : IsText(i)' => i = k
      /\ k \in DOMAIN answer'.items /\ answer'.items[k].kind = "text"
      /\ answer'.items[k].content = said'
  BY <1>1, <1>2, <1>3, <1>4, <1>5, <1>6 DEF k, IsText
<1>10. logged' = None /\ textIdx' # None
  BY <1>1, <1>7
<1>11. /\ \A i, j \in DOMAIN answer'.items : IsText(i)' /\ IsText(j)' => i = j
       /\ \A i \in DOMAIN answer'.items : IsText(i)' => answer'.items[i].content = said'
       /\ \E i \in DOMAIN answer'.items : IsText(i)'
  <2>1. \E i \in DOMAIN answer'.items : IsText(i)'
    BY <1>9 DEF IsText
  <2>2. \A i, j \in DOMAIN answer'.items : IsText(i)' /\ IsText(j)' => i = j
    BY <1>9
  <2>3. \A i \in DOMAIN answer'.items : IsText(i)' => answer'.items[i].content = said'
    BY <1>9
  <2>. QED
    BY <2>1, <2>2, <2>3
<1>. QED
  BY <1>8, <1>10, <1>11 DEF SaidInv

(* The call an event with arguments is about is announced and not sent.    *)
LEMMA CallIsOpen ==
    ASSUME StreamInv, agent = "codex", Ready, NEW c \in Indexes, calls[c].item # None
    PROVE  IsOpen(calls[c].item, "call")
<1>1. calls[c].state = "open"
  BY EventFacts, CodexCalls
<1>. QED
  BY <1>1 DEF StreamInv, OpenInv, Announced

LEMMA SaidCodexStep ==
    ASSUME StreamInv, SaidInv, agent = "codex", UNCHANGED <<agent, upstream>>, Codex!Step
    PROVE  SaidInv'
<1>1. CASE Codex!StartResponse
  <2>1. UNCHANGED <<queue, closing, textIdx, said, logged>> /\ WriteBegin
    BY <1>1 DEF Codex!StartResponse, Codex!WriteBegin, WriteBegin
  <2>2. answer'.items = answer.items /\ answer'.phase = "live"
    BY <2>1 DEF WriteBegin, StreamInv, AnswerType
  <2>3. TextsKept
    BY <2>2 DEF TextsKept, IsText
  <2>. QED
    BY <2>1, <2>2, <2>3, SaidFrame DEF Finishing
<1>2. CASE Codex!AddReasoning
  <2>1. /\ UNCHANGED <<queue, closing, textIdx, said, logged>>
        /\ WriteOpen(next, "thinking", None)
    BY <1>2 DEF Codex!AddReasoning, Codex!WriteOpen, WriteOpen
  <2>. QED
    BY <2>1, SaidOpens
<1>3. CASE Codex!ReasoningDelta
  <2>1. /\ Ready /\ UNCHANGED <<closing, textIdx, said, logged>>
        /\ WriteDelta(thinkIdx, Event.delta) /\ IsOpen(thinkIdx, "thinking")
    BY <1>3 DEF Codex!ReasoningDelta, Codex!Is, Codex!Ready, Codex!WriteDelta, Codex!Event,
                Codex!emitter, Ready, WriteDelta, Event, StreamInv, OpenInv
  <2>. QED
    BY <2>1, SaidDelta
<1>4. CASE Codex!AddCall
  <2>1. /\ UNCHANGED <<closing, textIdx, said, logged>> /\ Ready
        /\ \E id : WriteOpen(next, "call", id)
    BY <1>4 DEF Codex!AddCall, Codex!Is, Codex!Ready, Codex!WriteOpen, Ready, WriteOpen
  <2>2. PICK id : WriteOpen(next, "call", id)
    BY <2>1
  <2>3. AnswerType /\ next = Len(answer.items) /\ ~Finishing
    BY <2>1, Numbered, EventFacts DEF StreamInv
  <2>4. TextsKept /\ answer'.phase = answer.phase
    BY <2>2, <2>3, OpenKeepsTexts
  <2>. QED
    BY <2>1, <2>3, <2>4, SaidFrame
<1>5. CASE Codex!FirstArguments
  <2>. DEFINE c == Event.index
  <2>1. /\ Ready /\ UNCHANGED <<closing, textIdx, said, logged>> /\ c \in Indexes
        /\ calls[c].owed # <<>> /\ WriteDelta(calls[c].item, calls[c].owed)
    <3>1. Ready /\ Event.type = "toolStart"
      BY <1>5 DEF Codex!FirstArguments, Codex!Is, Codex!Ready, Codex!Event, Ready, Event
    <3>2. c \in Indexes
      BY <3>1, EventFacts
    <3>. QED
      BY <1>5, <3>1, <3>2 DEF Codex!FirstArguments, Codex!Event, Codex!WriteDelta, WriteDelta,
                              Event
  <2>. HIDE DEF c
  <2>2. IsOpen(calls[c].item, "call")
    BY <2>1, CallIsOpen, CodexCalls
  <2>. QED
    BY <2>1, <2>2, SaidDelta
<1>6. CASE Codex!ArgumentsDelta
  <2>. DEFINE c == Event.index
  <2>1. /\ Ready /\ UNCHANGED <<closing, textIdx, said, logged>> /\ c \in Indexes
        /\ IF calls[c].item # None /\ Event.delta # <<>>
           THEN WriteDelta(calls[c].item, Event.delta) ELSE UNCHANGED answer
    <3>1. Ready /\ Event.type = "toolDelta"
      BY <1>6 DEF Codex!ArgumentsDelta, Codex!Is, Codex!Ready, Codex!Event, Ready, Event
    <3>2. c \in Indexes
      BY <3>1, EventFacts
    <3>. QED
      BY <1>6, <3>1, <3>2 DEF Codex!ArgumentsDelta, Codex!Event, Codex!WriteDelta, WriteDelta,
                              Event
  <2>. HIDE DEF c
  <2>2. CASE calls[c].item # None /\ Event.delta # <<>>
    <3>1. IsOpen(calls[c].item, "call")
      BY <2>1, <2>2, CallIsOpen
    <3>. QED
      BY <2>1, <2>2, <3>1, SaidDelta
  <2>3. CASE UNCHANGED answer
    <3>1. TextsKept /\ ~Finishing
      BY <2>1, <2>3, EventFacts DEF TextsKept, IsText
    <3>. QED
      BY <2>1, <2>3, <3>1, SaidFrame
  <2>. QED
    BY <2>1, <2>2, <2>3
<1>7. CASE Codex!RepeatedStart \/ Codex!PassEnd
  <2>1. Ready /\ UNCHANGED <<closing, answer, textIdx, said, logged>>
    BY <1>7 DEF Codex!RepeatedStart, Codex!PassEnd, Codex!Is, Codex!Ready, Codex!emitter, Ready
  <2>2. TextsKept /\ ~Finishing
    BY <2>1, EventFacts DEF TextsKept, IsText
  <2>. QED
    BY <2>1, <2>2, SaidFrame
<1>8. CASE Codex!LogDiscussion
  <2>1. /\ Finishing /\ logged = None /\ said # <<>> /\ logged' = said
        /\ UNCHANGED <<queue, closing, answer, textIdx, said>> /\ answer.phase # "over"
    BY <1>8 DEF Codex!LogDiscussion, Codex!Ending, Codex!Ready, Codex!emitter, Finishing
  <2>. QED
    BY <2>1 DEF SaidInv, Finishing, IsText
<1>9. CASE Codex!ReasoningDone
  <2>1. /\ Finishing /\ UNCHANGED <<queue, closing, said, logged>>
        /\ IsOpen(thinkIdx, "thinking") /\ WriteStop(thinkIdx, None)
    BY <1>9 DEF Codex!ReasoningDone, Codex!Logged, Codex!Ending, Codex!Ready, Codex!WriteStop,
                Finishing, WriteStop, StreamInv, OpenInv
  <2>. QED
    BY <2>1, SaidStop
<1>10. CASE Codex!TextDone
  <2>1. /\ Finishing /\ UNCHANGED <<queue, closing, said, logged>>
        /\ IsOpen(textIdx, "text") /\ WriteStop(textIdx, said)
    BY <1>10 DEF Codex!TextDone, Codex!Logged, Codex!Ending, Codex!Ready, Codex!WriteStop,
                 Finishing, WriteStop, StreamInv, OpenInv
  <2>. QED
    BY <2>1, SaidStop
<1>11. ASSUME NEW c \in Indexes, Codex!CallDone(c) PROVE SaidInv'
  <2>1. /\ Finishing /\ UNCHANGED <<queue, closing, said, logged>>
        /\ IsOpen(calls[c].item, "call") /\ WriteStop(calls[c].item, calls[c].args)
    BY <1>11 DEF Codex!CallDone, Codex!Logged, Codex!Ending, Codex!Ready, Codex!WriteStop,
                 Finishing, WriteStop, StreamInv, OpenInv, Announced
  <2>. QED
    BY <2>1, SaidStop
<1>12. CASE Codex!ResponseCompleted
  <2>1. /\ Finishing /\ UNCHANGED <<queue, closing, textIdx, said, logged>>
        /\ SessionID # None /\ said # <<>> => logged # None
        /\ WriteEnd(Codex!Status(closing))
    BY <1>12 DEF Codex!ResponseCompleted, Codex!Logged, Codex!Ending, Codex!Ready,
                 Codex!WriteEnd, Codex!emitter, Finishing, WriteEnd
  <2>2. answer'.items = answer.items
    BY <2>1 DEF WriteEnd, StreamInv, AnswerType
  <2>. QED
    BY <2>1, <2>2 DEF SaidInv, Finishing, IsText
<1>. QED
  BY <1>1, <1>2, <1>3, <1>4, <1>5, <1>6, <1>7, <1>8, <1>9, <1>10, <1>11, <1>12,
     SaidAddText, SaidTextDelta
  DEF Codex!Step, Codex!Emit, Codex!Done

LEMMA SaidStep ==
    ASSUME StreamInv, SaidInv, [Next]_vars
    PROVE  SaidInv'
<1>1. CASE UNCHANGED vars
  BY <1>1 DEF vars, emitter, SaidInv, IsText, Finishing
<1>2. CASE Upstream /\ UNCHANGED <<agent, answer, emitter, logged>>
  <2>1. ~Finishing /\ UNCHANGED <<agent, answer, textIdx, said, logged>>
    BY <1>2, UpstreamWorks DEF Finishing, emitter
  <2>2. TextsKept
    BY <2>1 DEF TextsKept, IsText
  <2>. QED
    BY <2>1, <2>2, SaidFrame DEF SaidInv
<1>3. CASE Emitting /\ UNCHANGED <<agent, upstream>>
  BY <1>3, SaidCodexStep DEF Emitting, SaidInv
<1>. QED
  BY <1>1, <1>2, <1>3 DEF Next

(***************************************************************************)
(* CodexEmitter.Done logs as the agent's reply all of the text the client  *)
(* has read and nothing else, whatever text, reasoning and calls came.     *)
(***************************************************************************)
THEOREM ReplyLogged == Spec => []LoggedIsShown
<1>1. Init => SaidInv
  BY DEF Init, InitResponse, SaidInv
<1>2. StreamInv /\ StreamInv' /\ SaidInv /\ [Next]_vars => SaidInv'
  BY SaidStep
<1>. QED
  BY <1>1, <1>2, StreamInvariant, SaidShown, PTL DEF Spec

-----------------------------------------------------------------------------
(* How a text grows.                                                       *)

(***************************************************************************)
(* The sums of the parts of a sequence of sequences, from none to all.     *)
(***************************************************************************)
Sums(f, seqs) ==
    /\ f[0] = <<>>
    /\ \A i \in 1 .. Len(seqs) : f[i] = f[i - 1] \o seqs[i]

LEMMA FlattenSums ==
    ASSUME NEW E, NEW seqs \in Seq(Seq(E))
    PROVE  \E f \in [0 .. Len(seqs) -> Seq(E)] :
              Sums(f, seqs) /\ FlattenSeq(seqs) = f[Len(seqs)]
<1>1. CASE seqs = <<>>
  <2>. DEFINE f == [i \in 0 .. 0 |-> <<>>]
  <2>1. f \in [0 .. 0 -> Seq(E)] /\ f[0] = <<>> /\ Len(seqs) = 0 /\ 1 .. 0 = {}
    BY <1>1
  <2>2. FlattenSeq(seqs) = f[0]
    BY <1>1, <2>1 DEF FlattenSeq
  <2>. HIDE DEF f
  <2>. QED
    BY <2>1, <2>2 DEF Sums
<1>2. CASE seqs # <<>>
  <2>1. PICK g \in [1 .. Len(seqs) -> Seq(E)] :
           Flattens(g, seqs) /\ FlattenSeq(seqs) = g[Len(seqs)]
    BY <1>2, FlattenExists
  <2>2. /\ Len(seqs) \in Nat \ {0}
        /\ \A i \in 1 .. Len(seqs) : seqs[i] \in Seq(E)
    BY <1>2
  <2>. DEFINE f == [i \in 0 .. Len(seqs) |-> IF i = 0 THEN <<>> ELSE g[i]]
  <2>3. f[0] = <<>> /\ \A i \in 1 .. Len(seqs) : f[i] = g[i]
    BY <2>2
  <2>4. f \in [0 .. Len(seqs) -> Seq(E)]
    <3>1. <<>> \in Seq(E)
      OBVIOUS
    <3>2. \A i \in 0 .. Len(seqs) : i # 0 => i \in 1 .. Len(seqs)
      BY <2>2
    <3>. QED
      BY <2>1, <3>1, <3>2
  <2>. HIDE DEF f
  <2>5. ASSUME NEW i \in 1 .. Len(seqs) PROVE f[i] = f[i - 1] \o seqs[i]
    <3>1. CASE i = 1
      <4>1. seqs[1] \in Seq(E)
        BY <2>2
      <4>2. <<>> \o seqs[1] = seqs[1]
        BY <4>1
      <4>3. f[1] = seqs[1] /\ i - 1 = 0
        BY <2>1, <2>2, <2>3, <3>1 DEF Flattens
      <4>. QED
        BY <2>3, <3>1, <4>2, <4>3
    <3>2. CASE i # 1
      <4>1. i \in 2 .. Len(seqs) /\ i - 1 \in 1 .. Len(seqs)
        BY <2>2, <3>2
      <4>. QED
        BY <2>1, <2>3, <4>1 DEF Flattens
    <3>. QED
      BY <3>1, <3>2
  <2>6. FlattenSeq(seqs) = f[Len(seqs)]
    BY <2>1, <2>2, <2>3
  <2>. QED
    BY <2>3, <2>4, <2>5, <2>6 DEF Sums
<1>. QED
  BY <1>1, <1>2

(* A sequence of which one part grows, after which there is nothing.       *)
Grows(s, t, old, k, d) ==
    /\ Len(s) <= Len(t)
    /\ \A i \in 1 .. Len(t) : old[i] = IF i <= Len(s) THEN s[i] ELSE <<>>
    /\ \A i \in 1 .. Len(t) : t[i] = IF i = k THEN old[i] \o d ELSE old[i]
    /\ \A i \in 1 .. Len(t) : 0 < k /\ k < i => old[i] = <<>>

LEMMA FlattenGrows ==
    ASSUME NEW E, NEW s \in Seq(Seq(E)), NEW t \in Seq(Seq(E)), NEW old,
           NEW k \in Nat, NEW d \in Seq(E), Grows(s, t, old, k, d)
    PROVE  FlattenSeq(t) = IF k \in 1 .. Len(t) THEN FlattenSeq(s) \o d ELSE FlattenSeq(s)
<1>0. /\ Len(s) <= Len(t)
      /\ \A i \in 1 .. Len(t) : old[i] = IF i <= Len(s) THEN s[i] ELSE <<>>
      /\ \A i \in 1 .. Len(t) : t[i] = IF i = k THEN old[i] \o d ELSE old[i]
      /\ \A i \in 1 .. Len(t) : 0 < k /\ k < i => old[i] = <<>>
  BY DEF Grows
<1>1. PICK f \in [0 .. Len(s) -> Seq(E)] : Sums(f, s) /\ FlattenSeq(s) = f[Len(s)]
  BY FlattenSums
<1>2. PICK g \in [0 .. Len(t) -> Seq(E)] : Sums(g, t) /\ FlattenSeq(t) = g[Len(t)]
  BY FlattenSums
<1>3. /\ Len(s) \in Nat /\ Len(t) \in Nat /\ <<>> \in Seq(E)
      /\ \A i \in 1 .. Len(s) : s[i] \in Seq(E)
  OBVIOUS
<1>4. ASSUME NEW i \in 1 .. Len(t) PROVE old[i] \in Seq(E)
  <2>1. i <= Len(s) => i \in 1 .. Len(s)
    BY <1>3
  <2>2. old[i] = IF i <= Len(s) THEN s[i] ELSE <<>>
    BY <1>0
  <2>. QED
    BY <1>3, <2>1, <2>2
<1>. DEFINE h(i) == IF i <= Len(s) THEN f[i] ELSE f[Len(s)]
            Want(n) == IF k \in 1 .. n THEN h(n) \o d ELSE h(n)
            Steps == {n \in Nat : n <= Len(t) => g[n] = Want(n)}
<1>5. h(0) = <<>> /\ h(Len(t)) = f[Len(s)] /\ \A n \in 0 .. Len(t) : h(n) \in Seq(E)
  <2>1. f[0] = <<>> /\ 0 <= Len(s)
    BY <1>1, <1>3 DEF Sums
  <2>2. h(Len(t)) = f[Len(s)]
    <3>1. Len(t) <= Len(s) => Len(t) = Len(s)
      BY <1>0, <1>3
    <3>. QED
      BY <3>1
  <2>3. ASSUME NEW n \in 0 .. Len(t) PROVE h(n) \in Seq(E)
    <3>1. Len(s) \in 0 .. Len(s) /\ (n <= Len(s) => n \in 0 .. Len(s))
      BY <1>3
    <3>. QED
      BY <1>1, <3>1
  <2>. QED
    BY <2>1, <2>2, <2>3
<1>6. ASSUME NEW n \in Nat, n + 1 <= Len(t) PROVE h(n + 1) = h(n) \o old[n + 1]
  <2>1. n + 1 \in 1 .. Len(t)
    BY <1>6
  <2>2. CASE n + 1 <= Len(s)
    <3>1. n + 1 \in 1 .. Len(s) /\ (n + 1) - 1 = n /\ n <= Len(s)
      BY <1>3, <2>2
    <3>2. f[n + 1] = f[n] \o s[n + 1]
      BY <1>1, <3>1 DEF Sums
    <3>. QED
      BY <1>0, <2>1, <2>2, <3>1, <3>2
  <2>3. CASE ~(n + 1 <= Len(s))
    <3>1. old[n + 1] = <<>>
      BY <1>0, <2>1, <2>3
    <3>2. h(n) = f[Len(s)] /\ h(n + 1) = f[Len(s)]
      BY <1>3, <2>3
    <3>3. f[Len(s)] \in Seq(E)
      BY <1>1, <1>3
    <3>4. f[Len(s)] \o <<>> = f[Len(s)]
      BY <3>3
    <3>. HIDE DEF h
    <3>. QED
      BY <3>1, <3>2, <3>4
  <2>. QED
    BY <2>2, <2>3
<1>. HIDE DEF h
<1>7. 0 \in Steps
  <2>1. g[0] = <<>> /\ k \notin 1 .. 0
    BY <1>2 DEF Sums
  <2>. QED
    BY <1>5, <2>1
<1>8. ASSUME NEW n \in Steps PROVE n + 1 \in Steps
  <2>1. SUFFICES ASSUME n + 1 <= Len(t) PROVE g[n + 1] = Want(n + 1)
    OBVIOUS
  <2>2. n \in Nat /\ n <= Len(t) /\ n + 1 \in 1 .. Len(t) /\ n \in 0 .. Len(t)
    BY <1>3, <2>1
  <2>3. g[n] = Want(n)
    BY <2>2
  <2>4. g[n + 1] = g[n] \o t[n + 1]
    <3>1. (n + 1) - 1 = n
      BY <2>2
    <3>. QED
      BY <1>2, <2>2, <3>1 DEF Sums
  <2>5. h(n + 1) = h(n) \o old[n + 1] /\ h(n) \in Seq(E) /\ old[n + 1] \in Seq(E)
    BY <1>4, <1>5, <1>6, <2>1, <2>2
  <2>. HIDE DEF Steps
  <2>6. CASE k = n + 1
    <3>1. k \notin 1 .. n /\ k \in 1 .. n + 1
      BY <2>2, <2>6
    <3>2. g[n] = h(n) /\ t[n + 1] = old[n + 1] \o d
      BY <1>0, <2>2, <2>3, <2>6, <3>1
    <3>3. (h(n) \o old[n + 1]) \o d = h(n) \o (old[n + 1] \o d)
      <4>1. ASSUME NEW a \in Seq(E), NEW b \in Seq(E), NEW c \in Seq(E)
            PROVE  (a \o b) \o c = a \o (b \o c)
        BY SMTT(30)
      <4>. QED
        BY <2>5, <4>1
    <3>. QED
      BY <2>4, <2>5, <3>1, <3>2, <3>3
  <2>7. CASE k \in 1 .. n
    <3>1. k # n + 1 /\ 0 < k /\ k < n + 1 /\ k \in 1 .. n + 1
      BY <2>2, <2>7
    <3>2. old[n + 1] = <<>> /\ t[n + 1] = <<>>
      BY <1>0, <2>2, <3>1
    <3>3. g[n] = h(n) \o d /\ h(n) \o d \in Seq(E)
      BY <2>3, <2>5, <2>7
    <3>4. (h(n) \o d) \o <<>> = h(n) \o d /\ h(n) \o <<>> = h(n)
      BY <2>5, <3>3
    <3>. QED
      BY <2>4, <2>5, <3>1, <3>2, <3>3, <3>4
  <2>8. CASE k \notin 1 .. n + 1
    <3>1. k # n + 1 /\ k \notin 1 .. n
      BY <2>2, <2>8
    <3>2. t[n + 1] = old[n + 1] /\ g[n] = h(n)
      BY <1>0, <2>2, <2>3, <3>1
    <3>. QED
      BY <2>4, <2>5, <2>8, <3>2
  <2>9. k \in 1 .. n + 1 => k = n + 1 \/ k \in 1 .. n
    BY <2>2
  <2>. QED
    BY <2>6, <2>7, <2>8, <2>9
<1>9. Steps = Nat
  <2>1. Steps \subseteq Nat
    OBVIOUS
  <2>. HIDE DEF Steps
  <2>. QED
    BY <1>7, <1>8, <2>1, NatSetInduction
<1>10. g[Len(t)] = Want(Len(t))
  <2>1. Len(t) \in Steps /\ Len(t) <= Len(t)
    <3>. HIDE DEF Steps
    <3>. QED
      BY <1>3, <1>9
  <2>. HIDE DEF Want
  <2>. QED
    BY <2>1
<1>. QED
  BY <1>1, <1>2, <1>5, <1>10

(* The text of the item at a place, none where there is none.              *)
TextAt(i) ==
    IF i \in DOMAIN answer.items /\ answer.items[i].kind = "text"
    THEN answer.items[i].content ELSE <<>>

LEMMA TextsType ==
    ASSUME NEW items \in Seq(Items), NEW at,
           \A i \in DOMAIN items :
              at[i] = IF items[i].kind = "text" THEN items[i].content ELSE <<>>
    PROVE  /\ [i \in DOMAIN items |-> at[i]] \in Seq(Seq(Token))
           /\ Len([i \in DOMAIN items |-> at[i]]) = Len(items)
           /\ [i \in DOMAIN items |->
                 IF items[i].kind = "text" THEN items[i].content ELSE <<>>] =
                    [i \in DOMAIN items |-> at[i]]
           /\ DOMAIN items = 1 .. Len(items) /\ Len(items) \in Nat
<1>1. /\ Len(items) \in Nat /\ DOMAIN items = 1 .. Len(items)
      /\ \A i \in DOMAIN items : items[i] \in Items
  OBVIOUS
<1>2. \A i \in DOMAIN items : at[i] \in Seq(Token)
  <2>1. <<>> \in Seq(Token)
    OBVIOUS
  <2>. QED
    BY <1>1, <2>1 DEF Items
<1>. DEFINE texts == [i \in DOMAIN items |-> at[i]]
<1>3. texts \in Seq(Seq(Token)) /\ Len(texts) = Len(items)
  <2>. DEFINE n == Len(items)
  <2>. HIDE DEF n
  <2>1. texts = [i \in 1 .. n |-> at[i]] /\ n \in Nat
    BY <1>1 DEF n
  <2>2. texts \in [1 .. n -> Seq(Token)]
    BY <1>1, <1>2, <2>1 DEF n
  <2>3. texts \in Seq(Seq(Token)) /\ Len(texts) = n
    <3>. HIDE DEF texts
    <3>. QED
      BY <2>1, <2>2
  <2>. QED
    BY <2>3 DEF n
<1>. QED
  BY <1>1, <1>3

LEMMA TextIsToken ==
    ASSUME AnswerType, NEW i
    PROVE  TextAt(i) \in Seq(Token)
<1>1. <<>> \in Seq(Token) /\ \A j \in DOMAIN answer.items : answer.items[j] \in Items
  BY DEF AnswerType
<1>. QED
  BY <1>1 DEF Items, TextAt

LEMMA TextGrows ==
    ASSUME AnswerType, AnswerType', DOMAIN answer.items \subseteq DOMAIN answer'.items,
           NEW k \in Nat, NEW d \in Seq(Token),
           \A i \in DOMAIN answer'.items : TextAt(i)' = IF i = k THEN TextAt(i) \o d ELSE TextAt(i),
           \A i \in DOMAIN answer.items : 0 < k /\ k < i => TextAt(i) = <<>>
    PROVE  ClientText' = IF k \in DOMAIN answer'.items THEN ClientText \o d ELSE ClientText
<1>. DEFINE old == [i \in DOMAIN answer.items |-> TextAt(i)]
            new == [i \in DOMAIN answer'.items |-> TextAt(i)']
            at == [i \in 1 .. Len(answer'.items) |-> TextAt(i)]
<1>1. /\ old \in Seq(Seq(Token)) /\ Len(old) = Len(answer.items)
      /\ ClientText = FlattenSeq(old)
      /\ DOMAIN answer.items = 1 .. Len(answer.items) /\ Len(answer.items) \in Nat
  <2>1. /\ answer.items \in Seq(Items)
        /\ \A i \in DOMAIN answer.items :
              old[i] = IF answer.items[i].kind = "text" THEN answer.items[i].content ELSE <<>>
    BY DEF AnswerType, TextAt
  <2>2. old = [i \in DOMAIN answer.items |-> old[i]]
    OBVIOUS
  <2>. HIDE DEF old
  <2>3. /\ [i \in DOMAIN answer.items |-> old[i]] \in Seq(Seq(Token))
        /\ Len([i \in DOMAIN answer.items |-> old[i]]) = Len(answer.items)
        /\ [i \in DOMAIN answer.items |->
              IF answer.items[i].kind = "text" THEN answer.items[i].content ELSE <<>>] =
                 [i \in DOMAIN answer.items |-> old[i]]
        /\ DOMAIN answer.items = 1 .. Len(answer.items) /\ Len(answer.items) \in Nat
    BY <2>1, TextsType
  <2>. QED
    BY <2>2, <2>3 DEF ClientText
<1>2. /\ new \in Seq(Seq(Token)) /\ Len(new) = Len(answer'.items)
      /\ ClientText' = FlattenSeq(new)
      /\ DOMAIN answer'.items = 1 .. Len(answer'.items) /\ Len(answer'.items) \in Nat
  <2>1. /\ answer'.items \in Seq(Items)
        /\ \A i \in DOMAIN answer'.items :
              new[i] = IF answer'.items[i].kind = "text" THEN answer'.items[i].content ELSE <<>>
    BY DEF AnswerType, TextAt
  <2>2. new = [i \in DOMAIN answer'.items |-> new[i]]
    OBVIOUS
  <2>. HIDE DEF new
  <2>3. /\ [i \in DOMAIN answer'.items |-> new[i]] \in Seq(Seq(Token))
        /\ Len([i \in DOMAIN answer'.items |-> new[i]]) = Len(answer'.items)
        /\ [i \in DOMAIN answer'.items |->
              IF answer'.items[i].kind = "text" THEN answer'.items[i].content ELSE <<>>] =
                 [i \in DOMAIN answer'.items |-> new[i]]
        /\ DOMAIN answer'.items = 1 .. Len(answer'.items) /\ Len(answer'.items) \in Nat
    BY <2>1, TextsType
  <2>. QED
    BY <2>2, <2>3 DEF ClientText
<1>3. Len(old) <= Len(new)
  <2>1. Len(answer.items) > 0 => Len(answer.items) \in 1 .. Len(answer'.items)
    BY <1>1, <1>2
  <2>. QED
    BY <1>1, <1>2, <2>1
<1>4. ASSUME NEW i \in 1 .. Len(new)
      PROVE  /\ at[i] = IF i <= Len(old) THEN old[i] ELSE <<>>
             /\ new[i] = IF i = k THEN at[i] \o d ELSE at[i]
             /\ 0 < k /\ k < i => at[i] = <<>>
  <2>1. i \in DOMAIN answer'.items /\ i \in 1 .. Len(answer'.items)
    BY <1>2
  <2>2. at[i] = TextAt(i) /\ new[i] = TextAt(i)'
    BY <2>1
  <2>3. i <= Len(old) <=> i \in DOMAIN answer.items
    BY <1>1, <2>1
  <2>4. i \in DOMAIN answer.items => old[i] = TextAt(i)
    OBVIOUS
  <2>5. i \notin DOMAIN answer.items => TextAt(i) = <<>>
    BY DEF TextAt
  <2>. HIDE DEF old, new, at
  <2>. QED
    BY <2>1, <2>2, <2>3, <2>4, <2>5
<1>. HIDE DEF old, new, at
<1>5. FlattenSeq(new) = IF k \in 1 .. Len(new) THEN FlattenSeq(old) \o d ELSE FlattenSeq(old)
  <2>1. \A i \in 1 .. Len(new) : at[i] = IF i <= Len(old) THEN old[i] ELSE <<>>
    BY <1>4
  <2>2. \A i \in 1 .. Len(new) : new[i] = IF i = k THEN at[i] \o d ELSE at[i]
    BY <1>4
  <2>3. \A i \in 1 .. Len(new) : 0 < k /\ k < i => at[i] = <<>>
    BY <1>4
  <2>4. Grows(old, new, at, k, d)
    BY <1>3, <2>1, <2>2, <2>3 DEF Grows
  <2>. QED
    BY <1>1, <1>2, <2>4, FlattenGrows
<1>. QED
  BY <1>1, <1>2, <1>5

(* A step that shows its client no text.                                   *)
LEMMA TextStays ==
    ASSUME AnswerType, AnswerType', DOMAIN answer.items \subseteq DOMAIN answer'.items,
           \A i \in DOMAIN answer'.items : TextAt(i)' = TextAt(i)
    PROVE  ClientText' = ClientText
<1>1. 0 \notin DOMAIN answer'.items /\ <<>> \in Seq(Token)
  <2>1. answer'.items \in Seq(Items)
    BY DEF AnswerType
  <2>. QED
    BY <2>1
<1>2. \A i \in DOMAIN answer'.items : TextAt(i)' = IF i = 0 THEN TextAt(i) \o <<>> ELSE TextAt(i)
  BY <1>1
<1>3. 0 \in Nat /\ \A i \in DOMAIN answer.items : 0 < 0 /\ 0 < i => TextAt(i) = <<>>
  OBVIOUS
<1>4. ClientText' = IF 0 \in DOMAIN answer'.items THEN ClientText \o <<>> ELSE ClientText
  BY <1>1, <1>2, <1>3, TextGrows
<1>. QED
  BY <1>1, <1>4

-----------------------------------------------------------------------------
(* What the steps of the emitters do to the text of the answer.            *)

(* No text follows the one that is open.                                   *)
LastInv ==
    textIdx # None => \A i \in DOMAIN answer.items : IsText(i) => i <= textIdx + 1

(* A step of an emitter shows the text of a text event, and no other text. *)
Voices ==
    \/ /\ ClientText' = ClientText
       /\ UNCHANGED queue \/ (Ready /\ Consume /\ Event.type # "text")
    \/ Ready /\ Event.type = "text" /\ Consume /\ ClientText' = ClientText \o Event.delta

LEMMA VoiceSame ==
    ASSUME StreamInv, StreamInv', LastInv, answer'.items = answer.items, textIdx' = textIdx
    PROVE  ClientText' = ClientText /\ LastInv'
  BY DEF LastInv, IsText, ClientText

LEMMA VoiceOpen ==
    ASSUME StreamInv, StreamInv', LastInv, NEW index, index = Len(answer.items),
           NEW kind, NEW id, WriteOpen(index, kind, id),
           \/ kind # "text" /\ textIdx' = textIdx
           \/ textIdx' = index
    PROVE  ClientText' = ClientText /\ LastInv'
<1>1. AnswerType /\ AnswerType'
  BY DEF StreamInv
<1>2. DOMAIN answer.items = 1 .. Len(answer.items) /\ Len(answer.items) \in Nat
  BY <1>1 DEF AnswerType
<1>. DEFINE n == Len(answer.items) + 1
<1>3. /\ DOMAIN answer'.items = 1 .. n
      /\ \A i \in DOMAIN answer.items : answer'.items[i] = answer.items[i]
      /\ answer'.items[n].kind = kind /\ answer'.items[n].content = <<>>
  <2>1. /\ DOMAIN answer'.items = 1 .. n
        /\ \A i \in DOMAIN answer.items : answer'.items[i] = answer.items[i]
        /\ answer'.items[n] =
              [kind |-> kind, open |-> TRUE, content |-> <<>>, whole |-> None, id |-> id]
    BY <1>1, OpenItems
  <2>. HIDE DEF n
  <2>. QED
    BY <2>1
<1>4. \A i \in DOMAIN answer'.items : i \in DOMAIN answer.items \/ i = n
  BY <1>2, <1>3
<1>5. n \notin DOMAIN answer.items /\ DOMAIN answer.items \subseteq DOMAIN answer'.items
  BY <1>2, <1>3
<1>. HIDE DEF n
<1>6. \A i \in DOMAIN answer'.items : TextAt(i)' = TextAt(i)
  BY <1>3, <1>4, <1>5 DEF TextAt
<1>7. ClientText' = ClientText
  BY <1>1, <1>5, <1>6, TextStays
<1>8. LastInv'
  <2>1. CASE textIdx' = index
    <3>1. \A i \in DOMAIN answer'.items : i <= index + 1
      BY <1>2, <1>3 DEF n
    <3>. QED
      BY <2>1, <3>1 DEF LastInv
  <2>2. CASE kind # "text" /\ textIdx' = textIdx
    <3>1. \A i \in DOMAIN answer'.items : IsText(i)' => i \in DOMAIN answer.items /\ IsText(i)
      BY <1>3, <1>4, <2>2 DEF IsText
    <3>. QED
      BY <2>2, <3>1 DEF LastInv
  <2>. QED
    BY <2>1, <2>2
<1>. QED
  BY <1>7, <1>8

LEMMA VoiceDelta ==
    ASSUME StreamInv, StreamInv', LastInv, NEW index, NEW kind, kind # "text",
           IsOpen(index, kind), NEW delta, WriteDelta(index, delta), textIdx' = textIdx
    PROVE  ClientText' = ClientText /\ LastInv'
<1>1. /\ AnswerType /\ AnswerType' /\ index \in 0 .. Len(answer.items) - 1
      /\ answer.items[index + 1].kind = kind
  BY DEF StreamInv, IsOpen
<1>2. /\ DOMAIN answer'.items = DOMAIN answer.items
      /\ \A i \in DOMAIN answer.items :
            /\ answer'.items[i].kind = answer.items[i].kind
            /\ i # index + 1 => answer'.items[i].content = answer.items[i].content
  BY <1>1, DeltaItems
<1>3. \A i \in DOMAIN answer'.items : TextAt(i)' = TextAt(i) /\ IsText(i)' = IsText(i)
  BY <1>1, <1>2 DEF TextAt, IsText
<1>4. ClientText' = ClientText
  BY <1>1, <1>2, <1>3, TextStays
<1>5. LastInv'
  BY <1>2, <1>3 DEF LastInv
<1>. QED
  BY <1>4, <1>5

LEMMA VoiceStop ==
    ASSUME StreamInv, StreamInv', LastInv, NEW index, NEW kind, IsOpen(index, kind),
           NEW whole, WriteStop(index, whole), textIdx' \in {textIdx, None}
    PROVE  ClientText' = ClientText /\ LastInv'
<1>1. AnswerType /\ AnswerType' /\ index \in 0 .. Len(answer.items) - 1
  BY DEF StreamInv, IsOpen
<1>2. /\ DOMAIN answer'.items = DOMAIN answer.items
      /\ \A i \in DOMAIN answer.items : /\ answer'.items[i].kind = answer.items[i].kind
                                        /\ answer'.items[i].content = answer.items[i].content
  BY <1>1, StopItems
<1>3. \A i \in DOMAIN answer'.items : TextAt(i)' = TextAt(i) /\ IsText(i)' = IsText(i)
  BY <1>2 DEF TextAt, IsText
<1>4. ClientText' = ClientText
  BY <1>1, <1>2, <1>3, TextStays
<1>5. LastInv'
  BY <1>2, <1>3 DEF LastInv
<1>. QED
  BY <1>4, <1>5

LEMMA VoiceText ==
    ASSUME StreamInv, StreamInv', LastInv, textIdx # None, NEW delta \in Seq(Token),
           WriteDelta(textIdx, delta), textIdx' = textIdx
    PROVE  ClientText' = ClientText \o delta /\ LastInv'
<1>. DEFINE k == textIdx + 1
<1>1. /\ AnswerType /\ AnswerType' /\ textIdx \in 0 .. Len(answer.items) - 1
      /\ IsText(k) /\ Len(answer.items) \in Nat
  BY DEF StreamInv, OpenInv, IsOpen, IsText, AnswerType
<1>2. /\ DOMAIN answer'.items = DOMAIN answer.items /\ k \in DOMAIN answer.items
      /\ \A i \in DOMAIN answer.items :
            /\ answer'.items[i].kind = answer.items[i].kind
            /\ i # k => answer'.items[i].content = answer.items[i].content
      /\ answer'.items[k].content = answer.items[k].content \o delta
  BY <1>1, DeltaItems
<1>3. k \in Nat /\ \A i \in DOMAIN answer.items : k < i => ~(i <= k) /\ i # k
  BY <1>1 DEF AnswerType
<1>4. \A i \in DOMAIN answer.items : IsText(i) => i <= k
  BY DEF LastInv
<1>. HIDE DEF k
<1>5. \A i \in DOMAIN answer'.items : IsText(i)' = IsText(i)
  BY <1>2 DEF IsText
<1>6. \A i \in DOMAIN answer'.items :
         TextAt(i)' = IF i = k THEN TextAt(i) \o delta ELSE TextAt(i)
  BY <1>1, <1>2 DEF TextAt, IsText
<1>7. \A i \in DOMAIN answer.items : 0 < k /\ k < i => TextAt(i) = <<>>
  BY <1>3, <1>4 DEF TextAt, IsText
<1>8. ClientText' = IF k \in DOMAIN answer'.items THEN ClientText \o delta ELSE ClientText
  BY <1>1, <1>2, <1>3, <1>6, <1>7, TextGrows
<1>9. LastInv'
  BY <1>2, <1>4, <1>5 DEF LastInv, k
<1>. QED
  BY <1>2, <1>8, <1>9

(* The steps by which an emitter writes an item of its own.                *)
LEMMA VoiceBlock ==
    ASSUME StreamInv, StreamInv', LastInv, agent # "gemini",
           NEW whole, BlockStep(whole)
    PROVE  Voices /\ LastInv'
<1>1. ASSUME NEW kind \in {"thinking", "text"}, OpensBlock(kind)
      PROVE  Voices /\ LastInv'
  <2>1. /\ WriteOpen(next, kind, None) /\ next = Len(answer.items) /\ UNCHANGED queue
        /\ (kind # "text" /\ textIdx' = textIdx) \/ textIdx' = next
    BY <1>1, Numbered DEF OpensBlock
  <2>2. ClientText' = ClientText /\ LastInv'
    BY <2>1, VoiceOpen
  <2>. QED
    BY <2>1, <2>2 DEF Voices
<1>2. CASE ExtendsBlock(thinkIdx, "thinking")
  <2>1. /\ IsOpen(thinkIdx, "thinking") /\ WriteDelta(thinkIdx, Event.delta)
        /\ Ready /\ Consume /\ Event.type = "thinking" /\ textIdx' = textIdx
    BY <1>2 DEF ExtendsBlock
  <2>2. ClientText' = ClientText /\ LastInv'
    BY <2>1, VoiceDelta
  <2>. QED
    BY <2>1, <2>2 DEF Voices
<1>3. CASE ExtendsBlock(textIdx, "text") /\ textIdx # None
  <2>1. /\ WriteDelta(textIdx, Event.delta) /\ Ready /\ Consume /\ Event.type = "text"
        /\ textIdx' = textIdx
    BY <1>3 DEF ExtendsBlock
  <2>2. Event.delta \in Seq(Token)
    BY <2>1, EventFacts
  <2>3. ClientText' = ClientText \o Event.delta /\ LastInv'
    BY <1>3, <2>1, <2>2, VoiceText
  <2>. QED
    BY <2>1, <2>3 DEF Voices
<1>4. ASSUME NEW index, NEW kind, NEW all, StopsBlock(index, kind, all)
      PROVE  Voices /\ LastInv'
  <2>1. /\ IsOpen(index, kind) /\ WriteStop(index, all) /\ textIdx' \in {textIdx, None}
        /\ UNCHANGED queue
    BY <1>4 DEF StopsBlock
  <2>2. ClientText' = ClientText /\ LastInv'
    BY <2>1, VoiceStop
  <2>. QED
    BY <2>1, <2>2 DEF Voices
<1>. QED
  BY <1>1, <1>2, <1>3, <1>4 DEF BlockStep

LEMMA ClaudeVoices ==
    ASSUME StreamInv, StreamInv', LastInv, agent = "claude", Claude!Step
    PROVE  Voices /\ LastInv'
<1>1. CASE Claude!StartMessage
  <2>1. UNCHANGED <<queue, textIdx>> /\ WriteBegin
    BY <1>1 DEF Claude!StartMessage, Claude!WriteBegin, WriteBegin
  <2>2. answer'.items = answer.items
    BY <2>1 DEF WriteBegin, StreamInv, AnswerType
  <2>. QED
    BY <2>1, <2>2, VoiceSame DEF Voices
<1>2. CASE \/ Claude!OpenThinking \/ Claude!OpenText \/ Claude!ThinkingDelta
           \/ Claude!TextDelta \/ Claude!CloseThinking \/ Claude!CloseText
  BY <1>2, ClaudeBlocks, VoiceBlock
<1>3. CASE Claude!HoldCall \/ Claude!HoldArguments \/ Claude!PassEnd
  <2>1. /\ Ready /\ Consume /\ Event.type \in {"toolStart", "toolDelta", "done", "error"}
        /\ UNCHANGED <<answer, textIdx>>
    BY <1>3 DEF Claude!HoldCall, Claude!HoldArguments, Claude!PassEnd, Claude!Is, Claude!Ready,
                Claude!Consume, Claude!Event, Claude!emitter, Ready, Consume, Event
  <2>2. ClientText' = ClientText /\ LastInv'
    BY <2>1, VoiceSame
  <2>. QED
    BY <2>1, <2>2 DEF Voices
<1>4. ASSUME NEW c \in Indexes, Claude!OpenCall(c) PROVE Voices /\ LastInv'
  <2>1. WriteOpen(next, "call", calls[c].id) /\ UNCHANGED <<queue, textIdx>>
    BY <1>4 DEF Claude!OpenCall, Claude!WriteOpen, WriteOpen
  <2>2. ClientText' = ClientText /\ LastInv'
    BY <2>1, Numbered, VoiceOpen
  <2>. QED
    BY <2>1, <2>2 DEF Voices
<1>5. ASSUME NEW c \in Indexes, Claude!CallArguments(c) PROVE Voices /\ LastInv'
  <2>1. /\ IsOpen(calls[c].item, "call") /\ WriteDelta(calls[c].item, calls[c].args)
        /\ UNCHANGED <<queue, textIdx>>
    BY <1>5 DEF Claude!CallArguments, Claude!WriteDelta, WriteDelta, StreamInv, OpenInv,
                Announced
  <2>2. ClientText' = ClientText /\ LastInv'
    BY <2>1, VoiceDelta
  <2>. QED
    BY <2>1, <2>2 DEF Voices
<1>6. ASSUME NEW c \in Indexes, Claude!CloseCall(c) PROVE Voices /\ LastInv'
  <2>1. /\ IsOpen(calls[c].item, "call") /\ WriteStop(calls[c].item, None)
        /\ UNCHANGED <<queue, textIdx>>
    BY <1>6 DEF Claude!CloseCall, Claude!WriteStop, WriteStop, StreamInv, OpenInv, Announced
  <2>2. ClientText' = ClientText /\ LastInv'
    BY <2>1, VoiceStop
  <2>. QED
    BY <2>1, <2>2 DEF Voices
<1>7. CASE Claude!MessageStop
  <2>1. WriteEnd(Claude!StopReason(closing)) /\ UNCHANGED <<queue, textIdx>>
    BY <1>7 DEF Claude!MessageStop, Claude!WriteEnd, Claude!emitter, WriteEnd
  <2>2. answer'.items = answer.items
    BY <2>1 DEF WriteEnd, StreamInv, AnswerType
  <2>. QED
    BY <2>1, <2>2, VoiceSame DEF Voices
<1>. QED
  BY <1>1, <1>2, <1>3, <1>4, <1>5, <1>6, <1>7 DEF Claude!Step, Claude!Emit, Claude!Done

LEMMA CodexVoices ==
    ASSUME StreamInv, StreamInv', LastInv, agent = "codex", Codex!Step
    PROVE  Voices /\ LastInv'
<1>1. CASE Codex!StartResponse
  <2>1. UNCHANGED <<queue, textIdx>> /\ WriteBegin
    BY <1>1 DEF Codex!StartResponse, Codex!WriteBegin, WriteBegin
  <2>2. answer'.items = answer.items
    BY <2>1 DEF WriteBegin, StreamInv, AnswerType
  <2>. QED
    BY <2>1, <2>2, VoiceSame DEF Voices
<1>2. CASE \/ Codex!AddReasoning \/ Codex!AddText \/ Codex!ReasoningDelta
           \/ Codex!OutputTextDelta \/ Codex!ReasoningDone \/ Codex!TextDone
  BY <1>2, CodexBlocks, VoiceBlock
<1>3. CASE Codex!AddCall
  <2>1. /\ Ready /\ Event.type = "toolStart" /\ textIdx' = textIdx
        /\ UNCHANGED queue \/ Consume
        /\ \E id : WriteOpen(next, "call", id)
    BY <1>3 DEF Codex!AddCall, Codex!Is, Codex!Ready, Codex!Event, Codex!Consume,
                Codex!WriteOpen, Ready, Event, Consume, WriteOpen
  <2>2. ClientText' = ClientText /\ LastInv'
    BY <2>1, Numbered, VoiceOpen
  <2>. QED
    BY <2>1, <2>2 DEF Voices
<1>4. CASE Codex!FirstArguments \/ Codex!ArgumentsDelta
  <2>. DEFINE c == Event.index
  <2>1. Ready /\ Event.type \in {"toolStart", "toolDelta"}
    BY <1>4 DEF Codex!FirstArguments, Codex!ArgumentsDelta, Codex!Is, Codex!Ready, Codex!Event,
                Ready, Event
  <2>2. c \in Indexes
    BY <2>1, EventFacts
  <2>3. /\ Consume /\ textIdx' = textIdx
        /\ \/ UNCHANGED answer
           \/ calls[c].item # None /\ \E delta : WriteDelta(calls[c].item, delta)
    <3>1. CASE Codex!FirstArguments
      <4>1. /\ Consume /\ textIdx' = textIdx /\ calls[c].owed # <<>>
            /\ WriteDelta(calls[c].item, calls[c].owed)
        BY <3>1 DEF Codex!FirstArguments, Codex!Event, Codex!Consume, Codex!WriteDelta,
                    Event, Consume, WriteDelta
      <4>. QED
        BY <2>2, <4>1, CodexCalls
    <3>2. CASE Codex!ArgumentsDelta
      BY <3>2 DEF Codex!ArgumentsDelta, Codex!Event, Codex!Consume, Codex!WriteDelta,
                  Event, Consume, WriteDelta
    <3>. QED
      BY <1>4, <3>1, <3>2
  <2>. HIDE DEF c
  <2>4. ClientText' = ClientText /\ LastInv'
    <3>1. CASE UNCHANGED answer
      BY <2>3, <3>1, VoiceSame
    <3>2. CASE calls[c].item # None /\ \E delta : WriteDelta(calls[c].item, delta)
      <4>1. IsOpen(calls[c].item, "call")
        BY <2>1, <2>2, <3>2, CallIsOpen
      <4>. QED
        BY <2>3, <3>2, <4>1, VoiceDelta
    <3>. QED
      BY <2>3, <3>1, <3>2
  <2>. QED
    BY <2>1, <2>3, <2>4 DEF Voices
<1>5. CASE Codex!RepeatedStart \/ Codex!PassEnd
  <2>1. /\ Ready /\ Consume /\ Event.type \in {"toolStart", "done", "error"}
        /\ UNCHANGED <<answer, textIdx>>
    BY <1>5 DEF Codex!RepeatedStart, Codex!PassEnd, Codex!Is, Codex!Ready, Codex!Consume,
                Codex!Event, Codex!emitter, Ready, Consume, Event
  <2>2. ClientText' = ClientText /\ LastInv'
    BY <2>1, VoiceSame
  <2>. QED
    BY <2>1, <2>2 DEF Voices
<1>6. CASE Codex!LogDiscussion
  <2>1. UNCHANGED <<queue, answer, textIdx>>
    BY <1>6 DEF Codex!LogDiscussion, Codex!emitter
  <2>. QED
    BY <2>1, VoiceSame DEF Voices
<1>7. ASSUME NEW c \in Indexes, Codex!CallDone(c) PROVE Voices /\ LastInv'
  <2>1. /\ IsOpen(calls[c].item, "call") /\ WriteStop(calls[c].item, calls[c].args)
        /\ UNCHANGED <<queue, textIdx>>
    BY <1>7 DEF Codex!CallDone, Codex!WriteStop, WriteStop, StreamInv, OpenInv, Announced
  <2>2. ClientText' = ClientText /\ LastInv'
    BY <2>1, VoiceStop
  <2>. QED
    BY <2>1, <2>2 DEF Voices
<1>8. CASE Codex!ResponseCompleted
  <2>1. WriteEnd(Codex!Status(closing)) /\ UNCHANGED <<queue, textIdx>>
    BY <1>8 DEF Codex!ResponseCompleted, Codex!WriteEnd, Codex!emitter, WriteEnd
  <2>2. answer'.items = answer.items
    BY <2>1 DEF WriteEnd, StreamInv, AnswerType
  <2>. QED
    BY <2>1, <2>2, VoiceSame DEF Voices
<1>. QED
  BY <1>1, <1>2, <1>3, <1>4, <1>5, <1>6, <1>7, <1>8
  DEF Codex!Step, Codex!Emit, Codex!Done

(* Chunks of Gemini: their parts follow the items before.                  *)
LEMMA PartsItems ==
    ASSUME AnswerType, AnswerType', NEW parts \in Seq(Items),
           answer' = [answer EXCEPT !.phase = "live", !.items = @ \o parts]
    PROVE  /\ DOMAIN answer.items \subseteq DOMAIN answer'.items
           /\ \A i \in DOMAIN answer'.items :
                 \/ i \in DOMAIN answer.items /\ answer'.items[i] = answer.items[i]
                 \/ /\ i \notin DOMAIN answer.items
                    /\ i - Len(answer.items) \in DOMAIN parts
                    /\ answer'.items[i] = parts[i - Len(answer.items)]
           /\ DOMAIN answer'.items = 1 .. Len(answer.items) + Len(parts)
           /\ DOMAIN answer.items = 1 .. Len(answer.items) /\ Len(answer.items) \in Nat
<1>. DEFINE items == answer.items
            n == Len(items)
            all == items \o parts
<1>1. items \in Seq(Items) /\ n \in Nat /\ DOMAIN items = 1 .. n
  BY DEF AnswerType
<1>2. /\ all \in Seq(Items) /\ Len(all) = n + Len(parts) /\ Len(parts) \in Nat
      /\ DOMAIN all = 1 .. n + Len(parts) /\ DOMAIN parts = 1 .. Len(parts)
      /\ \A i \in 1 .. n + Len(parts) : all[i] = IF i <= n THEN items[i] ELSE parts[i - n]
  BY <1>1, ConcatProperties
<1>3. answer'.items = all
  BY DEF AnswerType
<1>. HIDE DEF all, items
<1>4. ASSUME NEW i \in DOMAIN all
      PROVE  \/ i \in DOMAIN items /\ all[i] = items[i]
             \/ i \notin DOMAIN items /\ i - n \in DOMAIN parts /\ all[i] = parts[i - n]
  <2>1. i \in Nat /\ i >= 1 /\ i <= n + Len(parts) /\ n \in Nat
    BY <1>1, <1>2
  <2>2. CASE i <= n
    BY <1>1, <1>2, <2>1, <2>2
  <2>3. CASE ~(i <= n)
    BY <1>1, <1>2, <2>1, <2>3
  <2>. QED
    BY <2>2, <2>3
<1>5. DOMAIN items \subseteq DOMAIN all
  BY <1>1, <1>2
<1>. QED
  BY <1>1, <1>2, <1>3, <1>4, <1>5 DEF items

LEMMA GeminiVoices ==
    ASSUME StreamInv, StreamInv', LastInv, agent = "gemini", agent' = agent, Gemini!Step
    PROVE  Voices /\ LastInv'
<1>1. AnswerType /\ AnswerType' /\ textIdx = None /\ textIdx' = None
  BY DEF StreamInv, CallsInv
<1>2. LastInv'
  BY <1>1 DEF LastInv
<1>3. CASE Gemini!Chunk
  <2>. DEFINE part == Gemini!Part(Event.type, Event.delta, None)
              k == Len(answer.items) + 1
  <2>1. /\ Ready /\ Event.type \in {"thinking", "text"} /\ Consume
        /\ answer' = [answer EXCEPT !.phase = "live", !.items = @ \o <<part>>]
    BY <1>3 DEF Gemini!Chunk, Gemini!WriteChunk, Gemini!Is, Gemini!Ready, Gemini!Event,
                Gemini!Consume, Ready, Event, Consume
  <2>2. Event.delta \in Seq(Token)
    BY <2>1, EventFacts
  <2>3. part \in Items /\ part.kind = Event.type /\ part.content = Event.delta
    BY <2>1, <2>2 DEF Items, MaybeToken, Gemini!Part
  <2>. HIDE DEF part
  <2>4. <<part>> \in Seq(Items) /\ Len(<<part>>) = 1 /\ DOMAIN <<part>> = {1} /\ <<part>>[1] = part
    BY <2>3
  <2>5. /\ DOMAIN answer.items \subseteq DOMAIN answer'.items
        /\ \A i \in DOMAIN answer'.items :
              \/ i \in DOMAIN answer.items /\ answer'.items[i] = answer.items[i]
              \/ /\ i \notin DOMAIN answer.items
                 /\ i - Len(answer.items) \in DOMAIN <<part>>
                 /\ answer'.items[i] = <<part>>[i - Len(answer.items)]
        /\ DOMAIN answer'.items = 1 .. Len(answer.items) + Len(<<part>>)
        /\ DOMAIN answer.items = 1 .. Len(answer.items) /\ Len(answer.items) \in Nat
    BY <1>1, <2>1, <2>4, PartsItems
  <2>6. /\ k \in Nat /\ k \notin DOMAIN answer.items /\ k \in DOMAIN answer'.items
        /\ \A i \in DOMAIN answer.items : ~(k < i)
    BY <2>4, <2>5
  <2>7. \A i \in DOMAIN answer'.items :
           \/ i # k /\ i \in DOMAIN answer.items /\ answer'.items[i] = answer.items[i]
           \/ i = k /\ i \notin DOMAIN answer.items /\ answer'.items[i] = part
    BY <2>4, <2>5, <2>6
  <2>. HIDE DEF k
  <2>8. TextAt(k) = <<>>
    BY <2>6 DEF TextAt
  <2>9. CASE Event.type = "thinking"
    <3>1. \A i \in DOMAIN answer'.items : TextAt(i)' = TextAt(i)
      BY <2>3, <2>7, <2>9 DEF TextAt
    <3>2. ClientText' = ClientText
      BY <1>1, <2>5, <3>1, TextStays
    <3>. QED
      BY <1>2, <2>1, <2>9, <3>2 DEF Voices
  <2>10. CASE Event.type = "text"
    <3>1. <<>> \o Event.delta = Event.delta
      BY <2>2
    <3>2. \A i \in DOMAIN answer'.items :
             TextAt(i)' = IF i = k THEN TextAt(i) \o Event.delta ELSE TextAt(i)
      BY <2>3, <2>7, <2>8, <2>10, <3>1 DEF TextAt
    <3>3. \A i \in DOMAIN answer.items : 0 < k /\ k < i => TextAt(i) = <<>>
      BY <2>6
    <3>4. ClientText' = IF k \in DOMAIN answer'.items THEN ClientText \o Event.delta
                                                      ELSE ClientText
      BY <1>1, <2>2, <2>5, <2>6, <3>2, <3>3, TextGrows
    <3>. QED
      BY <1>2, <2>1, <2>6, <2>10, <3>4 DEF Voices
  <2>. QED
    BY <2>1, <2>9, <2>10
<1>4. CASE Gemini!HoldCall \/ Gemini!PassEnd
  <2>1. /\ Ready /\ Consume /\ Event.type \in {"toolStart", "toolDelta", "done", "error"}
        /\ UNCHANGED answer
    BY <1>4 DEF Gemini!HoldCall, Gemini!PassEnd, Gemini!Is, Gemini!Ready, Gemini!Consume,
                Gemini!Event, Gemini!emitter, Ready, Consume, Event
  <2>. QED
    BY <1>1, <1>2, <2>1, VoiceSame DEF Voices
<1>5. CASE Gemini!FlushCalls
  <2>1. UNCHANGED queue
    BY <1>5 DEF Gemini!FlushCalls
  <2>2. PICK parts \in Seq(Items) :
           /\ \A i \in DOMAIN parts : parts[i].kind = "call"
           /\ answer' = [answer EXCEPT !.phase = "live", !.items = @ \o parts]
    BY <1>5, FlushedParts
  <2>3. /\ DOMAIN answer.items \subseteq DOMAIN answer'.items
        /\ \A i \in DOMAIN answer'.items :
              \/ i \in DOMAIN answer.items /\ answer'.items[i] = answer.items[i]
              \/ /\ i \notin DOMAIN answer.items
                 /\ i - Len(answer.items) \in DOMAIN parts
                 /\ answer'.items[i] = parts[i - Len(answer.items)]
    BY <1>1, <2>2, PartsItems
  <2>4. \A i \in DOMAIN answer'.items : TextAt(i)' = TextAt(i)
    BY <2>2, <2>3 DEF TextAt
  <2>5. ClientText' = ClientText
    BY <1>1, <2>3, <2>4, TextStays
  <2>. QED
    BY <1>2, <2>1, <2>5 DEF Voices
<1>6. CASE Gemini!LastChunk
  <2>1. WriteEnd(closing) /\ UNCHANGED queue
    BY <1>6 DEF Gemini!LastChunk, Gemini!WriteEnd, WriteEnd
  <2>2. answer'.items = answer.items
    BY <2>1 DEF WriteEnd, StreamInv, AnswerType
  <2>. QED
    BY <1>1, <1>2, <2>1, <2>2, VoiceSame DEF Voices
<1>. QED
  BY <1>3, <1>4, <1>5, <1>6 DEF Gemini!Step

-----------------------------------------------------------------------------
(* Reasoning and text.                                                     *)

(* Tokens of a text, and events that carry nothing else as text.           *)
Speech == [tag : TextTags, n : Nat]

SpokenEvents == {e \in Events : e.type = "text" => e.delta \in Seq(Speech)}

SilentEvents == {e \in Events : e.type # "text"}

(* All events but reasoning.                                               *)
LaterEvents == {e \in Events : e.type # "thinking"}

(* The end of a reasoning that fits into the reasoning buffer.             *)
Kept(reasoning) ==
    LET n == Len(reasoning)
        kept == IF n > ReasoningCap THEN ReasoningCap ELSE n
    IN  SubSeq(reasoning, n - kept + 1, n)

(* What is read last is taken last, and a crash ends the handler.          *)
EndInv ==
    /\ \A i \in DOMAIN chan :
          body = CASE chan[i].type = "done" -> "done"
                   [] chan[i].type = "error" -> "cut"
                   [] OTHER -> "open"
    /\ HasType("done", chan) => Tail(chan) = <<>>
    /\ crashed => closing = None

(* The reasoning buffer, also while a reasoning is yet to be taken.        *)
ThoughtInv ==
    /\ thought \in Seq(Token)
    /\ chan # <<>> => Tail(chan) \in Seq(LaterEvents)
    /\ \/ chan \in Seq(LaterEvents) /\ reasoningBuf = Kept(thought)
       \/ /\ chan # <<>> /\ Head(chan).type = "thinking"
          /\ \E past \in Seq(Token) : /\ thought = past \o Head(chan).delta
                                      /\ reasoningBuf = Kept(past)

(* All that is shown as text next to a text is from the upstream's text.   *)
SpeechInv ==
    /\ heard \in Seq(Token)
    /\ thinkBuf \in Seq(Speech)
    /\ chan \in Seq(SpokenEvents)
    /\ heard # <<>> => /\ hasContent \/ HasType("text", chan)
                       /\ queue \in Seq(SpokenEvents)
                       /\ ClientText \in Seq(Speech)

(* Without a text, the reasoning is spoken when the end is normalised.     *)
Promised == body \in {"done", "complete"} /\ chan = <<>>

QuietInv ==
    heard = <<>> =>
        /\ ~hasContent /\ thinkBuf = <<>> /\ chan \in Seq(SilentEvents)
        /\ ~Promised => ClientText = <<>> /\ queue \in Seq(SilentEvents)
        /\ Promised =>
              \/ ClientText = Kept(thought) /\ queue \in Seq(SilentEvents)
              \/ /\ ClientText = <<>> /\ queue # <<>>
                 /\ Event.type = "text" /\ Event.delta = Kept(thought)
                 /\ Tail(queue) \in Seq(SilentEvents)

TalkInv == ThoughtInv /\ SpeechInv /\ QuietInv

VoiceInv == LastInv /\ EndInv /\ (~crashed => TalkInv)

LEMMA VoiceIsRight == StreamInv /\ VoiceInv => SilentAnswerSpeaks
<1>. SUFFICES ASSUME StreamInv, VoiceInv, Over PROVE
        LET n == Len(thought)
            kept == IF n > ReasoningCap THEN ReasoningCap ELSE n
        IN  /\ body = "complete" /\ heard = <<>> =>
                   ClientText = SubSeq(thought, n - kept + 1, n)
            /\ heard # <<>> => \A i \in DOMAIN ClientText : ClientText[i].tag # "thought"
  BY DEF SilentAnswerSpeaks
<1>1. queue = <<>> /\ ~crashed
  BY DEF StreamInv, PhaseInv, Finishing, Over, VoiceInv, EndInv
<1>2. ThoughtInv /\ SpeechInv /\ QuietInv /\ EndInv
  BY <1>1 DEF VoiceInv, TalkInv
<1>3. ASSUME body = "complete", heard = <<>> PROVE ClientText = Kept(thought)
  <2>1. \A i \in DOMAIN chan : body \in {"done", "cut", "open"}
    BY <1>2 DEF EndInv
  <2>2. chan = <<>>
    <3>1. chan \in Seq(ParsedEvents) /\ DOMAIN chan = {}
      BY <1>3, <2>1 DEF StreamInv, UpstreamType
    <3>. QED
      BY <3>1
  <2>. QED
    BY <1>1, <1>2, <1>3, <2>2 DEF QuietInv, Promised
<1>4. ASSUME heard # <<>>, NEW i \in DOMAIN ClientText PROVE ClientText[i].tag # "thought"
  <2>1. ClientText \in Seq(Speech)
    BY <1>2, <1>4 DEF SpeechInv
  <2>2. ClientText[i] \in Speech
    BY <1>4, <2>1
  <2>. QED
    BY <2>2 DEF Speech, TextTags
<1>. QED
  BY <1>3, <1>4 DEF Kept

(* Sequences of events of a kind.                                          *)
LEMMA OtherElements ==
    ASSUME NEW A, NEW B, NEW s \in Seq(A), \A i \in DOMAIN s : s[i] \in B
    PROVE  s \in Seq(B)
<1>1. Len(s) \in Nat /\ s = [i \in 1 .. Len(s) |-> s[i]] /\ DOMAIN s = 1 .. Len(s)
  OBVIOUS
<1>. QED
  BY <1>1

LEMMA KeptIs ==
    ASSUME NEW text \in Seq(Token)
    PROVE  /\ Kept(text) \in Seq(Token)
           /\ Len(Kept(text)) = IF Len(text) > ReasoningCap THEN ReasoningCap ELSE Len(text)
           /\ \A i \in 1 .. Len(Kept(text)) :
                 Kept(text)[i] = text[Len(text) - Len(Kept(text)) + i]
<1>. DEFINE n == Len(text)
            k == IF n > ReasoningCap THEN ReasoningCap ELSE n
            from == n - k + 1
<1>1. n \in Nat /\ k \in Nat /\ k <= n /\ ReasoningCap \in Nat
  BY UpstreamAssumption
<1>2. Kept(text) = SubSeq(text, from, n)
  BY DEF Kept
<1>. HIDE DEF k
<1>3. from \in Int /\ n \in Int /\ \A i \in from .. n : text[i] \in Token
  BY <1>1
<1>. HIDE DEF n
<1>4. /\ SubSeq(text, from, n) \in Seq(Token)
      /\ Len(SubSeq(text, from, n)) = IF from <= n THEN n - from + 1 ELSE 0
      /\ \A i \in 1 .. n - from + 1 : SubSeq(text, from, n)[i] = text[from + i - 1]
  BY <1>3, SubSeqProperties
<1>5. Len(SubSeq(text, from, n)) = k
  BY <1>1, <1>4
<1>6. ASSUME NEW i \in 1 .. k PROVE SubSeq(text, from, n)[i] = text[n - k + i]
  <2>1. i \in 1 .. n - from + 1 /\ from + i - 1 = n - k + i
    BY <1>1
  <2>. QED
    BY <1>4, <2>1
<1>. QED
  BY <1>2, <1>4, <1>5, <1>6 DEF k, n

LEMMA KeptCapped ==
    ASSUME NEW old \in Seq(Token), NEW new \in Seq(Token), Len(new) <= ReasoningCap
    PROVE  Capped(Kept(old), new) = Kept(old \o new)
<1>. DEFINE all == old \o new
            kept == Kept(old)
            over == Len(kept) + Len(new) - ReasoningCap
            left == Capped(kept, new)
            right == Kept(all)
<1>1. /\ Len(old) \in Nat /\ Len(new) \in Nat /\ ReasoningCap \in Nat
      /\ all \in Seq(Token) /\ Len(all) = Len(old) + Len(new)
      /\ \A i \in 1 .. Len(old) + Len(new) :
            all[i] = IF i <= Len(old) THEN old[i] ELSE new[i - Len(old)]
  BY UpstreamAssumption, ConcatProperties
<1>. HIDE DEF all
<1>2. /\ kept \in Seq(Token)
      /\ Len(kept) = IF Len(old) > ReasoningCap THEN ReasoningCap ELSE Len(old)
      /\ \A i \in 1 .. Len(kept) : kept[i] = old[Len(old) - Len(kept) + i]
  BY KeptIs
<1>3. /\ right \in Seq(Token)
      /\ Len(right) = IF Len(all) > ReasoningCap THEN ReasoningCap ELSE Len(all)
      /\ \A i \in 1 .. Len(right) : right[i] = all[Len(all) - Len(right) + i]
  BY <1>1, KeptIs
<1>. HIDE DEF kept, right
<1>4. CASE over > 0
  <2>. DEFINE part == SubSeq(kept, over + 1, Len(kept))
  <2>1. over \in Nat /\ over <= Len(kept) /\ Len(kept) \in Nat
    BY <1>1, <1>2, <1>4
  <2>2. left = part \o new
    BY <1>4 DEF Capped
  <2>3. /\ part \in Seq(Token) /\ Len(part) = Len(kept) - over
        /\ \A i \in 1 .. Len(kept) - over : part[i] = kept[over + i]
    <3>1. over + 1 \in Int /\ Len(kept) \in Int /\ \A i \in over + 1 .. Len(kept) : kept[i] \in Token
      BY <1>2, <2>1
    <3>2. /\ part \in Seq(Token)
          /\ Len(part) = IF over + 1 <= Len(kept) THEN Len(kept) - (over + 1) + 1 ELSE 0
          /\ \A i \in 1 .. Len(kept) - (over + 1) + 1 : part[i] = kept[over + 1 + i - 1]
      <4>. HIDE DEF over
      <4>. QED
        BY <3>1, SubSeqProperties
    <3>3. ASSUME NEW i \in 1 .. Len(kept) - over PROVE part[i] = kept[over + i]
      <4>1. i \in 1 .. Len(kept) - (over + 1) + 1 /\ over + 1 + i - 1 = over + i
        BY <2>1
      <4>. QED
        BY <3>2, <4>1
    <3>4. Len(part) = Len(kept) - over
      BY <2>1, <3>2
    <3>. QED
      BY <3>2, <3>3, <3>4
  <2>. HIDE DEF part
  <2>4. /\ left \in Seq(Token) /\ Len(left) = Len(part) + Len(new)
        /\ \A i \in 1 .. Len(part) + Len(new) :
              left[i] = IF i <= Len(part) THEN part[i] ELSE new[i - Len(part)]
    BY <2>2, <2>3, ConcatProperties
  <2>. HIDE DEF left
  <2>5. Len(left) = ReasoningCap /\ Len(right) = ReasoningCap
    BY <1>1, <1>2, <1>3, <1>4, <2>1, <2>3, <2>4
  <2>6. ASSUME NEW i \in 1 .. ReasoningCap PROVE left[i] = right[i]
    <3>. DEFINE j == Len(all) - ReasoningCap + i
    <3>0. /\ j \in 1 .. Len(old) + Len(new)
          /\ j = Len(old) + Len(new) - ReasoningCap + i
      BY <1>1, <1>2, <1>4, <2>1
    <3>1. right[i] = all[j]
      BY <1>3, <2>5
    <3>2. Len(part) = ReasoningCap - Len(new) /\ i \in 1 .. Len(part) + Len(new)
      BY <1>1, <2>1, <2>3, <2>4, <2>5
    <3>3. CASE i <= Len(part)
      <4>0. /\ i \in 1 .. Len(kept) - over /\ over + i \in 1 .. Len(kept)
        BY <2>1, <2>3, <3>3
      <4>1. left[i] = kept[over + i]
        BY <2>3, <2>4, <3>2, <3>3, <4>0
      <4>2. kept[over + i] = old[Len(old) - Len(kept) + (over + i)]
        BY <1>2, <4>0
      <4>3. Len(old) - Len(kept) + (over + i) = j /\ j <= Len(old)
        BY <1>1, <2>1, <3>0, <3>2, <3>3
      <4>4. all[j] = old[j]
        <5>. HIDE DEF j
        <5>. QED
          BY <1>1, <3>0, <4>3
      <4>. QED
        BY <3>1, <4>1, <4>2, <4>3, <4>4
    <3>4. CASE ~(i <= Len(part))
      <4>1. left[i] = new[i - Len(part)]
        BY <2>4, <3>2, <3>4
      <4>2. ~(j <= Len(old)) /\ j - Len(old) = i - Len(part)
        BY <1>1, <2>1, <3>0, <3>2, <3>4
      <4>3. all[j] = new[j - Len(old)]
        <5>. HIDE DEF j
        <5>. QED
          BY <1>1, <3>0, <4>2
      <4>. QED
        BY <3>1, <4>1, <4>2, <4>3
    <3>. QED
      BY <3>3, <3>4
  <2>. QED
    BY <1>3, <2>4, <2>5, <2>6, SeqEqual DEF all, kept, left, right
<1>5. CASE ~(over > 0)
  <2>1. left = kept \o new
    BY <1>5 DEF Capped
  <2>2. CASE Len(old) <= ReasoningCap
    <3>1. Len(kept) = Len(old) /\ Len(right) = Len(all)
      BY <1>1, <1>2, <1>3, <1>5, <2>2
    <3>2. kept = old
      <4>1. ASSUME NEW i \in 1 .. Len(old) PROVE kept[i] = old[i]
        <5>1. Len(old) - Len(kept) + i = i /\ i \in 1 .. Len(kept)
          BY <1>1, <3>1
        <5>. QED
          BY <1>2, <5>1
      <4>. QED
        BY <1>2, <3>1, <4>1, SeqEqual
    <3>3. right = all
      <4>1. ASSUME NEW i \in 1 .. Len(all) PROVE right[i] = all[i]
        <5>1. Len(all) - Len(right) + i = i /\ i \in 1 .. Len(right)
          BY <1>1, <3>1
        <5>. QED
          BY <1>3, <5>1
      <4>. QED
        BY <1>1, <1>3, <3>1, <4>1, SeqEqual
    <3>. QED
      BY <2>1, <3>2, <3>3 DEF all, kept, right
  <2>3. CASE ~(Len(old) <= ReasoningCap)
    <3>1. Len(new) = 0
      BY <1>1, <1>2, <1>5, <2>3
    <3>2. new = <<>> /\ old \o <<>> = old /\ kept \o <<>> = kept
      BY <1>2, <3>1
    <3>. QED
      BY <2>1, <3>2 DEF all, kept, right
  <2>. QED
    BY <1>1, <2>2, <2>3
<1>. QED
  BY <1>1, <1>2, <1>4, <1>5

-----------------------------------------------------------------------------
(* What the upstream's steps do to what is promised to be spoken.          *)

(* Every event behind the first one stood in the channel.                  *)
LEMMA TailOf ==
    ASSUME NEW S, NEW s \in Seq(S), s # <<>>
    PROVE  /\ Head(s) \in S /\ Head(s) = s[1] /\ 1 \in DOMAIN s
           /\ Tail(s) \in Seq(S)
           /\ \A i \in DOMAIN Tail(s) : i + 1 \in DOMAIN s /\ Tail(s)[i] = s[i + 1]
<1>1. /\ Len(s) \in Nat \ {0} /\ Head(s) = s[1] /\ DOMAIN s = 1 .. Len(s)
      /\ DOMAIN Tail(s) = 1 .. Len(s) - 1
      /\ \A i \in 1 .. Len(s) - 1 : Tail(s)[i] = s[i + 1]
      /\ Tail(s) \in Seq(S)
  BY HeadTailProperties
<1>2. \A i \in 1 .. Len(s) - 1 : i + 1 \in 1 .. Len(s)
  BY <1>1
<1>3. 1 \in 1 .. Len(s) /\ s[1] \in S
  BY <1>1
<1>. QED
  BY <1>1, <1>2, <1>3

LEMMA EndEvent ==
    ASSUME NEW type \in {"done", "error"}, NEW reason
    PROVE  End(type, reason).type = type
  BY DEF End, Delta, CallEvent

(* A text alone, when there is one.                                        *)
LEMMA TextEventSpoken ==
    ASSUME NEW text \in Seq(Token)
    PROVE  /\ text \in Seq(Speech) => TextEvent(text) \in Seq(SpokenEvents)
           /\ text = <<>> => TextEvent(text) = <<>>
           /\ text # <<>> => TextEvent(text) = <<Delta("text", text)>>
<1>1. ASSUME text # <<>>, text \in Seq(Speech) PROVE Delta("text", text) \in SpokenEvents
  <2>1. Delta("text", text) \in Events
    BY <1>1, EventType DEF Delta, CallEvent, MaybeToken
  <2>2. Delta("text", text).delta = text
    BY DEF Delta, CallEvent
  <2>. QED
    BY <1>1, <2>1, <2>2 DEF SpokenEvents
<1>. QED
  BY <1>1 DEF TextEvent

(* The events of the calls in a text are no text.                          *)
LEMMA InlineSilent ==
    ASSUME NEW text \in Seq(Token), NEW size \in {0} \cup {Len(chunk.content) : chunk \in Chunks},
           Len(text) <= BufferCap + size
    PROVE  /\ InlineEvents(ParsedCalls(text).calls) \in Seq(SilentEvents)
           /\ InlineEvents(ParsedCalls(text).calls) \in Seq(SpokenEvents)
<1>. DEFINE found == ParsedCalls(text).calls
            inline == InlineEvents(found)
<1>1. inline \in Seq(Composed)
  BY InlineEventsType
<1>2. inline \in Seq(Events)
  BY <1>1, ComposedAreEvents
<1>3. \A i \in DOMAIN inline : inline[i].type = "toolStart"
  BY DEF InlineEvents, CallEvent
<1>. HIDE DEF inline
<1>4. \A i \in DOMAIN inline : inline[i] \in Events
  BY <1>2
<1>5. \A i \in DOMAIN inline : inline[i] \in SilentEvents
  BY <1>3, <1>4 DEF SilentEvents
<1>6. \A i \in DOMAIN inline : inline[i] \in SpokenEvents
  BY <1>3, <1>4 DEF SpokenEvents
<1>7. inline \in Seq(SilentEvents)
  BY <1>2, <1>5, OtherElements
<1>8. inline \in Seq(SpokenEvents)
  BY <1>2, <1>6, OtherElements
<1>. QED
  BY <1>7, <1>8 DEF inline

LEMMA SpeechIsToken == Speech \in SUBSET Token
  BY DEF Speech, Token

(* An event that is not a text is both silent and spoken.                  *)
LEMMA NoText ==
    ASSUME NEW e \in Events, e.type # "text"
    PROVE  <<e>> \in Seq(SilentEvents) /\ <<e>> \in Seq(SpokenEvents)
<1>1. e \in SilentEvents /\ e \in SpokenEvents
  BY DEF SilentEvents, SpokenEvents
<1>. HIDE DEF SilentEvents, SpokenEvents
<1>. QED
  BY <1>1

(* A text made of the upstream's text stays one in processTextDelta.       *)
LEMMA TextOutSpoken ==
    ASSUME NEW raw \in Seq(Speech), NEW size \in {0} \cup {Len(chunk.content) : chunk \in Chunks},
           Len(raw) <= BufferCap + size
    PROVE  TextOut(raw) \in Seq(SpokenEvents)
<1>1. raw \in Seq(Token)
  BY SpeechIsToken
<1>2. /\ ParsedCalls(raw).cleaned \in Seq(Speech)
      /\ ParsedCalls(raw).cleaned \in Seq(Token)
  BY <1>1, SpeechIsToken, ParsedCallsOf, ParsedCallsType
<1>3. StripThinkTags(raw) \in Seq(Speech) /\ StripThinkTags(raw) \in Seq(Token)
  BY <1>1, StripThinkTagsOf, StripThinkTagsType
<1>4. /\ TextEvent(raw) \in Seq(SpokenEvents)
      /\ TextEvent(StripThinkTags(raw)) \in Seq(SpokenEvents)
      /\ TextEvent(ParsedCalls(raw).cleaned) \in Seq(SpokenEvents)
  BY <1>1, <1>2, <1>3, TextEventSpoken
<1>5. InlineEvents(ParsedCalls(raw).calls) \in Seq(SpokenEvents)
  BY <1>1, InlineSilent
<1>6. TextEvent(ParsedCalls(raw).cleaned) \o InlineEvents(ParsedCalls(raw).calls)
         \in Seq(SpokenEvents)
  BY <1>4, <1>5
<1>7. <<>> \in Seq(SpokenEvents)
  OBVIOUS
<1>. QED
  BY <1>4, <1>6, <1>7, Zenon DEF TextOut

(* Steps that touch neither the channel nor the queue nor the texts.       *)
LEMMA TalkSame ==
    ASSUME TalkInv, Promised' = Promised, ClientText' = ClientText,
           UNCHANGED <<chan, queue, thought, reasoningBuf, heard, thinkBuf, hasContent>>
    PROVE  TalkInv'
  BY DEF TalkInv, ThoughtInv, SpeechInv, QuietInv, Event

(***************************************************************************)
(* The events of a line: its reasoning first, and text when it has text.   *)
(***************************************************************************)
LEMMA ReadChunkEvents ==
    ASSUME UpstreamType, NEW chunk \in Chunks, ReadChunk(chunk)
    PROVE  /\ chan' \in Seq(SpokenEvents)
           /\ Tokens(chunk.content) \in Seq(Speech) /\ Tokens(chunk.content) \in Seq(Token)
           /\ Tokens(chunk.content) = <<>> => chan' \in Seq(SilentEvents)
           /\ Tokens(chunk.content) # <<>> => HasType("text", chan')
           /\ Thoughts(chunk.reasoning) \in Seq(Token)
           /\ Thoughts(chunk.reasoning) = <<>> => chan' \in Seq(LaterEvents)
           /\ Thoughts(chunk.reasoning) # <<>> =>
                 /\ chan' # <<>> /\ Tail(chan') \in Seq(LaterEvents)
                 /\ Head(chan').type = "thinking"
                 /\ Head(chan').delta = Thoughts(chunk.reasoning)
           /\ \A i \in DOMAIN chan' : chan'[i].type \notin {"done", "error"}
<1>. DEFINE thoughts == Thoughts(chunk.reasoning)
            content == Tokens(chunk.content)
            one == Delta("thinking", thoughts)
            two == Delta("text", content)
            a == IF thoughts # <<>> THEN <<one>> ELSE <<>>
            b == IF content # <<>> THEN <<two>> ELSE <<>>
            c == IF chunk.call # None THEN CallEvents(chunk.call[1], chunk.call[2]) ELSE <<>>
            Calls == {e \in Events : e.type \in {"toolStart", "toolDelta"}}
            Parsed == {e \in Events : e.type \notin {"done", "error"}}
<1>1. /\ chunk.reasoning \in Nat /\ chunk.content \in Seq(TextTags)
      /\ chunk.call # None => chunk.call[1] \in Indexes /\ chunk.call[2] \in Nat
  BY UpstreamAssumption
<1>2. lines \in Nat
  BY DEF UpstreamType
<1>3. thoughts \in Seq(Token) /\ content \in Seq(Token)
  BY <1>1, <1>2, ThoughtsType, TokensType
<1>4. content \in Seq(Speech)
  <2>1. \A i \in 1 .. Len(chunk.content) : [tag |-> chunk.content[i], n |-> lines] \in Speech
    BY <1>1, <1>2 DEF Speech
  <2>2. content = [i \in 1 .. Len(chunk.content) |-> [tag |-> chunk.content[i], n |-> lines]]
    BY <1>1 DEF Tokens
  <2>3. Len(chunk.content) \in Nat
    BY <1>1
  <2>. HIDE DEF content
  <2>. QED
    BY <2>1, <2>2, <2>3
<1>5. chan' = a \o b \o c
  BY DEF ReadChunk
<1>6. /\ thoughts # <<>> => one \in Events
      /\ one.type = "thinking" /\ one.delta = thoughts
  BY <1>3, EventType DEF Delta, CallEvent, MaybeToken
<1>7. /\ content # <<>> => two \in Events
      /\ two.type = "text" /\ two.delta = content
  BY <1>3, EventType DEF Delta, CallEvent, MaybeToken
<1>8. c \in Seq(Calls)
  <2>1. CASE chunk.call # None
    <3>1. c \in Seq(ParsedEvents)
      BY <1>1, <2>1, CallEventsType
    <3>2. \A i \in DOMAIN c : c[i].type \in {"toolStart", "toolDelta"}
      BY <2>1 DEF CallEvents, CallEvent
    <3>. HIDE DEF c
    <3>3. \A i \in DOMAIN c : c[i] \in Events
      BY <3>1 DEF ParsedEvents
    <3>4. \A i \in DOMAIN c : c[i] \in Calls
      BY <3>2, <3>3
    <3>. HIDE DEF Calls
    <3>. QED
      BY <3>1, <3>4, OtherElements
  <2>2. CASE chunk.call = None
    BY <2>2
  <2>. QED
    BY <2>1, <2>2
<1>. HIDE DEF thoughts, content, one, two, c
<1>9. /\ thoughts # <<>> => one \in SpokenEvents /\ one \in SilentEvents /\ one \in Parsed
      /\ content # <<>> => two \in SpokenEvents /\ two \in LaterEvents /\ two \in Parsed
      /\ Calls \in SUBSET SpokenEvents /\ Calls \in SUBSET SilentEvents
      /\ Calls \in SUBSET LaterEvents /\ Calls \in SUBSET Parsed
  BY <1>4, <1>6, <1>7 DEF SpokenEvents, SilentEvents, LaterEvents
<1>. HIDE DEF Calls, Parsed
<1>10. ASSUME NEW S, thoughts # <<>> => one \in S, content # <<>> => two \in S, Calls \in SUBSET S
       PROVE  a \o b \o c \in Seq(S)
  <2>1. a \in Seq(S) /\ b \in Seq(S)
    BY <1>10
  <2>2. c \in Seq(S)
    BY <1>8, <1>10
  <2>. HIDE DEF a, b
  <2>. QED
    BY <2>1, <2>2
<1>11. chan' \in Seq(SpokenEvents) /\ chan' \in Seq(Parsed)
  BY <1>5, <1>9, <1>10
<1>12. ASSUME content = <<>> PROVE chan' \in Seq(SilentEvents)
  BY <1>5, <1>9, <1>10, <1>12
<1>13. ASSUME thoughts = <<>> PROVE chan' \in Seq(LaterEvents)
  BY <1>5, <1>9, <1>10, <1>13
<1>14. ASSUME content # <<>> PROVE HasType("text", chan')
  <2>1. b = <<two>>
    BY <1>14
  <2>2. a \in Seq(Events) /\ b \in Seq(Events) /\ c \in Seq(Events)
    <3>1. c \in Seq(Events)
      BY <1>8 DEF Calls
    <3>. QED
      BY <1>6, <1>7, <3>1
  <2>. HIDE DEF a, b
  <2>3. /\ a \o b \in Seq(Events) /\ Len(a \o b) = Len(a) + 1 /\ Len(a) \in Nat
        /\ (a \o b)[Len(a) + 1] = two
    BY <2>1, <2>2
  <2>. DEFINE ab == a \o b
  <2>4. Len(a) + 1 \in 1 .. Len(ab) /\ ab[Len(a) + 1] = two /\ ab \in Seq(Events)
    BY <2>3
  <2>. HIDE DEF ab
  <2>5. Len(a) + 1 \in DOMAIN (ab \o c) /\ (ab \o c)[Len(a) + 1] = two
    BY <2>2, <2>4
  <2>6. chan' = ab \o c
    BY <1>5 DEF ab
  <2>. QED
    BY <1>7, <2>5, <2>6 DEF HasType
<1>15. ASSUME thoughts # <<>>
       PROVE  /\ chan' # <<>> /\ Tail(chan') \in Seq(LaterEvents)
              /\ Head(chan').type = "thinking" /\ Head(chan').delta = thoughts
  <2>1. b \in Seq(LaterEvents) /\ c \in Seq(LaterEvents)
    <3>1. c \in Seq(LaterEvents)
      BY <1>8, <1>9
    <3>. QED
      BY <1>9, <3>1
  <2>2. a = <<one>> /\ one \in Events
    BY <1>6, <1>15
  <2>. HIDE DEF a, b
  <2>. DEFINE rest == b \o c
  <2>3. rest \in Seq(LaterEvents)
    BY <2>1
  <2>4. b \in Seq(Events) /\ c \in Seq(Events) /\ rest \in Seq(Events)
    BY <2>1, <2>3 DEF LaterEvents
  <2>5. a \o b \o c = <<one>> \o rest
    <3>1. ASSUME NEW E, NEW x \in Seq(E), NEW y \in Seq(E), NEW z \in Seq(E)
          PROVE  x \o y \o z = x \o (y \o z)
      OBVIOUS
    <3>2. a \in Seq(Events)
      BY <2>2
    <3>. QED
      BY <2>2, <2>4, <3>1, <3>2
  <2>. HIDE DEF rest
  <2>6. ASSUME NEW E, NEW x \in E, NEW y \in Seq(E)
        PROVE  <<x>> \o y # <<>> /\ Head(<<x>> \o y) = x /\ Tail(<<x>> \o y) = y
    OBVIOUS
  <2>7. /\ <<one>> \o rest # <<>> /\ Head(<<one>> \o rest) = one
        /\ Tail(<<one>> \o rest) = rest
    BY <2>2, <2>4, <2>6
  <2>8. chan' = <<one>> \o rest
    BY <1>5, <2>5
  <2>. QED
    BY <1>6, <2>3, <2>7, <2>8
<1>16. \A i \in DOMAIN chan' : chan'[i].type \notin {"done", "error"}
  BY <1>11 DEF Parsed
<1>. QED
  BY <1>3, <1>4, <1>11, <1>12, <1>13, <1>14, <1>15, <1>16 DEF thoughts, content

LEMMA ReadChunkTalks ==
    ASSUME StreamInv, VoiceInv, NEW chunk \in Chunks, ReadChunk(chunk),
           UNCHANGED <<queue, answer>>
    PROVE  TalkInv'
<1>. DEFINE thoughts == Thoughts(chunk.reasoning)
            content == Tokens(chunk.content)
<1>1. UpstreamType /\ ThoughtInv /\ SpeechInv /\ QuietInv
  BY DEF StreamInv, VoiceInv, TalkInv, ReadChunk, Drained
<1>2. /\ chan = <<>> /\ queue = <<>> /\ queue' = <<>> /\ body = "open" /\ body' = "open"
      /\ heard' = heard \o content /\ thought' = thought \o thoughts
      /\ UNCHANGED <<reasoningBuf, hasContent, thinkBuf>>
  BY DEF ReadChunk, Drained, Ready, normalizer
<1>3. /\ chan' \in Seq(SpokenEvents)
      /\ content \in Seq(Speech) /\ content \in Seq(Token)
      /\ content = <<>> => chan' \in Seq(SilentEvents)
      /\ content # <<>> => HasType("text", chan')
      /\ thoughts \in Seq(Token)
      /\ thoughts = <<>> => chan' \in Seq(LaterEvents)
      /\ thoughts # <<>> =>
            /\ chan' # <<>> /\ Tail(chan') \in Seq(LaterEvents)
            /\ Head(chan').type = "thinking"
            /\ Head(chan').delta = thoughts
  BY <1>1, ReadChunkEvents
<1>4. ClientText' = ClientText
  BY DEF ClientText
<1>. HIDE DEF thoughts, content
<1>5. ASSUME NEW E, NEW x \in Seq(E) PROVE x \o <<>> = x
  OBVIOUS
<1>6. ThoughtInv'
  <2>1. thought \in Seq(Token) /\ reasoningBuf = Kept(thought)
    BY <1>1, <1>2 DEF ThoughtInv
  <2>2. thought' \in Seq(Token)
    BY <1>2, <1>3, <2>1
  <2>3. CASE thoughts = <<>>
    <3>1. thought' = thought
      BY <1>2, <1>5, <2>1, <2>3
    <3>2. chan' # <<>> => Tail(chan') \in Seq(LaterEvents)
      BY <1>3, <2>3
    <3>. QED
      BY <1>2, <1>3, <2>1, <2>2, <2>3, <3>1, <3>2 DEF ThoughtInv
  <2>4. CASE thoughts # <<>>
    BY <1>2, <1>3, <2>1, <2>2, <2>4 DEF ThoughtInv
  <2>. QED
    BY <2>3, <2>4
<1>7. SpeechInv'
  <2>1. heard \in Seq(Token) /\ heard' \in Seq(Token)
    BY <1>1, <1>2, <1>3 DEF SpeechInv
  <2>2. <<>> \in Seq(SpokenEvents) /\ <<>> \in Seq(Speech)
    OBVIOUS
  <2>3. CASE heard # <<>>
    <3>1. hasContent /\ ClientText \in Seq(Speech)
      BY <1>1, <1>2, <2>3, NoneHasType DEF SpeechInv
    <3>. QED
      BY <1>1, <1>2, <1>3, <1>4, <2>1, <2>2, <3>1 DEF SpeechInv
  <2>4. CASE heard = <<>>
    <3>1. ClientText = <<>>
      BY <1>1, <1>2, <2>4 DEF QuietInv, Promised
    <3>2. heard' # <<>> => content # <<>>
      BY <1>2, <2>4
    <3>. QED
      BY <1>1, <1>2, <1>3, <1>4, <2>1, <2>2, <3>1, <3>2 DEF SpeechInv
  <2>. QED
    BY <2>3, <2>4
<1>8. QuietInv'
  <2>1. SUFFICES ASSUME heard' = <<>> PROVE QuietInv'
    BY DEF QuietInv
  <2>2. heard = <<>> /\ content = <<>>
    <3>1. heard \in Seq(Token)
      BY <1>1 DEF SpeechInv
    <3>2. ASSUME NEW E, NEW x \in Seq(E), NEW y \in Seq(E), x \o y = <<>>
          PROVE  x = <<>> /\ y = <<>>
      BY <3>2, ConcatProperties
    <3>3. heard \o content = <<>>
      BY <1>2, <2>1
    <3>. QED
      BY <1>3, <3>1, <3>2, <3>3
  <2>3. <<>> \in Seq(SilentEvents)
    OBVIOUS
  <2>4. ~Promised /\ ~Promised'
    BY <1>2 DEF Promised
  <2>. QED
    BY <1>1, <1>2, <1>3, <1>4, <2>2, <2>3, <2>4 DEF QuietInv
<1>. QED
  BY <1>6, <1>7, <1>8 DEF TalkInv

(* [DONE] or an error is read.                                             *)
LEMMA ReadEndTalks ==
    ASSUME StreamInv, VoiceInv, Drained, body = "open", UNCHANGED <<queue, answer>>,
           NEW type \in {"done", "error"}, NEW reason \in Reasons \cup {None},
           chan' = <<End(type, reason)>>, UNCHANGED <<normalizer, history>>
    PROVE  TalkInv'
<1>. DEFINE end == End(type, reason)
<1>1. ThoughtInv /\ SpeechInv /\ QuietInv
  BY DEF VoiceInv, TalkInv, Drained
<1>2. /\ chan = <<>> /\ queue = <<>> /\ queue' = <<>>
      /\ UNCHANGED <<reasoningBuf, hasContent, thinkBuf, heard, thought>>
  BY DEF Drained, Ready, normalizer, history
<1>3. end.type = type
  BY EndEvent
<1>4. end \in Events
  <2>1. <<end>> \in Seq(ParsedEvents)
    BY EndType
  <2>. HIDE DEF end
  <2>. QED
    BY <2>1 DEF ParsedEvents
<1>5. chan' = <<end>> /\ ClientText' = ClientText
  BY DEF ClientText
<1>. HIDE DEF end
<1>6. end \in LaterEvents /\ <<end>> \in Seq(SpokenEvents) /\ <<end>> \in Seq(SilentEvents)
  BY <1>3, <1>4, NoText DEF LaterEvents
<1>7. chan' # <<>> /\ Tail(chan') = <<>> /\ chan' \in Seq(LaterEvents)
      /\ Tail(chan') \in Seq(LaterEvents)
  BY <1>5, <1>6
<1>8. ThoughtInv'
  BY <1>1, <1>2, <1>7 DEF ThoughtInv
<1>9. SpeechInv'
  BY <1>1, <1>2, <1>5, <1>6, NoneHasType DEF SpeechInv
<1>10. ~Promised /\ ~Promised'
  BY <1>7 DEF Promised
<1>11. QuietInv'
  BY <1>1, <1>2, <1>5, <1>6, <1>10 DEF QuietInv
<1>. QED
  BY <1>8, <1>9, <1>11 DEF TalkInv

(* An event that passes the normaliser as it is.                           *)
LEMMA PassedTalks ==
    ASSUME StreamInv, VoiceInv, Taken({"thinking", "toolStart", "toolDelta", "error"}),
           queue' = <<Head(chan)>>,
           UNCHANGED <<body, hasContent, thinkBuf, heard, thought, answer>>
    PROVE  SpeechInv' /\ QuietInv'
<1>1. EndInv /\ ThoughtInv /\ SpeechInv /\ QuietInv
  BY DEF VoiceInv, TalkInv, Taken
<1>2. /\ chan # <<>> /\ chan' = Tail(chan) /\ chan \in Seq(ParsedEvents)
      /\ Head(chan).type \in {"thinking", "toolStart", "toolDelta", "error"}
  BY DEF Taken, StreamInv, UpstreamType
<1>3. /\ Head(chan) \in ParsedEvents /\ Head(chan) = chan[1] /\ 1 \in DOMAIN chan
  BY <1>2, TailOf
<1>4. Head(chan) \in Events
  BY <1>3 DEF ParsedEvents
<1>5. <<Head(chan)>> \in Seq(SpokenEvents) /\ <<Head(chan)>> \in Seq(SilentEvents)
  BY <1>2, <1>4, NoText
<1>6. body \in {"open", "cut"}
  BY <1>1, <1>2, <1>3 DEF EndInv
<1>7. ~Promised /\ ~Promised'
  BY <1>6 DEF Promised
<1>8. HasType("text", chan') <=> HasType("text", chan)
  BY <1>2, TailHasType
<1>9. chan' \in Seq(SpokenEvents)
  BY <1>1, <1>2, TailOf DEF SpeechInv
<1>10. heard = <<>> => chan' \in Seq(SilentEvents)
  BY <1>1, <1>2, TailOf DEF QuietInv
<1>11. ClientText' = ClientText
  BY DEF ClientText
<1>12. SpeechInv'
  BY <1>1, <1>5, <1>8, <1>9, <1>11 DEF SpeechInv
<1>13. QuietInv'
  BY <1>1, <1>5, <1>7, <1>10, <1>11 DEF QuietInv
<1>. QED
  BY <1>12, <1>13

(* Reasoning that is not at the head of the channel has been taken.        *)
LEMMA LaterThoughts ==
    ASSUME ThoughtInv, chan # <<>>, Head(chan).type # "thinking", chan' = Tail(chan),
           UNCHANGED <<reasoningBuf, thought>>
    PROVE  ThoughtInv' /\ reasoningBuf = Kept(thought)
<1>1. /\ chan \in Seq(LaterEvents) /\ reasoningBuf = Kept(thought)
      /\ Tail(chan) \in Seq(LaterEvents)
  BY DEF ThoughtInv
<1>2. chan' # <<>> => Tail(chan') \in Seq(LaterEvents)
  BY <1>1
<1>. QED
  BY <1>1, <1>2 DEF ThoughtInv

LEMMA TakeThinkingTalks ==
    ASSUME StreamInv, VoiceInv, TakeThinking, UNCHANGED answer
    PROVE  TalkInv'
<1>1. /\ Taken({"thinking"}) /\ ThoughtInv /\ queue' = <<Head(chan)>>
      /\ UNCHANGED <<body, hasContent, thinkBuf, heard, thought>>
  BY DEF TakeThinking, Taken, VoiceInv, TalkInv, history
<1>2. SpeechInv' /\ QuietInv'
  <2>1. Taken({"thinking", "toolStart", "toolDelta", "error"})
    BY <1>1 DEF Taken
  <2>. QED
    BY <1>1, <2>1, PassedTalks
<1>3. /\ chan # <<>> /\ chan' = Tail(chan) /\ Head(chan).type = "thinking"
      /\ chan \in Seq(ParsedEvents) /\ Len(Head(chan).delta) <= ReasoningCap
      /\ reasoningBuf' = Capped(reasoningBuf, Head(chan).delta)
  BY DEF TakeThinking, Taken, StreamInv, UpstreamType
<1>4. Head(chan).delta \in Seq(Token)
  <2>1. Head(chan) \in ParsedEvents
    BY <1>3, TailOf
  <2>. QED
    BY <2>1 DEF ParsedEvents, Events, EventRecord
<1>5. chan \notin Seq(LaterEvents)
  <2>1. Head(chan) \notin LaterEvents
    BY <1>3 DEF LaterEvents
  <2>. QED
    BY <1>3, <2>1, TailOf
<1>6. PICK past \in Seq(Token) : /\ thought = past \o Head(chan).delta
                                 /\ reasoningBuf = Kept(past)
  BY <1>1, <1>5 DEF ThoughtInv
<1>7. reasoningBuf' = Kept(thought)
  BY <1>3, <1>4, <1>6, KeptCapped
<1>8. chan' \in Seq(LaterEvents)
  BY <1>1, <1>3 DEF ThoughtInv
<1>9. chan' # <<>> => Tail(chan') \in Seq(LaterEvents)
  BY <1>8
<1>10. ThoughtInv'
  BY <1>1, <1>7, <1>8, <1>9 DEF ThoughtInv
<1>. QED
  BY <1>2, <1>10 DEF TalkInv

LEMMA TakeTextTalks ==
    ASSUME StreamInv, VoiceInv, TakeText, UNCHANGED answer
    PROVE  TalkInv'
<1>. DEFINE delta == Head(chan).delta
            raw == thinkBuf \o delta
<1>1. /\ chan # <<>> /\ chan' = Tail(chan) /\ chan \in Seq(ParsedEvents)
      /\ Head(chan).type = "text" /\ ThoughtInv /\ SpeechInv /\ QuietInv
  BY DEF TakeText, Taken, VoiceInv, TalkInv, StreamInv, UpstreamType
<1>2. /\ thinkBuf' = IF KeepsBuffering(raw) THEN raw ELSE <<>>
      /\ queue' = TextOut(raw) /\ hasContent'
      /\ UNCHANGED <<reasoningBuf, heard, thought>>
  BY DEF TakeText
<1>3. ClientText' = ClientText
  BY DEF ClientText
<1>4. Head(chan) \in ParsedEvents /\ Head(chan) = chan[1] /\ 1 \in DOMAIN chan
  BY <1>1, TailOf
<1>5. delta \in Seq(Token) /\ OneChunk(delta)
  BY <1>1, <1>4 DEF ParsedEvents, Events, EventRecord
<1>6. delta \in Seq(Speech)
  <2>1. Head(chan) \in SpokenEvents
    BY <1>1, TailOf DEF SpeechInv
  <2>. QED
    BY <1>1, <2>1 DEF SpokenEvents
<1>7. thinkBuf \in Seq(Speech) /\ Len(thinkBuf) <= BufferCap
  BY <1>1 DEF SpeechInv, StreamInv, UpstreamType
<1>8. heard # <<>>
  <2>1. SUFFICES ASSUME heard = <<>> PROVE FALSE
    OBVIOUS
  <2>2. chan \in Seq(SilentEvents)
    BY <1>1, <2>1 DEF QuietInv
  <2>3. Head(chan) \in SilentEvents
    BY <1>1, <2>2, TailOf
  <2>. QED
    BY <1>1, <2>3 DEF SilentEvents
<1>. HIDE DEF delta
<1>9. PICK chunk \in Chunks : Len(delta) = Len(chunk.content)
  BY <1>5 DEF OneChunk
<1>10. raw \in Seq(Speech) /\ Len(raw) <= BufferCap + Len(chunk.content)
  <2>1. Len(thinkBuf) \in Nat /\ Len(delta) \in Nat /\ BufferCap \in Nat
    BY <1>6, <1>7, UpstreamAssumption
  <2>2. Len(raw) = Len(thinkBuf) + Len(delta) /\ raw \in Seq(Speech)
    BY <1>6, <1>7
  <2>. HIDE DEF raw
  <2>. QED
    BY <1>7, <1>9, <2>1, <2>2
<1>. HIDE DEF raw
<1>11. queue' \in Seq(SpokenEvents)
  BY <1>2, <1>10, TextOutSpoken
<1>12. ThoughtInv'
  BY <1>1, <1>2, LaterThoughts
<1>13. thinkBuf' \in Seq(Speech)
  <2>1. <<>> \in Seq(Speech)
    OBVIOUS
  <2>. QED
    BY <1>2, <1>10, <2>1
<1>14. chan' \in Seq(SpokenEvents)
  BY <1>1, TailOf DEF SpeechInv
<1>15. SpeechInv'
  BY <1>1, <1>2, <1>3, <1>8, <1>11, <1>13, <1>14 DEF SpeechInv
<1>16. QuietInv'
  BY <1>2, <1>8 DEF QuietInv
<1>. QED
  BY <1>12, <1>15, <1>16 DEF TalkInv

(***************************************************************************)
(* finalize speaks the reasoning that is kept, when there was no text.     *)
(***************************************************************************)
LEMMA TakeDoneTalks ==
    ASSUME StreamInv, VoiceInv, TakeDone, UNCHANGED answer
    PROVE  TalkInv'
<1>. DEFINE end == Head(chan)
            parsed == ParsedCalls(thinkBuf)
            inline == InlineEvents(parsed.calls)
            promoted == IF hasContent THEN <<>> ELSE reasoningBuf
<1>1. /\ chan # <<>> /\ chan' = Tail(chan) /\ chan \in Seq(ParsedEvents)
      /\ end.type = "done" /\ EndInv /\ ThoughtInv /\ SpeechInv /\ QuietInv
  BY DEF TakeDone, Taken, VoiceInv, TalkInv, StreamInv, UpstreamType
<1>2. /\ queue' = TextEvent(parsed.cleaned) \o inline \o TextEvent(promoted) \o <<end>>
      /\ thinkBuf' = <<>>
      /\ UNCHANGED <<body, reasoningBuf, hasContent, heard, thought>>
  BY DEF TakeDone, FinalEvents, history
<1>3. end \in ParsedEvents /\ end = chan[1] /\ 1 \in DOMAIN chan
  BY <1>1, TailOf
<1>4. end \in Events
  BY <1>3 DEF ParsedEvents
<1>5. HasType("done", chan)
  BY <1>1, <1>3 DEF HasType
<1>6. chan' = <<>> /\ body = "done"
  BY <1>1, <1>3, <1>5 DEF EndInv
<1>7. ~Promised /\ Promised'
  BY <1>1, <1>2, <1>6 DEF Promised
<1>8. ClientText' = ClientText
  BY DEF ClientText
<1>9. ThoughtInv' /\ reasoningBuf = Kept(thought)
  BY <1>1, <1>2, LaterThoughts
<1>10. /\ thinkBuf \in Seq(Speech) /\ thinkBuf \in Seq(Token)
       /\ reasoningBuf \in Seq(Token) /\ Len(thinkBuf) <= BufferCap + 0
  BY <1>1, UpstreamAssumption DEF SpeechInv, StreamInv, UpstreamType
<1>11. /\ parsed.cleaned \in Seq(Speech) /\ parsed.cleaned \in Seq(Token)
       /\ parsed.calls \in Seq(Token) /\ 2 * Len(parsed.calls) <= Len(thinkBuf)
  BY <1>10, SpeechIsToken, ParsedCallsOf, ParsedCallsType
<1>12. inline \in Seq(SpokenEvents) /\ inline \in Seq(SilentEvents)
  BY <1>10, InlineSilent
<1>13. <<end>> \in Seq(SpokenEvents) /\ <<end>> \in Seq(SilentEvents)
  BY <1>1, <1>4, NoText
<1>14. <<>> \in Seq(Speech) /\ <<>> \in Seq(SpokenEvents) /\ <<>> \in Seq(SilentEvents)
  OBVIOUS
<1>15. SpeechInv'
  <2>1. CASE heard # <<>>
    <3>1. ~HasType("text", chan)
      <4>1. end.type # "text" /\ Tail(chan) = <<>>
        BY <1>1, <1>6
      <4>. QED
        BY <1>1, <4>1, TailHasType, NoneHasType
    <3>2. hasContent /\ ClientText \in Seq(Speech)
      BY <1>1, <2>1, <3>1 DEF SpeechInv
    <3>3. TextEvent(promoted) \in Seq(SpokenEvents)
      BY <1>14, <3>2 DEF TextEvent
    <3>4. TextEvent(parsed.cleaned) \in Seq(SpokenEvents)
      BY <1>11, TextEventSpoken
    <3>. HIDE DEF end, parsed, inline, promoted
    <3>5. queue' \in Seq(SpokenEvents)
      BY <1>2, <1>12, <1>13, <3>3, <3>4
    <3>. QED
      BY <1>1, <1>2, <1>6, <1>8, <1>14, <3>2, <3>5 DEF SpeechInv
  <2>2. CASE heard = <<>>
    BY <1>1, <1>2, <1>6, <1>14, <2>2 DEF SpeechInv
  <2>. QED
    BY <2>1, <2>2
<1>16. QuietInv'
  <2>1. SUFFICES ASSUME heard = <<>> PROVE QuietInv'
    BY <1>2 DEF QuietInv
  <2>2. ~hasContent /\ thinkBuf = <<>> /\ ClientText = <<>>
    BY <1>1, <1>7, <2>1 DEF QuietInv
  <2>3. parsed.cleaned = <<>> /\ parsed.calls = <<>>
    <3>1. {} \in SUBSET Token /\ <<>> \in Seq({})
      OBVIOUS
    <3>2. parsed.cleaned \in Seq({})
      BY <2>2, <3>1, ParsedCallsOf
    <3>3. Len(parsed.calls) = 0
      BY <1>11, <2>2
    <3>. HIDE DEF parsed
    <3>. QED
      BY <1>11, <3>2, <3>3
  <2>4. TextEvent(parsed.cleaned) = <<>> /\ inline = <<>>
    BY <2>3 DEF TextEvent, InlineEvents
  <2>5. promoted = Kept(thought) /\ Kept(thought) \in Seq(Token)
    BY <1>9, <1>10, <2>2
  <2>. HIDE DEF inline, promoted, parsed
  <2>6. CASE Kept(thought) = <<>>
    <3>1. TextEvent(promoted) = <<>>
      BY <2>5, <2>6 DEF TextEvent
    <3>. HIDE DEF end
    <3>2. <<>> \o <<>> \o <<>> \o <<end>> = <<end>>
      OBVIOUS
    <3>3. queue' \in Seq(SilentEvents)
      BY <1>2, <1>13, <2>4, <3>1, <3>2
    <3>. QED
      BY <1>2, <1>6, <1>7, <1>8, <1>14, <2>2, <2>6, <3>3 DEF QuietInv
  <2>7. CASE Kept(thought) # <<>>
    <3>. DEFINE spoken == Delta("text", Kept(thought))
    <3>1. TextEvent(promoted) = <<spoken>>
      BY <2>5, <2>7 DEF TextEvent
    <3>2. spoken.type = "text" /\ spoken.delta = Kept(thought)
      BY DEF Delta, CallEvent
    <3>. HIDE DEF end, spoken
    <3>3. <<>> \o <<>> \o <<spoken>> \o <<end>> = <<spoken>> \o <<end>>
      <4>1. <<>> \o <<>> = <<>> /\ <<>> \o <<spoken>> = <<spoken>>
        OBVIOUS
      <4>. QED
        BY <4>1, Zenon
    <3>4. queue' = <<spoken>> \o <<end>>
      BY <1>2, <2>4, <3>1, <3>3
    <3>5. /\ <<spoken>> \o <<end>> # <<>> /\ Head(<<spoken>> \o <<end>>) = spoken
          /\ Tail(<<spoken>> \o <<end>>) = <<end>>
      <4>1. ASSUME NEW E, NEW x \in E, NEW y \in Seq(E)
            PROVE  <<x>> \o y # <<>> /\ Head(<<x>> \o y) = x /\ Tail(<<x>> \o y) = y
        OBVIOUS
      <4>2. spoken \in {spoken, end} /\ <<end>> \in Seq({spoken, end})
        OBVIOUS
      <4>. QED
        BY <4>1, <4>2
    <3>6. /\ queue' # <<>> /\ Event'.type = "text" /\ Event'.delta = Kept(thought)
          /\ Tail(queue') \in Seq(SilentEvents)
      BY <1>13, <3>2, <3>4, <3>5 DEF Event
    <3>. QED
      BY <1>2, <1>6, <1>7, <1>8, <1>14, <2>2, <3>6 DEF QuietInv
  <2>. QED
    BY <2>6, <2>7
<1>. QED
  BY <1>9, <1>15, <1>16 DEF TalkInv

LEMMA UpstreamTalks ==
    ASSUME StreamInv, VoiceInv, Upstream, UNCHANGED answer, ~crashed'
    PROVE  TalkInv'
<1>1. ASSUME NEW chunk \in Chunks, ReadChunk(chunk), UNCHANGED <<queue, closing>>
      PROVE  TalkInv'
  BY <1>1, ReadChunkTalks
<1>2. ASSUME NEW reason \in Reasons, ReadDone(reason), UNCHANGED <<queue, closing>>
      PROVE  TalkInv'
  BY <1>2, ReadEndTalks DEF ReadDone
<1>3. CASE ReadError /\ UNCHANGED <<queue, closing>>
  BY <1>3, ReadEndTalks DEF ReadError
<1>4. CASE BodyEnds /\ UNCHANGED <<queue, closing>>
  <2>1. /\ TalkInv /\ ClientText' = ClientText
        /\ UNCHANGED <<chan, queue, thought, reasoningBuf, heard, thinkBuf, hasContent>>
    BY <1>4 DEF BodyEnds, Drained, VoiceInv, ClientText, normalizer, history
  <2>2. Promised' = Promised
    BY <1>4 DEF BodyEnds, Promised
  <2>. QED
    BY <2>1, <2>2, TalkSame
<1>5. CASE TakeThinking
  BY <1>5, TakeThinkingTalks
<1>6. CASE TakeHugeThinking \/ TakeEndlessText
  BY <1>6 DEF TakeHugeThinking, TakeEndlessText
<1>7. CASE TakeText
  BY <1>7, TakeTextTalks
<1>8. CASE TakeCall \/ TakeError
  <2>1. /\ Taken({"thinking", "toolStart", "toolDelta", "error"})
        /\ queue' = <<Head(chan)>>
        /\ UNCHANGED <<body, reasoningBuf, hasContent, thinkBuf, heard, thought>>
    BY <1>8 DEF TakeCall, TakeError, Taken, normalizer, history
  <2>2. /\ ThoughtInv /\ chan # <<>> /\ Head(chan).type # "thinking" /\ chan' = Tail(chan)
    BY <1>8 DEF TakeCall, TakeError, Taken, VoiceInv, TalkInv
  <2>. QED
    BY <2>1, <2>2, PassedTalks, LaterThoughts DEF TalkInv
<1>9. CASE TakeDone
  BY <1>9, TakeDoneTalks
<1>10. CASE CloseStream
  <2>1. /\ TalkInv /\ ClientText' = ClientText /\ body' = body
        /\ UNCHANGED <<chan, queue, thought, reasoningBuf, heard, thinkBuf, hasContent>>
    BY <1>10 DEF CloseStream, Drained, VoiceInv, ClientText, upstream, parser, normalizer,
                 history
  <2>2. Promised' = Promised
    BY <2>1 DEF Promised
  <2>. QED
    BY <2>1, <2>2, TalkSame
<1>. QED
  BY <1>1, <1>2, <1>3, <1>4, <1>5, <1>6, <1>7, <1>8, <1>9, <1>10 DEF Upstream, Read, Take

LEMMA UpstreamEnds ==
    ASSUME StreamInv, EndInv, Upstream
    PROVE  EndInv'
<1>1. chan \in Seq(ParsedEvents) /\ closing = None
  BY UpstreamWorks DEF StreamInv, UpstreamType
<1>2. ASSUME NEW chunk \in Chunks, ReadChunk(chunk), UNCHANGED <<queue, closing>>
      PROVE  EndInv'
  <2>1. \A i \in DOMAIN chan' : chan'[i].type \notin {"done", "error"}
    BY <1>2, ReadChunkEvents DEF StreamInv
  <2>2. body' = "open" /\ UNCHANGED <<crashed, closing>>
    BY <1>2 DEF ReadChunk
  <2>. QED
    BY <1>1, <2>1, <2>2 DEF EndInv, HasType
<1>3. ASSUME NEW type \in {"done", "error"}, NEW reason, chan' = <<End(type, reason)>>,
             body' = IF type = "done" THEN "done" ELSE "cut", UNCHANGED <<crashed, closing>>
      PROVE  EndInv'
  <2>1. End(type, reason).type = type
    BY EndEvent
  <2>. DEFINE end == End(type, reason)
  <2>. HIDE DEF end
  <2>2. chan' = <<end>> /\ end.type = type
    BY <1>3, <2>1 DEF end
  <2>3. DOMAIN chan' = {1} /\ chan'[1] = end /\ Tail(chan') = <<>>
    BY <2>2
  <2>. QED
    BY <1>1, <1>3, <2>2, <2>3 DEF EndInv
<1>4. ASSUME NEW reason \in Reasons, ReadDone(reason), UNCHANGED <<queue, closing>>
      PROVE  EndInv'
  BY <1>3, <1>4 DEF ReadDone
<1>5. CASE ReadError /\ UNCHANGED <<queue, closing>>
  BY <1>3, <1>5 DEF ReadError
<1>6. CASE BodyEnds /\ UNCHANGED <<queue, closing>>
  <2>1. chan' = <<>> /\ UNCHANGED <<crashed, closing>>
    BY <1>6 DEF BodyEnds, Drained
  <2>. QED
    BY <1>1, <2>1, NoneHasType DEF EndInv
<1>7. CASE Take
  <2>1. /\ chan # <<>> /\ chan' = Tail(chan) /\ body' = body /\ ~crashed
        /\ crashed' => closing' = None
    BY <1>1, <1>7 DEF Take, TakeThinking, TakeHugeThinking, TakeText, TakeEndlessText, TakeCall,
                      TakeDone, TakeError, Taken
  <2>2. \A i \in DOMAIN Tail(chan) : i + 1 \in DOMAIN chan /\ Tail(chan)[i] = chan[i + 1]
    BY <1>1, <2>1, TailOf
  <2>3. ASSUME NEW i \in DOMAIN chan'
        PROVE  body' = CASE chan'[i].type = "done" -> "done"
                         [] chan'[i].type = "error" -> "cut"
                         [] OTHER -> "open"
    <3>1. i + 1 \in DOMAIN chan /\ chan'[i] = chan[i + 1]
      BY <2>1, <2>2
    <3>. QED
      BY <2>1, <3>1 DEF EndInv
  <2>4. ~HasType("done", chan')
    <3>1. HasType("done", chan') => HasType("done", chan) /\ chan' # <<>>
      BY <1>1, <2>1, TailHasType, NoneHasType
    <3>. QED
      BY <2>1, <3>1 DEF EndInv
  <2>. QED
    BY <2>1, <2>3, <2>4 DEF EndInv
<1>8. CASE CloseStream
  <2>1. UNCHANGED <<body, chan, crashed>> /\ ~crashed
    BY <1>8 DEF CloseStream, Drained, upstream, parser
  <2>. QED
    BY <2>1 DEF EndInv
<1>. QED
  BY <1>2, <1>4, <1>5, <1>6, <1>7, <1>8 DEF Upstream, Read

-----------------------------------------------------------------------------
(* What the emitters' steps do to it, and the theorem.                     *)

LEMMA EmittingKeepsClosing ==
    ASSUME Emitting
    PROVE  closing' = closing
<1>1. CASE Claude!Step
  BY <1>1 DEF Claude!Step, Claude!Emit, Claude!Done, Claude!StartMessage, Claude!OpenThinking,
              Claude!ThinkingDelta, Claude!OpenText, Claude!TextDelta, Claude!HoldCall,
              Claude!HoldArguments, Claude!PassEnd, Claude!CloseThinking, Claude!CloseText,
              Claude!MessageStop, Claude!OpenCall, Claude!CallArguments, Claude!CloseCall
<1>2. CASE Codex!Step
  BY <1>2 DEF Codex!Step, Codex!Emit, Codex!Done, Codex!StartResponse, Codex!AddReasoning,
              Codex!ReasoningDelta, Codex!AddText, Codex!OutputTextDelta, Codex!AddCall,
              Codex!FirstArguments, Codex!RepeatedStart, Codex!ArgumentsDelta, Codex!PassEnd,
              Codex!LogDiscussion, Codex!ReasoningDone, Codex!TextDone,
              Codex!ResponseCompleted, Codex!CallDone
<1>3. CASE Gemini!Step
  BY <1>3 DEF Gemini!Step, Gemini!Chunk, Gemini!HoldCall, Gemini!PassEnd, Gemini!FlushCalls,
              Gemini!LastChunk
<1>. QED
  BY <1>1, <1>2, <1>3 DEF Emitting

LEMMA EmittingTalks ==
    ASSUME StreamInv, TalkInv, Voices, UNCHANGED upstream
    PROVE  TalkInv'
<1>1. /\ UNCHANGED <<body, chan, reasoningBuf, hasContent, thinkBuf, heard, thought>>
      /\ ThoughtInv /\ SpeechInv /\ QuietInv /\ queue \in Seq(Events)
  BY DEF upstream, parser, normalizer, history, TalkInv, StreamInv, UpstreamType
<1>2. Promised' = Promised
  BY <1>1 DEF Promised
<1>3. CASE ClientText' = ClientText /\ UNCHANGED queue
  BY <1>1, <1>2, <1>3, TalkSame
<1>4. CASE Ready /\ Consume /\ ~(ClientText' = ClientText /\ UNCHANGED queue)
  <2>1. queue # <<>> /\ queue' = Tail(queue) /\ Event = Head(queue)
    BY <1>4 DEF Ready, Consume, Event
  <2>2. \/ Event.type # "text" /\ ClientText' = ClientText
        \/ Event.type = "text" /\ ClientText' = ClientText \o Event.delta
    BY <1>4 DEF Voices
  <2>3. SpeechInv'
    <3>1. CASE heard # <<>>
      <4>1. Event \in SpokenEvents /\ queue' \in Seq(SpokenEvents)
        BY <1>1, <2>1, <3>1, TailOf DEF SpeechInv
      <4>2. Event.type = "text" => Event.delta \in Seq(Speech)
        BY <4>1 DEF SpokenEvents
      <4>3. ClientText \in Seq(Speech)
        BY <1>1, <3>1 DEF SpeechInv
      <4>4. ClientText' \in Seq(Speech)
        <5>1. ASSUME NEW x \in Seq(Speech), NEW y \in Seq(Speech) PROVE x \o y \in Seq(Speech)
          OBVIOUS
        <5>. QED
          BY <2>2, <4>2, <4>3, <5>1
      <4>. QED
        BY <1>1, <4>1, <4>4 DEF SpeechInv
    <3>2. CASE heard = <<>>
      BY <1>1, <3>2 DEF SpeechInv
    <3>. QED
      BY <3>1, <3>2
  <2>4. QuietInv'
    <3>1. SUFFICES ASSUME heard = <<>> PROVE QuietInv'
      BY <1>1 DEF QuietInv
    <3>2. ASSUME queue \in Seq(SilentEvents)
          PROVE  queue' \in Seq(SilentEvents) /\ ClientText' = ClientText
      <4>1. Event \in SilentEvents /\ queue' \in Seq(SilentEvents)
        BY <2>1, <3>2, TailOf
      <4>. QED
        BY <2>2, <4>1 DEF SilentEvents
    <3>3. CASE ~Promised
      BY <1>1, <1>2, <3>1, <3>2, <3>3 DEF QuietInv
    <3>4. CASE Promised
      <4>1. CASE ClientText = Kept(thought) /\ queue \in Seq(SilentEvents)
        BY <1>1, <1>2, <3>1, <3>2, <3>4, <4>1 DEF QuietInv
      <4>2. CASE /\ ClientText = <<>> /\ queue # <<>>
                 /\ Event.type = "text" /\ Event.delta = Kept(thought)
                 /\ Tail(queue) \in Seq(SilentEvents)
        <5>1. Kept(thought) \in Seq(Token)
          BY <1>1, KeptIs DEF ThoughtInv
        <5>2. ClientText' = <<>> \o Kept(thought)
          BY <2>2, <4>2
        <5>3. <<>> \o Kept(thought) = Kept(thought)
          BY <5>1
        <5>4. ClientText' = Kept(thought)' /\ queue' \in Seq(SilentEvents)
          BY <1>1, <2>1, <4>2, <5>2, <5>3
        <5>. QED
          BY <1>1, <1>2, <3>1, <3>4, <5>4 DEF QuietInv
      <4>. QED
        BY <1>1, <3>1, <3>4, <4>1, <4>2 DEF QuietInv
    <3>. QED
      BY <3>3, <3>4
  <2>5. ThoughtInv'
    BY <1>1 DEF ThoughtInv
  <2>. QED
    BY <2>3, <2>4, <2>5 DEF TalkInv
<1>. QED
  BY <1>3, <1>4 DEF Voices

LEMMA VoiceInit == Init => VoiceInv
<1>. SUFFICES ASSUME Init PROVE VoiceInv
  OBVIOUS
<1>1. /\ body = "open" /\ chan = <<>> /\ crashed = FALSE /\ reasoningBuf = <<>>
      /\ hasContent = FALSE /\ thinkBuf = <<>> /\ heard = <<>> /\ thought = <<>>
      /\ queue = <<>> /\ closing = None /\ textIdx = None /\ answer.items = <<>>
  BY DEF Init, InitUpstream, InitResponse
<1>2. ClientText = <<>>
  BY <1>1 DEF ClientText, FlattenSeq
<1>3. Kept(<<>>) = <<>>
  <2>1. <<>> \in Seq(Token) /\ Len(<<>>) = 0
    OBVIOUS
  <2>2. /\ Kept(<<>>) \in Seq(Token)
        /\ Len(Kept(<<>>)) = IF Len(<<>>) > ReasoningCap THEN ReasoningCap ELSE Len(<<>>)
    BY <2>1, KeptIs, Zenon
  <2>. DEFINE kept == Kept(<<>>)
  <2>3. ReasoningCap \in Nat
    BY UpstreamAssumption
  <2>. HIDE DEF kept
  <2>4. Len(kept) = 0
    BY <2>1, <2>2, <2>3 DEF kept
  <2>5. kept \in Seq(Token)
    BY <2>2 DEF kept
  <2>6. kept = <<>>
    BY <2>4, <2>5
  <2>. QED
    BY <2>6 DEF kept
<1>4. /\ <<>> \in Seq(Token) /\ <<>> \in Seq(LaterEvents) /\ <<>> \in Seq(Speech)
      /\ <<>> \in Seq(SpokenEvents) /\ <<>> \in Seq(SilentEvents)
  OBVIOUS
<1>5. LastInv
  BY <1>1 DEF LastInv
<1>6. EndInv
  BY <1>1, NoneHasType DEF EndInv
<1>7. ThoughtInv
  BY <1>1, <1>3, <1>4 DEF ThoughtInv
<1>8. SpeechInv
  BY <1>1, <1>4 DEF SpeechInv
<1>9. ~Promised
  BY <1>1 DEF Promised
<1>10. QuietInv
  BY <1>1, <1>2, <1>4, <1>9 DEF QuietInv
<1>. QED
  BY <1>5, <1>6, <1>7, <1>8, <1>10 DEF VoiceInv, TalkInv

LEMMA VoiceStep ==
    ASSUME StreamInv, StreamInv', VoiceInv, [Next]_vars
    PROVE  VoiceInv'
<1>1. CASE UNCHANGED vars
  <2>1. /\ UNCHANGED <<body, chan, reasoningBuf, hasContent, thinkBuf, crashed, heard, thought,
                       queue, closing, textIdx, answer>>
    BY <1>1 DEF vars, upstream, parser, normalizer, history, emitter
  <2>2. ClientText' = ClientText /\ Promised' = Promised
    BY <2>1 DEF ClientText, Promised
  <2>3. LastInv'
    BY <2>1 DEF VoiceInv, LastInv, IsText
  <2>4. EndInv'
    BY <2>1 DEF VoiceInv, EndInv, HasType
  <2>. QED
    BY <2>1, <2>2, <2>3, <2>4, TalkSame DEF VoiceInv
<1>2. CASE Upstream /\ UNCHANGED <<agent, answer, emitter, logged>>
  <2>1. LastInv'
    BY <1>2 DEF VoiceInv, LastInv, IsText, emitter
  <2>2. EndInv'
    BY <1>2, UpstreamEnds DEF VoiceInv
  <2>3. ~crashed' => TalkInv'
    BY <1>2, UpstreamTalks
  <2>. QED
    BY <2>1, <2>2, <2>3 DEF VoiceInv
<1>3. CASE Emitting /\ UNCHANGED <<agent, upstream>>
  <2>1. Voices /\ LastInv'
    BY <1>3, ClaudeVoices, CodexVoices, GeminiVoices DEF VoiceInv, Emitting
  <2>2. UNCHANGED <<body, chan, crashed, closing>>
    BY <1>3, EmittingKeepsClosing DEF upstream, parser
  <2>3. EndInv'
    BY <2>2 DEF VoiceInv, EndInv, HasType
  <2>4. ~crashed' => TalkInv'
    BY <1>3, <2>1, <2>2, EmittingTalks DEF VoiceInv
  <2>. QED
    BY <2>1, <2>3, <2>4 DEF VoiceInv
<1>. QED
  BY <1>1, <1>2, <1>3 DEF Next

(***************************************************************************)
(* StreamNormalizer.finalize speaks for an upstream that sent reasoning    *)
(* and no text: the client of an answer that ended with [DONE] has read    *)
(* the end of the reasoning that fits into the buffer, as text and once.   *)
(* When there was text, no reasoning has become text.                      *)
(***************************************************************************)
THEOREM SilenceBroken == Spec => []SilentAnswerSpeaks
<1>1. Init => VoiceInv
  BY VoiceInit
<1>2. StreamInv /\ StreamInv' /\ VoiceInv /\ [Next]_vars => VoiceInv'
  BY VoiceStep
<1>3. StreamInv /\ VoiceInv => SilentAnswerSpeaks
  BY VoiceIsRight
<1>. QED
  BY <1>1, <1>2, <1>3, StreamInvariant, PTL DEF Spec

-----------------------------------------------------------------------------
(* The calls an upstream sends as such.                                    *)
(* The call events of a sequence, and those on their way to the emitter.   *)
CallTypes == {"toolStart", "toolDelta"}

CallsIn(events) == {e \in {events[i] : i \in DOMAIN events} : e.type \in CallTypes}

Coming == CallsIn(chan) \cup CallsIn(queue)

(* At most one is: the last of its line, and then the only one in queue.   *)
LoneInv ==
    /\ \A i \in DOMAIN chan : chan[i].type \in CallTypes => i = Len(chan)
    /\ CallsIn(queue) # {} => Len(queue) = 1 /\ chan = <<>>
    /\ closing # None => Coming = {}

(* No text, be it on its way or buffered, closes a call.                   *)
UnclosedInv ==
    /\ ~Has("callClose", thinkBuf)
    /\ \A i \in DOMAIN chan : chan[i].type = "text" => ~Has("callClose", chan[i].delta)

(* What n fragments of a native call make up.                              *)
Fragments(c, n) == [j \in 1 .. n |-> Native(c)]

(* The items the client has read of a native call.                         *)
IsOf(c, i) == answer.items[i].kind = "call" /\ answer.items[i].id = Native(c)

NoItemOf(c) == \A i \in DOMAIN answer.items : ~IsOf(c, i)

OnlyItemOf(c, i, content) ==
    /\ i \in DOMAIN answer.items /\ IsOf(c, i) /\ answer.items[i].content = content
    /\ \A j \in DOMAIN answer.items : IsOf(c, j) => j = i

(* What the client of an agent may find of a call's arguments.             *)
Delivered(who, args) ==
    {content \in {args, <<>>} :
        (who = "codex" \/ args \in Objects \cap Braced) => content = args}

(* The emitter has handled n fragments of a call, and the client has read  *)
(* of it what it has to by now.                                            *)
Told(c, n) ==
    LET acc == calls[c]
    IN  /\ acc.args = Fragments(c, n) /\ acc.owed = <<>>
        /\ acc.state = "absent" => n = 0 /\ acc.id = None
        /\ acc.state # "absent" => acc.id = Native(c)
        /\ acc.state = "held" => agent # "codex"
        /\ acc.state \in {"absent", "held"} => NoItemOf(c)
        /\ acc.state \in {"open", "filled"} =>
               OnlyItemOf(c, acc.item + 1,
                          IF agent = "claude" /\ acc.state = "open" THEN <<>> ELSE acc.args)
        /\ acc.state = "sent" =>
               /\ Finishing
               /\ \E i \in DOMAIN answer.items, content \in Delivered(agent, acc.args) :
                     /\ OnlyItemOf(c, i, content)
                     /\ agent = "codex" => answer.items[i].whole = acc.args

(* CodexEmitter has announced a call and not sent its first fragments.     *)
HalfTold(e) ==
    LET acc == calls[e.index]
    IN  /\ agent = "codex" /\ queue # <<>> /\ Event = e /\ e.type = "toolStart"
        /\ e.delta # <<>> /\ acc.args = e.delta /\ acc.owed = e.delta
        /\ acc.id = Native(e.index) /\ acc.state = "open"
        /\ OnlyItemOf(e.index, acc.item + 1, <<>>)
        /\ asked[e.index] = Len(e.delta)

(* Of a call that no event is on its way for, all was handled.             *)
Settled(c) ==
    /\ Told(c, asked[c])
    /\ c \in seenIndexes <=> calls[c].state # "absent"

(* An event on its way carries what is missing.                            *)
Missing(e) ==
    /\ e.index \in seenIndexes
    /\ e.delta = Fragments(e.index, Len(e.delta))
    /\ e.type = "toolStart" => e.id = Native(e.index)
    /\ e.type = "toolDelta" => e.id = None /\ e.delta # <<>>
    /\ \/ /\ Len(e.delta) <= asked[e.index]
          /\ Told(e.index, asked[e.index] - Len(e.delta))
          /\ e.type = "toolStart" <=> calls[e.index].state = "absent"
       \/ HalfTold(e)

ToldInv ==
    /\ \A e \in Coming : Missing(e)
    /\ \A c \in Indexes : (\A e \in Coming : e.index # c) => Settled(c)
    /\ Over => \A c \in Indexes : calls[c].state \in {"absent", "sent"}

WholeInv ==
    /\ heard \in Seq(Token) /\ asked \in [Indexes -> Nat]
    /\ ~Has("callClose", heard) => UnclosedInv /\ LoneInv /\ ToldInv

LEMMA CallsInOne ==
    ASSUME NEW e
    PROVE  /\ CallsIn(<<>>) = {}
           /\ e.type \in CallTypes => CallsIn(<<e>>) = {e}
           /\ e.type \notin CallTypes => CallsIn(<<e>>) = {}
<1>1. DOMAIN <<e>> = {1} /\ <<e>>[1] = e
  OBVIOUS
<1>. QED
  BY <1>1 DEF CallsIn

LEMMA CallsInTail ==
    ASSUME NEW S, NEW s \in Seq(S), s # <<>>
    PROVE  /\ Head(s).type \in CallTypes => CallsIn(s) = {Head(s)} \cup CallsIn(Tail(s))
           /\ Head(s).type \notin CallTypes => CallsIn(s) = CallsIn(Tail(s))
<1>1. /\ Len(s) \in Nat \ {0} /\ Head(s) = s[1] /\ DOMAIN s = 1 .. Len(s)
      /\ DOMAIN Tail(s) = 1 .. Len(s) - 1
      /\ \A i \in 1 .. Len(s) - 1 : Tail(s)[i] = s[i + 1]
  BY HeadTailProperties
<1>2. ASSUME NEW i \in DOMAIN s PROVE s[i] = Head(s) \/ \E j \in DOMAIN Tail(s) : s[i] = Tail(s)[j]
  <2>1. CASE i = 1
    BY <1>1, <2>1
  <2>2. CASE i # 1
    <3>1. i - 1 \in DOMAIN Tail(s) /\ Tail(s)[i - 1] = s[(i - 1) + 1] /\ (i - 1) + 1 = i
      BY <1>1, <2>2
    <3>. QED
      BY <3>1
  <2>. QED
    BY <2>1, <2>2
<1>3. 1 \in DOMAIN s
  BY <1>1
<1>4. ASSUME NEW j \in DOMAIN Tail(s) PROVE \E i \in DOMAIN s : s[i] = Tail(s)[j]
  BY <1>1
<1>. DEFINE all  == {s[i] : i \in DOMAIN s}
            rest == {Tail(s)[j] : j \in DOMAIN Tail(s)}
<1>5. all = {Head(s)} \cup rest
  <2>1. Head(s) \in all
    BY <1>1, <1>3
  <2>2. ASSUME NEW e \in rest PROVE e \in all
    <3>1. PICK j \in DOMAIN Tail(s) : e = Tail(s)[j]
      BY <2>2
    <3>. QED
      BY <1>4, <3>1
  <2>3. ASSUME NEW e \in all PROVE e = Head(s) \/ e \in rest
    <3>1. PICK i \in DOMAIN s : e = s[i]
      BY <2>3
    <3>. QED
      BY <1>2, <3>1
  <2>. HIDE DEF all, rest
  <2>. QED
    BY <2>1, <2>2, <2>3, Zenon
<1>. QED
  BY <1>5 DEF CallsIn

LEMMA OneTail ==
    ASSUME NEW S, NEW s \in Seq(S), Len(s) = 1
    PROVE  Tail(s) = <<>>
<1>. DEFINE rest == Tail(s)
<1>1. rest \in Seq(S) /\ Len(rest) = 0
  BY HeadTailProperties
<1>. HIDE DEF rest
<1>2. rest = <<>>
  BY <1>1
<1>. QED
  BY <1>2 DEF rest

LEMMA NoCallsIn ==
    ASSUME NEW s, \A i \in DOMAIN s : s[i].type \notin CallTypes
    PROVE  CallsIn(s) = {}
  BY DEF CallsIn

(* No event is on its way, or one.                                         *)
LEMMA LoneCall ==
    ASSUME UpstreamType, LoneInv
    PROVE  /\ \A e \in Coming : /\ e \in Events /\ e.type \in CallTypes
                                /\ e.index \in Indexes /\ e.delta \in Seq(Token)
           /\ \A e, f \in Coming : e = f
           /\ chan # <<>> /\ Head(chan).type \in CallTypes =>
                 Tail(chan) = <<>> /\ CallsIn(queue) = {} /\ Coming = {Head(chan)}
           /\ queue # <<>> /\ Head(queue).type \in CallTypes =>
                 Tail(queue) = <<>> /\ CallsIn(chan) = {} /\ Coming = {Head(queue)}
           /\ queue # <<>> /\ Head(queue).type \notin CallTypes =>
                 CallsIn(queue) = {} /\ CallsIn(Tail(queue)) = {}
<1>1. /\ queue \in Seq(Events) /\ chan \in Seq(ParsedEvents)
      /\ Len(chan) \in Nat /\ DOMAIN chan = 1 .. Len(chan)
      /\ Len(queue) \in Nat /\ DOMAIN queue = 1 .. Len(queue)
  BY DEF UpstreamType
<1>2. ASSUME NEW e \in Coming
      PROVE  /\ e \in Events /\ e.type \in CallTypes
             /\ e.index \in Indexes /\ e.delta \in Seq(Token)
  <2>1. e \in Events /\ e.type \in CallTypes
    BY <1>1, <1>2 DEF Coming, CallsIn, ParsedEvents
  <2>. QED
    BY <2>1 DEF Events, EventRecord, CallTypes
<1>3. ASSUME NEW e \in CallsIn(chan) PROVE e = chan[Len(chan)] /\ chan # <<>>
  <2>1. PICK i \in DOMAIN chan : chan[i] = e /\ e.type \in CallTypes
    BY DEF CallsIn
  <2>. QED
    BY <1>1, <2>1 DEF LoneInv
<1>4. ASSUME NEW e \in CallsIn(queue)
      PROVE  e = queue[1] /\ chan = <<>> /\ CallsIn(chan) = {} /\ Len(queue) = 1
  <2>1. PICK i \in DOMAIN queue : queue[i] = e /\ e.type \in CallTypes
    BY DEF CallsIn
  <2>2. Len(queue) = 1 /\ chan = <<>>
    BY <1>4 DEF LoneInv
  <2>. QED
    BY <1>1, <2>1, <2>2, CallsInOne
<1>5. \A e, f \in Coming : e = f
  BY <1>3, <1>4 DEF Coming
<1>6. ASSUME chan # <<>>, Head(chan).type \in CallTypes
      PROVE  Tail(chan) = <<>> /\ CallsIn(queue) = {} /\ Coming = {Head(chan)}
  <2>1. Head(chan) = chan[1] /\ 1 \in DOMAIN chan
    BY <1>1, <1>6
  <2>2. Len(chan) = 1
    BY <1>6, <2>1 DEF LoneInv
  <2>3. Tail(chan) = <<>>
    BY <1>1, <2>2, OneTail
  <2>4. CallsIn(queue) = {}
    BY <1>4, <1>6
  <2>5. CallsIn(chan) = {Head(chan)}
    BY <1>1, <1>6, <2>3, CallsInTail, CallsInOne
  <2>. QED
    BY <2>3, <2>4, <2>5 DEF Coming
<1>7. ASSUME queue # <<>>, Head(queue).type \in CallTypes
      PROVE  Tail(queue) = <<>> /\ CallsIn(chan) = {} /\ Coming = {Head(queue)}
  <2>1. Head(queue) \in CallsIn(queue)
    BY <1>1, <1>7, CallsInTail
  <2>2. Len(queue) = 1 /\ CallsIn(chan) = {}
    BY <1>4, <2>1
  <2>3. Tail(queue) = <<>>
    BY <1>1, <2>2, OneTail
  <2>4. CallsIn(queue) = {Head(queue)}
    BY <1>1, <1>7, <2>3, CallsInTail, CallsInOne
  <2>. QED
    BY <2>2, <2>3, <2>4 DEF Coming
<1>8. ASSUME queue # <<>>, Head(queue).type \notin CallTypes
      PROVE  CallsIn(queue) = {} /\ CallsIn(Tail(queue)) = {}
  <2>1. Head(queue) = queue[1]
    BY <1>1, <1>8
  <2>2. CallsIn(queue) = {}
    <3>1. SUFFICES ASSUME NEW e \in CallsIn(queue) PROVE FALSE
      OBVIOUS
    <3>2. e = queue[1] /\ e.type \in CallTypes
      BY <1>4, <3>1 DEF CallsIn
    <3>. QED
      BY <1>8, <2>1, <3>2
  <2>. QED
    BY <1>1, <1>8, <2>2, CallsInTail
<1>. QED
  BY <1>2, <1>5, <1>6, <1>7, <1>8

LEMMA HasConcat ==
    ASSUME NEW S, NEW a \in Seq(S), NEW b \in Seq(S), NEW tag
    PROVE  Has(tag, a \o b) <=> Has(tag, a) \/ Has(tag, b)
<1>1. /\ Len(a) \in Nat /\ Len(b) \in Nat /\ DOMAIN a = 1 .. Len(a) /\ DOMAIN b = 1 .. Len(b)
      /\ DOMAIN (a \o b) = 1 .. Len(a) + Len(b)
      /\ \A i \in 1 .. Len(a) + Len(b) : (a \o b)[i] = IF i <= Len(a) THEN a[i] ELSE b[i - Len(a)]
  BY ConcatProperties
<1>2. ASSUME Has(tag, a \o b) PROVE Has(tag, a) \/ Has(tag, b)
  <2>1. PICK i \in 1 .. Len(a) + Len(b) : (a \o b)[i].tag = tag
    BY <1>1, <1>2 DEF Has
  <2>2. CASE i <= Len(a)
    <3>1. i \in DOMAIN a /\ a[i].tag = tag
      BY <1>1, <2>1, <2>2
    <3>. QED
      BY <3>1 DEF Has
  <2>3. CASE ~(i <= Len(a))
    <3>1. i - Len(a) \in DOMAIN b /\ b[i - Len(a)].tag = tag
      BY <1>1, <2>1, <2>3
    <3>. QED
      BY <3>1 DEF Has
  <2>. QED
    BY <2>2, <2>3
<1>3. ASSUME Has(tag, a) PROVE Has(tag, a \o b)
  <2>1. PICK i \in DOMAIN a : a[i].tag = tag
    BY <1>3 DEF Has
  <2>2. i \in 1 .. Len(a) + Len(b) /\ i <= Len(a)
    BY <1>1, <2>1
  <2>3. i \in DOMAIN (a \o b) /\ (a \o b)[i].tag = tag
    BY <1>1, <2>1, <2>2
  <2>. QED
    BY <2>3 DEF Has
<1>4. ASSUME Has(tag, b) PROVE Has(tag, a \o b)
  <2>1. PICK i \in DOMAIN b : b[i].tag = tag
    BY <1>4 DEF Has
  <2>2. i + Len(a) \in 1 .. Len(a) + Len(b) /\ ~(i + Len(a) <= Len(a)) /\ (i + Len(a)) - Len(a) = i
    BY <1>1, <2>1
  <2>3. i + Len(a) \in DOMAIN (a \o b) /\ (a \o b)[i + Len(a)].tag = tag
    BY <1>1, <2>1, <2>2
  <2>. QED
    BY <2>3 DEF Has
<1>. QED
  BY <1>2, <1>3, <1>4

(* Events that are no calls.                                               *)
Callless == {e \in Events : e.type \notin CallTypes}

LEMMA CalllessHoldNone ==
    ASSUME NEW s \in Seq(Callless)
    PROVE  CallsIn(s) = {}
<1>1. \A i \in DOMAIN s : s[i] \in Callless
  OBVIOUS
<1>. QED
  BY <1>1, NoCallsIn DEF Callless

LEMMA TextEventCallless ==
    ASSUME NEW text \in Seq(Token)
    PROVE  TextEvent(text) \in Seq(Callless)
<1>1. CASE text = <<>>
  BY <1>1 DEF TextEvent
<1>2. CASE text # <<>>
  <2>. DEFINE e == Delta("text", text)
  <2>1. TextEvent(text) = <<e>>
    BY <1>2 DEF TextEvent
  <2>2. e \in Events
    BY <1>2, EventType DEF Delta, CallEvent, MaybeToken
  <2>3. e.type = "text"
    BY DEF Delta, CallEvent
  <2>. HIDE DEF e
  <2>4. e \in Callless
    BY <2>2, <2>3 DEF Callless, CallTypes
  <2>. HIDE DEF Callless
  <2>. QED
    BY <2>1, <2>4
<1>. QED
  BY <1>1, <1>2

(* processTextDelta finds no call where none is closed.                    *)
LEMMA TextOutCallless ==
    ASSUME NEW raw \in Seq(Token), ~Has("callClose", raw)
    PROVE  TextOut(raw) \in Seq(Callless)
<1>1. ~HoldsCall(raw)
  BY DEF HoldsCall
<1>2. TextEvent(raw) \in Seq(Callless) /\ TextEvent(StripThinkTags(raw)) \in Seq(Callless)
  BY TextEventCallless, StripThinkTagsType
<1>3. <<>> \in Seq(Callless)
  OBVIOUS
<1>. QED
  BY <1>1, <1>2, <1>3, Zenon DEF TextOut

(* Nor does finalize.                                                      *)
LEMMA FinalEventsCallless ==
    ASSUME UpstreamType, ~Has("callClose", thinkBuf), NEW end \in Callless
    PROVE  FinalEvents(end) \in Seq(Callless)
<1>. DEFINE S == {token \in Token : token.tag # "callClose"}
            parsed == ParsedCalls(thinkBuf)
            promoted == IF hasContent THEN <<>> ELSE reasoningBuf
<1>1. thinkBuf \in Seq(Token) /\ reasoningBuf \in Seq(Token)
  BY DEF UpstreamType
<1>2. thinkBuf \in Seq(S)
  <2>1. \A i \in DOMAIN thinkBuf : thinkBuf[i] \in Token /\ thinkBuf[i].tag # "callClose"
    BY <1>1 DEF Has
  <2>2. \A i \in DOMAIN thinkBuf : thinkBuf[i] \in S
    BY <2>1
  <2>. HIDE DEF S
  <2>. QED
    BY <1>1, <2>2, OtherElements
<1>3. S \in SUBSET Token /\ Found(S) = {}
  BY DEF Found
<1>. HIDE DEF S
<1>4. parsed.cleaned \in Seq(S) /\ parsed.calls \in Seq({})
  BY <1>2, <1>3, ParsedCallsOf
<1>. HIDE DEF parsed
<1>5. parsed.calls = <<>> /\ parsed.cleaned \in Seq(Token)
  BY <1>3, <1>4
<1>6. InlineEvents(parsed.calls) = <<>>
  BY <1>5 DEF InlineEvents
<1>7. promoted \in Seq(Token)
  BY <1>1
<1>. HIDE DEF promoted
<1>. DEFINE first == TextEvent(parsed.cleaned)
            last == TextEvent(promoted)
<1>8. first \in Seq(Callless) /\ last \in Seq(Callless)
  BY <1>5, <1>7, TextEventCallless
<1>9. FinalEvents(end) = first \o <<>> \o last \o <<end>>
  BY <1>6 DEF FinalEvents, parsed, promoted
<1>. HIDE DEF first, last, Callless
<1>. QED
  BY <1>8, <1>9

(* The items of a call are left alone.                                     *)
SameItemsOf(c) ==
    /\ DOMAIN answer.items \subseteq DOMAIN answer'.items
    /\ \A i \in DOMAIN answer'.items :
          /\ answer'.items[i].kind = "call" /\ answer'.items[i].id = Native(c)
                => i \in DOMAIN answer.items
          /\ i \in DOMAIN answer.items =>
                /\ answer'.items[i].kind = answer.items[i].kind
                /\ answer'.items[i].id = answer.items[i].id
                /\ IsOf(c, i) => /\ answer'.items[i].content = answer.items[i].content
                                 /\ answer'.items[i].whole = answer.items[i].whole

LEMMA ToldSame ==
    ASSUME NEW c, NEW n, Told(c, n), SameItemsOf(c), agent' = agent, calls'[c] = calls[c],
           Finishing => Finishing'
    PROVE  Told(c, n)'
<1>1. NoItemOf(c) => NoItemOf(c)'
  BY DEF NoItemOf, IsOf, SameItemsOf
<1>2. ASSUME NEW i, NEW content, OnlyItemOf(c, i, content)
      PROVE  OnlyItemOf(c, i, content)' /\ answer'.items[i].whole = answer.items[i].whole
  BY <1>2 DEF OnlyItemOf, IsOf, SameItemsOf
<1>. DEFINE acc == calls[c]
            told == IF agent = "claude" /\ acc.state = "open" THEN <<>> ELSE acc.args
<1>3. ASSUME acc.state \in {"open", "filled"} PROVE OnlyItemOf(c, acc.item + 1, told)'
  <2>1. OnlyItemOf(c, acc.item + 1, told)
    BY <1>3 DEF Told
  <2>2. PICK i, content : i = acc.item + 1 /\ content = told
    OBVIOUS
  <2>3. OnlyItemOf(c, i, content)'
    BY <1>2, <2>1, <2>2
  <2>4. told' = told /\ acc' = acc
    OBVIOUS
  <2>. HIDE DEF told, acc
  <2>. QED
    BY <2>2, <2>3, <2>4 DEF OnlyItemOf
<1>4. ASSUME acc.state = "sent"
      PROVE  \E i \in DOMAIN answer'.items, content \in Delivered(agent, acc.args) :
                /\ OnlyItemOf(c, i, content)'
                /\ agent = "codex" => answer'.items[i].whole = acc.args
  <2>1. PICK i \in DOMAIN answer.items, content \in Delivered(agent, acc.args) :
           /\ OnlyItemOf(c, i, content)
           /\ agent = "codex" => answer.items[i].whole = acc.args
    BY <1>4 DEF Told
  <2>2. OnlyItemOf(c, i, content)' /\ answer'.items[i].whole = answer.items[i].whole
    BY <1>2, <2>1
  <2>3. i \in DOMAIN answer'.items
    BY <2>1 DEF SameItemsOf
  <2>. QED
    BY <2>1, <2>2, <2>3
<1>. QED
  BY <1>1, <1>3, <1>4 DEF Told

LEMMA SettledSame ==
    ASSUME NEW c, Settled(c), SameItemsOf(c), agent' = agent, calls'[c] = calls[c],
           Finishing => Finishing', asked'[c] = asked[c],
           c \in seenIndexes' <=> c \in seenIndexes
    PROVE  Settled(c)'
<1>1. PICK n : n = asked[c]
  OBVIOUS
<1>2. Told(c, n)
  BY <1>1 DEF Settled
<1>3. Told(c, n)'
  BY <1>2, ToldSame
<1>4. Told(c, asked[c])'
  BY <1>1, <1>3 DEF Told
<1>. QED
  BY <1>4 DEF Settled

(* An event that was not looked at.                                        *)
LEMMA MissingSame ==
    ASSUME NEW e, Missing(e), ~HalfTold(e), SameItemsOf(e.index), agent' = agent,
           calls'[e.index] = calls[e.index], Finishing => Finishing',
           asked'[e.index] = asked[e.index],
           e.index \in seenIndexes' <=> e.index \in seenIndexes
    PROVE  Missing(e)'
<1>1. PICK n : n = asked[e.index] - Len(e.delta)
  OBVIOUS
<1>2. Told(e.index, n)
  BY <1>1 DEF Missing
<1>3. Told(e.index, n)'
  BY <1>2, ToldSame
<1>4. Told(e.index, asked[e.index] - Len(e.delta))'
  BY <1>1, <1>3 DEF Told
<1>. QED
  BY <1>4 DEF Missing

LEMMA SameAnswerSameItems ==
    ASSUME NEW c, answer'.items = answer.items
    PROVE  SameItemsOf(c)
  BY DEF SameItemsOf

(* A step of the upstream that reads nothing.                              *)
LEMMA ToldKept ==
    ASSUME ToldInv, queue = <<>>, closing = None, answer.phase # "over", Coming' = Coming,
           UNCHANGED <<agent, answer, calls, asked, seenIndexes>>
    PROVE  ToldInv'
<1>1. /\ ~Finishing /\ \A e : ~HalfTold(e)
      /\ \A c : SameItemsOf(c)
  BY SameAnswerSameItems DEF Finishing, HalfTold
<1>2. ASSUME NEW e \in Coming' PROVE Missing(e)'
  <2>1. Missing(e)
    BY <1>2 DEF ToldInv
  <2>. QED
    BY <1>1, <2>1, MissingSame
<1>3. ASSUME NEW c \in Indexes, \A e \in Coming' : e.index # c PROVE Settled(c)'
  <2>1. Settled(c)
    BY <1>3 DEF ToldInv
  <2>. QED
    BY <1>1, <2>1, SettledSame
<1>. QED
  BY <1>2, <1>3 DEF ToldInv, Over

-----------------------------------------------------------------------------
(* What the parser and the normaliser do to them.                          *)

(* The event a call of a line is parsed to.                                *)
LEMMA ToolEvents ==
    ASSUME NEW c \in Indexes, NEW size \in Nat
    PROVE  /\ c \notin seenIndexes =>
                 CallEvents(c, size) = <<CallEvent("toolStart", Fragments(c, size), c, Native(c))>>
           /\ c \in seenIndexes /\ size # 0 =>
                 CallEvents(c, size) = <<CallEvent("toolDelta", Fragments(c, size), c, None)>>
           /\ c \in seenIndexes /\ size = 0 => CallEvents(c, size) = <<>>
           /\ Len(Fragments(c, size)) = size /\ Fragments(c, size) \in Seq(Token)
           /\ Fragments(c, size) = <<>> <=> size = 0
<1>. DEFINE args == [i \in 1 .. size |-> Native(c)]
<1>1. args = Fragments(c, size)
  BY DEF Fragments
<1>2. Native(c) \in Token
  BY NativeType
<1>3. args \in Seq(Token) /\ Len(args) = size
  BY <1>2
<1>4. args = <<>> <=> size = 0
  BY <1>3
<1>. HIDE DEF args
<1>5. CallEvents(c, size) =
        IF c \notin seenIndexes
        THEN <<CallEvent("toolStart", args, c, Native(c))>>
        ELSE IF args # <<>> THEN <<CallEvent("toolDelta", args, c, None)>> ELSE <<>>
  BY DEF CallEvents, args
<1>. QED
  BY <1>1, <1>3, <1>4, <1>5

LEMMA ReadChunkCalls ==
    ASSUME UpstreamType, NEW chunk \in Chunks, ReadChunk(chunk),
           NEW tool, tool = IF chunk.call # None THEN CallEvents(chunk.call[1], chunk.call[2])
                                                 ELSE <<>>
    PROVE  /\ \A i \in DOMAIN chan' :
                 chan'[i].type = "text" => chan'[i].delta = Tokens(chunk.content)
           /\ \A i \in DOMAIN chan' : chan'[i].type \in CallTypes => i = Len(chan')
           /\ CallsIn(chan') = CallsIn(tool)
<1>. DEFINE thoughts == Thoughts(chunk.reasoning)
            content == Tokens(chunk.content)
            one == Delta("thinking", thoughts)
            two == Delta("text", content)
            a == IF thoughts # <<>> THEN <<one>> ELSE <<>>
            b == IF content # <<>> THEN <<two>> ELSE <<>>
            Line == {e \in {one, two} : e.type \notin CallTypes
                                        /\ (e.type = "text" => e.delta = content)}
            first == a \o b
<1>1. /\ chunk.call # None => chunk.call[1] \in Indexes /\ chunk.call[2] \in Nat
  BY UpstreamAssumption
<1>2. /\ one.type = "thinking" /\ two.type = "text" /\ two.delta = content
  BY DEF Delta, CallEvent
<1>3. chan' = a \o b \o tool
  BY DEF ReadChunk
<1>. HIDE DEF thoughts, content, one, two
<1>4. one \in Line /\ two \in Line
  BY <1>2 DEF CallTypes
<1>5. \A e \in Line : e.type \notin CallTypes /\ (e.type = "text" => e.delta = content)
  OBVIOUS
<1>. HIDE DEF Line
<1>6. a \in Seq(Line) /\ b \in Seq(Line)
  BY <1>4
<1>. HIDE DEF a, b
<1>7. first \in Seq(Line) /\ chan' = first \o tool
  BY <1>3, <1>6
<1>. HIDE DEF first
<1>8. tool = <<>> \/ \E e : tool = <<e>> /\ e.type \in CallTypes
  <2>1. CASE chunk.call = None
    BY <2>1
  <2>2. CASE chunk.call # None
    <3>1. tool = CallEvents(chunk.call[1], chunk.call[2])
      BY <2>2
    <3>2. tool = <<>> \/ \E e : tool = <<e>> /\ e.type \in CallTypes
      BY <3>1 DEF CallEvents, CallEvent, CallTypes
    <3>. QED
      BY <3>2
  <2>. QED
    BY <2>1, <2>2
<1>9. CASE tool = <<>>
  <2>1. chan' = first
    BY <1>7, <1>9
  <2>2. \A i \in DOMAIN chan' : chan'[i] \in Line
    BY <1>7, <2>1
  <2>3. CallsIn(chan') = {} /\ CallsIn(tool) = {}
    BY <1>5, <1>9, <2>2, NoCallsIn, CallsInOne
  <2>. QED
    BY <1>5, <2>2, <2>3 DEF content
<1>10. ASSUME NEW e, tool = <<e>>, e.type \in CallTypes PROVE
           /\ \A i \in DOMAIN chan' : chan'[i].type = "text" => chan'[i].delta = content
           /\ \A i \in DOMAIN chan' : chan'[i].type \in CallTypes => i = Len(chan')
           /\ CallsIn(chan') = CallsIn(tool)
  <2>. DEFINE All == Line \cup {e}
              n == Len(first)
              all == first \o tool
  <2>1. first \in Seq(All) /\ tool \in Seq(All) /\ Len(tool) = 1 /\ tool[1] = e
    <3>1. Line \subseteq All /\ e \in All
      OBVIOUS
    <3>. HIDE DEF All
    <3>2. first \in Seq(All)
      BY <1>7, <3>1
    <3>3. <<e>> \in Seq(All) /\ Len(<<e>>) = 1 /\ (<<e>>)[1] = e
      BY <3>1
    <3>. QED
      BY <1>10, <3>2, <3>3
  <2>2. n \in Nat /\ DOMAIN first = 1 .. n /\ \A i \in 1 .. n : first[i] \in Line
    BY <1>7
  <2>. HIDE DEF All
  <2>3. /\ all \in Seq(All) /\ Len(all) = Len(first) + Len(tool)
         /\ \A i \in 1 .. Len(first) + Len(tool) :
               all[i] = IF i <= Len(first) THEN first[i] ELSE tool[i - Len(first)]
    BY <2>1, ConcatProperties
  <2>4. Len(first) + Len(tool) = n + 1
    BY <2>1
  <2>5. /\ all \in Seq(All) /\ Len(all) = n + 1 /\ DOMAIN all = 1 .. n + 1
        /\ \A i \in 1 .. n + 1 : all[i] = IF i <= n THEN first[i] ELSE tool[i - n]
    <3>. HIDE DEF all
    <3>. QED
      BY <2>3, <2>4
  <2>6. /\ \A i \in 1 .. n : all[i] \in Line
        /\ all[n + 1] = e
    <3>1. \A i \in 1 .. n : i \in 1 .. n + 1 /\ i <= n
      BY <2>2
    <3>2. n + 1 \in 1 .. n + 1 /\ ~(n + 1 <= n) /\ (n + 1) - n = 1
      BY <2>2
    <3>. QED
      BY <2>1, <2>2, <2>5, <3>1, <3>2
  <2>7. \A i \in 1 .. n + 1 : i \in 1 .. n \/ i = n + 1
    BY <2>2
  <2>8. chan' = all
    BY <1>7
  <2>. HIDE DEF all, n
  <2>9. n + 1 \in 1 .. n + 1
    BY <2>2
  <2>10. e.type # "text"
    BY <1>10 DEF CallTypes
  <2>11. CallsIn(all) = {e}
    BY <1>5, <1>10, <2>5, <2>6, <2>7, <2>9 DEF CallsIn
  <2>12. CallsIn(tool) = {e}
    BY <1>10, CallsInOne
  <2>. QED
    BY <1>5, <1>10, <2>5, <2>6, <2>7, <2>8, <2>10, <2>11, <2>12
<1>. QED
  BY <1>8, <1>9, <1>10 DEF content

LEMMA ReadChunkWhole ==
    ASSUME StreamInv, WholeInv, NEW chunk \in Chunks, ReadChunk(chunk),
           UNCHANGED <<queue, closing, agent, answer, calls>>
    PROVE  WholeInv'
<1>. DEFINE content == Tokens(chunk.content)
<1>1. /\ chan = <<>> /\ queue = <<>> /\ queue' = <<>> /\ closing = None /\ closing' = None
      /\ heard' = heard \o content /\ UNCHANGED thinkBuf
      /\ content \in Seq(Token) /\ heard \in Seq(Token) /\ UpstreamType
  BY ReadChunkEvents DEF ReadChunk, Drained, Ready, normalizer, StreamInv, WholeInv
<1>2. answer.phase # "over" /\ answer'.phase # "over" /\ ~Finishing
  BY <1>1 DEF StreamInv, PhaseInv, Finishing
<1>3. /\ chunk.call # None => chunk.call[1] \in Indexes /\ chunk.call[2] \in Nat
  BY UpstreamAssumption
<1>4. PICK c, size : chunk.call # None => c = chunk.call[1] /\ size = chunk.call[2]
  OBVIOUS
<1>5. PICK tool : tool = IF chunk.call # None THEN CallEvents(chunk.call[1], chunk.call[2])
                                              ELSE <<>>
  OBVIOUS
<1>6. /\ \A i \in DOMAIN chan' : chan'[i].type = "text" => chan'[i].delta = content
      /\ \A i \in DOMAIN chan' : chan'[i].type \in CallTypes => i = Len(chan')
      /\ CallsIn(chan') = CallsIn(tool)
  BY <1>1, <1>5, ReadChunkCalls
<1>. HIDE DEF content
<1>7. heard' \in Seq(Token) /\ asked' \in [Indexes -> Nat]
  <2>1. heard' \in Seq(Token)
    BY <1>1
  <2>2. asked \in [Indexes -> Nat]
    BY DEF WholeInv
  <2>3. asked' = IF chunk.call # None THEN [asked EXCEPT ![c] = @ + size] ELSE asked
    BY <1>4 DEF ReadChunk
  <2>. QED
    BY <1>3, <1>4, <2>1, <2>2, <2>3
<1>8. SUFFICES ASSUME ~Has("callClose", heard') PROVE UnclosedInv' /\ LoneInv' /\ ToldInv'
  BY <1>7 DEF WholeInv
<1>9. ~Has("callClose", heard) /\ ~Has("callClose", content)
  BY <1>1, <1>8, HasConcat
<1>10. UnclosedInv /\ LoneInv /\ ToldInv
  BY <1>9 DEF WholeInv
<1>11. UnclosedInv'
  BY <1>1, <1>6, <1>9, <1>10 DEF UnclosedInv, Has
<1>12. Coming = {} /\ Coming' = CallsIn(tool) /\ CallsIn(queue') = {}
  BY <1>1, <1>6, CallsInOne DEF Coming
<1>13. LoneInv'
  BY <1>1, <1>6, <1>12 DEF LoneInv
<1>14. \A d \in Indexes : Settled(d)
  BY <1>10, <1>12 DEF ToldInv
<1>15. \A d : SameItemsOf(d)
  BY SameAnswerSameItems
<1>16. ToldInv'
  <2>1. CASE chunk.call = None
    <3>1. Coming' = Coming
      BY <1>5, <1>12, <2>1, CallsInOne
    <3>2. UNCHANGED <<asked, seenIndexes>>
      BY <2>1 DEF ReadChunk
    <3>. QED
      BY <1>1, <1>2, <1>10, <3>1, <3>2, ToldKept
  <2>2. CASE chunk.call # None
    <3>1. c \in Indexes /\ size \in Nat /\ tool = CallEvents(c, size)
      BY <1>3, <1>4, <1>5, <2>2
    <3>2. /\ asked' = [asked EXCEPT ![c] = asked[c] + size] /\ asked \in [Indexes -> Nat]
          /\ seenIndexes' = seenIndexes \cup {c}
      BY <1>4, <2>2 DEF ReadChunk, WholeInv
    <3>3. ASSUME NEW d \in Indexes, d # c \/ (c \in seenIndexes /\ size = 0)
          PROVE  Settled(d)'
      <4>1. asked'[d] = asked[d] /\ (d \in seenIndexes' <=> d \in seenIndexes)
        BY <3>1, <3>2, <3>3
      <4>. QED
        BY <1>2, <1>14, <1>15, <4>1, SettledSame
    <3>4. PICK n \in Nat : n = asked[c]
      BY <3>1, <3>2
    <3>5. asked'[c] = n + size /\ (n + size) - size = n /\ size <= n + size
      BY <3>1, <3>2, <3>4
    <3>6. Told(c, n)' /\ (c \in seenIndexes <=> calls[c].state # "absent")
      <4>1. Told(c, n) /\ (c \in seenIndexes <=> calls[c].state # "absent")
        BY <1>14, <3>1, <3>4 DEF Settled
      <4>. QED
        BY <1>2, <1>15, <4>1, ToldSame
    <3>7. /\ Len(Fragments(c, size)) = size /\ (Fragments(c, size) = <<>> <=> size = 0)
      BY <3>1, ToolEvents
    <3>8. ASSUME NEW e, tool = <<e>>, e.type \in CallTypes, e.index = c,
                 e.delta = Fragments(c, size),
                 \/ e.type = "toolStart" /\ c \notin seenIndexes /\ e.id = Native(c)
                 \/ e.type = "toolDelta" /\ c \in seenIndexes /\ e.id = None /\ size # 0
          PROVE  ToldInv'
      <4>1. Coming' = {e}
        BY <1>12, <3>8, CallsInOne
      <4>2. Told(c, asked[c] - size)'
        BY <3>5, <3>6 DEF Told
      <4>3. Missing(e)'
        <5>1. Len(e.delta) = size /\ e.delta = Fragments(e.index, Len(e.delta))
          BY <3>7, <3>8
        <5>2. Told(e.index, asked[e.index] - Len(e.delta))'
          BY <3>8, <4>2, <5>1
        <5>3. e.index \in seenIndexes' /\ Len(e.delta) <= asked'[e.index]
          BY <3>2, <3>5, <3>8, <5>1
        <5>4. e.type = "toolStart" <=> calls'[e.index].state = "absent"
          BY <3>6, <3>8
        <5>. QED
          BY <3>7, <3>8, <5>1, <5>2, <5>3, <5>4 DEF Missing
      <4>4. \A d \in Indexes : (\A f \in Coming' : f.index # d) => Settled(d)'
        BY <3>3, <3>8, <4>1
      <4>. QED
        BY <1>2, <4>1, <4>3, <4>4 DEF ToldInv, Over
    <3>9. CASE c \notin seenIndexes
      <4>. DEFINE e == CallEvent("toolStart", Fragments(c, size), c, Native(c))
      <4>1. tool = <<e>>
        BY <3>1, <3>9, ToolEvents
      <4>2. /\ e.type = "toolStart" /\ e.index = c /\ e.delta = Fragments(c, size)
            /\ e.id = Native(c)
        BY DEF CallEvent
      <4>. HIDE DEF e
      <4>. QED
        BY <3>8, <3>9, <4>1, <4>2 DEF CallTypes
    <3>10. CASE c \in seenIndexes /\ size # 0
      <4>. DEFINE e == CallEvent("toolDelta", Fragments(c, size), c, None)
      <4>1. tool = <<e>>
        BY <3>1, <3>10, ToolEvents
      <4>2. /\ e.type = "toolDelta" /\ e.index = c /\ e.delta = Fragments(c, size)
            /\ e.id = None
        BY DEF CallEvent
      <4>. HIDE DEF e
      <4>. QED
        BY <3>8, <3>10, <4>1, <4>2 DEF CallTypes
    <3>11. CASE c \in seenIndexes /\ size = 0
      <4>1. Coming' = {}
        BY <1>12, <3>1, <3>11, ToolEvents, CallsInOne
      <4>. QED
        BY <1>2, <3>3, <3>11, <4>1 DEF ToldInv, Over
    <3>. QED
      BY <3>9, <3>10, <3>11
  <2>. QED
    BY <2>1, <2>2
<1>. QED
  BY <1>11, <1>13, <1>16

(* A step that reads no line.                                              *)
LEMMA QuietWhole ==
    ASSUME StreamInv, WholeInv, queue = <<>>, closing = None,
           UNCHANGED <<agent, answer, calls, heard, asked, seenIndexes>>,
           UnclosedInv /\ LoneInv => Coming' = Coming /\ UnclosedInv' /\ LoneInv'
    PROVE  WholeInv'
<1>1. answer.phase # "over"
  BY DEF StreamInv, PhaseInv, Finishing
<1>2. SUFFICES ASSUME ~Has("callClose", heard) PROVE UnclosedInv' /\ LoneInv' /\ ToldInv'
  BY DEF WholeInv
<1>3. UnclosedInv /\ LoneInv /\ ToldInv
  BY <1>2 DEF WholeInv
<1>. QED
  BY <1>1, <1>3, ToldKept

LEMMA NoCallWhole ==
    ASSUME StreamInv, WholeInv, queue = <<>>, closing = None, chan = <<>>, queue' = <<>>,
           UNCHANGED <<agent, answer, calls, heard, asked, seenIndexes, thinkBuf>>,
           \/ chan' = <<>>
           \/ \E type \in {"done", "error"} : \E reason : chan' = <<End(type, reason)>>
    PROVE  WholeInv'
<1>1. ASSUME NEW i \in DOMAIN chan' PROVE chan'[i].type \in {"done", "error"}
  <2>1. CASE chan' = <<>>
    BY <2>1
  <2>2. ASSUME NEW type \in {"done", "error"}, NEW reason, chan' = <<End(type, reason)>>
        PROVE  chan'[i].type \in {"done", "error"}
    <3>. DEFINE end == End(type, reason)
    <3>1. end.type = type
      BY EndEvent
    <3>. HIDE DEF end
    <3>2. chan' = <<end>>
      BY <2>2 DEF end
    <3>. QED
      BY <3>1, <3>2
  <2>. QED
    BY <2>1, <2>2
<1>2. /\ \A i \in DOMAIN chan' : chan'[i].type \notin CallTypes /\ chan'[i].type # "text"
  BY <1>1 DEF CallTypes
<1>3. CallsIn(chan') = {} /\ CallsIn(<<>>) = {}
  BY <1>2, NoCallsIn, CallsInOne
<1>4. Coming = {} /\ Coming' = {}
  BY <1>3 DEF Coming
<1>5. UnclosedInv => UnclosedInv'
  BY <1>2 DEF UnclosedInv, Has
<1>6. LoneInv'
  BY <1>2, <1>3, <1>4 DEF LoneInv
<1>. QED
  BY <1>4, <1>5, <1>6, QuietWhole

(* An event is taken: a call as it is, of others no call is made.          *)
LEMMA TakeWhole ==
    ASSUME StreamInv, EndInv, WholeInv, Take, UNCHANGED <<agent, answer, calls>>,
           queue = <<>>, closing = None
    PROVE  WholeInv'
<1>1. /\ chan # <<>> /\ chan' = Tail(chan) /\ UNCHANGED <<body, heard, asked, seenIndexes>>
  BY DEF Take, TakeThinking, TakeHugeThinking, TakeText, TakeEndlessText, TakeCall, TakeDone,
         TakeError, Taken, history
<1>2. /\ chan \in Seq(ParsedEvents) /\ thinkBuf \in Seq(Token) /\ UpstreamType
  BY DEF StreamInv, UpstreamType
<1>3. /\ Head(chan) \in ParsedEvents /\ Head(chan) = chan[1] /\ 1 \in DOMAIN chan
      /\ \A i \in DOMAIN Tail(chan) : i + 1 \in DOMAIN chan /\ Tail(chan)[i] = chan[i + 1]
  BY <1>1, <1>2, TailOf
<1>4. Head(chan) \in Events /\ Head(chan).delta \in Seq(Token)
  BY <1>3 DEF ParsedEvents, Events, EventRecord
<1>5. SUFFICES ASSUME UnclosedInv, LoneInv PROVE Coming' = Coming /\ UnclosedInv' /\ LoneInv'
  BY <1>1, QuietWhole
<1>6. \A i \in DOMAIN chan' : chan'[i].type \in CallTypes => i = Len(chan')
  <2>1. Len(chan) \in Nat \ {0} /\ Len(Tail(chan)) = Len(chan) - 1 /\ DOMAIN Tail(chan) \subseteq Nat
    BY <1>1, <1>2, HeadTailProperties
  <2>. QED
    BY <1>1, <1>3, <1>5, <2>1 DEF LoneInv
<1>7. \A i \in DOMAIN chan' : chan'[i].type = "text" => ~Has("callClose", chan'[i].delta)
  BY <1>1, <1>3, <1>5 DEF UnclosedInv
<1>8. Head(chan).type = "text" => ~Has("callClose", Head(chan).delta)
  BY <1>3, <1>5 DEF UnclosedInv
<1>9. ~Has("callClose", <<>>)
  BY DEF Has
<1>10. CallsIn(queue) = {} /\ CallsIn(<<>>) = {}
  BY CallsInOne
<1>11. ASSUME TakeCall PROVE Coming' = Coming /\ UnclosedInv' /\ LoneInv'
  <2>1. /\ Head(chan).type \in CallTypes /\ queue' = <<Head(chan)>>
        /\ UNCHANGED <<thinkBuf, closing>>
    BY <1>11 DEF TakeCall, Taken, CallTypes, normalizer
  <2>2. chan' = <<>> /\ Coming = {Head(chan)}
    BY <1>1, <1>2, <1>5, <2>1, LoneCall
  <2>3. CallsIn(queue') = {Head(chan)} /\ Len(queue') = 1
    BY <2>1, CallsInOne
  <2>4. Coming' = Coming
    BY <1>10, <2>2, <2>3 DEF Coming
  <2>5. UnclosedInv'
    BY <1>5, <1>7, <2>1 DEF UnclosedInv, Has
  <2>. QED
    BY <1>6, <2>1, <2>2, <2>3, <2>4, <2>5 DEF LoneInv
<1>12. ASSUME Head(chan).type \notin CallTypes, CallsIn(queue') = {},
              ~Has("callClose", thinkBuf)', closing' # None => CallsIn(Tail(chan)) = {}
       PROVE  Coming' = Coming /\ UnclosedInv' /\ LoneInv'
  <2>1. CallsIn(chan) = CallsIn(Tail(chan))
    BY <1>1, <1>2, <1>12, CallsInTail
  <2>2. Coming' = Coming /\ Coming' = CallsIn(Tail(chan))
    BY <1>1, <1>10, <1>12, <2>1 DEF Coming
  <2>3. UnclosedInv'
    BY <1>7, <1>12 DEF UnclosedInv
  <2>4. LoneInv'
    BY <1>6, <1>12, <2>2 DEF LoneInv
  <2>. QED
    BY <2>2, <2>3, <2>4
<1>13. CASE TakeThinking
  <2>1. /\ Head(chan).type = "thinking" /\ queue' = <<Head(chan)>>
        /\ UNCHANGED <<thinkBuf, closing>>
    BY <1>13 DEF TakeThinking, Taken
  <2>2. Head(chan).type \notin CallTypes
    BY <2>1 DEF CallTypes
  <2>3. CallsIn(queue') = {}
    BY <2>1, <2>2, CallsInOne
  <2>. QED
    BY <1>5, <1>12, <2>1, <2>2, <2>3 DEF UnclosedInv, Has
<1>14. CASE TakeHugeThinking \/ TakeEndlessText
  <2>1. Head(chan).type \in {"thinking", "text"} /\ UNCHANGED <<thinkBuf, queue, closing>>
    BY <1>14 DEF TakeHugeThinking, TakeEndlessText, Taken, normalizer
  <2>2. Head(chan).type \notin CallTypes
    BY <2>1 DEF CallTypes
  <2>. QED
    BY <1>5, <1>10, <1>12, <2>1, <2>2 DEF UnclosedInv, Has
<1>15. CASE TakeText
  <2>. DEFINE raw == thinkBuf \o Head(chan).delta
  <2>1. /\ Head(chan).type = "text" /\ queue' = TextOut(raw) /\ UNCHANGED closing
        /\ thinkBuf' \in {raw, <<>>}
    BY <1>15 DEF TakeText, Taken
  <2>2. raw \in Seq(Token)
    BY <1>2, <1>4
  <2>3. ~Has("callClose", raw)
    BY <1>2, <1>4, <1>5, <1>8, <2>1, HasConcat DEF UnclosedInv
  <2>. HIDE DEF raw
  <2>4. CallsIn(queue') = {}
    BY <2>1, <2>2, <2>3, TextOutCallless, CalllessHoldNone
  <2>5. ~Has("callClose", thinkBuf)'
    BY <1>9, <2>1, <2>3 DEF Has
  <2>6. Head(chan).type \notin CallTypes
    BY <2>1 DEF CallTypes
  <2>. QED
    BY <1>12, <2>1, <2>4, <2>5, <2>6
<1>16. CASE TakeDone
  <2>1. /\ Head(chan).type = "done" /\ queue' = FinalEvents(Head(chan)) /\ thinkBuf' = <<>>
        /\ UNCHANGED closing
    BY <1>16 DEF TakeDone, Taken
  <2>2. Head(chan).type \notin CallTypes
    BY <2>1 DEF CallTypes
  <2>3. Head(chan) \in Callless
    BY <1>4, <2>2 DEF Callless
  <2>4. FinalEvents(Head(chan)) \in Seq(Callless)
    BY <1>2, <1>5, <2>3, FinalEventsCallless DEF UnclosedInv
  <2>5. CallsIn(queue') = {}
    BY <2>1, <2>4, CalllessHoldNone
  <2>6. ~Has("callClose", thinkBuf)'
    BY <2>1 DEF Has
  <2>. QED
    BY <1>12, <2>1, <2>2, <2>5, <2>6
<1>17. CASE TakeError
  <2>1. /\ Head(chan).type = "error" /\ queue' = <<Head(chan)>> /\ UNCHANGED thinkBuf
    BY <1>17 DEF TakeError, Taken, normalizer
  <2>2. Head(chan).type \notin CallTypes
    BY <2>1 DEF CallTypes
  <2>3. CallsIn(queue') = {}
    BY <2>1, <2>2, CallsInOne
  <2>4. CallsIn(Tail(chan)) = {}
    <3>1. body = "cut"
      BY <1>3, <2>1 DEF EndInv
    <3>2. ASSUME NEW i \in DOMAIN Tail(chan) PROVE Tail(chan)[i].type = "error"
      BY <1>3, <3>1 DEF EndInv
    <3>. QED
      BY <3>2, NoCallsIn DEF CallTypes
  <2>. QED
    BY <1>5, <1>12, <2>1, <2>2, <2>3, <2>4 DEF UnclosedInv, Has
<1>. QED
  BY <1>11, <1>13, <1>14, <1>15, <1>16, <1>17 DEF Take

LEMMA UpstreamWhole ==
    ASSUME StreamInv, EndInv, WholeInv, Upstream, UNCHANGED <<agent, answer, calls>>
    PROVE  WholeInv'
<1>1. queue = <<>> /\ closing = None
  BY UpstreamWorks
<1>2. ASSUME NEW chunk \in Chunks, ReadChunk(chunk), UNCHANGED <<queue, closing>>
      PROVE  WholeInv'
  BY <1>2, ReadChunkWhole
<1>3. ASSUME NEW reason \in Reasons, ReadDone(reason), UNCHANGED <<queue, closing>>
      PROVE  WholeInv'
  BY <1>1, <1>3, NoCallWhole DEF ReadDone, Drained, normalizer, history
<1>4. CASE ReadError /\ UNCHANGED <<queue, closing>>
  BY <1>1, <1>4, NoCallWhole DEF ReadError, Drained, normalizer, history
<1>5. CASE BodyEnds /\ UNCHANGED <<queue, closing>>
  BY <1>1, <1>5, NoCallWhole DEF BodyEnds, Drained, normalizer, history
<1>6. CASE CloseStream
  BY <1>1, <1>6, NoCallWhole DEF CloseStream, Drained, upstream, parser, normalizer, history
<1>. QED
  BY <1>1, <1>2, <1>3, <1>4, <1>5, <1>6, TakeWhole DEF Upstream, Read

-----------------------------------------------------------------------------
(* What the steps of the emitters do to them.                              *)

LEMMA FragmentsAdd ==
    ASSUME NEW c \in Indexes, NEW a \in Nat, NEW b \in Nat
    PROVE  /\ Fragments(c, a) \o Fragments(c, b) = Fragments(c, a + b)
           /\ Fragments(c, a) \in Seq(Token) /\ Len(Fragments(c, a)) = a
           /\ Fragments(c, a) = <<>> <=> a = 0
<1>1. Native(c) \in Token
  BY NativeType
<1>. DEFINE x == [i \in 1 .. a |-> Native(c)]
            y == [i \in 1 .. b |-> Native(c)]
            z == [i \in 1 .. a + b |-> Native(c)]
<1>2. /\ x \in Seq(Token) /\ Len(x) = a /\ y \in Seq(Token) /\ Len(y) = b
      /\ z \in Seq(Token) /\ Len(z) = a + b
      /\ \A i \in 1 .. a : x[i] = Native(c)
      /\ \A i \in 1 .. b : y[i] = Native(c)
      /\ \A i \in 1 .. a + b : z[i] = Native(c)
  BY <1>1
<1>. HIDE DEF x, y, z
<1>. DEFINE xy == x \o y
<1>3. /\ xy \in Seq(Token) /\ Len(xy) = a + b
      /\ \A i \in 1 .. a + b : xy[i] = IF i <= a THEN x[i] ELSE y[i - a]
  BY <1>2, ConcatProperties
<1>. HIDE DEF xy
<1>4. ASSUME NEW i \in 1 .. a + b PROVE xy[i] = z[i]
  <2>1. CASE i <= a
    BY <1>2, <1>3, <2>1
  <2>2. CASE ~(i <= a)
    <3>1. i - a \in 1 .. b
      BY <2>2
    <3>. QED
      BY <1>2, <1>3, <2>2, <3>1
  <2>. QED
    BY <2>1, <2>2
<1>5. xy = z
  BY <1>2, <1>3, <1>4, SeqEqual
<1>6. x = Fragments(c, a) /\ y = Fragments(c, b) /\ z = Fragments(c, a + b)
  BY DEF Fragments, x, y, z
<1>7. x = <<>> <=> a = 0
  BY <1>2
<1>. QED
  BY <1>2, <1>5, <1>6, <1>7 DEF xy

(* What is on its way after a step of the emitter.                         *)
LEMMA ComingAfter ==
    ASSUME UpstreamType, LoneInv, chan' = chan
    PROVE  /\ UNCHANGED queue => Coming' = Coming
           /\ Ready /\ Event.type \in CallTypes =>
                 Coming = {Event} /\ (Consume => Coming' = {} /\ CallsIn(queue') = {})
           /\ Ready /\ Event.type \notin CallTypes /\ Consume =>
                 Coming' = Coming /\ CallsIn(queue') = {}
<1>1. CallsIn(<<>>) = {}
  BY CallsInOne
<1>2. ASSUME Ready, Event.type \in CallTypes
      PROVE  Coming = {Event} /\ (Consume => Coming' = {} /\ CallsIn(queue') = {})
  <2>1. Tail(queue) = <<>> /\ CallsIn(chan) = {} /\ Coming = {Event}
    BY <1>2, LoneCall DEF Ready, Event
  <2>. QED
    BY <1>1, <2>1 DEF Coming, Consume
<1>3. ASSUME Ready, Event.type \notin CallTypes, Consume
      PROVE  Coming' = Coming /\ CallsIn(queue') = {}
  <2>1. CallsIn(queue) = {} /\ CallsIn(Tail(queue)) = {}
    BY <1>3, LoneCall DEF Ready, Event
  <2>. QED
    BY <1>3, <2>1 DEF Coming, Consume
<1>4. UNCHANGED queue => Coming' = Coming
  BY DEF Coming
<1>. QED
  BY <1>2, <1>3, <1>4

(* What a step of an emitter has to show.                                  *)
LEMMA EmittedWhole ==
    ASSUME StreamInv, WholeInv, UNCHANGED <<agent, upstream, closing>>,
           UNCHANGED queue \/ (Ready /\ Consume),
           LoneInv /\ ToldInv => ToldInv'
    PROVE  WholeInv'
<1>1. UNCHANGED <<chan, thinkBuf, heard, asked, seenIndexes>>
  BY DEF upstream, parser, normalizer, history
<1>2. SUFFICES ASSUME ~Has("callClose", heard) PROVE UnclosedInv' /\ LoneInv'
  BY <1>1 DEF WholeInv
<1>3. UnclosedInv /\ LoneInv
  BY <1>2 DEF WholeInv
<1>4. UnclosedInv'
  BY <1>1, <1>3 DEF UnclosedInv, Has
<1>5. LoneInv'
  <2>1. CASE UNCHANGED queue
    BY <1>1, <1>3, <2>1 DEF LoneInv, Coming
  <2>2. CASE Ready /\ Consume
    <3>1. CallsIn(queue') = {} /\ Coming' \subseteq Coming
      BY <1>1, <1>3, <2>2, ComingAfter DEF StreamInv
    <3>. QED
      BY <1>1, <1>3, <3>1 DEF LoneInv
  <2>. QED
    BY <2>1, <2>2
<1>. QED
  BY <1>4, <1>5

LEMMA HalfToldSame ==
    ASSUME NEW e, HalfTold(e), SameItemsOf(e.index), UNCHANGED <<agent, queue, asked>>,
           calls'[e.index] = calls[e.index]
    PROVE  HalfTold(e)'
<1>1. PICK c, i : c = e.index /\ i = calls[c].item + 1
  OBVIOUS
<1>2. OnlyItemOf(c, i, <<>>)
  BY <1>1 DEF HalfTold
<1>3. OnlyItemOf(c, i, <<>>)'
  BY <1>1, <1>2 DEF OnlyItemOf, IsOf, SameItemsOf
<1>4. OnlyItemOf(e.index, calls[e.index].item + 1, <<>>)'
  BY <1>1, <1>3 DEF OnlyItemOf, IsOf
<1>. QED
  BY <1>4 DEF HalfTold, Event

(* A step that leaves the calls and their items alone.                     *)
LEMMA AsideTold ==
    ASSUME StreamInv, LoneInv, ToldInv, UNCHANGED <<agent, upstream, closing, calls>>,
           \A c \in Indexes : SameItemsOf(c),
           UNCHANGED queue \/ (Ready /\ Consume /\ Event.type \notin CallTypes),
           Over' => Over \/ \A c \in Indexes : calls[c].state \in {"absent", "sent"}
    PROVE  ToldInv'
<1>1. UNCHANGED <<chan, asked, seenIndexes>>
  BY DEF upstream, parser, history
<1>2. Coming' = Coming
  BY <1>1, ComingAfter DEF StreamInv
<1>3. Finishing => Finishing'
  BY DEF Finishing, Ready
<1>4. ASSUME NEW e \in Coming PROVE Missing(e)'
  <2>1. Missing(e) /\ e.index \in Indexes /\ e.type \in CallTypes
    BY <1>4, LoneCall DEF ToldInv, StreamInv
  <2>2. CASE ~HalfTold(e)
    BY <1>1, <1>3, <2>1, <2>2, MissingSame
  <2>3. CASE HalfTold(e)
    <3>1. UNCHANGED queue
      BY <2>1, <2>3 DEF HalfTold
    <3>2. HalfTold(e)'
      BY <1>1, <2>1, <2>3, <3>1, HalfToldSame
    <3>. QED
      BY <1>1, <2>1, <3>2 DEF Missing
  <2>. QED
    BY <2>2, <2>3
<1>5. ASSUME NEW c \in Indexes, \A e \in Coming : e.index # c PROVE Settled(c)'
  <2>1. Settled(c)
    BY <1>5 DEF ToldInv
  <2>. QED
    BY <1>1, <1>3, <2>1, SettledSame
<1>. QED
  BY <1>2, <1>4, <1>5 DEF ToldInv, Over

(* A step on one call, after which no event is on its way.                 *)
LEMMA OneSettled ==
    ASSUME NEW c \in Indexes, UNCHANGED <<agent, asked, seenIndexes>>,
           \A d \in Indexes \ {c} : Settled(d) /\ SameItemsOf(d) /\ calls'[d] = calls[d],
           Finishing => Finishing', Coming' = {}, ~Over', Settled(c)'
    PROVE  ToldInv'
<1>1. ASSUME NEW d \in Indexes \ {c} PROVE Settled(d)'
  BY <1>1, SettledSame
<1>. QED
  BY <1>1 DEF ToldInv

(* The emitter is at the event of a call.                                  *)
LEMMA CallAtHand ==
    ASSUME StreamInv, LoneInv, ToldInv, Ready, Event.type \in CallTypes, chan' = chan,
           NEW c, c = Event.index
    PROVE  /\ c \in Indexes /\ Missing(Event) /\ Coming = {Event}
           /\ Consume => Coming' = {}
           /\ \A d \in Indexes \ {c} : Settled(d)
           /\ ~Finishing /\ ~Over /\ Event.delta \in Seq(Token)
<1>1. Coming = {Event} /\ (Consume => Coming' = {})
  BY ComingAfter DEF StreamInv
<1>2. c \in Indexes /\ ~Finishing
  BY EventFacts DEF CallTypes
<1>3. ~Over
  BY <1>2 DEF StreamInv, PhaseInv, Over
<1>4. Missing(Event) /\ Event.delta \in Seq(Token)
  BY <1>1, EventFacts DEF ToldInv
<1>5. ASSUME NEW d \in Indexes \ {c} PROVE Settled(d)
  <2>1. \A e \in Coming : e.index # d
    BY <1>1
  <2>. QED
    BY <2>1 DEF ToldInv
<1>. QED
  BY <1>1, <1>2, <1>3, <1>4, <1>5

(* A call's event is added to what the emitter holds back.                 *)
LEMMA HeldTold ==
    ASSUME StreamInv, LoneInv, ToldInv, asked \in [Indexes -> Nat], agent # "codex",
           Ready, Event.type \in CallTypes, Consume,
           UNCHANGED <<agent, upstream, closing, answer>>,
           NEW c, c = Event.index, NEW acc, calls' = [calls EXCEPT ![c] = acc],
           acc.args = calls[c].args \o Event.delta, acc.owed = calls[c].owed,
           acc.state = "held",
           Event.type = "toolStart" =>
              acc.id = Event.id \/ (Event.id = None /\ acc.id = calls[c].id),
           Event.type = "toolDelta" /\ Event.id = None => acc.id = calls[c].id,
           calls[c].state \in {"open", "filled"} => Finishing
    PROVE  ToldInv'
<1>1. UNCHANGED <<chan, asked, seenIndexes>>
  BY DEF upstream, parser, history
<1>2. /\ c \in Indexes /\ Missing(Event) /\ Coming' = {} /\ ~Finishing /\ ~Over
      /\ \A d \in Indexes \ {c} : Settled(d)
  BY <1>1, CallAtHand
<1>3. PICK n, size : size = Len(Event.delta) /\ n = asked[c] - size
  OBVIOUS
<1>4. /\ size <= asked[c] /\ Told(c, n) /\ c \in seenIndexes /\ Event.delta = Fragments(c, size)
      /\ Event.type = "toolStart" => calls[c].state = "absent" /\ Event.id = Native(c)
      /\ Event.type = "toolDelta" => calls[c].state # "absent" /\ Event.id = None
  <2>1. ~HalfTold(Event)
    BY DEF HalfTold
  <2>. QED
    BY <1>2, <1>3, <2>1 DEF Missing, CallTypes
<1>5. asked[c] \in Nat /\ size \in Nat
  <2>1. Event.delta \in Seq(Token)
    BY EventFacts
  <2>. QED
    BY <1>2, <1>3, <2>1
<1>6. n \in Nat /\ n + size = asked[c]
  BY <1>3, <1>4, <1>5
<1>7. acc.args = Fragments(c, asked[c]) /\ acc.owed = <<>>
  <2>1. calls[c].args = Fragments(c, n) /\ calls[c].owed = <<>>
    BY <1>4 DEF Told
  <2>2. Fragments(c, n) \o Fragments(c, size) = Fragments(c, n + size)
    BY <1>2, <1>5, <1>6, FragmentsAdd
  <2>. QED
    BY <1>4, <1>6, <2>1, <2>2
<1>8. calls[c].state \in {"absent", "held"} /\ NoItemOf(c)
  <2>1. calls[c].state \in {"absent", "held", "open", "filled", "sent"}
    BY <1>2 DEF StreamInv, EmitterType, Accumulators
  <2>. QED
    BY <1>2, <1>4, <2>1 DEF Told
<1>9. acc.id = Native(c)
  BY <1>4, <1>8 DEF Told, CallTypes
<1>10. calls'[c] = acc /\ \A d \in Indexes \ {c} : calls'[d] = calls[d]
  BY <1>2 DEF StreamInv, EmitterType
<1>11. Told(c, asked[c])'
  BY <1>1, <1>7, <1>8, <1>9, <1>10 DEF Told, NoItemOf, IsOf
<1>12. Settled(c)'
  BY <1>1, <1>4, <1>10, <1>11 DEF Settled
<1>13. \A d : SameItemsOf(d)
  BY SameAnswerSameItems
<1>. QED
  BY <1>1, <1>2, <1>10, <1>12, <1>13, OneSettled DEF Over

(* The steps on the items of thinking and of text leave those of calls.    *)
LEMMA BlockTold ==
    ASSUME StreamInv, LoneInv, ToldInv, agent # "gemini", UNCHANGED <<agent, upstream>>,
           NEW whole, BlockStep(whole)
    PROVE  ToldInv' /\ (UNCHANGED queue \/ (Ready /\ Consume)) /\ UNCHANGED closing
<1>1. AnswerType /\ DOMAIN answer.items = 1 .. Len(answer.items) /\ Len(answer.items) \in Nat
  BY DEF StreamInv, AnswerType
<1>. DEFINE Fine == /\ UNCHANGED <<closing, calls>> /\ answer'.phase = answer.phase
                    /\ UNCHANGED queue \/ (Ready /\ Consume /\ Event.type \notin CallTypes)
                    /\ \A c \in Indexes : SameItemsOf(c)
<1>2. ASSUME NEW kind \in {"thinking", "text"}, OpensBlock(kind) PROVE Fine
  <2>1. next = Len(answer.items) /\ WriteOpen(next, kind, None) /\ UNCHANGED <<closing, calls, queue>>
    BY <1>2, Numbered DEF OpensBlock
  <2>2. /\ DOMAIN answer'.items = 1 .. Len(answer.items) + 1
        /\ \A i \in DOMAIN answer.items : answer'.items[i] = answer.items[i]
        /\ answer'.items[Len(answer.items) + 1].kind = kind
        /\ answer'.phase = answer.phase
    <3>1. AnswerType /\ next = Len(answer.items) /\ WriteOpen(next, kind, None)
      BY <1>1, <2>1
    <3>2. answer'.items[Len(answer.items) + 1] =
             [kind |-> kind, open |-> TRUE, content |-> <<>>, whole |-> None, id |-> None]
      BY <3>1, OpenItems
    <3>3. answer'.items[Len(answer.items) + 1].kind = kind
      BY <3>2
    <3>. QED
      BY <3>1, <3>3, OpenItems
  <2>3. \A i \in DOMAIN answer'.items : i \in DOMAIN answer.items \/ i = Len(answer.items) + 1
    BY <1>1, <2>2
  <2>4. \A c \in Indexes : SameItemsOf(c)
    BY <1>1, <2>2, <2>3 DEF SameItemsOf, IsOf
  <2>. QED
    BY <2>1, <2>2, <2>4
<1>3. ASSUME NEW index, NEW kind \in {"thinking", "text"}, ExtendsBlock(index, kind) PROVE Fine
  <2>1. /\ index \in 0 .. Len(answer.items) - 1 /\ answer.items[index + 1].kind = kind
        /\ WriteDelta(index, Event.delta) /\ UNCHANGED <<closing, calls>>
        /\ Ready /\ Consume /\ Event.type = kind
    BY <1>3 DEF ExtendsBlock, IsOpen
  <2>2. /\ DOMAIN answer'.items = DOMAIN answer.items /\ answer'.phase = answer.phase
        /\ \A i \in DOMAIN answer.items :
              /\ answer'.items[i].kind = answer.items[i].kind
              /\ answer'.items[i].id = answer.items[i].id
              /\ answer'.items[i].whole = answer.items[i].whole
              /\ i # index + 1 => answer'.items[i].content = answer.items[i].content
    BY <1>1, <2>1, DeltaItems
  <2>3. \A c \in Indexes : SameItemsOf(c)
    BY <2>1, <2>2 DEF SameItemsOf, IsOf
  <2>. QED
    BY <2>1, <2>2, <2>3 DEF CallTypes
<1>4. ASSUME NEW index, NEW kind \in {"thinking", "text"}, NEW kept, StopsBlock(index, kind, kept)
      PROVE  Fine
  <2>1. /\ index \in 0 .. Len(answer.items) - 1 /\ answer.items[index + 1].kind = kind
        /\ WriteStop(index, kept) /\ UNCHANGED <<closing, calls, queue>>
    BY <1>4 DEF StopsBlock, IsOpen
  <2>2. /\ DOMAIN answer'.items = DOMAIN answer.items /\ answer'.phase = answer.phase
        /\ \A i \in DOMAIN answer.items :
              /\ answer'.items[i].kind = answer.items[i].kind
              /\ answer'.items[i].id = answer.items[i].id
              /\ answer'.items[i].content = answer.items[i].content
              /\ i # index + 1 => answer'.items[i].whole = answer.items[i].whole
    BY <1>1, <2>1, StopItems
  <2>3. \A c \in Indexes : SameItemsOf(c)
    BY <2>1, <2>2 DEF SameItemsOf, IsOf
  <2>. QED
    BY <2>1, <2>2, <2>3
<1>5. Fine
  <2>. HIDE DEF Fine
  <2>. QED
    BY <1>2, <1>3, <1>4 DEF BlockStep
<1>. QED
  BY <1>5, AsideTold DEF Over

(* A step that touches the items of one call only.                         *)
LEMMA FinishedTold ==
    ASSUME StreamInv, LoneInv, ToldInv, Finishing, UNCHANGED <<agent, upstream, queue, closing>>,
           NEW c \in Indexes, NEW acc, calls' = [calls EXCEPT ![c] = acc],
           acc.state # "absent", calls[c].state # "absent",
           \A d \in Indexes \ {c} : SameItemsOf(d),
           \A n : Told(c, n) => Told(c, n)', answer'.phase # "over"
    PROVE  ToldInv'
<1>1. UNCHANGED <<chan, asked, seenIndexes>> /\ Finishing'
  BY DEF upstream, parser, history, Finishing
<1>2. Coming = {} /\ Coming' = {}
  BY <1>1 DEF LoneInv, Finishing, Coming
<1>3. \A d \in Indexes : Settled(d)
  BY <1>2 DEF ToldInv
<1>4. calls'[c] = acc /\ \A d \in Indexes \ {c} : calls'[d] = calls[d]
  BY DEF StreamInv, EmitterType
<1>5. PICK n : n = asked[c]
  OBVIOUS
<1>6. Told(c, n)'
  BY <1>3, <1>5 DEF Settled
<1>7. Told(c, asked[c])'
  BY <1>1, <1>5, <1>6 DEF Told
<1>8. Settled(c)'
  BY <1>1, <1>3, <1>4, <1>7 DEF Settled
<1>. QED
  BY <1>1, <1>2, <1>3, <1>4, <1>8, OneSettled DEF Over

(* The item of a call carries its id.                                      *)
LEMMA OtherIds ==
    ASSUME NEW c, NEW d, c # d
    PROVE  Native(c) # Native(d)
<1>1. Native(c).n = c /\ Native(d).n = d
  BY DEF Native
<1>. QED
  BY <1>1

(* The one item of a call is opened,                                       *)
LEMMA CallOpened ==
    ASSUME AnswerType, NEW index, index = Len(answer.items), NEW c, NoItemOf(c),
           WriteOpen(index, "call", Native(c))
    PROVE  /\ OnlyItemOf(c, index + 1, <<>>)' /\ answer'.phase = answer.phase
           /\ \A d : d # c => SameItemsOf(d)
<1>1. DOMAIN answer.items = 1 .. Len(answer.items) /\ Len(answer.items) \in Nat
  BY DEF AnswerType
<1>2. /\ DOMAIN answer'.items = 1 .. Len(answer.items) + 1
      /\ \A i \in DOMAIN answer.items : answer'.items[i] = answer.items[i]
      /\ answer'.items[Len(answer.items) + 1] =
            [kind |-> "call", open |-> TRUE, content |-> <<>>, whole |-> None, id |-> Native(c)]
      /\ answer'.phase = answer.phase
  BY OpenItems
<1>3. PICK k : k = Len(answer.items) + 1
  OBVIOUS
<1>4. /\ answer'.items[k].kind = "call" /\ answer'.items[k].content = <<>>
      /\ answer'.items[k].id = Native(c)
  BY <1>2, <1>3
<1>5. /\ k \in DOMAIN answer'.items /\ index + 1 = k
      /\ \A i \in DOMAIN answer'.items : i \in DOMAIN answer.items \/ i = k
      /\ DOMAIN answer.items \subseteq DOMAIN answer'.items
  BY <1>1, <1>2, <1>3
<1>6. OnlyItemOf(c, index + 1, <<>>)'
  BY <1>2, <1>4, <1>5 DEF OnlyItemOf, NoItemOf, IsOf
<1>7. ASSUME NEW d, d # c PROVE SameItemsOf(d)
  BY <1>2, <1>4, <1>5, <1>7, OtherIds DEF SameItemsOf, IsOf
<1>. QED
  BY <1>2, <1>6, <1>7

(* extended,                                                               *)
LEMMA CallExtended ==
    ASSUME AnswerType, NEW index \in 0 .. Len(answer.items) - 1, NEW c, NEW content,
           OnlyItemOf(c, index + 1, content), NEW delta, WriteDelta(index, delta)
    PROVE  /\ OnlyItemOf(c, index + 1, content \o delta)' /\ answer'.phase = answer.phase
           /\ \A d : d # c => SameItemsOf(d)
<1>1. PICK k : k = index + 1
  OBVIOUS
<1>2. /\ DOMAIN answer'.items = DOMAIN answer.items /\ answer'.phase = answer.phase
      /\ k \in DOMAIN answer.items
      /\ \A i \in DOMAIN answer.items :
            /\ answer'.items[i].kind = answer.items[i].kind
            /\ answer'.items[i].id = answer.items[i].id
            /\ answer'.items[i].whole = answer.items[i].whole
            /\ i # k => answer'.items[i].content = answer.items[i].content
      /\ answer'.items[k].content = answer.items[k].content \o delta
  BY <1>1, DeltaItems
<1>3. OnlyItemOf(c, k, content)
  BY <1>1
<1>4. OnlyItemOf(c, k, content \o delta)'
  BY <1>2, <1>3 DEF OnlyItemOf, IsOf
<1>5. ASSUME NEW d, d # c PROVE SameItemsOf(d)
  BY <1>2, <1>3, <1>5, OtherIds DEF SameItemsOf, OnlyItemOf, IsOf
<1>. QED
  BY <1>1, <1>2, <1>4, <1>5

(* and stopped.                                                            *)
LEMMA CallStopped ==
    ASSUME AnswerType, NEW index \in 0 .. Len(answer.items) - 1, NEW c, NEW content,
           OnlyItemOf(c, index + 1, content), NEW whole, WriteStop(index, whole)
    PROVE  /\ OnlyItemOf(c, index + 1, content)' /\ answer'.phase = answer.phase
           /\ answer'.items[index + 1].whole = whole /\ index + 1 \in DOMAIN answer'.items
           /\ \A d : d # c => SameItemsOf(d)
<1>1. PICK k : k = index + 1
  OBVIOUS
<1>2. /\ DOMAIN answer'.items = DOMAIN answer.items /\ answer'.phase = answer.phase
      /\ k \in DOMAIN answer.items
      /\ \A i \in DOMAIN answer.items :
            /\ answer'.items[i].kind = answer.items[i].kind
            /\ answer'.items[i].id = answer.items[i].id
            /\ answer'.items[i].content = answer.items[i].content
            /\ i # k => answer'.items[i].whole = answer.items[i].whole
      /\ answer'.items[k].whole = whole
  BY <1>1, StopItems
<1>3. OnlyItemOf(c, k, content)
  BY <1>1
<1>4. OnlyItemOf(c, k, content)'
  BY <1>2, <1>3 DEF OnlyItemOf, IsOf
<1>5. ASSUME NEW d, d # c PROVE SameItemsOf(d)
  BY <1>2, <1>3, <1>5, OtherIds DEF SameItemsOf, OnlyItemOf, IsOf
<1>. QED
  BY <1>1, <1>2, <1>4, <1>5

(* The start of an answer, and its end.                                    *)
LEMMA StartTold ==
    ASSUME StreamInv, LoneInv, ToldInv, UNCHANGED <<agent, upstream, queue, closing, calls>>,
           WriteBegin
    PROVE  ToldInv'
<1>1. answer'.items = answer.items /\ answer'.phase = "live"
  BY DEF WriteBegin, StreamInv, AnswerType
<1>2. ~Over'
  BY <1>1 DEF Over
<1>. QED
  BY <1>1, <1>2, SameAnswerSameItems, AsideTold

LEMMA EndTold ==
    ASSUME StreamInv, LoneInv, ToldInv, UNCHANGED <<agent, upstream, queue, closing, calls>>,
           \A c \in Indexes : calls[c].state \in {"absent", "sent"}, NEW reason, WriteEnd(reason)
    PROVE  ToldInv'
<1>1. answer'.items = answer.items
  BY DEF WriteEnd, StreamInv, AnswerType
<1>. QED
  BY <1>1, SameAnswerSameItems, AsideTold

LEMMA PassedTold ==
    ASSUME StreamInv, LoneInv, ToldInv, UNCHANGED <<agent, upstream, closing, calls, answer>>,
           Ready, Consume, Event.type \in {"done", "error"}
    PROVE  ToldInv'
<1>1. Event.type \notin CallTypes
  BY DEF CallTypes
<1>. QED
  BY <1>1, SameAnswerSameItems, AsideTold DEF Over

LEMMA ClaudeHoldTold ==
    ASSUME StreamInv, LoneInv, ToldInv, asked \in [Indexes -> Nat], agent = "claude",
           UNCHANGED <<agent, upstream>>, Claude!HoldCall \/ Claude!HoldArguments
    PROVE  ToldInv' /\ Ready /\ Consume /\ UNCHANGED closing
<1>. DEFINE acc == Claude!Accumulated(Event)
<1>1. /\ Ready /\ Event.type \in CallTypes /\ Consume /\ UNCHANGED <<closing, answer>>
      /\ calls' = [calls EXCEPT ![Event.index] = acc]
  BY DEF Claude!HoldCall, Claude!HoldArguments, Claude!Is, Claude!Ready, Claude!Consume,
         Claude!Event, Ready, Consume, Event, CallTypes
<1>2. PICK c : c = Event.index
  OBVIOUS
<1>3. c \in Indexes /\ calls[c] \in Accumulators
  BY <1>1, <1>2, EventFacts DEF CallTypes, StreamInv, EmitterType
<1>4. acc = [calls[c] EXCEPT !.id = IF Event.id # None THEN Event.id ELSE calls[c].id,
                             !.args = calls[c].args \o Event.delta,
                             !.state = "held"]
  BY <1>2 DEF Claude!Accumulated
<1>5. /\ acc.args = calls[c].args \o Event.delta /\ acc.owed = calls[c].owed
      /\ acc.state = "held"
      /\ acc.id = IF Event.id # None THEN Event.id ELSE calls[c].id
  BY <1>3, <1>4 DEF Accumulators
<1>6. calls[c].state \in {"open", "filled"} => Finishing
  BY <1>3, ClaudeCalls
<1>. HIDE DEF acc
<1>7. calls' = [calls EXCEPT ![c] = acc]
  BY <1>1, <1>2
<1>. QED
  BY <1>1, <1>2, <1>5, <1>6, <1>7, HeldTold

LEMMA ClaudeCallTold ==
    ASSUME StreamInv, LoneInv, ToldInv, agent = "claude", UNCHANGED <<agent, upstream>>,
           NEW c \in Indexes,
           Claude!OpenCall(c) \/ Claude!CallArguments(c) \/ Claude!CloseCall(c)
    PROVE  ToldInv' /\ UNCHANGED <<queue, closing>>
<1>1. Claude!BlocksClosed /\ UNCHANGED <<queue, closing>>
  BY DEF Claude!OpenCall, Claude!CallArguments, Claude!CloseCall
<1>2. Finishing /\ answer.phase # "over" /\ Finishing'
  BY <1>1, ClaudeEndingFacts DEF Finishing
<1>3. AnswerType /\ calls \in [Indexes -> Accumulators] /\ calls[c] \in Accumulators
  BY DEF StreamInv, EmitterType
<1>4. PICK args : args = calls[c].args
  OBVIOUS
<1>5. CASE Claude!OpenCall(c)
  <2>. DEFINE acc == [calls[c] EXCEPT !.state = "open", !.item = next]
  <2>1. /\ calls[c].state = "held" /\ calls' = [calls EXCEPT ![c].state = "open", ![c].item = next]
        /\ WriteOpen(next, "call", calls[c].id)
    BY <1>5 DEF Claude!OpenCall, Claude!WriteOpen, WriteOpen
  <2>2. calls' = [calls EXCEPT ![c] = acc]
    BY <1>3, <2>1
  <2>3. /\ acc.state = "open" /\ acc.item = next /\ acc.args = calls[c].args
        /\ acc.owed = calls[c].owed /\ acc.id = calls[c].id
    BY <1>3 DEF Accumulators
  <2>. HIDE DEF acc
  <2>4. Settled(c)
    <3>1. Coming = {}
      BY <1>2 DEF LoneInv, Finishing
    <3>. QED
      BY <3>1 DEF ToldInv
  <2>5. NoItemOf(c) /\ calls[c].id = Native(c)
    BY <2>1, <2>4 DEF Settled, Told
  <2>6. PICK index : index = next
    OBVIOUS
  <2>7. WriteOpen(index, "call", Native(c)) /\ index = Len(answer.items)
    BY <2>1, <2>5, <2>6, ClaudeCalls
  <2>8. /\ OnlyItemOf(c, index + 1, <<>>)' /\ answer'.phase = answer.phase
        /\ \A d : d # c => SameItemsOf(d)
    BY <1>3, <2>5, <2>7, CallOpened
  <2>9. ASSUME NEW n, Told(c, n) PROVE Told(c, n)'
    <3>1. calls'[c] = acc
      BY <1>3, <2>2
    <3>2. OnlyItemOf(c, calls[c].item + 1, <<>>)'
      BY <2>3, <2>6, <2>8, <3>1 DEF OnlyItemOf, IsOf
    <3>. QED
      BY <2>1, <2>3, <2>9, <3>1, <3>2 DEF Told
  <2>. QED
    BY <1>1, <1>2, <2>1, <2>2, <2>3, <2>8, <2>9, FinishedTold
<1>6. CASE Claude!CallArguments(c)
  <2>. DEFINE acc == [calls[c] EXCEPT !.state = "filled"]
  <2>1. /\ calls[c].state = "open" /\ calls' = [calls EXCEPT ![c].state = "filled"]
        /\ WriteDelta(calls[c].item, calls[c].args)
    BY <1>6 DEF Claude!CallArguments, Claude!WriteDelta, WriteDelta
  <2>2. calls' = [calls EXCEPT ![c] = acc]
    BY <1>3, <2>1
  <2>3. /\ acc.state = "filled" /\ acc.item = calls[c].item /\ acc.args = calls[c].args
        /\ acc.owed = calls[c].owed /\ acc.id = calls[c].id
    BY <1>3 DEF Accumulators
  <2>. HIDE DEF acc
  <2>4. PICK index : index = calls[c].item
    OBVIOUS
  <2>5. index \in 0 .. Len(answer.items) - 1 /\ WriteDelta(index, args)
    BY <1>4, <2>1, <2>4 DEF StreamInv, OpenInv, Announced, IsOpen
  <2>6. ASSUME NEW n, Told(c, n)
        PROVE  Told(c, n)' /\ answer'.phase = answer.phase /\ \A d : d # c => SameItemsOf(d)
    <3>1. OnlyItemOf(c, index + 1, <<>>) /\ calls[c].args \in Seq(Token)
      BY <1>3, <2>1, <2>4, <2>6 DEF Told, Accumulators
    <3>2. <<>> \o args = args
      BY <1>4, <3>1
    <3>3. /\ OnlyItemOf(c, index + 1, args)' /\ answer'.phase = answer.phase
          /\ \A d : d # c => SameItemsOf(d)
      <4>1. OnlyItemOf(c, index + 1, <<>> \o args)'
        BY <1>3, <2>5, <3>1, CallExtended
      <4>2. OnlyItemOf(c, index + 1, args)'
        BY <3>2, <4>1 DEF OnlyItemOf
      <4>. QED
        BY <1>3, <2>5, <3>1, <4>2, CallExtended
    <3>4. calls'[c] = acc
      BY <1>3, <2>2
    <3>5. OnlyItemOf(c, calls[c].item + 1, calls[c].args)'
      BY <1>4, <2>3, <2>4, <3>3, <3>4 DEF OnlyItemOf, IsOf
    <3>. QED
      BY <2>1, <2>3, <2>6, <3>3, <3>4, <3>5 DEF Told
  <2>7. Told(c, asked[c])
    <3>1. Coming = {}
      BY <1>2 DEF LoneInv, Finishing
    <3>. QED
      BY <3>1 DEF ToldInv, Settled
  <2>8. answer'.phase = answer.phase /\ \A d : d # c => SameItemsOf(d)
    BY <2>6, <2>7
  <2>. QED
    BY <1>1, <1>2, <2>1, <2>2, <2>3, <2>6, <2>8, FinishedTold
<1>7. CASE Claude!CloseCall(c)
  <2>. DEFINE acc == [calls[c] EXCEPT !.state = "sent"]
  <2>1. /\ \/ calls[c].state = "filled"
           \/ calls[c].state = "open" /\ (calls[c].args = <<>> \/ calls[c].args \notin Braced)
        /\ calls' = [calls EXCEPT ![c].state = "sent"] /\ WriteStop(calls[c].item, None)
    BY <1>7 DEF Claude!CloseCall, Claude!Sendable, Claude!WriteStop, WriteStop
  <2>2. calls' = [calls EXCEPT ![c] = acc]
    BY <1>3, <2>1
  <2>3. /\ acc.state = "sent" /\ acc.args = calls[c].args
        /\ acc.owed = calls[c].owed /\ acc.id = calls[c].id
    BY <1>3 DEF Accumulators
  <2>. HIDE DEF acc
  <2>4. PICK index : index = calls[c].item
    OBVIOUS
  <2>5. index \in 0 .. Len(answer.items) - 1 /\ WriteStop(index, None)
    BY <2>1, <2>4 DEF StreamInv, OpenInv, Announced, IsOpen
  <2>6. ASSUME NEW n, Told(c, n)
        PROVE  Told(c, n)' /\ answer'.phase = answer.phase /\ \A d : d # c => SameItemsOf(d)
    <3>1. PICK content \in Delivered(agent, args) : OnlyItemOf(c, index + 1, content)
      <4>1. args \in Delivered(agent, args)
        BY DEF Delivered
      <4>2. args \notin Braced => <<>> \in Delivered(agent, args)
        BY DEF Delivered
      <4>. QED
        BY <1>4, <2>1, <2>4, <2>6, <4>1, <4>2 DEF Told
    <3>2. /\ OnlyItemOf(c, index + 1, content)' /\ answer'.phase = answer.phase
          /\ index + 1 \in DOMAIN answer'.items
          /\ \A d : d # c => SameItemsOf(d)
      BY <1>3, <2>5, <3>1, CallStopped
    <3>3. calls'[c] = acc
      BY <1>3, <2>2
    <3>4. content \in Delivered(agent, calls'[c].args)
      BY <1>4, <2>3, <3>1, <3>3
    <3>. QED
      BY <1>2, <2>1, <2>3, <2>6, <3>2, <3>3, <3>4 DEF Told
  <2>7. Told(c, asked[c])
    <3>1. Coming = {}
      BY <1>2 DEF LoneInv, Finishing
    <3>. QED
      BY <3>1 DEF ToldInv, Settled
  <2>8. answer'.phase = answer.phase /\ \A d : d # c => SameItemsOf(d)
    BY <2>6, <2>7
  <2>. QED
    BY <1>1, <1>2, <2>1, <2>2, <2>3, <2>6, <2>8, FinishedTold
<1>. QED
  BY <1>1, <1>5, <1>6, <1>7

LEMMA ClaudeWhole ==
    ASSUME StreamInv, WholeInv, agent = "claude", UNCHANGED <<agent, upstream>>, Claude!Step
    PROVE  WholeInv'
<1>1. asked \in [Indexes -> Nat]
  BY DEF WholeInv
<1>2. CASE Claude!StartMessage
  <2>1. UNCHANGED <<queue, closing, calls>> /\ WriteBegin
    BY <1>2 DEF Claude!StartMessage, Claude!WriteBegin, WriteBegin
  <2>. QED
    BY <2>1, StartTold, EmittedWhole
<1>3. CASE \/ Claude!OpenThinking \/ Claude!OpenText \/ Claude!ThinkingDelta
           \/ Claude!TextDelta \/ Claude!CloseThinking \/ Claude!CloseText
  <2>1. BlockStep(None)
    BY <1>3, ClaudeBlocks
  <2>2. (UNCHANGED queue \/ (Ready /\ Consume)) /\ UNCHANGED closing
    BY <2>1 DEF BlockStep, OpensBlock, ExtendsBlock, StopsBlock
  <2>. QED
    BY <2>1, <2>2, BlockTold, EmittedWhole
<1>4. CASE Claude!HoldCall \/ Claude!HoldArguments
  <2>1. Ready /\ Consume /\ UNCHANGED closing
    BY <1>4 DEF Claude!HoldCall, Claude!HoldArguments, Claude!Is, Claude!Ready, Claude!Consume,
                Ready, Consume
  <2>. QED
    BY <1>1, <1>4, <2>1, ClaudeHoldTold, EmittedWhole
<1>5. CASE Claude!PassEnd
  <2>1. /\ Ready /\ Consume /\ Event.type \in {"done", "error"}
        /\ UNCHANGED <<closing, calls, answer>>
    BY <1>5 DEF Claude!PassEnd, Claude!Is, Claude!Ready, Claude!Event, Claude!Consume,
                Claude!emitter, Ready, Event, Consume
  <2>. QED
    BY <2>1, PassedTold, EmittedWhole
<1>6. CASE Claude!MessageStop
  <2>1. /\ \A c \in Indexes : calls[c].state \in {"absent", "sent"}
        /\ WriteEnd(Claude!StopReason(closing)) /\ UNCHANGED <<queue, closing, calls>>
    BY <1>6 DEF Claude!MessageStop, Claude!WriteEnd, Claude!emitter, WriteEnd
  <2>2. PICK reason : reason = Claude!StopReason(closing)
    OBVIOUS
  <2>. QED
    BY <2>1, <2>2, EndTold, EmittedWhole
<1>7. ASSUME NEW c \in Indexes,
             Claude!OpenCall(c) \/ Claude!CallArguments(c) \/ Claude!CloseCall(c)
      PROVE  WholeInv'
  <2>1. UNCHANGED <<queue, closing>>
    BY <1>7 DEF Claude!OpenCall, Claude!CallArguments, Claude!CloseCall
  <2>. QED
    BY <1>7, <2>1, ClaudeCallTold, EmittedWhole
<1>. QED
  BY <1>2, <1>3, <1>4, <1>5, <1>6, <1>7 DEF Claude!Step, Claude!Emit, Claude!Done

(* CodexEmitter announces a call when its start comes, and sends its first *)
(* fragments before it looks at the next event.                            *)
LEMMA CodexAddTold ==
    ASSUME StreamInv, LoneInv, ToldInv, asked \in [Indexes -> Nat], agent = "codex",
           UNCHANGED <<agent, upstream>>, Codex!AddCall
    PROVE  ToldInv' /\ UNCHANGED closing /\ (UNCHANGED queue \/ (Ready /\ Consume))
<1>. DEFINE acc == Codex!Accumulated(Event)
            added == [acc EXCEPT !.item = next, !.state = "open", !.owed = Event.delta]
<1>1. /\ Ready /\ Event.type = "toolStart" /\ calls[Event.index].owed = <<>>
      /\ calls' = [calls EXCEPT ![Event.index] = added]
      /\ WriteOpen(next, "call", acc.id)
      /\ IF Event.delta = <<>> THEN Consume ELSE UNCHANGED queue
      /\ UNCHANGED closing
  BY DEF Codex!AddCall, Codex!Is, Codex!Ready, Codex!Event, Codex!Consume, Codex!WriteOpen,
         Ready, Event, Consume, WriteOpen
<1>2. UNCHANGED <<chan, asked, seenIndexes>>
  BY DEF upstream, parser, history
<1>3. PICK c, delta : c = Event.index /\ delta = Event.delta
  OBVIOUS
<1>4. /\ c \in Indexes /\ Missing(Event) /\ Coming = {Event} /\ (Consume => Coming' = {})
      /\ \A d \in Indexes \ {c} : Settled(d)
      /\ ~Finishing /\ ~Over /\ delta \in Seq(Token)
  BY <1>1, <1>2, <1>3, CallAtHand DEF CallTypes
<1>5. /\ Told(c, asked[c] - Len(delta)) /\ Len(delta) <= asked[c]
      /\ calls[c].state = "absent" /\ Event.id = Native(c)
      /\ c \in seenIndexes /\ delta = Fragments(c, Len(delta))
  <2>1. ~HalfTold(Event)
    BY <1>1 DEF HalfTold
  <2>. QED
    BY <1>1, <1>3, <1>4, <2>1 DEF Missing
<1>6. /\ calls[c].args = <<>> /\ calls[c].owed = <<>> /\ NoItemOf(c) /\ calls[c].id = None
      /\ asked[c] = Len(delta)
  <2>1. /\ calls[c].args = Fragments(c, asked[c] - Len(delta)) /\ asked[c] - Len(delta) = 0
        /\ calls[c].owed = <<>> /\ NoItemOf(c) /\ calls[c].id = None
    BY <1>5 DEF Told
  <2>2. Fragments(c, 0) = <<>>
    BY <1>4, FragmentsAdd
  <2>3. asked[c] \in Nat /\ Len(delta) \in Nat
    BY <1>4
  <2>. QED
    BY <2>1, <2>2, <2>3
<1>7. /\ acc.args = delta /\ acc.id = Native(c) /\ acc \in Accumulators
  <2>1. /\ calls[c] \in Accumulators /\ acc \in Accumulators
    BY <1>1, <1>3, CodexAccumulated
  <2>2. acc = [calls[c] EXCEPT !.id = IF Event.id # None THEN Event.id ELSE calls[c].id,
                               !.args = calls[c].args \o Event.delta,
                               !.state = IF calls[c].state = "absent" THEN "held"
                                         ELSE calls[c].state]
    BY <1>3 DEF Codex!Accumulated
  <2>3. /\ acc.args = calls[c].args \o Event.delta
        /\ acc.id = IF Event.id # None THEN Event.id ELSE calls[c].id
    BY <2>1, <2>2 DEF Accumulators
  <2>4. <<>> \o delta = delta
    BY <1>4
  <2>. QED
    BY <1>3, <1>5, <1>6, <2>1, <2>3, <2>4
<1>. HIDE DEF acc
<1>8. /\ added.args = delta /\ added.id = Native(c) /\ added.item = next
      /\ added.state = "open" /\ added.owed = delta
  BY <1>3, <1>7 DEF Accumulators
<1>. HIDE DEF added
<1>9. calls'[c] = added /\ \A d \in Indexes \ {c} : calls'[d] = calls[d]
  BY <1>1, <1>3, <1>4 DEF StreamInv, EmitterType
<1>10. PICK index : index = next
  OBVIOUS
<1>11. AnswerType /\ index = Len(answer.items) /\ WriteOpen(index, "call", Native(c))
  BY <1>1, <1>7, <1>10, CodexCalls DEF StreamInv
<1>12. /\ OnlyItemOf(c, index + 1, <<>>)' /\ answer'.phase = answer.phase
       /\ \A d : d # c => SameItemsOf(d)
  BY <1>6, <1>11, CallOpened
<1>13. OnlyItemOf(c, calls[c].item + 1, <<>>)'
  BY <1>8, <1>9, <1>10, <1>12 DEF OnlyItemOf, IsOf
<1>14. ~Over'
  BY <1>4, <1>12 DEF Over
<1>15. CASE delta = <<>>
  <2>1. Consume /\ Coming' = {}
    BY <1>1, <1>3, <1>4, <1>15
  <2>2. added.args = Fragments(c, asked[c])
    BY <1>5, <1>6, <1>8
  <2>3. Told(c, asked[c])'
    BY <1>2, <1>8, <1>9, <1>13, <1>15, <2>2 DEF Told
  <2>4. Settled(c)'
    BY <1>2, <1>5, <1>8, <1>9, <2>3 DEF Settled
  <2>5. ToldInv'
    BY <1>2, <1>4, <1>9, <1>12, <1>14, <2>1, <2>4, OneSettled
  <2>. QED
    BY <1>1, <2>1, <2>5
<1>16. CASE delta # <<>>
  <2>1. UNCHANGED <<queue, closing>>
    BY <1>1, <1>3, <1>16
  <2>2. Coming' = {Event}
    BY <1>2, <1>4, <2>1 DEF Coming
  <2>3. PICK e : e = Event
    OBVIOUS
  <2>4. Event' = e /\ queue' # <<>>
    BY <1>1, <2>1, <2>3 DEF Event, Ready
  <2>5. HalfTold(e)'
    BY <1>1, <1>2, <1>3, <1>6, <1>8, <1>9, <1>13, <1>16, <2>3, <2>4 DEF HalfTold
  <2>6. Missing(e)'
    BY <1>1, <1>2, <1>3, <1>5, <2>3, <2>5 DEF Missing
  <2>7. ASSUME NEW d \in Indexes, \A f \in Coming' : f.index # d PROVE Settled(d)'
    <3>1. d # c
      BY <1>3, <2>2, <2>7
    <3>. QED
      BY <1>2, <1>4, <1>9, <1>12, <3>1, SettledSame
  <2>. QED
    BY <1>14, <2>1, <2>2, <2>3, <2>6, <2>7 DEF ToldInv
<1>. QED
  BY <1>15, <1>16

LEMMA CodexArgumentsTold ==
    ASSUME StreamInv, LoneInv, ToldInv, asked \in [Indexes -> Nat], agent = "codex",
           UNCHANGED <<agent, upstream>>,
           Codex!FirstArguments \/ Codex!RepeatedStart \/ Codex!ArgumentsDelta
    PROVE  ToldInv' /\ UNCHANGED closing /\ Ready /\ Consume
<1>1. /\ Ready /\ Event.type \in CallTypes /\ Consume /\ UNCHANGED closing
  BY DEF Codex!FirstArguments, Codex!RepeatedStart, Codex!ArgumentsDelta, CallTypes,
         Codex!Is, Codex!Ready, Codex!Event, Codex!Consume, Ready, Event, Consume
<1>2. UNCHANGED <<chan, asked, seenIndexes>>
  BY DEF upstream, parser, history
<1>3. PICK c, delta : c = Event.index /\ delta = Event.delta
  OBVIOUS
<1>4. /\ c \in Indexes /\ Missing(Event) /\ Coming' = {}
      /\ \A d \in Indexes \ {c} : Settled(d)
      /\ ~Finishing /\ ~Over /\ delta \in Seq(Token)
  BY <1>1, <1>2, <1>3, CallAtHand
<1>5. /\ AnswerType /\ calls \in [Indexes -> Accumulators] /\ calls[c] \in Accumulators
      /\ calls[c].item # None => calls[c].state \in {"open", "sent"}
      /\ calls[c].state = "sent" => Finishing /\ calls[c].state # "filled"
      /\ calls[c].state = "open" => IsOpen(calls[c].item, "call")
  BY <1>4, CodexCalls DEF StreamInv, OpenInv, Announced
<1>6. c \in seenIndexes /\ delta = Fragments(c, Len(delta))
  BY <1>3, <1>4 DEF Missing
<1>7. PICK index, content : index = calls[c].item /\ content = calls[c].args
  OBVIOUS
(* The event's fragments are written to the call's one item.               *)
<1>8. ASSUME NEW acc, calls' = [calls EXCEPT ![c] = acc],
             acc.state = "open", acc.item = index, acc.owed = <<>>, acc.id = Native(c),
             acc.args = Fragments(c, asked[c]), calls[c].state = "open",
             NEW old, OnlyItemOf(c, index + 1, old), old \o delta = acc.args,
             WriteDelta(index, delta)
      PROVE  ToldInv'
  <2>1. index \in 0 .. Len(answer.items) - 1
    BY <1>5, <1>7, <1>8 DEF IsOpen
  <2>2. /\ OnlyItemOf(c, index + 1, old \o delta)' /\ answer'.phase = answer.phase
        /\ \A d : d # c => SameItemsOf(d)
    BY <1>5, <1>8, <2>1, CallExtended
  <2>3. calls'[c] = acc /\ \A d \in Indexes \ {c} : calls'[d] = calls[d]
    BY <1>4, <1>5, <1>8
  <2>4. OnlyItemOf(c, calls[c].item + 1, calls[c].args)'
    BY <1>8, <2>2, <2>3 DEF OnlyItemOf, IsOf
  <2>5. Told(c, asked[c])'
    BY <1>2, <1>8, <2>3, <2>4 DEF Told
  <2>6. Settled(c)'
    BY <1>2, <1>6, <1>8, <2>3, <2>5 DEF Settled
  <2>7. ~Over'
    BY <1>4, <2>2 DEF Over
  <2>. QED
    BY <1>2, <1>4, <2>2, <2>3, <2>6, <2>7, OneSettled
<1>9. CASE Codex!FirstArguments
  <2>. DEFINE acc == [calls[c] EXCEPT !.owed = <<>>]
  <2>1. /\ calls[c].owed # <<>> /\ WriteDelta(calls[c].item, calls[c].owed)
        /\ calls' = [calls EXCEPT ![c].owed = <<>>]
    BY <1>3, <1>9 DEF Codex!FirstArguments, Codex!WriteDelta, Codex!Event, WriteDelta, Event
  <2>2. calls' = [calls EXCEPT ![c] = acc]
    BY <2>1
  <2>3. HalfTold(Event)
    BY <1>3, <1>4, <2>1 DEF Missing, Told
  <2>4. /\ calls[c].args = delta /\ calls[c].owed = delta /\ calls[c].id = Native(c)
        /\ calls[c].state = "open" /\ OnlyItemOf(c, index + 1, <<>>)
        /\ asked[c] = Len(delta)
    BY <1>3, <1>7, <2>3 DEF HalfTold
  <2>5. /\ acc.state = calls[c].state /\ acc.item = calls[c].item /\ acc.owed = <<>>
        /\ acc.id = calls[c].id /\ acc.args = calls[c].args
    BY <1>5 DEF Accumulators
  <2>. HIDE DEF acc
  <2>6. <<>> \o delta = delta
    BY <1>4
  <2>7. acc.args = Fragments(c, asked[c])
    BY <1>6, <2>4, <2>5
  <2>8. WriteDelta(index, delta)
    BY <1>7, <2>1, <2>4
  <2>9. PICK old : old = <<>>
    OBVIOUS
  <2>10. OnlyItemOf(c, index + 1, old) /\ old \o delta = acc.args
    BY <2>4, <2>5, <2>6, <2>9
  <2>11. /\ acc.state = "open" /\ acc.item = index /\ acc.owed = <<>> /\ acc.id = Native(c)
    BY <1>7, <2>4, <2>5
  <2>12. ToldInv'
    BY <1>8, <2>2, <2>4, <2>7, <2>8, <2>10, <2>11
  <2>. QED
    BY <1>1, <2>12
<1>10. CASE Codex!RepeatedStart
  <2>1. Event.type = "toolStart" /\ calls[c].owed = <<>> /\ calls[c].item # None
    BY <1>3, <1>10 DEF Codex!RepeatedStart, Codex!Is, Codex!Event, Event
  <2>2. ~HalfTold(Event)
    BY <1>3, <2>1 DEF HalfTold
  <2>3. calls[c].state = "absent"
    BY <1>3, <1>4, <2>1, <2>2 DEF Missing
  <2>. QED
    BY <1>5, <2>1, <2>3
<1>11. CASE Codex!ArgumentsDelta
  <2>. DEFINE acc == Codex!Accumulated(Event)
  <2>1. /\ Event.type = "toolDelta" /\ calls' = [calls EXCEPT ![c] = acc]
        /\ IF calls[c].item # None /\ delta # <<>> THEN WriteDelta(calls[c].item, delta)
                                                    ELSE UNCHANGED answer
    BY <1>3, <1>11 DEF Codex!ArgumentsDelta, Codex!WriteDelta, Codex!Is, Codex!Event,
                       WriteDelta, Event
  <2>2. /\ Told(c, asked[c] - Len(delta)) /\ Len(delta) <= asked[c]
        /\ calls[c].state # "absent" /\ Event.id = None /\ delta # <<>>
    <3>1. ~HalfTold(Event)
      BY <2>1 DEF HalfTold
    <3>. QED
      BY <1>3, <1>4, <2>1, <3>1 DEF Missing
  <2>3. calls[c].state = "open"
    <3>1. calls[c].state \in {"held", "open", "filled", "sent"}
      BY <1>5, <2>2 DEF Accumulators
    <3>2. calls[c].state \notin {"held", "sent", "filled"}
      BY <1>4, <2>2, CodexCalls DEF Told
    <3>. QED
      BY <3>1, <3>2
  <2>4. index # None /\ WriteDelta(index, delta)
    <3>1. index \in 0 .. Len(answer.items) - 1 /\ Len(answer.items) \in Nat
      BY <1>5, <1>7, <2>3 DEF IsOpen, AnswerType
    <3>2. index # None
      BY <3>1, UpstreamAssumption
    <3>. QED
      BY <1>7, <2>1, <2>2, <3>2
  <2>5. /\ content = Fragments(c, asked[c] - Len(delta)) /\ calls[c].owed = <<>>
        /\ calls[c].id = Native(c) /\ OnlyItemOf(c, index + 1, content)
    BY <1>7, <2>2, <2>3 DEF Told
  <2>6. content \o delta = Fragments(c, asked[c])
    <3>1. asked[c] \in Nat /\ Len(delta) \in Nat
      BY <1>4
    <3>2. PICK n \in Nat : n = asked[c] - Len(delta) /\ n + Len(delta) = asked[c]
      BY <2>2, <3>1
    <3>3. Fragments(c, n) \o Fragments(c, Len(delta)) = Fragments(c, n + Len(delta))
      BY <1>4, <3>1, FragmentsAdd
    <3>. QED
      BY <1>6, <2>5, <3>2, <3>3
  <2>7. /\ acc.item = index /\ acc.owed = <<>> /\ acc.state = "open"
        /\ acc.args = content \o delta /\ acc.id = Native(c)
    <3>1. /\ acc.item = calls[c].item /\ acc.owed = calls[c].owed
          /\ acc.state = IF calls[c].state = "absent" THEN "held" ELSE calls[c].state
      BY <1>1, <1>3, CodexAccumulated DEF CallTypes
    <3>2. acc = [calls[c] EXCEPT !.id = IF Event.id # None THEN Event.id ELSE calls[c].id,
                                 !.args = calls[c].args \o Event.delta,
                                 !.state = IF calls[c].state = "absent" THEN "held"
                                           ELSE calls[c].state]
      BY <1>3 DEF Codex!Accumulated
    <3>3. /\ acc.args = calls[c].args \o Event.delta
          /\ acc.id = IF Event.id # None THEN Event.id ELSE calls[c].id
      BY <1>5, <3>2 DEF Accumulators
    <3>. QED
      BY <1>3, <1>7, <2>2, <2>3, <2>5, <3>1, <3>3
  <2>. HIDE DEF acc
  <2>8. acc.args = Fragments(c, asked[c])
    BY <2>6, <2>7
  <2>. QED
    BY <1>1, <1>8, <2>1, <2>3, <2>4, <2>5, <2>7, <2>8
<1>. QED
  BY <1>9, <1>10, <1>11

LEMMA CodexDoneTold ==
    ASSUME StreamInv, LoneInv, ToldInv, agent = "codex", UNCHANGED <<agent, upstream>>,
           NEW c \in Indexes, Codex!CallDone(c)
    PROVE  ToldInv' /\ UNCHANGED <<queue, closing>>
<1>. DEFINE acc == [calls[c] EXCEPT !.state = "sent"]
<1>1. /\ Finishing /\ answer.phase # "over" /\ calls[c].state = "open"
      /\ calls' = [calls EXCEPT ![c].state = "sent"]
      /\ WriteStop(calls[c].item, calls[c].args)
      /\ UNCHANGED <<queue, closing>>
  BY DEF Codex!CallDone, Codex!Logged, Codex!Ending, Codex!Ready, Codex!WriteStop,
         Finishing, WriteStop
<1>2. /\ calls \in [Indexes -> Accumulators] /\ calls[c] \in Accumulators /\ AnswerType
      /\ IsOpen(calls[c].item, "call")
  BY <1>1, CodexCalls DEF StreamInv, OpenInv, Announced
<1>3. calls' = [calls EXCEPT ![c] = acc]
  BY <1>1, <1>2
<1>4. /\ acc.state = "sent" /\ acc.args = calls[c].args
      /\ acc.owed = calls[c].owed /\ acc.id = calls[c].id
  BY <1>2 DEF Accumulators
<1>. HIDE DEF acc
<1>5. PICK index, args : index = calls[c].item /\ args = calls[c].args
  OBVIOUS
<1>6. index \in 0 .. Len(answer.items) - 1 /\ WriteStop(index, args)
  BY <1>1, <1>2, <1>5 DEF IsOpen
<1>7. ASSUME NEW n, Told(c, n)
      PROVE  Told(c, n)' /\ answer'.phase = answer.phase /\ \A d : d # c => SameItemsOf(d)
  <2>1. OnlyItemOf(c, index + 1, args)
    BY <1>1, <1>5, <1>7 DEF Told
  <2>2. /\ OnlyItemOf(c, index + 1, args)' /\ answer'.phase = answer.phase
        /\ answer'.items[index + 1].whole = args /\ index + 1 \in DOMAIN answer'.items
        /\ \A d : d # c => SameItemsOf(d)
    BY <1>2, <1>6, <2>1, CallStopped
  <2>3. calls'[c] = acc
    BY <1>2, <1>3
  <2>4. /\ OnlyItemOf(c, index + 1, args)' /\ args \in Delivered(agent, acc.args)
        /\ answer'.items[index + 1].whole = acc.args
    BY <1>4, <1>5, <2>2 DEF Delivered
  <2>5. Finishing'
    BY <1>1 DEF Finishing
  <2>. QED
    BY <1>1, <1>4, <1>7, <2>2, <2>3, <2>4, <2>5 DEF Told
<1>8. Told(c, asked[c])
  <2>1. Coming = {}
    BY <1>1 DEF LoneInv, Finishing
  <2>. QED
    BY <2>1 DEF ToldInv, Settled
<1>9. answer'.phase = answer.phase /\ \A d : d # c => SameItemsOf(d)
  BY <1>7, <1>8
<1>. QED
  BY <1>1, <1>3, <1>4, <1>7, <1>9, FinishedTold

LEMMA CodexWhole ==
    ASSUME StreamInv, WholeInv, agent = "codex", UNCHANGED <<agent, upstream>>, Codex!Step
    PROVE  WholeInv'
<1>1. asked \in [Indexes -> Nat]
  BY DEF WholeInv
<1>2. CASE Codex!StartResponse
  <2>1. UNCHANGED <<queue, closing, calls>> /\ WriteBegin
    BY <1>2 DEF Codex!StartResponse, Codex!WriteBegin, WriteBegin
  <2>. QED
    BY <2>1, StartTold, EmittedWhole
<1>3. CASE \/ Codex!AddReasoning \/ Codex!AddText \/ Codex!ReasoningDelta
           \/ Codex!OutputTextDelta \/ Codex!ReasoningDone \/ Codex!TextDone
  <2>1. BlockStep(said)
    BY <1>3, CodexBlocks
  <2>2. PICK whole : whole = said
    OBVIOUS
  <2>3. BlockStep(whole)
    BY <2>1, <2>2
  <2>4. (UNCHANGED queue \/ (Ready /\ Consume)) /\ UNCHANGED closing
    BY <2>3 DEF BlockStep, OpensBlock, ExtendsBlock, StopsBlock
  <2>. QED
    BY <2>3, <2>4, BlockTold, EmittedWhole
<1>4. CASE Codex!AddCall
  <2>1. UNCHANGED closing /\ (UNCHANGED queue \/ (Ready /\ Consume))
    BY <1>4 DEF Codex!AddCall, Codex!Is, Codex!Ready, Codex!Consume, Ready, Consume
  <2>. QED
    BY <1>1, <1>4, <2>1, CodexAddTold, EmittedWhole
<1>5. CASE Codex!FirstArguments \/ Codex!RepeatedStart \/ Codex!ArgumentsDelta
  <2>1. UNCHANGED closing /\ Ready /\ Consume
    BY <1>5 DEF Codex!FirstArguments, Codex!RepeatedStart, Codex!ArgumentsDelta, Codex!Is,
                Codex!Ready, Codex!Consume, Ready, Consume
  <2>. QED
    BY <1>1, <1>5, <2>1, CodexArgumentsTold, EmittedWhole
<1>6. CASE Codex!PassEnd
  <2>1. /\ Ready /\ Consume /\ Event.type \in {"done", "error"}
        /\ UNCHANGED <<closing, calls, answer>>
    BY <1>6 DEF Codex!PassEnd, Codex!Is, Codex!Ready, Codex!Event, Codex!Consume,
                Codex!emitter, Ready, Event, Consume
  <2>. QED
    BY <2>1, PassedTold, EmittedWhole
<1>7. CASE Codex!LogDiscussion
  <2>1. UNCHANGED <<queue, closing, calls, answer>>
    BY <1>7 DEF Codex!LogDiscussion, Codex!emitter
  <2>2. LoneInv /\ ToldInv => ToldInv'
    BY <2>1, SameAnswerSameItems, AsideTold DEF Over
  <2>. QED
    BY <2>1, <2>2, EmittedWhole
<1>8. CASE Codex!ResponseCompleted
  <2>1. /\ Finishing /\ \A c \in Indexes : calls[c].state # "open"
        /\ WriteEnd(Codex!Status(closing)) /\ UNCHANGED <<queue, closing, calls>>
    BY <1>8 DEF Codex!ResponseCompleted, Codex!Logged, Codex!Ending, Codex!Ready,
                Codex!WriteEnd, Codex!emitter, Finishing, WriteEnd
  <2>2. PICK reason : reason = Codex!Status(closing)
    OBVIOUS
  <2>3. ASSUME LoneInv, ToldInv PROVE ToldInv'
    <3>1. Coming = {}
      BY <2>1, <2>3 DEF LoneInv, Finishing
    <3>2. ASSUME NEW c \in Indexes PROVE calls[c].state \in {"absent", "sent"}
      <4>1. calls[c].state # "held"
        BY <2>3, <3>1 DEF ToldInv, Settled, Told
      <4>2. calls[c] \in Accumulators /\ calls[c].state # "filled"
        BY CodexCalls
      <4>. QED
        BY <2>1, <4>1, <4>2 DEF Accumulators
    <3>. QED
      BY <2>1, <2>2, <2>3, <3>2, EndTold
  <2>. QED
    BY <2>1, <2>3, EmittedWhole
<1>9. ASSUME NEW c \in Indexes, Codex!CallDone(c) PROVE WholeInv'
  <2>1. UNCHANGED <<queue, closing>>
    BY <1>9 DEF Codex!CallDone
  <2>. QED
    BY <1>9, <2>1, CodexDoneTold, EmittedWhole
<1>. QED
  BY <1>2, <1>3, <1>4, <1>5, <1>6, <1>7, <1>8, <1>9 DEF Codex!Step, Codex!Emit, Codex!Done

LEMMA GeminiChunkTold ==
    ASSUME StreamInv, StreamInv', LoneInv, ToldInv, agent = "gemini",
           UNCHANGED <<agent, upstream>>, Gemini!Chunk
    PROVE  ToldInv'
<1>. DEFINE part == Gemini!Part(Event.type, Event.delta, None)
<1>1. /\ Ready /\ Event.type \in {"thinking", "text"} /\ Consume
      /\ UNCHANGED <<closing, calls>>
      /\ answer' = [answer EXCEPT !.phase = "live", !.items = @ \o <<part>>]
  BY DEF Gemini!Chunk, Gemini!WriteChunk, Gemini!Is, Gemini!Ready, Gemini!Event,
         Gemini!Consume, Gemini!emitter, Ready, Event, Consume
<1>2. part \in Items /\ part.kind \in {"thinking", "text"}
  <2>1. Event.delta \in Seq(Token)
    BY <1>1, EventFacts
  <2>. QED
    BY <1>1, <2>1 DEF Items, MaybeToken, Gemini!Part
<1>. HIDE DEF part
<1>3. PICK parts \in Seq(Items) : parts = <<part>>
  <2>1. <<part>> \in Seq(Items)
    BY <1>2
  <2>. QED
    BY <2>1
<1>4. \A i \in DOMAIN parts : parts[i].kind # "call"
  BY <1>2, <1>3
<1>5. /\ DOMAIN answer.items \subseteq DOMAIN answer'.items
      /\ \A i \in DOMAIN answer'.items :
            \/ i \in DOMAIN answer.items /\ answer'.items[i] = answer.items[i]
            \/ /\ i \notin DOMAIN answer.items
               /\ answer'.items[i].kind # "call"
  <2>1. answer' = [answer EXCEPT !.phase = "live", !.items = @ \o parts]
    BY <1>1, <1>3
  <2>2. /\ DOMAIN answer.items \subseteq DOMAIN answer'.items
        /\ \A i \in DOMAIN answer'.items :
              \/ i \in DOMAIN answer.items /\ answer'.items[i] = answer.items[i]
              \/ /\ i \notin DOMAIN answer.items
                 /\ i - Len(answer.items) \in DOMAIN parts
                 /\ answer'.items[i] = parts[i - Len(answer.items)]
    BY <2>1, PartsItems DEF StreamInv
  <2>. QED
    BY <1>4, <2>2
<1>6. ASSUME NEW c \in Indexes PROVE SameItemsOf(c)
  BY <1>5 DEF SameItemsOf
<1>7. ~Over'
  <2>1. AnswerType
    BY DEF StreamInv
  <2>2. answer'.phase = "live"
    BY <1>1, <2>1 DEF AnswerType
  <2>. QED
    BY <2>2 DEF Over
<1>. QED
  BY <1>1, <1>6, <1>7, AsideTold DEF CallTypes

LEMMA GeminiHoldTold ==
    ASSUME StreamInv, LoneInv, ToldInv, asked \in [Indexes -> Nat], agent = "gemini",
           UNCHANGED <<agent, upstream>>, Gemini!HoldCall
    PROVE  ToldInv'
<1>. DEFINE acc == Gemini!Accumulated(Event)
<1>1. /\ Ready /\ Event.type \in CallTypes /\ Consume /\ UNCHANGED <<closing, answer>>
      /\ calls' = [calls EXCEPT ![Event.index] = acc]
  BY DEF Gemini!HoldCall, Gemini!Is, Gemini!Ready, Gemini!Consume,
         Gemini!Event, Ready, Consume, Event, CallTypes
<1>2. PICK c : c = Event.index
  OBVIOUS
<1>3. c \in Indexes /\ calls[c] \in Accumulators
  BY <1>1, <1>2, EventFacts DEF CallTypes, StreamInv, EmitterType
<1>4. acc = [calls[c] EXCEPT !.id = IF Event.type = "toolStart" THEN Event.id ELSE calls[c].id,
                             !.args = calls[c].args \o Event.delta,
                             !.state = "held"]
  BY <1>2 DEF Gemini!Accumulated
<1>5. /\ acc.args = calls[c].args \o Event.delta /\ acc.owed = calls[c].owed
      /\ acc.state = "held"
      /\ acc.id = IF Event.type = "toolStart" THEN Event.id ELSE calls[c].id
  BY <1>3, <1>4 DEF Accumulators
<1>6. calls[c].state \notin {"open", "filled"}
  BY <1>3, GeminiFacts
<1>. HIDE DEF acc
<1>7. calls' = [calls EXCEPT ![c] = acc]
  BY <1>1, <1>2
<1>. QED
  BY <1>1, <1>2, <1>5, <1>6, <1>7, HeldTold

(* GeminiEmitter writes all calls in one chunk, each of them once.         *)
LEMMA GeminiFlushTold ==
    ASSUME StreamInv, StreamInv', LoneInv, ToldInv, agent = "gemini",
           UNCHANGED <<agent, upstream>>, Gemini!FlushCalls
    PROVE  ToldInv'
<1>. DEFINE Held == Gemini!Held
            n == Len(answer.items)
<1>1. /\ Finishing /\ answer.phase # "over" /\ UNCHANGED <<queue, closing>>
      /\ calls' = [c \in Indexes |-> IF c \in Held THEN [calls[c] EXCEPT !.state = "sent"]
                                                   ELSE calls[c]]
  BY DEF Gemini!FlushCalls, Gemini!Ending, Gemini!Ready, Finishing
<1>2. PICK parts \in Seq(Items) :
         /\ parts # <<>>
         /\ \A i \in DOMAIN parts : ~parts[i].open /\ parts[i].kind = "call"
         /\ answer' = [answer EXCEPT !.phase = "live", !.items = @ \o parts]
         /\ \E order \in Bijection(DOMAIN parts, Gemini!Held) :
               \A i \in DOMAIN parts : /\ parts[i].id = calls[order[i]].id
                                       /\ parts[i].content = Carried(order[i])
  BY FlushedParts, Zenon
<1>3. PICK order \in Bijection(DOMAIN parts, Held) :
         \A i \in DOMAIN parts : /\ parts[i].id = calls[order[i]].id
                                 /\ parts[i].content = Carried(order[i])
  BY <1>2
<1>4. /\ \A i \in DOMAIN parts : order[i] \in Held
      /\ \A i, j \in DOMAIN parts : order[i] = order[j] => i = j
      /\ \A c \in Held : \E i \in DOMAIN parts : order[i] = c
  BY DEF Bijection, Injection, Surjection, IsInjective
<1>5. \A c : c \in Held <=> c \in Indexes /\ calls[c].state = "held"
  BY DEF Gemini!Held
<1>6. /\ DOMAIN answer.items \subseteq DOMAIN answer'.items
      /\ \A i \in DOMAIN answer'.items :
            \/ i \in DOMAIN answer.items /\ answer'.items[i] = answer.items[i]
            \/ /\ i \notin DOMAIN answer.items /\ i - n \in DOMAIN parts
               /\ answer'.items[i] = parts[i - n]
      /\ DOMAIN answer'.items = 1 .. n + Len(parts)
      /\ DOMAIN answer.items = 1 .. n /\ n \in Nat
  <2>1. AnswerType /\ AnswerType'
    BY DEF StreamInv
  <2>. QED
    BY <1>2, <2>1, PartsItems
<1>7. UNCHANGED <<chan, asked, seenIndexes>> /\ Finishing'
  BY <1>1 DEF upstream, parser, history, Finishing
<1>8. Coming = {} /\ Coming' = {}
  BY <1>1, <1>7 DEF LoneInv, Finishing, Coming
<1>9. \A c \in Indexes : Settled(c)
  BY <1>8 DEF ToldInv
<1>. HIDE DEF Held
<1>10. \A c \in Held : c \in Indexes /\ calls[c].id = Native(c) /\ NoItemOf(c)
  BY <1>5, <1>9 DEF Settled, Told
<1>11. ~Over'
  <2>1. AnswerType
    BY DEF StreamInv
  <2>2. answer'.phase = "live"
    BY <1>2, <2>1 DEF AnswerType
  <2>. QED
    BY <2>2 DEF Over
<1>12. ASSUME NEW c \in Indexes, c \notin Held PROVE Settled(c)'
  <2>1. calls'[c] = calls[c]
    BY <1>1, <1>12
  <2>2. ASSUME NEW i \in DOMAIN answer'.items, i \notin DOMAIN answer.items
        PROVE  answer'.items[i].id # Native(c)
    <3>1. i - n \in DOMAIN parts /\ answer'.items[i] = parts[i - n]
      BY <1>6, <2>2
    <3>2. PICK d : d = order[i - n]
      OBVIOUS
    <3>3. answer'.items[i].id = Native(d) /\ d # c
      BY <1>3, <1>4, <1>10, <1>12, <3>1, <3>2
    <3>. QED
      BY <3>3, OtherIds
  <2>3. SameItemsOf(c)
    BY <1>6, <2>2 DEF SameItemsOf
  <2>. QED
    BY <1>7, <1>9, <2>1, <2>3, SettledSame
<1>13. ASSUME NEW c \in Held PROVE Settled(c)'
  <2>1. PICK i \in DOMAIN parts : order[i] = c
    BY <1>4
  <2>2. PICK k : k = n + i
    OBVIOUS
  <2>3. k \in DOMAIN answer'.items /\ k \notin DOMAIN answer.items /\ k - n = i
    <3>1. DOMAIN parts = 1 .. Len(parts) /\ Len(parts) \in Nat
      OBVIOUS
    <3>2. i \in Nat /\ i >= 1 /\ i <= Len(parts) /\ n \in Nat
      BY <1>6, <3>1
    <3>. QED
      BY <1>6, <2>2, <3>2
  <2>4. answer'.items[k] = parts[i]
    BY <1>6, <2>3
  <2>5. /\ answer'.items[k].kind = "call" /\ answer'.items[k].id = Native(c)
        /\ answer'.items[k].content = Carried(c)
    BY <1>2, <1>3, <1>10, <2>1, <2>4
  <2>6. ASSUME NEW j \in DOMAIN answer'.items, answer'.items[j].kind = "call",
               answer'.items[j].id = Native(c)
        PROVE  j = k
    <3>1. j \notin DOMAIN answer.items
      BY <1>6, <1>10, <2>6 DEF NoItemOf, IsOf
    <3>2. j - n \in DOMAIN parts /\ answer'.items[j] = parts[j - n] /\ j \in Nat
      BY <1>6, <3>1
    <3>3. PICK d : d = order[j - n]
      OBVIOUS
    <3>4. Native(d) = Native(c)
      BY <1>3, <1>4, <1>10, <2>6, <3>2, <3>3
    <3>5. j - n = i
      BY <1>4, <2>1, <3>2, <3>3, <3>4, OtherIds
    <3>. QED
      BY <1>6, <2>2, <3>2, <3>5
  <2>7. PICK m, args, content :
           m = asked[c] /\ args = calls[c].args /\ content = Carried(c)
    OBVIOUS
  <2>8. /\ calls[c] \in Accumulators /\ calls'[c] = [calls[c] EXCEPT !.state = "sent"]
        /\ Told(c, m) /\ c \in seenIndexes
    <3>1. c \in Indexes /\ calls[c].state = "held"
      BY <1>5
    <3>2. calls[c] \in Accumulators /\ calls'[c] = [calls[c] EXCEPT !.state = "sent"]
      BY <1>1, <3>1 DEF StreamInv, EmitterType
    <3>. QED
      BY <1>9, <2>7, <3>1, <3>2 DEF Settled
  <2>9. /\ calls'[c].state = "sent" /\ calls'[c].args = args /\ calls'[c].owed = calls[c].owed
        /\ calls'[c].id = Native(c)
    BY <1>10, <2>7, <2>8 DEF Accumulators
  <2>10. OnlyItemOf(c, k, content)' /\ content \in Delivered(agent, calls'[c].args)
    <3>1. content \in Delivered(agent, args)
      BY <2>7 DEF Carried, Delivered
    <3>. QED
      BY <2>3, <2>5, <2>6, <2>7, <2>9, <3>1 DEF OnlyItemOf, IsOf
  <2>11. Told(c, asked[c])'
    BY <1>7, <2>3, <2>7, <2>8, <2>9, <2>10 DEF Told
  <2>. QED
    BY <1>7, <2>8, <2>9, <2>11 DEF Settled
<1>. QED
  BY <1>8, <1>11, <1>12, <1>13 DEF ToldInv

LEMMA GeminiWhole ==
    ASSUME StreamInv, StreamInv', WholeInv, agent = "gemini", UNCHANGED <<agent, upstream>>,
           Gemini!Step
    PROVE  WholeInv'
<1>1. asked \in [Indexes -> Nat]
  BY DEF WholeInv
<1>2. CASE Gemini!Chunk
  <2>1. Ready /\ Consume /\ UNCHANGED closing
    BY <1>2 DEF Gemini!Chunk, Gemini!Is, Gemini!Ready, Gemini!Consume, Ready, Consume
  <2>. QED
    BY <1>2, <2>1, GeminiChunkTold, EmittedWhole
<1>3. CASE Gemini!HoldCall
  <2>1. Ready /\ Consume /\ UNCHANGED closing
    BY <1>3 DEF Gemini!HoldCall, Gemini!Is, Gemini!Ready, Gemini!Consume, Ready, Consume
  <2>. QED
    BY <1>1, <1>3, <2>1, GeminiHoldTold, EmittedWhole
<1>4. CASE Gemini!PassEnd
  <2>1. /\ Ready /\ Consume /\ Event.type \in {"done", "error"}
        /\ UNCHANGED <<closing, calls, answer>>
    BY <1>4 DEF Gemini!PassEnd, Gemini!Is, Gemini!Ready, Gemini!Event, Gemini!Consume,
                Gemini!emitter, Ready, Event, Consume
  <2>. QED
    BY <2>1, PassedTold, EmittedWhole
<1>5. CASE Gemini!FlushCalls
  <2>1. UNCHANGED <<queue, closing>>
    BY <1>5 DEF Gemini!FlushCalls
  <2>. QED
    BY <1>5, <2>1, GeminiFlushTold, EmittedWhole
<1>6. CASE Gemini!LastChunk
  <2>1. /\ Gemini!Held = {} /\ WriteEnd(closing) /\ UNCHANGED <<queue, closing, calls>>
    BY <1>6 DEF Gemini!LastChunk, Gemini!WriteEnd, Gemini!emitter, WriteEnd
  <2>2. \A c \in Indexes : calls[c].state \in {"absent", "sent"}
    BY <2>1, GeminiFacts DEF Gemini!Held
  <2>3. PICK reason : reason = closing
    OBVIOUS
  <2>. QED
    BY <2>1, <2>2, <2>3, EndTold, EmittedWhole
<1>. QED
  BY <1>2, <1>3, <1>4, <1>5, <1>6 DEF Gemini!Step

-----------------------------------------------------------------------------
(* The theorem.                                                            *)

LEMMA WholeInit ==
    ASSUME Init
    PROVE  WholeInv
<1>1. /\ chan = <<>> /\ queue = <<>> /\ closing = None /\ thinkBuf = <<>> /\ heard = <<>>
      /\ seenIndexes = {} /\ asked = [c \in Indexes |-> 0]
      /\ calls = [c \in Indexes |-> NoCall]
      /\ answer = [phase |-> "waiting", items |-> <<>>, reason |-> None]
  BY DEF Init, InitUpstream, InitResponse
<1>2. heard \in Seq(Token) /\ asked \in [Indexes -> Nat]
  BY <1>1
<1>3. UnclosedInv
  BY <1>1 DEF UnclosedInv, Has
<1>4. Coming = {} /\ CallsIn(queue) = {}
  BY <1>1, CallsInOne DEF Coming
<1>5. LoneInv
  BY <1>1, <1>4 DEF LoneInv
<1>6. answer.items = <<>> /\ answer.phase = "waiting"
  BY <1>1
<1>7. ASSUME NEW c \in Indexes PROVE Settled(c)
  <2>1. /\ asked[c] = 0 /\ calls[c].id = None /\ calls[c].args = <<>> /\ calls[c].owed = <<>>
        /\ calls[c].state = "absent"
    BY <1>1 DEF NoCall
  <2>2. Fragments(c, 0) = <<>>
    BY FragmentsAdd
  <2>3. NoItemOf(c)
    BY <1>6 DEF NoItemOf
  <2>4. Told(c, asked[c])
    BY <2>1, <2>2, <2>3 DEF Told
  <2>. QED
    BY <1>1, <2>1, <2>4 DEF Settled
<1>8. ToldInv
  BY <1>4, <1>6, <1>7 DEF ToldInv, Over
<1>. QED
  BY <1>2, <1>3, <1>5, <1>8 DEF WholeInv

LEMMA WholeStutters ==
    ASSUME WholeInv, UNCHANGED vars
    PROVE  WholeInv'
<1>1. UNCHANGED <<chan, queue, closing, thinkBuf, heard, seenIndexes, asked, calls, answer, agent>>
  BY DEF vars, upstream, parser, normalizer, history, emitter
<1>2. Coming' = Coming /\ Finishing' = Finishing /\ Over' = Over
  BY <1>1 DEF Coming, Finishing, Over
<1>3. \A c : SameItemsOf(c)
  BY <1>1, SameAnswerSameItems
<1>4. UnclosedInv => UnclosedInv'
  BY <1>1 DEF UnclosedInv, Has
<1>5. LoneInv => LoneInv'
  BY <1>1, <1>2 DEF LoneInv
<1>6. ASSUME ToldInv PROVE ToldInv'
  <2>1. ASSUME NEW e \in Coming PROVE Missing(e)'
    <3>1. Missing(e)
      BY <1>6, <2>1 DEF ToldInv
    <3>2. CASE ~HalfTold(e)
      BY <1>1, <1>2, <1>3, <3>1, <3>2, MissingSame
    <3>3. CASE HalfTold(e)
      <4>1. HalfTold(e)'
        BY <1>1, <1>3, <3>3, HalfToldSame
      <4>. QED
        BY <1>1, <3>1, <4>1 DEF Missing
    <3>. QED
      BY <3>2, <3>3
  <2>2. ASSUME NEW c \in Indexes, \A e \in Coming : e.index # c PROVE Settled(c)'
    <3>1. Settled(c)
      BY <1>6, <2>2 DEF ToldInv
    <3>. QED
      BY <1>1, <1>2, <1>3, <3>1, SettledSame
  <2>. QED
    BY <1>1, <1>2, <1>6, <2>1, <2>2 DEF ToldInv
<1>. QED
  BY <1>1, <1>4, <1>5, <1>6 DEF WholeInv, Has

LEMMA WholeStep ==
    ASSUME StreamInv, StreamInv', EndInv, WholeInv, [Next]_vars
    PROVE  WholeInv'
<1>1. CASE Upstream /\ UNCHANGED <<agent, answer, emitter, logged>>
  BY <1>1, UpstreamWhole DEF emitter
<1>2. CASE Emitting /\ UNCHANGED <<agent, upstream>>
  BY <1>2, ClaudeWhole, CodexWhole, GeminiWhole DEF Emitting
<1>. QED
  BY <1>1, <1>2, WholeStutters DEF Next

(* When the answer is over, every call is absent or sent as a whole.       *)
LEMMA WholeIsRight ==
    ASSUME StreamInv, WholeInv
    PROVE  CallsAreWhole
<1>. DEFINE mine(c) == {i \in DOMAIN answer.items :
                           answer.items[i].kind = "call" /\ answer.items[i].id = Native(c)}
<1>1. SUFFICES ASSUME Over, ~Has("callClose", heard), NEW c \in Indexes
               PROVE  /\ Cardinality(mine(c)) = IF c \in seenIndexes THEN 1 ELSE 0
                      /\ \A i \in mine(c) :
                            /\ answer.items[i].content \in Delivered(agent, Fragments(c, asked[c]))
                            /\ agent = "codex" =>
                                  answer.items[i].whole = Fragments(c, asked[c])
  BY DEF CallsAreWhole, Delivered, Fragments
<1>2. LoneInv /\ ToldInv /\ Finishing
  BY <1>1 DEF WholeInv, StreamInv, PhaseInv, Over
<1>3. Coming = {}
  BY <1>2 DEF LoneInv, Finishing
<1>4. Settled(c) /\ calls[c].state \in {"absent", "sent"}
  BY <1>1, <1>2, <1>3 DEF ToldInv
<1>5. CASE calls[c].state = "absent"
  <2>1. c \notin seenIndexes /\ NoItemOf(c)
    BY <1>4, <1>5 DEF Settled, Told
  <2>2. mine(c) = {}
    BY <2>1 DEF NoItemOf, IsOf
  <2>. QED
    BY <2>1, <2>2, FS_EmptySet
<1>6. CASE calls[c].state = "sent"
  <2>1. /\ c \in seenIndexes /\ calls[c].args = Fragments(c, asked[c])
        /\ \E i \in DOMAIN answer.items, content \in Delivered(agent, calls[c].args) :
              /\ OnlyItemOf(c, i, content)
              /\ agent = "codex" => answer.items[i].whole = calls[c].args
    BY <1>4, <1>6 DEF Settled, Told
  <2>2. PICK i \in DOMAIN answer.items, content \in Delivered(agent, calls[c].args) :
           /\ OnlyItemOf(c, i, content)
           /\ agent = "codex" => answer.items[i].whole = calls[c].args
    BY <2>1
  <2>3. mine(c) = {i} /\ answer.items[i].content = content
    BY <2>2 DEF OnlyItemOf, IsOf
  <2>4. Cardinality(mine(c)) = 1
    BY <2>3, FS_Singleton
  <2>. QED
    BY <2>1, <2>2, <2>3, <2>4
<1>. QED
  BY <1>4, <1>5, <1>6

(***************************************************************************)
(* The accumulators of ClaudeEmitter, CodexEmitter and GeminiEmitter keep  *)
(* what interleaved fragments of tool calls add up to: whatever chunks an  *)
(* upstream sends, as long as no text closes a call of its own, a client   *)
(* has in the end read every call once, after a failure of the upstream as *)
(* well, and of its arguments all or nothing: all when they are an object  *)
(* that begins with '{' and for Codex always, whose completed items hold   *)
(* what was sent in pieces.                                                *)
(***************************************************************************)
THEOREM CallsArriveWhole == Spec => []CallsAreWhole
<1>1. Init => VoiceInv /\ WholeInv
  BY VoiceInit, WholeInit
<1>2. StreamInv /\ StreamInv' /\ (VoiceInv /\ WholeInv) /\ [Next]_vars
        => VoiceInv' /\ WholeInv'
  BY VoiceStep, WholeStep DEF VoiceInv
<1>3. StreamInv /\ (VoiceInv /\ WholeInv) => CallsAreWhole
  BY WholeIsRight
<1>. QED
  BY <1>1, <1>2, <1>3, StreamInvariant, PTL DEF Spec
=============================================================================
