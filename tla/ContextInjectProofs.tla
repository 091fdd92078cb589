------------------------- MODULE ContextInjectProofs -------------------------
(***************************************************************************)
(* Theorems about ContextInject, for any number of handlers, agents and    *)
(* sessions, any project and any requests.                                 *)
(***************************************************************************)
EXTENDS ContextInject, SequenceTheorems, WellFoundedInduction, TLAPS

-----------------------------------------------------------------------------
(* Induction on numbers and, with it, what FoldLeft computes.             *)

LEMMA LeastNat ==
    ASSUME NEW T \in SUBSET Nat, T # {}
    PROVE  \E x \in T : \A y \in T : x <= y
<1>1. PICK x \in T : \A y \in T : ~(<<y, x>> \in OpToRel(<, Nat))
  BY WFMin, NatLessThanWellFounded
<1>2. ASSUME NEW y \in T PROVE x <= y
  <2>1. SUFFICES ASSUME y < x PROVE FALSE  OBVIOUS
  <2>2. <<y, x>> \in OpToRel(<, Nat)  BY <2>1 DEF OpToRel
  <2>. QED  BY <1>1, <2>2
<1>. QED  BY <1>2

LEMMA GreatestNat ==
    ASSUME NEW T \in SUBSET Nat, T # {}, NEW n \in Nat, \A y \in T : y <= n
    PROVE  \E x \in T : \A y \in T : x >= y
<1>. DEFINE U == {m \in Nat : \A y \in T : y <= m}
<1>1. PICK m \in U : \A u \in U : m <= u
  BY LeastNat
<1>2. m \in T
  <2>1. SUFFICES ASSUME m \notin T PROVE FALSE  OBVIOUS
  <2>2. \A y \in T : y < m  BY <2>1
  <2>3. PICK z \in T : TRUE  OBVIOUS
  <2>4. m \in Nat /\ z \in Nat /\ z < m  BY <2>2
  <2>5. m - 1 \in Nat /\ m - 1 < m  BY <2>4
  <2>6. \A y \in T : y <= m - 1  BY <2>2, <2>4
  <2>7. m - 1 \in U  BY <2>5, <2>6
  <2>. QED  BY <1>1, <2>4, <2>5, <2>7
<1>. QED  BY <1>2

LEMMA NatSetInduction ==
    ASSUME NEW S, S \subseteq Nat, 0 \in S, \A n \in S : n + 1 \in S
    PROVE  S = Nat
<1>1. SUFFICES ASSUME Nat \ S # {} PROVE FALSE
  OBVIOUS
<1>2. PICK x \in Nat \ S : \A y \in Nat \ S : x <= y
  BY <1>1, LeastNat
<1>3. x \in Nat /\ x # 0
  BY <1>2
<1>4. x - 1 \in Nat /\ x - 1 < x /\ (x - 1) + 1 = x
  BY <1>3
<1>5. x - 1 \in S
  BY <1>2, <1>4
<1>. QED
  BY <1>2, <1>4, <1>5

(***************************************************************************)
(* FoldLeft visits the elements of a sequence as the greatest of what is   *)
(* left of its domain: the domain's initial segments.                      *)
(***************************************************************************)
LEMMA SegmentMax ==
    ASSUME NEW n \in Nat \ {0}
    PROVE  /\ 1 .. n # {} /\ Max(1 .. n) = n
           /\ (1 .. n) \ {n} = 1 .. (n - 1)
<1>1. n \in 1 .. n /\ \A y \in 1 .. n : n >= y
  OBVIOUS
<1>2. \A x \in 1 .. n : x >= n => x = n
  OBVIOUS
<1>3. Max(1 .. n) = n
  BY <1>1, <1>2 DEF Max
<1>4. (1 .. n) \ {n} = 1 .. (n - 1)
  OBVIOUS
<1>. QED
  BY <1>1, <1>3, <1>4

LEMMA DomainMax ==
    ASSUME NEW E, NEW seq \in Seq(E), NEW s \in SUBSET DOMAIN seq, s # {}
    PROVE  Max(s) \in DOMAIN seq /\ seq[Max(s)] \in E
<1>1. /\ Len(seq) \in Nat /\ s \in SUBSET Nat
      /\ \A y \in s : y <= Len(seq)
  OBVIOUS
<1>2. \E x \in s : \A y \in s : x >= y
  BY <1>1, GreatestNat
<1>3. Max(s) \in s
  BY <1>2 DEF Max
<1>. QED
  BY <1>3

(***************************************************************************)
(* The function by which FoldLeft is defined: it folds a part of the       *)
(* sequence, its greatest index last.                                      *)
(***************************************************************************)
IsFold(g, step, base, seq) ==
    \A s \in SUBSET DOMAIN seq :
        g[s] = IF s = {} THEN base ELSE step[<<g[s \ {Max(s)}], seq[Max(s)]>>]

(* It exists, when what it folds with is a function on a type.             *)
LEMMA FoldExists ==
    ASSUME NEW T, NEW E, NEW step \in [T \X E -> T], NEW base \in T, NEW seq \in Seq(E)
    PROVE  \E g : g \in [SUBSET DOMAIN seq -> T] /\ IsFold(g, step, base, seq)
<1>. DEFINE Value(g, s) == IF s = {} THEN base
                                     ELSE step[<<g[s \ {Max(s)}], seq[Max(s)]>>]
            Good(n) == \E g \in [SUBSET (1 .. n) -> T] :
                          \A s \in SUBSET (1 .. n) : g[s] = Value(g, s)
            S == {n \in Nat : n <= Len(seq) => Good(n)}
<1>1. 0 \in S
  <2>1. 1 .. 0 = {}
    OBVIOUS
  <2>2. SUBSET (1 .. 0) = {{}}
    BY <2>1
  <2>3. [s \in SUBSET (1 .. 0) |-> base] \in [SUBSET (1 .. 0) -> T]
    OBVIOUS
  <2>4. \A s \in SUBSET (1 .. 0) :
           [t \in SUBSET (1 .. 0) |-> base][s] = Value([t \in SUBSET (1 .. 0) |-> base], s)
    BY <2>2
  <2>. QED
    BY <2>3, <2>4
<1>2. ASSUME NEW n \in S PROVE n + 1 \in S
  <2>1. n \in Nat /\ n + 1 \in Nat
    OBVIOUS
  <2>2. SUFFICES ASSUME n + 1 <= Len(seq) PROVE Good(n + 1)
    BY <2>1
  <2>3. Len(seq) \in Nat /\ n <= Len(seq)
    BY <2>1, <2>2
  <2>4. PICK g \in [SUBSET (1 .. n) -> T] : \A s \in SUBSET (1 .. n) : g[s] = Value(g, s)
    BY <2>3
  <2>5. seq[n + 1] \in E
    BY <2>1, <2>2, <2>3
  <2>. DEFINE h == [s \in SUBSET (1 .. n + 1) |->
                       IF n + 1 \in s THEN step[<<g[s \ {n + 1}], seq[n + 1]>>] ELSE g[s]]
  <2>6. \A s \in SUBSET (1 .. n + 1) : s \ {n + 1} \in SUBSET (1 .. n)
    BY <2>1
  <2>7. \A s \in SUBSET (1 .. n + 1) : n + 1 \notin s => s \in SUBSET (1 .. n)
    BY <2>6
  <2>8. h \in [SUBSET (1 .. n + 1) -> T]
    BY <2>4, <2>5, <2>6, <2>7
  <2>9. \A s \in SUBSET (1 .. n) : h[s] = g[s]
    <3>1. \A s \in SUBSET (1 .. n) : s \in SUBSET (1 .. n + 1) /\ n + 1 \notin s
      BY <2>1
    <3>. QED
      BY <3>1
  <2>10. ASSUME NEW s \in SUBSET (1 .. n + 1) PROVE h[s] = Value(h, s)
    <3>1. CASE n + 1 \in s
      <4>1. \A y \in s : n + 1 >= y
        BY <2>1
      <4>2. \A x \in s : x >= n + 1 => x = n + 1
        BY <2>1
      <4>3. Max(s) = n + 1
        BY <3>1, <4>1, <4>2 DEF Max
      <4>4. h[s \ {n + 1}] = g[s \ {n + 1}]
        BY <2>6, <2>9
      <4>. QED
        BY <3>1, <4>3, <4>4
    <3>2. CASE n + 1 \notin s
      <4>1. s \in SUBSET (1 .. n) /\ s \ {Max(s)} \in SUBSET (1 .. n)
        BY <2>7, <3>2
      <4>2. h[s] = Value(g, s) /\ h[s \ {Max(s)}] = g[s \ {Max(s)}]
        BY <2>4, <2>9, <4>1
      <4>. QED
        BY <4>2
    <3>. QED
      BY <3>1, <3>2
  <2>. HIDE DEF h
  <2>. QED
    BY <2>8, <2>10
<1>3. S = Nat
  <2>. HIDE DEF S
  <2>1. S \subseteq Nat
    BY DEF S
  <2>. QED
    BY <1>1, <1>2, <2>1, NatSetInduction
<1>4. Len(seq) \in Nat /\ DOMAIN seq = 1 .. Len(seq)
  OBVIOUS
<1>5. Good(Len(seq))
  <2>. HIDE DEF Good
  <2>1. Len(seq) \in S
    BY <1>3, <1>4
  <2>. QED
    BY <1>4, <2>1
<1>6. PICK g \in [SUBSET DOMAIN seq -> T] : \A s \in SUBSET DOMAIN seq : g[s] = Value(g, s)
  BY <1>4, <1>5
<1>. QED
  BY <1>6 DEF IsFold

-----------------------------------------------------------------------------
(* The size of a block.                                                    *)

(* Writing lines under a budget and a cap goes over neither, except that   *)
(* what was written before may be over the cap.                            *)
LEMMA LinesFit ==
    ASSUME NEW size \in Nat, NEW lines \in Seq(Nat), NEW budget \in Nat, NEW cap \in Nat
    PROVE  /\ WriteLines(size, lines, budget, cap) \in Nat
           /\ WriteLines(size, lines, budget, cap) <= size + budget
           /\ \/ WriteLines(size, lines, budget, cap) <= cap
              \/ WriteLines(size, lines, budget, cap) = size
<1>. DEFINE Step(written, line) ==
              IF written - size + line > budget \/ written + line > cap
              THEN written ELSE written + line
            Fit == {w \in Nat : w <= size + budget /\ (w <= cap \/ w = size)}
            fold == CHOOSE iter : iter = [s \in SUBSET DOMAIN lines |->
                       IF s = {} THEN size ELSE Step(iter[s \ {Max(s)}], lines[Max(s)])]
            end == fold[DOMAIN lines]
<1>1. WriteLines(size, lines, budget, cap) = end
  BY DEF WriteLines, FoldLeft, MapThenFoldSet
<1>2. size \in Fit
  OBVIOUS
<1>3. ASSUME NEW written \in Fit, NEW line \in Nat PROVE Step(written, line) \in Fit
  OBVIOUS
<1>. HIDE DEF Step
<1>4. fold = [s \in SUBSET DOMAIN lines |->
                 IF s = {} THEN size ELSE Step(fold[s \ {Max(s)}], lines[Max(s)])]
  <2>. DEFINE step == [p \in Fit \X Nat |-> Step(p[1], p[2])]
  <2>1. step \in [Fit \X Nat -> Fit]
    BY <1>3
  <2>2. PICK g : g \in [SUBSET DOMAIN lines -> Fit] /\ IsFold(g, step, size, lines)
    BY <1>2, <2>1, FoldExists
  <2>3. ASSUME NEW s \in SUBSET DOMAIN lines, s # {}
        PROVE  g[s] = Step(g[s \ {Max(s)}], lines[Max(s)])
    <3>1. s \ {Max(s)} \in SUBSET DOMAIN lines
      OBVIOUS
    <3>2. lines[Max(s)] \in Nat
      BY <2>3, DomainMax
    <3>3. g[s \ {Max(s)}] \in Fit
      <4>. HIDE DEF Fit, step
      <4>. QED
        BY <2>2, <3>1
    <3>. QED
      BY <2>2, <2>3, <3>2, <3>3 DEF IsFold
  <2>4. g = [s \in SUBSET DOMAIN lines |->
                IF s = {} THEN size ELSE Step(g[s \ {Max(s)}], lines[Max(s)])]
    BY <2>2, <2>3 DEF IsFold
  <2>. QED
    BY <2>4
<1>. HIDE DEF fold, Fit
<1>. DEFINE Steps == {k \in Nat : k <= Len(lines) => fold[1 .. k] \in Fit}
<1>5. Len(lines) \in Nat /\ DOMAIN lines = 1 .. Len(lines)
  OBVIOUS
<1>6. 0 \in Steps
  <2>1. 1 .. 0 = {} /\ {} \in SUBSET DOMAIN lines
    OBVIOUS
  <2>2. fold[1 .. 0] = size
    BY <1>4, <2>1
  <2>. QED
    BY <1>2, <2>2
<1>7. ASSUME NEW k \in Steps PROVE k + 1 \in Steps
  <2>1. SUFFICES ASSUME k + 1 <= Len(lines) PROVE fold[1 .. k + 1] \in Fit
    OBVIOUS
  <2>2. k \in Nat /\ fold[1 .. k] \in Fit
    BY <1>5, <2>1
  <2>3. /\ 1 .. k + 1 # {} /\ Max(1 .. k + 1) = k + 1
        /\ (1 .. k + 1) \ {k + 1} = 1 .. k
    BY <2>2, SegmentMax
  <2>4. 1 .. k + 1 \in SUBSET DOMAIN lines
    BY <1>5, <2>1, <2>2
  <2>5. fold[1 .. k + 1] = Step(fold[1 .. k], lines[k + 1])
    BY <1>4, <2>3, <2>4
  <2>6. lines[k + 1] \in Nat
    BY <1>5, <2>1, <2>2
  <2>. QED
    BY <1>3, <2>2, <2>5, <2>6
<1>8. Steps = Nat
  <2>1. Steps \subseteq Nat
    OBVIOUS
  <2>. HIDE DEF Steps
  <2>. QED
    BY <1>6, <1>7, <2>1, NatSetInduction
<1>9. end \in Fit
  BY <1>5, <1>8
<1>. HIDE DEF end
<1>. QED
  BY <1>1, <1>9 DEF Fit

LEMMA MarksType ==
    ASSUME NEW lines \in Seq(Nat), NEW marks \in Nat
    PROVE  WithMarks(lines, marks) \in Seq(Nat)
  BY DEF WithMarks

(* A segment with a heading of its own.                                    *)
LEMMA SegmentFits ==
    ASSUME NEW size \in Nat, NEW heading \in Nat, NEW lines \in Seq(Nat),
           NEW budget \in Nat, NEW cap \in Nat
    PROVE  /\ WriteSegment(size, heading, lines, budget, cap) \in Nat
           /\ WriteSegment(size, heading, lines, budget, cap) <= size + heading + budget + 1
           /\ \/ WriteSegment(size, heading, lines, budget, cap) <= cap + 1
              \/ WriteSegment(size, heading, lines, budget, cap) <= size + heading + 1
<1>. DEFINE inner == WriteLines(size + heading, WithMarks(lines, 1), budget, cap)
<1>1. WithMarks(lines, 1) \in Seq(Nat)
  BY MarksType
<1>2. size + heading \in Nat
  OBVIOUS
<1>3. /\ inner \in Nat /\ inner <= size + heading + budget
      /\ inner <= cap \/ inner = size + heading
  BY <1>1, <1>2, LinesFit
<1>. HIDE DEF inner
<1>4. WriteSegment(size, heading, lines, budget, cap) = IF lines = <<>> THEN size ELSE inner + 1
  BY DEF WriteSegment, inner
<1>. QED
  BY <1>3, <1>4

(* A segment that is left out when its heading does not fit.               *)
LEMMA GuardedFits ==
    ASSUME NEW size \in Nat, NEW heading \in Nat, NEW lines \in Seq(Nat),
           NEW marks \in Nat, NEW cap \in Nat
    PROVE  /\ WriteGuarded(size, heading, lines, marks, cap) \in Nat
           /\ \/ WriteGuarded(size, heading, lines, marks, cap) <= cap
              \/ WriteGuarded(size, heading, lines, marks, cap) <= size
<1>. DEFINE inner == WriteLines(size + heading, WithMarks(lines, marks), cap, cap)
<1>1. WithMarks(lines, marks) \in Seq(Nat)
  BY MarksType
<1>2. size + heading \in Nat
  OBVIOUS
<1>3. inner \in Nat /\ (inner <= cap \/ inner = size + heading)
  BY <1>1, <1>2, LinesFit
<1>. HIDE DEF inner
<1>4. WriteGuarded(size, heading, lines, marks, cap)
         = IF lines = <<>> \/ size + heading > cap THEN size ELSE inner
  BY DEF WriteGuarded, inner
<1>. QED
  BY <1>3, <1>4

(* The guidelines fill what is left at most.                               *)
LEMMA GuidelinesFit ==
    ASSUME NEW size \in Nat, NEW guidelines \in Nat,
           size <= MaxInjectChars, guidelines > 0 => size <= MaxInjectChars - GuidelinesMin + 1
    PROVE  /\ WriteGuidelines(size, guidelines) \in Nat
           /\ WriteGuidelines(size, guidelines) <= MaxInjectChars
  BY DEF WriteGuidelines, Smaller, MaxInjectChars, GuidelinesMin, GuidelinesBudget

(***************************************************************************)
(* The block never exceeds its cap, whatever is found.  The segments       *)
(* before the guidelines may end one byte above theirs.                    *)
(***************************************************************************)
LEMMA BlockFits ==
    ASSUME NEW content \in Content, NEW anchor \in Seq(Nat)
    PROVE  /\ BuildContextBlock(content, anchor) \in Nat
           /\ BuildContextBlock(content, anchor) <= MaxInjectChars
<1>. DEFINE cap    == HighCap(content.guidelines)
            budget == Smaller(200 + 30 * Len(content.files), 500)
            files  == WriteSegment(15, 15, content.files, budget, cap)
            tasked == WriteSegment(files, 21, anchor, AnchorBudget, cap)
            warned == WriteLines(tasked, WithMarks(content.context.warnings, 1), cap, cap)
            acting == WriteGuarded(warned, 18, content.context.actions, 1, cap)
            guided == WriteGuidelines(acting, content.guidelines)
            goals  == WriteGuarded(guided, 20, content.context.goals, 3, MaxInjectChars)
<1>1. /\ content.files \in Seq(Nat) /\ content.guidelines \in Nat
      /\ content.context.warnings \in Seq(Nat) /\ content.context.actions \in Seq(Nat)
      /\ content.context.goals \in Seq(Nat)
  BY DEF Content
<1>2. cap \in Nat /\ (IF content.guidelines > 0 THEN cap = 600 ELSE cap = 800)
  BY <1>1 DEF HighCap, MaxInjectChars, GuidelinesMin
<1>3. budget \in Nat /\ budget <= 500
  BY <1>1 DEF Smaller
<1>. HIDE DEF cap, budget
<1>4. files \in Nat /\ files <= 531
  <2>1. content.files \in Seq(Nat) /\ cap \in Nat /\ budget \in Nat
    BY <1>1, <1>2, <1>3
  <2>2. files \in Nat /\ files <= 15 + 15 + budget + 1
    BY <2>1, SegmentFits
  <2>. HIDE DEF files
  <2>. QED
    BY <1>3, <2>2
<1>. HIDE DEF files
<1>5. tasked \in Nat /\ tasked <= 733 /\ (tasked <= cap + 1 \/ tasked <= 553)
  <2>1. files \in Nat /\ cap \in Nat /\ AnchorBudget \in Nat
    BY <1>2, <1>4 DEF AnchorBudget
  <2>2. tasked \in Nat /\ tasked <= files + 21 + AnchorBudget + 1
    BY <2>1, SegmentFits
  <2>3. tasked <= cap + 1 \/ tasked <= files + 21 + 1
    BY <2>1, SegmentFits
  <2>. HIDE DEF tasked
  <2>. QED
    BY <1>4, <2>1, <2>2, <2>3 DEF AnchorBudget
<1>. HIDE DEF tasked
<1>6. warned \in Nat /\ (warned <= cap \/ warned = tasked)
  <2>1. WithMarks(content.context.warnings, 1) \in Seq(Nat)
    BY <1>1, MarksType
  <2>2. cap \in Nat /\ tasked \in Nat
    BY <1>2, <1>5
  <2>. QED
    BY <2>1, <2>2, LinesFit
<1>. HIDE DEF warned
<1>7. acting \in Nat /\ (acting <= cap \/ acting <= warned)
  <2>1. content.context.actions \in Seq(Nat) /\ cap \in Nat /\ warned \in Nat
    BY <1>1, <1>2, <1>6
  <2>2. acting \in Nat
    BY <2>1, GuardedFits
  <2>3. acting <= cap \/ acting <= warned
    BY <2>1, GuardedFits
  <2>. QED
    BY <2>2, <2>3
<1>. HIDE DEF acting
<1>8. guided \in Nat /\ guided <= 800
  <2>1. acting <= cap + 1 \/ acting <= 553
    BY <1>2, <1>5, <1>6, <1>7
  <2>2. acting <= 800 /\ (content.guidelines > 0 => acting <= 601)
    BY <1>1, <1>2, <1>5, <1>6, <1>7, <2>1
  <2>3. content.guidelines \in Nat
    BY <1>1
  <2>4. /\ acting <= MaxInjectChars
        /\ content.guidelines > 0 => acting <= MaxInjectChars - GuidelinesMin + 1
    BY <2>2 DEF MaxInjectChars, GuidelinesMin
  <2>5. guided \in Nat /\ guided <= MaxInjectChars
    BY <1>7, <2>3, <2>4, GuidelinesFit
  <2>. HIDE DEF guided
  <2>. QED
    BY <2>5 DEF MaxInjectChars
<1>. HIDE DEF guided
<1>9. goals \in Nat /\ goals <= 800
  <2>1. content.context.goals \in Seq(Nat) /\ MaxInjectChars \in Nat
    BY <1>1 DEF MaxInjectChars
  <2>2. goals \in Nat
    BY <1>8, <2>1, GuardedFits
  <2>3. goals <= MaxInjectChars \/ goals <= guided
    BY <1>8, <2>1, GuardedFits
  <2>. HIDE DEF goals
  <2>. QED
    BY <1>8, <2>2, <2>3 DEF MaxInjectChars
<1>. HIDE DEF goals
<1>10. BuildContextBlock(content, anchor)
          = IF goals + VisionTip > MaxInjectChars THEN goals ELSE goals + VisionTip
  BY DEF BuildContextBlock, goals, guided, acting, warned, tasked, files, budget, cap
<1>11. VisionTip \in Nat
  BY InjectAssumption
<1>. QED
  BY <1>9, <1>10, <1>11 DEF MaxInjectChars

-----------------------------------------------------------------------------
(* Types.                                                                  *)

EarlyPCs == {"idle", "fillContext", "guidelines", "fillGuidelines", "anchor", "list"}

LatePCs == {"decide", "track", "write"}

PCs == EarlyPCs \cup {"store"} \cup LatePCs

Contexts == [goals : Seq(Nat), warnings : Seq(Nat), actions : Seq(Nat), hashed : BOOLEAN]

Jobs ==
    [agent : Agents \cup {None}, session : Sessions \cup {NoSession}, files : Seq(Nat),
     context : Contexts, guidelines : Nat, anchor : Seq(Nat)]

(* What a handler that is at a statement has.                              *)
Fits(where, j) ==
    /\ IF where = "idle" THEN j = NoJob ELSE j.agent \in Agents
    /\ where \in {"list", "store"} => j.session \in Sessions
    /\ where \in EarlyPCs => j.anchor = <<>>

HandlerType ==
    /\ pc \in [Handlers -> PCs] /\ job \in [Handlers -> Jobs]
    /\ \A h \in Handlers : Fits(pc[h], job[h])

CacheType ==
    /\ now \in Nat /\ project \in Projects
    /\ sessionCache \in [goals : Seq(Nat), warnings : Seq(Nat), actions : Seq(Nat), at : Int]
    /\ guidelinesCache \in [content : Nat, at : Int]
    /\ anchorCache \in [Sessions -> Anchors \cup {None}]
    /\ injectTracker \in [Agents -> Content \cup {None}]

InjectedRecord ==
    [agent : Agents, session : Sessions \cup {NoSession}, content : Content,
     anchor : Seq(Nat), young : BOOLEAN, chars : Int]

HistoryType ==
    /\ injected \subseteq InjectedRecord
    /\ \A i \in injected : i.young => i.session \in Sessions
    /\ since \in [Sessions -> Nat \cup {None}]
    /\ \A s \in Sessions : since[s] # None => since[s] <= now
    /\ overlapped \subseteq Sessions

(* No injected block exceeds the cap.                                      *)
TypeInv == HandlerType /\ CacheType /\ HistoryType /\ WithinCap

LEMMA GotoType ==
    ASSUME HandlerType, NEW h \in Handlers, NEW where \in PCs, NEW j \in Jobs,
           Fits(where, j), Goto(h, where, j)
    PROVE  HandlerType'
  BY DEF HandlerType, Goto, Fits

LEMMA NoJobType == NoJob \in Jobs
  BY DEF NoJob, JobOf, Jobs, NoContext, Contexts

(* A new job.                                                              *)
LEMMA JobOfType ==
    ASSUME NEW r \in Requests, NEW context \in Contexts
    PROVE  /\ r \in [agent : Agents, session : Sessions \cup {NoSession}, files : Seq(Nat)]
           /\ JobOf(r, context) \in Jobs
           /\ JobOf(r, context).agent = r.agent /\ JobOf(r, context).session = r.session
           /\ JobOf(r, context).anchor = <<>>
<1>1. r \in [agent : Agents, session : Sessions \cup {NoSession}, files : Seq(Nat)]
  BY InjectAssumption
<1>. QED
  BY <1>1 DEF JobOf, Jobs

-----------------------------------------------------------------------------
(* Types are kept.                                                         *)

LEMMA TypeInit == Init => TypeInv
<1>. SUFFICES ASSUME Init PROVE TypeInv
  OBVIOUS
<1>. USE DEF Init
<1>1. HandlerType
  BY NoJobType DEF HandlerType, PCs, EarlyPCs, Fits, NoJob, JobOf
<1>2. CacheType
  BY InjectAssumption DEF CacheType
<1>3. HistoryType
  BY DEF HistoryType
<1>. QED
  BY <1>1, <1>2, <1>3 DEF TypeInv, WithinCap

(* What a handler has is kept when others move.                            *)
LEMMA JobType ==
    ASSUME HandlerType, NEW h \in Handlers
    PROVE  /\ pc[h] \in PCs /\ job[h] \in Jobs /\ Fits(pc[h], job[h])
  BY DEF HandlerType

LEMMA ArriveType ==
    ASSUME TypeInv, NEW h \in Handlers, Arrive(h) PROVE TypeInv'
<1>1. PICK r \in Requests :
         /\ \E context \in {CachedContext, NoContext}, where \in {"guidelines", "fillContext"} :
                Goto(h, where, JobOf(r, context))
         /\ IF r.session = NoSession THEN UNCHANGED <<since, overlapped>>
            ELSE /\ since' = [since EXCEPT ![r.session] = IF @ = None THEN now ELSE @]
                 /\ overlapped' = IF /\ anchorCache[r.session] = None
                                     /\ \E g \in Handlers : job[g].session = r.session
                                  THEN overlapped \cup {r.session} ELSE overlapped
  BY DEF Arrive
<1>2. CachedContext \in Contexts /\ NoContext \in Contexts
  BY DEF TypeInv, CacheType, CachedContext, NoContext, Contexts
<1>3. PICK context \in Contexts, where \in {"guidelines", "fillContext"} :
         Goto(h, where, JobOf(r, context))
  BY <1>1, <1>2
<1>4. /\ r \in [agent : Agents, session : Sessions \cup {NoSession}, files : Seq(Nat)]
      /\ JobOf(r, context) \in Jobs
      /\ JobOf(r, context).agent = r.agent /\ JobOf(r, context).session = r.session
      /\ JobOf(r, context).anchor = <<>>
  BY JobOfType
<1>5. HandlerType'
  <2>1. where \in PCs /\ Fits(where, JobOf(r, context))
    BY <1>3, <1>4 DEF Fits, PCs, EarlyPCs
  <2>. QED
    BY <1>3, <1>4, <2>1, GotoType DEF TypeInv
<1>6. HistoryType'
  <2>1. CASE r.session = NoSession
    BY <1>1, <2>1 DEF TypeInv, HistoryType, Arrive
  <2>2. CASE r.session # NoSession
    <3>. DEFINE first == IF since[r.session] = None THEN now ELSE since[r.session]
    <3>1. r.session \in Sessions
      BY <1>4, <2>2
    <3>2. first \in Nat /\ first <= now
      BY <3>1 DEF TypeInv, HistoryType, CacheType
    <3>3. since' = [since EXCEPT ![r.session] = first] /\ now' = now
      BY <1>1, <2>2 DEF Arrive
    <3>. HIDE DEF first
    <3>4. overlapped' \subseteq Sessions /\ injected' = injected
      BY <1>1, <2>2, <3>1 DEF TypeInv, HistoryType, Arrive
    <3>5. /\ since' \in [Sessions -> Nat \cup {None}]
          /\ \A s \in Sessions : since'[s] # None => since'[s] <= now
      BY <3>1, <3>2, <3>3 DEF TypeInv, HistoryType
    <3>. QED
      BY <3>3, <3>4, <3>5 DEF TypeInv, HistoryType
  <2>. QED
    BY <2>1, <2>2
<1>7. CacheType' /\ WithinCap'
  BY DEF TypeInv, CacheType, WithinCap, Arrive, caches
<1>. QED
  BY <1>5, <1>6, <1>7 DEF TypeInv

(* A handler goes on with the same request.                                *)
LEMMA MoveType ==
    ASSUME HandlerType, NEW h \in Handlers, pc[h] # "idle",
           NEW where \in PCs \ {"idle"}, NEW j \in Jobs,
           j.session = job[h].session, j.agent = job[h].agent,
           where \in {"list", "store"} => job[h].session \in Sessions,
           where \in EarlyPCs => (pc[h] \in EarlyPCs /\ j.anchor = job[h].anchor),
           Goto(h, where, j)
    PROVE  HandlerType'
<1>1. job[h] \in Jobs /\ Fits(pc[h], job[h])
  BY JobType
<1>2. job[h].agent \in Agents /\ (where \in EarlyPCs => job[h].anchor = <<>>)
  BY <1>1 DEF Fits
<1>3. Fits(where, j)
  BY <1>2 DEF Fits
<1>. QED
  BY <1>3, GotoType

(* It goes on with the job it has.                                         *)
LEMMA SameJobType ==
    ASSUME HandlerType, NEW h \in Handlers, pc[h] # "idle",
           NEW where \in PCs \ {"idle"},
           where \in {"list", "store"} => job[h].session \in Sessions,
           where \in EarlyPCs => pc[h] \in EarlyPCs,
           Goto(h, where, job[h])
    PROVE  HandlerType'
<1>1. job[h] \in Jobs
  BY JobType
<1>. QED
  BY <1>1, MoveType

(* It has found its context, its guidelines or its anchor.                 *)
LEMMA ContextFound ==
    ASSUME HandlerType, NEW h \in Handlers, pc[h] = "fillContext",
           NEW context \in Contexts, Take(h, "context", context, "guidelines")
    PROVE  /\ HandlerType' /\ pc'[h] = "guidelines"
           /\ job'[h].session = job[h].session /\ job'[h].anchor = job[h].anchor
<1>. DEFINE j == [job[h] EXCEPT !.context = context]
<1>1. job[h] \in Jobs
  BY JobType
<1>2. j \in Jobs /\ j.session = job[h].session /\ j.agent = job[h].agent /\ j.anchor = job[h].anchor
  BY <1>1 DEF Jobs
<1>3. Goto(h, "guidelines", j)
  BY DEF Take
<1>. HIDE DEF j
<1>4. HandlerType'
  BY <1>2, <1>3, MoveType DEF PCs, EarlyPCs
<1>. QED
  BY <1>2, <1>3, <1>4 DEF Goto, HandlerType

LEMMA GuidelinesFound ==
    ASSUME HandlerType, NEW h \in Handlers, pc[h] \in {"guidelines", "fillGuidelines"},
           NEW content \in Nat, Take(h, "guidelines", content, "anchor")
    PROVE  /\ HandlerType' /\ pc'[h] = "anchor"
           /\ job'[h].session = job[h].session /\ job'[h].anchor = job[h].anchor
<1>. DEFINE j == [job[h] EXCEPT !.guidelines = content]
<1>1. job[h] \in Jobs
  BY JobType
<1>2. j \in Jobs /\ j.session = job[h].session /\ j.agent = job[h].agent /\ j.anchor = job[h].anchor
  BY <1>1 DEF Jobs
<1>3. Goto(h, "anchor", j)
  BY DEF Take
<1>. HIDE DEF j
<1>4. HandlerType'
  BY <1>2, <1>3, MoveType DEF PCs, EarlyPCs
<1>. QED
  BY <1>2, <1>3, <1>4 DEF Goto, HandlerType

LEMMA AnchorFound ==
    ASSUME HandlerType, NEW h \in Handlers, pc[h] # "idle",
           NEW anchor \in Seq(Nat), NEW where \in {"store", "decide"},
           where = "store" => job[h].session \in Sessions,
           Take(h, "anchor", anchor, where)
    PROVE  /\ HandlerType' /\ pc'[h] = where
           /\ job'[h].session = job[h].session /\ job'[h].anchor = anchor
<1>. DEFINE j == [job[h] EXCEPT !.anchor = anchor]
<1>1. job[h] \in Jobs
  BY JobType
<1>2. j \in Jobs /\ j.session = job[h].session /\ j.agent = job[h].agent /\ j.anchor = anchor
  BY <1>1 DEF Jobs
<1>3. Goto(h, where, j)
  BY DEF Take
<1>. HIDE DEF j
<1>4. where \in PCs \ {"idle"} /\ where \notin EarlyPCs
  BY DEF PCs, EarlyPCs, LatePCs
<1>5. HandlerType'
  BY <1>2, <1>3, <1>4, MoveType
<1>. QED
  BY <1>2, <1>3, <1>5 DEF Goto, HandlerType

LEMMA FillContextType ==
    ASSUME TypeInv, NEW h \in Handlers, FillContext(h)
    PROVE  /\ TypeInv' /\ pc'[h] = "guidelines"
           /\ job'[h].session = job[h].session /\ job'[h].anchor = job[h].anchor
<1>. DEFINE Found(warnings, actions) ==
              [goals |-> project.goals, warnings |-> warnings, actions |-> actions, hashed |-> TRUE]
            Kept(found) ==
              [goals |-> found.goals, warnings |-> found.warnings, actions |-> found.actions, at |-> now]
<1>1. PICK warned \in {<<>>, project.feedback}, actions \in {<<>>, project.actions} :
         \/ /\ sessionCache' = Kept(Found(project.findings \o warned, actions))
            /\ Take(h, "context", Found(project.findings \o warned, actions), "guidelines")
         \/ /\ sessionCache' = [sessionCache EXCEPT !.goals = <<>>]
            /\ Take(h, "context", NoContext, "guidelines")
  BY DEF FillContext
<1>2. /\ project.goals \in Seq(Nat) /\ project.findings \in Seq(Nat)
      /\ project.feedback \in Seq(Nat) /\ project.actions \in Seq(Nat)
  BY InjectAssumption DEF TypeInv, CacheType
<1>3. project.findings \o warned \in Seq(Nat) /\ actions \in Seq(Nat)
  <2>1. <<>> \in Seq(Nat)
    OBVIOUS
  <2>2. warned \in Seq(Nat) /\ actions \in Seq(Nat)
    BY <1>2, <2>1
  <2>. DEFINE findings == project.findings
  <2>3. findings \in Seq(Nat)
    BY <1>2
  <2>. HIDE DEF findings
  <2>4. findings \o warned \in Seq(Nat)
    BY <2>2, <2>3, ConcatProperties
  <2>. QED
    BY <2>2, <2>4 DEF findings
<1>4. /\ Found(project.findings \o warned, actions) \in Contexts /\ NoContext \in Contexts
  BY <1>2, <1>3 DEF Contexts, NoContext
<1>5. ASSUME NEW c \in Contexts
      PROVE  Kept(c) \in [goals : Seq(Nat), warnings : Seq(Nat), actions : Seq(Nat), at : Int]
  BY DEF Contexts, TypeInv, CacheType
<1>. HIDE DEF Found, Kept
<1>6. sessionCache' \in [goals : Seq(Nat), warnings : Seq(Nat), actions : Seq(Nat), at : Int]
  <2>1. CASE sessionCache' = Kept(Found(project.findings \o warned, actions))
    BY <1>4, <1>5, <2>1
  <2>2. CASE sessionCache' = [sessionCache EXCEPT !.goals = <<>>]
    <3>1. <<>> \in Seq(Nat)
      OBVIOUS
    <3>2. sessionCache \in [goals : Seq(Nat), warnings : Seq(Nat), actions : Seq(Nat), at : Int]
      BY DEF TypeInv, CacheType
    <3>. QED
      BY <2>2, <3>1, <3>2
  <2>3. \/ sessionCache' = Kept(Found(project.findings \o warned, actions))
        \/ sessionCache' = [sessionCache EXCEPT !.goals = <<>>]
    BY <1>1
  <2>. QED
    BY <2>1, <2>2, <2>3
<1>7. /\ HandlerType' /\ pc'[h] = "guidelines"
      /\ job'[h].session = job[h].session /\ job'[h].anchor = job[h].anchor
  BY <1>1, <1>4, ContextFound DEF FillContext, TypeInv
<1>8. CacheType' /\ HistoryType' /\ WithinCap'
  BY <1>6 DEF FillContext, TypeInv, CacheType, HistoryType, WithinCap, history
<1>. QED
  BY <1>7, <1>8 DEF TypeInv

LEMMA GuidelinesType ==
    ASSUME TypeInv, NEW h \in Handlers, ReadGuidelines(h) \/ FillGuidelines(h)
    PROVE  /\ TypeInv' /\ pc'[h] \in {"anchor", "fillGuidelines"}
           /\ job'[h].session = job[h].session /\ job'[h].anchor = job[h].anchor
<1>1. project.guidelines \in Nat \cup {None}
  BY InjectAssumption DEF TypeInv, CacheType
<1>2. \/ guidelinesCache' = guidelinesCache
      \/ guidelinesCache' = [guidelinesCache EXCEPT !.content = 0]
      \/ project.guidelines # None /\ guidelinesCache' = [content |-> project.guidelines, at |-> now]
  BY DEF ReadGuidelines, FillGuidelines, caches
<1>3. guidelinesCache' \in [content : Nat, at : Int]
  BY <1>1, <1>2 DEF TypeInv, CacheType
<1>4. guidelinesCache'.content \in Nat
  BY <1>3
<1>5. \/ Take(h, "guidelines", guidelinesCache'.content, "anchor")
      \/ Goto(h, "fillGuidelines", job[h])
  BY DEF ReadGuidelines, FillGuidelines, caches
<1>6. pc[h] \in {"guidelines", "fillGuidelines"}
  BY DEF ReadGuidelines, FillGuidelines
<1>7. /\ HandlerType' /\ pc'[h] \in {"anchor", "fillGuidelines"}
      /\ job'[h].session = job[h].session /\ job'[h].anchor = job[h].anchor
  <2>1. CASE Take(h, "guidelines", guidelinesCache'.content, "anchor")
    BY <1>4, <1>6, <2>1, GuidelinesFound DEF TypeInv
  <2>2. CASE Goto(h, "fillGuidelines", job[h])
    <3>1. HandlerType'
      BY <1>6, <2>2, SameJobType DEF TypeInv, PCs, EarlyPCs
    <3>. QED
      BY <2>2, <3>1 DEF Goto, TypeInv, HandlerType
  <2>. QED
    BY <1>5, <2>1, <2>2
<1>8. CacheType' /\ HistoryType' /\ WithinCap'
  BY <1>3 DEF ReadGuidelines, FillGuidelines, TypeInv, CacheType, HistoryType, WithinCap, history, caches
<1>. QED
  BY <1>7, <1>8 DEF TypeInv

LEMMA LoadAnchorType ==
    ASSUME TypeInv, NEW h \in Handlers, LoadAnchor(h) PROVE TypeInv'
<1>. DEFINE s == job[h].session
<1>1. s \in Sessions \cup {NoSession} /\ pc[h] # "idle" /\ pc[h] \in EarlyPCs
  BY JobType DEF TypeInv, Jobs, LoadAnchor, EarlyPCs
<1>2. CacheType' /\ HistoryType' /\ WithinCap'
  BY DEF LoadAnchor, TypeInv, CacheType, HistoryType, WithinCap, history, caches
<1>3. CASE s = NoSession
  <2>1. Goto(h, "decide", job[h])
    BY <1>3 DEF LoadAnchor
  <2>. QED
    BY <1>1, <1>2, <2>1, SameJobType DEF TypeInv, PCs, EarlyPCs, LatePCs
<1>4. CASE s # NoSession /\ anchorCache[s] = None
  <2>1. Goto(h, "list", job[h])
    BY <1>4 DEF LoadAnchor
  <2>. QED
    BY <1>1, <1>2, <1>4, <2>1, SameJobType DEF TypeInv, PCs, EarlyPCs
<1>5. CASE s # NoSession /\ anchorCache[s] # None
  <2>1. anchorCache[s].lines \in Seq(Nat)
    BY <1>1, <1>5 DEF TypeInv, CacheType, Anchors
  <2>2. Take(h, "anchor", anchorCache[s].lines, "decide")
    BY <1>5 DEF LoadAnchor
  <2>3. HandlerType'
    BY <1>1, <2>1, <2>2, AnchorFound DEF TypeInv
  <2>. QED
    BY <1>2, <2>3 DEF TypeInv
<1>. QED
  BY <1>3, <1>4, <1>5

LEMMA ListTasksType ==
    ASSUME TypeInv, NEW h \in Handlers, ListTasks(h) PROVE TypeInv'
<1>1. job[h].session \in Sessions /\ pc[h] # "idle"
  BY JobType DEF TypeInv, ListTasks, Fits
<1>2. HistoryType' /\ WithinCap'
  BY DEF ListTasks, TypeInv, HistoryType, WithinCap, history
<1>3. CASE Take(h, "anchor", project.tasks, "store") /\ UNCHANGED <<anchorCache, faults>>
  <2>1. project.tasks \in Seq(Nat)
    BY InjectAssumption DEF TypeInv, CacheType
  <2>3. HandlerType'
    BY <1>1, <1>3, <2>1, AnchorFound DEF TypeInv
  <2>4. CacheType'
    BY <1>3 DEF ListTasks, TypeInv, CacheType
  <2>. QED
    BY <1>2, <2>3, <2>4 DEF TypeInv
<1>4. CASE /\ Fault
           /\ anchorCache' = [anchorCache EXCEPT ![job[h].session] = Anchor(<<>>)]
           /\ Goto(h, "decide", job[h])
  <2>1. Anchor(<<>>) \in Anchors
    BY DEF Anchor, Anchors, TypeInv, CacheType
  <2>2. HandlerType'
    BY <1>1, <1>4, SameJobType DEF TypeInv, PCs, EarlyPCs, LatePCs
  <2>3. CacheType'
    BY <1>1, <1>4, <2>1 DEF ListTasks, TypeInv, CacheType
  <2>. QED
    BY <1>2, <2>2, <2>3 DEF TypeInv
<1>. QED
  BY <1>3, <1>4 DEF ListTasks

LEMMA StoreAnchorType ==
    ASSUME TypeInv, NEW h \in Handlers, StoreAnchor(h) PROVE TypeInv'
<1>1. /\ job[h].session \in Sessions /\ pc[h] # "idle" /\ job[h].anchor \in Seq(Nat)
  BY JobType DEF TypeInv, StoreAnchor, Fits, Jobs
<1>2. HistoryType' /\ WithinCap'
  BY DEF StoreAnchor, TypeInv, HistoryType, WithinCap, history
<1>3. HandlerType'
  BY <1>1, SameJobType DEF StoreAnchor, TypeInv, PCs, EarlyPCs, LatePCs
<1>4. Anchor(job[h].anchor) \in Anchors
  BY <1>1 DEF Anchor, Anchors, TypeInv, CacheType
<1>5. [anchorCache EXCEPT ![job[h].session] = Anchor(job[h].anchor)]
         \in [Sessions -> Anchors \cup {None}]
  BY <1>1, <1>4 DEF TypeInv, CacheType
<1>6. anchorCache' \in [Sessions -> Anchors \cup {None}]
  BY <1>5 DEF StoreAnchor, Sweep
<1>7. CacheType'
  BY <1>6 DEF StoreAnchor, TypeInv, CacheType
<1>. QED
  BY <1>2, <1>3, <1>7 DEF TypeInv

(* What is sent for a request.                                             *)
SentFor(j, i) ==
    /\ i \in InjectedRecord /\ i.chars <= MaxInjectChars
    /\ i.agent = j.agent /\ i.session = j.session /\ i.content = FullHash(j)
    /\ i.anchor = j.anchor /\ i.young = Young(j.session)

LEMMA SendType ==
    ASSUME NEW j \in Jobs, j.agent \in Agents, Send(j)
    PROVE  /\ FullHash(j) \in Content
           /\ \E i : SentFor(j, i) /\ injected' = injected \cup {i}
<1>. DEFINE chars == BuildContextBlock(FullHash(j), j.anchor)
            i == [agent |-> j.agent, session |-> j.session, content |-> FullHash(j),
                  anchor |-> j.anchor, young |-> Young(j.session), chars |-> chars]
<1>1. FullHash(j) \in Content /\ j.anchor \in Seq(Nat)
  BY DEF FullHash, Content, Jobs, Contexts
<1>2. chars \in Nat /\ chars <= MaxInjectChars
  BY <1>1, BlockFits
<1>3. injected' = injected \cup {i}
  BY DEF Send
<1>. HIDE DEF chars
<1>4. Young(j.session) \in BOOLEAN /\ j.session \in Sessions \cup {NoSession}
  BY DEF Young, Jobs
<1>5. SentFor(j, i)
  BY <1>1, <1>2, <1>4 DEF SentFor, InjectedRecord
<1>. QED
  BY <1>1, <1>3, <1>5

LEMMA IdleType ==
    ASSUME HandlerType, NEW h \in Handlers, Goto(h, "idle", NoJob)
    PROVE  HandlerType' /\ pc'[h] = "idle" /\ job'[h] = NoJob
<1>1. HandlerType'
  BY NoJobType, GotoType DEF PCs, EarlyPCs, Fits, NoJob, JobOf
<1>. QED
  BY <1>1 DEF Goto, HandlerType

(* A request ends, sent or not.                                            *)
LEMMA InjectedType ==
    ASSUME TypeInv, NEW j \in Jobs, j.agent \in Agents,
           injected' = injected \/ Send(j), UNCHANGED <<now, since, overlapped>>
    PROVE  HistoryType' /\ WithinCap'
<1>1. CASE injected' = injected
  BY <1>1 DEF TypeInv, HistoryType, WithinCap
<1>2. CASE Send(j)
  <2>1. PICK i : SentFor(j, i) /\ injected' = injected \cup {i}
    BY <1>2, SendType
  <2>2. /\ i \in InjectedRecord /\ i.chars <= MaxInjectChars
        /\ i.young => i.session \in Sessions
    BY <2>1 DEF SentFor, Young, InjectedRecord
  <2>. QED
    BY <2>1, <2>2 DEF TypeInv, HistoryType, WithinCap
<1>. QED
  BY <1>1, <1>2

LEMMA DecideType ==
    ASSUME TypeInv, NEW h \in Handlers, Decide(h) PROVE TypeInv'
<1>1. job[h] \in Jobs /\ job[h].agent \in Agents /\ pc[h] # "idle"
  BY JobType DEF TypeInv, Decide, Fits
<1>2. CacheType'
  BY DEF Decide, TypeInv, CacheType, caches
<1>3. HistoryType' /\ WithinCap'
  <2>1. injected' = injected \/ Send(job[h])
    BY DEF Decide
  <2>. QED
    BY <1>1, <2>1, InjectedType DEF Decide
<1>4. HandlerType'
  <2>1. Goto(h, "idle", NoJob) \/ Goto(h, "track", job[h])
    BY DEF Decide
  <2>2. CASE Goto(h, "idle", NoJob)
    BY <2>2, IdleType DEF TypeInv
  <2>3. CASE Goto(h, "track", job[h])
    BY <1>1, <2>3, SameJobType DEF TypeInv, PCs, EarlyPCs, LatePCs
  <2>. QED
    BY <2>1, <2>2, <2>3
<1>. QED
  BY <1>2, <1>3, <1>4 DEF TypeInv

LEMMA TrackType ==
    ASSUME TypeInv, NEW h \in Handlers, Track(h) PROVE TypeInv'
<1>1. job[h] \in Jobs /\ job[h].agent \in Agents /\ pc[h] # "idle"
  BY JobType DEF TypeInv, Track, Fits
<1>2. HandlerType'
  BY <1>1, SameJobType DEF Track, TypeInv, PCs, EarlyPCs, LatePCs
<1>3. FullHash(job[h]) \in Content
  BY <1>1 DEF FullHash, Content, Jobs, Contexts
<1>4. injectTracker' \in [Agents -> Content \cup {None}]
  BY <1>3 DEF Track, TypeInv, CacheType
<1>5. CacheType'
  BY <1>4 DEF Track, TypeInv, CacheType
<1>6. HistoryType' /\ WithinCap'
  BY DEF Track, TypeInv, HistoryType, WithinCap, history
<1>. QED
  BY <1>2, <1>5, <1>6 DEF TypeInv

LEMMA WriteType ==
    ASSUME TypeInv, NEW h \in Handlers, WriteInjectLog(h) PROVE TypeInv'
<1>1. job[h] \in Jobs /\ job[h].agent \in Agents
  BY JobType DEF TypeInv, WriteInjectLog, Fits
<1>2. HandlerType'
  BY IdleType DEF WriteInjectLog, TypeInv
<1>3. CacheType'
  BY DEF WriteInjectLog, TypeInv, CacheType, caches
<1>4. HistoryType' /\ WithinCap'
  BY <1>1, InjectedType DEF WriteInjectLog
<1>. QED
  BY <1>2, <1>3, <1>4 DEF TypeInv

LEMMA TypeStep ==
    ASSUME TypeInv, [Next]_vars PROVE TypeInv'
<1>1. CASE Tick
  BY <1>1 DEF Tick, TypeInv, HandlerType, CacheType, HistoryType, WithinCap, caches, history
<1>2. CASE Change
  BY <1>2 DEF Change, TypeInv, HandlerType, CacheType, HistoryType, WithinCap, caches, history
<1>3. CASE UNCHANGED vars
  BY <1>3 DEF vars, TypeInv, HandlerType, CacheType, HistoryType, WithinCap, caches, history
<1>4. ASSUME NEW h \in Handlers, Handle(h) PROVE TypeInv'
  BY <1>4, ArriveType, FillContextType, GuidelinesType, LoadAnchorType, ListTasksType,
     StoreAnchorType, DecideType, TrackType, WriteType DEF Handle
<1>. QED
  BY <1>1, <1>2, <1>3, <1>4 DEF Next

-----------------------------------------------------------------------------
(* What agents were sent is recorded.                                      *)

(* It is in inject_log, its row could not be written, or is being written. *)
Recorded(entry) ==
    \/ entry \in injectLog \cup unlogged
    \/ \E h \in Handlers : pc[h] = "write" /\ Entry(job[h]) = entry

EntryOf(agent, content) == [agent |-> agent, content |-> content]

(* So is what the tracker says, on which later requests rely.              *)
LogInv ==
    /\ \A a \in Agents : injectTracker[a] # None => Recorded(EntryOf(a, injectTracker[a]))
    /\ \A i \in injected : Recorded(EntryOf(i.agent, i.content))

LEMMA RecordedKept ==
    ASSUME TypeInv, [Next]_vars, NEW entry, Recorded(entry) PROVE Recorded(entry)'
<1>1. CASE UNCHANGED <<injectLog, unlogged, pc, job>>
  BY <1>1 DEF Recorded, Entry, FullHash
<1>2. ASSUME NEW h \in Handlers, Handle(h) PROVE Recorded(entry)'
  <2>1. /\ injectLog \subseteq injectLog' /\ unlogged \subseteq unlogged'
        /\ \A g \in Handlers \ {h} : pc'[g] = pc[g] /\ job'[g] = job[g]
    BY <1>2 DEF Handle, Arrive, FillContext, ReadGuidelines, FillGuidelines, LoadAnchor, ListTasks,
       StoreAnchor, Decide, Track, WriteInjectLog, Take, Goto, history, TypeInv, HandlerType
  <2>2. CASE entry \in injectLog \cup unlogged
    BY <2>1, <2>2 DEF Recorded
  <2>3. ASSUME NEW g \in Handlers, pc[g] = "write", Entry(job[g]) = entry PROVE Recorded(entry)'
    <3>1. CASE g = h
      <4>1. WriteInjectLog(h)
        BY <1>2, <2>3, <3>1 DEF Handle, Arrive, FillContext, ReadGuidelines, FillGuidelines,
           LoadAnchor, ListTasks, StoreAnchor, Decide, Track
      <4>. QED
        BY <2>3, <3>1, <4>1 DEF WriteInjectLog, Recorded
    <3>2. CASE g # h
      <4>1. pc'[g] = "write" /\ Entry(job[g])' = entry
        BY <2>1, <2>3, <3>2 DEF Entry, FullHash
      <4>. QED
        BY <4>1 DEF Recorded
    <3>. QED
      BY <3>1, <3>2
  <2>. QED
    BY <2>2, <2>3 DEF Recorded
<1>. QED
  BY <1>1, <1>2 DEF Next, Tick, Change, vars, history

(* What a request that is sent adds to the history.                        *)
LEMMA LogSend ==
    ASSUME TypeInv, LogInv, [Next]_vars, NEW h \in Handlers, Send(job[h]),
           \/ Decide(h) /\ SameContent(job[h].agent, FullHash(job[h]))
           \/ WriteInjectLog(h)
    PROVE  \A i \in injected' : Recorded(EntryOf(i.agent, i.content))'
<1>1. job[h] \in Jobs /\ job[h].agent \in Agents
  BY JobType DEF TypeInv, WriteInjectLog, Decide, Fits
<1>2. FullHash(job[h]) \in Content /\ None \notin Content
  BY <1>1, SendType, InjectAssumption
<1>3. PICK sent : SentFor(job[h], sent) /\ injected' = injected \cup {sent}
  BY <1>1, SendType
<1>4. Recorded(Entry(job[h]))
  <2>1. CASE Decide(h) /\ SameContent(job[h].agent, FullHash(job[h]))
    BY <1>1, <1>2, <2>1 DEF LogInv, SameContent, Entry, EntryOf
  <2>2. CASE WriteInjectLog(h)
    BY <2>2 DEF WriteInjectLog, Recorded
  <2>. QED
    BY <2>1, <2>2
<1>5. Entry(job[h]) = EntryOf(sent.agent, sent.content)
  BY <1>3 DEF SentFor, Entry, EntryOf
<1>6. ASSUME NEW i \in injected' PROVE Recorded(EntryOf(i.agent, i.content))'
  <2>1. Recorded(EntryOf(i.agent, i.content))
    BY <1>3, <1>4, <1>5, <1>6 DEF LogInv
  <2>. DEFINE entry == EntryOf(i.agent, i.content)
  <2>2. Recorded(entry)
    BY <2>1
  <2>. HIDE DEF entry
  <2>3. Recorded(entry)'
    BY <2>2, RecordedKept
  <2>. QED
    BY <2>3 DEF entry
<1>. QED
  BY <1>6

LEMMA LogStep ==
    ASSUME TypeInv, LogInv, [Next]_vars PROVE LogInv'
<1>1. ASSUME NEW a \in Agents, injectTracker'[a] # None
      PROVE  Recorded(EntryOf(a, injectTracker[a]))'
  <2>1. CASE injectTracker'[a] = injectTracker[a]
    <3>. DEFINE entry == EntryOf(a, injectTracker[a])
    <3>1. Recorded(entry) /\ entry' = entry
      BY <1>1, <2>1 DEF LogInv, EntryOf
    <3>. HIDE DEF entry
    <3>2. Recorded(entry)'
      BY <3>1, RecordedKept
    <3>. QED
      BY <3>1, <3>2 DEF entry
  <2>2. CASE injectTracker'[a] # injectTracker[a]
    <3>1. PICK h \in Handlers : Track(h)
      BY <2>2 DEF Next, vars, Tick, Change, Handle, Arrive, FillContext, ReadGuidelines,
         FillGuidelines, LoadAnchor, ListTasks, StoreAnchor, Decide, WriteInjectLog, caches
    <3>2. a = job[h].agent /\ injectTracker'[a] = FullHash(job[h])
      BY <2>2, <3>1 DEF Track, TypeInv, CacheType
    <3>3. pc'[h] = "write" /\ job'[h] = job[h]
      BY <3>1 DEF Track, Goto, TypeInv, HandlerType
    <3>4. Entry(job[h])' = EntryOf(a, injectTracker[a])'
      BY <3>2, <3>3 DEF Entry, EntryOf, FullHash
    <3>. QED
      BY <3>3, <3>4 DEF Recorded
  <2>. QED
    BY <2>1, <2>2
<1>2. ASSUME NEW i \in injected' PROVE Recorded(EntryOf(i.agent, i.content))'
  <2>1. CASE injected' = injected
    <3>. DEFINE entry == EntryOf(i.agent, i.content)
    <3>1. Recorded(entry)
      BY <1>2, <2>1 DEF LogInv
    <3>. HIDE DEF entry
    <3>2. Recorded(entry)'
      BY <3>1, RecordedKept
    <3>. QED
      BY <3>2 DEF entry
  <2>2. CASE injected' # injected
    <3>1. PICK h \in Handlers :
             /\ Send(job[h])
             /\ \/ Decide(h) /\ SameContent(job[h].agent, FullHash(job[h]))
                \/ WriteInjectLog(h)
      BY <2>2 DEF Next, vars, Tick, Change, Handle, Arrive, FillContext, ReadGuidelines,
         FillGuidelines, LoadAnchor, ListTasks, StoreAnchor, Decide, Track, WriteInjectLog, history
    <3>. QED
      BY <1>2, <3>1, LogSend
  <2>. QED
    BY <2>1, <2>2
<1>. QED
  BY <1>1, <1>2 DEF LogInv

-----------------------------------------------------------------------------
(* The tasks a session shows.                                              *)

(* A session that began no longer ago than an anchor lives.                *)
Lasting(s) == s \notin overlapped /\ since[s] # None /\ now - since[s] <= AnchorTTL

(* No request of the session has come as far as its anchor.                *)
NotShown(s) ==
    /\ \A i \in injected : i.session # s
    /\ \A h \in Handlers : job[h].session = s => pc[h] \notin LatePCs
    /\ \A g, h \in Handlers : job[g].session = s /\ job[h].session = s => g = h

(* All that have show these tasks, and no request will store others.       *)
Shows(s, lines) ==
    /\ \A i \in injected : i.session = s => i.anchor = lines
    /\ \A h \in Handlers : job[h].session = s =>
          /\ pc[h] \notin {"list", "store"}
          /\ pc[h] \in LatePCs => job[h].anchor = lines

(* A session nobody has named has no trace.                                *)
Unmet(s) ==
    /\ anchorCache[s] = None
    /\ \A i \in injected : i.session # s
    /\ \A h \in Handlers : job[h].session # s

SessionInv(s) ==
    /\ since[s] = None => Unmet(s)
    /\ anchorCache[s] # None => since[s] # None /\ since[s] <= anchorCache[s].at
    /\ Lasting(s) /\ anchorCache[s] = None => NotShown(s)
    /\ Lasting(s) /\ anchorCache[s] # None => Shows(s, anchorCache[s].lines)
    /\ s \notin overlapped =>
          \A i, j \in injected : (i.session = s /\ j.session = s /\ i.young /\ j.young)
                                    => i.anchor = j.anchor

AnchorInv == \A s \in Sessions : SessionInv(s)

LEMMA AnchorInit == Init => AnchorInv
  BY InjectAssumption DEF Init, AnchorInv, SessionInv, Unmet, Lasting, NoJob, JobOf

(* Neither the caches nor what was sent changes, and every handler stays   *)
(* where it is or goes on before the anchor, with the same session.        *)
LEMMA AnchorFrame ==
    ASSUME TypeInv, TypeInv', AnchorInv, NEW s \in Sessions,
           UNCHANGED <<anchorCache, injected, since, overlapped>>, now <= now',
           \A h \in Handlers :
              \/ pc'[h] = pc[h] /\ job'[h] = job[h]
              \/ /\ pc'[h] \in EarlyPCs \ {"list"} /\ pc[h] \notin LatePCs \cup {"list", "store"}
                 /\ job'[h].session = job[h].session
    PROVE  SessionInv(s)'
<1>1. Lasting(s)' => Lasting(s)
  <2>1. AnchorTTL \in Nat /\ now \in Nat /\ now' \in Nat /\ since[s] \in Nat \cup {None}
    BY InjectAssumption DEF TypeInv, HistoryType, CacheType
  <2>. QED
    BY <2>1 DEF Lasting
<1>2. NotShown(s) => NotShown(s)'
  BY DEF NotShown, LatePCs, EarlyPCs
<1>3. ASSUME NEW lines, Shows(s, lines) PROVE Shows(s, lines)'
  BY <1>3 DEF Shows, LatePCs, EarlyPCs
<1>4. Unmet(s) => Unmet(s)'
  BY DEF Unmet
<1>5. SessionInv(s)
  BY DEF AnchorInv
<1>. QED
  BY <1>1, <1>2, <1>3, <1>4, <1>5 DEF SessionInv

LEMMA AnchorArrive ==
    ASSUME TypeInv, TypeInv', AnchorInv, NEW h \in Handlers, Arrive(h), NEW s \in Sessions
    PROVE  SessionInv(s)'
<1>1. PICK r \in Requests :
         /\ \E context \in {CachedContext, NoContext}, where \in {"guidelines", "fillContext"} :
                Goto(h, where, JobOf(r, context))
         /\ IF r.session = NoSession THEN UNCHANGED <<since, overlapped>>
            ELSE /\ since' = [since EXCEPT ![r.session] = IF @ = None THEN now ELSE @]
                 /\ overlapped' = IF /\ anchorCache[r.session] = None
                                     /\ \E g \in Handlers : job[g].session = r.session
                                  THEN overlapped \cup {r.session} ELSE overlapped
  BY DEF Arrive
<1>2. /\ job'[h].session = r.session /\ pc'[h] \in {"guidelines", "fillContext"}
      /\ \A g \in Handlers \ {h} : pc'[g] = pc[g] /\ job'[g] = job[g]
  BY <1>1 DEF Goto, JobOf, TypeInv, HandlerType
<1>3. job[h].session = NoSession /\ NoSession \notin Sessions
  BY JobType, InjectAssumption DEF Arrive, TypeInv, Fits, NoJob, JobOf
<1>4. UNCHANGED <<now, anchorCache, injected>> /\ overlapped \subseteq overlapped'
  BY <1>1 DEF Arrive, caches
<1>5. SessionInv(s)
  BY DEF AnchorInv
<1>6. CASE r.session # s
  <2>1. since'[s] = since[s] /\ (s \in overlapped' <=> s \in overlapped)
    BY <1>1, <1>6 DEF TypeInv, HistoryType
  <2>2. Lasting(s)' <=> Lasting(s)
    BY <1>4, <2>1 DEF Lasting
  <2>3. Unmet(s) => Unmet(s)'
    BY <1>2, <1>4, <1>6 DEF Unmet
  <2>4. NotShown(s) => NotShown(s)'
    BY <1>2, <1>3, <1>4, <1>6 DEF NotShown
  <2>5. ASSUME NEW lines, Shows(s, lines) PROVE Shows(s, lines)'
    BY <1>2, <1>3, <1>4, <1>6, <2>5 DEF Shows
  <2>. QED
    BY <1>4, <1>5, <2>1, <2>2, <2>3, <2>4, <2>5 DEF SessionInv
<1>7. CASE r.session = s
  <2>. DEFINE first == IF since[s] = None THEN now ELSE since[s]
  <2>1. since' = [since EXCEPT ![s] = first]
    BY <1>1, <1>3, <1>7
  <2>2. /\ first \in Nat /\ (since[s] # None => first = since[s])
        /\ None \notin Nat
    BY InjectAssumption DEF TypeInv, HistoryType, CacheType
  <2>. HIDE DEF first
  <2>3. since'[s] = first /\ since'[s] # None
    BY <2>1, <2>2 DEF TypeInv, HistoryType
  <2>4. anchorCache'[s] # None => since'[s] <= anchorCache'[s].at
    BY <1>4, <1>5, <2>2, <2>3 DEF SessionInv
  <2>5. ASSUME Lasting(s)', anchorCache[s] = None PROVE NotShown(s)'
    <3>1. s \notin overlapped
      BY <1>4, <2>5 DEF Lasting
    <3>2. \A g \in Handlers : job[g].session # s
      BY <1>1, <1>3, <1>7, <2>5 DEF Lasting
    <3>3. \A i \in injected : i.session # s
      <4>1. CASE since[s] = None
        BY <1>5, <4>1 DEF SessionInv, Unmet
      <4>2. CASE since[s] # None
        <5>1. Lasting(s)
          BY <1>4, <2>2, <2>3, <2>5, <3>1, <4>2 DEF Lasting
        <5>. QED
          BY <1>5, <2>5, <5>1 DEF SessionInv, NotShown
      <4>. QED
        BY <4>1, <4>2
    <3>. QED
      BY <1>2, <1>4, <3>2, <3>3 DEF NotShown, LatePCs
  <2>6. ASSUME Lasting(s)', anchorCache[s] # None PROVE Shows(s, anchorCache[s].lines)'
    <3>1. Lasting(s)
      BY <1>4, <1>5, <2>2, <2>3, <2>6 DEF Lasting, SessionInv
    <3>2. Shows(s, anchorCache[s].lines)
      BY <1>5, <2>6, <3>1 DEF SessionInv
    <3>. QED
      BY <1>2, <1>4, <3>2 DEF Shows, LatePCs
  <2>7. s \notin overlapped' =>
          \A i, j \in injected' : (i.session = s /\ j.session = s /\ i.young /\ j.young)
                                     => i.anchor = j.anchor
    BY <1>4, <1>5 DEF SessionInv
  <2>. QED
    BY <1>4, <2>3, <2>4, <2>5, <2>6, <2>7 DEF SessionInv
<1>. QED
  BY <1>6, <1>7

(* A step of one handler, as it looks to the sessions that are not its.    *)
LEMMA AnchorOther ==
    ASSUME TypeInv, TypeInv', AnchorInv, NEW h \in Handlers, NEW s \in Sessions,
           job[h].session # s, job'[h].session \in {job[h].session, NoSession},
           UNCHANGED <<now, since, overlapped>>,
           \A g \in Handlers \ {h} : pc'[g] = pc[g] /\ job'[g] = job[g],
           \/ anchorCache'[s] = anchorCache[s]
           \/ anchorCache'[s] = None /\ now - since[s] > AnchorTTL /\ since[s] # None,
           \/ injected' = injected
           \/ \E i : i.session = job[h].session /\ injected' = injected \cup {i}
                     /\ (i.young => Young(i.session))
    PROVE  SessionInv(s)'
<1>1. \A i \in injected' : i.session = s => i \in injected
  OBVIOUS
<1>2. injected \subseteq injected'
  OBVIOUS
<1>3. job'[h].session # s
  BY InjectAssumption
<1>4. SessionInv(s)
  BY DEF AnchorInv
<1>5. Lasting(s)' => Lasting(s) /\ anchorCache'[s] = anchorCache[s]
  <2>1. AnchorTTL \in Nat /\ now \in Nat /\ since[s] \in Nat \cup {None}
    BY InjectAssumption DEF TypeInv, HistoryType, CacheType
  <2>. QED
    BY <2>1 DEF Lasting
<1>6. Unmet(s) => Unmet(s)'
  BY <1>1, <1>3 DEF Unmet
<1>7. NotShown(s) => NotShown(s)'
  BY <1>1, <1>3 DEF NotShown
<1>8. ASSUME NEW lines, Shows(s, lines) PROVE Shows(s, lines)'
  BY <1>1, <1>3, <1>8 DEF Shows
<1>9. s \notin overlapped' =>
         \A i, j \in injected' : (i.session = s /\ j.session = s /\ i.young /\ j.young)
                                    => i.anchor = j.anchor
  BY <1>1, <1>4 DEF SessionInv
<1>10. anchorCache'[s] # None => since'[s] # None /\ since'[s] <= anchorCache'[s].at
  BY <1>4 DEF SessionInv
<1>. QED
  BY <1>4, <1>5, <1>6, <1>7, <1>8, <1>9, <1>10 DEF SessionInv

(* The session of a request has been met, and what lasts has its tasks set *)
(* when a request of it shows some, and not when one is about to set them. *)
LEMMA OwnSession ==
    ASSUME TypeInv, AnchorInv, NEW h \in Handlers, job[h].session \in Sessions
    PROVE  LET s == job[h].session
           IN  /\ since[s] \in Nat /\ since[s] # None /\ since[s] <= now
               /\ Lasting(s) /\ pc[h] \in LatePCs => anchorCache[s] # None
               /\ Lasting(s) /\ pc[h] \in {"list", "store"} => anchorCache[s] = None
  BY DEF AnchorInv, SessionInv, Unmet, NotShown, Shows, TypeInv, HistoryType

LEMMA AnchorLoad ==
    ASSUME TypeInv, AnchorInv, NEW h \in Handlers, LoadAnchor(h),
           NEW s \in Sessions, job[h].session = s
    PROVE  SessionInv(s)'
<1>1. /\ UNCHANGED <<now, anchorCache, since, overlapped, injected>>
      /\ s # NoSession /\ NoSession \notin Sessions
  BY InjectAssumption DEF LoadAnchor, caches, history
<1>2. Lasting(s)' <=> Lasting(s)
  BY <1>1 DEF Lasting
<1>3. SessionInv(s) /\ since[s] # None
  BY OwnSession DEF AnchorInv
<1>4. CASE anchorCache[s] = None
  <2>1. Goto(h, "list", job[h])
    BY <1>1, <1>4 DEF LoadAnchor
  <2>2. /\ pc'[h] = "list" /\ job'[h] = job[h]
        /\ \A g \in Handlers \ {h} : pc'[g] = pc[g] /\ job'[g] = job[g]
    BY <2>1 DEF Goto, TypeInv, HandlerType
  <2>3. NotShown(s) => NotShown(s)'
    BY <1>1, <2>2 DEF NotShown, LatePCs
  <2>. QED
    BY <1>1, <1>2, <1>3, <1>4, <2>3 DEF SessionInv
<1>5. CASE anchorCache[s] # None
  <2>1. anchorCache[s].lines \in Seq(Nat) /\ pc[h] # "idle"
    BY <1>5 DEF TypeInv, CacheType, Anchors, LoadAnchor
  <2>2. Take(h, "anchor", anchorCache[s].lines, "decide")
    BY <1>1, <1>5 DEF LoadAnchor
  <2>3. pc'[h] = "decide" /\ job'[h].anchor = anchorCache[s].lines
    BY <2>1, <2>2, AnchorFound DEF TypeInv
  <2>4. \A g \in Handlers \ {h} : pc'[g] = pc[g] /\ job'[g] = job[g]
    BY <2>2 DEF Take, Goto, TypeInv, HandlerType
  <2>5. Shows(s, anchorCache[s].lines) => Shows(s, anchorCache[s].lines)'
    BY <1>1, <2>3, <2>4 DEF Shows, LatePCs
  <2>. QED
    BY <1>1, <1>2, <1>3, <1>5, <2>5 DEF SessionInv
<1>. QED
  BY <1>4, <1>5

(* The tasks of a session are set, by the only request it has.             *)
LEMMA AnchorSet ==
    ASSUME TypeInv, AnchorInv, NEW h \in Handlers, pc[h] \in {"list", "store"},
           NEW s \in Sessions, job[h].session = s, NEW lines \in Seq(Nat),
           anchorCache'[s] = Anchor(lines), job'[h].anchor = lines, pc'[h] = "decide",
           \A g \in Handlers \ {h} : pc'[g] = pc[g] /\ job'[g] = job[g],
           UNCHANGED <<now, since, overlapped, injected>>
    PROVE  SessionInv(s)'
<1>1. /\ since[s] \in Nat /\ since[s] # None /\ since[s] <= now
      /\ Lasting(s) => anchorCache[s] = None
  BY OwnSession
<1>2. Anchor(lines) \in Anchors /\ None \notin Anchors
  BY InjectAssumption DEF Anchor, Anchors, TypeInv, CacheType
<1>3. Anchor(lines).lines = lines /\ Anchor(lines).at = now
  BY DEF Anchor
<1>4. SessionInv(s)
  BY DEF AnchorInv
<1>5. ASSUME Lasting(s)' PROVE Shows(s, lines)'
  <2>1. Lasting(s)
    BY <1>5 DEF Lasting
  <2>2. NotShown(s)
    BY <1>1, <1>4, <2>1 DEF SessionInv
  <2>. QED
    BY <2>2 DEF NotShown, Shows, LatePCs
<1>6. \A i, j \in injected' : (s \notin overlapped' /\ i.session = s /\ j.session = s /\ i.young /\ j.young)
                                 => i.anchor = j.anchor
  BY <1>4 DEF SessionInv
<1>. QED
  BY <1>1, <1>2, <1>3, <1>5, <1>6 DEF SessionInv

LEMMA AnchorList ==
    ASSUME TypeInv, AnchorInv, NEW h \in Handlers, ListTasks(h),
           NEW s \in Sessions, job[h].session = s
    PROVE  SessionInv(s)'
<1>1. UNCHANGED <<now, since, overlapped, injected>> /\ pc[h] = "list" /\ pc[h] # "idle"
  BY DEF ListTasks, history
<1>2. CASE Take(h, "anchor", project.tasks, "store") /\ UNCHANGED <<anchorCache, faults>>
  <2>1. SessionInv(s) /\ since[s] # None /\ (Lasting(s) => anchorCache[s] = None)
    BY <1>1, OwnSession DEF AnchorInv
  <2>2. project.tasks \in Seq(Nat)
    BY InjectAssumption DEF TypeInv, CacheType
  <2>3. pc'[h] = "store" /\ job'[h].session = s
    BY <1>1, <1>2, <2>2, AnchorFound DEF TypeInv
  <2>4. \A g \in Handlers \ {h} : pc'[g] = pc[g] /\ job'[g] = job[g]
    BY <1>2 DEF Take, Goto, TypeInv, HandlerType
  <2>5. NotShown(s) => NotShown(s)'
    BY <1>1, <2>3, <2>4 DEF NotShown, LatePCs
  <2>6. Lasting(s)' <=> Lasting(s)
    BY <1>1 DEF Lasting
  <2>. QED
    BY <1>1, <1>2, <2>1, <2>5, <2>6 DEF SessionInv
<1>3. CASE /\ Fault
           /\ anchorCache' = [anchorCache EXCEPT ![job[h].session] = Anchor(<<>>)]
           /\ Goto(h, "decide", job[h])
  <2>1. job[h].anchor = <<>>
    BY <1>1, JobType DEF TypeInv, Fits, EarlyPCs
  <2>2. pc'[h] = "decide" /\ job'[h].anchor = <<>>
    BY <1>3, <2>1 DEF Goto, TypeInv, HandlerType
  <2>3. \A g \in Handlers \ {h} : pc'[g] = pc[g] /\ job'[g] = job[g]
    BY <1>3 DEF Goto, TypeInv, HandlerType
  <2>4. anchorCache'[s] = Anchor(<<>>)
    BY <1>3 DEF TypeInv, CacheType
  <2>5. <<>> \in Seq(Nat)
    OBVIOUS
  <2>. QED
    BY <1>1, <2>2, <2>3, <2>4, <2>5, AnchorSet
<1>. QED
  BY <1>2, <1>3 DEF ListTasks

LEMMA AnchorStore ==
    ASSUME TypeInv, AnchorInv, NEW h \in Handlers, StoreAnchor(h), NEW s \in Sessions
    PROVE  \/ job[h].session # s /\ anchorCache'[s] = anchorCache[s]
           \/ job[h].session # s /\ anchorCache'[s] = None /\ now - since[s] > AnchorTTL /\ since[s] # None
           \/ job[h].session = s /\ SessionInv(s)'
<1>1. /\ job[h].session \in Sessions /\ job[h].anchor \in Seq(Nat)
      /\ pc[h] \in {"list", "store"}
  BY JobType DEF TypeInv, StoreAnchor, Fits, Jobs
<1>2. AnchorTTL \in Nat /\ now \in Nat /\ since[s] \in Nat \cup {None}
  BY InjectAssumption DEF TypeInv, HistoryType, CacheType
<1>. DEFINE cache == [anchorCache EXCEPT ![job[h].session] = Anchor(job[h].anchor)]
<1>3. anchorCache'[s] = IF anchorSweepSeq' = 0 /\ cache[s] # None /\ now - cache[s].at > AnchorTTL
                        THEN None ELSE cache[s]
  BY DEF StoreAnchor, Sweep
<1>4. CASE job[h].session # s
  <2>1. cache[s] = anchorCache[s]
    BY <1>4 DEF TypeInv, CacheType
  <2>2. anchorCache[s] # None =>
           /\ since[s] # None /\ since[s] <= anchorCache[s].at
           /\ anchorCache[s].at \in Nat
    BY DEF AnchorInv, SessionInv, TypeInv, CacheType, Anchors
  <2>. HIDE DEF cache
  <2>. QED
    BY <1>2, <1>3, <1>4, <2>1, <2>2
<1>5. CASE job[h].session = s
  <2>1. cache[s] = Anchor(job[h].anchor)
    BY <1>5 DEF TypeInv, CacheType
  <2>. HIDE DEF cache
  <2>2. anchorCache'[s] = Anchor(job[h].anchor)
    BY <1>2, <1>3, <2>1 DEF Anchor
  <2>3. pc'[h] = "decide" /\ job'[h].anchor = job[h].anchor
    BY DEF StoreAnchor, Goto, TypeInv, HandlerType
  <2>4. \A g \in Handlers \ {h} : pc'[g] = pc[g] /\ job'[g] = job[g]
    BY DEF StoreAnchor, Goto, TypeInv, HandlerType
  <2>5. UNCHANGED <<now, since, overlapped, injected>>
    BY DEF StoreAnchor, history
  <2>. QED
    BY <1>1, <1>5, <2>2, <2>3, <2>4, <2>5, AnchorSet
<1>. QED
  BY <1>4, <1>5

(* A request that has its anchor goes on or ends, and is sent or not.      *)
LEMMA AnchorShown ==
    ASSUME TypeInv, AnchorInv, NEW h \in Handlers, pc[h] \in LatePCs,
           NEW s \in Sessions, job[h].session = s,
           job'[h] = NoJob \/ (job'[h] = job[h] /\ pc'[h] \in LatePCs),
           \A g \in Handlers \ {h} : pc'[g] = pc[g] /\ job'[g] = job[g],
           UNCHANGED <<now, anchorCache, since, overlapped>>,
           \/ injected' = injected
           \/ \E i : SentFor(job[h], i) /\ injected' = injected \cup {i}
    PROVE  SessionInv(s)'
<1>1. /\ SessionInv(s) /\ since[s] # None /\ s # NoSession
      /\ Lasting(s) => anchorCache[s] # None
  BY InjectAssumption, OwnSession DEF AnchorInv
<1>. DEFINE lines == anchorCache[s].lines
<1>2. Lasting(s) => Shows(s, lines) /\ job[h].anchor = lines
  BY <1>1 DEF SessionInv, Shows
<1>3. Lasting(s)' <=> Lasting(s)
  BY DEF Lasting
<1>4. NoJob.session # s
  BY <1>1 DEF NoJob, JobOf
<1>5. \A i \in injected' : i \in injected \/ (i.anchor = job[h].anchor /\ (i.young => Young(s)))
  BY DEF SentFor
<1>6. Lasting(s) => Shows(s, lines)'
  BY <1>2, <1>4, <1>5 DEF Shows, LatePCs
<1>7. ASSUME s \notin overlapped, NEW i \in injected', NEW j \in injected',
             i.session = s, j.session = s, i.young, j.young
      PROVE  i.anchor = j.anchor
  <2>1. CASE i \in injected /\ j \in injected
    BY <1>1, <1>7, <2>1 DEF SessionInv
  <2>2. CASE Young(s)
    <3>1. Lasting(s)
      BY <1>1, <1>7, <2>2 DEF Young, Lasting
    <3>. QED
      BY <1>2, <1>5, <1>7, <3>1 DEF Shows
  <2>. QED
    BY <1>5, <1>7, <2>1, <2>2
<1>8. since'[s] # None /\ (anchorCache'[s] # None => since'[s] <= anchorCache'[s].at)
  BY <1>1 DEF SessionInv
<1>. HIDE DEF lines
<1>9. Lasting(s)' => anchorCache'[s] # None /\ Shows(s, anchorCache[s].lines)'
  BY <1>1, <1>3, <1>6 DEF lines
<1>. QED
  BY <1>7, <1>8, <1>9 DEF SessionInv

LEMMA OnlyOne ==
    ASSUME HandlerType, NEW h \in Handlers, NEW where, NEW j, Goto(h, where, j)
    PROVE  /\ pc'[h] = where /\ job'[h] = j
           /\ \A g \in Handlers \ {h} : pc'[g] = pc[g] /\ job'[g] = job[g]
  BY DEF HandlerType, Goto

LEMMA AnchorHandle ==
    ASSUME TypeInv, TypeInv', AnchorInv, NEW h \in Handlers, Handle(h), NEW s \in Sessions
    PROVE  SessionInv(s)'
<1>1. CASE Arrive(h)
  BY <1>1, AnchorArrive
<1>2. CASE FillContext(h)
  <2>1. \E where, j : Goto(h, where, j)
    BY <1>2 DEF FillContext, Take
  <2>2. \A g \in Handlers \ {h} : pc'[g] = pc[g] /\ job'[g] = job[g]
    BY <2>1, OnlyOne DEF TypeInv
  <2>3. /\ pc[h] = "fillContext" /\ pc'[h] = "guidelines" /\ job'[h].session = job[h].session
        /\ UNCHANGED <<now, anchorCache, injected, since, overlapped>>
    BY <1>2, FillContextType DEF FillContext, history
  <2>4. now <= now'
    BY <2>3 DEF TypeInv, CacheType
  <2>. QED
    BY <2>2, <2>3, <2>4, AnchorFrame DEF EarlyPCs, LatePCs
<1>3. CASE ReadGuidelines(h) \/ FillGuidelines(h)
  <2>1. \E where, j : Goto(h, where, j)
    BY <1>3 DEF ReadGuidelines, FillGuidelines, Take
  <2>2. \A g \in Handlers \ {h} : pc'[g] = pc[g] /\ job'[g] = job[g]
    BY <2>1, OnlyOne DEF TypeInv
  <2>3. /\ pc[h] \in {"guidelines", "fillGuidelines"} /\ pc'[h] \in {"anchor", "fillGuidelines"}
        /\ job'[h].session = job[h].session
        /\ UNCHANGED <<now, anchorCache, injected, since, overlapped>>
    BY <1>3, GuidelinesType DEF ReadGuidelines, FillGuidelines, history, caches
  <2>4. now <= now'
    BY <2>3 DEF TypeInv, CacheType
  <2>. QED
    BY <2>2, <2>3, <2>4, AnchorFrame DEF EarlyPCs, LatePCs
<1>4. CASE LoadAnchor(h) \/ ListTasks(h)
  <2>1. CASE job[h].session = s
    BY <1>4, <2>1, AnchorLoad, AnchorList
  <2>2. CASE job[h].session # s
    <3>1. \A g \in Handlers \ {h} : pc'[g] = pc[g] /\ job'[g] = job[g]
      <4>1. \E where, j : Goto(h, where, j)
        BY <1>4 DEF LoadAnchor, ListTasks, Take
      <4>. QED
        BY <4>1, OnlyOne DEF TypeInv
    <3>2. job'[h].session = job[h].session
      BY <1>4 DEF LoadAnchor, ListTasks, Take, Goto, TypeInv, HandlerType, Jobs
    <3>3. anchorCache'[s] = anchorCache[s]
      BY <1>4, <2>2 DEF LoadAnchor, ListTasks, TypeInv, CacheType, caches
    <3>4. UNCHANGED <<now, since, overlapped, injected>>
      BY <1>4 DEF LoadAnchor, ListTasks, history
    <3>. QED
      BY <2>2, <3>1, <3>2, <3>3, <3>4, AnchorOther
  <2>. QED
    BY <2>1, <2>2
<1>5. CASE StoreAnchor(h)
  <2>1. CASE job[h].session = s
    BY <1>5, <2>1, AnchorStore
  <2>2. CASE job[h].session # s
    <3>1. Goto(h, "decide", job[h]) /\ UNCHANGED <<now, since, overlapped, injected>>
      BY <1>5 DEF StoreAnchor, history
    <3>2. /\ job'[h] = job[h]
          /\ \A g \in Handlers \ {h} : pc'[g] = pc[g] /\ job'[g] = job[g]
      BY <3>1, OnlyOne DEF TypeInv
    <3>3. \/ anchorCache'[s] = anchorCache[s]
          \/ anchorCache'[s] = None /\ now - since[s] > AnchorTTL /\ since[s] # None
      BY <1>5, <2>2, AnchorStore
    <3>. QED
      BY <2>2, <3>1, <3>2, <3>3, AnchorOther
  <2>. QED
    BY <2>1, <2>2
<1>6. CASE Decide(h) \/ Track(h) \/ WriteInjectLog(h)
  <2>1. /\ UNCHANGED <<now, anchorCache, since, overlapped>> /\ pc[h] \in LatePCs
        /\ injected' = injected \/ Send(job[h])
    BY <1>6 DEF Decide, Track, WriteInjectLog, caches, history, LatePCs
  <2>2. Goto(h, "idle", NoJob) \/ Goto(h, "track", job[h]) \/ Goto(h, "write", job[h])
    BY <1>6 DEF Decide, Track, WriteInjectLog
  <2>3. \A g \in Handlers \ {h} : pc'[g] = pc[g] /\ job'[g] = job[g]
    BY <2>2, OnlyOne DEF TypeInv
  <2>4. job'[h] = NoJob \/ (job'[h] = job[h] /\ pc'[h] \in LatePCs)
    BY <2>2, OnlyOne DEF TypeInv, LatePCs
  <2>5. job[h] \in Jobs /\ job[h].agent \in Agents
    BY <2>1, JobType DEF TypeInv, Fits, LatePCs
  <2>6. \/ injected' = injected
        \/ \E i : SentFor(job[h], i) /\ injected' = injected \cup {i}
    BY <2>1, <2>5, SendType
  <2>7. CASE job[h].session = s
    BY <2>1, <2>3, <2>4, <2>6, <2>7, AnchorShown
  <2>8. CASE job[h].session # s
    <3>1. job'[h].session \in {job[h].session, NoSession}
      BY <2>4 DEF NoJob, JobOf
    <3>2. \/ injected' = injected
          \/ \E i : i.session = job[h].session /\ injected' = injected \cup {i}
                    /\ (i.young => Young(i.session))
      BY <2>6 DEF SentFor
    <3>. QED
      BY <2>1, <2>3, <2>8, <3>1, <3>2, AnchorOther
  <2>. QED
    BY <2>7, <2>8
<1>. QED
  BY <1>1, <1>2, <1>3, <1>4, <1>5, <1>6 DEF Handle

LEMMA AnchorStep ==
    ASSUME TypeInv, TypeInv', AnchorInv, [Next]_vars PROVE AnchorInv'
<1>1. CASE Tick \/ Change \/ UNCHANGED vars
  <2>1. /\ UNCHANGED <<anchorCache, injected, since, overlapped, pc, job>> /\ now <= now'
    BY <1>1 DEF Tick, Change, vars, caches, history, TypeInv, CacheType
  <2>2. ASSUME NEW s \in Sessions PROVE SessionInv(s)'
    BY <2>1, AnchorFrame
  <2>. QED
    BY <2>2 DEF AnchorInv
<1>2. ASSUME NEW h \in Handlers, Handle(h) PROVE AnchorInv'
  BY <1>2, AnchorHandle DEF AnchorInv
<1>. QED
  BY <1>1, <1>2 DEF Next

-----------------------------------------------------------------------------
(* Theorems.                                                               *)

(* Every variable keeps its type; no injected block exceeds the cap; what  *)
(* is sent, and what the tracker says was sent, is recorded; and of a      *)
(* session that lasts, either no request has come as far as its anchor, or *)
(* all of them show the one that is stored.                                *)
InjectInv == TypeInv /\ LogInv /\ AnchorInv

THEOREM InjectInvariant == Spec => []InjectInv
<1>1. Init => InjectInv
  <2>. SUFFICES ASSUME Init PROVE InjectInv
    OBVIOUS
  <2>1. LogInv
    BY DEF Init, LogInv
  <2>. QED
    BY <2>1, TypeInit, AnchorInit DEF InjectInv
<1>2. InjectInv /\ [Next]_vars => InjectInv'
  BY TypeStep, LogStep, AnchorStep DEF InjectInv
<1>. QED
  BY <1>1, <1>2, PTL DEF Spec

(***************************************************************************)
(* buildContextBlock keeps the cap, whatever the project holds: headings,  *)
(* line ends, the ellipsis and the tip included.                           *)
(***************************************************************************)
THEOREM CapKept == Spec => []WithinCap
<1>1. InjectInv => WithinCap
  BY DEF InjectInv, TypeInv
<1>. QED
  BY <1>1, InjectInvariant, PTL

(***************************************************************************)
(* resolveAnchorContext gives all requests of a session the tasks that     *)
(* were in progress when it began, for any number of handlers, changes of  *)
(* the project, errors and sweeps, while the session is younger than the   *)
(* TTL and unless its first requests overlapped.                           *)
(***************************************************************************)
THEOREM AnchorKept == Spec => []AnchorStable
<1>1. InjectInv => AnchorStable
  <2>. SUFFICES ASSUME InjectInv, NEW i \in injected, NEW j \in injected,
                       i.session = j.session, i.session \notin overlapped, i.young, j.young
                PROVE  i.anchor = j.anchor
    BY DEF AnchorStable
  <2>1. i.session \in Sessions
    BY DEF InjectInv, TypeInv, HistoryType
  <2>. QED
    BY <2>1 DEF InjectInv, AnchorInv, SessionInv
<1>. QED
  BY <1>1, InjectInvariant, PTL

(***************************************************************************)
(* What an agent was sent is in inject_log, or its row could not be        *)
(* written, or is about to be: shouldInject and the tracker, which is set  *)
(* before the row is written, never hide content from the log.             *)
(***************************************************************************)
THEOREM InjectionsLogged == Spec => []InjectedIsLogged
<1>1. InjectInv => InjectedIsLogged
  BY DEF InjectInv, LogInv, Recorded, EntryOf, InjectedIsLogged
<1>. QED
  BY <1>1, InjectInvariant, PTL
=============================================================================
