------------------------- MODULE DiscussionFeedProofs -------------------------
(***************************************************************************)
(* Theorems about DiscussionFeed, for any number of rows, reads, results   *)
(* and suffixes, any limit of a read, and whatever the rows quote; and, in *)
(* the last section, about SchemaUpgrade, the database the rows are in.    *)
(***************************************************************************)
EXTENDS DiscussionFeed, SchemaUpgrade, FiniteSetTheorems, SequenceTheorems, WellFoundedInduction,
        TLAPS

-----------------------------------------------------------------------------
(* Induction on numbers and, with it, what FoldLeft computes.             *)

LEMMA LeastNat ==
    ASSUME NEW T \in SUBSET Nat, T # {}
    PROVE  \E x \in T : \A y \in T : x <= y
<1>1. PICK x \in T : \A y \in T : ~(<<y, x>> \in OpToRel(<, Nat))
  BY WFMin, NatLessThanWellFounded
<1>2. ASSUME NEW y \in T PROVE x <= y
  <2>1. SUFFICES ASSUME y < x PROVE FALSE  OBVIOUS
  <2>2. <<y, x>> \in OpToRel(<, Nat)  BY <2>1 DEF OpToRel
  <2>. QED  BY <1>1, <2>2
<1>. QED  BY <1>2

LEMMA GreatestNat ==
    ASSUME NEW T \in SUBSET Nat, T # {}, NEW n \in Nat, \A y \in T : y <= n
    PROVE  \E x \in T : \A y \in T : x >= y
<1>. DEFINE U == {m \in Nat : \A y \in T : y <= m}
<1>1. PICK m \in U : \A u \in U : m <= u
  BY LeastNat
<1>2. m \in T
  <2>1. SUFFICES ASSUME m \notin T PROVE FALSE  OBVIOUS
  <2>2. \A y \in T : y < m  BY <2>1
  <2>3. PICK z \in T : TRUE  OBVIOUS
  <2>4. m \in Nat /\ z \in Nat /\ z < m  BY <2>2
  <2>5. m - 1 \in Nat /\ m - 1 < m  BY <2>4
  <2>6. \A y \in T : y <= m - 1  BY <2>2, <2>4
  <2>7. m - 1 \in U  BY <2>5, <2>6
  <2>. QED  BY <1>1, <2>4, <2>5, <2>7
<1>. QED  BY <1>2

LEMMA NatSetInduction ==
    ASSUME NEW S, S \subseteq Nat, 0 \in S, \A n \in S : n + 1 \in S
    PROVE  S = Nat
<1>1. SUFFICES ASSUME Nat \ S # {} PROVE FALSE
  OBVIOUS
<1>2. PICK x \in Nat \ S : \A y \in Nat \ S : x <= y
  BY <1>1, LeastNat
<1>3. x \in Nat /\ x # 0
  BY <1>2
<1>4. x - 1 \in Nat /\ x - 1 < x /\ (x - 1) + 1 = x
  BY <1>3
<1>5. x - 1 \in S
  BY <1>2, <1>4
<1>. QED
  BY <1>2, <1>4, <1>5

(***************************************************************************)
(* FoldLeft visits the elements of a sequence as the greatest of what is   *)
(* left of its domain: the domain's initial segments.                      *)
(***************************************************************************)
LEMMA SegmentMax ==
    ASSUME NEW n \in Nat \ {0}
    PROVE  /\ 1 .. n # {} /\ Max(1 .. n) = n
           /\ (1 .. n) \ {n} = 1 .. (n - 1)
<1>1. n \in 1 .. n /\ \A y \in 1 .. n : n >= y
  OBVIOUS
<1>2. \A x \in 1 .. n : x >= n => x = n
  OBVIOUS
<1>3. Max(1 .. n) = n
  BY <1>1, <1>2 DEF Max
<1>4. (1 .. n) \ {n} = 1 .. (n - 1)
  OBVIOUS
<1>. QED
  BY <1>1, <1>3, <1>4

LEMMA DomainMax ==
    ASSUME NEW E, NEW seq \in Seq(E), NEW s \in SUBSET DOMAIN seq, s # {}
    PROVE  Max(s) \in DOMAIN seq /\ seq[Max(s)] \in E
<1>1. /\ Len(seq) \in Nat /\ s \in SUBSET Nat
      /\ \A y \in s : y <= Len(seq)
  OBVIOUS
<1>2. \E x \in s : \A y \in s : x >= y
  BY <1>1, GreatestNat
<1>3. Max(s) \in s
  BY <1>2 DEF Max
<1>. QED
  BY <1>3

(***************************************************************************)
(* The function by which FoldLeft is defined: it folds a part of the       *)
(* sequence, its greatest index last.                                      *)
(***************************************************************************)
IsFold(g, step, base, seq) ==
    \A s \in SUBSET DOMAIN seq :
        g[s] = IF s = {} THEN base ELSE step[<<g[s \ {Max(s)}], seq[Max(s)]>>]

(* It exists, when what it folds with is a function on a type.             *)
LEMMA FoldExists ==
    ASSUME NEW T, NEW E, NEW step \in [T \X E -> T], NEW base \in T, NEW seq \in Seq(E)
    PROVE  \E g : g \in [SUBSET DOMAIN seq -> T] /\ IsFold(g, step, base, seq)
<1>. DEFINE Value(g, s) == IF s = {} THEN base
                                     ELSE step[<<g[s \ {Max(s)}], seq[Max(s)]>>]
            Good(n) == \E g \in [SUBSET (1 .. n) -> T] :
                          \A s \in SUBSET (1 .. n) : g[s] = Value(g, s)
            S == {n \in Nat : n <= Len(seq) => Good(n)}
<1>1. 0 \in S
  <2>1. 1 .. 0 = {}
    OBVIOUS
  <2>2. SUBSET (1 .. 0) = {{}}
    BY <2>1
  <2>3. [s \in SUBSET (1 .. 0) |-> base] \in [SUBSET (1 .. 0) -> T]
    OBVIOUS
  <2>4. \A s \in SUBSET (1 .. 0) :
           [t \in SUBSET (1 .. 0) |-> base][s] = Value([t \in SUBSET (1 .. 0) |-> base], s)
    BY <2>2
  <2>. QED
    BY <2>3, <2>4
<1>2. ASSUME NEW n \in S PROVE n + 1 \in S
  <2>1. n \in Nat /\ n + 1 \in Nat
    OBVIOUS
  <2>2. SUFFICES ASSUME n + 1 <= Len(seq) PROVE Good(n + 1)
    BY <2>1
  <2>3. Len(seq) \in Nat /\ n <= Len(seq)
    BY <2>1, <2>2
  <2>4. PICK g \in [SUBSET (1 .. n) -> T] : \A s \in SUBSET (1 .. n) : g[s] = Value(g, s)
    BY <2>3
  <2>5. seq[n + 1] \in E
    BY <2>1, <2>2, <2>3
  <2>. DEFINE h == [s \in SUBSET (1 .. n + 1) |->
                       IF n + 1 \in s THEN step[<<g[s \ {n + 1}], seq[n + 1]>>] ELSE g[s]]
  <2>6. \A s \in SUBSET (1 .. n + 1) : s \ {n + 1} \in SUBSET (1 .. n)
    BY <2>1
  <2>7. \A s \in SUBSET (1 .. n + 1) : n + 1 \notin s => s \in SUBSET (1 .. n)
    BY <2>6
  <2>8. h \in [SUBSET (1 .. n + 1) -> T]
    BY <2>4, <2>5, <2>6, <2>7
  <2>9. \A s \in SUBSET (1 .. n) : h[s] = g[s]
    <3>1. \A s \in SUBSET (1 .. n) : s \in SUBSET (1 .. n + 1) /\ n + 1 \notin s
      BY <2>1
    <3>. QED
      BY <3>1
  <2>10. ASSUME NEW s \in SUBSET (1 .. n + 1) PROVE h[s] = Value(h, s)
    <3>1. CASE n + 1 \in s
      <4>1. \A y \in s : n + 1 >= y
        BY <2>1
      <4>2. \A x \in s : x >= n + 1 => x = n + 1
        BY <2>1
      <4>3. Max(s) = n + 1
        BY <3>1, <4>1, <4>2 DEF Max
      <4>4. h[s \ {n + 1}] = g[s \ {n + 1}]
        BY <2>6, <2>9
      <4>. QED
        BY <3>1, <4>3, <4>4
    <3>2. CASE n + 1 \notin s
      <4>1. s \in SUBSET (1 .. n) /\ s \ {Max(s)} \in SUBSET (1 .. n)
        BY <2>7, <3>2
      <4>2. h[s] = Value(g, s) /\ h[s \ {Max(s)}] = g[s \ {Max(s)}]
        BY <2>4, <2>9, <4>1
      <4>. QED
        BY <4>2
    <3>. QED
      BY <3>1, <3>2
  <2>. HIDE DEF h
  <2>. QED
    BY <2>8, <2>10
<1>3. S = Nat
  <2>. HIDE DEF S
  <2>1. S \subseteq Nat
    BY DEF S
  <2>. QED
    BY <1>1, <1>2, <2>1, NatSetInduction
<1>4. Len(seq) \in Nat /\ DOMAIN seq = 1 .. Len(seq)
  OBVIOUS
<1>5. Good(Len(seq))
  <2>. HIDE DEF Good
  <2>1. Len(seq) \in S
    BY <1>3, <1>4
  <2>. QED
    BY <1>4, <2>1
<1>6. PICK g \in [SUBSET DOMAIN seq -> T] : \A s \in SUBSET DOMAIN seq : g[s] = Value(g, s)
  BY <1>4, <1>5
<1>. QED
  BY <1>6 DEF IsFold

(***************************************************************************)
(* A fold runs over the sequence from its first element to its last.  The  *)
(* function fold need not be known outside what the run reaches.           *)
(***************************************************************************)
FoldsWithin(T, E, fold, step, base, seq) ==
    /\ step \in [T \X E -> T] /\ base \in T /\ seq \in Seq(E)
    /\ fold[{}] = base
    /\ \A s \in SUBSET DOMAIN seq :
          s # {} /\ fold[s \ {Max(s)}] \in T
            => fold[s] = step[<<fold[s \ {Max(s)}], seq[Max(s)]>>]

RunsOver(T, run, step, base, seq) ==
    /\ run \in [0 .. Len(seq) -> T]
    /\ run[0] = base
    /\ \A k \in 1 .. Len(seq) : run[k] = step[<<run[k - 1], seq[k]>>]

LEMMA FoldRuns ==
    ASSUME NEW T, NEW E, NEW fold, NEW step, NEW base, NEW seq,
           FoldsWithin(T, E, fold, step, base, seq)
    PROVE  \E run : RunsOver(T, run, step, base, seq) /\ run[Len(seq)] = fold[DOMAIN seq]
<1>. step \in [T \X E -> T] /\ base \in T /\ seq \in Seq(E)
  BY DEF FoldsWithin
<1>. USE DEF FoldsWithin
<1>. DEFINE run == [k \in 0 .. Len(seq) |-> fold[1 .. k]]
            S == {k \in Nat : k <= Len(seq) => fold[1 .. k] \in T}
<1>1. Len(seq) \in Nat /\ DOMAIN seq = 1 .. Len(seq)
  OBVIOUS
<1>2. \A k \in 0 .. Len(seq) : 1 .. k \in SUBSET DOMAIN seq
  BY <1>1
<1>3. fold[1 .. 0] = base
  <2>1. 1 .. 0 = {}
    OBVIOUS
  <2>. QED
    BY <2>1
<1>4. ASSUME NEW k \in 1 .. Len(seq), fold[1 .. (k - 1)] \in T
      PROVE  fold[1 .. k] = step[<<fold[1 .. (k - 1)], seq[k]>>] /\ fold[1 .. k] \in T
  <2>1. k \in Nat \ {0} /\ k \in 0 .. Len(seq) /\ k - 1 \in 0 .. Len(seq)
    BY <1>1
  <2>2. 1 .. k # {} /\ Max(1 .. k) = k /\ (1 .. k) \ {k} = 1 .. (k - 1)
    BY <2>1, SegmentMax
  <2>3. fold[1 .. k] = step[<<fold[1 .. (k - 1)], seq[k]>>]
    BY <1>2, <1>4, <2>1, <2>2
  <2>4. seq[k] \in E
    BY <1>1
  <2>. QED
    BY <1>4, <2>3, <2>4
<1>5. S = Nat
  <2>1. 0 \in S
    BY <1>3
  <2>2. ASSUME NEW k \in S PROVE k + 1 \in S
    <3>1. SUFFICES ASSUME k + 1 <= Len(seq) PROVE fold[1 .. k + 1] \in T
      OBVIOUS
    <3>2. k \in Nat /\ k + 1 \in 1 .. Len(seq) /\ (k + 1) - 1 = k /\ k <= Len(seq)
      BY <1>1, <3>1
    <3>3. fold[1 .. k] \in T
      BY <3>2
    <3>4. fold[1 .. ((k + 1) - 1)] \in T
      BY <3>2, <3>3
    <3>. HIDE DEF S
    <3>. QED
      BY <1>4, <3>2, <3>4
  <2>3. S \subseteq Nat
    OBVIOUS
  <2>. HIDE DEF S
  <2>. QED
    BY <2>1, <2>2, <2>3, NatSetInduction
<1>6. \A k \in 0 .. Len(seq) : fold[1 .. k] \in T
  <2>. TAKE k \in 0 .. Len(seq)
  <2>1. k \in S /\ k <= Len(seq)
    BY <1>1, <1>5
  <2>. QED
    BY <2>1
<1>. HIDE DEF S
<1>7. run \in [0 .. Len(seq) -> T]
  BY <1>6
<1>8. run[0] = base /\ run[Len(seq)] = fold[DOMAIN seq]
  BY <1>1, <1>3
<1>9. ASSUME NEW k \in 1 .. Len(seq)
      PROVE  run[k] = step[<<run[k - 1], seq[k]>>]
  <2>1. k \in 0 .. Len(seq) /\ k - 1 \in 0 .. Len(seq)
    BY <1>1
  <2>. QED
    BY <1>4, <1>6, <2>1
<1>. HIDE DEF run
<1>. QED
  BY <1>7, <1>8, <1>9 DEF RunsOver

-----------------------------------------------------------------------------
(* The lines of a text, and those a tool writes: no placeholder is among   *)
(* them, and a block begins with an id.                                    *)

Lines == [kind : {"header", "blank", "head", "preview", "whole", "cut", "mark"}, id : Nat]

Shown == {ln \in Lines : ln.kind # "mark" /\ (ln.kind = "head" => ln.id # NoId)}

LineIds == Nat \ {NoId}

TextStates ==
    [out : Seq(Lines), block : Seq(Lines), id : Nat, seen : SUBSET LineIds, dups : Nat]

(* The kind and the id are all there is of a line. *)
LEMMA LineIs ==
    ASSUME NEW ln \in Lines, NEW kind, NEW id
    PROVE  ln = Line(kind, id) <=> ln.kind = kind /\ ln.id = id
BY DEF Lines, Line

LEMMA LineTypes ==
    /\ \A id \in Nat : Line("mark", id) \in Lines /\ Line("head", id) \in Lines
    /\ \A id \in LineIds : Line("head", id) \in Shown
    /\ \A id \in Nat : {Line("preview", id), Line("whole", id), Line("cut", id)} \subseteq Shown
    /\ Blank \in Shown /\ Header \in Shown /\ Shown \subseteq Lines
BY DEF Lines, Line, Shown, LineIds, NoId, Blank, Header

(* A text without trailing empty lines begins like the text. *)
LEMMA TrimKeeps ==
    ASSUME NEW rows \in Seq(Lines)
    PROVE  \E n \in 0 .. Len(rows) :
              /\ TrimTrailingEmpty(rows) = SubSeq(rows, 1, n)
              /\ \A k \in 1 .. Len(rows) : IsText(rows[k]) => k <= n
<1>. DEFINE I == {i \in 1 .. Len(rows) : IsText(rows[i])}
            n == SelectLastInSeq(rows, IsText)
<1>1. Len(rows) \in Nat
  OBVIOUS
<1>2. n = IF I # {} THEN Max(I) ELSE 0
  BY DEF SelectLastInSeq
<1>3. CASE I = {}
  <2>1. n = 0 /\ 0 \in 0 .. Len(rows)
    BY <1>1, <1>2, <1>3
  <2>2. \A k \in 1 .. Len(rows) : IsText(rows[k]) => k <= 0
    BY <1>3
  <2>. QED
    BY <2>1, <2>2 DEF TrimTrailingEmpty
<1>4. CASE I # {}
  <2>1. I \in SUBSET Nat /\ \A y \in I : y <= Len(rows)
    BY <1>1
  <2>2. \E x \in I : \A y \in I : x >= y
    BY <1>1, <1>4, <2>1, GreatestNat
  <2>3. Max(I) \in I /\ \A y \in I : Max(I) >= y
    BY <2>2 DEF Max
  <2>4. Max(I) \in 0 .. Len(rows) /\ \A k \in 1 .. Len(rows) : IsText(rows[k]) => k <= Max(I)
    BY <1>1, <2>3
  <2>. QED
    BY <1>2, <1>4, <2>4 DEF TrimTrailingEmpty
<1>. QED
  BY <1>3, <1>4

LEMMA TextStateType ==
    ASSUME NEW out \in Seq(Lines), NEW block \in Seq(Lines), NEW id \in Nat,
           NEW shown \in SUBSET LineIds, NEW folds \in Nat
    PROVE  [out |-> out, seen |-> shown, dups |-> folds, block |-> block, id |-> id]
              \in TextStates
BY DEF TextStates

(* What a flush does, for each kind of block. *)
LEMMA FlushOpening ==
    ASSUME NEW st \in TextStates, st.id = NoId
    PROVE  Flush(st) = [out |-> st.out \o st.block, seen |-> st.seen, dups |-> st.dups,
                        block |-> <<>>, id |-> NoId]
<1>1. st.id \notin st.seen /\ st.seen \cup ({st.id} \ {NoId}) = st.seen
  BY DEF TextStates, LineIds
<1>. QED
  BY <1>1 DEF Flush

LEMMA FlushFirst ==
    ASSUME NEW st \in TextStates, st.id # NoId, st.id \notin st.seen
    PROVE  Flush(st) = [out |-> st.out \o TrimTrailingEmpty(st.block),
                        seen |-> st.seen \cup {st.id}, dups |-> st.dups,
                        block |-> <<>>, id |-> NoId]
<1>1. st.seen \cup ({st.id} \ {NoId}) = st.seen \cup {st.id}
  OBVIOUS
<1>. QED
  BY <1>1 DEF Flush

LEMMA FlushAgain ==
    ASSUME NEW st \in TextStates, st.id # NoId, st.id \in st.seen
    PROVE  Flush(st) = [out |-> st.out \o <<Line("mark", st.id)>>,
                        seen |-> st.seen, dups |-> st.dups + 1,
                        block |-> <<>>, id |-> NoId]
<1>1. st.seen \cup ({st.id} \ {NoId}) = st.seen
  OBVIOUS
<1>. QED
  BY <1>1 DEF Flush

LEMMA FlushType ==
    ASSUME NEW st \in TextStates
    PROVE  Flush(st) \in TextStates
<1>0. <<>> \in Seq(Lines) /\ NoId \in Nat
  BY DEF NoId
<1>4. /\ st.out \in Seq(Lines) /\ st.block \in Seq(Lines) /\ st.seen \in SUBSET LineIds
      /\ st.dups \in Nat /\ st.id \in Nat
  BY DEF TextStates
<1>5. ASSUME NEW more \in Seq(Lines) PROVE st.out \o more \in Seq(Lines)
  BY <1>4
<1>1. CASE st.id = NoId
  <2>8. [out |-> st.out \o st.block, seen |-> st.seen, dups |-> st.dups,
         block |-> <<>>, id |-> NoId] \in TextStates
    BY <1>0, <1>4, <1>5, TextStateType
  <2>. QED
    BY <1>1, <2>8, FlushOpening
<1>2. CASE st.id # NoId /\ st.id \notin st.seen
  <2>1. PICK n \in 0 .. Len(st.block) : TrimTrailingEmpty(st.block) = SubSeq(st.block, 1, n)
    BY TrimKeeps DEF TextStates
  <2>2. TrimTrailingEmpty(st.block) \in Seq(Lines)
    BY <1>4, <2>1
  <2>3. st.seen \cup {st.id} \in SUBSET LineIds
    BY <1>2, <1>4 DEF LineIds
  <2>8. [out |-> st.out \o TrimTrailingEmpty(st.block), seen |-> st.seen \cup {st.id}, dups |-> st.dups,
         block |-> <<>>, id |-> NoId] \in TextStates
    BY <1>0, <1>4, <1>5, <2>2, <2>3, TextStateType
  <2>. QED
    BY <1>2, <2>8, FlushFirst
<1>3. CASE st.id # NoId /\ st.id \in st.seen
  <2>1. Line("mark", st.id) \in Lines
    BY <1>4, LineTypes
  <2>3. <<Line("mark", st.id)>> \in Seq(Lines) /\ st.dups + 1 \in Nat
    BY <1>4, <2>1
  <2>8. [out |-> st.out \o <<Line("mark", st.id)>>, seen |-> st.seen, dups |-> st.dups + 1,
         block |-> <<>>, id |-> NoId] \in TextStates
    BY <1>0, <1>4, <1>5, <2>3, TextStateType
  <2>. QED
    BY <1>3, <2>8, FlushAgain
<1>. QED
  BY <1>1, <1>2, <1>3

(* A line of a tool's text begins a block or belongs to the one that is    *)
(* being read.                                                             *)
LEMMA HeadLine ==
    ASSUME NEW st \in TextStates, NEW ln \in Shown, ln.kind = "head"
    PROVE  DedupeLine(st, ln) = [out |-> Flush(st).out, seen |-> Flush(st).seen,
                                 dups |-> Flush(st).dups, block |-> <<ln>>, id |-> ln.id]
BY DEF DedupeLine, Flush

LEMMA OtherLine ==
    ASSUME NEW st \in TextStates, NEW ln \in Shown, ln.kind # "head"
    PROVE  DedupeLine(st, ln) = [out |-> st.out, seen |-> st.seen, dups |-> st.dups,
                                 block |-> Append(st.block, ln), id |-> st.id]
BY DEF DedupeLine, Shown, TextStates

LEMMA LineStepType ==
    ASSUME NEW st \in TextStates, NEW ln \in Shown
    PROVE  DedupeLine(st, ln) \in TextStates
<1>1. ln \in Lines /\ ln.id \in Nat
  BY DEF Shown, Lines
<1>2. <<ln>> \in Seq(Lines)
  BY <1>1
<1>. HIDE DEF Lines, LineIds
<1>3. CASE ln.kind = "head"
  <2>1. Flush(st) \in TextStates
    BY FlushType
  <2>2. /\ Flush(st).out \in Seq(Lines) /\ Flush(st).seen \in SUBSET LineIds
        /\ Flush(st).dups \in Nat
    BY <2>1 DEF TextStates
  <2>3. [out |-> Flush(st).out, seen |-> Flush(st).seen, dups |-> Flush(st).dups,
         block |-> <<ln>>, id |-> ln.id] \in TextStates
    BY <1>1, <1>2, <2>2, TextStateType
  <2>. QED
    BY <1>3, <2>3, HeadLine
<1>4. CASE ln.kind # "head"
  <2>1. /\ st.out \in Seq(Lines) /\ st.block \in Seq(Lines) /\ st.id \in Nat
        /\ st.seen \in SUBSET LineIds /\ st.dups \in Nat
    BY DEF TextStates
  <2>2. Append(st.block, ln) \in Seq(Lines)
    BY <1>1, <2>1
  <2>3. [out |-> st.out, seen |-> st.seen, dups |-> st.dups,
         block |-> Append(st.block, ln), id |-> st.id] \in TextStates
    BY <2>1, <2>2, TextStateType
  <2>. QED
    BY <1>4, <2>3, OtherLine
<1>. QED
  BY <1>3, <1>4

Opening(shown) == [out |-> <<>>, block |-> <<>>, id |-> NoId, seen |-> shown, dups |-> 0]

LEMMA OpeningType ==
    ASSUME NEW shown \in SUBSET LineIds
    PROVE  Opening(shown) \in TextStates
<1>1. <<>> \in Seq(Lines)
  OBVIOUS
<1>2. NoId \in Nat
  BY DEF NoId
<1>. HIDE DEF Lines, LineIds
<1>. QED
  BY <1>1, <1>2 DEF Opening, TextStates

(* The text is read line by line. *)
LEMMA TextRuns ==
    ASSUME NEW lines \in Seq(Shown), NEW shown \in SUBSET LineIds
    PROVE  \E run \in [0 .. Len(lines) -> TextStates] :
              /\ run[0] = Opening(shown)
              /\ \A k \in 1 .. Len(lines) : run[k] = DedupeLine(run[k - 1], lines[k])
              /\ DedupeText(lines, shown) = Flush(run[Len(lines)])
<1>. DEFINE base == Opening(shown)
            step == [p \in TextStates \X Shown |-> DedupeLine(p[1], p[2])]
            fold == CHOOSE g : g = [s \in SUBSET DOMAIN lines |->
                        IF s = {} THEN base
                                  ELSE DedupeLine(g[s \ {Max(s)}], lines[Max(s)])]
<1>1. DedupeText(lines, shown) = Flush(fold[DOMAIN lines])
  BY DEF DedupeText, FoldLeft, MapThenFoldSet, Opening
<1>2. base \in TextStates
  BY OpeningType
<1>3. step \in [TextStates \X Shown -> TextStates]
  BY LineStepType
<1>4. \A st \in TextStates, ln \in Shown : step[<<st, ln>>] = DedupeLine(st, ln)
  OBVIOUS
<1>. HIDE DEF base, step
<1>5. fold = [s \in SUBSET DOMAIN lines |->
                 IF s = {} THEN base ELSE DedupeLine(fold[s \ {Max(s)}], lines[Max(s)])]
  <2>1. PICK g : g \in [SUBSET DOMAIN lines -> TextStates] /\ IsFold(g, step, base, lines)
    BY <1>2, <1>3, FoldExists
  <2>2. ASSUME NEW s \in SUBSET DOMAIN lines, s # {}
        PROVE  g[s] = DedupeLine(g[s \ {Max(s)}], lines[Max(s)])
    <3>1. s \ {Max(s)} \in SUBSET DOMAIN lines
      OBVIOUS
    <3>2. lines[Max(s)] \in Shown
      BY <2>2, DomainMax
    <3>3. g[s \ {Max(s)}] \in TextStates
      BY <2>1, <3>1
    <3>. QED
      BY <1>4, <2>1, <2>2, <3>2, <3>3 DEF IsFold
  <2>3. g = [s \in SUBSET DOMAIN lines |->
                IF s = {} THEN base ELSE DedupeLine(g[s \ {Max(s)}], lines[Max(s)])]
    BY <2>1, <2>2 DEF IsFold
  <2>. QED
    BY <2>3
<1>. HIDE DEF fold
<1>6. fold[{}] = base
  BY <1>5
<1>7. ASSUME NEW s \in SUBSET DOMAIN lines, s # {}, fold[s \ {Max(s)}] \in TextStates
      PROVE  fold[s] = step[<<fold[s \ {Max(s)}], lines[Max(s)]>>]
  <2>1. lines[Max(s)] \in Shown
    BY <1>7, DomainMax
  <2>. QED
    BY <1>4, <1>5, <1>7, <2>1
<1>10. FoldsWithin(TextStates, Shown, fold, step, base, lines)
  BY <1>2, <1>3, <1>6, <1>7 DEF FoldsWithin
<1>8. PICK run : RunsOver(TextStates, run, step, base, lines) /\ run[Len(lines)] = fold[DOMAIN lines]
  BY <1>10, FoldRuns
<1>9. ASSUME NEW k \in 1 .. Len(lines) PROVE run[k] = DedupeLine(run[k - 1], lines[k])
  <2>1. Len(lines) \in Nat /\ k - 1 \in 0 .. Len(lines) /\ lines[k] \in Shown
    OBVIOUS
  <2>2. run[k - 1] \in TextStates
    BY <1>8, <2>1 DEF RunsOver
  <2>. QED
    BY <1>4, <1>8, <2>1, <2>2 DEF RunsOver
<1>. QED
  BY <1>1, <1>8, <1>9 DEF base, RunsOver

-----------------------------------------------------------------------------
(* What holds of a text when n of its lines are accounted for, and of the  *)
(* lines written for them.                                                 *)

HeadAmong(ls, n, id) == \E k \in 1 .. n : ls[k].kind = "head" /\ ls[k].id = id

UniqueHeads(ls, n) ==
    \A k, m \in 1 .. n :
        ls[k].kind = "head" /\ ls[m].kind = "head" /\ ls[k].id = ls[m].id => k = m

MarksBacked(out, shown) ==
    \A k \in 1 .. Len(out) :
        out[k].kind = "mark" => out[k].id \in shown \/ HeadAmong(out, k - 1, out[k].id)

Remembers(lines, before, n, out, shown) ==
    /\ before \subseteq shown
    /\ \A id \in shown \ before : HeadAmong(out, Len(out), id) /\ HeadAmong(lines, n, id)
    /\ \A k \in 1 .. n : lines[k].kind = "head" => lines[k].id \in shown
    /\ \A k \in 1 .. Len(out) : out[k].kind = "head" => out[k].id \in shown \ before

Counts(lines, before, n, out, folds) ==
    /\ folds = 0 => /\ UniqueHeads(lines, n)
                   /\ \A k \in 1 .. n : lines[k].kind = "head" => lines[k].id \notin before
    /\ folds # 0 => \E k \in 1 .. Len(out) : out[k].kind = "mark"

SameOpening(lines, n, out) ==
    n > 0 /\ lines[1].kind = "header" => Len(out) > 0 /\ out[1] = lines[1]

Settled(lines, before, n, out, shown, folds) ==
    /\ Remembers(lines, before, n, out, shown)
    /\ UniqueHeads(out, Len(out))
    /\ MarksBacked(out, before)
    /\ Counts(lines, before, n, out, folds)
    /\ SameOpening(lines, n, out)

LEMMA ShownLine ==
    ASSUME NEW lines \in Seq(Shown), NEW k \in 1 .. Len(lines)
    PROVE  /\ lines[k] \in Shown /\ lines[k] \in Lines /\ lines[k].kind # "mark"
           /\ lines[k].kind = "head" => lines[k].id \in LineIds
           /\ lines[k].id \in Nat
<1>1. lines[k] \in Shown
  OBVIOUS
<1>. QED
  BY <1>1 DEF Shown, Lines, LineIds

(* A text before its first block is written as it is. *)
LEMMA SettleOpening ==
    ASSUME NEW lines \in Seq(Shown), NEW before, NEW shown, NEW folds \in Nat,
           NEW n \in 0 .. Len(lines), Settled(lines, before, 0, <<>>, shown, folds),
           \A k \in 1 .. n : lines[k].kind # "head"
    PROVE  Settled(lines, before, n, SubSeq(lines, 1, n), shown, folds)
<1>. DEFINE out == SubSeq(lines, 1, n)
<1>1. Len(lines) \in Nat /\ n \in Nat /\ n <= Len(lines)
  OBVIOUS
<1>2. Len(out) = n /\ \A k \in 1 .. n : out[k] = lines[k]
  BY <1>1
<1>3. \A k \in 1 .. n : lines[k].kind # "mark"
  BY <1>1, ShownLine
<1>4. Len(<<>>) = 0 /\ 1 .. 0 = {}
  OBVIOUS
<1>5. shown = before
  BY <1>4 DEF Settled, Remembers, HeadAmong
<1>6. folds = 0
  BY <1>4 DEF Settled, Counts
<1>. HIDE DEF out
<1>7. Remembers(lines, before, n, out, shown)
  BY <1>2, <1>5 DEF Remembers
<1>8. UniqueHeads(out, Len(out)) /\ MarksBacked(out, before)
  BY <1>2, <1>3 DEF UniqueHeads, MarksBacked
<1>9. Counts(lines, before, n, out, folds)
  BY <1>6 DEF Counts, UniqueHeads
<1>10. SameOpening(lines, n, out)
  BY <1>1, <1>2 DEF SameOpening
<1>. QED
  BY <1>7, <1>8, <1>9, <1>10 DEF Settled, out

(* The lines that stand for the next block. *)
Extended(out, more, new) ==
    /\ Len(new) = Len(out) + Len(more)
    /\ \A k \in 1 .. Len(out) : new[k] = out[k]
    /\ \A k \in 1 .. Len(more) : new[Len(out) + k] = more[k]

LEMMA Extends ==
    ASSUME NEW out \in Seq(Lines), NEW more \in Seq(Lines)
    PROVE  Extended(out, more, out \o more)
BY ConcatProperties DEF Extended

LEMMA ExtendedHeads ==
    ASSUME NEW out \in Seq(Lines), NEW more \in Seq(Lines), NEW new,
           Extended(out, more, new), NEW id
    PROVE  HeadAmong(new, Len(new), id)
             <=> HeadAmong(out, Len(out), id) \/ HeadAmong(more, Len(more), id)
<1>1. Len(out) \in Nat /\ Len(more) \in Nat /\ Len(new) = Len(out) + Len(more)
  BY DEF Extended
<1>2. ASSUME HeadAmong(new, Len(new), id)
      PROVE  HeadAmong(out, Len(out), id) \/ HeadAmong(more, Len(more), id)
  <2>1. PICK k \in 1 .. Len(new) : new[k].kind = "head" /\ new[k].id = id
    BY <1>2 DEF HeadAmong
  <2>2. CASE k <= Len(out)
    <3>1. k \in 1 .. Len(out)
      BY <1>1, <2>1, <2>2
    <3>. QED
      BY <2>1, <3>1 DEF HeadAmong, Extended
  <2>3. CASE k > Len(out)
    <3>1. k - Len(out) \in 1 .. Len(more) /\ Len(out) + (k - Len(out)) = k
      BY <1>1, <2>1, <2>3
    <3>2. new[k] = more[k - Len(out)]
      BY <3>1 DEF Extended
    <3>. QED
      BY <2>1, <3>1, <3>2 DEF HeadAmong
  <2>. QED
    BY <1>1, <2>1, <2>2, <2>3
<1>3. ASSUME HeadAmong(out, Len(out), id) PROVE HeadAmong(new, Len(new), id)
  <2>1. PICK k \in 1 .. Len(out) : out[k].kind = "head" /\ out[k].id = id
    BY <1>3 DEF HeadAmong
  <2>2. k \in 1 .. Len(new)
    BY <1>1, <2>1
  <2>. QED
    BY <2>1, <2>2 DEF HeadAmong, Extended
<1>4. ASSUME HeadAmong(more, Len(more), id) PROVE HeadAmong(new, Len(new), id)
  <2>1. PICK k \in 1 .. Len(more) : more[k].kind = "head" /\ more[k].id = id
    BY <1>4 DEF HeadAmong
  <2>2. Len(out) + k \in 1 .. Len(new)
    BY <1>1, <2>1
  <2>3. new[Len(out) + k] = more[k]
    BY <2>1 DEF Extended
  <2>. QED
    BY <2>1, <2>2, <2>3 DEF HeadAmong
<1>. QED
  BY <1>2, <1>3, <1>4

LEMMA ExtendedLine ==
    ASSUME NEW out \in Seq(Lines), NEW more \in Seq(Lines), NEW new,
           Extended(out, more, new), NEW k \in 1 .. Len(new)
    PROVE  \/ k \in 1 .. Len(out) /\ new[k] = out[k]
           \/ /\ k \notin 1 .. Len(out)
              /\ \E j \in 1 .. Len(more) : k = Len(out) + j /\ new[k] = more[j]
<1>1. Len(out) \in Nat /\ Len(more) \in Nat /\ Len(new) = Len(out) + Len(more)
  BY DEF Extended
<1>2. CASE k <= Len(out)
  <2>1. k \in 1 .. Len(out)
    BY <1>1, <1>2
  <2>. QED
    BY <2>1 DEF Extended
<1>3. CASE k > Len(out)
  <2>1. k - Len(out) \in 1 .. Len(more) /\ Len(out) + (k - Len(out)) = k /\ k \notin 1 .. Len(out)
    BY <1>1, <1>3
  <2>2. new[Len(out) + (k - Len(out))] = more[k - Len(out)]
    BY <2>1 DEF Extended
  <2>. QED
    BY <2>1, <2>2
<1>. QED
  BY <1>1, <1>2, <1>3

(* The lines from p + 1 to n are the block of id. *)
IsBlock(lines, p, n, id) ==
    /\ p < n
    /\ lines[p + 1].kind = "head" /\ lines[p + 1].id = id
    /\ \A k \in p + 2 .. n : lines[k].kind # "head"

LEMMA BlockLine ==
    ASSUME NEW lines, NEW n \in Nat, NEW p \in 0 .. n, NEW id, IsBlock(lines, p, n, id)
    PROVE  /\ p + 1 \in 1 .. n
           /\ \A k \in 1 .. n : lines[k].kind = "head" => k \in 1 .. p \/ k = p + 1
           /\ \A k \in 1 .. p : k \in 1 .. n /\ k # p + 1
<1>1. p \in Nat /\ p < n
  BY DEF IsBlock
<1>2. \A k \in 1 .. n : k \in 1 .. p \/ k = p + 1 \/ k \in p + 2 .. n
  BY <1>1
<1>3. p + 1 \in 1 .. n /\ \A k \in 1 .. p : k \in 1 .. n /\ k # p + 1
  BY <1>1
<1>. QED
  BY <1>2, <1>3 DEF IsBlock

(* A block whose id was not shown is written: what is left of it begins     *)
(* with the id.                                                            *)
BeginsBlock(more, id) ==
    /\ Len(more) > 0 /\ more[1].kind = "head" /\ more[1].id = id
    /\ \A k \in 2 .. Len(more) : more[k].kind \notin {"head", "mark"}

LEMMA SettleFirst ==
    ASSUME NEW lines \in Seq(Shown), NEW before, NEW shown, NEW folds \in Nat,
           NEW n \in 0 .. Len(lines), NEW p \in 0 .. n, NEW id, NEW out \in Seq(Lines),
           Settled(lines, before, p, out, shown, folds), IsBlock(lines, p, n, id),
           id \notin shown, NEW more \in Seq(Lines), BeginsBlock(more, id), NEW new,
           Extended(out, more, new)
    PROVE  Settled(lines, before, n, new, shown \cup {id}, folds)
<1>1. /\ Len(out) \in Nat /\ Len(more) \in Nat /\ Len(new) = Len(out) + Len(more)
      /\ Len(lines) \in Nat /\ n \in Nat /\ p \in Nat
  BY DEF Extended
<1>2. /\ p + 1 \in 1 .. n /\ lines[p + 1].kind = "head" /\ lines[p + 1].id = id
      /\ \A k \in 1 .. n : lines[k].kind = "head" => k \in 1 .. p \/ k = p + 1
      /\ \A k \in 1 .. p : k \in 1 .. n /\ k # p + 1
  <2>1. n \in Nat
    BY <1>1
  <2>. QED
    BY <2>1, BlockLine DEF IsBlock
<1>3. ASSUME NEW k \in 1 .. Len(new)
      PROVE  \/ k \in 1 .. Len(out) /\ new[k] = out[k]
             \/ k = Len(out) + 1 /\ new[k].kind = "head" /\ new[k].id = id
             \/ new[k].kind \notin {"head", "mark"}
  <2>1. CASE k \in 1 .. Len(out) /\ new[k] = out[k]
    BY <2>1
  <2>2. ASSUME NEW j \in 1 .. Len(more), k = Len(out) + j, new[k] = more[j]
        PROVE  \/ k = Len(out) + 1 /\ new[k].kind = "head" /\ new[k].id = id
               \/ new[k].kind \notin {"head", "mark"}
    <3>1. j = 1 \/ j \in 2 .. Len(more)
      BY <1>1
    <3>. QED
      BY <2>2, <3>1 DEF BeginsBlock
  <2>. QED
    BY <2>1, <2>2, ExtendedLine
<1>4. /\ Remembers(lines, before, p, out, shown) /\ UniqueHeads(out, Len(out))
      /\ MarksBacked(out, before) /\ Counts(lines, before, p, out, folds)
      /\ SameOpening(lines, p, out)
  BY DEF Settled
<1>5. id \notin before
  BY <1>4 DEF Remembers
<1>6. HeadAmong(more, Len(more), id)
  <2>1. 1 \in 1 .. Len(more)
    BY <1>1 DEF BeginsBlock
  <2>. QED
    BY <2>1 DEF HeadAmong, BeginsBlock
<1>7. \A k \in 1 .. Len(out) : new[k] = out[k] /\ k \in 1 .. Len(new) /\ k # Len(out) + 1
  BY <1>1 DEF Extended
<1>8. Remembers(lines, before, n, new, shown \cup {id})
  <2>1. ASSUME NEW x \in (shown \cup {id}) \ before
        PROVE  HeadAmong(new, Len(new), x) /\ HeadAmong(lines, n, x)
    <3>1. CASE x \in shown
      <4>1. HeadAmong(out, Len(out), x) /\ HeadAmong(lines, p, x)
        BY <1>4, <2>1, <3>1 DEF Remembers
      <4>2. HeadAmong(new, Len(new), x)
        BY <4>1, ExtendedHeads
      <4>3. HeadAmong(lines, n, x)
        BY <1>2, <4>1 DEF HeadAmong
      <4>. QED
        BY <4>2, <4>3
    <3>2. CASE x = id
      <4>1. HeadAmong(new, Len(new), x)
        BY <1>6, <3>2, ExtendedHeads
      <4>2. HeadAmong(lines, n, x)
        BY <1>2, <3>2 DEF HeadAmong
      <4>. QED
        BY <4>1, <4>2
    <3>. QED
      BY <2>1, <3>1, <3>2
  <2>2. ASSUME NEW k \in 1 .. n, lines[k].kind = "head" PROVE lines[k].id \in shown \cup {id}
    BY <1>2, <1>4, <2>2 DEF Remembers
  <2>3. ASSUME NEW k \in 1 .. Len(new), new[k].kind = "head"
        PROVE  new[k].id \in (shown \cup {id}) \ before
    BY <1>3, <1>4, <1>5, <2>3 DEF Remembers
  <2>4. before \subseteq shown \cup {id}
    BY <1>4 DEF Remembers
  <2>. QED
    BY <2>1, <2>2, <2>3, <2>4 DEF Remembers
<1>9. UniqueHeads(new, Len(new))
  <2>1. ASSUME NEW k \in 1 .. Len(out), out[k].kind = "head" PROVE out[k].id # id
    BY <1>4, <2>1 DEF Remembers
  <2>. QED
    BY <1>3, <1>4, <2>1 DEF UniqueHeads
<1>10. MarksBacked(new, before)
  <2>1. SUFFICES ASSUME NEW k \in 1 .. Len(new), new[k].kind = "mark", new[k].id \notin before
                 PROVE  HeadAmong(new, k - 1, new[k].id)
    BY DEF MarksBacked
  <2>2. k \in 1 .. Len(out) /\ new[k] = out[k]
    BY <1>3, <2>1
  <2>3. HeadAmong(out, k - 1, new[k].id)
    BY <1>4, <2>1, <2>2 DEF MarksBacked
  <2>4. \A m \in 1 .. k - 1 : m \in 1 .. Len(out)
    BY <1>1, <2>2
  <2>. QED
    BY <1>7, <2>3, <2>4 DEF HeadAmong
<1>11. Counts(lines, before, n, new, folds)
  <2>1. ASSUME folds = 0
        PROVE  /\ UniqueHeads(lines, n)
               /\ \A k \in 1 .. n : lines[k].kind = "head" => lines[k].id \notin before
    <3>1. \A k \in 1 .. p : lines[k].kind = "head" => lines[k].id # id
      BY <1>4 DEF Remembers
    <3>2. UniqueHeads(lines, p) /\ \A k \in 1 .. p : lines[k].kind = "head" => lines[k].id \notin before
      BY <1>4, <2>1 DEF Counts
    <3>. QED
      BY <1>2, <1>5, <3>1, <3>2 DEF UniqueHeads
  <2>2. ASSUME folds # 0 PROVE \E k \in 1 .. Len(new) : new[k].kind = "mark"
    BY <1>4, <1>7, <2>2 DEF Counts
  <2>. QED
    BY <2>1, <2>2 DEF Counts
<1>12. SameOpening(lines, n, new)
  <2>1. SUFFICES ASSUME n > 0, lines[1].kind = "header"
                 PROVE  Len(new) > 0 /\ new[1] = lines[1]
    BY DEF SameOpening
  <2>2. p # 0
    BY <1>2, <2>1
  <2>3. Len(out) > 0 /\ out[1] = lines[1]
    BY <1>1, <1>4, <2>1, <2>2 DEF SameOpening
  <2>4. 1 \in 1 .. Len(out)
    BY <1>1, <2>3
  <2>. QED
    BY <1>1, <1>7, <2>3, <2>4
<1>. QED
  BY <1>8, <1>9, <1>10, <1>11, <1>12 DEF Settled

(* A block whose id was shown is replaced by a placeholder. *)
LEMMA SettleAgain ==
    ASSUME NEW lines \in Seq(Shown), NEW before, NEW shown, NEW folds \in Nat,
           NEW n \in 0 .. Len(lines), NEW p \in 0 .. n, NEW id \in Nat, NEW out \in Seq(Lines),
           Settled(lines, before, p, out, shown, folds), IsBlock(lines, p, n, id),
           id \in shown, NEW new, Extended(out, <<Line("mark", id)>>, new)
    PROVE  Settled(lines, before, n, new, shown, folds + 1)
<1>. DEFINE more == <<Line("mark", id)>>
<1>1. /\ more \in Seq(Lines) /\ Len(more) = 1
      /\ more[1].kind = "mark" /\ more[1].id = id
  <2>1. Line("mark", id) \in Lines
    BY LineTypes
  <2>2. Line("mark", id).kind = "mark" /\ Line("mark", id).id = id
    BY DEF Line
  <2>. QED
    BY <2>1, <2>2
<1>2. Extended(out, more, new)
  OBVIOUS
<1>. HIDE DEF more
<1>3. /\ Len(out) \in Nat /\ Len(new) = Len(out) + 1
      /\ Len(lines) \in Nat /\ n \in Nat /\ p \in Nat
  BY <1>1, <1>2 DEF Extended
<1>4. /\ p + 1 \in 1 .. n /\ lines[p + 1].kind = "head" /\ lines[p + 1].id = id
      /\ \A k \in 1 .. n : lines[k].kind = "head" => k \in 1 .. p \/ k = p + 1
      /\ \A k \in 1 .. p : k \in 1 .. n /\ k # p + 1
  <2>1. n \in Nat
    BY <1>3
  <2>. QED
    BY <2>1, BlockLine DEF IsBlock
<1>5. ASSUME NEW k \in 1 .. Len(new)
      PROVE  \/ k \in 1 .. Len(out) /\ new[k] = out[k]
             \/ k = Len(out) + 1 /\ new[k].kind = "mark" /\ new[k].id = id
  <2>1. CASE k \in 1 .. Len(out) /\ new[k] = out[k]
    BY <2>1
  <2>2. ASSUME NEW j \in 1 .. Len(more), k = Len(out) + j, new[k] = more[j]
        PROVE  k = Len(out) + 1 /\ new[k].kind = "mark" /\ new[k].id = id
    <3>1. j = 1
      BY <1>1
    <3>. QED
      BY <1>1, <2>2, <3>1
  <2>3. \/ k \in 1 .. Len(out) /\ new[k] = out[k]
        \/ /\ k \notin 1 .. Len(out)
           /\ \E j \in 1 .. Len(more) : k = Len(out) + j /\ new[k] = more[j]
    <3>1. more \in Seq(Lines)
      BY <1>1
    <3>. QED
      BY <1>2, <3>1, ExtendedLine
  <2>. QED
    BY <2>1, <2>2, <2>3
<1>6. /\ Remembers(lines, before, p, out, shown) /\ UniqueHeads(out, Len(out))
      /\ MarksBacked(out, before) /\ SameOpening(lines, p, out)
  BY DEF Settled
<1>7. \A k \in 1 .. Len(out) : new[k] = out[k] /\ k \in 1 .. Len(new)
  BY <1>2, <1>3 DEF Extended
<1>8. Len(out) + 1 \in 1 .. Len(new) /\ new[Len(out) + 1].kind = "mark"
  <2>1. Len(out) + 1 \in 1 .. Len(new) /\ Len(out) + 1 \notin 1 .. Len(out)
    BY <1>3
  <2>. QED
    BY <1>5, <2>1
<1>9. Remembers(lines, before, n, new, shown)
  <2>1. ASSUME NEW x \in shown \ before
        PROVE  HeadAmong(new, Len(new), x) /\ HeadAmong(lines, n, x)
    <3>1. HeadAmong(out, Len(out), x) /\ HeadAmong(lines, p, x)
      BY <1>6 DEF Remembers
    <3>2. HeadAmong(new, Len(new), x)
      BY <1>1, <1>2, <3>1, ExtendedHeads
    <3>3. HeadAmong(lines, n, x)
      BY <1>4, <3>1 DEF HeadAmong
    <3>. QED
      BY <3>2, <3>3
  <2>2. ASSUME NEW k \in 1 .. n, lines[k].kind = "head" PROVE lines[k].id \in shown
    BY <1>4, <1>6, <2>2 DEF Remembers
  <2>3. ASSUME NEW k \in 1 .. Len(new), new[k].kind = "head" PROVE new[k].id \in shown \ before
    BY <1>5, <1>6, <2>3 DEF Remembers
  <2>4. before \subseteq shown
    BY <1>6 DEF Remembers
  <2>. QED
    BY <2>1, <2>2, <2>3, <2>4 DEF Remembers
<1>10. UniqueHeads(new, Len(new))
  BY <1>5, <1>6 DEF UniqueHeads
<1>11. MarksBacked(new, before)
  <2>1. SUFFICES ASSUME NEW k \in 1 .. Len(new), new[k].kind = "mark", new[k].id \notin before
                 PROVE  HeadAmong(new, k - 1, new[k].id)
    BY DEF MarksBacked
  <2>2. CASE k \in 1 .. Len(out) /\ new[k] = out[k]
    <3>1. HeadAmong(out, k - 1, new[k].id)
      BY <1>6, <2>1, <2>2 DEF MarksBacked
    <3>2. \A m \in 1 .. k - 1 : m \in 1 .. Len(out)
      BY <1>3, <2>2
    <3>. QED
      BY <1>7, <3>1, <3>2 DEF HeadAmong
  <2>3. CASE k = Len(out) + 1 /\ new[k].id = id
    <3>1. HeadAmong(out, Len(out), id)
      BY <1>6, <2>1, <2>3 DEF Remembers
    <3>2. k - 1 = Len(out)
      BY <1>3, <2>3
    <3>. QED
      BY <1>7, <2>3, <3>1, <3>2 DEF HeadAmong
  <2>. QED
    BY <1>5, <2>2, <2>3
<1>12. Counts(lines, before, n, new, folds + 1)
  <2>1. folds + 1 # 0
    OBVIOUS
  <2>. QED
    BY <1>8, <2>1 DEF Counts
<1>13. SameOpening(lines, n, new)
  <2>1. SUFFICES ASSUME n > 0, lines[1].kind = "header"
                 PROVE  Len(new) > 0 /\ new[1] = lines[1]
    BY DEF SameOpening
  <2>2. p # 0
    BY <1>4, <2>1
  <2>3. Len(out) > 0 /\ out[1] = lines[1]
    BY <1>3, <1>6, <2>1, <2>2 DEF SameOpening
  <2>4. 1 \in 1 .. Len(out)
    BY <1>3, <2>3
  <2>. QED
    BY <1>3, <1>7, <2>3, <2>4
<1>. QED
  BY <1>9, <1>10, <1>11, <1>12, <1>13 DEF Settled

-----------------------------------------------------------------------------
(* The text while it is read: the block that is being read is the part of  *)
(* the text behind the lines that are settled.                             *)

Reading(lines, p, n, st) ==
    /\ st.block = SubSeq(lines, p + 1, n)
    /\ st.id = NoId => /\ p = 0 /\ st.out = <<>>
                       /\ \A k \in 1 .. n : lines[k].kind # "head"
    /\ st.id # NoId => IsBlock(lines, p, n, st.id)

TextInv(lines, before, n, st) ==
    \E p \in 0 .. n :
        Reading(lines, p, n, st) /\ Settled(lines, before, p, st.out, st.seen, st.dups)

LEMMA FlushParts ==
    ASSUME NEW st \in TextStates
    PROVE  /\ st.id = NoId => /\ Flush(st).out = st.out \o st.block
                              /\ Flush(st).seen = st.seen /\ Flush(st).dups = st.dups
           /\ st.id # NoId /\ st.id \notin st.seen =>
                /\ Flush(st).out = st.out \o TrimTrailingEmpty(st.block)
                /\ Flush(st).seen = st.seen \cup {st.id} /\ Flush(st).dups = st.dups
           /\ st.id # NoId /\ st.id \in st.seen =>
                /\ Flush(st).out = st.out \o <<Line("mark", st.id)>>
                /\ Flush(st).seen = st.seen /\ Flush(st).dups = st.dups + 1
<1>1. NoId \notin st.seen
  BY DEF TextStates, LineIds
<1>2. /\ st.id = NoId => st.seen \cup ({st.id} \ {NoId}) = st.seen
      /\ st.id # NoId => st.seen \cup ({st.id} \ {NoId}) = st.seen \cup {st.id}
      /\ st.id \in st.seen => st.seen \cup {st.id} = st.seen
  OBVIOUS
<1>3. /\ Flush(st).out = st.out \o (IF st.id \in st.seen THEN <<Line("mark", st.id)>>
                                    ELSE IF st.id = NoId THEN st.block
                                    ELSE TrimTrailingEmpty(st.block))
      /\ Flush(st).seen = st.seen \cup ({st.id} \ {NoId})
      /\ Flush(st).dups = IF st.id \in st.seen THEN st.dups + 1 ELSE st.dups
  BY DEF Flush
<1>. QED
  BY <1>1, <1>2, <1>3

LEMMA FlushSettles ==
    ASSUME NEW lines \in Seq(Shown), NEW before, NEW n \in 0 .. Len(lines),
           NEW st \in TextStates, TextInv(lines, before, n, st)
    PROVE  Settled(lines, before, n, Flush(st).out, Flush(st).seen, Flush(st).dups)
<1>1. PICK p \in 0 .. n :
         Reading(lines, p, n, st) /\ Settled(lines, before, p, st.out, st.seen, st.dups)
  BY DEF TextInv
<1>2. /\ st.out \in Seq(Lines) /\ st.block \in Seq(Lines) /\ st.dups \in Nat /\ st.id \in Nat
      /\ n \in Nat /\ p \in Nat /\ Len(lines) \in Nat /\ n <= Len(lines)
  BY DEF TextStates
<1>3. CASE st.id = NoId
  <2>1. /\ p = 0 /\ st.out = <<>> /\ st.block = SubSeq(lines, 1, n)
        /\ \A k \in 1 .. n : lines[k].kind # "head"
    <3>1. p = 0
      BY <1>1, <1>3 DEF Reading
    <3>2. p + 1 = 1
      BY <3>1
    <3>. QED
      BY <1>1, <1>3, <3>1, <3>2 DEF Reading
  <2>2. Settled(lines, before, 0, <<>>, st.seen, st.dups)
    BY <1>1, <2>1
  <2>3. Settled(lines, before, n, SubSeq(lines, 1, n), st.seen, st.dups)
    BY <1>2, <2>1, <2>2, SettleOpening
  <2>4. st.out \o st.block = SubSeq(lines, 1, n)
    <3>1. \A s \in Seq(Lines) : <<>> \o s = s
      OBVIOUS
    <3>. QED
      BY <1>2, <2>1, <3>1
  <2>5. Flush(st).out = st.out \o st.block /\ Flush(st).seen = st.seen /\ Flush(st).dups = st.dups
    BY <1>3, FlushParts
  <2>. QED
    BY <2>3, <2>4, <2>5
<1>4. CASE st.id # NoId
  <2>1. IsBlock(lines, p, n, st.id) /\ st.block = SubSeq(lines, p + 1, n)
    BY <1>1, <1>4 DEF Reading
  <2>2. /\ p < n /\ Len(st.block) = n - p
        /\ \A k \in 1 .. n - p : st.block[k] = lines[p + k] /\ p + k \in 1 .. Len(lines)
    <3>1. p < n
      BY <2>1 DEF IsBlock
    <3>2. p + 1 \in 1 .. Len(lines) + 1 /\ n \in p .. Len(lines)
      BY <1>2, <3>1
    <3>3. Len(SubSeq(lines, p + 1, n)) = n - p
      BY <1>2, <3>1
    <3>4. \A k \in 1 .. n - p : SubSeq(lines, p + 1, n)[k] = lines[p + k]
      BY <1>2, <3>1
    <3>. QED
      BY <1>2, <2>1, <3>1, <3>3, <3>4
  <2>3. CASE st.id \notin st.seen
    <3>1. PICK l \in 0 .. Len(st.block) :
             /\ TrimTrailingEmpty(st.block) = SubSeq(st.block, 1, l)
             /\ \A k \in 1 .. Len(st.block) : IsText(st.block[k]) => k <= l
      BY <1>2, TrimKeeps
    <3>. DEFINE more == SubSeq(st.block, 1, l)
    <3>2. /\ more \in Seq(Lines) /\ Len(more) = l /\ l \in Nat /\ l <= n - p
          /\ \A k \in 1 .. l : more[k] = lines[p + k] /\ p + k \in 1 .. Len(lines)
      BY <1>2, <2>2
    <3>3. 1 \in 1 .. Len(st.block) /\ st.block[1] = lines[p + 1]
      BY <1>2, <2>2
    <3>4. 1 <= l
      <4>1. IsText(st.block[1])
        BY <2>1, <3>3 DEF IsText, IsBlock
      <4>. QED
        BY <3>1, <3>3, <4>1
    <3>. HIDE DEF more
    <3>5. more[1] = lines[p + 1]
      BY <3>2, <3>4
    <3>6. ASSUME NEW k \in 2 .. Len(more) PROVE more[k].kind \notin {"head", "mark"}
      <4>1. more[k] = lines[p + k] /\ p + k \in 1 .. Len(lines) /\ p + k \in p + 2 .. n
        BY <1>2, <3>2
      <4>2. lines[p + k].kind # "mark"
        BY <4>1, ShownLine
      <4>. QED
        BY <2>1, <4>1, <4>2 DEF IsBlock
    <3>7. BeginsBlock(more, st.id)
      BY <2>1, <3>2, <3>4, <3>5, <3>6 DEF BeginsBlock, IsBlock
    <3>8. Extended(st.out, more, st.out \o more)
      BY <1>2, <3>2, Extends
    <3>9. Settled(lines, before, n, st.out \o more, st.seen \cup {st.id}, st.dups)
      BY <1>1, <1>2, <2>1, <2>3, <3>2, <3>7, <3>8, SettleFirst
    <3>10. /\ Flush(st).out = st.out \o TrimTrailingEmpty(st.block)
           /\ Flush(st).seen = st.seen \cup {st.id} /\ Flush(st).dups = st.dups
      BY <1>4, <2>3, FlushParts
    <3>11. TrimTrailingEmpty(st.block) = more
      BY <3>1 DEF more
    <3>. QED
      BY <3>9, <3>10, <3>11
  <2>4. CASE st.id \in st.seen
    <3>1. <<Line("mark", st.id)>> \in Seq(Lines)
      <4>1. Line("mark", st.id) \in Lines
        BY <1>2, LineTypes
      <4>. QED
        BY <4>1
    <3>2. Extended(st.out, <<Line("mark", st.id)>>, st.out \o <<Line("mark", st.id)>>)
      BY <1>2, <3>1, Extends
    <3>3. Settled(lines, before, n, st.out \o <<Line("mark", st.id)>>, st.seen, st.dups + 1)
      BY <1>1, <1>2, <2>1, <2>4, <3>2, SettleAgain
    <3>4. /\ Flush(st).out = st.out \o <<Line("mark", st.id)>>
          /\ Flush(st).seen = st.seen /\ Flush(st).dups = st.dups + 1
      BY <1>4, <2>4, FlushParts
    <3>. QED
      BY <3>3, <3>4
  <2>. QED
    BY <2>3, <2>4
<1>. QED
  BY <1>3, <1>4

(* One more line. *)
LEMMA LineReads ==
    ASSUME NEW lines \in Seq(Shown), NEW before, NEW n \in 1 .. Len(lines),
           NEW st \in TextStates, TextInv(lines, before, n - 1, st)
    PROVE  TextInv(lines, before, n, DedupeLine(st, lines[n]))
<1>. DEFINE ln == lines[n]
<1>1. /\ Len(lines) \in Nat /\ n \in Nat /\ n - 1 \in 0 .. Len(lines) /\ n <= Len(lines)
      /\ ln \in Shown
  OBVIOUS
<1>2. CASE ln.kind = "head"
  <2>1. Settled(lines, before, n - 1, Flush(st).out, Flush(st).seen, Flush(st).dups)
    BY <1>1, FlushSettles
  <2>. DEFINE new == DedupeLine(st, ln)
  <2>2. /\ new.out = Flush(st).out /\ new.seen = Flush(st).seen /\ new.dups = Flush(st).dups
        /\ new.block = <<ln>> /\ new.id = ln.id
    BY <1>1, <1>2, HeadLine
  <2>. HIDE DEF new
  <2>3. ln.id # NoId
    BY <1>1, <1>2 DEF Shown
  <2>4. SubSeq(lines, (n - 1) + 1, n) = <<ln>>
    <3>1. ASSUME NEW s \in Seq(Shown), Len(s) = 1 PROVE s = <<s[1]>>
      BY <3>1
    <3>2. (n - 1) + 1 = n
      BY <1>1
    <3>3. /\ SubSeq(lines, n, n) \in Seq(Shown) /\ Len(SubSeq(lines, n, n)) = 1
          /\ SubSeq(lines, n, n)[1] = ln
      BY <1>1
    <3>. QED
      BY <3>1, <3>2, <3>3
  <2>5. IsBlock(lines, n - 1, n, ln.id)
    <3>1. n - 1 < n /\ (n - 1) + 1 = n /\ \A k \in (n - 1) + 2 .. n : FALSE
      BY <1>1
    <3>. QED
      BY <1>2, <3>1 DEF IsBlock
  <2>6. Reading(lines, n - 1, n, new)
    BY <2>2, <2>3, <2>4, <2>5 DEF Reading
  <2>7. Settled(lines, before, n - 1, new.out, new.seen, new.dups)
    BY <2>1, <2>2
  <2>8. n - 1 \in 0 .. n
    BY <1>1
  <2>. QED
    BY <2>6, <2>7, <2>8 DEF TextInv, new
<1>3. CASE ln.kind # "head"
  <2>1. PICK p \in 0 .. n - 1 :
           /\ Reading(lines, p, n - 1, st)
           /\ Settled(lines, before, p, st.out, st.seen, st.dups)
    BY DEF TextInv
  <2>. DEFINE new == DedupeLine(st, ln)
  <2>2. /\ new.out = st.out /\ new.seen = st.seen /\ new.dups = st.dups
        /\ new.block = Append(st.block, ln) /\ new.id = st.id
    BY <1>1, <1>3, OtherLine
  <2>. HIDE DEF new
  <2>3. p \in Nat /\ p <= n - 1 /\ p \in 0 .. n
    BY <1>1
  <2>4. Append(SubSeq(lines, p + 1, n - 1), ln) = SubSeq(lines, p + 1, n)
    BY <1>1, <2>3
  <2>5. \A k \in 1 .. n : k \in 1 .. n - 1 \/ k = n
    BY <1>1
  <2>6. IsBlock(lines, p, n - 1, st.id) => IsBlock(lines, p, n, st.id)
    <3>1. \A k \in p + 2 .. n : k \in p + 2 .. n - 1 \/ k = n
      BY <1>1, <2>3
    <3>2. p < n - 1 => p < n
      BY <1>1, <2>3
    <3>. QED
      BY <1>3, <3>1, <3>2 DEF IsBlock
  <2>7. Reading(lines, p, n, new)
    BY <1>3, <2>1, <2>2, <2>4, <2>5, <2>6 DEF Reading
  <2>8. Settled(lines, before, p, new.out, new.seen, new.dups)
    BY <2>1, <2>2
  <2>. QED
    BY <2>3, <2>7, <2>8 DEF TextInv, new
<1>. QED
  BY <1>2, <1>3

LEMMA OpeningReads ==
    ASSUME NEW lines \in Seq(Shown), NEW before \in SUBSET LineIds
    PROVE  TextInv(lines, before, 0, Opening(before))
<1>. DEFINE st == Opening(before)
<1>1. /\ st.out = <<>> /\ st.block = <<>> /\ st.id = NoId /\ st.seen = before /\ st.dups = 0
  BY DEF Opening
<1>. HIDE DEF st
<1>2. SubSeq(lines, 0 + 1, 0) = <<>> /\ 1 .. 0 = {} /\ Len(<<>>) = 0 /\ 0 \in 0 .. 0
  OBVIOUS
<1>3. Reading(lines, 0, 0, st)
  BY <1>1, <1>2 DEF Reading
<1>4. Settled(lines, before, 0, <<>>, before, 0)
  BY <1>2 DEF Settled, Remembers, UniqueHeads, MarksBacked, Counts, SameOpening
<1>. QED
  BY <1>1, <1>2, <1>3, <1>4 DEF TextInv, st

-----------------------------------------------------------------------------
(* A block that is shown for the first time is kept.                       *)

Follows(ls, k, block) ==
    /\ k + Len(block) - 1 <= Len(ls)
    /\ \A j \in 1 .. Len(block) : ls[k + j - 1] = block[j]

(* A block as a tool writes it. *)
IsShowing(block) ==
    /\ block \in Seq(Lines) /\ Len(block) > 0
    /\ IsText(block[Len(block)])
    /\ \A j \in 2 .. Len(block) : block[j].kind # "head"

ShownAs(lines, id, block) ==
    /\ IsShowing(block)
    /\ \A k \in 1 .. Len(lines) :
          lines[k].kind = "head" /\ lines[k].id = id => Follows(lines, k, block)

Keeps(before, id, block, shown, out) ==
    id \in shown \ before => \E k \in 1 .. Len(out) : Follows(out, k, block)

LEMMA KeepsExtended ==
    ASSUME NEW out \in Seq(Lines), NEW more \in Seq(Lines), NEW new,
           Extended(out, more, new), NEW block \in Seq(Lines),
           NEW k \in 1 .. Len(out), Follows(out, k, block)
    PROVE  k \in 1 .. Len(new) /\ Follows(new, k, block)
<1>1. /\ Len(out) \in Nat /\ Len(more) \in Nat /\ Len(new) = Len(out) + Len(more)
      /\ Len(block) \in Nat /\ k + Len(block) - 1 <= Len(out)
  BY DEF Extended, Follows
<1>2. \A j \in 1 .. Len(block) : k + j - 1 \in 1 .. Len(out)
  BY <1>1
<1>3. k \in 1 .. Len(new) /\ k + Len(block) - 1 <= Len(new)
  BY <1>1
<1>. QED
  BY <1>2, <1>3 DEF Extended, Follows

(* The text ends here, or the next line begins a block. *)
EndsBlock(lines, n) == n = Len(lines) \/ (n + 1 \in 1 .. Len(lines) /\ lines[n + 1].kind = "head")

LEMMA ShownWhole ==
    ASSUME NEW lines \in Seq(Shown), NEW n \in 0 .. Len(lines), NEW p \in 0 .. n,
           NEW id, NEW block, ShownAs(lines, id, block),
           IsBlock(lines, p, n, id), EndsBlock(lines, n)
    PROVE  /\ Len(block) <= n - p
           /\ \A j \in 1 .. Len(block) : lines[p + j] = block[j]
<1>1. /\ Len(lines) \in Nat /\ n \in Nat /\ p \in Nat /\ n <= Len(lines) /\ p < n
      /\ Len(block) \in Nat /\ Len(block) > 0
  BY DEF ShownAs, IsShowing, IsBlock
<1>2. p + 1 \in 1 .. Len(lines)
  BY <1>1
<1>3. Follows(lines, p + 1, block)
  BY <1>2 DEF ShownAs, IsBlock
<1>4. \A j \in 1 .. Len(block) : (p + 1) + j - 1 = p + j
  BY <1>1
<1>5. \A j \in 1 .. Len(block) : lines[p + j] = block[j]
  BY <1>3, <1>4 DEF Follows
<1>6. Len(block) <= n - p
  <2>1. SUFFICES ASSUME Len(block) > n - p PROVE FALSE
    BY <1>1
  <2>2. p + Len(block) <= Len(lines)
    <3>1. (p + 1) + Len(block) - 1 = p + Len(block)
      BY <1>1
    <3>. QED
      BY <1>3, <3>1 DEF Follows
  <2>3. n + 1 \in 1 .. Len(lines) /\ n + 1 # Len(lines) + 1 /\ n # Len(lines)
    BY <1>1, <2>1, <2>2
  <2>4. lines[n + 1].kind = "head"
    BY <2>3 DEF EndsBlock
  <2>5. n + 1 - p \in 2 .. Len(block) /\ n + 1 - p \in 1 .. Len(block) /\ p + (n + 1 - p) = n + 1
    BY <1>1, <2>1
  <2>6. lines[n + 1] = block[n + 1 - p]
    BY <1>5, <2>5
  <2>. QED
    BY <2>4, <2>5, <2>6 DEF ShownAs, IsShowing
<1>. QED
  BY <1>5, <1>6

LEMMA FlushKeeps ==
    ASSUME NEW lines \in Seq(Shown), NEW before, NEW n \in 0 .. Len(lines),
           NEW st \in TextStates, TextInv(lines, before, n, st), EndsBlock(lines, n),
           NEW id, NEW block, ShownAs(lines, id, block),
           Keeps(before, id, block, st.seen, st.out)
    PROVE  Keeps(before, id, block, Flush(st).seen, Flush(st).out)
<1>1. PICK p \in 0 .. n : Reading(lines, p, n, st)
  BY DEF TextInv
<1>2. /\ st.out \in Seq(Lines) /\ st.block \in Seq(Lines) /\ st.id \in Nat
      /\ n \in Nat /\ p \in Nat /\ Len(lines) \in Nat /\ n <= Len(lines)
      /\ Len(st.out) \in Nat
  BY DEF TextStates
<1>3. block \in Seq(Lines) /\ Len(block) \in Nat /\ Len(block) > 0
  BY DEF ShownAs, IsShowing
<1>4. ASSUME NEW more \in Seq(Lines), Flush(st).out = st.out \o more,
             id \in Flush(st).seen => id \in st.seen
      PROVE  Keeps(before, id, block, Flush(st).seen, Flush(st).out)
  <2>1. Extended(st.out, more, Flush(st).out)
    BY <1>2, <1>4, Extends
  <2>2. SUFFICES ASSUME id \in Flush(st).seen \ before
                 PROVE  \E k \in 1 .. Len(Flush(st).out) : Follows(Flush(st).out, k, block)
    BY DEF Keeps
  <2>3. PICK k \in 1 .. Len(st.out) : Follows(st.out, k, block)
    BY <1>4, <2>2 DEF Keeps
  <2>. QED
    BY <1>2, <1>3, <1>4, <2>1, <2>3, KeepsExtended
<1>5. CASE st.id = NoId
  BY <1>2, <1>4, <1>5, FlushParts
<1>6. CASE st.id # NoId /\ st.id \in st.seen
  <2>1. <<Line("mark", st.id)>> \in Seq(Lines)
    <3>1. Line("mark", st.id) \in Lines
      BY <1>2, LineTypes
    <3>. QED
      BY <3>1
  <2>. QED
    BY <1>4, <1>6, <2>1, FlushParts
<1>7. CASE st.id # NoId /\ st.id \notin st.seen
  <2>1. PICK l \in 0 .. Len(st.block) :
           /\ TrimTrailingEmpty(st.block) = SubSeq(st.block, 1, l)
           /\ \A k \in 1 .. Len(st.block) : IsText(st.block[k]) => k <= l
    BY <1>2, TrimKeeps
  <2>. DEFINE more == SubSeq(st.block, 1, l)
  <2>2. more \in Seq(Lines) /\ Len(more) = l /\ l \in Nat
    BY <1>2
  <2>3. \A k \in 1 .. l : more[k] = st.block[k]
    BY <1>2
  <2>. HIDE DEF more
  <2>4. Flush(st).out = st.out \o more /\ Flush(st).seen = st.seen \cup {st.id}
    BY <1>7, <2>1, FlushParts DEF more
  <2>5. CASE st.id # id
    BY <1>4, <2>2, <2>4, <2>5
  <2>6. CASE st.id = id
    <3>1. IsBlock(lines, p, n, id) /\ st.block = SubSeq(lines, p + 1, n)
      BY <1>1, <1>7, <2>6 DEF Reading
    <3>2. p < n
      BY <3>1 DEF IsBlock
    <3>3. Len(block) <= n - p /\ \A j \in 1 .. Len(block) : lines[p + j] = block[j]
      BY <3>1, ShownWhole
    <3>4. Len(st.block) = n - p /\ \A j \in 1 .. n - p : st.block[j] = lines[p + j]
      BY <1>2, <3>1, <3>2
    <3>5. \A j \in 1 .. Len(block) : j \in 1 .. n - p /\ st.block[j] = block[j]
      BY <1>2, <1>3, <3>3, <3>4
    <3>6. Len(block) \in 1 .. Len(block) /\ Len(block) \in 1 .. Len(st.block)
      BY <1>2, <1>3, <3>3, <3>4
    <3>7. Len(block) <= l
      <4>1. IsText(st.block[Len(block)])
        BY <3>5, <3>6 DEF ShownAs, IsShowing
      <4>. QED
        BY <2>1, <3>6, <4>1
    <3>8. Extended(st.out, more, Flush(st).out)
      BY <1>2, <2>2, <2>4, Extends
    <3>9. /\ Len(st.out) + 1 \in 1 .. Len(Flush(st).out)
          /\ (Len(st.out) + 1) + Len(block) - 1 <= Len(Flush(st).out)
      BY <1>2, <1>3, <2>2, <3>7, <3>8 DEF Extended
    <3>10. ASSUME NEW j \in 1 .. Len(block)
           PROVE  Flush(st).out[(Len(st.out) + 1) + j - 1] = block[j]
      <4>1. j \in 1 .. l /\ (Len(st.out) + 1) + j - 1 = Len(st.out) + j
        BY <1>2, <1>3, <2>2, <3>7
      <4>2. Flush(st).out[Len(st.out) + j] = more[j]
        BY <2>2, <3>8, <4>1 DEF Extended
      <4>. QED
        BY <2>3, <3>5, <4>1, <4>2
    <3>11. Follows(Flush(st).out, Len(st.out) + 1, block)
      BY <3>9, <3>10 DEF Follows
    <3>. QED
      BY <3>9, <3>11 DEF Keeps
  <2>. QED
    BY <2>5, <2>6
<1>. QED
  BY <1>5, <1>6, <1>7

(* What a text whose repeated blocks were folded is like. *)
LEMMA TextSettled ==
    ASSUME NEW lines \in Seq(Shown), NEW before \in SUBSET LineIds
    PROVE  LET text == DedupeText(lines, before)
           IN  /\ text \in TextStates
               /\ Settled(lines, before, Len(lines), text.out, text.seen, text.dups)
               /\ \A id, block : ShownAs(lines, id, block)
                                   => Keeps(before, id, block, text.seen, text.out)
<1>1. PICK run \in [0 .. Len(lines) -> TextStates] :
         /\ run[0] = Opening(before)
         /\ \A k \in 1 .. Len(lines) : run[k] = DedupeLine(run[k - 1], lines[k])
         /\ DedupeText(lines, before) = Flush(run[Len(lines)])
  BY TextRuns
<1>2. Len(lines) \in Nat
  OBVIOUS
<1>3. \A k \in 0 .. Len(lines) : run[k] \in TextStates
  OBVIOUS
<1>. DEFINE Kept(k) == \A id, block : ShownAs(lines, id, block)
                          => Keeps(before, id, block, run[k].seen, run[k].out)
            Good(k) == TextInv(lines, before, k, run[k]) /\ Kept(k)
            S == {k \in Nat : k <= Len(lines) => Good(k)}
<1>4. 0 \in S
  <2>1. TextInv(lines, before, 0, run[0])
    BY <1>1, OpeningReads
  <2>2. run[0].seen = before
    BY <1>1 DEF Opening
  <2>. QED
    BY <2>1, <2>2 DEF Keeps
<1>5. ASSUME NEW k \in S PROVE k + 1 \in S
  <2>1. SUFFICES ASSUME k + 1 <= Len(lines) PROVE Good(k + 1)
    OBVIOUS
  <2>2. /\ k \in Nat /\ k \in 0 .. Len(lines) /\ k + 1 \in 1 .. Len(lines)
        /\ (k + 1) - 1 = k /\ Good(k)
    BY <1>2, <2>1
  <2>3. run[k + 1] = DedupeLine(run[k], lines[k + 1])
    BY <1>1, <2>2
  <2>4. TextInv(lines, before, (k + 1) - 1, run[k])
    BY <2>2
  <2>5. TextInv(lines, before, k + 1, run[k + 1])
    BY <1>3, <2>2, <2>3, <2>4, LineReads
  <2>6. ASSUME NEW id, NEW block, ShownAs(lines, id, block)
        PROVE  Keeps(before, id, block, run[k + 1].seen, run[k + 1].out)
    <3>1. Keeps(before, id, block, run[k].seen, run[k].out)
      BY <2>2, <2>6
    <3>2. lines[k + 1] \in Shown /\ run[k] \in TextStates
      BY <1>3, <2>2
    <3>3. CASE lines[k + 1].kind = "head"
      <4>1. EndsBlock(lines, k)
        BY <2>2, <3>3 DEF EndsBlock
      <4>2. Keeps(before, id, block, Flush(run[k]).seen, Flush(run[k]).out)
        BY <2>2, <2>6, <3>1, <3>2, <4>1, FlushKeeps
      <4>3. run[k + 1].seen = Flush(run[k]).seen /\ run[k + 1].out = Flush(run[k]).out
        BY <2>3, <3>2, <3>3, HeadLine
      <4>. QED
        BY <4>2, <4>3
    <3>4. CASE lines[k + 1].kind # "head"
      <4>1. run[k + 1].seen = run[k].seen /\ run[k + 1].out = run[k].out
        BY <2>3, <3>2, <3>4, OtherLine
      <4>. QED
        BY <3>1, <4>1
    <3>. QED
      BY <3>3, <3>4
  <2>. QED
    BY <2>5, <2>6
<1>6. S = Nat
  <2>1. S \subseteq Nat
    OBVIOUS
  <2>. HIDE DEF S
  <2>. QED
    BY <1>4, <1>5, <2>1, NatSetInduction
<1>7. Good(Len(lines))
  <2>1. Len(lines) \in S
    BY <1>2, <1>6
  <2>. QED
    BY <1>2, <2>1
<1>. HIDE DEF S
<1>. DEFINE last == run[Len(lines)]
<1>8. last \in TextStates /\ Len(lines) \in 0 .. Len(lines) /\ EndsBlock(lines, Len(lines))
  BY <1>2, <1>3 DEF EndsBlock
<1>9. TextInv(lines, before, Len(lines), last) /\ Kept(Len(lines))
  BY <1>7
<1>10. Flush(last) \in TextStates
  BY <1>8, FlushType
<1>11. Settled(lines, before, Len(lines), Flush(last).out, Flush(last).seen, Flush(last).dups)
  BY <1>8, <1>9, FlushSettles
<1>12. ASSUME NEW id, NEW block, ShownAs(lines, id, block)
       PROVE  Keeps(before, id, block, Flush(last).seen, Flush(last).out)
  <2>1. Keeps(before, id, block, last.seen, last.out)
    BY <1>9, <1>12
  <2>. HIDE DEF last
  <2>. QED
    BY <1>8, <1>9, <1>12, <2>1, FlushKeeps
<1>13. DedupeText(lines, before) = Flush(last)
  BY <1>1
<1>. HIDE DEF last
<1>. QED
  BY <1>10, <1>11, <1>12, <1>13

-----------------------------------------------------------------------------
(* The results of a request: those of the conversation, as the tools wrote *)
(* them, and those that are sent.                                          *)

Results == [lines : Seq(Lines), wrapped : BOOLEAN, exact : BOOLEAN]

Conversed ==
    {v \in [lines : Seq(Shown), wrapped : BOOLEAN, exact : BOOLEAN] :
        Has(v.lines, {"header"}) => v.lines[1].kind = "header"}

(* What becomes of a result v, before being the ids seen until then: w is  *)
(* sent for it, and after it those of the set after are known.             *)
Folded(before, v, after, w) ==
    /\ w.wrapped = v.wrapped /\ w.exact = v.exact
    /\ IsDiscussionResult(w) <=> IsDiscussionResult(v)
    /\ ~IsDiscussionResult(v) => w = v
    /\ before \subseteq after
    /\ \A id \in after \ before :
          /\ IsDiscussionResult(v)
          /\ HeadAmong(v.lines, Len(v.lines), id) /\ HeadAmong(w.lines, Len(w.lines), id)
    /\ Rewritable(w) =>
          /\ UniqueHeads(w.lines, Len(w.lines))
          /\ \A k \in 1 .. Len(w.lines) :
                w.lines[k].kind = "head" => w.lines[k].id \in after \ before
    /\ MarksBacked(w.lines, before)
    /\ \A id, block :
          /\ IsDiscussionResult(v) /\ ShownAs(v.lines, id, block)
          /\ id \notin before /\ HeadAmong(v.lines, Len(v.lines), id)
          => \E k \in 1 .. Len(w.lines) : Follows(w.lines, k, block)

LEMMA ConversedTypes ==
    ASSUME NEW v \in Conversed
    PROVE  /\ v \in Results /\ v.lines \in Seq(Shown) /\ v.lines \in Seq(Lines)
           /\ v.wrapped \in BOOLEAN /\ v.exact \in BOOLEAN
           /\ \A k \in 1 .. Len(v.lines) : v.lines[k].kind # "mark"
           /\ Has(v.lines, {"header"}) => v.lines[1].kind = "header"
<1>1. /\ v.lines \in Seq(Shown) /\ v.wrapped \in BOOLEAN /\ v.exact \in BOOLEAN
      /\ v = [lines |-> v.lines, wrapped |-> v.wrapped, exact |-> v.exact]
      /\ Has(v.lines, {"header"}) => v.lines[1].kind = "header"
  BY DEF Conversed
<1>2. v.lines \in Seq(Lines)
  <2>1. Shown \subseteq Lines
    BY LineTypes
  <2>. QED
    BY <1>1, <2>1
<1>3. v \in Results
  BY <1>1, <1>2 DEF Results
<1>. QED
  BY <1>1, <1>2, <1>3, ShownLine

(* A result of another tool is sent as it is. *)
LEMMA OtherFolds ==
    ASSUME NEW v \in Conversed, ~IsDiscussionResult(v), NEW before
    PROVE  Folded(before, v, before, v)
<1>1. MarksBacked(v.lines, before)
  BY ConversedTypes DEF MarksBacked
<1>. QED
  BY <1>1 DEF Folded, Rewritable

(* So is one of the discussion that shows nothing twice, or cannot be      *)
(* changed; its ids are remembered.                                        *)
LEMMA KeptFolds ==
    ASSUME NEW v \in Conversed, IsDiscussionResult(v), NEW before, NEW out, NEW after, NEW folds,
           Settled(v.lines, before, Len(v.lines), out, after, folds),
           Rewritable(v) => folds = 0
    PROVE  Folded(before, v, after, v)
<1>. DEFINE n == Len(v.lines)
<1>1. Remembers(v.lines, before, n, out, after) /\ Counts(v.lines, before, n, out, folds)
  BY DEF Settled
<1>2. MarksBacked(v.lines, before)
  BY ConversedTypes DEF MarksBacked
<1>3. before \subseteq after /\ \A id \in after \ before : HeadAmong(v.lines, n, id)
  BY <1>1 DEF Remembers
<1>4. ASSUME Rewritable(v)
      PROVE  /\ UniqueHeads(v.lines, n)
             /\ \A k \in 1 .. n : v.lines[k].kind = "head" => v.lines[k].id \in after \ before
  BY <1>1, <1>4 DEF Remembers, Counts
<1>5. ASSUME NEW id, NEW block, ShownAs(v.lines, id, block), HeadAmong(v.lines, n, id)
      PROVE  \E k \in 1 .. n : Follows(v.lines, k, block)
  BY <1>5 DEF ShownAs, HeadAmong
<1>. QED
  BY <1>2, <1>3, <1>4, <1>5 DEF Folded

(* A text that held a block shown before is replaced. *)
LEMMA ReplacedFolds ==
    ASSUME NEW v \in Conversed, IsDiscussionResult(v), NEW before, NEW w \in Results,
           w.wrapped = v.wrapped, w.exact = v.exact, NEW after, NEW folds, folds # 0,
           Settled(v.lines, before, Len(v.lines), w.lines, after, folds),
           \A id, block : ShownAs(v.lines, id, block)
                            => Keeps(before, id, block, after, w.lines)
    PROVE  Folded(before, v, after, w)
<1>. DEFINE n == Len(v.lines)
<1>1. /\ Remembers(v.lines, before, n, w.lines, after) /\ UniqueHeads(w.lines, Len(w.lines))
      /\ MarksBacked(w.lines, before) /\ Counts(v.lines, before, n, w.lines, folds)
      /\ SameOpening(v.lines, n, w.lines)
  BY DEF Settled
<1>2. /\ v.lines \in Seq(Lines) /\ w.lines \in Seq(Lines)
      /\ DOMAIN v.lines = 1 .. n /\ DOMAIN w.lines = 1 .. Len(w.lines)
      /\ n \in Nat /\ Len(w.lines) \in Nat
  BY ConversedTypes DEF Results
<1>3. IsDiscussionResult(w)
  <2>1. Has(w.lines, {"head", "mark", "cut"})
    BY <1>1, <1>2 DEF Counts, Has
  <2>2. n > 0 /\ v.lines[1].kind = "header"
    <3>1. Has(v.lines, {"header"})
      BY DEF IsDiscussionResult
    <3>2. v.lines[1].kind = "header"
      BY <3>1, ConversedTypes
    <3>3. DOMAIN v.lines # {}
      BY <3>1 DEF Has
    <3>. QED
      BY <1>2, <3>2, <3>3
  <2>3. 1 \in 1 .. Len(w.lines) /\ w.lines[1].kind = "header"
    BY <1>1, <1>2, <2>2 DEF SameOpening
  <2>4. Has(w.lines, {"header"})
    BY <1>2, <2>3 DEF Has
  <2>. QED
    BY <2>1, <2>4 DEF IsDiscussionResult
<1>4. /\ before \subseteq after
      /\ \A id \in after \ before : HeadAmong(v.lines, n, id) /\ HeadAmong(w.lines, Len(w.lines), id)
      /\ \A k \in 1 .. Len(w.lines) :
            w.lines[k].kind = "head" => w.lines[k].id \in after \ before
  BY <1>1 DEF Remembers
<1>5. ASSUME NEW id, NEW block, ShownAs(v.lines, id, block), id \notin before,
             HeadAmong(v.lines, n, id)
      PROVE  \E k \in 1 .. Len(w.lines) : Follows(w.lines, k, block)
  <2>1. id \in after
    BY <1>1, <1>5 DEF Remembers, HeadAmong
  <2>. QED
    BY <1>5, <2>1 DEF Keeps
<1>. QED
  BY <1>1, <1>3, <1>4, <1>5 DEF Folded

BodyStates == [out : Seq(Results), seen : SUBSET LineIds]

LEMMA ValueFolds ==
    ASSUME NEW acc \in BodyStates, NEW v \in Conversed
    PROVE  \E w \in Results, after \in SUBSET LineIds :
              /\ DedupeValue(acc, v) = [out |-> Append(acc.out, w), seen |-> after]
              /\ Folded(acc.seen, v, after, w)
<1>. DEFINE text == DedupeText(v.lines, acc.seen)
<1>1. /\ acc.out \in Seq(Results) /\ acc.seen \in SUBSET LineIds
      /\ acc = [out |-> acc.out, seen |-> acc.seen]
  BY DEF BodyStates
<1>2. v \in Results /\ v.lines \in Seq(Shown)
  BY ConversedTypes
<1>3. /\ text \in TextStates
      /\ Settled(v.lines, acc.seen, Len(v.lines), text.out, text.seen, text.dups)
      /\ \A id, block : ShownAs(v.lines, id, block)
                          => Keeps(acc.seen, id, block, text.seen, text.out)
  BY <1>1, <1>2, TextSettled
<1>4. text.out \in Seq(Lines) /\ text.seen \in SUBSET LineIds /\ text.dups \in Nat
  BY <1>3 DEF TextStates
<1>5. CASE ~IsDiscussionResult(v)
  <2>1. DedupeValue(acc, v) = [out |-> Append(acc.out, v), seen |-> acc.seen]
    BY <1>1, <1>5 DEF DedupeValue
  <2>. QED
    BY <1>1, <1>2, <1>5, <2>1, OtherFolds
<1>6. CASE IsDiscussionResult(v) /\ (text.dups = 0 \/ (v.wrapped /\ ~v.exact))
  <2>1. DedupeValue(acc, v) = [out |-> Append(acc.out, v), seen |-> text.seen]
    BY <1>6 DEF DedupeValue
  <2>. HIDE DEF text
  <2>2. Rewritable(v) => text.dups = 0
    BY <1>6 DEF Rewritable
  <2>3. Folded(acc.seen, v, text.seen, v)
    BY <1>3, <1>6, <2>2, KeptFolds
  <2>. QED
    BY <1>2, <1>4, <2>1, <2>3
<1>7. CASE IsDiscussionResult(v) /\ ~(text.dups = 0 \/ (v.wrapped /\ ~v.exact))
  <2>. DEFINE w == [v EXCEPT !.lines = text.out]
  <2>1. DedupeValue(acc, v) = [out |-> Append(acc.out, w), seen |-> text.seen]
    BY <1>7 DEF DedupeValue
  <2>. HIDE DEF text
  <2>2. /\ w = [lines |-> text.out, wrapped |-> v.wrapped, exact |-> v.exact]
        /\ v.wrapped \in BOOLEAN /\ v.exact \in BOOLEAN
    BY <1>2 DEF Results
  <2>. HIDE DEF w
  <2>3. w \in Results /\ w.lines = text.out /\ w.wrapped = v.wrapped /\ w.exact = v.exact
    BY <1>4, <2>2 DEF Results
  <2>4. Folded(acc.seen, v, text.seen, w)
    BY <1>3, <1>7, <2>3, ReplacedFolds
  <2>. QED
    BY <1>4, <2>1, <2>3, <2>4
<1>. QED
  BY <1>5, <1>6, <1>7
(* The body is read result by result.                                      *)
BodyRun(body, run) ==
    /\ run \in [0 .. Len(body) -> BodyStates]
    /\ run[0] = [out |-> <<>>, seen |-> {}]
    /\ \A k \in 1 .. Len(body) : run[k] = DedupeValue(run[k - 1], body[k])

LEMMA ValueType ==
    ASSUME NEW acc \in BodyStates, NEW v \in Conversed
    PROVE  DedupeValue(acc, v) \in BodyStates
<1>1. PICK w \in Results, after \in SUBSET LineIds :
         DedupeValue(acc, v) = [out |-> Append(acc.out, w), seen |-> after]
  BY ValueFolds
<1>2. acc.out \in Seq(Results)
  BY DEF BodyStates
<1>. HIDE DEF Results, LineIds
<1>3. Append(acc.out, w) \in Seq(Results)
  BY <1>2
<1>. QED
  BY <1>1, <1>3 DEF BodyStates

LEMMA BodyRuns ==
    ASSUME NEW body \in Seq(Conversed)
    PROVE  \E run : BodyRun(body, run) /\ DedupeRequestBody(body) = run[Len(body)].out
<1>. DEFINE base == [out |-> <<>>, seen |-> {}]
            step == [p \in BodyStates \X Conversed |-> DedupeValue(p[1], p[2])]
            fold == CHOOSE g : g = [s \in SUBSET DOMAIN body |->
                        IF s = {} THEN base
                                  ELSE DedupeValue(g[s \ {Max(s)}], body[Max(s)])]
<1>1. DedupeRequestBody(body) = fold[DOMAIN body].out
  BY DEF DedupeRequestBody, FoldLeft, MapThenFoldSet
<1>2. base \in BodyStates
  <2>1. <<>> \in Seq(Results)
    OBVIOUS
  <2>. QED
    BY <2>1 DEF BodyStates
<1>3. step \in [BodyStates \X Conversed -> BodyStates]
  BY ValueType
<1>4. \A acc \in BodyStates, v \in Conversed : step[<<acc, v>>] = DedupeValue(acc, v)
  OBVIOUS
<1>. HIDE DEF base, step
<1>5. fold = [s \in SUBSET DOMAIN body |->
                 IF s = {} THEN base ELSE DedupeValue(fold[s \ {Max(s)}], body[Max(s)])]
  <2>1. PICK g : g \in [SUBSET DOMAIN body -> BodyStates] /\ IsFold(g, step, base, body)
    BY <1>2, <1>3, FoldExists
  <2>2. ASSUME NEW s \in SUBSET DOMAIN body, s # {}
        PROVE  g[s] = DedupeValue(g[s \ {Max(s)}], body[Max(s)])
    <3>1. s \ {Max(s)} \in SUBSET DOMAIN body
      OBVIOUS
    <3>2. body[Max(s)] \in Conversed
      BY <2>2, DomainMax
    <3>3. g[s \ {Max(s)}] \in BodyStates
      BY <2>1, <3>1
    <3>. QED
      BY <1>4, <2>1, <2>2, <3>2, <3>3 DEF IsFold
  <2>3. g = [s \in SUBSET DOMAIN body |->
                IF s = {} THEN base ELSE DedupeValue(g[s \ {Max(s)}], body[Max(s)])]
    BY <2>1, <2>2 DEF IsFold
  <2>. QED
    BY <2>3
<1>. HIDE DEF fold
<1>6. fold[{}] = base
  BY <1>5
<1>7. ASSUME NEW s \in SUBSET DOMAIN body, s # {}, fold[s \ {Max(s)}] \in BodyStates
      PROVE  fold[s] = step[<<fold[s \ {Max(s)}], body[Max(s)]>>]
  <2>1. body[Max(s)] \in Conversed
    BY <1>7, DomainMax
  <2>. QED
    BY <1>4, <1>5, <1>7, <2>1
<1>8. FoldsWithin(BodyStates, Conversed, fold, step, base, body)
  BY <1>2, <1>3, <1>6, <1>7 DEF FoldsWithin
<1>9. PICK run : RunsOver(BodyStates, run, step, base, body) /\ run[Len(body)] = fold[DOMAIN body]
  BY <1>8, FoldRuns
<1>10. ASSUME NEW k \in 1 .. Len(body) PROVE run[k] = DedupeValue(run[k - 1], body[k])
  <2>1. Len(body) \in Nat /\ k - 1 \in 0 .. Len(body) /\ body[k] \in Conversed
    OBVIOUS
  <2>2. run[k - 1] \in BodyStates
    BY <1>9, <2>1 DEF RunsOver
  <2>. QED
    BY <1>4, <1>9, <2>1, <2>2 DEF RunsOver
<1>11. BodyRun(body, run)
  BY <1>9, <1>10 DEF BodyRun, base, RunsOver
<1>. QED
  BY <1>1, <1>9, <1>11

(* Each result is folded with the ids known before it, and what is sent    *)
(* for it does not change any more.                                        *)
LEMMA BodySteps ==
    ASSUME NEW body \in Seq(Conversed), NEW run, BodyRun(body, run), NEW k \in 1 .. Len(body)
    PROVE  \E w \in Results :
              /\ run[k].out = Append(run[k - 1].out, w)
              /\ Folded(run[k - 1].seen, body[k], run[k].seen, w)
<1>1. Len(body) \in Nat /\ k - 1 \in 0 .. Len(body) /\ body[k] \in Conversed
  OBVIOUS
<1>2. run[k - 1] \in BodyStates /\ run[k] = DedupeValue(run[k - 1], body[k])
  BY <1>1 DEF BodyRun
<1>3. PICK w \in Results, after \in SUBSET LineIds :
         /\ DedupeValue(run[k - 1], body[k]) = [out |-> Append(run[k - 1].out, w), seen |-> after]
         /\ Folded(run[k - 1].seen, body[k], after, w)
  BY <1>1, <1>2, ValueFolds
<1>4. run[k].out = Append(run[k - 1].out, w) /\ run[k].seen = after
  BY <1>2, <1>3
<1>. QED
  BY <1>3, <1>4

LEMMA BodyRunGrows ==
    ASSUME NEW body \in Seq(Conversed), NEW run, BodyRun(body, run)
    PROVE  /\ \A k \in 0 .. Len(body) : Len(run[k].out) = k /\ run[k].out \in Seq(Results)
           /\ \A k \in 0 .. Len(body) : \A j \in 1 .. k :
                 run[k].out[j] = run[Len(body)].out[j]
<1>1. Len(body) \in Nat
  OBVIOUS
<1>2. \A k \in 0 .. Len(body) : run[k].out \in Seq(Results)
  BY DEF BodyRun, BodyStates
<1>. DEFINE S == {k \in Nat : k <= Len(body) => Len(run[k].out) = k}
<1>3. S = Nat
  <2>1. 0 \in S
    BY DEF BodyRun
  <2>2. ASSUME NEW k \in S PROVE k + 1 \in S
    <3>1. SUFFICES ASSUME k + 1 <= Len(body) PROVE Len(run[k + 1].out) = k + 1
      OBVIOUS
    <3>2. k + 1 \in 1 .. Len(body) /\ (k + 1) - 1 = k /\ k \in 0 .. Len(body) /\ Len(run[k].out) = k
      BY <1>1, <3>1
    <3>3. PICK w \in Results : run[k + 1].out = Append(run[(k + 1) - 1].out, w)
      BY <3>2, BodySteps
    <3>4. run[k].out \in Seq(Results) /\ run[k + 1].out = Append(run[k].out, w)
      BY <1>2, <3>2, <3>3
    <3>. QED
      BY <3>2, <3>4
  <2>. HIDE DEF S
  <2>. QED
    BY <2>1, <2>2, NatSetInduction DEF S
<1>4. \A k \in 0 .. Len(body) : Len(run[k].out) = k
  BY <1>1, <1>3
<1>5. ASSUME NEW k \in 1 .. Len(body), NEW j \in 1 .. k - 1
      PROVE  run[k].out[j] = run[k - 1].out[j]
  <2>1. PICK w \in Results : run[k].out = Append(run[k - 1].out, w)
    BY BodySteps
  <2>2. k - 1 \in 0 .. Len(body)
    BY <1>1
  <2>3. run[k - 1].out \in Seq(Results) /\ Len(run[k - 1].out) = k - 1
    BY <1>2, <1>4, <2>2
  <2>. QED
    BY <2>1, <2>3
<1>. DEFINE n == Len(body)
            Same(d) == d <= n => \A j \in 1 .. n - d : run[n - d].out[j] = run[n].out[j]
            U == {d \in Nat : Same(d)}
<1>6. U = Nat
  <2>1. 0 \in U
    BY <1>1
  <2>2. ASSUME NEW d \in U PROVE d + 1 \in U
    <3>1. SUFFICES ASSUME d + 1 <= n, NEW j \in 1 .. n - (d + 1)
                   PROVE  run[n - (d + 1)].out[j] = run[n].out[j]
      OBVIOUS
    <3>2. /\ d <= n /\ n - d \in 1 .. n /\ (n - d) - 1 = n - (d + 1)
          /\ j \in 1 .. n - d /\ j \in 1 .. (n - d) - 1
      BY <1>1, <3>1
    <3>3. run[n - d].out[j] = run[n].out[j]
      BY <3>2
    <3>4. run[n - d].out[j] = run[(n - d) - 1].out[j]
      BY <1>5, <3>2
    <3>. QED
      BY <3>2, <3>3, <3>4
  <2>. HIDE DEF U
  <2>. QED
    BY <2>1, <2>2, NatSetInduction DEF U
<1>7. ASSUME NEW k \in 0 .. n, NEW j \in 1 .. k
      PROVE  run[k].out[j] = run[n].out[j]
  <2>1. n - k \in Nat /\ n - k <= n /\ n - (n - k) = k
    BY <1>1
  <2>2. n - k \in U
    BY <1>6, <2>1
  <2>3. \A i \in 1 .. n - (n - k) : run[n - (n - k)].out[i] = run[n].out[i]
    BY <2>1, <2>2
  <2>. QED
    BY <2>1, <2>3
<1>. QED
  BY <1>2, <1>4, <1>7

(* What is sent for a body, with the ids known after each of its results.  *)
FoldedBody(body, out, ids) ==
    /\ out \in Seq(Results) /\ Len(out) = Len(body)
    /\ ids[0] = {}
    /\ \A k \in 1 .. Len(body) : Folded(ids[k - 1], body[k], ids[k], out[k])

LEMMA BodyFolds ==
    ASSUME NEW body \in Seq(Conversed)
    PROVE  \E ids : FoldedBody(body, DedupeRequestBody(body), ids)
<1>. DEFINE n == Len(body)
            out == DedupeRequestBody(body)
<1>1. PICK run : BodyRun(body, run) /\ out = run[n].out
  BY BodyRuns
<1>. HIDE DEF out
<1>2. n \in Nat
  OBVIOUS
<1>3. /\ \A k \in 0 .. n : Len(run[k].out) = k /\ run[k].out \in Seq(Results)
      /\ \A k \in 0 .. n : \A j \in 1 .. k : run[k].out[j] = run[n].out[j]
  BY <1>1, BodyRunGrows
<1>. DEFINE ids == [k \in 0 .. n |-> run[k].seen]
<1>4. ids[0] = {}
  BY <1>1, <1>2 DEF BodyRun
<1>5. ASSUME NEW k \in 1 .. n PROVE Folded(ids[k - 1], body[k], ids[k], out[k])
  <2>1. PICK w \in Results : /\ run[k].out = Append(run[k - 1].out, w)
                             /\ Folded(run[k - 1].seen, body[k], run[k].seen, w)
    BY <1>1, BodySteps
  <2>2. k \in 0 .. n /\ k - 1 \in 0 .. n /\ k \in 1 .. k
    BY <1>2
  <2>3. run[k].out[k] = out[k]
    BY <1>1, <1>3, <2>2
  <2>4. Len(run[k - 1].out) = k - 1 /\ run[k - 1].out \in Seq(Results)
    BY <1>3, <2>2
  <2>5. run[k].out[k] = w
    BY <2>1, <2>2, <2>4
  <2>6. ids[k - 1] = run[k - 1].seen /\ ids[k] = run[k].seen
    BY <2>2
  <2>. QED
    BY <2>1, <2>3, <2>5, <2>6
<1>6. out \in Seq(Results) /\ Len(out) = n
  BY <1>1, <1>2, <1>3
<1>. HIDE DEF ids
<1>. QED
  BY <1>4, <1>5, <1>6 DEF FoldedBody, out

(* A longer conversation begins with what was sent for a shorter one.      *)
LEMMA BodyPrefix ==
    ASSUME NEW body \in Seq(Conversed), NEW n \in 0 .. Len(body)
    PROVE  LET part == DedupeRequestBody(SubSeq(body, 1, n))
               all  == DedupeRequestBody(body)
           IN  /\ part \in Seq(Results) /\ all \in Seq(Results)
               /\ Len(part) = n /\ Len(all) = Len(body)
               /\ \A k \in 1 .. n : part[k] = all[k]
<1>. DEFINE sub == SubSeq(body, 1, n)
<1>1. /\ Len(body) \in Nat /\ n \in Nat /\ n <= Len(body)
      /\ sub \in Seq(Conversed) /\ Len(sub) = n /\ \A k \in 1 .. n : sub[k] = body[k]
  OBVIOUS
<1>. HIDE DEF sub
<1>2. PICK run : BodyRun(body, run) /\ DedupeRequestBody(body) = run[Len(body)].out
  BY BodyRuns
<1>3. PICK r : BodyRun(sub, r) /\ DedupeRequestBody(sub) = r[Len(sub)].out
  BY <1>1, BodyRuns
<1>. DEFINE S == {k \in Nat : k <= n => r[k] = run[k]}
<1>4. S = Nat
  <2>1. 0 \in S
    BY <1>2, <1>3 DEF BodyRun
  <2>2. ASSUME NEW k \in S PROVE k + 1 \in S
    <3>1. SUFFICES ASSUME k + 1 <= n PROVE r[k + 1] = run[k + 1]
      OBVIOUS
    <3>2. /\ k + 1 \in 1 .. Len(body) /\ k + 1 \in 1 .. Len(sub) /\ k + 1 \in 1 .. n
          /\ (k + 1) - 1 = k /\ r[k] = run[k]
      BY <1>1, <3>1
    <3>3. r[k + 1] = DedupeValue(r[(k + 1) - 1], sub[k + 1])
      BY <1>3, <3>2 DEF BodyRun
    <3>4. run[k + 1] = DedupeValue(run[(k + 1) - 1], body[k + 1])
      BY <1>2, <3>2 DEF BodyRun
    <3>. QED
      BY <1>1, <3>2, <3>3, <3>4
  <2>. HIDE DEF S
  <2>. QED
    BY <2>1, <2>2, NatSetInduction DEF S
<1>5. r[n] = run[n]
  BY <1>1, <1>4
<1>6. /\ \A k \in 0 .. Len(body) : Len(run[k].out) = k /\ run[k].out \in Seq(Results)
      /\ \A k \in 0 .. Len(body) : \A j \in 1 .. k : run[k].out[j] = run[Len(body)].out[j]
  BY <1>2, BodyRunGrows
<1>. QED
  BY <1>1, <1>2, <1>3, <1>5, <1>6 DEF sub
(* The ids known after k results: none is forgotten, and each of them      *)
(* heads a block of a result read and of the result sent for it.           *)
LEMMA BodyIds ==
    ASSUME NEW body \in Seq(Conversed), NEW out, NEW ids, FoldedBody(body, out, ids)
    PROVE  /\ \A k \in 0 .. Len(body) : \A i \in 0 .. k : ids[i] \subseteq ids[k]
           /\ \A k \in 0 .. Len(body) : \A id \in ids[k] :
                 \E j \in 1 .. k :
                    /\ IsDiscussionResult(body[j]) /\ IsDiscussionResult(out[j])
                    /\ HeadAmong(body[j].lines, Len(body[j].lines), id)
                    /\ HeadAmong(out[j].lines, Len(out[j].lines), id)
<1>. DEFINE n == Len(body)
            Heads(j, id) ==
              /\ IsDiscussionResult(body[j]) /\ IsDiscussionResult(out[j])
              /\ HeadAmong(body[j].lines, Len(body[j].lines), id)
              /\ HeadAmong(out[j].lines, Len(out[j].lines), id)
            Good(k) == /\ \A i \in 0 .. k : ids[i] \subseteq ids[k]
                       /\ \A id \in ids[k] : \E j \in 1 .. k : Heads(j, id)
            S == {k \in Nat : k <= n => Good(k)}
<1>1. n \in Nat
  OBVIOUS
<1>2. 0 \in S
  BY DEF FoldedBody
<1>3. ASSUME NEW k \in S PROVE k + 1 \in S
  <2>1. SUFFICES ASSUME k + 1 <= n PROVE Good(k + 1)
    OBVIOUS
  <2>2. k \in Nat /\ k + 1 \in 1 .. n /\ (k + 1) - 1 = k /\ Good(k)
    BY <1>1, <2>1
  <2>3. Folded(ids[(k + 1) - 1], body[k + 1], ids[k + 1], out[k + 1])
    BY <2>2 DEF FoldedBody
  <2>4. Folded(ids[k], body[k + 1], ids[k + 1], out[k + 1])
    BY <2>2, <2>3
  <2>5. ids[k] \subseteq ids[k + 1]
    BY <2>4 DEF Folded
  <2>6. ASSUME NEW id \in ids[k + 1] \ ids[k] PROVE Heads(k + 1, id)
    BY <2>4, <2>6 DEF Folded
  <2>. HIDE DEF Heads
  <2>7. \A i \in 0 .. k + 1 : i \in 0 .. k \/ i = k + 1
    BY <2>2
  <2>8. 1 .. k \subseteq 1 .. k + 1 /\ k + 1 \in 1 .. k + 1
    BY <2>2
  <2>9. \A i \in 0 .. k + 1 : ids[i] \subseteq ids[k + 1]
    BY <2>2, <2>5, <2>7
  <2>10. \A id \in ids[k + 1] : \E j \in 1 .. k + 1 : Heads(j, id)
    BY <2>2, <2>6, <2>8
  <2>. QED
    BY <2>9, <2>10
<1>4. S = Nat
  <2>. HIDE DEF Good
  <2>1. S \subseteq Nat
    OBVIOUS
  <2>. HIDE DEF S
  <2>. QED
    BY <1>2, <1>3, <2>1, NatSetInduction
<1>5. ASSUME NEW k \in 0 .. n PROVE Good(k)
  <2>1. k \in S /\ k <= n
    BY <1>1, <1>4
  <2>. HIDE DEF Good
  <2>. QED
    BY <2>1
<1>. QED
  BY <1>5

LEMMA BodyStep ==
    ASSUME NEW body \in Seq(Conversed), NEW out, NEW ids, FoldedBody(body, out, ids),
           NEW i \in 1 .. Len(body)
    PROVE  /\ Folded(ids[i - 1], body[i], ids[i], out[i])
           /\ body[i] \in Conversed /\ out[i] \in Results
           /\ IsDiscussionResult(out[i]) <=> IsDiscussionResult(body[i])
           /\ i - 1 \in 0 .. Len(body) /\ i \in 0 .. Len(body)
<1>1. /\ Folded(ids[i - 1], body[i], ids[i], out[i])
      /\ out \in Seq(Results) /\ Len(out) = Len(body)
  BY DEF FoldedBody
<1>2. IsDiscussionResult(out[i]) <=> IsDiscussionResult(body[i])
  BY <1>1 DEF Folded
<1>3. body[i] \in Conversed /\ out[i] \in Results /\ Len(body) \in Nat
  BY <1>1
<1>4. i - 1 \in 0 .. Len(body) /\ i \in 0 .. Len(body)
  BY <1>3
<1>. QED
  BY <1>1, <1>2, <1>3, <1>4

(* What is sent heads a block with an id once, where it could be changed.  *)
LEMMA BodyOnce ==
    ASSUME NEW body \in Seq(Conversed), NEW out, NEW ids, FoldedBody(body, out, ids),
           NEW i \in 1 .. Len(body), NEW j \in 1 .. Len(body),
           Rewritable(out[i]), Rewritable(out[j]),
           NEW k \in 1 .. Len(out[i].lines), NEW m \in 1 .. Len(out[j].lines),
           out[i].lines[k].kind = "head", out[j].lines[m].kind = "head",
           out[i].lines[k].id = out[j].lines[m].id
    PROVE  i = j /\ k = m
<1>. DEFINE id == out[i].lines[k].id
<1>1. Folded(ids[i - 1], body[i], ids[i], out[i]) /\ Folded(ids[j - 1], body[j], ids[j], out[j])
  BY BodyStep
<1>2. id \in ids[i] \ ids[i - 1]
  BY <1>1 DEF Folded
<1>3. out[j].lines[m].id \in ids[j] \ ids[j - 1]
  BY <1>1 DEF Folded
<1>4. id \in ids[j] \ ids[j - 1]
  BY <1>3
<1>5. \A a \in 0 .. Len(body) : \A b \in 0 .. a : ids[b] \subseteq ids[a]
  BY BodyIds
<1>6. Len(body) \in Nat
  OBVIOUS
<1>7. ~(i < j)
  <2>1. SUFFICES ASSUME i < j PROVE FALSE  OBVIOUS
  <2>2. j - 1 \in 0 .. Len(body) /\ i \in 0 .. j - 1  BY <1>6, <2>1
  <2>3. ids[i] \subseteq ids[j - 1]  BY <1>5, <2>2
  <2>. QED  BY <1>2, <1>4, <2>3
<1>8. ~(j < i)
  <2>1. SUFFICES ASSUME j < i PROVE FALSE  OBVIOUS
  <2>2. i - 1 \in 0 .. Len(body) /\ j \in 0 .. i - 1  BY <1>6, <2>1
  <2>3. ids[j] \subseteq ids[i - 1]  BY <1>5, <2>2
  <2>. QED  BY <1>2, <1>4, <2>3
<1>9. i = j
  BY <1>7, <1>8
<1>10. UniqueHeads(out[i].lines, Len(out[i].lines))
  BY <1>1 DEF Folded
<1>11. k = m
  BY <1>9, <1>10 DEF UniqueHeads
<1>. QED
  BY <1>9, <1>11

(* A placeholder stands after a block of its id.                           *)
HasBlockBefore(out, i, k) ==
    \E j \in 1 .. i : \E m \in 1 .. Len(out[j].lines) :
        /\ out[j].lines[m].kind = "head" /\ out[j].lines[m].id = out[i].lines[k].id
        /\ IsDiscussionResult(out[j]) /\ (j < i \/ m < k)

LEMMA BodyBacked ==
    ASSUME NEW body \in Seq(Conversed), NEW out, NEW ids, FoldedBody(body, out, ids),
           NEW i \in 1 .. Len(body), NEW k \in 1 .. Len(out[i].lines),
           out[i].lines[k].kind = "mark"
    PROVE  HasBlockBefore(out, i, k)
<1>. USE DEF HasBlockBefore
<1>. DEFINE id == out[i].lines[k].id
<1>1. /\ Folded(ids[i - 1], body[i], ids[i], out[i])
      /\ body[i] \in Conversed /\ out[i] \in Results
      /\ IsDiscussionResult(out[i]) <=> IsDiscussionResult(body[i])
      /\ i - 1 \in 0 .. Len(body)
  BY BodyStep
<1>2. id \in ids[i - 1] \/ HeadAmong(out[i].lines, k - 1, id)
  BY <1>1 DEF Folded, MarksBacked
<1>3. i \in Nat /\ i >= 1 /\ i \in 1 .. i
  OBVIOUS
<1>4. CASE id \in ids[i - 1]
  <2>1. PICK j \in 1 .. i - 1 :
           IsDiscussionResult(out[j]) /\ HeadAmong(out[j].lines, Len(out[j].lines), id)
    BY <1>1, <1>4, BodyIds
  <2>2. j \in 1 .. i /\ j < i
    BY <1>3
  <2>. QED
    BY <2>1, <2>2 DEF HeadAmong
<1>5. CASE HeadAmong(out[i].lines, k - 1, id) /\ IsDiscussionResult(out[i])
  <2>1. PICK m \in 1 .. k - 1 : out[i].lines[m].kind = "head" /\ out[i].lines[m].id = id
    BY <1>5 DEF HeadAmong
  <2>2. Len(out[i].lines) \in Nat
    BY <1>1 DEF Results
  <2>3. m \in 1 .. Len(out[i].lines) /\ m < k
    BY <2>2
  <2>. QED
    BY <1>3, <1>5, <2>1, <2>3
<1>6. ASSUME ~IsDiscussionResult(out[i]) PROVE FALSE
  <2>1. \A x \in 1 .. Len(body[i].lines) : body[i].lines[x].kind # "mark"
    BY <1>1, ConversedTypes
  <2>2. out[i] = body[i]
    BY <1>1, <1>6 DEF Folded
  <2>. QED
    BY <2>1, <2>2
<1>. QED
  BY <1>2, <1>4, <1>5, <1>6

(* The first block a body shows of an id is sent.                          *)
LEMMA BodyKeeps ==
    ASSUME NEW body \in Seq(Conversed), NEW out, NEW ids, FoldedBody(body, out, ids),
           NEW i \in 1 .. Len(body), NEW id, NEW block,
           IsDiscussionResult(body[i]), ShownAs(body[i].lines, id, block),
           HeadAmong(body[i].lines, Len(body[i].lines), id),
           \A j \in 1 .. i - 1 :
              IsDiscussionResult(body[j]) => ~HeadAmong(body[j].lines, Len(body[j].lines), id)
    PROVE  \E k \in 1 .. Len(out[i].lines) : Follows(out[i].lines, k, block)
<1>1. /\ Folded(ids[i - 1], body[i], ids[i], out[i])
      /\ i - 1 \in 0 .. Len(body)
  BY BodyStep
<1>2. id \notin ids[i - 1]
  BY <1>1, BodyIds
<1>. QED
  BY <1>1, <1>2 DEF Folded
-----------------------------------------------------------------------------
(* The rows of the log, and the text a tool makes of them.                 *)

Rows == [id : LineIds, at : Nat, long : BOOLEAN, quote : Nat]

LEMMA RowTypes ==
    ASSUME NEW r \in Rows
    PROVE  r.id \in LineIds /\ r.id \in Nat /\ r.at \in Nat /\ r.long \in BOOLEAN /\ r.quote \in Nat
BY DEF Rows, LineIds

LEMMA PairJoined ==
    ASSUME NEW S, NEW a \in S, NEW c \in S
    PROVE  <<a>> \o <<c>> = <<a, c>>
<1>. DEFINE s == <<a>> \o <<c>>
            t == <<a, c>>
<1>1. s \in Seq(S) /\ Len(s) = 2 /\ s[1] = a /\ s[2] = c
  OBVIOUS
<1>2. t \in Seq(S) /\ Len(t) = 2 /\ t[1] = a /\ t[2] = c
  OBVIOUS
<1>. HIDE DEF s, t
<1>3. \A k \in 1 .. 2 : k = 1 \/ k = 2
  OBVIOUS
<1>4. \A k \in 1 .. Len(s) : s[k] = t[k]
  BY <1>1, <1>2, <1>3
<1>5. s = t
  BY <1>1, <1>2, <1>4, SeqEqual
<1>. QED
  BY <1>5 DEF s, t

LEMMA TripleJoined ==
    ASSUME NEW S, NEW a \in S, NEW b \in S, NEW c \in S
    PROVE  <<a>> \o <<b, c>> = <<a, b, c>> /\ <<a, b>> \o <<c>> = <<a, b, c>>
<1>. DEFINE s == <<a>> \o <<b, c>>
            u == <<a, b>> \o <<c>>
            t == <<a, b, c>>
<1>1. s \in Seq(S) /\ Len(s) = 3 /\ s[1] = a /\ s[2] = b /\ s[3] = c
  OBVIOUS
<1>2. t \in Seq(S) /\ Len(t) = 3 /\ t[1] = a /\ t[2] = b /\ t[3] = c
  OBVIOUS
<1>3. u \in Seq(S) /\ Len(u) = 3 /\ u[1] = a /\ u[2] = b /\ u[3] = c
  OBVIOUS
<1>. HIDE DEF s, t, u
<1>4. \A k \in 1 .. 3 : k = 1 \/ k = 2 \/ k = 3
  OBVIOUS
<1>5. \A k \in 1 .. 3 : s[k] = t[k]
  BY <1>1, <1>2, <1>4
<1>6. \A k \in 1 .. 3 : u[k] = t[k]
  BY <1>2, <1>3, <1>4
<1>7. s = t
  BY <1>1, <1>2, <1>5, SeqEqual
<1>8. u = t
  BY <1>2, <1>3, <1>6, SeqEqual
<1>. QED
  BY <1>7, <1>8 DEF s, t, u

LEMMA FourJoined ==
    ASSUME NEW S, NEW a \in S, NEW b \in S, NEW c \in S, NEW d \in S
    PROVE  <<a, b>> \o <<c, d>> = <<a, b, c, d>>
<1>. DEFINE s == <<a, b>> \o <<c, d>>
            t == <<a, b, c, d>>
<1>1. s \in Seq(S) /\ Len(s) = 4 /\ s[1] = a /\ s[2] = b /\ s[3] = c /\ s[4] = d
  OBVIOUS
<1>2. t \in Seq(S) /\ Len(t) = 4 /\ t[1] = a /\ t[2] = b /\ t[3] = c /\ t[4] = d
  OBVIOUS
<1>. HIDE DEF s, t
<1>3. \A k \in 1 .. 4 : k = 1 \/ k = 2 \/ k = 3 \/ k = 4
  OBVIOUS
<1>4. \A k \in 1 .. 4 : s[k] = t[k]
  BY <1>1, <1>2, <1>3
<1>5. s = t
  BY <1>1, <1>2, <1>4, SeqEqual
<1>. QED
  BY <1>5 DEF s, t

LEMMA RowText ==
    ASSUME NEW r \in Rows, NEW full \in BOOLEAN
    PROVE  /\ r.quote = NoId /\ ~(r.long /\ ~full)
                => FormatRow(r, full) = <<Line("head", r.id), Line("whole", r.id)>>
           /\ r.quote = NoId /\ r.long /\ ~full
                => FormatRow(r, full)
                     = <<Line("head", r.id), Line("preview", r.id), Line("cut", r.id)>>
           /\ r.quote # NoId /\ ~(r.long /\ ~full)
                => FormatRow(r, full)
                     = <<Line("head", r.id), Line("head", r.quote), Line("whole", r.id)>>
           /\ r.quote # NoId /\ r.long /\ ~full
                => FormatRow(r, full)
                     = <<Line("head", r.id), Line("head", r.quote),
                         Line("preview", r.id), Line("cut", r.id)>>
<1>. DEFINE a == Line("head", r.id)
            b == Line("head", r.quote)
            p == Line("preview", r.id)
            c == Line("cut", r.id)
            w == Line("whole", r.id)
<1>1. FormatRow(r, full) = <<a>> \o (IF r.quote = NoId THEN <<>> ELSE <<b>>)
                                 \o (IF r.long /\ ~full THEN <<p, c>> ELSE <<w>>)
  BY DEF FormatRow
<1>2. a \in Lines /\ b \in Lines /\ p \in Lines /\ c \in Lines /\ w \in Lines
  BY RowTypes, LineTypes
<1>. HIDE DEF a, b, p, c, w, Lines
<1>3. <<a>> \o <<>> = <<a>>
  <2>1. <<a>> \in Seq(Lines)
    BY <1>2
  <2>. QED
    BY <2>1, ConcatEmptySeq
<1>4. <<a>> \o <<w>> = <<a, w>> /\ <<a>> \o <<p, c>> = <<a, p, c>>
  BY <1>2, PairJoined, TripleJoined
<1>5. <<a>> \o <<b>> = <<a, b>> /\ <<a, b>> \o <<w>> = <<a, b, w>>
  BY <1>2, PairJoined, TripleJoined
<1>6. <<a, b>> \o <<p, c>> = <<a, b, p, c>>
  BY <1>2, FourJoined
<1>7. /\ r.quote = NoId /\ ~(r.long /\ ~full) => FormatRow(r, full) = <<a, w>>
      /\ r.quote = NoId /\ r.long /\ ~full => FormatRow(r, full) = <<a, p, c>>
      /\ r.quote # NoId /\ ~(r.long /\ ~full) => FormatRow(r, full) = <<a, b, w>>
      /\ r.quote # NoId /\ r.long /\ ~full => FormatRow(r, full) = <<a, b, p, c>>
  BY <1>1, <1>3, <1>4, <1>5, <1>6
<1>. QED
  BY <1>7 DEF a, b, p, c, w

LEMMA LineParts ==
    ASSUME NEW kind, NEW id
    PROVE  /\ Line(kind, id).kind = kind /\ Line(kind, id).id = id
           /\ id \in Nat /\ kind \in {"header", "blank", "preview", "whole", "cut"}
                => Line(kind, id) \in Shown
           /\ id \in LineIds /\ kind = "head" => Line(kind, id) \in Shown
BY DEF Line, Shown, Lines, LineIds

(* The block of a row: its own id begins it, and no line but the second    *)
(* can look like another id.                                               *)
LEMMA RowBlock ==
    ASSUME NEW r \in Rows, NEW full \in BOOLEAN
    PROVE  LET block == FormatRow(r, full)
           IN  /\ block \in Seq(Shown) /\ Len(block) > 1
               /\ ~Has(block, {"header"})
               /\ block[1] = Line("head", r.id)
               /\ \A k \in 2 .. Len(block) :
                     block[k].kind = "head" => r.quote # NoId /\ block[k].id = r.quote
               /\ r.quote = NoId => IsShowing(block)
<1>. DEFINE a == Line("head", r.id)
            b == Line("head", r.quote)
            p == Line("preview", r.id)
            c == Line("cut", r.id)
            w == Line("whole", r.id)
<1>1. /\ r.id \in Nat /\ r.id \in LineIds /\ r.quote \in Nat /\ r.long \in BOOLEAN
      /\ r.quote # NoId => r.quote \in LineIds
  BY RowTypes DEF LineIds
<1>2. /\ a \in Shown /\ p \in Shown /\ c \in Shown /\ w \in Shown
      /\ r.quote # NoId => b \in Shown
      /\ a.kind = "head" /\ b.kind = "head" /\ b.id = r.quote
      /\ p.kind = "preview" /\ c.kind = "cut" /\ w.kind = "whole"
  BY <1>1, LineParts
<1>3. /\ IsText(c) /\ IsText(w)
      /\ \A block \in Seq(Shown) : block \in Seq(Lines)
  <2>1. Shown \subseteq Lines
    BY LineTypes
  <2>. QED
    BY <1>2, <2>1 DEF IsText
<1>4. /\ r.quote = NoId /\ ~(r.long /\ ~full) => FormatRow(r, full) = <<a, w>>
      /\ r.quote = NoId /\ r.long /\ ~full => FormatRow(r, full) = <<a, p, c>>
      /\ r.quote # NoId /\ ~(r.long /\ ~full) => FormatRow(r, full) = <<a, b, w>>
      /\ r.quote # NoId /\ r.long /\ ~full => FormatRow(r, full) = <<a, b, p, c>>
  BY RowText
<1>. HIDE DEF a, b, p, c, w, Shown
<1>. DEFINE Good(block) ==
              /\ block \in Seq(Shown) /\ Len(block) > 1
              /\ ~Has(block, {"header"})
              /\ block[1] = a
              /\ \A k \in 2 .. Len(block) :
                    block[k].kind = "head" => r.quote # NoId /\ block[k].id = r.quote
              /\ r.quote = NoId => IsShowing(block)
<1>5. r.quote = NoId => Good(<<a, w>>) /\ Good(<<a, p, c>>)
  <2>1. SUFFICES ASSUME r.quote = NoId PROVE Good(<<a, w>>) /\ Good(<<a, p, c>>)
    OBVIOUS
  <2>2. <<a, w>> \in Seq(Shown) /\ <<a, p, c>> \in Seq(Shown)
    BY <1>2
  <2>3. /\ Len(<<a, w>>) = 2 /\ <<a, w>>[1] = a /\ <<a, w>>[2] = w
        /\ Len(<<a, p, c>>) = 3
        /\ <<a, p, c>>[1] = a /\ <<a, p, c>>[2] = p /\ <<a, p, c>>[3] = c
    OBVIOUS
  <2>4. \A k \in 2 .. 2 : k = 2
    OBVIOUS
  <2>5. \A k \in 2 .. 3 : k = 2 \/ k = 3
    OBVIOUS
  <2>6. ~Has(<<a, w>>, {"header"}) /\ ~Has(<<a, p, c>>, {"header"})
    BY <1>2 DEF Has
  <2>7. \A k \in 2 .. 2 : <<a, w>>[k].kind # "head"
    BY <1>2, <2>3, <2>4
  <2>8. \A k \in 2 .. 3 : <<a, p, c>>[k].kind # "head"
    BY <1>2, <2>3, <2>5
  <2>9. IsShowing(<<a, w>>)
    <3>1. <<a, w>> \in Seq(Lines) /\ IsText(<<a, w>>[Len(<<a, w>>)])
      BY <1>3, <2>2, <2>3
    <3>. QED
      BY <2>3, <2>7, <3>1 DEF IsShowing
  <2>10. IsShowing(<<a, p, c>>)
    <3>1. <<a, p, c>> \in Seq(Lines) /\ IsText(<<a, p, c>>[Len(<<a, p, c>>)])
      BY <1>3, <2>2, <2>3
    <3>. QED
      BY <2>3, <2>8, <3>1 DEF IsShowing
  <2>. QED
    BY <2>2, <2>3, <2>6, <2>7, <2>8, <2>9, <2>10
<1>6. r.quote # NoId => Good(<<a, b, w>>) /\ Good(<<a, b, p, c>>)
  <2>1. SUFFICES ASSUME r.quote # NoId PROVE Good(<<a, b, w>>) /\ Good(<<a, b, p, c>>)
    OBVIOUS
  <2>2. <<a, b, w>> \in Seq(Shown) /\ <<a, b, p, c>> \in Seq(Shown)
    BY <1>2, <2>1
  <2>3. /\ Len(<<a, b, w>>) = 3
        /\ <<a, b, w>>[1] = a /\ <<a, b, w>>[2] = b /\ <<a, b, w>>[3] = w
        /\ Len(<<a, b, p, c>>) = 4
        /\ <<a, b, p, c>>[1] = a /\ <<a, b, p, c>>[2] = b
        /\ <<a, b, p, c>>[3] = p /\ <<a, b, p, c>>[4] = c
    OBVIOUS
  <2>4. \A k \in 2 .. 3 : k = 2 \/ k = 3
    OBVIOUS
  <2>5. \A k \in 2 .. 4 : k = 2 \/ k = 3 \/ k = 4
    OBVIOUS
  <2>6. ~Has(<<a, b, w>>, {"header"}) /\ ~Has(<<a, b, p, c>>, {"header"})
    BY <1>2 DEF Has
  <2>7. \A k \in 2 .. 3 : <<a, b, w>>[k].kind = "head" => <<a, b, w>>[k].id = r.quote
    BY <1>2, <2>3, <2>4
  <2>8. \A k \in 2 .. 4 : <<a, b, p, c>>[k].kind = "head" => <<a, b, p, c>>[k].id = r.quote
    BY <1>2, <2>3, <2>5
  <2>. QED
    BY <2>1, <2>2, <2>3, <2>6, <2>7, <2>8
<1>. HIDE DEF Good
<1>7. Good(FormatRow(r, full))
  BY <1>1, <1>4, <1>5, <1>6
<1>. QED
  BY <1>7 DEF Good, a

(* Shown in full and in part, a row can only be the same when it is short. *)
LEMMA OneForm ==
    ASSUME NEW r \in Rows, r.quote = NoId, NEW full \in BOOLEAN, NEW other \in BOOLEAN,
           FormatRow(r, full)[2] = FormatRow(r, other)[2]
    PROVE  FormatRow(r, full) = FormatRow(r, other)
<1>1. Line("preview", r.id) # Line("whole", r.id)
  BY LineParts
<1>2. r.long \in BOOLEAN
  BY RowTypes
<1>. QED
  BY <1>1, <1>2, RowText
(* The blocks of a text are those of rows.  A line in them may quote an id.*)
Blocks(lines, rows, full) ==
    \A k \in 1 .. Len(lines) :
        lines[k].kind = "head" =>
            \E i \in DOMAIN rows :
                \/ /\ lines[k].id = rows[i].id
                   /\ Follows(lines, k, FormatRow(rows[i], full))
                \/ rows[i].quote # NoId /\ lines[k].id = rows[i].quote

LEMMA FollowsLater ==
    ASSUME NEW out \in Seq(Lines), NEW more \in Seq(Lines), NEW new,
           Extended(out, more, new), NEW block \in Seq(Lines),
           NEW k \in 1 .. Len(more), Follows(more, k, block)
    PROVE  Follows(new, Len(out) + k, block)
<1>1. /\ Len(out) \in Nat /\ Len(more) \in Nat /\ Len(new) = Len(out) + Len(more)
      /\ Len(block) \in Nat /\ k + Len(block) - 1 <= Len(more)
  BY DEF Extended, Follows
<1>2. \A j \in 1 .. Len(block) :
         k + j - 1 \in 1 .. Len(more) /\ Len(out) + k + j - 1 = Len(out) + (k + j - 1)
  BY <1>1
<1>3. Len(out) + k + Len(block) - 1 <= Len(new)
  BY <1>1
<1>4. ASSUME NEW j \in 1 .. Len(block) PROVE new[Len(out) + k + j - 1] = block[j]
  <2>1. new[Len(out) + (k + j - 1)] = more[k + j - 1]
    BY <1>2 DEF Extended
  <2>. QED
    BY <1>2, <2>1 DEF Follows
<1>. QED
  BY <1>3, <1>4 DEF Follows

LEMMA BlocksJoined ==
    ASSUME NEW rows \in Seq(Rows), NEW full \in BOOLEAN,
           NEW out \in Seq(Lines), NEW more \in Seq(Lines),
           Blocks(out, rows, full), Blocks(more, rows, full)
    PROVE  Blocks(out \o more, rows, full)
<1>. DEFINE new == out \o more
<1>1. Extended(out, more, new)
  BY Extends
<1>2. Len(out) \in Nat /\ Len(more) \in Nat /\ Len(new) = Len(out) + Len(more)
  BY <1>1 DEF Extended
<1>. HIDE DEF new
<1>3. \A i \in DOMAIN rows : FormatRow(rows[i], full) \in Seq(Lines)
  <2>1. \A i \in DOMAIN rows : rows[i] \in Rows
    OBVIOUS
  <2>2. \A i \in DOMAIN rows : FormatRow(rows[i], full) \in Seq(Shown)
    BY <2>1, RowBlock
  <2>3. Shown \subseteq Lines
    BY LineTypes
  <2>. QED
    BY <2>2, <2>3
<1>4. SUFFICES ASSUME NEW k \in 1 .. Len(new), new[k].kind = "head"
               PROVE  \E i \in DOMAIN rows :
                         \/ /\ new[k].id = rows[i].id
                            /\ Follows(new, k, FormatRow(rows[i], full))
                         \/ rows[i].quote # NoId /\ new[k].id = rows[i].quote
  BY DEF Blocks, new
<1>5. CASE k <= Len(out)
  <2>1. k \in 1 .. Len(out) /\ new[k] = out[k]
    BY <1>1, <1>2, <1>5 DEF Extended
  <2>2. PICK i \in DOMAIN rows :
           \/ out[k].id = rows[i].id /\ Follows(out, k, FormatRow(rows[i], full))
           \/ rows[i].quote # NoId /\ out[k].id = rows[i].quote
    BY <1>4, <2>1 DEF Blocks
  <2>3. ASSUME Follows(out, k, FormatRow(rows[i], full))
        PROVE  Follows(new, k, FormatRow(rows[i], full))
    BY <1>1, <1>3, <2>1, <2>3, KeepsExtended
  <2>. QED
    BY <2>1, <2>2, <2>3
<1>6. CASE ~(k <= Len(out))
  <2>. DEFINE m == k - Len(out)
  <2>1. m \in 1 .. Len(more) /\ k = Len(out) + m
    BY <1>2, <1>6
  <2>2. new[k] = more[m]
    BY <1>1, <2>1 DEF Extended
  <2>. HIDE DEF m
  <2>3. PICK i \in DOMAIN rows :
           \/ more[m].id = rows[i].id /\ Follows(more, m, FormatRow(rows[i], full))
           \/ rows[i].quote # NoId /\ more[m].id = rows[i].quote
    BY <1>4, <2>1, <2>2 DEF Blocks
  <2>4. ASSUME Follows(more, m, FormatRow(rows[i], full))
        PROVE  Follows(new, k, FormatRow(rows[i], full))
    <3>1. Follows(new, Len(out) + m, FormatRow(rows[i], full))
      BY <1>1, <1>3, <2>1, <2>4, FollowsLater
    <3>. QED
      BY <2>1, <3>1
  <2>. QED
    BY <2>2, <2>3, <2>4
<1>. QED
  BY <1>5, <1>6

LEMMA RowBlocks ==
    ASSUME NEW rows \in Seq(Rows), NEW full \in BOOLEAN, NEW i \in DOMAIN rows
    PROVE  Blocks(FormatRow(rows[i], full), rows, full)
<1>. DEFINE block == FormatRow(rows[i], full)
            r == rows[i]
<1>1. r \in Rows
  OBVIOUS
<1>2. /\ block \in Seq(Shown) /\ Len(block) > 1 /\ block[1] = Line("head", r.id)
      /\ \A k \in 2 .. Len(block) :
            block[k].kind = "head" => r.quote # NoId /\ block[k].id = r.quote
  BY <1>1, RowBlock
<1>. HIDE DEF block
<1>3. Len(block) \in Nat /\ Follows(block, 1, block)
  <2>1. Len(block) \in Nat
    BY <1>2
  <2>2. \A j \in 1 .. Len(block) : 1 + j - 1 = j
    OBVIOUS
  <2>3. 1 + Len(block) - 1 <= Len(block)
    BY <2>1
  <2>. QED
    BY <2>1, <2>2, <2>3 DEF Follows
<1>4. block[1].id = r.id
  BY <1>2, LineParts
<1>5. ASSUME NEW k \in 1 .. Len(block), block[k].kind = "head"
      PROVE  \/ block[k].id = r.id /\ Follows(block, k, block)
             \/ r.quote # NoId /\ block[k].id = r.quote
  <2>1. k = 1 \/ k \in 2 .. Len(block)
    BY <1>3
  <2>. QED
    BY <1>2, <1>3, <1>4, <1>5, <2>1
<1>6. Blocks(block, rows, full)
  <2>1. \A k \in 1 .. Len(block) : block[k].kind = "head" =>
           \/ block[k].id = rows[i].id /\ Follows(block, k, FormatRow(rows[i], full))
           \/ rows[i].quote # NoId /\ block[k].id = rows[i].quote
    BY <1>5 DEF block
  <2>. QED
    BY <2>1 DEF Blocks
<1>. QED
  BY <1>6 DEF block

LEMMA PlainBlocks ==
    ASSUME NEW rows, NEW full, NEW lines \in Seq(Lines),
           \A k \in 1 .. Len(lines) : lines[k].kind # "head"
    PROVE  Blocks(lines, rows, full)
BY DEF Blocks

(* The text of a read: the title, and the blocks of the rows.              *)
LEMMA Formatted ==
    ASSUME NEW rows \in Seq(Rows), NEW full \in BOOLEAN
    PROVE  LET lines == FormatResults(rows, full)
           IN  /\ lines \in Seq(Shown) /\ lines[1].kind = "header"
               /\ Blocks(lines, rows, full)
<1>. DEFINE base == <<>>
            join(lines, r) == lines \o FormatRow(r, full) \o <<Blank>>
            step == [p \in Seq(Shown) \X Rows |-> join(p[1], p[2])]
            fold == CHOOSE g : g = [s \in SUBSET DOMAIN rows |->
                        IF s = {} THEN base ELSE join(g[s \ {Max(s)}], rows[Max(s)])]
<1>1. FormatResults(rows, full) = <<Header, Blank>> \o fold[DOMAIN rows] \o <<Blank>>
  BY DEF FormatResults, FoldLeft, MapThenFoldSet
<1>2. base \in Seq(Shown)
  OBVIOUS
<1>3. Blank \in Shown /\ Header \in Shown /\ Shown \subseteq Lines
  BY LineTypes
<1>4. /\ <<Blank>> \in Seq(Shown) /\ <<Header, Blank>> \in Seq(Shown)
      /\ Len(<<Blank>>) = 1 /\ <<Blank>>[1] = Blank
      /\ Len(<<Header, Blank>>) = 2
      /\ <<Header, Blank>>[1] = Header /\ <<Header, Blank>>[2] = Blank
  BY <1>3
<1>5. \A s \in Seq(Shown) : s \in Seq(Lines)
  BY <1>3
<1>6. ASSUME NEW lines \in Seq(Shown), NEW r \in Rows PROVE join(lines, r) \in Seq(Shown)
  <2>1. FormatRow(r, full) \in Seq(Shown)
    BY RowBlock
  <2>. HIDE DEF Shown
  <2>. QED
    BY <1>4, <2>1
<1>7. step \in [Seq(Shown) \X Rows -> Seq(Shown)]
  BY <1>6
<1>8. \A lines \in Seq(Shown), r \in Rows : step[<<lines, r>>] = join(lines, r)
  OBVIOUS
<1>. HIDE DEF base, step, join
<1>9. fold = [s \in SUBSET DOMAIN rows |->
                 IF s = {} THEN base ELSE join(fold[s \ {Max(s)}], rows[Max(s)])]
  <2>1. PICK g : g \in [SUBSET DOMAIN rows -> Seq(Shown)] /\ IsFold(g, step, base, rows)
    BY <1>2, <1>7, FoldExists
  <2>2. ASSUME NEW s \in SUBSET DOMAIN rows, s # {}
        PROVE  g[s] = join(g[s \ {Max(s)}], rows[Max(s)])
    <3>1. s \ {Max(s)} \in SUBSET DOMAIN rows
      OBVIOUS
    <3>2. rows[Max(s)] \in Rows
      BY <2>2, DomainMax
    <3>3. g[s \ {Max(s)}] \in Seq(Shown)
      BY <2>1, <3>1
    <3>. QED
      BY <1>8, <2>1, <2>2, <3>2, <3>3 DEF IsFold
  <2>3. g = [s \in SUBSET DOMAIN rows |->
                IF s = {} THEN base ELSE join(g[s \ {Max(s)}], rows[Max(s)])]
    BY <2>1, <2>2 DEF IsFold
  <2>. QED
    BY <2>3
<1>. HIDE DEF fold
<1>10. fold[{}] = base
  BY <1>9
<1>11. ASSUME NEW s \in SUBSET DOMAIN rows, s # {}, fold[s \ {Max(s)}] \in Seq(Shown)
       PROVE  fold[s] = step[<<fold[s \ {Max(s)}], rows[Max(s)]>>]
  <2>1. rows[Max(s)] \in Rows
    BY <1>11, DomainMax
  <2>. QED
    BY <1>8, <1>9, <1>11, <2>1
<1>12. FoldsWithin(Seq(Shown), Rows, fold, step, base, rows)
  BY <1>2, <1>7, <1>10, <1>11 DEF FoldsWithin
<1>13. PICK run : RunsOver(Seq(Shown), run, step, base, rows) /\ run[Len(rows)] = fold[DOMAIN rows]
  BY <1>12, FoldRuns
<1>14. Len(rows) \in Nat /\ \A k \in 0 .. Len(rows) : run[k] \in Seq(Shown)
  BY <1>13 DEF RunsOver
<1>15. Blocks(<<Blank>>, rows, full) /\ Blocks(<<Header, Blank>>, rows, full)
  <2>1. Blank.kind # "head" /\ Header.kind # "head"
    BY DEF Blank, Header
  <2>2. \A k \in 1 .. 2 : k = 1 \/ k = 2
    OBVIOUS
  <2>3. \A k \in 1 .. Len(<<Blank>>) : <<Blank>>[k].kind # "head"
    BY <1>4, <2>1
  <2>4. \A k \in 1 .. Len(<<Header, Blank>>) : <<Header, Blank>>[k].kind # "head"
    BY <1>4, <2>1, <2>2
  <2>. QED
    BY <2>3, <2>4 DEF Blocks
<1>. DEFINE S == {k \in Nat : k <= Len(rows) => Blocks(run[k], rows, full)}
<1>16. S = Nat
  <2>1. 0 \in S
    <3>1. run[0] = <<>>
      BY <1>13 DEF RunsOver, base
    <3>2. Len(<<>>) = 0 /\ 1 .. 0 = {}
      OBVIOUS
    <3>. QED
      BY <3>1, <3>2 DEF Blocks
  <2>2. ASSUME NEW k \in S PROVE k + 1 \in S
    <3>1. SUFFICES ASSUME k + 1 <= Len(rows) PROVE Blocks(run[k + 1], rows, full)
      OBVIOUS
    <3>2. /\ k + 1 \in 1 .. Len(rows) /\ (k + 1) - 1 = k /\ k \in 0 .. Len(rows)
          /\ Blocks(run[k], rows, full) /\ rows[k + 1] \in Rows /\ k + 1 \in DOMAIN rows
      BY <1>14, <3>1
    <3>. DEFINE block == FormatRow(rows[k + 1], full)
    <3>3. run[k + 1] = step[<<run[(k + 1) - 1], rows[k + 1]>>]
      BY <1>13, <3>2 DEF RunsOver
    <3>4. run[k] \in Seq(Shown)
      BY <1>14, <3>2
    <3>5. run[k + 1] = (run[k] \o block) \o <<Blank>>
      BY <1>8, <3>2, <3>3, <3>4 DEF join
    <3>6. block \in Seq(Lines) /\ Blocks(block, rows, full)
      BY <1>5, <3>2, RowBlock, RowBlocks
    <3>. HIDE DEF block
    <3>7. Blocks(run[k] \o block, rows, full) /\ run[k] \o block \in Seq(Lines)
      BY <1>5, <3>2, <3>4, <3>6, BlocksJoined
    <3>. QED
      BY <1>4, <1>5, <1>15, <3>5, <3>7, BlocksJoined
  <2>. HIDE DEF S
  <2>. QED
    BY <2>1, <2>2, NatSetInduction DEF S
<1>. DEFINE last == run[Len(rows)]
            lines == (<<Header, Blank>> \o last) \o <<Blank>>
<1>17. last \in Seq(Shown) /\ Blocks(last, rows, full)
  BY <1>14, <1>16
<1>18. FormatResults(rows, full) = lines
  BY <1>1, <1>13
<1>. HIDE DEF last
<1>19. Blocks(lines, rows, full)
  <2>1. <<Header, Blank>> \o last \in Seq(Lines)
    <3>. HIDE DEF Shown, Lines
    <3>1. <<Header, Blank>> \in Seq(Lines) /\ last \in Seq(Lines)
      BY <1>4, <1>5, <1>17
    <3>. QED
      BY <3>1
  <2>2. Blocks(<<Header, Blank>> \o last, rows, full)
    BY <1>4, <1>5, <1>15, <1>17, BlocksJoined
  <2>. QED
    BY <1>4, <1>5, <1>15, <2>1, <2>2, BlocksJoined
<1>20. lines \in Seq(Shown) /\ lines[1] = Header
  <2>. HIDE DEF Shown
  <2>1. <<Header, Blank>> \o last \in Seq(Shown)
    BY <1>4, <1>17
  <2>2. (<<Header, Blank>> \o last)[1] = Header /\ Len(<<Header, Blank>> \o last) > 0
    BY <1>4, <1>17
  <2>. QED
    BY <1>4, <2>1, <2>2
<1>. QED
  BY <1>18, <1>19, <1>20 DEF Header
-----------------------------------------------------------------------------
(* What a read returns.  Among any places of the log one is the newest, so *)
(* the places can be put in order, as the query's ORDER BY does.           *)

LEMMA Newest ==
    ASSUME log \in Seq(Rows), NEW bound \in Nat, \A k \in DOMAIN log : log[k].at <= bound,
           NEW places \in SUBSET DOMAIN log, places # {}
    PROVE  \E x \in places : \A y \in places \ {x} : Older(y, x)
<1>. DEFINE T == {log[k].at : k \in places}
<1>1. /\ Len(log) \in Nat /\ DOMAIN log = 1 .. Len(log)
      /\ \A k \in DOMAIN log : log[k] \in Rows
  OBVIOUS
<1>2. \A k \in DOMAIN log : log[k].at \in Nat
  BY <1>1, RowTypes
<1>3. T \in SUBSET Nat /\ T # {} /\ \A t \in T : t <= bound
  BY <1>2
<1>. HIDE DEF T
<1>4. PICK t \in T : \A u \in T : t >= u
  BY <1>3, GreatestNat
<1>. DEFINE U == {k \in places : log[k].at = t}
<1>5. U \in SUBSET Nat /\ U # {} /\ \A k \in U : k <= Len(log)
  BY <1>1 DEF T
<1>6. PICK x \in U : \A k \in U : x >= k
  BY <1>1, <1>5, GreatestNat
<1>7. ASSUME NEW y \in places \ {x} PROVE Older(y, x)
  <2>1. log[y].at \in T /\ log[y].at \in Nat /\ log[x].at = t /\ t \in Nat /\ t >= log[y].at
    BY <1>2, <1>3, <1>4 DEF T
  <2>2. CASE log[y].at = t
    <3>1. y \in U /\ x >= y /\ y # x /\ x \in Nat /\ y \in Nat
      BY <1>5, <1>6, <2>2
    <3>. QED
      BY <2>1, <2>2, <3>1 DEF Older
  <2>3. CASE log[y].at # t
    BY <2>1, <2>3 DEF Older
  <2>. QED
    BY <2>2, <2>3
<1>. QED
  BY <1>7

IsInOrder(order, places, n) ==
    /\ order \in [1 .. n -> places]
    /\ \A i, j \in 1 .. n : i < j => Older(order[i], order[j])

LEMMA OrderExists ==
    ASSUME log \in Seq(Rows), NEW bound \in Nat, \A k \in DOMAIN log : log[k].at <= bound,
           NEW places \in SUBSET DOMAIN log
    PROVE  /\ Cardinality(places) \in Nat
           /\ \E order : IsInOrder(order, places, Cardinality(places))
<1>1. IsFiniteSet(DOMAIN log)
  <2>1. Len(log) \in Nat /\ DOMAIN log = 1 .. Len(log)
    OBVIOUS
  <2>. QED
    BY <2>1, FS_Interval
<1>2. \A s \in SUBSET DOMAIN log : IsFiniteSet(s) /\ Cardinality(s) \in Nat
  BY <1>1, FS_Subset, FS_CardinalityType
<1>. DEFINE Good(n) == \A s \in SUBSET DOMAIN log :
                          Cardinality(s) = n => \E order : IsInOrder(order, s, n)
            S == {n \in Nat : Good(n)}
<1>3. 0 \in S
  <2>1. SUFFICES ASSUME NEW s \in SUBSET DOMAIN log, Cardinality(s) = 0
                 PROVE  \E order : IsInOrder(order, s, 0)
    OBVIOUS
  <2>2. IsInOrder([i \in 1 .. 0 |-> 0], s, 0)
    BY DEF IsInOrder
  <2>. QED
    BY <2>2
<1>4. ASSUME NEW n \in S PROVE n + 1 \in S
  <2>1. SUFFICES ASSUME NEW s \in SUBSET DOMAIN log, Cardinality(s) = n + 1
                 PROVE  \E order : IsInOrder(order, s, n + 1)
    OBVIOUS
  <2>2. n \in Nat /\ Good(n)
    OBVIOUS
  <2>. HIDE DEF S
  <2>3. s # {}
    <3>1. Cardinality({}) = 0 /\ n + 1 # 0
      BY <2>2, FS_EmptySet
    <3>. QED
      BY <2>1, <3>1
  <2>4. PICK x \in s : \A y \in s \ {x} : Older(y, x)
    BY <2>3, Newest
  <2>5. s \ {x} \in SUBSET DOMAIN log /\ Cardinality(s \ {x}) = n
    <3>1. Cardinality(s \ {x}) = Cardinality(s) - 1
      BY <1>2, FS_RemoveElement
    <3>. QED
      BY <2>1, <2>2, <3>1
  <2>6. PICK o : IsInOrder(o, s \ {x}, n)
    BY <2>2, <2>5
  <2>. DEFINE order == [i \in 1 .. n + 1 |-> IF i = n + 1 THEN x ELSE o[i]]
  <2>7. \A i \in 1 .. n + 1 : i = n + 1 \/ (i \in 1 .. n /\ i # n + 1)
    BY <2>2
  <2>8. order \in [1 .. n + 1 -> s]
    BY <2>6, <2>7 DEF IsInOrder
  <2>9. ASSUME NEW i \in 1 .. n + 1, NEW j \in 1 .. n + 1, i < j
        PROVE  Older(order[i], order[j])
    <3>1. i \in 1 .. n /\ i # n + 1
      BY <2>2, <2>9
    <3>2. order[i] = o[i] /\ o[i] \in s \ {x}
      BY <2>6, <3>1 DEF IsInOrder
    <3>3. CASE j = n + 1
      BY <2>4, <3>2, <3>3
    <3>4. CASE j # n + 1
      BY <2>6, <2>7, <2>9, <3>1, <3>2, <3>4 DEF IsInOrder
    <3>. QED
      BY <3>3, <3>4
  <2>. HIDE DEF order
  <2>10. IsInOrder(order, s, n + 1)
    BY <2>8, <2>9 DEF IsInOrder
  <2>. QED
    BY <2>10
<1>5. S = Nat
  <2>. HIDE DEF Good
  <2>1. S \subseteq Nat
    OBVIOUS
  <2>. HIDE DEF S
  <2>. QED
    BY <1>3, <1>4, <2>1, NatSetInduction
<1>6. Cardinality(places) \in S
  BY <1>2, <1>5
<1>. QED
  BY <1>2, <1>6

LEMMA ReadRows ==
    ASSUME log \in Seq(Rows), NEW bound \in Nat, \A k \in DOMAIN log : log[k].at <= bound,
           NEW after
    PROVE  ReadDiscussions(after) \in Seq({log[k] : k \in DOMAIN log})
<1>. DEFINE places == {k \in DOMAIN log : log[k].id > after}
            n == Cardinality(places)
            found == InOrder(places)
<1>1. /\ n \in Nat
      /\ \E order : IsInOrder(order, places, n)
  BY OrderExists
<1>2. \E order \in [1 .. n -> places] :
         \A i, j \in DOMAIN order : i < j => Older(order[i], order[j])
  BY <1>1 DEF IsInOrder
<1>. HIDE DEF places
<1>3. found \in [1 .. n -> places]
  BY <1>2 DEF InOrder
<1>4. Len(found) = n
  BY <1>1, <1>3
<1>. DEFINE first == IF n > LastN THEN n - LastN + 1 ELSE 1
            rows == [k \in 1 .. n - first + 1 |-> log[found[first + k - 1]]]
<1>5. ReadDiscussions(after) = rows
  BY <1>4 DEF ReadDiscussions, places
<1>. HIDE DEF found
<1>6. first \in Nat /\ first >= 1 /\ n - first + 1 \in Nat
  BY <1>1, FeedAssumption
<1>. HIDE DEF n, first
<1>7. ASSUME NEW k \in 1 .. n - first + 1
      PROVE  log[found[first + k - 1]] \in {log[i] : i \in DOMAIN log}
  <2>1. first + k - 1 \in 1 .. n
    BY <1>1, <1>6
  <2>2. found[first + k - 1] \in DOMAIN log
    BY <1>3, <2>1 DEF places
  <2>. QED
    BY <2>2
<1>8. rows \in Seq({log[i] : i \in DOMAIN log})
  BY <1>6, <1>7
<1>. QED
  BY <1>5, <1>8
-----------------------------------------------------------------------------
(* The inductive invariant: the types, no two rows share an id, the agent  *)
(* knows ids of stored rows, what a read showed are rows of the log, and   *)
(* the last request is the conversation as it was then, folded.            *)

EventsBy(t) == [at : 0 .. t, long : BOOLEAN, quote : Nat]

RowsBy(t) == [id : LineIds, at : 0 .. t, long : BOOLEAN, quote : Nat]

FeedTypes ==
    /\ now \in Nat \ {0}
    /\ waiting \in Seq(EventsBy(now)) /\ spool \in Seq(RowsBy(now)) /\ log \in Seq(RowsBy(now))
    /\ codex \in BOOLEAN /\ cursor \in Nat /\ known \in SUBSET LineIds
    /\ history \in Seq(Conversed) /\ sent \in Seq(Results)

DistinctIds ==
    /\ \A i, j \in DOMAIN log : log[i].id = log[j].id => i = j
    /\ \A i, j \in DOMAIN spool : spool[i].id = spool[j].id => i = j
    /\ \A i \in DOMAIN log, j \in DOMAIN spool : log[i].id # spool[j].id

KnownStored == \A id \in known : \E k \in DOMAIN log : log[k].id = id

ReadsShown ==
    \A i \in DOMAIN history :
        IsDiscussionResult(history[i]) =>
            \E full \in BOOLEAN : Blocks(history[i].lines, log, full)

SentFolded ==
    /\ Len(sent) <= Len(history)
    /\ sent = DedupeRequestBody(SubSeq(history, 1, Len(sent)))

FeedInv == FeedTypes /\ DistinctIds /\ KnownStored /\ ReadsShown /\ SentFolded

LEMMA TypesGrow ==
    ASSUME NEW t \in Nat
    PROVE  /\ EventsBy(t) \subseteq EventsBy(t + 1)
           /\ RowsBy(t) \subseteq RowsBy(t + 1) /\ RowsBy(t) \subseteq Rows
BY DEF EventsBy, RowsBy, Rows

LEMMA SeqGrows ==
    ASSUME NEW S, NEW T, S \subseteq T, NEW s \in Seq(S)
    PROVE  s \in Seq(T)
OBVIOUS

LEMMA RemovedType ==
    ASSUME NEW S, NEW s \in Seq(S), NEW k \in DOMAIN s
    PROVE  RemoveAt(s, k) \in Seq(S)
<1>1. Len(s) \in Nat /\ k \in 1 .. Len(s)
  OBVIOUS
<1>2. SubSeq(s, 1, k - 1) \in Seq(S) /\ SubSeq(s, k + 1, Len(s)) \in Seq(S)
  BY <1>1
<1>. QED
  BY <1>2 DEF RemoveAt

LEMMA LogTypes ==
    ASSUME FeedTypes
    PROVE  /\ log \in Seq(Rows) /\ spool \in Seq(Rows) /\ now \in Nat
           /\ \A k \in DOMAIN log : log[k] \in Rows /\ log[k].at <= now
<1>1. now \in Nat /\ log \in Seq(RowsBy(now)) /\ spool \in Seq(RowsBy(now))
  BY DEF FeedTypes
<1>2. RowsBy(now) \subseteq Rows
  BY <1>1, TypesGrow
<1>3. log \in Seq(Rows) /\ spool \in Seq(Rows)
  BY <1>1, <1>2, SeqGrows
<1>4. ASSUME NEW k \in DOMAIN log PROVE log[k] \in Rows /\ log[k].at <= now
  <2>1. log[k] \in RowsBy(now)
    BY <1>1
  <2>2. log[k].at \in 0 .. now
    BY <2>1 DEF RowsBy
  <2>. QED
    BY <1>1, <1>2, <2>1, <2>2
<1>. QED
  BY <1>1, <1>3, <1>4

(* An id is drawn as the second and a suffix: not zero, and not taken.     *)
LEMMA FreshId ==
    ASSUME FeedTypes, NEW id \in FreshIds
    PROVE  id \in LineIds /\ id \notin Ids
<1>1. PICK x \in 0 .. NumSuffix - 1 : id = now * NumSuffix + x /\ id \notin Ids
  BY DEF FreshIds
<1>2. now \in Nat \ {0} /\ NumSuffix \in Nat \ {0} /\ x \in Nat
  BY FeedAssumption DEF FeedTypes
<1>3. now * NumSuffix \in Nat \ {0}
  BY <1>2
<1>4. id \in Nat /\ id # 0
  BY <1>1, <1>2, <1>3
<1>. QED
  BY <1>1, <1>4 DEF LineIds, NoId

LEMMA DrawnType ==
    ASSUME NEW t, NEW event \in EventsBy(t), NEW id \in LineIds
    PROVE  Drawn(event, id) \in RowsBy(t) /\ Drawn(event, id).id = id
<1>1. event.at \in 0 .. t /\ event.long \in BOOLEAN /\ event.quote \in Nat
  BY DEF EventsBy
<1>. HIDE DEF LineIds
<1>. QED
  BY <1>1 DEF Drawn, RowsBy

(* Blocks stay blocks of rows when rows are added.                         *)
LEMMA BlocksStay ==
    ASSUME NEW rows \in Seq(Rows), NEW r \in Rows, NEW lines, NEW full, Blocks(lines, rows, full)
    PROVE  Blocks(lines, Append(rows, r), full)
<1>. DEFINE more == Append(rows, r)
<1>1. \A i \in DOMAIN rows : i \in DOMAIN more /\ more[i] = rows[i]
  OBVIOUS
<1>. HIDE DEF more
<1>2. Blocks(lines, more, full)
  BY <1>1 DEF Blocks
<1>. QED
  BY <1>2 DEF more

LEMMA BlocksOfRows ==
    ASSUME NEW rows \in Seq(Rows), NEW part \in Seq({rows[k] : k \in DOMAIN rows}),
           NEW lines, NEW full, Blocks(lines, part, full)
    PROVE  Blocks(lines, rows, full)
<1>1. \A i \in DOMAIN part : \E k \in DOMAIN rows : part[i] = rows[k]
  OBVIOUS
<1>2. ASSUME NEW k \in 1 .. Len(lines), lines[k].kind = "head"
      PROVE  \E i \in DOMAIN rows :
                \/ lines[k].id = rows[i].id /\ Follows(lines, k, FormatRow(rows[i], full))
                \/ rows[i].quote # NoId /\ lines[k].id = rows[i].quote
  <2>1. PICK i \in DOMAIN part :
           \/ lines[k].id = part[i].id /\ Follows(lines, k, FormatRow(part[i], full))
           \/ part[i].quote # NoId /\ lines[k].id = part[i].quote
    BY <1>2 DEF Blocks
  <2>2. PICK m \in DOMAIN rows : part[i] = rows[m]
    BY <1>1
  <2>. QED
    BY <2>1, <2>2
<1>. QED
  BY <1>2 DEF Blocks

LEMMA FeedInitially == FeedInit => FeedInv
<1>1. SUFFICES ASSUME FeedInit PROVE FeedInv
  OBVIOUS
<1>2. /\ now = 1 /\ waiting = <<>> /\ spool = <<>> /\ log = <<>>
      /\ codex \in BOOLEAN /\ cursor = NoId /\ known = {} /\ history = <<>> /\ sent = <<>>
  BY <1>1 DEF FeedInit
<1>3. <<>> \in Seq(EventsBy(now)) /\ <<>> \in Seq(RowsBy(now)) /\ <<>> \in Seq(Conversed)
      /\ <<>> \in Seq(Results) /\ Len(<<>>) = 0 /\ DOMAIN <<>> = {}
  OBVIOUS
<1>4. FeedTypes
  BY <1>2, <1>3 DEF FeedTypes, NoId
<1>5. DistinctIds /\ KnownStored /\ ReadsShown
  BY <1>2, <1>3 DEF DistinctIds, KnownStored, ReadsShown
<1>6. SentFolded
  <2>1. SubSeq(<<>>, 1, 0) = <<>>
    OBVIOUS
  <2>2. Len(DedupeRequestBody(<<>>)) = 0 /\ DedupeRequestBody(<<>>) \in Seq(Results)
    <3>1. 0 \in 0 .. Len(<<>>)
      BY <1>3
    <3>. QED
      BY <1>3, <2>1, <3>1, BodyPrefix
  <2>3. DedupeRequestBody(<<>>) = <<>>
    BY <2>2
  <2>. QED
    <3>1. Len(sent) = 0 /\ Len(history) = 0 /\ SubSeq(history, 1, Len(sent)) = <<>>
      BY <1>2, <1>3, <2>1
    <3>2. sent = DedupeRequestBody(SubSeq(history, 1, Len(sent)))
      BY <1>2, <2>3, <3>1
    <3>. QED
      BY <3>1, <3>2 DEF SentFolded
<1>. QED
  BY <1>4, <1>5, <1>6 DEF FeedInv
(* A step of the processes: the agent is where it was, and the log has     *)
(* grown by a row at most.                                                 *)
LEMMA AgentWaits ==
    ASSUME FeedInv, UNCHANGED <<agent, sent>>,
           log' = log \/ \E r \in Rows : log' = Append(log, r)
    PROVE  KnownStored' /\ ReadsShown' /\ SentFolded'
<1>1. /\ known' = known /\ history' = history /\ sent' = sent
      /\ log \in Seq(Rows)
  BY LogTypes DEF agent, FeedInv
<1>2. \A k \in DOMAIN log : k \in DOMAIN log' /\ log'[k] = log[k]
  BY <1>1
<1>3. KnownStored'
  BY <1>1, <1>2 DEF FeedInv, KnownStored
<1>4. \A lines, full : Blocks(lines, log, full) => Blocks(lines, log', full)
  BY <1>1, BlocksStay
<1>5. ReadsShown'
  BY <1>1, <1>4 DEF FeedInv, ReadsShown
<1>6. SentFolded'
  BY <1>1 DEF FeedInv, SentFolded
<1>. QED
  BY <1>3, <1>5, <1>6

LEMMA TickKeeps ==
    ASSUME FeedInv, Tick
    PROVE  FeedInv'
<1>1. /\ now \in Nat \ {0} /\ now' = now + 1
      /\ UNCHANGED <<waiting, spool, log, codex, cursor, known, history, sent>>
      /\ FeedTypes /\ DistinctIds
  BY DEF Tick, FeedInv, FeedTypes, agent
<1>2. EventsBy(now) \subseteq EventsBy(now') /\ RowsBy(now) \subseteq RowsBy(now')
  BY <1>1, TypesGrow
<1>3. waiting \in Seq(EventsBy(now')) /\ spool \in Seq(RowsBy(now')) /\ log \in Seq(RowsBy(now'))
  BY <1>1, <1>2, SeqGrows DEF FeedTypes
<1>4. FeedTypes'
  BY <1>1, <1>3 DEF FeedTypes
<1>5. DistinctIds'
  BY <1>1 DEF DistinctIds
<1>6. KnownStored' /\ ReadsShown' /\ SentFolded'
  BY <1>1, AgentWaits DEF agent
<1>. QED
  BY <1>4, <1>5, <1>6 DEF FeedInv

LEMMA CaptureKeeps ==
    ASSUME FeedInv, Capture
    PROVE  FeedInv'
<1>1. UNCHANGED <<now, spool, log, codex, cursor, known, history, sent>> /\ FeedTypes /\ DistinctIds
  BY DEF Capture, FeedInv, agent
<1>2. PICK long \in BOOLEAN, quote \in {NoId} \cup (IF MayQuote THEN Ids ELSE {}) :
         waiting' = Append(waiting, [at |-> now, long |-> long, quote |-> quote])
  BY DEF Capture
<1>3. quote \in Nat
  <2>1. \A k \in DOMAIN log : log[k].id \in Nat
    BY <1>1, LogTypes, RowTypes
  <2>2. \A k \in DOMAIN spool : spool[k].id \in Nat
    <3>1. \A k \in DOMAIN spool : spool[k] \in Rows
      BY <1>1, LogTypes
    <3>. QED
      BY <3>1, RowTypes
  <2>3. Ids \subseteq Nat
    BY <2>1, <2>2 DEF Ids
  <2>. QED
    BY <1>2, <2>3 DEF NoId
<1>4. [at |-> now, long |-> long, quote |-> quote] \in EventsBy(now)
  BY <1>1, <1>2, <1>3 DEF EventsBy, FeedTypes
<1>5. waiting' \in Seq(EventsBy(now))
  BY <1>1, <1>2, <1>4 DEF FeedTypes
<1>6. FeedTypes'
  BY <1>1, <1>5 DEF FeedTypes
<1>7. DistinctIds'
  BY <1>1 DEF DistinctIds
<1>8. KnownStored' /\ ReadsShown' /\ SentFolded'
  BY <1>1, AgentWaits DEF agent
<1>. QED
  BY <1>6, <1>7, <1>8 DEF FeedInv

LEMMA TakenFrom ==
    ASSUME FeedTypes, NEW k \in DOMAIN waiting, NEW id \in FreshIds
    PROVE  /\ RemoveAt(waiting, k) \in Seq(EventsBy(now))
           /\ Drawn(waiting[k], id) \in RowsBy(now) /\ Drawn(waiting[k], id) \in Rows
           /\ Drawn(waiting[k], id).id = id
           /\ \A i \in DOMAIN log : log[i].id # id
           /\ \A i \in DOMAIN spool : spool[i].id # id
<1>1. waiting \in Seq(EventsBy(now)) /\ now \in Nat
  BY DEF FeedTypes
<1>2. RemoveAt(waiting, k) \in Seq(EventsBy(now)) /\ waiting[k] \in EventsBy(now)
  BY <1>1, RemovedType
<1>3. id \in LineIds /\ id \notin Ids
  BY FreshId
<1>4. Drawn(waiting[k], id) \in RowsBy(now) /\ Drawn(waiting[k], id).id = id
  BY <1>2, <1>3, DrawnType
<1>5. Drawn(waiting[k], id) \in Rows
  BY <1>1, <1>4, TypesGrow
<1>. QED
  BY <1>2, <1>3, <1>4, <1>5 DEF Ids

LEMMA StoreKeeps ==
    ASSUME FeedInv, NEW k \in DOMAIN waiting, Store(k)
    PROVE  FeedInv'
<1>1. UNCHANGED <<now, spool, codex, cursor, known, history, sent>> /\ FeedTypes /\ DistinctIds
  BY DEF Store, FeedInv, agent
<1>2. PICK id \in FreshIds : log' = Append(log, Drawn(waiting[k], id))
  BY DEF Store
<1>3. waiting' = RemoveAt(waiting, k)
  BY DEF Store
<1>. DEFINE r == Drawn(waiting[k], id)
<1>4. /\ RemoveAt(waiting, k) \in Seq(EventsBy(now))
      /\ r \in RowsBy(now) /\ r \in Rows /\ r.id = id
      /\ \A i \in DOMAIN log : log[i].id # id
      /\ \A i \in DOMAIN spool : spool[i].id # id
  BY <1>1, TakenFrom
<1>5. log' = Append(log, r)
  BY <1>2
<1>. HIDE DEF r
<1>6. log' \in Seq(RowsBy(now))
  BY <1>1, <1>4, <1>5 DEF FeedTypes
<1>7. FeedTypes'
  BY <1>1, <1>3, <1>4, <1>6 DEF FeedTypes
<1>8. /\ Len(log) \in Nat /\ DOMAIN log = 1 .. Len(log) /\ DOMAIN log' = 1 .. Len(log) + 1
      /\ \A i \in 1 .. Len(log) : log'[i] = log[i]
      /\ log'[Len(log) + 1] = r
  BY <1>1, <1>5 DEF FeedTypes
<1>9. \A i \in DOMAIN log' : (i \in DOMAIN log /\ log'[i] = log[i]) \/ (i = Len(log) + 1 /\ log'[i] = r)
  BY <1>8
<1>10. DistinctIds'
  BY <1>1, <1>4, <1>9 DEF DistinctIds
<1>11. KnownStored' /\ ReadsShown' /\ SentFolded'
  BY <1>1, <1>4, <1>5, AgentWaits DEF agent
<1>. QED
  BY <1>7, <1>10, <1>11 DEF FeedInv

LEMMA SpoolKeeps ==
    ASSUME FeedInv, NEW k \in DOMAIN waiting, Spool(k)
    PROVE  FeedInv'
<1>1. UNCHANGED <<now, log, codex, cursor, known, history, sent>> /\ FeedTypes /\ DistinctIds
  BY DEF Spool, FeedInv, agent
<1>2. PICK id \in FreshIds : spool' = Append(spool, Drawn(waiting[k], id))
  BY DEF Spool
<1>3. waiting' = RemoveAt(waiting, k)
  BY DEF Spool
<1>. DEFINE r == Drawn(waiting[k], id)
<1>4. /\ RemoveAt(waiting, k) \in Seq(EventsBy(now))
      /\ r \in RowsBy(now) /\ r.id = id
      /\ \A i \in DOMAIN log : log[i].id # id
      /\ \A i \in DOMAIN spool : spool[i].id # id
  BY <1>1, TakenFrom
<1>5. spool' = Append(spool, r)
  BY <1>2
<1>. HIDE DEF r
<1>6. spool' \in Seq(RowsBy(now))
  BY <1>1, <1>4, <1>5 DEF FeedTypes
<1>7. FeedTypes'
  BY <1>1, <1>3, <1>4, <1>6 DEF FeedTypes
<1>8. /\ Len(spool) \in Nat /\ DOMAIN spool = 1 .. Len(spool)
      /\ DOMAIN spool' = 1 .. Len(spool) + 1
      /\ \A i \in 1 .. Len(spool) : spool'[i] = spool[i]
      /\ spool'[Len(spool) + 1] = r
  BY <1>1, <1>5 DEF FeedTypes
<1>9. \A i \in DOMAIN spool' :
         (i \in DOMAIN spool /\ spool'[i] = spool[i]) \/ (i = Len(spool) + 1 /\ spool'[i] = r)
  BY <1>8
<1>10. DistinctIds'
  BY <1>1, <1>4, <1>9 DEF DistinctIds
<1>11. KnownStored' /\ ReadsShown' /\ SentFolded'
  BY <1>1, AgentWaits DEF agent
<1>. QED
  BY <1>7, <1>10, <1>11 DEF FeedInv

LEMMA ReplayKeeps ==
    ASSUME FeedInv, Replay
    PROVE  FeedInv'
<1>1. /\ UNCHANGED <<now, waiting, codex, cursor, known, history, sent>>
      /\ FeedTypes /\ DistinctIds /\ spool # <<>>
      /\ log' = Append(log, Head(spool)) /\ spool' = Tail(spool)
  BY DEF Replay, FeedInv, agent
<1>2. spool \in Seq(RowsBy(now)) /\ log \in Seq(RowsBy(now))
  BY <1>1 DEF FeedTypes
<1>3. /\ Len(spool) \in Nat /\ DOMAIN spool = 1 .. Len(spool) /\ 1 \in DOMAIN spool
      /\ Head(spool) = spool[1] /\ Head(spool) \in RowsBy(now)
      /\ spool' \in Seq(RowsBy(now)) /\ DOMAIN spool' = 1 .. Len(spool) - 1
      /\ \A i \in 1 .. Len(spool) - 1 : spool'[i] = spool[i + 1]
  BY <1>1, <1>2
<1>4. /\ Len(log) \in Nat /\ DOMAIN log = 1 .. Len(log) /\ log' \in Seq(RowsBy(now))
      /\ DOMAIN log' = 1 .. Len(log) + 1
      /\ \A i \in 1 .. Len(log) : log'[i] = log[i]
      /\ log'[Len(log) + 1] = spool[1]
  BY <1>1, <1>2, <1>3
<1>5. FeedTypes'
  BY <1>1, <1>3, <1>4 DEF FeedTypes
<1>6. /\ \A i \in DOMAIN log' :
            (i \in DOMAIN log /\ log'[i] = log[i]) \/ (i = Len(log) + 1 /\ log'[i] = spool[1])
      /\ \A i \in DOMAIN spool' : i \in Nat /\ i + 1 \in DOMAIN spool /\ i + 1 # 1 /\ spool'[i] = spool[i + 1]
  BY <1>3, <1>4
<1>7. DistinctIds'
  <2>1. \A i, j \in DOMAIN log' : log'[i].id = log'[j].id => i = j
    BY <1>1, <1>3, <1>6 DEF DistinctIds
  <2>2. ASSUME NEW i \in DOMAIN spool', NEW j \in DOMAIN spool', spool'[i].id = spool'[j].id
        PROVE  i = j
    <3>1. i + 1 = j + 1
      BY <1>1, <1>6, <2>2 DEF DistinctIds
    <3>. QED
      BY <1>6, <3>1
  <2>3. ASSUME NEW i \in DOMAIN log', NEW j \in DOMAIN spool'
        PROVE  log'[i].id # spool'[j].id
    <3>1. j + 1 \in DOMAIN spool /\ j + 1 # 1 /\ spool'[j] = spool[j + 1]
      BY <1>6
    <3>2. spool[1].id # spool[j + 1].id
      BY <1>1, <1>3, <3>1 DEF DistinctIds
    <3>. QED
      BY <1>1, <1>6, <3>1, <3>2 DEF DistinctIds
  <2>. QED
    BY <2>1, <2>2, <2>3 DEF DistinctIds
<1>8. Head(spool) \in Rows
  BY <1>1, <1>3, TypesGrow DEF FeedTypes
<1>9. KnownStored' /\ ReadsShown' /\ SentFolded'
  BY <1>1, <1>8, AgentWaits DEF agent
<1>. QED
  BY <1>5, <1>7, <1>9 DEF FeedInv
(* What the agent's tools write.                                           *)
LEMMA ResultParts ==
    ASSUME codex \in BOOLEAN, NEW lines \in Seq(Shown), NEW exact \in BOOLEAN,
           Has(lines, {"header"}) => lines[1].kind = "header"
    PROVE  Result(lines, exact) \in Conversed /\ Result(lines, exact).lines = lines
<1>. HIDE DEF Shown
<1>1. /\ Result(lines, exact) \in [lines : Seq(Shown), wrapped : BOOLEAN, exact : BOOLEAN]
      /\ Result(lines, exact).lines = lines
  BY DEF Result
<1>. QED
  BY <1>1 DEF Conversed

LEMMA ReadResult ==
    ASSUME FeedTypes, NEW rows \in Seq({log[k] : k \in DOMAIN log}),
           NEW full \in BOOLEAN, NEW exact \in Exactness
    PROVE  LET v == Result(FormatResults(rows, full), exact)
           IN  v \in Conversed /\ Blocks(v.lines, log, full)
<1>1. log \in Seq(Rows) /\ {log[k] : k \in DOMAIN log} \subseteq Rows
  BY LogTypes
<1>2. rows \in Seq(Rows)
  BY <1>1, SeqGrows
<1>. DEFINE lines == FormatResults(rows, full)
<1>3. lines \in Seq(Shown) /\ lines[1].kind = "header" /\ Blocks(lines, rows, full)
  BY <1>2, Formatted
<1>. HIDE DEF lines
<1>4. Blocks(lines, log, full)
  BY <1>1, <1>3, BlocksOfRows
<1>5. codex \in BOOLEAN /\ exact \in BOOLEAN
  BY DEF FeedTypes, Exactness
<1>6. Result(lines, exact) \in Conversed /\ Result(lines, exact).lines = lines
  BY <1>3, <1>5, ResultParts
<1>7. Blocks(Result(lines, exact).lines, log, full)
  BY <1>4, <1>6
<1>. QED
  BY <1>6, <1>7 DEF lines

LEMMA OtherResult ==
    ASSUME FeedTypes, NEW k \in DOMAIN log
    PROVE  LET v == Result(FormatRow(log[k], TRUE), TRUE)
           IN  v \in Conversed /\ ~IsDiscussionResult(v)
<1>. DEFINE lines == FormatRow(log[k], TRUE)
<1>1. log[k] \in Rows /\ codex \in BOOLEAN /\ TRUE \in BOOLEAN
  BY LogTypes DEF FeedTypes
<1>2. lines \in Seq(Shown) /\ ~Has(lines, {"header"})
  BY <1>1, RowBlock
<1>. HIDE DEF lines
<1>3. Result(lines, TRUE) \in Conversed /\ Result(lines, TRUE).lines = lines
  BY <1>1, <1>2, ResultParts
<1>4. ~IsDiscussionResult(Result(lines, TRUE))
  BY <1>2, <1>3 DEF IsDiscussionResult
<1>. QED
  BY <1>3, <1>4 DEF lines

(* A result is added to the conversation.                                  *)
LEMMA ResultAdded ==
    ASSUME FeedInv, UNCHANGED <<stores, codex, sent>>, NEW v \in Conversed,
           history' = Append(history, v),
           IsDiscussionResult(v) => \E full \in BOOLEAN : Blocks(v.lines, log, full),
           cursor' \in Nat, known' \in SUBSET LineIds,
           \A id \in known' : \E k \in DOMAIN log : log[k].id = id
    PROVE  FeedInv'
<1>1. /\ UNCHANGED <<now, waiting, spool, log, codex, sent>>
      /\ FeedTypes /\ DistinctIds /\ ReadsShown /\ SentFolded
      /\ history \in Seq(Conversed) /\ sent \in Seq(Results)
  BY DEF stores, FeedInv, FeedTypes
<1>2. /\ Len(history) \in Nat /\ Len(sent) \in Nat
      /\ DOMAIN history = 1 .. Len(history) /\ DOMAIN history' = 1 .. Len(history) + 1
      /\ Len(history') = Len(history) + 1 /\ history' \in Seq(Conversed)
      /\ \A i \in 1 .. Len(history) : history'[i] = history[i]
      /\ history'[Len(history) + 1] = v
  BY <1>1
<1>3. FeedTypes'
  BY <1>1, <1>2 DEF FeedTypes
<1>4. DistinctIds'
  BY <1>1 DEF DistinctIds
<1>5. KnownStored'
  BY <1>1 DEF KnownStored
<1>6. \A i \in DOMAIN history' :
         (i \in DOMAIN history /\ history'[i] = history[i]) \/ history'[i] = v
  BY <1>2
<1>7. ReadsShown'
  BY <1>1, <1>6 DEF ReadsShown
<1>8. SentFolded'
  <2>1. Len(sent) <= Len(history) /\ sent = DedupeRequestBody(SubSeq(history, 1, Len(sent)))
    BY <1>1 DEF SentFolded
  <2>. DEFINE n == Len(sent)
              was == SubSeq(history, 1, n)
              is == SubSeq(history', 1, n)
  <2>2. n \in Nat /\ n <= Len(history) /\ n <= Len(history')
    BY <1>2, <2>1
  <2>. HIDE DEF n
  <2>3. was \in Seq(Conversed) /\ Len(was) = n /\ \A i \in 1 .. n : was[i] = history[i]
    BY <1>1, <2>2
  <2>4. is \in Seq(Conversed) /\ Len(is) = n /\ \A i \in 1 .. n : is[i] = history'[i]
    BY <1>2, <2>2
  <2>. HIDE DEF was, is
  <2>5. \A i \in 1 .. n : i \in 1 .. Len(history)
    BY <1>2, <2>2
  <2>6. \A i \in 1 .. Len(was) : was[i] = is[i]
    BY <1>2, <2>3, <2>4, <2>5
  <2>7. was = is
    BY <2>3, <2>4, <2>6, SeqEqual
  <2>8. sent' = DedupeRequestBody(is) /\ Len(sent') = n
    BY <1>1, <2>1, <2>7 DEF n, was
  <2>. QED
    BY <2>2, <2>8 DEF SentFolded, is, n
<1>. QED
  BY <1>3, <1>4, <1>5, <1>7, <1>8 DEF FeedInv

LEMMA ReadKeeps ==
    ASSUME FeedInv, NEW after, Read(after)
    PROVE  FeedInv'
<1>. DEFINE rows == ReadDiscussions(after)
<1>1. /\ UNCHANGED <<stores, codex, sent>> /\ rows # <<>>
      /\ cursor' = Last(rows).id
      /\ known' = known \cup {rows[k].id : k \in DOMAIN rows}
      /\ \E full \in BOOLEAN, exact \in Exactness :
            history' = Append(history, Result(FormatResults(rows, full), exact))
  BY DEF Read
<1>2. FeedTypes /\ KnownStored
  BY DEF FeedInv
<1>3. /\ log \in Seq(Rows) /\ now \in Nat /\ \A k \in DOMAIN log : log[k] \in Rows /\ log[k].at <= now
  BY <1>2, LogTypes
<1>4. rows \in Seq({log[k] : k \in DOMAIN log})
  BY <1>3, ReadRows
<1>. HIDE DEF rows
<1>5. PICK full \in BOOLEAN, exact \in Exactness :
         history' = Append(history, Result(FormatResults(rows, full), exact))
  BY <1>1
<1>. DEFINE v == Result(FormatResults(rows, full), exact)
<1>6. v \in Conversed /\ Blocks(v.lines, log, full)
  BY <1>2, <1>4, ReadResult
<1>7. history' = Append(history, v)
  BY <1>5
<1>. HIDE DEF v
<1>8. \A k \in DOMAIN rows : \E m \in DOMAIN log : rows[k] = log[m]
  BY <1>4
<1>9. \A k \in DOMAIN log : log[k].id \in LineIds /\ log[k].id \in Nat
  BY <1>3, RowTypes
<1>10. cursor' \in Nat
  <2>1. Len(rows) \in DOMAIN rows
    BY <1>1, <1>4
  <2>. QED
    BY <1>1, <1>8, <1>9, <2>1 DEF Last
<1>11. known' \in SUBSET LineIds /\ \A id \in known' : \E k \in DOMAIN log : log[k].id = id
  <2>1. \A id \in {rows[k].id : k \in DOMAIN rows} :
           id \in LineIds /\ \E k \in DOMAIN log : log[k].id = id
    BY <1>8, <1>9
  <2>. QED
    BY <1>1, <1>2, <2>1 DEF FeedTypes, KnownStored
<1>. QED
  BY <1>1, <1>6, <1>7, <1>10, <1>11, ResultAdded

(* The row the agent asks for by its id. *)
LEMMA KnownRow ==
    ASSUME FeedInv, NEW id \in known
    PROVE  /\ \E k \in DOMAIN log : Row(id) = log[k]
           /\ Row(id) \in Rows /\ Row(id).id = id
           /\ \A k \in DOMAIN log : log[k].id = id => log[k] = Row(id)
<1>1. FeedTypes /\ KnownStored /\ DistinctIds
  BY DEF FeedInv
<1>2. PICK k \in DOMAIN log : log[k].id = id
  BY <1>1 DEF KnownStored
<1>3. \E r \in {log[i] : i \in DOMAIN log} : r.id = id
  BY <1>2
<1>4. Row(id) \in {log[i] : i \in DOMAIN log} /\ Row(id).id = id
  BY <1>3 DEF Row
<1>5. PICK m \in DOMAIN log : Row(id) = log[m]
  BY <1>4
<1>6. Row(id) \in Rows
  BY <1>1, <1>5, LogTypes
<1>7. ASSUME NEW i \in DOMAIN log, log[i].id = id PROVE log[i] = Row(id)
  <2>1. log[i].id = log[m].id
    BY <1>4, <1>5, <1>7
  <2>2. i = m
    BY <1>1, <2>1 DEF DistinctIds
  <2>. QED
    BY <1>5, <2>2
<1>. QED
  BY <1>4, <1>5, <1>6, <1>7

LEMMA ReadOneKeeps ==
    ASSUME FeedInv, ReadOne
    PROVE  FeedInv'
<1>1. /\ UNCHANGED <<cursor, known>> /\ UNCHANGED <<stores, codex, sent>>
      /\ FeedTypes /\ KnownStored
  BY DEF ReadOne, FeedInv
<1>2. PICK id \in known, exact \in Exactness :
         history' = Append(history, Result(FormatResults(<<Row(id)>>, TRUE), exact))
  BY DEF ReadOne
<1>. DEFINE rows == <<Row(id)>>
            v == Result(FormatResults(rows, TRUE), exact)
<1>3. \E k \in DOMAIN log : Row(id) = log[k]
  BY KnownRow
<1>4. Row(id) \in {log[k] : k \in DOMAIN log}
  BY <1>3
<1>5. rows \in Seq({log[k] : k \in DOMAIN log}) /\ TRUE \in BOOLEAN
  BY <1>4
<1>6. v \in Conversed /\ Blocks(v.lines, log, TRUE)
  BY <1>1, <1>5, ReadResult
<1>7. history' = Append(history, v)
  BY <1>2
<1>. HIDE DEF v
<1>8. /\ cursor' \in Nat /\ known' \in SUBSET LineIds
      /\ \A i \in known' : \E k \in DOMAIN log : log[k].id = i
  BY <1>1 DEF FeedTypes, KnownStored
<1>. QED
  BY <1>1, <1>6, <1>7, <1>8, ResultAdded

LEMMA QueryDatabaseKeeps ==
    ASSUME FeedInv, QueryDatabase
    PROVE  FeedInv'
<1>1. /\ UNCHANGED <<cursor, known>> /\ UNCHANGED <<stores, codex, sent>>
      /\ FeedTypes /\ KnownStored
  BY DEF QueryDatabase, FeedInv
<1>2. PICK k \in DOMAIN log : history' = Append(history, Result(FormatRow(log[k], TRUE), TRUE))
  BY DEF QueryDatabase
<1>. DEFINE v == Result(FormatRow(log[k], TRUE), TRUE)
<1>3. v \in Conversed /\ ~IsDiscussionResult(v)
  BY <1>1, OtherResult
<1>4. history' = Append(history, v)
  BY <1>2
<1>. HIDE DEF v
<1>5. /\ cursor' \in Nat /\ known' \in SUBSET LineIds
      /\ \A i \in known' : \E m \in DOMAIN log : log[m].id = i
  BY <1>1 DEF FeedTypes, KnownStored
<1>. QED
  BY <1>1, <1>3, <1>4, <1>5, ResultAdded

LEMMA ForwardKeeps ==
    ASSUME FeedInv, Forward
    PROVE  FeedInv'
<1>1. /\ UNCHANGED <<now, waiting, spool, log, codex, cursor, known, history>>
      /\ sent' = DedupeRequestBody(history)
      /\ FeedTypes /\ DistinctIds /\ KnownStored /\ ReadsShown
  BY DEF Forward, FeedInv, stores, agent
<1>2. history \in Seq(Conversed) /\ Len(history) \in Nat /\ Len(history) \in 0 .. Len(history)
      /\ SubSeq(history, 1, Len(history)) = history
  BY <1>1 DEF FeedTypes
<1>3. sent' \in Seq(Results) /\ Len(sent') = Len(history)
  BY <1>1, <1>2, BodyPrefix
<1>4. FeedTypes'
  BY <1>1, <1>3 DEF FeedTypes
<1>5. DistinctIds' /\ KnownStored' /\ ReadsShown'
  BY <1>1 DEF DistinctIds, KnownStored, ReadsShown
<1>6. SentFolded'
  <2>1. SubSeq(history', 1, Len(sent')) = history
    BY <1>1, <1>2, <1>3
  <2>2. sent' = DedupeRequestBody(SubSeq(history', 1, Len(sent')))
    BY <1>1, <2>1
  <2>3. Len(sent') <= Len(history')
    BY <1>1, <1>2, <1>3
  <2>. QED
    BY <2>2, <2>3 DEF SentFolded
<1>. QED
  BY <1>4, <1>5, <1>6 DEF FeedInv

(* The invariant, on which the theorems rest.                              *)
THEOREM FeedInvariant == FeedSpec => []FeedInv
<1>1. ASSUME FeedInv, [FeedNext]_feedVars PROVE FeedInv'
  <2>1. CASE Tick
    BY <1>1, <2>1, TickKeeps
  <2>2. CASE Capture
    BY <1>1, <2>2, CaptureKeeps
  <2>3. CASE Replay
    BY <1>1, <2>3, ReplayKeeps
  <2>4. CASE \E k \in DOMAIN waiting : Store(k) \/ Spool(k)
    BY <1>1, <2>4, StoreKeeps, SpoolKeeps
  <2>5. CASE Read(cursor) \/ Read(NoId)
    BY <1>1, <2>5, ReadKeeps
  <2>6. CASE ReadOne
    BY <1>1, <2>6, ReadOneKeeps
  <2>7. CASE QueryDatabase
    BY <1>1, <2>7, QueryDatabaseKeeps
  <2>8. CASE Forward
    BY <1>1, <2>8, ForwardKeeps
  <2>9. CASE UNCHANGED feedVars
    BY <1>1, <2>9 DEF feedVars, stores, agent, FeedInv, FeedTypes, DistinctIds, KnownStored,
          ReadsShown, SentFolded
  <2>. QED
    BY <1>1, <2>1, <2>2, <2>3, <2>4, <2>5, <2>6, <2>7, <2>8, <2>9 DEF FeedNext
<1>. QED
  BY <1>1, FeedInitially, PTL DEF FeedSpec
-----------------------------------------------------------------------------
(* The properties of DiscussionFeed.                                       *)

LEMMA SentBody ==
    ASSUME FeedInv
    PROVE  \E body, ids :
              /\ body \in Seq(Conversed) /\ Len(body) = Len(sent)
              /\ FoldedBody(body, sent, ids)
              /\ \A i \in 1 .. Len(sent) : i \in DOMAIN history /\ body[i] = history[i]
<1>. DEFINE n == Len(sent)
            body == SubSeq(history, 1, n)
<1>1. /\ history \in Seq(Conversed) /\ sent \in Seq(Results)
      /\ n <= Len(history) /\ sent = DedupeRequestBody(body)
  BY DEF FeedInv, FeedTypes, SentFolded
<1>2. n \in Nat /\ Len(history) \in Nat
  BY <1>1
<1>. HIDE DEF n
<1>3. /\ body \in Seq(Conversed) /\ Len(body) = n
      /\ \A i \in 1 .. n : i \in DOMAIN history /\ body[i] = history[i]
  BY <1>1, <1>2
<1>. HIDE DEF body
<1>4. PICK ids : FoldedBody(body, sent, ids)
  BY <1>1, <1>3, BodyFolds
<1>. QED
  BY <1>3, <1>4 DEF n

LEMMA HeadsAre ==
    ASSUME NEW v, v.lines \in Seq(Lines), NEW id, NEW k
    PROVE  k \in HeadsOf(v, id)
             <=> /\ k \in 1 .. Len(v.lines)
                 /\ v.lines[k].kind = "head" /\ v.lines[k].id = id
<1>1. DOMAIN v.lines = 1 .. Len(v.lines) /\ \A i \in 1 .. Len(v.lines) : v.lines[i] \in Lines
  OBVIOUS
<1>2. \A i \in 1 .. Len(v.lines) :
         v.lines[i] = Line("head", id) <=> v.lines[i].kind = "head" /\ v.lines[i].id = id
  BY <1>1, LineIs
<1>. QED
  BY <1>1, <1>2 DEF HeadsOf

LEMMA SentLines ==
    ASSUME FeedInv
    PROVE  /\ \A i \in DOMAIN sent : sent[i].lines \in Seq(Lines)
           /\ \A i \in DOMAIN history : history[i].lines \in Seq(Lines)
           /\ DOMAIN sent = 1 .. Len(sent) /\ Len(sent) \in Nat
<1>1. history \in Seq(Conversed) /\ sent \in Seq(Results)
  BY DEF FeedInv, FeedTypes
<1>2. \A i \in DOMAIN sent : sent[i] \in Results
  BY <1>1
<1>3. \A i \in DOMAIN history : history[i] \in Conversed
  BY <1>1
<1>4. \A i \in DOMAIN history : history[i].lines \in Seq(Lines)
  BY <1>3, ConversedTypes
<1>. QED
  BY <1>1, <1>2, <1>4 DEF Results

(* In what the model receives an id heads a block once, over all results   *)
(* the proxy can change, whatever the agent read again and whatever the    *)
(* rows quote (dedupeTextWithSeen, DedupeDiscussionContent).               *)
THEOREM RowsShownOnce == FeedSpec => []OncePerRequest
<1>1. FeedInv => OncePerRequest
  <2>1. SUFFICES ASSUME FeedInv,
                        NEW i \in DOMAIN sent, NEW j \in DOMAIN sent, NEW id \in Ids,
                        Rewritable(sent[i]), Rewritable(sent[j]),
                        NEW k \in HeadsOf(sent[i], id), NEW m \in HeadsOf(sent[j], id)
                 PROVE  i = j /\ k = m
    BY DEF OncePerRequest
  <2>2. PICK body, ids : /\ body \in Seq(Conversed) /\ Len(body) = Len(sent)
                         /\ FoldedBody(body, sent, ids)
    BY <2>1, SentBody
  <2>3. i \in 1 .. Len(body) /\ j \in 1 .. Len(body)
    BY <2>1, <2>2, SentLines
  <2>4. sent[i].lines \in Seq(Lines) /\ sent[j].lines \in Seq(Lines)
    BY <2>1, SentLines
  <2>5. /\ k \in 1 .. Len(sent[i].lines)
        /\ sent[i].lines[k].kind = "head" /\ sent[i].lines[k].id = id
    BY <2>4, HeadsAre
  <2>6. /\ m \in 1 .. Len(sent[j].lines)
        /\ sent[j].lines[m].kind = "head" /\ sent[j].lines[m].id = id
    BY <2>4, HeadsAre
  <2>. QED
    BY <2>1, <2>2, <2>3, <2>5, <2>6, BodyOnce
<1>. QED
  BY <1>1, FeedInvariant, PTL

(* A placeholder "already shown above" is written only after a block of    *)
(* its id, in the same result or in an earlier one (dedupeTextWithSeen).   *)
THEOREM PlaceholdersBacked == FeedSpec => []PlaceholderBacked
<1>1. FeedInv => PlaceholderBacked
  <2>1. SUFFICES ASSUME FeedInv, NEW i \in DOMAIN sent, NEW k \in DOMAIN sent[i].lines,
                        sent[i].lines[k].kind = "mark"
                 PROVE  \E j \in 1 .. i : \E m \in HeadsOf(sent[j], sent[i].lines[k].id) :
                           IsDiscussionResult(sent[j]) /\ (j < i \/ m < k)
    BY DEF PlaceholderBacked
  <2>2. PICK body, ids : /\ body \in Seq(Conversed) /\ Len(body) = Len(sent)
                         /\ FoldedBody(body, sent, ids)
    BY <2>1, SentBody
  <2>3. /\ DOMAIN sent = 1 .. Len(sent) /\ Len(sent) \in Nat
        /\ \A j \in DOMAIN sent : sent[j].lines \in Seq(Lines)
    BY <2>1, SentLines
  <2>4. i \in 1 .. Len(body) /\ k \in 1 .. Len(sent[i].lines)
    BY <2>2, <2>3
  <2>5. HasBlockBefore(sent, i, k)
    BY <2>1, <2>2, <2>4, BodyBacked
  <2>6. PICK j \in 1 .. i : \E m \in 1 .. Len(sent[j].lines) :
           /\ sent[j].lines[m].kind = "head" /\ sent[j].lines[m].id = sent[i].lines[k].id
           /\ IsDiscussionResult(sent[j]) /\ (j < i \/ m < k)
    BY <2>5 DEF HasBlockBefore
  <2>7. PICK m \in 1 .. Len(sent[j].lines) :
           /\ sent[j].lines[m].kind = "head" /\ sent[j].lines[m].id = sent[i].lines[k].id
           /\ IsDiscussionResult(sent[j]) /\ (j < i \/ m < k)
    BY <2>6
  <2>8. j \in DOMAIN sent
    BY <2>3
  <2>9. m \in HeadsOf(sent[j], sent[i].lines[k].id)
    BY <2>3, <2>7, <2>8, HeadsAre
  <2>. QED
    BY <2>7, <2>9
<1>. QED
  BY <1>1, FeedInvariant, PTL

(* A text that shows a block has it at one of its lines. *)
LEMMA ShowsAt ==
    ASSUME NEW v, v.lines \in Seq(Lines), NEW block \in Seq(Lines), Len(block) > 0
    PROVE  Shows(v, block) <=> \E k \in 1 .. Len(v.lines) : Follows(v.lines, k, block)
<1>. DEFINE ls == v.lines
            n == Len(block)
<1>1. Len(ls) \in Nat /\ n \in Nat /\ n > 0
  OBVIOUS
<1>. HIDE DEF ls
<1>2. ASSUME NEW k \in 1 .. Len(ls) - n + 1
      PROVE  SubSeq(ls, k, k + n - 1) = block <=> Follows(ls, k, block)
  <2>. DEFINE part == SubSeq(ls, k, k + n - 1)
  <2>1. k \in Nat /\ k >= 1 /\ k + n - 1 \in Nat /\ k + n - 1 <= Len(ls) /\ k <= k + n - 1
        /\ (k + n - 1) - k + 1 = n
    BY <1>1
  <2>2. \A j \in 1 .. n : k + j - 1 \in 1 .. Len(ls)
    BY <1>1, <2>1
  <2>3. ls \in Seq(Lines)
    BY DEF ls
  <2>4. part \in Seq(Lines) /\ Len(part) = n /\ \A j \in 1 .. n : part[j] = ls[k + j - 1]
    BY <2>1, <2>2, <2>3
  <2>. HIDE DEF part
  <2>5. part = block => Follows(ls, k, block)
    BY <2>1, <2>4 DEF Follows
  <2>6. Follows(ls, k, block) => part = block
    <3>1. SUFFICES ASSUME Follows(ls, k, block) PROVE part = block
      OBVIOUS
    <3>2. \A j \in 1 .. Len(part) : part[j] = block[j]
      BY <2>4, <3>1 DEF Follows
    <3>. QED
      BY <2>4, <3>2, SeqEqual
  <2>. QED
    BY <2>5, <2>6 DEF part
<1>3. \A k \in 1 .. Len(ls) : Follows(ls, k, block) => k \in 1 .. Len(ls) - n + 1
  BY <1>1 DEF Follows
<1>4. \A k \in 1 .. Len(ls) - n + 1 : k \in 1 .. Len(ls)
  BY <1>1
<1>5. Shows(v, block) <=> \E k \in 1 .. Len(ls) - n + 1 : SubSeq(ls, k, k + n - 1) = block
  BY DEF Shows, ls
<1>6. (\E k \in 1 .. Len(ls) - n + 1 : SubSeq(ls, k, k + n - 1) = block)
        <=> \E k \in 1 .. Len(ls) : Follows(ls, k, block)
  BY <1>2, <1>3, <1>4
<1>. QED
  BY <1>5, <1>6 DEF ls

(* Where no row quotes it, the id of a row begins its blocks only.         *)
LEMMA ShownAsRow ==
    ASSUME FeedInv, NEW id \in known, NotQuoted(id), Row(id).quote = NoId,
           NEW lines, NEW full \in BOOLEAN, Blocks(lines, log, full)
    PROVE  ShownAs(lines, id, FormatRow(Row(id), full))
<1>1. /\ Row(id) \in Rows /\ \A k \in DOMAIN log : log[k].id = id => log[k] = Row(id)
  BY KnownRow
<1>2. IsShowing(FormatRow(Row(id), full))
  BY <1>1, RowBlock
<1>3. ASSUME NEW k \in 1 .. Len(lines), lines[k].kind = "head", lines[k].id = id
      PROVE  Follows(lines, k, FormatRow(Row(id), full))
  <2>1. PICK i \in DOMAIN log :
           \/ lines[k].id = log[i].id /\ Follows(lines, k, FormatRow(log[i], full))
           \/ log[i].quote # NoId /\ lines[k].id = log[i].quote
    BY <1>3 DEF Blocks
  <2>2. log[i].quote # id
    BY DEF NotQuoted
  <2>3. log[i].id = id /\ Follows(lines, k, FormatRow(log[i], full))
    BY <1>3, <2>1, <2>2
  <2>. QED
    BY <1>1, <2>3
<1>. QED
  BY <1>2, <1>3 DEF ShownAs

(* The first showing of a row is sent as it was read, in full or as a      *)
(* preview, when no row quotes the first line of its block.                *)
THEOREM FirstShowingKept == FeedSpec => []FirstKept
<1>1. FeedInv => FirstKept
  <2>1. SUFFICES ASSUME FeedInv, NEW i \in DOMAIN sent, NEW id \in known, NEW full \in BOOLEAN,
                        IsDiscussionResult(history[i]),
                        Shows(history[i], FormatRow(Row(id), full)),
                        \A j \in 1 .. i - 1 :
                           IsDiscussionResult(history[j]) => HeadsOf(history[j], id) = {},
                        NotQuoted(id), Row(id).quote = NoId
                 PROVE  Shows(sent[i], FormatRow(Row(id), full))
    BY DEF FirstKept
  <2>. DEFINE r == Row(id)
              block == FormatRow(r, full)
  <2>2. /\ DOMAIN sent = 1 .. Len(sent) /\ Len(sent) \in Nat
        /\ \A j \in DOMAIN sent : sent[j].lines \in Seq(Lines)
        /\ \A j \in DOMAIN history : history[j].lines \in Seq(Lines)
    BY <2>1, SentLines
  <2>3. PICK body, ids :
           /\ body \in Seq(Conversed) /\ Len(body) = Len(sent)
           /\ FoldedBody(body, sent, ids)
           /\ \A j \in 1 .. Len(sent) : j \in DOMAIN history /\ body[j] = history[j]
    BY <2>1, SentBody
  <2>4. i \in 1 .. Len(sent) /\ i \in 1 .. Len(body) /\ i \in DOMAIN history /\ body[i] = history[i]
    BY <2>2, <2>3
  <2>5. r \in Rows /\ r.id = id
    BY <2>1, KnownRow
  <2>6. /\ block \in Seq(Lines) /\ Len(block) > 1 /\ block[1] = Line("head", id)
    <3>1. block \in Seq(Shown) /\ Len(block) > 1 /\ block[1] = Line("head", r.id)
      BY <2>5, RowBlock
    <3>2. Shown \subseteq Lines
      BY LineTypes
    <3>3. block \in Seq(Lines)
      BY <3>1, <3>2, SeqGrows
    <3>. QED
      BY <2>5, <3>1, <3>3
  <2>7. PICK full2 \in BOOLEAN : Blocks(history[i].lines, log, full2)
    BY <2>1, <2>4 DEF FeedInv, ReadsShown
  <2>. DEFINE other == FormatRow(r, full2)
  <2>8. ShownAs(history[i].lines, id, other)
    BY <2>1, <2>7, ShownAsRow
  <2>. HIDE DEF r, block, other
  <2>9. history[i].lines \in Seq(Lines) /\ sent[i].lines \in Seq(Lines) /\ Len(block) > 0
    BY <2>2, <2>4, <2>6
  <2>10. PICK k \in 1 .. Len(history[i].lines) : Follows(history[i].lines, k, block)
    <3>1. Shows(history[i], block)
      BY <2>1 DEF block, r
    <3>. QED
      BY <2>6, <2>9, <3>1, ShowsAt
  <2>11. /\ history[i].lines[k] = Line("head", id)
         /\ history[i].lines[k + 1] = block[2]
    <3>1. 1 \in 1 .. Len(block) /\ 2 \in 1 .. Len(block) /\ k + 1 - 1 = k /\ k + 2 - 1 = k + 1
      BY <2>6
    <3>2. history[i].lines[k + 1 - 1] = block[1] /\ history[i].lines[k + 2 - 1] = block[2]
      BY <2>10, <3>1 DEF Follows
    <3>. QED
      BY <2>6, <3>1, <3>2
  <2>12. history[i].lines[k].kind = "head" /\ history[i].lines[k].id = id
    BY <2>11, LineParts
  <2>13. Follows(history[i].lines, k, other)
    BY <2>8, <2>12 DEF ShownAs
  <2>14. other = block
    <3>1. Len(other) > 1 /\ Len(other) \in Nat
      BY <2>5, RowBlock DEF other
    <3>2. 2 \in 1 .. Len(other) /\ k + 2 - 1 = k + 1
      BY <3>1
    <3>3. history[i].lines[k + 2 - 1] = other[2]
      BY <2>13, <3>2 DEF Follows
    <3>4. block[2] = other[2]
      BY <2>11, <3>2, <3>3
    <3>5. r.quote = NoId
      BY <2>1 DEF r
    <3>. QED
      BY <2>5, <3>4, <3>5, OneForm DEF block, other
  <2>15. HeadAmong(body[i].lines, Len(body[i].lines), id)
    BY <2>4, <2>12 DEF HeadAmong
  <2>16. ASSUME NEW j \in 1 .. i - 1, IsDiscussionResult(body[j])
         PROVE  ~HeadAmong(body[j].lines, Len(body[j].lines), id)
    <3>1. j \in 1 .. Len(sent)
      BY <2>2, <2>4
    <3>2. j \in DOMAIN history /\ body[j] = history[j] /\ history[j].lines \in Seq(Lines)
      BY <2>2, <2>3, <3>1
    <3>3. HeadsOf(history[j], id) = {}
      BY <2>1, <2>16, <3>2
    <3>4. \A m \in 1 .. Len(history[j].lines) :
             ~(history[j].lines[m].kind = "head" /\ history[j].lines[m].id = id)
      BY <3>2, <3>3, HeadsAre
    <3>. QED
      BY <3>2, <3>4 DEF HeadAmong
  <2>17. IsDiscussionResult(body[i]) /\ ShownAs(body[i].lines, id, other)
    BY <2>1, <2>4, <2>8
  <2>18. \E m \in 1 .. Len(sent[i].lines) : Follows(sent[i].lines, m, other)
    BY <2>3, <2>4, <2>15, <2>16, <2>17, BodyKeeps
  <2>19. Shows(sent[i], block)
    BY <2>6, <2>9, <2>14, <2>18, ShowsAt
  <2>. QED
    BY <2>19 DEF block, r
<1>. QED
  BY <1>1, FeedInvariant, PTL

(* Every request starts with what the request before it sent, so that the  *)
(* folding never breaks the provider's prefix cache.                       *)
THEOREM RequestsExtend == FeedSpec => PrefixKept
<1>1. ASSUME FeedInv, [FeedNext]_feedVars PROVE [IsPrefix(sent, sent')]_sent
  <2>1. CASE Forward
    <3>. DEFINE n == Len(sent)
    <3>1. /\ history \in Seq(Conversed) /\ sent \in Seq(Results)
          /\ n <= Len(history) /\ sent = DedupeRequestBody(SubSeq(history, 1, n))
          /\ sent' = DedupeRequestBody(history)
      BY <1>1, <2>1 DEF FeedInv, FeedTypes, SentFolded, Forward
    <3>2. n \in Nat /\ n \in 0 .. Len(history) /\ Len(history) \in Nat
      BY <3>1
    <3>. HIDE DEF n
    <3>3. /\ sent' \in Seq(Results) /\ Len(sent') = Len(history)
          /\ \A k \in 1 .. n : sent[k] = sent'[k]
      BY <3>1, <3>2, BodyPrefix
    <3>. DEFINE a == SubSeq(sent, 1, n)
                b == SubSeq(sent', 1, n)
    <3>4. a \in Seq(Results) /\ Len(a) = n /\ \A k \in 1 .. n : a[k] = sent[k]
      BY <3>1, <3>2 DEF n
    <3>5. b \in Seq(Results) /\ Len(b) = n /\ \A k \in 1 .. n : b[k] = sent'[k]
      BY <3>2, <3>3
    <3>. HIDE DEF a, b
    <3>6. \A k \in 1 .. Len(a) : a[k] = b[k]
      BY <3>3, <3>4, <3>5
    <3>7. a = b
      BY <3>4, <3>5, <3>6, SeqEqual
    <3>8. Len(sent) <= Len(sent')
      BY <3>1, <3>3 DEF n
    <3>. QED
      BY <3>7, <3>8 DEF IsPrefix, a, b, n
  <2>2. CASE ~Forward
    BY <1>1, <2>2 DEF FeedNext, Tick, Capture, Replay, Store, Spool, Read, ReadOne, QueryDatabase,
          feedVars, stores, agent
  <2>. QED
    BY <2>1, <2>2
<1>. QED
  BY <1>1, FeedInvariant, PTL DEF FeedSpec, PrefixKept
-----------------------------------------------------------------------------
(* The rows are in the database that SchemaUpgrade opens and brings up to  *)
(* date.  What holds of that, for any number of processes, builds, faults  *)
(* and runs of init, and whatever build introduced which object.           *)

(* The set of statements is not empty as long as one is left, and then      *)
(* Current is one of them.                                                  *)
LEMMA LeastOfSeven ==
    ASSUME NEW S \in SUBSET (1..7), S # {}
    PROVE  \E i \in S : \A j \in S : i <= j
<1>1. CASE 1 \in S  BY <1>1
<1>2. CASE 1 \notin S /\ 2 \in S  BY <1>2
<1>3. CASE 1 \notin S /\ 2 \notin S /\ 3 \in S  BY <1>3
<1>4. CASE S \subseteq 4..7
  <2>1. CASE 4 \in S  BY <1>4, <2>1
  <2>2. CASE 4 \notin S /\ 5 \in S  BY <1>4, <2>2
  <2>3. CASE 4 \notin S /\ 5 \notin S /\ 6 \in S  BY <1>4, <2>3
  <2>4. CASE S \subseteq {7}
    <3>1. PICK i \in S : TRUE  OBVIOUS
    <3>2. \A j \in S : i <= j  BY <2>4, <3>1
    <3>. QED  BY <3>2
  <2>. QED  BY <1>4, <2>1, <2>2, <2>3, <2>4
<1>. QED  BY <1>1, <1>2, <1>3, <1>4

LEMMA SevenStatements == DOMAIN Statements = 1..7
BY DEF Statements

LEMMA CurrentIsLeft ==
    ASSUME NEW p \in Procs, left[p] \in SUBSET DOMAIN Statements, left[p] # {}
    PROVE  Current(p) \in left[p]
BY LeastOfSeven, SevenStatements DEF Current

(* Every statement is about objects of the schema. *)
LEMMA StatementTypes ==
    ASSUME NEW i \in DOMAIN Statements
    PROVE  Statements[i].makes \in Objects /\ Statements[i].brings \subseteq Objects
<1>. i \in 1..7  BY SevenStatements
<1>. QED  BY DEF Statements, Objects, Create, CreateIndex, AddColumn, Backfill

(* Every object has its statement: what a build works with is made by its   *)
(* script.                                                                  *)
LEMMA EveryObjectIsMade ==
    ASSUME NEW o \in Objects
    PROVE  \E i \in DOMAIN Statements : Statements[i].makes = o
<1>1. /\ Statements[1].makes = "ideas" /\ Statements[2].makes = "links"
      /\ Statements[3].makes = "links.unique"
      /\ Statements[4].makes = "ideas.current_summary"
      /\ Statements[5].makes = "ideas.backfill"
      /\ Statements[6].makes = "discussion_log"
      /\ Statements[7].makes = "discussion_log.source"
  BY DEF Statements, Create, CreateIndex, AddColumn, Backfill
<1>. QED  BY <1>1, SevenStatements DEF Objects

LEMMA ScriptIsComplete ==
    ASSUME NEW b, NEW S, \A i \in Script(b) : Statements[i].makes \in S
    PROVE  Known(b) \subseteq S
<1>1. SUFFICES ASSUME NEW o \in Known(b) PROVE o \in S
  OBVIOUS
<1>2. PICK i \in DOMAIN Statements : Statements[i].makes = o
  BY EveryObjectIsMade DEF Known
<1>. QED  BY <1>2 DEF Known, Script

-----------------------------------------------------------------------------
(* What is done while a process upgrades: its script without what is left   *)
(* has been run, and a process that was not sent by init had read an older  *)
(* marker.                                                                  *)
Upgrading == {"next", "run", "mark"}

ScriptInv ==
    \A p \in Procs : pc[p] \in Upgrading =>
        /\ \A i \in Script(BuildOf[p]) \ left[p] : Statements[i].makes \in have
        /\ pc[p] = "mark" => left[p] = {}
        /\ pc[p] = "run" => left[p] # {}

SeenInv ==
    \A p \in Procs : pc[p] \in Upgrading /\ op[p] # "init" => seen[p] < BuildOf[p]

SchemaInv == TypeOK /\ ScriptInv /\ SeenInv /\ MarkerIsTruthful /\ OpenedIsUsable

LEMMA SchemaInit == Init => SchemaInv
<1>. SUFFICES ASSUME Init PROVE SchemaInv
  OBVIOUS
<1>. USE SchemaAssumption
<1>1. TypeOK
  <2>1. have \subseteq Objects /\ version \in {0} \cup Builds /\ exists \in BOOLEAN /\ dups \in BOOLEAN
    BY DEF Init, Known
  <2>2. left \in [Procs -> SUBSET DOMAIN Statements]
    BY DEF Init
  <2>. QED  BY <2>1, <2>2 DEF Init, TypeOK
<1>2. MarkerIsTruthful
  <2>1. Known(0) = {}
    BY DEF Known
  <2>. QED  BY <2>1 DEF Init, MarkerIsTruthful
<1>3. ScriptInv /\ SeenInv /\ OpenedIsUsable
  BY DEF Init, ScriptInv, SeenInv, OpenedIsUsable, Upgrading
<1>. QED  BY <1>1, <1>2, <1>3 DEF SchemaInv

-----------------------------------------------------------------------------
(* The steps.  What the database has only grows, and a process changes only *)
(* what is its own.                                                         *)

(* What all steps keep, apart from the process that takes them. *)
Others(p) ==
    \A q \in Procs \ {p} :
        /\ pc'[q] = pc[q] /\ op'[q] = op[q] /\ left'[q] = left[q]
        /\ conn'[q] = conn[q] /\ shared'[q] = shared[q] /\ seen'[q] = seen[q]

(* The part of the invariant that is about one process. *)
Own(p) ==
    /\ pc[p] \in Upgrading =>
        /\ \A i \in Script(BuildOf[p]) \ left[p] : Statements[i].makes \in have
        /\ pc[p] = "mark" => left[p] = {}
        /\ pc[p] = "run" => left[p] # {}
        /\ op[p] # "init" => seen[p] < BuildOf[p]
    /\ "checked" \in {conn[p], shared[p]} => Known(BuildOf[p]) \subseteq have

LEMMA InvByProcess == SchemaInv <=> TypeOK /\ MarkerIsTruthful /\ \A p \in Procs : Own(p)
BY DEF SchemaInv, ScriptInv, SeenInv, OpenedIsUsable, Own

LEMMA OthersKeepTheirs ==
    ASSUME NEW p \in Procs, Others(p), have \subseteq have', \A q \in Procs : Own(q)
    PROVE  \A q \in Procs \ {p} : Own(q)'
BY DEF Others, Own

(* A return takes the process out of the upgrade. *)
LEMMA ReturnOwn ==
    ASSUME TypeOK, NEW p \in Procs, NEW where \in {"idle", "use"}, Return(p, where),
           have \subseteq have', Own(p),
           conn' = conn /\ shared' = shared
    PROVE  Own(p)'
BY DEF TypeOK, Return, Own, Upgrading

LEMMA AnswerOwn ==
    ASSUME TypeOK, NEW p \in Procs, NEW kind \in {"checked", "unchecked"}, Answer(p, kind),
           have \subseteq have', Own(p),
           kind = "checked" => Known(BuildOf[p]) \subseteq have'
    PROVE  Own(p)'
BY DEF TypeOK, Answer, Return, Own, Upgrading

LEMMA EnsureOwn ==
    ASSUME TypeOK, NEW p \in Procs, Ensure(p), have \subseteq have', Own(p),
           op'[p] # "init" => seen'[p] < BuildOf[p]
    PROVE  Own(p)'
<1>1. left'[p] = Script(BuildOf[p]) /\ pc'[p] = "next"
  BY DEF TypeOK, Ensure
<1>. QED  BY <1>1 DEF Ensure, Own, Upgrading

(* A statement is passed when its object is there. *)
LEMMA PassOwn ==
    ASSUME TypeOK, NEW p \in Procs, Pass(p), have \subseteq have', Own(p),
           left[p] # {}, pc[p] \in {"next", "run"},
           Statements[Current(p)].makes \in have'
    PROVE  Own(p)'
<1>1. left'[p] = left[p] \ {Current(p)} /\ pc'[p] = IF left'[p] = {} THEN "mark" ELSE "next"
  BY DEF TypeOK, Pass
<1>2. \A i \in Script(BuildOf[p]) \ left'[p] : Statements[i].makes \in have'
  BY <1>1 DEF Own, Upgrading
<1>. QED  BY <1>1, <1>2 DEF Pass, Own, Upgrading

-----------------------------------------------------------------------------
(* Types and what a step leaves alone, for the parts the actions share.     *)

LEMMA ReturnTypes ==
    ASSUME TypeOK, NEW p \in Procs, NEW where \in {"idle", "use"}, Return(p, where)
    PROVE  /\ pc' \in [Procs -> {"idle", "version", "next", "run", "mark", "use"}]
           /\ op' \in [Procs -> {"open", "shared", "init"}]
           /\ left' \in [Procs -> SUBSET DOMAIN Statements]
           /\ seen' \in [Procs -> {0} \cup Builds]
BY DEF TypeOK, Return

LEMMA AnswerTypes ==
    ASSUME TypeOK, NEW p \in Procs, NEW kind \in {"checked", "unchecked"}, Answer(p, kind),
           exists' \in BOOLEAN, dups' \in BOOLEAN, version' \in {0} \cup Builds,
           have' \subseteq Objects, faults' \in 0..MaxFaults, inits' \in 0..MaxInits
    PROVE  TypeOK' /\ Others(p)
<1>1. PICK where \in {"idle", "use"} : Return(p, where)
  BY DEF Answer
<1>2. conn' \in [Procs -> {"none", "checked", "unchecked"}]
      /\ shared' \in [Procs -> {"none", "checked", "unchecked"}]
  BY DEF TypeOK, Answer
<1>3. TypeOK'
  BY <1>1, <1>2, ReturnTypes DEF TypeOK
<1>. QED  BY <1>1, <1>3 DEF TypeOK, Answer, Return, Others

LEMMA GiveUpTypes ==
    ASSUME TypeOK, NEW p \in Procs, GiveUp(p),
           exists' \in BOOLEAN, dups' \in BOOLEAN, version' \in {0} \cup Builds,
           have' \subseteq Objects, faults' \in 0..MaxFaults, inits' \in 0..MaxInits
    PROVE  TypeOK' /\ Others(p)
<1>1. Return(p, "idle")
  BY DEF GiveUp
<1>2. TypeOK'
  BY <1>1, ReturnTypes DEF TypeOK, GiveUp
<1>. QED  BY <1>1, <1>2 DEF TypeOK, GiveUp, Return, Others

LEMMA FaultTypes ==
    ASSUME TypeOK, Fault \/ NoFault
    PROVE  faults' \in 0..MaxFaults
BY SchemaAssumption DEF TypeOK, Fault, NoFault

(* The invariant after a step of p that leaves the others alone. *)
LEMMA StepOf ==
    ASSUME SchemaInv, NEW p \in Procs, TypeOK', Others(p), have \subseteq have', Own(p)',
           MarkerIsTruthful'
    PROVE  SchemaInv'
<1>1. \A q \in Procs : Own(q)
  BY InvByProcess
<1>2. \A q \in Procs \ {p} : Own(q)'
  BY <1>1, OthersKeepTheirs
<1>3. \A q \in Procs : Own(q)'
  BY <1>2
<1>. QED  BY <1>3 DEF SchemaInv, ScriptInv, SeenInv, OpenedIsUsable, Own

(* The marker holds on if it stays while the objects grow. *)
LEMMA MarkerStays ==
    ASSUME MarkerIsTruthful, version' = version, have \subseteq have'
    PROVE  MarkerIsTruthful'
BY DEF MarkerIsTruthful, Known

-----------------------------------------------------------------------------
LEMMA OpenStep == ASSUME SchemaInv, NEW p \in Procs, Open(p) \/ SharedProject(p) PROVE SchemaInv'
<1>1. Own(p)  BY InvByProcess
<1>2. TypeOK' /\ Others(p) /\ have \subseteq have'
  BY DEF SchemaInv, TypeOK, Open, SharedProject, Begin, Others, file
<1>3. Own(p)'
  BY <1>1 DEF SchemaInv, TypeOK, Open, SharedProject, Begin, Own, Upgrading, file
<1>4. MarkerIsTruthful'
  BY MarkerStays DEF SchemaInv, Open, SharedProject, file
<1>. QED  BY <1>2, <1>3, <1>4, StepOf

LEMMA BootstrapStep == ASSUME SchemaInv, NEW p \in Procs, Bootstrap(p) PROVE SchemaInv'
<1>. USE SchemaAssumption
<1>1. Own(p)  BY InvByProcess
<1>2. Script(BuildOf[p]) \subseteq DOMAIN Statements
  BY DEF Script
<1>3. TypeOK' /\ Others(p) /\ have \subseteq have'
  BY <1>2 DEF SchemaInv, TypeOK, Bootstrap, Begin, Ensure, Others
<1>4. Own(p)'
  BY <1>1, <1>3, EnsureOwn DEF SchemaInv, TypeOK, Bootstrap, Begin
<1>5. MarkerIsTruthful'
  BY <1>3, MarkerStays DEF SchemaInv, Bootstrap
<1>. QED  BY <1>3, <1>4, <1>5, StepOf

LEMMA ReadVersionStep == ASSUME SchemaInv, NEW p \in Procs, ReadVersion(p) PROVE SchemaInv'
<1>. USE SchemaAssumption
<1>1. Own(p) /\ TypeOK /\ MarkerIsTruthful
  BY InvByProcess
<1>2. /\ UNCHANGED <<exists, version, have, dups, inits>>
      /\ exists' \in BOOLEAN /\ dups' \in BOOLEAN /\ version' \in {0} \cup Builds
      /\ have' \subseteq Objects /\ inits' \in 0..MaxInits /\ have \subseteq have'
  BY <1>1 DEF TypeOK, ReadVersion, file
<1>3. MarkerIsTruthful'
  BY <1>1, <1>2, MarkerStays
<1>4. faults' \in 0..MaxFaults
  BY <1>1, FaultTypes DEF ReadVersion
<1>5. CASE GiveUp(p)
  <2>1. TypeOK' /\ Others(p)
    BY <1>1, <1>2, <1>4, <1>5, GiveUpTypes
  <2>2. Own(p)'
    BY <1>1, <1>2, <1>5, ReturnOwn DEF GiveUp
  <2>. QED  BY <1>2, <1>3, <2>1, <2>2, StepOf
<1>6. CASE \/ version = BuildOf[p] /\ Answer(p, "checked")
           \/ Answer(p, "unchecked")
  <2>1. TypeOK' /\ Others(p)
    <3>1. PICK kind \in {"checked", "unchecked"} : Answer(p, kind)
      BY <1>6
    <3>. QED  BY ONLY <1>1, <1>2, <1>4, <3>1, AnswerTypes
  <2>2. ASSUME version = BuildOf[p], Answer(p, "checked") PROVE Own(p)'
    <3>1. Known(BuildOf[p]) \subseteq have'
      BY <1>1, <1>2, <2>2 DEF MarkerIsTruthful
    <3>. QED  BY <1>1, <1>2, <2>2, <3>1, AnswerOwn
  <2>3. ASSUME Answer(p, "unchecked") PROVE Own(p)'
    BY <1>1, <1>2, <2>3, AnswerOwn
  <2>. QED  BY <1>2, <1>3, <1>6, <2>1, <2>2, <2>3, StepOf
<1>7. CASE version < BuildOf[p] /\ ReadMarker(p) /\ Ensure(p) /\ UNCHANGED op
  <2>1. Script(BuildOf[p]) \subseteq DOMAIN Statements
    BY DEF Script
  <2>2. TypeOK' /\ Others(p)
    BY <1>1, <1>2, <1>4, <1>7, <2>1 DEF TypeOK, ReadMarker, Ensure, Others
  <2>3. seen'[p] < BuildOf[p]
    BY <1>1, <1>7 DEF TypeOK, ReadMarker
  <2>4. Own(p)'
    BY <1>1, <1>2, <1>7, <2>3, EnsureOwn
  <2>. QED  BY <1>2, <1>3, <2>2, <2>4, StepOf
<1>. QED  BY <1>5, <1>6, <1>7 DEF ReadVersion, CompareVersion

LEMMA PassTypes ==
    ASSUME TypeOK, NEW p \in Procs, Pass(p),
           UNCHANGED <<exists, version, dups, inits>>,
           have' \subseteq Objects, faults' \in 0..MaxFaults
    PROVE  TypeOK' /\ Others(p)
BY DEF TypeOK, Pass, Others

LEMMA LookStep == ASSUME SchemaInv, NEW p \in Procs, Look(p) PROVE SchemaInv'
<1>1. Own(p) /\ TypeOK /\ MarkerIsTruthful
  BY InvByProcess
<1>2. UNCHANGED <<exists, version, have, dups, inits>> /\ have \subseteq have' /\ have' \subseteq Objects
  BY <1>1 DEF TypeOK, Look, file
<1>3. MarkerIsTruthful'
  BY <1>1, <1>2, MarkerStays
<1>4. faults' \in 0..MaxFaults
  BY <1>1, FaultTypes DEF Look
<1>5. CASE Statements[Current(p)].makes \in have /\ Pass(p)
  <2>1. TypeOK' /\ Others(p)
    BY <1>1, <1>2, <1>4, <1>5, PassTypes
  <2>2. Own(p)'
    BY <1>1, <1>2, <1>5, PassOwn DEF Look
  <2>. QED  BY <1>2, <1>3, <2>1, <2>2, StepOf
<1>6. CASE pc' = [pc EXCEPT ![p] = "run"] /\ UNCHANGED <<op, left, conn, shared, seen>>
  <2>1. TypeOK' /\ Others(p)
    BY <1>1, <1>2, <1>4, <1>6 DEF TypeOK, Others
  <2>2. pc[p] = "next" /\ left[p] # {}
    BY DEF Look
  <2>3. Own(p)'
    BY <1>1, <1>2, <1>6, <2>2 DEF TypeOK, Own, Upgrading
  <2>. QED  BY <1>2, <1>3, <2>1, <2>3, StepOf
<1>. QED  BY <1>5, <1>6 DEF Look

LEMMA RunStep == ASSUME SchemaInv, NEW p \in Procs, Run(p) PROVE SchemaInv'
<1>1. Own(p) /\ TypeOK /\ MarkerIsTruthful
  BY InvByProcess
<1>. DEFINE s == Statements[Current(p)]
<1>2. UNCHANGED <<exists, version, dups, inits>> /\ left[p] # {} /\ pc[p] \in {"next", "run"}
  BY DEF Run
<1>3. Current(p) \in DOMAIN Statements
  BY <1>1, <1>2, CurrentIsLeft DEF TypeOK
<1>4. faults' \in 0..MaxFaults
  BY <1>1, FaultTypes DEF Run, RunStatement
<1>5. CASE Execute(p, s) /\ Pass(p)
  <2>1. s.makes \in Objects /\ s.brings \subseteq Objects
    BY <1>3, StatementTypes
  <2>2. have \subseteq have' /\ have' \subseteq Objects /\ s.makes \in have'
    BY <1>1, <1>5, <2>1 DEF TypeOK, Execute, Effect
  <2>3. TypeOK' /\ Others(p)
    BY <1>1, <1>2, <1>4, <1>5, <2>2, PassTypes
  <2>4. Own(p)'
    BY <1>1, <1>2, <1>5, <2>2, PassOwn
  <2>. QED  BY <1>1, <1>2, <2>2, <2>3, <2>4, MarkerStays, StepOf
<1>6. CASE GiveUp(p) /\ UNCHANGED have
  <2>1. TypeOK' /\ Others(p)
    BY <1>1, <1>2, <1>4, <1>6, GiveUpTypes DEF TypeOK
  <2>2. Own(p)'
    BY <1>1, <1>6, ReturnOwn DEF GiveUp
  <2>. QED  BY <1>1, <1>2, <1>6, <2>1, <2>2, MarkerStays, StepOf
<1>. QED  BY <1>5, <1>6 DEF Run, RunStatement

LEMMA MarkStep == ASSUME SchemaInv, NEW p \in Procs, Mark(p) PROVE SchemaInv'
<1>. USE SchemaAssumption
<1>1. Own(p) /\ TypeOK /\ MarkerIsTruthful
  BY InvByProcess
<1>2. UNCHANGED <<exists, have, dups, inits>> /\ pc[p] = "mark"
  BY DEF Mark
<1>3. faults' \in 0..MaxFaults
  BY <1>1, FaultTypes DEF Mark
<1>4. Known(BuildOf[p]) \subseteq have
  <2>1. \A i \in Script(BuildOf[p]) : Statements[i].makes \in have
    BY <1>1, <1>2 DEF Own, Upgrading
  <2>. QED  BY <2>1, ScriptIsComplete
<1>5. CASE version' = BuildOf[p] /\ Answer(p, "checked")
  <2>1. version' \in {0} \cup Builds /\ MarkerIsTruthful'
    BY <1>2, <1>4, <1>5 DEF Builds, MarkerIsTruthful, Known
  <2>2. TypeOK' /\ Others(p)
    BY <1>1, <1>2, <1>3, <1>5, <2>1, AnswerTypes DEF TypeOK
  <2>3. Own(p)'
    BY <1>1, <1>2, <1>4, <1>5, AnswerOwn
  <2>. QED  BY <1>2, <2>1, <2>2, <2>3, StepOf
<1>6. CASE GiveUp(p) /\ UNCHANGED version
  <2>1. TypeOK' /\ Others(p)
    BY <1>1, <1>2, <1>3, <1>6, GiveUpTypes DEF TypeOK
  <2>2. Own(p)'
    BY <1>1, <1>2, <1>6, ReturnOwn DEF GiveUp
  <2>. QED  BY <1>1, <1>2, <1>6, <2>1, <2>2, MarkerStays, StepOf
<1>. QED  BY <1>5, <1>6 DEF Mark

LEMMA CloseStep == ASSUME SchemaInv, NEW p \in Procs, Close(p) PROVE SchemaInv'
<1>1. Own(p)  BY InvByProcess
<1>2. TypeOK' /\ Others(p) /\ have \subseteq have'
  BY DEF SchemaInv, TypeOK, Close, Others, file
<1>3. Own(p)'
  BY <1>1 DEF SchemaInv, TypeOK, Close, Own, Upgrading, file
<1>4. MarkerIsTruthful'
  BY MarkerStays DEF SchemaInv, Close, file
<1>. QED  BY <1>2, <1>3, <1>4, StepOf

LEMMA DieStep == ASSUME SchemaInv, NEW p \in Procs, Die(p) PROVE SchemaInv'
<1>1. Own(p) /\ TypeOK /\ MarkerIsTruthful
  BY InvByProcess
<1>2. UNCHANGED <<exists, version, have, dups, inits>> /\ have \subseteq have' /\ Return(p, "idle")
  BY DEF Die, file
<1>3. faults' \in 0..MaxFaults
  BY <1>1, FaultTypes DEF Die
<1>4. TypeOK'
  BY <1>1, <1>2, <1>3, ReturnTypes DEF TypeOK, Die
<1>5. Others(p)
  BY <1>1 DEF TypeOK, Die, Return, Others
<1>6. Own(p)'
  BY <1>1 DEF TypeOK, Die, Return, Own, Upgrading
<1>7. MarkerIsTruthful'
  BY <1>1, <1>2, MarkerStays
<1>. QED  BY <1>2, <1>4, <1>5, <1>6, <1>7, StepOf

LEMMA SchemaStep == SchemaInv /\ [Next]_vars => SchemaInv'
<1>. SUFFICES ASSUME SchemaInv, [Next]_vars PROVE SchemaInv'
  OBVIOUS
<1>1. CASE UNCHANGED vars
  BY <1>1 DEF SchemaInv, TypeOK, ScriptInv, SeenInv, MarkerIsTruthful, OpenedIsUsable, vars, file
<1>2. ASSUME NEW p \in Procs, Open(p) \/ SharedProject(p) \/ Bootstrap(p) \/ Step(p) \/ Die(p)
      PROVE  SchemaInv'
  BY <1>2, OpenStep, BootstrapStep, ReadVersionStep, LookStep, RunStep, MarkStep, CloseStep, DieStep
     DEF Step
<1>. QED  BY <1>1, <1>2 DEF Next

THEOREM SchemaInvariant == Spec => []SchemaInv
BY SchemaInit, SchemaStep, PTL DEF Spec

(* The variables have their types. *)
THEOREM SchemaTypes == Spec => []TypeOK
<1>1. SchemaInv => TypeOK  BY DEF SchemaInv
<1>. QED  BY <1>1, SchemaInvariant, PTL

(* The marker never promises more than the database has (EnsureSchema sets  *)
(* it last), with any number of processes that upgrade, init and die.       *)
THEOREM MarkerTruthful == Spec => []MarkerIsTruthful
<1>1. SchemaInv => MarkerIsTruthful  BY DEF SchemaInv
<1>. QED  BY <1>1, SchemaInvariant, PTL

(* A checked connection finds the whole schema of its build, as long as it  *)
(* is kept (openAt, SharedProject).                                         *)
THEOREM OpenedUsable == Spec => []OpenedIsUsable
<1>1. SchemaInv => OpenedIsUsable  BY DEF SchemaInv
<1>. QED  BY <1>1, SchemaInvariant, PTL

(* Opening a database lowers its marker only if a newer build raised it     *)
(* after the process had read it (EnsureSchemaIfNeeded refuses otherwise).  *)
THEOREM OverlapLowersMarker == Spec => OnlyOverlapLowersMarker
<1>. USE SchemaAssumption
<1>1. ASSUME SchemaInv, Next, version' < version
      PROVE  \E p \in Procs : pc[p] = "mark" /\ (op[p] = "init" \/ seen[p] # version)
  <2>1. PICK p \in Procs : Mark(p) /\ version' = BuildOf[p]
    BY <1>1 DEF Next, Step, Open, SharedProject, Bootstrap, ReadVersion, Look, Run, Mark, Close, Die,
                file, SchemaInv, TypeOK, Builds
  <2>2. pc[p] = "mark"
    BY <2>1 DEF Mark
  <2>3. op[p] # "init" => seen[p] < BuildOf[p]
    BY <1>1, <2>2 DEF SchemaInv, SeenInv, Upgrading
  <2>4. version \in Nat /\ seen[p] \in Nat /\ BuildOf[p] \in Nat
    BY <1>1 DEF SchemaInv, TypeOK, Builds
  <2>. QED  BY <1>1, <2>1, <2>2, <2>3, <2>4
<1>2. SchemaInv /\ [Next]_vars =>
        [version' < version =>
            \E p \in Procs : pc[p] = "mark" /\ (op[p] = "init" \/ seen[p] # version)]_vars
  BY <1>1
<1>. QED  BY <1>2, SchemaInvariant, PTL DEF Spec, OnlyOverlapLowersMarker

=============================================================================
