------------------------- MODULE SessionPipelineProofs -------------------------
(***************************************************************************)
(* Theorems about SessionPipeline, for any number of daemons and command   *)
(* lines, sessions, rows, commits and faults.                              *)
(***************************************************************************)
EXTENDS SessionPipeline, FiniteSetTheorems, WellFoundedInduction, TLAPS

-----------------------------------------------------------------------------
(* Least and greatest elements of bounded sets of numbers.                 *)

LEMMA LeastNat ==
    ASSUME NEW T \in SUBSET Nat, T # {}
    PROVE  \E x \in T : \A y \in T : x <= y
<1>1. PICK x \in T : \A y \in T : ~(<<y, x>> \in OpToRel(<, Nat))
  BY WFMin, NatLessThanWellFounded
<1>2. ASSUME NEW y \in T PROVE x <= y
  <2>1. SUFFICES ASSUME y < x PROVE FALSE  OBVIOUS
  <2>2. <<y, x>> \in OpToRel(<, Nat)  BY <2>1 DEF OpToRel
  <2>. QED  BY <1>1, <2>2
<1>. QED  BY <1>2

LEMMA GreatestNat ==
    ASSUME NEW T \in SUBSET Nat, T # {}, NEW n \in Nat, \A y \in T : y <= n
    PROVE  \E x \in T : \A y \in T : x >= y
<1>. DEFINE U == {m \in Nat : \A y \in T : y <= m}
<1>1. PICK m \in U : \A u \in U : m <= u
  BY LeastNat
<1>2. m \in T
  <2>1. SUFFICES ASSUME m \notin T PROVE FALSE  OBVIOUS
  <2>2. \A y \in T : y < m  BY <2>1
  <2>3. PICK z \in T : TRUE  OBVIOUS
  <2>4. m \in Nat /\ z \in Nat /\ z < m  BY <2>2
  <2>5. m - 1 \in Nat /\ m - 1 < m  BY <2>4
  <2>6. \A y \in T : y <= m - 1  BY <2>2, <2>4
  <2>7. m - 1 \in U  BY <2>5, <2>6
  <2>. QED  BY <1>1, <2>4, <2>5, <2>7
<1>. QED  BY <1>2

(* The hull of a set of instants reaches every one of them.                *)
LEMMA HullReaches ==
    ASSUME NEW T \in SUBSET Nat, NEW i \in T, NEW j \in T,
           NEW n \in Nat, \A y \in T : y <= n
    PROVE  /\ Min(T) \in T /\ Max(T) \in T
           /\ Min(T) <= i /\ Max(T) >= j
<1>1. \E x \in T : \A y \in T : x <= y  BY LeastNat
<1>2. \E x \in T : \A y \in T : x >= y  BY GreatestNat
<1>3. Min(T) \in T /\ \A y \in T : Min(T) <= y  BY <1>1 DEF Min
<1>4. Max(T) \in T /\ \A y \in T : Max(T) >= y  BY <1>2 DEF Max
<1>. QED  BY <1>3, <1>4

-----------------------------------------------------------------------------
(* The inductive invariant.                                                *)

Rows == [kind : {"user", "tool", "mcp"}, session : AllSessions, at : Nat, files : SUBSET Files]

LogType ==
    /\ now \in Nat /\ log \in Seq(Rows)
    /\ \A k \in DOMAIN log : log[k].at <= now

JobType ==
    /\ DOMAIN pc = Runners /\ DOMAIN job = Runners
    /\ \A r \in Runners : DOMAIN job[r] = DOMAIN NoJob

(* What a runner found out about a session still holds, because a row never *)
(* leaves its session: the rows that gave its first and last instant.       *)
Sound(a) ==
    /\ a \in [session : AllSessions, first : Nat, last : Nat] /\ a.first <= a.last
    /\ a.session \in Sessions =>
         \E i, j \in RowsOf(a.session) : log[i].at = a.first /\ log[j].at = a.last

AnchorsSound == \A r \in Runners : \A a \in job[r].anchors : Sound(a)

(* A bound row has two other rows of its session, of the first and the     *)
(* last instant the runner that bound it knew.                             *)
WellBound(k) ==
    \E i, j \in RowsOf(log[k].session) \ {k} :
        /\ log[i].at <= log[j].at
        /\ Distance([first |-> log[i].at, last |-> log[j].at], log[k].at) <= Window

IsBound(k) == log[k].kind = "mcp" /\ log[k].session \in Sessions

Witnessed == \A k \in DOMAIN log : IsBound(k) => WellBound(k)

PipelineInv == LogType /\ JobType /\ AnchorsSound /\ Witnessed

(* What every step does with the rows there are. *)
RowsKept ==
    \A k \in DOMAIN log :
        /\ k \in DOMAIN log'
        /\ log'[k].kind = log[k].kind /\ log'[k].at = log[k].at
        /\ log[k].session \in Sessions => log'[k].session = log[k].session

-----------------------------------------------------------------------------
(* Jobs.                                                                   *)

LEMMA NoJobShape ==
    /\ NoJob.anchors = {}
    /\ DOMAIN NoJob = {"ai", "tries", "anchors", "orphans", "merged", "todo", "at",
                       "found", "soft", "linking"}
BY DEF NoJob

(* A job whose anchors are sound may take the place of another. *)
LEMMA GotoKeeps ==
    ASSUME JobType, AnchorsSound, RowsKept,
           \A a : Sound(a) => Sound(a)',
           NEW r \in Runners, NEW place, NEW j, Goto(r, place, j),
           DOMAIN j = DOMAIN NoJob, \A a \in j.anchors : Sound(a)'
    PROVE  JobType' /\ AnchorsSound'
<1>1. DOMAIN pc' = Runners /\ DOMAIN job' = Runners  BY DEF Goto, JobType
<1>2. \A q \in Runners : job'[q] = IF q = r THEN j ELSE job[q]  BY DEF Goto, JobType
<1>3. (DOMAIN NoJob)' = DOMAIN NoJob  BY DEF NoJob
<1>4. JobType'  BY <1>1, <1>2, <1>3 DEF JobType
<1>5. AnchorsSound'  BY <1>2 DEF AnchorsSound
<1>. QED  BY <1>4, <1>5

(* Soundness survives what every step does with the rows. *)
LEMMA SoundStays ==
    ASSUME RowsKept, NEW a, Sound(a)
    PROVE  Sound(a)'
<1>1. a \in [session : AllSessions, first : Nat, last : Nat] /\ a.first <= a.last
  BY DEF Sound
<1>2. CASE a.session \in Sessions
  <2>1. PICK i \in RowsOf(a.session), j \in RowsOf(a.session) : log[i].at = a.first /\ log[j].at = a.last
    BY <1>2 DEF Sound
  <2>2. i \in RowsOf(a.session)' /\ j \in RowsOf(a.session)'
    BY <1>2, <2>1 DEF RowsKept, RowsOf
  <2>3. log'[i].at = a.first /\ log'[j].at = a.last
    BY <2>1 DEF RowsKept, RowsOf
  <2>. QED  BY <1>1, <2>2, <2>3 DEF Sound, AllSessions
<1>3. CASE a.session \notin Sessions  BY <1>1, <1>3 DEF Sound, AllSessions
<1>. QED  BY <1>2, <1>3

-----------------------------------------------------------------------------
(* Rows.                                                                   *)

LEMMA QuietRows ==
    ASSUME LogType, Witnessed, UNCHANGED <<now, log>>
    PROVE  LogType' /\ Witnessed' /\ RowsKept
BY DEF LogType, Witnessed, IsBound, WellBound, RowsKept, RowsOf, Distance

(* A bound row stays as well placed as it was. *)
LEMMA WitnessStays ==
    ASSUME RowsKept, NEW k \in DOMAIN log, log[k].session \in Sessions, WellBound(k)
    PROVE  WellBound(k)'
<1>1. PICK i \in RowsOf(log[k].session) \ {k}, j \in RowsOf(log[k].session) \ {k} :
        /\ log[i].at <= log[j].at
        /\ Distance([first |-> log[i].at, last |-> log[j].at], log[k].at) <= Window
  BY DEF WellBound
<1>2. /\ i \in DOMAIN log' /\ log'[i].session = log'[k].session
      /\ j \in DOMAIN log' /\ log'[j].session = log'[k].session
  BY <1>1 DEF RowsKept, RowsOf
<1>3. log'[i].at = log[i].at /\ log'[j].at = log[j].at /\ log'[k].at = log[k].at
  BY <1>1 DEF RowsKept, RowsOf
<1>. QED  BY <1>1, <1>2, <1>3 DEF WellBound, RowsOf, Distance

LEMMA PostKeeps ==
    ASSUME LogType, Witnessed, Post
    PROVE  LogType' /\ Witnessed' /\ RowsKept
<1>1. PICK t \in now .. MaxInstant, p \in Posts :
        /\ now' = t
        /\ log' = Append(log, [kind |-> p.kind, session |-> p.session, at |-> t, files |-> p.files])
  BY DEF Post
<1>. DEFINE row == [kind |-> p.kind, session |-> p.session, at |-> t, files |-> p.files]
<1>2. t \in Nat /\ now <= t /\ row \in Rows
  BY PipelineAssumption DEF LogType, Rows, AllSessions
<1>3. log \in Seq(Rows) /\ log' \in Seq(Rows) /\ Len(log') = Len(log) + 1
  BY <1>1, <1>2 DEF LogType
<1>4. /\ DOMAIN log = 1 .. Len(log) /\ DOMAIN log' = 1 .. Len(log) + 1
      /\ log'[Len(log) + 1] = row
      /\ \A k \in DOMAIN log : log'[k] = log[k]
  BY <1>1, <1>3
<1>5. RowsKept  BY <1>3, <1>4 DEF RowsKept
<1>6. LogType'
  <2>1. now' \in Nat /\ now <= now' /\ now \in Nat  BY <1>1, <1>2 DEF LogType
  <2>2. ASSUME NEW k \in DOMAIN log PROVE log[k].at \in Nat /\ log[k].at <= now
    <3>1. log[k] \in Rows  BY <1>3, <1>4
    <3>. QED  BY <3>1 DEF LogType, Rows
  <2>3. log'[Len(log) + 1].at = now'  BY <1>1, <1>4
  <2>4. ASSUME NEW k \in DOMAIN log' PROVE log'[k].at <= now'
    <3>1. CASE k = Len(log) + 1  BY <2>1, <2>3, <3>1
    <3>2. CASE k # Len(log) + 1
      <4>1. k \in DOMAIN log  BY <1>3, <1>4, <3>2
      <4>. QED  BY <1>4, <2>1, <2>2, <4>1
    <3>. QED  BY <3>1, <3>2
  <2>. QED  BY <1>3, <2>1, <2>4 DEF LogType
<1>7. ASSUME NEW k \in DOMAIN log', IsBound(k)' PROVE WellBound(k)'
  <2>1. row.kind = "mcp" => row.session \notin Sessions
    BY PipelineAssumption
  <2>2. k \in DOMAIN log  BY <1>3, <1>4, <1>7, <2>1 DEF IsBound
  <2>3. IsBound(k)  BY <1>4, <1>7, <2>2 DEF IsBound
  <2>. QED  BY <1>5, <2>2, <2>3, WitnessStays DEF Witnessed, IsBound
<1>8. Witnessed'  BY <1>7 DEF Witnessed
<1>. QED  BY <1>5, <1>6, <1>8

(* The session a row is bound to is near it, and its anchors are sound. *)
LEMMA BindKeeps ==
    ASSUME LogType, Witnessed, NEW a, Sound(a), NEW k,
           a \in Near({a}, log[k].at), Bind(k, a.session), UNCHANGED now
    PROVE  LogType' /\ Witnessed' /\ RowsKept
<1>1. CASE k \notin DOMAIN log \/ log[k].session # Unknown
  <2>1. log' = log
    BY <1>1 DEF Bind, LogType
  <2>. QED  BY <2>1, QuietRows
<1>2. CASE k \in DOMAIN log /\ log[k].session = Unknown
  <2>1. log' = [log EXCEPT ![k].session = a.session]  BY <1>2 DEF Bind
  <2>2. /\ log \in Seq(Rows) /\ DOMAIN log = 1 .. Len(log)
        /\ \A n \in DOMAIN log : log[n] \in Rows
    BY DEF LogType
  <2>3. /\ DOMAIN log' = DOMAIN log
        /\ \A n \in DOMAIN log : n # k => log'[n] = log[n]
        /\ log'[k] = [log[k] EXCEPT !.session = a.session]
    BY <1>2, <2>1, <2>2
  <2>4. a \in [session : AllSessions, first : Nat, last : Nat]  BY DEF Sound
  <2>5. /\ log'[k].kind = log[k].kind /\ log'[k].at = log[k].at
        /\ log'[k].session = a.session /\ log'[k] \in Rows
    BY <1>2, <2>2, <2>3, <2>4 DEF Rows
  <2>6. RowsKept  BY <1>2, <2>3, <2>5, PipelineAssumption DEF RowsKept
  <2>7. LogType'
    <3>1. log' \in [1 .. Len(log) -> Rows]
      BY <2>1, <2>2, <2>3, <2>5
    <3>2. log' \in Seq(Rows)  BY <2>2, <3>1
    <3>. QED  BY <1>2, <2>3, <2>5, <3>2 DEF LogType
  <2>8. ASSUME NEW n \in DOMAIN log', IsBound(n)' PROVE WellBound(n)'
    <3>1. CASE n = k
      <4>1. PICK i \in RowsOf(a.session), j \in RowsOf(a.session) :
              log[i].at = a.first /\ log[j].at = a.last
        BY <2>5, <2>8, <3>1 DEF Sound, IsBound
      <4>2. i # k /\ j # k
        BY <1>2, <2>5, <2>8, <3>1, <4>1, PipelineAssumption DEF RowsOf, IsBound
      <4>3. /\ i \in DOMAIN log' /\ log'[i].session = log'[k].session
            /\ j \in DOMAIN log' /\ log'[j].session = log'[k].session
        BY <2>3, <2>5, <4>1, <4>2 DEF RowsOf
      <4>4. log'[i].at = a.first /\ log'[j].at = a.last
        BY <2>3, <4>1, <4>2 DEF RowsOf
      <4>5. Distance(a, log[k].at) <= Window /\ a.first <= a.last  BY DEF Near, Sound
      <4>. QED  BY <2>5, <3>1, <4>2, <4>3, <4>4, <4>5 DEF WellBound, RowsOf, Distance
    <3>2. CASE n # k
      <4>1. n \in DOMAIN log /\ IsBound(n)  BY <2>3, <2>8, <3>2 DEF IsBound
      <4>. QED  BY <2>6, <4>1, WitnessStays DEF Witnessed, IsBound
    <3>. QED  BY <3>1, <3>2
  <2>9. Witnessed'  BY <2>8 DEF Witnessed
  <2>. QED  BY <2>6, <2>7, <2>9
<1>. QED  BY <1>1, <1>2

-----------------------------------------------------------------------------
(* Steps.                                                                  *)

LEMMA StepKeeps ==
    ASSUME PipelineInv, LogType', Witnessed', RowsKept,
           NEW r \in Runners, NEW place, NEW j, Goto(r, place, j),
           DOMAIN j = DOMAIN NoJob, \A a \in j.anchors : Sound(a) \/ a \in job[r].anchors
    PROVE  PipelineInv'
<1>1. \A a : Sound(a) => Sound(a)'  BY SoundStays
<1>2. \A a \in j.anchors : Sound(a)'  BY <1>1 DEF PipelineInv, AnchorsSound
<1>3. JobType' /\ AnchorsSound'  BY <1>1, <1>2, GotoKeeps DEF PipelineInv
<1>. QED  BY <1>3 DEF PipelineInv

LEMMA QuietStepKeeps ==
    ASSUME PipelineInv, UNCHANGED <<now, log>>,
           NEW r \in Runners, NEW place, NEW j, Goto(r, place, j),
           DOMAIN j = DOMAIN NoJob, \A a \in j.anchors : Sound(a) \/ a \in job[r].anchors
    PROVE  PipelineInv'
BY QuietRows, StepKeeps DEF PipelineInv

(* A runner goes on with the job it has, or with one that knows nothing. *)
LEMMA FreshStepKeeps ==
    ASSUME PipelineInv, UNCHANGED <<now, log>>,
           NEW r \in Runners, NEW place, NEW j, Goto(r, place, j),
           DOMAIN j = DOMAIN NoJob, j.anchors \subseteq job[r].anchors
    PROVE  PipelineInv'
BY QuietStepKeeps

LEMMA FailKeeps ==
    ASSUME PipelineInv, UNCHANGED <<now, log>>, NEW r \in Runners, NEW place, Fail(r, place)
    PROVE  PipelineInv'
<1>1. CASE Goto(r, place, [NoJob EXCEPT !.ai = job[r].ai, !.tries = job[r].tries + 1])
  <2>. DEFINE j == [NoJob EXCEPT !.ai = job[r].ai, !.tries = job[r].tries + 1]
  <2>1. DOMAIN j = DOMAIN NoJob /\ j.anchors = {}  BY DEF NoJob
  <2>. QED  BY <1>1, <2>1, FreshStepKeeps
<1>2. CASE Goto(r, IF place = "scan" THEN NextPart(r)
                   ELSE IF r \in Daemons THEN "idle" ELSE "gone", NoJob)
  BY <1>2, NoJobShape, FreshStepKeeps
<1>. QED  BY <1>1, <1>2 DEF Fail

LEMMA AnchorsAreSound ==
    ASSUME LogType, NEW a \in Anchors
    PROVE  Sound(a)
<1>1. PICK s \in AllSessions : /\ \E k \in RowsOf(s) : log[k].kind = "user"
                               /\ a = [session |-> s, first |-> Min(Times(s)), last |-> Max(Times(s))]
  BY DEF Anchors
<1>2. \A k \in RowsOf(s) : log[k].at \in Nat /\ log[k].at <= now
  <2>1. \A k \in DOMAIN log : log[k] \in Rows  BY DEF LogType
  <2>. QED  BY <2>1 DEF LogType, RowsOf, Rows
<1>3. PICK t \in Times(s) : TRUE  BY <1>1 DEF Times
<1>4. Times(s) \in SUBSET Nat /\ \A t1 \in Times(s) : t1 <= now
  BY <1>2 DEF Times
<1>5. now \in Nat  BY DEF LogType
<1>6. /\ Min(Times(s)) \in Times(s) /\ Max(Times(s)) \in Times(s)
      /\ Min(Times(s)) <= t /\ t <= Max(Times(s))
  BY <1>3, <1>4, <1>5, HullReaches
<1>7. PICK i \in RowsOf(s), j \in RowsOf(s) : log[i].at = Min(Times(s)) /\ log[j].at = Max(Times(s))
  BY <1>6 DEF Times
<1>. QED  BY <1>1, <1>4, <1>6, <1>7 DEF Sound

LEMMA MergeKeeps ==
    ASSUME PipelineInv, NEW r \in Runners, Merge(r)
    PROVE  PipelineInv' /\ RowsKept
<1>. DEFINE k == Head(job[r].orphans)
            rest == [job[r] EXCEPT !.orphans = Tail(job[r].orphans)]
            bound(a) == [rest EXCEPT !.merged = @ \cup {<<a.session, k>>}]
<1>1. DOMAIN rest = DOMAIN NoJob /\ rest.anchors = job[r].anchors
  BY NoJobShape DEF PipelineInv, JobType
<1>2. ASSUME NEW a
      PROVE DOMAIN bound(a) = DOMAIN NoJob /\ bound(a).anchors = job[r].anchors
  BY <1>1, NoJobShape
<1>3. now' = now  BY DEF Merge
<1>4. CASE Goto(r, "merge", rest) /\ UNCHANGED <<log, faults>>
  BY <1>1, <1>3, <1>4, FreshStepKeeps, QuietRows DEF PipelineInv
<1>5. ASSUME NEW a \in Best(job[r].anchors, log[k].at), Goto(r, "merge", bound(a)),
             Bind(k, a.session)
      PROVE  PipelineInv' /\ RowsKept
  <2>1. a \in job[r].anchors /\ a \in Near({a}, log[k].at)  BY <1>5 DEF Best, Near
  <2>2. Sound(a)  BY <2>1 DEF PipelineInv, AnchorsSound
  <2>3. LogType' /\ Witnessed' /\ RowsKept
    BY <1>3, <1>5, <2>1, <2>2, BindKeeps DEF PipelineInv
  <2>. QED  BY <1>2, <1>5, <2>3, StepKeeps
<1>6. ASSUME NEW a \in Best(job[r].anchors, log[k].at), Goto(r, "merge", bound(a)), log' = log
      PROVE  PipelineInv' /\ RowsKept
  BY <1>2, <1>3, <1>6, FreshStepKeeps, QuietRows DEF PipelineInv
<1>. QED  BY <1>4, <1>5, <1>6 DEF Merge

LEMMA ReviewKeeps ==
    ASSUME PipelineInv, NEW r \in Runners,
           StartReview(r) \/ Scan(r) \/ ListOrphans(r) \/ Review(r) \/ Upsert(r) \/ EndReview(r)
    PROVE  PipelineInv'
<1>1. DOMAIN job[r] = DOMAIN NoJob  BY DEF PipelineInv, JobType
<1>2. CASE StartReview(r)
  <2>1. PICK ai \in Models : Goto(r, "scan", [NoJob EXCEPT !.ai = ai])
    BY <1>2 DEF StartReview
  <2>. DEFINE j == [NoJob EXCEPT !.ai = ai]
  <2>2. DOMAIN j = DOMAIN NoJob /\ j.anchors = {}  BY DEF NoJob
  <2>. QED  BY <1>2, <2>1, <2>2, FreshStepKeeps DEF StartReview, tables
<1>3. CASE Scan(r)
  <2>. DEFINE j == [job[r] EXCEPT !.anchors = Anchors]
  <2>1. DOMAIN j = DOMAIN NoJob /\ j.anchors = Anchors  BY <1>1, NoJobShape
  <2>2. \A a \in j.anchors : Sound(a)  BY <2>1, AnchorsAreSound DEF PipelineInv
  <2>3. UNCHANGED <<now, log>>  BY <1>3 DEF Scan, tables
  <2>4. CASE Goto(r, "orphans", j)  BY <2>1, <2>2, <2>3, <2>4, QuietStepKeeps
  <2>5. CASE Fail(r, "scan")  BY <2>3, <2>5, FailKeeps
  <2>. QED  BY <1>3, <2>4, <2>5 DEF Scan
<1>4. CASE ListOrphans(r)
  <2>. DEFINE rows == {k \in DOMAIN log : log[k].kind = "mcp" /\ log[k].session = Unknown}
              j == [job[r] EXCEPT !.orphans = SetToSortSeq(rows, <),
                                  !.todo = {a.session : a \in job[r].anchors}]
  <2>. HIDE DEF rows
  <2>1. DOMAIN j = DOMAIN NoJob /\ j.anchors = job[r].anchors  BY <1>1, NoJobShape
  <2>2. UNCHANGED <<now, log>>  BY <1>4 DEF ListOrphans, tables
  <2>3. CASE Goto(r, "merge", j)  BY <2>1, <2>2, <2>3, FreshStepKeeps
  <2>4. CASE Fail(r, "scan")  BY <2>2, <2>4, FailKeeps
  <2>. QED  BY <1>4, <2>3, <2>4 DEF ListOrphans, rows
<1>5. CASE Review(r)
  <2>. DEFINE s == Choose(job[r].todo)
              found(l2) == [job[r] EXCEPT !.at = s, !.found = [rows |-> Combined(r, s), l2 |-> l2]]
              passed == [job[r] EXCEPT !.todo = @ \ {s}]
  <2>1. ASSUME NEW l2
        PROVE  DOMAIN found(l2) = DOMAIN NoJob /\ found(l2).anchors = job[r].anchors
    BY <1>1, NoJobShape
  <2>2. DOMAIN passed = DOMAIN NoJob /\ passed.anchors = job[r].anchors  BY <1>1, NoJobShape
  <2>3. UNCHANGED <<now, log>>  BY <1>5 DEF Review, tables
  <2>4. ASSUME NEW l2, Goto(r, "upsert", found(l2)) PROVE PipelineInv'
    BY <2>1, <2>3, <2>4, FreshStepKeeps
  <2>5. CASE Goto(r, "merge", passed)  BY <2>2, <2>3, <2>5, FreshStepKeeps
  <2>. QED  BY <1>5, <2>4, <2>5 DEF Review
<1>6. CASE Upsert(r)
  <2>. DEFINE j == [job[r] EXCEPT !.todo = @ \ {job[r].at}, !.at = None, !.found = NoJob.found]
  <2>1. DOMAIN j = DOMAIN NoJob /\ j.anchors = job[r].anchors  BY <1>1, NoJobShape
  <2>2. UNCHANGED <<now, log>>  BY <1>6 DEF Upsert, Fail
  <2>3. CASE Goto(r, "merge", j)  BY <2>1, <2>2, <2>3, FreshStepKeeps
  <2>4. CASE Fail(r, "scan")  BY <2>2, <2>4, FailKeeps
  <2>. QED  BY <1>6, <2>3, <2>4 DEF Upsert
<1>7. CASE EndReview(r)
  BY <1>7, NoJobShape, FreshStepKeeps DEF EndReview, tables
<1>. QED  BY <1>2, <1>3, <1>4, <1>5, <1>6, <1>7

LEMMA ReconcileKeeps ==
    ASSUME PipelineInv, NEW r \in Runners,
           \/ StartReconcile(r) \/ ListSummaries(r) \/ Match(r) \/ CheckTentative(r)
           \/ CreateTentative(r) \/ Link(r) \/ EndReconcile(r)
    PROVE  PipelineInv'
<1>1. DOMAIN job[r] = DOMAIN NoJob  BY DEF PipelineInv, JobType
<1>2. CASE StartReconcile(r)
  BY <1>2, NoJobShape, FreshStepKeeps DEF StartReconcile, tables
<1>3. CASE ListSummaries(r)
  <2>. DEFINE j == [job[r] EXCEPT !.todo = {<<s, L2Of(s)>> : s \in {s \in AllSessions : summaries[s] # None}}]
  <2>1. DOMAIN j = DOMAIN NoJob /\ j.anchors = job[r].anchors  BY <1>1, NoJobShape
  <2>2. UNCHANGED <<now, log>>  BY <1>3 DEF ListSummaries, tables
  <2>3. CASE Goto(r, "sessions", j)  BY <2>1, <2>2, <2>3, FreshStepKeeps
  <2>4. CASE Fail(r, "reconcile")  BY <2>2, <2>4, FailKeeps
  <2>. QED  BY <1>3, <2>3, <2>4 DEF ListSummaries
<1>4. CASE Match(r)
  <2>. DEFINE w == Choose(job[r].todo)
              matched == [job[r] EXCEPT !.todo = @ \ {w}, !.soft = SetToSeq(Soft(w[1], w[2])),
                                        !.linking = Hard(w[1]) \X {w[1]}]
              passed == [job[r] EXCEPT !.todo = @ \ {w}]
  <2>1. DOMAIN matched = DOMAIN NoJob /\ matched.anchors = job[r].anchors
    BY <1>1, NoJobShape
  <2>2. DOMAIN passed = DOMAIN NoJob /\ passed.anchors = job[r].anchors  BY <1>1, NoJobShape
  <2>3. UNCHANGED <<now, log>>  BY <1>4 DEF Match, tables
  <2>4. CASE Goto(r, "sessions", matched)  BY <2>1, <2>3, <2>4, FreshStepKeeps
  <2>5. CASE Goto(r, "sessions", passed)  BY <2>2, <2>3, <2>5, FreshStepKeeps
  <2>. QED  BY <1>4, <2>4, <2>5 DEF Match
<1>5. CASE CheckTentative(r)
  <2>. DEFINE j == [job[r] EXCEPT !.soft = Tail(@)]
  <2>1. DOMAIN j = DOMAIN NoJob /\ j.anchors = job[r].anchors  BY <1>1, NoJobShape
  <2>2. UNCHANGED <<now, log>>  BY <1>5 DEF CheckTentative, tables
  <2>3. CASE Goto(r, "sessions", j)  BY <2>1, <2>2, <2>3, FreshStepKeeps
  <2>4. CASE Goto(r, "create", job[r])  BY <1>1, <2>2, <2>4, FreshStepKeeps
  <2>. QED  BY <1>5, <2>3, <2>4 DEF CheckTentative
<1>6. CASE CreateTentative(r)
  <2>. DEFINE j == [job[r] EXCEPT !.soft = Tail(@)]
  <2>1. DOMAIN j = DOMAIN NoJob /\ j.anchors = job[r].anchors  BY <1>1, NoJobShape
  <2>. QED  BY <1>6, <2>1, FreshStepKeeps DEF CreateTentative
<1>7. CASE Link(r)
  <2>1. PICK l \in job[r].linking : Goto(r, "sessions", [job[r] EXCEPT !.linking = @ \ {l}])
    BY <1>7 DEF Link
  <2>. DEFINE j == [job[r] EXCEPT !.linking = @ \ {l}]
  <2>2. DOMAIN j = DOMAIN NoJob /\ j.anchors = job[r].anchors  BY <1>1, NoJobShape
  <2>3. UNCHANGED <<now, log>>  BY <1>7 DEF Link
  <2>. QED  BY <2>1, <2>2, <2>3, FreshStepKeeps
<1>8. CASE EndReconcile(r)
  BY <1>8, NoJobShape, FreshStepKeeps DEF EndReconcile, tables
<1>. QED  BY <1>2, <1>3, <1>4, <1>5, <1>6, <1>7, <1>8

LEMMA OthersKeep ==
    ASSUME PipelineInv,
           \/ Post \/ Consume \/ UNCHANGED vars \/ \E l \in links : Unlink(l)
    PROVE  PipelineInv'
<1>1. UNCHANGED <<pc, job>>
  BY DEF Post, Consume, Unlink, vars
<1>2. LogType' /\ Witnessed' /\ RowsKept
  <2>1. CASE Post  BY <2>1, PostKeeps DEF PipelineInv
  <2>2. CASE UNCHANGED <<now, log>>  BY <2>2, QuietRows DEF PipelineInv
  <2>. QED  BY <2>1, <2>2 DEF Consume, Unlink, vars, tables
<1>3. \A a : Sound(a) => Sound(a)'  BY <1>2, SoundStays
<1>4. AnchorsSound'  BY <1>1, <1>3 DEF PipelineInv, AnchorsSound
<1>5. JobType'
  <2>1. (DOMAIN NoJob)' = DOMAIN NoJob  BY DEF NoJob
  <2>. QED  BY <1>1, <2>1 DEF PipelineInv, JobType
<1>. QED  BY <1>2, <1>4, <1>5 DEF PipelineInv

LEMMA InitHolds == Init => PipelineInv
<1>1. SUFFICES ASSUME Init PROVE PipelineInv  OBVIOUS
<1>2. log \in Seq(Rows)  BY <1>1, PipelineAssumption DEF Init, Rows, AllSessions
<1>3. LogType
  <2>1. CASE log = <<>>
    <3>1. now = 1 /\ DOMAIN log = {}  BY <1>1, <2>1 DEF Init, Latest
    <3>. QED  BY <1>2, <3>1 DEF LogType
  <2>2. CASE log # <<>>
    <3>1. now = log[Len(log)].at  BY <1>1, <2>2 DEF Init, Latest
    <3>2. log[Len(log)] \in Rows  BY <1>2, <2>2
    <3>3. now \in Nat  BY <3>1, <3>2 DEF Rows
    <3>4. \A k \in DOMAIN log : log[k].at <= now
      BY <1>1, <3>1, PipelineAssumption DEF Init
    <3>. QED  BY <1>2, <3>3, <3>4 DEF LogType
  <2>. QED  BY <2>1, <2>2
<1>4. JobType  BY <1>1 DEF Init, JobType
<1>5. AnchorsSound  BY <1>1, NoJobShape DEF Init, AnchorsSound
<1>6. Witnessed  BY <1>1, PipelineAssumption DEF Init, Witnessed, IsBound
<1>. QED  BY <1>3, <1>4, <1>5, <1>6 DEF PipelineInv

LEMMA NextKeeps == PipelineInv /\ [Next]_vars => PipelineInv' /\ RowsKept
<1>1. SUFFICES ASSUME PipelineInv, [Next]_vars PROVE PipelineInv' /\ RowsKept  OBVIOUS
<1>2. CASE Post  BY <1>1, <1>2, OthersKeep, PostKeeps DEF PipelineInv
<1>3. CASE \/ Consume \/ UNCHANGED vars \/ \E l \in links : Unlink(l)
  <2>1. UNCHANGED <<now, log>>  BY <1>3 DEF Consume, Unlink, vars, tables
  <2>. QED  BY <1>1, <1>3, <2>1, OthersKeep, QuietRows DEF PipelineInv
<1>4. ASSUME NEW r \in Runners, Run(r) PROVE PipelineInv' /\ RowsKept
  <2>1. CASE Merge(r)  BY <1>1, <2>1, MergeKeeps
  <2>2. CASE \/ StartReview(r) \/ Scan(r) \/ ListOrphans(r) \/ Review(r) \/ Upsert(r)
             \/ EndReview(r)
    <3>1. UNCHANGED <<now, log>>
      BY <2>2 DEF StartReview, Scan, ListOrphans, Review, Upsert, EndReview, Fail, tables
    <3>. QED  BY <1>1, <2>2, <3>1, ReviewKeeps, QuietRows DEF PipelineInv
  <2>3. CASE \/ StartReconcile(r) \/ ListSummaries(r) \/ Match(r) \/ CheckTentative(r)
             \/ CreateTentative(r) \/ Link(r) \/ EndReconcile(r)
    <3>1. UNCHANGED <<now, log>>
      BY <2>3 DEF StartReconcile, ListSummaries, Match, CheckTentative, CreateTentative, Link,
                  EndReconcile, tables
    <3>. QED  BY <1>1, <2>3, <3>1, ReconcileKeeps, QuietRows DEF PipelineInv
  <2>. QED  BY <1>4, <2>1, <2>2, <2>3 DEF Run
<1>. QED  BY <1>1, <1>2, <1>3, <1>4 DEF Next

(* The rows, the jobs and the anchors have their types, and what each      *)
(* runner found out still holds, however many bind rows at once.           *)
THEOREM PipelineInvariant == Spec => []PipelineInv
BY InitHolds, NextKeeps, PTL DEF Spec

(* A row that has a session keeps it (UpdateDiscussionSessionIDFor binds   *)
(* only what is still unknown).                                            *)
THEOREM BindingIsForGood == Spec => BoundForGood
<1>1. PipelineInv /\ [Next]_vars =>
        [\A k \in DOMAIN log : log[k].session \in Sessions => log'[k].session = log[k].session]_log
  BY NextKeeps DEF RowsKept
<1>. QED  BY <1>1, PipelineInvariant, PTL DEF Spec, BoundForGood

LEMMA WiderIsNearer ==
    ASSUME NEW first \in Nat, NEW last \in Nat, first <= last,
           NEW earlier \in Nat, NEW later \in Nat, earlier <= first, last <= later,
           NEW t \in Nat, NEW w \in Nat, Distance([first |-> first, last |-> last], t) <= w
    PROVE  Distance([first |-> earlier, last |-> later], t) <= w
BY DEF Distance

LEMMA WitnessIsNear == PipelineInv => BoundWithinWindow
<1>1. SUFFICES ASSUME PipelineInv, NEW k \in DOMAIN log, IsBound(k)
              PROVE  LET others == {log[j].at : j \in RowsOf(log[k].session) \ {k}}
                     IN  Distance([first |-> Min(others), last |-> Max(others)], log[k].at) <= Window
  BY DEF BoundWithinWindow, IsBound
<1>. DEFINE others == {log[j].at : j \in RowsOf(log[k].session) \ {k}}
<1>2. PICK i \in RowsOf(log[k].session) \ {k}, j \in RowsOf(log[k].session) \ {k} :
        /\ log[i].at <= log[j].at
        /\ Distance([first |-> log[i].at, last |-> log[j].at], log[k].at) <= Window
  BY <1>1 DEF PipelineInv, Witnessed, WellBound
<1>3. \A n \in DOMAIN log : log[n].at \in Nat /\ log[n].at <= now
  <2>1. \A n \in DOMAIN log : log[n] \in Rows  BY <1>1 DEF PipelineInv, LogType
  <2>. QED  BY <1>1, <2>1 DEF PipelineInv, LogType, Rows
<1>4. others \in SUBSET Nat /\ \A y \in others : y <= now
  BY <1>3 DEF RowsOf
<1>5. log[i].at \in others /\ log[j].at \in others /\ now \in Nat
  BY <1>1, <1>2 DEF PipelineInv, LogType
<1>. HIDE DEF others
<1>6. /\ Min(others) \in Nat /\ Max(others) \in Nat
      /\ Min(others) <= log[i].at /\ Max(others) >= log[j].at
  BY <1>4, <1>5, HullReaches
<1>7. log[i].at \in Nat /\ log[j].at \in Nat /\ log[k].at \in Nat /\ Window \in Nat
  BY <1>1, <1>2, <1>3, PipelineAssumption DEF RowsOf
<1>8. Distance([first |-> Min(others), last |-> Max(others)], log[k].at) <= Window
  BY <1>2, <1>6, <1>7, WiderIsNearer
<1>. QED  BY <1>8 DEF others

(* A row is bound within the window of its session, whatever other rows    *)
(* and bindings came between the reading of the sessions and the update.   *)
THEOREM BoundNear == Spec => []BoundWithinWindow
BY PipelineInvariant, WitnessIsNear, PTL

-----------------------------------------------------------------------------
(* Tentative events.                                                       *)

(* The runners between the question and the insert for a commit. *)
Creators(c) == {r \in Runners : pc[r] = "create" /\ Head(job[r].soft) = c}

(* A runner that may still add an event counts as one: it either found     *)
(* none open, as all that count beside it, or lost its question to a fault. *)
EventsCounted ==
    /\ tentative \in [Commits -> Nat] /\ faults \in Nat
    /\ \A c \in Commits : tentative[c] + Cardinality(Creators(c)) <= Cardinality(Runners) + faults

LEMMA RunnersFinite ==
    /\ IsFiniteSet(Runners) /\ Cardinality(Runners) \in Nat
    /\ \A S \in SUBSET Runners : /\ IsFiniteSet(S) /\ Cardinality(S) \in Nat
                                  /\ Cardinality(S) <= Cardinality(Runners)
<1>1. IsFiniteSet(Runners)  BY PipelineAssumption
<1>2. Cardinality(Runners) \in Nat  BY <1>1, FS_CardinalityType
<1>3. ASSUME NEW S \in SUBSET Runners
      PROVE  IsFiniteSet(S) /\ Cardinality(S) \in Nat /\ Cardinality(S) <= Cardinality(Runners)
  BY <1>1, FS_Subset, FS_CardinalityType
<1>. QED  BY <1>1, <1>2, <1>3

(* Nobody starts to create, no event and no fault is taken back. *)
LEMMA FewerCreators ==
    ASSUME EventsCounted, faults' \in Nat, faults <= faults',
           tentative' \in [Commits -> Nat], \A c \in Commits : tentative'[c] <= tentative[c],
           \A c \in Commits : Creators(c)' \subseteq Creators(c)
    PROVE  EventsCounted'
<1>1. ASSUME NEW c \in Commits
      PROVE  tentative'[c] + Cardinality(Creators(c)') <= Cardinality(Runners) + faults'
  <2>1. Creators(c) \in SUBSET Runners  BY DEF Creators
  <2>2. /\ IsFiniteSet(Creators(c)) /\ Cardinality(Creators(c)) \in Nat
        /\ Cardinality(Runners) \in Nat
    BY <2>1, RunnersFinite
  <2>3. Creators(c)' \in SUBSET Creators(c)  OBVIOUS
  <2>4. Cardinality(Creators(c)') <= Cardinality(Creators(c)) /\ Cardinality(Creators(c)') \in Nat
    BY <2>1, <2>2, <2>3, RunnersFinite, FS_Subset
  <2>5. tentative[c] \in Nat /\ tentative'[c] \in Nat /\ tentative'[c] <= tentative[c]
    BY DEF EventsCounted
  <2>6. tentative[c] + Cardinality(Creators(c)) <= Cardinality(Runners) + faults /\ faults \in Nat
    BY DEF EventsCounted
  <2>. QED  BY <2>2, <2>4, <2>5, <2>6
<1>2. \A c \in Commits : tentative'[c] + Cardinality(Creators(c)') <= Cardinality(Runners) + faults'
  BY <1>1
<1>3. (Cardinality(Runners))' = Cardinality(Runners)  OBVIOUS
<1>. QED  BY <1>2 DEF EventsCounted

(* A runner goes anywhere but to the insert. *)
LEMMA OrdinaryStep ==
    ASSUME JobType, EventsCounted, NEW r \in Runners, NEW place, NEW j,
           Goto(r, place, j), place # "create", tentative' = tentative,
           faults' \in Nat, faults <= faults'
    PROVE  EventsCounted'
<1>1. \A q \in Runners : q # r => pc'[q] = pc[q] /\ job'[q] = job[q]  BY DEF Goto, JobType
<1>2. pc'[r] # "create"  BY DEF Goto, JobType
<1>3. \A c \in Commits : Creators(c)' \subseteq Creators(c)  BY <1>1, <1>2 DEF Creators
<1>4. tentative' \in [Commits -> Nat] /\ \A c \in Commits : tentative'[c] <= tentative[c]
  BY DEF EventsCounted
<1>. QED  BY <1>3, <1>4, FewerCreators

LEMMA FailStep ==
    ASSUME JobType, EventsCounted, NEW r \in Runners, NEW place, place # "create",
           Fail(r, place), tentative' = tentative
    PROVE  EventsCounted'
<1>1. faults' \in Nat /\ faults <= faults'  BY DEF Fail, EventsCounted
<1>2. CASE Goto(r, place, [NoJob EXCEPT !.ai = job[r].ai, !.tries = job[r].tries + 1])
  BY <1>1, <1>2, OrdinaryStep
<1>3. ASSUME NEW other, other # "create", Goto(r, other, NoJob) PROVE EventsCounted'
  BY <1>1, <1>3, OrdinaryStep
<1>. DEFINE after == IF place = "scan" THEN NextPart(r)
                     ELSE IF r \in Daemons THEN "idle" ELSE "gone"
<1>4. after # "create"  BY DEF NextPart
<1>5. CASE Goto(r, after, NoJob)  BY <1>3, <1>4, <1>5
<1>. QED  BY <1>2, <1>5 DEF Fail

(* The question: the runner found none open, or counts as a fault. *)
LEMMA CheckStep ==
    ASSUME JobType, EventsCounted, NEW r \in Runners, CheckTentative(r)
    PROVE  EventsCounted'
<1>. DEFINE d == Head(job[r].soft)
<1>1. tentative' = tentative /\ pc[r] = "sessions"  BY DEF CheckTentative, tables
<1>2. CASE Goto(r, "sessions", [job[r] EXCEPT !.soft = Tail(@)]) /\ faults' = faults
  BY <1>1, <1>2, OrdinaryStep DEF EventsCounted
<1>3. CASE /\ Goto(r, "create", job[r])
           /\ \/ tentative[d] = 0 /\ faults' = faults
              \/ faults' = faults + 1
  <2>1. \A q \in Runners : q # r => pc'[q] = pc[q] /\ job'[q] = job[q]
    BY <1>3 DEF Goto, JobType
  <2>2. pc'[r] = "create" /\ job'[r] = job[r]  BY <1>3 DEF Goto, JobType
  <2>3. \A c : Creators(c)' = IF c = d THEN Creators(c) \cup {r} ELSE Creators(c)
    BY <1>1, <2>1, <2>2 DEF Creators
  <2>4. ASSUME NEW c \in Commits
        PROVE  tentative[c] + Cardinality(Creators(c)') <= Cardinality(Runners) + faults'
    <3>1. /\ Creators(c) \in SUBSET Runners /\ Creators(c) \cup {r} \in SUBSET Runners
      BY DEF Creators
    <3>2. /\ IsFiniteSet(Creators(c)) /\ Cardinality(Creators(c)) \in Nat
          /\ Cardinality(Creators(c) \cup {r}) \in Nat
          /\ Cardinality(Creators(c) \cup {r}) <= Cardinality(Runners)
          /\ Cardinality(Runners) \in Nat
      BY <3>1, RunnersFinite
    <3>3. Cardinality(Creators(c) \cup {r}) <= Cardinality(Creators(c)) + 1
      <4>1. Cardinality(Creators(c) \cup {r}) =
              IF r \in Creators(c) THEN Cardinality(Creators(c)) ELSE Cardinality(Creators(c)) + 1
        BY <3>2, FS_AddElement
      <4>. QED  BY <3>2, <4>1
    <3>4. /\ tentative[c] \in Nat /\ faults \in Nat
          /\ tentative[c] + Cardinality(Creators(c)) <= Cardinality(Runners) + faults
      BY DEF EventsCounted
    <3>5. CASE c # d  BY <1>3, <2>3, <3>2, <3>4, <3>5
    <3>6. CASE c = d /\ tentative[d] = 0 /\ faults' = faults
      <4>1. Cardinality(Creators(c)') <= Cardinality(Runners)  BY <2>3, <3>2, <3>6
      <4>2. Cardinality(Creators(c)') \in Nat  BY <2>3, <3>2, <3>6
      <4>3. tentative[c] = 0 /\ faults' = faults  BY <3>6
      <4>. QED  BY <3>2, <3>4, <4>1, <4>2, <4>3
    <3>7. CASE c = d /\ faults' = faults + 1
      <4>1. Cardinality(Creators(c)') <= Cardinality(Creators(c)) + 1  BY <2>3, <3>3, <3>7
      <4>2. Cardinality(Creators(c)') \in Nat  BY <2>3, <3>2, <3>7
      <4>3. faults' = faults + 1  BY <3>7
      <4>. QED  BY <3>2, <3>4, <4>1, <4>2, <4>3
    <3>. QED  BY <1>3, <3>5, <3>6, <3>7
  <2>5. tentative' \in [Commits -> Nat] /\ faults' \in Nat  BY <1>1, <1>3 DEF EventsCounted
  <2>. QED  BY <1>1, <2>4, <2>5 DEF EventsCounted
<1>. QED  BY <1>2, <1>3 DEF CheckTentative

(* The insert: the runner no longer counts, its event does. *)
LEMMA CreateStep ==
    ASSUME JobType, EventsCounted, NEW r \in Runners, CreateTentative(r)
    PROVE  EventsCounted'
<1>. DEFINE d == Head(job[r].soft)
            j == [job[r] EXCEPT !.soft = Tail(@)]
<1>1. pc[r] = "create" /\ Goto(r, "sessions", j)  BY DEF CreateTentative
<1>. HIDE DEF j
<1>2. CASE faults' = faults + 1 /\ tentative' = tentative
  BY <1>1, <1>2, OrdinaryStep DEF EventsCounted
<1>3. CASE tentative' = [tentative EXCEPT ![d] = @ + 1] /\ faults' = faults
  <2>1. \A q \in Runners : q # r => pc'[q] = pc[q] /\ job'[q] = job[q]
    BY <1>1 DEF Goto, JobType
  <2>2. pc'[r] = "sessions"  BY <1>1 DEF Goto, JobType
  <2>3. ASSUME NEW c PROVE Creators(c)' = Creators(c) \ {r}
    <3>1. \A q \in Runners : q \in Creators(c)' <=> q \in Creators(c) /\ q # r
      BY <2>1, <2>2 DEF Creators
    <3>2. Creators(c)' \subseteq Runners /\ Creators(c) \subseteq Runners  BY DEF Creators
    <3>. QED  BY <3>1, <3>2
  <2>4. tentative' \in [Commits -> Nat] /\ faults' \in Nat
    <3>1. tentative \in [Commits -> Nat] /\ faults \in Nat  BY DEF EventsCounted
    <3>. HIDE DEF d
    <3>2. DOMAIN tentative' = Commits  BY <1>3, <3>1
    <3>3. \A c \in Commits : tentative'[c] = IF c = d THEN tentative[c] + 1 ELSE tentative[c]
      BY <1>3, <3>1
    <3>4. \A c \in Commits : tentative'[c] \in Nat  BY <3>1, <3>3
    <3>5. tentative' = [c \in Commits |-> tentative'[c]]  BY <1>3, <3>1
    <3>. QED  BY <1>3, <3>1, <3>4, <3>5
  <2>5. ASSUME NEW c \in Commits
        PROVE  tentative'[c] + Cardinality(Creators(c)') <= Cardinality(Runners) + faults'
    <3>1. Creators(c) \in SUBSET Runners  BY DEF Creators
    <3>2. /\ IsFiniteSet(Creators(c)) /\ Cardinality(Creators(c)) \in Nat
          /\ Cardinality(Runners) \in Nat
      BY <3>1, RunnersFinite
    <3>3. Cardinality(Creators(c)') = IF r \in Creators(c) THEN Cardinality(Creators(c)) - 1
                                                           ELSE Cardinality(Creators(c))
      BY <2>3, <3>2, FS_RemoveElement
    <3>4. /\ tentative[c] \in Nat /\ faults \in Nat
          /\ tentative[c] + Cardinality(Creators(c)) <= Cardinality(Runners) + faults
      BY DEF EventsCounted
    <3>5. r \in Creators(c) <=> c = d  BY <1>1 DEF Creators
    <3>6. tentative'[c] = IF c = d THEN tentative[c] + 1 ELSE tentative[c]
      BY <1>3 DEF EventsCounted
    <3>. QED  BY <1>3, <3>2, <3>3, <3>4, <3>5, <3>6
  <2>. QED  BY <2>4, <2>5 DEF EventsCounted
<1>. QED  BY <1>2, <1>3 DEF CreateTentative

LEMMA EventsStayCounted == JobType /\ EventsCounted /\ [Next]_vars => EventsCounted'
<1>1. SUFFICES ASSUME JobType, EventsCounted, [Next]_vars PROVE EventsCounted'  OBVIOUS
<1>2. CASE \/ Post \/ Consume \/ UNCHANGED vars \/ \E l \in links : Unlink(l)
  <2>1. UNCHANGED <<pc, job>>  BY <1>2 DEF Post, Consume, Unlink, vars
  <2>2. faults' \in Nat /\ faults <= faults'
    BY <1>1, <1>2 DEF Post, Consume, Unlink, vars, EventsCounted
  <2>3. tentative' \in [Commits -> Nat] /\ \A c \in Commits : tentative'[c] <= tentative[c]
    BY <1>1, <1>2 DEF Post, Consume, Unlink, vars, tables, EventsCounted
  <2>4. \A c \in Commits : Creators(c)' \subseteq Creators(c)  BY <2>1 DEF Creators
  <2>. QED  BY <1>1, <2>2, <2>3, <2>4, FewerCreators
<1>3. ASSUME NEW r \in Runners, Run(r) PROVE EventsCounted'
  <2>1. ASSUME NEW place, NEW j, Goto(r, place, j), place # "create", tentative' = tentative,
               faults' = faults \/ faults' = faults + 1
        PROVE  EventsCounted'
    BY <1>1, <2>1, OrdinaryStep DEF EventsCounted
  <2>2. ASSUME NEW place, place # "create", Fail(r, place), tentative' = tentative
        PROVE  EventsCounted'
    BY <1>1, <2>2, FailStep
  <2>3. CASE StartReview(r)  BY <2>1, <2>3 DEF StartReview, tables
  <2>4. CASE Scan(r)  BY <2>1, <2>2, <2>4 DEF Scan, tables
  <2>5. CASE ListOrphans(r)
    <3>1. tentative' = tentative  BY <2>5 DEF ListOrphans, tables
    <3>2. CASE Fail(r, "scan")  BY <2>2, <3>1, <3>2
    <3>3. CASE ~Fail(r, "scan")
      <4>1. \E j : Goto(r, "merge", j) /\ UNCHANGED faults  BY <2>5, <3>3 DEF ListOrphans
      <4>. QED  BY <2>1, <3>1, <4>1
    <3>. QED  BY <3>2, <3>3
  <2>6. CASE Merge(r)
    <3>1. tentative' = tentative  BY <2>6 DEF Merge
    <3>2. \E j : Goto(r, "merge", j)  BY <2>6 DEF Merge
    <3>3. faults' = faults \/ faults' = faults + 1  BY <2>6 DEF Merge
    <3>. QED  BY <2>1, <3>1, <3>2, <3>3
  <2>7. CASE Review(r)
    <3>1. tentative' = tentative  BY <2>7 DEF Review, tables
    <3>2. (\E j : Goto(r, "upsert", j)) \/ (\E j : Goto(r, "merge", j))  BY <2>7 DEF Review
    <3>3. faults' = faults \/ faults' = faults + 1  BY <2>7 DEF Review
    <3>. QED  BY <2>1, <3>1, <3>2, <3>3
  <2>8. CASE Upsert(r)  BY <2>1, <2>2, <2>8 DEF Upsert
  <2>9. CASE EndReview(r)
    <3>1. NextPart(r) # "create"  BY DEF NextPart
    <3>. QED  BY <2>1, <2>9, <3>1 DEF EndReview, tables
  <2>10. CASE StartReconcile(r)  BY <2>1, <2>10 DEF StartReconcile, tables
  <2>11. CASE ListSummaries(r)  BY <2>1, <2>2, <2>11 DEF ListSummaries, tables
  <2>12. CASE Match(r)
    <3>1. tentative' = tentative  BY <2>12 DEF Match, tables
    <3>2. \E j : Goto(r, "sessions", j)  BY <2>12 DEF Match
    <3>3. faults' = faults \/ faults' = faults + 1  BY <2>12 DEF Match
    <3>. QED  BY <2>1, <3>1, <3>2, <3>3
  <2>13. CASE CheckTentative(r)  BY <1>1, <2>13, CheckStep
  <2>14. CASE CreateTentative(r)  BY <1>1, <2>14, CreateStep
  <2>15. CASE Link(r)
    <3>1. tentative' = tentative  BY <2>15 DEF Link
    <3>2. \E j : Goto(r, "sessions", j)  BY <2>15 DEF Link
    <3>3. faults' = faults \/ faults' = faults + 1  BY <2>15 DEF Link
    <3>. QED  BY <2>1, <3>1, <3>2, <3>3
  <2>16. CASE EndReconcile(r)
    <3>1. (IF r \in Daemons THEN "idle" ELSE "gone") # "create"  OBVIOUS
    <3>. QED  BY <2>1, <2>16, <3>1 DEF EndReconcile, tables
  <2>. QED  BY <1>3, <2>3, <2>4, <2>5, <2>6, <2>7, <2>8, <2>9, <2>10, <2>11, <2>12, <2>13,
               <2>14, <2>15, <2>16 DEF Run
<1>. QED  BY <1>1, <1>2, <1>3 DEF Next

LEMMA EventsAreFewAtFirst == Init => EventsCounted
<1>1. SUFFICES ASSUME Init, NEW c \in Commits
              PROVE  tentative[c] + Cardinality(Creators(c)) <= Cardinality(Runners) + faults
  BY DEF Init, EventsCounted
<1>2. Creators(c) \in SUBSET Runners  BY DEF Creators
<1>3. /\ Cardinality(Creators(c)) \in Nat /\ Cardinality(Runners) \in Nat
      /\ Cardinality(Creators(c)) <= Cardinality(Runners)
  BY <1>2, RunnersFinite
<1>. QED  BY <1>1, <1>3 DEF Init

LEMMA CountedIsBounded == EventsCounted => TentativeBounded
<1>1. SUFFICES ASSUME EventsCounted, NEW c \in Commits
              PROVE  tentative[c] <= Cardinality(Runners) + faults
  BY DEF TentativeBounded
<1>2. Creators(c) \in SUBSET Runners  BY DEF Creators
<1>3. Cardinality(Creators(c)) \in Nat /\ Cardinality(Runners) \in Nat
  BY <1>2, RunnersFinite
<1>. QED  BY <1>1, <1>3 DEF EventsCounted

(* Open tentative events of a commit do not pile up, although the question *)
(* and the insert are two statements: at most one per process, and one per *)
(* fault (createTentativeEvent).                                           *)
THEOREM EventsDoNotPileUp == Spec => []TentativeBounded
<1>1. PipelineInv => JobType  BY DEF PipelineInv
<1>. QED  BY <1>1, PipelineInvariant, EventsStayCounted, EventsAreFewAtFirst, CountedIsBounded,
             PTL DEF Spec
=============================================================================
