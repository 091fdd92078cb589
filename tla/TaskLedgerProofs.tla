-------------------------- MODULE TaskLedgerProofs --------------------------
(* What holds of tasks for every number of processes, tasks, plans and     *)
(* commits and for every interleaving of their statements.                 *)
EXTENDS TaskLedger, SequenceTheorems, TLAPS

-----------------------------------------------------------------------------
(* The range of a sequence that was appended to.                           *)

LEMMA AppendRange ==
    ASSUME NEW S, NEW s \in Seq(S), NEW e \in S
    PROVE  Range(Append(s, e)) = Range(s) \cup {e}
  <1>1. Range(s) = {s[i] : i \in 1 .. Len(s)}
    BY RangeEquality
  <1>2. /\ Append(s, e) \in Seq(S)
        /\ Len(Append(s, e)) = Len(s) + 1
        /\ \A i \in 1 .. Len(s) : Append(s, e)[i] = s[i]
        /\ Append(s, e)[Len(s) + 1] = e
    BY AppendProperties
  <1>3. Range(Append(s, e)) = {Append(s, e)[i] : i \in 1 .. Len(s) + 1}
    BY <1>2, RangeEquality
  <1> QED BY <1>1, <1>2, <1>3

USE TaskAssumption, NoneIsNoRow

-----------------------------------------------------------------------------
(* Type correctness, in two halves: what a process keeps to itself, and    *)
(* the tables.                                                             *)

PCs == {"idle", "updateRead", "flag"} \cup CreatePCs \cup WithRowPCs \cup NotePCs

(* Fits, of a place, a job and a copy. *)
FitsAt(l, j, r) ==
    /\ l \in CreatePCs => j \in CreateJob
    /\ l = "createWrite" => r \in Seq(Tasks)
    /\ l \in WithRowPCs \cup {"updateRead"} => j \in UpdateJob
    /\ l \in NotePCs => j \in NoteJob
    /\ l \in WithRowPCs \cup {"noteInsert", "noteWrite"} => r \in Row
    /\ l = "flag" => j \in FlagJob

LocalsOK ==
    /\ pc \in [Procs -> PCs]
    /\ DOMAIN job = Procs /\ DOMAIN read = Procs
    /\ \A p \in Procs : FitsAt(pc[p], job[p], read[p])

TablesOK ==
    /\ rows \in [Tasks -> Row \cup {None}] /\ used \in SUBSET Tasks
    /\ taskIds \in [Plans -> Seq(Tasks)]
    /\ noteRows \subseteq Tasks \X Notes /\ changes \subseteq Tasks \X Statuses \X Statuses
    /\ backs \in [Commits -> Tasks \cup {NoTask}] /\ events \in [Tasks -> Events]
    /\ backed \subseteq Tasks /\ waived \subseteq Tasks
    /\ calls \in 0..MaxCalls /\ aborts \in 0..MaxAborts

LEMMA TypeHalves == TypeOK <=> LocalsOK /\ TablesOK
  BY DEF TypeOK, LocalsOK, TablesOK, Fits, FitsAt, PCs

LEMMA TypeHalvesPrime == LocalsOK' /\ TablesOK' => TypeOK'
  BY DEF TypeOK, LocalsOK, TablesOK, Fits, FitsAt, PCs

LEMMA TypeInit == Init => TypeOK
  BY DEF Init, TypeOK, Fits, Events, CreatePCs, WithRowPCs, NotePCs

(* A process that goes to l with job j and copy r that fit. *)
LEMMA Moves ==
    ASSUME LocalsOK, NEW p \in Procs, NEW l \in PCs, NEW j, NEW r, FitsAt(l, j, r),
           pc' = [pc EXCEPT ![p] = l],
           job' = [job EXCEPT ![p] = j] \/ (job' = job /\ j = job[p]),
           read' = [read EXCEPT ![p] = r] \/ (read' = read /\ r = read[p])
    PROVE  LocalsOK'
  <1>1. pc' \in [Procs -> PCs] /\ DOMAIN job' = Procs /\ DOMAIN read' = Procs
    BY DEF LocalsOK
  <1>2. pc'[p] = l /\ job'[p] = j /\ read'[p] = r
    BY DEF LocalsOK
  <1>3. \A q \in Procs \ {p} : pc'[q] = pc[q] /\ job'[q] = job[q] /\ read'[q] = read[q]
    BY DEF LocalsOK
  <1>4. \A q \in Procs : FitsAt(pc'[q], job'[q], read'[q])
    <2> SUFFICES ASSUME NEW q \in Procs PROVE FitsAt(pc'[q], job'[q], read'[q])
      OBVIOUS
    <2>1. CASE q = p
      BY <2>1, <1>2
    <2>2. CASE q # p
      BY <2>2, <1>3 DEF LocalsOK
    <2> QED BY <2>1, <2>2
  <1> QED BY <1>1, <1>4 DEF LocalsOK

LEMMA Returns ==
    ASSUME LocalsOK, NEW p \in Procs, Return(p)
    PROVE  LocalsOK'
  <1>1. "idle" \in PCs /\ FitsAt("idle", None, None)
    BY DEF PCs, FitsAt, CreatePCs, WithRowPCs, NotePCs
  <1>2. /\ pc' = [pc EXCEPT ![p] = "idle"]
        /\ job' = [job EXCEPT ![p] = None] /\ read' = [read EXCEPT ![p] = None]
    BY DEF Return, Goto
  <1> QED BY <1>1, <1>2, Moves

(* A process that only goes on from where it is. *)
LEMMA GoesOn ==
    ASSUME LocalsOK, NEW p \in Procs, NEW l \in PCs, FitsAt(l, job[p], read[p]),
           Goto(p, l), UNCHANGED <<job, read>>
    PROVE  LocalsOK'
  <1>1. pc' = [pc EXCEPT ![p] = l] /\ job' = job /\ read' = read
    BY DEF Goto
  <1> QED BY <1>1, Moves

(* A process that makes its copy and goes on. *)
LEMMA Copies ==
    ASSUME LocalsOK, NEW p \in Procs, NEW l \in PCs, NEW r, FitsAt(l, job[p], r),
           read' = [read EXCEPT ![p] = r], Goto(p, l), UNCHANGED job
    PROVE  LocalsOK'
  <1>1. pc' = [pc EXCEPT ![p] = l] /\ job' = job
    BY DEF Goto
  <1> QED BY <1>1, Moves

LEMMA Starts ==
    ASSUME TypeOK, NEW p \in Procs, NEW j, NEW l \in PCs, FitsAt(l, j, read[p]), Start(p, j, l)
    PROVE  TypeOK'
  <1>1. /\ pc' = [pc EXCEPT ![p] = l] /\ job' = [job EXCEPT ![p] = j] /\ read' = read
    BY DEF Start, Goto
  <1>2. LocalsOK'
    BY <1>1, TypeHalves, Moves
  <1>3. calls' \in 0 .. MaxCalls
    BY DEF Start, TypeOK
  <1>4. TablesOK'
    BY <1>3, TypeHalves DEF Start, tables, TablesOK
  <1> QED BY <1>2, <1>4, TypeHalvesPrime

LEMMA TypeBegin ==
    ASSUME TypeOK, NEW p \in Procs, Begin(p)
    PROVE  TypeOK'
  <1>0. /\ {"createInsert", "updateRead", "noteRead", "flag"} \subseteq PCs /\ used \subseteq Tasks
        /\ \A t \in used : t \in Tasks
    BY DEF PCs, CreatePCs, NotePCs, TypeOK
  <1>1. ASSUME NEW t \in Tasks \ used, NEW s \in Statuses, NEW l \in Plans, StartCreate(p, t, s, l)
        PROVE  TypeOK'
    <2>1. [task |-> t, status |-> s, plan |-> l] \in CreateJob
      BY DEF CreateJob
    <2>2. FitsAt("createInsert", [task |-> t, status |-> s, plan |-> l], read[p])
      BY <2>1 DEF FitsAt, CreatePCs, WithRowPCs, NotePCs
    <2> QED BY <1>0, <1>1, <2>2, Starts DEF StartCreate
  <1>2. ASSUME NEW t \in used, NEW s \in Statuses \cup {Same}, NEW n \in Notes \cup {NoNote},
               NEW skip \in BOOLEAN, NEW append \in BOOLEAN, StartUpdate(p, t, s, n, skip, append)
        PROVE  TypeOK'
    <2> DEFINE j == [task |-> t, status |-> s, note |-> n, skip |-> skip, append |-> append]
    <2>1. j \in UpdateJob
      BY <1>0 DEF UpdateJob
    <2>2. FitsAt("updateRead", j, read[p])
      BY <2>1 DEF FitsAt, CreatePCs, WithRowPCs, NotePCs
    <2>3. Start(p, j, "updateRead")
      BY <1>2 DEF StartUpdate
    <2> QED BY <1>0, <2>2, <2>3, Starts
  <1>3. ASSUME NEW t \in used, NEW n \in Notes, StartNote(p, t, n)
        PROVE  TypeOK'
    <2>1. [task |-> t, note |-> n] \in NoteJob
      BY <1>0 DEF NoteJob
    <2>2. FitsAt("noteRead", [task |-> t, note |-> n], read[p])
      BY <2>1 DEF FitsAt, CreatePCs, WithRowPCs, NotePCs
    <2> QED BY <1>0, <1>3, <2>2, Starts DEF StartNote
  <1>4. ASSUME NEW t \in used, StartFlag(p, t)
        PROVE  TypeOK'
    <2>1. [task |-> t] \in FlagJob
      BY <1>0 DEF FlagJob
    <2>2. FitsAt("flag", [task |-> t], read[p])
      BY <2>1 DEF FitsAt, CreatePCs, WithRowPCs, NotePCs
    <2> QED BY <1>0, <1>4, <2>2, Starts DEF StartFlag
  <1> QED BY <1>1, <1>2, <1>3, <1>4 DEF Begin

LEMMA TypeAbort ==
    ASSUME TypeOK, NEW p \in Procs, Abort(p)
    PROVE  TypeOK'
  <1>1. LocalsOK'
    BY TypeHalves, Returns DEF Abort
  <1>2. aborts' \in 0 .. MaxAborts
    BY DEF Abort, TypeOK
  <1>3. TablesOK'
    BY <1>2, TypeHalves DEF Abort, tables, TablesOK
  <1> QED BY <1>1, <1>3, TypeHalvesPrime

LEMMA TypeCreate ==
    ASSUME TypeOK, NEW p \in Procs, Create(p)
    PROVE  TypeOK'
  <1>0. /\ LocalsOK /\ TablesOK /\ FitsAt(pc[p], job[p], read[p])
        /\ {"createRead", "createWrite"} \subseteq PCs
    BY TypeHalves DEF LocalsOK, PCs, CreatePCs
  <1>1. CASE CreateInsert(p)
    <2>1. job[p] \in CreateJob
      BY <1>0, <1>1 DEF CreateInsert, FitsAt, CreatePCs
    <2>2. LocalsOK'
      <3>1. FitsAt("createRead", job[p], read[p])
        BY <2>1 DEF FitsAt, CreatePCs, WithRowPCs, NotePCs
      <3>2. Goto(p, "createRead") /\ UNCHANGED <<job, read>>
        BY <1>1 DEF CreateInsert
      <3> QED BY <1>0, <3>1, <3>2, GoesOn
    <2>3. TablesOK'
      <3>1. job[p].task \in Tasks /\ [status |-> job[p].status, note |-> <<>>] \in Row
        BY <2>1 DEF CreateJob, Row
      <3>2. rows' \in [Tasks -> Row \cup {None}]
        BY <1>0, <1>1, <3>1 DEF CreateInsert, TablesOK
      <3>3. used' \in SUBSET Tasks /\ waived' \subseteq Tasks
        BY <1>0, <1>1, <3>1 DEF CreateInsert, TablesOK
      <3> QED BY <1>0, <1>1, <3>2, <3>3 DEF CreateInsert, TablesOK
    <2> QED BY <2>2, <2>3, TypeHalvesPrime
  <1>2. CASE CreateRead(p)
    <2>1. job[p] \in CreateJob
      BY <1>0, <1>2 DEF CreateRead, FitsAt, CreatePCs
    <2>2. taskIds[job[p].plan] \in Seq(Tasks)
      BY <2>1, <1>0 DEF CreateJob, TablesOK
    <2>3. FitsAt("createWrite", job[p], taskIds[job[p].plan])
      BY <2>1, <2>2 DEF FitsAt, CreatePCs, WithRowPCs, NotePCs
    <2>4. LocalsOK'
      BY <1>0, <1>2, <2>3, Copies DEF CreateRead
    <2>5. TablesOK'
      BY <1>0, <1>2 DEF CreateRead, tables, TablesOK
    <2> QED BY <2>4, <2>5, TypeHalvesPrime
  <1>3. CASE CreateWrite(p)
    <2>1. job[p] \in CreateJob /\ read[p] \in Seq(Tasks)
      BY <1>0, <1>3 DEF CreateWrite, FitsAt, CreatePCs
    <2>2. LocalsOK'
      BY <1>0, <1>3, Returns DEF CreateWrite
    <2>3. job[p].task \in Tasks
      BY <2>1 DEF CreateJob
    <2>4. Append(read[p], job[p].task) \in Seq(Tasks)
      BY <2>1, <2>3
    <2>5. taskIds' \in [Plans -> Seq(Tasks)]
      BY <1>0, <1>3, <2>4 DEF CreateWrite, TablesOK
    <2>6. TablesOK'
      BY <1>0, <1>3, <2>5 DEF CreateWrite, TablesOK
    <2> QED BY <2>2, <2>6, TypeHalvesPrime
  <1> QED BY <1>1, <1>2, <1>3 DEF Create

(* The status and the note an update writes. *)
LEMMA NewValues ==
    ASSUME NEW p \in Procs, job[p] \in UpdateJob, read[p] \in Row
    PROVE  NewStatus(p) \in Statuses /\ NewNote(p) \in Seq(Notes)
  <1>1. /\ job[p].status \in Statuses \cup {Same} /\ job[p].note \in Notes \cup {NoNote}
        /\ read[p].status \in Statuses /\ read[p].note \in Seq(Notes)
    BY DEF UpdateJob, Row
  <1>2. job[p].note \in Notes =>
          Append(read[p].note, job[p].note) \in Seq(Notes) /\ <<job[p].note>> \in Seq(Notes)
    BY <1>1
  <1> QED BY <1>1, <1>2 DEF NewStatus, NewNote

LEMMA TypeUpdate ==
    ASSUME TypeOK, NEW p \in Procs, Update(p)
    PROVE  TypeOK'
  <1>0. /\ LocalsOK /\ TablesOK /\ FitsAt(pc[p], job[p], read[p]) /\ WithRowPCs \subseteq PCs
    BY TypeHalves DEF LocalsOK, PCs
  <1>1. CASE UpdateRead(p)
    <2>1. job[p] \in UpdateJob
      BY <1>0, <1>1 DEF UpdateRead, FitsAt
    <2>2. LocalsOK'
      <3>1. CASE rows[job[p].task] = None
        BY <1>0, <1>1, <3>1, Returns DEF UpdateRead
      <3>2. CASE rows[job[p].task] # None
        <4>1. rows[job[p].task] \in Row
          BY <1>0, <2>1, <3>2 DEF UpdateJob, TablesOK
        <4>2. FitsAt("updateChange", job[p], rows[job[p].task]) /\ "updateChange" \in PCs
          BY <1>0, <2>1, <4>1 DEF FitsAt, CreatePCs, WithRowPCs, NotePCs
        <4> QED BY <1>0, <1>1, <3>2, <4>2, Copies DEF UpdateRead
      <3> QED BY <3>1, <3>2
    <2>3. TablesOK'
      BY <1>0, <1>1 DEF UpdateRead, tables, TablesOK
    <2> QED BY <2>2, <2>3, TypeHalvesPrime
  <1>2. ASSUME pc[p] \in WithRowPCs
        PROVE  job[p] \in UpdateJob /\ read[p] \in Row /\ job[p].task \in Tasks
    BY <1>0, <1>2 DEF FitsAt, UpdateJob
  <1>3. ASSUME NEW l \in WithRowPCs, pc[p] \in WithRowPCs, Goto(p, l), UNCHANGED <<job, read>>
        PROVE  LocalsOK'
    <2>1. FitsAt(l, job[p], read[p])
      BY <1>2, <1>3 DEF FitsAt, CreatePCs, WithRowPCs, NotePCs
    <2> QED BY <1>0, <1>3, <2>1, GoesOn
  <1>4. CASE UpdateChange(p)
    <2>1. pc[p] \in WithRowPCs /\ "updateGate" \in WithRowPCs
      BY <1>4 DEF UpdateChange, WithRowPCs
    <2>2. LocalsOK'
      BY <1>3, <1>4, <2>1 DEF UpdateChange
    <2>3. <<job[p].task, read[p].status, NewStatus(p)>> \in Tasks \X Statuses \X Statuses
      BY <1>2, <2>1, NewValues DEF Row
    <2>4. changes' \subseteq Tasks \X Statuses \X Statuses
      BY <1>0, <1>4, <2>3 DEF UpdateChange, TablesOK
    <2>5. TablesOK'
      BY <1>0, <1>4, <2>4 DEF UpdateChange, TablesOK
    <2> QED BY <2>2, <2>5, TypeHalvesPrime
  <1>5. CASE UpdateGate(p)
    <2>1. pc[p] \in WithRowPCs /\ "updateWrite" \in WithRowPCs
      BY <1>5 DEF UpdateGate, WithRowPCs
    <2>2. Return(p) \/ (Goto(p, "updateWrite") /\ UNCHANGED <<job, read>>)
      BY <1>5 DEF UpdateGate
    <2>3. LocalsOK'
      BY <1>0, <1>3, <2>1, <2>2, Returns
    <2>4. TablesOK'
      BY <1>0, <1>5 DEF UpdateGate, tables, TablesOK
    <2> QED BY <2>3, <2>4, TypeHalvesPrime
  <1>6. CASE UpdateWrite(p)
    <2>1. pc[p] \in WithRowPCs /\ "updateMark" \in WithRowPCs
      BY <1>6 DEF UpdateWrite, WithRowPCs
    <2>2. LocalsOK'
      BY <1>3, <1>6, <2>1 DEF UpdateWrite
    <2>3. NewStatus(p) \in Statuses /\ NewNote(p) \in Seq(Notes)
      BY <1>2, <2>1, NewValues
    <2>4. \A r \in Row : [r EXCEPT !.status = NewStatus(p), !.note = NewNote(p)] \in Row
      BY <2>3 DEF Row
    <2>5. rows' \in [Tasks -> Row \cup {None}]
      BY <1>0, <1>2, <1>6, <2>1, <2>4 DEF UpdateWrite, TablesOK
    <2>6. waived' \subseteq Tasks
      BY <1>0, <1>2, <1>6, <2>1 DEF UpdateWrite, TablesOK
    <2>7. TablesOK'
      BY <1>0, <1>6, <2>5, <2>6 DEF UpdateWrite, TablesOK
    <2> QED BY <2>2, <2>7, TypeHalvesPrime
  <1>7. CASE UpdateMark(p)
    <2>1. pc[p] \in WithRowPCs /\ "updateNote" \in WithRowPCs
      BY <1>7 DEF UpdateMark, WithRowPCs
    <2>2. LocalsOK'
      BY <1>3, <1>7, <2>1 DEF UpdateMark
    <2>3. events' \in [Tasks -> Events]
      BY <1>0, <1>7 DEF UpdateMark, TablesOK, Events
    <2>4. TablesOK'
      BY <1>0, <1>7, <2>3 DEF UpdateMark, TablesOK
    <2> QED BY <2>2, <2>4, TypeHalvesPrime
  <1>8. CASE UpdateNote(p)
    <2>1. pc[p] \in WithRowPCs
      BY <1>8 DEF UpdateNote, WithRowPCs
    <2>2. LocalsOK'
      BY <1>0, <1>8, Returns DEF UpdateNote
    <2>3. job[p].note \in Notes \cup {NoNote}
      BY <1>2, <2>1 DEF UpdateJob
    <2>4. noteRows' \subseteq Tasks \X Notes
      BY <1>0, <1>2, <1>8, <2>1, <2>3 DEF UpdateNote, TablesOK
    <2>5. TablesOK'
      BY <1>0, <1>8, <2>4 DEF UpdateNote, TablesOK
    <2> QED BY <2>2, <2>5, TypeHalvesPrime
  <1> QED BY <1>1, <1>4, <1>5, <1>6, <1>7, <1>8 DEF Update

LEMMA TypeNote ==
    ASSUME TypeOK, NEW p \in Procs, AppendNote(p)
    PROVE  TypeOK'
  <1>0. LocalsOK /\ TablesOK /\ FitsAt(pc[p], job[p], read[p]) /\ NotePCs \subseteq PCs
    BY TypeHalves DEF LocalsOK, PCs
  <1>1. job[p] \in NoteJob /\ job[p].task \in Tasks /\ job[p].note \in Notes
    BY <1>0 DEF AppendNote, NoteRead, NoteInsert, NoteWrite, FitsAt, NotePCs, NoteJob
  <1>2. CASE NoteRead(p)
    <2>1. LocalsOK'
      <3>1. CASE rows[job[p].task] = None
        BY <1>0, <1>2, <3>1, Returns DEF NoteRead
      <3>2. CASE rows[job[p].task] # None
        <4>1. rows[job[p].task] \in Row
          BY <1>0, <1>1, <3>2 DEF TablesOK
        <4>2. FitsAt("noteInsert", job[p], rows[job[p].task]) /\ "noteInsert" \in PCs
          BY <1>0, <1>1, <4>1 DEF FitsAt, CreatePCs, WithRowPCs, NotePCs
        <4> QED BY <1>0, <1>2, <3>2, <4>2, Copies DEF NoteRead
      <3> QED BY <3>1, <3>2
    <2>2. TablesOK'
      BY <1>0, <1>2 DEF NoteRead, tables, TablesOK
    <2> QED BY <2>1, <2>2, TypeHalvesPrime
  <1>3. CASE NoteInsert(p)
    <2>1. read[p] \in Row
      BY <1>0, <1>3 DEF NoteInsert, FitsAt
    <2>2. FitsAt("noteWrite", job[p], read[p]) /\ "noteWrite" \in PCs
      BY <1>0, <1>1, <2>1 DEF FitsAt, CreatePCs, WithRowPCs, NotePCs
    <2>3. LocalsOK'
      BY <1>0, <1>3, <2>2, GoesOn DEF NoteInsert
    <2>4. TablesOK'
      BY <1>0, <1>1, <1>3 DEF NoteInsert, TablesOK
    <2> QED BY <2>3, <2>4, TypeHalvesPrime
  <1>4. CASE NoteWrite(p)
    <2>1. LocalsOK'
      BY <1>0, <1>4, Returns DEF NoteWrite
    <2>2. read[p].note \in Seq(Notes)
      BY <1>0, <1>4 DEF NoteWrite, FitsAt, Row
    <2>3. Append(read[p].note, job[p].note) \in Seq(Notes)
      BY <1>1, <2>2
    <2>4. \A r \in Row : [r EXCEPT !.note = Append(read[p].note, job[p].note)] \in Row
      BY <2>3 DEF Row
    <2>5. rows' \in [Tasks -> Row \cup {None}]
      BY <1>0, <1>1, <1>4, <2>4 DEF NoteWrite, TablesOK
    <2>6. TablesOK'
      BY <1>0, <1>4, <2>5 DEF NoteWrite, TablesOK
    <2> QED BY <2>1, <2>6, TypeHalvesPrime
  <1> QED BY <1>2, <1>3, <1>4 DEF AppendNote

LEMMA TypeFlag ==
    ASSUME TypeOK, NEW p \in Procs, Flag(p)
    PROVE  TypeOK'
  <1>1. LocalsOK /\ TablesOK
    BY TypeHalves
  <1>2. LocalsOK'
    BY <1>1, Returns DEF Flag
  <1>3. events' \in [Tasks -> Events]
    BY <1>1 DEF Flag, TablesOK, Events
  <1>4. TablesOK'
    BY <1>1, <1>3 DEF Flag, TablesOK
  <1> QED BY <1>2, <1>4, TypeHalvesPrime

LEMMA TypeOthers ==
    ASSUME TypeOK, Others
    PROVE  TypeOK'
  <1>0. LocalsOK /\ TablesOK
    BY TypeHalves
  <1>1. ASSUME NEW t \in Tasks, DeleteTask(t) PROVE TypeOK'
    <2>1. LocalsOK'
      BY <1>0, <1>1 DEF DeleteTask, LocalsOK
    <2>2. TablesOK'
      BY <1>0, <1>1 DEF DeleteTask, TablesOK
    <2> QED BY <2>1, <2>2, TypeHalvesPrime
  <1>2. ASSUME NEW c \in Commits, NEW t \in used \cup {NoTask}, Back(c, t) PROVE TypeOK'
    <2>1. LocalsOK'
      BY <1>0, <1>2 DEF Back, LocalsOK
    <2>2. backs' \in [Commits -> Tasks \cup {NoTask}] /\ backed' \subseteq Tasks
      BY <1>0, <1>2 DEF Back, TablesOK
    <2>3. TablesOK'
      BY <1>0, <1>2, <2>2 DEF Back, tables, TablesOK
    <2> QED BY <2>1, <2>3, TypeHalvesPrime
  <1> QED BY <1>1, <1>2 DEF Others

LEMMA TypeStep == TypeOK /\ [Next]_vars => TypeOK'
  <1> SUFFICES ASSUME TypeOK, [Next]_vars PROVE TypeOK'
    OBVIOUS
  <1>1. CASE Next
    BY <1>1, TypeOthers, TypeBegin, TypeCreate, TypeUpdate, TypeNote, TypeFlag, TypeAbort DEF Next
  <1>2. CASE UNCHANGED vars
    BY <1>2 DEF vars, TypeOK, Fits
  <1> QED BY <1>1, <1>2

(* Whatever rows others delete meanwhile, a process has the job and the    *)
(* copy that the statement it is about to execute works with.              *)
THEOREM TypeCorrect == Spec => []TypeOK
  <1> QED BY TypeInit, TypeStep, PTL DEF Spec

-----------------------------------------------------------------------------
(* Done tasks.  DoneWasBacked is not inductive: an update writes the       *)
(* status it read, or one the gate let pass, several steps earlier.        *)

GatePCs == {"updateChange", "updateGate", "updateWrite"}

(* A copy of a done task was made of a task that was backed or waived; an  *)
(* update that is past the gate has a reason to be.                        *)
GateAt(p) ==
    /\ (pc[p] \in GatePCs /\ read[p].status = Done) => job[p].task \in backed \cup waived
    /\ (pc[p] = "updateWrite" /\ job[p].status = Done) =>
         read[p].status = Done \/ job[p].skip \/ job[p].task \in backed

GateOK == \A p \in Procs : GateAt(p)

BacksOK == \A c \in Commits : backs[c] # NoTask => backs[c] \in backed

DoneInv == DoneWasBacked /\ GateOK /\ BacksOK

(* Reasons are never forgotten, so the other processes keep theirs. *)
LEMMA GateKept ==
    ASSUME GateOK, NEW p \in Procs, GateAt(p)',
           \A q \in Procs \ {p} : pc'[q] = pc[q] /\ job'[q] = job[q] /\ read'[q] = read[q],
           backed \subseteq backed', waived \subseteq waived'
    PROVE  GateOK'
  <1> SUFFICES ASSUME NEW q \in Procs, q # p PROVE GateAt(q)'
    BY DEF GateOK
  <1>1. GateAt(q) /\ pc'[q] = pc[q] /\ job'[q] = job[q] /\ read'[q] = read[q]
    BY DEF GateOK
  <1> QED BY <1>1 DEF GateAt

(* A step that ends before the updates read, or behind their write. *)
LEMMA GateOutside ==
    ASSUME TypeOK, GateOK, NEW p \in Procs, NEW l, l \notin GatePCs, pc' = [pc EXCEPT ![p] = l],
           \A q \in Procs \ {p} : job'[q] = job[q] /\ read'[q] = read[q],
           backed \subseteq backed', waived \subseteq waived'
    PROVE  GateOK'
  <1>1. pc'[p] = l /\ \A q \in Procs \ {p} : pc'[q] = pc[q]
    BY DEF TypeOK
  <1>2. GateAt(p)'
    BY <1>1 DEF GateAt, GatePCs
  <1> QED BY <1>1, <1>2, GateKept

LEMMA ReturnPointwise ==
    ASSUME TypeOK, NEW p \in Procs, Return(p)
    PROVE  /\ pc' = [pc EXCEPT ![p] = "idle"]
           /\ \A q \in Procs \ {p} : job'[q] = job[q] /\ read'[q] = read[q]
  BY DEF Return, Goto, TypeOK

(* Rows keep their status, or are deleted. *)
LEMMA DoneKept ==
    ASSUME DoneWasBacked, backed \subseteq backed', waived \subseteq waived',
           \A t \in Tasks : rows'[t] # None => rows[t] # None /\ rows'[t].status = rows[t].status
    PROVE  DoneWasBacked'
  BY DEF DoneWasBacked

(* A step that changes neither the rows nor the reasons, and ends outside. *)
LEMMA DoneOutside ==
    ASSUME TypeOK, DoneInv, NEW p \in Procs, NEW l, l \notin GatePCs, pc' = [pc EXCEPT ![p] = l],
           \A q \in Procs \ {p} : job'[q] = job[q] /\ read'[q] = read[q],
           UNCHANGED <<rows, backs, backed, waived>>
    PROVE  DoneInv'
  <1>1. GateOK'
    BY GateOutside DEF DoneInv
  <1>2. DoneWasBacked' /\ BacksOK'
    BY DEF DoneInv, DoneWasBacked, BacksOK
  <1> QED BY <1>1, <1>2 DEF DoneInv

LEMMA DoneReturn ==
    ASSUME TypeOK, DoneInv, NEW p \in Procs, Return(p), UNCHANGED <<rows, backs, backed, waived>>
    PROVE  DoneInv'
  BY ReturnPointwise, DoneOutside DEF GatePCs

LEMMA DoneInit == Init => DoneInv
  BY DEF Init, DoneInv, DoneWasBacked, GateOK, GateAt, GatePCs, BacksOK

LEMMA DoneBegin ==
    ASSUME TypeOK, DoneInv, NEW p \in Procs, Begin(p)
    PROVE  DoneInv'
  <1>1. ASSUME NEW j, NEW l, l \notin GatePCs, Start(p, j, l)
        PROVE  DoneInv'
    <2>1. /\ pc' = [pc EXCEPT ![p] = l] /\ job' = [job EXCEPT ![p] = j] /\ read' = read
          /\ UNCHANGED <<rows, backs, backed, waived>>
      BY <1>1 DEF Start, Goto, tables
    <2>2. \A q \in Procs \ {p} : job'[q] = job[q] /\ read'[q] = read[q]
      BY <2>1 DEF TypeOK
    <2> QED BY <1>1, <2>1, <2>2, DoneOutside
  <1>2. {"createInsert", "updateRead", "noteRead", "flag"} \cap GatePCs = {}
    BY DEF GatePCs
  <1>3. \E l \in {"createInsert", "updateRead", "noteRead", "flag"} : \E j : Start(p, j, l)
    BY DEF Begin, StartCreate, StartUpdate, StartNote, StartFlag
  <1> QED BY <1>1, <1>2, <1>3

LEMMA DoneCreate ==
    ASSUME TypeOK, DoneInv, NEW p \in Procs, Create(p)
    PROVE  DoneInv'
  <1>0. /\ LocalsOK /\ TablesOK /\ FitsAt(pc[p], job[p], read[p])
        /\ {"createRead", "createWrite"} \cap GatePCs = {}
    BY TypeHalves DEF LocalsOK, GatePCs
  <1>1. CASE CreateInsert(p)
    <2>1. job[p].task \in Tasks
      BY <1>0, <1>1 DEF CreateInsert, FitsAt, CreatePCs, CreateJob
    <2>2. /\ pc' = [pc EXCEPT ![p] = "createRead"]
          /\ rows' = [rows EXCEPT ![job[p].task] = [status |-> job[p].status, note |-> <<>>]]
          /\ waived' = IF job[p].status = Done THEN waived \cup {job[p].task} ELSE waived
          /\ UNCHANGED <<backs, backed, job, read>>
      BY <1>1 DEF CreateInsert, Goto
    <2>3. GateOK' /\ BacksOK'
      BY <1>0, <2>2, GateOutside DEF DoneInv, BacksOK
    <2>4. DoneWasBacked'
      BY <1>0, <2>1, <2>2 DEF DoneInv, DoneWasBacked, TablesOK
    <2> QED BY <2>3, <2>4 DEF DoneInv
  <1>2. CASE CreateRead(p)
    <2>1. /\ pc' = [pc EXCEPT ![p] = "createWrite"] /\ job' = job
          /\ \E r : read' = [read EXCEPT ![p] = r]
          /\ UNCHANGED <<rows, backs, backed, waived>>
      BY <1>2 DEF CreateRead, Goto, tables
    <2>2. \A q \in Procs \ {p} : job'[q] = job[q] /\ read'[q] = read[q]
      BY <1>0, <2>1 DEF LocalsOK
    <2> QED BY <1>0, <2>1, <2>2, DoneOutside
  <1>3. CASE CreateWrite(p)
    BY <1>3, DoneReturn DEF CreateWrite
  <1> QED BY <1>1, <1>2, <1>3 DEF Create

LEMMA DoneUpdate ==
    ASSUME TypeOK, DoneInv, NEW p \in Procs, Update(p)
    PROVE  DoneInv'
  <1>0. /\ DoneWasBacked /\ GateOK /\ BacksOK /\ GateAt(p) /\ LocalsOK /\ TablesOK
        /\ FitsAt(pc[p], job[p], read[p])
    BY TypeHalves DEF DoneInv, GateOK, LocalsOK
  <1>00. ASSUME UNCHANGED <<rows, backs, backed, waived>> PROVE DoneWasBacked' /\ BacksOK'
    BY <1>0, <1>00 DEF DoneWasBacked, BacksOK
  <1>1. CASE UpdateRead(p)
    <2>1. UNCHANGED <<rows, backs, backed, waived>>
      BY <1>1 DEF UpdateRead, tables
    <2>2. CASE rows[job[p].task] = None
      BY <1>1, <2>1, <2>2, DoneReturn DEF UpdateRead
    <2>3. CASE rows[job[p].task] # None
      <3>1. /\ pc' = [pc EXCEPT ![p] = "updateChange"] /\ job' = job
            /\ read' = [read EXCEPT ![p] = rows[job[p].task]]
        BY <1>1, <2>3 DEF UpdateRead, Goto
      <3>2. job[p].task \in Tasks
        BY <1>0, <1>1 DEF UpdateRead, FitsAt, UpdateJob
      <3>3. rows[job[p].task].status = Done => job[p].task \in backed \cup waived
        BY <1>0, <2>3, <3>2 DEF DoneWasBacked
      <3>4. pc'[p] = "updateChange" /\ read'[p] = rows[job[p].task]
        BY <1>0, <3>1 DEF LocalsOK
      <3>5. \A q \in Procs \ {p} : pc'[q] = pc[q] /\ job'[q] = job[q] /\ read'[q] = read[q]
        BY <1>0, <3>1 DEF LocalsOK
      <3>6. GateAt(p)'
        BY <2>1, <3>1, <3>3, <3>4 DEF GateAt
      <3> QED BY <1>0, <1>00, <2>1, <3>5, <3>6, GateKept DEF DoneInv
    <2> QED BY <2>2, <2>3
  <1>2. CASE UpdateChange(p)
    <2>1. /\ pc[p] = "updateChange" /\ pc' = [pc EXCEPT ![p] = "updateGate"]
          /\ UNCHANGED <<rows, backs, backed, waived, job, read>>
      BY <1>2 DEF UpdateChange, Goto
    <2>2. pc'[p] = "updateGate" /\ \A q \in Procs \ {p} : pc'[q] = pc[q]
      BY <1>0, <2>1 DEF LocalsOK
    <2>3. GateAt(p)'
      BY <1>0, <2>1, <2>2 DEF GateAt, GatePCs
    <2> QED BY <1>0, <1>00, <2>1, <2>2, <2>3, GateKept DEF DoneInv
  <1>3. CASE UpdateGate(p)
    <2>1. pc[p] = "updateGate" /\ UNCHANGED <<rows, backs, backed, waived>>
      BY <1>3 DEF UpdateGate, tables
    <2>2. CASE Return(p)
      BY <2>1, <2>2, DoneReturn
    <2>3. CASE ~Return(p)
      <3>1. /\ pc' = [pc EXCEPT ![p] = "updateWrite"] /\ UNCHANGED <<job, read>>
            /\ ~(/\ NewStatus(p) = Done /\ read[p].status # Done /\ ~job[p].skip
                 /\ \A c \in Commits : backs[c] # job[p].task)
        BY <1>3, <2>3 DEF UpdateGate, Goto
      <3>2. pc'[p] = "updateWrite" /\ \A q \in Procs \ {p} : pc'[q] = pc[q]
        BY <1>0, <3>1 DEF LocalsOK
      <3>3. job[p].task \in Tasks
        BY <1>0, <2>1 DEF FitsAt, WithRowPCs, UpdateJob
      <3>4. (\E c \in Commits : backs[c] = job[p].task) => job[p].task \in backed
        BY <1>0, <3>3 DEF BacksOK
      <3>5. job[p].status = Done => NewStatus(p) = Done
        BY DEF NewStatus
      <3>6. GateAt(p)'
        BY <1>0, <2>1, <3>1, <3>2, <3>4, <3>5 DEF GateAt, GatePCs
      <3> QED BY <1>0, <1>00, <2>1, <3>1, <3>2, <3>6, GateKept DEF DoneInv
    <2> QED BY <2>2, <2>3
  <1>4. CASE UpdateWrite(p)
    <2> DEFINE t == job[p].task
    <2>1. /\ pc[p] = "updateWrite" /\ pc' = [pc EXCEPT ![p] = "updateMark"]
          /\ rows' = [rows EXCEPT ![t] = IF rows[t] = None THEN None
                       ELSE [rows[t] EXCEPT !.status = NewStatus(p), !.note = NewNote(p)]]
          /\ waived' = IF job[p].status = Done /\ job[p].skip THEN waived \cup {t} ELSE waived
          /\ UNCHANGED <<backs, backed, job, read>>
      BY <1>4 DEF UpdateWrite, Goto
    <2>2. t \in Tasks
      BY <1>0, <2>1 DEF FitsAt, WithRowPCs, UpdateJob
    <2>3. GateOK' /\ BacksOK'
      BY <1>0, <2>1, GateOutside DEF BacksOK, GatePCs
    <2>4. NewStatus(p) = Done => t \in backed' \cup waived'
      BY <1>0, <2>1 DEF GateAt, GatePCs, NewStatus
    <2>5. rows'[t] # None => rows'[t].status = NewStatus(p)
      <3>1. rows'[t] = IF rows[t] = None THEN None
                       ELSE [rows[t] EXCEPT !.status = NewStatus(p), !.note = NewNote(p)]
        BY <1>0, <2>1, <2>2 DEF TablesOK
      <3>2. rows[t] # None => rows[t] \in Row
        BY <1>0, <2>2 DEF TablesOK
      <3> QED BY <3>1, <3>2 DEF Row
    <2>6. \A x \in Tasks : x # t => rows'[x] = rows[x]
      BY <1>0, <2>1 DEF TablesOK
    <2>7. DoneWasBacked'
      BY <1>0, <2>1, <2>4, <2>5, <2>6 DEF DoneWasBacked
    <2> QED BY <2>3, <2>7 DEF DoneInv
  <1>5. CASE UpdateMark(p)
    <2>1. /\ pc' = [pc EXCEPT ![p] = "updateNote"]
          /\ UNCHANGED <<rows, backs, backed, waived, job, read>>
      BY <1>5 DEF UpdateMark, Goto
    <2> QED BY <2>1, DoneOutside DEF GatePCs
  <1>6. CASE UpdateNote(p)
    BY <1>6, DoneReturn DEF UpdateNote
  <1> QED BY <1>1, <1>2, <1>3, <1>4, <1>5, <1>6 DEF Update

LEMMA DoneNote ==
    ASSUME TypeOK, DoneInv, NEW p \in Procs, AppendNote(p)
    PROVE  DoneInv'
  <1>0. /\ LocalsOK /\ TablesOK /\ FitsAt(pc[p], job[p], read[p])
        /\ {"idle", "noteInsert", "noteWrite"} \cap GatePCs = {}
    BY TypeHalves DEF LocalsOK, GatePCs
  <1>1. CASE NoteRead(p)
    <2>1. UNCHANGED <<rows, backs, backed, waived>>
      BY <1>1 DEF NoteRead, tables
    <2>2. CASE rows[job[p].task] = None
      BY <1>1, <2>1, <2>2, DoneReturn DEF NoteRead
    <2>3. CASE rows[job[p].task] # None
      <3>1. /\ pc' = [pc EXCEPT ![p] = "noteInsert"] /\ job' = job
            /\ read' = [read EXCEPT ![p] = rows[job[p].task]]
        BY <1>1, <2>3 DEF NoteRead, Goto
      <3>2. \A q \in Procs \ {p} : job'[q] = job[q] /\ read'[q] = read[q]
        BY <1>0, <3>1 DEF LocalsOK
      <3> QED BY <1>0, <2>1, <3>1, <3>2, DoneOutside
    <2> QED BY <2>2, <2>3
  <1>2. CASE NoteInsert(p)
    <2>1. /\ pc' = [pc EXCEPT ![p] = "noteWrite"]
          /\ UNCHANGED <<rows, backs, backed, waived, job, read>>
      BY <1>2 DEF NoteInsert, Goto
    <2> QED BY <1>0, <2>1, DoneOutside
  <1>3. CASE NoteWrite(p)
    <2> DEFINE t == job[p].task
    <2>1. /\ Return(p) /\ UNCHANGED <<backs, backed, waived>>
          /\ rows' = [rows EXCEPT ![t] = IF rows[t] = None THEN None
                       ELSE [rows[t] EXCEPT !.note = Append(read[p].note, job[p].note)]]
      BY <1>3 DEF NoteWrite
    <2>2. GateOK' /\ BacksOK'
      BY <1>0, <2>1, ReturnPointwise, GateOutside DEF DoneInv, BacksOK
    <2>3. \A x \in Tasks : rows'[x] # None => rows[x] # None /\ rows'[x].status = rows[x].status
      <3> SUFFICES ASSUME NEW x \in Tasks, rows'[x] # None
                   PROVE  rows[x] # None /\ rows'[x].status = rows[x].status
        OBVIOUS
      <3>1. CASE x # t
        BY <1>0, <2>1, <3>1 DEF TablesOK
      <3>2. CASE x = t
        <4>1. rows'[t] = IF rows[t] = None THEN None
                         ELSE [rows[t] EXCEPT !.note = Append(read[p].note, job[p].note)]
          BY <1>0, <2>1, <3>2 DEF TablesOK
        <4>2. rows[t] # None => rows[t] \in Row
          BY <1>0, <3>2 DEF TablesOK
        <4> QED BY <3>2, <4>1, <4>2 DEF Row
      <3> QED BY <3>1, <3>2
    <2>4. DoneWasBacked'
      BY <2>1, <2>3, DoneKept DEF DoneInv
    <2> QED BY <2>2, <2>4 DEF DoneInv
  <1> QED BY <1>1, <1>2, <1>3 DEF AppendNote

LEMMA DoneOthers ==
    ASSUME TypeOK, DoneInv, Others
    PROVE  DoneInv'
  <1>1. ASSUME NEW t \in Tasks, DeleteTask(t) PROVE DoneInv'
    <2>1. /\ rows' = [rows EXCEPT ![t] = None]
          /\ UNCHANGED <<backs, backed, waived, pc, job, read>>
      BY <1>1 DEF DeleteTask
    <2>2. DoneWasBacked'
      BY <2>1 DEF DoneInv, DoneWasBacked, TypeOK
    <2>3. GateOK' /\ BacksOK'
      BY <2>1 DEF DoneInv, GateOK, GateAt, BacksOK
    <2> QED BY <2>2, <2>3 DEF DoneInv
  <1>2. ASSUME NEW c \in Commits, NEW t \in used \cup {NoTask}, Back(c, t) PROVE DoneInv'
    <2>1. /\ backs' = [backs EXCEPT ![c] = t] /\ backed' = backed \cup ({t} \cap Tasks)
          /\ UNCHANGED <<rows, waived, pc, job, read>>
      BY <1>2 DEF Back, tables
    <2>2. DoneWasBacked'
      BY <2>1 DEF DoneInv, DoneWasBacked
    <2>3. GateOK'
      BY <2>1 DEF DoneInv, GateOK, GateAt
    <2>4. t # NoTask => t \in backed'
      BY <2>1 DEF TypeOK
    <2>5. BacksOK'
      BY <2>1, <2>4 DEF DoneInv, BacksOK, TypeOK
    <2> QED BY <2>2, <2>3, <2>5 DEF DoneInv
  <1> QED BY <1>1, <1>2 DEF Others

LEMMA DoneStep == TypeOK /\ DoneInv /\ [Next]_vars => DoneInv'
  <1> SUFFICES ASSUME TypeOK, DoneInv, [Next]_vars PROVE DoneInv'
    OBVIOUS
  <1>1. ASSUME NEW p \in Procs, Flag(p) \/ Abort(p) PROVE DoneInv'
    BY <1>1, DoneReturn DEF Flag, Abort, tables
  <1>2. CASE Next
    BY <1>1, <1>2, DoneOthers, DoneBegin, DoneCreate, DoneUpdate, DoneNote DEF Next
  <1>3. CASE UNCHANGED vars
    BY <1>3 DEF vars, DoneInv, DoneWasBacked, GateOK, GateAt, BacksOK
  <1> QED BY <1>2, <1>3

(* However many processes read, close, reopen, annotate and delete a task  *)
(* between the statements of an update, the task is done only if somebody  *)
(* closed it past the gate on purpose or a verified commit was bound to it *)
(* (UpdateTask, countVerifiedCommits).                                     *)
THEOREM DoneBacked == Spec => []DoneWasBacked
  <1>1. DoneInv => DoneWasBacked
    BY DEF DoneInv
  <1> QED BY DoneInit, DoneStep, TypeCorrect, <1>1, PTL DEF Spec

-----------------------------------------------------------------------------
(* What a write may lose.                                                  *)

(* A row has an id that was drawn, so an insert replaces none. *)
UsedOK == \A t \in Tasks : rows[t] # None => t \in used

LEMMA UsedStep == TypeOK /\ UsedOK /\ [Next]_vars => UsedOK'
  <1> SUFFICES ASSUME TypeOK, UsedOK, [Next]_vars PROVE UsedOK'
    OBVIOUS
  <1>1. ASSUME UNCHANGED <<rows, used>> PROVE UsedOK'
    BY <1>1 DEF UsedOK
  <1>2. ASSUME NEW t \in Tasks, NEW r, rows' = [rows EXCEPT ![t] = r], used' = used \cup {t}
        PROVE  UsedOK'
    BY <1>2 DEF UsedOK, TypeOK
  <1>3. ASSUME NEW t \in Tasks, NEW r, rows[t] # None \/ r = None,
               rows' = [rows EXCEPT ![t] = r], used' = used
        PROVE  UsedOK'
    BY <1>3 DEF UsedOK, TypeOK
  <1>4. ASSUME NEW p \in Procs, Create(p) PROVE UsedOK'
    <2>1. CASE CreateInsert(p)
      <3>1. job[p].task \in Tasks
        BY <2>1, TypeHalves DEF CreateInsert, LocalsOK, FitsAt, CreatePCs, CreateJob
      <3> QED BY <1>2, <2>1, <3>1 DEF CreateInsert
    <2>2. CASE CreateRead(p) \/ CreateWrite(p)
      BY <1>1, <2>2 DEF CreateRead, CreateWrite, tables
    <2> QED BY <1>4, <2>1, <2>2 DEF Create
  <1>5. ASSUME NEW p \in Procs, Update(p) \/ AppendNote(p) PROVE UsedOK'
    <2>1. CASE UpdateWrite(p) \/ NoteWrite(p)
      <3>1. job[p].task \in Tasks
        BY <2>1, TypeHalves
           DEF UpdateWrite, NoteWrite, LocalsOK, FitsAt, WithRowPCs, NotePCs, UpdateJob, NoteJob
      <3>2. used' = used /\ \E r : /\ rows[job[p].task] # None \/ r = None
                                   /\ rows' = [rows EXCEPT ![job[p].task] = r]
        BY <2>1 DEF UpdateWrite, NoteWrite
      <3> QED BY <1>3, <3>1, <3>2
    <2>2. CASE ~(UpdateWrite(p) \/ NoteWrite(p))
      BY <1>1, <1>5, <2>2
         DEF Update, UpdateRead, UpdateChange, UpdateGate, UpdateMark, UpdateNote,
             AppendNote, NoteRead, NoteInsert, tables
    <2> QED BY <2>1, <2>2
  <1>6. ASSUME NEW p \in Procs, Begin(p) \/ Flag(p) \/ Abort(p) PROVE UsedOK'
    BY <1>1, <1>6 DEF Begin, StartCreate, StartUpdate, StartNote, StartFlag, Start, Flag, Abort, tables
  <1>7. ASSUME Others PROVE UsedOK'
    BY <1>1, <1>3, <1>7 DEF Others, DeleteTask, Back, tables
  <1>8. CASE UNCHANGED vars
    BY <1>1, <1>8 DEF vars
  <1> QED BY <1>4, <1>5, <1>6, <1>7, <1>8 DEF Next

Kept == (\A l \in Plans : ListKept(l)) /\ (\A t \in Tasks : RowKept(t))

LEMMA KeptByRest ==
    ASSUME UNCHANGED <<rows, taskIds>>
    PROVE  Kept
  BY DEF Kept, ListKept, RowKept

LEMMA KeptByCreateInsert ==
    ASSUME TypeOK, UsedOK, NEW p \in Procs, CreateInsert(p)
    PROVE  Kept
  <1>1. job[p].task \in Tasks /\ job[p].task \notin used /\ taskIds' = taskIds
    BY TypeHalves DEF CreateInsert, LocalsOK, FitsAt, CreatePCs, CreateJob
  <1>2. rows[job[p].task] = None
    BY <1>1 DEF UsedOK
  <1>3. \A t \in Tasks : t # job[p].task => rows'[t] = rows[t]
    BY DEF CreateInsert, TypeOK
  <1> QED BY <1>1, <1>2, <1>3 DEF Kept, ListKept, RowKept

LEMMA KeptByCreateWrite ==
    ASSUME TypeOK, NEW p \in Procs, CreateWrite(p)
    PROVE  Kept
  <1>1. /\ job[p].task \in Tasks /\ read[p] \in Seq(Tasks)
        /\ pc[p] = "createWrite" /\ pc'[p] = "idle" /\ rows' = rows
    BY TypeHalves DEF CreateWrite, Return, Goto, LocalsOK, FitsAt, CreatePCs, CreateJob
  <1>2. ASSUME NEW l \in Plans PROVE ListKept(l)
    <2>1. CASE l # job[p].plan
      <3>1. taskIds'[l] = taskIds[l]
        BY <2>1 DEF CreateWrite, TypeOK
      <3> QED BY <3>1 DEF ListKept
    <2>2. CASE l = job[p].plan /\ read[p] # taskIds[l]
      BY <1>1, <2>2 DEF ListKept
    <2>3. CASE l = job[p].plan /\ read[p] = taskIds[l]
      <3>1. taskIds'[l] = Append(read[p], job[p].task)
        BY <2>3 DEF CreateWrite, TypeOK
      <3>2. Range(Append(read[p], job[p].task)) = Range(read[p]) \cup {job[p].task}
        BY <1>1, AppendRange
      <3> QED BY <2>3, <3>1, <3>2 DEF ListKept
    <2> QED BY <2>1, <2>2, <2>3
  <1> QED BY <1>1, <1>2 DEF Kept, RowKept

LEMMA KeptByUpdateWrite ==
    ASSUME TypeOK, NEW p \in Procs, UpdateWrite(p)
    PROVE  Kept
  <1> DEFINE t == job[p].task
  <1>1. /\ job[p] \in UpdateJob /\ read[p] \in Row /\ t \in Tasks /\ Writes(p, t)
        /\ taskIds' = taskIds
    BY TypeHalves DEF UpdateWrite, Goto, LocalsOK, FitsAt, WithRowPCs, UpdateJob, Writes
  <1>2. /\ rows'[t] = IF rows[t] = None THEN None
                      ELSE [rows[t] EXCEPT !.status = NewStatus(p), !.note = NewNote(p)]
        /\ \A x \in Tasks : x # t => rows'[x] = rows[x]
    BY <1>1 DEF UpdateWrite, TypeOK
  <1>3. CASE rows[t] = None \/ read[p] # rows[t]
    BY <1>1, <1>2, <1>3 DEF Kept, ListKept, RowKept
  <1>4. CASE rows[t] # None /\ read[p] = rows[t]
    <2>1. rows'[t].status = NewStatus(p) /\ rows'[t].note = NewNote(p)
      BY <1>1, <1>2, <1>4 DEF Row
    <2>2. rows'[t].status = rows[t].status \/ job[p].status # Same
      BY <1>4, <2>1 DEF NewStatus
    <2>3. CASE job[p].note = NoNote
      BY <1>1, <1>2, <1>4, <2>1, <2>2, <2>3 DEF Kept, ListKept, RowKept, NewNote
    <2>4. CASE job[p].note # NoNote /\ ~job[p].append
      BY <1>1, <1>2, <2>2, <2>4 DEF Kept, ListKept, RowKept
    <2>5. CASE job[p].note # NoNote /\ job[p].append
      <3>1. read[p].note \in Seq(Notes) /\ job[p].note \in Notes
        BY <1>1, <2>5 DEF Row, UpdateJob
      <3>2. Range(rows[t].note) \subseteq Range(rows'[t].note)
        BY <1>4, <2>1, <2>5, <3>1, AppendRange DEF NewNote
      <3> QED BY <1>1, <1>2, <2>2, <3>2 DEF Kept, ListKept, RowKept
    <2> QED BY <2>3, <2>4, <2>5
  <1> QED BY <1>3, <1>4

LEMMA KeptByNoteWrite ==
    ASSUME TypeOK, NEW p \in Procs, NoteWrite(p)
    PROVE  Kept
  <1> DEFINE t == job[p].task
  <1>1. /\ job[p] \in NoteJob /\ read[p] \in Row /\ t \in Tasks /\ AddsNote(p, t)
        /\ taskIds' = taskIds
    BY TypeHalves DEF NoteWrite, Return, Goto, LocalsOK, FitsAt, NotePCs, NoteJob, AddsNote
  <1>2. /\ rows'[t] = IF rows[t] = None THEN None
                      ELSE [rows[t] EXCEPT !.note = Append(read[p].note, job[p].note)]
        /\ \A x \in Tasks : x # t => rows'[x] = rows[x]
    BY <1>1 DEF NoteWrite, TypeOK
  <1>3. rows[t] # None => /\ rows[t] \in Row /\ rows'[t].status = rows[t].status
                          /\ rows'[t].note = Append(read[p].note, job[p].note)
    BY <1>1, <1>2 DEF TypeOK, Row
  <1>4. Range(read[p].note) \subseteq Range(Append(read[p].note, job[p].note))
    BY <1>1, AppendRange DEF Row, NoteJob
  <1> QED BY <1>1, <1>2, <1>3, <1>4 DEF Kept, ListKept, RowKept

LEMMA KeptByDelete ==
    ASSUME TypeOK, NEW t \in Tasks, DeleteTask(t)
    PROVE  Kept
  <1>1. taskIds' = taskIds /\ \A x \in Tasks : rows'[x] = IF x = t THEN None ELSE rows[x]
    BY DEF DeleteTask, TypeOK
  <1> QED BY <1>1 DEF Kept, ListKept, RowKept

LEMMA KeptStep == TypeOK /\ UsedOK /\ [Next]_vars => [Kept]_vars
  <1> SUFFICES ASSUME TypeOK, UsedOK, Next PROVE Kept
    OBVIOUS
  <1>1. ASSUME NEW p \in Procs, Create(p) PROVE Kept
    BY <1>1, KeptByCreateInsert, KeptByCreateWrite, KeptByRest DEF Create, CreateRead, tables
  <1>2. ASSUME NEW p \in Procs, Update(p) PROVE Kept
    BY <1>2, KeptByUpdateWrite, KeptByRest
       DEF Update, UpdateRead, UpdateChange, UpdateGate, UpdateMark, UpdateNote, tables
  <1>3. ASSUME NEW p \in Procs, AppendNote(p) PROVE Kept
    BY <1>3, KeptByNoteWrite, KeptByRest DEF AppendNote, NoteRead, NoteInsert, tables
  <1>4. ASSUME NEW p \in Procs, Begin(p) \/ Flag(p) \/ Abort(p) PROVE Kept
    BY <1>4, KeptByRest
       DEF Begin, StartCreate, StartUpdate, StartNote, StartFlag, Start, Flag, Abort, tables
  <1>5. ASSUME Others PROVE Kept
    BY <1>5, KeptByDelete, KeptByRest DEF Others, Back, tables
  <1> QED BY <1>1, <1>2, <1>3, <1>4, <1>5 DEF Next

(* UpdateTask, AppendTaskNote and CreateTask write back whole columns; for *)
(* any number of callers the only writes that drop what another one wrote  *)
(* are those on a copy that is no longer the row, or the list.             *)
THEOREM LossesAreStale == Spec => OnlyStaleWritesLose
  <1>1. Init => UsedOK
    BY DEF Init, UsedOK
  <1>2. Spec => [][Kept]_vars
    BY <1>1, UsedStep, KeptStep, TypeCorrect, PTL DEF Spec
  <1> QED BY <1>2 DEF OnlyStaleWritesLose, Kept

=============================================================================
