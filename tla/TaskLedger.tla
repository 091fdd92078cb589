----------------------------- MODULE TaskLedger -----------------------------
(***************************************************************************)
(* Tasks, their notes and the task lists of plans (store/store.go), which  *)
(* agents change through MCP, people through the web page and the command  *)
(* line.  Every operation reads a row, works on its copy and writes whole  *)
(* columns back; a step is one SQL statement.                              *)
(*                                                                         *)
(* A task may be closed without evidence only on purpose: update_task and  *)
(* --allow-without-commit skip the done gate, every other path asks for a  *)
(* commit that is approved, tested and bound to the task.  The commits are *)
(* those of CommitLedger; here only which task each of them backs matters. *)
(***************************************************************************)
EXTENDS Integers, Sequences, FiniteSets, Functions

CONSTANTS
    Procs,      \* processes that use the ledger
    Tasks,      \* ids u.Slug may draw
    Plans,
    Statuses,
    Done,       \* the status "done"
    Same,       \* no status given: the old one stays
    Notes,      \* texts of notes
    NoNote,     \* no note given
    Commits,
    NoTask,     \* a commit that backs no task
    None,       \* no row, no job, nothing read
    MaxCalls,   \* bound: operations started
    MaxAborts   \* bound: operations that stop half way

ASSUME TaskAssumption ==
    /\ Done \in Statuses /\ Same \notin Statuses /\ NoNote \notin Notes
    /\ NoTask \notin Tasks
    /\ MaxCalls \in Nat /\ MaxAborts \in Nat

Events == {"none", "open", "processed"}

Row == [status : Statuses, note : Seq(Notes)]

ASSUME NoneIsNoRow == None \notin Row

VARIABLES
    rows,      \* the table tasks; last_note is the sequence of its pieces
    used,      \* ids drawn so far
    taskIds,   \* plans.task_ids_json
    noteRows,  \* the table task_notes: the notes callers gave
    changes,   \* the table task_notes: "Status changed from .. to .."
    backs,     \* the task a verified commit is bound to, or NoTask
    events,    \* the task_stale_file event of each task
    backed,    \* history: tasks that have had a verified commit
    waived,    \* history: tasks created done, or closed past the gate
    pc,        \* where each process is
    job,       \* what it was asked to do
    read,      \* its copy of the row, or of the plan's list
    calls, aborts

tables == <<rows, used, taskIds, noteRows, changes, events>>
vars == <<rows, used, taskIds, noteRows, changes, backs, events, backed, waived, pc, job, read,
          calls, aborts>>

Init ==
    /\ rows = [t \in Tasks |-> None] /\ used = {} /\ taskIds = [l \in Plans |-> <<>>]
    /\ noteRows = {} /\ changes = {} /\ events = [t \in Tasks |-> "none"]
    /\ backs = [c \in Commits |-> NoTask] /\ backed = {} /\ waived = {}
    /\ pc = [p \in Procs |-> "idle"] /\ job = [p \in Procs |-> None]
    /\ read = [p \in Procs |-> None] /\ calls = 0 /\ aborts = 0

Goto(p, label) == pc' = [pc EXCEPT ![p] = label]

Return(p) ==
    /\ Goto(p, "idle")
    /\ job' = [job EXCEPT ![p] = None] /\ read' = [read EXCEPT ![p] = None]

(* The process is killed, or a statement fails and the error is returned. *)
Abort(p) ==
    /\ pc[p] # "idle" /\ aborts < MaxAborts
    /\ aborts' = aborts + 1
    /\ Return(p)
    /\ UNCHANGED <<tables, backs, backed, waived, calls>>

Start(p, j, label) ==
    /\ pc[p] = "idle" /\ calls < MaxCalls
    /\ calls' = calls + 1
    /\ job' = [job EXCEPT ![p] = j]
    /\ Goto(p, label)
    /\ UNCHANGED <<tables, backs, backed, waived, read, aborts>>

-----------------------------------------------------------------------------
(* CreateTask: the row, then an event, then the plan's list.               *)

StartCreate(p, t, s, l) ==
    Start(p, [task |-> t, status |-> s, plan |-> l], "createInsert")

CreateInsert(p) ==
    LET j == job[p]
    IN  /\ pc[p] = "createInsert" /\ j.task \notin used
        /\ rows' = [rows EXCEPT ![j.task] = [status |-> j.status, note |-> <<>>]]
        /\ used' = used \cup {j.task}
        /\ waived' = IF j.status = Done THEN waived \cup {j.task} ELSE waived
        /\ Goto(p, "createRead")
        /\ UNCHANGED <<taskIds, noteRows, changes, backs, events, backed, job, read, calls, aborts>>

CreateRead(p) ==
    /\ pc[p] = "createRead"
    /\ read' = [read EXCEPT ![p] = taskIds[job[p].plan]]
    /\ Goto(p, "createWrite")
    /\ UNCHANGED <<tables, backs, backed, waived, job, calls, aborts>>

(* Mutant: the list that was read is not parsed. *)
CreateWriteAlone(p) ==
    /\ pc[p] = "createWrite"
    /\ taskIds' = [taskIds EXCEPT ![job[p].plan] = <<job[p].task>>]
    /\ Return(p)
    /\ UNCHANGED <<rows, used, noteRows, changes, backs, events, backed, waived, calls, aborts>>

CreateWrite(p) ==
    /\ pc[p] = "createWrite"
    /\ taskIds' = [taskIds EXCEPT ![job[p].plan] = Append(read[p], job[p].task)]
    /\ Return(p)
    /\ UNCHANGED <<rows, used, noteRows, changes, backs, events, backed, waived, calls, aborts>>

-----------------------------------------------------------------------------
(* UpdateTask.  The MCP tool update_task skips the gate and appends its    *)
(* note, update_task_status and the web page do neither; the command line  *)
(* lets the caller choose.                                                 *)

StartUpdate(p, t, s, n, skip, append) ==
    Start(p, [task |-> t, status |-> s, note |-> n, skip |-> skip, append |-> append], "updateRead")

(* The status the operation will write: the old one unless one was given. *)
NewStatus(p) == IF job[p].status = Same THEN read[p].status ELSE job[p].status

(* Mutant: a missing row is not an error. *)
UpdateReadMissing(p) ==
    /\ pc[p] = "updateRead"
    /\ read' = [read EXCEPT ![p] = rows[job[p].task]]
    /\ Goto(p, "updateChange")
    /\ UNCHANGED <<tables, backs, backed, waived, job, calls, aborts>>

UpdateRead(p) ==
    /\ pc[p] = "updateRead"
    /\ IF rows[job[p].task] = None
       THEN Return(p)
       ELSE /\ read' = [read EXCEPT ![p] = rows[job[p].task]]
            /\ Goto(p, "updateChange")
            /\ UNCHANGED job
    /\ UNCHANGED <<tables, backs, backed, waived, calls, aborts>>

(* The note of the change is written before the gate decides. *)
UpdateChange(p) ==
    /\ pc[p] = "updateChange"
    /\ changes' = IF NewStatus(p) = read[p].status THEN changes
                  ELSE changes \cup {<<job[p].task, read[p].status, NewStatus(p)>>}
    /\ Goto(p, "updateGate")
    /\ UNCHANGED <<rows, used, taskIds, noteRows, backs, events, backed, waived, job, read, calls, aborts>>

(* Mutant: the gate is passed by any commit, whichever task it backs. *)
UpdateGateAny(p) ==
    /\ pc[p] = "updateGate"
    /\ IF /\ NewStatus(p) = Done /\ read[p].status # Done /\ ~job[p].skip
          /\ \A c \in Commits : backs[c] = NoTask
       THEN Return(p)
       ELSE Goto(p, "updateWrite") /\ UNCHANGED <<job, read>>
    /\ UNCHANGED <<tables, backs, backed, waived, calls, aborts>>

(* countVerifiedCommits *)
UpdateGate(p) ==
    /\ pc[p] = "updateGate"
    /\ IF /\ NewStatus(p) = Done /\ read[p].status # Done /\ ~job[p].skip
          /\ \A c \in Commits : backs[c] # job[p].task
       THEN Return(p)
       ELSE Goto(p, "updateWrite") /\ UNCHANGED <<job, read>>
    /\ UNCHANGED <<tables, backs, backed, waived, calls, aborts>>

NewNote(p) ==
    IF job[p].note = NoNote THEN read[p].note
    ELSE IF job[p].append THEN Append(read[p].note, job[p].note) ELSE <<job[p].note>>

(* A task deleted in the meantime has no row to update. *)
UpdateWrite(p) ==
    LET t == job[p].task
    IN  /\ pc[p] = "updateWrite"
        /\ rows' = [rows EXCEPT ![t] =
               IF @ = None THEN None ELSE [@ EXCEPT !.status = NewStatus(p), !.note = NewNote(p)]]
        /\ waived' = IF job[p].status = Done /\ job[p].skip THEN waived \cup {t} ELSE waived
        /\ Goto(p, "updateMark")
        /\ UNCHANGED <<used, taskIds, noteRows, changes, backs, events, backed, job, read, calls, aborts>>

(* A done task resolves its stale-file event. *)
UpdateMark(p) ==
    LET t == job[p].task
    IN  /\ pc[p] = "updateMark"
        /\ events' = [events EXCEPT ![t] =
               IF NewStatus(p) = Done /\ @ = "open" THEN "processed" ELSE @]
        /\ Goto(p, "updateNote")
        /\ UNCHANGED <<rows, used, taskIds, noteRows, changes, backs, backed, waived, job, read, calls, aborts>>

UpdateNote(p) ==
    /\ pc[p] = "updateNote"
    /\ noteRows' = IF job[p].note = NoNote THEN noteRows
                   ELSE noteRows \cup {<<job[p].task, job[p].note>>}
    /\ Return(p)
    /\ UNCHANGED <<rows, used, taskIds, changes, backs, events, backed, waived, calls, aborts>>

-----------------------------------------------------------------------------
(* AppendTaskNote: the note's own row, then the task's last_note.          *)

StartNote(p, t, n) == Start(p, [task |-> t, note |-> n], "noteRead")

NoteRead(p) ==
    /\ pc[p] = "noteRead"
    /\ IF rows[job[p].task] = None
       THEN Return(p)
       ELSE /\ read' = [read EXCEPT ![p] = rows[job[p].task]]
            /\ Goto(p, "noteInsert")
            /\ UNCHANGED job
    /\ UNCHANGED <<tables, backs, backed, waived, calls, aborts>>

NoteInsert(p) ==
    /\ pc[p] = "noteInsert"
    /\ noteRows' = noteRows \cup {<<job[p].task, job[p].note>>}
    /\ Goto(p, "noteWrite")
    /\ UNCHANGED <<rows, used, taskIds, changes, backs, events, backed, waived, job, read, calls, aborts>>

(* Mutant: the status that was read is written back as well. *)
NoteWriteStatus(p) ==
    LET t == job[p].task
    IN  /\ pc[p] = "noteWrite"
        /\ rows' = [rows EXCEPT ![t] =
               IF @ = None THEN None
               ELSE [@ EXCEPT !.status = read[p].status, !.note = Append(read[p].note, job[p].note)]]
        /\ Return(p)
        /\ UNCHANGED <<used, taskIds, noteRows, changes, backs, events, backed, waived, calls, aborts>>

NoteWrite(p) ==
    LET t == job[p].task
    IN  /\ pc[p] = "noteWrite"
        /\ rows' = [rows EXCEPT ![t] =
               IF @ = None THEN None ELSE [@ EXCEPT !.note = Append(read[p].note, job[p].note)]]
        /\ Return(p)
        /\ UNCHANGED <<used, taskIds, noteRows, changes, backs, events, backed, waived, calls, aborts>>

-----------------------------------------------------------------------------
(* The daemon, the web page, and the commits.                              *)

(* staleFileTasks: a done task whose files newer commits touch is flagged  *)
(* once; it may have been reopened by the time the event is created.       *)
StartFlag(p, t) ==
    /\ rows[t] # None /\ rows[t].status = Done /\ events[t] = "none"
    /\ Start(p, [task |-> t], "flag")

Flag(p) ==
    /\ pc[p] = "flag"
    /\ events' = [events EXCEPT ![job[p].task] = "open"]
    /\ Return(p)
    /\ UNCHANGED <<rows, used, taskIds, noteRows, changes, backs, backed, waived, calls, aborts>>

DeleteTask(t) ==
    /\ rows' = [rows EXCEPT ![t] = None]
    /\ UNCHANGED <<used, taskIds, noteRows, changes, backs, events, backed, waived, pc, job, read,
                   calls, aborts>>

(* UpdateCommitFor: a commit is verified for a task, rebound, or rejected. *)
Back(c, t) ==
    /\ backs' = [backs EXCEPT ![c] = t]
    /\ backed' = backed \cup ({t} \cap Tasks)
    /\ UNCHANGED <<tables, waived, pc, job, read, calls, aborts>>

-----------------------------------------------------------------------------

Create(p) == CreateInsert(p) \/ CreateRead(p) \/ CreateWrite(p)

Update(p) ==
    UpdateRead(p) \/ UpdateChange(p) \/ UpdateGate(p) \/ UpdateWrite(p) \/ UpdateMark(p) \/ UpdateNote(p)

AppendNote(p) == NoteRead(p) \/ NoteInsert(p) \/ NoteWrite(p)

Begin(p) ==
    \/ \E t \in Tasks \ used, s \in Statuses, l \in Plans : StartCreate(p, t, s, l)
    \/ \E t \in used, s \in Statuses \cup {Same}, n \in Notes \cup {NoNote}, skip, append \in BOOLEAN :
         StartUpdate(p, t, s, n, skip, append)
    \/ \E t \in used, n \in Notes : StartNote(p, t, n)
    \/ \E t \in used : StartFlag(p, t)

Others ==
    \/ \E t \in Tasks : DeleteTask(t)
    \/ \E c \in Commits, t \in used \cup {NoTask} : Back(c, t)

Next ==
    \/ Others
    \/ \E p \in Procs : Begin(p) \/ Create(p) \/ Update(p) \/ AppendNote(p) \/ Flag(p) \/ Abort(p)

Spec == Init /\ [][Next]_vars

-----------------------------------------------------------------------------
(* Properties.                                                             *)

CreateJob == [task : Tasks, status : Statuses, plan : Plans]
UpdateJob == [task : Tasks, status : Statuses \cup {Same}, note : Notes \cup {NoNote},
              skip : BOOLEAN, append : BOOLEAN]
NoteJob == [task : Tasks, note : Notes]
FlagJob == [task : Tasks]

CreatePCs == {"createInsert", "createRead", "createWrite"}
WithRowPCs == {"updateChange", "updateGate", "updateWrite", "updateMark", "updateNote"}
NotePCs == {"noteRead", "noteInsert", "noteWrite"}

(* A process has a job and a copy that fit the code it is in. *)
Fits(p) ==
    /\ pc[p] \in CreatePCs => job[p] \in CreateJob
    /\ pc[p] = "createWrite" => read[p] \in Seq(Tasks)
    /\ pc[p] \in WithRowPCs \cup {"updateRead"} => job[p] \in UpdateJob
    /\ pc[p] \in NotePCs => job[p] \in NoteJob
    /\ pc[p] \in WithRowPCs \cup {"noteInsert", "noteWrite"} => read[p] \in Row
    /\ pc[p] = "flag" => job[p] \in FlagJob

(* Every variable has the shape the code gives it. *)
TypeOK ==
    /\ rows \in [Tasks -> Row \cup {None}] /\ used \in SUBSET Tasks
    /\ taskIds \in [Plans -> Seq(Tasks)]
    /\ noteRows \subseteq Tasks \X Notes /\ changes \subseteq Tasks \X Statuses \X Statuses
    /\ backs \in [Commits -> Tasks \cup {NoTask}] /\ events \in [Tasks -> Events]
    /\ backed \subseteq Tasks /\ waived \subseteq Tasks
    /\ pc \in [Procs -> {"idle", "updateRead", "flag"} \cup CreatePCs \cup WithRowPCs \cup NotePCs]
    /\ DOMAIN job = Procs /\ DOMAIN read = Procs
    /\ \A p \in Procs : Fits(p)
    /\ calls \in 0..MaxCalls /\ aborts \in 0..MaxAborts

(* A task is done only if somebody closed it past the gate on purpose or   *)
(* it has had a verified commit, although the status an operation writes   *)
(* may be one it read before others reopened or closed the task            *)
(* (countVerifiedCommits, "would mark tasks done on untraceable records"). *)
DoneWasBacked ==
    \A t \in Tasks : (rows[t] # None /\ rows[t].status = Done) => t \in backed \cup waived

(* Every list keeps its tasks, unless the copy written back was old. *)
ListKept(l) ==
    \/ Range(taskIds[l]) \subseteq Range(taskIds'[l])
    \/ \E p \in Procs : /\ pc[p] = "createWrite" /\ pc'[p] = "idle"
                        /\ job[p].plan = l /\ read[p] # taskIds[l]

Writes(p, t) == pc[p] = "updateWrite" /\ pc'[p] = "updateMark" /\ job[p].task = t

AddsNote(p, t) == pc[p] = "noteWrite" /\ pc'[p] = "idle" /\ job[p].task = t

(* A row that stays keeps its pieces of notes and its status, unless the   *)
(* copy written back was old or the caller asked for something else.       *)
RowKept(t) ==
    (rows[t] # None /\ rows'[t] # None) =>
        /\ \/ Range(rows[t].note) \subseteq Range(rows'[t].note)
           \/ \E p \in Procs :
                \/ (Writes(p, t) \/ AddsNote(p, t)) /\ read[p] # rows[t]
                \/ Writes(p, t) /\ ~job[p].append /\ job[p].note # NoNote
        /\ \/ rows[t].status = rows'[t].status
           \/ \E p \in Procs : Writes(p, t) /\ (read[p] # rows[t] \/ job[p].status # Same)

(* What other callers wrote is lost only when an operation writes on a     *)
(* copy that is out of date: a task in its plan's list, a piece of a note  *)
(* unless the caller replaces it, a status unless the caller gives one     *)
(* (UpdateTask and AppendTaskNote write back whole columns they read).     *)
OnlyStaleWritesLose ==
    [][(\A l \in Plans : ListKept(l)) /\ (\A t \in Tasks : RowKept(t))]_vars

=============================================================================
