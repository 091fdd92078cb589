------------------------- MODULE CommitLedgerProofs -------------------------
(***************************************************************************)
(* Theorems about CommitLedger, for any number of processes, commits,      *)
(* tasks and operations.                                                   *)
(***************************************************************************)
EXTENDS CommitLedger, SequenceTheorems, TLAPS

-----------------------------------------------------------------------------
(* Types.                                                                  *)

PCs == {"idle", "hookBind"} \cup BindPCs \cup GitPCs \cup RecordPCs
           \cup UpdatePCs \cup SyncPCs \cup EmergePCs

EventType == [row : Nat, consumed : BOOLEAN, processed : BOOLEAN, orphan : BOOLEAN]

UpdateJob == [op : {"update"}, patch : Patches]

Jobs == JobType \cup UpdateJob \cup {None}

Works == GitCommits \cup (GitCommits \X Nat) \cup Nat

LocalTypes ==
    /\ pc \in [Procs -> PCs] /\ job \in [Procs -> Jobs] /\ found \in [Procs -> Nat]
    /\ seen \in [Procs -> [bind : BOOLEAN, fill : BOOLEAN]]
    /\ work \in [Procs -> SUBSET Works] /\ parsed \in [Procs -> SUBSET GitCommits]
    /\ snap \in [Procs -> Seq(Row)] /\ count \in [Procs -> Nat]

BoundTypes ==
    /\ unfound \subseteq Hashes /\ uncounted \subseteq Nat /\ today \in 0 .. MaxDays
    /\ calls \in 0 .. MaxCalls /\ faults \in 0 .. MaxFaults

TableTypes ==
    /\ repo \subseteq GitCommits /\ acked \subseteq repo
    /\ commits \in Seq(Row)
    /\ links \subseteq DOMAIN commits
    /\ events \in Seq(EventType)
    /\ \A k \in DOMAIN events : events[k].row \in DOMAIN commits
    /\ binds \subseteq (DOMAIN commits) \X Tasks
    /\ BoundTypes

(* What a process works on is there; a full hash it was given was made.    *)
ProcFits(p) ==
    /\ Fits(p)
    /\ pc[p] = "idle" => work[p] = {}
    /\ pc[p] \in RecordPCs => (job[p].ref \in GitCommits => job[p].ref \in repo)
    /\ pc[p] \in {"createTask", "createInsert"} => job[p].task # NoTask
    /\ parsed[p] \subseteq repo
    /\ DOMAIN snap[p] \subseteq DOMAIN commits

LedgerInv == TableTypes /\ LocalTypes /\ \A p \in Procs : ProcFits(p)

LEMMA LedgerInvTypeOK == LedgerInv => TypeOK
<1>. SUFFICES ASSUME LedgerInv PROVE TypeOK
  OBVIOUS
<1>1. parsed \in [Procs -> SUBSET repo]
  BY DEF LedgerInv, LocalTypes, ProcFits
<1>. QED
  BY <1>1 DEF LedgerInv, TableTypes, BoundTypes, LocalTypes, ProcFits, TypeOK, PCs, EventType

(* What the processes other than p hold stays.                             *)
OthersKept(p) ==
    \A q \in Procs \ {p} :
        /\ pc'[q] = pc[q] /\ job'[q] = job[q] /\ found'[q] = found[q] /\ seen'[q] = seen[q]
        /\ work'[q] = work[q] /\ parsed'[q] = parsed[q] /\ snap'[q] = snap[q]
        /\ count'[q] = count[q]

(* Nothing that was there is gone.                                         *)
Grows == repo \subseteq repo' /\ DOMAIN commits \subseteq DOMAIN commits'

LEMMA Frame ==
    ASSUME LedgerInv, NEW p \in Procs, OthersKept(p), Grows, TableTypes', LocalTypes',
           ProcFits(p)'
    PROVE  LedgerInv'
<1>1. ASSUME NEW q \in Procs, q # p PROVE ProcFits(q)'
  <2>1. /\ pc'[q] = pc[q] /\ job'[q] = job[q] /\ found'[q] = found[q]
        /\ work'[q] = work[q] /\ parsed'[q] = parsed[q] /\ snap'[q] = snap[q]
    BY <1>1 DEF OthersKept
  <2>2. Fits(q) /\ Fits(q)'
    BY <2>1 DEF LedgerInv, ProcFits, Fits, Grows
  <2>. QED
    BY <2>1, <2>2 DEF LedgerInv, ProcFits, Grows
<1>. QED
  BY <1>1 DEF LedgerInv

LEMMA ResetLocals ==
    ASSUME LocalTypes, NEW p \in Procs, Reset(p)
    PROVE  /\ LocalTypes' /\ OthersKept(p) /\ pc'[p] = "idle"
           /\ ProcFits(p)'
<1>1. NothingSeen \in [bind : BOOLEAN, fill : BOOLEAN]
  BY DEF NothingSeen
<1>2. <<>> \in Seq(Row) /\ "idle" \in PCs /\ None \in Jobs
  BY DEF PCs, Jobs
<1>3. LocalTypes' /\ OthersKept(p)
  BY <1>1, <1>2 DEF LocalTypes, OthersKept, Reset, Goto
<1>4. /\ pc'[p] = "idle" /\ parsed'[p] = {} /\ snap'[p] = <<>> /\ work'[p] = {}
  BY DEF LocalTypes, Reset, Goto
<1>5. ProcFits(p)'
  BY <1>4 DEF ProcFits, Fits, BindPCs, GitPCs, RecordPCs, UpdatePCs, RowPCs
<1>. QED
  BY <1>3, <1>4, <1>5

-----------------------------------------------------------------------------
(* What the statements do to the table of commits.                         *)

(* Only row i may differ.                                                  *)
OnlyRow(rows, new, i) ==
    /\ new \in Seq(Row) /\ DOMAIN new = DOMAIN rows
    /\ \A j \in DOMAIN rows : j # i => new[j] = rows[j]

LEMMA RowSet ==
    ASSUME NEW rows \in Seq(Row), NEW i \in DOMAIN rows, NEW row \in Row,
           NEW new, new = [rows EXCEPT ![i] = row]
    PROVE  OnlyRow(rows, new, i) /\ new[i] = row
  BY DEF OnlyRow

LEMMA PatchedRow ==
    ASSUME NEW row \in Row, NEW c \in Patches
    PROVE  /\ Patched(row, c) \in Row /\ Patched(row, c).title = row.title
           /\ "task" \in DOMAIN c => Patched(row, c).task = c.task
           /\ "task" \notin DOMAIN c => Patched(row, c).task = row.task
           /\ "hash" \notin DOMAIN c => Patched(row, c).hash = row.hash
<1>1. /\ DOMAIN c \subseteq {"task", "hash"}
      /\ "task" \in DOMAIN c => c.task \in Tasks \cup {NoTask}
      /\ "hash" \in DOMAIN c => c.hash \in Hashes \cup {NoHash}
  BY LedgerAssumption
<1>. DEFINE of(f) == IF f \in DOMAIN c THEN c[f] ELSE row[f]
<1>2. DOMAIN row = {"hash", "title", "files", "task", "date"}
  BY DEF Row
<1>3. Patched(row, c) = [f \in {"hash", "title", "files", "task", "date"} |-> of(f)]
  BY <1>2 DEF Patched
<1>. HIDE DEF of
<1>4. Patched(row, c) = [hash |-> of("hash"), title |-> of("title"), files |-> of("files"),
                         task |-> of("task"), date |-> of("date")]
  BY <1>3
<1>5. /\ of("title") = row.title /\ of("files") = row.files /\ of("date") = row.date
      /\ of("hash") = (IF "hash" \in DOMAIN c THEN c.hash ELSE row.hash)
      /\ of("task") = (IF "task" \in DOMAIN c THEN c.task ELSE row.task)
  BY <1>1 DEF of
<1>6. /\ of("title") \in Titles /\ of("files") \in BOOLEAN /\ of("date") \in Int
      /\ of("hash") \in Hashes \cup {NoHash} /\ of("task") \in Tasks \cup {NoTask}
  BY <1>1, <1>5 DEF Row
<1>. QED
  BY <1>4, <1>5, <1>6 DEF Row

(* A row is added at the end.                                              *)
Added(rows, new, row) ==
    /\ new \in Seq(Row) /\ Len(new) = Len(rows) + 1
    /\ DOMAIN new = DOMAIN rows \cup {Len(rows) + 1} /\ Len(rows) + 1 \notin DOMAIN rows
    /\ \A j \in DOMAIN rows : new[j] = rows[j]
    /\ new[Len(rows) + 1] = row

LEMMA AddRow ==
    ASSUME NEW rows \in Seq(Row), NEW row \in Row
    PROVE  Added(rows, Append(rows, row), row)
  BY AppendProperties DEF Added

LEMMA NewRowType ==
    ASSUME NEW j \in JobType, NEW t \in Tasks \cup {NoTask}, NEW hash \in Hashes,
           NEW date \in Int
    PROVE  /\ NewRow(j, hash, t, date) \in Row
           /\ NewRow(j, hash, t, date).hash = hash /\ NewRow(j, hash, t, date).title = j.title
           /\ NewRow(j, hash, t, date).task = t
  BY DEF NewRow, JobType, Row

LEMMA AnyOfIn ==
    ASSUME NEW S, S # {}
    PROVE  AnyOf(S) \in S
  BY DEF AnyOf

LEMMA GitHash == GitCommits \subseteq Hashes /\ Shorts \subseteq Hashes
  BY DEF Hashes

LEMMA RefHash ==
    ASSUME NEW g \in GitCommits
    PROVE  /\ g \in Hashes /\ ShortOf[g] \in Shorts /\ ShortOf[g] \in Hashes
           /\ TitleOf[g] \in Titles /\ HasFiles[g] \in BOOLEAN
           /\ ShortOf[g] \notin GitCommits
  BY LedgerAssumption DEF Hashes, Shorts

LEMMA JobIn ==
    ASSUME TableTypes, NEW op \in AllOps, NEW g \in GitCommits, NEW ref \in Hashes,
           NEW t \in Tasks \cup {NoTask}, NEW files \in BOOLEAN
    PROVE  Job(op, g, ref, t, files) \in JobType
<1>1. (IF op = "sync" THEN AuthoredOn[g] ELSE today) \in Int
  BY LedgerAssumption DEF TableTypes, BoundTypes
<1>. QED
  BY <1>1, RefHash DEF Job, JobType

(* Marking and consuming events change neither which there are nor what    *)
(* they are about.                                                         *)
SameEvents(new) ==
    /\ new \in Seq(EventType) /\ DOMAIN new = DOMAIN events
    /\ \A k \in DOMAIN events : new[k].row = events[k].row /\ new[k].orphan = events[k].orphan

LEMMA ProcessedEvents ==
    ASSUME TableTypes, NEW id
    PROVE  /\ SameEvents(Processed(id))
           /\ \A k \in DOMAIN events :
                 Processed(id)[k].processed = (events[k].processed \/ events[k].row = id)
<1>1. \A k \in DOMAIN events : events[k] \in EventType
  BY DEF TableTypes
<1>. DEFINE new(k) == [events[k] EXCEPT !.processed = @ \/ events[k].row = id]
<1>2. \A k \in DOMAIN events :
         /\ new(k) \in EventType
         /\ new(k).row = events[k].row /\ new(k).orphan = events[k].orphan
         /\ new(k).processed = (events[k].processed \/ events[k].row = id)
  BY <1>1 DEF EventType
<1>3. Processed(id) = [k \in DOMAIN events |-> new(k)]
  BY DEF Processed
<1>. HIDE DEF new
<1>4. DOMAIN events = 1 .. Len(events) /\ Len(events) \in Nat
  BY DEF TableTypes
<1>5. Processed(id) \in Seq(EventType)
  BY <1>2, <1>3, <1>4
<1>. QED
  BY <1>2, <1>3, <1>5 DEF SameEvents

-----------------------------------------------------------------------------
(* Type correctness, action by action.                                     *)

LEMMA TablesKept ==
    ASSUME TableTypes, repo \subseteq repo', repo' \subseteq GitCommits, acked' \subseteq repo',
           commits' \in Seq(Row), DOMAIN commits \subseteq DOMAIN commits',
           links' \subseteq DOMAIN commits', SameEvents(events'),
           binds' \subseteq (DOMAIN commits') \X Tasks, BoundTypes'
    PROVE  TableTypes' /\ Grows
<1>1. \A k \in DOMAIN events' : events'[k].row \in DOMAIN commits'
  BY DEF TableTypes, SameEvents
<1>. QED
  BY <1>1 DEF TableTypes, Grows, SameEvents

LEMMA SameTables ==
    ASSUME TableTypes, UNCHANGED <<ledger, history>>, BoundTypes'
    PROVE  TableTypes' /\ Grows
  BY DEF TableTypes, Grows, ledger, history

LEMMA SameBounds == ASSUME TableTypes, UNCHANGED bounds PROVE BoundTypes'
  BY DEF TableTypes, BoundTypes, bounds

LEMMA FailBounds ==
    ASSUME TableTypes, NEW refs \in SUBSET Hashes, NEW ids \in SUBSET Nat, Fails(refs, ids)
    PROVE  BoundTypes'
  BY LedgerAssumption DEF TableTypes, BoundTypes, Fails

LEMMA FailPlain == ASSUME TableTypes, Fails({}, {}) PROVE BoundTypes'
  BY FailBounds

LEMMA EventsSame == ASSUME TableTypes, events' = events PROVE SameEvents(events')
  BY DEF TableTypes, SameEvents

LEMMA MarkTypes ==
    ASSUME TableTypes, NEW id, Mark(id)
    PROVE  SameEvents(events') /\ BoundTypes'
<1>1. CASE events' = Processed(id) /\ UNCHANGED bounds
  BY <1>1, ProcessedEvents, SameBounds
<1>2. CASE UNCHANGED events /\ Fails({}, {})
  BY <1>2, EventsSame, FailPlain
<1>. QED
  BY <1>1, <1>2 DEF Mark

(* A step that changes only what p holds, whether a statement failed or    *)
(* not.                                                                    *)
LEMMA LocalBoundStep ==
    ASSUME LedgerInv, NEW p \in Procs, UNCHANGED <<ledger, history>>, BoundTypes',
           LocalTypes', OthersKept(p), ProcFits(p)'
    PROVE  LedgerInv'
<1>1. TableTypes' /\ Grows
  BY SameTables DEF LedgerInv
<1>. QED
  BY <1>1, Frame

LEMMA LocalStep ==
    ASSUME LedgerInv, NEW p \in Procs, UNCHANGED <<ledger, history, bounds>>,
           LocalTypes', OthersKept(p), ProcFits(p)'
    PROVE  LedgerInv'
  BY SameBounds, LocalBoundStep DEF LedgerInv

LEMMA ResetStep ==
    ASSUME LedgerInv, NEW p \in Procs, UNCHANGED <<ledger, history, bounds>>, Reset(p)
    PROVE  LedgerInv'
  BY ResetLocals, LocalStep DEF LedgerInv

LEMMA TypeOthers ==
    ASSUME LedgerInv, Others
    PROVE  LedgerInv'
<1>1. /\ UNCHANGED <<pc, job, found, seen, work, parsed, snap, count>>
      /\ BoundTypes'
  <2>1. UNCHANGED <<pc, locals>> /\ (UNCHANGED bounds \/ NextDay)
    BY DEF Others, GitCommit, Link, Resolve, MarkConsumed, NextDay
  <2>2. NextDay => BoundTypes'
    BY LedgerAssumption DEF NextDay, LedgerInv, TableTypes, BoundTypes
  <2>. QED
    BY <2>1, <2>2, SameBounds DEF LedgerInv, locals
<1>2. LocalTypes'
  BY <1>1 DEF LedgerInv, LocalTypes
<1>3. TableTypes' /\ Grows
  <2>1. ASSUME NEW g \in GitCommits, GitCommit(g) PROVE TableTypes' /\ Grows
    <3>1. repo' = repo \cup {g} /\ UNCHANGED <<commits, links, events, acked, binds>>
      BY <2>1 DEF GitCommit, tables, history
    <3>. QED
      BY <1>1, <3>1 DEF LedgerInv, TableTypes, Grows
  <2>2. ASSUME NEW id \in DOMAIN commits, Link(id) PROVE TableTypes' /\ Grows
    <3>1. links' = links \cup {id} /\ UNCHANGED <<repo, commits, events, acked, binds>>
      BY <2>2 DEF Link, history
    <3>. QED
      BY <1>1, <3>1 DEF LedgerInv, TableTypes, Grows
  <2>3. ASSUME NEW id \in DOMAIN commits, Resolve(id) PROVE TableTypes' /\ Grows
    <3>1. events' = Processed(id) /\ UNCHANGED <<repo, commits, links, acked, binds>>
      BY <2>3 DEF Resolve, history
    <3>2. SameEvents(events')
      BY <3>1, ProcessedEvents DEF LedgerInv
    <3>. QED
      BY <1>1, <3>1, <3>2, TablesKept DEF LedgerInv, TableTypes
  <2>4. ASSUME MarkConsumed PROVE TableTypes' /\ Grows
    <3>1. events' = [k \in DOMAIN events |-> [events[k] EXCEPT !.consumed = TRUE]]
          /\ UNCHANGED <<repo, commits, links, acked, binds>>
      BY <2>4 DEF MarkConsumed, history
    <3>2. SameEvents(events')
      <4>1. \A k \in DOMAIN events : events[k] \in EventType
        BY DEF LedgerInv, TableTypes
      <4>2. \A k \in DOMAIN events :
               /\ events'[k] \in EventType
               /\ events'[k].row = events[k].row /\ events'[k].orphan = events[k].orphan
        BY <3>1, <4>1 DEF EventType
      <4>3. DOMAIN events = 1 .. Len(events) /\ Len(events) \in Nat
        BY DEF LedgerInv, TableTypes
      <4>4. events' \in Seq(EventType)
        BY <3>1, <4>2, <4>3
      <4>. QED
        BY <3>1, <4>2, <4>4 DEF SameEvents
    <3>. QED
      BY <1>1, <3>1, <3>2, TablesKept DEF LedgerInv, TableTypes
  <2>5. ASSUME NextDay PROVE TableTypes' /\ Grows
    BY <1>1, <2>5, SameTables DEF LedgerInv, NextDay
  <2>. QED
    BY <2>1, <2>2, <2>3, <2>4, <2>5 DEF Others
<1>4. \A q \in Procs : ProcFits(q)'
  <2>1. SUFFICES ASSUME NEW q \in Procs PROVE ProcFits(q)'
    OBVIOUS
  <2>2. Fits(q) /\ Fits(q)'
    BY <1>1, <1>3 DEF LedgerInv, ProcFits, Fits, Grows
  <2>. QED
    BY <1>1, <1>3, <2>2 DEF LedgerInv, ProcFits, Grows
<1>. QED
  BY <1>2, <1>3, <1>4 DEF LedgerInv

(* Operations begin.                                                       *)

LEMMA CallStep ==
    ASSUME LedgerInv, NEW p \in Procs, NEW op, NEW j \in Jobs, NEW id \in Nat, NEW label \in PCs,
           Call(p, op, j, id, label)
    PROVE  /\ LocalTypes' /\ OthersKept(p)
           /\ pc'[p] = label /\ job'[p] = j /\ found'[p] = id
           /\ work' = work /\ parsed' = parsed /\ snap' = snap
           /\ UNCHANGED <<commits, links, events, acked, binds, faults, unfound, uncounted>>
           /\ BoundTypes' /\ pc[p] = "idle"
<1>1. /\ pc[p] = "idle" /\ calls < MaxCalls /\ calls' = calls + 1
      /\ job' = [job EXCEPT ![p] = j] /\ found' = [found EXCEPT ![p] = id]
      /\ pc' = [pc EXCEPT ![p] = label]
      /\ UNCHANGED <<commits, links, events, acked, binds, seen, work, parsed, snap, count,
                     faults, unfound, uncounted, today>>
  BY DEF Call, Goto, tables, history
<1>2. BoundTypes'
  BY <1>1, LedgerAssumption DEF LedgerInv, TableTypes, BoundTypes
<1>. QED
  BY <1>1, <1>2 DEF LedgerInv, LocalTypes, OthersKept

(* A call whose process fits what it was asked to do.                      *)
LEMMA CallFits ==
    ASSUME LedgerInv, NEW p \in Procs, NEW op, NEW j \in Jobs, NEW id \in Nat, NEW label \in PCs,
           Call(p, op, j, id, label), repo \subseteq repo', repo' \subseteq GitCommits,
           label \in {"gitFind", "recordLookup", "createFind", "update"},
           label # "update" => j \in JobType /\ (j.ref \in GitCommits => j.ref \in repo'),
           label = "gitFind" => j.ref \in repo',
           label = "update" => j \in UpdateJob /\ id \in DOMAIN commits
    PROVE  LedgerInv'
<1>1. /\ LocalTypes' /\ OthersKept(p) /\ pc'[p] = label /\ job'[p] = j /\ found'[p] = id
      /\ work' = work /\ parsed' = parsed /\ snap' = snap
      /\ UNCHANGED <<commits, links, events, acked, binds>>
      /\ BoundTypes' /\ pc[p] = "idle"
  BY CallStep
<1>2. TableTypes' /\ Grows
  <2>1. SameEvents(events')
    BY <1>1, EventsSame DEF LedgerInv, TableTypes
  <2>. QED
    BY <1>1, <2>1, TablesKept DEF LedgerInv, TableTypes
<1>3. work'[p] = {} /\ parsed'[p] \subseteq repo' /\ DOMAIN snap'[p] \subseteq DOMAIN commits'
  BY <1>1, <1>2 DEF LedgerInv, ProcFits, Grows
<1>4. Fits(p)'
  BY <1>1, <1>3 DEF Fits, BindPCs, GitPCs, RecordPCs, UpdatePCs, RowPCs, UpdateJob
<1>5. ProcFits(p)'
  BY <1>1, <1>3, <1>4 DEF ProcFits, RecordPCs
<1>. QED
  BY <1>1, <1>2, <1>5, Frame

(* The row is bound to the task if it had none.                            *)
BoundRow(rows, new, i, t) ==
    /\ OnlyRow(rows, new, i) /\ new[i] \in Row
    /\ new[i].task = (IF rows[i].task = NoTask THEN t ELSE rows[i].task)
    /\ new[i].title = rows[i].title /\ new[i].hash = rows[i].hash

LEMMA BoundRowSet ==
    ASSUME NEW rows \in Seq(Row), NEW i \in DOMAIN rows, NEW t \in Tasks, NEW files \in BOOLEAN,
           NEW new, new = [rows EXCEPT ![i].task = IF rows[i].task = NoTask
                                                   THEN t ELSE rows[i].task,
                                       ![i].files = files]
    PROVE  BoundRow(rows, new, i, t)
<1>. DEFINE task == IF rows[i].task = NoTask THEN t ELSE rows[i].task
<1>1. rows[i] \in Row
  OBVIOUS
<1>2. task \in Tasks \cup {NoTask}
  BY <1>1 DEF Row
<1>. DEFINE row == [rows[i] EXCEPT !.task = task, !.files = files]
<1>3. new = [rows EXCEPT ![i] = row]
  <2>1. \A j \in DOMAIN rows : new[j] = [rows EXCEPT ![i] = row][j]
    OBVIOUS
  <2>. QED
    BY <1>1, <2>1
<1>. HIDE DEF task
<1>4. /\ row \in Row /\ row.task = task
      /\ row.title = rows[i].title /\ row.hash = rows[i].hash
  BY <1>1, <1>2 DEF Row
<1>. HIDE DEF row
<1>5. OnlyRow(rows, new, i) /\ new[i] = row
  BY <1>3, <1>4, RowSet
<1>. QED
  BY <1>4, <1>5 DEF BoundRow, task

(* The item is left out, added, or its row bound.                          *)
LEMMA BatchItemType ==
    ASSUME TableTypes, NEW rows \in Seq(Row), NEW t \in Tasks, NEW item \in JobType,
           NEW how \in Outcomes
    PROVE  \/ BatchItem(t, rows, item, how) = rows
           \/ /\ how = "missed" \/ ExistingEitherWay(rows, item.ref) = {}
              /\ Added(rows, BatchItem(t, rows, item, how), NewRow(item, item.ref, t, today))
           \/ \E i \in ExistingEitherWay(rows, item.ref) :
                 BoundRow(rows, BatchItem(t, rows, item, how), i, t)
<1>1. CASE how = "failed"
  BY <1>1 DEF BatchItem
<1>2. CASE how # "failed" /\ (how = "missed" \/ ExistingEitherWay(rows, item.ref) = {})
  <2>1. BatchItem(t, rows, item, how) = Append(rows, NewRow(item, item.ref, t, today))
    BY <1>2 DEF BatchItem
  <2>2. NewRow(item, item.ref, t, today) \in Row
    BY NewRowType DEF JobType, TableTypes, BoundTypes
  <2>. QED
    BY <1>2, <2>1, <2>2, AddRow
<1>3. ASSUME NEW i, i = AnyOf(ExistingEitherWay(rows, item.ref)),
             ExistingEitherWay(rows, item.ref) # {}, how = "ok"
      PROVE  /\ i \in ExistingEitherWay(rows, item.ref)
             /\ BoundRow(rows, BatchItem(t, rows, item, how), i, t)
  <2>1. i \in ExistingEitherWay(rows, item.ref) /\ i \in DOMAIN rows
    BY <1>3, AnyOfIn DEF ExistingEitherWay
  <2>2. rows[i] \in Row
    BY <2>1
  <2>3. BatchItem(t, rows, item, how) =
           [rows EXCEPT ![i].task = IF rows[i].task = NoTask THEN t ELSE rows[i].task,
                        ![i].files = rows[i].files \/ item.files]
    BY <1>3 DEF BatchItem
  <2>4. (rows[i].files \/ item.files) \in BOOLEAN
    BY <2>2 DEF Row, JobType
  <2>. QED
    BY <2>1, <2>3, <2>4, BoundRowSet
<1>. QED
  BY <1>1, <1>2, <1>3 DEF Outcomes

LEMMA BatchItemGrows ==
    ASSUME TableTypes, NEW rows \in Seq(Row), NEW t \in Tasks, NEW item \in JobType,
           NEW how \in Outcomes
    PROVE  /\ BatchItem(t, rows, item, how) \in Seq(Row)
           /\ DOMAIN rows \subseteq DOMAIN BatchItem(t, rows, item, how)
<1>1. CASE Added(rows, BatchItem(t, rows, item, how), NewRow(item, item.ref, t, today))
  BY <1>1 DEF Added
<1>2. CASE \E i \in ExistingEitherWay(rows, item.ref) :
              BoundRow(rows, BatchItem(t, rows, item, how), i, t)
  BY <1>2 DEF BoundRow, OnlyRow
<1>. QED
  BY <1>1, <1>2, BatchItemType

LEMMA ItemsType ==
    ASSUME TableTypes, NEW g \in GitCommits, NEW item \in Items(g)
    PROVE  item \in JobType /\ item.title = TitleOf[g] /\ item.ref \in {g, ShortOf[g]}
<1>1. PICK ref \in {g, ShortOf[g]} : item = Job("batch", g, ref, NoTask, FALSE)
  BY DEF Items
<1>. QED
  BY <1>1, RefHash, JobIn DEF AllOps, Job

LEMMA TypeBegin ==
    ASSUME LedgerInv, NEW p \in Procs, Begin(p)
    PROVE  LedgerInv'
<1>1. /\ TableTypes /\ LocalTypes /\ repo \subseteq GitCommits
      /\ \A g \in repo : g \in GitCommits
  BY DEF LedgerInv, TableTypes
<1>2. ASSUME NEW g \in GitCommits, StartHook(p, g) PROVE LedgerInv'
  <2>. DEFINE j == Job("hook", g, g, NoTask, HasFiles[g])
  <2>1. j \in JobType /\ j \in Jobs /\ j.ref = g
    BY <1>1, RefHash, JobIn DEF Jobs, AllOps, Job
  <2>2. repo' = repo \cup {g} /\ Call(p, "hook", j, 0, "gitFind") /\ "gitFind" \in PCs
    BY <1>2 DEF StartHook, PCs, GitPCs
  <2>. HIDE DEF j
  <2>. QED
    BY <1>1, <2>1, <2>2, CallFits
<1>3. ASSUME NEW g \in repo, NEW ref \in {g, ShortOf[g]}, NEW t \in Tasks \cup {NoTask},
             NEW files \in BOOLEAN,
             StartRecord(p, g, ref, t, files) \/ StartCreate(p, g, ref, t)
      PROVE  LedgerInv'
  <2>. DEFINE Started(j, op, label) ==
                /\ Call(p, op, j, 0, label) /\ repo' = repo /\ label \in PCs
                /\ label \in {"recordLookup", "createFind"}
                /\ j \in JobType /\ j.ref = ref
  <2>1. Started(Job("record", g, ref, t, files), "record", "recordLookup")
          \/ Started(Job("create", g, ref, t, FALSE), "create", "createFind")
    BY <1>1, <1>3, RefHash, JobIn DEF StartRecord, StartCreate, PCs, RecordPCs, AllOps, Job
  <2>2. ref \in GitCommits => ref \in repo
    BY <1>1, RefHash
  <2>3. ASSUME NEW j, NEW op, NEW label, Started(j, op, label) PROVE LedgerInv'
    BY <1>1, <2>2, <2>3, CallFits DEF Jobs
  <2>. HIDE DEF Started
  <2>. QED
    BY <2>1, <2>3
<1>4. ASSUME NEW id \in DOMAIN commits, NEW c \in Patches, StartUpdate(p, id, c)
      PROVE  LedgerInv'
  <2>. DEFINE j == [op |-> "update", patch |-> c]
  <2>1. j \in UpdateJob /\ j \in Jobs /\ id \in Nat
    BY <1>1 DEF UpdateJob, Jobs, TableTypes
  <2>2. Call(p, "update", j, id, "update") /\ repo' = repo /\ "update" \in PCs
    BY <1>4 DEF StartUpdate, PCs, UpdatePCs
  <2>. HIDE DEF j
  <2>. QED
    BY <1>1, <2>1, <2>2, CallFits
<1>5. ASSUME NEW op \in {"sync", "emerge"}, Daemon(p, op) PROVE LedgerInv'
  <2>1. /\ pc' = [pc EXCEPT ![p] = op] /\ op \in PCs
        /\ UNCHANGED <<ledger, history, locals, bounds>>
    BY <1>5 DEF Daemon, Goto, PCs, SyncPCs, EmergePCs
  <2>2. LocalTypes' /\ OthersKept(p) /\ pc'[p] = op
    BY <1>1, <2>1 DEF LocalTypes, OthersKept, locals
  <2>3. ProcFits(p)'
    BY <1>5, <2>1, <2>2 DEF ProcFits, Fits, BindPCs, GitPCs, RecordPCs, UpdatePCs, RowPCs,
                            LedgerInv, locals, ledger
  <2>. QED
    BY <2>1, <2>2, <2>3, LocalStep
<1>6. ASSUME NEW t \in Tasks, NEW g \in repo, NEW h \in repo,
             NEW first \in Items(g), NEW second \in Items(h), RecordBatch(p, t, first, second)
      PROVE  LedgerInv'
  <2>. PICK one \in Outcomes, two \in Outcomes :
               /\ commits' = BatchItem(t, BatchItem(t, commits, first, one), second, two)
               /\ unfound' = unfound \cup Unfound(first, one) \cup Unfound(second, two)
               /\ faults' = IF one = "ok" /\ two = "ok" THEN faults ELSE faults + 1
    BY <1>6 DEF RecordBatch
  <2>1. /\ calls' = calls + 1 /\ calls < MaxCalls /\ faults' <= MaxFaults
        /\ UNCHANGED <<repo, links, events, acked, binds, pc, job, found, seen, work, parsed,
                       snap, count, uncounted, today>>
    BY <1>6 DEF RecordBatch, history, locals
  <2>2. first \in JobType /\ second \in JobType
    BY <1>1, ItemsType
  <2>3. commits' \in Seq(Row) /\ DOMAIN commits \subseteq DOMAIN commits'
    <3>1. /\ BatchItem(t, commits, first, one) \in Seq(Row)
          /\ DOMAIN commits \subseteq DOMAIN BatchItem(t, commits, first, one)
      BY <1>1, <2>2, BatchItemGrows DEF TableTypes
    <3>2. /\ commits' \in Seq(Row)
          /\ DOMAIN BatchItem(t, commits, first, one) \subseteq DOMAIN commits'
      BY <1>1, <2>1, <2>2, <3>1, BatchItemGrows
    <3>. QED
      BY <3>1, <3>2
  <2>4. TableTypes' /\ Grows
    <3>1. BoundTypes'
      <4>1. Unfound(first, one) \subseteq Hashes /\ Unfound(second, two) \subseteq Hashes
        BY <2>2 DEF Unfound, JobType
      <4>2. calls' \in 0 .. MaxCalls /\ faults' \in 0 .. MaxFaults
        BY <1>1, <2>1, LedgerAssumption DEF TableTypes, BoundTypes
      <4>. QED
        BY <1>1, <2>1, <4>1, <4>2 DEF TableTypes, BoundTypes
    <3>2. links' \subseteq DOMAIN commits' /\ binds' \subseteq (DOMAIN commits') \X Tasks
      BY <1>1, <2>1, <2>3 DEF TableTypes
    <3>3. SameEvents(events')
      BY <1>1, <2>1, EventsSame
    <3>4. acked' \subseteq repo'
      BY <1>1, <2>1 DEF TableTypes
    <3>. QED
      BY <1>1, <2>1, <2>3, <3>1, <3>2, <3>3, <3>4, TablesKept
  <2>5. LocalTypes' /\ OthersKept(p)
    BY <1>1, <2>1 DEF LocalTypes, OthersKept
  <2>6. ProcFits(p)'
    <3>1. Fits(p) /\ Fits(p)'
      BY <2>1, <2>3 DEF LedgerInv, ProcFits, Fits
    <3>. QED
      BY <2>1, <2>3, <3>1 DEF LedgerInv, ProcFits
  <2>. QED
    BY <2>4, <2>5, <2>6, Frame
<1>. QED
  BY <1>2, <1>3, <1>4, <1>5, <1>6 DEF Begin

LEMMA TypeAbort ==
    ASSUME LedgerInv, NEW p \in Procs, Abort(p)
    PROVE  LedgerInv'
<1>1. Fails({}, {}) /\ Reset(p) /\ UNCHANGED <<ledger, history>>
  BY DEF Abort
<1>2. TableTypes' /\ Grows
  BY <1>1, SameTables, FailPlain DEF LedgerInv
<1>. QED
  BY <1>1, <1>2, ResetLocals, Frame DEF LedgerInv

-----------------------------------------------------------------------------
(* The steps that write a row, and the row they write.                     *)

(* Row i gets the hash, and keeps its title and its task.                  *)
HashedRow(rows, new, i, hash) ==
    /\ OnlyRow(rows, new, i) /\ new[i] \in Row
    /\ new[i].hash = hash
    /\ new[i].title = rows[i].title /\ new[i].task = rows[i].task

LEMMA HashedRowSet ==
    ASSUME NEW rows \in Seq(Row), NEW i \in DOMAIN rows, NEW files \in BOOLEAN,
           NEW hash \in Hashes,
           NEW new, new = [rows EXCEPT ![i].files = files, ![i].hash = hash]
    PROVE  HashedRow(rows, new, i, hash)
<1>. DEFINE row == [rows[i] EXCEPT !.files = files, !.hash = hash]
<1>1. rows[i] \in Row
  OBVIOUS
<1>2. new = [rows EXCEPT ![i] = row]
  <2>1. \A j \in DOMAIN rows : new[j] = [rows EXCEPT ![i] = row][j]
    OBVIOUS
  <2>. QED
    BY <1>1, <2>1
<1>3. /\ row \in Row /\ row.hash = hash
      /\ row.title = rows[i].title /\ row.task = rows[i].task
  BY <1>1 DEF Row
<1>. HIDE DEF row
<1>4. OnlyRow(rows, new, i) /\ new[i] = row
  BY <1>2, <1>3, RowSet
<1>. QED
  BY <1>3, <1>4 DEF HashedRow

LEMMA GitFillRow ==
    ASSUME LedgerInv, NEW p \in Procs, GitFill(p)
    PROVE  /\ found[p] \in DOMAIN commits /\ job[p].ref \in repo /\ job[p] \in JobType
           /\ HashedRow(commits, commits', found[p], job[p].ref)
<1>1. /\ found[p] \in DOMAIN commits /\ job[p].ref \in repo /\ job[p] \in JobType
  BY DEF LedgerInv, ProcFits, Fits, GitFill, GitPCs, RowPCs
<1>2. job[p].ref \in Hashes /\ job[p].files \in BOOLEAN /\ commits \in Seq(Row)
  BY <1>1 DEF JobType, LedgerInv, TableTypes
<1>3. commits' = [commits EXCEPT ![found[p]].files = job[p].files,
                                 ![found[p]].hash = job[p].ref]
  BY DEF GitFill
<1>. QED
  BY <1>1, <1>2, <1>3, HashedRowSet

LEMMA BindWriteRow ==
    ASSUME LedgerInv, NEW p \in Procs, BindWrite(p)
    PROVE  /\ found[p] \in DOMAIN commits /\ job[p] \in JobType /\ job[p].task \in Tasks
           /\ OnlyRow(commits, commits', found[p]) /\ commits'[found[p]] \in Row
           /\ commits'[found[p]].task =
                 (IF seen[p].bind THEN job[p].task ELSE commits[found[p]].task)
           /\ commits'[found[p]].title = commits[found[p]].title
           /\ commits'[found[p]].hash = commits[found[p]].hash
<1>. DEFINE i == found[p]
            task == IF seen[p].bind THEN job[p].task ELSE commits[i].task
            files == commits[i].files \/ seen[p].fill
            row == [commits[i] EXCEPT !.task = task, !.files = files]
<1>1. /\ i \in DOMAIN commits /\ job[p] \in JobType /\ job[p].task \in Tasks
      /\ commits \in Seq(Row) /\ seen[p].fill \in BOOLEAN
  BY DEF LedgerInv, TableTypes, LocalTypes, ProcFits, Fits, BindWrite, BindPCs, RowPCs
<1>2. commits[i] \in Row
  BY <1>1
<1>3. task \in Tasks \cup {NoTask} /\ files \in BOOLEAN
  BY <1>1, <1>2 DEF Row
<1>4. commits' = [commits EXCEPT ![i].task = task, ![i].files = files]
  BY DEF BindWrite
<1>. HIDE DEF i
<1>5. commits' = [commits EXCEPT ![i] = row]
  <2>1. \A j \in DOMAIN commits : commits'[j] = [commits EXCEPT ![i] = row][j]
    BY <1>4
  <2>. QED
    BY <1>1, <1>4, <2>1
<1>. HIDE DEF task, files
<1>6. /\ row \in Row /\ row.task = task
      /\ row.title = commits[i].title /\ row.hash = commits[i].hash
  BY <1>2, <1>3 DEF Row
<1>. HIDE DEF row
<1>7. OnlyRow(commits, commits', i) /\ commits'[i] = row
  BY <1>1, <1>5, <1>6, RowSet
<1>. QED
  BY <1>1, <1>6, <1>7 DEF i, task

LEMMA UpdateRow ==
    ASSUME LedgerInv, NEW p \in Procs, Update(p)
    PROVE  /\ found[p] \in DOMAIN commits /\ job[p] \in UpdateJob
           /\ OnlyRow(commits, commits', found[p])
           /\ commits'[found[p]] = Patched(commits[found[p]], job[p].patch)
           /\ commits'[found[p]] \in Row
<1>1. /\ found[p] \in DOMAIN commits /\ job[p] \in UpdateJob /\ commits \in Seq(Row)
  BY DEF LedgerInv, TableTypes, ProcFits, Fits, Update, UpdatePCs, RowPCs, UpdateJob
<1>2. commits' = [commits EXCEPT ![found[p]] = Patched(commits[found[p]], job[p].patch)]
  BY DEF Update
<1>. DEFINE row == Patched(commits[found[p]], job[p].patch)
<1>3. row \in Row
  BY <1>1, PatchedRow DEF UpdateJob
<1>4. commits' = [commits EXCEPT ![found[p]] = row]
  BY <1>2
<1>. HIDE DEF row
<1>5. OnlyRow(commits, commits', found[p]) /\ commits'[found[p]] = row
  BY <1>1, <1>3, <1>4, RowSet
<1>. QED
  BY <1>1, <1>3, <1>5 DEF row

(* GitInsert and CreateInsert add the job's row.                           *)
Inserted(p) ==
    NewRow(job[p], job[p].ref, job[p].task, IF pc[p] = "gitInsert" THEN job[p].date ELSE today)

LEMMA InsertRow ==
    ASSUME LedgerInv, NEW p \in Procs, GitInsert(p) \/ CreateInsert(p)
    PROVE  /\ job[p] \in JobType
           /\ Added(commits, commits', Inserted(p))
<1>1. job[p] \in JobType
  BY DEF LedgerInv, ProcFits, Fits, GitInsert, CreateInsert, GitPCs, RecordPCs
<1>2. commits' = Append(commits, Inserted(p))
  BY DEF GitInsert, CreateInsert, Inserted
<1>3. Inserted(p) \in Row /\ commits \in Seq(Row)
  <2>1. (IF pc[p] = "gitInsert" THEN job[p].date ELSE today) \in Int
    BY <1>1 DEF JobType, LedgerInv, TableTypes, BoundTypes
  <2>. QED
    BY <1>1, <2>1, NewRowType DEF JobType, LedgerInv, TableTypes, Inserted
<1>. QED
  BY <1>1, <1>2, <1>3, AddRow

(* SyncFill leaves the table alone or writes a hash of git log.            *)
LEMMA SyncFillRow ==
    ASSUME LedgerInv, NEW p \in Procs, SyncFill(p)
    PROVE  \E g \in work[p] :
              LET i == AnyOf(Existing(snap[p], g))
              IN  /\ g \in repo /\ i \in Existing(snap[p], g) /\ i \in DOMAIN commits
                  /\ work' = [work EXCEPT ![p] = @ \ {g}]
                  /\ \/ UNCHANGED <<commits, acked>>
                     \/ /\ HashedRow(commits, commits', i, g)
                        /\ acked' = acked \cup {g}
<1>1. /\ work[p] \subseteq repo /\ repo \subseteq GitCommits /\ commits \in Seq(Row)
      /\ DOMAIN snap[p] \subseteq DOMAIN commits
  BY DEF LedgerInv, TableTypes, ProcFits, Fits, SyncFill
<1>2. PICK g \in work[p] :
         LET ids == Existing(snap[p], g)
             i == AnyOf(ids)
         IN  /\ ids # {}
             /\ work' = [work EXCEPT ![p] = @ \ {g}]
             /\ \/ UNCHANGED <<commits, acked>>
                \/ /\ commits' = [commits EXCEPT ![i].files = HasFiles[g], ![i].hash = g]
                   /\ acked' = acked \cup {g}
  BY DEF SyncFill
<1>3. ASSUME NEW i, i = AnyOf(Existing(snap[p], g))
      PROVE  /\ i \in Existing(snap[p], g) /\ i \in DOMAIN commits
             /\ \/ UNCHANGED <<commits, acked>>
                \/ /\ HashedRow(commits, commits', i, g)
                   /\ acked' = acked \cup {g}
  <2>1. i \in Existing(snap[p], g) /\ i \in DOMAIN commits
    BY <1>1, <1>2, <1>3, AnyOfIn DEF Existing
  <2>2. g \in Hashes /\ HasFiles[g] \in BOOLEAN
    BY <1>1, <1>2, RefHash
  <2>3. CASE ~UNCHANGED <<commits, acked>>
    <3>1. commits' = [commits EXCEPT ![i].files = HasFiles[g], ![i].hash = g]
      BY <1>2, <1>3, <2>3
    <3>2. HashedRow(commits, commits', i, g)
      BY <1>1, <2>1, <2>2, <3>1, HashedRowSet
    <3>. QED
      BY <1>2, <1>3, <2>1, <2>3, <3>2
  <2>. QED
    BY <1>2, <1>3, <2>1, <2>3
<1>. QED
  BY <1>1, <1>2, <1>3

LEMMA SyncTitleRow ==
    ASSUME LedgerInv, NEW p \in Procs, SyncTitle(p)
    PROVE  \E m \in work[p] :
              /\ m[1] \in repo /\ m[2] \in DOMAIN commits
              /\ work' = [work EXCEPT ![p] = @ \ {m}]
              /\ commits' = commits \/ HashedRow(commits, commits', m[2], m[1])
<1>1. /\ work[p] \subseteq repo \X DOMAIN commits /\ repo \subseteq GitCommits
      /\ commits \in Seq(Row)
  BY DEF LedgerInv, TableTypes, ProcFits, Fits, SyncTitle
<1>2. PICK m \in work[p] :
         /\ work' = [work EXCEPT ![p] = @ \ {m}]
         /\ \/ commits' = commits
            \/ commits' = [commits EXCEPT ![m[2]].files = HasFiles[m[1]], ![m[2]].hash = m[1]]
  BY DEF SyncTitle
<1>3. m[1] \in repo /\ m[2] \in DOMAIN commits
  BY <1>1
<1>4. m[1] \in Hashes /\ HasFiles[m[1]] \in BOOLEAN
  BY <1>1, <1>3, RefHash
<1>5. commits' = commits \/ HashedRow(commits, commits', m[2], m[1])
  BY <1>1, <1>2, <1>3, <1>4, HashedRowSet
<1>. QED
  BY <1>2, <1>3, <1>5

-----------------------------------------------------------------------------
(* Type correctness of the steps.                                          *)

LEMMA RowWritten ==
    ASSUME LedgerInv, NEW i, OnlyRow(commits, commits', i), acked' \subseteq repo',
           binds' \subseteq (DOMAIN commits) \X Tasks, UNCHANGED <<repo, links, events>>,
           BoundTypes'
    PROVE  TableTypes' /\ Grows
<1>1. SameEvents(events')
  BY EventsSame DEF LedgerInv
<1>. QED
  BY <1>1, TablesKept DEF LedgerInv, TableTypes, OnlyRow

LEMMA RowAdded ==
    ASSUME LedgerInv, NEW row, Added(commits, commits', row), acked' \subseteq repo',
           UNCHANGED <<repo, links, events, binds, bounds>>
    PROVE  TableTypes' /\ Grows
<1>1. SameEvents(events') /\ BoundTypes'
  BY EventsSame, SameBounds DEF LedgerInv
<1>2. binds' \subseteq (DOMAIN commits') \X Tasks /\ links' \subseteq DOMAIN commits'
  BY DEF LedgerInv, TableTypes, Added
<1>. QED
  BY <1>1, <1>2, TablesKept DEF LedgerInv, TableTypes, Added

LEMMA EventsMarked ==
    ASSUME LedgerInv, NEW id, Mark(id), acked' \subseteq repo',
           binds' \subseteq (DOMAIN commits) \X Tasks, UNCHANGED <<repo, commits, links>>
    PROVE  TableTypes' /\ Grows
<1>1. SameEvents(events') /\ BoundTypes'
  BY MarkTypes DEF LedgerInv
<1>. QED
  BY <1>1, TablesKept DEF LedgerInv, TableTypes

(* What a step of p that keeps its other locals leaves it with.            *)
LEMMA GoneTo ==
    ASSUME LedgerInv, NEW p \in Procs, NEW label \in PCs, Goto(p, label), UNCHANGED locals
    PROVE  /\ LocalTypes' /\ OthersKept(p) /\ pc'[p] = label
           /\ job'[p] = job[p] /\ found'[p] = found[p] /\ work'[p] = work[p]
           /\ parsed'[p] = parsed[p] /\ snap'[p] = snap[p]
  BY DEF LedgerInv, LocalTypes, OthersKept, Goto, locals

LEMMA TypeGitFind ==
    ASSUME LedgerInv, NEW p \in Procs, GitFind(p)
    PROVE  LedgerInv'
<1>. DEFINE ids == Existing(commits, job[p].ref)
            id == IF ids = {} THEN 0 ELSE AnyOf(ids)
            label == IF ids = {} THEN "gitInsert" ELSE "gitFiles"
<1>1. /\ pc[p] = "gitFind" /\ found' = [found EXCEPT ![p] = id]
      /\ pc' = [pc EXCEPT ![p] = label]
      /\ UNCHANGED <<ledger, history, job, seen, work, parsed, snap, count, bounds>>
  BY DEF GitFind, Goto
<1>2. ids # {} => id \in DOMAIN commits
  BY AnyOfIn DEF Existing
<1>3. /\ id \in Nat /\ label \in PCs /\ label \in {"gitInsert", "gitFiles"}
      /\ label = "gitFiles" => id \in DOMAIN commits
  BY <1>2 DEF PCs, GitPCs, LedgerInv, TableTypes
<1>. HIDE DEF id, label, ids
<1>4. LocalTypes' /\ OthersKept(p) /\ pc'[p] = label /\ found'[p] = id
  BY <1>1, <1>3 DEF LedgerInv, LocalTypes, OthersKept
<1>5. ProcFits(p)'
  BY <1>1, <1>3, <1>4 DEF LedgerInv, ProcFits, Fits, BindPCs, GitPCs, RecordPCs, UpdatePCs,
                          RowPCs, ledger
<1>. QED
  BY <1>1, <1>4, <1>5, LocalStep

(* Where StoreGitCommit leaves its process.                                *)
LEMMA StoredFits ==
    ASSUME LedgerInv, NEW p \in Procs, Stored(p), pc[p] \in {"gitFiles", "gitFill", "gitInsert"},
           UNCHANGED <<repo, job, seen, work, parsed, snap, count>>,
           found' \in [Procs -> Nat], \A q \in Procs \ {p} : found'[q] = found[q],
           found'[p] \in DOMAIN commits', DOMAIN commits \subseteq DOMAIN commits'
    PROVE  LocalTypes' /\ OthersKept(p) /\ ProcFits(p)' /\ acked' \subseteq repo'
<1>. DEFINE label == IF job[p].op = "hook" THEN "hookBind" ELSE "syncNext"
<1>1. /\ label \in {"hookBind", "syncNext"} /\ label \in PCs
      /\ pc' = [pc EXCEPT ![p] = label] /\ acked' = acked \cup {job[p].ref}
  BY DEF Stored, Goto, PCs, SyncPCs
<1>. HIDE DEF label
<1>2. LocalTypes' /\ OthersKept(p) /\ pc'[p] = label
  BY <1>1 DEF LedgerInv, LocalTypes, OthersKept
<1>3. job[p] \in JobType /\ job[p].ref \in repo /\ work[p] \subseteq repo
  BY DEF LedgerInv, ProcFits, Fits, GitPCs
<1>4. ProcFits(p)'
  BY <1>1, <1>2, <1>3 DEF LedgerInv, ProcFits, Fits, BindPCs, GitPCs, RecordPCs, UpdatePCs,
                          RowPCs
<1>5. acked' \subseteq repo'
  BY <1>1, <1>3 DEF LedgerInv, TableTypes
<1>. QED
  BY <1>2, <1>4, <1>5

LEMMA TypeGitFiles ==
    ASSUME LedgerInv, NEW p \in Procs, GitFiles(p)
    PROVE  LedgerInv'
<1>1. /\ pc[p] = "gitFiles" /\ found[p] \in DOMAIN commits
      /\ UNCHANGED <<repo, commits, links, events, binds, locals>>
      /\ found \in [Procs -> Nat]
  BY DEF GitFiles, LedgerInv, LocalTypes, ProcFits, Fits, RowPCs, ledger
<1>. BoundTypes'
  BY SameBounds, FailPlain DEF GitFiles, LedgerInv
<1>2. CASE Stored(p)
  <2>1. LocalTypes' /\ OthersKept(p) /\ ProcFits(p)' /\ acked' \subseteq repo'
    BY <1>1, <1>2, StoredFits DEF locals
  <2>2. TableTypes' /\ Grows
    BY <1>1, <2>1 DEF LedgerInv, TableTypes, Grows
  <2>. QED
    BY <2>1, <2>2, Frame
<1>3. CASE Goto(p, "gitFill") /\ UNCHANGED acked
  <2>1. "gitFill" \in PCs
    BY DEF PCs, GitPCs
  <2>2. /\ LocalTypes' /\ OthersKept(p) /\ pc'[p] = "gitFill"
        /\ job'[p] = job[p] /\ found'[p] = found[p] /\ work'[p] = work[p]
        /\ parsed'[p] = parsed[p] /\ snap'[p] = snap[p]
    BY <1>1, <1>3, <2>1, GoneTo
  <2>3. ProcFits(p)'
    BY <1>1, <2>2 DEF LedgerInv, ProcFits, Fits, BindPCs, GitPCs, RecordPCs, UpdatePCs, RowPCs
  <2>. QED
    BY <1>1, <1>3, <2>2, <2>3, LocalBoundStep DEF ledger, history
<1>. QED
  BY <1>2, <1>3 DEF GitFiles

LEMMA TypeGitFill ==
    ASSUME LedgerInv, NEW p \in Procs, GitFill(p)
    PROVE  LedgerInv'
<1>1. /\ pc[p] = "gitFill" /\ Stored(p)
      /\ UNCHANGED <<repo, links, events, binds, locals, bounds>>
      /\ found \in [Procs -> Nat]
  BY DEF GitFill, LedgerInv, LocalTypes
<1>2. found[p] \in DOMAIN commits /\ OnlyRow(commits, commits', found[p])
  BY GitFillRow DEF HashedRow
<1>3. DOMAIN commits' = DOMAIN commits
  BY <1>2 DEF OnlyRow
<1>4. LocalTypes' /\ OthersKept(p) /\ ProcFits(p)' /\ acked' \subseteq repo'
  BY <1>1, <1>2, <1>3, StoredFits DEF locals
<1>5. binds' \subseteq (DOMAIN commits) \X Tasks
  BY <1>1 DEF LedgerInv, TableTypes
<1>6. TableTypes' /\ Grows
  BY <1>1, <1>2, <1>4, <1>5, RowWritten, SameBounds DEF LedgerInv
<1>. QED
  BY <1>4, <1>6, Frame

LEMMA TypeGitInsert ==
    ASSUME LedgerInv, NEW p \in Procs, GitInsert(p)
    PROVE  LedgerInv'
<1>. DEFINE row == Inserted(p)
<1>1. /\ pc[p] = "gitInsert" /\ Stored(p) /\ found' = [found EXCEPT ![p] = Len(commits) + 1]
      /\ UNCHANGED <<repo, links, events, binds, job, seen, work, parsed, snap, count, bounds>>
      /\ found \in [Procs -> Nat] /\ Len(commits) + 1 \in Nat
  BY DEF GitInsert, LedgerInv, LocalTypes, TableTypes
<1>2. Added(commits, commits', row)
  BY InsertRow
<1>. HIDE DEF row
<1>3. DOMAIN commits \subseteq DOMAIN commits' /\ Len(commits) + 1 \in DOMAIN commits'
  BY <1>2 DEF Added
<1>4. /\ found' \in [Procs -> Nat] /\ found'[p] = Len(commits) + 1
      /\ \A q \in Procs \ {p} : found'[q] = found[q]
  BY <1>1
<1>5. LocalTypes' /\ OthersKept(p) /\ ProcFits(p)' /\ acked' \subseteq repo'
  BY <1>1, <1>3, <1>4, StoredFits
<1>6. TableTypes' /\ Grows
  BY <1>1, <1>2, <1>5, RowAdded
<1>. QED
  BY <1>5, <1>6, Frame

LEMMA TypeHookBind ==
    ASSUME LedgerInv, NEW p \in Procs, HookBind(p)
    PROVE  LedgerInv'
<1>1. CASE Reset(p)
  BY <1>1, ResetStep DEF HookBind
<1>2. ASSUME NEW t \in Tasks, job' = [job EXCEPT ![p].task = t], Goto(p, "bindRead"),
             UNCHANGED <<found, seen, work, parsed, snap, count>>
      PROVE  LedgerInv'
  <2>. DEFINE j == [job[p] EXCEPT !.task = t]
  <2>1. /\ pc[p] = "hookBind" /\ job[p] \in JobType /\ found[p] \in DOMAIN commits
        /\ UNCHANGED <<ledger, history, bounds>> /\ pc' = [pc EXCEPT ![p] = "bindRead"]
        /\ "bindRead" \in PCs
    BY <1>2 DEF HookBind, Goto, PCs, BindPCs, LedgerInv, ProcFits, Fits, RowPCs
  <2>2. job' = [job EXCEPT ![p] = j]
    BY <1>2 DEF LedgerInv, LocalTypes
  <2>3. j \in JobType /\ j.task = t /\ j \in Jobs
    BY <2>1 DEF JobType, Jobs
  <2>. HIDE DEF j
  <2>4. LocalTypes' /\ OthersKept(p) /\ pc'[p] = "bindRead" /\ job'[p] = j
    BY <1>2, <2>1, <2>2, <2>3 DEF LedgerInv, LocalTypes, OthersKept
  <2>5. ProcFits(p)'
    BY <1>2, <2>1, <2>3, <2>4 DEF LedgerInv, ProcFits, Fits, BindPCs, GitPCs, RecordPCs,
                                  UpdatePCs, RowPCs, ledger
  <2>. QED
    BY <2>1, <2>4, <2>5, LocalStep
<1>. QED
  BY <1>1, <1>2 DEF HookBind

LEMMA TypeBindRead ==
    ASSUME LedgerInv, NEW p \in Procs, BindRead(p)
    PROVE  LedgerInv'
<1>1. CASE Reset(p)
  BY <1>1, ResetStep DEF BindRead
<1>2. ASSUME ~Reset(p) PROVE LedgerInv'
  <2>. DEFINE s == [bind |-> commits[found[p]].task = NoTask,
                    fill |-> ~commits[found[p]].files /\ job[p].files]
  <2>1. /\ pc[p] = "bindRead" /\ job[p] \in JobType /\ found[p] \in DOMAIN commits
        /\ job[p].task \in Tasks /\ "bindWrite" \in PCs
    BY DEF BindRead, PCs, BindPCs, LedgerInv, ProcFits, Fits, RowPCs
  <2>2. /\ seen' = [seen EXCEPT ![p] = s] /\ pc' = [pc EXCEPT ![p] = "bindWrite"]
        /\ UNCHANGED <<ledger, history, job, found, work, parsed, snap, count, bounds>>
    BY <1>2 DEF BindRead, Goto
  <2>3. s \in [bind : BOOLEAN, fill : BOOLEAN]
    OBVIOUS
  <2>. HIDE DEF s
  <2>4. LocalTypes' /\ OthersKept(p) /\ pc'[p] = "bindWrite"
    BY <2>1, <2>2, <2>3 DEF LedgerInv, LocalTypes, OthersKept
  <2>5. ProcFits(p)'
    BY <2>1, <2>2, <2>4 DEF LedgerInv, ProcFits, Fits, BindPCs, GitPCs, RecordPCs,
                            UpdatePCs, RowPCs, ledger
  <2>. QED
    BY <2>2, <2>4, <2>5, LocalStep
<1>. QED
  BY <1>1, <1>2

LEMMA TypeBindWrite ==
    ASSUME LedgerInv, NEW p \in Procs, BindWrite(p)
    PROVE  LedgerInv'
<1>1. /\ job[p] \in JobType /\ job[p].task \in Tasks /\ found[p] \in DOMAIN commits
      /\ OnlyRow(commits, commits', found[p])
  BY BindWriteRow
<1>2. UNCHANGED <<repo, links, events, acked, binds, bounds>> /\ pc[p] = "bindWrite"
  BY DEF BindWrite, history
<1>3. TableTypes' /\ Grows
  <2>1. acked' \subseteq repo' /\ binds' \subseteq (DOMAIN commits) \X Tasks
    BY <1>2 DEF LedgerInv, TableTypes
  <2>. QED
    BY <1>1, <1>2, <2>1, RowWritten, SameBounds DEF LedgerInv
<1>4. CASE Reset(p)
  BY <1>3, <1>4, ResetLocals, Frame DEF LedgerInv
<1>5. CASE Goto(p, "bindMark") /\ UNCHANGED locals
  <2>1. "bindMark" \in PCs
    BY DEF PCs, BindPCs
  <2>2. /\ LocalTypes' /\ OthersKept(p) /\ pc'[p] = "bindMark"
        /\ job'[p] = job[p] /\ found'[p] = found[p] /\ work'[p] = work[p]
        /\ parsed'[p] = parsed[p] /\ snap'[p] = snap[p]
    BY <1>5, <2>1, GoneTo
  <2>3. ProcFits(p)'
    BY <1>1, <1>2, <1>3, <2>2 DEF LedgerInv, ProcFits, Fits, BindPCs, GitPCs, RecordPCs,
                                  UpdatePCs, RowPCs, OnlyRow
  <2>. QED
    BY <1>3, <2>2, <2>3, Frame
<1>. QED
  BY <1>4, <1>5 DEF BindWrite

LEMMA TypeBindMark ==
    ASSUME LedgerInv, NEW p \in Procs, BindMark(p)
    PROVE  LedgerInv'
<1>1. /\ pc[p] = "bindMark" /\ found[p] \in DOMAIN commits /\ job[p].task \in Tasks
      /\ Mark(found[p]) /\ binds' = binds \cup {<<found[p], job[p].task>>}
      /\ Reset(p) /\ UNCHANGED <<repo, commits, links, acked>>
  BY DEF BindMark, LedgerInv, ProcFits, Fits, BindPCs, RowPCs
<1>2. acked' \subseteq repo' /\ binds' \subseteq (DOMAIN commits) \X Tasks
  BY <1>1 DEF LedgerInv, TableTypes
<1>3. TableTypes' /\ Grows
  BY <1>1, <1>2, EventsMarked
<1>. QED
  BY <1>1, <1>3, ResetLocals, Frame DEF LedgerInv

LEMMA TypeUpdateMark ==
    ASSUME LedgerInv, NEW p \in Procs, UpdateMark(p)
    PROVE  LedgerInv'
<1>1. /\ Mark(found[p]) /\ Reset(p)
      /\ UNCHANGED <<repo, commits, links, acked, binds>>
  BY DEF UpdateMark, history
<1>2. acked' \subseteq repo' /\ binds' \subseteq (DOMAIN commits) \X Tasks
  BY <1>1 DEF LedgerInv, TableTypes
<1>3. TableTypes' /\ Grows
  BY <1>1, <1>2, EventsMarked
<1>. QED
  BY <1>1, <1>3, ResetLocals, Frame DEF LedgerInv

LEMMA TypeCreateMark ==
    ASSUME LedgerInv, NEW p \in Procs, CreateMark(p)
    PROVE  LedgerInv'
<1>1. /\ pc[p] = "createMark" /\ (job[p].ref \in GitCommits => job[p].ref \in repo)
      /\ Mark(found[p]) /\ Reset(p)
      /\ acked' = acked \cup ({job[p].ref} \cap GitCommits)
      /\ UNCHANGED <<repo, commits, links, binds>>
  BY DEF CreateMark, LedgerInv, ProcFits, RecordPCs
<1>2. acked' \subseteq repo' /\ binds' \subseteq (DOMAIN commits) \X Tasks
  BY <1>1 DEF LedgerInv, TableTypes
<1>3. TableTypes' /\ Grows
  BY <1>1, <1>2, EventsMarked
<1>. QED
  BY <1>1, <1>3, ResetLocals, Frame DEF LedgerInv

LEMMA TypeRecordLookup ==
    ASSUME LedgerInv, NEW p \in Procs, RecordLookup(p)
    PROVE  LedgerInv'
<1>. DEFINE ids == ExistingEitherWay(commits, job[p].ref)
            id == AnyOf(ids)
<1>1. /\ pc[p] = "recordLookup" /\ job[p] \in JobType
      /\ job[p].ref \in GitCommits => job[p].ref \in repo
      /\ UNCHANGED <<ledger, history, bounds>>
  BY DEF RecordLookup, LedgerInv, ProcFits, Fits, RecordPCs
<1>2. CASE Reset(p)
  BY <1>1, <1>2, ResetStep
<1>3. CASE Goto(p, "createFind") /\ UNCHANGED locals
  <2>1. "createFind" \in PCs
    BY DEF PCs, RecordPCs
  <2>2. /\ LocalTypes' /\ OthersKept(p) /\ pc'[p] = "createFind"
        /\ job'[p] = job[p] /\ found'[p] = found[p] /\ work'[p] = work[p]
        /\ parsed'[p] = parsed[p] /\ snap'[p] = snap[p]
    BY <1>3, <2>1, GoneTo
  <2>3. ProcFits(p)'
    BY <1>1, <2>2 DEF LedgerInv, ProcFits, Fits, BindPCs, GitPCs, RecordPCs, UpdatePCs,
                      RowPCs, ledger
  <2>. QED
    BY <1>1, <2>2, <2>3, LocalStep
<1>4. CASE /\ ids # {} /\ job[p].task # NoTask
           /\ found' = [found EXCEPT ![p] = id] /\ Goto(p, "bindRead")
           /\ UNCHANGED <<job, seen, work, parsed, snap, count>>
  <2>1. id \in DOMAIN commits /\ id \in Nat
    <3>1. id \in ids
      BY <1>4, AnyOfIn
    <3>2. ids \subseteq DOMAIN commits
      BY DEF ExistingEitherWay
    <3>. HIDE DEF ids, id
    <3>. QED
      BY <3>1, <3>2 DEF LedgerInv, TableTypes
  <2>. HIDE DEF id
  <2>2. pc' = [pc EXCEPT ![p] = "bindRead"] /\ "bindRead" \in PCs /\ job[p].task \in Tasks
    BY <1>1, <1>4 DEF Goto, PCs, BindPCs, JobType
  <2>3. LocalTypes' /\ OthersKept(p) /\ pc'[p] = "bindRead" /\ found'[p] = id
    BY <1>4, <2>1, <2>2 DEF LedgerInv, LocalTypes, OthersKept
  <2>4. ProcFits(p)'
    BY <1>1, <1>4, <2>1, <2>2, <2>3 DEF LedgerInv, ProcFits, Fits, BindPCs, GitPCs, RecordPCs,
                                        UpdatePCs, RowPCs, ledger
  <2>. QED
    BY <1>1, <2>3, <2>4, LocalStep
<1>. QED
  BY <1>2, <1>3, <1>4 DEF RecordLookup

LEMMA CanonicalMade ==
    ASSUME NEW ref, NEW full \in Canonical(ref)
    PROVE  full \in repo \/ full = ref
  BY DEF Canonical

LEMMA TypeCreateFind ==
    ASSUME LedgerInv, NEW p \in Procs, CreateFind(p)
    PROVE  LedgerInv'
<1>1. /\ pc[p] = "createFind" /\ job[p] \in JobType
      /\ job[p].ref \in GitCommits => job[p].ref \in repo
      /\ UNCHANGED <<ledger, history, bounds>> /\ repo \subseteq GitCommits
  BY DEF CreateFind, LedgerInv, ProcFits, Fits, RecordPCs, TableTypes
<1>2. CASE Reset(p)
  BY <1>1, <1>2, ResetStep
<1>3. ASSUME ~Reset(p) PROVE LedgerInv'
  <2>1. PICK full \in Canonical(job[p].ref) :
          LET ids == Existing(commits, full)
          IN  /\ job' = [job EXCEPT ![p].ref = full]
              /\ found' = [found EXCEPT ![p] = IF ids = {} THEN 0 ELSE AnyOf(ids)]
              /\ Goto(p, IF ids = {} THEN "createInsert" ELSE "createTask")
              /\ UNCHANGED <<seen, work, parsed, snap, count>>
    BY <1>3 DEF CreateFind
  <2>2. /\ full \in Hashes /\ (full \in GitCommits => full \in repo)
        /\ job[p].task # NoTask
    BY <1>1, <1>3, CanonicalMade DEF JobType, Hashes, CreateFind
  <2>. DEFINE ids == Existing(commits, full)
              id == IF ids = {} THEN 0 ELSE AnyOf(ids)
              label == IF ids = {} THEN "createInsert" ELSE "createTask"
              j == [job[p] EXCEPT !.ref = full]
  <2>3. job' = [job EXCEPT ![p] = j]
    BY <2>1 DEF LedgerInv, LocalTypes
  <2>4. j \in JobType /\ j.ref = full /\ j.task = job[p].task /\ j \in Jobs
    BY <1>1, <2>2 DEF JobType, Jobs
  <2>5. /\ found' = [found EXCEPT ![p] = id] /\ pc' = [pc EXCEPT ![p] = label]
        /\ UNCHANGED <<seen, work, parsed, snap, count>>
    BY <2>1 DEF Goto
  <2>6. ids # {} => AnyOf(ids) \in DOMAIN commits
    BY AnyOfIn DEF Existing
  <2>. HIDE DEF j, ids
  <2>7. /\ id \in Nat /\ label \in PCs /\ label \in {"createInsert", "createTask"}
        /\ label = "createTask" => id \in DOMAIN commits
    BY <2>6 DEF PCs, RecordPCs, LedgerInv, TableTypes
  <2>. HIDE DEF id, label
  <2>8. LocalTypes' /\ OthersKept(p) /\ pc'[p] = label /\ found'[p] = id /\ job'[p] = j
    BY <2>3, <2>4, <2>5, <2>7 DEF LedgerInv, LocalTypes, OthersKept
  <2>9. ProcFits(p)'
    BY <1>1, <2>5, <2>2, <2>4, <2>7, <2>8 DEF LedgerInv, ProcFits, Fits, BindPCs, GitPCs,
                                              RecordPCs, UpdatePCs, RowPCs, ledger
  <2>. QED
    BY <1>1, <2>8, <2>9, LocalStep
<1>. QED
  BY <1>2, <1>3

LEMMA TypeCreateTask ==
    ASSUME LedgerInv, NEW p \in Procs, CreateTask(p)
    PROVE  LedgerInv'
<1>. DEFINE label == IF commits[found[p]].task = NoTask THEN "bindRead" ELSE "createInsert"
<1>1. /\ pc[p] = "createTask" /\ job[p] \in JobType /\ found[p] \in DOMAIN commits
      /\ job[p].ref \in GitCommits => job[p].ref \in repo
      /\ Goto(p, label) /\ UNCHANGED <<ledger, history, locals, bounds>>
  BY DEF CreateTask, LedgerInv, ProcFits, Fits, RecordPCs, RowPCs
<1>2. label \in PCs /\ label \in {"bindRead", "createInsert"}
  BY DEF PCs, BindPCs, RecordPCs
<1>3. job[p].task \in Tasks
  BY <1>1 DEF LedgerInv, ProcFits, JobType
<1>. HIDE DEF label
<1>4. /\ LocalTypes' /\ OthersKept(p) /\ pc'[p] = label
      /\ job'[p] = job[p] /\ found'[p] = found[p] /\ work'[p] = work[p]
      /\ parsed'[p] = parsed[p] /\ snap'[p] = snap[p]
  BY <1>1, <1>2, GoneTo
<1>5. ProcFits(p)'
  BY <1>1, <1>2, <1>3, <1>4 DEF LedgerInv, ProcFits, Fits, BindPCs, GitPCs, RecordPCs,
                                UpdatePCs, RowPCs, ledger
<1>. QED
  BY <1>1, <1>4, <1>5, LocalStep

LEMMA TypeCreateInsert ==
    ASSUME LedgerInv, NEW p \in Procs, CreateInsert(p)
    PROVE  LedgerInv'
<1>. DEFINE row == Inserted(p)
<1>1. /\ pc[p] = "createInsert" /\ job[p] \in JobType
      /\ job[p].ref \in GitCommits => job[p].ref \in repo
      /\ found' = [found EXCEPT ![p] = Len(commits) + 1]
      /\ pc' = [pc EXCEPT ![p] = "createMark"] /\ "createMark" \in PCs
      /\ UNCHANGED <<repo, links, events, acked, binds, job, seen, work, parsed, snap, count,
                     bounds>>
      /\ Len(commits) + 1 \in Nat
  BY DEF CreateInsert, Goto, history, PCs, RecordPCs, LedgerInv, TableTypes, ProcFits, Fits
<1>2. Added(commits, commits', row)
  BY InsertRow
<1>. HIDE DEF row
<1>3. Len(commits) + 1 \in DOMAIN commits'
  BY <1>2 DEF Added
<1>4. LocalTypes' /\ OthersKept(p) /\ pc'[p] = "createMark" /\ found'[p] = Len(commits) + 1
  BY <1>1 DEF LedgerInv, LocalTypes, OthersKept
<1>5. TableTypes' /\ Grows
  <2>1. acked' \subseteq repo'
    BY <1>1 DEF LedgerInv, TableTypes
  <2>. QED
    BY <1>1, <1>2, <2>1, RowAdded
<1>6. ProcFits(p)'
  BY <1>1, <1>3, <1>4, <1>5 DEF LedgerInv, ProcFits, Fits, BindPCs, GitPCs, RecordPCs,
                                UpdatePCs, RowPCs, Grows
<1>. QED
  BY <1>4, <1>5, <1>6, Frame

LEMMA TypeLookupFails ==
    ASSUME LedgerInv, NEW p \in Procs, LookupFails(p)
    PROVE  LedgerInv'
<1>1. UNCHANGED <<ledger, history, found, seen, work, parsed, snap, count>>
  BY DEF LookupFails
<1>2. ASSUME pc[p] \in {"gitFind", "recordLookup", "createTask"},
             NEW label \in {"gitInsert", "createFind", "createInsert"},
             label = "gitInsert" <=> pc[p] = "gitFind",
             label = "createInsert" <=> pc[p] = "createTask",
             Lookup(p, job[p].ref, label), UNCHANGED job
      PROVE  LedgerInv'
  <2>1. /\ job[p] \in JobType /\ label \in PCs
        /\ pc[p] # "gitFind" => (job[p].ref \in GitCommits => job[p].ref \in repo)
        /\ pc[p] = "gitFind" => (job[p].ref \in repo /\ work[p] \subseteq repo)
        /\ pc[p] = "createTask" => job[p].task # NoTask
    BY <1>2 DEF LedgerInv, ProcFits, Fits, GitPCs, RecordPCs, PCs
  <2>2. BoundTypes'
    BY <1>2, <2>1, FailBounds DEF Lookup, JobType, LedgerInv
  <2>3. /\ LocalTypes' /\ OthersKept(p) /\ pc'[p] = label
        /\ job'[p] = job[p] /\ found'[p] = found[p] /\ work'[p] = work[p]
        /\ parsed'[p] = parsed[p] /\ snap'[p] = snap[p]
    BY <1>1, <1>2, <2>1, GoneTo DEF Lookup, locals
  <2>4. ProcFits(p)'
    BY <1>1, <1>2, <2>1, <2>3 DEF LedgerInv, ProcFits, Fits, BindPCs, GitPCs, RecordPCs,
                                  UpdatePCs, RowPCs, ledger
  <2>. QED
    BY <1>1, <2>2, <2>3, <2>4, LocalBoundStep
<1>3. ASSUME pc[p] = "createFind", job[p].task # NoTask, NEW full \in Canonical(job[p].ref),
             Lookup(p, full, "createInsert"), job' = [job EXCEPT ![p].ref = full]
      PROVE  LedgerInv'
  <2>. DEFINE j == [job[p] EXCEPT !.ref = full]
  <2>1. /\ job[p] \in JobType /\ repo \subseteq GitCommits /\ "createInsert" \in PCs
        /\ job[p].ref \in GitCommits => job[p].ref \in repo
    BY <1>3 DEF LedgerInv, TableTypes, ProcFits, Fits, RecordPCs, PCs
  <2>2. full \in Hashes /\ (full \in GitCommits => full \in repo)
    BY <2>1, CanonicalMade DEF JobType, Hashes
  <2>3. job' = [job EXCEPT ![p] = j]
    BY <1>3 DEF LedgerInv, LocalTypes
  <2>4. j \in JobType /\ j.ref = full /\ j.task = job[p].task /\ j \in Jobs
    BY <2>1, <2>2 DEF JobType, Jobs
  <2>5. BoundTypes' /\ pc' = [pc EXCEPT ![p] = "createInsert"]
    BY <1>3, <2>2, FailBounds DEF Lookup, Goto, LedgerInv
  <2>. HIDE DEF j
  <2>6. LocalTypes' /\ OthersKept(p) /\ pc'[p] = "createInsert" /\ job'[p] = j
    BY <1>1, <2>1, <2>3, <2>4, <2>5 DEF LedgerInv, LocalTypes, OthersKept
  <2>7. ProcFits(p)'
    BY <1>1, <1>3, <2>2, <2>4, <2>6 DEF LedgerInv, ProcFits, Fits, BindPCs, GitPCs, RecordPCs,
                                        UpdatePCs, RowPCs, ledger
  <2>. QED
    BY <1>1, <2>5, <2>6, <2>7, LocalBoundStep
<1>. QED
  BY <1>2, <1>3 DEF LookupFails

LEMMA TypeUpdate ==
    ASSUME LedgerInv, NEW p \in Procs, Update(p)
    PROVE  LedgerInv'
<1>1. /\ found[p] \in DOMAIN commits /\ job[p] \in UpdateJob
      /\ OnlyRow(commits, commits', found[p])
  BY UpdateRow
<1>2. /\ pc[p] = "update" /\ acked' \subseteq acked /\ binds' \subseteq binds
      /\ UNCHANGED <<repo, links, events, bounds>>
  BY DEF Update
<1>3. TableTypes' /\ Grows
  <2>1. acked' \subseteq repo' /\ binds' \subseteq (DOMAIN commits) \X Tasks
    BY <1>2 DEF LedgerInv, TableTypes
  <2>. QED
    BY <1>1, <1>2, <2>1, RowWritten, SameBounds DEF LedgerInv
<1>4. CASE Reset(p)
  BY <1>3, <1>4, ResetLocals, Frame DEF LedgerInv
<1>5. CASE Goto(p, "updateMark") /\ UNCHANGED locals
  <2>1. "updateMark" \in PCs
    BY DEF PCs, UpdatePCs
  <2>2. /\ LocalTypes' /\ OthersKept(p) /\ pc'[p] = "updateMark"
        /\ job'[p] = job[p] /\ found'[p] = found[p] /\ work'[p] = work[p]
        /\ parsed'[p] = parsed[p] /\ snap'[p] = snap[p]
    BY <1>5, <2>1, GoneTo
  <2>3. ProcFits(p)'
    BY <1>1, <1>2, <1>3, <2>2 DEF LedgerInv, ProcFits, Fits, BindPCs, GitPCs, RecordPCs,
                                  UpdatePCs, RowPCs, OnlyRow, UpdateJob
  <2>. QED
    BY <1>3, <2>2, <2>3, Frame
<1>. QED
  BY <1>4, <1>5 DEF Update

LEMMA TypeSyncLog ==
    ASSUME LedgerInv, NEW p \in Procs, SyncLog(p)
    PROVE  LedgerInv'
<1>1. /\ parsed' = [parsed EXCEPT ![p] = repo] /\ work' = [work EXCEPT ![p] = repo]
      /\ pc' = [pc EXCEPT ![p] = "syncList"] /\ "syncList" \in PCs
      /\ UNCHANGED <<ledger, history, job, found, seen, snap, count, bounds>>
  BY DEF SyncLog, Goto, PCs, SyncPCs
<1>2. repo \in SUBSET GitCommits /\ repo \in SUBSET Works
  BY DEF LedgerInv, TableTypes, Works
<1>3. LocalTypes' /\ OthersKept(p) /\ pc'[p] = "syncList"
  BY <1>1, <1>2 DEF LedgerInv, LocalTypes, OthersKept
<1>4. work'[p] = repo /\ parsed'[p] = repo
  BY <1>1 DEF LedgerInv, LocalTypes
<1>5. ProcFits(p)'
  BY <1>1, <1>3, <1>4 DEF LedgerInv, ProcFits, Fits, BindPCs, GitPCs, RecordPCs, UpdatePCs,
                          RowPCs, ledger
<1>. QED
  BY <1>1, <1>3, <1>5, LocalStep

LEMMA TypeSyncList ==
    ASSUME LedgerInv, NEW p \in Procs, SyncList(p)
    PROVE  LedgerInv'
<1>1. /\ pc[p] = "syncList" /\ (snap' = [snap EXCEPT ![p] = commits] \/ snap' = snap)
      /\ pc' = [pc EXCEPT ![p] = "syncNext"] /\ "syncNext" \in PCs
      /\ UNCHANGED <<ledger, history, job, found, seen, work, parsed, count>>
      /\ commits \in Seq(Row)
  BY DEF SyncList, Goto, PCs, SyncPCs, LedgerInv, TableTypes
<1>. BoundTypes'
  BY SameBounds, FailPlain DEF SyncList, LedgerInv
<1>2. LocalTypes' /\ OthersKept(p) /\ pc'[p] = "syncNext"
  BY <1>1 DEF LedgerInv, LocalTypes, OthersKept
<1>3. snap'[p] = commits \/ snap'[p] = snap[p]
  BY <1>1 DEF LedgerInv, LocalTypes
<1>4. ProcFits(p)'
  BY <1>1, <1>2, <1>3 DEF LedgerInv, ProcFits, Fits, BindPCs, GitPCs, RecordPCs, UpdatePCs,
                          RowPCs, ledger
<1>. QED
  BY <1>1, <1>2, <1>4, LocalBoundStep

(* A step of a loop of p over what is left of its work.                    *)
LEMMA LessWork ==
    ASSUME LedgerInv, NEW p \in Procs, NEW m, work' = [work EXCEPT ![p] = @ \ {m}],
           UNCHANGED <<pc, job, found, seen, parsed, snap, count>>
    PROVE  LocalTypes' /\ OthersKept(p) /\ work'[p] = work[p] \ {m}
<1>1. work[p] \ {m} \in SUBSET Works
  BY DEF LedgerInv, LocalTypes
<1>. QED
  BY <1>1 DEF LedgerInv, LocalTypes, OthersKept

LEMMA TypeSyncFill ==
    ASSUME LedgerInv, NEW p \in Procs, SyncFill(p)
    PROVE  LedgerInv'
<1>1. PICK g \in work[p] :
         LET i == AnyOf(Existing(snap[p], g))
         IN  /\ g \in repo /\ i \in Existing(snap[p], g) /\ i \in DOMAIN commits
             /\ work' = [work EXCEPT ![p] = @ \ {g}]
             /\ \/ UNCHANGED <<commits, acked>>
                \/ /\ HashedRow(commits, commits', i, g)
                   /\ acked' = acked \cup {g}
  BY SyncFillRow
<1>2. /\ pc[p] = "syncNext"
      /\ UNCHANGED <<repo, links, events, binds, pc, job, found, seen, parsed, snap, count>>
  BY DEF SyncFill
<1>. BoundTypes'
  BY SameBounds, FailPlain DEF SyncFill, LedgerInv
<1>3. LocalTypes' /\ OthersKept(p) /\ work'[p] = work[p] \ {g}
  BY <1>1, <1>2, LessWork
<1>4. TableTypes' /\ Grows
  <2>1. acked' \subseteq repo' /\ binds' \subseteq (DOMAIN commits) \X Tasks
    BY <1>1, <1>2 DEF LedgerInv, TableTypes
  <2>2. CASE UNCHANGED <<commits, acked>>
    BY <1>2, <2>2, SameTables DEF LedgerInv, ledger, history
  <2>3. CASE OnlyRow(commits, commits', AnyOf(Existing(snap[p], g)))
    BY <1>2, <2>1, <2>3, RowWritten
  <2>. QED
    BY <1>1, <2>2, <2>3 DEF HashedRow
<1>5. ProcFits(p)'
  BY <1>2, <1>3, <1>4 DEF LedgerInv, ProcFits, Fits, BindPCs, GitPCs, RecordPCs, UpdatePCs,
                          RowPCs, Grows
<1>. QED
  BY <1>3, <1>4, <1>5, Frame

LEMMA TypeSyncTitle ==
    ASSUME LedgerInv, NEW p \in Procs, SyncTitle(p)
    PROVE  LedgerInv'
<1>1. PICK m \in work[p] :
              /\ m[1] \in repo /\ m[2] \in DOMAIN commits
              /\ work' = [work EXCEPT ![p] = @ \ {m}]
              /\ commits' = commits \/ HashedRow(commits, commits', m[2], m[1])
  BY SyncTitleRow
<1>2. /\ pc[p] = "syncTitle"
      /\ UNCHANGED <<repo, links, events, history, pc, job, found, seen, parsed, snap, count>>
  BY DEF SyncTitle
<1>. BoundTypes'
  BY SameBounds, FailPlain DEF SyncTitle, LedgerInv
<1>3. LocalTypes' /\ OthersKept(p) /\ work'[p] = work[p] \ {m}
  BY <1>1, <1>2, LessWork
<1>4. OnlyRow(commits, commits', m[2]) /\ DOMAIN commits' = DOMAIN commits
  BY <1>1 DEF HashedRow, OnlyRow, LedgerInv, TableTypes
<1>5. TableTypes' /\ Grows
  <2>1. acked' \subseteq repo' /\ binds' \subseteq (DOMAIN commits) \X Tasks
    BY <1>2 DEF LedgerInv, TableTypes, history
  <2>. QED
    BY <1>2, <1>4, <2>1, RowWritten
<1>6. ProcFits(p)'
  BY <1>2, <1>3, <1>4, <1>5 DEF LedgerInv, ProcFits, Fits, BindPCs, GitPCs, RecordPCs,
                                UpdatePCs, RowPCs, Grows
<1>. QED
  BY <1>3, <1>5, <1>6, Frame

LEMMA TypeSyncStore ==
    ASSUME LedgerInv, NEW p \in Procs, SyncStore(p)
    PROVE  LedgerInv'
<1>1. /\ pc[p] = "syncNext" /\ work[p] \subseteq repo /\ repo \subseteq GitCommits
      /\ pc' = [pc EXCEPT ![p] = "gitFind"] /\ "gitFind" \in PCs
      /\ UNCHANGED <<ledger, history, found, seen, parsed, snap, count, bounds>>
  BY DEF SyncStore, Goto, PCs, GitPCs, LedgerInv, ProcFits, Fits, TableTypes
<1>2. PICK g \in work[p] :
         /\ work' = [work EXCEPT ![p] = @ \ {g}]
         /\ job' = [job EXCEPT ![p] = Job("sync", g, g, NoTask, HasFiles[g])]
  BY DEF SyncStore
<1>. DEFINE j == Job("sync", g, g, NoTask, HasFiles[g])
<1>3. g \in repo /\ j \in JobType /\ j.ref = g /\ j \in Jobs
  BY <1>1, RefHash, JobIn DEF AllOps, Job, Jobs, LedgerInv
<1>4. job' = [job EXCEPT ![p] = j] /\ work[p] \ {g} \in SUBSET Works
  BY <1>2 DEF LedgerInv, LocalTypes
<1>. HIDE DEF j
<1>5. LocalTypes' /\ OthersKept(p) /\ pc'[p] = "gitFind" /\ job'[p] = j
  BY <1>1, <1>2, <1>3, <1>4 DEF LedgerInv, LocalTypes, OthersKept
<1>6. work'[p] = work[p] \ {g}
  BY <1>2 DEF LedgerInv, LocalTypes
<1>7. ProcFits(p)'
  BY <1>1, <1>3, <1>5, <1>6 DEF LedgerInv, ProcFits, Fits, BindPCs, GitPCs, RecordPCs,
                                UpdatePCs, RowPCs, ledger
<1>. QED
  BY <1>1, <1>5, <1>7, LocalStep

LEMMA TypeSyncSkip ==
    ASSUME LedgerInv, NEW p \in Procs, SyncSkip(p)
    PROVE  LedgerInv'
<1>1. /\ pc[p] \in GitPCs /\ work[p] \subseteq repo /\ "syncNext" \in PCs
      /\ Fails({}, {}) /\ UNCHANGED <<ledger, history>>
  BY DEF SyncSkip, GitPCs, SyncPCs, PCs, LedgerInv, ProcFits, Fits
<1>2. /\ LocalTypes' /\ OthersKept(p) /\ pc'[p] = "syncNext"
      /\ job'[p] = job[p] /\ found'[p] = found[p] /\ work'[p] = work[p]
      /\ parsed'[p] = parsed[p] /\ snap'[p] = snap[p]
  BY <1>1, GoneTo DEF SyncSkip
<1>3. ProcFits(p)'
  BY <1>1, <1>2 DEF LedgerInv, ProcFits, Fits, BindPCs, GitPCs, RecordPCs, UpdatePCs, RowPCs,
                    ledger
<1>. QED
  BY <1>1, <1>2, <1>3, FailPlain, LocalBoundStep DEF LedgerInv

LEMMA TitleMatchesIn ==
    ASSUME NEW made, NEW rows
    PROVE  TitleMatches(made, rows) \subseteq made \X (DOMAIN rows)
  BY DEF TitleMatches

LEMMA TypeSyncTitles ==
    ASSUME LedgerInv, NEW p \in Procs, SyncTitles(p)
    PROVE  LedgerInv'
<1>. DEFINE w == TitleMatches(parsed[p], snap[p])
<1>1. /\ work' = [work EXCEPT ![p] = w]
      /\ pc' = [pc EXCEPT ![p] = "syncTitle"] /\ "syncTitle" \in PCs
      /\ UNCHANGED <<ledger, history, job, found, seen, parsed, snap, count, bounds>>
      /\ parsed[p] \subseteq repo /\ DOMAIN snap[p] \subseteq DOMAIN commits
      /\ repo \subseteq GitCommits /\ DOMAIN commits \subseteq Nat
  BY DEF SyncTitles, Goto, PCs, SyncPCs, LedgerInv, ProcFits, TableTypes
<1>2. w \subseteq parsed[p] \X (DOMAIN snap[p])
  BY TitleMatchesIn
<1>. HIDE DEF w
<1>3. w \subseteq repo \X (DOMAIN commits)
  BY <1>1, <1>2
<1>4. w \in SUBSET Works
  BY <1>1, <1>3 DEF Works
<1>5. LocalTypes' /\ OthersKept(p) /\ pc'[p] = "syncTitle"
  BY <1>1, <1>4 DEF LedgerInv, LocalTypes, OthersKept
<1>6. work'[p] = w
  BY <1>1 DEF LedgerInv, LocalTypes
<1>7. ProcFits(p)'
  BY <1>1, <1>3, <1>5, <1>6 DEF LedgerInv, ProcFits, Fits, BindPCs, GitPCs, RecordPCs,
                                UpdatePCs, RowPCs, ledger
<1>. QED
  BY <1>1, <1>5, <1>7, LocalStep

LEMMA TypeEmergeList ==
    ASSUME LedgerInv, NEW p \in Procs, EmergeList(p)
    PROVE  LedgerInv'
<1>. DEFINE w == Listed(commits)
<1>1. /\ work' = [work EXCEPT ![p] = w]
      /\ pc' = [pc EXCEPT ![p] = "emergeNext"] /\ "emergeNext" \in PCs
      /\ UNCHANGED <<ledger, history, job, found, seen, parsed, snap, count, bounds>>
      /\ DOMAIN commits \in SUBSET Works
  BY DEF EmergeList, Goto, PCs, EmergePCs, LedgerInv, TableTypes, Works
<1>. w \subseteq DOMAIN commits
  BY DEF Listed
<1>. HIDE DEF w
<1>2. LocalTypes' /\ OthersKept(p) /\ pc'[p] = "emergeNext"
  BY <1>1 DEF LedgerInv, LocalTypes, OthersKept
<1>3. work'[p] = w
  BY <1>1 DEF LedgerInv, LocalTypes
<1>4. ProcFits(p)'
  BY <1>1, <1>2, <1>3 DEF LedgerInv, ProcFits, Fits, BindPCs, GitPCs, RecordPCs, UpdatePCs,
                          RowPCs, ledger
<1>. QED
  BY <1>1, <1>2, <1>4, LocalStep

LEMMA TypeEmergeSkip ==
    ASSUME LedgerInv, NEW p \in Procs, EmergeSkip(p)
    PROVE  LedgerInv'
<1>1. PICK id \in work[p] : work' = [work EXCEPT ![p] = @ \ {id}]
  BY DEF EmergeSkip
<1>2. /\ pc[p] = "emergeNext"
      /\ UNCHANGED <<ledger, history, pc, job, found, seen, parsed, snap, count, bounds>>
  BY DEF EmergeSkip
<1>3. LocalTypes' /\ OthersKept(p) /\ work'[p] = work[p] \ {id}
  BY <1>1, <1>2, LessWork
<1>4. ProcFits(p)'
  BY <1>2, <1>3 DEF LedgerInv, ProcFits, Fits, BindPCs, GitPCs, RecordPCs, UpdatePCs, RowPCs,
                    ledger
<1>. QED
  BY <1>2, <1>3, <1>4, LocalStep

LEMMA TypeEmergeFlag ==
    ASSUME LedgerInv, NEW p \in Procs, EmergeFlag(p)
    PROVE  LedgerInv'
<1>1. PICK id \in work[p] :
         /\ work' = [work EXCEPT ![p] = @ \ {id}] /\ found' = [found EXCEPT ![p] = id]
         /\ UNCHANGED bounds \/ Fails({}, IF HasEvent(id) THEN {id} ELSE {})
  BY DEF EmergeFlag
<1>2. /\ pc[p] = "emergeNext" /\ work[p] \subseteq DOMAIN commits
      /\ pc' = [pc EXCEPT ![p] = "emergeCreate"] /\ "emergeCreate" \in PCs
      /\ UNCHANGED <<ledger, history, job, seen, parsed, snap, count>>
      /\ DOMAIN commits \subseteq Nat
  BY DEF EmergeFlag, Goto, PCs, EmergePCs, LedgerInv, ProcFits, Fits, TableTypes
<1>3. id \in DOMAIN commits /\ id \in Nat /\ work[p] \ {id} \in SUBSET Works
  BY <1>2 DEF LedgerInv, LocalTypes
<1>. BoundTypes'
  BY <1>1, <1>3, SameBounds, FailBounds DEF LedgerInv
<1>4. /\ LocalTypes' /\ OthersKept(p) /\ pc'[p] = "emergeCreate" /\ found'[p] = id
  BY <1>1, <1>2, <1>3 DEF LedgerInv, LocalTypes, OthersKept
<1>5. work'[p] = work[p] \ {id}
  BY <1>1 DEF LedgerInv, LocalTypes
<1>6. ProcFits(p)'
  BY <1>2, <1>3, <1>4, <1>5 DEF LedgerInv, ProcFits, Fits, BindPCs, GitPCs, RecordPCs,
                                UpdatePCs, RowPCs, ledger
<1>. QED
  BY <1>2, <1>4, <1>6, LocalBoundStep

(* The event EmergeCreate adds.                                            *)
NewEvent(id) ==
    [row |-> id, consumed |-> FALSE, processed |-> FALSE, orphan |-> commits[id].task = NoTask]

EventAdded(id) ==
    /\ events' \in Seq(EventType) /\ Len(events') = Len(events) + 1
    /\ DOMAIN events' = DOMAIN events \cup {Len(events) + 1} /\ Len(events) + 1 \notin DOMAIN events
    /\ \A k \in DOMAIN events : events'[k] = events[k]
    /\ events'[Len(events) + 1].row = id
    /\ events'[Len(events) + 1].orphan = (commits[id].task = NoTask)

LEMMA EmergeEvent ==
    ASSUME LedgerInv, NEW p \in Procs, EmergeCreate(p)
    PROVE  /\ found[p] \in DOMAIN commits
           /\ \/ EventAdded(found[p]) /\ UNCHANGED bounds
              \/ UNCHANGED events /\ Fails({}, {})
<1>. DEFINE e == NewEvent(found[p])
<1>1. found[p] \in DOMAIN commits /\ found[p] \in Nat /\ events \in Seq(EventType)
  BY DEF LedgerInv, TableTypes, LocalTypes, ProcFits, Fits, EmergeCreate, RowPCs
<1>2. \/ events' = Append(events, e) /\ UNCHANGED bounds
      \/ UNCHANGED events /\ Fails({}, {})
  BY DEF EmergeCreate, NewEvent
<1>3. /\ e \in EventType /\ e.row = found[p]
      /\ e.orphan = (commits[found[p]].task = NoTask)
  BY <1>1 DEF EventType, NewEvent
<1>. HIDE DEF e
<1>4. CASE events' = Append(events, e) /\ UNCHANGED bounds
  <2>1. EventAdded(found[p])
    BY <1>1, <1>3, <1>4, AppendProperties DEF EventAdded
  <2>. QED
    BY <1>1, <1>4, <2>1
<1>. QED
  BY <1>1, <1>2, <1>4

LEMMA TypeEmergeCreate ==
    ASSUME LedgerInv, NEW p \in Procs, EmergeCreate(p)
    PROVE  LedgerInv'
<1>1. /\ found[p] \in DOMAIN commits
      /\ EventAdded(found[p]) \/ events' = events
      /\ BoundTypes'
  BY EmergeEvent, SameBounds, FailPlain DEF LedgerInv
<1>2. /\ pc[p] = "emergeCreate" /\ count' = [count EXCEPT ![p] = @ + 1]
      /\ pc' = [pc EXCEPT ![p] = "emergeNext"] /\ "emergeNext" \in PCs
      /\ UNCHANGED <<repo, commits, links, acked, binds, job, found, seen, work, parsed, snap>>
  BY DEF EmergeCreate, Goto, PCs, EmergePCs, history
<1>3. TableTypes' /\ Grows
  <2>1. \A k \in DOMAIN events' : events'[k].row \in DOMAIN commits'
    BY <1>1, <1>2 DEF EventAdded, LedgerInv, TableTypes
  <2>2. events' \in Seq(EventType)
    BY <1>1 DEF EventAdded, LedgerInv, TableTypes
  <2>. QED
    BY <1>1, <1>2, <2>1, <2>2 DEF LedgerInv, TableTypes, Grows
<1>4. LocalTypes' /\ OthersKept(p) /\ pc'[p] = "emergeNext"
  BY <1>2 DEF LedgerInv, LocalTypes, OthersKept
<1>5. ProcFits(p)'
  BY <1>2, <1>3, <1>4 DEF LedgerInv, ProcFits, Fits, BindPCs, GitPCs, RecordPCs, UpdatePCs,
                          RowPCs
<1>. QED
  BY <1>3, <1>4, <1>5, Frame

LEMMA TypeStep ==
    ASSUME LedgerInv, NEW p \in Procs, Step(p)
    PROVE  LedgerInv'
<1>1. CASE StoreGit(p)
  BY <1>1, TypeGitFind, TypeGitFiles, TypeGitFill, TypeGitInsert DEF StoreGit
<1>2. CASE Backfill(p)
  BY <1>2, TypeHookBind, TypeBindRead, TypeBindWrite, TypeBindMark DEF Backfill
<1>3. CASE Record(p)
  BY <1>3, TypeRecordLookup, TypeCreateFind, TypeCreateTask, TypeCreateInsert, TypeCreateMark
     DEF Record
<1>4. CASE Update(p) \/ UpdateMark(p)
  BY <1>4, TypeUpdate, TypeUpdateMark
<1>5. CASE SyncDone(p) \/ EmergeDone(p)
  BY <1>5, ResetStep DEF SyncDone, EmergeDone
<1>6. CASE Sync(p) /\ ~SyncDone(p)
  BY <1>6, TypeSyncLog, TypeSyncList, TypeSyncFill, TypeSyncStore, TypeSyncSkip, TypeSyncTitles,
     TypeSyncTitle DEF Sync
<1>8. CASE LookupFails(p)
  BY <1>8, TypeLookupFails
<1>7. CASE Emerge(p) /\ ~EmergeDone(p)
  BY <1>7, TypeEmergeList, TypeEmergeSkip, TypeEmergeFlag, TypeEmergeCreate DEF Emerge
<1>. QED
  BY <1>1, <1>2, <1>3, <1>4, <1>5, <1>6, <1>7, <1>8 DEF Step

LEMMA InitInv == Init => LedgerInv
<1>. SUFFICES ASSUME Init PROVE LedgerInv
  OBVIOUS
<1>1. NothingSeen \in [bind : BOOLEAN, fill : BOOLEAN]
  BY DEF NothingSeen
<1>2. /\ "idle" \in PCs /\ None \in Jobs /\ <<>> \in Seq(Row) /\ <<>> \in Seq(EventType)
  BY DEF PCs, Jobs
<1>3. LocalTypes
  BY <1>1, <1>2 DEF Init, LocalTypes
<1>4. TableTypes
  BY <1>2, LedgerAssumption DEF Init, TableTypes, BoundTypes
<1>5. \A p \in Procs : ProcFits(p)
  BY DEF Init, ProcFits, Fits, BindPCs, GitPCs, RecordPCs, UpdatePCs, RowPCs
<1>. QED
  BY <1>3, <1>4, <1>5 DEF LedgerInv

LEMMA StutterInv == LedgerInv /\ UNCHANGED vars => LedgerInv'
<1>. SUFFICES ASSUME LedgerInv, UNCHANGED vars PROVE LedgerInv'
  OBVIOUS
<1>1. UNCHANGED <<repo, commits, links, events, acked, binds, pc, job, found, seen, work,
                  parsed, snap, count, unfound, uncounted, today, calls, faults>>
  BY DEF vars
<1>2. TableTypes' /\ LocalTypes'
  BY <1>1 DEF LedgerInv, TableTypes, BoundTypes, LocalTypes
<1>3. \A p \in Procs : ProcFits(p)'
  BY <1>1 DEF LedgerInv, ProcFits, Fits
<1>. QED
  BY <1>2, <1>3 DEF LedgerInv

THEOREM LedgerInvariant == Spec => []LedgerInv
<1>1. LedgerInv /\ [Next]_vars => LedgerInv'
  BY TypeOthers, TypeBegin, TypeStep, TypeAbort, StutterInv DEF Next
<1>. QED
  BY InitInv, <1>1, PTL DEF Spec

(* Type correctness: the row a process works on and the commit it was      *)
(* given exist, whatever the others did to the table since it looked them  *)
(* up, and every event, link and reported binding is about an existing row.*)
THEOREM TypeCorrect == Spec => []TypeOK
  BY LedgerInvariant, LedgerInvTypeOK, PTL

-----------------------------------------------------------------------------
(* Which steps touch what: the lemmas the other invariants rest on.        *)

LEMMA StepTable ==
    ASSUME NEW p \in Procs, Step(p)
    PROVE  \/ commits' = commits
           \/ GitFill(p) \/ GitInsert(p) \/ BindWrite(p) \/ CreateInsert(p) \/ Update(p)
           \/ SyncFill(p) \/ SyncTitle(p)
<1>1. ASSUME GitFind(p) \/ GitFiles(p) PROVE commits' = commits
  BY <1>1 DEF GitFind, GitFiles, ledger
<1>2. ASSUME HookBind(p) \/ BindRead(p) \/ BindMark(p) PROVE commits' = commits
  BY <1>2 DEF HookBind, BindRead, BindMark, ledger
<1>3. ASSUME RecordLookup(p) \/ CreateFind(p) \/ CreateTask(p) \/ CreateMark(p) \/ UpdateMark(p)
      PROVE  commits' = commits
  BY <1>3 DEF RecordLookup, CreateFind, CreateTask, CreateMark, UpdateMark, ledger
<1>4. ASSUME SyncLog(p) \/ SyncList(p) \/ SyncStore(p) \/ SyncTitles(p) \/ SyncDone(p)
      PROVE  commits' = commits
  BY <1>4 DEF SyncLog, SyncList, SyncStore, SyncTitles, SyncDone, ledger
<1>6. ASSUME LookupFails(p) \/ SyncSkip(p) PROVE commits' = commits
  BY <1>6 DEF LookupFails, SyncSkip, ledger
<1>5. ASSUME Emerge(p) PROVE commits' = commits
  BY <1>5 DEF Emerge, EmergeList, EmergeSkip, EmergeFlag, EmergeCreate, EmergeDone, ledger
<1>. QED
  BY <1>1, <1>2, <1>3, <1>4, <1>5, <1>6 DEF Step, StoreGit, Backfill, Record, Sync

LEMMA StepEvents ==
    ASSUME NEW p \in Procs, Step(p)
    PROVE  events' = events \/ BindMark(p) \/ UpdateMark(p) \/ CreateMark(p) \/ EmergeCreate(p)
<1>1. ASSUME StoreGit(p) PROVE events' = events
  BY <1>1 DEF StoreGit, GitFind, GitFiles, GitFill, GitInsert, ledger
<1>2. ASSUME HookBind(p) \/ BindRead(p) \/ BindWrite(p) PROVE events' = events
  BY <1>2 DEF HookBind, BindRead, BindWrite, ledger
<1>3. ASSUME RecordLookup(p) \/ CreateFind(p) \/ CreateTask(p) \/ CreateInsert(p) \/ Update(p)
      PROVE  events' = events
  BY <1>3 DEF RecordLookup, CreateFind, CreateTask, CreateInsert, Update, ledger
<1>4. ASSUME Sync(p) PROVE events' = events
  BY <1>4 DEF Sync, SyncLog, SyncList, SyncFill, SyncStore, SyncSkip, SyncTitles, SyncTitle,
              SyncDone, ledger
<1>5. ASSUME EmergeList(p) \/ EmergeSkip(p) \/ EmergeFlag(p) \/ EmergeDone(p)
      PROVE  events' = events
  BY <1>5 DEF EmergeList, EmergeSkip, EmergeFlag, EmergeDone, ledger
<1>6. ASSUME LookupFails(p) PROVE events' = events
  BY <1>6 DEF LookupFails, ledger
<1>. QED
  BY <1>1, <1>2, <1>3, <1>4, <1>5, <1>6 DEF Step, Backfill, Record, Emerge

(* What a step notes of failures; it never forgets any.                    *)
LEMMA StepBounds ==
    ASSUME NEW p \in Procs, Step(p)
    PROVE  /\ UNCHANGED bounds \/ faults' = faults + 1
           /\ unfound \subseteq unfound' /\ uncounted \subseteq uncounted'
<1>. DEFINE Noted == /\ UNCHANGED bounds \/ faults' = faults + 1
                    /\ unfound \subseteq unfound' /\ uncounted \subseteq uncounted'
<1>1. ASSUME UNCHANGED bounds PROVE Noted
  BY <1>1 DEF bounds
<1>2. ASSUME NEW refs, NEW ids, Fails(refs, ids) PROVE Noted
  BY <1>2 DEF Fails
<1>3. ASSUME NEW id, Mark(id) PROVE Noted
  BY <1>1, <1>2, <1>3 DEF Mark
<1>. HIDE DEF Noted
<1>4. ASSUME GitFiles(p) \/ SyncList(p) \/ SyncFill(p) PROVE Noted
  BY <1>1, <1>2, <1>4 DEF GitFiles, SyncList, SyncFill
<1>5. ASSUME StoreGit(p), ~GitFiles(p) PROVE Noted
  BY <1>1, <1>5 DEF StoreGit, GitFind, GitFill, GitInsert
<1>6. ASSUME Backfill(p) PROVE Noted
  BY <1>1, <1>3, <1>6 DEF Backfill, HookBind, BindRead, BindWrite, BindMark
<1>7. ASSUME Record(p) PROVE Noted
  BY <1>1, <1>3, <1>7 DEF Record, RecordLookup, CreateFind, CreateTask, CreateInsert, CreateMark
<1>8. ASSUME LookupFails(p) PROVE Noted
  <2>1. PICK ref : Fails({ref}, {})
    BY <1>8 DEF LookupFails, Lookup
  <2>. QED
    BY <1>2, <2>1
<1>9. ASSUME Update(p) \/ UpdateMark(p) PROVE Noted
  BY <1>1, <1>3, <1>9 DEF Update, UpdateMark
<1>10. ASSUME Sync(p), ~SyncList(p), ~SyncFill(p) PROVE Noted
  BY <1>1, <1>2, <1>10 DEF Sync, SyncLog, SyncStore, SyncSkip, SyncTitles, SyncTitle, SyncDone
<1>11. ASSUME EmergeFlag(p) PROVE Noted
  <2>1. UNCHANGED bounds \/ \E ids : Fails({}, ids)
    BY <1>11 DEF EmergeFlag
  <2>. QED
    BY <1>1, <1>2, <2>1
<1>12. ASSUME Emerge(p), ~EmergeFlag(p) PROVE Noted
  BY <1>1, <1>2, <1>12 DEF Emerge, EmergeList, EmergeSkip, EmergeCreate, EmergeDone
<1>13. Noted
  BY <1>4, <1>5, <1>6, <1>7, <1>8, <1>9, <1>10, <1>11, <1>12 DEF Step
<1>. QED
  BY <1>13 DEF Noted

LEMMA FaultsNoted ==
    ASSUME [Next]_vars
    PROVE  unfound \subseteq unfound' /\ uncounted \subseteq uncounted'
<1>1. CASE Others \/ UNCHANGED vars
  BY <1>1 DEF Others, GitCommit, Link, Resolve, MarkConsumed, NextDay, bounds, vars
<1>2. ASSUME NEW p \in Procs, NEW op, NEW j, NEW id, NEW label, Call(p, op, j, id, label)
      PROVE  unfound' = unfound /\ uncounted' = uncounted
  BY <1>2 DEF Call
<1>3. ASSUME NEW p \in Procs, NEW op, Daemon(p, op)
      PROVE  unfound' = unfound /\ uncounted' = uncounted
  BY <1>3 DEF Daemon, bounds
<1>4. ASSUME NEW p \in Procs, NEW t, NEW first, NEW second, RecordBatch(p, t, first, second)
      PROVE  unfound \subseteq unfound' /\ uncounted' = uncounted
  BY <1>4 DEF RecordBatch
<1>5. ASSUME NEW p \in Procs, Begin(p)
      PROVE  unfound \subseteq unfound' /\ uncounted' = uncounted
  BY <1>2, <1>3, <1>4, <1>5 DEF Begin, StartHook, StartRecord, StartCreate, StartUpdate
<1>6. ASSUME NEW p \in Procs, Abort(p)
      PROVE  unfound \subseteq unfound' /\ uncounted \subseteq uncounted'
  BY <1>6 DEF Abort, Fails
<1>. QED
  BY <1>1, <1>5, <1>6, StepBounds DEF Next

(* The tables a call leaves alone; RecordBatch is the one that does not.   *)
LEMMA BeginTables ==
    ASSUME NEW p \in Procs, Begin(p)
    PROVE  /\ UNCHANGED <<links, events, acked, binds>>
           /\ \/ UNCHANGED <<commits, unfound, faults>>
              \/ \E t \in Tasks, g, h \in repo :
                    \E first \in Items(g), second \in Items(h) : RecordBatch(p, t, first, second)
<1>1. ASSUME NEW op, NEW j, NEW id, NEW label, Call(p, op, j, id, label)
      PROVE  UNCHANGED <<commits, links, events, acked, binds, unfound, faults>>
  BY <1>1 DEF Call, tables, history
<1>2. ASSUME NEW g \in GitCommits, StartHook(p, g)
      PROVE  UNCHANGED <<commits, links, events, acked, binds, unfound, faults>>
  BY <1>1, <1>2 DEF StartHook
<1>3. ASSUME NEW g, NEW ref, NEW t, NEW files,
             StartRecord(p, g, ref, t, files) \/ StartCreate(p, g, ref, t)
      PROVE  UNCHANGED <<commits, links, events, acked, binds, unfound, faults>>
  BY <1>1, <1>3 DEF StartRecord, StartCreate
<1>4. ASSUME NEW id, NEW c, StartUpdate(p, id, c)
      PROVE  UNCHANGED <<commits, links, events, acked, binds, unfound, faults>>
  BY <1>1, <1>4 DEF StartUpdate
<1>5. ASSUME NEW op, Daemon(p, op)
      PROVE  UNCHANGED <<commits, links, events, acked, binds, unfound, faults>>
  BY <1>5 DEF Daemon, ledger, history, bounds
<1>6. ASSUME NEW t, NEW first, NEW second, RecordBatch(p, t, first, second)
      PROVE  UNCHANGED <<links, events, acked, binds>>
  BY <1>6 DEF RecordBatch, history
<1>7. CASE \E t \in Tasks, g, h \in repo :
              \E first \in Items(g), second \in Items(h) : RecordBatch(p, t, first, second)
  BY <1>6, <1>7
<1>. QED
  BY <1>2, <1>3, <1>4, <1>5, <1>7 DEF Begin

LEMMA OthersTables ==
    ASSUME Others
    PROVE  /\ UNCHANGED <<commits, acked, binds, pc, locals, unfound, faults>>
           /\ \/ events' = events
              \/ \E id \in DOMAIN commits : events' = Processed(id)
              \/ MarkConsumed
<1>1. CASE NextDay
  BY <1>1 DEF NextDay, ledger, history
<1>2. CASE ~NextDay
  BY <1>2 DEF Others, GitCommit, Link, Resolve, MarkConsumed, tables, history, bounds
<1>. QED
  BY <1>1, <1>2

LEMMA AbortTables ==
    ASSUME NEW p \in Procs, Abort(p)
    PROVE  /\ UNCHANGED <<commits, links, events, acked, binds>>
           /\ Reset(p) /\ faults' = faults + 1
  BY DEF Abort, Fails, ledger, history

(* A step of p leaves what the others hold.                                *)
LEMMA StepLocal ==
    ASSUME LedgerInv, NEW p \in Procs, Step(p)
    PROVE  OthersKept(p)
<1>. DEFINE Held ==
       /\ pc \in [Procs -> PCs] /\ job \in [Procs -> Jobs] /\ found \in [Procs -> Nat]
       /\ seen \in [Procs -> [bind : BOOLEAN, fill : BOOLEAN]]
       /\ work \in [Procs -> SUBSET Works] /\ parsed \in [Procs -> SUBSET GitCommits]
       /\ snap \in [Procs -> Seq(Row)] /\ count \in [Procs -> Nat]
<1>0. Held
  BY DEF LedgerInv, LocalTypes
<1>1. ASSUME Reset(p) PROVE OthersKept(p)
  BY <1>1, ResetLocals DEF LedgerInv
<1>2. ASSUME GitFind(p) \/ GitFiles(p) PROVE OthersKept(p)
  BY <1>0, <1>2 DEF GitFind, GitFiles, Stored, Goto, locals, OthersKept
<1>3. ASSUME GitFill(p) \/ GitInsert(p) PROVE OthersKept(p)
  BY <1>0, <1>3 DEF GitFill, GitInsert, Stored, Goto, locals, OthersKept
<1>4. ASSUME HookBind(p) PROVE OthersKept(p)
  BY <1>0, <1>1, <1>4 DEF HookBind, Goto, OthersKept
<1>5. ASSUME BindRead(p), ~Reset(p) PROVE OthersKept(p)
  BY <1>0, <1>5 DEF BindRead, Goto, OthersKept
<1>6. ASSUME BindWrite(p) PROVE OthersKept(p)
  BY <1>0, <1>1, <1>6 DEF BindWrite, Goto, locals, OthersKept
<1>7. ASSUME BindMark(p) \/ CreateMark(p) \/ UpdateMark(p) \/ SyncDone(p) \/ EmergeDone(p)
      PROVE  OthersKept(p)
  BY <1>1, <1>7 DEF BindMark, CreateMark, UpdateMark, SyncDone, EmergeDone
<1>8. ASSUME RecordLookup(p), ~Reset(p) PROVE OthersKept(p)
  BY <1>0, <1>8 DEF RecordLookup, Goto, locals, OthersKept
<1>9. ASSUME CreateFind(p), ~Reset(p) PROVE OthersKept(p)
  <2>1. PICK full \in Canonical(job[p].ref) :
          LET ids == Existing(commits, full)
          IN  /\ job' = [job EXCEPT ![p].ref = full]
              /\ found' = [found EXCEPT ![p] = IF ids = {} THEN 0 ELSE AnyOf(ids)]
              /\ Goto(p, IF ids = {} THEN "createInsert" ELSE "createTask")
              /\ UNCHANGED <<seen, work, parsed, snap, count>>
    BY <1>9 DEF CreateFind
  <2>. QED
    BY <1>0, <2>1 DEF Goto, OthersKept
<1>10. ASSUME CreateTask(p) \/ CreateInsert(p) PROVE OthersKept(p)
  BY <1>0, <1>10 DEF CreateTask, CreateInsert, Goto, locals, OthersKept
<1>11. ASSUME Update(p) PROVE OthersKept(p)
  BY <1>0, <1>1, <1>11 DEF Update, Goto, locals, OthersKept
<1>12. ASSUME SyncLog(p) \/ SyncList(p) \/ SyncTitles(p) PROVE OthersKept(p)
  BY <1>0, <1>12 DEF SyncLog, SyncList, SyncTitles, Goto, OthersKept
<1>13. ASSUME SyncFill(p) \/ SyncTitle(p) PROVE OthersKept(p)
  BY <1>0, <1>13 DEF SyncFill, SyncTitle, OthersKept
<1>14. ASSUME SyncStore(p) PROVE OthersKept(p)
  BY <1>0, <1>14 DEF SyncStore, Goto, OthersKept
<1>15. ASSUME EmergeList(p) \/ EmergeSkip(p) PROVE OthersKept(p)
  BY <1>0, <1>15 DEF EmergeList, EmergeSkip, Goto, OthersKept
<1>16. ASSUME EmergeFlag(p) PROVE OthersKept(p)
  BY <1>0, <1>16 DEF EmergeFlag, Goto, OthersKept
<1>17. ASSUME EmergeCreate(p) PROVE OthersKept(p)
  BY <1>0, <1>17 DEF EmergeCreate, Goto, OthersKept
<1>18. ASSUME LookupFails(p) PROVE OthersKept(p)
  BY <1>0, <1>18 DEF LookupFails, Lookup, Goto, OthersKept
<1>19. ASSUME SyncSkip(p) PROVE OthersKept(p)
  BY <1>0, <1>19 DEF SyncSkip, Goto, locals, OthersKept
<1>. QED
  BY <1>1, <1>2, <1>3, <1>4, <1>5, <1>6, <1>7, <1>8, <1>9, <1>10, <1>11, <1>12, <1>13, <1>14,
     <1>15, <1>16, <1>17, <1>18, <1>19 DEF Step, StoreGit, Backfill, Record, Sync, Emerge

(* A call starts p; a batch leaves it idle.                                *)
LEMMA BeginLocal ==
    ASSUME LedgerInv, NEW p \in Procs, Begin(p)
    PROVE  /\ OthersKept(p) /\ pc[p] = "idle"
           /\ pc'[p] \in {"idle", "gitFind", "recordLookup", "createFind", "update", "sync",
                          "emerge"}
           /\ pc'[p] \in {"sync", "emerge"} => p \in Daemons
           /\ pc'[p] = "idle" => "batch" \in Ops
<1>. DEFINE Begun == 
       /\ OthersKept(p) /\ pc[p] = "idle"
       /\ pc'[p] \in {"idle", "gitFind", "recordLookup", "createFind", "update", "sync",
                      "emerge"}
       /\ pc'[p] \in {"sync", "emerge"} => p \in Daemons
       /\ pc'[p] = "idle" => "batch" \in Ops
<1>0. LocalTypes
  BY DEF LedgerInv
<1>1. ASSUME NEW op, NEW j, NEW id, NEW label, Call(p, op, j, id, label),
             label \in {"gitFind", "recordLookup", "createFind", "update"}
      PROVE  Begun
  BY <1>0, <1>1 DEF Call, Goto, OthersKept, LocalTypes
<1>2. ASSUME NEW g \in GitCommits, StartHook(p, g) PROVE Begun
  BY <1>1, <1>2 DEF StartHook
<1>3. ASSUME NEW g, NEW ref, NEW t, NEW files,
             StartRecord(p, g, ref, t, files) \/ StartCreate(p, g, ref, t)
      PROVE  Begun
  BY <1>1, <1>3 DEF StartRecord, StartCreate
<1>4. ASSUME NEW id, NEW c, StartUpdate(p, id, c) PROVE Begun
  BY <1>1, <1>4 DEF StartUpdate
<1>5. ASSUME NEW op \in {"sync", "emerge"}, Daemon(p, op) PROVE Begun
  BY <1>0, <1>5 DEF Daemon, Goto, locals, OthersKept, LocalTypes
<1>6. ASSUME NEW t, NEW first, NEW second, RecordBatch(p, t, first, second) PROVE Begun
  BY <1>0, <1>6 DEF RecordBatch, locals, OthersKept, LocalTypes
<1>. HIDE DEF Begun
<1>7. Begun
  BY <1>2, <1>3, <1>4, <1>5, <1>6 DEF Begin
<1>. QED
  BY <1>7 DEF Begun

(* Where each critical point of an operation is reached from.              *)
ReachedFrom(p) ==
    /\ pc'[p] \in EmergePCs => pc[p] \in EmergePCs
    /\ pc'[p] = "emergeCreate" => EmergeFlag(p)
    /\ pc'[p] = "bindWrite" => BindRead(p)
    /\ pc'[p] = "bindMark" => BindWrite(p)
    /\ pc'[p] = "updateMark" => Update(p)
    /\ pc'[p] = "createMark" => CreateInsert(p)
    /\ pc'[p] = "createTask" => CreateFind(p)
    /\ pc'[p] = "createInsert" => CreateFind(p) \/ CreateTask(p) \/ LookupFails(p)
    /\ pc'[p] = "gitFiles" => GitFind(p)
    /\ pc'[p] = "gitFill" => GitFiles(p)
    /\ pc'[p] = "gitInsert" => GitFind(p) \/ LookupFails(p)
    /\ pc'[p] = "gitFind" => SyncStore(p)
    /\ pc'[p] = "recordLookup" => FALSE
    /\ pc'[p] = "createFind" => RecordLookup(p) \/ LookupFails(p)
    /\ pc'[p] = "syncTitle" => SyncTitles(p) \/ SyncTitle(p)

LEMMA StepLabels ==
    ASSUME LedgerInv, NEW p \in Procs, Step(p)
    PROVE  ReachedFrom(p)
<1>0. pc \in [Procs -> PCs]
  BY DEF LedgerInv, LocalTypes
<1>1. ASSUME pc'[p] \in {"idle", "hookBind", "syncNext", "syncList", "bindRead"}
      PROVE  ReachedFrom(p)
  BY <1>1 DEF ReachedFrom, EmergePCs
<1>2. ASSUME Reset(p) PROVE ReachedFrom(p)
  BY <1>0, <1>1, <1>2 DEF Reset, Goto
<1>3. ASSUME GitFind(p) PROVE ReachedFrom(p)
  BY <1>0, <1>3 DEF GitFind, Goto, ReachedFrom, EmergePCs
<1>4. ASSUME GitFiles(p) PROVE ReachedFrom(p)
  BY <1>0, <1>1, <1>4 DEF GitFiles, Stored, Goto, ReachedFrom, EmergePCs
<1>5. ASSUME GitFill(p) \/ GitInsert(p) PROVE ReachedFrom(p)
  BY <1>0, <1>1, <1>5 DEF GitFill, GitInsert, Stored, Goto
<1>6. ASSUME HookBind(p), ~Reset(p) PROVE ReachedFrom(p)
  BY <1>0, <1>1, <1>6 DEF HookBind, Goto
<1>7. ASSUME BindRead(p), ~Reset(p) PROVE ReachedFrom(p)
  BY <1>0, <1>7 DEF BindRead, Goto, ReachedFrom, EmergePCs
<1>8. ASSUME BindWrite(p), ~Reset(p) PROVE ReachedFrom(p)
  BY <1>0, <1>8 DEF BindWrite, Goto, ReachedFrom, EmergePCs
<1>9. ASSUME BindMark(p) \/ CreateMark(p) \/ UpdateMark(p) \/ SyncDone(p) \/ EmergeDone(p)
      PROVE  ReachedFrom(p)
  BY <1>2, <1>9 DEF BindMark, CreateMark, UpdateMark, SyncDone, EmergeDone
<1>10. ASSUME RecordLookup(p), ~Reset(p) PROVE ReachedFrom(p)
  BY <1>0, <1>10 DEF RecordLookup, Goto, ReachedFrom, EmergePCs
<1>11. ASSUME CreateFind(p), ~Reset(p) PROVE ReachedFrom(p)
  <2>1. pc'[p] \in {"createInsert", "createTask"}
    BY <1>0, <1>11 DEF CreateFind, Goto
  <2>. QED
    BY <1>11, <2>1 DEF ReachedFrom, EmergePCs
<1>12. ASSUME CreateTask(p) PROVE ReachedFrom(p)
  BY <1>0, <1>12 DEF CreateTask, Goto, ReachedFrom, EmergePCs
<1>13. ASSUME CreateInsert(p) PROVE ReachedFrom(p)
  BY <1>0, <1>13 DEF CreateInsert, Goto, ReachedFrom, EmergePCs
<1>14. ASSUME Update(p), ~Reset(p) PROVE ReachedFrom(p)
  BY <1>0, <1>14 DEF Update, Goto, ReachedFrom, EmergePCs
<1>15. ASSUME SyncLog(p) \/ SyncList(p) PROVE ReachedFrom(p)
  BY <1>0, <1>1, <1>15 DEF SyncLog, SyncList, Goto
<1>16. ASSUME SyncTitles(p) \/ SyncStore(p) PROVE ReachedFrom(p)
  BY <1>0, <1>16 DEF SyncTitles, SyncStore, Goto, ReachedFrom, EmergePCs
<1>17. ASSUME SyncFill(p) PROVE ReachedFrom(p)
  BY <1>0, <1>1, <1>17 DEF SyncFill
<1>18. ASSUME SyncTitle(p) PROVE ReachedFrom(p)
  BY <1>0, <1>18 DEF SyncTitle, ReachedFrom, EmergePCs
<1>19. ASSUME EmergeList(p) \/ EmergeSkip(p) \/ EmergeFlag(p) \/ EmergeCreate(p)
       PROVE  ReachedFrom(p)
  <2>1. pc[p] \in EmergePCs /\ pc'[p] \in {"emergeNext", "emergeCreate"}
    BY <1>0, <1>19 DEF EmergeList, EmergeSkip, EmergeFlag, EmergeCreate, Goto, EmergePCs
  <2>2. pc'[p] = "emergeCreate" => EmergeFlag(p)
    BY <1>0, <1>19 DEF EmergeList, EmergeSkip, EmergeCreate, Goto
  <2>. QED
    BY <2>1, <2>2 DEF ReachedFrom
<1>20. ASSUME LookupFails(p) PROVE ReachedFrom(p)
  <2>1. pc'[p] \in {"gitInsert", "createFind", "createInsert"}
    BY <1>0, <1>20 DEF LookupFails, Lookup, Goto
  <2>. QED
    BY <1>20, <2>1 DEF ReachedFrom, EmergePCs
<1>21. ASSUME SyncSkip(p) PROVE ReachedFrom(p)
  BY <1>0, <1>1, <1>21 DEF SyncSkip, Goto
<1>. QED
  BY <1>2, <1>3, <1>4, <1>5, <1>6, <1>7, <1>8, <1>9, <1>10, <1>11, <1>12, <1>13, <1>14, <1>15,
     <1>16, <1>17, <1>18, <1>19, <1>20, <1>21 DEF Step, StoreGit, Backfill, Record, Sync, Emerge

-----------------------------------------------------------------------------
(* OneEventPerCommit, with at most one daemon: nobody else creates events  *)
(* between the look-up of an event and its creation, so that the row found *)
(* to have none has none, or is one whose events could not be counted.     *)

SingleEventInv ==
    /\ LedgerInv /\ OneEventPerCommit
    /\ \A p \in Procs :
         /\ pc[p] \in EmergePCs => p \in Daemons
         /\ pc[p] = "emergeCreate" => ~HasEvent(found[p]) \/ found[p] \in uncounted

LEMMA SameEventsOnce ==
    ASSUME OneEventPerCommit, SameEvents(events'), uncounted \subseteq uncounted'
    PROVE  OneEventPerCommit' /\ \A id : HasEvent(id)' => HasEvent(id)
  BY DEF OneEventPerCommit, SameEvents, HasEvent

LEMMA EventsOfOthers ==
    ASSUME LedgerInv, Others
    PROVE  SameEvents(events')
<1>1. LedgerInv'
  BY TypeOthers
<1>2. ASSUME MarkConsumed PROVE SameEvents(events')
  <2>1. events' = [k \in DOMAIN events |-> [events[k] EXCEPT !.consumed = TRUE]]
    BY <1>2 DEF MarkConsumed
  <2>2. \A k \in DOMAIN events : events[k] \in EventType
    BY DEF LedgerInv, TableTypes
  <2>3. \A k \in DOMAIN events :
           events'[k].row = events[k].row /\ events'[k].orphan = events[k].orphan
    BY <2>1, <2>2 DEF EventType
  <2>. QED
    BY <1>1, <2>1, <2>3 DEF SameEvents, LedgerInv, TableTypes
<1>. QED
  BY <1>2, OthersTables, EventsSame, ProcessedEvents DEF LedgerInv

LEMMA EventsOfStep ==
    ASSUME LedgerInv, NEW p \in Procs, Step(p)
    PROVE  SameEvents(events') \/ EmergeCreate(p)
<1>1. ASSUME BindMark(p) \/ UpdateMark(p) \/ CreateMark(p) PROVE SameEvents(events')
  BY <1>1, MarkTypes DEF BindMark, UpdateMark, CreateMark, LedgerInv
<1>. QED
  BY <1>1, StepEvents, EventsSame DEF LedgerInv

LEMMA SingleEventStep ==
    ASSUME \A p, q \in Daemons : p = q, SingleEventInv, [Next]_vars
    PROVE  SingleEventInv'
<1>1. LedgerInv /\ LedgerInv' /\ OneEventPerCommit /\ uncounted \subseteq uncounted'
  BY TypeOthers, TypeBegin, TypeStep, TypeAbort, StutterInv, FaultsNoted DEF Next, SingleEventInv
<1>. DEFINE Watched(q) == /\ pc'[q] \in EmergePCs => q \in Daemons
                          /\ pc'[q] = "emergeCreate" =>
                                ~HasEvent(found[q])' \/ found'[q] \in uncounted'
<1>2. CASE Others \/ UNCHANGED vars
  <2>1. SameEvents(events') /\ UNCHANGED <<pc, found>>
    BY <1>1, <1>2, EventsOfOthers, OthersTables, EventsSame DEF vars, locals, LedgerInv
  <2>2. OneEventPerCommit' /\ \A id : HasEvent(id)' => HasEvent(id)
    BY <1>1, <2>1, SameEventsOnce
  <2>. QED
    BY <1>1, <2>1, <2>2 DEF SingleEventInv
<1>3. ASSUME NEW p \in Procs, OthersKept(p), SameEvents(events'), Watched(p)
      PROVE  SingleEventInv'
  <2>1. OneEventPerCommit' /\ \A id : HasEvent(id)' => HasEvent(id)
    BY <1>1, <1>3, SameEventsOnce
  <2>2. ASSUME NEW q \in Procs PROVE Watched(q)
    <3>1. CASE q = p
      BY <1>3, <3>1
    <3>2. CASE q # p
      BY <1>1, <1>3, <2>1, <3>2 DEF SingleEventInv, OthersKept
    <3>. QED
      BY <3>1, <3>2
  <2>. QED
    BY <1>1, <2>1, <2>2 DEF SingleEventInv
<1>4. ASSUME NEW p \in Procs, Begin(p) PROVE SingleEventInv'
  <2>1. SameEvents(events') /\ OthersKept(p)
    BY <1>1, <1>4, BeginTables, BeginLocal, EventsSame DEF LedgerInv
  <2>2. Watched(p)
    BY <1>1, <1>4, BeginLocal DEF EmergePCs
  <2>. QED
    BY <1>3, <2>1, <2>2
<1>5. ASSUME NEW p \in Procs, Abort(p) PROVE SingleEventInv'
  <2>1. SameEvents(events') /\ OthersKept(p) /\ pc'[p] = "idle"
    BY <1>1, <1>5, AbortTables, ResetLocals, EventsSame DEF LedgerInv
  <2>. QED
    BY <1>3, <2>1 DEF EmergePCs
<1>6. ASSUME NEW p \in Procs, Step(p), ~EmergeCreate(p) PROVE SingleEventInv'
  <2>1. SameEvents(events') /\ OthersKept(p) /\ ReachedFrom(p)
    BY <1>1, <1>6, EventsOfStep, StepLocal, StepLabels
  <2>2. pc'[p] \in EmergePCs => p \in Daemons
    BY <2>1 DEF ReachedFrom, SingleEventInv
  <2>3. ASSUME EmergeFlag(p) PROVE ~HasEvent(found[p])' \/ found'[p] \in uncounted'
    <3>1. PICK id \in work[p] : /\ ~HasEvent(id) \/ id \in uncounted'
                                /\ found' = [found EXCEPT ![p] = id]
      BY <2>3 DEF EmergeFlag, Fails
    <3>2. found'[p] = id
      BY <1>1, <3>1 DEF LedgerInv, LocalTypes
    <3>. QED
      BY <1>1, <2>1, <3>1, <3>2, SameEventsOnce DEF HasEvent, SameEvents
  <2>. QED
    BY <1>3, <2>1, <2>2, <2>3 DEF ReachedFrom
<1>7. ASSUME NEW p \in Procs, EmergeCreate(p) PROVE SingleEventInv'
  <2>1. /\ pc[p] = "emergeCreate" /\ pc'[p] = "emergeNext" /\ found' = found /\ Step(p)
    BY <1>1, <1>7 DEF EmergeCreate, Goto, LedgerInv, LocalTypes, Step, Emerge
  <2>2. /\ ~HasEvent(found[p]) \/ found[p] \in uncounted
        /\ p \in Daemons /\ OthersKept(p)
    BY <1>1, <2>1, StepLocal DEF SingleEventInv, EmergePCs
  <2>3. CASE events' = events
    <3>1. SameEvents(events') /\ Watched(p)
      BY <1>1, <2>1, <2>2, <2>3, EventsSame DEF LedgerInv
    <3>. QED
      BY <1>3, <2>2, <3>1
  <2>4. CASE EventAdded(found[p])
    <3>1. OneEventPerCommit'
      BY <1>1, <2>2, <2>4 DEF OneEventPerCommit, EventAdded, HasEvent
    <3>2. ASSUME NEW q \in Procs PROVE Watched(q)
      <4>1. CASE q = p
        BY <2>1, <2>2, <4>1
      <4>2. CASE q # p
        BY <2>2, <4>2 DEF SingleEventInv, OthersKept, EmergePCs
      <4>. QED
        BY <4>1, <4>2
    <3>. QED
      BY <1>1, <3>1, <3>2 DEF SingleEventInv
  <2>. QED
    BY <1>1, <1>7, <2>3, <2>4, EmergeEvent
<1>. QED
  BY <1>2, <1>4, <1>5, <1>6, <1>7 DEF Next

(* At most one orphan event is created for a commit whose events were      *)
(* never miscounted, however often agents consume and resolve it, whatever *)
(* else fails, and however often the daemon is restarted in the middle of  *)
(* its scan, as long as one daemon runs (HasEvent).                        *)
THEOREM SingleEvent ==
    ASSUME \A p, q \in Daemons : p = q
    PROVE  Spec => []OneEventPerCommit
<1>1. Init => SingleEventInv
  <2>1. Init => OneEventPerCommit /\ \A p \in Procs : pc[p] \notin EmergePCs
    BY DEF Init, OneEventPerCommit, EmergePCs
  <2>. QED
    BY <2>1, InitInv DEF SingleEventInv, EmergePCs
<1>2. SingleEventInv /\ [Next]_vars => SingleEventInv'
  BY SingleEventStep
<1>3. SingleEventInv => OneEventPerCommit
  BY DEF SingleEventInv
<1>. QED
  BY <1>1, <1>2, <1>3, PTL DEF Spec

-----------------------------------------------------------------------------
(* What the steps do to the tasks of rows.                                 *)

TasksKept == \A i \in DOMAIN commits : commits'[i].task = commits[i].task

LEMMA StepTasks ==
    ASSUME LedgerInv, NEW p \in Procs, Step(p)
    PROVE  \/ TasksKept
           \/ BindWrite(p) /\ seen[p].bind
           \/ Update(p) /\ "task" \in DOMAIN job[p].patch
<1>1. ASSUME NEW i \in DOMAIN commits, NEW hash, HashedRow(commits, commits', i, hash)
      PROVE  TasksKept
  BY <1>1 DEF TasksKept, HashedRow, OnlyRow
<1>2. CASE commits' = commits
  BY <1>2 DEF TasksKept
<1>3. CASE GitFill(p)
  BY <1>1, <1>3, GitFillRow
<1>4. CASE GitInsert(p) \/ CreateInsert(p)
  BY <1>4, InsertRow DEF TasksKept, Added
<1>5. CASE BindWrite(p)
  BY <1>5, BindWriteRow DEF TasksKept, OnlyRow
<1>6. CASE Update(p)
  <2>1. /\ OnlyRow(commits, commits', found[p]) /\ found[p] \in DOMAIN commits
        /\ commits'[found[p]] = Patched(commits[found[p]], job[p].patch)
        /\ commits[found[p]] \in Row /\ job[p].patch \in Patches
    BY <1>6, UpdateRow DEF LedgerInv, TableTypes, UpdateJob
  <2>2. "task" \notin DOMAIN job[p].patch
           => commits'[found[p]].task = commits[found[p]].task
    BY <2>1, PatchedRow
  <2>. QED
    BY <1>6, <2>1, <2>2 DEF TasksKept, OnlyRow
<1>7. CASE SyncFill(p)
  <2>1. PICK g \in work[p] :
           LET i == AnyOf(Existing(snap[p], g))
           IN  /\ i \in DOMAIN commits
               /\ commits' = commits \/ HashedRow(commits, commits', i, g)
    BY <1>7, SyncFillRow
  <2>. QED
    BY <1>1, <1>2, <2>1
<1>8. CASE SyncTitle(p)
  BY <1>1, <1>2, <1>8, SyncTitleRow
<1>. QED
  BY <1>2, <1>3, <1>4, <1>5, <1>6, <1>7, <1>8, StepTable

(* BatchCreateCommits binds rows that have no task, and no others.         *)
LEMMA BatchTasks ==
    ASSUME TableTypes, NEW rows \in Seq(Row), NEW t \in Tasks, NEW item \in JobType,
           NEW how \in Outcomes, NEW i \in DOMAIN rows
    PROVE  \/ BatchItem(t, rows, item, how)[i].task = rows[i].task
           \/ rows[i].task = NoTask
<1>1. CASE Added(rows, BatchItem(t, rows, item, how), NewRow(item, item.ref, t, today))
  BY <1>1 DEF Added
<1>2. CASE \E j \in ExistingEitherWay(rows, item.ref) :
              BoundRow(rows, BatchItem(t, rows, item, how), j, t)
  BY <1>2 DEF BoundRow, OnlyRow
<1>. QED
  BY <1>1, <1>2, BatchItemType

LEMMA BeginTasks ==
    ASSUME LedgerInv, NEW p \in Procs, Begin(p), NEW i \in DOMAIN commits
    PROVE  commits'[i].task = commits[i].task \/ commits[i].task = NoTask
<1>1. ASSUME NEW t \in Tasks, NEW g \in repo, NEW h \in repo,
             NEW first \in Items(g), NEW second \in Items(h), RecordBatch(p, t, first, second)
      PROVE  commits'[i].task = commits[i].task \/ commits[i].task = NoTask
  <2>1. PICK one \in Outcomes, two \in Outcomes :
           commits' = BatchItem(t, BatchItem(t, commits, first, one), second, two)
    BY <1>1 DEF RecordBatch
  <2>. DEFINE mid == BatchItem(t, commits, first, one)
  <2>2. /\ first \in JobType /\ second \in JobType /\ commits \in Seq(Row) /\ TableTypes
    BY ItemsType DEF LedgerInv, TableTypes
  <2>3. /\ mid \in Seq(Row) /\ i \in DOMAIN mid
        /\ mid[i].task = commits[i].task \/ commits[i].task = NoTask
    BY <2>2, BatchItemGrows, BatchTasks
  <2>4. commits' = BatchItem(t, mid, second, two)
    BY <2>1
  <2>. HIDE DEF mid
  <2>5. commits'[i].task = mid[i].task \/ mid[i].task = NoTask
    BY <2>2, <2>3, <2>4, BatchTasks
  <2>. QED
    BY <2>3, <2>5
<1>. QED
  BY <1>1, BeginTables

-----------------------------------------------------------------------------
(* BindKept, while operations do not overlap.                              *)

BindInv ==
    /\ LedgerInv /\ BindKept
    /\ \A p \in Procs :
         /\ pc[p] = "bindWrite" /\ seen[p].bind => commits[found[p]].task = NoTask
         /\ pc[p] = "bindMark" => commits[found[p]].task = job[p].task

LEMMA StepBinds ==
    ASSUME NEW p \in Procs, Step(p)
    PROVE  binds' = binds \/ BindMark(p) \/ Update(p)
<1>1. ASSUME StoreGit(p) PROVE binds' = binds
  BY <1>1 DEF StoreGit, GitFind, GitFiles, GitFill, GitInsert, history
<1>2. ASSUME HookBind(p) \/ BindRead(p) \/ BindWrite(p) PROVE binds' = binds
  BY <1>2 DEF HookBind, BindRead, BindWrite, history
<1>3. ASSUME Record(p) \/ UpdateMark(p) PROVE binds' = binds
  BY <1>3 DEF Record, RecordLookup, CreateFind, CreateTask, CreateInsert, CreateMark, UpdateMark,
              history
<1>6. ASSUME LookupFails(p) PROVE binds' = binds
  BY <1>6 DEF LookupFails, history
<1>4. ASSUME Sync(p) PROVE binds' = binds
  BY <1>4 DEF Sync, SyncLog, SyncList, SyncFill, SyncStore, SyncSkip, SyncTitles, SyncTitle,
              SyncDone, history
<1>5. ASSUME Emerge(p) PROVE binds' = binds
  BY <1>5 DEF Emerge, EmergeList, EmergeSkip, EmergeFlag, EmergeCreate, EmergeDone, history
<1>. QED
  BY <1>1, <1>2, <1>3, <1>4, <1>5, <1>6 DEF Step, Backfill

LEMMA BindStep ==
    ASSUME \A p, q \in Procs : p = q, BindInv, [Next]_vars
    PROVE  BindInv'
<1>1. /\ LedgerInv /\ LedgerInv' /\ BindKept /\ NoTask \notin Tasks
      /\ binds \subseteq (DOMAIN commits) \X Tasks /\ LocalTypes
  BY TypeOthers, TypeBegin, TypeStep, TypeAbort, StutterInv, LedgerAssumption
     DEF Next, BindInv, LedgerInv, TableTypes
<1>2. CASE Others \/ UNCHANGED vars
  <2>1. UNCHANGED <<commits, binds, pc, seen, found, job>>
    BY <1>2, OthersTables DEF vars, locals
  <2>. QED
    BY <1>1, <2>1 DEF BindInv, BindKept
<1>3. ASSUME NEW p \in Procs, TasksKept, binds' = binds, pc'[p] \notin {"bindWrite", "bindMark"}
      PROVE  BindInv'
  <2>1. BindKept'
    BY <1>1, <1>3 DEF BindKept, TasksKept
  <2>. QED
    BY <1>1, <1>3, <2>1 DEF BindInv
<1>4. ASSUME NEW p \in Procs, Begin(p) PROVE BindInv'
  <2>1. \A i \in DOMAIN commits : commits'[i].task = commits[i].task \/ commits[i].task = NoTask
    BY <1>1, <1>4, BeginTasks
  <2>2. binds' = binds /\ pc'[p] \notin {"bindWrite", "bindMark"}
    BY <1>1, <1>4, BeginTables, BeginLocal
  <2>3. BindKept'
    BY <1>1, <2>1, <2>2 DEF BindKept
  <2>. QED
    BY <1>1, <2>2, <2>3 DEF BindInv
<1>5. ASSUME NEW p \in Procs, Abort(p) PROVE BindInv'
  <2>1. TasksKept /\ binds' = binds /\ pc'[p] = "idle"
    BY <1>1, <1>5, AbortTables, ResetLocals DEF TasksKept
  <2>. QED
    BY <1>3, <2>1
<1>6. ASSUME NEW p \in Procs, BindRead(p) PROVE BindInv'
  <2>1. TasksKept /\ UNCHANGED <<commits, binds>>
    BY <1>6 DEF BindRead, ledger, history, TasksKept
  <2>2. CASE Reset(p)
    BY <1>1, <1>3, <2>1, <2>2, ResetLocals
  <2>3. CASE ~Reset(p)
    <3>. DEFINE s == [bind |-> commits[found[p]].task = NoTask,
                      fill |-> ~commits[found[p]].files /\ job[p].files]
    <3>1. /\ seen' = [seen EXCEPT ![p] = s] /\ pc' = [pc EXCEPT ![p] = "bindWrite"]
          /\ UNCHANGED <<job, found>>
      BY <1>6, <2>3 DEF BindRead, Goto
    <3>2. s.bind = (commits[found[p]].task = NoTask)
      OBVIOUS
    <3>. HIDE DEF s
    <3>3. pc'[p] = "bindWrite" /\ seen'[p] = s
      BY <1>1, <3>1 DEF LocalTypes
    <3>. QED
      BY <1>1, <2>1, <3>1, <3>2, <3>3 DEF BindInv, BindKept
  <2>. QED
    BY <2>2, <2>3
<1>7. ASSUME NEW p \in Procs, BindWrite(p), seen[p].bind PROVE BindInv'
  <2>1. /\ found[p] \in DOMAIN commits /\ OnlyRow(commits, commits', found[p])
        /\ commits'[found[p]].task = job[p].task
    BY <1>1, <1>7, BindWriteRow
  <2>2. /\ pc[p] = "bindWrite" /\ pc' = [pc EXCEPT ![p] = "bindMark"]
        /\ UNCHANGED <<binds, job, found>>
    BY <1>7 DEF BindWrite, Goto, history, locals
  <2>3. commits[found[p]].task = NoTask
    BY <1>7, <2>2 DEF BindInv
  <2>4. BindKept'
    BY <1>1, <2>1, <2>2, <2>3 DEF BindKept, OnlyRow
  <2>. QED
    BY <1>1, <2>1, <2>2, <2>4 DEF BindInv, LocalTypes
<1>8. ASSUME NEW p \in Procs, BindMark(p) PROVE BindInv'
  <2>1. /\ binds' = binds \cup {<<found[p], job[p].task>>} /\ commits' = commits
        /\ pc[p] = "bindMark" /\ Reset(p)
    BY <1>8 DEF BindMark
  <2>2. pc'[p] = "idle"
    BY <1>1, <2>1, ResetLocals
  <2>3. BindKept'
    BY <1>1, <2>1 DEF BindInv, BindKept
  <2>. QED
    BY <1>1, <2>2, <2>3 DEF BindInv
<1>9. ASSUME NEW p \in Procs, Update(p) PROVE BindInv'
  <2>1. /\ found[p] \in DOMAIN commits /\ OnlyRow(commits, commits', found[p])
    BY <1>1, <1>9, UpdateRow
  <2>2. pc'[p] \notin {"bindWrite", "bindMark"}
    BY <1>1, <1>9 DEF Update, Goto, Reset, LocalTypes
  <2>3. CASE "task" \in DOMAIN job[p].patch
    <3>1. binds' = {b \in binds : b[1] # found[p]}
      BY <1>9, <2>3 DEF Update
    <3>2. BindKept'
      BY <1>1, <2>1, <3>1 DEF BindKept, OnlyRow
    <3>. QED
      BY <1>1, <2>2, <3>2 DEF BindInv
  <2>4. CASE "task" \notin DOMAIN job[p].patch
    <3>1. binds' = binds
      BY <1>9, <2>4 DEF Update
    <3>2. Step(p) /\ ~BindWrite(p)
      BY <1>9 DEF Step, BindWrite, Update
    <3>3. TasksKept
      BY <1>1, <2>4, <3>2, StepTasks
    <3>. QED
      BY <1>3, <2>2, <3>1, <3>3
  <2>. QED
    BY <2>3, <2>4
<1>10. ASSUME NEW p \in Procs, Step(p), ~BindRead(p), ~BindMark(p), ~Update(p),
              ~(BindWrite(p) /\ seen[p].bind)
       PROVE  BindInv'
  <2>1. TasksKept /\ binds' = binds /\ ReachedFrom(p)
    BY <1>1, <1>10, StepTasks, StepBinds, StepLabels
  <2>2. ASSUME BindWrite(p) PROVE pc'[p] = "idle"
    BY <1>1, <1>10, <2>2 DEF BindWrite, Reset, Goto, LocalTypes
  <2>. QED
    BY <1>3, <1>10, <2>1, <2>2 DEF ReachedFrom
<1>. QED
  BY <1>2, <1>4, <1>5, <1>6, <1>7, <1>8, <1>9, <1>10 DEF Next

(* While operations do not overlap, a binding that BackfillCommitTask      *)
(* reported stands until update_commit asks for another: neither a hook, a *)
(* record nor a batch rebinds the row, whatever was interrupted before     *)
(* (ErrCommitTaskConflict).                                                *)
THEOREM BindingKept ==
    ASSUME \A p, q \in Procs : p = q
    PROVE  Spec => []BindKept
<1>1. Init => BindInv
  <2>1. Init => BindKept /\ \A p \in Procs : pc[p] = "idle"
    BY DEF Init, BindKept
  <2>. QED
    BY <2>1, InitInv DEF BindInv
<1>2. BindInv /\ [Next]_vars => BindInv'
  BY BindStep
<1>3. BindInv => BindKept
  BY DEF BindInv
<1>. QED
  BY <1>1, <1>2, <1>3, PTL DEF Spec

(* Marking is the only thing to do at a mark.                              *)
LEMMA StepAtMark ==
    ASSUME NEW p \in Procs, Step(p), pc[p] \in {"bindMark", "updateMark"}
    PROVE  BindMark(p) \/ UpdateMark(p)
<1>1. ~StoreGit(p)
  BY DEF StoreGit, GitFind, GitFiles, GitFill, GitInsert
<1>2. ~HookBind(p) /\ ~BindRead(p) /\ ~BindWrite(p)
  BY DEF HookBind, BindRead, BindWrite
<1>3. ~Record(p) /\ ~Update(p)
  BY DEF Record, RecordLookup, CreateFind, CreateTask, CreateInsert, CreateMark, Update
<1>4. ~Sync(p)
  BY DEF Sync, SyncLog, SyncList, SyncFill, SyncStore, SyncSkip, SyncTitles, SyncTitle, SyncDone
<1>5. ~Emerge(p)
  BY DEF Emerge, EmergeList, EmergeSkip, EmergeFlag, EmergeCreate, EmergeDone
<1>6. ~LookupFails(p)
  BY DEF LookupFails
<1>. QED
  BY <1>1, <1>2, <1>3, <1>4, <1>5, <1>6 DEF Step, Backfill

-----------------------------------------------------------------------------
(* ResolvedWhenBound, where no batch is recorded: BatchCreateCommits marks *)
(* no event.                                                               *)

Owed(k) ==
    events[k].orphan /\ commits[events[k].row].task # NoTask /\ ~events[k].processed

(* A process is about to mark the event of the row it bound.               *)
Resolving(p, id) == pc[p] \in {"bindMark", "updateMark"} /\ found[p] = id

ResolvedInv ==
    /\ LedgerInv
    /\ faults = 0 => \A k \in DOMAIN events : Owed(k) =>
                        \E p \in Procs : Resolving(p, events[k].row)

(* The events there were stay, and what was processed stays processed.     *)
EventsLast ==
    /\ DOMAIN events \subseteq DOMAIN events'
    /\ \A k \in DOMAIN events :
          /\ events'[k].row = events[k].row /\ events'[k].orphan = events[k].orphan
          /\ events[k].processed => events'[k].processed
    /\ \A k \in DOMAIN events' \ DOMAIN events :
          events'[k].orphan => commits'[events'[k].row].task = NoTask

LEMMA EventsUnchangedLast == events' = events => EventsLast
  BY DEF EventsLast

LEMMA EventsMarkedLast ==
    ASSUME LedgerInv, NEW id, events' = Processed(id)
    PROVE  EventsLast /\ \A k \in DOMAIN events : events[k].row = id => events'[k].processed
<1>1. /\ SameEvents(Processed(id))
      /\ \A k \in DOMAIN events :
            Processed(id)[k].processed = (events[k].processed \/ events[k].row = id)
  BY ProcessedEvents DEF LedgerInv
<1>. QED
  BY <1>1 DEF EventsLast, SameEvents

LEMMA OthersEventsLast ==
    ASSUME LedgerInv, Others
    PROVE  EventsLast
<1>1. ASSUME MarkConsumed PROVE EventsLast
  <2>1. events' = [k \in DOMAIN events |-> [events[k] EXCEPT !.consumed = TRUE]]
    BY <1>1 DEF MarkConsumed
  <2>2. \A k \in DOMAIN events : events[k] \in EventType
    BY DEF LedgerInv, TableTypes
  <2>3. \A k \in DOMAIN events :
           /\ events'[k].row = events[k].row /\ events'[k].orphan = events[k].orphan
           /\ events'[k].processed = events[k].processed
    BY <2>1, <2>2 DEF EventType
  <2>. QED
    BY <2>1, <2>3 DEF EventsLast
<1>. QED
  BY <1>1, OthersTables, EventsUnchangedLast, EventsMarkedLast

LEMMA ResolvedStep ==
    ASSUME "batch" \notin Ops, ResolvedInv, [Next]_vars
    PROVE  ResolvedInv'
<1>0. LedgerInv => faults \in Nat
  BY LedgerAssumption DEF LedgerInv, TableTypes, BoundTypes
<1>1. /\ LedgerInv /\ LedgerInv' /\ LocalTypes /\ faults \in Nat
      /\ \A k \in DOMAIN events : events[k].row \in DOMAIN commits
  BY <1>0, TypeOthers, TypeBegin, TypeStep, TypeAbort, StutterInv
     DEF Next, ResolvedInv, LedgerInv, TableTypes
<1>. SUFFICES ASSUME faults' = 0, NEW k \in DOMAIN events', Owed(k)'
              PROVE  \E p \in Procs : Resolving(p, events[k].row)'
  BY <1>1 DEF ResolvedInv
(* A step that gives no row a task leaves nothing new to resolve.          *)
<1>2. ASSUME EventsLast, faults' = faults,
             \A i \in DOMAIN commits : commits'[i].task # NoTask => commits[i].task # NoTask
      PROVE  /\ k \in DOMAIN events /\ Owed(k) /\ events'[k].row = events[k].row
             /\ \E q \in Procs : Resolving(q, events[k].row)
  <2>1. k \in DOMAIN events
    BY <1>2 DEF EventsLast, Owed
  <2>2. /\ events[k].orphan /\ ~events[k].processed /\ events'[k].row = events[k].row
        /\ commits'[events[k].row].task # NoTask
    BY <1>2, <2>1 DEF EventsLast, Owed
  <2>3. Owed(k)
    BY <1>1, <1>2, <2>1, <2>2 DEF Owed
  <2>. QED
    BY <1>2, <2>1, <2>2, <2>3 DEF ResolvedInv
<1>3. CASE Others \/ UNCHANGED vars
  <2>1. /\ EventsLast /\ UNCHANGED <<commits, faults, pc, found>>
    BY <1>1, <1>3, OthersTables, OthersEventsLast, EventsUnchangedLast DEF vars, locals
  <2>2. /\ events'[k].row = events[k].row
        /\ \E q \in Procs : Resolving(q, events[k].row)
    BY <1>2, <2>1
  <2>. QED
    BY <2>1, <2>2 DEF Resolving
<1>4. ASSUME NEW p \in Procs, OthersKept(p), EventsLast, faults' = faults,
             \A i \in DOMAIN commits : commits'[i].task # NoTask => commits[i].task # NoTask,
             pc[p] \in {"bindMark", "updateMark"} =>
                \A l \in DOMAIN events : events[l].row = found[p] => events'[l].processed
      PROVE  \E q \in Procs : Resolving(q, events[k].row)'
  <2>1. /\ k \in DOMAIN events /\ events'[k].row = events[k].row
        /\ \E q \in Procs : Resolving(q, events[k].row)
    BY <1>2, <1>4
  <2>2. PICK q \in Procs : Resolving(q, events[k].row)
    BY <2>1
  <2>3. q # p
    BY <1>4, <2>1, <2>2 DEF Resolving, Owed
  <2>. QED
    BY <1>4, <2>1, <2>2, <2>3 DEF Resolving, OthersKept
<1>5. ASSUME NEW p \in Procs, Begin(p) PROVE \E q \in Procs : Resolving(q, events[k].row)'
  <2>1. commits' = commits /\ events' = events /\ faults' = faults
    BY <1>5, BeginTables DEF RecordBatch
  <2>2. OthersKept(p) /\ pc[p] = "idle"
    BY <1>1, <1>5, BeginLocal
  <2>. QED
    BY <1>4, <2>1, <2>2, EventsUnchangedLast
<1>6. ASSUME NEW p \in Procs, Abort(p) PROVE FALSE
  BY <1>1, <1>6, AbortTables
(* A step that gives row i its task goes on to mark the events of i.       *)
<1>7. ASSUME NEW p \in Procs, OthersKept(p), events' = events, faults' = faults,
             Resolving(p, found[p])', found'[p] = found[p],
             pc[p] \notin {"bindMark", "updateMark"}, OnlyRow(commits, commits', found[p])
      PROVE  \E q \in Procs : Resolving(q, events[k].row)'
  <2>1. CASE events[k].row = found[p]
    BY <1>7, <2>1 DEF Resolving
  <2>2. CASE events[k].row # found[p]
    <3>1. k \in DOMAIN events /\ events[k].row \in DOMAIN commits
      BY <1>1, <1>7
    <3>2. Owed(k) /\ faults = 0
      BY <1>7, <2>2, <3>1 DEF Owed, OnlyRow
    <3>3. PICK q \in Procs : Resolving(q, events[k].row)
      BY <3>1, <3>2 DEF ResolvedInv
    <3>4. q # p
      BY <1>7, <3>3 DEF Resolving
    <3>. QED
      BY <1>7, <3>3, <3>4 DEF Resolving, OthersKept
  <2>. QED
    BY <2>1, <2>2
<1>8. ASSUME NEW p \in Procs, BindWrite(p), seen[p].bind
      PROVE  \E q \in Procs : Resolving(q, events[k].row)'
  <2>1. /\ pc[p] = "bindWrite" /\ pc' = [pc EXCEPT ![p] = "bindMark"]
        /\ UNCHANGED <<events, found, faults>>
    BY <1>8 DEF BindWrite, Goto, locals, bounds
  <2>2. Step(p)
    BY <1>8 DEF Step, Backfill
  <2>3. OthersKept(p) /\ OnlyRow(commits, commits', found[p]) /\ pc'[p] = "bindMark"
    BY <1>1, <1>8, <2>1, <2>2, StepLocal, BindWriteRow DEF LocalTypes
  <2>. QED
    BY <1>7, <2>1, <2>3 DEF Resolving
<1>9. ASSUME NEW p \in Procs, Update(p), "task" \in DOMAIN job[p].patch
      PROVE  \E q \in Procs : Resolving(q, events[k].row)'
  <2>1. pc[p] = "update" /\ UNCHANGED <<events, faults>> /\ Step(p)
    BY <1>9 DEF Update, bounds, Step
  <2>2. /\ OthersKept(p) /\ OnlyRow(commits, commits', found[p])
        /\ found[p] \in DOMAIN commits /\ commits[found[p]] \in Row /\ job[p] \in UpdateJob
        /\ commits'[found[p]] = Patched(commits[found[p]], job[p].patch)
    BY <1>1, <1>9, <2>1, StepLocal, UpdateRow DEF LedgerInv, TableTypes
  <2>3. CASE job[p].patch.task # NoTask
    <3>1. pc' = [pc EXCEPT ![p] = "updateMark"] /\ UNCHANGED found
      BY <1>9, <2>3 DEF Update, Goto, locals
    <3>2. pc'[p] = "updateMark"
      BY <1>1, <3>1 DEF LocalTypes
    <3>. QED
      BY <1>7, <2>1, <2>2, <3>1, <3>2 DEF Resolving
  <2>4. CASE job[p].patch.task = NoTask
    <3>1. commits'[found[p]].task = NoTask
      BY <1>9, <2>2, <2>4, PatchedRow DEF UpdateJob
    <3>2. \A i \in DOMAIN commits : commits'[i].task # NoTask => commits[i].task # NoTask
      BY <2>2, <3>1 DEF OnlyRow
    <3>. QED
      BY <1>4, <2>1, <2>2, <3>2, EventsUnchangedLast
  <2>. QED
    BY <2>3, <2>4
<1>10. ASSUME NEW p \in Procs, Step(p), ~(BindWrite(p) /\ seen[p].bind),
              ~(Update(p) /\ "task" \in DOMAIN job[p].patch)
       PROVE  \E q \in Procs : Resolving(q, events[k].row)'
  <2>1. /\ OthersKept(p)
        /\ \A i \in DOMAIN commits : commits'[i].task # NoTask => commits[i].task # NoTask
    BY <1>1, <1>10, StepLocal, StepTasks DEF TasksKept
  <2>2. faults' = faults /\ ~Fails({}, {})
    BY <1>1, <1>10, StepBounds DEF bounds, Fails
  <2>3. CASE BindMark(p) \/ UpdateMark(p) \/ CreateMark(p)
    <3>1. events' = Processed(found[p])
      BY <2>2, <2>3 DEF BindMark, UpdateMark, CreateMark, Mark
    <3>2. EventsLast /\ \A l \in DOMAIN events : events[l].row = found[p] => events'[l].processed
      BY <1>1, <3>1, EventsMarkedLast
    <3>. QED
      BY <1>4, <2>1, <2>2, <3>2
  <2>4. CASE EmergeCreate(p)
    <3>1. EventAdded(found[p]) /\ commits' = commits /\ pc[p] = "emergeCreate"
      BY <1>1, <2>2, <2>4, EmergeEvent DEF EmergeCreate
    <3>2. EventsLast
      BY <3>1 DEF EventAdded, EventsLast
    <3>. QED
      BY <1>4, <2>1, <2>2, <3>1, <3>2
  <2>5. CASE events' = events /\ ~(BindMark(p) \/ UpdateMark(p))
    <3>1. pc[p] \notin {"bindMark", "updateMark"}
      BY <1>10, <2>5, StepAtMark
    <3>. QED
      BY <1>4, <2>1, <2>2, <2>5, <3>1, EventsUnchangedLast
  <2>. QED
    BY <1>10, <2>3, <2>4, <2>5, StepEvents
<1>. QED
  BY <1>3, <1>5, <1>6, <1>8, <1>9, <1>10 DEF Next

(* Where no batch is recorded: when nothing runs and nothing stopped half  *)
(* way, the event of an orphan that has been bound since is processed,     *)
(* whichever of hook, record and update_commit bound it, and however they  *)
(* overlapped (BackfillCommitTask, "binding resolves the orphan event").   *)
THEOREM OrphansResolved ==
    ASSUME "batch" \notin Ops
    PROVE  Spec => []ResolvedWhenBound
<1>1. Init => ResolvedInv
  <2>1. Init => DOMAIN events = {}
    BY DEF Init
  <2>. QED
    BY <2>1, InitInv DEF ResolvedInv
<1>2. ResolvedInv /\ [Next]_vars => ResolvedInv'
  BY ResolvedStep
<1>3. ResolvedInv => ResolvedWhenBound
  BY DEF ResolvedInv, ResolvedWhenBound, Owed, Resolving, Quiet
<1>. QED
  BY <1>1, <1>2, <1>3, PTL DEF Spec

-----------------------------------------------------------------------------
(* RecordedStays, where subject lines and prefixes tell commits apart and  *)
(* update_commit changes no hash: a row's title then says which commit its *)
(* hash may ever name.                                                     *)

DistinctNames ==
    \A g, h \in GitCommits : (TitleOf[g] = TitleOf[h] \/ ShortOf[g] = ShortOf[h]) => g = h

NoHashPatch == \A c \in Patches : "hash" \notin DOMAIN c

(* A hash, or a prefix, goes with the title of the commit it names.        *)
NamedAs(hash, title) ==
    \A g \in GitCommits : hash \in {g, ShortOf[g]} => title = TitleOf[g]

NamedRows(rows) == \A i \in DOMAIN rows : NamedAs(rows[i].hash, rows[i].title)

(* Rows keep their titles and go on naming the commits they name.          *)
Steady(rows, new) ==
    \A i \in DOMAIN rows :
        /\ i \in DOMAIN new /\ new[i].title = rows[i].title
        /\ \A g \in GitCommits :
              rows[i].hash \in {g, ShortOf[g]} => new[i].hash \in {g, ShortOf[g]}

(* What p goes by is named as its row is.                                  *)
ProcNamed(p) ==
    /\ pc[p] \in GitPCs \cup RecordPCs => NamedAs(job[p].ref, job[p].title)
    /\ pc[p] = "gitFiles" => Traces(found[p], job[p].ref)
    /\ pc[p] = "gitFill" => commits[found[p]].title = TitleOf[job[p].ref]
    /\ pc[p] = "createMark" => (job[p].ref \in GitCommits => Traces(found[p], job[p].ref))
    /\ pc[p] = "syncTitle" => \A m \in work[p] : commits[m[2]].title = TitleOf[m[1]]
    /\ NamedRows(snap[p]) /\ \A i \in DOMAIN snap[p] : snap[p][i].title = commits[i].title

RecordedInv ==
    /\ LedgerInv /\ RecordedStays /\ NamedRows(commits)
    /\ \A p \in Procs : ProcNamed(p)

LEMMA NameOfHash ==
    ASSUME DistinctNames, NEW g \in GitCommits, NEW ref \in {g, ShortOf[g]}
    PROVE  NamedAs(ref, TitleOf[g])
<1>1. ASSUME NEW h \in GitCommits, ref \in {h, ShortOf[h]} PROVE h = g
  BY <1>1, RefHash DEF DistinctNames
<1>. QED
  BY <1>1 DEF NamedAs

LEMMA SteadyHash ==
    ASSUME DistinctNames, LedgerInv, NamedRows(commits), NEW i \in DOMAIN commits,
           NEW h \in GitCommits, commits[i].title = TitleOf[h],
           HashedRow(commits, commits', i, h)
    PROVE  Steady(commits, commits') /\ NamedRows(commits') /\ Traces(i, h)'
<1>1. /\ DOMAIN commits' = DOMAIN commits
      /\ \A j \in DOMAIN commits : j # i => commits'[j] = commits[j]
      /\ commits'[i].hash = h /\ commits'[i].title = commits[i].title
  BY DEF HashedRow, OnlyRow
<1>2. ASSUME NEW g \in GitCommits, commits[i].hash \in {g, ShortOf[g]} PROVE g = h
  BY <1>2 DEF NamedRows, NamedAs, DistinctNames
<1>3. Steady(commits, commits')
  BY <1>1, <1>2 DEF Steady
<1>4. NamedAs(h, TitleOf[h])
  BY NameOfHash
<1>5. NamedRows(commits')
  BY <1>1, <1>4 DEF NamedRows
<1>. QED
  BY <1>1, <1>3, <1>5 DEF Traces

LEMMA SteadyRow ==
    ASSUME NEW rows, NEW new, NEW i, NamedRows(rows), OnlyRow(rows, new, i),
           new[i].title = rows[i].title, new[i].hash = rows[i].hash
    PROVE  Steady(rows, new) /\ NamedRows(new)
<1>1. \A j \in DOMAIN rows : new[j].title = rows[j].title /\ new[j].hash = rows[j].hash
  BY DEF OnlyRow
<1>. QED
  BY <1>1 DEF Steady, NamedRows, OnlyRow

LEMMA SteadyAdd ==
    ASSUME NEW rows, NEW new, NEW row, NamedRows(rows), Added(rows, new, row),
           NamedAs(row.hash, row.title)
    PROVE  Steady(rows, new) /\ NamedRows(new)
  BY DEF Steady, NamedRows, Added

LEMMA SteadySame ==
    ASSUME NEW rows, NamedRows(rows)
    PROVE  Steady(rows, rows)
  BY DEF Steady

LEMMA SteadyTwice ==
    ASSUME NEW a, NEW b, NEW c, Steady(a, b), Steady(b, c)
    PROVE  Steady(a, c)
  BY DEF Steady

(* The commits a table matches for a full hash.                            *)
LEMMA ExistingTraces ==
    ASSUME NEW rows, NEW g \in GitCommits, NEW i \in Existing(rows, g)
    PROVE  i \in DOMAIN rows /\ rows[i].hash \in {g, ShortOf[g]}
  BY DEF Existing, Matches

LEMMA StepSteady ==
    ASSUME DistinctNames, NoHashPatch, RecordedInv, NEW p \in Procs, Step(p)
    PROVE  Steady(commits, commits') /\ NamedRows(commits')
<1>1. LedgerInv /\ NamedRows(commits) /\ repo \subseteq GitCommits /\ ProcNamed(p)
  BY DEF RecordedInv, LedgerInv, TableTypes
<1>2. CASE commits' = commits
  BY <1>1, <1>2, SteadySame
<1>3. CASE GitFill(p)
  <2>1. commits[found[p]].title = TitleOf[job[p].ref]
    BY <1>1, <1>3 DEF GitFill, ProcNamed
  <2>. QED
    BY <1>1, <1>3, <2>1, GitFillRow, SteadyHash
<1>4. CASE GitInsert(p) \/ CreateInsert(p)
  <2>. DEFINE row == Inserted(p)
  <2>1. job[p] \in JobType /\ Added(commits, commits', row)
    BY <1>1, <1>4, InsertRow
  <2>2. NamedAs(job[p].ref, job[p].title)
    BY <1>1, <1>4 DEF GitInsert, CreateInsert, GitPCs, RecordPCs, ProcNamed
  <2>3. row.hash = job[p].ref /\ row.title = job[p].title
    BY DEF NewRow, Inserted
  <2>. HIDE DEF row
  <2>. QED
    BY <1>1, <2>1, <2>2, <2>3, SteadyAdd
<1>5. CASE BindWrite(p)
  BY <1>1, <1>5, BindWriteRow, SteadyRow
<1>6. CASE Update(p)
  <2>1. /\ OnlyRow(commits, commits', found[p]) /\ found[p] \in DOMAIN commits
        /\ commits'[found[p]] = Patched(commits[found[p]], job[p].patch)
        /\ commits[found[p]] \in Row /\ job[p].patch \in Patches
    BY <1>1, <1>6, UpdateRow DEF LedgerInv, TableTypes, UpdateJob
  <2>2. /\ commits'[found[p]].title = commits[found[p]].title
        /\ commits'[found[p]].hash = commits[found[p]].hash
    BY <2>1, PatchedRow DEF NoHashPatch
  <2>. QED
    BY <1>1, <2>1, <2>2, SteadyRow
<1>7. CASE SyncFill(p)
  <2>1. PICK g \in work[p] :
           LET i == AnyOf(Existing(snap[p], g))
           IN  /\ g \in repo /\ i \in Existing(snap[p], g) /\ i \in DOMAIN commits
               /\ commits' = commits \/ HashedRow(commits, commits', i, g)
    BY <1>1, <1>7, SyncFillRow
  <2>. DEFINE i == AnyOf(Existing(snap[p], g))
  <2>2. /\ g \in GitCommits /\ i \in Existing(snap[p], g) /\ i \in DOMAIN commits
        /\ commits' = commits \/ HashedRow(commits, commits', i, g)
    BY <1>1, <2>1
  <2>. HIDE DEF i
  <2>3. i \in DOMAIN snap[p] /\ snap[p][i].hash \in {g, ShortOf[g]}
    BY <2>2, ExistingTraces
  <2>4. commits[i].title = TitleOf[g]
    BY <1>1, <2>2, <2>3 DEF ProcNamed, NamedRows, NamedAs
  <2>. QED
    BY <1>1, <1>2, <2>2, <2>4, SteadyHash
<1>8. CASE SyncTitle(p)
  <2>1. PICK m \in work[p] :
              /\ m[1] \in repo /\ m[2] \in DOMAIN commits
              /\ commits' = commits \/ HashedRow(commits, commits', m[2], m[1])
    BY <1>1, <1>8, SyncTitleRow
  <2>2. commits[m[2]].title = TitleOf[m[1]]
    BY <1>1, <1>8, <2>1 DEF SyncTitle, ProcNamed
  <2>. QED
    BY <1>1, <1>2, <2>1, <2>2, SteadyHash
<1>. QED
  BY <1>2, <1>3, <1>4, <1>5, <1>6, <1>7, <1>8, StepTable

LEMMA SteadyBatchItem ==
    ASSUME DistinctNames, TableTypes, NEW rows \in Seq(Row), NamedRows(rows), NEW t \in Tasks,
           NEW g \in GitCommits, NEW item \in Items(g), NEW how \in Outcomes,
           NEW new, new = BatchItem(t, rows, item, how)
    PROVE  /\ Steady(rows, new) /\ NamedRows(new) /\ new \in Seq(Row)
           /\ DOMAIN new = DOMAIN rows \/ Added(rows, new, NewRow(item, item.ref, t, today))
<1>1. item \in JobType /\ item.title = TitleOf[g] /\ item.ref \in {g, ShortOf[g]}
  BY ItemsType
<1>2. CASE Added(rows, new, NewRow(item, item.ref, t, today))
  <2>1. NamedAs(item.ref, item.title)
    BY <1>1, NameOfHash
  <2>. DEFINE row == NewRow(item, item.ref, t, today)
  <2>2. row.hash = item.ref /\ row.title = item.title
    BY DEF NewRow
  <2>3. Added(rows, new, row)
    BY <1>2
  <2>. HIDE DEF row
  <2>4. Steady(rows, new) /\ NamedRows(new)
    BY <2>1, <2>2, <2>3, SteadyAdd
  <2>. QED
    BY <1>2, <2>4 DEF Added
<1>3. CASE \E i \in ExistingEitherWay(rows, item.ref) : BoundRow(rows, new, i, t)
  BY <1>3, SteadyRow DEF BoundRow, OnlyRow
<1>4. CASE new = rows
  BY <1>4, SteadySame
<1>. QED
  BY <1>1, <1>2, <1>3, <1>4, BatchItemType

LEMMA BeginSteady ==
    ASSUME DistinctNames, RecordedInv, NEW p \in Procs, Begin(p)
    PROVE  Steady(commits, commits') /\ NamedRows(commits')
<1>1. /\ NamedRows(commits) /\ commits \in Seq(Row) /\ repo \subseteq GitCommits /\ TableTypes
  BY DEF RecordedInv, LedgerInv, TableTypes
<1>2. ASSUME NEW t \in Tasks, NEW g \in repo, NEW h \in repo,
             NEW first \in Items(g), NEW second \in Items(h), RecordBatch(p, t, first, second)
      PROVE  Steady(commits, commits') /\ NamedRows(commits')
  <2>1. PICK one \in Outcomes, two \in Outcomes :
           commits' = BatchItem(t, BatchItem(t, commits, first, one), second, two)
    BY <1>2 DEF RecordBatch
  <2>. DEFINE mid == BatchItem(t, commits, first, one)
  <2>2. Steady(commits, mid) /\ NamedRows(mid) /\ mid \in Seq(Row)
    BY <1>1, SteadyBatchItem
  <2>3. commits' = BatchItem(t, mid, second, two)
    BY <2>1
  <2>. HIDE DEF mid
  <2>4. Steady(mid, commits') /\ NamedRows(commits')
    BY <1>1, <2>2, <2>3, SteadyBatchItem
  <2>. QED
    BY <2>2, <2>4, SteadyTwice
<1>. QED
  BY <1>1, <1>2, BeginTables, SteadySame

LEMMA StepAcks ==
    ASSUME NEW p \in Procs, Step(p)
    PROVE  \/ acked' = acked
           \/ GitFiles(p) \/ GitFill(p) \/ GitInsert(p) \/ CreateMark(p) \/ Update(p) \/ SyncFill(p)
<1>1. ASSUME GitFind(p) PROVE acked' = acked
  BY <1>1 DEF GitFind, history
<1>2. ASSUME Backfill(p) PROVE acked' = acked
  BY <1>2 DEF Backfill, HookBind, BindRead, BindWrite, BindMark, history
<1>3. ASSUME RecordLookup(p) \/ CreateFind(p) \/ CreateTask(p) \/ CreateInsert(p) \/ UpdateMark(p)
      PROVE  acked' = acked
  BY <1>3 DEF RecordLookup, CreateFind, CreateTask, CreateInsert, UpdateMark, history
<1>4. ASSUME Sync(p), ~SyncFill(p) PROVE acked' = acked
  BY <1>4 DEF Sync, SyncLog, SyncList, SyncStore, SyncSkip, SyncTitles, SyncTitle, SyncDone,
              history
<1>5. ASSUME Emerge(p) PROVE acked' = acked
  BY <1>5 DEF Emerge, EmergeList, EmergeSkip, EmergeFlag, EmergeCreate, EmergeDone, history
<1>6. ASSUME LookupFails(p) PROVE acked' = acked
  BY <1>6 DEF LookupFails, history
<1>. QED
  BY <1>1, <1>2, <1>3, <1>4, <1>5, <1>6 DEF Step, StoreGit, Record

LEMMA BeginSnap ==
    ASSUME NEW p \in Procs, Begin(p)
    PROVE  snap' = snap
<1>1. ASSUME NEW op, NEW j, NEW id, NEW label, Call(p, op, j, id, label) PROVE snap' = snap
  BY <1>1 DEF Call
<1>2. ASSUME NEW g, StartHook(p, g) PROVE snap' = snap
  BY <1>1, <1>2 DEF StartHook
<1>3. ASSUME NEW g, NEW ref, NEW t, NEW files,
             StartRecord(p, g, ref, t, files) \/ StartCreate(p, g, ref, t)
      PROVE  snap' = snap
  BY <1>1, <1>3 DEF StartRecord, StartCreate
<1>4. ASSUME NEW id, NEW c, StartUpdate(p, id, c) PROVE snap' = snap
  BY <1>1, <1>4 DEF StartUpdate
<1>5. ASSUME NEW op, Daemon(p, op) PROVE snap' = snap
  BY <1>5 DEF Daemon, locals
<1>6. ASSUME NEW t, NEW first, NEW second, RecordBatch(p, t, first, second) PROVE snap' = snap
  BY <1>6 DEF RecordBatch, locals
<1>. QED
  BY <1>2, <1>3, <1>4, <1>5, <1>6 DEF Begin

LEMMA NamedFrame ==
    ASSUME LedgerInv, NEW q \in Procs, ProcNamed(q), Steady(commits, commits'),
           /\ pc'[q] = pc[q] /\ job'[q] = job[q] /\ found'[q] = found[q]
           /\ work'[q] = work[q] /\ snap'[q] = snap[q]
    PROVE  ProcNamed(q)'
<1>1. /\ pc[q] \in RowPCs => found[q] \in DOMAIN commits
      /\ pc[q] = "syncTitle" => work[q] \subseteq repo \X (DOMAIN commits)
      /\ pc[q] \in GitPCs => job[q].ref \in GitCommits
      /\ DOMAIN snap[q] \subseteq DOMAIN commits
  BY DEF LedgerInv, TableTypes, ProcFits, Fits
<1>2. pc[q] = "gitFiles" => Traces(found[q], job[q].ref)'
  BY <1>1 DEF ProcNamed, Steady, Traces, RowPCs, GitPCs
<1>3. pc[q] = "gitFill" => commits'[found[q]].title = TitleOf[job[q].ref]
  BY <1>1 DEF ProcNamed, Steady, RowPCs
<1>4. pc[q] = "createMark" => (job[q].ref \in GitCommits => Traces(found[q], job[q].ref)')
  BY <1>1 DEF ProcNamed, Steady, Traces, RowPCs
<1>5. pc[q] = "syncTitle" => \A m \in work[q] : commits'[m[2]].title = TitleOf[m[1]]
  BY <1>1 DEF ProcNamed, Steady
<1>6. \A i \in DOMAIN snap[q] : snap[q][i].title = commits'[i].title
  BY <1>1 DEF ProcNamed, Steady
<1>. QED
  BY <1>2, <1>3, <1>4, <1>5, <1>6 DEF ProcNamed, Traces

LEMMA StepSnap ==
    ASSUME NEW p \in Procs, Step(p)
    PROVE  snap' = snap \/ Reset(p) \/ SyncList(p)
<1>1. ASSUME StoreGit(p) PROVE snap' = snap
  BY <1>1 DEF StoreGit, GitFind, GitFiles, GitFill, GitInsert, locals
<1>2. ASSUME Backfill(p), ~Reset(p) PROVE snap' = snap
  BY <1>2 DEF Backfill, HookBind, BindRead, BindWrite, BindMark, locals
<1>3. ASSUME Record(p) \/ Update(p) \/ UpdateMark(p), ~Reset(p) PROVE snap' = snap
  BY <1>3 DEF Record, RecordLookup, CreateFind, CreateTask, CreateInsert, CreateMark, Update,
              UpdateMark, locals
<1>4. ASSUME Sync(p), ~SyncList(p), ~Reset(p) PROVE snap' = snap
  BY <1>4 DEF Sync, SyncLog, SyncFill, SyncStore, SyncSkip, SyncTitles, SyncTitle, SyncDone,
              locals
<1>5. ASSUME Emerge(p), ~Reset(p) PROVE snap' = snap
  BY <1>5 DEF Emerge, EmergeList, EmergeSkip, EmergeFlag, EmergeCreate, EmergeDone
<1>6. ASSUME LookupFails(p) PROVE snap' = snap
  BY <1>6 DEF LookupFails
<1>. QED
  BY <1>1, <1>2, <1>3, <1>4, <1>5, <1>6 DEF Step

LEMMA SnapNamed ==
    ASSUME RecordedInv, NEW p \in Procs, Step(p), Steady(commits, commits')
    PROVE  NamedRows(snap'[p]) /\ \A i \in DOMAIN snap'[p] : snap'[p][i].title = commits'[i].title
<1>1. /\ LocalTypes /\ NamedRows(commits) /\ NamedRows(snap[p])
      /\ DOMAIN snap[p] \subseteq DOMAIN commits
      /\ \A i \in DOMAIN snap[p] : snap[p][i].title = commits[i].title
  BY DEF RecordedInv, LedgerInv, ProcFits, ProcNamed
<1>2. CASE snap' = snap
  BY <1>1, <1>2 DEF Steady
<1>3. CASE Reset(p)
  <2>1. snap'[p] = <<>>
    BY <1>1, <1>3 DEF Reset, LocalTypes
  <2>. QED
    BY <2>1 DEF NamedRows
<1>4. CASE SyncList(p)
  <2>1. snap'[p] \in {commits, snap[p]} /\ commits' = commits
    BY <1>1, <1>4 DEF SyncList, LocalTypes, ledger
  <2>. QED
    BY <1>1, <2>1
<1>. QED
  BY <1>2, <1>3, <1>4, StepSnap

(* git finds the full hash of the commit the job is about.                 *)
LEMMA CanonicalNamed ==
    ASSUME DistinctNames, repo \subseteq GitCommits, NEW ref, NEW title, NamedAs(ref, title),
           NEW full \in Canonical(ref)
    PROVE  NamedAs(full, title)
<1>1. CASE full = ref
  BY <1>1
<1>2. CASE full \in repo /\ ref \in {full, ShortOf[full]}
  <2>1. full \in GitCommits /\ title = TitleOf[full]
    BY <1>2 DEF NamedAs
  <2>2. NamedAs(full, TitleOf[full])
    BY <2>1, NameOfHash
  <2>. QED
    BY <2>1, <2>2
<1>. QED
  BY <1>1, <1>2 DEF Canonical

LEMMA StepNamed ==
    ASSUME DistinctNames, RecordedInv, NEW p \in Procs, Step(p), Steady(commits, commits')
    PROVE  ProcNamed(p)'
<1>0. /\ LedgerInv /\ LocalTypes /\ NamedRows(commits) /\ ProcNamed(p) /\ repo \subseteq GitCommits
      /\ DOMAIN snap[p] \subseteq DOMAIN commits /\ ReachedFrom(p)
  BY StepLabels DEF RecordedInv, LedgerInv, TableTypes, ProcFits
<1>1. NamedRows(snap'[p]) /\ \A i \in DOMAIN snap'[p] : snap'[p][i].title = commits'[i].title
  BY SnapNamed
<1>10. CASE LookupFails(p) /\ pc'[p] \in {"gitInsert", "createFind", "createInsert"}
  <2>1. job[p] \in JobType /\ NamedAs(job[p].ref, job[p].title)
    BY <1>0, <1>10 DEF LookupFails, LedgerInv, ProcFits, Fits, ProcNamed, GitPCs, RecordPCs
  <2>2. \/ job' = job
        \/ \E full \in Canonical(job[p].ref) : job' = [job EXCEPT ![p].ref = full]
    BY <1>10 DEF LookupFails
  <2>3. ASSUME NEW full \in Canonical(job[p].ref), job' = [job EXCEPT ![p].ref = full]
        PROVE  NamedAs(job'[p].ref, job'[p].title)
    <3>1. job'[p].ref = full /\ job'[p].title = job[p].title
      BY <1>0, <2>1, <2>3 DEF LocalTypes, JobType
    <3>. QED
      BY <1>0, <2>1, <3>1, CanonicalNamed
  <2>4. NamedAs(job'[p].ref, job'[p].title)
    BY <2>1, <2>2, <2>3
  <2>. QED
    BY <1>1, <1>10, <2>4 DEF ProcNamed
<1>2. CASE pc'[p] \in {"gitFiles", "gitInsert"} /\ ~LookupFails(p)
  <2>. DEFINE ids == Existing(commits, job[p].ref)
  <2>1. GitFind(p) /\ job[p].ref \in GitCommits
    BY <1>0, <1>2 DEF ReachedFrom, GitFind, LedgerInv, ProcFits, Fits, GitPCs
  <2>2. /\ pc[p] = "gitFind" /\ UNCHANGED <<commits, job>>
        /\ found' = [found EXCEPT ![p] = IF ids = {} THEN 0 ELSE AnyOf(ids)]
        /\ pc' = [pc EXCEPT ![p] = IF ids = {} THEN "gitInsert" ELSE "gitFiles"]
    BY <2>1 DEF GitFind, Goto, ledger
  <2>3. NamedAs(job'[p].ref, job'[p].title)
    BY <1>0, <2>2 DEF ProcNamed, GitPCs
  <2>4. ASSUME pc'[p] = "gitFiles" PROVE Traces(found[p], job[p].ref)'
    <3>1. ids # {} /\ found'[p] = AnyOf(ids)
      BY <1>0, <2>2, <2>4 DEF LocalTypes
    <3>2. found'[p] \in ids
      BY <3>1, AnyOfIn
    <3>. QED
      BY <2>1, <2>2, <3>2, ExistingTraces DEF Traces
  <2>. QED
    BY <1>1, <1>2, <2>3, <2>4 DEF ProcNamed
<1>3. CASE pc'[p] = "gitFill"
  <2>1. GitFiles(p) /\ pc[p] = "gitFiles" /\ UNCHANGED <<commits, job, found>>
    BY <1>0, <1>3 DEF ReachedFrom, GitFiles, ledger, locals
  <2>2. job[p].ref \in GitCommits /\ found[p] \in DOMAIN commits
    BY <1>0, <2>1 DEF LedgerInv, ProcFits, Fits, GitPCs, RowPCs
  <2>3. NamedAs(job'[p].ref, job'[p].title) /\ Traces(found[p], job[p].ref)
    BY <1>0, <2>1 DEF ProcNamed, GitPCs
  <2>4. commits'[found'[p]].title = TitleOf[job'[p].ref]
    BY <1>0, <2>1, <2>2, <2>3 DEF Traces, NamedRows, NamedAs
  <2>. QED
    BY <1>1, <1>3, <2>3, <2>4 DEF ProcNamed
<1>4. CASE pc'[p] = "gitFind"
  <2>1. SyncStore(p)
    BY <1>0, <1>4 DEF ReachedFrom
  <2>2. PICK g \in work[p] : job' = [job EXCEPT ![p] = Job("sync", g, g, NoTask, HasFiles[g])]
    BY <2>1 DEF SyncStore
  <2>3. g \in GitCommits
    BY <1>0, <2>1, <2>2 DEF SyncStore, LedgerInv, ProcFits, Fits
  <2>4. job'[p].ref = g /\ job'[p].title = TitleOf[g]
    BY <1>0, <2>2 DEF LocalTypes, Job
  <2>5. NamedAs(job'[p].ref, job'[p].title)
    BY <2>3, <2>4, NameOfHash
  <2>. QED
    BY <1>1, <1>4, <2>5 DEF ProcNamed
<1>5. CASE pc'[p] = "createFind" /\ ~LookupFails(p)
  <2>1. RecordLookup(p) /\ pc[p] = "recordLookup" /\ job'[p] = job[p]
    BY <1>0, <1>5 DEF ReachedFrom, RecordLookup, Goto, locals, LocalTypes, Reset
  <2>2. NamedAs(job'[p].ref, job'[p].title)
    BY <1>0, <2>1 DEF ProcNamed, RecordPCs
  <2>. QED
    BY <1>1, <1>5, <2>2 DEF ProcNamed
<1>6. CASE pc'[p] \in {"createTask", "createInsert"} /\ ~LookupFails(p)
  <2>1. ASSUME CreateFind(p) PROVE NamedAs(job'[p].ref, job'[p].title)
    <3>1. ~Reset(p)
      BY <1>0, <1>6 DEF Reset, Goto, LocalTypes
    <3>2. PICK full \in Canonical(job[p].ref) : job' = [job EXCEPT ![p].ref = full]
      BY <2>1, <3>1 DEF CreateFind
    <3>3. job[p] \in JobType /\ NamedAs(job[p].ref, job[p].title)
      BY <1>0, <2>1 DEF CreateFind, LedgerInv, ProcFits, Fits, ProcNamed, RecordPCs
    <3>4. job'[p].ref = full /\ job'[p].title = job[p].title
      BY <1>0, <3>2, <3>3 DEF LocalTypes, JobType
    <3>. QED
      BY <1>0, <3>3, <3>4, CanonicalNamed
  <2>2. ASSUME CreateTask(p) PROVE NamedAs(job'[p].ref, job'[p].title)
    BY <1>0, <2>2 DEF CreateTask, locals, ProcNamed, RecordPCs
  <2>. QED
    BY <1>0, <1>1, <1>6, <2>1, <2>2 DEF ProcNamed, ReachedFrom
<1>7. CASE pc'[p] = "createMark"
  <2>1. /\ CreateInsert(p) /\ pc[p] = "createInsert" /\ job' = job
        /\ found' = [found EXCEPT ![p] = Len(commits) + 1]
    BY <1>0, <1>7 DEF ReachedFrom, CreateInsert
  <2>2. NamedAs(job'[p].ref, job'[p].title)
    BY <1>0, <2>1 DEF ProcNamed, RecordPCs
  <2>3. /\ Added(commits, commits', Inserted(p))
        /\ Inserted(p).hash = job[p].ref
    BY <1>0, <2>1, InsertRow DEF NewRow, Inserted
  <2>4. found'[p] = Len(commits) + 1
    BY <1>0, <2>1 DEF LocalTypes
  <2>5. Traces(found[p], job[p].ref)'
    BY <2>1, <2>3, <2>4 DEF Added, Traces
  <2>. QED
    BY <1>1, <1>7, <2>2, <2>5 DEF ProcNamed
<1>8. CASE pc'[p] = "syncTitle"
  <2>1. CASE SyncTitles(p)
    <3>1. /\ work' = [work EXCEPT ![p] = TitleMatches(parsed[p], snap[p])]
          /\ UNCHANGED <<commits, snap>>
      BY <2>1 DEF SyncTitles, ledger
    <3>2. work'[p] = TitleMatches(parsed[p], snap[p])
      BY <1>0, <3>1 DEF LocalTypes
    <3>3. \A m \in work'[p] : commits'[m[2]].title = TitleOf[m[1]]
      BY <1>0, <3>1, <3>2 DEF TitleMatches, ProcNamed
    <3>. QED
      BY <1>1, <1>8, <3>3 DEF ProcNamed, GitPCs, RecordPCs
  <2>2. CASE SyncTitle(p)
    <3>1. pc[p] = "syncTitle" /\ work'[p] \subseteq work[p]
      <4>1. PICK m \in work[p] : work' = [work EXCEPT ![p] = @ \ {m}]
        BY <2>2 DEF SyncTitle
      <4>. QED
        BY <1>0, <2>2, <4>1 DEF SyncTitle, LocalTypes
    <3>2. work[p] \subseteq repo \X (DOMAIN commits)
      BY <1>0, <3>1 DEF LedgerInv, ProcFits, Fits
    <3>3. \A m \in work'[p] : commits'[m[2]].title = TitleOf[m[1]]
      BY <1>0, <3>1, <3>2 DEF ProcNamed, Steady
    <3>. QED
      BY <1>1, <1>8, <3>3 DEF ProcNamed, GitPCs, RecordPCs
  <2>. QED
    BY <1>0, <1>8, <2>1, <2>2 DEF ReachedFrom
<1>9. CASE pc'[p] \notin GitPCs \cup RecordPCs \cup {"syncTitle"}
  BY <1>1, <1>9 DEF ProcNamed, GitPCs, RecordPCs
<1>. QED
  <2>1. LookupFails(p) => pc'[p] \in {"gitInsert", "createFind", "createInsert"}
    BY <1>0 DEF LookupFails, Lookup, Goto, LocalTypes
  <2>2. pc'[p] # "recordLookup"
    BY <1>0 DEF ReachedFrom
  <2>. QED
    BY <1>2, <1>3, <1>4, <1>5, <1>6, <1>7, <1>8, <1>9, <1>10, <2>1, <2>2 DEF GitPCs, RecordPCs

(* Whoever is told that a commit is recorded has its row in front of them. *)
LEMMA StepAcked ==
    ASSUME DistinctNames, NoHashPatch, RecordedInv, NEW p \in Procs, Step(p)
    PROVE  \A g \in acked' : g \in acked \/ \E id \in DOMAIN commits' : Traces(id, g)'
<1>0. /\ LedgerInv /\ LedgerInv' /\ NamedRows(commits) /\ ProcNamed(p) /\ repo \subseteq GitCommits
  BY TypeStep DEF RecordedInv, LedgerInv, TableTypes
<1>1. CASE acked' = acked
  BY <1>1
<1>2. CASE GitFiles(p)
  <2>1. /\ pc[p] = "gitFiles" /\ commits' = commits
        /\ acked' = acked \/ acked' = acked \cup {job[p].ref}
    BY <1>2 DEF GitFiles, Stored, ledger
  <2>2. found[p] \in DOMAIN commits /\ Traces(found[p], job[p].ref)
    BY <1>0, <2>1 DEF LedgerInv, ProcFits, Fits, RowPCs, ProcNamed
  <2>. QED
    BY <2>1, <2>2 DEF Traces
<1>3. CASE GitFill(p)
  <2>1. /\ found[p] \in DOMAIN commits /\ HashedRow(commits, commits', found[p], job[p].ref)
        /\ acked' = acked \cup {job[p].ref}
    BY <1>0, <1>3, GitFillRow DEF GitFill, Stored
  <2>. QED
    BY <2>1 DEF HashedRow, OnlyRow, Traces
<1>4. CASE GitInsert(p)
  <2>1. /\ Added(commits, commits', Inserted(p))
        /\ Inserted(p).hash = job[p].ref
        /\ acked' = acked \cup {job[p].ref}
    BY <1>0, <1>4, InsertRow DEF NewRow, Inserted, GitInsert, Stored
  <2>2. PICK i \in DOMAIN commits' : commits'[i].hash = job[p].ref
    BY <2>1 DEF Added
  <2>. QED
    BY <2>1, <2>2 DEF Traces
<1>5. CASE CreateMark(p)
  <2>1. /\ pc[p] = "createMark" /\ commits' = commits
        /\ acked' = acked \cup ({job[p].ref} \cap GitCommits)
    BY <1>5 DEF CreateMark
  <2>2. found[p] \in DOMAIN commits /\ (job[p].ref \in GitCommits => Traces(found[p], job[p].ref))
    BY <1>0, <2>1 DEF LedgerInv, ProcFits, Fits, RowPCs, ProcNamed
  <2>. QED
    BY <2>1, <2>2 DEF Traces
<1>6. CASE Update(p)
  BY <1>6 DEF Update
<1>7. CASE SyncFill(p)
  <2>1. PICK g \in work[p] :
           LET i == AnyOf(Existing(snap[p], g))
           IN  /\ i \in DOMAIN commits
               /\ \/ UNCHANGED <<commits, acked>>
                  \/ HashedRow(commits, commits', i, g) /\ acked' = acked \cup {g}
    BY <1>0, <1>7, SyncFillRow
  <2>. DEFINE i == AnyOf(Existing(snap[p], g))
  <2>2. /\ i \in DOMAIN commits
        /\ acked' = acked \/ (HashedRow(commits, commits', i, g) /\ acked' = acked \cup {g})
    BY <2>1
  <2>. HIDE DEF i
  <2>. QED
    BY <2>2 DEF HashedRow, OnlyRow, Traces
<1>. QED
  BY <1>1, <1>2, <1>3, <1>4, <1>5, <1>6, <1>7, StepAcks

LEMMA BeginNamed ==
    ASSUME DistinctNames, RecordedInv, NEW p \in Procs, Begin(p), Steady(commits, commits')
    PROVE  ProcNamed(p)'
<1>0. /\ LedgerInv /\ LocalTypes /\ ProcNamed(p) /\ repo \subseteq GitCommits
      /\ DOMAIN snap[p] \subseteq DOMAIN commits
  BY DEF RecordedInv, LedgerInv, TableTypes, ProcFits
<1>1. snap'[p] = snap[p]
  BY BeginSnap
<1>2. NamedRows(snap'[p]) /\ \A i \in DOMAIN snap'[p] : snap'[p][i].title = commits'[i].title
  BY <1>0, <1>1 DEF ProcNamed, Steady
<1>3. ASSUME NEW op, NEW g \in GitCommits, NEW ref \in {g, ShortOf[g]}, NEW t, NEW files, NEW label,
             Call(p, op, Job(op, g, ref, t, files), 0, label)
      PROVE  NamedAs(job'[p].ref, job'[p].title)
  <2>1. job'[p].ref = ref /\ job'[p].title = TitleOf[g]
    BY <1>0, <1>3 DEF Call, LocalTypes, Job
  <2>. QED
    BY <2>1, NameOfHash
<1>4. ASSUME pc'[p] \in GitPCs \cup RecordPCs PROVE NamedAs(job'[p].ref, job'[p].title)
  <2>1. CASE \E g \in GitCommits : StartHook(p, g)
    BY <1>3, <2>1 DEF StartHook
  <2>2. CASE \E g \in repo : \E ref \in {g, ShortOf[g]}, t \in Tasks \cup {NoTask},
                                files \in BOOLEAN : StartRecord(p, g, ref, t, files)
    BY <1>0, <1>3, <2>2 DEF StartRecord
  <2>3. CASE \E g \in repo : \E ref \in {g, ShortOf[g]}, t \in Tasks : StartCreate(p, g, ref, t)
    BY <1>0, <1>3, <2>3 DEF StartCreate
  <2>4. ASSUME NEW id, NEW c, StartUpdate(p, id, c) PROVE FALSE
    BY <1>0, <1>4, <2>4 DEF StartUpdate, Call, Goto, LocalTypes, GitPCs, RecordPCs
  <2>5. ASSUME NEW op \in {"sync", "emerge"}, Daemon(p, op) PROVE FALSE
    BY <1>0, <1>4, <2>5 DEF Daemon, Goto, LocalTypes, GitPCs, RecordPCs
  <2>6. ASSUME NEW t, NEW first, NEW second, RecordBatch(p, t, first, second) PROVE FALSE
    BY <1>4, <2>6 DEF RecordBatch, GitPCs, RecordPCs
  <2>. QED
    BY <2>1, <2>2, <2>3, <2>4, <2>5, <2>6 DEF Begin
<1>5. pc'[p] \notin {"gitFiles", "gitFill", "createMark", "syncTitle"}
  BY <1>0, BeginLocal
<1>. QED
  BY <1>2, <1>4, <1>5 DEF ProcNamed

LEMMA RecordedStep ==
    ASSUME DistinctNames, NoHashPatch, RecordedInv, [Next]_vars
    PROVE  RecordedInv'
<1>1. /\ LedgerInv /\ LedgerInv' /\ acked \subseteq GitCommits /\ NamedRows(commits)
  BY TypeOthers, TypeBegin, TypeStep, TypeAbort, StutterInv
     DEF Next, RecordedInv, LedgerInv, TableTypes
<1>2. ASSUME Steady(commits, commits'), acked' \subseteq acked PROVE RecordedStays'
  BY <1>1, <1>2 DEF RecordedInv, RecordedStays, Steady, Traces
<1>3. ASSUME NEW p \in Procs, OthersKept(p), Steady(commits, commits'), ProcNamed(p)'
      PROVE  \A q \in Procs : ProcNamed(q)'
  <2>1. ASSUME NEW q \in Procs, q # p PROVE ProcNamed(q)'
    BY <1>1, <1>3, <2>1, NamedFrame DEF RecordedInv, OthersKept
  <2>. QED
    BY <1>3, <2>1
<1>4. CASE Others \/ UNCHANGED vars
  <2>1. UNCHANGED <<commits, acked, pc, job, found, work, snap>>
    BY <1>4, OthersTables DEF vars, locals
  <2>2. Steady(commits, commits') /\ NamedRows(commits')
    BY <1>1, <2>1, SteadySame
  <2>3. \A q \in Procs : ProcNamed(q)'
    BY <1>1, <2>1, <2>2, NamedFrame DEF RecordedInv
  <2>. QED
    BY <1>1, <1>2, <2>1, <2>2, <2>3 DEF RecordedInv
<1>5. ASSUME NEW p \in Procs, Begin(p) PROVE RecordedInv'
  <2>1. Steady(commits, commits') /\ NamedRows(commits') /\ acked' = acked /\ OthersKept(p)
    BY <1>1, <1>5, BeginSteady, BeginTables, BeginLocal
  <2>2. ProcNamed(p)'
    BY <1>5, <2>1, BeginNamed
  <2>. QED
    BY <1>1, <1>2, <1>3, <2>1, <2>2 DEF RecordedInv
<1>6. ASSUME NEW p \in Procs, Abort(p) PROVE RecordedInv'
  <2>1. UNCHANGED <<commits, acked>> /\ Reset(p)
    BY <1>6, AbortTables
  <2>2. Steady(commits, commits') /\ NamedRows(commits') /\ OthersKept(p)
    BY <1>1, <2>1, SteadySame, ResetLocals DEF LedgerInv
  <2>3. pc'[p] = "idle" /\ snap'[p] = <<>>
    BY <1>1, <2>1 DEF Reset, Goto, LedgerInv, LocalTypes
  <2>4. ProcNamed(p)'
    BY <2>3 DEF ProcNamed, NamedRows, GitPCs, RecordPCs
  <2>. QED
    BY <1>1, <1>2, <1>3, <2>1, <2>2, <2>4 DEF RecordedInv
<1>7. ASSUME NEW p \in Procs, Step(p) PROVE RecordedInv'
  <2>1. Steady(commits, commits') /\ NamedRows(commits') /\ OthersKept(p)
    BY <1>1, <1>7, StepSteady, StepLocal
  <2>2. ProcNamed(p)'
    BY <1>7, <2>1, StepNamed
  <2>3. \A g \in acked' : g \in acked \/ \E id \in DOMAIN commits' : Traces(id, g)'
    BY <1>7, StepAcked
  <2>4. \A g \in acked : \E id \in DOMAIN commits' : Traces(id, g)'
    BY <1>1, <2>1 DEF RecordedInv, RecordedStays, Steady, Traces
  <2>5. RecordedStays'
    BY <2>3, <2>4 DEF RecordedStays
  <2>. QED
    BY <1>1, <1>3, <2>1, <2>2, <2>5 DEF RecordedInv
<1>. QED
  BY <1>4, <1>5, <1>6, <1>7 DEF Next

LEMMA RecordedInit == Init => RecordedInv
<1>. SUFFICES ASSUME Init PROVE RecordedInv
  OBVIOUS
<1>1. NamedRows(commits)
  BY LedgerAssumption DEF Init, NamedRows, NamedAs, Hashes, Shorts
<1>2. \A p \in Procs : ProcNamed(p)
  BY DEF Init, ProcNamed, GitPCs, RecordPCs, NamedRows
<1>3. RecordedStays
  BY DEF Init, RecordedStays
<1>. QED
  BY <1>1, <1>2, <1>3, InitInv DEF RecordedInv

(* Where subject lines and prefixes tell commits apart and update_commit   *)
(* changes no hash: a commit that somebody was told is recorded keeps a    *)
(* row that leads to it, whatever hooks, agents and scans write over each  *)
(* other's rows from what they read before (StoreGitCommit warns of "hook  *)
(* reported success but no row was created").                              *)
THEOREM RecordedForever ==
    ASSUME DistinctNames, NoHashPatch
    PROVE  Spec => []RecordedStays
<1>1. Init => RecordedInv
  BY RecordedInit
<1>2. RecordedInv /\ [Next]_vars => RecordedInv'
  BY RecordedStep
<1>3. RecordedInv => RecordedStays
  BY DEF RecordedInv
<1>. QED
  BY <1>1, <1>2, <1>3, PTL DEF Spec

-----------------------------------------------------------------------------
(* NoDuplicate, while operations do not overlap and only record, which     *)
(* looks a commit up first, leads to CreateCommit.                         *)

(* No row of old has the title of a commit.                                *)
LegacyApart == \A i \in DOMAIN Legacy, g \in GitCommits : Legacy[i].title # TitleOf[g]

(* Nothing in the table names a commit that ref names.                     *)
Missing(rows, ref) ==
    \A g \in GitCommits : ref \in {g, ShortOf[g]} =>
        \A i \in DOMAIN rows : rows[i].hash \notin {g, ShortOf[g]}

(* A lookup of the commit that ref names failed.                           *)
Spoiled(ref, lost) ==
    \E g \in GitCommits : ref \in {g, ShortOf[g]} /\ {g, ShortOf[g]} \cap lost # {}

(* A commit's title is on rows that name the commit, and on one row unless *)
(* a lookup of the commit failed.                                          *)
OneRow(rows, lost) ==
    /\ \A g \in GitCommits : {g, ShortOf[g]} \cap lost = {} => \A i, j \in DOMAIN rows :
          rows[i].title = TitleOf[g] /\ rows[j].title = TitleOf[g] => i = j
    /\ \A g \in GitCommits : \A i \in DOMAIN rows :
          rows[i].title = TitleOf[g] => rows[i].hash \in {g, ShortOf[g]}

OneRowInv ==
    /\ RecordedInv /\ OneRow(commits, unfound)
    /\ \A p \in Procs :
         /\ pc[p] \in {"gitInsert", "createFind", "createInsert"} =>
               Missing(commits, job[p].ref) \/ Spoiled(job[p].ref, unfound)
         /\ pc[p] = "createTask" => Spoiled(job[p].ref, unfound)

LEMMA OneRowNoDuplicate == OneRowInv => NoDuplicate
  BY DEF OneRowInv, RecordedInv, NoDuplicate, OneRow, NamedRows, NamedAs, Traces

LEMMA OneRowSteady ==
    ASSUME NEW rows, NEW new, NEW lost, OneRow(rows, lost), Steady(rows, new),
           DOMAIN new = DOMAIN rows
    PROVE  OneRow(new, lost)
  BY DEF OneRow, Steady

LEMMA OneRowMore ==
    ASSUME NEW rows, NEW lost, NEW more, OneRow(rows, lost), lost \subseteq more
    PROVE  OneRow(rows, more)
  BY DEF OneRow

LEMMA SpoiledMore ==
    ASSUME NEW ref, NEW lost, NEW more, Spoiled(ref, lost), lost \subseteq more
    PROVE  Spoiled(ref, more)
  BY DEF Spoiled

LEMMA SpoiledBy ==
    ASSUME NEW ref \in Hashes, NEW lost, ref \in lost
    PROVE  Spoiled(ref, lost)
  BY DEF Spoiled, Hashes, Shorts

(* A reference names one commit.                                           *)
LEMMA NamesOne ==
    ASSUME DistinctNames, NEW g \in GitCommits, NEW h \in GitCommits, NEW ref,
           ref \in {g, ShortOf[g]}, ref \in {h, ShortOf[h]}
    PROVE  g = h
  BY RefHash DEF DistinctNames

LEMMA OneRowAdd ==
    ASSUME DistinctNames, NEW rows, NEW new, NEW row, NEW lost, OneRow(rows, lost),
           NamedRows(rows), Added(rows, new, row), row.hash \in Hashes,
           NamedAs(row.hash, row.title),
           Missing(rows, row.hash) \/ Spoiled(row.hash, lost)
    PROVE  OneRow(new, lost)
<1>1. PICK h \in GitCommits : row.hash \in {h, ShortOf[h]}
  BY DEF Hashes, Shorts
<1>2. row.title = TitleOf[h]
  BY <1>1 DEF NamedAs
<1>3. ASSUME {h, ShortOf[h]} \cap lost = {}
      PROVE  \A i \in DOMAIN rows : rows[i].title # TitleOf[h]
  <2>1. Missing(rows, row.hash)
    BY <1>1, <1>3, NamesOne DEF Spoiled
  <2>. QED
    BY <1>1, <2>1 DEF Missing, OneRow
<1>4. ASSUME NEW g \in GitCommits, row.title = TitleOf[g] PROVE g = h
  BY <1>2, <1>4 DEF DistinctNames
<1>5. ASSUME NEW g \in GitCommits, NEW i \in DOMAIN new, NEW j \in DOMAIN new,
             new[i].title = TitleOf[g], new[j].title = TitleOf[g],
             {g, ShortOf[g]} \cap lost = {}
      PROVE  i = j
  <2>1. CASE g = h
    BY <1>2, <1>3, <1>5, <2>1 DEF Added
  <2>2. CASE g # h
    BY <1>4, <1>5, <2>2 DEF Added, OneRow
  <2>. QED
    BY <2>1, <2>2
<1>6. ASSUME NEW g \in GitCommits, NEW i \in DOMAIN new, new[i].title = TitleOf[g]
      PROVE  new[i].hash \in {g, ShortOf[g]}
  BY <1>1, <1>4, <1>6 DEF Added, OneRow
<1>. QED
  BY <1>5, <1>6 DEF OneRow

(* The look-ups miss nothing that names the commit.                        *)
LEMMA ExistingMissing ==
    ASSUME DistinctNames, NEW rows \in Seq(Row), NEW g \in GitCommits, Existing(rows, g) = {}
    PROVE  Missing(rows, g)
<1>1. ASSUME NEW h \in GitCommits, g \in {h, ShortOf[h]} PROVE h = g
  BY <1>1, RefHash
<1>2. ASSUME NEW i \in DOMAIN rows PROVE rows[i].hash \notin {g, ShortOf[g]}
  <2>1. NoHash # g /\ NoHash # ShortOf[g]
    BY RefHash, LedgerAssumption
  <2>. QED
    BY <2>1 DEF Existing, Matches
<1>. QED
  BY <1>1, <1>2 DEF Missing

LEMMA EitherWayMissing ==
    ASSUME DistinctNames, NEW rows \in Seq(Row), NEW ref \in Hashes,
           ExistingEitherWay(rows, ref) = {}
    PROVE  Missing(rows, ref)
<1>. SUFFICES ASSUME NEW g \in GitCommits, ref \in {g, ShortOf[g]}, NEW i \in DOMAIN rows,
                     rows[i].hash \in {g, ShortOf[g]}
              PROVE  FALSE
  BY DEF Missing
<1>1. NoHash # g /\ NoHash # ShortOf[g] /\ ref # NoHash
  BY RefHash, LedgerAssumption
<1>2. Matches(rows[i].hash, ref) \/ Matches(ref, rows[i].hash)
  BY <1>1 DEF Matches
<1>3. i \in ExistingEitherWay(rows, ref)
  BY <1>1, <1>2 DEF ExistingEitherWay
<1>. QED
  BY <1>3

LEMMA CanonicalMissing ==
    ASSUME DistinctNames, repo \subseteq GitCommits, NEW rows, NEW ref, Missing(rows, ref),
           NEW full \in Canonical(ref)
    PROVE  Missing(rows, full)
<1>1. CASE full = ref
  BY <1>1
<1>2. CASE full \in repo /\ ref \in {full, ShortOf[full]}
  <2>1. ASSUME NEW h \in GitCommits, full \in {h, ShortOf[h]} PROVE h = full
    BY <1>2, <2>1, RefHash
  <2>. QED
    BY <1>2, <2>1 DEF Missing
<1>. QED
  BY <1>1, <1>2 DEF Canonical

LEMMA CanonicalSpoiled ==
    ASSUME DistinctNames, repo \subseteq GitCommits, NEW ref, NEW lost, Spoiled(ref, lost),
           NEW full \in Canonical(ref)
    PROVE  Spoiled(full, lost)
<1>1. CASE full = ref
  BY <1>1
<1>2. CASE full \in repo /\ ref \in {full, ShortOf[full]}
  BY <1>2, NamesOne DEF Spoiled
<1>. QED
  BY <1>1, <1>2 DEF Canonical

LEMMA MissingExisting ==
    ASSUME NEW rows, NEW ref \in Hashes, Missing(rows, ref)
    PROVE  Existing(rows, ref) = {}
<1>1. PICK g \in GitCommits : ref \in {g, ShortOf[g]}
  BY DEF Hashes, Shorts
<1>2. ASSUME NEW i \in DOMAIN rows, Matches(rows[i].hash, ref) PROVE FALSE
  BY <1>1, <1>2 DEF Matches, Missing
<1>. QED
  BY <1>2 DEF Existing

LEMMA OneRowBatchItem ==
    ASSUME DistinctNames, TableTypes, NEW rows \in Seq(Row), NamedRows(rows), NEW lost,
           OneRow(rows, lost), NEW t \in Tasks, NEW g \in GitCommits, NEW item \in Items(g),
           NEW how \in Outcomes, Unfound(item, how) \subseteq lost,
           NEW new, new = BatchItem(t, rows, item, how)
    PROVE  OneRow(new, lost)
<1>1. item \in JobType /\ item.title = TitleOf[g] /\ item.ref \in {g, ShortOf[g]}
  BY ItemsType
<1>2. CASE /\ how = "missed" \/ ExistingEitherWay(rows, item.ref) = {}
           /\ Added(rows, new, NewRow(item, item.ref, t, today))
  <2>1. NamedAs(item.ref, item.title) /\ item.ref \in Hashes
    BY <1>1, NameOfHash, RefHash
  <2>2. Missing(rows, item.ref) \/ Spoiled(item.ref, lost)
    <3>1. CASE how = "missed"
      BY <2>1, <3>1, SpoiledBy DEF Unfound
    <3>2. CASE ExistingEitherWay(rows, item.ref) = {}
      BY <2>1, <3>2, EitherWayMissing
    <3>. QED
      BY <1>2, <3>1, <3>2
  <2>. DEFINE row == NewRow(item, item.ref, t, today)
  <2>3. row.hash = item.ref /\ row.title = item.title
    BY DEF NewRow
  <2>4. Added(rows, new, row)
    BY <1>2
  <2>. HIDE DEF row
  <2>. QED
    BY <2>1, <2>2, <2>3, <2>4, OneRowAdd
<1>3. CASE \E i \in ExistingEitherWay(rows, item.ref) : BoundRow(rows, new, i, t)
  <2>1. DOMAIN new = DOMAIN rows
    BY <1>3 DEF BoundRow, OnlyRow
  <2>. QED
    BY <2>1, SteadyBatchItem, OneRowSteady
<1>4. CASE new = rows
  BY <1>4
<1>. QED
  BY <1>1, <1>2, <1>3, <1>4, BatchItemType

LEMMA OneRowBegin ==
    ASSUME DistinctNames, OneRowInv, NEW p \in Procs, Begin(p)
    PROVE  OneRow(commits', unfound')
<1>1. /\ NamedRows(commits) /\ OneRow(commits, unfound) /\ commits \in Seq(Row)
      /\ repo \subseteq GitCommits /\ TableTypes
  BY DEF OneRowInv, RecordedInv, LedgerInv, TableTypes
<1>2. ASSUME NEW t \in Tasks, NEW g \in repo, NEW h \in repo,
             NEW first \in Items(g), NEW second \in Items(h), RecordBatch(p, t, first, second)
      PROVE  OneRow(commits', unfound')
  <2>1. PICK one \in Outcomes, two \in Outcomes :
           /\ commits' = BatchItem(t, BatchItem(t, commits, first, one), second, two)
           /\ unfound' = unfound \cup Unfound(first, one) \cup Unfound(second, two)
    BY <1>2 DEF RecordBatch
  <2>. DEFINE mid == BatchItem(t, commits, first, one)
  <2>2. OneRow(commits, unfound')
    BY <1>1, <2>1, OneRowMore
  <2>3. NamedRows(mid) /\ mid \in Seq(Row)
    BY <1>1, SteadyBatchItem
  <2>4. Unfound(first, one) \subseteq unfound' /\ Unfound(second, two) \subseteq unfound'
    BY <2>1
  <2>5. OneRow(mid, unfound')
    BY <1>1, <2>2, <2>4, OneRowBatchItem
  <2>6. commits' = BatchItem(t, mid, second, two)
    BY <2>1
  <2>. HIDE DEF mid
  <2>. QED
    BY <1>1, <2>3, <2>4, <2>5, <2>6, OneRowBatchItem
<1>. QED
  BY <1>1, <1>2, BeginTables

LEMMA StepDomain ==
    ASSUME LedgerInv, NEW p \in Procs, Step(p), ~GitInsert(p), ~CreateInsert(p)
    PROVE  DOMAIN commits' = DOMAIN commits
<1>1. ASSUME NEW i, NEW h, HashedRow(commits, commits', i, h)
      PROVE  DOMAIN commits' = DOMAIN commits
  BY <1>1 DEF HashedRow, OnlyRow
<1>2. CASE GitFill(p)
  BY <1>1, <1>2, GitFillRow
<1>3. CASE BindWrite(p)
  BY <1>3, BindWriteRow DEF OnlyRow
<1>4. CASE Update(p)
  BY <1>4, UpdateRow DEF OnlyRow
<1>5. CASE SyncFill(p)
  <2>1. PICK g \in work[p] :
           commits' = commits \/ HashedRow(commits, commits', AnyOf(Existing(snap[p], g)), g)
    BY <1>5, SyncFillRow
  <2>. QED
    BY <1>1, <2>1
<1>6. CASE SyncTitle(p)
  <2>1. PICK m \in work[p] : commits' = commits \/ HashedRow(commits, commits', m[2], m[1])
    BY <1>6, SyncTitleRow
  <2>. QED
    BY <1>1, <2>1
<1>. QED
  BY <1>2, <1>3, <1>4, <1>5, <1>6, StepTable

(* Where the next insertion is prepared, nothing names the commit, or a    *)
(* lookup of it failed.                                                    *)
LEMMA StepMissing ==
    ASSUME DistinctNames, OneRowInv, NEW p \in Procs, Step(p)
    PROVE  /\ pc'[p] \in {"gitInsert", "createFind", "createInsert"}
                 => Missing(commits', job'[p].ref) \/ Spoiled(job'[p].ref, unfound')
           /\ pc'[p] = "createTask" => Spoiled(job'[p].ref, unfound')
<1>0. /\ LedgerInv /\ LocalTypes /\ repo \subseteq GitCommits /\ ReachedFrom(p)
      /\ commits \in Seq(Row) /\ unfound \subseteq unfound'
  BY StepLabels, StepBounds DEF OneRowInv, RecordedInv, LedgerInv, TableTypes
<1>1. ASSUME pc'[p] = "gitInsert", GitFind(p) PROVE Missing(commits', job'[p].ref)
  <2>1. /\ Existing(commits, job[p].ref) = {} /\ UNCHANGED <<commits, job>>
        /\ job[p].ref \in GitCommits
    BY <1>0, <1>1 DEF GitFind, Goto, ledger, LocalTypes, LedgerInv, ProcFits, Fits, GitPCs
  <2>. QED
    BY <1>0, <2>1, ExistingMissing
<1>2. ASSUME pc'[p] = "createFind", RecordLookup(p) PROVE Missing(commits', job'[p].ref)
  <2>1. job[p] \in JobType
    BY <1>0, <1>2 DEF RecordLookup, LedgerInv, ProcFits, Fits, RecordPCs
  <2>2. ExistingEitherWay(commits, job[p].ref) = {} /\ UNCHANGED <<commits, job>>
    BY <1>0, <1>2 DEF RecordLookup, Goto, Reset, ledger, locals, LocalTypes
  <2>. QED
    BY <1>0, <2>1, <2>2, EitherWayMissing DEF JobType
<1>3. ASSUME CreateFind(p), pc'[p] \in {"createInsert", "createTask"}
      PROVE  \/ Spoiled(job'[p].ref, unfound')
             \/ pc'[p] = "createInsert" /\ Missing(commits', job'[p].ref)
  <2>1. ~Reset(p)
    BY <1>0, <1>3 DEF Reset, Goto, LocalTypes
  <2>2. PICK full \in Canonical(job[p].ref) :
           LET ids == Existing(commits, full)
           IN  /\ job' = [job EXCEPT ![p].ref = full]
               /\ Goto(p, IF ids = {} THEN "createInsert" ELSE "createTask")
    BY <1>3, <2>1 DEF CreateFind
  <2>3. /\ job[p] \in JobType /\ commits' = commits /\ pc[p] = "createFind"
        /\ Missing(commits, job[p].ref) \/ Spoiled(job[p].ref, unfound)
    BY <1>0, <1>3 DEF CreateFind, LedgerInv, ProcFits, Fits, RecordPCs, OneRowInv, ledger
  <2>4. job'[p].ref = full /\ full \in Hashes
    BY <1>0, <2>2, <2>3, CanonicalMade DEF LocalTypes, JobType, Hashes
  <2>5. CASE Missing(commits, job[p].ref)
    <3>1. Missing(commits, full) /\ Existing(commits, full) = {}
      BY <1>0, <2>2, <2>4, <2>5, CanonicalMissing, MissingExisting
    <3>2. pc'[p] = "createInsert"
      BY <1>0, <2>2, <3>1 DEF LocalTypes, Goto
    <3>. QED
      BY <2>3, <2>4, <3>1, <3>2
  <2>6. CASE Spoiled(job[p].ref, unfound)
    BY <1>0, <2>2, <2>4, <2>6, CanonicalSpoiled, SpoiledMore
  <2>. QED
    BY <2>3, <2>5, <2>6
<1>4. ASSUME CreateTask(p) PROVE Spoiled(job'[p].ref, unfound')
  BY <1>0, <1>4, SpoiledMore DEF CreateTask, OneRowInv, locals
<1>5. ASSUME LookupFails(p) PROVE Spoiled(job'[p].ref, unfound')
  <2>1. job[p] \in JobType
    BY <1>0, <1>5 DEF LookupFails, LedgerInv, ProcFits, Fits, GitPCs, RecordPCs
  <2>2. CASE job' = job /\ Fails({job[p].ref}, {})
    BY <2>1, <2>2, SpoiledBy DEF Fails, JobType
  <2>3. CASE \E full \in Canonical(job[p].ref) :
                Fails({full}, {}) /\ job' = [job EXCEPT ![p].ref = full]
    <3>1. PICK full \in Canonical(job[p].ref) :
                Fails({full}, {}) /\ job' = [job EXCEPT ![p].ref = full]
      BY <2>3
    <3>2. job'[p].ref = full /\ full \in Hashes
      BY <1>0, <2>1, <3>1, CanonicalMade DEF LocalTypes, JobType, Hashes
    <3>. QED
      BY <3>1, <3>2, SpoiledBy DEF Fails
  <2>. QED
    BY <1>5, <2>2, <2>3 DEF LookupFails, Lookup
<1>. QED
  BY <1>0, <1>1, <1>2, <1>3, <1>4, <1>5 DEF ReachedFrom

(* CreateCommit is reached through record only.                            *)
LEMMA BeginNoCreate ==
    ASSUME LedgerInv, NEW p \in Procs, Begin(p), "create" \notin Ops
    PROVE  pc'[p] \notin {"gitInsert", "createFind", "createInsert", "createTask"}
<1>0. pc \in [Procs -> PCs]
  BY DEF LedgerInv, LocalTypes
<1>1. ASSUME NEW g, StartHook(p, g) PROVE pc'[p] = "gitFind"
  BY <1>0, <1>1 DEF StartHook, Call, Goto
<1>2. ASSUME NEW g, NEW ref, NEW t, NEW files, StartRecord(p, g, ref, t, files)
      PROVE  pc'[p] = "recordLookup"
  BY <1>0, <1>2 DEF StartRecord, Call, Goto
<1>3. ASSUME NEW g, NEW ref, NEW t, StartCreate(p, g, ref, t) PROVE FALSE
  BY <1>3 DEF StartCreate, Call
<1>4. ASSUME NEW id, NEW c, StartUpdate(p, id, c) PROVE pc'[p] = "update"
  BY <1>0, <1>4 DEF StartUpdate, Call, Goto
<1>5. ASSUME NEW op \in {"sync", "emerge"}, Daemon(p, op) PROVE pc'[p] = op
  BY <1>0, <1>5 DEF Daemon, Goto
<1>6. ASSUME NEW t, NEW first, NEW second, RecordBatch(p, t, first, second) PROVE pc'[p] = "idle"
  BY <1>6 DEF RecordBatch
<1>. QED
  BY <1>1, <1>2, <1>3, <1>4, <1>5, <1>6 DEF Begin

LEMMA OneRowStep ==
    ASSUME DistinctNames, NoHashPatch, "create" \notin Ops, \A p, q \in Procs : p = q,
           OneRowInv, [Next]_vars
    PROVE  OneRowInv'
<1>1. /\ RecordedInv /\ RecordedInv' /\ LedgerInv /\ NamedRows(commits)
      /\ LocalTypes /\ OneRow(commits, unfound) /\ unfound \subseteq unfound'
  BY RecordedStep, FaultsNoted DEF OneRowInv, RecordedInv, LedgerInv
<1>2. CASE Others \/ UNCHANGED vars
  <2>1. UNCHANGED <<commits, pc, job, unfound>>
    BY <1>2, OthersTables DEF vars, locals
  <2>. QED
    BY <1>1, <2>1 DEF OneRowInv
<1>3. ASSUME NEW p \in Procs, Begin(p) PROVE OneRowInv'
  <2>1. OneRow(commits', unfound')
    BY <1>3, OneRowBegin
  <2>2. pc'[p] \notin {"gitInsert", "createFind", "createInsert", "createTask"}
    BY <1>1, <1>3, BeginNoCreate
  <2>. QED
    BY <1>1, <2>1, <2>2 DEF OneRowInv
<1>4. ASSUME NEW p \in Procs, Abort(p) PROVE OneRowInv'
  <2>1. commits' = commits /\ pc'[p] = "idle"
    BY <1>1, <1>4, AbortTables, ResetLocals
  <2>. QED
    BY <1>1, <2>1, OneRowMore DEF OneRowInv
<1>5. ASSUME NEW p \in Procs, Step(p) PROVE OneRowInv'
  <2>1. Steady(commits, commits')
    BY <1>1, <1>5, StepSteady
  <2>2. CASE ~GitInsert(p) /\ ~CreateInsert(p)
    <3>1. OneRow(commits', unfound')
      BY <1>1, <1>5, <2>1, <2>2, StepDomain, OneRowSteady, OneRowMore
    <3>. QED
      BY <1>1, <1>5, <3>1, StepMissing DEF OneRowInv
  <2>3. CASE GitInsert(p) \/ CreateInsert(p)
    <3>. DEFINE row == Inserted(p)
    <3>1. job[p] \in JobType /\ Added(commits, commits', row)
      BY <1>1, <2>3, InsertRow
    <3>2. /\ NamedAs(job[p].ref, job[p].title)
          /\ Missing(commits, job[p].ref) \/ Spoiled(job[p].ref, unfound)
      BY <2>3 DEF GitInsert, CreateInsert, GitPCs, RecordPCs, ProcNamed, OneRowInv, RecordedInv
    <3>3. row.hash = job[p].ref /\ row.title = job[p].title /\ job[p].ref \in Hashes
      BY <3>1 DEF NewRow, Inserted, JobType
    <3>. HIDE DEF row
    <3>4. OneRow(commits', unfound')
      BY <1>1, <3>1, <3>2, <3>3, OneRowAdd, OneRowMore
    <3>. QED
      BY <1>1, <1>5, <3>4, StepMissing DEF OneRowInv
  <2>. QED
    BY <2>2, <2>3
<1>. QED
  BY <1>2, <1>3, <1>4, <1>5 DEF Next

(* Where subject lines and prefixes tell commits apart, update_commit      *)
(* changes no hash, and rows of old are about none of the commits: while   *)
(* operations do not overlap, a commit no lookup of which failed has one   *)
(* row, whatever else fails and wherever operations stop half way, whether *)
(* it is given in full or by its prefix, by hook, record, batch or scan    *)
(* (CreateCommit, "must bind that row instead of inserting a duplicate").  *)
THEOREM OneRowPerCommit ==
    ASSUME DistinctNames, NoHashPatch, LegacyApart, "create" \notin Ops,
           \A p, q \in Procs : p = q
    PROVE  Spec => []NoDuplicate
<1>1. Init => OneRowInv
  <2>. SUFFICES ASSUME Init PROVE OneRowInv
    OBVIOUS
  <2>1. RecordedInv
    BY RecordedInit
  <2>2. OneRow(commits, unfound)
    BY DEF Init, OneRow, LegacyApart
  <2>. QED
    BY <2>1, <2>2 DEF Init, OneRowInv
<1>2. OneRowInv /\ [Next]_vars => OneRowInv'
  BY OneRowStep
<1>. QED
  BY <1>1, <1>2, OneRowNoDuplicate, PTL DEF Spec

=============================================================================
