---------------------------- MODULE CommitLedger ----------------------------
(***************************************************************************)
(* The commit ledger of a project: the tables commits, links and events of *)
(* its SQLite database, and the operations that several processes run on   *)
(* them without a transaction around them.                                 *)
(*                                                                         *)
(*  - the git post-commit hook (hook/post-commit.go) records a commit and  *)
(*    tries to bind it to a task;                                          *)
(*  - agents record, rebind and acknowledge commits through the MCP server *)
(*    (mcp/mcp.go) and the HTTP API;                                       *)
(*  - the daemon scans git log (session/gitsync.go) and flags commits that *)
(*    belong to no task (session/emerge.go).                               *)
(*                                                                         *)
(* A step is one SQL statement, or one transaction.  A hash is abstracted  *)
(* to the commit it names, in full or shortened to a prefix.               *)
(***************************************************************************)
EXTENDS Integers, Sequences, FiniteSets

CONSTANTS
    Procs,        \* processes that use the ledger
    Daemons,      \* those that run the periodic operations (aipmc serve)
    GitCommits,   \* commits of the repository; their full hashes
    ShortOf,      \* the prefix an agent may give instead of the full hash
    Titles,
    TitleOf,      \* the subject line of each commit
    HasFiles,     \* does git report changed files for it? (not for a merge)
    AuthoredOn,   \* the day git's author date of the commit names
    Tasks,        \* ids of existing tasks
    NoTask,       \* the empty task_id
    NoHash,       \* the empty commit_hash
    None,
    Legacy,       \* rows written before a hash was required
    Patches,      \* changes update_commit is asked for
    Ops,          \* operations the instance enables
    GitAvailable, \* can the MCP server run git in the project?
    MaxCalls,     \* bound: operations of hooks and agents
    MaxFaults,    \* bound: operations that stop half way, statements that fail
    MaxDays,      \* bound: days that pass
    EmergeDays,   \* how far back commitOrphans looks (7 days in the code)
    MaxListed,    \* the rows it lists at most (200 in the code)
    MaxEmerge     \* maxEmergPerRule (5 in the code)

AllOps == {"hook", "record", "create", "batch", "update", "sync", "emerge", "link", "answer"}

Shorts == {ShortOf[g] : g \in GitCommits}
Hashes == GitCommits \cup Shorts

Row == [hash : Hashes \cup {NoHash}, title : Titles, files : BOOLEAN,
        task : Tasks \cup {NoTask}, date : Int]

ASSUME LedgerAssumption ==
    /\ ShortOf \in [GitCommits -> Shorts] /\ TitleOf \in [GitCommits -> Titles]
    /\ HasFiles \in [GitCommits -> BOOLEAN] /\ AuthoredOn \in [GitCommits -> Int]
    /\ Shorts \cap GitCommits = {} /\ NoHash \notin Hashes /\ NoTask \notin Tasks
    /\ Legacy \in Seq(Row) /\ \A i \in DOMAIN Legacy : Legacy[i].hash = NoHash
    /\ \A c \in Patches :
         /\ DOMAIN c \subseteq {"task", "hash"}
         /\ "task" \in DOMAIN c => c.task \in Tasks \cup {NoTask}
         /\ "hash" \in DOMAIN c => c.hash \in Hashes \cup {NoHash}
    /\ Daemons \subseteq Procs /\ Ops \subseteq AllOps /\ GitAvailable \in BOOLEAN
    /\ MaxCalls \in Nat /\ MaxFaults \in Nat /\ MaxDays \in Nat /\ EmergeDays \in Nat
    /\ MaxListed \in Nat \ {0} /\ MaxEmerge \in Nat \ {0}

VARIABLES
    repo,     \* the commits that were made
    commits,  \* the table; a row's id is its index, rows are never deleted
    links,    \* ids of the rows a link connects with a task
    events,   \* the commit_orphan events
    acked,    \* history: git commits some caller was told are recorded
    binds,    \* history: <<row, task>> that BackfillCommitTask reported bound
    pc,       \* where each process is
    job,      \* what it was asked to do
    found,    \* the row it works on, or 0
    seen,     \* what it read of that row, and so what it will write
    work,     \* what its loop has not reached yet
    parsed,   \* gitsync: the commits git log printed
    snap,     \* gitsync: the table as it was listed
    count,    \* emerge: events created in this run
    unfound,  \* history: references whose row a failed lookup did not find
    uncounted, \* history: rows whose event a failed count did not find
    today, calls, faults

tables == <<commits, links, events>>
ledger == <<repo, commits, links, events>>
history == <<acked, binds>>
locals == <<job, found, seen, work, parsed, snap, count>>
bounds == <<unfound, uncounted, today, calls, faults>>
vars == <<repo, commits, links, events, acked, binds, pc, job, found, seen, work,
          parsed, snap, count, unfound, uncounted, today, calls, faults>>

NothingSeen == [bind |-> FALSE, fill |-> FALSE]

Init ==
    /\ repo = {} /\ commits = Legacy /\ links = {} /\ events = <<>>
    /\ acked = {} /\ binds = {}
    /\ pc = [p \in Procs |-> "idle"] /\ job = [p \in Procs |-> None]
    /\ found = [p \in Procs |-> 0] /\ seen = [p \in Procs |-> NothingSeen]
    /\ work = [p \in Procs |-> {}] /\ parsed = [p \in Procs |-> {}]
    /\ snap = [p \in Procs |-> <<>>]
    /\ count = [p \in Procs |-> 0]
    /\ unfound = {} /\ uncounted = {} /\ today = 0 /\ calls = 0 /\ faults = 0

-----------------------------------------------------------------------------
(* Hashes and rows.                                                        *)

(* Mutant: an empty stored hash matches, as '' || '%' does in SQL. *)
MatchesEmpty(stored, given) ==
    stored = NoHash \/ stored = given \/ (given \in GitCommits /\ stored = ShortOf[given])

(* Mutant: hashes are compared as a whole. *)
MatchesExactly(stored, given) == stored # NoHash /\ stored = given

(* given LIKE stored || '%', and stored is not empty. *)
Matches(stored, given) ==
    /\ stored # NoHash
    /\ stored = given \/ (given \in GitCommits /\ stored = ShortOf[given])

(* findExistingCommitByHash *)
Existing(rows, ref) == {i \in DOMAIN rows : Matches(rows[i].hash, ref)}

(* The lookups of record_commit and record_commits match either way round. *)
ExistingEitherWay(rows, ref) ==
    {i \in DOMAIN rows : Matches(rows[i].hash, ref)
                          \/ (rows[i].hash # NoHash /\ Matches(ref, rows[i].hash))}

(* LIMIT 1 without an order: some row, the same one while the table is. *)
AnyOf(S) == CHOOSE i \in S : TRUE

(* canonicalCommitHash: the full hash; none when git knows no such commit  *)
(* or several; the reference itself when git cannot be asked.              *)
Canonical(ref) ==
    LET named == {g \in repo : ref \in {g, ShortOf[g]}}
    IN  IF ~GitAvailable THEN {ref} ELSE IF Cardinality(named) = 1 THEN named ELSE {}

NewRow(j, hash, t, date) ==
    [hash |-> hash, title |-> j.title, files |-> j.files, task |-> t, date |-> date]

(* What MarkEventProcessed("commit_orphan", id) makes of the events. *)
Processed(id) ==
    [k \in DOMAIN events |-> [events[k] EXCEPT !.processed = @ \/ events[k].row = id]]

(* A statement fails, or the database cannot be opened for it: the lookup  *)
(* of these references, the count of the events of these rows.             *)
Fails(refs, ids) ==
    /\ faults < MaxFaults /\ faults' = faults + 1
    /\ unfound' = unfound \cup refs /\ uncounted' = uncounted \cup ids
    /\ UNCHANGED <<today, calls>>

(* Nobody looks at the error of MarkEventProcessed.                        *)
Mark(id) ==
    \/ events' = Processed(id) /\ UNCHANGED bounds
    \/ UNCHANGED events /\ Fails({}, {})

-----------------------------------------------------------------------------
(* Operations start, end, and stop half way: the process is killed, or a   *)
(* statement fails and the operation returns the error.  Where the code    *)
(* ignores the error and goes on, the step below says how.                 *)

Goto(p, label) == pc' = [pc EXCEPT ![p] = label]

Reset(p) ==
    /\ Goto(p, "idle")
    /\ job' = [job EXCEPT ![p] = None] /\ found' = [found EXCEPT ![p] = 0]
    /\ seen' = [seen EXCEPT ![p] = NothingSeen] /\ work' = [work EXCEPT ![p] = {}]
    /\ parsed' = [parsed EXCEPT ![p] = {}] /\ snap' = [snap EXCEPT ![p] = <<>>]
    /\ count' = [count EXCEPT ![p] = 0]

Abort(p) ==
    /\ pc[p] # "idle"
    /\ Fails({}, {})
    /\ Reset(p)
    /\ UNCHANGED <<ledger, history>>

Call(p, op, j, id, label) ==
    /\ pc[p] = "idle" /\ op \in Ops /\ calls < MaxCalls
    /\ calls' = calls + 1
    /\ job' = [job EXCEPT ![p] = j] /\ found' = [found EXCEPT ![p] = id]
    /\ Goto(p, label)
    /\ UNCHANGED <<tables, history, seen, work, parsed, snap, count, unfound, uncounted,
                   today, faults>>

Job(op, g, ref, t, files) ==
    [op |-> op, ref |-> ref, title |-> TitleOf[g], task |-> t, files |-> files,
     date |-> IF op = "sync" THEN AuthoredOn[g] ELSE today]

NextDay ==
    /\ today < MaxDays /\ today' = today + 1
    /\ UNCHANGED <<ledger, history, pc, locals, unfound, uncounted, calls, faults>>

(* A commit is made where the hook is not installed, or fails at once. *)
GitCommit(g) ==
    /\ repo' = repo \cup {g}
    /\ UNCHANGED <<tables, history, pc, locals, bounds>>

(* ProcessPostCommitHook, for the commit git just made. *)
StartHook(p, g) ==
    /\ g \notin repo /\ repo' = repo \cup {g}
    /\ Call(p, "hook", Job("hook", g, g, NoTask, HasFiles[g]), 0, "gitFind")

(* handleRecordCommit: hash and files as the agent gives them. *)
StartRecord(p, g, ref, t, files) ==
    /\ Call(p, "record", Job("record", g, ref, t, files), 0, "recordLookup")
    /\ UNCHANGED repo

(* CreateCommit, called by the HTTP API and the command line. *)
StartCreate(p, g, ref, t) ==
    /\ Call(p, "create", Job("create", g, ref, t, FALSE), 0, "createFind")
    /\ UNCHANGED repo

(* UpdateCommitFor, on a row the caller names. *)
StartUpdate(p, id, c) ==
    /\ Call(p, "update", [op |-> "update", patch |-> c], id, "update")
    /\ UNCHANGED repo

(* The daemon repeats its operations for ever. *)
Daemon(p, op) ==
    /\ pc[p] = "idle" /\ p \in Daemons /\ op \in Ops
    /\ Goto(p, op)
    /\ UNCHANGED <<ledger, history, locals, bounds>>

-----------------------------------------------------------------------------
(* StoreGitCommit.  The hook goes on to bind the commit, the daemon's scan *)
(* with its loop.                                                          *)

Stored(p) ==
    /\ acked' = acked \cup {job[p].ref}
    /\ Goto(p, IF job[p].op = "hook" THEN "hookBind" ELSE "syncNext")

(* A lookup that fails finds nothing: LookupFails. *)
GitFind(p) ==
    LET ids == Existing(commits, job[p].ref)
    IN  /\ pc[p] = "gitFind"
        /\ found' = [found EXCEPT ![p] = IF ids = {} THEN 0 ELSE AnyOf(ids)]
        /\ Goto(p, IF ids = {} THEN "gitInsert" ELSE "gitFiles")
        /\ UNCHANGED <<ledger, history, job, seen, work, parsed, snap, count, bounds>>

(* When the row cannot be read, its files are taken to be missing. *)
GitFiles(p) ==
    /\ pc[p] = "gitFiles"
    /\ \/ commits[found[p]].files /\ Stored(p) /\ UNCHANGED bounds
       \/ ~commits[found[p]].files /\ Goto(p, "gitFill") /\ UNCHANGED <<acked, bounds>>
       \/ Fails({}, {}) /\ Goto(p, "gitFill") /\ UNCHANGED acked
    /\ UNCHANGED <<ledger, binds, locals>>

GitFill(p) ==
    /\ pc[p] = "gitFill"
    /\ commits' = [commits EXCEPT ![found[p]].files = job[p].files,
                                  ![found[p]].hash = job[p].ref]
    /\ Stored(p)
    /\ UNCHANGED <<repo, links, events, binds, locals, bounds>>

GitInsert(p) ==
    /\ pc[p] = "gitInsert"
    /\ commits' = Append(commits, NewRow(job[p], job[p].ref, job[p].task, job[p].date))
    /\ found' = [found EXCEPT ![p] = Len(commits) + 1]
    /\ Stored(p)
    /\ UNCHANGED <<repo, links, events, binds, job, seen, work, parsed, snap, count, bounds>>

-----------------------------------------------------------------------------
(* autoBindCommit and BackfillCommitTask.                                  *)

(* resolveAutoBindTask: the task the title names, or the only task in      *)
(* progress whose files the commit touches, or none.                       *)
HookBind(p) ==
    /\ pc[p] = "hookBind"
    /\ \/ Reset(p)
       \/ \E t \in Tasks :
            /\ job' = [job EXCEPT ![p].task = t]
            /\ Goto(p, "bindRead")
            /\ UNCHANGED <<found, seen, work, parsed, snap, count>>
    /\ UNCHANGED <<ledger, history, bounds>>

(* The row already bound to another task is a conflict; the one bound to   *)
(* this task and complete needs nothing.                                   *)
BindRead(p) ==
    LET row == commits[found[p]]
        s == [bind |-> row.task = NoTask, fill |-> ~row.files /\ job[p].files]
    IN  /\ pc[p] = "bindRead"
        /\ IF row.task \in {NoTask, job[p].task} /\ (s.bind \/ s.fill)
           THEN /\ seen' = [seen EXCEPT ![p] = s]
                /\ Goto(p, "bindWrite")
                /\ UNCHANGED <<job, found, work, parsed, snap, count>>
           ELSE Reset(p)
        /\ UNCHANGED <<ledger, history, bounds>>

BindWrite(p) ==
    /\ pc[p] = "bindWrite"
    /\ commits' = [commits EXCEPT
           ![found[p]].task = IF seen[p].bind THEN job[p].task ELSE @,
           ![found[p]].files = @ \/ seen[p].fill]
    /\ IF seen[p].bind
       THEN Goto(p, "bindMark") /\ UNCHANGED locals
       ELSE Reset(p)
    /\ UNCHANGED <<repo, links, events, history, bounds>>

(* Mutant: the orphan event is not looked up by the row's id. *)
BindMarkNothing(p) ==
    /\ pc[p] = "bindMark"
    /\ binds' = binds \cup {<<found[p], job[p].task>>}
    /\ Reset(p)
    /\ UNCHANGED <<ledger, acked, bounds>>

BindMark(p) ==
    /\ pc[p] = "bindMark"
    /\ Mark(found[p])
    /\ binds' = binds \cup {<<found[p], job[p].task>>}
    /\ Reset(p)
    /\ UNCHANGED <<repo, commits, links, acked>>

-----------------------------------------------------------------------------
(* handleRecordCommit, recordCommitDedup and CreateCommit.                 *)

(* One query reads the row's id and its task. *)
RecordLookup(p) ==
    LET ids == ExistingEitherWay(commits, job[p].ref)
        row == commits[AnyOf(ids)]
    IN  /\ pc[p] = "recordLookup"
        /\ IF ids = {}
           THEN Goto(p, "createFind") /\ UNCHANGED locals
           ELSE IF job[p].task = NoTask \/ row.task \notin {NoTask, job[p].task}
           THEN Reset(p)
           ELSE /\ found' = [found EXCEPT ![p] = AnyOf(ids)]
                /\ Goto(p, "bindRead")
                /\ UNCHANGED <<job, seen, work, parsed, snap, count>>
        /\ UNCHANGED <<ledger, history, bounds>>

(* The hash is made canonical first, and a task is required. *)
CreateFind(p) ==
    /\ pc[p] = "createFind"
    /\ IF job[p].task = NoTask \/ Canonical(job[p].ref) = {}
       THEN Reset(p)
       ELSE \E full \in Canonical(job[p].ref) :
              LET ids == Existing(commits, full)
              IN  /\ job' = [job EXCEPT ![p].ref = full]
                  /\ found' = [found EXCEPT ![p] = IF ids = {} THEN 0 ELSE AnyOf(ids)]
                  /\ Goto(p, IF ids = {} THEN "createInsert" ELSE "createTask")
                  /\ UNCHANGED <<seen, work, parsed, snap, count>>
    /\ UNCHANGED <<ledger, history, bounds>>

CreateTask(p) ==
    /\ pc[p] = "createTask"
    /\ Goto(p, IF commits[found[p]].task = NoTask THEN "bindRead" ELSE "createInsert")
    /\ UNCHANGED <<ledger, history, locals, bounds>>

CreateInsert(p) ==
    /\ pc[p] = "createInsert"
    /\ commits' = Append(commits, NewRow(job[p], job[p].ref, job[p].task, today))
    /\ found' = [found EXCEPT ![p] = Len(commits) + 1]
    /\ Goto(p, "createMark")
    /\ UNCHANGED <<repo, links, events, history, job, seen, work, parsed, snap, count, bounds>>

(* "resolves any prior orphan event": of the row just inserted. *)
CreateMark(p) ==
    /\ pc[p] = "createMark"
    /\ Mark(found[p])
    /\ acked' = acked \cup ({job[p].ref} \cap GitCommits)
    /\ Reset(p)
    /\ UNCHANGED <<repo, commits, links, binds>>

-----------------------------------------------------------------------------
(* The lookups of a commit whose error nobody looks at: the caller goes on *)
(* as if there was no row, or one with a task, and inserts.                *)

Lookup(p, ref, label) ==
    /\ Fails({ref}, {})
    /\ Goto(p, label)

LookupFails(p) ==
    /\ \/ pc[p] = "gitFind" /\ Lookup(p, job[p].ref, "gitInsert") /\ UNCHANGED job
       \/ pc[p] = "recordLookup" /\ Lookup(p, job[p].ref, "createFind") /\ UNCHANGED job
       \/ pc[p] = "createTask" /\ Lookup(p, job[p].ref, "createInsert") /\ UNCHANGED job
       \/ /\ pc[p] = "createFind" /\ job[p].task # NoTask
          /\ \E full \in Canonical(job[p].ref) :
               /\ Lookup(p, full, "createInsert")
               /\ job' = [job EXCEPT ![p].ref = full]
    /\ UNCHANGED <<ledger, history, found, seen, work, parsed, snap, count>>

-----------------------------------------------------------------------------
(* BatchCreateCommits: one transaction, hashes as the agent gives them.    *)

(* Mutant: the row is rebound to the batch's task. *)
BatchItemRebinds(t, rows, item, how) ==
    LET ids == IF how = "missed" THEN {} ELSE ExistingEitherWay(rows, item.ref)
    IN  IF how = "failed" THEN rows
        ELSE IF ids = {}
        THEN Append(rows, NewRow(item, item.ref, t, today))
        ELSE [rows EXCEPT ![AnyOf(ids)].task = t, ![AnyOf(ids)].files = @ \/ item.files]

(* A failed lookup finds no row, a failed write leaves the item out; the   *)
(* transaction goes on either way.                                         *)
BatchItem(t, rows, item, how) ==
    LET ids == IF how = "missed" THEN {} ELSE ExistingEitherWay(rows, item.ref)
    IN  IF how = "failed" THEN rows
        ELSE IF ids = {}
        THEN Append(rows, NewRow(item, item.ref, t, today))
        ELSE [rows EXCEPT ![AnyOf(ids)].task = IF @ = NoTask THEN t ELSE @,
                          ![AnyOf(ids)].files = @ \/ item.files]

Outcomes == {"ok", "missed", "failed"}

Unfound(item, how) == IF how = "missed" THEN {item.ref} ELSE {}

(* Batches of two items; one item given twice is a batch of one.  Whatever *)
(* fails in a batch counts as one fault.                                   *)
RecordBatch(p, t, first, second) ==
    /\ pc[p] = "idle" /\ "batch" \in Ops /\ calls < MaxCalls
    /\ calls' = calls + 1
    /\ \E one, two \in Outcomes :
         /\ commits' = BatchItem(t, BatchItem(t, commits, first, one), second, two)
         /\ unfound' = unfound \cup Unfound(first, one) \cup Unfound(second, two)
         /\ faults' = IF one = "ok" /\ two = "ok" THEN faults ELSE faults + 1
    /\ faults' <= MaxFaults
    /\ UNCHANGED <<repo, links, events, history, pc, locals, uncounted, today>>

Items(g) == {Job("batch", g, ref, NoTask, FALSE) : ref \in {g, ShortOf[g]}}

-----------------------------------------------------------------------------
(* UpdateCommitFor.                                                        *)

Patched(row, c) == [f \in DOMAIN row |-> IF f \in DOMAIN c THEN c[f] ELSE row[f]]

(* A caller that changes the task or the hash withdraws what others were   *)
(* told of the row.                                                        *)
Update(p) ==
    LET c == job[p].patch
        row == commits[found[p]]
    IN  /\ pc[p] = "update"
        /\ commits' = [commits EXCEPT ![found[p]] = Patched(row, c)]
        /\ binds' = IF "task" \in DOMAIN c THEN {b \in binds : b[1] # found[p]} ELSE binds
        /\ acked' = IF "hash" \in DOMAIN c
                    THEN {g \in acked : ~Matches(row.hash, g)} ELSE acked
        /\ IF "task" \in DOMAIN c /\ c.task # NoTask
           THEN Goto(p, "updateMark") /\ UNCHANGED locals
           ELSE Reset(p)
        /\ UNCHANGED <<repo, links, events, bounds>>

UpdateMark(p) ==
    /\ pc[p] = "updateMark"
    /\ Mark(found[p])
    /\ Reset(p)
    /\ UNCHANGED <<repo, commits, links, history>>

-----------------------------------------------------------------------------
(* syncCommitsFromGit.  A statement that fails costs the scan one commit,  *)
(* not the others.                                                         *)

SyncLog(p) ==
    /\ pc[p] = "sync"
    /\ parsed' = [parsed EXCEPT ![p] = repo] /\ work' = [work EXCEPT ![p] = repo]
    /\ Goto(p, "syncList")
    /\ UNCHANGED <<ledger, history, job, found, seen, snap, count, bounds>>

(* The whole table is listed, once; a list that fails is an empty one. *)
SyncList(p) ==
    /\ pc[p] = "syncList"
    /\ \/ snap' = [snap EXCEPT ![p] = commits] /\ UNCHANGED bounds
       \/ Fails({}, {}) /\ UNCHANGED snap
    /\ Goto(p, "syncNext")
    /\ UNCHANGED <<ledger, history, job, found, seen, work, parsed, count>>

SyncFill(p) ==
    /\ pc[p] = "syncNext"
    /\ \E g \in work[p] :
         LET ids == Existing(snap[p], g)
             i == AnyOf(ids)
         IN  /\ ids # {}
             /\ work' = [work EXCEPT ![p] = @ \ {g}]
             /\ \/ snap[p][i].files /\ UNCHANGED <<commits, acked, bounds>>
                \/ ~snap[p][i].files /\ Fails({}, {}) /\ UNCHANGED <<commits, acked>>
                \/ /\ ~snap[p][i].files
                   /\ commits' = [commits EXCEPT ![i].files = HasFiles[g], ![i].hash = g]
                   /\ acked' = acked \cup {g}
                   /\ UNCHANGED bounds
    /\ UNCHANGED <<repo, links, events, binds, pc, job, found, seen, parsed, snap, count>>

SyncStore(p) ==
    /\ pc[p] = "syncNext"
    /\ \E g \in work[p] :
         /\ Existing(snap[p], g) = {}
         /\ work' = [work EXCEPT ![p] = @ \ {g}]
         /\ job' = [job EXCEPT ![p] = Job("sync", g, g, NoTask, HasFiles[g])]
    /\ Goto(p, "gitFind")
    /\ UNCHANGED <<ledger, history, found, seen, parsed, snap, count, bounds>>

(* StoreGitCommit returns an error, and the scan takes the next commit. *)
SyncSkip(p) ==
    /\ pc[p] \in {"gitFind", "gitFiles", "gitFill", "gitInsert"} /\ job[p].op = "sync"
    /\ Fails({}, {})
    /\ Goto(p, "syncNext")
    /\ UNCHANGED <<ledger, history, locals>>

(* The commits the LISTED table does not know, and its rows without files  *)
(* that have the same title.                                               *)
TitleMatches(made, rows) ==
    {m \in made \X (DOMAIN rows) :
        /\ Existing(rows, m[1]) = {}
        /\ ~rows[m[2]].files /\ rows[m[2]].title = TitleOf[m[1]]}

(* Mutant: the loop over git log breaks where it should continue. *)
SyncTitlesEarly(p) ==
    /\ pc[p] = "syncNext"
    /\ work' = [work EXCEPT ![p] = TitleMatches(parsed[p], snap[p])]
    /\ Goto(p, "syncTitle")
    /\ UNCHANGED <<ledger, history, job, found, seen, parsed, snap, count, bounds>>

SyncTitles(p) ==
    /\ pc[p] = "syncNext" /\ work[p] = {}
    /\ work' = [work EXCEPT ![p] = TitleMatches(parsed[p], snap[p])]
    /\ Goto(p, "syncTitle")
    /\ UNCHANGED <<ledger, history, job, found, seen, parsed, snap, count, bounds>>

SyncTitle(p) ==
    /\ pc[p] = "syncTitle"
    /\ \E m \in work[p] :
         /\ work' = [work EXCEPT ![p] = @ \ {m}]
         /\ \/ commits' = [commits EXCEPT ![m[2]].files = HasFiles[m[1]], ![m[2]].hash = m[1]]
               /\ UNCHANGED bounds
            \/ Fails({}, {}) /\ UNCHANGED commits
    /\ UNCHANGED <<repo, links, events, history, pc, job, found, seen, parsed, snap, count>>

SyncDone(p) ==
    /\ pc[p] = "syncTitle" /\ work[p] = {}
    /\ Reset(p)
    /\ UNCHANGED <<ledger, history, bounds>>

-----------------------------------------------------------------------------
(* commitOrphans.                                                          *)

(* Mutant: HasUnconsumedEventFor in the place of HasEventFor. *)
HasUnconsumedEvent(id) == \E k \in DOMAIN events : events[k].row = id /\ ~events[k].consumed

HasEvent(id) == \E k \in DOMAIN events : events[k].row = id

(* ListCommitsFor: the newest MaxListed rows of the last EmergeDays days.  *)
Listed(rows) ==
    LET recent == {i \in DOMAIN rows : rows[i].date + EmergeDays >= today}
        newer(i) == {j \in recent : \/ rows[j].date > rows[i].date
                                    \/ rows[j].date = rows[i].date /\ j > i}
    IN  {i \in recent : Cardinality(newer(i)) < MaxListed}

EmergeList(p) ==
    /\ pc[p] = "emerge"
    /\ work' = [work EXCEPT ![p] = Listed(commits)]
    /\ Goto(p, "emergeNext")
    /\ UNCHANGED <<ledger, history, job, found, seen, parsed, snap, count, bounds>>

(* Mutant: a commit that has its event uses up the limit as well. *)
EmergeSkipCounts(p) ==
    /\ pc[p] = "emergeNext" /\ count[p] < MaxEmerge
    /\ \E id \in work[p] :
         /\ id \in links \/ HasEvent(id)
         /\ work' = [work EXCEPT ![p] = @ \ {id}]
    /\ count' = [count EXCEPT ![p] = @ + 1]
    /\ UNCHANGED <<ledger, history, pc, job, found, seen, parsed, snap, bounds>>

EmergeSkip(p) ==
    /\ pc[p] = "emergeNext" /\ count[p] < MaxEmerge
    /\ \E id \in work[p] :
         /\ id \in links \/ HasEvent(id)
         /\ work' = [work EXCEPT ![p] = @ \ {id}]
    /\ UNCHANGED <<ledger, history, pc, job, found, seen, parsed, snap, count, bounds>>

(* A list of links that fails is empty, a count of events that fails is 0. *)
EmergeFlag(p) ==
    /\ pc[p] = "emergeNext" /\ count[p] < MaxEmerge
    /\ \E id \in work[p] :
         /\ \/ id \notin links /\ ~HasEvent(id) /\ UNCHANGED bounds
            \/ /\ id \in links \/ HasEvent(id)
               /\ Fails({}, IF HasEvent(id) THEN {id} ELSE {})
         /\ work' = [work EXCEPT ![p] = @ \ {id}]
         /\ found' = [found EXCEPT ![p] = id]
    /\ Goto(p, "emergeCreate")
    /\ UNCHANGED <<ledger, history, job, seen, parsed, snap, count>>

(* CreateEventFor, whose error nobody looks at; orphan says whether the    *)
(* row had no task at the time.                                            *)
EmergeCreate(p) ==
    /\ pc[p] = "emergeCreate"
    /\ \/ /\ events' = Append(events, [row |-> found[p], consumed |-> FALSE,
                                        processed |-> FALSE,
                                        orphan |-> commits[found[p]].task = NoTask])
          /\ UNCHANGED bounds
       \/ Fails({}, {}) /\ UNCHANGED events
    /\ count' = [count EXCEPT ![p] = @ + 1]
    /\ Goto(p, "emergeNext")
    /\ UNCHANGED <<repo, commits, links, history, job, found, seen, work, parsed, snap>>

EmergeDone(p) ==
    /\ pc[p] = "emergeNext"
    /\ work[p] = {} \/ count[p] >= MaxEmerge
    /\ Reset(p)
    /\ UNCHANGED <<ledger, history, bounds>>

-----------------------------------------------------------------------------
(* Links, and the agent that answers its briefing.                         *)

(* CreateLink between a commit and a task, by reconcile or by an agent. *)
Link(id) ==
    /\ "link" \in Ops
    /\ links' = links \cup {id}
    /\ UNCHANGED <<repo, commits, events, history, pc, locals, bounds>>

(* MarkEventsConsumed, from aipm_mark_consumed or the web page. *)
MarkConsumed ==
    /\ "answer" \in Ops
    /\ events' = [k \in DOMAIN events |-> [events[k] EXCEPT !.consumed = TRUE]]
    /\ UNCHANGED <<repo, commits, links, history, pc, locals, bounds>>

(* handleMarkEventProcessed *)
Resolve(id) ==
    /\ "answer" \in Ops
    /\ events' = Processed(id)
    /\ UNCHANGED <<repo, commits, links, history, pc, locals, bounds>>

-----------------------------------------------------------------------------

StoreGit(p) == GitFind(p) \/ GitFiles(p) \/ GitFill(p) \/ GitInsert(p)

Backfill(p) == HookBind(p) \/ BindRead(p) \/ BindWrite(p) \/ BindMark(p)

Record(p) ==
    \/ RecordLookup(p) \/ CreateFind(p) \/ CreateTask(p) \/ CreateInsert(p) \/ CreateMark(p)

Sync(p) ==
    \/ SyncLog(p) \/ SyncList(p) \/ SyncFill(p) \/ SyncStore(p) \/ SyncSkip(p)
    \/ SyncTitles(p) \/ SyncTitle(p) \/ SyncDone(p)

Emerge(p) ==
    EmergeList(p) \/ EmergeSkip(p) \/ EmergeFlag(p) \/ EmergeCreate(p) \/ EmergeDone(p)

Step(p) ==
    \/ StoreGit(p) \/ Backfill(p) \/ Record(p) \/ LookupFails(p)
    \/ Update(p) \/ UpdateMark(p) \/ Sync(p) \/ Emerge(p)

Begin(p) ==
    \/ \E g \in GitCommits : StartHook(p, g)
    \/ \E g \in repo :
         \/ \E ref \in {g, ShortOf[g]}, t \in Tasks \cup {NoTask}, files \in BOOLEAN :
              StartRecord(p, g, ref, t, files)
         \/ \E ref \in {g, ShortOf[g]}, t \in Tasks : StartCreate(p, g, ref, t)
    \/ \E t \in Tasks, g, h \in repo :
         \E first \in Items(g), second \in Items(h) : RecordBatch(p, t, first, second)
    \/ \E id \in DOMAIN commits, c \in Patches : StartUpdate(p, id, c)
    \/ \E op \in {"sync", "emerge"} : Daemon(p, op)

Others ==
    \/ \E g \in GitCommits : GitCommit(g)
    \/ \E id \in DOMAIN commits : Link(id) \/ Resolve(id)
    \/ MarkConsumed \/ NextDay

Next == Others \/ \E p \in Procs : Begin(p) \/ Step(p) \/ Abort(p)

Spec == Init /\ [][Next]_vars

(* The daemon runs each of its operations again and again, and goes on     *)
(* with one that is running.  Hooks and agents may stop for ever.          *)
FairSpec ==
    /\ Spec
    /\ \A p \in Daemons :
         WF_vars(Step(p)) /\ SF_vars(Daemon(p, "sync")) /\ SF_vars(Daemon(p, "emerge"))

-----------------------------------------------------------------------------
(* Properties.                                                             *)

(* The row's hash names the commit. *)
Traces(id, g) == commits[id].hash \in {g, ShortOf[g]}

Quiet == \A p \in Procs : pc[p] = "idle"

JobType ==
    [op : AllOps, ref : Hashes, title : Titles, task : Tasks \cup {NoTask},
     files : BOOLEAN, date : Int]

BindPCs == {"bindRead", "bindWrite", "bindMark"}
GitPCs == {"gitFind", "gitFiles", "gitFill", "gitInsert"}
RecordPCs == {"recordLookup", "createFind", "createTask", "createInsert", "createMark"}
UpdatePCs == {"update", "updateMark"}
RowPCs == {"gitFiles", "gitFill", "hookBind", "createTask", "createMark", "emergeCreate"}
             \cup BindPCs \cup UpdatePCs
SyncPCs == {"sync", "syncList", "syncNext", "syncTitle"}
EmergePCs == {"emerge", "emergeNext", "emergeCreate"}

(* What a process holds fits the code it is in. *)
Fits(p) ==
    /\ pc[p] \in BindPCs \cup GitPCs \cup RecordPCs \cup {"hookBind"} => job[p] \in JobType
    /\ pc[p] \in UpdatePCs => job[p] \in [op : {"update"}, patch : Patches]
    /\ pc[p] \in RowPCs => found[p] \in DOMAIN commits
    /\ pc[p] \in BindPCs => job[p].task \in Tasks
    /\ pc[p] \in GitPCs \cup {"hookBind"} => job[p].ref \in repo
    /\ pc[p] \in GitPCs \cup {"syncList", "syncNext"} => work[p] \subseteq repo
    /\ pc[p] = "syncTitle" => work[p] \subseteq repo \X (DOMAIN commits)
    /\ pc[p] \in {"emergeNext", "emergeCreate"} => work[p] \subseteq DOMAIN commits

(* Every variable has the shape the code gives it. *)
TypeOK ==
    /\ repo \subseteq GitCommits /\ acked \subseteq repo
    /\ commits \in Seq(Row)
    /\ links \subseteq DOMAIN commits
    /\ events \in Seq([row : Nat, consumed : BOOLEAN, processed : BOOLEAN, orphan : BOOLEAN])
    /\ \A k \in DOMAIN events : events[k].row \in DOMAIN commits
    /\ binds \subseteq (DOMAIN commits) \X Tasks
    /\ pc \in [Procs -> {"idle", "hookBind"} \cup BindPCs \cup GitPCs \cup RecordPCs
                        \cup UpdatePCs \cup SyncPCs \cup EmergePCs]
    /\ \A p \in Procs : Fits(p)
    /\ seen \in [Procs -> [bind : BOOLEAN, fill : BOOLEAN]]
    /\ parsed \in [Procs -> SUBSET repo] /\ snap \in [Procs -> Seq(Row)]
    /\ \A p \in Procs : DOMAIN snap[p] \subseteq DOMAIN commits
    /\ count \in [Procs -> Nat] /\ calls \in 0..MaxCalls /\ faults \in 0..MaxFaults
    /\ unfound \subseteq Hashes /\ uncounted \subseteq Nat /\ today \in 0..MaxDays

(* A git commit somebody was told is recorded has a row that leads to it,  *)
(* whatever scans and hooks do to hashes afterwards (StoreGitCommit warns  *)
(* of "hook reported success but no row was created").                     *)
RecordedStays == \A g \in acked : \E id \in DOMAIN commits : Traces(id, g)

(* While operations do not overlap, no commit has two rows for one task,   *)
(* or one beside a row without a task (CreateCommit, "must bind that row   *)
(* instead of inserting a duplicate"), unless a lookup of that commit      *)
(* failed: its error is ignored, and the commit inserted once more.        *)
NoDuplicate ==
    \A g \in GitCommits : {g, ShortOf[g]} \cap unfound = {} =>
        \A i, j \in DOMAIN commits :
            (i # j /\ Traces(i, g) /\ Traces(j, g)) =>
                /\ commits[i].task # commits[j].task
                /\ NoTask \notin {commits[i].task, commits[j].task}

(* The binding BackfillCommitTask reported stands until update_commit asks *)
(* for another: while operations do not overlap, neither hook, record nor  *)
(* batch rebinds the row (ErrCommitTaskConflict).                          *)
BindKept == \A b \in binds : commits[b[1]].task = b[2]

(* When nothing runs and nothing stopped half way, the event of an orphan  *)
(* that has been bound since is processed (BackfillCommitTask, "binding    *)
(* resolves the orphan event").                                            *)
ResolvedWhenBound ==
    (Quiet /\ faults = 0) => \A k \in DOMAIN events :
                 (events[k].orphan /\ commits[events[k].row].task # NoTask) => events[k].processed

(* At most one orphan event is created for a commit, however often agents  *)
(* consume it (HasEvent), unless the count of its events failed: then the  *)
(* daemon takes it to have none.  Failed reads and marks of others, and    *)
(* events that could not be written, make no second one.                   *)
OneEventPerCommit ==
    \A k, l \in DOMAIN events :
        events[k].row = events[l].row => k = l \/ events[k].row \in uncounted

(* Every commit of the repository is recorded in the end, although hooks   *)
(* do not run or die, and stays so (syncCommitsFromGit).                   *)
EveryCommitRecorded ==
    <>[](\A g \in repo : \E id \in DOMAIN commits : Traces(id, g))

(* A row that stays without a task and without a link is flagged some day, *)
(* although a run creates a limited number of events: each row among the   *)
(* newest MaxListed of the last EmergeDays.  Flagged rows stay among them, *)
(* and a row that is older, or recorded under an old author date, or       *)
(* pushed out by newer rows, is never flagged.                             *)
OrphanFlagged ==
    []<>(\A id \in Listed(commits) : HasEvent(id) \/ id \in links \/ commits[id].task # NoTask)

=============================================================================
