------------------------------ MODULE CursorHooks ------------------------------
(***************************************************************************)
(* The hook processes of Cursor, src/hook/cursor.  Cursor starts one       *)
(* process per event; what one event has to leave for a later one goes     *)
(* through two cache files, each with a lock file of its own:              *)
(*                                                                         *)
(*   prompts   prompts that arrived garbled and wait until the transcript  *)
(*             has their text (user_prompt_cache.go)                       *)
(*   edits     hunks of an edit that wait for its afterFileEdit event, and *)
(*             the edits logged so far (edit_cache.go)                     *)
(*                                                                         *)
(* Every access is a locked section: read the whole file, change it, write *)
(* it back, which first truncates it.  A process that does not get the     *)
(* lock within a second goes on without it.  A process may die anywhere.   *)
(***************************************************************************)
EXTENDS Integers, Sequences, FiniteSets, Bags

CONSTANTS
    Procs,      \* hook processes
    Edits,      \* edits of the session: [file, n, new]; new: it creates the file
    MaxPrompts, \* bound: prompts the user submits; each starts a generation
    MaxEvents,  \* bound: events, prompts included
    MaxFaults,  \* bound: processes that die, and rows that are not inserted
    MaxInstant, \* bound: values of the one-second clock
    KeepFor,    \* age at which a save drops an edit (600 s in the code)
    RecentLogged,  \* logged prompts a flush compares with (20 in the code)
    RecentQueries, \* prompts of the transcript it scans (at most 30)
    NoEdit,     \* no value
    Free,       \* the lock file does not exist
    Stale       \* it exists and the process that created it is dead

ASSUME HooksAssumption ==
    /\ Procs # {} /\ {Free, Stale} \cap Procs = {}
    /\ \A e \in Edits : DOMAIN e = {"file", "n", "new"} /\ e.new \in BOOLEAN
    /\ NoEdit \notin Edits
    /\ MaxPrompts \in Nat /\ MaxEvents \in Nat /\ MaxFaults \in Nat
    /\ MaxInstant \in Nat \ {0} /\ KeepFor \in Nat
    /\ RecentLogged \in Nat /\ RecentQueries \in Nat

VARIABLES
    now,        \* the clock
    submitted,  \* prompts submitted so far, numbered from 1
    transcript, \* the prompts in Cursor's transcript, in order
    events,     \* events fired so far
    prompts,    \* cursor-user-prompts.json: the generations waiting
    edits,      \* cursor-edits.json: [hunks, done]
    lock,       \* of both files: Free, Stale or the process that created it
    pc,         \* where each process is
    job,        \* its event: [kind, gen, edit], the steps left of it and, as
                \* history, whether the cache held hunks for it (due)
    mine,       \* the content it will write back
    got,        \* the hunks it took from the cache, or NoEdit
    log,        \* the rows LogDiscussion keeps, in discussion_log or in its spool
                \* file: a bag of [kind, gen, text, edit, hunks]
    visible,    \* the prompts with a row in discussion_log; the rows of the others
                \* wait in the spool
    faults,     \* processes that died and rows that were not inserted so far
    overrun,    \* history: a process died, or ran a section without the lock
    misled,     \* history: a flush took another prompt than it would have taken
                \* with every row and the whole transcript before it
    suppressed, \* history: events skipped as duplicates: [gen, edit]
    rowless     \* history: events acknowledged without a row: [gen, edit]

files == <<prompts, edits, lock>>
store == <<log, visible>>
history == <<overrun, misled, suppressed, rowless>>
vars == <<now, submitted, transcript, events, files, pc, job, mine, got, store, faults, history>>

Files == {"prompts", "edits"}
NoFile == [hunks |-> {}, done |-> {}]
Nothing == [prompts |-> {}, edits |-> NoFile]
NoJob == [kind |-> "none", gen |-> 0, edit |-> NoEdit, due |-> FALSE, steps |-> <<>>]

Init ==
    /\ now = 1 /\ submitted = 0 /\ transcript = <<>> /\ events = 0
    /\ prompts = {} /\ edits = NoFile /\ lock = [f \in Files |-> Free]
    /\ pc = [p \in Procs |-> "idle"] /\ job = [p \in Procs |-> NoJob]
    /\ mine = [p \in Procs |-> Nothing] /\ got = [p \in Procs |-> NoEdit]
    /\ log = EmptyBag /\ visible = {} /\ faults = 0
    /\ overrun = FALSE /\ misled = FALSE /\ suppressed = {} /\ rowless = {}

-----------------------------------------------------------------------------
(* Events: ProcessHook and the steps each of them takes.                   *)

Tick ==
    /\ now < MaxInstant
    /\ now' = now + 1
    /\ UNCHANGED <<submitted, transcript, events, files, pc, job, mine, got, store, faults, history>>

(* The steps outside a locked section. *)
Unlocked == {"log"}

Start(p, steps) == IF Head(steps) \in Unlocked THEN "log" ELSE "lock"

Fire(p, kind, g, e, steps) ==
    /\ pc[p] = "idle"
    /\ events < MaxEvents /\ events' = events + 1
    /\ job' = [job EXCEPT ![p] = [kind |-> kind, gen |-> g, edit |-> e, steps |-> steps,
                                  due |-> kind = "edit" /\ \E h \in edits.hunks : h.edit = e]]
    /\ pc' = [pc EXCEPT ![p] = Start(p, steps)]
    /\ UNCHANGED <<now, files, mine, got, store, faults, history>>

(* beforeSubmitPrompt: a garbled prompt is left for later. *)
Submit(p) ==
    /\ submitted < MaxPrompts
    /\ submitted' = submitted + 1
    /\ \E garbled \in BOOLEAN :
         Fire(p, "prompt", submitted + 1, NoEdit, IF garbled THEN <<"defer">> ELSE <<"log">>)
    /\ UNCHANGED transcript

(* Cursor writes the prompt once its hook returned. *)
Transcribe ==
    /\ Len(transcript) < submitted
    /\ \A p \in Procs : job[p].kind = "prompt" => job[p].gen # Len(transcript) + 1
    /\ transcript' = Append(transcript, Len(transcript) + 1)
    /\ UNCHANGED <<now, submitted, events, files, pc, job, mine, got, store, faults, history>>

(* The other events of a generation come when its turn is in the           *)
(* transcript (the comment on PreferUserPromptAtSubmit).                   *)
Later(p, kind, e, steps) ==
    /\ \E k \in DOMAIN transcript : Fire(p, kind, transcript[k], e, steps)
    /\ UNCHANGED <<submitted, transcript>>

(* afterAgentResponse, and postToolUse of a tool that is no edit. *)
Respond(p) == Later(p, "answer", NoEdit, <<"flush", "log">>)

(* postToolUse of an edit that carries hunks. *)
UseEditTool(p) == \E e \in Edits : Later(p, "tool", e, <<"flush", "hunks">>)

(* Mutant: an edit is marked before it is logged. *)
EditMarkedFirst(p) ==
    \E e \in Edits :
        Later(p, "edit", e, <<"flush", "cache", "check">>
                              \o (IF e.new THEN <<>> ELSE <<"take">>) \o <<"mark", "log">>)

(* afterFileEdit: applyEditsToMeta asks for hunks unless the file is new.  *)
(* (The few file names IsLowValueToolContent drops are not among Edits.)   *)
AfterFileEdit(p) ==
    \E e \in Edits :
        Later(p, "edit", e, <<"flush", "cache", "check">>
                              \o (IF e.new THEN <<>> ELSE <<"take">>) \o <<"log", "mark">>)

-----------------------------------------------------------------------------
(* A locked section.                                                       *)

Step(p) == Head(job[p].steps)

FileOf(p) == IF Step(p) \in {"defer", "flush"} THEN "prompts" ELSE "edits"

(* The step is over; the event may have more, or the process exits. *)
Done(p, rest) ==
    IF rest = <<>>
    THEN /\ pc' = [pc EXCEPT ![p] = "idle"]
         /\ job' = [job EXCEPT ![p] = NoJob]
         /\ got' = [got EXCEPT ![p] = NoEdit]
    ELSE /\ pc' = [pc EXCEPT ![p] = Start(p, rest)]
         /\ job' = [job EXCEPT ![p].steps = rest]
         /\ UNCHANGED got

(* A free lock file is created, with O_EXCL. *)
Lock(p) ==
    /\ lock[FileOf(p)] = Free
    /\ lock' = [lock EXCEPT ![FileOf(p)] = p]
    /\ UNCHANGED overrun

(* Mutant: the lock of a dead process is respected for ever. *)
GiveUpOnTheLiving(p) ==
    /\ lock[FileOf(p)] \in Procs
    /\ overrun' = TRUE
    /\ UNCHANGED lock

(* After 200 tries the section runs all the same. *)
GiveUp(p) ==
    /\ lock[FileOf(p)] # Free
    /\ overrun' = TRUE
    /\ UNCHANGED lock

LoggedTexts == {r.text : r \in {r \in DOMAIN log : r.kind = "prompt"}}

Newest(S) == CHOOSE g \in S : \A h \in S : h <= g

Transcribed == {transcript[k] : k \in DOMAIN transcript}

(* readAllUserQueriesFromTranscriptReverse: the last prompts of the        *)
(* transcript, as many as the lines it reads hold.                         *)
Scans ==
    LET total == Len(transcript)
    IN  {{g \in Transcribed : g > n} : n \in total - RecentQueries .. total}

(* RecentUserPrompts: the prompts with a row in the table, the latest of   *)
(* them when there are more than it asks for, and none on an error, which  *)
(* its caller ignores.                                                     *)
Lists ==
    {T \in SUBSET visible :
        \/ T = {} \/ Cardinality(T) = RecentLogged
        \/ T = visible /\ Cardinality(T) < RecentLogged}

(* Mutant: the newest prompt, logged or not. *)
ResolvedAnyhow(scanned, listed) == Newest(Transcribed)

(* resolveDeferredUserPrompt: the newest prompt of the transcript that is  *)
(* not logged, else the newest.                                            *)
Resolved(scanned, listed) ==
    IF scanned \ listed # {} THEN Newest(scanned \ listed) ELSE Newest(Transcribed)

(* Mutant: the entry stays. *)
FlushedStays(c, g) == c

Flushed(c, g) == c \ {g}

(* cacheCursorHunks. *)
WithHunks(c, e) ==
    [c EXCEPT !.hunks = {h \in @ : h.edit.file # e.file} \cup {[edit |-> e, at |-> now]}]

(* cacheCursorFileEdit stores a fresh entry in place of the file's entry. *)
FreshEntry(c, e) == [c EXCEPT !.hunks = {h \in @ : h.edit.file # e.file}]

(* takeCursorHunks. *)
HunksFor(c, e) == {h \in c.hunks : h.edit.file = e.file}

WithoutHunks(c, e) == [c EXCEPT !.hunks = @ \ HunksFor(c, e)]

(* wasDuplicateFileEdit. *)
IsDuplicate(c, g, e) == \E d \in c.done : d.gen = g /\ d.edit = e /\ d.at = now

(* markFileEditLogged: one entry for each generation and file. *)
Marked(c, g, e) ==
    [c EXCEPT !.done = {d \in @ : ~(d.gen = g /\ d.edit.file = e.file)}
                         \cup {[gen |-> g, edit |-> e, at |-> now]}]

(* saveCursorEditCache drops the entries that are too old. *)
Fresh(c) ==
    [hunks |-> {h \in c.hunks : h.at >= now - KeepFor},
     done |-> {d \in c.done : d.at >= now - KeepFor}]

Content(file, content) ==
    [prompts |-> IF file = "prompts" THEN content ELSE {},
     edits |-> IF file = "edits" THEN content ELSE NoFile]

Save(p, content) ==
    /\ mine' = [mine EXCEPT ![p] = Content(FileOf(p), content)]
    /\ pc' = [pc EXCEPT ![p] = "truncate"]

Keep(p) ==
    /\ pc' = [pc EXCEPT ![p] = "unlock"]
    /\ UNCHANGED mine

(* The section begins: the file is read and the new content made.          *)
(* flushDeferredUserPrompt logs the prompt before it writes.               *)
Load(p) ==
    LET g == job[p].gen
        e == job[p].edit
    IN  /\ pc[p] = "lock"
        /\ Lock(p) \/ GiveUp(p)
        /\ \/ /\ Step(p) = "defer"
              /\ Save(p, prompts \cup {g})
              /\ UNCHANGED got
           \/ /\ Step(p) = "flush"
              /\ IF g \in prompts
                 THEN /\ mine' = [mine EXCEPT ![p] = Content("prompts", Flushed(prompts, g))]
                      /\ pc' = [pc EXCEPT ![p] = "logPrompt"]
                 ELSE Keep(p)
              /\ UNCHANGED got
           \/ Step(p) = "hunks" /\ Save(p, Fresh(WithHunks(edits, e))) /\ UNCHANGED got
           \/ Step(p) = "cache" /\ Save(p, Fresh(FreshEntry(edits, e))) /\ UNCHANGED got
           \/ Step(p) = "mark" /\ Save(p, Fresh(Marked(edits, g, e))) /\ UNCHANGED got
           \/ Step(p) = "check" /\ Keep(p) /\ UNCHANGED got
           \/ /\ Step(p) = "take"
              /\ IF HunksFor(edits, e) = {} THEN Keep(p) /\ UNCHANGED got
                 ELSE /\ \E h \in HunksFor(edits, e) : got' = [got EXCEPT ![p] = h.edit]
                      /\ Save(p, Fresh(WithoutHunks(edits, e)))
        /\ suppressed' = IF Step(p) = "check" /\ IsDuplicate(edits, g, e)
                         THEN suppressed \cup {[gen |-> g, edit |-> e]} ELSE suppressed
        /\ job' = IF Step(p) = "check" /\ IsDuplicate(edits, g, e)
                  THEN [job EXCEPT ![p].steps = <<"check">>] ELSE job
    /\ UNCHANGED <<now, submitted, transcript, events, prompts, edits, store, faults, misled, rowless>>

-----------------------------------------------------------------------------
(* LogDiscussion: every call first replays the spool, as far as it gets.   *)

Replays == {visible \cup T : T \in SUBSET (LoggedTexts \ visible)}

Insert(row) == log' = log (+) SetToBag({row})

Create(row) ==
    /\ Insert(row)
    /\ \E v \in Replays :
         visible' = v \cup (IF row.kind = "prompt" THEN {row.text} ELSE {})
    /\ UNCHANGED faults

(* The database stays busy: the row goes to the spool. *)
Spool(row) ==
    /\ faults < MaxFaults /\ faults' = faults + 1
    /\ Insert(row) /\ visible' \in Replays

(* The spool is full, or the flush of another process rewrites it without  *)
(* the row, and the caller is told that all is well; or it gets an error.  *)
Lose ==
    /\ faults < MaxFaults /\ faults' = faults + 1
    /\ visible' \in Replays
    /\ UNCHANGED log

(* The row reads as the assistant's last row does: it is skipped.  Of an   *)
(* edit it holds the file and the beginning of the change.                 *)
Repeat(row) ==
    /\ row.kind # "prompt"
    /\ \E r \in DOMAIN log :
         r.kind = row.kind /\ (row.kind = "edit" => r.edit.file = row.edit.file)
    /\ visible' \in Replays
    /\ UNCHANGED <<log, faults>>

(* The text is looked up and logged under the lock.  The entry stays when  *)
(* the transcript shows no prompt yet, and on an error; it goes when       *)
(* LogDiscussion returns none, whether there is a row or not.              *)
LogPrompt(p) ==
    /\ pc[p] = "logPrompt"
    /\ \/ /\ \E scanned \in Scans, listed \in Lists :
               LET row == [kind |-> "prompt", gen |-> job[p].gen,
                           text |-> Resolved(scanned, listed),
                           edit |-> NoEdit, hunks |-> NoEdit]
               IN  /\ Create(row) \/ Spool(row) \/ Lose
                   /\ misled' = (misled \/ row.text # Resolved(Transcribed, LoggedTexts))
          /\ pc' = [pc EXCEPT ![p] = "truncate"]
          /\ UNCHANGED mine
       \/ /\ Lose \/ UNCHANGED <<store, faults>>
          /\ mine' = [mine EXCEPT ![p] = Nothing]
          /\ pc' = [pc EXCEPT ![p] = "unlock"]
          /\ UNCHANGED misled
    /\ UNCHANGED <<now, submitted, transcript, events, files, job, got, overrun, suppressed, rowless>>

(* os.WriteFile empties the file, then writes: two steps. *)
Truncate(p) ==
    /\ pc[p] = "truncate"
    /\ IF FileOf(p) = "prompts" THEN prompts' = {} /\ UNCHANGED edits
                                ELSE edits' = NoFile /\ UNCHANGED prompts
    /\ pc' = [pc EXCEPT ![p] = "write"]
    /\ UNCHANGED <<now, submitted, transcript, events, lock, job, mine, got, store, faults, history>>

Write(p) ==
    /\ pc[p] = "write"
    /\ IF FileOf(p) = "prompts" THEN prompts' = mine[p].prompts /\ UNCHANGED edits
                                ELSE edits' = mine[p].edits /\ UNCHANGED prompts
    /\ mine' = [mine EXCEPT ![p] = Nothing]
    /\ pc' = [pc EXCEPT ![p] = "unlock"]
    /\ UNCHANGED <<now, submitted, transcript, events, lock, job, got, store, faults, history>>

(* Only the process that created the lock file removes it. *)
Unlock(p) ==
    /\ pc[p] = "unlock"
    /\ lock' = IF lock[FileOf(p)] = p THEN [lock EXCEPT ![FileOf(p)] = Free] ELSE lock
    /\ Done(p, Tail(job[p].steps))
    /\ UNCHANGED <<now, submitted, transcript, events, prompts, edits, mine, store, faults, history>>

(* LogDiscussion of the event itself; an error ends the process. *)
Log(p) ==
    /\ pc[p] = "log"
    /\ LET row == [kind |-> job[p].kind, gen |-> job[p].gen, text |-> job[p].gen,
                   edit |-> job[p].edit, hunks |-> got[p]]
       IN  \/ /\ Create(row) \/ Spool(row)
              /\ Done(p, Tail(job[p].steps))
              /\ UNCHANGED rowless
           \/ /\ Lose \/ Repeat(row)
              /\ rowless' = rowless \cup {[gen |-> row.gen, edit |-> row.edit]}
              /\ Done(p, Tail(job[p].steps))
           \/ /\ Lose
              /\ Done(p, <<>>)
              /\ UNCHANGED rowless
    /\ UNCHANGED <<now, submitted, transcript, events, files, mine, overrun, misled, suppressed>>

Die(p) ==
    /\ pc[p] # "idle"
    /\ faults < MaxFaults /\ faults' = faults + 1
    /\ overrun' = TRUE
    /\ lock' = [f \in Files |-> IF lock[f] = p THEN Stale ELSE lock[f]]
    /\ mine' = [mine EXCEPT ![p] = Nothing]
    /\ Done(p, <<>>)
    /\ UNCHANGED <<now, submitted, transcript, events, prompts, edits, store, misled, suppressed, rowless>>

Event(p) == Submit(p) \/ Respond(p) \/ UseEditTool(p) \/ AfterFileEdit(p)

Run(p) ==
    \/ Load(p) \/ LogPrompt(p) \/ Truncate(p)
    \/ Write(p) \/ Unlock(p) \/ Log(p)

Next ==
    \/ Tick \/ Transcribe
    \/ \E p \in Procs : Event(p) \/ Run(p) \/ Die(p)

(* The operating system runs every hook process. *)
Fairness == \A p \in Procs : WF_vars(Run(p))

Spec == Init /\ [][Next]_vars /\ Fairness

-----------------------------------------------------------------------------
(* Properties.                                                             *)

Quiet == \A p \in Procs : pc[p] = "idle"

PromptRows(t) == {r \in DOMAIN log : r.kind = "prompt" /\ r.text = t}

(* While no process died, failed or gave up on a lock, and no flush was    *)
(* misled by an incomplete list of rows: every prompt whose text is not in *)
(* the log yet has an entry that will bring it there, although a flush     *)
(* looks for the newest unlogged text and not for its own.                 *)
PromptsBackfilled ==
    (Quiet /\ faults = 0 /\ ~overrun /\ ~misled) =>
        Cardinality({t \in 1 .. submitted : PromptRows(t) = {}}) = Cardinality(prompts)

(* As long as no process died, the lock was respected and no flush was     *)
(* misled, a prompt gets one row, by its own hook or by a flush, in the    *)
(* table or in the spool, also when rows are spooled, dropped or fail.     *)
PromptLoggedOnce ==
    (~overrun /\ ~misled) =>
        \A t \in 1 .. submitted : \A r, s \in PromptRows(t) : r = s /\ log[r] = 1

(* An edit is skipped as a duplicate only when LogDiscussion took the same *)
(* edit of the same generation, whatever died or failed: its row is in the *)
(* table or in the spool, unless LogDiscussion itself reported success for *)
(* it without a row.                                                       *)
OnlyLoggedEditsSkipped ==
    \A s \in suppressed :
        \/ \E r \in DOMAIN log : r.kind = "edit" /\ r.gen = s.gen /\ r.edit = s.edit
        \/ s \in rowless

(* A hook process ends, although a dead process left its lock behind: the  *)
(* agent that waits for the hook is never blocked.                         *)
HooksEnd == \A p \in Procs : pc[p] = "lock" ~> pc[p] = "idle"

(* What the comments of edit_cache.go:128 and process.go:120 promise: the  *)
(* hunks of postToolUse are in the row of the afterFileEdit that follows.  *)
(* The code does not keep it (README, section 5).                          *)
HunksReachEdit ==
    \A p \in Procs :
        (faults = 0 /\ ~overrun /\ pc[p] = "log" /\ job[p].due /\ ~job[p].edit.new) => got[p] # NoEdit

=============================================================================
