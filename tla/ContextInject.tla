----------------------------- MODULE ContextInject -----------------------------
(***************************************************************************)
(* InjectSessionContext, src/proxy/context_inject.go: every request that   *)
(* passes the proxy gets a block appended to its system prompt - what the  *)
(* last sessions were about, warnings, events to act on, the tasks of the  *)
(* files it mentions, the tasks in progress, the guidelines of the         *)
(* project.  Requests are handled concurrently and share two caches with   *)
(* an age limit, one cache per session, and a tracker of what each agent   *)
(* was last sent; what was sent goes to the table inject_log.  Other       *)
(* processes change the project meanwhile.                                 *)
(*                                                                         *)
(* A piece of text is its length in bytes: pieces that differ have         *)
(* different lengths here.  Every request has a body the block fits into.  *)
(***************************************************************************)
EXTENDS Integers, Sequences, FiniteSets, SequencesExt

CONSTANTS
    Handlers,    \* goroutines that handle requests
    Agents,      \* claude, codex, ...
    Sessions,    \* sessions a request may name
    NoSession,   \* the request names none
    Projects,    \* what the project may hold: the lines of its summaries (if rows),
                 \* feedback, unconsumed events and tasks in progress; the length
                 \* of its guidelines.md, or None
    Requests,    \* requests: [agent, session, files], files: the lines on the files it
                 \* mentions
    VisionTip,   \* length of the tip on the vision tool, 0: no model has vision
    ContextTTL, GuidelinesTTL, AnchorTTL, \* 5 minutes, 10 minutes, 48 hours
    SweepEvery,  \* stored anchors between two sweeps (100 in the code)
    MaxInstant,  \* bound: values of the clock
    MaxRequests, \* bound: requests
    MaxChanges,  \* bound: changes of the project
    MaxFaults,   \* bound: failed statements
    None         \* no value

(* What a block is made of, the anchor apart. *)
Content ==
    [context : [goals : Seq(Nat), warnings : Seq(Nat), actions : Seq(Nat), hashed : BOOLEAN],
     files : Seq(Nat), guidelines : Nat]

(* The tasks a session shows, and when they were set. *)
Anchors == [lines : Seq(Nat), at : Nat]

ASSUME InjectAssumption ==
    /\ NoSession \notin Sessions
    /\ Requests \subseteq [agent : Agents, session : Sessions \cup {NoSession}, files : Seq(Nat)]
    /\ Projects \subseteq [rows : BOOLEAN, goals : Seq(Nat), findings : Seq(Nat),
                           feedback : Seq(Nat), actions : Seq(Nat), tasks : Seq(Nat),
                           guidelines : Nat \cup {None}]
    /\ \A p \in Projects : Len(p.tasks) <= 3
    /\ VisionTip \in Nat
    /\ None \notin Content \cup Anchors \cup Nat
    /\ ContextTTL \in Nat /\ GuidelinesTTL \in Nat /\ AnchorTTL \in Nat
    /\ SweepEvery \in Nat \ {0}
    /\ MaxInstant \in Nat /\ MaxRequests \in Nat /\ MaxChanges \in Nat /\ MaxFaults \in Nat

VARIABLES
    now,             \* the clock
    project,         \* the database and the guidelines
    sessionCache,    \* [goals, warnings, actions, at]
    guidelinesCache, \* [content, at]
    anchorCache,     \* of each session: None or [lines, at]
    anchorSweepSeq,  \* anchors stored, modulo SweepEvery
    injectTracker,   \* of each agent: the content last sent, or None
    injectLog,       \* rows of inject_log: [agent, content]
    pc,              \* where each handler is
    job,             \* its request and what it has gathered for it
    requests,        \* requests so far
    changes,         \* changes of the project so far
    faults,          \* faults so far
    injected,        \* history: [agent, session, content, anchor, young, chars]
    unlogged,        \* history: [agent, content] whose row could not be written
    since,           \* history: when this proxy first met a session, or None
    overlapped       \* history: sessions whose first requests overlapped

caches == <<sessionCache, guidelinesCache, anchorCache, anchorSweepSeq, injectTracker>>
history == <<injected, unlogged, since, overlapped>>
vars == <<now, project, changes, caches, injectLog, pc, job, requests, faults, history>>

(* getCachedContext returns no hash when it found no summaries. *)
NoContext == [goals |-> <<>>, warnings |-> <<>>, actions |-> <<>>, hashed |-> FALSE]

JobOf(r, context) ==
    [agent |-> r.agent, session |-> r.session, files |-> r.files,
     context |-> context, guidelines |-> 0, anchor |-> <<>>]

NoJob == JobOf([agent |-> None, session |-> NoSession, files |-> <<>>], NoContext)

-----------------------------------------------------------------------------
(* The block: segments written one after the other, line by line, each     *)
(* line only where a budget and the cap of the whole allow it.             *)

MaxInjectChars == 800
GuidelinesBudget == 600
GuidelinesMin == 200
AnchorBudget == 180

Smaller(a, b) == IF a < b THEN a ELSE b

(* Mutant: the segments before the guidelines may use up all of the block. *)
HighCapAll(guidelines) == MaxInjectChars

(* Segments of high priority leave room for the guidelines. *)
HighCap(guidelines) == IF guidelines > 0 THEN MaxInjectChars - GuidelinesMin ELSE MaxInjectChars

(* size bytes are written; of the lines, those that fit follow. *)
WriteLines(size, lines, budget, cap) ==
    FoldLeft(LAMBDA written, line :
                 IF written - size + line > budget \/ written + line > cap
                 THEN written ELSE written + line,
             size, lines)

WithMarks(lines, marks) == [i \in DOMAIN lines |-> lines[i] + marks]

(* A segment with a heading the cap does not apply to. *)
WriteSegment(size, heading, lines, budget, cap) ==
    IF lines = <<>> THEN size
    ELSE WriteLines(size + heading, WithMarks(lines, 1), budget, cap) + 1

(* A segment that is left out when its heading does not fit. *)
WriteGuarded(size, heading, lines, marks, cap) ==
    IF lines = <<>> \/ size + heading > cap THEN size
    ELSE WriteLines(size + heading, WithMarks(lines, marks), cap, cap)

(* The guidelines are cut to what is left, and end in an ellipsis then; a  *)
(* cut inside of a character, a few bytes shorter, is left out.            *)
WriteGuidelines(size, guidelines) ==
    IF guidelines = 0 THEN size
    ELSE LET left  == MaxInjectChars - (size + 22) - 1
             avail == Smaller(guidelines, Smaller(GuidelinesBudget, IF left < 0 THEN 0 ELSE left))
             shown == IF avail < guidelines /\ avail >= 3 THEN avail - 3 ELSE avail
         IN  size + 22 + shown + (IF 0 < shown /\ shown < guidelines THEN 3 ELSE 0) + 1

BuildContextBlock(content, anchor) ==
    LET cap      == HighCap(content.guidelines)
        files    == WriteSegment(15, 15, content.files,
                                 Smaller(200 + 30 * Len(content.files), 500), cap)
        tasked   == WriteSegment(files, 21, anchor, AnchorBudget, cap)
        warned   == WriteLines(tasked, WithMarks(content.context.warnings, 1), cap, cap)
        acting   == WriteGuarded(warned, 18, content.context.actions, 1, cap)
        guided   == WriteGuidelines(acting, content.guidelines)
        goals    == WriteGuarded(guided, 20, content.context.goals, 3, MaxInjectChars)
    IN  IF goals + VisionTip > MaxInjectChars THEN goals ELSE goals + VisionTip

-----------------------------------------------------------------------------

Init ==
    /\ now = 0 /\ requests = 0 /\ changes = 0 /\ faults = 0
    /\ project \in Projects
    /\ sessionCache = [goals |-> <<>>, warnings |-> <<>>, actions |-> <<>>, at |-> 0 - ContextTTL]
    /\ guidelinesCache = [content |-> 0, at |-> 0 - GuidelinesTTL]
    /\ anchorCache = [s \in Sessions |-> None] /\ anchorSweepSeq = 0
    /\ injectTracker = [a \in Agents |-> None] /\ injectLog = {}
    /\ pc = [h \in Handlers |-> "idle"] /\ job = [h \in Handlers |-> NoJob]
    /\ injected = {} /\ unlogged = {} /\ overlapped = {}
    /\ since = [s \in Sessions |-> None]

Goto(h, where, j) == pc' = [pc EXCEPT ![h] = where] /\ job' = [job EXCEPT ![h] = j]

Fault == faults < MaxFaults /\ faults' = faults + 1

Tick ==
    /\ now < MaxInstant /\ now' = now + 1
    /\ UNCHANGED <<project, changes, caches, injectLog, pc, job, requests, faults, history>>

(* Agents, hooks and the daemon work on the project. *)
Change ==
    /\ changes < MaxChanges /\ changes' = changes + 1
    /\ project' \in Projects \ {project}
    /\ UNCHANGED <<now, caches, injectLog, pc, job, requests, faults, history>>

Take(h, field, value, where) == Goto(h, where, [job[h] EXCEPT ![field] = value])

Fresh == now - sessionCache.at < ContextTTL /\ sessionCache.goals # <<>>

CachedContext ==
    [goals |-> sessionCache.goals, warnings |-> sessionCache.warnings,
     actions |-> sessionCache.actions, hashed |-> TRUE]

(* A request arrives; its first access is getCachedContext under the read  *)
(* lock.  The lines of resolveFileContext are computed for every request.  *)
Arrive(h) ==
    /\ pc[h] = "idle" /\ requests < MaxRequests /\ requests' = requests + 1
    /\ \E r \in Requests :
         /\ IF Fresh THEN Goto(h, "guidelines", JobOf(r, CachedContext))
                     ELSE Goto(h, "fillContext", JobOf(r, NoContext))
         /\ IF r.session = NoSession THEN UNCHANGED <<since, overlapped>>
            ELSE /\ since' = [since EXCEPT ![r.session] = IF @ = None THEN now ELSE @]
                 /\ overlapped' = IF /\ anchorCache[r.session] = None
                                     /\ \E g \in Handlers : job[g].session = r.session
                                  THEN overlapped \cup {r.session} ELSE overlapped
    /\ UNCHANGED <<now, project, changes, caches, injectLog, faults, injected, unlogged>>

(* getCachedContext, under the write lock, which is asked for after the    *)
(* read lock is given back: by then the cache may be fresh, and is filled  *)
(* again.  A failed query for feedback or events counts as none found.     *)
FillContext(h) ==
    /\ pc[h] = "fillContext"
    /\ \E failed \in {"nothing", "summaries", "feedback", "events"} :
         LET Unless(query, lines) == IF failed = query THEN <<>> ELSE lines
             found == [goals    |-> project.goals,
                       warnings |-> project.findings \o Unless("feedback", project.feedback),
                       actions  |-> Unless("events", project.actions),
                       hashed   |-> TRUE]
         IN  /\ IF failed = "nothing" THEN UNCHANGED faults ELSE Fault
             /\ IF project.rows /\ failed # "summaries"
                THEN /\ sessionCache' = [goals |-> found.goals, warnings |-> found.warnings,
                                         actions |-> found.actions, at |-> now]
                     /\ Take(h, "context", found, "guidelines")
                ELSE /\ sessionCache' = [sessionCache EXCEPT !.goals = <<>>]
                     /\ Take(h, "context", NoContext, "guidelines")
    /\ UNCHANGED <<now, project, changes, guidelinesCache, anchorCache, anchorSweepSeq, injectTracker>>
    /\ UNCHANGED <<injectLog, requests, history>>

(* loadGuidelines: a missing file is looked for again by every request. *)
ReadGuidelines(h) ==
    /\ pc[h] = "guidelines"
    /\ IF now - guidelinesCache.at < GuidelinesTTL
       THEN Take(h, "guidelines", guidelinesCache.content, "anchor")
       ELSE Goto(h, "fillGuidelines", job[h])
    /\ UNCHANGED <<now, project, changes, caches, injectLog, requests, faults, history>>

FillGuidelines(h) ==
    /\ pc[h] = "fillGuidelines"
    /\ guidelinesCache' = IF project.guidelines = None THEN [guidelinesCache EXCEPT !.content = 0]
                          ELSE [content |-> project.guidelines, at |-> now]
    /\ Take(h, "guidelines", guidelinesCache'.content, "anchor")
    /\ UNCHANGED <<now, project, changes, sessionCache, anchorCache, anchorSweepSeq, injectTracker>>
    /\ UNCHANGED <<injectLog, requests, faults, history>>

(* resolveAnchorContext: the first request of a session sets its anchor. *)
LoadAnchor(h) ==
    LET s == job[h].session
    IN  /\ pc[h] = "anchor"
        /\ IF s = NoSession THEN Goto(h, "decide", job[h])
           ELSE IF anchorCache[s] = None THEN Goto(h, "list", job[h])
           ELSE Take(h, "anchor", anchorCache[s].lines, "decide")
        /\ UNCHANGED <<now, project, changes, caches, injectLog, requests, faults, history>>

Anchor(lines) == [lines |-> lines, at |-> now]

(* ListTasks; after an error the session has no anchor for good. *)
ListTasks(h) ==
    /\ pc[h] = "list"
    /\ \/ Take(h, "anchor", project.tasks, "store") /\ UNCHANGED <<anchorCache, faults>>
       \/ /\ Fault
          /\ anchorCache' = [anchorCache EXCEPT ![job[h].session] = Anchor(<<>>)]
          /\ Goto(h, "decide", job[h])
    /\ UNCHANGED <<now, project, changes, sessionCache, guidelinesCache, anchorSweepSeq, injectTracker>>
    /\ UNCHANGED <<injectLog, requests, history>>

(* maybeSweepAnchorCache: every so many calls, what is older than the TTL. *)
Sweep(cache, seq) ==
    [s \in Sessions |-> IF seq = 0 /\ cache[s] # None /\ now - cache[s].at > AnchorTTL
                        THEN None ELSE cache[s]]

(* Mutant: only a session with tasks in progress is remembered. *)
StoreSomeAnchor(h) ==
    /\ pc[h] = "store"
    /\ anchorSweepSeq' = (anchorSweepSeq + 1) % SweepEvery
    /\ anchorCache' = IF job[h].anchor = <<>> THEN anchorCache
                      ELSE [anchorCache EXCEPT ![job[h].session] = Anchor(job[h].anchor)]
    /\ Goto(h, "decide", job[h])
    /\ UNCHANGED <<now, project, changes, sessionCache, guidelinesCache, injectTracker>>
    /\ UNCHANGED <<injectLog, requests, faults, history>>

(* Store, whatever another request of the session stored meanwhile. *)
StoreAnchor(h) ==
    /\ pc[h] = "store"
    /\ anchorSweepSeq' = (anchorSweepSeq + 1) % SweepEvery
    /\ anchorCache' = Sweep([anchorCache EXCEPT ![job[h].session] = Anchor(job[h].anchor)],
                            anchorSweepSeq')
    /\ Goto(h, "decide", job[h])
    /\ UNCHANGED <<now, project, changes, sessionCache, guidelinesCache, injectTracker>>
    /\ UNCHANGED <<injectLog, requests, faults, history>>

(* What the hash of a block is made of: all of it but the anchor. *)
FullHash(j) == [context |-> j.context, files |-> j.files, guidelines |-> j.guidelines]

Entry(j) == [agent |-> j.agent, content |-> FullHash(j)]

Young(s) == s # NoSession /\ now - since[s] <= AnchorTTL

(* The request goes on to the upstream, with the block. *)
Send(j) ==
    injected' = injected \cup {[agent |-> j.agent, session |-> j.session, content |-> FullHash(j),
                                anchor |-> j.anchor, young |-> Young(j.session),
                                chars |-> BuildContextBlock(FullHash(j), j.anchor)]}

(* Mutant: the agent was sent something before. *)
SentBefore(agent, hash) == injectTracker[agent] # None

SameContent(agent, hash) == injectTracker[agent] = hash

(* Warnings and events alone are not injected.  The same content is        *)
(* injected again, but not recorded again.                                 *)
Decide(h) ==
    LET j == job[h]
        empty == j.context.goals = <<>> /\ j.files = <<>> /\ j.anchor = <<>> /\ j.guidelines = 0
    IN  /\ pc[h] = "decide"
        /\ \/ empty /\ Goto(h, "idle", NoJob) /\ UNCHANGED injected
           \/ ~empty /\ SameContent(j.agent, FullHash(j)) /\ Goto(h, "idle", NoJob) /\ Send(j)
           \/ ~empty /\ ~SameContent(j.agent, FullHash(j)) /\ Goto(h, "track", j) /\ UNCHANGED injected
        /\ UNCHANGED <<now, project, changes, caches, injectLog, requests, faults, unlogged, since, overlapped>>

Track(h) ==
    /\ pc[h] = "track"
    /\ injectTracker' = [injectTracker EXCEPT ![job[h].agent] = FullHash(job[h])]
    /\ Goto(h, "write", job[h])
    /\ UNCHANGED <<now, project, changes, sessionCache, guidelinesCache, anchorCache, anchorSweepSeq>>
    /\ UNCHANGED <<injectLog, requests, faults, history>>

(* writeInjectLog: an error is logged, and the block injected all the same. *)
WriteInjectLog(h) ==
    /\ pc[h] = "write"
    /\ \/ injectLog' = injectLog \cup {Entry(job[h])} /\ UNCHANGED <<faults, unlogged>>
       \/ Fault /\ unlogged' = unlogged \cup {Entry(job[h])} /\ UNCHANGED injectLog
    /\ Goto(h, "idle", NoJob) /\ Send(job[h])
    /\ UNCHANGED <<now, project, changes, caches, requests, since, overlapped>>

Handle(h) ==
    \/ Arrive(h) \/ FillContext(h) \/ ReadGuidelines(h) \/ FillGuidelines(h)
    \/ LoadAnchor(h) \/ ListTasks(h) \/ StoreAnchor(h) \/ Decide(h) \/ Track(h) \/ WriteInjectLog(h)

Next == Tick \/ Change \/ \E h \in Handlers : Handle(h)

Spec == Init /\ [][Next]_vars

-----------------------------------------------------------------------------
(* Properties.                                                             *)

(* The comment on maxInjectChars: whatever the segments hold, the block    *)
(* does not exceed it, headings, ellipsis and tip included.                *)
WithinCap ==
    \A i \in injected : i.chars <= MaxInjectChars

(* "Stable within a session": while the proxy runs and the session is      *)
(* younger than the TTL, all its requests show the tasks that were in      *)
(* progress when it began, or none when they could not be listed - unless  *)
(* its first requests overlapped.                                          *)
AnchorStable ==
    \A i, j \in injected :
        (/\ i.session = j.session /\ i.session \notin overlapped
         /\ i.young /\ j.young) => i.anchor = j.anchor

(* Content an agent was sent is in inject_log, recorded by the request     *)
(* itself or by an earlier one with the same content, or is about to be;   *)
(* unless that row could not be written.                                   *)
InjectedIsLogged ==
    \A i \in injected :
        LET entry == [agent |-> i.agent, content |-> i.content]
        IN  \/ entry \in injectLog \cup unlogged
            \/ \E h \in Handlers : pc[h] = "write" /\ Entry(job[h]) = entry

=============================================================================
