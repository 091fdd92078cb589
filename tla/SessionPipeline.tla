---------------------------- MODULE SessionPipeline ----------------------------
(***************************************************************************)
(* The session pipeline, src/session: every half hour the serve daemon     *)
(* reviews the sessions found in discussion_log (run.go), first binding    *)
(* the rows MCP calls left without a session to the session they fit       *)
(* (merge_mcp.go), then links sessions with the commits whose files they   *)
(* touched (reconcile.go).  The command line runs the same code in         *)
(* processes of its own.                                                   *)
(*                                                                         *)
(* The rows are those of one source (codex, say): rows of another source   *)
(* are matched apart, by the same rule.  All rows and commits are recent   *)
(* enough for the windows of the queries (24 h, 6 h, 7 days).              *)
(***************************************************************************)
EXTENDS Integers, Sequences, FiniteSets, FiniteSetsExt, SequencesExt

CONSTANTS
    Sessions,   \* session ids agents report
    Unknown,    \* the session id of a row that has none
    Runners,    \* processes that run the pipeline
    Daemons,    \* those that run it for ever; the others run one part, once
    Parts,      \* what the user runs by hand: review, reconcile
    Models,     \* does a run have a summarizer? a subset of BOOLEAN
    Histories,  \* the rows that may be there at first
    Posts,      \* rows agents log: [kind, session, files]
    Commits,    \* commits of the ledger
    Files,      \* files
    FilesOf,    \* the files of each commit
    Named,      \* the sets of files a summary may name
    Window,     \* MCPMergeWindow (5 s in the code)
    Attempts,   \* attempts of a part whose database is busy (3 in the code)
    MaxRows,    \* bound: rows of discussion_log
    MaxInstant, \* bound: instants at which rows are made
    MaxFaults,  \* bound: statements the database refuses, links the user deletes
    None        \* no value

ASSUME PipelineAssumption ==
    /\ Unknown \notin Sessions /\ Daemons \subseteq Runners
    /\ FilesOf \in [Commits -> SUBSET Files] /\ Named \subseteq SUBSET Files
    /\ Window \in Nat /\ Attempts \in Nat \ {0} /\ MaxRows \in Nat
    /\ MaxInstant \in Nat \ {0} /\ MaxFaults \in Nat
    /\ Posts \subseteq [kind : {"user", "tool", "mcp"}, session : Sessions \cup {Unknown},
                        files : SUBSET Files]
    /\ Histories \subseteq Seq([kind : {"user", "tool", "mcp"}, session : Sessions \cup {Unknown},
                                at : Nat, files : SUBSET Files])
    /\ \A p \in Posts : p.kind = "mcp" => p.session = Unknown
    /\ \A h \in Histories : \A k \in DOMAIN h : h[k].kind = "mcp" => h[k].session = Unknown
    /\ \A h \in Histories : \A k \in DOMAIN h : h[k].at <= h[Len(h)].at
    /\ IsFiniteSet(Runners)
    /\ Models \subseteq BOOLEAN
    /\ None \notin [files : SUBSET Files]

VARIABLES
    now,        \* the clock
    log,        \* rows of discussion_log: [kind, session, at, files]
    summaries,  \* session_summaries: session -> [rows, l2], or None
    links,      \* rows of links: <<commit, session>>
    tentative,  \* commit -> tentative_link events nobody consumed
    faults,     \* faults so far
    pc,         \* where each runner is
    job         \* what it read: see NoJob

tables == <<log, summaries, links, tentative>>
vars == <<now, tables, faults, pc, job>>

AllSessions == Sessions \cup {Unknown}

NoJob ==
    [ai |-> FALSE,              \* has the run a summarizer?
     tries |-> 0,               \* attempts made
     anchors |-> {},            \* sessions found: [session, first, last]
     orphans |-> <<>>,          \* rows without a session, oldest first
     merged |-> {},             \* rows bound in this run: <<session, row>>
     todo |-> {},               \* sessions still to visit; in Reconcile <<session, l2>>
     at |-> None,               \* the session it is at
     found |-> [rows |-> {}, l2 |-> None],  \* the review it will write
     soft |-> <<>>,             \* commits that may belong to the session
     linking |-> {}]            \* those of this session still to store

Latest(rows) == IF rows = <<>> THEN 1 ELSE rows[Len(rows)].at

Init ==
    /\ log \in Histories /\ now = Latest(log) /\ summaries = [s \in AllSessions |-> None]
    /\ links = {} /\ tentative = [c \in Commits |-> 0] /\ faults = 0
    /\ pc = [r \in Runners |-> "idle"] /\ job = [r \in Runners |-> NoJob]

-----------------------------------------------------------------------------
(* The agents and the user.                                                *)

(* A row is logged: a prompt, a tool call that touched files, or an MCP    *)
(* call, which knows no session.                                           *)
Post ==
    /\ Len(log) < MaxRows
    /\ \E t \in now .. MaxInstant, p \in Posts :
         /\ now' = t
         /\ log' = Append(log, [kind |-> p.kind, session |-> p.session, at |-> t, files |-> p.files])
    /\ UNCHANGED <<summaries, links, tentative, faults, pc, job>>

(* MarkEventsConsumed: an agent has read its briefing. *)
Consume ==
    /\ \E c \in Commits : tentative[c] > 0
    /\ tentative' = [c \in Commits |-> 0]
    /\ UNCHANGED <<now, log, summaries, links, faults, pc, job>>

(* DeleteLink. *)
Unlink(l) ==
    /\ l \in links /\ faults < MaxFaults
    /\ links' = links \ {l} /\ faults' = faults + 1
    /\ UNCHANGED <<now, log, summaries, tentative, pc, job>>

-----------------------------------------------------------------------------
(* Run: the review.                                                        *)

RowsOf(s) == {k \in DOMAIN log : log[k].session = s}

Times(s) == {log[k].at : k \in RowsOf(s)}

(* RecentAgentActivityFor: only sessions the user spoke in. *)
Anchors ==
    {[session |-> s, first |-> Min(Times(s)), last |-> Max(Times(s))] :
        s \in {s \in AllSessions : \E k \in RowsOf(s) : log[k].kind = "user"}}

(* The queries order the sessions; which comes first does not matter. *)
Choose(S) == CHOOSE x \in S : TRUE

Goto(r, place, j) ==
    /\ pc' = [pc EXCEPT ![r] = place]
    /\ job' = [job EXCEPT ![r] = j]

(* What follows a part: the daemon reconciles, the command line is done. *)
NextPart(r) == IF r \in Daemons THEN "reconcile" ELSE "gone"

(* Mutant: a run that fails is not repeated and the daemon ends. *)
FailForGood(r, place) ==
    /\ faults < MaxFaults /\ faults' = faults + 1
    /\ Goto(r, "gone", NoJob)

(* retryPipelineBusy: the daemon runs the whole part again when the        *)
(* database is busy; after another error, or the last attempt, it goes on. *)
Fail(r, place) ==
    /\ faults < MaxFaults /\ faults' = faults + 1
    /\ \/ /\ r \in Daemons /\ job[r].tries + 1 < Attempts
          /\ Goto(r, place, [NoJob EXCEPT !.ai = job[r].ai, !.tries = job[r].tries + 1])
       \/ Goto(r, IF place = "scan" THEN NextPart(r)
                  ELSE IF r \in Daemons THEN "idle" ELSE "gone", NoJob)

(* A tick of the daemon, or "aipmc review". *)
StartReview(r) ==
    /\ pc[r] = "idle" /\ (r \in Daemons \/ "review" \in Parts)
    /\ \E ai \in Models : Goto(r, "scan", [NoJob EXCEPT !.ai = ai])
    /\ UNCHANGED <<now, tables, faults>>

Scan(r) ==
    /\ pc[r] = "scan"
    /\ \/ Goto(r, "orphans", [job[r] EXCEPT !.anchors = Anchors]) /\ UNCHANGED faults
       \/ Fail(r, "scan")
    /\ UNCHANGED <<now, tables>>

(* ListOrphanMCPRowsFor, a query of its own. *)
ListOrphans(r) ==
    /\ pc[r] = "orphans"
    /\ \/ /\ LET rows == {k \in DOMAIN log : log[k].kind = "mcp" /\ log[k].session = Unknown}
             IN  Goto(r, "merge", [job[r] EXCEPT !.orphans = SetToSortSeq(rows, <),
                                                 !.todo = {a.session : a \in job[r].anchors}])
          /\ UNCHANGED faults
       \/ Fail(r, "scan")
    /\ UNCHANGED <<now, tables>>

(* intervalDistance *)
Distance(a, t) == IF t < a.first THEN a.first - t ELSE IF t > a.last THEN t - a.last ELSE 0

(* Mutant: the nearest session is taken, however far. *)
NearAnyhow(anchors, t) == anchors

(* bestSessionMatch: the nearest session, the shorter one on a tie. *)
Near(anchors, t) == {a \in anchors : Distance(a, t) <= Window}

Better(a, b, t) ==
    \/ Distance(a, t) < Distance(b, t)
    \/ Distance(a, t) = Distance(b, t) /\ a.last - a.first < b.last - b.first

Best(anchors, t) ==
    {a \in Near(anchors, t) : \A b \in Near(anchors, t) : ~Better(b, a, t)}

(* Mutant: the row is rebound although it has a session. *)
BindAnyway(k, s) == log' = [log EXCEPT ![k].session = s]

(* UpdateDiscussionSessionIDFor. *)
Bind(k, s) == log' = IF log[k].session = Unknown THEN [log EXCEPT ![k].session = s] ELSE log

(* MergeOrphans: the outcome of the update is ignored. *)
Merge(r) ==
    LET j == job[r]
        k == Head(j.orphans)
        rest == [j EXCEPT !.orphans = Tail(j.orphans)]
    IN  /\ pc[r] = "merge" /\ j.orphans # <<>>
        /\ IF Best(j.anchors, log[k].at) = {}
           THEN Goto(r, "merge", rest) /\ UNCHANGED <<log, faults>>
           ELSE \E a \in Best(j.anchors, log[k].at) :
                  /\ Goto(r, "merge", [rest EXCEPT !.merged = @ \cup {<<a.session, k>>}])
                  /\ \/ Bind(k, a.session) /\ UNCHANGED faults
                     \/ faults < MaxFaults /\ faults' = faults + 1 /\ UNCHANGED log
        /\ UNCHANGED <<now, summaries, links, tentative>>

(* CombineMessages: the session's rows and the rows merged into it; the    *)
(* latter were rebound before the session was read, and come twice.        *)
Combined(r, s) == RowsOf(s) \cup {k \in DOMAIN log : <<s, k>> \in job[r].merged}

(* The files the language model names in its summary, if it answers. *)
Summarised(r, s) ==
    IF ~job[r].ai THEN {None}
    ELSE IF summaries[s] # None /\ summaries[s].l2 # None THEN {summaries[s].l2}
    ELSE {None} \cup [files : Named]

(* The session is read and summarised; the summary of an earlier run is    *)
(* looked up before the language model is asked.  A session that cannot be *)
(* read is passed over.                                                    *)
Review(r) ==
    /\ pc[r] = "merge" /\ job[r].orphans = <<>> /\ job[r].todo # {}
    /\ LET s == Choose(job[r].todo)
       IN  \/ /\ \E l2 \in Summarised(r, s) :
                   Goto(r, "upsert", [job[r] EXCEPT !.at = s, !.found = [rows |-> Combined(r, s), l2 |-> l2]])
              /\ UNCHANGED faults
           \/ /\ faults < MaxFaults /\ faults' = faults + 1
              /\ Goto(r, "merge", [job[r] EXCEPT !.todo = @ \ {s}])
    /\ UNCHANGED <<now, tables>>

(* The loop over the sessions is done. *)
EndReview(r) ==
    /\ pc[r] = "merge" /\ job[r].orphans = <<>> /\ job[r].todo = {}
    /\ Goto(r, NextPart(r), NoJob)
    /\ UNCHANGED <<now, tables, faults>>

(* UpsertSessionSummaryFor. *)
Upsert(r) ==
    /\ pc[r] = "upsert"
    /\ \/ /\ summaries' = [summaries EXCEPT ![job[r].at] = job[r].found]
          /\ Goto(r, "merge", [job[r] EXCEPT !.todo = @ \ {job[r].at}, !.at = None,
                                              !.found = NoJob.found])
          /\ UNCHANGED faults
       \/ Fail(r, "scan") /\ UNCHANGED summaries
    /\ UNCHANGED <<now, log, links, tentative>>

-----------------------------------------------------------------------------
(* Reconcile: sessions and commits.                                        *)

(* "aipmc reconcile". *)
StartReconcile(r) ==
    /\ pc[r] = "idle" /\ r \notin Daemons /\ "reconcile" \in Parts
    /\ Goto(r, "reconcile", NoJob)
    /\ UNCHANGED <<now, tables, faults>>

L2Of(s) == IF summaries[s].l2 = None THEN {} ELSE summaries[s].l2.files

(* ListSessionSummariesSinceFor; an error ends the attempt. *)
ListSummaries(r) ==
    /\ pc[r] = "reconcile"
    /\ \/ /\ Goto(r, "sessions",
                  [job[r] EXCEPT !.todo = {<<s, L2Of(s)>> : s \in {s \in AllSessions : summaries[s] # None}}])
          /\ UNCHANGED faults
       \/ Fail(r, "reconcile")
    /\ UNCHANGED <<now, tables>>

(* classifyFiles. *)
Touched(s) == UNION {log[k].files : k \in RowsOf(s)}

Hard(s) == {c \in Commits : Cardinality(FilesOf[c] \cap Touched(s)) >= 2}

Soft(s, l2) ==
    {c \in Commits : /\ Cardinality(FilesOf[c] \cap Touched(s)) = 1
                     /\ Cardinality(FilesOf[c] \cap l2) >= 2}

(* The session's files against the files of every commit; a session whose  *)
(* messages or whose commits cannot be read is passed over.                *)
Match(r) ==
    /\ pc[r] = "sessions"
    /\ job[r].todo # {} /\ job[r].soft = <<>> /\ job[r].linking = {}
    /\ LET w == Choose(job[r].todo)
       IN  \/ /\ Goto(r, "sessions",
                      [job[r] EXCEPT !.todo = @ \ {w}, !.soft = SetToSeq(Soft(w[1], w[2])),
                                     !.linking = Hard(w[1]) \X {w[1]}])
              /\ UNCHANGED faults
           \/ /\ faults < MaxFaults /\ faults' = faults + 1
              /\ Goto(r, "sessions", [job[r] EXCEPT !.todo = @ \ {w}])
    /\ UNCHANGED <<now, tables>>

(* Mutant: an open event does not stop the next. *)
CheckNothing(r) ==
    /\ pc[r] = "sessions" /\ job[r].soft # <<>>
    /\ Goto(r, "create", job[r])
    /\ UNCHANGED <<now, tables, faults>>

(* createTentativeEvent: HasUnconsumedEventFor, then CreateEventFor.  When *)
(* the question fails the answer is no.                                    *)
CheckTentative(r) ==
    /\ pc[r] = "sessions" /\ job[r].soft # <<>>
    /\ \/ /\ tentative[Head(job[r].soft)] > 0
          /\ Goto(r, "sessions", [job[r] EXCEPT !.soft = Tail(@)])
          /\ UNCHANGED faults
       \/ /\ tentative[Head(job[r].soft)] = 0
          /\ Goto(r, "create", job[r])
          /\ UNCHANGED faults
       \/ /\ faults < MaxFaults /\ faults' = faults + 1
          /\ Goto(r, "create", job[r])
    /\ UNCHANGED <<now, tables>>

CreateTentative(r) ==
    /\ pc[r] = "create"
    /\ Goto(r, "sessions", [job[r] EXCEPT !.soft = Tail(@)])
    /\ \/ tentative' = [tentative EXCEPT ![Head(job[r].soft)] = @ + 1] /\ UNCHANGED faults
       \/ faults < MaxFaults /\ faults' = faults + 1 /\ UNCHANGED tentative
    /\ UNCHANGED <<now, log, summaries, links>>

(* CreateLink for each match of the session; errors are logged. *)
Link(r) ==
    /\ pc[r] = "sessions" /\ job[r].soft = <<>> /\ job[r].linking # {}
    /\ \E l \in job[r].linking :
         /\ Goto(r, "sessions", [job[r] EXCEPT !.linking = @ \ {l}])
         /\ \/ links' = links \cup {l} /\ UNCHANGED faults
            \/ faults < MaxFaults /\ faults' = faults + 1 /\ UNCHANGED links
    /\ UNCHANGED <<now, log, summaries, tentative>>

(* The end of Reconcile; the edges it adds to the graph are left out. *)
EndReconcile(r) ==
    /\ pc[r] = "sessions" /\ job[r].todo = {} /\ job[r].soft = <<>> /\ job[r].linking = {}
    /\ Goto(r, IF r \in Daemons THEN "idle" ELSE "gone", NoJob)
    /\ UNCHANGED <<now, tables, faults>>

-----------------------------------------------------------------------------

Run(r) ==
    \/ StartReview(r) \/ Scan(r) \/ ListOrphans(r) \/ Merge(r)
    \/ Review(r) \/ Upsert(r) \/ EndReview(r)
    \/ StartReconcile(r) \/ ListSummaries(r) \/ Match(r) \/ CheckTentative(r)
    \/ CreateTentative(r) \/ Link(r) \/ EndReconcile(r)

Next ==
    \/ Post
    \/ Consume
    \/ \E l \in links : Unlink(l)
    \/ \E r \in Runners : Run(r)

(* The daemon's ticker never stops; a process that was started goes on. *)
Fairness == \A r \in Runners : WF_vars(Run(r))

Spec == Init /\ [][Next]_vars /\ Fairness

-----------------------------------------------------------------------------
(* Properties.                                                             *)

(* A row that has a session keeps it, whichever runners bind it at once.   *)
BoundForGood ==
    [][\A k \in DOMAIN log : log[k].session \in Sessions => log'[k].session = log[k].session]_log

(* An MCP row is bound to a session whose other rows reach within the      *)
(* window of it, however old the anchors were when it was bound.           *)
BoundWithinWindow ==
    \A k \in DOMAIN log :
        (log[k].kind = "mcp" /\ log[k].session \in Sessions) =>
            LET others == {log[j].at : j \in RowsOf(log[k].session) \ {k}}
            IN  Distance([first |-> Min(others), last |-> Max(others)], log[k].at) <= Window

(* Runners that check at once may each add an event, and one whose check   *)
(* fails; otherwise none adds one while an earlier one is open.            *)
TentativeBounded == \A c \in Commits : tentative[c] <= Cardinality(Runners) + faults

Spoken(s) == \E k \in RowsOf(s) : log[k].kind = "user"

Covers(s, k) == summaries[s] # None /\ k \in summaries[s].rows

(* Every row of a session the user spoke in gets into its review, and      *)
(* stays there: a review made from an older reading does not win.          *)
EveryRowReviewed ==
    \A k \in 1 .. MaxRows :
        (k \in DOMAIN log /\ log[k].session \in Sessions /\ Spoken(log[k].session))
          ~> [](k \in DOMAIN log /\ Covers(log[k].session, k))

(* A session that touched two files of a commit is linked with it, after   *)
(* whatever statements failed.                                             *)
EveryMatchLinked ==
    \A c \in Commits : \A s \in Sessions :
        (Spoken(s) /\ c \in Hard(s)) ~> (<<c, s>> \in links)

=============================================================================
