---------------------------- MODULE DiscussionLog ----------------------------
(***************************************************************************)
(* The capture path of the project memory, src/store/discussion.go.        *)
(*                                                                         *)
(* Agent hooks, the MCP server and the serve daemon are separate operating *)
(* system processes.  Each calls LogDiscussion to store one conversation   *)
(* event in the SQLite table discussion_log.  A lock file serialises the   *)
(* writers; an event that still finds the database busy after three        *)
(* attempts is appended to a spool file, and every later call replays the  *)
(* spool before its own insert.  UpdateAgentStatus shares the lock and     *)
(* writes the row that tells other agents what a session is working on.    *)
(*                                                                         *)
(* One action stands for the code between two accesses to shared state     *)
(* (the lock file, the spool, its temporary file, the database), so that   *)
(* the processes interleave, and may die, wherever the code lets them.     *)
(***************************************************************************)
EXTENDS Integers, Sequences, FiniteSets, Functions

CONSTANTS
    Procs,          \* processes that run this code
    Messages,       \* events the callers log: [session, role, content]
    Declarations,   \* statuses agents declare: [session, text]
    Blank,          \* the empty session id some callers pass
    Unknown,        \* the session id "unknown"
    TrivialText,    \* prompts isSubstantiveStatusPrompt filters out
    MaxCalls,       \* bound: calls of the three operations that store something
    MaxCrashes,     \* bound: processes that die in the middle of a call
    MaxInstant,     \* bound: distinct values of the one-second clock
    MaxSpool,       \* maxSpoolEntries (10000 in the code)
    Batch,          \* entries one flush inserts (200 in the code)
    LogAttempts,    \* attempts of LogDiscussion (3 in the code)
    StatusAttempts, \* attempts of UpdateAgentStatus (15 in the code)
    SlowHolders,    \* may a live lock holder outlast a waiter's 300 tries?
    LookupMayFail,  \* may the query for the last assistant message fail?
    None,           \* no value
    Free,           \* the lock file does not exist
    Stale           \* it exists and the process that created it is dead

Role == {"user", "assistant", "tool"}

StoredSession(s) == IF s = Blank THEN Unknown ELSE s

Sessions == {StoredSession(m.session) : m \in Messages} \cup {d.session : d \in Declarations}

Texts == {m.content : m \in Messages} \cup {d.text : d \in Declarations}

ASSUME ConstantsAssumption ==
    /\ Procs # {} /\ {Free, Stale} \cap Procs = {} /\ Free # Stale
    /\ \A m \in Messages : DOMAIN m = {"session", "role", "content"} /\ m.role \in Role
    /\ \A d \in Declarations : DOMAIN d = {"session", "text"}
    /\ \A d \in Declarations : d.session \notin {Blank, Unknown}
    /\ None \notin [text : Texts, explicit : BOOLEAN]
    /\ MaxCalls \in Nat /\ MaxCrashes \in Nat /\ MaxInstant \in Nat \ {0}
    /\ MaxSpool \in Nat \ {0} /\ Batch \in Nat \ {0}
    /\ LogAttempts \in Nat \ {0} /\ StatusAttempts \in Nat \ {0}
    /\ SlowHolders \in BOOLEAN /\ LookupMayFail \in BOOLEAN

VARIABLES
    log,        \* rows of discussion_log; the primary key is the field id
    status,     \* agent_status: session -> [text, explicit], or None
    spool,      \* the lines of discussion-spool.jsonl; <<>> when it is missing
    tmp,        \* the lines of discussion-spool.jsonl.tmp, or None
    lockFile,   \* Free, Stale, or the live process whose release removes it
    pc,         \* where each process is
    call,       \* the call it serves, or None
    todo,       \* flush: snapshot entries not yet tried
    pend,       \* flush: entries to write back to the spool
    tries,      \* attempts made (log, status) or inserts done (flush)
    res,        \* the outcome of the locked section, to act on after release
    nextEv,     \* the number of the next call
    nextId,     \* the next row id u.Slug draws
    now,        \* the wall clock NowISO reads, in seconds
    crashes,    \* processes that died so far
    acks        \* history: the calls that returned, with what they reported

shared == <<log, status, spool, tmp>>
flushVars == <<todo, pend>>
bounds == <<nextEv, now, crashes>>
vars == <<log, status, spool, tmp, lockFile, pc, call, todo, pend, tries, res,
          nextEv, nextId, now, crashes, acks>>

Init ==
    /\ log = {} /\ status = [s \in Sessions |-> None]
    /\ spool = <<>> /\ tmp = None /\ lockFile = Free
    /\ pc = [p \in Procs |-> "idle"] /\ call = [p \in Procs |-> None]
    /\ todo = [p \in Procs |-> <<>>] /\ pend = [p \in Procs |-> <<>>]
    /\ tries = [p \in Procs |-> 0] /\ res = [p \in Procs |-> None]
    /\ nextEv = 1 /\ nextId = 1 /\ now = 1 /\ crashes = 0 /\ acks = {}

-----------------------------------------------------------------------------
(* Calls and returns.                                                      *)

Begin(p, c, start) ==
    /\ pc[p] = "idle"
    /\ call' = [call EXCEPT ![p] = c]
    /\ pc' = [pc EXCEPT ![p] = start]
    /\ UNCHANGED <<shared, lockFile, flushVars, tries, res, nextId, crashes, acks>>

(* LogDiscussion captures the event's time first; the clock may have moved *)
(* on by some seconds since the last call, or not at all.                  *)
BeginLog(p, m) ==
    /\ nextEv <= MaxCalls
    /\ \E t \in {now, now + 1} :
         /\ t <= MaxInstant
         /\ now' = t
         /\ Begin(p, [kind |-> "log", ev |-> nextEv, session |-> m.session,
                      role |-> m.role, content |-> m.content, at |-> t], "flushRead")
    /\ nextEv' = nextEv + 1

(* UpdateAgentStatus: an agent declares what it works on. *)
BeginDeclare(p, d) ==
    /\ nextEv <= MaxCalls
    /\ Begin(p, [kind |-> "declare", ev |-> nextEv, session |-> d.session,
                 text |-> d.text], "bodyLock")
    /\ nextEv' = nextEv + 1
    /\ UNCHANGED now

(* FlushDiscussionSpool, which the serve daemon calls when it starts. *)
BeginFlush(p) ==
    /\ Begin(p, [kind |-> "flush"], "flushRead")
    /\ UNCHANGED <<nextEv, now>>

(* The locals of a process that returns, or dies, are gone. *)
Reset(p) ==
    /\ pc' = [pc EXCEPT ![p] = "idle"]
    /\ call' = [call EXCEPT ![p] = None]
    /\ todo' = [todo EXCEPT ![p] = <<>>]
    /\ pend' = [pend EXCEPT ![p] = <<>>]
    /\ tries' = [tries EXCEPT ![p] = 0]
    /\ res' = [res EXCEPT ![p] = None]

Return(p, result) ==
    /\ Reset(p)
    /\ acks' = IF call[p].kind = "flush" THEN acks
               ELSE acks \cup {[call |-> call[p], result |-> result]}

-----------------------------------------------------------------------------
(* withDiscussionLogLock.                                                  *)

LockedPC == [flushLock |-> "flushOpen", bodyLock |-> "body"]

EnterLocked(p) ==
    /\ pc[p] \in DOMAIN LockedPC
    /\ pc' = [pc EXCEPT ![p] = LockedPC[pc[p]]]
    /\ UNCHANGED <<shared, call, flushVars, tries, res, bounds, nextId, acks>>

(* Mutant: the file is created without O_EXCL. *)
LockNotExclusive(p) ==
    /\ lockFile' = p
    /\ EnterLocked(p)

(* O_CREATE|O_EXCL succeeds when there is no lock file. *)
Lock(p) ==
    /\ lockFile = Free
    /\ lockFile' = p
    /\ EnterLocked(p)

(* After 300 tries, 5 ms apart, the caller goes on WITHOUT the lock.  A    *)
(* dead holder's file is never removed, so it makes every later caller     *)
(* time out; a live holder does so when it keeps the lock for 1.5 s.       *)
LockTimeout(p) ==
    /\ lockFile = Stale \/ (SlowHolders /\ lockFile \notin {Free, p})
    /\ EnterLocked(p)
    /\ UNCHANGED lockFile

(* Only the process whose O_EXCL succeeded removes the file. *)
Release(p) == lockFile' = IF lockFile = p THEN Free ELSE lockFile

-----------------------------------------------------------------------------
(* flushDiscussionSpool and rewriteDiscussionSpool.                        *)

HasRow(id) == \E r \in log : r.id = id

AfterFlush(p) ==
    IF call[p].kind = "log"
    THEN /\ pc' = [pc EXCEPT ![p] = "bodyLock"]
         /\ todo' = [todo EXCEPT ![p] = <<>>] /\ pend' = [pend EXCEPT ![p] = <<>>]
         /\ tries' = [tries EXCEPT ![p] = 0]
         /\ UNCHANGED <<call, res, acks>>
    ELSE Return(p, "flushed")

(* os.ReadFile(path): before the lock is taken. *)
FlushRead(p) ==
    /\ pc[p] = "flushRead"
    /\ IF spool = <<>>
       THEN AfterFlush(p)
       ELSE /\ todo' = [todo EXCEPT ![p] = spool]
            /\ pc' = [pc EXCEPT ![p] = "flushLock"]
            /\ UNCHANGED <<call, pend, tries, res, acks>>
    /\ UNCHANGED <<shared, lockFile, bounds, nextId>>

(* The database cannot be opened: every entry stays pending. *)
FlushOpenFails(p) ==
    /\ pc[p] = "flushOpen"
    /\ pend' = [pend EXCEPT ![p] = todo[p]]
    /\ todo' = [todo EXCEPT ![p] = <<>>]
    /\ pc' = [pc EXCEPT ![p] = "flushUnlock"]
    /\ UNCHANGED <<shared, lockFile, call, tries, res, bounds, nextId, acks>>

FlushOpen(p) ==
    /\ pc[p] = "flushOpen"
    /\ pc' = [pc EXCEPT ![p] = "flushInsert"]
    /\ UNCHANGED <<shared, lockFile, call, flushVars, tries, res, bounds, nextId, acks>>

FlushNext(p) ==
    /\ pc[p] = "flushInsert" /\ todo[p] # <<>> /\ tries[p] < Batch
    /\ tries' = [tries EXCEPT ![p] = @ + 1]
    /\ todo' = [todo EXCEPT ![p] = Tail(@)]
    /\ UNCHANGED <<status, spool, tmp, lockFile, pc, call, res, bounds, nextId, acks>>

(* Mutant: the replayed row draws a new id. *)
FlushInsertNewId(p) ==
    /\ pc[p] = "flushInsert" /\ todo[p] # <<>> /\ tries[p] < Batch
    /\ tries' = [tries EXCEPT ![p] = @ + 1]
    /\ todo' = [todo EXCEPT ![p] = Tail(@)]
    /\ log' = log \cup {[Head(todo[p]) EXCEPT !.id = nextId]}
    /\ nextId' = nextId + 1
    /\ UNCHANGED <<status, spool, tmp, lockFile, pc, call, pend, res, bounds, acks>>

FlushInsert(p) ==
    /\ FlushNext(p)
    /\ ~HasRow(Head(todo[p]).id)
    /\ log' = log \cup {Head(todo[p])}
    /\ UNCHANGED pend

(* A UNIQUE violation: the entry was replayed before. *)
FlushDuplicate(p) ==
    /\ FlushNext(p)
    /\ HasRow(Head(todo[p]).id)
    /\ UNCHANGED <<log, pend>>

(* An error that is neither BUSY nor UNIQUE keeps that one entry. *)
FlushInsertFails(p) ==
    /\ FlushNext(p)
    /\ pend' = [pend EXCEPT ![p] = Append(@, Head(todo[p]))]
    /\ UNCHANGED log

(* Mutant: stopping early forgets the entries not yet tried. *)
FlushStopForgets(p) ==
    /\ pc[p] = "flushInsert"
    /\ todo' = [todo EXCEPT ![p] = <<>>]
    /\ pc' = [pc EXCEPT ![p] = "flushUnlock"]
    /\ UNCHANGED <<shared, lockFile, call, pend, tries, res, bounds, nextId, acks>>

(* BUSY, the batch limit or the end of the list: keep the rest, leave. *)
FlushStop(p) ==
    /\ pc[p] = "flushInsert"
    /\ pend' = [pend EXCEPT ![p] = @ \o todo[p]]
    /\ todo' = [todo EXCEPT ![p] = <<>>]
    /\ pc' = [pc EXCEPT ![p] = "flushUnlock"]
    /\ UNCHANGED <<shared, lockFile, call, tries, res, bounds, nextId, acks>>

FlushUnlock(p) ==
    /\ pc[p] = "flushUnlock"
    /\ Release(p)
    /\ pc' = [pc EXCEPT ![p] = "rewrite"]
    /\ UNCHANGED <<shared, call, flushVars, tries, res, bounds, nextId, acks>>

(* The temporary file has one name for all processes. *)
RewriteTmp(p) ==
    /\ pc[p] = "rewrite"
    /\ tmp' = pend[p]
    /\ pc' = [pc EXCEPT ![p] = "replace"]
    /\ UNCHANGED <<log, status, spool, lockFile, call, flushVars, tries, res, bounds,
                   nextId, acks>>

(* os.Remove(path) when nothing is pending, else os.Rename(tmp, path),     *)
(* which fails when another process renamed the file first.  The error, if *)
(* any, is only logged.                                                    *)
ReplaceSpool(p) ==
    /\ pc[p] = "replace"
    /\ IF pend[p] = <<>>
       THEN spool' = <<>> /\ UNCHANGED tmp
       ELSE /\ spool' = IF tmp = None THEN spool ELSE tmp
            /\ tmp' = None
    /\ AfterFlush(p)
    /\ UNCHANGED <<log, status, lockFile, bounds, nextId>>

-----------------------------------------------------------------------------
(* logDiscussionOnce.                                                      *)

NewEntry(c, session) ==
    [id |-> nextId, ev |-> c.ev, session |-> session, role |-> c.role,
     content |-> c.content, at |-> c.at]

(* ORDER BY created_at DESC LIMIT 1: any of the rows that share the second. *)
LatestAssistant(session) ==
    LET said == {r \in log : r.session = session /\ r.role = "assistant"}
    IN  {r \in said : \A s \in said : s.at <= r.at}

Leave(p, outcome) ==
    /\ res' = [res EXCEPT ![p] = outcome]
    /\ pc' = [pc EXCEPT ![p] = "bodyUnlock"]
    /\ UNCHANGED <<spool, tmp, lockFile, call, flushVars, tries, bounds, acks>>

(* An assistant message that repeats the session's last one is skipped. *)
LookupDuplicate(p) ==
    /\ pc[p] = "body" /\ call[p].kind = "log" /\ call[p].role = "assistant"
    /\ \E r \in LatestAssistant(StoredSession(call[p].session)) :
         r.content = call[p].content
    /\ Leave(p, "skipped_duplicate")
    /\ UNCHANGED <<log, status, nextId>>

(* Any other role, a different last message, or a query that failed: its   *)
(* error is ignored and the empty string differs from every content.       *)
LookupFresh(p) ==
    /\ pc[p] = "body" /\ call[p].kind = "log"
    /\ LET last == LatestAssistant(StoredSession(call[p].session))
       IN  \/ call[p].role # "assistant"
           \/ last = {}
           \/ \E r \in last : r.content # call[p].content
           \/ LookupMayFail
    /\ pc' = [pc EXCEPT ![p] = "insert"]
    /\ UNCHANGED <<shared, lockFile, call, flushVars, tries, res, bounds, nextId, acks>>

TouchesStatus(c) ==
    /\ c.role = "user" /\ StoredSession(c.session) # Unknown
    /\ c.content \notin TrivialText

Insert(p) ==
    /\ pc[p] = "insert"
    /\ log' = log \cup {NewEntry(call[p], StoredSession(call[p].session))}
    /\ nextId' = nextId + 1
    /\ IF TouchesStatus(call[p])
       THEN /\ pc' = [pc EXCEPT ![p] = "touch"]
            /\ UNCHANGED <<spool, tmp, lockFile, call, flushVars, tries, res, bounds, acks>>
       ELSE Leave(p, "created")
    /\ UNCHANGED status

(* Mutant: the upsert lost its WHERE agent_status.explicit = 0. *)
TouchAutoAlways(p) ==
    /\ pc[p] = "touch"
    /\ status' = [status EXCEPT ![call[p].session] =
                     [text |-> call[p].content, explicit |-> FALSE]]
    /\ Leave(p, "created")
    /\ UNCHANGED <<log, nextId>>

(* touchAgentStatus(..., false): one upsert, which spares an explicit row. *)
TouchAuto(p) ==
    /\ pc[p] = "touch"
    /\ LET s == call[p].session
           declared == status[s] # None /\ status[s].explicit
       IN  status' = IF declared THEN status
                     ELSE [status EXCEPT ![s] = [text |-> call[p].content, explicit |-> FALSE]]
    /\ Leave(p, "created")
    /\ UNCHANGED <<log, nextId>>

(* Its error is ignored. *)
TouchFails(p) ==
    /\ pc[p] = "touch"
    /\ Leave(p, "created")
    /\ UNCHANGED <<log, status, nextId>>

(* touchAgentStatus(..., true). *)
TouchExplicit(p) ==
    /\ pc[p] = "body" /\ call[p].kind = "declare"
    /\ status' = [status EXCEPT ![call[p].session] = [text |-> call[p].text, explicit |-> TRUE]]
    /\ Leave(p, "declared")
    /\ UNCHANGED <<log, nextId>>

(* Opening the database or the statement itself: BUSY, or another error. *)
BodyFails(p) ==
    /\ pc[p] = "insert" \/ pc[p] = "body"
    /\ \E outcome \in {"busy", "failed"} : Leave(p, outcome)
    /\ UNCHANGED <<log, status, nextId>>

-----------------------------------------------------------------------------
(* The retry loops of LogDiscussion and UpdateAgentStatus, and the spool.  *)

Attempts(c) == IF c.kind = "log" THEN LogAttempts ELSE StatusAttempts

BodyUnlock(p) ==
    /\ pc[p] = "bodyUnlock"
    /\ Release(p)
    /\ IF res[p] # "busy"
       THEN Return(p, res[p])
       ELSE /\ res' = [res EXCEPT ![p] = None]
            /\ tries' = [tries EXCEPT ![p] = @ + 1]
            /\ IF tries[p] + 1 < Attempts(call[p])
               THEN /\ pc' = [pc EXCEPT ![p] = "bodyLock"]
                    /\ UNCHANGED <<call, flushVars, acks>>
               ELSE /\ pc' = [pc EXCEPT ![p] = IF call[p].kind = "log"
                                               THEN "spoolCount" ELSE "giveUp"]
                    /\ UNCHANGED <<call, flushVars, acks>>
    /\ UNCHANGED <<shared, bounds, nextId>>

(* UpdateAgentStatus returns the last BUSY error. *)
GiveUp(p) ==
    /\ pc[p] = "giveUp"
    /\ Return(p, "failed")
    /\ UNCHANGED <<shared, lockFile, bounds, nextId>>

(* countSpoolEntries, some time before the append and not under the lock. *)
SpoolCount(p) ==
    /\ pc[p] = "spoolCount"
    /\ IF Len(spool) >= MaxSpool
       THEN Return(p, "dropped")
       ELSE /\ pc' = [pc EXCEPT ![p] = "spoolAppend"]
            /\ UNCHANGED <<call, flushVars, tries, res, acks>>
    /\ UNCHANGED <<shared, lockFile, bounds, nextId>>

(* The entry keeps the session id as the caller gave it. *)
SpoolAppend(p) ==
    /\ pc[p] = "spoolAppend"
    /\ spool' = Append(spool, NewEntry(call[p], call[p].session))
    /\ nextId' = nextId + 1
    /\ Return(p, "spooled")
    /\ UNCHANGED <<log, status, tmp, lockFile, bounds>>

SpoolFails(p) ==
    /\ pc[p] = "spoolAppend"
    /\ Return(p, "failed")
    /\ UNCHANGED <<shared, lockFile, bounds, nextId>>

-----------------------------------------------------------------------------

(* A hook is killed by its timeout, a daemon stops: the files stay. *)
Crash(p) ==
    /\ pc[p] # "idle" /\ crashes < MaxCrashes
    /\ crashes' = crashes + 1
    /\ lockFile' = IF lockFile = p THEN Stale ELSE lockFile
    /\ Reset(p)
    /\ UNCHANGED <<shared, nextEv, nextId, now, acks>>

Flush(p) ==
    \/ FlushRead(p) \/ FlushOpenFails(p) \/ FlushOpen(p)
    \/ FlushInsert(p) \/ FlushDuplicate(p) \/ FlushInsertFails(p) \/ FlushStop(p)
    \/ FlushUnlock(p) \/ RewriteTmp(p) \/ ReplaceSpool(p)

Body(p) ==
    \/ LookupDuplicate(p) \/ LookupFresh(p) \/ Insert(p)
    \/ TouchAuto(p) \/ TouchFails(p) \/ TouchExplicit(p) \/ BodyFails(p)
    \/ BodyUnlock(p) \/ GiveUp(p)

Spooling(p) == SpoolCount(p) \/ SpoolAppend(p) \/ SpoolFails(p)

Step(p) == Lock(p) \/ LockTimeout(p) \/ Flush(p) \/ Body(p) \/ Spooling(p)

Next ==
    \E p \in Procs :
        \/ \E m \in Messages : BeginLog(p, m)
        \/ \E d \in Declarations : BeginDeclare(p, d)
        \/ BeginFlush(p)
        \/ Step(p)
        \/ Crash(p)

Spec == Init /\ [][Next]_vars

(* A running process goes on, daemons keep starting, and the database is   *)
(* not unavailable for ever: opens and inserts that are tried again and    *)
(* again succeed again and again.                                          *)
FairSpec ==
    /\ Spec
    /\ \A p \in Procs :
         /\ WF_vars(BeginFlush(p)) /\ WF_vars(Step(p))
         /\ SF_vars(FlushOpen(p)) /\ SF_vars(FlushInsert(p) \/ FlushDuplicate(p))

-----------------------------------------------------------------------------
(* Properties.                                                             *)

Entry == [id : Nat, ev : 1..MaxCalls, session : {m.session : m \in Messages} \cup Sessions,
          role : Role, content : Texts, at : 1..MaxInstant]

LogCall == [kind : {"log"}, ev : 1..MaxCalls, session : {m.session : m \in Messages},
            role : Role, content : Texts, at : 1..MaxInstant]

DeclareCall == [kind : {"declare"}, ev : 1..MaxCalls,
                session : {d.session : d \in Declarations}, text : Texts]

Results == {"created", "skipped_duplicate", "spooled", "dropped", "declared", "failed"}

FlushPCs == {"flushRead", "flushLock", "flushOpen", "flushInsert", "flushUnlock",
             "rewrite", "replace"}
LogPCs == {"insert", "touch", "spoolCount", "spoolAppend"}
BodyPCs == {"bodyLock", "body", "bodyUnlock"}

CallFits(p) ==
    /\ pc[p] = "idle" => call[p] = None
    /\ pc[p] \in FlushPCs => call[p] = [kind |-> "flush"] \/ call[p] \in LogCall
    /\ pc[p] \in LogPCs => call[p] \in LogCall
    /\ pc[p] = "giveUp" => call[p] \in DeclareCall
    /\ pc[p] \in BodyPCs => call[p] \in LogCall \cup DeclareCall

(* Every variable has the shape the code gives it, and a process serves    *)
(* the kind of call whose code it is in.                                   *)
TypeOK ==
    /\ log \subseteq Entry
    /\ status \in [Sessions -> [text : Texts, explicit : BOOLEAN] \cup {None}]
    /\ spool \in Seq(Entry)
    /\ tmp \in Seq(Entry) \cup {None}
    /\ lockFile \in Procs \cup {Free, Stale}
    /\ pc \in [Procs -> {"idle", "giveUp"} \cup FlushPCs \cup LogPCs \cup BodyPCs]
    /\ call \in [Procs -> LogCall \cup DeclareCall \cup {[kind |-> "flush"], None}]
    /\ \A p \in Procs : CallFits(p)
    /\ todo \in [Procs -> Seq(Entry)] /\ pend \in [Procs -> Seq(Entry)]
    /\ tries \in [Procs -> Nat]
    /\ res \in [Procs -> Results \cup {"busy", None}]
    /\ \A p \in Procs : pc[p] = "bodyUnlock" => res[p] \in Results \cup {"busy"}
    /\ nextEv \in 1..(MaxCalls + 1) /\ nextId \in Nat
    /\ now \in 1..MaxInstant /\ crashes \in 0..MaxCrashes
    /\ acks \subseteq [call : LogCall \cup DeclareCall, result : Results]

(* One logged event never becomes two rows, although its entry may be in   *)
(* the snapshots of several flushes, in the temporary file and in a spool  *)
(* that a late rename brought back, and although a process may die between *)
(* the insert and the rewrite (flushDiscussionSpool, "idempotent").        *)
AtMostOneRow == \A r, s \in log : r.ev = s.ev => r = s

(* An event a caller was told is created or spooled is in the table or in  *)
(* the spool, and one skipped as a duplicate repeats a stored row          *)
(* (LogDiscussion, "never silently lost").                                 *)
NoAckedEventLost ==
    \A a \in acks :
        /\ a.result \in {"created", "spooled"} =>
             \E e \in log \cup Range(spool) : e.ev = a.call.ev
        /\ a.result = "skipped_duplicate" =>
             \E r \in log : /\ r.session = StoredSession(a.call.session)
                             /\ r.role = "assistant" /\ r.content = a.call.content

(* While nobody outlasts the lock or dies with it, no assistant message is *)
(* stored that repeats what was the session's last one when its row is     *)
(* inserted: no other writer comes between the lookup and the insert.      *)
(* Replays of spooled entries are exempt; the code does not look them up.  *)
DedupSeesLatest ==
    [][\A r \in log' \ log :
          (crashes = 0 /\ r.role = "assistant" /\ \A p \in Procs : r \notin Range(todo[p])) =>
              LET last == LatestAssistant(r.session)
              IN  last = {} \/ \E s \in last : s.content # r.content]_log

(* An agent that was told its declaration is stored keeps an explicit      *)
(* status, whatever prompts other processes log (touchAgentStatus).        *)
DeclarationKept ==
    \A a \in acks : a.result = "declared" =>
        LET st == status[a.call.session] IN st # None /\ st.explicit

(* An event that was spooled is stored some day. *)
SpooledIsReplayed ==
    \A ev \in 1..MaxCalls :
        (\E a \in acks : a.result = "spooled" /\ a.call.ev = ev) ~> (\E r \in log : r.ev = ev)

=============================================================================
