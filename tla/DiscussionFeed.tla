---------------------------- MODULE DiscussionFeed ----------------------------
(***************************************************************************)
(* An agent that follows the discussion of the others: processes store     *)
(* rows (src/store/discussion.go, of which DiscussionLog is the detailed   *)
(* model), the agent reads them through aipm_read_discussions              *)
(* (src/mcp/mcp.go, ReadDiscussions of src/store/discussion.go) with the   *)
(* cursor of its last read, and the proxy folds what it read twice before  *)
(* it forwards the conversation (DiscussionDedup).                         *)
(*                                                                         *)
(* A row has two times: the one its process captured before it waited for  *)
(* the lock (at, the column created_at) and the one its id was drawn with, *)
(* under the lock or when it was spooled.  The id is that second and a     *)
(* random suffix, so ids compare like numbers.                             *)
(***************************************************************************)
EXTENDS Integers, Sequences, FiniteSets, SequencesExt, DiscussionDedup

CONSTANTS
    MaxRows,        \* bound: rows the processes store
    MaxInstant,     \* bound: values of the one-second clock
    NumSuffix,      \* values of the random suffix (16^6 in the code)
    LastN,          \* rows one read returns (15 unless the agent asks for more)
    MaxResults,     \* bound: tool results in the conversation
    MayQuote        \* may a row's content hold a line that starts with an id?

ASSUME FeedAssumption ==
    /\ MaxRows \in Nat /\ MaxInstant \in Nat \ {0} /\ NumSuffix \in Nat \ {0}
    /\ LastN \in Nat \ {0} /\ MaxResults \in Nat /\ MayQuote \in BOOLEAN

VARIABLES
    now,        \* the clock
    waiting,    \* events captured and not stored yet: [at, long, quote]
    spool,      \* rows waiting in the spool file, ids drawn
    log,        \* rows of discussion_log in the order of their rowid
    codex,      \* does the agent wrap its tool results?
    cursor,     \* the id the agent passes to its next read, NoId at first
    known,      \* history: the ids reads returned to the agent
    history,    \* the tool results of the conversation
    sent        \* the results of the last request, as the model received them

stores == <<now, waiting, spool, log>>
agent == <<codex, cursor, known, history>>
feedVars == <<stores, agent, sent>>

FeedInit ==
    /\ now = 1 /\ waiting = <<>> /\ spool = <<>> /\ log = <<>>
    /\ codex \in BOOLEAN /\ cursor = NoId /\ known = {}
    /\ history = <<>> /\ sent = <<>>

Ids == {log[k].id : k \in DOMAIN log} \cup {spool[k].id : k \in DOMAIN spool}

Row(id) == CHOOSE r \in {log[k] : k \in DOMAIN log} : r.id = id

-----------------------------------------------------------------------------
(* The processes that store rows.                                          *)

Tick ==
    /\ now < MaxInstant
    /\ now' = now + 1
    /\ UNCHANGED <<waiting, spool, log, agent, sent>>

(* LogDiscussion captures the time, then waits for the lock. *)
Capture ==
    /\ Len(waiting) + Len(spool) + Len(log) < MaxRows
    /\ \E long \in BOOLEAN, quote \in {NoId} \cup (IF MayQuote THEN Ids ELSE {}) :
         waiting' = Append(waiting, [at |-> now, long |-> long, quote |-> quote])
    /\ UNCHANGED <<now, spool, log, agent, sent>>

(* u.Slug: the second and a suffix no other row drew. *)
FreshIds == {now * NumSuffix + x : x \in 0 .. NumSuffix - 1} \ Ids

Drawn(event, id) == [id |-> id, at |-> event.at, long |-> event.long, quote |-> event.quote]

(* logDiscussionOnce: the lock may go to any waiting process. *)
Store(k) ==
    /\ \E id \in FreshIds : log' = Append(log, Drawn(waiting[k], id))
    /\ waiting' = RemoveAt(waiting, k)
    /\ UNCHANGED <<now, spool, agent, sent>>

(* spoolDiscussionFallback: the database stayed busy. *)
Spool(k) ==
    /\ \E id \in FreshIds : spool' = Append(spool, Drawn(waiting[k], id))
    /\ waiting' = RemoveAt(waiting, k)
    /\ UNCHANGED <<now, log, agent, sent>>

(* flushDiscussionSpool: spooled rows keep the id and time they have. *)
Replay ==
    /\ spool # <<>>
    /\ log' = Append(log, Head(spool))
    /\ spool' = Tail(spool)
    /\ UNCHANGED <<now, waiting, agent, sent>>

-----------------------------------------------------------------------------
(* The agent reads.                                                        *)

(* FormatResults. *)
FormatRow(r, full) ==
    <<Line("head", r.id)>>
      \o (IF r.quote = NoId THEN <<>> ELSE <<Line("head", r.quote)>>)
      \o (IF r.long /\ ~full THEN <<Line("preview", r.id), Line("cut", r.id)>>
                             ELSE <<Line("whole", r.id)>>)

FormatResults(rows, full) ==
    <<Header, Blank>>
      \o FoldLeft(LAMBDA lines, r : lines \o FormatRow(r, full) \o <<Blank>>, <<>>, rows)
      \o <<Blank>>

(* Only the bytes of a text codex wrapped may be missed. *)
Exactness == IF codex THEN BOOLEAN ELSE {TRUE}

Result(lines, exact) == [lines |-> lines, wrapped |-> codex, exact |-> exact]

(* ReadDiscussions: the newest LastN rows behind the cursor, oldest first. *)
Older(j, k) == log[j].at < log[k].at \/ (log[j].at = log[k].at /\ j < k)

InOrder(places) ==
    CHOOSE order \in [1 .. Cardinality(places) -> places] :
        \A i, j \in DOMAIN order : i < j => Older(order[i], order[j])

ReadDiscussions(after) ==
    LET found == InOrder({k \in DOMAIN log : log[k].id > after})
        first == IF Len(found) > LastN THEN Len(found) - LastN + 1 ELSE 1
    IN  [k \in 1 .. Len(found) - first + 1 |-> log[found[first + k - 1]]]

(* handleReadDiscussions without an id: behind the cursor, or the latest   *)
(* rows when the agent passes none.  CursorFromResults is the last row.    *)
Read(after) ==
    /\ Len(history) < MaxResults
    /\ LET rows == ReadDiscussions(after)
       IN  /\ rows # <<>>
           /\ \E full \in BOOLEAN, exact \in Exactness :
                history' = Append(history, Result(FormatResults(rows, full), exact))
           /\ cursor' = Last(rows).id
           /\ known' = known \cup {rows[k].id : k \in DOMAIN rows}
    /\ UNCHANGED <<codex, stores, sent>>

(* With an id: one row, in full, as the cut line of a preview suggests. *)
ReadOne ==
    /\ Len(history) < MaxResults
    /\ \E id \in known, exact \in Exactness :
         history' = Append(history, Result(FormatResults(<<Row(id)>>, TRUE), exact))
    /\ UNCHANGED <<codex, cursor, known, stores, sent>>

(* The output of another tool that shows the same row, sqlite3 say. *)
QueryDatabase ==
    /\ Len(history) < MaxResults
    /\ \E k \in DOMAIN log :
         history' = Append(history, Result(FormatRow(log[k], TRUE), TRUE))
    /\ UNCHANGED <<codex, cursor, known, stores, sent>>

(* The agent sends its whole conversation with every request. *)
Forward ==
    /\ history # <<>>
    /\ sent' = DedupeRequestBody(history)
    /\ UNCHANGED <<stores, agent>>

FeedNext ==
    \/ Tick \/ Capture \/ Replay
    \/ \E k \in DOMAIN waiting : Store(k) \/ Spool(k)
    \/ Read(cursor) \/ Read(NoId) \/ ReadOne \/ QueryDatabase \/ Forward

FeedSpec == FeedInit /\ [][FeedNext]_feedVars

-----------------------------------------------------------------------------
(* Properties.                                                             *)

HeadsOf(v, id) == {k \in DOMAIN v.lines : v.lines[k] = Line("head", id)}

Rewritable(v) == IsDiscussionResult(v) /\ (v.wrapped => v.exact)

(* The doc of DedupeDiscussionContent: an id heads at most one block of a  *)
(* request, whatever the agent read again, with a cursor or without (the   *)
(* results whose bytes the proxy cannot find are left out).                *)
OncePerRequest ==
    \A i, j \in DOMAIN sent : \A id \in Ids :
        (Rewritable(sent[i]) /\ Rewritable(sent[j])) =>
            \A k \in HeadsOf(sent[i], id), m \in HeadsOf(sent[j], id) : i = j /\ k = m

(* "Already shown above": each placeholder follows a block of its id.      *)
PlaceholderBacked ==
    \A i \in DOMAIN sent : \A k \in DOMAIN sent[i].lines :
        sent[i].lines[k].kind = "mark" =>
            \E j \in 1 .. i : \E m \in HeadsOf(sent[j], sent[i].lines[k].id) :
                IsDiscussionResult(sent[j]) /\ (j < i \/ m < k)

NotQuoted(id) == \A k \in DOMAIN log : log[k].quote # id

Shows(v, block) ==
    \E k \in 1 .. Len(v.lines) - Len(block) + 1 : SubSeq(v.lines, k, k + Len(block) - 1) = block

(* The first showing of a row is kept as it was read, when neither the row *)
(* nor another row quotes the first line of a block.                       *)
FirstKept ==
    \A i \in DOMAIN sent : \A id \in known : \A full \in BOOLEAN :
        LET block == FormatRow(Row(id), full)
        IN  (/\ IsDiscussionResult(history[i]) /\ Shows(history[i], block)
             /\ \A j \in 1 .. i - 1 :
                  IsDiscussionResult(history[j]) => HeadsOf(history[j], id) = {}
             /\ NotQuoted(id) /\ Row(id).quote = NoId)
            => Shows(sent[i], block)

(* The next request of the conversation starts with the bytes of the last  *)
(* one, so that the provider's prefix cache still holds.                   *)
PrefixKept == [][IsPrefix(sent, sent')]_sent

=============================================================================
