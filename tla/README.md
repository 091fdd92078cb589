# PlanAI (aipmc): a TLA+ model of its shared state and its proxy

`aipmc` keeps a project memory for several coding agents that work on one
repository: what they said, which tasks, plans and commits exist, and which of
them belong together. The memory is one SQLite database per project
(`.pmai/data/pmai.db`) and a few files beside it. It has no server of its own:
every agent hook, every MCP server, the HTTP server, the command line and the
daemon (`aipmc serve`) is an operating-system process that opens the database
and changes it, mostly with single SQL statements and without a transaction
around what belongs together. Beside the memory runs a proxy: it puts parts of
the memory into the agents' requests and translates the models' answers while
they stream. These are the places where the program is hard to get right, and
what these modules are about.

Sources are quoted as `store/store.go:683`, relative to `src/`.

## 1. Inventory

### Discussion capture (`store/discussion.go`) - modelled

* State: the table `discussion_log`; the row of `agent_status` per session; the
  spool file `discussion-spool.jsonl` with its temporary file; the lock file.
* Operations: `LogDiscussion` (flush the spool, take the lock, look for a
  repeated assistant message, insert, refresh the status; after three busy
  attempts append to the spool), `FlushDiscussionSpool`, `UpdateAgentStatus`.
* Interaction: called by every hook, by the proxy, by MCP tools and at the start
  of the daemon, in different processes. They meet in the lock file, which a
  waiter gives up after 300 tries, and in the spool, which is written outside it.
* Hard: a process killed by a hook timeout anywhere; a lock left behind; a
  busy database; replay after a crash; a stale snapshot of the spool; prompts
  out of order.
* Right when: no event becomes two rows; an acknowledged event is in the table
  or in the spool, and from the spool reaches the table; an assistant message is
  not repeated; a declared status is not overwritten by a prompt.

### Commit ledger (`store/store.go`, `hook/post-commit.go`, `session/gitsync.go`, `session/emerge.go`, `mcp/mcp.go`) - modelled in part

* State: the tables `commits`, `links` and `events`.
* Operations: the post-commit hook (`StoreGitCommit`, then `BackfillCommitTask`
  for a task it guesses), `record_commit` (lookup, `BackfillCommitTask` or
  `CreateCommit`), `record_commits` (one transaction), `update_commit`, the scan
  of `git log` every 30 minutes, the rule that flags orphans, `mark_consumed`
  and `mark_event_processed`.
* Interaction: hook and agent act on the same commit within the same second; the
  daemon works with a list of the table that is older than the table.
* Hard: lookup and write in separate statements; hashes that are prefixes of
  each other or empty; two databases; two connections; five events per run.
* Right when: a commit has one row per task and never one beside a row without a
  task; a recorded commit stays traceable; a binding is not overwritten; an
  orphan's event exists once and is processed when the orphan is bound; every
  commit is recorded and every orphan flagged in the end.

### Tasks, plans and notes (`store/store.go`, `mcp/mcp.go`, `api/entity.go`) - modelled in part

* State: the tables `tasks`, `task_notes` and `plans` (its list of tasks), and
  the event of a task whose files went stale.
* Operations: `CreateTask`, `UpdateTask` with its done gate (and the callers
  that skip it), `AppendTaskNote`, `DeleteTask`, the daemon's `staleFileTasks`.
* Interaction: the gate reads the commit ledger; MCP servers, the web page and
  the command line write the same rows.
* Hard: each operation reads a row, works on the copy and writes whole columns
  back some statements later.
* Right when: a done task has, or had, evidence or was closed past the gate on
  purpose; a write loses nothing unless it works on an old copy.

### Session pipeline (`session/`, `store/session.go`) - modelled in part

* State: `session_summaries`, the column `session_id` of `discussion_log`,
  `links` between commits and sessions, `tentative_link` events.
* Operations: review the sessions in the discussion log (first bind the rows MCP
  calls left without a session, then write review and summary), reconcile the
  sessions with commits (links, tentative events), both by the daemon's tick
  (`RunAuto`, with three attempts at a busy database) and by hand.
* Interaction: reads what hooks log, what the commit ledger holds; agents consume
  its events, users delete its links.
* Hard: a command line beside the daemon; decisions made on lists read earlier;
  a part that failed half way is run again from its start.
* Right when: a row is bound once, to a session it is near; every row is reviewed
  and every match linked in the end; open events do not pile up.

### Cursor hook caches (`hook/cursor/`) - modelled

* State: `cursor-edits.json`, `cursor-user-prompts.json`, a lock file for each.
* Operations: defer a garbled prompt and back it up from the transcript later;
  keep the hunks of an edit for the event that logs it; skip an edit logged
  before.
* Interaction: one process per event of the editor, all of them writers of
  `discussion_log`.
* Hard: the lock is given up after a second, a dead process leaves it for ever;
  row and cache are written apart; `LogDiscussion` reports success for a row that
  is only spooled, or dropped, or skipped as a repetition.
* Right when: a prompt is stored, and stored once; only an edit `LogDiscussion`
  took is skipped; no hook blocks its agent.

### Proxy, streamed answers (`proxy/proxy.go`, `unified.go`, `normalize.go`, `emit_*.go`) - modelled

* State: per answer the parser, the normaliser's buffers and the emitter's
  blocks, items and accumulators.
* Operations: parse a line of the upstream's stream, normalise (think tags, inline
  tool calls, reasoning buffer), emit to a Claude, Codex or Gemini client, end.
* Hard: events in any order, markup cut anywhere, interleaved fragments of calls,
  streams that end early and leave arguments cut off.
* Right when: the client reads a well-formed stream that carries all the text that
  can be told from markup and all the calls, once, no call with half its arguments.

### Proxy, discussion folding (`proxy/discussion_dedup.go`, `discussion/read.go`) - modelled

* State: none between requests; the conversation the agent sends, and the cursor
  it reads the discussion with.
* Operations: read rows after a cursor, or some row in full; fold blocks shown
  before out of a request.
* Hard: rows arrive in another order than their ids; the whole history is
  rewritten with every request.
* Right when: a row is shown once per request, what is folded was shown before,
  and a request begins with the bytes of the last one.

### Proxy, context injection (`proxy/context_inject.go`) - modelled

* State: `sessionCache` (5 minutes), `guidelinesCache` (10 minutes),
  `anchorCache` (per session, swept after 48 hours), `injectTracker` (per agent),
  the table `inject_log`.
* Operations: `InjectSessionContext` for every request, `buildContextBlock`.
* Interaction: reads summaries, events, tasks and feedback other processes write.
* Hard: concurrent requests share the caches, and read and store apart.
* Right when: the block keeps to 800 bytes, does not change within a session
  without need, and what was injected is recorded.

### Database layer (`db/db.go`) - modelled in part

* State: the schema of the file, its marker `PRAGMA user_version`, the shared
  connection each process keeps.
* Operations: open (read the marker, refuse a newer database, upgrade an older
  one), `SharedProject`, `aipmc init`.
* Interaction: every process opens the database and may be the one that upgrades
  it, several at the same time, from builds of different age.
* Hard: fifty statements without a transaction, each of which may fail or be the
  last one before the process is killed; the marker read before and written after.
* Right when: whoever is let in finds the schema of its build; a newer database is
  not taken for an older one; an upgrade that was interrupted is completed.

### The other parts

| part | state | why it is not modelled |
|---|---|---|
| MCP server (`mcp/`) | none of its own | the handlers that change the ledgers are modelled with them |
| agent hooks of Claude, Codex, Gemini, OpenCode (`hook/`) | none | parse a payload and call `LogDiscussion`, which is modelled |
| proxy: routing and models (`proxy/router.go`, `db/models.go`, ..) | model registry, current model | planned; what was found while reading is in section 5 |
| proxy: formats of requests and complete answers | none | field-by-field translation |
| HTTP API and web (`api/`, `web/`, `webdata/`) | none of its own | a layer over the same store calls |
| built-in agent, chat (`agent/`, `chatcli/`) | chat session files | planned: concurrent sends to one session |
| other ledger entities (`store/`) | bugs, decisions, ideas, threads, roadmaps | single statements that do not interact |
| analysis, AI clients, search, vision | none | read tables, call the network, write text |
| credentials (`db/credentials.go`) | an encrypted file | planned with the routing that reads it |
| evaluation, metrics, command line, setup, frontend | files written on demand | no state that interacts |

## 2. Modules

| module | what it is | extends or instantiates |
|---|---|---|
| `DiscussionLog` | the capture path | |
| `CommitLedger` | commits, links, orphan events | |
| `TaskLedger` | tasks, notes, plan lists, the done gate | |
| `SessionPipeline` | review, binding and reconciliation | |
| `CursorHooks` | the Cursor hook processes and their caches | |
| `StreamProtocol` | abstract: what a client may rely on while an answer streams | |
| `ResponseStream` | what handler and emitter of one answer share, and the client's view of it | |
| `UpstreamStream` | parser, normaliser and handler loop | `ResponseStream` |
| `ClaudeEmitter`, `CodexEmitter`, `GeminiEmitter` | the three emitters | `ResponseStream` |
| `ProxyStream` | one streamed answer: composition of the above | `UpstreamStream`; the emitters and `StreamProtocol` |
| `DiscussionDedup` | the folding of one request: operators | |
| `DiscussionFeed` | rows, reads with a cursor, requests folded | `DiscussionDedup` |
| `ContextInject` | caches, anchors, tracker and block of context injection | |
| `SchemaUpgrade` | opening and upgrading the database | |
| `MC...` | the sets the `.cfg` files use | the module each instantiates |
| `...Proofs` | theorems and proofs; `DiscussionFeedProofs` is about `SchemaUpgrade` too, in its last section | the module they are about; the library's theorem modules |

The modules of processes that share a database or files, and `ContextInject`,
whose goroutines share memory, have the same form: `pc[p]` says where a process
is, a few variables hold what it carries from one statement to the next (the
copy of a row, the snapshot of a table), and an action is the code between two
accesses to what is shared. Operations of the program are the sets of actions
named like them (`Record`, `Sync`, `Update`). A process may stop half way where
the module has an action for it (`Crash`, `Abort`, `Die`), and a statement may
fail. The stream modules and `DiscussionFeed` are about one conversation: their
actions are the handling of one event, one read or one request.

A definition whose comment begins with "Mutant:" is a wrong version of the one
that follows it. No specification uses it: it shows that a property would catch
that bug.

### `DiscussionLog`

| variables | code |
|---|---|
| `log`, `status` | tables `discussion_log`, `agent_status` |
| `spool`, `tmp` | `discussion-spool.jsonl`, `discussion-spool.jsonl.tmp`; a missing spool is the empty one |
| `lockFile` | the lock: nobody, a process, or a process that is dead |
| `call`, `pc`, `tries`, `todo`, `pend`, `res` | locals of `LogDiscussion`, `flushDiscussionSpool`, `UpdateAgentStatus` |
| `acks` | what callers were told |
| `nextEv`, `nextId`, `now`, `crashes` | names of events, ids, the one-second clock, a bound |

Left to choice: whether the database is busy at each open, insert and update;
whether the lookup of the last assistant message fails; whether a live lock
holder takes longer than the 300 tries of a waiter (`SlowHolders`). Abstracted:
ids and instants; the lines of one rewrite of the spool are one step; errors of
the file system other than a failed append are left out.

### `CommitLedger`

| variables | code |
|---|---|
| `repo` | the commits git has |
| `commits`, `links`, `events` | the tables; a row of `commits` is `[hash, title, files, task, date]` |
| `acked`, `binds` | what callers were told was recorded, and bound |
| `unfound`, `uncounted` | the commits a lookup of which failed, the rows whose events were miscounted |
| `today` | the day, which `created_at` and the rule for orphans are about |
| `job`, `found`, `seen`, `work`, `parsed`, `snap`, `count`, `pc` | locals of the operations |

A hash is the commit it names, in full or as the prefix an agent gives;
`Matches` is the `LIKE hash || '%'` of the lookups. A statement that fails does
what the code makes of it: the operation returns the error (`Abort`), the scan
takes the next commit (`SyncSkip`), or nobody looks at the error - of a lookup,
which then found no row, so that one is inserted (`LookupFails`, and "missed" in
`BatchItem`), of a count of events, which then is 0 (`EmergeFlag`), of a list, of a
mark, of the insert of an event. The rule for orphans sees the rows of `Listed`:
the newest of the last days, flagged ones included. A row of the scan has git's
author date. Abstracted: `LIMIT 1` is a fixed choice among the rows that match; a
batch has two items; the hook's heuristics choose any task or none; `git log`
reaches back for ever (30 days in the code); the commit an agent records carries
the title git has. Left out: review, test and status fields, the search index, a
second database.

### `TaskLedger`

| variables | code |
|---|---|
| `rows`, `used` | the table `tasks`, and the ids ever drawn |
| `taskIds` | `plans.task_ids_json` |
| `noteRows`, `changes` | `task_notes`: callers' notes, and "Status changed from .. to .." |
| `backs` | the task each verified commit is bound to |
| `events` | the `task_stale_file` event of each task |
| `backed`, `waived` | history: tasks that had a verified commit; that were created done or closed past the gate |
| `job`, `read`, `pc` | the caller's arguments and the copy it read |

`job.skip` is `allowWithoutCommit` and `job.append` is `appendNote`: MCP's
`update_task` sets both, `update_task_status` and the web page neither; on the
command line the caller chooses. `last_note` is the sequence of its pieces. Left out: title,
priority and phase, checkpoints, the search index; an error of
`MarkEventProcessed`, which the code logs and ignores.

### `ProxyStream` and its parts

| variables | code |
|---|---|
| `body`, `lines`, `chan`, `seenIndexes` | the upstream's body and `parseUpstreamSSE`; `chan` holds the events of one line |
| `reasoningBuf`, `hasContent`, `thinkBuf` | `StreamNormalizer` |
| `queue`, `closing`, `finish`, `crashed` | locals of `handleUnifiedStream`; a panic, or a loop without end |
| `started`, `next`, `thinkIdx`, `textIdx`, `calls`, `said` | the fields of the agent's emitter |
| `logged` | the reply the Codex emitter saves to `discussion_log` |
| `answer` | what the client has read: items, each open or closed, and how it ended |
| `heard`, `thought`, `asked`, `valve` | history: what the upstream sent |

An action of the upstream reads a line, hands an event on or closes the stream;
an action of the emitter sends one server-sent event. `answer` is the whole
state of `StreamProtocol`: `KeepsProtocol` states that `ProxyStream` implements
it, and the refinement mapping is the identity on `answer`. Abstracted: a text is
a sequence of tokens (words, and the markup the normaliser looks for), and a chunk
has several of them, but none ends inside of a tag: a tag that is cut in two counts
as arriving with its first byte when it opens a block (its `<` decides whether the
buffer is held back) and with its last when it closes one; sizes count tokens. The bytes of arguments are left out: `Objects` says which sequences of
fragments parse as an object, `Braced` which begin with `{`. Left out: usage
counters, headers, the JSON of each protocol, markup within reasoning. The runs
have one specification for the three emitters: the first step of a behaviour
chooses the agent.

### `DiscussionFeed` and `DiscussionDedup`

`log`, `spool` and `waiting` are an abstract `DiscussionLog`: rows that exist
somewhere between the moment their process took the time and the insert, and
that get their id and their place in the table in any order the code allows.
`cursor`, `history` and `sent` are the agent's cursor, the tool results of its
conversation and the same results as they reached the model. Every `Forward`
folds the whole history. Abstracted: a result is its lines, a line is its kind
and the row it belongs to. A content may quote the first line of another row's
block (`MayQuote`).

### `CursorHooks`

`prompts` and `edits` are the two JSON files, `lock` the two lock files, `mine`
the content a process will write back; a write first truncates (`Truncate`,
`Write`), so that others may read an empty file. `log` is what `LogDiscussion`
keeps, in the table or in its spool, and `visible` the prompts whose row is in the
table; `transcript` is Cursor's own file. A call of `LogDiscussion` inserts, spools,
loses the row and says so or not (a full spool; a flush of another process that
rewrites the spool counts as this too), or skips a repetition, and replays a part
of the spool first. A flush compares the prompts it scans (`Scans`) with the rows it
is given (`Lists`): the latest, or none when the read fails. `overrun` remembers that
a process died or entered a section without the lock, `misled` that a flush took
another prompt than the complete lists would have given, `rowless` the events that
were acknowledged without a row. The transcript is assumed to have a prompt before the later events of its
generation arrive, as `encoding.go:238` does. Left out: prompts of equal text,
file names that differ in case only.

### `SessionPipeline`

| variables | code |
|---|---|
| `log` | `discussion_log`: kind, session, time and files of a row |
| `summaries` | `session_summaries`: which rows a review was made from, and the files its summary names |
| `links`, `tentative` | links between commits and sessions; open `tentative_link` events |
| `pc`, `job` | locals of `Run`, `MergeOrphans`, `Reconcile`, and the attempt of `retryPipelineBusy` |

Left out: scores, knowledge, the edges of the graph; time windows of the queries
(every row is recent); what a language model writes, apart from the files it
names. The scan of git and the rule for orphan commits are in `CommitLedger`.

### `ContextInject`

| variables | code |
|---|---|
| `project` | what the database and `guidelines.md` hold at the moment |
| `sessionCache`, `guidelinesCache`, `anchorCache`, `anchorSweepSeq`, `injectTracker` | the package variables of these names |
| `injectLog` | the table `inject_log` |
| `pc`, `job` | the goroutine that handles a request, and its locals |
| `injected`, `unlogged`, `since`, `overlapped` | history, for the properties |

A fill of a cache happens under its write lock and is one step; the look before
it, under the read lock, is another. `BuildContextBlock` has the budgets and the
lengths in bytes of the code; a piece of text is its length. Left out: how paths
are found in a request and tasks by path, how events become lines, requests whose
body has no place for the block.

### `SchemaUpgrade`

| variables | code |
|---|---|
| `exists`, `have`, `version` | the file, the objects of its schema, `PRAGMA user_version` |
| `dups` | `links` has a link twice, so that its unique index cannot be made |
| `pc`, `op`, `left` | where a call is: `Open`, `SharedProject`, `Bootstrap`; the statements still to run |
| `conn`, `shared` | the connection it got, and the one kept in `sharedDBs`: checked, or let through because the marker could not be read |
| `seen` | history: the marker as it was read |

`Statements` has one statement of each kind the code has, in the code's order: a
table, an index that may not be makeable, a column whose duplicate is tolerated, a
backfill, a table and a column of `migrate`, whose duplicate is not. `Since` says
which build introduced which object; a build is taken to run the statements of the
objects it knows. Left out: rows written while the schema is upgraded.

## 3. Runs

| run | question | result | distinct states |
|---|---|---|---|
| `discussion_shared` | two hooks log and declare; one may die and leave the lock | holds | 1.4 M |
| `discussion_replay` | one process, three calls, two crashes, a spool of two entries: is everything acknowledged kept, and replayed? | holds, also under fairness | 0.25 M |
| `commits_alone` | hook, agent, batch and daemon, three calls, one operation at a time, on two days, with a fault: are there duplicates or rebound rows, and is every listed orphan flagged? | holds, also under fairness | 0.97 M |
| `commits_scan` | two processes record, or stop, while the daemon scans a table with rows of old times: does everything recorded stay so, and is every commit recorded in the end? | holds, also under fairness | 1.6 M |
| `commits_events` | two processes bind, rebind, flag, consume and resolve | holds | 2.5 M |
| `tasks_shared` | two processes create, close, reopen, annotate, flag and delete | holds | 0.8 M |
| `session_shared` | the daemon and the command line review and reconcile while rows arrive and statements fail | holds, also under fairness | 0.14 M |
| `hooks_shared` | two hook processes defer, flush, take and mark, give up on locks, spool, lose and repeat rows, fail and die | holds, also under fairness | 0.80 M |
| `answers` | one streamed answer to each kind of client: text, markup, reasoning and calls, alone and mixed | holds, also under fairness | 1.4 M |
| `feed_fold` | an agent follows the discussion while rows arrive out of order, and every request is folded | holds | 1.2 M |
| `inject_shared` | two handlers put context into three requests while the project changes | holds | 4.6 M |
| `schema_shared` | two processes of a new build and one of an old one open and initialise a database while statements fail and processes die | holds, also under fairness | 0.86 M |

What the properties say:

* `AtMostOneRow`: no event is in the table twice, whatever is replayed.
  `DeclarationKept`: no prompt replaces a status an agent declared.
  `DedupSeesLatest`: an assistant message is stored only if it differs from the
  latest one - as long as the lock works; a process that died with it makes
  everybody run unlocked, so the property is about runs without a crash.
* `NoAckedEventLost`: an event acknowledged to a caller is in the table or the
  spool. `SpooledIsReplayed`: what is in the spool reaches the table.
* `RecordedStays`, `NoDuplicate`, `BindKept`, `ResolvedWhenBound`,
  `OneEventPerCommit`, `EveryCommitRecorded`, `OrphanFlagged`: the "right when"
  of the commit ledger in section 1, stated of the table. `NoDuplicate` and
  `BindKept` are checked where operations do not overlap, because they do not
  hold otherwise. `NoDuplicate` leaves out the commits a lookup of which failed,
  `OneEventPerCommit` those whose count of events failed, and nothing else: other
  faults and operations that stop half way make no duplicate. `OrphanFlagged`
  promises the flag to the rows the rule lists. `ResolvedWhenBound` does not ask
  anything once an operation stopped half way or a mark failed: nothing repairs that.
* `DoneWasBacked`, `OnlyStaleWritesLose`: see `TaskLedger`. The second is an
  action property: it names, for every list, note and status, the writes that
  may lose something.
* `BoundForGood`, `BoundWithinWindow`: a row of an MCP call is bound once, to a
  session that reaches within the window of it. `TentativeBounded`: open events of
  a commit, at most one for each runner that looks at the same time and each
  lookup that fails. `EveryRowReviewed`, `EveryMatchLinked`: liveness.
* `PromptsBackfilled`, `PromptLoggedOnce`, `OnlyLoggedEditsSkipped`, `HooksEnd`:
  the "right when" of the Cursor caches. A prompt gets one row, in the table or in the
  spool, as long as no process died, the lock was respected and no flush was misled
  by a list of rows that lacks some; rows may be spooled, dropped or fail. An edit is
  skipped only when `LogDiscussion` took the same edit before: its row exists, or it
  reported success without one.
* `KeepsProtocol`: every answer is one `StreamProtocol` allows.
  `VisibleTextKept`: the client has read all the text outside of markup, once, and
  nothing of what stands inside, when every delta is `WellCut`: it begins with `<` if
  it leaves a block open, then closes none, and has markup of one kind.
  `SilentAnswerSpeaks`: an answer of reasoning only shows its
  reasoning, another one does not. `CallsAreWhole`: native tool calls arrive once
  and with all their arguments or none of them; with all when they are an object
  that begins with `{`, and for Codex always. `LoggedIsShown`: what Codex's emitter logs is what
  was shown. `AnswerCompletes`: every answer ends, but for two
  deltas the code does not get over (section 5).
* `OncePerRequest`, `PlaceholderBacked`, `FirstKept`, `PrefixKept`: no row is in a
  request twice; a placeholder follows what it stands for; the first showing stays
  as it was; the next request begins with the last one.
* `WithinCap`: no block exceeds 800 bytes. `AnchorStable`: a session shows one
  list of tasks in progress, unless its first requests overlap or it outlives the
  TTL of its entry. `InjectedIsLogged`: content an agent was sent is recorded, by
  the request itself or an earlier one.
* `OpenedIsUsable`: a connection that passed the check finds the whole schema of
  its build, now and as long as it is kept. `OnlyOverlapLowersMarker`: an older
  build lowers the marker only if it read it before the newer one was done, or in
  `aipmc init`, which does not read it. `UpgradeCompletes`: whoever failed or died
  before, a process of the newest build gets its connection in the end.

Bounds. Every bound is a CONSTANT named `Max...`.

* Ledgers: `MaxCalls` operations are started, and at most `MaxCrashes` of
  them stop half way, or `MaxFaults` of them stop or have a statement fail; the daemon's operations repeat without bound.
  Two processes suffice for every race between a read and a write of one row, and
  two calls beside the daemon for one to prepare the state that the other finds.
  Two commits with prefixes distinguish "this row" from "some row" for a scan and
  its list; one commit is enough where the property relates a row and its event, or
  the rows of one commit, as in `commits_alone`: there a third call is worth more than a
  second commit. A batch of one entry and
  a spool of two make a flush stop before the end of the spool, which 200 and 10000
  do not reach in practice. `MaxEmerge = 1` beside an orphan of old times puts
  a commit beyond the limit of a run. With `EmergeDays = 0` an author date before both
  days puts a row out of the list, as the second day does, and `MaxListed = 2` one
  that newer rows push out: without either limit in the property TLC finds it
  violated. Tasks: three operations are a create, an update that
  reads, and another one that writes in between.
* Sessions: two sessions and two commits that share a file, so that a match may be
  the wrong one; three rows; two instants with `Window = 0`, so that a row may be
  near or far; two attempts and one fault, so that a part fails once and is run
  again, or is given up when both attempts fail.
* Cursor: two processes, two prompts, three events, two faults: a death and a
  failed row, or a death of each of two processes; a section without the lock is
  not counted, as it follows from a lock that is held. `KeepFor = 0` and
  two instants let an edit expire between its events. `RecentLogged = 1` is less than
  the two prompts, so that a list may lack one; `RecentQueries = 2` is not, but a scan
  may stop at fewer.
* Answers: three lines, each of which may carry up to four tokens of text, or reasoning,
  text and a fragment of a call at once: enough for the fragments of two calls to
  interleave, and for a text to be cut before, within and behind a block. Buffers
  of two and three tokens, so that both overflow. Of the texts of a delta six are one token
  and eleven are mixed: a word or `<` before an opening tag, a word around a closing one, a
  whole block between words, two tags at once, markup of both kinds.
* Feed: two rows, of two instants and two suffixes, so that ids, times and places
  in the table take every order; three results, so that a row is read, read again
  and read in full. The limit of a read is not reached.
* Injection: three requests of two sessions on two handlers: two that overlap and
  one after them, or one that starts a sweep between two of the other session; one
  change of the project, one fault, two instants with age limits of 1 and 0.
* Schema: two processes of a new build, so that two upgrade at once, beside one of
  an old build; one fault, which is a statement that fails, an unreadable marker or
  a death; one `aipmc init`; a file that is missing, or of either build, with or
  without a marker and duplicate links.

Symmetry is used where only safety is checked. Deadlock is not checked where the
bounds let the system come to rest.

Fairness. `DiscussionLog!FairSpec`: a running process goes on (it is a program
without waits except the lock, which has a limit of tries); flushes are started
again and again, because every call and every start of the daemon begins with
one; and `BUSY` is not for ever, since a writer of SQLite finishes, so that an
insert that is tried again and again succeeds again and again (strong fairness,
because it is interrupted by busy attempts). `CommitLedger!FairSpec`: the
daemon goes on with the operation it runs, and, as it alternates between its
operations every 30 minutes, comes to each of them again (strong fairness, because
it is busy with the other one in between); nothing is asked of hooks and agents,
which may hang. `SessionPipeline!Fairness`: the ticker of the daemon
never stops, and a process that was started goes on. `CursorHooks!Fairness`: the
operating system runs every hook process. `ProxyStream!FairSpec`: the handler goes
on while it has events, and the body of the upstream ends.
`SchemaUpgrade!FairSpec`: a process that was started goes on, since a statement
returns after 15 seconds at the latest, and the database is opened again and
again, because every hook and every tool call does so.

## 4. Proofs

All theorems are of `Spec` (`FeedSpec` in `DiscussionFeed`), for every value of the constants that meets the
assumptions of the module: any number of processes, events, tasks, calls and
crashes.

| theorem | statement |
|---|---|
| `DiscussionLogProofs!TypeCorrect` | `Spec => []TypeOK` |
| `DiscussionLogProofs!OneRowPerEvent` | `Spec => []AtMostOneRow` |
| `DiscussionLogProofs!AloneLosesNothing` | with one process, `Spec => []NoAckedEventLost` |
| `DiscussionLogProofs!DeclarationIsKept` | `Spec => []DeclarationKept` |
| `DiscussionLogProofs!LatestIsSeen` | if nobody outlasts the lock and no lookup fails, `Spec => DedupSeesLatest` |
| `CommitLedgerProofs!TypeCorrect` | `Spec => []TypeOK` |
| `CommitLedgerProofs!SingleEvent` | with one daemon, `Spec => []OneEventPerCommit`: one event unless a count failed |
| `CommitLedgerProofs!BindingKept` | with one process, `Spec => []BindKept` |
| `CommitLedgerProofs!OrphansResolved` | without batches, `Spec => []ResolvedWhenBound` |
| `CommitLedgerProofs!RecordedForever` | if titles tell commits apart and no patch changes a hash, `Spec => []RecordedStays` |
| `CommitLedgerProofs!OneRowPerCommit` | the same, rows of old times apart, no blind `create` and one process: `Spec => []NoDuplicate`, of the commits no lookup of which failed |
| `TaskLedgerProofs!TypeCorrect` | `Spec => []TypeOK` |
| `TaskLedgerProofs!DoneBacked` | `Spec => []DoneWasBacked` |
| `TaskLedgerProofs!LossesAreStale` | `Spec => OnlyStaleWritesLose` |
| `ProxyStreamProofs!StreamInvariant` | `Spec => []StreamInv` |
| `ProxyStreamProofs!ProtocolKept` | `Spec => KeepsProtocol`: `ProxyStream` implements `StreamProtocol` |
| `ProxyStreamProofs!ReplyLogged` | `Spec => []LoggedIsShown` |
| `ProxyStreamProofs!SilenceBroken` | `Spec => []SilentAnswerSpeaks` |
| `ProxyStreamProofs!CallsArriveWhole` | `Spec => []CallsAreWhole` |
| `CursorHooksProofs!HooksInvariant` | `Spec => []HooksInv` |
| `CursorHooksProofs!SkippedAreLogged` | `Spec => []OnlyLoggedEditsSkipped` |
| `CursorHooksProofs!CountInvariant` | `Spec => []CountInv` |
| `CursorHooksProofs!LoggedOnce` | `Spec => []PromptLoggedOnce` |
| `CursorHooksProofs!Backfilled` | `Spec => []PromptsBackfilled` |
| `SessionPipelineProofs!PipelineInvariant` | `Spec => []PipelineInv` |
| `SessionPipelineProofs!BindingIsForGood` | `Spec => BoundForGood` |
| `SessionPipelineProofs!BoundNear` | `Spec => []BoundWithinWindow` |
| `SessionPipelineProofs!EventsDoNotPileUp` | `Spec => []TentativeBounded` |
| `ContextInjectProofs!InjectInvariant` | `Spec => []InjectInv` |
| `ContextInjectProofs!CapKept` | `Spec => []WithinCap` |
| `ContextInjectProofs!AnchorKept` | `Spec => []AnchorStable` |
| `ContextInjectProofs!InjectionsLogged` | `Spec => []InjectedIsLogged` |
| `DiscussionFeedProofs!FeedInvariant` | `FeedSpec => []FeedInv` |
| `DiscussionFeedProofs!RowsShownOnce` | `FeedSpec => []OncePerRequest` |
| `DiscussionFeedProofs!PlaceholdersBacked` | `FeedSpec => []PlaceholderBacked` |
| `DiscussionFeedProofs!FirstShowingKept` | `FeedSpec => []FirstKept` |
| `DiscussionFeedProofs!RequestsExtend` | `FeedSpec => PrefixKept` |
| `DiscussionFeedProofs!SchemaTypes` | of `SchemaUpgrade`: `Spec => []TypeOK` |
| `DiscussionFeedProofs!MarkerTruthful` | of `SchemaUpgrade`: `Spec => []MarkerIsTruthful` |
| `DiscussionFeedProofs!OpenedUsable` | of `SchemaUpgrade`: `Spec => []OpenedIsUsable` |
| `DiscussionFeedProofs!OverlapLowersMarker` | of `SchemaUpgrade`: `Spec => OnlyOverlapLowersMarker` |

* `OneRowPerEvent`. `AtMostOneRow` alone is not inductive: an entry about to be
  inserted may come from a snapshot, a temporary file or a caller. `OneEntryInv`
  is about all of these at once (`Known`): every event has one entry among them,
  its id is an old one, and a caller that has not stored its event yet holds the
  only copy. Every action either moves entries it knows (`Quiet`) or stores one
  new entry (`Store`), so the invariant is shown for these two kinds of steps.
* `AloneLosesNothing`. `DurableInv`: the spool is covered by the table and what
  the running flush still has in hand, and the temporary file holds exactly
  what is pending. The theorem assumes that one process exists. It is needed:
  with two of them TLC finds an acknowledged event that is lost (section 5).
* `DeclarationIsKept`. `DeclarationInv` adds the process between the statement
  that stored a declaration and the answer to its caller (`AboutToConfirm`): the
  row is explicit already then. `touchAgentStatus` leaves explicit rows alone in
  the statement itself, so the lock is not needed.
* `LatestIsSeen`. `DedupInv`: while nobody died, whoever is in the locked section owns
  the lock file (`Guarded`), so that the table stays as it was between the lookup
  and the insert (`Judged`). A holder that takes more than 1.5 s, or a death, lets
  others in: the theorem assumes the one away and the property the other.
* `CommitLedger`. `LedgerInv` is the types and, for every process, that the row it
  is about to write exists (`ProcFits`); rows are appended and changed, never
  removed, so what a process looked up stays good while others step. The five
  properties have an invariant each, about what a process holds between its
  statements, and each of them is shown for the actions that touch what it is
  about; a frame lemma settles the others.
  * `SingleEventInv`: a commit the daemon has seen without an event has none until
    it creates one, or is in `uncounted`, which only a count that failed puts it in.
    With two daemons both create one (section 5).
  * `BindInv`: a process about to bind has seen the row as it is: bound to nobody,
    or to be rebound by `update_commit`. With two processes the copy is stale.
  * `ResolvedInv`: when the event of a bound row is open, some process is at the
    statement that will close it. A batch binds rows without that statement and
    is left out: TLC finds the event it leaves open.
  * `RecordedInv`: a row's title never changes and its hash goes with its title,
    in the table as in the snapshots and matches a process still works with
    (`Steady`, `NamedRows`, `ProcNamed`). Two commits of one title, or a patch
    that gives a row another hash, take the only row of a commit away.
  * `OneRowInv`: a process about to insert a row has seen that there is none, by
    full hash, by prefix and by title; this needs that nobody else inserts
    meanwhile, and an insert that looks first, which the plain `create` does not. A process whose
    lookup failed inserts as well, a batch in the middle of its transaction: the
    commit is in `unfound` from then on, and nothing is claimed of it. All other
    faults keep the invariant, for they leave the table as it is.
* `DoneBacked`. `DoneInv` adds to the property what a process carries: a copy of
  a done task was made of one that was backed or waived, and an update behind
  the gate has a reason to write "done" (`GateAt`); and every bound commit is in
  the history (`BacksOK`). Reasons are never forgotten, so a process keeps its
  own while others step.
* `LossesAreStale` needs the type invariant and that only drawn ids have rows
  (`UsedOK`): then each of the four writes is looked at.
* `MarkerTruthful` and `OpenedUsable` need each other, and a third part (`Own`)
  about what a process is doing: the objects of its build that are not behind the
  statements still `left` are there, which makes the schema complete when nothing
  is left (`EveryObjectIsMade`, `ScriptIsComplete`). `have` only grows, so that a
  process keeps what it knows while others step. A process that upgrades and was
  not sent by `init` has read a marker older than its build: when it lowers the
  marker, the marker has changed since. The theorems hold for every number of
  processes and builds and for every `Since`, of the seven statements of the
  module.
* `ProtocolKept`. A step of an emitter writes at the number it kept in `thinkIdx`,
  `textIdx` or the accumulator of a call. `StreamInv` says that these numbers are
  exactly the open items, each of its kind, and of different calls different
  (`next` is the number of items); then every write is a step of `StreamProtocol`,
  and at the end, with nothing announced, nothing is open. Parser and normaliser
  leave `answer` alone. They are folds over a text: that each yields sequences of
  tokens, and no more calls than a text has pairs, is shown by induction over the
  length, as a least counterexample in a set of numbers (`NatSetInduction`).
* `ReplyLogged`. `SaidInv`: `said` is the content of the one message item, or empty
  when there is none; `ClientText`, which joins the texts of all items, is that
  content (`OneText`). Only the deltas of the message item change either of them,
  both in one statement.
* `SilenceBroken`. `VoiceInv` has two halves, by whether a text was heard. Without
  one nothing that waits is a text and nothing is shown, until `finalize` puts the
  kept reasoning into the queue: from then on it is either the next event or all
  that is shown (`QuietInv`). The buffer holds the end of the reasoning that was
  taken (`ThoughtInv`): to cut it delta by delta is to cut the whole once
  (`KeptCapped`), unless a delta is longer than the buffer, which ends the handler.
  With a text, every text that waits or is shown is made of tokens of the upstream's
  texts (`SpeechInv`), and when the end is normalised the text was taken, so that the
  reasoning is not spoken. That an emitter appends to the shown text exactly the text
  event it consumes (`Voices`) is shown for each of the three.
* `CallsArriveWhole`. `WholeInv` balances, for every native call, the fragments the
  upstream sent (`asked`) against the accumulator of the emitter, the item the client
  has, and the one event that may still be on its way. At most one is (`LoneInv`): a
  chunk becomes a text, a reasoning and then one call. `ToldInv` is the balance: a
  call that no event is on its way for was handled whole (`Settled`), another one
  lacks exactly what its event carries (`Missing`). `CodexEmitter` is the exception,
  for it writes two messages for the first fragment of a call: between the two the
  accumulator is ahead of the item (`HalfTold`). The invariant has the hypothesis of
  the property, that no text heard closes a call: then no text in the channel or
  the buffer does (`UnclosedInv`), and the normaliser finds no call to number from 0
  again (`ParsedCallsOf`). That each accumulator ends up as one item, after a failure
  too, needs of `ClaudeEmitter` and `GeminiEmitter` that `Done` goes through all it
  holds: the order in which `GeminiEmitter` writes its parts is a bijection to the
  calls held (`FlushedParts`). What the item of a call holds then is one of two
  things (`Delivered`): the accumulator or nothing, and not nothing when it is an
  object that begins with `{`.
* `SkippedAreLogged`. `SkipInv` follows the mark of an edit: it is in the cache, or
  in what a process is about to write there, or in hand between the row and the
  section that marks it. `Left`, of the steps an event has before it, says that a
  mark always comes after `LogDiscussion` reported success: after the row, or after
  the event became one of `rowless`. Rows in the table and in the spool stay.
* `LoggedOnce` and `Backfilled`. A flush does not log the text it was deferred for
  but the newest one that is not logged, so there is no invariant about one prompt:
  two of them may trade places. `CountInv` counts. While the lock is respected one
  process is inside a section (`Exclusive`), so there is one set of waiting prompts:
  the file, or what a process has truncated the file for (`Waiting`). Of the
  prompts in the transcript, no more wait than are unlogged, and as many when no
  row failed (`Balance`); a prompt beyond the transcript is with its own hook,
  waiting, or logged (`PromptAt`). Hence a flush that is not misled, which has an
  entry, finds a text to log that has no row, in the table or the spool. A row that
  is dropped takes its entry with it, so that fewer wait, not more. The bag counts two rows of one content as two, so the
  property says that no row is there twice. With a section outside the lock the
  balance breaks, and with it the property (section 5).
* `BoundNear` and `BindingIsForGood`. `BoundWithinWindow` is about the rows of a
  session as they are now, while a runner binds by the anchors it read long ago.
  `PipelineInv` says what survives of them: the two rows that gave an anchor its
  first and last instant still have its session (`Sound`), because every step
  keeps what a row has (`RowsKept`), and each bound row has such two rows
  (`WellBound`). That the rows in between and beyond only bring a session nearer
  (`WiderIsNearer`) needs the first not to come after the last. Nothing is needed
  about the list of orphans: the update looks at the row again.
* `EventsDoNotPileUp`. `EventsCounted` counts, with the open events of a commit, the
  runners between the question and the insert: one that was told "none" finds at
  most all runners beside it, one whose question failed is paid for by the fault,
  and the insert turns a runner into an event.
* `CapKept` is arithmetic over the four budgets: the lines a budget lets through
  fit in it, headings and line ends included (`LinesFit`, an induction over the
  fold), files and tasks stay below 733 bytes, guidelines get what is left, and
  the tip is added only where it fits.
* `AnchorKept` and `InjectionsLogged`. `AnchorInv` follows an anchor from the
  request that makes it to the cache: while a session lasts, either its only
  request has not come as far as its anchor, or every request past it shows the
  one that is stored; the sweep removes anchors of sessions that no longer last.
  `LogInv`: what the tracker holds as sent was recorded, could not be written, or
  is about to be written by the request that set the tracker.
* `DiscussionFeed`. The hard part is no step of the agent but what one `Forward`
  computes: a fold over the results of a request, each of whose steps folds the
  lines of a text. `FoldLeft` is defined by a recursive function on sets of
  positions; `FoldExists` and `FoldRuns` turn it into a run, a value for each
  position, for folds whose step stays within a type, and from there on a fold is
  treated like a behaviour, with an inductive invariant of its own.
  * In a text the invariant is `TextInv`: `Settled` says what is true of the lines that
    are written (their ids are new, each once, every placeholder has an id seen
    before or above it), `Reading` that the rest is one block that is still read.
    `Keeps` says that the first block of an id is written whole: trimming takes no
    line of it, for its last line is not empty.
  * In a request one step is summed up by `Folded`, which holds whether the result was
    left alone, replaced, or could not be replaced (`ValueFolds`). With it the known
    ids only grow and each heads a block that was sent (`BodyIds`), which gives
    `BodyOnce`, `BodyBacked` and `BodyKeeps`; and what is sent for the first results
    does not depend on the later ones (`BodyPrefix`).
  * `FeedInv` ties this to the steps: ids of rows are distinct, in the table and the
    spool; every text a read returned is made of blocks of rows of the log (`Blocks`),
    also when the log has grown since; and `sent` is a folded beginning of the
    conversation. That a read has an order to return rows in, by time and then by
    place, is shown too (`OrderExists`).

Model-checked only:

* `VisibleTextKept`: it compares what the client has read with a fold over the whole
  text, while the normaliser folds the buffers it was cut into. Its condition on the
  chunks, `WellCut`, is stated of any, and each part of it is needed: without one of
  them TLC finds a text of the run that leaks or is lost.
* Liveness (`SpooledIsReplayed`, `EveryCommitRecorded`, `OrphanFlagged`,
  `EveryRowReviewed`, `EveryMatchLinked`, `HooksEnd`, `AnswerCompletes`,
  `UpgradeCompletes`), which the proof system does not reach.

## 5. What the code does not do

No run is expected to fail. The following was found with the models, by stating
what a comment or a name promises and reading TLC's counterexample; the
properties above are stated so that they leave these cases out.

Discussion capture:

* The spool is read before the lock is taken and rewritten from that snapshot
  (`store/discussion.go:222`): an event that another process spooled in between,
  and that was acknowledged, is lost. Its limit is checked outside the lock too,
  so that several processes exceed it.
* The status of a session follows the order in which prompts reach the table, not
  the order in which they were typed.

Commit ledger:

* The fallback of the scan to the title writes one commit's hash over another's
  when their subject lines are equal, and completes an old row's hash although the
  same commit has a newer row.
* The hook and `record_commit` both look, both find nothing, and both insert; two
  bindings of one row both report success. `NoDuplicate` and `BindKept` are about
  operations that do not overlap.
* The error of a lookup is ignored (`store.go:896`, `:685`, `:785`, `mcp.go:1414`),
  and no row found means a new one: a commit that has a row gets another when the
  database is busy at that moment. In the same way a count of events that fails makes
  a second event (`store.go:3374`), and a list of links that fails makes one for a
  commit that has a link (`emerge.go:40`).
* The rule for orphans lists the newest 200 rows of the last seven days
  (`emerge.go:25`), bound and flagged ones included. A row of the scan, which
  reaches back 30 days, has git's author date: an old commit that is found late, or
  one that newer rows push out of the list, is never flagged.
* `record_commits` binds a row and leaves its event open. A commit that has a
  `task_id` but no link is flagged as an orphan.
* Read in the code: `MarkEventProcessed` opens the database of the working
  directory; `mark_consumed` consumes events nobody was shown.

Tasks: the note "Status changed" is written before the gate rejects the change; a
list of task ids written by the command line does not parse and is replaced.

Cursor hooks:

* `afterFileEdit` replaces the file's entry in the cache before it takes the hunks
  from it (`process.go:120`, `edit_cache.go:128`), so that no row ever has hunks
  (`process.go:174`). `HunksReachEdit` in `CursorHooks` states the contrary and is
  not checked.
* A process that waited a second for the lock runs its section all the same
  (`edit_cache.go:90`) and writes back what it read: entries that were flushed
  meanwhile are back, and one such section may repeat several prompts. After a
  death the lock file stays, and every later section runs that way.
* `LogDiscussion` reports no error when the row is only spooled, and the flush
  deletes the entry (`user_prompt_cache.go:180`). `RecentUserPrompts` reads the
  table only, returns 20 rows, and its error is ignored (`transcript.go:104`): until
  the spool is replayed, or after such an error, another flush logs the same text
  again, and it has two rows in the end. A row that is dropped on a full spool is lost
  with its entry.
* `afterFileEdit` marks the edit on the same terms (`process.go:198`): of an edit
  whose row was dropped, or skipped because it reads like the last row, there is no
  row and no second chance.

Session pipeline:

* Orphan rows are counted twice (`run.go:94`, `merge_mcp.go:115`). A run without a
  summarizer erases the summary another one wrote (`run.go:116`, against the
  comment at `:119`).
* Edges of the graph are made from matches whose `CreateLink` failed
  (`graph.go:87`). A link a user deleted comes back with the next reconcile. A
  panic in one project skips the projects after it in that tick.

Database layer:

* An older build lowers the marker when it read it before the newer one was done;
  `aipmc init` of an older build lowers it without a look.
* A table `links` with duplicates, from before the index, makes the unique index
  fail (`db.go:423`), and with it every open for good.
* A marker that cannot be read counts as up to date (`db.go:301`), and
  `SharedProject` keeps such a connection for the life of the process.
* `schemaStatements` creates `fts5_index` first, so that the branch of `migrate`
  that fills it (`db.go:517`) is never reached: an upgraded database starts with an
  empty search index. `INSERT OR REPLACE` into it never replaces, as it has no
  unique key.

Streamed answers:

* Think tags reach the client when the buffer overflows (`normalize.go:110`,
  against the comment at `:17`), and in a delta like "word<think>": behind
  anything but a `<` an open block is not held back (`normalize.go:106`). A delta
  that ends a block and leaves another one open is taken apart by its first kind of
  markup only (`normalize.go:75`).
* A thought after text leaves two blocks open for Claude (`emit_claude.go:77`). An
  empty stream ends with a `message_stop` that no `message_start` precedes.
* Inline tool calls are numbered from 0 again and collide with native ones
  (`normalize.go:84`). A delta of reasoning above 64 KiB panics
  (`normalize.go:43`). `stripThinkTags` does not end when a closing tag stands
  before the opening one (`normalize.go:208`): the text grows with each round
  (`TakeEndlessText`).
* Arguments that do not parse as an object, as they are when the stream fails in
  between, reach a Gemini client as none (`emit_gemini.go:93`); those that do not
  begin with `{`, a leading blank included, reach a Claude client as `{}`
  (`emit_claude.go:184`). Neither is an error, and the call is announced all the
  same.
* Read in the code: the arguments of an inline call are not escaped but for the
  quotes in values, so that others do not parse either.

Discussion feed: a cursor misses rows that reach the table later with a smaller
id; a row may be read twice; the limit of a read drops the older rows, behind the
cursor. A row read in full after its preview is folded to a placeholder
(`discussion_dedup.go:36`). A row that quotes another row's first line cuts a
block short; the footer after a folded block is dropped; texts of Codex with `<`,
`>` or `&` never match.

Context injection:

* The anchor of a session in use is swept 48 hours after its first request,
  because its time is never refreshed (`context_inject.go:903`). Two first requests
  that overlap show different anchors; an error stores an empty one for good.
* A request whose body has no place for the block is recorded all the same. A full
  high-priority part leaves 197 to 199 of the promised 200 bytes for guidelines. A
  query that fails hides events and feedback for 5 minutes, and consumed events
  are shown for as long.

Parts without a module, read in the code:

* Routing: the decision (a native route exists) and the route (the first one with
  a key) come from different reads of the registry, so that a native body may go
  to the URL of another protocol (`router.go`); `/v1/messages` decides with the
  model of the body and the handlers read the current model again
  (`anthropic_passthrough.go:25`); a missing route panics
  (`responses_passthrough.go:43`). The web page reloads the proxy without its token
  and is refused (`api/config.go:255`, `proxy.go:48`). Removing a provider leaves
  routes that make the next reload fail; removing a model leaves it current.
* Settings: the files of models, projects and configuration are read, changed and
  written without a lock, and one that does not parse is taken for an empty one
  and replaced (`models.go:329`, `db.go:1152`).
* Credentials: `set` and `delete` change the shared store under another profile's
  name; saving a session after `passwd` encrypts with the old password.
* Chat: the file of a session is read, run and saved as a whole: of two sends at
  once one loses its turn, and a send that fails loses the events it logged.

## 6. Not modelled, and plan

Routing, chat, the settings files and the credentials have state that several
actors share and deserve a module each. The rest of the parts without a module
(section 1) runs single statements that do not interact, translates formats,
writes text for people or for a language model, or draws a page: there is nothing
in it that a sequence of steps could break.

1. `ModelRouting`: registry, current model, reload and the requests in flight.
2. `ChatSession`: a session file that several sends read, run and save.
3. An abstract `Ledger` of atomic operations, which `CommitLedger` implements while
   operations do not overlap.
4. Proofs: `VisibleTextKept` of `ProxyStream`, for any chunks that are `WellCut`.
