--------------------------- MODULE MCCommitLedger ---------------------------
(* Small instances of CommitLedger for TLC. *)
EXTENDS CommitLedger, TLC

CONSTANTS p1, p2, g1, g2, a1, a2, fix, feat, old, t1, t2, noTask, noHash, none

OneProcess == {p1}

TwoProcesses == {p1, p2}

OneCommit == {g1}

TwoCommits == {g1, g2}

Prefixes == [g \in GitCommits |-> IF g = g1 THEN a1 ELSE a2]

AllTitles == {fix, feat, old}

(* Two commits with subject lines of their own. *)
OwnTitles == [g \in GitCommits |-> IF g = g1 THEN fix ELSE feat]

(* The second commit is a merge: git lists no files for it. *)
SomeFiles == [g \in GitCommits |-> g = g1]

(* The last commit was written before and is rebased now. *)
OldAuthor == [g \in GitCommits |-> IF GitCommits = {g1} \/ g = g2 THEN -1 ELSE 0]

OneTask == {t1}

TwoTasks == {t1, t2}

NoRow == <<>>

(* An orphan from the time when agents could leave out the hash. *)
OrphanRow == <<[hash |-> noHash, title |-> old, files |-> TRUE, task |-> noTask, date |-> 0]>>

(* Rows from the time when agents could leave out the hash.  The second    *)
(* has no files and the title of the first commit.                         *)
OldRows == <<[hash |-> noHash, title |-> old, files |-> TRUE, task |-> noTask, date |-> 0],
             [hash |-> noHash, title |-> fix, files |-> FALSE, task |-> noTask, date |-> 0]>>

NoPatch == {}

Rebind == {[task |-> t] : t \in Tasks}

Sequential == {"hook", "record", "batch", "sync", "emerge"}

Events == {"hook", "record", "create", "update", "emerge", "link", "answer"}

Scanning == {"hook", "record", "sync"}
=============================================================================
