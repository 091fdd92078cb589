----------------------------- MODULE SchemaUpgrade -----------------------------
(***************************************************************************)
(* How a project's database gets its schema, src/db/db.go.  There is no    *)
(* installer: every process that opens the database reads the marker       *)
(* PRAGMA user_version and, when the file is older than the program, runs  *)
(* the statements of its build one by one, without a transaction, and sets *)
(* the marker last.  Hooks, servers and the command line do so at the same *)
(* time, from builds of different age, and may die between two statements. *)
(***************************************************************************)
EXTENDS Integers, Sequences

CONSTANTS
    Procs,      \* processes
    BuildOf,    \* the SCHEMA_VERSION of the program each process runs
    Since,      \* the build that introduced each object of the schema
    MaxFaults,  \* bound: statements that fail (SQLITE_BUSY) and processes that die
    MaxInits    \* bound: runs of "aipmc init"

(* One object for each kind of statement: a table, a column, the rows that  *)
(* the backfill completes, an index.                                        *)
Objects == {"ideas", "links", "links.unique", "ideas.current_summary", "ideas.backfill",
            "discussion_log", "discussion_log.source"}

ASSUME SchemaAssumption ==
    /\ BuildOf \in [Procs -> Nat \ {0}]
    /\ Since \in [Objects -> Nat \ {0}]
    /\ MaxFaults \in Nat /\ MaxInits \in Nat

VARIABLES
    exists,  \* the file is there
    version, \* PRAGMA user_version
    have,    \* the objects the database has
    dups,    \* its table links holds a link twice, from before the unique index
    pc,      \* where each process is
    op,      \* its call: "open", "shared" or "init"
    left,    \* the statements of its build still to run
    conn,    \* its connection: "none", "checked", or "unchecked" when the marker was unreadable
    shared,  \* the one that SharedProject keeps as long as the process lives
    seen,    \* history: the marker as the process read it
    faults,  \* faults so far
    inits    \* runs of init so far

file == <<exists, version, have, dups>>
vars == <<file, pc, op, left, conn, shared, seen, faults, inits>>

(* What a program of build b works with. *)
Known(b) == {o \in Objects : Since[o] <= b}

Builds == {BuildOf[p] : p \in Procs}

-----------------------------------------------------------------------------
(* The statements, in their order.                                         *)
(*   makes    the object that is there afterwards                          *)
(*   brings   what a CREATE TABLE makes with it, in a build that has it    *)
(*   needs    what must be there                                           *)
(*   looks    it is preceded by a look at the schema and passed over if    *)
(*            the object is found                                          *)
(*   repeats  it succeeds, or its error is tolerated, if the object is     *)
(*            there after all                                              *)

Create(table, columns, looks) ==
    [makes |-> table, brings |-> columns, needs |-> {}, looks |-> looks, repeats |-> TRUE]

(* Mutant: a column is added without a look at the table. *)
BlindColumn(column, table, repeats) ==
    [makes |-> column, brings |-> {}, needs |-> {table}, looks |-> FALSE, repeats |-> repeats]

AddColumn(column, table, repeats) ==
    [makes |-> column, brings |-> {}, needs |-> {table}, looks |-> TRUE, repeats |-> repeats]

CreateIndex(index, table) ==
    [makes |-> index, brings |-> {}, needs |-> {table}, looks |-> FALSE, repeats |-> TRUE]

Backfill(rows, column) ==
    [makes |-> rows, brings |-> {}, needs |-> {column}, looks |-> FALSE, repeats |-> TRUE]

(* schemaStatements, then migrate: the migrations of its list tolerate a    *)
(* duplicate column, those of discussion_log do not.                        *)
Statements == <<
    Create("ideas", {"ideas.current_summary"}, FALSE),
    Create("links", {}, FALSE),
    CreateIndex("links.unique", "links"),
    AddColumn("ideas.current_summary", "ideas", TRUE),
    Backfill("ideas.backfill", "ideas.current_summary"),
    Create("discussion_log", {"discussion_log.source"}, TRUE),
    AddColumn("discussion_log.source", "discussion_log", FALSE) >>

Script(b) == {i \in DOMAIN Statements : Since[Statements[i].makes] <= b}

(* The statement a process has come to. *)
Current(p) == CHOOSE i \in left[p] : \A j \in left[p] : i <= j

(* A CREATE TABLE makes the table with the columns its build knows. *)
Effect(s, b) == {s.makes} \cup (s.brings \cap Known(b))

(* CREATE UNIQUE INDEX fails on a table that has duplicates. *)
Refuses(s) ==
    \/ /\ s.makes \in have
       /\ ~s.repeats
    \/ ~(s.needs \subseteq have)
    \/ /\ s.makes = "links.unique"
       /\ s.makes \notin have
       /\ dups

-----------------------------------------------------------------------------
(* A database file, or none; of an old build, with or without a marker, or *)
(* of a build some process runs.                                           *)
Init ==
    /\ \/ exists = FALSE /\ have = {} /\ version = 0 /\ dups = FALSE
       \/ \E b \in Builds :
            /\ exists = TRUE /\ have = Known(b) /\ version \in {0, b}
            /\ dups \in IF "links.unique" \in have THEN {FALSE} ELSE BOOLEAN
    /\ pc = [p \in Procs |-> "idle"] /\ op = [p \in Procs |-> "open"]
    /\ left = [p \in Procs |-> {}]
    /\ conn = [p \in Procs |-> "none"] /\ shared = [p \in Procs |-> "none"]
    /\ seen = [p \in Procs |-> 0] /\ faults = 0 /\ inits = 0

(* The call returns; what it carried is gone. *)
Return(p, where) ==
    /\ pc' = [pc EXCEPT ![p] = where]
    /\ op' = [op EXCEPT ![p] = "open"]
    /\ left' = [left EXCEPT ![p] = {}]
    /\ seen' = [seen EXCEPT ![p] = 0]

(* It ends with a connection, which Shared keeps, init closes, and a caller *)
(* of Open uses for a while.                                                *)
Answer(p, kind) ==
    /\ Return(p, IF op[p] = "open" THEN "use" ELSE "idle")
    /\ conn' = IF op[p] = "open" THEN [conn EXCEPT ![p] = kind] ELSE conn
    /\ shared' = IF op[p] = "shared" THEN [shared EXCEPT ![p] = kind] ELSE shared

GiveUp(p) == Return(p, "idle") /\ UNCHANGED <<conn, shared>>

(* The statements of the process's build are to be run. *)
Ensure(p) ==
    /\ pc' = [pc EXCEPT ![p] = "next"]
    /\ left' = [left EXCEPT ![p] = Script(BuildOf[p])]
    /\ UNCHANGED <<conn, shared>>

Fault == faults < MaxFaults /\ faults' = faults + 1
NoFault == UNCHANGED faults

Begin(p, call) ==
    /\ pc[p] = "idle"
    /\ op' = [op EXCEPT ![p] = call]

(* Open, OpenProject and the connection of the discussion log: the file has *)
(* to exist.                                                                *)
Open(p) ==
    /\ exists
    /\ Begin(p, "open")
    /\ pc' = [pc EXCEPT ![p] = "version"]
    /\ UNCHANGED <<file, left, conn, shared, seen, faults, inits>>

(* A process keeps its shared connection and does not look again. *)
SharedProject(p) ==
    /\ exists /\ shared[p] = "none"
    /\ Begin(p, "shared")
    /\ pc' = [pc EXCEPT ![p] = "version"]
    /\ UNCHANGED <<file, left, conn, shared, seen, faults, inits>>

(* Init runs the statements whatever the marker says. *)
Bootstrap(p) ==
    /\ inits < MaxInits /\ inits' = inits + 1
    /\ Begin(p, "init")
    /\ Ensure(p)
    /\ exists' = TRUE
    /\ UNCHANGED <<version, have, dups, seen, faults>>

ReadMarker(p) == seen' = [seen EXCEPT ![p] = version]

(* Mutant: a newer database is treated like an older one. *)
OtherVersion(p) ==
    \/ version = BuildOf[p] /\ Answer(p, "checked")
    \/ version # BuildOf[p] /\ ReadMarker(p) /\ Ensure(p) /\ UNCHANGED op

(* A newer database is refused, an older one is upgraded. *)
CompareVersion(p) ==
    \/ version > BuildOf[p] /\ GiveUp(p)
    \/ version = BuildOf[p] /\ Answer(p, "checked")
    \/ version < BuildOf[p] /\ ReadMarker(p) /\ Ensure(p) /\ UNCHANGED op

(* EnsureSchemaIfNeeded.  An unreadable marker counts as up to date. *)
ReadVersion(p) ==
    /\ pc[p] = "version"
    /\ \/ NoFault /\ CompareVersion(p)
       \/ Fault /\ Answer(p, "unchecked")
    /\ UNCHANGED <<file, inits>>

(* On to the next statement, or to the marker. *)
Pass(p) ==
    /\ left' = [left EXCEPT ![p] = @ \ {Current(p)}]
    /\ pc' = [pc EXCEPT ![p] = IF left'[p] = {} THEN "mark" ELSE "next"]
    /\ UNCHANGED <<op, conn, shared, seen>>

(* ColumnExists and tableOrVTableExists; a look that fails finds nothing. *)
Look(p) ==
    /\ pc[p] = "next" /\ left[p] # {} /\ Statements[Current(p)].looks
    /\ \/ NoFault /\ Statements[Current(p)].makes \in have /\ Pass(p)
       \/ /\ IF Statements[Current(p)].makes \in have THEN Fault ELSE NoFault
          /\ pc' = [pc EXCEPT ![p] = "run"]
          /\ UNCHANGED <<op, left, conn, shared, seen>>
    /\ UNCHANGED <<file, inits>>

Execute(p, s) ==
    have' = IF s.makes \in have THEN have ELSE have \cup Effect(s, BuildOf[p])

(* Mutant: the error of a statement is not returned. *)
RunOn(p, s) ==
    \/ NoFault /\ ~Refuses(s) /\ Execute(p, s) /\ Pass(p)
    \/ (IF Refuses(s) THEN NoFault ELSE Fault) /\ UNCHANGED have /\ Pass(p)

(* A statement is executed, or its error ends the call. *)
RunStatement(p, s) ==
    \/ NoFault /\ ~Refuses(s) /\ Execute(p, s) /\ Pass(p)
    \/ (IF Refuses(s) THEN NoFault ELSE Fault) /\ GiveUp(p) /\ UNCHANGED have

Run(p) ==
    /\ left[p] # {}
    /\ \/ pc[p] = "run"
       \/ pc[p] = "next" /\ ~Statements[Current(p)].looks
    /\ RunStatement(p, Statements[Current(p)])
    /\ UNCHANGED <<exists, version, dups, inits>>

(* EnsureSchema sets the marker when everything else is done. *)
Mark(p) ==
    /\ pc[p] = "mark"
    /\ \/ NoFault /\ version' = BuildOf[p] /\ Answer(p, "checked")
       \/ Fault /\ GiveUp(p) /\ UNCHANGED version
    /\ UNCHANGED <<exists, have, dups, inits>>

Close(p) ==
    /\ pc[p] = "use"
    /\ pc' = [pc EXCEPT ![p] = "idle"]
    /\ conn' = [conn EXCEPT ![p] = "none"]
    /\ UNCHANGED <<file, op, left, shared, seen, faults, inits>>

(* The process ends, anywhere; its place is taken by another one. *)
Die(p) ==
    /\ pc[p] # "idle" \/ shared[p] # "none"
    /\ Fault
    /\ Return(p, "idle")
    /\ conn' = [conn EXCEPT ![p] = "none"] /\ shared' = [shared EXCEPT ![p] = "none"]
    /\ UNCHANGED <<file, inits>>

Step(p) == ReadVersion(p) \/ Look(p) \/ Run(p) \/ Mark(p) \/ Close(p)

Next == \E p \in Procs :
    Open(p) \/ SharedProject(p) \/ Bootstrap(p) \/ Step(p) \/ Die(p)

Spec == Init /\ [][Next]_vars

(* A process that was started goes on: a statement returns after 15 s at    *)
(* the latest.  Hooks and tools open the database again and again.          *)
FairSpec == Spec /\ \A p \in Procs : WF_vars(Step(p)) /\ WF_vars(Open(p))

-----------------------------------------------------------------------------
TypeOK ==
    /\ exists \in BOOLEAN /\ dups \in BOOLEAN
    /\ version \in {0} \cup Builds
    /\ have \subseteq Objects
    /\ pc \in [Procs -> {"idle", "version", "next", "run", "mark", "use"}]
    /\ op \in [Procs -> {"open", "shared", "init"}]
    /\ left \in [Procs -> SUBSET DOMAIN Statements]
    /\ conn \in [Procs -> {"none", "checked", "unchecked"}]
    /\ shared \in [Procs -> {"none", "checked", "unchecked"}]
    /\ seen \in [Procs -> {0} \cup Builds]
    /\ faults \in 0..MaxFaults /\ inits \in 0..MaxInits

(* The marker never promises more than the database has, whoever upgrades   *)
(* it at the same time and wherever they stop (EnsureSchema).               *)
MarkerIsTruthful == Known(version) \subseteq have

(* A connection that passed the check finds everything its build works      *)
(* with, also the one a process opened long ago and kept.                   *)
OpenedIsUsable ==
    \A p \in Procs :
        "checked" \in {conn[p], shared[p]} => Known(BuildOf[p]) \subseteq have

(* "A newer database is refused": opening one never lowers its marker,      *)
(* unless the newer build wrote it after this process had read it.  Only    *)
(* init does not look (Bootstrap).                                          *)
OnlyOverlapLowersMarker ==
    [][version' < version =>
        \E p \in Procs : pc[p] = "mark" /\ (op[p] = "init" \/ seen[p] # version)]_vars

(* Every process of the newest build that keeps opening the database gets a *)
(* checked connection in the end: whoever died or failed before, and        *)
(* although two of them may add the same column.  A table with duplicate    *)
(* links, which nobody can open any more, is the exception.                 *)
UpgradeCompletes ==
    \A p \in Procs :
        (\A b \in Builds : b <= BuildOf[p]) =>
            (exists /\ ~dups ~> conn[p] = "checked")
================================================================================
