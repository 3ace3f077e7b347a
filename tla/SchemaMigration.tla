-------------------------- MODULE SchemaMigration ---------------------------
(***************************************************************************)
(* The schema of the control database: processes of different builds that  *)
(* start on it or migrate it at the same time (control/migration.py,       *)
(* database.py, bootstrap.py, migrate_cli.py), and the gate in front of    *)
(* the API, which looks at the history of migrations before it lets a      *)
(* request in (readiness.py).                                              *)
(*                                                                         *)
(* A version is a script, or on SQLite a column that a start adds.  What   *)
(* the scripts say is left out, except that one of them makes the history  *)
(* and one adds the checksums to it.                                       *)
(***************************************************************************)
EXTENDS Integers, FiniteSets

CONSTANTS Procs,
          Clis, Autos,   \* ocr-platform-migrate apply; controls that migrate when they start
          Build,         \* Build[p]: the checksums of p's scripts by version
          Table, Column, \* the versions that make the history and its checksum column
          Histories,     \* the histories that a database may have at first
          Gate, Threads, \* the control whose API is looked at, and its requests
          Ttl,           \* ready_ttl_seconds
          Slow,          \* bound: how long a look at the history takes
          MaxStarts, MaxFaults \* bounds: starts; crashes and failures

VARIABLE schema

-----------------------------------------------------------------------------
(* The history of migrations.                                              *)

NoOne == "nobody"
NotApplied == "not_applied"
Unset == "no_checksum"

Versions == UNION {DOMAIN Build[p] : p \in Procs}
Applied(rows) == {v \in Versions : rows[v] # NotApplied}

Unexpected(p, rows) == Applied(rows) \ DOMAIN Build[p]
Mismatches(p, rows) ==
  {v \in Applied(rows) \cap DOMAIN Build[p] : rows[v] \notin {Unset, Build[p][v]}}
Missing(p, rows) == DOMAIN Build[p] \ Applied(rows)
MissingSums(p, rows) == {v \in DOMAIN Build[p] : rows[v] = Unset}

Refuses(p, rows) == Unexpected(p, rows) \cup Mismatches(p, rows) # {}
IsCurrent(p, rows) ==
  /\ {Table, Column} \subseteq Applied(rows)
  /\ ~ Refuses(p, rows)
  /\ Missing(p, rows) \cup MissingSums(p, rows) = {}

\* Versions without a checksum get that of the build's script.
WithSums(p, rows) ==
  [v \in Versions |->
     IF rows[v] = Unset /\ v \in DOMAIN Build[p] /\ Column \in Applied(rows)
       THEN Build[p][v] ELSE rows[v]]

-----------------------------------------------------------------------------
NoAge == -1
NoRows == [v \in Versions |-> NotApplied]
Off == [pc |-> "off", work |-> NoRows, todo |-> {}, mine |-> {}]
Idle == [pc |-> "idle", force |-> FALSE, got |-> FALSE, took |-> 0]
Shut == [age |-> NoAge, lock |-> NoOne, thread |-> [t \in Threads |-> Idle]]

SchemaInit ==
  \E rows \in Histories, dialect \in {"postgresql", "sqlite"} :
    /\ dialect = "sqlite" => \A v \in Versions : rows[v] \in {NotApplied, Unset}
    /\ schema = [dialect |-> dialect, rows |-> rows,
                 runs |-> [v \in Versions |-> IF rows[v] = NotApplied THEN 0 ELSE 1],
                                     \* history: how often each script has run
                 holder |-> NoOne,   \* the advisory lock
                 proc |-> [p \in Procs |-> Off],
                 seeded |-> FALSE,   \* the default model profiles
                 indexed |-> FALSE,  \* the indexes (SQLite)
                 starts |-> 0, faults |-> 0,
                 probe |-> Shut,     \* DatabaseReadinessProbe and its callers
                 behind |-> 0,       \* history: how long the schema has not been Gate's
                 late |-> 0]         \* history: ... when the latest requests got in

Becomes(s) == schema' = s
Postgres == schema.dialect = "postgresql"
At(p, pc) == schema.proc[p].pc = pc
Goes(s, p, pc) == [s EXCEPT !.proc[p].pc = pc]

\* A process is gone: its transaction is rolled back, its lock is free.
Stopped(p) ==
  [schema EXCEPT !.proc[p] = Off, !.holder = IF @ = p THEN NoOne ELSE @,
                 !.probe = IF p = Gate THEN Shut ELSE @]

-----------------------------------------------------------------------------
(* Starting and migrating.                                                 *)

\* init_db; main of migrate_cli
Start(p) ==
  /\ At(p, "off") /\ schema.starts < MaxStarts
  /\ p \in Clis => Postgres
  /\ Becomes(Goes([schema EXCEPT !.starts = @ + 1], p,
                  IF ~ Postgres THEN "inspect"
                  ELSE IF p \in Clis THEN "lock"
                  ELSE IF p \in Autos THEN "status" ELSE "bootstrap"))

\* A start that is to migrate ends here on a history that is not its build's.
ReadStatus(p) ==
  /\ At(p, "status")
  /\ Becomes(IF Refuses(p, schema.rows) THEN Stopped(p) ELSE Goes(schema, p, "lock"))

\* A bug to test with: nobody waits for the lock
NoLock == TRUE

LockFree == schema.holder = NoOne

\* What was applied is read under the lock, and refused again.
TakeLock(p) ==
  /\ At(p, "lock") /\ LockFree
  /\ Becomes(IF Refuses(p, schema.rows) THEN Stopped(p)
             ELSE [schema EXCEPT
                     !.holder = p,
                     !.proc[p] = [pc |-> "apply", work |-> schema.rows, mine |-> {},
                                  todo |-> Missing(p, schema.rows)]])

RunScript(p) ==
  /\ At(p, "apply")
  /\ \E v \in schema.proc[p].todo :
       /\ \A w \in schema.proc[p].todo : v <= w
       /\ Becomes([schema EXCEPT !.proc[p].work[v] = Unset, !.proc[p].todo = @ \ {v},
                                 !.proc[p].mine = @ \cup {v}])

Ran(s, versions) == [s EXCEPT !.runs = [v \in Versions |-> @[v] + IF v \in versions THEN 1 ELSE 0]]

\* The scripts, their rows and the checksums are one transaction.
Commit(p) ==
  /\ At(p, "apply") /\ schema.proc[p].todo = {}
  /\ Becomes(LET rows == WithSums(p, schema.proc[p].work)
                 done == [Ran(schema, schema.proc[p].mine) EXCEPT
                            !.rows = rows, !.holder = NoOne, !.proc[p] = Off,
                            !.behind = IF IsCurrent(Gate, rows) THEN 0 ELSE @]
             IN  IF p \in Clis THEN done ELSE Goes(done, p, "bootstrap"))

\* SQLite: the tables of a new database are made with every column.
InspectTables(p) ==
  /\ At(p, "inspect")
  /\ Becomes(IF Applied(schema.rows) = {} THEN Goes(schema, p, "create")
             ELSE [schema EXCEPT !.proc[p].pc = "alter",
                                 !.proc[p].todo = Missing(p, schema.rows)])

CreateTables(p) ==
  /\ At(p, "create")
  /\ Becomes(IF Applied(schema.rows) # {} THEN Stopped(p)
             ELSE Goes(Ran([schema EXCEPT
                              !.rows = [v \in Versions |->
                                          IF v \in DOMAIN Build[p] THEN Unset ELSE @[v]]],
                           DOMAIN Build[p]), p, "inspect"))

\* Each statement is on its own; a column that is there already is an error.
AddColumn(p) ==
  /\ At(p, "alter")
  /\ \E v \in schema.proc[p].todo :
       /\ \A w \in schema.proc[p].todo : v <= w
       /\ Becomes(IF v \in Applied(schema.rows) THEN Stopped(p)
                  ELSE Ran([schema EXCEPT !.rows[v] = Unset, !.proc[p].todo = @ \ {v}], {v}))

\* The indexes are those of a schema with every column.
HasIndexed(p, rows) == Missing(p, rows) = {}

AddIndexes(p) ==
  /\ At(p, "alter") /\ schema.proc[p].todo = {}
  /\ Becomes(Goes([schema EXCEPT !.indexed = HasIndexed(p, schema.rows)], p, "bootstrap"))

\* bootstrap_control_database: a control comes up on any schema, but gives no
\* profiles to one that is not its own.
Bootstrap(p) ==
  /\ At(p, "bootstrap")
  /\ Becomes(Goes([schema EXCEPT !.seeded = @ \/ ~ Postgres \/ IsCurrent(p, schema.rows)],
                  p, "up"))

\* A crash, a script or a statement that fails, or the end of a control.
Fail(p) ==
  /\ ~ At(p, "off") /\ schema.faults < MaxFaults
  /\ Becomes([Stopped(p) EXCEPT !.faults = @ + 1])

-----------------------------------------------------------------------------
(* The gate in front of the API.                                           *)

Probe == schema.probe
In(t, pc) == Probe.thread[t].pc = pc /\ At(Gate, "up") /\ Postgres
Thread(s, t, pc) == [s EXCEPT !.probe.thread[t].pc = pc]

\* A bug to test with: what was ready once stays ready
EverReady == Probe.age # NoAge

Fresh == Probe.age # NoAge /\ Probe.age <= Ttl

\* check ends: a request that got in stays behind in the history.
Answered(s, t, ready) ==
  [s EXCEPT !.probe.thread[t] = Idle,
            !.late = IF ready /\ s.behind > @ THEN s.behind ELSE @]

\* check, up to its lock; /readyz does not trust the answer of before.
Ask(t, force) ==
  /\ In(t, "idle")
  /\ Becomes(IF ~ force /\ Probe.age # NoAge THEN Thread(schema, t, "comparing")
             ELSE Thread([schema EXCEPT !.probe.thread[t].force = force], t, "queued"))

\* The time of the answer is read once more; in between another request may have
\* dropped it, and this one ends in an error.
Compare(t) ==
  /\ In(t, "comparing")
  /\ Becomes(IF Fresh THEN Answered(schema, t, TRUE)
             ELSE IF Probe.age = NoAge THEN Answered(schema, t, FALSE)
             ELSE Thread(schema, t, "queued"))

Refresh(t) ==
  /\ In(t, "queued") /\ Probe.lock = NoOne
  /\ Becomes(IF ~ Probe.thread[t].force /\ Fresh THEN Answered(schema, t, TRUE)
             ELSE Thread([schema EXCEPT !.probe.lock = t], t, "looking"))

Look(t) ==
  /\ In(t, "looking")
  /\ Becomes(Thread([schema EXCEPT !.probe.thread[t].got = IsCurrent(Gate, schema.rows)],
                    t, "seen"))

\* The answer counts from when it is there; one that is not ready, or is an
\* error, is not kept.
Keep(t) ==
  /\ In(t, "seen")
  /\ \E ok \in {TRUE, Probe.thread[t].got} :
       LET ready == ok /\ Probe.thread[t].got
       IN  Becomes(Answered([schema EXCEPT !.probe.age = IF ready THEN 0 ELSE NoAge,
                                           !.probe.lock = NoOne], t, ready))

Older(x) == IF x.pc = "seen" THEN [x EXCEPT !.took = @ + 1] ELSE x

\* Time passes, as far as it matters to the gate.
Tick ==
  /\ At(Gate, "up") /\ Postgres
  /\ \A t \in Threads : Probe.thread[t].took < Slow
  /\ Becomes([schema EXCEPT
       !.probe.age = IF @ \in {NoAge, Ttl + 1} THEN @ ELSE @ + 1,
       !.probe.thread = [t \in Threads |-> Older(Probe.thread[t])],
       !.behind = IF IsCurrent(Gate, schema.rows) THEN 0
                  ELSE IF @ = Ttl + Slow + 1 THEN @ ELSE @ + 1])

-----------------------------------------------------------------------------
Migrates(p) == ReadStatus(p) \/ TakeLock(p) \/ RunScript(p) \/ Commit(p)
Upgrades(p) == InspectTables(p) \/ CreateTables(p) \/ AddColumn(p) \/ AddIndexes(p)
Serves(t) == (\E force \in BOOLEAN : Ask(t, force)) \/ Compare(t) \/ Refresh(t) \/ Look(t) \/ Keep(t)

SchemaNext ==
  \/ \E p \in Procs : Start(p) \/ Migrates(p) \/ Upgrades(p) \/ Bootstrap(p) \/ Fail(p)
  \/ \E t \in Threads : Serves(t)
  \/ Tick

-----------------------------------------------------------------------------
(* Properties of the schema.                                               *)

\* Every script has run once and only once if the history says so, whichever
\* processes migrated at once, crashed or were refused in between; the history
\* has no gaps and a control that came up by migrating finds every version of
\* its build in it; on SQLite likewise every column.
MigratedOnce ==
  /\ \A v \in Versions :
       /\ schema.runs[v] = IF schema.rows[v] = NotApplied THEN 0 ELSE 1
       /\ v \in Applied(schema.rows) => \A w \in Versions : w < v => w \in Applied(schema.rows)
  /\ \A p \in Procs :
       At(p, "up") /\ (Postgres => p \in Autos) => Missing(p, schema.rows) = {}

\* No request gets in once the schema has not been the control's for longer
\* than an answer of the probe is kept and a look at the history takes.
ServedIsCurrent == schema.late <= Ttl + Slow

\* The default profiles are given only to a schema that some build had whole.
SeededIsWhole ==
  schema.seeded => \E p \in Procs : Missing(p, schema.rows) = {}
=============================================================================
