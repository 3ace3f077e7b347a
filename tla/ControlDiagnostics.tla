-------------------------- MODULE ControlDiagnostics --------------------------
(***************************************************************************)
(* What the control plane says of its own state: the readiness answer and  *)
(* the counts of workers (diagnostics/queries.py), the sections capacity,  *)
(* audit and alerts of the operational diagnostics (operations.py) and the *)
(* metrics for Prometheus (metrics.py).  Each reads the tables on its own; *)
(* two of them restate a rule of a third.                                  *)
(*                                                                         *)
(* A world w holds the rows they read: w.workers, w.shards, w.jobs and     *)
(* w.pages (the page_done events of the last hour, the newest first) are   *)
(* sequences, the other tables are counts.  Labels are left out except for *)
(* the fact whether one is "failed".                                       *)
(***************************************************************************)
EXTENDS Integers, Sequences, FiniteSets, SequencesExt, FiniteSetsExt

Nobody == 0   \* the server of a shard nobody runs
NoKey == "no key"

Positive(n) == IF n > 0 THEN n ELSE 0
SumOf(amounts) ==
  LET upto[i \in 0 .. Len(amounts)] == IF i = 0 THEN 0 ELSE upto[i - 1] + amounts[i]
  IN  upto[Len(amounts)]
First(limit, rows) == SubSeq(rows, 1, IF Len(rows) < limit THEN Len(rows) ELSE limit)

-----------------------------------------------------------------------------
(* Workers.  A value of another type than the agents of this build send is *)
(* "loose": operations.py asks for TRUE itself, queries.py for a true one. *)

ReadyWorkerStatuses == {"idle", "online", "busy"}

\* list_servers; the row of the pool is one of them.
Visible(w) == {i \in DOMAIN w.workers : ~ w.workers[i].archived}

\* _worker_rows
WorkerRows(w) == {i \in Visible(w) : ~ w.workers[i].pool}

\* is_server_stale of identity.py, _heartbeat_is_stale of operations.py
IsServerStale(row) == row.beat = "old"
HeartbeatIsStale(row) == row.beat \in {"old", "never"}

\* worker_diagnostics
CountsAsReady(row) ==
  /\ row.status \in ReadyWorkerStatuses /\ ~ IsServerStale(row)
  /\ row.path \in {"exact", "loose"}

WorkerDiagnostics(w) ==
  LET of(Test(_)) == Cardinality({i \in Visible(w) : Test(w.workers[i])})
  IN  [total |-> Cardinality(Visible(w)),
       ready |-> of(CountsAsReady),
       stale |-> of(IsServerStale),
       shared |-> of(LAMBDA row : row.path # "none"),
       constrained |-> of(LAMBDA row : row.pressure # "none")]

-----------------------------------------------------------------------------
(* capacity_diagnostics                                                    *)

\* A bug to test with: the shards of a job that is stopping are waiting work
ExecutableOrStopping == {"queued", "running", "stopping"}

Executable == {"queued", "running"}
SlotOccupying == {"queued", "running", "stopping"}
Claimable == {"pending", "retrying", "stale"}

\* EvidenceLimitExceeded makes a section unavailable.
Bounded(w, n) == n <= w.limits.evidence
Unavailable == [available |-> FALSE]

Running(w) ==
  {s \in DOMAIN w.shards : w.shards[s].status = "running"
                             /\ w.jobs[w.shards[s].job].status \in SlotOccupying}
RunningOf(w, i) == Cardinality({s \in Running(w) : w.shards[s].server = i})
StaleLeases(w) == Cardinality({s \in Running(w) : w.shards[s].lease = "expired"})

QueueDepth(w) ==
  Cardinality({s \in DOMAIN w.shards : w.shards[s].status \in Claimable
                                         /\ w.jobs[w.shards[s].job].status \in Executable})

\* _throughput_evidence: how many pages ended, and whether these are all.
SamplePages(w) == Cardinality({w.pages[k].key : k \in DOMAIN First(w.limits.evidence, w.pages)} \ {NoKey})
EventsKept(w) == w.limits.persist /\ w.limits.detail \notin 1 .. w.limits.evidence
ThroughputComplete(w) ==
  /\ EventsKept(w) /\ Len(w.pages) <= w.limits.evidence
  /\ \A k \in DOMAIN w.pages : w.pages[k].key # NoKey

\* _remaining_pages: known only if every job that may run has started all its files.
Unfinished(w) == {j \in DOMAIN w.jobs : w.jobs[j].status \in Executable}
RemainingReliable(w) ==
  /\ Unfinished(w) # {}
  /\ \A j \in Unfinished(w) :
        w.jobs[j].total > 0 /\ w.jobs[j].files > 0 /\ w.jobs[j].started >= w.jobs[j].files
RemainingPages(w) == MapThenSumSet(LAMBDA j : Positive(w.jobs[j].total - w.jobs[j].completed), Unfinished(w))

ReadyWorkers(w) ==
  {i \in WorkerRows(w) :
     LET row == w.workers[i]
     IN  /\ row.status \in ReadyWorkerStatuses /\ ~ HeartbeatIsStale(row)
         /\ row.path = "exact" /\ row.pressure # "exact"}
Constrained(w) == {i \in WorkerRows(w) : w.workers[i].pressure = "exact"}

\* The slots of a row that is ready, and those of them that are free.
SlotsOf(w, i) == IF i \in ReadyWorkers(w) THEN Positive(w.workers[i].slots) ELSE 0
ReadySlots(w) == SumOf([i \in DOMAIN w.workers |-> SlotsOf(w, i)])
FreeSlots(w) == SumOf([i \in DOMAIN w.workers |-> Positive(SlotsOf(w, i) - RunningOf(w, i))])

Confidence(w) ==
  IF SamplePages(w) < 10 \/ ~ ThroughputComplete(w) \/ ~ RemainingReliable(w) THEN "none"
  ELSE IF SamplePages(w) >= 100 THEN "medium" ELSE "low"
HasWorkload(w) == QueueDepth(w) > 0 \/ (RemainingReliable(w) /\ RemainingPages(w) > 0)

When(P, code) == IF P THEN {code} ELSE {}
Recommendations(w) ==
  When(HasWorkload(w) /\ (ReadySlots(w) = 0 \/ (QueueDepth(w) > 0 /\ FreeSlots(w) = 0)),
       "add_worker_capacity")
    \cup When(Constrained(w) # {}, "relieve_worker_resource_pressure")
    \cup When(StaleLeases(w) > 0, "reclaim_stale_leases")
    \cup When(HasWorkload(w) /\ Confidence(w) = "none", "collect_more_throughput_samples")

CapacityDiagnostics(w) ==
  IF ~ Bounded(w, Cardinality(WorkerRows(w))) \/ ~ Bounded(w, Cardinality(Unfinished(w)))
       \/ ~ Bounded(w, Cardinality({w.shards[s].server : s \in Running(w)}))
    THEN Unavailable
  ELSE [available |-> TRUE, readySlots |-> ReadySlots(w), freeSlots |-> FreeSlots(w),
        queue |-> QueueDepth(w), running |-> Cardinality(Running(w)),
        staleLeases |-> StaleLeases(w), sample |-> SamplePages(w), confidence |-> Confidence(w),
        recommendations |-> Recommendations(w)]

-----------------------------------------------------------------------------
(* audit_diagnostics and metrics_snapshot                                  *)

FailedStages(pages) ==
  FoldLeft(LAMBDA n, page : n + Len(SelectSeq(page.stages, LAMBDA status : status = "failed")),
           0, pages)
Fallbacks(pages) == Len(SelectSeq(pages, LAMBDA page : page.fallback))

ManifestTotal(w) == FoldLeft(LAMBDA n, m : n + m.count, 0, w.manifests)

AuditDiagnostics(w) ==
  IF ~ Bounded(w, Len(w.manifests)) THEN Unavailable
  ELSE [available |-> TRUE,
        stageFailures |-> FailedStages(First(w.limits.evidence, w.pages)),
        fallbacks |-> Fallbacks(First(w.limits.evidence, w.pages)),
        truncated |-> ~ EventsKept(w) \/ Len(w.pages) > w.limits.evidence,
        attention |-> FoldLeft(LAMBDA n, m : n + IF m.status \in {"failed", "missing_manifest", "other"}
                                                   THEN m.count ELSE 0, 0, w.manifests),
        reportsMissing |->
          Positive(ManifestTotal(w) - FoldLeft(LAMBDA n, m : n + m.reports, 0, w.manifests)),
        declared |-> w.artifacts.declared, undeclared |-> w.artifacts.undeclared,
        completedJobs |-> Cardinality({j \in DOMAIN w.jobs : w.jobs[j].status = "succeeded"})]

MetricsSnapshot(w) ==
  [workers |-> Cardinality(WorkerRows(w)),
   slots |-> MapThenSumSet(LAMBDA i : Positive(w.workers[i].slots), WorkerRows(w)),
   queue |-> [status \in Claimable |->
                Cardinality({s \in DOMAIN w.shards : w.shards[s].status = status
                                       /\ w.jobs[w.shards[s].job].status \in {"queued", "running"}})],
   truncated |-> Len(w.pages) > w.limits.trace,
   failed |-> FailedStages(First(w.limits.trace, w.pages)),
   fallbacks |-> Fallbacks(First(w.limits.trace, w.pages)),
   artifacts |-> w.artifacts.declared]

-----------------------------------------------------------------------------
(* alerts_diagnostics: how often each alert counts; those above 0 are active. *)

RecommendationOf ==
  [artifact_records_missing |-> "run_output_audit", event_spool_backlog |-> "replay_spool_backlog",
   fallback_usage |-> "review_fallback_usage", log_spool_backlog |-> "replay_spool_backlog",
   manifest_integrity_attention |-> "rerun_manifest_integrity",
   migration_drift |-> "apply_pending_migrations", output_audit_not_reported |-> "run_output_audit",
   shard_update_spool_backlog |-> "replay_spool_backlog",
   stage_failures |-> "investigate_stage_failures", stale_shard_lease |-> "reclaim_stale_leases",
   stale_worker_heartbeat |-> "restore_worker_heartbeat",
   throughput_samples_insufficient |-> "collect_more_throughput_samples",
   worker_capacity_exhausted |-> "add_worker_capacity",
   worker_resource_pressure |-> "relieve_worker_resource_pressure"]
Quiet == [code \in DOMAIN RecommendationOf |-> 0]

IsCurrent(db) == db.table /\ db.column /\ db.mismatches + db.unsummed + db.missing + db.unexpected = 0

\* migration_alerts
MigrationDrift(db) ==
  LET n == db.mismatches + db.unsummed + db.missing + db.unexpected
  IN  IF n = 0 /\ ~ (db.table /\ IsCurrent(db)) THEN 1 ELSE n

\* _worker_alert_counts
WorkerAlerts(w) ==
  LET Over(Amount(_)) == MapThenSumSet(LAMBDA i : Amount(w.workers[i]), WorkerRows(w))
  IN  [stale_worker_heartbeat |-> Over(LAMBDA row : IF HeartbeatIsStale(row) THEN 1 ELSE 0),
       worker_resource_pressure |-> Cardinality(Constrained(w)),
       event_spool_backlog |-> Over(LAMBDA row : Positive(row.events)),
       log_spool_backlog |-> Over(LAMBDA row : Positive(row.logs)),
       shard_update_spool_backlog |-> Over(LAMBDA row : Positive(row.updates))]

CapacityAlerts(capacity) ==
  [worker_capacity_exhausted |-> IF capacity.freeSlots = 0 THEN capacity.queue ELSE 0,
   stale_shard_lease |-> capacity.staleLeases,
   throughput_samples_insufficient |->
     IF capacity.queue = 0 \/ capacity.confidence # "none" THEN 0
     ELSE IF capacity.sample < 9 THEN 10 - capacity.sample ELSE 1]

AuditAlerts(audit) ==
  [stage_failures |-> audit.stageFailures, fallback_usage |-> audit.fallbacks,
   manifest_integrity_attention |-> audit.attention, artifact_records_missing |-> audit.undeclared,
   output_audit_not_reported |->
     IF audit.declared + audit.undeclared + audit.completedJobs > 0 THEN 1 ELSE 0]

\* The alerts with those of a further source, if that could be read.
With(alerts, readable, more) ==
  [code \in DOMAIN alerts |-> IF readable /\ code \in DOMAIN more THEN more[code] ELSE alerts[code]]

AlertsDiagnostics(w, capacity, audit) ==
  LET drift == [Quiet EXCEPT !.migration_drift = MigrationDrift(w.db)]
      ofWorkers == With(drift, TRUE, WorkerAlerts(w))
      ofCapacity == With(ofWorkers, capacity.available, CapacityAlerts(capacity))
  IN  IF ~ Bounded(w, Cardinality(WorkerRows(w))) THEN drift   \* unavailable_alerts
      ELSE With(ofCapacity, audit.available, AuditAlerts(audit))

-----------------------------------------------------------------------------
(* system_diagnostics: readiness, with the issues that explain it.         *)

Issue(severity, code) == [severity |-> severity, code |-> code]

DatabaseIssues(db) ==
  IF ~ db.table THEN {Issue("warning", "database_migrations_missing")}
  ELSE IF db.mismatches > 0 THEN {Issue("error", "database_migration_checksum_mismatch")}
  ELSE IF db.unsummed > 0 THEN {Issue("warning", "database_migration_checksums_missing")}
  ELSE IF ~ IsCurrent(db) THEN {Issue("warning", "database_migration_not_current")} ELSE {}

WorkerIssues(w) ==
  LET counts == WorkerDiagnostics(w)
  IN  (IF counts.total = 0 THEN {Issue(IF w.strict THEN "error" ELSE "warning", "no_workers")}
       ELSE IF counts.ready = 0 THEN {Issue("error", "no_ready_workers")} ELSE {})
      \cup IF counts.constrained > 0 THEN {Issue("warning", "resource_constrained_workers")} ELSE {}

SystemIssues(w) ==
  DatabaseIssues(w.db) \cup WorkerIssues(w)
    \cup (IF w.db.postgres THEN {} ELSE {Issue("warning", "database_not_postgres")})
    \cup (IF w.auth THEN {} ELSE {Issue("warning", "api_auth_disabled")})

SystemOk(w) ==
  /\ \A issue \in SystemIssues(w) : issue.severity # "error"
  /\ (w.strict \/ w.requirePostgres) => w.db.postgres
  /\ w.requireCurrent => IsCurrent(w.db)

\* system_operational_diagnostics.  Its sections read one after the other, on
\* PostgreSQL in sessions of their own: here the tables stay as they are meanwhile.
OperationalDiagnostics(w) ==
  LET capacity == CapacityDiagnostics(w)
      audit == AuditDiagnostics(w)
  IN  [ok |-> SystemOk(w), issues |-> SystemIssues(w), capacity |-> capacity, audit |-> audit,
       alerts |-> AlertsDiagnostics(w, capacity, audit)]

-----------------------------------------------------------------------------
(* What an operator relies on when he compares the views.                  *)

\* A slot is offered only on a worker the summary counts as ready; and a summary
\* with ready workers but no slot has a reason the rows show (queries.py,
\* operations.py).
WorkersAgree(w) ==
  LET capacity == CapacityDiagnostics(w)
  IN  capacity.available =>
        /\ capacity.readySlots > 0 => WorkerDiagnostics(w).ready > 0
        /\ capacity.readySlots = 0 =>
             \A i \in Visible(w) :
               LET row == w.workers[i]
               IN  CountsAsReady(row) => \/ row.pool \/ row.slots <= 0 \/ row.pressure = "exact"
                                         \/ row.beat = "never" \/ row.path = "loose"

\* The waiting work and the failures of stages are the same in the diagnostics
\* and in the metrics, if both may read as many events.
NumbersAgree(w) ==
  LET capacity == CapacityDiagnostics(w)
      audit == AuditDiagnostics(w)
      metrics == MetricsSnapshot(w)
  IN  /\ capacity.available =>
           capacity.queue = metrics.queue["pending"] + metrics.queue["retrying"] + metrics.queue["stale"]
      /\ (audit.available /\ w.limits.evidence = w.limits.trace) =>
           /\ audit.stageFailures = metrics.failed /\ audit.fallbacks = metrics.fallbacks
           /\ audit.truncated \/ ~ metrics.truncated

\* Alerts ask for what the capacity section recommends, and only the recommendations
\* for work without waiting shards come without an alert.
AdviceAgrees(w) ==
  LET capacity == OperationalDiagnostics(w).capacity
      alerts == OperationalDiagnostics(w).alerts
      advised == {RecommendationOf[code] : code \in {c \in DOMAIN alerts : alerts[c] > 0}}
      own == {"add_worker_capacity", "relieve_worker_resource_pressure", "reclaim_stale_leases",
              "collect_more_throughput_samples"}
  IN  capacity.available =>
        /\ advised \cap own \subseteq capacity.recommendations
        /\ capacity.queue > 0 => advised \cap own = capacity.recommendations

\* A control plane that is not ready names an issue of the database or of the
\* workers, and one that reports no issue has none of the alerts about them.
ReadinessIsExplained(w) ==
  /\ ~ SystemOk(w) => SystemIssues(w) \ {Issue("warning", "api_auth_disabled")} # {}
  /\ (MigrationDrift(w.db) > 0) = (DatabaseIssues(w.db) # {})

DiagnosticsAgree(w) ==
  WorkersAgree(w) /\ NumbersAgree(w) /\ AdviceAgrees(w) /\ ReadinessIsExplained(w)
=============================================================================
