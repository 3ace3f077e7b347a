----------------------------- MODULE JobSummary ------------------------------
(***************************************************************************)
(* The rest of the job page: how far the scan has come, which shards want  *)
(* attention, which worker does what, and the stage that sums it all up    *)
(* (control/domains/jobs/projection.py, manifests/projection.py).          *)
(*                                                                         *)
(* Shards and scan units come as a number per status, or as a sequence in  *)
(* the order of their index where the order matters.                       *)
(***************************************************************************)
EXTENDS JobProgress

ShardStatuses == {"pending", "running", "retrying", "stale", "succeeded", "failed", "stopped"}
UnitStatuses == {"pending", "running", "stale", "succeeded", "failed"}

CountAll(counts) == FoldSet(LAMBDA s, n : n + counts[s], 0, DOMAIN counts)
Terminal == {"succeeded", "failed", "stopped"}

-----------------------------------------------------------------------------
(* The scan of the input.                                                  *)

\* status of _load_scan_summary: units decide if there are any, then the
\* manifest, then the last progress event.
ScanStatus(progress, manifest, units) ==
  IF CountAll(units) > 0
    THEN IF units["pending"] + units["running"] + units["stale"] > 0 THEN "running"
         ELSE IF units["failed"] > 0 THEN "failed" ELSE "done"
  ELSE IF manifest.exists /\ manifest.status = "scanning" THEN "running"
  ELSE IF manifest.exists /\ (manifest.frozen \/ manifest.status = "ready") THEN "done"
  ELSE IF progress.exists THEN progress.status ELSE "not_started"

\* The numbers of files, directories and errors a scan shows: the most that any
\* source knows of.
ScanAmounts(progress, manifest, units, totalFiles) ==
  LET split == CountAll(units) > 0
      described == manifest.exists /\ manifest.meta
      fromMeta(n) == IF described THEN n ELSE 0
  IN  [files |-> AtLeast(AtLeast(progress.files, fromMeta(manifest.files)),
                         IF split THEN totalFiles ELSE 0),
       dirs |-> AtLeast(AtLeast(progress.dirs, fromMeta(manifest.dirs)),
                        IF split THEN units["succeeded"] + units["failed"] ELSE 0),
       errors |-> AtLeast(AtLeast(progress.errors, fromMeta(manifest.errors)),
                          IF split THEN AtLeast(units["failed"], units["stale"]) ELSE 0)]

\* _scan_eta_seconds and _scan_eta_seconds_from_rate; a rate is files per time.
FilesEta(files, estimated, done, elapsed) ==
  IF estimated = None \/ files <= 0 \/ estimated <= files \/ done <= 0 \/ elapsed <= 0
    THEN None
    ELSE ((estimated - files) * elapsed) \div done

\* _scan_unit_eta_seconds
UnitsEta(completed, total, elapsed) ==
  IF completed <= 0 \/ total <= completed \/ elapsed <= 0 THEN None
    ELSE ((total - completed) * elapsed) \div completed

\* The first of four estimates that gives a number.
ScanEta(progress, manifest, units, totalFiles, elapsed) ==
  LET files == ScanAmounts(progress, manifest, units, totalFiles).files
      estimates == << progress.remainingTime,
                      FilesEta(files, progress.estimated, progress.rate[1], progress.rate[2]),
                      FilesEta(files, progress.estimated, files, elapsed),
                      UnitsEta(units["succeeded"] + units["failed"], CountAll(units), elapsed) >>
      known == SelectSeq(estimates, LAMBDA n : n # None)
  IN  IF ScanStatus(progress, manifest, units) # "running" \/ known = <<>> THEN None
        ELSE known[1]

\* remaining files and percentage of the scan
ScanRemaining(progress, files) ==
  IF progress.remaining # None THEN progress.remaining
    ELSE IF progress.estimated # None THEN AtLeast(progress.estimated - files, 0) ELSE None

ScanPercent(progress, files) ==
  IF progress.estimated > 0 THEN AtMost((100 * files) \div progress.estimated, 100) ELSE None

-----------------------------------------------------------------------------
(* Where the job stands.                                                   *)

\* recovery_status
Recovery(shards, units) ==
  IF shards["failed"] + shards["stopped"] + units["failed"] > 0 THEN "exhausted"
  ELSE IF shards["retrying"] + shards["stale"] + units["stale"] > 0 THEN "recovering"
  ELSE "healthy"

Executable(shards) ==
  shards["pending"] + shards["running"] + shards["retrying"] + shards["stale"]

\* A bug to test with: what was lost is looked at before what still runs
StageOfStopLast(job, scan, shards, units) ==
  IF job.status \in Terminal THEN job.status
  ELSE IF Recovery(shards, units) = "exhausted" THEN "failed"
  ELSE IF job.stop THEN "draining"
  ELSE IF Recovery(shards, units) = "recovering" THEN "recovering"
  ELSE IF units["pending"] + units["running"] > 0 \/ scan = "running" THEN "scanning"
  ELSE IF scan = "done" /\ CountAll(shards) = 0 THEN "sharding"
  ELSE IF CountAll(shards) > 0 THEN "running" ELSE job.status

\* _job_lifecycle_stage
Stage(job, scan, shards, units) ==
  IF job.status \in Terminal THEN job.status
  ELSE IF job.stop \/ job.status = "stopping" THEN "draining"
  ELSE IF shards["failed"] + shards["stopped"] + units["failed"] > 0 THEN "failed"
  ELSE IF shards["retrying"] + shards["stale"] + units["stale"] > 0 THEN "recovering"
  ELSE IF units["pending"] + units["running"] > 0 \/ scan = "running" THEN "scanning"
  ELSE IF scan = "done" /\ CountAll(shards) = 0 THEN "sharding"
  ELSE IF CountAll(shards) > 0 THEN "running"
  ELSE job.status

\* _manifest_snapshot_status
SnapshotStatus(manifest) ==
  IF ~ manifest.exists THEN "missing"
    ELSE IF manifest.frozen THEN "frozen" ELSE manifest.status

-----------------------------------------------------------------------------
(* Shards and workers.                                                     *)

Current == {"running", "retrying", "stale"}
Attention == Current \cup {"failed"}

\* _shard_lease_status; the lease has `left` to go, or there is none.
LeaseStatus(shard, soon) ==
  IF shard.status = "stale" THEN "stale"
  ELSE IF shard.status \notin Current THEN "none"
  ELSE IF shard.left = None THEN "missing"
  ELSE IF shard.left = 0 THEN "expired"
  ELSE IF shard.left <= soon THEN "expiring" ELSE "healthy"

\* The shards the page describes, the first `limit` by urgency (0: all).
AttentionShards(shards, limit) ==
  LET of(status) == SelectSeq(shards, LAMBDA s : s.status = status)
      ranked == of("running") \o of("retrying") \o of("stale") \o of("failed")
  IN  IF limit = 0 THEN ranked ELSE Keep(limit, ranked)

\* One worker of _load_worker_shard_summaries: all its shards are counted, but
\* what it is doing is added up over the shards the page describes.
WorkerSummary(shards, limit, worker) ==
  LET mine == SelectSeq(shards, LAMBDA s : s.server = worker)
      current == SelectSeq(AttentionShards(shards, limit),
                           LAMBDA s : s.server = worker /\ s.status \in Current)
  IN  [total |-> Len(mine),
       counts |-> [st \in ShardStatuses |-> Matching(LAMBDA s : s.status = st, mine)],
       current |-> current,
       inflight |-> TotalOf(LAMBDA s : s.inflight, current),
       paused |-> \E i \in DOMAIN current : current[i].paused]

\* list_work_shards and the status filter it is given
ShardPage(shards, filter, limit, offset) ==
  LET wanted(s) == \/ filter = "all" \/ s.status = filter
                   \/ filter = "attention" /\ s.status \in Attention
      found == SelectSeq(shards, wanted)
  IN  [total |-> Len(found),
       items |-> SubSeq(found, AtLeast(offset, 0) + 1,
                        AtMost(AtLeast(offset, 0) + AtLeast(limit, 1), Len(found)))]

=============================================================================
