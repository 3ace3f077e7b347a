---------------------------- MODULE ManifestBuild ----------------------------
(***************************************************************************)
(* From an input tree to the shards of a job, in each input mode: the      *)
(* control plane walks the tree or reads a manifest that is there          *)
(* (create_static_shards_for_job), an agent walks it and registers what it *)
(* wrote (run_remote_folder_snapshot_job, register_remote_manifest), or    *)
(* agents scan it directory by directory (run_scan_unit,                   *)
(* materialize_scan_unit_completion).  The walks are two copies and a half *)
(* of one algorithm (manifest/scanner.py, agent/runner.py), the writer is  *)
(* shared (manifest/sharder.py).                                           *)
(*                                                                         *)
(* Leases, lost answers and repeated completions are the subject of        *)
(* ManifestScan; what the shards must hold is the subject here.  A tree t  *)
(* maps the directories to whether they can be listed and the entries to   *)
(* their kinds; a path is a sequence of names, the root is empty.          *)
(***************************************************************************)
EXTENDS Integers, Sequences, FiniteSets, SequencesExt, FiniteSetsExt

CONSTANTS Trees,    \* input trees
          Manifests,\* the rows of manifests that exist
          Targets,  \* target_files_per_shard
          Kept,     \* how many progress events retention keeps
          OldBuild  \* whether jobs of a build without next_shard_index go on

VARIABLE build

-----------------------------------------------------------------------------
(* Walking.                                                                *)

Above(path) == Prefixes(path) \ {path}
Listed(t) == {d \in DOMAIN t.dir : \A p \in Above(d) \cup {d} : t.dir[p]}
Denied(t) == {d \in DOMAIN t.dir : ~ t.dir[d] /\ \A p \in Above(d) : t.dir[p]}

\* Entries of directories: symbolic links are no files, other names are no
\* documents; a file that is gone, or cannot be looked at, is an error.
Documents(t, dirs) == {f \in DOMAIN t.entry : Front(f) \in dirs /\ t.entry[f] = "pdf"}
Failing(t, dirs) == {f \in DOMAIN t.entry : Front(f) \in dirs /\ t.entry[f] = "fails"}

\* Errors are counted, and the first of them kept as samples.
SampleLimit == 5
Samples(failing) == LET s == SetToSeq(failing) IN SubSeq(s, 1, Min({SampleLimit, Len(s)}))

\* scan_folder_snapshot, iter_folder_snapshot_items
Walk(t) ==
  LET failing == Denied(t) \cup Failing(t, Listed(t))
  IN  [items |-> SetToSeq(Documents(t, Listed(t))), children |-> {},
       errors |-> Cardinality(failing), samples |-> Samples(failing)]

\* _iter_direct_directory_items: one directory, and its subdirectories for others.
WalkOne(t, d) ==
  LET failing == Failing(t, {d})
  IN  [items |-> SetToSeq(Documents(t, {d})),
       children |-> {c \in DOMAIN t.dir : c # <<>> /\ Front(c) = d},
       errors |-> Cardinality(failing), samples |-> Samples(failing)]

\* _read_manifest_items: refused unless every row is whole, its path relative,
\* without ".." and named once.
MayRead(rows) ==
  /\ \A i \in DOMAIN rows : rows[i].whole /\ rows[i].inside
  /\ \A i, j \in DOMAIN rows : rows[i].path = rows[j].path => i = j

-----------------------------------------------------------------------------
(* Writing: write_manifest_snapshot_streaming.                             *)

\* A bug to test with: the shard that is not full at the end is not listed
FullShards(items, target) == Len(items) \div target

ShardTotal(items, target) == (Len(items) + target - 1) \div target

Shard(items, target, i) ==
  SubSeq(items, (i - 1) * target + 1, Min({i * target, Len(items)}))

Written(items, target) ==
  [files |-> Len(items),
   shards |-> [i \in 1 .. ShardTotal(items, target) |-> Shard(items, target, i)]]

-----------------------------------------------------------------------------
(* Rows of the manifest and its shards.                                    *)

NoRow == [status |-> "none", files |-> 0, next |-> 1, frozen |-> FALSE]

BuildInit ==
  \E t \in Trees, rows \in Manifests, target \in Targets, kept \in Kept,
     mode \in {"folder_snapshot", "existing_manifest", "remote_folder_snapshot",
               "distributed_remote_folder_snapshot"} :
    /\ IF mode = "existing_manifest" THEN t = CHOOSE u \in Trees : TRUE ELSE rows = <<>>
    /\ build = [tree |-> t, given |-> rows, target |-> target, kept |-> kept, mode |-> mode,
                job |-> "new", row |-> NoRow, shards |-> {}, units |-> <<>>,
                \* what the agent has written
                written |-> [files |-> -1, shards |-> <<>>],
                progress |-> <<>>, \* manifest_scan_progress events, the newest first
                meta |-> -1,       \* skipped_error_count of the meta file of the manifest
                skipped |-> 0]     \* history: what the walks have left out

Becomes(b) == build' = b
Distributed == build.mode = "distributed_remote_folder_snapshot"

\* The done event of a walk; retention removes the oldest.
Reported(b, walk) ==
  [b EXCEPT !.progress = SubSeq(<<[errors |-> walk.errors, samples |-> walk.samples]>> \o @, 1,
                                Min({b.kept, Len(@) + 1})),
            !.skipped = @ + walk.errors]

\* New rows are numbered from index.
RowsFrom(index, shards) == {[index |-> index + i - 1, items |-> shards[i]] : i \in DOMAIN shards}

\* freeze_manifest_if_scan_complete
Frozen(b) ==
  IF \E u \in DOMAIN b.units : b.units[u] # "succeeded" THEN b
  ELSE [b EXCEPT !.row.status = "ready", !.row.frozen = TRUE]

\* A manifest that is complete when it is stored.
Stored(b, written) ==
  [b EXCEPT !.row = [status |-> "ready", files |-> written.files,
                     next |-> Len(written.shards) + 1, frozen |-> FALSE],
            !.shards = RowsFrom(1, written.shards)]

\* create, _create_static_shards_for_job: nothing is kept of a job whose input
\* cannot be read.
CreateStatic ==
  /\ build.job = "new" /\ build.mode \in {"folder_snapshot", "existing_manifest"}
  /\ LET rows == build.given
         walk == Walk(build.tree)
         items == IF build.mode = "folder_snapshot" THEN walk.items
                    ELSE [i \in DOMAIN rows |-> rows[i].path]
     IN  IF build.mode = "existing_manifest" /\ ~ MayRead(rows)
           THEN Becomes([build EXCEPT !.job = "refused"])
         ELSE IF build.mode = "folder_snapshot"
           THEN Becomes([Frozen(Stored(build, Written(items, build.target))) EXCEPT
                           !.job = "created", !.meta = walk.errors, !.skipped = walk.errors])
         ELSE Becomes([Frozen(Stored(build, Written(items, build.target))) EXCEPT
                         !.job = "created", !.meta = 0])

CreateRemote ==
  /\ build.job = "new" /\ build.mode = "remote_folder_snapshot"
  /\ Becomes([build EXCEPT !.job = "created"])

\* _create_distributed_scan_for_job; or the job is older than next_shard_index,
\* and its root was completed by a build that did not keep it.
CreateScan ==
  /\ build.job = "new" /\ Distributed
  /\ \/ Becomes([build EXCEPT !.job = "created", !.row.status = "scanning",
                              !.units = <<>> :> "pending"])
     \/ /\ OldBuild /\ build.tree.dir[<<>>]
        /\ LET walk == WalkOne(build.tree, <<>>)
               written == Written(walk.items, build.target)
           IN  Becomes([Reported(build, walk) EXCEPT
                          !.job = "created",
                          !.row = [NoRow EXCEPT !.status = "scanning", !.files = written.files],
                          !.shards = RowsFrom(1, written.shards),
                          !.units = [u \in {<<>>} \cup walk.children |->
                                       IF u = <<>> THEN "succeeded" ELSE "pending"]])

\* run_remote_folder_snapshot_job: the walk and its files.
WalkRemote ==
  /\ build.job = "created" /\ build.mode = "remote_folder_snapshot"
  /\ build.written.files = -1 /\ build.row.status = "none"
  /\ \E shared \in BOOLEAN :   \* whether the control plane can read the meta file
       LET walk == Walk(build.tree)
       IN  Becomes([Reported(build, walk) EXCEPT
                      !.written = Written(walk.items, build.target),
                      !.meta = IF shared THEN walk.errors ELSE -1])

\* register_remote_manifest.  A second request is refused, and the agent that
\* made it posts job_failed.
RegisterRemote ==
  /\ build.written.files >= 0
  /\ IF build.row.status # "none" THEN Becomes([build EXCEPT !.job = "failed"])
     ELSE Becomes(Stored(build, build.written))

\* A bug to test with: the number of the next shard is believed
StoredIndex(b, n) == b.row.next

\* next_manifest_shard_index: the stored number, unless shards have it already.
NextShardIndex(b, n) ==
  LET taken == {s.index : s \in b.shards}
  IN  IF n > 0 /\ taken \cap (b.row.next .. b.row.next + n - 1) # {}
        THEN Max({b.row.next, Max(taken) + 1}) ELSE b.row.next

\* run_scan_unit of one unit, and materialize_scan_unit_completion or the failure
\* of the unit: a directory that cannot be listed fails it, and so the manifest.
ScanOne ==
  /\ build.job = "created" /\ Distributed
  /\ \E u \in DOMAIN build.units :
       /\ build.units[u] = "pending"
       /\ IF ~ build.tree.dir[u]
            THEN LET b == [build EXCEPT !.units[u] = "failed", !.skipped = @ + 1]
                 IN  Becomes(IF \E v \in DOMAIN b.units : b.units[v] = "pending" THEN b
                             ELSE [b EXCEPT !.row.status = "failed"])
          ELSE
            LET walk == WalkOne(build.tree, u)
                written == Written(walk.items, build.target)
                index == NextShardIndex(build, Len(written.shards))
            IN  Becomes(Frozen([Reported(build, walk) EXCEPT
                  !.units = [v \in DOMAIN @ \cup walk.children |->
                               IF v = u THEN "succeeded"
                               ELSE IF v \in DOMAIN @ THEN @[v] ELSE "pending"],
                  !.row.next = index + Len(written.shards), !.row.files = @ + written.files,
                  !.shards = @ \cup RowsFrom(index, written.shards)]))

BuildNext == CreateStatic \/ CreateRemote \/ CreateScan \/ WalkRemote \/ RegisterRemote \/ ScanOne

-----------------------------------------------------------------------------
(* build_manifest_freeze_report                                            *)

UnitsIn(b, status) == Cardinality({u \in DOMAIN b.units : b.units[u] = status})

\* latest_manifest_scan_progress, recent_manifest_scan_error_samples,
\* manifest_scan_error_samples, scan_unit_problem_samples
ProgressErrors(b) == IF b.progress = <<>> THEN 0 ELSE b.progress[1].errors
RecentSamples(b) ==
  UNION {ToSet(b.progress[i].samples) : i \in 1 .. Min({50, Len(b.progress)})}

FreezeReport(b) ==
  LET samples == IF RecentSamples(b) # {} THEN Min({10, Cardinality(RecentSamples(b))})
                 ELSE Min({SampleLimit, Max({b.meta, 0})})
      failed == UnitsIn(b, "failed")
  IN  [files |-> b.row.files,
       shardFiles |-> MapThenSumSet(LAMBDA s : Len(s.items), b.shards),
       errors |-> Max({ProgressErrors(b), b.meta, failed,
                       IF samples > 0 THEN samples ELSE Min({10, failed})})]

-----------------------------------------------------------------------------
(* Properties.                                                             *)

Ready == build.row.status = "ready"
Sharded == UNION {ToSet(s.items) : s \in build.shards}

\* However the shards are made, a ready manifest holds every document that can be
\* reached, once, in shards of the size that was asked for; and the modes agree on
\* what these are, except that only a walk leaves out what it cannot list.
ShardsAreTheInput ==
  /\ Ready =>
       /\ Sharded = IF build.mode = "existing_manifest"
                      THEN {build.given[i].path : i \in DOMAIN build.given}
                      ELSE Documents(build.tree, Listed(build.tree))
       /\ FreezeReport(build).shardFiles = Cardinality(Sharded)
       /\ FreezeReport(build).files = Cardinality(Sharded)
       /\ Distributed => Denied(build.tree) = {}
  /\ \A s \in build.shards : Len(s.items) \in 1 .. build.target

\* Shards are numbered from 1 without a number used twice, however jobs of an older
\* build go on (construction.py).
ShardsAreNumbered ==
  {s.index : s \in build.shards} = 1 .. Cardinality(build.shards)

\* A report never says that nothing was left out when something was, as long as the
\* progress events are kept (freeze.py).
ErrorsAreReported ==
  (Ready /\ build.kept >= Cardinality(DOMAIN build.units)) =>
     (FreezeReport(build).errors > 0) = (build.skipped > 0)

ManifestIsTheInput == ShardsAreTheInput /\ ShardsAreNumbered /\ ErrorsAreReported
=============================================================================
