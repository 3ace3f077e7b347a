------------------------------ MODULE JobPage -------------------------------
(***************************************************************************)
(* The stage the page of a job shows while the kernel works on its shards: *)
(* _job_lifecycle_stage of control/domains/jobs/projection.py, computed on *)
(* every request from the row of the job and the numbers of shards, over   *)
(* the behaviours of ShardLease.  The job was sharded at creation, so it   *)
(* has no scan units.                                                      *)
(***************************************************************************)
EXTENDS ShardLease

Page == INSTANCE JobSummary

ShardCounts(j) ==
  [st \in Page!ShardStatuses |-> Cardinality({s \in ShardsOf(j) : shard[s].status = st})]
NoUnits == [st \in Page!UnitStatuses |-> 0]

StageOf(j) == Page!Stage(job[j], "not_started", ShardCounts(j), NoUnits)

\* The order in which a job may show stages besides its verdict.
Rank(stage) ==
  CASE stage \in {"queued", "running", "recovering"} -> 0
    [] stage = "failed" -> 1
    [] stage = "draining" -> 2

\* The page takes nothing back: a job it calls failed goes on failing or drains,
\* and one it calls draining drains until it has its verdict, whatever attempts
\* are retried, reclaimed or reported on late.  A failure shown early becomes
\* the verdict unless the job is stopped.
StageOnlyAdvances ==
  [][\A j \in Jobs :
       IF job'[j].status \in TerminalJob
         THEN StageOf(j) = "failed" /\ ~job'[j].stop => job'[j].status = "failed"
         ELSE /\ job[j].status \notin TerminalJob
              /\ Rank(StageOf(j)) <= Rank(StageOf(j)')]_vars

=============================================================================
