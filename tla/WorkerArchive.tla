---------------------------- MODULE WorkerArchive ----------------------------
(***************************************************************************)
(* A worker is archived (domains/workers/use_cases.py) while jobs pinned   *)
(* to it are created, handed out and run.  Archiving is one transaction    *)
(* that takes no lock before it writes: what it has read may be overtaken  *)
(* by a claim, a creation, a heartbeat or a restart of the worker.  What a *)
(* transaction has written is seen by others once it commits, and a row it *)
(* has written is locked till then (PostgreSQL, read committed).           *)
(*                                                                         *)
(* A job has one shard.  Reports, stops asked for by an operator and the   *)
(* expiry of leases are in ShardLease and StaticJob.                       *)
(***************************************************************************)
EXTENDS Integers, FiniteSets

CONSTANTS Jobs,        \* the jobs pinned to the worker
          MaxArchives, \* bound: archives that are asked for
          MaxSilences, \* bound: times a live worker is not heard of for long
          MaxCrashes   \* bound: crashes of the worker

VARIABLE fleet

-----------------------------------------------------------------------------
NoneHeld == "no job"
NoArchive == [pc |-> "idle", todo |-> {}, wrote |-> {}, ended |-> {}]
NoClaim == [pc |-> "idle", job |-> NoneHeld]

FleetInit ==
  fleet = [fresh |-> TRUE, archived |-> FALSE, alive |-> TRUE, held |-> NoneHeld,
           job |-> [j \in Jobs |-> "none"], shard |-> [j \in Jobs |-> "none"],
           archive |-> NoArchive, claim |-> NoClaim,
           counted |-> {},     \* history: the jobs there were when the archive counted
           between |-> FALSE,  \* history: the worker was started again during an archive
           archives |-> 0, silences |-> 0, crashes |-> 0]

Becomes(f) == fleet' = f
JobLocked(j) == j \in fleet.archive.wrote
ShardLocked(j) == j \in fleet.archive.ended
Open(j) == fleet.job[j] \in {"queued", "running"}

\* effective_server_status: heartbeats report idle or busy, so only silence makes a
\* worker offline.
EffectivelyOffline == ~ fleet.fresh

-----------------------------------------------------------------------------
(* The worker's row.                                                       *)

\* register and heartbeat bring an archived worker back.
Heard == [fleet EXCEPT !.fresh = TRUE, !.archived = FALSE]

Heartbeat == fleet.alive /\ Heard # fleet /\ Becomes(Heard)

Crash ==
  /\ fleet.alive /\ fleet.crashes < MaxCrashes
  /\ Becomes([fleet EXCEPT !.alive = FALSE, !.held = NoneHeld, !.crashes = @ + 1])

\* What an earlier process of the worker was running can be reclaimed.
Register ==
  /\ ~ fleet.alive
  /\ Becomes([Heard EXCEPT !.alive = TRUE, !.between = @ \/ fleet.archive # NoArchive,
                !.shard = [j \in Jobs |-> IF @[j] = "running" THEN "waiting" ELSE @[j]]])

\* The heartbeats are late: the worker is down, or cannot reach the control plane.
FallSilent ==
  /\ fleet.fresh
  /\ fleet.alive => fleet.silences < MaxSilences
  /\ Becomes([fleet EXCEPT !.fresh = FALSE,
                !.silences = IF fleet.alive THEN @ + 1 ELSE @])

-----------------------------------------------------------------------------
(* A job is created for the worker: its row is read, the job is written    *)
(* later.                                                                  *)

CreateLooks(j) ==
  /\ fleet.job[j] = "none" /\ ~ fleet.archived
  /\ Becomes([fleet EXCEPT !.job[j] = "checked"])

CreateCommits(j) ==
  /\ fleet.job[j] = "checked"
  /\ Becomes([fleet EXCEPT !.job[j] = "queued", !.shard[j] = "waiting"])

-----------------------------------------------------------------------------
(* claim_next_job.                                                         *)

ClaimReads ==
  /\ fleet.alive /\ fleet.held = NoneHeld /\ fleet.claim = NoClaim /\ ~ fleet.archived
  /\ Becomes([fleet EXCEPT !.claim.pc = "look"])

\* The answer reaches the worker, or nobody when it has died since.
Given(j, f) == [f EXCEPT !.claim = NoClaim, !.held = IF f.alive THEN j ELSE NoneHeld]

ClaimLooks ==
  /\ fleet.claim.pc = "look"
  /\ LET queued == {j \in Jobs : fleet.job[j] = "queued"}
         running == {j \in Jobs : fleet.job[j] = "running" /\ fleet.shard[j] = "waiting"}
     IN  \/ \E j \in queued : Becomes([fleet EXCEPT !.claim = [pc |-> "take", job |-> j]])
         \/ queued = {} /\ \E j \in running : Becomes(Given(j, fleet))
         \/ queued \union running = {} /\ Becomes([fleet EXCEPT !.claim = NoClaim])

\* _claim_queued_job compares and sets; a collision starts over.
ClaimTakes ==
  /\ fleet.claim.pc = "take" /\ ~ JobLocked(fleet.claim.job)
  /\ LET j == fleet.claim.job
     IN  Becomes(IF fleet.job[j] = "queued"
                   THEN Given(j, [fleet EXCEPT !.job[j] = "running"])
                   ELSE [fleet EXCEPT !.claim = NoClaim])

-----------------------------------------------------------------------------
(* The worker runs a job it was given.                                     *)

\* The claim of a shard shares the row of the job with the archive, and skips a
\* shard that is locked.
RunShard ==
  \E j \in Jobs :
    /\ fleet.held = j /\ fleet.job[j] = "running"
    /\ fleet.shard[j] = "waiting" /\ ~ ShardLocked(j)
    /\ Becomes([fleet EXCEPT !.shard[j] = "running"])

FinishJob ==
  \E j \in Jobs :
    /\ fleet.held = j /\ fleet.shard[j] = "running" /\ ~ JobLocked(j)
    /\ Becomes([fleet EXCEPT !.shard[j] = "done", !.held = NoneHeld,
                  !.job[j] = IF fleet.job[j] = "running" THEN "succeeded" ELSE @])

\* The job has been stopped, or its shard is out of reach.
LeaveJob ==
  \E j \in Jobs :
    /\ fleet.held = j
    /\ fleet.job[j] # "running" \/ fleet.shard[j] \notin {"waiting", "running"} \/ ShardLocked(j)
    /\ Becomes([fleet EXCEPT !.held = NoneHeld])

-----------------------------------------------------------------------------
(* archive_server.                                                         *)

In(pc) == fleet.archive.pc = pc
ArchiveGoes(pc) == [fleet EXCEPT !.archive.pc = pc]
Refused == [fleet EXCEPT !.archive = NoArchive]

ArchiveReads ==
  /\ In("idle") /\ fleet.archives < MaxArchives
  /\ ~ fleet.archived /\ EffectivelyOffline
  /\ Becomes([ArchiveGoes("queued") EXCEPT !.archives = @ + 1])

\* stop_assigned_queued_jobs_for_server selects the queued jobs ...
SelectsQueued ==
  /\ In("queued")
  /\ Becomes([ArchiveGoes("stop") EXCEPT
                !.archive.todo = {j \in Jobs : fleet.job[j] = "queued"}])

\* ... and stops each, whatever has become of it since, with its reclaimable shards.
WritesStop ==
  /\ In("stop") /\ fleet.archive.todo # {}
  /\ \E j \in fleet.archive.todo :
       Becomes([ArchiveGoes("shards") EXCEPT !.archive.todo = @ \ {j}, !.archive.wrote = @ \union {j}])

StopsShards ==
  /\ In("shards")
  /\ Becomes([ArchiveGoes("stop") EXCEPT
                !.archive.ended = {j \in fleet.archive.wrote : \/ j \in @
                                                               \/ fleet.shard[j] = "waiting"}])

\* Its own writes are seen by its counts.
OpenJobs == {j \in Jobs : Open(j)} \ fleet.archive.wrote
\* A bug to test with: only what the archive itself has stopped is counted.
RunningOfStopped == {j \in fleet.archive.ended : fleet.shard[j] = "running"}
RunningShards == {j \in Jobs : fleet.shard[j] = "running"}

CountsJobs ==
  /\ In("stop") /\ fleet.archive.todo = {}
  /\ Becomes(IF OpenJobs # {} THEN Refused
             ELSE [ArchiveGoes("count") EXCEPT
                     !.counted = {j \in Jobs : fleet.job[j] \notin {"none", "checked"}}])

CountsShards ==
  /\ In("count")
  /\ Becomes(IF RunningShards # {} THEN Refused ELSE ArchiveGoes("commit"))

Stopped(all, some) == [j \in Jobs |-> IF j \in some THEN "stopped" ELSE all[j]]

ArchiveCommits ==
  /\ In("commit")
  /\ Becomes([fleet EXCEPT !.archived = TRUE, !.archive = NoArchive,
                !.job = Stopped(@, fleet.archive.wrote), !.shard = Stopped(@, fleet.archive.ended)])

-----------------------------------------------------------------------------
ArchiveSteps ==
  ArchiveReads \/ SelectsQueued \/ WritesStop \/ StopsShards \/ CountsJobs \/ CountsShards
    \/ ArchiveCommits
\* What goes on by itself: requests under way, and the lanes of a worker, which is
\* started again when it dies.
Goes ==
  \/ Heartbeat \/ Register
  \/ \E j \in Jobs : CreateCommits(j)
  \/ ClaimReads \/ ClaimLooks \/ ClaimTakes
  \/ RunShard \/ FinishJob \/ LeaveJob
  \/ ~ In("idle") /\ ArchiveSteps

FleetNext ==
  \/ Goes
  \/ ArchiveReads
  \/ Crash \/ FallSilent
  \/ \E j \in Jobs : CreateLooks(j)

-----------------------------------------------------------------------------
\* An archived worker leaves nothing open behind: each job there was when the
\* archive counted has its verdict.  Of what the archive has stopped nothing runs,
\* though the claim of a shard needs no lock the archive holds (archive_server);
\* unless the worker was started again during the archive: a shard that was running
\* when the archive stopped the waiting ones is then neither stopped nor counted.
ArchivedIsIdle ==
  /\ fleet.archived => \A j \in fleet.counted : ~ Open(j)
  /\ ~ fleet.between => \A j \in Jobs : fleet.job[j] = "stopped" => fleet.shard[j] # "running"

\* A job pinned to a worker does not stay queued when the worker is archived around
\* it: a heartbeat brings the worker back, which then asks for it.
Queued == \E j \in Jobs : fleet.job[j] = "queued"
=============================================================================
