---------------------------- MODULE ManifestScan ----------------------------
(***************************************************************************)
(* Distributed scanning of one pool job (input mode                        *)
(* distributed_remote_folder_snapshot): scan units are leased to the scan  *)
(* lanes of the agents, each completed unit adds child units and shards to *)
(* a job that is already executing, and the unit that ends last freezes or *)
(* fails the manifest (domains/manifests, and the scan-unit half of        *)
(* scheduling.py).                                                         *)
(*                                                                         *)
(* Leases of shards and the way of terminal events are the subject of      *)
(* ShardLease and StaticJob.  Here a shard is just open, held or settled,  *)
(* and an agent that leaves the job's loop posts its event in that step.   *)
(***************************************************************************)
EXTENDS Integers, FiniteSets

CONSTANTS Units,        \* directories of the input tree, one scan unit each
          Root,         \* the job's input_dir
          Children,     \* subdirectories found by the scan of a unit
          Shards,       \* shard files written by all scans together
          Found,        \* the shards written by the scan of a unit
          Servers,      \* worker server ids
          NoServer,     \* assigned_server_id IS NULL
          MaxInterrupts \* bound: crashes, lost answers and early expiries

\* A shard is of the files of one directory, and every directory below Root.
ASSUME TreeAssumption ==
  /\ Root \in Units
  /\ Children \in [Units -> SUBSET Units]
  /\ Found \in [Units -> SUBSET Shards]
  /\ \A u, v \in Units : u # v => Found[u] \cap Found[v] = {}
  /\ \A below \in SUBSET Units :
       Root \in below /\ (\A u \in below : Children[u] \subseteq below)
         => below = Units
ASSUME ServersAssumption == NoServer \notin Servers
ASSUME MaxInterruptsAssumption == MaxInterrupts \in Nat

VARIABLES
  job,        \* the Job row
  manifest,   \* the Manifest row: its status, and units it has the content of
  unit,       \* ScanUnit rows
  shard,      \* WorkShard rows
  task,       \* what the scan lane of each agent is doing
  wire,       \* complete and fail requests under way
  loop,       \* agents in the execution loop of the job
  up,         \* servers whose agent process is running
  interrupts  \* faults so far

agentVars == <<task, wire, loop, up>>
scanVars == <<job, manifest, unit, shard, task, wire, loop, up, interrupts>>

-----------------------------------------------------------------------------
TerminalJob == {"succeeded", "failed", "stopped"}
JobRow == [status : {"queued", "running", "stopping"} \cup TerminalJob,
           stop : BOOLEAN]

\* `content` counts how often the content of each unit was added.
ManifestRow == [status : {"scanning", "ready", "failed"},
                content : [Units -> 0 .. 2]]

ActiveUnit == {"pending", "running", "stale"}
ReclaimableUnit == {"pending", "stale"}
SettledUnit == {"succeeded", "failed", "stopped"}
AttemptNumbers == 0 .. MaxInterrupts + 1
UnitRow == [status : {"absent"} \cup ActiveUnit \cup SettledUnit,
            owner : Servers \cup {NoServer},
            attempts : AttemptNumbers,
            expired : BOOLEAN]

TerminalShard == {"succeeded", "failed", "stopped"}
ShardRow == [status : {"absent", "pending", "running"} \cup TerminalShard,
             owner : Servers \cup {NoServer}]

Request == {"complete", "fail"} \X Servers \X Units \X AttemptNumbers
Task == [at : {"idle", "scanning", "complete", "fail"},
         unit : Units, attempt : AttemptNumbers]
NoTask == [at |-> "idle", unit |-> Root, attempt |-> 0]

NewUnit(status) ==
  [status |-> status, owner |-> NoServer, attempts |-> 0, expired |-> FALSE]
NewShard(status) == [status |-> status, owner |-> NoServer]

\* _create_distributed_scan_for_job.
ScanInit ==
  /\ job = [status |-> "queued", stop |-> FALSE]
  /\ manifest = [status |-> "scanning", content |-> [u \in Units |-> 0]]
  /\ unit = [u \in Units |-> NewUnit(IF u = Root THEN "pending" ELSE "absent")]
  /\ shard = [s \in Shards |-> NewShard("absent")]
  /\ task = [w \in Servers |-> NoTask]
  /\ wire = {}
  /\ loop = {}
  /\ up = Servers
  /\ interrupts = 0

Interrupt ==
  interrupts < MaxInterrupts /\ interrupts' = interrupts + 1

-----------------------------------------------------------------------------
(* Finalising the job and the manifest, as functions of the rows.          *)

Stopping(jobRow) == jobRow.stop \/ jobRow.status = "stopping"
Scanned(units) == \A u \in Units : units[u].status \notin ActiveUnit

\* _finalize_job_after_shard_change: only a stop waits for the scan units.
Finalized(jobRow, shards, units) ==
  LET settled ==
        \A s \in Shards : shards[s].status \in {"absent"} \cup TerminalShard
      someFailed == \E s \in Shards : shards[s].status = "failed"
  IN  CASE jobRow.status \in TerminalJob \/ ~settled -> jobRow
        [] Stopping(jobRow) /\ Scanned(units) -> [jobRow EXCEPT !.status = "stopped"]
        [] ~Stopping(jobRow) /\ someFailed -> [jobRow EXCEPT !.status = "failed"]
        [] OTHER -> jobRow

\* Mutant: a unit taken back from a lost worker does not hold the freeze.
CompleteUnlessWaiting(units) ==
  \A u \in Units : units[u].status \notin {"pending", "running", "failed"}

ScanComplete(units) ==
  /\ Scanned(units)
  /\ \A u \in Units : units[u].status # "failed"

\* Mutant: the counts are read before the unit and its children are flushed.
FrozenUnflushed(status, units) == IF ScanComplete(unit) THEN "ready" ELSE status

FrozenStatus(status, units) == IF ScanComplete(units) THEN "ready" ELSE status

FailedStatus(status, units) == IF Scanned(units) THEN "failed" ELSE status

-----------------------------------------------------------------------------
(* Claiming a unit: claim_next_scan_unit.                                  *)

Stale(row) == [row EXCEPT !.status = "stale", !.expired = FALSE]

\* Mutant: expired units wait for their worker to register again.
ReconciledNone == unit

ReconciledUnits ==
  [u \in Units |-> IF unit[u].status = "running" /\ unit[u].expired
                     THEN Stale(unit[u]) ELSE unit[u]]

\* Mutant: the parent job is not looked at.
ClaimableAnyJob(units, status) == {u \in Units : units[u].status = status}

ClaimableUnits(units, status) ==
  {u \in Units : units[u].status = status /\ job.status \in {"queued", "running"}}

\* Mutant: assigned_server_id is left as it was.
ClaimedByNobody(row, w) == [row EXCEPT !.status = "running", !.attempts = @ + 1]

ClaimedBy(row, w) ==
  [status |-> "running", owner |-> w,
   attempts |-> row.attempts + 1, expired |-> FALSE]

\* The stale phase claims among expired and stale units; when it finds none
\* its reconciliation is rolled back and the pending phase runs without one.
Claim(w, u) ==
  /\ \/ /\ u \in ClaimableUnits(ReconciledUnits, "stale")
        /\ unit' = [ReconciledUnits EXCEPT ![u] = ClaimedBy(@, w)]
     \/ /\ ClaimableUnits(ReconciledUnits, "stale") = {}
        /\ u \in ClaimableUnits(unit, "pending")
        /\ unit' = [unit EXCEPT ![u] = ClaimedBy(@, w)]
  /\ job' = IF job.status = "queued" THEN [job EXCEPT !.status = "running"] ELSE job
  /\ UNCHANGED <<manifest, shard, wire, loop, up>>

ClaimUnit(w, u) ==
  /\ w \in up /\ task[w].at = "idle"
  /\ Claim(w, u)
  /\ task' = [task EXCEPT ![w] = [at |-> "scanning", unit |-> u,
                                  attempt |-> unit'[u].attempts]]
  /\ UNCHANGED interrupts

\* The claim commits, its answer is lost; the lane asks again.
ClaimUnanswered(w, u) ==
  /\ w \in up /\ task[w].at = "idle"
  /\ Claim(w, u)
  /\ Interrupt
  /\ UNCHANGED task

-----------------------------------------------------------------------------
(* The scan lane of an agent: run_scan_unit.                               *)

\* The lane sends a request about its unit and waits for the answer; `rest`
\* is what else is under way.
Send(w, type, rest) ==
  /\ task' = [task EXCEPT ![w] = [@ EXCEPT !.at = type]]
  /\ wire' = rest \cup {<<type, w, task[w].unit, task[w].attempt>>}

\* The lane is ready for another unit.
Idle(w, rest) ==
  /\ task' = [task EXCEPT ![w] = NoTask]
  /\ wire' = rest

\* The scan ends, or raises and the lane reports a failure.
EndScan(w) ==
  /\ w \in up /\ task[w].at = "scanning"
  /\ Send(w, "complete", wire) \/ Send(w, "fail", wire)
  /\ UNCHANGED <<job, manifest, unit, shard, loop, up, interrupts>>

\* Anything but success as an answer makes the lane report a failure, once.
GoOn(w, rest) ==
  IF task[w].at = "complete" THEN Send(w, "fail", rest) ELSE Idle(w, rest)

\* No answer in time; the request may still arrive.
TimeOut(w) ==
  /\ w \in up /\ task[w].at \in {"complete", "fail"}
  /\ Interrupt
  /\ GoOn(w, wire)
  /\ UNCHANGED <<job, manifest, unit, shard, loop, up>>

-----------------------------------------------------------------------------
(* The requests: complete_scan_unit and fail_scan_unit.                    *)

\* Mutant of the transition plan: a unit that is not running any more takes
\* the other verdict all the same.
AppliesToAny(w, u, n, done) ==
  unit[u].owner = w /\ unit[u].attempts = n /\ unit[u].status # done

Applies(w, u, n, done) ==
  unit[u].owner = w /\ unit[u].attempts = n /\ unit[u].status = "running"

Accepted(w, u, n, done) ==
  unit[u].owner = w /\ unit[u].attempts = n /\ unit[u].status \in {"running", done}

EndedAs(row, status) == [row EXCEPT !.status = status, !.expired = FALSE]

\* The unit, its new children and its shards, whatever became of the job.
CompleteUnit(w, u, n) ==
  IF ~Applies(w, u, n, "succeeded") THEN UNCHANGED <<manifest, unit, shard>>
  ELSE
    /\ unit' = [v \in Units |->
                  CASE v = u -> EndedAs(unit[u], "succeeded")
                    [] v \in Children[u] /\ unit[v].status = "absent"
                         -> NewUnit("pending")
                    [] OTHER -> unit[v]]
    /\ shard' = [s \in Shards |->
                   IF s \in Found[u] THEN NewShard("pending") ELSE shard[s]]
    /\ manifest' = [status |-> FrozenStatus(manifest.status, unit'),
                    content |-> [manifest.content EXCEPT ![u] = @ + 1]]

FailUnit(w, u, n) ==
  IF ~Applies(w, u, n, "failed") THEN UNCHANGED <<manifest, unit, shard>>
  ELSE
    /\ unit' = [unit EXCEPT ![u] = EndedAs(@, "failed")]
    /\ manifest' = [manifest EXCEPT !.status = FailedStatus(@, unit')]
    /\ UNCHANGED shard

Handle(type, w, u, n) ==
  IF type = "complete" THEN CompleteUnit(w, u, n) ELSE FailUnit(w, u, n)

DoneBy(type) == IF type = "complete" THEN "succeeded" ELSE "failed"

Awaited(type, w, u, n) ==
  w \in up /\ task[w] = [at |-> type, unit |-> u, attempt |-> n]

\* The lane learns that its request was accepted, or of a conflict (409), or
\* the answer is lost.
Answer(type, w, u, n) ==
  LET rest == wire \ {<<type, w, u, n>>}
      accepted == Accepted(w, u, n, DoneBy(type))
  IN  \/ accepted /\ Idle(w, rest) /\ UNCHANGED interrupts
      \/ ~accepted /\ GoOn(w, rest) /\ UNCHANGED interrupts
      \/ Interrupt /\ GoOn(w, rest)

DeliverAwaited(type, w, u, n) ==
  /\ <<type, w, u, n>> \in wire
  /\ Awaited(type, w, u, n)
  /\ Handle(type, w, u, n)
  /\ Answer(type, w, u, n)
  /\ UNCHANGED <<job, loop, up>>

\* Nobody waits any more; the request may arrive or be lost.
DeliverLate(type, w, u, n) ==
  /\ <<type, w, u, n>> \in wire
  /\ ~Awaited(type, w, u, n)
  /\ Handle(type, w, u, n)
  /\ wire' = wire \ {<<type, w, u, n>>}
  /\ UNCHANGED <<job, task, loop, up, interrupts>>

-----------------------------------------------------------------------------
(* The execution loop of the job, at the grain that matters here.          *)

Holding(w) == \E s \in Shards : shard[s].status = "running" /\ shard[s].owner = w

Join(w) ==
  /\ w \in up \ loop
  /\ job.status = "running"
  /\ \E s \in Shards : shard[s].status = "pending"
  /\ loop' = loop \cup {w}
  /\ UNCHANGED <<job, manifest, unit, shard, task, wire, up, interrupts>>

TakeShard(w, s) ==
  /\ w \in loop /\ ~Holding(w)
  /\ ~Stopping(job) /\ job.status \notin TerminalJob
  /\ shard[s].status = "pending"
  /\ shard' = [shard EXCEPT ![s] = [status |-> "running", owner |-> w]]
  /\ UNCHANGED <<job, manifest, unit, interrupts>> /\ UNCHANGED agentVars

\* It settles, or goes back for another attempt.
EndShard(w, s) ==
  /\ shard[s] = [status |-> "running", owner |-> w] /\ w \in up
  /\ \E status \in IF Stopping(job) THEN {"stopped"}
                                    ELSE {"succeeded", "failed", "pending"} :
       shard' = [shard EXCEPT ![s] = [status |-> status, owner |-> w]]
  /\ job' = Finalized(job, shard', unit)
  /\ UNCHANGED <<manifest, unit, interrupts>> /\ UNCHANGED agentVars

\* Seeing a stop, or nothing to claim, the agent leaves; it posts job_stopped,
\* or the verdict if the summary counts no active shard.  Scan units are not
\* asked for.
LoopVerdict ==
  CASE Stopping(job) -> "stopped"
    [] \E s \in Shards : shard[s].status \in {"failed", "stopped"} -> "failed"
    [] OTHER -> "succeeded"

LeaveLoop(w) ==
  /\ w \in loop /\ ~Holding(w)
  /\ Stopping(job) \/ \A s \in Shards : shard[s].status # "pending"
  /\ loop' = loop \ {w}
  /\ job' = IF \/ job.status \in TerminalJob
               \/ ~Stopping(job) /\ \E s \in Shards : shard[s].status = "running"
              THEN job ELSE [job EXCEPT !.status = LoopVerdict]
  /\ UNCHANGED <<manifest, unit, shard, task, wire, up, interrupts>>

-----------------------------------------------------------------------------
(* The operator, servers and time.                                         *)

StopRequested ==
  [status |-> CASE job.status = "queued" -> "stopped"
                [] job.status = "running" -> "stopping"
                [] OTHER -> job.status,
   stop |-> TRUE]

\* Mutant: whatever did not succeed is stopped.
StopsUnsuccessful(u) == unit[u].status \notin {"absent", "running", "succeeded"}

StopsUnit(u) == unit[u].status \in ReclaimableUnit

RequestStop ==
  /\ unit' = [u \in Units |-> IF StopsUnit(u)
                                THEN EndedAs(unit[u], "stopped") ELSE unit[u]]
  /\ shard' = [s \in Shards |-> IF shard[s].status = "pending"
                                  THEN [shard[s] EXCEPT !.status = "stopped"]
                                  ELSE shard[s]]
  /\ job' = Finalized(StopRequested, shard', unit')
  /\ UNCHANGED <<manifest, interrupts>> /\ UNCHANGED agentVars

RefreshSummary ==
  /\ unit' = ReconciledUnits
  /\ job' = IF job.stop THEN Finalized(job, shard, unit') ELSE job
  /\ UNCHANGED <<manifest, shard, interrupts>> /\ UNCHANGED agentVars

Scanning(u) ==
  \E w \in up : task[w].at # "idle" /\ task[w].unit = u
                  /\ task[w].attempt = unit[u].attempts

\* A lease runs out: of a unit nobody works on, or of a slow worker.
ExpireLease(u) ==
  /\ unit[u].status = "running" /\ ~unit[u].expired
  /\ IF Scanning(u) THEN Interrupt ELSE UNCHANGED interrupts
  /\ unit' = [unit EXCEPT ![u].expired = TRUE]
  /\ UNCHANGED <<job, manifest, shard>> /\ UNCHANGED agentVars

Crash(w) ==
  /\ w \in up
  /\ Interrupt
  /\ up' = up \ {w}
  /\ loop' = loop \ {w}
  /\ task' = [task EXCEPT ![w] = NoTask]
  /\ UNCHANGED <<job, manifest, unit, shard, wire>>

\* Registration takes units and shards from the earlier process.
RegisterServer(w) ==
  /\ w \notin up
  /\ up' = up \cup {w}
  /\ unit' = [u \in Units |->
                IF unit[u].status = "running" /\ unit[u].owner = w
                  THEN [Stale(unit[u]) EXCEPT !.owner = NoServer] ELSE unit[u]]
  /\ shard' = [s \in Shards |->
                 IF shard[s] = [status |-> "running", owner |-> w]
                   THEN NewShard("pending") ELSE shard[s]]
  /\ UNCHANGED <<job, manifest, task, wire, loop, interrupts>>

-----------------------------------------------------------------------------
ScanNext ==
  \/ \E w \in Servers, u \in Units : ClaimUnit(w, u) \/ ClaimUnanswered(w, u)
  \/ \E w \in Servers : EndScan(w) \/ TimeOut(w) \/ Join(w) \/ LeaveLoop(w)
                          \/ Crash(w) \/ RegisterServer(w)
  \/ \E r \in Request : DeliverAwaited(r[1], r[2], r[3], r[4])
                          \/ DeliverLate(r[1], r[2], r[3], r[4])
  \/ \E w \in Servers, s \in Shards : TakeShard(w, s) \/ EndShard(w, s)
  \/ \E u \in Units : ExpireLease(u)
  \/ RequestStop \/ RefreshSummary

ScanSpec == ScanInit /\ [][ScanNext]_scanVars

\* Agents poll for units and are restarted, scans and shards end, awaited
\* requests are answered, abandoned leases run out, the loop goes on.
ScanFairness ==
  /\ SF_scanVars(\E w \in Servers, u \in Units : ClaimUnit(w, u))
  /\ \A w \in Servers : /\ WF_scanVars(EndScan(w))
                        /\ WF_scanVars(RegisterServer(w))
                        /\ WF_scanVars(Join(w)) /\ WF_scanVars(LeaveLoop(w))
  /\ \A r \in Request :
       WF_scanVars(DeliverAwaited(r[1], r[2], r[3], r[4]))
  /\ \A u \in Units : WF_scanVars(~Scanning(u) /\ ExpireLease(u))
  /\ \A w \in Servers : SF_scanVars(\E s \in Shards : TakeShard(w, s))
  /\ \A w \in Servers, s \in Shards :
       SF_scanVars(EndShard(w, s) /\ shard'[s].status # "pending")
  /\ WF_scanVars(RefreshSummary)

FairScanSpec == ScanSpec /\ ScanFairness

-----------------------------------------------------------------------------
(* Types of the rows and of the agents' state. *)
ScanTypeOK ==
  /\ job \in JobRow
  /\ manifest \in ManifestRow
  /\ unit \in [Units -> UnitRow]
  /\ shard \in [Shards -> ShardRow]
  /\ task \in [Servers -> Task]
  /\ wire \subseteq Request
  /\ loop \subseteq up /\ up \subseteq Servers
  /\ interrupts \in 0 .. MaxInterrupts
  /\ \A u \in Units : unit[u].status = "running" => unit[u].owner # NoServer

\* The totals and shards of the manifest hold the content of each unit that
\* succeeded exactly once and nothing of any other, although completions are
\* repeated, arrive after a failure report of the same attempt, or come from
\* attempts that were reclaimed.
MaterialisedOnce ==
  \A u \in Units :
    /\ manifest.content[u] = IF unit[u].status = "succeeded" THEN 1 ELSE 0
    /\ \A s \in Found[u] :
         shard[s].status # "absent" <=> unit[u].status = "succeeded"

\* The rows are of their types and hold the content of the units once.
ContentSound == ScanTypeOK /\ MaterialisedOnce

\* The freeze is neither missed nor early: a manifest whose units all succeeded
\* is ready, and one that is ready without a stop lists the whole tree,
\* whichever worker's completion came last and whatever was reclaimed before.
ReadyWhenComplete ==
  LET complete == \A u \in Units : unit[u].status = "succeeded"
  IN  /\ complete => manifest.status = "ready"
      /\ manifest.status = "ready" /\ ~job.stop => complete

\* A unit that ended keeps its verdict under late requests, stops and restarts.
UnitVerdictKept ==
  [][\A u \in Units : unit[u].status \in SettledUnit => UNCHANGED unit[u]]_scanVars

\* The claim of a scan unit reads only the status of the job, not the stop
\* flag; still no attempt begins on a job that is asked to stop or has ended.
NoScanAfterStop ==
  [][\A u \in Units :
       job.stop \/ job.status \in TerminalJob
         => unit'[u].attempts = unit[u].attempts]_scanVars

\* What has ended stays ended: units with a verdict, and scanning after a stop.
EndedStaysEnded == UnitVerdictKept /\ NoScanAfterStop

\* Scanning comes to an end: unless a unit fails, the job is stopped or gets
\* its verdict, the manifest is frozen, whatever agents crash, lose claims or
\* answers, or outlive their lease.
ScanSettles ==
  TRUE ~> \/ manifest.status = "ready"
          \/ job.stop \/ job.status \in TerminalJob
          \/ \E u \in Units : unit[u].status = "failed"

\* Claimed by the documentation: the summary of a job is terminal only after
\* the shards are stable.
VerdictAfterScan ==
  job.status = "succeeded" => Scanned(unit)

\* Claimed by a test: a failed unit, once the scan is over, fails the manifest.
FailureNotMissed ==
  /\ Scanned(unit) /\ ~job.stop
  /\ \E u \in Units : unit[u].status = "failed"
  => manifest.status = "failed"

\* Claimed by the documentation: a frozen manifest is the snapshot the job is
\* supposed to execute, its contract.
FrozenIsComplete ==
  manifest.status = "ready" => \A u \in Units : unit[u].status = "succeeded"

\* Claimed by the documentation: unclaimed shards stop immediately, running
\* ones settle, so a stop ends the job.
ScanStopEnds == job.stop ~> job.status \in TerminalJob
=============================================================================
