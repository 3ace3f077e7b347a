----------------------------- MODULE ShardLease -----------------------------
(***************************************************************************)
(* The scheduling kernel of the control plane: work shards leased to       *)
(* worker servers, one ShardAttempt row per claim, and the Job row whose   *)
(* terminal status follows the shards (ocr_platform/control/scheduling.py  *)
(* and the commands that call it).  Every action is one database           *)
(* transaction of the control plane or one step of a worker; the row locks *)
(* of the code (Job FOR UPDATE or FOR KEY SHARE, then WorkShard FOR        *)
(* UPDATE) are what makes each transaction a single step.                  *)
(*                                                                         *)
(* A worker is present only as far as the kernel depends on it: which      *)
(* claims it is executing, the one terminal report it writes per claim     *)
(* (kept on disk, so it may arrive late, again, or after the worker        *)
(* restarted) and its crashes.                                             *)
(***************************************************************************)
EXTENDS Integers, FiniteSets

CONSTANTS Jobs,              \* Job rows
          Shards,            \* WorkShard rows
          Servers,           \* worker server ids
          NoServer,          \* assigned_server_id IS NULL
          JobOf,             \* WorkShard.job_id
          MaxShardAttempts,  \* Job.max_shard_attempts
          LeaseTicks         \* SHARD_LEASE_SECONDS, in ticks of the clock

ASSUME NoServerAssumption == NoServer \notin Servers
ASSUME JobOfAssumption == JobOf \in [Shards -> Jobs]
ASSUME MaxShardAttemptsAssumption == MaxShardAttempts \in Nat \ {0}
ASSUME LeaseTicksAssumption == LeaseTicks \in Nat \ {0}

VARIABLES
  job,      \* Job rows: status and stop_requested
  shard,    \* WorkShard rows: status, owner, attempts (attempt_count), lease
  attempt,  \* ShardAttempt rows of each shard, by attempt_number
  working,  \* <<server, shard, attempt>>: claims a live worker is executing
  report,   \* the terminal report written for each attempt, if any
  up        \* servers whose agent process is running

vars == <<job, shard, attempt, working, report, up>>

-----------------------------------------------------------------------------
TerminalJob == {"succeeded", "failed", "stopped"}
JobStatus == {"queued", "running", "stopping"} \cup TerminalJob

TerminalShard == {"succeeded", "failed", "stopped"}
ReclaimableShard == {"pending", "retrying", "stale"}
ShardStatus == {"running"} \cup ReclaimableShard \cup TerminalShard

AttemptNumbers == 1 .. MaxShardAttempts
NoLease == -1    \* lease_expires_at IS NULL; 0 is a deadline that has passed

JobRow == [status : JobStatus, stop : BOOLEAN]
ShardRow == [status : ShardStatus,
             owner : Servers \cup {NoServer},
             attempts : 0 .. MaxShardAttempts,
             lease : NoLease .. LeaseTicks]
AttemptRow == [server : Servers \cup {NoServer},
               status : {"none", "running", "retrying", "stale"}
                          \cup TerminalShard]
NoAttempt == [server |-> NoServer, status |-> "none"]
NoReport == "none"

ShardsOf(j) == {s \in Shards : JobOf[s] = j}
Stopping(jobRow) == jobRow.stop \/ jobRow.status = "stopping"

Init ==
  /\ job = [j \in Jobs |-> [status |-> "queued", stop |-> FALSE]]
  /\ shard = [s \in Shards |-> [status |-> "pending", owner |-> NoServer,
                                attempts |-> 0, lease |-> NoLease]]
  /\ attempt = [s \in Shards |-> [n \in AttemptNumbers |-> NoAttempt]]
  /\ working = {}
  /\ report = [s \in Shards |-> [n \in AttemptNumbers |-> NoReport]]
  /\ up = Servers

-----------------------------------------------------------------------------
(* Finalising a job and reconciling its shards, as functions of the rows.  *)

\* Mutant: takes a job whose shards wait for another attempt for settled.
SettledUnlessRunning(row) == row.status # "running"

IsSettled(row) == row.status \in TerminalShard

\* The Job row after _finalize_job_after_shard_change sees the shards `rows`.
\* Only job_done succeeds a job: all shards succeeded leaves the row alone.
Finalized(jobRow, j, rows) ==
  LET settled == \A s \in ShardsOf(j) : IsSettled(rows[s])
      someFailed == \E s \in ShardsOf(j) : rows[s].status = "failed"
  IN  IF jobRow.status \in TerminalJob \/ ~settled THEN jobRow
      ELSE IF Stopping(jobRow) THEN [jobRow EXCEPT !.status = "stopped"]
      ELSE IF someFailed THEN [jobRow EXCEPT !.status = "failed"]
      ELSE jobRow

LeaseExpired(s) == shard[s].status = "running" /\ shard[s].lease = 0

\* Mutant: a shard fenced on its last attempt is left to the claim path.
NeverExhausted(s) == FALSE

AttemptsExhausted(s) ==
  shard[s].status \in ReclaimableShard /\ shard[s].attempts >= MaxShardAttempts

NeedsReconcile(s) == LeaseExpired(s) \/ AttemptsExhausted(s)

\* A stop wins over exhaustion, exhaustion over another attempt.
ReconcileStatus(s) ==
  IF Stopping(job[JobOf[s]]) THEN "stopped"
  ELSE IF shard[s].attempts >= MaxShardAttempts THEN "failed"
  ELSE "stale"

\* The row of a shard that leaves "running" or a waiting status.
Released(row, status) ==
  [status |-> status, owner |-> row.owner,
   attempts |-> row.attempts, lease |-> NoLease]

\* The row of a running shard whose deadline is `lease` ticks away.
Leased(row, lease) ==
  [status |-> "running", owner |-> row.owner,
   attempts |-> row.attempts, lease |-> lease]

ReconciledShards(j) ==
  [s \in Shards |->
     IF JobOf[s] = j /\ NeedsReconcile(s)
       THEN Released(shard[s], ReconcileStatus(s))
       ELSE shard[s]]

\* Mutants: the attempt's row is forgotten; every row of the shard is closed.
ReconcileClosesNone(s, n) == FALSE
ReconcileClosesAll(s, n) == n <= shard[s].attempts

\* The current attempt takes the shard's new status, unless it is closed:
\* terminal rows stay, and only a running row becomes stale.
ReconcileCloses(s, n) ==
  /\ n = shard[s].attempts
  /\ IF ReconcileStatus(s) = "stale"
       THEN attempt[s][n].status = "running"
       ELSE attempt[s][n].status \notin TerminalShard

Closed(row, status) == [server |-> row.server, status |-> status]

ReconciledAttempts(j) ==
  [s \in Shards |-> [n \in AttemptNumbers |->
     IF JobOf[s] = j /\ NeedsReconcile(s) /\ ReconcileCloses(s, n)
       THEN Closed(attempt[s][n], ReconcileStatus(s))
       ELSE attempt[s][n]]]

ReconciledJob(j) ==
  IF \E s \in ShardsOf(j) : NeedsReconcile(s)
    THEN Finalized(job[j], j, ReconciledShards(j))
    ELSE job[j]

\* finalize_stopped_job_if_idle, for a job that has shards.
StoppedIfIdle(jobRow, j, rows) ==
  IF jobRow.stop /\ ShardsOf(j) # {} THEN Finalized(jobRow, j, rows) ELSE jobRow

-----------------------------------------------------------------------------
(* Job commands of the control plane.                                      *)

\* A worker is handed a queued job (compare-and-set on the status).
StartJob(j) ==
  /\ job[j].status = "queued"
  /\ job' = [job EXCEPT ![j].status = "running"]
  /\ UNCHANGED <<shard, attempt, working, report, up>>

\* Mutant: every job that is not queued goes to stopping.
StopsAny(jobRow) ==
  [status |-> IF jobRow.status = "queued" THEN "stopped" ELSE "stopping",
   stop |-> TRUE]

\* policy.request_stop, then the shards nobody holds are stopped.
StopRequested(jobRow) ==
  [status |-> CASE jobRow.status = "queued" -> "stopped"
                [] jobRow.status = "running" -> "stopping"
                [] OTHER -> jobRow.status,
   stop |-> TRUE]

ReclaimableStopped(j) ==
  [s \in Shards |->
     IF JobOf[s] = j /\ shard[s].status \in ReclaimableShard
       THEN Released(shard[s], "stopped")
       ELSE shard[s]]

RequestStop(j) ==
  /\ shard' = ReclaimableStopped(j)
  /\ job' = [job EXCEPT ![j] = StoppedIfIdle(StopRequested(job[j]), j, shard')]
  /\ UNCHANGED <<attempt, working, report, up>>

\* Reading a job's summary refreshes it first.
RefreshSummary(j) ==
  /\ shard' = ReconciledShards(j)
  /\ attempt' = ReconciledAttempts(j)
  /\ job' = [job EXCEPT ![j] = StoppedIfIdle(ReconciledJob(j), j, shard')]
  /\ UNCHANGED <<working, report, up>>

-----------------------------------------------------------------------------
(* Claiming a shard.                                                       *)

\* Mutant: a shard that failed or was fenced once is never handed out again.
ClaimablePending(j, rows) == {s \in ShardsOf(j) : rows[s].status = "pending"}

Claimable(j, rows) ==
  {s \in ShardsOf(j) : /\ rows[s].status \in ReclaimableShard
                       /\ rows[s].attempts < MaxShardAttempts}

\* Interrupted work goes first; ties go by shard_index, which is left open.
ClaimCandidates(j, rows) ==
  LET recovered == {s \in Claimable(j, rows) : rows[s].status # "pending"}
  IN  IF recovered # {} THEN recovered ELSE Claimable(j, rows)

\* Mutant: a stopping job still hands out shards.
AcceptsClaimsUntilTerminal(jobRow) == jobRow.status \notin TerminalJob

AcceptsClaims(jobRow) ==
  ~jobRow.stop /\ jobRow.status \notin {"stopping"} \cup TerminalJob

\* Mutant: the deadline is one tick too far.
GrantedTooLong(w, row) ==
  [status |-> "running", owner |-> w,
   attempts |-> row.attempts + 1, lease |-> LeaseTicks + 1]

Granted(w, row) ==
  [status |-> "running", owner |-> w,
   attempts |-> row.attempts + 1, lease |-> LeaseTicks]

\* What is common to every claim request on a job a worker was handed.
ClaimRequested(j) ==
  /\ job[j].status # "queued"
  /\ AcceptsClaims(job[j])
  /\ job' = [job EXCEPT ![j] = ReconciledJob(j)]
  /\ UNCHANGED <<report, up>>

\* claim_next_pending_shard commits a claim of shard s for server w.
Grant(w, j, s) ==
  LET rows == ReconciledShards(j)
      row == Granted(w, rows[s])
  IN  /\ ClaimRequested(j)
      /\ AcceptsClaims(ReconciledJob(j))
      /\ s \in ClaimCandidates(j, rows)
      /\ shard' = [rows EXCEPT ![s] = row]
      /\ attempt' = [ReconciledAttempts(j) EXCEPT
                       ![s][row.attempts] = [server |-> w, status |-> "running"]]

Idle(w) == w \in up /\ \A c \in working : c[1] # w

ClaimShard(w, j, s) ==
  /\ Idle(w)
  /\ Grant(w, j, s)
  /\ working' = working \cup {<<w, s, shard'[s].attempts>>}

\* The claim commits but its response never reaches a worker: the request
\* timed out, or the process that sent it died.
ClaimUnanswered(w, j, s) ==
  /\ Grant(w, j, s)
  /\ UNCHANGED working

\* Nothing to hand out, but the reconciliation is committed.
ClaimNothing(j) ==
  /\ ClaimRequested(j)
  /\ \/ ~AcceptsClaims(ReconciledJob(j))
     \/ Claimable(j, ReconciledShards(j)) = {}
  /\ shard' = ReconciledShards(j)
  /\ attempt' = ReconciledAttempts(j)
  /\ UNCHANGED working

-----------------------------------------------------------------------------
(* Executing a shard and reporting on it.                                  *)

\* stopped if the stop check says so, else what the exit code says.
Outcomes(jobRow) ==
  IF Stopping(jobRow) THEN {"stopped"} ELSE {"succeeded", "failed"}

\* The worker ends attempt n with one terminal report, written to its spool
\* before it is sent.
WriteReport(w, s, n) ==
  /\ <<w, s, n>> \in working
  /\ report[s][n] = NoReport
  /\ \E outcome \in Outcomes(job[JobOf[s]]) :
       report' = [report EXCEPT ![s][n] = outcome]
  /\ UNCHANGED <<job, shard, attempt, working, up>>

\* The execution raised instead of ending (its progress update was refused, a
\* control call failed): the worker moves on and reports nothing.
AbandonClaim(w, s, n) ==
  /\ <<w, s, n>> \in working
  /\ report[s][n] = NoReport
  /\ working' = working \ {<<w, s, n>>}
  /\ UNCHANGED <<job, shard, attempt, report, up>>

\* A failed attempt is retried while attempts remain.
SettledStatus(s, requested) ==
  IF requested = "failed" /\ shard[s].attempts < MaxShardAttempts
    THEN "retrying" ELSE requested

\* Mutant: only the server is compared.
SameServer(s, n) == attempt[s][n].server = shard[s].owner

\* The update names the attempt the shard is on, and its server.
CurrentAttempt(s, n) ==
  n = shard[s].attempts /\ attempt[s][n].server = shard[s].owner

\* A terminal shard is never updated; a shard taken back from its attempt
\* takes only a terminal report from it.
Settleable(s, requested) ==
  /\ shard[s].status \notin TerminalShard
  /\ shard[s].status \in {"retrying", "stale"} => requested \in TerminalShard

ApplyUpdate(s, n, requested) ==
  LET status == SettledStatus(s, requested)
  IN  /\ CurrentAttempt(s, n)
      /\ Settleable(s, requested)
      /\ shard' = [shard EXCEPT ![s] = IF status = "running"
                                         THEN Leased(@, @.lease)
                                         ELSE Released(@, status)]
      /\ attempt' = [attempt EXCEPT ![s][n] = Closed(@, status)]
      /\ job' = IF status \in TerminalShard
                  THEN [job EXCEPT ![JobOf[s]] = Finalized(@, JobOf[s], shard')]
                  ELSE job

\* A replay on a settled shard may still finalise its job.
ReplayUpdate(s, n) ==
  /\ CurrentAttempt(s, n)
  /\ shard[s].status \in TerminalShard
  /\ job' = [job EXCEPT ![JobOf[s]] = Finalized(@, JobOf[s], shard)]
  /\ UNCHANGED <<shard, attempt>>

\* A conflict (HTTP 409), or a progress update on a shard taken back.
IgnoreUpdate(s, n, requested) ==
  /\ \/ ~CurrentAttempt(s, n)
     \/ shard[s].status \notin TerminalShard /\ ~Settleable(s, requested)
  /\ UNCHANGED <<job, shard, attempt>>

UpdateShard(s, n, requested) ==
  \/ ApplyUpdate(s, n, requested)
  \/ ReplayUpdate(s, n)
  \/ IgnoreUpdate(s, n, requested)

\* A terminal report arrives, the first time or again.  If its worker still
\* waits for the answer, the answer frees it or is lost as well.
DeliverReport(s, n) ==
  /\ report[s][n] # NoReport
  /\ UpdateShard(s, n, report[s][n])
  /\ \/ working' = {c \in working : c[2] # s \/ c[3] # n}
     \/ UNCHANGED working
  /\ UNCHANGED <<report, up>>

\* A progress update ("running") arrives, possibly long after it was sent.
DeliverProgress(s, n) ==
  /\ attempt[s][n] # NoAttempt
  /\ UpdateShard(s, n, "running")
  /\ UNCHANGED <<working, report, up>>

-----------------------------------------------------------------------------
(* Servers and time.                                                       *)

Leasing(s) == shard[s].status = "running" /\ shard[s].lease > 0

\* Mutant: a lease past its deadline is renewed.
RenewsExpired(w, j, s) ==
  JobOf[s] = j /\ shard[s].owner = w /\ shard[s].status = "running"

Renewable(w, j, s) ==
  /\ JobOf[s] = j
  /\ shard[s].owner = w
  /\ Leasing(s)

\* A busy heartbeat renews every live lease its server holds in the job it
\* names, and no other.
Heartbeat(w, j) ==
  /\ w \in up
  /\ \E c \in working : c[1] = w /\ JobOf[c[2]] = j
  /\ shard' = [s \in Shards |->
                 IF Renewable(w, j, s)
                   THEN Leased(shard[s], LeaseTicks)
                   ELSE shard[s]]
  /\ UNCHANGED <<job, attempt, working, report, up>>

Crash(w) ==
  /\ w \in up
  /\ up' = up \ {w}
  /\ working' = {c \in working : c[1] # w}
  /\ UNCHANGED <<job, shard, attempt, report>>

\* A restarted agent registers before anything else: what its server id was
\* running is taken from it, owner and all.
FencedBy(w, s) == shard[s].status = "running" /\ shard[s].owner = w

RegisterServer(w) ==
  /\ w \notin up
  /\ up' = up \cup {w}
  /\ shard' = [s \in Shards |->
                 IF FencedBy(w, s)
                   THEN Released([shard[s] EXCEPT !.owner = NoServer], "stale")
                   ELSE shard[s]]
  /\ attempt' = [s \in Shards |-> [n \in AttemptNumbers |->
                   IF /\ FencedBy(w, s)
                      /\ n = shard[s].attempts
                      /\ attempt[s][n].status = "running"
                     THEN Closed(attempt[s][n], "stale")
                     ELSE attempt[s][n]]]
  /\ UNCHANGED <<job, working, report>>

\* Time passes: every deadline comes a tick nearer.
Tick ==
  /\ \E s \in Shards : Leasing(s)
  /\ shard' = [s \in Shards |->
                 IF Leasing(s)
                   THEN Leased(shard[s], shard[s].lease - 1) ELSE shard[s]]
  /\ UNCHANGED <<job, attempt, working, report, up>>

-----------------------------------------------------------------------------
ControlStep ==
  \/ \E j \in Jobs : StartJob(j) \/ RequestStop(j) \/ RefreshSummary(j)
                       \/ ClaimNothing(j)
  \/ \E w \in Servers, j \in Jobs, s \in Shards :
       ClaimShard(w, j, s) \/ ClaimUnanswered(w, j, s)
  \/ \E s \in Shards, n \in AttemptNumbers :
       DeliverReport(s, n) \/ DeliverProgress(s, n)

WorkerStep ==
  \/ \E w \in Servers, s \in Shards, n \in AttemptNumbers :
       WriteReport(w, s, n) \/ AbandonClaim(w, s, n)
  \/ \E w \in Servers, j \in Jobs : Heartbeat(w, j)
  \/ \E w \in Servers : Crash(w) \/ RegisterServer(w)

Next == ControlStep \/ WorkerStep \/ Tick

Spec == Init /\ [][Next]_vars

\* What a deployment with at least one live worker and a polled job gives:
\* jobs are handed out, workers keep asking, executions end, spooled reports
\* are replayed until answered, time passes, and summaries are read.  Nobody
\* is obliged to crash, restart, stop a job or send a heartbeat.
Fairness ==
  /\ \A j \in Jobs : WF_vars(StartJob(j)) /\ WF_vars(RefreshSummary(j))
  /\ \A j \in Jobs : SF_vars(\E w \in Servers, s \in Shards : ClaimShard(w, j, s))
  /\ \A w \in Servers, s \in Shards, n \in AttemptNumbers :
       WF_vars(WriteReport(w, s, n))
  /\ \A s \in Shards, n \in AttemptNumbers :
       WF_vars(/\ DeliverReport(s, n)
               /\ working' = {c \in working : c[2] # s \/ c[3] # n})
  /\ \A w \in Servers : WF_vars(RegisterServer(w))
  /\ WF_vars(Tick)

FairSpec == Spec /\ Fairness

-----------------------------------------------------------------------------
(* Type invariant of the rows and of the worker-side state. *)
TypeOK ==
  /\ job \in [Jobs -> JobRow]
  /\ shard \in [Shards -> ShardRow]
  /\ attempt \in [Shards -> [AttemptNumbers -> AttemptRow]]
  /\ working \subseteq Servers \X Shards \X AttemptNumbers
  /\ report \in [Shards -> [AttemptNumbers -> {NoReport} \cup TerminalShard]]
  /\ up \subseteq Servers

\* The WorkShard row and the ShardAttempt rows are written by different
\* statements of five different commands; they must tell one story: earlier
\* attempts ended stale or retrying and none is numbered beyond attempt_count;
\* a shard that runs or waits for another attempt has the status of its
\* current attempt; it runs under a lease, on the server that attempt names;
\* and nothing else runs or holds a lease.
RowsAgree(row, rows) ==
  LET n == row.attempts
  IN  /\ \A m \in AttemptNumbers :
           /\ m < n => rows[m].status \in {"stale", "retrying"}
           /\ m > n => rows[m] = NoAttempt
      /\ row.status = "pending" => n = 0
      /\ row.status \in {"running", "retrying", "stale"}
           => n > 0 /\ rows[n].status = row.status
      /\ n > 0 => rows[n].server # NoServer
      /\ n > 0 /\ rows[n].status = "running" => row.status = "running"
      /\ row.status = "running"
           => row.lease # NoLease /\ rows[n].server = row.owner
      /\ row.status # "running" => row.lease = NoLease

AttemptAgreement == \A s \in Shards : RowsAgree(shard[s], attempt[s])

\* The rows are of their types and agree with each other.
RowsTellOneStory == TypeOK /\ AttemptAgreement

\* How a shard settled is backed by what happened: success by the report of
\* the attempt the shard is on (never of one whose lease was reclaimed),
\* failure by all attempts being used up, stopped by a stop request.
Justified(row, reports, jobRow) ==
  LET n == row.attempts
  IN  /\ row.status = "succeeded" => n > 0 /\ reports[n] = "succeeded"
      /\ row.status = "failed" => n = MaxShardAttempts
      /\ row.status = "stopped" => jobRow.stop

OutcomeJustified ==
  \A s \in Shards : Justified(shard[s], report[s], job[JobOf[s]])

\* The job row follows its shards whatever order updates, expiries, stops and
\* replays commit in: no verdict while a shard is open, the verdict the shards
\* call for, and no verdict missed once the last shard settled.
Follows(jobRow, j, rows) ==
  LET settled == \A s \in ShardsOf(j) : IsSettled(rows[s])
      someFailed == \E s \in ShardsOf(j) : rows[s].status = "failed"
  IN  /\ jobRow.status \in TerminalJob => settled
      /\ jobRow.status \in {"stopping", "stopped"} => jobRow.stop
      /\ jobRow.status = "failed" => someFailed
      /\ settled /\ jobRow.status \notin TerminalJob => ~someFailed
      /\ settled /\ ShardsOf(j) # {} /\ jobRow.stop
           => jobRow.status \in TerminalJob

JobFollowsShards == \A j \in Jobs : Follows(job[j], j, shard)

\* An attempt the shard has moved past is history: no late or repeated update
\* of it, and no reconciliation, rewrites its row.
SupersededAttemptsFrozen ==
  [][\A s \in Shards, n \in AttemptNumbers :
       n < shard[s].attempts => attempt'[s][n] = attempt[s][n]]_vars

\* Once a lease has expired, its attempt can only lose the shard or settle it:
\* neither a heartbeat nor a progress update that arrives late revives it.
ExpiredLeaseNotRevived ==
  [][\A s \in Shards :
       LeaseExpired(s) => \/ LeaseExpired(s)'
                          \/ shard'[s].status # "running"
                          \/ shard'[s].attempts > shard[s].attempts]_vars

\* What a worker did not get done in time stays so, whatever arrives later.
OldAttemptsStayOld == SupersededAttemptsFrozen /\ ExpiredLeaseNotRevived

\* The kernel keeps the promise of ShardPromise.
PromiseHolder ==
  [s \in Shards |->
     IF shard[s].status = "running" THEN shard[s].owner ELSE NoServer]
PromiseGrants == [s \in Shards |-> shard[s].attempts]
PromiseOutcome ==
  [s \in Shards |-> IF shard[s].status \in TerminalShard
                      THEN shard[s].status ELSE "open"]
PromiseStop == [j \in Jobs |-> job[j].stop]
PromiseVerdict ==
  [j \in Jobs |-> IF job[j].status \in TerminalJob
                    THEN job[j].status ELSE "open"]

Promise == INSTANCE ShardPromise
             WITH MaxGrants <- MaxShardAttempts,
                  holder <- PromiseHolder, grants <- PromiseGrants,
                  outcome <- PromiseOutcome, stop <- PromiseStop,
                  verdict <- PromiseVerdict

\* Every behaviour of the kernel is one of ShardPromise: exclusive grants,
\* bounded in number and never after a stop, one outcome per shard, one
\* verdict per job and only after all its shards settled.
KeepsPromise == Promise!Spec

\* A shard of a job nobody stops settles in the end, whatever workers crash,
\* lose claims or report late: it is reclaimed until it succeeds or has used
\* up its attempts.
ShardsSettle ==
  \A s \in Shards :
    (job[JobOf[s]].status = "running")
      ~> (shard[s].status \in TerminalShard \/ job[JobOf[s]].stop)
=============================================================================
