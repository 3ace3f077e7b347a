----------------------------- MODULE StaticJob ------------------------------
(***************************************************************************)
(* Jobs whose shards exist from the start, run by the agents' own loop     *)
(* (run_static_sharded_job in ocr_platform/agent/runner.py) on top of the  *)
(* scheduling kernel.  The kernel settles shards and ends failed and       *)
(* stopped jobs; a job succeeds only because some agent finds nothing left *)
(* to claim, reads the summary and posts job_done.  Those terminal events  *)
(* travel on their own (directly, or through the agent's event spool), so  *)
(* they arrive late, repeatedly and out of order with the shard updates.   *)
(***************************************************************************)
EXTENDS ShardLease

CONSTANT MaxFaults    \* bound: crashes and failed control calls in a behaviour

ASSUME MaxFaultsAssumption == MaxFaults \in Nat

VARIABLES
  lane,    \* where the job of each server's shard-execution lane stands
  outbox,  \* terminal events posted with static_shards_final, not yet answered
  recording,  \* record_event transactions that have read the Job row
  faults   \* crashes and failed control calls so far

loopVars == <<lane, outbox, recording, faults>>
staticVars ==
  <<job, shard, attempt, working, report, up, lane, outbox, recording, faults>>

-----------------------------------------------------------------------------
\* "loop" is the top of the while loop, "claiming" is past its stop check,
\* "unclaimed" and "summing" are the two reads after a claim returned nothing.
LanePlace == {"idle", "loop", "claiming", "working", "unclaimed", "summing"}

\* `failed` is whether final_code is set: it is by a failed shard, and stays.
Lane == [at : LanePlace, job : Jobs \cup {"none"}, failed : BOOLEAN]
NoJob == [at |-> "idle", job |-> "none", failed |-> FALSE]

FinalEvent == {"job_done", "job_failed", "job_stopped"}

StaticInit ==
  /\ Init
  /\ lane = [w \in Servers |-> NoJob]
  /\ outbox = {}
  /\ recording = {}
  /\ faults = 0

Goto(w, place) == lane' = [lane EXCEPT ![w] = [@ EXCEPT !.at = place]]

\* Mutant: the lane is not cleared when its job ends or raises.
LeaveNowhere(w) == UNCHANGED lane

Leave(w) == lane' = [lane EXCEPT ![w] = NoJob]

At(w, j, place) == w \in up /\ lane[w].at = place /\ lane[w].job = j

-----------------------------------------------------------------------------
(* Being handed a job: GET next_job of an idle agent.                      *)

\* A running job is offered while it has a shard to claim, judged after
\* expired leases were reconciled.
OffersRunning(j) ==
  job[j].status = "running" /\ Claimable(j, ReconciledShards(j)) # {}

TakeQueued(w, j) ==
  /\ StartJob(j)
  /\ lane' = [lane EXCEPT ![w] = [at |-> "loop", job |-> j, failed |-> FALSE]]

TakeRunning(w, j) ==
  /\ job[j].status = "running"
  /\ RefreshSummary(j)
  /\ IF OffersRunning(j)
       THEN lane' = [lane EXCEPT
                       ![w] = [at |-> "loop", job |-> j, failed |-> FALSE]]
       ELSE UNCHANGED lane

NextJob(w, j) ==
  /\ w \in up /\ lane[w].at = "idle"
  /\ TakeQueued(w, j) \/ TakeRunning(w, j)
  /\ UNCHANGED <<outbox, recording, faults>>

-----------------------------------------------------------------------------
(* The loop.                                                               *)

Post(j, type) == outbox' = outbox \cup {<<j, type>>}

\* Mutant: the loop ends without a word.
AnnounceNothing(j) == UNCHANGED outbox

AnnounceStop(j) == Post(j, "job_stopped")

\* The agent reads the job before each claim, and after a claim that returned
\* nothing; seeing a stop, it announces the job stopped and leaves.
CheckStop(w, j) ==
  /\ \/ At(w, j, "loop") /\ IF Stopping(job[j]) THEN Leave(w)
                                                ELSE Goto(w, "claiming")
     \/ At(w, j, "unclaimed") /\ IF Stopping(job[j]) THEN Leave(w)
                                                     ELSE Goto(w, "summing")
  /\ IF Stopping(job[j]) THEN AnnounceStop(j) ELSE UNCHANGED outbox
  /\ UNCHANGED <<job, shard, attempt, working, report, up, recording, faults>>

Claim(w, j) ==
  /\ At(w, j, "claiming")
  /\ \/ /\ \E s \in Shards : ClaimShard(w, j, s)
        /\ Goto(w, "working")
        /\ UNCHANGED faults
     \/ /\ ClaimNothing(j)
        /\ Goto(w, "unclaimed")
        /\ UNCHANGED faults
     \/ /\ ~AcceptsClaims(job[j])
        /\ Goto(w, "unclaimed")
        /\ UNCHANGED <<job, shard, attempt, working, report, up, faults>>
     \/ /\ faults < MaxFaults     \* the answer is lost, the call raises
        /\ \E s \in Shards : ClaimUnanswered(w, j, s)
        /\ Leave(w)
        /\ faults' = faults + 1
  /\ UNCHANGED <<outbox, recording>>

\* Mutant: retrying and stale shards are not counted.
SummaryCountsNoRetries(j) ==
  \E s \in ShardsOf(j) : shard'[s].status \in {"pending", "running"}

SummaryHasActive(j) ==
  \E s \in ShardsOf(j) : shard'[s].status \in {"running"} \cup ReclaimableShard
SummaryHasFailed(j) ==
  \E s \in ShardsOf(j) : shard'[s].status \in {"failed", "stopped"}

\* _finalize_static_job_without_claim: the verdict is the agent's own exit code
\* together with the counts of a summary, which is refreshed before it is read.
ReadSummary(w, j) ==
  /\ At(w, j, "summing")
  /\ RefreshSummary(j)
  /\ IF SummaryHasActive(j) THEN UNCHANGED outbox
       ELSE IF lane[w].failed \/ SummaryHasFailed(j) THEN Post(j, "job_failed")
       ELSE Post(j, "job_done")
  /\ Leave(w)
  /\ UNCHANGED <<recording, faults>>

-----------------------------------------------------------------------------
(* Executing the claimed shard.                                            *)

EndShard(w, s, n) ==
  /\ WriteReport(w, s, n)
  /\ UNCHANGED loopVars

\* The report is answered: a conflict (409) raises out of the loop, a stopped
\* shard ends it with job_stopped, anything else goes round again.
AnswerReport(w, s, n) ==
  LET refused == ~CurrentAttempt(s, n)
      outcome == report[s][n]
  IN  /\ <<w, s, n>> \in working
      /\ DeliverReport(s, n)
      /\ working' = working \ {<<w, s, n>>}
      /\ IF refused \/ outcome = "stopped"
           THEN Leave(w)
           ELSE lane' = [lane EXCEPT
                           ![w] = [at |-> "loop", job |-> @.job,
                                   failed |-> @.failed \/ outcome = "failed"]]
      /\ IF ~refused /\ outcome = "stopped"
           THEN AnnounceStop(JobOf[s]) ELSE UNCHANGED outbox
      /\ UNCHANGED <<recording, faults>>

\* Not answered, or sent again by the replay lane.
RepeatReport(s, n) ==
  /\ UNCHANGED working
  /\ UNCHANGED loopVars
  /\ DeliverReport(s, n)

RepeatProgress(s, n) ==
  /\ DeliverProgress(s, n)
  /\ UNCHANGED loopVars

-----------------------------------------------------------------------------
(* Terminal events: record_event and policy.apply_terminal_event.          *)

EventStatus(type) ==
  CASE type = "job_done" -> "succeeded"
    [] type = "job_failed" -> "failed"
    [] OTHER -> "stopped"

\* The shards are not looked at; a stop turns any verdict into stopped.
EventVerdict(jobRow, type) ==
  IF Stopping(jobRow) THEN "stopped" ELSE EventStatus(type)

\* The Job row is read without a lock ...
BeginEvent(j, type) ==
  /\ <<j, type>> \in outbox
  /\ \A r \in recording : r[1] # j \/ r[2] # type
  /\ recording' = recording \cup {<<j, type, job[j]>>}
  /\ UNCHANGED <<job, shard, attempt, working, report, up, lane, outbox, faults>>

\* ... and its status written at the end of the transaction, as decided from
\* what was read; a row read as terminal is not written.
CommitEvent(j, type, seen) ==
  /\ <<j, type, seen>> \in recording
  /\ recording' = recording \ {<<j, type, seen>>}
  /\ job' = IF seen.status \in TerminalJob THEN job
             ELSE [job EXCEPT ![j] = [@ EXCEPT !.status = EventVerdict(seen, type)]]
  /\ \/ outbox' = outbox \ {<<j, type>>}
     \/ UNCHANGED outbox          \* the answer is lost: it is sent again
  /\ UNCHANGED <<shard, attempt, working, report, up, lane, faults>>

RecordEvent(j, type) ==
  BeginEvent(j, type) \/ \E seen \in JobRow : CommitEvent(j, type, seen)

-----------------------------------------------------------------------------
(* Faults, the operator and time.                                          *)

\* A control call of the loop or an execution raises: the lane drops the job.
CallFails(w) ==
  /\ faults < MaxFaults
  /\ w \in up
  /\ \/ /\ lane[w].at \in {"loop", "claiming", "unclaimed", "summing"}
        /\ UNCHANGED <<job, shard, attempt, working, report, up>>
     \/ \E s \in Shards, n \in AttemptNumbers : AbandonClaim(w, s, n)
  /\ Leave(w)
  /\ faults' = faults + 1
  /\ UNCHANGED <<outbox, recording>>

CrashAgent(w) ==
  /\ faults < MaxFaults
  /\ Crash(w)
  /\ Leave(w)
  /\ faults' = faults + 1
  /\ UNCHANGED <<outbox, recording>>

Restart(w) == RegisterServer(w) /\ UNCHANGED loopVars

\* The lane names its job in every heartbeat while it has one.
BusyHeartbeat(w, j) == Heartbeat(w, j) /\ UNCHANGED loopVars

StopJob(j) == RequestStop(j) /\ UNCHANGED loopVars
ViewSummary(j) == RefreshSummary(j) /\ UNCHANGED loopVars
TimePasses == Tick /\ UNCHANGED loopVars

LaneStep(w, j) == CheckStop(w, j) \/ Claim(w, j) \/ ReadSummary(w, j)

StaticNext ==
  \/ \E w \in Servers, j \in Jobs :
       NextJob(w, j) \/ LaneStep(w, j) \/ BusyHeartbeat(w, j)
  \/ \E w \in Servers, s \in Shards, n \in AttemptNumbers :
       EndShard(w, s, n) \/ AnswerReport(w, s, n)
  \/ \E s \in Shards, n \in AttemptNumbers :
       RepeatReport(s, n) \/ RepeatProgress(s, n)
  \/ \E j \in Jobs, type \in FinalEvent : RecordEvent(j, type)
  \/ \E j \in Jobs : StopJob(j) \/ ViewSummary(j)
  \/ \E w \in Servers : CallFails(w) \/ CrashAgent(w) \/ Restart(w)
  \/ TimePasses

StaticSpec == StaticInit /\ [][StaticNext]_staticVars

\* Idle agents poll, lanes make progress, executions end, reports and events
\* are retried until answered, agents are restarted, time passes and somebody
\* looks at the job.  No fault, stop or heartbeat is obliged to happen.
StaticFairness ==
  /\ \A w \in Servers, j \in Jobs :
       SF_staticVars(NextJob(w, j)) /\ WF_staticVars(LaneStep(w, j))
  /\ \A w \in Servers, s \in Shards, n \in AttemptNumbers :
       WF_staticVars(EndShard(w, s, n)) /\ WF_staticVars(AnswerReport(w, s, n))
  /\ \A j \in Jobs, type \in FinalEvent :
       /\ WF_staticVars(BeginEvent(j, type))
       /\ WF_staticVars(/\ \E seen \in JobRow : CommitEvent(j, type, seen)
                        /\ outbox' = outbox \ {<<j, type>>})
  /\ \A j \in Jobs : WF_staticVars(ViewSummary(j))
  /\ \A w \in Servers : WF_staticVars(Restart(w))
  /\ WF_staticVars(TimePasses)

FairStaticSpec == StaticSpec /\ StaticFairness

-----------------------------------------------------------------------------
(* Types of the loop's state; an executing lane is one claim in `working`. *)
StaticTypeOK ==
  /\ TypeOK
  /\ lane \in [Servers -> Lane]
  /\ outbox \subseteq Jobs \X FinalEvent
  /\ recording \subseteq Jobs \X FinalEvent \X JobRow
  /\ faults \in 0 .. MaxFaults
  /\ \A w \in Servers :
       lane[w].at = "working" <=> \E c \in working : c[1] = w

\* A job is called succeeded only when every shard of it succeeded, although
\* the verdict was formed by one agent from a summary and its own exit code,
\* and reached the job later, possibly after other agents' events.
SuccessIsComplete ==
  \A j \in Jobs : job[j].status = "succeeded"
    => \A s \in ShardsOf(j) : shard[s].status = "succeeded"

\* A job that is called succeeded is, in rows of their types.
SuccessIsTrue == StaticTypeOK /\ SuccessIsComplete

\* A job with a verdict never opens again, whatever stops, late updates,
\* reconciliations and events of agents that still run its shards arrive.
VerdictNotReopened ==
  [][\A j \in Jobs : job[j].status \in TerminalJob
       => job'[j].status \in TerminalJob]_staticVars

\* A job with a verdict, or asked to stop, starts no further execution, even
\* for agents that are still in its loop.
NoClaimAfterVerdict ==
  [][\A s \in Shards :
       job[JobOf[s]].status \in TerminalJob \/ job[JobOf[s]].stop
       => shard'[s].attempts = shard[s].attempts]_staticVars

\* A verdict stands, and nothing is begun after it.
VerdictsStand == VerdictNotReopened /\ NoClaimAfterVerdict

\* As long as no agent crashes and no control call fails, a job an agent was
\* handed ends unless it is stopped, whichever agents leave the loop early
\* because others still had shards, and whatever leases expire under a slow
\* worker.
JobsEnd ==
  \A j \in Jobs :
    (job[j].status = "running") ~> (job[j].status \in TerminalJob \/ job[j].stop)

\* Under the same condition a stop request ends the job, whether the shards
\* in execution report stopped, fail into a retry that is not granted any
\* more, or lose their lease.
StopsEnd ==
  \A j \in Jobs : job[j].stop ~> (job[j].status \in TerminalJob)

\* Without faults nothing goes on for ever: neither a job nor a stop.
EverythingEnds == JobsEnd /\ StopsEnd

\* Claimed by the documentation: a job summary turns terminal only after the
\* shards are stable.
VerdictAfterShards ==
  \A j \in Jobs : job[j].status \in TerminalJob
    => \A s \in ShardsOf(j) : shard[s].status \in TerminalShard

\* Claimed by the release notes: the job's verdict converges with what became
\* of its shards; a job all of whose shards succeeded has not failed.
FailureHasFailedShard ==
  \A j \in Jobs : job[j].status = "failed"
    => \E s \in ShardsOf(j) : shard[s].status # "succeeded"

\* Claimed by the documentation and a test: a job's terminal status is stable,
\* a later terminal event does not overwrite it.
VerdictIsFinal ==
  [][\A j \in Jobs : job[j].status \in TerminalJob
       => job'[j].status = job[j].status]_staticVars
=============================================================================
