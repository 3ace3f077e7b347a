-------------------------- MODULE ShardLeaseProofs --------------------------
(***************************************************************************)
(* That the rows of ShardLease agree, that it settles shards for a reason  *)
(* and judges jobs by their shards, that it implements ShardPromise, that  *)
(* the page of a job takes nothing back, and that a job of StaticJob is    *)
(* called succeeded only when all its shards succeeded, for every value of *)
(* the constants.                                                          *)
(***************************************************************************)
EXTENDS StaticJob, JobPage, FiniteSetTheorems, TLAPS

USE NoServerAssumption, JobOfAssumption, MaxShardAttemptsAssumption,
    LeaseTicksAssumption

USE DEF NoLease

-----------------------------------------------------------------------------
(* What the row functions return. *)

\* Finalising keeps a Job row a Job row and never touches stop_requested
\* (_finalize_job_after_shard_change only writes a terminal status).
LEMMA FinalizedRow ==
  ASSUME NEW r \in JobRow, NEW j, NEW rows
  PROVE  /\ Finalized(r, j, rows) \in JobRow
         /\ Finalized(r, j, rows).stop = r.stop
  BY DEF Finalized, JobRow, JobStatus, TerminalJob

\* The same for the idle-stop finalisation of a job summary.
LEMMA StoppedIfIdleRow ==
  ASSUME NEW r \in JobRow, NEW j, NEW rows
  PROVE  /\ StoppedIfIdle(r, j, rows) \in JobRow
         /\ StoppedIfIdle(r, j, rows).stop = r.stop
  BY FinalizedRow DEF StoppedIfIdle

\* Taking a shard back, or settling it, changes its status and its lease only.
LEMMA ReleasedRow ==
  ASSUME NEW r \in ShardRow, NEW st \in ShardStatus
  PROVE  /\ Released(r, st) \in ShardRow
         /\ Released(r, st).status = st
         /\ Released(r, st).lease = NoLease
         /\ Released(r, st).attempts = r.attempts
         /\ Released(r, st).owner = r.owner
  BY DEF ShardRow, Released

\* Moving a running shard's deadline changes its lease only.
LEMMA LeasedRow ==
  ASSUME NEW r \in ShardRow, NEW l \in NoLease .. LeaseTicks
  PROVE  /\ Leased(r, l) \in ShardRow
         /\ Leased(r, l).status = "running" /\ Leased(r, l).lease = l
         /\ Leased(r, l).attempts = r.attempts
         /\ Leased(r, l).owner = r.owner
  BY DEF ShardRow, Leased, ShardStatus

\* Closing an attempt changes its status only.
LEMMA ClosedRow ==
  ASSUME NEW a \in AttemptRow,
         NEW st \in {"running", "retrying", "stale"} \cup TerminalShard
  PROVE  /\ Closed(a, st) \in AttemptRow
         /\ Closed(a, st).status = st
         /\ Closed(a, st).server = a.server
  BY DEF AttemptRow, Closed

\* Reconciling a job's shards keeps every row well typed.
LEMMA ReconciledRows ==
  ASSUME TypeOK, NEW j \in Jobs
  PROVE  /\ ReconciledShards(j) \in [Shards -> ShardRow]
         /\ ReconciledAttempts(j) \in [Shards -> [AttemptNumbers -> AttemptRow]]
         /\ ReconciledJob(j) \in JobRow
         /\ ReconciledJob(j).stop = job[j].stop
  <1>1. \A s \in Shards : ReconcileStatus(s) \in {"stopped", "failed", "stale"}
    BY DEF ReconcileStatus
  <1>2. ReconciledShards(j) \in [Shards -> ShardRow]
    <2>1. \A s \in Shards : ReconcileStatus(s) \in ShardStatus
      BY <1>1 DEF ShardStatus, ReclaimableShard, TerminalShard
    <2>2. \A s \in Shards : Released(shard[s], ReconcileStatus(s)) \in ShardRow
      BY <2>1, ReleasedRow DEF TypeOK
    <2> QED
      BY <2>2 DEF ReconciledShards, TypeOK
  <1>3. ReconciledAttempts(j) \in [Shards -> [AttemptNumbers -> AttemptRow]]
    <2>1. \A s \in Shards, n \in AttemptNumbers :
            Closed(attempt[s][n], ReconcileStatus(s)) \in AttemptRow
      BY <1>1, ClosedRow DEF TypeOK, TerminalShard
    <2> QED
      BY <2>1 DEF ReconciledAttempts, TypeOK
  <1>4. ReconciledJob(j) \in JobRow /\ ReconciledJob(j).stop = job[j].stop
    BY FinalizedRow DEF ReconciledJob, TypeOK
  <1> QED
    BY <1>2, <1>3, <1>4

\* Every step keeps the rows well typed.
LEMMA TypeStep == TypeOK /\ [Next]_vars => TypeOK'
  <1> SUFFICES ASSUME TypeOK, [Next]_vars
               PROVE  TypeOK'
    OBVIOUS
  <1> USE DEF TypeOK
  <1>1. ASSUME NEW j \in Jobs, StartJob(j)
        PROVE  TypeOK'
    BY <1>1 DEF StartJob, JobRow, JobStatus
  <1>2. ASSUME NEW j \in Jobs, RequestStop(j)
        PROVE  TypeOK'
    <2>1. StopRequested(job[j]) \in JobRow
      BY DEF StopRequested, JobRow, JobStatus, TerminalJob
    <2>2. shard' \in [Shards -> ShardRow]
      BY <1>2, ReleasedRow
         DEF RequestStop, ReclaimableStopped, ShardStatus, TerminalShard
    <2> QED
      BY <1>2, <2>1, <2>2, StoppedIfIdleRow DEF RequestStop
  <1>3. ASSUME NEW j \in Jobs, RefreshSummary(j)
        PROVE  TypeOK'
    BY <1>3, ReconciledRows, StoppedIfIdleRow DEF RefreshSummary
  <1>4. ASSUME NEW j \in Jobs, ClaimNothing(j)
        PROVE  TypeOK'
    BY <1>4, ReconciledRows DEF ClaimNothing, ClaimRequested
  <1>5. ASSUME NEW w \in Servers, NEW j \in Jobs, NEW s \in Shards,
               Grant(w, j, s)
        PROVE  /\ job' \in [Jobs -> JobRow]
               /\ shard' \in [Shards -> ShardRow]
               /\ shard'[s].attempts \in AttemptNumbers
               /\ attempt' \in [Shards -> [AttemptNumbers -> AttemptRow]]
               /\ UNCHANGED <<report, up>>
    <2> DEFINE row == Granted(w, ReconciledShards(j)[s])
    <2>1. /\ ReconciledShards(j) \in [Shards -> ShardRow]
          /\ ReconciledShards(j)[s].attempts < MaxShardAttempts
      BY <1>5, ReconciledRows DEF Grant, ClaimCandidates, Claimable
    <2>2. row \in ShardRow /\ row.attempts \in AttemptNumbers
      BY <2>1 DEF Granted, ShardRow, ShardStatus, AttemptNumbers
    <2>3. [server |-> w, status |-> "running"] \in AttemptRow
      BY DEF AttemptRow
    <2>4. shard' = [ReconciledShards(j) EXCEPT ![s] = row]
      BY <1>5 DEF Grant
    <2>5. attempt' = [ReconciledAttempts(j) EXCEPT
             ![s][row.attempts] = [server |-> w, status |-> "running"]]
      BY <1>5 DEF Grant
    <2>6. shard' \in [Shards -> ShardRow] /\ shard'[s].attempts \in AttemptNumbers
      BY <2>1, <2>2, <2>4
    <2>7. attempt' \in [Shards -> [AttemptNumbers -> AttemptRow]]
      BY <2>2, <2>3, <2>5, ReconciledRows
    <2> QED
      BY <1>5, <2>6, <2>7, ReconciledRows DEF Grant, ClaimRequested
  <1>6. ASSUME NEW w \in Servers, NEW j \in Jobs, NEW s \in Shards,
               ClaimShard(w, j, s)
        PROVE  TypeOK'
    BY <1>5, <1>6 DEF ClaimShard
  <1>7. ASSUME NEW w \in Servers, NEW j \in Jobs, NEW s \in Shards,
               ClaimUnanswered(w, j, s)
        PROVE  TypeOK'
    BY <1>5, <1>7 DEF ClaimUnanswered
  <1>8. ASSUME NEW s \in Shards, NEW n \in AttemptNumbers,
               NEW req \in {"running"} \cup TerminalShard,
               UpdateShard(s, n, req)
        PROVE  /\ job' \in [Jobs -> JobRow]
               /\ shard' \in [Shards -> ShardRow]
               /\ attempt' \in [Shards -> [AttemptNumbers -> AttemptRow]]
    <2>1. CASE ApplyUpdate(s, n, req)
      <3> DEFINE st == SettledStatus(s, req)
      <3>1. st \in ShardStatus /\ st \in {"running", "retrying"} \cup TerminalShard
        BY DEF SettledStatus, ShardStatus, ReclaimableShard, TerminalShard
      <3>2. shard' \in [Shards -> ShardRow]
        <4>1. Released(shard[s], st) \in ShardRow
          BY <3>1, ReleasedRow
        <4>2. Leased(shard[s], shard[s].lease) \in ShardRow
          <5>1. shard[s] \in ShardRow /\ shard[s].lease \in NoLease .. LeaseTicks
            BY DEF ShardRow
          <5> QED
            BY <5>1, LeasedRow
        <4> QED
          BY <2>1, <4>1, <4>2 DEF ApplyUpdate
      <3>3. attempt' \in [Shards -> [AttemptNumbers -> AttemptRow]]
        <4>1. Closed(attempt[s][n], st) \in AttemptRow
          <5>1. /\ attempt[s][n] \in AttemptRow
                /\ st \in {"running", "retrying", "stale"} \cup TerminalShard
            BY <3>1
          <5> QED
            BY <5>1, ClosedRow
        <4> QED
          BY <2>1, <4>1 DEF ApplyUpdate
      <3>4. job' \in [Jobs -> JobRow]
        BY <2>1, FinalizedRow DEF ApplyUpdate
      <3> QED
        BY <3>2, <3>3, <3>4
    <2>2. CASE ReplayUpdate(s, n)
      BY <2>2, FinalizedRow DEF ReplayUpdate
    <2>3. CASE IgnoreUpdate(s, n, req)
      BY <2>3 DEF IgnoreUpdate
    <2> QED
      BY <1>8, <2>1, <2>2, <2>3 DEF UpdateShard
  <1>9. ASSUME NEW s \in Shards, NEW n \in AttemptNumbers, DeliverReport(s, n)
        PROVE  TypeOK'
    <2>1. report[s][n] \in {"running"} \cup TerminalShard
      BY <1>9 DEF DeliverReport
    <2> QED
      BY <1>8, <1>9, <2>1 DEF DeliverReport
  <1>10. ASSUME NEW s \in Shards, NEW n \in AttemptNumbers, DeliverProgress(s, n)
         PROVE  TypeOK'
    BY <1>8, <1>10 DEF DeliverProgress
  <1>11. ASSUME NEW w \in Servers, NEW s \in Shards, NEW n \in AttemptNumbers,
                WriteReport(w, s, n)
         PROVE  TypeOK'
    <2>1. PICK outcome \in TerminalShard :
            report' = [report EXCEPT ![s][n] = outcome]
      BY <1>11 DEF WriteReport, Outcomes, TerminalShard
    <2> QED
      BY <1>11, <2>1 DEF WriteReport
  <1>17. ASSUME NEW w \in Servers, NEW s \in Shards, NEW n \in AttemptNumbers,
                AbandonClaim(w, s, n)
         PROVE  TypeOK'
    BY <1>17 DEF AbandonClaim
  <1>12. ASSUME NEW w \in Servers, NEW j \in Jobs, Heartbeat(w, j)
         PROVE  TypeOK'
    <2>1. \A s \in Shards : Leased(shard[s], LeaseTicks) \in ShardRow
      BY LeasedRow
    <2> QED
      BY <1>12, <2>1 DEF Heartbeat
  <1>13. ASSUME NEW w \in Servers, Crash(w)
         PROVE  TypeOK'
    BY <1>13 DEF Crash
  <1>14. ASSUME NEW w \in Servers, RegisterServer(w)
         PROVE  TypeOK'
    <2>1. \A s \in Shards :
            Released([shard[s] EXCEPT !.owner = NoServer], "stale") \in ShardRow
      BY DEF Released, ShardRow, ShardStatus, ReclaimableShard
    <2>2. \A s \in Shards, n \in AttemptNumbers :
            Closed(attempt[s][n], "stale") \in AttemptRow
      BY ClosedRow
    <2>3. shard' \in [Shards -> ShardRow]
      BY <1>14, <2>1 DEF RegisterServer
    <2>4. attempt' \in [Shards -> [AttemptNumbers -> AttemptRow]]
      BY <1>14, <2>2 DEF RegisterServer
    <2> QED
      BY <1>14, <2>3, <2>4 DEF RegisterServer
  <1>15. ASSUME Tick
         PROVE  TypeOK'
    <2>1. \A s \in Shards : Leasing(s) =>
            Leased(shard[s], shard[s].lease - 1) \in ShardRow
      <3>1. \A s \in Shards : Leasing(s) =>
              shard[s].lease - 1 \in NoLease .. LeaseTicks
        BY DEF Leasing, ShardRow
      <3> QED
        BY <3>1, LeasedRow
    <2> QED
      BY <1>15, <2>1 DEF Tick
  <1>16. CASE UNCHANGED vars
    BY <1>16 DEF vars
  <1> QED
    BY <1>1, <1>2, <1>3, <1>4, <1>6, <1>7, <1>9, <1>10, <1>11, <1>12, <1>13,
       <1>14, <1>15, <1>16, <1>17 DEF Next, ControlStep, WorkerStep

\* The rows and the worker-side state stay well typed whatever the workers,
\* the operator and the clock do; in particular attempt_count never exceeds
\* max_shard_attempts and every lease deadline is at most one lease away.
THEOREM TypeCorrect == Spec => []TypeOK
  <1>1. Init => TypeOK
    BY DEF Init, TypeOK, JobRow, JobStatus, ShardRow, ShardStatus,
           ReclaimableShard, AttemptRow, NoAttempt, NoReport
  <1>2. TypeOK /\ [Next]_vars => TypeOK'
    BY TypeStep
  <1> QED
    BY <1>1, <1>2, PTL DEF Spec

-----------------------------------------------------------------------------
(* The shard row and its attempt rows agree. *)

\* What TypeOK says of one shard and its attempts.
LEMMA RowTypes ==
  ASSUME TypeOK, NEW s \in Shards
  PROVE  /\ shard[s] \in ShardRow
         /\ shard[s].status \in ShardStatus
         /\ shard[s].attempts \in 0 .. MaxShardAttempts
         /\ shard[s].owner \in Servers \cup {NoServer}
         /\ shard[s].lease \in NoLease .. LeaseTicks
         /\ attempt[s] \in [AttemptNumbers -> AttemptRow]
         /\ \A n \in AttemptNumbers : attempt[s][n] \in AttemptRow
  BY DEF TypeOK, ShardRow

\* Reconciling keeps the agreement: the shard and its current attempt leave
\* "running" together, and nothing else moves.
LEMMA ReconcileAgrees ==
  ASSUME TypeOK, AttemptAgreement, NEW j \in Jobs, NEW s \in Shards
  PROVE  RowsAgree(ReconciledShards(j)[s], ReconciledAttempts(j)[s])
  <1> DEFINE row == shard[s]
             rows == attempt[s]
             n == row.attempts
             st == ReconcileStatus(s)
             row2 == ReconciledShards(j)[s]
             rows2 == ReconciledAttempts(j)[s]
  <1>1. RowsAgree(row, rows)
    BY DEF AttemptAgreement
  <1>2. n \in Nat /\ n <= MaxShardAttempts
    BY RowTypes
  <1>3. CASE ~(JobOf[s] = j /\ NeedsReconcile(s))
    <2>1. row2 = row
      BY <1>3 DEF ReconciledShards
    <2>2. rows2 = rows
      <3>1. rows2 = [m \in AttemptNumbers |-> rows[m]]
        BY <1>3 DEF ReconciledAttempts
      <3> QED
        BY <3>1, RowTypes
    <2> QED
      BY <1>1, <2>1, <2>2
  <1>4. CASE JobOf[s] = j /\ NeedsReconcile(s)
    <2>1. st \in {"stopped", "failed", "stale"}
      BY DEF ReconcileStatus
    <2>2. /\ row2.status = st /\ row2.lease = NoLease
          /\ row2.attempts = n /\ row2.owner = row.owner
      BY <1>4 DEF ReconciledShards, Released
    <2>3. \A m \in AttemptNumbers :
            rows2[m] = IF ReconcileCloses(s, m) THEN Closed(rows[m], st)
                                                ELSE rows[m]
      BY <1>4 DEF ReconciledAttempts
    <2>4. row.status \in {"running", "pending", "retrying", "stale"}
      BY <1>4 DEF NeedsReconcile, LeaseExpired, AttemptsExhausted,
                  ReclaimableShard
    <2>5. n > 0
      BY <1>1, <1>2, <1>4
         DEF RowsAgree, NeedsReconcile, LeaseExpired, AttemptsExhausted
    <2>6. n \in AttemptNumbers
      BY <1>2, <2>5 DEF AttemptNumbers
    <2>7. row.status \in {"running", "retrying", "stale"}
          /\ rows[n].status = row.status
      BY <1>1, <2>4, <2>5 DEF RowsAgree
    <2>8. st = "stale" => row.status = "running"
      BY <1>2, <1>4, <2>4
         DEF ReconcileStatus, NeedsReconcile, LeaseExpired, AttemptsExhausted
    <2>9. rows2[n] = Closed(rows[n], st)
      BY <2>3, <2>6, <2>7, <2>8 DEF ReconcileCloses, TerminalShard
    <2>10. \A m \in AttemptNumbers : m # n => rows2[m] = rows[m]
      BY <2>3 DEF ReconcileCloses
    <2>11. rows2[n].status = st /\ rows2[n].server = rows[n].server
      BY <2>9 DEF Closed
    <2>12. rows[n].server # NoServer
      BY <1>1, <2>5 DEF RowsAgree
    <2> HIDE DEF row2, rows2, st
    <2>13. \A m \in AttemptNumbers :
             /\ m < n => rows2[m].status \in {"stale", "retrying"}
             /\ m > n => rows2[m] = NoAttempt
      BY <1>1, <1>2, <2>10 DEF RowsAgree, AttemptNumbers
    <2>14. RowsAgree(row2, rows2)
      BY <2>1, <2>2, <2>5, <2>11, <2>12, <2>13 DEF RowsAgree
    <2> QED
      BY <2>14 DEF row2, rows2
  <1> QED
    BY <1>3, <1>4

\* Granting the next attempt of a shard nobody holds keeps the agreement.
LEMMA GrantAgrees ==
  ASSUME NEW row \in ShardRow, NEW rows \in [AttemptNumbers -> AttemptRow],
         NEW w \in Servers,
         RowsAgree(row, rows),
         row.status \in ReclaimableShard, row.attempts < MaxShardAttempts
  PROVE  RowsAgree(Granted(w, row),
                   [rows EXCEPT ![row.attempts + 1] =
                      [server |-> w, status |-> "running"]])
  <1> DEFINE n == row.attempts
             row2 == Granted(w, row)
             rows2 == [rows EXCEPT ![n + 1] =
                         [server |-> w, status |-> "running"]]
  <1>1. n \in Nat /\ n + 1 \in AttemptNumbers
    BY DEF ShardRow, AttemptNumbers
  <1>2. /\ row2.status = "running" /\ row2.owner = w
        /\ row2.attempts = n + 1 /\ row2.lease = LeaseTicks
    BY DEF Granted
  <1>3. rows2[n + 1].server = w /\ rows2[n + 1].status = "running"
    BY <1>1
  <1>4. \A m \in AttemptNumbers : m # n + 1 => rows2[m] = rows[m]
    OBVIOUS
  <1>5. n > 0 => rows[n].status \in {"stale", "retrying"}
    BY DEF RowsAgree, ReclaimableShard
  <1> HIDE DEF rows2, row2
  <1>6. \A m \in AttemptNumbers :
          /\ m < n + 1 => rows2[m].status \in {"stale", "retrying"}
          /\ m > n + 1 => rows2[m] = NoAttempt
    BY <1>1, <1>4, <1>5 DEF RowsAgree, AttemptNumbers
  <1>7. RowsAgree(row2, rows2)
    BY <1>1, <1>2, <1>3, <1>6 DEF RowsAgree
  <1> QED
    BY <1>7 DEF row2, rows2

\* An update that is applied writes one status to the shard and to its
\* current attempt.
LEMMA UpdateAgrees ==
  ASSUME TypeOK, AttemptAgreement,
         NEW s \in Shards, NEW n \in AttemptNumbers,
         NEW req \in {"running"} \cup TerminalShard,
         ApplyUpdate(s, n, req)
  PROVE  AttemptAgreement'
  <1> DEFINE st == SettledStatus(s, req)
  <1>1. RowsAgree(shard[s], attempt[s]) /\ n = shard[s].attempts /\ n > 0
    BY DEF AttemptAgreement, ApplyUpdate, CurrentAttempt, AttemptNumbers
  <1>2. /\ st \in {"running", "retrying"} \cup TerminalShard
        /\ st = "running" => shard[s].status = "running"
    BY <1>1, RowTypes
       DEF SettledStatus, ApplyUpdate, Settleable, RowsAgree, TerminalShard,
           ShardStatus, ReclaimableShard
  <1>3. /\ shard'[s].status = st
        /\ shard'[s].attempts = n
        /\ shard'[s].owner = shard[s].owner
        /\ shard'[s].lease = IF st = "running" THEN shard[s].lease ELSE NoLease
    BY <1>1 DEF ApplyUpdate, TypeOK, Leased, Released
  <1>4. /\ attempt'[s][n].status = st
        /\ attempt'[s][n].server = attempt[s][n].server
        /\ \A m \in AttemptNumbers : m # n => attempt'[s][m] = attempt[s][m]
    BY DEF ApplyUpdate, TypeOK, Closed
  <1>5. RowsAgree(shard'[s], attempt'[s])
    <2> HIDE DEF st
    <2>1. \A m \in AttemptNumbers :
            /\ m < n => attempt'[s][m].status \in {"stale", "retrying"}
            /\ m > n => attempt'[s][m] = NoAttempt
      BY <1>1, <1>4 DEF RowsAgree, AttemptNumbers
    <2> QED
      BY <1>1, <1>2, <1>3, <1>4, <2>1 DEF RowsAgree, TerminalShard
  <1>6. \A r \in Shards : r # s => shard'[r] = shard[r] /\ attempt'[r] = attempt[r]
    BY DEF ApplyUpdate, TypeOK
  <1> QED
    BY <1>5, <1>6 DEF AttemptAgreement

\* An update request, applied or not, keeps the agreement.
LEMMA AnyUpdateAgrees ==
  ASSUME TypeOK, AttemptAgreement,
         NEW s \in Shards, NEW n \in AttemptNumbers,
         NEW req \in {"running"} \cup TerminalShard,
         UpdateShard(s, n, req)
  PROVE  AttemptAgreement'
  <1>1. CASE ApplyUpdate(s, n, req)
    BY <1>1, UpdateAgrees
  <1>2. CASE ReplayUpdate(s, n) \/ IgnoreUpdate(s, n, req)
    BY <1>2 DEF ReplayUpdate, IgnoreUpdate, AttemptAgreement
  <1> QED
    BY <1>1, <1>2 DEF UpdateShard

\* A committed claim keeps the agreement.
LEMMA ClaimAgrees ==
  ASSUME TypeOK, AttemptAgreement, NEW w \in Servers, NEW j \in Jobs,
         NEW s \in Shards, Grant(w, j, s)
  PROVE  AttemptAgreement'
  <1> DEFINE row == ReconciledShards(j)[s]
             rows == ReconciledAttempts(j)[s]
  <1>1. /\ row \in ShardRow
        /\ rows \in [AttemptNumbers -> AttemptRow]
        /\ RowsAgree(row, rows)
    BY ReconciledRows, ReconcileAgrees
  <1>2. row.status \in ReclaimableShard /\ row.attempts < MaxShardAttempts
    BY DEF Grant, ClaimCandidates, Claimable
  <1>3. RowsAgree(shard'[s], attempt'[s])
    <2>1. shard'[s] = Granted(w, row)
      BY ReconciledRows DEF Grant
    <2>2. attempt'[s] = [rows EXCEPT ![row.attempts + 1] =
                           [server |-> w, status |-> "running"]]
      BY ReconciledRows DEF Grant, Granted
    <2>3. RowsAgree(Granted(w, row),
                    [rows EXCEPT ![row.attempts + 1] =
                       [server |-> w, status |-> "running"]])
      <3> HIDE DEF row, rows
      <3> QED
        BY <1>1, <1>2, GrantAgrees
    <2> HIDE DEF row, rows
    <2> QED
      BY <2>1, <2>2, <2>3
  <1>4. \A r \in Shards : r # s =>
          /\ shard'[r] = ReconciledShards(j)[r]
          /\ attempt'[r] = ReconciledAttempts(j)[r]
    BY ReconciledRows DEF Grant
  <1> QED
    BY <1>3, <1>4, ReconcileAgrees DEF AttemptAgreement

\* Every step keeps the shard row and its attempt rows in agreement.
LEMMA AgreementStep ==
  ASSUME TypeOK, AttemptAgreement, [Next]_vars
  PROVE  AttemptAgreement'
  <1> USE DEF AttemptAgreement
  <1>1. ASSUME NEW j \in Jobs, StartJob(j)
        PROVE  AttemptAgreement'
    BY <1>1 DEF StartJob
  <1>2. ASSUME NEW j \in Jobs, RequestStop(j)
        PROVE  AttemptAgreement'
    <2> SUFFICES ASSUME NEW s \in Shards
                 PROVE  RowsAgree(shard'[s], attempt[s])
      BY <1>2 DEF RequestStop
    <2>1. CASE shard'[s] = shard[s]
      BY <2>1
    <2>2. CASE /\ shard[s].status \in ReclaimableShard
               /\ shard'[s] = Released(shard[s], "stopped")
      BY <2>2, RowTypes DEF RowsAgree, Released, ReclaimableShard
    <2> QED
      BY <1>2, <2>1, <2>2 DEF RequestStop, ReclaimableStopped
  <1>3. ASSUME NEW j \in Jobs, RefreshSummary(j) \/ ClaimNothing(j)
        PROVE  AttemptAgreement'
    BY <1>3, ReconcileAgrees DEF RefreshSummary, ClaimNothing
  <1>4. ASSUME NEW w \in Servers, NEW j \in Jobs, NEW s \in Shards,
               ClaimShard(w, j, s) \/ ClaimUnanswered(w, j, s)
        PROVE  AttemptAgreement'
    BY <1>4, ClaimAgrees DEF ClaimShard, ClaimUnanswered
  <1>5. ASSUME NEW s \in Shards, NEW n \in AttemptNumbers, DeliverReport(s, n)
        PROVE  AttemptAgreement'
    <2>1. report[s][n] \in {"running"} \cup TerminalShard
      BY <1>5 DEF DeliverReport, TypeOK
    <2> QED
      BY <1>5, <2>1, AnyUpdateAgrees DEF DeliverReport
  <1>6. ASSUME NEW s \in Shards, NEW n \in AttemptNumbers, DeliverProgress(s, n)
        PROVE  AttemptAgreement'
    BY <1>6, AnyUpdateAgrees DEF DeliverProgress
  <1>7. ASSUME NEW w \in Servers, NEW s \in Shards, NEW n \in AttemptNumbers,
               WriteReport(w, s, n)
        PROVE  AttemptAgreement'
    BY <1>7 DEF WriteReport
  <1>14. ASSUME NEW w \in Servers, NEW s \in Shards, NEW n \in AttemptNumbers,
                AbandonClaim(w, s, n)
         PROVE  AttemptAgreement'
    BY <1>14 DEF AbandonClaim
  <1>8. ASSUME NEW s \in Shards, NEW l \in 0 .. LeaseTicks,
               Leasing(s), shard'[s] = Leased(shard[s], l)
        PROVE  RowsAgree(shard'[s], attempt[s])
    BY <1>8, RowTypes DEF RowsAgree, Leased, Leasing
  <1>9. ASSUME NEW w \in Servers, NEW j \in Jobs, Heartbeat(w, j)
        PROVE  AttemptAgreement'
    <2>1. LeaseTicks \in 0 .. LeaseTicks
      OBVIOUS
    <2> QED
      BY <1>8, <1>9, <2>1 DEF Heartbeat, Renewable
  <1>10. ASSUME Tick
         PROVE  AttemptAgreement'
    <2>1. \A s \in Shards : Leasing(s) => shard[s].lease - 1 \in 0 .. LeaseTicks
      BY RowTypes DEF Leasing
    <2> QED
      BY <1>8, <1>10, <2>1 DEF Tick
  <1>11. ASSUME NEW w \in Servers, Crash(w)
         PROVE  AttemptAgreement'
    BY <1>11 DEF Crash
  <1>12. ASSUME NEW w \in Servers, RegisterServer(w)
         PROVE  AttemptAgreement'
    <2> SUFFICES ASSUME NEW s \in Shards
                 PROVE  RowsAgree(shard'[s], attempt'[s])
      OBVIOUS
    <2> DEFINE n == shard[s].attempts
    <2>1. RowsAgree(shard[s], attempt[s]) /\ n \in Nat /\ n <= MaxShardAttempts
      BY RowTypes
    <2>2. CASE ~FencedBy(w, s)
      <3>1. shard'[s] = shard[s]
        BY <1>12, <2>2 DEF RegisterServer
      <3>2. attempt'[s] = [m \in AttemptNumbers |-> attempt[s][m]]
        BY <1>12, <2>2 DEF RegisterServer
      <3> QED
        BY <2>1, <3>1, <3>2, RowTypes
    <2>3. CASE FencedBy(w, s)
      <3>1. shard[s].status = "running" /\ n > 0 /\ n \in AttemptNumbers
        BY <2>1, <2>3 DEF FencedBy, RowsAgree, AttemptNumbers
      <3>2. /\ shard'[s].status = "stale" /\ shard'[s].attempts = n
            /\ shard'[s].lease = NoLease
        BY <1>12, <2>3, RowTypes DEF RegisterServer, Released, ShardRow
      <3>3. attempt'[s][n] = Closed(attempt[s][n], "stale")
        BY <1>12, <2>1, <2>3, <3>1 DEF RegisterServer, RowsAgree
      <3>4. \A m \in AttemptNumbers : m # n => attempt'[s][m] = attempt[s][m]
        BY <1>12 DEF RegisterServer
      <3>5. /\ attempt'[s][n].status = "stale"
            /\ attempt'[s][n].server # NoServer
        BY <2>1, <3>1, <3>3 DEF Closed, RowsAgree
      <3>6. \A m \in AttemptNumbers :
              /\ m < n => attempt'[s][m].status \in {"stale", "retrying"}
              /\ m > n => attempt'[s][m] = NoAttempt
        BY <2>1, <3>4 DEF RowsAgree, AttemptNumbers
      <3> QED
        BY <2>1, <3>1, <3>2, <3>5, <3>6 DEF RowsAgree
    <2> QED
      BY <2>2, <2>3
  <1>13. CASE UNCHANGED vars
    BY <1>13 DEF vars
  <1> QED
    BY <1>1, <1>2, <1>3, <1>4, <1>5, <1>6, <1>7, <1>9, <1>10, <1>11, <1>12,
       <1>13, <1>14 DEF Next, ControlStep, WorkerStep

\* Whatever order claims, updates, replays, expiries, restarts and stops
\* commit in, a WorkShard row and its ShardAttempt rows tell one story.
THEOREM AttemptsAgree == Spec => []AttemptAgreement
  <1> DEFINE Inv == TypeOK /\ AttemptAgreement
  <1>1. Init => AttemptAgreement
    BY DEF Init, AttemptAgreement, RowsAgree, AttemptNumbers
  <1>2. Inv /\ [Next]_vars => Inv'
    BY TypeStep, AgreementStep
  <1>3. Spec => []TypeOK
    BY TypeCorrect
  <1> QED
    BY <1>1, <1>2, <1>3, PTL DEF Spec

\* The rows are of their types and agree, as the runs check them.
THEOREM RowsAlwaysAgree == Spec => []RowsTellOneStory
  <1>1. TypeOK /\ AttemptAgreement => RowsTellOneStory
    BY DEF RowsTellOneStory
  <1> QED
    BY <1>1, TypeCorrect, AttemptsAgree, PTL

-----------------------------------------------------------------------------
(* That the kernel settles shards for a reason and judges jobs by their    *)
(* shards, and that it implements ShardPromise.                            *)

\* "stopped" is only reported once a stop was requested.
StopsReported ==
  \A s \in Shards, n \in AttemptNumbers :
    report[s][n] = "stopped" => job[JobOf[s]].stop

\* Nothing of a job is granted before the job is handed out, so that a stop
\* finds nothing of it running.
QueuedIsIdle ==
  \A s \in Shards : job[JobOf[s]].status = "queued" => shard[s].attempts = 0

\* The inductive invariant.
VerdictInv ==
  /\ RowsTellOneStory
  /\ JobFollowsShards /\ OutcomeJustified
  /\ StopsReported /\ QueuedIsIdle

-----------------------------------------------------------------------------
(* A job row beside its shards.                                            *)

\* What finalising needs of a job row, to make it follow its shards.
CouldFollow(jobRow, j, rows) ==
  /\ jobRow.status \in TerminalJob => \A s \in ShardsOf(j) : IsSettled(rows[s])
  /\ jobRow.status \in {"stopping", "stopped"} => jobRow.stop
  /\ jobRow.status = "failed" => \E s \in ShardsOf(j) : rows[s].status = "failed"

\* Whoever finalises a job leaves it with the verdict its shards call for.
LEMMA FinalizedFollows ==
  ASSUME NEW r \in JobRow, NEW j, NEW rows, CouldFollow(r, j, rows)
  PROVE  Follows(Finalized(r, j, rows), j, rows)
  <1> DEFINE final == Finalized(r, j, rows)
  <1>1. CASE r.status \in TerminalJob \/ ~\A s \in ShardsOf(j) : IsSettled(rows[s])
    <2>1. final = r
      BY <1>1 DEF Finalized
    <2> QED
      BY <1>1, <2>1 DEF CouldFollow, Follows
  <1>2. CASE /\ r.status \notin TerminalJob
             /\ \A s \in ShardsOf(j) : IsSettled(rows[s])
             /\ Stopping(r)
    <2>1. final = [r EXCEPT !.status = "stopped"]
      BY <1>2 DEF Finalized
    <2>2. final.status = "stopped" /\ final.stop
      BY <1>2, <2>1 DEF CouldFollow, Stopping, JobRow
    <2> QED
      BY <1>2, <2>2 DEF Follows, TerminalJob
  <1>3. CASE /\ r.status \notin TerminalJob
             /\ \A s \in ShardsOf(j) : IsSettled(rows[s])
             /\ ~Stopping(r)
             /\ \E s \in ShardsOf(j) : rows[s].status = "failed"
    <2>1. final = [r EXCEPT !.status = "failed"]
      BY <1>3 DEF Finalized
    <2>2. final.status = "failed"
      BY <2>1 DEF JobRow
    <2> QED
      BY <1>3, <2>2 DEF Follows, TerminalJob
  <1>4. CASE /\ r.status \notin TerminalJob
             /\ \A s \in ShardsOf(j) : IsSettled(rows[s])
             /\ ~Stopping(r)
             /\ ~\E s \in ShardsOf(j) : rows[s].status = "failed"
    <2>1. final = r
      BY <1>4 DEF Finalized
    <2> QED
      BY <1>4, <2>1 DEF CouldFollow, Follows, Stopping, TerminalJob
  <1> QED
    BY <1>1, <1>2, <1>3, <1>4

\* The same where only a stopped job is finalised, as on a summary.
LEMMA StoppedIfIdleFollows ==
  ASSUME NEW r \in JobRow, NEW j, NEW rows, Follows(r, j, rows)
  PROVE  Follows(StoppedIfIdle(r, j, rows), j, rows)
  <1>1. CouldFollow(r, j, rows)
    BY DEF Follows, CouldFollow
  <1> QED
    BY <1>1, FinalizedFollows DEF StoppedIfIdle

\* Settled shards stay as they are, so a verdict that stood goes on to stand.
LEMMA SettledStay ==
  ASSUME NEW r, NEW j, NEW rows, NEW rows2, CouldFollow(r, j, rows),
         \A s \in ShardsOf(j) : IsSettled(rows[s]) => rows2[s] = rows[s]
  PROVE  CouldFollow(r, j, rows2)
  BY DEF CouldFollow, IsSettled, TerminalShard, TerminalJob

\* Shards that are open before and after do not concern the job.
LEMMA OpenStayOpen ==
  ASSUME NEW r, NEW j, NEW rows, NEW rows2, Follows(r, j, rows),
         \A s \in ShardsOf(j) : \/ rows2[s].status = rows[s].status
                                \/ ~IsSettled(rows[s]) /\ ~IsSettled(rows2[s])
  PROVE  Follows(r, j, rows2)
  <1>1. \A s \in ShardsOf(j) :
          /\ IsSettled(rows[s]) <=> IsSettled(rows2[s])
          /\ rows[s].status = "failed" <=> rows2[s].status = "failed"
    BY DEF IsSettled, TerminalShard
  <1> QED
    BY <1>1 DEF Follows

-----------------------------------------------------------------------------
(* Reconciling.                                                            *)

\* Reconciling a job leaves settled shards and those of other jobs alone.
LEMMA ReconcileKeeps ==
  ASSUME NEW j \in Jobs, NEW s \in Shards
  PROVE  /\ IsSettled(shard[s]) => ReconciledShards(j)[s] = shard[s]
         /\ JobOf[s] # j => ReconciledShards(j)[s] = shard[s]
  BY DEF ReconciledShards, NeedsReconcile, LeaseExpired, AttemptsExhausted,
         IsSettled, TerminalShard, ReclaimableShard

\* The reconciled job follows its reconciled shards, the others go on to.
LEMMA ReconcileFollows ==
  ASSUME VerdictInv, NEW j \in Jobs
  PROVE  /\ Follows(ReconciledJob(j), j, ReconciledShards(j))
         /\ \A k \in Jobs : k # j => Follows(job[k], k, ReconciledShards(j))
  <1>1. job[j] \in JobRow /\ \A k \in Jobs : Follows(job[k], k, shard)
    BY DEF VerdictInv, RowsTellOneStory, TypeOK, JobFollowsShards
  <1>2. \A k \in Jobs : k # j =>
          \A s \in ShardsOf(k) : ReconciledShards(j)[s] = shard[s]
    BY ReconcileKeeps DEF ShardsOf
  <1>3. \A k \in Jobs : k # j => Follows(job[k], k, ReconciledShards(j))
    BY <1>1, <1>2, OpenStayOpen
  <1>4. CASE \E s \in ShardsOf(j) : NeedsReconcile(s)
    <2>1. CouldFollow(job[j], j, shard)
      BY <1>1 DEF Follows, CouldFollow
    <2>2. \A s \in ShardsOf(j) :
            IsSettled(shard[s]) => ReconciledShards(j)[s] = shard[s]
      BY ReconcileKeeps DEF ShardsOf
    <2>3. CouldFollow(job[j], j, ReconciledShards(j))
      BY <2>1, <2>2, SettledStay
    <2> QED
      BY <1>1, <1>3, <1>4, <2>3, FinalizedFollows DEF ReconciledJob
  <1>5. CASE ~\E s \in ShardsOf(j) : NeedsReconcile(s)
    <2>1. \A s \in ShardsOf(j) : ReconciledShards(j)[s] = shard[s]
      BY <1>5 DEF ReconciledShards, ShardsOf
    <2>2. Follows(job[j], j, ReconciledShards(j))
      BY <1>1, <2>1, OpenStayOpen
    <2> QED
      BY <1>3, <1>5, <2>2 DEF ReconciledJob
  <1> QED
    BY <1>4, <1>5

\* Reconciling settles a shard for a reason: a stop, or no attempt left.
LEMMA ReconcileJustified ==
  ASSUME VerdictInv, NEW j \in Jobs, NEW s \in Shards
  PROVE  Justified(ReconciledShards(j)[s], report[s], job[JobOf[s]])
  <1>1. /\ Justified(shard[s], report[s], job[JobOf[s]])
        /\ shard[s].attempts \in 0 .. MaxShardAttempts
    BY RowTypes DEF VerdictInv, RowsTellOneStory, OutcomeJustified
  <1>2. JobOf[s] \in Jobs /\ Follows(job[JobOf[s]], JobOf[s], shard)
    BY DEF VerdictInv, JobFollowsShards
  <1>3. CASE JobOf[s] = j /\ NeedsReconcile(s)
    <2>1. /\ ReconciledShards(j)[s].status = ReconcileStatus(s)
          /\ ReconciledShards(j)[s].attempts = shard[s].attempts
      BY <1>3 DEF ReconciledShards, Released
    <2>2. ReconcileStatus(s) \in {"stopped", "failed", "stale"}
      BY DEF ReconcileStatus
    <2>3. ReconcileStatus(s) = "stopped" => job[JobOf[s]].stop
      BY <1>2 DEF ReconcileStatus, Stopping, Follows
    <2>4. ReconcileStatus(s) = "failed" => shard[s].attempts = MaxShardAttempts
      BY <1>1 DEF ReconcileStatus
    <2> QED
      BY <2>1, <2>2, <2>3, <2>4 DEF Justified
  <1>4. CASE ~(JobOf[s] = j /\ NeedsReconcile(s))
    BY <1>1, <1>4 DEF ReconciledShards
  <1> QED
    BY <1>3, <1>4

-----------------------------------------------------------------------------
(* What no step undoes.                                                    *)

\* How a Job row may change: a stop request stands, no job goes back into the
\* queue, a verdict stands, and "failed" is no verdict on a stopped job.
JobMoves(old, new) ==
  /\ old.stop => new.stop
  /\ new.status = "queued" => old.status = "queued"
  /\ \/ new.status = old.status
     \/ /\ old.status \notin TerminalJob
        /\ \/ new.status \notin TerminalJob
           \/ new.status = "stopped"
           \/ new.status = "failed" /\ ~new.stop

\* Finalising changes a Job row that way, on a summary too.
LEMMA FinalizedMoves ==
  ASSUME NEW r \in JobRow, NEW j, NEW rows
  PROVE  /\ JobMoves(r, Finalized(r, j, rows))
         /\ JobMoves(r, StoppedIfIdle(r, j, rows))
  <1>1. JobMoves(r, Finalized(r, j, rows))
    BY DEF Finalized, JobMoves, Stopping, JobRow, TerminalJob
  <1>2. JobMoves(r, r)
    BY DEF JobMoves
  <1> QED
    BY <1>1, <1>2 DEF StoppedIfIdle

\* Two such changes make one, if the second leaves the stop request alone.
LEMMA MovesCompose ==
  ASSUME NEW a, NEW b, NEW c, JobMoves(a, b), JobMoves(b, c), c.stop = b.stop
  PROVE  JobMoves(a, c)
  BY DEF JobMoves

\* Every step changes a Job row that way.
LEMMA JobStep ==
  ASSUME TypeOK, [Next]_vars, NEW j \in Jobs
  PROVE  JobMoves(job[j], job'[j])
  <1>1. job[j] \in JobRow /\ job \in [Jobs -> JobRow]
    BY DEF TypeOK
  <1>2. ASSUME job'[j] = job[j]
        PROVE  JobMoves(job[j], job'[j])
    BY <1>2 DEF JobMoves
  <1>3. ASSUME NEW k \in Jobs, StartJob(k)
        PROVE  JobMoves(job[j], job'[j])
    BY <1>1, <1>3 DEF StartJob, JobMoves, JobRow, TerminalJob
  <1>4. ASSUME NEW k \in Jobs, RequestStop(k)
        PROVE  JobMoves(job[j], job'[j])
    <2> DEFINE r == StopRequested(job[k])
    <2>1. r \in JobRow /\ JobMoves(job[k], r)
      <3>1. job[k] \in JobRow
        BY <1>1
      <3> QED
        BY <3>1 DEF StopRequested, JobMoves, JobRow, JobStatus, TerminalJob
    <2>2. job' = [job EXCEPT ![k] = StoppedIfIdle(r, k, shard')]
      BY <1>4 DEF RequestStop
    <2> HIDE DEF r
    <2>3. JobMoves(job[k], StoppedIfIdle(r, k, shard'))
      BY <2>1, FinalizedMoves, StoppedIfIdleRow, MovesCompose
    <2> QED
      BY <1>1, <1>2, <2>2, <2>3
  <1>5. ASSUME NEW k \in Jobs
        PROVE  ReconciledJob(k) \in JobRow /\ JobMoves(job[k], ReconciledJob(k))
    <2>1. job[k] \in JobRow /\ ReconciledJob(k) \in JobRow
      BY <1>1, ReconciledRows
    <2>2. JobMoves(job[k], job[k])
      BY DEF JobMoves
    <2> QED
      BY <2>1, <2>2, FinalizedMoves DEF ReconciledJob
  <1>6. ASSUME NEW k \in Jobs, RefreshSummary(k)
        PROVE  JobMoves(job[j], job'[j])
    <2> DEFINE r == ReconciledJob(k)
    <2>1. job' = [job EXCEPT ![k] = StoppedIfIdle(r, k, shard')]
      BY <1>6 DEF RefreshSummary
    <2>2. r \in JobRow /\ JobMoves(job[k], r)
      BY <1>5
    <2> HIDE DEF r
    <2>3. JobMoves(job[k], StoppedIfIdle(r, k, shard'))
      BY <2>2, FinalizedMoves, StoppedIfIdleRow, MovesCompose
    <2> QED
      BY <1>1, <1>2, <2>1, <2>3
  <1>7. ASSUME NEW k \in Jobs, ClaimRequested(k)
        PROVE  JobMoves(job[j], job'[j])
    BY <1>1, <1>2, <1>5, <1>7 DEF ClaimRequested
  <1>8. ASSUME NEW s \in Shards, NEW n \in AttemptNumbers, NEW req,
               UpdateShard(s, n, req)
        PROVE  JobMoves(job[j], job'[j])
    <2>1. CASE job' = job
      BY <1>2, <2>1
    <2>2. ASSUME NEW rows,
                 job' = [job EXCEPT ![JobOf[s]] = Finalized(@, JobOf[s], rows)]
          PROVE  JobMoves(job[j], job'[j])
      BY <1>1, <1>2, <2>2, FinalizedMoves
    <2> QED
      BY <1>8, <2>1, <2>2
         DEF UpdateShard, ApplyUpdate, ReplayUpdate, IgnoreUpdate
  <1>9. ASSUME job' = job
        PROVE  JobMoves(job[j], job'[j])
    BY <1>2, <1>9
  <1> QED
    BY <1>3, <1>4, <1>6, <1>7, <1>8, <1>9
       DEF Next, ControlStep, WorkerStep, ClaimNothing, ClaimShard,
           ClaimUnanswered, Grant, DeliverReport, DeliverProgress, WriteReport,
           AbandonClaim, Heartbeat, Crash, RegisterServer, Tick, vars

-----------------------------------------------------------------------------
(* The job row goes on to follow its shards.                               *)

\* A stop request: what nobody holds is stopped, and a job that was still
\* queued has nothing else.
LEMMA StopFollows ==
  ASSUME VerdictInv, NEW j \in Jobs, RequestStop(j)
  PROVE  JobFollowsShards'
  <1> DEFINE r == StopRequested(job[j])
  <1>1. /\ job[j] \in JobRow /\ job \in [Jobs -> JobRow]
        /\ shard' = ReclaimableStopped(j)
        /\ job' = [job EXCEPT ![j] = StoppedIfIdle(r, j, shard')]
    BY DEF VerdictInv, RowsTellOneStory, TypeOK, RequestStop
  <1>2. \A k \in Jobs : Follows(job[k], k, shard)
    BY DEF VerdictInv, JobFollowsShards
  <1>3. \A s \in Shards :
          /\ IsSettled(shard[s]) => shard'[s] = shard[s]
          /\ JobOf[s] # j => shard'[s] = shard[s]
          /\ JobOf[s] = j /\ shard[s].status \in ReclaimableShard
               => IsSettled(shard'[s])
    BY <1>1 DEF ReclaimableStopped, Released, IsSettled, TerminalShard,
                ReclaimableShard
  <1>4. ASSUME NEW k \in Jobs, k # j
        PROVE  Follows(job'[k], k, shard')
    <2>1. \A s \in ShardsOf(k) : shard'[s] = shard[s]
      BY <1>3, <1>4 DEF ShardsOf
    <2> QED
      BY <1>1, <1>2, <1>4, <2>1, OpenStayOpen
  <1>5. job[j].status = "queued" => \A s \in ShardsOf(j) : IsSettled(shard'[s])
    <2> SUFFICES ASSUME job[j].status = "queued", NEW s \in ShardsOf(j)
                 PROVE  IsSettled(shard'[s])
      OBVIOUS
    <2>1. s \in Shards /\ JobOf[s] = j /\ shard[s].attempts = 0
      BY DEF ShardsOf, VerdictInv, QueuedIsIdle
    <2>2. RowsAgree(shard[s], attempt[s]) /\ shard[s].status \in ShardStatus
      BY <2>1, RowTypes DEF VerdictInv, RowsTellOneStory, AttemptAgreement
    <2>3. shard[s].status # "running"
      BY <2>1, <2>2 DEF RowsAgree
    <2> QED
      BY <1>3, <2>1, <2>2, <2>3 DEF ShardStatus, IsSettled
  <1>6. /\ r \in JobRow /\ r.stop
        /\ r.status = "failed" => job[j].status = "failed"
        /\ r.status \in TerminalJob
             => job[j].status \in TerminalJob \/ job[j].status = "queued"
    BY <1>1 DEF StopRequested, JobRow, JobStatus, TerminalJob
  <1>7. CouldFollow(r, j, shard')
    <2>1. CouldFollow(job[j], j, shard)
      BY <1>2 DEF Follows, CouldFollow
    <2>2. CouldFollow(job[j], j, shard')
      BY <1>3, <2>1, SettledStay DEF ShardsOf
    <2> HIDE DEF r
    <2> QED
      BY <1>5, <1>6, <2>2 DEF CouldFollow
  <1>8. Follows(job'[j], j, shard')
    <2>1. CASE ShardsOf(j) # {}
      <3>1. job'[j] = Finalized(r, j, shard')
        BY <1>1, <1>6, <2>1 DEF StoppedIfIdle
      <3> QED
        BY <1>6, <1>7, <3>1, FinalizedFollows
    <2>2. CASE ShardsOf(j) = {}
      <3>1. job'[j] = r
        BY <1>1, <2>2 DEF StoppedIfIdle
      <3> HIDE DEF r
      <3> QED
        BY <1>7, <2>2, <3>1 DEF CouldFollow, Follows
    <2> QED
      BY <2>1, <2>2
  <1> QED
    BY <1>4, <1>8 DEF JobFollowsShards

\* A grant: the job it was reconciled from is open, and so is the shard.
LEMMA GrantFollows ==
  ASSUME VerdictInv, NEW w \in Servers, NEW j \in Jobs, NEW s \in Shards,
         Grant(w, j, s)
  PROVE  JobFollowsShards'
  <1> DEFINE rows == ReconciledShards(j)
  <1>1. /\ job' = [job EXCEPT ![j] = ReconciledJob(j)]
        /\ shard' = [rows EXCEPT ![s] = Granted(w, rows[s])]
        /\ s \in ShardsOf(j) /\ rows[s].status \in ReclaimableShard
    BY DEF Grant, ClaimRequested, ClaimCandidates, Claimable
  <1>2. job \in [Jobs -> JobRow] /\ rows \in [Shards -> ShardRow]
    BY ReconciledRows DEF VerdictInv, RowsTellOneStory, TypeOK
  <1>3. /\ Follows(ReconciledJob(j), j, rows)
        /\ \A k \in Jobs : k # j => Follows(job[k], k, rows)
    BY ReconcileFollows
  <1>4. \A t \in Shards : \/ shard'[t].status = rows[t].status
                          \/ ~IsSettled(rows[t]) /\ ~IsSettled(shard'[t])
    <2>1. shard'[s].status = "running"
      BY <1>1, <1>2 DEF Granted
    <2>2. ~IsSettled(rows[s]) /\ ~IsSettled(shard'[s])
      BY <1>1, <2>1 DEF IsSettled, ReclaimableShard, TerminalShard
    <2>3. \A t \in Shards : t # s => shard'[t] = rows[t]
      BY <1>1, <1>2
    <2> QED
      BY <2>2, <2>3
  <1> HIDE DEF rows
  <1>5. \A k \in Jobs : Follows(job'[k], k, rows)
    BY <1>1, <1>2, <1>3
  <1>6. \A k \in Jobs : Follows(job'[k], k, shard')
    <2> TAKE k \in Jobs
    <2>1. \A t \in ShardsOf(k) : \/ shard'[t].status = rows[t].status
                                 \/ ~IsSettled(rows[t]) /\ ~IsSettled(shard'[t])
      BY <1>4 DEF ShardsOf
    <2> QED
      BY <1>5, <2>1, OpenStayOpen
  <1> QED
    BY <1>6 DEF JobFollowsShards

\* An update: it settles its shard and finalises the job, or leaves the shard
\* open.
LEMMA UpdateFollows ==
  ASSUME VerdictInv, NEW s \in Shards, NEW n \in AttemptNumbers, NEW req,
         UpdateShard(s, n, req)
  PROVE  JobFollowsShards'
  <1> DEFINE j == JobOf[s]
             st == SettledStatus(s, req)
  <1>1. /\ job \in [Jobs -> JobRow] /\ j \in Jobs
        /\ shard \in [Shards -> ShardRow]
    BY DEF VerdictInv, RowsTellOneStory, TypeOK
  <1>2. \A k \in Jobs : Follows(job[k], k, shard)
    BY DEF VerdictInv, JobFollowsShards
  <1>3. CouldFollow(job[j], j, shard)
    BY <1>1, <1>2 DEF Follows, CouldFollow
  <1>4. CASE ApplyUpdate(s, n, req)
    <2>1. /\ \A t \in Shards : t # s => shard'[t] = shard[t]
          /\ shard'[s].status = st
          /\ ~IsSettled(shard[s])
      BY <1>1, <1>4
         DEF ApplyUpdate, Settleable, IsSettled, Leased, Released
    <2>2. \A k \in Jobs : k # j => Follows(job[k], k, shard')
      <3> TAKE k \in Jobs
      <3>1. k # j => \A t \in ShardsOf(k) : shard'[t] = shard[t]
        BY <2>1 DEF ShardsOf
      <3> QED
        BY <1>2, <3>1, OpenStayOpen
    <2>3. CASE st \in TerminalShard
      <3>1. job' = [job EXCEPT ![j] = Finalized(@, j, shard')]
        BY <1>4, <2>3 DEF ApplyUpdate
      <3>2. CouldFollow(job[j], j, shard')
        BY <1>3, <2>1, SettledStay DEF ShardsOf
      <3>3. Follows(job'[j], j, shard')
        BY <1>1, <3>1, <3>2, FinalizedFollows
      <3> QED
        BY <1>1, <2>2, <3>1, <3>3 DEF JobFollowsShards
    <2>4. CASE st \notin TerminalShard
      <3>1. job' = job /\ ~IsSettled(shard'[s])
        BY <1>4, <2>1, <2>4 DEF ApplyUpdate, IsSettled
      <3>2. Follows(job[j], j, shard')
        <4>1. \A t \in ShardsOf(j) :
                \/ shard'[t].status = shard[t].status
                \/ ~IsSettled(shard[t]) /\ ~IsSettled(shard'[t])
          BY <2>1, <3>1 DEF ShardsOf
        <4> QED
          BY <1>1, <1>2, <4>1, OpenStayOpen
      <3> QED
        BY <2>2, <3>1, <3>2 DEF JobFollowsShards
    <2> QED
      BY <2>3, <2>4
  <1>5. CASE ReplayUpdate(s, n)
    <2>1. /\ shard' = shard
          /\ job' = [job EXCEPT ![j] = Finalized(@, j, shard)]
      BY <1>5 DEF ReplayUpdate
    <2>2. Follows(job'[j], j, shard)
      BY <1>1, <1>3, <2>1, FinalizedFollows
    <2> QED
      BY <1>1, <1>2, <2>1, <2>2 DEF JobFollowsShards
  <1>6. CASE IgnoreUpdate(s, n, req)
    BY <1>6, <1>2 DEF IgnoreUpdate, JobFollowsShards
  <1> QED
    BY <1>4, <1>5, <1>6 DEF UpdateShard

\* Deadlines that move and shards that are taken back do not concern the job.
LEMMA LeasesFollow ==
  ASSUME VerdictInv, job' = job,
         \A s \in Shards : \/ shard'[s].status = shard[s].status
                           \/ ~IsSettled(shard[s]) /\ ~IsSettled(shard'[s])
  PROVE  JobFollowsShards'
  <1> SUFFICES ASSUME NEW k \in Jobs
               PROVE  Follows(job[k], k, shard')
    BY DEF JobFollowsShards
  <1>1. Follows(job[k], k, shard)
    BY DEF VerdictInv, JobFollowsShards
  <1>2. \A s \in ShardsOf(k) : \/ shard'[s].status = shard[s].status
                               \/ ~IsSettled(shard[s]) /\ ~IsSettled(shard'[s])
    BY DEF ShardsOf
  <1> QED
    BY <1>1, <1>2, OpenStayOpen

\* Every step leaves every job with the verdict its shards call for.
LEMMA FollowsStep ==
  ASSUME VerdictInv, [Next]_vars
  PROVE  JobFollowsShards'
  <1>1. /\ job \in [Jobs -> JobRow]
        /\ \A k \in Jobs : Follows(job[k], k, shard)
    BY DEF VerdictInv, RowsTellOneStory, TypeOK, JobFollowsShards
  <1>2. ASSUME NEW j \in Jobs, StartJob(j)
        PROVE  JobFollowsShards'
    <2>1. /\ job'[j].status = "running" /\ job'[j].stop = job[j].stop
          /\ shard' = shard /\ job[j].status = "queued"
          /\ \A k \in Jobs : k # j => job'[k] = job[k]
      BY <1>1, <1>2 DEF StartJob, JobRow
    <2>2. Follows(job'[j], j, shard)
      BY <1>1, <2>1 DEF Follows, TerminalJob
    <2> QED
      BY <1>1, <2>1, <2>2 DEF JobFollowsShards
  <1>3. ASSUME NEW j \in Jobs, RequestStop(j)
        PROVE  JobFollowsShards'
    BY <1>3, StopFollows
  <1>4. ASSUME NEW j \in Jobs, RefreshSummary(j)
        PROVE  JobFollowsShards'
    <2>1. /\ shard' = ReconciledShards(j)
          /\ job' = [job EXCEPT ![j] = StoppedIfIdle(ReconciledJob(j), j, shard')]
      BY <1>4 DEF RefreshSummary
    <2>2. ReconciledJob(j) \in JobRow
      BY ReconciledRows DEF VerdictInv, RowsTellOneStory
    <2>3. Follows(job'[j], j, shard')
      BY <1>1, <2>1, <2>2, ReconcileFollows, StoppedIfIdleFollows
    <2> QED
      BY <1>1, <2>1, <2>3, ReconcileFollows DEF JobFollowsShards
  <1>5. ASSUME NEW j \in Jobs, ClaimNothing(j)
        PROVE  JobFollowsShards'
    BY <1>1, <1>5, ReconcileFollows
       DEF ClaimNothing, ClaimRequested, JobFollowsShards
  <1>6. ASSUME NEW w \in Servers, NEW j \in Jobs, NEW s \in Shards,
               ClaimShard(w, j, s) \/ ClaimUnanswered(w, j, s)
        PROVE  JobFollowsShards'
    BY <1>6, GrantFollows DEF ClaimShard, ClaimUnanswered
  <1>7. ASSUME NEW s \in Shards, NEW n \in AttemptNumbers,
               DeliverReport(s, n) \/ DeliverProgress(s, n)
        PROVE  JobFollowsShards'
    BY <1>7, UpdateFollows DEF DeliverReport, DeliverProgress
  <1>8. ASSUME NEW w \in Servers, NEW j \in Jobs, Heartbeat(w, j)
        PROVE  JobFollowsShards'
    BY <1>8, LeasesFollow DEF Heartbeat, Renewable, Leasing, Leased
  <1>9. ASSUME Tick
        PROVE  JobFollowsShards'
    BY <1>9, LeasesFollow DEF Tick, Leasing, Leased
  <1>10. ASSUME NEW w \in Servers, RegisterServer(w)
         PROVE  JobFollowsShards'
    <2>1. job' = job
      BY <1>10 DEF RegisterServer
    <2>2. \A s \in Shards :
            \/ shard'[s] = shard[s]
            \/ shard[s].status = "running" /\ shard'[s].status = "stale"
      BY <1>10 DEF RegisterServer, FencedBy, Released
    <2> QED
      BY <2>1, <2>2, LeasesFollow DEF IsSettled, TerminalShard
  <1>11. CASE UNCHANGED <<job, shard>>
    BY <1>1, <1>11 DEF JobFollowsShards
  <1> QED
    BY <1>2, <1>3, <1>4, <1>5, <1>6, <1>7, <1>8, <1>9, <1>10, <1>11
       DEF Next, ControlStep, WorkerStep, WriteReport, AbandonClaim, Crash, vars

-----------------------------------------------------------------------------
(* Why shards settle.                                                      *)

\* Reports are only added, and "stopped" only for a stop that was requested.
LEMMA ReportStep ==
  ASSUME VerdictInv, [Next]_vars, NEW s \in Shards, NEW n \in AttemptNumbers
  PROVE  /\ report[s][n] # NoReport => report'[s][n] = report[s][n]
         /\ report'[s][n] = "stopped" => job[JobOf[s]].stop
  <1>1. /\ report[s][n] = "stopped" => job[JobOf[s]].stop
        /\ report \in [Shards -> [AttemptNumbers -> {NoReport} \cup TerminalShard]]
    BY DEF VerdictInv, StopsReported, RowsTellOneStory, TypeOK
  <1>2. CASE report' = report
    BY <1>1, <1>2
  <1>3. ASSUME NEW w \in Servers, NEW t \in Shards, NEW m \in AttemptNumbers,
               WriteReport(w, t, m)
        PROVE  /\ report[s][n] # NoReport => report'[s][n] = report[s][n]
               /\ report'[s][n] = "stopped" => job[JobOf[s]].stop
    <2>1. Follows(job[JobOf[t]], JobOf[t], shard)
      BY DEF VerdictInv, JobFollowsShards
    <2>2. PICK outcome \in Outcomes(job[JobOf[t]]) :
            report' = [report EXCEPT ![t][m] = outcome]
      BY <1>3 DEF WriteReport
    <2>3. outcome = "stopped" => job[JobOf[t]].stop
      BY <2>1 DEF Outcomes, Stopping, Follows
    <2>4. report[t][m] = NoReport
      BY <1>3 DEF WriteReport
    <2> QED
      BY <1>1, <2>2, <2>3, <2>4
  <1> QED
    BY <1>2, <1>3
       DEF Next, ControlStep, WorkerStep, StartJob, RequestStop, RefreshSummary,
           ClaimNothing, ClaimRequested, ClaimShard, ClaimUnanswered, Grant,
           DeliverReport, DeliverProgress, AbandonClaim, Heartbeat, Crash,
           RegisterServer, Tick, vars

\* What justified a row goes on to justify it.
LEMMA StaysJustified ==
  ASSUME VerdictInv, [Next]_vars, NEW s \in Shards, NEW row \in ShardRow,
         Justified(row, report[s], job[JobOf[s]])
  PROVE  Justified(row, report'[s], job'[JobOf[s]])
  <1>1. row.attempts \in 0 .. MaxShardAttempts
    BY DEF ShardRow
  <1>2. row.attempts > 0 => row.attempts \in AttemptNumbers
    BY <1>1 DEF AttemptNumbers
  <1>3. job[JobOf[s]].stop => job'[JobOf[s]].stop
    BY JobStep DEF VerdictInv, RowsTellOneStory, JobMoves
  <1> QED
    BY <1>2, <1>3, ReportStep DEF Justified, NoReport

\* An update settles its shard as its report says, or as failed when no
\* attempt is left.
LEMMA UpdateJustified ==
  ASSUME VerdictInv, NEW s \in Shards, NEW n \in AttemptNumbers,
         NEW req \in {"running"} \cup TerminalShard,
         req = "running" \/ req = report[s][n],
         UpdateShard(s, n, req)
  PROVE  \A t \in Shards : Justified(shard'[t], report[t], job[JobOf[t]])
  <1>1. /\ shard \in [Shards -> ShardRow]
        /\ \A t \in Shards : Justified(shard[t], report[t], job[JobOf[t]])
        /\ shard[s].attempts \in 0 .. MaxShardAttempts
    BY RowTypes DEF VerdictInv, RowsTellOneStory, TypeOK, OutcomeJustified
  <1>2. CASE shard' = shard
    BY <1>1, <1>2
  <1>3. CASE ApplyUpdate(s, n, req)
    <2> DEFINE st == SettledStatus(s, req)
    <2>1. /\ \A t \in Shards : t # s => shard'[t] = shard[t]
          /\ shard'[s].status = st /\ shard'[s].attempts = n
          /\ n = shard[s].attempts
      BY <1>1, <1>3 DEF ApplyUpdate, CurrentAttempt, Leased, Released
    <2>2. /\ st = "succeeded" => report[s][n] = "succeeded"
          /\ st = "failed" => n = MaxShardAttempts
          /\ st = "stopped" => report[s][n] = "stopped"
      BY <1>1, <2>1 DEF SettledStatus
    <2>3. n > 0 /\ (report[s][n] = "stopped" => job[JobOf[s]].stop)
      BY DEF AttemptNumbers, VerdictInv, StopsReported
    <2> QED
      BY <1>1, <2>1, <2>2, <2>3 DEF Justified
  <1> QED
    BY <1>2, <1>3 DEF UpdateShard, ReplayUpdate, IgnoreUpdate

\* Every step settles shards for a reason.
LEMMA JustifiedStep ==
  ASSUME VerdictInv, [Next]_vars
  PROVE  OutcomeJustified'
  <1>1. /\ TypeOK /\ shard \in [Shards -> ShardRow]
        /\ \A s \in Shards : Justified(shard[s], report[s], job[JobOf[s]])
        /\ shard' \in [Shards -> ShardRow]
    BY TypeStep DEF VerdictInv, RowsTellOneStory, OutcomeJustified, TypeOK
  <1> SUFFICES ASSUME NEW s \in Shards
               PROVE  Justified(shard'[s], report'[s], job'[JobOf[s]])
    BY DEF OutcomeJustified
  <1> DEFINE Before == Justified(shard'[s], report[s], job[JobOf[s]])
             After == Justified(shard'[s], report'[s], job'[JobOf[s]])
  <1>2. Before => After
    BY <1>1, StaysJustified
  <1>3. ASSUME NEW j \in Jobs, RequestStop(j)
        PROVE  After
    <2>1. CASE shard'[s] = shard[s]
      BY <1>1, <1>2, <2>1
    <2>2. CASE JobOf[s] = j /\ shard'[s] = Released(shard[s], "stopped")
      <3>1. StopRequested(job[j]) \in JobRow /\ StopRequested(job[j]).stop
        BY <1>1 DEF TypeOK, StopRequested, JobRow, JobStatus, TerminalJob
      <3>2. job'[j].stop
        BY <1>1, <1>3, <3>1, StoppedIfIdleRow DEF RequestStop, TypeOK
      <3> QED
        BY <2>2, <3>2 DEF Justified, Released
    <2> QED
      BY <1>3, <2>1, <2>2 DEF RequestStop, ReclaimableStopped
  <1>4. ASSUME NEW j \in Jobs, RefreshSummary(j) \/ ClaimNothing(j)
        PROVE  After
    BY <1>2, <1>4, ReconcileJustified DEF RefreshSummary, ClaimNothing
  <1>5. ASSUME NEW w \in Servers, NEW j \in Jobs, NEW t \in Shards,
               Grant(w, j, t)
        PROVE  After
    <2>1. /\ shard' = [ReconciledShards(j) EXCEPT
                         ![t] = Granted(w, ReconciledShards(j)[t])]
          /\ ReconciledShards(j) \in [Shards -> ShardRow]
      BY <1>1, <1>5, ReconciledRows DEF Grant
    <2>2. CASE s = t
      <3>1. shard'[s].status = "running"
        BY <2>1, <2>2 DEF Granted
      <3> QED
        BY <3>1 DEF Justified
    <2>3. CASE s # t
      BY <1>2, <2>1, <2>3, ReconcileJustified
    <2> QED
      BY <2>2, <2>3
  <1>6. ASSUME NEW t \in Shards, NEW n \in AttemptNumbers, DeliverReport(t, n)
        PROVE  After
    <2>1. report[t][n] \in {"running"} \cup TerminalShard
      BY <1>1, <1>6 DEF DeliverReport, TypeOK
    <2> QED
      BY <1>2, <1>6, <2>1, UpdateJustified DEF DeliverReport
  <1>7. ASSUME NEW t \in Shards, NEW n \in AttemptNumbers, DeliverProgress(t, n)
        PROVE  After
    BY <1>2, <1>7, UpdateJustified DEF DeliverProgress
  <1>8. CASE shard'[s].status \in {"running", "stale"}
    BY <1>8 DEF Justified
  <1>9. CASE shard'[s] = shard[s]
    BY <1>1, <1>2, <1>9
  <1>10. ASSUME NEW w \in Servers, NEW j \in Jobs, Heartbeat(w, j)
         PROVE  After
    BY <1>8, <1>9, <1>10 DEF Heartbeat, Leased
  <1>11. ASSUME Tick
         PROVE  After
    BY <1>8, <1>9, <1>11 DEF Tick, Leased
  <1>12. ASSUME NEW w \in Servers, RegisterServer(w)
         PROVE  After
    BY <1>8, <1>9, <1>12 DEF RegisterServer, Released
  <1>13. ASSUME shard' = shard
         PROVE  After
    BY <1>9, <1>13
  <1> HIDE DEF After, Before
  <1>14. ASSUME ControlStep
         PROVE  After
    <2>1. ASSUME NEW j \in Jobs, StartJob(j)
          PROVE  After
      BY <1>13, <2>1 DEF StartJob
    <2>2. ASSUME NEW w \in Servers, NEW j \in Jobs, NEW t \in Shards,
                 ClaimShard(w, j, t) \/ ClaimUnanswered(w, j, t)
          PROVE  After
      BY <1>5, <2>2 DEF ClaimShard, ClaimUnanswered
    <2> QED
      BY <1>3, <1>4, <1>6, <1>7, <1>14, <2>1, <2>2 DEF ControlStep
  <1>15. ASSUME WorkerStep
         PROVE  After
    <2>1. ASSUME NEW w \in Servers, NEW t \in Shards, NEW n \in AttemptNumbers,
                 WriteReport(w, t, n) \/ AbandonClaim(w, t, n)
          PROVE  After
      BY <1>13, <2>1 DEF WriteReport, AbandonClaim
    <2>2. ASSUME NEW w \in Servers, Crash(w)
          PROVE  After
      BY <1>13, <2>2 DEF Crash
    <2> QED
      BY <1>10, <1>12, <1>15, <2>1, <2>2 DEF WorkerStep
  <1> QED
    BY <1>11, <1>13, <1>14, <1>15 DEF Next, vars, After

-----------------------------------------------------------------------------
(* How a shard moves.                                                      *)

\* A WorkShard row as a step may leave it: as it was, its deadline moved at
\* most while it had not passed; no longer running; or granted once more, by a
\* job that was handed out, has no verdict and is not being stopped.
RowStep(s) ==
  LET old == shard[s]
      new == shard'[s]
  IN  \/ /\ new.status = old.status
         /\ new.owner = old.owner /\ new.attempts = old.attempts
         /\ new.lease = old.lease \/ Leasing(s)
      \/ /\ ~IsSettled(old) /\ new.status # "running"
         /\ new.attempts = old.attempts
      \/ /\ ~IsSettled(old) /\ new.status = "running"
         /\ old.attempts < MaxShardAttempts /\ new.attempts = old.attempts + 1
         /\ new.owner \in Servers
         /\ job[JobOf[s]].status \notin {"queued"} \cup TerminalJob
         /\ ~job'[JobOf[s]].stop

\* Reconciling moves a shard that way.
LEMMA ReconcileMoves ==
  ASSUME TypeOK, NEW j \in Jobs, NEW s \in Shards,
         shard'[s] = ReconciledShards(j)[s]
  PROVE  RowStep(s)
  <1>1. CASE JobOf[s] = j /\ NeedsReconcile(s)
    <2>1. /\ shard'[s].status \in {"stopped", "failed", "stale"}
          /\ shard'[s].attempts = shard[s].attempts
      BY <1>1 DEF ReconciledShards, Released, ReconcileStatus
    <2>2. ~IsSettled(shard[s])
      BY <1>1 DEF NeedsReconcile, LeaseExpired, AttemptsExhausted, IsSettled,
                  TerminalShard, ReclaimableShard
    <2> QED
      BY <2>1, <2>2 DEF RowStep
  <1>2. CASE ~(JobOf[s] = j /\ NeedsReconcile(s))
    BY <1>2 DEF ReconciledShards, RowStep
  <1> QED
    BY <1>1, <1>2

\* Every step moves every shard that way.
LEMMA RowMoves ==
  ASSUME TypeOK, AttemptAgreement, [Next]_vars, NEW s \in Shards
  PROVE  RowStep(s)
  <1>1. /\ shard \in [Shards -> ShardRow] /\ job \in [Jobs -> JobRow]
        /\ shard[s].attempts \in 0 .. MaxShardAttempts
    BY RowTypes DEF TypeOK
  <1>2. ASSUME shard'[s] = shard[s]
        PROVE  RowStep(s)
    BY <1>2 DEF RowStep
  <1>3. ASSUME NEW st, ~IsSettled(shard[s]), st # "running",
               shard'[s] = Released(shard[s], st)
        PROVE  RowStep(s)
    BY <1>3 DEF RowStep, Released
  <1>4. ASSUME NEW l, Leasing(s), shard'[s] = Leased(shard[s], l)
        PROVE  RowStep(s)
    BY <1>4 DEF RowStep, Leased, Leasing
  <1>5. ASSUME NEW j \in Jobs, RequestStop(j)
        PROVE  RowStep(s)
    BY <1>2, <1>3, <1>5
       DEF RequestStop, ReclaimableStopped, IsSettled, ReclaimableShard,
           TerminalShard
  <1>6. ASSUME NEW j \in Jobs, RefreshSummary(j) \/ ClaimNothing(j)
        PROVE  RowStep(s)
    BY <1>6, ReconcileMoves DEF RefreshSummary, ClaimNothing
  <1>7. ASSUME NEW w \in Servers, NEW j \in Jobs, NEW t \in Shards,
               Grant(w, j, t)
        PROVE  RowStep(s)
    <2> DEFINE rows == ReconciledShards(j)
    <2>1. /\ shard' = [rows EXCEPT ![t] = Granted(w, rows[t])]
          /\ rows \in [Shards -> ShardRow]
          /\ JobOf[t] = j
          /\ rows[t].status \in ReclaimableShard
          /\ rows[t].attempts < MaxShardAttempts
          /\ job[j].status \notin {"queued"} \cup TerminalJob /\ ~job[j].stop
          /\ job' = [job EXCEPT ![j] = ReconciledJob(j)]
      BY <1>7, ReconciledRows
         DEF Grant, ClaimRequested, ClaimCandidates, Claimable, ShardsOf,
             AcceptsClaims
    <2>2. CASE s # t
      BY <2>1, <2>2, ReconcileMoves
    <2>3. CASE s = t
      <3>1. ~job'[j].stop
        BY <1>1, <2>1, ReconciledRows
      <3>2. rows[s].attempts = shard[s].attempts
        BY DEF ReconciledShards, Released
      <3>3. ~IsSettled(shard[s])
        BY <2>1, <2>3, ReconcileKeeps
           DEF IsSettled, ReclaimableShard, TerminalShard
      <3>4. /\ shard'[s].status = "running" /\ shard'[s].owner = w
            /\ shard'[s].attempts = rows[s].attempts + 1
        BY <2>1, <2>3 DEF Granted
      <3> HIDE DEF rows
      <3> QED
        BY <2>1, <2>3, <3>1, <3>2, <3>3, <3>4 DEF RowStep
    <2> QED
      BY <2>2, <2>3
  <1>8. ASSUME NEW t \in Shards, NEW n \in AttemptNumbers,
               NEW req \in {"running"} \cup TerminalShard,
               UpdateShard(t, n, req)
        PROVE  RowStep(s)
    <2>1. ASSUME ApplyUpdate(t, n, req), s = t
          PROVE  RowStep(s)
      <3> DEFINE st == SettledStatus(s, req)
      <3>1. /\ ~IsSettled(shard[s])
            /\ shard[s].status \in {"retrying", "stale"} => req \in TerminalShard
            /\ n = shard[s].attempts
            /\ shard'[s] = IF st = "running" THEN Leased(shard[s], shard[s].lease)
                                             ELSE Released(shard[s], st)
        BY <1>1, <2>1 DEF ApplyUpdate, Settleable, CurrentAttempt, IsSettled
      <3>2. CASE st # "running"
        BY <1>3, <3>1, <3>2
      <3>3. CASE st = "running"
        <4>1. req = "running"
          BY <3>3 DEF SettledStatus, TerminalShard
        <4>2. shard[s].status # "pending"
          BY <3>1 DEF AttemptAgreement, RowsAgree, AttemptNumbers
        <4>3. shard[s].status = "running"
          BY <3>1, <4>1, <4>2, RowTypes
             DEF IsSettled, ShardStatus, ReclaimableShard, TerminalShard
        <4> QED
          BY <3>1, <3>3, <4>3 DEF RowStep, Leased
      <3> QED
        BY <3>2, <3>3
    <2>2. ASSUME ApplyUpdate(t, n, req), s # t
          PROVE  RowStep(s)
      BY <1>1, <1>2, <2>2 DEF ApplyUpdate
    <2> QED
      BY <1>2, <1>8, <2>1, <2>2 DEF UpdateShard, ReplayUpdate, IgnoreUpdate
  <1>9. ASSUME NEW t \in Shards, NEW n \in AttemptNumbers, DeliverReport(t, n)
        PROVE  RowStep(s)
    <2>1. report[t][n] \in {"running"} \cup TerminalShard
      BY <1>9 DEF DeliverReport, TypeOK
    <2> QED
      BY <1>8, <1>9, <2>1 DEF DeliverReport
  <1>10. ASSUME NEW t \in Shards, NEW n \in AttemptNumbers, DeliverProgress(t, n)
         PROVE  RowStep(s)
    BY <1>8, <1>10 DEF DeliverProgress
  <1>11. ASSUME NEW w \in Servers, NEW j \in Jobs, Heartbeat(w, j)
         PROVE  RowStep(s)
    BY <1>2, <1>4, <1>11 DEF Heartbeat, Renewable
  <1>12. ASSUME Tick
         PROVE  RowStep(s)
    BY <1>2, <1>4, <1>12 DEF Tick
  <1>13. ASSUME NEW w \in Servers, RegisterServer(w)
         PROVE  RowStep(s)
    <2>1. \/ shard'[s] = shard[s]
          \/ /\ shard[s].status = "running" /\ shard'[s].status = "stale"
             /\ shard'[s].attempts = shard[s].attempts
      BY <1>1, <1>13 DEF RegisterServer, FencedBy, Released, ShardRow
    <2> QED
      BY <1>2, <2>1 DEF RowStep, IsSettled, TerminalShard
  <1>14. ASSUME shard' = shard
         PROVE  RowStep(s)
    BY <1>2, <1>14
  <1> QED
    BY <1>5, <1>6, <1>7, <1>9, <1>10, <1>11, <1>12, <1>13, <1>14
       DEF Next, ControlStep, WorkerStep, ClaimShard, ClaimUnanswered, StartJob,
           WriteReport, AbandonClaim, Crash, vars

-----------------------------------------------------------------------------
(* The theorems.                                                           *)

\* Every step keeps the inductive invariant.
LEMMA VerdictStep == VerdictInv /\ [Next]_vars => VerdictInv'
  <1> SUFFICES ASSUME VerdictInv, [Next]_vars
               PROVE  VerdictInv'
    OBVIOUS
  <1>1. TypeOK /\ AttemptAgreement
    BY DEF VerdictInv, RowsTellOneStory
  <1>2. RowsTellOneStory'
    BY <1>1, TypeStep, AgreementStep DEF RowsTellOneStory
  <1>3. StopsReported'
    BY <1>1, JobStep, ReportStep DEF StopsReported, JobMoves
  <1>4. QueuedIsIdle'
    <2> SUFFICES ASSUME NEW s \in Shards, job'[JobOf[s]].status = "queued"
                 PROVE  shard'[s].attempts = 0
      BY DEF QueuedIsIdle
    <2>1. job[JobOf[s]].status = "queued"
      BY <1>1, JobStep DEF JobMoves
    <2>2. shard[s].attempts = 0
      BY <2>1 DEF VerdictInv, QueuedIsIdle
    <2>3. RowStep(s)
      BY <1>1, RowMoves
    <2> QED
      BY <2>1, <2>2, <2>3 DEF RowStep
  <1> QED
    BY <1>2, <1>3, <1>4, FollowsStep, JustifiedStep DEF VerdictInv

\* VerdictInv holds throughout: the job follows its shards and the shards
\* settle for a reason, because stops are only reported once requested and a
\* queued job has nothing granted.
THEOREM VerdictsHold == Spec => []VerdictInv
  <1>1. Init => VerdictInv
    <2> SUFFICES ASSUME Init
                 PROVE  VerdictInv
      OBVIOUS
    <2>1. RowsTellOneStory
      BY DEF Init, RowsTellOneStory, TypeOK, JobRow, JobStatus, ShardRow,
             ShardStatus, ReclaimableShard, AttemptRow, NoAttempt, NoReport,
             AttemptAgreement, RowsAgree, AttemptNumbers
    <2>2. JobFollowsShards
      <3>1. \A j \in Jobs : job[j].status = "queued" /\ ~job[j].stop
        BY DEF Init
      <3>2. \A s \in Shards : shard[s].status # "failed"
        BY DEF Init
      <3>3. \A j \in Jobs : ~\E s \in ShardsOf(j) : shard[s].status = "failed"
        BY <3>2 DEF ShardsOf
      <3>4. \A j \in Jobs : \A s \in ShardsOf(j) : ~IsSettled(shard[s])
        BY DEF Init, ShardsOf, IsSettled, TerminalShard
      <3> QED
        BY <3>1, <3>3, <3>4 DEF JobFollowsShards, Follows, TerminalJob
    <2>3. OutcomeJustified /\ StopsReported /\ QueuedIsIdle
      BY DEF Init, OutcomeJustified, Justified, StopsReported, QueuedIsIdle,
             NoReport
    <2> QED
      BY <2>1, <2>2, <2>3 DEF VerdictInv
  <1>2. VerdictInv /\ [Next]_vars => VerdictInv'
    BY VerdictStep
  <1> QED
    BY <1>1, <1>2, PTL DEF Spec

\* The job row follows its shards: no verdict while a shard is open, and no
\* verdict missed by whichever command settles the last one.
THEOREM JobsFollowShards == Spec => []JobFollowsShards
  <1>1. VerdictInv => JobFollowsShards
    BY DEF VerdictInv
  <1> QED
    BY <1>1, VerdictsHold, PTL

\* No shard succeeds without the report of the attempt it is on, fails with an
\* attempt left, or is stopped without a stop.
THEOREM OutcomesJustified == Spec => []OutcomeJustified
  <1>1. VerdictInv => OutcomeJustified
    BY DEF VerdictInv
  <1> QED
    BY <1>1, VerdictsHold, PTL

\* An attempt the shard has moved past is written by no step.
LEMMA AttemptMoves ==
  ASSUME TypeOK, [Next]_vars, NEW s \in Shards, NEW n \in AttemptNumbers,
         n < shard[s].attempts
  PROVE  attempt'[s][n] = attempt[s][n]
  <1>1. /\ attempt \in [Shards -> [AttemptNumbers -> AttemptRow]]
        /\ shard[s].attempts \in Nat
    BY RowTypes DEF TypeOK
  <1>2. \A j \in Jobs : ReconciledAttempts(j)[s][n] = attempt[s][n]
    BY <1>1 DEF ReconciledAttempts, ReconcileCloses
  <1>3. ASSUME NEW j \in Jobs, RefreshSummary(j) \/ ClaimNothing(j)
        PROVE  attempt'[s][n] = attempt[s][n]
    BY <1>2, <1>3 DEF RefreshSummary, ClaimNothing
  <1>4. ASSUME NEW w \in Servers, NEW j \in Jobs, NEW t \in Shards,
               Grant(w, j, t)
        PROVE  attempt'[s][n] = attempt[s][n]
    <2> DEFINE rows == ReconciledAttempts(j)
               m == Granted(w, ReconciledShards(j)[t]).attempts
    <2>1. /\ attempt' = [rows EXCEPT
                           ![t][m] = [server |-> w, status |-> "running"]]
          /\ rows \in [Shards -> [AttemptNumbers -> AttemptRow]]
      BY <1>4, ReconciledRows DEF Grant
    <2>2. t = s => m # n
      BY <1>1 DEF Granted, ReconciledShards, Released, AttemptNumbers
    <2> HIDE DEF rows, m
    <2>3. attempt'[s][n] = rows[s][n]
      BY <2>1, <2>2
    <2> QED
      BY <1>2, <2>3 DEF rows
  <1>5. ASSUME NEW t \in Shards, NEW m \in AttemptNumbers, NEW req,
               UpdateShard(t, m, req)
        PROVE  attempt'[s][n] = attempt[s][n]
    <2>1. CASE ApplyUpdate(t, m, req)
      <3>1. m = shard[t].attempts
        BY <2>1 DEF ApplyUpdate, CurrentAttempt
      <3> QED
        BY <1>1, <2>1, <3>1 DEF ApplyUpdate, AttemptNumbers
    <2> QED
      BY <1>5, <2>1 DEF UpdateShard, ReplayUpdate, IgnoreUpdate
  <1>6. ASSUME NEW w \in Servers, RegisterServer(w)
        PROVE  attempt'[s][n] = attempt[s][n]
    BY <1>1, <1>6 DEF RegisterServer
  <1>7. ASSUME attempt' = attempt
        PROVE  attempt'[s][n] = attempt[s][n]
    BY <1>7
  <1> QED
    BY <1>3, <1>4, <1>5, <1>6, <1>7
       DEF Next, ControlStep, WorkerStep, ClaimShard, ClaimUnanswered, StartJob,
           RequestStop, DeliverReport, DeliverProgress, WriteReport,
           AbandonClaim, Heartbeat, Crash, Tick, vars

\* Late and repeated updates, heartbeats and reconciliations leave history
\* alone: an attempt that was superseded keeps its row, and a lease that
\* expired is not revived.
THEOREM OldAttemptsKept == Spec => OldAttemptsStayOld
  <1> DEFINE
    Frozen == \A s \in Shards, n \in AttemptNumbers :
                n < shard[s].attempts => attempt'[s][n] = attempt[s][n]
    NotRevived == \A s \in Shards :
                    LeaseExpired(s) => \/ LeaseExpired(s)'
                                       \/ shard'[s].status # "running"
                                       \/ shard'[s].attempts > shard[s].attempts
  <1>1. RowsTellOneStory /\ [Next]_vars => [Frozen]_vars
    BY AttemptMoves DEF RowsTellOneStory
  <1>2. RowsTellOneStory /\ [Next]_vars => [NotRevived]_vars
    <2> SUFFICES ASSUME TypeOK, AttemptAgreement, [Next]_vars,
                        NEW s \in Shards, LeaseExpired(s)
                 PROVE  \/ LeaseExpired(s)'
                        \/ shard'[s].status # "running"
                        \/ shard'[s].attempts > shard[s].attempts
      BY DEF RowsTellOneStory
    <2>1. RowStep(s) /\ ~Leasing(s) /\ shard[s].attempts \in Nat
      BY RowMoves, RowTypes DEF LeaseExpired, Leasing
    <2> QED
      BY <2>1 DEF RowStep, LeaseExpired
  <1> QED
    BY <1>1, <1>2, RowsAlwaysAgree, PTL
       DEF Spec, OldAttemptsStayOld, SupersededAttemptsFrozen,
           ExpiredLeaseNotRevived

-----------------------------------------------------------------------------
(* The kernel keeps the promise.                                           *)

\* A step of the kernel is one of the promise for each shard.
LEMMA PromiseShard ==
  ASSUME VerdictInv, VerdictInv', [Next]_vars, NEW s \in Shards
  PROVE  Promise!ShardStep(s)
  <1> USE DEF PromiseHolder, PromiseGrants, PromiseOutcome, PromiseStop
  <1>1. /\ RowStep(s) /\ shard[s].status \in ShardStatus
        /\ shard[s].attempts \in Nat
    BY RowMoves, RowTypes DEF VerdictInv, RowsTellOneStory
  <1>2. /\ JobOf[s] \in Jobs
        /\ Justified(shard'[s], report'[s], job'[JobOf[s]])
        /\ shard'[s].status \in ShardStatus
    <2>1. JobOf[s] \in Jobs /\ shard'[s] \in ShardRow
      BY DEF VerdictInv, RowsTellOneStory, TypeOK
    <2> QED
      BY <2>1 DEF VerdictInv, OutcomeJustified, ShardRow
  <1>3. CASE /\ shard'[s].status = shard[s].status
             /\ shard'[s].owner = shard[s].owner
             /\ shard'[s].attempts = shard[s].attempts
    BY <1>3 DEF Promise!ShardStep, Promise!Kept
  <1>4. CASE /\ ~IsSettled(shard[s]) /\ shard'[s].status # "running"
             /\ shard'[s].attempts = shard[s].attempts
             /\ ~IsSettled(shard'[s])
    BY <1>4 DEF Promise!ShardStep, Promise!TakenBack, IsSettled
  <1>5. CASE /\ ~IsSettled(shard[s]) /\ shard'[s].status # "running"
             /\ shard'[s].attempts = shard[s].attempts
             /\ IsSettled(shard'[s])
    BY <1>1, <1>2, <1>5
       DEF Promise!ShardStep, Promise!Settled, IsSettled, Justified,
           TerminalShard
  <1>6. CASE /\ ~IsSettled(shard[s]) /\ shard'[s].status = "running"
             /\ shard[s].attempts < MaxShardAttempts
             /\ shard'[s].attempts = shard[s].attempts + 1
             /\ shard'[s].owner \in Servers
             /\ ~job'[JobOf[s]].stop
    BY <1>2, <1>6
       DEF Promise!ShardStep, Promise!Granted, IsSettled, TerminalShard
  <1> QED
    BY <1>1, <1>3, <1>4, <1>5, <1>6 DEF RowStep

\* A step of the kernel is one of the promise for each job.
LEMMA PromiseJob ==
  ASSUME VerdictInv, VerdictInv', [Next]_vars, NEW j \in Jobs
  PROVE  Promise!JobStep(j)
  <1> USE DEF PromiseOutcome, PromiseStop, PromiseVerdict
  <1>1. JobMoves(job[j], job'[j])
    BY JobStep DEF VerdictInv, RowsTellOneStory
  <1>2. Follows(job'[j], j, shard')
    BY DEF VerdictInv, JobFollowsShards
  <1>3. CASE /\ job[j].status \notin TerminalJob
             /\ \/ job'[j].status = "stopped"
                \/ job'[j].status = "failed" /\ ~job'[j].stop
    <2>1. \A s \in Shards : JobOf[s] = j => IsSettled(shard'[s])
      BY <1>2, <1>3 DEF Follows, ShardsOf, TerminalJob
    <2>2. \A s \in Shards : JobOf[s] = j => PromiseOutcome'[s] # "open"
      BY <2>1 DEF IsSettled, TerminalShard
    <2>3. job'[j].status = "failed" =>
            \E s \in Shards : JobOf[s] = j /\ shard'[s].status = "failed"
      BY <1>2 DEF Follows, ShardsOf
    <2>4. job'[j].status = "failed" =>
            \E s \in Shards : JobOf[s] = j /\ PromiseOutcome'[s] = "failed"
      BY <2>3 DEF TerminalShard
    <2>5. job'[j].status = "stopped" => job'[j].stop
      BY <1>2 DEF Follows
    <2> HIDE DEF PromiseOutcome
    <2> QED
      BY <1>1, <1>3, <2>2, <2>4, <2>5
         DEF Promise!JobStep, Promise!Judged, JobMoves, TerminalJob
  <1>4. CASE \/ job'[j].status = job[j].status
             \/ job[j].status \notin TerminalJob /\ job'[j].status \notin TerminalJob
    BY <1>1, <1>4 DEF Promise!JobStep, JobMoves
  <1> QED
    BY <1>1, <1>3, <1>4 DEF JobMoves

\* Whatever crashes, expires, is stopped or reported late, the kernel grants a
\* shard to one server at a time, a bounded number of times and never after a
\* stop, settles it once, and judges each job once, after its shards.
THEOREM KernelKeepsPromise == Spec => KeepsPromise
  <1>1. Init => Promise!Init
    BY DEF Init, Promise!Init, PromiseHolder, PromiseGrants, PromiseOutcome,
           PromiseStop, PromiseVerdict, TerminalShard, TerminalJob
  <1>2. VerdictInv /\ VerdictInv' /\ [Next]_vars => Promise!Next
    BY PromiseShard, PromiseJob DEF Promise!Next
  <1> QED
    BY <1>1, <1>2, VerdictsHold, PTL DEF Spec, KeepsPromise, Promise!Spec

-----------------------------------------------------------------------------
(* The page of a job.                                                      *)

\* What the stage of a job without scan units depends on.
LEMMA StageIs ==
  ASSUME NEW row, row.status \in JobStatus, NEW counts \in [Page!ShardStatuses -> Nat]
  PROVE  LET stage == Page!Stage(row, "not_started", counts, NoUnits)
         IN  /\ row.status \in TerminalJob => stage = row.status
             /\ row.status \notin TerminalJob =>
                  /\ row.stop \/ row.status = "stopping" => stage = "draining"
                  /\ ~(row.stop \/ row.status = "stopping") =>
                       /\ counts["failed"] + counts["stopped"] > 0 => stage = "failed"
                       /\ counts["failed"] + counts["stopped"] = 0 =>
                            stage \in {"recovering", "running", "queued"}
<1>1. \A st \in {"pending", "running", "stale", "failed"} : NoUnits[st] = 0
  BY DEF NoUnits, Page!UnitStatuses
<1>2. \A st \in {"failed", "stopped", "retrying", "stale"} : counts[st] \in Nat
  BY DEF Page!ShardStatuses
<1> QED
  BY <1>1, <1>2 DEF Page!Stage, Page!Terminal, TerminalJob, JobStatus

\* A count is positive when there is something to count.
CountOf(j, rows, st) == Cardinality({s \in ShardsOf(j) : rows[s].status = st})

LEMMA CountsTell ==
  ASSUME IsFiniteSet(Shards), NEW j \in Jobs, NEW rows, NEW st
  PROVE  /\ CountOf(j, rows, st) \in Nat
         /\ CountOf(j, rows, st) > 0 <=> \E s \in ShardsOf(j) : rows[s].status = st
<1> DEFINE found == {s \in ShardsOf(j) : rows[s].status = st}
<1>1. IsFiniteSet(found)
  BY FS_Subset DEF ShardsOf
<1>2. Cardinality(found) \in Nat /\ (Cardinality(found) = 0 <=> found = {})
  BY <1>1, FS_CardinalityType, FS_EmptySet
<1>3. Cardinality(found) > 0 <=> found # {}
  BY <1>2
<1> QED
  BY <1>2, <1>3 DEF CountOf

\* A job without a verdict is shown draining if it is stopped, failed if a shard
\* was lost, and otherwise as one that goes on.
Shows(stage, row, j, rows) ==
  /\ row.status \in TerminalJob => stage = row.status
  /\ row.status \notin TerminalJob =>
       IF row.stop \/ row.status = "stopping" THEN stage = "draining"
       ELSE IF \E s \in ShardsOf(j) : rows[s].status \in {"failed", "stopped"}
              THEN stage = "failed"
              ELSE stage \in {"recovering", "running", "queued"}

LEMMA PageShows ==
  ASSUME IsFiniteSet(Shards), NEW j \in Jobs, NEW row, row.status \in JobStatus, NEW rows
  PROVE  Shows(Page!Stage(row, "not_started",
                          [st \in Page!ShardStatuses |-> CountOf(j, rows, st)], NoUnits),
               row, j, rows)
<1> DEFINE counts == [st \in Page!ShardStatuses |-> CountOf(j, rows, st)]
<1>1. \A st \in Page!ShardStatuses : CountOf(j, rows, st) \in Nat
  BY CountsTell
<1>2. counts \in [Page!ShardStatuses -> Nat]
  BY <1>1
<1>3. /\ counts["failed"] \in Nat /\ counts["stopped"] \in Nat
      /\ counts["failed"] > 0 <=> \E s \in ShardsOf(j) : rows[s].status = "failed"
      /\ counts["stopped"] > 0 <=> \E s \in ShardsOf(j) : rows[s].status = "stopped"
  BY CountsTell DEF Page!ShardStatuses
<1> HIDE DEF counts
<1>4. counts["failed"] + counts["stopped"] > 0
        <=> \E s \in ShardsOf(j) : rows[s].status \in {"failed", "stopped"}
  BY <1>3
<1>5. counts["failed"] + counts["stopped"] > 0 \/ counts["failed"] + counts["stopped"] = 0
  BY <1>3
<1>6. Shows(Page!Stage(row, "not_started", counts, NoUnits), row, j, rows)
  BY <1>2, <1>4, <1>5, StageIs DEF Shows
<1> QED
  BY <1>6 DEF counts

\* The page of a job takes nothing back: what it shows as failed fails or drains,
\* what it shows as draining drains, and a failure it shows becomes the verdict
\* unless the job is stopped (_job_lifecycle_stage over the kernel).
THEOREM PageTakesNothingBack ==
  ASSUME IsFiniteSet(Shards)
  PROVE  Spec => StageOnlyAdvances
<1> DEFINE Advances ==
      \A j \in Jobs :
        IF job'[j].status \in TerminalJob
          THEN StageOf(j) = "failed" /\ ~job'[j].stop => job'[j].status = "failed"
          ELSE /\ job[j].status \notin TerminalJob
               /\ Rank(StageOf(j)) <= Rank(StageOf(j)')
<1>1. VerdictInv /\ VerdictInv' /\ [Next]_vars => Advances
  <2> SUFFICES ASSUME VerdictInv, VerdictInv', [Next]_vars, NEW j \in Jobs
               PROVE  IF job'[j].status \in TerminalJob
                        THEN StageOf(j) = "failed" /\ ~job'[j].stop
                               => job'[j].status = "failed"
                        ELSE /\ job[j].status \notin TerminalJob
                             /\ Rank(StageOf(j)) <= Rank(StageOf(j)')
    OBVIOUS
  <2>1. JobMoves(job[j], job'[j]) /\ (\A s \in Shards : RowStep(s))
    BY JobStep, RowMoves DEF VerdictInv, RowsTellOneStory
  <2>2. Follows(job[j], j, shard) /\ Follows(job'[j], j, shard')
    BY DEF VerdictInv, JobFollowsShards
  <2>3. job[j].status \in JobStatus /\ job'[j].status \in JobStatus
    BY DEF VerdictInv, RowsTellOneStory, TypeOK, JobRow
  <2>4. Shows(StageOf(j), job[j], j, shard) /\ Shows(StageOf(j)', job'[j], j, shard')
    BY <2>3, PageShows DEF StageOf, ShardCounts, CountOf
  <2>5. \A s \in ShardsOf(j) : shard[s].status \in {"failed", "stopped"}
          => shard'[s].status = shard[s].status
    BY <2>1 DEF RowStep, IsSettled, TerminalShard, ShardsOf
  <2>6. CASE job'[j].status \in TerminalJob
    BY <2>1, <2>2, <2>4, <2>6 DEF JobMoves, TerminalJob, Shows, Follows
  <2>7. CASE job'[j].status \notin TerminalJob
    <3>1. job[j].status \notin TerminalJob
      BY <2>1, <2>7 DEF JobMoves
    <3>2. Rank("queued") = 0 /\ Rank("running") = 0 /\ Rank("recovering") = 0
          /\ Rank("failed") = 1 /\ Rank("draining") = 2
      BY DEF Rank
    <3>3. StageOf(j) = "draining" => StageOf(j)' = "draining"
      BY <3>1, <2>1, <2>2, <2>4, <2>7 DEF JobMoves, Shows, Follows
    <3>4. StageOf(j) = "failed" => StageOf(j)' \in {"failed", "draining"}
      BY <3>1, <2>4, <2>5, <2>7 DEF Shows
    <3>5. {StageOf(j), StageOf(j)'}
             \subseteq {"queued", "running", "recovering", "failed", "draining"}
      BY <3>1, <2>4, <2>7 DEF Shows
    <3> HIDE DEF StageOf
    <3> QED
      BY <3>1, <3>2, <3>3, <3>4, <3>5, <2>7
  <2> QED
    BY <2>6, <2>7
<1> QED
  BY <1>1, VerdictsHold, PTL DEF Spec, StageOnlyAdvances

-----------------------------------------------------------------------------
(* The loops of the agents and their terminal events over the kernel       *)
(* (StaticJob).                                                            *)

USE MaxFaultsAssumption

AllSucceeded(j) == \A s \in ShardsOf(j) : shard[s].status = "succeeded"

\* Wherever the success of a job is on its way, its shards have succeeded.
DoneIsBacked ==
  \A j \in Jobs :
    \/ job[j].status = "succeeded"
    \/ <<j, "job_done">> \in outbox
    \/ \E seen \in JobRow : <<j, "job_done", seen>> \in recording
    => AllSucceeded(j)

\* A server executes one claim at a time.
OneClaimEach == \A c, d \in working : c[1] = d[1] => c = d

\* The inductive invariant.
StaticInv == StaticTypeOK /\ AttemptAgreement /\ OneClaimEach /\ DoneIsBacked

-----------------------------------------------------------------------------
(* A step of StaticJob and the kernel.                                     *)

\* Whatever the agents' loop does is a step of the kernel, except that the
\* event of an agent may end a job.
LEMMA KernelOrEvent ==
  ASSUME [StaticNext]_staticVars
  PROVE  \/ [Next]_vars
         \/ \E j \in Jobs, type \in FinalEvent, seen \in JobRow :
              CommitEvent(j, type, seen)
  <1> DEFINE Goal == \/ [Next]_vars
                     \/ \E j \in Jobs, type \in FinalEvent, seen \in JobRow :
                          CommitEvent(j, type, seen)
  <1>1. ASSUME NEW w \in Servers, NEW j \in Jobs,
               NextJob(w, j) \/ LaneStep(w, j) \/ BusyHeartbeat(w, j)
        PROVE  Goal
    <2>1. CASE NextJob(w, j)
      BY <2>1 DEF NextJob, TakeQueued, TakeRunning, Next, ControlStep
    <2>2. CASE CheckStop(w, j)
      BY <2>2 DEF CheckStop, vars
    <2>3. CASE Claim(w, j)
      BY <2>3 DEF Claim, Next, ControlStep, vars
    <2>4. CASE ReadSummary(w, j)
      BY <2>4 DEF ReadSummary, Next, ControlStep
    <2>5. CASE BusyHeartbeat(w, j)
      BY <2>5 DEF BusyHeartbeat, Next, WorkerStep
    <2> QED
      BY <1>1, <2>1, <2>2, <2>3, <2>4, <2>5 DEF LaneStep
  <1>2. ASSUME NEW w \in Servers, NEW s \in Shards, NEW n \in AttemptNumbers,
               EndShard(w, s, n) \/ AnswerReport(w, s, n)
        PROVE  Goal
    BY <1>2 DEF EndShard, AnswerReport, Next, ControlStep, WorkerStep
  <1>3. ASSUME NEW s \in Shards, NEW n \in AttemptNumbers,
               RepeatReport(s, n) \/ RepeatProgress(s, n)
        PROVE  Goal
    BY <1>3 DEF RepeatReport, RepeatProgress, Next, ControlStep
  <1>4. ASSUME NEW j \in Jobs, NEW type \in FinalEvent, RecordEvent(j, type)
        PROVE  Goal
    BY <1>4 DEF RecordEvent, BeginEvent, vars
  <1>5. ASSUME NEW j \in Jobs, StopJob(j) \/ ViewSummary(j)
        PROVE  Goal
    BY <1>5 DEF StopJob, ViewSummary, Next, ControlStep
  <1>6. ASSUME NEW w \in Servers, CallFails(w) \/ CrashAgent(w) \/ Restart(w)
        PROVE  Goal
    BY <1>6 DEF CallFails, CrashAgent, Restart, Next, WorkerStep, vars
  <1>7. ASSUME TimePasses
        PROVE  Goal
    BY <1>7 DEF TimePasses, Next
  <1>8. CASE UNCHANGED staticVars
    BY <1>8 DEF staticVars, vars
  <1> QED
    BY <1>1, <1>2, <1>3, <1>4, <1>5, <1>6, <1>7, <1>8 DEF StaticNext

\* The event of an agent only gives a job without a verdict one.
LEMMA EventStep ==
  ASSUME TypeOK, NEW j \in Jobs, NEW type \in FinalEvent, NEW seen \in JobRow,
         CommitEvent(j, type, seen)
  PROVE  /\ job' \in [Jobs -> JobRow]
         /\ UNCHANGED <<shard, attempt, working, report, up, lane, faults>>
         /\ \A k \in Jobs : \/ job'[k] = job[k]
                            \/ /\ k = j /\ job'[k].stop = job[k].stop
                               /\ job'[k].status = EventVerdict(seen, type)
                               /\ job'[k].status \in TerminalJob
  <1>1. EventVerdict(seen, type) \in TerminalJob
    BY DEF EventVerdict, EventStatus, FinalEvent, TerminalJob
  <1>2. job \in [Jobs -> JobRow]
    BY DEF TypeOK
  <1>3. [job[j] EXCEPT !.status = EventVerdict(seen, type)] \in JobRow
    BY <1>1, <1>2 DEF JobRow, JobStatus
  <1> QED
    BY <1>1, <1>2, <1>3 DEF CommitEvent, JobRow

\* The rows stay well typed and go on to agree.
LEMMA RowsStep ==
  ASSUME TypeOK, AttemptAgreement, [StaticNext]_staticVars
  PROVE  TypeOK' /\ AttemptAgreement'
  <1>1. CASE [Next]_vars
    BY <1>1, TypeStep, AgreementStep
  <1>2. ASSUME NEW j \in Jobs, NEW type \in FinalEvent, NEW seen \in JobRow,
               CommitEvent(j, type, seen)
        PROVE  TypeOK' /\ AttemptAgreement'
    BY <1>2, EventStep DEF TypeOK, AttemptAgreement
  <1> QED
    BY <1>1, <1>2, KernelOrEvent

\* Every step moves every shard as the kernel does, or not at all.
LEMMA ShardsMove ==
  ASSUME TypeOK, AttemptAgreement, [StaticNext]_staticVars, NEW s \in Shards
  PROVE  RowStep(s)
  <1>1. CASE [Next]_vars
    BY <1>1, RowMoves
  <1>2. ASSUME NEW j \in Jobs, NEW type \in FinalEvent, NEW seen \in JobRow,
               CommitEvent(j, type, seen)
        PROVE  RowStep(s)
    BY <1>2, EventStep DEF RowStep
  <1> QED
    BY <1>1, <1>2, KernelOrEvent

\* Shards that succeeded stay so.
LEMMA SuccessStays ==
  ASSUME TypeOK, AttemptAgreement, [StaticNext]_staticVars, NEW j \in Jobs,
         AllSucceeded(j)
  PROVE  AllSucceeded(j)'
  BY ShardsMove DEF AllSucceeded, ShardsOf, RowStep, IsSettled, TerminalShard

-----------------------------------------------------------------------------
(* The success of a job.                                                   *)

\* Of the actions of the loop, only reading a summary posts job_done, and it
\* has seen all shards succeeded.
LEMMA DonePosted ==
  ASSUME TypeOK, TypeOK', [StaticNext]_staticVars, NEW j \in Jobs,
         <<j, "job_done">> \in outbox'
  PROVE  <<j, "job_done">> \in outbox \/ AllSucceeded(j)'
  <1> DEFINE Goal == <<j, "job_done">> \in outbox \/ AllSucceeded(j)'
  <1>1. ASSUME outbox' \subseteq outbox
        PROVE  Goal
    BY <1>1
  <1>2. ASSUME NEW k, AnnounceStop(k)
        PROVE  Goal
    BY <1>2 DEF AnnounceStop, Post
  <1>3. ASSUME NEW w \in Servers, NEW k \in Jobs, ReadSummary(w, k)
        PROVE  Goal
    <2>1. CASE SummaryHasActive(k) \/ lane[w].failed \/ SummaryHasFailed(k)
      BY <1>1, <1>3, <2>1 DEF ReadSummary, Post
    <2>2. CASE ~SummaryHasActive(k) /\ ~SummaryHasFailed(k)
      <3>1. \A s \in ShardsOf(k) : shard'[s].status = "succeeded"
        <4>1. \A s \in ShardsOf(k) : shard'[s].status \in ShardStatus
          BY DEF TypeOK, ShardRow, ShardsOf
        <4> QED
          BY <2>2, <4>1 DEF SummaryHasActive, SummaryHasFailed, ShardStatus,
                            TerminalShard
      <3> QED
        BY <1>3, <2>2, <3>1 DEF ReadSummary, Post, AllSucceeded
    <2> QED
      BY <2>1, <2>2
  <1>4. ASSUME NEW w \in Servers, NEW k \in Jobs,
               NextJob(w, k) \/ CheckStop(w, k) \/ Claim(w, k)
                 \/ BusyHeartbeat(w, k)
        PROVE  Goal
    BY <1>1, <1>2, <1>4
       DEF NextJob, CheckStop, Claim, BusyHeartbeat, loopVars
  <1>5. ASSUME NEW w \in Servers, NEW s \in Shards, NEW n \in AttemptNumbers,
               EndShard(w, s, n) \/ AnswerReport(w, s, n)
        PROVE  Goal
    BY <1>1, <1>2, <1>5 DEF EndShard, AnswerReport, loopVars
  <1>6. ASSUME NEW s \in Shards, NEW n \in AttemptNumbers,
               RepeatReport(s, n) \/ RepeatProgress(s, n)
        PROVE  Goal
    BY <1>1, <1>6 DEF RepeatReport, RepeatProgress, loopVars
  <1>7. ASSUME NEW k \in Jobs, NEW type \in FinalEvent, RecordEvent(k, type)
        PROVE  Goal
    BY <1>1, <1>7 DEF RecordEvent, BeginEvent, CommitEvent
  <1>8. ASSUME NEW w \in Servers, CallFails(w) \/ CrashAgent(w) \/ Restart(w)
        PROVE  Goal
    BY <1>1, <1>8 DEF CallFails, CrashAgent, Restart, loopVars
  <1>9. ASSUME TimePasses \/ \E k \in Jobs : StopJob(k) \/ ViewSummary(k)
        PROVE  Goal
    BY <1>1, <1>9 DEF TimePasses, StopJob, ViewSummary, loopVars
  <1>10. CASE UNCHANGED staticVars
    BY <1>10 DEF staticVars
  <1> QED
    BY <1>3, <1>4, <1>5, <1>6, <1>7, <1>8, <1>9, <1>10 DEF StaticNext, LaneStep

\* A transaction records an event that was posted.
LEMMA DoneRecorded ==
  ASSUME [StaticNext]_staticVars, NEW j \in Jobs, NEW seen,
         <<j, "job_done", seen>> \in recording'
  PROVE  \/ <<j, "job_done", seen>> \in recording
         \/ <<j, "job_done">> \in outbox /\ seen = job[j]
  <1>1. CASE recording' = recording
    BY <1>1
  <1>2. ASSUME NEW k \in Jobs, NEW type \in FinalEvent, RecordEvent(k, type)
        PROVE  \/ <<j, "job_done", seen>> \in recording
               \/ <<j, "job_done">> \in outbox /\ seen = job[j]
    <2>1. ASSUME BeginEvent(k, type)
          PROVE  \/ <<j, "job_done", seen>> \in recording
                 \/ <<j, "job_done">> \in outbox /\ seen = job[j]
      BY <2>1 DEF BeginEvent
    <2>2. ASSUME NEW row \in JobRow, CommitEvent(k, type, row)
          PROVE  <<j, "job_done", seen>> \in recording
      BY <2>2 DEF CommitEvent
    <2> QED
      BY <1>2, <2>1, <2>2 DEF RecordEvent
  <1> QED
    BY <1>1, <1>2
       DEF StaticNext, NextJob, LaneStep, CheckStop, Claim, ReadSummary,
           BusyHeartbeat, EndShard, AnswerReport, RepeatReport, RepeatProgress,
           StopJob, ViewSummary, CallFails, CrashAgent, Restart, TimePasses,
           loopVars, staticVars

\* Only a recorded job_done makes a job succeed: the kernel never does.
LEMMA DoneCommitted ==
  ASSUME TypeOK, [StaticNext]_staticVars, NEW j \in Jobs,
         job'[j].status = "succeeded"
  PROVE  \/ job[j].status = "succeeded"
         \/ \E seen \in JobRow : <<j, "job_done", seen>> \in recording
  <1>1. CASE [Next]_vars
    BY <1>1, JobStep DEF JobMoves, TerminalJob
  <1>2. ASSUME NEW k \in Jobs, NEW type \in FinalEvent, NEW seen \in JobRow,
               CommitEvent(k, type, seen)
        PROVE  \/ job[j].status = "succeeded"
               \/ \E row \in JobRow : <<j, "job_done", row>> \in recording
    <2>1. CASE job'[j] = job[j]
      BY <2>1
    <2>2. CASE k = j /\ EventVerdict(seen, type) = "succeeded"
      <3>1. type = "job_done"
        BY <2>2 DEF EventVerdict, EventStatus, FinalEvent
      <3> QED
        BY <1>2, <2>2, <3>1 DEF CommitEvent
    <2> QED
      BY <1>2, <2>1, <2>2, EventStep
  <1> QED
    BY <1>1, <1>2, KernelOrEvent

\* Every step keeps the success of a job backed.
LEMMA DoneStep ==
  ASSUME TypeOK, AttemptAgreement, DoneIsBacked, [StaticNext]_staticVars
  PROVE  DoneIsBacked'
  <1>1. TypeOK'
    BY RowsStep
  <1> SUFFICES ASSUME NEW j \in Jobs,
                      \/ job'[j].status = "succeeded"
                      \/ <<j, "job_done">> \in outbox'
                      \/ \E seen \in JobRow : <<j, "job_done", seen>> \in recording'
               PROVE  AllSucceeded(j)'
    BY DEF DoneIsBacked
  <1>2. \/ job[j].status = "succeeded"
        \/ <<j, "job_done">> \in outbox
        \/ \E seen \in JobRow : <<j, "job_done", seen>> \in recording
        \/ AllSucceeded(j)'
    BY <1>1, DonePosted, DoneRecorded, DoneCommitted
  <1> QED
    BY <1>2, SuccessStays DEF DoneIsBacked

-----------------------------------------------------------------------------
(* The state of the loop.                                                  *)

\* What a step may do to the claims in execution: drop some, or add one of a
\* server that has none.
ClaimsMove ==
  \/ working' \subseteq working
  \/ \E w \in Servers : \E s, n :
       /\ \A c \in working : c[1] # w
       /\ working' = working \cup {<<w, s, n>>}

\* Every step moves them that way.
LEMMA ClaimsStep ==
  ASSUME [StaticNext]_staticVars
  PROVE  ClaimsMove
  <1>1. ASSUME working' \subseteq working
        PROVE  ClaimsMove
    BY <1>1 DEF ClaimsMove
  <1>2. ASSUME NEW w \in Servers, NEW j \in Jobs, NEW s \in Shards,
               ClaimShard(w, j, s)
        PROVE  ClaimsMove
    BY <1>2 DEF ClaimShard, Idle, ClaimsMove
  <1>3. ASSUME NEW s \in Shards, NEW n \in AttemptNumbers, DeliverReport(s, n)
        PROVE  ClaimsMove
    <2>1. working' \subseteq working
      BY <1>3 DEF DeliverReport
    <2> QED
      BY <1>1, <2>1
  <1>4. ASSUME UNCHANGED working
        PROVE  ClaimsMove
    BY <1>1, <1>4
  <1>5. ASSUME NEW w \in Servers, Crash(w)
        PROVE  ClaimsMove
    <2>1. working' \subseteq working
      BY <1>5 DEF Crash
    <2> QED
      BY <1>1, <2>1
  <1>6. CASE [Next]_vars
    BY <1>1, <1>2, <1>3, <1>4, <1>5, <1>6
       DEF Next, ControlStep, WorkerStep, StartJob, RequestStop, RefreshSummary,
           ClaimNothing, ClaimUnanswered, DeliverProgress, WriteReport,
           AbandonClaim, Heartbeat, RegisterServer, Tick, vars
  <1>7. ASSUME NEW j \in Jobs, NEW type \in FinalEvent, NEW seen \in JobRow,
               CommitEvent(j, type, seen)
        PROVE  ClaimsMove
    BY <1>4, <1>7 DEF CommitEvent
  <1> QED
    BY <1>6, <1>7, KernelOrEvent

\* A lane that goes to another place is a lane.
LEMMA LaneRows ==
  ASSUME NEW r \in Lane, NEW place \in LanePlace
  PROVE  [r EXCEPT !.at = place] \in Lane
  BY DEF Lane

\* The loop's own state stays of its types.
LEMMA LoopTypes ==
  ASSUME StaticTypeOK, [StaticNext]_staticVars
  PROVE  /\ lane' \in [Servers -> Lane]
         /\ outbox' \subseteq Jobs \X FinalEvent
         /\ recording' \subseteq Jobs \X FinalEvent \X JobRow
         /\ faults' \in 0 .. MaxFaults
  <1> DEFINE Goal == /\ lane' \in [Servers -> Lane]
                     /\ outbox' \subseteq Jobs \X FinalEvent
                     /\ recording' \subseteq Jobs \X FinalEvent \X JobRow
                     /\ faults' \in 0 .. MaxFaults
  <1>1. /\ lane \in [Servers -> Lane]
        /\ outbox \subseteq Jobs \X FinalEvent
        /\ recording \subseteq Jobs \X FinalEvent \X JobRow
        /\ faults \in 0 .. MaxFaults
        /\ job \in [Jobs -> JobRow]
    BY DEF StaticTypeOK, TypeOK
  <1>2. ASSUME NEW w \in Servers,
               \/ Leave(w) \/ lane' = lane
               \/ \E place \in LanePlace : Goto(w, place)
               \/ \E r \in Lane : lane' = [lane EXCEPT ![w] = r]
        PROVE  lane' \in [Servers -> Lane]
    <2>1. NoJob \in Lane
      BY DEF NoJob, Lane, LanePlace
    <2>2. lane[w] \in Lane
      BY <1>1
    <2>3. ASSUME NEW r \in Lane, lane' = [lane EXCEPT ![w] = r]
          PROVE  lane' \in [Servers -> Lane]
      BY <1>1, <2>3
    <2>4. ASSUME NEW place \in LanePlace, Goto(w, place)
          PROVE  lane' \in [Servers -> Lane]
      <3>1. [lane[w] EXCEPT !.at = place] \in Lane
        BY <2>2, LaneRows
      <3> QED
        BY <1>1, <2>4, <3>1 DEF Goto
    <2> QED
      BY <1>1, <1>2, <2>1, <2>3, <2>4 DEF Leave
  <1>3. ASSUME NEW j \in Jobs,
               \/ UNCHANGED outbox \/ AnnounceStop(j)
               \/ Post(j, "job_done") \/ Post(j, "job_failed")
        PROVE  outbox' \subseteq Jobs \X FinalEvent
    BY <1>1, <1>3 DEF AnnounceStop, Post, FinalEvent
  <1>4. ASSUME UNCHANGED loopVars
        PROVE  Goal
    BY <1>1, <1>4 DEF loopVars
  <1>5. ASSUME NEW w \in Servers, NEW j \in Jobs, NextJob(w, j)
        PROVE  Goal
    <2>1. [at |-> "loop", job |-> j, failed |-> FALSE] \in Lane
      BY DEF Lane, LanePlace
    <2> QED
      BY <1>1, <1>2, <1>5, <2>1 DEF NextJob, TakeQueued, TakeRunning
  <1>6. ASSUME NEW w \in Servers, NEW j \in Jobs, CheckStop(w, j)
        PROVE  Goal
    <2>1. /\ Leave(w) \/ Goto(w, "claiming") \/ Goto(w, "summing")
          /\ AnnounceStop(j) \/ UNCHANGED outbox
          /\ UNCHANGED <<recording, faults>>
      BY <1>6 DEF CheckStop
    <2> QED
      BY <1>1, <1>2, <1>3, <2>1 DEF LanePlace
  <1>7. ASSUME NEW w \in Servers, NEW j \in Jobs, Claim(w, j)
        PROVE  Goal
    <2>1. /\ Leave(w) \/ Goto(w, "working") \/ Goto(w, "unclaimed")
          /\ \/ UNCHANGED faults
             \/ faults < MaxFaults /\ faults' = faults + 1
          /\ UNCHANGED <<outbox, recording>>
      BY <1>7 DEF Claim
    <2>2. lane' \in [Servers -> Lane]
      BY <1>2, <2>1 DEF LanePlace
    <2>3. faults' \in 0 .. MaxFaults
      BY <1>1, <2>1
    <2> QED
      BY <1>1, <2>1, <2>2, <2>3
  <1>8. ASSUME NEW w \in Servers, NEW j \in Jobs, ReadSummary(w, j)
        PROVE  Goal
    BY <1>1, <1>2, <1>3, <1>8 DEF ReadSummary
  <1>9. ASSUME NEW w \in Servers, NEW s \in Shards, NEW n \in AttemptNumbers,
               AnswerReport(w, s, n)
        PROVE  Goal
    <2> DEFINE row == [at |-> "loop", job |-> lane[w].job,
                       failed |-> lane[w].failed \/ report[s][n] = "failed"]
    <2>1. /\ Leave(w) \/ lane' = [lane EXCEPT ![w] = row]
          /\ AnnounceStop(JobOf[s]) \/ UNCHANGED outbox
          /\ UNCHANGED <<recording, faults>>
      BY <1>1, <1>9 DEF AnswerReport
    <2>2. lane' \in [Servers -> Lane]
      <3>1. lane[w] \in Lane
        BY <1>1
      <3>2. row \in Lane
        BY <3>1 DEF Lane, LanePlace
      <3> HIDE DEF row
      <3> QED
        BY <1>2, <2>1, <3>2
    <2>3. JobOf[s] \in Jobs
      OBVIOUS
    <2> QED
      BY <1>1, <1>3, <2>1, <2>2, <2>3
  <1>10. ASSUME NEW j \in Jobs, NEW type \in FinalEvent, RecordEvent(j, type)
         PROVE  Goal
    <2>1. UNCHANGED <<lane, faults>> /\ outbox' \subseteq outbox
      BY <1>10 DEF RecordEvent, BeginEvent, CommitEvent
    <2>2. \/ recording' \subseteq recording
          \/ recording' = recording \cup {<<j, type, job[j]>>}
      BY <1>10 DEF RecordEvent, BeginEvent, CommitEvent
    <2> QED
      BY <1>1, <2>1, <2>2
  <1>11. ASSUME NEW w \in Servers, CallFails(w) \/ CrashAgent(w)
         PROVE  Goal
    <2>1. /\ Leave(w) /\ faults < MaxFaults /\ faults' = faults + 1
          /\ UNCHANGED <<outbox, recording>>
      BY <1>11 DEF CallFails, CrashAgent
    <2>2. faults' \in 0 .. MaxFaults
      BY <1>1, <2>1
    <2> QED
      BY <1>1, <1>2, <2>1, <2>2
  <1>12. CASE UNCHANGED staticVars
    BY <1>1, <1>12 DEF staticVars
  <1> HIDE DEF Goal
  <1>13. Goal
    BY <1>4, <1>5, <1>6, <1>7, <1>8, <1>9, <1>10, <1>11, <1>12
       DEF StaticNext, LaneStep, BusyHeartbeat, EndShard, RepeatReport,
           RepeatProgress, StopJob, ViewSummary, Restart, TimePasses, Goal
  <1> QED
    BY <1>13 DEF Goal

\* A server executes in its lane, and only there.
LanesWork ==
  \A w \in Servers : lane[w].at = "working" <=> \E c \in working : c[1] = w

\* The lane and the claims change together, whether a claim is granted,
\* answered or abandoned, or its agent dies.
LEMMA LanesStep ==
  ASSUME StaticTypeOK, OneClaimEach, [StaticNext]_staticVars
  PROVE  LanesWork'
  <1>1. /\ lane \in [Servers -> Lane] /\ LanesWork
        /\ working \subseteq Servers \X Shards \X AttemptNumbers
    BY DEF StaticTypeOK, TypeOK, LanesWork
  <1>2. ASSUME NEW w \in Servers,
               \A v \in Servers : v # w => lane'[v] = lane[v],
               \A v \in Servers : v # w =>
                 ((\E c \in working' : c[1] = v) <=> \E c \in working : c[1] = v),
               lane'[w].at = "working" <=> \E c \in working' : c[1] = w
        PROVE  LanesWork'
    BY <1>1, <1>2 DEF LanesWork
  <1>3. ASSUME UNCHANGED <<lane, working>>
        PROVE  LanesWork'
    BY <1>1, <1>3 DEF LanesWork
  <1>4. ASSUME NEW w \in Servers, lane[w].at # "working", UNCHANGED working,
               NEW r, lane' = [lane EXCEPT ![w] = r], r.at # "working"
        PROVE  LanesWork'
    BY <1>1, <1>4 DEF LanesWork
  <1>5. ASSUME NEW w \in Servers, lane[w].at # "working", UNCHANGED working,
                NEW place \in LanePlace \ {"working"}, Goto(w, place)
         PROVE  LanesWork'
    <2>1. [lane[w] EXCEPT !.at = place].at # "working"
      BY <1>1, <1>5 DEF Lane
    <2>2. lane' = [lane EXCEPT ![w] = [lane[w] EXCEPT !.at = place]]
      BY <1>1, <1>5 DEF Goto
    <2> QED
      BY <1>4, <1>5, <2>1, <2>2
  <1>6. ASSUME NEW w \in Servers, lane[w].at # "working", UNCHANGED working,
                Leave(w)
         PROVE  LanesWork'
    <2>1. NoJob.at # "working"
      BY DEF NoJob
    <2> QED
      BY <1>4, <1>6, <2>1 DEF Leave
  <1>7. ASSUME NEW w \in Servers, NEW j \in Jobs, NextJob(w, j)
        PROVE  LanesWork'
    <2> DEFINE r == [at |-> "loop", job |-> j, failed |-> FALSE]
    <2>1. lane[w].at # "working" /\ UNCHANGED working
      BY <1>7 DEF NextJob, TakeQueued, TakeRunning, StartJob, RefreshSummary
    <2>2. UNCHANGED lane \/ lane' = [lane EXCEPT ![w] = r]
      BY <1>7 DEF NextJob, TakeQueued, TakeRunning
    <2>3. r.at # "working"
      OBVIOUS
    <2> HIDE DEF r
    <2> QED
      BY <1>3, <1>4, <2>1, <2>2, <2>3
  <1>8. ASSUME NEW w \in Servers, NEW j \in Jobs, CheckStop(w, j)
        PROVE  LanesWork'
    <2>1. /\ lane[w].at # "working" /\ UNCHANGED working
          /\ Leave(w) \/ Goto(w, "claiming") \/ Goto(w, "summing")
      BY <1>8 DEF CheckStop, At
    <2> QED
      BY <1>5, <1>6, <2>1 DEF LanePlace
  <1>9. ASSUME NEW w \in Servers, NEW j \in Jobs, ReadSummary(w, j)
        PROVE  LanesWork'
    BY <1>9, <1>6 DEF ReadSummary, At, RefreshSummary
  <1>10. ASSUME NEW w \in Servers, NEW j \in Jobs, Claim(w, j)
        PROVE  LanesWork'
    <2>1. lane[w].at # "working"
      BY <1>10 DEF Claim, At
    <2>2. ASSUME NEW s \in Shards, ClaimShard(w, j, s), Goto(w, "working")
          PROVE  LanesWork'
      <3> DEFINE new == <<w, s, shard'[s].attempts>>
      <3>1. working' = working \cup {new} /\ new[1] = w
        BY <2>2 DEF ClaimShard
      <3>2. /\ lane'[w].at = "working"
            /\ \A v \in Servers : v # w => lane'[v] = lane[v]
        BY <1>1, <2>2 DEF Goto, Lane
      <3> HIDE DEF new
      <3>3. new \in working'
        BY <3>1
      <3>4. \A v \in Servers : v # w =>
              ((\E c \in working' : c[1] = v) <=> \E c \in working : c[1] = v)
        BY <3>1
      <3>5. \E c \in working' : c[1] = w
        BY <3>1, <3>3
      <3> QED
        BY <1>2, <3>2, <3>4, <3>5
    <2>3. CASE UNCHANGED working /\ (Goto(w, "unclaimed") \/ Leave(w))
      BY <1>5, <1>6, <2>1, <2>3 DEF LanePlace
    <2> QED
      BY <1>10, <2>2, <2>3 DEF Claim, ClaimNothing, ClaimUnanswered
  <1>11. ASSUME NEW w \in Servers, NEW s \in Shards, NEW n \in AttemptNumbers,
               <<w, s, n>> \in working,
               working' = working \ {<<w, s, n>>},
               lane'[w].at # "working",
               \A v \in Servers : v # w => lane'[v] = lane[v]
        PROVE  LanesWork'
    <2>1. \A c \in working : c[1] = w => c = <<w, s, n>>
      BY <1>11 DEF OneClaimEach
    <2>2. ~\E c \in working' : c[1] = w
      BY <1>11, <2>1
    <2> QED
      BY <1>2, <1>11, <2>2
  <1>12. ASSUME NEW w \in Servers, NEW s \in Shards, NEW n \in AttemptNumbers,
                AnswerReport(w, s, n)
         PROVE  LanesWork'
    <2>1. /\ lane'[w].at # "working"
          /\ \A v \in Servers : v # w => lane'[v] = lane[v]
      BY <1>1, <1>12 DEF AnswerReport, Leave, NoJob
    <2> QED
      BY <1>11, <1>12, <2>1 DEF AnswerReport
  <1>13. ASSUME NEW w \in Servers, CallFails(w)
         PROVE  LanesWork'
    <2>1. /\ lane'[w].at # "working"
          /\ \A v \in Servers : v # w => lane'[v] = lane[v]
      BY <1>1, <1>13 DEF CallFails, Leave, NoJob
    <2>2. CASE lane[w].at # "working" /\ working' = working
      BY <1>2, <1>1, <2>1, <2>2 DEF LanesWork
    <2> QED
      BY <1>11, <1>13, <2>1, <2>2 DEF CallFails, AbandonClaim
  <1>14. ASSUME NEW w \in Servers, CrashAgent(w)
         PROVE  LanesWork'
    <2>1. /\ lane'[w].at # "working"
          /\ \A v \in Servers : v # w => lane'[v] = lane[v]
          /\ working' = {c \in working : c[1] # w}
      BY <1>1, <1>14 DEF CrashAgent, Crash, Leave, NoJob
    <2> QED
      BY <1>2, <2>1
  <1>15. CASE UNCHANGED staticVars
    BY <1>3, <1>15 DEF staticVars
  <1>16. ASSUME UNCHANGED lane, UNCHANGED working
         PROVE  LanesWork'
    BY <1>3, <1>16
  <1> QED
    BY <1>7, <1>8, <1>9, <1>10, <1>12, <1>13, <1>14, <1>15, <1>16
       DEF StaticNext, LaneStep, BusyHeartbeat, EndShard, RepeatReport,
           RepeatProgress, RecordEvent, BeginEvent, CommitEvent, StopJob,
           ViewSummary, Restart, TimePasses, loopVars, Heartbeat, WriteReport,
           DeliverProgress, RequestStop, RefreshSummary, RegisterServer, Tick

-----------------------------------------------------------------------------
(* The theorems.                                                           *)

\* Every step keeps the inductive invariant.
LEMMA StaticStep == StaticInv /\ [StaticNext]_staticVars => StaticInv'
  <1> SUFFICES ASSUME StaticInv, [StaticNext]_staticVars
               PROVE  StaticInv'
    OBVIOUS
  <1>1. StaticTypeOK /\ TypeOK /\ AttemptAgreement /\ OneClaimEach /\ DoneIsBacked
    BY DEF StaticInv, StaticTypeOK
  <1>2. StaticTypeOK'
    <2>1. TypeOK' /\ LanesWork'
      BY <1>1, RowsStep, LanesStep
    <2> QED
      BY <1>1, <2>1, LoopTypes DEF StaticTypeOK, LanesWork
  <1>3. OneClaimEach'
    BY <1>1, ClaimsStep DEF ClaimsMove, OneClaimEach
  <1> QED
    BY <1>1, <1>2, <1>3, RowsStep, DoneStep DEF StaticInv

\* StaticInv holds throughout: in particular, a job_done that is posted, sent
\* again or being recorded is only about shards that all succeeded.
THEOREM StaticHolds == StaticSpec => []StaticInv
  <1>1. StaticInit => StaticInv
    <2> SUFFICES ASSUME StaticInit
                 PROVE  StaticInv
      OBVIOUS
    <2>1. TypeOK /\ AttemptAgreement
      BY DEF StaticInit, Init, TypeOK, JobRow, JobStatus, ShardRow, ShardStatus,
             ReclaimableShard, AttemptRow, NoAttempt, NoReport, AttemptAgreement,
             RowsAgree, AttemptNumbers
    <2>2. /\ lane \in [Servers -> Lane]
          /\ \A w \in Servers : lane[w].at # "working"
      BY DEF StaticInit, Lane, LanePlace, NoJob
    <2>3. /\ working = {} /\ outbox = {} /\ recording = {} /\ faults = 0
          /\ \A j \in Jobs : job[j].status # "succeeded"
      BY DEF StaticInit, Init
    <2> QED
      BY <2>1, <2>2, <2>3 DEF StaticInv, StaticTypeOK, OneClaimEach, DoneIsBacked
  <1>2. StaticInv /\ [StaticNext]_staticVars => StaticInv'
    BY StaticStep
  <1> QED
    BY <1>1, <1>2, PTL DEF StaticSpec

\* A job is called succeeded only when all its shards succeeded, whichever
\* agent's summary said so and however late its event arrived.
THEOREM SuccessIsAlwaysTrue == StaticSpec => []SuccessIsTrue
  <1>1. StaticInv => SuccessIsTrue
    BY DEF StaticInv, SuccessIsTrue, SuccessIsComplete, DoneIsBacked,
           AllSucceeded
  <1> QED
    BY <1>1, StaticHolds, PTL

\* A verdict is not taken back, and no execution begins after it or after a
\* stop, although agents are still in their loops.
THEOREM VerdictsAlwaysStand == StaticSpec => VerdictsStand
  <1> DEFINE
    NotReopened == \A j \in Jobs : job[j].status \in TerminalJob
                                     => job'[j].status \in TerminalJob
    NoClaim == \A s \in Shards :
                 job[JobOf[s]].status \in TerminalJob \/ job[JobOf[s]].stop
                 => shard'[s].attempts = shard[s].attempts
  <1>1. StaticInv /\ [StaticNext]_staticVars => [NotReopened]_staticVars
    <2> SUFFICES ASSUME TypeOK, [StaticNext]_staticVars,
                        NEW j \in Jobs, job[j].status \in TerminalJob
                 PROVE  job'[j].status \in TerminalJob
      BY DEF StaticInv, StaticTypeOK
    <2> QED
      BY KernelOrEvent, JobStep, EventStep DEF JobMoves
  <1>2. StaticInv /\ [StaticNext]_staticVars => [NoClaim]_staticVars
    <2> SUFFICES ASSUME TypeOK, AttemptAgreement, [StaticNext]_staticVars,
                        NEW s \in Shards,
                        job[JobOf[s]].status \in TerminalJob \/ job[JobOf[s]].stop
                 PROVE  shard'[s].attempts = shard[s].attempts
      BY DEF StaticInv, StaticTypeOK
    <2>1. JobOf[s] \in Jobs /\ RowStep(s)
      BY ShardsMove
    <2>2. job[JobOf[s]].stop => job'[JobOf[s]].stop
      BY <2>1, KernelOrEvent, JobStep, EventStep DEF JobMoves
    <2> QED
      BY <2>1, <2>2 DEF RowStep
  <1> QED
    BY <1>1, <1>2, StaticHolds, PTL
       DEF StaticSpec, VerdictsStand, VerdictNotReopened, NoClaimAfterVerdict

=============================================================================
