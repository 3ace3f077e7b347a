# A verification development for OcrParser

OcrParser turns trees of documents into structured output. A control plane
(FastAPI over SQLAlchemy) keeps jobs in a database; agents on worker servers
poll it, lease shards of a job, run the parser on them and report back. This
directory models the parts whose correctness depends on the order in which
independent parties act, and the decisions they take from what they have read;
it checks the models with TLC and proves the central invariants with TLAPS.

## 1. Inventory

Paths are relative to `src/`. Every module says at its head which files it
models and what it abstracts; PROJECT.json maps each definition to its lines.

| Component | State it keeps | Operations | Interacts with | Modules |
|---|---|---|---|---|
| Scheduling kernel, `ocr_platform/control/scheduling.py` | rows `Job`, `WorkShard`, `ShardAttempt`, `ScanUnit` | claim, renew, update, reconcile expired leases, fence a restarted server, stop reclaimable work, finalise the job | called by job, manifest and worker commands inside their transactions | ShardLease, ShardPromise, ManifestScan |
| Job lifecycle and events, `control/domains/jobs/` | `Job.status`, `stop_requested`, counters, `JobEvent`, `JobFile` | create, stop, record an event, refresh the summary, archive | kernel; agents' events; operator | StaticJob, JobEvents, JobAdmission |
| Job page, `jobs/projection.py` | none | totals, attention, stage | job rows, counters, shards | JobProgress, JobSummary, JobPage |
| Manifests and scanning, `control/domains/manifests/`, `manifest/` | `InputManifest`, `ScanUnit`, shards of a growing job | register, split, claim, complete, fail a unit, freeze | kernel; scan lane of agents | ManifestScan, ManifestBuild |
| Manifest integrity | audit columns of `InputManifest` | report, request, claim, complete, fail an audit | integrity lane of agents | IntegrityReport, IntegrityAudit |
| Workers, `control/domains/workers/` | `Server` rows, heartbeat time, capabilities | register, heartbeat, hand out jobs, archive, preflight | kernel (fencing, renewal), job commands | WorkerArchive, JobAdmission, ShardLease |
| Agent runtime and loop, `agent/runtime.py`, `lanes.py`, `runner.py` | current job, job queue, final code of the loop, child process | six lanes; the loop of a job; executing a shard; pausing and stopping the child | control API, spools, the child | StaticJob, AgentChild, ExecutionControl, HostPressure |
| Agent spools and client, `agent/client.py`, `runner.py` | event spool, pending shard updates, quarantine | append, replay, acknowledge, trim, quarantine | control API; files shared by lanes and by restarts | UpdateSpool, JobEvents |
| Model profiles and certification | evidence rows | record, certify, gate a job | job creation | JobAdmission |
| Diagnostics and metrics | none | readiness, operations summary, metrics | everything, read-only | ControlDiagnostics |
| Persistence, `migration.py`, `database.py`, `bootstrap.py`, `readiness.py` | schema and its history | start-up upgrades, migration, seeding, the readiness probe | every process of the control plane | SchemaMigration |
| Remote administration, `remote_workers.py` | units and env files of a host | plan, apply, actions of an operator | a host over ssh | WorkerScale |
| Control UI, `control/ui/` | the draft of a request | edit, preflight, refresh, create | control API | JobWizard |
| Parser runtime and pipeline, `ocr_parser/` | per-run result lists, sidecar and sentinel files, circuit breaker, limiter | parse files and pages concurrently, resume, merge text, write output | started by the agent as a child | DocumentRun, InferenceGate, PageText, PageImages, ExecutionControl |
| Engines, `ocr_parser/engines/` | budgets and slots of a page | retries, races, fallbacks; layout and blocks | parser, model server | PageAttempts, TwoStagePages |
| `dots_ocr/` utilities | bucket and disk, manifest of an upload, index file | download, upload, index documents | an object store, a model | S3Download, S3Upload, DataIndex |
| Layout service, tools, deployment | none between calls | detection; install, audit, soak | outside the running system | none |

**Hard in the kernel.** Five commands write the rows of a shard and its
attempts by separate statements: a claim, a progress or terminal update, the
reconciliation that every claim and every summary runs first, the fencing of a
restarted server and a stop. A worker whose lease expired keeps executing and
reports later; a claim commits though its answer is lost; reports are replayed
from disk any number of times. *Right*: exclusive grants, bounded in number; a
shard settles once, for a reason; its attempt rows tell the same story; the job
follows its shards; the page of the job never takes a failure back.

**Hard in the job loop.** Only an agent declares a job done. It decides from a
summary it read and from exit codes it remembers, and the event that says so
travels through a spool. Agents leave the loop early because others still have
shards. `record_event` reads the job without a lock and writes its status when
it commits. *Right*: success means every shard succeeded; verdicts do not move;
every job and every stop comes to an end.

**Hard in the agent.** `run_job` is half a dozen tasks around a child that may
be stopped by an operator, by the supervisor, by pressure on the host or by
itself, and that survives neither of two ways of being killed in the same way.
*Right*: one run at a time; an outcome that agrees with what the child did; a
pause that is lifted when the host recovers and shown as it is.

**Hard in scanning.** Units expand into more units and into shards of a job that
is already executing; they fail, expire and are fenced as shards are; whether
the manifest freezes or fails is decided by the unit that commits last. The same
tree is walked by three copies of one algorithm. *Right*: a frozen manifest is
complete, the manifest does not stay open for ever, and its shards hold the
input once, however it was built.

**Hard in the spools.** Two lanes and the next incarnation of the agent work on
the same files; an update on disk is replaced while an older generation of it is
on its way. *Right*: nothing a worker reported is lost, nothing newer is deleted
for something older.

**Hard in the decisions.** The audit of a manifest, the diagnostics and the
check of shared paths each exist twice or three times and must agree; the
eligibility of workers is decided at creation from rows that a claim reads again
later; the totals of a job are put together from rows that are cut to a limit and
from counters that outlive them. *Right*: the copies agree; who may claim could
have been chosen; pruning does not make a job look better.

**Hard in the parser.** Pages finish out of order, share a circuit breaker and
budgets, and a run is resumed from what an interrupted one left on disk. Text is
filtered and merged twice, images are removed from two files that link to them.
*Right*: a document marked complete is complete; a limiter slot neither leaks
nor is given twice; the circuit opens and closes again; no word and no linked
image disappears.

PROJECT.json lists the hazards with their lines and the properties aimed at them.

## 2. Plan

In this order; a later module extends or composes an earlier one.

1. `ShardLease` with `ShardPromise` (the abstract specification it implements)
   and `JobPage` over both tables and `JobSummary`; `StaticJob` over it; both
   with `ShardLeaseProofs`. Done.
2. `ManifestScan` with `ManifestScanProofs`, `UpdateSpool` with
   `UpdateSpoolProofs`, `JobEvents` with `JobEventsProofs`, `DocumentRun` with
   `DocumentRunProofs`, `InferenceGate` with `InferenceGateProofs`. Done.
3. The child of the agent and its pause: `AgentChild` with `MachineProofs`,
   `ExecutionControl` over `HostPressure`. Done.
4. Decisions: `JobAdmission`, `IntegrityReport` and `ControlDiagnostics` (with
   `DecisionProofs`), `JobProgress`, `ManifestBuild`. Done.
5. Audits and archives as overlapping transactions: `IntegrityAudit`,
   `WorkerArchive`. Done.
6. Engines and text: `PageAttempts` and `TwoStagePages` (both with
   `DecisionProofs`), `PageText`, `PageImages` (both with `DocumentRunProofs`). Done.
7. Around the system: `SchemaMigration`, `WorkerScale`, `JobWizard`, `S3Upload`,
   `DataIndex` (with `MachineProofs`), `S3Download` (with `DecisionProofs`). Done.
8. Left: `AgentSupervisor` and the restart of single lanes; the log spool; a
   composition of `AgentChild` with `UpdateSpool`, so that the outcome of a run
   is followed to the row of its shard; editing of model profiles.

Proofs, in this order: `TypeOK` and `AttemptAgreement` of the kernel, then
`OutcomeJustified`, `JobFollowsShards`, its action properties and its refinement
(`ShardLeaseProofs`); the invariants of `InferenceGate` (`InferenceGateProofs`);
the success and the verdicts of `StaticJob` (`ShardLeaseProofs`); the reports of
`UpdateSpool` (`UpdateSpoolProofs`); content and freeze of `ManifestScan`
(`ManifestScanProofs`); the way and the counts of `JobEvents`
(`JobEventsProofs`); pages, output and skipping of `DocumentRun`
(`DocumentRunProofs`); the page of a job over the kernel (`ShardLeaseProofs`);
runs, reports and ends of `AgentChild` (`MachineProofs`); the admission of
jobs, the calls of pages and the downloads (`AdmissionKeepsItsWord`, `CallBudgets`
and `DownloadKeepsFiles` of `MCDecisions`, in `DecisionProofs`); schema, page,
uploader, index, hosts and archives (`DoneIsTrue` of `MCMachines`, in
`MachineProofs`); audits and diagnostics (`AuditsAgree` and `DiagnosticsAgree` of
`MCDecisions`, in `DecisionProofs`); text and images (`ContentKept` of
`MCDocumentRun`, in `DocumentRunProofs`). Done. Left: the lost manifests and
audits of `IntegrityAudit`; `ManifestIsTheInput` and `LedgerSurvivesPruning` of
`MCDecisions`.

## 3. Modules

`MC*` modules name the constants of the runs. Where a job, shard or server is a
model value the value itself has no meaning, and `SYMMETRY` is used where
servers or shards are interchangeable and no liveness is checked. Definitions
marked "a bug to test with" are not part of a specification: each replaces the
definition after it in one mutant of PROJECT.json and shows that the property
named there notices.

Two runs put independent components side by side: `MCDecisions` and `MCMachines`
have a variable `topic`, chosen in the initial state and never changed, and a
variable `subject`, the state of the component of that topic; `MCDocumentRun`
does the same for the parser. A property of such a run is the conjunction of the
properties of its components, which are named in the comment above it and stated
and explained in the module of the component.

### 3.1 `ShardLease`, `ShardPromise`, `JobPage`

`control/scheduling.py`. The variables `job`, `shard`, `attempt` are the tables
`Job`, `WorkShard`, `ShardAttempt`; `working`, `report`, `up` are the workers as
far as the kernel depends on them. An action is a transaction: the code takes
the row lock of the job, then of the shard, before it decides, which makes the
transaction one step. `WorkerArchive` (3.9) is the place where a transaction is
not one.

- `ClaimShard` is the claim with the reconciliation in front of it;
  `ClaimUnanswered` is the same claim whose answer never arrives; `ClaimNothing`
  commits the reconciliation alone.
- `DeliverReport` and `DeliverProgress` are `update_shard` for terminal statuses
  and for progress, applied, replayed or refused by owner and attempt number. A
  report is never removed once written: it may arrive late, again, or out of
  order.
- `RegisterServer` fences what the server was running; `Heartbeat` renews;
  `RequestStop`, `RefreshSummary`, `StartJob` are the commands of the job.
- `Tick` moves the clock: leases run down to 0, the expired deadline; an
  expired lease is only noticed by reconciliation.

`ShardPromise` says it without leases, attempts and reports: one holder at a
time, a bounded number of grants, none after a stop, one outcome, one verdict
after all outcomes. `KeepsPromise` is the refinement, checked as a property.
`JobPage` computes the stage a job page shows (the operators of `JobSummary`) on
every state of the kernel; `StageOnlyAdvances` says that the page takes nothing
back.

Runs: `shard_lease` (one job, two shards, two servers, two attempts, a lease of
one tick: enough for a shard to be taken over, reported on by the old owner and
retried, with the other shard deciding the job) and `shard_lease_live` (two
shards and one server, so that heartbeats sent for one shard renew the lost
claim of the other; claims are strongly fair because competing reconciliations
may disable one for a moment, the clock, agents that are up and restarts weakly
fair, crashes and losses not).

### 3.2 `StaticJob`

`run_static_sharded_job` of `agent/runner.py` on top of `ShardLease`: the place
of each lane in the loop, what it remembers (`final_code`), the terminal event
it posts, and `record_event` as two steps, since `control/domains/jobs/events.py`
reads the job without a lock and writes its status later. `MaxFaults` bounds
crashes and failed control calls, nothing else is bounded.

Runs: `static_job` (two shards, two servers, one fault) shows what holds with a
fault: a succeeded job has only succeeded shards (`SuccessIsTrue`), a verdict is
not reopened and nothing is claimed after it (`VerdictsStand`).
`static_job_ends` (one shard, two servers, no faults) shows that jobs and stops
end; `static_job_stopping_forever` that with one restart a stop may not
(section 5).

### 3.3 `ManifestScan` and `ManifestBuild`

`ManifestScan`: `control/domains/manifests/` and the scan-unit half of the
kernel. Units expand into units and shards; completion and failure are requests
on a wire, repeated until answered; the unit that ends last freezes the manifest
or fails it. Execution of shards is reduced to open, held, settled.
`MaxInterrupts` bounds crashes, lost answers and early expiries together.
`TreeAssumption` says what a walk of directories makes sure of: no document is in
two directories, and every directory is reached from the root.

Run `manifest_scan`, safety and liveness together: a root with two
subdirectories, so that a last unit and a last-but-one exist and two units are
scanned at once, and one interrupt: an expiry under a slow scan, whose late
completion is then one of a reclaimed attempt, or a lost answer, or a crash.
Claims are strongly fair, agents that are up and reconciliation weakly fair; a
stop, a failure and an interrupt are never assumed.

`ManifestBuild` (topic "build" of `decisions`): the content. Trees of two
directories below the root with entries that cannot be read, are links, or
directories that cannot be listed, and given manifests with broken and
duplicate rows, go through each way the code has to make shards of them;
`ManifestIsTheInput` compares manifest, shards and freeze report with the set of
documents the walk is meant to find. Retention of progress events is part of it:
the numbers of the freeze report are claimed only where the events of all units
are kept.

### 3.4 `UpdateSpool`

`agent/runner.py:250-450` and its callers: one file per shard, replaced
atomically, read by lanes that await an answer before they delete or quarantine
what they read. Records carry generations; `Generations` is as large as the
number of generations that can be referred to at once, so reuse is harmless.
The control plane is reduced to which attempt a shard is on and whether this
server holds it.

Run: `update_spool` (two shards, one of which may be refused while the other
waits behind it, two attempts each, two replaying lanes beside the execution
lane, one fault). Weak fairness: executions end, calls are answered unless a
fault is spent, every lane keeps its loop, a dead agent is restarted.

### 3.5 `JobEvents`, `JobProgress`, `JobSummary`

`JobEvents`: events from an execution to the counters: emission in order, the
spool with its size limit, replay from the oldest, handlers that read counters
and the repeat check before they write. `EventLimit` is
`job_event_detail_limit`; a negative one keeps every row. Faults are failed
calls, timeouts after which the handler runs on, and crashes. Run `job_events`
(one agent with its two lanes, all rows kept, a spool of two records and four
faults, which overflow it and lose answers to events that were recorded). Weak
fairness of handling, answering and the replay loop.

`JobProgress` and `JobSummary`: what is kept of those events under limits on
files, events and samples, and what the page of the job makes of it. Topic
"ledger" of `decisions` records every sequence of up to four of eleven events on
two files under five settings of the limits; `LedgerSurvivesPruning` says that
cutting rows does not make a job look smaller or better.

### 3.6 `DocumentRun`, `PageText`, `PageImages`, `ExecutionControl`

`DocumentRun`: `ocr_parser/cli.py`, `pipeline/document_parser.py`,
`infra/resume.py`, `infra/status_sidecar.py`: the decision to skip, the
producer, the bounded queue, the consumers and their end marks, collection of
the results, Markdown page by page, sidecar, event. A signal may come at any
step, a crash too; an exception is raised where files are written. The content
of a page is the version of the input it was rendered from. A scenario bounds
starts, signals, crashes, errors and edits and says whether the parser works on
a manifest record. `OutputTruthful` says that the sidecar describes the file
beside it and that an announced success stays backed by one, and that no page is
missing from what is put together; `SkippedIsRight` is about the later run that
relies on it.

`PageText`: filtering and merging of the cells of a document of one page of up
to three blocks, or three pages of two blocks, under two settings; `TextIsKept`
says every word survives in both outputs unless a filter was asked to remove it.
`PageImages`: saving, removal of near duplicates and the clean-up for a document
of two pages beside an older one; `LinksHold` says that a Markdown file links
only to images that are there, whatever step fails or is the last. `ContentKept` of the run is both.

`ExecutionControl` over `HostPressure`: the watcher of the agent looks at the
host and writes a control file, the child's loop reads it and writes an event,
the agent and its replay lane update the shard.

Run `document_run`: topic "run" (manifest mode with four runs, two crashes, two
errors and two new versions of the input; local runs with a signal and an input
replaced under them; three pages, one more than a queue of one and a busy
consumer hold), "control" (two readings of a host, one lost update), "text" and
"images". Weak fairness of the steps of a live process, whose tasks wait only for
each other and for calls that time out, and of the watcher, the readers and the
replay lane; edits, signals, crashes and the state of the host are not assumed.
`ParserSettles` says that every run ends, and that the pause follows the host
and is shown as it is once the host stays as it is.

### 3.7 `InferenceGate`, `PageAttempts`, `TwoStagePages`

`InferenceGate`: `ocr_parser/runtime.py` (`ResizableAsyncLimiter`, `api_lane`,
the retry loop, autotuning, the control file) and `infra/circuit_breaker.py`.
The tasks of one event loop interleave only at awaits, and each action runs from
one await to the next. The lock of the limiter's condition is never contended,
because nobody awaits while holding it except in `wait()`, which gives it up:
acquiring it does not suspend, so release and resize are single steps that no
cancellation can split. Waking is `notify_all`: who sleeps goes back to look at
the count. Time is the step `RecoveryElapses`, the error rate autotuning sees is
a free choice.

Run `inference_gate`: three callers and a limit up to three, so that a lowered
limit lies below the calls under way and two waiters compete for one slot; weak
fairness of every caller and of the recovery time; that the service recovers is
an assumption of `CircuitCloses`. `GateIsSound` is the inductive invariant but
for the sleepers: type, the count of the limiter, the pause and the circuit.

`PageAttempts` (topic "page"): one page of the DotsOCR engine with one to four
retries and up to three calls at once, every answer and three errors; `BudgetHolds`
says that every call is paid for out of the limit of the page, but those of a
series that went unanswered and the one race that may follow it.
`TwoStagePages` (topic "engine"): two pages of up to two blocks, PaddleOCR-VL and
MinerU, blocks that run on after their page failed; `CountsTrue` ties the counters
the pages share to what is under way, and all pages end (weak fairness of the
event loop, which always runs some task that can go on; calls return).

### 3.8 `AgentChild`

The agent and its OCR child: `run_job` as concurrent tasks (event forwarding,
log streams, stop watcher), both ways of terminating the child, shutdown of the
supervisor, and the outcome made of the exit code and the event file. Topic
"child" of `machines`: a sharded and a direct job, one file, one fault, where a
fault is a refused call, a failed start or a child that crashes at any point.
`OneRunAtATime`: the agent holds one job at most, and a child is alive only while
a lane waits for it or ends it. `ReportIsTrue`: the update of a shard says what
the child wrote. `EndsAreTold`: control is told an end of every job executed
directly. Fairness is that of the event loop: exits are reaped,
readers read, watchers poll, and streams end when nobody holds them.
`PoolSurvives` is whether processes of the child's pool outlive it (section 5).

### 3.9 `JobAdmission`, `WorkerArchive`, `IntegrityReport`, `IntegrityAudit`, `ControlDiagnostics`

`JobAdmission` (topic "request" of `decisions`): all pairs of workers of 20
kinds of rows against requests that pin or allow them, and against profiles with
a certificate. `ClaimersAreCertified`: who may claim a job of a certified
profile has what the certificate names; `PreflightKeepsItsWord`: what preflight
promises, creation and claim keep.

`WorkerArchive` (topic "archive" of `machines`): archiving is one transaction
that reads without locks before it writes; a claim, a creation, a heartbeat or a
registration may fall between. Rows written are locked until the commit, as on
PostgreSQL at read committed. `ArchivedIsIdle`, and a job pinned to the worker
does not stay queued if the worker goes on sending heartbeats, claiming and
restarting (`Goes`). Left out by `between`: the worker restarts between the first
write of the archive and its commit (section 5).

`IntegrityReport` (topic "manifest"): both implementations of the audit, the one
in the control plane and the one in agents, on every small manifest: they agree,
and "ok" means the shards cover the manifest. `IntegrityAudit` (topic "audit"):
request, claim, report and failure as overlapping transactions of two workers on
hosts with and without room; a requested audit is made, fails or is lost with
its worker, and does not stay open otherwise (`AllEnds`, weak fairness of the
lanes, of commits and of hosts that recover).

`ControlDiagnostics` (topic "tables"): readiness, operations summary, alerts and
metrics over one set of tables; `DiagnosticsAgree` compares the numbers that are
computed twice and the alerts with what raises them.

### 3.10 `SchemaMigration`, `WorkerScale`, `JobWizard`

Topics "schema", "host" and "wizard" of `machines`.

`SchemaMigration`: an older control, a newer one that changed a script and the
migration tool start on one database, crash and restart; every script is applied
once and recorded with the checksum it was applied with, default profiles are
seeded whole, and a request let through by the readiness probe meets a current
schema. `WorkerScale`: a plan is read off the host, the apply is a script that
runs command by command while the connection times out, the operator acts or a
second request comes. The run has three instances and one fault; a second request
counts as one, and hosts with two requests have two workers (`MaxShared`). `JobWizard`: the draft, its timers, the answers of
earlier drafts and the refresh every three seconds; what is created is what was
checked (`CreatedWasChecked`), for two inputs, one worker, two clicks and one
failed request, and the root shown becomes that of the input (weak fairness of
timers and answers).

### 3.11 `S3Download`, `S3Upload`, `DataIndex`

`S3Download` (topic "download" of `decisions`): producer, bounded queues, two
workers, side-car files, a caller that may stop reading, one worker that dies.
`DownloadKeepsFiles`: what is emitted is whole (unless the history `asked` has its
key twice) and no key vanishes from the statistics; `StreamEnds`. `S3Upload` (topic "upload"): two callers, one worker,
one document of two artifacts, two runs, one fault: a closed uploader has
ended every task that was prepared, and the manifest a run resumes from names only
what the bucket has had. `DataIndex` (topic "index"): three documents, two of them
with equal content, batches of two, two lanes: once a run is shut down, what it did
not fail on is in the index. All three run to the next await, under weak fairness of the event loop.

## 4. What is proved

`ShardLeaseProofs`: for all finite or infinite sets of jobs, shards and servers,
any number of attempts and any lease, under the assumptions named in
`ShardLease`.

- `TypeCorrect`: `Spec => []TypeOK`. It is inductive on its own; the one
  argument in it is that a claim increments `attempts` only below the limit and
  that reconciliation fails a shard at the limit instead of leaving it claimable.
- `AttemptsAgree`: `Spec => []AttemptAgreement`: the rows of a shard and of its
  attempts tell one story, although five commands write them separately.
- `RowsAlwaysAgree`: both, which is `RowsTellOneStory` of the run.

The rest of the module proves, for the same constants, what else the run
`shard_lease` checks.

- The inductive invariant `VerdictInv` is `RowsTellOneStory`, `JobFollowsShards`
  and `OutcomeJustified` with two facts they rest on: a worker reports "stopped"
  only after a stop (`StopsReported`; the settled status copies the report), and
  a job that is still queued has nothing granted (`QueuedIsIdle`; without it, a
  stop would end a queued job beside a running shard).
- Jobs: `FinalizedFollows` says that finalising leaves the verdict the shards
  call for if the verdict before was not premature; each command is reduced to
  it, or to `OpenStayOpen` when it moves only open shards.
- Shards and rows: `RowMoves` and `JobMoves` say once how any step may change a
  `WorkShard` and a `Job` row. From them follow `OldAttemptsKept`
  (`OldAttemptsStayOld`) and, with `VerdictInv` before and after the step,
  `KernelKeepsPromise`: `Spec => KeepsPromise`, the refinement of `ShardPromise`.
- `VerdictsHold`, `JobsFollowShards`, `OutcomesJustified` are the invariants.
- `PageTakesNothingBack`: `Spec => StageOnlyAdvances`, for finitely many shards,
  because the page counts them: `CountsTell` turns its counts into "some shard
  has failed" and "some shard is open", `PageShows` says what stage they come to,
  and `RowMoves` and `JobMoves` what a step may do to it.

The second half of `ShardLeaseProofs`: the composition of agents, kernel and
terminal events (`StaticJob`), for any jobs, agents, shards and faults.

- `KernelOrEvent` says that every step of the composition is a step (or a
  stutter) of the kernel, except the second half of recording an event, which
  may end a job: `AttemptAgreement` carries over, and so do `RowMoves` and
  `JobMoves`.
- `StaticInv` is `StaticTypeOK`, `AttemptAgreement`, `OneClaimEach` (a server
  executes one claim at a time, so what it reports it holds) and `DoneIsBacked`,
  which follows `job_done` from the summary an agent read, through the spool of
  unsent events and the half recorded event, to the row of the job: at each
  place the shards of the job have all succeeded. It is inductive because a
  settled shard stays settled (`VerdictsStand` is the same fact seen from the job).
- `StaticHolds`; from it `SuccessIsAlwaysTrue` (`SuccessIsTrue`) and
  `VerdictsAlwaysStand` (`VerdictsStand`).

`UpdateSpoolProofs`: for any set of shards, any finite set of lanes that replay,
any number of attempts and faults.

- `FreshIsFree` counts the generations: the file, the execution lane and each
  lane that replays refer to at most one, so among three more than there are
  lanes one is free. The code draws random UUIDs; this is what it needs of them.
- `SpoolInv` adds to what the run checks that a record being sent equals the
  file whenever their generations are equal (`GenerationsTell`), that no record
  is of an attempt the shard was not on (`AttemptsPast`), and that a report
  found in the file of a running shard is of an attempt before
  (`RunningIsAhead`).
- Every step is reduced to a few moves of rows, files and lanes
  (`EveryStepMoves`), and each part of the invariant is kept by the moves.
- `SpoolHolds`, `FilesAlwaysBackReports` (`FilesBackReports`) and
  `ReportAlwaysKept` (`ReportKept`).

`ManifestScanProofs`: for any tree of directories, finite or not, that fits
`TreeAssumption`, any servers and any number of interrupts.

- `ScanInv` is the type invariant, `MaterialisedOnce` and `ReadyWhenComplete` with
  four facts they rest on. `TasksOwned`: a lane works on its own unit unless a
  later attempt of it began, so a late report is recognised by its attempt.
  `AttemptsPaid`: an attempt beyond the first costs an interrupt, which is why
  the bound on attempts is not met by accident. `TreeFollows`: units appear with
  the content of their parent. `StopShows`: only a stop stops a unit.
- Each step is reduced to the few ways in which it may change a unit, a lane and
  the job; the content of a unit changes in one of them only.
- `ReadyOnlyComplete` (`ReadyWhenComplete`): when the last unit freezes the
  manifest the units that succeeded are closed below the root, hence are the whole
  tree. `ContentAlwaysSound` (`ContentSound`) is about late and repeated reports,
  `EndedAlwaysStaysEnded` (`EndedStaysEnded`) about verdicts and attempts after a
  stop.

`JobEventsProofs`: for any agents, types of event, files and faults, and any size
of the spool.

- `PathInv` follows an event: a lane waits for one request at a time
  (`OneAtATime`) which carries the event it waits with (`AwaitedBy`), a request
  that may be answered with success has been recorded (`Answerable`), and the
  replay waits for the head of its walk (`WalksWhileReplaying`). From it,
  `EventsAlwaysAccounted` (`EventsAccounted`), whatever the limit on rows.
- `CountInv` is about handlers that overlap: what one of them read and will write
  does not exceed the events there are once it has recorded its own
  (`ReadsSound`), however many handlers read the same number.
  `CountsAlwaysSound` (`CountsSound`) has the hypothesis `EventLimit < 0`, all
  rows kept; the run checks that case, and with a limit the invariant is false
  (`CountedOnce` in section 5: the row the repeat check looks for was pruned).

`DocumentRunProofs`: for any finite nonempty set of consumers, any number of
pages, any size of the queue and any finite set of scenarios.

- `PagesInv` is about producer, queue and consumers of each parser: the end marks
  come after the last page and before the first consumer that leaves, so a page
  that was queued is in the queue, under way or has a result, and what is put
  together has a result for every page. `NoPageEverLost` (`NoPageLost`) holds for
  any number of parsers on the same output.
- `DiskInv` adds what one parser leaves on disk and when: a run that parses
  removed what it found (`Cleaned`), what is written is what was rendered
  (`Written`), a verdict of success is about a file that is whole (`Whole`) and
  is in the sidecar before it is announced (`Recorded`). Crashes, errors, signals
  and replaced inputs may come at every step of it. `OutputAlwaysTruthful`
  (`OutputTruthful`) is for a parser alone with its output directory
  (`Parsers = {x}`), which is what the directory of a claimed shard is for.
- `SkippedAlwaysWhole` (`SkippedIsWhole`), `SkippedAlwaysTheRow`
  (`SkippedIsTheRow`) and both as `SkippedAlwaysRight` (`SkippedIsRight`) are
  action properties: what a run skips is whole, and is of the version its manifest
  row names. Their hypotheses are a parser that is alone and works on manifest
  records; for the first, no signal in a run before; for the second, inputs
  replaced between runs only. None can be dropped: the rows `Shutdown`, `Legacy`,
  `Two` and `Edited` of section 5 are the counterexamples. The run checks more,
  `SkippedIsRight` for scenarios with a signal where no later run trusts what it
  left.
- Text (`PageText`): `TextIsAlwaysKept` (`TextIsKept`) is about any document, with any
  number of pages and blocks and any words, not only those of the run. What a page
  says is a `Reading` of its cells: each cell says a part, and the parts are put one
  after the other. A merge puts two neighbours into one that says what both said
  (`AddsUp`: words of texts, words that are shown, cells that are no text), so
  merging up to any cell leaves every such reading as it was (`MergesUp`).
  Two pages that are put together move the first part of the one behind the last of
  the other, past pages that say nothing in between (`CrossOK`); that needs a page
  to keep a text of its own, which is what `Apart` says. The recursive functions
  are unfolded over the least cell, or page, at which they could fail
  (`LeastIsThere`, `ToTheEnd`).
- Images (`PageImages`): `ImagesInv` says that a page is written after its images were
  saved, that only what neither file links to is to be deleted, that the sweep is
  for runs with both files, and that layouts stay until the PDF is there. That is
  what `LinksHold` needs wherever the run ends; it is kept for any pages, any likeness
  and any order of names. `ContentAlwaysKept` (`ContentKept`) is both, along every
  run of the specification.

`InferenceGateProofs`: for any finite set of callers, any threshold, number of
attempts and limits with `Baseline <= MaxLimit`.

- `GateInv` is the conjunction of type, count, wake-up, pause and circuit
  invariants with `RetriesLeft`, which says that a call in back-off has an
  attempt left; without it the attempt number leaves its type at `Retry`.
- The proof goes by kind of move: lemmas say what a plain move, a release and a
  resize do to the count and to the sleepers, with `Cardinality` handled once in
  them, and each action is reduced to one of the lemmas.
- `GateTypes`, `NoSlotLeaks`, `NoLostWakeUp` and `PauseAndCircuit` follow, and
  `GateAlwaysSound`, which is `GateIsSound` of the run.

`MachineProofs`: all the machines of the run `machines`. The agent and its child,
for any jobs, number of files and faults, and whether or not pool workers outlive
their parser:

- `RunInv` is who holds what (`LaneOK`, `ChildHeld`: the lane has its job, the
  child its lane, and an exit is known only of a child that is gone), how far the
  event file was read (`ReaderOK`: after the exit to its end), whom a stop reached
  (`StopsOK`: a child that its lane still waits for was told to stop only by a
  stop of the job), what control heard (`HeardOK`) and what the exit code was
  made of (`OutcomeOK`). `ChildOK` carries the child's side: one that went through
  its files, or exited by itself, wrote an end of each unless it was told to stop
  (`Progress`); without it, exit code 0 would say nothing of the files.
- One lemma per kind of step: the child alone, signals (`SignalFrame`), forwarding
  (`ReaderFrame`), a lane that goes on (`LaneMoves`) and one that lets go
  (`LetGoStep`); `RunHolds` is the invariant.
- From it `OneJobOneChild` (`OneRunAtATime`); `ReportAlwaysTrue` (`ReportIsTrue`),
  where `ShardObserved` says that what the agent counts is what the child wrote
  and `CodeIsTrue` that the code is zero exactly of a clean child; and
  `EndsAlwaysTold` (`EndsAreTold`).

The machines beside the agent, each for its own constants, with one conjunct of
`MachineInv` per topic:

- `WizardHolds`: what is asked for, being created or created is a draft that was
  checked. `ArchiveHolds`: between the transactions of an archive, the jobs it has
  written to are ended, and those it counts are written to or have a verdict.
- `SchemaHolds`: the scripts that are applied are a prefix of the versions, each
  run once (`RowsOK`); a process that applies scripts has the lock, its work is the
  table with what it ran, and one that serves misses none (`ProcOK`). `GateHolds` bounds by `Ttl + Slow` how long a schema that
  is no longer current can be let through, by the age of the kept answer and the
  time a look has taken. `SchemaAssumption`: versions are numbered without gaps.
- `UploadInv` counts tasks by where they are: until `flush` has joined the queue,
  prepared = ended + queued + with a worker + with a caller that waits
  (`OpenRun`); after it the same sum of end marks (`DrainedRun`). A join that
  returns has nothing in the three places, which is why a closed uploader has
  counted every task. `ManifestHolds` follows an object from the bucket through
  the worker that is about to append it. `UploadAssumption`: a worker, room for a
  task, and an artifact per document at least.
- `IndexHolds`: unless rows were lost to a full disk or a crash, all that is known
  and every document that ended well has its row in the file, the buffer or the
  batch that is being written, and one job at a time writes (`OneWriter`).
- `HostHolds`: a script has achieved, for the workers before its place, what its
  items say (`Achieved`) if nobody else touches the host or all requests ask for
  the same (`Agreed`); alone, it has moved nothing else and its items follow its
  plan (`Printed`, `PlanFits`). A surplus worker is found in the plan by how many are
  before it (`NthIs`), and in the script as the least that is left; that there is a
  least one (`LeastIsThere`) is where the proof uses that naturals are well founded
  (`WFMin`).
- `DoneAlwaysTrue` is `DoneIsTrue` of the run; `MachinesRunTruly` says of the same
  specification what the agent's theorems say of the agent alone.

`DecisionProofs`: five of the invariants of the run `decisions`, each for its own
constants: any requests, workers and profiles; any set of limits and lanes of a
page; any finite set of pages, number of blocks, tries, calls and slots of an
engine (`PageAssumption`, `EngineAssumption`: limits are natural numbers, as the
command line demands, and slot limits have a largest); any keys, listing, finite
set of workers, retries and limits of a download (`DownloadAssumption`: the task
queue holds an end mark for each worker, which the code sees to with
`max(8, 2 * workers)`).

- Admission has no steps. `PreflightKeepsWord` is about every world there is;
  `ClaimersCertified` about every world in which an agent's `dirty` and `known`
  flags are values the certification reads (`ReadableBuild`).
  `AdmissionAlwaysKeepsItsWord` applies both to the requests of the specification.
- `PageInv` is what is left of a page's limit at each place it can be at: before a
  call there is one left, and a race that follows the series takes no more than
  its lanes. `BudgetHolds` follows; it is not inductive alone, because it does not
  say what the next call may cost.
- `EngineInv` states the shared counters as cardinalities of sets of blocks, tasks
  and pages, so that a step adds or removes one element. `NoTasksYet` is what
  makes it inductive: an attempt without its layout, and every attempt to come,
  has no tasks, so that the orphans of a failed attempt are never counted as tasks
  of the next one.
- `DownloadInv` follows a key. One that was asked for once is in one place, the
  queue, a worker or the output (`KeysTracked`); the queue holds files before end
  marks, and once the marks are sent no worker has a file, because `join()` has
  returned (`QueueShape`), which rests on the count of unfinished tasks being true
  (`NothingVanishes`); bytes read and being read stay below the limit and one file
  per worker (`BytesBounded`). TLC found it invariant before it was proved.
- Audits have no steps either: `ManifestsJudged` and `GoodIsCovered` are about every
  manifest, its shards and its scan units, of any length (`ManifestOK`: files
  list rows of a kind, a path and a size, and shards expect a number of files).
  What an audit has seen after so many rows or files is a recursive function of
  the place (`ReadSoFar`, `ControlShards`, `WorkerShards`, `AuditUnits`). Since the
  library's induction cannot be instantiated, a fact about every place is proved by
  the least place where it fails, which `WFMin` gives (`LeastIsThere`, `ToTheEnd`).
  `BothSound` follows both implementations over the shards: as long as neither has
  found anything, the shards so far are readable, hold what they expect and share
  no path (`Disjoint`), so both have seen as many paths as rows; once one has, so
  has the other (`BothJudgeAlike`). At the end a good verdict has seen as many
  paths as the manifest has, all of them its own, hence all (`NamesAll`).
- `TablesAgree` is about all tables with any numbers of rows (`WorldOK`: workers are
  a sequence and have a number of slots, shards are finitely many, and what is out
  of order in the database is counted). It needs the slots as a sum over rows
  (`SlotsAre`: no ready worker with a slot, no slot) and that a finite set with no
  element has no size, and otherwise the definitions of the two views.
- `DecisionInv` puts them together: a topic never changes and moves only its own
  machine. From it `BudgetsAlwaysHold` (`CallBudgets`),
  `DownloadsAlwaysKeepFiles` (`DownloadKeepsFiles`), `AuditsAlwaysAgree`
  (`AuditsAgree`) and `DiagnosticsAlwaysAgree` (`DiagnosticsAgree`); for the last two
  it says that the manifest and the tables are among those of the specification,
  and `ManifestsAreOK` and `TablesAreOK` that these are manifests and tables.

Only model-checked: `ManifestIsTheInput` and `LedgerSurvivesPruning` of `decisions`,
whose sorted sequences and folds over data would each need the detour over the least
counterexample that audits and texts took; all
liveness properties (`ShardsSettle`, `ParserSettles` and their like need fairness and
`ENABLED`, which are beyond the prover); and what the operators of `JobProgress` and
`ManifestBuild` that recur over data compute.

## 5. Findings

The run `static_job_stopping_forever` expects a violation: README.md:88 says that
"running shards settle through lease/update paths", and a restart of an agent
makes a running shard of a stopping job stale, which nothing settles
(`StopsEnd`; `scheduling.py:796`).

The following properties are defined in the modules and do not hold. Each names
something one might expect of the code; the counterexample shows what it does
instead. To reproduce one, take the configuration, apply the change, and give
the property in place of its own (`MCStaticJobEnds.cfg` is for the module
`MCStaticJob`; a temporal property needs `SYMMETRY` taken out).

| Configuration | Change | Property | What the code does |
|---|---|---|---|
| `MCStaticJob` | `Shards = {s1}` | `VerdictAfterShards` | the first `job_stopped` ends a job whose shards still run |
| `MCStaticJobEnds` | none | `FailureHasFailedShard` | a job whose failed attempt was retried with success is declared failed |
| `MCStaticJobEnds` | `MaxFaults = 1` | `JobsEnd` | the agent that should post `job_done` dies: no other is handed the job |
| `MCStaticJob` | `Shards = {s1}` | `VerdictIsFinal` | a status decided on an old read overwrites a verdict committed since |
| `MCManifestScan` | none | `VerdictAfterScan` | a job succeeds while directories are unscanned |
| `MCManifestScan` | none | `FailureNotMissed` | a manifest with a failed unit is neither failed nor frozen |
| `MCManifestScan` | none | `FrozenIsComplete` | the manifest of a stopped job freezes incomplete |
| `MCManifestScan` | none | `ScanStopEnds` | units and shards added after a stop keep the job stopping |
| `MCJobEvents` | `EventLimit = 0` | `CountedOnce` | an event whose row was pruned is counted again |
| `MCJobEvents` | `Agents = {a1, a2}`, `Files = {f1, f2}`, `MaxFaults = 0` | `EverythingCounted` | of two events handled at once one is not counted |
| `MCDocumentRun` | `Scenarios <- Shutdown` | `SkippedIsWhole` | the first pages pass for the document after a signal |
| `MCDocumentRun` | `Scenarios <- Legacy` | `SkippedIsWhole` | a Markdown file without sidecar, cut off by a crash, passes for the document |
| `MCDocumentRun` | `Scenarios <- Two`, `Parsers = {p1, p2}` | `SkippedIsWhole` | a second parser accepts a file the first is still writing |
| `MCDocumentRun` | `Scenarios <- Edited` | `SkippedIsTheRow` | the sidecar carries the snapshot of a version that was not rendered |
| `InferenceGate` | none | `NothingStartsPaused` | a call queued on the limiter starts during a pause |
| `InferenceGate` | none | `ClosesByProbe` | an open circuit closes without a probe |
| `InferenceGate` | none | `OneProbe` | a half-open circuit admits everybody |
| `MCMachines` | `PoolSurvives = TRUE` | `MachinesSettle` | a pool process that outlives the child keeps its log streams open and `run_job` waiting for them (`runner.py:1423`) |

`DataIndex!MissingIndexed`, `IntegrityAudit!VerdictIsShown` and
`WorkerArchive!ArchivedIsIdle` without its exception for a restart are of the
same kind. What these and other limits of a property mean in the code:

- *Archive.* A worker that registers while it is being archived has its running
  shard fenced to stale after the archive stopped the waiting ones, and a claim
  takes it up again before the commit: a stopped job with a running shard. A job
  created between the count of the archive and its commit waits for a heartbeat
  of the archived worker. The `UPDATE` of the archive has no condition on the
  status it read, so a job claimed in between is stopped while it runs.
- *Audits.* A claim is no compare-and-set: of two workers that claim at once the
  last commit owns the row, and the loser's report is refused with 404, which
  `_call_control_with_backoff` repeats for ever; its integrity lane is stuck
  until a later request clears the owner, and then the stale report is taken.
  A crashed audit stays "running" until the next request. Transactions that
  overlap may leave columns of two audits in one row.
- *Pause.* A child that is paused and then asked to stop does not end by itself:
  `cli.py:651-652` waits for pages in flight, the control loop has ended, and the
  resume event stays cleared; only the agent's `SIGKILL` ends it. A stale update
  that is replayed shows "ready" on a paused shard, and a claim does not reset
  the columns of the attempt before.
- *Admission.* A request may name an assigned worker and allowed ones; preflight
  is then content with the others. The id of the pool as assigned worker makes
  preflight refuse. Certification is checked at creation only.
- *Job page.* Direct jobs whose `JobFile` rows were pruned show totals clipped to
  what is left although the counters know more (`projection.py:398-512`).
- *Diagnostics.* A worker that never sent a heartbeat is stale in
  `operations.py` and not in `queries.py`; `worker_diagnostics` counts the row of
  the pool, so "no_workers" becomes "no_ready_workers"; a truth value counts as
  such in one and must be `True` in the other.
- *Building manifests.* A directory that cannot be listed is skipped with an
  error by the walks of a folder, and fails the unit and the manifest when it is
  scanned distributedly. The number of scan errors in a freeze report is that of
  the progress events that were kept. A lost answer to `register_manifest` leaves
  a registered manifest and a failed job.
- *Text.* When the middle one of three pages has a single block of text, the text
  of the third is put into the block that goes and is lost
  (`algorithms.py:461-522`; `PageText!Apart` leaves the case out). Text of the
  next page is moved in front of an unnumbered header at the end of a page.
- *Images.* A Markdown file that cannot be read during the clean-up loses its
  images; images of another, older Markdown file in the directory are removed.
- *Engines.* Block tasks of a page whose layout attempt failed run on; the last
  race of a page may overrun its budget; the category of a failed series is
  recorded as one of postprocessing. The low watermark of pending blocks
  (`docs/model-serving.md:137-138`) has no effect: the wait ends as soon as fewer
  blocks than the high one are pending.
- *Object store.* An early close with a full output queue never reaches "closed";
  a worker that died leaves `join()` waiting; a key asked for twice may be
  emitted while the second download replaces it.
- *Index.* A document whose PDF is gone is registered under the checksum
  "unknown", and the next such document is skipped for it. A batch that cannot be
  written loses rows of jobs already registered until the next run.
- *Schema.* Rows without a checksum adopt that of whichever build comes first;
  the SQLite `ALTER`s commit one by one; the readiness probe reads its cached
  time twice without a lock.
- *Scaling.* A plan says "skipped" where the apply rewrites the env file;
  `enable --now` leaves a running service with its old server id; a plan accepts
  an existing unit where the apply needs the template; after a timeout of ssh the
  script runs on until it prints.
- *New Job page.* A late answer of the preflight enables Create for an edited
  draft (the request is checked again by the control plane), and two clicks
  create two jobs with different keys.
- *Scan lane and spools.* `fail_scan_unit` of two last units at the same time may
  each see the other active; an exception in the scan lane ends the agent; one
  event answered with a server error holds up the replay of those behind it;
  spooled records of another server id are skipped for ever; a trimmed spool may
  drop a terminal event.

## 6. What is not modelled

- *No state whose order matters*: the layout detection service (a web front of a
  neural network), rendering of the UI beyond the New Job page, list queries and
  paging, prompts, table conversion, wording of diagnostics, Prometheus text.
- *Outside the running system*: `tools/` (architecture and contract checks that
  read the source, soak drivers, release checks), deployment roles, installation
  and preflight of hosts, the inventory of facades. They decide nothing at run
  time; their functions compare files with lists.
- *Reduced*: supervision of lanes (an exception in a lane ends the agent, here a
  crash), captions and author blocks of texts, the no-remote-check mode of the
  uploader, another parser in the directory whose images are cleaned up, the
  order in which duplicates are grouped (a free choice), a tree that changes
  while it is walked, retention of jobs, editing of model profiles, the estimate
  of the remaining time.
- *Left for later*: the log spool, HTTP sessions and credentials, path checks of
  the API, monitoring and metrics of the parser.

PROJECT.json gives the status and a note per component.
