----------------------------- MODULE AgentChild -----------------------------
(***************************************************************************)
(* The agent process and the OCR child it runs: the polling and the        *)
(* execution lane, the supervisor that ends them, run_job with its         *)
(* concurrent tasks (event forwarding, log streams, stop watcher), the two *)
(* ways of terminating the child, and the outcome the agent makes of exit  *)
(* code and event file (agent/runtime.py, lanes.py, runner.py; the child   *)
(* as ocr_parser/cli.py behaves).                                          *)
(*                                                                         *)
(* A job is executed directly or as one claimed shard of a sharded job;    *)
(* the loop that claims shard after shard is StaticJob.  Pages, file names *)
(* and messages are abstracted to the file they belong to; a file has one  *)
(* page.  The log text, the metrics a progress update carries and the      *)
(* pause of the resource guard are left out (InferenceGate has the child's *)
(* side of the pause).                                                     *)
(***************************************************************************)
EXTENDS Integers, Sequences, FiniteSets

CONSTANTS Jobs, NoJob,
          ShardJobs,    \* jobs executed as a claimed shard, the others directly
          NFiles,       \* the input files of a job, executed in order
          PoolSurvives, \* pool workers outlive a parser that is killed alone
          MaxFaults     \* bound: control answers, spawns and children that fail

ASSUME ChildAssumption ==
  /\ ShardJobs \subseteq Jobs /\ NoJob \notin Jobs /\ NFiles \in Nat \ {0}
  /\ PoolSurvives \in BOOLEAN /\ MaxFaults \in Nat

VARIABLES
  agent,    \* supervisor: up, stopping (stop_event), closing (lanes cancelled)
  polling,  \* the job-polling lane
  queue,    \* job_queue, of size one
  current,  \* current_job_id
  exec,     \* the shard-execution lane
  child,    \* the OCR process and its event file
  known,    \* process.returncode as the agent sees it
  helpers,  \* pool workers keep the pipes of a dead child open
  reader,   \* _forward_events_until_done
  stopper,  \* _stop_watcher
  streams,  \* _forward_stream, both
  stop,     \* a stop of the current job was requested
  heard,    \* ends and stops of the current job that control was told
  report,   \* terminal shard update written for the current job
  lost,     \* history: an end of the current job was not written or not taken
  faults    \* how much of the bound is spent

childVars == <<agent, polling, queue, current, exec, child, known,
               helpers, reader, stopper, streams, stop, heard, report,
               lost, faults>>
laneVars == <<agent, polling, queue>>
runVars == <<known, reader, stopper, streams>>

-----------------------------------------------------------------------------
Alive == 1000                 \* no exit code yet
SIGTERM == 15
SIGKILL == 9

Files == 1 .. NFiles
NoFile == 0

FileEnd == {"file_done", "file_skipped", "file_failed"}
JobEnd == {"job_done", "job_failed", "job_stopped"}
Line == [type : FileEnd \cup JobEnd \cup {"page_done"}, file : Files \cup {NoFile}]

NoChild == [stage |-> "none", next |-> 1, open |-> NoFile, lines |-> <<>>,
            told |-> FALSE, code |-> Alive]
NewChild == [NoChild EXCEPT !.stage = "starting"]

NoReader == [pc |-> "off", offset |-> 0, upto |-> 0]

NoReport == [status |-> "none", processed |-> 0, failed |-> 0, skipped |-> 0,
             pages |-> 0, cause |-> "none"]

\* The outcome run_job comes to: exit code, stop, and whether it is decided.
Outcome(code, stopped) == [code |-> code, stopped |-> stopped]
NoOutcome == Outcome(0, FALSE)

\* The execution lane is at a place, knows an outcome, and when it terminates
\* the child, whether the signal is out.
At(pc) == [pc |-> pc, outcome |-> NoOutcome, sent |-> FALSE]
With(pc, outcome) == [At(pc) EXCEPT !.outcome = outcome]

Sharded == current \in ShardJobs

\* A call to control, a spawn or a child may fail while the bound allows it.
Fault == faults < MaxFaults /\ faults' = faults + 1
Sound == UNCHANGED faults

Tell(events) == heard' = heard \cup (events \cap (JobEnd \cup {"job_stopping"}))
Loses == lost' = TRUE

ChildInit ==
  /\ agent = "up" /\ polling = "ask"
  /\ queue = {} /\ current = NoJob /\ exec = At("idle")
  /\ child = NoChild /\ known = Alive /\ helpers = FALSE
  /\ reader = NoReader /\ stopper = "off" /\ streams = "off"
  /\ stop = FALSE /\ heard = {} /\ report = NoReport /\ lost = FALSE
  /\ faults = 0

-----------------------------------------------------------------------------
(* The child: ocr_parser *)

Write(type, file) == Append(child.lines, [type |-> type, file |-> file])

ChildOnly == UNCHANGED <<laneVars, current, exec, runVars, stop, heard, report, lost>>

\* The parser object and its pool exist, and SIGTERM is handled from here on.
ChildReady ==
  /\ child.stage = "starting"
  /\ child' = [child EXCEPT !.stage = "working"]
  /\ UNCHANGED <<helpers, faults>> /\ ChildOnly

\* A file is begun unless a shutdown was requested; one whose finished output
\* may be reused is reported as skipped at once.
ChildBegins ==
  /\ child.stage = "working" /\ child.open = NoFile
  /\ child.next \in Files /\ ~child.told
  /\ \/ child' = [child EXCEPT !.next = @ + 1, !.open = child.next]
     \/ child' = [child EXCEPT !.next = @ + 1, !.lines = Write("file_skipped", child.next)]
  /\ UNCHANGED <<helpers, faults>> /\ ChildOnly

PageWritten == \E k \in DOMAIN child.lines : child.lines[k] = [type |-> "page_done", file |-> child.open]

ChildPage ==
  /\ child.stage = "working" /\ child.open # NoFile /\ ~PageWritten
  /\ child' = [child EXCEPT !.lines = Write("page_done", child.open)]
  /\ UNCHANGED <<helpers, faults>> /\ ChildOnly

ChildEndsFile(type) ==
  /\ child.stage = "working" /\ child.open # NoFile
  /\ type \in {"file_done", "file_failed"}
  /\ child' = [child EXCEPT !.lines = Write(type, child.open), !.open = NoFile]
  /\ UNCHANGED <<helpers, faults>> /\ ChildOnly

FileFailedIn(lines) == \E k \in DOMAIN lines : lines[k].type = "file_failed"

\* The loop over the files is over: job_stopped if a shutdown was requested,
\* else job_failed if a file failed, else job_done.
ChildEndsJob ==
  /\ child.stage = "working" /\ child.open = NoFile
  /\ child.told \/ child.next \notin Files
  /\ LET type == IF child.told THEN "job_stopped"
                 ELSE IF FileFailedIn(child.lines) THEN "job_failed" ELSE "job_done"
     IN child' = [child EXCEPT !.lines = Write(type, NoFile), !.stage = "closing"]
  /\ UNCHANGED <<helpers, faults>> /\ ChildOnly

\* _run returns 0 whatever the files came to.
ChildExits ==
  /\ child.stage = "closing"
  /\ child' = [child EXCEPT !.stage = "gone", !.code = 0]
  /\ UNCHANGED <<helpers, faults>> /\ ChildOnly

\* An exception out of the loop is reported as job_failed; one before the loop
\* is not reported.
ChildRaises ==
  /\ child.stage \in {"starting", "working"} /\ Fault
  /\ child' = [child EXCEPT !.stage = "gone", !.code = 1,
                            !.lines = IF child.stage = "working"
                                      THEN Write("job_failed", NoFile) ELSE @]
  /\ UNCHANGED helpers /\ ChildOnly

\* The process alone is killed from outside.  Its pool workers wait for work
\* that never comes and hold its pipes.
ChildKilled ==
  /\ child.stage \in {"starting", "working", "closing"} /\ Fault
  /\ child' = [child EXCEPT !.stage = "gone", !.code = -SIGKILL]
  /\ helpers' = (PoolSurvives /\ child.stage = "working")
  /\ ChildOnly

\* The line of an event cannot be written; the parser goes on.
ChildLosesEnd ==
  /\ child.stage = "working" /\ child.open = NoFile
  /\ child.told \/ child.next \notin Files
  /\ Fault
  /\ child' = [child EXCEPT !.stage = "closing"]
  /\ Loses
  /\ UNCHANGED <<helpers, laneVars, current, exec, runVars, stop, heard, report>>

\* What a SIGTERM to the process group does to the child.
Signalled(c) ==
  CASE c.stage = "starting" -> [c EXCEPT !.stage = "gone", !.code = -SIGTERM]
    [] c.stage = "working" -> [c EXCEPT !.told = TRUE]
    [] OTHER -> c

\* And a SIGKILL, which takes the pool workers with it.
Slain(c) == IF c.stage = "gone" THEN c ELSE [c EXCEPT !.stage = "gone", !.code = -SIGKILL]

ChildStep ==
  \/ ChildReady \/ ChildBegins \/ ChildPage \/ ChildEndsJob \/ ChildExits
  \/ \E type \in FileEnd : ChildEndsFile(type)
  \/ ChildRaises \/ ChildKilled \/ ChildLosesEnd

-----------------------------------------------------------------------------
(* Termination, and what the event loop learns of the child *)

\* The child watcher sets returncode.
Reap ==
  /\ exec.pc \in {"wait", "raise", "cancel"}
  /\ child.stage = "gone" /\ known = Alive
  /\ known' = child.code
  /\ UNCHANGED <<laneVars, current, exec, child, helpers, reader, stopper,
                 streams, stop, heard, report, lost, faults>>

\* process.wait() returns once the exit is known and the pipes are closed.
Waited == known # Alive /\ ~helpers

\* killpg with SIGTERM, and with SIGKILL when the timeout is over.
SendTerm == child' = Signalled(child) /\ UNCHANGED helpers
SendKill == child' = Slain(child) /\ helpers' = FALSE

-----------------------------------------------------------------------------
(* Event forwarding *)

\* ForwardedEventStatus of the lines forwarded so far.  The files are observed
\* for shards only, and some failure named its category.
Status ==
  LET forwarded == {child.lines[k] : k \in 1 .. reader.offset}
      any(types) == \E line \in forwarded : line.type \in types
      files(types) == IF Sharded THEN {line.file : line \in {l \in forwarded : l.type \in types}}
                                 ELSE {}
  IN [fileFailed |-> any({"file_failed"}), jobFailed |-> any({"job_failed"}),
      jobStopped |-> any({"job_stopped"}),
      terminal |-> files(FileEnd), failed |-> files({"file_failed"}),
      skipped |-> files({"file_skipped"}), pages |-> files({"page_done"}),
      category |-> Sharded /\ any({"file_failed", "job_failed"})]

ReaderOnly == UNCHANGED <<laneVars, current, exec, child, known, helpers, stopper,
                          streams, stop, report, lost>>

\* All complete lines from the offset on are read, by a thread.
ReadLines ==
  /\ reader.pc \in {"read", "last"}
  /\ reader' = [reader EXCEPT !.pc = IF @ = "read" THEN "post" ELSE "postlast",
                              !.upto = Len(child.lines)]
  /\ UNCHANGED <<heard, faults>> /\ ReaderOnly

\* After a batch the exit is looked for; when it is known the file is read once
\* more.
\* Mutant: the file is not read again after the exit.
NextPcAtExit == IF reader.pc = "postlast" \/ known # Alive THEN "done" ELSE "read"
NextPc == IF reader.pc = "postlast" THEN "done" ELSE IF known # Alive THEN "last" ELSE "read"

\* The records are posted one after the other, then the progress of the shard.
\* A call control refuses fails the task.
ForwardLines ==
  /\ reader.pc \in {"post", "postlast"}
  /\ \/ /\ reader' = [reader EXCEPT !.offset = reader.upto, !.pc = NextPc]
        /\ Tell({child.lines[k].type : k \in reader.offset + 1 .. reader.upto})
        /\ Sound
     \/ /\ reader.offset < reader.upto /\ Fault
        /\ \E n \in reader.offset .. reader.upto :
             /\ reader' = [reader EXCEPT !.offset = n, !.pc = "failed"]
             /\ Tell({child.lines[k].type : k \in reader.offset + 1 .. n})
  /\ ReaderOnly

-----------------------------------------------------------------------------
(* The stop watcher and the log streams *)

StopperOnly == UNCHANGED <<laneVars, current, exec, known, reader, streams,
                           stop, report, lost>>

\* The watcher asks until the exit is known; an error counts as no.
AskStop ==
  /\ stopper = "ask"
  /\ stopper' = IF known # Alive THEN "false" ELSE IF stop THEN "tell" ELSE "ask"
  /\ UNCHANGED <<child, helpers, heard, faults>> /\ StopperOnly

TellStopping ==
  /\ stopper = "tell"
  /\ \/ Tell({"job_stopping"}) /\ stopper' = "term" /\ Sound
     \/ Fault /\ stopper' = "failed" /\ UNCHANGED heard
  /\ UNCHANGED <<child, helpers>> /\ StopperOnly

StopperTerm ==
  /\ stopper = "term"
  /\ IF known # Alive THEN stopper' = "true" /\ UNCHANGED <<child, helpers>>
                      ELSE stopper' = "sent" /\ SendTerm
  /\ UNCHANGED <<heard, faults>> /\ StopperOnly

\* Mutant: the timeout sends SIGTERM once more.
StopperTermAgain ==
  /\ stopper = "sent" /\ ~Waited
  /\ SendTerm
  /\ UNCHANGED <<stopper, heard, faults>> /\ StopperOnly

StopperKill ==
  /\ stopper = "sent" /\ ~Waited
  /\ SendKill
  /\ UNCHANGED <<stopper, heard, faults>> /\ StopperOnly

StopperDone ==
  /\ stopper = "sent" /\ Waited
  /\ stopper' = "true"
  /\ UNCHANGED <<child, helpers, heard, faults>> /\ StopperOnly

\* The streams end with the pipes; a refused log line fails the task.
StreamsEnd ==
  /\ streams = "open"
  /\ \/ child.stage = "gone" /\ ~helpers /\ streams' = "done" /\ Sound
     \/ Fault /\ streams' = "failed"
  /\ UNCHANGED <<laneVars, current, exec, child, known, helpers, reader,
                 stopper, stop, heard, report, lost>>

-----------------------------------------------------------------------------
(* The execution lane *)

ExecOnly == UNCHANGED <<agent, polling, child, helpers, stop>>
QuietExec == ExecOnly /\ UNCHANGED <<known, reader, stopper, streams, report>>
KeptExec == QuietExec /\ UNCHANGED lost

\* A job is taken from the queue, even when the agent is about to stop.
TakeJob ==
  /\ exec.pc = "idle" /\ queue # {}
  /\ \E j \in queue :
       /\ current' = j
       /\ queue' = queue \ {j}
  /\ exec' = At("start")
  /\ heard' = {} /\ report' = NoReport /\ lost' = FALSE
  /\ UNCHANGED <<agent, polling, child, helpers, runVars, stop, faults>>

\* The lane lets the job go, and with it what run_job knew of the run.
LetGo(pc) ==
  /\ exec' = At(pc) /\ current' = NoJob
  /\ known' = Alive /\ helpers' = FALSE /\ stop' = FALSE
  /\ reader' = NoReader /\ stopper' = "off" /\ streams' = "off"
  /\ child' = IF child.stage = "gone" THEN NoChild ELSE child

\* The event file is emptied and the child started with its tasks, or the
\* start fails and job_failed is posted, if control takes it.
StartChild ==
  /\ exec.pc = "start"
  /\ \/ /\ child' = NewChild
        /\ exec' = At("wait")
        /\ reader' = [NoReader EXCEPT !.pc = "read"]
        /\ stopper' = "ask" /\ streams' = "open"
        /\ Sound /\ UNCHANGED <<heard, lost>>
     \/ /\ Fault
        /\ \/ Tell({"job_failed"}) /\ UNCHANGED lost
           \/ Loses /\ UNCHANGED heard
        /\ exec' = With("over", Outcome(1, FALSE))
        /\ UNCHANGED <<child, reader, stopper, streams>>
  /\ UNCHANGED <<laneVars, current, known, helpers, stop, report>>

AllDone == reader.pc = "done" /\ stopper \in {"true", "false"} /\ streams = "done" /\ Waited
SomeFailed == reader.pc = "failed" \/ stopper = "failed" \/ streams = "failed"

\* Every task ended.  Without a stop so far control is asked once more.
Resolve ==
  /\ exec.pc = "wait" /\ AllDone
  /\ \E asked \in {stop} \cup (IF faults < MaxFaults THEN {FALSE} ELSE {}) :
       LET stopped == stopper = "true" \/ Status.jobStopped \/ asked
           code == IF known # 0 THEN known
                   ELSE IF Status.jobStopped THEN -SIGTERM
                   ELSE IF Status.jobFailed \/ Status.fileFailed THEN 1
                   ELSE 0
       IN exec' = With("publish", Outcome(code, stopped))
  /\ UNCHANGED <<queue, current, heard, faults>> /\ KeptExec

\* What control is still to be told of the outcome: job_stopped must be taken
\* by control, job_failed is posted at best.
\* Mutant: a failed file counts as a failed job that was told.
AnnouncementUnlessFileFailed(out) ==
  IF out.stopped THEN IF Status.jobStopped THEN {} ELSE {"job_stopped"}
  ELSE IF out.code = 0 \/ Status.jobFailed \/ Status.fileFailed THEN {} ELSE {"job_failed"}
Announcement(out) ==
  IF out.stopped THEN IF Status.jobStopped THEN {} ELSE {"job_stopped"}
  ELSE IF out.code = 0 \/ Status.jobFailed THEN {} ELSE {"job_failed"}

Publish ==
  /\ exec.pc = "publish"
  /\ LET said == Announcement(exec.outcome) IN
       \/ /\ Tell(said)
          /\ exec' = [exec EXCEPT !.pc = "over"]
          /\ Sound /\ UNCHANGED lost
       \/ /\ said # {} /\ Fault
          /\ exec' = [exec EXCEPT !.pc = IF exec.outcome.stopped THEN "raised" ELSE "over"]
          /\ IF exec.outcome.stopped THEN UNCHANGED lost ELSE Loses
          /\ UNCHANGED heard
  /\ UNCHANGED <<queue, current>> /\ QuietExec

\* A task failed: the child is terminated and the exception goes on.
TaskFailed ==
  /\ exec.pc = "wait" /\ SomeFailed
  /\ exec' = At("raise")
  /\ UNCHANGED <<queue, current, heard, faults>> /\ KeptExec

TermChild ==
  /\ exec.pc \in {"raise", "cancel"} /\ ~exec.sent /\ known = Alive
  /\ SendTerm
  /\ exec' = [exec EXCEPT !.sent = TRUE]
  /\ UNCHANGED <<laneVars, current, runVars, stop, heard, report, lost, faults>>

KillChild ==
  /\ exec.pc \in {"raise", "cancel"} /\ exec.sent /\ ~Waited
  /\ SendKill
  /\ UNCHANGED <<laneVars, current, exec, runVars, stop, heard, report, lost, faults>>

\* A child whose exit is known is not waited for again.
\* Mutant: the signal is sent and nobody waits.
TerminatedOnceSignalled == exec.sent \/ known # Alive
Terminated == IF exec.sent THEN Waited ELSE known # Alive

RunBroken ==
  /\ exec.pc \in {"raise", "cancel"} /\ Terminated
  /\ IF exec.pc = "cancel" THEN LetGo("gone")
     ELSE /\ exec' = At("raised")
          /\ reader' = [reader EXCEPT !.pc = "off"] /\ stopper' = "off" /\ streams' = "off"
          /\ UNCHANGED <<current, child, known, helpers, stop>>
  /\ UNCHANGED <<laneVars, heard, report, lost, faults>>

\* The lane reports the exception as job_failed, unless the agent stops.
LaneReports ==
  /\ exec.pc = "raised"
  /\ \/ agent = "up" /\ Tell({"job_failed"}) /\ Sound /\ UNCHANGED lost
     \/ agent # "up" /\ UNCHANGED <<heard, lost, faults>>
     \/ agent = "up" /\ Fault /\ Loses /\ UNCHANGED heard
  /\ LetGo("idle")
  /\ UNCHANGED <<laneVars, report>>

\* A direct job is over with run_job.  For a shard control is asked, until it
\* answers, whether the job was stopped, and the update is written.
EndDirect ==
  /\ exec.pc = "over" /\ ~Sharded
  /\ LetGo("idle")
  /\ UNCHANGED <<laneVars, heard, report, lost, faults>>

Cause(code) == IF Status.category THEN "reported"
               ELSE IF code < 0 THEN "process_killed" ELSE "process_failed"

Terminal(code, stopped) ==
  LET verdict == IF stopped THEN "stopped" ELSE IF code = 0 THEN "succeeded" ELSE "failed"
      seen == Cardinality(Status.terminal)
  IN [status |-> verdict,
      processed |-> IF verdict = "succeeded" /\ seen < Cardinality(Files)
                    THEN Cardinality(Files) ELSE seen,
      failed |-> Cardinality(Status.failed), skipped |-> Cardinality(Status.skipped),
      pages |-> Cardinality(Status.pages),
      cause |-> CASE verdict = "stopped" -> "operator_stopped"
                  [] verdict = "failed" -> Cause(code)
                  [] OTHER -> "none"]

EndShardRun ==
  /\ exec.pc = "over" /\ Sharded
  /\ \/ /\ report' = Terminal(exec.outcome.code, stop)
        /\ LetGo("idle")
        /\ Sound
     \/ /\ Fault /\ exec' = At("raised")
        /\ UNCHANGED <<report, current, child, helpers, runVars, stop>>
  /\ UNCHANGED <<laneVars, heard, lost>>

-----------------------------------------------------------------------------
(* The polling lane, the operator and the supervisor *)

OutsideExec == UNCHANGED <<current, exec, child, helpers, runVars, heard, report, lost, faults>>

\* A job is asked for only while none is held.
MayAsk == current = NoJob /\ queue = {}

AskJob ==
  /\ agent = "up" /\ polling = "ask" /\ MayAsk
  /\ polling' = "calling"
  /\ UNCHANGED <<agent, queue, stop>> /\ OutsideExec

\* Control hands out a job or has none; an error is retried.
GetJob ==
  /\ polling = "calling" /\ agent # "closing"
  /\ \/ \E j \in Jobs : queue' = queue \cup {j}
     \/ UNCHANGED queue
  /\ polling' = "ask"
  /\ UNCHANGED <<agent, stop>> /\ OutsideExec

RequestStop ==
  /\ current # NoJob /\ ~stop
  /\ stop' = TRUE
  /\ UNCHANGED laneVars /\ OutsideExec

\* A signal, or a lane that fails or ends, sets stop_event.
RequestShutdown ==
  /\ agent = "up"
  /\ agent' = "stopping"
  /\ UNCHANGED <<polling, queue, stop>> /\ OutsideExec

\* The lanes are cancelled.  A lane that waits for the child ends it first; a
\* start that is cancelled closes its child itself.
Shutdown ==
  /\ agent = "stopping"
  /\ agent' = "closing" /\ polling' = "gone"
  /\ IF exec.pc \in {"wait", "raise"}
     THEN exec' = At("cancel") /\ UNCHANGED <<current, child, helpers, runVars, stop>>
     ELSE LetGo("gone")
  /\ UNCHANGED <<queue, heard, report, lost, faults>>

ReaderStep == ReadLines \/ ForwardLines
StopperStep == AskStop \/ TellStopping \/ StopperTerm \/ StopperKill \/ StopperDone
ExecStep ==
  \/ StartChild \/ Resolve \/ Publish \/ TaskFailed \/ TermChild \/ KillChild
  \/ RunBroken \/ LaneReports \/ EndDirect \/ EndShardRun

ChildNext ==
  \/ ChildStep \/ Reap \/ ReaderStep \/ StopperStep \/ StreamsEnd
  \/ TakeJob \/ ExecStep
  \/ AskJob \/ GetJob \/ RequestStop \/ RequestShutdown \/ Shutdown

ChildSpec == ChildInit /\ [][ChildNext]_childVars

-----------------------------------------------------------------------------
(* Types; what is counted are files of the job and lines of the child. *)
ChildTypeOK ==
  /\ agent \in {"up", "stopping", "closing"}
  /\ polling \in {"ask", "calling", "gone"}
  /\ queue \subseteq Jobs /\ stop \in BOOLEAN
  /\ current \in Jobs \cup {NoJob}
  /\ exec.pc \in {"idle", "start", "wait", "raise", "cancel", "publish", "raised",
                  "over", "gone"}
  /\ child.stage \in {"none", "starting", "working", "closing", "gone"}
  /\ child.next \in 1 .. NFiles + 1 /\ child.open \in Files \cup {NoFile}
  /\ \A k \in DOMAIN child.lines : child.lines[k] \in Line
  /\ known \in {Alive, child.code}
  /\ reader.offset <= reader.upto /\ reader.offset <= Len(child.lines)
  /\ Status.failed \cup Status.skipped \subseteq Status.terminal
  /\ faults \in 0 .. MaxFaults

\* The agent holds one job at most, whether it is queued or executed, and a
\* child is alive only while the lane that started it waits for it or ends it.
OneRunAtATime ==
  /\ ChildTypeOK
  /\ Cardinality(queue) + (IF current = NoJob THEN 0 ELSE 1) <= 1
  /\ child.stage \in {"starting", "working", "closing"}
       => current # NoJob /\ exec.pc \in {"wait", "raise", "cancel"}

FilesOf(lines, types) ==
  {lines[k].file : k \in {k \in DOMAIN lines : lines[k].type \in types}} \ {NoFile}
Ends(lines) == {lines[k].type : k \in DOMAIN lines} \cap JobEnd

\* The terminal update of a shard counts every file the child finished, up to
\* its last line.  It says succeeded only of a child that exited by itself,
\* reported every file of the shard and no failure and no stop, and failed
\* only of one that did not do all this.
ReportIsTrue ==
  [][report' # report /\ report' # NoReport =>
       LET r == report'
           clean == child.code = 0 /\ FilesOf(child.lines, {"file_failed"}) = {}
                    /\ Ends(child.lines) \subseteq {"job_done"}
       IN /\ r.failed = Cardinality(FilesOf(child.lines, {"file_failed"}))
          /\ r.skipped = Cardinality(FilesOf(child.lines, {"file_skipped"}))
          /\ r.pages = Cardinality(FilesOf(child.lines, {"page_done"}))
          /\ r.processed >= Cardinality(FilesOf(child.lines, FileEnd))
          /\ r.status = "succeeded" => clean /\ FilesOf(child.lines, FileEnd) = Files
          /\ r.status = "failed" => ~clean]_childVars

\* Control is told an end of every job the agent executed directly and lets go
\* of while it is up, however the child, its tasks or control's answers ended
\* it; unless the end was written nowhere or refused.
EndsAreTold ==
  [][current \notin ShardJobs \cup {NoJob} /\ current' = NoJob /\ agent = "up" /\ ~lost'
       => heard' \cap JobEnd # {}]_childVars

\* Every task of the agent goes on, and control takes what it sends in the end.
\* Nothing is assumed of the child.
ChildFairness ==
  /\ WF_childVars(Reap) /\ WF_childVars(Shutdown)
  /\ WF_childVars(UNCHANGED faults /\ ReaderStep)
  /\ WF_childVars(UNCHANGED faults /\ StopperStep)
  /\ WF_childVars(UNCHANGED faults /\ StreamsEnd)
  /\ WF_childVars(UNCHANGED faults /\ ExecStep)

FairChildSpec == ChildSpec /\ ChildFairness

\* A run ends once its child is gone or its job is stopped, however stubborn
\* the child; and an agent asked to shut down ends its lanes and its child.
RunsSettle ==
  /\ \A j \in Jobs :
       (current = j /\ (child.stage = "gone" \/ stop)) ~> (current # j)
  /\ (agent = "stopping")
       ~> (exec.pc = "gone" /\ child.stage = "none")
=============================================================================
