---------------------------- MODULE UpdateSpool -----------------------------
(***************************************************************************)
(* The pending shard updates of one agent (agent/runner.py): one file per  *)
(* shard under the work directory, written before a terminal report is     *)
(* sent and after a progress update could not be, sent again by every lane *)
(* that replays (the replay lane and, in its heartbeats, the scan lane)    *)
(* while the execution lane may still be sending, and found again by the   *)
(* next process after a crash.  A file is replaced atomically; what a lane *)
(* read before it awaited an answer may be gone or replaced when the       *)
(* answer arrives, so every record carries a fresh generation.             *)
(*                                                                         *)
(* The control plane appears as far as its answers depend on it: which     *)
(* attempt a shard is on and whether this server holds it.                 *)
(***************************************************************************)
EXTENDS Integers, FiniteSets

CONSTANTS Shards,
          Replayers,    \* the lanes that replay pending updates
          MaxAttempts,  \* bound: claims granted per shard, to any server
          MaxFaults     \* bound: crashes and calls that failed transiently

ASSUME BoundsAssumption == MaxAttempts \in Nat \ {0} /\ MaxFaults \in Nat
ASSUME ShardsAssumption == Shards # {}
ASSUME ReplayersAssumption == IsFiniteSet(Replayers)

VARIABLES
  row,      \* control plane: attempt, status and whether this server holds it
  handled,  \* terminal reports the control plane applied or refused
  file,     \* the pending update of each shard, if any
  failed,   \* the quarantined update of each shard, if any
  exec,     \* the execution lane
  replay,   \* the lanes that replay
  faults

spoolVars == <<row, handled, file, failed, exec, replay, faults>>

-----------------------------------------------------------------------------
Attempts == 0 .. MaxAttempts
Kinds == {"progress", "terminal"}
Generations == 0 .. 2 + Cardinality(Replayers)   \* the file, each lane, and a new one

NoRecord == [attempt |-> 0, kind |-> "progress", gen |-> 0]
Record == [attempt : 1 .. MaxAttempts, kind : Kinds, gen : Generations]
               \cup {NoRecord}

RowType == [attempt : Attempts, ours : BOOLEAN,
            status : {"claimable", "held", "settled"}]
Exec == [at : {"down", "idle", "running", "sending"},
         shard : Shards, record : Record]
Replay == [at : {"idle", "walking", "sending"}, todo : SUBSET Shards,
           shard : Shards, record : Record]

AnyShard == CHOOSE s \in Shards : TRUE
ExecAt(place) == [at |-> place, shard |-> AnyShard, record |-> NoRecord]
ReplayAt(place, todo) ==
  [at |-> place, todo |-> todo, shard |-> AnyShard, record |-> NoRecord]

SpoolInit ==
  /\ row = [s \in Shards |-> [attempt |-> 0, ours |-> FALSE, status |-> "claimable"]]
  /\ handled = {}
  /\ file = [s \in Shards |-> NoRecord]
  /\ failed = [s \in Shards |-> NoRecord]
  /\ exec = ExecAt("idle")
  /\ replay = [l \in Replayers |-> ReplayAt("idle", {})]
  /\ faults = 0

Fault == faults < MaxFaults /\ faults' = faults + 1
Up == exec.at # "down"

-----------------------------------------------------------------------------
(* Writing, removing and quarantining a file.                              *)

\* The generations of the records of shard s that somebody still refers to.
InUse(s) ==
  {file[s].gen}
    \cup (IF exec.shard = s THEN {exec.record.gen} ELSE {})
    \cup {replay[l].record.gen : l \in {k \in Replayers : replay[k].shard = s}}

Fresh(s) == CHOOSE g \in Generations \ InUse(s) : TRUE

\* A progress update does not replace a terminal report.
Written(s, attempt, kind) ==
  IF file[s].kind = "terminal" /\ kind # "terminal" THEN file[s]
    ELSE [attempt |-> attempt, kind |-> kind, gen |-> Fresh(s)]

\* Mutant: whatever is in the file belongs to the update that was answered.
MatchesAny(s, record) == file[s] # NoRecord

\* _pending_shard_update_matches.
Matches(s, record) == file[s] # NoRecord /\ file[s].gen = record.gen

Remove(s, record) ==
  /\ file' = IF Matches(s, record) THEN [file EXCEPT ![s] = NoRecord] ELSE file
  /\ UNCHANGED failed

\* Mutant: the pending file is copied, not moved.
QuarantineCopies(s, record) ==
  /\ failed' = IF Matches(s, record) THEN [failed EXCEPT ![s] = record] ELSE failed
  /\ UNCHANGED file

Quarantine(s, record) ==
  /\ failed' = IF Matches(s, record) THEN [failed EXCEPT ![s] = record] ELSE failed
  /\ file' = IF Matches(s, record) THEN [file EXCEPT ![s] = NoRecord] ELSE file

-----------------------------------------------------------------------------
(* The control plane handling an update.                                   *)

\* Mutant: updates of a settled shard are refused.
AcceptsUnsettled(s, record) ==
  row[s].ours /\ row[s].attempt = record.attempt /\ row[s].status # "settled"

\* The same server on the same attempt: what apply_work_shard_update demands.
Accepts(s, record) == row[s].ours /\ row[s].attempt = record.attempt

\* An accepted terminal report settles the shard or gives it back for another
\* attempt; one for a settled shard is answered without effect, a refused one
\* changes nothing.
Handle(s, record) ==
  IF record.kind = "terminal"
    THEN /\ handled' = handled \cup {<<s, record.attempt>>}
         /\ IF Accepts(s, record) /\ row[s].status # "settled"
              THEN \E status \in {"settled", "claimable"} :
                     row' = [row EXCEPT ![s].status = status]
              ELSE UNCHANGED row
    ELSE UNCHANGED <<row, handled>>

\* The shard changes without this agent: another server takes it, expired or
\* not yet claimed; or another server's report, an expiry, a stop or the last
\* attempt running out settle it or free it.
TakenAway(s) ==
  /\ row[s].status # "settled" /\ row[s].attempt < MaxAttempts
  /\ row' = [row EXCEPT ![s] = [attempt |-> @.attempt + 1, ours |-> FALSE,
                                status |-> "held"]]
  /\ UNCHANGED <<handled, file, failed, exec, replay, faults>>

Reconciled(s) ==
  /\ row[s].status # "settled" /\ row[s].attempt > 0
  /\ \E status \in {"settled", "claimable"} \ {row[s].status} :
       row' = [row EXCEPT ![s].status = status]
  /\ UNCHANGED <<handled, file, failed, exec, replay, faults>>

-----------------------------------------------------------------------------
(* The execution lane.                                                     *)

\* Mutant: a claim does not look at the attempts used up.
ClaimWithoutBudget(s) ==
  /\ exec.at = "idle"
  /\ row[s].status = "claimable"
  /\ row' = [row EXCEPT ![s] = [attempt |-> @.attempt + 1, ours |-> TRUE,
                                status |-> "held"]]
  /\ exec' = [at |-> "running", shard |-> s,
              record |-> [attempt |-> row'[s].attempt, kind |-> "progress", gen |-> 0]]
  /\ UNCHANGED <<handled, file, failed, replay, faults>>

Claim(s) ==
  /\ exec.at = "idle"
  /\ row[s].status = "claimable" /\ row[s].attempt < MaxAttempts
  /\ row' = [row EXCEPT ![s] = [attempt |-> @.attempt + 1, ours |-> TRUE,
                                status |-> "held"]]
  /\ exec' = [at |-> "running", shard |-> s,
              record |-> [attempt |-> row'[s].attempt, kind |-> "progress", gen |-> 0]]
  /\ UNCHANGED <<handled, file, failed, replay, faults>>

\* A progress update failed transiently and goes to the file.
SpoolProgress ==
  /\ exec.at = "running"
  /\ Fault
  /\ file' = [file EXCEPT ![exec.shard] =
                Written(exec.shard, exec.record.attempt, "progress")]
  /\ UNCHANGED <<row, handled, failed, exec, replay>>

\* A progress update is refused, which raises out of the job.
ProgressRefused ==
  /\ exec.at = "running" /\ ~Accepts(exec.shard, exec.record)
  /\ exec' = ExecAt("idle")
  /\ UNCHANGED <<row, handled, file, failed, replay, faults>>

\* The execution ends; the report is written before it is sent.
EndShard ==
  LET record == Written(exec.shard, exec.record.attempt, "terminal")
  IN  /\ exec.at = "running"
      /\ file' = [file EXCEPT ![exec.shard] = record]
      /\ exec' = [exec EXCEPT !.at = "sending", !.record = record]
      /\ UNCHANGED <<row, handled, failed, replay, faults>>

\* The answer is a success, a refusal that raises out of the job, or lost, in
\* which case the lane tries again.
SendReport ==
  /\ exec.at = "sending"
  /\ Handle(exec.shard, exec.record)
  /\ \/ /\ Accepts(exec.shard, exec.record)
        /\ Remove(exec.shard, exec.record)
        /\ exec' = ExecAt("idle")
        /\ UNCHANGED faults
     \/ /\ ~Accepts(exec.shard, exec.record)
        /\ Quarantine(exec.shard, exec.record)
        /\ exec' = ExecAt("idle")
        /\ UNCHANGED faults
     \/ Fault /\ UNCHANGED <<file, failed, exec>>
  /\ UNCHANGED replay

-----------------------------------------------------------------------------
(* A lane l that replays: replay_pending_shard_updates.                    *)

ListFiles(l) ==
  /\ Up /\ replay[l].at = "idle"
  /\ \E s \in Shards : file[s] # NoRecord
  /\ replay' = [replay EXCEPT ![l] =
                  ReplayAt("walking", {s \in Shards : file[s] # NoRecord})]
  /\ UNCHANGED <<row, handled, file, failed, exec, faults>>

\* A file that is gone by now is passed over.
ReadFile(l, s) ==
  /\ Up /\ replay[l].at = "walking" /\ s \in replay[l].todo
  /\ replay' = [replay EXCEPT ![l] =
       IF file[s] = NoRecord
         THEN ReplayAt("walking", @.todo \ {s})
         ELSE [at |-> "sending", todo |-> @.todo \ {s}, shard |-> s, record |-> file[s]]]
  /\ UNCHANGED <<row, handled, file, failed, exec, faults>>

EndWalk(l) ==
  /\ Up /\ replay[l].at = "walking" /\ replay[l].todo = {}
  /\ replay' = [replay EXCEPT ![l] = ReplayAt("idle", {})]
  /\ UNCHANGED <<row, handled, file, failed, exec, faults>>

\* A transient error ends the walk, any other answer goes on with it.
SendPending(l) ==
  LET s == replay[l].shard
      record == replay[l].record
  IN  /\ Up /\ replay[l].at = "sending"
      /\ Handle(s, record)
      /\ \/ /\ Accepts(s, record)
            /\ Remove(s, record)
            /\ replay' = [replay EXCEPT ![l] = ReplayAt("walking", @.todo)]
            /\ UNCHANGED faults
         \/ /\ ~Accepts(s, record)
            /\ Quarantine(s, record)
            /\ replay' = [replay EXCEPT ![l] = ReplayAt("walking", @.todo)]
            /\ UNCHANGED faults
         \/ /\ Fault
            /\ replay' = [replay EXCEPT ![l] = ReplayAt("idle", {})]
            /\ UNCHANGED <<file, failed>>
      /\ UNCHANGED exec

\* The control plane does not even see the update.
Unreachable(l) ==
  /\ Up /\ replay[l].at = "sending"
  /\ Fault
  /\ replay' = [replay EXCEPT ![l] = ReplayAt("idle", {})]
  /\ UNCHANGED <<row, handled, file, failed, exec>>

-----------------------------------------------------------------------------
(* Crash and restart.                                                      *)

Crash ==
  /\ Up
  /\ Fault
  /\ exec' = ExecAt("down")
  /\ replay' = [l \in Replayers |-> ReplayAt("idle", {})]
  /\ UNCHANGED <<row, handled, file, failed>>

\* The process dies between the two writes of a quarantine.
CrashInQuarantine(l) ==
  LET s == replay[l].shard
      record == replay[l].record
  IN  /\ Up /\ replay[l].at = "sending"
      /\ ~Accepts(s, record) /\ Matches(s, record)
      /\ Fault
      /\ Handle(s, record)
      /\ failed' = [failed EXCEPT ![s] = record]
      /\ exec' = ExecAt("down")
      /\ replay' = [k \in Replayers |-> ReplayAt("idle", {})]
      /\ UNCHANGED file

\* Registration fences what this server held.
Restart ==
  /\ ~Up
  /\ exec' = ExecAt("idle")
  /\ row' = [s \in Shards |->
               IF row[s].ours /\ row[s].status = "held"
                 THEN [row[s] EXCEPT !.ours = FALSE, !.status = "claimable"]
                 ELSE row[s]]
  /\ UNCHANGED <<handled, file, failed, replay, faults>>

-----------------------------------------------------------------------------
SpoolNext ==
  \/ \E s \in Shards : TakenAway(s) \/ Reconciled(s) \/ Claim(s)
  \/ SpoolProgress \/ ProgressRefused \/ EndShard \/ SendReport
  \/ \E l \in Replayers :
       \/ ListFiles(l) \/ EndWalk(l) \/ SendPending(l) \/ Unreachable(l)
       \/ \E s \in Shards : ReadFile(l, s)
       \/ CrashInQuarantine(l)
  \/ Crash \/ Restart

SpoolSpec == SpoolInit /\ [][SpoolNext]_spoolVars

\* Executions end, calls are eventually answered, every lane goes on with its
\* loop, and a dead agent is started again.
FairSpoolSpec ==
  /\ SpoolSpec
  /\ WF_spoolVars(EndShard) /\ WF_spoolVars(SendReport /\ exec'.at = "idle")
  /\ WF_spoolVars(Restart)
  /\ \A l \in Replayers :
       /\ WF_spoolVars(ListFiles(l)) /\ WF_spoolVars(EndWalk(l))
       /\ WF_spoolVars(SendPending(l) /\ replay'[l].at = "walking")
       /\ \A s \in Shards : WF_spoolVars(ReadFile(l, s))

-----------------------------------------------------------------------------
(* Types; a generation is written that no lane refers to. *)
SpoolTypeOK ==
  /\ row \in [Shards -> RowType]
  /\ handled \subseteq Shards \X Attempts
  /\ file \in [Shards -> Record]
  /\ failed \in [Shards -> Record]
  /\ exec \in Exec
  /\ replay \in [Replayers -> Replay]
  /\ faults \in 0 .. MaxFaults

\* A terminal report stays on disk until the control plane has handled it,
\* whatever the other lane or an earlier process does with the same file: its
\* record leaves the file only handled, or for that of a later attempt.
ReportKept ==
  [][\A s \in Shards :
       /\ file[s].kind = "terminal"
       /\ file'[s] # file[s]
       => \/ <<s, file[s].attempt>> \in handled'
          \/ file'[s].kind = "terminal" /\ file'[s].attempt > file[s].attempt]_spoolVars

\* While the execution lane still sends a report, it is on disk or handled:
\* the replay of something older does not take it away.
SendingIsBacked ==
  exec.at = "sending"
    => \/ file[exec.shard] = exec.record
       \/ <<exec.shard, exec.record.attempt>> \in handled

\* What is quarantined was refused: a report this server still could deliver
\* is never given up.
QuarantinedIsSuperseded ==
  \A s \in Shards :
    failed[s] # NoRecord =>
      \/ row[s].attempt > failed[s].attempt
      \/ row[s].attempt = failed[s].attempt /\ ~row[s].ours

\* What is sent is backed, what is given up was refused, and types hold.
FilesBackReports == SpoolTypeOK /\ SendingIsBacked /\ QuarantinedIsSuperseded

\* The spool drains: every pending file goes, delivered or quarantined, and a
\* record that is refused does not hold up those behind it.
SpoolDrains == \A s \in Shards : (file[s] # NoRecord) ~> (file[s] = NoRecord)
=============================================================================
