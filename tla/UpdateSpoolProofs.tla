------------------------- MODULE UpdateSpoolProofs --------------------------
(***************************************************************************)
(* That no terminal report of UpdateSpool is lost between the lanes that   *)
(* write, send, remove and quarantine the same files, for every value of   *)
(* the constants.                                                          *)
(***************************************************************************)
EXTENDS UpdateSpool, FiniteSetTheorems, TLAPS

USE BoundsAssumption, ShardsAssumption, ReplayersAssumption

\* Two records of one generation are the same record, for whoever sends.
SameRecord(s, record) ==
  file[s] # NoRecord /\ file[s].gen = record.gen => file[s] = record

\* What is sent is what was read or written, or the file changed since.
GenerationsTell ==
  /\ exec.at = "sending" => SameRecord(exec.shard, exec.record)
  /\ \A l \in Replayers :
       replay[l].at = "sending" => SameRecord(replay[l].shard, replay[l].record)

\* Nobody has a record of an attempt the shard was not on yet.
AttemptsPast ==
  /\ \A s \in Shards : file[s].attempt <= row[s].attempt
  /\ exec.record.attempt <= row[exec.shard].attempt
  /\ \A l \in Replayers : replay[l].record.attempt <= row[replay[l].shard].attempt

\* While a shard is executed, a report in its file is that of an attempt before.
RunningIsAhead ==
  /\ exec.at = "running" =>
       /\ exec.record.attempt > 0
       /\ file[exec.shard].kind = "terminal"
            => file[exec.shard].attempt < exec.record.attempt
  /\ exec.at = "sending" => exec.record.kind = "terminal"

\* The inductive invariant.
SpoolInv ==
  /\ SpoolTypeOK
  /\ GenerationsTell /\ AttemptsPast /\ RunningIsAhead
  /\ SendingIsBacked /\ QuarantinedIsSuperseded

-----------------------------------------------------------------------------
(* Records.                                                                *)

LEMMA RecordTypes ==
  ASSUME NEW r \in Record
  PROVE  r.attempt \in Attempts /\ r.kind \in Kinds /\ r.gen \in Generations
  <1>1. Cardinality(Replayers) \in Nat
    BY FS_CardinalityType
  <1> QED
    BY <1>1 DEF Record, NoRecord, Attempts, Kinds, Generations

\* There is a generation nobody refers to: one record in the file, one in the
\* execution lane and one in each lane that replays.
LEMMA FreshIsFree ==
  ASSUME SpoolTypeOK, NEW s \in Shards
  PROVE  Fresh(s) \in Generations /\ Fresh(s) \notin InUse(s)
  <1> DEFINE readers == {k \in Replayers : replay[k].shard = s}
             gen == [l \in readers |-> replay[l].record.gen]
             gens == {replay[l].record.gen : l \in readers}
             execs == IF exec.shard = s THEN {exec.record.gen} ELSE {}
             n == Cardinality(Replayers)
  <1>1. n \in Nat
    BY FS_CardinalityType
  <1>2. IsFiniteSet(readers) /\ Cardinality(readers) <= n
    BY FS_Subset
  <1>3. gen \in Surjection(readers, gens)
    BY DEF Surjection
  <1>4. IsFiniteSet(gens) /\ Cardinality(gens) <= n
    <2>1. IsFiniteSet(gens) /\ Cardinality(gens) <= Cardinality(readers)
      BY <1>2, <1>3, FS_Surjection
    <2>2. Cardinality(gens) \in Nat /\ Cardinality(readers) \in Nat
      BY <1>2, <2>1, FS_CardinalityType
    <2> QED
      BY <1>1, <1>2, <2>1, <2>2
  <1>5. IsFiniteSet(execs) /\ Cardinality(execs) <= 1
    <2>1. CASE exec.shard = s
      <3>1. execs = {exec.record.gen}
        BY <2>1
      <3>2. IsFiniteSet({exec.record.gen}) /\ Cardinality({exec.record.gen}) = 1
        BY FS_Singleton
      <3> QED
        BY <3>1, <3>2
    <2>2. CASE exec.shard # s
      <3>1. execs = {}
        BY <2>2
      <3> QED
        BY <3>1, FS_EmptySet
    <2> QED
      BY <2>1, <2>2
  <1>6. IsFiniteSet({file[s].gen}) /\ Cardinality({file[s].gen}) = 1
    BY FS_Singleton
  <1> HIDE DEF gen, gens, execs, readers, n
  <1>7. IsFiniteSet({file[s].gen} \cup execs)
        /\ Cardinality({file[s].gen} \cup execs) <= 2
    <2>1. {file[s].gen} \cap execs \subseteq execs
      OBVIOUS
    <2>2. Cardinality({file[s].gen} \cap execs) \in Nat /\ Cardinality(execs) \in Nat
      BY <1>5, <2>1, FS_Subset, FS_CardinalityType
    <2>3. /\ IsFiniteSet({file[s].gen} \cup execs)
          /\ Cardinality({file[s].gen} \cup execs)
               = 1 + Cardinality(execs) - Cardinality({file[s].gen} \cap execs)
      BY <1>5, <1>6, FS_Union
    <2> QED
      BY <1>5, <2>2, <2>3
  <1>8. IsFiniteSet(InUse(s)) /\ Cardinality(InUse(s)) <= 2 + n
    <2>1. InUse(s) = ({file[s].gen} \cup execs) \cup gens
      BY DEF InUse, execs, gens, readers
    <2>2. IsFiniteSet(({file[s].gen} \cup execs) \cap gens)
      BY <1>4, FS_Subset
    <2>3. /\ Cardinality(({file[s].gen} \cup execs) \cap gens) \in Nat
          /\ Cardinality({file[s].gen} \cup execs) \in Nat
          /\ Cardinality(gens) \in Nat
      BY <1>4, <1>7, <2>2, FS_CardinalityType
    <2> QED
      BY <1>1, <1>4, <1>7, <2>1, <2>3, FS_Union
  <1>9. IsFiniteSet(Generations) /\ Cardinality(Generations) = 3 + n
    BY <1>1, FS_Interval DEF Generations, n
  <1>10. ~(Generations \subseteq InUse(s))
    <2>1. Cardinality(InUse(s)) \in Nat
      BY <1>8, FS_CardinalityType
    <2>2. SUFFICES ASSUME Generations \subseteq InUse(s)
                   PROVE  FALSE
      OBVIOUS
    <2>3. Cardinality(Generations) <= Cardinality(InUse(s))
      BY <1>8, <2>2, FS_Subset
    <2> QED
      BY <1>1, <1>8, <1>9, <2>1, <2>3
  <1> QED
    BY <1>10 DEF Fresh

\* What goes to a file is a record, of a free generation unless a report stays.
LEMMA WrittenRecord ==
  ASSUME SpoolTypeOK, NEW s \in Shards, NEW attempt \in 1 .. MaxAttempts,
         NEW kind \in Kinds
  PROVE  LET record == Written(s, attempt, kind)
         IN  /\ record \in Record
             /\ \/ /\ kind # "terminal" /\ file[s].kind = "terminal"
                   /\ record = file[s]
                \/ /\ record.attempt = attempt /\ record.kind = kind
                   /\ record.gen \notin InUse(s)
                   /\ file[s].kind = "terminal" => kind = "terminal"
  <1>1. file[s] \in Record
    BY DEF SpoolTypeOK
  <1>2. [attempt |-> attempt, kind |-> kind, gen |-> Fresh(s)] \in Record
    BY FreshIsFree DEF Record
  <1> QED
    BY <1>1, <1>2, FreshIsFree DEF Written

-----------------------------------------------------------------------------
(* How a step may change the rows, the files and the lanes.                *)

\* An attempt is never taken back, and within one a server is only fenced.
RowMove(s) ==
  /\ row'[s].attempt >= row[s].attempt
  /\ row'[s].attempt = row[s].attempt /\ row'[s].ours => row[s].ours

\* A file stays, goes, a report only when it was handled, or is written by the
\* execution of its shard, to which a report stays a report.
FileMove(s) ==
  \/ file'[s] = file[s]
  \/ /\ file'[s] = NoRecord
     /\ file[s].kind = "terminal" => <<s, file[s].attempt>> \in handled'
  \/ /\ exec.at = "running" /\ exec.shard = s
     /\ file'[s].attempt = exec.record.attempt
     /\ file'[s].gen \notin InUse(s)
     /\ file[s].kind = "terminal" => file'[s].kind = "terminal"
     /\ file'[s].kind = "terminal" => exec'.at = "sending"

\* What is quarantined was refused in the same step.
FailedMove(s) ==
  \/ failed'[s] = failed[s]
  \/ /\ row'[s] = row[s]
     /\ failed'[s].attempt <= row[s].attempt
     /\ failed'[s].attempt = row[s].attempt => ~row[s].ours

\* The execution lane stays, lets go, begins an attempt, or writes its report.
ExecMove ==
  \/ exec' = exec
  \/ exec'.at \notin {"running", "sending"} /\ exec'.record = NoRecord
  \/ /\ exec'.at = "running" /\ file' = file
     /\ exec'.record.attempt = row'[exec'.shard].attempt
     /\ row'[exec'.shard].attempt > row[exec'.shard].attempt
  \/ /\ exec.at = "running" /\ exec'.at = "sending"
     /\ exec'.shard = exec.shard /\ exec'.record = file'[exec.shard]
     /\ exec'.record.kind = "terminal"
     /\ exec'.record.attempt = exec.record.attempt

\* A lane that replays stays, lets go, or has just read a file.
ReplayMove(l) ==
  \/ replay'[l] = replay[l]
  \/ replay'[l].at # "sending" /\ replay'[l].record = NoRecord
  \/ replay'[l].record = file'[replay'[l].shard] /\ file' = file /\ row' = row

Moves ==
  /\ \A s \in Shards : RowMove(s) /\ FileMove(s) /\ FailedMove(s)
  /\ handled \subseteq handled'
  /\ ExecMove
  /\ \A l \in Replayers : ReplayMove(l)

-----------------------------------------------------------------------------
(* Types.                                                                  *)

LEMMA NoRecordType == NoRecord \in Record
  BY DEF Record

LEMMA LaneTypes ==
  /\ \A place \in {"down", "idle", "running", "sending"} : ExecAt(place) \in Exec
  /\ \A place \in {"idle", "walking", "sending"}, todo \in SUBSET Shards :
       ReplayAt(place, todo) \in Replay
  <1>1. AnyShard \in Shards
    BY DEF AnyShard
  <1> QED
    BY <1>1, NoRecordType DEF ExecAt, ReplayAt, Exec, Replay

\* Handling an update changes a row and the reports handled within their types.
LEMMA HandleTypes ==
  ASSUME SpoolTypeOK, NEW s \in Shards, NEW record \in Record, Handle(s, record)
  PROVE  row' \in [Shards -> RowType] /\ handled' \subseteq Shards \X Attempts
  <1>1. record.attempt \in Attempts
    BY RecordTypes
  <1>2. \A status \in {"settled", "claimable"} :
          [row EXCEPT ![s].status = status] \in [Shards -> RowType]
    BY DEF SpoolTypeOK, RowType
  <1> QED
    BY <1>1, <1>2 DEF Handle, SpoolTypeOK

\* So do removing and quarantining.
LEMMA FileTypes ==
  ASSUME SpoolTypeOK, NEW s \in Shards, NEW record \in Record,
         Remove(s, record) \/ Quarantine(s, record) \/ UNCHANGED <<file, failed>>
  PROVE  file' \in [Shards -> Record] /\ failed' \in [Shards -> Record]
  BY NoRecordType DEF SpoolTypeOK, Remove, Quarantine

LEMMA ClaimTypes ==
  ASSUME SpoolTypeOK, NEW s \in Shards, Claim(s) \/ TakenAway(s) \/ Reconciled(s)
  PROVE  SpoolTypeOK'
  <1>1. row[s] \in RowType /\ row[s].attempt \in Attempts
    BY DEF SpoolTypeOK, RowType
  <1>2. CASE Claim(s)
    <2>1. row'[s].attempt \in 1 .. MaxAttempts
      BY <1>1, <1>2 DEF Claim, SpoolTypeOK, Attempts
    <2>2. row' \in [Shards -> RowType]
      BY <1>1, <1>2 DEF Claim, SpoolTypeOK, Attempts, RowType
    <2>3. 0 \in Generations
      BY FS_CardinalityType DEF Generations
    <2>4. [attempt |-> row'[s].attempt, kind |-> "progress", gen |-> 0] \in Record
      BY <2>1, <2>3 DEF Record, Kinds
    <2>5. exec' \in Exec
      BY <1>2, <2>4 DEF Claim, Exec
    <2> QED
      BY <1>2, <2>2, <2>5 DEF Claim, SpoolTypeOK
  <1>3. CASE TakenAway(s)
    <2>1. row' \in [Shards -> RowType]
      BY <1>1, <1>3 DEF TakenAway, SpoolTypeOK, Attempts, RowType
    <2> QED
      BY <1>3, <2>1 DEF TakenAway, SpoolTypeOK
  <1>4. CASE Reconciled(s)
    <2>1. row' \in [Shards -> RowType]
      BY <1>1, <1>4 DEF Reconciled, SpoolTypeOK, Attempts, RowType
    <2> QED
      BY <1>4, <2>1 DEF Reconciled, SpoolTypeOK
  <1> QED
    BY <1>2, <1>3, <1>4

LEMMA ExecTypes ==
  ASSUME SpoolTypeOK, RunningIsAhead,
         SpoolProgress \/ ProgressRefused \/ EndShard \/ SendReport
  PROVE  SpoolTypeOK'
  <1>1. /\ exec.shard \in Shards /\ exec.record \in Record
        /\ exec.at = "running" => exec.record.attempt \in 1 .. MaxAttempts
    BY RecordTypes DEF SpoolTypeOK, Exec, Attempts, RunningIsAhead
  <1>2. CASE SpoolProgress
    <2>1. Written(exec.shard, exec.record.attempt, "progress") \in Record
      BY <1>1, <1>2, WrittenRecord DEF SpoolProgress, Kinds
    <2> QED
      BY <1>1, <1>2, <2>1 DEF SpoolProgress, SpoolTypeOK, Fault
  <1>3. CASE ProgressRefused
    BY <1>3, LaneTypes DEF ProgressRefused, SpoolTypeOK
  <1>4. CASE EndShard
    <2>1. Written(exec.shard, exec.record.attempt, "terminal") \in Record
      BY <1>1, <1>4, WrittenRecord DEF EndShard, Kinds
    <2>2. exec' \in Exec
      BY <1>4, <2>1 DEF EndShard, SpoolTypeOK, Exec
    <2> QED
      BY <1>4, <2>1, <2>2 DEF EndShard, SpoolTypeOK
  <1>5. CASE SendReport
    <2>1. row' \in [Shards -> RowType] /\ handled' \subseteq Shards \X Attempts
      BY <1>1, <1>5, HandleTypes DEF SendReport
    <2>2. file' \in [Shards -> Record] /\ failed' \in [Shards -> Record]
      BY <1>1, <1>5, FileTypes DEF SendReport
    <2>3. exec' \in Exec /\ replay' \in [Replayers -> Replay] /\ faults' \in 0 .. MaxFaults
      BY <1>5, LaneTypes DEF SendReport, SpoolTypeOK, Fault
    <2> QED
      BY <2>1, <2>2, <2>3 DEF SpoolTypeOK
  <1> QED
    BY <1>2, <1>3, <1>4, <1>5

LEMMA ReplayTypes ==
  ASSUME SpoolTypeOK, NEW l \in Replayers,
         \/ ListFiles(l) \/ EndWalk(l) \/ SendPending(l) \/ Unreachable(l)
         \/ \E s \in Shards : ReadFile(l, s)
         \/ CrashInQuarantine(l)
  PROVE  SpoolTypeOK'
  <1>1. /\ replay[l].shard \in Shards /\ replay[l].record \in Record
        /\ replay[l].todo \subseteq Shards
    BY DEF SpoolTypeOK, Replay
  <1>2. CASE ListFiles(l)
    BY <1>2, LaneTypes DEF ListFiles, SpoolTypeOK
  <1>3. CASE EndWalk(l)
    BY <1>3, LaneTypes DEF EndWalk, SpoolTypeOK
  <1>4. CASE SendPending(l)
    <2>1. row' \in [Shards -> RowType] /\ handled' \subseteq Shards \X Attempts
      BY <1>1, <1>4, HandleTypes DEF SendPending
    <2>2. file' \in [Shards -> Record] /\ failed' \in [Shards -> Record]
      BY <1>1, <1>4, FileTypes DEF SendPending
    <2>3. exec' \in Exec /\ replay' \in [Replayers -> Replay] /\ faults' \in 0 .. MaxFaults
      BY <1>1, <1>4, LaneTypes DEF SendPending, SpoolTypeOK, Fault
    <2> QED
      BY <2>1, <2>2, <2>3 DEF SpoolTypeOK
  <1>5. CASE Unreachable(l)
    BY <1>5, LaneTypes DEF Unreachable, SpoolTypeOK, Fault
  <1>6. ASSUME NEW s \in Shards, ReadFile(l, s)
        PROVE  SpoolTypeOK'
    <2>1. replay[l].todo \ {s} \in SUBSET Shards /\ file[s] \in Record
      BY <1>1 DEF SpoolTypeOK
    <2>2. ReplayAt("walking", replay[l].todo \ {s}) \in Replay
      BY <2>1, LaneTypes
    <2>3. [at |-> "sending", todo |-> replay[l].todo \ {s}, shard |-> s,
           record |-> file[s]] \in Replay
      BY <2>1 DEF Replay
    <2>4. replay' \in [Replayers -> Replay]
      BY <1>6, <2>2, <2>3 DEF ReadFile, SpoolTypeOK
    <2> QED
      BY <1>6, <2>4 DEF ReadFile, SpoolTypeOK
  <1>7. CASE CrashInQuarantine(l)
    <2>1. row' \in [Shards -> RowType] /\ handled' \subseteq Shards \X Attempts
      BY <1>1, <1>7, HandleTypes DEF CrashInQuarantine
    <2>2. file' \in [Shards -> Record] /\ failed' \in [Shards -> Record]
      BY <1>1, <1>7 DEF CrashInQuarantine, SpoolTypeOK
    <2>3. exec' \in Exec /\ replay' \in [Replayers -> Replay] /\ faults' \in 0 .. MaxFaults
      BY <1>7, LaneTypes DEF CrashInQuarantine, SpoolTypeOK, Fault
    <2> QED
      BY <2>1, <2>2, <2>3 DEF SpoolTypeOK
  <1> QED
    BY <1>2, <1>3, <1>4, <1>5, <1>6, <1>7

LEMMA AgentTypes ==
  ASSUME SpoolTypeOK, Crash \/ Restart
  PROVE  SpoolTypeOK'
  <1>1. CASE Crash
    BY <1>1, LaneTypes DEF Crash, SpoolTypeOK, Fault
  <1>2. CASE Restart
    <2>1. row' \in [Shards -> RowType]
      BY <1>2 DEF Restart, SpoolTypeOK, RowType
    <2> QED
      BY <1>2, <2>1, LaneTypes DEF Restart, SpoolTypeOK
  <1> QED
    BY <1>1, <1>2

LEMMA TypesStep ==
  ASSUME SpoolTypeOK, RunningIsAhead, [SpoolNext]_spoolVars
  PROVE  SpoolTypeOK'
  <1>1. CASE UNCHANGED spoolVars
    BY <1>1 DEF spoolVars, SpoolTypeOK
  <1> QED
    BY <1>1, ClaimTypes, ExecTypes, ReplayTypes, AgentTypes DEF SpoolNext

-----------------------------------------------------------------------------
(* Every step is one of the moves.                                         *)

LEMMA RowsOrder ==
  ASSUME SpoolTypeOK, NEW s \in Shards
  PROVE  /\ row[s].attempt \in Int /\ file[s].attempt \in Int
         /\ failed[s].attempt \in Int /\ exec.record.attempt \in Int
         /\ \A l \in Replayers : replay[l].record.attempt \in Int
  <1>1. /\ file[s] \in Record /\ failed[s] \in Record /\ exec.record \in Record
        /\ \A l \in Replayers : replay[l].record \in Record
    BY DEF SpoolTypeOK, Exec, Replay
  <1>2. row[s].attempt \in Attempts
    BY DEF SpoolTypeOK, RowType
  <1> QED
    BY <1>1, <1>2, RecordTypes DEF Attempts

\* An answer to whoever has a record of shard s.
LEMMA AnswerMoves ==
  ASSUME SpoolTypeOK, NEW s \in Shards, NEW record \in Record,
         SameRecord(s, record), record.attempt <= row[s].attempt,
         Handle(s, record),
         \/ Accepts(s, record) /\ Remove(s, record)
         \/ ~Accepts(s, record) /\ Quarantine(s, record)
         \/ ~Accepts(s, record) /\ UNCHANGED file
              /\ failed' = [failed EXCEPT ![s] = record]
         \/ UNCHANGED <<file, failed>>
  PROVE  /\ \A r \in Shards : RowMove(r) /\ FileMove(r) /\ FailedMove(r)
         /\ handled \subseteq handled'
  <1>1. handled \subseteq handled'
    BY DEF Handle
  <1>2. ASSUME NEW r \in Shards
        PROVE  RowMove(r)
    BY RowsOrder DEF Handle, RowMove, SpoolTypeOK, RowType
  <1>3. ASSUME NEW r \in Shards
        PROVE  FileMove(r)
    <2>1. file'[r] = file[r] \/ (r = s /\ Matches(s, record) /\ file'[r] = NoRecord)
      BY DEF Remove, Quarantine, SpoolTypeOK
    <2>2. Matches(s, record) /\ file[s].kind = "terminal"
            => <<s, file[s].attempt>> \in handled'
      BY DEF Matches, SameRecord, Handle
    <2> QED
      BY <2>1, <2>2 DEF FileMove
  <1>4. ASSUME NEW r \in Shards
        PROVE  FailedMove(r)
    <2>1. failed'[r] = failed[r] \/ (r = s /\ ~Accepts(s, record) /\ failed'[r] = record)
      BY DEF Remove, Quarantine, SpoolTypeOK
    <2>2. ~Accepts(s, record) => row' = row
      BY DEF Handle
    <2> QED
      BY <2>1, <2>2 DEF FailedMove, Accepts
  <1> QED
    BY <1>1, <1>2, <1>3, <1>4

\* A step that writes no file.
LEMMA Calm ==
  ASSUME SpoolTypeOK, UNCHANGED <<file, failed>>, handled \subseteq handled'
  PROVE  /\ \A s \in Shards : FileMove(s) /\ FailedMove(s)
         /\ row' = row => \A s \in Shards : RowMove(s)
  BY RowsOrder DEF FileMove, FailedMove, RowMove

LEMMA ControlMoves ==
  ASSUME SpoolTypeOK, NEW s \in Shards, Claim(s) \/ TakenAway(s) \/ Reconciled(s)
  PROVE  Moves
  <1>1. \A r \in Shards : FileMove(r) /\ FailedMove(r)
    BY Calm DEF Claim, TakenAway, Reconciled
  <1>2. ASSUME NEW r \in Shards
        PROVE  RowMove(r)
    <2>1. row \in [Shards -> RowType] /\ row[r].attempt \in Int
      BY RowsOrder DEF SpoolTypeOK
    <2>2. CASE Claim(s)
      BY <2>1, <2>2 DEF Claim, RowMove
    <2>3. CASE TakenAway(s)
      BY <2>1, <2>3 DEF TakenAway, RowMove
    <2>4. CASE Reconciled(s)
      BY <2>1, <2>4 DEF Reconciled, RowMove, RowType
    <2> QED
      BY <2>2, <2>3, <2>4
  <1>3. ExecMove
    BY RowsOrder DEF Claim, TakenAway, Reconciled, ExecMove, SpoolTypeOK, RowType
  <1>4. handled \subseteq handled' /\ \A l \in Replayers : ReplayMove(l)
    BY DEF Claim, TakenAway, Reconciled, ReplayMove
  <1> QED
    BY <1>1, <1>2, <1>3, <1>4 DEF Moves

\* The execution lane writes to its file.
LEMMA WriteMoves ==
  ASSUME SpoolInv, SpoolProgress \/ EndShard
  PROVE  Moves
  <1> DEFINE kind == IF SpoolProgress THEN "progress" ELSE "terminal"
             record == Written(exec.shard, exec.record.attempt, kind)
  <1>1. exec.at = "running"
    BY DEF SpoolProgress, EndShard
  <1>2. /\ SpoolTypeOK /\ exec.shard \in Shards /\ kind \in Kinds
        /\ exec.record.attempt \in 1 .. MaxAttempts
    <2>1. exec.shard \in Shards /\ exec.record \in Record /\ exec.record.attempt > 0
      BY <1>1 DEF SpoolInv, SpoolTypeOK, Exec, RunningIsAhead
    <2> QED
      BY <2>1, RecordTypes DEF SpoolInv, Kinds, Attempts
  <1>3. /\ file' = [file EXCEPT ![exec.shard] = record]
        /\ UNCHANGED <<row, handled, failed, replay>>
        /\ kind = "progress" => exec' = exec
        /\ kind = "terminal" => exec' = [exec EXCEPT !.at = "sending", !.record = record]
    BY DEF SpoolProgress, EndShard
  <1>4. \/ /\ kind = "progress" /\ file[exec.shard].kind = "terminal"
           /\ record = file[exec.shard]
        \/ /\ record.attempt = exec.record.attempt /\ record.kind = kind
           /\ record.gen \notin InUse(exec.shard)
           /\ file[exec.shard].kind = "terminal" => kind = "terminal"
    BY <1>2, WrittenRecord DEF Kinds
  <1>5. kind = "progress" \/ kind = "terminal"
    OBVIOUS
  <1> HIDE DEF kind, record
  <1>6. file'[exec.shard] = record
        /\ \A s \in Shards \ {exec.shard} : file'[s] = file[s]
    BY <1>2, <1>3 DEF SpoolTypeOK
  <1>7. kind = "terminal" => /\ exec'.at = "sending" /\ exec'.shard = exec.shard
                             /\ exec'.record = record
    BY <1>2, <1>3 DEF SpoolTypeOK, Exec
  <1>8. \A s \in Shards : FileMove(s)
    BY <1>1, <1>4, <1>5, <1>6, <1>7 DEF FileMove
  <1>9. ExecMove
    BY <1>1, <1>3, <1>4, <1>5, <1>6, <1>7 DEF ExecMove
  <1>10. \A s \in Shards : RowMove(s) /\ FailedMove(s)
    BY <1>2, <1>3, RowsOrder DEF RowMove, FailedMove
  <1> QED
    BY <1>3, <1>8, <1>9, <1>10 DEF Moves, ReplayMove

LEMMA SendMoves ==
  ASSUME SpoolInv, SendReport
  PROVE  Moves
  <1>1. /\ SpoolTypeOK /\ exec.shard \in Shards /\ exec.record \in Record
        /\ SameRecord(exec.shard, exec.record)
        /\ exec.record.attempt <= row[exec.shard].attempt
    BY DEF SpoolInv, SpoolTypeOK, Exec, GenerationsTell, AttemptsPast, SendReport
  <1>2. /\ \A r \in Shards : RowMove(r) /\ FileMove(r) /\ FailedMove(r)
        /\ handled \subseteq handled'
    BY <1>1, AnswerMoves DEF SendReport
  <1>3. ExecMove
    BY DEF SendReport, ExecMove, ExecAt
  <1> QED
    BY <1>2, <1>3 DEF Moves, SendReport, ReplayMove

LEMMA ReplayMoves ==
  ASSUME SpoolInv, NEW l \in Replayers,
         \/ ListFiles(l) \/ EndWalk(l) \/ SendPending(l) \/ Unreachable(l)
         \/ \E s \in Shards : ReadFile(l, s)
         \/ CrashInQuarantine(l)
  PROVE  Moves
  <1>1. /\ SpoolTypeOK /\ replay[l].shard \in Shards /\ replay[l].record \in Record
        /\ replay[l].at = "sending"
             => /\ SameRecord(replay[l].shard, replay[l].record)
                /\ replay[l].record.attempt <= row[replay[l].shard].attempt
    BY DEF SpoolInv, SpoolTypeOK, Replay, GenerationsTell, AttemptsPast
  <1>2. CASE ListFiles(l) \/ EndWalk(l) \/ Unreachable(l)
    <2>1. \A s \in Shards : RowMove(s) /\ FileMove(s) /\ FailedMove(s)
      BY <1>1, <1>2, Calm DEF ListFiles, EndWalk, Unreachable
    <2>2. \A k \in Replayers : ReplayMove(k)
      BY <1>1, <1>2 DEF ListFiles, EndWalk, Unreachable, ReplayMove, ReplayAt,
         SpoolTypeOK
    <2> QED
      BY <1>2, <2>1, <2>2 DEF ListFiles, EndWalk, Unreachable, Moves, ExecMove
  <1>3. ASSUME NEW s \in Shards, ReadFile(l, s)
        PROVE  Moves
    <2>1. \A r \in Shards : RowMove(r) /\ FileMove(r) /\ FailedMove(r)
      BY <1>1, <1>3, Calm DEF ReadFile
    <2>2. \A k \in Replayers : ReplayMove(k)
      BY <1>1, <1>3 DEF ReadFile, ReplayMove, ReplayAt, SpoolTypeOK
    <2> QED
      BY <1>3, <2>1, <2>2 DEF ReadFile, Moves, ExecMove
  <1>4. CASE SendPending(l)
    <2>1. /\ \A r \in Shards : RowMove(r) /\ FileMove(r) /\ FailedMove(r)
          /\ handled \subseteq handled'
      BY <1>1, <1>4, AnswerMoves DEF SendPending
    <2>2. \A k \in Replayers : ReplayMove(k)
      BY <1>1, <1>4 DEF SendPending, ReplayMove, ReplayAt, SpoolTypeOK
    <2> QED
      BY <1>4, <2>1, <2>2 DEF SendPending, Moves, ExecMove
  <1>5. CASE CrashInQuarantine(l)
    <2>1. /\ \A r \in Shards : RowMove(r) /\ FileMove(r) /\ FailedMove(r)
          /\ handled \subseteq handled'
      BY <1>1, <1>5, AnswerMoves DEF CrashInQuarantine
    <2> QED
      BY <1>5, <2>1 DEF CrashInQuarantine, Moves, ExecMove, ExecAt, ReplayMove, ReplayAt
  <1> QED
    BY <1>2, <1>3, <1>4, <1>5

LEMMA AgentMoves ==
  ASSUME SpoolTypeOK, Crash \/ Restart \/ ProgressRefused
  PROVE  Moves
  <1>1. \A s \in Shards : FileMove(s) /\ FailedMove(s)
    BY Calm DEF Crash, Restart, ProgressRefused
  <1>2. ASSUME NEW s \in Shards
        PROVE  RowMove(s)
    <2>1. row[s] \in RowType /\ row[s].attempt \in Int
      BY RowsOrder DEF SpoolTypeOK
    <2>2. CASE Crash \/ ProgressRefused
      BY <2>1, <2>2 DEF Crash, ProgressRefused, RowMove
    <2>3. CASE Restart
      <3>1. row'[s] = row[s]
            \/ row'[s] = [row[s] EXCEPT !.ours = FALSE, !.status = "claimable"]
        BY <2>3 DEF Restart
      <3>2. row'[s].attempt = row[s].attempt /\ (row'[s].ours => row[s].ours)
        BY <2>1, <3>1 DEF RowType
      <3> QED
        BY <2>1, <3>2 DEF RowMove
    <2> QED
      BY <2>2, <2>3
  <1>3. ExecMove
    <2>1. exec' = ExecAt("down") \/ exec' = ExecAt("idle")
      BY DEF Crash, Restart, ProgressRefused
    <2> QED
      BY <2>1 DEF ExecMove, ExecAt
  <1>4. \A l \in Replayers : ReplayMove(l)
    <2>1. CASE Crash
      BY <2>1 DEF Crash, ReplayMove, ReplayAt
    <2>2. CASE Restart \/ ProgressRefused
      BY <2>2 DEF Restart, ProgressRefused, ReplayMove
    <2> QED
      BY <2>1, <2>2
  <1>5. handled \subseteq handled'
    BY DEF Crash, Restart, ProgressRefused
  <1> QED
    BY <1>1, <1>2, <1>3, <1>4, <1>5 DEF Moves

LEMMA EveryStepMoves ==
  ASSUME SpoolInv, [SpoolNext]_spoolVars
  PROVE  Moves
  <1>1. SpoolTypeOK
    BY DEF SpoolInv
  <1>2. CASE UNCHANGED spoolVars
    BY <1>1, <1>2, Calm DEF spoolVars, Moves, ExecMove, ReplayMove
  <1> QED
    BY <1>1, <1>2, ControlMoves, WriteMoves, SendMoves, ReplayMoves, AgentMoves
       DEF SpoolNext

-----------------------------------------------------------------------------
(* The moves keep the invariant.                                           *)

LEMMA FreshTells ==
  ASSUME SpoolInv, Moves
  PROVE  GenerationsTell'
  <1>1. ASSUME exec'.at = "sending"
        PROVE  SameRecord(exec.shard, exec.record)'
    <2>1. CASE exec' = exec
      <3>1. exec.shard \in Shards /\ SameRecord(exec.shard, exec.record)
        BY <1>1, <2>1 DEF SpoolInv, SpoolTypeOK, Exec, GenerationsTell
      <3>2. FileMove(exec.shard) /\ exec.at # "running"
        BY <1>1, <2>1, <3>1 DEF Moves
      <3> QED
        BY <2>1, <3>1, <3>2 DEF FileMove, SameRecord
    <2>2. CASE exec' # exec
      BY <1>1, <2>2 DEF Moves, ExecMove, SameRecord
    <2> QED
      BY <2>1, <2>2
  <1>2. ASSUME NEW l \in Replayers, replay'[l].at = "sending"
        PROVE  SameRecord(replay[l].shard, replay[l].record)'
    <2>1. CASE replay'[l] = replay[l]
      <3>1. /\ replay[l].shard \in Shards
            /\ SameRecord(replay[l].shard, replay[l].record)
        BY <1>2, <2>1 DEF SpoolInv, SpoolTypeOK, Replay, GenerationsTell
      <3>2. FileMove(replay[l].shard)
        BY <3>1 DEF Moves
      <3>3. replay[l].record.gen \in InUse(replay[l].shard)
        BY DEF InUse
      <3> QED
        BY <2>1, <3>1, <3>2, <3>3 DEF FileMove, SameRecord
    <2>2. CASE replay'[l] # replay[l]
      BY <1>2, <2>2 DEF Moves, ReplayMove, SameRecord
    <2> QED
      BY <2>1, <2>2
  <1> QED
    BY <1>1, <1>2 DEF GenerationsTell

LEMMA PastStays ==
  ASSUME SpoolInv, SpoolTypeOK', Moves
  PROVE  AttemptsPast'
  <1>1. SpoolTypeOK
    BY DEF SpoolInv
  <1>2. \A s \in Shards : row[s].attempt \in Nat /\ row'[s].attempt \in Nat
    BY <1>1 DEF SpoolTypeOK, RowType, Attempts
  <1>3. ASSUME NEW s \in Shards
        PROVE  file'[s].attempt <= row'[s].attempt
    <2>1. RowMove(s) /\ FileMove(s) /\ file[s].attempt <= row[s].attempt
      BY DEF Moves, SpoolInv, AttemptsPast
    <2>2. exec.shard = s => exec.record.attempt <= row[s].attempt
      BY DEF SpoolInv, AttemptsPast
    <2> QED
      BY <1>1, <1>2, <2>1, <2>2, RowsOrder DEF RowMove, FileMove, NoRecord
  <1>4. exec'.record.attempt <= row'[exec'.shard].attempt
    <2>1. exec'.shard \in Shards /\ RowMove(exec'.shard) /\ ExecMove
      BY DEF SpoolTypeOK, Exec, Moves
    <2>2. exec.record.attempt <= row[exec.shard].attempt
      BY DEF SpoolInv, AttemptsPast
    <2> QED
      BY <1>1, <1>2, <2>1, <2>2, RowsOrder DEF ExecMove, RowMove, NoRecord
  <1>5. ASSUME NEW l \in Replayers
        PROVE  replay'[l].record.attempt <= row'[replay'[l].shard].attempt
    <2>1. /\ replay'[l].shard \in Shards /\ RowMove(replay'[l].shard)
          /\ ReplayMove(l)
      BY DEF SpoolTypeOK, Replay, Moves
    <2>2. replay[l].record.attempt <= row[replay[l].shard].attempt
      BY DEF SpoolInv, AttemptsPast
    <2> QED
      BY <1>1, <1>2, <1>3, <2>1, <2>2, RowsOrder DEF ReplayMove, RowMove, NoRecord
  <1> QED
    BY <1>3, <1>4, <1>5 DEF AttemptsPast

LEMMA AheadStays ==
  ASSUME SpoolInv, SpoolTypeOK', Moves
  PROVE  RunningIsAhead'
  <1>1. /\ SpoolTypeOK /\ exec.shard \in Shards /\ exec'.shard \in Shards
        /\ ExecMove /\ FileMove(exec.shard)
    BY DEF SpoolInv, SpoolTypeOK, Exec, Moves
  <1>2. CASE exec' = exec
    <2>1. CASE exec.at = "running"
      BY <1>1, <1>2, <2>1 DEF SpoolInv, RunningIsAhead, FileMove, NoRecord
    <2>2. CASE exec.at # "running"
      BY <1>2, <2>2 DEF SpoolInv, RunningIsAhead
    <2> QED
      BY <2>1, <2>2
  <1>3. CASE exec'.at = "running" /\ exec' # exec
    <2>1. /\ file' = file /\ exec'.record.attempt > row[exec'.shard].attempt
      BY <1>1, <1>3 DEF ExecMove
    <2>2. file[exec'.shard].attempt <= row[exec'.shard].attempt
      BY <1>1 DEF SpoolInv, AttemptsPast
    <2>3. /\ row[exec'.shard].attempt \in Nat /\ file[exec'.shard].attempt \in Nat
          /\ exec'.record.attempt \in Nat
      <3>1. /\ row[exec'.shard] \in RowType /\ file[exec'.shard] \in Record
            /\ exec'.record \in Record
        BY <1>1 DEF SpoolTypeOK, Exec
      <3> QED
        BY <3>1, RecordTypes DEF RowType, Attempts
    <2> QED
      BY <1>3, <2>1, <2>2, <2>3 DEF RunningIsAhead
  <1>4. CASE exec'.at = "sending" /\ exec' # exec
    BY <1>1, <1>4 DEF ExecMove, RunningIsAhead
  <1> QED
    BY <1>1, <1>2, <1>3, <1>4 DEF RunningIsAhead

LEMMA BackedStays ==
  ASSUME SpoolInv, Moves
  PROVE  SendingIsBacked'
  <1>1. CASE exec' = exec /\ exec.at = "sending"
    <2>1. /\ exec.shard \in Shards /\ FileMove(exec.shard)
          /\ exec.record.kind = "terminal" /\ handled \subseteq handled'
      BY <1>1 DEF SpoolInv, SpoolTypeOK, Exec, Moves, RunningIsAhead
    <2> QED
      BY <1>1, <2>1 DEF SpoolInv, SendingIsBacked, FileMove
  <1>2. CASE exec' = exec /\ exec.at # "sending"
    BY <1>2 DEF SendingIsBacked
  <1>3. CASE exec' # exec
    BY <1>3 DEF Moves, ExecMove, SendingIsBacked
  <1> QED
    BY <1>1, <1>2, <1>3

LEMMA SupersededStays ==
  ASSUME SpoolInv, SpoolTypeOK', Moves
  PROVE  QuarantinedIsSuperseded'
  <1> SUFFICES ASSUME NEW s \in Shards, failed'[s] # NoRecord
               PROVE  \/ row'[s].attempt > failed'[s].attempt
                      \/ row'[s].attempt = failed'[s].attempt /\ ~row'[s].ours
    BY DEF QuarantinedIsSuperseded
  <1>1. RowMove(s) /\ FailedMove(s)
    BY DEF Moves
  <1>2. /\ row[s].attempt \in Nat /\ row'[s].attempt \in Nat
        /\ failed[s].attempt \in Nat /\ failed'[s].attempt \in Nat
    <2>1. /\ row[s] \in RowType /\ row'[s] \in RowType
          /\ failed[s] \in Record /\ failed'[s] \in Record
      BY DEF SpoolInv, SpoolTypeOK
    <2> QED
      BY <2>1, RecordTypes DEF RowType, Attempts
  <1>3. CASE failed'[s] = failed[s]
    BY <1>1, <1>2, <1>3 DEF SpoolInv, QuarantinedIsSuperseded, RowMove
  <1>4. CASE failed'[s] # failed[s]
    BY <1>1, <1>2, <1>4 DEF FailedMove
  <1> QED
    BY <1>3, <1>4

LEMMA SpoolStep ==
  ASSUME SpoolInv, [SpoolNext]_spoolVars
  PROVE  SpoolInv'
  <1>1. SpoolTypeOK'
    BY TypesStep DEF SpoolInv
  <1> QED
    BY <1>1, EveryStepMoves, FreshTells, PastStays, AheadStays, BackedStays,
       SupersededStays DEF SpoolInv

LEMMA SpoolStart == SpoolInit => SpoolInv
  <1> SUFFICES ASSUME SpoolInit
               PROVE  SpoolInv
    OBVIOUS
  <1>1. SpoolTypeOK
    <2>1. row \in [Shards -> RowType]
      BY DEF SpoolInit, RowType, Attempts
    <2> QED
      BY <2>1, NoRecordType, LaneTypes DEF SpoolInit, SpoolTypeOK
  <1>2. GenerationsTell /\ RunningIsAhead /\ SendingIsBacked /\ QuarantinedIsSuperseded
    BY DEF SpoolInit, GenerationsTell, RunningIsAhead, SendingIsBacked,
       QuarantinedIsSuperseded, ExecAt, ReplayAt
  <1>3. AttemptsPast
    <2>1. AnyShard \in Shards
      BY DEF AnyShard
    <2> QED
      BY <2>1 DEF SpoolInit, AttemptsPast, ExecAt, ReplayAt, NoRecord
  <1> QED
    BY <1>1, <1>2, <1>3 DEF SpoolInv

\* The inductive invariant of the spool: a record that is being sent is told
\* from every other record of its shard by its generation, and attempts only
\* move forward.
THEOREM SpoolHolds == SpoolSpec => []SpoolInv
  <1> QED
    BY SpoolStart, SpoolStep, PTL DEF SpoolSpec

\* What a lane sends is on disk or handled, and what was given up was refused.
THEOREM FilesAlwaysBackReports == SpoolSpec => []FilesBackReports
  <1>1. SpoolInv => FilesBackReports
    BY DEF SpoolInv, FilesBackReports
  <1> QED
    BY <1>1, SpoolHolds, PTL

\* However the lanes interleave and whenever the agent dies, a terminal report
\* leaves its file only handled, or for the report of a later attempt.
THEOREM ReportAlwaysKept == SpoolSpec => ReportKept
  <1> DEFINE Kept == \A s \in Shards :
               /\ file[s].kind = "terminal"
               /\ file'[s] # file[s]
               => \/ <<s, file[s].attempt>> \in handled'
                  \/ file'[s].kind = "terminal" /\ file'[s].attempt > file[s].attempt
  <1>1. SpoolInv /\ [SpoolNext]_spoolVars => [Kept]_spoolVars
    <2> SUFFICES ASSUME SpoolInv, [SpoolNext]_spoolVars,
                        NEW s \in Shards, file[s].kind = "terminal", file'[s] # file[s]
                 PROVE  \/ <<s, file[s].attempt>> \in handled'
                        \/ /\ file'[s].kind = "terminal"
                           /\ file'[s].attempt > file[s].attempt
      OBVIOUS
    <2>1. FileMove(s) /\ SpoolTypeOK
      BY EveryStepMoves DEF Moves, SpoolInv
    <2>2. exec.at = "running" /\ exec.shard = s
            => exec.record.attempt > file[s].attempt
      BY <2>1, RowsOrder DEF SpoolInv, RunningIsAhead
    <2> QED
      BY <2>1, <2>2 DEF FileMove
  <1> QED
    BY <1>1, SpoolHolds, PTL DEF SpoolSpec, ReportKept
=============================================================================
