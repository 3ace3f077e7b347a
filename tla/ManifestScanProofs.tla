------------------------- MODULE ManifestScanProofs -------------------------
(***************************************************************************)
(* That the manifest of ManifestScan holds the content of the units that   *)
(* succeeded, once, and is frozen neither late nor early, for every tree   *)
(* of directories and every value of the constants.                        *)
(***************************************************************************)
EXTENDS ManifestScan, TLAPS

USE TreeAssumption, ServersAssumption, MaxInterruptsAssumption

\* What a lane works on is its unit, unless another attempt of it began.
TasksOwned ==
  \A w \in Servers :
    task[w].at # "idle" =>
      LET row == unit[task[w].unit]
      IN  /\ w \in up
          /\ row.status # "absent" /\ task[w].attempt <= row.attempts
          /\ row.status = "running" /\ row.attempts = task[w].attempt
               => row.owner = w

\* Every attempt but the first of a unit costs an interrupt, and so does one
\* that is given up.
AttemptsPaid ==
  \A u \in Units :
    /\ unit[u].attempts <= interrupts + 1
    /\ \/ unit[u].status \in ReclaimableUnit
       \/ unit[u].status = "running" /\ (unit[u].expired \/ ~Scanning(u))
       => unit[u].attempts <= interrupts

\* Units appear with the content of their parent, and have been asked for.
TreeFollows ==
  /\ unit[Root].status # "absent"
  /\ \A u \in Units :
       /\ unit[u].status = "absent" => unit[u].attempts = 0
       /\ unit[u].status = "succeeded"
            => \A v \in Children[u] : unit[v].status # "absent"

\* A stop shows in the status of the job, and only a stop stops a unit.
StopShows ==
  /\ job.stop => job.status \notin {"queued", "running"}
  /\ (\E u \in Units : unit[u].status = "stopped") => job.stop

\* The inductive invariant.
ScanInv ==
  /\ ScanTypeOK
  /\ MaterialisedOnce /\ ReadyWhenComplete
  /\ TasksOwned /\ AttemptsPaid /\ TreeFollows /\ StopShows

-----------------------------------------------------------------------------
(* How a step may change the units, the lanes and the job.                 *)

\* A server claims a unit for its next attempt.
Claims(w, u) ==
  /\ job.status \in {"queued", "running"}
  /\ \/ unit[u].status \in ReclaimableUnit
     \/ unit[u].status = "running" /\ unit[u].expired
  /\ unit'[u] = ClaimedBy(unit[u], w)

\* Its lane has the claim, or the answer was lost.
ClaimKnown(w, u) ==
  \/ interrupts' > interrupts
  \/ /\ w \in up' /\ task'[w].at # "idle"
     /\ task'[w].unit = u /\ task'[w].attempt = unit'[u].attempts

UnitMove(u) ==
  \/ unit'[u] = unit[u]
  \/ unit[u].status = "absent" /\ unit'[u] = NewUnit("pending")
  \/ \E w \in Servers : Claims(w, u) /\ ClaimKnown(w, u)
  \/ /\ unit[u].status = "running" /\ unit'[u].attempts = unit[u].attempts
     /\ \/ unit'[u].status = "stale" /\ (unit[u].expired \/ unit[u].owner \notin up)
        \/ unit'[u].status \in {"succeeded", "failed"}
        \/ /\ unit'[u] = [unit[u] EXCEPT !.expired = TRUE]
           /\ interrupts' > interrupts \/ ~Scanning(u)
  \/ /\ unit[u].status \in ReclaimableUnit /\ unit'[u].status = "stopped"
     /\ unit'[u].attempts = unit[u].attempts /\ job'.stop

\* A lane lets go of its unit only when the attempt is over or by an interrupt.
GivenUp(w) ==
  \/ interrupts' > interrupts
  \/ unit'[task[w].unit].status # "running"
  \/ unit'[task[w].unit].attempts # task[w].attempt

LaneMove(w) ==
  \/ task'[w] = task[w] /\ (w \in up => w \in up')
  \/ task'[w].at = "idle" /\ (task[w].at # "idle" => GivenUp(w))
  \/ /\ task[w].at # "idle" /\ w \in up' /\ task'[w].at # "idle"
     /\ task'[w].unit = task[w].unit /\ task'[w].attempt = task[w].attempt
  \/ /\ task[w].at = "idle" /\ w \in up'
     /\ Claims(w, task'[w].unit)
     /\ task'[w].attempt = unit'[task'[w].unit].attempts

\* A stop is final, and a job is never open again.
JobMove ==
  /\ job.stop => job'.stop
  /\ job'.status \in {"queued", "running"}
       => job.status \in {"queued", "running"} /\ job'.stop = job.stop

\* Nothing is added to the manifest, and it is not frozen.
Unmaterialised ==
  /\ manifest'.content = manifest.content
  /\ \/ manifest'.status = manifest.status
     \/ manifest'.status = "failed" /\ \E u \in Units : unit'[u].status = "failed"
  /\ \A u \in Units : /\ unit'[u].status = "succeeded" <=> unit[u].status = "succeeded"
                      /\ unit'[u].status = "absent" <=> unit[u].status = "absent"
  /\ \A s \in Shards : shard'[s].status = "absent" <=> shard[s].status = "absent"

\* The content of a unit is added.
Materialised(u) ==
  /\ unit[u].status = "running"
  /\ \A v \in Units :
       \/ v = u /\ unit'[v].status = "succeeded"
       \/ /\ v # u /\ v \in Children[u] /\ unit[v].status = "absent"
          /\ unit'[v].status = "pending"
       \/ /\ v # u /\ ~(v \in Children[u] /\ unit[v].status = "absent")
          /\ unit'[v] = unit[v]
  /\ \A s \in Shards : IF s \in Found[u] THEN shard'[s].status = "pending"
                                         ELSE shard'[s] = shard[s]
  /\ manifest'.content = [manifest.content EXCEPT ![u] = @ + 1]
  /\ manifest'.status = FrozenStatus(manifest.status, unit')

Moves ==
  /\ \A u \in Units : UnitMove(u)
  /\ \A w \in Servers : LaneMove(w)
  /\ JobMove
  /\ interrupts' >= interrupts
  /\ Unmaterialised \/ \E u \in Units : Materialised(u)

-----------------------------------------------------------------------------
(* Types.                                                                  *)

LEMMA RowTypes ==
  ASSUME ScanTypeOK
  PROVE  /\ \A u \in Units :
              /\ unit[u] \in UnitRow
              /\ unit[u].attempts \in Nat /\ unit[u].attempts <= MaxInterrupts + 1
         /\ \A w \in Servers : task[w] \in Task /\ task[w].unit \in Units
                                 /\ task[w].attempt \in AttemptNumbers
         /\ interrupts \in Nat /\ interrupts <= MaxInterrupts
  BY DEF ScanTypeOK, UnitRow, Task, AttemptNumbers

\* A reclaimed or ended unit keeps its attempts.
LEMMA StaleRow ==
  ASSUME NEW row \in UnitRow
  PROVE  /\ Stale(row) \in UnitRow
         /\ Stale(row).status = "stale" /\ Stale(row).owner = row.owner
         /\ Stale(row).attempts = row.attempts
  BY DEF Stale, UnitRow, ActiveUnit

LEMMA EndedRow ==
  ASSUME NEW row \in UnitRow, NEW status \in SettledUnit
  PROVE  /\ EndedAs(row, status) \in UnitRow
         /\ EndedAs(row, status).status = status
         /\ EndedAs(row, status).attempts = row.attempts
  BY DEF EndedAs, UnitRow

LEMMA ExpiredRow ==
  ASSUME NEW row \in UnitRow
  PROVE  LET expired == [row EXCEPT !.expired = TRUE]
         IN  /\ expired \in UnitRow
             /\ expired.status = row.status /\ expired.owner = row.owner
             /\ expired.attempts = row.attempts /\ expired.expired
  BY DEF UnitRow

LEMMA NoTaskType == NoTask \in Task
  BY DEF NoTask, Task, AttemptNumbers

LEMMA FinalizedType ==
  ASSUME NEW row \in JobRow, NEW shards, NEW units
  PROVE  Finalized(row, shards, units) \in JobRow
         /\ Finalized(row, shards, units).stop = row.stop
         /\ \/ Finalized(row, shards, units) = row
            \/ Finalized(row, shards, units).status \in {"stopped", "failed"}
  BY DEF Finalized, JobRow, TerminalJob

\* A claim keeps the rows well typed, since a unit that is claimed has only
\* begun attempts that cost an interrupt.
LEMMA ClaimTypes ==
  ASSUME ScanInv, NEW w \in Servers, NEW u \in Units, Claim(w, u)
  PROVE  /\ Claims(w, u)
         /\ \A v \in Units \ {u} :
              \/ unit'[v] = unit[v]
              \/ unit[v].status = "running" /\ unit[v].expired
                   /\ unit'[v] = Stale(unit[v])
         /\ unit' \in [Units -> UnitRow]
         /\ \A v \in Units : unit'[v].status = "running" => unit'[v].owner # NoServer
         /\ job' \in JobRow /\ JobMove
  <1>1. ScanTypeOK /\ StopShows
    BY DEF ScanInv
  <1>2. ReconciledUnits \in [Units -> UnitRow]
    BY <1>1, StaleRow DEF ScanTypeOK, ReconciledUnits
  <1>3. PICK rows \in {ReconciledUnits, unit} :
          /\ unit' = [rows EXCEPT ![u] = ClaimedBy(@, w)]
          /\ rows[u].status \in ReclaimableUnit
          /\ job.status \in {"queued", "running"}
    BY DEF Claim, ClaimableUnits, ReclaimableUnit
  <1>4. \A v \in Units :
          \/ rows[v] = unit[v]
          \/ unit[v].status = "running" /\ unit[v].expired
               /\ rows[v] = Stale(unit[v])
    BY <1>3 DEF ReconciledUnits
  <1>5. rows \in [Units -> UnitRow]
    BY <1>1, <1>2, <1>3 DEF ScanTypeOK
  <1>6. unit'[u] = ClaimedBy(unit[u], w) /\ Claims(w, u)
    <2>1. rows[u].attempts = unit[u].attempts
      BY <1>1, <1>4, StaleRow DEF ScanTypeOK
    <2>2. unit'[u] = ClaimedBy(rows[u], w)
      BY <1>3, <1>5
    <2>3. \/ unit[u].status \in ReclaimableUnit
          \/ unit[u].status = "running" /\ unit[u].expired
      BY <1>3, <1>4
    <2> QED
      BY <1>3, <2>1, <2>2, <2>3 DEF Claims, ClaimedBy
  <1>7. \A v \in Units \ {u} : unit'[v] = rows[v]
    BY <1>3, <1>5
  <1>8. unit[u].attempts \in Nat /\ unit[u].attempts <= interrupts
    BY <1>1, <1>6, RowTypes DEF ScanInv, AttemptsPaid, Claims
  <1>9. ClaimedBy(unit[u], w) \in UnitRow /\ ClaimedBy(unit[u], w).owner = w
    BY <1>1, <1>8, RowTypes DEF ClaimedBy, UnitRow, ActiveUnit, AttemptNumbers
  <1>10. unit' \in [Units -> UnitRow]
    BY <1>3, <1>5, <1>6, <1>7, <1>9
  <1>11. \A v \in Units : unit'[v].status = "running" => unit'[v].owner # NoServer
    BY <1>1, <1>4, <1>6, <1>7, <1>9, StaleRow DEF ScanTypeOK
  <1>12. job' \in JobRow /\ JobMove
    BY <1>1, <1>3 DEF Claim, ScanTypeOK, JobRow, JobMove, StopShows
  <1> QED
    BY <1>4, <1>6, <1>7, <1>10, <1>11, <1>12

-----------------------------------------------------------------------------
(* Every step keeps the types and is one of the moves.                     *)

\* A step that changes neither units, lanes nor what they depend on.
LEMMA QuietMoves ==
  ASSUME ScanTypeOK, UNCHANGED <<manifest, unit, task, up, interrupts>>,
         \A s \in Shards : shard'[s].status = "absent" <=> shard[s].status = "absent",
         JobMove
  PROVE  Moves
  BY RowTypes DEF Moves, UnitMove, LaneMove, Unmaterialised

LEMMA ClaimStep ==
  ASSUME ScanInv, NEW w \in Servers, NEW u \in Units,
         ClaimUnit(w, u) \/ ClaimUnanswered(w, u)
  PROVE  ScanTypeOK' /\ Moves
  <1>1. /\ ScanTypeOK /\ w \in up /\ task[w].at = "idle" /\ Claim(w, u)
        /\ UNCHANGED <<manifest, shard, wire, loop, up>>
    BY DEF ScanInv, ClaimUnit, ClaimUnanswered, Claim
  <1>2. /\ Claims(w, u)
        /\ \A v \in Units \ {u} :
             \/ unit'[v] = unit[v]
             \/ unit[v].status = "running" /\ unit[v].expired
                  /\ unit'[v] = Stale(unit[v])
        /\ unit' \in [Units -> UnitRow]
        /\ \A v \in Units : unit'[v].status = "running" => unit'[v].owner # NoServer
        /\ job' \in JobRow /\ JobMove
    BY <1>1, ClaimTypes
  <1>3. \/ UNCHANGED interrupts
           /\ task' = [task EXCEPT ![w] = [at |-> "scanning", unit |-> u,
                                           attempt |-> unit'[u].attempts]]
        \/ task' = task /\ interrupts' = interrupts + 1 /\ interrupts < MaxInterrupts
    BY DEF ClaimUnit, ClaimUnanswered, Interrupt
  <1>4. ScanTypeOK'
    <2>1. unit'[u].attempts \in AttemptNumbers
      BY <1>2 DEF UnitRow
    <2>2. [at |-> "scanning", unit |-> u, attempt |-> unit'[u].attempts] \in Task
      BY <2>1 DEF Task
    <2>3. task' \in [Servers -> Task] /\ interrupts' \in 0 .. MaxInterrupts
      BY <1>1, <1>3, <2>2 DEF ScanTypeOK
    <2> QED
      BY <1>1, <1>2, <2>3 DEF ScanTypeOK
  <1>5. interrupts' >= interrupts
    BY <1>1, <1>3, RowTypes
  <1>6. ASSUME NEW v \in Units
        PROVE  UnitMove(v)
    <2>1. ClaimKnown(w, u)
      BY <1>1, <1>3, RowTypes DEF ClaimKnown, ScanTypeOK
    <2>2. CASE v = u
      BY <1>2, <2>1, <2>2 DEF UnitMove
    <2>3. CASE v # u
      BY <1>1, <1>2, <2>3, RowTypes, StaleRow DEF UnitMove
    <2> QED
      BY <2>2, <2>3
  <1>7. ASSUME NEW k \in Servers
        PROVE  LaneMove(k)
    BY <1>1, <1>2, <1>3 DEF LaneMove, ScanTypeOK
  <1>8. Unmaterialised
    <2>1. ASSUME NEW v \in Units
          PROVE  /\ unit'[v].status = "succeeded" <=> unit[v].status = "succeeded"
                 /\ unit'[v].status = "absent" <=> unit[v].status = "absent"
      <3>1. CASE v = u
        BY <1>2, <3>1 DEF Claims, ClaimedBy, ReclaimableUnit
      <3>2. CASE v # u
        BY <1>1, <1>2, <3>2, RowTypes, StaleRow
      <3> QED
        BY <3>1, <3>2
    <2> QED
      BY <1>1, <2>1 DEF Unmaterialised
  <1> QED
    BY <1>2, <1>4, <1>5, <1>6, <1>7, <1>8 DEF Moves

LEMMA LaneTypes ==
  ASSUME ScanTypeOK, NEW w \in Servers, NEW rest \in SUBSET Request
  PROVE  /\ \A type \in {"complete", "fail"} : Send(w, type, rest) =>
              /\ task' \in [Servers -> Task] /\ wire' \subseteq Request
              /\ task'[w].at = type /\ task'[w].unit = task[w].unit
              /\ task'[w].attempt = task[w].attempt
              /\ \A k \in Servers \ {w} : task'[k] = task[k]
         /\ Idle(w, rest) =>
              /\ task' \in [Servers -> Task] /\ wire' \subseteq Request
              /\ task'[w].at = "idle"
              /\ \A k \in Servers \ {w} : task'[k] = task[k]
  <1>1. task[w] \in Task /\ task[w].unit \in Units /\ task[w].attempt \in AttemptNumbers
    BY RowTypes
  <1>2. \A type \in {"complete", "fail"} :
          <<type, w, task[w].unit, task[w].attempt>> \in Request
    BY <1>1 DEF Request
  <1>3. \A type \in {"complete", "fail"} : [task[w] EXCEPT !.at = type] \in Task
    BY <1>1 DEF Task
  <1>4. ASSUME NEW type \in {"complete", "fail"}, Send(w, type, rest)
        PROVE  /\ task' \in [Servers -> Task] /\ wire' \subseteq Request
               /\ task'[w].at = type /\ task'[w].unit = task[w].unit
               /\ task'[w].attempt = task[w].attempt
               /\ \A k \in Servers \ {w} : task'[k] = task[k]
    <2>1. task'[w] = [task[w] EXCEPT !.at = type]
          /\ \A k \in Servers \ {w} : task'[k] = task[k]
      BY <1>4 DEF Send, ScanTypeOK
    <2>2. task' \in [Servers -> Task] /\ wire' \subseteq Request
      BY <1>2, <1>3, <1>4 DEF Send, ScanTypeOK
    <2> QED
      BY <1>1, <2>1, <2>2 DEF Task
  <1>5. ASSUME Idle(w, rest)
        PROVE  /\ task' \in [Servers -> Task] /\ wire' \subseteq Request
               /\ task'[w].at = "idle"
               /\ \A k \in Servers \ {w} : task'[k] = task[k]
    BY <1>5, NoTaskType DEF Idle, ScanTypeOK, NoTask
  <1> QED
    BY <1>4, <1>5

LEMMA EndScanStep ==
  ASSUME ScanInv, NEW w \in Servers, EndScan(w) \/ TimeOut(w)
  PROVE  ScanTypeOK' /\ Moves
  <1>1. /\ ScanTypeOK /\ w \in up /\ task[w].at # "idle"
        /\ UNCHANGED <<job, manifest, unit, shard, loop, up>>
    BY DEF ScanInv, EndScan, TimeOut
  <1>2. /\ task' \in [Servers -> Task] /\ wire' \subseteq Request
        /\ \A k \in Servers \ {w} : task'[k] = task[k]
        /\ \/ /\ task'[w].at # "idle" /\ task'[w].unit = task[w].unit
              /\ task'[w].attempt = task[w].attempt
           \/ task'[w].at = "idle" /\ interrupts' > interrupts
        /\ interrupts' >= interrupts /\ interrupts' \in 0 .. MaxInterrupts
    <2>1. wire \in SUBSET Request
      BY <1>1 DEF ScanTypeOK
    <2>2. CASE EndScan(w)
      BY <1>1, <2>1, <2>2, LaneTypes, RowTypes DEF EndScan
    <2>3. CASE TimeOut(w)
      <3>1. interrupts' > interrupts /\ interrupts' \in 0 .. MaxInterrupts
        BY <1>1, <2>3, RowTypes DEF TimeOut, Interrupt
      <3>2. GoOn(w, wire)
        BY <2>3 DEF TimeOut
      <3>3. Send(w, "fail", wire) \/ Idle(w, wire)
        BY <3>2 DEF GoOn
      <3> QED
        BY <1>1, <2>1, <3>1, <3>3, LaneTypes, RowTypes
    <2> QED
      BY <2>2, <2>3
  <1>3. ScanTypeOK'
    BY <1>1, <1>2 DEF ScanTypeOK
  <1>4. \A k \in Servers : LaneMove(k)
    BY <1>1, <1>2 DEF LaneMove, GivenUp
  <1> QED
    BY <1>1, <1>2, <1>3, <1>4 DEF Moves, UnitMove, JobMove, Unmaterialised

\* The first report of a unit takes effect, any other changes nothing.
LEMMA HandleMoves ==
  ASSUME ScanInv, NEW type \in {"complete", "fail"}, NEW w \in Servers,
         NEW u \in Units, NEW n, Handle(type, w, u, n)
  PROVE  /\ manifest' \in ManifestRow /\ unit' \in [Units -> UnitRow]
         /\ shard' \in [Shards -> ShardRow]
         /\ \A v \in Units : unit'[v].status = "running" => unit'[v].owner # NoServer
         /\ \A v \in Units : UnitMove(v)
         /\ Unmaterialised \/ Materialised(u)
         /\ Accepted(w, u, n, DoneBy(type)) => unit'[u].status # "running"
         /\ ~Accepted(w, u, n, DoneBy(type)) => unit' = unit
  <1>1. /\ ScanTypeOK /\ unit[u] \in UnitRow
        /\ manifest \in ManifestRow /\ unit \in [Units -> UnitRow]
        /\ shard \in [Shards -> ShardRow]
        /\ \A v \in Units : unit[v].status = "running" => unit[v].owner # NoServer
        /\ Found[u] \subseteq Shards /\ Children[u] \subseteq Units
    BY DEF ScanInv, ScanTypeOK
  <1>2. CASE ~Applies(w, u, n, DoneBy(type))
    <2>1. UNCHANGED <<manifest, unit, shard>>
      BY <1>2 DEF Handle, CompleteUnit, FailUnit, DoneBy
    <2> QED
      BY <1>1, <1>2, <2>1 DEF UnitMove, Unmaterialised, Accepted, Applies, DoneBy
  <1>3. CASE type = "complete" /\ Applies(w, u, n, DoneBy(type))
    <2>1. /\ unit[u].status = "running"
          /\ unit' = [v \in Units |->
                  CASE v = u -> EndedAs(unit[u], "succeeded")
                    [] v \in Children[u] /\ unit[v].status = "absent"
                         -> NewUnit("pending")
                    [] OTHER -> unit[v]]
          /\ shard' = [s \in Shards |->
                   IF s \in Found[u] THEN NewShard("pending") ELSE shard[s]]
          /\ manifest' = [status |-> FrozenStatus(manifest.status, unit'),
                    content |-> [manifest.content EXCEPT ![u] = @ + 1]]
      BY <1>3 DEF Handle, CompleteUnit, Applies, DoneBy
    <2>2. EndedAs(unit[u], "succeeded") \in UnitRow
          /\ EndedAs(unit[u], "succeeded").status = "succeeded"
          /\ EndedAs(unit[u], "succeeded").attempts = unit[u].attempts
      BY <1>1, EndedRow DEF SettledUnit
    <2>3. NewUnit("pending") \in UnitRow /\ NewUnit("pending").status = "pending"
      BY DEF NewUnit, UnitRow, ActiveUnit, AttemptNumbers
    <2>4. NewShard("pending") \in ShardRow /\ NewShard("pending").status = "pending"
      BY DEF NewShard, ShardRow
    <2>5. unit'[u] = EndedAs(unit[u], "succeeded")
      BY <2>1
    <2>6. ASSUME NEW v \in Units, v # u
          PROVE  /\ v \in Children[u] /\ unit[v].status = "absent"
                      => unit'[v] = NewUnit("pending")
                 /\ ~(v \in Children[u] /\ unit[v].status = "absent")
                      => unit'[v] = unit[v]
      BY <2>1, <2>6
    <2>7. \A v \in Units : UnitMove(v)
      BY <1>1, <2>1, <2>2, <2>5, <2>6 DEF UnitMove
    <2>8. unit' \in [Units -> UnitRow]
      <3>1. \A v \in Units : unit'[v] \in UnitRow
        BY <1>1, <2>2, <2>3, <2>5, <2>6
      <3> QED
        BY <2>1, <3>1
    <2>9. shard' \in [Shards -> ShardRow]
      BY <1>1, <2>1, <2>4
    <2>10. manifest' \in ManifestRow
      <3>1. manifest.content[u] = 0
        BY <2>1 DEF ScanInv, MaterialisedOnce
      <3>2. [manifest.content EXCEPT ![u] = @ + 1] \in [Units -> 0 .. 2]
        BY <1>1, <3>1 DEF ManifestRow
      <3>3. FrozenStatus(manifest.status, unit') \in {"scanning", "ready", "failed"}
        BY <1>1 DEF FrozenStatus, ManifestRow
      <3> QED
        BY <2>1, <3>2, <3>3 DEF ManifestRow
    <2>11. Materialised(u)
      <3>1. \A s \in Shards : IF s \in Found[u] THEN shard'[s].status = "pending"
                                               ELSE shard'[s] = shard[s]
        BY <2>1, <2>4
      <3> QED
        BY <2>1, <2>2, <2>3, <2>5, <2>6, <3>1 DEF Materialised
    <2>12. \A v \in Units : unit'[v].status = "running" => unit'[v].owner # NoServer
      BY <1>1, <2>2, <2>3, <2>5, <2>6
    <2>13. Accepted(w, u, n, DoneBy(type))
      BY <1>3 DEF Applies, Accepted
    <2> QED
      BY <2>2, <2>5, <2>7, <2>8, <2>9, <2>10, <2>11, <2>12, <2>13
  <1>4. CASE type = "fail" /\ Applies(w, u, n, DoneBy(type))
    <2>1. /\ unit[u].status = "running"
          /\ unit' = [unit EXCEPT ![u] = EndedAs(@, "failed")]
          /\ manifest' = [manifest EXCEPT !.status = FailedStatus(@, unit')]
          /\ shard' = shard
      BY <1>4 DEF Handle, FailUnit, Applies, DoneBy
    <2>2. EndedAs(unit[u], "failed") \in UnitRow
          /\ EndedAs(unit[u], "failed").status = "failed"
          /\ EndedAs(unit[u], "failed").attempts = unit[u].attempts
      BY <1>1, EndedRow DEF SettledUnit
    <2>3. /\ unit'[u] = EndedAs(unit[u], "failed")
          /\ \A v \in Units \ {u} : unit'[v] = unit[v]
      BY <1>1, <2>1
    <2>4. manifest' \in ManifestRow
      BY <1>1, <2>1 DEF ManifestRow, FailedStatus
    <2>5. unit' \in [Units -> UnitRow]
      BY <1>1, <2>1, <2>2
    <2>6. Unmaterialised
      <3>1. manifest'.content = manifest.content
            /\ manifest'.status \in {manifest.status, "failed"}
        BY <1>1, <2>1 DEF ManifestRow, FailedStatus
      <3> QED
        BY <2>1, <2>2, <2>3, <3>1 DEF Unmaterialised
    <2>7. \A v \in Units : UnitMove(v)
      BY <2>1, <2>2, <2>3 DEF UnitMove
    <2>8. \A v \in Units : unit'[v].status = "running" => unit'[v].owner # NoServer
      BY <1>1, <2>2, <2>3
    <2>9. Accepted(w, u, n, DoneBy(type))
      BY <1>4 DEF Applies, Accepted
    <2> QED
      BY <1>1, <2>1, <2>2, <2>3, <2>4, <2>5, <2>6, <2>7, <2>8, <2>9
  <1> QED
    BY <1>2, <1>3, <1>4

LEMMA DeliverStep ==
  ASSUME ScanInv, NEW type \in {"complete", "fail"}, NEW w \in Servers,
         NEW u \in Units, NEW n \in AttemptNumbers,
         DeliverAwaited(type, w, u, n) \/ DeliverLate(type, w, u, n)
  PROVE  ScanTypeOK' /\ Moves
  <1> DEFINE rest == wire \ {<<type, w, u, n>>}
             accepted == Accepted(w, u, n, DoneBy(type))
  <1>1. ScanTypeOK /\ TasksOwned /\ rest \in SUBSET Request
    BY DEF ScanInv, ScanTypeOK
  <1>2. Handle(type, w, u, n) /\ UNCHANGED <<job, loop, up>>
    BY DEF DeliverAwaited, DeliverLate
  <1> HIDE DEF rest
  <1>3. /\ manifest' \in ManifestRow /\ unit' \in [Units -> UnitRow]
        /\ shard' \in [Shards -> ShardRow]
        /\ \A v \in Units : unit'[v].status = "running" => unit'[v].owner # NoServer
        /\ \A v \in Units : UnitMove(v)
        /\ Unmaterialised \/ Materialised(u)
        /\ accepted => unit'[u].status # "running"
        /\ ~accepted => unit' = unit
    BY <1>2, HandleMoves
  <1>4. /\ task' \in [Servers -> Task] /\ wire' \subseteq Request
        /\ interrupts' >= interrupts /\ interrupts' \in 0 .. MaxInterrupts
        /\ \A k \in Servers : LaneMove(k)
    <2>1. CASE DeliverLate(type, w, u, n)
      BY <1>1, <2>1, RowTypes DEF DeliverLate, ScanTypeOK, LaneMove, rest
    <2>2. CASE DeliverAwaited(type, w, u, n)
      <3>1. /\ Answer(type, w, u, n) /\ w \in up
            /\ task[w].at = type /\ task[w].unit = u /\ task[w].attempt = n
        BY <2>2 DEF DeliverAwaited, Awaited
      <3>2. /\ interrupts' >= interrupts /\ interrupts' \in 0 .. MaxInterrupts
            /\ \/ accepted /\ Idle(w, rest)
               \/ ~accepted /\ GoOn(w, rest)
               \/ interrupts' > interrupts /\ GoOn(w, rest)
        BY <1>1, <3>1, RowTypes DEF Answer, Interrupt, rest
      <3> DEFINE over == \/ accepted
                         \/ interrupts' > interrupts
                         \/ ~accepted /\ type = "fail"
      <3>3. \/ Send(w, "fail", rest)
            \/ over /\ Idle(w, rest)
        <4>1. CASE type = "complete"
          BY <3>1, <3>2, <4>1 DEF GoOn
        <4>2. CASE type = "fail"
          BY <3>1, <3>2, <4>2 DEF GoOn
        <4> QED
          BY <4>1, <4>2
      <3>4. over => GivenUp(w)
        <4>1. unit[u].status = "running" /\ unit[u].attempts = n => unit[u].owner = w
          BY <1>1, <3>1 DEF TasksOwned
        <4>2. ~accepted /\ type = "fail" =>
                unit'[u].status # "running" \/ unit'[u].attempts # n
          BY <1>3, <4>1 DEF Accepted
        <4> QED
          BY <1>3, <3>1, <4>2 DEF GivenUp
      <3>6. CASE Send(w, "fail", rest)
        BY <1>1, <1>2, <3>1, <3>2, <3>6, LaneTypes DEF LaneMove
      <3>7. CASE over /\ Idle(w, rest)
        BY <1>1, <1>2, <3>1, <3>2, <3>4, <3>7, LaneTypes DEF LaneMove
      <3> QED
        BY <3>3, <3>6, <3>7
    <2> QED
      BY <2>1, <2>2
  <1>5. ScanTypeOK'
    BY <1>1, <1>2, <1>3, <1>4 DEF ScanTypeOK
  <1>6. JobMove
    BY <1>2 DEF JobMove
  <1> QED
    BY <1>3, <1>4, <1>5, <1>6 DEF Moves

LEMMA LoopStep ==
  ASSUME ScanInv, NEW w \in Servers,
         \/ Join(w) \/ LeaveLoop(w)
         \/ \E s \in Shards : TakeShard(w, s) \/ EndShard(w, s)
  PROVE  ScanTypeOK' /\ Moves
  <1>1. /\ ScanTypeOK /\ job \in JobRow /\ shard \in [Shards -> ShardRow]
        /\ loop \subseteq up
    BY DEF ScanInv, ScanTypeOK
  <1>2. CASE Join(w)
    <2>1. ScanTypeOK'
      BY <1>1, <1>2 DEF Join, ScanTypeOK
    <2> QED
      BY <1>1, <1>2, <2>1, QuietMoves DEF Join, JobMove
  <1>3. CASE LeaveLoop(w)
    <2>1. job' = job \/ job' = [job EXCEPT !.status = LoopVerdict]
      BY <1>3 DEF LeaveLoop
    <2>2. LoopVerdict \in TerminalJob
      BY DEF LoopVerdict, TerminalJob
    <2>3. job' \in JobRow /\ JobMove
      BY <1>1, <2>1, <2>2 DEF JobRow, JobMove, TerminalJob
    <2>4. ScanTypeOK'
      BY <1>1, <1>3, <2>3 DEF LeaveLoop, ScanTypeOK
    <2> QED
      BY <1>1, <1>3, <2>3, <2>4, QuietMoves DEF LeaveLoop
  <1>4. ASSUME NEW s \in Shards, TakeShard(w, s)
        PROVE  ScanTypeOK' /\ Moves
    <2>1. [status |-> "running", owner |-> w] \in ShardRow
      BY DEF ShardRow
    <2>2. shard' = [shard EXCEPT ![s] = [status |-> "running", owner |-> w]]
          /\ shard[s].status = "pending"
          /\ UNCHANGED <<job, manifest, unit, interrupts, task, wire, loop, up>>
      BY <1>4 DEF TakeShard, agentVars
    <2>3. ScanTypeOK'
      BY <1>1, <2>1, <2>2 DEF ScanTypeOK
    <2>4. \A r \in Shards : shard'[r].status = "absent" <=> shard[r].status = "absent"
      BY <1>1, <2>2
    <2> QED
      BY <1>1, <2>2, <2>3, <2>4, QuietMoves DEF JobMove
  <1>5. ASSUME NEW s \in Shards, EndShard(w, s)
        PROVE  ScanTypeOK' /\ Moves
    <2>1. PICK status \in {"stopped", "succeeded", "failed", "pending"} :
            shard' = [shard EXCEPT ![s] = [status |-> status, owner |-> w]]
      BY <1>5 DEF EndShard
    <2>2. shard[s].status = "running" /\ job' = Finalized(job, shard', unit)
          /\ UNCHANGED <<manifest, unit, interrupts, task, wire, loop, up>>
      BY <1>5 DEF EndShard, agentVars
    <2>3. job' \in JobRow /\ JobMove
      BY <1>1, <2>2, FinalizedType DEF JobMove
    <2>4. [status |-> status, owner |-> w] \in ShardRow
      BY DEF ShardRow, TerminalShard
    <2>5. ScanTypeOK'
      BY <1>1, <2>1, <2>2, <2>3, <2>4 DEF ScanTypeOK
    <2>6. \A r \in Shards : shard'[r].status = "absent" <=> shard[r].status = "absent"
      BY <1>1, <2>1, <2>2
    <2> QED
      BY <1>1, <2>2, <2>3, <2>5, <2>6, QuietMoves
  <1> QED
    BY <1>2, <1>3, <1>4, <1>5

LEMMA StopStep ==
  ASSUME ScanInv, RequestStop
  PROVE  ScanTypeOK' /\ Moves
  <1>1. /\ ScanTypeOK /\ StopShows /\ job \in JobRow /\ shard \in [Shards -> ShardRow]
        /\ unit \in [Units -> UnitRow]
        /\ UNCHANGED <<manifest, interrupts, task, wire, loop, up>>
    BY DEF ScanInv, ScanTypeOK, RequestStop, agentVars
  <1>2. /\ StopRequested \in JobRow /\ StopRequested.stop
        /\ StopRequested.status \notin {"queued", "running"}
    BY <1>1 DEF StopRequested, JobRow, TerminalJob
  <1>3. job' \in JobRow /\ JobMove /\ job'.stop
    BY <1>2, FinalizedType DEF RequestStop, JobMove
  <1>4. ASSUME NEW u \in Units
        PROVE  /\ unit'[u] \in UnitRow /\ UnitMove(u)
               /\ unit'[u].status = "running" => unit'[u] = unit[u]
               /\ unit'[u].status = "succeeded" <=> unit[u].status = "succeeded"
               /\ unit'[u].status = "absent" <=> unit[u].status = "absent"
    <2>1. unit[u] \in UnitRow
      BY <1>1
    <2>2. CASE unit[u].status \in ReclaimableUnit
      <3>1. unit'[u] = EndedAs(unit[u], "stopped")
        BY <2>2 DEF RequestStop, StopsUnit
      <3> QED
        BY <1>3, <2>1, <2>2, <3>1, EndedRow DEF SettledUnit, ReclaimableUnit, UnitMove
    <2>3. CASE unit[u].status \notin ReclaimableUnit
      <3>1. unit'[u] = unit[u]
        BY <2>3 DEF RequestStop, StopsUnit
      <3> QED
        BY <2>1, <3>1 DEF UnitMove
    <2> QED
      BY <2>2, <2>3
  <1>5. unit' \in [Units -> UnitRow]
    BY <1>4 DEF RequestStop
  <1>6. shard' \in [Shards -> ShardRow]
        /\ \A s \in Shards : shard'[s].status = "absent" <=> shard[s].status = "absent"
    <2>1. ASSUME NEW s \in Shards
          PROVE  shard'[s] \in ShardRow
                 /\ (shard'[s].status = "absent" <=> shard[s].status = "absent")
      <3>1. shard[s] \in ShardRow
        BY <1>1
      <3>2. shard'[s] = IF shard[s].status = "pending"
                          THEN [shard[s] EXCEPT !.status = "stopped"] ELSE shard[s]
        BY DEF RequestStop
      <3> QED
        BY <3>1, <3>2 DEF ShardRow, TerminalShard
    <2> QED
      BY <2>1 DEF RequestStop
  <1>7. ScanTypeOK'
    BY <1>1, <1>3, <1>4, <1>5, <1>6 DEF ScanTypeOK
  <1>8. Unmaterialised /\ \A w \in Servers : LaneMove(w)
    BY <1>1, <1>4, <1>6 DEF Unmaterialised, LaneMove
  <1> QED
    BY <1>1, <1>3, <1>4, <1>7, <1>8, RowTypes DEF Moves

LEMMA RefreshStep ==
  ASSUME ScanInv, RefreshSummary
  PROVE  ScanTypeOK' /\ Moves
  <1>1. /\ ScanTypeOK /\ job \in JobRow /\ unit \in [Units -> UnitRow]
        /\ unit' = ReconciledUnits
        /\ UNCHANGED <<manifest, shard, interrupts, task, wire, loop, up>>
    BY DEF ScanInv, ScanTypeOK, RefreshSummary, agentVars
  <1>2. job' \in JobRow /\ JobMove
    BY <1>1, FinalizedType DEF RefreshSummary, JobMove
  <1>3. ASSUME NEW u \in Units
        PROVE  /\ unit'[u] \in UnitRow /\ UnitMove(u)
               /\ unit'[u].status = "running" => unit'[u] = unit[u]
               /\ unit'[u].status = "succeeded" <=> unit[u].status = "succeeded"
               /\ unit'[u].status = "absent" <=> unit[u].status = "absent"
    <2>1. unit'[u] = IF unit[u].status = "running" /\ unit[u].expired
                       THEN Stale(unit[u]) ELSE unit[u]
      BY <1>1 DEF ReconciledUnits
    <2> QED
      BY <1>1, <2>1, StaleRow DEF UnitMove
  <1>4. unit' \in [Units -> UnitRow]
    BY <1>1, <1>3 DEF ReconciledUnits
  <1>5. ScanTypeOK'
    BY <1>1, <1>2, <1>3, <1>4 DEF ScanTypeOK
  <1>6. Unmaterialised /\ \A w \in Servers : LaneMove(w)
    BY <1>1, <1>3 DEF Unmaterialised, LaneMove
  <1> QED
    BY <1>1, <1>2, <1>3, <1>5, <1>6, RowTypes DEF Moves

LEMMA ExpireStep ==
  ASSUME ScanInv, NEW u \in Units, ExpireLease(u)
  PROVE  ScanTypeOK' /\ Moves
  <1>1. /\ ScanTypeOK /\ unit[u] \in UnitRow /\ unit[u].status = "running"
        /\ unit' = [unit EXCEPT ![u].expired = TRUE]
        /\ UNCHANGED <<job, manifest, shard, task, wire, loop, up>>
    BY DEF ScanInv, ScanTypeOK, ExpireLease, agentVars
  <1>2. /\ interrupts' \in 0 .. MaxInterrupts /\ interrupts' >= interrupts
        /\ interrupts' > interrupts \/ ~Scanning(u)
    BY <1>1, RowTypes DEF ExpireLease, Interrupt
  <1>3. /\ unit'[u] = [unit[u] EXCEPT !.expired = TRUE]
        /\ \A v \in Units \ {u} : unit'[v] = unit[v]
    BY <1>1 DEF ScanTypeOK
  <1>4. /\ unit'[u] \in UnitRow /\ unit'[u].status = "running"
        /\ unit'[u].owner = unit[u].owner /\ unit'[u].attempts = unit[u].attempts
    BY <1>1, <1>3, ExpiredRow
  <1>5. ScanTypeOK'
    BY <1>1, <1>2, <1>3, <1>4 DEF ScanTypeOK
  <1>6. \A v \in Units : UnitMove(v)
    BY <1>1, <1>2, <1>3, <1>4 DEF UnitMove
  <1>7. Unmaterialised
    BY <1>1, <1>3, <1>4 DEF Unmaterialised
  <1> QED
    BY <1>1, <1>2, <1>5, <1>6, <1>7 DEF Moves, LaneMove, JobMove

LEMMA CrashStep ==
  ASSUME ScanInv, NEW w \in Servers, Crash(w)
  PROVE  ScanTypeOK' /\ Moves
  <1>1. /\ ScanTypeOK /\ task \in [Servers -> Task] /\ loop \subseteq up
        /\ UNCHANGED <<job, manifest, unit, shard, wire>>
        /\ task' = [task EXCEPT ![w] = NoTask]
        /\ up' = up \ {w} /\ loop' = loop \ {w}
    BY DEF ScanInv, ScanTypeOK, Crash
  <1>2. interrupts' > interrupts /\ interrupts' \in 0 .. MaxInterrupts
    BY <1>1, RowTypes DEF Crash, Interrupt
  <1>3. ScanTypeOK'
    BY <1>1, <1>2, NoTaskType DEF ScanTypeOK
  <1>4. \A k \in Servers : LaneMove(k)
    BY <1>1, <1>2 DEF LaneMove, GivenUp, NoTask
  <1> QED
    BY <1>1, <1>2, <1>3, <1>4, RowTypes DEF Moves, UnitMove, JobMove, Unmaterialised

LEMMA RegisterStep ==
  ASSUME ScanInv, NEW w \in Servers, RegisterServer(w)
  PROVE  ScanTypeOK' /\ Moves
  <1>1. /\ ScanTypeOK /\ unit \in [Units -> UnitRow] /\ shard \in [Shards -> ShardRow]
        /\ w \notin up /\ up' = up \cup {w}
        /\ UNCHANGED <<job, manifest, task, wire, loop, interrupts>>
    BY DEF ScanInv, ScanTypeOK, RegisterServer
  <1>2. ASSUME NEW u \in Units
        PROVE  /\ unit'[u] \in UnitRow /\ UnitMove(u)
               /\ unit'[u].status = "running" => unit'[u] = unit[u]
               /\ unit'[u].status = "succeeded" <=> unit[u].status = "succeeded"
               /\ unit'[u].status = "absent" <=> unit[u].status = "absent"
    <2>1. unit[u] \in UnitRow
      BY <1>1
    <2>2. CASE unit[u].status = "running" /\ unit[u].owner = w
      <3>1. unit'[u] = [Stale(unit[u]) EXCEPT !.owner = NoServer]
        BY <2>2 DEF RegisterServer
      <3>2. /\ Stale(unit[u]) \in UnitRow /\ Stale(unit[u]).status = "stale"
            /\ Stale(unit[u]).attempts = unit[u].attempts
        BY <2>1, StaleRow
      <3>3. /\ unit'[u] \in UnitRow /\ unit'[u].status = "stale"
            /\ unit'[u].attempts = unit[u].attempts
        BY <3>1, <3>2 DEF UnitRow
      <3> QED
        BY <1>1, <2>2, <3>3 DEF UnitMove
    <2>3. CASE ~(unit[u].status = "running" /\ unit[u].owner = w)
      <3>1. unit'[u] = unit[u]
        BY <2>3 DEF RegisterServer
      <3> QED
        BY <2>1, <3>1 DEF UnitMove
    <2> QED
      BY <2>2, <2>3
  <1>3. unit' \in [Units -> UnitRow]
    BY <1>2 DEF RegisterServer
  <1>4. shard' \in [Shards -> ShardRow]
        /\ \A s \in Shards : shard'[s].status = "absent" <=> shard[s].status = "absent"
    <2>1. NewShard("pending") \in ShardRow /\ NewShard("pending").status = "pending"
      BY DEF NewShard, ShardRow
    <2> QED
      BY <1>1, <2>1 DEF RegisterServer
  <1>5. ScanTypeOK'
    BY <1>1, <1>2, <1>3, <1>4 DEF ScanTypeOK
  <1>6. Unmaterialised /\ \A k \in Servers : LaneMove(k)
    BY <1>1, <1>2, <1>4 DEF Unmaterialised, LaneMove
  <1> QED
    BY <1>1, <1>2, <1>5, <1>6, RowTypes DEF Moves, JobMove

LEMMA EveryStepMoves ==
  ASSUME ScanInv, [ScanNext]_scanVars
  PROVE  ScanTypeOK' /\ Moves
  <1>1. CASE UNCHANGED scanVars
    <2>1. UNCHANGED <<job, manifest, unit, shard, task, wire, loop, up, interrupts>>
      BY <1>1 DEF scanVars
    <2>2. ScanTypeOK /\ ScanTypeOK'
      BY <2>1 DEF ScanInv, ScanTypeOK
    <2> QED
      BY <2>1, <2>2, QuietMoves DEF JobMove
  <1>2. ASSUME NEW r \in Request,
               \/ DeliverAwaited(r[1], r[2], r[3], r[4])
               \/ DeliverLate(r[1], r[2], r[3], r[4])
        PROVE  ScanTypeOK' /\ Moves
    <2>1. /\ r[1] \in {"complete", "fail"} /\ r[2] \in Servers
          /\ r[3] \in Units /\ r[4] \in AttemptNumbers
      BY DEF Request
    <2> QED
      BY <1>2, <2>1, DeliverStep
  <1> QED
    BY <1>1, <1>2, ClaimStep, EndScanStep, LoopStep, StopStep, RefreshStep, ExpireStep,
       CrashStep, RegisterStep DEF ScanNext

-----------------------------------------------------------------------------
(* The moves keep the invariant.                                           *)

\* What a move does to the status of a unit.
LEMMA StatusMoves ==
  ASSUME ScanTypeOK, NEW u \in Units, UnitMove(u)
  PROVE  \/ unit'[u] = unit[u]
         \/ unit[u].status = "absent" /\ unit'[u].status = "pending"
         \/ /\ unit[u].status \in ReclaimableUnit \cup {"running"}
            /\ \/ unit'[u].status \in {"running", "stale", "succeeded", "failed"}
               \/ unit'[u].status = "stopped" /\ job'.stop
  <1>1. unit[u] \in UnitRow
    BY DEF ScanTypeOK
  <1>2. ASSUME NEW w \in Servers, Claims(w, u)
        PROVE  /\ unit[u].status \in ReclaimableUnit \cup {"running"}
               /\ unit'[u].status = "running"
    BY <1>2 DEF Claims, ClaimedBy
  <1>3. NewUnit("pending").status = "pending"
    BY DEF NewUnit
  <1>4. [unit[u] EXCEPT !.expired = TRUE].status = unit[u].status
    BY <1>1, ExpiredRow
  <1> QED
    BY <1>2, <1>3, <1>4 DEF UnitMove

\* A unit's content is added by the step that ends it.
LEMMA ContentStays ==
  ASSUME ScanInv, ScanTypeOK', Moves
  PROVE  MaterialisedOnce'
  <1>1. ScanTypeOK /\ MaterialisedOnce
    BY DEF ScanInv
  <1>2. CASE Unmaterialised
    BY <1>1, <1>2 DEF Unmaterialised, MaterialisedOnce
  <1>3. ASSUME NEW u \in Units, Materialised(u)
        PROVE  MaterialisedOnce'
    <2> SUFFICES ASSUME NEW v \in Units
                 PROVE  /\ manifest'.content[v]
                              = IF unit'[v].status = "succeeded" THEN 1 ELSE 0
                        /\ \A s \in Found[v] : shard'[s].status # "absent"
                                                 <=> unit'[v].status = "succeeded"
      BY DEF MaterialisedOnce
    <2>1. manifest.content \in [Units -> 0 .. 2]
      BY <1>1 DEF ScanTypeOK, ManifestRow
    <2>2. /\ manifest.content[v] = IF unit[v].status = "succeeded" THEN 1 ELSE 0
          /\ \A s \in Found[v] : shard[s].status # "absent"
                                   <=> unit[v].status = "succeeded"
      BY <1>1 DEF MaterialisedOnce
    <2>3. CASE v = u
      <3>1. unit'[v].status = "succeeded" /\ unit[v].status = "running"
        BY <1>3, <2>3 DEF Materialised
      <3>2. \A s \in Found[v] : shard'[s].status = "pending"
        BY <1>3, <2>3 DEF Materialised
      <3>3. manifest'.content[v] = 1
        BY <1>3, <2>1, <2>2, <2>3, <3>1 DEF Materialised
      <3> QED
        BY <3>1, <3>2, <3>3
    <2>4. CASE v # u
      <3>1. unit'[v].status = "succeeded" <=> unit[v].status = "succeeded"
        BY <1>3, <2>4 DEF Materialised
      <3>2. \A s \in Found[v] : shard'[s] = shard[s]
        BY <1>3, <2>4 DEF Materialised
      <3>3. manifest'.content[v] = manifest.content[v]
        BY <1>3, <2>1, <2>4 DEF Materialised
      <3> QED
        BY <2>2, <3>1, <3>2, <3>3
    <2> QED
      BY <2>3, <2>4
  <1> QED
    BY <1>2, <1>3 DEF Moves

LEMMA StopStays ==
  ASSUME ScanInv, Moves
  PROVE  StopShows'
  <1>1. job'.stop => job'.status \notin {"queued", "running"}
    BY DEF Moves, JobMove, ScanInv, StopShows
  <1>2. ASSUME NEW u \in Units, unit'[u].status = "stopped"
        PROVE  job'.stop
    <2>1. UnitMove(u) /\ (job.stop => job'.stop)
      BY DEF Moves, JobMove
    <2>2. unit[u].status = "stopped" => job.stop
      BY DEF ScanInv, StopShows
    <2> QED
      BY <1>2, <2>1, <2>2, StatusMoves DEF ScanInv
  <1> QED
    BY <1>1, <1>2 DEF StopShows

LEMMA TreeStays ==
  ASSUME ScanInv, Moves
  PROVE  TreeFollows'
  <1>1. TreeFollows /\ ScanTypeOK
    BY DEF ScanInv
  <1>2. ASSUME NEW u \in Units
        PROVE  /\ unit[u].status # "absent" => unit'[u].status # "absent"
               /\ unit'[u].status = "absent" => unit'[u] = unit[u]
    BY <1>1, StatusMoves DEF Moves, ReclaimableUnit
  <1>3. ASSUME NEW u \in Units, unit'[u].status = "succeeded", NEW v \in Children[u]
        PROVE  unit'[v].status # "absent"
    <2>1. v \in Units
      OBVIOUS
    <2>2. CASE unit[u].status = "succeeded"
      BY <1>1, <1>2, <2>1, <2>2 DEF TreeFollows
    <2>3. CASE unit[u].status # "succeeded"
      <3>1. PICK k \in Units : Materialised(k)
        BY <1>3, <2>3 DEF Moves, Unmaterialised
      <3>2. k = u
        BY <1>3, <2>3, <3>1 DEF Materialised
      <3> QED
        BY <1>2, <2>1, <3>1, <3>2 DEF Materialised
    <2> QED
      BY <2>2, <2>3
  <1> QED
    BY <1>1, <1>2, <1>3 DEF TreeFollows

\* A manifest is frozen by the unit that ends last, when all have succeeded,
\* and then the whole tree has: what was found below a unit has been asked for.
LEMMA FreezeStays ==
  ASSUME ScanInv, ScanTypeOK', Moves, TreeFollows', StopShows'
  PROVE  ReadyWhenComplete'
  <1> DEFINE complete == \A u \in Units : unit[u].status = "succeeded"
  <1>1. /\ complete => manifest.status = "ready"
        /\ manifest.status = "ready" /\ ~job.stop => complete
        /\ job.stop => job'.stop
    BY DEF ScanInv, ReadyWhenComplete, Moves, JobMove
  <1>2. CASE Unmaterialised
    <2>1. complete' <=> complete
      BY <1>2 DEF Unmaterialised
    <2>2. manifest'.status # manifest.status => manifest'.status = "failed" /\ ~complete'
      BY <1>2 DEF Unmaterialised
    <2> QED
      BY <1>1, <2>1, <2>2 DEF ReadyWhenComplete
  <1>3. ASSUME NEW u \in Units, Materialised(u)
        PROVE  ReadyWhenComplete'
    <2>1. /\ manifest'.status = FrozenStatus(manifest.status, unit')
          /\ unit[u].status = "running"
      BY <1>3 DEF Materialised
    <2>2. complete' => manifest'.status = "ready"
      BY <2>1 DEF FrozenStatus, ScanComplete, Scanned, ActiveUnit
    <2>3. ASSUME manifest'.status = "ready", ~job'.stop
          PROVE  complete'
      <3>1. ScanComplete(unit')
        BY <1>1, <2>1, <2>3 DEF FrozenStatus
      <3>2. \A v \in Units : unit'[v].status # "absent" => unit'[v].status = "succeeded"
        <4> SUFFICES ASSUME NEW v \in Units, unit'[v].status # "absent"
                     PROVE  unit'[v].status = "succeeded"
          OBVIOUS
        <4>1. unit'[v].status \in {"absent"} \cup ActiveUnit \cup SettledUnit
          BY DEF ScanTypeOK, UnitRow
        <4>2. unit'[v].status \notin ActiveUnit /\ unit'[v].status # "failed"
          BY <3>1 DEF ScanComplete, Scanned
        <4>3. unit'[v].status # "stopped"
          BY <2>3 DEF StopShows
        <4> QED
          BY <4>1, <4>2, <4>3 DEF SettledUnit
      <3> DEFINE below == {v \in Units : unit'[v].status # "absent"}
      <3>3. Root \in below /\ \A v \in below : Children[v] \subseteq below
        BY <3>2 DEF TreeFollows
      <3>4. below \in SUBSET Units
        OBVIOUS
      <3>5. below = Units
        BY <3>3, <3>4
      <3> QED
        BY <3>2, <3>5
    <2> QED
      BY <2>2, <2>3 DEF ReadyWhenComplete
  <1> QED
    BY <1>2, <1>3 DEF Moves

\* The unit of a lane is taken from it only with another attempt or a new status.
LEMMA TasksStay ==
  ASSUME ScanInv, ScanTypeOK', Moves
  PROVE  TasksOwned'
  <1> SUFFICES ASSUME NEW w \in Servers, task'[w].at # "idle"
               PROVE  LET row == unit'[task'[w].unit]
                      IN  /\ w \in up'
                          /\ row.status # "absent" /\ task'[w].attempt <= row.attempts
                          /\ row.status = "running" /\ row.attempts = task'[w].attempt
                               => row.owner = w
    BY DEF TasksOwned
  <1> DEFINE u == task'[w].unit
  <1>1. /\ ScanTypeOK /\ TasksOwned /\ u \in Units /\ LaneMove(w) /\ UnitMove(u)
        /\ unit[u] \in UnitRow /\ unit[u].attempts \in Nat /\ unit'[u].attempts \in Nat
    BY RowTypes DEF ScanInv, Moves, ScanTypeOK, Task, UnitRow, AttemptNumbers
  <1>2. CASE task[w].at = "idle"
    <2>1. /\ Claims(w, u) /\ w \in up'
          /\ task'[w].attempt = unit'[u].attempts
      BY <1>1, <1>2 DEF LaneMove
    <2>2. unit'[u].owner = w /\ unit'[u].status = "running"
      BY <2>1 DEF Claims, ClaimedBy
    <2> QED
      BY <1>1, <2>1, <2>2
  <1>3. CASE task[w].at # "idle"
    <2>1. task'[w].unit = task[w].unit /\ task'[w].attempt = task[w].attempt /\ w \in up'
      BY <1>1, <1>3 DEF LaneMove, TasksOwned
    <2>2. /\ unit[u].status # "absent" /\ task[w].attempt <= unit[u].attempts
          /\ unit[u].status = "running" /\ unit[u].attempts = task[w].attempt
               => unit[u].owner = w
      BY <1>1, <1>3, <2>1 DEF TasksOwned
    <2>3. task[w].attempt \in Nat
      BY <1>1, RowTypes DEF AttemptNumbers
    <2>4. CASE unit'[u] = unit[u]
      BY <1>1, <2>1, <2>2, <2>4
    <2>5. ASSUME NEW k \in Servers, Claims(k, u)
          PROVE  /\ unit'[u].status = "running"
                 /\ unit'[u].attempts > task[w].attempt
      <3>1. unit'[u].status = "running" /\ unit'[u].attempts = unit[u].attempts + 1
        BY <2>5 DEF Claims, ClaimedBy
      <3> QED
        BY <1>1, <2>2, <2>3, <3>1
    <2>6. CASE unit'[u] = [unit[u] EXCEPT !.expired = TRUE]
      BY <1>1, <2>1, <2>2, <2>6, ExpiredRow
    <2>7. ASSUME unit'[u].attempts = unit[u].attempts,
                 unit'[u].status \in {"stale", "succeeded", "failed", "stopped"}
          PROVE  unit'[u].status \notin {"absent", "running"}
                 /\ task[w].attempt <= unit'[u].attempts
      BY <2>2, <2>7
    <2> QED
      BY <1>1, <2>1, <2>2, <2>3, <2>4, <2>5, <2>6, <2>7 DEF UnitMove
  <1> QED
    BY <1>2, <1>3

\* Every attempt given up is paid for: a lane lets go of a running unit, and a
\* lease under a lane expires, only by an interrupt.
LEMMA PaidStays ==
  ASSUME ScanInv, ScanTypeOK', Moves
  PROVE  AttemptsPaid'
  <1> SUFFICES ASSUME NEW u \in Units
               PROVE  /\ unit'[u].attempts <= interrupts' + 1
                      /\ \/ unit'[u].status \in ReclaimableUnit
                         \/ unit'[u].status = "running"
                              /\ (unit'[u].expired \/ ~Scanning(u)')
                         => unit'[u].attempts <= interrupts'
    BY DEF AttemptsPaid
  <1>1. /\ ScanTypeOK /\ UnitMove(u) /\ unit[u] \in UnitRow
        /\ unit[u].attempts \in Nat /\ unit'[u].attempts \in Nat
        /\ interrupts \in Nat /\ interrupts' \in Nat /\ interrupts' >= interrupts
    BY RowTypes DEF ScanInv, Moves, ScanTypeOK, UnitRow, AttemptNumbers
  <1>2. /\ unit[u].attempts <= interrupts + 1
        /\ \/ unit[u].status \in ReclaimableUnit
           \/ unit[u].status = "running" /\ (unit[u].expired \/ ~Scanning(u))
           => unit[u].attempts <= interrupts
    BY DEF ScanInv, AttemptsPaid
  <1>3. ASSUME unit'[u].status = "running", unit'[u].attempts = unit[u].attempts,
               unit[u].status = "running", Scanning(u), ~Scanning(u)'
        PROVE  interrupts' > interrupts
    <2>1. PICK w \in Servers : /\ w \in up /\ task[w].at # "idle"
                               /\ task[w].unit = u
                               /\ task[w].attempt = unit[u].attempts
      BY <1>1, <1>3 DEF Scanning, ScanTypeOK
    <2>2. ~(/\ w \in up' /\ task'[w].at # "idle" /\ task'[w].unit = u
            /\ task'[w].attempt = unit'[u].attempts)
      BY <1>3 DEF Scanning
    <2>3. LaneMove(w)
      BY DEF Moves
    <2>4. CASE task'[w] = task[w] /\ (w \in up => w \in up')
      BY <1>3, <2>1, <2>2, <2>4
    <2>5. CASE task'[w].at = "idle" /\ GivenUp(w)
      BY <1>3, <2>1, <2>5 DEF GivenUp
    <2>6. CASE /\ task[w].at # "idle" /\ w \in up' /\ task'[w].at # "idle"
               /\ task'[w].unit = task[w].unit /\ task'[w].attempt = task[w].attempt
      BY <1>3, <2>1, <2>2, <2>6
    <2> QED
      BY <2>1, <2>3, <2>4, <2>5, <2>6 DEF LaneMove
  <1>4. CASE unit'[u] = unit[u]
    BY <1>1, <1>2, <1>3, <1>4
  <1>5. CASE unit'[u] = NewUnit("pending")
    <2>1. unit'[u].attempts = 0
      BY <1>5 DEF NewUnit
    <2>2. unit'[u].attempts <= interrupts' + 1 /\ unit'[u].attempts <= interrupts'
      BY <1>1, <2>1
    <2> QED
      BY <2>2
  <1>6. ASSUME NEW w \in Servers, Claims(w, u), ClaimKnown(w, u)
        PROVE  /\ unit'[u].attempts <= interrupts' + 1
               /\ unit'[u].status \notin ReclaimableUnit
               /\ unit'[u].expired \/ ~Scanning(u)' => unit'[u].attempts <= interrupts'
    <2>1. /\ unit'[u].attempts = unit[u].attempts + 1 /\ ~unit'[u].expired
          /\ unit'[u].status = "running"
      BY <1>6 DEF Claims, ClaimedBy
    <2>2. unit[u].attempts <= interrupts
      BY <1>2, <1>6 DEF Claims
    <2>3. ~Scanning(u)' => interrupts' > interrupts
      BY <1>6 DEF ClaimKnown, Scanning
    <2> QED
      BY <1>1, <2>1, <2>2, <2>3 DEF ReclaimableUnit
  <1>7. ASSUME unit[u].status = "running", unit'[u].attempts = unit[u].attempts,
               unit'[u].status = "stale", unit[u].expired \/ unit[u].owner \notin up
        PROVE  unit'[u].attempts <= interrupts'
    <2>1. unit[u].owner \notin up => ~Scanning(u)
      BY <1>1, <1>7 DEF Scanning, ScanInv, TasksOwned, ScanTypeOK
    <2> QED
      BY <1>1, <1>2, <1>7, <2>1
  <1>8. ASSUME unit'[u] = [unit[u] EXCEPT !.expired = TRUE], unit[u].status = "running",
               interrupts' > interrupts \/ ~Scanning(u)
        PROVE  unit'[u].attempts <= interrupts'
    <2>1. unit'[u].attempts = unit[u].attempts
      BY <1>1, <1>8, ExpiredRow
    <2> QED
      BY <1>1, <1>2, <1>8, <2>1
  <1>9. ASSUME unit'[u].attempts = unit[u].attempts,
               unit'[u].status \in {"succeeded", "failed", "stopped"}
        PROVE  /\ unit'[u].attempts <= interrupts' + 1
               /\ unit'[u].status \notin ReclaimableUnit \cup {"running"}
    BY <1>1, <1>2, <1>9 DEF ReclaimableUnit
  <1> QED
    BY <1>1, <1>4, <1>5, <1>6, <1>7, <1>8, <1>9 DEF UnitMove

LEMMA ScanStart == ScanInit => ScanInv
  <1> SUFFICES ASSUME ScanInit
               PROVE  ScanInv
    OBVIOUS
  <1>1. \A u \in Units : /\ unit[u] \in UnitRow /\ unit[u].attempts = 0
                         /\ unit[u].status = IF u = Root THEN "pending" ELSE "absent"
    BY DEF ScanInit, NewUnit, UnitRow, ActiveUnit, AttemptNumbers
  <1>2. ScanTypeOK
    <2>1. unit \in [Units -> UnitRow]
      BY <1>1 DEF ScanInit
    <2>2. shard \in [Shards -> ShardRow]
      BY DEF ScanInit, NewShard, ShardRow
    <2>3. job \in JobRow /\ manifest \in ManifestRow
      BY DEF ScanInit, JobRow, ManifestRow
    <2> QED
      BY <1>1, <2>1, <2>2, <2>3, NoTaskType DEF ScanInit, ScanTypeOK
  <1>3. MaterialisedOnce /\ ReadyWhenComplete
    BY <1>1 DEF ScanInit, MaterialisedOnce, ReadyWhenComplete, NewShard
  <1>4. TasksOwned /\ AttemptsPaid /\ TreeFollows /\ StopShows
    BY <1>1 DEF ScanInit, TasksOwned, AttemptsPaid, TreeFollows, StopShows, NoTask
  <1> QED
    BY <1>2, <1>3, <1>4 DEF ScanInv

LEMMA ScanStep == ScanInv /\ [ScanNext]_scanVars => ScanInv'
  <1> SUFFICES ASSUME ScanInv, [ScanNext]_scanVars
               PROVE  ScanInv'
    OBVIOUS
  <1>1. ScanTypeOK' /\ Moves
    BY EveryStepMoves
  <1> QED
    BY <1>1, ContentStays, StopStays, TreeStays, FreezeStays, TasksStay, PaidStays
       DEF ScanInv

\* The inductive invariant of the scan.
THEOREM ScanHolds == ScanSpec => []ScanInv
  BY ScanStart, ScanStep, PTL DEF ScanSpec

\* For every tree, and whatever is repeated, late or reclaimed, the manifest and
\* the shards hold the content of each unit that succeeded once, and of no other.
THEOREM ContentAlwaysSound == ScanSpec => []ContentSound
  <1>1. ScanInv => ContentSound
    BY DEF ScanInv, ContentSound
  <1> QED
    BY <1>1, ScanHolds, PTL

\* For every tree the manifest is ready when all units succeeded, and if it is
\* ready without a stop, the whole tree has been scanned.
THEOREM ReadyOnlyComplete == ScanSpec => []ReadyWhenComplete
  <1>1. ScanInv => ReadyWhenComplete
    BY DEF ScanInv
  <1> QED
    BY <1>1, ScanHolds, PTL

\* No late request, stop or restart takes the verdict of a unit back, and no
\* attempt begins on a job that is asked to stop or has ended.
THEOREM EndedAlwaysStaysEnded == ScanSpec => EndedStaysEnded
  <1> DEFINE Kept == \A u \in Units : unit[u].status \in SettledUnit => UNCHANGED unit[u]
             NoScan == \A u \in Units :
                         job.stop \/ job.status \in TerminalJob
                           => unit'[u].attempts = unit[u].attempts
  <1>1. ScanInv /\ [ScanNext]_scanVars => Kept
    <2> SUFFICES ASSUME ScanInv, [ScanNext]_scanVars, NEW u \in Units,
                        unit[u].status \in SettledUnit
                 PROVE  unit'[u] = unit[u]
      OBVIOUS
    <2>1. ScanTypeOK /\ UnitMove(u)
      BY EveryStepMoves DEF ScanInv, Moves
    <2> QED
      BY <2>1, StatusMoves DEF SettledUnit, ReclaimableUnit
  <1>2. ScanInv /\ [ScanNext]_scanVars => NoScan
    <2> SUFFICES ASSUME ScanInv, [ScanNext]_scanVars, NEW u \in Units,
                        job.stop \/ job.status \in TerminalJob
                 PROVE  unit'[u].attempts = unit[u].attempts
      OBVIOUS
    <2>1. ScanTypeOK /\ UnitMove(u) /\ unit[u] \in UnitRow
      BY EveryStepMoves DEF ScanInv, Moves, ScanTypeOK
    <2>2. job.status \notin {"queued", "running"}
      BY DEF ScanInv, StopShows, TerminalJob
    <2>3. unit[u].status = "absent" => unit[u].attempts = 0
      BY DEF ScanInv, TreeFollows
    <2> QED
      BY <2>1, <2>2, <2>3, ExpiredRow DEF UnitMove, Claims, NewUnit
  <1> QED
    BY <1>1, <1>2, ScanHolds, PTL
       DEF ScanSpec, EndedStaysEnded, UnitVerdictKept, NoScanAfterStop
=============================================================================
