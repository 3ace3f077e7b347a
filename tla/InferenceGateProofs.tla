------------------------ MODULE InferenceGateProofs -------------------------
(***************************************************************************)
(* Proofs about InferenceGate for any number of callers and any limits.    *)
(* The invariants that MCInferenceGate checks are inductive together with  *)
(* the type invariant: each action moves at most one caller, and what it   *)
(* does to the others is at most to wake them.                             *)
(***************************************************************************)
EXTENDS InferenceGate, FiniteSetTheorems, TLAPS

\* A call that waits to be retried has an attempt left.
RetriesLeft == \A c \in Calls : call[c].at = "backoff" => call[c].attempt < MaxAttempts

GateInv ==
  /\ GateTypeOK
  /\ RetriesLeft
  /\ InflightCounted
  /\ NobodySleepsBesideRoom
  /\ PausedAtOne
  /\ CircuitMatchesFailures

-----------------------------------------------------------------------------
\* A caller that moves, waking the others or not, leaves every caller a call.
LEMMA MovesType ==
  ASSUME NEW c \in Calls, NEW to \in Call, GateTypeOK,
         Moves(c, to) \/ MovesAndWakes(c, to)
  PROVE  call' \in [Calls -> Call]
<1>1. ASSUME NEW d \in Calls PROVE Woken(d) \in Call
  BY <1>1 DEF Woken, CallAt, Call, Places, GateTypeOK
<1> QED
  BY <1>1 DEF Moves, MovesAndWakes, GateTypeOK

LEMMA WokenType == GateTypeOK => \A d \in Calls : Woken(d) \in Call
  BY DEF Woken, CallAt, Call, Places, GateTypeOK

\* To be woken is not to fly, nor to sleep.
LEMMA WokenPlace ==
  ASSUME GateTypeOK, NEW d \in Calls
  PROVE  /\ Woken(d).at # "asleep"
         /\ Woken(d).at = "flying" <=> call[d].at = "flying"
  BY DEF Woken, CallAt, Call, GateTypeOK

LEMMA FlyingFinite == IsFiniteSet(At("flying")) /\ Cardinality(At("flying")) \in Nat
  BY GateAssumption, FS_Subset, FS_CardinalityType DEF At

LEMMA FlyingAfter ==
  ASSUME NEW c \in Calls, NEW to \in Call, GateTypeOK,
         Moves(c, to) \/ MovesAndWakes(c, to)
  PROVE  At("flying")' =
           IF to.at = "flying" THEN At("flying") \cup {c} ELSE At("flying") \ {c}
<1>1. call'[c] = to
  BY DEF Moves, MovesAndWakes, GateTypeOK
<1>2. ASSUME NEW d \in Calls \ {c}
      PROVE  call'[d].at = "flying" <=> call[d].at = "flying"
  <2>1. call'[d] = call[d] \/ call'[d] = Woken(d)
    BY <1>2 DEF Moves, MovesAndWakes, GateTypeOK
  <2> QED
    BY <2>1, <1>2, WokenPlace
<1> QED
  BY <1>1, <1>2 DEF At

\* One caller enters, leaves, or does neither: the count follows.
LEMMA FlyingCount ==
  ASSUME NEW c \in Calls, NEW to \in Call, GateTypeOK,
         Moves(c, to) \/ MovesAndWakes(c, to)
  PROVE  Cardinality(At("flying"))' =
           IF (call[c].at = "flying") = (to.at = "flying")
             THEN Cardinality(At("flying"))
             ELSE IF to.at = "flying" THEN Cardinality(At("flying")) + 1
                                      ELSE Cardinality(At("flying")) - 1
<1>1. Cardinality(At("flying"))' = Cardinality(At("flying")')
  OBVIOUS
<1>2. c \in At("flying") <=> call[c].at = "flying"
  BY DEF At
<1>3. CASE to.at = "flying"
  <2>1. At("flying")' = At("flying") \cup {c}
    BY <1>3, FlyingAfter
  <2>2. Cardinality(At("flying") \cup {c}) =
          IF c \in At("flying") THEN Cardinality(At("flying")) ELSE Cardinality(At("flying")) + 1
    BY FlyingFinite, FS_AddElement
  <2> QED
    BY <2>1, <2>2, <1>1, <1>2, <1>3
<1>4. CASE to.at # "flying"
  <2>1. At("flying")' = At("flying") \ {c}
    BY <1>4, FlyingAfter
  <2>2. Cardinality(At("flying") \ {c}) =
          IF c \in At("flying") THEN Cardinality(At("flying")) - 1 ELSE Cardinality(At("flying"))
    BY FlyingFinite, FS_RemoveElement
  <2> QED
    BY <2>1, <2>2, <1>1, <1>2, <1>4
<1> QED
  BY <1>3, <1>4

\* Nobody new sleeps when a caller moves anywhere but to sleep.
LEMMA AsleepAfter ==
  ASSUME NEW c \in Calls, NEW to \in Call, GateTypeOK, to.at # "asleep"
  PROVE  /\ Moves(c, to) => At("asleep")' \subseteq At("asleep")
         /\ MovesAndWakes(c, to) => At("asleep")' = {}
<1>1. ASSUME Moves(c, to) PROVE At("asleep")' \subseteq At("asleep")
  BY <1>1 DEF Moves, At, GateTypeOK
<1>2. ASSUME MovesAndWakes(c, to) PROVE At("asleep")' = {}
  BY <1>2, WokenPlace DEF MovesAndWakes, At, GateTypeOK
<1> QED
  BY <1>1, <1>2

LEMMA RetriesAfter ==
  ASSUME NEW c \in Calls, NEW to \in Call, GateTypeOK, RetriesLeft,
         Moves(c, to) \/ MovesAndWakes(c, to),
         to.at = "backoff" => to.attempt < MaxAttempts
  PROVE  RetriesLeft'
<1> SUFFICES ASSUME NEW d \in Calls, call'[d].at = "backoff"
             PROVE  call'[d].attempt < MaxAttempts
  BY DEF RetriesLeft
<1>1. CASE d = c
  BY <1>1 DEF Moves, MovesAndWakes, GateTypeOK
<1>2. CASE d # c
  <2>1. call'[d] = call[d] \/ call'[d] = Woken(d)
    BY <1>2 DEF Moves, MovesAndWakes, GateTypeOK
  <2>2. call'[d] = call[d]
    BY <2>1 DEF Woken, CallAt, GateTypeOK, Call
  <2> QED
    BY <2>2 DEF RetriesLeft
<1> QED
  BY <1>1, <1>2

LEMMA CallAtType ==
  ASSUME GateTypeOK, NEW c \in Calls, NEW place \in Places
  PROVE  /\ CallAt(place, c) \in Call /\ CallAt(place, c).at = place
         /\ CallAt(place, c).attempt = call[c].attempt
BY DEF GateTypeOK, CallAt, Call

LEMMA NoCallType ==
  NoCall \in Call /\ NoCall.at = "idle" /\ Gone \in Call /\ Gone.at = "gone"
<1>1. 0 \in 0 .. MaxAttempts
  BY GateAssumption
<1> QED
  BY <1>1 DEF NoCall, Gone, Call, Places

-----------------------------------------------------------------------------
\* The parts of the invariant that speak of one caller's move, for the three
\* kinds of moves: one that keeps the limiter as it is, one that takes a slot
\* and one that gives a slot back.
LEMMA PlainMove ==
  ASSUME GateInv, NEW c \in Calls, NEW to \in Call,
         to.at \notin {"flying", "asleep", "backoff"}, call[c].at # "flying",
         Moves(c, to) \/ MovesAndWakes(c, to), UNCHANGED limiterVars
  PROVE  /\ call' \in [Calls -> Call]
         /\ InflightCounted' /\ NobodySleepsBesideRoom' /\ RetriesLeft'
<1>1. call' \in [Calls -> Call]
  BY MovesType DEF GateInv
<1>2. InflightCounted'
  BY FlyingCount DEF GateInv, InflightCounted, limiterVars
<1>3. NobodySleepsBesideRoom'
  BY AsleepAfter DEF GateInv, NobodySleepsBesideRoom, limiterVars
<1>4. RetriesLeft'
  BY RetriesAfter DEF GateInv
<1> QED
  BY <1>1, <1>2, <1>3, <1>4

LEMMA ReleaseMove ==
  ASSUME GateInv, NEW c \in Calls, NEW to \in Call,
         to.at \notin {"flying", "asleep"}, call[c].at = "flying",
         to.at = "backoff" => to.attempt < MaxAttempts,
         Release(c, to), limit' = limit
  PROVE  /\ call' \in [Calls -> Call] /\ inflight' \in Nat
         /\ InflightCounted' /\ NobodySleepsBesideRoom' /\ RetriesLeft'
<1>1. MovesAndWakes(c, to) /\ inflight' = IF inflight > 0 THEN inflight - 1 ELSE 0
  BY DEF Release
<1>2. call' \in [Calls -> Call]
  BY <1>1, MovesType DEF GateInv
<1>3. Cardinality(At("flying"))' = Cardinality(At("flying")) - 1
  BY <1>1, FlyingCount DEF GateInv
<1>4. inflight > 0
  <2>1. c \in At("flying")
    BY DEF At
  <2>2. Cardinality(At("flying")) # 0
    BY <2>1, FlyingFinite, FS_EmptySet
  <2> QED
    BY <2>2, FlyingFinite DEF GateInv, InflightCounted
<1>5. InflightCounted' /\ inflight' \in Nat
  BY <1>1, <1>3, <1>4, FlyingFinite DEF GateInv, InflightCounted, GateTypeOK
<1>6. NobodySleepsBesideRoom'
  BY <1>1, AsleepAfter DEF GateInv, NobodySleepsBesideRoom
<1>7. RetriesLeft'
  BY <1>1, RetriesAfter DEF GateInv
<1> QED
  BY <1>2, <1>5, <1>6, <1>7

\* A resized limiter: whoever slept was woken, unless nothing changed.
LEMMA ResizeMove ==
  ASSUME GateInv, NEW to \in Limits, Resize(to), inflight' = inflight
  PROVE  /\ call' \in [Calls -> Call] /\ limit' = to
         /\ InflightCounted' /\ NobodySleepsBesideRoom' /\ RetriesLeft'
<1> USE DEF GateInv
<1>1. call' \in [Calls -> Call]
  BY WokenType DEF Resize, GateTypeOK
<1>2. ASSUME NEW d \in Calls
      PROVE  call'[d].at = "flying" <=> call[d].at = "flying"
  BY <1>2, WokenPlace DEF Resize
<1>3. At("flying")' = At("flying")
  BY <1>2 DEF At
<1>4. InflightCounted'
  BY <1>3 DEF InflightCounted
<1>5. NobodySleepsBesideRoom'
  <2>1. CASE to # limit
    <3>1. At("asleep")' = {}
      BY <2>1, WokenPlace DEF Resize, At
    <3> QED
      BY <3>1 DEF NobodySleepsBesideRoom
  <2>2. CASE to = limit
    <3>1. At("asleep")' = At("asleep") /\ limit' = limit
      BY <2>2 DEF Resize, At, GateTypeOK
    <3> QED
      BY <3>1 DEF NobodySleepsBesideRoom
  <2> QED
    BY <2>1, <2>2
<1>6. RetriesLeft'
  <2>1. ASSUME NEW d \in Calls, call'[d].at = "backoff" PROVE call'[d] = call[d]
    BY <2>1 DEF Resize, Woken, CallAt, GateTypeOK, Call
  <2> QED
    BY <2>1 DEF RetriesLeft
<1> QED
  BY <1>1, <1>4, <1>5, <1>6 DEF Resize

-----------------------------------------------------------------------------
LEMMA GateInvInit == GateInit => GateInv
<1> SUFFICES ASSUME GateInit PROVE GateInv
  OBVIOUS
<1>1. GateTypeOK
  <2>1. Baseline \in 1 .. MaxLimit /\ 0 \in 0 .. Threshold
    BY GateAssumption
  <2> QED
    BY <2>1, NoCallType DEF GateInit, GateTypeOK, Limits
<1>2. At("flying") = {} /\ At("asleep") = {}
  BY DEF GateInit, At, NoCall
<1>3. Cardinality(At("flying")) = 0
  BY <1>2, FS_EmptySet
<1> QED
  BY <1>1, <1>2, <1>3, GateAssumption
     DEF GateInv, GateInit, InflightCounted, NobodySleepsBesideRoom, PausedAtOne,
         CircuitMatchesFailures, RetriesLeft, NoCall

\* A step of one caller keeps the invariant.
LEMMA CallStepKeeps ==
  ASSUME GateInv, NEW c \in Calls, CallStep(c) \/ Cancel(c)
  PROVE  GateInv'
<1> USE DEF GateInv
<1>0. /\ inflight \in Nat /\ limit \in Limits /\ limit \in Nat
      /\ failures \in 0 .. Threshold /\ Threshold \in Nat \ {0}
      /\ call[c] \in Call
  BY GateAssumption DEF GateTypeOK, Limits
<1>1. CASE BeforeCall(c)
  <2> DEFINE to == [at |-> "resuming", attempt |-> 1, probe |-> circuit = "half_open"]
  <2>1. to \in Call /\ to.at = "resuming"
    BY GateAssumption DEF Call, Places
  <2>2. Moves(c, to) /\ call[c].at # "flying" /\ UNCHANGED <<limiterVars, paused, breakerVars, healthy>>
    BY <1>1 DEF BeforeCall
  <2> HIDE DEF to
  <2> QED
    BY <2>1, <2>2, PlainMove
       DEF GateTypeOK, PausedAtOne, CircuitMatchesFailures, limiterVars, breakerVars
<1>2. CASE Resume(c)
  BY <1>2, PlainMove, CallAtType
     DEF Resume, Places, GateTypeOK, PausedAtOne, CircuitMatchesFailures, limiterVars, breakerVars
<1>3. CASE Acquire(c)
  <2>1. /\ CallAt("flying", c) \in Call /\ CallAt("flying", c).at = "flying"
        /\ call[c].at = "acquiring"
    BY <1>3, CallAtType DEF Acquire, Places
  <2>2. call' \in [Calls -> Call]
    BY <1>3, <2>1, MovesType DEF Acquire
  <2>3. Cardinality(At("flying"))' = Cardinality(At("flying")) + 1
    BY <1>3, <2>1, FlyingCount DEF Acquire
  <2>4. InflightCounted' /\ inflight' \in Nat
    BY <1>0, <1>3, <2>3 DEF Acquire, InflightCounted
  <2>5. NobodySleepsBesideRoom'
    BY <1>0, <1>3, <2>1, AsleepAfter DEF Acquire, NobodySleepsBesideRoom
  <2>6. RetriesLeft'
    BY <1>3, <2>1, RetriesAfter DEF Acquire
  <2> QED
    BY <1>3, <2>2, <2>4, <2>5, <2>6
       DEF Acquire, GateTypeOK, PausedAtOne, CircuitMatchesFailures, breakerVars
<1>4. CASE Sleep(c)
  <2>1. /\ CallAt("asleep", c) \in Call /\ CallAt("asleep", c).at = "asleep"
        /\ call[c].at = "acquiring"
    BY <1>4, CallAtType DEF Sleep, Places
  <2>2. call' \in [Calls -> Call]
    BY <1>4, <2>1, MovesType DEF Sleep
  <2>3. InflightCounted'
    BY <1>4, <2>1, FlyingCount DEF Sleep, InflightCounted, limiterVars
  <2>4. RetriesLeft'
    BY <1>4, <2>1, RetriesAfter DEF Sleep
  <2> QED
    BY <1>4, <2>2, <2>3, <2>4
       DEF Sleep, GateTypeOK, NobodySleepsBesideRoom, PausedAtOne, CircuitMatchesFailures,
           limiterVars, breakerVars
<1>5. CASE Complete(c)
  <2>1. PICK place \in {"succeeded", "backoff", "failed"} :
          /\ Release(c, CallAt(place, c))
          /\ place = "backoff" => call[c].attempt < MaxAttempts
    BY <1>5 DEF Complete
  <2>2. /\ CallAt(place, c) \in Call
        /\ CallAt(place, c).at \notin {"flying", "asleep"}
        /\ CallAt(place, c).at = "backoff" => CallAt(place, c).attempt < MaxAttempts
    BY <2>1, CallAtType DEF Places
  <2>3. /\ call[c].at = "flying"
        /\ UNCHANGED <<limit, paused, breakerVars, healthy>>
    BY <1>5 DEF Complete
  <2> QED
    BY <2>1, <2>2, <2>3, ReleaseMove
       DEF GateTypeOK, PausedAtOne, CircuitMatchesFailures, breakerVars
<1>6. CASE Retry(c)
  <2> DEFINE to == [CallAt("resuming", c) EXCEPT !.attempt = @ + 1]
  <2>1. call[c].attempt + 1 \in 0 .. MaxAttempts
    BY <1>0, <1>6, GateAssumption DEF Retry, RetriesLeft, Call
  <2>2. to \in Call /\ to.at = "resuming"
    BY <2>1, CallAtType DEF Call, Places
  <2>3. /\ Moves(c, to) /\ call[c].at # "flying"
        /\ UNCHANGED <<limiterVars, paused, breakerVars, healthy>>
    BY <1>6 DEF Retry
  <2> HIDE DEF to
  <2> QED
    BY <2>2, <2>3, PlainMove
       DEF GateTypeOK, PausedAtOne, CircuitMatchesFailures, limiterVars, breakerVars
<1>7. CASE OnSuccess(c)
  BY <1>0, <1>7, PlainMove, NoCallType
     DEF OnSuccess, GateTypeOK, PausedAtOne, CircuitMatchesFailures, limiterVars
<1>8. CASE OnFailure(c)
  <2>1. failures' \in 0 .. Threshold /\ CircuitMatchesFailures'
          /\ circuit' \in {"closed", "open", "half_open"}
    BY <1>0, <1>8 DEF OnFailure, CircuitMatchesFailures, GateTypeOK
  <2> QED
    BY <1>8, <2>1, PlainMove, NoCallType
       DEF OnFailure, GateTypeOK, PausedAtOne, limiterVars
<1>9. CASE Cancel(c)
  <2>1. UNCHANGED <<limit, paused, breakerVars, healthy>>
    BY <1>9 DEF Cancel
  <2>2. CASE call[c].at = "flying" /\ Release(c, Gone)
    BY <2>1, <2>2, ReleaseMove, NoCallType
       DEF GateTypeOK, PausedAtOne, CircuitMatchesFailures, breakerVars
  <2>3. CASE /\ call[c].at # "flying" /\ inflight' = inflight
             /\ Moves(c, Gone) \/ MovesAndWakes(c, Gone)
    BY <2>1, <2>3, PlainMove, NoCallType
       DEF GateTypeOK, PausedAtOne, CircuitMatchesFailures, limiterVars, breakerVars
  <2> QED
    BY <1>9, <2>2, <2>3 DEF Cancel
<1> QED
  BY <1>1, <1>2, <1>3, <1>4, <1>5, <1>6, <1>7, <1>8, <1>9 DEF CallStep

LEMMA NextKeeps == GateInv /\ [GateNext]_gateVars => GateInv'
<1> SUFFICES ASSUME GateInv, [GateNext]_gateVars PROVE GateInv'
  OBVIOUS
<1> USE DEF GateInv
<1>1. ASSUME NEW c \in Calls, CallStep(c) \/ Cancel(c) PROVE GateInv'
  BY <1>1, CallStepKeeps
<1>2. CASE ApplyControl
  <2>1. (IF paused THEN Baseline ELSE 1) \in Limits
    BY GateAssumption DEF Limits
  <2>2. /\ call' \in [Calls -> Call] /\ limit' = IF paused THEN Baseline ELSE 1
        /\ InflightCounted' /\ NobodySleepsBesideRoom' /\ RetriesLeft'
    BY <1>2, <2>1, ResizeMove DEF ApplyControl
  <2> QED
    BY <1>2, <2>1, <2>2
       DEF ApplyControl, GateTypeOK, PausedAtOne, CircuitMatchesFailures, breakerVars
<1>3. CASE Autotune
  <2>1. Lowered \in Limits /\ Raised \in Limits
    BY GateAssumption DEF Limits, Lowered, Raised, AtLeast, AtMost, GateTypeOK
  <2>2. /\ call' \in [Calls -> Call] /\ limit' \in Limits
        /\ InflightCounted' /\ NobodySleepsBesideRoom' /\ RetriesLeft'
    BY <1>3, <2>1, ResizeMove DEF Autotune
  <2> QED
    BY <1>3, <2>2
       DEF Autotune, GateTypeOK, PausedAtOne, CircuitMatchesFailures, breakerVars
<1>4. CASE RecoveryElapses
  BY <1>4 DEF RecoveryElapses, GateTypeOK, RetriesLeft, InflightCounted, At,
       NobodySleepsBesideRoom, PausedAtOne, CircuitMatchesFailures, limiterVars
<1>5. CASE ServiceChanges
  BY <1>5 DEF ServiceChanges, GateTypeOK, RetriesLeft, InflightCounted, At,
       NobodySleepsBesideRoom, PausedAtOne, CircuitMatchesFailures, limiterVars, breakerVars
<1>6. CASE UNCHANGED gateVars
  BY <1>6 DEF gateVars, GateTypeOK, RetriesLeft, InflightCounted, At,
       NobodySleepsBesideRoom, PausedAtOne, CircuitMatchesFailures
<1> QED
  BY <1>1, <1>2, <1>3, <1>4, <1>5, <1>6 DEF GateNext

LEMMA GateInvariant == GateSpec => []GateInv
  BY GateInvInit, NextKeeps, PTL DEF GateSpec

-----------------------------------------------------------------------------
\* The limiter and the breaker hold values of their types.
THEOREM GateTypes == GateSpec => []GateTypeOK
<1>1. GateInv => GateTypeOK
  BY DEF GateInv
<1> QED
  BY <1>1, GateInvariant, PTL

\* No slot of the limiter leaks, whatever is retried, cancelled or resized.
THEOREM NoSlotLeaks == GateSpec => []InflightCounted
<1>1. GateInv => InflightCounted
  BY DEF GateInv
<1> QED
  BY <1>1, GateInvariant, PTL

\* No caller sleeps while a slot is free: no wake-up is lost.
THEOREM NoLostWakeUp == GateSpec => []NobodySleepsBesideRoom
<1>1. GateInv => NobodySleepsBesideRoom
  BY DEF GateInv
<1> QED
  BY <1>1, GateInvariant, PTL

\* A pause holds the limit at one, and the circuit follows the failure count.
THEOREM PauseAndCircuit == GateSpec => [](PausedAtOne /\ CircuitMatchesFailures)
<1>1. GateInv => PausedAtOne /\ CircuitMatchesFailures
  BY DEF GateInv
<1> QED
  BY <1>1, GateInvariant, PTL

\* What the runs check: the limiter and the breaker hold values of their types, no
\* slot leaks, a pause holds and the circuit follows the failures.
THEOREM GateAlwaysSound == GateSpec => []GateIsSound
<1>1. GateTypeOK /\ InflightCounted /\ PausedAtOne /\ CircuitMatchesFailures => GateIsSound
  BY DEF GateIsSound
<1> QED
  BY <1>1, GateTypes, NoSlotLeaks, PauseAndCircuit, PTL

=============================================================================
