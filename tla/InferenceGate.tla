--------------------------- MODULE InferenceGate ----------------------------
(***************************************************************************)
(* What an inference call passes on its way to the model service and back  *)
(* (ocr_parser/runtime.py, infra/circuit_breaker.py): the circuit breaker, *)
(* the pause and the concurrency limit that an agent under memory pressure *)
(* sets through the control file, and the limiter that autotuning resizes  *)
(* while calls wait on it.                                                 *)
(*                                                                         *)
(* Time is abstracted: an open circuit becomes due for a probe some time   *)
(* later.  Error counts are abstracted: autotuning may see new errors at   *)
(* any round.  Racing attempts of one call are left out; what they do to   *)
(* the limiter, being cancelled anywhere, is Cancel.                       *)
(***************************************************************************)
EXTENDS Integers, FiniteSets

CONSTANTS Calls,        \* concurrent callers, a new call after each answer
          Threshold,    \* failure_threshold
          MaxAttempts,  \* max_retries
          Baseline,     \* the limit at the start and after a pause
          MaxLimit      \* api_concurrency_max

ASSUME GateAssumption ==
  /\ IsFiniteSet(Calls)
  /\ {Threshold, MaxAttempts, Baseline, MaxLimit} \subseteq Nat \ {0}
  /\ Baseline <= MaxLimit

VARIABLES
  call,      \* each caller
  inflight,  \* ResizableAsyncLimiter._inflight
  limit,     \* ResizableAsyncLimiter._limit
  paused,    \* the pause of the control file
  failures,  \* consecutive failures, counted up to the threshold
  circuit,   \* "closed", "open" or "half_open"
  healthy    \* the service answers

limiterVars == <<inflight, limit>>
breakerVars == <<failures, circuit>>
gateVars == <<call, inflight, limit, paused, failures, circuit, healthy>>

-----------------------------------------------------------------------------
Places == {"idle", "gone", "resuming", "acquiring", "asleep", "flying", "backoff",
           "succeeded", "failed"}
Call == [at : Places, attempt : 0 .. MaxAttempts, probe : BOOLEAN]
Limits == 1 .. MaxLimit

At(place) == {c \in Calls : call[c].at = place}
CallAt(place, c) == [call[c] EXCEPT !.at = place]
NoCall == [at |-> "idle", attempt |-> 0, probe |-> FALSE]
\* cancelled; the caller's next call follows
Gone == [at |-> "gone", attempt |-> 0, probe |-> FALSE]

GateInit ==
  /\ call = [c \in Calls |-> NoCall]
  /\ inflight = 0 /\ limit = Baseline
  /\ paused = FALSE
  /\ failures = 0 /\ circuit = "closed"
  /\ healthy = TRUE

\* Condition.notify_all: who sleeps looks again
Woken(d) == IF call[d].at = "asleep" THEN CallAt("acquiring", d) ELSE call[d]

Moves(c, to) == call' = [call EXCEPT ![c] = to]
MovesAndWakes(c, to) == call' = [d \in Calls |-> IF d = c THEN to ELSE Woken(d)]

-----------------------------------------------------------------------------
(* A call, from the breaker to the service.                                *)

\* A call an open circuit refuses raises at once and leaves no trace.
BeforeCall(c) ==
  /\ call[c].at \in {"idle", "gone"} /\ circuit # "open"
  /\ Moves(c, [at |-> "resuming", attempt |-> 1, probe |-> circuit = "half_open"])
  /\ UNCHANGED <<limiterVars, paused, breakerVars, healthy>>

\* the resume event is waited for before the limiter, and not again after it
Resume(c) ==
  /\ call[c].at = "resuming" /\ ~paused
  /\ Moves(c, CallAt("acquiring", c))
  /\ UNCHANGED <<limiterVars, paused, breakerVars, healthy>>

Acquire(c) ==
  /\ call[c].at = "acquiring" /\ inflight < limit
  /\ inflight' = inflight + 1
  /\ Moves(c, CallAt("flying", c))
  /\ UNCHANGED <<limit, paused, breakerVars, healthy>>

Sleep(c) ==
  /\ call[c].at = "acquiring" /\ inflight >= limit
  /\ Moves(c, CallAt("asleep", c))
  /\ UNCHANGED <<limiterVars, paused, breakerVars, healthy>>

\* A bug to test with: the slot is given back, and nobody is told.
ReleaseQuietly(c, to) == inflight' = inflight - 1 /\ Moves(c, to)

Release(c, to) ==
  /\ inflight' = IF inflight > 0 THEN inflight - 1 ELSE 0
  /\ MovesAndWakes(c, to)

\* an answer, a transient error to be retried, or an error that ends the call
Complete(c) ==
  /\ call[c].at = "flying"
  /\ \/ Release(c, CallAt("succeeded", c))
     \/ ~healthy /\ call[c].attempt < MaxAttempts /\ Release(c, CallAt("backoff", c))
     \/ ~healthy /\ Release(c, CallAt("failed", c))
  /\ UNCHANGED <<limit, paused, breakerVars, healthy>>

Retry(c) ==
  /\ call[c].at = "backoff"
  /\ Moves(c, [CallAt("resuming", c) EXCEPT !.attempt = @ + 1])
  /\ UNCHANGED <<limiterVars, paused, breakerVars, healthy>>

-----------------------------------------------------------------------------
(* The breaker learns of the whole chain of attempts, when it is over.     *)

\* A bug to test with: a success resets the count and leaves the circuit.
OnSuccessKeepsCircuit(c) ==
  /\ call[c].at = "succeeded"
  /\ failures' = 0
  /\ Moves(c, NoCall)
  /\ UNCHANGED <<limiterVars, paused, circuit, healthy>>

OnSuccess(c) ==
  /\ call[c].at = "succeeded"
  /\ failures' = 0 /\ circuit' = "closed"
  /\ Moves(c, NoCall)
  /\ UNCHANGED <<limiterVars, paused, healthy>>

OnFailure(c) ==
  /\ call[c].at = "failed"
  /\ failures' = IF failures < Threshold THEN failures + 1 ELSE Threshold
  /\ circuit' = IF failures' = Threshold THEN "open" ELSE circuit
  /\ Moves(c, NoCall)
  /\ UNCHANGED <<limiterVars, paused, healthy>>

\* A bug to test with: the slot of a cancelled call is not given back.
CancelKeepsSlot(c) ==
  /\ call[c].at \notin {"idle", "gone"}
  /\ Moves(c, Gone) /\ inflight' = inflight
  /\ UNCHANGED <<limit, paused, breakerVars, healthy>>

\* a cancelled call tells the breaker nothing; a waiter that leaves wakes the rest
Cancel(c) ==
  /\ call[c].at \notin {"idle", "gone"}
  /\ \/ call[c].at = "flying" /\ Release(c, Gone)
     \/ call[c].at \in {"acquiring", "asleep"} /\ MovesAndWakes(c, Gone)
          /\ UNCHANGED inflight
     \/ call[c].at \notin {"flying", "acquiring", "asleep"} /\ Moves(c, Gone)
          /\ UNCHANGED inflight
  /\ UNCHANGED <<limit, paused, breakerVars, healthy>>

-----------------------------------------------------------------------------
(* What changes around the calls.                                          *)

Resize(to) ==
  /\ limit' = to
  /\ call' = [d \in Calls |-> IF to # limit THEN Woken(d) ELSE call[d]]

\* the control file: paused at one call under memory pressure, or ready
ApplyControl ==
  /\ paused' = ~paused
  /\ Resize(IF paused THEN Baseline ELSE 1)
  /\ UNCHANGED <<inflight, breakerVars, healthy>>

AtLeast(m, n) == IF m > n THEN m ELSE n
AtMost(m, n) == IF m < n THEN m ELSE n
\* A bug to test with: the limit may be lowered to nothing.
LoweredToNothing == (3 * limit) \div 4

Lowered == AtLeast(1, (3 * limit) \div 4)
Raised == AtMost(MaxLimit, AtLeast(limit + 8, (5 * limit + 3) \div 4))

Saturated == inflight >= AtLeast(1, limit - 1) \/ At("acquiring") \cup At("asleep") # {}

\* A bug to test with: autotuning does not look at the pause.
AutotunePaused ==
  /\ Resize(Lowered) \/ (Saturated /\ limit < MaxLimit /\ Resize(Raised))
  /\ UNCHANGED <<inflight, paused, breakerVars, healthy>>

Autotune ==
  /\ ~paused
  /\ \/ Resize(Lowered)
     \/ Saturated /\ limit < MaxLimit /\ Resize(Raised)
  /\ UNCHANGED <<inflight, paused, breakerVars, healthy>>

RecoveryElapses ==
  /\ circuit = "open" /\ circuit' = "half_open"
  /\ UNCHANGED <<call, limiterVars, paused, failures, healthy>>

ServiceChanges ==
  /\ healthy' = ~healthy
  /\ UNCHANGED <<call, limiterVars, paused, breakerVars>>

CallStep(c) ==
  \/ BeforeCall(c) \/ Resume(c) \/ Acquire(c) \/ Sleep(c) \/ Complete(c) \/ Retry(c)
  \/ OnSuccess(c) \/ OnFailure(c)

GateNext ==
  \/ \E c \in Calls : CallStep(c) \/ Cancel(c)
  \/ ApplyControl \/ Autotune \/ RecoveryElapses \/ ServiceChanges

GateSpec == GateInit /\ [][GateNext]_gateVars

\* Callers have pages left and calls time out; the recovery time passes.
FairGateSpec ==
  /\ GateSpec
  /\ \A c \in Calls : WF_gateVars(CallStep(c))
  /\ WF_gateVars(RecoveryElapses)

-----------------------------------------------------------------------------
(* What the gate promises.                                                 *)

GateTypeOK ==
  /\ call \in [Calls -> Call]
  /\ inflight \in Nat /\ limit \in Limits
  /\ paused \in BOOLEAN /\ healthy \in BOOLEAN
  /\ failures \in 0 .. Threshold
  /\ circuit \in {"closed", "open", "half_open"}

\* The limiter's own count is the number of calls under way, after any number
\* of retries and cancellations: a slot that leaked would never come back.
InflightCounted == inflight = Cardinality(At("flying"))

\* No wake-up is lost: while a slot is free nobody sleeps on the condition,
\* whether it became free by an answer, a cancellation or a raised limit.
NobodySleepsBesideRoom == At("asleep") # {} => inflight >= limit

\* A paused parser is held at one call: autotuning does not raise the limit
\* that the memory watcher set.
PausedAtOne == paused => limit = 1

\* The circuit is open or half open exactly while the count of consecutive
\* failures stands at the threshold.
CircuitMatchesFailures == circuit # "closed" <=> failures = Threshold

\* No slot leaks, a pause holds, and the circuit follows the failures, whichever of
\* autotuning, the control file and the calls comes in between (ocr_parser/runtime.py,
\* infra/circuit_breaker.py).
GateIsSound == GateTypeOK /\ InflightCounted /\ PausedAtOne /\ CircuitMatchesFailures

\* Once the service answers for good, the parser is not paused and no more calls
\* are cancelled, the circuit closes, whatever was under way when it opened.
CircuitCloses ==
  /\ <>[](healthy /\ ~paused)
  /\ <>[][\A c \in Calls : ~Cancel(c)]_gateVars
  => <>[](circuit = "closed")

\* tests/test_runtime_execution_control.py:40 says that the api lane waits while
\* execution control is paused: no call starts during a pause.
NothingStartsPaused == [][paused => inflight' <= inflight]_gateVars

\* infra/circuit_breaker.py:15 names the cycle closed, open, half open, closed:
\* an open circuit closes only by way of a probe.
ClosesByProbe == [][circuit = "open" => circuit' # "closed"]_gateVars

\* infra/circuit_breaker.py:18 says that the recovery time is waited before a
\* probe request is allowed: one call tests the service, not all of them.
OneProbe == Cardinality({c \in Calls : call[c].probe}) <= 1

=============================================================================
