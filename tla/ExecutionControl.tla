--------------------------- MODULE ExecutionControl ---------------------------
(***************************************************************************)
(* How a host that runs short pauses the parser of a shard, and how the    *)
(* pause gets onto the job page (agent/runner.py, ocr_parser/cli.py and    *)
(* runtime.py).  The watcher of the agent looks at the host and writes a   *)
(* control file; the control loop of the child reads it, pauses or resumes *)
(* the calls and writes an event; the agent reads the events and updates   *)
(* the shard.  The watcher updates the shard too, and what could not be    *)
(* sent is sent again later by the replay lane.                            *)
(*                                                                         *)
(* One shard and one child.  InferenceGate has the calls under the pause,  *)
(* UpdateSpool the files of pending updates.                               *)
(***************************************************************************)
EXTENDS HostPressure, FiniteSets

CONSTANTS HostStates,   \* what the agent may find on its host
          Paths, Limits,
          Baseline,     \* api_concurrency of the job
          MaxTurns,     \* bound: changes of the host
          MaxFaults     \* bound: updates that failed or whose answer was lost

VARIABLE control

Payload(paused, limit, reason) == [paused |-> paused, limit |-> limit, reason |-> reason]
Initial == Payload(FALSE, Baseline, <<"initial", 0>>)
Unheard == Payload(FALSE, Baseline, <<"unheard", 0>>)

\* resource_execution_control_payload: the first reason stands for all.
PayloadFor(reasons) ==
  IF Constrained(reasons) THEN Payload(TRUE, 1, Head(reasons))
                          ELSE Payload(FALSE, Baseline, <<"ready", 0>>)

\* The child: where its page is, and what its control loop applied last.
Child(stage) == [stage |-> stage, page |-> "none", applied |-> Unheard]

ControlInit ==
  \E h \in HostStates :
    control = [host |-> h, turns |-> 0, file |-> Initial, child |-> Child("unclaimed"),
               watcher |-> [posting |-> FALSE, last |-> Unheard, payload |-> Unheard],
               lines |-> <<>>, reader |-> [posting |-> FALSE, seen |-> Unheard],
               shown |-> Unheard, pending |-> <<>>, replaying |-> <<>>, faults |-> 0]

Now == control.child
Working == Now.stage = "working"
Pressed == Reasons(control.host, Paths, Limits)

HostTurns ==
  /\ control.turns < MaxTurns
  /\ \E h \in HostStates \ {control.host} :
       control' = [control EXCEPT !.host = h, !.turns = @ + 1]

-----------------------------------------------------------------------------
(* The agent.                                                              *)

\* _wait_for_static_claim_capacity, then the child is started on a file that
\* pauses nothing.
Claim ==
  /\ Now.stage = "unclaimed" /\ ~ Constrained(Pressed)
  /\ control' = [control EXCEPT !.child = Child("working"), !.file = Initial]

\* resource_execution_control_watcher: only news is written, the file first.
Look ==
  LET payload == PayloadFor(Pressed) IN
  /\ Working /\ ~ control.watcher.posting /\ payload # control.watcher.last
  /\ control' = [control EXCEPT !.file = payload,
                                !.watcher = [@ EXCEPT !.posting = TRUE, !.payload = payload]]

\* update_shard: the update is applied and answered; or it fails on the way
\* there or on the way back, and is kept to be sent again.
Sent(payload, done) ==
  \/ control' = [done EXCEPT !.shown = payload]
  \/ /\ control.faults < MaxFaults
     /\ \E shown \in {control.shown, payload} :
          control' = [done EXCEPT !.shown = shown, !.pending = <<payload>>, !.faults = @ + 1,
                                  !.replaying = IF @ = <<>> THEN <<>> ELSE <<@[1], FALSE>>]

Post ==
  LET watcher == control.watcher IN
  /\ watcher.posting
  /\ Sent(watcher.payload,
          [control EXCEPT !.watcher = [watcher EXCEPT !.posting = FALSE, !.last = watcher.payload]])

\* What the lines say of the control, over what was known.
Observed(seen, lines) ==
  FoldLeft(LAMBDA known, line : IF line = <<>> THEN known ELSE line[1], seen, lines)

\* A bug to test with: the control is reported when a line names it only.
ReportOfLines(seen, lines) == IF \A i \in DOMAIN lines : lines[i] = <<>> THEN <<>> ELSE <<seen>>
\* shard_progress_payload: every report says what is known of the control.
Report(seen, lines) == IF seen = Unheard THEN <<>> ELSE <<seen>>

\* _forward_events_until_done: what is there is read, then one update is sent.
Read ==
  LET seen == Observed(control.reader.seen, control.lines) IN
  /\ ~ control.reader.posting /\ control.lines # <<>>
  /\ control' = [control EXCEPT !.reader = [posting |-> Report(seen, control.lines) # <<>>,
                                            seen |-> seen],
                                !.lines = <<>>]
Forward ==
  /\ control.reader.posting
  /\ Sent(control.reader.seen, [control EXCEPT !.reader.posting = FALSE])

\* The replay lane: what it has read it sends, and removes if nothing newer is there.
Replay ==
  /\ control.replaying = <<>> /\ control.pending # <<>>
  /\ control' = [control EXCEPT !.replaying = <<control.pending[1], TRUE>>]
Replayed ==
  LET payload == control.replaying[1]
      over == [control EXCEPT !.replaying = <<>>]
      removed == [over EXCEPT !.pending = IF control.replaying[2] THEN <<>> ELSE @]
  IN  /\ control.replaying # <<>>
      /\ \/ control' = [removed EXCEPT !.shown = payload]
         \/ /\ control.faults < MaxFaults
            /\ \E shown \in {control.shown, payload} :
                 control' = [over EXCEPT !.shown = shown, !.faults = @ + 1]

-----------------------------------------------------------------------------
(* The child.                                                              *)

\* _execution_control_loop and apply_execution_control_payload.
ReadControl ==
  /\ Working /\ control.file # Now.applied
  /\ control' = [control EXCEPT !.child.applied = control.file,
                                !.lines = Append(@, <<control.file>>)]

\* Pages say nothing of the control: of several in a row one line is kept.
Printed(lines) == IF lines # <<>> /\ Last(lines) = <<>> THEN lines ELSE Append(lines, <<>>)

\* The call for a page waits for the pause to end, and returns.
Call == Working /\ Now.page = "none" /\ ~ Now.applied.paused
        /\ control' = [control EXCEPT !.child.page = "called"]
PageDone == Working /\ Now.page = "called"
            /\ control' = [control EXCEPT !.child.page = "none", !.lines = Printed(@)]

\* No page is left, or the child is stopped with its pages.  (Told to stop it ends
\* its control loop, paused or not, so that a paused page has to be killed.)
Ends == Working /\ control' = [control EXCEPT !.child.stage = "gone"]

Watch == Look \/ Post
ReadEvents == Read \/ Forward
ReplayLane == Replay \/ Replayed
Page == Call \/ PageDone
ControlNext ==
  HostTurns \/ Claim \/ Watch \/ ReadEvents \/ ReplayLane \/ ReadControl \/ Page \/ Ends

-----------------------------------------------------------------------------
(* Properties.                                                             *)

\* Once the host stays as it is, a child that goes on is paused if and only if
\* the host is short.
PauseIsOfHost == Working => (Now.applied.paused <=> Constrained(Pressed))

\* And a child that is not paused is not shown as paused, nor with another limit
\* or reason than it runs with, whatever was sent again in the meantime.  (A
\* paused one may be shown as running: a stale update that is sent again has no
\* later report to correct it.)
ShownIsApplied == Working /\ ~ Now.applied.paused => control.shown = Now.applied
=============================================================================
