------------------------------ MODULE JobEvents ------------------------------
(***************************************************************************)
(* Events on their way from the agents to the counters of a job            *)
(* (agent/client.py, control/domains/jobs/events.py and counters.py).      *)
(*                                                                         *)
(* An agent forwards the events of a file one after the other.  What the   *)
(* control plane does not answer goes to a spool file, which another lane  *)
(* of the agent replays, oldest first, while the first goes on: an event   *)
(* is delivered at least once, perhaps twice at a time.  The handler of an *)
(* event reads the counters of the job and whether it has seen the event   *)
(* before it takes any lock, and writes what it read plus one.             *)
(***************************************************************************)
EXTENDS Integers, FiniteSets, Sequences

CONSTANTS Agents, Files,
          EventLimit,   \* job_event_detail_limit: rows kept, all if negative
          SpoolLimit,   \* records a spool holds: pending_spool_max_bytes
          MaxFaults     \* bound: failed calls, timeouts and crashes

ASSUME LimitsAssumption ==
  EventLimit \in Int /\ SpoolLimit \in Nat \ {0} /\ MaxFaults \in Nat

VARIABLES
  work,       \* per agent: the file it executes, how it ends, what is emitted
  lane,       \* per agent and lane: the event it waits for an answer to
  walk,       \* per agent: the spooled events its replay still has to send
  spool,      \* per agent: the spool file
  givenUp,    \* per agent: events quarantined, trimmed or cut off by a crash
  handlers,   \* the control plane's requests in progress
  counter,    \* JobCounter, by event type
  rows,       \* JobEvent rows, oldest first
  recorded,   \* every event ever recorded (auxiliary)
  refuses,    \* the events the control plane answers with a client error
  faults

eventVars == <<work, lane, walk, spool, givenUp, handlers, counter, rows,
               recorded, refuses, faults>>

-----------------------------------------------------------------------------
Endings == {"file_done", "file_failed"}
Types == {"file_started", "page_done"} \cup Endings
Event == [type : Types, file : Files]
Lanes == {"direct", "replay"}
Nothing == [type |-> "none"]

\* The events of an execution, in order.
Emission(w) == <<"file_started", "page_done", w.ending>>
EventAt(w, n) == [type |-> Emission(w)[n], file |-> w.file]
Emitted(a) == {EventAt(work[a], n) : n \in 1 .. work[a].next - 1}

Work == [file : Files, ending : Endings, next : 1 .. 4, over : BOOLEAN]
Handler == [agent : Agents, lane : Lanes \cup {"late"}, event : Event,
            phase : {"arrived", "read", "recorded", "refused"},
            count : Nat, seen : BOOLEAN]

EventsInit ==
  /\ work \in [Agents -> [file : Files, ending : Endings, next : {1}, over : {FALSE}]]
  /\ lane = [a \in Agents |-> [l \in Lanes |-> Nothing]]
  /\ walk = [a \in Agents |-> <<>>]
  /\ spool = [a \in Agents |-> <<>>]
  /\ givenUp = [a \in Agents |-> {}]
  /\ handlers = {}
  /\ counter = [t \in Types |-> 0]
  /\ rows = <<>>
  /\ recorded = {}
  /\ refuses \in {{}, {[type |-> "page_done", file |-> f] : f \in Files}}
  /\ faults = 0

Fault == faults < MaxFaults /\ faults' = faults + 1

-----------------------------------------------------------------------------
(* The spool file: EventSpool.                                             *)

InSeq(e, s) == \E i \in DOMAIN s : s[i] = e

\* Beyond the limit only the newest records stay (JSONL_SPOOL_TRIM_TARGET_RATIO).
Kept == (SpoolLimit * 4) \div 5
Overfull(s) == Len(s) > SpoolLimit
Trimmed(s) == IF Overfull(s) THEN SubSeq(s, Len(s) - Kept + 1, Len(s)) ELSE s
CutOff(s) == IF Overfull(s) THEN {s[i] : i \in 1 .. Len(s) - Kept} ELSE {}

AppendToSpool(a, e) ==
  /\ spool' = [spool EXCEPT ![a] = Trimmed(Append(@, e))]
  /\ givenUp' = [givenUp EXCEPT ![a] = @ \cup CutOff(Append(spool[a], e))]

WithoutFirst(s, e) ==
  IF ~InSeq(e, s) THEN s
    ELSE LET i == CHOOSE j \in DOMAIN s : s[j] = e /\ (\A k \in 1 .. j - 1 : s[k] # e)
         IN  SubSeq(s, 1, i - 1) \o SubSeq(s, i + 1, Len(s))

\* Mutant: the file is rewritten with what is left of the snapshot.
AcknowledgeRewrites(a, e) == spool' = [spool EXCEPT ![a] = Tail(walk[a])]

Acknowledge(a, e) == spool' = [spool EXCEPT ![a] = WithoutFirst(@, e)]

-----------------------------------------------------------------------------
(* The lanes of an agent: post_event and replay_spooled_events.            *)

Request(a, l, e) ==
  handlers \cup {[agent |-> a, lane |-> l, event |-> e, phase |-> "arrived",
                  count |-> 0, seen |-> FALSE]}

Emit(a) ==
  LET e == EventAt(work[a], work[a].next)
  IN  /\ ~work[a].over /\ work[a].next <= 3
      /\ lane[a]["direct"] = Nothing
      /\ work' = [work EXCEPT ![a].next = @ + 1]
      /\ lane' = [lane EXCEPT ![a]["direct"] = e]
      /\ handlers' = Request(a, "direct", e)
      /\ UNCHANGED <<walk, spool, givenUp, counter, rows, recorded, refuses, faults>>

\* The replay reads the whole file and walks what it read.
StartReplay(a) ==
  /\ walk[a] = <<>> /\ spool[a] # <<>>
  /\ walk' = [walk EXCEPT ![a] = spool[a]]
  /\ UNCHANGED <<work, lane, spool, givenUp, handlers, counter, rows, recorded,
                 refuses, faults>>

ReplayNext(a) ==
  /\ walk[a] # <<>> /\ lane[a]["replay"] = Nothing
  /\ lane' = [lane EXCEPT ![a]["replay"] = Head(walk[a])]
  /\ handlers' = Request(a, "replay", Head(walk[a]))
  /\ UNCHANGED <<work, walk, spool, givenUp, counter, rows, recorded, refuses, faults>>

\* A success: nothing more for the forwarder, one record less for the replay.
Answered(a, l, h) ==
  /\ h.agent = a /\ h.lane = l /\ h.phase = "recorded"
  /\ handlers' = handlers \ {h}
  /\ lane' = [lane EXCEPT ![a][l] = Nothing]
  /\ IF l = "replay"
       THEN Acknowledge(a, h.event) /\ walk' = [walk EXCEPT ![a] = Tail(@)]
       ELSE UNCHANGED <<spool, walk>>
  /\ UNCHANGED <<work, givenUp, counter, rows, recorded, refuses, faults>>

\* Mutant: a refused record stays in the file and the walk ends.
RefusedStays(a, l, h) ==
  /\ h.agent = a /\ h.lane = l /\ h.phase = "refused"
  /\ handlers' = handlers \ {h}
  /\ lane' = [lane EXCEPT ![a][l] = Nothing]
  /\ IF l = "replay"
       THEN walk' = [walk EXCEPT ![a] = <<>>] /\ UNCHANGED <<work, givenUp>>
       ELSE /\ work' = [work EXCEPT ![a].over = TRUE]
            /\ givenUp' = [givenUp EXCEPT ![a] = @ \cup {h.event}]
            /\ UNCHANGED walk
  /\ UNCHANGED <<spool, counter, rows, recorded, refuses, faults>>

\* A client error raises out of the forwarder and ends the execution; the
\* replay quarantines the record and goes on.
Refused(a, l, h) ==
  /\ h.agent = a /\ h.lane = l /\ h.phase = "refused"
  /\ handlers' = handlers \ {h}
  /\ lane' = [lane EXCEPT ![a][l] = Nothing]
  /\ givenUp' = [givenUp EXCEPT ![a] = @ \cup {h.event}]
  /\ IF l = "replay"
       THEN /\ Acknowledge(a, h.event)
            /\ walk' = [walk EXCEPT ![a] = Tail(@)]
            /\ UNCHANGED work
       ELSE /\ work' = [work EXCEPT ![a].over = TRUE]
            /\ UNCHANGED <<spool, walk>>
  /\ UNCHANGED <<counter, rows, recorded, refuses, faults>>

\* A request that goes on without anybody waiting for its answer.
Abandoned(h) == (handlers \ {h}) \cup
                  (IF h.phase \in {"arrived", "read"} THEN {[h EXCEPT !.lane = "late"]} ELSE {})

\* The walk ends at a record that was not answered.
UnansweredBreaks(a) == walk' = [walk EXCEPT ![a] = <<>>]

\* A server error, a lost answer or a timeout: the event goes to the spool, or
\* stays there and the walk ends.  The handler may still be running.
Unanswered(a, l, h) ==
  /\ h.agent = a /\ h.lane = l
  /\ Fault
  /\ \/ handlers' = Abandoned(h)
     \/ h.phase \in {"arrived", "read"} /\ handlers' = handlers \ {h}
  /\ lane' = [lane EXCEPT ![a][l] = Nothing]
  /\ IF l = "replay"
       THEN UnansweredBreaks(a) /\ UNCHANGED <<spool, givenUp>>
       ELSE AppendToSpool(a, h.event) /\ UNCHANGED walk
  /\ UNCHANGED <<work, counter, rows, recorded, refuses>>

\* The agent dies and comes back for the spool only: what it executed is
\* executed by another attempt, and the event on its way is not on its disk.
Crash(a) ==
  /\ Fault
  /\ work' = [work EXCEPT ![a].over = TRUE]
  /\ lane' = [lane EXCEPT ![a] = [l \in Lanes |-> Nothing]]
  /\ walk' = [walk EXCEPT ![a] = <<>>]
  /\ givenUp' = [givenUp EXCEPT ![a] = @ \cup ({lane[a]["direct"]} \ {Nothing})]
  /\ handlers' = {h \in handlers : h.agent # a \/ h.lane = "late"} \cup
                   {[h EXCEPT !.lane = "late"] : h \in
                      {k \in handlers : k.agent = a /\ k.phase \in {"arrived", "read"}}}
  /\ UNCHANGED <<spool, counter, rows, recorded, refuses>>

-----------------------------------------------------------------------------
(* The control plane: record_event.                                        *)

\* What prune_job_detail_rows keeps first: failures, then ends, then the newest.
Rank(r) == CASE r[2].type = "file_failed" -> 2
             [] r[2].type = "file_done" -> 1
             [] OTHER -> 0
Before(r, q) ==
  \/ Rank(r) > Rank(q)
  \/ Rank(r) = Rank(q) /\ r[1] > q[1]

\* No rows are even written if the limit is zero.
Pruned(s) ==
  LET numbered == {<<i, s[i]>> : i \in DOMAIN s}
      keeps(i) == Cardinality({r \in numbered : Before(r, <<i, s[i]>>)}) < EventLimit
      kept == SelectSeq([i \in DOMAIN s |-> <<i, s[i]>>], LAMBDA r : keeps(r[1]))
  IN  IF EventLimit < 0 THEN s ELSE [i \in DOMAIN kept |-> kept[i][2]]

\* Mutant: a repeated event is not recognised.
NeverSeen(e) == FALSE

\* job_counter_event_already_seen.
Seen(e) == InSeq(e, rows)

\* Mutant: a count that is missing is read as minus one.
ReadCounterAsked(h) ==
  /\ h.phase = "arrived"
  /\ handlers' = (handlers \ {h}) \cup
       {[h EXCEPT !.phase = "read", !.count = counter[h.event.type] - 1,
                  !.seen = Seen(h.event)]}
  /\ UNCHANGED <<work, lane, walk, spool, givenUp, counter, rows, recorded,
                 refuses, faults>>

\* get_or_create_job_counter, parse_page_no, job_counter_event_already_seen: no
\* lock is held yet.
ReadCounter(h) ==
  /\ h.phase = "arrived"
  /\ handlers' = (handlers \ {h}) \cup
       (IF h.event \in refuses
          THEN (IF h.lane = "late" THEN {} ELSE {[h EXCEPT !.phase = "refused"]})
          ELSE {[h EXCEPT !.phase = "read", !.count = counter[h.event.type],
                          !.seen = Seen(h.event)]})
  /\ UNCHANGED <<work, lane, walk, spool, givenUp, counter, rows, recorded,
                 refuses, faults>>

\* The counter is written as it was read, plus one.
Counted(h) == h.count + 1

\* The first flush locks the counter row; the rest of the transaction follows.
Record(h) ==
  /\ h.phase = "read"
  /\ counter' = IF h.seen THEN counter ELSE [counter EXCEPT ![h.event.type] = Counted(h)]
  /\ rows' = Pruned(Append(rows, h.event))
  /\ recorded' = recorded \cup {h.event}
  /\ handlers' = (handlers \ {h}) \cup
       (IF h.lane = "late" THEN {} ELSE {[h EXCEPT !.phase = "recorded"]})
  /\ UNCHANGED <<work, lane, walk, spool, givenUp, refuses, faults>>

-----------------------------------------------------------------------------
Handling == \E h \in handlers : ReadCounter(h) \/ Record(h)
Answering(a, l) == \E h \in handlers : Answered(a, l, h) \/ Refused(a, l, h)

EventsNext ==
  \/ \E a \in Agents :
       \/ Emit(a) \/ StartReplay(a) \/ ReplayNext(a) \/ Crash(a)
       \/ \E l \in Lanes : Answering(a, l) \/ (\E h \in handlers : Unanswered(a, l, h))
  \/ Handling

EventsSpec == EventsInit /\ [][EventsNext]_eventVars

\* Requests are handled and answered, and the replay lane keeps its loop up.
FairEventsSpec ==
  /\ EventsSpec
  /\ WF_eventVars(Handling)
  /\ \A a \in Agents :
       /\ WF_eventVars(StartReplay(a)) /\ WF_eventVars(ReplayNext(a))
       /\ \A l \in Lanes : WF_eventVars(Answering(a, l))

-----------------------------------------------------------------------------
(* Types. *)
EventsTypeOK ==
  /\ work \in [Agents -> Work]
  /\ lane \in [Agents -> [Lanes -> Event \cup {Nothing}]]
  /\ walk \in [Agents -> Seq(Event)]
  /\ spool \in [Agents -> Seq(Event)]
  /\ givenUp \in [Agents -> SUBSET Event]
  /\ handlers \subseteq Handler
  /\ counter \in [Types -> Nat]
  /\ rows \in Seq(Event)
  /\ recorded \subseteq Event
  /\ refuses \subseteq Event
  /\ faults \in Nat

\* No counter runs ahead of what happened, though events come twice and
\* handlers overlap: a stale read can lose a count but not invent one.
NeverOvercounted ==
  \A t \in Types : counter[t] <= Cardinality({e \in recorded : e.type = t})

\* Counters are of their types and do not run ahead of what happened.
CountsSound == EventsTypeOK /\ NeverOvercounted

\* Nothing an agent emitted disappears: it waits for an answer, is on disk, was
\* recorded, or was given up where that is on record (the quarantine file, the
\* count of dropped records, a crash).
EventsAccounted ==
  \A a \in Agents : \A e \in Emitted(a) :
    \/ e \in recorded \cup givenUp[a]
    \/ lane[a]["direct"] = e
    \/ InSeq(e, spool[a])

\* A file that is spooled gets empty again, the records the control plane
\* refuses included.
SpoolEmpties == \A a \in Agents : (spool[a] # <<>>) ~> (spool[a] = <<>>)

\* A repeated event is counted once: the summary after a replay is that of the
\* events themselves.
CountedOnce == NeverOvercounted

\* When nothing is on its way any more, what was recorded is counted.
Settled ==
  /\ handlers = {}
  /\ \A a \in Agents : spool[a] = <<>>
EverythingCounted ==
  Settled => \A t \in Types : counter[t] = Cardinality({e \in recorded : e.type = t})
=============================================================================
