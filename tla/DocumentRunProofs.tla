------------------------- MODULE DocumentRunProofs --------------------------
(***************************************************************************)
(* That a document loses no page between producer, queue and consumers,    *)
(* and that the output directory of a parser tells the truth about what it *)
(* has done, for every value of the constants of DocumentRun; that the     *)
(* text of every document is kept (PageText), and the images that its      *)
(* files link to (PageImages).                                             *)
(***************************************************************************)
EXTENDS MCDocumentRun, SequenceTheorems, FiniteSetTheorems, WellFoundedInduction, TLAPS

USE DocumentAssumption

-----------------------------------------------------------------------------
(* The inductive invariants.                                               *)

Places == {"down", "checking", "opening", "parsing", "writing", "finishing",
           "raised", "announcing", "ending", "ended"}
Verdicts == {"none", "success", "failed", "skipped", "raised"}

\* A process has the fields it starts with, and its counts are in order.
ProcessOK(p) ==
  /\ DOMAIN p = DOMAIN Down
  /\ p.at \in Places /\ p.verdict \in Verdicts
  /\ p.shutdown \in BOOLEAN /\ p.blocked \in BOOLEAN
  /\ p.expected \in 0 .. NPages
  /\ p.queued \in 0 .. p.expected /\ p.written \in 0 .. p.expected
  /\ p.at \in {"checking", "opening", "parsing"} => p.written = 0
  /\ p.ends \in 0 .. Cardinality(Consumers)
  /\ p.queue \in Seq(Pages \cup {End}) /\ Len(p.queue) <= QueueSize
  /\ p.busy \in [Consumers -> Pages \cup {Idle, End}]
  /\ p.result \in [Pages -> Int]

Queued(p, v) == \E i \in 1 .. Len(p.queue) : p.queue[i] = v
Busy(p, v) == \E c \in Consumers : p.busy[c] = v

\* The end marks come after the last page and before the first consumer that
\* leaves, so that a page that was queued is in the queue, under way or done.
QueueOK(p) ==
  /\ \A i, j \in 1 .. Len(p.queue) : i <= j /\ p.queue[i] = End => p.queue[j] = End
  /\ Queued(p, End) \/ Busy(p, End) => p.queued = p.expected
  /\ Busy(p, End) => \A i \in 1 .. Len(p.queue) : p.queue[i] = End
  /\ \A q \in 1 .. p.queued : Queued(p, q) \/ Busy(p, q) \/ p.result[q] # Absent

\* What is put together has a result for every page.
Collected(p) ==
  p.at \in {"writing", "finishing"} => \A q \in 1 .. p.expected : p.result[q] # Absent

Sound(p) == ProcessOK(p) /\ QueueOK(p) /\ Collected(p)

\* The inductive invariant of producers and consumers.
PagesInv ==
  /\ parser = [x \in Parsers |-> parser[x]]
  /\ input \in Nat \ {0}
  /\ \A x \in Parsers : Sound(parser[x])

-----------------------------------------------------------------------------
(* Fields.                                                                 *)

\* What Becomes leaves of a process.
LEMMA BecomesFields ==
  ASSUME NEW x \in Parsers, NEW changes, Becomes(x, changes),
         parser = [y \in Parsers |-> parser[y]]
  PROVE  /\ parser' = [y \in Parsers |-> parser'[y]]
         /\ \A y \in Parsers : y # x => parser'[y] = parser[y]
         /\ DOMAIN parser'[x] = DOMAIN parser[x]
         /\ \A f \in DOMAIN parser[x] :
              parser'[x][f] = IF f \in DOMAIN changes THEN changes[f] ELSE parser[x][f]
BY DEF Becomes

\* A process at its start.
LEMMA DownFields ==
  /\ DOMAIN Down = {"at", "row", "shutdown", "verdict", "queued", "expected", "blocked",
                    "ends", "queue", "busy", "result", "md", "written"}
  /\ Down.at = "down" /\ Down.row = 1 /\ Down.shutdown = FALSE /\ Down.verdict = "none"
  /\ Down.queued = 0 /\ Down.expected = NPages /\ Down.blocked = FALSE /\ Down.ends = 0
  /\ Down.queue = <<>> /\ Down.busy = [c \in Consumers |-> Idle]
  /\ Down.result = Blank /\ Down.md = NoName /\ Down.written = 0
BY DEF Down

-----------------------------------------------------------------------------
(* Processes.                                                              *)

\* A run starts with an empty queue.
LEMMA DownSound == Sound(Down)
<1> USE DownFields DEF Pages, End, Idle, Absent, Blank
<1>1. Cardinality(Consumers) \in Nat
  BY FS_CardinalityType
<1>2. <<>> \in Seq(Pages \cup {End}) /\ Len(<<>>) = 0
  OBVIOUS
<1>3. Down.queue \in Seq(Pages \cup {End}) /\ Len(Down.queue) <= QueueSize
  BY <1>2
<1>4. Down.busy \in [Consumers -> Pages \cup {Idle, End}] /\ Down.result \in [Pages -> Int]
  OBVIOUS
<1>5. Down.at \in Places /\ Down.verdict \in Verdicts /\ Down.shutdown \in BOOLEAN /\ Down.blocked \in BOOLEAN
  BY DEF Places, Verdicts
<1>7. /\ Down.expected \in 0 .. NPages /\ Down.ends \in 0 .. Cardinality(Consumers)
      /\ Down.queued \in 0 .. Down.expected /\ Down.written \in 0 .. Down.expected
  BY <1>1
<1>8. Down.written = 0
  OBVIOUS
<1>9. ProcessOK(Down)
  <2> HIDE DownFields DEF Pages, End, Idle, Absent, Blank
  <2> QED
    BY <1>3, <1>4, <1>5, <1>7, <1>8 DEF ProcessOK
<1>6. QueueOK(Down)
  BY DEF QueueOK, Queued, Busy
<1> QED
  BY <1>9, <1>6 DEF Sound, Collected

\* What a step leaves of the queue, the consumers and the results.
SameQueue(p, r) ==
  /\ DOMAIN r = DOMAIN p
  /\ r.queued = p.queued /\ r.expected = p.expected /\ r.ends = p.ends
  /\ r.queue = p.queue /\ r.busy = p.busy /\ r.result = p.result

\* What a step makes of the rest.
RestOK(r) ==
  /\ r.at \in Places /\ r.verdict \in Verdicts
  /\ r.shutdown \in BOOLEAN /\ r.blocked \in BOOLEAN
  /\ r.written \in 0 .. r.expected
  /\ r.at \in {"checking", "opening", "parsing"} => r.written = 0

LEMMA SameQueueSound ==
  ASSUME NEW p, NEW r, Sound(p), SameQueue(p, r), RestOK(r), Collected(r)
  PROVE  Sound(r)
<1>1. ProcessOK(r)
  BY DEF Sound, ProcessOK, SameQueue, RestOK
<1>2. QueueOK(r)
  BY DEF Sound, QueueOK, SameQueue, Queued, Busy
<1> QED
  BY <1>1, <1>2 DEF Sound

\* The steps that touch neither queue nor results: what they may make of at, and
\* of the other fields.
Passes(p, r) ==
  /\ SameQueue(p, r)
  /\ r.at \in Places /\ r.verdict \in Verdicts
  /\ r.shutdown \in BOOLEAN /\ r.blocked \in BOOLEAN /\ r.written = p.written
  /\ r.at \in {"checking", "opening", "parsing"} => p.at \in {"checking", "opening", "parsing"}
  /\ r.at \in {"writing", "finishing"} => p.at \in {"writing", "finishing"}

LEMMA PassingSound ==
  ASSUME NEW p, NEW r, Sound(p), Passes(p, r)
  PROVE  Sound(r)
<1>1. RestOK(r)
  BY DEF Sound, ProcessOK, Passes, SameQueue, RestOK
<1>2. Collected(r)
  BY DEF Sound, Collected, Passes, SameQueue
<1> QED
  BY <1>1, <1>2, SameQueueSound DEF Passes

-----------------------------------------------------------------------------
(* Steps.                                                                  *)

\* A step of process x leaves the others alone.
Alone(x) ==
  /\ parser' = [y \in Parsers |-> parser'[y]]
  /\ \A y \in Parsers : y # x => parser'[y] = parser[y]

LEMMA PassingSteps ==
  ASSUME PagesInv, NEW x \in Parsers,
         \/ LeaveOut(x) \/ CheckLocal(x) \/ RefuseStale(x) \/ CheckRecord(x)
         \/ ParseFile(x) \/ BlockOnQueue(x) \/ FinishDocument(x) \/ WriteSidecar(x)
         \/ Raise(x) \/ SidecarAfterError(x) \/ Announce(x) \/ EndRun(x) \/ Signal(x)
  PROVE  Alone(x) /\ Sound(parser'[x])
<1> DEFINE p == parser[x]
           r == parser'[x]
<1>1. /\ Sound(p) /\ DOMAIN p = DOMAIN Down /\ parser = [y \in Parsers |-> parser[y]]
      /\ p.at \in Places /\ p.verdict \in Verdicts
      /\ p.shutdown \in BOOLEAN /\ p.blocked \in BOOLEAN
  BY DEF PagesInv, Sound, ProcessOK
<1> SUFFICES Alone(x) /\ Passes(p, r)
  BY <1>1, PassingSound
<1> USE DEF Alone, Passes, SameQueue, Places, Verdicts
<1>2. CASE LeaveOut(x)
  <2>1. Becomes(x, [at |-> "ending"])
    BY <1>2 DEF LeaveOut
  <2> QED
    BY <1>1, <1>2, <2>1, BecomesFields, DownFields DEF LeaveOut
<1>3. CASE CheckLocal(x)
  <2>1. Becomes(x, [at |-> "opening"])
    BY <1>3 DEF CheckLocal
  <2> QED
    BY <1>1, <1>3, <2>1, BecomesFields, DownFields DEF CheckLocal
<1>4. CASE RefuseStale(x)
  <2>1. Becomes(x, [at |-> "announcing", verdict |-> "failed"])
    BY <1>4 DEF RefuseStale
  <2> QED
    BY <1>1, <1>4, <2>1, BecomesFields, DownFields DEF RefuseStale
<1>5. CASE BlockOnQueue(x)
  <2>1. Becomes(x, [blocked |-> TRUE])
    BY <1>5 DEF BlockOnQueue
  <2>2. \A f \in DOMAIN p : f # "blocked" => r[f] = p[f]
    BY <1>1, <2>1, BecomesFields
  <2>3. r.blocked \in BOOLEAN
    <3>1. DOMAIN [blocked |-> TRUE] = {"blocked"} /\ [blocked |-> TRUE]["blocked"] = TRUE
      OBVIOUS
    <3> HIDE DEF p, r
    <3> QED
      BY <1>1, <2>1, <3>1, BecomesFields, DownFields DEF p, r
  <2> QED
    BY <1>1, <2>1, <2>2, <2>3, BecomesFields, DownFields
<1>6. CASE WriteSidecar(x)
  <2>1. Becomes(x, [at |-> "announcing"])
    BY <1>6 DEF WriteSidecar
  <2> QED
    BY <1>1, <1>6, <2>1, BecomesFields, DownFields DEF WriteSidecar
<1>7. CASE SidecarAfterError(x)
  <2>1. Becomes(x, [at |-> "announcing", verdict |-> "failed"])
    BY <1>7 DEF SidecarAfterError
  <2> QED
    BY <1>1, <1>7, <2>1, BecomesFields, DownFields DEF SidecarAfterError
<1>8. CASE Announce(x)
  <2>1. Becomes(x, [at |-> "ending"])
    BY <1>8 DEF Announce
  <2> QED
    BY <1>1, <1>8, <2>1, BecomesFields, DownFields DEF Announce
<1>9. CASE EndRun(x)
  <2>1. Becomes(x, [at |-> "ended"])
    BY <1>9 DEF EndRun
  <2> QED
    BY <1>1, <1>9, <2>1, BecomesFields, DownFields DEF EndRun
<1>10. CASE Signal(x)
  <2>1. Becomes(x, [shutdown |-> TRUE])
    BY <1>10 DEF Signal
  <2>2. \A f \in DOMAIN p : f # "shutdown" => r[f] = p[f]
    BY <1>1, <2>1, BecomesFields
  <2>3. r.shutdown \in BOOLEAN
    <3>1. DOMAIN [shutdown |-> TRUE] = {"shutdown"} /\ [shutdown |-> TRUE]["shutdown"] = TRUE
      OBVIOUS
    <3> HIDE DEF p, r
    <3> QED
      BY <1>1, <2>1, <3>1, BecomesFields, DownFields DEF p, r
  <2> QED
    BY <1>1, <2>1, <2>2, <2>3, BecomesFields, DownFields
<1>11. CASE FinishDocument(x)
  <2>1. Becomes(x, [at |-> "finishing", verdict |-> Status(x)]) /\ Status(x) \in Verdicts
    BY <1>11 DEF FinishDocument, Status
  <2> QED
    BY <1>1, <1>11, <2>1, BecomesFields, DownFields DEF FinishDocument
<1>12. CASE CheckRecord(x)
  <2>1. p.at = "checking"
    BY <1>12 DEF CheckRecord
  <2>2. CASE Becomes(x, [at |-> "announcing", verdict |-> "skipped", md |-> sidecar.md])
    BY <1>1, <2>1, <2>2, BecomesFields, DownFields
  <2>3. CASE Becomes(x, [at |-> "opening"])
    BY <1>1, <2>1, <2>3, BecomesFields, DownFields
  <2> QED
    BY <1>12, <2>2, <2>3 DEF CheckRecord
<1>13. CASE ParseFile(x)
  <2>1. p.at = "opening"
    BY <1>13 DEF ParseFile
  <2>2. CASE Becomes(x, [at |-> "announcing", verdict |-> "skipped", md |-> AcceptedFile])
    BY <1>1, <2>1, <2>2, BecomesFields, DownFields
  <2>3. CASE Becomes(x, [at |-> "parsing"])
    BY <1>1, <2>1, <2>3, BecomesFields, DownFields
  <2> QED
    BY <1>13, <2>2, <2>3 DEF ParseFile
<1>14. CASE Raise(x)
  <2>1. CASE Becomes(x, [at |-> "raised"])
    BY <1>1, <2>1, BecomesFields, DownFields
  <2>2. CASE Becomes(x, [at |-> "ending", verdict |-> "raised"])
    BY <1>1, <2>2, BecomesFields, DownFields
  <2> QED
    BY <1>14, <2>1, <2>2 DEF Raise
<1> QED
  BY <1>2, <1>3, <1>4, <1>5, <1>6, <1>7, <1>8, <1>9, <1>10, <1>11, <1>12, <1>13, <1>14

\* A step that changes no more than the fields of S.
Keeps(p, r, S) ==
  DOMAIN r = DOMAIN p /\ \A f \in DOMAIN p \ S : r[f] = p[f]

\* An element at the end of a queue.
LEMMA Appended ==
  ASSUME NEW S, NEW q \in Seq(S), NEW v \in S
  PROVE  /\ Append(q, v) \in Seq(S) /\ Len(Append(q, v)) = Len(q) + 1
         /\ Append(q, v)[Len(q) + 1] = v
         /\ \A i \in 1 .. Len(q) : Append(q, v)[i] = q[i]
BY AppendProperties

\* A queue without its first element.
LEMMA Beheaded ==
  ASSUME NEW S, NEW q \in Seq(S), q # <<>>
  PROVE  /\ Head(q) \in S /\ Head(q) = q[1] /\ 1 \in 1 .. Len(q)
         /\ Tail(q) \in Seq(S) /\ Len(Tail(q)) = Len(q) - 1
         /\ \A i \in 1 .. Len(Tail(q)) : i + 1 \in 1 .. Len(q) /\ Tail(q)[i] = q[i + 1]
         /\ \A i \in 1 .. Len(q) : i = 1 \/ (i - 1 \in 1 .. Len(Tail(q)) /\ Tail(q)[i - 1] = q[i])
<1>1. /\ Len(q) \in Nat \ {0} /\ Head(q) = q[1] /\ Tail(q) \in Seq(S) /\ Len(Tail(q)) = Len(q) - 1
      /\ \A i \in 1 .. Len(Tail(q)) : Tail(q)[i] = q[i + 1]
  BY HeadTailProperties
<1>2. q[1] \in S
  BY <1>1
<1> QED
  BY <1>1, <1>2

\* A page more: no end mark has been seen, and it is in the queue.
LEMMA PageQueued ==
  ASSUME NEW p, NEW r, Sound(p), DOMAIN p = DOMAIN Down, p.at = "parsing",
         Keeps(p, r, {"queue", "queued", "blocked"}),
         p.queued < p.expected, Len(p.queue) < QueueSize,
         r.queue = Append(p.queue, p.queued + 1), r.queued = p.queued + 1,
         r.blocked \in BOOLEAN
  PROVE  Sound(r)
<1> DEFINE k == p.queued + 1
<1>1. /\ r.at = p.at /\ r.verdict = p.verdict /\ r.shutdown = p.shutdown
      /\ r.expected = p.expected /\ r.written = p.written /\ r.ends = p.ends
      /\ r.busy = p.busy /\ r.result = p.result
  BY DownFields DEF Keeps
<1>2. p.queue \in Seq(Pages \cup {End}) /\ p.queued \in Nat /\ p.expected \in 0 .. NPages
  BY DEF Sound, ProcessOK
<1>3. k \in Pages /\ k # End
  BY <1>2 DEF Pages, End
<1>4. /\ r.queue \in Seq(Pages \cup {End}) /\ Len(r.queue) = Len(p.queue) + 1
      /\ r.queue[Len(p.queue) + 1] = k
      /\ \A i \in 1 .. Len(p.queue) : r.queue[i] = p.queue[i]
      /\ Len(p.queue) \in Nat
  BY <1>2, <1>3, Appended
<1>5. ProcessOK(r)
  <2>1. r.queued \in 0 .. r.expected /\ Len(r.queue) <= QueueSize
    BY <1>1, <1>2, <1>4
  <2> QED
    BY <1>1, <1>4, <2>1 DEF Sound, ProcessOK, Keeps
<1>6. ~Queued(p, End) /\ ~Busy(p, End)
  BY <1>2 DEF Sound, QueueOK
<1>7. ~Queued(r, End) /\ ~Busy(r, End)
  BY <1>1, <1>3, <1>4, <1>6 DEF Queued, Busy
<1>8. \A q \in 1 .. r.queued : Queued(r, q) \/ Busy(r, q) \/ r.result[q] # Absent
  <2> SUFFICES ASSUME NEW q \in 1 .. r.queued
               PROVE  Queued(r, q) \/ Busy(r, q) \/ r.result[q] # Absent
    OBVIOUS
  <2>1. CASE q = k
    BY <2>1, <1>4 DEF Queued
  <2>2. CASE q # k
    <3>1. q \in 1 .. p.queued
      BY <2>2, <1>2
    <3>2. Queued(p, q) \/ Busy(p, q) \/ p.result[q] # Absent
      BY <3>1 DEF Sound, QueueOK
    <3> QED
      BY <3>2, <1>1, <1>4 DEF Queued, Busy
  <2> QED
    BY <2>1, <2>2
<1>9. QueueOK(r)
  BY <1>7, <1>8 DEF QueueOK, Queued
<1> QED
  BY <1>1, <1>5, <1>9 DEF Sound, Collected

\* Production cut short: what is queued is all there is.
LEMMA ProductionCut ==
  ASSUME NEW p, NEW r, Sound(p), DOMAIN p = DOMAIN Down, p.at = "parsing",
         Keeps(p, r, {"expected"}), r.expected = p.queued
  PROVE  Sound(r)
<1>1. /\ r.at = p.at /\ r.verdict = p.verdict /\ r.shutdown = p.shutdown
      /\ r.queued = p.queued /\ r.written = p.written /\ r.ends = p.ends
      /\ r.busy = p.busy /\ r.result = p.result /\ r.blocked = p.blocked /\ r.queue = p.queue
  BY DownFields DEF Keeps
<1>2. p.queued \in Nat /\ p.expected \in 0 .. NPages /\ p.queued <= p.expected /\ p.written = 0
  BY DEF Sound, ProcessOK
<1>3. r.expected \in 0 .. NPages /\ r.queued \in 0 .. r.expected /\ r.written \in 0 .. r.expected
  BY <1>1, <1>2
<1>4. ProcessOK(r)
  BY <1>1, <1>3 DEF Sound, ProcessOK, Keeps
<1>5. QueueOK(r)
  BY <1>1 DEF Sound, QueueOK, Queued, Busy
<1> QED
  BY <1>1, <1>4, <1>5 DEF Sound, Collected

\* An end mark more: all pages have been queued before it.
LEMMA EndQueued ==
  ASSUME NEW p, NEW r, Sound(p), DOMAIN p = DOMAIN Down, p.at = "parsing",
         Keeps(p, r, {"queue", "ends"}),
         ~(p.queued < p.expected), Len(p.queue) < QueueSize,
         p.ends < Cardinality(Consumers),
         r.queue = Append(p.queue, End), r.ends = p.ends + 1
  PROVE  Sound(r)
<1>1. /\ r.at = p.at /\ r.verdict = p.verdict /\ r.shutdown = p.shutdown
      /\ r.expected = p.expected /\ r.written = p.written /\ r.queued = p.queued
      /\ r.busy = p.busy /\ r.result = p.result /\ r.blocked = p.blocked
  BY DownFields DEF Keeps
<1>2. /\ p.queue \in Seq(Pages \cup {End}) /\ p.queued \in Nat /\ p.expected \in 0 .. NPages
      /\ p.queued <= p.expected
  BY DEF Sound, ProcessOK
<1>3. /\ r.queue \in Seq(Pages \cup {End}) /\ Len(r.queue) = Len(p.queue) + 1
      /\ r.queue[Len(p.queue) + 1] = End
      /\ \A i \in 1 .. Len(p.queue) : r.queue[i] = p.queue[i]
      /\ Len(p.queue) \in Nat
  BY <1>2, Appended
<1>4. ProcessOK(r)
  <2>1. p.ends \in 0 .. Cardinality(Consumers) /\ Cardinality(Consumers) \in Nat
    BY FS_CardinalityType DEF Sound, ProcessOK
  <2>2. r.ends \in 0 .. Cardinality(Consumers) /\ Len(r.queue) <= QueueSize
    BY <1>2, <1>3, <2>1
  <2> QED
    BY <1>1, <1>3, <2>2 DEF Sound, ProcessOK, Keeps
<1>5. \A i, j \in 1 .. Len(r.queue) : i <= j /\ r.queue[i] = End => r.queue[j] = End
  <2>1. \A i, j \in 1 .. Len(p.queue) : i <= j /\ p.queue[i] = End => p.queue[j] = End
    BY DEF Sound, QueueOK
  <2> QED
    BY <1>3, <2>1
<1>6. r.queued = r.expected
  BY <1>1, <1>2
<1>7. Busy(r, End) => \A i \in 1 .. Len(r.queue) : r.queue[i] = End
  <2>1. Busy(p, End) => \A i \in 1 .. Len(p.queue) : p.queue[i] = End
    BY DEF Sound, QueueOK
  <2> QED
    BY <1>1, <1>3, <2>1 DEF Busy
<1>8. \A q \in 1 .. r.queued : Queued(r, q) \/ Busy(r, q) \/ r.result[q] # Absent
  <2>1. \A q \in 1 .. p.queued : Queued(p, q) \/ Busy(p, q) \/ p.result[q] # Absent
    BY DEF Sound, QueueOK
  <2> QED
    BY <1>1, <1>3, <2>1 DEF Queued, Busy
<1>9. QueueOK(r)
  BY <1>5, <1>6, <1>7, <1>8 DEF QueueOK
<1> QED
  BY <1>1, <1>4, <1>9 DEF Sound, Collected

\* A consumer takes the first element: a page, or an end mark with nothing but
\* end marks behind it.
LEMMA FirstTaken ==
  ASSUME NEW p, NEW r, Sound(p), DOMAIN p = DOMAIN Down, p.at = "parsing",
         Keeps(p, r, {"queue", "busy"}), NEW c \in Consumers,
         p.busy[c] = Idle, p.queue # <<>>,
         r.queue = Tail(p.queue), r.busy = [p.busy EXCEPT ![c] = Head(p.queue)]
  PROVE  Sound(r)
<1>1. /\ r.at = p.at /\ r.verdict = p.verdict /\ r.shutdown = p.shutdown
      /\ r.expected = p.expected /\ r.written = p.written /\ r.queued = p.queued
      /\ r.ends = p.ends /\ r.result = p.result /\ r.blocked = p.blocked
  BY DownFields DEF Keeps
<1>2. /\ p.queue \in Seq(Pages \cup {End}) /\ p.busy \in [Consumers -> Pages \cup {Idle, End}]
      /\ Len(p.queue) <= QueueSize /\ p.queued \in 0 .. p.expected /\ p.expected \in 0 .. NPages
  BY DEF Sound, ProcessOK
<1> DEFINE h == Head(p.queue)
<1>3. /\ h \in Pages \cup {End} /\ h = p.queue[1] /\ 1 \in 1 .. Len(p.queue)
      /\ r.queue \in Seq(Pages \cup {End}) /\ Len(r.queue) = Len(p.queue) - 1
      /\ \A i \in 1 .. Len(r.queue) : i + 1 \in 1 .. Len(p.queue) /\ r.queue[i] = p.queue[i + 1]
      /\ \A i \in 1 .. Len(p.queue) :
           i = 1 \/ (i - 1 \in 1 .. Len(r.queue) /\ r.queue[i - 1] = p.queue[i])
      /\ Len(p.queue) \in Nat
  BY <1>2, Beheaded
<1> HIDE DEF h
<1>4. r.busy[c] = h /\ \A d \in Consumers : d # c => r.busy[d] = p.busy[d]
  BY <1>2 DEF h
<1>5. ProcessOK(r)
  <2>1. r.busy \in [Consumers -> Pages \cup {Idle, End}]
    BY <1>2, <1>3 DEF h
  <2>2. Len(r.queue) <= QueueSize
    BY <1>2, <1>3
  <2> QED
    BY <1>1, <1>3, <2>1, <2>2 DEF Sound, ProcessOK, Keeps
<1>6. \A i, j \in 1 .. Len(p.queue) : i <= j /\ p.queue[i] = End => p.queue[j] = End
  BY DEF Sound, QueueOK
<1>7. \A i, j \in 1 .. Len(r.queue) : i <= j /\ r.queue[i] = End => r.queue[j] = End
  BY <1>3, <1>6
<1>8. Queued(r, End) => Queued(p, End)
  BY <1>3 DEF Queued
<1>9. Busy(r, End) => Busy(p, End) \/ h = End
  BY <1>4 DEF Busy
<1>10. h = End => \A i \in 1 .. Len(p.queue) : p.queue[i] = End
  <2> SUFFICES ASSUME h = End, NEW i \in 1 .. Len(p.queue)
               PROVE  p.queue[i] = End
    OBVIOUS
  <2>1. 1 <= i /\ p.queue[1] = End
    BY <1>3
  <2> QED
    BY <2>1, <1>3, <1>6
<1>11. Queued(r, End) \/ Busy(r, End) => r.queued = r.expected
  BY <1>1, <1>3, <1>8, <1>9 DEF Sound, QueueOK, Queued
<1>12. Busy(r, End) => \A i \in 1 .. Len(r.queue) : r.queue[i] = End
  BY <1>3, <1>9, <1>10 DEF Sound, QueueOK
<1>13. \A q \in 1 .. r.queued : Queued(r, q) \/ Busy(r, q) \/ r.result[q] # Absent
  <2> SUFFICES ASSUME NEW q \in 1 .. p.queued
               PROVE  Queued(r, q) \/ Busy(r, q) \/ p.result[q] # Absent
    BY <1>1
  <2>1. Queued(p, q) \/ Busy(p, q) \/ p.result[q] # Absent
    BY DEF Sound, QueueOK
  <2>2. CASE Queued(p, q)
    <3>1. PICK i \in 1 .. Len(p.queue) : p.queue[i] = q
      BY <2>2 DEF Queued
    <3> QED
      BY <3>1, <1>3, <1>4 DEF Queued, Busy
  <2>3. CASE Busy(p, q)
    <3>1. PICK d \in Consumers : p.busy[d] = q
      BY <2>3 DEF Busy
    <3>2. d # c
      BY <3>1, <1>2 DEF Idle
    <3> QED
      BY <3>1, <3>2, <1>4 DEF Busy
  <2> QED
    BY <2>1, <2>2, <2>3
<1>14. QueueOK(r)
  BY <1>7, <1>11, <1>12, <1>13 DEF QueueOK
<1> QED
  BY <1>1, <1>5, <1>14 DEF Sound, Collected

\* A consumer is done with a page, which has a result from here on.
LEMMA PageDone ==
  ASSUME NEW p, NEW r, Sound(p), DOMAIN p = DOMAIN Down, p.at = "parsing",
         Keeps(p, r, {"result", "busy"}), NEW c \in Consumers, p.busy[c] \in Pages,
         NEW content \in Int \ {Absent},
         r.result = [p.result EXCEPT ![p.busy[c]] = content],
         r.busy = [p.busy EXCEPT ![c] = Idle]
  PROVE  Sound(r)
<1>1. /\ r.at = p.at /\ r.verdict = p.verdict /\ r.shutdown = p.shutdown
      /\ r.expected = p.expected /\ r.written = p.written /\ r.queued = p.queued
      /\ r.ends = p.ends /\ r.queue = p.queue /\ r.blocked = p.blocked
  BY DownFields DEF Keeps
<1>2. /\ p.busy \in [Consumers -> Pages \cup {Idle, End}] /\ p.result \in [Pages -> Int]
      /\ p.queued \in 0 .. p.expected /\ p.expected \in 0 .. NPages
  BY DEF Sound, ProcessOK
<1> DEFINE k == p.busy[c]
<1>3. /\ r.busy \in [Consumers -> Pages \cup {Idle, End}] /\ r.result \in [Pages -> Int]
      /\ r.result[k] = content /\ \A q \in Pages : q # k => r.result[q] = p.result[q]
      /\ r.busy[c] = Idle /\ \A d \in Consumers : d # c => r.busy[d] = p.busy[d]
  BY <1>2
<1>4. ProcessOK(r)
  BY <1>1, <1>3 DEF Sound, ProcessOK, Keeps
<1>5. Busy(r, End) => Busy(p, End)
  BY <1>3 DEF Busy, Idle, End
<1>6. \A q \in 1 .. r.queued : Queued(r, q) \/ Busy(r, q) \/ r.result[q] # Absent
  <2> SUFFICES ASSUME NEW q \in 1 .. p.queued, q # k
               PROVE  Queued(r, q) \/ Busy(r, q) \/ r.result[q] # Absent
    BY <1>1, <1>3
  <2>1. Queued(p, q) \/ Busy(p, q) \/ p.result[q] # Absent
    BY DEF Sound, QueueOK
  <2>2. q \in Pages
    BY <1>2 DEF Pages
  <2>3. Busy(p, q) => Busy(r, q)
    BY <1>3 DEF Busy
  <2> QED
    BY <1>1, <1>3, <2>1, <2>2, <2>3 DEF Queued
<1>7. QueueOK(r)
  BY <1>1, <1>5, <1>6 DEF Sound, QueueOK, Queued
<1> QED
  BY <1>1, <1>4, <1>7 DEF Sound, Collected

\* Two and three fields at a time.
LEMMA TakingFields ==
  ASSUME NEW x \in Parsers, parser = [y \in Parsers |-> parser[y]],
         DOMAIN parser[x] = DOMAIN Down, NEW busy, NEW queue,
         Becomes(x, [busy |-> busy, queue |-> queue])
  PROVE  parser'[x].busy = busy /\ parser'[x].queue = queue
BY BecomesFields, DownFields

LEMMA QueueingFields ==
  ASSUME NEW x \in Parsers, parser = [y \in Parsers |-> parser[y]],
         DOMAIN parser[x] = DOMAIN Down, NEW queue, NEW queued, NEW blocked,
         Becomes(x, [queue |-> queue, queued |-> queued, blocked |-> blocked])
  PROVE  /\ parser'[x].queue = queue /\ parser'[x].queued = queued
         /\ parser'[x].blocked = blocked
BY BecomesFields, DownFields

\* The steps of producer and consumers.
LEMMA QueueSteps ==
  ASSUME PagesInv, NEW x \in Parsers,
         \/ QueuePage(x) \/ StopProducing(x) \/ QueueEnd(x)
         \/ \E c \in Consumers : TakePage(x, c) \/ FinishPage(x, c)
  PROVE  Alone(x) /\ Sound(parser'[x])
<1> DEFINE p == parser[x]
           r == parser'[x]
<1>1. Sound(p) /\ DOMAIN p = DOMAIN Down /\ parser = [y \in Parsers |-> parser[y]]
  BY DEF PagesInv, Sound, ProcessOK
<1> USE DEF Alone, Keeps
<1>2. CASE QueuePage(x)
  <2>1. /\ Becomes(x, [queue |-> Append(p.queue, p.queued + 1),
                       queued |-> p.queued + 1, blocked |-> FALSE])
        /\ p.at = "parsing" /\ p.queued < p.expected /\ Len(p.queue) < QueueSize
    BY <1>2 DEF QueuePage, Producing, HasRoom
  <2>2. Keeps(p, r, {"queue", "queued", "blocked"}) /\ Alone(x)
    BY <1>1, <2>1, BecomesFields
  <2>3. /\ r.queue = Append(p.queue, p.queued + 1) /\ r.queued = p.queued + 1
        /\ r.blocked = FALSE
    BY <1>1, <2>1, QueueingFields
  <2>4. r.blocked \in BOOLEAN
    BY <2>3
  <2> QED
    BY <1>1, <2>1, <2>2, <2>3, <2>4, PageQueued
<1>3. CASE StopProducing(x)
  <2>1. Becomes(x, [expected |-> p.queued]) /\ p.at = "parsing"
    BY <1>3 DEF StopProducing, Producing
  <2>2. Keeps(p, r, {"expected"}) /\ Alone(x) /\ r.expected = p.queued
    BY <1>1, <2>1, BecomesFields, DownFields
  <2> QED
    BY <1>1, <2>1, <2>2, ProductionCut
<1>4. CASE QueueEnd(x)
  <2>1. /\ Becomes(x, [queue |-> Append(p.queue, End), ends |-> p.ends + 1])
        /\ p.at = "parsing" /\ ~(p.queued < p.expected) /\ Len(p.queue) < QueueSize
        /\ p.ends < Cardinality(Consumers)
    BY <1>4 DEF QueueEnd, Producing, HasRoom
  <2>2. Keeps(p, r, {"queue", "ends"}) /\ Alone(x)
    BY <1>1, <2>1, BecomesFields
  <2>3. r.queue = Append(p.queue, End) /\ r.ends = p.ends + 1
    BY <1>1, <2>1, BecomesFields, DownFields
  <2> QED
    BY <1>1, <2>1, <2>2, <2>3, EndQueued
<1>5. ASSUME NEW c \in Consumers, TakePage(x, c)
      PROVE  Alone(x) /\ Sound(r)
  <2>1. /\ Becomes(x, [busy |-> [p.busy EXCEPT ![c] = Head(p.queue)], queue |-> Tail(p.queue)])
        /\ p.at = "parsing" /\ p.busy[c] = Idle /\ p.queue # <<>>
    BY <1>5 DEF TakePage
  <2>2. Keeps(p, r, {"queue", "busy"}) /\ Alone(x)
    BY <1>1, <2>1, BecomesFields
  <2>3. r.queue = Tail(p.queue) /\ r.busy = [p.busy EXCEPT ![c] = Head(p.queue)]
    BY <1>1, <2>1, TakingFields
  <2> QED
    BY <1>1, <2>1, <2>2, <2>3, FirstTaken
<1>6. ASSUME NEW c \in Consumers, FinishPage(x, c)
      PROVE  Alone(x) /\ Sound(r)
  <2>1. PICK content \in {input, Placeholder} :
          Becomes(x, [result |-> [p.result EXCEPT ![p.busy[c]] = content],
                      busy |-> [p.busy EXCEPT ![c] = Idle]])
    BY <1>6 DEF FinishPage
  <2>2. p.at = "parsing" /\ p.busy[c] \in Pages
    BY <1>6 DEF FinishPage
  <2>3. content \in Int \ {Absent}
    BY DEF PagesInv, Placeholder, Absent
  <2>4. Keeps(p, r, {"result", "busy"}) /\ Alone(x)
    BY <1>1, <2>1, BecomesFields
  <2>5. /\ r.result = [p.result EXCEPT ![p.busy[c]] = content]
        /\ r.busy = [p.busy EXCEPT ![c] = Idle]
    BY <1>1, <2>1, BecomesFields, DownFields
  <2> QED
    BY <1>1, <2>2, <2>3, <2>4, <2>5, PageDone
<1> QED
  BY <1>2, <1>3, <1>4, <1>5, <1>6

\* When every consumer has left, nothing is in the queue and every page that is
\* expected has a result.
LEMMA AllHaveResults ==
  ASSUME PagesInv, NEW x \in Parsers, AllConsumed(x), parser[x].at = "parsing"
  PROVE  \A q \in 1 .. parser[x].expected : parser[x].result[q] # Absent
<1> DEFINE p == parser[x]
<1>1. Sound(p) /\ ProcessOK(p) /\ QueueOK(p)
  BY DEF PagesInv, Sound
<1>2. PICK c \in Consumers : p.busy[c] = End
  BY DEF AllConsumed
<1>3. p.queued = p.expected /\ \A i \in 1 .. Len(p.queue) : p.queue[i] = End
  BY <1>1, <1>2 DEF QueueOK, Busy
<1>4. \A q \in 1 .. p.expected : q # End /\ ~Busy(p, q)
  BY DEF AllConsumed, Busy, End
<1>5. \A q \in 1 .. p.expected : ~Queued(p, q)
  BY <1>3, <1>4 DEF Queued
<1> QED
  BY <1>1, <1>3, <1>4, <1>5 DEF QueueOK

\* The document put together and written.
LEMMA WritingSteps ==
  ASSUME PagesInv, NEW x \in Parsers, Assemble(x) \/ WritePage(x)
  PROVE  Alone(x) /\ Sound(parser'[x])
<1> DEFINE p == parser[x]
           r == parser'[x]
<1>1. /\ Sound(p) /\ ProcessOK(p) /\ DOMAIN p = DOMAIN Down
      /\ parser = [y \in Parsers |-> parser[y]]
      /\ p.at \in Places /\ p.verdict \in Verdicts
      /\ p.shutdown \in BOOLEAN /\ p.blocked \in BOOLEAN
      /\ p.expected \in 0 .. NPages /\ p.written \in 0 .. p.expected
  BY DEF PagesInv, Sound, ProcessOK
<1> USE DEF Alone, SameQueue, RestOK, Places, Verdicts
<1>2. CASE Assemble(x)
  <2>1. p.at = "parsing" /\ \A q \in 1 .. p.expected : p.result[q] # Absent
    BY <1>2, AllHaveResults DEF Assemble
  <2>2. CASE Becomes(x, [at |-> "finishing", verdict |-> "failed"])
    <3>1. Alone(x) /\ SameQueue(p, r) /\ RestOK(r)
      BY <1>1, <2>2, BecomesFields, DownFields
    <3> QED
      BY <1>1, <2>1, <3>1, SameQueueSound DEF Collected
  <2>3. CASE Becomes(x, [at |-> "writing", md |-> FreeName])
    <3>1. Alone(x) /\ SameQueue(p, r) /\ RestOK(r)
      BY <1>1, <2>3, BecomesFields, DownFields
    <3> QED
      BY <1>1, <2>1, <3>1, SameQueueSound DEF Collected
  <2> QED
    BY <1>2, <2>2, <2>3 DEF Assemble
<1>3. CASE WritePage(x)
  <2>1. Becomes(x, [written |-> p.written + 1]) /\ p.at = "writing" /\ p.written < p.expected
    BY <1>3 DEF WritePage
  <2>2. p.written + 1 \in 0 .. p.expected
    BY <1>1, <2>1
  <2>3. Alone(x) /\ SameQueue(p, r) /\ RestOK(r)
    BY <1>1, <2>1, <2>2, BecomesFields, DownFields
  <2>4. Collected(r)
    BY <1>1, <2>1, <2>3 DEF Sound, Collected
  <2> QED
    BY <1>1, <2>3, <2>4, SameQueueSound
<1> QED
  BY <1>2, <1>3

\* A process that starts or is killed has nothing of the run before it.
LEMMA FreshSteps ==
  ASSUME PagesInv, NEW x \in Parsers, Launch(x) \/ Crash(x)
  PROVE  Alone(x) /\ Sound(parser'[x])
<1>1. parser = [y \in Parsers |-> parser[y]]
  BY DEF PagesInv
<1>2. CASE Crash(x)
  BY <1>1, <1>2, DownSound DEF Crash, Alone
<1>3. CASE Launch(x)
  <2>1. PICK row : parser' = [parser EXCEPT ![x] = [Down EXCEPT !.at = "checking", !.row = row]]
    BY <1>3 DEF Launch
  <2> DEFINE d == [Down EXCEPT !.at = "checking", !.row = row]
  <2>2. SameQueue(Down, d) /\ RestOK(d) /\ Collected(d)
    <3>1. /\ DOMAIN d = DOMAIN Down /\ d.at = "checking"
          /\ \A f \in DOMAIN Down : f \notin {"at", "row"} => d[f] = Down[f]
      BY DownFields
    <3> HIDE DEF d
    <3>2. SameQueue(Down, d) /\ Collected(d)
      BY <3>1, DownFields DEF SameQueue, Collected
    <3>3. /\ d.verdict = "none" /\ d.shutdown = FALSE /\ d.blocked = FALSE
          /\ d.written = 0 /\ d.expected = NPages
      BY <3>1, DownFields
    <3>5. d.shutdown \in BOOLEAN /\ d.blocked \in BOOLEAN
      BY <3>3
    <3>6. d.at \in Places /\ d.verdict \in Verdicts /\ d.written \in 0 .. d.expected
      BY <3>1, <3>3 DEF Places, Verdicts
    <3>7. RestOK(d)
      BY <3>3, <3>5, <3>6 DEF RestOK
    <3> QED
      BY <3>2, <3>7
  <2>3. Sound(d)
    BY <2>2, DownSound, SameQueueSound
  <2> HIDE DEF d
  <2> QED
    BY <1>1, <2>1, <2>3 DEF Alone, d
<1> QED
  BY <1>2, <1>3

-----------------------------------------------------------------------------
(* No page is lost.                                                        *)

LEMMA PagesInit == DocumentInit => PagesInv
BY DownSound DEF DocumentInit, PagesInv

LEMMA PagesStep == PagesInv /\ [DocumentNext]_documentVars => PagesInv'
<1> SUFFICES ASSUME PagesInv, [DocumentNext]_documentVars
             PROVE  PagesInv'
  OBVIOUS
<1>1. ASSUME NEW x \in Parsers, RunStep(x) \/ Launch(x) \/ Raise(x) \/ Signal(x) \/ Crash(x)
      PROVE  PagesInv'
  <2>1. Alone(x) /\ Sound(parser'[x])
    BY <1>1, PassingSteps, QueueSteps, WritingSteps, FreshSteps DEF RunStep
  <2>2. input' = input
    BY <1>1 DEF RunStep, LeaveOut, CheckLocal, RefuseStale, CheckRecord, ParseFile, QueuePage,
                BlockOnQueue, StopProducing, QueueEnd, TakePage, FinishPage, Assemble, WritePage,
                FinishDocument, WriteSidecar, SidecarAfterError, Announce, EndRun, Launch, Raise,
                Signal, Crash
  <2> QED
    BY <2>1, <2>2 DEF PagesInv, Alone
<1>2. CASE ReplaceInput
  BY <1>2 DEF ReplaceInput, PagesInv
<1>3. CASE UNCHANGED documentVars
  BY <1>3 DEF documentVars, PagesInv
<1> QED
  BY <1>1, <1>2, <1>3 DEF DocumentNext

THEOREM PagesHold == DocumentSpec => []PagesInv
BY PagesInit, PagesStep, PTL DEF DocumentSpec

LEMMA PagesKeepAll == PagesInv => NoPageLost
BY DEF PagesInv, Sound, Collected, NoPageLost, Expected

\* Whatever the interleaving of producer and consumers, however many of them and of
\* parsers there are, and wherever a signal cuts production short, the results are
\* collected when every expected page has one.
THEOREM NoPageEverLost == DocumentSpec => []NoPageLost
BY PagesKeepAll, PagesHold, PTL

-----------------------------------------------------------------------------
(* What the output directory of one parser holds.                          *)

Bounds == [manifest : BOOLEAN, duringRuns : BOOLEAN, starts : Nat, signals : Nat,
           crashes : Nat, errors : Nat, edits : Nat]

\* No more versions of the input than some scenario has replacements.
BoundsOK ==
  /\ left \in Bounds
  /\ \E s \in Scenarios : input + left.edits <= 1 + s.edits

FilesOK ==
  /\ DOMAIN files = Names
  /\ \A n \in Names : /\ files[n].exists \in BOOLEAN /\ files[n].owner \subseteq Parsers
                       /\ files[n].text \in [Pages -> Content]

SidecarOK ==
  /\ sidecar.status \in {"none", "success", "failed"} /\ sidecar.input \in Versions
  /\ sidecar.md \in Names \cup {NoName} /\ sidecar.pages \in 0 .. NPages
  /\ announced \in BOOLEAN

RunOK(p) ==
  /\ p.row \in Versions /\ p.md \in Names \cup {NoName}
  /\ p.result \in [Pages -> Content]

\* A run that came as far as parsing found nothing worth keeping and removed it.
Cleaned(x) ==
  /\ parser[x].at \in {"parsing", "writing", "finishing", "raised"} => sidecar.status = "none"
  /\ parser[x].at = "parsing" => ~files[1].exists

\* What is written is what was rendered.
Written(x) ==
  parser[x].at = "writing" =>
    /\ parser[x].md = 1 /\ files[1].exists /\ files[1].owner = {x}
    /\ \A q \in 1 .. parser[x].written : files[1].text[q] = PageOf(x, q)
    /\ \E q \in Expected(x) : PageOf(x, q) # Placeholder

\* A verdict of success is about a file that is whole.
Whole(x) ==
  parser[x].at = "finishing" =>
    /\ parser[x].verdict \in {"success", "failed"}
    /\ parser[x].verdict = "success" =>
         /\ parser[x].md = 1 /\ HasText(1)
         /\ \A q \in Expected(x) : files[1].text[q] \in Versions

\* A success is on disk before it is announced.
Recorded(x) ==
  parser[x].at = "announcing" /\ parser[x].verdict = "success" => sidecar.status = "success"

\* The inductive invariant of a parser that is alone with its output.
DiskInv(x) ==
  /\ PagesInv /\ BoundsOK /\ FilesOK /\ SidecarOK /\ RunOK(parser[x])
  /\ Cleaned(x) /\ Written(x) /\ Whole(x) /\ Recorded(x)
  /\ SidecarTruthful /\ DoneIsDurable

Single(x) == Parsers = {x} /\ Names = {1}

LEMMA OneName == ASSUME NEW x, Parsers = {x} PROVE Single(x)
<1>1. Cardinality({x}) = 1
  BY FS_Singleton
<1>2. 1 .. 1 = {1}
  OBVIOUS
<1> QED
  BY <1>1, <1>2 DEF Single, Names

\* A finite set of naturals has a maximum.
LEMMA MaxIsThere ==
  ASSUME NEW S \in SUBSET Nat, IsFiniteSet(S), S # {}
  PROVE  Max(S) \in S /\ \A n \in S : n <= Max(S)
<1> DEFINE Top(T) == \E m \in T : \A n \in T : m >= n
           Topless == {T \in SUBSET S : T # {} /\ ~Top(T)}
           K == {k \in Nat : \E T \in Topless : Cardinality(T) = k}
           R == OpToRel(<, Nat)
<1>1. \A T \in SUBSET S : IsFiniteSet(T) /\ Cardinality(T) \in Nat
  BY FS_Subset, FS_CardinalityType
<1>2. Topless = {}
  <2> SUFFICES ASSUME Topless # {} PROVE FALSE
    OBVIOUS
  <2>1. K \subseteq Nat /\ K # {}
    BY <1>1
  <2>2. PICK k \in K : \A j \in K : ~(<<j, k>> \in R)
    <3>1. IsWellFoundedOn(R, Nat)
      BY NatLessThanWellFounded
    <3> HIDE DEF K, R
    <3> QED
      BY <2>1, <3>1, WFMin
  <2>3. PICK T \in Topless : Cardinality(T) = k
    OBVIOUS
  <2>4. PICK t \in T : TRUE
    OBVIOUS
  <2> DEFINE U == T \ {t}
  <2>5. Cardinality(U) = k - 1 /\ U \in SUBSET S /\ k \in Nat /\ k - 1 \in Nat
    <3>1. IsFiniteSet(T) /\ Cardinality(T) = k /\ U \in SUBSET S
      BY <1>1, <2>3
    <3>2. Cardinality(U) = k - 1
      BY <3>1, <2>4, FS_RemoveElement
    <3>3. k \in Nat /\ Cardinality(U) \in Nat
      BY <1>1, <3>1
    <3> QED
      BY <3>1, <3>2, <3>3
  <2>6. k - 1 \notin K
    <3>1. \A a, b \in Nat : a < b <=> <<a, b>> \in R
      BY DEF OpToRel
    <3>2. k - 1 < k
      BY <2>5
    <3>3. <<k - 1, k>> \in R
      BY <2>5, <3>1, <3>2
    <3> HIDE DEF K, R
    <3> QED
      BY <2>2, <3>3
  <2>7. U = {} \/ Top(U)
    BY <2>5, <2>6
  <2>8. Top(T)
    <3>1. CASE U = {}
      BY <3>1, <2>4
    <3>2. CASE Top(U)
      <4>1. PICK m \in U : \A n \in U : m >= n
        BY <3>2
      <4>2. m \in Nat /\ t \in Nat /\ T \subseteq Nat
        BY <2>3, <2>4
      <4>3. CASE m >= t
        BY <4>1, <4>3
      <4>4. CASE t >= m
        BY <2>4, <4>1, <4>2, <4>4
      <4> QED
        BY <4>2, <4>3, <4>4
    <3> QED
      BY <2>7, <3>1, <3>2
  <2> QED
    BY <2>3, <2>8
<1>3. PICK m \in S : \A n \in S : m >= n
  BY <1>2
<1>4. Max(S) \in S /\ \A n \in S : Max(S) >= n
  BY <1>3 DEF Max
<1> QED
  BY <1>4

\* As many versions as the scenario with the most replacements allows.
Most == Max({s.edits : s \in Scenarios})

LEMMA MostEdits ==
  ASSUME NEW s \in Scenarios
  PROVE  Most \in Nat /\ s.edits \in Nat /\ s.edits <= Most
<1> DEFINE E == {t.edits : t \in Scenarios}
<1>1. E \subseteq Nat /\ s.edits \in E
  OBVIOUS
<1>2. IsFiniteSet(E)
  <2> DEFINE f == [t \in Scenarios |-> t.edits]
  <2>1. f \in Surjection(Scenarios, E)
    BY DEF Surjection
  <2> QED
    BY <2>1, FS_Surjection
<1>3. Most = Max(E)
  BY DEF Most
<1> HIDE DEF E
<1> QED
  BY <1>1, <1>2, <1>3, MaxIsThere

\* The input has one of them, and those before it.
LEMMA InputIsVersion ==
  ASSUME BoundsOK, input \in Nat \ {0}
  PROVE  input \in Versions /\ 1 \in Versions /\ 1 .. input \subseteq Versions
<1>1. PICK s \in Scenarios : input + left.edits <= 1 + s.edits
  BY DEF BoundsOK
<1>2. left.edits \in Nat
  BY DEF BoundsOK, Bounds
<1>3. Most \in Nat /\ s.edits \in Nat /\ s.edits <= Most
  BY MostEdits
<1>4. Versions = 1 .. 1 + Most
  BY DEF Versions, Most
<1> QED
  BY <1>1, <1>2, <1>3, <1>4

LEMMA VersionsArePositive == Versions \subseteq Nat \ {0}
BY DEF Versions

\* What a run has spent is no version of the input.
LEMMA SpentKeepsBounds ==
  ASSUME BoundsOK, NEW what \in {"starts", "signals", "crashes", "errors"},
         Spend(what), input' = input
  PROVE  /\ BoundsOK' /\ left'.manifest = left.manifest
         /\ left'.duringRuns = left.duringRuns
<1>1. left \in Bounds /\ left[what] > 0 /\ left' = [left EXCEPT ![what] = @ - 1]
  BY DEF BoundsOK, Spend
<1>2. left' \in Bounds /\ left'.edits = left.edits
  BY <1>1 DEF Bounds
<1>3. left'.manifest = left.manifest /\ left'.duringRuns = left.duringRuns
  BY <1>1 DEF Bounds
<1> QED
  BY <1>2, <1>3 DEF BoundsOK

-----------------------------------------------------------------------------
(* Steps of a parser that is alone.                                        *)

Untouched ==
  files' = files /\ sidecar' = sidecar /\ announced' = announced /\ input' = input

\* Steps before and after the work on a document.
LEMMA LooseStep ==
  ASSUME NEW x, Single(x), DiskInv(x), PagesInv', BoundsOK', Untouched,
         RunOK(parser'[x]),
         parser'[x].at \in {"down", "checking", "opening", "ending", "ended", "raised"},
         parser'[x].at = "raised" => sidecar.status = "none"
  PROVE  DiskInv(x)'
<1>1. /\ FilesOK' /\ SidecarOK' /\ RunOK(parser[x])' /\ SidecarTruthful' /\ DoneIsDurable'
  BY DEF DiskInv, Untouched, FilesOK, SidecarOK, RunOK, SidecarTruthful, DoneIsDurable, HasText
<1>2. Cleaned(x)' /\ Written(x)' /\ Whole(x)' /\ Recorded(x)'
  BY DEF Untouched, Cleaned, Written, Whole, Recorded
<1> QED
  BY <1>1, <1>2 DEF DiskInv

\* Steps within the work on a document.
LEMMA SteadyStep ==
  ASSUME NEW x, Single(x), DiskInv(x), PagesInv', BoundsOK', Untouched,
         RunOK(parser'[x]), parser'[x].at = parser[x].at,
         parser[x].at # "parsing" =>
           /\ parser'[x].md = parser[x].md /\ parser'[x].result = parser[x].result
           /\ parser'[x].expected = parser[x].expected
           /\ parser'[x].written = parser[x].written
           /\ parser'[x].verdict = parser[x].verdict
  PROVE  DiskInv(x)'
<1>1. /\ FilesOK' /\ SidecarOK' /\ RunOK(parser[x])' /\ SidecarTruthful' /\ DoneIsDurable'
  BY DEF DiskInv, Untouched, FilesOK, SidecarOK, RunOK, SidecarTruthful, DoneIsDurable, HasText
<1>2. Cleaned(x)' /\ Recorded(x)'
  BY DEF DiskInv, Untouched, Cleaned, Recorded
<1>3. Written(x)'
  BY DEF DiskInv, Untouched, Written, PageOf, Expected
<1>4. Whole(x)'
  BY DEF DiskInv, Untouched, Whole, HasText, Expected
<1> QED
  BY <1>1, <1>2, <1>3, <1>4 DEF DiskInv

\* What is known of the parser before a step.
LEMMA Known ==
  ASSUME NEW x, Single(x), DiskInv(x)
  PROVE  /\ x \in Parsers /\ parser = [y \in Parsers |-> parser[y]]
         /\ Sound(parser[x]) /\ DOMAIN parser[x] = DOMAIN Down
         /\ RunOK(parser[x]) /\ BoundsOK /\ input \in Nat \ {0} /\ input \in Versions
BY InputIsVersion DEF Single, DiskInv, PagesInv, Sound, ProcessOK

LEMMA LooseSteps ==
  ASSUME NEW x, Single(x), DiskInv(x), PagesInv',
         \/ LeaveOut(x) \/ CheckLocal(x) \/ EndRun(x)
         \/ Raise(x) \/ Crash(x) \/ Launch(x)
  PROVE  DiskInv(x)'
<1> DEFINE p == parser[x]
           r == parser'[x]
<1>1. /\ x \in Parsers /\ parser = [y \in Parsers |-> parser[y]] /\ DOMAIN p = DOMAIN Down
      /\ RunOK(p) /\ BoundsOK /\ input \in Versions /\ input \in Nat \ {0}
  BY Known
<1>2. CASE LeaveOut(x) \/ CheckLocal(x) \/ EndRun(x)
  <2>1. Untouched /\ left' = left
    BY <1>2 DEF LeaveOut, CheckLocal, EndRun, Untouched
  <2>2. PICK to \in {"ending", "opening", "ended"} : Becomes(x, [at |-> to])
    BY <1>2 DEF LeaveOut, CheckLocal, EndRun
  <2>3. r.at = to /\ r.row = p.row /\ r.md = p.md /\ r.result = p.result
    BY <1>1, <2>2, BecomesFields, DownFields
  <2>4. BoundsOK' /\ RunOK(r)
    BY <1>1, <2>1, <2>3 DEF RunOK, BoundsOK, Untouched
  <2>5. r.at \in {"down", "checking", "opening", "ending", "ended", "raised"} /\ r.at # "raised"
    BY <2>2, <2>3
  <2> QED
    BY <2>1, <2>4, <2>5, LooseStep
<1>3. CASE Raise(x)
  <2>1. Untouched /\ BoundsOK'
    BY <1>1, <1>3, SpentKeepsBounds DEF Raise, Untouched
  <2>2. CASE p.at # "raised" /\ Becomes(x, [at |-> "raised"])
    <3>1. r.at = "raised" /\ r.row = p.row /\ r.md = p.md /\ r.result = p.result
      BY <1>1, <2>2, BecomesFields, DownFields
    <3>2. sidecar.status = "none"
      BY <1>3 DEF Raise, DiskInv, Cleaned
    <3> QED
      BY <1>1, <2>1, <3>1, <3>2, LooseStep DEF RunOK
  <2>3. CASE Becomes(x, [at |-> "ending", verdict |-> "raised"])
    <3>1. r.at = "ending" /\ r.row = p.row /\ r.md = p.md /\ r.result = p.result
      BY <1>1, <2>3, BecomesFields, DownFields
    <3> QED
      BY <1>1, <2>1, <3>1, LooseStep DEF RunOK
  <2> QED
    BY <1>3, <2>2, <2>3 DEF Raise
<1>4. 1 \in Versions /\ Blank \in [Pages -> Content] /\ 1 .. input \subseteq Versions
  BY <1>1, InputIsVersion DEF Blank, Content
<1>5. CASE Crash(x)
  <2>1. Untouched /\ BoundsOK'
    BY <1>1, <1>5, SpentKeepsBounds DEF Crash, Untouched
  <2>2. r = Down
    BY <1>1, <1>5 DEF Crash
  <2>3. RunOK(Down) /\ Down.at = "down"
    BY <1>4, DownFields DEF RunOK
  <2> QED
    BY <2>1, <2>2, <2>3, LooseStep
<1>6. CASE Launch(x)
  <2>1. Untouched /\ BoundsOK'
    BY <1>1, <1>6, SpentKeepsBounds DEF Launch, Untouched
  <2>2. PICK row \in 1 .. input \cup {1} :
          parser' = [parser EXCEPT ![x] = [Down EXCEPT !.at = "checking", !.row = row]]
    BY <1>6 DEF Launch
  <2> DEFINE d == [Down EXCEPT !.at = "checking", !.row = row]
  <2>3. d.at = "checking" /\ d.row = row /\ d.md = NoName /\ d.result = Blank
    BY DownFields
  <2>4. RunOK(d)
    BY <1>4, <2>2, <2>3 DEF RunOK
  <2>5. r = d
    BY <1>1, <2>2
  <2> QED
    BY <2>1, <2>3, <2>4, <2>5, LooseStep
<1> QED
  BY <1>2, <1>3, <1>5, <1>6

LEMMA SteadySteps ==
  ASSUME NEW x, Single(x), DiskInv(x), PagesInv',
         \/ QueuePage(x) \/ BlockOnQueue(x) \/ StopProducing(x) \/ QueueEnd(x)
         \/ \E c \in Consumers : TakePage(x, c) \/ FinishPage(x, c)
         \/ Signal(x)
  PROVE  DiskInv(x)'
<1> DEFINE p == parser[x]
           r == parser'[x]
<1>1. /\ x \in Parsers /\ parser = [y \in Parsers |-> parser[y]] /\ DOMAIN p = DOMAIN Down
      /\ RunOK(p) /\ BoundsOK /\ input \in Versions /\ input \in Nat \ {0}
  BY Known
<1>2. CASE Signal(x)
  <2>1. Untouched /\ BoundsOK'
    BY <1>1, <1>2, SpentKeepsBounds DEF Signal, Untouched
  <2>2. Becomes(x, [shutdown |-> TRUE])
    BY <1>2 DEF Signal
  <2>3. \A f \in DOMAIN p : f # "shutdown" => r[f] = p[f]
    BY <1>1, <2>2, BecomesFields
  <2>4. /\ r.at = p.at /\ r.row = p.row /\ r.md = p.md /\ r.result = p.result
        /\ r.expected = p.expected /\ r.written = p.written /\ r.verdict = p.verdict
    BY <1>1, <2>3, DownFields
  <2> QED
    BY <1>1, <2>1, <2>4, SteadyStep DEF RunOK
<1>3. ASSUME p.at = "parsing", Untouched, left' = left,
             NEW changes, Becomes(x, changes), DOMAIN changes \cap {"at", "row", "md"} = {},
             r.result \in [Pages -> Content]
      PROVE  DiskInv(x)'
  <2>1. r.at = p.at /\ r.row = p.row /\ r.md = p.md
    BY <1>1, <1>3, BecomesFields, DownFields
  <2>2. BoundsOK'
    BY <1>1, <1>3 DEF BoundsOK, Untouched
  <2> QED
    BY <1>1, <1>3, <2>1, <2>2, SteadyStep DEF RunOK
<1>4. CASE QueuePage(x)
  <2> DEFINE c == [queue |-> Append(p.queue, p.queued + 1), queued |-> p.queued + 1,
                   blocked |-> FALSE]
  <2>1. p.at = "parsing" /\ Untouched /\ left' = left /\ Becomes(x, c)
    BY <1>4 DEF QueuePage, Producing, Untouched
  <2>2. DOMAIN c = {"queue", "queued", "blocked"}
    OBVIOUS
  <2> HIDE DEF c
  <2>3. r.result = p.result
    BY <1>1, <2>1, <2>2, BecomesFields, DownFields
  <2> QED
    BY <1>1, <1>3, <2>1, <2>2, <2>3 DEF RunOK
<1>5. CASE BlockOnQueue(x)
  <2> DEFINE c == [blocked |-> TRUE]
  <2>1. p.at = "parsing" /\ Untouched /\ left' = left /\ Becomes(x, c)
    BY <1>5 DEF BlockOnQueue, Producing, Untouched
  <2>2. DOMAIN c = {"blocked"}
    OBVIOUS
  <2> HIDE DEF c
  <2>3. r.result = p.result
    BY <1>1, <2>1, <2>2, BecomesFields, DownFields
  <2> QED
    BY <1>1, <1>3, <2>1, <2>2, <2>3 DEF RunOK
<1>6. CASE StopProducing(x)
  <2> DEFINE c == [expected |-> p.queued]
  <2>1. p.at = "parsing" /\ Untouched /\ left' = left /\ Becomes(x, c)
    BY <1>6 DEF StopProducing, Producing, Untouched
  <2>2. DOMAIN c = {"expected"}
    OBVIOUS
  <2> HIDE DEF c
  <2>3. r.result = p.result
    BY <1>1, <2>1, <2>2, BecomesFields, DownFields
  <2> QED
    BY <1>1, <1>3, <2>1, <2>2, <2>3 DEF RunOK
<1>7. CASE QueueEnd(x)
  <2> DEFINE c == [queue |-> Append(p.queue, End), ends |-> p.ends + 1]
  <2>1. p.at = "parsing" /\ Untouched /\ left' = left /\ Becomes(x, c)
    BY <1>7 DEF QueueEnd, Untouched
  <2>2. DOMAIN c = {"queue", "ends"}
    OBVIOUS
  <2> HIDE DEF c
  <2>3. r.result = p.result
    BY <1>1, <2>1, <2>2, BecomesFields, DownFields
  <2> QED
    BY <1>1, <1>3, <2>1, <2>2, <2>3 DEF RunOK
<1>8. ASSUME NEW d \in Consumers, TakePage(x, d)
      PROVE  DiskInv(x)'
  <2> DEFINE c == [busy |-> [p.busy EXCEPT ![d] = Head(p.queue)], queue |-> Tail(p.queue)]
  <2>1. p.at = "parsing" /\ Untouched /\ left' = left /\ Becomes(x, c)
    BY <1>8 DEF TakePage, Untouched
  <2>2. DOMAIN c = {"busy", "queue"}
    OBVIOUS
  <2> HIDE DEF c
  <2>3. r.result = p.result
    BY <1>1, <2>1, <2>2, BecomesFields, DownFields
  <2> QED
    BY <1>1, <1>3, <2>1, <2>2, <2>3 DEF RunOK
<1>9. ASSUME NEW d \in Consumers, FinishPage(x, d)
      PROVE  DiskInv(x)'
  <2>1. PICK content \in {input, Placeholder} :
          Becomes(x, [result |-> [p.result EXCEPT ![p.busy[d]] = content],
                      busy |-> [p.busy EXCEPT ![d] = Idle]])
    BY <1>9 DEF FinishPage
  <2> DEFINE c == [result |-> [p.result EXCEPT ![p.busy[d]] = content],
                   busy |-> [p.busy EXCEPT ![d] = Idle]]
  <2>2. p.at = "parsing" /\ Untouched /\ left' = left /\ Becomes(x, c)
    BY <1>9, <2>1 DEF FinishPage, Untouched
  <2>3. /\ DOMAIN c = {"result", "busy"}
        /\ c["result"] = [p.result EXCEPT ![p.busy[d]] = content]
    OBVIOUS
  <2> HIDE DEF c
  <2>4. r.result = [p.result EXCEPT ![p.busy[d]] = content]
    BY <1>1, <2>2, <2>3, BecomesFields, DownFields
  <2>5. r.result \in [Pages -> Content]
    BY <1>1, <2>4 DEF RunOK, Content
  <2> QED
    BY <1>1, <1>3, <2>2, <2>3, <2>5
<1> QED
  BY <1>2, <1>4, <1>5, <1>6, <1>7, <1>8, <1>9

\* Steps after which no document is under way.
LEMMA IdleStep ==
  ASSUME NEW x, Single(x), PagesInv', BoundsOK', FilesOK', SidecarOK', RunOK(parser'[x]),
         SidecarTruthful', DoneIsDurable',
         parser'[x].at \in {"opening", "announcing", "ending"},
         parser'[x].at = "announcing" /\ parser'[x].verdict = "success" => sidecar'.status = "success"
  PROVE  DiskInv(x)'
<1>1. RunOK(parser[x])'
  BY DEF RunOK
<1>2. Cleaned(x)' /\ Written(x)' /\ Whole(x)' /\ Recorded(x)'
  BY DEF Cleaned, Written, Whole, Recorded
<1> QED
  BY <1>1, <1>2 DEF DiskInv

LEMMA FirstFileIs ==
  ASSUME NEW x, Single(x)
  PROVE  FirstFile = IF files[1].exists THEN 1 ELSE NoName
<1>1. Names = {1} /\ \A m : m \notin 1 .. 1 - 1
  BY DEF Single
<1>2. CASE files[1].exists
  <2>1. \E n \in Names : files[n].exists /\ \A m \in 1 .. n - 1 : ~files[m].exists
    BY <1>1, <1>2
  <2> QED
    BY <1>1, <1>2, <2>1 DEF FirstFile
<1>3. CASE ~files[1].exists
  BY <1>1, <1>3 DEF FirstFile
<1> QED
  BY <1>2, <1>3

\* The checks before a run: what they remove had not been accepted, so that no
\* report of success is left without its output.
LEMMA CleanOutputFacts ==
  ASSUME NEW x, Single(x), DiskInv(x), NEW row, CleanOutput(row),
         announced => left.manifest /\ sidecar.input # row
  PROVE  /\ FilesOK' /\ SidecarOK' /\ ~announced' /\ sidecar'.status = "none"
         /\ \A n \in Names : ~files'[n].exists
         /\ SidecarTruthful' /\ DoneIsDurable'
<1>1. 1 \in Versions /\ Names = {1}
  BY InputIsVersion DEF Single, DiskInv, PagesInv
<1>2. files' = NoFiles /\ sidecar' = NoSidecar /\ ~announced' /\ announced' \in BOOLEAN
  BY DEF CleanOutput, DiskInv, SidecarOK
<1>3. FilesOK' /\ \A n \in Names : ~files'[n].exists
  BY <1>2 DEF FilesOK, NoFiles, NoFile, Blank, Content
<1>4. SidecarOK' /\ sidecar'.status = "none"
  BY <1>1, <1>2 DEF SidecarOK, NoSidecar
<1> QED
  BY <1>2, <1>3, <1>4 DEF SidecarTruthful, DoneIsDurable

LEMMA CheckingSteps ==
  ASSUME NEW x, Single(x), DiskInv(x), PagesInv',
         RefuseStale(x) \/ CheckRecord(x) \/ ParseFile(x)
  PROVE  DiskInv(x)'
<1> DEFINE p == parser[x]
           r == parser'[x]
<1>1. /\ x \in Parsers /\ parser = [y \in Parsers |-> parser[y]] /\ DOMAIN p = DOMAIN Down
      /\ RunOK(p) /\ BoundsOK /\ input \in Versions /\ input \in Nat \ {0}
  BY Known
<1>2. /\ FilesOK /\ SidecarOK /\ SidecarTruthful /\ DoneIsDurable /\ 1 \in 0 .. NPages
  BY DEF DiskInv
<1>3. left' = left /\ input' = input /\ BoundsOK'
  BY <1>1 DEF RefuseStale, CheckRecord, ParseFile, BoundsOK
<1>4. ASSUME NEW md \in Names \cup {NoName}, Untouched,
             Becomes(x, [at |-> "announcing", verdict |-> "skipped", md |-> md])
      PROVE  DiskInv(x)'
  <2>1. /\ r.at = "announcing" /\ r.verdict = "skipped" /\ r.md = md /\ r.row = p.row
        /\ r.result = p.result
    BY <1>1, <1>4, BecomesFields, DownFields
  <2>2. RunOK(r)
    BY <1>1, <2>1 DEF RunOK
  <2>3. FilesOK' /\ SidecarOK' /\ SidecarTruthful' /\ DoneIsDurable'
    BY <1>2, <1>4 DEF Untouched, FilesOK, SidecarOK, SidecarTruthful, DoneIsDurable, HasText
  <2> QED
    BY <1>3, <2>1, <2>2, <2>3, IdleStep
<1>5. CASE RefuseStale(x)
  <2>1. Becomes(x, [at |-> "announcing", verdict |-> "failed"])
    BY <1>5 DEF RefuseStale
  <2>2. /\ r.at = "announcing" /\ r.verdict = "failed" /\ r.md = p.md /\ r.row = p.row
        /\ r.result = p.result
    BY <1>1, <2>1, BecomesFields, DownFields
  <2>3. FilesOK' /\ SidecarOK' /\ SidecarTruthful' /\ DoneIsDurable'
    BY <1>1, <1>2, <1>5 DEF RefuseStale, FilesOK, SidecarOK, SidecarTruthful, DoneIsDurable
  <2> QED
    BY <1>1, <1>3, <2>2, <2>3, IdleStep DEF RunOK
<1>6. CASE CheckRecord(x)
  <2>1. CASE /\ Becomes(x, [at |-> "announcing", verdict |-> "skipped", md |-> sidecar.md])
             /\ UNCHANGED <<files, sidecar, announced>>
    BY <1>2, <1>3, <1>4, <2>1 DEF SidecarOK, Untouched
  <2>2. CASE /\ ~StrictlyProcessed(p.row) /\ CleanOutput(p.row) /\ Becomes(x, [at |-> "opening"])
    <3>1. announced => left.manifest /\ sidecar.input # p.row
      BY <1>2, <1>6, <2>2 DEF CheckRecord, StrictlyProcessed, ArtifactsOk, DoneIsDurable
    <3>2. r.at = "opening" /\ r.md = p.md /\ r.row = p.row /\ r.result = p.result
      BY <1>1, <2>2, BecomesFields, DownFields
    <3>3. FilesOK' /\ SidecarOK' /\ SidecarTruthful' /\ DoneIsDurable'
      BY <2>2, <3>1, CleanOutputFacts
    <3> QED
      BY <1>1, <1>3, <3>2, <3>3, IdleStep DEF RunOK
  <2> QED
    BY <1>6, <2>1, <2>2 DEF CheckRecord
<1>7. CASE ParseFile(x)
  <2>1. CASE /\ Becomes(x, [at |-> "announcing", verdict |-> "skipped", md |-> AcceptedFile])
             /\ UNCHANGED <<files, sidecar, announced>>
    <3>1. AcceptedFile \in Names \cup {NoName}
      BY <1>2, FirstFileIs DEF AcceptedFile, SidecarOK, Single
    <3> QED
      BY <1>3, <1>4, <2>1, <3>1 DEF Untouched
  <2>2. CASE ~LenientlyProcessed /\ CleanOutput(p.row) /\ Becomes(x, [at |-> "parsing"])
    <3>1. ~announced
      BY <1>2, <2>2 DEF LenientlyProcessed, ArtifactsOk, DoneIsDurable
    <3>2. r.at = "parsing" /\ r.md = p.md /\ r.row = p.row /\ r.result = p.result
      BY <1>1, <2>2, BecomesFields, DownFields
    <3>3. /\ FilesOK' /\ SidecarOK' /\ SidecarTruthful' /\ DoneIsDurable'
          /\ sidecar'.status = "none" /\ ~files'[1].exists
      BY <2>2, <3>1, CleanOutputFacts DEF Single
    <3>4. RunOK(parser[x])'
      BY <1>1, <3>2 DEF RunOK
    <3> QED
      BY <1>3, <3>2, <3>3, <3>4 DEF DiskInv, Cleaned, Written, Whole, Recorded
  <2> QED
    BY <1>7, <2>1, <2>2 DEF ParseFile
<1> QED
  BY <1>5, <1>6, <1>7

\* A page's text is a placeholder or the version it was rendered from.
LEMMA TextOfPages ==
  ASSUME NEW x, RunOK(parser[x]), NEW q \in Pages
  PROVE  /\ PageOf(x, q) \in Content /\ PageOf(x, q) # Absent
         /\ PageOf(x, q) # Placeholder => PageOf(x, q) \in Versions
BY DEF RunOK, PageOf, Content, Absent, Placeholder

LEMMA AssembleStep ==
  ASSUME NEW x, Single(x), DiskInv(x), PagesInv', Assemble(x)
  PROVE  DiskInv(x)'
<1> DEFINE p == parser[x]
           r == parser'[x]
<1>1. /\ x \in Parsers /\ parser = [y \in Parsers |-> parser[y]] /\ DOMAIN p = DOMAIN Down
      /\ RunOK(p) /\ Sound(p) /\ Names = {1}
  BY Known DEF Single
<1>2. /\ p.at = "parsing" /\ sidecar.status = "none" /\ ~files[1].exists /\ p.written = 0
      /\ FilesOK /\ SidecarOK /\ BoundsOK /\ ~announced
  BY <1>1 DEF Assemble, DiskInv, Cleaned, Sound, ProcessOK, DoneIsDurable
<1>3. /\ sidecar' = sidecar /\ input' = input /\ announced' = announced /\ left' = left
      /\ BoundsOK' /\ SidecarOK' /\ SidecarTruthful' /\ DoneIsDurable'
  BY <1>2 DEF Assemble, BoundsOK, SidecarOK, SidecarTruthful, DoneIsDurable
<1>4. CASE Becomes(x, [at |-> "finishing", verdict |-> "failed"]) /\ files' = files
  <2>1. /\ r.at = "finishing" /\ r.verdict = "failed" /\ r.md = p.md /\ r.row = p.row
        /\ r.result = p.result
    BY <1>1, <1>4, BecomesFields, DownFields
  <2>2. FilesOK' /\ RunOK(parser[x])'
    BY <1>1, <1>2, <1>4, <2>1 DEF FilesOK, RunOK
  <2> QED
    BY <1>2, <1>3, <2>1, <2>2 DEF DiskInv, Cleaned, Written, Whole, Recorded
<1>5. CASE /\ \E q \in Expected(x) : PageOf(x, q) # Placeholder
           /\ files' = [files EXCEPT ![FreeName] =
                          [exists |-> TRUE, owner |-> {x}, text |-> Blank]]
           /\ Becomes(x, [at |-> "writing", md |-> FreeName])
  <2>1. FreeName = 1
    <3>1. ~files[1].exists /\ \A m \in 1 .. 1 - 1 : files[m].exists
      BY <1>2
    <3> QED
      BY <1>1, <3>1 DEF FreeName
  <2>2. /\ r.at = "writing" /\ r.md = 1 /\ r.row = p.row /\ r.result = p.result
        /\ r.expected = p.expected /\ r.written = 0
    BY <1>1, <1>2, <1>5, <2>1, BecomesFields, DownFields
  <2>3. /\ files'[1] = [exists |-> TRUE, owner |-> {x}, text |-> Blank] /\ DOMAIN files' = Names
    BY <1>1, <1>2, <1>5, <2>1 DEF FilesOK
  <2>4. FilesOK' /\ RunOK(parser[x])'
    <3>1. Blank \in [Pages -> Content]
      BY DEF Blank, Content
    <3>2. files'[1].exists \in BOOLEAN /\ files'[1].owner = {x} /\ files'[1].text = Blank
      BY <2>3
    <3>3. FilesOK'
      BY <1>1, <2>3, <3>1, <3>2 DEF FilesOK
    <3> QED
      BY <1>1, <2>2, <3>3 DEF RunOK
  <2>5. Written(x)'
    <3>1. \A q : PageOf(x, q)' = PageOf(x, q)
      BY <2>2 DEF PageOf
    <3>2. \E q \in 1 .. r.expected : PageOf(x, q)' # Placeholder
      BY <1>5, <2>2, <3>1 DEF Expected
    <3>3. 1 .. r.written = {}
      BY <2>2
    <3> QED
      BY <2>2, <2>3, <3>2, <3>3 DEF Written, Expected
  <2> QED
    BY <1>2, <1>3, <2>2, <2>4, <2>5 DEF DiskInv, Cleaned, Whole, Recorded
<1> QED
  BY <1>4, <1>5 DEF Assemble

LEMMA WritePageStep ==
  ASSUME NEW x, Single(x), DiskInv(x), PagesInv', WritePage(x)
  PROVE  DiskInv(x)'
<1> DEFINE p == parser[x]
           r == parser'[x]
           k == p.written + 1
<1>1. /\ x \in Parsers /\ parser = [y \in Parsers |-> parser[y]] /\ DOMAIN p = DOMAIN Down
      /\ RunOK(p) /\ Sound(p) /\ Names = {1}
  BY Known DEF Single
<1>2. /\ p.at = "writing" /\ p.written < p.expected /\ sidecar.status = "none"
      /\ FilesOK /\ SidecarOK /\ BoundsOK /\ ~announced
      /\ p.md = 1 /\ files[1].exists /\ files[1].owner = {x}
      /\ \A q \in 1 .. p.written : files[1].text[q] = PageOf(x, q)
      /\ \E q \in Expected(x) : PageOf(x, q) # Placeholder
  BY DEF WritePage, DiskInv, Cleaned, Written, DoneIsDurable
<1>3. /\ sidecar' = sidecar /\ input' = input /\ announced' = announced /\ left' = left
      /\ BoundsOK' /\ SidecarOK' /\ SidecarTruthful' /\ DoneIsDurable'
  BY <1>2 DEF WritePage, BoundsOK, SidecarOK, SidecarTruthful, DoneIsDurable
<1>4. files' = [files EXCEPT ![1].text[k] = PageOf(x, k)] /\ Becomes(x, [written |-> k])
  BY <1>2 DEF WritePage
<1>5. /\ r.at = "writing" /\ r.md = 1 /\ r.row = p.row /\ r.result = p.result
      /\ r.expected = p.expected /\ r.written = k
  BY <1>1, <1>2, <1>4, BecomesFields, DownFields
<1>6. p.written \in Nat /\ k \in Pages
  BY <1>1, <1>2 DEF Sound, ProcessOK, Pages
<1>7. \A q : PageOf(x, q)' = PageOf(x, q)
  BY <1>5 DEF PageOf
<1>8. /\ DOMAIN files' = Names /\ files'[1].exists /\ files'[1].owner = {x}
      /\ files'[1].text = [files[1].text EXCEPT ![k] = PageOf(x, k)]
  BY <1>1, <1>2, <1>4 DEF FilesOK
<1>9. FilesOK' /\ RunOK(parser[x])'
  <2>1. PageOf(x, k) \in Content /\ files[1].text \in [Pages -> Content]
    BY <1>1, <1>2, <1>6, TextOfPages DEF FilesOK
  <2>2. files'[1].text \in [Pages -> Content]
    BY <1>8, <2>1
  <2>3. files'[1].exists \in BOOLEAN
    BY <1>2, <1>4, <1>1 DEF FilesOK
  <2>4. FilesOK'
    <3>1. DOMAIN files' = Names /\ files'[1].owner \subseteq Parsers /\ Names = {1}
      BY <1>1, <1>8
    <3> QED
      BY <2>2, <2>3, <3>1 DEF FilesOK
  <2> QED
    BY <1>1, <1>5, <2>4 DEF RunOK
<1>10. \A q \in 1 .. k : files'[1].text[q] = PageOf(x, q)
  <2>1. files[1].text \in [Pages -> Content]
    BY <1>1, <1>2 DEF FilesOK
  <2>2. files'[1].text[k] = PageOf(x, k)
    BY <1>6, <1>8, <2>1
  <2>3. ASSUME NEW q \in 1 .. p.written PROVE files'[1].text[q] = PageOf(x, q)
    <3>1. q # k /\ files[1].text[q] = PageOf(x, q)
      BY <1>2, <1>6
    <3>2. q \in Pages
      BY <1>6 DEF Pages
    <3> QED
      BY <1>8, <2>1, <3>1, <3>2
  <2> QED
    BY <1>6, <2>2, <2>3
<1>11. Written(x)'
  BY <1>2, <1>5, <1>7, <1>8, <1>10 DEF Written, Expected
<1> QED
  BY <1>2, <1>3, <1>5, <1>9, <1>11 DEF DiskInv, Cleaned, Whole, Recorded

LEMMA FinishDocumentStep ==
  ASSUME NEW x, Single(x), DiskInv(x), PagesInv', FinishDocument(x)
  PROVE  DiskInv(x)'
<1> DEFINE p == parser[x]
           r == parser'[x]
<1>1. /\ x \in Parsers /\ parser = [y \in Parsers |-> parser[y]] /\ DOMAIN p = DOMAIN Down
      /\ RunOK(p) /\ Sound(p) /\ Names = {1}
  BY Known DEF Single
<1>2. /\ p.at = "writing" /\ p.written = p.expected /\ sidecar.status = "none"
      /\ FilesOK /\ SidecarOK /\ BoundsOK /\ ~announced
      /\ p.md = 1 /\ files[1].exists /\ files[1].owner = {x}
      /\ \A q \in 1 .. p.expected : files[1].text[q] = PageOf(x, q)
      /\ \E q \in Expected(x) : PageOf(x, q) # Placeholder
  BY DEF FinishDocument, DiskInv, Cleaned, Written, DoneIsDurable
<1>3. /\ sidecar' = sidecar /\ files' = files /\ input' = input /\ announced' = announced
      /\ left' = left /\ BoundsOK' /\ SidecarOK' /\ FilesOK' /\ SidecarTruthful' /\ DoneIsDurable'
  BY <1>2 DEF FinishDocument, BoundsOK, SidecarOK, FilesOK, SidecarTruthful, DoneIsDurable
<1>4. Becomes(x, [at |-> "finishing", verdict |-> Status(x)]) /\ Status(x) \in {"success", "failed"}
  BY DEF FinishDocument, Status
<1>5. /\ r.at = "finishing" /\ r.md = 1 /\ r.row = p.row /\ r.result = p.result
      /\ r.expected = p.expected /\ r.verdict = Status(x)
  BY <1>1, <1>2, <1>4, BecomesFields, DownFields
<1>6. ASSUME Status(x) = "success"
      PROVE  HasText(1) /\ \A q \in 1 .. p.expected : files[1].text[q] \in Versions
  <2>1. \A q \in 1 .. p.expected : q \in Pages /\ PageOf(x, q) \in Versions
    <3>1. \A q \in 1 .. p.expected : PageOf(x, q) # Placeholder
      BY <1>6 DEF Status, Expected
    <3>2. 1 .. p.expected \subseteq Pages
      BY <1>1 DEF Sound, ProcessOK, Pages
    <3> QED
      BY <1>1, <3>1, <3>2, TextOfPages
  <2>2. \A q \in 1 .. p.expected : files[1].text[q] \in Versions
    BY <1>2, <2>1
  <2>3. PICK q \in 1 .. p.expected : TRUE
    BY <1>2 DEF Expected
  <2>4. q \in Pages /\ files[1].text[q] # Absent
    BY <2>1, <2>2, <2>3, VersionsArePositive DEF Absent
  <2>5. files[1].text # Blank
    BY <2>4 DEF Blank
  <2> QED
    BY <1>1, <1>2, <2>2, <2>5 DEF HasText
<1>7. Whole(x)'
  BY <1>3, <1>4, <1>5, <1>6 DEF Whole, HasText, Expected
<1>8. RunOK(parser[x])'
  BY <1>1, <1>5 DEF RunOK
<1> QED
  BY <1>2, <1>3, <1>5, <1>7, <1>8 DEF DiskInv, Cleaned, Written, Recorded

LEMMA ReportingSteps ==
  ASSUME NEW x, Single(x), DiskInv(x), PagesInv',
         WriteSidecar(x) \/ SidecarAfterError(x) \/ Announce(x)
  PROVE  DiskInv(x)'
<1> DEFINE p == parser[x]
           r == parser'[x]
<1>1. /\ x \in Parsers /\ parser = [y \in Parsers |-> parser[y]] /\ DOMAIN p = DOMAIN Down
      /\ RunOK(p) /\ Sound(p) /\ Names = {1} /\ input \in Versions
  BY Known DEF Single
<1>2. /\ files' = files /\ input' = input /\ left' = left /\ BoundsOK' /\ FilesOK'
      /\ SidecarOK /\ SidecarTruthful /\ DoneIsDurable
  BY DEF DiskInv, WriteSidecar, SidecarAfterError, Announce, BoundsOK, FilesOK
<1>3. CASE WriteSidecar(x)
  <2>1. /\ p.at = "finishing" /\ Becomes(x, [at |-> "announcing"]) /\ announced' = announced
        /\ sidecar' = [status |-> p.verdict, input |-> input, md |-> p.md, pages |-> p.expected]
    BY <1>3 DEF WriteSidecar
  <2>2. /\ r.at = "announcing" /\ r.md = p.md /\ r.row = p.row /\ r.result = p.result
        /\ r.verdict = p.verdict
    BY <1>1, <2>1, BecomesFields, DownFields
  <2>3. /\ ~announced /\ p.verdict \in {"success", "failed"} /\ p.expected \in 0 .. NPages
        /\ p.verdict = "success" =>
             /\ p.md = 1 /\ HasText(1) /\ \A q \in 1 .. p.expected : files[1].text[q] \in Versions
    BY <1>1, <1>2, <2>1 DEF DiskInv, Cleaned, Whole, Expected, DoneIsDurable, Sound, ProcessOK
  <2>4. SidecarOK'
    BY <1>1, <1>2, <2>1, <2>3 DEF SidecarOK, RunOK
  <2>5. SidecarTruthful' /\ DoneIsDurable'
    BY <1>2, <2>1, <2>3 DEF SidecarTruthful, DoneIsDurable, HasText
  <2>6. sidecar'.status = p.verdict
    BY <2>1
  <2> QED
    BY <1>1, <1>2, <2>2, <2>4, <2>5, <2>6, IdleStep DEF RunOK
<1>4. CASE SidecarAfterError(x)
  <2>1. /\ p.at = "raised" /\ Becomes(x, [at |-> "announcing", verdict |-> "failed"])
        /\ announced' = announced
        /\ sidecar' = [status |-> "failed", input |-> input, md |-> NoName, pages |-> 0]
    BY <1>4 DEF SidecarAfterError
  <2>2. /\ r.at = "announcing" /\ r.md = p.md /\ r.row = p.row /\ r.result = p.result
        /\ r.verdict = "failed"
    BY <1>1, <2>1, BecomesFields, DownFields
  <2>3. ~announced
    BY <1>2, <2>1 DEF DiskInv, Cleaned, DoneIsDurable
  <2>4. SidecarOK' /\ SidecarTruthful' /\ DoneIsDurable'
    BY <1>1, <1>2, <2>1, <2>3 DEF SidecarOK, SidecarTruthful, DoneIsDurable
  <2> QED
    BY <1>1, <1>2, <2>2, <2>4, IdleStep DEF RunOK
<1>5. CASE Announce(x)
  <2>1. /\ p.at = "announcing" /\ Becomes(x, [at |-> "ending"]) /\ sidecar' = sidecar
        /\ announced' = (announced \/ p.verdict = "success")
    BY <1>5 DEF Announce
  <2>2. r.at = "ending" /\ r.md = p.md /\ r.row = p.row /\ r.result = p.result
    BY <1>1, <2>1, BecomesFields, DownFields
  <2>3. SidecarOK' /\ SidecarTruthful'
    BY <1>2, <2>1 DEF SidecarOK, SidecarTruthful, HasText
  <2>4. DoneIsDurable'
    BY <1>2, <2>1 DEF DiskInv, Recorded, SidecarTruthful, DoneIsDurable, HasText
  <2> QED
    BY <1>1, <1>2, <2>2, <2>3, <2>4, IdleStep DEF RunOK
<1> QED
  BY <1>3, <1>4, <1>5

LEMMA ReplacedInput ==
  ASSUME NEW x, Single(x), DiskInv(x), PagesInv', ReplaceInput
  PROVE  DiskInv(x)'
<1>1. /\ parser' = parser /\ files' = files /\ sidecar' = sidecar /\ announced' = announced
      /\ input' = input + 1 /\ left.edits > 0 /\ left' = [left EXCEPT !.edits = @ - 1]
  BY DEF ReplaceInput, Spend
<1>2. BoundsOK'
  <2>1. left' \in Bounds /\ left'.edits = left.edits - 1 /\ left.edits \in Nat
    BY <1>1 DEF DiskInv, BoundsOK, Bounds
  <2>2. PICK s \in Scenarios : input + left.edits <= 1 + s.edits
    BY DEF DiskInv, BoundsOK
  <2>3. input \in Nat /\ s.edits \in Nat
    BY MostEdits DEF DiskInv, PagesInv
  <2>4. input' + left'.edits <= 1 + s.edits
    BY <1>1, <2>1, <2>2, <2>3
  <2> QED
    BY <2>1, <2>4 DEF BoundsOK
<1>3. /\ FilesOK' /\ SidecarOK' /\ RunOK(parser[x])' /\ SidecarTruthful' /\ DoneIsDurable'
  BY <1>1 DEF DiskInv, FilesOK, SidecarOK, RunOK, SidecarTruthful, DoneIsDurable, HasText
<1>4. Cleaned(x)' /\ Written(x)' /\ Whole(x)' /\ Recorded(x)'
  BY <1>1 DEF DiskInv, Cleaned, Written, Whole, Recorded, PageOf, Expected, HasText
<1> QED
  BY <1>2, <1>3, <1>4 DEF DiskInv

-----------------------------------------------------------------------------
(* The output directory tells the truth.                                   *)

LEMMA DiskInit == ASSUME NEW x, Parsers = {x}, DocumentInit PROVE DiskInv(x)
<1>1. Single(x) /\ Names = {1}
  BY OneName DEF Single
<1>2. PagesInv /\ parser[x] = Down /\ left \in Scenarios /\ input = 1
  BY PagesInit DEF DocumentInit
<1>3. BoundsOK
  <2>1. left \in Bounds
    BY <1>2 DEF Bounds
  <2>2. left.edits \in Nat
    BY <2>1 DEF Bounds
  <2> QED
    BY <1>2, <2>1, <2>2 DEF BoundsOK
<1>4. 1 \in Versions
  BY <1>2, <1>3, InputIsVersion
<1>5. FilesOK /\ \A n \in Names : ~files[n].exists
  BY DEF DocumentInit, FilesOK, NoFiles, NoFile, Blank, Content
<1>6. SidecarOK /\ SidecarTruthful /\ DoneIsDurable
  <2>1. /\ sidecar.status = "none" /\ sidecar.input = 1 /\ sidecar.md = NoName
        /\ sidecar.pages = 0 /\ announced = FALSE
    BY DEF DocumentInit, NoSidecar
  <2>2. announced \in BOOLEAN
    BY <2>1
  <2> QED
    BY <1>4, <2>1, <2>2 DEF SidecarOK, SidecarTruthful, DoneIsDurable
<1>7. RunOK(parser[x])
  BY <1>2, <1>4, DownFields DEF RunOK, Blank, Content
<1>8. Cleaned(x) /\ Written(x) /\ Whole(x) /\ Recorded(x)
  BY <1>2, DownFields DEF Cleaned, Written, Whole, Recorded
<1> QED
  BY <1>2, <1>3, <1>5, <1>6, <1>7, <1>8 DEF DiskInv

LEMMA DiskStep ==
  ASSUME NEW x, Parsers = {x}, DiskInv(x), [DocumentNext]_documentVars
  PROVE  DiskInv(x)'
<1>1. Single(x) /\ PagesInv'
  BY OneName, PagesStep DEF DiskInv
<1>2. CASE UNCHANGED documentVars
  BY <1>1, <1>2 DEF documentVars, DiskInv, BoundsOK, FilesOK, SidecarOK, RunOK, Cleaned, Written,
     Whole, Recorded, PageOf, Expected, SidecarTruthful, DoneIsDurable, HasText
<1>3. CASE ReplaceInput
  BY <1>1, <1>3, ReplacedInput
<1>4. CASE RunStep(x) \/ Launch(x) \/ Raise(x) \/ Signal(x) \/ Crash(x)
  BY <1>1, <1>4, LooseSteps, SteadySteps, CheckingSteps, AssembleStep, WritePageStep,
     FinishDocumentStep, ReportingSteps DEF RunStep
<1> QED
  BY <1>2, <1>3, <1>4 DEF DocumentNext

LEMMA DiskHolds == ASSUME NEW x, Parsers = {x} PROVE DocumentSpec => []DiskInv(x)
BY DiskInit, DiskStep, PTL DEF DocumentSpec

LEMMA DiskIsTruthful == ASSUME NEW x, Parsers = {x}, DiskInv(x) PROVE DiskTruthful
<1>1. Sound(parser[x]) /\ RunOK(parser[x]) /\ input \in Versions /\ Single(x)
  BY Known, OneName
<1>2. DocumentTypeOK
  BY <1>1 DEF DiskInv, FilesOK, SidecarOK, RunOK, Sound, ProcessOK, Places, Verdicts, DocumentTypeOK
<1> QED
  BY <1>2 DEF DiskInv, DiskTruthful

\* A parser that is alone with its output directory: the sidecar describes the file
\* beside it, page by page, a success that was announced stays backed by one, and no
\* page is missing from what is put together, through signals, errors, crashes and
\* replacements of the input at any moment.
THEOREM OutputAlwaysTruthful ==
  ASSUME NEW x, Parsers = {x}
  PROVE  DocumentSpec => []OutputTruthful
<1>1. DiskInv(x) => OutputTruthful
  BY DiskIsTruthful, PagesKeepAll DEF OutputTruthful, DiskInv
<1> QED
  BY <1>1, DiskHolds, PTL

-----------------------------------------------------------------------------
(* What a shard skips.                                                     *)

\* The kind of a scenario stays what it is, and signals that are not there do not
\* come.
LEMMA KindStays ==
  ASSUME BoundsOK, [DocumentNext]_documentVars
  PROVE  /\ left'.manifest = left.manifest /\ left'.duringRuns = left.duringRuns
         /\ left.signals = 0 => left'.signals = 0
<1>1. left \in Bounds
  BY DEF BoundsOK
<1>2. left' = left \/ \E what \in {"starts", "signals", "crashes", "errors", "edits"} : Spend(what)
  BY DEF DocumentNext, RunStep, LeaveOut, CheckLocal, RefuseStale, CheckRecord, ParseFile,
         QueuePage, BlockOnQueue, StopProducing, QueueEnd, TakePage, FinishPage, Assemble, WritePage,
         FinishDocument, WriteSidecar, SidecarAfterError, Announce, EndRun, Launch, Raise, Signal,
         Crash, ReplaceInput, documentVars
<1>3. ASSUME NEW what \in {"starts", "signals", "crashes", "errors", "edits"}, Spend(what)
      PROVE  /\ left'.manifest = left.manifest /\ left'.duringRuns = left.duringRuns
             /\ left.signals = 0 => left'.signals = 0
  <2>1. left[what] > 0 /\ left' = [left EXCEPT ![what] = @ - 1]
    BY <1>3 DEF Spend
  <2> QED
    BY <1>1, <2>1 DEF Bounds
<1> QED
  BY <1>2, <1>3

\* Steps that change neither the output nor what a run found and rendered.
Quietly(x) ==
  /\ files' = files /\ sidecar' = sidecar /\ input' = input
  /\ parser'[x].row = parser[x].row /\ parser'[x].result = parser[x].result
  /\ parser'[x].written = parser[x].written
  /\ parser'[x].shutdown = parser[x].shutdown \/ left.signals > 0
  /\ parser'[x].expected = parser[x].expected \/ parser[x].shutdown
  /\ \/ parser'[x].at = parser[x].at /\ parser'[x].verdict = parser[x].verdict
     \/ parser'[x].at \in {"ending", "ended", "raised", "announcing"}

SkipsNow(x) ==
  /\ \E md : Becomes(x, [at |-> "announcing", verdict |-> "skipped", md |-> md])
  /\ UNCHANGED <<files, sidecar, announced, input, left>>

LEMMA QuietSteps ==
  ASSUME NEW x, Single(x), DiskInv(x),
         \/ LeaveOut(x) \/ QueuePage(x) \/ BlockOnQueue(x) \/ StopProducing(x) \/ QueueEnd(x)
         \/ \E c \in Consumers : TakePage(x, c)
         \/ Announce(x) \/ EndRun(x) \/ Raise(x) \/ Signal(x) \/ SkipsNow(x)
  PROVE  Quietly(x)
<1> DEFINE p == parser[x]
           r == parser'[x]
<1>1. /\ x \in Parsers /\ parser = [y \in Parsers |-> parser[y]] /\ DOMAIN p = DOMAIN Down
  BY Known
<1>2. files' = files /\ sidecar' = sidecar /\ input' = input
  BY DEF LeaveOut, QueuePage, BlockOnQueue, StopProducing, QueueEnd, TakePage, Announce, EndRun,
         Raise, Signal, SkipsNow
<1>3. ASSUME NEW changes, Becomes(x, changes)
      PROVE  \A f \in DOMAIN Down : r[f] = IF f \in DOMAIN changes THEN changes[f] ELSE p[f]
  BY <1>1, <1>3, BecomesFields
<1>4. ASSUME NEW changes, Becomes(x, changes),
             DOMAIN changes \subseteq {"queue", "queued", "blocked", "ends", "busy"}
      PROVE  Quietly(x)
  BY <1>2, <1>3, <1>4, DownFields DEF Quietly
<1>5. ASSUME NEW changes, Becomes(x, changes),
             DOMAIN changes \subseteq {"at", "verdict", "md"}, "at" \in DOMAIN changes,
             changes["at"] \in {"ending", "ended", "raised", "announcing"}
      PROVE  Quietly(x)
  BY <1>2, <1>3, <1>5, DownFields DEF Quietly
<1>6. CASE QueuePage(x) \/ BlockOnQueue(x) \/ QueueEnd(x) \/ \E c \in Consumers : TakePage(x, c)
  <2>1. CASE QueuePage(x)
    <3> DEFINE c == [queue |-> Append(p.queue, p.queued + 1), queued |-> p.queued + 1,
                     blocked |-> FALSE]
    <3>1. Becomes(x, c) /\ DOMAIN c = {"queue", "queued", "blocked"}
      BY <2>1 DEF QueuePage
    <3> HIDE DEF c
    <3> QED
      BY <3>1, <1>4
  <2>2. CASE BlockOnQueue(x)
    <3> DEFINE c == [blocked |-> TRUE]
    <3>1. Becomes(x, c) /\ DOMAIN c = {"blocked"}
      BY <2>2 DEF BlockOnQueue
    <3> HIDE DEF c
    <3> QED
      BY <3>1, <1>4
  <2>3. CASE QueueEnd(x)
    <3> DEFINE c == [queue |-> Append(p.queue, End), ends |-> p.ends + 1]
    <3>1. Becomes(x, c) /\ DOMAIN c = {"queue", "ends"}
      BY <2>3 DEF QueueEnd
    <3> HIDE DEF c
    <3> QED
      BY <3>1, <1>4
  <2>4. ASSUME NEW d \in Consumers, TakePage(x, d)
        PROVE  Quietly(x)
    <3> DEFINE c == [busy |-> [p.busy EXCEPT ![d] = Head(p.queue)], queue |-> Tail(p.queue)]
    <3>1. Becomes(x, c) /\ DOMAIN c = {"busy", "queue"}
      BY <2>4 DEF TakePage
    <3> HIDE DEF c
    <3> QED
      BY <3>1, <1>4
  <2> QED
    BY <1>6, <2>1, <2>2, <2>3, <2>4
<1>7. CASE StopProducing(x)
  <2> DEFINE c == [expected |-> p.queued]
  <2>1. Becomes(x, c) /\ p.shutdown /\ DOMAIN c = {"expected"}
    BY <1>7 DEF StopProducing
  <2> HIDE DEF c
  <2>2. \A f \in DOMAIN Down : f # "expected" => r[f] = p[f]
    BY <1>3, <2>1
  <2>3. /\ r.row = p.row /\ r.result = p.result /\ r.written = p.written
        /\ r.shutdown = p.shutdown /\ r.at = p.at /\ r.verdict = p.verdict
    BY <2>2, DownFields
  <2> QED
    BY <1>2, <2>1, <2>3 DEF Quietly
<1>8. CASE Signal(x)
  <2>1. Becomes(x, [shutdown |-> TRUE]) /\ left.signals > 0
    BY <1>8 DEF Signal, Spend
  <2>2. /\ r.row = p.row /\ r.result = p.result /\ r.written = p.written
        /\ r.expected = p.expected /\ r.at = p.at /\ r.verdict = p.verdict
    BY <1>3, <2>1, DownFields
  <2> QED
    BY <1>2, <2>1, <2>2 DEF Quietly
<1>9. CASE LeaveOut(x) \/ Announce(x) \/ EndRun(x) \/ Raise(x)
  <2>1. CASE \E to \in {"ending", "ended", "raised"} : Becomes(x, [at |-> to])
    <3>1. PICK to \in {"ending", "ended", "raised"} : Becomes(x, [at |-> to])
      BY <2>1
    <3> QED
      BY <3>1, <1>5
  <2>2. CASE Becomes(x, [at |-> "ending", verdict |-> "raised"])
    BY <2>2, <1>5
  <2> QED
    BY <1>9, <2>1, <2>2 DEF LeaveOut, Announce, EndRun, Raise
<1>10. CASE SkipsNow(x)
  <2>1. PICK md : Becomes(x, [at |-> "announcing", verdict |-> "skipped", md |-> md])
    BY <1>10 DEF SkipsNow
  <2> QED
    BY <2>1, <1>5
<1> QED
  BY <1>6, <1>7, <1>8, <1>9, <1>10

\* Removed is what was there when a shard decides to parse a document.
Afresh(x) ==
  /\ left.manifest
  /\ parser[x].at = "opening" => sidecar.status = "none" /\ \A n \in Names : ~files[n].exists

\* Without signals, production is not cut short.
Full(x) ==
  /\ left.signals = 0 /\ ~parser[x].shutdown /\ parser[x].expected = NPages
  /\ sidecar.status = "success" => sidecar.pages = NPages

\* While the input stays, what is rendered is the version of the manifest row, and the
\* sidecar names it.
Current(x) ==
  /\ ~left.duringRuns
  /\ parser[x].at \in {"opening", "parsing", "writing", "finishing"} => parser[x].row = input
  /\ parser[x].at \in {"checking", "opening", "parsing", "writing", "finishing"} =>
       \A q \in Pages : parser[x].result[q] \in {Absent, Placeholder, input}
  /\ parser[x].at = "writing" =>
       \A q \in Pages : q > parser[x].written => files[1].text[q] = Absent
  /\ parser[x].at = "finishing" /\ parser[x].verdict = "success" =>
       \A q \in Pages : files[1].text[q] \in {input, Absent}
  /\ sidecar.status = "success" =>
       \A q \in Pages : files[1].text[q] \in {sidecar.input, Absent}

\* How a step of the parser can take it, apart from the quiet ones.
LEMMA OtherSteps ==
  ASSUME NEW x, Single(x), DiskInv(x), left.manifest,
         RunStep(x) \/ Launch(x) \/ Raise(x) \/ Signal(x) \/ Crash(x)
  PROVE  \/ Quietly(x)
         \/ RefuseStale(x) \/ SidecarAfterError(x)
         \/ /\ parser[x].at = "checking" /\ input = parser[x].row /\ CleanOutput(parser[x].row)
            /\ input' = input /\ Becomes(x, [at |-> "opening"])
         \/ /\ parser[x].at = "opening" /\ CleanOutput(parser[x].row)
            /\ input' = input /\ Becomes(x, [at |-> "parsing"])
         \/ \E c \in Consumers : FinishPage(x, c)
         \/ Assemble(x) \/ WritePage(x) \/ FinishDocument(x) \/ WriteSidecar(x)
         \/ Launch(x) \/ Crash(x)
<1>1. CASE CheckRecord(x)
  <2>1. CASE /\ Becomes(x, [at |-> "announcing", verdict |-> "skipped", md |-> sidecar.md])
             /\ UNCHANGED <<files, sidecar, announced>>
    BY <1>1, <2>1, QuietSteps DEF CheckRecord, SkipsNow
  <2> QED
    BY <1>1, <2>1 DEF CheckRecord
<1>2. CASE ParseFile(x)
  <2>1. CASE /\ Becomes(x, [at |-> "announcing", verdict |-> "skipped", md |-> AcceptedFile])
             /\ UNCHANGED <<files, sidecar, announced>>
    BY <1>2, <2>1, QuietSteps DEF ParseFile, SkipsNow
  <2> QED
    BY <1>2, <2>1 DEF ParseFile
<1>3. ~CheckLocal(x)
  BY DEF CheckLocal
<1> QED
  BY <1>1, <1>2, <1>3, QuietSteps DEF RunStep

\* A process at its start, or killed.
LEMMA FreshFields ==
  ASSUME NEW x, Single(x), DiskInv(x), Launch(x) \/ Crash(x)
  PROVE  /\ files' = files /\ sidecar' = sidecar /\ input' = input
         /\ parser'[x].at \in {"down", "checking"} /\ parser'[x].shutdown = FALSE
         /\ parser'[x].expected = NPages /\ parser'[x].result = Blank
         /\ parser'[x].verdict = "none"
<1>1. x \in Parsers /\ parser = [y \in Parsers |-> parser[y]]
  BY Known
<1>2. CASE Crash(x)
  BY <1>1, <1>2, DownFields DEF Crash
<1>3. CASE Launch(x)
  <2>1. PICK row : parser' = [parser EXCEPT ![x] = [Down EXCEPT !.at = "checking", !.row = row]]
    BY <1>3 DEF Launch
  <2> DEFINE d == [Down EXCEPT !.at = "checking", !.row = row]
  <2>2. /\ d.at = "checking" /\ d.shutdown = FALSE /\ d.expected = NPages /\ d.result = Blank
        /\ d.verdict = "none"
    BY DownFields
  <2>3. parser'[x] = d
    BY <1>1, <2>1
  <2> HIDE DEF d
  <2> QED
    BY <1>3, <2>2, <2>3 DEF Launch
<1> QED
  BY <1>2, <1>3

\* A page rendered.
LEMMA FinishedPage ==
  ASSUME NEW x, Single(x), DiskInv(x), NEW c \in Consumers, FinishPage(x, c)
  PROVE  /\ files' = files /\ sidecar' = sidecar /\ input' = input
         /\ parser[x].at = "parsing" /\ parser'[x].at = "parsing"
         /\ parser'[x].row = parser[x].row /\ parser'[x].shutdown = parser[x].shutdown
         /\ parser'[x].expected = parser[x].expected
         /\ \A q \in Pages : parser'[x].result[q] \in {parser[x].result[q], input, Placeholder}
<1> DEFINE p == parser[x]
           r == parser'[x]
<1>1. /\ x \in Parsers /\ parser = [y \in Parsers |-> parser[y]] /\ DOMAIN p = DOMAIN Down
      /\ p.result \in [Pages -> Content]
  BY Known DEF RunOK
<1>2. PICK content \in {input, Placeholder} :
        Becomes(x, [result |-> [p.result EXCEPT ![p.busy[c]] = content],
                    busy |-> [p.busy EXCEPT ![c] = Idle]])
  BY DEF FinishPage
<1> DEFINE d == [result |-> [p.result EXCEPT ![p.busy[c]] = content],
                 busy |-> [p.busy EXCEPT ![c] = Idle]]
<1>3. /\ Becomes(x, d) /\ DOMAIN d = {"result", "busy"}
      /\ d["result"] = [p.result EXCEPT ![p.busy[c]] = content]
  BY <1>2
<1> HIDE DEF d
<1>4. /\ r.at = p.at /\ r.row = p.row /\ r.shutdown = p.shutdown /\ r.expected = p.expected
      /\ r.result = [p.result EXCEPT ![p.busy[c]] = content]
  BY <1>1, <1>3, BecomesFields, DownFields
<1>5. \A q \in Pages : r.result[q] \in {p.result[q], input, Placeholder}
  BY <1>1, <1>2, <1>4
<1> QED
  BY <1>4, <1>5 DEF FinishPage

\* What the other steps keep of a run.
Kept(x) ==
  /\ parser'[x].row = parser[x].row /\ parser'[x].result = parser[x].result
  /\ parser'[x].shutdown = parser[x].shutdown /\ parser'[x].expected = parser[x].expected

LEMMA KeptFields ==
  ASSUME NEW x, Single(x), DiskInv(x)
  PROVE  /\ RefuseStale(x) \/ SidecarAfterError(x) =>
              Kept(x) /\ parser'[x].at = "announcing" /\ parser'[x].verdict = "failed"
         /\ WriteSidecar(x) => Kept(x) /\ parser'[x].at = "announcing"
         /\ FinishDocument(x) =>
              Kept(x) /\ parser'[x].at = "finishing" /\ parser'[x].verdict = Status(x)
         /\ WritePage(x) =>
              /\ Kept(x) /\ parser[x].at = "writing" /\ parser'[x].at = "writing"
              /\ parser'[x].written = parser[x].written + 1
         /\ Assemble(x) =>
              /\ Kept(x)
              /\ \/ parser'[x].at = "finishing" /\ parser'[x].verdict = "failed"
                 \/ parser'[x].at = "writing" /\ files' = [files EXCEPT ![FreeName] =
                        [exists |-> TRUE, owner |-> {x}, text |-> Blank]]
         /\ \A to \in {"opening", "parsing"} :
              Becomes(x, [at |-> to]) => Kept(x) /\ parser'[x].at = to
<1> DEFINE p == parser[x]
           r == parser'[x]
<1>1. /\ x \in Parsers /\ parser = [y \in Parsers |-> parser[y]] /\ DOMAIN p = DOMAIN Down
  BY Known
<1>2. \A to : Becomes(x, [at |-> to]) => Kept(x) /\ r.at = to /\ r.verdict = p.verdict
  BY <1>1, BecomesFields, DownFields DEF Kept
<1>3. \A to, verdict : Becomes(x, [at |-> to, verdict |-> verdict]) =>
                         Kept(x) /\ r.at = to /\ r.verdict = verdict
  BY <1>1, BecomesFields, DownFields DEF Kept
<1>4. \A md : Becomes(x, [at |-> "writing", md |-> md]) => Kept(x) /\ r.at = "writing"
  BY <1>1, BecomesFields, DownFields DEF Kept
<1>5. \A n : Becomes(x, [written |-> n]) => Kept(x) /\ r.at = p.at /\ r.written = n
  BY <1>1, BecomesFields, DownFields DEF Kept
<1>6. RefuseStale(x) \/ SidecarAfterError(x) => Kept(x) /\ r.at = "announcing" /\ r.verdict = "failed"
  BY <1>3 DEF RefuseStale, SidecarAfterError
<1>7. WriteSidecar(x) => Kept(x) /\ r.at = "announcing"
  BY <1>2 DEF WriteSidecar
<1>8. FinishDocument(x) => Kept(x) /\ r.at = "finishing" /\ r.verdict = Status(x)
  BY <1>3 DEF FinishDocument
<1>9. WritePage(x) => Kept(x) /\ p.at = "writing" /\ r.at = "writing" /\ r.written = p.written + 1
  BY <1>5 DEF WritePage
<1>10. Assemble(x) =>
         /\ Kept(x)
         /\ \/ r.at = "finishing" /\ r.verdict = "failed"
            \/ r.at = "writing" /\ files' = [files EXCEPT ![FreeName] =
                   [exists |-> TRUE, owner |-> {x}, text |-> Blank]]
  BY <1>3, <1>4 DEF Assemble
<1> QED
  BY <1>2, <1>6, <1>7, <1>8, <1>9, <1>10

LEMMA AfreshStep ==
  ASSUME NEW x, Parsers = {x}, DiskInv(x), Afresh(x), [DocumentNext]_documentVars
  PROVE  Afresh(x)'
<1>1. Single(x) /\ left'.manifest /\ left.manifest
  BY OneName, KindStays DEF DiskInv, Afresh
<1> SUFFICES ASSUME parser'[x].at = "opening"
             PROVE  sidecar'.status = "none" /\ \A n \in Names : ~files'[n].exists
  BY <1>1 DEF Afresh
<1>2. CASE UNCHANGED documentVars \/ ReplaceInput
  BY <1>2 DEF documentVars, ReplaceInput, Afresh
<1>3. CASE Quietly(x)
  BY <1>3 DEF Quietly, Afresh
<1>4. ASSUME NEW row, CleanOutput(row)
      PROVE  sidecar'.status = "none" /\ \A n \in Names : ~files'[n].exists
  BY <1>4 DEF CleanOutput, NoFiles, NoFile, NoSidecar
<1>5. ~(\E c \in Consumers : FinishPage(x, c)) /\ ~(Launch(x) \/ Crash(x))
  BY <1>1, FinishedPage, FreshFields
<1>6. /\ ~RefuseStale(x) /\ ~SidecarAfterError(x) /\ ~FinishDocument(x) /\ ~WriteSidecar(x)
      /\ ~Assemble(x) /\ ~WritePage(x)
  BY <1>1, KeptFields
<1> QED
  BY <1>1, <1>2, <1>3, <1>4, <1>5, <1>6, OtherSteps DEF DocumentNext

LEMMA FullStep ==
  ASSUME NEW x, Parsers = {x}, DiskInv(x), left.manifest, Full(x), [DocumentNext]_documentVars
  PROVE  Full(x)'
<1> DEFINE p == parser[x]
           r == parser'[x]
<1>1. Single(x) /\ left'.signals = 0 /\ left.signals = 0
  BY OneName, KindStays DEF DiskInv, Full
<1> SUFFICES /\ ~r.shutdown /\ r.expected = NPages
             /\ sidecar'.status = "success" => sidecar'.pages = NPages
  BY <1>1 DEF Full
<1>2. CASE UNCHANGED documentVars \/ ReplaceInput
  BY <1>2 DEF documentVars, ReplaceInput, Full
<1>3. CASE Quietly(x)
  BY <1>1, <1>3 DEF Quietly, Full
<1>4. ASSUME Kept(x), sidecar' = sidecar \/ sidecar'.status # "success" \/ sidecar'.pages = p.expected
      PROVE  /\ ~r.shutdown /\ r.expected = NPages
             /\ sidecar'.status = "success" => sidecar'.pages = NPages
  BY <1>4 DEF Kept, Full
<1>5. ASSUME NEW to \in {"opening", "parsing"}, Becomes(x, [at |-> to]), NEW row, CleanOutput(row)
      PROVE  Kept(x) /\ sidecar'.status # "success"
  BY <1>1, <1>5, KeptFields DEF CleanOutput, NoSidecar
<1>6. CASE RefuseStale(x) \/ SidecarAfterError(x) \/ FinishDocument(x) \/ WriteSidecar(x)
           \/ Assemble(x) \/ WritePage(x)
  <2>1. Kept(x)
    BY <1>1, <1>6, KeptFields
  <2>2. sidecar' = sidecar \/ sidecar'.status # "success" \/ sidecar'.pages = p.expected
    BY <1>6 DEF RefuseStale, SidecarAfterError, FinishDocument, WriteSidecar, Assemble, WritePage
  <2> QED
    BY <1>4, <2>1, <2>2
<1>7. CASE \E c \in Consumers : FinishPage(x, c)
  BY <1>1, <1>7, FinishedPage DEF Full
<1>8. CASE Launch(x) \/ Crash(x)
  BY <1>1, <1>8, FreshFields DEF Full
<1> QED
  BY <1>1, <1>2, <1>3, <1>4, <1>5, <1>6, <1>7, <1>8, OtherSteps DEF DocumentNext

LEMMA CurrentStep ==
  ASSUME NEW x, Parsers = {x}, DiskInv(x), left.manifest, Current(x), [DocumentNext]_documentVars
  PROVE  Current(x)'
<1> DEFINE p == parser[x]
           r == parser'[x]
<1>1. /\ Single(x) /\ Names = {1} /\ ~left'.duringRuns /\ RunOK(p) /\ Sound(p) /\ FilesOK
      /\ files[1].text \in [Pages -> Content] /\ DOMAIN files = {1}
  BY OneName, KindStays, Known DEF DiskInv, Current, FilesOK, Single
<1>2. CASE UNCHANGED documentVars
  BY <1>2 DEF documentVars, Current
<1>3. CASE ReplaceInput
  <2>1. p.at \in {"down", "ended"}
    BY <1>1, <1>3 DEF ReplaceInput, Live, Current, Single
  <2> QED
    BY <1>1, <1>3, <2>1 DEF ReplaceInput, Current
<1>4. CASE Quietly(x)
  <2>1. CASE r.at = p.at /\ r.verdict = p.verdict
    BY <1>1, <1>4, <2>1 DEF Quietly, Current
  <2>2. CASE r.at \in {"ending", "ended", "raised", "announcing"}
    BY <1>1, <1>4, <2>2 DEF Quietly, Current
  <2> QED
    BY <1>4, <2>1, <2>2 DEF Quietly
<1>5. CASE RefuseStale(x) \/ SidecarAfterError(x)
  <2>2. r.at = "announcing"
    BY <1>1, <1>5, KeptFields
  <2>3. sidecar'.status = "failed"
    BY <1>5 DEF RefuseStale, SidecarAfterError
  <2>1. r.at = "announcing" /\ sidecar'.status = "failed"
    BY <2>2, <2>3
  <2> QED
    BY <1>1, <2>1 DEF Current
<1>6. CASE /\ p.at = "checking" /\ input = p.row /\ CleanOutput(p.row)
           /\ input' = input /\ Becomes(x, [at |-> "opening"])
  <2>1. Kept(x) /\ r.at = "opening" /\ sidecar'.status = "none"
    BY <1>1, <1>6, KeptFields DEF CleanOutput, NoSidecar
  <2> QED
    BY <1>1, <1>6, <2>1 DEF Current, Kept
<1>7. CASE /\ p.at = "opening" /\ CleanOutput(p.row)
           /\ input' = input /\ Becomes(x, [at |-> "parsing"])
  <2>1. Kept(x) /\ r.at = "parsing" /\ sidecar'.status = "none"
    BY <1>1, <1>7, KeptFields DEF CleanOutput, NoSidecar
  <2> QED
    BY <1>1, <1>7, <2>1 DEF Current, Kept
<1>8. CASE \E c \in Consumers : FinishPage(x, c)
  <2>1. /\ files' = files /\ sidecar' = sidecar /\ input' = input /\ p.at = "parsing"
        /\ r.at = "parsing" /\ r.row = p.row
        /\ \A q \in Pages : r.result[q] \in {p.result[q], input, Placeholder}
    BY <1>1, <1>8, FinishedPage
  <2>2. p.row = input /\ \A q \in Pages : p.result[q] \in {Absent, Placeholder, input}
    BY <2>1 DEF Current
  <2>3. \A q \in Pages : r.result[q] \in {Absent, Placeholder, input}
    BY <2>1, <2>2
  <2> QED
    BY <1>1, <2>1, <2>2, <2>3 DEF Current
<1>9. CASE Assemble(x)
  <2>1. /\ p.at = "parsing" /\ sidecar' = sidecar /\ input' = input /\ sidecar.status = "none"
        /\ Kept(x) /\ ~files[1].exists
    BY <1>1, <1>9, KeptFields DEF Assemble, DiskInv, Cleaned
  <2>2. CASE r.at = "finishing" /\ r.verdict = "failed"
    BY <1>1, <2>1, <2>2 DEF Current, Kept
  <2>3. CASE r.at = "writing" /\ files' = [files EXCEPT ![FreeName] =
               [exists |-> TRUE, owner |-> {x}, text |-> Blank]]
    <3>1. FreeName = 1
      <4>1. ~files[1].exists /\ \A m \in 1 .. 1 - 1 : files[m].exists
        BY <2>1
      <4> QED
        BY <1>1, <4>1 DEF FreeName
    <3>2. files'[1].text = Blank
      BY <1>1, <2>3, <3>1
    <3>3. \A q \in Pages : files'[1].text[q] = Absent
      BY <3>2 DEF Blank
    <3> QED
      BY <1>1, <2>1, <2>3, <3>3 DEF Current, Kept
  <2> QED
    BY <1>1, <1>9, <2>2, <2>3, KeptFields
<1>10. CASE WritePage(x)
  <2>4. p.at = "writing" /\ r.at = "writing" /\ Kept(x) /\ r.written = p.written + 1
    BY <1>1, <1>10, KeptFields
  <2>5. sidecar' = sidecar /\ input' = input
    BY <1>10 DEF WritePage
  <2>6. sidecar.status = "none" /\ p.md = 1 /\ files[1].owner = {x}
    BY <2>4 DEF DiskInv, Cleaned, Written
  <2>7. p.written \in Nat
    BY <1>1 DEF Sound, ProcessOK
  <2>1. /\ p.at = "writing" /\ r.at = "writing" /\ Kept(x) /\ r.written = p.written + 1
        /\ sidecar' = sidecar /\ input' = input /\ sidecar.status = "none" /\ p.md = 1
        /\ files[1].owner = {x} /\ p.written \in Nat
    BY <2>4, <2>5, <2>6, <2>7
  <2>2. files' = [files EXCEPT ![1].text[p.written + 1] = PageOf(x, p.written + 1)]
    BY <1>10, <2>1 DEF WritePage
  <2>3. \A q \in Pages : q > p.written + 1 => files'[1].text[q] = Absent
    <3>1. files'[1].text = [files[1].text EXCEPT ![p.written + 1] = PageOf(x, p.written + 1)]
      BY <1>1, <2>2
    <3>2. \A q \in Pages : q > p.written + 1 => q # p.written + 1 /\ q > p.written
      BY <2>1 DEF Pages
    <3>3. \A q \in Pages : q > p.written => files[1].text[q] = Absent
      BY <2>1 DEF Current
    <3> QED
      BY <1>1, <3>1, <3>2, <3>3
  <2> QED
    BY <1>1, <2>1, <2>3 DEF Current, Kept
<1>11. CASE FinishDocument(x)
  <2>1. /\ r.at = "finishing" /\ r.verdict = Status(x) /\ Kept(x) /\ files' = files
        /\ sidecar' = sidecar /\ input' = input /\ sidecar.status = "none"
        /\ p.at = "writing" /\ p.written = p.expected /\ p.expected \in 0 .. NPages
        /\ \A q \in 1 .. p.written : files[1].text[q] = PageOf(x, q)
    BY <1>1, <1>11, KeptFields DEF FinishDocument, DiskInv, Cleaned, Written, Sound, ProcessOK
  <2>2. ASSUME Status(x) = "success", NEW q \in Pages
        PROVE  files[1].text[q] \in {input, Absent}
    <3>1. CASE q > p.written
      BY <2>1, <3>1 DEF Current
    <3>2. CASE q \in 1 .. p.expected
      <4>1. PageOf(x, q) # Placeholder
        BY <2>2, <3>2 DEF Status, Expected
      <4>2. p.result[q] \in {Absent, Placeholder, input}
        BY <2>1 DEF Current
      <4> QED
        BY <2>1, <3>2, <4>1, <4>2 DEF PageOf
    <3> QED
      BY <2>1, <3>1, <3>2 DEF Pages
  <2> QED
    BY <1>1, <2>1, <2>2 DEF Current, Kept
<1>12. CASE WriteSidecar(x)
  <2>1. /\ r.at = "announcing" /\ files' = files /\ input' = input /\ p.at = "finishing"
        /\ sidecar'.status = p.verdict /\ sidecar'.input = input
    BY <1>1, <1>12, KeptFields DEF WriteSidecar
  <2> QED
    BY <1>1, <2>1 DEF Current
<1>13. CASE Launch(x) \/ Crash(x)
  <2>1. /\ files' = files /\ sidecar' = sidecar /\ input' = input
        /\ r.at \in {"down", "checking"} /\ r.result = Blank
    BY <1>1, <1>13, FreshFields
  <2> QED
    BY <1>1, <2>1 DEF Current, Blank
<1> QED
  BY <1>1, <1>2, <1>3, <1>4, <1>5, <1>6, <1>7, <1>8, <1>9, <1>10, <1>11, <1>12, <1>13, OtherSteps
     DEF DocumentNext

\* A document is skipped by one of two checks.
LEMMA SkipsFrom ==
  ASSUME NEW x, Parsers = {x}, DiskInv(x), [DocumentNext]_documentVars, Skips(x)
  PROVE  \/ StrictlyProcessed(parser[x].row) /\ parser'[x].md = sidecar.md
         \/ LenientlyProcessed /\ parser[x].at = "opening"
<1> DEFINE p == parser[x]
           r == parser'[x]
<1>1. /\ Single(x) /\ x \in Parsers /\ parser = [y \in Parsers |-> parser[y]]
      /\ DOMAIN p = DOMAIN Down /\ p.verdict # "skipped" /\ r.verdict = "skipped"
  BY OneName, Known DEF Skips
<1>2. ~(UNCHANGED documentVars) /\ ~ReplaceInput
  BY <1>1 DEF documentVars, ReplaceInput
<1>3. ~Launch(x) /\ ~Crash(x)
  BY <1>1, FreshFields
<1>4. ~RefuseStale(x) /\ ~SidecarAfterError(x) /\ ~FinishDocument(x)
  BY <1>1, KeptFields DEF Status
<1>5. \A to : ~Becomes(x, [at |-> to])
  BY <1>1, BecomesFields, DownFields
<1>6. ~LeaveOut(x) /\ ~CheckLocal(x) /\ ~WriteSidecar(x) /\ ~Announce(x) /\ ~EndRun(x)
  BY <1>5 DEF LeaveOut, CheckLocal, WriteSidecar, Announce, EndRun
<1>7. \A to, v : v # "skipped" => ~Becomes(x, [at |-> to, verdict |-> v])
  BY <1>1, BecomesFields, DownFields
<1>8. \A to, md : ~Becomes(x, [at |-> to, md |-> md])
  BY <1>1, BecomesFields, DownFields
<1>9. ~Raise(x) /\ ~Assemble(x)
  BY <1>5, <1>7, <1>8 DEF Raise, Assemble
<1>10. ASSUME NEW c, Becomes(x, c), "verdict" \notin DOMAIN c
       PROVE  FALSE
  BY <1>1, <1>10, BecomesFields, DownFields
<1>11. ~QueuePage(x)
  <2> DEFINE c == [queue |-> Append(p.queue, p.queued + 1), queued |-> p.queued + 1, blocked |-> FALSE]
  <2>1. QueuePage(x) => Becomes(x, c)
    BY DEF QueuePage
  <2>2. "verdict" \notin DOMAIN c
    OBVIOUS
  <2> QED
    BY <1>10, <2>1, <2>2
<1>12. ~QueueEnd(x)
  <2> DEFINE c == [queue |-> Append(p.queue, End), ends |-> p.ends + 1]
  <2>1. QueueEnd(x) => Becomes(x, c)
    BY DEF QueueEnd
  <2>2. "verdict" \notin DOMAIN c
    OBVIOUS
  <2> QED
    BY <1>10, <2>1, <2>2
<1>13. ~BlockOnQueue(x) /\ ~StopProducing(x) /\ ~Signal(x) /\ ~WritePage(x)
  <2>1. "verdict" \notin DOMAIN [blocked |-> TRUE] /\ "verdict" \notin DOMAIN [shutdown |-> TRUE]
    OBVIOUS
  <2>2. /\ "verdict" \notin DOMAIN [expected |-> p.queued]
        /\ "verdict" \notin DOMAIN [written |-> p.written + 1]
    OBVIOUS
  <2> QED
    BY <1>10, <2>1, <2>2 DEF BlockOnQueue, StopProducing, Signal, WritePage
<1>14. ASSUME NEW d \in Consumers PROVE ~TakePage(x, d) /\ ~FinishPage(x, d)
  <2>1. "verdict" \notin DOMAIN [busy |-> [p.busy EXCEPT ![d] = Head(p.queue)], queue |-> Tail(p.queue)]
    OBVIOUS
  <2>2. \A content : "verdict" \notin DOMAIN [result |-> [p.result EXCEPT ![p.busy[d]] = content],
                                             busy |-> [p.busy EXCEPT ![d] = Idle]]
    OBVIOUS
  <2> QED
    BY <1>10, <2>1, <2>2 DEF TakePage, FinishPage
<1>15. CASE CheckRecord(x)
  <2>1. /\ StrictlyProcessed(p.row)
        /\ Becomes(x, [at |-> "announcing", verdict |-> "skipped", md |-> sidecar.md])
    BY <1>5, <1>15 DEF CheckRecord
  <2>2. r.md = sidecar.md
    BY <1>1, <2>1, BecomesFields, DownFields
  <2> QED
    BY <2>1, <2>2
<1>16. CASE ParseFile(x)
  BY <1>5, <1>16 DEF ParseFile
<1> QED
  BY <1>1, <1>2, <1>3, <1>4, <1>6, <1>9, <1>11, <1>12, <1>13, <1>14, <1>15, <1>16
     DEF DocumentNext, RunStep

\* What is skipped was accepted by its sidecar: there is nothing left for the second
\* check to accept.
LEMMA SkippedOutput ==
  ASSUME NEW x, Parsers = {x}, DiskInv(x), Afresh(x), [DocumentNext]_documentVars, Skips(x)
  PROVE  parser'[x].md = 1 /\ 1 \in Names /\ sidecar.md = 1 /\ StrictlyProcessed(parser[x].row)
<1>1. Names = {1} /\ Single(x)
  BY OneName DEF Single
<1>2. ~(LenientlyProcessed /\ parser[x].at = "opening")
  BY <1>1, FirstFileIs DEF Afresh, LenientlyProcessed, HasText, NoName
<1>3. StrictlyProcessed(parser[x].row) /\ parser'[x].md = sidecar.md
  BY <1>2, SkipsFrom
<1> QED
  BY <1>1, <1>3 DEF StrictlyProcessed, ArtifactsOk, HasText

\* A shard whose parser is alone with the output and is not signalled skips no
\* document of which a page is missing or failed, whatever crashes and errors the
\* runs before it had and whenever the input was replaced.
THEOREM SkippedAlwaysWhole ==
  ASSUME NEW z, Parsers = {z}, \A s \in Scenarios : s.manifest /\ s.signals = 0
  PROVE  DocumentSpec => SkippedIsWhole
<1>1. DocumentInit => DiskInv(z) /\ Afresh(z) /\ Full(z)
  <2> SUFFICES ASSUME DocumentInit PROVE DiskInv(z) /\ Afresh(z) /\ Full(z)
    OBVIOUS
  <2>1. parser[z] = Down /\ left \in Scenarios /\ sidecar.status = "none"
    BY DEF DocumentInit, NoSidecar
  <2> QED
    BY <2>1, DiskInit, DownFields DEF Afresh, Full, Blank
<1>2. DiskInv(z) /\ Afresh(z) /\ Full(z) /\ [DocumentNext]_documentVars
        => (DiskInv(z) /\ Afresh(z) /\ Full(z))'
  BY DiskStep, AfreshStep, FullStep DEF Afresh
<1> DEFINE WholeOnly ==
             \A x \in Parsers : Skips(x) =>
               /\ parser'[x].md \in Names
               /\ \A p \in Pages : files[parser'[x].md].text[p] \in Versions
<1>3. DiskInv(z) /\ Afresh(z) /\ Full(z) /\ [DocumentNext]_documentVars => WholeOnly
  <2> SUFFICES ASSUME DiskInv(z), Afresh(z), Full(z), [DocumentNext]_documentVars, Skips(z)
               PROVE  /\ parser'[z].md \in Names
                      /\ \A p \in Pages : files[parser'[z].md].text[p] \in Versions
    OBVIOUS
  <2>1. parser'[z].md = 1 /\ 1 \in Names /\ sidecar.md = 1 /\ sidecar.status = "success"
    BY SkippedOutput DEF StrictlyProcessed, ArtifactsOk
  <2> QED
    BY <2>1 DEF DiskInv, SidecarTruthful, Full, Pages
<1> QED
  BY <1>1, <1>2, <1>3, PTL DEF DocumentSpec, SkippedIsWhole

\* And as long as inputs are replaced between runs and not under one, what a shard
\* skips was rendered from the version its manifest row names, signals or not.
THEOREM SkippedAlwaysTheRow ==
  ASSUME NEW z, Parsers = {z}, \A s \in Scenarios : s.manifest /\ ~s.duringRuns
  PROVE  DocumentSpec => SkippedIsTheRow
<1>1. DocumentInit => DiskInv(z) /\ Afresh(z) /\ Current(z)
  <2> SUFFICES ASSUME DocumentInit PROVE DiskInv(z) /\ Afresh(z) /\ Current(z)
    OBVIOUS
  <2>1. parser[z] = Down /\ left \in Scenarios /\ sidecar.status = "none"
    BY DEF DocumentInit, NoSidecar
  <2> QED
    BY <2>1, DiskInit, DownFields DEF Afresh, Current, Blank
<1>2. DiskInv(z) /\ Afresh(z) /\ Current(z) /\ [DocumentNext]_documentVars
        => (DiskInv(z) /\ Afresh(z) /\ Current(z))'
  BY DiskStep, AfreshStep, CurrentStep DEF Afresh
<1> DEFINE RowOnly ==
             \A x \in Parsers : Skips(x) /\ parser'[x].md \in Names =>
               \A p \in Pages : files[parser'[x].md].text[p] \in {parser[x].row, Absent}
<1>3. DiskInv(z) /\ Afresh(z) /\ Current(z) /\ [DocumentNext]_documentVars => RowOnly
  <2> SUFFICES ASSUME DiskInv(z), Afresh(z), Current(z), [DocumentNext]_documentVars,
                      Skips(z), NEW p \in Pages
               PROVE  files[parser'[z].md].text[p] \in {parser[z].row, Absent}
    OBVIOUS
  <2>1. parser'[z].md = 1 /\ sidecar.status = "success" /\ sidecar.input = parser[z].row
    BY SkippedOutput DEF StrictlyProcessed, ArtifactsOk
  <2> QED
    BY <2>1 DEF Current
<1> QED
  BY <1>1, <1>2, <1>3, PTL DEF DocumentSpec, SkippedIsTheRow

\* Both together, where both hypotheses hold.
THEOREM SkippedAlwaysRight ==
  ASSUME NEW z, Parsers = {z},
         \A s \in Scenarios : s.manifest /\ s.signals = 0 /\ ~s.duringRuns
  PROVE  DocumentSpec => SkippedIsRight
BY SkippedAlwaysWhole, SkippedAlwaysTheRow DEF SkippedIsRight

HIDE DocumentAssumption

-----------------------------------------------------------------------------
(* Rows that are read one after the other.                                 *)

\* A set of naturals has a least one.
LEMMA LeastIsThere ==
  ASSUME NEW S \in SUBSET Nat, S # {}
  PROVE  \E i \in S : \A j \in S : i <= j
<1> DEFINE R == OpToRel(<, Nat)
<1>1. \A i, j \in Nat : i < j <=> <<i, j>> \in R
  BY DEF OpToRel
<1>2. PICK i \in S : \A j \in S : ~ (<<j, i>> \in R)
  <2>1. IsWellFoundedOn(R, Nat)
    BY NatLessThanWellFounded
  <2> HIDE DEF R
  <2> QED
    BY <2>1, WFMin
<1> HIDE DEF R
<1>3. \A j \in S : i \in Nat /\ j \in Nat /\ ~ (j < i)
  BY <1>1, <1>2
<1> QED
  BY <1>3

\* What holds at first and goes on holding holds to the end.
LEMMA ToTheEnd ==
  ASSUME NEW n \in Nat, NEW T, T \subseteq 0 .. n, 0 \in T,
         \A i \in 1 .. n : i - 1 \in T => i \in T
  PROVE  T = 0 .. n
<1> SUFFICES ASSUME T # 0 .. n PROVE FALSE
  OBVIOUS
<1>1. PICK rest : rest = {i \in 0 .. n : i \notin T}
  OBVIOUS
<1>2. rest \in SUBSET Nat /\ rest # {}
  <2>1. rest \subseteq Nat
    BY <1>1
  <2>2. \E i \in 0 .. n : i \notin T
    OBVIOUS
  <2> QED
    BY <1>1, <2>1, <2>2
<1>3. PICK i \in rest : \A j \in rest : i <= j
  BY <1>2, LeastIsThere
<1>4. i \in 0 .. n /\ i \notin T /\ i # 0
  BY <1>1
<1>5. i \in 1 .. n /\ i - 1 \in 0 .. n /\ ~ (i <= i - 1)
  BY <1>4
<1>6. i - 1 \notin rest
  BY <1>3, <1>5
<1> QED
  BY <1>1, <1>4, <1>5, <1>6

\* A row of states that begins with base and goes on by steps.
IsRow(f, S, base, n, step) ==
  /\ f \in [0 .. n -> S] /\ f[0] = base
  /\ \A i \in 1 .. n : f[i] = step[i][f[i - 1]]

\* There is such a row.
LEMMA RowIsThere ==
  ASSUME NEW S, NEW base \in S, NEW n \in Nat, NEW step \in [1 .. n -> [S -> S]]
  PROVE  \E f : IsRow(f, S, base, n, step)
<1> DEFINE T == {k \in 0 .. n : \E f : IsRow(f, S, base, k, step)}
<1>1. 0 \in T
  <2>1. PICK f : f = [i \in 0 .. 0 |-> base]
    OBVIOUS
  <2>2. f \in [0 .. 0 -> S] /\ f[0] = base /\ \A i \in 1 .. 0 : FALSE
    BY <2>1
  <2>3. IsRow(f, S, base, 0, step)
    BY <2>2 DEF IsRow
  <2> QED
    BY <2>3
<1>2. ASSUME NEW k \in 1 .. n, k - 1 \in T PROVE k \in T
  <2>1. PICK f : IsRow(f, S, base, k - 1, step)
    BY <1>2
  <2>2. f \in [0 .. k - 1 -> S] /\ f[0] = base /\ \A i \in 1 .. k - 1 : f[i] = step[i][f[i - 1]]
    BY <2>1 DEF IsRow
  <2>3. PICK next \in S : next = step[k][f[k - 1]]
    <3>1. k - 1 \in 0 .. k - 1 /\ f[k - 1] \in S /\ step[k] \in [S -> S]
      BY <2>2
    <3> QED
      BY <3>1
  <2>4. PICK g : g = [i \in 0 .. k |-> IF i = k THEN next ELSE f[i]]
    OBVIOUS
  <2>5. /\ g \in [0 .. k -> S] /\ g[0] = base /\ g[k] = next
        /\ \A i \in 0 .. k - 1 : g[i] = f[i]
    <3>1. /\ \A i \in 0 .. k : g[i] = IF i = k THEN next ELSE f[i]
          /\ DOMAIN g = 0 .. k /\ g = [i \in 0 .. k |-> g[i]]
      BY <2>4
    <3>2. \A i \in 0 .. k - 1 : i \in 0 .. k /\ i # k /\ f[i] \in S
      BY <2>2
    <3>3. \A i \in 0 .. k : i = k \/ i \in 0 .. k - 1
      OBVIOUS
    <3>4. 0 \in 0 .. k - 1 /\ k \in 0 .. k
      OBVIOUS
    <3>5. /\ \A i \in 0 .. k : g[i] \in S
          /\ \A i \in 0 .. k - 1 : g[i] = f[i]
      BY <2>3, <3>1, <3>2, <3>3
    <3> QED
      BY <2>2, <3>1, <3>4, <3>5
  <2>6. ASSUME NEW i \in 1 .. k PROVE g[i] = step[i][g[i - 1]]
    <3>1. CASE i = k
      BY <2>3, <2>5, <3>1
    <3>2. CASE i # k
      <4>1. i \in 1 .. k - 1 /\ i \in 0 .. k - 1 /\ i - 1 \in 0 .. k - 1
        BY <3>2
      <4> QED
        BY <2>2, <2>5, <4>1
    <3> QED
      BY <3>1, <3>2
  <2>7. IsRow(g, S, base, k, step)
    BY <2>5, <2>6 DEF IsRow
  <2> QED
    BY <2>7
<1>3. T = 0 .. n
  <2>1. T \subseteq 0 .. n
    OBVIOUS
  <2> HIDE DEF T
  <2> QED
    BY <1>1, <1>2, <2>1, ToTheEnd
<1>4. n \in 0 .. n
  OBVIOUS
<1> QED
  BY <1>3, <1>4

-----------------------------------------------------------------------------
(* Images and the Markdown files that link to them (PageImages).           *)

\* Images saved by a run avoid the names of those that are there.
DocumentOK(doc) ==
  /\ Len(doc.pages) \in Nat /\ DOMAIN doc.pages = 1 .. Len(doc.pages)
  /\ Len(doc.order) \in Nat
  /\ \A p \in DOMAIN doc.pages : doc.pages[p].main \cap doc.old = {}

\* Duplicates are among the images that are looked at.
LEMMA DuplicatesAreLinked ==
  ASSUME NEW refs, Len(Images!Doc.order) \in Nat
  PROVE  Images!Duplicates(refs) \subseteq refs
<1>1. PICK n \in Nat : n = Len(Images!Doc.order)
  OBVIOUS
<1> DEFINE S == [visited : SUBSET refs, go : SUBSET refs]
           base == [visited |-> {}, go |-> {}]
           step == [k \in 1 .. n |-> [found \in S |-> Images!AddGroup(found, k, refs)]]
<1>2. base \in S
  OBVIOUS
<1>3. step \in [1 .. n -> [S -> S]]
  <2> SUFFICES ASSUME NEW k \in 1 .. n, NEW found \in S PROVE Images!AddGroup(found, k, refs) \in S
    OBVIOUS
  <2>1. PICK group, name :
          /\ group = Images!GroupOf(k, refs \ found.visited) /\ name = Images!Doc.order[k]
    OBVIOUS
  <2>2. name \in refs => group \subseteq refs
    BY <2>1 DEF Images!GroupOf
  <2>3. \/ Images!AddGroup(found, k, refs) = found
        \/ /\ name \in refs
           /\ \/ Images!AddGroup(found, k, refs)
                   = [visited |-> found.visited \cup group, go |-> found.go \cup group]
              \/ Images!AddGroup(found, k, refs)
                   = [visited |-> found.visited \cup group, go |-> found.go]
    BY <2>1 DEF Images!AddGroup
  <2> QED
    BY <2>2, <2>3
<1>4. PICK f : IsRow(f, S, base, n, step)
  <2> HIDE DEF S, base, step
  <2> QED
    BY <1>2, <1>3, RowIsThere
<1>5. \A k \in 1 .. n : f[k] = Images!AddGroup(f[k - 1], k, refs)
  <2>1. \A k \in 1 .. n : f[k - 1] \in S /\ f[k] = step[k][f[k - 1]]
    BY <1>4 DEF IsRow
  <2> HIDE DEF S
  <2> QED
    BY <2>1
<1>6. f = [k \in 0 .. n |-> IF k = 0 THEN [visited |-> {}, go |-> {}]
                           ELSE Images!AddGroup(f[k - 1], k, refs)]
  BY <1>4, <1>5 DEF IsRow
<1>7. PICK found : found = Images!Grouped(refs)
  OBVIOUS
<1>8. found = [k \in 0 .. n |-> IF k = 0 THEN [visited |-> {}, go |-> {}]
                               ELSE Images!AddGroup(found[k - 1], k, refs)]
  BY <1>1, <1>6, <1>7 DEF Images!Grouped
<1>9. /\ found[0] = base
      /\ \A k \in 1 .. n : found[k] = Images!AddGroup(found[k - 1], k, refs)
  <2>1. 0 \in 0 .. n /\ \A k \in 1 .. n : k \in 0 .. n /\ k # 0
    OBVIOUS
  <2>2. \A k \in 0 .. n : found[k] = IF k = 0 THEN [visited |-> {}, go |-> {}]
                                    ELSE Images!AddGroup(found[k - 1], k, refs)
    BY <1>8
  <2> QED
    BY <2>1, <2>2
<1> DEFINE T == {k \in 0 .. n : found[k] \in S}
<1>10. T = 0 .. n
  <2>1. T \subseteq 0 .. n /\ 0 \in T
    BY <1>2, <1>9
  <2>2. ASSUME NEW k \in 1 .. n, k - 1 \in T PROVE k \in T
    <3>1. found[k - 1] \in S /\ step[k][found[k - 1]] \in S
      BY <1>3, <2>2
    <3>2. step[k][found[k - 1]] = Images!AddGroup(found[k - 1], k, refs)
      BY <3>1
    <3> QED
      BY <1>9, <3>1, <3>2
  <2> HIDE DEF T
  <2> QED
    BY <2>1, <2>2, ToTheEnd
<1>11. found[n].go \subseteq refs
  <2>1. n \in T
    BY <1>10
  <2> QED
    BY <2>1
<1> QED
  BY <1>1, <1>7, <1>11 DEF Images!Duplicates

\* What a run keeps of its images: pages are written after their images were saved,
\* only what no file links to is to be deleted, and layouts stay until the PDF is there.
ImagesInv ==
  /\ DOMAIN subject = {"doc", "options", "at", "written", "rendered", "main", "origin", "images",
                       "layouts", "pdf", "doomed", "unread", "swept"}
  /\ DocumentOK(subject.doc)
  /\ subject.at = "pages" =>
       \A p \in subject.rendered :
         /\ p \in DOMAIN subject.doc.pages
         /\ subject.doc.pages[p].main \subseteq subject.images
         /\ subject.options.origin => subject.doc.pages[p].read \subseteq subject.images
  /\ ~ subject.options.origin => subject.origin = Images!None
  /\ subject.at \in {"clean origin", "sweep"} => subject.options.origin
  /\ subject.at \notin {"layout", "combined", "done", "broken"} => subject.unread = {}
  /\ subject.main \cap subject.doc.old = {}
  /\ subject.at = "delete" =>
       ~ subject.options.origin /\ subject.doomed \cap (subject.main \cup subject.doc.old) = {}
  /\ subject.at \notin {"combined", "done", "broken"} => DOMAIN subject.doc.pages \subseteq subject.layouts
  /\ subject.at = "combined" => DOMAIN subject.doc.pages \subseteq subject.pdf
  /\ Images!LinksHold

\* It holds at first of the documents of the instance.
LEMMA ImagesStart == Images!OutputInit => ImagesInv
<1> SUFFICES ASSUME Images!OutputInit PROVE ImagesInv
  OBVIOUS
<1>1. PICK d, o :
        /\ d \in [pages : {TwoPages}, near : Alike, order : Orders, old : {{}, {"z"}}]
        /\ subject = [doc |-> d, options |-> o, at |-> "pages", written |-> 0, rendered |-> {},
                      main |-> {}, origin |-> IF o.origin THEN {} ELSE Images!None,
                      images |-> d.old, layouts |-> DOMAIN d.pages, pdf |-> {},
                      doomed |-> {}, unread |-> {}, swept |-> FALSE]
  BY DEF Images!OutputInit
<1>2. d.pages = TwoPages /\ d.order \in Orders /\ d.old \in {{}, {"z"}}
  BY <1>1
<1>3. Len(d.pages) = 2 /\ DOMAIN d.pages = 1 .. 2 /\ Len(d.order) \in Nat
  BY <1>2 DEF TwoPages, Orders
<1>4. \A p \in 1 .. 2 : d.pages[p].main \cap d.old = {}
  BY <1>2 DEF TwoPages, Shows
<1>5. DocumentOK(d)
  BY <1>3, <1>4 DEF DocumentOK
<1>6. Images!LinksHold
  BY <1>1, <1>3 DEF Images!LinksHold, Images!PageCount, Images!Doc
<1> QED
  BY <1>1, <1>5, <1>6 DEF ImagesInv

\* A step of a run keeps it.
LEMMA ImagesStep == ImagesInv /\ Images!OutputNext => ImagesInv'
<1> SUFFICES ASSUME ImagesInv, Images!OutputNext PROVE ImagesInv'
  OBVIOUS
<1>1. /\ DocumentOK(subject.doc) /\ Images!PageCount \in Nat
      /\ DOMAIN subject.doc.pages = 1 .. Images!PageCount
  BY DEF ImagesInv, DocumentOK, Images!PageCount, Images!Doc
<1>2. CASE Images!Render
  <2>1. PICK p, saved :
          /\ p \in 1 .. Images!PageCount \ subject.rendered
          /\ subject' = [subject EXCEPT !.rendered = @ \cup {p}, !.images = @ \cup saved]
          /\ subject.at = "pages"
          /\ saved = subject.doc.pages[p].main \cup
                       (IF subject.options.origin THEN subject.doc.pages[p].read ELSE {})
    BY <1>2 DEF Images!Render, Images!At, Images!Doc
  <2> QED
    BY <1>1, <2>1 DEF ImagesInv, Images!LinksHold, Images!PageCount, Images!Doc
<1>3. CASE Images!WriteNext
  <2>1. PICK page :
          /\ page = subject.doc.pages[subject.written + 1]
          /\ subject.at = "pages" /\ subject.written + 1 \in subject.rendered
          /\ subject' = [subject EXCEPT
               !.written = @ + 1, !.main = @ \cup page.main,
               !.origin = IF @ = Images!None THEN Images!None ELSE @ \cup page.read]
    BY <1>3 DEF Images!WriteNext, Images!At, Images!Doc
  <2>2. /\ page.main \subseteq subject.images /\ page.main \cap subject.doc.old = {}
        /\ subject.options.origin => page.read \subseteq subject.images
    BY <2>1 DEF ImagesInv, DocumentOK
  <2>3. Images!LinksHold'
    BY <2>1, <2>2 DEF ImagesInv, Images!LinksHold, Images!PageCount, Images!Doc
  <2> QED
    BY <1>1, <2>1, <2>2, <2>3 DEF ImagesInv
<1>4. CASE Images!AllWritten
  <2>1. subject.at = "pages" /\ \E at \in {"clean", "layout"} : subject' = [subject EXCEPT !.at = at]
    BY <1>4 DEF Images!AllWritten, Images!At
  <2> QED
    BY <2>1 DEF ImagesInv, Images!LinksHold, Images!PageCount, Images!Doc
<1>5. CASE Images!CleanMain
  <2>1. PICK go :
          /\ go = Images!Duplicates(Images!Held(subject.main)) /\ subject.at = "clean"
          /\ subject' = [subject EXCEPT
               !.main = @ \ go, !.doomed = go,
               !.at = IF subject.options.origin THEN "clean origin" ELSE "delete"]
    BY <1>5 DEF Images!CleanMain, Images!At
  <2>2. go \subseteq subject.main
    BY <1>1, <2>1, DuplicatesAreLinked DEF Images!Held, Images!Doc, DocumentOK
  <2>3. Images!LinksHold'
    BY <2>1 DEF ImagesInv, Images!LinksHold, Images!PageCount, Images!Doc
  <2> QED
    BY <2>1, <2>2, <2>3 DEF ImagesInv
<1>6. CASE Images!Delete
  <2>1. PICK removed \in SUBSET subject.doomed :
          /\ subject.at = "delete"
          /\ subject' = [subject EXCEPT !.images = @ \ removed, !.at = "layout"]
    BY <1>6 DEF Images!Delete, Images!At
  <2>2. Images!LinksHold'
    BY <2>1 DEF ImagesInv, Images!LinksHold, Images!PageCount, Images!Doc
  <2> QED
    BY <2>1, <2>2 DEF ImagesInv
<1>7. CASE Images!CleanOrigin
  <2>1. PICK go :
          /\ subject.at = "clean origin"
          /\ subject' = [subject EXCEPT !.origin = @ \ go, !.at = "sweep"]
    BY <1>7 DEF Images!CleanOrigin, Images!At
  <2>2. subject.options.origin
    BY <2>1 DEF ImagesInv
  <2> QED
    <3>1. subject.origin \ go # Images!None => subject.origin \ go \subseteq subject.images
      <4>1. CASE subject.origin = Images!None
        <5>1. subject.origin \ go = IF "no file" \in go THEN {} ELSE Images!None
          BY <4>1 DEF Images!None
        <5> QED
          BY <5>1
      <4>2. CASE subject.origin # Images!None
        BY <2>1, <4>2 DEF ImagesInv, Images!LinksHold
      <4> QED
        BY <4>1, <4>2
    <3>2. Images!LinksHold'
      BY <2>1, <3>1 DEF ImagesInv, Images!LinksHold, Images!PageCount, Images!Doc
    <3> QED
      BY <2>1, <2>2, <3>2 DEF ImagesInv
<1>8. CASE Images!Sweep
  <2>1. PICK unread, linked, kept :
          /\ unread \subseteq {"main", "origin"}
          /\ linked = (IF "main" \in unread THEN {} ELSE subject.main)
                        \cup (IF "origin" \in unread THEN {} ELSE subject.origin)
          /\ subject.at = "sweep"
          /\ subject' = [subject EXCEPT
               !.images = (subject.images \cap linked) \cup kept,
               !.unread = unread, !.swept = TRUE, !.at = "layout"]
    BY <1>8 DEF Images!Sweep, Images!At
  <2>2. Images!LinksHold'
    BY <2>1 DEF ImagesInv, Images!LinksHold, Images!PageCount, Images!Doc
  <2> QED
    BY <2>1, <2>2 DEF ImagesInv
<1>9. CASE Images!GiveUpFiltering
  <2>1. /\ subject.at \in {"clean", "delete", "clean origin", "sweep"}
        /\ subject' = [subject EXCEPT !.at = "layout"]
    BY <1>9 DEF Images!GiveUpFiltering
  <2> QED
    BY <2>1 DEF ImagesInv, Images!LinksHold, Images!PageCount, Images!Doc
<1>10. CASE Images!CombineLayouts
  <2>1. subject.at = "layout" /\ subject' = [subject EXCEPT !.pdf = subject.layouts, !.at = "combined"]
    BY <1>10 DEF Images!CombineLayouts, Images!At
  <2> QED
    BY <1>1, <2>1 DEF ImagesInv, Images!LinksHold, Images!PageCount, Images!Doc
<1>11. CASE Images!RemoveLayouts
  <2>1. PICK kept : /\ subject.at = "combined"
                    /\ subject' = [subject EXCEPT !.layouts = kept, !.at = "done"]
    BY <1>11 DEF Images!RemoveLayouts, Images!At
  <2> QED
    BY <1>1, <2>1 DEF ImagesInv, Images!LinksHold, Images!PageCount, Images!Doc
<1>12. CASE Images!Break
  <2>1. subject' = [subject EXCEPT !.at = "broken"]
    BY <1>12 DEF Images!Break
  <2> QED
    BY <2>1 DEF ImagesInv, Images!LinksHold, Images!PageCount, Images!Doc
<1> QED
  BY <1>2, <1>3, <1>4, <1>5, <1>6, <1>7, <1>8, <1>9, <1>10, <1>11, <1>12 DEF Images!OutputNext

-----------------------------------------------------------------------------
(* Sequences of sequences, put one after the other (PageText).             *)

\* What the first i of them are together.
FlatRow(f, ss) == f[0] = <<>> /\ \A i \in 1 .. Len(ss) : f[i] = f[i - 1] \o ss[i]

\* There is such a row.
LEMMA FlatRowIsThere ==
  ASSUME NEW S, NEW ss \in Seq(Seq(S))
  PROVE  \E f : f \in [0 .. Len(ss) -> Seq(S)] /\ FlatRow(f, ss)
<1>1. PICK n \in Nat : n = Len(ss)
  OBVIOUS
<1> DEFINE step == [i \in 1 .. n |-> [s \in Seq(S) |-> s \o ss[i]]]
<1>2. step \in [1 .. n -> [Seq(S) -> Seq(S)]]
  <2>1. \A i \in 1 .. n : ss[i] \in Seq(S)
    BY <1>1
  <2> QED
    BY <2>1
<1>3. <<>> \in Seq(S)
  OBVIOUS
<1>4. PICK f : IsRow(f, Seq(S), <<>>, n, step)
  <2> HIDE DEF step
  <2> QED
    BY <1>2, <1>3, RowIsThere
<1>5. f \in [0 .. n -> Seq(S)] /\ f[0] = <<>> /\ \A i \in 1 .. n : f[i] = step[i][f[i - 1]]
  BY <1>4 DEF IsRow
<1>6. ASSUME NEW i \in 1 .. n PROVE f[i] = f[i - 1] \o ss[i]
  <2>1. f[i - 1] \in Seq(S)
    BY <1>5
  <2>2. step[i] = [s \in Seq(S) |-> s \o ss[i]]
    OBVIOUS
  <2>3. step[i][f[i - 1]] = f[i - 1] \o ss[i]
    BY <2>1, <2>2
  <2> QED
    BY <1>5, <2>3
<1> QED
  BY <1>1, <1>5, <1>6 DEF FlatRow

\* Rows are alike.
LEMMA FlatRowsAlike ==
  ASSUME NEW S, NEW ss \in Seq(Seq(S)), NEW f, NEW g, FlatRow(f, ss), FlatRow(g, ss)
  PROVE  \A i \in 0 .. Len(ss) : f[i] = g[i]
<1>1. PICK n \in Nat : n = Len(ss)
  OBVIOUS
<1> DEFINE T == {i \in 0 .. n : f[i] = g[i]}
<1>2. T = 0 .. n
  <2>1. T \subseteq 0 .. n /\ 0 \in T
    BY DEF FlatRow
  <2>2. ASSUME NEW i \in 1 .. n, i - 1 \in T PROVE i \in T
    <3>1. f[i - 1] = g[i - 1]
      BY <2>2
    <3>2. f[i] = f[i - 1] \o ss[i] /\ g[i] = g[i - 1] \o ss[i]
      BY <1>1 DEF FlatRow
    <3>3. f[i] = g[i]
      BY <3>1, <3>2
    <3> QED
      BY <3>3
  <2> HIDE DEF T
  <2> QED
    BY <2>1, <2>2, ToTheEnd
<1> QED
  BY <1>1, <1>2

\* Put together they are the end of such a row.
LEMMA FlatRowEnds ==
  ASSUME NEW S, NEW ss \in Seq(Seq(S)), NEW f, FlatRow(f, ss)
  PROVE  /\ Text!FlattenSeq(ss) = f[Len(ss)]
         /\ \A i \in 0 .. Len(ss) : f[i] \in Seq(S)
<1>1. PICK n \in Nat : n = Len(ss)
  OBVIOUS
<1>2. \A i \in 0 .. n : f[i] \in Seq(S)
  <2>1. PICK g : g \in [0 .. n -> Seq(S)] /\ FlatRow(g, ss)
    BY <1>1, FlatRowIsThere
  <2> QED
    BY <1>1, <2>1, FlatRowsAlike
<1>3. CASE n = 0
  <2>1. ss = <<>>
    BY <1>1, <1>3, EmptySeq
  <2>2. Text!FlattenSeq(ss) = ss
    BY <1>1, <1>3 DEF Text!FlattenSeq
  <2> QED
    BY <1>1, <1>2, <1>3, <2>1, <2>2 DEF FlatRow
<1>4. CASE n > 0
  <2>1. PICK g : g = [i \in 1 .. n |-> f[i]]
    OBVIOUS
  <2>2. g = [i \in 1 .. n |-> IF i = 1 THEN ss[i] ELSE g[i - 1] \o ss[i]]
    <3>1. \A i \in 1 .. n : f[i] = f[i - 1] \o ss[i]
      BY <1>1 DEF FlatRow
    <3>2. f[0] = <<>>
      BY DEF FlatRow
    <3>3. ASSUME NEW i \in 1 .. n PROVE f[i] = IF i = 1 THEN ss[i] ELSE g[i - 1] \o ss[i]
      <4>1. CASE i = 1
        <5>1. i - 1 = 0 /\ ss[i] \in Seq(S)
          BY <1>1, <4>1
        <5>2. f[i] = <<>> \o ss[i]
          BY <3>1, <3>2, <5>1
        <5>3. <<>> \o ss[i] = ss[i]
          BY <5>1
        <5> QED
          BY <4>1, <5>2, <5>3
      <4>2. CASE i # 1
        <5>1. i - 1 \in 1 .. n
          BY <4>2
        <5> QED
          BY <2>1, <3>1, <4>2, <5>1
      <4> QED
        BY <4>1, <4>2
    <3> QED
      BY <2>1, <3>3
  <2> DEFINE flatten == CHOOSE h : h = [i \in 1 .. n |-> IF i = 1 THEN ss[i] ELSE h[i - 1] \o ss[i]]
  <2>3. flatten = [i \in 1 .. n |-> IF i = 1 THEN ss[i] ELSE flatten[i - 1] \o ss[i]]
    BY <2>2
  <2>4. Text!FlattenSeq(ss) = flatten[n]
    BY <1>1, <1>4 DEF Text!FlattenSeq
  <2> HIDE DEF flatten
  <2> DEFINE row == [i \in 0 .. n |-> IF i = 0 THEN <<>> ELSE flatten[i]]
  <2>5. FlatRow(row, ss)
    <3>1. row[0] = <<>> /\ \A i \in 1 .. n : row[i] = flatten[i]
      OBVIOUS
    <3>2. \A i \in 1 .. n : flatten[i] = IF i = 1 THEN ss[i] ELSE flatten[i - 1] \o ss[i]
      BY <2>3
    <3> HIDE DEF row
    <3>3. ASSUME NEW i \in 1 .. n PROVE row[i] = row[i - 1] \o ss[i]
      <4>1. CASE i = 1
        <5>1. i - 1 = 0 /\ ss[i] \in Seq(S)
          BY <1>1, <4>1
        <5>2. row[i] = ss[i] /\ row[i - 1] = <<>>
          BY <3>1, <3>2, <4>1, <5>1
        <5>3. <<>> \o ss[i] = ss[i]
          BY <5>1
        <5> QED
          BY <5>2, <5>3
      <4>2. CASE i # 1
        <5>1. i - 1 \in 1 .. n
          BY <4>2
        <5> QED
          BY <3>1, <3>2, <4>2, <5>1
      <4> QED
        BY <4>1, <4>2
    <3> QED
      BY <1>1, <3>1, <3>3 DEF FlatRow
  <2>6. row[n] = f[n] /\ row[n] = flatten[n]
    <3>1. row[n] = flatten[n]
      BY <1>4
    <3> HIDE DEF row
    <3> QED
      BY <1>1, <2>5, <3>1, FlatRowsAlike
  <2> QED
    BY <1>1, <1>2, <2>4, <2>6
<1> QED
  BY <1>1, <1>2, <1>3, <1>4

\* Three sequences are the same, put together either way.
Alike3(a, b, c) == (a \o b) \o c = a \o (b \o c)

\* Three sequences make the same sequence, put together either way.
LEMMA EitherWay ==
  ASSUME NEW S, NEW a \in Seq(S), NEW b \in Seq(S), NEW c \in Seq(S)
  PROVE  Alike3(a, b, c)
BY ConcatAssociative DEF Alike3

\* Nothing and one sequence, put together.
LEMMA FlatSmall ==
  ASSUME NEW S
  PROVE  /\ Text!FlattenSeq(<<>>) = <<>>
         /\ \A s \in Seq(S) : Text!FlattenSeq(<<s>>) = s
<1>1. Text!FlattenSeq(<<>>) = <<>>
  BY DEF Text!FlattenSeq
<1>2. ASSUME NEW s \in Seq(S) PROVE Text!FlattenSeq(<<s>>) = s
  <2>1. PICK ss : ss = <<s>>
    OBVIOUS
  <2>2. ss \in Seq(Seq(S)) /\ Len(ss) = 1 /\ ss[1] = s
    BY <2>1
  <2>3. PICK f : f = [i \in 0 .. 1 |-> IF i = 0 THEN <<>> ELSE s]
    OBVIOUS
  <2>4. f[0] = <<>> /\ f[1] = s /\ <<>> \o s = s
    BY <2>3
  <2>5. FlatRow(f, ss)
    <3>1. \A i \in 1 .. 1 : i = 1 /\ i - 1 = 0
      OBVIOUS
    <3> QED
      BY <2>2, <2>4, <3>1 DEF FlatRow
  <2>6. Text!FlattenSeq(ss) = f[1]
    BY <2>2, <2>5, FlatRowEnds
  <2> QED
    BY <2>1, <2>4, <2>6
<1> QED
  BY <1>1, <1>2

\* Put together one after the other.
LEMMA FlatConcat ==
  ASSUME NEW S, NEW ss \in Seq(Seq(S)), NEW tt \in Seq(Seq(S))
  PROVE  Text!FlattenSeq(ss \o tt) = Text!FlattenSeq(ss) \o Text!FlattenSeq(tt)
<1>1. PICK n \in Nat, m \in Nat : n = Len(ss) /\ m = Len(tt)
  OBVIOUS
<1>2. PICK f : FlatRow(f, ss)
  BY FlatRowIsThere
<1>3. PICK g : FlatRow(g, tt)
  BY FlatRowIsThere
<1>4. /\ Text!FlattenSeq(ss) = f[n] /\ \A i \in 0 .. n : f[i] \in Seq(S)
      /\ Text!FlattenSeq(tt) = g[m] /\ \A i \in 0 .. m : g[i] \in Seq(S)
  BY <1>1, <1>2, <1>3, FlatRowEnds
<1>5. PICK uu : uu = ss \o tt
  OBVIOUS
<1>6. /\ uu \in Seq(Seq(S)) /\ Len(uu) = n + m
      /\ \A i \in 1 .. n : uu[i] = ss[i]
      /\ \A i \in 1 .. m : uu[n + i] = tt[i]
  BY <1>1, <1>5
<1>7. PICK h : h = [i \in 0 .. n + m |-> IF i <= n THEN f[i] ELSE f[n] \o g[i - n]]
  OBVIOUS
<1>8. \A i \in 0 .. n : h[i] = f[i]
  BY <1>7
<1>9. \A i \in 0 .. m : h[n + i] = f[n] \o g[i]
  <2>1. f[n] \o g[0] = f[n]
    BY <1>3, <1>4 DEF FlatRow
  <2>2. ASSUME NEW i \in 0 .. m, i # 0 PROVE h[n + i] = f[n] \o g[i]
    <3>1. n + i \in 0 .. n + m /\ ~ (n + i <= n) /\ (n + i) - n = i
      BY <2>2
    <3> QED
      BY <1>7, <3>1
  <2>3. h[n + 0] = f[n]
    BY <1>8
  <2> QED
    BY <2>1, <2>2, <2>3
<1>10. FlatRow(h, uu)
  <2>1. h[0] = <<>>
    BY <1>2, <1>8 DEF FlatRow
  <2>2. ASSUME NEW i \in 1 .. n PROVE h[i] = h[i - 1] \o uu[i]
    <3>1. i \in 0 .. n /\ i - 1 \in 0 .. n
      OBVIOUS
    <3>2. f[i] = f[i - 1] \o ss[i]
      BY <1>1, <1>2 DEF FlatRow
    <3> QED
      BY <1>6, <1>8, <3>1, <3>2
  <2>3. ASSUME NEW i \in 1 .. m PROVE h[n + i] = h[n + i - 1] \o uu[n + i]
    <3>1. i \in 0 .. m /\ i - 1 \in 0 .. m /\ n + i - 1 = n + (i - 1)
      OBVIOUS
    <3>2. g[i] = g[i - 1] \o tt[i]
      BY <1>1, <1>3 DEF FlatRow
    <3>3. h[n + i] = f[n] \o (g[i - 1] \o tt[i]) /\ h[n + i - 1] = f[n] \o g[i - 1]
      BY <1>9, <3>1, <3>2
    <3>4. f[n] \in Seq(S) /\ g[i - 1] \in Seq(S) /\ tt[i] \in Seq(S)
      BY <1>1, <1>4, <3>1
    <3>5. PICK a, b, c : a = f[n] /\ b = g[i - 1] /\ c = tt[i]
      OBVIOUS
    <3>6. Alike3(a, b, c)
      <4>1. a \in Seq(S) /\ b \in Seq(S) /\ c \in Seq(S)
        BY <3>4, <3>5
      <4> QED
        BY <4>1, EitherWay
    <3>7. uu[n + i] = tt[i]
      BY <1>6
    <3>8. h[n + i] = a \o (b \o c) /\ h[n + i - 1] = a \o b /\ uu[n + i] = c
      BY <3>3, <3>5, <3>7
    <3> QED
      BY <3>6, <3>8 DEF Alike3
  <2>4. ASSUME NEW i \in 1 .. n + m PROVE h[i] = h[i - 1] \o uu[i]
    <3>1. CASE i <= n
      <4>1. i \in 1 .. n
        BY <3>1
      <4> QED
        BY <2>2, <4>1
    <3>2. CASE i > n
      <4>1. i - n \in 1 .. m /\ n + (i - n) = i
        BY <3>2
      <4>2. PICK j \in 1 .. m : n + j = i
        BY <4>1
      <4>3. h[n + j] = h[n + j - 1] \o uu[n + j]
        BY <2>3
      <4>4. n + j - 1 = i - 1
        BY <1>1, <4>2
      <4> QED
        BY <4>2, <4>3, <4>4
    <3>3. i <= n \/ i > n
      BY <1>1, <2>4
    <3> QED
      BY <3>1, <3>2, <3>3
  <2> QED
    BY <1>6, <2>1, <2>4 DEF FlatRow
<1>11. Text!FlattenSeq(uu) = h[n + m]
  BY <1>6, <1>10, FlatRowEnds
<1>12. h[n + m] = f[n] \o g[m]
  <2>1. m \in 0 .. m
    OBVIOUS
  <2> QED
    BY <1>9, <2>1
<1> QED
  BY <1>4, <1>5, <1>11, <1>12

\* They are made of the same elements.
LEMMA FlatIsSeq ==
  ASSUME NEW S, NEW ss \in Seq(Seq(S)) PROVE Text!FlattenSeq(ss) \in Seq(S)
<1>1. PICK f : FlatRow(f, ss)
  BY FlatRowIsThere
<1>2. Len(ss) \in 0 .. Len(ss)
  OBVIOUS
<1> QED
  BY <1>1, <1>2, FlatRowEnds

\* A part goes from the beginning of a sequence to the end of the one before.
Shifted(ss, tt, p, x) ==
  /\ Len(tt) = Len(ss)
  /\ tt[p] = ss[p] \o x /\ ss[p + 1] = x \o tt[p + 1]
  /\ \A i \in 1 .. Len(ss) : i # p /\ i # p + 1 => tt[i] = ss[i]

\* That leaves them the same together.
LEMMA FlatShift ==
  ASSUME NEW S, NEW ss \in Seq(Seq(S)), NEW tt \in Seq(Seq(S)),
         NEW p \in 1 .. Len(ss) - 1, NEW x, x \in Seq(S), Shifted(ss, tt, p, x)
  PROVE  Text!FlattenSeq(tt) = Text!FlattenSeq(ss)
<1>1. PICK n \in Nat : n = Len(ss)
  OBVIOUS
<1>2. PICK f : FlatRow(f, ss)
  BY FlatRowIsThere
<1>3. Text!FlattenSeq(ss) = f[n] /\ \A i \in 0 .. n : f[i] \in Seq(S)
  BY <1>1, <1>2, FlatRowEnds
<1>4. PICK g : g = [i \in 0 .. n |-> IF i = p THEN f[p] \o x ELSE f[i]]
  OBVIOUS
<1>5. g[p] = f[p] \o x /\ \A i \in 0 .. n : i # p => g[i] = f[i]
  <2>1. p \in 0 .. n
    BY <1>1
  <2> QED
    BY <1>4, <2>1
<1>6. \A i \in 1 .. n : f[i] = f[i - 1] \o ss[i] /\ tt[i] \in Seq(S) /\ ss[i] \in Seq(S)
  <2>1. \A i \in 1 .. n : f[i] = f[i - 1] \o ss[i]
    BY <1>1, <1>2 DEF FlatRow
  <2>2. \A i \in 1 .. n : tt[i] \in Seq(S)
    BY <1>1 DEF Shifted
  <2>3. \A i \in 1 .. n : ss[i] \in Seq(S)
    BY <1>1
  <2> QED
    BY <2>1, <2>2, <2>3
<1>7. FlatRow(g, tt)
  <2>1. g[0] = <<>>
    BY <1>2, <1>5 DEF FlatRow
  <2>2. ASSUME NEW i \in 1 .. n PROVE g[i] = g[i - 1] \o tt[i]
    <3>1. i - 1 \in 0 .. n /\ i \in 0 .. n
      OBVIOUS
    <3>2. CASE i = p
      <4>1. i - 1 # p /\ g[i - 1] = f[i - 1]
        BY <1>5, <3>1, <3>2
      <4>2. f[i] = f[i - 1] \o ss[i] /\ f[i - 1] \in Seq(S) /\ ss[i] \in Seq(S)
        BY <1>3, <1>6, <3>1
      <4>3. PICK a, b, c : a = f[i - 1] /\ b = ss[i] /\ c = x
        OBVIOUS
      <4>4. Alike3(a, b, c)
        <5>1. a \in Seq(S) /\ b \in Seq(S) /\ c \in Seq(S)
          BY <4>2, <4>3
        <5> QED
          BY <5>1, EitherWay
      <4>5. g[i] = f[i] \o x /\ tt[i] = ss[i] \o x
        BY <1>5, <3>2 DEF Shifted
      <4>6. f[i] = a \o b /\ g[i - 1] = a /\ tt[i] = b \o x
        BY <4>1, <4>2, <4>3, <4>5
      <4>7. g[i] = (a \o b) \o c /\ tt[i] = b \o c
        BY <4>3, <4>5, <4>6
      <4> QED
        BY <4>4, <4>6, <4>7 DEF Alike3
    <3>3. CASE i = p + 1
      <4>1. i - 1 = p /\ i # p /\ p \in 0 .. n
        BY <3>1, <3>3
      <4>2. f[i] = f[p] \o ss[i] /\ f[p] \in Seq(S) /\ tt[i] \in Seq(S)
        BY <1>3, <1>6, <4>1
      <4>3. PICK a, b, c : a = f[p] /\ b = tt[i] /\ c = x
        OBVIOUS
      <4>4. Alike3(a, c, b)
        <5>1. a \in Seq(S) /\ b \in Seq(S) /\ c \in Seq(S)
          BY <4>2, <4>3
        <5> QED
          BY <5>1, EitherWay
      <4>5. ss[i] = x \o tt[i]
        BY <3>3 DEF Shifted
      <4>6. g[i] = f[i] /\ g[i - 1] = f[p] \o x
        BY <1>5, <3>1, <4>1
      <4>7. g[i] = a \o (c \o b) /\ g[i - 1] = a \o c /\ tt[i] = b
        BY <4>2, <4>3, <4>5, <4>6
      <4> QED
        BY <4>4, <4>7 DEF Alike3
    <3>4. CASE i # p /\ i # p + 1
      <4>1. i - 1 # p
        BY <3>4
      <4> QED
        BY <1>1, <1>5, <1>6, <3>1, <3>4, <4>1 DEF Shifted
    <3> QED
      BY <3>2, <3>3, <3>4
  <2> QED
    BY <1>1, <2>1, <2>2 DEF FlatRow, Shifted
<1>8. Text!FlattenSeq(tt) = g[n]
  BY <1>1, <1>7, FlatRowEnds DEF Shifted
<1>9. n # p /\ n \in 0 .. n
  BY <1>1
<1> QED
  BY <1>3, <1>5, <1>8, <1>9

\* Sequences of nothing are nothing.
LEMMA FlatNothing ==
  ASSUME NEW S, NEW ss \in Seq(Seq(S)), NEW f, FlatRow(f, ss), NEW n \in 0 .. Len(ss),
         \A i \in 1 .. n : ss[i] = <<>>
  PROVE  \A i \in 0 .. n : f[i] = <<>>
<1>1. n \in Nat
  OBVIOUS
<1> DEFINE T == {i \in 0 .. n : f[i] = <<>>}
<1>2. T = 0 .. n
  <2>1. T \subseteq 0 .. n /\ 0 \in T
    BY <1>1 DEF FlatRow
  <2>2. ASSUME NEW i \in 1 .. n, i - 1 \in T PROVE i \in T
    <3>1. i \in 1 .. Len(ss) /\ ss[i] = <<>> /\ f[i - 1] = <<>>
      BY <2>2
    <3>2. f[i] = <<>> \o <<>>
      BY <3>1 DEF FlatRow
    <3>3. f[i] = <<>>
      BY <3>2
    <3> QED
      BY <3>3
  <2> HIDE DEF T
  <2> QED
    BY <1>1, <2>1, <2>2, ToTheEnd
<1> QED
  BY <1>2

\* Something is added to the last sequence that is something.
AddedTo(ss, tt, p, x) ==
  /\ Len(tt) = Len(ss) /\ tt[p] = ss[p] \o x
  /\ \A i \in 1 .. Len(ss) : i # p => tt[i] = ss[i]
  /\ \A i \in 1 .. Len(ss) : i > p => ss[i] = <<>>

\* It is added at the end.
LEMMA FlatEnd ==
  ASSUME NEW S, NEW ss \in Seq(Seq(S)), NEW tt \in Seq(Seq(S)),
         NEW p \in 1 .. Len(ss), NEW x, x \in Seq(S), AddedTo(ss, tt, p, x)
  PROVE  Text!FlattenSeq(tt) = Text!FlattenSeq(ss) \o x
<1>1. PICK n \in Nat : n = Len(ss)
  OBVIOUS
<1>2. PICK f : FlatRow(f, ss)
  BY FlatRowIsThere
<1>3. Text!FlattenSeq(ss) = f[n] /\ \A i \in 0 .. n : f[i] \in Seq(S)
  BY <1>1, <1>2, FlatRowEnds
<1>4. PICK g : g = [i \in 0 .. n |-> IF i >= p THEN f[i] \o x ELSE f[i]]
  OBVIOUS
<1>5. \A i \in 0 .. n : g[i] = IF i >= p THEN f[i] \o x ELSE f[i]
  BY <1>4
<1>6. FlatRow(g, tt)
  <2>1. g[0] = <<>>
    <3>1. ~ (0 >= p) /\ 0 \in 0 .. n
      BY <1>1
    <3> QED
      BY <1>2, <1>5, <3>1 DEF FlatRow
  <2>2. ASSUME NEW i \in 1 .. n PROVE g[i] = g[i - 1] \o tt[i]
    <3>1. /\ i - 1 \in 0 .. n /\ i \in 0 .. n /\ i \in 1 .. Len(ss) /\ p \in Nat
      BY <1>1
    <3>2. f[i] = f[i - 1] \o ss[i]
      BY <1>2, <3>1 DEF FlatRow
    <3>3. PICK a, b : a = f[i - 1] /\ b = ss[i]
      OBVIOUS
    <3>4. a \in Seq(S) /\ b \in Seq(S) /\ x \in Seq(S)
      BY <1>3, <3>1, <3>3
    <3>5. CASE i = p
      <4>1. ~ (i - 1 >= p) /\ i >= p
        BY <3>1, <3>5
      <4>2. g[i - 1] = a /\ g[i] = f[i] \o x /\ tt[i] = b \o x
        BY <1>5, <3>1, <3>3, <3>5, <4>1 DEF AddedTo
      <4>3. (a \o b) \o x = a \o (b \o x)
        <5>1. PICK c : c = x
          OBVIOUS
        <5>2. a \in Seq(S) /\ b \in Seq(S) /\ c \in Seq(S)
          BY <3>4, <5>1
        <5>3. Alike3(a, b, c)
          BY <5>2, EitherWay
        <5> QED
          BY <5>1, <5>3 DEF Alike3
      <4>4. g[i] = (a \o b) \o x
        BY <3>2, <3>3, <4>2
      <4> QED
        BY <4>2, <4>3, <4>4
    <3>6. CASE i < p
      <4>1. ~ (i - 1 >= p) /\ ~ (i >= p) /\ i # p
        BY <3>1, <3>6
      <4>2. g[i - 1] = f[i - 1] /\ g[i] = f[i] /\ tt[i] = ss[i]
        BY <1>5, <3>1, <4>1 DEF AddedTo
      <4> QED
        BY <3>2, <4>2
    <3>7. CASE i > p
      <4>1. i - 1 >= p /\ i >= p /\ i # p
        BY <3>1, <3>7
      <4>2. g[i - 1] = a \o x /\ g[i] = f[i] \o x /\ tt[i] = <<>> /\ b = <<>>
        BY <1>5, <3>1, <3>3, <3>7, <4>1 DEF AddedTo
      <4>3. a \o <<>> = a /\ (a \o x) \o <<>> = a \o x
        BY <3>4
      <4>4. f[i] = a
        BY <3>2, <3>3, <4>2, <4>3
      <4> QED
        BY <4>2, <4>3, <4>4
    <3>8. i = p \/ i < p \/ i > p
      BY <3>1
    <3> QED
      BY <3>5, <3>6, <3>7, <3>8
  <2> QED
    BY <1>1, <2>1, <2>2 DEF FlatRow, AddedTo
<1>7. Text!FlattenSeq(tt) = g[n]
  BY <1>1, <1>6, FlatRowEnds DEF AddedTo
<1>8. n >= p /\ n \in 0 .. n
  BY <1>1
<1> QED
  BY <1>3, <1>5, <1>7, <1>8

\* The first sequence that is something is taken.
TakenFrom(ss, tt, p) ==
  /\ Len(tt) = Len(ss) /\ tt[p] = <<>>
  /\ \A i \in 1 .. Len(ss) : i # p => tt[i] = ss[i]
  /\ \A i \in 1 .. Len(ss) : i < p => ss[i] = <<>>

\* It is taken from the beginning.
LEMMA FlatBegin ==
  ASSUME NEW S, NEW ss \in Seq(Seq(S)), NEW tt \in Seq(Seq(S)),
         NEW p \in 1 .. Len(ss), TakenFrom(ss, tt, p)
  PROVE  Text!FlattenSeq(ss) = ss[p] \o Text!FlattenSeq(tt)
<1>1. PICK n \in Nat : n = Len(ss)
  OBVIOUS
<1>2. PICK g : FlatRow(g, tt)
  BY FlatRowIsThere
<1>3. Text!FlattenSeq(tt) = g[n] /\ \A i \in 0 .. n : g[i] \in Seq(S)
  BY <1>1, <1>2, FlatRowEnds DEF TakenFrom
<1>4. PICK x : x = ss[p]
  OBVIOUS
<1>5. x \in Seq(S) /\ p \in Nat /\ p \in 0 .. n
  BY <1>1, <1>4
<1>6. \A i \in 0 .. p : g[i] = <<>>
  <2>1. ASSUME NEW i \in 1 .. p PROVE tt[i] = <<>>
    <3>1. i \in 1 .. Len(ss)
      BY <1>1, <1>5
    <3>2. i = p \/ (i # p /\ i < p)
      BY <1>5
    <3> QED
      BY <3>1, <3>2 DEF TakenFrom
  <2>2. p \in 0 .. Len(tt)
    BY DEF TakenFrom
  <2> QED
    BY <1>2, <2>1, <2>2, FlatNothing
<1>7. PICK f : f = [i \in 0 .. n |-> IF i >= p THEN x \o g[i] ELSE <<>>]
  OBVIOUS
<1>8. \A i \in 0 .. n : f[i] = IF i >= p THEN x \o g[i] ELSE <<>>
  BY <1>7
<1>9. FlatRow(f, ss)
  <2>1. f[0] = <<>>
    <3>1. ~ (0 >= p) /\ 0 \in 0 .. n
      BY <1>1
    <3> QED
      BY <1>8, <3>1
  <2>2. ASSUME NEW i \in 1 .. n PROVE f[i] = f[i - 1] \o ss[i]
    <3>1. i - 1 \in 0 .. n /\ i \in 0 .. n /\ i \in 1 .. Len(ss)
      BY <1>1
    <3>2. CASE i = p
      <4>1. ~ (i - 1 >= p) /\ i >= p /\ i \in 0 .. p
        BY <1>5, <3>1, <3>2
      <4>2. f[i - 1] = <<>> /\ f[i] = x \o g[i] /\ g[i] = <<>>
        BY <1>6, <1>8, <3>1, <4>1
      <4>3. x \o <<>> = x /\ <<>> \o x = x
        BY <1>5
      <4> QED
        BY <1>4, <3>2, <4>2, <4>3
    <3>3. CASE i < p
      <4>1. ~ (i - 1 >= p) /\ ~ (i >= p)
        BY <1>5, <3>1, <3>3
      <4>2. f[i - 1] = <<>> /\ f[i] = <<>> /\ ss[i] = <<>>
        BY <1>8, <3>1, <3>3, <4>1 DEF TakenFrom
      <4>3. f[i - 1] \o ss[i] = <<>> \o <<>>
        BY <4>2
      <4>4. <<>> \o <<>> = <<>>
        OBVIOUS
      <4> QED
        BY <4>2, <4>3, <4>4
    <3>4. CASE i > p
      <4>1. i - 1 >= p /\ i >= p /\ i # p
        BY <1>5, <3>1, <3>4
      <4>2. PICK a, b : a = g[i - 1] /\ b = tt[i]
        OBVIOUS
      <4>3. a \in Seq(S) /\ b \in Seq(S) /\ x \in Seq(S)
        BY <1>1, <1>3, <1>5, <3>1, <4>2 DEF TakenFrom
      <4>4. (x \o a) \o b = x \o (a \o b)
        BY <4>3, EitherWay DEF Alike3
      <4>5. g[i] = g[i - 1] \o tt[i]
        BY <1>2, <3>1 DEF FlatRow, TakenFrom
      <4>6. f[i - 1] = x \o a /\ ss[i] = b
        BY <1>8, <3>1, <4>1, <4>2 DEF TakenFrom
      <4>7. f[i] = x \o (a \o b)
        BY <1>8, <3>1, <4>1, <4>2, <4>5
      <4> QED
        BY <4>4, <4>6, <4>7
    <3>5. i = p \/ i < p \/ i > p
      BY <1>5, <3>1
    <3> QED
      BY <3>2, <3>3, <3>4, <3>5
  <2> QED
    BY <1>1, <2>1, <2>2 DEF FlatRow
<1>10. Text!FlattenSeq(ss) = f[n]
  BY <1>1, <1>9, FlatRowEnds
<1>11. n >= p /\ n \in 0 .. n
  BY <1>1
<1> QED
  BY <1>3, <1>4, <1>8, <1>10, <1>11

-----------------------------------------------------------------------------
(* What a sequence says when each element says a part.                     *)

Parts(part, w) == [k \in DOMAIN w |-> part[w[k]]]
Reading(part, w) == Text!FlattenSeq(Parts(part, w))

\* The parts are a sequence of sequences.
ArePartsOf(parts, S, part, U, w) ==
  /\ parts \in Seq(Seq(S)) /\ Len(parts) = Len(w)
  /\ \A k \in 1 .. Len(w) : w[k] \in U /\ parts[k] = part[w[k]]

\* The parts of a sequence are as many sequences.
LEMMA PartsAreSeq ==
  ASSUME NEW U, NEW S, NEW part \in [U -> Seq(S)], NEW w \in Seq(U)
  PROVE  ArePartsOf(Parts(part, w), S, part, U, w)
<1>1. PICK n \in Nat : n = Len(w)
  OBVIOUS
<1>2. DOMAIN w = 1 .. n /\ \A k \in 1 .. n : w[k] \in U
  BY <1>1
<1>3. Parts(part, w) = [k \in 1 .. n |-> part[w[k]]]
  BY <1>2 DEF Parts
<1>4. \A k \in 1 .. n : part[w[k]] \in Seq(S)
  BY <1>2
<1> QED
  BY <1>1, <1>2, <1>3, <1>4 DEF ArePartsOf

\* So is what it says.
LEMMA ReadingIsSeq ==
  ASSUME NEW U, NEW S, NEW part \in [U -> Seq(S)], NEW w \in Seq(U)
  PROVE  Reading(part, w) \in Seq(S)
<1>1. Parts(part, w) \in Seq(Seq(S))
  BY PartsAreSeq DEF ArePartsOf
<1> QED
  BY <1>1, FlatIsSeq DEF Reading

\* One after the other they say one after the other.
SaysBoth(part, v, w) == Reading(part, v \o w) = Reading(part, v) \o Reading(part, w)

\* What two sequences say one after the other is what the one and the other say.
LEMMA ReadingConcat ==
  ASSUME NEW U, NEW S, NEW part \in [U -> Seq(S)], NEW v \in Seq(U), NEW w \in Seq(U)
  PROVE  SaysBoth(part, v, w)
<1>1. PICK n \in Nat, m \in Nat : n = Len(v) /\ m = Len(w)
  OBVIOUS
<1>2. PICK x : x = v \o w
  OBVIOUS
<1>3. /\ x \in Seq(U) /\ Len(x) = n + m
      /\ \A k \in 1 .. n + m : x[k] = IF k <= n THEN v[k] ELSE w[k - n]
  BY <1>1, <1>2
<1>4. PICK pv, pw, px : pv = Parts(part, v) /\ pw = Parts(part, w) /\ px = Parts(part, x)
  OBVIOUS
<1>51. pv \in Seq(Seq(S)) /\ Len(pv) = n /\ \A k \in 1 .. n : pv[k] = part[v[k]]
  <2>1. ArePartsOf(pv, S, part, U, v)
    BY <1>4, PartsAreSeq
  <2> QED
    BY <1>1, <2>1 DEF ArePartsOf
<1>52. pw \in Seq(Seq(S)) /\ Len(pw) = m /\ \A k \in 1 .. m : pw[k] = part[w[k]]
  <2>1. ArePartsOf(pw, S, part, U, w)
    BY <1>4, PartsAreSeq
  <2> QED
    BY <1>1, <2>1 DEF ArePartsOf
<1>53. px \in Seq(Seq(S)) /\ Len(px) = n + m /\ \A k \in 1 .. n + m : px[k] = part[x[k]]
  <2>1. ArePartsOf(px, S, part, U, x)
    BY <1>3, <1>4, PartsAreSeq
  <2> QED
    BY <1>3, <2>1 DEF ArePartsOf
<1>6. PICK c : c = pv \o pw
  OBVIOUS
<1>7. /\ c \in Seq(Seq(S)) /\ Len(c) = n + m
      /\ \A k \in 1 .. n + m : c[k] = IF k <= n THEN pv[k] ELSE pw[k - n]
  <2>1. c \in Seq(Seq(S)) /\ Len(c) = Len(pv) + Len(pw)
    BY <1>51, <1>52, <1>6, ConcatProperties, Zenon
  <2>2. \A k \in 1 .. Len(pv) + Len(pw) : c[k] = IF k <= Len(pv) THEN pv[k] ELSE pw[k - Len(pv)]
    BY <1>51, <1>52, <1>6, ConcatProperties, Zenon
  <2> QED
    BY <1>51, <1>52, <2>1, <2>2
<1>8. ASSUME NEW k \in 1 .. n + m PROVE px[k] = c[k]
  <2>1. CASE k <= n
    <3>1. k \in 1 .. n
      BY <2>1
    <3> QED
      <4>1. x[k] = v[k] /\ c[k] = pv[k]
        BY <1>3, <1>7, <2>1
      <4> QED
        BY <1>51, <1>53, <3>1, <4>1
  <2>2. CASE ~ (k <= n)
    <3>1. k - n \in 1 .. m
      BY <2>2
    <3>2. x[k] = w[k - n] /\ c[k] = pw[k - n]
      BY <1>3, <1>7, <2>2
    <3> QED
      BY <1>52, <1>53, <3>1, <3>2
  <2> QED
    BY <2>1, <2>2
<1>9. px = c
  BY <1>53, <1>7, <1>8, SeqEqual
<1>10. Text!FlattenSeq(c) = Text!FlattenSeq(pv) \o Text!FlattenSeq(pw)
  BY <1>51, <1>52, <1>6, FlatConcat
<1> QED
  BY <1>2, <1>4, <1>9, <1>10 DEF Reading, SaysBoth

\* Nothing says nothing, one element says its part.
LEMMA ReadingSmall ==
  ASSUME NEW U, NEW S, NEW part \in [U -> Seq(S)]
  PROVE  Reading(part, <<>>) = <<>> /\ \A u \in U : Reading(part, <<u>>) = part[u]
<1>1. Reading(part, <<>>) = <<>>
  <2>1. Parts(part, <<>>) = <<>>
    BY DEF Parts
  <2> QED
    BY <2>1, FlatSmall DEF Reading
<1>2. ASSUME NEW u \in U PROVE Reading(part, <<u>>) = part[u]
  <2>1. PICK w : w = <<u>>
    OBVIOUS
  <2>2. w \in Seq(U) /\ Len(w) = 1 /\ w[1] = u /\ DOMAIN w = 1 .. 1
    BY <2>1
  <2>3. PICK x \in Seq(S) : x = part[u]
    OBVIOUS
  <2>4. Parts(part, w) = <<x>>
    <3>1. Parts(part, w) \in Seq(Seq(S)) /\ Len(Parts(part, w)) = 1 /\ Parts(part, w)[1] = x
      <4>1. 1 \in 1 .. Len(w)
        BY <2>2
      <4>2. ArePartsOf(Parts(part, w), S, part, U, w)
        BY <2>2, PartsAreSeq
      <4> QED
        BY <2>2, <2>3, <4>1, <4>2 DEF ArePartsOf
    <3> QED
      BY <3>1
  <2>5. Text!FlattenSeq(<<x>>) = x
    BY FlatSmall
  <2> QED
    BY <2>1, <2>3, <2>4, <2>5 DEF Reading
<1> QED
  BY <1>1, <1>2

\* Only the parts of its elements matter.
LEMMA ReadingAlike ==
  ASSUME NEW w, NEW part, NEW other, \A k \in DOMAIN w : part[w[k]] = other[w[k]]
  PROVE  Reading(part, w) = Reading(other, w)
<1>1. Parts(part, w) = Parts(other, w)
  BY DEF Parts
<1> QED
  BY <1>1 DEF Reading

\* What a sequence says may say something itself.
IsPart(part, U, S) == part \in [U -> Seq(S)]
Through(first, part, U) == [u \in U |-> Reading(part, first[u])]

\* Reading what a sequence says is reading the sequence through both.
LEMMA ReadingOfReading ==
  ASSUME NEW U, NEW V, NEW S, NEW first, NEW part, NEW w \in Seq(U),
         IsPart(first, U, V), IsPart(part, V, S)
  PROVE  Reading(part, Reading(first, w)) = Reading(Through(first, part, U), w)
<1>0. first \in [U -> Seq(V)] /\ part \in [V -> Seq(S)]
  BY DEF IsPart
<1>1. PICK n \in Nat : n = Len(w)
  OBVIOUS
<1>2. PICK both : both = [u \in U |-> Reading(part, first[u])]
  OBVIOUS
<1>3. both \in [U -> Seq(S)] /\ \A u \in U : both[u] = Reading(part, first[u])
  <2>1. \A u \in U : Reading(part, first[u]) \in Seq(S)
    BY <1>0, ReadingIsSeq
  <2> QED
    BY <1>2, <2>1
<1>4. PICK ss, tt : ss = Parts(first, w) /\ tt = Parts(both, w)
  OBVIOUS
<1>5. /\ ss \in Seq(Seq(V)) /\ Len(ss) = n /\ \A k \in 1 .. n : w[k] \in U /\ ss[k] = first[w[k]]
      /\ tt \in Seq(Seq(S)) /\ Len(tt) = n /\ \A k \in 1 .. n : tt[k] = both[w[k]]
  <2>1. ss \in Seq(Seq(V)) /\ Len(ss) = n /\ \A k \in 1 .. n : w[k] \in U /\ ss[k] = first[w[k]]
    <3>1. ArePartsOf(ss, V, first, U, w)
      BY <1>0, <1>4, PartsAreSeq
    <3> QED
      BY <1>1, <3>1 DEF ArePartsOf
  <2>2. tt \in Seq(Seq(S)) /\ Len(tt) = n /\ \A k \in 1 .. n : tt[k] = both[w[k]]
    <3>1. ArePartsOf(tt, S, both, U, w)
      BY <1>3, <1>4, PartsAreSeq
    <3> QED
      BY <1>1, <3>1 DEF ArePartsOf
  <2> QED
    BY <2>1, <2>2
<1>6. PICK f : FlatRow(f, ss)
  BY <1>5, FlatRowIsThere
<1>7. Text!FlattenSeq(ss) = f[n] /\ \A i \in 0 .. n : f[i] \in Seq(V)
  BY <1>5, <1>6, FlatRowEnds
<1>8. PICK g : g = [i \in 0 .. n |-> Reading(part, f[i])]
  OBVIOUS
<1>9. FlatRow(g, tt)
  <2>1. g[0] = <<>>
    <3>1. g[0] = Reading(part, f[0])
      BY <1>8
    <3>2. f[0] = <<>>
      BY <1>6 DEF FlatRow
    <3> QED
      BY <1>0, <3>1, <3>2, ReadingSmall
  <2>2. ASSUME NEW i \in 1 .. n PROVE g[i] = g[i - 1] \o tt[i]
    <3>1. i \in 0 .. n /\ i - 1 \in 0 .. n
      OBVIOUS
    <3>2. PICK a, b : a = f[i - 1] /\ b = ss[i]
      OBVIOUS
    <3>3. a \in Seq(V) /\ b \in Seq(V)
      <4>1. a \in Seq(V)
        BY <1>7, <3>1, <3>2
      <4>2. w[i] \in U /\ b = first[w[i]]
        BY <1>5, <3>2
      <4>3. b \in Seq(V)
        BY <1>0, <4>2
      <4> QED
        BY <4>1, <4>3
    <3>4. f[i] = a \o b
      <4>1. i \in 1 .. Len(ss)
        BY <1>5
      <4>2. f[i] = f[i - 1] \o ss[i]
        BY <1>6, <4>1, Zenon DEF FlatRow
      <4> QED
        BY <3>2, <4>2
    <3>5. SaysBoth(part, a, b)
      BY <1>0, <3>3, ReadingConcat
    <3>6. g[i] = Reading(part, a \o b) /\ g[i - 1] = Reading(part, a)
      BY <1>8, <3>1, <3>2, <3>4
    <3>7. tt[i] = Reading(part, b)
      BY <1>3, <1>5, <3>2
    <3> QED
      BY <3>5, <3>6, <3>7 DEF SaysBoth
  <2> QED
    BY <1>5, <2>1, <2>2 DEF FlatRow
<1>10. Text!FlattenSeq(tt) = g[n]
  BY <1>5, <1>9, FlatRowEnds
<1>11. g[n] = Reading(part, f[n])
  <2>1. n \in 0 .. n
    OBVIOUS
  <2> QED
    BY <1>8, <2>1
<1> QED
  BY <1>2, <1>4, <1>7, <1>10, <1>11 DEF Reading, Through

\* The elements that are in a set.
Picks(U, V) == [u \in U |-> IF u \in V THEN <<u>> ELSE <<>>]
\* A part that only they have.
Only(part, U, V) == [u \in U |-> IF u \in V THEN part[u] ELSE <<>>]

\* What is at places is what the elements say.
LEMMA WhereIsReading ==
  ASSUME NEW U, NEW V, NEW w \in Seq(U)
  PROVE  Text!Where(w, {k \in DOMAIN w : w[k] \in V}) = Reading(Picks(U, V), w)
<1>1. \A k \in DOMAIN w : w[k] \in U
  OBVIOUS
<1>2. [k \in DOMAIN w |-> IF k \in {i \in DOMAIN w : w[i] \in V} THEN <<w[k]>> ELSE <<>>]
        = Parts(Picks(U, V), w)
  BY <1>1 DEF Parts, Picks
<1> QED
  BY <1>2 DEF Reading, Text!Where

\* They are a sequence of their set.
LEMMA PicksAreParts ==
  ASSUME NEW U, NEW V \in SUBSET U, NEW S, NEW part \in [U -> Seq(S)]
  PROVE  Picks(U, V) \in [U -> Seq(V)] /\ Only(part, U, V) \in [U -> Seq(S)]
<1>1. \A u \in V : <<u>> \in Seq(V)
  OBVIOUS
<1>2. <<>> \in Seq(V) /\ <<>> \in Seq(S)
  OBVIOUS
<1> QED
  BY <1>1, <1>2 DEF Picks, Only

\* What the chosen elements say.
LEMMA ReadingChosen ==
  ASSUME NEW U, NEW V \in SUBSET U, NEW S, NEW part \in [U -> Seq(S)], NEW w \in Seq(U)
  PROVE  /\ Reading(Picks(U, V), w) \in Seq(V)
         /\ Reading(part, Reading(Picks(U, V), w)) = Reading(Only(part, U, V), w)
<1>1. PICK first : first = Picks(U, V)
  OBVIOUS
<1>2. first \in [U -> Seq(V)]
  BY <1>1, PicksAreParts
<1>3. Reading(first, w) \in Seq(V)
  BY <1>2, ReadingIsSeq
<1>4. first \in [U -> Seq(U)]
  <2>1. Seq(V) \subseteq Seq(U)
    BY SeqMonotonic
  <2> QED
    BY <1>2, <2>1
<1>5. Reading(part, Reading(first, w)) = Reading(Through(first, part, U), w)
  <2>1. IsPart(first, U, U) /\ IsPart(part, U, S)
    BY <1>4 DEF IsPart
  <2> QED
    BY <2>1, ReadingOfReading
<1>6. Through(first, part, U) = Only(part, U, V)
  <2>1. ASSUME NEW u \in U
        PROVE  Reading(part, first[u]) = IF u \in V THEN part[u] ELSE <<>>
    <3>1. CASE u \in V
      <4>1. first[u] = <<u>>
        BY <1>1, <3>1 DEF Picks
      <4>2. Reading(part, <<u>>) = part[u]
        BY ReadingSmall
      <4> QED
        BY <3>1, <4>1, <4>2
    <3>2. CASE u \notin V
      <4>1. first[u] = <<>>
        BY <1>1, <3>2 DEF Picks
      <4>2. Reading(part, <<>>) = <<>>
        BY ReadingSmall
      <4> QED
        BY <3>2, <4>1, <4>2
    <3> QED
      BY <3>1, <3>2
  <2> QED
    BY <2>1 DEF Only, Through
<1> QED
  BY <1>1, <1>3, <1>5, <1>6

\* What is in two sequences, one after the other.
LEMMA SetOfBoth ==
  ASSUME NEW S, NEW a \in Seq(S), NEW b \in Seq(S)
  PROVE  Text!ToSet(a \o b) = Text!ToSet(a) \cup Text!ToSet(b)
<1>1. PICK n \in Nat, m \in Nat : n = Len(a) /\ m = Len(b)
  OBVIOUS
<1>2. PICK c : c = a \o b
  OBVIOUS
<1>3. /\ DOMAIN a = 1 .. n /\ DOMAIN b = 1 .. m /\ DOMAIN c = 1 .. n + m
      /\ \A k \in 1 .. n + m : c[k] = IF k <= n THEN a[k] ELSE b[k - n]
  BY <1>1, <1>2
<1>4. ASSUME NEW x PROVE (\E k \in 1 .. n + m : x = c[k])
                           <=> (\E k \in 1 .. n : x = a[k]) \/ (\E k \in 1 .. m : x = b[k])
  <2>1. ASSUME NEW k \in 1 .. n + m, x = c[k]
        PROVE  (\E i \in 1 .. n : x = a[i]) \/ (\E i \in 1 .. m : x = b[i])
    <3>1. CASE k <= n
      <4>1. k \in 1 .. n /\ x = a[k]
        BY <1>3, <2>1, <3>1
      <4> QED
        BY <4>1
    <3>2. CASE ~ (k <= n)
      <4>1. k - n \in 1 .. m /\ x = b[k - n]
        BY <1>3, <2>1, <3>2
      <4> QED
        BY <4>1
    <3> QED
      BY <3>1, <3>2
  <2>2. ASSUME NEW k \in 1 .. n PROVE k \in 1 .. n + m /\ c[k] = a[k]
    <3>1. k \in 1 .. n + m /\ k <= n
      OBVIOUS
    <3> QED
      BY <1>3, <3>1
  <2>3. ASSUME NEW k \in 1 .. m PROVE n + k \in 1 .. n + m /\ c[n + k] = b[k]
    <3>1. n + k \in 1 .. n + m /\ ~ (n + k <= n) /\ (n + k) - n = k
      OBVIOUS
    <3> QED
      BY <1>3, <3>1
  <2> QED
    BY <2>1, <2>2, <2>3
<1> QED
  BY <1>2, <1>3, <1>4 DEF Text!ToSet

\* What is in sequences put together.
LEMMA FlatSet ==
  ASSUME NEW S, NEW ss \in Seq(Seq(S)), NEW x
  PROVE  x \in Text!ToSet(Text!FlattenSeq(ss))
           <=> \E k \in 1 .. Len(ss) : x \in Text!ToSet(ss[k])
<1>1. PICK n \in Nat : n = Len(ss)
  OBVIOUS
<1>2. PICK f : FlatRow(f, ss)
  BY FlatRowIsThere
<1>3. Text!FlattenSeq(ss) = f[n] /\ \A i \in 0 .. n : f[i] \in Seq(S)
  BY <1>1, <1>2, FlatRowEnds
<1> DEFINE In(i) == x \in Text!ToSet(f[i]) <=> \E k \in 1 .. i : x \in Text!ToSet(ss[k])
           T == {i \in 0 .. n : In(i)}
<1>4. T = 0 .. n
  <2>1. T \subseteq 0 .. n
    OBVIOUS
  <2>2. 0 \in T
    <3>1. f[0] = <<>>
      BY <1>2 DEF FlatRow
    <3>2. Text!ToSet(<<>>) = {}
      BY DEF Text!ToSet
    <3> QED
      BY <3>1, <3>2
  <2>3. ASSUME NEW i \in 1 .. n, i - 1 \in T PROVE i \in T
    <3>1. i \in 0 .. n /\ i - 1 \in 0 .. n /\ i \in 1 .. Len(ss)
      BY <1>1
    <3>2. PICK a, b : a = f[i - 1] /\ b = ss[i]
      OBVIOUS
    <3>3. a \in Seq(S) /\ b \in Seq(S)
      BY <1>3, <3>1, <3>2
    <3>4. f[i] = a \o b
      BY <1>2, <3>1, <3>2 DEF FlatRow
    <3>5. Text!ToSet(a \o b) = Text!ToSet(a) \cup Text!ToSet(b)
      BY <3>3, SetOfBoth
    <3>6. x \in Text!ToSet(a) <=> \E k \in 1 .. i - 1 : x \in Text!ToSet(ss[k])
      BY <2>3, <3>2
    <3>7. \A k \in 1 .. i : k = i \/ k \in 1 .. i - 1
      OBVIOUS
    <3>8. \A k \in 1 .. i - 1 : k \in 1 .. i
      OBVIOUS
    <3>9. i \in 1 .. i
      OBVIOUS
    <3>10. x \in Text!ToSet(f[i]) <=> x \in Text!ToSet(a) \/ x \in Text!ToSet(b)
      BY <3>4, <3>5
    <3>11. In(i)
      BY <3>2, <3>6, <3>7, <3>8, <3>9, <3>10
    <3> QED
      BY <3>1, <3>11
  <2> HIDE DEF T
  <2> QED
    BY <2>1, <2>2, <2>3, ToTheEnd
<1>5. n \in 0 .. n
  OBVIOUS
<1> QED
  BY <1>1, <1>3, <1>4, <1>5

\* What a sequence says, its elements say.
LEMMA ReadingSet ==
  ASSUME NEW U, NEW S, NEW part \in [U -> Seq(S)], NEW w \in Seq(U), NEW x
  PROVE  x \in Text!ToSet(Reading(part, w))
           <=> \E k \in 1 .. Len(w) : x \in Text!ToSet(part[w[k]])
<1>1. PICK ss : ss = Parts(part, w)
  OBVIOUS
<1>2. ArePartsOf(ss, S, part, U, w)
  BY <1>1, PartsAreSeq
<1>3. ss \in Seq(Seq(S)) /\ Len(ss) = Len(w) /\ \A k \in 1 .. Len(w) : ss[k] = part[w[k]]
  BY <1>2 DEF ArePartsOf
<1>4. x \in Text!ToSet(Text!FlattenSeq(ss)) <=> \E k \in 1 .. Len(ss) : x \in Text!ToSet(ss[k])
  BY <1>3, FlatSet
<1> QED
  BY <1>1, <1>3, <1>4 DEF Reading

-----------------------------------------------------------------------------
(* Texts (PageText): words, and marks between them.                        *)

Kinds == {"letter", "keyword", "anchor", "stop", "dots", "mark", "bullet", "digit", "han",
          "hyphen", "space"}
Tokens == {w \in [at : Seq(Nat), as : Kinds] : w.as = "hyphen" => w.at = <<>>}
Said == {w \in Tokens : w.at # <<>>}
SaidPart == Picks(Tokens, Said)

\* The words of a text are what is said of it.
LEMMA WordsAre ==
  ASSUME NEW t \in Seq(Tokens)
  PROVE  Text!Words(t) = Reading(SaidPart, t) /\ Text!Words(t) \in Seq(Tokens)
<1>1. {k \in DOMAIN t : t[k].at # <<>>} = {k \in DOMAIN t : t[k] \in Said}
  <2>1. \A k \in DOMAIN t : t[k] \in Tokens
    OBVIOUS
  <2> QED
    BY <2>1 DEF Said
<1>2. PICK U, V : U = Tokens /\ V = Said
  OBVIOUS
<1>3. t \in Seq(U) /\ V \in SUBSET U
  BY <1>2 DEF Said
<1>4. Text!Where(t, {k \in DOMAIN t : t[k] \in V}) = Reading(Picks(U, V), t)
  BY <1>3, WhereIsReading
<1>5. Text!Words(t) = Reading(Picks(U, V), t)
  BY <1>1, <1>2, <1>4 DEF Text!Words
<1>6. Picks(U, V) \in [U -> Seq(U)]
  <2>1. \A u \in U : <<u>> \in Seq(U)
    OBVIOUS
  <2>2. <<>> \in Seq(U)
    OBVIOUS
  <2> QED
    BY <2>1, <2>2 DEF Picks
<1>7. Reading(Picks(U, V), t) \in Seq(U)
  BY <1>3, <1>6, ReadingIsSeq
<1> QED
  BY <1>2, <1>5, <1>7 DEF SaidPart

\* Words of two texts, one after the other.
AddWords(t1, t2) == Text!Words(t1 \o t2) = Text!Words(t1) \o Text!Words(t2)

\* Said is a part of each token.
LEMMA SaidIsPart == SaidPart \in [Tokens -> Seq(Tokens)]
<1>1. PICK U : U = Tokens
  OBVIOUS
<1>2. \A u \in U : <<u>> \in Seq(U)
  OBVIOUS
<1>3. <<>> \in Seq(U)
  OBVIOUS
<1> QED
  BY <1>1, <1>2, <1>3 DEF SaidPart, Picks

\* They are the words of both.
LEMMA WordsAdd ==
  ASSUME NEW t1 \in Seq(Tokens), NEW t2 \in Seq(Tokens)
  PROVE  AddWords(t1, t2)
<1>1. PICK U : U = Tokens
  OBVIOUS
<1>2. t1 \in Seq(U) /\ t2 \in Seq(U) /\ SaidPart \in [U -> Seq(U)]
  BY <1>1, SaidIsPart
<1>3. SaysBoth(SaidPart, t1, t2)
  BY <1>2, ReadingConcat
<1>4. PICK t : t = t1 \o t2
  OBVIOUS
<1>5. t \in Seq(U)
  BY <1>2, <1>4
<1>6. /\ Text!Words(t) = Reading(SaidPart, t)
      /\ Text!Words(t1) = Reading(SaidPart, t1)
      /\ Text!Words(t2) = Reading(SaidPart, t2)
  BY <1>1, <1>2, <1>5, WordsAre
<1> QED
  BY <1>3, <1>4, <1>6 DEF SaysBoth, AddWords

\* A mark says nothing.
LEMMA MarksSayNothing ==
  ASSUME NEW u \in Tokens, u.at = <<>>
  PROVE  <<u>> \in Seq(Tokens) /\ Text!Words(<<u>>) = <<>>
<1>1. PICK U, t : U = Tokens /\ t = <<u>>
  OBVIOUS
<1>2. t \in Seq(U)
  BY <1>1
<1>3. Text!Words(t) = Reading(SaidPart, t)
  BY <1>1, <1>2, WordsAre
<1>4. Reading(SaidPart, <<u>>) = SaidPart[u]
  BY SaidIsPart, ReadingSmall
<1>5. SaidPart[u] = <<>>
  BY DEF SaidPart, Picks, Said
<1> QED
  BY <1>1, <1>2, <1>3, <1>4, <1>5

\* The last of a sequence and what is before it.
LEMMA FrontAndLast ==
  ASSUME NEW S, NEW s \in Seq(S), s # <<>>
  PROVE  /\ Text!Front(s) \in Seq(S) /\ Text!Last(s) \in S
         /\ s = Text!Front(s) \o <<Text!Last(s)>>
<1>1. PICK n \in Nat : n = Len(s) /\ n > 0
  BY EmptySeq
<1>2. PICK f : f = SubSeq(s, 1, n - 1)
  OBVIOUS
<1>3. f \in Seq(S) /\ Len(f) = n - 1 /\ \A i \in 1 .. n - 1 : f[i] = s[i]
  BY <1>1, <1>2
<1>4. PICK u : u = s[n]
  OBVIOUS
<1>5. u \in S
  BY <1>1, <1>4
<1>6. PICK t : t = f \o <<u>>
  OBVIOUS
<1>7. t \in Seq(S) /\ Len(t) = n /\ \A i \in 1 .. n : t[i] = s[i]
  <2>1. t \in Seq(S) /\ Len(t) = n
    BY <1>1, <1>3, <1>5, <1>6
  <2>2. ASSUME NEW i \in 1 .. n PROVE t[i] = s[i]
    <3>1. CASE i = n
      BY <1>1, <1>3, <1>4, <1>6, <3>1
    <3>2. CASE i # n
      <4>1. i \in 1 .. n - 1
        BY <3>2
      <4> QED
        BY <1>1, <1>3, <1>6, <4>1
    <3> QED
      BY <3>1, <3>2
  <2> QED
    BY <2>1, <2>2
<1>8. s = t
  BY <1>1, <1>7, SeqEqual
<1>9. Text!Front(s) = f /\ Text!Last(s) = u
  BY <1>1, <1>2, <1>4 DEF Text!Front, Text!Last
<1> QED
  BY <1>3, <1>5, <1>6, <1>8, <1>9

\* Texts that are joined say what both said.
LEMMA JoinedWords ==
  ASSUME NEW t1 \in Seq(Tokens), NEW t2 \in Seq(Tokens)
  PROVE  /\ Text!Joined(t1, t2) \in Seq(Tokens)
         /\ Text!Words(Text!Joined(t1, t2)) = Text!Words(t1) \o Text!Words(t2)
<1>1. PICK U, w1, w2, j :
        /\ U = Tokens /\ w1 = Text!Words(t1) /\ w2 = Text!Words(t2)
        /\ j = Text!Joined(t1, t2)
  OBVIOUS
<1>2. w1 \in Seq(U) /\ w2 \in Seq(U) /\ t1 \in Seq(U) /\ t2 \in Seq(U)
  BY <1>1, WordsAre
<1>3. CASE Len(t1) > 1 /\ Text!Closes(t1, {"hyphen"}) /\ Text!StartsEnglish(t2)
  <2>1. PICK f, u : f = Text!Front(t1) /\ u = Text!Last(t1)
    OBVIOUS
  <2>2. t1 # <<>> /\ u.as = "hyphen"
    BY <1>3, <2>1 DEF Text!Closes
  <2>3. f \in Seq(U) /\ u \in U /\ t1 = f \o <<u>>
    BY <1>2, <2>1, <2>2, FrontAndLast
  <2>4. u.at = <<>>
    BY <1>1, <2>2, <2>3 DEF Tokens
  <2>5. PICK m : m = <<u>>
    OBVIOUS
  <2>6. m \in Seq(U) /\ Text!Words(m) = <<>>
    BY <1>1, <2>3, <2>4, <2>5, MarksSayNothing
  <2>7. AddWords(f, m) /\ AddWords(f, t2) /\ Text!Words(f) \in Seq(U)
    BY <1>1, <1>2, <2>3, <2>6, WordsAdd, WordsAre
  <2>8. w1 = Text!Words(f)
    <3>1. w1 = Text!Words(f) \o <<>>
      BY <1>1, <2>3, <2>5, <2>6, <2>7 DEF AddWords
    <3> QED
      BY <2>7, <3>1
  <2>9. j = f \o t2
    BY <1>1, <1>3, <2>1 DEF Text!Joined
  <2>10. j \in Seq(U)
    BY <1>2, <2>3, <2>9
  <2> QED
    BY <1>1, <2>7, <2>8, <2>9, <2>10 DEF AddWords
<1>4. CASE j = t1 \o t2
  <2>1. AddWords(t1, t2)
    BY WordsAdd
  <2>2. j \in Seq(U)
    BY <1>2, <1>4
  <2> QED
    BY <1>1, <1>4, <2>1, <2>2 DEF AddWords
<1>5. CASE j = t1 \o <<Text!Space>> \o t2
  <2>1. PICK m, b : m = <<Text!Space>> /\ b = t1 \o m
    OBVIOUS
  <2>2. Text!Space \in Tokens /\ Text!Space.at = <<>>
    <3>1. <<>> \in Seq(Nat)
      OBVIOUS
    <3>2. Text!Space \in [at : Seq(Nat), as : Kinds]
      BY <3>1 DEF Text!Space, Kinds
    <3>3. Text!Space.at = <<>>
      BY DEF Text!Space
    <3> QED
      BY <3>2, <3>3 DEF Tokens
  <2>3. m \in Seq(U) /\ Text!Words(m) = <<>>
    BY <1>1, <2>1, <2>2, MarksSayNothing
  <2>4. b \in Seq(U)
    BY <1>2, <2>1, <2>3
  <2>5. AddWords(t1, m) /\ AddWords(b, t2)
    BY <1>1, <1>2, <2>3, <2>4, WordsAdd
  <2>6. Text!Words(b) = w1
    <3>1. Text!Words(b) = w1 \o <<>>
      BY <1>1, <2>1, <2>3, <2>5 DEF AddWords
    <3> QED
      BY <1>2, <3>1
  <2>7. j = b \o t2
    BY <1>5, <2>1
  <2>8. j \in Seq(U)
    BY <1>2, <2>4, <2>7
  <2> QED
    BY <1>1, <2>5, <2>6, <2>7, <2>8 DEF AddWords
<1>6. \/ Len(t1) > 1 /\ Text!Closes(t1, {"hyphen"}) /\ Text!StartsEnglish(t2)
      \/ j = t1 \o t2 \/ j = t1 \o <<Text!Space>> \o t2
  BY <1>1 DEF Text!Joined
<1> QED
  BY <1>3, <1>4, <1>5, <1>6

-----------------------------------------------------------------------------
(* Cells of a page, and cells that are merged.                             *)

Categories == {"Caption", "Footnote", "Formula", "List-item", "Page-footer", "Page-header",
               "Picture", "Section-header", "Table", "Text", "Title"}
Cells == [category : Categories, gone : BOOLEAN, text : Seq(Tokens)]
Found == {c \in Cells : ~ c.gone}

CellWords == [c \in Cells |-> Text!Words(c.text)]

\* The words of cells are what the cells say.
LEMMA CellWordsIsPart == CellWords \in [Cells -> Seq(Tokens)]
<1>1. \A c \in Cells : Text!Words(c.text) \in Seq(Tokens)
  BY WordsAre DEF Cells
<1> QED
  BY <1>1 DEF CellWords

\* The words of cells are what the cells say, one after the other.
LEMMA WordsOfAre ==
  ASSUME NEW cells \in Seq(Cells)
  PROVE  Text!WordsOf(cells) = Reading(CellWords, cells)
<1>1. \A k \in DOMAIN cells : cells[k] \in Cells
  OBVIOUS
<1>2. [k \in DOMAIN cells |-> Text!Words(cells[k].text)] = Parts(CellWords, cells)
  BY <1>1 DEF Parts, CellWords
<1> QED
  BY <1>2 DEF Reading, Text!WordsOf

\* A cell that took over the text of another.
MergedCell(c1, c2) == [c1 EXCEPT !.text = Text!Joined(@, c2.text)]

\* It is a cell as the first was, and says what both said.
LEMMA MergedCellIs ==
  ASSUME NEW c1 \in Cells, NEW c2 \in Cells
  PROVE  /\ MergedCell(c1, c2) \in Cells
         /\ MergedCell(c1, c2).category = c1.category /\ MergedCell(c1, c2).gone = c1.gone
         /\ CellWords[MergedCell(c1, c2)] = CellWords[c1] \o CellWords[c2]
<1>1. PICK t1, t2, j : t1 = c1.text /\ t2 = c2.text /\ j = Text!Joined(t1, t2)
  OBVIOUS
<1>2. t1 \in Seq(Tokens) /\ t2 \in Seq(Tokens)
  BY <1>1 DEF Cells
<1>3. j \in Seq(Tokens) /\ Text!Words(j) = Text!Words(t1) \o Text!Words(t2)
  BY <1>1, <1>2, JoinedWords
<1>4. PICK c : c = [c1 EXCEPT !.text = j]
  OBVIOUS
<1>5. MergedCell(c1, c2) = c
  BY <1>1, <1>4 DEF MergedCell
<1>6. c \in Cells /\ c.category = c1.category /\ c.gone = c1.gone /\ c.text = j
  BY <1>3, <1>4 DEF Cells
<1>7. CellWords[c] = Text!Words(j) /\ CellWords[c1] = Text!Words(t1) /\ CellWords[c2] = Text!Words(t2)
  BY <1>1, <1>6 DEF CellWords
<1> QED
  BY <1>3, <1>5, <1>6, <1>7

\* Parts of a cell that took over another are the parts of both.
AddsUp(part) ==
  \A c1, c2 \in Found :
    Text!IsText(c1) /\ Text!IsText(c2) => part[MergedCell(c1, c2)] = part[c1] \o part[c2]

\* A sequence and one more.
LEMMA AppendIs ==
  ASSUME NEW S, NEW s \in Seq(S), NEW e \in S
  PROVE  Append(s, e) = s \o <<e>> /\ Append(s, e) \in Seq(S)
<1>1. PICK t : t = s \o <<e>>
  OBVIOUS
<1>2. t \in Seq(S) /\ Len(t) = Len(s) + 1 /\ Append(s, e) \in Seq(S) /\ Len(Append(s, e)) = Len(s) + 1
  BY <1>1
<1>3. \A i \in 1 .. Len(s) + 1 : t[i] = Append(s, e)[i]
  BY <1>1
<1> QED
  BY <1>1, <1>2, <1>3, SeqEqual

\* A page and the next of its cells.
LEMMA MergeNextReads ==
  ASSUME NEW S, NEW part \in [Cells -> Seq(S)], AddsUp(part),
         NEW out \in Seq(Found), NEW cell \in Found
  PROVE  /\ Text!MergeNext(out, cell) \in Seq(Found)
         /\ Reading(part, Text!MergeNext(out, cell)) = Reading(part, out) \o part[cell]
<1>1. Found \subseteq Cells
  BY DEF Found
<1>2. PICK r \in Seq(S) : r = part[cell]
  BY <1>1
<1>3. Seq(Found) \subseteq Seq(Cells)
  BY <1>1, SeqMonotonic
<1>4. CASE out # <<>> /\ Text!MergeOnPage(Text!Last(out), cell)
  <2>1. PICK f, u : f = Text!Front(out) /\ u = Text!Last(out)
    OBVIOUS
  <2>2. f \in Seq(Found) /\ u \in Found /\ out = f \o <<u>>
    BY <1>4, <2>1, FrontAndLast
  <2>3. PICK c : c = MergedCell(u, cell)
    OBVIOUS
  <2>4. c \in Found
    <3>1. c \in Cells /\ c.gone = u.gone
      BY <1>1, <2>2, <2>3, MergedCellIs
    <3> QED
      BY <2>2, <3>1 DEF Found
  <2>5. part[c] = part[u] \o r
    <3>1. Text!IsText(u) /\ Text!IsText(cell)
      BY <1>4, <2>1 DEF Text!MergeOnPage
    <3> QED
      BY <1>2, <2>2, <2>3, <3>1 DEF AddsUp
  <2>6. Text!MergeNext(out, cell) = Append(f, c)
    BY <1>4, <2>1, <2>3 DEF Text!MergeNext, MergedCell
  <2>7. PICK cs, us : cs = <<c>> /\ us = <<u>>
    OBVIOUS
  <2>8. cs \in Seq(Found) /\ us \in Seq(Found)
    BY <2>2, <2>4, <2>7
  <2>9. Append(f, c) = f \o cs /\ Append(f, c) \in Seq(Found)
    BY <2>2, <2>4, <2>7, AppendIs
  <2>10. SaysBoth(part, f, cs) /\ SaysBoth(part, f, us)
    <3>1. f \in Seq(Cells) /\ cs \in Seq(Cells) /\ us \in Seq(Cells)
      BY <1>3, <2>2, <2>8
    <3> QED
      BY <3>1, ReadingConcat
  <2>11. Reading(part, cs) = part[c] /\ Reading(part, us) = part[u]
    BY <1>1, <2>2, <2>4, <2>7, ReadingSmall
  <2>12. PICK x, y : x = Reading(part, f) /\ y = part[u]
    OBVIOUS
  <2>13. x \in Seq(S) /\ y \in Seq(S)
    <3>1. f \in Seq(Cells) /\ u \in Cells
      BY <1>1, <1>3, <2>2
    <3>2. x \in Seq(S)
      BY <2>12, <3>1, ReadingIsSeq
    <3> QED
      BY <2>12, <3>1, <3>2
  <2>14. Alike3(x, y, r)
    BY <2>13, EitherWay
  <2>15. Reading(part, Text!MergeNext(out, cell)) = x \o (y \o r)
    BY <2>5, <2>6, <2>9, <2>10, <2>11, <2>12 DEF SaysBoth
  <2>16. Reading(part, out) = x \o y
    BY <2>2, <2>7, <2>10, <2>11, <2>12 DEF SaysBoth
  <2> QED
    BY <1>2, <2>6, <2>9, <2>14, <2>15, <2>16 DEF Alike3
<1>5. CASE ~ (out # <<>> /\ Text!MergeOnPage(Text!Last(out), cell))
  <2>1. PICK cs : cs = <<cell>>
    OBVIOUS
  <2>2. Text!MergeNext(out, cell) = Append(out, cell)
    BY <1>5 DEF Text!MergeNext
  <2>3. Append(out, cell) = out \o cs /\ Append(out, cell) \in Seq(Found)
    BY <2>1, AppendIs
  <2>4. SaysBoth(part, out, cs)
    <3>1. out \in Seq(Cells) /\ cs \in Seq(Cells)
      BY <1>1, <1>3, <2>1
    <3> QED
      BY <3>1, ReadingConcat
  <2>5. Reading(part, cs) = r
    BY <1>1, <1>2, <2>1, ReadingSmall
  <2> QED
    BY <1>2, <2>2, <2>3, <2>4, <2>5 DEF SaysBoth
<1> QED
  BY <1>4, <1>5

\* Words add up.
LEMMA CellWordsAddUp == AddsUp(CellWords)
<1>1. \A c1, c2 \in Found : c1 \in Cells /\ c2 \in Cells
  BY DEF Found
<1> QED
  BY <1>1, MergedCellIs DEF AddsUp

\* So they do when only some cells count, if a cell that takes over another counts as
\* they both do.
LEMMA SomeAddUp ==
  ASSUME NEW V \in SUBSET Cells, NEW S, NEW part \in [Cells -> Seq(S)], AddsUp(part),
         \A c1, c2 \in Found : Text!IsText(c1) /\ Text!IsText(c2) =>
           \/ MergedCell(c1, c2) \in V /\ c1 \in V /\ c2 \in V
           \/ MergedCell(c1, c2) \notin V /\ c1 \notin V /\ c2 \notin V
  PROVE  AddsUp(Only(part, Cells, V))
<1> SUFFICES ASSUME NEW c1 \in Found, NEW c2 \in Found, Text!IsText(c1), Text!IsText(c2)
             PROVE  Only(part, Cells, V)[MergedCell(c1, c2)]
                      = Only(part, Cells, V)[c1] \o Only(part, Cells, V)[c2]
  BY DEF AddsUp
<1>1. c1 \in Cells /\ c2 \in Cells
  BY DEF Found
<1>2. PICK c : c = MergedCell(c1, c2)
  OBVIOUS
<1>3. c \in Cells /\ part[c] = part[c1] \o part[c2]
  BY <1>1, <1>2, MergedCellIs DEF AddsUp
<1>4. PICK some : some = Only(part, Cells, V)
  OBVIOUS
<1>5. \A u \in Cells : some[u] = IF u \in V THEN part[u] ELSE <<>>
  BY <1>4 DEF Only
<1>6. CASE c \in V /\ c1 \in V /\ c2 \in V
  <2>1. some[c] = part[c] /\ some[c1] = part[c1] /\ some[c2] = part[c2]
    BY <1>1, <1>3, <1>5, <1>6
  <2> QED
    BY <1>2, <1>3, <1>4, <2>1
<1>7. CASE c \notin V /\ c1 \notin V /\ c2 \notin V
  <2>1. some[c] = <<>> /\ some[c1] = <<>> /\ some[c2] = <<>>
    BY <1>1, <1>3, <1>5, <1>7
  <2>2. <<>> \o <<>> = <<>>
    OBVIOUS
  <2> QED
    BY <1>2, <1>4, <2>1, <2>2
<1> QED
  BY <1>2, <1>6, <1>7

\* What has become of so many cells.
MergesUp(out, cells) ==
  /\ out[0] = <<>>
  /\ \A i \in 1 .. Len(cells) : out[i] = Text!MergeNext(out[i - 1], cells[i])
  /\ \A i \in 0 .. Len(cells) : out[i] \in Seq(Found)

\* The merge of a page (_merge_text_blocks_worker) takes its cells one after the other.
LEMMA MergedSoFarIs ==
  ASSUME NEW cells \in Seq(Found)
  PROVE  MergesUp(Text!MergedSoFar(cells), cells)
<1>1. PICK n \in Nat : n = Len(cells)
  OBVIOUS
<1>2. \A i \in 1 .. n : cells[i] \in Found
  BY <1>1
<1> DEFINE step == [i \in 1 .. n |-> [s \in Seq(Found) |-> Text!MergeNext(s, cells[i])]]
<1>3. step \in [1 .. n -> [Seq(Found) -> Seq(Found)]]
  <2> SUFFICES ASSUME NEW i \in 1 .. n, NEW s \in Seq(Found)
               PROVE  Text!MergeNext(s, cells[i]) \in Seq(Found)
    OBVIOUS
  <2>1. cells[i] \in Found
    BY <1>2
  <2> QED
    BY <2>1, CellWordsIsPart, CellWordsAddUp, MergeNextReads
<1>4. PICK f : IsRow(f, Seq(Found), <<>>, n, step)
  <2>1. <<>> \in Seq(Found)
    OBVIOUS
  <2> HIDE DEF step
  <2> QED
    BY <1>3, <2>1, RowIsThere
<1>5. \A i \in 1 .. n : f[i] = Text!MergeNext(f[i - 1], cells[i])
  <2>1. ASSUME NEW i \in 1 .. n PROVE f[i - 1] \in Seq(Found) /\ f[i] = step[i][f[i - 1]]
    <3>1. i - 1 \in 0 .. n
      OBVIOUS
    <3> HIDE DEF step
    <3> QED
      BY <1>4, <3>1 DEF IsRow
  <2>2. \A i \in 1 .. n : step[i] = [s \in Seq(Found) |-> Text!MergeNext(s, cells[i])]
    OBVIOUS
  <2> HIDE DEF step
  <2> QED
    BY <2>1, <2>2
<1>6. f = [i \in 0 .. n |-> IF i = 0 THEN <<>> ELSE Text!MergeNext(f[i - 1], cells[i])]
  BY <1>4, <1>5 DEF IsRow
<1>7. PICK out : out = Text!MergedSoFar(cells)
  OBVIOUS
<1>8. out = [i \in 0 .. n |-> IF i = 0 THEN <<>> ELSE Text!MergeNext(out[i - 1], cells[i])]
  BY <1>1, <1>6, <1>7 DEF Text!MergedSoFar
<1>9. out[0] = <<>> /\ \A i \in 1 .. n : out[i] = Text!MergeNext(out[i - 1], cells[i])
  <2>1. 0 \in 0 .. n /\ \A i \in 1 .. n : i \in 0 .. n /\ i # 0
    OBVIOUS
  <2>2. \A i \in 0 .. n : out[i] = IF i = 0 THEN <<>> ELSE Text!MergeNext(out[i - 1], cells[i])
    BY <1>8
  <2> QED
    BY <2>1, <2>2
<1> DEFINE T == {i \in 0 .. n : out[i] \in Seq(Found)}
<1>10. T = 0 .. n
  <2>1. T \subseteq 0 .. n /\ 0 \in T
    <3>1. <<>> \in Seq(Found)
      OBVIOUS
    <3>2. 0 \in 0 .. n
      BY <1>1
    <3>3. out[0] \in Seq(Found)
      BY <1>9, <3>1, Zenon
    <3> QED
      BY <3>2, <3>3
  <2>2. ASSUME NEW i \in 1 .. n, i - 1 \in T PROVE i \in T
    <3>1. out[i - 1] \in Seq(Found) /\ step[i][out[i - 1]] \in Seq(Found)
      BY <1>3, <2>2
    <3>2. step[i][out[i - 1]] = Text!MergeNext(out[i - 1], cells[i])
      BY <3>1
    <3> QED
      BY <1>9, <3>1, <3>2
  <2> HIDE DEF T
  <2> QED
    BY <2>1, <2>2, ToTheEnd
<1> QED
  BY <1>1, <1>7, <1>9, <1>10 DEF MergesUp

\* A merged page is made of live cells and says what its cells said.
LEMMA MergedReads ==
  ASSUME NEW S, NEW part \in [Cells -> Seq(S)], AddsUp(part), NEW cells \in Seq(Found)
  PROVE  /\ Text!MergedPage(cells) \in Seq(Found)
         /\ Reading(part, Text!MergedPage(cells)) = Reading(part, cells)
<1>1. PICK n \in Nat : n = Len(cells)
  OBVIOUS
<1>2. PICK out : out = Text!MergedSoFar(cells)
  OBVIOUS
<1>3. /\ out[0] = <<>>
      /\ \A i \in 1 .. n : out[i] = Text!MergeNext(out[i - 1], cells[i])
      /\ \A i \in 0 .. n : out[i] \in Seq(Found)
  <2>1. MergesUp(out, cells)
    BY <1>2, MergedSoFarIs
  <2> QED
    BY <1>1, <2>1 DEF MergesUp
<1>4. cells \in Seq(Cells)
  <2>1. Found \subseteq Cells
    BY DEF Found
  <2> QED
    BY <2>1, SeqMonotonic
<1>5. PICK ss : ss = Parts(part, cells)
  OBVIOUS
<1>6. ArePartsOf(ss, S, part, Cells, cells)
  BY <1>4, <1>5, PartsAreSeq
<1>7. ss \in Seq(Seq(S)) /\ Len(ss) = n /\ \A i \in 1 .. n : ss[i] = part[cells[i]]
  BY <1>1, <1>6 DEF ArePartsOf
<1>8. PICK f : FlatRow(f, ss)
  BY <1>7, FlatRowIsThere
<1>9. Text!FlattenSeq(ss) = f[n]
  BY <1>7, <1>8, FlatRowEnds
<1> DEFINE T == {i \in 0 .. n : Reading(part, out[i]) = f[i]}
<1>10. T = 0 .. n
  <2>1. T \subseteq 0 .. n
    OBVIOUS
  <2>2. 0 \in T
    <3>1. Reading(part, <<>>) = <<>>
      BY ReadingSmall
    <3> QED
      BY <1>3, <1>8, <3>1 DEF FlatRow
  <2>3. ASSUME NEW i \in 1 .. n, i - 1 \in T PROVE i \in T
    <3>1. i - 1 \in 0 .. n /\ i \in 0 .. n /\ i \in 1 .. Len(ss)
      BY <1>7
    <3>2. PICK o, c : o = out[i - 1] /\ c = cells[i]
      OBVIOUS
    <3>3. o \in Seq(Found) /\ c \in Found
      BY <1>1, <1>3, <3>1, <3>2
    <3>4. Reading(part, Text!MergeNext(o, c)) = Reading(part, o) \o part[c]
      BY <3>3, MergeNextReads
    <3>5. f[i] = f[i - 1] \o ss[i]
      BY <1>8, <3>1 DEF FlatRow
    <3>6. out[i] = Text!MergeNext(o, c) /\ Reading(part, o) = f[i - 1] /\ ss[i] = part[c]
      BY <1>3, <1>7, <2>3, <3>2
    <3>7. Reading(part, out[i]) = f[i]
      BY <3>4, <3>5, <3>6
    <3> QED
      BY <3>1, <3>7
  <2> HIDE DEF T
  <2> QED
    BY <2>1, <2>2, <2>3, ToTheEnd
<1>11. n \in 0 .. n
  OBVIOUS
<1> QED
  BY <1>1, <1>2, <1>3, <1>5, <1>9, <1>10, <1>11 DEF Reading, Text!MergedPage

\* Found cells of text, other live cells, and live cells that are shown.
TextCells == {c \in Cells : ~ c.gone /\ Text!IsText(c)}
OtherCells == {c \in Cells : ~ c.gone /\ ~ Text!IsText(c)}
ShownCells(options) == {c \in Cells : ~ c.gone /\ Text!IsShown(c, options)}

TextPart == Only(CellWords, Cells, TextCells)
OtherPart == Picks(Cells, OtherCells)
ShownPart(options) == Only(CellWords, Cells, ShownCells(options))

\* The words of the text, the other cells and the words that are shown are parts of a
\* cell that add up.
LEMMA TextPartAddsUp == TextPart \in [Cells -> Seq(Tokens)] /\ AddsUp(TextPart)
<1>1. TextCells \in SUBSET Cells
  BY DEF TextCells
<1>2. ASSUME NEW c1 \in Found, NEW c2 \in Found, Text!IsText(c1) /\ Text!IsText(c2)
      PROVE  MergedCell(c1, c2) \in TextCells /\ c1 \in TextCells /\ c2 \in TextCells
  <2>1. c1 \in Cells /\ c2 \in Cells /\ ~ c1.gone /\ ~ c2.gone
    BY DEF Found
  <2>2. PICK c : c = MergedCell(c1, c2)
    OBVIOUS
  <2>3. c \in Cells /\ c.category = c1.category /\ c.gone = c1.gone
    BY <2>1, <2>2, MergedCellIs
  <2> QED
    BY <1>2, <2>1, <2>2, <2>3 DEF TextCells, Text!IsText
<1> QED
  BY <1>1, <1>2, CellWordsIsPart, CellWordsAddUp, SomeAddUp, PicksAreParts DEF TextPart

\* Cells that are no text are not merged, and stay what they are.
LEMMA OtherPartAddsUp == OtherPart \in [Cells -> Seq(OtherCells)] /\ AddsUp(OtherPart)
<1>1. PICK U, V : U = Cells /\ V = OtherCells
  OBVIOUS
<1>2. Picks(U, V) \in [U -> Seq(V)]
  <2>1. \A u \in V : <<u>> \in Seq(V)
    OBVIOUS
  <2>2. <<>> \in Seq(V)
    OBVIOUS
  <2> QED
    BY <2>1, <2>2 DEF Picks
<1>3. ASSUME NEW c1 \in Found, NEW c2 \in Found, Text!IsText(c1) /\ Text!IsText(c2)
      PROVE  OtherPart[MergedCell(c1, c2)] = OtherPart[c1] \o OtherPart[c2]
  <2>1. c1 \in Cells /\ c2 \in Cells
    BY DEF Found
  <2>2. PICK c : c = MergedCell(c1, c2)
    OBVIOUS
  <2>3. c \in Cells /\ c.category = c1.category
    BY <2>1, <2>2, MergedCellIs
  <2>4. c \notin OtherCells /\ c1 \notin OtherCells /\ c2 \notin OtherCells
    BY <1>3, <2>3 DEF OtherCells, Text!IsText
  <2>5. OtherPart[c] = <<>> /\ OtherPart[c1] = <<>> /\ OtherPart[c2] = <<>>
    BY <2>1, <2>3, <2>4 DEF OtherPart, Picks
  <2>6. <<>> \o <<>> = <<>>
    OBVIOUS
  <2> QED
    BY <2>2, <2>5, <2>6
<1> QED
  BY <1>1, <1>2, <1>3 DEF OtherPart, AddsUp

\* A cell that is merged shows the words that both showed.
LEMMA ShownPartAddsUp ==
  ASSUME NEW options
  PROVE  ShownPart(options) \in [Cells -> Seq(Tokens)] /\ AddsUp(ShownPart(options))
<1>1. PICK V : V = ShownCells(options)
  OBVIOUS
<1>2. V \in SUBSET Cells
  BY <1>1 DEF ShownCells
<1>3. ASSUME NEW c1 \in Found, NEW c2 \in Found, Text!IsText(c1) /\ Text!IsText(c2)
      PROVE  MergedCell(c1, c2) \in V /\ c1 \in V /\ c2 \in V
  <2>1. c1 \in Cells /\ c2 \in Cells /\ ~ c1.gone /\ ~ c2.gone
    BY DEF Found
  <2>2. PICK c : c = MergedCell(c1, c2)
    OBVIOUS
  <2>3. c \in Cells /\ c.category = c1.category /\ c.gone = c1.gone
    BY <2>1, <2>2, MergedCellIs
  <2> QED
    BY <1>1, <1>3, <2>1, <2>2, <2>3 DEF ShownCells, Text!IsText, Text!IsShown
<1> QED
  BY <1>1, <1>2, <1>3, CellWordsIsPart, CellWordsAddUp, SomeAddUp, PicksAreParts DEF ShownPart

\* Cells that are chosen are a sequence of their set, and say what they say.
LEMMA ChosenReads ==
  ASSUME NEW V \in SUBSET Cells, NEW S, NEW part, IsPart(part, Cells, S),
         NEW cells \in Seq(Cells), NEW places, places = {k \in DOMAIN cells : cells[k] \in V}
  PROVE  /\ Text!Where(cells, places) = Reading(Picks(Cells, V), cells)
         /\ Text!Where(cells, places) \in Seq(V)
         /\ Reading(part, Text!Where(cells, places)) = Reading(Only(part, Cells, V), cells)
<1>1. Text!Where(cells, {k \in DOMAIN cells : cells[k] \in V}) = Reading(Picks(Cells, V), cells)
  BY WhereIsReading
<1>2. /\ Reading(Picks(Cells, V), cells) \in Seq(V)
      /\ Reading(part, Reading(Picks(Cells, V), cells)) = Reading(Only(part, Cells, V), cells)
  <2>1. Reading(Picks(Cells, V), cells) \in Seq(V)
    BY ReadingChosen DEF IsPart
  <2>2. Reading(part, Reading(Picks(Cells, V), cells)) = Reading(Only(part, Cells, V), cells)
    BY ReadingChosen DEF IsPart
  <2> QED
    BY <2>1, <2>2
<1> QED
  BY <1>1, <1>2

\* What is shown of a page of live cells.
LEMMA ShownReads ==
  ASSUME NEW options, NEW cells \in Seq(Found)
  PROVE  /\ Text!Shown(cells, options) \in Seq(Found)
         /\ Text!WordsOf(Text!Shown(cells, options)) = Reading(ShownPart(options), cells)
<1>1. PICK V : V = ShownCells(options)
  OBVIOUS
<1>2. V \in SUBSET Cells /\ V \subseteq Found /\ Found \subseteq Cells
  BY <1>1 DEF ShownCells, Found
<1>3. cells \in Seq(Cells)
  BY <1>2, SeqMonotonic
<1>4. PICK places : places = {k \in DOMAIN cells : Text!IsShown(cells[k], options)}
  OBVIOUS
<1>5. places = {k \in DOMAIN cells : cells[k] \in V}
  <2>1. \A k \in DOMAIN cells : cells[k] \in Found
    OBVIOUS
  <2>2. \A k \in DOMAIN cells : cells[k] \in V <=> Text!IsShown(cells[k], options)
    BY <1>1, <2>1 DEF ShownCells, Found
  <2> QED
    BY <1>4, <2>2
<1>6. PICK shown : shown = Text!Where(cells, places)
  OBVIOUS
<1>7. shown \in Seq(V) /\ Reading(CellWords, shown) = Reading(Only(CellWords, Cells, V), cells)
  <2>0. IsPart(CellWords, Cells, Tokens)
    BY CellWordsIsPart DEF IsPart
  <2>1. shown \in Seq(V)
    BY <1>2, <1>3, <1>5, <1>6, <2>0, ChosenReads
  <2>2. Reading(CellWords, Text!Where(cells, places)) = Reading(Only(CellWords, Cells, V), cells)
    BY <1>2, <1>3, <1>5, <2>0, ChosenReads
  <2> QED
    BY <1>6, <2>1, <2>2
<1>8. shown \in Seq(Found) /\ shown \in Seq(Cells)
  BY <1>2, <1>7, SeqMonotonic
<1>9. Text!WordsOf(shown) = Reading(CellWords, shown)
  BY <1>8, WordsOfAre
<1>10. Text!Shown(cells, options) = shown
  BY <1>4, <1>6 DEF Text!Shown
<1> QED
  BY <1>1, <1>7, <1>8, <1>9, <1>10 DEF ShownPart

\* A page is written with the words that are to be shown.
LEMMA PageIsWritten ==
  ASSUME NEW options, NEW cells \in Seq(Found)
  PROVE  /\ Text!WordsOf(Text!Rendered(cells, options)) = Reading(ShownPart(options), cells)
         /\ Text!WordsOf(Text!Shown(cells, options)) = Reading(ShownPart(options), cells)
<1>1. PICK once : once = Text!MergedPage(cells)
  OBVIOUS
<1>2. /\ once \in Seq(Found)
      /\ Reading(ShownPart(options), once) = Reading(ShownPart(options), cells)
  BY <1>1, ShownPartAddsUp, MergedReads
<1>3. PICK shown : shown = Text!Shown(once, options)
  OBVIOUS
<1>4. shown \in Seq(Found) /\ Text!WordsOf(shown) = Reading(ShownPart(options), once)
  BY <1>2, <1>3, ShownReads
<1>5. PICK again : again = Text!MergedPage(shown)
  OBVIOUS
<1>6. again \in Seq(Found) /\ Reading(CellWords, again) = Reading(CellWords, shown)
  BY <1>4, <1>5, CellWordsIsPart, CellWordsAddUp, MergedReads
<1>7. Text!WordsOf(again) = Text!WordsOf(shown)
  <2>1. Found \subseteq Cells
    BY DEF Found
  <2>2. again \in Seq(Cells) /\ shown \in Seq(Cells)
    BY <1>4, <1>6, <2>1, SeqMonotonic
  <2> QED
    BY <1>6, <2>2, WordsOfAre
<1>8. Text!Rendered(cells, options) = again \/ Text!Rendered(cells, options) = shown
  BY <1>1, <1>3, <1>5 DEF Text!Rendered
<1>9. Text!WordsOf(Text!Shown(cells, options)) = Reading(ShownPart(options), cells)
  BY ShownReads
<1> QED
  BY <1>2, <1>4, <1>7, <1>8, <1>9

-----------------------------------------------------------------------------
(* The sentence that goes on on the next page.                             *)

\* Places have a first and a last one.
LEMMA FirstAndLast ==
  ASSUME NEW n \in Nat, NEW S \in SUBSET (1 .. n), S # {}
  PROVE  /\ Text!Min(S) \in S /\ \A k \in S : Text!Min(S) <= k
         /\ Text!Max(S) \in S /\ \A k \in S : k <= Text!Max(S)
<1>1. \E i \in S : \A j \in S : i <= j
  <2>1. S \in SUBSET Nat
    OBVIOUS
  <2> QED
    BY <2>1, LeastIsThere
<1>2. \E i \in S : \A j \in S : i >= j
  <2>1. PICK R : R = {n - k : k \in S}
    OBVIOUS
  <2>2. R \in SUBSET Nat /\ R # {}
    <3>1. \A k \in S : n - k \in Nat
      OBVIOUS
    <3> QED
      BY <2>1, <3>1
  <2>3. PICK r \in R : \A s \in R : r <= s
    BY <2>2, LeastIsThere
  <2>4. PICK i \in S : r = n - i
    BY <2>1, <2>3
  <2>5. ASSUME NEW j \in S PROVE i >= j
    <3>1. n - j \in R
      BY <2>1
    <3>2. n - i <= n - j /\ i \in 1 .. n /\ j \in 1 .. n
      BY <2>3, <2>4, <3>1
    <3> QED
      BY <3>2
  <2> QED
    BY <2>5
<1>3. Text!Min(S) \in S /\ \A k \in S : Text!Min(S) <= k
  BY <1>1 DEF Text!Min
<1>4. Text!Max(S) \in S /\ \A k \in S : Text!Max(S) >= k
  BY <1>2 DEF Text!Max
<1>5. \A k \in S : k <= Text!Max(S)
  <2>1. \A k \in S : k \in 1 .. n
    OBVIOUS
  <2> QED
    BY <1>4, <2>1
<1> QED
  BY <1>3, <1>4, <1>5

\* The first and the last text of a page with text.
LEMMA TextPlacesAre ==
  ASSUME NEW cells \in Seq(Cells), Text!TextPlaces(cells) # {}
  PROVE  /\ Text!FirstText(cells) \in 1 .. Len(cells) /\ Text!LastText(cells) \in 1 .. Len(cells)
         /\ Text!IsText(cells[Text!FirstText(cells)]) /\ Text!IsText(cells[Text!LastText(cells)])
         /\ \A k \in 1 .. Len(cells) :
              Text!IsText(cells[k]) => Text!FirstText(cells) <= k /\ k <= Text!LastText(cells)
<1>1. PICK n \in Nat : n = Len(cells)
  OBVIOUS
<1>2. PICK S : S = Text!TextPlaces(cells)
  OBVIOUS
<1>3. S = {k \in 1 .. n : Text!IsText(cells[k])}
  BY <1>1, <1>2 DEF Text!TextPlaces
<1>4. S \in SUBSET (1 .. n) /\ S # {}
  BY <1>2, <1>3
<1>5. /\ Text!Min(S) \in S /\ \A k \in S : Text!Min(S) <= k
      /\ Text!Max(S) \in S /\ \A k \in S : k <= Text!Max(S)
  BY <1>4, FirstAndLast
<1>6. Text!FirstText(cells) = Text!Min(S) /\ Text!LastText(cells) = Text!Max(S)
  BY <1>2 DEF Text!FirstText, Text!LastText
<1> QED
  BY <1>1, <1>3, <1>5, <1>6

\* A cell changes, the others stay.
Changed(cells, other, k, c) ==
  /\ other \in Seq(Cells) /\ Len(other) = Len(cells)
  /\ other[k] = c /\ \A i \in 1 .. Len(cells) : i # k => other[i] = cells[i]

\* A page with another cell at one place.
LEMMA ExceptIs ==
  ASSUME NEW cells \in Seq(Cells), NEW k \in 1 .. Len(cells), NEW c \in Cells
  PROVE  Changed(cells, [cells EXCEPT ![k] = c], k, c)
<1>1. PICK other : other = [cells EXCEPT ![k] = c]
  OBVIOUS
<1>2. /\ other \in Seq(Cells) /\ Len(other) = Len(cells)
      /\ \A i \in 1 .. Len(cells) : other[i] = IF i = k THEN c ELSE cells[i]
  BY <1>1, ExceptSeq
<1> QED
  BY <1>1, <1>2 DEF Changed

\* A block that is put together with the first of the next page.
Over(cells1, cells2) ==
  MergedCell(cells1[Text!LastText(cells1)], cells2[Text!FirstText(cells2)])

\* The last text of a page takes over the first of the next.
LEMMA TakesOverIs ==
  ASSUME NEW cells1 \in Seq(Cells), NEW cells2 \in Seq(Cells),
         Text!TextPlaces(cells1) # {}, Text!TextPlaces(cells2) # {}
  PROVE  Changed(cells1, Text!TakesOver(cells1, cells2), Text!LastText(cells1),
                 Over(cells1, cells2))
<1>1. PICK k1, k2 : k1 = Text!LastText(cells1) /\ k2 = Text!FirstText(cells2)
  OBVIOUS
<1>2. k1 \in 1 .. Len(cells1) /\ k2 \in 1 .. Len(cells2)
  BY <1>1, TextPlacesAre
<1>3. PICK c1, c2 : c1 = cells1[k1] /\ c2 = cells2[k2]
  OBVIOUS
<1>4. c1 \in Cells /\ c2 \in Cells
  BY <1>2, <1>3
<1>5. PICK c : c = MergedCell(c1, c2)
  OBVIOUS
<1>6. c \in Cells
  BY <1>4, <1>5, MergedCellIs
<1>7. Text!TakesOver(cells1, cells2) = [cells1 EXCEPT ![k1] = c]
  BY <1>1, <1>3, <1>5 DEF Text!TakesOver, MergedCell
<1> QED
  <2>1. Changed(cells1, [cells1 EXCEPT ![k1] = c], k1, c)
    BY <1>2, <1>6, ExceptIs
  <2>2. Over(cells1, cells2) = c
    BY <1>1, <1>3, <1>5 DEF Over
  <2> QED
    BY <1>1, <1>7, <2>1, <2>2

\* A cell that goes: the first block of a page, when it was taken over.
GoneCell(c) == [c EXCEPT !.gone = TRUE]
Away(cells) == GoneCell(cells[Text!FirstText(cells)])

\* The first text of a page, taken over, is marked.
LEMMA GivesAwayIs ==
  ASSUME NEW cells \in Seq(Cells), Text!TextPlaces(cells) # {}
  PROVE  Changed(cells, Text!GivesAway(cells), Text!FirstText(cells), Away(cells))
<1>1. PICK k : k = Text!FirstText(cells)
  OBVIOUS
<1>2. k \in 1 .. Len(cells) /\ cells[k] \in Cells
  <2>1. k \in 1 .. Len(cells)
    BY <1>1, TextPlacesAre
  <2> QED
    BY <2>1
<1>3. PICK c : c = GoneCell(cells[k])
  OBVIOUS
<1>4. c \in Cells
  BY <1>2, <1>3 DEF GoneCell, Cells
<1>5. Text!GivesAway(cells) = [cells EXCEPT ![k] = c]
  BY <1>1, <1>3 DEF Text!GivesAway, GoneCell
<1> QED
  <2>1. Changed(cells, [cells EXCEPT ![k] = c], k, c)
    BY <1>2, <1>4, ExceptIs
  <2>2. Away(cells) = c
    BY <1>1, <1>3 DEF Away
  <2> QED
    BY <1>1, <1>5, <2>1, <2>2

\* Parts of a cell.
LEMMA PartsOfCell ==
  ASSUME NEW c \in Cells
  PROVE  /\ c.gone \/ ~ Text!IsText(c) => TextPart[c] = <<>>
         /\ c.gone \/ Text!IsText(c) => OtherPart[c] = <<>>
         /\ TextPart[c] \in Seq(Tokens)
<1>1. TextPart[c] = IF c \in TextCells THEN CellWords[c] ELSE <<>>
  BY DEF TextPart, Only
<1>2. OtherPart[c] = IF c \in OtherCells THEN <<c>> ELSE <<>>
  BY DEF OtherPart, Picks
<1>3. TextPart[c] \in Seq(Tokens)
  BY TextPartAddsUp
<1> QED
  BY <1>1, <1>2, <1>3 DEF TextCells, OtherCells

\* A cell that changes and says the same changes nothing.
LEMMA SameReading ==
  ASSUME NEW part, NEW cells \in Seq(Cells), NEW other, NEW k \in 1 .. Len(cells), NEW c,
         Changed(cells, other, k, c), part[c] = part[cells[k]]
  PROVE  Reading(part, other) = Reading(part, cells)
<1>1. PICK n \in Nat : n = Len(cells)
  OBVIOUS
<1>2. DOMAIN cells = 1 .. n /\ DOMAIN other = 1 .. n
  BY <1>1 DEF Changed
<1>3. \A i \in 1 .. n : part[other[i]] = part[cells[i]]
  <2>1. ASSUME NEW i \in 1 .. n PROVE part[other[i]] = part[cells[i]]
    <3>1. CASE i = k
      BY <3>1 DEF Changed
    <3>2. CASE i # k
      <4>1. other[i] = cells[i]
        BY <1>1, <3>2 DEF Changed
      <4> QED
        BY <4>1
    <3> QED
      BY <3>1, <3>2
  <2> QED
    BY <2>1
<1>4. [i \in DOMAIN other |-> part[other[i]]] = [i \in DOMAIN cells |-> part[cells[i]]]
  BY <1>2, <1>3
<1> QED
  BY <1>4 DEF Reading, Parts

\* The page that takes over says what it said and the block of the next page.
LEMMA TakesOverReads ==
  ASSUME NEW cells1 \in Seq(Cells), NEW cells2 \in Seq(Cells),
         Text!TextPlaces(cells1) # {}, Text!TextPlaces(cells2) # {},
         ~ cells1[Text!LastText(cells1)].gone, ~ cells2[Text!FirstText(cells2)].gone
  PROVE  /\ Text!TakesOver(cells1, cells2) \in Seq(Cells)
         /\ Reading(TextPart, Text!TakesOver(cells1, cells2))
              = Reading(TextPart, cells1) \o TextPart[cells2[Text!FirstText(cells2)]]
         /\ Reading(OtherPart, Text!TakesOver(cells1, cells2)) = Reading(OtherPart, cells1)
<1>1. PICK k1, k2 : k1 = Text!LastText(cells1) /\ k2 = Text!FirstText(cells2)
  OBVIOUS
<1>2. /\ k1 \in 1 .. Len(cells1) /\ k2 \in 1 .. Len(cells2)
      /\ Text!IsText(cells1[k1]) /\ Text!IsText(cells2[k2])
      /\ \A i \in 1 .. Len(cells1) : Text!IsText(cells1[i]) => i <= k1
  BY <1>1, TextPlacesAre
<1>3. PICK c1, c2, c : c1 = cells1[k1] /\ c2 = cells2[k2] /\ c = MergedCell(c1, c2)
  OBVIOUS
<1>4. c1 \in Cells /\ c2 \in Cells
  BY <1>2, <1>3
<1>5. c1 \in Found /\ c2 \in Found /\ Text!IsText(c1) /\ Text!IsText(c2)
  BY <1>1, <1>2, <1>3, <1>4 DEF Found
<1>6. c \in Cells /\ c.category = c1.category
  BY <1>3, <1>4, MergedCellIs
<1>7. PICK other : other = Text!TakesOver(cells1, cells2)
  OBVIOUS
<1>8. Changed(cells1, other, k1, c)
  BY <1>1, <1>3, <1>7, TakesOverIs DEF Over
<1>9. PICK x : x = TextPart[c2]
  OBVIOUS
<1>10. x \in Seq(Tokens) /\ TextPart[c] = TextPart[c1] \o x
  <2>1. x \in Seq(Tokens)
    BY <1>4, <1>9, PartsOfCell
  <2>2. TextPart[c] = TextPart[c1] \o x
    BY <1>3, <1>5, <1>9, TextPartAddsUp DEF AddsUp
  <2> QED
    BY <2>1, <2>2
<1>11. PICK ss, tt : ss = Parts(TextPart, cells1) /\ tt = Parts(TextPart, other)
  OBVIOUS
<1>12. /\ ss \in Seq(Seq(Tokens)) /\ Len(ss) = Len(cells1)
       /\ \A i \in 1 .. Len(cells1) : ss[i] = TextPart[cells1[i]]
  <2>1. ArePartsOf(ss, Tokens, TextPart, Cells, cells1)
    BY <1>11, TextPartAddsUp, PartsAreSeq
  <2> QED
    BY <2>1 DEF ArePartsOf
<1>13. /\ tt \in Seq(Seq(Tokens)) /\ Len(tt) = Len(cells1)
       /\ \A i \in 1 .. Len(cells1) : tt[i] = TextPart[other[i]]
  <2>1. other \in Seq(Cells) /\ Len(other) = Len(cells1)
    BY <1>8 DEF Changed
  <2>2. ArePartsOf(tt, Tokens, TextPart, Cells, other)
    BY <1>11, <2>1, TextPartAddsUp, PartsAreSeq
  <2> QED
    BY <2>1, <2>2 DEF ArePartsOf
<1>14. AddedTo(ss, tt, k1, x)
  <2>1. tt[k1] = ss[k1] \o x
    BY <1>2, <1>3, <1>8, <1>10, <1>12, <1>13 DEF Changed
  <2>2. ASSUME NEW i \in 1 .. Len(ss), i # k1 PROVE tt[i] = ss[i]
    <3>1. i \in 1 .. Len(cells1) /\ other[i] = cells1[i]
      BY <1>8, <1>12, <2>2 DEF Changed
    <3> QED
      BY <1>12, <1>13, <3>1
  <2>3. ASSUME NEW i \in 1 .. Len(ss), i > k1 PROVE ss[i] = <<>>
    <3>1. i \in 1 .. Len(cells1) /\ ~ (i <= k1) /\ cells1[i] \in Cells
      BY <1>2, <1>12, <2>3
    <3>2. ~ Text!IsText(cells1[i])
      BY <1>2, <3>1
    <3> QED
      BY <1>12, <3>1, <3>2, PartsOfCell
  <2> QED
    BY <1>12, <1>13, <2>1, <2>2, <2>3 DEF AddedTo
<1>15. Text!FlattenSeq(tt) = Text!FlattenSeq(ss) \o x
  BY <1>2, <1>10, <1>12, <1>13, <1>14, FlatEnd
<1>16. Reading(OtherPart, other) = Reading(OtherPart, cells1)
  <2>1. OtherPart[c] = <<>> /\ OtherPart[c1] = <<>>
    BY <1>4, <1>5, <1>6, PartsOfCell DEF Text!IsText
  <2> QED
    BY <1>2, <1>3, <1>8, <2>1, SameReading
<1> QED
  BY <1>1, <1>3, <1>7, <1>8, <1>9, <1>11, <1>15, <1>16 DEF Reading, Changed

\* The page whose first block goes says the rest.
LEMMA GivesAwayReads ==
  ASSUME NEW cells \in Seq(Cells), Text!TextPlaces(cells) # {},
         ~ cells[Text!FirstText(cells)].gone
  PROVE  /\ Text!GivesAway(cells) \in Seq(Cells)
         /\ Reading(TextPart, cells)
              = TextPart[cells[Text!FirstText(cells)]] \o Reading(TextPart, Text!GivesAway(cells))
         /\ Reading(OtherPart, Text!GivesAway(cells)) = Reading(OtherPart, cells)
<1>1. PICK k : k = Text!FirstText(cells)
  OBVIOUS
<1>2. /\ k \in 1 .. Len(cells) /\ Text!IsText(cells[k])
      /\ \A i \in 1 .. Len(cells) : Text!IsText(cells[i]) => k <= i
  BY <1>1, TextPlacesAre
<1>3. PICK c1, c : c1 = cells[k] /\ c = GoneCell(c1)
  OBVIOUS
<1>4. c1 \in Cells /\ Text!IsText(c1)
  BY <1>2, <1>3
<1>5. c \in Cells /\ c.gone
  BY <1>3, <1>4 DEF GoneCell, Cells
<1>6. PICK other : other = Text!GivesAway(cells)
  OBVIOUS
<1>7. Changed(cells, other, k, c)
  BY <1>1, <1>3, <1>6, GivesAwayIs DEF Away
<1>8. PICK ss, tt : ss = Parts(TextPart, cells) /\ tt = Parts(TextPart, other)
  OBVIOUS
<1>9. /\ ss \in Seq(Seq(Tokens)) /\ Len(ss) = Len(cells)
      /\ \A i \in 1 .. Len(cells) : ss[i] = TextPart[cells[i]]
  <2>1. ArePartsOf(ss, Tokens, TextPart, Cells, cells)
    BY <1>8, TextPartAddsUp, PartsAreSeq
  <2> QED
    BY <2>1 DEF ArePartsOf
<1>10. /\ tt \in Seq(Seq(Tokens)) /\ Len(tt) = Len(cells)
       /\ \A i \in 1 .. Len(cells) : tt[i] = TextPart[other[i]]
  <2>1. other \in Seq(Cells) /\ Len(other) = Len(cells)
    BY <1>7 DEF Changed
  <2>2. ArePartsOf(tt, Tokens, TextPart, Cells, other)
    BY <1>8, <2>1, TextPartAddsUp, PartsAreSeq
  <2> QED
    BY <2>1, <2>2 DEF ArePartsOf
<1>11. TakenFrom(ss, tt, k)
  <2>1. tt[k] = <<>>
    <3>1. TextPart[c] = <<>>
      BY <1>5, PartsOfCell
    <3> QED
      BY <1>2, <1>7, <1>10, <3>1 DEF Changed
  <2>2. ASSUME NEW i \in 1 .. Len(ss), i # k PROVE tt[i] = ss[i]
    <3>1. i \in 1 .. Len(cells) /\ other[i] = cells[i]
      BY <1>7, <1>9, <2>2 DEF Changed
    <3> QED
      BY <1>9, <1>10, <3>1
  <2>3. ASSUME NEW i \in 1 .. Len(ss), i < k PROVE ss[i] = <<>>
    <3>1. i \in 1 .. Len(cells) /\ ~ (k <= i) /\ cells[i] \in Cells
      BY <1>2, <1>9, <2>3
    <3>2. ~ Text!IsText(cells[i])
      BY <1>2, <3>1
    <3> QED
      BY <1>9, <3>1, <3>2, PartsOfCell
  <2> QED
    BY <1>9, <1>10, <2>1, <2>2, <2>3 DEF TakenFrom
<1>12. Text!FlattenSeq(ss) = ss[k] \o Text!FlattenSeq(tt)
  BY <1>2, <1>9, <1>10, <1>11, FlatBegin
<1>13. ss[k] = TextPart[c1]
  BY <1>2, <1>3, <1>9
<1>14. Reading(OtherPart, other) = Reading(OtherPart, cells)
  <2>1. OtherPart[c] = <<>> /\ OtherPart[c1] = <<>>
    BY <1>4, <1>5, PartsOfCell
  <2> QED
    BY <1>2, <1>3, <1>7, <2>1, SameReading
<1> QED
  BY <1>1, <1>3, <1>6, <1>7, <1>8, <1>12, <1>13, <1>14 DEF Reading, Changed

\* Documents of so many pages.
PagesOf(n) == {pages \in Seq(Seq(Cells)) : Len(pages) = n}

\* Two pages that are put together, in a document.
PutTogether(old, new, p) ==
  /\ Text!TextPlaces(old[p]) # {} /\ Text!TextPlaces(old[p + 1]) # {}
  /\ new[p] = Text!TakesOver(old[p], old[p + 1]) /\ new[p + 1] = Text!GivesAway(old[p + 1])
  /\ \A q \in 1 .. Len(old) : q # p /\ q # p + 1 => new[q] = old[q]

\* Two pages are left as they are, or put together.
LEMMA CrossAtIs ==
  ASSUME NEW n \in Nat, NEW old \in PagesOf(n), NEW p \in 1 .. n - 1
  PROVE  /\ Text!CrossAt(old, p) \in PagesOf(n)
         /\ Text!CrossAt(old, p) = old \/ PutTogether(old, Text!CrossAt(old, p), p)
<1>1. /\ old \in Seq(Seq(Cells)) /\ Len(old) = n /\ p \in 1 .. n /\ p + 1 \in 1 .. n /\ p # p + 1
      /\ \A q \in 1 .. n : old[q] \in Seq(Cells)
  BY DEF PagesOf
<1>2. CASE ~ Text!Crosses(old[p], old[p + 1])
  BY <1>2 DEF Text!CrossAt
<1>3. CASE Text!Crosses(old[p], old[p + 1])
  <2>1. Text!TextPlaces(old[p]) # {} /\ Text!TextPlaces(old[p + 1]) # {}
    BY <1>3 DEF Text!Crosses
  <2>2. PICK a, b : a = Text!TakesOver(old[p], old[p + 1]) /\ b = Text!GivesAway(old[p + 1])
    OBVIOUS
  <2>3. a \in Seq(Cells)
    BY <1>1, <2>1, <2>2, TakesOverIs DEF Changed
  <2>4. b \in Seq(Cells)
    BY <1>1, <2>1, <2>2, GivesAwayIs DEF Changed
  <2>5. PICK new : new = Text!CrossAt(old, p)
    OBVIOUS
  <2>6. new = [[old EXCEPT ![p] = a] EXCEPT ![p + 1] = b]
    BY <1>1, <1>3, <2>2, <2>5 DEF Text!CrossAt
  <2>7. PICK mid : mid = [old EXCEPT ![p] = a]
    OBVIOUS
  <2>8. /\ mid \in Seq(Seq(Cells)) /\ Len(mid) = n
        /\ \A q \in 1 .. n : mid[q] = IF q = p THEN a ELSE old[q]
    BY <1>1, <2>3, <2>7, ExceptSeq
  <2>9. /\ new \in Seq(Seq(Cells)) /\ Len(new) = n
        /\ \A q \in 1 .. n : new[q] = IF q = p + 1 THEN b ELSE mid[q]
    <3>1. new = [mid EXCEPT ![p + 1] = b]
      BY <2>6, <2>7
    <3> QED
      BY <1>1, <2>4, <2>8, <3>1, ExceptSeq
  <2>10. new[p] = a /\ new[p + 1] = b /\ \A q \in 1 .. n : q # p /\ q # p + 1 => new[q] = old[q]
    BY <1>1, <2>8, <2>9
  <2> QED
    BY <1>1, <2>1, <2>2, <2>5, <2>9, <2>10 DEF PagesOf, PutTogether
<1> QED
  BY <1>2, <1>3

\* What has become of the pages when so many were looked at.
CrossesUp(out, pages, n) ==
  /\ out[0] = pages
  /\ \A p \in 1 .. n : out[p] = IF p = n THEN out[p - 1] ELSE Text!CrossAt(out[p - 1], p)
  /\ \A p \in 0 .. n : out[p] \in PagesOf(n)

\* The pages of a document are put together one after the other.
LEMMA CrossedSoFarIs ==
  ASSUME NEW n \in Nat, NEW pages \in PagesOf(n)
  PROVE  CrossesUp(Text!CrossedSoFar(pages), pages, n)
<1>1. Len(pages) = n
  BY DEF PagesOf
<1> DEFINE Next(p, old) == IF p = n THEN old ELSE Text!CrossAt(old, p)
           step == [p \in 1 .. n |-> [old \in PagesOf(n) |-> Next(p, old)]]
<1>2. step \in [1 .. n -> [PagesOf(n) -> PagesOf(n)]]
  <2> SUFFICES ASSUME NEW p \in 1 .. n, NEW old \in PagesOf(n) PROVE Next(p, old) \in PagesOf(n)
    OBVIOUS
  <2>1. CASE p = n
    BY <2>1
  <2>2. CASE p # n
    <3>1. p \in 1 .. n - 1
      BY <2>2
    <3> QED
      BY <2>2, <3>1, CrossAtIs
  <2> QED
    BY <2>1, <2>2
<1>3. \A p \in 1 .. n : step[p] = [old \in PagesOf(n) |-> Next(p, old)]
  OBVIOUS
<1> HIDE DEF step
<1>4. PICK f : IsRow(f, PagesOf(n), pages, n, step)
  BY <1>2, RowIsThere
<1>5. \A p \in 1 .. n : f[p] = Next(p, f[p - 1])
  <2>1. ASSUME NEW p \in 1 .. n PROVE f[p - 1] \in PagesOf(n) /\ f[p] = step[p][f[p - 1]]
    <3>1. p - 1 \in 0 .. n
      OBVIOUS
    <3> QED
      BY <1>4, <3>1 DEF IsRow
  <2> HIDE DEF Next
  <2> QED
    BY <1>3, <2>1
<1>6. f = [p \in 0 .. n |-> IF p = 0 THEN pages
                           ELSE IF p = n THEN f[p - 1] ELSE Text!CrossAt(f[p - 1], p)]
  BY <1>4, <1>5 DEF IsRow
<1>7. PICK out : out = Text!CrossedSoFar(pages)
  OBVIOUS
<1>8. out = [p \in 0 .. n |-> IF p = 0 THEN pages
                             ELSE IF p = n THEN out[p - 1] ELSE Text!CrossAt(out[p - 1], p)]
  BY <1>1, <1>6, <1>7 DEF Text!CrossedSoFar
<1>9. out[0] = pages /\ \A p \in 1 .. n : out[p] = Next(p, out[p - 1])
  <2>1. 0 \in 0 .. n /\ \A p \in 1 .. n : p \in 0 .. n /\ p # 0
    OBVIOUS
  <2>2. \A p \in 0 .. n : out[p] = IF p = 0 THEN pages
                                  ELSE IF p = n THEN out[p - 1] ELSE Text!CrossAt(out[p - 1], p)
    BY <1>8
  <2> QED
    BY <2>1, <2>2
<1> DEFINE T == {p \in 0 .. n : out[p] \in PagesOf(n)}
<1>10. T = 0 .. n
  <2>1. T \subseteq 0 .. n /\ 0 \in T
    <3>1. 0 \in 0 .. n
      OBVIOUS
    <3> QED
      BY <1>9, <3>1
  <2>2. ASSUME NEW p \in 1 .. n, p - 1 \in T PROVE p \in T
    <3>1. out[p - 1] \in PagesOf(n) /\ step[p][out[p - 1]] \in PagesOf(n)
      BY <1>2, <2>2
    <3>2. step[p][out[p - 1]] = out[p]
      <4> HIDE DEF Next
      <4> QED
        BY <1>3, <1>9, <3>1
    <3> QED
      BY <3>1, <3>2
  <2> HIDE DEF T
  <2> QED
    BY <2>1, <2>2, ToTheEnd
<1> QED
  BY <1>7, <1>9, <1>10 DEF CrossesUp

\* What the pages of a document say in text.
PageTexts(pages) == [p \in DOMAIN pages |-> Reading(TextPart, pages[p])]

\* They are a sequence of sequences of words.
TextsAre(texts, pages, n) ==
  /\ texts \in Seq(Seq(Tokens)) /\ Len(texts) = n
  /\ \A p \in 1 .. n : texts[p] = Reading(TextPart, pages[p])

\* What the texts of the pages say are as many sequences of words.
LEMMA PageTextsAre ==
  ASSUME NEW n \in Nat, NEW pages \in PagesOf(n)
  PROVE  TextsAre(PageTexts(pages), pages, n)
<1>1. DOMAIN pages = 1 .. n /\ \A p \in 1 .. n : pages[p] \in Seq(Cells)
  BY DEF PagesOf
<1>2. \A p \in 1 .. n : Reading(TextPart, pages[p]) \in Seq(Tokens)
  BY <1>1, TextPartAddsUp, ReadingIsSeq
<1>3. PageTexts(pages) = [p \in 1 .. n |-> Reading(TextPart, pages[p])]
  BY <1>1 DEF PageTexts
<1> QED
  BY <1>2, <1>3 DEF TextsAre

\* Pages with one block of text stand at the ends of the document.
Roomy(pages, n) == \A p \in 2 .. n - 1 : \A k \in DOMAIN pages[p] : Text!TextPlaces(pages[p]) # {k}

\* What was put together so far says what was there: the pages that are still to be
\* looked at are as they were, but for the first block of the next, which may be gone.
CrossOK(base, pages, n, p) ==
  /\ \A q \in 1 .. n : q > p + 1 => pages[q] = base[q]
  /\ p + 1 <= n => \/ pages[p + 1] = base[p + 1]
                   \/ /\ p >= 1 /\ Text!TextPlaces(base[p + 1]) # {}
                      /\ pages[p + 1] = Text!GivesAway(base[p + 1])
  /\ Text!FlattenSeq(PageTexts(pages)) = Text!FlattenSeq(PageTexts(base))
  /\ \A q \in 1 .. n : Reading(OtherPart, pages[q]) = Reading(OtherPart, base[q])

\* A page whose first block is gone has its blocks where they were.
LEMMA AwayPlaces ==
  ASSUME NEW cells \in Seq(Cells), Text!TextPlaces(cells) # {}
  PROVE  Text!TextPlaces(Text!GivesAway(cells)) = Text!TextPlaces(cells)
<1>1. PICK k, c, other :
        /\ k = Text!FirstText(cells) /\ c = Away(cells) /\ other = Text!GivesAway(cells)
  OBVIOUS
<1>2. Changed(cells, other, k, c)
  BY <1>1, GivesAwayIs
<1>3. k \in 1 .. Len(cells)
  BY <1>1, TextPlacesAre
<1>4. c.category = cells[k].category
  <2>1. cells[k] \in Cells /\ c = GoneCell(cells[k])
    BY <1>1, <1>3 DEF Away
  <2> QED
    BY <2>1 DEF GoneCell, Cells
<1>5. DOMAIN other = DOMAIN cells /\ DOMAIN cells = 1 .. Len(cells)
  BY <1>2 DEF Changed
<1>6. \A i \in DOMAIN cells : other[i].category = cells[i].category
  <2>1. ASSUME NEW i \in 1 .. Len(cells) PROVE other[i].category = cells[i].category
    <3>1. CASE i = k
      BY <1>2, <1>4, <3>1 DEF Changed
    <3>2. CASE i # k
      BY <1>2, <3>2 DEF Changed
    <3> QED
      BY <3>1, <3>2
  <2> QED
    BY <1>5, <2>1
<1> QED
  BY <1>1, <1>5, <1>6 DEF Text!TextPlaces, Text!IsText

\* The last block of a page that is looked at next is there.
LEMMA LastIsThere ==
  ASSUME NEW n \in Nat, NEW base \in Seq(Seq(Found)), Len(base) = n, Roomy(base, n),
         NEW old \in PagesOf(n), NEW p \in 1 .. n - 1, CrossOK(base, old, n, p - 1),
         Text!TextPlaces(old[p]) # {}
  PROVE  ~ old[p][Text!LastText(old[p])].gone
<1>1. Found \subseteq Cells
  BY DEF Found
<1>2. p \in 1 .. n /\ base[p] \in Seq(Found) /\ (p - 1) + 1 = p /\ (p - 1) + 1 <= n
  OBVIOUS
<1>3. base[p] \in Seq(Cells)
  BY <1>1, <1>2, SeqMonotonic
<1>4. PICK cells : cells = base[p]
  OBVIOUS
<1>5. ASSUME NEW k \in 1 .. Len(cells) PROVE ~ cells[k].gone
  <2>1. cells[k] \in Found
    BY <1>2, <1>4
  <2> QED
    BY <2>1 DEF Found
<1>6. CASE old[p] = cells
  <2>1. Text!LastText(cells) \in 1 .. Len(cells)
    BY <1>3, <1>4, <1>6, TextPlacesAre
  <2> QED
    BY <1>5, <1>6, <2>1
<1>7. CASE p - 1 >= 1 /\ Text!TextPlaces(cells) # {} /\ old[p] = Text!GivesAway(cells)
  <2>1. PICK k1, k2 : k1 = Text!LastText(cells) /\ k2 = Text!FirstText(cells)
    OBVIOUS
  <2>2. /\ k1 \in 1 .. Len(cells) /\ k2 \in 1 .. Len(cells) /\ Text!IsText(cells[k1])
        /\ \A k \in 1 .. Len(cells) : Text!IsText(cells[k]) => k2 <= k /\ k <= k1
    BY <1>3, <1>4, <1>7, <2>1, TextPlacesAre
  <2>3. k1 # k2
    <3> SUFFICES ASSUME k1 = k2 PROVE FALSE
      OBVIOUS
    <3>1. \A k \in 1 .. Len(cells) : Text!IsText(cells[k]) => k = k1
      BY <2>2
    <3>2. DOMAIN cells = 1 .. Len(cells)
      BY <1>3, <1>4
    <3>3. Text!TextPlaces(cells) = {k1}
      BY <2>2, <3>1, <3>2 DEF Text!TextPlaces
    <3>4. p \in 2 .. n - 1
      BY <1>7
    <3> QED
      BY <1>4, <2>2, <3>2, <3>3, <3>4 DEF Roomy
  <2>4. Changed(cells, old[p], k2, Away(cells))
    BY <1>3, <1>4, <1>7, <2>1, GivesAwayIs
  <2>5. old[p][k1] = cells[k1]
    BY <2>2, <2>3, <2>4 DEF Changed
  <2>6. Text!LastText(old[p]) = k1
    <3>1. Text!TextPlaces(old[p]) = Text!TextPlaces(cells)
      BY <1>3, <1>4, <1>7, AwayPlaces
    <3> QED
      BY <2>1, <3>1 DEF Text!LastText
  <2> QED
    BY <1>5, <2>2, <2>5, <2>6
<1>8. old[p] = cells \/ (p - 1 >= 1 /\ Text!TextPlaces(cells) # {} /\ old[p] = Text!GivesAway(cells))
  BY <1>2, <1>4 DEF CrossOK
<1> QED
  BY <1>6, <1>7, <1>8

\* Two pages that are put together say what they said.
LEMMA CrossStep ==
  ASSUME NEW n \in Nat, NEW base \in Seq(Seq(Found)), Len(base) = n, Roomy(base, n),
         NEW old \in PagesOf(n), NEW p \in 1 .. n - 1, CrossOK(base, old, n, p - 1),
         NEW new \in PagesOf(n), PutTogether(old, new, p)
  PROVE  CrossOK(base, new, n, p)
<1>1. Found \subseteq Cells
  BY DEF Found
<1>2. p \in 1 .. n /\ p + 1 \in 1 .. n /\ p # p + 1 /\ p + 1 > (p - 1) + 1
  OBVIOUS
<1>3. PICK a, b : a = old[p] /\ b = old[p + 1]
  OBVIOUS
<1>4. a \in Seq(Cells) /\ b \in Seq(Cells) /\ Len(old) = n /\ Len(new) = n
  BY <1>2, <1>3 DEF PagesOf
<1>5. b = base[p + 1]
  BY <1>2, <1>3 DEF CrossOK
<1>6. /\ Text!TextPlaces(a) # {} /\ Text!TextPlaces(b) # {}
      /\ new[p] = Text!TakesOver(a, b) /\ new[p + 1] = Text!GivesAway(b)
      /\ \A q \in 1 .. n : q # p /\ q # p + 1 => new[q] = old[q]
  BY <1>3, <1>4 DEF PutTogether
<1>7. ~ a[Text!LastText(a)].gone
  BY <1>3, <1>6, LastIsThere
<1>8. ~ b[Text!FirstText(b)].gone
  <2>1. PICK k : k = Text!FirstText(b)
    OBVIOUS
  <2>2. k \in 1 .. Len(b)
    BY <1>4, <1>6, <2>1, TextPlacesAre
  <2>3. b \in Seq(Found)
    BY <1>2, <1>5
  <2>4. b[k] \in Found
    BY <2>2, <2>3
  <2> QED
    BY <2>1, <2>4 DEF Found
<1>9. PICK x : x = TextPart[b[Text!FirstText(b)]]
  OBVIOUS
<1>10. /\ Reading(TextPart, new[p]) = Reading(TextPart, a) \o x
       /\ Reading(OtherPart, new[p]) = Reading(OtherPart, a)
  BY <1>4, <1>6, <1>7, <1>8, <1>9, TakesOverReads
<1>11. /\ Reading(TextPart, b) = x \o Reading(TextPart, new[p + 1])
       /\ Reading(OtherPart, new[p + 1]) = Reading(OtherPart, b)
  BY <1>4, <1>6, <1>8, <1>9, GivesAwayReads
<1>12. x \in Seq(Tokens)
  <2>1. Text!FirstText(b) \in 1 .. Len(b)
    BY <1>4, <1>6, TextPlacesAre
  <2>2. b[Text!FirstText(b)] \in Cells
    BY <1>4, <2>1
  <2> QED
    BY <1>9, <2>2, PartsOfCell
<1>13. PICK ss, tt : ss = PageTexts(old) /\ tt = PageTexts(new)
  OBVIOUS
<1>14. TextsAre(ss, old, n) /\ TextsAre(tt, new, n)
  BY <1>13, PageTextsAre
<1>15. Shifted(ss, tt, p, x)
  BY <1>2, <1>3, <1>6, <1>10, <1>11, <1>14 DEF TextsAre, Shifted
<1>16. Text!FlattenSeq(tt) = Text!FlattenSeq(ss)
  <2>1. ss \in Seq(Seq(Tokens)) /\ tt \in Seq(Seq(Tokens)) /\ p \in 1 .. Len(ss) - 1
    BY <1>14 DEF TextsAre
  <2> QED
    BY <1>12, <1>15, <2>1, FlatShift
<1>17. \A q \in 1 .. n : Reading(OtherPart, new[q]) = Reading(OtherPart, base[q])
  <2>1. ASSUME NEW q \in 1 .. n PROVE Reading(OtherPart, new[q]) = Reading(OtherPart, old[q])
    <3>1. CASE q = p
      BY <1>3, <1>10, <3>1
    <3>2. CASE q = p + 1
      BY <1>3, <1>11, <3>2
    <3>3. CASE q # p /\ q # p + 1
      BY <1>6, <3>3
    <3> QED
      BY <3>1, <3>2, <3>3
  <2> QED
    BY <2>1 DEF CrossOK
<1>18. \A q \in 1 .. n : q > p + 1 => new[q] = base[q]
  <2>1. ASSUME NEW q \in 1 .. n, q > p + 1 PROVE new[q] = base[q]
    <3>1. q # p /\ q # p + 1 /\ q > (p - 1) + 1
      BY <2>1
    <3>2. new[q] = old[q] /\ old[q] = base[q]
      BY <1>6, <3>1 DEF CrossOK
    <3> QED
      BY <3>2
  <2> QED
    BY <2>1
<1>19. p >= 1 /\ Text!TextPlaces(base[p + 1]) # {} /\ new[p + 1] = Text!GivesAway(base[p + 1])
  BY <1>5, <1>6
<1>20. Text!FlattenSeq(PageTexts(new)) = Text!FlattenSeq(PageTexts(base))
  BY <1>13, <1>16 DEF CrossOK
<1> QED
  BY <1>17, <1>18, <1>19, <1>20 DEF CrossOK

\* What was put together up to any page says what was there.
LEMMA CrossKeeps ==
  ASSUME NEW n \in Nat, NEW base \in Seq(Seq(Found)), Len(base) = n, Roomy(base, n),
         NEW out, CrossesUp(out, base, n)
  PROVE  CrossOK(base, out[n], n, n)
<1>1. /\ out[0] = base
      /\ \A p \in 1 .. n : out[p] = IF p = n THEN out[p - 1] ELSE Text!CrossAt(out[p - 1], p)
      /\ \A p \in 0 .. n : out[p] \in PagesOf(n)
  BY DEF CrossesUp
<1> DEFINE T == {p \in 0 .. n : CrossOK(base, out[p], n, p)}
<1>2. T = 0 .. n
  <2>1. T \subseteq 0 .. n
    OBVIOUS
  <2>2. 0 \in T
    <3>1. CrossOK(base, base, n, 0)
      BY DEF CrossOK
    <3> QED
      BY <1>1, <3>1
  <2>3. ASSUME NEW p \in 1 .. n, p - 1 \in T PROVE p \in T
    <3>1. PICK old : old = out[p - 1]
      OBVIOUS
    <3>2. old \in PagesOf(n) /\ CrossOK(base, old, n, p - 1)
      <4>1. p - 1 \in 0 .. n
        OBVIOUS
      <4> QED
        BY <1>1, <2>3, <3>1, <4>1
    <3>3. ASSUME out[p] = old PROVE CrossOK(base, out[p], n, p)
      <4>1. \A q \in 1 .. n : q > p + 1 => old[q] = base[q]
        <5>1. \A q \in 1 .. n : q > p + 1 => q > (p - 1) + 1
          OBVIOUS
        <5> QED
          BY <3>2, <5>1 DEF CrossOK
      <4>2. p + 1 <= n => old[p + 1] = base[p + 1]
        <5>1. p + 1 <= n => p + 1 \in 1 .. n /\ p + 1 > (p - 1) + 1
          OBVIOUS
        <5> QED
          BY <3>2, <5>1 DEF CrossOK
      <4> QED
        BY <3>2, <3>3, <4>1, <4>2 DEF CrossOK
    <3>4. CASE p = n
      <4>1. out[p] = old
        BY <1>1, <3>1, <3>4
      <4>2. CrossOK(base, out[p], n, p)
        BY <3>3, <4>1
      <4> QED
        BY <4>2
    <3>5. CASE p # n
      <4>1. p \in 1 .. n - 1
        BY <3>5
      <4>2. out[p] = Text!CrossAt(old, p)
        BY <1>1, <3>1, <3>5
      <4>3. out[p] \in PagesOf(n) /\ (out[p] = old \/ PutTogether(old, out[p], p))
        BY <3>2, <4>1, <4>2, CrossAtIs
      <4>4. CrossOK(base, out[p], n, p)
        BY <3>2, <3>3, <4>1, <4>3, CrossStep
      <4> QED
        BY <4>4
    <3> QED
      BY <3>4, <3>5
  <2> HIDE DEF T
  <2> QED
    BY <2>1, <2>2, <2>3, ToTheEnd
<1>3. n \in T
  BY <1>2
<1> QED
  BY <1>3

\* The cells that stay say what the page said.
LEMMA StayingReads ==
  ASSUME NEW cells \in Seq(Cells)
  PROVE  /\ Text!Staying(cells) \in Seq(Found)
         /\ Reading(TextPart, Text!Staying(cells)) = Reading(TextPart, cells)
         /\ Reading(OtherPart, Text!Staying(cells)) = Reading(OtherPart, cells)
<1>1. PICK V, places : V = Found /\ places = {k \in DOMAIN cells : ~ cells[k].gone}
  OBVIOUS
<1>2. V \in SUBSET Cells
  BY <1>1 DEF Found
<1>3. places = {k \in DOMAIN cells : cells[k] \in V}
  <2>1. \A k \in DOMAIN cells : cells[k] \in Cells
    OBVIOUS
  <2> QED
    BY <1>1, <2>1 DEF Found
<1>4. Text!Staying(cells) = Text!Where(cells, places)
  BY <1>1 DEF Text!Staying
<1>5. IsPart(TextPart, Cells, Tokens) /\ IsPart(OtherPart, Cells, OtherCells)
  BY TextPartAddsUp, OtherPartAddsUp DEF IsPart
<1>6. /\ Text!Where(cells, places) \in Seq(V)
      /\ Reading(TextPart, Text!Where(cells, places)) = Reading(Only(TextPart, Cells, V), cells)
  BY <1>2, <1>3, <1>5, ChosenReads
<1>7. Reading(OtherPart, Text!Where(cells, places)) = Reading(Only(OtherPart, Cells, V), cells)
  <2>1. PICK part, S : part = OtherPart /\ S = OtherCells
    OBVIOUS
  <2>2. IsPart(part, Cells, S)
    BY <1>5, <2>1
  <2>3. /\ Text!Where(cells, places) \in Seq(V)
        /\ Reading(part, Text!Where(cells, places)) = Reading(Only(part, Cells, V), cells)
    BY <1>2, <1>3, <2>2, ChosenReads
  <2> QED
    BY <2>1, <2>3
<1>8. \A k \in DOMAIN cells : /\ Only(TextPart, Cells, V)[cells[k]] = TextPart[cells[k]]
                              /\ Only(OtherPart, Cells, V)[cells[k]] = OtherPart[cells[k]]
  <2>1. ASSUME NEW c \in Cells
        PROVE  Only(TextPart, Cells, V)[c] = TextPart[c] /\ Only(OtherPart, Cells, V)[c] = OtherPart[c]
    <3>1. c \notin V => TextPart[c] = <<>> /\ OtherPart[c] = <<>>
      BY <1>1, PartsOfCell DEF Found
    <3> QED
      BY <3>1 DEF Only
  <2> QED
    BY <2>1
<1>9. /\ Reading(Only(TextPart, Cells, V), cells) = Reading(TextPart, cells)
      /\ Reading(Only(OtherPart, Cells, V), cells) = Reading(OtherPart, cells)
  BY <1>8, ReadingAlike
<1> QED
  BY <1>1, <1>4, <1>6, <1>7, <1>9

\* A document that was put together.
LEMMA PostProcessedIs ==
  ASSUME NEW n \in Nat, NEW pages \in Seq(Seq(Found)), Len(pages) = n
  PROVE  /\ Text!PostProcessed(pages) \in Seq(Seq(Found)) /\ Len(Text!PostProcessed(pages)) = n
         /\ Text!Apart(pages) =>
              /\ Text!FlattenSeq(PageTexts(Text!PostProcessed(pages)))
                   = Text!FlattenSeq(PageTexts(pages))
              /\ \A p \in 1 .. n : Reading(OtherPart, Text!PostProcessed(pages)[p])
                                     = Reading(OtherPart, pages[p])
<1>1. Found \subseteq Cells /\ Seq(Found) \subseteq Seq(Cells) /\ Seq(Seq(Found)) \subseteq Seq(Seq(Cells))
  <2>1. Found \subseteq Cells
    BY DEF Found
  <2>2. Seq(Found) \subseteq Seq(Cells)
    BY <2>1, SeqMonotonic
  <2>3. Seq(Seq(Found)) \subseteq Seq(Seq(Cells))
    BY <2>2, SeqMonotonic
  <2> QED
    BY <2>1, <2>2, <2>3
<1>2. DOMAIN pages = 1 .. n /\ \A p \in 1 .. n : pages[p] \in Seq(Found)
  OBVIOUS
<1>3. PICK base : base = [p \in 1 .. n |-> Text!MergedPage(pages[p])]
  OBVIOUS
<1>4. \A p \in 1 .. n : /\ Text!MergedPage(pages[p]) \in Seq(Found)
                        /\ Reading(TextPart, Text!MergedPage(pages[p])) = Reading(TextPart, pages[p])
                        /\ Reading(OtherPart, Text!MergedPage(pages[p])) = Reading(OtherPart, pages[p])
  BY <1>2, MergedReads, TextPartAddsUp, OtherPartAddsUp
<1>5. base \in Seq(Seq(Found)) /\ Len(base) = n /\ DOMAIN base = 1 .. n
  BY <1>3, <1>4
<1>6. base \in PagesOf(n) /\ pages \in PagesOf(n)
  BY <1>1, <1>5 DEF PagesOf
<1>7. PICK row : row = Text!CrossedSoFar(base)
  OBVIOUS
<1>8. CrossesUp(row, base, n)
  BY <1>6, <1>7, CrossedSoFarIs
<1>9. PICK last : last = row[n]
  OBVIOUS
<1>10. last \in PagesOf(n) /\ \A p \in 1 .. n : last[p] \in Seq(Cells)
  <2>1. last \in PagesOf(n)
    <3>1. n \in 0 .. n
      OBVIOUS
    <3> QED
      BY <1>8, <1>9, <3>1 DEF CrossesUp
  <2> QED
    BY <2>1 DEF PagesOf
<1>11. PICK out : out = [p \in 1 .. n |-> Text!Staying(last[p])]
  OBVIOUS
<1>12. Text!PostProcessed(pages) = out
  <2>1. [p \in DOMAIN pages |-> Text!MergedPage(pages[p])] = base
    BY <1>2, <1>3
  <2> QED
    BY <1>5, <1>7, <1>9, <1>11, <2>1 DEF Text!PostProcessed, Text!CrossPages
<1>13. \A p \in 1 .. n : /\ Text!Staying(last[p]) \in Seq(Found)
                         /\ Reading(TextPart, Text!Staying(last[p])) = Reading(TextPart, last[p])
                         /\ Reading(OtherPart, Text!Staying(last[p])) = Reading(OtherPart, last[p])
  BY <1>10, StayingReads
<1>14. out \in Seq(Seq(Found)) /\ Len(out) = n /\ DOMAIN out = 1 .. n
  BY <1>11, <1>13
<1>15. ASSUME Text!Apart(pages)
       PROVE  /\ Text!FlattenSeq(PageTexts(out)) = Text!FlattenSeq(PageTexts(pages))
              /\ \A p \in 1 .. n : Reading(OtherPart, out[p]) = Reading(OtherPart, pages[p])
  <2>1. Roomy(base, n)
    <3>1. ASSUME NEW p \in 2 .. n - 1, NEW k \in DOMAIN base[p] PROVE Text!TextPlaces(base[p]) # {k}
      <4>1. p \in 1 .. n /\ p \in 2 .. Len(pages) - 1
        OBVIOUS
      <4>2. base[p] = Text!MergedPage(pages[p])
        BY <1>3, <4>1
      <4> QED
        BY <1>15, <4>1, <4>2 DEF Text!Apart
    <3> QED
      BY <3>1 DEF Roomy
  <2>2. CrossOK(base, last, n, n)
    BY <1>5, <1>8, <1>9, <2>1, CrossKeeps
  <2>3. PageTexts(base) = PageTexts(pages)
    <3>1. \A p \in 1 .. n : Reading(TextPart, base[p]) = Reading(TextPart, pages[p])
      BY <1>3, <1>4
    <3> QED
      BY <1>2, <1>5, <3>1 DEF PageTexts
  <2>4. PageTexts(out) = PageTexts(last)
    <3>1. \A p \in 1 .. n : Reading(TextPart, out[p]) = Reading(TextPart, last[p])
      BY <1>11, <1>13
    <3>2. DOMAIN last = 1 .. n
      BY <1>10 DEF PagesOf
    <3> QED
      BY <1>14, <3>1, <3>2 DEF PageTexts
  <2>5. \A p \in 1 .. n : Reading(OtherPart, out[p]) = Reading(OtherPart, pages[p])
    <3>1. \A p \in 1 .. n : Reading(OtherPart, out[p]) = Reading(OtherPart, last[p])
      BY <1>11, <1>13
    <3>2. \A p \in 1 .. n : Reading(OtherPart, base[p]) = Reading(OtherPart, pages[p])
      BY <1>3, <1>4
    <3>3. \A p \in 1 .. n : Reading(OtherPart, last[p]) = Reading(OtherPart, base[p])
      BY <2>2 DEF CrossOK
    <3> QED
      BY <3>1, <3>2, <3>3
  <2> QED
    BY <2>2, <2>3, <2>4, <2>5 DEF CrossOK
<1> QED
  BY <1>12, <1>14, <1>15

\* Documents as they are read: nothing is gone yet.
IsDocument(pages, n) == pages \in Seq(Seq(Found)) /\ Len(pages) = n

\* The text and the other cells of a page.
LEMMA PageIs ==
  ASSUME NEW cells \in Seq(Found)
  PROVE  /\ Text!WordsOf(Text!Where(cells, Text!TextPlaces(cells))) = Reading(TextPart, cells)
         /\ Text!Where(cells, DOMAIN cells \ Text!TextPlaces(cells)) = Reading(OtherPart, cells)
<1>1. Found \subseteq Cells /\ cells \in Seq(Cells) /\ \A k \in DOMAIN cells : cells[k] \in Found
  <2>1. Found \subseteq Cells
    BY DEF Found
  <2> QED
    BY <2>1, SeqMonotonic
<1>2. PICK V, places : V = TextCells /\ places = Text!TextPlaces(cells)
  OBVIOUS
<1>3. V \in SUBSET Cells /\ places = {k \in DOMAIN cells : cells[k] \in V}
  <2>1. \A k \in DOMAIN cells : cells[k] \in V <=> Text!IsText(cells[k])
    BY <1>1, <1>2 DEF TextCells, Found
  <2> QED
    BY <1>2, <2>1 DEF TextCells, Text!TextPlaces
<1>4. /\ Text!Where(cells, places) \in Seq(V)
      /\ Reading(CellWords, Text!Where(cells, places)) = Reading(Only(CellWords, Cells, V), cells)
  <2>1. IsPart(CellWords, Cells, Tokens)
    BY CellWordsIsPart DEF IsPart
  <2> QED
    BY <1>1, <1>3, <2>1, ChosenReads
<1>5. Text!WordsOf(Text!Where(cells, places)) = Reading(CellWords, Text!Where(cells, places))
  <2>1. Text!Where(cells, places) \in Seq(Cells)
    BY <1>3, <1>4, SeqMonotonic
  <2> QED
    BY <2>1, WordsOfAre
<1>6. PICK W, rest : W = OtherCells /\ rest = DOMAIN cells \ Text!TextPlaces(cells)
  OBVIOUS
<1>7. W \in SUBSET Cells /\ rest = {k \in DOMAIN cells : cells[k] \in W}
  <2>1. \A k \in DOMAIN cells : cells[k] \in W <=> ~ Text!IsText(cells[k])
    BY <1>1, <1>6 DEF OtherCells, Found
  <2> QED
    BY <1>6, <2>1 DEF OtherCells, Text!TextPlaces
<1>8. Text!Where(cells, rest) = Reading(Picks(Cells, W), cells)
  BY <1>1, <1>7, WhereIsReading
<1> QED
  BY <1>2, <1>4, <1>5, <1>6, <1>8 DEF TextPart, OtherPart

\* The text and the other cells of a document.
LEMMA TextsAndOthersAre ==
  ASSUME NEW n \in Nat, NEW pages, IsDocument(pages, n)
  PROVE  /\ Text!Texts(pages) = Text!FlattenSeq(PageTexts(pages))
         /\ Text!Others(pages) = [p \in 1 .. n |-> Reading(OtherPart, pages[p])]
<1>1. DOMAIN pages = 1 .. n /\ \A p \in 1 .. n : pages[p] \in Seq(Found)
  BY DEF IsDocument
<1>2. \A p \in 1 .. n :
        /\ Text!WordsOf(Text!Where(pages[p], Text!TextPlaces(pages[p]))) = Reading(TextPart, pages[p])
        /\ Text!Where(pages[p], DOMAIN pages[p] \ Text!TextPlaces(pages[p]))
             = Reading(OtherPart, pages[p])
  BY <1>1, PageIs
<1>3. [p \in DOMAIN pages |-> Text!WordsOf(Text!Where(pages[p], Text!TextPlaces(pages[p])))]
        = PageTexts(pages)
  BY <1>1, <1>2 DEF PageTexts
<1> QED
  BY <1>1, <1>2, <1>3 DEF Text!Texts, Text!Others

\* A document whose pages with one block of text stand at its ends is put together
\* faithfully.
LEMMA IsFaithful ==
  ASSUME NEW n \in Nat, NEW pages, IsDocument(pages, n), Text!Apart(pages)
  PROVE  Text!Faithful(pages)
<1>1. PICK out : out = Text!PostProcessed(pages)
  OBVIOUS
<1>2. /\ IsDocument(out, n) /\ Text!FlattenSeq(PageTexts(out)) = Text!FlattenSeq(PageTexts(pages))
      /\ \A p \in 1 .. n : Reading(OtherPart, out[p]) = Reading(OtherPart, pages[p])
  BY <1>1, PostProcessedIs DEF IsDocument
<1>3. /\ Text!Texts(out) = Text!FlattenSeq(PageTexts(out))
      /\ Text!Others(out) = [p \in 1 .. n |-> Reading(OtherPart, out[p])]
      /\ Text!Texts(pages) = Text!FlattenSeq(PageTexts(pages))
      /\ Text!Others(pages) = [p \in 1 .. n |-> Reading(OtherPart, pages[p])]
  BY <1>2, TextsAndOthersAre
<1>4. Text!Others(out) = Text!Others(pages)
  BY <1>2, <1>3
<1> QED
  BY <1>1, <1>2, <1>3, <1>4 DEF Text!Faithful

\* Each page of a document is written whole.
LEMMA IsWrittenWhole ==
  ASSUME NEW n \in Nat, NEW pages, IsDocument(pages, n), NEW options
  PROVE  Text!WrittenWhole(pages, options)
<1>1. PICK out : out = Text!PostProcessed(pages)
  OBVIOUS
<1>2. out \in Seq(Seq(Found))
  BY <1>1, PostProcessedIs DEF IsDocument
<1>3. \A p \in DOMAIN out : out[p] \in Seq(Found)
  BY <1>2
<1>4. \A p \in DOMAIN out :
        Text!WordsOf(Text!Rendered(out[p], options)) = Text!WordsOf(Text!Shown(out[p], options))
  BY <1>3, PageIsWritten
<1> QED
  BY <1>1, <1>4 DEF Text!WrittenWhole

-----------------------------------------------------------------------------
(* Which words the Markdown of a document has.                             *)

\* A cell of a page says a word and is shown; a block of text is always shown.
SaidBy(cells, options, x) ==
  \E k \in DOMAIN cells : /\ Text!IsShown(cells[k], options)
                          /\ x \in Text!ToSet(Text!Words(cells[k].text))
SaidByOther(cells, options, x) ==
  \E c \in Text!ToSet(Reading(OtherPart, cells)) :
    Text!IsShown(c, options) /\ x \in Text!ToSet(Text!Words(c.text))

\* The words that are shown of a page are those of its cells.
LEMMA ShownWordsAre ==
  ASSUME NEW cells \in Seq(Found), NEW options, NEW x
  PROVE  x \in Text!ToSet(Reading(ShownPart(options), cells)) <=> SaidBy(cells, options, x)
<1>1. Found \subseteq Cells /\ cells \in Seq(Cells) /\ DOMAIN cells = 1 .. Len(cells)
  <2>1. Found \subseteq Cells
    BY DEF Found
  <2> QED
    BY <2>1, SeqMonotonic
<1>2. PICK part : part = ShownPart(options)
  OBVIOUS
<1>3. part \in [Cells -> Seq(Tokens)]
  BY <1>2, ShownPartAddsUp
<1>4. x \in Text!ToSet(Reading(part, cells))
        <=> \E k \in 1 .. Len(cells) : x \in Text!ToSet(part[cells[k]])
  BY <1>1, <1>3, ReadingSet
<1>5. ASSUME NEW k \in 1 .. Len(cells)
      PROVE  x \in Text!ToSet(part[cells[k]]) <=>
               Text!IsShown(cells[k], options) /\ x \in Text!ToSet(Text!Words(cells[k].text))
  <2>1. PICK c : c = cells[k]
    OBVIOUS
  <2>2. c \in Found /\ c \in Cells
    BY <1>1, <2>1
  <2>3. part[c] = IF c \in ShownCells(options) THEN CellWords[c] ELSE <<>>
    BY <1>2, <2>2 DEF ShownPart, Only
  <2>4. c \in ShownCells(options) <=> Text!IsShown(c, options)
    BY <2>2 DEF ShownCells, Found
  <2>5. CellWords[c] = Text!Words(c.text)
    BY <2>2 DEF CellWords
  <2>6. Text!ToSet(<<>>) = {}
    BY DEF Text!ToSet
  <2> QED
    BY <2>1, <2>3, <2>4, <2>5, <2>6
<1> QED
  BY <1>1, <1>2, <1>4, <1>5 DEF SaidBy

\* They are those of its text and of its other cells.
LEMMA SaidByEither ==
  ASSUME NEW cells \in Seq(Found), NEW options, NEW x
  PROVE  SaidBy(cells, options, x)
           <=> x \in Text!ToSet(Reading(TextPart, cells)) \/ SaidByOther(cells, options, x)
<1>1. Found \subseteq Cells /\ cells \in Seq(Cells) /\ DOMAIN cells = 1 .. Len(cells)
  <2>1. Found \subseteq Cells
    BY DEF Found
  <2> QED
    BY <2>1, SeqMonotonic
<1>2. x \in Text!ToSet(Reading(TextPart, cells))
        <=> \E k \in 1 .. Len(cells) : x \in Text!ToSet(TextPart[cells[k]])
  BY <1>1, TextPartAddsUp, ReadingSet
<1>3. \A c : c \in Text!ToSet(Reading(OtherPart, cells))
               <=> \E k \in 1 .. Len(cells) : c \in Text!ToSet(OtherPart[cells[k]])
  BY <1>1, OtherPartAddsUp, ReadingSet
<1>4. \A c : Text!ToSet(<<c>>) = {c}
  BY DEF Text!ToSet
<1>5. Text!ToSet(<<>>) = {}
  BY DEF Text!ToSet
<1>6. ASSUME NEW k \in 1 .. Len(cells)
      PROVE  /\ x \in Text!ToSet(TextPart[cells[k]])
                  <=> Text!IsText(cells[k]) /\ x \in Text!ToSet(Text!Words(cells[k].text))
             /\ Text!ToSet(OtherPart[cells[k]]) = IF Text!IsText(cells[k]) THEN {} ELSE {cells[k]}
             /\ Text!IsText(cells[k]) => Text!IsShown(cells[k], options)
  <2>1. PICK c : c = cells[k]
    OBVIOUS
  <2>2. c \in Found /\ c \in Cells
    BY <1>1, <2>1
  <2>3. /\ TextPart[c] = IF c \in TextCells THEN CellWords[c] ELSE <<>>
        /\ CellWords[c] = Text!Words(c.text)
    BY <2>2 DEF TextPart, Only, CellWords
  <2>4. OtherPart[c] = IF c \in OtherCells THEN <<c>> ELSE <<>>
    BY <2>2 DEF OtherPart, Picks
  <2>5. (c \in TextCells <=> Text!IsText(c)) /\ (c \in OtherCells <=> ~ Text!IsText(c))
    BY <2>2 DEF TextCells, OtherCells, Found
  <2>6. Text!IsText(c) => Text!IsShown(c, options)
    BY DEF Text!IsText, Text!IsShown
  <2>7. x \in Text!ToSet(TextPart[c]) <=> Text!IsText(c) /\ x \in Text!ToSet(Text!Words(c.text))
    BY <1>5, <2>3, <2>5
  <2>8. Text!ToSet(OtherPart[c]) = IF Text!IsText(c) THEN {} ELSE {c}
    BY <1>4, <1>5, <2>4, <2>5
  <2> QED
    BY <2>1, <2>6, <2>7, <2>8
<1>7. ASSUME SaidBy(cells, options, x)
      PROVE  x \in Text!ToSet(Reading(TextPart, cells)) \/ SaidByOther(cells, options, x)
  <2>1. PICK k \in 1 .. Len(cells) : /\ Text!IsShown(cells[k], options)
                                     /\ x \in Text!ToSet(Text!Words(cells[k].text))
    BY <1>1, <1>7 DEF SaidBy
  <2>2. CASE Text!IsText(cells[k])
    BY <1>2, <1>6, <2>1, <2>2
  <2>3. CASE ~ Text!IsText(cells[k])
    <3>1. cells[k] \in Text!ToSet(OtherPart[cells[k]])
      BY <1>6, <2>3
    <3>2. cells[k] \in Text!ToSet(Reading(OtherPart, cells))
      BY <1>3, <3>1
    <3> QED
      BY <2>1, <3>2 DEF SaidByOther
  <2> QED
    BY <2>2, <2>3
<1>8. ASSUME x \in Text!ToSet(Reading(TextPart, cells)) PROVE SaidBy(cells, options, x)
  <2>1. PICK k \in 1 .. Len(cells) : x \in Text!ToSet(TextPart[cells[k]])
    BY <1>2, <1>8
  <2> QED
    BY <1>1, <1>6, <2>1 DEF SaidBy
<1>9. ASSUME SaidByOther(cells, options, x) PROVE SaidBy(cells, options, x)
  <2>1. PICK c \in Text!ToSet(Reading(OtherPart, cells)) :
          Text!IsShown(c, options) /\ x \in Text!ToSet(Text!Words(c.text))
    BY <1>9 DEF SaidByOther
  <2>2. PICK k \in 1 .. Len(cells) : c \in Text!ToSet(OtherPart[cells[k]])
    BY <1>3, <2>1
  <2>3. c = cells[k]
    BY <1>6, <2>2
  <2> QED
    BY <1>1, <2>1, <2>3 DEF SaidBy
<1> QED
  BY <1>7, <1>8, <1>9

\* A page of a document says a word.
SaidIn(pages, options, x) == \E p \in DOMAIN pages : SaidBy(pages[p], options, x)

\* The Markdown of a document has the words its cells say.
LEMMA MarkdownSays ==
  ASSUME NEW n \in Nat, NEW pages, IsDocument(pages, n), Text!Apart(pages), NEW options, NEW x
  PROVE  x \in Text!ToSet(Text!Markdown(pages, options)) <=> SaidIn(pages, options, x)
<1>1. PICK out : out = Text!PostProcessed(pages)
  OBVIOUS
<1>2. /\ IsDocument(out, n) /\ Text!FlattenSeq(PageTexts(out)) = Text!FlattenSeq(PageTexts(pages))
      /\ \A p \in 1 .. n : Reading(OtherPart, out[p]) = Reading(OtherPart, pages[p])
  BY <1>1, PostProcessedIs DEF IsDocument
<1>3. /\ DOMAIN out = 1 .. n /\ \A p \in 1 .. n : out[p] \in Seq(Found)
      /\ DOMAIN pages = 1 .. n /\ \A p \in 1 .. n : pages[p] \in Seq(Found)
  BY <1>2 DEF IsDocument
<1>4. /\ TextsAre(PageTexts(out), out, n) /\ TextsAre(PageTexts(pages), pages, n)
  <2>1. Found \subseteq Cells
    BY DEF Found
  <2>2. Seq(Found) \subseteq Seq(Cells)
    BY <2>1, SeqMonotonic
  <2>3. Seq(Seq(Found)) \subseteq Seq(Seq(Cells))
    BY <2>2, SeqMonotonic
  <2>4. out \in PagesOf(n) /\ pages \in PagesOf(n)
    BY <1>2, <2>3 DEF IsDocument, PagesOf
  <2> QED
    BY <2>4, PageTextsAre
<1>5. PICK mm : mm = [p \in 1 .. n |-> Text!WordsOf(Text!Rendered(out[p], options))]
  OBVIOUS
<1>6. /\ mm \in Seq(Seq(Tokens)) /\ Len(mm) = n
      /\ \A p \in 1 .. n : mm[p] = Reading(ShownPart(options), out[p])
  <2>1. ASSUME NEW p \in 1 .. n
        PROVE  /\ Text!WordsOf(Text!Rendered(out[p], options)) = Reading(ShownPart(options), out[p])
               /\ Reading(ShownPart(options), out[p]) \in Seq(Tokens)
    <3>1. PICK cells : cells = out[p]
      OBVIOUS
    <3>2. cells \in Seq(Found)
      BY <1>3, <3>1
    <3>3. cells \in Seq(Cells)
      <4>1. Found \subseteq Cells
        BY DEF Found
      <4> QED
        BY <3>2, <4>1, SeqMonotonic
    <3>4. Text!WordsOf(Text!Rendered(cells, options)) = Reading(ShownPart(options), cells)
      BY <3>2, PageIsWritten
    <3>5. Reading(ShownPart(options), cells) \in Seq(Tokens)
      BY <3>3, ShownPartAddsUp, ReadingIsSeq
    <3> QED
      BY <3>1, <3>4, <3>5
  <2> QED
    BY <1>5, <2>1
<1>7. Text!Markdown(pages, options) = Text!FlattenSeq(mm)
  BY <1>1, <1>3, <1>5 DEF Text!Markdown
<1>8. x \in Text!ToSet(Text!FlattenSeq(mm)) <=> \E p \in 1 .. n : x \in Text!ToSet(mm[p])
  BY <1>6, FlatSet
<1>9. \A p \in 1 .. n : x \in Text!ToSet(mm[p])
                          <=> \/ x \in Text!ToSet(Reading(TextPart, out[p]))
                              \/ SaidByOther(out[p], options, x)
  <2>1. ASSUME NEW p \in 1 .. n
        PROVE  x \in Text!ToSet(mm[p]) <=> \/ x \in Text!ToSet(Reading(TextPart, out[p]))
                                           \/ SaidByOther(out[p], options, x)
    <3>1. PICK cells : cells = out[p]
      OBVIOUS
    <3>2. cells \in Seq(Found)
      BY <1>3, <3>1
    <3>3. x \in Text!ToSet(Reading(ShownPart(options), cells)) <=> SaidBy(cells, options, x)
      BY <3>2, ShownWordsAre
    <3>4. SaidBy(cells, options, x) <=> \/ x \in Text!ToSet(Reading(TextPart, cells))
                                        \/ SaidByOther(cells, options, x)
      BY <3>2, SaidByEither
    <3>5. mm[p] = Reading(ShownPart(options), cells)
      BY <1>6, <3>1
    <3> QED
      BY <3>1, <3>3, <3>4, <3>5
  <2> QED
    BY <2>1
<1>10. \A p \in 1 .. n : SaidBy(pages[p], options, x)
                           <=> \/ x \in Text!ToSet(Reading(TextPart, pages[p]))
                               \/ SaidByOther(pages[p], options, x)
  BY <1>3, SaidByEither
<1>11. \A p \in 1 .. n : SaidByOther(out[p], options, x) <=> SaidByOther(pages[p], options, x)
  BY <1>2 DEF SaidByOther
<1>12. (\E p \in 1 .. n : x \in Text!ToSet(Reading(TextPart, out[p])))
         <=> \E p \in 1 .. n : x \in Text!ToSet(Reading(TextPart, pages[p]))
  <2>1. PICK ss, tt : ss = PageTexts(out) /\ tt = PageTexts(pages)
    OBVIOUS
  <2>2. /\ ss \in Seq(Seq(Tokens)) /\ Len(ss) = n
        /\ \A p \in 1 .. n : ss[p] = Reading(TextPart, out[p])
    BY <1>4, <2>1 DEF TextsAre
  <2>3. /\ tt \in Seq(Seq(Tokens)) /\ Len(tt) = n
        /\ \A p \in 1 .. n : tt[p] = Reading(TextPart, pages[p])
    BY <1>4, <2>1 DEF TextsAre
  <2>4. x \in Text!ToSet(Text!FlattenSeq(ss)) <=> \E p \in 1 .. n : x \in Text!ToSet(ss[p])
    BY <2>2, FlatSet
  <2>5. x \in Text!ToSet(Text!FlattenSeq(tt)) <=> \E p \in 1 .. n : x \in Text!ToSet(tt[p])
    BY <2>3, FlatSet
  <2>6. Text!FlattenSeq(ss) = Text!FlattenSeq(tt)
    BY <1>2, <2>1
  <2> QED
    BY <2>2, <2>3, <2>4, <2>5, <2>6
<1>13. (\E p \in 1 .. n : x \in Text!ToSet(mm[p]))
         <=> \E p \in 1 .. n : SaidBy(pages[p], options, x)
  BY <1>9, <1>10, <1>11, <1>12
<1> QED
  BY <1>3, <1>7, <1>8, <1>13 DEF SaidIn

-----------------------------------------------------------------------------
(* What is taken of a page.                                                *)

\* Cells that are chosen are cells of the page.
ComeFrom(new, old) == new \in Seq(Found) /\ \A k \in DOMAIN new : \E i \in DOMAIN old : new[k] = old[i]

\* What is chosen of a page comes from it.
LEMMA WhereComesFrom ==
  ASSUME NEW cells \in Seq(Found), NEW places
  PROVE  ComeFrom(Text!Where(cells, places), cells)
<1>1. PICK n \in Nat : n = Len(cells)
  OBVIOUS
<1>2. DOMAIN cells = 1 .. n /\ \A k \in 1 .. n : cells[k] \in Found
  BY <1>1
<1>3. PICK ss : ss = [k \in 1 .. n |-> IF k \in places THEN <<cells[k]>> ELSE <<>>]
  OBVIOUS
<1>4. /\ ss \in Seq(Seq(Found)) /\ Len(ss) = n
      /\ \A k \in 1 .. n : ss[k] = <<cells[k]>> \/ ss[k] = <<>>
  <2>1. \A c \in Found : <<c>> \in Seq(Found)
    OBVIOUS
  <2>2. <<>> \in Seq(Found)
    OBVIOUS
  <2>3. \A k \in 1 .. n : (IF k \in places THEN <<cells[k]>> ELSE <<>>) \in Seq(Found)
    BY <1>2, <2>1, <2>2
  <2> QED
    BY <1>3, <2>3
<1>5. PICK w : w = Text!Where(cells, places)
  OBVIOUS
<1>6. w = Text!FlattenSeq(ss)
  BY <1>2, <1>3, <1>5 DEF Text!Where
<1>7. w \in Seq(Found)
  BY <1>4, <1>6, FlatIsSeq
<1>8. ASSUME NEW k \in DOMAIN w PROVE \E i \in DOMAIN cells : w[k] = cells[i]
  <2>1. PICK c : c = w[k]
    OBVIOUS
  <2>2. c \in Text!ToSet(w)
    BY <2>1 DEF Text!ToSet
  <2>3. PICK i \in 1 .. n : c \in Text!ToSet(ss[i])
    BY <1>4, <1>6, <2>2, FlatSet
  <2>4. Text!ToSet(<<>>) = {} /\ Text!ToSet(<<cells[i]>>) = {cells[i]}
    BY DEF Text!ToSet
  <2>5. c = cells[i]
    BY <1>4, <2>3, <2>4
  <2> QED
    BY <1>2, <2>1, <2>5
<1> QED
  BY <1>5, <1>7, <1>8 DEF ComeFrom

\* A heading that is marked says what it said.
MarkedFrom(new, old) ==
  /\ new \in Seq(Found) /\ Len(new) = Len(old)
  /\ \A k \in 1 .. Len(old) : /\ new[k].category = old[k].category
                              /\ Text!Words(new[k].text) = Text!Words(old[k].text)

\* Headings that are marked (ensure_section_headers_have_markers) say what they said.
LEMMA MarkedIs ==
  ASSUME NEW cells \in Seq(Found) PROVE MarkedFrom(Text!Marked(cells), cells)
<1>1. PICK n \in Nat : n = Len(cells)
  OBVIOUS
<1>2. DOMAIN cells = 1 .. n /\ \A k \in 1 .. n : cells[k] \in Found
  BY <1>1
<1> DEFINE Mark(c) == IF c.category = "Section-header" /\ ~ Text!Begins(c.text, {"mark"})
                      THEN [c EXCEPT !.text = <<Text!Sharp>> \o @] ELSE c
<1>3. ASSUME NEW c \in Found
      PROVE  /\ Mark(c) \in Found /\ Mark(c).category = c.category
             /\ Text!Words(Mark(c).text) = Text!Words(c.text)
  <2>1. CASE Mark(c) = c
    BY <2>1
  <2>2. CASE Mark(c) = [c EXCEPT !.text = <<Text!Sharp>> \o @]
    <3>1. PICK t, m, j : t = c.text /\ m = <<Text!Sharp>> /\ j = m \o t
      OBVIOUS
    <3>2. Text!Sharp \in Tokens /\ Text!Sharp.at = <<>>
      <4>1. <<>> \in Seq(Nat)
        OBVIOUS
      <4>2. Text!Sharp \in [at : Seq(Nat), as : Kinds]
        BY <4>1 DEF Text!Sharp, Kinds
      <4>3. Text!Sharp.at = <<>>
        BY DEF Text!Sharp
      <4> QED
        BY <4>2, <4>3 DEF Tokens
    <3>3. m \in Seq(Tokens) /\ Text!Words(m) = <<>>
      BY <3>1, <3>2, MarksSayNothing
    <3>4. t \in Seq(Tokens) /\ Text!Words(t) \in Seq(Tokens)
      <4>1. t \in Seq(Tokens)
        BY <3>1 DEF Found, Cells
      <4> QED
        BY <4>1, WordsAre
    <3>5. j \in Seq(Tokens)
      BY <3>1, <3>3, <3>4
    <3>6. AddWords(m, t)
      BY <3>3, <3>4, WordsAdd
    <3>7. Text!Words(j) = Text!Words(t)
      <4>1. Text!Words(j) = <<>> \o Text!Words(t)
        BY <3>1, <3>3, <3>6 DEF AddWords
      <4> QED
        BY <3>4, <4>1
    <3>8. PICK new : new = [c EXCEPT !.text = j]
      OBVIOUS
    <3>9. new \in Found /\ new.category = c.category /\ new.text = j
      BY <3>5, <3>8 DEF Found, Cells
    <3>10. Mark(c) = new
      BY <2>2, <3>1, <3>8
    <3> QED
      BY <3>1, <3>7, <3>9, <3>10
  <2>3. Mark(c) = c \/ Mark(c) = [c EXCEPT !.text = <<Text!Sharp>> \o @]
    OBVIOUS
  <2> QED
    BY <2>1, <2>2, <2>3
<1>4. Text!Marked(cells) = [k \in 1 .. n |-> Mark(cells[k])]
  BY <1>2 DEF Text!Marked
<1> HIDE DEF Mark
<1>5. PICK new : new = [k \in 1 .. n |-> Mark(cells[k])]
  OBVIOUS
<1>6. \A k \in 1 .. n : /\ new[k] = Mark(cells[k]) /\ new[k] \in Found
                        /\ new[k].category = cells[k].category
                        /\ Text!Words(new[k].text) = Text!Words(cells[k].text)
  BY <1>2, <1>3, <1>5
<1>7. new \in Seq(Found) /\ Len(new) = n
  BY <1>5, <1>6
<1> QED
  BY <1>1, <1>4, <1>5, <1>6, <1>7 DEF MarkedFrom

\* Cells of a page that are taken in its place, and what they say.
Takes(new, old) ==
  /\ new \in Seq(Found)
  /\ \A k \in DOMAIN new : \E i \in DOMAIN old :
       /\ new[k].category = old[i].category
       /\ Text!Words(new[k].text) = Text!Words(old[i].text)

\* What is taken of a page says nothing the page does not say.
LEMMA TakesSaysLess ==
  ASSUME NEW new, NEW old, Takes(new, old), NEW options, NEW x, SaidBy(new, options, x)
  PROVE  SaidBy(old, options, x)
<1>1. PICK k \in DOMAIN new : /\ Text!IsShown(new[k], options)
                              /\ x \in Text!ToSet(Text!Words(new[k].text))
  BY DEF SaidBy
<1>2. PICK i \in DOMAIN old : /\ new[k].category = old[i].category
                              /\ Text!Words(new[k].text) = Text!Words(old[i].text)
  BY DEF Takes
<1>3. Text!IsShown(old[i], options)
  BY <1>1, <1>2 DEF Text!IsShown
<1>4. x \in Text!ToSet(Text!Words(old[i].text))
  BY <1>1, <1>2
<1> QED
  BY <1>3, <1>4 DEF SaidBy

\* The first page, trimmed, filtered and marked, is taken from the page.
LEMMA TakenIs ==
  ASSUME NEW d, NEW p, d.pages[p] \in Seq(Found)
  PROVE  Takes(Text!Taken(d, p), d.pages[p])
<1>1. PICK page : page = d.pages[p] /\ page \in Seq(Found)
  OBVIOUS
<1>2. PICK trimmed : trimmed = IF d.options.trim /\ p = 1 THEN Text!Trimmed(page) ELSE page
  OBVIOUS
<1>3. ComeFrom(trimmed, page)
  <2>1. CASE trimmed = page
    BY <1>1, <2>1 DEF ComeFrom
  <2>2. CASE trimmed = Text!Trimmed(page)
    <3>1. PICK places : Text!Trimmed(page) = Text!Where(page, places)
      BY DEF Text!Trimmed
    <3> QED
      BY <1>1, <2>2, <3>1, WhereComesFrom
  <2> QED
    BY <1>2, <2>1, <2>2
<1>4. PICK rest : rest = IF d.options.keywords THEN Text!Filtered(trimmed) ELSE trimmed
  OBVIOUS
<1>5. trimmed \in Seq(Found)
  BY <1>3 DEF ComeFrom
<1>6. ComeFrom(rest, trimmed)
  <2>1. CASE rest = trimmed
    BY <1>5, <2>1 DEF ComeFrom
  <2>2. CASE rest = Text!Filtered(trimmed)
    <3>1. PICK places : Text!Filtered(trimmed) = Text!Where(trimmed, places)
      BY DEF Text!Filtered
    <3> QED
      BY <1>5, <2>2, <3>1, WhereComesFrom
  <2> QED
    BY <1>4, <2>1, <2>2
<1>7. rest \in Seq(Found)
  BY <1>6 DEF ComeFrom
<1>8. PICK new : new = Text!Marked(rest)
  OBVIOUS
<1>9. MarkedFrom(new, rest)
  BY <1>7, <1>8, MarkedIs
<1>10. Text!Taken(d, p) = new
  BY <1>1, <1>2, <1>4, <1>8 DEF Text!Taken
<1>11. ASSUME NEW k \in DOMAIN new
       PROVE  \E i \in DOMAIN page : /\ new[k].category = page[i].category
                                     /\ Text!Words(new[k].text) = Text!Words(page[i].text)
  <2>1. new \in Seq(Found) /\ Len(new) = Len(rest)
    BY <1>9 DEF MarkedFrom
  <2>2. k \in 1 .. Len(rest) /\ k \in DOMAIN rest
    BY <1>7, <2>1
  <2>3. PICK j \in DOMAIN trimmed : rest[k] = trimmed[j]
    BY <1>6, <2>2 DEF ComeFrom
  <2>4. PICK i \in DOMAIN page : trimmed[j] = page[i]
    BY <1>3 DEF ComeFrom
  <2>5. new[k].category = rest[k].category /\ Text!Words(new[k].text) = Text!Words(rest[k].text)
    BY <1>9, <2>2 DEF MarkedFrom
  <2> QED
    BY <2>3, <2>4, <2>5
<1>12. new \in Seq(Found)
  BY <1>9 DEF MarkedFrom
<1> QED
  BY <1>1, <1>10, <1>11, <1>12 DEF Takes

\* What is kept of a document is a document that says nothing the document does not say.
LEMMA KeptIs ==
  ASSUME NEW d, NEW n \in Nat, IsDocument(d.pages, n)
  PROVE  /\ IsDocument(Text!Kept(d), n)
         /\ \A options, x : SaidIn(Text!Kept(d), options, x) => SaidIn(d.pages, options, x)
<1>1. DOMAIN d.pages = 1 .. n /\ \A p \in 1 .. n : d.pages[p] \in Seq(Found)
  BY DEF IsDocument
<1>2. \A p \in 1 .. n : Takes(Text!Taken(d, p), d.pages[p])
  BY <1>1, TakenIs
<1>3. PICK kept : kept = [p \in 1 .. n |-> Text!Taken(d, p)]
  OBVIOUS
<1>4. Text!Kept(d) = kept
  BY <1>1, <1>3 DEF Text!Kept
<1>5. \A p \in 1 .. n : kept[p] \in Seq(Found) /\ Takes(kept[p], d.pages[p])
  <2>1. \A p \in 1 .. n : kept[p] = Text!Taken(d, p)
    BY <1>3
  <2>2. \A p \in 1 .. n : Takes(kept[p], d.pages[p])
    BY <1>2, <2>1
  <2>3. \A new, old : Takes(new, old) => new \in Seq(Found)
    BY DEF Takes
  <2> QED
    BY <2>2, <2>3
<1>6. kept \in Seq(Seq(Found)) /\ Len(kept) = n /\ DOMAIN kept = 1 .. n
  BY <1>3, <1>5
<1>7. ASSUME NEW options, NEW x, SaidIn(kept, options, x)
      PROVE  SaidIn(d.pages, options, x)
  <2>1. PICK p \in 1 .. n : SaidBy(kept[p], options, x)
    BY <1>6, <1>7 DEF SaidIn
  <2>2. SaidBy(d.pages[p], options, x)
    BY <1>5, <2>1, TakesSaysLess
  <2> QED
    BY <1>1, <2>2 DEF SaidIn
<1> QED
  BY <1>4, <1>6, <1>7 DEF IsDocument

\* The text of every document is kept, filtered and as it was read.
THEOREM TextIsAlwaysKept ==
  ASSUME NEW d, NEW n \in Nat, IsDocument(d.pages, n)
  PROVE  Text!TextIsKept(d)
<1>1. PICK kept, read : kept = Text!Kept(d) /\ read = Text!Originals(d) /\ read = d.pages
  BY DEF Text!Originals
<1>2. IsDocument(kept, n) /\ IsDocument(read, n)
  BY <1>1, KeptIs
<1>3. \A pages \in {kept, read} :
        Text!WrittenWhole(pages, d.options) /\ (Text!Apart(pages) => Text!Faithful(pages))
  BY <1>2, IsWrittenWhole, IsFaithful
<1>4. ASSUME Text!Apart(kept), Text!Apart(read) PROVE Text!FilteredIsPart(d)
  <2>1. PICK mine, all : /\ mine = Text!Markdown(kept, d.options)
                         /\ all = Text!Markdown(read, d.options)
    OBVIOUS
  <2>2. ASSUME NEW x, x \in Text!ToSet(mine) PROVE x \in Text!ToSet(all)
    <3>1. SaidIn(kept, d.options, x)
      BY <1>2, <1>4, <2>1, <2>2, MarkdownSays
    <3>2. SaidIn(read, d.options, x)
      BY <1>1, <3>1, KeptIs
    <3> QED
      BY <1>2, <1>4, <2>1, <3>2, MarkdownSays
  <2> QED
    BY <1>1, <2>1, <2>2 DEF Text!FilteredIsPart
<1> QED
  BY <1>1, <1>3, <1>4 DEF Text!TextIsKept

-----------------------------------------------------------------------------
(* The texts that are checked.                                             *)

\* A block with a category and words, a page of blocks, pages, a word at its place.
IsShape(s) == /\ s.category \in Categories
              /\ \E m \in Nat : s.kinds \in [1 .. m -> Kinds \ {"space"}]
IsSheet(sheet) == \E m \in Nat : DOMAIN sheet = 1 .. m /\ \A k \in 1 .. m : IsShape(sheet[k])
AreSheets(sheets, n) == DOMAIN sheets = 1 .. n /\ \A p \in 1 .. n : IsSheet(sheets[p])
Word(p, k, i, kind) == IF kind = "hyphen" THEN Text!Hyphen ELSE [at |-> <<p, k, i>>, as |-> kind]

\* A word of a text that is checked is a word.
LEMMA WordIsToken ==
  ASSUME NEW p \in Nat, NEW k \in Nat, NEW i \in Nat, NEW kind \in Kinds \ {"space"}
  PROVE  Word(p, k, i, kind) \in Tokens
<1>1. <<>> \in Seq(Nat) /\ <<p, k, i>> \in Seq(Nat)
  OBVIOUS
<1>2. "hyphen" \in Kinds /\ kind \in Kinds
  BY DEF Kinds
<1>3. Text!Hyphen \in Tokens
  BY <1>1, <1>2 DEF Text!Hyphen, Tokens
<1>4. ASSUME kind # "hyphen" PROVE [at |-> <<p, k, i>>, as |-> kind] \in Tokens
  BY <1>1, <1>2, <1>4 DEF Tokens
<1> QED
  BY <1>3, <1>4 DEF Word

\* Sheets that are filled with words are a document.
LEMMA FilledIs ==
  ASSUME NEW n \in Nat, NEW sheets, AreSheets(sheets, n)
  PROVE  IsDocument(Filled(sheets), n)
<1>1. DOMAIN sheets = 1 .. n
  BY DEF AreSheets
<1> DEFINE Cell(p, k) ==
      [category |-> sheets[p][k].category, gone |-> FALSE,
       text |-> [i \in DOMAIN sheets[p][k].kinds |-> Word(p, k, i, sheets[p][k].kinds[i])]]
<1>2. ASSUME NEW p \in Nat, NEW k \in Nat, IsShape(sheets[p][k]) PROVE Cell(p, k) \in Found
  <2>1. PICK s : s = sheets[p][k]
    OBVIOUS
  <2>2. PICK m \in Nat : s.kinds \in [1 .. m -> Kinds \ {"space"}]
    BY <1>2, <2>1 DEF IsShape
  <2>3. PICK t : t = [i \in 1 .. m |-> Word(p, k, i, s.kinds[i])]
    OBVIOUS
  <2>4. \A i \in 1 .. m : t[i] \in Tokens
    <3>1. ASSUME NEW i \in 1 .. m PROVE t[i] \in Tokens
      <4>1. s.kinds[i] \in Kinds \ {"space"} /\ i \in Nat
        BY <2>2
      <4> QED
        BY <1>2, <2>3, <4>1, WordIsToken
    <3> QED
      BY <3>1
  <2>5. t \in Seq(Tokens)
    BY <2>2, <2>3, <2>4
  <2>6. s.category \in Categories
    BY <1>2, <2>1 DEF IsShape
  <2>7. PICK c : c = [category |-> s.category, gone |-> FALSE, text |-> t]
    OBVIOUS
  <2>8. c \in Found
    BY <2>5, <2>6, <2>7 DEF Found, Cells
  <2>9. Cell(p, k) = c
    BY <2>1, <2>2, <2>3, <2>7
  <2> QED
    BY <2>8, <2>9
<1>3. Filled(sheets) = [p \in 1 .. n |-> [k \in DOMAIN sheets[p] |-> Cell(p, k)]]
  BY <1>1 DEF Filled, Word
<1> HIDE DEF Cell
<1>4. ASSUME NEW p \in 1 .. n PROVE [k \in DOMAIN sheets[p] |-> Cell(p, k)] \in Seq(Found)
  <2>1. IsSheet(sheets[p])
    BY <1>4 DEF AreSheets
  <2>2. PICK m \in Nat : DOMAIN sheets[p] = 1 .. m /\ \A k \in 1 .. m : IsShape(sheets[p][k])
    BY <2>1 DEF IsSheet
  <2>3. \A k \in 1 .. m : Cell(p, k) \in Found
    BY <1>2, <2>2
  <2>4. PICK page : page = [k \in 1 .. m |-> Cell(p, k)]
    OBVIOUS
  <2>5. page \in Seq(Found)
    BY <2>2, <2>3, <2>4
  <2> QED
    BY <2>2, <2>4, <2>5
<1>5. PICK pages : pages = [p \in 1 .. n |-> [k \in DOMAIN sheets[p] |-> Cell(p, k)]]
  OBVIOUS
<1>6. \A p \in 1 .. n : pages[p] \in Seq(Found)
  BY <1>4, <1>5
<1>7. pages \in Seq(Seq(Found)) /\ Len(pages) = n
  BY <1>5, <1>6
<1> QED
  BY <1>3, <1>5, <1>7 DEF IsDocument

\* A shape that is used is a shape.
LEMMA ShapeIs ==
  ASSUME NEW category \in Categories, NEW m \in Nat, NEW kinds \in [1 .. m -> Kinds \ {"space"}]
  PROVE  IsShape(Shape(category, kinds))
BY DEF IsShape, Shape

\* What a row of at most so many holds.
LEMMA UptoIs ==
  ASSUME NEW n \in Nat, NEW S, NEW s \in Upto(n, S)
  PROVE  \E m \in Nat : DOMAIN s = 1 .. m /\ \A k \in 1 .. m : s[k] \in S
<1>1. PICK m \in 0 .. n : s \in [1 .. m -> S]
  BY DEF Upto
<1> QED
  BY <1>1

\* The blocks of the one page and of the three are shapes.
LEMMA AllAreShapes ==
  \A s \in Blocks \cup {Footer, Heading, Shape("Title", <<"anchor">>), Shape("Table", <<"digit">>)} :
    IsShape(s)
<1>1. \A category \in Categories, kind \in Kinds \ {"space"} : IsShape(Shape(category, <<kind>>))
  <2>1. ASSUME NEW category \in Categories, NEW kind \in Kinds \ {"space"}
        PROVE  IsShape(Shape(category, <<kind>>))
    <3>1. <<kind>> \in [1 .. 1 -> Kinds \ {"space"}]
      OBVIOUS
    <3> QED
      BY <3>1, ShapeIs
  <2> QED
    BY <2>1
<1>2. /\ {"Text", "Title", "Table", "Page-footer", "Section-header"} \subseteq Categories
      /\ {"letter", "stop", "mark", "bullet", "digit", "dots", "han", "keyword", "hyphen", "anchor"}
           \subseteq Kinds \ {"space"}
  BY DEF Categories, Kinds
<1>3. \A kind \in Kinds \ {"space"} : IsShape(Block(kind))
  BY <1>1, <1>2 DEF Block
<1>4. IsShape(Shape("Text", <<"letter", "hyphen">>))
  <2>1. <<"letter", "hyphen">> \in [1 .. 2 -> Kinds \ {"space"}]
    BY <1>2
  <2> QED
    BY <1>2, <2>1, ShapeIs
<1>5. IsShape(Shape("Text", <<>>))
  <2>1. <<>> \in [1 .. 0 -> Kinds \ {"space"}]
    OBVIOUS
  <2> QED
    BY <1>2, <2>1, ShapeIs
<1>6. \A s \in Blocks : IsShape(s)
  BY <1>2, <1>3, <1>4, <1>5 DEF Blocks
<1>7. /\ IsShape(Footer) /\ IsShape(Heading) /\ IsShape(Shape("Title", <<"anchor">>))
      /\ IsShape(Shape("Table", <<"digit">>))
  BY <1>1, <1>2 DEF Footer, Heading
<1> QED
  BY <1>6, <1>7

\* A row of shapes is a sheet.
LEMMA SheetIs ==
  ASSUME NEW n \in Nat, NEW S, \A s \in S : IsShape(s), NEW sheet \in Upto(n, S)
  PROVE  IsSheet(sheet)
<1>1. PICK m \in Nat : DOMAIN sheet = 1 .. m /\ \A k \in 1 .. m : sheet[k] \in S
  BY UptoIs
<1> QED
  BY <1>1 DEF IsSheet

\* Every text that is checked is a document.
LEMMA TextsAreDocuments == \A d \in Texts : \E n \in Nat : IsDocument(d.pages, n)
<1>1. PICK shapes : shapes = Blocks \cup {Footer, Heading, Shape("Title", <<"anchor">>),
                                          Shape("Table", <<"digit">>)}
  OBVIOUS
<1>2. \A s \in shapes : IsShape(s)
  BY <1>1, AllAreShapes
<1>3. ASSUME NEW sheets \in OnePage \cup Upto(3, Sheets)
      PROVE  \E n \in Nat : AreSheets(sheets, n)
  <2>1. CASE sheets \in OnePage
    <3>1. PICK page \in Upto(3, Blocks \cup {Footer, Shape("Title", <<"anchor">>)}) :
            sheets = <<page>>
      BY <2>1 DEF OnePage
    <3>2. \A s \in Blocks \cup {Footer, Shape("Title", <<"anchor">>)} : IsShape(s)
      BY AllAreShapes
    <3>3. IsSheet(page)
      BY <3>1, <3>2, SheetIs
    <3>4. DOMAIN sheets = 1 .. 1 /\ sheets[1] = page
      BY <3>1
    <3>5. AreSheets(sheets, 1)
      BY <3>3, <3>4 DEF AreSheets
    <3> QED
      BY <3>5
  <2>2. CASE sheets \in Upto(3, Sheets)
    <3>1. PICK n \in Nat : DOMAIN sheets = 1 .. n /\ \A p \in 1 .. n : sheets[p] \in Sheets
      BY <2>2, UptoIs
    <3>2. \A s \in {Block("letter"), Block("keyword"), Footer, Heading} : IsShape(s)
      <4>1. Block("letter") \in Blocks /\ Block("keyword") \in Blocks
        BY DEF Blocks
      <4> QED
        BY <4>1, AllAreShapes
    <3>3. \A s \in {Block("stop"), Shape("Text", <<"letter", "hyphen">>),
                    Shape("Table", <<"digit">>)} : IsShape(s)
      <4>1. Block("stop") \in Blocks /\ Shape("Text", <<"letter", "hyphen">>) \in Blocks
        BY DEF Blocks
      <4> QED
        BY <4>1, AllAreShapes
    <3>4. \A sheet \in Sheets : IsSheet(sheet)
      BY <3>2, <3>3, SheetIs DEF Sheets
    <3>5. AreSheets(sheets, n)
      BY <3>1, <3>4 DEF AreSheets
    <3> QED
      BY <3>5
  <2> QED
    BY <2>1, <2>2
<1>4. ASSUME NEW d \in Texts PROVE \E n \in Nat : IsDocument(d.pages, n)
  <2>1. PICK sheets \in OnePage \cup Upto(3, Sheets) : d.pages = Filled(sheets)
    BY DEF Texts
  <2>2. PICK n \in Nat : AreSheets(sheets, n)
    BY <1>3
  <2>3. IsDocument(Filled(sheets), n)
    BY <2>2, FilledIs
  <2> QED
    BY <2>1, <2>3
<1> QED
  BY <1>4

-----------------------------------------------------------------------------
(* What is checked of texts and images, of every text and every step.      *)

\* The texts are those that are named, and the images are kept.
ContentInv ==
  /\ topic = "text" => subject \in Texts
  /\ topic = "images" => ImagesInv

\* It holds of the texts and the images at the start.
LEMMA ContentStarts == ParserInit => ContentInv
<1>1. ASSUME ParserInit PROVE ContentInv
  <2>1. topic = "text" => subject \in Texts
    BY <1>1 DEF ParserInit
  <2>2. topic = "images" => Images!OutputInit
    BY <1>1 DEF ParserInit
  <2> QED
    BY <2>1, <2>2, ImagesStart DEF ContentInv
<1> QED
  BY <1>1

\* Texts do not change, and the steps of the images keep their invariant.
LEMMA ContentSteps ==
  ContentInv /\ [ParserNext]_<<documentVars, topic, subject>> => ContentInv'
<1> SUFFICES ASSUME ContentInv, [ParserNext]_<<documentVars, topic, subject>> PROVE ContentInv'
  OBVIOUS
<1>1. CASE UNCHANGED <<topic, subject>>
  <2>1. ImagesInv => ImagesInv'
    BY <1>1 DEF ImagesInv, Images!LinksHold, Images!Doc, Images!PageCount, Images!None
  <2> QED
    BY <1>1, <2>1 DEF ContentInv
<1>2. CASE topic = "control" /\ UNCHANGED topic
  BY <1>2 DEF ContentInv
<1>3. CASE topic = "images" /\ Images!OutputNext /\ UNCHANGED topic
  <2>1. ImagesInv'
    BY <1>3, ImagesStep DEF ContentInv
  <2> QED
    BY <1>3, <2>1 DEF ContentInv
<1>4. UNCHANGED <<documentVars, topic, subject>> => UNCHANGED <<topic, subject>>
  OBVIOUS
<1>5. ParserNext => \/ UNCHANGED <<topic, subject>>
                    \/ topic = "control" /\ UNCHANGED topic
                    \/ topic = "images" /\ Images!OutputNext /\ UNCHANGED topic
  BY DEF ParserNext, Controls
<1> QED
  BY <1>1, <1>2, <1>3, <1>4, <1>5

\* No text that was not asked to go is lost, doubled or moved, whatever stands in the
\* documents that are checked, and no link of a file that says it is rendered loses its image.
THEOREM ContentAlwaysKept == ParserSpec => []ContentKept
<1>1. ContentInv => ContentKept
  <2>1. ASSUME ContentInv, topic = "text" PROVE Text!TextIsKept(subject)
    <3>1. subject \in Texts
      BY <2>1 DEF ContentInv
    <3>2. PICK n \in Nat : IsDocument(subject.pages, n)
      BY <3>1, TextsAreDocuments
    <3> QED
      BY <3>2, TextIsAlwaysKept
  <2>2. ASSUME ContentInv, topic = "images" PROVE Images!LinksHold
    BY <2>2 DEF ContentInv, ImagesInv
  <2> QED
    BY <2>1, <2>2 DEF ContentKept
<1> QED
  BY <1>1, ContentStarts, ContentSteps, PTL DEF ParserSpec
=============================================================================
