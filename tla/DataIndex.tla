----------------------------- MODULE DataIndex ------------------------------
(***************************************************************************)
(* The index of converted documents (dots_ocr/data_index): jobs that skip  *)
(* what is indexed already, read the PDF and the Markdown, ask a model     *)
(* about the text, and append a row to a JSON-lines file that is written   *)
(* in batches.  Jobs are asyncio tasks and run to their next await.        *)
(***************************************************************************)
EXTENDS Integers, Sequences, FiniteSets

CONSTANTS Jobs,
          Doc,       \* Doc[j]: the path of j's document, its checksum and its size
          Lanes,     \* concurrency of the runner
          Batch,     \* _batch_size
          Tasks,     \* what the model is asked about a text
          Slots,     \* MAX_CONCURRENCY
          MaxTries,  \* attempts at an answer
          MaxFaults  \* bound: failures of reading and writing, crashes

VARIABLE index

-----------------------------------------------------------------------------
Unknown == "unknown"   \* the checksum of a PDF that cannot be read
Gone == -1             \* the size of a PDF that is not there
Rested == [t \in Tasks |-> [pc |-> "wait", tries |-> 0]]
New == [pc |-> "new", end |-> "none", calls |-> Rested]
Nobody == [sums |-> {}, sizes |-> {}]

\* What a job knows of its PDF, or of one that is not there
Row(j) == [path |-> Doc[j].path,
           sum |-> IF Doc[j].size = Gone THEN Unknown ELSE Doc[j].sum,
           size |-> IF Doc[j].size = Gone THEN 0 ELSE Doc[j].size]

\* _register_record
Registered(known, row) ==
  [sums |-> known.sums \cup {row.sum},
   sizes |-> {s \in known.sizes : s[1] # row.path} \cup {<<row.path, row.size>>}]

\* _load_processed_index: the later row of a path counts.
Loaded(rows) ==
  [sums |-> {rows[n].sum : n \in DOMAIN rows},
   sizes |-> {<<rows[n].path, rows[n].size>> :
                n \in {n \in DOMAIN rows : \A m \in DOMAIN rows :
                         rows[m].path = rows[n].path => m <= n}}]

Run(rows) == [known |-> Loaded(rows), buffer |-> <<>>, writing |-> <<>>, writer |-> "nobody",
              up |-> TRUE, job |-> [j \in Jobs |-> New]]

IndexInit == index = [run |-> Run(<<>>), file |-> <<>>, lost |-> FALSE, faults |-> 0]

Now == index.run
Becomes(run) == index' = [index EXCEPT !.run = run]
Faults == index.faults < MaxFaults
Goes(run, j, pc) == [run EXCEPT !.job[j].pc = pc]
Ends(run, j, end) == [run EXCEPT !.job[j] = [New EXCEPT !.pc = "ended", !.end = end]]

-----------------------------------------------------------------------------
(* A job.                                                                  *)

\* _should_skip_by_relpath: a PDF that is gone counts as the one of the row.
IsIndexed(known, j) ==
  \E s \in known.sizes : s[1] = Doc[j].path /\ Doc[j].size \in {Gone, s[2]}

\* submit_job and run_job, up to the semaphore
Submit(j) ==
  /\ Now.up /\ Now.job[j].pc = "new"
  /\ Becomes(IF IsIndexed(Now.known, j) THEN Ends(Now, j, "skipped") ELSE Goes(Now, j, "queued"))

InLane(j) == Now.job[j].pc \in {"read", "ask", "append", "write"}

TakeLane(j) ==
  /\ Now.job[j].pc = "queued"
  /\ Cardinality({i \in Jobs : InLane(i)}) < Lanes
  /\ Becomes(Goes(Now, j, "read"))

SumCounts(known, j) == Row(j).sum \in known.sums

\* extract_all_metadata, then the checksum is looked up.
Read(j) ==
  /\ Now.job[j].pc = "read"
  /\ Becomes(IF SumCounts(Now.known, j) THEN Ends(Now, j, "skipped") ELSE Goes(Now, j, "ask"))

\* The Markdown cannot be read or is empty.
ReadFails(j) ==
  /\ Now.job[j].pc = "read" /\ Faults
  /\ index' = [index EXCEPT !.run = Ends(Now, j, "failed"), !.faults = @ + 1]

Success(run, j) == [Ends(run, j, "success") EXCEPT !.known = Registered(@, Row(j))]

\* _append_record: the row waits for its batch; who completes the batch writes it
\* under the lock.
AppendRow(j) ==
  /\ Now.job[j].pc = "append" /\ Now.writer = "nobody"
  /\ LET buffer == Append(Now.buffer, Row(j))
     IN  Becomes(IF Len(buffer) < Batch THEN Success([Now EXCEPT !.buffer = buffer], j)
                 ELSE Goes([Now EXCEPT !.buffer = <<>>, !.writing = buffer, !.writer = j],
                           j, "write"))

Wrote(run) == [run EXCEPT !.writing = <<>>, !.writer = "nobody"]

WriteBatch(j) ==
  /\ Now.job[j].pc = "write"
  /\ index' = [index EXCEPT !.run = Success(Wrote(Now), j), !.file = @ \o Now.writing]

\* The batch is gone when it cannot be written, the rows of other jobs with it.
WriteFails(j) ==
  /\ Now.job[j].pc = "write" /\ Faults
  /\ index' = [index EXCEPT !.run = Ends(Wrote(Now), j, "failed"), !.lost = TRUE,
                            !.faults = @ + 1]

-----------------------------------------------------------------------------
(* The questions about a text, three at a time (llm_processor.py): each    *)
(* keeps its slot over all its attempts and the pauses between them, and   *)
(* an answer that never comes is an empty one.                             *)

Calling == {c \in Jobs \X Tasks : Now.job[c[1]].calls[c[2]].pc \in {"call", "pause"}}
Asked(j, t) == Now.job[j].pc = "ask" /\ Now.job[j].calls[t].pc # "done"
CallGoes(run, j, t, pc) == [run EXCEPT !.job[j].calls[t].pc = pc]

CallDone(run, j, t) == CallGoes(run, j, t, "done")

TakeSlot(j, t) ==
  /\ Asked(j, t) /\ Now.job[j].calls[t].pc = "wait" /\ Cardinality(Calling) < Slots
  /\ Becomes(CallGoes([Now EXCEPT !.job[j].calls[t].tries = 1], j, t, "call"))

Answered(j, t) ==
  /\ Asked(j, t) /\ Now.job[j].calls[t].pc = "call"
  /\ Becomes(CallDone(Now, j, t))

\* A timeout, an error of the API, or an answer that does not do.
Unanswered(j, t) ==
  /\ Asked(j, t) /\ Now.job[j].calls[t].pc = "call"
  /\ Becomes(IF Now.job[j].calls[t].tries >= MaxTries THEN CallDone(Now, j, t)
             ELSE CallGoes(Now, j, t, "pause"))

Retry(j, t) ==
  /\ Asked(j, t) /\ Now.job[j].calls[t].pc = "pause"
  /\ Becomes(CallGoes([Now EXCEPT !.job[j].calls[t].tries = @ + 1], j, t, "call"))

Gathered(j) ==
  /\ Now.job[j].pc = "ask" /\ \A t \in Tasks : Now.job[j].calls[t].pc = "done"
  /\ Becomes([Now EXCEPT !.job[j] = [New EXCEPT !.pc = "append"]])

-----------------------------------------------------------------------------
(* The end of a run.                                                       *)

AllEnded == \A j \in Jobs : Now.job[j].pc \in {"new", "ended"}

\* A bug to test with: the rows that wait for a batch are left
LeavesBuffer(rows) == index.file

WithBuffer(rows) == index.file \o rows

\* shutdown: the jobs first, then what is left of a batch.
Shutdown ==
  /\ Now.up /\ AllEnded
  /\ index' = [index EXCEPT !.run.up = FALSE, !.run.buffer = <<>>,
                            !.file = WithBuffer(Now.buffer)]

\* The next run, after this one or a crash, asks for the same documents.
NextRun ==
  /\ Now.up => Faults
  /\ \E j \in Jobs : Now.job[j].pc # "new"
  /\ index.faults < MaxFaults
  /\ index' = [index EXCEPT !.run = Run(index.file), !.faults = @ + 1, !.lost = FALSE]

-----------------------------------------------------------------------------
JobStep(j) ==
  \/ Submit(j) \/ TakeLane(j) \/ Read(j) \/ ReadFails(j) \/ AppendRow(j) \/ WriteBatch(j)
  \/ WriteFails(j) \/ Gathered(j)
  \/ \E t \in Tasks : TakeSlot(j, t) \/ Answered(j, t) \/ Unanswered(j, t) \/ Retry(j, t)

IndexNext == (\E j \in Jobs : JobStep(j)) \/ Shutdown \/ NextRun

-----------------------------------------------------------------------------
(* Properties of the index.                                                *)

Rows == {index.file[n] : n \in DOMAIN index.file}

\* Once a run is shut down, every document it did not fail on is in the file, with
\* its content or for its path and size, whichever jobs ran together, completed
\* batches for each other or were skipped for a row that was still to be written.
\* (Only of documents that have their PDF, and of runs that could write.)
IndexComplete ==
  ~ Now.up /\ ~ index.lost =>
    \A j \in Jobs : Now.job[j].end \in {"success", "skipped"} /\ Doc[j].size # Gone =>
      \E row \in Rows :
        row.sum = Doc[j].sum \/ (row.path = Doc[j].path /\ row.size = Doc[j].size)

\* A document whose PDF is gone is indexed from its Markdown.
MissingIndexed ==
  ~ Now.up /\ ~ index.lost =>
    \A j \in Jobs : Now.job[j].end \in {"success", "skipped"} =>
      \E row \in Rows : row.path = Doc[j].path \/ row.sum = Doc[j].sum

\* Jobs that wait for a lane end, however often the model does not answer.
JobsEnd == \A j \in Jobs : Now.job[j].pc = "queued" ~> Now.job[j].pc \in {"ended", "new"}
=============================================================================
