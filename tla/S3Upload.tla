------------------------------ MODULE S3Upload ------------------------------
(***************************************************************************)
(* The uploader of OCR results (dots_ocr/utils/s3_upload.py): callers that *)
(* prepare the artifacts of a document and put them on a bounded queue,    *)
(* workers that skip what the bucket has and upload the rest, the manifest *)
(* that a later run resumes from, and the flush at the end, with resume    *)
(* and remote checks on, as they are by default.  Callers, workers and the *)
(* flush are asyncio tasks and run to their next await: one that is woken  *)
(* by another runs before any answer of the network.                       *)
(***************************************************************************)
EXTENDS Integers, Sequences, FiniteSets

CONSTANTS Callers, Workers, Docs,
          Artifacts,  \* Artifacts[d]: the keys of document d's artifacts
          Sizes,      \* the sizes an artifact may have
          Room,       \* max_queue
          MaxCalls, MaxRuns, MaxFaults \* bounds: calls; runs; answers that fail, crashes

VARIABLE upload

-----------------------------------------------------------------------------
Keys == UNION {{Artifacts[d][n] : n \in DOMAIN Artifacts[d]} : d \in Docs}
Nothing == -1      \* the size of a key the bucket does not have
Sentinel == [key |-> "none", size |-> Nothing, force |-> FALSE]
Entry(task) == <<task.key, task.size>>   \* _manifest_id
Resting == [pc |-> "rest", todo |-> <<>>, doc |-> "none"]
Fetching == [pc |-> "get", task |-> Sentinel, status |-> "none"]
Tally == [uploaded |-> 0, skipped |-> 0, failed |-> 0]

Fresh(file, remote) ==
  [phase |-> "started", queue |-> <<>>, joined |-> FALSE, sentinels |-> Cardinality(Workers),
   entries |-> file, file |-> file,        \* the manifest in memory and on disk
   remote |-> remote,
   caller |-> [c \in Callers |-> Resting], worker |-> [w \in Workers |-> Fetching],
   stats |-> Tally]

NoObjects == [k \in Keys |-> Nothing]

UploadInit ==
  upload = [now |-> Fresh({}, NoObjects),
            prepared |-> 0,   \* history: tasks of this run
            stored |-> {},    \* history: every object the bucket ever had
            told |-> {},      \* history: documents said to be there
            calls |-> 0, runs |-> 1, faults |-> 0]

Now == upload.now
Becomes(now) == upload' = [upload EXCEPT !.now = now]
Faults == upload.faults < MaxFaults

-----------------------------------------------------------------------------
(* The queue.                                                              *)

Busy(now) == {w \in Workers : now.worker[w].pc \in {"head", "put", "append"}}
Unfinished(now) == Len(now.queue) + Cardinality(Busy(now))

\* A caller that waited for room goes on before answers of the network.
Quiet == ~ \E c \in Callers : Now.caller[c].pc = "put" /\ Len(Now.queue) < Room

\* The caller puts what there is room for; the entries of forced tasks are
\* dropped, that of the one it waits with too.
Puts(now, c, todo) ==
  LET n == IF Len(todo) <= Room - Len(now.queue) THEN Len(todo) ELSE Room - Len(now.queue)
      reached == SubSeq(todo, 1, IF n < Len(todo) THEN n + 1 ELSE n)
  IN [now EXCEPT
        !.queue = @ \o SubSeq(todo, 1, n),
        !.entries = @ \ {Entry(reached[k]) : k \in {k \in DOMAIN reached : reached[k].force}},
        !.caller[c] = IF n = Len(todo) THEN Resting
                      ELSE [pc |-> "put", todo |-> SubSeq(todo, n + 1, Len(todo)), doc |-> "none"]]

Calls(c) == Now.phase = "started" /\ Now.caller[c].pc = "rest"
              /\ upload.calls < MaxCalls

\* enqueue_artifacts
Enqueue(c) ==
  /\ Calls(c)
  /\ \E d \in Docs, size \in Sizes, force \in BOOLEAN :
       LET tasks == [n \in DOMAIN Artifacts[d] |->
                       [key |-> Artifacts[d][n], size |-> size, force |-> force]]
       IN  upload' = [upload EXCEPT !.now = Puts(Now, c, tasks), !.calls = @ + 1,
                                    !.prepared = @ + Len(tasks)]

PutMore(c) ==
  /\ Now.caller[c].pc = "put" /\ Len(Now.queue) < Room
  /\ Becomes(Puts(Now, c, Now.caller[c].todo))

-----------------------------------------------------------------------------
(* Workers.                                                                *)

\* A bug to test with: a task that fails is not counted off
DoneUnlessFailed(now, w, status) ==
  IF status = "failed" THEN [now EXCEPT !.worker[w] = [Fetching EXCEPT !.pc = "gone"]] ELSE now

\* A task ends with task_done; the last one wakes the flush, for good.
Done(now, w, status) ==
  LET next == [now EXCEPT !.stats[status] = @ + 1, !.worker[w] = Fetching]
  IN  [next EXCEPT !.joined = @ \/ (now.phase = "closing" /\ Unfinished(next) = 0)]

Goes(now, w, pc) == [now EXCEPT !.worker[w].pc = pc]
Appends(now, w, status) == [now EXCEPT !.worker[w].pc = "append", !.worker[w].status = status]

\* _worker and _should_skip, up to the answer of the bucket
GetTask(w) ==
  /\ Quiet /\ Now.worker[w].pc = "get" /\ Now.queue # <<>>
  /\ LET task == Head(Now.queue)
         taken == [Now EXCEPT !.queue = Tail(@), !.worker[w].pc = "head", !.worker[w].task = task]
     IN  Becomes(
           IF task = Sentinel THEN Goes(taken, w, "gone")
           ELSE IF task.force THEN Goes(taken, w, "put") ELSE taken)

\* The bucket answers: the artifact is there in its size, or there is nothing or
\* something else, and what the manifest says of it is dropped.
HeadAnswered(w) ==
  /\ Quiet /\ Now.worker[w].pc = "head"
  /\ LET task == Now.worker[w].task
     IN  Becomes(IF Now.remote[task.key] = task.size
                   THEN Appends([Now EXCEPT !.entries = @ \cup {Entry(task)}], w, "skipped")
                   ELSE Goes([Now EXCEPT !.entries = @ \ {Entry(task)}], w, "put"))

HeadFails(w) ==
  /\ Quiet /\ Now.worker[w].pc = "head" /\ Faults
  /\ upload' = [upload EXCEPT !.now = Goes(Now, w, "put"), !.faults = @ + 1]

\* A bug to test with: the entry is made before the object is there
EntryBefore(now, task, ok) == now.entries \cup {Entry(task)}

EntryAfter(now, task, ok) == IF ok THEN now.entries \cup {Entry(task)} ELSE now.entries

Stores(now, task) == [now EXCEPT !.remote[task.key] = task.size]

\* _upload_task: an object is there whole or not at all.
Uploaded(w) ==
  /\ Quiet /\ Now.worker[w].pc = "put"
  /\ LET task == Now.worker[w].task
         put == Stores([Now EXCEPT !.entries = EntryAfter(Now, task, TRUE)], task)
     IN  upload' = [upload EXCEPT !.now = Appends(put, w, "uploaded"),
                                  !.stored = @ \cup {Entry(task)}]

\* ... or it fails, with or without the object being there.
UploadFails(w) ==
  /\ Quiet /\ Now.worker[w].pc = "put" /\ Faults
  /\ \E stored \in BOOLEAN :
       LET task == Now.worker[w].task
           failed == [Now EXCEPT !.entries = EntryAfter(Now, task, FALSE)]
       IN  upload' = [upload EXCEPT
             !.now = Done(IF stored THEN Stores(failed, task) ELSE failed, w, "failed"),
             !.stored = IF stored THEN @ \cup {Entry(task)} ELSE @,
             !.faults = @ + 1]

\* _append_manifest; a line that cannot be written is no error.
Appended(w) ==
  /\ Quiet /\ Now.worker[w].pc = "append"
  /\ Becomes(Done([Now EXCEPT !.file = @ \cup {Entry(Now.worker[w].task)}],
                  w, Now.worker[w].status))

AppendFails(w) ==
  /\ Quiet /\ Now.worker[w].pc = "append" /\ Faults
  /\ upload' = [upload EXCEPT !.now = Done(Now, w, Now.worker[w].status), !.faults = @ + 1]

-----------------------------------------------------------------------------
(* Is a document there?                                                    *)

\* artifact_exists: the bucket is asked for one artifact after the other.
AskExists(c) ==
  /\ Calls(c)
  /\ \E d \in Docs :
       upload' = [upload EXCEPT !.calls = @ + 1,
                    !.now.caller[c] = [pc |-> "ask", todo |-> Artifacts[d], doc |-> d]]

\* A bug to test with: one artifact of the document is enough
AnyThere(now, todo) == now.remote[Head(todo)] # Nothing

AllThere(now, todo) == now.remote[Head(todo)] # Nothing /\ Len(todo) = 1

ExistsAnswered(c) ==
  /\ Quiet /\ Now.caller[c].pc = "ask"
  /\ LET asked == Now.caller[c]
         there == Now.phase # "closed" /\ AllThere(Now, asked.todo)
         onward == Now.phase # "closed" /\ Now.remote[Head(asked.todo)] # Nothing /\ ~ there
     IN  upload' = [upload EXCEPT
           !.now.caller[c] = IF onward THEN [asked EXCEPT !.todo = Tail(@)] ELSE Resting,
           !.told = IF there THEN @ \cup {asked.doc} ELSE @]

\* An answer that fails is no.
ExistsFails(c) ==
  /\ Quiet /\ Now.caller[c].pc = "ask" /\ Faults
  /\ upload' = [upload EXCEPT !.now.caller[c] = Resting, !.faults = @ + 1]

-----------------------------------------------------------------------------
(* The end of a run.                                                       *)

\* flush_and_close
Close ==
  /\ Now.phase = "started"
  /\ Becomes([Now EXCEPT !.phase = "closing", !.joined = Unfinished(Now) = 0])

\* A bug to test with: the flush does not wait for the queue
NoJoin == TRUE

Joined == Now.joined

\* Its sentinels wait for room like any task.
SendSentinels ==
  /\ Joined /\ Now.phase = "closing" /\ Now.sentinels > 0 /\ Len(Now.queue) < Room
  /\ Becomes([Now EXCEPT !.queue = Append(@, Sentinel), !.sentinels = @ - 1])

Closed ==
  /\ Now.phase = "closing" /\ Now.sentinels = 0
  /\ \A w \in Workers : Now.worker[w].pc = "gone"
  /\ Becomes([Now EXCEPT !.phase = "closed"])

\* The next run, after this one or after a crash, knows what the file has.
NextRun ==
  /\ upload.runs < MaxRuns
  /\ Now.phase # "closed" => Faults
  /\ upload' = [upload EXCEPT !.now = Fresh(Now.file, Now.remote), !.runs = @ + 1,
                               !.prepared = 0,
                               !.faults = IF Now.phase = "closed" THEN @ ELSE @ + 1]

-----------------------------------------------------------------------------
Works(w) ==
  GetTask(w) \/ HeadAnswered(w) \/ HeadFails(w) \/ Uploaded(w) \/ UploadFails(w)
    \/ Appended(w) \/ AppendFails(w)

UploadNext ==
  \/ \E w \in Workers : Works(w)
  \/ \E c \in Callers :
       Enqueue(c) \/ PutMore(c) \/ AskExists(c) \/ ExistsAnswered(c) \/ ExistsFails(c)
  \/ Close \/ SendSentinels \/ Closed \/ NextRun

-----------------------------------------------------------------------------
(* Properties of an uploader.                                              *)

\* A run that is closed has ended every task that was ever prepared, each once,
\* those of callers that were waiting for room when it was closed included.
ClosedIsComplete ==
  Now.phase = "closed" =>
    /\ Now.stats.uploaded + Now.stats.skipped + Now.stats.failed = upload.prepared
    /\ Now.queue = <<>> /\ \A c \in Callers : Now.caller[c].pc # "put"

\* The manifest, in memory and on disk, names objects that the bucket has had, and
\* a document is said to be there only when all its artifacts are.
ManifestIsTrue ==
  /\ Now.entries \cup Now.file \subseteq upload.stored
  /\ \A d \in upload.told : \A n \in DOMAIN Artifacts[d] : Now.remote[Artifacts[d][n]] # Nothing

\* A flush ends, unless the process does first.
FlushEnds == Now.phase = "closing" ~> Now.phase # "closing"
=============================================================================
