----------------------------- MODULE S3Download -----------------------------
(***************************************************************************)
(* The download pipeline of dots_ocr/utils/s3_downloader.py: one producer  *)
(* lists and filters objects into a bounded queue, workers fetch them      *)
(* through side-car files into place, and a generator hands the files to   *)
(* its caller through a second bounded queue.                              *)
(*                                                                         *)
(* The tasks of one event loop interleave at awaits; each action runs from *)
(* one await to the next.  An object is a key of unit size, a file on disk *)
(* is absent, whole or broken (short, or padded with zeros); the parts of  *)
(* a large object succeed or fail as one attempt.                          *)
(***************************************************************************)
EXTENDS Integers, Sequences, FiniteSets, SequencesExt

End == "end"    \* the None that ends a queue

CONSTANTS Keys,
          Entries,       \* folder_prefixes: what to fetch, in order
          Under,         \* Under[k]: the keys a listing of prefix k gives, in order
          Oversize,      \* keys larger than max_single_file_gb
          Skips,         \* keys the skip callback answers for
          Workers, TaskRoom, OutputRoom,
          MaxTries,      \* attempts per object
          ByteLimit,     \* download_gb_limit in objects, 0 for none
          EarlyClose,    \* the caller may stop reading
          MaxDeaths      \* bound: workers ended by an exception of the disk

ASSUME DownloadAssumption ==
  /\ Oversize \subseteq Keys /\ Skips \subseteq Keys /\ End \notin Keys
  /\ Entries \in Seq([key : Keys, exact : BOOLEAN, one : {FALSE}])
  /\ Under \in [Keys -> Seq(Keys)] /\ IsFiniteSet(Workers)
  /\ TaskRoom >= Cardinality(Workers) /\ OutputRoom \in Nat \ {0}
  /\ MaxTries \in Nat \ {0} /\ ByteLimit \in Nat /\ MaxDeaths \in Nat
  /\ EarlyClose \in BOOLEAN

VARIABLES todo,      \* what the producer still has to look at
          asked,     \* history: the keys queued, left out or missed, in order
          tasks,     \* task_queue
          unfinished,\* its count of unfinished tasks
          worker, local, part,
          output,    \* output_queue
          stat, bytes,
          stop,      \* _shutdown_event
          pipeline,  \* where _run_pipeline is
          reader     \* where the caller of the generator is

downloadVars == <<todo, asked, tasks, unfinished, worker, local, part, output,
                  stat, bytes, stop, pipeline, reader>>
loopVars == <<todo, asked, stop, pipeline, reader>>

-----------------------------------------------------------------------------
EndMark == [key |-> End, complete |-> FALSE]
Idle == [at |-> "idle", key |-> End, try |-> 0]
Stats == {"completed", "skipped", "cached", "failed", "not_found", "oversize"}

DownloadInit ==
  /\ todo = Entries /\ asked = <<>>
  /\ tasks = <<>> /\ unfinished = 0
  /\ worker = [w \in Workers |-> Idle]
  /\ local \in [Keys -> {"none", "whole", "broken"}]   \* what earlier runs left
  /\ part \in [Keys -> BOOLEAN]
  /\ output = <<>> /\ stat = [s \in Stats |-> 0] /\ bytes = 0
  /\ stop = FALSE /\ pipeline = "producing" /\ reader = "reading"

Counts(what) == stat' = [s \in Stats |-> stat[s] + IF s \in what THEN 1 ELSE 0]

\* A bug to test with: any file on disk passes
PassesAnyFile(key) == local[key] # "none"

\* looks_like_complete_local_file
Complete(key) == local[key] = "whole" /\ ~ part[key]

-----------------------------------------------------------------------------
(* The producer.                                                           *)

Listed(keys) == [i \in DOMAIN keys |-> [key |-> keys[i], exact |-> FALSE, one |-> TRUE]]

\* _filter_and_queue_task on the object at the head of the list; put waits for
\* room.
Queue(key) ==
  IF key \in Oversize
    THEN Counts({"oversize"}) /\ UNCHANGED <<tasks, unfinished>>
  ELSE IF key \in Skips
    THEN Counts({"skipped"}) /\ UNCHANGED <<tasks, unfinished>>
  ELSE /\ Len(tasks) < TaskRoom
       /\ tasks' = Append(tasks, [key |-> key, complete |-> Complete(key)])
       /\ unfinished' = unfinished + 1
       /\ UNCHANGED stat

Producing == pipeline = "producing" /\ todo # <<>> /\ ~ stop
diskVars == <<worker, local, part, output, bytes>>

\* _produce_prefix_tasks: the pages of a listing
ListPrefix ==
  /\ Producing /\ ~ Head(todo).exact /\ ~ Head(todo).one
  /\ todo' = Listed(Under[Head(todo).key]) \o Tail(todo)
  /\ UNCHANGED diskVars
  /\ UNCHANGED <<asked, tasks, unfinished, stat, stop, pipeline, reader>>

\* ... a listing that fails ends the producer, which the pipeline passes on.
ListingFails ==
  /\ Producing /\ ~ Head(todo).exact /\ ~ Head(todo).one
  /\ todo' = <<>>
  /\ UNCHANGED diskVars
  /\ UNCHANGED <<asked, tasks, unfinished, stat, stop, pipeline, reader>>

QueueListed ==
  /\ Producing /\ Head(todo).one
  /\ Queue(Head(todo).key)
  /\ todo' = Tail(todo) /\ asked' = Append(asked, Head(todo).key)
  /\ UNCHANGED diskVars /\ UNCHANGED <<stop, pipeline, reader>>

\* _produce_exact_key_task
HeadFindsKey ==
  /\ Producing /\ Head(todo).exact
  /\ Queue(Head(todo).key)
  /\ todo' = Tail(todo) /\ asked' = Append(asked, Head(todo).key)
  /\ UNCHANGED diskVars /\ UNCHANGED <<stop, pipeline, reader>>

\* _handle_exact_or_fallback: what is no key may be a prefix.
HeadFails ==
  /\ Producing /\ Head(todo).exact
  /\ \E what \in {"not_found", "failed"} : Counts({what})
  /\ todo' = <<[key |-> Head(todo).key, exact |-> FALSE, one |-> FALSE]>> \o Tail(todo)
  /\ asked' = Append(asked, Head(todo).key)
  /\ UNCHANGED diskVars /\ UNCHANGED <<tasks, unfinished, stop, pipeline, reader>>

Produce == ListPrefix \/ QueueListed \/ HeadFindsKey \/ HeadFails

-----------------------------------------------------------------------------
(* The workers.                                                            *)

Becomes(w, at, key, try) == worker' = [worker EXCEPT ![w] = [at |-> at, key |-> key, try |-> try]]
TaskDone == unfinished' = unfinished - 1

\* A bug to test with: the limit is taken for a number of passes
WithinLimitOnce(n) == ByteLimit = 0 \/ n <= ByteLimit

\* Looked at when a download begins; the bytes are counted when it is done.
WithinLimit(n) == ByteLimit = 0 \/ n < ByteLimit

\* The file needs no download, or is told so by the producer.
IsCached(task) == (task.complete /\ local[task.key] # "none") \/ Complete(task.key)

NextTask(w) == worker[w].at = "idle" /\ tasks # <<>> /\ Head(tasks).key # End /\ tasks' = Tail(tasks)

DropTask(w) ==
  /\ stop /\ NextTask(w) /\ TaskDone
  /\ UNCHANGED <<worker, local, part, output, stat, bytes>> /\ UNCHANGED loopVars

TakeCached(w) ==
  /\ ~ stop /\ NextTask(w) /\ IsCached(Head(tasks))
  /\ Becomes(w, "emitting", Head(tasks).key, 0) /\ Counts({"skipped", "cached"})
  /\ UNCHANGED <<unfinished, local, part, output, bytes>> /\ UNCHANGED loopVars

\* Past the limit the side-car goes; without it the file may pass after all.
TakePastLimit(w) ==
  LET k == Head(tasks).key
  IN  /\ ~ stop /\ NextTask(w) /\ ~ IsCached(Head(tasks)) /\ ~ WithinLimit(bytes)
      /\ part' = [part EXCEPT ![k] = FALSE]
      /\ \/ /\ local[k] = "whole"
            /\ Becomes(w, "emitting", k, 0) /\ Counts({"skipped", "cached"})
            /\ UNCHANGED unfinished
         \/ /\ local[k] # "whole"
            /\ TaskDone /\ Counts({"skipped"})
            /\ UNCHANGED worker
      /\ UNCHANGED <<local, output, bytes>> /\ UNCHANGED loopVars

MustFetch(w) == ~ stop /\ NextTask(w) /\ ~ IsCached(Head(tasks)) /\ WithinLimit(bytes)

TakeMissing(w) ==
  /\ MustFetch(w)
  /\ Becomes(w, "starting", Head(tasks).key, 1)
  /\ part' = [part EXCEPT ![Head(tasks).key] = FALSE]
  /\ UNCHANGED <<unfinished, local, output, stat, bytes>> /\ UNCHANGED loopVars

\* Creating the directory raises outside the retries: the worker ends and leaves
\* its task unfinished.
WorkerDies(w) ==
  /\ MustFetch(w)
  /\ Cardinality({v \in Workers : worker[v].at = "dead"}) < MaxDeaths
  /\ Becomes(w, "dead", Head(tasks).key, 0)
  /\ UNCHANGED <<unfinished, local, part, output, stat, bytes>> /\ UNCHANGED loopVars

EndTask(w) ==
  /\ worker[w].at = "idle" /\ tasks # <<>> /\ Head(tasks).key = End
  /\ tasks' = Tail(tasks) /\ TaskDone
  /\ Becomes(w, "gone", End, 0)
  /\ UNCHANGED <<local, part, output, stat, bytes>> /\ UNCHANGED loopVars

Trying(w) == ~ stop /\ worker[w].try <= MaxTries

\* The body goes into the side-car file ...
OpensPart(w) ==
  /\ worker[w].at = "starting" /\ Trying(w)
  /\ Becomes(w, "writing", worker[w].key, worker[w].try)
  /\ part' = [part EXCEPT ![worker[w].key] = TRUE]
  /\ UNCHANGED <<tasks, unfinished, local, output, stat, bytes>> /\ UNCHANGED loopVars

Writers(k) == {w \in Workers : worker[w].at = "writing" /\ worker[w].key = k}

\* ... which is moved into place; a rival for the key may still be writing to it.
Fetch(w) ==
  LET k == worker[w].key
  IN  /\ worker[w].at = "writing" /\ part[k]
      /\ local' = [local EXCEPT ![k] = IF Writers(k) = {w} THEN "whole" ELSE "broken"]
      /\ part' = [part EXCEPT ![k] = FALSE]
      /\ Becomes(w, "emitting", k, 0)
      /\ bytes' = bytes + 1 /\ Counts({"completed"})
      /\ UNCHANGED <<tasks, unfinished, output>> /\ UNCHANGED loopVars

\* A rival moved or removed the side-car: the file in place is unlinked before
\* that shows.
MoveFails(w) ==
  LET k == worker[w].key
  IN  /\ worker[w].at = "writing" /\ ~ part[k]
      /\ local' = [local EXCEPT ![k] = "none"]
      /\ Becomes(w, "starting", k, worker[w].try + 1)
      /\ UNCHANGED <<tasks, unfinished, part, output, stat, bytes>> /\ UNCHANGED loopVars

\* The request or its body fails; what was written stays until the next attempt.
AttemptFails(w) ==
  /\ \/ worker[w].at = "starting" /\ Trying(w)
     \/ worker[w].at = "writing"
  /\ Becomes(w, "starting", worker[w].key, worker[w].try + 1)
  /\ UNCHANGED <<tasks, unfinished, local, part, output, stat, bytes>> /\ UNCHANGED loopVars

ObjectGone(w) ==
  /\ worker[w].at = "starting" /\ Trying(w)
  /\ worker' = [worker EXCEPT ![w] = Idle] /\ TaskDone
  /\ Counts({"not_found"})
  /\ UNCHANGED <<tasks, local, part, output, bytes>> /\ UNCHANGED loopVars

\* Stopped, or out of attempts.
GiveUp(w) ==
  /\ worker[w].at = "starting" /\ ~ Trying(w)
  /\ part' = [part EXCEPT ![worker[w].key] = FALSE]
  /\ worker' = [worker EXCEPT ![w] = Idle] /\ TaskDone
  /\ Counts({"failed"})
  /\ UNCHANGED <<tasks, local, output, bytes>> /\ UNCHANGED loopVars

\* A bug to test with: the task is done before its file is handed over
EmitUncounted(w) ==
  /\ worker[w].at = "emitting" /\ Len(output) < OutputRoom
  /\ output' = Append(output, worker[w].key)
  /\ worker' = [worker EXCEPT ![w] = Idle]
  /\ UNCHANGED <<tasks, unfinished, local, part, stat, bytes>> /\ UNCHANGED loopVars

\* await output_queue.put(job)
Emit(w) ==
  /\ worker[w].at = "emitting" /\ Len(output) < OutputRoom
  /\ output' = Append(output, worker[w].key)
  /\ worker' = [worker EXCEPT ![w] = Idle] /\ TaskDone
  /\ UNCHANGED <<tasks, local, part, stat, bytes>> /\ UNCHANGED loopVars

WorkerStep(w) ==
  \/ DropTask(w) \/ TakeCached(w) \/ TakePastLimit(w) \/ TakeMissing(w) \/ EndTask(w)
  \/ OpensPart(w) \/ Fetch(w) \/ MoveFails(w)
  \/ AttemptFails(w) \/ ObjectGone(w) \/ GiveUp(w) \/ Emit(w)

-----------------------------------------------------------------------------
(* The pipeline around them and the caller.                                *)

othersOfPipeline == <<todo, asked, worker, local, part, stat, bytes, stop, reader>>

\* The producer is done and task_queue.join() returns; the end marks fit.
SendEnds ==
  /\ pipeline = "producing" /\ (todo = <<>> \/ stop) /\ unfinished = 0
  /\ tasks' = tasks \o [i \in 1 .. Cardinality(Workers) |-> EndMark]
  /\ unfinished' = Cardinality(Workers)
  /\ pipeline' = "gathering"
  /\ UNCHANGED output /\ UNCHANGED othersOfPipeline

EndOutput ==
  /\ pipeline = "gathering" /\ \A w \in Workers : worker[w].at \in {"gone", "dead"}
  /\ Len(output) < OutputRoom
  /\ output' = Append(output, End) /\ pipeline' = "over"
  /\ UNCHANGED <<tasks, unfinished>> /\ UNCHANGED othersOfPipeline

Read ==
  /\ reader = "reading" /\ output # <<>>
  /\ output' = Tail(output)
  /\ IF Head(output) = End THEN reader' = "closing" /\ stop' = TRUE ELSE UNCHANGED <<reader, stop>>
  /\ UNCHANGED <<todo, asked, tasks, unfinished, worker, local, part, stat, bytes, pipeline>>

\* The finally of stream_downloaded_jobs: nobody reads any more.
StopReading ==
  /\ EarlyClose /\ reader = "reading"
  /\ reader' = "closing" /\ stop' = TRUE
  /\ UNCHANGED <<todo, asked, tasks, unfinished, worker, local, part, output, stat, bytes,
                 pipeline>>

Closed ==
  /\ reader = "closing" /\ pipeline = "over"
  /\ reader' = "closed"
  /\ UNCHANGED <<todo, asked, tasks, unfinished, worker, local, part, output, stat, bytes,
                 stop, pipeline>>

RequestShutdown ==
  /\ ~ stop /\ reader = "reading"
  /\ stop' = TRUE
  /\ UNCHANGED <<todo, asked, tasks, unfinished, worker, local, part, output, stat, bytes,
                 pipeline, reader>>

DownloadNext ==
  \/ Produce \/ ListingFails
  \/ \E w \in Workers : WorkerStep(w) \/ WorkerDies(w)
  \/ SendEnds \/ EndOutput \/ Read \/ StopReading \/ Closed \/ RequestShutdown

DownloadSpec == DownloadInit /\ [][DownloadNext]_downloadVars

\* The event loop runs some task as long as one can go on, calls return, and a
\* caller that reads goes on reading.
Proceeds ==
  Produce \/ SendEnds \/ EndOutput \/ Read \/ Closed \/ (\E w \in Workers : WorkerStep(w))
FairDownloadSpec == DownloadSpec /\ WF_downloadVars(Proceeds)

-----------------------------------------------------------------------------
(* What the pipeline promises.                                             *)

At(places) == Cardinality({w \in Workers : worker[w].at \in places})
Waiting == Cardinality({i \in DOMAIN tasks : tasks[i].key # End})
Accounted == stat["completed"] + stat["skipped"] + stat["failed"] + stat["not_found"]
               + stat["oversize"]

\* The key was asked for once.
Once(k) == \E i \in DOMAIN asked : \A j \in DOMAIN asked : asked[j] = k <=> j = i

\* What the caller is given is whole on disk, whatever earlier runs left there
\* and whatever other workers do, unless the same key was asked for twice.
EmittedIsWhole == \A k \in Keys : k \in ToSet(output) /\ Once(k) => local[k] = "whole"

\* Every object is waiting, on its way, or counted once; and task_queue.join()
\* returns exactly when none is under way.  Only a shutdown drops tasks.  The
\* downloads under way overrun the byte limit by less than one file per worker.
NothingVanishes ==
  LET account == Accounted + Waiting + At({"starting", "writing", "dead"})
  IN  /\ IF stop THEN account <= Len(asked) ELSE account = Len(asked)
      /\ pipeline = "producing" =>
           unfinished = Waiting + At({"starting", "writing", "emitting", "dead"})
      /\ ByteLimit > 0 => bytes < ByteLimit + Cardinality(Workers)

\* No queue is left full and no count left open: a caller that reads on comes to
\* the end of the stream, stopped or not, unless a worker was lost.
StreamEnds ==
  (reader = "reading") ~> (reader \in {"closing", "closed"} \/ At({"dead"}) > 0)

=============================================================================
