----------------------------- MODULE JobProgress -----------------------------
(***************************************************************************)
(* What the control plane remembers of the events of one job and what the  *)
(* job page shows of it: rows per file and per event, cut down to a limit  *)
(* after every event, counters and samples that survive the cut            *)
(* (control/domains/jobs/counters.py, policy.py), and the summary and the  *)
(* lists of failures computed from all of them (projection.py).            *)
(*                                                                         *)
(* A ledger is the state of these tables for one job; every event is       *)
(* applied in a transaction of its own (the races between two handlers are *)
(* the subject of JobEvents).  The newest row comes first in a sequence.   *)
(* Times, texts and directories are left out; a rate is kept as a pair.    *)
(***************************************************************************)
EXTENDS Integers, Sequences, FiniteSets, SequencesExt

\* A number the program holds as None.
None == -1
NoFile == "no file"

AtLeast(a, b) == IF a < b THEN b ELSE a
AtMost(a, b) == IF a < b THEN a ELSE b
TotalOf(Amount(_), rows) == FoldLeft(LAMBDA n, r : n + Amount(r), 0, rows)
Matching(Test(_), rows) == Len(SelectSeq(rows, Test))
Keep(limit, rows) == SubSeq(rows, 1, AtMost(limit, Len(rows)))

\* Rows of the better class first, each class in the order it had.
First(Better(_), rows) ==
  SelectSeq(rows, Better) \o SelectSeq(rows, LAMBDA r : ~ Better(r))

-----------------------------------------------------------------------------
(* Events: [type, file, page, status, total], a page or a total may be None. *)

Failures == {"file_failed", "job_failed"}
Endings == {"file_done", "job_done", "job_stopped"}
FileEnds == {"file_done", "file_failed"}

NoLedger == [rows |-> <<>>, events |-> <<>>, failedFiles |-> <<>>, errors |-> <<>>,
             counter |-> [started |-> 0, totalPages |-> 0, pages |-> 0, degraded |-> 0,
                          completed |-> 0, failed |-> 0, skipped |-> 0],
             shard |-> [processed |-> 0, failed |-> 0, skipped |-> 0, pages |-> 0]]

\* job_counter_event_already_seen
AlreadySeen(ledger, e) ==
  /\ e.file # NoFile
  /\ \/ e.type \in {"file_started"} \cup FileEnds
     \/ e.type = "page_done" /\ e.page # None
  /\ \E i \in DOMAIN ledger.events :
        /\ ledger.events[i].type = e.type
        /\ ledger.events[i].file = e.file
        /\ e.type = "page_done" => ledger.events[i].page = e.page

\* A bug to test with: a file that fails again is listed again
SampleAgain(ledger, e, limit) == Keep(limit, <<e.file>> \o ledger.failedFiles)

\* _store_recent_failed_file_sample
FailedFileSample(ledger, e, limit) ==
  Keep(limit, <<e.file>> \o SelectSeq(ledger.failedFiles, LAMBDA f : f # e.file))

\* update_job_counter_from_event; a job_failed leaves a sample of its own.
Counted(ledger, e, limits) ==
  LET c == ledger.counter
      one(condition) == IF condition THEN 1 ELSE 0
  IN  IF AlreadySeen(ledger, e) THEN ledger
      ELSE [ledger EXCEPT
        !.counter = [c EXCEPT
          !.started = @ + one(e.type = "file_started"),
          !.totalPages = @ + IF e.type = "file_started" THEN AtLeast(e.total, 0) ELSE 0,
          !.pages = @ + one(e.type = "page_done"),
          !.degraded = @ + one(e.type = "page_done" /\ e.status = "fallback"),
          !.skipped = @ + one(e.type = "file_done" /\ e.status = "skipped"),
          !.completed = @ + one(e.type = "file_done" /\ e.status # "skipped"),
          !.failed = @ + one(e.type = "file_failed")],
        !.failedFiles = IF e.type = "file_failed" /\ e.file # NoFile
                          THEN FailedFileSample(ledger, e, limits.samples) ELSE @,
        !.errors = IF e.type = "job_failed" THEN Keep(limits.samples, <<e>> \o @) ELSE @]

DonePages(ledger, file) ==
  LET isDone(e) == e.type = "page_done" /\ e.file = file /\ e.page # None
  IN  Cardinality({e.page : e \in ToSet(SelectSeq(ledger.events, isDone))})

\* upsert_file_from_event: what an event makes of the row of its file.
Updated(row, ledger, e) ==
  CASE e.type = "file_started" ->
         [row EXCEPT !.status = "running", !.total = IF e.total = None THEN @ ELSE e.total]
    [] e.type = "page_done" ->
         [row EXCEPT !.status = IF e.status = "error" THEN "failed" ELSE "running",
                     !.done = IF e.page = None THEN @ ELSE DonePages(ledger, e.file)]
    [] e.type = "file_done" -> [row EXCEPT !.status = e.status]
    [] e.type = "file_failed" -> [row EXCEPT !.status = "failed"]
    [] OTHER -> row

\* A row that an update leaves as it was keeps its time, and so its place.
Upserted(ledger, e) ==
  LET old == SelectSeq(ledger.rows, LAMBDA r : r.file = e.file)
      others == SelectSeq(ledger.rows, LAMBDA r : r.file # e.file)
      blank == [file |-> e.file, status |-> "pending", done |-> 0, total |-> None]
      row == Updated(IF old = <<>> THEN blank ELSE old[1], ledger, e)
  IN  IF e.file = NoFile \/ old = <<row>> THEN ledger
      ELSE [ledger EXCEPT !.rows = <<row>> \o others]

IsFailed(row) == row.status = "failed"
IsSkipped(row) == row.status = "skipped"
IsCompleted(row) == row.status = "success"

\* prune_job_detail_rows; a negative limit keeps everything.  The event rows stay
\* in the order of their classes: nothing asks for their order across classes.
Pruned(ledger, limits) ==
  LET rank(e) == e.type \in Failures
      ends(e) == e.type \in Endings
  IN  [ledger EXCEPT
         !.rows = IF limits.files < 0 THEN @
                  ELSE LET kept == Keep(limits.files, First(IsFailed, @))
                       IN  SelectSeq(@, LAMBDA r : Contains(kept, r)),
         !.events = IF limits.events < 0 THEN @
                    ELSE Keep(limits.events, First(rank, First(ends, @)))]

\* record_event, but for the verdict on the job (StaticJob).
Recorded(ledger, e, limits) ==
  LET counted == Counted(ledger, e, limits)
      logged == IF limits.events = 0 THEN counted
                ELSE [counted EXCEPT !.events = <<e>> \o @]
      upserted == IF limits.files = 0 THEN logged ELSE Upserted(logged, e)
  IN  Pruned(upserted, limits)

-----------------------------------------------------------------------------
(* The progress that a summary shows.                                      *)

\* A bug to test with: only files whose start was told count
CounterTotalStarted(c) == c.started

\* _job_counter_total_files
CounterTotal(c) == AtLeast(c.started, c.completed + c.failed + c.skipped)

Positive(n) == IF n > 0 THEN n ELSE None

\* _load_job_file_progress: `input` is what the manifest and the shards say
\* of the number of files, 0 for a job without them.
FileProgress(ledger, input) ==
  LET rows == ledger.rows
      c == ledger.counter
      s == ledger.shard
      observed == Len(rows)
      authoritative == AtLeast(observed, input)
      total == IF authoritative > 0 THEN authoritative ELSE CounterTotal(c)
      best(n, counted, ofShards) == AtLeast(AtLeast(n, counted), ofShards)
      completed == best(Matching(IsCompleted, rows), c.completed,
                        AtLeast(s.processed - s.failed - s.skipped, 0))
      failed == best(Matching(IsFailed, rows), c.failed, s.failed)
      skipped == best(Matching(IsSkipped, rows), c.skipped, s.skipped)
      known == SelectSeq(rows, LAMBDA r : r.total # None)
      rowPages == TotalOf(LAMBDA r : r.total, known)
      totalPages == IF known = <<>> THEN Positive(c.totalPages)
                    ELSE AtLeast(rowPages, c.totalPages)
      done == TotalOf(LAMBDA r : r.done, rows)
      pages == IF observed > 0 THEN done ELSE best(done, c.pages, s.pages)
      failedShown == IF total > 0 THEN AtMost(failed, total) ELSE failed
      skippedShown == IF total > 0 THEN AtMost(skipped, total - failedShown) ELSE skipped
  IN  [total |-> total, failed |-> failedShown, skipped |-> skippedShown,
       completed |-> IF total > 0 THEN AtMost(completed, total - failedShown - skippedShown)
                       ELSE completed,
       totalPages |-> totalPages,
       pages |-> IF totalPages > 0 THEN AtMost(pages, totalPages) ELSE pages]

\* _load_job_event_progress: the quality of the pages.
DegradedPages(ledger) ==
  AtLeast(Matching(LAMBDA e : e.type = "page_done" /\ e.status = "fallback", ledger.events),
          ledger.counter.degraded)

\* _calculate_job_rates: `elapsed` is None while the clocks say nothing.
Rates(progress, job, elapsed, silent, staleAfter) ==
  LET processed == progress.completed + progress.failed + progress.skipped
      share(done, total) == AtMost((100 * done) \div total, 100)
      timed == elapsed > 0
  IN  [percent |-> IF progress.totalPages > 0 THEN share(progress.pages, progress.totalPages)
                   ELSE IF progress.total > 0 THEN share(processed, progress.total)
                   ELSE None,
       pageRate |-> IF timed /\ progress.pages > 0 THEN <<progress.pages, elapsed>> ELSE <<>>,
       fileRate |-> IF timed /\ processed > 0 THEN <<processed, elapsed>> ELSE <<>>,
       eta |-> IF /\ timed /\ progress.pages > 0
                  /\ progress.totalPages > 0 /\ progress.pages < progress.totalPages
                 THEN ((progress.totalPages - progress.pages) * elapsed) \div progress.pages
                 ELSE None,
       stale |-> job \in {"running", "stopping"} /\ silent > staleAfter]

-----------------------------------------------------------------------------
(* The lists of failures.                                                  *)

\* A row of the list; one that is made from a sample has no row of its own.
Listed(file, status) == [file |-> file, status |-> status]

\* list_recent_job_files
RecentFiles(ledger, kind, limit) ==
  LET processed(r) == IsCompleted(r) \/ IsFailed(r) \/ IsSkipped(r)
      wanted(r) == IF kind = "failed" THEN IsFailed(r) ELSE processed(r)
      found == Keep(limit, SelectSeq(ledger.rows, wanted))
      rows == [i \in DOMAIN found |-> Listed(found[i].file, found[i].status)]
      missing(f) == \A i \in DOMAIN found : found[i].file # f
      samples == SelectSeq(ledger.failedFiles, missing)
  IN  IF kind # "failed" \/ Len(rows) >= limit THEN rows
      ELSE Keep(limit, rows \o [i \in DOMAIN samples |-> Listed(samples[i], "failed")])

\* list_recent_job_errors_page: samples stand in when no event row is left.
RecentErrors(ledger, limit, offset) ==
  LET rows == SelectSeq(ledger.events, LAMBDA e : e.type \in Failures)
      ofFile(f) == [type |-> "file_failed", file |-> f]
      asItem(e) == [type |-> e.type, file |-> e.file]
      samples == [i \in DOMAIN ledger.errors |-> asItem(ledger.errors[i])]
                   \o [i \in DOMAIN ledger.failedFiles |-> ofFile(ledger.failedFiles[i])]
      all == IF rows # <<>> THEN [i \in DOMAIN rows |-> asItem(rows[i])] ELSE samples
      items == SubSeq(all, offset + 1, AtMost(offset + limit, Len(all)))
  IN  [total |-> Len(all), items |-> items, more |-> offset + Len(items) < Len(all)]

=============================================================================
