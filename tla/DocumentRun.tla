---------------------------- MODULE DocumentRun -----------------------------
(***************************************************************************)
(* One document, parsed by the OCR command line, again and again: a run is *)
(* interrupted by a signal, an error or a crash and a later run decides    *)
(* from the files of the output directory whether there is work left       *)
(* (ocr_parser/cli.py, pipeline/document_parser.py, infra/resume.py,       *)
(* infra/status_sidecar.py, output/markdown_writer.py).                    *)
(*                                                                         *)
(* Within a run a producer queues page numbers for concurrent consumers,   *)
(* the results are collected by page, the Markdown file is written page by *)
(* page and the status sidecar, which declares it complete, comes last.    *)
(* More than one parser may work on the same output: the child of a dead   *)
(* agent goes on while the shard is handed out again.                      *)
(*                                                                         *)
(* Content is abstracted to the version of the input it was rendered from. *)
(* Every version has the same number of pages.  Blank pages and a cleaning *)
(* that fails half way are left out; what is in the text and which images  *)
(* the Markdown links to is in PageText and PageImages.                    *)
(***************************************************************************)
EXTENDS Integers, Sequences, FiniteSets, FiniteSetsExt

CONSTANTS Parsers,
          Consumers,     \* page_concurrency
          NPages,        \* pages of the document
          QueueSize,     \* queue_size
          Scenarios      \* what kind of run, and the bounds of each kind

\* manifest: records come from a manifest (distributed shards).  Bounds: runs
\* started, signals received, processes killed, exceptions raised while assembling
\* or writing, replacements of the input, which may come during a run or not.
ASSUME DocumentAssumption ==
  /\ NPages \in Nat \ {0} /\ QueueSize \in Nat \ {0}
  /\ IsFiniteSet(Consumers) /\ Consumers # {}
  /\ IsFiniteSet(Scenarios)
  /\ Scenarios \subseteq [manifest : BOOLEAN, duringRuns : BOOLEAN, starts : Nat,
                          signals : Nat, crashes : Nat, errors : Nat, edits : Nat]

VARIABLES
  parser,    \* each process
  files,     \* the Markdown files of the output directory, by number
  sidecar,   \* .ocr_status.json
  input,     \* version of the input file
  announced, \* history: the output was reported as a success, and nothing since
             \* asked for the output of another version
  left       \* the scenario, and how much of its bounds is left

documentVars == <<parser, files, sidecar, input, announced, left>>

-----------------------------------------------------------------------------
Pages == 1 .. NPages
Names == 1 .. Cardinality(Parsers)   \* <stem>.md, <stem>_2.md, ...
NoName == 0
Versions == 1 .. 1 + Max({s.edits : s \in Scenarios})

Absent == 0         \* no result, no text
Placeholder == -1   \* the page failed
Content == {Absent, Placeholder} \cup Versions

Idle == 0           \* a consumer that waits on the queue
End == -1           \* the None that stops a consumer

Blank == [p \in Pages |-> Absent]
NoFile == [exists |-> FALSE, owner |-> {}, text |-> Blank]
NoSidecar == [status |-> "none", input |-> 1, md |-> NoName, pages |-> 0]
NoFiles == [n \in Names |-> NoFile]

Down == [at |-> "down", row |-> 1, shutdown |-> FALSE, verdict |-> "none",
         queued |-> 0, expected |-> NPages, blocked |-> FALSE, ends |-> 0,
         queue |-> <<>>, busy |-> [c \in Consumers |-> Idle],
         result |-> Blank, md |-> NoName, written |-> 0]

Live(x) == parser[x].at \notin {"down", "ended"}

DocumentInit ==
  /\ parser = [x \in Parsers |-> Down]
  /\ files = NoFiles
  /\ sidecar = NoSidecar
  /\ input = 1
  /\ announced = FALSE
  /\ left \in Scenarios

Spend(what) == left[what] > 0 /\ left' = [left EXCEPT ![what] = @ - 1]

Becomes(x, changes) ==
  parser' = [parser EXCEPT ![x] =
               [f \in DOMAIN @ |-> IF f \in DOMAIN changes THEN changes[f] ELSE @[f]]]

-----------------------------------------------------------------------------
(* What a run makes of the output directory it finds.                      *)

HasText(n) ==
  n \in Names /\ files[n].exists /\ files[n].text # Blank

\* check_output_artifacts: a success sidecar whose artifacts are there
ArtifactsOk ==
  sidecar.status = "success" /\ HasText(sidecar.md)

\* where no sidecar is required: it decides if there is one, else the first
\* Markdown file does
FirstFile ==
  IF \E n \in Names : files[n].exists
    THEN CHOOSE n \in Names :
           files[n].exists /\ \A m \in 1 .. n - 1 : ~files[m].exists
    ELSE NoName

LenientlyProcessed ==
  IF sidecar.status # "none" THEN ArtifactsOk ELSE HasText(FirstFile)

AcceptedFile == IF sidecar.status # "none" THEN sidecar.md ELSE FirstFile

\* A bug to test with: the strict check of a manifest row falls back on a
\* Markdown file as well
StrictAcceptsLegacy(row) ==
  LenientlyProcessed /\ (sidecar.status # "none" => sidecar.input = row)

\* A bug to test with: the snapshot in the sidecar is not compared with the
\* manifest row
StrictIgnoresSnapshot(row) == ArtifactsOk

\* with require_status_sidecar, against the snapshot of the manifest row
StrictlyProcessed(row) ==
  ArtifactsOk /\ sidecar.input = row

CleanOutput(row) ==
  /\ files' = NoFiles /\ sidecar' = NoSidecar
  /\ announced' = (announced /\ ~(left.manifest /\ sidecar.input # row))

-----------------------------------------------------------------------------
(* The command line up to the call of parse_file.                          *)

\* the manifest may be an old one
Launch(x) ==
  /\ ~Live(x)
  /\ Spend("starts")
  /\ \E row \in IF left.manifest THEN 1 .. input ELSE {1} :
       parser' = [parser EXCEPT ![x] = [Down EXCEPT !.at = "checking", !.row = row]]
  /\ UNCHANGED <<files, sidecar, input, announced>>

\* a shutdown before the record is reached
LeaveOut(x) ==
  /\ parser[x].at = "checking" /\ parser[x].shutdown
  /\ Becomes(x, [at |-> "ending"])
  /\ UNCHANGED <<files, sidecar, input, announced, left>>

CheckLocal(x) ==
  /\ parser[x].at = "checking" /\ ~parser[x].shutdown
  /\ ~left.manifest
  /\ Becomes(x, [at |-> "opening"])
  /\ UNCHANGED <<files, sidecar, input, announced, left>>

\* the input is not the one the manifest row names
RefuseStale(x) ==
  /\ parser[x].at = "checking" /\ ~parser[x].shutdown
  /\ left.manifest /\ input # parser[x].row
  /\ sidecar' = [status |-> "failed", input |-> input, md |-> NoName, pages |-> 1]
  /\ Becomes(x, [at |-> "announcing", verdict |-> "failed"])
  /\ announced' = FALSE
  /\ UNCHANGED <<files, input, left>>

CheckRecord(x) ==
  /\ parser[x].at = "checking" /\ ~parser[x].shutdown
  /\ left.manifest /\ input = parser[x].row
  /\ \/ /\ StrictlyProcessed(parser[x].row)
        /\ Becomes(x, [at |-> "announcing", verdict |-> "skipped", md |-> sidecar.md])
        /\ UNCHANGED <<files, sidecar, announced>>
     \/ /\ ~StrictlyProcessed(parser[x].row)
        /\ CleanOutput(parser[x].row)
        /\ Becomes(x, [at |-> "opening"])
  /\ UNCHANGED <<input, left>>

\* parse_file: its own look at the output, in either mode
ParseFile(x) ==
  /\ parser[x].at = "opening"
  /\ \/ /\ LenientlyProcessed
        /\ Becomes(x, [at |-> "announcing", verdict |-> "skipped", md |-> AcceptedFile])
        /\ UNCHANGED <<files, sidecar, announced>>
     \/ /\ ~LenientlyProcessed
        /\ CleanOutput(parser[x].row)
        /\ Becomes(x, [at |-> "parsing"])
  /\ UNCHANGED <<input, left>>

-----------------------------------------------------------------------------
(* The producer and the consumers of one document.                         *)

Producing(x) ==
  parser[x].at = "parsing" /\ parser[x].queued < parser[x].expected

\* A bug to test with: one page more than the queue holds
QueuesTooMany(x) == Len(parser[x].queue) <= QueueSize

HasRoom(x) == Len(parser[x].queue) < QueueSize

\* the flag is read before each put; a put that blocked goes on regardless
QueuePage(x) ==
  /\ Producing(x)
  /\ ~parser[x].shutdown \/ parser[x].blocked
  /\ HasRoom(x)
  /\ Becomes(x, [queue |-> Append(parser[x].queue, parser[x].queued + 1),
                 queued |-> parser[x].queued + 1, blocked |-> FALSE])
  /\ UNCHANGED <<files, sidecar, input, announced, left>>

BlockOnQueue(x) ==
  /\ Producing(x)
  /\ ~parser[x].shutdown /\ ~parser[x].blocked
  /\ ~HasRoom(x)
  /\ Becomes(x, [blocked |-> TRUE])
  /\ UNCHANGED <<files, sidecar, input, announced, left>>

\* graceful shutdown: what is queued becomes all that is expected
StopProducing(x) ==
  /\ Producing(x)
  /\ parser[x].shutdown /\ ~parser[x].blocked
  /\ Becomes(x, [expected |-> parser[x].queued])
  /\ UNCHANGED <<files, sidecar, input, announced, left>>

\* A bug to test with: one end mark for all consumers
QueueOneEnd(x) ==
  /\ parser[x].at = "parsing" /\ ~Producing(x)
  /\ parser[x].ends = 0
  /\ HasRoom(x)
  /\ Becomes(x, [queue |-> Append(parser[x].queue, End),
                 ends |-> Cardinality(Consumers)])
  /\ UNCHANGED <<files, sidecar, input, announced, left>>

QueueEnd(x) ==
  /\ parser[x].at = "parsing" /\ ~Producing(x)
  /\ parser[x].ends < Cardinality(Consumers)
  /\ HasRoom(x)
  /\ Becomes(x, [queue |-> Append(parser[x].queue, End),
                 ends |-> parser[x].ends + 1])
  /\ UNCHANGED <<files, sidecar, input, announced, left>>

TakePage(x, c) ==
  /\ parser[x].at = "parsing"
  /\ parser[x].busy[c] = Idle /\ parser[x].queue # <<>>
  /\ Becomes(x, [busy |-> [parser[x].busy EXCEPT ![c] = Head(parser[x].queue)],
                 queue |-> Tail(parser[x].queue)])
  /\ UNCHANGED <<files, sidecar, input, announced, left>>

\* rendered from the input as it is now; any error is a result as well
FinishPage(x, c) ==
  /\ parser[x].at = "parsing"
  /\ parser[x].busy[c] \in Pages
  /\ \E content \in {input, Placeholder} :
       Becomes(x, [result |-> [parser[x].result EXCEPT ![parser[x].busy[c]] = content],
                   busy |-> [parser[x].busy EXCEPT ![c] = Idle]])
  /\ UNCHANGED <<files, sidecar, input, announced, left>>

-----------------------------------------------------------------------------
(* The document: Markdown, sidecar, event, in this order.                  *)

\* A bug to test with: results are collected when the producer is done, not the
\* consumers
ConsumedWhenQueued(x) ==
  ~Producing(x) /\ parser[x].ends = Cardinality(Consumers)

AllConsumed(x) ==
  /\ ~Producing(x)
  /\ \A c \in Consumers : parser[x].busy[c] = End

PageOf(x, p) ==   \* a page without a result counts as failed
  IF parser[x].result[p] = Absent THEN Placeholder ELSE parser[x].result[p]

Expected(x) == 1 .. parser[x].expected

FreeName == CHOOSE n \in Names :
              ~files[n].exists /\ \A m \in 1 .. n - 1 : files[m].exists

Assemble(x) ==
  /\ parser[x].at = "parsing" /\ AllConsumed(x)
  /\ \/ /\ \A p \in Expected(x) : PageOf(x, p) = Placeholder
        /\ Becomes(x, [at |-> "finishing", verdict |-> "failed"])
        /\ UNCHANGED files
     \/ /\ \E p \in Expected(x) : PageOf(x, p) # Placeholder
        /\ files' = [files EXCEPT ![FreeName] =
                       [exists |-> TRUE, owner |-> {x}, text |-> Blank]]
        /\ Becomes(x, [at |-> "writing", md |-> FreeName])
  /\ UNCHANGED <<sidecar, input, announced, left>>

\* the handle of a file another parser removed writes nothing to be found
WritePage(x) ==
  /\ parser[x].at = "writing" /\ parser[x].written < parser[x].expected
  /\ LET p == parser[x].written + 1
         n == parser[x].md
     IN  /\ files' = IF x \in files[n].owner
                       THEN [files EXCEPT ![n].text[p] = PageOf(x, p)] ELSE files
         /\ Becomes(x, [written |-> p])
  /\ UNCHANGED <<sidecar, input, announced, left>>

\* A bug to test with: the sidecar is written as a success as soon as a page
\* succeeded
StatusOfSomePage(x) ==
  IF \E p \in Expected(x) : PageOf(x, p) # Placeholder THEN "success" ELSE "failed"

Status(x) ==
  IF \A p \in Expected(x) : PageOf(x, p) # Placeholder THEN "success" ELSE "failed"

\* A bug to test with: the event goes out before the sidecar is written
AnnouncesFirst(x) ==
  /\ parser[x].at = "writing" /\ parser[x].written = parser[x].expected
  /\ announced' = (announced \/ Status(x) = "success")
  /\ Becomes(x, [at |-> "finishing", verdict |-> Status(x)])
  /\ UNCHANGED <<files, sidecar, input, left>>

FinishDocument(x) ==
  /\ parser[x].at = "writing" /\ parser[x].written = parser[x].expected
  /\ Becomes(x, [at |-> "finishing", verdict |-> Status(x)])
  /\ UNCHANGED <<files, sidecar, input, announced, left>>

\* the size and time of the input are taken now, not when it was rendered
WriteSidecar(x) ==
  /\ parser[x].at = "finishing"
  /\ sidecar' = [status |-> parser[x].verdict, input |-> input,
                 md |-> parser[x].md, pages |-> parser[x].expected]
  /\ Becomes(x, [at |-> "announcing"])
  /\ UNCHANGED <<files, input, announced, left>>

\* an exception is answered by a failed sidecar; a second one ends the run
Raise(x) ==
  /\ \/ parser[x].at \in {"writing", "finishing", "raised"}
     \/ parser[x].at = "parsing" /\ AllConsumed(x)
  /\ Spend("errors")
  /\ \/ parser[x].at # "raised" /\ Becomes(x, [at |-> "raised"])
     \/ parser[x].at = "raised" /\ Becomes(x, [at |-> "ending", verdict |-> "raised"])
  /\ UNCHANGED <<files, sidecar, input, announced>>

SidecarAfterError(x) ==
  /\ parser[x].at = "raised"
  /\ sidecar' = [status |-> "failed", input |-> input, md |-> NoName, pages |-> 0]
  /\ Becomes(x, [at |-> "announcing", verdict |-> "failed"])
  /\ UNCHANGED <<files, input, announced, left>>

Announce(x) ==
  /\ parser[x].at = "announcing"
  /\ announced' = (announced \/ parser[x].verdict = "success")
  /\ Becomes(x, [at |-> "ending"])
  /\ UNCHANGED <<files, sidecar, input, left>>

EndRun(x) ==
  /\ parser[x].at = "ending"
  /\ Becomes(x, [at |-> "ended"])
  /\ UNCHANGED <<files, sidecar, input, announced, left>>

-----------------------------------------------------------------------------
(* What happens to a run.                                                  *)

Signal(x) ==
  /\ Live(x) /\ ~parser[x].shutdown
  /\ Spend("signals")
  /\ Becomes(x, [shutdown |-> TRUE])
  /\ UNCHANGED <<files, sidecar, input, announced>>

Crash(x) ==
  /\ Live(x)
  /\ Spend("crashes")
  /\ parser' = [parser EXCEPT ![x] = Down]
  /\ UNCHANGED <<files, sidecar, input, announced>>

ReplaceInput ==
  /\ Spend("edits")
  /\ left.duringRuns \/ \A x \in Parsers : ~Live(x)
  /\ input' = input + 1
  /\ UNCHANGED <<parser, files, sidecar, announced>>

RunStep(x) ==
  \/ LeaveOut(x) \/ CheckLocal(x) \/ RefuseStale(x) \/ CheckRecord(x) \/ ParseFile(x)
  \/ QueuePage(x) \/ BlockOnQueue(x) \/ StopProducing(x) \/ QueueEnd(x)
  \/ \E c \in Consumers : TakePage(x, c) \/ FinishPage(x, c)
  \/ Assemble(x) \/ WritePage(x) \/ FinishDocument(x) \/ WriteSidecar(x)
  \/ SidecarAfterError(x) \/ Announce(x) \/ EndRun(x)

DocumentNext ==
  \/ \E x \in Parsers : RunStep(x) \/ Launch(x) \/ Raise(x) \/ Signal(x) \/ Crash(x)
  \/ ReplaceInput

DocumentSpec == DocumentInit /\ [][DocumentNext]_documentVars

\* A process that is not killed goes on: its tasks wait for nothing but each
\* other, the process pool and calls that time out.
FairDocumentSpec ==
  DocumentSpec /\ \A x \in Parsers : WF_documentVars(RunStep(x))

-----------------------------------------------------------------------------
(* What the output directory promises.                                     *)

DocumentTypeOK ==
  /\ \A x \in Parsers :
       /\ parser[x].at \in {"down", "checking", "opening", "parsing", "writing",
              "finishing", "raised", "announcing", "ending", "ended"}
       /\ parser[x].verdict \in {"none", "success", "failed", "skipped", "raised"}
       /\ parser[x].queued \in 0 .. parser[x].expected
       /\ parser[x].expected \in 0 .. NPages
       /\ parser[x].written \in 0 .. parser[x].expected
       /\ parser[x].ends \in 0 .. Cardinality(Consumers)
       /\ Len(parser[x].queue) <= QueueSize
       /\ parser[x].busy \in [Consumers -> Pages \cup {Idle, End}]
       /\ parser[x].result \in [Pages -> Content]
       /\ parser[x].row \in Versions /\ parser[x].md \in Names \cup {NoName}
  /\ \A n \in Names : /\ files[n].text \in [Pages -> Content]
                       /\ files[n].owner \subseteq Parsers
  /\ sidecar.status \in {"none", "success", "failed"}
  /\ sidecar.md \in Names \cup {NoName} /\ sidecar.pages \in 0 .. NPages
  /\ input \in Versions /\ announced \in BOOLEAN

\* Whatever the interleaving of producer and consumers, and wherever a signal
\* cuts production short, every page that is expected has a result by the time
\* the results are collected: "Page data was lost." (document_parser.py:322)
\* is never written.
NoPageLost ==
  \A x \in Parsers :
    parser[x].at \in {"writing", "finishing"} =>
      \A p \in Expected(x) : parser[x].result[p] # Absent

\* A success sidecar describes the file it names: every page it counts was
\* rendered, none is a placeholder or missing, however the run that wrote it
\* was interleaved with errors and with the runs before it.
SidecarTruthful ==
  sidecar.status = "success" =>
    /\ HasText(sidecar.md)
    /\ \A p \in 1 .. sidecar.pages : files[sidecar.md].text[p] \in Versions

Skips(x) == parser[x].verdict # "skipped" /\ parser'[x].verdict = "skipped"

\* A run that leaves a document alone because it is already processed leaves
\* every page of it alone: a partial output is not treated as success.
SkippedIsWhole ==
  [][\A x \in Parsers : Skips(x) =>
       /\ parser'[x].md \in Names
       /\ \A p \in Pages : files[parser'[x].md].text[p] \in Versions]_documentVars

\* A shard that skips a document skips the version its manifest row names.
SkippedIsTheRow ==
  [][\A x \in Parsers : Skips(x) /\ parser'[x].md \in Names =>
       \A p \in Pages :
         files[parser'[x].md].text[p] \in {parser[x].row, Absent}]_documentVars

\* What was once reported as done stays done: its sidecar was on disk before the
\* event, so no crash or error after it makes a later run of the same version
\* throw the output away.
DoneIsDurable ==
  announced => sidecar.status = "success" /\ HasText(sidecar.md)

\* A run that skips a document skips all of it, and the version asked for.
SkippedIsRight == SkippedIsWhole /\ SkippedIsTheRow

\* A sidecar tells the truth about the files beside it, and a report of success
\* is backed by one.
DiskTruthful == DocumentTypeOK /\ SidecarTruthful /\ DoneIsDurable

\* Neither what is on disk nor what is on its way there misses what it promises.
OutputTruthful == DiskTruthful /\ NoPageLost

\* Every run ends, shut down or not: the producer, blocked on the bounded queue,
\* and the consumers, waiting for their end mark, release each other.
RunsEnd ==
  \A x \in Parsers : Live(x) ~> ~Live(x)

=============================================================================
