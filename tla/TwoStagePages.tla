---------------------------- MODULE TwoStagePages ----------------------------
(***************************************************************************)
(* Pages in the engines that first ask for a layout and then recognise its *)
(* blocks one by one: PaddleOCR-VL (engines/paddleocr_vl.py) with its      *)
(* layout service, limits on layout calls and waiting for pending blocks,  *)
(* and MinerU (native_openai.py) with slots for recognition that leave     *)
(* room for layouts; recognize_layout_blocks (two_stage.py) under both.    *)
(*                                                                         *)
(* The tasks of one event loop interleave at awaits.  A block task of an   *)
(* attempt runs on when another one fails and the page is tried again:     *)
(* gather passes the first failure on and cancels nothing.  The first      *)
(* blocks of a layout are those to recognise, the others are kept as they  *)
(* are.                                                                    *)
(***************************************************************************)
EXTENDS Integers, FiniteSets, FiniteSetsExt

CONSTANTS Pages, MaxBlocks, MaxTries,
          Concurrency, \* block_concurrency
          LayoutRoom,  \* paddle_layout_concurrency, 0 for no limit
          High,        \* paddle_block_backpressure_high_watermark, 0 for none
          SlotLimits   \* the values of _mineru_recognition_api_limit

VARIABLE engine

-----------------------------------------------------------------------------
Tries == 1 .. MaxTries
Blocks == 1 .. MaxBlocks
Tasks == Pages \X Tries \X Blocks

Blockless(at, try) == [at |-> at, try |-> try, blocks |-> 0]
Unstarted == Blockless("queued", 1)

EngineInit ==
  engine \in [kind : {"paddleocr-vl", "mineru"},
              page : [Pages -> {Unstarted}],
              task : [Tasks -> {"none"}],
              pending : {0},      \* _paddle_blocks_pending
              active : {0},       \* slots in use of _DynamicAsyncLimiter
              limit : {Max(SlotLimits)}]

Paddle == engine.kind = "paddleocr-vl"
At(p) == engine.page[p].at
Try(p) == engine.page[p].try

Moves(p, at) == engine' = [engine EXCEPT !.page[p].at = at]

-----------------------------------------------------------------------------
(* The layout of a page.                                                   *)

\* _wait_for_block_backpressure: the loop ends as soon as less than High blocks
\* are pending, whatever the low watermark is.
NoPressure == High = 0 \/ engine.pending < High

\* Looked at before the semaphore and again once it is held.
Waited(p) ==
  /\ Paddle /\ At(p) = "queued" /\ NoPressure
  /\ Moves(p, IF LayoutRoom = 0 THEN "detecting" ELSE "lining")

AskLayout(p) == ~ Paddle /\ At(p) = "queued" /\ Moves(p, "detecting")

InLayout == {p \in Pages : At(p) \in {"holding", "detecting"}}

TakeLayoutSlot(p) ==
  /\ At(p) = "lining" /\ Cardinality(InLayout) < LayoutRoom
  /\ Moves(p, "holding")

WaitedAgain(p) == At(p) = "holding" /\ NoPressure /\ Moves(p, "detecting")

\* A layout of n blocks to recognise: their tasks are created at once.
LayoutFound(p) ==
  /\ At(p) = "detecting"
  /\ \E n \in 1 .. MaxBlocks :
       engine' = [engine EXCEPT
         !.page[p] = [at |-> "recognising", try |-> Try(p), blocks |-> n],
         !.task = [t \in Tasks |-> IF t[1] = p /\ t[2] = Try(p) /\ t[3] <= n
                                     THEN "waiting" ELSE @[t]],
         !.pending = IF Paddle THEN @ + n ELSE @]

\* Nothing to recognise, or a layout MinerU cannot use and shows as it is.
NothingToRecognise(p) == At(p) = "detecting" /\ Moves(p, "done")

\* No layout: PaddleOCR-VL reads the page as one picture.
SingleStage(p) == Paddle /\ At(p) = "detecting" /\ Moves(p, "single")

\* _run_with_retries
Retried(p) ==
  IF Try(p) < MaxTries THEN Blockless("queued", Try(p) + 1) ELSE Blockless("failed", Try(p))

\* The error is passed on at once, or after back-off tried again.
CallFails(p) ==
  /\ At(p) = "single" \/ (~ Paddle /\ At(p) = "detecting")
  /\ \E after \in {Retried(p), Blockless("failed", Try(p))} :
       engine' = [engine EXCEPT !.page[p] = after]

SingleRead(p) == At(p) = "single" /\ Moves(p, "done")

-----------------------------------------------------------------------------
(* The blocks of a page.                                                   *)

OfTry(p, try) == {t \in Tasks : t[1] = p /\ t[2] = try}
Running == {"asking", "calling"}
RunningOf(p, try) == {t \in OfTry(p, try) : engine.task[t] \in Running}

TaskMoves(t, at) == engine' = [engine EXCEPT !.task[t] = at]

\* The semaphore of recognize_layout_blocks, one for every attempt.
StartBlock(t) ==
  /\ engine.task[t] = "waiting"
  /\ Cardinality(RunningOf(t[1], t[2])) < Concurrency
  /\ IF Paddle THEN TaskMoves(t, "calling")
       ELSE \E limit \in SlotLimits :  \* slot(limit): the last to ask sets it for all
              engine' = [engine EXCEPT !.task[t] = "asking", !.limit = limit]

TakeSlot(t) ==
  /\ engine.task[t] = "asking" /\ engine.active < engine.limit
  /\ engine' = [engine EXCEPT !.task[t] = "calling", !.active = @ + 1]

IsOrphan(t) == At(t[1]) # "recognising" \/ Try(t[1]) # t[2]

Returned(t, at) ==
  [engine EXCEPT !.task[t] = at, !.active = IF Paddle THEN @ ELSE @ - 1]

BlockRead(t) ==
  engine.task[t] = "calling" /\ engine' = Returned(t, IF IsOrphan(t) THEN "none" ELSE "read")

\* A bug to test with: a page that fails leaves its blocks in the count
LeavesPending(p, next) == next

\* The finally around recognize_layout_blocks.
Unpend(p, next) ==
  [next EXCEPT !.pending = IF Paddle THEN @ - engine.page[p].blocks ELSE @]

\* The first block that fails ends the attempt; the others run on.
BlockFails(t) ==
  LET p == t[1]
      failed == Returned(t, "none")
      forgotten == [u \in Tasks |-> IF u \in OfTry(p, Try(p)) /\ failed.task[u] = "read"
                                      THEN "none" ELSE failed.task[u]]
  IN  /\ engine.task[t] = "calling"
      /\ IF IsOrphan(t) THEN engine' = failed
         ELSE \E after \in {Retried(p), Blockless("failed", Try(p))} :
                engine' = Unpend(p, [failed EXCEPT !.page[p] = after, !.task = forgotten])

AllRead(p) ==
  /\ At(p) = "recognising"
  /\ \A t \in OfTry(p, Try(p)) : engine.task[t] \in {"none", "read"}
  /\ engine' = Unpend(p, [engine EXCEPT !.page[p].at = "done",
                             !.task = [t \in Tasks |-> IF t \in OfTry(p, Try(p)) THEN "none"
                                                         ELSE @[t]]])

-----------------------------------------------------------------------------
LayoutStep(p) ==
  \/ Waited(p) \/ AskLayout(p) \/ TakeLayoutSlot(p) \/ WaitedAgain(p)
  \/ LayoutFound(p) \/ NothingToRecognise(p) \/ SingleStage(p)
  \/ CallFails(p) \/ SingleRead(p) \/ AllRead(p)
BlockStep(t) == StartBlock(t) \/ TakeSlot(t) \/ BlockRead(t) \/ BlockFails(t)

EngineNext == (\E p \in Pages : LayoutStep(p)) \/ (\E t \in Tasks : BlockStep(t))

-----------------------------------------------------------------------------
(* Properties of an engine.                                                *)

Ended == {"done", "failed"}

\* The numbers that let pages and blocks through are those of the work under way,
\* whatever fails and is tried again: the blocks of the pages being recognised,
\* the calls that hold a slot, and no more calls of an attempt than it may make.
CountsTrue ==
  LET pending == {b \in Pages \X Blocks :
                    At(b[1]) = "recognising" /\ b[2] <= engine.page[b[1]].blocks}
      calling == {t \in Tasks : engine.task[t] = "calling"}
  IN  /\ Paddle => engine.pending = Cardinality(pending)
      /\ ~ Paddle => engine.active = Cardinality(calling) /\ engine.active <= Max(SlotLimits)
      /\ (LayoutRoom > 0 /\ Paddle) => Cardinality(InLayout) <= LayoutRoom
      /\ \A p \in Pages, try \in Tries : Cardinality(RunningOf(p, try)) <= Concurrency

\* Every page comes to an end: no failure leaves behind blocks, slots or layout
\* calls that others wait for.
AllPagesEnded == \A p \in Pages : At(p) \in Ended

=============================================================================
