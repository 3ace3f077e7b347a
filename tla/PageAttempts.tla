---------------------------- MODULE PageAttempts ----------------------------
(***************************************************************************)
(* One page in the DotsOCR engine (engines/dotsocr.py) and the series of   *)
(* inference calls under it (runtime.py): retries one after the other,     *)
(* races of several calls, the last race, and the fallbacks to plain text  *)
(* and to a picture of the page.  What the calls wait for is the subject   *)
(* of InferenceGate.                                                       *)
(*                                                                         *)
(* An answer of the model is good, malformed (it has text but not the      *)
(* structure of a layout), broken (it cannot be processed at all) or       *)
(* empty.  An error is its type, its HTTP status and the words its message *)
(* has for the code that searches it.                                      *)
(***************************************************************************)
EXTENDS Integers, Sequences, SequencesExt

CONSTANTS MaxRetries, \* the limits a page may have
          Lanes,      \* the values of concurrent_retries
          Errors      \* what a call may fail with

VARIABLE page

-----------------------------------------------------------------------------
(* Errors.                                                                 *)

NoStatus == 0
Error(type, status, words) == [type |-> type, status |-> status, words |-> words]
NoError == Error("none", NoStatus, {})
CircuitOpen == Error("CircuitOpenError", NoStatus, {})
OutputError == Error("NonStandardModelOutputError", NoStatus, {})
BrokenError == Error("ValueError", NoStatus, {})
DiskError == Error("OSError", NoStatus, {"no space left on device"})

TimeoutTypes == {"TimeoutError", "TimeoutException"}
NetworkTypes == {"ConnectError", "NetworkError", "TransportError"}
HttpTypes == {"TimeoutException", "HTTPStatusError"} \cup NetworkTypes
RetriedTypes == {"APIError", "RateLimitError", "ServiceUnavailableError",
                 "GatewayTimeoutError", "OverloadedError"}
RetriedWords == {"timeout", "temporarily", "try again", "connection", "rate limit",
                 "overloaded", "unavailable", "backlog", "empty response", "server busy"}

\* _is_transient_inference_error
Transient(e) ==
  \/ e.type \in TimeoutTypes \cup HttpTypes \cup RetriedTypes
  \/ e.words \cap RetriedWords # {}

\* The first row of a table whose words the message has.
FirstMatch(e, table, otherwise) ==
  LET found == SelectSeq(table, LAMBDA row : e.words \cap row[1] # {})
  IN  IF found = <<>> THEN otherwise ELSE found[1][2]

\* infer_failure_category, on a message without a return code
FailureTable ==
  << <<{"killed"}, "process_killed">>,
     <<{"out of memory"}, "resource_exhausted">>,
     <<{"input file missing"}, "input_missing">>,
     <<{"timed out", "timeout"}, "api_timeout">>,
     <<{"connection refused"}, "model_unreachable">>,
     <<{"invalid model response"}, "model_output_invalid">>,
     <<{"401", "403"}, "model_auth_failed">>,
     <<{"429", "rate limit"}, "model_rate_limited">>,
     <<{"502", "503", "overloaded"}, "model_unavailable">>,
     <<{"status code"}, "model_error">>,
     <<{"no space left on device"}, "output_unwritable">>,
     <<{"malformed pdf"}, "input_invalid">>,
     <<{"artifact_missing"}, "artifact_missing">>,
     <<{"input file changed"}, "input_changed">> >>
FailureCategory(e) ==
  IF e = NoError THEN "unknown" ELSE FirstMatch(e, FailureTable, "parser_failed")

\* classify_api_error
ApiCategory(e, stage) ==
  IF e.type \in TimeoutTypes \cup {"APITimeoutError"} THEN "timeout"
  ELSE IF e.status = 429 \/ e.type = "RateLimitError" \/ "rate limit" \in e.words THEN "rate_limit"
  ELSE IF e.status # NoStatus THEN "http_status"
  ELSE IF e.type \in NetworkTypes \cup {"APIConnectionError"} THEN "network"
  ELSE IF stage = "model_output" \/ e.type = "NonStandardModelOutputError" THEN "model_output"
  ELSE IF e.type \in {"APIError", "OpenAIError"} THEN "api_error"
  ELSE IF "empty response" \in e.words THEN "model_output" ELSE "unexpected"

-----------------------------------------------------------------------------
(* The state of a page.                                                    *)

Answers == {"good", "malformed", "broken", "empty"}
NoAnswer == "none"

PageInit ==
  page \in [at : {"trying"}, limit : MaxRetries, lanes : Lanes, used : {0}, calls : {0},
            attempt : {0}, racing : {FALSE}, answer : {NoAnswer}, error : {NoError},
            reported : {<<>>}, result : {"none"}, stages : {<<>>}]

Remaining(p) == p.limit - p.used
Smaller(a, b) == IF a < b THEN a ELSE b
RaceLanes(p) == Smaller(p.lanes, Remaining(p))
HasAnswer(p) == p.answer \notin {NoAnswer, "empty"}

Becomes(p) == page' = p

\* Back to the loop of _run_primary_attempts, or out of it.
Looped(p) == [p EXCEPT !.at = IF p.used < p.limit THEN "trying" ELSE "last", !.attempt = 0]

Reported(p, e, stage) ==
  [p EXCEPT !.error = e, !.reported = Append(@, ApiCategory(e, stage))]

-----------------------------------------------------------------------------
(* Calls one after the other.                                              *)

Serial == page.at = "trying" /\ (~ page.racing \/ Remaining(page) <= 1)

StartSeries ==
  /\ Serial
  /\ Becomes([page EXCEPT !.at = "calling", !.racing = FALSE])

\* The open circuit refuses before anything is called.
SeriesRefused ==
  /\ Serial
  /\ Becomes([page EXCEPT !.at = "last", !.racing = FALSE, !.error = CircuitOpen])

CallAnswered ==
  /\ page.at = "calling"
  /\ \E answer \in Answers :
       Becomes([page EXCEPT !.at = "judging", !.calls = @ + 1, !.answer = answer,
                            !.used = @ + page.attempt + 1, !.attempt = 0])

\* _run_inference_with_retries: a series that fails uses up nothing of the limit.
CallFailed ==
  /\ page.at = "calling"
  /\ \E e \in Errors :
       LET again == page.attempt + 1 < Remaining(page) /\ Transient(e)
       IN  Becomes([page EXCEPT !.calls = @ + 1,
                                !.attempt = @ + 1,
                                !.at = IF again THEN @ ELSE "last",
                                !.error = IF again THEN @ ELSE e])

\* _record_data_issue
DataIssue(p, e) ==
  Looped([Reported(p, e, "model_output") EXCEPT
            !.racing = @ \/ (Remaining(p) > 0 /\ p.lanes > 1)])

AnswerRefused ==
  /\ page.at = "judging" /\ page.answer # "good"
  /\ Becomes(DataIssue(page, IF page.answer = "malformed" THEN OutputError ELSE BrokenError))

Succeeded(p) ==
  [p EXCEPT !.at = "done", !.result = "success",
            !.stages = << <<"primary_inference", "success">>, <<"postprocess", "success">> >>]

\* _save_success_result; outside a race nothing catches what it raises.
AnswerSaved ==
  /\ page.at = "judging" /\ page.answer = "good"
  /\ \/ Becomes(Succeeded(page))
     \/ Becomes([page EXCEPT !.at = "raised", !.error = DiskError])

-----------------------------------------------------------------------------
(* Several calls at once.                                                  *)

\* A bug to test with: a race costs its first call only
RacedOnce(p, outcome) == [outcome EXCEPT !.used = @ + 1]

\* The first answer of a race counts, the other calls are cancelled.  What it
\* costs is counted whatever comes of it.
Raced(p, outcome) == [outcome EXCEPT !.used = @ + RaceLanes(p)]

\* How a race fails: what the page has then, and the error.
RaceFailures(p) ==
  LET run == [p EXCEPT !.calls = @ + RaceLanes(p)]
      with(answer) == [run EXCEPT !.answer = answer]
  IN  {<<p, CircuitOpen>>, <<with("malformed"), OutputError>>, <<with("good"), DiskError>>}
        \cup {<<run, e>> : e \in Errors}
        \cup {<<with(answer), BrokenError>> : answer \in Answers \ {"good", "malformed"}}

RaceWon ==
  Becomes(Raced(page, Succeeded([page EXCEPT !.calls = @ + RaceLanes(page), !.answer = "good"])))

\* _run_concurrent_data_issue_retry
RaceAgain ==
  LET left == Remaining(page) - RaceLanes(page)
      afterwards(p, e) == [Reported(p, e, "concurrent_retry") EXCEPT
                             !.at = IF left > 0 THEN "trying" ELSE "last"]
  IN  /\ page.at = "trying" /\ page.racing /\ Remaining(page) > 1
      /\ \/ RaceWon
         \/ \E f \in RaceFailures(page) : Becomes(Raced(page, afterwards(f[1], f[2])))

\* _run_final_concurrent_retry
MayRaceLast(p) == p.lanes > 1 /\ Remaining(p) > 1

RaceLast ==
  /\ page.at = "last" /\ MayRaceLast(page)
  /\ \/ RaceWon
     \/ \E f \in RaceFailures(page) :
          Becomes(Raced(page, [f[1] EXCEPT !.at = "text", !.error = f[2]]))

NoLastRace ==
  /\ page.at = "last" /\ ~ MayRaceLast(page)
  /\ Becomes([page EXCEPT !.at = "text"])

-----------------------------------------------------------------------------
(* Fallbacks.                                                              *)

\* _failed_primary_stages
FailedStages(p) ==
  IF HasAnswer(p)
    THEN << <<"primary_inference", "success">>, <<"postprocess", FailureCategory(p.error)>> >>
    ELSE << <<"primary_inference", FailureCategory(p.error)>>, <<"postprocess", "skipped">> >>

\* _text_fallback_result: the last answer is processed once more, unchecked.
TextFound ==
  /\ page.at = "text" /\ page.answer \in {"good", "malformed"}
  /\ Becomes([page EXCEPT !.at = "done", !.result = "success_fallback_text",
                !.stages = FailedStages(page) \o << <<"text_fallback", "success">> >>])

\* Nothing readable in it, or nothing on the page.
NoText ==
  /\ page.at = "text"
  /\ Becomes([page EXCEPT !.at = "image"])

\* _image_fallback_result
PictureSaved ==
  /\ page.at = "image"
  /\ Becomes([page EXCEPT !.at = "done", !.result = "success_fallback_image",
                !.stages = FailedStages(page) \o
                  << <<"text_fallback", "parser_failed">>, <<"image_fallback", "success">> >>])

PictureFails ==
  /\ page.at = "image"
  /\ Becomes([page EXCEPT !.at = "done", !.result = "error",
                !.stages = FailedStages(page) \o
                  << <<"text_fallback", "parser_failed">>,
                     <<"image_fallback", "output_unwritable">> >>])

PageNext ==
  \/ StartSeries \/ SeriesRefused \/ CallAnswered \/ CallFailed \/ AnswerRefused \/ AnswerSaved
  \/ RaceAgain \/ RaceLast \/ NoLastRace
  \/ TextFound \/ NoText \/ PictureSaved \/ PictureFails

-----------------------------------------------------------------------------
(* Properties of a page.                                                   *)

\* However a page goes back and forth between series and races, every call is
\* paid for out of the limit of the page, but those of a series that went
\* unanswered: after it one race may still call the model.
BudgetHolds ==
  /\ page.used <= page.limit
  /\ page.calls <= page.used + page.attempt
  /\ page.used + page.attempt <= page.limit + Smaller(page.lanes, page.limit)

=============================================================================
