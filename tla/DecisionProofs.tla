--------------------------- MODULE DecisionProofs ---------------------------
(***************************************************************************)
(* What MCDecisions says of pages, engines, jobs, downloads, audits and    *)
(* diagnostics, for every value of its constants:                          *)
(*                                                                         *)
(*   - the calls of a page stay within the limit of the page, and the      *)
(*     counts of the two-stage engines are what their tasks add up to;     *)
(*   - what the preflight of a job says yes to can be done, and who may    *)
(*     claim a certified job runs what was certified;                      *)
(*   - the download pipeline loses no object and hands over whole files;   *)
(*   - both audits of a manifest come to one verdict, and a good one means *)
(*     that every file is in exactly one shard, for manifests, shards and  *)
(*     scan units of any length;                                           *)
(*   - the sections of the diagnostics agree, for tables of any size.      *)
(*                                                                         *)
(* What is read row by row or file by file is a recursive function of the  *)
(* place: a fact about every place is proved by the least place where it   *)
(* fails (LeastIsThere, ToTheEnd).                                         *)
(*                                                                         *)
(* Each machine has its inductive invariant and a lemma for each kind of   *)
(* step; the last section puts them together over DecisionSpec.            *)
(***************************************************************************)
EXTENDS MCDecisions, FiniteSetTheorems, WellFoundedInduction, TLAPS

-----------------------------------------------------------------------------
(* The calls of a page (PageAttempts).                                     *)

PageFields == {"at", "limit", "lanes", "used", "calls", "attempt", "racing", "answer",
               "error", "reported", "result", "stages"}

\* The numbers of a row whose attempts are all counted but for p.attempt.
PageCounts(p) ==
  /\ DOMAIN p = PageFields
  /\ p.limit \in Nat \ {0} /\ p.lanes \in Nat
  /\ p.used \in Nat /\ p.calls \in Nat /\ p.attempt \in Nat
  /\ p.used <= p.limit
  /\ p.calls <= p.used + p.attempt
  /\ p.used + p.attempt <= p.limit + Page!Smaller(p.lanes, p.limit)

\* What is left of the limit at each place a page can be at.
PageInv(p) ==
  /\ PageCounts(p)
  /\ p.at = "trying" => p.attempt = 0 /\ p.used < p.limit
  /\ p.at = "calling" => p.used + p.attempt < p.limit
  /\ p.at = "judging" => p.attempt = 0
  /\ p.at = "last" => p.used + p.attempt <= p.limit

\* Noting an error leaves the numbers alone.
LEMMA ReportedCounts ==
  ASSUME NEW p, NEW e, NEW stage, DOMAIN p = PageFields
  PROVE  LET q == Page!Reported(p, e, stage)
         IN  /\ DOMAIN q = PageFields /\ q.at = p.at
             /\ q.limit = p.limit /\ q.lanes = p.lanes /\ q.used = p.used
             /\ q.calls = p.calls /\ q.attempt = p.attempt
  BY DEF Page!Reported, PageFields

\* A race takes no more than is left.
LEMMA RaceFits ==
  ASSUME NEW p, PageCounts(p)
  PROVE  /\ Page!RaceLanes(p) \in Nat
         /\ p.used + Page!RaceLanes(p) <= p.limit
         /\ Page!RaceLanes(p) <= Page!Smaller(p.lanes, p.limit)
  BY DEF Page!RaceLanes, Page!Remaining, Page!Smaller, PageCounts

\* A race that fails made all its calls or none.
LEMMA FailedRace ==
  ASSUME NEW p, DOMAIN p = PageFields, NEW f \in Page!RaceFailures(p)
  PROVE  /\ DOMAIN f[1] = PageFields
         /\ f[1].limit = p.limit /\ f[1].lanes = p.lanes /\ f[1].used = p.used
         /\ f[1].attempt = p.attempt /\ f[1].at = p.at
         /\ f[1].calls \in {p.calls, p.calls + Page!RaceLanes(p)}
  <1> DEFINE run == [p EXCEPT !.calls = @ + Page!RaceLanes(p)]
             with(answer) == [run EXCEPT !.answer = answer]
             Same(q) == /\ DOMAIN q = PageFields
                        /\ q.limit = p.limit /\ q.lanes = p.lanes /\ q.used = p.used
                        /\ q.attempt = p.attempt /\ q.at = p.at
  <1>1. \/ f[1] = p
        \/ f[1] = run
        \/ \E answer : f[1] = with(answer)
    <2>1. \E e : \/ f = <<p, e>>
                 \/ f = <<run, e>>
                 \/ \E answer : f = <<with(answer), e>>
      BY DEF Page!RaceFailures
    <2> HIDE DEF run, with
    <2> QED
      BY <2>1
  <1>2. Same(run) /\ run.calls = p.calls + Page!RaceLanes(p)
    BY DEF PageFields
  <1> HIDE DEF run
  <1>3. \A answer : Same(with(answer)) /\ with(answer).calls = run.calls
    BY <1>2 DEF PageFields
  <1> HIDE DEF with
  <1> QED
    BY <1>1, <1>2, <1>3

\* A race pays for its calls.
LEMMA RacePays ==
  ASSUME NEW p, PageCounts(p), NEW q, DOMAIN q = PageFields,
         q.limit = p.limit, q.lanes = p.lanes, q.used = p.used, q.attempt = p.attempt,
         q.calls \in {p.calls, p.calls + Page!RaceLanes(p)},
         p.used + p.attempt <= p.limit
  PROVE  /\ PageCounts(Page!Raced(p, q))
         /\ Page!Raced(p, q).used = p.used + Page!RaceLanes(p)
         /\ Page!Raced(p, q).at = q.at /\ Page!Raced(p, q).attempt = p.attempt
         /\ Page!Raced(p, q).limit = p.limit
  <1> DEFINE n == Page!RaceLanes(p)
  <1>1. /\ n \in Nat /\ p.used + n <= p.limit
        /\ n <= Page!Smaller(p.lanes, p.limit)
    BY RaceFits
  <1>2. Page!Raced(p, q) = [q EXCEPT !.used = p.used + n]
    BY DEF Page!Raced, PageFields
  <1> HIDE DEF n
  <1> DEFINE r == [q EXCEPT !.used = p.used + n]
  <1>3. /\ DOMAIN r = PageFields /\ r.used = p.used + n /\ r.limit = p.limit
        /\ r.lanes = p.lanes /\ r.calls = q.calls /\ r.attempt = p.attempt /\ r.at = q.at
    BY DEF PageFields
  <1> HIDE DEF r
  <1>4. q.calls \in {p.calls, p.calls + n}
    BY DEF n
  <1>5. PageCounts(r)
    <2>1. Page!Smaller(p.lanes, p.limit) \in Nat
      BY DEF PageCounts, Page!Smaller
    <2> QED
      BY <1>1, <1>3, <1>4, <2>1 DEF PageCounts
  <1> QED
    BY <1>2, <1>3, <1>5 DEF r, n

\* Going back to the loop keeps what was counted when nothing is uncounted.
LEMMA LoopedCounts ==
  ASSUME NEW p, PageCounts(p), p.calls <= p.used
  PROVE  PageInv(Page!Looped(p))
  <1>1. Page!Smaller(p.lanes, p.limit) \in Nat
    BY DEF PageCounts, Page!Smaller
  <1> DEFINE place == IF p.used < p.limit THEN "trying" ELSE "last"
             q == [p EXCEPT !.at = place, !.attempt = 0]
  <1>2. Page!Looped(p) = q
    BY DEF Page!Looped
  <1>3. /\ DOMAIN q = PageFields /\ q.at = place /\ q.attempt = 0
        /\ q.used = p.used /\ q.limit = p.limit /\ q.lanes = p.lanes /\ q.calls = p.calls
    BY DEF PageCounts, PageFields
  <1> HIDE DEF q
  <1>4. PageCounts(q)
    BY <1>1, <1>3 DEF PageCounts
  <1> QED
    BY <1>2, <1>3, <1>4 DEF PageInv, PageCounts

\* Every step of a page keeps the limit of the page.
LEMMA PageStep ==
  ASSUME PageInv(subject), Page!PageNext
  PROVE  PageInv(subject')
  <1> USE DEF Page!Becomes
  <1> DEFINE p == subject
  <1>0. /\ PageCounts(p) /\ DOMAIN p = PageFields
        /\ Page!Smaller(p.lanes, p.limit) \in Nat
    BY DEF PageInv, PageCounts, Page!Smaller
  <1>1. ASSUME NEW q, DOMAIN q = PageFields, q.limit = p.limit, q.lanes = p.lanes,
               q.used = p.used, q.calls = p.calls, q.attempt = p.attempt
        PROVE  PageCounts(q)
    BY <1>0, <1>1 DEF PageCounts
  <1>2. CASE Page!StartSeries
    <2>1. /\ p.at = "trying"
          /\ subject' = [p EXCEPT !.at = "calling", !.racing = FALSE]
      BY <1>2 DEF Page!StartSeries, Page!Serial
    <2>2. /\ DOMAIN subject' = PageFields /\ subject'.at = "calling"
          /\ subject'.limit = p.limit /\ subject'.lanes = p.lanes /\ subject'.used = p.used
          /\ subject'.calls = p.calls /\ subject'.attempt = p.attempt
      BY <1>0, <2>1 DEF PageFields
    <2>3. PageCounts(subject')
      BY <1>1, <2>2
    <2> QED
      BY <2>1, <2>2, <2>3 DEF PageInv, PageCounts
  <1>3. CASE Page!SeriesRefused
    <2>1. /\ p.at = "trying"
          /\ subject' = [p EXCEPT !.at = "last", !.racing = FALSE, !.error = Page!CircuitOpen]
      BY <1>3 DEF Page!SeriesRefused, Page!Serial
    <2>2. /\ DOMAIN subject' = PageFields /\ subject'.at = "last"
          /\ subject'.limit = p.limit /\ subject'.lanes = p.lanes /\ subject'.used = p.used
          /\ subject'.calls = p.calls /\ subject'.attempt = p.attempt
      BY <1>0, <2>1 DEF PageFields
    <2>3. PageCounts(subject')
      BY <1>1, <2>2
    <2> QED
      BY <2>1, <2>2, <2>3 DEF PageInv, PageCounts
  <1>4. CASE Page!CallAnswered
    <2>1. PICK answer \in Page!Answers :
            subject' = [p EXCEPT !.at = "judging", !.calls = @ + 1, !.answer = answer,
                                 !.used = @ + p.attempt + 1, !.attempt = 0]
      BY <1>4 DEF Page!CallAnswered
    <2>2. p.used + p.attempt < p.limit
      BY <1>4 DEF Page!CallAnswered, PageInv
    <2>3. /\ DOMAIN subject' = PageFields /\ subject'.at = "judging"
          /\ subject'.limit = p.limit /\ subject'.lanes = p.lanes
          /\ subject'.used = p.used + p.attempt + 1
          /\ subject'.calls = p.calls + 1 /\ subject'.attempt = 0
      BY <1>0, <2>1 DEF PageFields
    <2> QED
      BY <1>0, <2>2, <2>3 DEF PageInv, PageCounts
  <1>5. CASE Page!CallFailed
    <2> DEFINE again(e) == p.attempt + 1 < Page!Remaining(p) /\ Page!Transient(e)
    <2>1. PICK e \in CallErrors :
            subject' = [p EXCEPT !.calls = @ + 1, !.attempt = @ + 1,
                                 !.at = IF again(e) THEN @ ELSE "last",
                                 !.error = IF again(e) THEN @ ELSE e]
      BY <1>5 DEF Page!CallFailed
    <2>2. p.used + p.attempt < p.limit /\ p.at = "calling"
      BY <1>5 DEF Page!CallFailed, PageInv
    <2>3. /\ DOMAIN subject' = PageFields
          /\ subject'.at = IF again(e) THEN "calling" ELSE "last"
          /\ subject'.limit = p.limit /\ subject'.lanes = p.lanes
          /\ subject'.used = p.used
          /\ subject'.calls = p.calls + 1 /\ subject'.attempt = p.attempt + 1
      BY <1>0, <2>1, <2>2 DEF PageFields
    <2>4. again(e) => p.attempt + 1 < p.limit - p.used
      BY DEF Page!Remaining
    <2> QED
      BY <1>0, <2>2, <2>3, <2>4 DEF PageInv, PageCounts
  <1>6. CASE Page!AnswerRefused
    <2> DEFINE e == IF p.answer = "malformed" THEN Page!OutputError ELSE Page!BrokenError
               q == Page!Reported(p, e, "model_output")
               racing == q.racing \/ (Page!Remaining(p) > 0 /\ p.lanes > 1)
               r == [q EXCEPT !.racing = racing]
    <2>1. p.at = "judging" /\ subject' = Page!Looped(r)
      BY <1>6 DEF Page!AnswerRefused, Page!DataIssue
    <2>2. /\ DOMAIN q = PageFields
          /\ q.limit = p.limit /\ q.lanes = p.lanes /\ q.used = p.used
          /\ q.calls = p.calls /\ q.attempt = p.attempt
      BY <1>0, ReportedCounts
    <2> HIDE DEF q
    <2>3. /\ DOMAIN r = PageFields
          /\ r.limit = p.limit /\ r.lanes = p.lanes /\ r.used = p.used
          /\ r.calls = p.calls /\ r.attempt = p.attempt
      BY <2>2 DEF PageFields
    <2> HIDE DEF r
    <2>4. PageCounts(r)
      BY <1>1, <2>3
    <2>5. r.calls <= r.used
      BY <2>1, <2>3 DEF PageInv, PageCounts
    <2> QED
      BY <2>1, <2>4, <2>5, LoopedCounts
  <1>7. CASE Page!AnswerSaved
    <2>1. /\ DOMAIN subject' = PageFields /\ subject'.at \in {"done", "raised"}
          /\ subject'.limit = p.limit /\ subject'.lanes = p.lanes /\ subject'.used = p.used
          /\ subject'.calls = p.calls /\ subject'.attempt = p.attempt
      BY <1>0, <1>7 DEF Page!AnswerSaved, Page!Succeeded, PageFields
    <2>2. PageCounts(subject')
      BY <1>1, <2>1
    <2> QED
      BY <2>1, <2>2 DEF PageInv
  <1>8. ASSUME Page!RaceWon, p.used + p.attempt <= p.limit
        PROVE  PageInv(subject')
    <2> DEFINE q == [p EXCEPT !.calls = @ + Page!RaceLanes(p), !.answer = "good"]
               s == Page!Succeeded(q)
    <2>1. subject' = Page!Raced(p, s)
      BY <1>8 DEF Page!RaceWon
    <2>2. /\ DOMAIN s = PageFields /\ s.at = "done"
          /\ s.limit = p.limit /\ s.lanes = p.lanes /\ s.used = p.used
          /\ s.calls = p.calls + Page!RaceLanes(p) /\ s.attempt = p.attempt
      BY <1>0 DEF Page!Succeeded, PageFields
    <2> HIDE DEF s
    <2>3. PageCounts(subject') /\ subject'.at = "done"
      BY <1>0, <1>8, <2>1, <2>2, RacePays
    <2> QED
      BY <2>3 DEF PageInv
  <1>9. CASE Page!RaceAgain
    <2> DEFINE left == Page!Remaining(p) - Page!RaceLanes(p)
               place == IF left > 0 THEN "trying" ELSE "last"
    <2>1. p.at = "trying" /\ p.used + p.attempt <= p.limit /\ p.attempt = 0
      BY <1>9 DEF Page!RaceAgain, PageInv, PageCounts
    <2>2. ASSUME NEW f \in Page!RaceFailures(p),
                 subject' = Page!Raced(p, [Page!Reported(f[1], f[2], "concurrent_retry")
                                             EXCEPT !.at = place])
          PROVE  PageInv(subject')
      <3> DEFINE q == Page!Reported(f[1], f[2], "concurrent_retry")
                 r == [q EXCEPT !.at = place]
      <3>1. /\ DOMAIN f[1] = PageFields
            /\ f[1].limit = p.limit /\ f[1].lanes = p.lanes /\ f[1].used = p.used
            /\ f[1].attempt = p.attempt
            /\ f[1].calls \in {p.calls, p.calls + Page!RaceLanes(p)}
        BY <1>0, FailedRace
      <3>2. /\ DOMAIN q = PageFields
            /\ q.limit = p.limit /\ q.lanes = p.lanes /\ q.used = p.used
            /\ q.attempt = p.attempt /\ q.calls = f[1].calls
        BY <3>1, ReportedCounts
      <3> HIDE DEF q
      <3>3. /\ DOMAIN r = PageFields /\ r.at = place
            /\ r.limit = p.limit /\ r.lanes = p.lanes /\ r.used = p.used
            /\ r.attempt = p.attempt
            /\ r.calls \in {p.calls, p.calls + Page!RaceLanes(p)}
        BY <3>1, <3>2 DEF PageFields
      <3>4. subject' = Page!Raced(p, r)
        BY <2>2 DEF q
      <3> HIDE DEF r
      <3>5. /\ PageCounts(subject')
            /\ subject'.used = p.used + Page!RaceLanes(p)
            /\ subject'.at = place /\ subject'.attempt = 0 /\ subject'.limit = p.limit
        BY <1>0, <2>1, <3>3, <3>4, RacePays
      <3>6. Page!RaceLanes(p) \in Nat /\ p.used \in Nat /\ p.limit \in Nat
        BY <1>0, RaceFits DEF PageCounts
      <3>7. left > 0 => p.used + Page!RaceLanes(p) < p.limit
        BY <3>6 DEF Page!Remaining
      <3>8. p.used + Page!RaceLanes(p) <= p.limit
        BY <1>0, RaceFits
      <3> QED
        BY <3>5, <3>6, <3>7, <3>8 DEF PageInv
    <2> QED
      BY <1>8, <1>9, <2>1, <2>2 DEF Page!RaceAgain
  <1>10. CASE Page!RaceLast
    <2>1. p.used + p.attempt <= p.limit
      BY <1>10 DEF Page!RaceLast, PageInv
    <2>2. ASSUME NEW f \in Page!RaceFailures(p),
                 subject' = Page!Raced(p, [f[1] EXCEPT !.at = "text", !.error = f[2]])
          PROVE  PageInv(subject')
      <3> DEFINE r == [f[1] EXCEPT !.at = "text", !.error = f[2]]
      <3>1. /\ DOMAIN f[1] = PageFields
            /\ f[1].limit = p.limit /\ f[1].lanes = p.lanes /\ f[1].used = p.used
            /\ f[1].attempt = p.attempt
            /\ f[1].calls \in {p.calls, p.calls + Page!RaceLanes(p)}
        BY <1>0, FailedRace
      <3>2. /\ DOMAIN r = PageFields /\ r.at = "text"
            /\ r.limit = p.limit /\ r.lanes = p.lanes /\ r.used = p.used
            /\ r.attempt = p.attempt
            /\ r.calls \in {p.calls, p.calls + Page!RaceLanes(p)}
        BY <3>1 DEF PageFields
      <3> HIDE DEF r
      <3>3. PageCounts(Page!Raced(p, r)) /\ Page!Raced(p, r).at = "text"
        BY <1>0, <2>1, <3>2, RacePays
      <3> QED
        BY <2>2, <3>3 DEF PageInv, r
    <2> QED
      BY <1>8, <1>10, <2>1, <2>2 DEF Page!RaceLast
  <1>11. CASE Page!NoLastRace \/ Page!NoText
    <2>1. /\ DOMAIN subject' = PageFields /\ subject'.at \in {"text", "image"}
          /\ subject'.limit = p.limit /\ subject'.lanes = p.lanes /\ subject'.used = p.used
          /\ subject'.calls = p.calls /\ subject'.attempt = p.attempt
      BY <1>0, <1>11 DEF Page!NoLastRace, Page!NoText, PageFields
    <2>2. PageCounts(subject')
      BY <1>1, <2>1
    <2> QED
      BY <2>1, <2>2 DEF PageInv
  <1>12. CASE Page!TextFound \/ Page!PictureSaved \/ Page!PictureFails
    <2>1. PICK result, stages :
            subject' = [p EXCEPT !.at = "done", !.result = result, !.stages = stages]
      BY <1>12 DEF Page!TextFound, Page!PictureSaved, Page!PictureFails
    <2>2. /\ DOMAIN subject' = PageFields /\ subject'.at = "done"
          /\ subject'.limit = p.limit /\ subject'.lanes = p.lanes /\ subject'.used = p.used
          /\ subject'.calls = p.calls /\ subject'.attempt = p.attempt
      BY <1>0, <2>1 DEF PageFields
    <2>3. PageCounts(subject')
      BY <1>1, <2>2
    <2> QED
      BY <2>2, <2>3 DEF PageInv
  <1> QED
    BY <1>2, <1>3, <1>4, <1>5, <1>6, <1>7, <1>9, <1>10, <1>11, <1>12 DEF Page!PageNext

-----------------------------------------------------------------------------
(* Admission of jobs (JobAdmission).                                       *)

\* What the preflight says yes to can be done, in every world.
THEOREM PreflightKeepsWord ==
  ASSUME NEW w
  PROVE  Admission!PreflightKeepsItsWord(w)
  <1> DEFINE r == w.request
             named == r.allowed \cup IF Admission!Given(r.assigned) THEN {r.assigned} ELSE {}
  <1> SUFFICES ASSUME Admission!PreflightOk(w),
                      ~ (Admission!Given(r.assigned) /\ r.allowed # {})
               PROVE  /\ \E id \in DOMAIN w.server : Admission!MayClaim(w, id)
                      /\ \A id \in DOMAIN w.server : Admission!MayClaim(w, id) =>
                           /\ Admission!CanRead(w, id, r.input)
                           /\ Admission!CanWrite(w, id, r.output)
    BY DEF Admission!PreflightKeepsItsWord
  <1>1. ASSUME NEW code
        PROVE  Admission!Error(code) \notin Admission!PathIssues(w)
    BY DEF Admission!PreflightOk, Admission!Issues, Admission!Error
  <1>2. Admission!Eligible(w) # {}
    <2>1. SUFFICES ASSUME Admission!Eligible(w) = {} PROVE FALSE
      OBVIOUS
    <2>2. Admission!Error("no_eligible_workers") \in Admission!PathIssues(w)
      BY <2>1 DEF Admission!PathIssues, Admission!If
    <2> QED
      BY <1>1, <2>2
  <1>3. \A id \in Admission!Eligible(w) : Admission!CanWrite(w, id, r.output)
    <2>1. SUFFICES ASSUME \E id \in Admission!Eligible(w) : ~ Admission!CanWrite(w, id, r.output)
                   PROVE  FALSE
      OBVIOUS
    <2>2. Admission!Error("output_path_not_writable") \in Admission!PathIssues(w)
      BY <2>1 DEF Admission!PathIssues, Admission!If
    <2> QED
      BY <1>1, <2>2
  <1>4. Admission!Eligible(w) =
          {id \in Admission!Listed(w) : /\ named # {} => id \in named
                                        /\ Admission!CanRead(w, id, r.input)}
    BY DEF Admission!Eligible, Admission!Considered
  <1>5. \A id \in Admission!Eligible(w) : Admission!MayClaim(w, id)
    BY <1>4 DEF Admission!MayClaim, Admission!MayAccess, Admission!Listed
  <1>6. \A id : Admission!MayClaim(w, id) => id \in Admission!Eligible(w)
    BY <1>2, <1>4 DEF Admission!MayClaim, Admission!MayAccess
  <1> QED
    BY <1>2, <1>3, <1>4, <1>5, <1>6 DEF Admission!Listed

\* A certification that is asked for and passes is met by every candidate.
LEMMA CertificationCovers ==
  ASSUME NEW cert, NEW control, NEW agents, NEW a \in agents,
         a.dirty \in {"yes", "no", "unknown"}, a.known \in BOOLEAN,
         cert.enforcement = "certified",
         Admission!Certification(cert, control, agents).ok
  PROVE  Admission!Exact(cert, a)
  <1>1. /\ Admission!MissingOf(cert, a) = {}
        /\ Admission!MismatchOf(cert, a) = {}
    BY DEF Admission!Certification, Admission!Denied
  <1>2. a.dirty = "no" /\ a.known
    BY <1>1 DEF Admission!MissingOf, Admission!MismatchOf
  <1>3. a.source = cert.field["parser_revision"]
    BY <1>1 DEF Admission!MissingOf, Admission!MismatchOf
  <1>4. ASSUME NEW f \in Admission!RequiredOfAgents \cup Admission!OptionalOfAgents
        PROVE  a.field[f] = cert.field[f]
    <2>1. Admission!Given(cert.field[f]) \/ f \in Admission!RequiredOfAgents
            => Admission!Given(a.field[f])
      BY <1>1, <1>2 DEF Admission!MissingOf
    <2>2. Admission!Given(a.field[f]) => a.field[f] = cert.field[f]
      BY <1>1, <1>2 DEF Admission!MismatchOf
    <2> QED
      BY <2>1, <2>2 DEF Admission!Given
  <1> QED
    BY <1>2, <1>3, <1>4 DEF Admission!Exact

\* What an agent reports of its build, as far as the certification reads it.
ReadableBuild(agent) == agent.dirty \in {"yes", "no", "unknown"} /\ agent.known \in BOOLEAN

\* Where a profile asks for certification, whoever may claim the job runs what
\* was certified, in every world with readable builds.
THEOREM ClaimersCertified ==
  ASSUME NEW w,
         \A id \in Admission!Listed(w) : ReadableBuild(w.server[id].provenance)
  PROVE  Admission!ClaimersAreCertified(w)
  <1> DEFINE r == w.request
             cert == w.profile.cert
             agents == {Admission!Snapshot(w, id) : id \in Admission!Candidates(w)}
  <1> SUFFICES ASSUME Admission!Creatable(w), w.profile.chosen, cert.enforcement = "certified",
                      NEW id, Admission!MayClaim(w, id)
               PROVE  Admission!Exact(cert, w.server[id].provenance)
    BY DEF Admission!ClaimersAreCertified
  <1>1. Admission!Certification(cert, w.control.build, agents).ok
    BY DEF Admission!Creatable, Admission!ModelConfigOk, Admission!Certified
  <1>2. id \in Admission!Listed(w)
    BY DEF Admission!MayClaim
  <1>3. id \in Admission!Candidates(w)
    BY DEF Admission!MayClaim, Admission!MayAccess, Admission!Candidates
  <1>4. w.server[id].provenance \in agents
    BY <1>2, <1>3 DEF Admission!Snapshot
  <1> HIDE DEF agents
  <1> QED
    BY <1>1, <1>2, <1>4, CertificationCovers DEF ReadableBuild

\* The worlds of the run are such worlds.
LEMMA WorldsReadable ==
  ASSUME NEW w \in Worlds
  PROVE  \A id \in Admission!Listed(w) : ReadableBuild(w.server[id].provenance)
  <1>1. ASSUME NEW p \in Provenances
        PROVE  ReadableBuild(p)
    <2>1. CASE p = Admission!NoProvenance
      BY <2>1 DEF ReadableBuild, Admission!NoProvenance
    <2>2. ASSUME NEW sources, NEW dirty, NEW fields, dirty \subseteq {"yes", "no", "unknown"},
                 p \in [source : sources, dirty : dirty, known : {TRUE}, field : fields]
          PROVE  ReadableBuild(p)
      BY <2>2 DEF ReadableBuild
    <2> QED
      BY <2>1, <2>2 DEF Provenances
  <1>2. DOMAIN Online = {"archived", "stale", "status", "checks", "version", "constrained",
                         "spooled", "pending", "provenance"}
        /\ Online.provenance = Admission!NoProvenance
    BY DEF Online
  <1>3. ASSUME NEW row \in PathWorkers
        PROVE  row.provenance = Admission!NoProvenance
    <2>1. \/ \E c \in Checks, t \in {"online", "busy", "offline"} : row = Sees(c, t)
          \/ row = Archived \/ row = Stale
      BY DEF PathWorkers
    <2> QED
      BY <1>2, <2>1 DEF Sees, Archived, Stale, Online
  <1>4. ASSUME NEW row \in EngineWorkers
        PROVE  row.provenance \in Provenances
    <2>1. PICK p \in Provenances, t \in {"online", "busy"}, a \in BOOLEAN : row = Runs(p, t, a)
      BY DEF EngineWorkers
    <2>2. row.provenance = p
      BY <1>2, <2>1 DEF Runs, Online
    <2> QED
      BY <2>2
  <1>5. \A s \in PathWorkers \cup EngineWorkers : ReadableBuild(s.provenance)
    BY <1>1, <1>3, <1>4 DEF Provenances
  <1>6. w.server \in Pairs(PathWorkers) \cup Pairs(EngineWorkers)
    BY DEF Worlds, World
  <1>7. \A id \in DOMAIN w.server : w.server[id] \in PathWorkers \cup EngineWorkers
    BY <1>6 DEF Pairs
  <1> QED
    BY <1>5, <1>7 DEF Admission!Listed

-----------------------------------------------------------------------------
(* The counts of the two-stage engines (TwoStagePages).                    *)

Places == {"queued", "lining", "holding", "detecting", "single", "recognising", "done", "failed"}
PageRows == [at : Places, try : Nat, blocks : Nat]

EngineRow ==
  [kind : {"paddleocr-vl", "mineru"},
   page : [EnginePages -> PageRows],
   task : [Engine!Tasks -> {"none", "waiting", "asking", "calling", "read"}],
   pending : Int, active : Int, limit : SlotLimits]

\* Before its blocks are known
BeforeBlocks == {"queued", "lining", "holding", "detecting", "single"}

PendingIn(e) ==
  {b \in EnginePages \X (1 .. EngineBlocks) :
     e.page[b[1]].at = "recognising" /\ b[2] <= e.page[b[1]].blocks}
CallingIn(e) == {t \in Engine!Tasks : e.task[t] = "calling"}
LayoutsIn(e) == {p \in EnginePages : e.page[p].at \in {"holding", "detecting"}}
RunningIn(e, p, try) ==
  {t \in Engine!Tasks : t[1] = p /\ t[2] = try /\ e.task[t] \in {"asking", "calling"}}

\* An attempt that has not got its layout, and one that is still to come, has no
\* tasks: LayoutFound never creates a task over one that runs.
NoTasksYet(e) ==
  \A t \in Engine!Tasks :
    \/ t[2] > e.page[t[1]].try
    \/ t[2] = e.page[t[1]].try /\ e.page[t[1]].at \in BeforeBlocks
    => e.task[t] = "none"

BlocksFit(e) ==
  \A p \in EnginePages : e.page[p].at = "recognising" => e.page[p].blocks <= EngineBlocks

PendingTrue(e) == e.kind = "paddleocr-vl" => e.pending = Cardinality(PendingIn(e))
ActiveTrue(e) ==
  e.kind # "paddleocr-vl" =>
    e.active = Cardinality(CallingIn(e)) /\ \E limit \in SlotLimits : e.active <= limit
LayoutsBounded(e) ==
  (LayoutRoom > 0 /\ e.kind = "paddleocr-vl") => Cardinality(LayoutsIn(e)) <= LayoutRoom
RunningBounded(e) ==
  \A p \in EnginePages, try \in 1 .. EngineTries : Cardinality(RunningIn(e, p, try)) <= EngineCalls

EngineInv(e) ==
  /\ e \in EngineRow
  /\ NoTasksYet(e) /\ BlocksFit(e)
  /\ PendingTrue(e) /\ ActiveTrue(e) /\ LayoutsBounded(e) /\ RunningBounded(e)

\* The instance's copy of the library's operator
LEMMA SameCardinality == \A S : Engine!Cardinality(S) = Cardinality(S)
  BY DEF Cardinality, Engine!Cardinality

\* There are finitely many block tasks.
LEMMA TasksFinite == IsFiniteSet(Engine!Tasks)
  <1> DEFINE B == 1 .. EngineBlocks
             T == 1 .. EngineTries
             U == EnginePages \X (T \X B)
             pair == [t \in Engine!Tasks |-> <<t[1], <<t[2], t[3]>>>>]
  <1>1. IsFiniteSet(B) /\ IsFiniteSet(T) /\ IsFiniteSet(EnginePages)
    BY FS_Interval, EngineAssumption
  <1>2. IsFiniteSet(U)
    <2> HIDE DEF B, T
    <2>1. IsFiniteSet(T \X B)
      BY <1>1, FS_Product
    <2> QED
      BY <1>1, <2>1, FS_Product
  <1>3. pair \in Injection(Engine!Tasks, U)
    <2>1. \A t \in Engine!Tasks : pair[t] \in U
      BY DEF Engine!Tasks, Engine!Tries, Engine!Blocks
    <2>2. \A t, u \in Engine!Tasks : pair[t] = pair[u] => t = u
      BY DEF Engine!Tasks
    <2> QED
      BY <2>1, <2>2 DEF Injection, IsInjective
  <1> HIDE DEF U, pair
  <1> QED
    BY <1>2, <1>3, FS_Injection

\* The sets that are counted are finite.
LEMMA CountedFinite ==
  ASSUME NEW e
  PROVE  /\ IsFiniteSet(PendingIn(e)) /\ IsFiniteSet(CallingIn(e)) /\ IsFiniteSet(LayoutsIn(e))
         /\ \A p, try : IsFiniteSet(RunningIn(e, p, try))
  <1>1. IsFiniteSet(EnginePages \X (1 .. EngineBlocks))
    <2>1. IsFiniteSet(1 .. EngineBlocks) /\ IsFiniteSet(EnginePages)
      BY FS_Interval, EngineAssumption
    <2> QED
      BY <2>1, FS_Product
  <1>2. PendingIn(e) \in SUBSET (EnginePages \X (1 .. EngineBlocks))
    BY DEF PendingIn
  <1>3. CallingIn(e) \in SUBSET Engine!Tasks /\ LayoutsIn(e) \in SUBSET EnginePages
    BY DEF CallingIn, LayoutsIn
  <1>4. \A p, try : RunningIn(e, p, try) \in SUBSET Engine!Tasks
    BY DEF RunningIn
  <1> QED
    BY <1>1, <1>2, <1>3, <1>4, TasksFinite, EngineAssumption, FS_Subset

\* The blocks of one page
LEMMA BlocksOfPage ==
  ASSUME NEW p, NEW n \in Nat
  PROVE  /\ IsFiniteSet({p} \X (1 .. n))
         /\ Cardinality({p} \X (1 .. n)) = n
  <1>1. IsFiniteSet(1 .. n) /\ Cardinality(1 .. n) = n
    BY FS_Interval
  <1>2. IsFiniteSet({p}) /\ Cardinality({p}) = 1
    BY FS_Singleton
  <1> QED
    BY <1>1, <1>2, FS_Product

\* Tasks that stop running free their places.
LEMMA FewerRunning ==
  ASSUME NEW e, NEW f, RunningBounded(e),
         \A p \in EnginePages, try \in 1 .. EngineTries :
           RunningIn(f, p, try) \subseteq RunningIn(e, p, try)
  PROVE  RunningBounded(f)
  <1> SUFFICES ASSUME NEW p \in EnginePages, NEW try \in 1 .. EngineTries
               PROVE  Cardinality(RunningIn(f, p, try)) <= EngineCalls
    BY DEF RunningBounded
  <1>1. Cardinality(RunningIn(f, p, try)) <= Cardinality(RunningIn(e, p, try))
    BY CountedFinite, FS_Subset
  <1>2. /\ Cardinality(RunningIn(f, p, try)) \in Nat
        /\ Cardinality(RunningIn(e, p, try)) \in Nat
    BY CountedFinite, FS_CardinalityType
  <1> QED
    BY <1>1, <1>2, EngineAssumption DEF RunningBounded

\* So do pages that leave the layout.
LEMMA FewerLayouts ==
  ASSUME NEW e, NEW f, LayoutsBounded(e), f.kind = e.kind, LayoutsIn(f) \subseteq LayoutsIn(e)
  PROVE  LayoutsBounded(f)
  <1>1. Cardinality(LayoutsIn(f)) <= Cardinality(LayoutsIn(e))
    BY CountedFinite, FS_Subset
  <1>2. Cardinality(LayoutsIn(f)) \in Nat /\ Cardinality(LayoutsIn(e)) \in Nat
    BY CountedFinite, FS_CardinalityType
  <1> QED
    BY <1>1, <1>2, EngineAssumption DEF LayoutsBounded

\* A page that moves before it has blocks, or gives up.
LEMMA PageMoves ==
  ASSUME NEW e, EngineInv(e), NEW f, f \in EngineRow, NEW p \in EnginePages,
         NEW row \in PageRows,
         f.kind = e.kind, f.task = e.task, f.pending = e.pending,
         f.active = e.active, f.limit = e.limit,
         f.page = [e.page EXCEPT ![p] = row],
         e.page[p].at \in BeforeBlocks, row.at # "recognising", row.try >= e.page[p].try,
         LayoutsBounded(f)
  PROVE  EngineInv(f)
  <1>1. /\ e.page \in [EnginePages -> PageRows]
        /\ \A q \in EnginePages : f.page[q] = IF q = p THEN row ELSE e.page[q]
    BY DEF EngineInv, EngineRow
  <1>2. NoTasksYet(f)
    <2> SUFFICES ASSUME NEW t \in Engine!Tasks,
                        \/ t[2] > f.page[t[1]].try
                        \/ t[2] = f.page[t[1]].try /\ f.page[t[1]].at \in BeforeBlocks
                 PROVE  f.task[t] = "none"
      BY DEF NoTasksYet
    <2>1. t[1] \in EnginePages /\ t[2] \in Nat
      BY EngineAssumption DEF Engine!Tasks, Engine!Tries
    <2>2. e.page[p].try \in Nat /\ row.try \in Nat
      BY <1>1 DEF PageRows
    <2>3. \/ t[2] > e.page[t[1]].try
          \/ t[2] = e.page[t[1]].try /\ e.page[t[1]].at \in BeforeBlocks
      BY <1>1, <2>1, <2>2
    <2> QED
      BY <2>3 DEF EngineInv, NoTasksYet
  <1>3. BlocksFit(f)
    BY <1>1 DEF EngineInv, BlocksFit
  <1>4. PendingIn(f) = PendingIn(e)
    BY <1>1 DEF PendingIn, BeforeBlocks
  <1>5. CallingIn(f) = CallingIn(e)
    BY DEF CallingIn
  <1>6. \A q, try : RunningIn(f, q, try) = RunningIn(e, q, try)
    BY DEF RunningIn
  <1> QED
    BY <1>2, <1>3, <1>4, <1>5, <1>6 DEF EngineInv, PendingTrue, ActiveTrue, RunningBounded

\* What Moves does to the row of the engine.
Moved(e, p, at) == [e EXCEPT !.page[p].at = at]

\* A page that moves changes its place and nothing else.
LEMMA MovedRow ==
  ASSUME NEW e, e \in EngineRow, NEW p \in EnginePages, NEW at \in Places, NEW f,
         f = Moved(e, p, at)
  PROVE  /\ f \in EngineRow
         /\ f.kind = e.kind /\ f.task = e.task /\ f.pending = e.pending
         /\ f.active = e.active /\ f.limit = e.limit
         /\ f.page = [e.page EXCEPT ![p] = [e.page[p] EXCEPT !.at = at]]
         /\ [e.page[p] EXCEPT !.at = at] \in PageRows
         /\ [e.page[p] EXCEPT !.at = at].at = at
         /\ [e.page[p] EXCEPT !.at = at].try = e.page[p].try
  BY DEF EngineRow, PageRows, Moved

\* The steps of a page before its blocks keep the counts.
LEMMA LayoutSteps ==
  ASSUME EngineInv(subject), NEW p \in EnginePages,
         \/ Engine!Waited(p) \/ Engine!AskLayout(p) \/ Engine!TakeLayoutSlot(p)
         \/ Engine!WaitedAgain(p) \/ Engine!NothingToRecognise(p)
         \/ Engine!SingleStage(p) \/ Engine!SingleRead(p)
  PROVE  EngineInv(subject')
  <1> DEFINE e == subject
             f == subject'
  <1>0. e \in EngineRow
    BY DEF EngineInv
  <1>1. PICK at \in {"detecting", "lining", "holding", "done", "single"} :
          /\ f = Moved(e, p, at)
          /\ e.page[p].at \in BeforeBlocks
          /\ at \in {"detecting", "holding"} =>
               \/ e.page[p].at \in {"detecting", "holding"}
               \/ e.kind # "paddleocr-vl"
               \/ LayoutRoom = 0
               \/ at = "holding" /\ Cardinality(LayoutsIn(e)) < LayoutRoom
    <2> USE DEF Engine!At, BeforeBlocks
    <2>0. \A at : Engine!Moves(p, at) => f = Moved(e, p, at)
      BY DEF Engine!Moves, Moved
    <2>1. CASE Engine!Waited(p)
      BY <2>0, <2>1 DEF Engine!Waited
    <2>2. CASE Engine!AskLayout(p)
      BY <2>0, <2>2 DEF Engine!AskLayout, Engine!Paddle
    <2>3. CASE Engine!TakeLayoutSlot(p)
      <3>1. Engine!InLayout = LayoutsIn(e)
        BY DEF Engine!InLayout, LayoutsIn
      <3>2. /\ e.page[p].at = "lining" /\ Cardinality(Engine!InLayout) < LayoutRoom
            /\ f = Moved(e, p, "holding")
        <4>1. Engine!Moves(p, "holding") /\ e.page[p].at = "lining"
          BY <2>3 DEF Engine!TakeLayoutSlot
        <4>2. Cardinality(Engine!InLayout) < LayoutRoom
          BY <2>3, SameCardinality DEF Engine!TakeLayoutSlot
        <4> QED
          BY <2>0, <4>1, <4>2
      <3> QED
        BY <3>1, <3>2
    <2>4. CASE Engine!WaitedAgain(p)
      BY <2>0, <2>4 DEF Engine!WaitedAgain
    <2>5. CASE Engine!NothingToRecognise(p) \/ Engine!SingleStage(p) \/ Engine!SingleRead(p)
      BY <2>0, <2>5 DEF Engine!NothingToRecognise, Engine!SingleStage, Engine!SingleRead
    <2> QED
      BY <2>1, <2>2, <2>3, <2>4, <2>5
  <1>a. at \in Places
    BY DEF Places
  <1> DEFINE row == [e.page[p] EXCEPT !.at = at]
  <1>2. /\ f \in EngineRow
        /\ f.kind = e.kind /\ f.task = e.task /\ f.pending = e.pending
        /\ f.active = e.active /\ f.limit = e.limit
        /\ f.page = [e.page EXCEPT ![p] = row]
        /\ row \in PageRows
        /\ row.at = at /\ row.try = e.page[p].try
    BY <1>0, <1>1, <1>a, MovedRow
  <1> HIDE DEF row
  <1>3. e.page \in [EnginePages -> PageRows]
    BY <1>0 DEF EngineRow
  <1>4. \A q \in EnginePages : f.page[q].at = IF q = p THEN at ELSE e.page[q].at
    BY <1>2, <1>3
  <1>5. LayoutsBounded(f)
    <2>1. CASE LayoutsIn(f) \subseteq LayoutsIn(e)
      BY <1>2, <2>1, FewerLayouts DEF EngineInv
    <2>2. CASE ~ (LayoutsIn(f) \subseteq LayoutsIn(e))
      <3>1. at \in {"detecting", "holding"} /\ e.page[p].at \notin {"detecting", "holding"}
        BY <1>4, <2>2 DEF LayoutsIn
      <3>2. LayoutsIn(f) \subseteq LayoutsIn(e) \cup {p}
        BY <1>4 DEF LayoutsIn
      <3>3. CASE f.kind # "paddleocr-vl" \/ LayoutRoom = 0
        BY <3>3, EngineAssumption DEF LayoutsBounded
      <3>4. CASE Cardinality(LayoutsIn(e)) < LayoutRoom
        <4>1. IsFiniteSet(LayoutsIn(e)) /\ IsFiniteSet(LayoutsIn(f))
          BY CountedFinite
        <4>2. /\ IsFiniteSet(LayoutsIn(e) \cup {p})
              /\ Cardinality(LayoutsIn(e) \cup {p}) <= LayoutRoom
          <5>1. /\ IsFiniteSet(LayoutsIn(e) \cup {p})
                /\ Cardinality(LayoutsIn(e) \cup {p}) =
                     IF p \in LayoutsIn(e) THEN Cardinality(LayoutsIn(e))
                                           ELSE Cardinality(LayoutsIn(e)) + 1
            BY <4>1, FS_AddElement
          <5>2. Cardinality(LayoutsIn(e)) \in Nat
            BY <4>1, FS_CardinalityType
          <5> QED
            BY <3>4, <5>1, <5>2, EngineAssumption
        <4>3. Cardinality(LayoutsIn(f)) <= Cardinality(LayoutsIn(e) \cup {p})
          BY <3>2, <4>2, FS_Subset
        <4>4. /\ Cardinality(LayoutsIn(f)) \in Nat
              /\ Cardinality(LayoutsIn(e) \cup {p}) \in Nat
          BY <4>1, <4>2, FS_CardinalityType
        <4> QED
          BY <4>2, <4>3, <4>4, EngineAssumption DEF LayoutsBounded
      <3> QED
        BY <1>1, <1>2, <3>1, <3>3, <3>4
    <2> QED
      BY <2>1, <2>2
  <1>6. row.at # "recognising" /\ row.try >= e.page[p].try
    BY <1>1, <1>2, <1>3 DEF PageRows
  <1> QED
    BY <1>1, <1>2, <1>5, <1>6, PageMoves

\* The row of a page after a failure: it is tried again or fails.
GoesOn(try, row) ==
  \/ row = [at |-> "queued", try |-> try + 1, blocks |-> 0]
  \/ row = [at |-> "failed", try |-> try, blocks |-> 0]

WithPage(e, p, row) == [e EXCEPT !.page[p] = row]

\* What a failed call makes of a page: another try or the end.
LEMMA RowAfterFailure ==
  ASSUME NEW p
  PROVE  /\ GoesOn(subject.page[p].try, Engine!Retried(p))
         /\ GoesOn(subject.page[p].try, Engine!Blockless("failed", Engine!Try(p)))
  BY DEF GoesOn, Engine!Retried, Engine!Blockless, Engine!Try

\* A page whose model call fails has nothing in the counts.
LEMMA FailedCall ==
  ASSUME EngineInv(subject), NEW p \in EnginePages, Engine!CallFails(p)
  PROVE  EngineInv(subject')
  <1> DEFINE e == subject
             f == subject'
  <1>0. e \in EngineRow /\ e.page \in [EnginePages -> PageRows]
    BY DEF EngineInv, EngineRow
  <1>1. PICK row : f = WithPage(e, p, row) /\ GoesOn(e.page[p].try, row)
    BY RowAfterFailure, Zenon DEF Engine!CallFails, WithPage
  <1>2. e.page[p].at \in BeforeBlocks
    BY DEF Engine!CallFails, Engine!At, BeforeBlocks
  <1>3. e.page[p].try \in Nat
    BY <1>0 DEF PageRows
  <1>4. row \in PageRows /\ row.at \in {"queued", "failed"} /\ row.try >= e.page[p].try
    BY <1>1, <1>3 DEF GoesOn, PageRows, Places
  <1>5. /\ f \in EngineRow
        /\ f.kind = e.kind /\ f.task = e.task /\ f.pending = e.pending
        /\ f.active = e.active /\ f.limit = e.limit
        /\ f.page = [e.page EXCEPT ![p] = row]
    BY <1>0, <1>1, <1>4 DEF EngineRow, WithPage
  <1>6. LayoutsIn(f) \subseteq LayoutsIn(e)
    BY <1>0, <1>4, <1>5 DEF LayoutsIn
  <1>7. LayoutsBounded(f)
    BY <1>5, <1>6, FewerLayouts DEF EngineInv
  <1>8. row.at # "recognising"
    BY <1>4
  <1> QED
    BY <1>2, <1>4, <1>5, <1>7, <1>8, PageMoves

\* A step that changes a page, tasks and the pending count.
Replaced(e, p, row, rows, n) == [e EXCEPT !.page[p] = row, !.task = rows, !.pending = n]

\* A page that starts over, with new tasks and a new count.
LEMMA ReplacedRow ==
  ASSUME NEW e \in EngineRow, NEW p \in EnginePages, NEW row \in PageRows, NEW n \in Int,
         NEW rows \in [Engine!Tasks -> {"none", "waiting", "asking", "calling", "read"}], NEW f,
         f = Replaced(e, p, row, rows, n)
  PROVE  /\ f \in EngineRow
         /\ f.kind = e.kind /\ f.active = e.active /\ f.limit = e.limit
         /\ f.page = [e.page EXCEPT ![p] = row] /\ f.task = rows /\ f.pending = n
  BY DEF EngineRow, Replaced

\* The layout of a page brings in its blocks; none of its tasks was running.
LEMMA FoundLayout ==
  ASSUME EngineInv(subject), NEW p \in EnginePages, Engine!LayoutFound(p)
  PROVE  EngineInv(subject')
  <1> DEFINE e == subject
             f == subject'
             try == e.page[p].try
             Mine(t, n) == t[1] = p /\ t[2] = try /\ t[3] <= n
  <1>0. /\ e \in EngineRow /\ e.page \in [EnginePages -> PageRows]
        /\ try \in Nat /\ e.pending \in Int
    BY DEF EngineInv, EngineRow, PageRows
  <1>1. PICK n \in 1 .. EngineBlocks :
          f = [e EXCEPT !.page[p] = [at |-> "recognising", try |-> try, blocks |-> n],
                        !.task = [t \in Engine!Tasks |-> IF Mine(t, n) THEN "waiting" ELSE @[t]],
                        !.pending = IF e.kind = "paddleocr-vl" THEN @ + n ELSE @]
    BY Zenon DEF Engine!LayoutFound, Engine!Try, Engine!Paddle
  <1> DEFINE row == [at |-> "recognising", try |-> try, blocks |-> n]
  <1>2. e.page[p].at = "detecting"
    BY DEF Engine!LayoutFound, Engine!At
  <1>n. n \in Nat /\ n <= EngineBlocks
    BY EngineAssumption
  <1>3. row \in PageRows
    BY <1>0, <1>n DEF PageRows, Places
  <1>4. /\ f \in EngineRow
        /\ f.kind = e.kind /\ f.active = e.active /\ f.limit = e.limit
        /\ f.page = [e.page EXCEPT ![p] = row]
        /\ f.task = [t \in Engine!Tasks |-> IF Mine(t, n) THEN "waiting" ELSE e.task[t]]
        /\ f.pending = IF e.kind = "paddleocr-vl" THEN e.pending + n ELSE e.pending
    <2> DEFINE rows == [t \in Engine!Tasks |-> IF Mine(t, n) THEN "waiting" ELSE e.task[t]]
               sum == IF e.kind = "paddleocr-vl" THEN e.pending + n ELSE e.pending
    <2>1. f = Replaced(e, p, row, rows, sum)
      BY <1>1 DEF Replaced
    <2>2. rows \in [Engine!Tasks -> {"none", "waiting", "asking", "calling", "read"}]
      BY <1>0 DEF EngineRow
    <2>3. sum \in Int
      BY <1>0, <1>n
    <2> HIDE DEF row, rows, sum
    <2>4. /\ f \in EngineRow
          /\ f.kind = e.kind /\ f.active = e.active /\ f.limit = e.limit
          /\ f.page = [e.page EXCEPT ![p] = row] /\ f.task = rows /\ f.pending = sum
      BY <1>0, <1>3, <2>1, <2>2, <2>3, ReplacedRow
    <2> QED
      BY <2>4 DEF rows, sum
  <1>5. /\ \A q \in EnginePages : f.page[q] = IF q = p THEN row ELSE e.page[q]
        /\ row.at = "recognising" /\ row.try = try /\ row.blocks = n
    BY <1>0, <1>4
  <1> HIDE DEF row
  <1>6. \A t \in Engine!Tasks : Mine(t, n) => e.task[t] = "none"
    BY <1>2 DEF EngineInv, NoTasksYet, BeforeBlocks
  <1>7. \A t \in Engine!Tasks : t[1] \in EnginePages
    BY DEF Engine!Tasks
  <1>8. NoTasksYet(f)
    <2> SUFFICES ASSUME NEW t \in Engine!Tasks,
                        \/ t[2] > f.page[t[1]].try
                        \/ t[2] = f.page[t[1]].try /\ f.page[t[1]].at \in BeforeBlocks
                 PROVE  f.task[t] = "none"
      BY DEF NoTasksYet
    <2>1. t[1] # p \/ t[2] > try
      BY <1>5, <1>7 DEF BeforeBlocks
    <2>2. ~ Mine(t, n)
      BY <1>0, <2>1
    <2>3. e.task[t] = "none"
      BY <1>5, <1>7, <2>1 DEF EngineInv, NoTasksYet
    <2> QED
      BY <1>4, <2>2, <2>3
  <1>9. BlocksFit(f)
    BY <1>5, <1>n DEF EngineInv, BlocksFit
  <1>10. CallingIn(f) = CallingIn(e)
    BY <1>4, <1>6 DEF CallingIn
  <1>11. \A q, u : RunningIn(f, q, u) = RunningIn(e, q, u)
    BY <1>4, <1>6 DEF RunningIn
  <1>12. PendingTrue(f)
    <2> DEFINE mine == {p} \X (1 .. n)
    <2>1. PendingIn(f) = PendingIn(e) \cup mine
      BY <1>2, <1>5, <1>n, EngineAssumption DEF PendingIn
    <2>2. PendingIn(e) \cap mine = {}
      BY <1>2 DEF PendingIn
    <2>3. IsFiniteSet(mine) /\ Cardinality(mine) = n
      BY <1>n, BlocksOfPage
    <2> HIDE DEF mine
    <2>4. IsFiniteSet(PendingIn(e))
      BY CountedFinite
    <2>5. Cardinality(PendingIn(f)) =
            Cardinality(PendingIn(e)) + Cardinality(mine) - Cardinality(PendingIn(e) \cap mine)
      BY <2>1, <2>3, <2>4, FS_Union
    <2>6. Cardinality(PendingIn(e) \cap mine) = 0
      BY <2>2, FS_EmptySet
    <2>7. Cardinality(PendingIn(e)) \in Nat
      BY <2>4, FS_CardinalityType
    <2> QED
      BY <1>4, <1>n, <2>3, <2>5, <2>6, <2>7 DEF EngineInv, PendingTrue
  <1>13. LayoutsIn(f) \subseteq LayoutsIn(e)
    BY <1>5 DEF LayoutsIn
  <1>14. LayoutsBounded(f)
    BY <1>4, <1>13, FewerLayouts DEF EngineInv
  <1> QED
    BY <1>4, <1>8, <1>9, <1>10, <1>11, <1>12, <1>14 DEF EngineInv, ActiveTrue, RunningBounded

\* A task that moves on while its page stays as it is.
LEMMA TaskMoves ==
  ASSUME NEW e, EngineInv(e), NEW f, f \in EngineRow, NEW t \in Engine!Tasks, NEW at,
         f.kind = e.kind, f.page = e.page, f.pending = e.pending,
         f.task = [e.task EXCEPT ![t] = at],
         e.task[t] # "none", ActiveTrue(f), RunningBounded(f)
  PROVE  EngineInv(f)
  <1>1. e.task \in [Engine!Tasks -> {"none", "waiting", "asking", "calling", "read"}]
    BY DEF EngineInv, EngineRow
  <1>2. NoTasksYet(f)
    BY <1>1 DEF EngineInv, NoTasksYet
  <1>3. BlocksFit(f) /\ PendingIn(f) = PendingIn(e) /\ LayoutsIn(f) = LayoutsIn(e)
    BY DEF EngineInv, BlocksFit, PendingIn, LayoutsIn
  <1> QED
    BY <1>2, <1>3 DEF EngineInv, PendingTrue, LayoutsBounded

\* A block that begins finds room among those of its attempt.
LEMMA StartedBlock ==
  ASSUME EngineInv(subject), NEW t \in Engine!Tasks, Engine!StartBlock(t)
  PROVE  EngineInv(subject')
  <1> DEFINE e == subject
             f == subject'
  <1>0. /\ e \in EngineRow
        /\ e.task \in [Engine!Tasks -> {"none", "waiting", "asking", "calling", "read"}]
    BY DEF EngineInv, EngineRow
  <1>1. PICK at \in {"calling", "asking"}, limit \in SlotLimits :
          /\ f = [e EXCEPT !.task[t] = at, !.limit = limit]
          /\ at = "calling" => e.kind = "paddleocr-vl"
    <2>1. CASE e.kind = "paddleocr-vl"
      <3>1. f = [e EXCEPT !.task[t] = "calling"]
        BY <2>1 DEF Engine!StartBlock, Engine!Paddle, Engine!TaskMoves
      <3>2. e.limit \in SlotLimits /\ f = [e EXCEPT !.task[t] = "calling", !.limit = e.limit]
        BY <1>0, <3>1 DEF EngineRow
      <3> QED
        BY <2>1, <3>2
    <2>2. CASE e.kind # "paddleocr-vl"
      BY <2>2 DEF Engine!StartBlock, Engine!Paddle
    <2> QED
      BY <2>1, <2>2
  <1>2. e.task[t] = "waiting" /\ Cardinality(Engine!RunningOf(t[1], t[2])) < EngineCalls
    BY SameCardinality DEF Engine!StartBlock
  <1>3. /\ f \in EngineRow
        /\ f.kind = e.kind /\ f.page = e.page /\ f.pending = e.pending /\ f.active = e.active
        /\ f.task = [e.task EXCEPT ![t] = at]
    BY <1>0, <1>1 DEF EngineRow
  <1>4. \A u \in Engine!Tasks : f.task[u] = IF u = t THEN at ELSE e.task[u]
    BY <1>0, <1>3
  <1>5. ActiveTrue(f)
    <2>1. at = "asking" => CallingIn(f) = CallingIn(e)
      BY <1>2, <1>4 DEF CallingIn
    <2> QED
      BY <1>1, <1>3, <2>1 DEF EngineInv, ActiveTrue
  <1>6. Engine!RunningOf(t[1], t[2]) = RunningIn(e, t[1], t[2])
    BY DEF Engine!RunningOf, Engine!OfTry, Engine!Running, RunningIn
  <1>7. RunningBounded(f)
    <2> SUFFICES ASSUME NEW p \in EnginePages, NEW try \in 1 .. EngineTries
                 PROVE  Cardinality(RunningIn(f, p, try)) <= EngineCalls
      BY DEF RunningBounded
    <2>1. CASE t[1] = p /\ t[2] = try
      <3>1. RunningIn(f, p, try) = RunningIn(e, p, try) \cup {t}
        BY <1>1, <1>4, <2>1 DEF RunningIn
      <3>2. Cardinality(RunningIn(e, p, try)) < EngineCalls
        BY <1>2, <1>6, <2>1
      <3>3. IsFiniteSet(RunningIn(e, p, try))
        BY CountedFinite
      <3>4. Cardinality(RunningIn(f, p, try)) =
              IF t \in RunningIn(e, p, try) THEN Cardinality(RunningIn(e, p, try))
                                            ELSE Cardinality(RunningIn(e, p, try)) + 1
        BY <3>1, <3>3, FS_AddElement
      <3>5. Cardinality(RunningIn(e, p, try)) \in Nat
        BY <3>3, FS_CardinalityType
      <3> QED
        BY <3>2, <3>4, <3>5, EngineAssumption
    <2>2. CASE ~ (t[1] = p /\ t[2] = try)
      <3>1. RunningIn(f, p, try) = RunningIn(e, p, try)
        BY <1>4, <2>2 DEF RunningIn
      <3> QED
        BY <3>1 DEF EngineInv, RunningBounded
    <2> QED
      BY <2>1, <2>2
  <1> QED
    BY <1>2, <1>3, <1>5, <1>7, TaskMoves

\* A step that changes a task and the slots in use.
Updated(e, t, at, n) == [e EXCEPT !.task[t] = at, !.active = n]

\* A task that moves, with the counters it changes.
LEMMA UpdatedRow ==
  ASSUME NEW e, e \in EngineRow, NEW t, t \in Engine!Tasks,
         NEW at, at \in {"none", "calling", "read"},
         NEW n, n \in Int, NEW f, f = Updated(e, t, at, n)
  PROVE  /\ f \in EngineRow
         /\ f.kind = e.kind /\ f.page = e.page /\ f.pending = e.pending /\ f.limit = e.limit
         /\ f.active = n /\ f.task = [e.task EXCEPT ![t] = at]
  BY DEF EngineRow, Updated

\* A call takes a slot only below the limit that was set last.
LEMMA TookSlot ==
  ASSUME EngineInv(subject), NEW t \in Engine!Tasks, Engine!TakeSlot(t)
  PROVE  EngineInv(subject')
  <1> DEFINE e == subject
             f == subject'
  <1>0. /\ e \in EngineRow /\ e.active \in Int /\ e.limit \in SlotLimits
        /\ e.task \in [Engine!Tasks -> {"none", "waiting", "asking", "calling", "read"}]
    BY DEF EngineInv, EngineRow
  <1>1. /\ e.task[t] = "asking" /\ e.active < e.limit
        /\ f = Updated(e, t, "calling", e.active + 1)
    BY DEF Engine!TakeSlot, Updated
  <1>2. /\ f \in EngineRow
        /\ f.kind = e.kind /\ f.page = e.page /\ f.pending = e.pending
        /\ f.active = e.active + 1
        /\ f.task = [e.task EXCEPT ![t] = "calling"]
    <2>1. e.active + 1 \in Int /\ "calling" \in {"none", "calling", "read"}
      BY <1>0
    <2> QED
      BY <1>0, <1>1, <2>1, UpdatedRow
  <1>3. \A u \in Engine!Tasks : f.task[u] = IF u = t THEN "calling" ELSE e.task[u]
    BY <1>0, <1>2
  <1>4. ActiveTrue(f)
    <2>1. CallingIn(f) = CallingIn(e) \cup {t} /\ t \notin CallingIn(e)
      BY <1>1, <1>3 DEF CallingIn
    <2>2. IsFiniteSet(CallingIn(e))
      BY CountedFinite
    <2>3. Cardinality(CallingIn(f)) = Cardinality(CallingIn(e)) + 1
      BY <2>1, <2>2, FS_AddElement
    <2>4. e.limit \in Nat /\ e.active + 1 <= e.limit
      <3>1. e.limit \in Nat
        BY <1>0, EngineAssumption
      <3> QED
        BY <1>0, <1>1, <3>1
    <2> QED
      BY <1>0, <1>2, <2>3, <2>4 DEF EngineInv, ActiveTrue
  <1>5. \A p, try : RunningIn(f, p, try) = RunningIn(e, p, try)
    BY <1>1, <1>3 DEF RunningIn
  <1>6. RunningBounded(f)
    BY <1>5 DEF EngineInv, RunningBounded
  <1> QED
    BY <1>1, <1>2, <1>4, <1>6, TaskMoves

\* A call that returns gives its slot back.
LEMMA SlotGivenBack ==
  ASSUME NEW e, EngineInv(e), NEW f, NEW t \in Engine!Tasks, e.task[t] = "calling",
         f.kind = e.kind,
         f.active = IF e.kind = "paddleocr-vl" THEN e.active ELSE e.active - 1,
         CallingIn(f) = CallingIn(e) \ {t}
  PROVE  ActiveTrue(f)
  <1>0. e.active \in Int
    BY DEF EngineInv, EngineRow
  <1>1. t \in CallingIn(e) /\ IsFiniteSet(CallingIn(e))
    BY CountedFinite DEF CallingIn
  <1>2. Cardinality(CallingIn(f)) = Cardinality(CallingIn(e)) - 1
    BY <1>1, FS_RemoveElement
  <1> SUFFICES ASSUME e.kind # "paddleocr-vl"
               PROVE  ActiveTrue(f)
    BY DEF ActiveTrue
  <1>3. PICK limit \in SlotLimits : e.active <= limit
    BY DEF EngineInv, ActiveTrue
  <1>4. e.active - 1 <= limit
    BY <1>0, <1>3, EngineAssumption
  <1> QED
    BY <1>2, <1>3, <1>4 DEF EngineInv, ActiveTrue

Return(e, t, at) ==
  Updated(e, t, at, IF e.kind = "paddleocr-vl" THEN e.active ELSE e.active - 1)

\* What the end of a call leaves of the row.
LEMMA ReturnedRow ==
  ASSUME NEW e, EngineInv(e), NEW t, t \in Engine!Tasks,
         NEW at, at \in {"none", "read"}, NEW f, f = Return(e, t, at)
  PROVE  /\ f \in EngineRow
         /\ f.kind = e.kind /\ f.page = e.page /\ f.pending = e.pending
         /\ f.active = IF e.kind = "paddleocr-vl" THEN e.active ELSE e.active - 1
         /\ f.task = [e.task EXCEPT ![t] = at]
  <1> DEFINE n == IF e.kind = "paddleocr-vl" THEN e.active ELSE e.active - 1
  <1>1. e \in EngineRow /\ e.active \in Int
    BY DEF EngineInv, EngineRow
  <1>2. n \in Int /\ f = Updated(e, t, at, n) /\ at \in {"none", "calling", "read"}
    BY <1>1 DEF Return
  <1> HIDE DEF n
  <1>3. /\ f \in EngineRow
        /\ f.kind = e.kind /\ f.page = e.page /\ f.pending = e.pending
        /\ f.active = n /\ f.task = [e.task EXCEPT ![t] = at]
    BY <1>1, <1>2, UpdatedRow
  <1> QED
    BY <1>3 DEF n

\* The end of a call moves one task.
LEMMA ReturnedTasks ==
  ASSUME NEW e, EngineInv(e), NEW t, t \in Engine!Tasks,
         NEW at, at \in {"none", "read"}, NEW f, f = Return(e, t, at),
         NEW u, u \in Engine!Tasks
  PROVE  f.task[u] = IF u = t THEN at ELSE e.task[u]
  <1>1. f.task = [e.task EXCEPT ![t] = at]
    BY ReturnedRow
  <1>2. e.task \in [Engine!Tasks -> {"none", "waiting", "asking", "calling", "read"}]
    BY DEF EngineInv, EngineRow
  <1> QED
    BY <1>1, <1>2

\* A call that ends gives back its slot and its place.
LEMMA ReturnKeeps ==
  ASSUME NEW e, EngineInv(e), NEW t, t \in Engine!Tasks, e.task[t] = "calling",
         NEW at, at \in {"none", "read"}, NEW f, f = Return(e, t, at)
  PROVE  EngineInv(f)
  <1>1. /\ f \in EngineRow
        /\ f.kind = e.kind /\ f.page = e.page /\ f.pending = e.pending
        /\ f.active = IF e.kind = "paddleocr-vl" THEN e.active ELSE e.active - 1
        /\ f.task = [e.task EXCEPT ![t] = at]
    BY ReturnedRow
  <1>2. \A u \in Engine!Tasks : f.task[u] = IF u = t THEN at ELSE e.task[u]
    BY ReturnedTasks
  <1>3. CallingIn(f) = CallingIn(e) \ {t}
    BY <1>2 DEF CallingIn
  <1>4. ActiveTrue(f)
    BY <1>1, <1>3, SlotGivenBack
  <1>5. \A p, try : RunningIn(f, p, try) \subseteq RunningIn(e, p, try)
    BY <1>2 DEF RunningIn
  <1>6. RunningBounded(f)
    BY <1>5, FewerRunning DEF EngineInv
  <1> QED
    BY <1>1, <1>4, <1>6, TaskMoves

\* The rows of the tasks of an attempt may go once none of them is calling.
LEMMA TasksForgotten ==
  ASSUME NEW e, EngineInv(e), NEW f, f \in EngineRow, NEW p \in EnginePages,
         NEW row \in PageRows, GoesOn(e.page[p].try, row) \/ row.at = "done",
         e.page[p].at = "recognising", row.try >= e.page[p].try,
         f.kind = e.kind, f.active = e.active,
         f.page = [e.page EXCEPT ![p] = row],
         f.pending = IF e.kind = "paddleocr-vl" THEN e.pending - e.page[p].blocks
                                                ELSE e.pending,
         \A t \in Engine!Tasks :
           f.task[t] # e.task[t] => f.task[t] = "none" /\ e.task[t] \in {"none", "read"}
  PROVE  EngineInv(f)
  <1>0. /\ e \in EngineRow /\ e.pending \in Int
        /\ e.page \in [EnginePages -> PageRows] /\ f.page \in [EnginePages -> PageRows]
    BY DEF EngineInv, EngineRow
  <1>1. /\ \A q \in EnginePages : f.page[q] = IF q = p THEN row ELSE e.page[q]
        /\ row.at \in {"queued", "failed", "done"}
        /\ row.at \in BeforeBlocks => row.try > e.page[p].try
    BY <1>0 DEF GoesOn, BeforeBlocks, PageRows
  <1>2. e.page[p].blocks \in Nat /\ e.page[p].try \in Nat /\ row.try \in Nat
    BY <1>0 DEF PageRows
  <1>3. NoTasksYet(f)
    <2> SUFFICES ASSUME NEW t \in Engine!Tasks,
                        \/ t[2] > f.page[t[1]].try
                        \/ t[2] = f.page[t[1]].try /\ f.page[t[1]].at \in BeforeBlocks
                 PROVE  f.task[t] = "none"
      BY DEF NoTasksYet
    <2>1. t[1] \in EnginePages /\ t[2] \in Nat
      BY EngineAssumption DEF Engine!Tasks, Engine!Tries
    <2>2. CASE t[1] = p
      <3>1. t[2] > e.page[p].try
        BY <1>1, <1>2, <2>1, <2>2
      <3> QED
        BY <2>2, <3>1 DEF EngineInv, NoTasksYet
    <2>3. CASE t[1] # p
      BY <1>1, <2>1, <2>3 DEF EngineInv, NoTasksYet
    <2> QED
      BY <2>2, <2>3
  <1>4. BlocksFit(f)
    BY <1>1 DEF EngineInv, BlocksFit
  <1>5. CallingIn(f) = CallingIn(e) /\ \A q, try : RunningIn(f, q, try) = RunningIn(e, q, try)
    BY DEF CallingIn, RunningIn
  <1>6. LayoutsBounded(f)
    <2>1. LayoutsIn(f) \subseteq LayoutsIn(e)
      BY <1>1 DEF LayoutsIn
    <2> QED
      BY <2>1, FewerLayouts DEF EngineInv
  <1>7. PendingTrue(f)
    <2> DEFINE n == e.page[p].blocks
               mine == {p} \X (1 .. n)
    <2>1. n <= EngineBlocks
      BY DEF EngineInv, BlocksFit
    <2>2. PendingIn(f) = PendingIn(e) \ mine /\ PendingIn(e) \cap mine = mine
      BY <1>1, <1>2, <2>1, EngineAssumption DEF PendingIn
    <2>3. IsFiniteSet(mine) /\ Cardinality(mine) = n
      BY <1>2, BlocksOfPage
    <2> HIDE DEF mine
    <2>4. IsFiniteSet(PendingIn(e))
      BY CountedFinite
    <2>5. Cardinality(PendingIn(f)) = Cardinality(PendingIn(e)) - Cardinality(PendingIn(e) \cap mine)
      BY <2>2, <2>4, FS_Difference
    <2> QED
      BY <2>2, <2>3, <2>5 DEF EngineInv, PendingTrue
  <1> QED
    BY <1>3, <1>4, <1>5, <1>6, <1>7 DEF EngineInv, ActiveTrue, RunningBounded

\* A block that fails ends its attempt, if that still is the page's.
LEMMA FailedBlock ==
  ASSUME EngineInv(subject), NEW t \in Engine!Tasks, Engine!BlockFails(t)
  PROVE  EngineInv(subject')
  <1> DEFINE e == subject
             f == subject'
             p == t[1]
             g == Return(e, t, "none")
  <1>0. e.task[t] = "calling" /\ Engine!Returned(t, "none") = g
    BY DEF Engine!BlockFails, Engine!Returned, Engine!Paddle, Return, Updated
  <1>1. /\ g \in EngineRow /\ EngineInv(g)
        /\ g.kind = e.kind /\ g.page = e.page /\ g.pending = e.pending
        /\ \A u \in Engine!Tasks : g.task[u] = IF u = t THEN "none" ELSE e.task[u]
    <2>1. g = Return(e, t, "none") /\ "none" \in {"none", "read"}
      OBVIOUS
    <2> HIDE DEF g
    <2>2. EngineInv(g)
      BY <1>0, <2>1, ReturnKeeps
    <2>3. /\ g \in EngineRow
          /\ g.kind = e.kind /\ g.page = e.page /\ g.pending = e.pending
      <3>1. /\ g \in EngineRow
            /\ g.kind = e.kind /\ g.page = e.page /\ g.pending = e.pending
            /\ g.active = IF e.kind = "paddleocr-vl" THEN e.active ELSE e.active - 1
            /\ g.task = [e.task EXCEPT ![t] = "none"]
        BY <2>1, ReturnedRow
      <3> QED
        BY <3>1
    <2>4. \A u \in Engine!Tasks : g.task[u] = IF u = t THEN "none" ELSE e.task[u]
      BY <2>1, ReturnedTasks
    <2> QED
      BY <2>2, <2>3, <2>4
  <1> HIDE DEF g
  <1>2. CASE Engine!IsOrphan(t)
    BY <1>0, <1>1, <1>2 DEF Engine!BlockFails
  <1>3. CASE ~ Engine!IsOrphan(t)
    <2> DEFINE rows == [u \in Engine!Tasks |->
                          IF u \in Engine!OfTry(p, Engine!Try(p)) /\ g.task[u] = "read"
                            THEN "none" ELSE g.task[u]]
               n == IF e.kind = "paddleocr-vl" THEN g.pending - e.page[p].blocks ELSE g.pending
    <2>1. p \in EnginePages /\ e.page[p].at = "recognising"
      BY <1>3 DEF Engine!IsOrphan, Engine!At, Engine!Tasks
    <2>2. PICK row : GoesOn(e.page[p].try, row) /\ f = Replaced(g, p, row, rows, n)
      <3>1. PICK row \in {Engine!Retried(p), Engine!Blockless("failed", Engine!Try(p))} :
              f = Engine!Unpend(p, [g EXCEPT !.page[p] = row, !.task = rows])
        BY <1>0, <1>3 DEF Engine!BlockFails
      <3>2. f = Replaced(g, p, row, rows, n)
        BY <1>1, <3>1 DEF Engine!Unpend, Engine!Paddle, Replaced, EngineRow
      <3> QED
        BY <3>1, <3>2, RowAfterFailure
    <2>3. /\ e.page \in [EnginePages -> PageRows] /\ g.pending \in Int
          /\ g.task \in [Engine!Tasks -> {"none", "waiting", "asking", "calling", "read"}]
      BY <1>1 DEF EngineInv, EngineRow
    <2>4. e.page[p].try \in Nat /\ e.page[p].blocks \in Nat
      BY <2>1, <2>3 DEF PageRows
    <2>5. row \in PageRows /\ row.try >= e.page[p].try
      BY <2>2, <2>4 DEF GoesOn, PageRows, Places
    <2>6. n \in Int /\ rows \in [Engine!Tasks -> {"none", "waiting", "asking", "calling", "read"}]
      BY <2>3, <2>4
    <2>7. \A u \in Engine!Tasks :
            rows[u] # g.task[u] => rows[u] = "none" /\ g.task[u] = "read"
      OBVIOUS
    <2> HIDE DEF rows, n
    <2>8. /\ f \in EngineRow
          /\ f.kind = g.kind /\ f.active = g.active
          /\ f.page = [g.page EXCEPT ![p] = row] /\ f.task = rows /\ f.pending = n
      BY <1>1, <2>1, <2>2, <2>5, <2>6, ReplacedRow
    <2> QED
      BY <1>1, <2>1, <2>2, <2>5, <2>7, <2>8, TasksForgotten DEF n
  <1> QED
    BY <1>2, <1>3

\* A page whose blocks are read leaves nothing behind.
LEMMA ReadPage ==
  ASSUME EngineInv(subject), NEW p \in EnginePages, Engine!AllRead(p)
  PROVE  EngineInv(subject')
  <1> DEFINE e == subject
             f == subject'
             mine == Engine!OfTry(p, Engine!Try(p))
             rows == [t \in Engine!Tasks |-> IF t \in mine THEN "none" ELSE e.task[t]]
             row == [e.page[p] EXCEPT !.at = "done"]
             n == IF e.kind = "paddleocr-vl" THEN e.pending - e.page[p].blocks ELSE e.pending
  <1>0. /\ e \in EngineRow /\ e.page \in [EnginePages -> PageRows] /\ e.pending \in Int
        /\ e.task \in [Engine!Tasks -> {"none", "waiting", "asking", "calling", "read"}]
    BY DEF EngineInv, EngineRow
  <1>1. /\ e.page[p].at = "recognising"
        /\ \A t \in mine : e.task[t] \in {"none", "read"}
    BY DEF Engine!AllRead, Engine!At
  <1>2. f = Replaced(e, p, row, rows, n)
    BY <1>0 DEF Engine!AllRead, Engine!Unpend, Engine!Paddle, Replaced, EngineRow
  <1>3. /\ row \in PageRows /\ row.at = "done" /\ row.try >= e.page[p].try
        /\ e.page[p].blocks \in Nat
    BY <1>0 DEF PageRows, Places
  <1>4. n \in Int /\ rows \in [Engine!Tasks -> {"none", "waiting", "asking", "calling", "read"}]
    BY <1>0, <1>3
  <1>5. \A t \in Engine!Tasks :
          rows[t] # e.task[t] => rows[t] = "none" /\ e.task[t] \in {"none", "read"}
    BY <1>1
  <1> HIDE DEF row, rows, n
  <1>6. /\ f \in EngineRow
        /\ f.kind = e.kind /\ f.active = e.active
        /\ f.page = [e.page EXCEPT ![p] = row] /\ f.task = rows /\ f.pending = n
    BY <1>0, <1>2, <1>3, <1>4, ReplacedRow
  <1> QED
    BY <1>1, <1>3, <1>5, <1>6, TasksForgotten DEF n

\* Every step of an engine keeps its counts true.
LEMMA EngineStep ==
  ASSUME EngineInv(subject), Engine!EngineNext
  PROVE  EngineInv(subject')
  <1>1. ASSUME NEW p \in EnginePages, Engine!LayoutStep(p)
        PROVE  EngineInv(subject')
    BY <1>1, LayoutSteps, FoundLayout, FailedCall, ReadPage DEF Engine!LayoutStep
  <1>2. ASSUME NEW t \in Engine!Tasks, Engine!BlockRead(t)
        PROVE  EngineInv(subject')
    <2> DEFINE at == IF Engine!IsOrphan(t) THEN "none" ELSE "read"
    <2>1. /\ subject.task[t] = "calling" /\ at \in {"none", "read"}
          /\ subject' = Return(subject, t, at)
      BY <1>2 DEF Engine!BlockRead, Engine!Returned, Engine!Paddle, Return, Updated
    <2> HIDE DEF at
    <2> QED
      BY <2>1, ReturnKeeps
  <1>3. ASSUME NEW t \in Engine!Tasks, Engine!BlockStep(t)
        PROVE  EngineInv(subject')
    BY <1>2, <1>3, StartedBlock, TookSlot, FailedBlock DEF Engine!BlockStep
  <1> QED
    BY <1>1, <1>3 DEF Engine!EngineNext

\* What the run checks of an engine
LEMMA EngineCounts ==
  ASSUME EngineInv(subject)
  PROVE  Engine!CountsTrue
  <1> DEFINE e == subject
             pending == {b \in EnginePages \X Engine!Blocks :
                           Engine!At(b[1]) = "recognising" /\ b[2] <= e.page[b[1]].blocks}
             calling == {t \in Engine!Tasks : e.task[t] = "calling"}
  <1>1. pending = PendingIn(e) /\ calling = CallingIn(e) /\ Engine!InLayout = LayoutsIn(e)
    BY DEF PendingIn, CallingIn, LayoutsIn, Engine!At, Engine!InLayout, Engine!Blocks
  <1>2. \A p, try : Engine!RunningOf(p, try) = RunningIn(e, p, try)
    BY DEF Engine!RunningOf, Engine!OfTry, Engine!Running, RunningIn
  <1>3. PICK m \in SlotLimits : \A n \in SlotLimits : n <= m
    BY EngineAssumption
  <1>4. Engine!Max(SlotLimits) \in SlotLimits
        /\ \A n \in SlotLimits : n <= Engine!Max(SlotLimits)
    <2>1. \A x \in SlotLimits : x \in Nat
      BY EngineAssumption
    <2>2. \A n \in SlotLimits : m >= n
      BY <1>3, <2>1
    <2>3. /\ Engine!Max(SlotLimits) \in SlotLimits
          /\ \A n \in SlotLimits : Engine!Max(SlotLimits) >= n
      BY <1>3, <2>2, Zenon DEF Engine!Max
    <2> QED
      BY <2>1, <2>3
  <1>5. ~ Engine!Paddle => /\ e.active = Cardinality(calling)
                           /\ e.active <= Engine!Max(SlotLimits)
    <2>1. e.active \in Int /\ SlotLimits \subseteq Nat
      BY EngineAssumption DEF EngineInv, EngineRow
    <2> QED
      <3>1. Engine!Max(SlotLimits) \in Nat
        BY <1>4, <2>1, Zenon
      <3>2. ASSUME ~ Engine!Paddle
            PROVE  e.active = Cardinality(CallingIn(e)) /\ \E limit \in SlotLimits : e.active <= limit
        BY <3>2 DEF EngineInv, ActiveTrue, Engine!Paddle
      <3>3. (\E limit \in SlotLimits : e.active <= limit) => e.active <= Engine!Max(SlotLimits)
        <4> SUFFICES ASSUME NEW limit, limit \in SlotLimits, e.active <= limit
                     PROVE  e.active <= Engine!Max(SlotLimits)
          OBVIOUS
        <4>1. limit \in Nat /\ limit <= Engine!Max(SlotLimits)
          BY <1>4, <2>1
        <4> QED
          BY <2>1, <3>1, <4>1
      <3> QED
        BY <1>1, <3>2, <3>3
  <1>6. Engine!Paddle => e.pending = Cardinality(pending)
    BY <1>1 DEF EngineInv, PendingTrue, Engine!Paddle
  <1>7. LayoutRoom > 0 /\ Engine!Paddle => Cardinality(Engine!InLayout) <= LayoutRoom
    BY <1>1 DEF EngineInv, LayoutsBounded, Engine!Paddle
  <1>8. \A p \in EnginePages, try \in Engine!Tries :
          Cardinality(Engine!RunningOf(p, try)) <= EngineCalls
    BY <1>2 DEF EngineInv, RunningBounded, Engine!Tries
  <1> QED
    BY <1>5, <1>6, <1>7, <1>8, SameCardinality DEF Engine!CountsTrue

-----------------------------------------------------------------------------
(* The files of the download pipeline (S3Download).                        *)

Listing == [key : Keys, exact : BOOLEAN, one : BOOLEAN]
Task == [key : Keys \cup {End}, complete : BOOLEAN]
WorkerRow ==
  [at : {"idle", "starting", "writing", "emitting", "dead", "gone"},
   key : Keys \cup {End}, try : Nat]

DownloadTypeOK ==
  /\ todo \in Seq(Listing) /\ asked \in Seq(Keys)
  /\ tasks \in Seq(Task) /\ unfinished \in Int
  /\ worker \in [Workers -> WorkerRow]
  /\ local \in [Keys -> {"none", "whole", "broken"}] /\ part \in [Keys -> BOOLEAN]
  /\ output \in Seq(Keys \cup {End})
  /\ stat \in [Stats -> Nat] /\ bytes \in Nat
  /\ stop \in BOOLEAN /\ pipeline \in {"producing", "gathering", "over"}

\* What a worker without a task remembers.
RowsFit ==
  \A w \in Workers : worker[w].key = End <=> worker[w].at \in {"idle", "gone"}

\* Files are queued before the end marks, and nothing is under way after them.
QueueShape ==
  IF pipeline = "producing"
    THEN \A i \in DOMAIN tasks : tasks[i].key # End
    ELSE /\ \A i \in DOMAIN tasks : tasks[i].key = End
         /\ \A w \in Workers : worker[w].at \in {"idle", "gone"}

NeverAsked(k) == \A i \in DOMAIN asked : asked[i] # k

\* Where a key may be: in the queue, with a worker, in the output.
InQueue(q, k) == \E i \in DOMAIN q : q[i].key = k
Single(q, k) == \A i, j \in DOMAIN q : q[i].key = k /\ q[j].key = k => i = j
Ready(q, k) == \E i \in DOMAIN q : q[i].key = k /\ q[i].complete
Held(rows, k) == \E w \in Workers : rows[w].key = k
Alone(rows, k) == \A v, w \in Workers : rows[v].key = k /\ rows[w].key = k => v = w
Handed(rows, k) == \E w \in Workers : rows[w].key = k /\ rows[w].at = "emitting"
Given(k) == k \in ToSet(output)

\* A key that was asked for once is in one place at a time, and whole from where
\* it is believed to be whole.
KeyTracked(k) ==
  /\ NeverAsked(k) => ~ InQueue(tasks, k) /\ ~ Held(worker, k) /\ ~ Given(k)
  /\ Once(k) =>
       /\ Single(tasks, k) /\ Alone(worker, k)
       /\ InQueue(tasks, k) => ~ Held(worker, k) /\ ~ Given(k)
       /\ Held(worker, k) => ~ Given(k)
       /\ Ready(tasks, k) \/ Handed(worker, k) \/ Given(k) => local[k] = "whole"
KeysTracked == \A k \in Keys : KeyTracked(k)

BytesBounded ==
  ByteLimit > 0 => bytes + At({"starting", "writing"}) < ByteLimit + Cardinality(Workers)

\* The inductive invariant.
DownloadInv ==
  DownloadTypeOK /\ RowsFit /\ QueueShape /\ KeysTracked /\ NothingVanishes /\ BytesBounded

-----------------------------------------------------------------------------
(* Sequences and counts.                                                   *)

\* What Tail does to the places of a sequence.
LEMMA TailShifts ==
  ASSUME NEW S, NEW s, s \in Seq(S), s # <<>>
  PROVE  /\ Tail(s) \in Seq(S) /\ Len(s) \in Nat /\ Len(s) > 0 /\ Len(Tail(s)) = Len(s) - 1
         /\ Head(s) = s[1] /\ Head(s) \in S /\ 1 \in DOMAIN s
         /\ \A i \in DOMAIN Tail(s) : i \in Int /\ i >= 1 /\ i + 1 \in DOMAIN s /\ Tail(s)[i] = s[i + 1]
  OBVIOUS

\* What Append does to the places of a sequence.
LEMMA AppendAdds ==
  ASSUME NEW S, NEW s, s \in Seq(S), NEW x, x \in S
  PROVE  /\ Append(s, x) \in Seq(S) /\ Len(s) \in Nat /\ Len(Append(s, x)) = Len(s) + 1
         /\ DOMAIN Append(s, x) = DOMAIN s \cup {Len(s) + 1}
         /\ Len(s) + 1 \notin DOMAIN s /\ Append(s, x)[Len(s) + 1] = x
         /\ \A i \in DOMAIN s : Append(s, x)[i] = s[i]
  OBVIOUS

\* Tail adds no member.
LEMMA MembersOfTail ==
  ASSUME NEW S, NEW s, s \in Seq(S), s # <<>>
  PROVE  ToSet(Tail(s)) \subseteq ToSet(s)
  BY TailShifts DEF ToSet

\* Append adds one member.
LEMMA MembersOfAppend ==
  ASSUME NEW S, NEW s, s \in Seq(S), NEW x, x \in S
  PROVE  ToSet(Append(s, x)) = ToSet(s) \cup {x}
  BY AppendAdds DEF ToSet

\* The workers at some places, as a function of their rows.
AtIn(rows, places) == Cardinality({w \in Workers : rows[w].at \in places})

\* The step of one worker moves a count of workers by what it leaves and enters.
LEMMA AtMoves ==
  ASSUME NEW rows, NEW new, NEW w, w \in Workers, NEW places,
         \A v \in Workers : v # w => new[v] = rows[v]
  PROVE  AtIn(new, places) =
           AtIn(rows, places) + (IF new[w].at \in places THEN 1 ELSE 0)
                              - (IF rows[w].at \in places THEN 1 ELSE 0)
  <1> DEFINE A == {v \in Workers : rows[v].at \in places}
             B == {v \in Workers : new[v].at \in places}
  <1>2. IsFiniteSet(Workers)
    BY DownloadAssumption
  <1>3. IsFiniteSet(A) /\ Cardinality(A) <= Cardinality(Workers)
    BY <1>2, FS_Subset
  <1>4. Cardinality(A) \in Nat
    BY <1>3, FS_CardinalityType
  <1>5. w \in A <=> rows[w].at \in places
    OBVIOUS
  <1>6. B = IF new[w].at \in places THEN A \cup {w} ELSE A \ {w}
    OBVIOUS
  <1> HIDE DEF A, B
  <1>7. Cardinality(A \cup {w}) = IF w \in A THEN Cardinality(A) ELSE Cardinality(A) + 1
    BY <1>3, FS_AddElement
  <1>8. Cardinality(A \ {w}) = IF w \in A THEN Cardinality(A) - 1 ELSE Cardinality(A)
    BY <1>3, FS_RemoveElement
  <1>9. Cardinality(B) = Cardinality(A) + (IF new[w].at \in places THEN 1 ELSE 0)
                                        - (IF rows[w].at \in places THEN 1 ELSE 0)
    BY <1>4, <1>5, <1>6, <1>7, <1>8
  <1> QED
    BY <1>9 DEF A, B, AtIn

\* While files are listed all of the queue is waiting, afterwards none of it.
WaitingIn(q) == Cardinality({i \in DOMAIN q : q[i].key # End})

LEMMA WaitingIs ==
  ASSUME NEW q, q \in Seq(Task)
  PROVE  /\ (\A i \in DOMAIN q : q[i].key # End) => WaitingIn(q) = Len(q)
         /\ (\A i \in DOMAIN q : q[i].key = End) => WaitingIn(q) = 0
         /\ Len(q) \in Nat
  <1> DEFINE W == {i \in DOMAIN q : q[i].key # End}
  <1>1. Len(q) \in Nat /\ DOMAIN q = 1 .. Len(q)
    OBVIOUS
  <1>2. ASSUME \A i \in DOMAIN q : q[i].key # End
        PROVE  WaitingIn(q) = Len(q)
    <2>1. W = 1 .. Len(q)
      BY <1>1, <1>2
    <2> HIDE DEF W
    <2>2. Cardinality(W) = Len(q)
      BY <1>1, <2>1, FS_Interval
    <2> QED
      BY <2>2 DEF WaitingIn, W
  <1>3. ASSUME \A i \in DOMAIN q : q[i].key = End
        PROVE  WaitingIn(q) = 0
    <2>1. W = {}
      BY <1>3
    <2> QED
      BY <2>1, FS_EmptySet DEF WaitingIn
  <1> QED
    BY <1>1, <1>2, <1>3

\* What a count adds to the files that are accounted for.
LEMMA CountsAdd ==
  ASSUME stat \in [Stats -> Nat], NEW what, Counts(what)
  PROVE  /\ stat' \in [Stats -> Nat] /\ Accounted \in Nat
         /\ \A s : what = {s} /\ s \in {"completed", "skipped", "failed", "not_found", "oversize"}
              => Accounted' = Accounted + 1
         /\ what = {"skipped", "cached"} => Accounted' = Accounted + 1
  BY DEF Counts, Stats, Accounted

-----------------------------------------------------------------------------
(* Where keys are after a step.                                            *)

\* Taking the head of the queue: keys only leave it, and a single one is gone.
LEMMA QueueShrinks ==
  ASSUME NEW q, q \in Seq(Task), q # <<>>, NEW k
  PROVE  /\ InQueue(Tail(q), k) => InQueue(q, k)
         /\ Single(q, k) => Single(Tail(q), k)
         /\ Ready(Tail(q), k) => Ready(q, k)
         /\ Head(q).key = k => InQueue(q, k)
         /\ Single(q, k) /\ Head(q).key = k => ~ InQueue(Tail(q), k)
         /\ Head(q).key = k /\ Head(q).complete => Ready(q, k)
  <1>1. /\ Head(q) = q[1] /\ 1 \in DOMAIN q
        /\ \A i \in DOMAIN Tail(q) : i \in Int /\ i >= 1 /\ i + 1 \in DOMAIN q /\ Tail(q)[i] = q[i + 1]
    BY TailShifts
  <1> DEFINE t == Tail(q)
  <1> HIDE DEF t
  <1>2. InQueue(t, k) => InQueue(q, k)
    BY <1>1 DEF InQueue, t
  <1>3. Ready(t, k) => Ready(q, k)
    BY <1>1 DEF Ready, t
  <1>4. ASSUME Single(q, k)  PROVE Single(t, k)
    <2> SUFFICES ASSUME NEW i \in DOMAIN t, NEW j \in DOMAIN t, t[i].key = k, t[j].key = k
                 PROVE  i = j
      BY DEF Single
    <2>1. i + 1 = j + 1
      BY <1>1, <1>4 DEF Single, t
    <2> QED
      BY <1>1, <2>1 DEF t
  <1>5. ASSUME Single(q, k), Head(q).key = k, InQueue(t, k)  PROVE FALSE
    <2>1. PICK i \in DOMAIN t : t[i].key = k
      BY <1>5 DEF InQueue
    <2>2. i + 1 = 1
      BY <1>1, <1>5, <2>1 DEF Single, t
    <2> QED
      BY <1>1, <2>2 DEF t
  <1>6. Head(q).key = k => InQueue(q, k)
    BY <1>1 DEF InQueue
  <1>7. Head(q).key = k /\ Head(q).complete => Ready(q, k)
    BY <1>1 DEF Ready
  <1> QED
    BY <1>2, <1>3, <1>4, <1>5, <1>6, <1>7 DEF t

\* Putting a task at the end of the queue.
LEMMA QueueGrows ==
  ASSUME NEW q, q \in Seq(Task), NEW t, t \in Task, NEW k
  PROVE  /\ InQueue(Append(q, t), k) => InQueue(q, k) \/ t.key = k
         /\ Single(q, k) /\ t.key # k => Single(Append(q, t), k)
         /\ ~ InQueue(q, k) => Single(Append(q, t), k)
         /\ Ready(Append(q, t), k) => Ready(q, k) \/ (t.key = k /\ t.complete)
  <1> DEFINE new == Append(q, t)
  <1>1. /\ DOMAIN new = DOMAIN q \cup {Len(q) + 1} /\ new[Len(q) + 1] = t
        /\ \A i \in DOMAIN q : new[i] = q[i]
    BY AppendAdds
  <1> HIDE DEF new
  <1> QED
    BY <1>1 DEF InQueue, Single, Ready, new

\* The step of one worker: which keys the workers hold after it.
LEMMA RowMoves ==
  ASSUME NEW rows, rows \in [Workers -> WorkerRow], NEW w, w \in Workers,
         NEW row, row \in WorkerRow, NEW k
  PROVE  LET new == [rows EXCEPT ![w] = row]
         IN  /\ new \in [Workers -> WorkerRow]
             /\ Held(new, k) => Held(rows, k) \/ row.key = k
             /\ Alone(rows, k) /\ row.key # k => Alone(new, k)
             /\ Alone(rows, k) /\ rows[w].key = k => Alone(new, k)
             /\ ~ Held(rows, k) => Alone(new, k)
             /\ Alone(rows, k) /\ rows[w].key = k /\ row.key # k => ~ Held(new, k)
             /\ Handed(new, k) => Handed(rows, k) \/ (row.key = k /\ row.at = "emitting")
             /\ Alone(rows, k) /\ rows[w].key = k /\ Handed(new, k) =>
                  row.key = k /\ row.at = "emitting"
             /\ rows[w].key = k => Held(rows, k)
             /\ rows[w].key = k /\ rows[w].at = "emitting" => Handed(rows, k)
  <1> DEFINE new == [rows EXCEPT ![w] = row]
  <1>1. new \in [Workers -> WorkerRow] /\ \A v \in Workers : new[v] = IF v = w THEN row ELSE rows[v]
    OBVIOUS
  <1> HIDE DEF new
  <1> QED
    BY <1>1 DEF Held, Alone, Handed, new

\* A key that is asked for again was not asked for once; the others are as before.
LEMMA AskedGrows ==
  ASSUME NEW k, k \in Keys, asked \in Seq(Keys), asked' = Append(asked, k)
  PROVE  /\ ~ NeverAsked(k)'
         /\ Once(k)' => NeverAsked(k)
         /\ \A l \in Keys : l # k => /\ NeverAsked(l)' => NeverAsked(l)
                                     /\ Once(l)' => Once(l)
  <1>1. /\ DOMAIN asked' = DOMAIN asked \cup {Len(asked) + 1} /\ Len(asked) + 1 \notin DOMAIN asked
        /\ asked'[Len(asked) + 1] = k /\ \A i \in DOMAIN asked : asked'[i] = asked[i]
    BY AppendAdds
  <1>2. ~ NeverAsked(k)'
    BY <1>1 DEF NeverAsked
  <1>3. Once(k)' => NeverAsked(k)
    BY <1>1 DEF NeverAsked, Once
  <1>4. ASSUME NEW l \in Keys, l # k, NeverAsked(l)'  PROVE NeverAsked(l)
    BY <1>1, <1>4 DEF NeverAsked
  <1>5. ASSUME NEW l \in Keys, l # k, Once(l)'  PROVE Once(l)
    <2>1. PICK i \in DOMAIN asked' : \A j \in DOMAIN asked' : asked'[j] = l <=> j = i
      BY <1>5 DEF Once
    <2>2. i \in DOMAIN asked
      BY <1>1, <1>5, <2>1
    <2>3. \A j \in DOMAIN asked : asked[j] = l <=> j = i
      BY <1>1, <2>1
    <2> QED
      BY <2>2, <2>3 DEF Once
  <1> QED
    BY <1>2, <1>3, <1>4, <1>5

-----------------------------------------------------------------------------
(* A step of a worker moves one key on.                                    *)

Lost == {"starting", "writing", "dead"}
Busy == {"starting", "writing", "emitting", "dead"}
Fetching == {"starting", "writing"}

\* NothingVanishes and BytesBounded on values.
Sums(account, open, waiting, rows, loaded, n, halted, place) ==
  /\ IF halted THEN account + waiting + AtIn(rows, Lost) <= n
               ELSE account + waiting + AtIn(rows, Lost) = n
  /\ place = "producing" => open = waiting + AtIn(rows, Busy)
  /\ ByteLimit > 0 => loaded + AtIn(rows, Fetching) < ByteLimit + Cardinality(Workers)

\* The invariant, on the values before a step ...
LEMMA SumsNow ==
  ASSUME DownloadInv
  PROVE  Sums(Accounted, unfinished, WaitingIn(tasks), worker, bytes, Len(asked), stop, pipeline)
  BY DEF DownloadInv, NothingVanishes, BytesBounded, Sums, Waiting, WaitingIn, At, AtIn, Lost,
         Busy, Fetching

\* The counts of workers are numbers, at most all of them.
LEMMA WorkersCounted ==
  /\ Cardinality(Workers) \in Nat
  /\ \A rows \in [Workers -> WorkerRow] : \A places :
       AtIn(rows, places) \in Nat /\ AtIn(rows, places) <= Cardinality(Workers)
  <1>1. IsFiniteSet(Workers)
    BY DownloadAssumption
  <1>2. ASSUME NEW rows, NEW places
        PROVE  AtIn(rows, places) \in Nat /\ AtIn(rows, places) <= Cardinality(Workers)
    <2>1. IsFiniteSet({w \in Workers : rows[w].at \in places})
          /\ Cardinality({w \in Workers : rows[w].at \in places}) <= Cardinality(Workers)
      BY <1>1, FS_Subset
    <2> QED
      BY <2>1, FS_CardinalityType DEF AtIn
  <1> QED
    BY <1>1, <1>2, FS_CardinalityType

\* ... and on the values after it.
LEMMA SumsThen ==
  ASSUME DownloadTypeOK',
         Sums(Accounted', unfinished', WaitingIn(tasks'), worker', bytes', Len(asked'), stop',
              pipeline')
  PROVE  NothingVanishes' /\ BytesBounded'
  <1>1. Waiting' = WaitingIn(tasks')
    BY DEF Waiting, WaitingIn
  <1>2. /\ At({"starting", "writing", "dead"})' = AtIn(worker', Lost)
        /\ At({"starting", "writing", "emitting", "dead"})' = AtIn(worker', Busy)
        /\ At({"starting", "writing"})' = AtIn(worker', Fetching)
    BY DEF At, AtIn, Lost, Busy, Fetching
  <1>3. Cardinality(Workers) \in Nat /\ AtIn(worker', Fetching) \in Nat
    BY WorkersCounted DEF DownloadTypeOK
  <1>4. bytes' \in Nat /\ ByteLimit \in Nat
    BY DownloadAssumption DEF DownloadTypeOK
  <1>5. ByteLimit > 0 => bytes' < ByteLimit + Cardinality(Workers)
    BY <1>3, <1>4 DEF Sums
  <1> QED
    BY <1>1, <1>2, <1>5 DEF Sums, NothingVanishes, BytesBounded

\* How the step of one worker changes the counts.
RowCounts(w) ==
  /\ Cardinality(Workers) \in Nat
  /\ AtIn(worker, Lost) \in Nat /\ AtIn(worker', Lost) \in Nat
  /\ AtIn(worker, Busy) \in Nat /\ AtIn(worker', Busy) \in Nat
  /\ AtIn(worker, Fetching) \in Nat /\ AtIn(worker', Fetching) \in Nat
  /\ AtIn(worker, Fetching) <= Cardinality(Workers)
  /\ AtIn(worker', Fetching) <= Cardinality(Workers)
  /\ AtIn(worker', Lost) = AtIn(worker, Lost) + (IF worker'[w].at \in Lost THEN 1 ELSE 0)
                                              - (IF worker[w].at \in Lost THEN 1 ELSE 0)
  /\ AtIn(worker', Busy) = AtIn(worker, Busy) + (IF worker'[w].at \in Busy THEN 1 ELSE 0)
                                              - (IF worker[w].at \in Busy THEN 1 ELSE 0)
  /\ AtIn(worker', Fetching) =
       AtIn(worker, Fetching) + (IF worker'[w].at \in Fetching THEN 1 ELSE 0)
                              - (IF worker[w].at \in Fetching THEN 1 ELSE 0)

\* They are moved by the worker's own place.
LEMMA WorkerCounts ==
  ASSUME NEW w, w \in Workers, worker \in [Workers -> WorkerRow],
         worker' \in [Workers -> WorkerRow],
         \A v \in Workers : v # w => worker'[v] = worker[v]
  PROVE  RowCounts(w)
  <1>1. /\ Cardinality(Workers) \in Nat
        /\ AtIn(worker, Lost) \in Nat /\ AtIn(worker', Lost) \in Nat
        /\ AtIn(worker, Busy) \in Nat /\ AtIn(worker', Busy) \in Nat
        /\ AtIn(worker, Fetching) \in Nat /\ AtIn(worker', Fetching) \in Nat
        /\ AtIn(worker, Fetching) <= Cardinality(Workers)
        /\ AtIn(worker', Fetching) <= Cardinality(Workers)
    BY WorkersCounted
  <1>2. AtIn(worker', Lost) = AtIn(worker, Lost) + (IF worker'[w].at \in Lost THEN 1 ELSE 0)
                                                 - (IF worker[w].at \in Lost THEN 1 ELSE 0)
    BY <1>1, AtMoves
  <1>3. AtIn(worker', Busy) = AtIn(worker, Busy) + (IF worker'[w].at \in Busy THEN 1 ELSE 0)
                                                 - (IF worker[w].at \in Busy THEN 1 ELSE 0)
    BY <1>1, AtMoves
  <1>4. AtIn(worker', Fetching) = AtIn(worker, Fetching) + (IF worker'[w].at \in Fetching THEN 1 ELSE 0)
                                                         - (IF worker[w].at \in Fetching THEN 1 ELSE 0)
    BY <1>1, AtMoves
  <1> QED
    BY <1>1, <1>2, <1>3, <1>4 DEF RowCounts

\* KeyTracked after a step, on the new values.
TrackedAfter(l) ==
  /\ NeverAsked(l)' => ~ InQueue(tasks', l) /\ ~ Held(worker', l) /\ ~ Given(l)'
  /\ Once(l)' =>
       /\ Single(tasks', l) /\ Alone(worker', l)
       /\ InQueue(tasks', l) => ~ Held(worker', l) /\ ~ Given(l)'
       /\ Held(worker', l) => ~ Given(l)'
       /\ Ready(tasks', l) \/ Handed(worker', l) \/ Given(l)' => local'[l] = "whole"

\* It is KeyTracked of the next state.
LEMMA TrackedThen ==
  ASSUME NEW l, TrackedAfter(l)
  PROVE  KeyTracked(l)'
  BY DEF TrackedAfter, KeyTracked, InQueue, Single, Ready, Held, Alone, Handed

\* A worker takes a file from the queue: it drops it, hands it on, fetches it,
\* or is lost over it.
TakesFile(w, row) ==
  /\ NextTask(w)
  /\ worker' = [worker EXCEPT ![w] = row] /\ part' \in [Keys -> BOOLEAN]
  /\ UNCHANGED <<todo, asked, stop, pipeline, local, output, bytes>>
  /\ stat' \in [Stats -> Nat] /\ Accounted \in Nat
  /\ \/ /\ row = worker[w] /\ unfinished' = unfinished - 1
        /\ Accounted' = Accounted + 1 \/ (stop /\ Accounted' = Accounted)
     \/ /\ row.key = Head(tasks).key /\ unfinished' = unfinished
        /\ \/ /\ row.at = "emitting" /\ Accounted' = Accounted + 1
              /\ IsCached(Head(tasks)) \/ local[Head(tasks).key] = "whole"
           \/ row.at = "starting" /\ Accounted' = Accounted /\ WithinLimit(bytes)
           \/ row.at = "dead" /\ Accounted' = Accounted

\* Taking a file keeps the invariant: the key is in the queue, so nobody else has it.
LEMMA Takes ==
  ASSUME DownloadInv, NEW w, w \in Workers, NEW row, row \in WorkerRow, TakesFile(w, row)
  PROVE  DownloadInv'
  <1> DEFINE k == Head(tasks).key
  <1>1. DownloadTypeOK /\ RowsFit /\ QueueShape /\ KeysTracked
    BY DEF DownloadInv
  <1>2. /\ worker[w].at = "idle" /\ tasks # <<>> /\ tasks' = Tail(tasks)
        /\ tasks \in Seq(Task) /\ worker \in [Workers -> WorkerRow]
    BY <1>1 DEF TakesFile, NextTask, DownloadTypeOK
  <1>3. k \in Keys /\ k # End /\ End \notin Keys
    <2>1. Head(tasks) \in Task
      BY <1>2, TailShifts
    <2> QED
      BY <2>1, DownloadAssumption DEF TakesFile, NextTask, Task
  <1>4. /\ tasks' \in Seq(Task) /\ Len(tasks) \in Nat /\ Len(tasks') = Len(tasks) - 1
        /\ Head(tasks) = tasks[1] /\ 1 \in DOMAIN tasks
        /\ \A i \in DOMAIN tasks' : i + 1 \in DOMAIN tasks /\ tasks'[i] = tasks[i + 1]
    BY <1>2, TailShifts
  <1>5. pipeline = "producing" /\ \A i \in DOMAIN tasks : tasks[i].key # End
    BY <1>1, <1>3, <1>4 DEF QueueShape
  <1>6. DownloadTypeOK'
    <2>1. worker' \in [Workers -> WorkerRow]
      BY <1>2 DEF TakesFile
    <2>2. unfinished' \in Int
      BY <1>1 DEF DownloadTypeOK, TakesFile
    <2> QED
      BY <1>1, <1>4, <2>1, <2>2 DEF DownloadTypeOK, TakesFile
  <1>7. \A v \in Workers : worker'[v] = IF v = w THEN row ELSE worker[v]
    BY <1>2 DEF TakesFile
  <1>8. RowsFit'
    BY <1>1, <1>2, <1>3, <1>7 DEF RowsFit, TakesFile
  <1>9. QueueShape'
    BY <1>4, <1>5 DEF QueueShape, TakesFile
  <1>10. KeysTracked'
    <2> SUFFICES ASSUME NEW l \in Keys  PROVE KeyTracked(l)'
      BY DEF KeysTracked
    <2>1. KeyTracked(l) /\ KeyTracked(k)
      BY <1>1, <1>3 DEF KeysTracked
    <2>2. /\ (NeverAsked(l)' <=> NeverAsked(l)) /\ (Once(l)' <=> Once(l)) /\ (Given(l)' <=> Given(l))
      BY DEF NeverAsked, Once, Given, TakesFile
    <2>3. worker[w].key = End
      BY <1>1, <1>2 DEF RowsFit
    <2>4. k = l => InQueue(tasks, l)
      BY <1>2, QueueShrinks
    <2>5. local' = local /\ worker' = [worker EXCEPT ![w] = row]
      BY DEF TakesFile
    <2>6. row.key = l => k = l /\ (row.at = "emitting" /\ Once(l) => local[l] = "whole")
      <3>1. ASSUME row.key = k, row.at = "emitting", Once(k)  PROVE local[k] = "whole"
        <4>1. Head(tasks).complete => Ready(tasks, k)
          BY <1>2, QueueShrinks
        <4> QED
          BY <1>3, <2>1, <2>3, <3>1, <4>1 DEF IsCached, Complete, KeyTracked, TakesFile
      <3> QED
        BY <1>3, <2>3, <3>1 DEF TakesFile
    <2>7. /\ Held(worker', l) => Held(worker, l) \/ row.key = l
          /\ Alone(worker, l) /\ row.key # l => Alone(worker', l)
          /\ ~ Held(worker, l) => Alone(worker', l)
          /\ Handed(worker', l) => Handed(worker, l) \/ (row.key = l /\ row.at = "emitting")
      BY <1>2, <2>5, RowMoves
    <2>8. /\ InQueue(tasks', l) => InQueue(tasks, l)
          /\ Single(tasks, l) => Single(tasks', l)
          /\ Ready(tasks', l) => Ready(tasks, l)
          /\ Single(tasks, l) /\ k = l => ~ InQueue(tasks', l)
      BY <1>2, QueueShrinks
    <2>9. ~ InQueue(tasks, l) => ~ Ready(tasks, l)
      BY DEF InQueue, Ready
    <2>10. InQueue(tasks', l) \/ ~ Ready(tasks', l)
      BY DEF InQueue, Ready
    <2>11. TrackedAfter(l) => KeyTracked(l)'
      BY TrackedThen
    <2> HIDE DEF k
    <2>12. CASE row.key = l
      BY <2>1, <2>2, <2>4, <2>5, <2>6, <2>7, <2>8, <2>9, <2>10, <2>11, <2>12 DEF KeyTracked, TrackedAfter
    <2>13. CASE row.key # l
      BY <2>1, <2>2, <2>5, <2>7, <2>8, <2>9, <2>10, <2>11, <2>13 DEF KeyTracked, TrackedAfter
    <2> QED
      BY <2>12, <2>13
  <1>11. Sums(Accounted', unfinished', WaitingIn(tasks'), worker', bytes', Len(asked'), stop',
              pipeline')
    <2>1. Sums(Accounted, unfinished, WaitingIn(tasks), worker, bytes, Len(asked), stop, pipeline)
      BY SumsNow
    <2>2. WaitingIn(tasks) = Len(tasks)
      BY <1>2, <1>5, WaitingIs
    <2>3. WaitingIn(tasks') = Len(tasks')
      BY <1>4, <1>5, WaitingIs
    <2>4. row.at \in {"idle", "starting", "emitting", "dead"}
      BY <1>2 DEF TakesFile
    <2>5. worker' \in [Workers -> WorkerRow] /\ worker'[w] = row
      BY <1>2 DEF TakesFile
    <2>6. RowCounts(w)
      BY <1>2, <1>7, <2>5, WorkerCounts
    <2>7. worker[w].at \notin Lost /\ worker[w].at \notin Busy /\ worker[w].at \notin Fetching
      BY <1>2 DEF Lost, Busy, Fetching
    <2>8. /\ row.at \in Lost <=> row.at \in {"starting", "dead"}
          /\ row.at \in Busy <=> row.at # "idle"
          /\ row.at \in Fetching <=> row.at = "starting"
      BY <2>4 DEF Lost, Busy, Fetching
    <2>9. /\ bytes \in Nat /\ ByteLimit \in Nat /\ Len(asked) \in Nat /\ unfinished \in Int
          /\ bytes' = bytes /\ asked' = asked /\ stop' = stop /\ pipeline' = pipeline
          /\ Accounted \in Nat
      BY <1>1, DownloadAssumption DEF DownloadTypeOK, TakesFile
    <2> HIDE DEF k
    <2>10. /\ Len(tasks) \in Nat /\ Len(tasks') = Len(tasks) - 1
           /\ IF stop THEN Accounted + Len(tasks) + AtIn(worker, Lost) <= Len(asked)
                      ELSE Accounted + Len(tasks) + AtIn(worker, Lost) = Len(asked)
           /\ pipeline = "producing" => unfinished = Len(tasks) + AtIn(worker, Busy)
           /\ ByteLimit > 0 => bytes + AtIn(worker, Fetching) < ByteLimit + Cardinality(Workers)
      BY <1>4, <2>1, <2>2 DEF Sums
    <2>11. /\ AtIn(worker, Lost) \in Nat /\ AtIn(worker', Lost) \in Nat
           /\ AtIn(worker, Busy) \in Nat /\ AtIn(worker', Busy) \in Nat
           /\ AtIn(worker, Fetching) \in Nat /\ AtIn(worker', Fetching) \in Nat
           /\ AtIn(worker', Fetching) <= Cardinality(Workers) /\ Cardinality(Workers) \in Nat
      BY <2>6 DEF RowCounts
    <2>12. CASE row.at = "idle"
      <3>1. /\ AtIn(worker', Lost) = AtIn(worker, Lost) /\ AtIn(worker', Busy) = AtIn(worker, Busy)
            /\ AtIn(worker', Fetching) = AtIn(worker, Fetching)
        BY <2>5, <2>6, <2>7, <2>8, <2>12 DEF RowCounts
      <3>2. /\ unfinished' = unfinished - 1
            /\ Accounted' = Accounted + 1 \/ (stop /\ Accounted' = Accounted)
        BY <1>2, <2>12 DEF TakesFile
      <3>3. IF stop' THEN Accounted' + Len(tasks') + AtIn(worker', Lost) <= Len(asked')
                     ELSE Accounted' + Len(tasks') + AtIn(worker', Lost) = Len(asked')
        BY <2>9, <2>10, <2>11, <3>1, <3>2
      <3>4. pipeline' = "producing" => unfinished' = Len(tasks') + AtIn(worker', Busy)
        BY <2>9, <2>10, <2>11, <3>1, <3>2
      <3>5. ByteLimit > 0 => bytes' + AtIn(worker', Fetching) < ByteLimit + Cardinality(Workers)
        BY <2>9, <2>10, <2>11, <3>1
      <3> QED
        BY <2>3, <3>3, <3>4, <3>5 DEF Sums
    <2>13. CASE row.at = "starting"
      <3>1. /\ AtIn(worker', Lost) = AtIn(worker, Lost) + 1
            /\ AtIn(worker', Busy) = AtIn(worker, Busy) + 1
        BY <2>5, <2>6, <2>7, <2>8, <2>13 DEF RowCounts
      <3>2. unfinished' = unfinished /\ Accounted' = Accounted /\ WithinLimit(bytes)
        BY <1>2, <2>13 DEF TakesFile
      <3>3. ByteLimit > 0 => bytes' + AtIn(worker', Fetching) < ByteLimit + Cardinality(Workers)
        BY <2>9, <2>11, <3>2 DEF WithinLimit
      <3>4. IF stop' THEN Accounted' + Len(tasks') + AtIn(worker', Lost) <= Len(asked')
                     ELSE Accounted' + Len(tasks') + AtIn(worker', Lost) = Len(asked')
        BY <2>9, <2>10, <2>11, <3>1, <3>2
      <3>5. pipeline' = "producing" => unfinished' = Len(tasks') + AtIn(worker', Busy)
        BY <2>9, <2>10, <2>11, <3>1, <3>2
      <3> QED
        BY <2>3, <3>3, <3>4, <3>5 DEF Sums
    <2>14. CASE row.at = "dead"
      <3>1. /\ AtIn(worker', Lost) = AtIn(worker, Lost) + 1
            /\ AtIn(worker', Busy) = AtIn(worker, Busy) + 1
            /\ AtIn(worker', Fetching) = AtIn(worker, Fetching)
        BY <2>5, <2>6, <2>7, <2>8, <2>14 DEF RowCounts
      <3>2. unfinished' = unfinished /\ Accounted' = Accounted
        BY <1>2, <2>14 DEF TakesFile
      <3>3. IF stop' THEN Accounted' + Len(tasks') + AtIn(worker', Lost) <= Len(asked')
                     ELSE Accounted' + Len(tasks') + AtIn(worker', Lost) = Len(asked')
        BY <2>9, <2>10, <2>11, <3>1, <3>2
      <3>4. pipeline' = "producing" => unfinished' = Len(tasks') + AtIn(worker', Busy)
        BY <2>9, <2>10, <2>11, <3>1, <3>2
      <3>5. ByteLimit > 0 => bytes' + AtIn(worker', Fetching) < ByteLimit + Cardinality(Workers)
        BY <2>9, <2>10, <2>11, <3>1
      <3> QED
        BY <2>3, <3>3, <3>4, <3>5 DEF Sums
    <2>15. CASE row.at = "emitting"
      <3>1. /\ AtIn(worker', Lost) = AtIn(worker, Lost)
            /\ AtIn(worker', Busy) = AtIn(worker, Busy) + 1
            /\ AtIn(worker', Fetching) = AtIn(worker, Fetching)
        BY <2>5, <2>6, <2>7, <2>8, <2>15 DEF RowCounts
      <3>2. unfinished' = unfinished /\ Accounted' = Accounted + 1
        BY <1>2, <2>15 DEF TakesFile
      <3>3. IF stop' THEN Accounted' + Len(tasks') + AtIn(worker', Lost) <= Len(asked')
                     ELSE Accounted' + Len(tasks') + AtIn(worker', Lost) = Len(asked')
        BY <2>9, <2>10, <2>11, <3>1, <3>2
      <3>4. pipeline' = "producing" => unfinished' = Len(tasks') + AtIn(worker', Busy)
        BY <2>9, <2>10, <2>11, <3>1, <3>2
      <3>5. ByteLimit > 0 => bytes' + AtIn(worker', Fetching) < ByteLimit + Cardinality(Workers)
        BY <2>9, <2>10, <2>11, <3>1
      <3> QED
        BY <2>3, <3>3, <3>4, <3>5 DEF Sums
    <2> QED
      BY <2>4, <2>12, <2>13, <2>14, <2>15
  <1> QED
    BY <1>6, <1>8, <1>9, <1>10, <1>11, SumsThen DEF DownloadInv

\* A worker goes on with its file: it tries again, gives up or fetches it.
WorksOn(w, row) ==
  /\ worker[w].at \in Fetching
  /\ worker' = [worker EXCEPT ![w] = row] /\ part' \in [Keys -> BOOLEAN]
  /\ UNCHANGED <<todo, asked, stop, pipeline, tasks, output>>
  /\ local' \in [Keys -> {"none", "whole", "broken"}]
  /\ \A l \in Keys : l # worker[w].key => local'[l] = local[l]
  /\ stat' \in [Stats -> Nat] /\ Accounted \in Nat
  /\ \/ /\ row = Idle /\ unfinished' = unfinished - 1
        /\ Accounted' = Accounted + 1 /\ bytes' = bytes
     \/ /\ row.key = worker[w].key /\ row.at \in Fetching /\ unfinished' = unfinished
        /\ Accounted' = Accounted /\ bytes' = bytes
     \/ /\ row.key = worker[w].key /\ row.at = "emitting" /\ unfinished' = unfinished
        /\ Accounted' = Accounted + 1 /\ bytes' = bytes + 1
        /\ worker[w].at = "writing"
        /\ Writers(worker[w].key) = {w} => local'[worker[w].key] = "whole"

\* Going on with a file keeps the invariant: its only writer moves a whole file into
\* place.
LEMMA Works ==
  ASSUME DownloadInv, NEW w, w \in Workers, NEW row, row \in WorkerRow, WorksOn(w, row)
  PROVE  DownloadInv'
  <1> DEFINE k == worker[w].key
  <1>1. DownloadTypeOK /\ RowsFit /\ QueueShape /\ KeysTracked
    BY DEF DownloadInv
  <1>2. /\ worker[w].at \in Fetching /\ worker \in [Workers -> WorkerRow]
        /\ worker' = [worker EXCEPT ![w] = row]
        /\ tasks' = tasks /\ output' = output
    BY <1>1 DEF WorksOn, DownloadTypeOK
  <1>3. k \in Keys /\ k # End /\ End \notin Keys
    BY <1>1, <1>2, DownloadAssumption DEF RowsFit, Fetching, WorkerRow
  <1>4. pipeline = "producing" /\ \A i \in DOMAIN tasks : tasks[i].key # End
    BY <1>1, <1>2 DEF QueueShape, Fetching
  <1>5. row.at \in {"idle", "starting", "writing", "emitting"}
    BY DEF WorksOn, Idle, Fetching
  <1>6. DownloadTypeOK'
    <2>1. worker' \in [Workers -> WorkerRow]
      BY <1>2
    <2>2. unfinished' \in Int /\ bytes' \in Nat
      BY <1>1 DEF DownloadTypeOK, WorksOn
    <2> QED
      BY <1>1, <2>1, <2>2 DEF DownloadTypeOK, WorksOn
  <1>7. \A v \in Workers : worker'[v] = IF v = w THEN row ELSE worker[v]
    BY <1>2
  <1>8. RowsFit'
    <2>1. row.key = End <=> row.at \in {"idle", "gone"}
      BY <1>3, <1>5 DEF WorksOn, Idle, Fetching
    <2> QED
      BY <1>1, <1>7, <2>1 DEF RowsFit
  <1>9. QueueShape'
    BY <1>4 DEF QueueShape, WorksOn
  <1>10. KeysTracked'
    <2> SUFFICES ASSUME NEW l \in Keys  PROVE KeyTracked(l)'
      BY DEF KeysTracked
    <2>1. KeyTracked(l)
      BY <1>1 DEF KeysTracked
    <2>2. /\ (NeverAsked(l)' <=> NeverAsked(l)) /\ (Once(l)' <=> Once(l)) /\ (Given(l)' <=> Given(l))
      BY DEF NeverAsked, Once, Given, WorksOn
    <2>3. /\ Held(worker', l) => Held(worker, l) \/ row.key = l
          /\ Alone(worker, l) /\ row.key # l => Alone(worker', l)
          /\ Alone(worker, l) /\ k = l => Alone(worker', l)
          /\ Handed(worker', l) => Handed(worker, l) \/ (row.key = l /\ row.at = "emitting")
          /\ Alone(worker, l) /\ k = l /\ Handed(worker', l) => row.key = l /\ row.at = "emitting"
          /\ k = l => Held(worker, l)
      BY <1>2, RowMoves
    <2>4. row.key # End => row.key = k
      BY DEF WorksOn, Idle
    <2>5. ASSUME row.at = "emitting", Alone(worker, k)  PROVE local'[k] = "whole"
      <3>1. worker[w].at = "writing"
        BY <1>5, <2>5 DEF WorksOn, Idle, Fetching
      <3>2. Writers(k) = {w}
        BY <2>5, <3>1 DEF Writers, Alone
      <3> QED
        BY <2>5, <3>2 DEF WorksOn, Idle, Fetching
    <2>6. l # k => local'[l] = local[l]
      BY DEF WorksOn
    <2>7. Ready(tasks, l) => InQueue(tasks, l)
      BY DEF InQueue, Ready
    <2>8. TrackedAfter(l) => KeyTracked(l)'
      BY TrackedThen
    <2>9. l # End
      BY <1>3
    <2> HIDE DEF k
    <2>10. CASE k = l
      BY <1>2, <2>1, <2>2, <2>3, <2>4, <2>5, <2>7, <2>8, <2>9, <2>10 DEF KeyTracked, TrackedAfter
    <2>11. CASE k # l
      BY <1>2, <2>1, <2>2, <2>3, <2>4, <2>6, <2>8, <2>9, <2>11 DEF KeyTracked, TrackedAfter
    <2> QED
      BY <2>10, <2>11
  <1>11. Sums(Accounted', unfinished', WaitingIn(tasks'), worker', bytes', Len(asked'), stop',
              pipeline')
    <2>1. Sums(Accounted, unfinished, WaitingIn(tasks), worker, bytes, Len(asked), stop, pipeline)
      BY SumsNow
    <2>2. WaitingIn(tasks) = Len(tasks) /\ Len(tasks) \in Nat /\ tasks' = tasks
      BY <1>1, <1>2, <1>4, WaitingIs DEF DownloadTypeOK
    <2>3. worker' \in [Workers -> WorkerRow] /\ worker'[w] = row
      BY <1>2
    <2>4. RowCounts(w)
      BY <1>2, <1>7, <2>3, WorkerCounts
    <2>5. worker[w].at \in Lost /\ worker[w].at \in Busy /\ worker[w].at \in Fetching
      BY <1>2 DEF Lost, Busy, Fetching
    <2>6. /\ row.at \in Lost <=> row.at \in {"starting", "writing"}
          /\ row.at \in Busy <=> row.at # "idle"
          /\ row.at \in Fetching <=> row.at \in {"starting", "writing"}
      BY <1>5 DEF Lost, Busy, Fetching
    <2>7. /\ bytes \in Nat /\ ByteLimit \in Nat /\ Len(asked) \in Nat /\ unfinished \in Int
          /\ asked' = asked /\ stop' = stop /\ pipeline' = pipeline /\ Accounted \in Nat
      BY <1>1, DownloadAssumption DEF DownloadTypeOK, WorksOn
    <2>8. /\ IF stop THEN Accounted + Len(tasks) + AtIn(worker, Lost) <= Len(asked)
                     ELSE Accounted + Len(tasks) + AtIn(worker, Lost) = Len(asked)
          /\ pipeline = "producing" => unfinished = Len(tasks) + AtIn(worker, Busy)
          /\ ByteLimit > 0 => bytes + AtIn(worker, Fetching) < ByteLimit + Cardinality(Workers)
      BY <2>1, <2>2 DEF Sums
    <2>9. /\ AtIn(worker, Lost) \in Nat /\ AtIn(worker', Lost) \in Nat
          /\ AtIn(worker, Busy) \in Nat /\ AtIn(worker', Busy) \in Nat
          /\ AtIn(worker, Fetching) \in Nat /\ AtIn(worker', Fetching) \in Nat
          /\ Cardinality(Workers) \in Nat
      BY <2>4 DEF RowCounts
    <2> HIDE DEF k
    <2>10. CASE row.at = "idle"
      <3>1. /\ AtIn(worker', Lost) = AtIn(worker, Lost) - 1
            /\ AtIn(worker', Busy) = AtIn(worker, Busy) - 1
            /\ AtIn(worker', Fetching) = AtIn(worker, Fetching) - 1
        BY <2>3, <2>4, <2>5, <2>6, <2>10 DEF RowCounts
      <3>2. unfinished' = unfinished - 1 /\ Accounted' = Accounted + 1 /\ bytes' = bytes
        BY <2>10 DEF WorksOn, Fetching
      <3>3. IF stop' THEN Accounted' + Len(tasks) + AtIn(worker', Lost) <= Len(asked')
                     ELSE Accounted' + Len(tasks) + AtIn(worker', Lost) = Len(asked')
        BY <2>2, <2>7, <2>8, <2>9, <3>1, <3>2
      <3>4. pipeline' = "producing" => unfinished' = Len(tasks) + AtIn(worker', Busy)
        BY <2>2, <2>7, <2>8, <2>9, <3>1, <3>2
      <3>5. ByteLimit > 0 => bytes' + AtIn(worker', Fetching) < ByteLimit + Cardinality(Workers)
        BY <2>7, <2>8, <2>9, <3>1, <3>2
      <3> QED
        BY <2>2, <3>3, <3>4, <3>5 DEF Sums
    <2>11. CASE row.at \in {"starting", "writing"}
      <3>1. /\ AtIn(worker', Lost) = AtIn(worker, Lost) /\ AtIn(worker', Busy) = AtIn(worker, Busy)
            /\ AtIn(worker', Fetching) = AtIn(worker, Fetching)
        BY <2>3, <2>4, <2>5, <2>6, <2>11 DEF RowCounts
      <3>2. unfinished' = unfinished /\ Accounted' = Accounted /\ bytes' = bytes
        BY <2>11 DEF WorksOn, Idle
      <3>3. IF stop' THEN Accounted' + Len(tasks) + AtIn(worker', Lost) <= Len(asked')
                     ELSE Accounted' + Len(tasks) + AtIn(worker', Lost) = Len(asked')
        BY <2>2, <2>7, <2>8, <2>9, <3>1, <3>2
      <3>4. pipeline' = "producing" => unfinished' = Len(tasks) + AtIn(worker', Busy)
        BY <2>2, <2>7, <2>8, <2>9, <3>1, <3>2
      <3>5. ByteLimit > 0 => bytes' + AtIn(worker', Fetching) < ByteLimit + Cardinality(Workers)
        BY <2>7, <2>8, <2>9, <3>1, <3>2
      <3> QED
        BY <2>2, <3>3, <3>4, <3>5 DEF Sums
    <2>12. CASE row.at = "emitting"
      <3>1. /\ AtIn(worker', Lost) = AtIn(worker, Lost) - 1
            /\ AtIn(worker', Busy) = AtIn(worker, Busy)
            /\ AtIn(worker', Fetching) = AtIn(worker, Fetching) - 1
        BY <2>3, <2>4, <2>5, <2>6, <2>12 DEF RowCounts
      <3>2. unfinished' = unfinished /\ Accounted' = Accounted + 1 /\ bytes' = bytes + 1
        BY <2>12 DEF WorksOn, Idle, Fetching
      <3>3. IF stop' THEN Accounted' + Len(tasks) + AtIn(worker', Lost) <= Len(asked')
                     ELSE Accounted' + Len(tasks) + AtIn(worker', Lost) = Len(asked')
        BY <2>2, <2>7, <2>8, <2>9, <3>1, <3>2
      <3>4. pipeline' = "producing" => unfinished' = Len(tasks) + AtIn(worker', Busy)
        BY <2>2, <2>7, <2>8, <2>9, <3>1, <3>2
      <3>5. ByteLimit > 0 => bytes' + AtIn(worker', Fetching) < ByteLimit + Cardinality(Workers)
        BY <2>7, <2>8, <2>9, <3>1, <3>2
      <3> QED
        BY <2>2, <3>3, <3>4, <3>5 DEF Sums
    <2> QED
      BY <1>5, <2>10, <2>11, <2>12
  <1> QED
    BY <1>6, <1>8, <1>9, <1>10, <1>11, SumsThen DEF DownloadInv

\* Handing a file over keeps the invariant: it leaves the worker for the output
\* and its task is done.
LEMMA EmitKeeps ==
  ASSUME DownloadInv, NEW w, w \in Workers, Emit(w)
  PROVE  DownloadInv'
  <1> DEFINE k == worker[w].key
  <1>1. DownloadTypeOK /\ RowsFit /\ QueueShape /\ KeysTracked
    BY DEF DownloadInv
  <1>2. /\ worker[w].at = "emitting" /\ worker \in [Workers -> WorkerRow]
        /\ worker' = [worker EXCEPT ![w] = Idle] /\ Idle \in WorkerRow
        /\ tasks' = tasks /\ output' = Append(output, k) /\ output \in Seq(Keys \cup {End})
        /\ UNCHANGED <<asked, stop, pipeline, local, bytes>>
    BY <1>1 DEF Emit, DownloadTypeOK, loopVars, Idle, WorkerRow
  <1>3. k \in Keys /\ k # End /\ End \notin Keys
    BY <1>1, <1>2, DownloadAssumption DEF RowsFit, WorkerRow
  <1>4. pipeline = "producing" /\ \A i \in DOMAIN tasks : tasks[i].key # End
    BY <1>1, <1>2 DEF QueueShape
  <1>5. DownloadTypeOK'
    <2>1. worker' \in [Workers -> WorkerRow] /\ output' \in Seq(Keys \cup {End})
      BY <1>2, <1>3, AppendAdds
    <2> QED
      BY <1>1, <2>1 DEF DownloadTypeOK, Emit, TaskDone, loopVars
  <1>6. \A v \in Workers : worker'[v] = IF v = w THEN Idle ELSE worker[v]
    BY <1>2
  <1>7. RowsFit'
    BY <1>1, <1>6 DEF RowsFit, Idle
  <1>8. QueueShape'
    BY <1>2, <1>4 DEF QueueShape
  <1>9. KeysTracked'
    <2> SUFFICES ASSUME NEW l \in Keys  PROVE KeyTracked(l)'
      BY DEF KeysTracked
    <2>1. KeyTracked(l)
      BY <1>1 DEF KeysTracked
    <2>2. (NeverAsked(l)' <=> NeverAsked(l)) /\ (Once(l)' <=> Once(l))
      BY <1>2 DEF NeverAsked, Once
    <2>3. Given(l)' <=> Given(l) \/ l = k
      BY <1>2, <1>3, MembersOfAppend DEF Given
    <2>4. /\ Held(worker', l) => Held(worker, l) \/ Idle.key = l
          /\ Alone(worker, l) /\ Idle.key # l => Alone(worker', l)
          /\ Alone(worker, l) /\ k = l /\ Idle.key # l => ~ Held(worker', l)
          /\ Handed(worker', l) => Handed(worker, l) \/ (Idle.key = l /\ Idle.at = "emitting")
          /\ k = l => Held(worker, l)
          /\ k = l => Handed(worker, l)
      BY <1>2, RowMoves
    <2>5. Idle.key # l
      BY <1>3 DEF Idle
    <2>6. Ready(tasks, l) => InQueue(tasks, l)
      BY DEF InQueue, Ready
    <2>7. TrackedAfter(l) => KeyTracked(l)'
      BY TrackedThen
    <2> HIDE DEF k
    <2>8. CASE k = l
      BY <1>2, <2>1, <2>2, <2>3, <2>4, <2>5, <2>6, <2>7, <2>8 DEF KeyTracked, TrackedAfter
    <2>9. CASE k # l
      BY <1>2, <2>1, <2>2, <2>3, <2>4, <2>5, <2>7, <2>9 DEF KeyTracked, TrackedAfter
    <2> QED
      BY <2>8, <2>9
  <1>10. Sums(Accounted', unfinished', WaitingIn(tasks'), worker', bytes', Len(asked'), stop',
              pipeline')
    <2>1. Sums(Accounted, unfinished, WaitingIn(tasks), worker, bytes, Len(asked), stop, pipeline)
      BY SumsNow
    <2>2. WaitingIn(tasks) = Len(tasks) /\ Len(tasks) \in Nat /\ tasks' = tasks
      BY <1>1, <1>2, <1>4, WaitingIs DEF DownloadTypeOK
    <2>3. worker' \in [Workers -> WorkerRow] /\ worker'[w].at = "idle"
      BY <1>2 DEF Idle
    <2>4. RowCounts(w)
      BY <1>2, <1>6, <2>3, WorkerCounts
    <2>5. /\ AtIn(worker', Lost) = AtIn(worker, Lost)
          /\ AtIn(worker', Busy) = AtIn(worker, Busy) - 1
          /\ AtIn(worker', Fetching) = AtIn(worker, Fetching)
      BY <1>2, <2>3, <2>4 DEF RowCounts, Lost, Busy, Fetching
    <2>6. /\ bytes \in Nat /\ ByteLimit \in Nat /\ Len(asked) \in Nat /\ unfinished \in Int
          /\ asked' = asked /\ stop' = stop /\ pipeline' = pipeline /\ bytes' = bytes
      BY <1>1, <1>2, DownloadAssumption DEF DownloadTypeOK
    <2>7. unfinished' = unfinished - 1 /\ Accounted' = Accounted
      BY DEF Emit, TaskDone, Accounted
    <2>8. /\ AtIn(worker, Lost) \in Nat /\ AtIn(worker, Busy) \in Nat
          /\ AtIn(worker, Fetching) \in Nat
      BY <2>4 DEF RowCounts
    <2>9. /\ IF stop THEN Accounted + Len(tasks) + AtIn(worker, Lost) <= Len(asked)
                     ELSE Accounted + Len(tasks) + AtIn(worker, Lost) = Len(asked)
          /\ pipeline = "producing" => unfinished = Len(tasks) + AtIn(worker, Busy)
          /\ ByteLimit > 0 => bytes + AtIn(worker, Fetching) < ByteLimit + Cardinality(Workers)
      BY <2>1, <2>2 DEF Sums
    <2>10. pipeline' = "producing" => unfinished' = Len(tasks') + AtIn(worker', Busy)
      BY <2>2, <2>5, <2>6, <2>7, <2>8, <2>9
    <2>11. IF stop' THEN Accounted' + Len(tasks') + AtIn(worker', Lost) <= Len(asked')
                    ELSE Accounted' + Len(tasks') + AtIn(worker', Lost) = Len(asked')
      BY <2>2, <2>5, <2>6, <2>7, <2>9
    <2>12. ByteLimit > 0 => bytes' + AtIn(worker', Fetching) < ByteLimit + Cardinality(Workers)
      BY <2>5, <2>6, <2>9
    <2> QED
      BY <2>2, <2>10, <2>11, <2>12 DEF Sums
  <1> QED
    BY <1>5, <1>7, <1>8, <1>9, <1>10, SumsThen DEF DownloadInv

\* An end mark keeps the invariant: a worker is gone and nothing was waiting.
LEMMA EndTaskKeeps ==
  ASSUME DownloadInv, NEW w, w \in Workers, EndTask(w)
  PROVE  DownloadInv'
  <1> DEFINE row == [at |-> "gone", key |-> End, try |-> 0]
  <1>1. DownloadTypeOK /\ RowsFit /\ QueueShape /\ KeysTracked
    BY DEF DownloadInv
  <1>2. /\ worker[w].at = "idle" /\ worker \in [Workers -> WorkerRow]
        /\ worker' = [worker EXCEPT ![w] = row] /\ row \in WorkerRow
        /\ tasks \in Seq(Task) /\ tasks # <<>> /\ tasks' = Tail(tasks) /\ Head(tasks).key = End
        /\ UNCHANGED <<asked, stop, pipeline, local, bytes, output>>
    BY <1>1 DEF EndTask, Becomes, DownloadTypeOK, loopVars, WorkerRow
  <1>3. /\ tasks' \in Seq(Task) /\ Len(tasks) \in Nat /\ Len(tasks') = Len(tasks) - 1
        /\ Head(tasks) = tasks[1] /\ 1 \in DOMAIN tasks
        /\ \A i \in DOMAIN tasks' : i + 1 \in DOMAIN tasks /\ tasks'[i] = tasks[i + 1]
    BY <1>2, TailShifts
  <1>4. pipeline # "producing" /\ \A i \in DOMAIN tasks : tasks[i].key = End
    BY <1>1, <1>2, <1>3 DEF QueueShape
  <1>5. DownloadTypeOK'
    <2>1. worker' \in [Workers -> WorkerRow]
      BY <1>2
    <2> QED
      BY <1>1, <1>3, <2>1 DEF DownloadTypeOK, EndTask, TaskDone, loopVars
  <1>6. \A v \in Workers : worker'[v] = IF v = w THEN row ELSE worker[v]
    BY <1>2
  <1>7. RowsFit'
    BY <1>1, <1>6 DEF RowsFit
  <1>8. QueueShape'
    BY <1>1, <1>2, <1>3, <1>4, <1>6 DEF QueueShape
  <1>9. KeysTracked'
    <2> SUFFICES ASSUME NEW l \in Keys  PROVE KeyTracked(l)'
      BY DEF KeysTracked
    <2>1. KeyTracked(l)
      BY <1>1 DEF KeysTracked
    <2>2. /\ (NeverAsked(l)' <=> NeverAsked(l)) /\ (Once(l)' <=> Once(l)) /\ (Given(l)' <=> Given(l))
      BY <1>2 DEF NeverAsked, Once, Given
    <2>3. row.key # l
      BY DownloadAssumption
    <2> HIDE DEF row
    <2>4. /\ Held(worker', l) => Held(worker, l) \/ row.key = l
          /\ Alone(worker, l) /\ row.key # l => Alone(worker', l)
          /\ Handed(worker', l) => Handed(worker, l) \/ (row.key = l /\ row.at = "emitting")
      BY <1>2, RowMoves
    <2>5. /\ InQueue(tasks', l) => InQueue(tasks, l)
          /\ Single(tasks, l) => Single(tasks', l)
          /\ Ready(tasks', l) => Ready(tasks, l)
      BY <1>2, QueueShrinks
    <2>6. TrackedAfter(l) => KeyTracked(l)'
      BY TrackedThen
    <2> QED
      BY <1>2, <2>1, <2>2, <2>3, <2>4, <2>5, <2>6 DEF KeyTracked, TrackedAfter
  <1>10. Sums(Accounted', unfinished', WaitingIn(tasks'), worker', bytes', Len(asked'), stop',
              pipeline')
    <2>1. Sums(Accounted, unfinished, WaitingIn(tasks), worker, bytes, Len(asked), stop, pipeline)
      BY SumsNow
    <2>2. WaitingIn(tasks) = 0
      BY <1>2, <1>4, WaitingIs
    <2>3. WaitingIn(tasks') = 0
      BY <1>3, <1>4, WaitingIs
    <2>4. worker' \in [Workers -> WorkerRow] /\ worker'[w].at = "gone"
      BY <1>2
    <2> HIDE DEF row
    <2>5. RowCounts(w)
      BY <1>2, <1>6, <2>4, WorkerCounts
    <2>6. AtIn(worker', Lost) = AtIn(worker, Lost) /\ AtIn(worker', Fetching) = AtIn(worker, Fetching)
      BY <1>2, <2>4, <2>5 DEF RowCounts, Lost, Fetching
    <2>7. asked' = asked /\ stop' = stop /\ pipeline' = pipeline /\ bytes' = bytes
      BY <1>2
    <2>8. Accounted' = Accounted
      BY DEF EndTask, Accounted
    <2> QED
      BY <1>4, <2>1, <2>2, <2>3, <2>6, <2>7, <2>8 DEF Sums
  <1> QED
    BY <1>5, <1>7, <1>8, <1>9, <1>10, SumsThen DEF DownloadInv

-----------------------------------------------------------------------------
(* A step of the producer asks for one more key.                           *)

AsksFor(k) ==
  /\ Producing /\ asked' = Append(asked, k) /\ todo' \in Seq(Listing)
  /\ UNCHANGED <<worker, local, part, output, bytes, stop, pipeline>>
  /\ stat' \in [Stats -> Nat] /\ Accounted \in Nat
  /\ \/ /\ tasks' = Append(tasks, [key |-> k, complete |-> Complete(k)])
        /\ unfinished' = unfinished + 1 /\ Accounted' = Accounted
     \/ tasks' = tasks /\ unfinished' = unfinished /\ Accounted' = Accounted + 1

\* Asking keeps the invariant: a key asked for once was nowhere before.
LEMMA AsksKeeps ==
  ASSUME DownloadInv, NEW k, k \in Keys, AsksFor(k)
  PROVE  DownloadInv'
  <1> DEFINE t == [key |-> k, complete |-> Complete(k)]
  <1>1. DownloadTypeOK /\ RowsFit /\ QueueShape /\ KeysTracked
    BY DEF DownloadInv
  <1>2. /\ asked' = Append(asked, k) /\ tasks \in Seq(Task) /\ asked \in Seq(Keys)
        /\ UNCHANGED <<worker, local, output, bytes, stop, pipeline>>
        /\ pipeline = "producing" /\ stop = FALSE /\ k # End
    BY <1>1, DownloadAssumption DEF AsksFor, Producing, DownloadTypeOK
  <1>3. t \in Task /\ t.key = k /\ (t.complete => local[k] = "whole")
    BY DEF Task, Complete
  <1>4. tasks' = Append(tasks, t) \/ tasks' = tasks
    BY DEF AsksFor
  <1> HIDE DEF t
  <1>5. DownloadTypeOK'
    <2>1. tasks' \in Seq(Task) /\ asked' \in Seq(Keys)
      BY <1>2, <1>3, <1>4, AppendAdds
    <2>2. unfinished' \in Int
      BY <1>1 DEF AsksFor, DownloadTypeOK
    <2> QED
      BY <1>1, <2>1, <2>2 DEF DownloadTypeOK, AsksFor
  <1>6. RowsFit'
    BY <1>1, <1>2 DEF RowsFit
  <1>7. \A i \in DOMAIN tasks : tasks[i].key # End
    BY <1>1, <1>2 DEF QueueShape
  <1>8. \A i \in DOMAIN tasks' : tasks'[i].key # End
    <2>1. CASE tasks' = Append(tasks, t)
      BY <1>2, <1>3, <1>7, <2>1, AppendAdds
    <2> QED
      BY <1>4, <1>7, <2>1
  <1>9. QueueShape'
    BY <1>2, <1>8 DEF QueueShape
  <1>10. KeysTracked'
    <2> SUFFICES ASSUME NEW l \in Keys  PROVE KeyTracked(l)'
      BY DEF KeysTracked
    <2>1. KeyTracked(l)
      BY <1>1 DEF KeysTracked
    <2>2. /\ ~ NeverAsked(k)'
          /\ Once(k)' => NeverAsked(k)
          /\ \A m \in Keys : m # k => /\ NeverAsked(m)' => NeverAsked(m)
                                      /\ Once(m)' => Once(m)
      BY <1>2, AskedGrows
    <2>3. Given(l)' <=> Given(l)
      BY <1>2 DEF Given
    <2>4. /\ InQueue(tasks', l) => InQueue(tasks, l) \/ k = l
          /\ Single(tasks, l) /\ k # l => Single(tasks', l)
          /\ Ready(tasks', l) => Ready(tasks, l) \/ (k = l /\ local[k] = "whole")
      <3>1. /\ InQueue(Append(tasks, t), l) => InQueue(tasks, l) \/ t.key = l
            /\ Single(tasks, l) /\ t.key # l => Single(Append(tasks, t), l)
            /\ Ready(Append(tasks, t), l) => Ready(tasks, l) \/ (t.key = l /\ t.complete)
        BY <1>2, <1>3, QueueGrows
      <3>2. CASE tasks' = Append(tasks, t)
        BY <1>3, <3>1, <3>2
      <3>3. CASE tasks' = tasks
        BY <3>3
      <3> QED
        BY <1>4, <3>2, <3>3
    <2>5. ~ InQueue(tasks, l) => Single(tasks', l)
      <3>1. ~ InQueue(tasks, l) => Single(tasks, l)
        BY DEF InQueue, Single
      <3>2. ~ InQueue(tasks, l) => Single(Append(tasks, t), l)
        BY <1>2, <1>3, QueueGrows
      <3> QED
        BY <1>4, <3>1, <3>2
    <2>6. ~ Held(worker, l) => Alone(worker, l) /\ ~ Handed(worker, l)
      BY DEF Held, Alone, Handed
    <2>7. ~ InQueue(tasks, l) => ~ Ready(tasks, l)
      BY DEF InQueue, Ready
    <2>8. TrackedAfter(l) => KeyTracked(l)'
      BY TrackedThen
    <2>9. worker' = worker /\ local' = local
      BY <1>2
    <2>10. CASE k = l
      BY <2>1, <2>2, <2>3, <2>4, <2>5, <2>6, <2>7, <2>8, <2>9, <2>10 DEF KeyTracked, TrackedAfter
    <2>11. CASE k # l
      BY <2>1, <2>2, <2>3, <2>4, <2>8, <2>9, <2>11 DEF KeyTracked, TrackedAfter
    <2> QED
      BY <2>10, <2>11
  <1>11. Sums(Accounted', unfinished', WaitingIn(tasks'), worker', bytes', Len(asked'), stop',
              pipeline')
    <2>1. Sums(Accounted, unfinished, WaitingIn(tasks), worker, bytes, Len(asked), stop, pipeline)
      BY SumsNow
    <2>2. WaitingIn(tasks) = Len(tasks) /\ Len(tasks) \in Nat
      BY <1>2, <1>7, WaitingIs
    <2>3. WaitingIn(tasks') = Len(tasks')
      BY <1>5, <1>8, WaitingIs DEF DownloadTypeOK
    <2>4. Len(asked) \in Nat /\ Len(asked') = Len(asked) + 1
      BY <1>2, AppendAdds
    <2>5. Len(Append(tasks, t)) = Len(tasks) + 1
      BY <1>2, <1>3, AppendAdds
    <2>6. \/ Len(tasks') = Len(tasks) + 1 /\ unfinished' = unfinished + 1 /\ Accounted' = Accounted
          \/ Len(tasks') = Len(tasks) /\ unfinished' = unfinished /\ Accounted' = Accounted + 1
      BY <2>5 DEF AsksFor, t
    <2>7. /\ worker' = worker /\ bytes' = bytes /\ stop' = stop /\ stop = FALSE
          /\ pipeline' = pipeline /\ Accounted \in Nat /\ unfinished \in Int
      BY <1>1, <1>2 DEF AsksFor, DownloadTypeOK
    <2>8. AtIn(worker, Lost) \in Nat /\ AtIn(worker, Busy) \in Nat
      BY <1>1, WorkersCounted DEF DownloadTypeOK
    <2>9. /\ Accounted + Len(tasks) + AtIn(worker, Lost) = Len(asked)
          /\ pipeline = "producing" => unfinished = Len(tasks) + AtIn(worker, Busy)
          /\ ByteLimit > 0 => bytes + AtIn(worker, Fetching) < ByteLimit + Cardinality(Workers)
      BY <2>1, <2>2, <2>7 DEF Sums
    <2>10. Accounted' + Len(tasks') + AtIn(worker', Lost) = Len(asked')
      BY <2>2, <2>4, <2>6, <2>7, <2>8, <2>9
    <2>11. pipeline' = "producing" => unfinished' = Len(tasks') + AtIn(worker', Busy)
      BY <2>2, <2>6, <2>7, <2>8, <2>9
    <2>12. ByteLimit > 0 => bytes' + AtIn(worker', Fetching) < ByteLimit + Cardinality(Workers)
      BY <2>7, <2>9
    <2>13. ~ stop'
      BY <2>7
    <2> QED
      BY <2>3, <2>10, <2>11, <2>12, <2>13 DEF Sums
  <1> QED
    BY <1>5, <1>6, <1>9, <1>10, <1>11, SumsThen DEF DownloadInv

\* Steps around the files: a listing is read, the caller reads or stops reading,
\* the output is closed.
Passes ==
  /\ UNCHANGED <<asked, tasks, unfinished, worker, local, part, stat, bytes>>
  /\ todo' \in Seq(Listing) /\ stop' \in BOOLEAN /\ (stop => stop')
  /\ pipeline' = pipeline \/ (pipeline = "gathering" /\ pipeline' = "over")
  /\ output' \in Seq(Keys \cup {End}) /\ \A k \in Keys : Given(k)' => Given(k)

\* None of them touches what is counted.
LEMMA PassesKeeps ==
  ASSUME DownloadInv, Passes
  PROVE  DownloadInv'
  <1>1. DownloadTypeOK /\ RowsFit /\ QueueShape /\ KeysTracked
    BY DEF DownloadInv
  <1>2. /\ UNCHANGED <<asked, tasks, unfinished, worker, local, part, stat, bytes>>
        /\ stop' \in BOOLEAN /\ (stop => stop')
        /\ pipeline' = pipeline \/ (pipeline = "gathering" /\ pipeline' = "over")
    BY DEF Passes
  <1>3. DownloadTypeOK'
    BY <1>1 DEF DownloadTypeOK, Passes
  <1>4. RowsFit'
    BY <1>1, <1>2 DEF RowsFit
  <1>5. QueueShape'
    BY <1>1, <1>2 DEF QueueShape
  <1>6. KeysTracked'
    <2> SUFFICES ASSUME NEW l \in Keys  PROVE KeyTracked(l)'
      BY DEF KeysTracked
    <2>1. KeyTracked(l)
      BY <1>1 DEF KeysTracked
    <2>2. (NeverAsked(l)' <=> NeverAsked(l)) /\ (Once(l)' <=> Once(l))
      BY <1>2 DEF NeverAsked, Once
    <2>3. Given(l)' => Given(l)
      BY DEF Passes
    <2>4. TrackedAfter(l) => KeyTracked(l)'
      BY TrackedThen
    <2> QED
      BY <1>2, <2>1, <2>2, <2>3, <2>4 DEF KeyTracked, TrackedAfter
  <1>7. Sums(Accounted', unfinished', WaitingIn(tasks'), worker', bytes', Len(asked'), stop',
             pipeline')
    <2>1. Sums(Accounted, unfinished, WaitingIn(tasks), worker, bytes, Len(asked), stop, pipeline)
      BY SumsNow
    <2>2. Accounted' = Accounted
      BY <1>2 DEF Accounted
    <2>3. Accounted + WaitingIn(tasks) + AtIn(worker, Lost) = Len(asked) =>
            Accounted + WaitingIn(tasks) + AtIn(worker, Lost) <= Len(asked)
      <3>1. Len(asked) \in Nat
        BY <1>1 DEF DownloadTypeOK
      <3> QED
        BY <3>1
    <2> QED
      BY <1>2, <2>1, <2>2, <2>3 DEF Sums
  <1> QED
    BY <1>3, <1>4, <1>5, <1>6, <1>7, SumsThen DEF DownloadInv

\* join() has returned: nothing waits and no worker has a file.
LEMMA SendEndsKeeps ==
  ASSUME DownloadInv, SendEnds
  PROVE  DownloadInv'
  <1> DEFINE N == Cardinality(Workers)
             ends == [i \in 1 .. N |-> EndMark]
  <1>1. DownloadTypeOK /\ RowsFit /\ QueueShape /\ KeysTracked
    BY DEF DownloadInv
  <1>2. /\ pipeline = "producing" /\ unfinished = 0 /\ pipeline' = "gathering"
        /\ tasks' = tasks \o ends /\ unfinished' = N
        /\ UNCHANGED <<output, todo, asked, worker, local, part, stat, bytes, stop>>
    BY DEF SendEnds, othersOfPipeline
  <1>3. \A i \in DOMAIN tasks : tasks[i].key # End
    BY <1>1, <1>2 DEF QueueShape
  <1>4. Sums(Accounted, unfinished, WaitingIn(tasks), worker, bytes, Len(asked), stop, pipeline)
    BY SumsNow
  <1>5. WaitingIn(tasks) = Len(tasks) /\ Len(tasks) \in Nat /\ tasks \in Seq(Task)
    BY <1>1, <1>3, WaitingIs DEF DownloadTypeOK
  <1>6. /\ N \in Nat /\ AtIn(worker, Lost) \in Nat /\ AtIn(worker, Busy) \in Nat
        /\ AtIn(worker, Fetching) \in Nat
    BY <1>1, WorkersCounted DEF DownloadTypeOK
  <1>7. Len(tasks) = 0 /\ AtIn(worker, Busy) = 0
    BY <1>2, <1>4, <1>5, <1>6 DEF Sums
  <1>8. ends \in Seq(Task) /\ DOMAIN ends = 1 .. N /\ \A i \in 1 .. N : ends[i].key = End
    <2>1. EndMark \in Task /\ EndMark.key = End
      BY DEF EndMark, Task
    <2> HIDE DEF N
    <2> QED
      BY <1>6, <2>1
  <1> HIDE DEF ends, N
  <1>9. tasks' = ends
    <2>1. tasks = <<>>
      BY <1>5, <1>7
    <2> QED
      BY <1>2, <1>8, <2>1
  <1>10. \A w \in Workers : worker[w].at \in {"idle", "gone"}
    <2> DEFINE B == {w \in Workers : worker[w].at \in Busy}
    <2>1. IsFiniteSet(B)
      BY DownloadAssumption, FS_Subset
    <2>2. B = {}
      BY <1>7, <2>1, FS_EmptySet DEF AtIn
    <2> QED
      BY <1>1, <2>2 DEF DownloadTypeOK, WorkerRow, Busy
  <1>11. DownloadTypeOK'
    BY <1>1, <1>2, <1>6, <1>8, <1>9 DEF DownloadTypeOK
  <1>12. RowsFit'
    BY <1>1, <1>2 DEF RowsFit
  <1>13. QueueShape'
    BY <1>2, <1>8, <1>9, <1>10 DEF QueueShape
  <1>14. KeysTracked'
    <2> SUFFICES ASSUME NEW l \in Keys  PROVE KeyTracked(l)'
      BY DEF KeysTracked
    <2>1. KeyTracked(l)
      BY <1>1 DEF KeysTracked
    <2>2. (NeverAsked(l)' <=> NeverAsked(l)) /\ (Once(l)' <=> Once(l)) /\ (Given(l)' <=> Given(l))
      BY <1>2 DEF NeverAsked, Once, Given
    <2>3. ~ InQueue(tasks', l) /\ Single(tasks', l) /\ ~ Ready(tasks', l)
      BY <1>8, <1>9, DownloadAssumption DEF InQueue, Single, Ready
    <2>4. TrackedAfter(l) => KeyTracked(l)'
      BY TrackedThen
    <2> QED
      BY <1>2, <2>1, <2>2, <2>3, <2>4 DEF KeyTracked, TrackedAfter
  <1>15. Sums(Accounted', unfinished', WaitingIn(tasks'), worker', bytes', Len(asked'), stop',
              pipeline')
    <2>1. WaitingIn(tasks') = 0
      BY <1>8, <1>9, WaitingIs
    <2>2. Accounted' = Accounted
      BY <1>2 DEF Accounted
    <2>3. WaitingIn(tasks) = 0
      BY <1>5, <1>7
    <2> QED
      BY <1>2, <1>4, <2>1, <2>2, <2>3 DEF Sums
  <1> QED
    BY <1>11, <1>12, <1>13, <1>14, <1>15, SumsThen DEF DownloadInv

-----------------------------------------------------------------------------
(* Every step of the pipeline keeps the invariant.                         *)

\* Every step of a worker is one of these.
LEMMA WorkerKeeps ==
  ASSUME DownloadInv, NEW w \in Workers, WorkerStep(w) \/ WorkerDies(w)
  PROVE  DownloadInv'
  <1>1. DownloadTypeOK /\ RowsFit
    BY DEF DownloadInv
  <1>2. /\ stat \in [Stats -> Nat] /\ part \in [Keys -> BOOLEAN]
        /\ local \in [Keys -> {"none", "whole", "broken"}]
        /\ worker \in [Workers -> WorkerRow] /\ tasks \in Seq(Task)
    BY <1>1 DEF DownloadTypeOK
  <1>3. worker[w] \in WorkerRow /\ worker[w].try \in Nat /\ worker[w].key \in Keys \cup {End}
    BY <1>2 DEF WorkerRow
  <1>4. Accounted \in Nat
    BY <1>2 DEF Accounted, Stats
  <1>5. stat' = stat => Accounted' = Accounted
    BY DEF Accounted
  <1>6. Idle \in WorkerRow /\ \A k \in Keys \cup {End} : \A n \in Nat :
          \A at \in {"idle", "starting", "writing", "emitting", "dead", "gone"} :
            [at |-> at, key |-> k, try |-> n] \in WorkerRow
    BY DEF Idle, WorkerRow
  <1>22. worker[w].try + 1 \in Nat
    BY <1>3
  <1>7. NextTask(w) => Head(tasks).key \in Keys \cup {End}
    <2>1. tasks # <<>> => Head(tasks) \in Task
      BY <1>2, TailShifts
    <2> QED
      BY <2>1 DEF NextTask, Task
  <1>8. worker' = worker => worker' = [worker EXCEPT ![w] = worker[w]]
    BY <1>2
  <1>9. CASE DropTask(w)
    <2>1. TakesFile(w, worker[w])
      BY <1>2, <1>4, <1>5, <1>8, <1>9 DEF DropTask, TakesFile, TaskDone, loopVars
    <2> QED
      BY <1>3, <2>1, Takes
  <1>10. CASE TakeCached(w)
    <2> DEFINE row == [at |-> "emitting", key |-> Head(tasks).key, try |-> 0]
    <2>1. stat' \in [Stats -> Nat] /\ Accounted' = Accounted + 1
      BY <1>2, <1>10, CountsAdd DEF TakeCached
    <2>2. TakesFile(w, row)
      BY <1>2, <1>4, <1>10, <2>1 DEF TakeCached, TakesFile, Becomes, loopVars
    <2>3. row \in WorkerRow
      BY <1>6, <1>7, <1>10 DEF TakeCached
    <2> QED
      BY <2>2, <2>3, Takes
  <1>11. CASE TakePastLimit(w)
    <2> DEFINE row == [at |-> "emitting", key |-> Head(tasks).key, try |-> 0]
    <2>1. part' \in [Keys -> BOOLEAN]
      BY <1>2, <1>11 DEF TakePastLimit
    <2>2. CASE local[Head(tasks).key] = "whole"
      <3>1. stat' \in [Stats -> Nat] /\ Accounted' = Accounted + 1
        BY <1>2, <1>11, <2>2, CountsAdd DEF TakePastLimit
      <3>2. TakesFile(w, row)
        BY <1>2, <1>4, <1>11, <2>1, <2>2, <3>1 DEF TakePastLimit, TakesFile, Becomes, loopVars
      <3>3. row \in WorkerRow
        BY <1>6, <1>7, <1>11 DEF TakePastLimit
      <3> QED
        BY <3>2, <3>3, Takes
    <2>3. CASE local[Head(tasks).key] # "whole"
      <3>1. stat' \in [Stats -> Nat] /\ Accounted' = Accounted + 1
        BY <1>2, <1>11, <2>3, CountsAdd DEF TakePastLimit
      <3>2. TakesFile(w, worker[w])
        BY <1>2, <1>4, <1>8, <1>11, <2>1, <2>3, <3>1 DEF TakePastLimit, TakesFile, TaskDone, loopVars
      <3> QED
        BY <1>3, <3>2, Takes
    <2> QED
      BY <2>2, <2>3
  <1>12. CASE TakeMissing(w)
    <2> DEFINE row == [at |-> "starting", key |-> Head(tasks).key, try |-> 1]
    <2>1. part' \in [Keys -> BOOLEAN]
      BY <1>2, <1>12 DEF TakeMissing
    <2>2. TakesFile(w, row)
      BY <1>2, <1>4, <1>5, <1>12, <2>1 DEF TakeMissing, MustFetch, TakesFile, Becomes, loopVars
    <2>3. row \in WorkerRow
      BY <1>6, <1>7, <1>12 DEF TakeMissing, MustFetch
    <2> QED
      BY <2>2, <2>3, Takes
  <1>13. CASE WorkerDies(w)
    <2> DEFINE row == [at |-> "dead", key |-> Head(tasks).key, try |-> 0]
    <2>1. TakesFile(w, row)
      BY <1>2, <1>4, <1>5, <1>13 DEF WorkerDies, MustFetch, TakesFile, Becomes, loopVars
    <2>2. row \in WorkerRow
      BY <1>6, <1>7, <1>13 DEF WorkerDies, MustFetch
    <2> QED
      BY <2>1, <2>2, Takes
  <1>14. CASE OpensPart(w)
    <2> DEFINE row == [at |-> "writing", key |-> worker[w].key, try |-> worker[w].try]
    <2>1. part' \in [Keys -> BOOLEAN]
      BY <1>2, <1>14 DEF OpensPart
    <2>2. WorksOn(w, row)
      BY <1>2, <1>4, <1>5, <1>14, <2>1 DEF OpensPart, WorksOn, Becomes, loopVars, Fetching
    <2>3. row \in WorkerRow
      BY <1>3, <1>6
    <2> QED
      BY <2>2, <2>3, Works
  <1>15. CASE Fetch(w)
    <2> DEFINE row == [at |-> "emitting", key |-> worker[w].key, try |-> 0]
               k == worker[w].key
    <2>1. part' \in [Keys -> BOOLEAN]
      BY <1>2, <1>15 DEF Fetch
    <2>2. stat' \in [Stats -> Nat] /\ Accounted' = Accounted + 1
      <3>1. Counts({"completed"})
        BY <1>15 DEF Fetch
      <3> QED
        BY <1>2, <3>1, CountsAdd
    <2>3. k \in Keys
      BY <1>1, <1>3, <1>15 DEF RowsFit, Fetch
    <2>4. /\ local' \in [Keys -> {"none", "whole", "broken"}]
          /\ \A l \in Keys : l # k => local'[l] = local[l]
          /\ Writers(k) = {w} => local'[k] = "whole"
      <3>1. local' = [local EXCEPT ![k] = IF Writers(k) = {w} THEN "whole" ELSE "broken"]
        BY <1>15 DEF Fetch
      <3> HIDE DEF k
      <3> QED
        BY <1>2, <2>3, <3>1
    <2>5. WorksOn(w, row)
      BY <1>2, <1>4, <1>15, <2>1, <2>2, <2>4 DEF Fetch, WorksOn, Becomes, loopVars, Fetching
    <2>6. row \in WorkerRow
      BY <1>3, <1>6
    <2> QED
      BY <2>5, <2>6, Works
  <1>16. CASE MoveFails(w)
    <2> DEFINE row == [at |-> "starting", key |-> worker[w].key, try |-> worker[w].try + 1]
    <2>1. /\ local' \in [Keys -> {"none", "whole", "broken"}]
          /\ \A l \in Keys : l # worker[w].key => local'[l] = local[l]
      BY <1>2, <1>16 DEF MoveFails
    <2>2. WorksOn(w, row)
      BY <1>2, <1>4, <1>5, <1>16, <2>1 DEF MoveFails, WorksOn, Becomes, loopVars, Fetching
    <2>3. row \in WorkerRow
      BY <1>3, <1>6, <1>22
    <2> QED
      BY <2>2, <2>3, Works
  <1>17. CASE AttemptFails(w)
    <2> DEFINE row == [at |-> "starting", key |-> worker[w].key, try |-> worker[w].try + 1]
    <2>1. WorksOn(w, row)
      BY <1>2, <1>4, <1>5, <1>17 DEF AttemptFails, WorksOn, Becomes, loopVars, Fetching
    <2>2. row \in WorkerRow
      BY <1>3, <1>6, <1>22
    <2> QED
      BY <2>1, <2>2, Works
  <1>18. CASE ObjectGone(w)
    <2>1. stat' \in [Stats -> Nat] /\ Accounted' = Accounted + 1
      <3>1. Counts({"not_found"})
        BY <1>18 DEF ObjectGone
      <3> QED
        BY <1>2, <3>1, CountsAdd
    <2>2. WorksOn(w, Idle)
      BY <1>2, <1>4, <1>18, <2>1 DEF ObjectGone, WorksOn, TaskDone, loopVars, Fetching
    <2> QED
      BY <1>6, <2>2, Works
  <1>19. CASE GiveUp(w)
    <2>1. stat' \in [Stats -> Nat] /\ Accounted' = Accounted + 1
      <3>1. Counts({"failed"})
        BY <1>19 DEF GiveUp
      <3> QED
        BY <1>2, <3>1, CountsAdd
    <2>2. part' \in [Keys -> BOOLEAN]
      BY <1>2, <1>19 DEF GiveUp
    <2>3. WorksOn(w, Idle)
      BY <1>2, <1>4, <1>19, <2>1, <2>2 DEF GiveUp, WorksOn, TaskDone, loopVars, Fetching
    <2> QED
      BY <1>6, <2>3, Works
  <1>20. CASE Emit(w)
    BY <1>20, EmitKeeps
  <1>21. CASE EndTask(w)
    BY <1>21, EndTaskKeeps
  <1> QED
    BY <1>9, <1>10, <1>11, <1>12, <1>13, <1>14, <1>15, <1>16, <1>17, <1>18, <1>19, <1>20, <1>21
       DEF WorkerStep

\* A sequence over a set is one over a larger set.
LEMMA SeqWithin ==
  ASSUME NEW S, NEW T, S \subseteq T, NEW s, s \in Seq(S)
  PROVE  s \in Seq(T)
  OBVIOUS

\* A page of a listing gives things to look at.
LEMMA ListedInOrder ==
  ASSUME NEW keys, keys \in Seq(Keys)
  PROVE  Listed(keys) \in Seq(Listing)
  <1> DEFINE entry(i) == [key |-> keys[i], exact |-> FALSE, one |-> TRUE]
  <1>1. \A i \in DOMAIN keys : entry(i) \in Listing
    BY DEF Listing
  <1>2. Listed(keys) = [i \in DOMAIN keys |-> entry(i)]
    BY DEF Listed
  <1>3. Len(keys) \in Nat /\ DOMAIN keys = 1 .. Len(keys)
    OBVIOUS
  <1> HIDE DEF entry
  <1> QED
    BY <1>1, <1>2, <1>3

\* Every step of the producer reads a listing or asks for one key.
LEMMA ProducerKeeps ==
  ASSUME DownloadInv, Produce \/ ListingFails
  PROVE  DownloadInv'
  <1> DEFINE k == Head(todo).key
  <1>1. DownloadTypeOK /\ todo # <<>>
    BY DEF DownloadInv, Produce, ListPrefix, ListingFails, QueueListed, HeadFindsKey, HeadFails,
           Producing
  <1>2. /\ todo \in Seq(Listing) /\ tasks \in Seq(Task) /\ stat \in [Stats -> Nat]
        /\ output \in Seq(Keys \cup {End}) /\ stop \in BOOLEAN
    BY <1>1 DEF DownloadTypeOK
  <1>3. Tail(todo) \in Seq(Listing) /\ Head(todo) \in Listing
    BY <1>1, <1>2, TailShifts
  <1>4. k \in Keys
    BY <1>3 DEF Listing
  <1>5. Accounted \in Nat /\ (stat' = stat => Accounted' = Accounted)
    BY <1>2 DEF Accounted, Stats
  <1> HIDE DEF k
  <1>6. CASE ListPrefix
    <2>1. Under[k] \in Seq(Keys)
      BY <1>4, DownloadAssumption
    <2>2. Listed(Under[k]) \in Seq(Listing)
      BY <2>1, ListedInOrder
    <2>3. todo' \in Seq(Listing)
      BY <1>3, <1>6, <2>2 DEF ListPrefix, k
    <2>4. Passes
      BY <1>2, <1>6, <2>3 DEF ListPrefix, Passes, diskVars, Given
    <2> QED
      BY <2>4, PassesKeeps
  <1>7. CASE ListingFails
    <2>1. Passes
      BY <1>2, <1>7 DEF ListingFails, Passes, diskVars, Given
    <2> QED
      BY <2>1, PassesKeeps
  <1>8. ASSUME Queue(k), Producing, asked' = Append(asked, k), todo' = Tail(todo),
               UNCHANGED <<diskVars, stop, pipeline>>
        PROVE  AsksFor(k)
    <2>1. UNCHANGED <<worker, local, part, output, bytes, stop, pipeline>>
      BY <1>8 DEF diskVars
    <2>2. CASE k \in Oversize
      <3>1. stat' \in [Stats -> Nat] /\ Accounted' = Accounted + 1 /\ tasks' = tasks
            /\ unfinished' = unfinished
        <4>1. Counts({"oversize"}) /\ UNCHANGED <<tasks, unfinished>>
          BY <1>8, <2>2 DEF Queue
        <4> QED
          BY <1>2, <4>1, CountsAdd
      <3> QED
        BY <1>3, <1>5, <1>8, <2>1, <3>1 DEF AsksFor
    <2>3. CASE k \notin Oversize /\ k \in Skips
      <3>1. stat' \in [Stats -> Nat] /\ Accounted' = Accounted + 1 /\ tasks' = tasks
            /\ unfinished' = unfinished
        <4>1. Counts({"skipped"}) /\ UNCHANGED <<tasks, unfinished>>
          BY <1>8, <2>3 DEF Queue
        <4> QED
          BY <1>2, <4>1, CountsAdd
      <3> QED
        BY <1>3, <1>5, <1>8, <2>1, <3>1 DEF AsksFor
    <2>4. CASE k \notin Oversize /\ k \notin Skips
      <3>1. /\ tasks' = Append(tasks, [key |-> k, complete |-> Complete(k)])
            /\ unfinished' = unfinished + 1 /\ stat' = stat
        BY <1>8, <2>4 DEF Queue
      <3> QED
        BY <1>2, <1>3, <1>5, <1>8, <2>1, <3>1 DEF AsksFor
    <2> QED
      BY <2>2, <2>3, <2>4
  <1>9. CASE QueueListed
    <2>1. AsksFor(k)
      BY <1>8, <1>9 DEF QueueListed, k
    <2> QED
      BY <1>4, <2>1, AsksKeeps
  <1>10. CASE HeadFindsKey
    <2>1. AsksFor(k)
      BY <1>8, <1>10 DEF HeadFindsKey, k
    <2> QED
      BY <1>4, <2>1, AsksKeeps
  <1>11. CASE HeadFails
    <2>1. PICK what \in {"not_found", "failed"} : Counts({what})
      BY <1>11 DEF HeadFails
    <2>2. stat' \in [Stats -> Nat] /\ Accounted' = Accounted + 1
      BY <1>2, <2>1, CountsAdd
    <2>3. <<[key |-> k, exact |-> FALSE, one |-> FALSE]>> \in Seq(Listing)
      BY <1>4 DEF Listing
    <2>4. todo' \in Seq(Listing)
      BY <1>3, <1>11, <2>3 DEF HeadFails, k
    <2>5. AsksFor(k)
      BY <1>5, <1>11, <2>2, <2>4 DEF HeadFails, AsksFor, diskVars, k
    <2> QED
      BY <1>4, <2>5, AsksKeeps
  <1> QED
    BY <1>6, <1>7, <1>9, <1>10, <1>11 DEF Produce

\* The steps of the caller and the end of the output keep the invariant.
LEMMA PipelineKeeps ==
  ASSUME DownloadInv, EndOutput \/ Read \/ StopReading \/ Closed \/ RequestShutdown
  PROVE  DownloadInv'
  <1>1. /\ todo \in Seq(Listing) /\ output \in Seq(Keys \cup {End}) /\ stop \in BOOLEAN
        /\ End \notin Keys
    BY DownloadAssumption DEF DownloadInv, DownloadTypeOK
  <1>2. CASE EndOutput
    <2>1. output' = Append(output, End) /\ output' \in Seq(Keys \cup {End})
      BY <1>1, <1>2, AppendAdds DEF EndOutput
    <2>2. \A k \in Keys : Given(k)' => Given(k)
      BY <1>1, <2>1, MembersOfAppend DEF Given
    <2>3. Passes
      BY <1>1, <1>2, <2>1, <2>2 DEF EndOutput, Passes, othersOfPipeline
    <2> QED
      BY <2>3, PassesKeeps
  <1>3. CASE Read
    <2>1. output # <<>> /\ output' = Tail(output) /\ output' \in Seq(Keys \cup {End})
      BY <1>1, <1>3, TailShifts DEF Read
    <2>2. \A k \in Keys : Given(k)' => Given(k)
      BY <1>1, <2>1, MembersOfTail DEF Given
    <2>3. Passes
      BY <1>1, <1>3, <2>1, <2>2 DEF Read, Passes
    <2> QED
      BY <2>3, PassesKeeps
  <1>4. CASE StopReading \/ Closed \/ RequestShutdown
    <2>1. Passes
      BY <1>1, <1>4 DEF StopReading, Closed, RequestShutdown, Passes, Given
    <2> QED
      BY <2>1, PassesKeeps
  <1> QED
    BY <1>2, <1>3, <1>4

\* Every step of the download keeps the invariant.
LEMMA DownloadStep ==
  ASSUME DownloadInv, [DownloadNext]_downloadVars
  PROVE  DownloadInv'
  <1>1. CASE UNCHANGED downloadVars
    <2>1. Passes
      BY <1>1 DEF DownloadInv, DownloadTypeOK, Passes, downloadVars, Given
    <2> QED
      BY <2>1, PassesKeeps
  <1>2. CASE DownloadNext
    BY <1>2, ProducerKeeps, PipelineKeeps, WorkerKeeps, SendEndsKeeps DEF DownloadNext
  <1> QED
    BY <1>1, <1>2

\* A download starts with nothing asked for, whatever earlier runs left on disk.
LEMMA DownloadStarts ==
  ASSUME DownloadInit
  PROVE  DownloadInv
  <1>1. /\ todo = Entries /\ asked = <<>> /\ tasks = <<>> /\ unfinished = 0
        /\ worker = [w \in Workers |-> Idle]
        /\ local \in [Keys -> {"none", "whole", "broken"}] /\ part \in [Keys -> BOOLEAN]
        /\ output = <<>> /\ stat = [s \in Stats |-> 0] /\ bytes = 0
        /\ stop = FALSE /\ pipeline = "producing"
    BY DEF DownloadInit
  <1>2. /\ worker \in [Workers -> WorkerRow]
        /\ \A w \in Workers : worker[w].key = End /\ worker[w].at = "idle"
    BY <1>1 DEF Idle, WorkerRow
  <1>3. Entries \in Seq(Listing)
    <2>1. Entries \in Seq([key : Keys, exact : BOOLEAN, one : {FALSE}])
      BY DownloadAssumption
    <2>2. [key : Keys, exact : BOOLEAN, one : {FALSE}] \subseteq Listing
      BY DEF Listing
    <2> QED
      BY <2>1, <2>2, SeqWithin
  <1>4. DownloadTypeOK
    <2>1. todo \in Seq(Listing) /\ unfinished \in Int /\ bytes \in Nat /\ stat \in [Stats -> Nat]
      BY <1>1, <1>3
    <2>2. asked \in Seq(Keys)
      BY <1>1
    <2>3. tasks \in Seq(Task)
      BY <1>1
    <2>4. output \in Seq(Keys \cup {End})
      BY <1>1
    <2>5. stop \in BOOLEAN /\ pipeline \in {"producing", "gathering", "over"}
      BY <1>1
    <2> QED
      BY <1>1, <1>2, <2>1, <2>2, <2>3, <2>4, <2>5 DEF DownloadTypeOK
  <1>5. RowsFit
    BY <1>2 DEF RowsFit
  <1>6. QueueShape
    BY <1>1 DEF QueueShape
  <1>7. KeysTracked
    <2> SUFFICES ASSUME NEW l \in Keys  PROVE KeyTracked(l)
      BY DEF KeysTracked
    <2>1. ~ InQueue(tasks, l) /\ Single(tasks, l) /\ ~ Ready(tasks, l) /\ ~ Once(l)
      BY <1>1 DEF InQueue, Single, Ready, Once
    <2>2. ~ Held(worker, l)
      BY <1>2, DownloadAssumption DEF Held
    <2>3. ~ Given(l)
      BY <1>1 DEF Given, ToSet
    <2> QED
      BY <2>1, <2>2, <2>3 DEF KeyTracked
  <1>8. \A places : "idle" \notin places => At(places) = 0
    <2> SUFFICES ASSUME NEW places, "idle" \notin places  PROVE At(places) = 0
      OBVIOUS
    <2>1. {w \in Workers : worker[w].at \in places} = {}
      BY <1>2
    <2> QED
      BY <2>1, FS_EmptySet DEF At
  <1>9. Waiting = 0
    <2>1. {i \in DOMAIN tasks : tasks[i].key # End} = {}
      BY <1>1
    <2> QED
      BY <2>1, FS_EmptySet DEF Waiting
  <1>10. Accounted = 0 /\ Len(asked) = 0
    BY <1>1 DEF Accounted, Stats
  <1>11. Cardinality(Workers) \in Nat /\ ByteLimit \in Nat
    BY WorkersCounted, DownloadAssumption
  <1>12. NothingVanishes
    <2>1. At({"starting", "writing", "dead"}) = 0
      BY <1>8
    <2>2. At({"starting", "writing", "emitting", "dead"}) = 0
      BY <1>8
    <2> QED
      BY <1>1, <1>9, <1>10, <1>11, <2>1, <2>2 DEF NothingVanishes
  <1>13. BytesBounded
    <2>1. At({"starting", "writing"}) = 0
      BY <1>8
    <2> QED
      BY <1>1, <1>11, <2>1 DEF BytesBounded
  <1> QED
    BY <1>4, <1>5, <1>6, <1>7, <1>12, <1>13 DEF DownloadInv

\* The invariant is what the run checks.
LEMMA DownloadsKept ==
  ASSUME DownloadInv
  PROVE  EmittedIsWhole /\ NothingVanishes
  BY DEF DownloadInv, KeysTracked, KeyTracked, EmittedIsWhole, Given

-----------------------------------------------------------------------------
(* First states of pages and engines.                                      *)

\* A page starts with its whole limit.
LEMMA PageStarts ==
  ASSUME Page!PageInit
  PROVE  PageInv(subject)
  <1>1. /\ DOMAIN subject = PageFields
        /\ subject.at = "trying" /\ subject.limit \in PageLimits /\ subject.lanes \in PageLanes
        /\ subject.used = 0 /\ subject.calls = 0 /\ subject.attempt = 0
    BY DEF Page!PageInit, PageFields
  <1>2. subject.limit \in Nat \ {0} /\ subject.lanes \in Nat
    BY <1>1, PageAssumption
  <1>3. Page!Smaller(subject.lanes, subject.limit) \in Nat
    BY <1>2 DEF Page!Smaller
  <1> QED
    BY <1>1, <1>2, <1>3 DEF PageInv, PageCounts

\* The invariant of a page is what the run checks.
LEMMA PageKept ==
  ASSUME PageInv(subject)
  PROVE  Page!BudgetHolds
  BY DEF PageInv, PageCounts, Page!BudgetHolds

\* An engine starts with pages to do and no tasks.
LEMMA EngineStarts ==
  ASSUME Engine!EngineInit
  PROVE  EngineInv(subject)
  <1> DEFINE top == Engine!Max(SlotLimits)
  <1>1. top \in SlotLimits /\ top \in Nat
    <2>1. \E m \in SlotLimits : \A n \in SlotLimits : m >= n
      BY EngineAssumption
    <2> QED
      BY <2>1, EngineAssumption DEF Engine!Max
  <1>2. subject \in [kind : {"paddleocr-vl", "mineru"},
                     page : [EnginePages -> {Engine!Unstarted}],
                     task : [Engine!Tasks -> {"none"}],
                     pending : {0}, active : {0}, limit : {top}]
    BY DEF Engine!EngineInit
  <1> HIDE DEF top
  <1>3. Engine!Unstarted \in PageRows /\ Engine!Unstarted.at = "queued"
    BY DEF Engine!Unstarted, Engine!Blockless, PageRows, Places
  <1> DEFINE first == Engine!Unstarted
  <1> HIDE DEF first
  <1>4. /\ subject \in EngineRow
        /\ \A p \in EnginePages : subject.page[p].at = "queued"
        /\ \A t \in Engine!Tasks : subject.task[t] = "none"
        /\ subject.pending = 0 /\ subject.active = 0
    BY <1>1, <1>2, <1>3 DEF EngineRow
  <1>5. /\ PendingIn(subject) = {} /\ CallingIn(subject) = {} /\ LayoutsIn(subject) = {}
        /\ \A p, try : RunningIn(subject, p, try) = {}
    BY <1>4 DEF PendingIn, CallingIn, LayoutsIn, RunningIn
  <1>6. Cardinality({}) = 0
    BY FS_EmptySet
  <1>7. NoTasksYet(subject) /\ BlocksFit(subject)
    BY <1>4 DEF NoTasksYet, BlocksFit
  <1>8. PendingTrue(subject)
    BY <1>4, <1>5, <1>6 DEF PendingTrue
  <1>9. ActiveTrue(subject)
    BY <1>1, <1>4, <1>5, <1>6 DEF ActiveTrue
  <1>10. LayoutsBounded(subject)
    BY <1>5, <1>6, EngineAssumption DEF LayoutsBounded
  <1>11. RunningBounded(subject)
    BY <1>5, <1>6, EngineAssumption DEF RunningBounded
  <1> QED
    BY <1>4, <1>7, <1>8, <1>9, <1>10, <1>11 DEF EngineInv

-----------------------------------------------------------------------------
(* Rows that are read one after the other.                                 *)

\* A set of naturals has a least one.
LEMMA LeastIsThere ==
  ASSUME NEW S \in SUBSET Nat, S # {}
  PROVE  \E i \in S : \A j \in S : i <= j
<1> DEFINE R == OpToRel(<, Nat)
<1>1. \A i, j \in Nat : i < j <=> <<i, j>> \in R
  BY DEF OpToRel
<1>2. PICK i \in S : \A j \in S : ~ (<<j, i>> \in R)
  <2>1. IsWellFoundedOn(R, Nat)
    BY NatLessThanWellFounded
  <2> HIDE DEF R
  <2> QED
    BY <2>1, WFMin
<1> HIDE DEF R
<1>3. \A j \in S : i \in Nat /\ j \in Nat /\ ~ (j < i)
  BY <1>1, <1>2
<1> QED
  BY <1>3

\* What holds at first and goes on holding holds to the end.
LEMMA ToTheEnd ==
  ASSUME NEW n \in Nat, NEW T, T \subseteq 0 .. n, 0 \in T,
         \A i \in 1 .. n : i - 1 \in T => i \in T
  PROVE  T = 0 .. n
<1> SUFFICES ASSUME T # 0 .. n PROVE FALSE
  OBVIOUS
<1>1. PICK rest : rest = {i \in 0 .. n : i \notin T}
  OBVIOUS
<1>2. rest \in SUBSET Nat /\ rest # {}
  <2>1. rest \subseteq Nat
    BY <1>1
  <2>2. \E i \in 0 .. n : i \notin T
    OBVIOUS
  <2> QED
    BY <1>1, <2>1, <2>2
<1>3. PICK i \in rest : \A j \in rest : i <= j
  BY <1>2, LeastIsThere
<1>4. i \in 0 .. n /\ i \notin T /\ i # 0
  BY <1>1
<1>5. i \in 1 .. n /\ i - 1 \in 0 .. n /\ ~ (i <= i - 1)
  BY <1>4
<1>6. i - 1 \notin rest
  BY <1>3, <1>5
<1> QED
  BY <1>1, <1>4, <1>5, <1>6

\* A row of states that begins with base and goes on by steps.
IsRow(f, S, base, n, step) ==
  /\ f \in [0 .. n -> S] /\ f[0] = base
  /\ \A i \in 1 .. n : f[i] = step[i][f[i - 1]]

\* There is such a row.
LEMMA RowIsThere ==
  ASSUME NEW S, NEW base \in S, NEW n \in Nat, NEW step \in [1 .. n -> [S -> S]]
  PROVE  \E f : IsRow(f, S, base, n, step)
<1> DEFINE T == {k \in 0 .. n : \E f : IsRow(f, S, base, k, step)}
<1>1. 0 \in T
  <2>1. PICK f : f = [i \in 0 .. 0 |-> base]
    OBVIOUS
  <2>2. f \in [0 .. 0 -> S] /\ f[0] = base /\ \A i \in 1 .. 0 : FALSE
    BY <2>1
  <2>3. IsRow(f, S, base, 0, step)
    BY <2>2 DEF IsRow
  <2> QED
    BY <2>3
<1>2. ASSUME NEW k \in 1 .. n, k - 1 \in T PROVE k \in T
  <2>1. PICK f : IsRow(f, S, base, k - 1, step)
    BY <1>2
  <2>2. f \in [0 .. k - 1 -> S] /\ f[0] = base /\ \A i \in 1 .. k - 1 : f[i] = step[i][f[i - 1]]
    BY <2>1 DEF IsRow
  <2>3. PICK next \in S : next = step[k][f[k - 1]]
    <3>1. k - 1 \in 0 .. k - 1 /\ f[k - 1] \in S /\ step[k] \in [S -> S]
      BY <2>2
    <3> QED
      BY <3>1
  <2>4. PICK g : g = [i \in 0 .. k |-> IF i = k THEN next ELSE f[i]]
    OBVIOUS
  <2>5. /\ g \in [0 .. k -> S] /\ g[0] = base /\ g[k] = next
        /\ \A i \in 0 .. k - 1 : g[i] = f[i]
    <3>1. /\ \A i \in 0 .. k : g[i] = IF i = k THEN next ELSE f[i]
          /\ DOMAIN g = 0 .. k /\ g = [i \in 0 .. k |-> g[i]]
      BY <2>4
    <3>2. \A i \in 0 .. k - 1 : i \in 0 .. k /\ i # k /\ f[i] \in S
      BY <2>2
    <3>3. \A i \in 0 .. k : i = k \/ i \in 0 .. k - 1
      OBVIOUS
    <3>4. 0 \in 0 .. k - 1 /\ k \in 0 .. k
      OBVIOUS
    <3>5. /\ \A i \in 0 .. k : g[i] \in S
          /\ \A i \in 0 .. k - 1 : g[i] = f[i]
      BY <2>3, <3>1, <3>2, <3>3
    <3> QED
      BY <2>2, <3>1, <3>4, <3>5
  <2>6. ASSUME NEW i \in 1 .. k PROVE g[i] = step[i][g[i - 1]]
    <3>1. CASE i = k
      BY <2>3, <2>5, <3>1
    <3>2. CASE i # k
      <4>1. i \in 1 .. k - 1 /\ i \in 0 .. k - 1 /\ i - 1 \in 0 .. k - 1
        BY <3>2
      <4> QED
        BY <2>2, <2>5, <4>1
    <3> QED
      BY <3>1, <3>2
  <2>7. IsRow(g, S, base, k, step)
    BY <2>5, <2>6 DEF IsRow
  <2> QED
    BY <2>7
<1>3. T = 0 .. n
  <2>1. T \subseteq 0 .. n
    OBVIOUS
  <2> HIDE DEF T
  <2> QED
    BY <1>1, <1>2, <2>1, ToTheEnd
<1>4. n \in 0 .. n
  OBVIOUS
<1> QED
  BY <1>3, <1>4

-----------------------------------------------------------------------------
(* Reading a file (IntegrityReport).                                       *)

\* Rows have a path and a size, or a kind of damage.
RowsOf(K, P) == [kind : K, path : P, size : Int]
ReadStates(K, P) == [error : K \cup {"none", "duplicate_relative_path"}, count : Nat,
                     paths : SUBSET P, bytes : Int]

FileOK(file) ==
  /\ file.state # "none"
  /\ \E K, P : "none" \notin K /\ file.rows \in Seq(RowsOf(K, P))

\* What was read: the count is that of the paths; nothing is left of a file that is
\* not readable.
ReadOK(r) ==
  /\ r.count \in Nat /\ r.bytes \in Int
  /\ IsFiniteSet(r.paths) /\ Cardinality(r.paths) = r.count
  /\ ~ Integrity!Readable(r) => r.paths = {} /\ r.count = 0

\* Nothing is known of a file before it is read, or if it cannot be.
LEMMA NothingRead ==
  ASSUME NEW error
  PROVE  LET r == Integrity!NoRows(error)
         IN  /\ r.error = error /\ ReadOK(r)
             /\ \A K, P : error \in K \cup {"none", "duplicate_relative_path"} => r \in ReadStates(K, P)
<1>1. IsFiniteSet({}) /\ Cardinality({}) = 0
  BY FS_EmptySet
<1>2. PICK r : r = Integrity!NoRows(error)
  OBVIOUS
<1>3. r = [error |-> error, count |-> 0, paths |-> {}, bytes |-> 0]
  BY <1>2 DEF Integrity!NoRows
<1>4. r.error = error /\ ReadOK(r)
  BY <1>1, <1>3 DEF ReadOK
<1>5. \A K, P : error \in K \cup {"none", "duplicate_relative_path"} => r \in ReadStates(K, P)
  BY <1>3 DEF ReadStates
<1> QED
  BY <1>2, <1>4, <1>5

\* Reading goes on with a row.
LEMMA RowRead ==
  ASSUME NEW K, NEW P, NEW r \in ReadStates(K, P), NEW row \in RowsOf(K, P)
  PROVE  /\ Integrity!ReadRow(r, row) \in ReadStates(K, P)
         /\ ReadOK(r) => ReadOK(Integrity!ReadRow(r, row))
<1>1. PICK next : next = Integrity!ReadRow(r, row)
  OBVIOUS
<1>2. CASE ~ Integrity!Readable(r)
  BY <1>1, <1>2 DEF Integrity!ReadRow
<1>3. CASE Integrity!Readable(r) /\ (row.kind # "ok" \/ row.path \in r.paths)
  <2>1. PICK error \in K \cup {"duplicate_relative_path"} : next = Integrity!NoRows(error)
    <3>1. row.kind \in K
      BY DEF RowsOf
    <3>2. CASE row.kind # "ok"
      BY <1>1, <1>3, <3>1, <3>2 DEF Integrity!ReadRow
    <3>3. CASE row.kind = "ok"
      BY <1>1, <1>3, <3>1, <3>3 DEF Integrity!ReadRow
    <3> QED
      BY <3>2, <3>3
  <2> QED
    BY <1>1, <2>1, NothingRead
<1>4. CASE Integrity!Readable(r) /\ row.kind = "ok" /\ row.path \notin r.paths
  <2>1. PICK path \in P, size \in Int : path = row.path /\ size = row.size
    BY DEF RowsOf
  <2>2. next = [r EXCEPT !.count = r.count + 1, !.paths = r.paths \cup {path}, !.bytes = r.bytes + size]
    BY <1>1, <1>4, <2>1 DEF Integrity!ReadRow
  <2>3. /\ next \in ReadStates(K, P) /\ next.error = "none"
        /\ next.count = r.count + 1 /\ next.paths = r.paths \cup {path} /\ next.bytes = r.bytes + size
    <3>1. /\ r.error = "none" /\ r.count \in Nat /\ r.paths \in SUBSET P /\ r.bytes \in Int
          /\ DOMAIN r = {"error", "count", "paths", "bytes"}
      BY <1>4 DEF ReadStates, Integrity!Readable
    <3>2. /\ next.error = "none" /\ next.count = r.count + 1 /\ next.paths = r.paths \cup {path}
          /\ next.bytes = r.bytes + size
      BY <2>2, <3>1
    <3>3. next = [error |-> "none", count |-> r.count + 1, paths |-> r.paths \cup {path},
                  bytes |-> r.bytes + size]
      BY <2>2, <3>1
    <3>4. r.count + 1 \in Nat /\ r.paths \cup {path} \in SUBSET P /\ r.bytes + size \in Int
      BY <2>1, <3>1
    <3> QED
      BY <3>2, <3>3, <3>4 DEF ReadStates
  <2>4. ASSUME ReadOK(r) PROVE ReadOK(next)
    <3>1. IsFiniteSet(r.paths \cup {path}) /\ Cardinality(r.paths \cup {path}) = r.count + 1
      BY <1>4, <2>1, <2>4, FS_AddElement DEF ReadOK
    <3>2. next.count \in Nat /\ next.bytes \in Int
      BY <2>1, <2>3, <2>4 DEF ReadOK
    <3> QED
      BY <2>3, <3>1, <3>2 DEF ReadOK, Integrity!Readable
  <2> QED
    BY <1>1, <2>3, <2>4
<1> QED
  BY <1>2, <1>3, <1>4

\* So is what was read of a file.
LEMMA FileRead ==
  ASSUME NEW file, FileOK(file) PROVE ReadOK(Integrity!ReadRows(file))
<1>1. PICK K, P : "none" \notin K /\ file.rows \in Seq(RowsOf(K, P))
  BY DEF FileOK
<1>2. PICK rows \in Seq(RowsOf(K, P)) : rows = file.rows
  BY <1>1
<1>3. PICK n \in Nat : n = Len(rows) /\ \A i \in 1 .. n : rows[i] \in RowsOf(K, P)
  OBVIOUS
<1> DEFINE S == ReadStates(K, P)
           base == Integrity!NoRows("none")
           step == [i \in 1 .. n |-> [r \in S |-> Integrity!ReadRow(r, rows[i])]]
<1>4. PICK read : read = Integrity!ReadSoFar(rows)
  OBVIOUS
<1>5. base \in S /\ ReadOK(base)
  BY NothingRead
<1>6. step \in [1 .. n -> [S -> S]]
  BY <1>3, RowRead
<1>7. PICK f : f = [i \in 0 .. n |-> IF i = 0 THEN base ELSE Integrity!ReadRow(f[i - 1], rows[i])]
  <2>1. PICK f : IsRow(f, S, base, n, step)
    <3> HIDE DEF S, base, step
    <3> QED
      BY <1>5, <1>6, RowIsThere
  <2>2. \A i \in 1 .. n : f[i] = Integrity!ReadRow(f[i - 1], rows[i])
    <3>1. \A i \in 1 .. n : f[i - 1] \in S /\ f[i] = step[i][f[i - 1]]
      BY <2>1 DEF IsRow
    <3> QED
      BY <3>1
  <2>3. f = [i \in 0 .. n |-> IF i = 0 THEN base ELSE Integrity!ReadRow(f[i - 1], rows[i])]
    BY <2>1, <2>2 DEF IsRow
  <2> QED
    BY <2>3
<1>8. read = [i \in 0 .. n |-> IF i = 0 THEN base ELSE Integrity!ReadRow(read[i - 1], rows[i])]
  BY <1>3, <1>4, <1>7 DEF Integrity!ReadSoFar
<1>9. read[0] = base /\ \A i \in 1 .. n : read[i] = Integrity!ReadRow(read[i - 1], rows[i])
  BY <1>8
<1> DEFINE T == {i \in 0 .. n : read[i] \in S /\ ReadOK(read[i])}
<1>10. T = 0 .. n
  <2>1. T \subseteq 0 .. n /\ 0 \in T
    BY <1>5, <1>9
  <2>2. ASSUME NEW i \in 1 .. n, i - 1 \in T PROVE i \in T
    BY <1>3, <1>9, <2>2, RowRead
  <2> HIDE DEF T
  <2> QED
    BY <2>1, <2>2, ToTheEnd
<1>11. ReadOK(read[n])
  <2>1. n \in 0 .. n
    OBVIOUS
  <2> QED
    BY <1>10, <2>1
<1> QED
  BY <1>2, <1>3, <1>4, <1>11, NothingRead DEF Integrity!ReadRows

-----------------------------------------------------------------------------
(* The files of a manifest, one after the other.                           *)

ShardsOK(shards) ==
  /\ Len(shards) \in Nat /\ DOMAIN shards = 1 .. Len(shards)
  /\ \A i \in DOMAIN shards : FileOK(shards[i].file) /\ shards[i].expected \in Nat

\* The sums of the numbers before each place are numbers, each made of the one before.
LEMMA SumsAre ==
  ASSUME NEW amounts, Len(amounts) \in Nat, \A i \in 1 .. Len(amounts) : amounts[i] \in Nat,
         NEW sums, sums = Integrity!SumsOf(amounts)
  PROVE  /\ \A i \in 0 .. Len(amounts) : sums[i] \in Nat
         /\ sums[0] = 0 /\ \A i \in 1 .. Len(amounts) : sums[i] = sums[i - 1] + amounts[i]
<1>1. PICK n \in Nat : n = Len(amounts)
  OBVIOUS
<1> DEFINE step == [i \in 1 .. n |-> [s \in Nat |-> s + amounts[i]]]
<1>2. step \in [1 .. n -> [Nat -> Nat]]
  BY <1>1
<1>3. PICK f : f = [i \in 0 .. n |-> IF i = 0 THEN 0 ELSE f[i - 1] + amounts[i]]
  <2>1. PICK f : IsRow(f, Nat, 0, n, step)
    <3> HIDE DEF step
    <3> QED
      BY <1>2, RowIsThere
  <2>2. \A i \in 1 .. n : f[i] = f[i - 1] + amounts[i]
    <3>1. \A i \in 1 .. n : f[i - 1] \in Nat /\ f[i] = step[i][f[i - 1]]
      BY <2>1 DEF IsRow
    <3> QED
      BY <3>1
  <2>3. f = [i \in 0 .. n |-> IF i = 0 THEN 0 ELSE f[i - 1] + amounts[i]]
    BY <2>1, <2>2 DEF IsRow
  <2> QED
    BY <2>3
<1>4. sums = [i \in 0 .. n |-> IF i = 0 THEN 0 ELSE sums[i - 1] + amounts[i]]
  BY <1>1, <1>3 DEF Integrity!SumsOf
<1>5. sums[0] = 0 /\ \A i \in 1 .. n : sums[i] = sums[i - 1] + amounts[i]
  BY <1>4
<1> DEFINE T == {i \in 0 .. n : sums[i] \in Nat}
<1>6. T = 0 .. n
  <2>1. T \subseteq 0 .. n /\ 0 \in T
    BY <1>5
  <2>2. ASSUME NEW i \in 1 .. n, i - 1 \in T PROVE i \in T
    BY <1>1, <1>5, <2>2
  <2> HIDE DEF T
  <2> QED
    BY <2>1, <2>2, ToTheEnd
<1> QED
  BY <1>1, <1>5, <1>6

\* What the control plane has made of so many shards comes of the shards before.
LEMMA ControlGoesOn ==
  ASSUME NEW shards, ShardsOK(shards), NEW reference,
         NEW after, after = Integrity!ControlShards(reference, shards)
  PROVE  /\ after[0] = Integrity!NothingSeen
         /\ \A i \in 1 .. Len(shards) :
              after[i] = Integrity!ControlShard(reference, after[i - 1], shards[i])
<1>1. PICK n \in Nat : n = Len(shards)
  BY DEF ShardsOK
<1>2. PICK P : P = UNION {Integrity!ReadRows(shards[i].file).paths : i \in 1 .. n}
  OBVIOUS
<1> DEFINE S == [seen : SUBSET P, bad : Nat]
           base == Integrity!NothingSeen
           step == [i \in 1 .. n |-> [acc \in S |-> Integrity!ControlShard(reference, acc, shards[i])]]
<1>3. base \in S
  BY DEF Integrity!NothingSeen
<1>4. step \in [1 .. n -> [S -> S]]
  <2> SUFFICES ASSUME NEW i \in 1 .. n, NEW acc \in S
               PROVE  Integrity!ControlShard(reference, acc, shards[i]) \in S
    OBVIOUS
  <2>1. PICK rows : rows = Integrity!ReadRows(shards[i].file)
    OBVIOUS
  <2>2. rows.paths \subseteq P
    BY <1>2, <2>1
  <2>3. acc.seen \in SUBSET P /\ acc.seen \cup rows.paths \in SUBSET P /\ acc.bad \in Nat
        /\ acc.bad + 1 \in Nat /\ acc.bad + 0 \in Nat
    BY <2>2
  <2> QED
    BY <2>1, <2>3 DEF Integrity!ControlShard
<1>5. PICK f : f = [i \in 0 .. n |-> IF i = 0 THEN base
                                     ELSE Integrity!ControlShard(reference, f[i - 1], shards[i])]
  <2>1. PICK f : IsRow(f, S, base, n, step)
    <3> HIDE DEF S, base, step
    <3> QED
      BY <1>3, <1>4, RowIsThere
  <2>2. \A i \in 1 .. n : f[i] = Integrity!ControlShard(reference, f[i - 1], shards[i])
    <3>1. \A i \in 1 .. n, acc \in S : step[i][acc] = Integrity!ControlShard(reference, acc, shards[i])
      <4> HIDE DEF S
      <4> QED
        OBVIOUS
    <3> HIDE DEF S, step
    <3>2. \A i \in 1 .. n : i - 1 \in 0 .. n
      OBVIOUS
    <3> QED
      BY <2>1, <3>1, <3>2 DEF IsRow
  <2>3. f = [i \in 0 .. n |-> IF i = 0 THEN base
                              ELSE Integrity!ControlShard(reference, f[i - 1], shards[i])]
    BY <2>1, <2>2 DEF IsRow
  <2> QED
    BY <2>3
<1>6. after = [i \in 0 .. n |-> IF i = 0 THEN base
                                ELSE Integrity!ControlShard(reference, after[i - 1], shards[i])]
  BY <1>1, <1>5 DEF Integrity!ControlShards
<1> QED
  BY <1>1, <1>6

\* So does what a worker has made of them.
LEMMA WorkerGoesOn ==
  ASSUME NEW shards, ShardsOK(shards), NEW reference,
         NEW after, after = Integrity!WorkerShards(reference, shards)
  PROVE  /\ after[0] = Integrity!NothingSeen
         /\ \A i \in 1 .. Len(shards) :
              after[i] = Integrity!WorkerShard(reference, after[i - 1], shards[i])
<1>1. PICK n \in Nat : n = Len(shards)
  BY DEF ShardsOK
<1>2. PICK P : P = UNION {Integrity!ReadRows(shards[i].file).paths : i \in 1 .. n}
  OBVIOUS
<1> DEFINE S == [seen : SUBSET P, bad : Nat]
           base == Integrity!NothingSeen
           step == [i \in 1 .. n |-> [acc \in S |-> Integrity!WorkerShard(reference, acc, shards[i])]]
<1>3. base \in S
  BY DEF Integrity!NothingSeen
<1>4. step \in [1 .. n -> [S -> S]]
  <2> SUFFICES ASSUME NEW i \in 1 .. n, NEW acc \in S
               PROVE  Integrity!WorkerShard(reference, acc, shards[i]) \in S
    OBVIOUS
  <2>1. PICK rows : rows = Integrity!ReadRows(shards[i].file)
    OBVIOUS
  <2>2. rows.paths \subseteq P
    BY <1>2, <2>1
  <2>3. acc.seen \cup rows.paths \in SUBSET P /\ acc.bad + 1 \in Nat /\ acc.bad + 0 \in Nat
    BY <2>2
  <2> QED
    BY <2>1, <2>3 DEF Integrity!WorkerShard
<1>5. PICK f : f = [i \in 0 .. n |-> IF i = 0 THEN base
                                     ELSE Integrity!WorkerShard(reference, f[i - 1], shards[i])]
  <2>1. PICK f : IsRow(f, S, base, n, step)
    <3> HIDE DEF S, base, step
    <3> QED
      BY <1>3, <1>4, RowIsThere
  <2>2. \A i \in 1 .. n : f[i] = Integrity!WorkerShard(reference, f[i - 1], shards[i])
    <3>1. \A i \in 1 .. n, acc \in S : step[i][acc] = Integrity!WorkerShard(reference, acc, shards[i])
      <4> HIDE DEF S
      <4> QED
        OBVIOUS
    <3> HIDE DEF S, step
    <3>2. \A i \in 1 .. n : i - 1 \in 0 .. n
      OBVIOUS
    <3> QED
      BY <2>1, <3>1, <3>2 DEF IsRow
  <2>3. f = [i \in 0 .. n |-> IF i = 0 THEN base
                              ELSE Integrity!WorkerShard(reference, f[i - 1], shards[i])]
    BY <2>1, <2>2 DEF IsRow
  <2> QED
    BY <2>3
<1>6. after = [i \in 0 .. n |-> IF i = 0 THEN base
                                ELSE Integrity!WorkerShard(reference, after[i - 1], shards[i])]
  BY <1>1, <1>5 DEF Integrity!WorkerShards
<1> QED
  BY <1>1, <1>6

-----------------------------------------------------------------------------
(* Shards that are not bad.                                                *)

\* What so many files hold when none of them is bad: they can be read, stay within
\* the reference, and share no path; what was seen are their paths.
Disjoint(row, reference, seen, sum, i) ==
  /\ \A j \in 1 .. i : /\ Integrity!Readable(row[j])
                       /\ reference.known => row[j].paths \subseteq reference.paths
  /\ \A j, k \in 1 .. i : j # k => row[j].paths \cap row[k].paths = {}
  /\ \A p : p \in seen <=> \E j \in 1 .. i : p \in row[j].paths
  /\ IsFiniteSet(seen) /\ Cardinality(seen) = sum

BothSound(row, reference, control, agent, sum, i) ==
  /\ control.bad \in Nat /\ agent.bad \in Nat
  /\ control.bad = 0 <=> agent.bad = 0
  /\ control.bad = 0 =>
       control.seen = agent.seen /\ Disjoint(row, reference, control.seen, sum, i)

\* A further file that is sound keeps what the files hold.
LEMMA DisjointGrows ==
  ASSUME NEW n \in Nat, NEW row, NEW reference, NEW seen, NEW sum \in Nat, NEW i \in 1 .. n,
         Disjoint(row, reference, seen, sum, i - 1), ReadOK(row[i]), Integrity!Readable(row[i]),
         row[i].paths \cap seen = {}, reference.known => row[i].paths \subseteq reference.paths
  PROVE  Disjoint(row, reference, seen \cup row[i].paths, sum + row[i].count, i)
<1>1. \A j : j \in 1 .. i <=> j \in 1 .. i - 1 \/ j = i
  OBVIOUS
<1>2. \A p : p \in seen \cup row[i].paths <=> \E j \in 1 .. i : p \in row[j].paths
  <2>1. \A p : p \in seen <=> \E j \in 1 .. i - 1 : p \in row[j].paths
    BY DEF Disjoint
  <2> QED
    BY <1>1, <2>1
<1>3. \A j \in 1 .. i : /\ Integrity!Readable(row[j])
                        /\ reference.known => row[j].paths \subseteq reference.paths
  <2>1. \A j \in 1 .. i - 1 : /\ Integrity!Readable(row[j])
                              /\ reference.known => row[j].paths \subseteq reference.paths
    BY DEF Disjoint
  <2> QED
    BY <1>1, <2>1
<1>4. ASSUME NEW j \in 1 .. i, NEW k \in 1 .. i, j # k
      PROVE  row[j].paths \cap row[k].paths = {}
  <2>1. \A l \in 1 .. i - 1 : row[l].paths \subseteq seen
    BY DEF Disjoint
  <2>2. \A a, b \in 1 .. i - 1 : a # b => row[a].paths \cap row[b].paths = {}
    BY DEF Disjoint
  <2>3. \A l \in 1 .. i - 1 : row[l].paths \cap row[i].paths = {}
    BY <2>1
  <2> QED
    BY <1>1, <1>4, <2>2, <2>3
<1>5. IsFiniteSet(seen \cup row[i].paths) /\ Cardinality(seen \cup row[i].paths) = sum + row[i].count
  <2>1. /\ IsFiniteSet(seen) /\ Cardinality(seen) = sum
        /\ IsFiniteSet(row[i].paths) /\ Cardinality(row[i].paths) = row[i].count /\ row[i].count \in Nat
    BY DEF Disjoint, ReadOK
  <2>2. seen \cap row[i].paths = {} /\ Cardinality({}) = 0
    BY FS_EmptySet
  <2>3. /\ IsFiniteSet(seen \cup row[i].paths)
        /\ Cardinality(seen \cup row[i].paths)
             = Cardinality(seen) + Cardinality(row[i].paths) - Cardinality(seen \cap row[i].paths)
    BY <2>1, FS_Union
  <2>4. PICK m \in Nat : m = row[i].count
    BY <2>1
  <2>5. Cardinality(seen \cup row[i].paths) = sum + m - 0
    BY <2>1, <2>2, <2>3, <2>4
  <2> QED
    BY <2>3, <2>4, <2>5
<1> QED
  BY <1>2, <1>3, <1>4, <1>5 DEF Disjoint

\* The control plane and a worker judge the next shard alike.
LEMMA BothJudgeAlike ==
  ASSUME NEW n \in Nat, NEW row, NEW shard, NEW i \in 1 .. n,
         row[i] = Integrity!ReadRows(shard.file), ReadOK(row[i]), shard.expected \in Nat,
         NEW reference, NEW other, other.known = reference.known, other.paths = reference.paths,
         NEW control, NEW agent, NEW sum \in Nat,
         BothSound(row, reference, control, agent, sum, i - 1)
  PROVE  BothSound(row, reference, Integrity!ControlShard(reference, control, shard),
                   Integrity!WorkerShard(other, agent, shard), sum + shard.expected, i)
<1>1. PICK c, w : /\ c = Integrity!ControlShard(reference, control, shard)
                  /\ w = Integrity!WorkerShard(other, agent, shard)
  OBVIOUS
<1>2. PICK r : r = row[i]
  OBVIOUS
<1> DEFINE Misfit(seen) == \/ ~ Integrity!Readable(r) \/ r.paths \cap seen # {}
                           \/ reference.known /\ ~ r.paths \subseteq reference.paths
           Miscounted == r.count # shard.expected
<1>3. /\ c.seen = IF Misfit(control.seen) THEN control.seen ELSE control.seen \cup r.paths
      /\ c.bad = control.bad + IF Misfit(control.seen) \/ Miscounted THEN 1 ELSE 0
  BY <1>1, <1>2 DEF Integrity!ControlShard
<1>4. /\ w.seen = agent.seen \cup r.paths
      /\ w.bad = agent.bad + IF Misfit(agent.seen) \/ Miscounted THEN 1 ELSE 0
  BY <1>1, <1>2 DEF Integrity!WorkerShard
<1>5. control.bad \in Nat /\ agent.bad \in Nat /\ (control.bad = 0 <=> agent.bad = 0)
  BY DEF BothSound
<1>6. CASE control.bad # 0
  <2>1. c.bad \in Nat /\ w.bad \in Nat /\ c.bad # 0 /\ w.bad # 0
    <3> HIDE DEF Misfit, Miscounted
    <3> QED
      BY <1>3, <1>4, <1>5, <1>6
  <2> QED
    BY <1>1, <2>1 DEF BothSound
<1>7. CASE control.bad = 0 /\ (Misfit(control.seen) \/ Miscounted)
  <2>1. agent.seen = control.seen
    BY <1>7 DEF BothSound
  <2>2. c.bad = 1 /\ w.bad = 1
    <3> HIDE DEF Misfit, Miscounted
    <3> QED
      BY <1>3, <1>4, <1>5, <1>7, <2>1
  <2> QED
    BY <1>1, <2>2 DEF BothSound
<1>8. CASE control.bad = 0 /\ ~ Misfit(control.seen) /\ ~ Miscounted
  <2>1. agent.seen = control.seen /\ Disjoint(row, reference, control.seen, sum, i - 1)
    BY <1>8 DEF BothSound
  <2>2. c.bad = 0 /\ w.bad = 0 /\ c.seen = control.seen \cup r.paths /\ w.seen = c.seen
    <3> HIDE DEF Misfit, Miscounted
    <3> QED
      BY <1>3, <1>4, <1>5, <1>8, <2>1
  <2>3. Disjoint(row, reference, c.seen, sum + shard.expected, i)
    <3>1. Disjoint(row, reference, control.seen \cup row[i].paths, sum + row[i].count, i)
      BY <1>2, <1>8, <2>1, DisjointGrows
    <3> QED
      BY <1>2, <1>8, <2>2, <3>1
  <2> QED
    BY <1>1, <2>2, <2>3 DEF BothSound
<1> QED
  BY <1>6, <1>7, <1>8

\* They judge the shards of a manifest alike; and shards of which none is bad hold what
\* Disjoint says, as many paths as are expected of them.
LEMMA BothJudge ==
  ASSUME NEW shards, ShardsOK(shards),
         NEW reference, NEW other, other.known = reference.known, other.paths = reference.paths,
         NEW row, row = [i \in DOMAIN shards |-> Integrity!ReadRows(shards[i].file)]
  PROVE  BothSound(row, reference, Integrity!ControlShards(reference, shards)[Len(shards)],
                   Integrity!WorkerShards(other, shards)[Len(shards)],
                   Integrity!ExpectedFiles(shards), Len(shards))
<1>1. PICK n \in Nat : n = Len(shards) /\ DOMAIN shards = 1 .. n
  BY DEF ShardsOK
<1>2. \A i \in 1 .. n : ReadOK(row[i]) /\ row[i] = Integrity!ReadRows(shards[i].file)
                        /\ shards[i].expected \in Nat
  BY <1>1, FileRead DEF ShardsOK
<1>3. PICK expected : expected = Integrity!Expected(shards)
  OBVIOUS
<1>4. /\ Len(expected) = n
      /\ \A i \in 1 .. n : expected[i] = shards[i].expected /\ expected[i] \in Nat
  <2>1. expected = [i \in 1 .. n |-> shards[i].expected]
    BY <1>1, <1>3 DEF Integrity!Expected
  <2>2. expected \in Seq(Nat) /\ Len(expected) = n
    BY <1>1, <1>2, <2>1
  <2> QED
    BY <1>2, <2>1, <2>2
<1>5. PICK sums : sums = Integrity!SumsOf(expected)
  OBVIOUS
<1>6. /\ \A i \in 0 .. n : sums[i] \in Nat
      /\ sums[0] = 0 /\ \A i \in 1 .. n : sums[i] = sums[i - 1] + shards[i].expected
  <2>1. Len(expected) \in Nat /\ \A i \in 1 .. Len(expected) : expected[i] \in Nat
    BY <1>1, <1>4
  <2>2. /\ \A i \in 0 .. Len(expected) : sums[i] \in Nat
        /\ sums[0] = 0
        /\ \A i \in 1 .. Len(expected) : sums[i] = sums[i - 1] + expected[i]
    BY <1>5, <2>1, SumsAre
  <2> QED
    BY <1>4, <2>2
<1>7. PICK c, w : c = Integrity!ControlShards(reference, shards) /\ w = Integrity!WorkerShards(other, shards)
  OBVIOUS
<1>8. c[0] = Integrity!NothingSeen /\ w[0] = Integrity!NothingSeen
  BY <1>7, ControlGoesOn, WorkerGoesOn
<1>9. \A i \in 1 .. n : /\ c[i] = Integrity!ControlShard(reference, c[i - 1], shards[i])
                        /\ w[i] = Integrity!WorkerShard(other, w[i - 1], shards[i])
  BY <1>1, <1>7, ControlGoesOn, WorkerGoesOn
<1> DEFINE T == {i \in 0 .. n : BothSound(row, reference, c[i], w[i], sums[i], i)}
<1>10. 0 \in T
  <2>1. Disjoint(row, reference, {}, 0, 0)
    BY FS_EmptySet DEF Disjoint
  <2>2. BothSound(row, reference, c[0], w[0], 0, 0)
    BY <1>8, <2>1 DEF BothSound, Integrity!NothingSeen
  <2> QED
    BY <1>6, <2>2
<1>11. ASSUME NEW i \in 1 .. n, i - 1 \in T PROVE i \in T
  <2>1. sums[i - 1] \in Nat /\ BothSound(row, reference, c[i - 1], w[i - 1], sums[i - 1], i - 1)
    BY <1>6, <1>11
  <2>2. PICK sum, control, agent :
             sum \in Nat /\ sum = sums[i - 1] /\ control = c[i - 1] /\ agent = w[i - 1]
    BY <2>1
  <2>3. PICK shard : shard = shards[i]
    OBVIOUS
  <2>4. BothSound(row, reference, control, agent, sum, i - 1)
    BY <2>1, <2>2
  <2>5. BothSound(row, reference, Integrity!ControlShard(reference, control, shard),
                  Integrity!WorkerShard(other, agent, shard), sum + shard.expected, i)
    <3>1. row[i] = Integrity!ReadRows(shard.file) /\ ReadOK(row[i]) /\ shard.expected \in Nat
      BY <1>2, <2>3
    <3> QED
      BY <1>1, <2>2, <2>4, <3>1, BothJudgeAlike
  <2>6. BothSound(row, reference, c[i], w[i], sums[i], i)
    BY <1>6, <1>9, <2>2, <2>3, <2>5
  <2> QED
    BY <2>6
<1>12. T = 0 .. n
  <2>1. T \subseteq 0 .. n
    OBVIOUS
  <2> HIDE DEF T
  <2> QED
    BY <1>10, <1>11, <2>1, ToTheEnd
<1>13. BothSound(row, reference, c[n], w[n], sums[n], n)
  <2>1. n \in 0 .. n
    OBVIOUS
  <2> QED
    BY <1>12, <2>1
<1>14. Integrity!ExpectedFiles(shards) = sums[n]
  BY <1>3, <1>4, <1>5 DEF Integrity!ExpectedFiles, Integrity!SumOf
<1> QED
  BY <1>1, <1>7, <1>13, <1>14

-----------------------------------------------------------------------------
(* The scan units of a manifest.                                           *)

UnitsOK(units) ==
  /\ ShardsOK(units) /\ \E S : units \in Seq(S)
  /\ \A i \in DOMAIN units : units[i].bytes \in Int

UnitAudits(P) == [known : BOOLEAN, paths : SUBSET P, count : Nat, bytes : Int, bad : Nat]

\* A unit's metadata file adds a number of issues.
LEMMA IssuesAreCounted ==
  ASSUME NEW unit PROVE Integrity!UnitMetaIssues(unit) \in Nat
<1> DEFINE wrong(n, expected) == n # Integrity!Absent /\ n # expected
           one(condition) == IF condition THEN 1 ELSE 0
<1>1. PICK a, b : /\ a = one(wrong(unit.meta.file_count, unit.expected))
                  /\ b = one(wrong(unit.meta.total_bytes, unit.bytes))
  OBVIOUS
<1>2. a \in Nat /\ b \in Nat /\ a + b \in Nat
  <2> HIDE DEF wrong
  <2> QED
    BY <1>1
<1>3. \/ Integrity!UnitMetaIssues(unit) = 0
      \/ Integrity!UnitMetaIssues(unit) = 1
      \/ Integrity!UnitMetaIssues(unit) = a + b
  BY <1>1 DEF Integrity!UnitMetaIssues
<1> QED
  BY <1>2, <1>3

\* The audit goes on with a unit; if nothing is bad after it, nothing was before, the
\* unit's file can be read and names only paths that were not seen, and is counted.
LEMMA UnitAudited ==
  ASSUME NEW P, NEW acc \in UnitAudits(P), NEW unit, unit.bytes \in Int,
         NEW r, r = Integrity!ReadRows(unit.file), ReadOK(r), r.paths \subseteq P
  PROVE  LET next == Integrity!AuditUnit(acc, unit)
         IN  /\ next \in UnitAudits(P)
             /\ next.bad = 0 =>
                  /\ acc.bad = 0 /\ Integrity!Readable(r) /\ r.paths \cap acc.paths = {}
                  /\ next.paths = acc.paths \cup r.paths /\ next.count = acc.count + r.count
<1>1. PICK next : next = Integrity!AuditUnit(acc, unit)
  OBVIOUS
<1>2. /\ acc.known \in BOOLEAN /\ acc.paths \in SUBSET P /\ acc.count \in Nat /\ acc.bytes \in Int
      /\ acc.bad \in Nat /\ r.count \in Nat /\ r.bytes \in Int
      /\ acc = [known |-> acc.known, paths |-> acc.paths, count |-> acc.count, bytes |-> acc.bytes,
                bad |-> acc.bad]
  BY DEF UnitAudits, ReadOK
<1>3. PICK miscounted, issues : /\ miscounted = IF r.count # unit.expected THEN 1 ELSE 0
                                /\ issues = Integrity!UnitMetaIssues(unit)
  OBVIOUS
<1>4. miscounted \in Nat /\ issues \in Nat
  BY <1>3, IssuesAreCounted
<1> DEFINE Audit1(known, paths, count, weight, bad) ==
             [known |-> known, paths |-> paths, count |-> count, bytes |-> weight, bad |-> bad]
           Unfit == ~ Integrity!Readable(r) \/ r.paths \cap acc.paths # {}
<1>5. CASE Unfit
  <2>1. next = [acc EXCEPT !.known = FALSE, !.bad = acc.bad + 1]
    BY <1>1, <1>5 DEF Integrity!AuditUnit
  <2>2. next = Audit1(FALSE, acc.paths, acc.count, acc.bytes, acc.bad + 1)
    BY <1>2, <2>1
  <2>3. acc.bad + 1 \in Nat /\ acc.bad + 1 # 0
    BY <1>2
  <2> QED
    BY <1>1, <1>2, <2>2, <2>3 DEF UnitAudits
<1>6. CASE ~ Unfit /\ r.bytes # unit.bytes
  <2>1. next = [acc EXCEPT !.known = FALSE, !.paths = acc.paths \cup r.paths,
                           !.count = acc.count + r.count, !.bad = acc.bad + miscounted + 1]
    BY <1>1, <1>3, <1>6 DEF Integrity!AuditUnit
  <2>2. next = Audit1(FALSE, acc.paths \cup r.paths, acc.count + r.count, acc.bytes,
                      acc.bad + miscounted + 1)
    BY <1>2, <2>1
  <2>3. /\ acc.bad + miscounted + 1 \in Nat /\ acc.bad + miscounted + 1 # 0
        /\ acc.count + r.count \in Nat /\ acc.paths \cup r.paths \in SUBSET P
    BY <1>2, <1>4
  <2> QED
    BY <1>1, <1>2, <2>2, <2>3 DEF UnitAudits
<1>7. CASE ~ Unfit /\ r.bytes = unit.bytes
  <2>1. next = [acc EXCEPT !.paths = acc.paths \cup r.paths, !.count = acc.count + r.count,
                           !.bytes = acc.bytes + r.bytes, !.bad = acc.bad + miscounted + issues]
    BY <1>1, <1>3, <1>7 DEF Integrity!AuditUnit
  <2>2. next = Audit1(acc.known, acc.paths \cup r.paths, acc.count + r.count,
                      acc.bytes + r.bytes, acc.bad + miscounted + issues)
    BY <1>2, <2>1
  <2>3. /\ acc.bad + miscounted + issues \in Nat
        /\ acc.bad + miscounted + issues = 0 => acc.bad = 0
        /\ acc.count + r.count \in Nat /\ acc.paths \cup r.paths \in SUBSET P
        /\ acc.bytes + r.bytes \in Int
    BY <1>2, <1>4
  <2> QED
    BY <1>1, <1>2, <1>7, <2>2, <2>3 DEF UnitAudits
<1> QED
  BY <1>5, <1>6, <1>7

\* The audit of units of which none is bad has seen all their paths, and counted them.
LEMMA UnitsAudited ==
  ASSUME NEW units, UnitsOK(units), NEW audit, audit = Integrity!AuditUnits(units)[Len(units)],
         NEW row, row = [i \in DOMAIN units |-> Integrity!ReadRows(units[i].file)]
  PROVE  /\ audit.bad \in Nat
         /\ Len(units) = 0 => audit.bad = 0
         /\ audit.bad = 0 => Disjoint(row, [known |-> FALSE], audit.paths, audit.count, Len(units))
<1>1. PICK n \in Nat : n = Len(units) /\ DOMAIN units = 1 .. n
  BY DEF UnitsOK, ShardsOK
<1>2. \A i \in 1 .. n : ReadOK(row[i]) /\ row[i] = Integrity!ReadRows(units[i].file)
                        /\ units[i].bytes \in Int
  BY <1>1, FileRead DEF UnitsOK, ShardsOK
<1>3. PICK P : P = UNION {row[i].paths : i \in 1 .. n}
  OBVIOUS
<1>4. \A i \in 1 .. n : row[i].paths \subseteq P
  BY <1>3
<1> DEFINE S == UnitAudits(P)
           base == Integrity!NoUnits
           step == [i \in 1 .. n |-> [acc \in S |-> Integrity!AuditUnit(acc, units[i])]]
<1>5. base \in S
  BY DEF Integrity!NoUnits, UnitAudits
<1>6. \A i \in 1 .. n, acc \in S : Integrity!AuditUnit(acc, units[i]) \in S
  <2> SUFFICES ASSUME NEW i \in 1 .. n, NEW acc \in S PROVE Integrity!AuditUnit(acc, units[i]) \in S
    OBVIOUS
  <2>1. PICK r, unit : r = row[i] /\ unit = units[i]
    OBVIOUS
  <2> QED
    BY <1>2, <1>4, <2>1, UnitAudited
<1>7. step \in [1 .. n -> [S -> S]]
  <2> HIDE DEF S
  <2> QED
    BY <1>6
<1>8. PICK f : f = [i \in 0 .. n |-> IF i = 0 THEN base ELSE Integrity!AuditUnit(f[i - 1], units[i])]
  <2>1. PICK f : IsRow(f, S, base, n, step)
    <3> HIDE DEF S, base, step
    <3> QED
      BY <1>1, <1>5, <1>7, RowIsThere
  <2>2. \A i \in 1 .. n : f[i] = Integrity!AuditUnit(f[i - 1], units[i])
    <3>1. \A i \in 1 .. n, acc \in S : step[i][acc] = Integrity!AuditUnit(acc, units[i])
      <4> HIDE DEF S
      <4> QED
        OBVIOUS
    <3> HIDE DEF S, step
    <3>2. \A i \in 1 .. n : i - 1 \in 0 .. n
      OBVIOUS
    <3> QED
      BY <2>1, <3>1, <3>2 DEF IsRow
  <2>3. f = [i \in 0 .. n |-> IF i = 0 THEN base ELSE Integrity!AuditUnit(f[i - 1], units[i])]
    BY <2>1, <2>2 DEF IsRow
  <2> QED
    BY <2>3
<1>9. PICK after : after = Integrity!AuditUnits(units)
  OBVIOUS
<1>10. after = [i \in 0 .. n |-> IF i = 0 THEN base ELSE Integrity!AuditUnit(after[i - 1], units[i])]
  BY <1>1, <1>8, <1>9 DEF Integrity!AuditUnits
<1>11. after[0] = base /\ \A i \in 1 .. n : after[i] = Integrity!AuditUnit(after[i - 1], units[i])
  BY <1>10
<1> DEFINE Seen(i) == Disjoint(row, [known |-> FALSE], after[i].paths, after[i].count, i)
           T == {i \in 0 .. n : after[i] \in S /\ (after[i].bad = 0 => Seen(i))}
<1>12. 0 \in T
  <2>1. Disjoint(row, [known |-> FALSE], {}, 0, 0)
    BY FS_EmptySet DEF Disjoint
  <2>2. after[0].paths = {} /\ after[0].count = 0
    BY <1>11 DEF Integrity!NoUnits
  <2>3. Seen(0)
    BY <2>1, <2>2
  <2>4. after[0] \in S
    BY <1>5, <1>11
  <2>5. 0 \in 0 .. n
    BY <1>1
  <2> HIDE DEF S, Seen
  <2> QED
    BY <2>3, <2>4, <2>5
<1>13. ASSUME NEW i \in 1 .. n, i - 1 \in T PROVE i \in T
  <2>1. PICK acc \in S : acc = after[i - 1] /\ (acc.bad = 0 => Seen(i - 1))
    BY <1>13
  <2>2. PICK r, unit : r = row[i] /\ unit = units[i]
    OBVIOUS
  <2>3. PICK next : next = after[i]
    OBVIOUS
  <2>4. next = Integrity!AuditUnit(acc, unit)
    BY <1>11, <2>1, <2>2, <2>3
  <2>5. unit.bytes \in Int /\ r = Integrity!ReadRows(unit.file) /\ ReadOK(r) /\ r.paths \subseteq P
    BY <1>2, <1>4, <2>2
  <2>6. /\ next \in S
        /\ next.bad = 0 =>
             /\ acc.bad = 0 /\ Integrity!Readable(r) /\ r.paths \cap acc.paths = {}
             /\ next.paths = acc.paths \cup r.paths /\ next.count = acc.count + r.count
    BY <2>4, <2>5, UnitAudited
  <2>7. ASSUME next.bad = 0 PROVE Seen(i)
    <3>1. PICK count \in Nat, paths \in SUBSET P : count = acc.count /\ paths = acc.paths
      BY <2>1 DEF UnitAudits
    <3>2. Disjoint(row, [known |-> FALSE], paths, count, i - 1)
      BY <2>1, <2>6, <2>7, <3>1
    <3>3. PICK reference : reference = [known |-> FALSE]
      OBVIOUS
    <3>4. ~ reference.known
      BY <3>3
    <3>5. Disjoint(row, reference, paths \cup row[i].paths, count + row[i].count, i)
      BY <1>1, <2>2, <2>5, <2>6, <2>7, <3>1, <3>2, <3>3, <3>4, DisjointGrows
    <3> QED
      BY <2>2, <2>3, <2>6, <2>7, <3>1, <3>3, <3>5
  <2> QED
    BY <2>3, <2>6, <2>7
<1>14. T = 0 .. n
  <2>1. T \subseteq 0 .. n
    OBVIOUS
  <2> HIDE DEF T
  <2> QED
    BY <1>1, <1>12, <1>13, <2>1, ToTheEnd
<1>15. n \in 0 .. n /\ after[n] = audit
  BY <1>1, <1>9
<1>16. audit \in S /\ (audit.bad = 0 => Disjoint(row, [known |-> FALSE], audit.paths, audit.count, n))
  BY <1>14, <1>15
<1>17. audit.bad \in Nat
  BY <1>16 DEF UnitAudits
<1>18. n = 0 => audit.bad = 0
  BY <1>11, <1>15 DEF Integrity!NoUnits
<1> QED
  BY <1>1, <1>16, <1>17, <1>18

-----------------------------------------------------------------------------
(* The verdicts.                                                           *)

ManifestOK(m) == FileOK(m.file) /\ ShardsOK(m.shards) /\ UnitsOK(m.units)

Whole(evidence, meta) ==
  /\ evidence.exists /\ evidence.count_matches /\ ~ evidence.error /\ evidence.bytes_match
  /\ Integrity!MetaOk(meta)

WorkerWhole(evidence, meta) ==
  /\ evidence.exists /\ ~ evidence.error /\ evidence.count_matches /\ evidence.bytes_match
  /\ ~ meta.missing /\ ~ meta.error /\ meta.count_matches /\ meta.bytes_match

\* What the control plane and a worker make of a metadata file.
LEMMA MetaJudged ==
  ASSUME NEW m, NEW c, NEW w, c = Integrity!ControlMeta(m), w = Integrity!WorkerMeta(m)
  PROVE  /\ Integrity!MetaOk(c) <=> Integrity!MetaOk(w)
         /\ Integrity!MetaOk(w) <=> ~ w.missing /\ ~ w.error /\ w.count_matches /\ w.bytes_match
<1>1. CASE ~ m.meta.named
  BY <1>1 DEF Integrity!ControlMeta, Integrity!WorkerMeta, Integrity!NoMeta, Integrity!MetaOk
<1>2. CASE m.meta.named
  <2> DEFINE read == m.meta.state = "object"
             counted == read /\ Integrity!IsNumber(m.meta.file_count)
             weighed == counted /\ Integrity!IsNumber(m.meta.total_bytes)
             countIs == m.meta.file_count = m.file_count
             weightIs == m.meta.total_bytes = m.total_bytes
             invalid == m.meta.total_bytes = Integrity!Invalid
             odd == m.meta.state \notin {"missing", "object"}
  <2>1. /\ c.named = TRUE /\ c.missing = (m.meta.state = "missing")
        /\ c.count_matches = (counted /\ countIs)
        /\ c.weighed = weighed /\ c.bytes_match = (weighed /\ weightIs)
        /\ c.error = (odd \/ (read /\ ~ counted) \/ (counted /\ invalid) \/ (weighed /\ ~ weightIs))
    BY <1>2 DEF Integrity!ControlMeta
  <2>2. /\ w.named = TRUE /\ w.missing = (m.meta.state = "missing")
        /\ w.count_matches = (counted /\ countIs)
        /\ w.weighed = weighed /\ w.bytes_match = (weighed => weightIs)
        /\ w.error = ((odd \/ (read /\ (~ counted \/ invalid))) \/ (weighed /\ ~ weightIs))
    BY <1>2 DEF Integrity!WorkerMeta
  <2>3. /\ counted => read
        /\ weighed => counted
        /\ odd <=> ~ read /\ m.meta.state # "missing"
    OBVIOUS
  <2> HIDE DEF read, counted, weighed, countIs, weightIs, invalid, odd
  <2> QED
    BY <2>1, <2>2, <2>3 DEF Integrity!MetaOk
<1> QED
  BY <1>1, <1>2

\* The parts of the control plane's report on a manifest that was not scanned in parts.
LEMMA OwnIs ==
  ASSUME NEW m, ManifestOK(m), m.units = <<>>, NEW report, report = Integrity!OwnReport(m),
         NEW evidence, evidence = Integrity!ManifestEvidence(m),
         NEW meta, meta = Integrity!ControlMeta(m), NEW bad,
         bad = Integrity!ControlShards([known |-> evidence.known, paths |-> evidence.paths],
                                       m.shards)[Len(m.shards)].bad,
         NEW covered, covered = (Integrity!ExpectedFiles(m.shards) = m.file_count)
  PROVE  /\ report.ok = (Whole(evidence, meta) /\ covered /\ bad = 0)
         /\ report.manifest = evidence /\ report.meta = meta /\ report.units = 0
         /\ report.badUnits = 0 /\ report.badShards = bad /\ report.covered = covered
<1>1. PICK scan : scan = Integrity!ScanAudit(m)
  OBVIOUS
<1>2. Len(m.units) = 0
  OBVIOUS
<1>3. scan.units = 0 /\ scan.bad = 0
  <2>1. PICK audit, row : /\ audit = Integrity!AuditUnits(m.units)[Len(m.units)]
                          /\ row = [i \in DOMAIN m.units |-> Integrity!ReadRows(m.units[i].file)]
    OBVIOUS
  <2>2. audit.bad = 0
    BY <1>2, <2>1, UnitsAudited DEF ManifestOK
  <2> QED
    BY <1>1, <1>2, <2>1, <2>2 DEF Integrity!ScanAudit
<1>4. report = Integrity!OwnResponse(m, evidence, meta, scan)
  BY <1>1 DEF Integrity!OwnReport
<1>5. ~ (scan.units > 0)
  BY <1>3
<1> DEFINE ok == Whole(evidence, meta) /\ covered /\ scan.bad = 0 /\ bad = 0
<1>6. PICK shards : shards = Integrity!ControlShards([known |-> evidence.known, paths |-> evidence.paths],
                                                     m.shards)[Len(m.shards)]
  OBVIOUS
<1>7. report = Integrity!Report(ok, Integrity!Verdict(ok), evidence, meta, scan, shards, covered)
  BY <1>4, <1>5, <1>6 DEF Integrity!OwnResponse, Whole
<1> QED
  BY <1>3, <1>6, <1>7 DEF Integrity!Report

\* The parts of a worker's report.
LEMMA WorkerIs ==
  ASSUME NEW m, NEW report, report = Integrity!WorkerReport(m),
         NEW evidence, evidence = Integrity!ManifestEvidence(m),
         NEW meta, meta = Integrity!WorkerMeta(m), NEW bad,
         bad = Integrity!WorkerShards(evidence, m.shards)[Len(m.shards)].bad,
         NEW covered, covered = (Integrity!ExpectedFiles(m.shards) = m.file_count)
  PROVE  /\ report.ok = (WorkerWhole(evidence, meta) /\ covered /\ bad = 0)
         /\ report.manifest = evidence /\ report.meta = meta /\ report.units = 0
         /\ report.badUnits = 0 /\ report.badShards = bad /\ report.covered = covered
BY DEF Integrity!WorkerReport, Integrity!WorkerResponse, Integrity!Report, WorkerWhole

\* A report on a manifest that was not scanned in parts is condensed to no issue
\* exactly if its parts are good.
LEMMA IssuesOf ==
  ASSUME NEW report, report.units = 0, report.badUnits = 0, report.badShards \in Nat,
         report.ok = (/\ Whole(report.manifest, report.meta)
                      /\ report.covered /\ report.badShards = 0)
  PROVE  report.ok <=> Integrity!IssueCount(report) = 0
<1> DEFINE one(condition) == IF condition THEN 1 ELSE 0
           file == report.manifest
           meta == report.meta
           fileBad == ~ file.exists \/ ~ file.count_matches \/ ~ file.bytes_match \/ file.error
           metaBad == \/ meta.missing \/ meta.error
                      \/ meta.named /\ ~ meta.count_matches
                      \/ meta.named /\ meta.weighed /\ ~ meta.bytes_match
<1>1. ~ (report.units > 0)
  OBVIOUS
<1>2. Integrity!IssueCount(report)
        = report.badUnits + report.badShards
            + IF report.ok THEN 0 ELSE (one(fileBad) + one(metaBad)) + one(~ report.covered)
  BY <1>1 DEF Integrity!IssueCount
<1>3. Whole(file, meta) <=> ~ fileBad /\ ~ metaBad
  BY DEF Whole, Integrity!MetaOk
<1>4. PICK a, b, c : a = one(fileBad) /\ b = one(metaBad) /\ c = one(~ report.covered)
  OBVIOUS
<1>5. /\ a \in Nat /\ b \in Nat /\ c \in Nat
      /\ a = 0 <=> ~ fileBad
      /\ b = 0 <=> ~ metaBad
      /\ c = 0 <=> report.covered
  <2> HIDE DEF fileBad, metaBad
  <2> QED
    BY <1>4
<1>6. PICK n \in Nat : n = report.badShards
  OBVIOUS
<1>7. Integrity!IssueCount(report) = n + IF report.ok THEN 0 ELSE (a + b) + c
  <2>1. Integrity!IssueCount(report) = 0 + n + IF report.ok THEN 0 ELSE (a + b) + c
    BY <1>2, <1>4, <1>6
  <2>2. (IF report.ok THEN 0 ELSE (a + b) + c) \in Nat
    BY <1>5
  <2> QED
    BY <2>1, <2>2
<1>8. report.ok <=> a = 0 /\ b = 0 /\ c = 0 /\ n = 0
  <2> HIDE DEF fileBad, metaBad
  <2> QED
    BY <1>3, <1>5, <1>6
<1>9. CASE report.ok
  <2>1. n = 0 /\ (IF report.ok THEN 0 ELSE (a + b) + c) = 0
    BY <1>8, <1>9
  <2>2. Integrity!IssueCount(report) = 0
    <3>1. Integrity!IssueCount(report) = 0 + 0
      BY <1>7, <2>1
    <3> QED
      BY <3>1
  <2> QED
    BY <1>9, <2>2, Zenon
<1>10. CASE ~ report.ok
  <2>1. ~ (a = 0 /\ b = 0 /\ c = 0 /\ n = 0) /\ Integrity!IssueCount(report) = n + ((a + b) + c)
    BY <1>7, <1>8, <1>10
  <2>2. n + ((a + b) + c) # 0
    BY <1>5, <2>1
  <2> QED
    BY <1>10, <2>1, <2>2
<1> QED
  BY <1>9, <1>10

\* The parts of the control plane's report on a manifest that was scanned in parts.
LEMMA OwnScannedIs ==
  ASSUME NEW m, ManifestOK(m), m.units # <<>>, NEW report, report = Integrity!OwnReport(m),
         NEW scan, scan = Integrity!ScanAudit(m),
         NEW bad, bad = Integrity!ControlShards([known |-> TRUE, paths |-> scan.paths],
                                                m.shards)[Len(m.shards)].bad,
         NEW covered, covered = (Integrity!ExpectedFiles(m.shards) = scan.expected),
         NEW match, match = (scan.count_matches /\ scan.bytes_match)
  PROVE  /\ report.ok = (match /\ covered /\ scan.bad = 0 /\ bad = 0)
         /\ report.units > 0 /\ report.unitsMatch = match
         /\ report.badUnits = scan.bad /\ report.badShards = bad /\ report.covered = covered
<1>1. PICK evidence, meta : evidence = Integrity!ManifestEvidence(m) /\ meta = Integrity!ControlMeta(m)
  OBVIOUS
<1>2. Len(m.units) > 0
  <2>1. PICK S, units : units = m.units /\ units \in Seq(S) /\ units # <<>>
    BY DEF ManifestOK, UnitsOK
  <2>2. Len(units) > 0
    BY <2>1
  <2> QED
    BY <2>1, <2>2
<1>3. scan.units > 0
  BY <1>2 DEF Integrity!ScanAudit
<1>4. report = Integrity!OwnResponse(m, evidence, meta, scan)
  BY <1>1 DEF Integrity!OwnReport
<1> DEFINE ok == match /\ covered /\ scan.bad = 0 /\ bad = 0
<1>5. PICK shards : shards = Integrity!ControlShards([known |-> TRUE, paths |-> scan.paths],
                                                     m.shards)[Len(m.shards)]
  OBVIOUS
<1>6. report = Integrity!Report(ok, Integrity!Verdict(ok), evidence, meta, scan, shards, covered)
  BY <1>3, <1>4, <1>5 DEF Integrity!OwnResponse
<1> QED
  BY <1>3, <1>5, <1>6 DEF Integrity!Report

\* Such a report is condensed to no issue exactly if its parts are good.
LEMMA IssuesOfScanned ==
  ASSUME NEW report, report.units > 0, report.badUnits \in Nat, report.badShards \in Nat,
         report.ok = (/\ report.unitsMatch /\ report.covered
                      /\ report.badUnits = 0 /\ report.badShards = 0)
  PROVE  report.ok <=> Integrity!IssueCount(report) = 0
<1> DEFINE one(condition) == IF condition THEN 1 ELSE 0
<1>1. PICK n, a, b : /\ n = report.badUnits + report.badShards
                     /\ a = one(~ report.unitsMatch) /\ b = one(~ report.covered)
  OBVIOUS
<1>2. /\ n \in Nat /\ a \in Nat /\ b \in Nat
      /\ a = 0 <=> report.unitsMatch
      /\ b = 0 <=> report.covered
      /\ n = 0 <=> report.badUnits = 0 /\ report.badShards = 0
  BY <1>1
<1>3. Integrity!IssueCount(report) = n + IF report.ok THEN 0 ELSE a + b
  BY <1>1 DEF Integrity!IssueCount
<1>4. CASE report.ok
  <2>1. n = 0 /\ (IF report.ok THEN 0 ELSE a + b) = 0
    BY <1>2, <1>4
  <2>2. Integrity!IssueCount(report) = 0
    <3>1. Integrity!IssueCount(report) = 0 + 0
      BY <1>3, <2>1
    <3> QED
      BY <3>1
  <2> QED
    BY <1>4, <2>2, Zenon
<1>5. CASE ~ report.ok
  <2>1. ~ (a = 0 /\ b = 0 /\ n = 0) /\ Integrity!IssueCount(report) = n + (a + b)
    BY <1>2, <1>3, <1>5
  <2>2. n + (a + b) # 0
    BY <1>2, <2>1
  <2> QED
    BY <1>5, <2>1, <2>2
<1> QED
  BY <1>4, <1>5

\* The paths of readable files, as the properties name them.
LEMMA SeenIsAll ==
  ASSUME NEW files, ShardsOK(files), NEW row,
         row = [i \in DOMAIN files |-> Integrity!ReadRows(files[i].file)],
         NEW reference, NEW seen, NEW sum, Disjoint(row, reference, seen, sum, Len(files))
  PROVE  /\ Integrity!Readables(files) = DOMAIN files
         /\ seen = UNION {Integrity!PathsOf(files[i].file) : i \in DOMAIN files}
         /\ \A i, j \in DOMAIN files :
              i # j => Integrity!PathsOf(files[i].file) \cap Integrity!PathsOf(files[j].file) = {}
<1>1. DOMAIN files = 1 .. Len(files)
  BY DEF ShardsOK
<1>2. \A i \in DOMAIN files : row[i] = Integrity!ReadRows(files[i].file)
  OBVIOUS
<1>3. \A i \in DOMAIN files : row[i].paths = Integrity!PathsOf(files[i].file)
  BY <1>2 DEF Integrity!PathsOf
<1>4. /\ \A i \in DOMAIN files : Integrity!Readable(row[i])
      /\ \A i, j \in DOMAIN files : i # j => row[i].paths \cap row[j].paths = {}
      /\ \A p : p \in seen <=> \E i \in DOMAIN files : p \in row[i].paths
  BY <1>1 DEF Disjoint
<1>5. Integrity!Readables(files) = DOMAIN files
  BY <1>2, <1>4 DEF Integrity!Readables
<1>6. seen = UNION {Integrity!PathsOf(files[i].file) : i \in DOMAIN files}
  BY <1>3, <1>4
<1>7. \A i, j \in DOMAIN files :
        i # j => Integrity!PathsOf(files[i].file) \cap Integrity!PathsOf(files[j].file) = {}
  BY <1>3, <1>4
<1> QED
  BY <1>5, <1>6, <1>7

\* On any manifest, shards and scan units the two implementations of the audit come to
\* one verdict, and either report is good exactly if no issue is counted in it.
THEOREM ManifestsJudged ==
  ASSUME NEW m, ManifestOK(m) PROVE Integrity!VerdictsAgree(m)
<1>1. PICK own, worked : own = Integrity!OwnReport(m) /\ worked = Integrity!WorkerReport(m)
  OBVIOUS
<1>2. PICK evidence, meta, workerMeta :
        /\ evidence = Integrity!ManifestEvidence(m)
        /\ meta = Integrity!ControlMeta(m) /\ workerMeta = Integrity!WorkerMeta(m)
  OBVIOUS
<1>3. PICK row : row = [i \in DOMAIN m.shards |-> Integrity!ReadRows(m.shards[i].file)]
  OBVIOUS
<1>4. PICK reference : reference = [known |-> evidence.known, paths |-> evidence.paths]
  OBVIOUS
<1>5. PICK c, w : /\ c = Integrity!ControlShards(reference, m.shards)[Len(m.shards)].bad
                  /\ w = Integrity!WorkerShards(evidence, m.shards)[Len(m.shards)].bad
  OBVIOUS
<1>6. c \in Nat /\ w \in Nat /\ (c = 0 <=> w = 0)
  <2>1. evidence.known = reference.known /\ evidence.paths = reference.paths
    BY <1>4
  <2>2. ShardsOK(m.shards)
    BY DEF ManifestOK
  <2>3. BothSound(row, reference, Integrity!ControlShards(reference, m.shards)[Len(m.shards)],
                  Integrity!WorkerShards(evidence, m.shards)[Len(m.shards)],
                  Integrity!ExpectedFiles(m.shards), Len(m.shards))
    BY <1>3, <2>1, <2>2, BothJudge
  <2> QED
    BY <1>5, <2>3 DEF BothSound
<1>7. PICK covered \in BOOLEAN : covered = (Integrity!ExpectedFiles(m.shards) = m.file_count)
  OBVIOUS
<1>8. /\ worked.ok = (WorkerWhole(evidence, workerMeta) /\ covered /\ w = 0)
      /\ worked.manifest = evidence /\ worked.meta = workerMeta /\ worked.units = 0
      /\ worked.badUnits = 0 /\ worked.badShards = w /\ worked.covered = covered
  BY <1>1, <1>2, <1>5, <1>7, WorkerIs
<1>9. WorkerWhole(evidence, workerMeta) <=> Whole(evidence, workerMeta)
  BY <1>2, MetaJudged DEF WorkerWhole, Whole
<1>10. Whole(evidence, meta) <=> Whole(evidence, workerMeta)
  BY <1>2, MetaJudged DEF Whole
<1>11. worked.ok <=> Integrity!IssueCount(worked) = 0
  BY <1>6, <1>8, <1>9, IssuesOf
<1>12. ASSUME m.units = <<>>
       PROVE  (own.ok <=> worked.ok) /\ (own.ok <=> Integrity!IssueCount(own) = 0)
  <2>1. /\ own.ok = (Whole(evidence, meta) /\ covered /\ c = 0)
        /\ own.manifest = evidence /\ own.meta = meta /\ own.units = 0
        /\ own.badUnits = 0 /\ own.badShards = c /\ own.covered = covered
    BY <1>1, <1>2, <1>4, <1>5, <1>7, <1>12, OwnIs
  <2>2. own.ok <=> worked.ok
    BY <1>6, <1>8, <1>9, <1>10, <2>1
  <2>3. own.ok <=> Integrity!IssueCount(own) = 0
    BY <1>6, <2>1, IssuesOf
  <2> QED
    BY <2>2, <2>3
<1>13. ASSUME m.units # <<>> PROVE own.ok <=> Integrity!IssueCount(own) = 0
  <2>1. PICK scan : scan = Integrity!ScanAudit(m)
    OBVIOUS
  <2>2. PICK known : known = [known |-> TRUE, paths |-> scan.paths]
    OBVIOUS
  <2>3. PICK bad : bad = Integrity!ControlShards(known, m.shards)[Len(m.shards)].bad
    OBVIOUS
  <2>4. bad \in Nat
    <3>1. BothSound(row, known, Integrity!ControlShards(known, m.shards)[Len(m.shards)],
                    Integrity!WorkerShards(known, m.shards)[Len(m.shards)],
                    Integrity!ExpectedFiles(m.shards), Len(m.shards))
      BY <1>3, BothJudge DEF ManifestOK
    <3> QED
      BY <2>3, <3>1 DEF BothSound
  <2>5. scan.bad \in Nat
    <3>1. PICK audit, rows : /\ audit = Integrity!AuditUnits(m.units)[Len(m.units)]
                             /\ rows = [i \in DOMAIN m.units |-> Integrity!ReadRows(m.units[i].file)]
      OBVIOUS
    <3>2. audit.bad \in Nat
      BY <3>1, UnitsAudited DEF ManifestOK
    <3> QED
      BY <2>1, <3>1, <3>2 DEF Integrity!ScanAudit
  <2>6. PICK total, match : /\ total = (Integrity!ExpectedFiles(m.shards) = scan.expected)
                            /\ match = (scan.count_matches /\ scan.bytes_match)
    OBVIOUS
  <2>7. /\ own.ok = (match /\ total /\ scan.bad = 0 /\ bad = 0)
        /\ own.units > 0 /\ own.unitsMatch = match
        /\ own.badUnits = scan.bad /\ own.badShards = bad /\ own.covered = total
    BY <1>1, <1>13, <2>1, <2>2, <2>3, <2>6, OwnScannedIs
  <2> QED
    BY <2>4, <2>5, <2>7, IssuesOfScanned
<1>14. m.units = <<>> => (own.ok <=> worked.ok)
  BY <1>12
<1>15. own.ok <=> Integrity!IssueCount(own) = 0
  BY <1>12, <1>13
<1> QED
  BY <1>1, <1>11, <1>14, <1>15 DEF Integrity!VerdictsAgree

\* Shards that stay within a finite set of paths and expect as many as it has, name it.
LEMMA NamesAll ==
  ASSUME NEW files, ShardsOK(files), NEW row,
         row = [i \in DOMAIN files |-> Integrity!ReadRows(files[i].file)],
         NEW paths, IsFiniteSet(paths), NEW reference, reference.known = TRUE, reference.paths = paths,
         NEW seen, Disjoint(row, reference, seen, Cardinality(paths), Len(files))
  PROVE  seen = paths
<1>1. seen \subseteq paths
  BY DEF Disjoint
<1>2. seen \in SUBSET paths /\ Cardinality(seen) = Cardinality(paths)
  BY <1>1 DEF Disjoint
<1> QED
  BY <1>2, FS_Subset

\* Whatever the manifest, its shards and its scan units hold: a good verdict of the
\* control plane's audit means that every file is in exactly one shard.
THEOREM GoodIsCovered ==
  ASSUME NEW m, ManifestOK(m) PROVE Integrity!OkMeansCovered(m)
<1>1. PICK own : own = Integrity!OwnReport(m)
  OBVIOUS
<1>2. PICK row : row = [i \in DOMAIN m.shards |-> Integrity!ReadRows(m.shards[i].file)]
  OBVIOUS
<1>3. ShardsOK(m.shards) /\ UnitsOK(m.units) /\ ShardsOK(m.units) /\ FileOK(m.file)
  BY DEF ManifestOK, UnitsOK
<1>4. PICK sources : sources = IF m.units = <<>> THEN {Integrity!PathsOf(m.file)}
                               ELSE {Integrity!PathsOf(m.units[i].file) : i \in DOMAIN m.units}
  OBVIOUS
<1>5. ASSUME own.ok
      PROVE  \E reference, seen, sum :
               Disjoint(row, reference, seen, sum, Len(m.shards)) /\ seen = UNION sources
  <2>1. CASE m.units = <<>>
    <3>1. PICK evidence, meta : /\ evidence = Integrity!ManifestEvidence(m)
                                /\ meta = Integrity!ControlMeta(m)
      OBVIOUS
    <3>2. PICK reference : reference = [known |-> evidence.known, paths |-> evidence.paths]
      OBVIOUS
    <3>3. PICK shards : shards = Integrity!ControlShards(reference, m.shards)[Len(m.shards)]
      OBVIOUS
    <3>4. PICK bad, covered : bad = shards.bad
                              /\ covered = (Integrity!ExpectedFiles(m.shards) = m.file_count)
      OBVIOUS
    <3>5. own.ok = (Whole(evidence, meta) /\ covered /\ bad = 0)
      BY <1>1, <2>1, <3>1, <3>2, <3>3, <3>4, OwnIs
    <3>6. evidence.count_matches /\ shards.bad = 0 /\ Integrity!ExpectedFiles(m.shards) = m.file_count
      BY <1>5, <3>4, <3>5 DEF Whole
    <3>7. PICK rows : rows = Integrity!ReadRows(m.file)
      OBVIOUS
    <3>8. /\ rows.count = m.file_count /\ reference.known = TRUE /\ reference.paths = rows.paths
      BY <3>1, <3>2, <3>6, <3>7 DEF Integrity!ManifestEvidence
    <3>9. IsFiniteSet(rows.paths) /\ Cardinality(rows.paths) = rows.count
      BY <1>3, <3>7, FileRead DEF ReadOK
    <3>10. BothSound(row, reference, shards, Integrity!WorkerShards(reference, m.shards)[Len(m.shards)],
                     Integrity!ExpectedFiles(m.shards), Len(m.shards))
      BY <1>2, <1>3, <3>3, BothJudge
    <3>11. Disjoint(row, reference, shards.seen, Cardinality(rows.paths), Len(m.shards))
      BY <3>6, <3>8, <3>9, <3>10 DEF BothSound
    <3>12. shards.seen = rows.paths
      BY <1>2, <1>3, <3>8, <3>9, <3>11, NamesAll
    <3>13. UNION sources = rows.paths
      BY <1>4, <2>1, <3>7 DEF Integrity!PathsOf
    <3> QED
      BY <3>11, <3>12, <3>13
  <2>2. CASE m.units # <<>>
    <3>1. PICK scan : scan = Integrity!ScanAudit(m)
      OBVIOUS
    <3>2. PICK reference : reference = [known |-> TRUE, paths |-> scan.paths]
      OBVIOUS
    <3>3. PICK shards : shards = Integrity!ControlShards(reference, m.shards)[Len(m.shards)]
      OBVIOUS
    <3>4. PICK bad : bad = shards.bad
      OBVIOUS
    <3>5. own.ok = (/\ scan.count_matches /\ scan.bytes_match
                    /\ Integrity!ExpectedFiles(m.shards) = scan.expected
                    /\ scan.bad = 0 /\ bad = 0)
      <4>1. PICK covered, match : /\ covered = (Integrity!ExpectedFiles(m.shards) = scan.expected)
                                  /\ match = (scan.count_matches /\ scan.bytes_match)
        OBVIOUS
      <4>2. own.ok = (match /\ covered /\ scan.bad = 0 /\ bad = 0)
        BY <1>1, <2>2, <3>1, <3>2, <3>3, <3>4, <4>1, OwnScannedIs
      <4> QED
        BY <4>1, <4>2
    <3>6. /\ scan.count_matches /\ shards.bad = 0 /\ scan.bad = 0
          /\ Integrity!ExpectedFiles(m.shards) = scan.expected
      BY <1>5, <3>4, <3>5
    <3>7. PICK audit, rows : /\ audit = Integrity!AuditUnits(m.units)[Len(m.units)]
                             /\ rows = [i \in DOMAIN m.units |-> Integrity!ReadRows(m.units[i].file)]
      OBVIOUS
    <3>8. audit.bad = 0 /\ scan.paths = audit.paths /\ audit.count = scan.expected
      BY <3>1, <3>6, <3>7 DEF Integrity!ScanAudit
    <3>9. Disjoint(rows, [known |-> FALSE], audit.paths, audit.count, Len(m.units))
      BY <1>3, <3>7, <3>8, UnitsAudited
    <3>10. IsFiniteSet(audit.paths) /\ Cardinality(audit.paths) = scan.expected
      BY <3>8, <3>9 DEF Disjoint
    <3>11. BothSound(row, reference, shards, Integrity!WorkerShards(reference, m.shards)[Len(m.shards)],
                     Integrity!ExpectedFiles(m.shards), Len(m.shards))
      BY <1>2, <1>3, <3>3, BothJudge
    <3>12. Disjoint(row, reference, shards.seen, Cardinality(audit.paths), Len(m.shards))
      BY <3>6, <3>10, <3>11 DEF BothSound
    <3>13. shards.seen = audit.paths
      <4>1. reference.known = TRUE /\ reference.paths = audit.paths
        BY <3>2, <3>8
      <4> QED
        BY <1>2, <1>3, <3>10, <3>12, <4>1, NamesAll
    <3>14. audit.paths = UNION {Integrity!PathsOf(m.units[i].file) : i \in DOMAIN m.units}
      BY <1>3, <3>7, <3>9, SeenIsAll
    <3> QED
      BY <1>4, <2>2, <3>12, <3>13, <3>14
  <2> QED
    BY <2>1, <2>2
<1>6. ASSUME own.ok
      PROVE  /\ Integrity!Readables(m.shards) = DOMAIN m.shards
             /\ UNION {Integrity!PathsOf(m.shards[i].file) : i \in DOMAIN m.shards} = UNION sources
             /\ \A i, j \in DOMAIN m.shards :
                  i # j => Integrity!PathsOf(m.shards[i].file) \cap Integrity!PathsOf(m.shards[j].file) = {}
  <2>1. PICK reference, seen, sum :
          Disjoint(row, reference, seen, sum, Len(m.shards)) /\ seen = UNION sources
    BY <1>5, <1>6
  <2>2. seen = UNION {Integrity!PathsOf(m.shards[i].file) : i \in DOMAIN m.shards}
    BY <1>2, <1>3, <2>1, SeenIsAll
  <2>3. /\ Integrity!Readables(m.shards) = DOMAIN m.shards
        /\ \A i, j \in DOMAIN m.shards :
             i # j => Integrity!PathsOf(m.shards[i].file) \cap Integrity!PathsOf(m.shards[j].file) = {}
    BY <1>2, <1>3, <2>1, SeenIsAll
  <2> QED
    BY <2>1, <2>2, <2>3
<1> QED
  BY <1>1, <1>4, <1>6 DEF Integrity!OkMeansCovered

-----------------------------------------------------------------------------
(* The manifests of the instance.                                          *)

\* Sequences of bounded length are sequences.
LEMMA UptoIsSeq ==
  ASSUME NEW S, NEW n \in Nat, NEW s \in Upto(n, S) PROVE s \in Seq(S)
<1>1. PICK k \in 0 .. n : s \in [1 .. k -> S]
  BY DEF Upto
<1> QED
  BY <1>1

\* The files of the instance are files.
LEMMA FilesAreFiles ==
  ASSUME NEW file, NEW rows, file.state # "none", file.rows = rows,
         \/ rows = <<>>
         \/ \E r \in {RowA, RowB, Row("c", 1)} : rows = <<r>>
         \/ \E r, s \in {RowA, RowB, Row("b", 1), Damaged} : rows = <<r, s>>
  PROVE  FileOK(file)
<1>1. PICK R : R = RowsOf({"ok", "invalid_json"}, {"a", "b", "c"})
  OBVIOUS
<1>2. /\ RowA \in R /\ RowB \in R /\ Row("c", 1) \in R /\ Row("b", 1) \in R /\ Damaged \in R
  BY <1>1 DEF RowA, RowB, Row, Damaged, RowsOf
<1>3. rows \in Seq(R)
  <2>1. \A r \in R : <<r>> \in Seq(R)
    OBVIOUS
  <2>2. \A r, s \in R : <<r, s>> \in Seq(R)
    OBVIOUS
  <2>3. <<>> \in Seq(R)
    OBVIOUS
  <2>4. CASE rows = <<>>
    BY <2>3, <2>4
  <2>5. CASE \E r \in {RowA, RowB, Row("c", 1)} : rows = <<r>>
    BY <1>2, <2>1, <2>5
  <2>6. CASE \E r, s \in {RowA, RowB, Row("b", 1), Damaged} : rows = <<r, s>>
    BY <1>2, <2>2, <2>6
  <2> QED
    BY <2>4, <2>5, <2>6
<1> QED
  BY <1>1, <1>3 DEF FileOK

\* So are those of its units.
LEMMA UnitsAreFiles ==
  ASSUME NEW rows, NEW weight \in Int, NEW meta,
         \/ \E r \in {RowA, RowB} : rows = <<r>>
         \/ \E r, s \in {RowA, RowB, Damaged} : rows = <<r, s>>
  PROVE  /\ FileOK(Unit(rows, weight, meta).file) /\ Unit(rows, weight, meta).expected \in Nat
         /\ Unit(rows, weight, meta).bytes \in Int
<1>1. PICK file : file = File(rows)
  OBVIOUS
<1>2. file.state = "present" /\ file.rows = rows
  BY <1>1 DEF File
<1>3. FileOK(file)
  <2>1. CASE \E r \in {RowA, RowB} : rows = <<r>>
    BY <1>2, <2>1, FilesAreFiles
  <2>2. CASE \E r, s \in {RowA, RowB, Damaged} : rows = <<r, s>>
    BY <1>2, <2>2, FilesAreFiles
  <2> QED
    BY <2>1, <2>2
<1>4. Len(rows) \in Nat
  OBVIOUS
<1>5. PICK unit : unit = Unit(rows, weight, meta)
  OBVIOUS
<1>6. unit.file = file /\ unit.expected = Len(rows) /\ unit.bytes = weight
  BY <1>1, <1>5 DEF Unit
<1> QED
  BY <1>3, <1>4, <1>5, <1>6

\* The manifests of the instance are manifests with files.
LEMMA ManifestsAreOK ==
  ASSUME NEW m \in Manifests PROVE ManifestOK(m)
<1>1. \A file \in Sources \cup ShardFiles \cup {Gone, File(<<RowA>>)} : FileOK(file)
  BY FilesAreFiles DEF Sources, ShardFiles, Gone, Locked, File
<1>2. \A unit \in {Unit(<<RowA>>, 1, NoMeta), Unit(<<RowB>>, 2, NoMeta), Unit(<<RowB>>, 1, NoMeta),
                   Unit(<<RowA, RowB>>, 3, GoodMeta), Unit(<<RowA, RowB>>, 3, Meta(TRUE, "object", 1, 3)),
                   Unit(<<RowA, Damaged>>, 1, NoMeta)} :
        FileOK(unit.file) /\ unit.expected \in Nat /\ unit.bytes \in Int
  <2> DEFINE Good(unit) == FileOK(unit.file) /\ unit.expected \in Nat /\ unit.bytes \in Int
  <2>1. \A weight \in Int : \A meta : Good(Unit(<<RowA>>, weight, meta)) /\ Good(Unit(<<RowB>>, weight, meta))
    <3>1. PICK a, b : a = <<RowA>> /\ b = <<RowB>>
      OBVIOUS
    <3>2. /\ \E r \in {RowA, RowB} : a = <<r>>
          /\ \E r \in {RowA, RowB} : b = <<r>>
      BY <3>1
    <3> QED
      BY <3>1, <3>2, UnitsAreFiles
  <2>2. \A weight \in Int : \A meta : /\ Good(Unit(<<RowA, RowB>>, weight, meta))
                                    /\ Good(Unit(<<RowA, Damaged>>, weight, meta))
    <3>1. PICK a, b : a = <<RowA, RowB>> /\ b = <<RowA, Damaged>>
      OBVIOUS
    <3>2. /\ \E r, s \in {RowA, RowB, Damaged} : a = <<r, s>>
          /\ \E r, s \in {RowA, RowB, Damaged} : b = <<r, s>>
      BY <3>1
    <3> QED
      BY <3>1, <3>2, UnitsAreFiles
  <2> HIDE DEF Good
  <2>3. /\ Good(Unit(<<RowA>>, 1, NoMeta)) /\ Good(Unit(<<RowB>>, 2, NoMeta))
        /\ Good(Unit(<<RowB>>, 1, NoMeta))
    BY <2>1
  <2>4. /\ Good(Unit(<<RowA, RowB>>, 3, GoodMeta)) /\ Good(Unit(<<RowA, Damaged>>, 1, NoMeta))
        /\ Good(Unit(<<RowA, RowB>>, 3, Meta(TRUE, "object", 1, 3)))
    <3>1. 1 \in Int /\ 3 \in Int
      OBVIOUS
    <3> QED
      BY <2>2, <3>1, Zenon
  <2>5. \A unit \in {Unit(<<RowA>>, 1, NoMeta), Unit(<<RowB>>, 2, NoMeta), Unit(<<RowB>>, 1, NoMeta),
                     Unit(<<RowA, RowB>>, 3, GoodMeta),
                     Unit(<<RowA, RowB>>, 3, Meta(TRUE, "object", 1, 3)),
                     Unit(<<RowA, Damaged>>, 1, NoMeta)} : Good(unit)
    BY <2>3, <2>4, Zenon
  <2> QED
    BY <2>5 DEF Good
<1>3. ASSUME NEW shards \in Shards PROVE ShardsOK(shards)
  <2>1. PICK S : S = [file : ShardFiles, expected : {1, 2}]
    OBVIOUS
  <2>2. shards \in Seq(S)
    BY <2>1, UptoIsSeq DEF Shards
  <2>3. \A shard \in S : FileOK(shard.file) /\ shard.expected \in Nat
    BY <1>1, <2>1
  <2> QED
    BY <2>2, <2>3 DEF ShardsOK
<1>4. ASSUME NEW units \in ScanUnits \cup {<<>>} PROVE UnitsOK(units)
  <2>1. PICK S : S = {Unit(<<RowA>>, 1, NoMeta), Unit(<<RowB>>, 2, NoMeta), Unit(<<RowB>>, 1, NoMeta),
                      Unit(<<RowA, RowB>>, 3, GoodMeta),
                      Unit(<<RowA, RowB>>, 3, Meta(TRUE, "object", 1, 3)),
                      Unit(<<RowA, Damaged>>, 1, NoMeta)}
    OBVIOUS
  <2>2. units \in Seq(S)
    <3>1. units \in Upto(2, S) \/ units = <<>>
      BY <2>1 DEF ScanUnits
    <3>2. <<>> \in Seq(S)
      OBVIOUS
    <3> QED
      BY <3>1, <3>2, UptoIsSeq
  <2>3. \A unit \in S : FileOK(unit.file) /\ unit.expected \in Nat /\ unit.bytes \in Int
    BY <1>2, <2>1
  <2> QED
    BY <2>2, <2>3 DEF UnitsOK, ShardsOK
<1>5. m.file \in Sources \cup {Gone, File(<<RowA>>)} /\ m.shards \in Shards /\ m.units \in ScanUnits \cup {<<>>}
  BY DEF Manifests
<1> QED
  BY <1>1, <1>3, <1>4, <1>5 DEF ManifestOK

-----------------------------------------------------------------------------
(* Tables and what is read of them (ControlDiagnostics).                   *)

\* Workers have a number of slots; what is out of order in a database is counted.
WorldOK(w) ==
  /\ \E S : w.workers \in Seq(S)
  /\ \A i \in DOMAIN w.workers : w.workers[i].slots \in Int
  /\ IsFiniteSet(DOMAIN w.shards)
  /\ w.limits.evidence \in Nat /\ \E S : w.pages \in Seq(S)
  /\ w.db.mismatches \in Nat /\ w.db.unsummed \in Nat /\ w.db.missing \in Nat
  /\ w.db.unexpected \in Nat

\* Sizes of sets are what they are in the module of the diagnostics.
LEMMA ViewsCount ==
  ASSUME NEW S PROVE Views!Cardinality(S) = Cardinality(S)
BY DEF Views!Cardinality, Cardinality

\* A sum of numbers is nothing exactly if all of them are.
LEMMA SumIs ==
  ASSUME NEW amounts, Len(amounts) \in Nat, \A i \in 1 .. Len(amounts) : amounts[i] \in Nat
  PROVE  /\ Views!SumOf(amounts) \in Nat
         /\ Views!SumOf(amounts) = 0 <=> \A i \in 1 .. Len(amounts) : amounts[i] = 0
<1>1. PICK n \in Nat : n = Len(amounts)
  OBVIOUS
<1>2. PICK sums : sums = Integrity!SumsOf(amounts)
  OBVIOUS
<1>3. sums[n] = Views!SumOf(amounts)
  BY <1>1, <1>2 DEF Integrity!SumsOf, Views!SumOf
<1>4. /\ \A i \in 0 .. n : sums[i] \in Nat
      /\ sums[0] = 0 /\ \A i \in 1 .. n : sums[i] = sums[i - 1] + amounts[i]
  BY <1>1, <1>2, SumsAre
<1> DEFINE T == {i \in 0 .. n : sums[i] = 0 <=> \A j \in 1 .. i : amounts[j] = 0}
<1>5. 0 \in T
  BY <1>1, <1>4
<1>6. ASSUME NEW i \in 1 .. n, i - 1 \in T PROVE i \in T
  <2>1. \A j : j \in 1 .. i <=> j \in 1 .. i - 1 \/ j = i
    BY <1>1
  <2>2. sums[i - 1] \in Nat /\ amounts[i] \in Nat /\ sums[i] = sums[i - 1] + amounts[i]
    BY <1>1, <1>4
  <2>3. sums[i] = 0 <=> sums[i - 1] = 0 /\ amounts[i] = 0
    BY <2>2
  <2>4. (\A j \in 1 .. i : amounts[j] = 0) <=> (\A j \in 1 .. i - 1 : amounts[j] = 0) /\ amounts[i] = 0
    BY <2>1
  <2>5. sums[i - 1] = 0 <=> \A j \in 1 .. i - 1 : amounts[j] = 0
    BY <1>6
  <2> QED
    BY <2>3, <2>4, <2>5
<1>7. T = 0 .. n
  <2>1. T \subseteq 0 .. n
    OBVIOUS
  <2> HIDE DEF T
  <2> QED
    BY <1>1, <1>5, <1>6, <2>1, ToTheEnd
<1>8. n \in 0 .. n
  BY <1>1
<1>9. sums[n] \in Nat /\ (sums[n] = 0 <=> \A j \in 1 .. n : amounts[j] = 0)
  BY <1>4, <1>7, <1>8
<1> QED
  BY <1>1, <1>3, <1>9

\* There are slots exactly if a ready row has some; without slots none is free.
LEMMA SlotsAre ==
  ASSUME NEW w, WorldOK(w)
  PROVE  /\ Views!ReadySlots(w) \in Nat /\ Views!FreeSlots(w) \in Nat
         /\ Views!ReadySlots(w) = 0 <=> \A i \in Views!ReadyWorkers(w) : w.workers[i].slots <= 0
         /\ Views!ReadySlots(w) = 0 => Views!FreeSlots(w) = 0
<1>1. PICK S, workers : w.workers = workers /\ workers \in Seq(S)
  BY DEF WorldOK
<1>2. PICK n \in Nat : n = Len(workers) /\ DOMAIN workers = 1 .. n
  BY <1>1
<1>3. \A i \in 1 .. n : workers[i].slots \in Int
  BY <1>1, <1>2 DEF WorldOK
<1>4. Views!ReadyWorkers(w) \subseteq 1 .. n
  BY <1>1, <1>2 DEF Views!ReadyWorkers, Views!WorkerRows, Views!Visible
<1>5. \A i \in 1 .. n : /\ Views!RunningOf(w, i) \in Nat
                        /\ Views!SlotsOf(w, i) \in Nat
                        /\ Views!SlotsOf(w, i) = 0 <=> (i \in Views!ReadyWorkers(w) => workers[i].slots <= 0)
  <2> SUFFICES ASSUME NEW i \in 1 .. n
               PROVE  /\ Views!RunningOf(w, i) \in Nat
                      /\ Views!SlotsOf(w, i) \in Nat
                      /\ Views!SlotsOf(w, i) = 0 <=> (i \in Views!ReadyWorkers(w) => workers[i].slots <= 0)
    OBVIOUS
  <2>1. Views!RunningOf(w, i) \in Nat
    <3>1. PICK R : R = {s \in Views!Running(w) : w.shards[s].server = i}
      OBVIOUS
    <3>2. R \subseteq DOMAIN w.shards
      BY <3>1 DEF Views!Running
    <3>3. IsFiniteSet(R)
      BY <3>2, FS_Subset DEF WorldOK
    <3>4. Cardinality(R) \in Nat
      BY <3>3, FS_CardinalityType
    <3> QED
      BY <3>1, <3>4, ViewsCount DEF Views!RunningOf
  <2>2. PICK slots \in Int : slots = workers[i].slots
    BY <1>3
  <2>3. Views!SlotsOf(w, i) = IF i \in Views!ReadyWorkers(w) THEN (IF slots > 0 THEN slots ELSE 0) ELSE 0
    BY <1>1, <2>2 DEF Views!SlotsOf, Views!Positive
  <2> QED
    BY <2>1, <2>2, <2>3
<1>6. PICK ready, free : /\ ready = [i \in DOMAIN w.workers |-> Views!SlotsOf(w, i)]
                         /\ free = [i \in DOMAIN w.workers |-> Views!Positive(Views!SlotsOf(w, i) - Views!RunningOf(w, i))]
  OBVIOUS
<1>7. /\ ready = [i \in 1 .. n |-> Views!SlotsOf(w, i)] /\ Len(ready) = n
      /\ \A i \in 1 .. n : ready[i] = Views!SlotsOf(w, i) /\ ready[i] \in Nat
  <2>1. ready = [i \in 1 .. n |-> Views!SlotsOf(w, i)]
    BY <1>1, <1>2, <1>6
  <2>2. ready \in [1 .. n -> Nat]
    BY <1>5, <2>1
  <2>3. ready \in Seq(Nat) /\ Len(ready) = n
    BY <1>2, <2>2
  <2> QED
    BY <1>5, <2>1, <2>3
<1>8. /\ Len(free) = n
      /\ \A i \in 1 .. n : free[i] \in Nat /\ (ready[i] = 0 => free[i] = 0)
  <2>1. free = [i \in 1 .. n |-> Views!Positive(Views!SlotsOf(w, i) - Views!RunningOf(w, i))]
    BY <1>1, <1>2, <1>6
  <2>2. \A a, b \in Nat : Views!Positive(a - b) \in Nat /\ (a = 0 => Views!Positive(a - b) = 0)
    BY DEF Views!Positive
  <2>3. \A i \in 1 .. n : free[i] \in Nat /\ (ready[i] = 0 => free[i] = 0)
    BY <1>5, <1>7, <2>1, <2>2
  <2>4. free \in [1 .. n -> Nat]
    BY <2>1, <2>3
  <2>5. Len(free) = n
    BY <1>2, <2>4
  <2> QED
    BY <2>3, <2>5
<1>9. /\ Views!SumOf(ready) \in Nat
      /\ Views!SumOf(ready) = 0 <=> \A i \in 1 .. n : ready[i] = 0
  BY <1>2, <1>7, SumIs
<1>10. /\ Views!SumOf(free) \in Nat
       /\ Views!SumOf(free) = 0 <=> \A i \in 1 .. n : free[i] = 0
  BY <1>2, <1>8, SumIs
<1>11. Views!ReadySlots(w) = Views!SumOf(ready) /\ Views!FreeSlots(w) = Views!SumOf(free)
  BY <1>6 DEF Views!ReadySlots, Views!FreeSlots
<1>12. (\A i \in 1 .. n : ready[i] = 0) <=> \A i \in Views!ReadyWorkers(w) : w.workers[i].slots <= 0
  BY <1>1, <1>4, <1>5, <1>7
<1> QED
  BY <1>8, <1>9, <1>10, <1>11, <1>12

\* The rows of the workers, the shards that run and those that wait are finitely many.
LEMMA RowsAreFinite ==
  ASSUME NEW w, WorldOK(w)
  PROVE  /\ \A X : X \subseteq DOMAIN w.workers =>
              /\ IsFiniteSet(X) /\ Views!Cardinality(X) \in Nat
              /\ Views!Cardinality(X) = 0 <=> X = {}
         /\ \A X : X \subseteq DOMAIN w.shards =>
              IsFiniteSet(X) /\ Views!Cardinality(X) = Cardinality(X) /\ Cardinality(X) \in Nat
<1>1. IsFiniteSet(DOMAIN w.workers)
  <2>1. PICK S, workers : w.workers = workers /\ workers \in Seq(S)
    BY DEF WorldOK
  <2>2. PICK n \in Nat : DOMAIN workers = 1 .. n
    BY <2>1
  <2>3. IsFiniteSet(1 .. n)
    BY <2>2, FS_Interval
  <2> QED
    BY <2>1, <2>2, <2>3
<1>2. \A X : X \subseteq DOMAIN w.workers => IsFiniteSet(X)
  BY <1>1, FS_Subset
<1>3. \A X : X \subseteq DOMAIN w.shards => IsFiniteSet(X)
  BY FS_Subset DEF WorldOK
<1>4. \A X : IsFiniteSet(X) => Cardinality(X) \in Nat /\ (Cardinality(X) = 0 <=> X = {})
  BY FS_CardinalityType, FS_EmptySet
<1>5. \A X : Views!Cardinality(X) = Cardinality(X)
  BY ViewsCount
<1> QED
  BY <1>2, <1>3, <1>4, <1>5

\* A slot is offered only on a worker that counts as ready.
LEMMA WorkersDoAgree ==
  ASSUME NEW w, WorldOK(w) PROVE Views!WorkersAgree(w)
<1>1. PICK capacity : capacity = Views!CapacityDiagnostics(w)
  OBVIOUS
<1>2. capacity.available => capacity.readySlots = Views!ReadySlots(w)
  BY <1>1 DEF Views!CapacityDiagnostics, Views!Unavailable
<1>3. PICK R : R = {i \in Views!Visible(w) : Views!CountsAsReady(w.workers[i])}
  OBVIOUS
<1>4. Views!WorkerDiagnostics(w).ready = Views!Cardinality(R)
  BY <1>3 DEF Views!WorkerDiagnostics
<1>5. R \subseteq DOMAIN w.workers
  BY <1>3 DEF Views!Visible
<1>6. Views!Cardinality(R) \in Nat /\ (Views!Cardinality(R) = 0 <=> R = {})
  BY <1>5, RowsAreFinite
<1>7. Views!ReadyWorkers(w) \subseteq R
  BY <1>3 DEF Views!ReadyWorkers, Views!WorkerRows, Views!CountsAsReady, Views!IsServerStale,
              Views!HeartbeatIsStale
<1>8. /\ Views!ReadySlots(w) \in Nat
      /\ Views!ReadySlots(w) = 0 <=> \A i \in Views!ReadyWorkers(w) : w.workers[i].slots <= 0
  BY SlotsAre
<1>9. Views!ReadySlots(w) > 0 => Views!WorkerDiagnostics(w).ready > 0
  <2>1. Views!ReadySlots(w) > 0 => R # {}
    BY <1>7, <1>8
  <2> QED
    BY <1>4, <1>6, <2>1
<1>10. ASSUME Views!ReadySlots(w) = 0, NEW i \in Views!Visible(w), Views!CountsAsReady(w.workers[i])
       PROVE  LET row == w.workers[i]
              IN  \/ row.pool \/ row.slots <= 0 \/ row.pressure = "exact"
                  \/ row.beat = "never" \/ row.path = "loose"
  <2> DEFINE row == w.workers[i]
  <2>1. SUFFICES ASSUME ~ row.pool, row.pressure # "exact", row.beat # "never", row.path # "loose"
                 PROVE  row.slots <= 0
    OBVIOUS
  <2>2. i \in Views!ReadyWorkers(w)
    BY <1>10, <2>1 DEF Views!ReadyWorkers, Views!WorkerRows, Views!CountsAsReady,
                       Views!IsServerStale, Views!HeartbeatIsStale
  <2> QED
    BY <1>8, <1>10, <2>2
<1> QED
  BY <1>1, <1>2, <1>9, <1>10 DEF Views!WorkersAgree

\* The diagnostics and the metrics give the same numbers.
LEMMA NumbersDoAgree ==
  ASSUME NEW w, WorldOK(w) PROVE Views!NumbersAgree(w)
<1>1. PICK capacity, audit, metrics :
        /\ capacity = Views!CapacityDiagnostics(w) /\ audit = Views!AuditDiagnostics(w)
        /\ metrics = Views!MetricsSnapshot(w)
  OBVIOUS
<1>2. capacity.available => capacity.queue = Views!QueueDepth(w)
  BY <1>1 DEF Views!CapacityDiagnostics, Views!Unavailable
<1> DEFINE May(s) == w.jobs[w.shards[s].job].status \in {"queued", "running"}
           Of(status) == {s \in DOMAIN w.shards : w.shards[s].status = status /\ May(s)}
<1>3. PICK a, b, c, d : /\ a = Of("pending") /\ b = Of("retrying") /\ c = Of("stale")
                        /\ d = {s \in DOMAIN w.shards : /\ w.shards[s].status \in {"pending", "retrying", "stale"}
                                                       /\ May(s)}
  OBVIOUS
<1>4. Views!QueueDepth(w) = Views!Cardinality(d)
  BY <1>3 DEF Views!QueueDepth, Views!Claimable, Views!Executable
<1>5. /\ metrics.queue["pending"] = Views!Cardinality(a)
      /\ metrics.queue["retrying"] = Views!Cardinality(b)
      /\ metrics.queue["stale"] = Views!Cardinality(c)
  <2>1. metrics.queue = [status \in {"pending", "retrying", "stale"} |-> Views!Cardinality(Of(status))]
    BY <1>1 DEF Views!MetricsSnapshot, Views!Claimable
  <2> HIDE DEF Of
  <2> QED
    BY <1>3, <2>1
<1>6. /\ d = (a \cup b) \cup c /\ a \cap b = {} /\ (a \cup b) \cap c = {}
      /\ a \subseteq DOMAIN w.shards /\ b \subseteq DOMAIN w.shards /\ c \subseteq DOMAIN w.shards
      /\ d \subseteq DOMAIN w.shards /\ a \cup b \subseteq DOMAIN w.shards
  <2> HIDE DEF May
  <2> QED
    BY <1>3
<1>7. /\ IsFiniteSet(a) /\ IsFiniteSet(b) /\ IsFiniteSet(c) /\ IsFiniteSet(a \cup b)
      /\ Cardinality(a) \in Nat /\ Cardinality(b) \in Nat /\ Cardinality(c) \in Nat
  BY <1>6, RowsAreFinite
<1>8. Cardinality(a \cup b) = Cardinality(a) + Cardinality(b)
  <2>1. Cardinality(a \cup b) = Cardinality(a) + Cardinality(b) - Cardinality(a \cap b)
    BY <1>7, FS_Union
  <2>2. Cardinality(a \cap b) = 0
    BY <1>6, FS_EmptySet
  <2> QED
    BY <1>7, <2>1, <2>2
<1>9. Cardinality(d) = Cardinality(a \cup b) + Cardinality(c)
  <2>1. Cardinality((a \cup b) \cup c) = Cardinality(a \cup b) + Cardinality(c) - Cardinality((a \cup b) \cap c)
    BY <1>7, FS_Union
  <2>2. Cardinality((a \cup b) \cap c) = 0
    BY <1>6, FS_EmptySet
  <2> QED
    BY <1>6, <1>7, <1>8, <2>1, <2>2
<1>10. capacity.available =>
         capacity.queue = metrics.queue["pending"] + metrics.queue["retrying"] + metrics.queue["stale"]
  BY <1>2, <1>4, <1>5, <1>8, <1>9, ViewsCount
<1>11. ASSUME audit.available, w.limits.evidence = w.limits.trace
       PROVE  /\ audit.stageFailures = metrics.failed /\ audit.fallbacks = metrics.fallbacks
              /\ audit.truncated \/ ~ metrics.truncated
  <2>1. /\ audit.stageFailures = Views!FailedStages(Views!First(w.limits.evidence, w.pages))
        /\ audit.fallbacks = Views!Fallbacks(Views!First(w.limits.evidence, w.pages))
        /\ audit.truncated = (~ Views!EventsKept(w) \/ Len(w.pages) > w.limits.evidence)
    BY <1>1, <1>11 DEF Views!AuditDiagnostics, Views!Unavailable
  <2>2. /\ metrics.failed = Views!FailedStages(Views!First(w.limits.trace, w.pages))
        /\ metrics.fallbacks = Views!Fallbacks(Views!First(w.limits.trace, w.pages))
        /\ metrics.truncated = (Len(w.pages) > w.limits.trace)
    BY <1>1 DEF Views!MetricsSnapshot
  <2> QED
    BY <1>11, <2>1, <2>2
<1> QED
  BY <1>1, <1>10, <1>11 DEF Views!NumbersAgree

\* A control plane that is not ready names an issue, and one that names none has no
\* alert about the database.
LEMMA ReadinessDoesAgree ==
  ASSUME NEW w, WorldOK(w) PROVE Views!ReadinessIsExplained(w)
<1>1. PICK issues : issues = Views!SystemIssues(w)
  OBVIOUS
<1>2. (Views!MigrationDrift(w.db) > 0) <=> Views!DatabaseIssues(w.db) # {}
  <2>1. PICK n : n = w.db.mismatches + w.db.unsummed + w.db.missing + w.db.unexpected
    OBVIOUS
  <2>2. /\ n \in Nat
        /\ n = 0 => ~ (w.db.mismatches > 0) /\ ~ (w.db.unsummed > 0)
    <3>1. PICK a, b, c, d : /\ a = w.db.mismatches /\ b = w.db.unsummed
                            /\ c = w.db.missing /\ d = w.db.unexpected
      OBVIOUS
    <3>2. a \in Nat /\ b \in Nat /\ c \in Nat /\ d \in Nat
      BY <3>1 DEF WorldOK
    <3>3. n = a + b + c + d
      BY <2>1, <3>1
    <3>4. n \in Nat /\ (n = 0 => a = 0 /\ b = 0)
      BY <3>2, <3>3
    <3> QED
      BY <3>1, <3>4
  <2>3. Views!IsCurrent(w.db) <=> w.db.table /\ w.db.column /\ n = 0
    BY <2>1 DEF Views!IsCurrent
  <2>4. Views!DatabaseIssues(w.db) # {}
          <=> \/ ~ w.db.table \/ w.db.mismatches > 0 \/ w.db.unsummed > 0 \/ ~ Views!IsCurrent(w.db)
    BY DEF Views!DatabaseIssues
  <2>5. Views!MigrationDrift(w.db) = IF n = 0 /\ ~ (w.db.table /\ Views!IsCurrent(w.db)) THEN 1 ELSE n
    BY <2>1 DEF Views!MigrationDrift
  <2>6. Views!MigrationDrift(w.db) > 0 <=> n # 0 \/ ~ w.db.table \/ ~ Views!IsCurrent(w.db)
    BY <2>2, <2>5
  <2> QED
    BY <2>2, <2>3, <2>4, <2>6
<1>3. ASSUME ~ Views!SystemOk(w)
      PROVE  issues \ {Views!Issue("warning", "api_auth_disabled")} # {}
  <2>1. \/ \E issue \in issues : issue.severity = "error"
        \/ ~ w.db.postgres
        \/ ~ Views!IsCurrent(w.db)
    BY <1>1, <1>3 DEF Views!SystemOk
  <2>2. CASE \E issue \in issues : issue.severity = "error"
    <3>1. Views!Issue("warning", "api_auth_disabled").severity # "error"
      BY DEF Views!Issue
    <3> QED
      BY <2>2, <3>1
  <2>3. CASE ~ w.db.postgres
    <3>1. Views!Issue("warning", "database_not_postgres") \in issues
      BY <1>1, <2>3 DEF Views!SystemIssues
    <3>2. Views!Issue("warning", "database_not_postgres") # Views!Issue("warning", "api_auth_disabled")
      BY DEF Views!Issue
    <3> QED
      BY <3>1, <3>2
  <2>4. CASE ~ Views!IsCurrent(w.db)
    <3>1. PICK issue : issue \in Views!DatabaseIssues(w.db)
      BY <2>4 DEF Views!DatabaseIssues
    <3>2. issue # Views!Issue("warning", "api_auth_disabled")
      BY <3>1 DEF Views!DatabaseIssues, Views!Issue
    <3>3. issue \in issues
      BY <1>1, <3>1 DEF Views!SystemIssues
    <3> QED
      BY <3>2, <3>3
  <2> QED
    BY <2>1, <2>2, <2>3, <2>4
<1> QED
  BY <1>1, <1>2, <1>3 DEF Views!ReadinessIsExplained

\* The advice that the capacity section gives too, and the alerts that ask for it.
OwnAdvice == {"add_worker_capacity", "relieve_worker_resource_pressure", "reclaim_stale_leases",
              "collect_more_throughput_samples"}
OwnAlerts == {"worker_capacity_exhausted", "worker_resource_pressure", "stale_shard_lease",
              "throughput_samples_insufficient"}

\* Which alerts ask for what the capacity section recommends.
LEMMA AdviceIs ==
  LET advice == Views!RecommendationOf
  IN  /\ OwnAlerts \subseteq DOMAIN advice
      /\ \A code \in DOMAIN advice : advice[code] \in OwnAdvice => code \in OwnAlerts
      /\ advice["worker_capacity_exhausted"] = "add_worker_capacity"
      /\ advice["worker_resource_pressure"] = "relieve_worker_resource_pressure"
      /\ advice["stale_shard_lease"] = "reclaim_stale_leases"
      /\ advice["throughput_samples_insufficient"] = "collect_more_throughput_samples"
BY DEF Views!RecommendationOf, OwnAdvice, OwnAlerts

\* What these alerts count when the capacity section could be read.
LEMMA AlertsAre ==
  ASSUME NEW w, NEW capacity, NEW audit, NEW alerts,
         alerts = Views!AlertsDiagnostics(w, capacity, audit), capacity.available,
         Views!Bounded(w, Views!Cardinality(Views!WorkerRows(w)))
  PROVE  /\ DOMAIN alerts = DOMAIN Views!RecommendationOf
         /\ alerts["worker_resource_pressure"] = Views!Cardinality(Views!Constrained(w))
         /\ alerts["worker_capacity_exhausted"] = IF capacity.freeSlots = 0 THEN capacity.queue ELSE 0
         /\ alerts["stale_shard_lease"] = capacity.staleLeases
         /\ alerts["throughput_samples_insufficient"]
              = IF capacity.queue = 0 \/ capacity.confidence # "none" THEN 0
                ELSE IF capacity.sample < 9 THEN 10 - capacity.sample ELSE 1
<1>1. PICK drift, workers, withCapacity :
        /\ drift = [Views!Quiet EXCEPT !.migration_drift = Views!MigrationDrift(w.db)]
        /\ workers = Views!With(drift, TRUE, Views!WorkerAlerts(w))
        /\ withCapacity = Views!With(workers, capacity.available, Views!CapacityAlerts(capacity))
  OBVIOUS
<1>2. alerts = Views!With(withCapacity, audit.available, Views!AuditAlerts(audit))
  BY <1>1 DEF Views!AlertsDiagnostics
<1>3. DOMAIN drift = DOMAIN Views!RecommendationOf
  BY <1>1 DEF Views!Quiet
<1>4. OwnAlerts \subseteq DOMAIN drift
  BY <1>3, AdviceIs
<1>5. /\ DOMAIN workers = DOMAIN drift /\ DOMAIN withCapacity = DOMAIN drift
      /\ DOMAIN alerts = DOMAIN drift
  BY <1>1, <1>2 DEF Views!With
<1>6. workers["worker_resource_pressure"] = Views!Cardinality(Views!Constrained(w))
  <2>1. PICK more : more = Views!WorkerAlerts(w)
    OBVIOUS
  <2>2. /\ "worker_resource_pressure" \in DOMAIN more
        /\ more["worker_resource_pressure"] = Views!Cardinality(Views!Constrained(w))
    BY <2>1 DEF Views!WorkerAlerts
  <2>3. "worker_resource_pressure" \in DOMAIN drift
    BY <1>4 DEF OwnAlerts
  <2> QED
    BY <1>1, <2>1, <2>2, <2>3 DEF Views!With
<1>7. PICK c : c = Views!CapacityAlerts(capacity)
  OBVIOUS
<1>8. /\ DOMAIN c = {"worker_capacity_exhausted", "stale_shard_lease", "throughput_samples_insufficient"}
      /\ c["worker_capacity_exhausted"] = IF capacity.freeSlots = 0 THEN capacity.queue ELSE 0
      /\ c["stale_shard_lease"] = capacity.staleLeases
      /\ c["throughput_samples_insufficient"]
           = IF capacity.queue = 0 \/ capacity.confidence # "none" THEN 0
             ELSE IF capacity.sample < 9 THEN 10 - capacity.sample ELSE 1
  BY <1>7 DEF Views!CapacityAlerts
<1>9. \A code \in DOMAIN drift :
        withCapacity[code] = IF code \in DOMAIN c THEN c[code] ELSE workers[code]
  BY <1>1, <1>5, <1>7 DEF Views!With
<1>10. \A code \in OwnAlerts : alerts[code] = withCapacity[code]
  <2>1. PICK more : more = Views!AuditAlerts(audit)
    OBVIOUS
  <2>2. DOMAIN more \cap OwnAlerts = {}
    BY <2>1 DEF Views!AuditAlerts, OwnAlerts
  <2>3. \A code \in DOMAIN drift : code \notin DOMAIN more => alerts[code] = withCapacity[code]
    BY <1>2, <1>5, <2>1 DEF Views!With
  <2> QED
    BY <1>4, <2>2, <2>3
<1>11. \A code \in OwnAlerts : alerts[code] = IF code \in DOMAIN c THEN c[code] ELSE workers[code]
  BY <1>4, <1>9, <1>10
<1>12. /\ alerts["worker_capacity_exhausted"] = c["worker_capacity_exhausted"]
       /\ alerts["stale_shard_lease"] = c["stale_shard_lease"]
       /\ alerts["throughput_samples_insufficient"] = c["throughput_samples_insufficient"]
       /\ alerts["worker_resource_pressure"] = workers["worker_resource_pressure"]
  BY <1>8, <1>11 DEF OwnAlerts
<1> QED
  BY <1>3, <1>5, <1>6, <1>8, <1>12

\* The pages of the sample are counted.
LEMMA SampleIsCounted ==
  ASSUME NEW w, WorldOK(w) PROVE Views!SamplePages(w) \in Nat
<1>1. PICK S, pages : w.pages = pages /\ pages \in Seq(S)
  BY DEF WorldOK
<1>2. PICK limit \in Nat : limit = w.limits.evidence
  BY DEF WorldOK
<1>3. PICK m : m = IF Len(pages) < limit THEN Len(pages) ELSE limit
  OBVIOUS
<1>4. m \in Nat
  BY <1>1, <1>2, <1>3
<1>5. DOMAIN Views!First(limit, pages) = 1 .. m
  <2>1. Views!First(limit, pages) = SubSeq(pages, 1, m)
    BY <1>3 DEF Views!First
  <2>2. DOMAIN SubSeq(pages, 1, m) = 1 .. m
    BY <1>1, <1>2, <1>3, <1>4
  <2> QED
    BY <2>1, <2>2
<1>6. PICK keys : keys = {pages[k].key : k \in 1 .. m}
  OBVIOUS
<1>7. IsFiniteSet(keys)
  <2>1. IsFiniteSet(1 .. m)
    BY <1>4, FS_Interval
  <2>2. PICK f : f = [k \in 1 .. m |-> pages[k].key]
    OBVIOUS
  <2>3. f \in Surjection(1 .. m, keys)
    BY <1>6, <2>2 DEF Surjection
  <2> QED
    BY <2>1, <2>3, FS_Surjection
<1>8. IsFiniteSet(keys \ {Views!NoKey})
  BY <1>7, FS_Subset
<1>9. Cardinality(keys \ {Views!NoKey}) \in Nat
  BY <1>8, FS_CardinalityType
<1>10. Views!SamplePages(w) = Views!Cardinality(keys \ {Views!NoKey})
  BY <1>1, <1>2, <1>5, <1>6 DEF Views!SamplePages
<1> QED
  BY <1>9, <1>10, ViewsCount

\* Alerts ask for what the capacity section recommends.
LEMMA AdviceDoesAgree ==
  ASSUME NEW w, WorldOK(w) PROVE Views!AdviceAgrees(w)
<1>1. PICK capacity, audit, alerts :
        /\ capacity = Views!CapacityDiagnostics(w) /\ audit = Views!AuditDiagnostics(w)
        /\ alerts = Views!AlertsDiagnostics(w, capacity, audit)
  OBVIOUS
<1>2. /\ Views!OperationalDiagnostics(w).capacity = capacity
      /\ Views!OperationalDiagnostics(w).alerts = alerts
  BY <1>1 DEF Views!OperationalDiagnostics
<1>3. PICK advice : advice = Views!RecommendationOf
  OBVIOUS
<1>4. PICK advised : advised = {advice[code] : code \in {c \in DOMAIN alerts : alerts[c] > 0}}
  OBVIOUS
<1>5. SUFFICES ASSUME capacity.available
               PROVE  /\ advised \cap OwnAdvice \subseteq capacity.recommendations
                      /\ capacity.queue > 0 => advised \cap OwnAdvice = capacity.recommendations
  BY <1>1, <1>2, <1>3, <1>4 DEF Views!AdviceAgrees, OwnAdvice
<1>6. /\ capacity.freeSlots = Views!FreeSlots(w) /\ capacity.queue = Views!QueueDepth(w)
      /\ capacity.staleLeases = Views!StaleLeases(w) /\ capacity.sample = Views!SamplePages(w)
      /\ capacity.confidence = Views!Confidence(w)
      /\ capacity.recommendations = Views!Recommendations(w)
      /\ Views!Bounded(w, Views!Cardinality(Views!WorkerRows(w)))
  BY <1>1, <1>5 DEF Views!CapacityDiagnostics, Views!Unavailable
<1>7. /\ DOMAIN alerts = DOMAIN advice
      /\ alerts["worker_resource_pressure"] = Views!Cardinality(Views!Constrained(w))
      /\ alerts["worker_capacity_exhausted"] = IF Views!FreeSlots(w) = 0 THEN Views!QueueDepth(w) ELSE 0
      /\ alerts["stale_shard_lease"] = Views!StaleLeases(w)
      /\ alerts["throughput_samples_insufficient"]
           = IF Views!QueueDepth(w) = 0 \/ Views!Confidence(w) # "none" THEN 0
             ELSE IF Views!SamplePages(w) < 9 THEN 10 - Views!SamplePages(w) ELSE 1
  BY <1>1, <1>3, <1>5, <1>6, AlertsAre
<1>8. PICK queue \in Nat : queue = Views!QueueDepth(w)
  <2>1. PICK R : R = {s \in DOMAIN w.shards : /\ w.shards[s].status \in Views!Claimable
                                              /\ w.jobs[w.shards[s].job].status \in Views!Executable}
    OBVIOUS
  <2>2. Views!Cardinality(R) \in Nat
    BY <2>1, RowsAreFinite
  <2> QED
    BY <2>1, <2>2 DEF Views!QueueDepth
<1>9. Views!Constrained(w) \subseteq DOMAIN w.workers
  BY DEF Views!Constrained, Views!WorkerRows, Views!Visible
<1>10. alerts["worker_resource_pressure"] > 0 <=> Views!Constrained(w) # {}
  <2>1. PICK n \in Nat : n = Views!Cardinality(Views!Constrained(w)) /\ (n = 0 <=> Views!Constrained(w) = {})
    BY <1>9, RowsAreFinite
  <2> QED
    BY <1>7, <2>1
<1>11. PICK free \in Nat, ready \in Nat : /\ free = Views!FreeSlots(w) /\ ready = Views!ReadySlots(w)
                                          /\ ready = 0 => free = 0
  BY SlotsAre
<1>12. alerts["worker_capacity_exhausted"] > 0 <=> queue > 0 /\ free = 0
  BY <1>7, <1>8, <1>11
<1>13. alerts["throughput_samples_insufficient"] > 0 <=> queue > 0 /\ Views!Confidence(w) = "none"
  <2>1. PICK n \in Nat : n = Views!SamplePages(w)
    BY SampleIsCounted
  <2>2. PICK k : k = IF n < 9 THEN 10 - n ELSE 1
    OBVIOUS
  <2>3. k > 0 /\ k = IF Views!SamplePages(w) < 9 THEN 10 - Views!SamplePages(w) ELSE 1
    BY <2>1, <2>2
  <2> QED
    BY <1>7, <1>8, <2>3
<1>14. /\ OwnAlerts \subseteq DOMAIN advice
       /\ \A code \in DOMAIN advice : advice[code] \in OwnAdvice => code \in OwnAlerts
       /\ advice["worker_capacity_exhausted"] = "add_worker_capacity"
       /\ advice["worker_resource_pressure"] = "relieve_worker_resource_pressure"
       /\ advice["stale_shard_lease"] = "reclaim_stale_leases"
       /\ advice["throughput_samples_insufficient"] = "collect_more_throughput_samples"
  BY <1>3, AdviceIs
<1>15. \A a : a \in advised \cap OwnAdvice
              <=> a \in OwnAdvice /\ \E code \in OwnAlerts : alerts[code] > 0 /\ a = advice[code]
  BY <1>4, <1>7, <1>14
<1>16. \A a : a \in advised \cap OwnAdvice
              <=> \/ a = "add_worker_capacity" /\ queue > 0 /\ free = 0
                  \/ a = "relieve_worker_resource_pressure" /\ Views!Constrained(w) # {}
                  \/ a = "reclaim_stale_leases" /\ Views!StaleLeases(w) > 0
                  \/ a = "collect_more_throughput_samples" /\ queue > 0 /\ Views!Confidence(w) = "none"
  <2>1. \A P : (\E code \in OwnAlerts : code = P) <=> P \in OwnAlerts
    OBVIOUS
  <2> QED
    BY <1>7, <1>10, <1>12, <1>13, <1>14, <1>15 DEF OwnAlerts, OwnAdvice
<1>17. /\ queue > 0 => Views!HasWorkload(w)
       /\ \A a : a \in capacity.recommendations
              <=> \/ a = "add_worker_capacity" /\ Views!HasWorkload(w) /\ (ready = 0 \/ (queue > 0 /\ free = 0))
                  \/ a = "relieve_worker_resource_pressure" /\ Views!Constrained(w) # {}
                  \/ a = "reclaim_stale_leases" /\ Views!StaleLeases(w) > 0
                  \/ a = "collect_more_throughput_samples" /\ Views!HasWorkload(w) /\ Views!Confidence(w) = "none"
  <2>1. queue > 0 => Views!HasWorkload(w)
    BY <1>8 DEF Views!HasWorkload
  <2>2. PICK a1, a2, a3, a4 :
          /\ a1 = Views!When(Views!HasWorkload(w) /\ (ready = 0 \/ (queue > 0 /\ free = 0)), "add_worker_capacity")
          /\ a2 = Views!When(Views!Constrained(w) # {}, "relieve_worker_resource_pressure")
          /\ a3 = Views!When(Views!StaleLeases(w) > 0, "reclaim_stale_leases")
          /\ a4 = Views!When(Views!HasWorkload(w) /\ Views!Confidence(w) = "none", "collect_more_throughput_samples")
    OBVIOUS
  <2>3. capacity.recommendations = a1 \cup a2 \cup a3 \cup a4
    BY <1>6, <1>8, <1>11, <2>2 DEF Views!Recommendations
  <2>4. \A a : a \in a1 <=> a = "add_worker_capacity" /\ Views!HasWorkload(w) /\ (ready = 0 \/ (queue > 0 /\ free = 0))
    BY <2>2 DEF Views!When
  <2>5. \A a : a \in a2 <=> a = "relieve_worker_resource_pressure" /\ Views!Constrained(w) # {}
    BY <2>2 DEF Views!When
  <2>6. \A a : a \in a3 <=> a = "reclaim_stale_leases" /\ Views!StaleLeases(w) > 0
    BY <2>2 DEF Views!When
  <2>7. \A a : a \in a4 <=> a = "collect_more_throughput_samples" /\ Views!HasWorkload(w) /\ Views!Confidence(w) = "none"
    BY <2>2 DEF Views!When
  <2> QED
    BY <2>1, <2>3, <2>4, <2>5, <2>6, <2>7
<1> QED
  BY <1>6, <1>8, <1>11, <1>16, <1>17

\* The workers, the numbers, the advice and the readiness of the diagnostics agree on
\* tables of any size.
THEOREM TablesAgree ==
  ASSUME NEW w, WorldOK(w) PROVE Views!DiagnosticsAgree(w)
BY WorkersDoAgree, NumbersDoAgree, AdviceDoesAgree, ReadinessDoesAgree DEF Views!DiagnosticsAgree

WorkersOK(workers) ==
  /\ \E S : workers \in Seq(S)
  /\ \A i \in DOMAIN workers : workers[i].slots \in Int
DatabaseOK(db) ==
  /\ db.mismatches \in Nat /\ db.unsummed \in Nat /\ db.missing \in Nat /\ db.unexpected \in Nat
PagesOK(pages) == \E S : pages \in Seq(S)

\* Rows of workers have slots.
LEMMA SlotsOfRows ==
  /\ Able.slots \in Int /\ PoolRow.slots \in Int
  /\ \A row \in Rows : row.slots \in Int
<1>1. /\ Able.slots = 1 /\ PoolRow.slots = 0
      /\ {"archived", "pool", "status", "beat", "path", "pressure", "slots", "events", "logs", "updates"}
           = DOMAIN Able
  BY DEF Able, PoolRow
<1>2. \A b, p, c : [Able EXCEPT !.beat = b, !.path = p, !.pressure = c].slots = 1
  BY <1>1
<1>3. /\ [Able EXCEPT !.archived = TRUE].slots = 1 /\ [Able EXCEPT !.status = "offline"].slots = 1
      /\ [Able EXCEPT !.slots = 0].slots = 0 /\ [Able EXCEPT !.slots = 2, !.events = 1].slots = 2
      /\ [Able EXCEPT !.slots = 2, !.status = "busy", !.updates = 1].slots = 2
  BY <1>1
<1>4. ASSUME NEW row \in Rows PROVE row.slots \in Int
  <2> DEFINE With(b, p, c) == [Able EXCEPT !.beat = b, !.path = p, !.pressure = c]
  <2>1. PICK a1, a2, a3, a4, a5 :
          /\ a1 = [Able EXCEPT !.archived = TRUE] /\ a2 = [Able EXCEPT !.status = "offline"]
          /\ a3 = [Able EXCEPT !.slots = 0] /\ a4 = [Able EXCEPT !.slots = 2, !.events = 1]
          /\ a5 = [Able EXCEPT !.slots = 2, !.status = "busy", !.updates = 1]
    OBVIOUS
  <2>2. row \in {With(b, p, c) : b \in {"fresh", "old", "never"}, p \in {"none", "exact", "loose"},
                                c \in {"no", "exact", "loose"}}
                 \cup {a1, a2, a3, a4, a5, PoolRow}
    BY <1>4, <2>1 DEF Rows
  <2>3. \A b, p, c : With(b, p, c).slots = 1
    BY <1>2
  <2> HIDE DEF With
  <2>4. (\E b, p, c : row = With(b, p, c)) \/ row \in {a1, a2, a3, a4, a5, PoolRow}
    BY <2>2
  <2>5. /\ a1.slots = 1 /\ a2.slots = 1 /\ a3.slots = 0 /\ a4.slots = 2 /\ a5.slots = 2
        /\ PoolRow.slots = 0
    BY <1>1, <1>3, <2>1
  <2> QED
    BY <2>3, <2>4, <2>5
<1> QED
  BY <1>1, <1>4

\* The workers of the instance.
LEMMA WorkersAreOK ==
  /\ \A workers \in Upto(2, Rows) : WorkersOK(workers)
  /\ WorkersOK(<<>>) /\ WorkersOK(<<PoolRow>>) /\ WorkersOK(<<Able>>)
<1>1. ASSUME NEW workers \in Upto(2, Rows) PROVE WorkersOK(workers)
  <2>1. workers \in Seq(Rows)
    BY UptoIsSeq
  <2>2. \A i \in DOMAIN workers : workers[i] \in Rows
    BY <2>1
  <2> QED
    BY <2>1, <2>2, SlotsOfRows DEF WorkersOK
<1>2. ASSUME NEW row, row.slots \in Int PROVE WorkersOK(<<row>>)
  <2>1. PICK workers : workers = <<row>>
    OBVIOUS
  <2>2. workers \in Seq({row}) /\ \A i \in DOMAIN workers : workers[i] = row
    BY <2>1
  <2> QED
    BY <1>2, <2>1, <2>2 DEF WorkersOK
<1>3. WorkersOK(<<>>)
  <2>1. <<>> \in Seq({})
    OBVIOUS
  <2>2. \A i \in DOMAIN <<>> : FALSE
    OBVIOUS
  <2> QED
    BY <2>1, <2>2 DEF WorkersOK
<1> QED
  BY <1>1, <1>2, <1>3, SlotsOfRows

\* The pages of the instance.
LEMMA PagesAreOK ==
  PagesOK(Plain(10)) /\ \A pages \in PageEvents : PagesOK(pages)
<1>1. ASSUME NEW n \in Nat, NEW e
      PROVE  \E S : Plain(n) \in Seq(S) /\ Plain(n) \o <<e>> \in Seq(S)
  <2>1. PICK plain, S : /\ plain = Plain(n)
                        /\ S = {EventOf(ToString(k), <<"success">>, FALSE) : k \in 1 .. n} \cup {e}
    OBVIOUS
  <2>2. plain \in [1 .. n -> S]
    BY <2>1 DEF Plain
  <2>3. plain \in Seq(S)
    BY <1>1, <2>2
  <2>4. e \in S
    BY <2>1
  <2>5. <<e>> \in Seq(S)
    BY <2>4
  <2>6. plain \o <<e>> \in Seq(S)
    BY <2>3, <2>5
  <2> QED
    BY <2>1, <2>3, <2>6
<1>2. \A n \in Nat : PagesOK(Plain(n)) /\ \A e : PagesOK(Plain(n) \o <<e>>)
  BY <1>1 DEF PagesOK
<1>3. PagesOK(<<>>)
  BY DEF PagesOK
<1>4. 9 \in Nat /\ 10 \in Nat
  OBVIOUS
<1>5. PICK a, b : /\ a = EventOf("9", <<"failed", "failed">>, TRUE)
                  /\ b = EventOf(Views!NoKey, <<"failed">>, FALSE)
  OBVIOUS
<1>6. PageEvents = {<<>>, Plain(9), Plain(10), Plain(9) \o <<a>>, Plain(10) \o <<b>>}
  BY <1>5 DEF PageEvents
<1>7. /\ PagesOK(Plain(9)) /\ PagesOK(Plain(10)) /\ PagesOK(Plain(9) \o <<a>>)
      /\ PagesOK(Plain(10) \o <<b>>)
  BY <1>2, <1>4, Zenon
<1> QED
  BY <1>3, <1>6, <1>7, Zenon

\* The tables of the instance are tables.
LEMMA TablesAreOK ==
  ASSUME NEW w \in AllTables PROVE WorldOK(w)
<1>1. /\ Tables.workers = <<Able>> /\ Tables.pages = Plain(10) /\ Tables.limits = Evidence(20)
      /\ Tables.db = Migrated /\ Tables.shards = <<ShardOf(1, "pending", 0, "none")>>
      /\ DOMAIN Tables = {"workers", "shards", "jobs", "pages", "limits", "db", "auth", "manifests",
                          "artifacts", "strict", "requirePostgres", "requireCurrent"}
  BY DEF Tables
<1>2. WorkersOK(<<Able>>) /\ PagesOK(Plain(10))
  BY WorkersAreOK, PagesAreOK
<1>3. \A n \in Nat : Evidence(n).evidence \in Nat /\ \A d : [Evidence(n) EXCEPT !.detail = d].evidence \in Nat
  BY DEF Evidence
<1>4. DatabaseOK(Migrated)
  BY DEF DatabaseOK, Migrated
<1>5. /\ IsFiniteSet(DOMAIN <<>>)
      /\ \A row : IsFiniteSet(DOMAIN <<row>>)
      /\ \A rows \in Upto(2, ShardRows) : IsFiniteSet(DOMAIN rows)
  <2>1. \A n \in Nat : IsFiniteSet(1 .. n)
    BY FS_Interval
  <2>2. DOMAIN <<>> = 1 .. 0 /\ \A row : DOMAIN <<row>> = 1 .. 1
    OBVIOUS
  <2>3. \A rows \in Upto(2, ShardRows) : \E n \in Nat : DOMAIN rows = 1 .. n
    BY DEF Upto
  <2>4. 0 \in Nat /\ 1 \in Nat
    OBVIOUS
  <2> QED
    BY <2>1, <2>2, <2>3, <2>4
<1>6. WorldOK(w) <=> /\ WorkersOK(w.workers) /\ PagesOK(w.pages) /\ DatabaseOK(w.db)
                     /\ w.limits.evidence \in Nat /\ IsFiniteSet(DOMAIN w.shards)
  BY DEF WorldOK, WorkersOK, PagesOK, DatabaseOK
<1> DEFINE WorkerTable(ws, ss) == [Tables EXCEPT !.workers = ws, !.shards = ss]
           JobTable(a, b, ss) == [Tables EXCEPT !.jobs = <<a, b>>, !.shards = ss]
           PageTable(a, b, ps, n, d) ==
             [Tables EXCEPT !.jobs = <<a, b>>, !.pages = ps, !.limits = [Evidence(n) EXCEPT !.detail = d]]
           DatabaseTable(s, p, ws, d) ==
             [Tables EXCEPT !.db = d, !.strict = s, !.requirePostgres = p, !.workers = ws]
           ThreeWorkers == {<<>>, <<PoolRow>>, <<Able>>}
<1>7. /\ WorkerTables = {WorkerTable(ws, ss) : ws \in Upto(2, Rows), ss \in FewShards}
       /\ JobTables = {JobTable(a, b, ss) : a, b \in JobRows, ss \in Upto(2, ShardRows)}
  BY DEF WorkerTables, JobTables
<1>8. PageTables = {PageTable(a, b, ps, n, d) :
                       a, b \in JobRows, ps \in PageEvents, n \in {1, 10, 20}, d \in {0, 15}}
  BY DEF PageTables
<1>9. DatabaseTables = {DatabaseTable(s, p, ws, d) :
                           s, p \in BOOLEAN, ws \in ThreeWorkers, d \in Databases}
  BY DEF DatabaseTables
<1> HIDE DEF WorkerTable, JobTable, PageTable, DatabaseTable, ThreeWorkers
<1>10. CASE w \in WorkerTables
  <2>1. /\ w.pages = Tables.pages /\ w.limits = Tables.limits /\ w.db = Tables.db
        /\ w.workers \in Upto(2, Rows)
        /\ w.shards \in FewShards
    <3>1. PICK ws \in Upto(2, Rows), ss \in FewShards : w = WorkerTable(ws, ss)
      BY <1>10, <1>7
    <3> QED
      BY <1>1, <3>1 DEF WorkerTable
  <2> QED
    BY <1>1, <1>2, <1>3, <1>4, <1>5, <1>6, <2>1, WorkersAreOK DEF FewShards
<1>11. CASE w \in JobTables
  <2>1. /\ w.pages = Tables.pages /\ w.limits = Tables.limits /\ w.db = Tables.db
        /\ w.workers = Tables.workers /\ w.shards \in Upto(2, ShardRows)
    <3>1. PICK a \in JobRows, b \in JobRows, ss \in Upto(2, ShardRows) : w = JobTable(a, b, ss)
      BY <1>11, <1>7
    <3> QED
      BY <1>1, <3>1 DEF JobTable
  <2> QED
    BY <1>1, <1>2, <1>3, <1>4, <1>5, <1>6, <2>1
<1>12. CASE w \in PageTables
  <2>1. PICK a \in JobRows, b \in JobRows, ps \in PageEvents, n \in {1, 10, 20}, d \in {0, 15} :
             w = PageTable(a, b, ps, n, d)
    BY <1>12, <1>8
  <2>2. PICK limits : limits = [Evidence(n) EXCEPT !.detail = d]
    OBVIOUS
  <2>3. limits.evidence \in Nat
    <3>1. n \in Nat
      OBVIOUS
    <3> QED
      BY <1>3, <2>2, <3>1
  <2>4. /\ w.pages = ps /\ w.db = Tables.db /\ w.shards = Tables.shards
        /\ w.workers = Tables.workers /\ w.limits = limits
    BY <1>1, <2>1, <2>2 DEF PageTable
  <2> QED
    BY <1>1, <1>2, <1>4, <1>5, <1>6, <2>1, <2>3, <2>4, PagesAreOK
<1>13. CASE w \in DatabaseTables
  <2>1. /\ w.pages = Tables.pages /\ w.limits = Tables.limits /\ w.shards = Tables.shards
        /\ w.workers \in {<<>>, <<PoolRow>>, <<Able>>} /\ w.db \in Databases
    <3>1. PICK s \in BOOLEAN, p \in BOOLEAN, ws \in ThreeWorkers, d \in Databases :
                 w = DatabaseTable(s, p, ws, d)
      BY <1>13, <1>9
    <3> QED
      BY <1>1, <3>1 DEF DatabaseTable, ThreeWorkers
  <2>2. DatabaseOK(w.db)
    BY <2>1 DEF DatabaseOK, Databases
  <2> QED
    BY <1>1, <1>2, <1>3, <1>5, <1>6, <2>1, <2>2, WorkersAreOK
<1> QED
  BY <1>10, <1>11, <1>12, <1>13 DEF AllTables

-----------------------------------------------------------------------------
(* The promises in every run of MCDecisions.                               *)

\* The inductive invariant: what each topic keeps of its subject, and the
\* downloads, which the other topics leave alone.
DecisionInv ==
  /\ DownloadInv
  /\ topic = "manifest" => subject \in Manifests
  /\ topic = "request" => subject \in Worlds
  /\ topic = "tables" => subject \in AllTables
  /\ topic = "page" => PageInv(subject)
  /\ topic = "engine" => EngineInv(subject)

\* It holds at first.
LEMMA DecisionStarts == DecisionInit => DecisionInv
  <1> SUFFICES ASSUME DecisionInit  PROVE DecisionInv
    OBVIOUS
  <1>1. DownloadInv
    BY DownloadStarts DEF DecisionInit
  <1>2. /\ topic = "manifest" => subject \in Manifests
        /\ topic = "request" => subject \in Worlds
        /\ topic = "tables" => subject \in AllTables
    BY DEF DecisionInit
  <1>3. topic = "page" => Page!PageInit
    BY DEF DecisionInit
  <1>4. topic = "engine" => Engine!EngineInit
    BY DEF DecisionInit
  <1> QED
    BY <1>1, <1>2, <1>3, <1>4, PageStarts, EngineStarts DEF DecisionInv

\* Every step keeps it: a topic never changes and only its own machine moves.
LEMMA DecisionKeeps == DecisionInv /\ [DecisionNext]_allVars => DecisionInv'
  <1> SUFFICES ASSUME DecisionInv, [DecisionNext]_allVars  PROVE DecisionInv'
    OBVIOUS
  <1>1. topic' = topic
    BY DEF DecisionNext, RecordEvent, allVars, decisionVars
  <1>2. DownloadInv'
    <2>1. [DownloadNext]_downloadVars
      BY DEF DecisionNext, allVars
    <2> QED
      BY <2>1, DownloadStep DEF DecisionInv
  <1>3. topic \in {"manifest", "request", "tables", "download"} => subject' = subject
    BY DEF DecisionNext, RecordEvent, allVars, decisionVars
  <1>4. topic = "page" => Page!PageNext \/ subject' = subject
    BY DEF DecisionNext, RecordEvent, allVars, decisionVars
  <1>5. topic = "engine" => Engine!EngineNext \/ subject' = subject
    BY DEF DecisionNext, RecordEvent, allVars, decisionVars
  <1>6. topic = "page" => PageInv(subject')
    <2>1. CASE subject' = subject
      BY <2>1 DEF DecisionInv
    <2> QED
      BY <1>4, <2>1, PageStep DEF DecisionInv
  <1>7. topic = "engine" => EngineInv(subject')
    <2>1. CASE subject' = subject
      BY <2>1 DEF DecisionInv
    <2> QED
      BY <1>5, <2>1, EngineStep DEF DecisionInv
  <1>8. /\ topic = "manifest" => subject' \in Manifests
        /\ topic = "request" => subject' \in Worlds
        /\ topic = "tables" => subject' \in AllTables
    BY <1>3 DEF DecisionInv
  <1>9. DecisionInv' =
          /\ DownloadInv'
          /\ topic' = "manifest" => subject' \in Manifests
          /\ topic' = "request" => subject' \in Worlds
          /\ topic' = "tables" => subject' \in AllTables
          /\ topic' = "page" => PageInv(subject')
          /\ topic' = "engine" => EngineInv(subject')
    BY DEF DecisionInv
  <1> QED
    BY <1>1, <1>2, <1>6, <1>7, <1>8, <1>9

\* So it always holds.
LEMMA DecisionInvariant == DecisionSpec => []DecisionInv
  <1>1. DecisionSpec => DecisionInit /\ [][DecisionNext]_allVars
    BY PTL DEF DecisionSpec
  <1> QED
    BY <1>1, DecisionStarts, DecisionKeeps, PTL

\* The audit of the control plane and the audit by a worker come to one verdict on a
\* manifest that was not scanned in parts, a report is good exactly if the job page
\* counts no issue in it, and a manifest found good has every file in exactly one shard.
THEOREM AuditsAlwaysAgree == DecisionSpec => []AuditsAgree
  <1>1. DecisionInv => AuditsAgree
    BY ManifestsAreOK, ManifestsJudged, GoodIsCovered DEF DecisionInv, AuditsAgree
  <1> QED
    BY <1>1, DecisionInvariant, PTL

\* What an operator compares agrees (operations.py, queries.py, metrics.py): slots are on
\* workers that count as ready, the queue and the failures of stages are those of the
\* metrics, alerts ask for what the capacity section recommends, and a control plane
\* that is not ready names an issue.
THEOREM DiagnosticsAlwaysAgree == DecisionSpec => []DiagnosticsAgree
  <1>1. DecisionInv => DiagnosticsAgree
    BY TablesAreOK, TablesAgree DEF DecisionInv, DiagnosticsAgree
  <1> QED
    BY <1>1, DecisionInvariant, PTL

\* A job the preflight (workers/preflight.py) lets pass has a worker that may claim it
\* and whoever may claim it reads its input, writes its output and, where its
\* profile asks for certification, runs what was certified.
THEOREM AdmissionAlwaysKeepsItsWord == DecisionSpec => []AdmissionKeepsItsWord
  <1>1. DecisionInv => AdmissionKeepsItsWord
    <2> SUFFICES ASSUME topic = "request", subject \in Worlds
                 PROVE  /\ Admission!ClaimersAreCertified(subject)
                        /\ Admission!PreflightKeepsItsWord(subject)
      BY DEF DecisionInv, AdmissionKeepsItsWord
    <2> QED
      BY WorldsReadable, ClaimersCertified, PreflightKeepsWord
  <1> QED
    BY <1>1, DecisionInvariant, PTL

\* No page of the DotsOCR engine spends more calls than its limit and one race,
\* and the two-stage engines' counts of pending blocks, slots and layouts
\* (paddleocr_vl.py, native_openai.py) are what their tasks add up to and stay
\* within their limits, for all limits, pages, blocks and tries.
THEOREM BudgetsAlwaysHold == DecisionSpec => []CallBudgets
  <1>1. DecisionInv => CallBudgets
    BY PageKept, EngineCounts DEF DecisionInv, CallBudgets
  <1> QED
    BY <1>1, DecisionInvariant, PTL

\* The download pipeline (s3_downloader.py) accounts for every object it was asked
\* for, join() returns exactly when none is under way, the byte limit is overrun
\* by less than one file per worker, and a file asked for once is whole when it
\* is handed to the caller: for all keys, listings, workers and limits.
THEOREM DownloadsAlwaysKeepFiles == DecisionSpec => []DownloadKeepsFiles
  <1>1. DecisionInv => DownloadKeepsFiles
    BY DownloadsKept DEF DecisionInv, DownloadKeepsFiles
  <1> QED
    BY <1>1, DecisionInvariant, PTL

=============================================================================
