---------------------------- MODULE MCDecisions -----------------------------
(***************************************************************************)
(* One instance of every module of pure decisions, for TLC: each initial   *)
(* state is a topic with a subject, an input of that topic's functions.    *)
(* Some topics have steps: a "ledger" records events; a "build" is the     *)
(* state of ManifestBuild, a "page" that of PageAttempts, an "engine" that *)
(* of TwoStagePages, an "audit" that of IntegrityAudit; and the topic      *)
(* "download" is the machine of S3Download, whose variables the other      *)
(* topics leave alone.                                                     *)
(***************************************************************************)
EXTENDS S3Download

CONSTANTS PageLimits, PageLanes,  \* MaxRetries and Lanes of PageAttempts
          EnginePages, EngineBlocks, EngineTries, EngineCalls,
          LayoutRoom, HighMark, SlotLimits  \* the constants of TwoStagePages

\* What the command line and the limits of the configuration let through.
ASSUME PageAssumption == PageLimits \subseteq Nat \ {0} /\ PageLanes \subseteq Nat
ASSUME EngineAssumption ==
  /\ IsFiniteSet(EnginePages) /\ EngineBlocks \in Nat /\ EngineTries \in Nat \ {0}
  /\ EngineCalls \in Nat /\ LayoutRoom \in Nat /\ HighMark \in Nat
  /\ SlotLimits \subseteq Nat /\ \E m \in SlotLimits : \A n \in SlotLimits : n <= m

VARIABLES topic, subject
decisionVars == <<topic, subject>>

Integrity == INSTANCE IntegrityReport
Summary == INSTANCE JobSummary
Admission == INSTANCE JobAdmission

Upto(n, S) == UNION {[1 .. k -> S] : k \in 0 .. n}

-----------------------------------------------------------------------------
(* Manifests with their files: two paths, one of them with two sizes.      *)

Row(path, size) == [kind |-> "ok", path |-> path, size |-> size]
RowA == Row("a", 1)
RowB == Row("b", 2)
Damaged == [kind |-> "invalid_json", path |-> "a", size |-> 0]
File(rows) == [state |-> "present", rows |-> rows]
Gone == [state |-> "missing", rows |-> <<>>]
Locked == [state |-> "unreadable", rows |-> <<>>]

Meta(named, state, n, weight) ==
  [named |-> named, state |-> state, file_count |-> n, total_bytes |-> weight]
NoMeta == Meta(FALSE, "missing", -1, -1)
GoodMeta == Meta(TRUE, "object", 2, 3)
Metas == {NoMeta, Meta(TRUE, "missing", -1, -1), Meta(TRUE, "invalid_json", -1, -1), GoodMeta,
          Meta(TRUE, "object", 1, 3), Meta(TRUE, "object", 2, -1),
          Meta(TRUE, "object", 2, -2), Meta(TRUE, "object", -1, 3)}

Sources == {Gone, Locked} \cup
  {File(rows) : rows \in {<<>>, <<RowA>>, <<RowA, RowB>>, <<RowA, RowA>>, <<RowA, Damaged>>,
                          <<RowA, Row("b", 1)>>}}
ShardFiles == {Gone} \cup {File(rows) : rows \in {<<RowA>>, <<RowB>>, <<RowB, RowA>>, <<Row("c", 1)>>}}
Shards == Upto(2, [file : ShardFiles, expected : {1, 2}])

Unit(rows, weight, meta) ==
  [file |-> File(rows), expected |-> Len(rows), bytes |-> weight, meta |-> meta]
ScanUnits ==
  Upto(2, {Unit(<<RowA>>, 1, NoMeta), Unit(<<RowB>>, 2, NoMeta), Unit(<<RowB>>, 1, NoMeta),
           Unit(<<RowA, RowB>>, 3, GoodMeta), Unit(<<RowA, RowB>>, 3, Meta(TRUE, "object", 1, 3)),
           Unit(<<RowA, Damaged>>, 1, NoMeta)}) \ {<<>>}

Manifests ==
  [file : Sources, file_count : {2}, total_bytes : {3}, meta : Metas, shards : Shards, units : {<<>>}]
    \cup [file : {Gone, File(<<RowA>>)}, file_count : {1}, total_bytes : {1}, meta : {NoMeta},
          shards : Shards, units : {<<>>}]
    \cup [file : {Gone}, file_count : {2}, total_bytes : {3}, meta : {NoMeta},
          shards : Shards, units : ScanUnits]

\* VerdictsAgree and OkMeansCovered of IntegrityReport
AuditsAgree ==
  topic = "manifest" => Integrity!VerdictsAgree(subject) /\ Integrity!OkMeansCovered(subject)

-----------------------------------------------------------------------------
(* Worlds of two workers: their shared roots, or what they run.            *)

Unset == "none"
Root(path, writable) == [root |-> path, readable |-> TRUE, writable |-> writable]
Checks == { <<>>, <<Root(<<"d">>, TRUE)>>, <<Root(<<"d">>, FALSE)>>, <<Root(<<"e">>, TRUE)>>,
            <<Root(<<"d", "in">>, FALSE), Root(<<"d">>, TRUE)>>, <<Root(<<>>, TRUE)>> }

AgentFields == Admission!RequiredOfAgents \cup Admission!OptionalOfAgents
Fields(required, layout) ==
  [f \in AgentFields |-> IF f \in Admission!RequiredOfAgents THEN required
                         ELSE IF f = "layout_digest" THEN layout ELSE Unset]
Provenances == {Admission!NoProvenance} \cup
  [source : {"r1", "r2"}, dirty : {"no"}, known : {TRUE}, field : {Fields("x", Unset), Fields("x", "y")}]
    \cup [source : {"r1"}, dirty : {"yes"}, known : {TRUE}, field : {Fields("x", Unset)}]

Online == [archived |-> FALSE, stale |-> FALSE, status |-> "online",
           checks |-> <<Root(<<"d">>, TRUE)>>, version |-> "v1", constrained |-> FALSE,
           spooled |-> 0, pending |-> 0, provenance |-> Admission!NoProvenance]
Sees(checks, status) == [Online EXCEPT !.checks = checks, !.status = status]
Archived == [Online EXCEPT !.archived = TRUE]
Stale == [Online EXCEPT !.stale = TRUE]
Runs(provenance, status, archived) ==
  [Online EXCEPT !.provenance = provenance, !.status = status, !.archived = archived]
PathWorkers ==
  {Sees(c, s) : c \in Checks, s \in {"online", "busy", "offline"}} \cup {Archived, Stale}
EngineWorkers ==
  {Runs(p, s, a) : p \in Provenances, s \in {"online", "busy"}, a \in BOOLEAN}

Requests ==
  [assigned : {Unset, "w1"}, allowed : SUBSET {"w1", "w2"}, mode : {"directory", "snapshot"},
   input : {<<"d", "in">>}, output : {<<"d", "out">>}, root : {<<>>, <<"d", "m">>},
   key : {FALSE}, keyVariable : {Unset}]

NoCert == [enforcement |-> "off", status |-> "contract_only", risk |-> {},
           field |-> [f \in Admission!CertifiedFields \cup Admission!OptionalOfAgents |-> Unset]]
Cert == [NoCert EXCEPT
           !.enforcement = "certified", !.status = "certified",
           !.field = [f \in DOMAIN @ |-> IF f = "parser_revision" THEN "r1"
                                         ELSE IF f \in Admission!OptionalOfAgents THEN Unset ELSE "x"]]
NoProfile == [chosen |-> FALSE, exists |-> FALSE, needsKey |-> FALSE, savedKey |-> FALSE,
              envKey |-> FALSE, cert |-> NoCert]
Profiles == {[NoProfile EXCEPT !.chosen = TRUE, !.exists = TRUE, !.cert = c] :
               c \in {Cert, [Cert EXCEPT !.field["layout_digest"] = "y"]}}

Deployment == [db |-> [postgres |-> TRUE, tracked |-> TRUE, known |-> {1}, applied |-> {1},
                       verified |-> TRUE],
               token |-> TRUE, savedKeysAllowed |-> FALSE, hugeLimits |-> FALSE,
               build |-> [source |-> "r1", dirty |-> "no"]]

Pairs(S) == {[id \in {"w1", "w2"} |-> IF id = "w1" THEN a ELSE b] : a, b \in S}
World(servers, requests, profiles) ==
  [server : servers, request : requests, profile : profiles, control : {Deployment}]

Worlds == World(Pairs(PathWorkers), Requests, {NoProfile})
            \cup World(Pairs(EngineWorkers), {r \in Requests : r.root = <<>>}, Profiles)

\* ClaimersAreCertified and PreflightKeepsItsWord of JobAdmission
AdmissionKeepsItsWord ==
  topic = "request" =>
    Admission!ClaimersAreCertified(subject) /\ Admission!PreflightKeepsItsWord(subject)

-----------------------------------------------------------------------------
(* Tables that the diagnostics and the metrics read.                       *)

Views == INSTANCE ControlDiagnostics

Able == [archived |-> FALSE, pool |-> FALSE, status |-> "online", beat |-> "fresh",
         path |-> "exact", pressure |-> "no", slots |-> 1, events |-> 0, logs |-> 0, updates |-> 0]
PoolRow == [Able EXCEPT !.pool = TRUE, !.beat = "never", !.path = "none", !.slots = 0]
Rows == {[Able EXCEPT !.beat = b, !.path = p, !.pressure = c] :
           b \in {"fresh", "old", "never"}, p \in {"none", "exact", "loose"},
           c \in {"no", "exact", "loose"}}
          \cup {[Able EXCEPT !.archived = TRUE], [Able EXCEPT !.status = "offline"],
                [Able EXCEPT !.slots = 0], [Able EXCEPT !.slots = 2, !.events = 1],
                [Able EXCEPT !.slots = 2, !.status = "busy", !.updates = 1], PoolRow}

JobOf(status, total, completed, started) ==
  [status |-> status, total |-> total, completed |-> completed, started |-> started, files |-> 2]
JobRows == {JobOf("running", 20, 5, 2), JobOf("running", 0, 0, 0), JobOf("queued", 20, 0, 1),
            JobOf("stopping", 20, 5, 2), JobOf("succeeded", 20, 20, 2)}
ShardOf(job, status, server, lease) == [job |-> job, status |-> status, server |-> server, lease |-> lease]
ShardRows == {ShardOf(j, s, 0, "none") : j \in {1, 2}, s \in {"pending", "stale", "stopped"}}
               \cup {ShardOf(j, "running", 1, l) : j \in {1, 2}, l \in {"valid", "expired"}}

EventOf(key, stages, fallback) == [key |-> key, stages |-> stages, fallback |-> fallback]
Plain(n) == [k \in 1 .. n |-> EventOf(ToString(k), <<"success">>, FALSE)]
PageEvents == {<<>>, Plain(9), Plain(10), Plain(9) \o <<EventOf("9", <<"failed", "failed">>, TRUE)>>,
               Plain(10) \o <<EventOf(Views!NoKey, <<"failed">>, FALSE)>>}

Evidence(n) == [persist |-> TRUE, detail |-> 0, evidence |-> n, trace |-> n]
Migrated == [postgres |-> TRUE, table |-> TRUE, column |-> TRUE, mismatches |-> 0, unsummed |-> 0,
             missing |-> 0, unexpected |-> 0]
Tables == [workers |-> <<Able>>, shards |-> <<ShardOf(1, "pending", 0, "none")>>,
           jobs |-> <<JobOf("running", 20, 5, 2), JobOf("succeeded", 20, 20, 2)>>,
           pages |-> Plain(10), limits |-> Evidence(20), db |-> Migrated, auth |-> TRUE,
           manifests |-> <<>>, artifacts |-> [declared |-> 0, undeclared |-> 0],
           strict |-> TRUE, requirePostgres |-> FALSE, requireCurrent |-> TRUE]

FewShards ==
  {<<>>, <<ShardOf(1, "pending", 0, "none")>>, <<ShardOf(1, "running", 1, "expired")>>}
Databases ==
  [postgres : BOOLEAN, table : BOOLEAN, column : BOOLEAN, mismatches : {0, 1},
   unsummed : {0, 1}, missing : {0, 2}, unexpected : {0, 1}]
WorkerTables ==
  {[Tables EXCEPT !.workers = ws, !.shards = ss] : ws \in Upto(2, Rows), ss \in FewShards}
JobTables ==
  {[Tables EXCEPT !.jobs = <<a, b>>, !.shards = ss] : a, b \in JobRows, ss \in Upto(2, ShardRows)}
PageTables ==
  {[Tables EXCEPT !.jobs = <<a, b>>, !.pages = ps, !.limits = [Evidence(n) EXCEPT !.detail = d]] :
     a, b \in JobRows, ps \in PageEvents, n \in {1, 10, 20}, d \in {0, 15}}
DatabaseTables ==
  {[Tables EXCEPT !.db = d, !.strict = s, !.requirePostgres = p, !.workers = ws] :
     s, p \in BOOLEAN, ws \in {<<>>, <<PoolRow>>, <<Able>>}, d \in Databases}
AllTables == WorkerTables \cup JobTables \cup PageTables \cup DatabaseTables

\* DiagnosticsAgree of ControlDiagnostics
DiagnosticsAgree == topic = "tables" => Views!DiagnosticsAgree(subject)

-----------------------------------------------------------------------------
(* The ledger of a job of two files, up to four events, under limits on    *)
(* the rows that are kept.                                                 *)

Event(type, file, page, status, total) ==
  [type |-> type, file |-> file, page |-> page, status |-> status, total |-> total]
Events ==
  UNION {{Event("file_started", f, -1, "ok", 2), Event("file_done", f, -1, "success", -1),
          Event("file_done", f, -1, "skipped", -1), Event("file_failed", f, -1, "failed", -1),
          Event("page_done", f, 1, "ok", -1)} : f \in {"f1", "f2"}}
    \cup {Event("page_done", "f1", 2, "fallback", -1),
          Event("job_failed", Summary!NoFile, -1, "failed", -1)}
Limits == {[files |-> l[1], events |-> l[2], samples |-> 2] :
             l \in {<<-1, -1>>, <<0, 0>>, <<1, -1>>, <<-1, 1>>, <<1, 1>>}}
MaxEvents == 4

Ledgers == [ledger : {Summary!NoLedger}, limits : Limits, input : {0, 2}, failed : {{}}, n : {0}]

FailedBy(e) ==
  IF e.type = "file_failed" THEN subject.failed \cup {e.file}
  ELSE IF e.type \in {"file_started", "page_done", "file_done"} THEN subject.failed \ {e.file}
  ELSE subject.failed

RecordEvent ==
  /\ topic = "ledger"
  /\ subject.n < MaxEvents
  /\ \E e \in Events :
       subject' = [subject EXCEPT !.ledger = Summary!Recorded(@, e, subject.limits),
                                  !.failed = FailedBy(e), !.n = @ + 1]
  /\ UNCHANGED topic

Shown == Summary!FileProgress(subject.ledger, subject.input)

\* Cutting rows does not make a job look smaller or better: the totals and the
\* failures of its page never fall and never contradict each other, and files
\* whose last word was a failure are on the list of failed files as long as no
\* more files failed than samples are kept (projection.py, counters.py).
LedgerSurvivesPruning ==
  [][topic = "ledger" =>
       /\ Shown'.total >= Shown.total /\ Shown'.failed >= Shown.failed
       /\ Shown'.completed + Shown'.failed + Shown'.skipped <= Shown'.total
       /\ \A f \in subject'.failed :
            \E item \in ToSet(Summary!RecentFiles(subject'.ledger, "failed", 2)) : item.file = f
    ]_decisionVars

-----------------------------------------------------------------------------
(* Downloads: the listing of a gives both keys, b is named again.          *)

ListingAndKey == << [key |-> "a", exact |-> FALSE, one |-> FALSE],
                    [key |-> "b", exact |-> TRUE, one |-> FALSE] >>
UnderPrefix == [k \in Keys |-> IF k = "a" THEN <<"a", "b">> ELSE <<k>>]

NothingOnDisk == (\A k \in Keys : local[k] = "none" /\ ~ part[k])

-----------------------------------------------------------------------------
(* A page of the DotsOCR engine; pages of the two-stage engines.           *)

E(type, status, words) == [type |-> type, status |-> status, words |-> words]
CallErrors == {E("TimeoutException", 0, {"timeout"}), E("RateLimitError", 429, {"429", "rate limit"}),
               E("AuthenticationError", 401, {"401"})}

Page == INSTANCE PageAttempts WITH
  page <- subject, MaxRetries <- PageLimits, Lanes <- PageLanes, Errors <- CallErrors

Engine == INSTANCE TwoStagePages WITH
  engine <- subject, Pages <- EnginePages, MaxBlocks <- EngineBlocks, MaxTries <- EngineTries,
  Concurrency <- EngineCalls, High <- HighMark

\* What pages use up of their budgets and of the slots they share is what their
\* calls add up to: BudgetHolds of PageAttempts, CountsTrue of TwoStagePages.
CallBudgets ==
  /\ topic = "page" => Page!BudgetHolds
  /\ topic = "engine" => Engine!CountsTrue

-----------------------------------------------------------------------------
(* Input trees of two directories below the root, and manifests.           *)

DirPaths == {<<>>, <<"d">>, <<"d", "e">>}
EntryPaths == {<<"x">>, <<"d", "x">>, <<"d", "y">>, <<"d", "e", "x">>}
InputTrees ==
  {[dir |-> [p \in DirPaths |-> p \notin denied], entry |-> entry] :
     denied \in {{}} \cup {{p} : p \in DirPaths},
     entry \in [EntryPaths -> {"pdf", "fails"}]}
    \cup {[dir |-> [p \in DirPaths |-> TRUE], entry |-> entry] :
            entry \in [EntryPaths -> {"pdf", "link"}]}
GivenRow(path, whole, inside) == [path |-> path, whole |-> whole, inside |-> inside]
GivenManifests ==
  Upto(3, {GivenRow(<<"x">>, TRUE, TRUE), GivenRow(<<"y">>, TRUE, TRUE),
           GivenRow(<<"x">>, FALSE, TRUE), GivenRow(<<"x">>, TRUE, FALSE)})

Files == INSTANCE ManifestBuild WITH
  build <- subject, Trees <- InputTrees, Manifests <- GivenManifests, Targets <- {1, 2},
  Kept <- {1, 3}, OldBuild <- TRUE

\* ManifestIsTheInput of ManifestBuild
ManifestIsTheInput == topic = "build" => Files!ManifestIsTheInput

-----------------------------------------------------------------------------
(* Hosts, and the audit of a manifest by workers on two of them: one with  *)
(* room, and one whose memory cannot be probed and whose disk is full.     *)

Memory(total, available) == [total |-> total, available |-> available]
OnDisk(free) == [total |-> 10, free |-> free]
Roomy == [memory |-> Memory(10, 8), disks |-> (<<>> :> OnDisk(9))]
Full == [memory |-> Memory(0, 0), disks |-> (<<>> :> OnDisk(1))]
Guard == [memoryPercent |-> 90, minMemory |-> 2, diskPercent |-> 95, minDisk |-> 2]

Audit == INSTANCE IntegrityAudit WITH
  audit <- subject, Workers <- {"w1", "w2"}, Manifests <- {"m1"},
  Readers <- {{"w1"}, {"w1", "w2"}}, HostStates <- {Roomy, Full}, Paths <- << <<"work">> >>,
  Limits <- Guard, MaxRequests <- 2, MaxFaults <- 1

\* Somebody has the check or can take it.
AuditOpen == topic = "audit" /\ Audit!Open("m1")

-----------------------------------------------------------------------------
DecisionInit ==
  /\ DownloadInit
  /\ \/ topic = "download" /\ subject = Unset
     \/ /\ NothingOnDisk
        /\ \/ topic = "manifest" /\ subject \in Manifests
           \/ topic = "request" /\ subject \in Worlds
           \/ topic = "tables" /\ subject \in AllTables
           \/ topic = "build" /\ Files!BuildInit
           \/ topic = "ledger" /\ subject \in Ledgers
           \/ topic = "page" /\ Page!PageInit
           \/ topic = "engine" /\ Engine!EngineInit
           \/ topic = "audit" /\ Audit!AuditInit

DecisionNext ==
  \/ RecordEvent /\ UNCHANGED downloadVars
  \/ topic = "build" /\ Files!BuildNext /\ UNCHANGED <<topic, downloadVars>>
  \/ topic = "page" /\ Page!PageNext /\ UNCHANGED <<topic, downloadVars>>
  \/ topic = "engine" /\ Engine!EngineNext /\ UNCHANGED <<topic, downloadVars>>
  \/ topic = "audit" /\ Audit!AuditNext /\ UNCHANGED <<topic, downloadVars>>
  \/ topic = "download" /\ DownloadNext /\ UNCHANGED decisionVars

\* EmittedIsWhole and NothingVanishes of S3Download
DownloadKeepsFiles == EmittedIsWhole /\ NothingVanishes

\* StreamEnds of S3Download, AllPagesEnded of TwoStagePages; a requested audit is
\* made or lost (Open of IntegrityAudit).
AllEnds ==
  /\ topic = "download" => StreamEnds
  /\ <>(topic = "engine" => Engine!AllPagesEnded)
  /\ AuditOpen ~> ~ AuditOpen

\* The event loop runs some task as long as one can go on, and calls return.
EngineFairness ==
  WF_subject(topic = "engine" /\ Engine!EngineNext /\ UNCHANGED <<topic, downloadVars>>)

\* The lanes of the agents go on; transactions end and hosts recover.
Audits(Step) == topic = "audit" /\ Step /\ UNCHANGED <<topic, downloadVars>>
AuditFairness ==
  /\ WF_subject(Audits(Audit!LaneStep("w1")))
  /\ WF_subject(Audits(Audit!LaneStep("w2")))
  /\ WF_subject(Audits(Audit!Settles))

allVars == <<decisionVars, downloadVars>>
DecisionSpec ==
  /\ DecisionInit /\ [][DecisionNext]_allVars
  /\ WF_downloadVars(topic = "download" /\ Proceeds)
  /\ EngineFairness /\ AuditFairness
=============================================================================
