----------------------------- MODULE MCMachines ------------------------------
(***************************************************************************)
(* One instance of every machine beside the scheduler, for TLC: the agent  *)
(* with its child (topic "child", AgentChild), the New Job page ("wizard", *)
(* JobWizard), the schema of the control database ("schema",               *)
(* SchemaMigration), the uploader ("upload", S3Upload) and the index of    *)
(* documents ("index", DataIndex), a host whose workers are scaled         *)
(* ("host", WorkerScale: one request and a failure, or two requests), and  *)
(* a worker that is archived ("archive", WorkerArchive).  The subject of a *)
(* topic is the state of its machine; the agent has its own variables.     *)
(***************************************************************************)
EXTENDS AgentChild

CONSTANTS
  Inputs, Servers, RootOf, MaxClicks,           \* of JobWizard
  Procs, Clis, Autos, Build, Table, Column,     \* of SchemaMigration
  Histories, Gate, Threads, Ttl, Slow, MaxStarts,
  Callers, Uploaders, Docs, Artifacts, Sizes,   \* of S3Upload
  Room, MaxCalls, MaxRuns,
  Papers, Doc, Lanes, Batch, Tasks, Slots, MaxTries, \* of DataIndex
  Instances, Names, Old, Requests, MaxShared,   \* of WorkerScale
  Pinned, MaxArchives, MaxSilences, MaxCrashes  \* of WorkerArchive

VARIABLES topic, subject

-----------------------------------------------------------------------------
Wizard == INSTANCE JobWizard WITH page <- subject, Workers <- Servers

Schema == INSTANCE SchemaMigration WITH schema <- subject

\* The scripts of a build have the numbers of their versions, without gaps, and so
\* have those that a database is said to have had.
ASSUME SchemaAssumption ==
  /\ "nobody" \notin Procs /\ Gate \in Procs /\ Ttl \in Nat /\ Slow \in Nat
  /\ Schema!Versions \subseteq Nat
  /\ \A p \in Procs : \A v \in DOMAIN Build[p] :
       /\ Build[p][v] # Schema!NotApplied
       /\ \A w \in Schema!Versions : w < v => w \in DOMAIN Build[p]
  /\ \A rows \in Histories :
       /\ DOMAIN rows = Schema!Versions
       /\ \A v, w \in Schema!Versions : v \in Schema!Applied(rows) /\ w < v => w \in Schema!Applied(rows)

Upload == INSTANCE S3Upload WITH upload <- subject, Workers <- Uploaders

\* What S3UploadManager makes of its configuration: a worker and room for a task
\* at least.  A document has one artifact at least.
ASSUME UploadAssumption ==
  /\ IsFiniteSet(Callers) /\ IsFiniteSet(Uploaders) /\ Uploaders # {}
  /\ Sizes \subseteq Nat /\ Room \in Nat \ {0}
  /\ \A d \in Docs : Artifacts[d] \in Seq(Upload!Keys) \ {<<>>}

Index == INSTANCE DataIndex WITH index <- subject, Jobs <- Papers

ASSUME IndexAssumption == "nobody" \notin Papers

Host == INSTANCE WorkerScale WITH host <- subject

ASSUME HostAssumption ==
  /\ IsFiniteSet(Instances) /\ Instances = 1 .. Cardinality(Instances)
  /\ "none" \notin Names /\ Old # "none" /\ "nobody" \notin Requests

Archive == INSTANCE WorkerArchive WITH fleet <- subject, Jobs <- Pinned

-----------------------------------------------------------------------------
(* The instances of the runs.                                              *)

RootFor == [i \in {"a", "b"} |-> "root of " \o i]

\* A control of an older build, one of a newer build that has changed a script,
\* and the migration tool of the newer build with the scripts of the older one.
Scripts ==
  [p \in {"c1", "c2", "cli"} |->
     CASE p = "c1" -> <<"a", "a">> [] p = "c2" -> <<"a", "a", "b">> [] p = "cli" -> <<"a", "a", "a">>]
Rows(one, two, three) == <<one, two, three>>
Absent == "not_applied"
FirstRows ==
  {Rows(Absent, Absent, Absent), Rows("no_checksum", Absent, Absent), Rows("a", "a", Absent)}

ArtifactsOf == [d \in {"d1"} |-> <<"a", "b">>]

\* Two paths with the same content, and a PDF that is gone.
Documents ==
  [j \in {"j1", "j2", "j3"} |->
     CASE j = "j1" -> [path |-> "p1", sum |-> "s1", size |-> 1]
       [] j = "j2" -> [path |-> "p2", sum |-> "s1", size |-> 1]
       [] j = "j3" -> [path |-> "p3", sum |-> "s3", size |-> -1]]

-----------------------------------------------------------------------------
MachineInit ==
  /\ ChildInit
  /\ \/ topic = "child" /\ subject = "agent"
     \/ topic = "wizard" /\ Wizard!PageInit
     \/ topic = "schema" /\ Schema!SchemaInit
     \/ topic = "upload" /\ Upload!UploadInit
     \/ topic = "index" /\ Index!IndexInit
     \/ topic = "host" /\ Host!ScaleInit
     \/ topic = "archive" /\ Archive!FleetInit

Beside(machine, Next) == topic = machine /\ Next /\ UNCHANGED <<topic, childVars>>

MachineNext ==
  \/ topic = "child" /\ ChildNext /\ UNCHANGED <<topic, subject>>
  \/ Beside("wizard", Wizard!PageNext)
  \/ Beside("schema", Schema!SchemaNext)
  \/ Beside("upload", Upload!UploadNext)
  \/ Beside("index", Index!IndexNext)
  \/ Beside("host", Host!ScaleNext)
  \/ Beside("archive", Archive!FleetNext)

\* The browser goes on and is answered; the event loops run some task as long as
\* one can go on, and calls return; a worker goes on sending heartbeats, asking for
\* jobs and running them, and is started again when it dies.
MachineFairness ==
  /\ topic = "child" => ChildFairness
  /\ WF_subject(Beside("wizard", Wizard!TimerFires))
  /\ WF_subject(Beside("wizard", Wizard!ServersListed))
  /\ WF_subject(Beside("wizard", \E c \in subject.calls : Wizard!Answered(c)))
  /\ WF_subject(Beside("upload", Upload!UploadNext))
  /\ WF_subject(Beside("index", Index!IndexNext))
  /\ WF_subject(Beside("archive", Archive!Goes))

MachineSpec ==
  MachineInit /\ [][MachineNext]_<<childVars, topic, subject>> /\ MachineFairness

-----------------------------------------------------------------------------
\* What each machine leaves behind is what it has checked or done: CreatedWasChecked
\* of JobWizard, MigratedOnce and ServedIsCurrent of SchemaMigration,
\* ClosedIsComplete and ManifestIsTrue of S3Upload, IndexComplete of DataIndex,
\* ScaleKeepsPlan and RetriesAgree of WorkerScale, ArchivedIsIdle of WorkerArchive.
DoneIsTrue ==
  /\ topic = "wizard" => Wizard!CreatedWasChecked
  /\ topic = "schema" => Schema!MigratedOnce /\ Schema!ServedIsCurrent /\ Schema!SeededIsWhole
  /\ topic = "upload" => Upload!ClosedIsComplete /\ Upload!ManifestIsTrue
  /\ topic = "index" => Index!IndexComplete
  /\ topic = "host" => Host!ScaleKeepsPlan /\ Host!RetriesAgree
  /\ topic = "archive" => Archive!ArchivedIsIdle

\* A flush is under way, documents wait for a lane of the index, a job waits for the
\* worker it is pinned to.
Waiting ==
  \/ topic = "upload" /\ Upload!Now.phase = "closing"
  \/ topic = "index" /\ \E j \in Papers : Index!Now.job[j].pc = "queued"
  \/ topic = "archive" /\ Archive!Queued

\* The runs of the agent settle (RunsSettle of AgentChild), the root of the page
\* becomes that of its input (RootIsOfInput of JobWizard), a flush ends, the
\* documents of the index get their turn (FlushEnds of S3Upload, JobsEnd of
\* DataIndex), and a pinned job does not stay queued (Queued of WorkerArchive).
MachinesSettle ==
  /\ RunsSettle
  /\ <>[](topic = "wizard" => Wizard!RootIsOfInput)
  /\ Waiting ~> ~ Waiting
=============================================================================
