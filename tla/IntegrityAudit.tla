---------------------------- MODULE IntegrityAudit ----------------------------
(***************************************************************************)
(* The audit of manifests by workers, for a control plane that cannot read *)
(* the files itself: a request marks the manifest, the integrity lane of   *)
(* some agent claims the check, reads the files and sends its report       *)
(* (control/domains/manifests/integrity.py and policy.py, agent/lanes.py). *)
(* IntegrityReport is the report itself; here it is whether it is good.    *)
(*                                                                         *)
(* The database transactions read a row, and on commit write the columns   *)
(* that changed against what they read; two may overlap.  There is no      *)
(* lease: a claim is for ever, until the next request.                     *)
(***************************************************************************)
EXTENDS HostPressure, FiniteSets, Functions

CONSTANTS Workers, Manifests,
          Readers,      \* sets of workers, one of which can read the manifests
          HostStates,   \* what an agent may find on its host
          Paths, Limits,
          MaxRequests,  \* bound: requests
          MaxFaults     \* bound: crashes and lost answers

VARIABLE audit

NoServer == "nobody"
NoReport == [by |-> NoServer, good |-> FALSE]
Row(status, server, report, asked) ==
  [status |-> status, server |-> server, report |-> report, asked |-> asked]
Unasked == Row("unasked", NoServer, NoReport, 0)

\* A lane looks at its host, asks for a check, makes it and delivers it; `seen`
\* is the row a transaction in progress has read.
Lane(pc) == [pc |-> pc, task |-> "none", seen |-> Unasked, report |-> NoReport]

Calm == CHOOSE host \in HostStates : ~ Constrained(Reasons(host, Paths, Limits))

AuditInit ==
  \E readers \in Readers :
    audit = [row |-> [m \in Manifests |-> Unasked], good |-> [m \in Manifests |-> TRUE],
             asking |-> [m \in Manifests |-> <<>>], lane |-> [w \in Workers |-> Lane("look")],
             host |-> [w \in Workers |-> Calm], readers |-> readers,
             requests |-> 0, faults |-> 0]

At(w, pc) == audit.lane[w].pc = pc
Goes(w, pc) == audit' = [audit EXCEPT !.lane[w].pc = pc]
Fails == audit.faults < MaxFaults

-----------------------------------------------------------------------------
(* Transactions.                                                           *)

\* What a commit leaves of a row: the columns the transaction changed.
Merged(row, seen, new) == [c \in DOMAIN row |-> IF new[c] # seen[c] THEN new[c] ELSE row[c]]

Requested(seen) == Row("pending", NoServer, NoReport, audit.requests)
Claimed(seen, w) == [seen EXCEPT !.status = "running", !.server = w]

Completed(seen, report) ==
  [seen EXCEPT !.status = IF report.good THEN "ok" ELSE "failed", !.server = report.by,
               !.report = report]

\* request_worker_manifest_integrity_check, in two steps.
Request(m) ==
  /\ audit.asking[m] = <<>> /\ audit.requests < MaxRequests
  /\ audit' = [audit EXCEPT !.asking[m] = <<audit.row[m]>>, !.requests = @ + 1]
CommitRequest(m) ==
  /\ audit.asking[m] # <<>>
  /\ LET seen == audit.asking[m][1] IN
       audit' = [audit EXCEPT !.row[m] = Merged(@, seen, Requested(seen)), !.asking[m] = <<>>]

-----------------------------------------------------------------------------
(* The lane of an agent: _run_manifest_integrity_once.                     *)

\* Under pressure the lane sleeps.  Once it asks, it asks until it is answered,
\* whatever happens to the host.
LookAtHost(w) ==
  /\ At(w, "look")
  /\ ~ Constrained(Reasons(audit.host[w], Paths, Limits))
  /\ Goes(w, "ask")

\* The oldest request of a manifest the worker can read.
ForWorker(w) ==
  {m \in Manifests : audit.row[m].status = "pending" /\ w \in audit.readers}
Oldest(ms) == CHOOSE m \in ms : \A n \in ms : audit.row[m].asked <= audit.row[n].asked

ReadClaim(w) ==
  /\ At(w, "ask")
  /\ IF ForWorker(w) = {} THEN Goes(w, "look")
     ELSE LET m == Oldest(ForWorker(w)) IN
          audit' = [audit EXCEPT !.lane[w] = [Lane("claiming") EXCEPT !.task = m,
                                                                      !.seen = audit.row[m]]]

\* The claim is written; its answer arrives, or is lost and the lane asks again.
CommitClaim(w) ==
  LET l == audit.lane[w]
      stored == [audit EXCEPT !.row[l.task] = Merged(@, l.seen, Claimed(l.seen, w))]
  IN  /\ l.pc = "claiming"
      /\ \/ audit' = [stored EXCEPT !.lane[w].pc = "check"]
         \/ Fails /\ audit' = [stored EXCEPT !.lane[w] = Lane("ask"), !.faults = @ + 1]

Check(w) ==
  /\ At(w, "check")
  /\ audit' = [audit EXCEPT !.lane[w].pc = "deliver",
                            !.lane[w].report = [by |-> w, good |-> audit.good[audit.lane[w].task]]]

TakenFrom(row, w) == row.server \in {NoServer, w}

\* A refused report is sent again: _call_control_with_backoff knows no error
\* that ends it.
ReadDelivery(w) ==
  LET l == audit.lane[w] IN
  /\ l.pc = "deliver" /\ TakenFrom(audit.row[l.task], w)
  /\ audit' = [audit EXCEPT !.lane[w].pc = "delivering", !.lane[w].seen = audit.row[l.task]]

CommitDelivery(w) ==
  LET l == audit.lane[w]
      stored == [audit EXCEPT !.row[l.task] = Merged(@, l.seen, Completed(l.seen, l.report))]
  IN  /\ l.pc = "delivering"
      /\ \/ audit' = [stored EXCEPT !.lane[w] = Lane("look")]
         \/ Fails /\ audit' = [stored EXCEPT !.lane[w].pc = "deliver", !.faults = @ + 1]

\* The agent is started anew.
Restart(w) ==
  /\ Fails /\ ~ At(w, "look")
  /\ audit' = [audit EXCEPT !.lane[w] = Lane("look"), !.faults = @ + 1]

-----------------------------------------------------------------------------
(* Beside them: files that get damaged, hosts that run short.              *)

Damage(m) == audit.good[m] /\ audit' = [audit EXCEPT !.good[m] = FALSE]
RunsShort(w) ==
  \E host \in HostStates \ {Calm} :
    audit.host[w] = Calm /\ Fails
    /\ audit' = [audit EXCEPT !.host[w] = host, !.faults = @ + 1]
Recovers(w) == audit.host[w] # Calm /\ audit' = [audit EXCEPT !.host[w] = Calm]

LaneStep(w) ==
  \/ LookAtHost(w) \/ ReadClaim(w) \/ CommitClaim(w) \/ Check(w)
  \/ ReadDelivery(w) \/ CommitDelivery(w)

\* What does not wait for anybody.
Settles == (\E m \in Manifests : CommitRequest(m)) \/ (\E w \in Workers : Recovers(w))

AuditNext ==
  \/ \E m \in Manifests : Request(m) \/ CommitRequest(m) \/ Damage(m)
  \/ \E w \in Workers : LaneStep(w) \/ Restart(w) \/ RunsShort(w) \/ Recovers(w)

-----------------------------------------------------------------------------
(* What the job page shows, and the properties.                            *)

\* The report of a worker if there is one, else what the freeze said.
ShownReport(row, frozen) == IF row.report # NoReport THEN row.report.good ELSE frozen

Finished(row) == row.status \in {"ok", "failed"}

\* A check that is over has a report, and the job page shows the verdict that the
\* check ended with.  It holds as long as no two transactions overlap: a request
\* that overlaps a report, or two reports, can leave the verdict of one and the
\* report of the other.
VerdictIsShown ==
  \A m \in Manifests, frozen \in BOOLEAN :
    LET row == audit.row[m] IN
    Finished(row) => row.report # NoReport /\ ShownReport(row, frozen) = (row.status = "ok")

\* Nobody works at a check that was claimed: its worker was started anew or did
\* not hear that it had got it.
Abandoned(m) ==
  LET row == audit.row[m] IN
  row.status = "running" /\ \A w \in Workers : row.server = w => audit.lane[w].task # m

\* A requested check is made in the end, or the worker that has it has lost it: of
\* two workers that claimed the same check one may send its report for ever, but
\* never all (Open(m) ~> ~ Open(m)).
Open(m) == audit.row[m].status \in {"pending", "running"} /\ ~ Abandoned(m)
=============================================================================
