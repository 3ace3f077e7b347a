---------------------------- MODULE JobAdmission -----------------------------
(***************************************************************************)
(* Whether a job may be created and which workers may take it: the checks  *)
(* of shared paths (control/domains/workers/eligibility.py, copied in      *)
(* manifests/paths.py), the preflight of a job request (preflight.py), the *)
(* certification of its model profile (certification_gate.py,              *)
(* model_profiles/policy.py and certification.py) and the checks of        *)
(* create (jobs/lifecycle.py, model_profiles/queries.py).                  *)
(*                                                                         *)
(* A world w holds the tables these functions read: w.server maps the ids  *)
(* of the known workers to their rows, w.profile is the row of the chosen  *)
(* model profile, w.request the request, w.control the deployment.  A path *)
(* is a sequence of names, None stands for what is not given.  A revision  *)
(* or a digest is a model value or None.                                   *)
(***************************************************************************)
EXTENDS Integers, Sequences, FiniteSets, SequencesExt

Absent == "none"
Given(value) == value # Absent

-----------------------------------------------------------------------------
(* Shared paths.                                                           *)

\* A bug to test with: a root covers what merely begins with its name.
UnderByName(root, path) ==
  Len(root) <= Len(path) /\ \A i \in 1 .. Len(root) - 1 : root[i] = path[i]

\* _path_is_under, on normalised absolute paths.  The root directory covers
\* itself only: "/" followed by "/" begins no path.
LiesUnder(root, path) == path = root \/ (root # <<>> /\ IsPrefix(root, path))

Refused(reason) == [can |-> FALSE, root |-> <<>>, reason |-> reason]

\* evaluate_server_path_access: the first check that covers the path and grants
\* what is asked for decides, or the last that covers it says why not.
PathAccess(server, path, writable) ==
  LET covering == SelectSeq(server.checks, LAMBDA c : LiesUnder(c.root, path))
      granting == SelectSeq(covering, LAMBDA c : c.readable /\ (writable => c.writable))
  IN  IF server.archived THEN Refused("server_archived")
      ELSE IF server.stale \/ server.status = "offline" THEN Refused("server_offline")
      ELSE IF server.checks = <<>> THEN Refused("no_path_checks")
      ELSE IF granting # <<>> THEN [can |-> TRUE, root |-> granting[1].root, reason |-> "ok"]
      ELSE IF covering = <<>> THEN Refused("no_matching_shared_root")
      ELSE [can |-> FALSE, root |-> Last(covering).root,
            reason |-> IF writable THEN "shared_root_not_writable"
                         ELSE "shared_root_unavailable"]

Listed(w) == {id \in DOMAIN w.server : ~ w.server[id].archived}
CanRead(w, id, path) == PathAccess(w.server[id], path, FALSE).can
CanWrite(w, id, path) == PathAccess(w.server[id], path, TRUE).can

\* server_can_access_input_dir
MayAccess(w, id, path) == id \in DOMAIN w.server /\ CanRead(w, id, path)

\* infer_default_manifest_root: the one root through which the workers in scope
\* reach the input, or nothing if there is none or they differ.
ManifestRoot(w) ==
  LET r == w.request
      named == IF r.mode = "directory"
                 THEN IF Given(r.assigned) THEN {r.assigned} ELSE {}
                 ELSE r.allowed
      scope == IF named = {} THEN Listed(w) ELSE named \cap Listed(w)
      roots == {PathAccess(w.server[id], r.input, FALSE).root :
                  id \in {s \in scope : CanRead(w, s, r.input)}}
  IN  IF r.mode = "existing_manifest" \/ Cardinality(roots) # 1 THEN Absent
        ELSE "inferred"

RootPath(w) ==
  LET id == CHOOSE s \in Listed(w) : CanRead(w, s, w.request.input)
  IN  Append(PathAccess(w.server[id], w.request.input, FALSE).root, "manifests")

-----------------------------------------------------------------------------
(* Who may take the job.                                                   *)

\* candidate_workers_for_job: the workers named, known or not, or all that can
\* read the input.  An unknown or archived one is a candidate without a row.
Candidates(w) ==
  LET r == w.request
      named == r.allowed \cup IF Given(r.assigned) THEN {r.assigned} ELSE {}
  IN  IF named # {} THEN named
        ELSE {id \in Listed(w) : CanRead(w, id, r.input)}

\* A bug to test with: a job of the pool goes to any worker it allows
MayClaimUnread(w, id) ==
  /\ id \in Listed(w)
  /\ IF Given(w.request.assigned) THEN id = w.request.assigned
       ELSE w.request.allowed # {} => id \in w.request.allowed

\* What claim_next_job and claim_next_pool_job ask of a worker, once the job is
\* there: a pinned job asks for its worker, a job of the pool for an allowed
\* worker that can read the input.
MayClaim(w, id) ==
  LET r == w.request
  IN  /\ id \in Listed(w)
      /\ IF Given(r.assigned) THEN id = r.assigned
           ELSE /\ r.allowed # {} => id \in r.allowed
                /\ MayAccess(w, id, r.input)

-----------------------------------------------------------------------------
(* The certification of a model profile.                                   *)

CertifiedFields == {"parser_revision", "model_revision", "runtime_digest",
                    "fixture_set_digest", "evidence_digest"}
RequiredOfAgents == {"model_revision", "runtime_digest"}
OptionalOfAgents == {"model_digest", "runtime_revision", "layout_revision", "layout_digest"}
RiskFields == {"accepted_by", "accepted_at", "reason"}

Allowed == [ok |-> TRUE, code |-> Absent, fields |-> {}]
Denied(code, fields) == [ok |-> FALSE, code |-> code, fields |-> fields]

\* What one candidate lacks, and what it has otherwise; _candidate_snapshot
\* makes an empty one of an unknown worker and of provenance it cannot read.
MissingOf(cert, agent) ==
  (IF Given(agent.source) THEN {} ELSE {"source_revision"})
    \cup (IF agent.dirty = "unknown" THEN {"dirty"} ELSE {})
    \cup (IF ~ agent.known THEN {"profile"}
          ELSE {f \in RequiredOfAgents : ~ Given(agent.field[f])}
               \cup {f \in OptionalOfAgents : Given(cert.field[f]) /\ ~ Given(agent.field[f])})

\* A bug to test with: an optional field counts only if the certification has it
MismatchIfNamed(cert, agent) ==
  {f \in RequiredOfAgents \cup OptionalOfAgents :
     /\ agent.known /\ Given(cert.field[f])
     /\ Given(agent.field[f]) /\ agent.field[f] # cert.field[f]}

MismatchOf(cert, agent) ==
  (IF Given(agent.source) /\ agent.source # cert.field["parser_revision"]
     THEN {"source_revision"} ELSE {})
    \cup (IF agent.dirty = "yes" THEN {"dirty"} ELSE {})
    \cup (IF ~ agent.known THEN {}
          ELSE {f \in RequiredOfAgents \cup OptionalOfAgents :
                  Given(agent.field[f]) /\ agent.field[f] # cert.field[f]})

\* evaluate_model_profile_certification
Certification(cert, control, agents) ==
  LET absent == {f \in CertifiedFields : ~ Given(cert.field[f])}
      missing == absent
        \cup (IF Given(control.source) THEN {} ELSE {"control.source_revision"})
        \cup (IF control.dirty = "unknown" THEN {"control.dirty"} ELSE {})
        \cup (IF agents = {} THEN {"candidate_workers"} ELSE {})
        \cup UNION {MissingOf(cert, a) : a \in agents}
      mismatched ==
        (IF Given(control.source) /\ control.source # cert.field["parser_revision"]
           THEN {"control.source_revision"} ELSE {})
        \cup (IF control.dirty = "yes" THEN {"control.dirty"} ELSE {})
        \cup UNION {MismatchOf(cert, a) : a \in agents}
  IN  CASE cert.enforcement = "off" -> Allowed
        [] cert.enforcement = "verified" ->
             IF cert.status = "verified"
               THEN IF cert.risk = RiskFields THEN Allowed
                    ELSE Denied("risk_acceptance_required", RiskFields \ cert.risk)
             ELSE IF cert.status # "certified" THEN Denied("mismatch", {"status"})
             ELSE IF absent # {} THEN Denied("missing", absent) ELSE Allowed
        [] cert.enforcement = "certified" ->
             IF cert.status # "certified" THEN Denied("mismatch", {"status"})
             ELSE IF missing # {} THEN Denied("missing", missing)
             ELSE IF mismatched # {} THEN Denied("mismatch", mismatched) ELSE Allowed
        [] OTHER -> Denied("mismatch", {"enforcement"})

NoProvenance ==
  [source |-> Absent, dirty |-> "unknown", known |-> FALSE,
   field |-> [f \in RequiredOfAgents \cup OptionalOfAgents |-> Absent]]

Snapshot(w, id) == IF id \in Listed(w) THEN w.server[id].provenance ELSE NoProvenance

\* evaluate_job_model_profile_certification; no row means enforcement is off.
Certified(w) ==
  IF ~ w.profile.chosen \/ ~ w.profile.exists THEN Allowed
    ELSE Certification(w.profile.cert, w.control.build, {Snapshot(w, id) : id \in Candidates(w)})

\* certification_request_values: what may be stored with a profile.
StorableCertification(cert) ==
  /\ cert.status = "certified" => \A f \in CertifiedFields : Given(cert.field[f])
  /\ cert.status = "verified" /\ cert.enforcement # "off" => cert.risk = RiskFields

-----------------------------------------------------------------------------
(* The preflight: errors and warnings about a request.                     *)

Error(code) == [severity |-> "error", code |-> code]
Warning(code) == [severity |-> "warning", code |-> code]
If(condition, issue) == IF condition THEN {issue} ELSE {}

\* database_migration_preflight_issue
MigrationIssue(db) ==
  IF ~ db.postgres THEN {}
  ELSE IF ~ db.tracked THEN {Error("database_migrations_missing")}
  ELSE IF ~ db.known \subseteq db.applied THEN {Error("database_migration_not_current")}
  ELSE If(~ db.verified, Error("database_migration_verification_failed"))

DeploymentIssues(control) ==
  If(~ control.db.postgres, Warning("database_not_postgres"))
    \cup MigrationIssue(control.db)
    \cup If(~ control.token, Warning("control_api_auth_disabled"))

\* _worker_snapshot
Considered(w) ==
  LET r == w.request
      named == r.allowed \cup IF Given(r.assigned) THEN {r.assigned} ELSE {}
  IN  {id \in Listed(w) : named # {} => id \in named}
Eligible(w) == {id \in Considered(w) : CanRead(w, id, w.request.input)}
Ready(w) == {id \in Eligible(w) : w.server[id].status \in {"online", "idle"}}

PathIssues(w) ==
  LET r == w.request
      root == IF r.root # <<>> THEN r.root
              ELSE IF Given(ManifestRoot(w)) THEN RootPath(w) ELSE <<>>
  IN  If(Eligible(w) = {}, Error("no_eligible_workers"))
        \cup If(\E id \in Eligible(w) : ~ CanWrite(w, id, r.output),
                Error("output_path_not_writable"))
        \cup If(root # <<>> /\ \E id \in Eligible(w) : ~ CanWrite(w, id, root),
                Error("manifest_root_not_writable"))

\* server_versions and the workers with pressure or a backlog
HealthIssues(w) ==
  LET any(Test(_)) == \E id \in Eligible(w) : Test(w.server[id])
  IN  If(Cardinality({w.server[id].version : id \in Eligible(w)}) > 1,
         Warning("mixed_worker_versions"))
        \cup If(any(LAMBDA s : s.constrained), Warning("resource_constrained_workers"))
        \cup If(any(LAMBDA s : s.spooled > 0), Warning("worker_event_spool_backlog"))
        \cup If(any(LAMBDA s : s.pending > 0), Warning("worker_pending_shard_update_backlog"))

ProfileIssues(w) ==
  LET p == w.profile
      denied == Certified(w)
  IN  IF ~ p.chosen THEN {}
      ELSE (IF ~ p.exists THEN {Error("unknown_model_profile")}
            ELSE IF p.needsKey /\ ~ p.savedKey /\ ~ p.envKey /\ ~ w.request.key
                   THEN {Error("model_profile_missing_api_key")}
            ELSE If(p.savedKey, Warning("model_profile_saved_api_key")))
           \cup If(~ denied.ok, Error(denied.code))

RetentionIssues(control) ==
  If(control.hugeLimits, Warning("high_detail_row_limits"))

\* preflight_job
Issues(w) ==
  DeploymentIssues(w.control) \cup PathIssues(w) \cup HealthIssues(w)
    \cup ProfileIssues(w) \cup RetentionIssues(w.control)
PreflightOk(w) == \A i \in Issues(w) : i.severity # "error"

-----------------------------------------------------------------------------
(* Creating the job.                                                       *)

\* effective_job_model_config: a key comes from the request, from the variable
\* the request names, or from the profile.  A named variable must be set, and a
\* key in the request must be allowed.
ModelConfigOk(w) ==
  LET p == w.profile
      r == w.request
  IN  /\ r.key => w.control.savedKeysAllowed
      /\ r.keyVariable # "unset"
      /\ p.chosen => /\ p.exists
                     /\ \/ ~ p.needsKey
                        \/ r.key \/ r.keyVariable = "set" \/ p.savedKey \/ p.envKey

\* create: every check that can refuse a job.
Creatable(w) ==
  LET r == w.request
  IN  /\ MigrationIssue(w.control.db) = {}
      /\ ModelConfigOk(w)
      /\ r.mode = "directory" => Given(r.assigned)
      /\ Given(r.assigned) => r.assigned \in Listed(w)
      /\ r.allowed \subseteq Listed(w)
      /\ Certified(w).ok

-----------------------------------------------------------------------------
(* Properties of a world.                                                  *)

\* A worker that runs exactly what the profile was certified with.
Exact(cert, agent) ==
  /\ agent.source = cert.field["parser_revision"] /\ agent.dirty = "no"
  /\ agent.known
  /\ \A f \in RequiredOfAgents \cup OptionalOfAgents : agent.field[f] = cert.field[f]

\* Where a profile asks for certification, no worker that could be handed the
\* job runs anything but what was certified, whichever way the request names
\* its workers (certification_gate.py looks at the candidates only).
ClaimersAreCertified(w) ==
  (/\ Creatable(w)
   /\ w.profile.chosen /\ w.profile.cert.enforcement = "certified")
    => \A id \in DOMAIN w.server :
         MayClaim(w, id) => Exact(w.profile.cert, w.server[id].provenance)

\* A request the preflight passes finds a worker, and every worker that could
\* be handed the job reads its input and writes its output.  Requests name one
\* worker or some, not both: with both the job waits for the one, and the
\* preflight is content with the others.
PreflightKeepsItsWord(w) ==
  (PreflightOk(w) /\ ~ (Given(w.request.assigned) /\ w.request.allowed # {}))
    => /\ \E id \in DOMAIN w.server : MayClaim(w, id)
       /\ \A id \in DOMAIN w.server : MayClaim(w, id) =>
            CanRead(w, id, w.request.input) /\ CanWrite(w, id, w.request.output)

=============================================================================
