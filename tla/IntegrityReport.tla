--------------------------- MODULE IntegrityReport ---------------------------
(***************************************************************************)
(* The audit of a manifest against its files, which the code has twice:    *)
(* the control plane computes it from what it can read itself              *)
(* (control/domains/manifests/integrity.py), an agent computes it on       *)
(* shared storage for a control plane that cannot                          *)
(* (agent/manifest_integrity.py).  The freeze report and the job page      *)
(* condense either of them into a number of issues.                        *)
(*                                                                         *)
(* A JSONL file is a state and a sequence of rows; a row has a relative    *)
(* path and a size, or a kind of damage.  Counts are integers, Absent and  *)
(* Invalid stand for a missing number and for one that does not parse.     *)
(***************************************************************************)
EXTENDS Integers, Sequences

Absent == -1
Invalid == -2
IsNumber(n) == n >= 0

-----------------------------------------------------------------------------
(* Reading a file of rows.                                                 *)

NoRows(error) == [error |-> error, count |-> 0, paths |-> {}, bytes |-> 0]
Readable(rows) == rows.error = "none"

\* The first row that is damaged or repeats a path ends the reading.
ReadRow(rows, row) ==
  IF ~ Readable(rows) THEN rows
  ELSE IF row.kind # "ok" THEN NoRows(row.kind)
  ELSE IF row.path \in rows.paths THEN NoRows("duplicate_relative_path")
  ELSE [rows EXCEPT !.count = @ + 1, !.paths = @ \cup {row.path}, !.bytes = @ + row.size]

\* What is known after so many rows.
ReadSoFar(rows) ==
  LET after[i \in 0 .. Len(rows)] ==
        IF i = 0 THEN NoRows("none") ELSE ReadRow(after[i - 1], rows[i])
  IN  after

ReadRows(file) ==
  IF file.state # "present" THEN NoRows(file.state) ELSE ReadSoFar(file.rows)[Len(file.rows)]

Exists(file) == file.state # "missing"

SumsOf(amounts) ==
  LET upto[i \in 0 .. Len(amounts)] == IF i = 0 THEN 0 ELSE upto[i - 1] + amounts[i]
  IN  upto
SumOf(amounts) == SumsOf(amounts)[Len(amounts)]

-----------------------------------------------------------------------------
(* The manifest file and its metadata file.                                *)

ManifestEvidence(m) ==
  LET rows == ReadRows(m.file)
      counted == Readable(rows) /\ rows.count = m.file_count
      weighed == Readable(rows) /\ rows.bytes = m.total_bytes
  IN  [exists |-> Exists(m.file), count_matches |-> counted, bytes_match |-> weighed,
       error |-> ~ Readable(rows) \/ (counted /\ ~ weighed),
       known |-> Readable(rows), paths |-> rows.paths]

\* What the metadata file says, as both implementations see it: no path, no
\* file, an error, or numbers.
NoMeta == [named |-> FALSE, missing |-> FALSE, error |-> FALSE,
           count_matches |-> FALSE, weighed |-> FALSE, bytes_match |-> FALSE]

\* _read_manifest_meta_evidence: one error hides the checks after it.
ControlMeta(m) ==
  LET meta == m.meta
      read == meta.state = "object"
      counted == read /\ IsNumber(meta.file_count)
      weighed == counted /\ IsNumber(meta.total_bytes)
  IN  IF ~ meta.named THEN NoMeta
      ELSE [named |-> TRUE, missing |-> meta.state = "missing",
            count_matches |-> counted /\ meta.file_count = m.file_count,
            weighed |-> weighed,
            bytes_match |-> weighed /\ meta.total_bytes = m.total_bytes,
            error |-> \/ meta.state \notin {"missing", "object"}
                      \/ read /\ ~ counted
                      \/ counted /\ meta.total_bytes = Invalid
                      \/ weighed /\ meta.total_bytes # m.total_bytes]

\* _read_meta_counts and the comparisons after it.
WorkerMeta(m) ==
  LET meta == m.meta
      read == meta.state = "object"
      counted == read /\ IsNumber(meta.file_count)
      weighed == counted /\ IsNumber(meta.total_bytes)
      readError == \/ meta.state \notin {"missing", "object"}
                   \/ read /\ (~ counted \/ meta.total_bytes = Invalid)
  IN  IF ~ meta.named
        THEN [NoMeta EXCEPT !.count_matches = TRUE, !.bytes_match = TRUE]
        ELSE [named |-> TRUE, missing |-> meta.state = "missing",
              count_matches |-> counted /\ meta.file_count = m.file_count,
              weighed |-> weighed,
              bytes_match |-> weighed => meta.total_bytes = m.total_bytes,
              error |-> readError \/ (weighed /\ meta.total_bytes # m.total_bytes)]

-----------------------------------------------------------------------------
(* The shards.                                                             *)

NothingSeen == [seen |-> {}, bad |-> 0]

\* A bug to test with: a shard may name files its manifest does not.
ControlShardAnyPath(reference, acc, shard) ==
  LET rows == ReadRows(shard.file)
      bad == ~ Readable(rows) \/ rows.paths \cap acc.seen # {} \/ rows.count # shard.expected
  IN  [seen |-> acc.seen \cup rows.paths, bad |-> acc.bad + IF bad THEN 1 ELSE 0]

\* _audit_shards: a shard that repeats a path, or names one the reference does
\* not (if there is a reference), is bad and its paths are forgotten.
ControlShard(reference, acc, shard) ==
  LET rows == ReadRows(shard.file)
      refused == \/ ~ Readable(rows)
                 \/ rows.paths \cap acc.seen # {}
                 \/ reference.known /\ ~ rows.paths \subseteq reference.paths
  IN  [seen |-> IF refused THEN acc.seen ELSE acc.seen \cup rows.paths,
       bad |-> acc.bad + IF refused \/ rows.count # shard.expected THEN 1 ELSE 0]

\* build_worker_manifest_integrity_report: the paths of every readable shard count.
WorkerShard(reference, acc, shard) ==
  LET rows == ReadRows(shard.file)
      bad == \/ ~ Readable(rows)
             \/ rows.paths \cap acc.seen # {}
             \/ reference.known /\ ~ rows.paths \subseteq reference.paths
             \/ rows.count # shard.expected
  IN  [seen |-> acc.seen \cup rows.paths, bad |-> acc.bad + IF bad THEN 1 ELSE 0]

\* The shards one after the other.
ControlShards(reference, shards) ==
  LET after[i \in 0 .. Len(shards)] ==
        IF i = 0 THEN NothingSeen ELSE ControlShard(reference, after[i - 1], shards[i])
  IN  after
WorkerShards(reference, shards) ==
  LET after[i \in 0 .. Len(shards)] ==
        IF i = 0 THEN NothingSeen ELSE WorkerShard(reference, after[i - 1], shards[i])
  IN  after

Expected(files) == [i \in 1 .. Len(files) |-> files[i].expected]
ExpectedFiles(shards) == SumOf(Expected(shards))

-----------------------------------------------------------------------------
(* The scan units of a manifest that was scanned in parts (control only).  *)

\* _scan_unit_meta_issues, as a number of issues.
UnitMetaIssues(unit) ==
  LET meta == unit.meta
      wrong(n, expected) == n # Absent /\ n # expected
      one(condition) == IF condition THEN 1 ELSE 0
  IN  IF ~ meta.named THEN 0
      ELSE IF meta.state # "object" THEN 1
      ELSE one(wrong(meta.file_count, unit.expected)) + one(wrong(meta.total_bytes, unit.bytes))

NoUnits == [known |-> TRUE, paths |-> {}, count |-> 0, bytes |-> 0, bad |-> 0]

\* One step of _audit_scan_units.
AuditUnit(acc, unit) ==
  LET rows == ReadRows(unit.file)
      miscounted == IF rows.count # unit.expected THEN 1 ELSE 0
  IN  IF ~ Readable(rows) \/ rows.paths \cap acc.paths # {}
        THEN [acc EXCEPT !.known = FALSE, !.bad = @ + 1]
      ELSE IF rows.bytes # unit.bytes
        THEN [acc EXCEPT !.known = FALSE, !.paths = @ \cup rows.paths,
                         !.count = @ + rows.count, !.bad = @ + miscounted + 1]
      ELSE [acc EXCEPT !.paths = @ \cup rows.paths, !.count = @ + rows.count,
                       !.bytes = @ + rows.bytes,
                       !.bad = @ + miscounted + UnitMetaIssues(unit)]

AuditUnits(units) ==
  LET after[i \in 0 .. Len(units)] ==
        IF i = 0 THEN NoUnits ELSE AuditUnit(after[i - 1], units[i])
  IN  after

ScanAudit(m) ==
  LET audit == AuditUnits(m.units)[Len(m.units)]
      expected == ExpectedFiles(m.units)
      weight == SumOf([i \in 1 .. Len(m.units) |-> m.units[i].bytes])
      sound == m.units # <<>> /\ audit.known /\ audit.bad = 0
  IN  [units |-> Len(m.units), bad |-> audit.bad, paths |-> audit.paths,
       expected |-> expected,
       count_matches |-> sound /\ audit.count = expected /\ expected = m.file_count,
       bytes_match |-> sound /\ audit.bytes = weight /\ weight = m.total_bytes]

-----------------------------------------------------------------------------
(* The reports.                                                            *)

\* A bug to test with: a metadata file must give a total
MetaOkWeighed(meta) ==
  /\ ~ meta.missing /\ ~ meta.error
  /\ meta.named => meta.count_matches /\ meta.bytes_match

MetaOk(meta) ==
  /\ ~ meta.missing /\ ~ meta.error
  /\ meta.named => meta.count_matches /\ (meta.weighed => meta.bytes_match)

Report(ok, status, evidence, meta, scan, shards, covered) ==
  [ok |-> ok, status |-> status, manifest |-> evidence, meta |-> meta, units |-> scan.units,
   unitsMatch |-> scan.count_matches /\ scan.bytes_match, badUnits |-> scan.bad,
   badShards |-> shards.bad, covered |-> covered]

Verdict(ok) == IF ok THEN "ok" ELSE "failed"

\* _build_manifest_integrity_response.
OwnResponse(m, evidence, meta, scan) ==
  LET scanned == scan.units > 0
      reference == IF scanned THEN [known |-> TRUE, paths |-> scan.paths]
                     ELSE [known |-> evidence.known, paths |-> evidence.paths]
      shards == ControlShards(reference, m.shards)[Len(m.shards)]
      covered == ExpectedFiles(m.shards) = IF scanned THEN scan.expected ELSE m.file_count
      whole == IF scanned THEN scan.count_matches /\ scan.bytes_match
                 ELSE /\ evidence.exists /\ evidence.count_matches
                      /\ ~ evidence.error /\ evidence.bytes_match
                      /\ MetaOk(meta)
      ok == whole /\ covered /\ scan.bad = 0 /\ shards.bad = 0
  IN  Report(ok, Verdict(ok), evidence, meta, scan, shards, covered)

OwnReport(m) == OwnResponse(m, ManifestEvidence(m), ControlMeta(m), ScanAudit(m))

\* build_worker_manifest_integrity_report.
WorkerResponse(m, evidence, meta) ==
  LET shards == WorkerShards(evidence, m.shards)[Len(m.shards)]
      covered == ExpectedFiles(m.shards) = m.file_count
      ok == /\ evidence.exists /\ ~ evidence.error
            /\ evidence.count_matches /\ evidence.bytes_match
            /\ ~ meta.missing /\ ~ meta.error
            /\ meta.count_matches /\ meta.bytes_match
            /\ covered /\ shards.bad = 0
  IN  Report(ok, Verdict(ok), evidence, meta,
             [units |-> 0, count_matches |-> FALSE, bytes_match |-> FALSE, bad |-> 0],
             shards, covered)

WorkerReport(m) == WorkerResponse(m, ManifestEvidence(m), WorkerMeta(m))

\* _worker_only_integrity_response: what cannot be read here but by a worker.
Inaccessible(m) ==
  Report(FALSE, "not_accessible_from_control", ManifestEvidence(m),
         [NoMeta EXCEPT !.named = m.meta.named, !.missing = m.meta.named],
         [units |-> 0, count_matches |-> FALSE, bytes_match |-> FALSE, bad |-> 0],
         NothingSeen, ExpectedFiles(m.shards) = m.file_count)

\* _assemble_manifest_integrity_report; `stored` holds the report of a worker
\* that the row carries, if any.
ControlReport(m, shared, stored) ==
  IF ~ Exists(m.file) /\ shared /\ m.units = <<>>
    THEN IF stored # <<>> THEN stored[1] ELSE Inaccessible(m)
    ELSE OwnReport(m)

\* A bug to test with: shards that do not add up are no issue
IssueCountOfParts(report) ==
  report.badUnits + report.badShards
    + IF report.ok \/ report.units > 0 \/ report.manifest.exists THEN 0 ELSE 1

\* _manifest_integrity_freeze_summary: integrity_issue_count.
IssueCount(report) ==
  LET one(condition) == IF condition THEN 1 ELSE 0
      file == report.manifest
      meta == report.meta
      source == IF report.units > 0 THEN one(~ report.unitsMatch)
                ELSE one(~ file.exists \/ ~ file.count_matches \/ ~ file.bytes_match \/ file.error)
                     + one(\/ meta.missing \/ meta.error
                           \/ meta.named /\ ~ meta.count_matches
                           \/ meta.named /\ meta.weighed /\ ~ meta.bytes_match)
  IN  report.badUnits + report.badShards
        + IF report.ok THEN 0 ELSE source + one(~ report.covered)

-----------------------------------------------------------------------------
(* Properties of a manifest with its files.                                *)

Readables(files) == {i \in DOMAIN files : Readable(ReadRows(files[i].file))}
PathsOf(file) == ReadRows(file).paths

\* The two implementations of the audit come to one verdict on a manifest that
\* was not scanned in parts, whoever can read it; and what the job page condenses
\* a report to says that something is wrong exactly if the report does.
VerdictsAgree(m) ==
  /\ m.units = <<>> => (OwnReport(m).ok <=> WorkerReport(m).ok)
  /\ \A report \in {OwnReport(m), WorkerReport(m)} : report.ok <=> IssueCount(report) = 0

\* A good verdict means that every file is in exactly one shard: the shards
\* name the paths of the manifest, or of its scan units, and share none.
OkMeansCovered(m) ==
  LET sources == IF m.units = <<>> THEN {PathsOf(m.file)}
                   ELSE {PathsOf(m.units[i].file) : i \in DOMAIN m.units}
  IN  OwnReport(m).ok =>
        /\ Readables(m.shards) = DOMAIN m.shards
        /\ UNION {PathsOf(m.shards[i].file) : i \in DOMAIN m.shards} = UNION sources
        /\ \A i, j \in DOMAIN m.shards :
             i # j => PathsOf(m.shards[i].file) \cap PathsOf(m.shards[j].file) = {}

=============================================================================
