---------------------------- MODULE SourceReports ----------------------------
(***************************************************************************)
(* The parsers of the tools that read source code, dependencies and       *)
(* images: semgrep, gitleaks, checkov, dependency-check and trivy.  They   *)
(* decode one JSON document and turn its records into findings.  An array *)
(* entry that is not an object has none of its fields, and is dropped for *)
(* that.                                                                   *)
(***************************************************************************)
EXTENDS Findings

ParseDocument(rep, Adapt(_)) ==
  CASE rep.body \in {"garbled", "unread"} -> Failed
    [] rep.body \in {"empty", "other"} -> Parsed(<<>>)
    [] OTHER -> Parsed(Each(rep.records, Adapt))

(***************************** semgrep *************************************)

SemgrepReports ==
  Document([check_id : STRING, path : STRING, line : Int, severity : STRING])

SemgrepSeverity(s) ==
  CASE s = "ERROR" -> "high" [] s = "WARNING" -> "medium" [] OTHER -> "info"

SemgrepRecord(r) ==
  IF None \in {ExtractString(r.check_id), ExtractString(r.path)} THEN <<>>
  ELSE <<RawFinding(r, r.check_id, None, None, r.path,
                    ExtractFloat(r.line), SemgrepSeverity(r.severity))>>

SemgrepParse(rep) == ParseDocument(rep, SemgrepRecord)

(***************************** gitleaks ************************************)

GitleaksReports == Document([RuleID : STRING, File : STRING, StartLine : Int])

GitleaksRecord(r) ==
  IF None \in {ExtractString(r.RuleID), ExtractString(r.File)} THEN <<>>
  ELSE <<RawFinding(r, r.RuleID, None, None, r.File,
                    ExtractFloat(r.StartLine), "critical")>>

\* The report is the array itself: another JSON value does not decode.
GitleaksParse(rep) ==
  IF rep.body = "other" THEN Failed ELSE ParseDocument(rep, GitleaksRecord)

(***************************** checkov *************************************)

CheckovReports ==
  Document([check_id : STRING, file_path : STRING, file_line_range : Seq(Int)])

CheckovLine(r) == IF r.file_line_range = <<>> THEN 0 ELSE Head(r.file_line_range)

CheckovRecord(r) ==
  IF None \in {ExtractString(r.check_id), ExtractString(r.file_path)} THEN <<>>
  ELSE <<RawFinding(r, r.check_id, None, None, r.file_path,
                    CheckovLine(r), "medium")>>

CheckovParse(rep) == ParseDocument(rep, CheckovRecord)

(************************** dependency-check *******************************)

DepcheckReports ==
  Document([filePath : STRING, vulnerabilities : Seq([name : STRING, severity : STRING])])

DepcheckSeverity(s) ==
  CASE s = "CRITICAL" -> "critical"
    [] s = "HIGH" -> "high"
    [] s \in {"MEDIUM", "MODERATE"} -> "medium"
    [] s = "LOW" -> "low"
    [] OTHER -> "info"

VulnToFinding(d, v) ==
  RawFinding([dep |-> d.filePath, vuln |-> v.name, severity |-> v.severity],
             v.name, None, None, d.filePath, 0, DepcheckSeverity(v.severity))

\* A dependency without a path takes its vulnerabilities with it.
DepcheckDependency(d) ==
  IF ExtractString(d.filePath) = None THEN <<>>
  ELSE LET Adapt(v) == IF ExtractString(v.name) = None THEN <<>> ELSE <<VulnToFinding(d, v)>>
       IN  Each(d.vulnerabilities, Adapt)

DepcheckParse(rep) == ParseDocument(rep, DepcheckDependency)

(****************************** trivy **************************************)

CVSSRatings ==
  LET Of(vendors) == [vendors -> [V2Score : Int, V2Vector : STRING, V3Score : Int, V3Vector : STRING]]
  IN  Of({}) \cup Of({"nvd"}) \cup Of({"redhat"}) \cup Of({"ghsa"}) \cup Of({"nvd", "redhat"})
        \cup Of({"nvd", "ghsa"}) \cup Of({"redhat", "ghsa"}) \cup Of({"nvd", "redhat", "ghsa"})
TrivyReports ==
  Document([Target : STRING,
            Vulnerabilities : Seq([id : STRING, pkg : STRING, Severity : STRING, CVSS : CVSSRatings])])

MapTrivySeverity(s) ==
  CASE s = "CRITICAL" -> "critical" [] s = "HIGH" -> "high"
    [] s = "MEDIUM" -> "medium" [] s = "LOW" -> "low" [] OTHER -> "info"

\* cvss is a function from the vendors that rated the vulnerability; its
\* entries hold the scores and vectors of the versions 2 and 3, zero and None
\* where there is none.
V3Vendors(cvss) ==
  SelectSeq(<<"nvd", "redhat", "ghsa">>,
            LAMBDA v : v \in DOMAIN cvss /\ cvss[v].V3Score > 0)

ExtractCVSSScore(cvss) ==
  CASE V3Vendors(cvss) # <<>> ->
         [score |-> cvss[Head(V3Vendors(cvss))].V3Score, vendor |-> Head(V3Vendors(cvss))]
    [] V3Vendors(cvss) = <<>> /\ "nvd" \in DOMAIN cvss /\ cvss["nvd"].V2Score > 0 ->
         [score |-> cvss["nvd"].V2Score, vendor |-> "nvd-v2"]
    [] OTHER -> [score |-> 0, vendor |-> None]

ExtractCVSSVector(cvss, vendor) ==
  CASE vendor = None -> None
    [] vendor = "nvd-v2" -> cvss["nvd"].V2Vector
    [] OTHER -> cvss[vendor].V3Vector

\* Neither the vulnerability nor the package reaches a field of the
\* fingerprint: they go to the title, the component name and the metadata.
BuildVulnFinding(r, v) ==
  LET rated == ExtractCVSSScore(v.CVSS)
  IN  [RawFinding([target |-> r.Target, vuln |-> v], "vulnerability", None, None,
                  None, 0, MapTrivySeverity(v.Severity))
         EXCEPT !.cvss = <<rated.score, ExtractCVSSVector(v.CVSS, rated.vendor)>>]

TrivyResult(r) ==
  LET Adapt(v) == <<BuildVulnFinding(r, v)>> IN Each(r.Vulnerabilities, Adapt)

ParseTrivyJSON(rep) ==
  CASE rep.body \in {"garbled", "empty"} -> Failed
    [] rep.body = "other" -> Parsed(<<>>)
    [] OTHER -> Parsed(Each(rep.records, TrivyResult))
=============================================================================
