------------------------------- MODULE Reports -------------------------------
(***************************************************************************)
(* From a tool's output to the findings of its job: the arguments are      *)
(* built, the output is parsed by the tool's own parser, nikto's findings *)
(* are verified against the site, and the runner (NativeRunner.Run,       *)
(* DockerRunner.Run, ServiceRunner.Run) gives every finding its tool and  *)
(* its fingerprint, the key by which findings are told apart later.       *)
(***************************************************************************)
EXTENDS SourceReports, WebReports, LineReports, MobileReports, NiktoVerify, NmapTarget

CONSTANT Inputs      \* tool -> the reports it may produce

\* What a tool may write, and for nmap what it may be asked.
ReportsOf(t) ==
  CASE t = "semgrep" -> SemgrepReports
    [] t = "gitleaks" -> GitleaksReports
    [] t = "checkov" -> CheckovReports
    [] t = "depcheck" -> DepcheckReports
    [] t = "trivy" -> TrivyReports
    [] t = "nuclei" -> NucleiReports
    [] t = "wapiti" -> WapitiReports
    [] t = "zap" -> ZapReports
    [] t = "nmap" -> [body : STRING, records : NmapHosts, target : Spelling, allowPrivate : BOOLEAN]
    [] t = "sslyze" -> SslyzeReports
    [] t = "corstest" -> CorsReports
    [] t = "sqlmap" -> SqlmapReports
    [] t = "mobsf" -> MobSFReports
    [] t = "nikto" -> NiktoReports
    [] OTHER -> {}

ASSUME InputsAssumption == \A t \in DOMAIN Inputs : Inputs[t] \subseteq ReportsOf(t)

VARIABLES tool, report,
          phase,     \* asked, raw, verify, enrich, done
          argv,      \* the target nmap is started with, if any
          outcome,   \* ok | error | panic
          findings

runVars == <<tool, report, phase, argv, outcome, findings>>
vars == <<runVars, verifyVars, siteVars>>

\* What the tool's parser makes of the report; ZAP's and MobSF's reports come
\* over HTTP, the others from stdout or the output file.
ParseOutput ==
  CASE tool = "semgrep" -> SemgrepParse(report)
    [] tool = "gitleaks" -> GitleaksParse(report)
    [] tool = "checkov" -> CheckovParse(report)
    [] tool = "depcheck" -> DepcheckParse(report)
    [] tool = "trivy" -> ParseTrivyJSON(report)
    [] tool = "nuclei" -> NucleiParse(report)
    [] tool = "wapiti" -> WapitiParse(report)
    [] tool = "zap" -> ParseAlerts(report)
    [] tool = "nmap" -> NmapParse(report)
    [] tool = "sslyze" -> SslyzeParse(report)
    [] tool = "corstest" -> CorsParse(CorsOutput(report.hosts))
    [] tool = "sqlmap" -> ParseSQLMapOutput(IF report.silent THEN <<>> ELSE SqlmapOutput(report))
    [] tool = "mobsf" -> ParseReport(report)
    [] tool = "nikto" -> NiktoParse(report)

\* The uris nikto reported.
ReportedURIs ==
  IF tool # "nikto" THEN {}
  ELSE {it.uri : it \in UNION {Range(d.items) : d \in Range(ScanDetails(report))}} \ {NoPath, Root}

Init ==
  /\ tool \in DOMAIN Inputs
  /\ report \in Inputs[tool]
  /\ phase = "asked" /\ argv = {} /\ outcome = "ok" /\ findings = <<>>
  /\ VerifyInit
  /\ IF tool = "nikto" THEN SiteInit(ReportedURIs)
     ELSE real = {} /\ serves = [d \in Dirs |-> "404"] /\ site = "up" /\ flaps = 0 /\ everBlocked = FALSE

\* nmap's target is checked; a refused one leaves no command to run.
AskNmap ==
  /\ phase = "asked" /\ tool = "nmap"
  /\ argv' = BuildArgs(report.target, report.allowPrivate)
  /\ IF argv' = {} THEN phase' = "done" /\ outcome' = "error"
     ELSE phase' = "raw" /\ UNCHANGED outcome
  /\ UNCHANGED <<tool, report, findings, verifyVars, siteVars>>

AskOther ==
  /\ phase = "asked" /\ tool # "nmap"
  /\ phase' = "raw"
  /\ UNCHANGED <<tool, report, argv, outcome, findings, verifyVars, siteVars>>

Parse ==
  /\ phase = "raw"
  /\ outcome' = ParseOutput.outcome
  /\ findings' = ParseOutput.findings
  /\ phase' = CASE outcome' # "ok" -> "done"
                [] outcome' = "ok" /\ tool = "nikto" -> "verify"
                [] OTHER -> "enrich"
  /\ UNCHANGED <<tool, report, argv, verifyVars, siteVars>>

BeginVerify == phase = "verify" /\ Begin(findings) /\ UNCHANGED runVars

Verify == phase = "verify" /\ VerifyNext /\ UNCHANGED runVars

EndVerify ==
  /\ phase = "verify" /\ vstep = "done"
  /\ findings' = kept
  /\ phase' = "enrich"
  /\ UNCHANGED <<tool, report, argv, outcome, verifyVars, siteVars>>

Enrich ==
  /\ phase = "enrich"
  /\ findings' = [i \in DOMAIN findings |->
                    [findings[i] EXCEPT !.fingerprint = ComputeFingerprint(tool, findings[i])]]
  /\ phase' = "done"
  /\ UNCHANGED <<tool, report, argv, outcome, verifyVars, siteVars>>

Next == AskNmap \/ AskOther \/ Parse \/ BeginVerify \/ Verify \/ EndVerify \/ Enrich

Spec == Init /\ [][Next]_vars

(****************************** properties *********************************)

\* Every finding that leaves a parser is rated on the platform's scale (the
\* API refuses any other word), and only a finished parse has findings.
TypeOK ==
  /\ phase \in {"asked", "raw", "verify", "enrich", "done"}
  /\ outcome \in {"ok", "error", "panic"}
  /\ vstep \in {"off", "pick", "control", "done"}
  /\ \A f \in Range(findings) : f.severity \in Severities
  /\ outcome # "ok" => findings = <<>>

Enriched == IF phase = "done" THEN findings ELSE <<>>

\* What a report tells apart: the rule and the place.  The parsers know less
\* than the tools: nuclei's matcher names are dropped, and of a path wapiti's
\* leading slash.
Identity(f) ==
  LET r == f.from
  IN  CASE tool = "semgrep" -> <<r.check_id, r.path, ExtractFloat(r.line)>>
        [] tool = "gitleaks" -> <<r.RuleID, r.File, ExtractFloat(r.StartLine)>>
        [] tool = "checkov" -> <<r.check_id, r.file_path, CheckovLine(r)>>
        [] tool = "depcheck" -> <<r.vuln, r.dep>>
        [] tool = "nuclei" ->
             <<r.template_id, IF ExtractString(r.matched_at) = None THEN r.host ELSE r.matched_at>>
        [] tool = "wapiti" -> <<r.class.title, r.path.rest, ExtractString(r.parameter)>>
        [] tool = "zap" -> <<r.pluginId, r.url, r.param>>
        [] OTHER -> r

PlacedTools == {"semgrep", "gitleaks", "checkov", "depcheck", "nuclei", "wapiti", "zap", "nmap", "sslyze"}

\* Two records of a report that differ in their rule or in their place get
\* different fingerprints, for every tool whose parser places its findings:
\* the deduplication that is keyed by the fingerprint never merges them.  The
\* exception is the one fingerprint.go names: a field that contains a bar.
ToldApart ==
  tool \in PlacedTools =>
    \A i, j \in DOMAIN Enriched :
      NoBars(Enriched[i]) /\ NoBars(Enriched[j]) /\ Identity(Enriched[i]) # Identity(Enriched[j])
        => Enriched[i].fingerprint # Enriched[j].fingerprint

\* The tool's own scale, from its mildest word up; zero for what is not on it.
Place(scale, word) == SelectInSeq(scale, LAMBDA words : word \in words)

ToolRank(f) ==
  LET r == f.from
  IN  CASE tool = "semgrep" -> Place(<<{"INFO"}, {"WARNING"}, {"ERROR"}>>, r.severity)
        [] tool = "depcheck" ->
             Place(<<{"LOW"}, {"MEDIUM", "MODERATE"}, {"HIGH"}, {"CRITICAL"}>>, r.severity)
        [] tool = "trivy" -> Place(<<{"LOW"}, {"MEDIUM"}, {"HIGH"}, {"CRITICAL"}>>, r.vuln.Severity)
        [] tool = "nuclei" -> Place(<<{"info"}, {"low"}, {"medium"}, {"high"}, {"critical"}>>, r.severity)
        [] tool = "wapiti" -> IF r.level \in 1..5 THEN r.level ELSE 0
        [] tool = "zap" -> Place(<<{"Informational"}, {"Low"}, {"Medium"}, {"High"}>>, r.risk)
        [] tool = "mobsf" ->
             IF "severity" \in DOMAIN r THEN Place(<<{"info"}, {"warning"}, {"high"}>>, r.severity) ELSE 0
        [] OTHER -> 0

SeverityRank(s) == Place(<<{"info"}, {"low"}, {"medium"}, {"high"}, {"critical"}>>, s)

\* The order of severity survives the parsers: of two findings of one report,
\* the one its tool rates higher is rated higher on the platform's scale.
RankKept ==
  \A i, j \in DOMAIN findings :
    LET a == ToolRank(findings[i])  b == ToolRank(findings[j])
    IN  a > b /\ b > 0 => SeverityRank(findings[i].severity) > SeverityRank(findings[j].severity)

\* An address that net.ParseIP reads is checked as nmap gets it, whatever
\* scheme, brackets, port and path surround it: nmap is never started on one
\* of a range that is refused, nor on a private one unless the job allows it.
\* That is all the check promises: a name, and an address only nmap can read
\* (127.1, 10.0.0.*), is started on unchecked.
RefusedNeverScanned ==
  \A a \in argv :
    a.form = "literal" => /\ a.ranges \ {"private"} = {}
                          /\ "private" \in a.ranges => report.allowPrivate

\* corstest: one finding, in order, for every host it calls vulnerable after
\* telling anything of it, with that host's own fields, whatever became of the
\* hosts before it: interrupted, in error, or not vulnerable.  From the first
\* host with an over-long line on, the output is not read.
CorsExact ==
  tool = "corstest" /\ phase = "done" =>
    LET Told(h) == [k \in Range(CorsKeys) |->
                      LET n == SelectInSeq(CorsKeys, LAMBDA x : x = k)
                      IN  IF n <= h.printed THEN h.values[n] ELSE None]
        cut == SelectInSeq(report.hosts, LAMBDA h : h.long)
        heard == IF cut = 0 THEN report.hosts ELSE SubSeq(report.hosts, 1, cut - 1)
        Vulnerable == Select(heard, LAMBDA h : h.status = "Vulnerable" /\ Told(h) # Pending)
    IN  [i \in DOMAIN findings |-> findings[i].from]
          = [i \in DOMAIN Vulnerable |-> [host |-> Vulnerable[i].host, fields |-> Told(Vulnerable[i])]]

\* sqlmap: a whole report yields every technique of every parameter once, in
\* order, with its own title and payload and under its own parameter.
SqlmapExact ==
  tool = "sqlmap" /\ phase = "done" /\ ~report.silent /\ ~report.cut =>
    LET Own(p) == [i \in DOMAIN p.techniques |->
                     LET t == p.techniques[i]
                     IN  [param |-> p.name, type |-> t.type, title |-> t.title, payload |-> t.payload]]
        told == FlattenSeq([i \in DOMAIN report.params |-> Own(report.params[i])])
        injections == Select(findings, LAMBDA f : f.type = "sql_injection")
    IN  [i \in DOMAIN injections |-> injections[i].from] = told

\* nikto: when the site stays up and the budget lasts, a verified finding that
\* is kept is about a file the site really has, unless it is too large to
\* compare: what a catch-all route made up is gone.
PhantomsDropped ==
  vstep = "done" /\ DOMAIN cache # {} /\ passCtx = "live" /\ flaps = 0 /\ site = "up" =>
    \A f \in Range(kept) :
      IsExistenceCheck(f.type) /\ ControlURLFor(f.url) # {} => f.url.uri \in real

\* nikto: the pass drops only findings of the three file-existence categories
\* that have a sibling to compare with, and one about a file the site really
\* has only while the site answers every path with one and the same page; the
\* others stay, in their order.
RealFileKept ==
  /\ \A f \in Range(dropped) :
       /\ f.url.uri \in real => everBlocked
       /\ f.type \in {<<"nikto", "interesting-file">>, <<"nikto", "misconfiguration">>,
                      <<"nikto", "info-disclosure">>}
       /\ f.url.uri.bucket \notin {"absent", "root", "odd"}
  /\ tool = "nikto" /\ phase = "done" /\ outcome = "ok" =>
       LET left == Without(NiktoParse(report).findings, Range(dropped))
       IN  [i \in DOMAIN findings |-> findings[i].from] = [i \in DOMAIN left |-> left[i].from]
=============================================================================
