----------------------------- MODULE WebReports -----------------------------
(***************************************************************************)
(* The parsers of the tools that scan a running target: nuclei, wapiti,   *)
(* ZAP, nmap and sslyze.  Where the code ranges over a Go map (wapiti's   *)
(* classes, sslyze's plugins) the report lists the entries in the order   *)
(* the iteration happens to take.                                         *)
(***************************************************************************)
EXTENDS Findings

(****************************** nuclei *************************************)

NucleiReports ==
  Document([kind : STRING, template_id : STRING, matched_at : STRING, host : STRING, severity : STRING])

NucleiSeverity(s) == IF s \in Severities THEN s ELSE "info"

\* Mutant: the place of the match is forgotten, as if only the template mattered.
LineToFindingUnplaced(l) ==
  IF l.kind # "json" \/ ExtractString(l.template_id) = None THEN <<>>
  ELSE <<RawFinding(l, l.template_id, None, None, None, 0, NucleiSeverity(l.severity))>>

LineToFinding(l) ==
  LET at  == ExtractString(l.matched_at)
      url == IF at = None THEN ExtractString(l.host) ELSE at
  IN  IF l.kind # "json" \/ ExtractString(l.template_id) = None \/ url = None THEN <<>>
      ELSE <<RawFinding(l, l.template_id, url, None, None, 0, NucleiSeverity(l.severity))>>

NucleiParse(rep) ==
  IF rep.body = "empty" THEN Parsed(<<>>)
  ELSE Parsed(Each(Scanned(rep.records), LineToFinding))

(****************************** wapiti *************************************)

\* A path is a slash or none and the rest, a target a text and a slash at its
\* end or none; what is absent or mistyped reads as the empty string.
Paths == [slash : BOOLEAN, rest : STRING]
EmptyPath == [slash |-> FALSE, rest |-> None]
EmptyTarget == [text |-> None, slash |-> FALSE]

\* No two classes have the same slug.
WapitiReports ==
  {rep \in [target : [text : STRING, slash : BOOLEAN], body : STRING,
            records : Seq([class : [title : STRING, slug : STRING], path : Paths,
                           parameter : STRING, level : Int])] :
     \A r, q \in Range(rep.records) : r.class.slug = q.class.slug => r.class = q.class}

\* Mutant: the levels counted from the other end.
WapitiSeverityReversed(level) ==
  IF level \in 1..5 THEN <<"critical", "high", "medium", "low", "info">>[level] ELSE "info"

WapitiSeverity(level) ==
  IF level \in 1..5 THEN <<"info", "low", "medium", "high", "critical">>[level] ELSE "info"

\* The URL, as the text before the slash between target and path, whether it
\* is there, and what follows it: between two texts there is exactly one.
CombineTargetPath(base, path) ==
  CASE base = EmptyTarget -> <<None, path.slash, path.rest>>
    [] base # EmptyTarget /\ path = EmptyPath -> <<base.text, base.slash, None>>
    [] OTHER -> <<base.text, TRUE, path.rest>>

InstanceToFinding(base, v) ==
  RawFinding(v, <<"wapiti", v.class.slug>>, CombineTargetPath(base, v.path),
             ExtractString(v.parameter), None, 0, WapitiSeverity(ExtractFloat(v.level)))

WapitiParse(rep) ==
  LET Adapt(v) == <<InstanceToFinding(rep.target, v)>>
  IN  CASE rep.body \in {"garbled", "unread"} -> Failed
        [] rep.body \in {"empty", "other"} -> Parsed(<<>>)
        [] OTHER -> Parsed(Each(rep.records, Adapt))

(******************************** ZAP **************************************)

ZapReports == Document([pluginId : STRING, url : STRING, param : STRING, risk : STRING])

\* None: the alert is dropped.
MapZAPRisk(risk) ==
  CASE risk = "High" -> "high" [] risk = "Medium" -> "medium"
    [] risk = "Low" -> "low" [] risk = "Informational" -> "info" [] OTHER -> None

ZapAlert(a) ==
  IF MapZAPRisk(a.risk) = None THEN <<>>
  ELSE <<RawFinding(a, a.pluginId, a.url, a.param, None, 0, MapZAPRisk(a.risk))>>

ParseAlerts(rep) ==
  CASE rep.body = "whole" -> Parsed(Each(rep.records, ZapAlert))
    [] rep.body = "other" -> Parsed(<<>>)
    [] OTHER -> Failed

(******************************* nmap **************************************)

\* Two hosts with different lists of addresses have none in common, and not
\* both of them are without an address.
NmapHosts ==
  {hosts \in Seq([state : STRING, addresses : Seq([addr : STRING, addrtype : STRING]),
                  ports : Seq([protocol : STRING, portid : Int, state : STRING])]) :
     \A h, k \in Range(hosts) :
       LET Given(g) == {a.addr : a \in Range(g.addresses)} \ {None}
       IN  h.addresses # k.addresses => Given(h) # Given(k) /\ Given(h) \cap Given(k) = {}}

PrimaryAddress(addrs) ==
  LET Of(kind) == Select(addrs, LAMBDA a : a.addrtype = kind /\ a.addr # None)
      ranked == Of("ipv4") \o Of("ipv6") \o Of("mac")
                  \o Select(addrs, LAMBDA a : a.addr # None)
  IN  IF ranked = <<>> THEN None ELSE Head(ranked).addr

BuildFinding(h, p) ==
  RawFinding([host |-> h.addresses, port |-> p.portid, protocol |-> p.protocol],
             <<"open-port", p.protocol>>, <<PrimaryAddress(h.addresses), p.portid>>,
             None, None, 0, "info")

NmapHost(h) ==
  LET Adapt(p) == IF p.state = "open" THEN <<BuildFinding(h, p)>> ELSE <<>>
  IN  IF h.state # "up" THEN <<>> ELSE Each(h.ports, Adapt)

NmapParse(rep) ==
  CASE rep.body \in {"garbled", "empty"} -> Failed
    [] rep.body = "other" -> Parsed(<<>>)
    [] OTHER -> Parsed(Each(rep.records, NmapHost))

(****************************** sslyze *************************************)

\* A server without a port is written -1; every server has its name.
SslyzeReports ==
  Document([scan_status : STRING, hostname : STRING \ {None, Mistyped}, port : {-1} \cup (Nat \ {0}),
            plugins : Seq([key : STRING \ {"certificate_info"}, answer : STRING]
                            \cup [key : {"certificate_info"},
                                  deployments : Seq([matches : STRING, sha1 : STRING])])])

\* The rows of the code's table that a rule below reads; every other is medium.
PluginSeverity(type) ==
  CASE type \in {"ssl-heartbleed", "ssl-robot", "ssl-2.0-supported"} -> "critical"
    [] type \in {"ssl-3.0-supported", "ssl-ccs-injection", "ssl-cert-hostname-mismatch"} -> "high"
    [] type = "ssl-no-extended-master-secret" -> "low"
    [] OTHER -> "medium"

\* What each registered plugin reports, the answer that makes it a finding, and
\* how bad that is.
PluginRules ==
  LET Rule(type, bad) == [type |-> type, bad |-> bad, severity |-> PluginSeverity(type)]
      Protocol(type, row) == [type |-> type, bad |-> "true", severity |-> PluginSeverity(row)]
  IN  [heartbleed                 |-> Rule("ssl-heartbleed", "true"),
       robot                      |-> Rule("ssl-robot", "any"),
       openssl_ccs_injection      |-> Rule("ssl-ccs-injection", "true"),
       tls_compression            |-> Rule("ssl-compression-supported", "true"),
       session_renegotiation      |-> Rule("ssl-insecure-renegotiation", "false"),
       tls_extended_master_secret |-> Rule("ssl-no-extended-master-secret", "false"),
       ssl_2_0_cipher_suites      |-> Protocol("ssl-ssl-2.0-supported", "ssl-2.0-supported"),
       ssl_3_0_cipher_suites      |-> Protocol("ssl-ssl-3.0-supported", "ssl-3.0-supported"),
       tls_1_0_cipher_suites      |-> Protocol("ssl-tls-1.0-supported", "ssl-tls-1.0-supported"),
       tls_1_1_cipher_suites      |-> Protocol("ssl-tls-1.1-supported", "ssl-tls-1.1-supported")]

\* A missing or mistyped answer never makes a finding; of robot every word does
\* that does not begin with NOT_VULNERABLE.
Bad(rule, answer) ==
  IF rule.bad = "any" THEN answer \notin {"missing", "NOT_VULNERABLE"} ELSE answer = rule.bad

DeriveTargetHostport(s) ==
  CASE ExtractString(s.hostname) = None -> <<>>
    [] ExtractString(s.hostname) # None /\ ExtractFloat(s.port) = 0 -> <<s.hostname>>
    [] OTHER -> <<s.hostname, s.port>>

SslyzeFinding(s, type, severity) ==
  <<RawFinding([rule |-> type, hostname |-> s.hostname, port |-> s.port], type,
               DeriveTargetHostport(s), None, None, 0, severity)>>

RuleCertificateInfo(s, dep) ==
  LET Issue(type) == SslyzeFinding(s, type, PluginSeverity(type))
  IN  (IF dep.matches = "false" THEN Issue("ssl-cert-hostname-mismatch") ELSE <<>>)
        \o (IF dep.sha1 = "true" THEN Issue("ssl-cert-sha1-signature") ELSE <<>>)

PluginFindings(s, p) ==
  LET Cert(dep) == RuleCertificateInfo(s, dep)
  IN  CASE p.key = "certificate_info" -> Each(p.deployments, Cert)
        [] p.key \in DOMAIN PluginRules /\ Bad(PluginRules[p.key], p.answer) ->
             SslyzeFinding(s, PluginRules[p.key].type, PluginRules[p.key].severity)
        [] OTHER -> <<>>

SslyzeServer(s) ==
  LET Adapt(p) == PluginFindings(s, p)
  IN  IF s.scan_status # "COMPLETED" THEN <<>> ELSE Each(s.plugins, Adapt)

SslyzeParse(rep) ==
  CASE rep.body = "garbled" -> Failed
    [] rep.body \in {"empty", "other"} -> Parsed(<<>>)
    [] OTHER -> Parsed(Each(rep.records, SslyzeServer))
=============================================================================
