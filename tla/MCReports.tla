------------------------------ MODULE MCReports ------------------------------
(***************************************************************************)
(* The reports that TLC feeds the parsers: pairs of records with every    *)
(* field present, absent or mistyped, the bodies a dying tool leaves, and *)
(* for the text tools up to three hosts, or two parameters with two        *)
(* techniques each.                                                        *)
(***************************************************************************)
EXTENDS Reports

\* The texts with bars among those below.
Barred == (ToString("x|y") :> <<"x", "y">>) @@ (ToString("y|none") :> <<"y", "none">>)
MCPieces(v) == IF ToString(v) \in DOMAIN Barred THEN Barred[ToString(v)] ELSE <<v>>

Texts == {"x", "y", None}
Places == {"x", "y", Mistyped}
Pairs(S) == {<<a, b>> : a, b \in S}
Broken(bodies) == {[body |-> b, records |-> <<>>] : b \in bodies}
Whole(seqs) == {[body |-> "whole", records |-> q] : q \in seqs}

Semgrep == Whole(Pairs([check_id : Texts, path : Places, line : {-1, 3},
                        severity : {"INFO", "WARNING", "ERROR"}]))
             \cup Broken({"empty", "garbled", "other"})
Gitleaks == Whole(Pairs([RuleID : Texts, File : Places, StartLine : {-1, 3, 4}]))
              \cup Broken({"empty", "garbled", "other"})
Checkov == Whole(Pairs([check_id : Texts, file_path : Places, file_line_range : {<<>>, <<3, 4>>, <<7, 9>>}]))
             \cup Broken({"empty", "garbled", "other"})
DepVulns == Pairs([name : Texts, severity : {"CRITICAL", "MODERATE", "MEDIUM", "LOW", "INFO", None}])
Depcheck == Whole({<<[filePath |-> p, vulnerabilities |-> vs],
                     [filePath |-> "y", vulnerabilities |-> <<[name |-> "x", severity |-> "HIGH"]>>]>> :
                     p \in Places, vs \in DepVulns})
              \cup Broken({"empty", "garbled", "other", "unread"})

Rating(n) == {[V2Score |-> 0, V2Vector |-> None, V3Score |-> n, V3Vector |-> "v3"],
              [V2Score |-> n, V2Vector |-> "v2", V3Score |-> 0, V3Vector |-> None]}
Ratings == {<<>>} \cup {("nvd" :> r) : r \in Rating(5)} \cup {("redhat" :> r) : r \in Rating(6)}
             \cup {("nvd" :> r) @@ ("ghsa" :> s) : r \in Rating(5), s \in Rating(7)}
             \cup {("nvd" :> [V2Score |-> 0, V2Vector |-> None, V3Score |-> 0, V3Vector |-> "stale"])
                     @@ ("ghsa" :> s) : s \in Rating(7)}
TrivyVulns == [id : {"x", "y"}, pkg : {"x"}, Severity : {"HIGH", "LOW", "UNKNOWN"}, CVSS : Ratings]
Trivy == Whole({<<[Target |-> "t", Vulnerabilities |-> vs]>> : vs \in Pairs(TrivyVulns)})
           \cup Broken({"empty", "garbled", "other"})

NucleiLines == [kind : {"json"}, template_id : Texts, matched_at : Texts, host : {"x", None},
                severity : {"high", "low", "unheard of"}]
                 \cup {[kind |-> k, template_id |-> "x", matched_at |-> "x", host |-> "x",
                        severity |-> "low"] : k \in {"long", "malformed"}}
Nuclei == Whole(Pairs(NucleiLines)) \cup Broken({"empty"})

WapitiRecords(paths, levels) ==
                 [class : {[title |-> "SQL Injection", slug |-> "sql-injection"],
                           [title |-> "XSS", slug |-> "xss"]},
                  path : paths, parameter : Places, level : levels]
Wapiti == {[target |-> t] @@ r : t \in [text : {"site"}, slash : BOOLEAN] \cup {EmptyTarget},
                                 r \in Whole(Pairs(WapitiRecords([slash : BOOLEAN, rest : Texts], {3})))
                                        \cup Broken({"empty", "garbled", "other", "unread"})}
            \cup {[target |-> [text |-> "site", slash |-> FALSE]] @@ r :
                    r \in Whole(Pairs(WapitiRecords([slash : {TRUE}, rest : {"x", None}], {-1, 1, 3, 5})))}

Zap == Whole(Pairs([pluginId : {"x", "y"}, url : {"x", "y"}, param : Texts,
                    risk : {"High", "Medium", "Low", "Informational", "False Positive"}]))
         \cup Whole(Pairs([pluginId : {"x"}, url : {"x", "x|y"}, param : {"y|none", None}, risk : {"Low"}]))
         \cup Broken({"garbled", "other"})

Public == [scheme |-> "https", brackets |-> FALSE, port |-> FALSE, path |-> FALSE,
           form |-> "name", ranges |-> {}]
UpOrDown == [state : {"up", "down"},
              addresses : {<<[addr |-> "m", addrtype |-> "mac"], [addr |-> "x", addrtype |-> "ipv4"]>>,
                           <<[addr |-> "y", addrtype |-> "ipv6"]>>},
              ports : Pairs([protocol : {"tcp", "udp"}, portid : {22, 80}, state : {"open", "closed"}])]
NmapReport(rep, target, allow) == rep @@ [target |-> target, allowPrivate |-> allow]
Targets == {t \in Spelling : /\ Cardinality(t.ranges) <= 1 \/ t.ranges = {"private", "infra"}
                             /\ t.form = "name" => t.ranges = {}}
Nmap == {NmapReport(r, Public, FALSE) : r \in Whole({<<h>> : h \in UpOrDown})
                                              \cup Whole({<<h, k>> : h, k \in {h \in UpOrDown : h.state = "up" /\ h.ports[1] = h.ports[2]}})
                                              \cup Broken({"empty", "garbled", "other"})}
          \cup {NmapReport([body |-> "whole", records |-> <<>>], t, a) : t \in Targets, a \in BOOLEAN}

Plugins == [key : (DOMAIN PluginRules \ {"robot"}) \cup {"early_data"}, answer : {"true", "false", "missing"}]
             \cup [key : {"robot"}, answer : {"VULNERABLE_WEAK_ORACLE", "NOT_VULNERABLE", "missing"}]
             \cup [key : {"certificate_info"},
                   deployments : {<<d>> : d \in [matches : {"true", "false", "missing"}, sha1 : {"true", "false"}]}]
Servers == [scan_status : {"COMPLETED", "ERROR"}, hostname : {"x"}, port : {443}, plugins : Pairs(Plugins)]
Sslyze == Whole({<<s>> : s \in Servers})
            \cup Whole({<<[scan_status |-> "COMPLETED", hostname |-> "x", port |-> p, plugins |-> <<q>>],
                          [scan_status |-> "COMPLETED", hostname |-> h, port |-> 443, plugins |-> <<q>>]>> :
                          p \in {-1, 443, 8443}, h \in {"x", "y"}, q \in Plugins})
            \cup Broken({"empty", "garbled", "other"})

CorsHosts(n) == [host : {n}, printed : {0, 1, 4}, values : {<<n, n, None, n>>, <<None, None, None, None>>},
                 long : {FALSE}, status : {"Vulnerable", "NotVulnerable", "Error", "none"}]
                  \cup [host : {n}, printed : {0, 2}, values : {<<n, n, None, n>>}, long : {TRUE},
                        status : {"Vulnerable", "NotVulnerable"}]
Corstest == {[hosts |-> <<a, b, c>>] : a \in CorsHosts("h1"), b \in CorsHosts("h2"), c \in CorsHosts("h3")}

Techniques == [type : {"time-based", "error-based"}, title : Texts \ {"y"}, payload : Texts \ {"x"}]
SqlmapParams(n) == {[name |-> n, techniques |-> ts] : ts \in {<<a>> : a \in Techniques} \cup Pairs(Techniques)}
Sqlmap == {[silent |-> FALSE, cut |-> c, dbms |-> d, params |-> ps] :
             c \in BOOLEAN, d \in {"MySQL", None},
             ps \in {<<>>} \cup {<<a>> : a \in SqlmapParams("id")}
                      \cup {<<a, b>> : a \in SqlmapParams("id"), b \in {p \in SqlmapParams("q") : Len(p.techniques) = 1}}}
            \cup {[silent |-> TRUE, cut |-> FALSE, dbms |-> None, params |-> <<>>]}

Words == {"high", "warning", "info", "secure", None}
NoKeys == [k \in {"NSAllowsArbitraryLoads", "UIFileSharingEnabled", "NSAppTransportSecurity",
                  "ITSAppUsesNonExemptEncryption"} |-> None]
Entries == [section : {"code_analysis"}, severity : Words,
            files : {<<>>, <<[path |-> "x", lines |-> <<3, 9>>], [path |-> "y", lines |-> <<>>]>>}]
             \cup [section : {"permissions"}, status : {"dangerous", "normal"}]
             \cup [section : {"secrets", "trackers", "bundle_url_types"}, name : {"http", "app", None}]
             \cup [section : {"manifest_analysis", "network_security", "ats_analysis"}, severity : Words]
             \cup [section : {"certificate_analysis"}, severity : Words, whole : BOOLEAN]
             \cup [section : {"dylib_analysis"}, severity : Words, name : {"x"}]
             \cup [section : {"binary_analysis"}, severity : Words, name : {"x"},
                   status : {"secure", "insecure", None}]
             \cup [section : {"info_plist"},
                   keys : {k @@ NoKeys : k \in {<<>>}
                             \cup [{"NSAllowsArbitraryLoads", "NSAppTransportSecurity"} -> {"true", "false"}]
                             \cup [{"UIFileSharingEnabled", "ITSAppUsesNonExemptEncryption"} -> {"true"}]}]
Mobsf == {[platform |-> p, shape |-> s] @@ r :
            p \in {"android", "ios", ""}, s \in {"list", "object"},
            r \in Whole(Pairs(Entries)) \cup Broken({"garbled", "other"})}

Uri(parent, base, bucket) == [parent |-> parent, base |-> base, bucket |-> bucket]
Item(n, id, says, uri) == [n |-> n, id |-> id, says |-> says, uri |-> uri]
Found(n, uri) == Item(n, "000003", "found", uri)
Ftp == Uri("/", "ftp", "DIRECTORY")
Public2 == Uri("/", "public", "DIRECTORY")
Backup == Uri("/admin/", "backup", "DIRECTORY")
NiktoItems ==
  {<<Found(1, Ftp), Item(2, "999970", "no HSTS", Root), Found(3, Public2), Found(4, Backup)>>,
   <<Item(1, "000001", "banner", Ftp), Found(2, Ftp), Item(3, "000026", "listing", Ftp), Found(4, Root)>>,
   <<Found(1, Uri("/", "x.php~", "odd")), Found(2, Uri("/", "big", "NONE")), Item(3, "999100", "uncommon header", Root),
     Item(4, "999986", "via", Root), Item(5, "999990", "allowed methods", Root), Item(6, None, "found", Ftp)>>,
   <<Item(1, "999103", "no content type options", Root)>>}
Nikto == {[body |-> "whole", details |-> <<[site |-> s, items |-> i]>>, nested |-> <<>>] :
            s \in {"site"}, i \in NiktoItems}
          \cup {[body |-> "whole", details |-> <<>>,
                 nested |-> <<[site |-> None, items |-> <<Found(1, Ftp)>>], [site |-> "site", items |-> <<Found(2, Ftp)>>]>>]}
          \cup {[body |-> b, details |-> <<>>, nested |-> <<>>] : b \in {"empty", "garbled", "unread", "other"}}

MCInputs == [semgrep |-> Semgrep, gitleaks |-> Gitleaks, checkov |-> Checkov, depcheck |-> Depcheck,
             trivy |-> Trivy, nuclei |-> Nuclei, wapiti |-> Wapiti, zap |-> Zap, nmap |-> Nmap,
             sslyze |-> Sslyze, corstest |-> Corstest, sqlmap |-> Sqlmap, mobsf |-> Mobsf, nikto |-> Nikto]

=============================================================================
