---------------------------- MODULE MobileReports ----------------------------
(***************************************************************************)
(* MobSF's report (docker/service/mobsf/parser.go, sections.go): sections *)
(* of differing shape, four of them read for either platform and the      *)
(* others only for the app's own.  A report's records are entries that    *)
(* name their section; the code sorts the entries of its maps, or takes   *)
(* them in the order the iteration happens to take.                       *)
(***************************************************************************)
EXTENDS Findings

\* The entries of the sections, with the fields that are read; a key that a
\* property list does not have reads as None.
MobSFEntries ==
  [section : {"code_analysis"}, severity : STRING, files : Seq([path : STRING, lines : Seq(Int)])]
  \cup [section : {"permissions"}, status : STRING]
  \cup [section : {"secrets", "trackers", "bundle_url_types"}, name : STRING]
  \cup [section : {"manifest_analysis", "network_security", "ats_analysis"}, severity : STRING]
  \cup [section : {"certificate_analysis"}, severity : STRING, whole : BOOLEAN]
  \cup [section : {"dylib_analysis"}, severity : STRING, name : STRING]
  \cup [section : {"binary_analysis"}, severity : STRING, name : STRING, status : STRING]
  \cup [section : {"info_plist"},
        keys : [{"NSAllowsArbitraryLoads", "UIFileSharingEnabled", "NSAppTransportSecurity",
                 "ITSAppUsesNonExemptEncryption"} -> STRING]]
MobSFReports ==
  [platform : STRING, shape : STRING, body : STRING, records : Seq(MobSFEntries)]

\* None: not a finding.
MapMobSFSeverity(s) ==
  CASE s = "high" -> "high"
    [] s = "warning" -> "medium"
    [] s \in {None, "secure", "good"} -> None
    [] OTHER -> "info"

RatedFinding(e, type, file, line, severity) ==
  IF severity = None THEN <<>>
  ELSE <<RawFinding(e, type, None, None, file, line, severity)>>

\* One finding per file a rule matched, at the first matching line, and one
\* without a place for a rule that names no file.
ParseCodeAnalysis(e) ==
  LET severity == MapMobSFSeverity(e.severity)
      At(f) == RatedFinding(e, None, f.path, IF f.lines = <<>> THEN 0 ELSE Head(f.lines), severity)
  IN  IF e.files = <<>> THEN RatedFinding(e, None, None, 0, severity) ELSE Each(e.files, At)

AdaptPermissions(e) == RatedFinding(e, None, None, 0, IF e.status = "dangerous" THEN "medium" ELSE None)
AdaptSecrets(e) == RatedFinding(e, None, None, 0, IF e.name = None THEN None ELSE "medium")
AdaptTrackers(e) == RatedFinding(e, None, None, 0, "info")

AdaptManifestFindings(e) == RatedFinding(e, None, None, 0, MapMobSFSeverity(e.severity))
AdaptNetworkSecurity(e) == RatedFinding(e, None, None, 0, MapMobSFSeverity(e.severity))
AdaptCertificateFindings(e) ==
  RatedFinding(e, None, None, 0, IF e.whole THEN MapMobSFSeverity(e.severity) ELSE None)

\* A check that did not pass is told whatever its rating.
AdaptBinaryAnalysis(e) ==
  LET rated == MapMobSFSeverity(e.severity)
  IN  RatedFinding(e, None, e.name, 0,
            IF e.status \in {None, "secure"} THEN None
            ELSE IF rated = None THEN "info" ELSE rated)

\* The keys of the property list that are told.
AdaptInfoPlist(e) ==
  LET IsTrue(k) == e.keys[k] = "true"
      Tell(k, told, severity) ==
        RatedFinding([section |-> "info_plist", key |-> k], "info_plist_finding", None, 0,
              IF told THEN severity ELSE None)
  IN  Tell("NSAllowsArbitraryLoads", IsTrue("NSAllowsArbitraryLoads"), "high")
        \o Tell("UIFileSharingEnabled", IsTrue("UIFileSharingEnabled"), "medium")
        \o Tell("NSAppTransportSecurity", e.keys["NSAppTransportSecurity"] # None, "info")
        \o Tell("ITSAppUsesNonExemptEncryption",
                e.keys["ITSAppUsesNonExemptEncryption"] = None, "info")

AdaptATSFindings(e) == RatedFinding(e, "ats_violation", None, 0, MapMobSFSeverity(e.severity))
AdaptDylibAnalysis(e) ==
  RatedFinding(e, "dylib_protection_missing", e.name, 0, MapMobSFSeverity(e.severity))
AdaptIOSBinary(e) == RatedFinding(e, "ios_binary_finding", None, 0, MapMobSFSeverity(e.severity))
AdaptBundleURLTypes(e) ==
  RatedFinding(e, "ios_url_scheme", None, 0,
        IF e.name \in {"http", "https", "mailto", "tel", "sms", "ftp"} THEN "info" ELSE "medium")

Adapt(platform, e) ==
  CASE e.section = "code_analysis" -> ParseCodeAnalysis(e)
    [] e.section = "permissions" -> AdaptPermissions(e)
    [] e.section = "secrets" -> AdaptSecrets(e)
    [] e.section = "trackers" -> AdaptTrackers(e)
    [] e.section = "manifest_analysis" -> AdaptManifestFindings(e)
    [] e.section = "network_security" -> AdaptNetworkSecurity(e)
    [] e.section = "certificate_analysis" -> AdaptCertificateFindings(e)
    [] e.section = "binary_analysis" /\ platform = "android" -> AdaptBinaryAnalysis(e)
    [] e.section = "info_plist" -> AdaptInfoPlist(e)
    [] e.section = "ats_analysis" -> AdaptATSFindings(e)
    [] e.section = "dylib_analysis" -> AdaptDylibAnalysis(e)
    [] e.section = "binary_analysis" /\ platform = "ios" -> AdaptIOSBinary(e)
    [] e.section = "bundle_url_types" -> AdaptBundleURLTypes(e)

\* The sections that are read, in their order.
Sections(platform) ==
  <<"code_analysis", "permissions", "secrets", "trackers">>
    \o CASE platform = "android" ->
              <<"manifest_analysis", "network_security", "certificate_analysis", "binary_analysis">>
         [] platform = "ios" ->
              <<"info_plist", "ats_analysis", "dylib_analysis", "binary_analysis", "bundle_url_types">>
         [] OTHER -> <<>>

\* MobSF writes the binary checks as a list for Android and as an object for
\* iOS; the other shape reads as no entry.
Shape(platform) == IF platform = "android" THEN "list" ELSE "object"

ParseReport(rep) ==
  LET Read(e) == Adapt(rep.platform, e)
      Section(s) == IF s = "binary_analysis" /\ rep.shape # Shape(rep.platform) THEN <<>>
                    ELSE Each(Select(rep.records, LAMBDA e : e.section = s), Read)
  IN  CASE rep.body = "whole" -> Parsed(Each(Sections(rep.platform), Section))
        [] rep.body = "other" -> Parsed(<<>>)
        [] OTHER -> Failed
=============================================================================
