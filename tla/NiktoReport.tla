----------------------------- MODULE NiktoReport -----------------------------
(***************************************************************************)
(* Nikto's report (nikto/parse.go, nikto/classify.go): the items of all    *)
(* scan details, those of nested scans included, each given a class: by a  *)
(* curated row that matches its id and what its description says, by the  *)
(* header it discloses, or by the category of the database test that      *)
(* raised it.                                                              *)
(*                                                                         *)
(* An item's "says" names the marker its description contains, or the     *)
(* header; its uri is [parent, base, bucket], where the bucket is what     *)
(* the base name looks like, or one of the two uris without a base name.     *)
(***************************************************************************)
EXTENDS Findings

\* id, marker, slug and whether the item is an observation, not a finding.
Classifications ==
  LET Row(id, says, slug, drop) == [id |-> id, says |-> says, slug |-> slug, drop |-> drop]
  IN  {Row("999100", "uncommon header", "uncommon-header", TRUE),
       Row("011799", "alt-svc advertised", "alt-svc-advertised", TRUE),
       Row("999976", "no X-Frame-Options", "missing-xfo", FALSE),
       Row("999978", "X-Frame-Options allows", "permissive-xfo", FALSE),
       Row("999979", "IP address in header", "internal-ip-in-header", FALSE),
       Row("999984", "inodes via ETags", "etag-inode-leak", FALSE),
       Row("999996", "robots non-forbidden", "robots-listed-path", FALSE),
       Row("999997", "robots non-forbidden", "robots-listed-path", FALSE),
       Row("999996", "robots to view", "robots-entries", FALSE),
       Row("999970", "no HSTS", "missing-hsts", FALSE),
       Row("999103", "no content type options", "missing-content-type-options", FALSE),
       Row("999966", "Content-Encoding set", "compression-enabled", FALSE)}

Classify(it) == {c \in Classifications : c.id = it.id /\ c.says = it.says}

\* Two of the disclosed headers stand for the list.
DisclosedHeaders == {"via", "x-powered-by"}
DisclosedHeaderID == "999986"

\* Three tests stand for the generated table; each is given the first
\* character of its tuning field.
DbTestTuning == ("000003" :> "1") @@ ("000001" :> "b") @@ ("000026" :> "2")

TuningClassSlug ==
  [c \in {"0", "1", "2", "3", "4", "5", "6", "7", "8", "9", "a", "b", "c", "d", "e", "f"} |->
     CASE c = "0" -> "file-upload" [] c = "1" -> "interesting-file"
       [] c = "2" -> "misconfiguration" [] c = "3" -> "info-disclosure"
       [] c = "4" -> "injection" [] c = "5" -> "file-retrieval-webroot"
       [] c = "6" -> "dos" [] c = "7" -> "file-retrieval-serverwide"
       [] c = "8" -> "command-execution" [] c = "9" -> "sql-injection"
       [] c = "a" -> "auth-bypass" [] c = "b" -> "software-identification"
       [] c = "c" -> "remote-source-inclusion" [] c = "d" -> "webservice"
       [] c = "e" -> "admin-console" [] c = "f" -> "xml-injection"]

\* The categories whose tests conclude that a file exists from the answer to
\* a request for it.
ExistenceCheckTuning == {"1", "2", "3"}
IsExistenceCheck(type) ==
  type \in {<<"nikto", TuningClassSlug[t]>> : t \in ExistenceCheckTuning}

ResolveItem(it) ==
  CASE Classify(it) # {} -> LET c == CHOOSE c \in Classify(it) : TRUE
                            IN  [slug |-> <<c.slug>>, drop |-> c.drop]
    [] Classify(it) = {} /\ it.id = DisclosedHeaderID /\ it.says \in DisclosedHeaders ->
         [slug |-> <<"disclosed-header", it.says>>, drop |-> FALSE]
    [] it.id \in DOMAIN DbTestTuning ->
         [slug |-> <<TuningClassSlug[DbTestTuning[it.id]]>>, drop |-> FALSE]
    [] OTHER -> [slug |-> <<>>, drop |-> FALSE]

\* An item without a class keeps its id.
FindingTypeFor(it) ==
  <<"nikto">> \o (IF ResolveItem(it).slug = <<>> THEN <<it.id>> ELSE ResolveItem(it).slug)

NoPath == [parent |-> "", base |-> "", bucket |-> "absent"]      \* no uri at all
Root == [parent |-> "", base |-> "/", bucket |-> "root"]        \* "/" and "."

\* A file's name stands for its contents: it is not the catch-all's page, and
\* not the random name of the verification's control.
URIs == {NoPath, Root}
          \cup [parent : STRING, base : STRING \ {"shell", "nonce"}, bucket : STRING \ {"absent", "root"}]

\* The code also repairs the slash between the two.
CombineSiteURI(site, uri) == [site |-> site, uri |-> uri]

ItemToFinding(site, it) ==
  RawFinding(it, FindingTypeFor(it), CombineSiteURI(site, it.uri), None, None, 0, "low")

NiktoItem(site, it) ==
  IF None \in {it.id, it.says} \/ ResolveItem(it).drop THEN <<>>
  ELSE <<ItemToFinding(site, it)>>

\* The report's own scan details come before those of the scans nested in it.
ScanDetails(rep) == rep.details \o rep.nested

\* The items of a report are numbered, so that no two are equal.
Items == [n : Nat, id : STRING, says : STRING, uri : URIs]
Scans == [site : STRING, items : Seq(Items)]
NiktoReports ==
  {rep \in [body : STRING, details : Seq(Scans), nested : Seq(Scans)] :
     LET scans == ScanDetails(rep)
     IN  \A i, j \in DOMAIN scans : \A k \in DOMAIN scans[i].items, l \in DOMAIN scans[j].items :
           scans[i].items[k].n = scans[j].items[l].n => i = j /\ k = l}

NiktoParse(rep) ==
  LET Details(d) == LET Adapt(it) == NiktoItem(d.site, it) IN Each(d.items, Adapt)
  IN  CASE rep.body = "whole" -> Parsed(Each(ScanDetails(rep), Details))
        [] rep.body = "other" -> Parsed(<<>>)
        [] OTHER -> Failed
=============================================================================
