---------------------------- MODULE ReportsProofs ----------------------------
(***************************************************************************)
(* What holds of every report a tool may write: the targets nmap is        *)
(* started on, what nikto's verification keeps and drops, how findings are *)
(* rated and told apart, and what is read from text line by line.          *)
(***************************************************************************)
EXTENDS Reports, SequenceFacts

(***************************************************************************)
(* nmap's targets.                                                         *)
(***************************************************************************)

\* Whatever surrounds an IP literal, what is left of it is the bare literal;
\* with a scheme nobody knows it is no literal any more.
LEMMA LiteralIsBare ==
  ASSUME NEW t \in Spelling, NormalizeTarget(t).form = "literal"
  PROVE  IsIPLiteral(NormalizeTarget(t)) /\ NormalizeTarget(t).ranges = t.ranges
<1> DEFINE a == StripScheme(t)
           b == StripPath(a)
           c == StripPort(b)
<1>1. a \in Spelling /\ a.ranges = t.ranges /\ a.scheme \notin KnownSchemes
  BY DEF Spelling, StripScheme, KnownSchemes
<1> HIDE DEF a
<1>2. /\ b \in Spelling /\ b.scheme = a.scheme /\ ~b.path
      /\ b.form = "literal" => a.scheme = "" /\ b.ranges = a.ranges
  <2>1. CASE a.scheme = ""
    <3>1. b = [a EXCEPT !.path = FALSE]
      BY <2>1 DEF StripPath
    <3> QED BY <1>1, <2>1, <3>1 DEF Spelling
  <2>2. CASE a.scheme # ""
    <3>1. b = [a EXCEPT !.path = FALSE, !.form = "name", !.ranges = {}]
      BY <2>2 DEF StripPath
    <3>2. b.form = "name" /\ b.scheme = a.scheme /\ b.path = FALSE /\ b \in Spelling
      BY <1>1, <3>1 DEF Spelling, Forms
    <3> QED BY <3>2
  <2> QED BY <2>1, <2>2
<1> HIDE DEF b
<1>3. c.form = "literal" => b.form = "literal"
  BY <1>2 DEF Spelling, StripPort
<1>4. b.scheme = "" => IsIPLiteral(c) = (c.form = "literal") /\ c.ranges = b.ranges
  BY <1>2 DEF Spelling, StripPort, IsIPLiteral
<1>5. NormalizeTarget(t) = c
  BY DEF NormalizeTarget, a, b
<1> QED BY <1>1, <1>2, <1>3, <1>4, <1>5

LEMMA BuildArgsSafe ==
  ASSUME NEW t \in Spelling, NEW allowPrivate \in BOOLEAN, NEW a \in BuildArgs(t, allowPrivate),
         a.form = "literal"
  PROVE  a.ranges \ {"private"} = {} /\ ("private" \in a.ranges => allowPrivate)
<1>1. a = NormalizeTarget(t) /\ ValidateTarget(t, allowPrivate)
  BY DEF BuildArgs
<1>2. IsIPLiteral(NormalizeTarget(t)) /\ a.ranges = t.ranges
  BY <1>1, LiteralIsBare
<1>3. ValidateIPTarget(t.ranges, allowPrivate) /\ t.ranges \in SUBSET Ranges
  BY <1>1, <1>2 DEF ValidateTarget, Spelling
<1> QED BY <1>2, <1>3 DEF ValidateIPTarget, Ranges

-------------------------------------------------------------------------------
(***************************************************************************)
(* The report is one of the tool's, and stays the same.                    *)
(***************************************************************************)
Reported == report \in ReportsOf(tool)

LEMMA InitReported ==
  ASSUME Init
  PROVE  Reported
BY InputsAssumption DEF Init, Reported

LEMMA ReportStays ==
  ASSUME [Next]_vars
  PROVE  tool' = tool /\ report' = report
BY DEF Next, vars, runVars, AskNmap, AskOther, Parse, BeginVerify, Verify, EndVerify, Enrich

LEMMA ReportedStays ==
  ASSUME Reported, [Next]_vars
  PROVE  Reported'
BY ReportStays DEF Reported

LEMMA AlwaysReported == Spec => []Reported
BY InitReported, ReportedStays, PTL DEF Spec

ArgvBuilt == argv = {} \/ (tool = "nmap" /\ argv = BuildArgs(report.target, report.allowPrivate))

\* The arguments of a scan are what BuildArgs made of the target: nmap is never
\* started on an address of a refused range that net.ParseIP reads once scheme,
\* brackets, port and path are gone.  Names, and forms only nmap reads as an
\* address, pass unchecked.
THEOREM NeverScansRefused == Spec => []RefusedNeverScanned
<1>1. Init => ArgvBuilt
  BY DEF Init, ArgvBuilt
<1>2. ArgvBuilt /\ [Next]_vars => ArgvBuilt'
  <2> SUFFICES ASSUME ArgvBuilt, [Next]_vars PROVE ArgvBuilt'
    OBVIOUS
  <2>1. argv' = argv \/ (tool = "nmap" /\ argv' = BuildArgs(report.target, report.allowPrivate))
    BY DEF Next, vars, runVars, AskNmap, AskOther, Parse, BeginVerify, Verify, EndVerify, Enrich
  <2> QED BY <2>1, ReportStays DEF ArgvBuilt
<1>3. Reported /\ ArgvBuilt => RefusedNeverScanned
  <2> SUFFICES ASSUME Reported, ArgvBuilt, NEW a \in argv, a.form = "literal"
               PROVE  a.ranges \ {"private"} = {} /\ ("private" \in a.ranges => report.allowPrivate)
    BY DEF RefusedNeverScanned
  <2>1. tool = "nmap" /\ a \in BuildArgs(report.target, report.allowPrivate)
    BY DEF ArgvBuilt
  <2>2. report.target \in Spelling /\ report.allowPrivate \in BOOLEAN
    BY <2>1 DEF Reported, ReportsOf
  <2> QED BY <2>1, <2>2, BuildArgsSafe
<1> QED BY <1>1, <1>2, <1>3, AlwaysReported, PTL DEF Spec

-------------------------------------------------------------------------------
(***************************************************************************)
(* nikto: the verification pass.                                           *)
(***************************************************************************)
NiktoFindings == {ItemToFinding(s, it) : s \in STRING, it \in Items}

\* What a site that is up answers, and what one that blocks does.
UpAnswer(u) ==
  IF u.uri \in real
  THEN IF u.uri.base = "big" THEN Probe(FALSE, FALSE, 200, "") ELSE Probe(FALSE, TRUE, 200, u.uri.base)
  ELSE IF serves[u.uri.parent] = "shell" THEN Probe(FALSE, TRUE, 200, "shell")
       ELSE Probe(FALSE, TRUE, 404, "notFound")
Blocked == Probe(FALSE, TRUE, 403, "blocked")

\* The pass has a finding in hand, its own answer memoised.
InHand ==
  /\ todo # <<>>
  /\ IsExistenceCheck(Head(todo).type) /\ ControlURLFor(Head(todo).url) # {}
  /\ Head(todo).url \in DOMAIN cache

Checked(f) == IsExistenceCheck(f.type) /\ ControlURLFor(f.url) # {}

\* Every memoised answer is a failure, what the site answers while it is up,
\* or its one page for everything.
CacheFits ==
  /\ site \in {"up", "blocked", "down"}
  /\ site = "blocked" => everBlocked
  /\ \A u \in DOMAIN cache :
       \/ cache[u] \in {FailedProbe, UpAnswer(u)}
       \/ everBlocked /\ cache[u] = Blocked

Quiet == flaps = 0 /\ site = "up" /\ passCtx = "live"
Passing == vstep \in {"pick", "control"}

VerifyType ==
  /\ todo \in Seq(NiktoFindings) /\ kept \in Seq(NiktoFindings) /\ dropped \in Seq(NiktoFindings)
  /\ flaps \in Nat
  /\ \A r \in real : r.base \notin {"shell", "nonce"}
  /\ vstep = "off" => cache = <<>> /\ dropped = <<>>
  /\ vstep = "control" => InHand

\* What was dropped could be dropped, and was not a file of the site unless
\* the site blocked.
DropsFit ==
  \A f \in Range(dropped) : Checked(f) /\ (f.url.uri \in real => everBlocked)

\* As long as the site is up and the budget lasts, every answer is the site's,
\* and what was tried and kept is there.
QuietFits ==
  Quiet => /\ \A u \in DOMAIN cache : cache[u] = UpAnswer(u)
           /\ Passing \/ DOMAIN cache # {} =>
                \A f \in Range(kept) : Checked(f) => f.url.uri \in real

VerifyInv == VerifyType /\ CacheFits /\ DropsFit /\ QuietFits

\* A finding with a control names a file below a directory; the control has
\* the random name in the same directory, and is no file of the site.
LEMMA ControlShape ==
  ASSUME VerifyType, NEW f \in NiktoFindings, NEW c \in ControlURLFor(f.url)
  PROVE  /\ f.url.uri.bucket \notin {"absent", "root", "odd"}
         /\ c.uri \notin real
         /\ c.uri.parent = f.url.uri.parent
<1>1. PICK s \in STRING, it \in Items : f = ItemToFinding(s, it)
  BY DEF NiktoFindings
<1>2. f.url = [site |-> s, uri |-> it.uri] /\ it.uri \in URIs
  BY <1>1 DEF ItemToFinding, RawFinding, CombineSiteURI, Items
<1>3. /\ it.uri \notin {NoPath, Root} /\ it.uri.bucket # "odd"
      /\ c = [f.url EXCEPT !.uri.base = "nonce"]
  BY <1>2 DEF ControlURLFor
<1>4. it.uri \in [parent : STRING, base : STRING \ {"shell", "nonce"}, bucket : STRING \ {"absent", "root"}]
  BY <1>2, <1>3 DEF URIs
<1>5. c.uri = [it.uri EXCEPT !.base = "nonce"]
  BY <1>2, <1>3
<1>6. c.uri.base = "nonce" /\ c.uri.parent = it.uri.parent
  BY <1>4, <1>5
<1> QED BY <1>2, <1>3, <1>4, <1>6 DEF VerifyType

\* fetch answers what the memo may hold.
LEMMA FetchFits ==
  ASSUME CacheFits, NEW u
  PROVE  \/ Fetch(u) \in {FailedProbe, UpAnswer(u)}
         \/ everBlocked /\ Fetch(u) = Blocked
<1>1. Answer(u) \in {FailedProbe, UpAnswer(u)} \/ (everBlocked /\ Answer(u) = Blocked)
  <2>1. CASE site = "up"
    BY <2>1 DEF Answer, UpAnswer
  <2>2. CASE site = "blocked"
    BY <2>2 DEF CacheFits, Answer, Blocked
  <2>3. CASE site = "down"
    BY <2>3 DEF Answer
  <2> QED BY <2>1, <2>2, <2>3 DEF CacheFits
<1> QED BY <1>1 DEF Fetch, CacheFits

LEMMA FetchQuiet ==
  ASSUME QuietFits, Quiet, NEW u
  PROVE  Fetch(u) = UpAnswer(u)
<1>1. Answer(u) = UpAnswer(u)
  BY DEF Quiet, Answer, UpAnswer
<1> QED BY <1>1 DEF Fetch, QuietFits, Quiet

LEMMA NotAlike ==
  ASSUME NEW base, base # "shell",
         NEW a, a = Probe(FALSE, FALSE, 200, "") \/ a = Probe(FALSE, TRUE, 200, base),
         NEW b, b = Probe(FALSE, TRUE, 200, "shell") \/ b = Probe(FALSE, TRUE, 404, "notFound")
  PROVE  ~Decide(a, b)
<1>1. CASE a = Probe(FALSE, FALSE, 200, "")
  BY <1>1 DEF Probe, Decide
<1>2. CASE a = Probe(FALSE, TRUE, 200, base) /\ b = Probe(FALSE, TRUE, 200, "shell")
  BY <1>2 DEF Probe, Decide
<1>3. CASE a = Probe(FALSE, TRUE, 200, base) /\ b = Probe(FALSE, TRUE, 404, "notFound")
  BY <1>3 DEF Probe, Decide
<1> QED BY <1>1, <1>2, <1>3

\* A file of the site and a name it does not have are never taken for the
\* same while the site is up, two names it does not have always are.
LEMMA DecideUp ==
  ASSUME VerifyType, NEW u, NEW c, c.uri \notin real, c.uri.parent = u.uri.parent
  PROVE  Decide(UpAnswer(u), UpAnswer(c)) <=> u.uri \notin real
<1>1. CASE u.uri \in real
  <2>1. u.uri.base # "shell"
    BY <1>1 DEF VerifyType
  <2>2. \/ UpAnswer(u) = Probe(FALSE, FALSE, 200, "")
        \/ UpAnswer(u) = Probe(FALSE, TRUE, 200, u.uri.base)
    BY <1>1 DEF UpAnswer
  <2>3. \/ UpAnswer(c) = Probe(FALSE, TRUE, 200, "shell")
        \/ UpAnswer(c) = Probe(FALSE, TRUE, 404, "notFound")
    BY DEF UpAnswer
  <2>4. ~Decide(UpAnswer(u), UpAnswer(c))
    BY <2>1, <2>2, <2>3, NotAlike, Zenon
  <2> QED BY <1>1, <2>4
<1>2. CASE u.uri \notin real
  BY <1>2 DEF Decide, UpAnswer, Probe
<1> QED BY <1>1, <1>2

\* A finding about a file of the site survives the comparison unless the site
\* blocked.
LEMMA RealSurvives ==
  ASSUME VerifyType, NEW u, NEW c, c.uri \notin real, c.uri.parent = u.uri.parent, u.uri \in real,
         ~everBlocked, NEW a, NEW b,
         a \in {FailedProbe, UpAnswer(u)}, b \in {FailedProbe, UpAnswer(c)}
  PROVE  ~Decide(a, b)
<1>1. ~Decide(UpAnswer(u), UpAnswer(c))
  BY DecideUp
<1>2. \A x : ~Decide(FailedProbe, x) /\ ~Decide(x, FailedProbe)
  BY DEF Decide, FailedProbe, Probe
<1> QED BY <1>1, <1>2

-------------------------------------------------------------------------------
\* Memoising an answer changes the memo only at its URL.
LEMMA RememberFits ==
  ASSUME NEW u, Remember(u)
  PROVE  /\ DOMAIN cache' = DOMAIN cache \cup {u}
         /\ cache'[u] = Fetch(u)
         /\ \A v \in DOMAIN cache' : v # u => v \in DOMAIN cache /\ cache'[v] = cache[v]
BY DEF Remember

LEMMA AppendRange ==
  ASSUME NEW S, NEW s \in Seq(S), NEW x \in S
  PROVE  Append(s, x) \in Seq(S) /\ Range(Append(s, x)) = Range(s) \cup {x}
<1>1. /\ Append(s, x) \in Seq(S) /\ DOMAIN s = 1..Len(s) /\ Len(s) \in Nat
      /\ DOMAIN Append(s, x) = 1..(Len(s) + 1) /\ Append(s, x)[Len(s) + 1] = x
      /\ \A i \in 1..Len(s) : Append(s, x)[i] = s[i]
  BY AppendProperties, LenProperties
<1>2. \A i \in 1..(Len(s) + 1) : i \in 1..Len(s) \/ i = Len(s) + 1
  BY <1>1
<1>3. \A i \in 1..Len(s) : i \in 1..(Len(s) + 1)
  BY <1>1
<1>4. Len(s) + 1 \in 1..(Len(s) + 1)
  BY <1>1
<1>5. Range(Append(s, x)) \subseteq Range(s) \cup {x}
  BY <1>1, <1>2 DEF Range
<1>6. Range(s) \cup {x} \subseteq Range(Append(s, x))
  BY <1>1, <1>3, <1>4 DEF Range
<1> QED BY <1>1, <1>5, <1>6

\* Keeping the finding in hand.
LEMMA KeepFits ==
  ASSUME VerifyType, todo # <<>>, Keep
  PROVE  /\ todo' \in Seq(NiktoFindings) /\ kept' \in Seq(NiktoFindings)
         /\ Head(todo) \in NiktoFindings
         /\ \A f \in Range(kept') : f \in Range(kept) \/ f = Head(todo)
<1>1. /\ todo \in Seq(NiktoFindings) /\ kept \in Seq(NiktoFindings)
      /\ Head(todo) \in NiktoFindings /\ Tail(todo) \in Seq(NiktoFindings)
  BY HeadTailProperties DEF VerifyType
<1>2. kept' = Append(kept, Head(todo)) /\ todo' = Tail(todo)
  BY DEF Keep
<1>3. kept' \in Seq(NiktoFindings) /\ Range(kept') = Range(kept) \cup {Head(todo)}
  BY <1>1, <1>2, AppendRange
<1> QED BY <1>1, <1>2, <1>3

LEMMA InitVerify ==
  ASSUME Init, Reported
  PROVE  VerifyInv
<1>1. todo = <<>> /\ kept = <<>> /\ dropped = <<>> /\ cache = <<>> /\ vstep = "off" /\ passCtx = "live"
  BY DEF Init, VerifyInit
<1>2. flaps = 0 /\ site \in {"up", "blocked", "down"} /\ (site = "blocked" => everBlocked)
  BY DEF Init, SiteInit
<1>3. ASSUME NEW r \in real PROVE r.base \notin {"shell", "nonce"}
  <2>1. tool = "nikto" /\ r \in ReportedURIs
    BY DEF Init, SiteInit
  <2>2. report \in NiktoReports
    BY <2>1 DEF Reported, ReportsOf
  <2>3. ScanDetails(report) \in Seq(Scans)
    BY <2>2 DEF NiktoReports, ScanDetails
  <2>4. PICK d \in Range(ScanDetails(report)) : \E it \in Range(d.items) : r = it.uri
    BY <2>1 DEF ReportedURIs
  <2>5. d \in Scans
    BY <2>3, <2>4 DEF Range
  <2>6. d.items \in Seq(Items)
    BY <2>5 DEF Scans
  <2>7. PICK it \in Range(d.items) : r = it.uri
    BY <2>4
  <2>8. it \in Items
    BY <2>6, <2>7 DEF Range
  <2>9. r \in URIs /\ r \notin {NoPath, Root}
    BY <2>1, <2>7, <2>8 DEF Items, ReportedURIs
  <2> QED BY <2>9 DEF URIs
<1>4. Range(<<>>) = {} /\ DOMAIN <<>> = {}
  BY DEF Range
<1>5. VerifyType
  BY <1>1, <1>2, <1>3, EmptySeq DEF VerifyType
<1>6. CacheFits /\ DropsFit /\ QuietFits
  BY <1>1, <1>2, <1>4 DEF CacheFits, DropsFit, QuietFits
<1> QED BY <1>5, <1>6 DEF VerifyInv

-------------------------------------------------------------------------------
\* The findings of one scan of the report.
ScanFindings(d) == FlattenSeq([i \in DOMAIN d.items |-> NiktoItem(d.site, d.items[i])])

LEMMA NiktoParseIs ==
  ASSUME NEW rep, rep.body = "whole"
  PROVE  NiktoParse(rep) = [outcome |-> "ok",
           findings |-> FlattenSeq([i \in DOMAIN ScanDetails(rep) |-> ScanFindings(ScanDetails(rep)[i])])]
BY DEF NiktoParse, Parsed, Each, ScanFindings

LEMMA NiktoItemType ==
  ASSUME NEW s \in STRING, NEW it \in Items
  PROVE  NiktoItem(s, it) = <<>> \/ NiktoItem(s, it) = <<ItemToFinding(s, it)>>
BY DEF NiktoItem

LEMMA ScanFindingsType ==
  ASSUME NEW d \in Scans
  PROVE  ScanFindings(d) \in Seq(NiktoFindings)
<1> DEFINE s == [i \in DOMAIN d.items |-> NiktoItem(d.site, d.items[i])]
<1>1. d.items \in Seq(Items) /\ d.site \in STRING
  BY DEF Scans
<1>2. ASSUME NEW i \in DOMAIN d.items PROVE s[i] \in Seq(NiktoFindings)
  <2>1. d.items[i] \in Items
    BY <1>1
  <2>2. ItemToFinding(d.site, d.items[i]) \in NiktoFindings
    BY <1>1, <2>1 DEF NiktoFindings
  <2>3. s[i] = <<>> \/ s[i] = <<ItemToFinding(d.site, d.items[i])>>
    BY <1>1, <2>1, NiktoItemType
  <2> QED BY <2>2, <2>3, OneOrNone
<1>3. s = [i \in DOMAIN d.items |-> s[i]]
  OBVIOUS
<1> HIDE DEF s
<1>4. FlattenSeq(s) \in Seq(NiktoFindings)
  BY <1>1, <1>2, <1>3, FlattenOver
<1> QED BY <1>4 DEF ScanFindings, s

LEMMA NiktoParseType ==
  ASSUME NEW rep \in NiktoReports
  PROVE  NiktoParse(rep).findings \in Seq(NiktoFindings)
<1> DEFINE r == ScanDetails(rep)
           s == [i \in DOMAIN r |-> ScanFindings(r[i])]
<1>1. r \in Seq(Scans)
  BY DEF NiktoReports, ScanDetails
<1> HIDE DEF r
<1>2. ASSUME NEW i \in DOMAIN r PROVE s[i] \in Seq(NiktoFindings)
  BY <1>1, ScanFindingsType
<1>3. s = [i \in DOMAIN r |-> s[i]]
  OBVIOUS
<1> HIDE DEF s
<1>4. FlattenSeq(s) \in Seq(NiktoFindings)
  BY <1>1, <1>2, <1>3, FlattenOver
<1>5. CASE rep.body = "whole"
  BY <1>4, <1>5, NiktoParseIs DEF s, r
<1>6. CASE rep.body # "whole"
  BY <1>6, EmptySeq DEF NiktoParse, Failed, Parsed
<1> QED BY <1>5, <1>6

-------------------------------------------------------------------------------
(***************************************************************************)
(* The steps of the pass.                                                  *)
(***************************************************************************)

LEMMA UpAnswerStays ==
  ASSUME UNCHANGED <<real, serves>>
  PROVE  \A u : UpAnswer(u)' = UpAnswer(u)
BY DEF UpAnswer

LEMMA IdleFits ==
  ASSUME VerifyInv, UNCHANGED <<verifyVars, siteVars>>
  PROVE  VerifyInv'
<1>1. /\ UNCHANGED <<vstep, todo, kept, dropped, cache, passCtx>>
      /\ UNCHANGED <<real, serves, site, flaps, everBlocked>>
  BY DEF verifyVars, siteVars
<1>2. \A u : UpAnswer(u)' = UpAnswer(u)
  BY <1>1, UpAnswerStays
<1>3. VerifyType'
  BY <1>1 DEF VerifyInv, VerifyType, InHand
<1>4. CacheFits'
  BY <1>1, <1>2 DEF VerifyInv, CacheFits
<1>5. DropsFit'
  BY <1>1 DEF VerifyInv, DropsFit
<1>6. QuietFits'
  BY <1>1, <1>2 DEF VerifyInv, QuietFits, Quiet, Passing
<1> QED BY <1>3, <1>4, <1>5, <1>6 DEF VerifyInv

LEMMA BeginFits ==
  ASSUME VerifyInv, findings \in Seq(NiktoFindings), Begin(findings)
  PROVE  VerifyInv'
<1>1. /\ UNCHANGED <<dropped, cache, passCtx, real, serves, site, flaps, everBlocked>>
      /\ vstep = "off" /\ cache = <<>> /\ dropped = <<>>
      /\ \/ vstep' = "pick" /\ todo' = findings /\ kept' = <<>>
         \/ vstep' = "done" /\ todo' = <<>> /\ kept' = findings
  BY DEF Begin, siteVars, VerifyInv, VerifyType
<1>2. \A u : UpAnswer(u)' = UpAnswer(u)
  BY <1>1, UpAnswerStays
<1>3. VerifyType'
  BY <1>1, EmptySeq DEF VerifyInv, VerifyType
<1>4. CacheFits'
  BY <1>1, <1>2 DEF VerifyInv, CacheFits
<1>5. DropsFit'
  BY <1>1 DEF VerifyInv, DropsFit
<1>6. QuietFits'
  <2>1. Range(<<>>) = {} /\ DOMAIN <<>> = {}
    BY DEF Range
  <2> QED BY <1>1, <2>1 DEF QuietFits, Passing
<1> QED BY <1>3, <1>4, <1>5, <1>6 DEF VerifyInv

LEMMA SiteChangesFits ==
  ASSUME VerifyInv, SiteChanges
  PROVE  VerifyInv'
<1>1. /\ UNCHANGED <<vstep, todo, kept, dropped, cache, passCtx, real, serves>>
      /\ flaps' = flaps + 1 /\ site' \in {"up", "blocked", "down"}
      /\ everBlocked' = (everBlocked \/ site' = "blocked")
  BY DEF SiteChanges, verifyVars
<1>2. \A u : UpAnswer(u)' = UpAnswer(u)
  BY <1>1, UpAnswerStays
<1>3. VerifyType' /\ flaps' # 0
  BY <1>1 DEF VerifyInv, VerifyType, InHand
<1>4. CacheFits'
  BY <1>1, <1>2 DEF VerifyInv, CacheFits
<1>5. DropsFit'
  BY <1>1 DEF VerifyInv, DropsFit
<1>6. QuietFits'
  BY <1>3 DEF QuietFits, Quiet
<1> QED BY <1>3, <1>4, <1>5, <1>6 DEF VerifyInv

LEMMA BudgetEndsFits ==
  ASSUME VerifyInv, BudgetEnds
  PROVE  VerifyInv'
<1>1. /\ UNCHANGED <<vstep, todo, kept, dropped, cache, real, serves, site, flaps, everBlocked>>
      /\ passCtx' = "over"
  BY DEF BudgetEnds, siteVars
<1>2. \A u : UpAnswer(u)' = UpAnswer(u)
  BY <1>1, UpAnswerStays
<1>3. VerifyType'
  BY <1>1 DEF VerifyInv, VerifyType, InHand
<1>4. CacheFits'
  BY <1>1, <1>2 DEF VerifyInv, CacheFits
<1>5. DropsFit'
  BY <1>1 DEF VerifyInv, DropsFit
<1>6. QuietFits'
  BY <1>1 DEF QuietFits, Quiet
<1> QED BY <1>3, <1>4, <1>5, <1>6 DEF VerifyInv

LEMMA PassEndsFits ==
  ASSUME VerifyInv, PassEnds
  PROVE  VerifyInv'
<1>1. /\ UNCHANGED <<todo, kept, dropped, cache, passCtx, real, serves, site, flaps, everBlocked>>
      /\ vstep = "pick" /\ vstep' = "done"
  BY DEF PassEnds, siteVars
<1>2. \A u : UpAnswer(u)' = UpAnswer(u)
  BY <1>1, UpAnswerStays
<1>3. VerifyType'
  BY <1>1 DEF VerifyInv, VerifyType
<1>4. CacheFits'
  BY <1>1, <1>2 DEF VerifyInv, CacheFits
<1>5. DropsFit'
  BY <1>1 DEF VerifyInv, DropsFit
<1>6. QuietFits'
  BY <1>1, <1>2 DEF VerifyInv, QuietFits, Quiet, Passing
<1> QED BY <1>3, <1>4, <1>5, <1>6 DEF VerifyInv

\* A finding that is not tried, or cannot be.
LEMMA KeepUntriedFits ==
  ASSUME VerifyInv, KeepOther \/ KeepUntried
  PROVE  VerifyInv'
<1>1. /\ UNCHANGED <<dropped, cache, passCtx, real, serves, site, flaps, everBlocked>>
      /\ vstep = "pick" /\ vstep' = "pick" /\ todo # <<>> /\ Keep
      /\ passCtx = "over" \/ ~Checked(Head(todo))
  BY DEF KeepOther, KeepUntried, siteVars, Keep, Checked
<1>2. \A u : UpAnswer(u)' = UpAnswer(u)
  BY <1>1, UpAnswerStays
<1>3. /\ todo' \in Seq(NiktoFindings) /\ kept' \in Seq(NiktoFindings)
      /\ \A f \in Range(kept') : f \in Range(kept) \/ f = Head(todo)
  BY <1>1, KeepFits DEF VerifyInv
<1>4. VerifyType'
  BY <1>1, <1>3 DEF VerifyInv, VerifyType
<1>5. CacheFits'
  BY <1>1, <1>2 DEF VerifyInv, CacheFits
<1>6. DropsFit'
  BY <1>1 DEF VerifyInv, DropsFit
<1>7. QuietFits'
  <2>1. SUFFICES ASSUME Quiet'
                 PROVE  /\ \A u \in DOMAIN cache' : cache'[u] = UpAnswer(u)'
                        /\ \A f \in Range(kept') : Checked(f) => f.url.uri \in real'
    BY DEF QuietFits, Checked
  <2>2. Quiet /\ ~Checked(Head(todo)) /\ Passing
    BY <1>1, <2>1 DEF Quiet, Passing
  <2> QED BY <1>1, <1>2, <1>3, <2>2 DEF VerifyInv, QuietFits
<1> QED BY <1>4, <1>5, <1>6, <1>7 DEF VerifyInv

\* Memoising an answer keeps the memo what it is.
LEMMA RememberKeepsFit ==
  ASSUME VerifyInv, NEW u, Remember(u), UNCHANGED <<passCtx, siteVars>>
  PROVE  /\ CacheFits'
         /\ Quiet' => \A v \in DOMAIN cache' : cache'[v] = UpAnswer(v)'
<1>1. /\ UNCHANGED <<passCtx, real, serves, site, flaps, everBlocked>>
      /\ \A v : UpAnswer(v)' = UpAnswer(v)
  BY UpAnswerStays DEF siteVars
<1>2. /\ DOMAIN cache' = DOMAIN cache \cup {u} /\ cache'[u] = Fetch(u)
      /\ \A v \in DOMAIN cache' : v # u => v \in DOMAIN cache /\ cache'[v] = cache[v]
  BY RememberFits
<1>3. CacheFits'
  <2>1. \/ Fetch(u) \in {FailedProbe, UpAnswer(u)}
        \/ everBlocked /\ Fetch(u) = Blocked
    BY FetchFits DEF VerifyInv
  <2>2. ASSUME NEW v \in DOMAIN cache'
        PROVE  cache'[v] \in {FailedProbe, UpAnswer(v)} \/ (everBlocked /\ cache'[v] = Blocked)
    <3>1. CASE v = u
      BY <1>2, <2>1, <3>1
    <3>2. CASE v # u
      BY <1>2, <3>2 DEF VerifyInv, CacheFits
    <3> QED BY <3>1, <3>2
  <2> QED BY <1>1, <2>2 DEF VerifyInv, CacheFits
<1>4. ASSUME Quiet', NEW v \in DOMAIN cache' PROVE cache'[v] = UpAnswer(v)'
  <2>1. Quiet
    BY <1>1, <1>4 DEF Quiet
  <2>2. Fetch(u) = UpAnswer(u)
    BY <2>1, FetchQuiet DEF VerifyInv
  <2> QED BY <1>1, <1>2, <2>1, <2>2 DEF VerifyInv, QuietFits
<1> QED BY <1>3, <1>4

LEMMA FetchTargetFits ==
  ASSUME VerifyInv, FetchTarget
  PROVE  VerifyInv'
<1> DEFINE h == Head(todo)
<1>1. /\ UNCHANGED <<passCtx, siteVars>> /\ UNCHANGED <<real, serves, site, flaps, everBlocked>>
      /\ vstep = "pick" /\ todo # <<>> /\ Checked(h) /\ Remember(h.url)
      /\ \/ Fetch(h.url).err /\ Keep
         \/ vstep' = "control" /\ UNCHANGED <<todo, kept, dropped>>
  BY DEF FetchTarget, siteVars, Checked
<1>2. /\ CacheFits'
      /\ Quiet' => \A v \in DOMAIN cache' : cache'[v] = UpAnswer(v)'
  BY <1>1, RememberKeepsFit
<1>3. h.url \in DOMAIN cache'
  BY <1>1, RememberFits
<1> HIDE DEF h
<1>4. CASE Fetch(h.url).err /\ Keep
  <2>1. /\ todo' \in Seq(NiktoFindings) /\ kept' \in Seq(NiktoFindings)
        /\ \A f \in Range(kept') : f \in Range(kept) \/ f = h
    BY <1>1, <1>4, KeepFits DEF VerifyInv, h
  <2>2. vstep' = "pick" /\ UNCHANGED dropped
    BY <1>4 DEF Keep
  <2>3. VerifyType'
    BY <1>1, <2>1, <2>2 DEF VerifyInv, VerifyType
  <2>4. DropsFit'
    BY <1>1, <2>2 DEF VerifyInv, DropsFit
  <2>5. ASSUME Quiet' PROVE FALSE
    <3>1. Fetch(h.url) = UpAnswer(h.url)
      <4>1. Quiet
        BY <1>1, <2>5 DEF Quiet
      <4> QED BY <4>1, FetchQuiet DEF VerifyInv
    <3>2. UpAnswer(h.url).err = FALSE
      BY DEF UpAnswer, Probe
    <3> QED BY <1>4, <3>1, <3>2
  <2>6. QuietFits'
    BY <2>5 DEF QuietFits
  <2> QED BY <1>2, <2>3, <2>4, <2>6 DEF VerifyInv
<1>5. CASE vstep' = "control" /\ UNCHANGED <<todo, kept, dropped>>
  <2>1. InHand'
    BY <1>1, <1>3, <1>5 DEF InHand, Checked, h
  <2>2. VerifyType'
    BY <1>1, <1>5, <2>1 DEF VerifyInv, VerifyType
  <2>3. DropsFit'
    BY <1>1, <1>5 DEF VerifyInv, DropsFit
  <2>4. QuietFits'
    <3>1. SUFFICES ASSUME Quiet' PROVE \A f \in Range(kept') : Checked(f) => f.url.uri \in real'
      BY <1>2 DEF QuietFits, Checked
    <3>2. Quiet /\ Passing
      BY <1>1, <3>1 DEF Quiet, Passing
    <3> QED BY <1>1, <1>5, <3>2 DEF VerifyInv, QuietFits
  <2> QED BY <1>2, <2>2, <2>3, <2>4 DEF VerifyInv
<1> QED BY <1>1, <1>4, <1>5

LEMMA FetchControlFits ==
  ASSUME VerifyInv, FetchControl
  PROVE  VerifyInv'
<1> DEFINE h == Head(todo)
<1>1. /\ UNCHANGED <<passCtx, siteVars>> /\ UNCHANGED <<real, serves, site, flaps, everBlocked>>
      /\ vstep = "control" /\ todo # <<>> /\ Checked(h) /\ h.url \in DOMAIN cache
  BY DEF FetchControl, siteVars, VerifyInv, VerifyType, InHand, Checked
<1>2. PICK c \in ControlURLFor(h.url) :
        /\ Remember(c)
        /\ \/ /\ Decide(cache[h.url], Fetch(c))
              /\ dropped' = Append(dropped, h) /\ todo' = Tail(todo) /\ vstep' = "pick" /\ UNCHANGED kept
           \/ ~Decide(cache[h.url], Fetch(c)) /\ Keep
  BY DEF FetchControl
<1>3. /\ CacheFits'
      /\ Quiet' => \A v \in DOMAIN cache' : cache'[v] = UpAnswer(v)'
  BY <1>1, <1>2, RememberKeepsFit
<1>4. /\ h \in NiktoFindings /\ Tail(todo) \in Seq(NiktoFindings)
      /\ dropped \in Seq(NiktoFindings) /\ kept \in Seq(NiktoFindings)
  BY <1>1, HeadTailProperties DEF VerifyInv, VerifyType
<1> HIDE DEF h
<1>5. c.uri \notin real /\ c.uri.parent = h.url.uri.parent
  BY <1>4, ControlShape DEF VerifyInv
<1>6. CASE /\ Decide(cache[h.url], Fetch(c))
           /\ dropped' = Append(dropped, h) /\ todo' = Tail(todo) /\ vstep' = "pick" /\ UNCHANGED kept
  <2>1. dropped' \in Seq(NiktoFindings) /\ Range(dropped') = Range(dropped) \cup {h}
    BY <1>4, <1>6, AppendRange
  <2>2. VerifyType'
    BY <1>1, <1>4, <1>6, <2>1 DEF VerifyInv, VerifyType
  <2>3. ASSUME h.url.uri \in real, ~everBlocked PROVE FALSE
    <3>1. cache[h.url] \in {FailedProbe, UpAnswer(h.url)}
      BY <1>1, <2>3 DEF VerifyInv, CacheFits
    <3>2. Fetch(c) \in {FailedProbe, UpAnswer(c)}
      BY <2>3, FetchFits DEF VerifyInv
    <3>3. VerifyType
      BY DEF VerifyInv
    <3> QED BY <1>5, <1>6, <2>3, <3>1, <3>2, <3>3, RealSurvives
  <2>4. DropsFit'
    BY <1>1, <2>1, <2>3 DEF VerifyInv, DropsFit, Checked
  <2>5. QuietFits'
    <3>1. SUFFICES ASSUME Quiet' PROVE \A f \in Range(kept') : Checked(f) => f.url.uri \in real'
      BY <1>3 DEF QuietFits, Checked
    <3>2. Quiet /\ Passing
      BY <1>1, <3>1 DEF Quiet, Passing
    <3> QED BY <1>1, <1>6, <3>2 DEF VerifyInv, QuietFits
  <2> QED BY <1>3, <2>2, <2>4, <2>5 DEF VerifyInv
<1>7. CASE ~Decide(cache[h.url], Fetch(c)) /\ Keep
  <2>1. /\ todo' \in Seq(NiktoFindings) /\ kept' \in Seq(NiktoFindings)
        /\ \A f \in Range(kept') : f \in Range(kept) \/ f = h
    BY <1>1, <1>7, KeepFits DEF VerifyInv, h
  <2>2. vstep' = "pick" /\ UNCHANGED dropped
    BY <1>7 DEF Keep
  <2>3. VerifyType'
    BY <1>1, <2>1, <2>2 DEF VerifyInv, VerifyType
  <2>4. DropsFit'
    BY <1>1, <2>2 DEF VerifyInv, DropsFit
  <2>5. QuietFits'
    <3>1. SUFFICES ASSUME Quiet' PROVE \A f \in Range(kept') : Checked(f) => f.url.uri \in real'
      BY <1>3 DEF QuietFits, Checked
    <3>2. Quiet /\ Passing
      BY <1>1, <3>1 DEF Quiet, Passing
    <3>3. cache[h.url] = UpAnswer(h.url) /\ Fetch(c) = UpAnswer(c)
      BY <1>1, <3>2, FetchQuiet DEF VerifyInv, QuietFits
    <3>4. h.url.uri \in real
      BY <1>5, <1>7, <3>3, DecideUp DEF VerifyInv
    <3> QED BY <1>1, <2>1, <3>2, <3>4 DEF VerifyInv, QuietFits
  <2> QED BY <1>3, <2>3, <2>4, <2>5 DEF VerifyInv
<1> QED BY <1>2, <1>6, <1>7

LEMMA VerifyNextFits ==
  ASSUME VerifyInv, VerifyNext
  PROVE  VerifyInv'
BY SiteChangesFits, KeepUntriedFits, FetchTargetFits, FetchControlFits, BudgetEndsFits, PassEndsFits
   DEF VerifyNext

\* The pass is given what the parser found.
Given ==
  phase = "verify" => tool = "nikto" /\ outcome = "ok" /\ findings = NiktoParse(report).findings

LEMMA GivenStays ==
  ASSUME Given, [Next]_vars
  PROVE  Given'
<1>1. CASE Parse
  BY <1>1 DEF Parse, Given, ParseOutput
<1>2. CASE UNCHANGED <<phase, tool, report, outcome, findings>> \/ phase' # "verify"
  BY <1>2 DEF Given
<1> QED BY <1>1, <1>2
        DEF Next, vars, runVars, AskNmap, AskOther, BeginVerify, Verify, EndVerify, Enrich

LEMMA GivenType ==
  ASSUME Given, Reported, phase = "verify"
  PROVE  findings \in Seq(NiktoFindings)
<1>1. report \in NiktoReports
  BY DEF Given, Reported, ReportsOf
<1> QED BY <1>1, NiktoParseType DEF Given

LEMMA VerifyStays ==
  ASSUME VerifyInv, Given, Reported, [Next]_vars
  PROVE  VerifyInv'
<1>1. CASE BeginVerify
  BY <1>1, GivenType, BeginFits DEF BeginVerify
<1>2. CASE Verify
  BY <1>2, VerifyNextFits DEF Verify
<1>3. CASE UNCHANGED <<verifyVars, siteVars>>
  BY <1>3, IdleFits
<1> QED BY <1>1, <1>2, <1>3 DEF Next, vars, AskNmap, AskOther, Parse, EndVerify, Enrich

LEMMA AlwaysVerify == Spec => [](VerifyInv /\ Given /\ Reported)
<1>1. Init => VerifyInv /\ Given /\ Reported
  BY InitVerify, InitReported DEF Given, Init
<1>2. VerifyInv /\ Given /\ Reported /\ [Next]_vars => VerifyInv' /\ Given' /\ Reported'
  BY VerifyStays, GivenStays, ReportedStays
<1> QED BY <1>1, <1>2, PTL DEF Spec

\* When the site stays up and the budget lasts, what the pass tried and kept is
\* about files the site really has, whatever the report and the site.
THEOREM DropsPhantoms == Spec => []PhantomsDropped
<1>1. VerifyInv => PhantomsDropped
  BY DEF VerifyInv, QuietFits, Quiet, PhantomsDropped, Checked
<1> QED BY <1>1, AlwaysVerify, PTL

-------------------------------------------------------------------------------
(***************************************************************************)
(* nikto: the order of what the pass keeps.                                *)
(***************************************************************************)
\* What Without leaves: nothing of nothing, and of one more record that record
\* unless it is in the set.
Passed(s, W) == [i \in DOMAIN s |-> IF s[i] \notin W THEN <<s[i]>> ELSE <<>>]

LEMMA WithoutIs ==
  ASSUME NEW s, NEW W
  PROVE  Without(s, W) = FlattenSeq(Passed(s, W))
BY DEF Without, Select, Each, Passed

LEMMA PassedType ==
  ASSUME NEW S, NEW s \in Seq(S), NEW W
  PROVE  Passed(s, W) \in Seq(Seq(S)) /\ Len(Passed(s, W)) = Len(s) /\ Without(s, W) \in Seq(S)
<1> DEFINE q == Passed(s, W)
<1>1. ASSUME NEW i \in DOMAIN s PROVE q[i] \in Seq(S)
  <2>1. q[i] = <<>> \/ q[i] = <<s[i]>>
    BY DEF Passed
  <2>2. s[i] \in S
    OBVIOUS
  <2> HIDE DEF q
  <2> QED BY <2>1, <2>2, OneOrNone
<1>2. q = [i \in DOMAIN s |-> q[i]]
  BY DEF Passed
<1>3. Without(s, W) = FlattenSeq(q)
  BY WithoutIs
<1> HIDE DEF q
<1>4. q \in Seq(Seq(S)) /\ Len(q) = Len(s) /\ FlattenSeq(q) \in Seq(S)
  BY <1>1, <1>2, FlattenOver
<1> QED BY <1>3, <1>4 DEF q

LEMMA WithoutEmpty ==
  ASSUME NEW W
  PROVE  Without(<<>>, W) = <<>>
<1>1. Passed(<<>>, W) = <<>>
  BY DEF Passed
<1> QED BY <1>1, WithoutIs, FlattenEmpty

LEMMA WithoutAppend ==
  ASSUME NEW S, NEW s \in Seq(S), NEW x \in S, NEW W
  PROVE  Without(Append(s, x), W) = IF x \in W THEN Without(s, W) ELSE Append(Without(s, W), x)
<1> DEFINE t == Append(s, x)
           y == IF x \notin W THEN <<x>> ELSE <<>>
           p == Passed(s, W)
           q == Passed(t, W)
<1>1. /\ t \in Seq(S) /\ Len(t) = Len(s) + 1 /\ t[Len(s) + 1] = x
      /\ Len(s) \in Nat /\ \A i \in 1..Len(s) : t[i] = s[i]
  BY AppendProperties, LenProperties
<1>2. y \in Seq(S)
  <2>1. <<x>> \in Seq(S) /\ <<>> \in Seq(S)
    OBVIOUS
  <2> QED BY <2>1
<1>3. p \in Seq(Seq(S)) /\ Len(p) = Len(s) /\ q \in Seq(Seq(S)) /\ Len(q) = Len(t)
  BY <1>1, PassedType
<1>4. /\ \A i \in 1..Len(s) : p[i] = IF s[i] \notin W THEN <<s[i]>> ELSE <<>>
      /\ \A i \in 1..Len(t) : q[i] = IF t[i] \notin W THEN <<t[i]>> ELSE <<>>
  BY <1>1 DEF Passed
<1>5. Without(s, W) = FlattenSeq(p) /\ Without(t, W) = FlattenSeq(q) /\ Without(s, W) \in Seq(S)
  BY WithoutIs, PassedType
<1> HIDE DEF t, p, q, y
<1>6. Append(p, y) = q
  <2> DEFINE r == Append(p, y)
  <2>1. /\ r \in Seq(Seq(S)) /\ Len(r) = Len(s) + 1 /\ r[Len(s) + 1] = y
        /\ \A i \in 1..Len(s) : r[i] = p[i]
    BY <1>2, <1>3, AppendProperties
  <2> HIDE DEF r
  <2>2. ASSUME NEW i \in 1..(Len(s) + 1) PROVE r[i] = q[i]
    <3>1. CASE i \in 1..Len(s)
      <4>1. i \in 1..Len(t)
        BY <1>1
      <4> QED BY <1>1, <1>4, <2>1, <3>1, <4>1
    <3>2. CASE i = Len(s) + 1
      <4>1. i \in 1..Len(t) /\ t[i] = x
        BY <1>1, <3>2
      <4> QED BY <1>4, <2>1, <3>2, <4>1 DEF y
    <3> QED BY <1>1, <3>1, <3>2
  <2>3. Len(r) = Len(q) /\ \A i \in 1..Len(r) : r[i] = q[i]
    BY <1>1, <1>3, <2>1, <2>2
  <2>4. r = q
    BY <1>3, <2>1, <2>3, SeqEqual
  <2> QED BY <2>4 DEF r
<1>7. FlattenSeq(q) = FlattenSeq(p) \o y
  BY <1>2, <1>3, <1>6, FlattenAppend
<1>8. CASE x \in W
  <2>1. y = <<>>
    BY <1>8 DEF y
  <2> QED BY <1>5, <1>7, <1>8, <2>1, ConcatEmptySeq DEF t
<1>9. CASE x \notin W
  <2>1. y = <<x>>
    BY <1>9 DEF y
  <2>2. Without(s, W) \o <<x>> = Append(Without(s, W), x)
    BY <1>5, AppendIsConcat
  <2> QED BY <1>5, <1>7, <1>9, <2>1, <2>2 DEF t
<1> QED BY <1>8, <1>9

\* Only what is in the sequence matters, and nothing is lost without a set.
LEMMA WithoutAgrees ==
  ASSUME NEW s, NEW W, NEW V, \A i \in DOMAIN s : s[i] \in W <=> s[i] \in V
  PROVE  Without(s, W) = Without(s, V)
<1>1. Passed(s, W) = Passed(s, V)
  BY DEF Passed
<1> QED BY <1>1, WithoutIs

LEMMA WithoutNone ==
  ASSUME NEW S, NEW s \in Seq(S)
  PROVE  Without(s, {}) = s
<1> DEFINE T == {u \in Seq(S) : Without(u, {}) = u}
<1>1. <<>> \in T
  BY WithoutEmpty, EmptySeq
<1>2. ASSUME NEW u \in T, NEW x \in S PROVE Append(u, x) \in T
  BY WithoutAppend, AppendProperties
<1>3. T = Seq(S)
  <2> HIDE DEF T
  <2>1. T \in SUBSET Seq(S)
    BY DEF T
  <2> QED BY <1>1, <1>2, <2>1, SequenceInduction
<1> QED BY <1>3

\* The items of a report are numbered, so the parser's findings are distinct.
LEMMA NiktoItemFrom ==
  ASSUME NEW s \in STRING, NEW it \in Items, NEW k \in 1..Len(NiktoItem(s, it))
  PROVE  k = 1 /\ NiktoItem(s, it)[k].from = it
<1> DEFINE q == NiktoItem(s, it)
           x == ItemToFinding(s, it)
<1>1. q = <<>> \/ q = <<x>>
  BY NiktoItemType
<1>2. x.from = it
  BY DEF ItemToFinding, RawFinding
<1> HIDE DEF q, x
<1>3. Len(<<>>) = 0 /\ Len(<<x>>) = 1 /\ <<x>>[1] = x
  OBVIOUS
<1>4. k \in 1..Len(q)
  BY DEF q
<1>5. q # <<>>
  BY <1>3, <1>4
<1>6. q = <<x>>
  BY <1>1, <1>5
<1>7. k = 1
  BY <1>3, <1>4, <1>6
<1>8. q[k] = x
  BY <1>3, <1>6, <1>7
<1> QED BY <1>2, <1>7, <1>8 DEF q

Numbered(items) == \A k, l \in DOMAIN items : items[k].n = items[l].n => k = l

LEMMA ScanFindingsFrom ==
  ASSUME NEW d \in Scans
  PROVE  /\ \A k \in 1..Len(ScanFindings(d)) : \E i \in DOMAIN d.items : ScanFindings(d)[k].from = d.items[i]
         /\ Numbered(d.items) => NoRepeat(ScanFindings(d))
<1> DEFINE s == [i \in DOMAIN d.items |-> NiktoItem(d.site, d.items[i])]
<1>1. d.items \in Seq(Items) /\ d.site \in STRING /\ DOMAIN d.items = 1..Len(d.items)
  BY DEF Scans
<1>2. ASSUME NEW i \in DOMAIN d.items
      PROVE  /\ s[i] \in Seq(NiktoFindings)
             /\ \A k \in 1..Len(s[i]) : k = 1 /\ s[i][k].from = d.items[i]
  <2>1. d.items[i] \in Items
    BY <1>1
  <2>2. ItemToFinding(d.site, d.items[i]) \in NiktoFindings
    BY <1>1, <2>1 DEF NiktoFindings
  <2>3. s[i] = <<>> \/ s[i] = <<ItemToFinding(d.site, d.items[i])>>
    BY <1>1, <2>1, NiktoItemType
  <2>4. s[i] \in Seq(NiktoFindings)
    BY <2>2, <2>3, OneOrNone
  <2> QED BY <1>1, <2>1, <2>4, NiktoItemFrom
<1>3. s = [i \in DOMAIN d.items |-> s[i]] /\ ScanFindings(d) = FlattenSeq(s)
  BY DEF ScanFindings
<1> HIDE DEF s
<1>4. s \in Seq(Seq(NiktoFindings)) /\ Len(s) = Len(d.items)
  BY <1>1, <1>2, <1>3, FlattenOver
<1>5. ASSUME NEW k \in 1..Len(ScanFindings(d))
      PROVE  \E i \in DOMAIN d.items : ScanFindings(d)[k].from = d.items[i]
  <2>1. PICK i \in 1..Len(s) : \E j \in 1..Len(s[i]) : FlattenSeq(s)[k] = s[i][j]
    BY <1>3, <1>4, FlattenElements
  <2>2. PICK j \in 1..Len(s[i]) : FlattenSeq(s)[k] = s[i][j]
    BY <2>1
  <2>3. i \in DOMAIN d.items
    BY <1>1, <1>4
  <2>4. s[i][j].from = d.items[i]
    BY <1>2, <2>3
  <2> QED BY <1>3, <2>2, <2>3, <2>4
<1>6. ASSUME Numbered(d.items) PROVE NoRepeat(ScanFindings(d))
  <2>1. ASSUME NEW i \in 1..Len(s), NEW j \in 1..Len(s), NEW k \in 1..Len(s[i]), NEW l \in 1..Len(s[j]),
               s[i][k] = s[j][l]
        PROVE  i = j /\ k = l
    <3>1. i \in DOMAIN d.items /\ j \in DOMAIN d.items
      BY <1>1, <1>4
    <3>2. k = 1 /\ l = 1 /\ s[i][k].from = d.items[i] /\ s[j][l].from = d.items[j]
      BY <1>2, <3>1
    <3>3. d.items[i] = d.items[j]
      BY <2>1, <3>2
    <3> QED BY <1>6, <3>1, <3>2, <3>3 DEF Numbered
  <2>2. Apart(s)
    BY <2>1 DEF Apart
  <2> QED BY <1>3, <1>4, <2>2, FlattenDistinct
<1> QED BY <1>5, <1>6

LEMMA NiktoDistinct ==
  ASSUME NEW rep \in NiktoReports
  PROVE  NoRepeat(NiktoParse(rep).findings)
<1> DEFINE r == ScanDetails(rep)
           s == [i \in DOMAIN r |-> ScanFindings(r[i])]
<1>1. r \in Seq(Scans) /\ DOMAIN r = 1..Len(r)
  BY DEF NiktoReports, ScanDetails
<1>2. \A i, j \in DOMAIN r : \A k \in DOMAIN r[i].items, l \in DOMAIN r[j].items :
        r[i].items[k].n = r[j].items[l].n => i = j /\ k = l
  BY DEF NiktoReports
<1> HIDE DEF r
<1>3. \A i \in DOMAIN r : s[i] \in Seq(NiktoFindings) /\ s[i] = ScanFindings(r[i]) /\ r[i] \in Scans
  BY <1>1, ScanFindingsType
<1>4. s = [i \in DOMAIN r |-> s[i]]
  OBVIOUS
<1> HIDE DEF s
<1>5. s \in Seq(Seq(NiktoFindings)) /\ Len(s) = Len(r)
  BY <1>1, <1>3, <1>4, FlattenOver
<1>6. ASSUME NEW i \in 1..Len(s), NEW j \in 1..Len(s), NEW k \in 1..Len(s[i]), NEW l \in 1..Len(s[j]),
             s[i][k] = s[j][l]
      PROVE  i = j /\ k = l
  <2>1. i \in DOMAIN r /\ j \in DOMAIN r
    BY <1>1, <1>5
  <2>2. PICK a \in DOMAIN r[i].items : s[i][k].from = r[i].items[a]
    BY <1>3, <2>1, ScanFindingsFrom
  <2>3. PICK b \in DOMAIN r[j].items : s[j][l].from = r[j].items[b]
    BY <1>3, <2>1, ScanFindingsFrom
  <2>4. i = j
    BY <1>2, <1>6, <2>1, <2>2, <2>3
  <2>5. Numbered(r[i].items)
    BY <1>2, <2>1 DEF Numbered
  <2>6. NoRepeat(s[i])
    BY <1>3, <2>1, <2>5, ScanFindingsFrom
  <2> QED BY <1>6, <2>4, <2>6 DEF NoRepeat
<1>7. NoRepeat(FlattenSeq(s))
  <2>1. Apart(s)
    BY <1>6 DEF Apart
  <2> QED BY <1>5, <2>1, FlattenDistinct
<1>8. CASE rep.body = "whole"
  BY <1>7, <1>8, NiktoParseIs DEF s, r
<1>9. CASE rep.body # "whole"
  <2>1. NiktoParse(rep).findings = <<>> /\ 1..Len(<<>>) = {}
    BY <1>9 DEF NiktoParse, Failed, Parsed
  <2> QED BY <2>1 DEF NoRepeat
<1> QED BY <1>8, <1>9

\* While the pass runs, it has split the parser's findings into those done and
\* those to do, and has kept the done ones it did not drop, in their order.
Split(done) ==
  /\ findings = done \o todo
  /\ Range(dropped) \subseteq Range(done)
  /\ kept = Without(done, Range(dropped))

\* Afterwards the findings are what it kept; the enrichment keeps what they
\* were made from.
Left == Without(NiktoParse(report).findings, Range(dropped))
OrderInv ==
  /\ phase \in {"asked", "raw"} => vstep = "off"
  /\ phase = "verify" /\ Passing => \E done \in Seq(NiktoFindings) : Split(done)
  /\ phase = "verify" /\ vstep = "done" => kept = Left
  /\ phase = "enrich" /\ tool = "nikto" => findings = Left
  /\ phase = "done" /\ tool = "nikto" /\ outcome = "ok" =>
       [i \in DOMAIN findings |-> findings[i].from] = [i \in DOMAIN Left |-> Left[i].from]

\* The first of the findings to do is none of those done.
LEMMA HeadIsNew ==
  ASSUME NEW S, NEW done \in Seq(S), NEW rest \in Seq(S), rest # <<>>, NoRepeat(done \o rest)
  PROVE  /\ Head(rest) \in S /\ Head(rest) \notin Range(done)
         /\ Append(done, Head(rest)) \o Tail(rest) = done \o rest
<1> DEFINE h == Head(rest)
           n == Len(done)
           c == done \o rest
<1>1. /\ h \in S /\ Tail(rest) \in Seq(S) /\ h = rest[1] /\ Len(rest) \in Nat /\ Len(rest) # 0 /\ n \in Nat
      /\ DOMAIN done = 1..n
  BY HeadTailProperties, EmptySeq, LenProperties
<1>2. Len(c) = n + Len(rest) /\ \A i \in 1..(n + Len(rest)) : c[i] = IF i <= n THEN done[i] ELSE rest[i - n]
  BY ConcatProperties
<1> HIDE DEF c, h, n
<1>3. ASSUME NEW i \in DOMAIN done, done[i] = h PROVE FALSE
  <2>1. i \in 1..(n + Len(rest)) /\ n + 1 \in 1..(n + Len(rest)) /\ i <= n /\ i # n + 1 /\ ~(n + 1 <= n) /\ (n + 1) - n = 1
    BY <1>1
  <2>2. c[i] = h /\ c[n + 1] = h
    BY <1>1, <1>2, <1>3, <2>1
  <2> QED BY <1>2, <2>1, <2>2 DEF NoRepeat, c
<1>4. h \notin Range(done)
  BY <1>3 DEF Range
<1>5. Append(done, h) = done \o <<h>> /\ rest = <<h>> \o Tail(rest) /\ <<h>> \in Seq(S)
  <2>1. Append(done, h) = done \o <<h>>
    BY <1>1, AppendIsConcat
  <2>2. rest = <<h>> \o Tail(rest)
    BY HeadTailProperties DEF h
  <2> QED BY <1>1, <2>1, <2>2
<1>6. Append(done, h) \o Tail(rest) = done \o rest
  BY <1>1, <1>5, ConcatAssociative
<1> QED BY <1>1, <1>4, <1>6 DEF h

LEMMA GivenDistinct ==
  ASSUME Given, Reported, phase = "verify"
  PROVE  NoRepeat(findings)
<1>1. report \in NiktoReports
  BY DEF Given, Reported, ReportsOf
<1> QED BY <1>1, NiktoDistinct DEF Given

\* One finding is kept, or dropped, and the split moves past it.
LEMMA KeepSplits ==
  ASSUME VerifyType, NoRepeat(findings), NEW done \in Seq(NiktoFindings), Split(done), todo # <<>>,
         Keep, UNCHANGED findings
  PROVE  \E d \in Seq(NiktoFindings) : Split(d)'
<1> DEFINE h == Head(todo)
           d == Append(done, h)
<1>1. todo \in Seq(NiktoFindings)
  BY DEF VerifyType
<1>2. /\ h \in NiktoFindings /\ h \notin Range(done) /\ d \o Tail(todo) = done \o todo
  BY <1>1, HeadIsNew DEF Split
<1>3. d \in Seq(NiktoFindings) /\ Range(d) = Range(done) \cup {h}
  BY <1>2, AppendRange
<1>4. Without(d, Range(dropped)) = Append(Without(done, Range(dropped)), h)
  BY <1>2, WithoutAppend DEF Split
<1>5. kept' = Append(kept, h) /\ todo' = Tail(todo) /\ dropped' = dropped
  BY DEF Keep
<1> HIDE DEF d, h
<1>6. PICK e \in Seq(NiktoFindings) : e = d
  BY <1>3
<1>7. Split(e)'
  BY <1>2, <1>3, <1>4, <1>5, <1>6 DEF Split
<1> QED BY <1>7

LEMMA DropSplits ==
  ASSUME VerifyType, NoRepeat(findings), NEW done \in Seq(NiktoFindings), Split(done), todo # <<>>,
         dropped' = Append(dropped, Head(todo)), todo' = Tail(todo), UNCHANGED <<kept, findings>>
  PROVE  \E d \in Seq(NiktoFindings) : Split(d)'
<1> DEFINE h == Head(todo)
           d == Append(done, h)
           W == Range(dropped) \cup {h}
<1>1. todo \in Seq(NiktoFindings) /\ dropped \in Seq(NiktoFindings)
  BY DEF VerifyType
<1>2. /\ h \in NiktoFindings /\ h \notin Range(done) /\ d \o Tail(todo) = done \o todo
  BY <1>1, HeadIsNew DEF Split
<1>3. d \in Seq(NiktoFindings) /\ Range(d) = Range(done) \cup {h}
  BY <1>2, AppendRange
<1>4. Range(dropped') = W
  BY <1>1, <1>2, AppendRange
<1>5. Without(d, W) = Without(done, W)
  BY <1>2, WithoutAppend
<1>6. Without(done, W) = Without(done, Range(dropped))
  <2>1. \A i \in DOMAIN done : done[i] \in W <=> done[i] \in Range(dropped)
    BY <1>2 DEF Range
  <2> HIDE DEF W
  <2> QED BY <2>1, WithoutAgrees
<1> HIDE DEF d, h
<1>7. todo' = Tail(todo) /\ kept' = kept /\ findings' = findings
  OBVIOUS
<1>8. PICK e \in Seq(NiktoFindings) : e = d
  BY <1>3
<1>9. Split(e)'
  BY <1>2, <1>3, <1>4, <1>5, <1>6, <1>7, <1>8 DEF Split
<1> QED BY <1>9

LEMMA VerifyOrder ==
  ASSUME VerifyInv, Given, Reported, OrderInv, Verify
  PROVE  OrderInv'
<1>1. /\ phase = "verify" /\ VerifyNext /\ UNCHANGED <<tool, report, phase, outcome, findings>>
      /\ Left = Without(findings, Range(dropped)) /\ VerifyType
  BY DEF Verify, runVars, Left, Given, VerifyInv
<1>2. NoRepeat(findings) /\ findings \in Seq(NiktoFindings)
  BY <1>1, GivenDistinct, GivenType
<1>3. ASSUME Passing', \E d \in Seq(NiktoFindings) : Split(d)' PROVE OrderInv'
  BY <1>1, <1>3 DEF OrderInv, Passing
<1>4. ASSUME Passing PROVE \E d \in Seq(NiktoFindings) : Split(d)
  BY <1>1, <1>4 DEF OrderInv
<1>5. ASSUME todo # <<>>, Passing, Keep PROVE OrderInv'
  <2>1. PICK d \in Seq(NiktoFindings) : Split(d)
    BY <1>4, <1>5
  <2>2. \E e \in Seq(NiktoFindings) : Split(e)'
    BY <1>1, <1>2, <1>5, <2>1, KeepSplits
  <2>3. Passing'
    BY <1>5 DEF Keep, Passing
  <2> QED BY <1>3, <2>2, <2>3
<1>6. ASSUME Passing, Passing', UNCHANGED <<todo, kept, dropped>> PROVE OrderInv'
  <2>1. PICK d \in Seq(NiktoFindings) : Split(d)
    BY <1>4, <1>6
  <2>2. Split(d)'
    BY <1>1, <1>6, <2>1 DEF Split
  <2> QED BY <1>3, <1>6, <2>2
<1>7. CASE SiteChanges \/ BudgetEnds
  BY <1>6, <1>7 DEF SiteChanges, BudgetEnds, Passing, verifyVars
<1>8. CASE KeepOther \/ KeepUntried
  BY <1>5, <1>8 DEF KeepOther, KeepUntried, Passing
<1>9. CASE FetchTarget
  <2>1. CASE Keep
    BY <1>5, <1>9, <2>1 DEF FetchTarget, Passing
  <2>2. CASE vstep' = "control" /\ UNCHANGED <<todo, kept, dropped>>
    BY <1>6, <1>9, <2>2 DEF FetchTarget, Passing
  <2> QED BY <1>9, <2>1, <2>2 DEF FetchTarget
<1>10. CASE FetchControl
  <2>1. todo # <<>> /\ Passing
    BY <1>1, <1>10 DEF FetchControl, VerifyType, InHand, Passing
  <2>2. CASE Keep
    BY <1>5, <2>1, <2>2
  <2>3. CASE dropped' = Append(dropped, Head(todo)) /\ todo' = Tail(todo) /\ vstep' = "pick" /\ UNCHANGED kept
    <3>1. PICK d \in Seq(NiktoFindings) : Split(d)
      BY <1>4, <2>1
    <3>2. \E e \in Seq(NiktoFindings) : Split(e)'
      BY <1>1, <1>2, <2>1, <2>3, <3>1, DropSplits
    <3>3. Passing'
      BY <2>3 DEF Passing
    <3> QED BY <1>3, <3>2, <3>3
  <2> QED BY <1>10, <2>2, <2>3 DEF FetchControl
<1>11. CASE PassEnds
  <2>1. todo = <<>> /\ vstep' = "done" /\ UNCHANGED <<kept, dropped>> /\ Passing
    BY <1>11 DEF PassEnds, Passing
  <2>2. PICK d \in Seq(NiktoFindings) : Split(d)
    BY <1>4, <2>1
  <2>3. d \o todo = d
    BY <2>1, ConcatEmptySeq
  <2>4. kept = Left
    BY <1>1, <2>2, <2>3 DEF Split
  <2>5. kept' = Left'
    BY <1>1, <2>1, <2>4 DEF Left
  <2> QED BY <1>1, <2>1, <2>5 DEF OrderInv, Passing
<1> QED BY <1>1, <1>7, <1>8, <1>9, <1>10, <1>11 DEF VerifyNext

LEMMA BeginOrder ==
  ASSUME VerifyInv, Given, Reported, OrderInv, BeginVerify
  PROVE  OrderInv'
<1>1. /\ phase = "verify" /\ UNCHANGED <<tool, report, phase, outcome, findings, dropped>>
      /\ vstep = "off" /\ dropped = <<>> /\ findings = NiktoParse(report).findings
      /\ \/ vstep' = "pick" /\ todo' = findings /\ kept' = <<>>
         \/ vstep' = "done" /\ kept' = findings
  BY DEF BeginVerify, Begin, runVars, VerifyInv, VerifyType, Given
<1>2. findings \in Seq(NiktoFindings)
  BY <1>1, GivenType
<1>3. Range(dropped) = {}
  BY <1>1 DEF Range
<1>4. CASE vstep' = "pick" /\ todo' = findings /\ kept' = <<>>
  <2>1. <<>> \o findings = findings /\ <<>> \in Seq(NiktoFindings)
    BY <1>2, ConcatEmptySeq, EmptySeq
  <2>2. Without(<<>>, Range(dropped)) = <<>>
    BY WithoutEmpty
  <2>3. Split(<<>>)'
    BY <1>1, <1>3, <1>4, <2>1, <2>2 DEF Split
  <2> QED BY <1>1, <1>4, <2>1, <2>3 DEF OrderInv
<1>5. CASE vstep' = "done" /\ kept' = findings
  <2>1. kept' = Left'
    BY <1>1, <1>2, <1>3, <1>5, WithoutNone DEF Left
  <2> QED BY <1>1, <1>5, <2>1 DEF OrderInv, Passing
<1> QED BY <1>1, <1>4, <1>5

\* Giving a finding its fingerprint keeps what it was made from.
LEMMA EnrichKeepsFrom ==
  ASSUME findings \in Seq(NiktoFindings), Enrich
  PROVE  [i \in DOMAIN findings' |-> findings'[i].from] = [i \in DOMAIN findings |-> findings[i].from]
<1>1. findings' = [i \in DOMAIN findings |->
                     [findings[i] EXCEPT !.fingerprint = ComputeFingerprint(tool, findings[i])]]
  BY DEF Enrich
<1>2. ASSUME NEW i \in DOMAIN findings PROVE findings'[i].from = findings[i].from
  <2>1. findings[i] \in NiktoFindings
    OBVIOUS
  <2>2. \A f \in NiktoFindings : "from" \in DOMAIN f
    BY DEF NiktoFindings, ItemToFinding, RawFinding
  <2>3. "from" \in DOMAIN findings[i]
    BY <2>1, <2>2
  <2> QED BY <1>1, <2>3
<1> QED BY <1>1, <1>2

LEMMA OrderStays ==
  ASSUME VerifyInv, Given, Reported, OrderInv, [Next]_vars
  PROVE  OrderInv'
<1>1. CASE AskNmap \/ AskOther
  BY <1>1 DEF AskNmap, AskOther, OrderInv, verifyVars
<1>2. CASE Parse
  BY <1>2 DEF Parse, OrderInv, verifyVars, Passing
<1>3. CASE BeginVerify
  BY <1>3, BeginOrder
<1>4. CASE Verify
  BY <1>4, VerifyOrder
<1>5. CASE EndVerify
  <2>1. Left' = Left
    BY <1>5 DEF EndVerify, verifyVars, Left
  <2> QED BY <1>5, <2>1 DEF EndVerify, OrderInv, verifyVars
<1>6. CASE Enrich
  <2>1. Left' = Left /\ UNCHANGED tool /\ phase = "enrich" /\ phase' = "done"
    BY <1>6 DEF Enrich, verifyVars, Left
  <2>2. CASE tool = "nikto"
    <3>1. report \in NiktoReports
      BY <2>2 DEF Reported, ReportsOf
    <3>2. findings = Left /\ findings \in Seq(NiktoFindings)
      BY <2>1, <2>2, <3>1, NiktoParseType, PassedType DEF OrderInv, Left
    <3> QED BY <1>6, <2>1, <3>2, EnrichKeepsFrom DEF OrderInv
  <2>3. CASE tool # "nikto"
    BY <2>1, <2>3 DEF OrderInv
  <2> QED BY <2>2, <2>3
<1>7. CASE UNCHANGED vars
  BY <1>7 DEF vars, runVars, verifyVars, OrderInv, Left, Split, Passing
<1> QED BY <1>1, <1>2, <1>3, <1>4, <1>5, <1>6, <1>7 DEF Next

\* The pass drops only what it may and no file the site has, unless the site
\* answered everything with one page; the other findings leave the runner in
\* the parser's order, whatever the report, the site and its changes.
THEOREM KeepsRealFiles == Spec => []RealFileKept
<1>1. Init => OrderInv
  BY DEF Init, VerifyInit, OrderInv
<1>2. VerifyInv /\ Given /\ Reported /\ OrderInv /\ [Next]_vars => OrderInv'
  BY OrderStays
<1>3. VerifyInv /\ OrderInv => RealFileKept
  <2> SUFFICES ASSUME VerifyInv, OrderInv PROVE RealFileKept
    OBVIOUS
  <2>1. ASSUME NEW f \in Range(dropped)
        PROVE  /\ f.url.uri \in real => everBlocked
               /\ f.type \in {<<"nikto", "interesting-file">>, <<"nikto", "misconfiguration">>,
                              <<"nikto", "info-disclosure">>}
               /\ f.url.uri.bucket \notin {"absent", "root", "odd"}
    <3>1. f \in NiktoFindings /\ VerifyType
      BY DEF VerifyInv, VerifyType, Range
    <3>2. Checked(f) /\ (f.url.uri \in real => everBlocked)
      BY DEF VerifyInv, DropsFit
    <3>3. f.url.uri.bucket \notin {"absent", "root", "odd"}
      BY <3>1, <3>2, ControlShape DEF Checked
    <3>4. f.type \in {<<"nikto", "interesting-file">>, <<"nikto", "misconfiguration">>,
                      <<"nikto", "info-disclosure">>}
      <4>1. /\ TuningClassSlug["1"] = "interesting-file" /\ TuningClassSlug["2"] = "misconfiguration"
            /\ TuningClassSlug["3"] = "info-disclosure"
        BY DEF TuningClassSlug
      <4> QED BY <3>2, <4>1 DEF Checked, IsExistenceCheck, ExistenceCheckTuning
    <3> QED BY <3>2, <3>3, <3>4
  <2> QED BY <2>1 DEF OrderInv, RealFileKept, Left
<1> QED BY <1>1, <1>2, <1>3, AlwaysVerify, PTL DEF Spec

-------------------------------------------------------------------------------
(***************************************************************************)
(* The findings each parser can make.                                      *)
(***************************************************************************)
SemgrepMade ==
  {RawFinding(r, r.check_id, None, None, r.path, ExtractFloat(r.line), SemgrepSeverity(r.severity)) :
     r \in [check_id : STRING, path : STRING, line : Int, severity : STRING]}

GitleaksMade ==
  {RawFinding(r, r.RuleID, None, None, r.File, ExtractFloat(r.StartLine), "critical") :
     r \in [RuleID : STRING, File : STRING, StartLine : Int]}

CheckovMade ==
  {RawFinding(r, r.check_id, None, None, r.file_path, CheckovLine(r), "medium") :
     r \in [check_id : STRING, file_path : STRING, file_line_range : Seq(Int)]}

DepcheckMade ==
  {VulnToFinding(d, v) :
     d \in [filePath : STRING, vulnerabilities : Seq([name : STRING, severity : STRING])],
     v \in [name : STRING, severity : STRING]}

LEMMA SemgrepMakes ==
  ASSUME NEW rep \in SemgrepReports
  PROVE  SemgrepParse(rep).findings \in Seq(SemgrepMade)
<1> DEFINE A == [check_id : STRING, path : STRING, line : Int, severity : STRING]
           s == [i \in DOMAIN rep.records |-> SemgrepRecord(rep.records[i])]
<1>1. rep.records \in Seq(A)
  BY DEF SemgrepReports, Document
<1>2. \A r \in A : SemgrepRecord(r) \in Seq(SemgrepMade)
  BY OneOrNone DEF SemgrepRecord, SemgrepMade
<1>3. SemgrepParse(rep).findings \in {<<>>, FlattenSeq(s)}
  BY DEF SemgrepParse, ParseDocument, Failed, Parsed, Each
<1>4. FlattenSeq(s) \in Seq(SemgrepMade)
  <2> HIDE DEF A
  <2>1. s = [i \in DOMAIN rep.records |-> s[i]]
    OBVIOUS
  <2>2. ASSUME NEW i \in DOMAIN rep.records PROVE s[i] \in Seq(SemgrepMade)
    <3>1. rep.records[i] \in A
      BY ONLY <1>1, i \in DOMAIN rep.records
    <3> QED BY <1>2, <3>1
  <2> HIDE DEF s
  <2> QED BY ONLY <1>1, <2>1, <2>2, FlattenOver
<1> QED BY <1>3, <1>4, EmptySeq

LEMMA GitleaksMakes ==
  ASSUME NEW rep \in GitleaksReports
  PROVE  GitleaksParse(rep).findings \in Seq(GitleaksMade)
<1> DEFINE A == [RuleID : STRING, File : STRING, StartLine : Int]
           s == [i \in DOMAIN rep.records |-> GitleaksRecord(rep.records[i])]
<1>1. rep.records \in Seq(A)
  BY DEF GitleaksReports, Document
<1>2. \A r \in A : GitleaksRecord(r) \in Seq(GitleaksMade)
  BY OneOrNone DEF GitleaksRecord, GitleaksMade
<1>3. GitleaksParse(rep).findings \in {<<>>, FlattenSeq(s)}
  BY DEF GitleaksParse, ParseDocument, Failed, Parsed, Each
<1>4. FlattenSeq(s) \in Seq(GitleaksMade)
  <2> HIDE DEF A
  <2>1. s = [i \in DOMAIN rep.records |-> s[i]]
    OBVIOUS
  <2>2. ASSUME NEW i \in DOMAIN rep.records PROVE s[i] \in Seq(GitleaksMade)
    <3>1. rep.records[i] \in A
      BY ONLY <1>1, i \in DOMAIN rep.records
    <3> QED BY <1>2, <3>1
  <2> HIDE DEF s
  <2> QED BY ONLY <1>1, <2>1, <2>2, FlattenOver
<1> QED BY <1>3, <1>4, EmptySeq

LEMMA CheckovMakes ==
  ASSUME NEW rep \in CheckovReports
  PROVE  CheckovParse(rep).findings \in Seq(CheckovMade)
<1> DEFINE A == [check_id : STRING, file_path : STRING, file_line_range : Seq(Int)]
           s == [i \in DOMAIN rep.records |-> CheckovRecord(rep.records[i])]
<1>1. rep.records \in Seq(A)
  BY DEF CheckovReports, Document
<1>2. \A r \in A : CheckovRecord(r) \in Seq(CheckovMade)
  BY OneOrNone DEF CheckovRecord, CheckovMade
<1>3. CheckovParse(rep).findings \in {<<>>, FlattenSeq(s)}
  BY DEF CheckovParse, ParseDocument, Failed, Parsed, Each
<1>4. FlattenSeq(s) \in Seq(CheckovMade)
  <2> HIDE DEF A
  <2>1. s = [i \in DOMAIN rep.records |-> s[i]]
    OBVIOUS
  <2>2. ASSUME NEW i \in DOMAIN rep.records PROVE s[i] \in Seq(CheckovMade)
    <3>1. rep.records[i] \in A
      BY ONLY <1>1, i \in DOMAIN rep.records
    <3> QED BY <1>2, <3>1
  <2> HIDE DEF s
  <2> QED BY ONLY <1>1, <2>1, <2>2, FlattenOver
<1> QED BY <1>3, <1>4, EmptySeq

LEMMA DependencyMakes ==
  ASSUME NEW d \in [filePath : STRING, vulnerabilities : Seq([name : STRING, severity : STRING])]
  PROVE  DepcheckDependency(d) \in Seq(DepcheckMade)
<1> DEFINE V == [name : STRING, severity : STRING]
           Of(v) == IF ExtractString(v.name) = None THEN <<>> ELSE <<VulnToFinding(d, v)>>
           s == [i \in DOMAIN d.vulnerabilities |-> Of(d.vulnerabilities[i])]
<1>1. d.vulnerabilities \in Seq(V)
  OBVIOUS
<1>2. ASSUME NEW v \in V PROVE Of(v) \in Seq(DepcheckMade)
  <2>1. VulnToFinding(d, v) \in DepcheckMade
    BY DEF DepcheckMade
  <2> QED BY <2>1, OneOrNone
<1>3. DepcheckDependency(d) \in {<<>>, FlattenSeq(s)}
  BY DEF DepcheckDependency, Each
<1>4. FlattenSeq(s) \in Seq(DepcheckMade)
  <2> HIDE DEF V, Of
  <2>1. s = [i \in DOMAIN d.vulnerabilities |-> s[i]]
    OBVIOUS
  <2>2. ASSUME NEW i \in DOMAIN d.vulnerabilities PROVE s[i] \in Seq(DepcheckMade)
    <3>1. d.vulnerabilities[i] \in V
      BY ONLY <1>1, i \in DOMAIN d.vulnerabilities
    <3> QED BY <1>2, <3>1
  <2> HIDE DEF s
  <2> QED BY ONLY <1>1, <2>1, <2>2, FlattenOver
<1> QED BY <1>3, <1>4, EmptySeq

LEMMA DepcheckMakes ==
  ASSUME NEW rep \in DepcheckReports
  PROVE  DepcheckParse(rep).findings \in Seq(DepcheckMade)
<1> DEFINE A == [filePath : STRING, vulnerabilities : Seq([name : STRING, severity : STRING])]
           s == [i \in DOMAIN rep.records |-> DepcheckDependency(rep.records[i])]
<1>1. rep.records \in Seq(A)
  BY DEF DepcheckReports, Document
<1>2. \A r \in A : DepcheckDependency(r) \in Seq(DepcheckMade)
  BY DependencyMakes
<1>3. DepcheckParse(rep).findings \in {<<>>, FlattenSeq(s)}
  BY DEF DepcheckParse, ParseDocument, Failed, Parsed, Each
<1>4. FlattenSeq(s) \in Seq(DepcheckMade)
  <2> HIDE DEF A
  <2>1. s = [i \in DOMAIN rep.records |-> s[i]]
    OBVIOUS
  <2>2. ASSUME NEW i \in DOMAIN rep.records PROVE s[i] \in Seq(DepcheckMade)
    <3>1. rep.records[i] \in A
      BY ONLY <1>1, i \in DOMAIN rep.records
    <3> QED BY <1>2, <3>1
  <2> HIDE DEF s
  <2> QED BY ONLY <1>1, <2>1, <2>2, FlattenOver
<1> QED BY <1>3, <1>4, EmptySeq

-------------------------------------------------------------------------------
NucleiLines ==
  [kind : STRING, template_id : STRING, matched_at : STRING, host : STRING, severity : STRING]

\* The places of the lines that are too long, and what is read before them.
Longs(lines) == {i \in 1..Len(lines) : lines[i].kind = "long"}

LEMMA ScannedIs ==
  ASSUME NEW L, NEW lines \in Seq(L)
  PROVE  Scanned(lines) = Cut(lines, Longs(lines))
<1> DEFINE I == Longs(lines)
<1>1. SelectInSeq(lines, LAMBDA l : l.kind = "long") = IF I # {} THEN Min(I) ELSE 0
  BY DEF SelectInSeq, Longs
<1>2. Len(lines) \in Nat /\ I \in SUBSET Nat /\ 0 \notin I
  BY LenProperties DEF Longs
<1> HIDE DEF I
<1>3. I # {} => Min(I) # 0
  <2> SUFFICES ASSUME I # {} PROVE Min(I) # 0
    OBVIOUS
  <2>1. PICK n \in I : \A i \in I : n <= i
    BY <1>2, LeastNatural
  <2>2. Min(I) = n
    BY <1>2, <2>1, LeastIs
  <2> QED BY <1>2, <2>2
<1> QED BY <1>1, <1>3 DEF Scanned, Cut, I

LEMMA ScannedFits ==
  ASSUME NEW L, NEW lines \in Seq(L)
  PROVE  Scanned(lines) \in Seq(L)
<1>1. Longs(lines) \in SUBSET (1..Len(lines))
  BY DEF Longs
<1> QED BY <1>1, ScannedIs, CutFits

\* Reading on after more lines.
LEMMA ScannedConcat ==
  ASSUME NEW L, NEW x \in Seq(L), NEW y \in Seq(L)
  PROVE  /\ Scanned(x \o y) = IF Longs(x) # {} THEN Scanned(x) ELSE x \o Scanned(y)
         /\ Longs(x \o y) = {} <=> Longs(x) = {} /\ Longs(y) = {}
<1> DEFINE m == Len(x)
           n == Len(y)
           z == x \o y
<1>1. /\ m \in Nat /\ n \in Nat /\ z \in Seq(L) /\ Len(z) = m + n
      /\ \A i \in 1..(m + n) : z[i] = IF i <= m THEN x[i] ELSE y[i - m]
  BY LenProperties, ConcatProperties
<1> HIDE DEF z
<1>2. Longs(x) = Longs(z) \cap (1..m)
  <2>1. ASSUME NEW i \in 1..m PROVE i \in Longs(x) <=> i \in Longs(z)
    <3>1. i \in 1..(m + n) /\ i <= m
      BY <1>1
    <3> QED BY <1>1, <3>1 DEF Longs
  <2> QED BY <2>1 DEF Longs
<1>3. Longs(y) = {k \in 1..n : m + k \in Longs(z)}
  <2>1. ASSUME NEW k \in 1..n PROVE k \in Longs(y) <=> m + k \in Longs(z)
    <3>1. m + k \in 1..(m + n) /\ ~(m + k <= m) /\ (m + k) - m = k
      BY <1>1
    <3> QED BY <1>1, <3>1 DEF Longs
  <2> QED BY <2>1 DEF Longs
<1>4. Longs(z) \in SUBSET (1..Len(x \o y))
  BY DEF Longs, z
<1>a. Places(x, y, Longs(z), Longs(x), Longs(y))
  BY <1>2, <1>3, <1>4 DEF Places
<1>5. Cut(x \o y, Longs(z)) = IF Longs(x) # {} THEN Cut(x, Longs(x)) ELSE x \o Cut(y, Longs(y))
  BY ONLY <1>a, CutConcat, x \in Seq(L), y \in Seq(L)
<1>6. Scanned(z) = Cut(z, Longs(z)) /\ Scanned(x) = Cut(x, Longs(x)) /\ Scanned(y) = Cut(y, Longs(y))
  BY <1>1, ScannedIs
<1>7. Longs(z) = {} <=> Longs(x) = {} /\ Longs(y) = {}
  <2>1. ASSUME NEW i \in Longs(z) PROVE i \in 1..m \/ (i - m \in 1..n /\ m + (i - m) = i)
    <3>1. i \in 1..(m + n)
      BY <1>1 DEF Longs
    <3> QED BY <1>1, <3>1
  <2> QED BY <1>2, <1>3, <2>1
<1> QED BY <1>5, <1>6, <1>7 DEF z

NucleiMade ==
  {RawFinding(l, l.template_id, IF ExtractString(l.matched_at) = None THEN l.host ELSE l.matched_at,
              None, None, 0, NucleiSeverity(l.severity)) : l \in NucleiLines}

LEMMA NucleiMakes ==
  ASSUME NEW rep \in NucleiReports
  PROVE  NucleiParse(rep).findings \in Seq(NucleiMade)
<1> DEFINE q == Scanned(rep.records)
           A == NucleiLines
           s == [i \in DOMAIN q |-> LineToFinding(q[i])]
<1>0. rep.records \in Seq(A)
  BY DEF NucleiReports, Document, NucleiLines
<1>1. q \in Seq(A)
  BY <1>0, ScannedFits
<1>2. ASSUME NEW l \in A PROVE LineToFinding(l) \in Seq(NucleiMade)
  <2>1. CASE LineToFinding(l) = <<>>
    BY <2>1, EmptySeq
  <2>2. CASE LineToFinding(l) # <<>>
    <3> DEFINE u == IF ExtractString(l.matched_at) = None THEN l.host ELSE l.matched_at
               x == RawFinding(l, l.template_id, u, None, None, 0, NucleiSeverity(l.severity))
    <3>1. LineToFinding(l) = <<x>>
      BY <2>2 DEF LineToFinding, ExtractString
    <3>2. x \in NucleiMade
      BY DEF NucleiMade
    <3> HIDE DEF x
    <3> QED BY <3>1, <3>2, OneOrNone
  <2> QED BY <2>1, <2>2
<1>3. NucleiParse(rep).findings \in {<<>>, FlattenSeq(s)}
  BY DEF NucleiParse, Parsed, Each
<1>4. FlattenSeq(s) \in Seq(NucleiMade)
  <2> HIDE DEF q
  <2>1. s = [i \in DOMAIN q |-> s[i]]
    OBVIOUS
  <2>2. ASSUME NEW i \in DOMAIN q PROVE s[i] \in Seq(NucleiMade)
    <3>1. q[i] \in A
      BY ONLY <1>1, i \in DOMAIN q
    <3> QED BY <1>2, <3>1
  <2> HIDE DEF s
  <2> QED BY ONLY <1>1, <2>1, <2>2, FlattenOver
<1> QED BY <1>3, <1>4, EmptySeq

WapitiMade(rep) == {InstanceToFinding(rep.target, v) : v \in Range(rep.records)}

LEMMA WapitiMakes ==
  ASSUME NEW rep \in WapitiReports
  PROVE  WapitiParse(rep).findings \in Seq(WapitiMade(rep))
<1> DEFINE Of(v) == <<InstanceToFinding(rep.target, v)>>
           s == [i \in DOMAIN rep.records |-> Of(rep.records[i])]
<1>1. rep.records \in Seq(Range(rep.records))
  <2>1. PICK A : rep.records \in Seq(A)
    BY DEF WapitiReports
  <2> QED BY <2>1 DEF Range
<1>2. ASSUME NEW v \in Range(rep.records) PROVE Of(v) \in Seq(WapitiMade(rep))
  <2>1. InstanceToFinding(rep.target, v) \in WapitiMade(rep)
    BY DEF WapitiMade
  <2> QED BY <2>1, OneOrNone
<1>3. WapitiParse(rep).findings \in {<<>>, FlattenSeq(s)}
  BY DEF WapitiParse, Failed, Parsed, Each
<1>4. FlattenSeq(s) \in Seq(WapitiMade(rep))
  <2> HIDE DEF Of
  <2>1. s = [i \in DOMAIN rep.records |-> s[i]]
    OBVIOUS
  <2>2. ASSUME NEW i \in DOMAIN rep.records PROVE s[i] \in Seq(WapitiMade(rep))
    <3>1. rep.records[i] \in Range(rep.records)
      BY DEF Range
    <3> QED BY <1>2, <3>1
  <2> HIDE DEF s
  <2> QED BY ONLY <1>1, <2>1, <2>2, FlattenOver
<1> QED BY <1>3, <1>4, EmptySeq

ZapMade ==
  {RawFinding(a, a.pluginId, a.url, a.param, None, 0, MapZAPRisk(a.risk)) :
     a \in [pluginId : STRING, url : STRING, param : STRING, risk : STRING]}

LEMMA ZapMakes ==
  ASSUME NEW rep \in ZapReports
  PROVE  ParseAlerts(rep).findings \in Seq(ZapMade)
<1> DEFINE A == [pluginId : STRING, url : STRING, param : STRING, risk : STRING]
           s == [i \in DOMAIN rep.records |-> ZapAlert(rep.records[i])]
<1>1. rep.records \in Seq(A)
  BY DEF ZapReports, Document
<1>2. \A a \in A : ZapAlert(a) \in Seq(ZapMade)
  BY OneOrNone DEF ZapAlert, ZapMade
<1>3. ParseAlerts(rep).findings \in {<<>>, FlattenSeq(s)}
  BY DEF ParseAlerts, Failed, Parsed, Each
<1>4. FlattenSeq(s) \in Seq(ZapMade)
  <2> HIDE DEF A
  <2>1. s = [i \in DOMAIN rep.records |-> s[i]]
    OBVIOUS
  <2>2. ASSUME NEW i \in DOMAIN rep.records PROVE s[i] \in Seq(ZapMade)
    <3>1. rep.records[i] \in A
      BY ONLY <1>1, i \in DOMAIN rep.records
    <3> QED BY <1>2, <3>1
  <2> HIDE DEF s
  <2> QED BY ONLY <1>1, <2>1, <2>2, FlattenOver
<1> QED BY <1>3, <1>4, EmptySeq

-------------------------------------------------------------------------------
NmapMade(rep) ==
  {BuildFinding(h, p) : h \in Range(rep.records), p \in [protocol : STRING, portid : Int, state : STRING]}

NmapHostSet ==
  [state : STRING, addresses : Seq([addr : STRING, addrtype : STRING]),
   ports : Seq([protocol : STRING, portid : Int, state : STRING])]

LEMMA NmapHostMakes ==
  ASSUME NEW rep, NEW h \in Range(rep.records), h \in NmapHostSet
  PROVE  NmapHost(h) \in Seq(NmapMade(rep))
<1> DEFINE A == [protocol : STRING, portid : Int, state : STRING]
           Of(p) == IF p.state = "open" THEN <<BuildFinding(h, p)>> ELSE <<>>
           s == [i \in DOMAIN h.ports |-> Of(h.ports[i])]
<1>1. h.ports \in Seq(A)
  BY DEF NmapHostSet
<1>2. ASSUME NEW p \in A PROVE Of(p) \in Seq(NmapMade(rep))
  <2>1. BuildFinding(h, p) \in NmapMade(rep)
    BY DEF NmapMade
  <2> QED BY <2>1, OneOrNone
<1>3. NmapHost(h) \in {<<>>, FlattenSeq(s)}
  BY DEF NmapHost, Each
<1>4. FlattenSeq(s) \in Seq(NmapMade(rep))
  <2> HIDE DEF A, Of
  <2>1. s = [i \in DOMAIN h.ports |-> s[i]]
    OBVIOUS
  <2>2. ASSUME NEW i \in DOMAIN h.ports PROVE s[i] \in Seq(NmapMade(rep))
    <3>1. h.ports[i] \in A
      BY ONLY <1>1, i \in DOMAIN h.ports
    <3> QED BY <1>2, <3>1
  <2> HIDE DEF s
  <2> QED BY ONLY <1>1, <2>1, <2>2, FlattenOver
<1> QED BY <1>3, <1>4, EmptySeq

LEMMA NmapMakes ==
  ASSUME NEW rep, rep.records \in NmapHosts
  PROVE  NmapParse(rep).findings \in Seq(NmapMade(rep))
<1> DEFINE A == NmapHostSet
           s == [i \in DOMAIN rep.records |-> NmapHost(rep.records[i])]
<1>1. rep.records \in Seq(A)
  BY DEF NmapHosts, NmapHostSet
<1>2. ASSUME NEW i \in DOMAIN rep.records PROVE NmapHost(rep.records[i]) \in Seq(NmapMade(rep))
  <2>1. rep.records[i] \in A
    BY ONLY <1>1, i \in DOMAIN rep.records
  <2>2. rep.records[i] \in Range(rep.records)
    BY DEF Range
  <2> QED BY <2>1, <2>2, NmapHostMakes
<1>3. NmapParse(rep).findings \in {<<>>, FlattenSeq(s)}
  BY DEF NmapParse, Failed, Parsed, Each
<1>4. FlattenSeq(s) \in Seq(NmapMade(rep))
  <2>1. s = [i \in DOMAIN rep.records |-> s[i]]
    OBVIOUS
  <2>2. \A i \in DOMAIN rep.records : s[i] \in Seq(NmapMade(rep))
    BY <1>2
  <2> HIDE DEF s
  <2> QED BY ONLY <1>1, <2>1, <2>2, FlattenOver
<1> QED BY <1>3, <1>4, EmptySeq

-------------------------------------------------------------------------------
SslyzePlugins ==
  [key : STRING \ {"certificate_info"}, answer : STRING]
    \cup [key : {"certificate_info"}, deployments : Seq([matches : STRING, sha1 : STRING])]

SslyzeServers ==
  [scan_status : STRING, hostname : STRING \ {None, Mistyped}, port : {-1} \cup (Nat \ {0}),
   plugins : Seq(SslyzePlugins)]

RuleTypes ==
  {"ssl-cert-hostname-mismatch", "ssl-cert-sha1-signature"} \cup {PluginRules[k].type : k \in DOMAIN PluginRules}

SslyzeMade ==
  {RawFinding([rule |-> type, hostname |-> s.hostname, port |-> s.port], type,
              DeriveTargetHostport(s), None, None, 0, severity) :
     s \in SslyzeServers, type \in RuleTypes, severity \in Severities}

LEMMA SslyzeFindingMakes ==
  ASSUME NEW s \in SslyzeServers, NEW type \in RuleTypes, NEW severity \in Severities
  PROVE  SslyzeFinding(s, type, severity) \in Seq(SslyzeMade)
<1> DEFINE x == RawFinding([rule |-> type, hostname |-> s.hostname, port |-> s.port], type,
                           DeriveTargetHostport(s), None, None, 0, severity)
<1>1. x \in SslyzeMade
  BY DEF SslyzeMade
<1>2. SslyzeFinding(s, type, severity) = <<x>>
  BY DEF SslyzeFinding
<1> HIDE DEF x
<1> QED BY <1>1, <1>2, OneOrNone

LEMMA CertificateMakes ==
  ASSUME NEW s \in SslyzeServers, NEW dep
  PROVE  RuleCertificateInfo(s, dep) \in Seq(SslyzeMade)
<1>1. \A t : PluginSeverity(t) \in Severities
  BY DEF PluginSeverity, Severities
<1>2. \A t \in RuleTypes : SslyzeFinding(s, t, PluginSeverity(t)) \in Seq(SslyzeMade)
  BY <1>1, SslyzeFindingMakes
<1> DEFINE a == IF dep.matches = "false"
                THEN SslyzeFinding(s, "ssl-cert-hostname-mismatch", PluginSeverity("ssl-cert-hostname-mismatch"))
                ELSE <<>>
           b == IF dep.sha1 = "true"
                THEN SslyzeFinding(s, "ssl-cert-sha1-signature", PluginSeverity("ssl-cert-sha1-signature"))
                ELSE <<>>
<1>3. a \in Seq(SslyzeMade) /\ b \in Seq(SslyzeMade)
  <2>1. SslyzeFinding(s, "ssl-cert-hostname-mismatch", PluginSeverity("ssl-cert-hostname-mismatch"))
          \in Seq(SslyzeMade)
    BY <1>2 DEF RuleTypes
  <2>2. SslyzeFinding(s, "ssl-cert-sha1-signature", PluginSeverity("ssl-cert-sha1-signature"))
          \in Seq(SslyzeMade)
    BY <1>2 DEF RuleTypes
  <2> QED BY <2>1, <2>2, EmptySeq
<1>4. RuleCertificateInfo(s, dep) = a \o b
  BY DEF RuleCertificateInfo
<1> HIDE DEF a, b
<1> QED BY <1>3, <1>4, ConcatProperties

LEMMA RulesFit ==
  ASSUME NEW k \in DOMAIN PluginRules
  PROVE  PluginRules[k].type \in RuleTypes /\ PluginRules[k].severity \in Severities
<1>1. \A t : PluginSeverity(t) \in Severities
  BY DEF PluginSeverity, Severities
<1>2. k \in {"heartbleed", "robot", "openssl_ccs_injection", "tls_compression", "session_renegotiation",
             "tls_extended_master_secret", "ssl_2_0_cipher_suites", "ssl_3_0_cipher_suites",
             "tls_1_0_cipher_suites", "tls_1_1_cipher_suites"}
  BY DEF PluginRules
<1>3. PluginRules[k].severity \in Severities
  <2>1. PluginRules.heartbleed.severity \in Severities /\ PluginRules.robot.severity \in Severities
    BY <1>1 DEF PluginRules
  <2>2. PluginRules.openssl_ccs_injection.severity \in Severities /\ PluginRules.tls_compression.severity \in Severities
    BY <1>1 DEF PluginRules
  <2>3. /\ PluginRules.session_renegotiation.severity \in Severities
        /\ PluginRules.tls_extended_master_secret.severity \in Severities
    BY <1>1 DEF PluginRules
  <2>4. /\ PluginRules.ssl_2_0_cipher_suites.severity \in Severities
        /\ PluginRules.ssl_3_0_cipher_suites.severity \in Severities
    BY <1>1 DEF PluginRules
  <2>5. /\ PluginRules.tls_1_0_cipher_suites.severity \in Severities
        /\ PluginRules.tls_1_1_cipher_suites.severity \in Severities
    BY <1>1 DEF PluginRules
  <2> QED BY <1>2, <2>1, <2>2, <2>3, <2>4, <2>5
<1> QED BY <1>3 DEF RuleTypes

LEMMA PluginMakes ==
  ASSUME NEW v \in SslyzeServers, NEW p \in SslyzePlugins
  PROVE  PluginFindings(v, p) \in Seq(SslyzeMade)
<1>1. CASE p.key = "certificate_info"
  <2> DEFINE D == [matches : STRING, sha1 : STRING]
             s == [i \in DOMAIN p.deployments |-> RuleCertificateInfo(v, p.deployments[i])]
  <2>1. p.deployments \in Seq(D)
    BY <1>1 DEF SslyzePlugins
  <2>0. "certificate_info" \notin DOMAIN PluginRules
    BY DEF PluginRules
  <2>2. PluginFindings(v, p) = FlattenSeq(s)
    BY <1>1, <2>0 DEF PluginFindings, Each
  <2>3. s = [i \in DOMAIN p.deployments |-> s[i]]
    OBVIOUS
  <2>4. \A i \in DOMAIN p.deployments : s[i] \in Seq(SslyzeMade)
    BY CertificateMakes
  <2> HIDE DEF s, D
  <2>5. FlattenSeq(s) \in Seq(SslyzeMade)
    BY ONLY <2>1, <2>3, <2>4, FlattenOver
  <2> QED BY <2>2, <2>5
<1>2. CASE p.key # "certificate_info" /\ p.key \in DOMAIN PluginRules
  <2>1. PluginFindings(v, p) \in
          {<<>>, SslyzeFinding(v, PluginRules[p.key].type, PluginRules[p.key].severity)}
    BY <1>2 DEF PluginFindings
  <2> QED BY <1>2, <2>1, RulesFit, SslyzeFindingMakes, EmptySeq
<1>3. CASE p.key # "certificate_info" /\ p.key \notin DOMAIN PluginRules
  BY <1>3, EmptySeq DEF PluginFindings
<1> QED BY <1>1, <1>2, <1>3

LEMMA ServerMakes ==
  ASSUME NEW v \in SslyzeServers
  PROVE  SslyzeServer(v) \in Seq(SslyzeMade)
<1> DEFINE A == SslyzePlugins
           s == [i \in DOMAIN v.plugins |-> PluginFindings(v, v.plugins[i])]
<1>1. v.plugins \in Seq(A)
  BY DEF SslyzeServers
<1>2. \A p \in A : PluginFindings(v, p) \in Seq(SslyzeMade)
  BY PluginMakes
<1>3. SslyzeServer(v) \in {<<>>, FlattenSeq(s)}
  BY DEF SslyzeServer, Each
<1>4. FlattenSeq(s) \in Seq(SslyzeMade)
  <2>1. s = [i \in DOMAIN v.plugins |-> s[i]]
    OBVIOUS
  <2>2. ASSUME NEW i \in DOMAIN v.plugins PROVE s[i] \in Seq(SslyzeMade)
    <3>1. v.plugins[i] \in A
      BY ONLY <1>1, i \in DOMAIN v.plugins
    <3> QED BY <1>2, <3>1
  <2> HIDE DEF s
  <2> QED BY ONLY <1>1, <2>1, <2>2, FlattenOver
<1> QED BY <1>3, <1>4, EmptySeq

LEMMA SslyzeMakes ==
  ASSUME NEW rep \in SslyzeReports
  PROVE  SslyzeParse(rep).findings \in Seq(SslyzeMade)
<1> DEFINE A == SslyzeServers
           s == [i \in DOMAIN rep.records |-> SslyzeServer(rep.records[i])]
<1>1. rep.records \in Seq(A)
  BY DEF SslyzeReports, Document, SslyzeServers, SslyzePlugins
<1>2. \A v \in A : SslyzeServer(v) \in Seq(SslyzeMade)
  BY ServerMakes
<1>3. SslyzeParse(rep).findings \in {<<>>, FlattenSeq(s)}
  BY DEF SslyzeParse, Failed, Parsed, Each
<1>4. FlattenSeq(s) \in Seq(SslyzeMade)
  <2>1. s = [i \in DOMAIN rep.records |-> s[i]]
    OBVIOUS
  <2>2. ASSUME NEW i \in DOMAIN rep.records PROVE s[i] \in Seq(SslyzeMade)
    <3>1. rep.records[i] \in A
      BY ONLY <1>1, i \in DOMAIN rep.records
    <3> QED BY <1>2, <3>1
  <2> HIDE DEF s
  <2> QED BY ONLY <1>1, <2>1, <2>2, FlattenOver
<1> QED BY <1>3, <1>4, EmptySeq

-------------------------------------------------------------------------------
(***************************************************************************)
(* The hashed fields hold all that makes up the identity.                  *)
(***************************************************************************)
Key(f) == <<f.type, f.url, f.param, f.file, f.line>>

LEMMA LastApart ==
  ASSUME NEW S, NEW x \in Seq(S), NEW y \in Seq(S), NEW a \in S, NEW b \in S, x \o <<a>> = y \o <<b>>
  PROVE  x = y /\ a = b
<1> DEFINE u == Append(x, a)
           w == Append(y, b)
<1>1. u = w
  BY AppendIsConcat
<1>2. Len(u) = Len(x) + 1 /\ u[Len(x) + 1] = a /\ \A i \in 1..Len(x) : u[i] = x[i]
  BY AppendProperties
<1>3. Len(w) = Len(y) + 1 /\ w[Len(y) + 1] = b /\ \A i \in 1..Len(y) : w[i] = y[i]
  BY AppendProperties
<1>4. Len(x) \in Nat /\ Len(y) \in Nat
  BY LenProperties
<1> HIDE DEF u, w
<1>5. Len(x) = Len(y)
  BY <1>1, <1>2, <1>3, <1>4
<1>6. a = b /\ \A i \in 1..Len(x) : x[i] = y[i]
  BY <1>1, <1>2, <1>3, <1>5
<1> QED BY <1>5, <1>6, SeqEqual

\* Without a bar in a field the hashed text gives the fields back.
LEMMA JoinIsKey ==
  ASSUME NEW f, NEW g, NoBars(f), NoBars(g), ComputeFingerprint(tool, f) = ComputeFingerprint(tool, g)
  PROVE  Key(f) = Key(g)
<1> DEFINE S == {tool, f.type, f.url, f.param, f.file, f.line, g.type, g.url, g.param, g.file, g.line}
           A(h) == <<tool>> \o <<h.type>>
           B(h) == A(h) \o <<h.url>>
           C(h) == B(h) \o <<h.param>>
           D(h) == C(h) \o <<h.file>>
           E(h) == D(h) \o <<h.line>>
<1>1. ASSUME NEW h, NoBars(h) PROVE ComputeFingerprint(tool, h) = E(h)
  BY <1>1 DEF ComputeFingerprint, NoBars
<1>2. E(f) = E(g)
  BY <1>1
<1>3. /\ tool \in S
      /\ f.type \in S /\ f.url \in S /\ f.param \in S /\ f.file \in S /\ f.line \in S
      /\ g.type \in S /\ g.url \in S /\ g.param \in S /\ g.file \in S /\ g.line \in S
  OBVIOUS
<1> HIDE DEF S
<1>4. ASSUME NEW v \in S PROVE <<v>> \in Seq(S)
  BY OneOrNone
<1>5. ASSUME NEW x \in Seq(S), NEW v \in S PROVE x \o <<v>> \in Seq(S)
  BY <1>4, ConcatProperties
<1>6. A(f) \in Seq(S) /\ A(g) \in Seq(S) /\ <<tool>> \in Seq(S)
  BY <1>3, <1>4, <1>5
<1> HIDE DEF A
<1>7. B(f) \in Seq(S) /\ B(g) \in Seq(S)
  BY <1>3, <1>5, <1>6
<1> HIDE DEF B
<1>8. C(f) \in Seq(S) /\ C(g) \in Seq(S)
  BY <1>3, <1>5, <1>7
<1> HIDE DEF C
<1>9. D(f) \in Seq(S) /\ D(g) \in Seq(S)
  BY <1>3, <1>5, <1>8
<1> HIDE DEF D
<1>10. D(f) = D(g) /\ f.line = g.line
  BY <1>2, <1>3, <1>9, LastApart
<1>11. C(f) = C(g) /\ f.file = g.file
  BY <1>3, <1>8, <1>10, LastApart DEF D
<1>12. B(f) = B(g) /\ f.param = g.param
  BY <1>3, <1>7, <1>11, LastApart DEF C
<1>13. A(f) = A(g) /\ f.url = g.url
  BY <1>3, <1>6, <1>12, LastApart DEF B
<1>14. f.type = g.type
  BY <1>3, <1>6, <1>13, LastApart DEF A
<1> QED BY <1>10, <1>11, <1>12, <1>13, <1>14 DEF Key

LEMMA SemgrepTold ==
  ASSUME tool = "semgrep", NEW f \in SemgrepMade, NEW g \in SemgrepMade,
         Key(f) = Key(g)
  PROVE  Identity(f) = Identity(g)
<1>1. ASSUME NEW h \in SemgrepMade PROVE Identity(h) = <<h.type, h.file, h.line>>
  BY DEF SemgrepMade, Identity, RawFinding
<1> QED BY <1>1 DEF Key

LEMMA GitleaksTold ==
  ASSUME tool = "gitleaks", NEW f \in GitleaksMade, NEW g \in GitleaksMade,
         Key(f) = Key(g)
  PROVE  Identity(f) = Identity(g)
<1>1. ASSUME NEW h \in GitleaksMade PROVE Identity(h) = <<h.type, h.file, h.line>>
  BY DEF GitleaksMade, Identity, RawFinding
<1> QED BY <1>1 DEF Key

LEMMA CheckovTold ==
  ASSUME tool = "checkov", NEW f \in CheckovMade, NEW g \in CheckovMade,
         Key(f) = Key(g)
  PROVE  Identity(f) = Identity(g)
<1>1. ASSUME NEW h \in CheckovMade PROVE Identity(h) = <<h.type, h.file, h.line>>
  BY DEF CheckovMade, Identity, RawFinding
<1> QED BY <1>1 DEF Key

LEMMA DepcheckTold ==
  ASSUME tool = "depcheck", NEW f \in DepcheckMade, NEW g \in DepcheckMade,
         Key(f) = Key(g)
  PROVE  Identity(f) = Identity(g)
<1>1. ASSUME NEW h \in DepcheckMade PROVE Identity(h) = <<h.type, h.file>>
  BY DEF DepcheckMade, Identity, RawFinding, VulnToFinding
<1> QED BY <1>1 DEF Key

LEMMA NucleiTold ==
  ASSUME tool = "nuclei", NEW f \in NucleiMade, NEW g \in NucleiMade,
         Key(f) = Key(g)
  PROVE  Identity(f) = Identity(g)
<1>1. ASSUME NEW h \in NucleiMade PROVE Identity(h) = <<h.type, h.url>>
  BY DEF NucleiMade, Identity, RawFinding
<1> QED BY <1>1 DEF Key

LEMMA ZapTold ==
  ASSUME tool = "zap", NEW f \in ZapMade, NEW g \in ZapMade,
         Key(f) = Key(g)
  PROVE  Identity(f) = Identity(g)
<1>1. ASSUME NEW h \in ZapMade PROVE Identity(h) = <<h.type, h.url, h.param>>
  BY DEF ZapMade, Identity, RawFinding
<1> QED BY <1>1 DEF Key

\* wapiti: the slug names the class, the base is one for the whole report.
LEMMA WapitiTold ==
  ASSUME tool = "wapiti", NEW rep \in WapitiReports, NEW f \in WapitiMade(rep), NEW g \in WapitiMade(rep),
         Key(f) = Key(g)
  PROVE  Identity(f) = Identity(g)
<1> DEFINE base == rep.target
<1>1. PICK v \in Range(rep.records) : f = InstanceToFinding(base, v)
  BY DEF WapitiMade
<1>2. PICK w \in Range(rep.records) : g = InstanceToFinding(base, w)
  BY DEF WapitiMade
<1>3. v.class.slug = w.class.slug => v.class = w.class
  BY DEF WapitiReports
<1>5. /\ f.from = v /\ f.type = <<"wapiti", v.class.slug>> /\ f.url = CombineTargetPath(base, v.path)
      /\ f.param = ExtractString(v.parameter)
  BY <1>1 DEF InstanceToFinding, RawFinding
<1>6. /\ g.from = w /\ g.type = <<"wapiti", w.class.slug>> /\ g.url = CombineTargetPath(base, w.path)
      /\ g.param = ExtractString(w.parameter)
  BY <1>2 DEF InstanceToFinding, RawFinding
<1>7. f.type = g.type /\ f.url = g.url /\ f.param = g.param
  BY DEF Key
<1> HIDE DEF base
<1>8. ASSUME NEW path PROVE CombineTargetPath(base, path)[3] = path.rest
  <2>1. EmptyPath.rest = None
    BY DEF EmptyPath
  <2> QED BY <2>1 DEF CombineTargetPath
<1>9. v.class.title = w.class.title /\ v.path.rest = w.path.rest
  <2>1. v.class.slug = w.class.slug
    BY <1>5, <1>6, <1>7
  <2>2. CombineTargetPath(base, v.path)[3] = CombineTargetPath(base, w.path)[3]
    BY <1>5, <1>6, <1>7
  <2>3. v.path.rest = w.path.rest
    BY <1>8, <2>2
  <2> QED BY <1>3, <2>1, <2>3
<1>10. /\ Identity(f) = <<v.class.title, v.path.rest, f.param>>
       /\ Identity(g) = <<w.class.title, w.path.rest, g.param>>
  BY <1>5, <1>6 DEF Identity
<1> QED BY <1>7, <1>9, <1>10

LEMMA SslyzeTold ==
  ASSUME tool = "sslyze", NEW f \in SslyzeMade, NEW g \in SslyzeMade,
         Key(f) = Key(g)
  PROVE  Identity(f) = Identity(g)
<1>1. ASSUME NEW h \in SslyzeMade
      PROVE  \E s \in SslyzeServers :
               /\ h.from = [rule |-> h.type, hostname |-> s.hostname, port |-> s.port]
               /\ h.url = DeriveTargetHostport(s)
  BY DEF SslyzeMade, RawFinding
<1>2. PICK s \in SslyzeServers : /\ f.from = [rule |-> f.type, hostname |-> s.hostname, port |-> s.port]
                                 /\ f.url = DeriveTargetHostport(s)
  BY <1>1
<1>3. PICK r \in SslyzeServers : /\ g.from = [rule |-> g.type, hostname |-> r.hostname, port |-> r.port]
                                 /\ g.url = DeriveTargetHostport(r)
  BY <1>1
<1>4. f.type = g.type /\ f.url = g.url
  BY DEF Key
<1>5. ASSUME NEW t \in SslyzeServers
      PROVE  /\ t.port = -1 \/ (t.port \in Nat /\ t.port # 0)
             /\ DeriveTargetHostport(t) = IF t.port = -1 THEN <<t.hostname>> ELSE <<t.hostname, t.port>>
  BY DEF SslyzeServers, DeriveTargetHostport, ExtractString, ExtractFloat
<1>6. s.hostname = r.hostname /\ s.port = r.port
  <2>1. DeriveTargetHostport(s) = DeriveTargetHostport(r)
    BY <1>2, <1>3, <1>4
  <2>2. Len(<<s.hostname>>) = 1 /\ Len(<<r.hostname, r.port>>) = 2 /\ Len(<<r.hostname>>) = 1 /\ Len(<<s.hostname, s.port>>) = 2
    OBVIOUS
  <2> QED BY <1>5, <2>1, <2>2
<1> QED BY <1>2, <1>3, <1>4, <1>6 DEF Identity

\* The addresses a host gives, and the one the finding names: none if none is
\* given, and one of them otherwise.
Known(addrs) == {a.addr : a \in Range(addrs)} \ {None}

LEMMA PrimaryIsKnown ==
  ASSUME NEW A, NEW addrs \in Seq(A)
  PROVE  IF Known(addrs) = {} THEN PrimaryAddress(addrs) = None ELSE PrimaryAddress(addrs) \in Known(addrs)
<1> DEFINE B == {a \in Range(addrs) : a.addr # None}
           Kind(k) == [i \in DOMAIN addrs |->
                         IF addrs[i].addrtype = k /\ addrs[i].addr # None THEN <<addrs[i]>> ELSE <<>>]
           AnyKind == [i \in DOMAIN addrs |-> IF addrs[i].addr # None THEN <<addrs[i]>> ELSE <<>>]
<1>1. ASSUME NEW k PROVE FlattenSeq(Kind(k)) \in Seq(B)
  <2>1. ASSUME NEW i \in DOMAIN addrs PROVE Kind(k)[i] \in Seq(B)
    <3>1. addrs[i] \in Range(addrs)
      BY DEF Range
    <3>2. addrs[i].addr # None => addrs[i] \in B
      BY <3>1
    <3> HIDE DEF B
    <3> QED BY <3>2, OneOrNone, EmptySeq
  <2> DEFINE s == Kind(k)
  <2>2. s = [i \in DOMAIN addrs |-> s[i]]
    OBVIOUS
  <2> HIDE DEF B, Kind
  <2>3. \A i \in DOMAIN addrs : s[i] \in Seq(B)
    BY <2>1
  <2> HIDE DEF s
  <2>4. FlattenSeq(s) \in Seq(B)
    BY ONLY <2>2, <2>3, FlattenOver, addrs \in Seq(A)
  <2> QED BY <2>4 DEF s
<1>2. AnyKind \in Seq(Seq(B)) /\ Len(AnyKind) = Len(addrs) /\ FlattenSeq(AnyKind) \in Seq(B)
  <2>1. ASSUME NEW i \in DOMAIN addrs PROVE AnyKind[i] \in Seq(B)
    <3>1. addrs[i] \in Range(addrs)
      BY DEF Range
    <3>2. addrs[i].addr # None => addrs[i] \in B
      BY <3>1
    <3> HIDE DEF B
    <3> QED BY <3>2, OneOrNone, EmptySeq
  <2>2. AnyKind = [i \in DOMAIN addrs |-> AnyKind[i]]
    OBVIOUS
  <2> HIDE DEF B, AnyKind
  <2> QED BY ONLY <2>1, <2>2, FlattenOver, addrs \in Seq(A)
<1> DEFINE front == FlattenSeq(Kind("ipv4")) \o FlattenSeq(Kind("ipv6")) \o FlattenSeq(Kind("mac"))
           ranked == front \o FlattenSeq(AnyKind)
<1>3. PrimaryAddress(addrs) = IF ranked = <<>> THEN None ELSE Head(ranked).addr
  BY DEF PrimaryAddress, Select, Each
<1>4. front \in Seq(B)
  <2>1. FlattenSeq(Kind("ipv4")) \in Seq(B) /\ FlattenSeq(Kind("ipv6")) \in Seq(B) /\ FlattenSeq(Kind("mac")) \in Seq(B)
    BY <1>1
  <2> HIDE DEF Kind, B
  <2> QED BY <2>1, ConcatProperties
<1>5. ranked \in Seq(B) /\ Len(ranked) = Len(front) + Len(FlattenSeq(AnyKind))
  <2> HIDE DEF front, AnyKind, B
  <2> QED BY <1>2, <1>4, ConcatProperties
<1>6. ASSUME NEW i \in DOMAIN addrs, addrs[i].addr # None PROVE ranked # <<>>
  <2>1. i \in 1..Len(AnyKind) /\ AnyKind[i] = <<addrs[i]>>
    BY <1>2, <1>6, LenProperties
  <2>2. i \in 1..Len(AnyKind) /\ 1 \in 1..Len(AnyKind[i]) /\ AnyKind \in Seq(Seq(B))
    BY <1>2, <2>1
  <2> HIDE DEF AnyKind, B, front
  <2>3. \E k \in 1..Len(FlattenSeq(AnyKind)) : FlattenSeq(AnyKind)[k] = AnyKind[i][1]
    BY ONLY <2>2, FlattenHolds
  <2>4. Len(FlattenSeq(AnyKind)) \in Nat /\ Len(FlattenSeq(AnyKind)) > 0 /\ Len(front) \in Nat
    BY <1>2, <1>4, <2>3, LenProperties
  <2>5. Len(ranked) > 0
    BY <1>5, <2>4
  <2> HIDE DEF ranked
  <2> QED BY <1>5, <2>5, EmptySeq
<1>7. ranked # <<>> => Head(ranked) \in B
  <2> HIDE DEF ranked, B
  <2> QED BY <1>5, HeadTailProperties
<1> HIDE DEF ranked
<1>8. CASE Known(addrs) = {}
  <2>1. B = {}
    BY <1>8 DEF Known
  <2> QED BY <1>3, <1>7, <1>8, <2>1
<1>9. CASE Known(addrs) # {}
  <2>1. \E i \in DOMAIN addrs : addrs[i].addr # None
    BY <1>9 DEF Known, Range
  <2>2. ranked # <<>>
    BY <1>6, <2>1
  <2> QED BY <1>3, <1>7, <1>9, <2>2 DEF Known
<1> QED BY <1>8, <1>9

\* nmap: hosts that give different addresses have none in common.
LEMMA NmapTold ==
  ASSUME tool = "nmap", NEW rep, rep.records \in NmapHosts,
         NEW f \in NmapMade(rep), NEW g \in NmapMade(rep),
         Key(f) = Key(g)
  PROVE  Identity(f) = Identity(g)
<1> DEFINE P == [protocol : STRING, portid : Int, state : STRING]
<1>1. PICK h \in Range(rep.records), p \in P : f = BuildFinding(h, p)
  BY DEF NmapMade
<1>2. PICK k \in Range(rep.records), q \in P : g = BuildFinding(k, q)
  BY DEF NmapMade
<1>3. /\ f.from = [host |-> h.addresses, port |-> p.portid, protocol |-> p.protocol]
      /\ f.type = <<"open-port", p.protocol>> /\ f.url = <<PrimaryAddress(h.addresses), p.portid>>
  BY <1>1 DEF BuildFinding, RawFinding
<1>4. /\ g.from = [host |-> k.addresses, port |-> q.portid, protocol |-> q.protocol]
      /\ g.type = <<"open-port", q.protocol>> /\ g.url = <<PrimaryAddress(k.addresses), q.portid>>
  BY <1>2 DEF BuildFinding, RawFinding
<1>5. f.type = g.type /\ f.url = g.url
  BY DEF Key
<1>6. /\ p.protocol = q.protocol /\ p.portid = q.portid
      /\ PrimaryAddress(h.addresses) = PrimaryAddress(k.addresses)
  BY <1>3, <1>4, <1>5
<1>7. h.addresses # k.addresses =>
        Known(h.addresses) # Known(k.addresses) /\ Known(h.addresses) \cap Known(k.addresses) = {}
  BY DEF NmapHosts, Known
<1>8. \A x \in Range(rep.records) : x.addresses \in Seq([addr : STRING, addrtype : STRING])
  <2>1. rep.records \in Seq(NmapHostSet)
    BY DEF NmapHosts, NmapHostSet
  <2>2. ASSUME NEW x \in Range(rep.records) PROVE x \in NmapHostSet
    BY <2>1 DEF Range
  <2> QED BY <2>2 DEF NmapHostSet
<1>9. h.addresses = k.addresses
  <2>1. /\ h.addresses \in Seq([addr : STRING, addrtype : STRING])
        /\ k.addresses \in Seq([addr : STRING, addrtype : STRING])
    BY <1>8
  <2>2. None \notin Known(h.addresses) /\ None \notin Known(k.addresses)
    BY DEF Known
  <2>3. IF Known(h.addresses) = {} THEN PrimaryAddress(h.addresses) = None
        ELSE PrimaryAddress(h.addresses) \in Known(h.addresses)
    BY ONLY <2>1, PrimaryIsKnown
  <2>4. IF Known(k.addresses) = {} THEN PrimaryAddress(k.addresses) = None
        ELSE PrimaryAddress(k.addresses) \in Known(k.addresses)
    BY ONLY <2>1, PrimaryIsKnown
  <2> QED BY ONLY <1>6, <1>7, <2>2, <2>3, <2>4
<1> QED BY <1>3, <1>4, <1>6, <1>9 DEF Identity

-------------------------------------------------------------------------------
(***************************************************************************)
(* trivy and MobSF.                                                        *)
(***************************************************************************)
TrivyVulns == [id : STRING, pkg : STRING, Severity : STRING, CVSS : CVSSRatings]
TrivyResults == [Target : STRING, Vulnerabilities : Seq(TrivyVulns)]
TrivyMade == {BuildVulnFinding(r, v) : r \in TrivyResults, v \in TrivyVulns}

LEMMA TrivyResultMakes ==
  ASSUME NEW r \in TrivyResults
  PROVE  TrivyResult(r) \in Seq(TrivyMade)
<1> DEFINE A == TrivyVulns
           Of(v) == <<BuildVulnFinding(r, v)>>
           s == [i \in DOMAIN r.Vulnerabilities |-> Of(r.Vulnerabilities[i])]
<1>1. r.Vulnerabilities \in Seq(A)
  BY DEF TrivyResults
<1>2. ASSUME NEW v \in A PROVE Of(v) \in Seq(TrivyMade)
  <2>1. BuildVulnFinding(r, v) \in TrivyMade
    BY DEF TrivyMade
  <2> QED BY <2>1, OneOrNone
<1>3. TrivyResult(r) = FlattenSeq(s)
  BY DEF TrivyResult, Each
<1>4. FlattenSeq(s) \in Seq(TrivyMade)
  <2> HIDE DEF Of
  <2>1. s = [i \in DOMAIN r.Vulnerabilities |-> s[i]]
    OBVIOUS
  <2>2. ASSUME NEW i \in DOMAIN r.Vulnerabilities PROVE s[i] \in Seq(TrivyMade)
    <3>1. r.Vulnerabilities[i] \in A
      BY ONLY <1>1, i \in DOMAIN r.Vulnerabilities
    <3> QED BY <1>2, <3>1
  <2> HIDE DEF s
  <2> QED BY ONLY <1>1, <2>1, <2>2, FlattenOver
<1> QED BY <1>3, <1>4

LEMMA TrivyMakes ==
  ASSUME NEW rep \in TrivyReports
  PROVE  ParseTrivyJSON(rep).findings \in Seq(TrivyMade)
<1> DEFINE A == TrivyResults
           s == [i \in DOMAIN rep.records |-> TrivyResult(rep.records[i])]
<1>1. rep.records \in Seq(A)
  BY DEF TrivyReports, Document, TrivyResults, TrivyVulns
<1>2. \A r \in A : TrivyResult(r) \in Seq(TrivyMade)
  BY TrivyResultMakes
<1>3. ParseTrivyJSON(rep).findings \in {<<>>, FlattenSeq(s)}
  BY DEF ParseTrivyJSON, Failed, Parsed, Each
<1>4. FlattenSeq(s) \in Seq(TrivyMade)
  <2>1. s = [i \in DOMAIN rep.records |-> s[i]]
    OBVIOUS
  <2>2. ASSUME NEW i \in DOMAIN rep.records PROVE s[i] \in Seq(TrivyMade)
    <3>1. rep.records[i] \in A
      BY ONLY <1>1, i \in DOMAIN rep.records
    <3> QED BY <1>2, <3>1
  <2> HIDE DEF s
  <2> QED BY ONLY <1>1, <2>1, <2>2, FlattenOver
<1> QED BY <1>3, <1>4, EmptySeq

-------------------------------------------------------------------------------
\* A MobSF finding is made from an entry or from a key of the property list; a
\* rated entry gives its own rating, unless the rating alone would not tell.
MobSFFrom ==
  MobSFEntries \cup [section : {"info_plist"},
                     key : {"NSAllowsArbitraryLoads", "UIFileSharingEnabled", "NSAppTransportSecurity",
                            "ITSAppUsesNonExemptEncryption"}]

MobSFTypes ==
  {None, "info_plist_finding", "ats_violation", "dylib_protection_missing", "ios_binary_finding", "ios_url_scheme"}

RatingFits(e, severity) ==
  "severity" \in DOMAIN e => MapMobSFSeverity(e.severity) \in {None, severity}

MobSFMade ==
  {f \in {RawFinding(e, type, None, None, file, line, severity) :
            e \in MobSFFrom, type \in MobSFTypes, file \in STRING \cup {None}, line \in Int,
            severity \in {"high", "medium", "info"}} :
     RatingFits(f.from, f.severity)}

LEMMA RatedMakes ==
  ASSUME NEW e \in MobSFFrom, NEW type \in MobSFTypes, NEW file \in STRING \cup {None}, NEW line \in Int,
         NEW severity, severity = None \/ (severity \in {"high", "medium", "info"} /\ RatingFits(e, severity))
  PROVE  RatedFinding(e, type, file, line, severity) \in Seq(MobSFMade)
<1>1. CASE severity = None
  BY <1>1, EmptySeq DEF RatedFinding
<1>2. CASE severity # None
  <2> DEFINE x == RawFinding(e, type, None, None, file, line, severity)
  <2>1. x.from = e /\ x.severity = severity
    BY DEF RawFinding
  <2>2. x \in MobSFMade
    BY <1>2, <2>1 DEF MobSFMade
  <2> HIDE DEF x
  <2>3. RatedFinding(e, type, file, line, severity) = <<x>>
    BY <1>2 DEF RatedFinding, x
  <2> QED BY <2>2, <2>3, OneOrNone
<1> QED BY <1>1, <1>2

\* An entry that is told at its own rating.
LEMMA OwnRating ==
  ASSUME NEW e
  PROVE  LET s == MapMobSFSeverity(e.severity)
         IN  s = None \/ (s \in {"high", "medium", "info"} /\ RatingFits(e, s))
BY DEF MapMobSFSeverity, RatingFits

LEMMA AdaptMakes ==
  ASSUME NEW platform, NEW e \in MobSFEntries, platform \in {"android", "ios"} \/ e.section # "binary_analysis"
  PROVE  Adapt(platform, e) \in Seq(MobSFMade)
<1> DEFINE M == Seq(MobSFMade)
           own == MapMobSFSeverity(e.severity)
<1>1. e \in MobSFFrom /\ None \in STRING \cup {None} /\ None \in MobSFTypes /\ 0 \in Int
  BY DEF MobSFFrom, MobSFTypes
<1>2. \A t \in MobSFTypes, file \in STRING \cup {None}, line \in Int : RatedFinding(e, t, file, line, own) \in M
  BY <1>1, OwnRating, RatedMakes
<1>3. ASSUME "severity" \notin DOMAIN e, NEW t \in MobSFTypes, NEW s \in {None, "high", "medium", "info"}
      PROVE  RatedFinding(e, t, None, 0, s) \in M
  BY <1>1, <1>3, RatedMakes DEF RatingFits
<1> HIDE DEF M
<1>4. CASE e.section = "code_analysis"
  <2> DEFINE F == [path : STRING, lines : Seq(Int)]
             At(f) == RatedFinding(e, None, f.path, IF f.lines = <<>> THEN 0 ELSE Head(f.lines), own)
             s == [i \in DOMAIN e.files |-> At(e.files[i])]
  <2>1. e.files \in Seq(F)
    BY <1>4 DEF MobSFEntries
  <2>2. Adapt(platform, e) = ParseCodeAnalysis(e)
    BY <1>4 DEF Adapt
  <2>3. ASSUME NEW f \in F PROVE At(f) \in M
    <3>1. f.path \in STRING \cup {None} /\ (IF f.lines = <<>> THEN 0 ELSE Head(f.lines)) \in Int
      OBVIOUS
    <3> HIDE DEF own
    <3> QED BY <1>1, <1>2, <3>1
  <2>4. ParseCodeAnalysis(e) \in {RatedFinding(e, None, None, 0, own), FlattenSeq(s)}
    BY DEF ParseCodeAnalysis, Each
  <2>5. RatedFinding(e, None, None, 0, own) \in M
    BY <1>1, <1>2
  <2>6. FlattenSeq(s) \in M
    <3> HIDE DEF At, F
    <3>1. s = [i \in DOMAIN e.files |-> s[i]]
      OBVIOUS
    <3>2. ASSUME NEW i \in DOMAIN e.files PROVE s[i] \in Seq(MobSFMade)
      <4>1. e.files[i] \in F
        BY ONLY <2>1, i \in DOMAIN e.files
      <4> QED BY <2>3, <4>1 DEF M
    <3> HIDE DEF s
    <3>3. FlattenSeq(s) \in Seq(MobSFMade)
      BY ONLY <2>1, <3>1, <3>2, FlattenOver
    <3> QED BY <3>3 DEF M
  <2> QED BY <2>2, <2>4, <2>5, <2>6 DEF M
<1>5. CASE e.section \in {"permissions", "secrets", "trackers", "bundle_url_types"}
  <2>1. "severity" \notin DOMAIN e
    BY <1>5 DEF MobSFEntries
  <2>2. /\ e.section = "permissions" => Adapt(platform, e) = AdaptPermissions(e)
        /\ e.section = "secrets" => Adapt(platform, e) = AdaptSecrets(e)
        /\ e.section = "trackers" => Adapt(platform, e) = AdaptTrackers(e)
        /\ e.section = "bundle_url_types" => Adapt(platform, e) = AdaptBundleURLTypes(e)
    BY DEF Adapt
  <2>3. AdaptPermissions(e) \in M /\ AdaptSecrets(e) \in M /\ AdaptTrackers(e) \in M
    BY <1>1, <1>3, <2>1 DEF AdaptPermissions, AdaptSecrets, AdaptTrackers
  <2>4. AdaptBundleURLTypes(e) \in M
    BY <1>1, <1>3, <2>1 DEF AdaptBundleURLTypes, MobSFTypes
  <2> QED BY <1>5, <2>2, <2>3, <2>4 DEF M
<1>6. CASE e.section \in {"manifest_analysis", "network_security", "certificate_analysis", "ats_analysis"}
  <2>1. /\ e.section = "manifest_analysis" => Adapt(platform, e) = AdaptManifestFindings(e)
        /\ e.section = "network_security" => Adapt(platform, e) = AdaptNetworkSecurity(e)
        /\ e.section = "certificate_analysis" => Adapt(platform, e) = AdaptCertificateFindings(e)
        /\ e.section = "ats_analysis" => Adapt(platform, e) = AdaptATSFindings(e)
    BY DEF Adapt
  <2>2. AdaptManifestFindings(e) \in M /\ AdaptNetworkSecurity(e) \in M
    BY <1>1, <1>2 DEF AdaptManifestFindings, AdaptNetworkSecurity
  <2>3. AdaptCertificateFindings(e) \in M
    BY <1>1, <1>2, RatedMakes DEF AdaptCertificateFindings, M
  <2>4. AdaptATSFindings(e) \in M
    BY <1>1, <1>2 DEF AdaptATSFindings, MobSFTypes
  <2> QED BY <1>6, <2>1, <2>2, <2>3, <2>4 DEF M
<1>7. CASE e.section = "dylib_analysis"
  <2>1. e.name \in STRING \cup {None} /\ Adapt(platform, e) = AdaptDylibAnalysis(e)
    BY <1>7 DEF MobSFEntries, Adapt
  <2> QED BY <1>1, <1>2, <2>1 DEF AdaptDylibAnalysis, MobSFTypes, M
<1>8. CASE e.section = "binary_analysis"
  <2>1. e.name \in STRING \cup {None}
    BY <1>8 DEF MobSFEntries
  <2>2. /\ platform = "android" => Adapt(platform, e) = AdaptBinaryAnalysis(e)
        /\ platform = "ios" => Adapt(platform, e) = AdaptIOSBinary(e)
    BY <1>8 DEF Adapt
  <2>3. AdaptIOSBinary(e) \in M
    BY <1>1, <1>2 DEF AdaptIOSBinary, MobSFTypes
  <2>4. AdaptBinaryAnalysis(e) \in M
    <3> DEFINE sev == IF e.status \in {None, "secure"} THEN None ELSE IF own = None THEN "info" ELSE own
    <3>1. sev = None \/ (sev \in {"high", "medium", "info"} /\ RatingFits(e, sev))
      BY OwnRating DEF RatingFits
    <3>2. AdaptBinaryAnalysis(e) = RatedFinding(e, None, e.name, 0, sev)
      BY DEF AdaptBinaryAnalysis
    <3> HIDE DEF sev
    <3> QED BY <1>1, <2>1, <3>1, <3>2, RatedMakes DEF M
  <2> QED BY <1>8, <2>2, <2>3, <2>4 DEF M
<1>9. CASE e.section = "info_plist"
  <2> DEFINE K == {"NSAllowsArbitraryLoads", "UIFileSharingEnabled", "NSAppTransportSecurity",
                   "ITSAppUsesNonExemptEncryption"}
             Tell(k, s) == RatedFinding([section |-> "info_plist", key |-> k], "info_plist_finding", None, 0, s)
  <2>1. ASSUME NEW k \in K, NEW s \in {None, "high", "medium", "info"} PROVE Tell(k, s) \in M
    <3>1. [section |-> "info_plist", key |-> k] \in MobSFFrom
      BY DEF MobSFFrom
    <3>2. RatingFits([section |-> "info_plist", key |-> k], s)
      BY DEF RatingFits
    <3>3. "info_plist_finding" \in MobSFTypes
      BY DEF MobSFTypes
    <3> QED BY <1>1, <3>1, <3>2, <3>3, RatedMakes DEF M
  <2>2. Adapt(platform, e) = AdaptInfoPlist(e)
    BY <1>9 DEF Adapt
  <2>3. \E a, b, c, d \in {None, "high", "medium", "info"} :
           AdaptInfoPlist(e) = Tell("NSAllowsArbitraryLoads", a) \o Tell("UIFileSharingEnabled", b)
                                 \o Tell("NSAppTransportSecurity", c) \o Tell("ITSAppUsesNonExemptEncryption", d)
    <3> DEFINE a == IF e.keys["NSAllowsArbitraryLoads"] = "true" THEN "high" ELSE None
               b == IF e.keys["UIFileSharingEnabled"] = "true" THEN "medium" ELSE None
               c == IF e.keys["NSAppTransportSecurity"] # None THEN "info" ELSE None
               d == IF e.keys["ITSAppUsesNonExemptEncryption"] = None THEN "info" ELSE None
    <3>1. AdaptInfoPlist(e) = Tell("NSAllowsArbitraryLoads", a) \o Tell("UIFileSharingEnabled", b)
                                \o Tell("NSAppTransportSecurity", c) \o Tell("ITSAppUsesNonExemptEncryption", d)
      BY DEF AdaptInfoPlist
    <3>2. a \in {None, "high"} /\ b \in {None, "medium"} /\ c \in {None, "info"} /\ d \in {None, "info"}
      OBVIOUS
    <3> HIDE DEF a, b, c, d, Tell
    <3> QED BY <3>1, <3>2
  <2>4. PICK a, b, c, d \in {None, "high", "medium", "info"} :
           AdaptInfoPlist(e) = Tell("NSAllowsArbitraryLoads", a) \o Tell("UIFileSharingEnabled", b)
                                 \o Tell("NSAppTransportSecurity", c) \o Tell("ITSAppUsesNonExemptEncryption", d)
    BY <2>3
  <2>5. /\ Tell("NSAllowsArbitraryLoads", a) \in M /\ Tell("UIFileSharingEnabled", b) \in M
        /\ Tell("NSAppTransportSecurity", c) \in M /\ Tell("ITSAppUsesNonExemptEncryption", d) \in M
    BY <2>1
  <2> HIDE DEF Tell
  <2> QED BY <2>2, <2>4, <2>5, ConcatProperties DEF M
<1>10. e.section \in {"code_analysis", "permissions", "secrets", "trackers", "bundle_url_types", "manifest_analysis",
                      "network_security", "certificate_analysis", "ats_analysis", "dylib_analysis",
                      "binary_analysis", "info_plist"}
  BY DEF MobSFEntries
<1> QED BY <1>4, <1>5, <1>6, <1>7, <1>8, <1>9, <1>10

LEMMA SectionsFit ==
  ASSUME NEW platform, NEW n \in DOMAIN Sections(platform), Sections(platform)[n] = "binary_analysis"
  PROVE  platform \in {"android", "ios"}
<1> SUFFICES ASSUME platform \notin {"android", "ios"} PROVE FALSE
  OBVIOUS
<1>1. Sections(platform) = <<"code_analysis", "permissions", "secrets", "trackers">> \o <<>>
  BY DEF Sections
<1>2. Sections(platform) = <<"code_analysis", "permissions", "secrets", "trackers">>
  BY <1>1
<1>3. n \in 1..4
  BY <1>2
<1> QED BY <1>2, <1>3

LEMMA SectionsSeq ==
  ASSUME NEW platform
  PROVE  \E S : Sections(platform) \in Seq(S)
<1> DEFINE S == {"code_analysis", "permissions", "secrets", "trackers", "bundle_url_types", "manifest_analysis",
                 "network_security", "certificate_analysis", "ats_analysis", "dylib_analysis",
                 "binary_analysis", "info_plist"}
           a == <<"code_analysis", "permissions", "secrets", "trackers">>
           b == CASE platform = "android" ->
                       <<"manifest_analysis", "network_security", "certificate_analysis", "binary_analysis">>
                  [] platform = "ios" ->
                       <<"info_plist", "ats_analysis", "dylib_analysis", "binary_analysis", "bundle_url_types">>
                  [] OTHER -> <<>>
<1>1. a \in Seq(S)
  OBVIOUS
<1>2. b \in Seq(S)
  <2>1. CASE platform = "android"
    <3>1. b = <<"manifest_analysis", "network_security", "certificate_analysis", "binary_analysis">>
      BY <2>1
    <3>2. <<"manifest_analysis", "network_security", "certificate_analysis", "binary_analysis">> \in Seq(S)
      OBVIOUS
    <3> HIDE DEF b, S
    <3> QED BY <3>1, <3>2
  <2>2. CASE platform = "ios"
    <3>1. b = <<"info_plist", "ats_analysis", "dylib_analysis", "binary_analysis", "bundle_url_types">>
      BY <2>2
    <3>2. <<"info_plist", "ats_analysis", "dylib_analysis", "binary_analysis", "bundle_url_types">> \in Seq(S)
      OBVIOUS
    <3> HIDE DEF b, S
    <3> QED BY <3>1, <3>2
  <2>3. CASE platform \notin {"android", "ios"}
    <3>1. b = <<>>
      BY <2>3
    <3> HIDE DEF b
    <3> QED BY <3>1, EmptySeq
  <2> QED BY <2>1, <2>2, <2>3
<1>3. Sections(platform) = a \o b
  BY DEF Sections
<1> HIDE DEF a, b, S
<1> QED BY <1>1, <1>2, <1>3, ConcatProperties

\* The entries of one section, and their findings.
InSection(records, sec) == Select(records, LAMBDA e : e.section = sec)
SectionFindings(platform, records, sec) ==
  FlattenSeq([i \in DOMAIN InSection(records, sec) |-> Adapt(platform, InSection(records, sec)[i])])

LEMMA SectionMakes ==
  ASSUME NEW platform, NEW records \in Seq(MobSFEntries), NEW sec,
         platform \in {"android", "ios"} \/ sec # "binary_analysis"
  PROVE  SectionFindings(platform, records, sec) \in Seq(MobSFMade)
<1> DEFINE A == {e \in MobSFEntries : e.section = sec}
           t == [i \in DOMAIN records |-> IF records[i].section = sec THEN <<records[i]>> ELSE <<>>]
           q == InSection(records, sec)
           s == [i \in DOMAIN q |-> Adapt(platform, q[i])]
<1>1. q \in Seq(A)
  <2>1. ASSUME NEW i \in DOMAIN records PROVE t[i] \in Seq(A)
    <3>1. records[i] \in MobSFEntries
      BY ONLY i \in DOMAIN records, records \in Seq(MobSFEntries)
    <3>2. records[i].section = sec => records[i] \in A
      BY <3>1
    <3> HIDE DEF A
    <3> QED BY <3>2, OneOrNone, EmptySeq
  <2>2. t = [i \in DOMAIN records |-> t[i]]
    OBVIOUS
  <2>3. q = FlattenSeq(t)
    BY DEF InSection, Select, Each
  <2> HIDE DEF t, A, q
  <2>4. FlattenSeq(t) \in Seq(A)
    BY ONLY <2>1, <2>2, FlattenOver, records \in Seq(MobSFEntries)
  <2> QED BY <2>3, <2>4
<1> HIDE DEF q
<1>2. \A e \in A : Adapt(platform, e) \in Seq(MobSFMade)
  BY AdaptMakes
<1>3. FlattenSeq(s) \in Seq(MobSFMade)
  <2> HIDE DEF A
  <2>1. s = [i \in DOMAIN q |-> s[i]]
    OBVIOUS
  <2>2. ASSUME NEW i \in DOMAIN q PROVE s[i] \in Seq(MobSFMade)
    <3>1. q[i] \in A
      BY ONLY <1>1, i \in DOMAIN q
    <3> QED BY <1>2, <3>1
  <2> HIDE DEF s
  <2> QED BY ONLY <1>1, <2>1, <2>2, FlattenOver
<1> QED BY <1>3 DEF q, SectionFindings

LEMMA MobSFMakes ==
  ASSUME NEW rep \in MobSFReports
  PROVE  ParseReport(rep).findings \in Seq(MobSFMade)
<1> DEFINE Of(sec) == IF sec = "binary_analysis" /\ rep.shape # Shape(rep.platform) THEN <<>>
                      ELSE SectionFindings(rep.platform, rep.records, sec)
           q == Sections(rep.platform)
           s == [n \in DOMAIN q |-> Of(q[n])]
<1>1. rep.records \in Seq(MobSFEntries)
  BY DEF MobSFReports
<1>2. ASSUME NEW n \in DOMAIN q PROVE Of(q[n]) \in Seq(MobSFMade)
  <2>1. rep.platform \in {"android", "ios"} \/ q[n] # "binary_analysis"
    BY SectionsFit
  <2> HIDE DEF q
  <2>2. SectionFindings(rep.platform, rep.records, q[n]) \in Seq(MobSFMade)
    BY <1>1, <2>1, SectionMakes
  <2> QED BY <2>2, EmptySeq
<1>3. ParseReport(rep).findings \in {<<>>, FlattenSeq(s)}
  BY DEF ParseReport, Failed, Parsed, Each, SectionFindings, InSection
<1>4. PICK S : q \in Seq(S)
  BY SectionsSeq
<1>5. FlattenSeq(s) \in Seq(MobSFMade)
  <2> HIDE DEF Of, q
  <2>1. s = [n \in DOMAIN q |-> s[n]] /\ \A n \in DOMAIN q : s[n] \in Seq(MobSFMade)
    BY <1>2
  <2> HIDE DEF s
  <2> QED BY ONLY <1>4, <2>1, FlattenOver
<1> QED BY <1>3, <1>5, EmptySeq

-------------------------------------------------------------------------------
(***************************************************************************)
(* Scales: the place of a word is the step that has it.                    *)
(***************************************************************************)
LEMMA PlaceFits ==
  ASSUME NEW S, NEW scale \in Seq(S), NEW word
  PROVE  LET n == Place(scale, word)
         IN  /\ n \in 0..Len(scale)
             /\ n # 0 => word \in scale[n]
             /\ \A m \in 1..Len(scale) : word \in scale[m] => n # 0 /\ n <= m
<1> DEFINE I == {i \in 1..Len(scale) : word \in scale[i]}
<1>1. Len(scale) \in Nat /\ I \in SUBSET Nat
  BY LenProperties
<1>2. Place(scale, word) = IF I # {} THEN Min(I) ELSE 0
  BY DEF Place, SelectInSeq
<1>3. I # {} => Min(I) \in I /\ \A i \in I : Min(I) <= i
  <2> SUFFICES ASSUME I # {} PROVE Min(I) \in I /\ \A i \in I : Min(I) <= i
    OBVIOUS
  <2>1. \E x \in I : \A y \in I : x <= y
    BY <1>1, LeastNatural
  <2> HIDE DEF I
  <2> QED BY <2>1 DEF Min
<1>4. CASE I = {}
  BY <1>1, <1>2, <1>4
<1>5. CASE I # {}
  <2> DEFINE n == Min(I)
  <2>1. Place(scale, word) = n /\ n \in I /\ \A i \in I : n <= i
    BY <1>2, <1>3, <1>5
  <2> HIDE DEF n
  <2> QED BY <1>1, <2>1
<1> QED BY <1>4, <1>5

LEMMA SeverityRanks ==
  /\ SeverityRank("info") = 1 /\ SeverityRank("low") = 2 /\ SeverityRank("medium") = 3
  /\ SeverityRank("high") = 4 /\ SeverityRank("critical") = 5
<1> DEFINE scale == <<{"info"}, {"low"}, {"medium"}, {"high"}, {"critical"}>>
<1>1. Len(scale) = 5 /\ scale \in Seq({{"info"}, {"low"}, {"medium"}, {"high"}, {"critical"}})
  OBVIOUS
<1>2. /\ scale[1] = {"info"} /\ scale[2] = {"low"} /\ scale[3] = {"medium"} /\ scale[4] = {"high"}
      /\ scale[5] = {"critical"}
  OBVIOUS
<1>3. \A w : SeverityRank(w) = Place(scale, w)
  BY DEF SeverityRank
<1> HIDE DEF scale
<1>4. ASSUME NEW w, NEW m \in 1..5, w \in scale[m], \A i \in 1..5 : w \in scale[i] => i = m
      PROVE  SeverityRank(w) = m
  <2>1. /\ Place(scale, w) \in 0..5 /\ (Place(scale, w) # 0 => w \in scale[Place(scale, w)])
        /\ Place(scale, w) # 0
    BY <1>1, <1>4, PlaceFits
  <2> QED BY <1>3, <1>4, <2>1
<1>5. SeverityRank("info") = 1
  BY <1>2, <1>4
<1>6. SeverityRank("low") = 2
  BY <1>2, <1>4
<1>7. SeverityRank("medium") = 3
  BY <1>2, <1>4
<1>8. SeverityRank("high") = 4
  BY <1>2, <1>4
<1>9. SeverityRank("critical") = 5
  BY <1>2, <1>4
<1> QED BY <1>5, <1>6, <1>7, <1>8, <1>9

LEMMA SemgrepRated ==
  ASSUME tool = "semgrep", NEW f \in SemgrepMade
  PROVE  /\ ToolRank(f) \in 0..3
         /\ ToolRank(f) = 1 => f.severity = "info"
         /\ ToolRank(f) = 2 => f.severity = "medium"
         /\ ToolRank(f) = 3 => f.severity = "high"
<1> DEFINE w == f.from.severity
           scale == <<{"INFO"}, {"WARNING"}, {"ERROR"}>>
<1>1. ToolRank(f) = Place(scale, w)
  BY DEF ToolRank
<1>2. Len(scale) = 3 /\ scale \in Seq({{"INFO"}, {"WARNING"}, {"ERROR"}})
  OBVIOUS
<1>3. scale[1] = {"INFO"} /\ scale[2] = {"WARNING"} /\ scale[3] = {"ERROR"}
  OBVIOUS
<1>4. /\ w \in {"INFO"} => f.severity = "info"
      /\ w \in {"WARNING"} => f.severity = "medium"
      /\ w \in {"ERROR"} => f.severity = "high"
  BY DEF SemgrepMade, RawFinding, SemgrepSeverity
<1> HIDE DEF w, scale
<1>5. Place(scale, w) \in 0..3 /\ (Place(scale, w) # 0 => w \in scale[Place(scale, w)])
  BY <1>2, PlaceFits
<1> QED BY <1>1, <1>3, <1>4, <1>5

LEMMA DepcheckRated ==
  ASSUME tool = "depcheck", NEW f \in DepcheckMade
  PROVE  /\ ToolRank(f) \in 0..4
         /\ ToolRank(f) = 1 => f.severity = "low"
         /\ ToolRank(f) = 2 => f.severity = "medium"
         /\ ToolRank(f) = 3 => f.severity = "high"
         /\ ToolRank(f) = 4 => f.severity = "critical"
<1> DEFINE w == f.from.severity
           scale == <<{"LOW"}, {"MEDIUM", "MODERATE"}, {"HIGH"}, {"CRITICAL"}>>
<1>1. ToolRank(f) = Place(scale, w)
  BY DEF ToolRank
<1>2. Len(scale) = 4 /\ scale \in Seq({{"LOW"}, {"MEDIUM", "MODERATE"}, {"HIGH"}, {"CRITICAL"}})
  OBVIOUS
<1>3. scale[1] = {"LOW"} /\ scale[2] = {"MEDIUM", "MODERATE"} /\ scale[3] = {"HIGH"} /\ scale[4] = {"CRITICAL"}
  OBVIOUS
<1>4. /\ w \in {"LOW"} => f.severity = "low"
      /\ w \in {"MEDIUM", "MODERATE"} => f.severity = "medium"
      /\ w \in {"HIGH"} => f.severity = "high"
      /\ w \in {"CRITICAL"} => f.severity = "critical"
  BY DEF DepcheckMade, VulnToFinding, RawFinding, DepcheckSeverity
<1> HIDE DEF w, scale
<1>5. Place(scale, w) \in 0..4 /\ (Place(scale, w) # 0 => w \in scale[Place(scale, w)])
  BY <1>2, PlaceFits
<1> QED BY <1>1, <1>3, <1>4, <1>5

LEMMA TrivyShape ==
  ASSUME NEW f \in TrivyMade
  PROVE  /\ f.severity = MapTrivySeverity(f.from.vuln.Severity)
         /\ {"from", "severity", "fingerprint", "type", "url", "param", "file"} \subseteq DOMAIN f
<1>1. PICK r \in TrivyResults, v \in TrivyVulns : f = BuildVulnFinding(r, v)
  BY DEF TrivyMade
<1>2. PICK c : f = [RawFinding([target |-> r.Target, vuln |-> v], "vulnerability", None, None,
                               None, 0, MapTrivySeverity(v.Severity)) EXCEPT !.cvss = c]
  BY <1>1 DEF BuildVulnFinding
<1>3. f.from = [target |-> r.Target, vuln |-> v] /\ f.severity = MapTrivySeverity(v.Severity)
  BY <1>2 DEF RawFinding
<1>4. {"from", "severity", "fingerprint", "type", "url", "param", "file"} \subseteq DOMAIN f
  BY <1>2 DEF RawFinding
<1> QED BY <1>3, <1>4

LEMMA TrivyRated ==
  ASSUME tool = "trivy", NEW f \in TrivyMade
  PROVE  /\ ToolRank(f) \in 0..4
         /\ ToolRank(f) = 1 => f.severity = "low"
         /\ ToolRank(f) = 2 => f.severity = "medium"
         /\ ToolRank(f) = 3 => f.severity = "high"
         /\ ToolRank(f) = 4 => f.severity = "critical"
<1> DEFINE w == f.from.vuln.Severity
           scale == <<{"LOW"}, {"MEDIUM"}, {"HIGH"}, {"CRITICAL"}>>
<1>1. ToolRank(f) = Place(scale, w)
  BY DEF ToolRank
<1>2. Len(scale) = 4 /\ scale \in Seq({{"LOW"}, {"MEDIUM"}, {"HIGH"}, {"CRITICAL"}})
  OBVIOUS
<1>3. scale[1] = {"LOW"} /\ scale[2] = {"MEDIUM"} /\ scale[3] = {"HIGH"} /\ scale[4] = {"CRITICAL"}
  OBVIOUS
<1>4. /\ w \in {"LOW"} => f.severity = "low"
      /\ w \in {"MEDIUM"} => f.severity = "medium"
      /\ w \in {"HIGH"} => f.severity = "high"
      /\ w \in {"CRITICAL"} => f.severity = "critical"
  BY TrivyShape DEF MapTrivySeverity
<1> HIDE DEF w, scale
<1>5. Place(scale, w) \in 0..4 /\ (Place(scale, w) # 0 => w \in scale[Place(scale, w)])
  BY <1>2, PlaceFits
<1> QED BY <1>1, <1>3, <1>4, <1>5

LEMMA NucleiRated ==
  ASSUME tool = "nuclei", NEW f \in NucleiMade
  PROVE  /\ ToolRank(f) \in 0..5
         /\ ToolRank(f) = 1 => f.severity = "info"
         /\ ToolRank(f) = 2 => f.severity = "low"
         /\ ToolRank(f) = 3 => f.severity = "medium"
         /\ ToolRank(f) = 4 => f.severity = "high"
         /\ ToolRank(f) = 5 => f.severity = "critical"
<1> DEFINE w == f.from.severity
           scale == <<{"info"}, {"low"}, {"medium"}, {"high"}, {"critical"}>>
<1>1. ToolRank(f) = Place(scale, w)
  BY DEF ToolRank
<1>2. Len(scale) = 5 /\ scale \in Seq({{"info"}, {"low"}, {"medium"}, {"high"}, {"critical"}})
  OBVIOUS
<1>3. scale[1] = {"info"} /\ scale[2] = {"low"} /\ scale[3] = {"medium"} /\ scale[4] = {"high"} /\ scale[5] = {"critical"}
  OBVIOUS
<1>4. /\ w \in {"info"} => f.severity = "info"
      /\ w \in {"low"} => f.severity = "low"
      /\ w \in {"medium"} => f.severity = "medium"
      /\ w \in {"high"} => f.severity = "high"
      /\ w \in {"critical"} => f.severity = "critical"
  BY DEF NucleiMade, RawFinding, NucleiSeverity, Severities
<1> HIDE DEF w, scale
<1>5. Place(scale, w) \in 0..5 /\ (Place(scale, w) # 0 => w \in scale[Place(scale, w)])
  BY <1>2, PlaceFits
<1> QED BY <1>1, <1>3, <1>4, <1>5

LEMMA ZapRated ==
  ASSUME tool = "zap", NEW f \in ZapMade
  PROVE  /\ ToolRank(f) \in 0..4
         /\ ToolRank(f) = 1 => f.severity = "info"
         /\ ToolRank(f) = 2 => f.severity = "low"
         /\ ToolRank(f) = 3 => f.severity = "medium"
         /\ ToolRank(f) = 4 => f.severity = "high"
<1> DEFINE w == f.from.risk
           scale == <<{"Informational"}, {"Low"}, {"Medium"}, {"High"}>>
<1>1. ToolRank(f) = Place(scale, w)
  BY DEF ToolRank
<1>2. Len(scale) = 4 /\ scale \in Seq({{"Informational"}, {"Low"}, {"Medium"}, {"High"}})
  OBVIOUS
<1>3. scale[1] = {"Informational"} /\ scale[2] = {"Low"} /\ scale[3] = {"Medium"} /\ scale[4] = {"High"}
  OBVIOUS
<1>4. /\ w \in {"Informational"} => f.severity = "info"
      /\ w \in {"Low"} => f.severity = "low"
      /\ w \in {"Medium"} => f.severity = "medium"
      /\ w \in {"High"} => f.severity = "high"
  BY DEF ZapMade, RawFinding, MapZAPRisk
<1> HIDE DEF w, scale
<1>5. Place(scale, w) \in 0..4 /\ (Place(scale, w) # 0 => w \in scale[Place(scale, w)])
  BY <1>2, PlaceFits
<1> QED BY <1>1, <1>3, <1>4, <1>5

LEMMA WapitiRated ==
  ASSUME tool = "wapiti", report \in WapitiReports, NEW f \in WapitiMade(report)
  PROVE  /\ ToolRank(f) \in 0..5
         /\ ToolRank(f) = 1 => f.severity = "info"
         /\ ToolRank(f) = 2 => f.severity = "low"
         /\ ToolRank(f) = 3 => f.severity = "medium"
         /\ ToolRank(f) = 4 => f.severity = "high"
         /\ ToolRank(f) = 5 => f.severity = "critical"
<1>1. PICK v \in Range(report.records) : f = InstanceToFinding(report.target, v)
  BY DEF WapitiMade
<1>2. f.from = v /\ f.severity = WapitiSeverity(ExtractFloat(v.level))
  BY <1>1 DEF InstanceToFinding, RawFinding
<1>3. ToolRank(f) = IF v.level \in 1..5 THEN v.level ELSE 0
  BY <1>2 DEF ToolRank
<1>4. v.level \in 1..5 => f.severity = <<"info", "low", "medium", "high", "critical">>[v.level]
  BY <1>2 DEF WapitiSeverity, ExtractFloat
<1> QED BY <1>3, <1>4

LEMMA MobSFRated ==
  ASSUME tool = "mobsf", NEW f \in MobSFMade
  PROVE  /\ ToolRank(f) \in 0..3
         /\ ToolRank(f) = 1 => f.severity = "info"
         /\ ToolRank(f) = 2 => f.severity = "medium"
         /\ ToolRank(f) = 3 => f.severity = "high"
<1>1. CASE "severity" \notin DOMAIN f.from
  BY <1>1 DEF ToolRank
<1>2. CASE "severity" \in DOMAIN f.from
  <2> DEFINE w == f.from.severity
             scale == <<{"info"}, {"warning"}, {"high"}>>
  <2>1. ToolRank(f) = Place(scale, w)
    BY <1>2 DEF ToolRank
  <2>2. Len(scale) = 3 /\ scale \in Seq({{"info"}, {"warning"}, {"high"}})
    OBVIOUS
  <2>3. scale[1] = {"info"} /\ scale[2] = {"warning"} /\ scale[3] = {"high"}
    OBVIOUS
  <2>4. MapMobSFSeverity(w) \in {None, f.severity}
    BY <1>2 DEF MobSFMade, RatingFits
  <2>5. /\ w \in {"info"} => f.severity = "info"
        /\ w \in {"warning"} => f.severity = "medium"
        /\ w \in {"high"} => f.severity = "high"
    BY <2>4 DEF MapMobSFSeverity, None
  <2> HIDE DEF w, scale
  <2>6. Place(scale, w) \in 0..3 /\ (Place(scale, w) # 0 => w \in scale[Place(scale, w)])
    BY <2>2, PlaceFits
  <2> QED BY <2>1, <2>3, <2>5, <2>6
<1> QED BY <1>1, <1>2

-------------------------------------------------------------------------------
(***************************************************************************)
(* What the parser answers stays, stamped, until the end of the run.       *)
(***************************************************************************)
JudgedTools == {"semgrep", "gitleaks", "checkov", "depcheck", "trivy", "nuclei", "wapiti", "zap", "nmap", "sslyze", "mobsf"}

Made ==
  CASE tool = "semgrep" -> SemgrepMade
    [] tool = "gitleaks" -> GitleaksMade
    [] tool = "checkov" -> CheckovMade
    [] tool = "depcheck" -> DepcheckMade
    [] tool = "trivy" -> TrivyMade
    [] tool = "nuclei" -> NucleiMade
    [] tool = "wapiti" -> WapitiMade(report)
    [] tool = "zap" -> ZapMade
    [] tool = "nmap" -> NmapMade(report)
    [] tool = "sslyze" -> SslyzeMade
    [] tool = "mobsf" -> MobSFMade

LEMMA ParserMakes ==
  ASSUME Reported, tool \in JudgedTools
  PROVE  ParseOutput.findings \in Seq(Made)
<1>1. CASE tool = "semgrep"
  <2>1. report \in SemgrepReports
    BY <1>1 DEF Reported, ReportsOf
  <2>2. Made = SemgrepMade /\ ParseOutput = SemgrepParse(report)
    BY <1>1 DEF Made, ParseOutput
  <2> QED BY <2>1, <2>2, SemgrepMakes
<1>2. CASE tool = "gitleaks"
  <2>1. report \in GitleaksReports
    BY <1>2 DEF Reported, ReportsOf
  <2>2. Made = GitleaksMade /\ ParseOutput = GitleaksParse(report)
    BY <1>2 DEF Made, ParseOutput
  <2> QED BY <2>1, <2>2, GitleaksMakes
<1>3. CASE tool = "checkov"
  <2>1. report \in CheckovReports
    BY <1>3 DEF Reported, ReportsOf
  <2>2. Made = CheckovMade /\ ParseOutput = CheckovParse(report)
    BY <1>3 DEF Made, ParseOutput
  <2> QED BY <2>1, <2>2, CheckovMakes
<1>4. CASE tool = "depcheck"
  <2>1. report \in DepcheckReports
    BY <1>4 DEF Reported, ReportsOf
  <2>2. Made = DepcheckMade /\ ParseOutput = DepcheckParse(report)
    BY <1>4 DEF Made, ParseOutput
  <2> QED BY <2>1, <2>2, DepcheckMakes
<1>5. CASE tool = "trivy"
  <2>1. report \in TrivyReports
    BY <1>5 DEF Reported, ReportsOf
  <2>2. Made = TrivyMade /\ ParseOutput = ParseTrivyJSON(report)
    BY <1>5 DEF Made, ParseOutput
  <2> QED BY <2>1, <2>2, TrivyMakes
<1>6. CASE tool = "nuclei"
  <2>1. report \in NucleiReports
    BY <1>6 DEF Reported, ReportsOf
  <2>2. Made = NucleiMade /\ ParseOutput = NucleiParse(report)
    BY <1>6 DEF Made, ParseOutput
  <2> QED BY <2>1, <2>2, NucleiMakes
<1>7. CASE tool = "wapiti"
  <2>1. report \in WapitiReports
    BY <1>7 DEF Reported, ReportsOf
  <2>2. Made = WapitiMade(report) /\ ParseOutput = WapitiParse(report)
    BY <1>7 DEF Made, ParseOutput
  <2> QED BY <2>1, <2>2, WapitiMakes
<1>8. CASE tool = "zap"
  <2>1. report \in ZapReports
    BY <1>8 DEF Reported, ReportsOf
  <2>2. Made = ZapMade /\ ParseOutput = ParseAlerts(report)
    BY <1>8 DEF Made, ParseOutput
  <2> QED BY <2>1, <2>2, ZapMakes
<1>9. CASE tool = "nmap"
  <2>1. report.records \in NmapHosts
    BY <1>9 DEF Reported, ReportsOf
  <2>2. Made = NmapMade(report) /\ ParseOutput = NmapParse(report)
    BY <1>9 DEF Made, ParseOutput
  <2> QED BY <2>1, <2>2, NmapMakes
<1>10. CASE tool = "sslyze"
  <2>1. report \in SslyzeReports
    BY <1>10 DEF Reported, ReportsOf
  <2>2. Made = SslyzeMade /\ ParseOutput = SslyzeParse(report)
    BY <1>10 DEF Made, ParseOutput
  <2> QED BY <2>1, <2>2, SslyzeMakes
<1>11. CASE tool = "mobsf"
  <2>1. report \in MobSFReports
    BY <1>11 DEF Reported, ReportsOf
  <2>2. Made = MobSFMade /\ ParseOutput = ParseReport(report)
    BY <1>11 DEF Made, ParseOutput
  <2> QED BY <2>1, <2>2, MobSFMakes
<1> QED BY <1>1, <1>2, <1>3, <1>4, <1>5, <1>6, <1>7, <1>8, <1>9, <1>10, <1>11 DEF JudgedTools

LEMMA FailuresMakeNone ==
  ASSUME tool \in JudgedTools, ParseOutput.outcome # "ok"
  PROVE  ParseOutput.findings = <<>>
<1>1. CASE tool = "semgrep"
  <2>1. ParseOutput = SemgrepParse(report)
    BY <1>1 DEF ParseOutput
  <2> QED BY <2>1 DEF SemgrepParse, ParseDocument, Failed, Parsed
<1>2. CASE tool = "gitleaks"
  <2>1. ParseOutput = GitleaksParse(report)
    BY <1>2 DEF ParseOutput
  <2> QED BY <2>1 DEF GitleaksParse, ParseDocument, Failed, Parsed
<1>3. CASE tool = "checkov"
  <2>1. ParseOutput = CheckovParse(report)
    BY <1>3 DEF ParseOutput
  <2> QED BY <2>1 DEF CheckovParse, ParseDocument, Failed, Parsed
<1>4. CASE tool = "depcheck"
  <2>1. ParseOutput = DepcheckParse(report)
    BY <1>4 DEF ParseOutput
  <2> QED BY <2>1 DEF DepcheckParse, ParseDocument, Failed, Parsed
<1>5. CASE tool = "trivy"
  <2>1. ParseOutput = ParseTrivyJSON(report)
    BY <1>5 DEF ParseOutput
  <2> QED BY <2>1 DEF ParseTrivyJSON, Failed, Parsed
<1>6. CASE tool = "nuclei"
  <2>1. ParseOutput = NucleiParse(report)
    BY <1>6 DEF ParseOutput
  <2> QED BY <2>1 DEF NucleiParse, Failed, Parsed
<1>7. CASE tool = "wapiti"
  <2>1. ParseOutput = WapitiParse(report)
    BY <1>7 DEF ParseOutput
  <2> QED BY <2>1 DEF WapitiParse, Failed, Parsed
<1>8. CASE tool = "zap"
  <2>1. ParseOutput = ParseAlerts(report)
    BY <1>8 DEF ParseOutput
  <2> QED BY <2>1 DEF ParseAlerts, Failed, Parsed
<1>9. CASE tool = "nmap"
  <2>1. ParseOutput = NmapParse(report)
    BY <1>9 DEF ParseOutput
  <2> QED BY <2>1 DEF NmapParse, Failed, Parsed
<1>10. CASE tool = "sslyze"
  <2>1. ParseOutput = SslyzeParse(report)
    BY <1>10 DEF ParseOutput
  <2> QED BY <2>1 DEF SslyzeParse, Failed, Parsed
<1>11. CASE tool = "mobsf"
  <2>1. ParseOutput = ParseReport(report)
    BY <1>11 DEF ParseOutput
  <2> QED BY <2>1 DEF ParseReport, Failed, Parsed
<1> QED BY <1>1, <1>2, <1>3, <1>4, <1>5, <1>6, <1>7, <1>8, <1>9, <1>10, <1>11 DEF JudgedTools

LEMMA MadeFields ==
  ASSUME tool \in JudgedTools, NEW f \in Made
  PROVE  {"from", "severity", "fingerprint", "type", "url", "param", "file"} \subseteq DOMAIN f
<1>1. CASE tool = "semgrep"
  <2>1. f \in SemgrepMade
    BY <1>1 DEF Made
  <2> QED BY <2>1 DEF SemgrepMade, RawFinding
<1>2. CASE tool = "gitleaks"
  <2>1. f \in GitleaksMade
    BY <1>2 DEF Made
  <2> QED BY <2>1 DEF GitleaksMade, RawFinding
<1>3. CASE tool = "checkov"
  <2>1. f \in CheckovMade
    BY <1>3 DEF Made
  <2> QED BY <2>1 DEF CheckovMade, RawFinding
<1>4. CASE tool = "depcheck"
  <2>1. f \in DepcheckMade
    BY <1>4 DEF Made
  <2> QED BY <2>1 DEF DepcheckMade, VulnToFinding, RawFinding
<1>5. CASE tool = "trivy"
  <2>1. f \in TrivyMade
    BY <1>5 DEF Made
  <2> QED BY <2>1, TrivyShape
<1>6. CASE tool = "nuclei"
  <2>1. f \in NucleiMade
    BY <1>6 DEF Made
  <2> QED BY <2>1 DEF NucleiMade, RawFinding
<1>7. CASE tool = "wapiti"
  <2>1. f \in WapitiMade(report)
    BY <1>7 DEF Made
  <2> QED BY <2>1 DEF WapitiMade, InstanceToFinding, RawFinding
<1>8. CASE tool = "zap"
  <2>1. f \in ZapMade
    BY <1>8 DEF Made
  <2> QED BY <2>1 DEF ZapMade, RawFinding
<1>9. CASE tool = "nmap"
  <2>1. f \in NmapMade(report)
    BY <1>9 DEF Made
  <2> QED BY <2>1 DEF NmapMade, BuildFinding, RawFinding
<1>10. CASE tool = "sslyze"
  <2>1. f \in SslyzeMade
    BY <1>10 DEF Made
  <2> QED BY <2>1 DEF SslyzeMade, RawFinding
<1>11. CASE tool = "mobsf"
  <2>1. f \in MobSFMade
    BY <1>11 DEF Made
  <2> QED BY <2>1 DEF MobSFMade, RawFinding
<1> QED BY <1>1, <1>2, <1>3, <1>4, <1>5, <1>6, <1>7, <1>8, <1>9, <1>10, <1>11 DEF JudgedTools

LEMMA MadeTold ==
  ASSUME Reported, tool \in PlacedTools, NEW f \in Made, NEW g \in Made,
         Key(f) = Key(g)
  PROVE  Identity(f) = Identity(g)
<1>1. CASE tool = "semgrep"
  <2>1. f \in SemgrepMade /\ g \in SemgrepMade /\ report \in SemgrepReports
    BY <1>1 DEF Made, Reported, ReportsOf
  <2> QED BY <1>1, <2>1, SemgrepTold
<1>2. CASE tool = "gitleaks"
  <2>1. f \in GitleaksMade /\ g \in GitleaksMade /\ report \in GitleaksReports
    BY <1>2 DEF Made, Reported, ReportsOf
  <2> QED BY <1>2, <2>1, GitleaksTold
<1>3. CASE tool = "checkov"
  <2>1. f \in CheckovMade /\ g \in CheckovMade /\ report \in CheckovReports
    BY <1>3 DEF Made, Reported, ReportsOf
  <2> QED BY <1>3, <2>1, CheckovTold
<1>4. CASE tool = "depcheck"
  <2>1. f \in DepcheckMade /\ g \in DepcheckMade /\ report \in DepcheckReports
    BY <1>4 DEF Made, Reported, ReportsOf
  <2> QED BY <1>4, <2>1, DepcheckTold
<1>5. CASE tool = "nuclei"
  <2>1. f \in NucleiMade /\ g \in NucleiMade /\ report \in NucleiReports
    BY <1>5 DEF Made, Reported, ReportsOf
  <2> QED BY <1>5, <2>1, NucleiTold
<1>6. CASE tool = "wapiti"
  <2>1. f \in WapitiMade(report) /\ g \in WapitiMade(report) /\ report \in WapitiReports
    BY <1>6 DEF Made, Reported, ReportsOf
  <2> QED BY <1>6, <2>1, WapitiTold
<1>7. CASE tool = "zap"
  <2>1. f \in ZapMade /\ g \in ZapMade /\ report \in ZapReports
    BY <1>7 DEF Made, Reported, ReportsOf
  <2> QED BY <1>7, <2>1, ZapTold
<1>8. CASE tool = "nmap"
  <2>1. f \in NmapMade(report) /\ g \in NmapMade(report) /\ report.records \in NmapHosts
    BY <1>8 DEF Made, Reported, ReportsOf
  <2> QED BY <1>8, <2>1, NmapTold
<1>9. CASE tool = "sslyze"
  <2>1. f \in SslyzeMade /\ g \in SslyzeMade /\ report \in SslyzeReports
    BY <1>9 DEF Made, Reported, ReportsOf
  <2> QED BY <1>9, <2>1, SslyzeTold
<1> QED BY <1>1, <1>2, <1>3, <1>4, <1>5, <1>6, <1>7, <1>8, <1>9 DEF PlacedTools

LEMMA MadeRated ==
  ASSUME Reported, tool \in JudgedTools, NEW f \in Made, NEW g \in Made,
         ToolRank(f) > ToolRank(g), ToolRank(g) > 0
  PROVE  SeverityRank(f.severity) > SeverityRank(g.severity)
<1>1. CASE tool = "semgrep"
  <2>1. f \in SemgrepMade /\ g \in SemgrepMade
    BY <1>1 DEF Made
  <2> QED BY <1>1, <2>1, SemgrepRated, SeverityRanks
<1>2. CASE tool = "depcheck"
  <2>1. f \in DepcheckMade /\ g \in DepcheckMade
    BY <1>2 DEF Made
  <2> QED BY <1>2, <2>1, DepcheckRated, SeverityRanks
<1>3. CASE tool = "trivy"
  <2>1. f \in TrivyMade /\ g \in TrivyMade
    BY <1>3 DEF Made
  <2> QED BY <1>3, <2>1, TrivyRated, SeverityRanks
<1>4. CASE tool = "nuclei"
  <2>1. f \in NucleiMade /\ g \in NucleiMade
    BY <1>4 DEF Made
  <2> QED BY <1>4, <2>1, NucleiRated, SeverityRanks
<1>5. CASE tool = "wapiti"
  <2>1. f \in WapitiMade(report) /\ g \in WapitiMade(report) /\ report \in WapitiReports
    BY <1>5 DEF Made, Reported, ReportsOf
  <2> QED BY <1>5, <2>1, WapitiRated, SeverityRanks
<1>6. CASE tool = "zap"
  <2>1. f \in ZapMade /\ g \in ZapMade
    BY <1>6 DEF Made
  <2> QED BY <1>6, <2>1, ZapRated, SeverityRanks
<1>7. CASE tool = "mobsf"
  <2>1. f \in MobSFMade /\ g \in MobSFMade
    BY <1>7 DEF Made
  <2> QED BY <1>7, <2>1, MobSFRated, SeverityRanks
<1>8. CASE tool \in {"gitleaks", "checkov", "nmap", "sslyze"}
  <2>1. ToolRank(g) = 0
    BY <1>8 DEF ToolRank
  <2> QED BY <2>1
<1> QED BY <1>1, <1>2, <1>3, <1>4, <1>5, <1>6, <1>7, <1>8 DEF JudgedTools

Stamped(fs) == [i \in DOMAIN fs |-> [fs[i] EXCEPT !.fingerprint = ComputeFingerprint(tool, fs[i])]]

\* The findings of a run are what the parser made, with their fingerprints
\* once the runner is done.
Answered ==
  /\ phase = "verify" => tool = "nikto"
  /\ tool \in JudgedTools =>
       \/ findings = <<>>
       \/ phase = "enrich" /\ findings = ParseOutput.findings
       \/ phase = "done" /\ findings = Stamped(ParseOutput.findings)

LEMMA AnsweredStays ==
  ASSUME Answered, [Next]_vars
  PROVE  Answered'
<1>a. phase' = "verify" => tool' = "nikto"
  <2>1. phase' = "verify" => phase = "verify" \/ tool = "nikto"
    BY DEF Next, vars, runVars, AskNmap, AskOther, Parse, BeginVerify, Verify, EndVerify, Enrich
  <2> QED BY <2>1, ReportStays DEF Answered
<1> SUFFICES ASSUME tool \in JudgedTools
             PROVE  (\/ findings = <<>>
                     \/ phase = "enrich" /\ findings = ParseOutput.findings
                     \/ phase = "done" /\ findings = Stamped(ParseOutput.findings))'
  BY <1>a, ReportStays DEF Answered
<1>1. \/ findings = <<>>
      \/ phase = "enrich" /\ findings = ParseOutput.findings
      \/ phase = "done" /\ findings = Stamped(ParseOutput.findings)
  BY DEF Answered
<1>2. tool' = tool /\ report' = report /\ ParseOutput' = ParseOutput
  BY ReportStays DEF ParseOutput
<1>3. Stamped(ParseOutput.findings)' = Stamped(ParseOutput.findings)
  BY <1>2 DEF Stamped
<1>4. CASE UNCHANGED <<phase, findings>>
  BY <1>1, <1>2, <1>3, <1>4
<1>5. CASE AskNmap \/ AskOther
  BY <1>1, <1>5 DEF AskNmap, AskOther
<1>6. CASE Parse
  <2>1. tool # "nikto"
    BY DEF JudgedTools
  <2>2. outcome' = ParseOutput.outcome /\ findings' = ParseOutput.findings
    BY <1>6 DEF Parse
  <2>3. CASE outcome' # "ok"
    BY <2>2, <2>3, FailuresMakeNone
  <2>4. CASE outcome' = "ok"
    <3>1. phase' = "enrich"
      BY <1>6, <2>1, <2>4 DEF Parse
    <3> QED BY <1>2, <2>2, <3>1
  <2> QED BY <2>3, <2>4
<1>7. CASE EndVerify
  BY <1>7 DEF EndVerify, Answered, JudgedTools
<1>8. CASE Enrich
  <2>1. phase = "enrich" /\ phase' = "done" /\ findings' = Stamped(findings)
    BY <1>8 DEF Enrich, Stamped
  <2>2. CASE findings = <<>>
    <3>1. findings' = <<>>
      BY <2>1, <2>2 DEF Stamped
    <3> QED BY <3>1
  <2>3. CASE findings = ParseOutput.findings
    BY <1>3, <2>1, <2>3
  <2> QED BY <1>1, <2>1, <2>2, <2>3
<1> QED BY <1>4, <1>5, <1>6, <1>7, <1>8 DEF Next, BeginVerify, Verify, vars, runVars

LEMMA AlwaysAnswered == Spec => [](Answered /\ Reported)
<1>1. Init => Answered
  BY DEF Init, Answered
<1>2. Answered /\ [Next]_vars => Answered'
  BY AnsweredStays
<1> QED BY <1>1, <1>2, AlwaysReported, PTL DEF Spec

\* A stamped finding is still about what it was made from, and as severe.
LEMMA StampedFits ==
  ASSUME Reported, tool \in JudgedTools, NEW i \in DOMAIN ParseOutput.findings
  PROVE  LET p == ParseOutput.findings  f == Stamped(p)[i]
         IN  /\ p[i] \in Made /\ f.from = p[i].from /\ f.severity = p[i].severity
             /\ f.fingerprint = ComputeFingerprint(tool, p[i])
             /\ NoBars(f) => NoBars(p[i])
<1> DEFINE p == ParseOutput.findings
<1>1. p \in Seq(Made)
  BY ParserMakes
<1>2. i \in DOMAIN p
  OBVIOUS
<1> HIDE DEF p
<1>3. p[i] \in Made
  BY <1>1, <1>2
<1>4. {"from", "severity", "fingerprint", "type", "url", "param", "file"} \subseteq DOMAIN p[i]
  BY <1>3, MadeFields
<1>5. Stamped(p)[i] = [p[i] EXCEPT !.fingerprint = ComputeFingerprint(tool, p[i])]
  BY <1>2 DEF Stamped
<1> DEFINE c == ComputeFingerprint(tool, p[i])
<1> HIDE DEF c
<1>6. Stamped(p)[i] = [p[i] EXCEPT !.fingerprint = c]
  BY <1>5 DEF c
<1>7. Stamped(p)[i].from = p[i].from /\ Stamped(p)[i].severity = p[i].severity /\ Stamped(p)[i].fingerprint = c
  BY <1>4, <1>6
<1>8. /\ Stamped(p)[i].type = p[i].type /\ Stamped(p)[i].url = p[i].url
      /\ Stamped(p)[i].param = p[i].param /\ Stamped(p)[i].file = p[i].file
  BY <1>4, <1>6
<1>9. NoBars(Stamped(p)[i]) => NoBars(p[i])
  BY <1>8 DEF NoBars
<1> QED BY <1>3, <1>7, <1>9 DEF p, c

\* Two records that differ in their rule or place get different fingerprints:
\* the parsers keep in the hashed fields all that makes up the identity, so the
\* deduplication keyed by the fingerprint merges no two of them whose fields
\* have no bar, whatever the report.
THEOREM FingerprintsTellApart == Spec => []ToldApart
<1>1. Answered /\ Reported => ToldApart
  <2> SUFFICES ASSUME Answered, Reported, tool \in PlacedTools, NEW i \in DOMAIN Enriched, NEW j \in DOMAIN Enriched,
                      NoBars(Enriched[i]), NoBars(Enriched[j]), Enriched[i].fingerprint = Enriched[j].fingerprint
               PROVE  Identity(Enriched[i]) = Identity(Enriched[j])
    BY DEF ToldApart
  <2>1. tool \in JudgedTools
    BY DEF PlacedTools, JudgedTools
  <2> DEFINE p == ParseOutput.findings
  <2>2. Enriched = Stamped(p)
    BY <2>1 DEF Answered, Enriched
  <2>3. i \in DOMAIN p /\ j \in DOMAIN p
    BY <2>2 DEF Stamped
  <2>4. /\ p[i] \in Made /\ Stamped(p)[i].from = p[i].from
        /\ Stamped(p)[i].fingerprint = ComputeFingerprint(tool, p[i])
        /\ NoBars(p[i])
    BY <2>1, <2>2, <2>3, StampedFits
  <2>5. /\ p[j] \in Made /\ Stamped(p)[j].from = p[j].from
        /\ Stamped(p)[j].fingerprint = ComputeFingerprint(tool, p[j])
        /\ NoBars(p[j])
    BY <2>1, <2>2, <2>3, StampedFits
  <2> HIDE DEF p
  <2>6. Identity(p[i]) = Identity(p[j])
    BY <2>2, <2>4, <2>5, JoinIsKey, MadeTold
  <2>7. \A f, g : f.from = g.from => Identity(f) = Identity(g)
    BY DEF Identity
  <2> QED BY <2>2, <2>4, <2>5, <2>6, <2>7
<1> QED BY <1>1, AlwaysAnswered, PTL

\* The order of severity survives every parser: each maps its tool's scale to
\* the platform's without putting two of its steps on one or in reverse.
THEOREM SeveritiesKept == Spec => []RankKept
<1>1. Answered /\ Reported => RankKept
  <2> SUFFICES ASSUME Answered, Reported, NEW i \in DOMAIN findings, NEW j \in DOMAIN findings,
                      ToolRank(findings[i]) > ToolRank(findings[j]), ToolRank(findings[j]) > 0
               PROVE  SeverityRank(findings[i].severity) > SeverityRank(findings[j].severity)
    BY DEF RankKept
  <2>1. tool \in JudgedTools
    BY DEF ToolRank, JudgedTools
  <2> DEFINE p == ParseOutput.findings
  <2>2. findings \in {p, Stamped(p)}
    BY <2>1 DEF Answered
  <2>3. i \in DOMAIN p /\ j \in DOMAIN p
    BY <2>2 DEF Stamped
  <2>4. p[i] \in Made /\ Stamped(p)[i].from = p[i].from /\ Stamped(p)[i].severity = p[i].severity
    BY <2>1, <2>3, StampedFits
  <2>5. p[j] \in Made /\ Stamped(p)[j].from = p[j].from /\ Stamped(p)[j].severity = p[j].severity
    BY <2>1, <2>3, StampedFits
  <2> HIDE DEF p
  <2>6. /\ findings[i].from = p[i].from /\ findings[i].severity = p[i].severity
        /\ findings[j].from = p[j].from /\ findings[j].severity = p[j].severity
    BY <2>2, <2>4, <2>5
  <2>7. \A f, g : f.from = g.from => ToolRank(f) = ToolRank(g)
    BY DEF ToolRank
  <2>8. ToolRank(findings[i]) = ToolRank(p[i]) /\ ToolRank(findings[j]) = ToolRank(p[j])
    BY <2>6, <2>7
  <2> QED BY <2>1, <2>4, <2>5, <2>6, <2>8, MadeRated
<1> QED BY <1>1, AlwaysAnswered, PTL

-------------------------------------------------------------------------------
(***************************************************************************)
(* The parsers that fold over lines.  The recursive function of a fold     *)
(* exists, and one more line is one more step: the induction over the      *)
(* length of the output rests on this.                                     *)
(***************************************************************************)

\* The two parsers that read line by line: corstest's, and sqlmap's for a url.
ReadLine(who, acc, l) == IF who.cors THEN CorsLine(acc, l) ELSE SqlmapLine(acc, l, who.url)
CorsStart == [pending |-> Pending, out |-> <<>>]
SqlmapStart == [cur |-> NoTechnique, out |-> <<>>]
TextStart(who) == IF who.cors THEN CorsStart ELSE SqlmapStart
TextFold(who, lines) ==
  LET Step(acc, l) == SqlmapLine(acc, l, who.url)
  IN  IF who.cors THEN FoldLeft(CorsLine, CorsStart, lines) ELSE FoldLeft(Step, SqlmapStart, lines)

TextIter(F, lines, n, who) ==
  F = [t \in SUBSET (1..n) |-> IF t = {} THEN TextStart(who)
                               ELSE ReadLine(who, F[t \ {Max(t)}], lines[Max(t)])]

LEMMA TextIterExists ==
  ASSUME NEW lines, NEW n \in Nat, NEW who
  PROVE  \E F : TextIter(F, lines, n, who)
<1> DEFINE D == {m \in Nat : \E F : TextIter(F, lines, m, who)}
<1>1. 0 \in D
  <2> DEFINE F == [t \in SUBSET (1..0) |-> TextStart(who)]
  <2>1. \A t \in SUBSET (1..0) : t = {}
    OBVIOUS
  <2>2. TextIter(F, lines, 0, who)
    BY <2>1 DEF TextIter
  <2> QED BY <2>2
<1>2. ASSUME NEW m \in D PROVE m + 1 \in D
  <2>1. m \in Nat /\ m + 1 \in Nat
    OBVIOUS
  <2>2. PICK F : TextIter(F, lines, m, who)
    OBVIOUS
  <2> DEFINE H == [t \in SUBSET (1..(m + 1)) |->
                     IF m + 1 \in t THEN ReadLine(who, F[t \ {m + 1}], lines[m + 1]) ELSE F[t]]
             Is(t) == H[t] = IF t = {} THEN TextStart(who)
                             ELSE ReadLine(who, H[t \ {Max(t)}], lines[Max(t)])
  <2>3. ASSUME NEW t \in SUBSET (1..(m + 1)), m + 1 \in t PROVE Is(t)
    <3>1. Max(t) = m + 1
      <4>1. Max(t) \in t /\ \A x \in t : x <= Max(t)
        BY <2>1, <2>3, GreatestNatural
      <4>2. Max(t) \in 1..(m + 1) /\ m + 1 <= Max(t)
        BY <2>3, <4>1
      <4> QED BY <2>1, <4>2
    <3>2. t \ {m + 1} \in SUBSET (1..(m + 1)) /\ m + 1 \notin t \ {m + 1} /\ t # {}
      BY <2>3
    <3>3. H[t \ {m + 1}] = F[t \ {m + 1}]
      BY <3>2
    <3>4. H[t] = ReadLine(who, F[t \ {m + 1}], lines[m + 1])
      BY <2>3
    <3> HIDE DEF H
    <3> QED BY <3>1, <3>2, <3>3, <3>4
  <2>4. ASSUME NEW t \in SUBSET (1..(m + 1)), m + 1 \notin t PROVE Is(t)
    <3>1. t \in SUBSET (1..m)
      BY <2>1, <2>4
    <3>2. H[t] = F[t]
      BY <2>4
    <3>3. CASE t = {}
      <4>1. F[t] = TextStart(who)
        BY <2>2, <3>1, <3>3 DEF TextIter
      <4> HIDE DEF H
      <4> QED BY <3>2, <3>3, <4>1
    <3>4. CASE t # {}
      <4>1. Max(t) \in t
        BY <2>1, <3>1, <3>4, GreatestNatural
      <4>2. t \ {Max(t)} \in SUBSET (1..(m + 1)) /\ m + 1 \notin t \ {Max(t)}
        BY <2>4
      <4>3. H[t \ {Max(t)}] = F[t \ {Max(t)}]
        BY <4>2
      <4>4. F[t] = ReadLine(who, F[t \ {Max(t)}], lines[Max(t)])
        BY <2>2, <3>1, <3>4 DEF TextIter
      <4> HIDE DEF H
      <4> QED BY <3>2, <3>4, <4>3, <4>4
    <3> QED BY <3>3, <3>4
  <2>5. \A t \in SUBSET (1..(m + 1)) : Is(t)
    BY <2>3, <2>4
  <2>6. H = [t \in SUBSET (1..(m + 1)) |-> H[t]]
    OBVIOUS
  <2> HIDE DEF H
  <2>7. TextIter(H, lines, m + 1, who)
    BY <2>5, <2>6 DEF TextIter
  <2> QED BY <2>1, <2>7
<1>3. D \in SUBSET Nat
  OBVIOUS
<1> HIDE DEF D
<1>4. D = Nat
  BY <1>1, <1>2, <1>3, Induction
<1> QED BY <1>4 DEF D

LEMMA TextFoldIs ==
  ASSUME NEW L, NEW lines \in Seq(L), NEW who
  PROVE  \E F : TextIter(F, lines, Len(lines), who) /\ TextFold(who, lines) = F[1..Len(lines)]
<1>1. DOMAIN lines = 1..Len(lines) /\ Len(lines) \in Nat
  BY LenProperties
<1>2. \E F : TextIter(F, lines, Len(lines), who)
  BY <1>1, TextIterExists
<1>3. CASE who.cors
  BY <1>1, <1>2, <1>3 DEF TextIter, TextFold, TextStart, ReadLine, FoldLeft, MapThenFoldSet
<1>4. CASE ~who.cors
  BY <1>1, <1>2, <1>4 DEF TextIter, TextFold, TextStart, ReadLine, FoldLeft, MapThenFoldSet
<1> QED BY <1>3, <1>4

LEMMA TextIterAgree ==
  ASSUME NEW s, NEW u, NEW F, NEW G, NEW m \in Nat, NEW n \in Nat, NEW k \in Nat, k <= m, k <= n, NEW who,
         TextIter(F, s, m, who), TextIter(G, u, n, who), \A i \in 1..k : s[i] = u[i]
  PROVE  F[1..k] = G[1..k]
<1> DEFINE D == {j \in Nat : j <= k => F[1..j] = G[1..j]}
<1>1. 0 \in D
  <2>1. 1..0 = {} /\ {} \in SUBSET (1..m) /\ {} \in SUBSET (1..n)
    OBVIOUS
  <2>2. F[{}] = TextStart(who) /\ G[{}] = TextStart(who)
    BY <2>1 DEF TextIter
  <2> QED BY <2>1, <2>2
<1>2. ASSUME NEW j \in D PROVE j + 1 \in D
  <2>1. j \in Nat
    OBVIOUS
  <2> SUFFICES ASSUME j + 1 <= k PROVE F[1..(j + 1)] = G[1..(j + 1)]
    BY <2>1
  <2> DEFINE t == 1..(j + 1)
  <2>2. t \in SUBSET (1..m) /\ t \in SUBSET (1..n) /\ t # {} /\ j + 1 \in t /\ j + 1 \in 1..k
    BY ONLY <2>1, m \in Nat, n \in Nat, k \in Nat, k <= m, k <= n, j + 1 <= k
  <2>3. Max(t) = j + 1
    <3>1. Max(t) \in t /\ \A x \in t : x <= Max(t)
      BY <2>1, <2>2, GreatestNatural
    <3> QED BY <2>1, <2>2, <3>1
  <2>4. t \ {j + 1} = 1..j
    BY <2>1
  <2> HIDE DEF t
  <2>5. F[t] = ReadLine(who, F[1..j], s[j + 1])
    BY ONLY TextIter(F, s, m, who), <2>2, <2>3, <2>4 DEF TextIter
  <2>6. G[t] = ReadLine(who, G[1..j], u[j + 1])
    BY ONLY TextIter(G, u, n, who), <2>2, <2>3, <2>4 DEF TextIter
  <2>7. F[1..j] = G[1..j] /\ s[j + 1] = u[j + 1]
    BY <2>1, <2>2
  <2> QED BY <2>5, <2>6, <2>7 DEF t
<1>3. D \in SUBSET Nat
  OBVIOUS
<1> HIDE DEF D
<1>4. D = Nat
  BY <1>1, <1>2, <1>3, Induction
<1> QED BY <1>4 DEF D

LEMMA TextFoldEmpty ==
  ASSUME NEW who
  PROVE  TextFold(who, <<>>) = TextStart(who)
<1>1. <<>> \in Seq({}) /\ Len(<<>>) = 0
  BY EmptySeq
<1>2. PICK F : TextIter(F, <<>>, 0, who) /\ TextFold(who, <<>>) = F[1..0]
  BY <1>1, TextFoldIs
<1>3. 1..0 = {} /\ {} \in SUBSET (1..0)
  OBVIOUS
<1> QED BY <1>2, <1>3 DEF TextIter

LEMMA TextFoldAppend ==
  ASSUME NEW L, NEW lines \in Seq(L), NEW l \in L, NEW who
  PROVE  TextFold(who, Append(lines, l)) = ReadLine(who, TextFold(who, lines), l)
<1> DEFINE q == Append(lines, l)
           n == Len(lines)
<1>1. q \in Seq(L) /\ Len(q) = n + 1 /\ n \in Nat /\ q[n + 1] = l /\ \A i \in 1..n : q[i] = lines[i]
  BY AppendProperties, LenProperties
<1> HIDE DEF q, n
<1>2. PICK F : TextIter(F, lines, n, who) /\ TextFold(who, lines) = F[1..n]
  BY TextFoldIs DEF n
<1>3. PICK G : TextIter(G, q, n + 1, who) /\ TextFold(who, q) = G[1..(n + 1)]
  BY <1>1, TextFoldIs
<1>4. F[1..n] = G[1..n]
  <2>1. n + 1 \in Nat /\ n <= n /\ n <= n + 1 /\ \A i \in 1..n : lines[i] = q[i]
    BY <1>1
  <2> QED BY ONLY <1>1, <1>2, <1>3, <2>1, TextIterAgree
<1> DEFINE t == 1..(n + 1)
<1>5. t \in SUBSET t /\ t # {} /\ n + 1 \in t /\ t \ {n + 1} = 1..n
  <2>1. n \in Nat
    BY <1>1
  <2> QED BY ONLY <2>1
<1>6. Max(t) = n + 1
  <2>1. Max(t) \in t /\ \A x \in t : x <= Max(t)
    <3>1. n + 1 \in Nat /\ t \in SUBSET (1..(n + 1)) /\ t # {}
      BY <1>1, <1>5
    <3> HIDE DEF t
    <3> QED BY ONLY <3>1, GreatestNatural
  <2>2. Max(t) \in 1..(n + 1) /\ n + 1 <= Max(t)
    BY <1>5, <2>1
  <2> QED BY <1>1, <2>2
<1>7. G[t] = ReadLine(who, G[1..n], q[n + 1])
  <2> HIDE DEF t
  <2>1. G = [w \in SUBSET t |-> IF w = {} THEN TextStart(who) ELSE ReadLine(who, G[w \ {Max(w)}], q[Max(w)])]
    BY <1>3 DEF TextIter, t
  <2> QED BY <1>5, <1>6, <2>1
<1> QED BY <1>1, <1>2, <1>3, <1>4, <1>7 DEF q

CorsFold(lines) == TextFold([cors |-> TRUE, url |-> None], lines)
SqlmapFold(lines, url) == TextFold([cors |-> FALSE, url |-> url], lines)

LEMMA CorsFoldEmpty == CorsFold(<<>>) = CorsStart
<1>1. CorsFold(<<>>) = TextStart([cors |-> TRUE, url |-> None])
  BY TextFoldEmpty DEF CorsFold
<1> QED BY <1>1 DEF TextStart

LEMMA CorsFoldAppend ==
  ASSUME NEW L, NEW lines \in Seq(L), NEW l \in L
  PROVE  CorsFold(Append(lines, l)) = CorsLine(CorsFold(lines), l)
<1>1. CorsFold(Append(lines, l)) = ReadLine([cors |-> TRUE, url |-> None], CorsFold(lines), l)
  BY TextFoldAppend DEF CorsFold
<1> QED BY <1>1 DEF ReadLine

LEMMA SqlmapFoldEmpty ==
  ASSUME NEW url
  PROVE  SqlmapFold(<<>>, url) = SqlmapStart
<1>1. SqlmapFold(<<>>, url) = TextStart([cors |-> FALSE, url |-> url])
  BY TextFoldEmpty DEF SqlmapFold
<1> QED BY <1>1 DEF TextStart

LEMMA SqlmapFoldAppend ==
  ASSUME NEW url, NEW L, NEW lines \in Seq(L), NEW l \in L
  PROVE  SqlmapFold(Append(lines, l), url) = SqlmapLine(SqlmapFold(lines, url), l, url)
<1>1. SqlmapFold(Append(lines, l), url) = ReadLine([cors |-> FALSE, url |-> url], SqlmapFold(lines, url), l)
  BY TextFoldAppend DEF SqlmapFold
<1> QED BY <1>1 DEF ReadLine

-------------------------------------------------------------------------------
CorsHosts ==
  [host : STRING, printed : 0..4, values : [1..4 -> STRING], long : BOOLEAN, status : STRING]

Keys == Range(CorsKeys)
KeyPlace(k) == SelectInSeq(CorsKeys, LAMBDA x : x = k)

LEMMA KeyPlaces ==
  /\ \A n \in 1..4 : CorsKeys[n] \in Keys /\ KeyPlace(CorsKeys[n]) = n
  /\ \A k \in Keys : KeyPlace(k) \in 1..4 /\ CorsKeys[KeyPlace(k)] = k
<1>1. /\ Len(CorsKeys) = 4 /\ DOMAIN CorsKeys = 1..4
      /\ \A m, n \in 1..4 : CorsKeys[m] = CorsKeys[n] => m = n
  BY DEF CorsKeys
<1>2. ASSUME NEW n \in 1..4 PROVE KeyPlace(CorsKeys[n]) = n
  <2> DEFINE I == {i \in 1..Len(CorsKeys) : CorsKeys[i] = CorsKeys[n]}
  <2>1. I = {n}
    BY <1>1
  <2>2. KeyPlace(CorsKeys[n]) = Min(I)
    BY <2>1 DEF KeyPlace, SelectInSeq
  <2> HIDE DEF I
  <2> QED BY <2>1, <2>2 DEF Min
<1>3. ASSUME NEW k \in Keys PROVE \E n \in 1..4 : k = CorsKeys[n]
  BY <1>1 DEF Keys, Range
<1>4. \A n \in 1..4 : CorsKeys[n] \in Keys
  BY <1>1 DEF Keys, Range
<1> QED BY <1>2, <1>3, <1>4

\* The first m fields a host printed, and all of them.
ToldUpTo(h, m) == [k \in Keys |-> IF KeyPlace(k) <= m THEN h.values[KeyPlace(k)] ELSE None]
CorsTold(h) == ToldUpTo(h, h.printed)

CorsField(h, k) == [kind |-> "field", key |-> CorsKeys[k], value |-> h.values[k]]
CorsSeparator == [kind |-> "separator"]
CorsStatus(h) == [kind |-> "status", host |-> h.host, status |-> h.status]
LongLine == [kind |-> "long"]

CorsLines ==
  {CorsSeparator} \cup {CorsField(h, k) : h \in CorsHosts, k \in 1..4} \cup {CorsStatus(h) : h \in CorsHosts}
CorsAllLines == CorsLines \cup {LongLine}

\* A host's lines, and those before one that is too long.
CorsHeardLines(h) == <<CorsSeparator>> \o [k \in 1..h.printed |-> CorsField(h, k)]
CorsStatusLines(h) == IF h.status = "none" THEN <<>> ELSE <<CorsStatus(h)>>
CorsHostLines(h) ==
  CorsHeardLines(h) \o (IF h.long THEN <<LongLine>> ELSE <<>>) \o CorsStatusLines(h)

LEMMA FieldSets ==
  ASSUME NEW h \in CorsHosts, NEW m \in 0..3, NEW o
  PROVE  CorsLine([pending |-> ToldUpTo(h, m), out |-> o], CorsField(h, m + 1))
           = [pending |-> ToldUpTo(h, m + 1), out |-> o]
<1> DEFINE key == CorsKeys[m + 1]
           v == h.values[m + 1]
           p == ToldUpTo(h, m)
<1>1. key \in Keys /\ KeyPlace(key) = m + 1
  BY KeyPlaces
<1>2. \A k \in Keys : KeyPlace(k) \in 1..4 /\ (KeyPlace(k) = m + 1 => k = key)
  BY KeyPlaces
<1>3. [p EXCEPT ![key] = v] = ToldUpTo(h, m + 1)
  <2> HIDE DEF key
  <2>1. p = [k \in Keys |-> p[k]] /\ \A k \in Keys : p[k] = IF KeyPlace(k) <= m THEN h.values[KeyPlace(k)] ELSE None
    BY DEF ToldUpTo
  <2> HIDE DEF p
  <2>2. [p EXCEPT ![key] = v] = [k \in Keys |-> IF k = key THEN v ELSE p[k]]
    BY <1>1, <2>1
  <2>3. ASSUME NEW k \in Keys
        PROVE  (IF k = key THEN v ELSE p[k]) = IF KeyPlace(k) <= m + 1 THEN h.values[KeyPlace(k)] ELSE None
    <3>1. CASE k = key
      BY <1>1, <3>1
    <3>2. CASE k # key
      <4>1. KeyPlace(k) \in 1..4 /\ KeyPlace(k) # m + 1
        BY <1>2, <3>2
      <4>2. KeyPlace(k) <= m <=> KeyPlace(k) <= m + 1
        BY <4>1
      <4> QED BY <2>1, <3>2, <4>2
    <3> QED BY <3>1, <3>2
  <2> QED BY <2>2, <2>3 DEF ToldUpTo
<1>4. CorsLine([pending |-> p, out |-> o], CorsField(h, m + 1)) = [pending |-> [p EXCEPT ![key] = v], out |-> o]
  <2> HIDE DEF p
  <2> QED BY DEF CorsLine, CorsField
<1> QED BY <1>3, <1>4

\* What a host's lines do to the state of the parser.
CorsHit(h) == h.status = "Vulnerable" /\ CorsTold(h) # Pending

LEMMA HostLinesFold ==
  ASSUME NEW x \in Seq(CorsLines), NEW h \in CorsHosts, NEW p, NEW o,
         CorsFold(x) = [pending |-> p, out |-> o]
  PROVE  /\ CorsHeardLines(h) \in Seq(CorsLines) /\ CorsStatusLines(h) \in Seq(CorsLines)
         /\ CorsFold(x \o CorsHeardLines(h)) = [pending |-> CorsTold(h), out |-> o]
         /\ \E q : CorsFold(x \o (CorsHeardLines(h) \o CorsStatusLines(h)))
                     = [pending |-> q, out |-> IF CorsHit(h) THEN Append(o, CorsFinding(h.host, CorsTold(h))) ELSE o]
<1> DEFINE f(m) == [k \in 1..m |-> CorsField(h, k)]
           y == Append(x, CorsSeparator)
           z(m) == y \o f(m)
<1>1. /\ CorsSeparator \in CorsLines /\ CorsStatus(h) \in CorsLines
      /\ \A k \in 1..4 : CorsField(h, k) \in CorsLines
  BY DEF CorsLines
<1>2. y \in Seq(CorsLines) /\ CorsFold(y) = [pending |-> Pending, out |-> o]
  <2>1. y \in Seq(CorsLines) /\ CorsFold(y) = CorsLine(CorsFold(x), CorsSeparator)
    BY <1>1, AppendProperties, CorsFoldAppend
  <2> QED BY <2>1 DEF CorsLine, CorsSeparator
<1> HIDE DEF y
<1>3. ASSUME NEW m \in 0..4 PROVE f(m) \in Seq(CorsLines) /\ Len(f(m)) = m
  <2>1. f(m) \in [1..m -> CorsLines]
    BY <1>1
  <2>2. f(m) = [k \in 1..m |-> f(m)[k]] /\ \A k \in 1..m : f(m)[k] \in CorsLines
    BY <2>1
  <2> HIDE DEF f
  <2> QED BY <2>1
<1>4. ASSUME NEW m \in 0..3 PROVE z(m + 1) = Append(z(m), CorsField(h, m + 1)) /\ z(m) \in Seq(CorsLines)
  <2>1. f(m + 1) = Append(f(m), CorsField(h, m + 1))
    <3>1. /\ Append(f(m), CorsField(h, m + 1)) \in [1..(m + 1) -> CorsLines]
          /\ Append(f(m), CorsField(h, m + 1))[m + 1] = CorsField(h, m + 1)
          /\ \A k \in 1..m : Append(f(m), CorsField(h, m + 1))[k] = f(m)[k]
      <4>1. f(m) \in Seq(CorsLines) /\ Len(f(m)) = m /\ CorsField(h, m + 1) \in CorsLines
        BY <1>1, <1>3
      <4> HIDE DEF f
      <4>2. LET a == Append(f(m), CorsField(h, m + 1))
            IN  a \in Seq(CorsLines) /\ Len(a) = m + 1 /\ a[m + 1] = CorsField(h, m + 1) /\ \A k \in 1..m : a[k] = f(m)[k]
        BY <4>1, AppendProperties
      <4> DEFINE a == Append(f(m), CorsField(h, m + 1))
      <4>3. a \in Seq(CorsLines) /\ Len(a) = m + 1
        BY <4>2
      <4>4. a \in [1..(m + 1) -> CorsLines]
        <5> HIDE DEF a
        <5> QED BY <4>3, LenProperties
      <4> QED BY <4>2, <4>4
    <3>2. \A k \in 1..(m + 1) : k = m + 1 \/ k \in 1..m
      OBVIOUS
    <3>3. f(m + 1) \in [1..(m + 1) -> CorsLines]
      BY <1>1
    <3>4. \A k \in 1..(m + 1) : Append(f(m), CorsField(h, m + 1))[k] = f(m + 1)[k]
      BY <3>1, <3>2
    <3> HIDE DEF f
    <3> QED BY <3>1, <3>3, <3>4
  <2>2. f(m) \in Seq(CorsLines)
    BY <1>3
  <2>3. CorsField(h, m + 1) \in CorsLines
    BY <1>1
  <2> HIDE DEF f
  <2>4. y \o Append(f(m), CorsField(h, m + 1)) = Append(y \o f(m), CorsField(h, m + 1))
    BY <1>2, <2>2, <2>3
  <2> QED BY <1>2, <2>1, <2>2, <2>4, ConcatProperties
<1>5. z(0) = y
  <2>1. f(0) = <<>>
    OBVIOUS
  <2> QED BY <1>2, <2>1
<1>6. \A m \in 0..4 : CorsFold(z(m)) = [pending |-> ToldUpTo(h, m), out |-> o]
  <2>1. ToldUpTo(h, 0) = Pending
    <3>1. \A k \in Keys : ~(KeyPlace(k) <= 0)
      BY KeyPlaces
    <3> QED BY <3>1 DEF ToldUpTo, Pending, Keys
  <2>2. CorsFold(z(0)) = [pending |-> ToldUpTo(h, 0), out |-> o]
    BY <1>2, <1>5, <2>1
  <2>3. ASSUME NEW m \in 0..3, CorsFold(z(m)) = [pending |-> ToldUpTo(h, m), out |-> o]
        PROVE  CorsFold(z(m + 1)) = [pending |-> ToldUpTo(h, m + 1), out |-> o]
    <3>1. CorsField(h, m + 1) \in CorsLines
      BY <1>1
    <3>2. z(m + 1) = Append(z(m), CorsField(h, m + 1)) /\ z(m) \in Seq(CorsLines)
      BY <1>4
    <3> HIDE DEF z
    <3>3. CorsFold(z(m + 1)) = CorsLine(CorsFold(z(m)), CorsField(h, m + 1))
      BY <3>1, <3>2, CorsFoldAppend
    <3> QED BY <2>3, <3>3, FieldSets
  <2> HIDE DEF z
  <2>4. CorsFold(z(1)) = [pending |-> ToldUpTo(h, 1), out |-> o]
    <3>1. 0 \in 0..3 /\ 0 + 1 = 1
      OBVIOUS
    <3> QED BY <2>2, <2>3, <3>1
  <2>5. CorsFold(z(2)) = [pending |-> ToldUpTo(h, 2), out |-> o]
    <3>1. 1 \in 0..3 /\ 1 + 1 = 2
      OBVIOUS
    <3> QED BY <2>3, <2>4, <3>1
  <2>6. CorsFold(z(3)) = [pending |-> ToldUpTo(h, 3), out |-> o]
    <3>1. 2 \in 0..3 /\ 2 + 1 = 3
      OBVIOUS
    <3> QED BY <2>3, <2>5, <3>1
  <2>7. CorsFold(z(4)) = [pending |-> ToldUpTo(h, 4), out |-> o]
    <3>1. 3 \in 0..3 /\ 3 + 1 = 4
      OBVIOUS
    <3> QED BY <2>3, <2>6, <3>1
  <2>8. \A m \in 0..4 : m = 0 \/ m = 1 \/ m = 2 \/ m = 3 \/ m = 4
    OBVIOUS
  <2> QED BY <2>2, <2>4, <2>5, <2>6, <2>7, <2>8
<1> DEFINE n == h.printed
           e == CorsStatusLines(h)
           b == CorsHeardLines(h)
<1>7. n \in 0..4
  BY DEF CorsHosts
<1>8. /\ b = <<CorsSeparator>> \o f(n)
      /\ f(n) \in Seq(CorsLines) /\ e \in Seq(CorsLines) /\ <<CorsSeparator>> \in Seq(CorsLines)
  <2>1. b = <<CorsSeparator>> \o f(n)
    BY DEF CorsHeardLines
  <2>2. e \in Seq(CorsLines) /\ <<CorsSeparator>> \in Seq(CorsLines)
    BY <1>1, OneOrNone DEF CorsStatusLines
  <2> QED BY <1>3, <1>7, <2>1, <2>2
<1> HIDE DEF e, b
<1>9. z(n) \in Seq(CorsLines) /\ b \in Seq(CorsLines) /\ x \o b = z(n) /\ x \o (b \o e) = z(n) \o e
  <2> HIDE DEF f
  <2>1. y = x \o <<CorsSeparator>>
    BY <1>1, AppendIsConcat DEF y
  <2>2. x \o (<<CorsSeparator>> \o f(n)) = (x \o <<CorsSeparator>>) \o f(n)
    BY <1>8
  <2>3. b \in Seq(CorsLines)
    BY <1>8, ConcatProperties
  <2>4. x \o (b \o e) = (x \o b) \o e
    BY <1>8, <2>3
  <2> QED BY <1>2, <1>8, <2>1, <2>2, <2>3, <2>4, ConcatProperties
<1>10. CorsFold(z(n)) = [pending |-> CorsTold(h), out |-> o]
  BY <1>6, <1>7 DEF CorsTold
<1>11. /\ CorsHeardLines(h) \in Seq(CorsLines) /\ CorsStatusLines(h) \in Seq(CorsLines)
       /\ CorsFold(x \o CorsHeardLines(h)) = [pending |-> CorsTold(h), out |-> o]
       /\ x \o (CorsHeardLines(h) \o CorsStatusLines(h)) = z(n) \o e
  BY <1>8, <1>9, <1>10 DEF b, e
<1> HIDE DEF z
<1>12. CASE h.status = "none"
  <2>1. z(n) \o e = z(n)
    BY <1>9, <1>12 DEF e, CorsStatusLines
  <2> QED BY <1>9, <1>10, <1>11, <1>12, <2>1 DEF CorsHit
<1>13. CASE h.status # "none"
  <2>1. z(n) \o e = Append(z(n), CorsStatus(h))
    BY <1>1, <1>9, <1>13, AppendIsConcat DEF e, CorsStatusLines
  <2>2. CorsFold(x \o (CorsHeardLines(h) \o CorsStatusLines(h))) = CorsLine([pending |-> CorsTold(h), out |-> o], CorsStatus(h))
    BY <1>1, <1>9, <1>10, <1>11, <2>1, CorsFoldAppend
  <2>3. CASE CorsHit(h)
    <3>1. CorsLine([pending |-> CorsTold(h), out |-> o], CorsStatus(h))
            = [pending |-> Pending, out |-> Append(o, CorsFinding(h.host, CorsTold(h)))]
      BY <2>3 DEF CorsLine, CorsStatus, CorsHit
    <3> QED BY <1>11, <2>2, <2>3, <3>1
  <2>4. CASE ~CorsHit(h)
    <3>1. \E q : CorsLine([pending |-> CorsTold(h), out |-> o], CorsStatus(h)) = [pending |-> q, out |-> o]
      BY <2>4 DEF CorsLine, CorsStatus, CorsHit
    <3> QED BY <1>11, <2>2, <2>4, <3>1
  <2> QED BY <2>3, <2>4
<1> QED BY <1>12, <1>13

-------------------------------------------------------------------------------
CorsHits(hosts) == Select(hosts, CorsHit)
CorsFindings(v) == [i \in DOMAIN v |-> CorsFinding(v[i].host, CorsTold(v[i]))]

LEMMA CorsHitsAppend ==
  ASSUME NEW hosts \in Seq(CorsHosts), NEW h \in CorsHosts
  PROVE  /\ CorsHits(hosts) \in Seq(CorsHosts)
         /\ CorsHits(Append(hosts, h)) = CorsHits(hosts) \o (IF CorsHit(h) THEN <<h>> ELSE <<>>)
<1> DEFINE One(x) == IF CorsHit(x) THEN <<x>> ELSE <<>>
           g == [x \in CorsHosts |-> One(x)]
<1>1. g \in [CorsHosts -> Seq(CorsHosts)]
  <2>1. \A x \in CorsHosts : One(x) \in Seq(CorsHosts)
    BY OneOrNone
  <2> QED BY <2>1
<1>2. ASSUME NEW q \in Seq(CorsHosts) PROVE CorsHits(q) = FlattenSeq(Mapped(g, q))
  <2>1. \A i \in DOMAIN q : q[i] \in CorsHosts
    OBVIOUS
  <2>2. Mapped(g, q) = [i \in DOMAIN q |-> One(q[i])]
    BY <2>1 DEF Mapped
  <2> QED BY <2>2 DEF CorsHits, Select, Each
<1>3. Append(hosts, h) \in Seq(CorsHosts) /\ g[h] = One(h)
  BY AppendProperties
<1> HIDE DEF g
<1>4. /\ FlattenSeq(Mapped(g, hosts)) \in Seq(CorsHosts)
      /\ FlattenSeq(Mapped(g, Append(hosts, h))) = FlattenSeq(Mapped(g, hosts)) \o g[h]
  BY ONLY <1>1, MappedFit, MappedAppend, hosts \in Seq(CorsHosts), h \in CorsHosts
<1> QED BY <1>2, <1>3, <1>4

LEMMA CorsFindingsGrow ==
  ASSUME NEW q \in Seq(CorsHosts), NEW h \in CorsHosts
  PROVE  CorsFindings(CorsHits(Append(q, h)))
           = IF CorsHit(h) THEN Append(CorsFindings(CorsHits(q)), CorsFinding(h.host, CorsTold(h)))
             ELSE CorsFindings(CorsHits(q))
<1> DEFINE v == CorsHits(q)
           o == CorsFindings(v)
<1>1. v \in Seq(CorsHosts) /\ CorsHits(Append(q, h)) = v \o (IF CorsHit(h) THEN <<h>> ELSE <<>>)
  BY CorsHitsAppend
<1> HIDE DEF v
<1>2. CorsFindings(Append(v, h)) = Append(o, CorsFinding(h.host, CorsTold(h)))
  <2> DEFINE g == [x \in CorsHosts |-> CorsFinding(x.host, CorsTold(x))]
  <2>1. ASSUME NEW u \in Seq(CorsHosts) PROVE CorsFindings(u) = Mapped(g, u)
    <3>1. \A i \in DOMAIN u : u[i] \in CorsHosts
      OBVIOUS
    <3> QED BY <3>1 DEF CorsFindings, Mapped
  <2>2. Append(v, h) \in Seq(CorsHosts) /\ g[h] = CorsFinding(h.host, CorsTold(h))
    BY <1>1, AppendProperties
  <2> HIDE DEF g
  <2>3. Mapped(g, Append(v, h)) = Append(Mapped(g, v), g[h])
    BY <1>1, MappedGrow
  <2> QED BY <1>1, <2>1, <2>2, <2>3
<1>3. CASE CorsHit(h)
  <2>1. CorsHits(Append(q, h)) = Append(v, h)
    BY <1>1, <1>3, AppendIsConcat
  <2> QED BY <1>2, <1>3, <2>1 DEF v
<1>4. CASE ~CorsHit(h)
  <2>1. CorsHits(Append(q, h)) = v
    BY <1>1, <1>4
  <2> QED BY <1>4, <2>1 DEF v
<1> QED BY <1>3, <1>4

LEMMA CorsOutputIs ==
  ASSUME NEW hosts
  PROVE  CorsOutput(hosts) = FlattenSeq([i \in DOMAIN hosts |-> CorsHostLines(hosts[i])])
BY DEF CorsOutput, Each, CorsHostLines, CorsHeardLines, CorsStatusLines, CorsField, CorsStatus, CorsSeparator,
       LongLine

LEMMA CorsOutputAppend ==
  ASSUME NEW hosts \in Seq(CorsHosts), NEW h \in CorsHosts,
         \A x \in CorsHosts : CorsHostLines(x) \in Seq(CorsAllLines)
  PROVE  /\ CorsOutput(hosts) \in Seq(CorsAllLines)
         /\ CorsOutput(Append(hosts, h)) = CorsOutput(hosts) \o CorsHostLines(h)
<1> DEFINE g == [x \in CorsHosts |-> CorsHostLines(x)]
<1>1. g \in [CorsHosts -> Seq(CorsAllLines)]
  OBVIOUS
<1>2. ASSUME NEW q \in Seq(CorsHosts) PROVE CorsOutput(q) = FlattenSeq(Mapped(g, q))
  <2>1. \A i \in DOMAIN q : q[i] \in CorsHosts
    OBVIOUS
  <2>2. Mapped(g, q) = [i \in DOMAIN q |-> CorsHostLines(q[i])]
    BY <2>1 DEF Mapped
  <2> QED BY <2>2, CorsOutputIs
<1>3. Append(hosts, h) \in Seq(CorsHosts) /\ g[h] = CorsHostLines(h)
  BY AppendProperties
<1> HIDE DEF g
<1>4. /\ FlattenSeq(Mapped(g, hosts)) \in Seq(CorsAllLines)
      /\ FlattenSeq(Mapped(g, Append(hosts, h))) = FlattenSeq(Mapped(g, hosts)) \o g[h]
  BY ONLY <1>1, MappedFit, MappedAppend, hosts \in Seq(CorsHosts), h \in CorsHosts
<1> QED BY <1>2, <1>3, <1>4

\* What is read of a host's lines.
LEMMA ShortLines ==
  ASSUME NEW x \in Seq(CorsLines)
  PROVE  Longs(x) = {} /\ Scanned(x) = x /\ x \in Seq(CorsAllLines)
<1>1. \A l \in CorsLines : l.kind # "long"
  BY DEF CorsLines, CorsSeparator, CorsField, CorsStatus
<1>2. Longs(x) = {}
  BY <1>1 DEF Longs
<1>3. Scanned(x) = x
  BY <1>2, ScannedIs DEF Cut
<1> QED BY <1>2, <1>3 DEF CorsAllLines

LEMMA HostLinesScanned ==
  ASSUME NEW h \in CorsHosts
  PROVE  /\ CorsHostLines(h) \in Seq(CorsAllLines)
         /\ Longs(CorsHostLines(h)) = {} <=> ~h.long
         /\ Scanned(CorsHostLines(h))
              = IF h.long THEN CorsHeardLines(h) ELSE CorsHeardLines(h) \o CorsStatusLines(h)
         /\ Scanned(CorsHostLines(h)) \in Seq(CorsLines)
<1> DEFINE b == CorsHeardLines(h)
           e == CorsStatusLines(h)
           L == CorsHostLines(h)
<1>1. b \in Seq(CorsLines) /\ e \in Seq(CorsLines)
  BY EmptySeq, HostLinesFold, CorsFoldEmpty DEF CorsStart
<1>2. b \in Seq(CorsAllLines) /\ e \in Seq(CorsAllLines) /\ Longs(b) = {}
  BY <1>1, ShortLines
<1>3. LongLine \in CorsAllLines /\ <<LongLine>> \in Seq(CorsAllLines)
  BY OneOrNone DEF CorsAllLines
<1>4. Longs(<<LongLine>>) = {1}
  BY DEF Longs, LongLine
<1>5. Scanned(<<LongLine>>) = <<>>
  <2>1. Min({1}) = 1
    BY DEF Min
  <2>2. Scanned(<<LongLine>>) = Cut(<<LongLine>>, {1})
    BY ONLY <1>3, <1>4, ScannedIs
  <2>3. Cut(<<LongLine>>, {1}) = SubSeq(<<LongLine>>, 1, 0)
    <3>1. {1} # {} /\ Min({1}) - 1 = 0
      BY <2>1
    <3> QED BY ONLY <3>1 DEF Cut
  <2>4. SubSeq(<<LongLine>>, 1, 0) = <<>>
    BY <1>3
  <2> QED BY <2>2, <2>3, <2>4
<1>6. CASE h.long
  <2>1. L = (b \o <<LongLine>>) \o e
    BY <1>6 DEF CorsHostLines
  <2> HIDE DEF b, e, L
  <2>2. /\ b \o <<LongLine>> \in Seq(CorsAllLines) /\ L \in Seq(CorsAllLines)
    BY <1>2, <1>3, <2>1, ConcatProperties
  <2>3. /\ Longs(b \o <<LongLine>>) # {}
        /\ Scanned(b \o <<LongLine>>) = b \o Scanned(<<LongLine>>)
    BY <1>2, <1>3, <1>4, ScannedConcat
  <2>4. Scanned(L) = Scanned(b \o <<LongLine>>) /\ Longs(L) # {}
    BY <1>2, <2>1, <2>2, <2>3, ScannedConcat
  <2>5. b \o <<>> = b
    BY <1>1
  <2> QED BY <1>1, <1>5, <1>6, <2>2, <2>3, <2>4, <2>5 DEF b, e, L
<1>7. CASE ~h.long
  <2>1. L = (b \o <<>>) \o e
    BY <1>7 DEF CorsHostLines
  <2> HIDE DEF b, e, L
  <2>2. L = b \o e /\ L \in Seq(CorsLines)
    BY <1>1, <2>1, ConcatProperties
  <2> QED BY <1>7, <2>2, ShortLines DEF b, e, L
<1> QED BY <1>6, <1>7

-------------------------------------------------------------------------------
\* The hosts before the first with a line that is too long.
LongHosts(hosts) == {i \in 1..Len(hosts) : hosts[i].long}
Heard(hosts) == Cut(hosts, LongHosts(hosts))

LEMMA HeardIs ==
  ASSUME NEW hosts \in Seq(CorsHosts)
  PROVE  LET cut == SelectInSeq(hosts, LAMBDA h : h.long)
         IN  Heard(hosts) = IF cut = 0 THEN hosts ELSE SubSeq(hosts, 1, cut - 1)
<1> DEFINE I == LongHosts(hosts)
<1>1. SelectInSeq(hosts, LAMBDA h : h.long) = IF I # {} THEN Min(I) ELSE 0
  BY DEF SelectInSeq, LongHosts
<1>2. Len(hosts) \in Nat /\ I \in SUBSET Nat /\ 0 \notin I
  BY LenProperties DEF LongHosts
<1> HIDE DEF I
<1>3. I # {} => Min(I) # 0
  <2> SUFFICES ASSUME I # {} PROVE Min(I) # 0
    OBVIOUS
  <2>1. PICK n \in I : \A i \in I : n <= i
    BY <1>2, LeastNatural
  <2>2. Min(I) = n
    BY <1>2, <2>1, LeastIs
  <2> QED BY <1>2, <2>2
<1> QED BY <1>1, <1>3 DEF Heard, Cut, I

LEMMA HeardAppend ==
  ASSUME NEW q \in Seq(CorsHosts), NEW h \in CorsHosts
  PROVE  /\ LongHosts(Append(q, h)) = {} <=> LongHosts(q) = {} /\ ~h.long
         /\ LongHosts(q) # {} => Heard(Append(q, h)) = Heard(q)
         /\ LongHosts(q) = {} => Heard(q) = q /\ Heard(Append(q, h)) = IF h.long THEN q ELSE Append(q, h)
<1> DEFINE n == Len(q)
           r == Append(q, h)
<1>1. n \in Nat /\ r \in Seq(CorsHosts) /\ Len(r) = n + 1 /\ r[n + 1] = h /\ \A i \in 1..n : r[i] = q[i]
  BY AppendProperties, LenProperties
<1>2. r = q \o <<h>> /\ <<h>> \in Seq(CorsHosts) /\ Len(<<h>>) = 1
  BY AppendIsConcat, OneOrNone
<1> HIDE DEF r
<1>3. LongHosts(q) = LongHosts(r) \cap (1..n)
  <2>1. ASSUME NEW i \in 1..n PROVE i \in 1..(n + 1) /\ r[i] = q[i]
    BY <1>1
  <2> QED BY <1>1, <2>1 DEF LongHosts
<1> DEFINE K == {k \in 1..Len(<<h>>) : n + k \in LongHosts(r)}
<1>4. K = IF h.long THEN {1} ELSE {}
  <2>1. 1..Len(<<h>>) = {1} /\ n + 1 \in 1..(n + 1)
    BY <1>1
  <2> QED BY <1>1, <2>1 DEF LongHosts
<1>5. LongHosts(r) = {} <=> LongHosts(q) = {} /\ ~h.long
  <2>1. ASSUME NEW i \in LongHosts(r) PROVE i \in 1..n \/ i = n + 1
    <3>1. i \in 1..(n + 1)
      BY <1>1 DEF LongHosts
    <3> QED BY <1>1, <3>1
  <2>2. n + 1 \in LongHosts(r) <=> h.long
    BY <1>1 DEF LongHosts
  <2> QED BY <1>3, <2>1, <2>2
<1>6. Cut(q \o <<h>>, LongHosts(r)) = IF LongHosts(q) # {} THEN Cut(q, LongHosts(q)) ELSE q \o Cut(<<h>>, K)
  <2>1. LongHosts(r) \in SUBSET (1..Len(q \o <<h>>))
    BY <1>2 DEF LongHosts
  <2>2. Places(q, <<h>>, LongHosts(r), LongHosts(q), K)
    BY <1>3, <2>1 DEF Places
  <2> HIDE DEF K
  <2> DEFINE o == <<h>>
  <2>3. o \in Seq(CorsHosts) /\ Places(q, o, LongHosts(r), LongHosts(q), K)
    BY <1>2, <2>2
  <2> HIDE DEF o
  <2>4. Cut(q \o o, LongHosts(r)) = IF LongHosts(q) # {} THEN Cut(q, LongHosts(q)) ELSE q \o Cut(o, K)
    BY ONLY <2>3, CutConcat, q \in Seq(CorsHosts)
  <2> QED BY <2>4 DEF o
<1>7. Cut(<<h>>, K) = IF h.long THEN <<>> ELSE <<h>>
  <2>1. Min({1}) = 1
    BY DEF Min
  <2>2. SubSeq(<<h>>, 1, 0) = <<>>
    BY <1>2
  <2> HIDE DEF K
  <2>3. CASE h.long
    <3>1. K = {1} /\ {1} # {} /\ Min({1}) - 1 = 0
      BY <1>4, <2>1, <2>3
    <3> QED BY <2>2, <2>3, <3>1 DEF Cut
  <2>4. CASE ~h.long
    BY <1>4, <2>4 DEF Cut
  <2> QED BY <2>3, <2>4
<1>8. q \o <<>> = q
  OBVIOUS
<1> HIDE DEF K
<1>9. Heard(r) = IF LongHosts(q) # {} THEN Heard(q) ELSE IF h.long THEN q ELSE r
  BY <1>2, <1>6, <1>7, <1>8 DEF Heard
<1>10. LongHosts(q) = {} => Heard(q) = q
  BY DEF Heard, Cut
<1> QED BY <1>5, <1>9, <1>10 DEF r

\* Whatever the hosts before did, the parser has one finding for each host hit
\* among those it hears of.
LEMMA CorsParses ==
  ASSUME NEW hosts \in Seq(CorsHosts)
  PROVE  CorsFold(Scanned(CorsOutput(hosts))).out = CorsFindings(CorsHits(Heard(hosts)))
<1> DEFINE Ok(q) == /\ \E p : CorsFold(Scanned(CorsOutput(q))) = [pending |-> p, out |-> CorsFindings(CorsHits(Heard(q)))]
                    /\ Scanned(CorsOutput(q)) \in Seq(CorsLines)
                    /\ Longs(CorsOutput(q)) = {} <=> LongHosts(q) = {}
           T == {q \in Seq(CorsHosts) : Ok(q)}
<1>1. <<>> \in T
  <2>1. CorsOutput(<<>>) = <<>> /\ CorsHits(<<>>) = <<>>
    <3>1. [i \in DOMAIN <<>> |-> CorsHostLines(<<>>[i])] = <<>>
      OBVIOUS
    <3>2. [i \in DOMAIN <<>> |-> IF CorsHit(<<>>[i]) THEN <<(<<>>[i])>> ELSE <<>>] = <<>>
      OBVIOUS
    <3>3. CorsHits(<<>>) = FlattenSeq([i \in DOMAIN <<>> |-> IF CorsHit(<<>>[i]) THEN <<(<<>>[i])>> ELSE <<>>])
      BY DEF CorsHits, Select, Each
    <3> QED BY <3>1, <3>2, <3>3, CorsOutputIs, FlattenEmpty
  <2>2. CorsFindings(<<>>) = <<>>
    BY DEF CorsFindings
  <2>3. <<>> \in Seq(CorsLines) /\ <<>> \in Seq(CorsHosts)
    BY EmptySeq
  <2>4. LongHosts(<<>>) = {} /\ Heard(<<>>) = <<>>
    BY DEF LongHosts, Heard, Cut
  <2>5. Scanned(<<>>) = <<>> /\ Longs(<<>>) = {}
    BY <2>3, ShortLines
  <2> QED BY <2>1, <2>2, <2>3, <2>4, <2>5, CorsFoldEmpty DEF CorsStart
<1>2. ASSUME NEW q \in T, NEW h \in CorsHosts PROVE Append(q, h) \in T
  <2>1. PICK p : CorsFold(Scanned(CorsOutput(q))) = [pending |-> p, out |-> CorsFindings(CorsHits(Heard(q)))]
    OBVIOUS
  <2>2. q \in Seq(CorsHosts) /\ Append(q, h) \in Seq(CorsHosts)
    BY AppendProperties
  <2>3. Scanned(CorsOutput(q)) \in Seq(CorsLines) /\ (Longs(CorsOutput(q)) = {} <=> LongHosts(q) = {})
    OBVIOUS
  <2> DEFINE x == CorsOutput(q)
             l == CorsHostLines(h)
             z == CorsOutput(Append(q, h))
  <2>4. x \in Seq(CorsAllLines) /\ l \in Seq(CorsAllLines) /\ z = x \o l
    BY <2>2, HostLinesScanned, CorsOutputAppend
  <2> HIDE DEF x, z
  <2>5. Scanned(z) = (IF Longs(x) # {} THEN Scanned(x) ELSE x \o Scanned(l))
    BY <2>4, ScannedConcat
  <2>6. Longs(z) = {} <=> LongHosts(Append(q, h)) = {}
    <3>1. Longs(z) = {} <=> Longs(x) = {} /\ Longs(l) = {}
      BY <2>4, ScannedConcat
    <3> QED BY <2>2, <2>3, <3>1, HostLinesScanned, HeardAppend DEF x
  <2>7. CASE LongHosts(q) # {}
    <3>1. Scanned(z) = Scanned(x) /\ Heard(Append(q, h)) = Heard(q)
      BY <2>2, <2>3, <2>5, <2>7, HeardAppend DEF x
    <3> QED BY <2>1, <2>2, <2>3, <2>6, <3>1 DEF x, z
  <2>8. CASE LongHosts(q) = {}
    <3> DEFINE v == CorsHits(q)
               o == CorsFindings(v)
    <3>1. Longs(x) = {} /\ Scanned(x) = x /\ x \in Seq(CorsLines)
      BY <2>3, <2>4, <2>8, ScannedIs DEF Cut, x
    <3>2. Heard(q) = q /\ Heard(Append(q, h)) = IF h.long THEN q ELSE Append(q, h)
      BY <2>2, <2>8, HeardAppend
    <3>3. CorsFold(x) = [pending |-> p, out |-> o]
      BY <2>1, <3>1, <3>2 DEF x
    <3>4. Scanned(z) = x \o Scanned(l) /\ Scanned(z) \in Seq(CorsLines)
      BY <2>5, <3>1, HostLinesScanned, ConcatProperties
    <3>5. CASE h.long
      <4>1. Scanned(z) = x \o CorsHeardLines(h)
        BY <3>4, <3>5, HostLinesScanned
      <4>2. CorsFold(Scanned(z)) = [pending |-> CorsTold(h), out |-> o]
        BY <3>1, <3>3, <4>1, HostLinesFold
      <4> QED BY <2>2, <2>6, <3>2, <3>4, <3>5, <4>2 DEF z
    <3>6. CASE ~h.long
      <4>1. Scanned(z) = x \o (CorsHeardLines(h) \o CorsStatusLines(h))
        BY <3>4, <3>6, HostLinesScanned
      <4>2. PICK t : CorsFold(Scanned(z))
                   = [pending |-> t, out |-> IF CorsHit(h) THEN Append(o, CorsFinding(h.host, CorsTold(h))) ELSE o]
        BY <3>1, <3>3, <4>1, HostLinesFold
      <4>3. CorsFindings(CorsHits(Append(q, h)))
              = IF CorsHit(h) THEN Append(o, CorsFinding(h.host, CorsTold(h))) ELSE o
        BY <2>2, CorsFindingsGrow
      <4> HIDE DEF o
      <4> QED BY <2>2, <2>6, <3>2, <3>4, <3>6, <4>2, <4>3 DEF z
    <3> QED BY <3>5, <3>6
  <2> QED BY <2>7, <2>8
<1>3. T \in SUBSET Seq(CorsHosts)
  OBVIOUS
<1>4. T = Seq(CorsHosts)
  <2> HIDE DEF T
  <2> QED BY <1>1, <1>2, <1>3, SequenceInduction
<1>5. Ok(hosts)
  BY <1>4
<1> QED BY <1>5

-------------------------------------------------------------------------------
(***************************************************************************)
(* The answer of the two tools that only print text, from the parse to the *)
(* end of the run.                                                         *)
(***************************************************************************)
LineTools == {"corstest", "sqlmap"}

Lined ==
  tool \in LineTools =>
    \/ phase \in {"asked", "raw"}
    \/ phase = "enrich" /\ findings = ParseOutput.findings
    \/ phase = "done" /\ findings = Stamped(ParseOutput.findings)

LEMMA LineFailuresMakeNone ==
  ASSUME tool \in LineTools, ParseOutput.outcome # "ok"
  PROVE  ParseOutput.findings = <<>>
<1>1. CASE tool = "corstest"
  <2>1. ParseOutput = CorsParse(CorsOutput(report.hosts))
    BY <1>1 DEF ParseOutput
  <2>2. ParseOutput.outcome = "ok"
    BY <2>1 DEF CorsParse, Parsed
  <2> QED BY <2>2
<1>2. CASE tool = "sqlmap"
  <2>1. ParseOutput = ParseSQLMapOutput(IF report.silent THEN <<>> ELSE SqlmapOutput(report))
    BY <1>2 DEF ParseOutput
  <2>2. ASSUME NEW r, NEW u, SplitFindingsRegion(r, u).outcome # "ok" PROVE SplitFindingsRegion(r, u).findings = <<>>
    BY <2>2 DEF SplitFindingsRegion, Parsed, Panicked
  <2>3. ASSUME NEW out, ParseSQLMapOutput(out).outcome # "ok" PROVE ParseSQLMapOutput(out).findings = <<>>
    BY <2>2, <2>3 DEF ParseSQLMapOutput, Parsed, Failed
  <2> QED BY <2>1, <2>3
<1> QED BY <1>1, <1>2 DEF LineTools

LEMMA LinedStays ==
  ASSUME Lined, Answered, [Next]_vars
  PROVE  Lined'
<1> SUFFICES ASSUME tool \in LineTools
             PROVE  (\/ phase \in {"asked", "raw"}
                     \/ phase = "enrich" /\ findings = ParseOutput.findings
                     \/ phase = "done" /\ findings = Stamped(ParseOutput.findings))'
  BY ReportStays DEF Lined
<1>1. /\ \/ phase \in {"asked", "raw"}
         \/ phase = "enrich" /\ findings = ParseOutput.findings
         \/ phase = "done" /\ findings = Stamped(ParseOutput.findings)
      /\ phase # "verify" /\ tool # "nmap" /\ tool # "nikto"
  BY DEF Lined, Answered, LineTools
<1>2. tool' = tool /\ report' = report /\ ParseOutput' = ParseOutput
  BY ReportStays DEF ParseOutput
<1>3. Stamped(ParseOutput.findings)' = Stamped(ParseOutput.findings)
  BY <1>2 DEF Stamped
<1>4. CASE UNCHANGED <<phase, findings>>
  BY <1>1, <1>2, <1>3, <1>4
<1>5. CASE AskNmap \/ AskOther
  BY <1>1, <1>5 DEF AskNmap, AskOther
<1>6. CASE Parse
  <2>1. outcome' = ParseOutput.outcome /\ findings' = ParseOutput.findings
    BY <1>6 DEF Parse
  <2>2. CASE outcome' # "ok"
    <3>1. phase' = "done"
      BY <1>6, <2>2 DEF Parse
    <3>2. ParseOutput.findings = <<>>
      BY <2>1, <2>2, LineFailuresMakeNone
    <3>3. Stamped(<<>>) = <<>>
      BY DEF Stamped
    <3> QED BY <1>3, <2>1, <3>1, <3>2, <3>3
  <2>3. CASE outcome' = "ok"
    <3>1. phase' = "enrich"
      BY <1>1, <1>6, <2>3 DEF Parse
    <3> QED BY <1>2, <2>1, <3>1
  <2> QED BY <2>2, <2>3
<1>7. CASE EndVerify
  BY <1>1, <1>7 DEF EndVerify
<1>8. CASE Enrich
  <2>1. phase = "enrich" /\ phase' = "done" /\ findings' = Stamped(findings)
    BY <1>8 DEF Enrich, Stamped
  <2> QED BY <1>1, <1>3, <2>1
<1> QED BY <1>4, <1>5, <1>6, <1>7, <1>8 DEF Next, BeginVerify, Verify, vars, runVars

LEMMA AlwaysLined == Spec => [](Lined /\ Reported)
<1>1. Init => Lined
  BY DEF Init, Lined
<1>2. Lined /\ Answered /\ [Next]_vars => Lined'
  BY LinedStays
<1> QED BY <1>1, <1>2, AlwaysAnswered, PTL DEF Spec

\* corstest: one finding, in order, for every host it calls vulnerable after
\* telling anything of it, with that host's own fields, however many hosts the
\* output tells of before its first over-long line, and whatever became of
\* those before it.
THEOREM CorsReadsExactly == Spec => []CorsExact
<1>1. Lined /\ Reported => CorsExact
  <2> SUFFICES ASSUME Lined, Reported, tool = "corstest", phase = "done"
               PROVE  LET v == CorsHits(Heard(report.hosts))
                      IN  [i \in DOMAIN findings |-> findings[i].from]
                            = [i \in DOMAIN v |-> [host |-> v[i].host, fields |-> CorsTold(v[i])]]
    <3>1. tool = "corstest" /\ Reported => report.hosts \in Seq(CorsHosts)
      BY DEF Reported, ReportsOf, CorsReports, CorsHosts
    <3> QED BY <3>1, HeardIs DEF CorsExact, CorsHits, CorsHit, CorsTold, ToldUpTo, Keys, KeyPlace
  <2> DEFINE v == CorsHits(Heard(report.hosts))
             p == ParseOutput.findings
  <2>1. report.hosts \in Seq(CorsHosts)
    BY DEF Reported, ReportsOf, CorsReports, CorsHosts
  <2>2. p = CorsFindings(v)
    <3>1. p = CorsFold(Scanned(CorsOutput(report.hosts))).out
      BY DEF ParseOutput, CorsParse, Parsed, CorsFold, TextFold, CorsStart
    <3> QED BY <2>1, <3>1, CorsParses
  <2>3. findings = Stamped(p)
    BY DEF Lined, LineTools
  <2> HIDE DEF v, p
  <2>4. DOMAIN findings = DOMAIN v /\ DOMAIN p = DOMAIN v
    BY <2>2, <2>3 DEF Stamped, CorsFindings
  <2>5. ASSUME NEW i \in DOMAIN v PROVE findings[i].from = [host |-> v[i].host, fields |-> CorsTold(v[i])]
    <3>1. p[i] = CorsFinding(v[i].host, CorsTold(v[i]))
      BY <2>2 DEF CorsFindings
    <3> DEFINE c == ComputeFingerprint(tool, p[i])
    <3>2. findings[i] = [p[i] EXCEPT !.fingerprint = c]
      BY <2>3, <2>4 DEF Stamped
    <3> HIDE DEF c
    <3>3. p[i].from = [host |-> v[i].host, fields |-> CorsTold(v[i])] /\ "from" \in DOMAIN p[i]
      BY <3>1 DEF CorsFinding, RawFinding
    <3>4. findings[i].from = p[i].from
      BY <3>2, <3>3
    <3> QED BY <3>3, <3>4
  <2> QED BY <2>4, <2>5 DEF v
<1> QED BY <1>1, AlwaysLined, PTL

-------------------------------------------------------------------------------
(***************************************************************************)
(* sqlmap.  The lines it prints, and what dropping the log lines does.     *)
(***************************************************************************)
SqlmapValue == STRING \cup {None, "u"}
SqlmapText(kind, value) == [kind |-> kind, value |-> value]
InnerLines == [kind : {"Parameter", "Type", "Title", "Payload"}, value : SqlmapValue]
LogLine == SqlmapText("log", None)
BlockLines == InnerLines \cup {LogLine}
SqlmapLines ==
  BlockLines \cup [kind : {"request", "header", "delimiter", "DBMS"}, value : SqlmapValue]

StripOne(x) == IF x.kind # "log" THEN <<x>> ELSE <<>>

LEMMA StripIs ==
  ASSUME NEW A, NEW lines \in Seq(A)
  PROVE  StripLogPrefixes(lines) = FlattenSeq(Mapped([x \in A |-> StripOne(x)], lines))
<1>1. \A i \in DOMAIN lines : lines[i] \in A
  OBVIOUS
<1>2. Mapped([x \in A |-> StripOne(x)], lines) = [i \in DOMAIN lines |-> StripOne(lines[i])]
  BY <1>1 DEF Mapped
<1> QED BY <1>2 DEF StripLogPrefixes, Select, Each, StripOne

LEMMA StripEmpty == StripLogPrefixes(<<>>) = <<>>
<1>1. <<>> \in Seq({})
  BY EmptySeq
<1> QED BY <1>1, StripIs, MappedEmpty

LEMMA StripAppend ==
  ASSUME NEW lines \in Seq(SqlmapLines), NEW x \in SqlmapLines
  PROVE  /\ StripLogPrefixes(lines) \in Seq(SqlmapLines)
         /\ StripLogPrefixes(Append(lines, x)) = StripLogPrefixes(lines) \o StripOne(x)
         /\ StripLogPrefixes(Append(lines, x))
              = IF x.kind = "log" THEN StripLogPrefixes(lines) ELSE Append(StripLogPrefixes(lines), x)
<1> DEFINE g == [y \in SqlmapLines |-> StripOne(y)]
           u == StripLogPrefixes(lines)
<1>1. g \in [SqlmapLines -> Seq(SqlmapLines)] /\ g[x] = StripOne(x)
  <2>1. \A y \in SqlmapLines : StripOne(y) \in Seq(SqlmapLines)
    BY OneOrNone DEF StripOne
  <2> QED BY <2>1
<1>2. Append(lines, x) \in Seq(SqlmapLines)
  BY AppendProperties
<1>3. u = FlattenSeq(Mapped(g, lines)) /\ StripLogPrefixes(Append(lines, x)) = FlattenSeq(Mapped(g, Append(lines, x)))
  BY <1>2, StripIs
<1> HIDE DEF g
<1>4. /\ FlattenSeq(Mapped(g, lines)) \in Seq(SqlmapLines)
      /\ FlattenSeq(Mapped(g, Append(lines, x))) = FlattenSeq(Mapped(g, lines)) \o g[x]
  BY ONLY <1>1, MappedFit, MappedAppend, lines \in Seq(SqlmapLines), x \in SqlmapLines
<1> HIDE DEF u
<1>5. u \in Seq(SqlmapLines) /\ StripLogPrefixes(Append(lines, x)) = u \o StripOne(x)
  BY <1>1, <1>3, <1>4
<1>6. u \o StripOne(x) = IF x.kind = "log" THEN u ELSE Append(u, x)
  BY <1>5, AppendIsConcat DEF StripOne
<1> QED BY <1>5, <1>6 DEF u

LEMMA StripConcat ==
  ASSUME NEW a \in Seq(SqlmapLines), NEW b \in Seq(SqlmapLines)
  PROVE  StripLogPrefixes(a \o b) = StripLogPrefixes(a) \o StripLogPrefixes(b)
<1> DEFINE u == StripLogPrefixes(a)
           T == {q \in Seq(SqlmapLines) : StripLogPrefixes(a \o q) = u \o StripLogPrefixes(q)}
<1>1. u \in Seq(SqlmapLines)
  <2>1. LogLine \in SqlmapLines
    BY DEF SqlmapLines, BlockLines
  <2> QED BY <2>1, StripAppend
<1> HIDE DEF u
<1>2. <<>> \in T
  <2>1. a \o <<>> = a /\ u \o <<>> = u
    BY <1>1
  <2> QED BY <2>1, StripEmpty, EmptySeq DEF u
<1>3. ASSUME NEW q \in T, NEW x \in SqlmapLines PROVE Append(q, x) \in T
  <2> DEFINE w == StripLogPrefixes(q)
  <2>1. q \in Seq(SqlmapLines) /\ Append(q, x) \in Seq(SqlmapLines) /\ a \o q \in Seq(SqlmapLines)
    BY AppendProperties, ConcatProperties
  <2>2. a \o Append(q, x) = Append(a \o q, x)
    BY <2>1
  <2>3. StripLogPrefixes(Append(a \o q, x)) = StripLogPrefixes(a \o q) \o StripOne(x)
    BY <2>1, StripAppend
  <2>4. w \in Seq(SqlmapLines) /\ StripLogPrefixes(Append(q, x)) = w \o StripOne(x)
    BY <2>1, StripAppend
  <2>5. StripLogPrefixes(a \o q) = u \o w
    OBVIOUS
  <2>6. StripOne(x) \in Seq(SqlmapLines)
    BY OneOrNone DEF StripOne
  <2> HIDE DEF w
  <2>7. (u \o w) \o StripOne(x) = u \o (w \o StripOne(x))
    <3> DEFINE z == StripOne(x)
    <3>1. u \in Seq(SqlmapLines) /\ w \in Seq(SqlmapLines) /\ z \in Seq(SqlmapLines)
      BY <1>1, <2>4, <2>6
    <3> HIDE DEF z, T
    <3>2. (u \o w) \o z = u \o (w \o z)
      BY ONLY <3>1
    <3> QED BY <3>2 DEF z
  <2> QED BY <2>1, <2>2, <2>3, <2>4, <2>5, <2>7
<1>4. T \in SUBSET Seq(SqlmapLines)
  OBVIOUS
<1>5. T = Seq(SqlmapLines)
  <2> HIDE DEF T
  <2> QED BY <1>2, <1>3, <1>4, SequenceInduction
<1> QED BY <1>5 DEF u

LEMMA StripInner ==
  ASSUME NEW lines \in Seq(BlockLines)
  PROVE  StripLogPrefixes(lines) \in Seq(InnerLines)
<1> DEFINE g == [x \in BlockLines |-> StripOne(x)]
<1>1. g \in [BlockLines -> Seq(InnerLines)]
  <2>1. ASSUME NEW x \in BlockLines PROVE StripOne(x) \in Seq(InnerLines)
    <3>1. CASE x = LogLine
      <4>1. StripOne(x) = <<>>
        BY <3>1 DEF StripOne, LogLine, SqlmapText
      <4> QED BY <4>1, EmptySeq
    <3>2. CASE x \in InnerLines
      BY <3>2, OneOrNone DEF StripOne
    <3> QED BY <3>1, <3>2 DEF BlockLines
  <2> QED BY <2>1
<1>2. StripLogPrefixes(lines) = FlattenSeq(Mapped(g, lines))
  BY StripIs
<1> HIDE DEF g
<1>3. FlattenSeq(Mapped(g, lines)) \in Seq(InnerLines)
  BY ONLY <1>1, MappedFit, lines \in Seq(BlockLines)
<1> QED BY <1>2, <1>3

-------------------------------------------------------------------------------
(***************************************************************************)
(* sqlmap's blocks, read line by line.  "Flushed" is what the findings are *)
(* once the technique in flight is closed.                                 *)
(***************************************************************************)
Techniques == [type : STRING \ {None}, title : STRING, payload : STRING]
Params == [name : STRING \ {None}, techniques : Seq(Techniques)]
InFlight == [param : SqlmapValue, type : SqlmapValue, title : SqlmapValue, payload : SqlmapValue]

Gather(lines, url) == SqlmapFold(StripLogPrefixes(lines), url)
Flushed(c, o, url) ==
  IF None \in {c.param, c.type} THEN o ELSE Append(o, BuildInjectionFinding(c, url))

LEMMA FlushIs ==
  ASSUME NEW c, NEW o, NEW url
  PROVE  Flush([cur |-> c, out |-> o], url)
           = [cur |-> [param |-> c.param, type |-> None, title |-> None, payload |-> None],
              out |-> Flushed(c, o, url)]
BY DEF Flush, Flushed, NoTechnique

LEMMA GatherEmpty ==
  ASSUME NEW url
  PROVE  Gather(<<>>, url) = SqlmapStart
BY StripEmpty, SqlmapFoldEmpty DEF Gather

LEMMA GatherAppend ==
  ASSUME NEW url, NEW lines \in Seq(BlockLines), NEW l \in BlockLines
  PROVE  /\ Append(lines, l) \in Seq(BlockLines)
         /\ Gather(Append(lines, l), url) = SqlmapLine(Gather(lines, url), l, url)
<1> DEFINE u == StripLogPrefixes(lines)
<1>1. lines \in Seq(SqlmapLines) /\ l \in SqlmapLines
  <2>1. BlockLines \subseteq SqlmapLines
    BY DEF SqlmapLines
  <2>2. \A i \in 1..Len(lines) : lines[i] \in SqlmapLines
    BY <2>1
  <2> QED BY <2>1, <2>2
<1>2. /\ u \in Seq(SqlmapLines)
      /\ StripLogPrefixes(Append(lines, l)) = IF l.kind = "log" THEN u ELSE Append(u, l)
  BY <1>1, StripAppend
<1>3. Append(lines, l) \in Seq(BlockLines)
  BY AppendProperties
<1> HIDE DEF u
<1>4. CASE l.kind = "log"
  <2>1. Gather(Append(lines, l), url) = Gather(lines, url)
    BY <1>2, <1>4 DEF Gather, u
  <2>2. SqlmapLine(Gather(lines, url), l, url) = Gather(lines, url)
    BY <1>4 DEF SqlmapLine
  <2> QED BY <1>3, <2>1, <2>2
<1>5. CASE l.kind # "log"
  <2>1. SqlmapFold(Append(u, l), url) = SqlmapLine(SqlmapFold(u, url), l, url)
    BY <1>1, <1>2, SqlmapFoldAppend
  <2> QED BY <1>2, <1>3, <1>5, <2>1 DEF Gather, u
<1> QED BY <1>4, <1>5

SqlmapOpt(kind, v) == IF v = None THEN <<>> ELSE <<SqlmapText(kind, v)>>
TechniqueLines(t) ==
  <<SqlmapText("Type", t.type)>> \o SqlmapOpt("Title", t.title) \o SqlmapOpt("Payload", t.payload) \o <<LogLine>>
OwnTechnique(name, t) == [param |-> name, type |-> t.type, title |-> t.title, payload |-> t.payload]

\* A technique's lines close the one before and leave it in flight itself.
LEMMA TechniqueFold ==
  ASSUME NEW url, NEW x \in Seq(BlockLines), NEW t \in Techniques, NEW c \in InFlight, NEW o,
         Gather(x, url) = [cur |-> c, out |-> o]
  PROVE  /\ TechniqueLines(t) \in Seq(BlockLines)
         /\ OwnTechnique(c.param, t) \in InFlight
         /\ Gather(x \o TechniqueLines(t), url) = [cur |-> OwnTechnique(c.param, t), out |-> Flushed(c, o, url)]
<1> DEFINE a == SqlmapText("Type", t.type)
           b == SqlmapText("Title", t.title)
           d == SqlmapText("Payload", t.payload)
           f == Flushed(c, o, url)
           tb == SqlmapOpt("Title", t.title)
           td == SqlmapOpt("Payload", t.payload)
           x1 == Append(x, a)
           x2 == IF t.title = None THEN x1 ELSE Append(x1, b)
           x3 == IF t.payload = None THEN x2 ELSE Append(x2, d)
           x4 == Append(x3, LogLine)
           Now(ti, pa) == [cur |-> [param |-> c.param, type |-> t.type, title |-> ti, payload |-> pa], out |-> f]
<1>1. /\ a \in BlockLines /\ b \in BlockLines /\ d \in BlockLines /\ LogLine \in BlockLines
      /\ OwnTechnique(c.param, t) \in InFlight
  BY DEF BlockLines, InnerLines, SqlmapText, SqlmapValue, Techniques, InFlight, OwnTechnique
<1>2. x1 \in Seq(BlockLines) /\ Gather(x1, url) = Now(None, None)
  <2>1. x1 \in Seq(BlockLines) /\ Gather(x1, url) = SqlmapLine([cur |-> c, out |-> o], a, url)
    BY <1>1, GatherAppend
  <2>2. SqlmapLine([cur |-> c, out |-> o], a, url) = [Flush([cur |-> c, out |-> o], url) EXCEPT !.cur.type = t.type]
    BY DEF SqlmapLine, SqlmapText
  <2> HIDE DEF f
  <2>3. Flush([cur |-> c, out |-> o], url)
          = [cur |-> [param |-> c.param, type |-> None, title |-> None, payload |-> None], out |-> f]
    BY FlushIs DEF f
  <2>4. SqlmapLine([cur |-> c, out |-> o], a, url) = Now(None, None)
    <3> DEFINE r == [cur |-> [param |-> c.param, type |-> None, title |-> None, payload |-> None], out |-> f]
    <3>1. [r EXCEPT !.cur.type = t.type] = Now(None, None)
      OBVIOUS
    <3> HIDE DEF r
    <3>2. Flush([cur |-> c, out |-> o], url) = r
      BY <2>3 DEF r
    <3> QED BY <2>2, <3>1, <3>2
  <2> QED BY <2>1, <2>4
<1> HIDE DEF x1, f
<1>3. x2 \in Seq(BlockLines) /\ Gather(x2, url) = Now(t.title, None)
  <2>1. CASE t.title = None
    BY <1>2, <2>1
  <2>2. CASE t.title # None
    <3>1. Append(x1, b) \in Seq(BlockLines) /\ Gather(Append(x1, b), url) = SqlmapLine(Now(None, None), b, url)
      BY <1>1, <1>2, GatherAppend
    <3>2. SqlmapLine(Now(None, None), b, url) = Now(t.title, None)
      BY DEF SqlmapLine, SqlmapText
    <3> QED BY <2>2, <3>1, <3>2
  <2> QED BY <2>1, <2>2
<1>4. x2 = x1 \o tb /\ tb \in Seq(BlockLines)
  <2>1. CASE t.title = None
    BY <1>2, <2>1 DEF SqlmapOpt
  <2>2. CASE t.title # None
    BY <1>1, <1>2, <2>2, AppendIsConcat DEF SqlmapOpt
  <2> QED BY <2>1, <2>2
<1> HIDE DEF x2
<1>5. x3 \in Seq(BlockLines) /\ Gather(x3, url) = Now(t.title, t.payload)
  <2>1. CASE t.payload = None
    BY <1>3, <2>1
  <2>2. CASE t.payload # None
    <3>1. Append(x2, d) \in Seq(BlockLines) /\ Gather(Append(x2, d), url) = SqlmapLine(Now(t.title, None), d, url)
      BY <1>1, <1>3, GatherAppend
    <3>2. SqlmapLine(Now(t.title, None), d, url) = Now(t.title, t.payload)
      BY DEF SqlmapLine, SqlmapText
    <3> QED BY <2>2, <3>1, <3>2
  <2> QED BY <2>1, <2>2
<1>6. x3 = x2 \o td /\ td \in Seq(BlockLines)
  <2>1. CASE t.payload = None
    BY <1>3, <2>1 DEF SqlmapOpt
  <2>2. CASE t.payload # None
    BY <1>1, <1>3, <2>2, AppendIsConcat DEF SqlmapOpt
  <2> QED BY <2>1, <2>2
<1> HIDE DEF x3
<1>7. Gather(x4, url) = Now(t.title, t.payload)
  <2>1. Gather(x4, url) = SqlmapLine(Now(t.title, t.payload), LogLine, url)
    BY <1>1, <1>5, GatherAppend
  <2>2. SqlmapLine(Now(t.title, t.payload), LogLine, url) = Now(t.title, t.payload)
    BY DEF SqlmapLine, LogLine, SqlmapText
  <2> QED BY <2>1, <2>2
<1>8. x4 = x \o TechniqueLines(t) /\ TechniqueLines(t) \in Seq(BlockLines)
  <2> DEFINE la == <<a>>
             ll == <<LogLine>>
  <2>1. TechniqueLines(t) = la \o tb \o td \o ll
    BY DEF TechniqueLines
  <2>2. x1 = x \o la /\ x4 = x3 \o ll
    BY <1>1, <1>5, AppendIsConcat DEF x1
  <2>3. la \in Seq(BlockLines) /\ ll \in Seq(BlockLines)
    BY <1>1
  <2> HIDE DEF la, ll, tb, td, x4
  <2>4. x4 = (((x \o la) \o tb) \o td) \o ll
    BY <1>4, <1>6, <2>2
  <2>5. (((x \o la) \o tb) \o td) \o ll = x \o (((la \o tb) \o td) \o ll)
    <3> DEFINE m == la \o tb
               n == m \o td
    <3>1. x \in Seq(BlockLines) /\ m \in Seq(BlockLines) /\ n \in Seq(BlockLines)
      BY <1>4, <1>6, <2>3, ConcatProperties
    <3>2. (x \o la) \o tb = x \o m
      BY ONLY <3>1, <1>4, <2>3
    <3> HIDE DEF m
    <3>3. (x \o m) \o td = x \o n
      BY ONLY <3>1, <1>6
    <3> HIDE DEF n
    <3>4. (x \o n) \o ll = x \o (n \o ll)
      BY ONLY <3>1, <2>3
    <3> QED BY <3>2, <3>3, <3>4 DEF m, n
  <2>6. ((la \o tb) \o td) \o ll \in Seq(BlockLines)
    BY ONLY <1>4, <1>6, <2>3, ConcatProperties
  <2> QED BY <2>1, <2>4, <2>5, <2>6
<1> QED BY <1>1, <1>7, <1>8 DEF OwnTechnique, f

TechniquesOf(ts) == FlattenSeq([i \in DOMAIN ts |-> TechniqueLines(ts[i])])
OwnOf(name, ts) == [i \in DOMAIN ts |-> OwnTechnique(name, ts[i])]
Build(url) == [c \in InFlight |-> BuildInjectionFinding(c, url)]
Built(url) == {BuildInjectionFinding(c, url) : c \in InFlight}

LEMMA TechniquesGrow ==
  ASSUME NEW ts \in Seq(Techniques), NEW t \in Techniques
  PROVE  /\ TechniquesOf(ts) \in Seq(BlockLines) /\ TechniqueLines(t) \in Seq(BlockLines)
         /\ TechniquesOf(Append(ts, t)) = TechniquesOf(ts) \o TechniqueLines(t)
<1> DEFINE g == [y \in Techniques |-> TechniqueLines(y)]
<1>1. \A y \in Techniques : TechniqueLines(y) \in Seq(BlockLines)
  <2>1. NoTechnique \in InFlight
    BY DEF NoTechnique, InFlight, SqlmapValue
  <2>2. <<>> \in Seq(BlockLines) /\ Gather(<<>>, None) = [cur |-> NoTechnique, out |-> <<>>]
    BY GatherEmpty, EmptySeq DEF SqlmapStart
  <2> QED BY <2>1, <2>2, TechniqueFold
<1>2. g \in [Techniques -> Seq(BlockLines)] /\ g[t] = TechniqueLines(t)
  BY <1>1
<1>3. Append(ts, t) \in Seq(Techniques)
  BY AppendProperties
<1>4. ASSUME NEW q \in Seq(Techniques) PROVE TechniquesOf(q) = FlattenSeq(Mapped(g, q))
  <2>1. \A i \in DOMAIN q : q[i] \in Techniques
    OBVIOUS
  <2>2. Mapped(g, q) = [i \in DOMAIN q |-> TechniqueLines(q[i])]
    BY <2>1 DEF Mapped
  <2> QED BY <2>2 DEF TechniquesOf
<1> HIDE DEF g
<1>5. /\ FlattenSeq(Mapped(g, ts)) \in Seq(BlockLines)
      /\ FlattenSeq(Mapped(g, Append(ts, t))) = FlattenSeq(Mapped(g, ts)) \o g[t]
  BY ONLY <1>2, MappedFit, MappedAppend, ts \in Seq(Techniques), t \in Techniques
<1> QED BY <1>1, <1>2, <1>3, <1>4, <1>5

LEMMA OwnGrow ==
  ASSUME NEW name \in STRING, NEW ts \in Seq(Techniques), NEW t \in Techniques
  PROVE  /\ OwnOf(name, ts) \in Seq(InFlight) /\ OwnTechnique(name, t) \in InFlight
         /\ OwnOf(name, Append(ts, t)) = Append(OwnOf(name, ts), OwnTechnique(name, t))
<1> DEFINE g == [y \in Techniques |-> OwnTechnique(name, y)]
<1>1. \A y \in Techniques : OwnTechnique(name, y) \in InFlight
  BY DEF Techniques, InFlight, OwnTechnique, SqlmapValue
<1>2. (\A y \in Techniques : g[y] \in InFlight) /\ g[t] = OwnTechnique(name, t)
  BY <1>1
<1>3. Append(ts, t) \in Seq(Techniques)
  BY AppendProperties
<1>4. ASSUME NEW q \in Seq(Techniques) PROVE OwnOf(name, q) = Mapped(g, q)
  <2>1. \A i \in DOMAIN q : q[i] \in Techniques
    OBVIOUS
  <2> QED BY <2>1 DEF Mapped, OwnOf
<1> HIDE DEF g
<1>5. Mapped(g, ts) \in Seq(InFlight) /\ Mapped(g, Append(ts, t)) = Append(Mapped(g, ts), g[t])
  BY ONLY <1>2, MappedTyped, MappedGrow, ts \in Seq(Techniques), t \in Techniques
<1> QED BY <1>1, <1>2, <1>3, <1>4, <1>5

LEMMA BuildGrows ==
  ASSUME NEW url, NEW v \in Seq(InFlight), NEW c \in InFlight
  PROVE  /\ Mapped(Build(url), v) \in Seq(Built(url))
         /\ Mapped(Build(url), Append(v, c)) = Append(Mapped(Build(url), v), BuildInjectionFinding(c, url))
<1>1. (\A y \in InFlight : Build(url)[y] \in Built(url)) /\ Build(url)[c] = BuildInjectionFinding(c, url)
  BY DEF Build, Built
<1>2. Mapped(Build(url), v) \in Seq(Built(url)) /\ Mapped(Build(url), Append(v, c)) = Append(Mapped(Build(url), v), Build(url)[c])
  BY ONLY <1>1, MappedTyped, MappedGrow, v \in Seq(InFlight), c \in InFlight
<1> QED BY <1>1, <1>2

\* After a parameter's line, its techniques are found one after the other.
LEMMA TechniquesFold ==
  ASSUME NEW url, NEW x \in Seq(BlockLines), NEW name \in STRING \ {None}, NEW v \in Seq(InFlight),
         NEW c \in InFlight, NEW o, c.param = name, Gather(x, url) = [cur |-> c, out |-> o],
         Flushed(c, o, url) = Mapped(Build(url), v), NEW ts \in Seq(Techniques)
  PROVE  \E e \in InFlight : \E w :
           /\ Gather(x \o TechniquesOf(ts), url) = [cur |-> e, out |-> w]
           /\ e.param = name
           /\ Flushed(e, w, url) = Mapped(Build(url), v \o OwnOf(name, ts))
<1> DEFINE Ok(q) == \E e \in InFlight : \E w :
                      /\ Gather(x \o TechniquesOf(q), url) = [cur |-> e, out |-> w]
                      /\ e.param = name
                      /\ Flushed(e, w, url) = Mapped(Build(url), v \o OwnOf(name, q))
           T == {q \in Seq(Techniques) : Ok(q)}
<1>1. <<>> \in T
  <2>1. TechniquesOf(<<>>) = <<>>
    <3>1. [i \in DOMAIN <<>> |-> TechniqueLines(<<>>[i])] = <<>>
      OBVIOUS
    <3> QED BY <3>1, FlattenEmpty DEF TechniquesOf
  <2>2. OwnOf(name, <<>>) = <<>>
    BY DEF OwnOf
  <2>3. x \o <<>> = x /\ v \o <<>> = v
    OBVIOUS
  <2>4. Ok(<<>>)
    BY <2>1, <2>2, <2>3
  <2> HIDE DEF Ok
  <2> QED BY <2>4, EmptySeq
<1>2. ASSUME NEW q \in T, NEW t \in Techniques PROVE Append(q, t) \in T
  <2>1. q \in Seq(Techniques) /\ Ok(q) /\ Append(q, t) \in Seq(Techniques)
    BY AppendProperties
  <2> HIDE DEF T
  <2>2. PICK e \in InFlight : \E w :
          /\ Gather(x \o TechniquesOf(q), url) = [cur |-> e, out |-> w]
          /\ e.param = name
          /\ Flushed(e, w, url) = Mapped(Build(url), v \o OwnOf(name, q))
    BY <2>1
  <2>3. PICK w :
          /\ Gather(x \o TechniquesOf(q), url) = [cur |-> e, out |-> w]
          /\ e.param = name
          /\ Flushed(e, w, url) = Mapped(Build(url), v \o OwnOf(name, q))
    BY <2>2
  <2> HIDE DEF Ok
  <2> DEFINE y == x \o TechniquesOf(q)
             tl == TechniqueLines(t)
             f == Flushed(e, w, url)
             k == OwnTechnique(name, t)
             u == OwnOf(name, q)
  <2>4. /\ TechniquesOf(q) \in Seq(BlockLines) /\ tl \in Seq(BlockLines)
        /\ TechniquesOf(Append(q, t)) = TechniquesOf(q) \o tl
    BY <2>1, TechniquesGrow
  <2>5. u \in Seq(InFlight) /\ k \in InFlight /\ OwnOf(name, Append(q, t)) = Append(u, k)
    BY <2>1, OwnGrow
  <2>6. y \in Seq(BlockLines)
    BY <2>4, ConcatProperties
  <2>7. Gather(y \o tl, url) = [cur |-> k, out |-> f]
    <3>1. Gather(y, url) = [cur |-> e, out |-> w] /\ e.param = name
      BY <2>3
    <3> HIDE DEF y
    <3> QED BY <2>6, <3>1, TechniqueFold
  <2>8. y \o tl = x \o TechniquesOf(Append(q, t))
    <3> HIDE DEF tl
    <3> QED BY <2>4
  <2>9. Flushed(k, f, url) = Append(f, BuildInjectionFinding(k, url))
    <3>1. k.param # None /\ k.type # None
      BY DEF OwnTechnique, Techniques
    <3> HIDE DEF k, f
    <3> QED BY <3>1 DEF Flushed
  <2>10. Flushed(k, f, url) = Mapped(Build(url), v \o OwnOf(name, Append(q, t)))
    <3> HIDE DEF k, u, f
    <3>1. f = Mapped(Build(url), v \o u)
      BY <2>3 DEF f, u
    <3>2. v \o u \in Seq(InFlight) /\ v \o Append(u, k) = Append(v \o u, k)
      BY <2>5
    <3>3. Mapped(Build(url), Append(v \o u, k)) = Append(Mapped(Build(url), v \o u), BuildInjectionFinding(k, url))
      BY <2>5, <3>2, BuildGrows
    <3> QED BY <2>5, <2>9, <3>1, <3>2, <3>3
  <2>11. k.param = name
    BY DEF OwnTechnique
  <2> HIDE DEF k, f, y, tl
  <2>12. Ok(Append(q, t))
    BY <2>5, <2>7, <2>8, <2>10, <2>11 DEF Ok
  <2> QED BY <2>1, <2>12 DEF T
<1>3. T \in SUBSET Seq(Techniques)
  OBVIOUS
<1>4. T = Seq(Techniques)
  <2> HIDE DEF T
  <2> QED BY <1>1, <1>2, <1>3, SequenceInduction
<1>5. ts \in T
  BY <1>4
<1> QED BY <1>5

BlockOf(p) == <<SqlmapText("Parameter", p.name)>> \o TechniquesOf(p.techniques)
BlocksOf(ps) == FlattenSeq([i \in DOMAIN ps |-> BlockOf(ps[i])])
ToldOf(ps) == FlattenSeq([i \in DOMAIN ps |-> OwnOf(ps[i].name, ps[i].techniques)])

\* A parameter's block closes the technique before it and adds its own.
LEMMA BlockFold ==
  ASSUME NEW url, NEW x \in Seq(BlockLines), NEW p \in Params, NEW v \in Seq(InFlight),
         NEW c \in InFlight, NEW o, Gather(x, url) = [cur |-> c, out |-> o],
         Flushed(c, o, url) = Mapped(Build(url), v)
  PROVE  \E e \in InFlight : \E w :
           /\ Gather(x \o BlockOf(p), url) = [cur |-> e, out |-> w]
           /\ Flushed(e, w, url) = Mapped(Build(url), v \o OwnOf(p.name, p.techniques))
<1> DEFINE l == SqlmapText("Parameter", p.name)
           y == Append(x, l)
           f == Flushed(c, o, url)
           e == [param |-> p.name, type |-> None, title |-> None, payload |-> None]
           tl == TechniquesOf(p.techniques)
<1>1. l \in BlockLines /\ e \in InFlight /\ p.name \in STRING \ {None} /\ p.techniques \in Seq(Techniques)
  BY DEF BlockLines, InnerLines, SqlmapText, SqlmapValue, Params, InFlight
<1>2. y \in Seq(BlockLines) /\ Gather(y, url) = [cur |-> e, out |-> f]
  <2>1. y \in Seq(BlockLines) /\ Gather(y, url) = SqlmapLine([cur |-> c, out |-> o], l, url)
    BY <1>1, GatherAppend
  <2>2. SqlmapLine([cur |-> c, out |-> o], l, url) = [Flush([cur |-> c, out |-> o], url) EXCEPT !.cur.param = p.name]
    BY DEF SqlmapLine, SqlmapText
  <2> HIDE DEF f
  <2> DEFINE r == [cur |-> [param |-> c.param, type |-> None, title |-> None, payload |-> None], out |-> f]
  <2>3. [r EXCEPT !.cur.param = p.name] = [cur |-> e, out |-> f]
    OBVIOUS
  <2> HIDE DEF r
  <2>4. Flush([cur |-> c, out |-> o], url) = r
    BY FlushIs DEF r, f
  <2> QED BY <2>1, <2>2, <2>3, <2>4
<1>3. Flushed(e, f, url) = Mapped(Build(url), v) /\ e.param = p.name
  <2>1. Flushed(e, f, url) = f
    <3> HIDE DEF f
    <3> QED BY DEF Flushed
  <2> QED BY <2>1
<1>4. tl \in Seq(BlockLines)
  <2>1. PICK t \in Techniques : TRUE
    <3>1. [type |-> p.name, title |-> p.name, payload |-> p.name] \in Techniques
      BY <1>1 DEF Techniques
    <3> QED BY <3>1
  <2> QED BY <1>1, <2>1, TechniquesGrow
<1> HIDE DEF e, f, y, tl
<1>5. \E g \in InFlight : \E w :
        /\ Gather(y \o tl, url) = [cur |-> g, out |-> w]
        /\ g.param = p.name
        /\ Flushed(g, w, url) = Mapped(Build(url), v \o OwnOf(p.name, p.techniques))
  <2> DEFINE name == p.name
             ts == p.techniques
  <2>1. /\ name \in STRING \ {None} /\ ts \in Seq(Techniques) /\ e \in InFlight /\ e.param = name
        /\ y \in Seq(BlockLines) /\ Gather(y, url) = [cur |-> e, out |-> f]
        /\ Flushed(e, f, url) = Mapped(Build(url), v)
    BY <1>1, <1>2, <1>3
  <2> HIDE DEF name, ts
  <2>2. \E g \in InFlight : \E w :
          /\ Gather(y \o TechniquesOf(ts), url) = [cur |-> g, out |-> w]
          /\ g.param = name
          /\ Flushed(g, w, url) = Mapped(Build(url), v \o OwnOf(name, ts))
    BY ONLY <2>1, v \in Seq(InFlight), TechniquesFold
  <2> QED BY <2>2 DEF tl, name, ts
<1>6. y \o tl = x \o BlockOf(p)
  <2> DEFINE a == <<l>>
  <2>1. y = x \o a /\ a \in Seq(BlockLines)
    BY <1>1, AppendIsConcat DEF y
  <2>2. BlockOf(p) = a \o tl
    BY DEF BlockOf, tl
  <2> HIDE DEF a
  <2>3. (x \o a) \o tl = x \o (a \o tl)
    BY <1>4, <2>1
  <2> QED BY <2>1, <2>2, <2>3
<1> QED BY <1>5, <1>6

LEMMA BlocksGrow ==
  ASSUME NEW ps \in Seq(Params), NEW p \in Params
  PROVE  /\ BlocksOf(ps) \in Seq(BlockLines) /\ BlockOf(p) \in Seq(BlockLines)
         /\ BlocksOf(Append(ps, p)) = BlocksOf(ps) \o BlockOf(p)
         /\ ToldOf(ps) \in Seq(InFlight) /\ OwnOf(p.name, p.techniques) \in Seq(InFlight)
         /\ ToldOf(Append(ps, p)) = ToldOf(ps) \o OwnOf(p.name, p.techniques)
<1> DEFINE g == [y \in Params |-> BlockOf(y)]
           h == [y \in Params |-> OwnOf(y.name, y.techniques)]
<1>1. ASSUME NEW y \in Params PROVE BlockOf(y) \in Seq(BlockLines) /\ OwnOf(y.name, y.techniques) \in Seq(InFlight)
  <2>1. y.name \in STRING /\ y.name # None /\ y.techniques \in Seq(Techniques) /\ SqlmapText("Parameter", y.name) \in BlockLines
    BY DEF BlockLines, InnerLines, SqlmapText, SqlmapValue, Params
  <2>2. PICK t \in Techniques : TRUE
    <3>1. [type |-> y.name, title |-> y.name, payload |-> y.name] \in Techniques
      BY <2>1 DEF Techniques
    <3> QED BY <3>1
  <2>3. TechniquesOf(y.techniques) \in Seq(BlockLines) /\ OwnOf(y.name, y.techniques) \in Seq(InFlight)
    BY <2>1, <2>2, TechniquesGrow, OwnGrow
  <2>4. <<SqlmapText("Parameter", y.name)>> \in Seq(BlockLines)
    BY <2>1
  <2> QED BY <2>3, <2>4, ConcatProperties DEF BlockOf
<1>2. /\ g \in [Params -> Seq(BlockLines)] /\ g[p] = BlockOf(p)
      /\ h \in [Params -> Seq(InFlight)] /\ h[p] = OwnOf(p.name, p.techniques)
  BY <1>1
<1>3. Append(ps, p) \in Seq(Params)
  BY AppendProperties
<1>4. ASSUME NEW q \in Seq(Params) PROVE BlocksOf(q) = FlattenSeq(Mapped(g, q)) /\ ToldOf(q) = FlattenSeq(Mapped(h, q))
  <2>1. \A i \in DOMAIN q : q[i] \in Params
    OBVIOUS
  <2>2. Mapped(g, q) = [i \in DOMAIN q |-> BlockOf(q[i])]
    BY <2>1 DEF Mapped
  <2>3. Mapped(h, q) = [i \in DOMAIN q |-> OwnOf(q[i].name, q[i].techniques)]
    BY <2>1 DEF Mapped
  <2> QED BY <2>2, <2>3 DEF BlocksOf, ToldOf
<1> HIDE DEF g, h
<1>5. /\ FlattenSeq(Mapped(g, ps)) \in Seq(BlockLines)
      /\ FlattenSeq(Mapped(g, Append(ps, p))) = FlattenSeq(Mapped(g, ps)) \o g[p]
  BY ONLY <1>2, MappedFit, MappedAppend, ps \in Seq(Params), p \in Params
<1>6. /\ FlattenSeq(Mapped(h, ps)) \in Seq(InFlight)
      /\ FlattenSeq(Mapped(h, Append(ps, p))) = FlattenSeq(Mapped(h, ps)) \o h[p]
  BY ONLY <1>2, MappedFit, MappedAppend, ps \in Seq(Params), p \in Params
<1> QED BY <1>1, <1>2, <1>3, <1>4, <1>5, <1>6

\* The blocks of every parameter, read to the end, are what was told of them.
LEMMA BlocksFold ==
  ASSUME NEW url, NEW ps \in Seq(Params)
  PROVE  /\ BlocksOf(ps) \in Seq(BlockLines) /\ ToldOf(ps) \in Seq(InFlight)
         /\ Flush(Gather(BlocksOf(ps), url), url).out = Mapped(Build(url), ToldOf(ps))
<1> DEFINE Ok(q) == /\ BlocksOf(q) \in Seq(BlockLines) /\ ToldOf(q) \in Seq(InFlight)
                    /\ \E e \in InFlight : \E w :
                         /\ Gather(BlocksOf(q), url) = [cur |-> e, out |-> w]
                         /\ Flushed(e, w, url) = Mapped(Build(url), ToldOf(q))
           T == {q \in Seq(Params) : Ok(q)}
<1>1. <<>> \in T
  <2>1. BlocksOf(<<>>) = <<>> /\ ToldOf(<<>>) = <<>>
    <3>1. [i \in DOMAIN <<>> |-> BlockOf(<<>>[i])] = <<>>
      OBVIOUS
    <3>2. [i \in DOMAIN <<>> |-> OwnOf(<<>>[i].name, <<>>[i].techniques)] = <<>>
      OBVIOUS
    <3> QED BY <3>1, <3>2, FlattenEmpty DEF BlocksOf, ToldOf
  <2>2. NoTechnique \in InFlight
    BY DEF NoTechnique, InFlight, SqlmapValue
  <2>3. Gather(<<>>, url) = [cur |-> NoTechnique, out |-> <<>>]
    BY GatherEmpty DEF SqlmapStart
  <2>4. Flushed(NoTechnique, <<>>, url) = <<>> /\ Mapped(Build(url), <<>>) = <<>>
    BY DEF Flushed, NoTechnique, Mapped
  <2>5. <<>> \in Seq(BlockLines) /\ <<>> \in Seq(InFlight) /\ <<>> \in Seq(Params)
    BY EmptySeq
  <2>6. Ok(<<>>)
    BY <2>1, <2>2, <2>3, <2>4, <2>5
  <2> HIDE DEF Ok
  <2> QED BY <2>5, <2>6
<1>2. ASSUME NEW q \in T, NEW p \in Params PROVE Append(q, p) \in T
  <2>1. q \in Seq(Params) /\ Ok(q) /\ Append(q, p) \in Seq(Params)
    BY AppendProperties
  <2> HIDE DEF T
  <2>2. PICK e \in InFlight : \E w :
          /\ Gather(BlocksOf(q), url) = [cur |-> e, out |-> w]
          /\ Flushed(e, w, url) = Mapped(Build(url), ToldOf(q))
    BY <2>1
  <2>3. PICK w :
          /\ Gather(BlocksOf(q), url) = [cur |-> e, out |-> w]
          /\ Flushed(e, w, url) = Mapped(Build(url), ToldOf(q))
    BY <2>2
  <2> HIDE DEF Ok
  <2> DEFINE u == OwnOf(p.name, p.techniques)
  <2>4. /\ BlocksOf(q) \in Seq(BlockLines) /\ BlockOf(p) \in Seq(BlockLines)
        /\ BlocksOf(Append(q, p)) = BlocksOf(q) \o BlockOf(p)
        /\ ToldOf(q) \in Seq(InFlight) /\ u \in Seq(InFlight)
        /\ ToldOf(Append(q, p)) = ToldOf(q) \o u
    BY <2>1, BlocksGrow
  <2>5. \E d \in InFlight : \E z :
          /\ Gather(BlocksOf(q) \o BlockOf(p), url) = [cur |-> d, out |-> z]
          /\ Flushed(d, z, url) = Mapped(Build(url), ToldOf(q) \o u)
    BY <2>3, <2>4, BlockFold
  <2>6. BlocksOf(Append(q, p)) \in Seq(BlockLines) /\ ToldOf(Append(q, p)) \in Seq(InFlight)
    BY <2>4, ConcatProperties
  <2> HIDE DEF u
  <2>7. Ok(Append(q, p))
    BY <2>4, <2>5, <2>6 DEF Ok
  <2> QED BY <2>1, <2>7 DEF T
<1>3. T \in SUBSET Seq(Params)
  OBVIOUS
<1>4. T = Seq(Params)
  <2> HIDE DEF T
  <2> QED BY <1>1, <1>2, <1>3, SequenceInduction
<1>5. Ok(ps)
  <2>1. ps \in T
    BY <1>4
  <2> HIDE DEF Ok
  <2> QED BY <2>1
<1>6. PICK e \in InFlight : \E w :
        /\ Gather(BlocksOf(ps), url) = [cur |-> e, out |-> w]
        /\ Flushed(e, w, url) = Mapped(Build(url), ToldOf(ps))
  BY <1>5
<1>7. PICK w :
        /\ Gather(BlocksOf(ps), url) = [cur |-> e, out |-> w]
        /\ Flushed(e, w, url) = Mapped(Build(url), ToldOf(ps))
  BY <1>6
<1>8. Flush(Gather(BlocksOf(ps), url), url).out = Flushed(e, w, url)
  <2>1. Flush([cur |-> e, out |-> w], url)
          = [cur |-> [param |-> e.param, type |-> None, title |-> None, payload |-> None],
             out |-> Flushed(e, w, url)]
    BY ONLY FlushIs
  <2> QED BY ONLY <1>7, <2>1
<1> QED BY <1>5, <1>7, <1>8

-------------------------------------------------------------------------------
(***************************************************************************)
(* The region of the report: where its delimiters are.                     *)
(***************************************************************************)

Delimiter == SqlmapText("delimiter", None)
SqlmapHeader == SqlmapText("header", None)
SqlmapRequest == SqlmapText("request", "u")
RegionOf(body, tail) == (<<SqlmapHeader, Delimiter>> \o body) \o (<<Delimiter>> \o tail)

LEMMA RegionPlaces ==
  ASSUME NEW body \in Seq(InnerLines), NEW tail \in Seq([kind : {"DBMS"}, value : SqlmapValue])
  PROVE  LET r == RegionOf(body, tail)  m == Len(body)
         IN  /\ r \in Seq(SqlmapLines) /\ Len(r) = m + 3 + Len(tail)
             /\ r[1] = SqlmapHeader /\ r[2] = Delimiter /\ r[m + 3] = Delimiter
             /\ \A i \in 1..m : r[2 + i] = body[i]
             /\ \A i \in 1..Len(tail) : r[m + 3 + i] = tail[i]
<1> DEFINE S == SqlmapLines
           m == Len(body)
           n == Len(tail)
           a == <<SqlmapHeader, Delimiter>>
           d == <<Delimiter>>
           x == a \o body
           y == d \o tail
           r == x \o y
<1>1. SqlmapHeader \in S /\ Delimiter \in S
  BY DEF SqlmapLines, SqlmapHeader, Delimiter, SqlmapText, SqlmapValue
<1>2. body \in Seq(S) /\ tail \in Seq(S) /\ m \in Nat /\ n \in Nat
  <2>1. InnerLines \subseteq S /\ [kind : {"DBMS"}, value : SqlmapValue] \subseteq S
    BY DEF SqlmapLines, BlockLines
  <2>2. (\A i \in 1..m : body[i] \in InnerLines) /\ (\A i \in 1..n : tail[i] \in [kind : {"DBMS"}, value : SqlmapValue])
    BY LenProperties
  <2>3. (\A i \in 1..m : body[i] \in S) /\ (\A i \in 1..n : tail[i] \in S)
    BY ONLY <2>1, <2>2
  <2> HIDE DEF S
  <2>4. body \in Seq(S)
    BY <2>3
  <2>5. tail \in Seq(S)
    BY <2>3
  <2> QED BY <2>4, <2>5, LenProperties
<1>3. a \in Seq(S) /\ Len(a) = 2 /\ a[1] = SqlmapHeader /\ a[2] = Delimiter
  BY <1>1
<1>4. d \in Seq(S) /\ Len(d) = 1 /\ d[1] = Delimiter
  BY <1>1
<1> HIDE DEF S, a, d, m, n
<1>5. x \in Seq(S) /\ Len(x) = 2 + m /\ \A i \in 1..(2 + m) : x[i] = IF i <= 2 THEN a[i] ELSE body[i - 2]
  <2>1. /\ x \in Seq(S) /\ Len(x) = Len(a) + Len(body)
        /\ \A i \in 1..Len(a) + Len(body) : x[i] = IF i <= Len(a) THEN a[i] ELSE body[i - Len(a)]
    BY ONLY <1>2, <1>3, ConcatProperties
  <2> QED BY <1>3, <2>1 DEF m
<1>6. y \in Seq(S) /\ Len(y) = 1 + n /\ \A i \in 1..(1 + n) : y[i] = IF i <= 1 THEN d[i] ELSE tail[i - 1]
  <2>1. /\ y \in Seq(S) /\ Len(y) = Len(d) + Len(tail)
        /\ \A i \in 1..Len(d) + Len(tail) : y[i] = IF i <= Len(d) THEN d[i] ELSE tail[i - Len(d)]
    BY ONLY <1>2, <1>4, ConcatProperties
  <2> QED BY <1>4, <2>1 DEF n
<1> HIDE DEF x, y
<1>7. r \in Seq(S) /\ Len(r) = (2 + m) + (1 + n)
      /\ \A i \in 1..((2 + m) + (1 + n)) : r[i] = IF i <= 2 + m THEN x[i] ELSE y[i - (2 + m)]
  <2>1. /\ r \in Seq(S) /\ Len(r) = Len(x) + Len(y)
        /\ \A i \in 1..Len(x) + Len(y) : r[i] = IF i <= Len(x) THEN x[i] ELSE y[i - Len(x)]
    BY ONLY <1>5, <1>6, ConcatProperties
  <2> QED BY <1>5, <1>6, <2>1
<1> HIDE DEF r
<1>8. r[1] = SqlmapHeader /\ r[2] = Delimiter
  BY <1>2, <1>3, <1>5, <1>7
<1>9. r[m + 3] = Delimiter
  <2>1. r[m + 3] = y[(m + 3) - (2 + m)] /\ (m + 3) - (2 + m) = 1
    BY <1>2, <1>7
  <2> QED BY <1>2, <1>4, <1>6, <2>1
<1>10. ASSUME NEW i \in 1..m PROVE r[2 + i] = body[i]
  <2>1. r[2 + i] = x[2 + i] /\ x[2 + i] = body[(2 + i) - 2]
    BY <1>2, <1>5, <1>7
  <2> QED BY <1>2, <2>1
<1>11. ASSUME NEW i \in 1..n PROVE r[m + 3 + i] = tail[i]
  <2>1. i \in 1..n /\ m \in Nat /\ n \in Nat
    BY <1>2
  <2>2. m + 3 + i \in 1..((2 + m) + (1 + n)) /\ ~(m + 3 + i <= 2 + m) /\ (m + 3 + i) - (2 + m) = 1 + i
    BY ONLY <2>1
  <2>3. 1 + i \in 1..(1 + n) /\ ~(1 + i <= 1) /\ (1 + i) - 1 = i
    BY ONLY <2>1
  <2>4. r[m + 3 + i] = y[1 + i]
    BY <1>7, <2>2
  <2> QED BY <1>6, <2>3, <2>4
<1>12. Len(r) = m + 3 + n
  BY <1>2, <1>7
<1> QED BY <1>7, <1>8, <1>9, <1>10, <1>11, <1>12 DEF RegionOf, r, x, y, a, d, m, n, S

\* The two delimiters are found where they are, with the blocks between them.
LEMMA RegionSplits ==
  ASSUME NEW url, NEW body \in Seq(InnerLines), NEW tail \in Seq([kind : {"DBMS"}, value : SqlmapValue])
  PROVE  SplitFindingsRegion(RegionOf(body, tail), url)
           = Parsed(AdaptInjectionFindings(body, url) \o AdaptDBMSFingerprint(tail, url))
<1> DEFINE S == SqlmapLines
           m == Len(body)
           n == Len(tail)
           r == RegionOf(body, tail)
           Is(l) == l.kind = "delimiter"
           open == SelectInSeq(r, Is)
           close == SelectInSubSeq(r, open + 1, Len(r), Is)
<1>1. /\ r \in Seq(S) /\ Len(r) = m + 3 + n /\ m \in Nat /\ n \in Nat
      /\ r[1] = SqlmapHeader /\ r[2] = Delimiter /\ r[m + 3] = Delimiter
      /\ \A i \in 1..m : r[2 + i] = body[i]
      /\ \A i \in 1..n : r[m + 3 + i] = tail[i]
  BY RegionPlaces, LenProperties
<1>2. \A i \in 1..m : body[i].kind # "delimiter"
  <2>1. \A i \in 1..m : body[i] \in InnerLines
    BY LenProperties
  <2> QED BY ONLY <2>1 DEF InnerLines
<1>3. r[1].kind # "delimiter" /\ r[2].kind = "delimiter" /\ r[m + 3].kind = "delimiter"
  BY <1>1 DEF SqlmapHeader, Delimiter, SqlmapText
<1> HIDE DEF r, m, n
<1>4. open = 2
  <2> DEFINE I == {i \in 1..Len(r) : r[i].kind = "delimiter"}
  <2>1. I \in SUBSET Nat /\ 2 \in I
    BY <1>1, <1>3
  <2>2. ASSUME NEW i \in I PROVE 2 <= i
    <3>1. i \in Nat /\ i # 0 /\ i # 1
      BY <1>1, <1>3
    <3> QED BY ONLY <3>1
  <2>3. open = Min(I)
    BY <2>1 DEF SelectInSeq
  <2> HIDE DEF I
  <2> QED BY <2>1, <2>2, <2>3, LeastIs
<1> HIDE DEF open
<1>5. close = m + 3
  <2> DEFINE I == {i \in (open + 1)..Len(r) : r[i].kind = "delimiter"}
  <2>1. I \in SUBSET Nat /\ m + 3 \in I
    BY <1>1, <1>3, <1>4
  <2>2. ASSUME NEW i \in I PROVE m + 3 <= i
    <3>1. i \in Nat /\ i >= 3 /\ r[i].kind = "delimiter"
      BY <1>1, <1>4
    <3>2. SUFFICES ASSUME i < m + 3 PROVE FALSE
      BY <1>1, <3>1
    <3>3. i - 2 \in 1..m /\ 2 + (i - 2) = i
      BY <1>1, <3>1, <3>2
    <3> QED BY <1>1, <1>2, <3>1, <3>3
  <2>3. close = Min(I)
    BY <2>1 DEF SelectInSubSeq
  <2> HIDE DEF I
  <2> QED BY <2>1, <2>2, <2>3, LeastIs
<1>6. SubSeq(r, open + 1, close - 1) = body
  <2>1. body \in Seq(S)
    <3>1. \A i \in 1..Len(body) : body[i] \in S
      BY DEF SqlmapLines, BlockLines
    <3> HIDE DEF S
    <3> QED BY <3>1
  <2>2. 2 + m <= Len(r) /\ \A i \in 1..m : r[2 + i] = body[i]
    BY <1>1
  <2>3. SubSeq(r, 2 + 1, 2 + m) = body
    BY <1>1, <2>1, <2>2, Stretch DEF m
  <2>4. 2 + 1 = open + 1 /\ 2 + m = close - 1
    BY <1>1, <1>4, <1>5
  <2> QED BY <2>3, <2>4
<1>7. SubSeq(r, close + 1, Len(r)) = tail
  <2>1. tail \in Seq(S)
    <3>1. \A i \in 1..Len(tail) : tail[i] \in S
      <4>1. \A i \in 1..Len(tail) : tail[i] \in [kind : {"DBMS"}, value : SqlmapValue]
        BY LenProperties
      <4> QED BY ONLY <4>1 DEF SqlmapLines
    <3> HIDE DEF S
    <3> QED BY <3>1
  <2>2. (m + 3) + n <= Len(r) /\ (m + 3 \in Nat) /\ \A i \in 1..n : r[(m + 3) + i] = tail[i]
    BY <1>1
  <2>3. SubSeq(r, (m + 3) + 1, (m + 3) + n) = tail
    BY <1>1, <2>1, <2>2, Stretch DEF n
  <2>4. (m + 3) + 1 = close + 1 /\ (m + 3) + n = Len(r)
    BY <1>1, <1>5
  <2> QED BY <2>3, <2>4
<1>8. open # 0 /\ close # 0
  BY <1>1, <1>4, <1>5
<1>9. SplitFindingsRegion(r, url)
        = CASE open = 0 -> Parsed(<<>>)
            [] open # 0 /\ close = 0 -> Panicked
            [] OTHER -> Parsed(AdaptInjectionFindings(SubSeq(r, open + 1, close - 1), url)
                                 \o AdaptDBMSFingerprint(SubSeq(r, close + 1, Len(r)), url))
  BY DEF SplitFindingsRegion, open
<1> HIDE DEF close
<1> QED BY <1>6, <1>7, <1>8, <1>9 DEF r

LEMMA StripSingle ==
  ASSUME NEW x \in SqlmapLines
  PROVE  <<x>> \in Seq(SqlmapLines) /\ StripLogPrefixes(<<x>>) = StripOne(x)
<1>1. <<>> \in Seq(SqlmapLines) /\ Append(<<>>, x) = <<x>> /\ <<x>> \in Seq(SqlmapLines)
  BY EmptySeq
<1>2. StripOne(x) \in Seq(SqlmapLines)
  BY OneOrNone DEF StripOne
<1>3. StripLogPrefixes(Append(<<>>, x)) = StripLogPrefixes(<<>>) \o StripOne(x)
  BY <1>1, StripAppend
<1>4. <<>> \o StripOne(x) = StripOne(x)
  BY <1>2, ConcatEmptySeq
<1> QED BY <1>1, <1>3, <1>4, StripEmpty

SqlmapFront == <<SqlmapRequest, LogLine>>
SqlmapTail(told) == SqlmapOpt("DBMS", told.dbms)

LEMMA SqlmapOutputIs ==
  ASSUME NEW told
  PROVE  /\ told.params = <<>> => SqlmapOutput(told) = SqlmapFront
         /\ told.params # <<>> /\ ~told.cut =>
              SqlmapOutput(told)
                = (SqlmapFront \o (<<SqlmapHeader, Delimiter>> \o BlocksOf(told.params)))
                    \o (<<Delimiter>> \o SqlmapTail(told))
<1> DEFINE L(kind, value) == [kind |-> kind, value |-> value]
           Opt(kind, v) == IF v = None THEN <<>> ELSE <<L(kind, v)>>
           Technique(t) == <<L("Type", t.type)>> \o Opt("Title", t.title) \o Opt("Payload", t.payload)
                             \o <<L("log", None)>>
           Block(p) == <<L("Parameter", p.name)>> \o Each(p.techniques, Technique)
           start == <<L("request", "u"), L("log", None)>>
           found == <<L("header", None), L("delimiter", None)>> \o Each(told.params, Block)
           close == <<L("delimiter", None)>> \o Opt("DBMS", told.dbms)
<1>1. SqlmapOutput(told) = CASE told.params = <<>> -> start
                             [] told.params # <<>> /\ told.cut -> start \o found
                             [] OTHER -> start \o found \o close
  BY DEF SqlmapOutput
<1>2. start = SqlmapFront
  BY DEF SqlmapFront, SqlmapRequest, LogLine, SqlmapText
<1>3. close = <<Delimiter>> \o SqlmapTail(told)
  BY DEF Delimiter, SqlmapTail, SqlmapOpt, SqlmapText
<1>4. \A t : Technique(t) = TechniqueLines(t)
  BY DEF TechniqueLines, SqlmapOpt, LogLine, SqlmapText
<1>5. \A p : Block(p) = BlockOf(p)
  <2> HIDE DEF Technique
  <2> QED BY <1>4 DEF BlockOf, TechniquesOf, SqlmapText, Each
<1>6. found = <<SqlmapHeader, Delimiter>> \o BlocksOf(told.params)
  <2> HIDE DEF Block
  <2> QED BY <1>5 DEF BlocksOf, SqlmapText, SqlmapHeader, Delimiter, Each
<1> HIDE DEF start, found, close
<1>7. told.params = <<>> => SqlmapOutput(told) = start
  BY <1>1
<1>8. ASSUME told.params # <<>>, ~told.cut PROVE SqlmapOutput(told) = (start \o found) \o close
  BY <1>1, <1>8
<1> QED BY <1>2, <1>3, <1>6, <1>7, <1>8

LEMMA FrontStrips ==
  /\ SqlmapFront \in Seq(SqlmapLines) /\ SqlmapRequest \in SqlmapLines
  /\ StripLogPrefixes(SqlmapFront) = <<SqlmapRequest>>
  /\ <<SqlmapHeader, Delimiter>> \in Seq(SqlmapLines)
  /\ StripLogPrefixes(<<SqlmapHeader, Delimiter>>) = <<SqlmapHeader, Delimiter>>
  /\ <<Delimiter>> \in Seq(SqlmapLines)
  /\ StripLogPrefixes(<<Delimiter>>) = <<Delimiter>>
<1>1. SqlmapRequest \in SqlmapLines /\ LogLine \in SqlmapLines /\ SqlmapHeader \in SqlmapLines /\ Delimiter \in SqlmapLines
  BY DEF SqlmapLines, BlockLines, SqlmapRequest, LogLine, SqlmapHeader, Delimiter, SqlmapText, SqlmapValue
<1>2. /\ StripOne(SqlmapRequest) = <<SqlmapRequest>> /\ StripOne(LogLine) = <<>>
      /\ StripOne(SqlmapHeader) = <<SqlmapHeader>> /\ StripOne(Delimiter) = <<Delimiter>>
  BY DEF StripOne, SqlmapRequest, LogLine, SqlmapHeader, Delimiter, SqlmapText
<1>3. \A x \in SqlmapLines : <<x>> \in Seq(SqlmapLines) /\ StripLogPrefixes(<<x>>) = StripOne(x)
  BY StripSingle
<1>4. ASSUME NEW x \in SqlmapLines, NEW y \in SqlmapLines
      PROVE  /\ <<x, y>> \in Seq(SqlmapLines) /\ StripLogPrefixes(<<x, y>>) = StripOne(x) \o StripOne(y)
             /\ Append(<<x>>, y) = <<x, y>>
  <2>1. <<x, y>> = Append(<<x>>, y) /\ <<x, y>> \in Seq(SqlmapLines) /\ <<x>> \in Seq(SqlmapLines)
    <3>1. <<x>> \in Seq(SqlmapLines)
      OBVIOUS
    <3>2. <<x, y>> \in Seq(SqlmapLines)
      OBVIOUS
    <3>3. <<x, y>> = Append(<<x>>, y)
      OBVIOUS
    <3> QED BY <3>1, <3>2, <3>3
  <2>2. StripLogPrefixes(Append(<<x>>, y)) = StripLogPrefixes(<<x>>) \o StripOne(y)
    BY <2>1, StripAppend
  <2> QED BY <1>3, <2>1, <2>2
<1>5. <<SqlmapRequest>> \o <<>> = <<SqlmapRequest>>
  BY <1>1, <1>3, ConcatEmptySeq
<1>6. <<SqlmapHeader>> \o <<Delimiter>> = <<SqlmapHeader, Delimiter>>
  <2>1. <<SqlmapHeader>> \o <<Delimiter>> = Append(<<SqlmapHeader>>, Delimiter)
    BY <1>1, <1>3, AppendIsConcat
  <2> QED BY <1>1, <1>4, <2>1
<1>7. SqlmapFront \in Seq(SqlmapLines) /\ StripLogPrefixes(SqlmapFront) = <<SqlmapRequest>>
  <2>1. SqlmapFront \in Seq(SqlmapLines) /\ StripLogPrefixes(SqlmapFront) = StripOne(SqlmapRequest) \o StripOne(LogLine)
    BY <1>1, <1>4 DEF SqlmapFront
  <2> QED BY <1>2, <1>5, <2>1
<1>8. /\ <<SqlmapHeader, Delimiter>> \in Seq(SqlmapLines)
      /\ StripLogPrefixes(<<SqlmapHeader, Delimiter>>) = <<SqlmapHeader, Delimiter>>
  <2>1. StripLogPrefixes(<<SqlmapHeader, Delimiter>>) = StripOne(SqlmapHeader) \o StripOne(Delimiter)
    BY <1>1, <1>4
  <2> QED BY <1>1, <1>2, <1>4, <1>6, <2>1
<1>9. <<Delimiter>> \in Seq(SqlmapLines) /\ StripLogPrefixes(<<Delimiter>>) = <<Delimiter>>
  BY <1>1, <1>2, <1>3
<1> QED BY <1>1, <1>7, <1>8, <1>9

DbmsLines == [kind : {"DBMS"}, value : SqlmapValue]

LEMMA TailStrips ==
  ASSUME NEW told, told.dbms \in STRING
  PROVE  /\ SqlmapTail(told) \in Seq(DbmsLines) /\ SqlmapTail(told) \in Seq(SqlmapLines)
         /\ StripLogPrefixes(SqlmapTail(told)) = SqlmapTail(told)
<1> DEFINE x == SqlmapText("DBMS", told.dbms)
<1>1. x \in DbmsLines /\ x \in SqlmapLines /\ x.kind # "log"
  BY DEF DbmsLines, SqlmapLines, SqlmapText, SqlmapValue
<1>2. SqlmapTail(told) = IF told.dbms = None THEN <<>> ELSE <<x>>
  BY DEF SqlmapTail, SqlmapOpt
<1> HIDE DEF x
<1>3. CASE told.dbms = None
  BY <1>2, <1>3, StripEmpty, EmptySeq
<1>4. CASE told.dbms # None
  <2>1. StripLogPrefixes(<<x>>) = <<x>>
    BY <1>1, StripSingle DEF StripOne
  <2>2. <<x>> \in Seq(DbmsLines) /\ <<x>> \in Seq(SqlmapLines)
    BY <1>1
  <2> QED BY <1>2, <1>4, <2>1, <2>2
<1> QED BY <1>3, <1>4

\* Stripped of its log lines, a whole report is the request and the region.
LEMMA SqlmapTextIs ==
  ASSUME NEW told, told.dbms \in STRING, told.params \in Seq(Params), told.params # <<>>, ~told.cut
  PROVE  LET body == StripLogPrefixes(BlocksOf(told.params))
         IN  /\ body \in Seq(InnerLines)
             /\ StripLogPrefixes(SqlmapOutput(told)) = <<SqlmapRequest>> \o RegionOf(body, SqlmapTail(told))
<1> DEFINE S == SqlmapLines
           fr == SqlmapFront
           rq == <<SqlmapRequest>>
           hd == <<SqlmapHeader, Delimiter>>
           bs == BlocksOf(told.params)
           body == StripLogPrefixes(bs)
           dl == <<Delimiter>>
           tl == SqlmapTail(told)
           ps == told.params
<1>1. bs \in Seq(BlockLines)
  <2>1. ps \in Seq(Params)
    OBVIOUS
  <2> HIDE DEF ps
  <2>2. BlocksOf(ps) \in Seq(BlockLines)
    BY <2>1, BlocksFold
  <2> QED BY <2>2 DEF ps
<1>2. bs \in Seq(S)
  <2>1. \A i \in 1..Len(bs) : bs[i] \in BlockLines
    <3> HIDE DEF bs
    <3> QED BY <1>1, LenProperties
  <2>2. \A i \in 1..Len(bs) : bs[i] \in S
    <3> HIDE DEF bs
    <3> QED BY ONLY <2>1 DEF SqlmapLines
  <2> HIDE DEF bs, S
  <2> QED BY <1>1, <2>2
<1>3. body \in Seq(InnerLines)
  <2> HIDE DEF bs
  <2> QED BY <1>1, StripInner
<1>4. body \in Seq(S)
  <2>1. PICK x \in S : TRUE
    BY FrontStrips
  <2> HIDE DEF bs
  <2> QED BY <1>2, <2>1, StripAppend
<1>5. /\ fr \in Seq(S) /\ StripLogPrefixes(fr) = rq /\ hd \in Seq(S) /\ StripLogPrefixes(hd) = hd
      /\ dl \in Seq(S) /\ StripLogPrefixes(dl) = dl /\ rq \in Seq(S)
  <2>1. rq \in Seq(S)
    BY FrontStrips, StripSingle
  <2> QED BY <2>1, FrontStrips
<1>6. tl \in Seq(S) /\ StripLogPrefixes(tl) = tl
  BY TailStrips
<1>7. SqlmapOutput(told) = (fr \o (hd \o bs)) \o (dl \o tl)
  BY SqlmapOutputIs
<1> HIDE DEF S, fr, rq, hd, bs, dl, tl
<1>8. hd \o bs \in Seq(S) /\ fr \o (hd \o bs) \in Seq(S) /\ dl \o tl \in Seq(S) /\ hd \o body \in Seq(S)
  <2> HIDE DEF body
  <2> QED BY <1>2, <1>4, <1>5, <1>6, ConcatProperties
<1>9. ASSUME NEW a \in Seq(S), NEW b \in Seq(S) PROVE StripLogPrefixes(a \o b) = StripLogPrefixes(a) \o StripLogPrefixes(b)
  BY StripConcat DEF S
<1>10. StripLogPrefixes(hd \o bs) = hd \o body
  BY <1>2, <1>5, <1>9
<1>11. StripLogPrefixes(fr \o (hd \o bs)) = rq \o (hd \o body)
  BY <1>5, <1>8, <1>9, <1>10
<1>12. StripLogPrefixes(dl \o tl) = dl \o tl
  <2>1. StripLogPrefixes(dl \o tl) = StripLogPrefixes(dl) \o StripLogPrefixes(tl)
    BY <1>5, <1>6, <1>9
  <2> QED BY <1>5, <1>6, <2>1
<1>13. StripLogPrefixes(SqlmapOutput(told)) = (rq \o (hd \o body)) \o (dl \o tl)
  BY <1>7, <1>8, <1>9, <1>11, <1>12
<1> DEFINE u == hd \o body
           w == dl \o tl
<1>14. (rq \o u) \o w = rq \o (u \o w)
  <2>1. u \in Seq(S) /\ w \in Seq(S) /\ rq \in Seq(S)
    BY <1>5, <1>8
  <2> HIDE DEF u, w
  <2> QED BY ONLY <2>1
<1> QED BY <1>3, <1>13, <1>14 DEF RegionOf, rq, hd, dl, tl, bs

\* What the parser makes of a whole report: a finding for every technique told,
\* in order, and at most one more, which is no injection.
LEMMA SqlmapReads ==
  ASSUME NEW told, told.dbms \in STRING, told.params \in Seq(Params), ~told.cut
  PROVE  \E url : \E D :
           /\ ParseSQLMapOutput(SqlmapOutput(told)).findings = Mapped(Build(url), ToldOf(told.params)) \o D
           /\ ToldOf(told.params) \in Seq(InFlight)
           /\ D = <<>> \/ \E f : D = <<f>> /\ f.type # "sql_injection" /\ {"type", "fingerprint"} \subseteq DOMAIN f
<1> DEFINE out == SqlmapOutput(told)
           text == StripLogPrefixes(out)
           Is(l) == l.kind = "header"
           header == SelectInSeq(text, Is)
           url == ExtractTargetURL(text)
           ps == told.params
<1>0. ParseSQLMapOutput(out)
        = CASE out = <<>> -> Failed
            [] out # <<>> /\ header = 0 -> Parsed(<<>>)
            [] OTHER -> SplitFindingsRegion(SubSeq(text, header, Len(text)), url)
  BY DEF ParseSQLMapOutput
<1>1. ps \in Seq(Params) /\ ToldOf(ps) \in Seq(InFlight)
  <2>1. ps \in Seq(Params)
    OBVIOUS
  <2> HIDE DEF ps
  <2> QED BY <2>1, BlocksFold
<1>2. CASE ps = <<>>
  <2>1. text = <<SqlmapRequest>> /\ out # <<>>
    <3>1. out = SqlmapFront
      BY <1>2, SqlmapOutputIs
    <3>2. SqlmapFront # <<>>
      BY DEF SqlmapFront
    <3> QED BY <3>1, <3>2, FrontStrips
  <2> HIDE DEF text, out
  <2>2. header = 0
    <3>1. Len(text) = 1 /\ text[1].kind # "header"
      BY <2>1 DEF SqlmapRequest, SqlmapText
    <3>2. {i \in 1..Len(text) : text[i].kind = "header"} = {}
      BY <3>1
    <3> QED BY <3>2 DEF SelectInSeq
  <2> HIDE DEF header
  <2>3. ParseSQLMapOutput(out).findings = <<>>
    BY <1>0, <2>1, <2>2 DEF Parsed
  <2>4. ToldOf(ps) = <<>>
    <3>1. [i \in DOMAIN <<>> |-> OwnOf(<<>>[i].name, <<>>[i].techniques)] = <<>>
      OBVIOUS
    <3> QED BY <1>2, <3>1, FlattenEmpty DEF ToldOf
  <2>5. Mapped(Build(None), <<>>) = <<>> /\ <<>> \o <<>> = <<>>
    BY ConcatEmptySeq, EmptySeq DEF Mapped
  <2>6. ParseSQLMapOutput(out).findings = Mapped(Build(None), ToldOf(ps)) \o <<>>
    BY <2>3, <2>4, <2>5
  <2> QED BY <1>1, <2>6 DEF out
<1>3. CASE ps # <<>>
  <2> DEFINE body == StripLogPrefixes(BlocksOf(ps))
             tail == SqlmapTail(told)
             r == RegionOf(body, tail)
  <2>1. body \in Seq(InnerLines) /\ text = <<SqlmapRequest>> \o r
    BY <1>3, SqlmapTextIs
  <2>2. tail \in Seq(DbmsLines)
    BY TailStrips
  <2> HIDE DEF body, tail
  <2>3. /\ r \in Seq(SqlmapLines) /\ Len(r) \in Nat /\ Len(r) >= 3 /\ r[1] = SqlmapHeader
    <3>1. Len(body) \in Nat /\ Len(tail) \in Nat
      BY <2>1, <2>2, LenProperties
    <3>2. r \in Seq(SqlmapLines) /\ Len(r) = Len(body) + 3 + Len(tail) /\ r[1] = SqlmapHeader
      BY <2>1, <2>2, RegionPlaces DEF DbmsLines
    <3> HIDE DEF r
    <3> QED BY <3>1, <3>2
  <2> HIDE DEF r, text, out
  <2>4. /\ text \in Seq(SqlmapLines) /\ Len(text) = 1 + Len(r) /\ text[1] = SqlmapRequest
        /\ \A i \in 1..Len(r) : text[1 + i] = r[i]
    <3> DEFINE a == <<SqlmapRequest>>
    <3>1. a \in Seq(SqlmapLines) /\ Len(a) = 1 /\ a[1] = SqlmapRequest
      BY FrontStrips, StripSingle
    <3> HIDE DEF a
    <3>2. /\ a \o r \in Seq(SqlmapLines) /\ Len(a \o r) = Len(a) + Len(r)
          /\ \A i \in 1..Len(a) + Len(r) : (a \o r)[i] = IF i <= Len(a) THEN a[i] ELSE r[i - Len(a)]
      BY ONLY <2>3, <3>1, ConcatProperties
    <3>3. text = a \o r
      BY <2>1 DEF a
    <3>4. text \in Seq(SqlmapLines) /\ Len(text) = 1 + Len(r)
      BY <3>1, <3>2, <3>3
    <3>5. text[1] = SqlmapRequest
      BY <2>3, <3>1, <3>2, <3>3
    <3>6. ASSUME NEW i \in 1..Len(r) PROVE text[1 + i] = r[i]
      <4>1. 1 + i \in 1..(1 + Len(r)) /\ ~(1 + i <= 1) /\ (1 + i) - 1 = i
        BY <2>3
      <4> QED BY <3>1, <3>2, <3>3, <4>1
    <3> QED BY <3>4, <3>5, <3>6
  <2>5. header = 2
    <3> DEFINE I == {i \in 1..Len(text) : text[i].kind = "header"}
    <3>1. text[1].kind # "header"
      BY <2>4 DEF SqlmapRequest, SqlmapText
    <3>2. text[2].kind = "header"
      <4>1. text[1 + 1] = r[1]
        BY <2>3, <2>4
      <4> QED BY <2>3, <4>1 DEF SqlmapHeader, SqlmapText
    <3>3. I \in SUBSET Nat /\ 2 \in I
      BY <2>3, <2>4, <3>2
    <3>4. ASSUME NEW i \in I PROVE 2 <= i
      <4>1. i \in Nat /\ i # 0 /\ i # 1
        BY <3>1
      <4> QED BY ONLY <4>1
    <3>5. header = Min(I)
      BY <3>3 DEF SelectInSeq
    <3> HIDE DEF I
    <3> QED BY <3>3, <3>4, <3>5, LeastIs
  <2>6. SubSeq(text, header, Len(text)) = r
    <3>1. SubSeq(text, 1 + 1, 1 + Len(r)) = r
      BY <2>3, <2>4, Stretch
    <3>2. 1 + 1 = header
      BY <2>5
    <3> QED BY <2>4, <3>1, <3>2
  <2>7. out # <<>>
    <3>1. StripLogPrefixes(<<>>) = <<>> /\ Len(<<>>) = 0
      BY StripEmpty
    <3>2. text # <<>>
      BY <2>3, <2>4, <3>1
    <3> QED BY <3>1, <3>2 DEF text
  <2> HIDE DEF header, url
  <2>8. ParseSQLMapOutput(out) = SplitFindingsRegion(r, url)
    <3>1. header # 0 /\ ~(out = <<>>)
      BY <2>5, <2>7
    <3>2. ParseSQLMapOutput(out) = SplitFindingsRegion(SubSeq(text, header, Len(text)), url)
      BY ONLY <1>0, <3>1
    <3> QED BY ONLY <2>6, <3>2
  <2>9. SplitFindingsRegion(r, url) = Parsed(AdaptInjectionFindings(body, url) \o AdaptDBMSFingerprint(tail, url))
    BY <2>1, <2>2, RegionSplits DEF r, DbmsLines
  <2>10. AdaptInjectionFindings(body, url) = Mapped(Build(url), ToldOf(ps))
    <3>1. AdaptInjectionFindings(body, url) = Flush(SqlmapFold(body, url), url).out
      BY DEF AdaptInjectionFindings, SqlmapFold, TextFold, SqlmapStart
    <3>2. SqlmapFold(body, url) = Gather(BlocksOf(ps), url)
      BY DEF Gather, body
    <3> HIDE DEF ps
    <3>3. Flush(Gather(BlocksOf(ps), url), url).out = Mapped(Build(url), ToldOf(ps))
      BY <1>1, BlocksFold
    <3> QED BY <3>1, <3>2, <3>3
  <2> DEFINE D == AdaptDBMSFingerprint(tail, url)
  <2>11. D = <<>> \/ \E f : D = <<f>> /\ f.type # "sql_injection" /\ {"type", "fingerprint"} \subseteq DOMAIN f
    <3>1. D = <<>> \/ \E v : D = <<RawFinding([dbms |-> v], "dbms_fingerprint", url, None, None, 0, "info")>>
      BY DEF AdaptDBMSFingerprint
    <3>2. ASSUME NEW f, NEW v, f = RawFinding([dbms |-> v], "dbms_fingerprint", url, None, None, 0, "info")
          PROVE  f.type # "sql_injection" /\ {"type", "fingerprint"} \subseteq DOMAIN f
      BY <3>2 DEF RawFinding
    <3> HIDE DEF D
    <3> QED BY <3>1, <3>2
  <2> HIDE DEF D
  <2>12. ParseSQLMapOutput(out).findings = Mapped(Build(url), ToldOf(ps)) \o D
    BY <2>8, <2>9, <2>10 DEF Parsed, D
  <2> QED BY <1>1, <2>11, <2>12 DEF out
<1> QED BY <1>2, <1>3

-------------------------------------------------------------------------------
(***************************************************************************)
(* The injections among the findings.                                      *)
(***************************************************************************)
Injections(fs) == Select(fs, LAMBDA f : f.type = "sql_injection")
InjectionOne(f) == IF f.type = "sql_injection" THEN <<f>> ELSE <<>>

LEMMA InjectionsAppend ==
  ASSUME NEW A, NEW fs \in Seq(A), NEW f \in A
  PROVE  Injections(Append(fs, f)) = Injections(fs) \o InjectionOne(f) /\ Injections(fs) \in Seq(A)
<1> DEFINE g == [x \in A |-> InjectionOne(x)]
<1>1. g \in [A -> Seq(A)] /\ g[f] = InjectionOne(f)
  <2>1. \A x \in A : InjectionOne(x) \in Seq(A)
    BY OneOrNone DEF InjectionOne
  <2> QED BY <2>1
<1>2. ASSUME NEW q \in Seq(A) PROVE Injections(q) = FlattenSeq(Mapped(g, q))
  <2>1. \A i \in DOMAIN q : q[i] \in A
    OBVIOUS
  <2>2. Mapped(g, q) = [i \in DOMAIN q |-> InjectionOne(q[i])]
    BY <2>1 DEF Mapped
  <2> QED BY <2>2 DEF Injections, Select, Each, InjectionOne
<1>3. Append(fs, f) \in Seq(A)
  BY AppendProperties
<1> HIDE DEF g
<1>4. /\ FlattenSeq(Mapped(g, fs)) \in Seq(A)
      /\ FlattenSeq(Mapped(g, Append(fs, f))) = FlattenSeq(Mapped(g, fs)) \o g[f]
  BY ONLY <1>1, MappedFit, MappedAppend, fs \in Seq(A), f \in A
<1> QED BY <1>1, <1>2, <1>3, <1>4

LEMMA InjectionsAll ==
  ASSUME NEW A, \A f \in A : f.type = "sql_injection", NEW fs \in Seq(A)
  PROVE  Injections(fs) = fs
<1> DEFINE T == {q \in Seq(A) : Injections(q) = q}
<1>1. <<>> \in T
  <2>1. [i \in DOMAIN <<>> |-> InjectionOne(<<>>[i])] = <<>>
    OBVIOUS
  <2>2. Injections(<<>>) = FlattenSeq([i \in DOMAIN <<>> |-> InjectionOne(<<>>[i])])
    BY DEF Injections, Select, Each, InjectionOne
  <2> QED BY <2>1, <2>2, FlattenEmpty, EmptySeq
<1>2. ASSUME NEW q \in T, NEW f \in A PROVE Append(q, f) \in T
  <2>1. q \in Seq(A) /\ Append(q, f) \in Seq(A) /\ Injections(q) = q
    BY AppendProperties
  <2> HIDE DEF T
  <2>2. Injections(Append(q, f)) = Injections(q) \o InjectionOne(f)
    BY <2>1, InjectionsAppend
  <2>3. InjectionOne(f) = <<f>>
    BY DEF InjectionOne
  <2>4. q \o <<f>> = Append(q, f)
    BY <2>1, AppendIsConcat
  <2> QED BY <2>1, <2>2, <2>3, <2>4 DEF T
<1>3. T \in SUBSET Seq(A)
  OBVIOUS
<1>4. T = Seq(A)
  <2> HIDE DEF T
  <2> QED BY <1>1, <1>2, <1>3, SequenceInduction
<1> QED BY <1>4

Stamp(f) == [f EXCEPT !.fingerprint = ComputeFingerprint(tool, f)]

LEMMA StampsAppend ==
  ASSUME NEW A, NEW fs \in Seq(A), NEW f \in A
  PROVE  Stamped(Append(fs, f)) = Append(Stamped(fs), Stamp(f))
<1> DEFINE g == [x \in A |-> Stamp(x)]
<1>1. ASSUME NEW q \in Seq(A) PROVE Stamped(q) = Mapped(g, q)
  <2>1. \A i \in DOMAIN q : q[i] \in A
    OBVIOUS
  <2> QED BY <2>1 DEF Mapped, Stamped, Stamp
<1>2. Append(fs, f) \in Seq(A) /\ g[f] = Stamp(f)
  BY AppendProperties
<1> HIDE DEF g
<1>3. Mapped(g, Append(fs, f)) = Append(Mapped(g, fs), g[f])
  BY MappedGrow
<1> QED BY <1>1, <1>2, <1>3

\* What is stamped after a technique is told: an injection, of that technique.
LEMMA StampKeeps ==
  ASSUME NEW url, NEW c
  PROVE  /\ Stamp(BuildInjectionFinding(c, url)).type = "sql_injection"
         /\ Stamp(BuildInjectionFinding(c, url)).from = c
<1> DEFINE f == BuildInjectionFinding(c, url)
           k == ComputeFingerprint(tool, f)
<1>1. f.type = "sql_injection" /\ f.from = c /\ {"type", "from", "fingerprint"} \subseteq DOMAIN f
  BY DEF BuildInjectionFinding, RawFinding
<1> HIDE DEF f, k
<1>2. [f EXCEPT !.fingerprint = k].type = f.type /\ [f EXCEPT !.fingerprint = k].from = f.from
  BY <1>1
<1> QED BY <1>1, <1>2 DEF Stamp, k, f

\* sqlmap: a whole report yields every technique of every parameter once, in
\* order, with its own title and payload and under its own parameter, however
\* many parameters and techniques it tells of.
THEOREM SqlmapReadsExactly == Spec => []SqlmapExact
<1>1. Lined /\ Reported => SqlmapExact
  <2> SUFFICES ASSUME Lined, Reported, tool = "sqlmap", phase = "done", ~report.silent, ~report.cut
               PROVE  [i \in DOMAIN Injections(findings) |-> Injections(findings)[i].from] = ToldOf(report.params)
    BY DEF SqlmapExact, Injections, ToldOf, OwnOf, OwnTechnique
  <2> DEFINE told == ToldOf(report.params)
             p == ParseOutput.findings
             n == Len(told)
  <2>1. report.params \in Seq(Params) /\ report.dbms \in STRING
    BY DEF Reported, ReportsOf, SqlmapReports, Params, Techniques
  <2>2. p = ParseSQLMapOutput(SqlmapOutput(report)).findings
    BY DEF ParseOutput
  <2>3. PICK url : \E D :
           /\ ParseSQLMapOutput(SqlmapOutput(report)).findings = Mapped(Build(url), ToldOf(report.params)) \o D
           /\ ToldOf(report.params) \in Seq(InFlight)
           /\ D = <<>> \/ \E f : D = <<f>> /\ f.type # "sql_injection" /\ {"type", "fingerprint"} \subseteq DOMAIN f
    BY <2>1, SqlmapReads
  <2>4. PICK D :
           /\ ParseSQLMapOutput(SqlmapOutput(report)).findings = Mapped(Build(url), ToldOf(report.params)) \o D
           /\ ToldOf(report.params) \in Seq(InFlight)
           /\ D = <<>> \/ \E f : D = <<f>> /\ f.type # "sql_injection" /\ {"type", "fingerprint"} \subseteq DOMAIN f
    BY <2>3
  <2>5. findings = Stamped(p)
    BY DEF Lined, LineTools
  <2> DEFINE P == Mapped(Build(url), told)
             G == Stamped(P)
             B == {Stamp(BuildInjectionFinding(c, url)) : c \in InFlight}
  <2>6. p = P \o D /\ told \in Seq(InFlight)
    BY <2>2, <2>4
  <2> HIDE DEF p, told
  <2>7. P \in Seq(Built(url)) /\ n \in Nat /\ DOMAIN told = 1..n /\ DOMAIN P = 1..n
        /\ \A i \in 1..n : told[i] \in InFlight /\ P[i] = BuildInjectionFinding(told[i], url)
    <3>1. n \in Nat /\ DOMAIN told = 1..n /\ \A i \in 1..n : told[i] \in InFlight
      BY <2>6, LenProperties
    <3>2. P \in Seq(Built(url))
      <4>1. NoTechnique \in InFlight
        BY DEF NoTechnique, InFlight, SqlmapValue
      <4> QED BY <2>6, <4>1, BuildGrows
    <3>3. P = [i \in 1..n |-> BuildInjectionFinding(told[i], url)]
      BY <3>1 DEF Mapped, Build
    <3> HIDE DEF n, P
    <3> QED BY <3>1, <3>2, <3>3
  <2> HIDE DEF P, n
  <2>8. /\ G \in [1..n -> B] /\ G \in Seq(B)
        /\ \A i \in 1..n : G[i].from = told[i]
    <3>1. G = [i \in 1..n |-> Stamp(P[i])]
      BY <2>7 DEF Stamped, Stamp
    <3>2. \A i \in 1..n : G[i] = Stamp(BuildInjectionFinding(told[i], url))
      BY <2>7, <3>1
    <3>3. \A i \in 1..n : G[i] \in B /\ G[i].from = told[i]
      BY <2>7, <3>2, StampKeeps
    <3> HIDE DEF G, B
    <3>4. G \in [1..n -> B]
      BY <3>1, <3>3
    <3> QED BY <2>7, <3>3, <3>4
  <2>9. \A f \in B : f.type = "sql_injection"
    BY StampKeeps
  <2> HIDE DEF G, B
  <2>10. Injections(G) = G
    BY <2>8, <2>9, InjectionsAll
  <2>11. Injections(findings) = G
    <3>1. CASE D = <<>>
      <4>1. p = P
        BY <2>6, <2>7, <3>1
      <4> QED BY <2>5, <2>10, <4>1 DEF G
    <3>2. CASE D # <<>>
      <4>1. PICK f : D = <<f>> /\ f.type # "sql_injection" /\ {"type", "fingerprint"} \subseteq DOMAIN f
        BY <2>4, <3>2
      <4> DEFINE S == Built(url) \cup {f}
                 E == B \cup {Stamp(f)}
      <4>2. P \in Seq(S) /\ f \in S
        <5>1. f \in S /\ \A i \in 1..Len(P) : P[i] \in S
          BY <2>7
        <5> HIDE DEF S
        <5> QED BY <2>7, <5>1
      <4>3. p = Append(P, f)
        <5> HIDE DEF S
        <5> QED BY <2>6, <4>1, <4>2, AppendIsConcat
      <4>4. findings = Append(G, Stamp(f))
        <5> HIDE DEF S
        <5> QED BY <2>5, <4>2, <4>3, StampsAppend DEF G
      <4>5. InjectionOne(Stamp(f)) = <<>>
        <5>1. Stamp(f).type = f.type
          <6> DEFINE k == ComputeFingerprint(tool, f)
          <6> HIDE DEF k
          <6>1. Stamp(f) = [f EXCEPT !.fingerprint = k]
            BY DEF Stamp, k
          <6> QED BY <4>1, <6>1
        <5> QED BY <4>1, <5>1 DEF InjectionOne
      <4>6. G \in Seq(E) /\ Stamp(f) \in E
        <5>1. G \in Seq(B)
          BY <2>8
        <5>2. \A i \in 1..Len(G) : G[i] \in B
          BY ONLY <5>1
        <5>3. Stamp(f) \in E /\ \A i \in 1..Len(G) : G[i] \in E
          BY ONLY <5>2
        <5> HIDE DEF E
        <5>4. G \in Seq(E)
          BY ONLY <5>1, <5>3
        <5> QED BY <5>3, <5>4
      <4>7. Injections(findings) = Injections(G) \o <<>> /\ Injections(G) \in Seq(E)
        <5> HIDE DEF E
        <5> QED BY <4>4, <4>5, <4>6, InjectionsAppend
      <4> HIDE DEF E
      <4> QED BY <2>10, <4>7, ConcatEmptySeq
    <3> QED BY <3>1, <3>2
  <2>12. [i \in DOMAIN G |-> G[i].from] = told
    <3>1. DOMAIN G = 1..n /\ told = [i \in 1..n |-> told[i]]
      BY <2>6, <2>7, <2>8
    <3> QED BY <2>8, <3>1
  <2> QED BY <2>11, <2>12 DEF told
<1> QED BY <1>1, AlwaysLined, PTL
=============================================================================
