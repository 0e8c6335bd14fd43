----------------------------- MODULE LineReports -----------------------------
(***************************************************************************)
(* The parsers of the tools that only print text: corstest, a state       *)
(* machine that gathers a record's fields until its status line, and      *)
(* sqlmap, which cuts the injection blocks out of the log and flushes a   *)
(* technique when the next one, the next parameter or the end comes.      *)
(*                                                                         *)
(* A line is a record with its kind and what it carries.  CorsOutput and  *)
(* SqlmapOutput are the two tools: what they print for what they found.   *)
(***************************************************************************)
EXTENDS Findings

(***************************** corstest ************************************)

CorsKeys == <<"Resource", "Origin", "ACAO", "ACAC">>
Pending == [k \in Range(CorsKeys) |-> None]

CorsFinding(host, pending) ==
  RawFinding([host |-> host, fields |-> pending], "corstest-cors-misconfig",
             IF pending["Resource"] = None THEN host ELSE pending["Resource"],
             None, None, 0, "medium")

\* Mutant: a separator is a line like any other.
CorsLineNoSeparator(acc, l) ==
  CASE l.kind = "field" -> [acc EXCEPT !.pending[l.key] = l.value]
    [] l.kind = "status" /\ l.status = "NotVulnerable" -> [acc EXCEPT !.pending = Pending]
    [] l.kind = "status" /\ l.status = "Vulnerable" /\ acc.pending # Pending ->
         [pending |-> Pending, out |-> Append(acc.out, CorsFinding(l.host, acc.pending))]
    [] OTHER -> acc

\* A status that is neither of the two is no status line: it is skipped and
\* leaves the fields gathered so far in place.
CorsLine(acc, l) ==
  CASE l.kind = "separator" -> [acc EXCEPT !.pending = Pending]
    [] l.kind = "field" -> [acc EXCEPT !.pending[l.key] = l.value]
    [] l.kind = "status" /\ l.status = "NotVulnerable" -> [acc EXCEPT !.pending = Pending]
    [] l.kind = "status" /\ l.status = "Vulnerable" /\ acc.pending # Pending ->
         [pending |-> Pending, out |-> Append(acc.out, CorsFinding(l.host, acc.pending))]
    [] OTHER -> acc

CorsParse(lines) ==
  Parsed(FoldLeft(CorsLine, [pending |-> Pending, out |-> <<>>], Scanned(lines)).out)

CorsReports ==
  [hosts : Seq([host : STRING, printed : 0..4, values : [1..4 -> STRING], long : BOOLEAN,
                status : STRING])]

\* What corstest -v prints for each host it tried; a host is a separator, the
\* first "printed" of the four fields, a line over the scanner's cap if it is
\* "long", and its status ("none": it was interrupted before it printed one).
CorsOutput(hosts) ==
  LET Line(h, k) == [kind |-> "field", key |-> CorsKeys[k], value |-> h.values[k]]
      Status(h) == IF h.status = "none" THEN <<>>
                   ELSE <<[kind |-> "status", host |-> h.host, status |-> h.status]>>
      Long(h) == IF h.long THEN <<[kind |-> "long"]>> ELSE <<>>
      Adapt(h) == <<[kind |-> "separator"]>> \o [k \in 1..h.printed |-> Line(h, k)]
                    \o Long(h) \o Status(h)
  IN  Each(hosts, Adapt)

(****************************** sqlmap *************************************)

MapSqlmapSeverity(technique) ==
  IF technique = "time-based" THEN "medium" ELSE "high"

BuildInjectionFinding(t, url) ==
  RawFinding(t, "sql_injection", url, t.param, None, 0, MapSqlmapSeverity(t.type))

NoTechnique == [param |-> None, type |-> None, title |-> None, payload |-> None]

\* Mutant: the title and the payload outlive their technique.
FlushKeepsTitle(acc, url) ==
  IF None \in {acc.cur.param, acc.cur.type} THEN acc
  ELSE [cur |-> [acc.cur EXCEPT !.type = None],
        out |-> Append(acc.out, BuildInjectionFinding(acc.cur, url))]

\* Close the technique in flight: only the parameter outlives it.
Flush(acc, url) ==
  [cur |-> [NoTechnique EXCEPT !.param = acc.cur.param],
   out |-> IF None \in {acc.cur.param, acc.cur.type} THEN acc.out
           ELSE Append(acc.out, BuildInjectionFinding(acc.cur, url))]

SqlmapLine(acc, l, url) ==
  CASE l.kind = "Parameter" -> [Flush(acc, url) EXCEPT !.cur.param = l.value]
    [] l.kind = "Type" -> [Flush(acc, url) EXCEPT !.cur.type = l.value]
    [] l.kind = "Title" -> [acc EXCEPT !.cur.title = l.value]
    [] l.kind = "Payload" -> [acc EXCEPT !.cur.payload = l.value]
    [] OTHER -> acc

AdaptInjectionFindings(lines, url) ==
  LET Step(acc, l) == SqlmapLine(acc, l, url)
  IN  Flush(FoldLeft(Step, [cur |-> NoTechnique, out |-> <<>>], lines), url).out

\* The last line that names the DBMS wins.
AdaptDBMSFingerprint(lines, url) ==
  LET named == Select(lines, LAMBDA l : l.kind = "DBMS")
  IN  IF named = <<>> \/ Last(named).value = None THEN <<>>
      ELSE <<RawFinding([dbms |-> Last(named).value], "dbms_fingerprint", url, None, None, 0, "info")>>

StripLogPrefixes(lines) == Select(lines, LAMBDA l : l.kind # "log")

\* The first request line anywhere in the text.
ExtractTargetURL(lines) ==
  LET i == SelectInSeq(lines, LAMBDA l : l.kind = "request")
  IN  IF i = 0 THEN None ELSE lines[i].value

\* The blocks between the first two delimiters and the lines after the second.
\* With a single delimiter the slice between them has its bounds the wrong
\* way round, and Go panics.
SplitFindingsRegion(region, url) ==
  LET IsDelimiter(l) == l.kind = "delimiter"
      open == SelectInSeq(region, IsDelimiter)
      close == SelectInSubSeq(region, open + 1, Len(region), IsDelimiter)
  IN  CASE open = 0 -> Parsed(<<>>)
        [] open # 0 /\ close = 0 -> Panicked
        [] OTHER ->
             Parsed(AdaptInjectionFindings(SubSeq(region, open + 1, close - 1), url)
                      \o AdaptDBMSFingerprint(SubSeq(region, close + 1, Len(region)), url))

ParseSQLMapOutput(stdout) ==
  LET text == StripLogPrefixes(stdout)
      header == SelectInSeq(text, LAMBDA l : l.kind = "header")
  IN  CASE stdout = <<>> -> Failed
        [] stdout # <<>> /\ header = 0 -> Parsed(<<>>)
        [] OTHER -> SplitFindingsRegion(SubSeq(text, header, Len(text)), ExtractTargetURL(text))

SqlmapReports ==
  [silent : BOOLEAN, cut : BOOLEAN, dbms : STRING,
   params : Seq([name : STRING \ {None},
                 techniques : Seq([type : STRING \ {None}, title : STRING, payload : STRING])])]

\* What sqlmap prints: its log, and when a parameter is injectable the header,
\* the blocks between two delimiters and the DBMS.  A technique may come
\* without a title or a payload.
SqlmapOutput(told) ==
  LET L(kind, value) == [kind |-> kind, value |-> value]
      Opt(kind, v) == IF v = None THEN <<>> ELSE <<L(kind, v)>>
      Technique(t) == <<L("Type", t.type)>> \o Opt("Title", t.title) \o Opt("Payload", t.payload)
                        \o <<L("log", None)>>
      Block(p) == <<L("Parameter", p.name)>> \o Each(p.techniques, Technique)
      start == <<L("request", "u"), L("log", None)>>
      found == <<L("header", None), L("delimiter", None)>> \o Each(told.params, Block)
      close == <<L("delimiter", None)>> \o Opt("DBMS", told.dbms)
  IN  CASE told.params = <<>> -> start
        [] told.params # <<>> /\ told.cut -> start \o found
        [] OTHER -> start \o found \o close
=============================================================================
