------------------------------ MODULE Findings ------------------------------
(***************************************************************************)
(* What the tool parsers share: the identity of a finding, its            *)
(* fingerprint (internal/tools/fingerprint.go), the severities of the     *)
(* platform, the lenient field access of internal/tools/jsonx, and the    *)
(* shape of a parser's answer.                                            *)
(*                                                                         *)
(* A report is a record whose "body" says what the parser finds when it   *)
(* decodes the bytes: "whole" (the expected document), "other" (well      *)
(* formed, without the section the parser reads), "garbled" (cut short or *)
(* not the format), "empty" (no byte), "unread" (the file cannot be       *)
(* read).  Texts that only decorate a finding (description, references,   *)
(* tags, snippets, metadata) are left out.                                *)
(***************************************************************************)
EXTENDS Integers, Sequences, SequencesExt, FiniteSets, TLC

CONSTANT Pieces(_)   \* what the bars in the text of a field cut it into, in order

None == "none"            \* the empty string of Go
Mistyped == "mistyped"    \* a JSON value of another type than the parser asks for

\* The value of a string field: absent and mistyped read as the empty string.
ExtractString(v) == IF v = Mistyped THEN None ELSE v

\* The value of a numeric field: absent and mistyped (written -1) read as zero.
ExtractFloat(n) == IF n < 0 THEN 0 ELSE n

Severities == {"critical", "high", "medium", "low", "info"}

\* "from" is not a field of the code: it is the part of the report that the
\* finding was made from, for the properties to refer to.
RawFinding(from, type, url, param, file, line, severity) ==
  [from |-> from, type |-> type, url |-> url, param |-> param,
   file |-> file, line |-> line, severity |-> severity,
   cvss |-> <<0, None>>, fingerprint |-> None]

\* The six fields joined by bars, as the pieces between the bars: a bar inside
\* a field is one among the others.  SHA-256 is taken to be injective.
ComputeFingerprint(tool, f) ==
  <<tool>> \o Pieces(f.type) \o Pieces(f.url) \o Pieces(f.param) \o Pieces(f.file) \o <<f.line>>

\* No field of the finding contains a bar.
NoBars(f) ==
  /\ Pieces(f.type) = <<f.type>> /\ Pieces(f.url) = <<f.url>>
  /\ Pieces(f.param) = <<f.param>> /\ Pieces(f.file) = <<f.file>>

Parsed(fs) == [outcome |-> "ok", findings |-> fs]
Failed == [outcome |-> "error", findings |-> <<>>]
Panicked == [outcome |-> "panic", findings |-> <<>>]

\* The reports of a tool whose records are the members of a set.
Document(set) == [body : STRING, records : Seq(set)]

\* The lines that a bufio.Scanner yields: the first that is over its cap ends
\* the reading, and the parsers do not return the scanner's error.
Scanned(lines) ==
  LET long == SelectInSeq(lines, LAMBDA l : l.kind = "long")
  IN  IF long = 0 THEN lines ELSE SubSeq(lines, 1, long - 1)

\* The findings of all records, in the order of the report; an adaptor
\* answers a sequence, empty for a record it drops.
Each(records, Adapt(_)) ==
  FlattenSeq([i \in DOMAIN records |-> Adapt(records[i])])

\* The records that pass a test, in their order.
Select(records, Test(_)) ==
  LET Adapt(r) == IF Test(r) THEN <<r>> ELSE <<>> IN Each(records, Adapt)

\* The records outside a set, in their order.
Without(records, set) == Select(records, LAMBDA r : r \notin set)
=============================================================================
