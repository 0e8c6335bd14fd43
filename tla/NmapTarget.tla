----------------------------- MODULE NmapTarget -----------------------------
(***************************************************************************)
(* The target check of nmap (docker/nmap/validation.go, buildargs.go):    *)
(* the spelling of the target is reduced to a bare host, an IP literal is *)
(* checked against the ranges a scan must stay out of, and the same bare  *)
(* host becomes nmap's argument.                                          *)
(*                                                                         *)
(* A spelling is a host and what surrounds it.  The host is a literal, if *)
(* net.ParseIP reads it as an address; loose, if net.ParseIP does not and *)
(* nmap does (an octet range, a wildcard, a short form, an address with a *)
(* zone); or a name.  A bare host is a spelling with nothing around the   *)
(* host; what is left over around it makes it a word that net.ParseIP     *)
(* does not read.                                                         *)
(***************************************************************************)
EXTENDS FiniteSets

Ranges == {"loopback", "multicast", "link-local", "unspecified", "reserved",
           "private", "infra"}
KnownSchemes == {"https", "http", "tcp", "udp"}

Forms == {"name", "literal", "loose"}

\* The ranges are those in which an address lies that nmap would scan.
Spelling == [scheme : KnownSchemes \cup {"ftp", ""}, brackets : BOOLEAN, port : BOOLEAN,
             path : BOOLEAN, form : Forms, ranges : SUBSET Ranges]

StripScheme(t) == IF t.scheme \in KnownSchemes THEN [t EXCEPT !.scheme = ""] ELSE t

\* With a scheme still there the cut falls into its "//" and leaves a word.
StripPath(t) ==
  IF t.scheme # "" THEN [t EXCEPT !.path = FALSE, !.form = "name", !.ranges = {}]
  ELSE [t EXCEPT !.path = FALSE]

\* What is in brackets is the host; without them a port is only recognised at
\* the very end of the word.
StripPort(t) ==
  CASE t.scheme # "" -> t
    [] t.scheme = "" /\ t.brackets -> [t EXCEPT !.brackets = FALSE, !.port = FALSE, !.path = FALSE]
    [] t.scheme = "" /\ ~t.brackets /\ t.path -> t
    [] OTHER -> [t EXCEPT !.port = FALSE]

\* Mutant: the port is looked for before the path is gone.
NormalizePortFirst(t) == StripPath(StripPort(StripScheme(t)))

NormalizeTarget(t) == StripPort(StripPath(StripScheme(t)))

IsIPLiteral(t) == t.form = "literal" /\ ~t.brackets /\ ~t.port /\ ~t.path /\ t.scheme = ""

ValidateIPTarget(ranges, allowPrivate) ==
  /\ ranges \cap {"loopback", "multicast", "link-local", "unspecified", "reserved", "infra"} = {}
  /\ "private" \in ranges => allowPrivate

\* Whatever net.ParseIP does not read passes: a name, which is not resolved
\* here, and a loose address with it.
ValidateTarget(t, allowPrivate) ==
  IsIPLiteral(NormalizeTarget(t)) => ValidateIPTarget(t.ranges, allowPrivate)

\* nmap's argument, or none: the runner then fails at exec.
BuildArgs(t, allowPrivate) ==
  IF ValidateTarget(t, allowPrivate) THEN {NormalizeTarget(t)} ELSE {}
=============================================================================
