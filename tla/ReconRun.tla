------------------------------- MODULE ReconRun -------------------------------
(***************************************************************************)
(* RunRecon: Subfinder, then httpx, then the attack surface, with a        *)
(* progress event at every stage.  Nothing that goes wrong on the way is   *)
(* returned to the caller, and every Redis call uses the job's context.    *)
(*                                                                         *)
(* A host is a name; "T" is "t" in other letters, "blank" is the empty     *)
(* name.  A URL is its host (targetHost).                                  *)
(***************************************************************************)
EXTENDS NativeRun, Completion

CONSTANTS
  ReconLimit,  \* defaultLimit: subdomains kept
  MaxLines     \* bound: lines Subfinder prints

ASSUME ReconAssumption == ReconLimit \in Nat /\ MaxLines \in Nat

VARIABLES
  stream,   \* the event that landed last on the scan's progress stream
  out,      \* events on the completions channel, in order
  subs,     \* subdomains kept
  live,     \* httpx's live hosts, as parsed
  status    \* the status recon_completed will carry

reconVars == <<subs, live, status>>

Hosts == {"t", "T", "a"}
Lower(h) == IF h = "T" THEN "t" ELSE h
MaxProbes == Cardinality(Hosts)

ReconPCs == {"recon", "subfinder", "discovered", "httpx", "probed", "surface", "ended"}

ReconTypeOK ==
  /\ subs \in Seq(Hosts) /\ Len(subs) <= ReconLimit
  /\ live \in Seq(Hosts)
  /\ status \in {"none", "canceled", "no_targets", "httpx_failed", "ok"}

ReconInit ==
  /\ subs = <<>> /\ live = <<>>
  /\ status = "none"

\* ProgressPublisher.Publish on a context: an XADD whose failure is dropped.
XAdd(done, event) ==
  \/ ~done /\ stream' = event
  \/ (done \/ "redis" \in Faults) /\ UNCHANGED stream

\* parseSubfinderOutput and parseHttpxOutput: a line over the scanner's
\* limit ends the scan and hides the lines behind it.
Scanned(lines) ==
  IF Contains(lines, "long")
  THEN SubSeq(lines, 1, SelectInSeq(lines, LAMBDA l : l = "long") - 1)
  ELSE lines

\* Each host that is not blank, where its key is seen first.
Distinct(hosts, key(_)) ==
  LET Seen(i) == \E j \in 1..(i - 1) : key(hosts[j]) = key(hosts[i])
  IN  FlattenSeq([i \in DOMAIN hosts |-> IF hosts[i] = "blank" \/ Seen(i) THEN <<>> ELSE <<hosts[i]>>])

Exactly(h) == h

ParseSubfinder(lines) == Distinct(Scanned(lines), Exactly)

Limited(hosts) == SubSeq(hosts, 1, IF Len(hosts) < ReconLimit THEN Len(hosts) ELSE ReconLimit)

\* The target first, then the subdomains, once each whatever their letters.
ProbeSetUntargeted(target, hosts) == Distinct(hosts, Lower)

ProbeSet(target, hosts) == Distinct(<<target>> \o hosts, Lower)

ReconStarted ==
  /\ pc = "recon"
  /\ XAdd(JobDone, "recon_started")
  /\ Step("subfinder")
  /\ UNCHANGED <<out, reconVars>>

\* A failure under a dead context ends recon; any other is taken for no
\* subdomains.
SubfinderReturns ==
  /\ pc = "subfinder"
  /\ \/ /\ ~JobDone
        /\ \E lines \in BoundedSeq({"T", "a", "blank", "long"}, MaxLines) :
             subs' = Limited(ParseSubfinder(lines))
        /\ Step("discovered") /\ UNCHANGED status
     \/ ~JobDone /\ Step("discovered") /\ UNCHANGED <<subs, status>>
     \/ JobDone /\ Step("ended") /\ status' = "canceled" /\ UNCHANGED subs
  /\ UNCHANGED <<stream, out, live>>

SubdomainsDiscovered ==
  /\ pc = "discovered"
  /\ XAdd(JobDone, "subdomains_discovered")
  /\ IF ProbeSet(job.target, subs) = <<>>
     THEN Step("ended") /\ status' = "no_targets"
     ELSE Step("httpx") /\ UNCHANGED status
  /\ UNCHANGED <<out, subs, live>>

\* The probed hosts that answer, in their order.
Answering(probes, up) ==
  FlattenSeq([i \in DOMAIN probes |-> IF probes[i] \in up THEN <<probes[i]>> ELSE <<>>])

\* httpx prints a record for each host that answers, and the records behind
\* one over the scanner's limit are not seen.
HttpxReturns ==
  /\ pc = "httpx"
  /\ \/ /\ ~JobDone
        /\ \E up \in SUBSET Hosts, n \in 0..MaxProbes :
             LET heard == Answering(ProbeSet(job.target, subs), up)
             IN  /\ n = Len(heard) \/ (n < Len(heard) /\ "overflow" \in Faults)
                 /\ live' = SubSeq(heard, 1, n)
        /\ Step("probed") /\ UNCHANGED status
     \/ /\ Step("ended")
        /\ status' = "httpx_failed"
        /\ UNCHANGED live
  /\ UNCHANGED <<stream, out, subs>>

LivenessProbed ==
  /\ pc = "probed"
  /\ XAdd(JobDone, "liveness_probed")
  /\ Step("surface")
  /\ UNCHANGED <<out, reconVars>>

AttackSurface == [type |-> "attack_surface"]

\* publishAttackSurfaceIfReady: skipped without identifiers, never retried.
PublishAttackSurface ==
  /\ pc = "surface"
  /\ \/ /\ ~JobDone /\ job.named
        /\ out' = Append(out, AttackSurface)
     \/ /\ JobDone \/ ~job.named \/ "redis" \in Faults
        /\ UNCHANGED out
  /\ Step("ended")
  /\ status' = "ok"
  /\ UNCHANGED <<stream, subs, live>>

\* RunRecon returns; its locals are gone.
ReconCompleted ==
  /\ pc = "ended"
  /\ XAdd(JobDone, "recon_completed")
  /\ Step("judge")
  /\ subs' = <<>> /\ live' = <<>> /\ status' = "none"
  /\ UNCHANGED out

ReconStep ==
  \/ ReconStarted
  \/ SubfinderReturns
  \/ SubdomainsDiscovered
  \/ HttpxReturns
  \/ LivenessProbed
  \/ PublishAttackSurface
  \/ ReconCompleted

===============================================================================
