------------------------------ MODULE Completion ------------------------------
(***************************************************************************)
(* Completion events: their validation and how a run's findings are cut    *)
(* into a sequence of them (SplitForCompletion).  An event carries what    *)
(* its consumer tells apart; "named" stands for the job, scan and engine   *)
(* identifiers all being there.                                            *)
(***************************************************************************)
EXTENDS Naturals, Sequences

CONSTANT MaxFindingsPerEvent

ASSUME SplitAssumption == MaxFindingsPerEvent \in Nat \ {0}

EventSeq(i, n) == [index |-> i, total |-> n]

ValidSeq(s) == s.index >= 1 /\ s.total >= 1 /\ s.index <= s.total

IsTerminal(s) == s.index = s.total

Validate(ev) ==
  /\ ev.type \in {"job_completed", "partial_findings"}
  /\ ev.named
  /\ ValidSeq(ev.seq)
  /\ Len(ev.findings) <= MaxFindingsPerEvent
  /\ IsTerminal(ev.seq) \/ ev.type = "partial_findings"

\* The event of a job that ends with one: failed, canceled, or recon's.
JobCompleted(status, named) ==
  [type |-> "job_completed", status |-> status, named |-> named,
   count |-> 0, findings |-> <<>>, seq |-> EventSeq(1, 1)]

\* The events a run's findings need: as many as hold them all.
EventTotalFloor(n) ==
  IF n <= MaxFindingsPerEvent THEN 1 ELSE n \div MaxFindingsPerEvent

EventTotal(n) ==
  IF n <= MaxFindingsPerEvent THEN 1
  ELSE (n + MaxFindingsPerEvent - 1) \div MaxFindingsPerEvent

\* Batch i of the findings; the last one is what is left.
Batch(findings, i) ==
  LET start == (i - 1) * MaxFindingsPerEvent
      end == IF start + MaxFindingsPerEvent > Len(findings)
             THEN Len(findings)
             ELSE start + MaxFindingsPerEvent
  IN  SubSeq(findings, start + 1, end)

SplitForCompletion(findings, base) ==
  LET total == EventTotal(Len(findings))
  IN  [i \in 1..total |->
         LET ev == [base EXCEPT !.findings = Batch(findings, i),
                                !.seq = EventSeq(i, total)]
         IN  IF i = total THEN ev
             ELSE [ev EXCEPT !.type = "partial_findings",
                             !.status = "partial_findings", !.count = 0]]

===============================================================================
