----------------------------- MODULE JobRunProofs -----------------------------
(***************************************************************************)
(* Processor.Process for one delivery, for every job, every set of faults  *)
(* and every number of messages, records and findings per event: what it   *)
(* leaves, what it publishes and what its verdict means.                   *)
(***************************************************************************)
EXTENDS JobRun, SequenceFacts, FiniteSetTheorems, FunctionTheorems

USE CancelAssumption, RecordsAssumption, SplitAssumption, ReconAssumption

-------------------------------------------------------------------------------
(***************************************************************************)
(* The inductive invariant.                                                *)
(***************************************************************************)
JobEventSet ==
  [type : {"job_completed", "partial_findings"},
   status : {"completed", "failed", "canceled", "partial_findings"},
   named : BOOLEAN, count : Nat, findings : Seq(1..MaxRecords),
   seq : [index : Nat, total : Nat]]

\* The parts of the type invariant that the proofs need: recon's lists, what
\* folds over Subfinder's lines return, are not among them.
JobTypeOK ==
  /\ WatchTypeOK
  /\ NativeTypeOK
  /\ job \in JobSpace
  /\ pc \in PCs
  /\ verdict \in {"none", "completed", "failed", "canceled"}
  /\ answer \in {"none", "nil", "error", "notTerminal", "duplicate"}
  /\ out \in Seq({AttackSurface} \cup JobEventSet)
  /\ pending \in Seq(JobEventSet)

Early == {"claim", "subscribe", "started", "judge"} \cup NativePCs \cup ReconPCs
Closing == {"final", "close", "join", "await", "returned"}

\* The watcher's goroutines begin with the subscription and end in the order
\* of the deferred calls.
Watched ==
  /\ pc \in {"claim", "subscribe"} => sub = "none" /\ conv = "none" /\ watcher = "none"
  /\ pc \in {"join", "await"} => sub # "open"
  /\ pc = "await" => Closed
  /\ pc = "returned" => WatcherGone /\ Closed /\ sub # "open"

\* Every message waiting was sent, and every sign of a cancel on its way to
\* the context goes back to one.
Asked ==
  /\ Len(inbox) <= sent
  /\ conv = "send" \/ buffer = 1 \/ (\E i \in DOMAIN inbox : inbox[i] = "cancel") => asked
  /\ own => asked \/ pc = "returned"
  /\ verdict = "canceled" => asked

\* The process lives in cmd.Run and the report file in Run.
Held ==
  /\ proc = "running" => pc = "wait"
  /\ tmp => pc \in {"spawn", "wait", "parse", "post"}
  /\ pc \in NativePCs => job.kind = "native"
  /\ pc \in ReconPCs => job.kind = "recon"
  /\ pc \in {"parse", "post"} => proc # "running"

\* What a report is worth.
Whole == closed \/ (job.tool.lenient /\ job.tool.emptyOK /\ written = 0)

\* What was read of it.
Read ==
  \/ Len(findings) = written
  \/ job.tool.lines /\ job.long \in 1..written /\ Len(findings) = job.long - 1

Worth ==
  /\ exit = "zero" => closed
  /\ pc \in Early \ {"judge"} => ~failed
  /\ pc \in {"claim", "subscribe", "started", "preflight", "mint", "spawn"} => ~capped
  /\ pc = "parse" => ~capped /\ ~ExitRefused
  /\ pc = "post" => ~capped /\ Whole /\ Read
  /\ job.kind = "native" /\ (verdict = "completed" \/ (pc = "judge" /\ ~failed)) =>
       /\ Whole /\ ~capped
       /\ proc # "running"
       /\ job.tool.post \/ Read

\* Which steps have published, judged and answered.
Flow ==
  /\ pc \in Early \ {"judge", "ended"} => out = <<>>
  /\ pc \in Early \cup {"tell"} \/ verdict = "none" => JobEvents = <<>>
  /\ pc \in Early => verdict = "none"
  /\ pc \in Early \cup {"tell", "publish"} => answer = "none"
  /\ pc \notin Early /\ verdict = "none" =>
       pc = "returned" /\ answer \in {"duplicate", "notTerminal"}

\* What has been published is a beginning of the events that tell the
\* verdict, and pending holds the others.
Sent ==
  verdict # "none" =>
    LET all == Events(verdict)
    IN  /\ Len(JobEvents) <= Len(all)
        /\ \A i \in 1..Len(JobEvents) : JobEvents[i] = all[i]
        /\ pc \in {"tell", "publish"} =>
             /\ pending # <<>>
             /\ Len(JobEvents) + Len(pending) = Len(all)
             /\ \A i \in 1..Len(pending) : pending[i] = all[Len(JobEvents) + i]
        /\ answer \in {"nil", "error"} => Len(JobEvents) = Len(all)

\* The stream announces a completion last.
Announced ==
  /\ pc = "final" => verdict = "completed" /\ answer = "nil"
  /\ stream = "job_completed" => pc \in Closing /\ verdict = "completed" /\ answer = "nil"

JobInv ==
  /\ JobTypeOK
  /\ Watched
  /\ Asked
  /\ Held
  /\ Worth
  /\ Flow
  /\ Sent
  /\ Announced

-------------------------------------------------------------------------------
(***************************************************************************)
(* The events of a verdict.                                                *)
(***************************************************************************)
LEMMA TotalPositive ==
  ASSUME NEW n \in Nat
  PROVE  EventTotal(n) \in Nat \ {0}
BY DEF EventTotal

LEMMA BatchShape ==
  ASSUME NEW S, NEW f \in Seq(S), NEW i \in Nat \ {0}
  PROVE  Batch(f, i) \in Seq(S) /\ Len(Batch(f, i)) <= MaxFindingsPerEvent
<1> DEFINE start == (i - 1) * MaxFindingsPerEvent
           end == IF start + MaxFindingsPerEvent > Len(f) THEN Len(f)
                  ELSE start + MaxFindingsPerEvent
<1>1. start \in Nat
  <2>1. i - 1 \in Nat
    OBVIOUS
  <2> QED BY <2>1
<1> HIDE DEF start
<1>2. end \in 0..Len(f) /\ end <= start + MaxFindingsPerEvent
  BY <1>1
<1>3. Batch(f, i) = SubSeq(f, start + 1, end)
  BY DEF Batch, start
<1> HIDE DEF end
<1>4. \A k \in (start + 1)..end : f[k] \in S
  BY <1>1, <1>2
<1>5. /\ SubSeq(f, start + 1, end) \in Seq(S)
      /\ Len(SubSeq(f, start + 1, end)) = IF start + 1 <= end THEN end - (start + 1) + 1 ELSE 0
  BY <1>1, <1>2, <1>4, SubSeqProperties
<1> QED BY <1>1, <1>2, <1>3, <1>5

\* What makes a sequence of events that of verdict v.
Telling(all, v) ==
  /\ all \in Seq(JobEventSet) /\ Len(all) >= 1
  /\ all[Len(all)].status = v
  /\ \A i \in 1..Len(all) :
       /\ all[i].seq.index = i /\ all[i].seq.total = Len(all)
       /\ all[i].type = "job_completed" <=> i = Len(all)
       /\ all[i].status \in {v, "partial_findings"}
       /\ Len(all[i].findings) <= MaxFindingsPerEvent

LEMMA SplitTells ==
  ASSUME NEW f \in Seq(1..MaxRecords), NEW named \in BOOLEAN
  PROVE  Telling(SplitForCompletion(f, [JobCompleted("completed", named) EXCEPT !.count = Len(f)]),
                 "completed")
<1> DEFINE base == [JobCompleted("completed", named) EXCEPT !.count = Len(f)]
           total == EventTotal(Len(f))
           mid(i) == [base EXCEPT !.findings = Batch(f, i), !.seq = EventSeq(i, total)]
           ev(i) == IF i = total THEN mid(i)
                    ELSE [mid(i) EXCEPT !.type = "partial_findings",
                                        !.status = "partial_findings", !.count = 0]
           all == [i \in 1..total |-> ev(i)]
<1>1. total \in Nat \ {0}
  BY TotalPositive
<1>2. SplitForCompletion(f, base) = all
  BY DEF SplitForCompletion
<1> HIDE DEF total
<1>3. base = [type |-> "job_completed", status |-> "completed", named |-> named,
              count |-> Len(f), findings |-> <<>>, seq |-> EventSeq(1, 1)]
  BY SMTT(60) DEF JobCompleted
<1> HIDE DEF base
<1>4. ASSUME NEW i \in 1..total
      PROVE  /\ ev(i) \in JobEventSet
             /\ ev(i).seq.index = i /\ ev(i).seq.total = total
             /\ ev(i).type = "job_completed" <=> i = total
             /\ ev(i).status = IF i = total THEN "completed" ELSE "partial_findings"
             /\ Len(ev(i).findings) <= MaxFindingsPerEvent
  <2>1. Batch(f, i) \in Seq(1..MaxRecords) /\ Len(Batch(f, i)) <= MaxFindingsPerEvent
    BY <1>1, BatchShape
  <2>2. mid(i) = [type |-> "job_completed", status |-> "completed", named |-> named,
                  count |-> Len(f), findings |-> Batch(f, i), seq |-> EventSeq(i, total)]
    <3> DEFINE r1 == [type |-> "job_completed", status |-> "completed", named |-> named,
                      count |-> Len(f), findings |-> Batch(f, i), seq |-> EventSeq(1, 1)]
    <3>1. [base EXCEPT !.findings = Batch(f, i)] = r1
      BY <1>3
    <3>0. r1 = [type |-> "job_completed", status |-> "completed", named |-> named,
                count |-> Len(f), findings |-> Batch(f, i), seq |-> EventSeq(1, 1)]
      OBVIOUS
    <3> HIDE DEF r1
    <3>2. [r1 EXCEPT !.seq = EventSeq(i, total)]
            = [type |-> "job_completed", status |-> "completed", named |-> named,
               count |-> Len(f), findings |-> Batch(f, i), seq |-> EventSeq(i, total)]
      BY <3>0
    <3>3. mid(i) = [[base EXCEPT !.findings = Batch(f, i)] EXCEPT !.seq = EventSeq(i, total)]
      OBVIOUS
    <3> QED BY <3>1, <3>2, <3>3
  <2> HIDE DEF mid
  <2>3. [mid(i) EXCEPT !.type = "partial_findings", !.status = "partial_findings", !.count = 0]
          = [type |-> "partial_findings", status |-> "partial_findings", named |-> named,
             count |-> 0, findings |-> Batch(f, i), seq |-> EventSeq(i, total)]
    <3> DEFINE P == "partial_findings"
               r1 == [type |-> P, status |-> "completed", named |-> named,
                      count |-> Len(f), findings |-> Batch(f, i), seq |-> EventSeq(i, total)]
               r2 == [type |-> P, status |-> P, named |-> named,
                      count |-> Len(f), findings |-> Batch(f, i), seq |-> EventSeq(i, total)]
    <3>1. [mid(i) EXCEPT !.type = P] = r1
      BY <2>2
    <3>0. /\ r1 = [type |-> P, status |-> "completed", named |-> named,
                   count |-> Len(f), findings |-> Batch(f, i), seq |-> EventSeq(i, total)]
          /\ r2 = [type |-> P, status |-> P, named |-> named,
                   count |-> Len(f), findings |-> Batch(f, i), seq |-> EventSeq(i, total)]
      OBVIOUS
    <3> HIDE DEF r1, r2
    <3>2. [r1 EXCEPT !.status = P] = r2
      BY <3>0
    <3>3. [r2 EXCEPT !.count = 0]
            = [type |-> P, status |-> P, named |-> named,
               count |-> 0, findings |-> Batch(f, i), seq |-> EventSeq(i, total)]
      BY <3>0
    <3>4. [mid(i) EXCEPT !.type = P, !.status = P, !.count = 0]
            = [[[mid(i) EXCEPT !.type = P] EXCEPT !.status = P] EXCEPT !.count = 0]
      OBVIOUS
    <3> QED BY <3>1, <3>2, <3>3, <3>4
  <2>4. EventSeq(i, total) \in [index : Nat, total : Nat]
        /\ EventSeq(i, total).index = i /\ EventSeq(i, total).total = total
    BY <1>1 DEF EventSeq
  <2>5. CASE i = total
    <3>1. ev(i) = mid(i)
      BY <2>5
    <3> HIDE DEF ev
    <3>2. Len(f) \in Nat
      OBVIOUS
    <3> QED BY <2>1, <2>2, <2>4, <2>5, <3>1, <3>2 DEF JobEventSet
  <2>6. CASE i # total
    <3>1. ev(i) = [mid(i) EXCEPT !.type = "partial_findings", !.status = "partial_findings", !.count = 0]
      BY <2>6
    <3>2. ev(i) = [type |-> "partial_findings", status |-> "partial_findings", named |-> named,
                   count |-> 0, findings |-> Batch(f, i), seq |-> EventSeq(i, total)]
      BY <2>3, <3>1
    <3> HIDE DEF ev
    <3> QED BY <2>1, <2>4, <2>6, <3>2 DEF JobEventSet
  <2> QED BY <2>5, <2>6
<1> HIDE DEF ev
<1>5. all \in Seq(JobEventSet) /\ Len(all) = total /\ \A i \in 1..total : all[i] = ev(i)
  BY <1>1, <1>4
<1> HIDE DEF all
<1>6. Telling(all, "completed")
  BY <1>1, <1>4, <1>5 DEF Telling
<1> QED BY <1>2, <1>6 DEF base

LEMMA EventsTell ==
  ASSUME JobTypeOK, NEW v \in {"completed", "failed", "canceled"}
  PROVE  Telling(Events(v), v)
<1>1. job.named \in BOOLEAN
  BY DEF JobTypeOK, JobSpace, NativeJobs
<1>2. CASE v = "completed" /\ job.kind = "native"
  BY <1>1, <1>2, SplitTells DEF Events, JobTypeOK, NativeTypeOK
<1>3. CASE ~(v = "completed" /\ job.kind = "native")
  <2> DEFINE e == JobCompleted(v, job.named)
  <2>1. Events(v) = <<e>>
    BY <1>3 DEF Events
  <2>2. /\ e \in JobEventSet /\ e.seq.index = 1 /\ e.seq.total = 1 /\ e.type = "job_completed"
        /\ e.status = v /\ e.findings = <<>>
    BY <1>1 DEF JobCompleted, JobEventSet, EventSeq
  <2> HIDE DEF e
  <2> QED BY <2>1, <2>2 DEF Telling
<1> QED BY <1>2, <1>3

-------------------------------------------------------------------------------
(***************************************************************************)
(* What the steps leave alone.                                             *)
(***************************************************************************)
LEMMA AppendEvent ==
  ASSUME JobTypeOK, NEW e \in JobEventSet, out' = Append(out, e)
  PROVE  JobEvents' = Append(JobEvents, e)
<1>0. out \in Seq({AttackSurface} \cup JobEventSet)
  BY DEF JobTypeOK
<1>1. e.type # "attack_surface"
  BY DEF JobEventSet
<1>2. CASE out = <<>>
  <2>1. out' = <<e>> /\ out'[1] = e
    BY <1>2
  <2> QED BY <1>1, <1>2, <2>1 DEF JobEvents
<1>3. CASE out # <<>>
  <2>1. out' # <<>> /\ out'[1] = out[1] /\ Tail(out') = Append(Tail(out), e)
    <3>1. e \in {AttackSurface} \cup JobEventSet
      OBVIOUS
    <3> QED BY <1>0, <1>3, <3>1
  <2> QED BY <1>3, <2>1 DEF JobEvents
<1> QED BY <1>2, <1>3

LEMMA JobEventsSeq ==
  ASSUME JobTypeOK
  PROVE  JobEvents \in Seq({AttackSurface} \cup JobEventSet)
BY DEF JobTypeOK, JobEvents

\* A step of Process that leaves the watcher alone.
LEMMA QuietWatch ==
  ASSUME JobInv, UNCHANGED watchVars, pc # "returned", pc' \notin {"claim", "join", "await"},
         pc' = "subscribe" => pc = "claim",
         pc' = "returned" => pc = "claim",
         verdict' = "canceled" => verdict = "canceled" \/ own
  PROVE  WatchTypeOK' /\ Watched' /\ Asked'
<1>0. WatchTypeOK /\ Watched /\ Asked
  BY DEF JobInv, JobTypeOK
<1>1. WatchTypeOK'
  BY <1>0 DEF WatchTypeOK, watchVars
<1>2. Watched'
  BY <1>0 DEF Watched, watchVars, WatcherGone, Closed
<1>3. Asked'
  BY <1>0 DEF Asked, watchVars
<1> QED BY <1>1, <1>2, <1>3

\* A step outside the run.
LEMMA QuietRun ==
  ASSUME JobInv, UNCHANGED <<toolVars, job, failed, findings, verdict>>,
         pc \notin NativePCs \cup ReconPCs \cup {"judge"},
         pc' \notin NativePCs \cup ReconPCs \cup {"judge"},
         pc' \in Early => pc \in Early
  PROVE  NativeTypeOK' /\ Held' /\ Worth'
<1>0. NativeTypeOK /\ Held /\ Worth
  BY DEF JobInv, JobTypeOK
<1>1. NativeTypeOK'
  BY <1>0 DEF NativeTypeOK, toolVars
<1>2. Held'
  BY <1>0 DEF Held, toolVars, NativePCs, ReconPCs
<1>3. Worth'
  BY <1>0 DEF Worth, toolVars, Whole, Read, ExitRefused, NativePCs, ReconPCs, Early
<1> QED BY <1>1, <1>2, <1>3

\* A step that publishes nothing for the job.
LEMMA QuietSent ==
  ASSUME JobInv, UNCHANGED <<out, pending, job, verdict>>,
         verdict # "none" => findings' = findings,
         pc' \in {"tell", "publish"} => pc \in {"tell", "publish"},
         answer' \in {"nil", "error"} => answer \in {"nil", "error"}
  PROVE  Sent'
<1>1. Sent
  BY DEF JobInv
<1>2. JobEvents' = JobEvents
  BY DEF JobEvents
<1>3. verdict # "none" => Events(verdict)' = Events(verdict)
  BY DEF Events
<1> QED BY <1>1, <1>2, <1>3 DEF Sent

-------------------------------------------------------------------------------
(***************************************************************************)
(* The steps of Process before and after the run.                          *)
(***************************************************************************)
\* The parts of the invariant give the whole.
LEMMA Parts ==
  ASSUME WatchTypeOK', NativeTypeOK', job' \in JobSpace, pc' \in PCs,
         verdict' \in {"none", "completed", "failed", "canceled"},
         answer' \in {"none", "nil", "error", "notTerminal", "duplicate"},
         out' \in Seq({AttackSurface} \cup JobEventSet), pending' \in Seq(JobEventSet),
         Watched', Asked', Held', Worth', Flow', Sent', Announced'
  PROVE  JobInv'
BY DEF JobInv, JobTypeOK

LEMMA OpeningKeeps ==
  ASSUME JobInv, Claim \/ SpawnCancelWatcher
  PROVE  JobInv'
<1> USE DEF PCs, NativePCs, ReconPCs, Early, Closing, Step
<1>0. JobTypeOK /\ Watched /\ Asked /\ Held /\ Worth /\ Flow /\ Sent /\ Announced
  BY DEF JobInv
<1>1. CASE Claim
  <2>1. /\ pc = "claim" /\ pc' \in {"subscribe", "returned"}
        /\ UNCHANGED <<job, failed, findings, watchVars, toolVars, stream, out, reconVars, verdict, pending>>
        /\ \/ pc' = "subscribe" /\ answer' = answer
           \/ pc' = "returned" /\ answer' \in {"duplicate", "notTerminal"}
    BY <1>1 DEF Claim
  <2>2. WatchTypeOK' /\ Watched' /\ Asked'
    BY <1>0, <2>1, QuietWatch
  <2>3. NativeTypeOK' /\ Held' /\ Worth'
    BY <1>0, <2>1, QuietRun
  <2>4. Sent'
    BY <1>0, <2>1, QuietSent
  <2>5. Flow' /\ Announced'
    BY <1>0, <2>1 DEF Flow, Announced, JobEvents
  <2> QED BY <1>0, <2>1, <2>2, <2>3, <2>4, <2>5, Parts DEF JobTypeOK
<1>2. CASE SpawnCancelWatcher
  <2>1. /\ pc = "subscribe" /\ pc' = "started" /\ Subscribe
        /\ UNCHANGED <<job, failed, findings, toolVars, stream, out, reconVars, verdict, pending, answer>>
    BY <1>2 DEF SpawnCancelWatcher, processVars
  <2>2. WatchTypeOK'
    BY <1>0, <2>1 DEF Subscribe, JobTypeOK, WatchTypeOK
  <2>3. Watched' /\ Asked'
    BY <1>0, <2>1 DEF Subscribe, Watched, Asked
  <2>4. NativeTypeOK' /\ Held' /\ Worth'
    BY <1>0, <2>1, QuietRun
  <2>5. Sent'
    BY <1>0, <2>1, QuietSent
  <2>6. Flow' /\ Announced'
    BY <1>0, <2>1 DEF Flow, Announced, JobEvents
  <2> QED BY <1>0, <2>1, <2>2, <2>3, <2>4, <2>5, <2>6, Parts DEF JobTypeOK
<1> QED BY <1>1, <1>2

\* The verdict and the events that tell it.
LEMMA VerdictSent ==
  ASSUME JobInv, pc \in Early, pc \in {"judge", "started"}, out' = out, UNCHANGED <<job, findings>>,
         verdict' \in {"completed", "failed", "canceled"}, answer' = answer,
         pending' = Events(verdict')
  PROVE  Sent' /\ pending' \in Seq(JobEventSet)
<1>0. JobTypeOK /\ Flow
  BY DEF JobInv
<1>1. JobEvents' = <<>> /\ answer' = "none"
  BY <1>0 DEF Flow, JobEvents
<1>2. Telling(Events(verdict'), verdict')
  BY <1>0, EventsTell
<1>3. Events(verdict)' = Events(verdict')
  BY DEF Events
<1>4. pending' \in Seq(JobEventSet) /\ Len(pending') >= 1
  BY <1>2 DEF Telling
<1>5. pending' # <<>> /\ Len(JobEvents') = 0 /\ Len(pending') \in Nat
  BY <1>1, <1>4
<1>6. \A i \in 1..Len(pending') : pending'[i] = pending'[Len(JobEvents') + i]
  BY <1>5
<1> QED BY <1>1, <1>3, <1>4, <1>5, <1>6 DEF Sent

LEMMA JobStartedKeeps ==
  ASSUME JobInv, JobStarted
  PROVE  JobInv'
<1> USE DEF PCs, NativePCs, ReconPCs, Early, Closing, Step
<1>0. JobTypeOK /\ Watched /\ Asked /\ Held /\ Worth /\ Flow /\ Sent /\ Announced
  BY DEF JobInv
<1>1. /\ pc = "started"
      /\ UNCHANGED <<job, failed, findings, watchVars, toolVars, out, reconVars, answer>>
      /\ stream' \in {"job_started", stream}
      /\ \/ job.kind = "recon" /\ pc' = "recon" /\ UNCHANGED <<verdict, pending>>
         \/ job.kind = "native" /\ pc' = "preflight" /\ UNCHANGED <<verdict, pending>>
         \/ /\ job.kind = "unknown" /\ pc' = "tell"
            /\ verdict' = "failed" /\ pending' = <<JobCompleted("failed", job.named)>>
  <2>1. job.kind \in {"recon", "native", "unknown"}
    BY <1>0 DEF JobTypeOK, JobSpace, NativeJobs
  <2> QED BY <2>1 DEF JobStarted, XAdd
<1>2. WatchTypeOK' /\ Watched' /\ Asked'
  BY <1>0, <1>1, QuietWatch DEF Flow
<1>3. NativeTypeOK'
  BY <1>0, <1>1 DEF JobTypeOK, NativeTypeOK, toolVars
<1>4. Held' /\ Worth'
  BY <1>0, <1>1 DEF Held, Worth, Whole, Read, ExitRefused, toolVars, Flow
<1>5. verdict = "none" /\ answer = "none" /\ out = <<>> /\ JobEvents' = JobEvents /\ JobEvents = <<>>
  BY <1>0, <1>1 DEF Flow, JobEvents
<1>6. Flow' /\ Announced'
  BY <1>0, <1>1, <1>5 DEF Flow, Announced
<1>7. CASE job.kind = "unknown"
  <2>1. pending' = Events(verdict')
    BY <1>1, <1>7 DEF Events
  <2>2. Sent' /\ pending' \in Seq(JobEventSet)
    BY <1>0, <1>1, <1>7, <2>1, VerdictSent
  <2> QED BY <1>0, <1>1, <1>2, <1>3, <1>4, <1>6, <1>7, <2>2, Parts DEF JobTypeOK
<1>8. CASE job.kind # "unknown"
  <2>1. Sent'
    BY <1>1, <1>5, <1>8 DEF Sent
  <2> QED BY <1>0, <1>1, <1>2, <1>3, <1>4, <1>6, <1>8, <2>1, Parts DEF JobTypeOK
<1> QED BY <1>7, <1>8

LEMMA JudgeKeeps ==
  ASSUME JobInv, Judge
  PROVE  JobInv'
<1> USE DEF PCs, NativePCs, ReconPCs, Early, Closing, Step
<1>0. JobTypeOK /\ Watched /\ Asked /\ Held /\ Worth /\ Flow /\ Sent /\ Announced
  BY DEF JobInv
<1>1. /\ pc = "judge" /\ pc' = IF verdict' = "completed" THEN "publish" ELSE "tell"
      /\ UNCHANGED <<job, failed, findings, watchVars, toolVars, stream, out, reconVars, answer>>
      /\ verdict' \in {"completed", "failed", "canceled"} /\ pending' = Events(verdict')
      /\ verdict' = "canceled" => own
      /\ verdict' = "completed" => ~failed
  BY DEF Judge, Discriminate
<1>2. WatchTypeOK' /\ Watched' /\ Asked'
  BY <1>0, <1>1, QuietWatch
<1>3. NativeTypeOK'
  BY <1>0, <1>1 DEF JobTypeOK, NativeTypeOK, toolVars
<1>4. Held'
  BY <1>0, <1>1 DEF Held, toolVars
<1>5. Worth'
  BY <1>0, <1>1 DEF Worth, Whole, Read, toolVars
<1>6. Sent' /\ pending' \in Seq(JobEventSet)
  BY <1>1, VerdictSent
<1>7. Flow'
  BY <1>0, <1>1 DEF Flow, JobEvents
<1>8. Announced'
  BY <1>0, <1>1 DEF Announced
<1> QED BY <1>0, <1>1, <1>2, <1>3, <1>4, <1>5, <1>6, <1>7, <1>8, Parts DEF JobTypeOK

\* The steps that only tell the progress stream.
LEMMA StreamKeeps ==
  ASSUME JobInv, Tell \/ FinalProgress
  PROVE  JobInv'
<1> USE DEF PCs, NativePCs, ReconPCs, Early, Closing, Step
<1>0. JobTypeOK /\ Watched /\ Asked /\ Held /\ Worth /\ Flow /\ Sent /\ Announced
  BY DEF JobInv
<1>1. /\ UNCHANGED <<job, failed, findings, watchVars, toolVars, out, reconVars, verdict, pending, answer>>
      /\ \/ pc = "tell" /\ pc' = "publish" /\ stream' # "job_completed"
         \/ pc = "final" /\ pc' = "close"
  BY <1>0 DEF Tell, FinalProgress, XAdd, processVars, Announced
<1>2. WatchTypeOK' /\ Watched' /\ Asked'
  BY <1>1, QuietWatch
<1>3. NativeTypeOK' /\ Held' /\ Worth'
  BY <1>1, QuietRun
<1>4. Sent'
  BY <1>1, QuietSent
<1>5. Flow'
  BY <1>0, <1>1 DEF Flow, JobEvents
<1>6. Announced'
  BY <1>0, <1>1 DEF Announced
<1> QED BY <1>0, <1>1, <1>2, <1>3, <1>4, <1>5, <1>6, Parts DEF JobTypeOK

LEMMA PublishKeeps ==
  ASSUME JobInv, PublishCompletion
  PROVE  JobInv'
<1> USE DEF PCs, NativePCs, ReconPCs, Early, Closing, Step
<1>0. JobTypeOK /\ Watched /\ Asked /\ Held /\ Worth /\ Flow /\ Sent /\ Announced
  BY DEF JobInv
<1> DEFINE all == Events(verdict)
<1>1. /\ pc = "publish" /\ pc' \in {"publish", "final", "close"}
      /\ UNCHANGED <<job, failed, findings, watchVars, toolVars, stream, reconVars, verdict>>
      /\ pending' \in {pending, Tail(pending)}
      /\ out' \in {out, Append(out, Head(pending))}
  BY DEF PublishCompletion, Published
<1>2. verdict # "none" /\ verdict \in {"completed", "failed", "canceled"}
  BY <1>0, <1>1 DEF Flow, JobTypeOK
<1>3. /\ pending \in Seq(JobEventSet) /\ pending # <<>>
      /\ JobEvents \in Seq({AttackSurface} \cup JobEventSet)
      /\ Len(JobEvents) + Len(pending) = Len(all)
      /\ \A i \in 1..Len(JobEvents) : JobEvents[i] = all[i]
      /\ \A i \in 1..Len(pending) : pending[i] = all[Len(JobEvents) + i]
  BY <1>0, <1>1, <1>2, JobEventsSeq DEF Sent, JobTypeOK
<1>4. all \in Seq(JobEventSet) /\ Len(all) \in Nat
  BY <1>0, <1>2, EventsTell DEF Telling
<1>5. Events(verdict)' = all
  BY <1>1 DEF Events
<1> HIDE DEF all
<1>6. /\ Head(pending) \in JobEventSet /\ Head(pending) = all[Len(JobEvents) + 1]
      /\ Tail(pending) \in Seq(JobEventSet) /\ Len(Tail(pending)) = Len(pending) - 1
      /\ \A i \in 1..Len(Tail(pending)) : Tail(pending)[i] = all[Len(JobEvents) + 1 + i]
  BY <1>3, <1>4
<1>7. /\ out' \in Seq({AttackSurface} \cup JobEventSet) /\ pending' \in Seq(JobEventSet)
  <2>1. pending' \in Seq(JobEventSet)
    BY <1>1, <1>3, <1>6
  <2>2. Head(pending) \in {AttackSurface} \cup JobEventSet
    BY <1>6
  <2>3. out \in Seq({AttackSurface} \cup JobEventSet)
    BY <1>0 DEF JobTypeOK
  <2>4. Append(out, Head(pending)) \in Seq({AttackSurface} \cup JobEventSet)
    BY <2>2, <2>3
  <2> QED BY <1>1, <2>1, <2>3, <2>4
<1>8. WatchTypeOK' /\ Watched' /\ Asked'
  BY <1>1, QuietWatch
<1>9. NativeTypeOK' /\ Held' /\ Worth'
  BY <1>1, QuietRun
\* One more event of the sequence is out.
<1>10. ASSUME out' = Append(out, Head(pending))
       PROVE  /\ Len(JobEvents') = Len(JobEvents) + 1 /\ Len(JobEvents') <= Len(all)
              /\ \A i \in 1..Len(JobEvents') : JobEvents'[i] = all[i]
  <2>1. JobEvents' = Append(JobEvents, Head(pending))
    BY <1>0, <1>6, <1>10, AppendEvent
  <2>2. Len(JobEvents') = Len(JobEvents) + 1
    BY <1>3, <1>6, <2>1
  <2>3. \A i \in 1..Len(JobEvents) : JobEvents'[i] = JobEvents[i]
    BY <1>3, <1>6, <2>1
  <2>4. JobEvents'[Len(JobEvents) + 1] = Head(pending)
    BY <1>3, <1>6, <2>1
  <2>5. Len(pending) \in Nat \ {0} /\ Len(JobEvents) \in Nat
    BY <1>3
  <2>6. Len(JobEvents) + 1 <= Len(all)
    BY <1>3, <1>4, <2>5
  <2>7. ASSUME NEW i \in 1..(Len(JobEvents) + 1)
        PROVE  JobEvents'[i] = all[i]
    <3>1. CASE i \in 1..Len(JobEvents)
      BY <1>3, <2>3, <3>1
    <3>2. CASE i = Len(JobEvents) + 1
      BY <1>6, <2>4, <3>2
    <3> QED BY <2>5, <3>1, <3>2
  <2> QED BY <2>2, <2>6, <2>7
<1>11. ASSUME out' = out
       PROVE  JobEvents' = JobEvents
  BY <1>11 DEF JobEvents
<1>12. CASE /\ Published
            /\ pending' = Tail(pending)
            /\ IF Tail(pending) # <<>> THEN pc' = "publish" /\ UNCHANGED answer
               ELSE /\ answer' = Answer(verdict)
                    /\ pc' = (IF verdict = "completed" THEN "final" ELSE "close")
  <2>1. /\ Len(JobEvents') = Len(JobEvents) + 1 /\ Len(JobEvents') <= Len(all)
        /\ \A i \in 1..Len(JobEvents') : JobEvents'[i] = all[i]
    BY <1>10, <1>12 DEF Published
  <2>2. CASE Tail(pending) # <<>>
    <3>1. pc' = "publish" /\ answer' = answer /\ answer = "none"
      BY <1>0, <1>1, <1>12, <2>2 DEF Flow
    <3>2. Len(JobEvents') + Len(pending') = Len(all)
      BY <1>3, <1>4, <1>6, <1>12, <2>1
    <3>3. \A i \in 1..Len(pending') : pending'[i] = all[Len(JobEvents') + i]
      BY <1>6, <1>12, <2>1
    <3>4. Sent'
      BY <1>5, <1>12, <2>1, <2>2, <3>1, <3>2, <3>3 DEF Sent
    <3>5. Flow' /\ Announced'
      BY <1>0, <1>1, <1>2, <3>1 DEF Flow, Announced
    <3> QED BY <1>0, <1>1, <1>7, <1>8, <1>9, <3>1, <3>4, <3>5, Parts DEF JobTypeOK
  <2>3. CASE Tail(pending) = <<>>
    <3>1. /\ answer' = Answer(verdict) /\ answer' \in {"nil", "error"}
          /\ pc' = (IF verdict = "completed" THEN "final" ELSE "close")
      BY <1>12, <2>3 DEF Answer
    <3>2. Len(pending) = 1
      <4>1. Len(<<>>) = 0
        OBVIOUS
      <4>2. Len(Tail(pending)) = 0
        BY <2>3, <4>1, Zenon
      <4>3. Len(pending) \in Nat
        BY <1>3
      <4>4. Len(Tail(pending)) = Len(pending) - 1
        BY <1>6
      <4> HIDE <2>3
      <4> QED BY <4>2, <4>3, <4>4
    <3>3. Len(JobEvents') = Len(all)
      BY <1>3, <1>4, <2>1, <3>2
    <3>4. Sent'
      BY <1>5, <2>1, <3>1, <3>3 DEF Sent
    <3>5. Flow' /\ Announced'
      BY <1>0, <1>1, <1>2, <3>1 DEF Flow, Announced, Answer
    <3> QED BY <1>0, <1>1, <1>7, <1>8, <1>9, <3>1, <3>4, <3>5, Parts DEF JobTypeOK
  <2> QED BY <2>2, <2>3
<1>13. CASE answer' = "notTerminal" /\ pc' = "close"
  <2>1. /\ Len(JobEvents') <= Len(all)
        /\ \A i \in 1..Len(JobEvents') : JobEvents'[i] = all[i]
    <3>1. CASE out' = out
      BY <1>3, <1>4, <1>11, <3>1
    <3>2. CASE out' = Append(out, Head(pending))
      BY <1>10, <3>2
    <3> QED BY <1>1, <3>1, <3>2
  <2>2. Sent'
    BY <1>5, <1>13, <2>1 DEF Sent
  <2>3. Flow' /\ Announced'
    BY <1>0, <1>1, <1>2, <1>13 DEF Flow, Announced
  <2> QED BY <1>0, <1>1, <1>7, <1>8, <1>9, <1>13, <2>2, <2>3, Parts DEF JobTypeOK
<1> QED BY <1>12, <1>13 DEF PublishCompletion

\* The deferred calls.
LEMMA ClosingKeeps ==
  ASSUME JobInv, CloseSub \/ JoinConverter \/ AwaitWatcher
  PROVE  JobInv'
<1> USE DEF PCs, NativePCs, ReconPCs, Early, Closing, Step
<1>0. JobTypeOK /\ Watched /\ Asked /\ Held /\ Worth /\ Flow /\ Sent /\ Announced
  BY DEF JobInv
<1>1. /\ UNCHANGED <<job, failed, findings, toolVars, stream, out, reconVars, verdict, pending, answer>>
      /\ UNCHANGED <<inbox, buffer, conv, watcher, sent, asked, root>>
      /\ pc \in {"close", "join", "await"} /\ pc' \in {"join", "await", "returned"}
      /\ pc' = "join" => sub' # "open" /\ own' = own /\ sub' \in {sub, "closed"}
      /\ pc' = "await" => Closed /\ sub' = sub /\ own' = own /\ pc = "join"
      /\ pc' = "returned" => WatcherGone /\ sub' = sub /\ own' = TRUE /\ pc = "await"
  BY DEF CloseSub, JoinConverter, AwaitWatcher, CloseSubscription, CancelOwn, watchVars, processVars
<1>2. WatchTypeOK'
  BY <1>0, <1>1 DEF JobTypeOK, WatchTypeOK
<1>3. Watched' /\ Asked'
  BY <1>0, <1>1 DEF Watched, Asked, Closed, WatcherGone
<1>4. NativeTypeOK' /\ Held' /\ Worth'
  BY <1>1, QuietRun
<1>5. Sent'
  BY <1>1, QuietSent
<1>6. Flow' /\ Announced'
  BY <1>0, <1>1 DEF Flow, Announced
<1> QED BY <1>0, <1>1, <1>2, <1>3, <1>4, <1>5, <1>6, Parts DEF JobTypeOK

-------------------------------------------------------------------------------
(***************************************************************************)
(* The other goroutines, the tool and the world.                           *)
(***************************************************************************)
\* A step of the watcher's side.
LEMMA WatchSideKeeps ==
  ASSUME JobInv, WatchStep(Goroutines) \/ WatchStep(pc # "returned" /\ (Message \/ Shutdown))
  PROVE  JobInv'
<1>0. JobTypeOK /\ Watched /\ Asked /\ Held /\ Worth /\ Flow /\ Sent /\ Announced /\ WatchTypeOK
  BY DEF JobInv, JobTypeOK
<1>1. UNCHANGED <<jobVars, toolVars, stream, out, reconVars, processVars>>
  BY DEF WatchStep
<1>2. NativeTypeOK' /\ Held' /\ Worth' /\ Flow' /\ Announced'
  BY <1>0, <1>1 DEF JobTypeOK, NativeTypeOK, Held, Worth, Whole, Read, ExitRefused, Flow, JobEvents,
                    Announced, jobVars, toolVars, processVars
<1>3. Sent'
  BY <1>1, QuietSent DEF jobVars, processVars
<1> USE DEF jobVars, processVars
<1>4. WatchTypeOK' /\ Watched' /\ Asked'
  <2>1. CASE ConverterReads
    <3>1. /\ inbox \in Seq({"cancel", "garbled"}) /\ inbox # <<>> /\ conv = "loop"
          /\ inbox' = Tail(inbox) /\ conv' \in {"send", "loop"}
          /\ conv' = "send" => inbox[1] = "cancel"
          /\ UNCHANGED <<root, own, sub, buffer, watcher, sent, asked>>
      BY <1>0, <2>1 DEF ConverterReads, WatchTypeOK
    <3>2. /\ Tail(inbox) \in Seq({"cancel", "garbled"}) /\ Len(Tail(inbox)) = Len(inbox) - 1
          /\ \A i \in 1..Len(Tail(inbox)) : Tail(inbox)[i] = inbox[i + 1] /\ i + 1 \in DOMAIN inbox
          /\ 1 \in DOMAIN inbox /\ DOMAIN Tail(inbox) = 1..Len(Tail(inbox)) /\ Len(inbox) \in Nat
      BY <3>1
    <3>3. WatchTypeOK'
      BY <1>0, <3>1, <3>2 DEF WatchTypeOK
    <3>4. Watched'
      BY <1>0, <1>1, <3>1 DEF Watched, WatcherGone, Closed
    <3>5. Asked'
      BY <1>0, <1>1, <3>1, <3>2 DEF Asked, WatchTypeOK
    <3> QED BY <3>3, <3>4, <3>5
  <2>2. CASE ConverterSends
    BY <1>0, <1>1, <2>2 DEF ConverterSends, WatchTypeOK, Watched, Asked, WatcherGone, Closed
  <2>3. CASE ConverterStops \/ ConverterExits \/ WatcherStops
    <3>1. WatchTypeOK'
      BY <1>0, <2>3 DEF ConverterStops, ConverterExits, WatcherStops, WatchTypeOK
    <3>2. Watched' /\ Asked'
      BY <1>0, <1>1, <2>3 DEF ConverterStops, ConverterExits, WatcherStops, Watched, Asked,
         WatcherGone, Closed
    <3> QED BY <3>1, <3>2
  <2>4. CASE WatcherCancels
    <3>1. WatchTypeOK'
      BY <1>0, <2>4 DEF WatcherCancels, WatchTypeOK
    <3>2. Watched' /\ Asked'
      BY <1>0, <1>1, <2>4 DEF WatcherCancels, Watched, Asked, WatcherGone, Closed
    <3> QED BY <3>1, <3>2
  <2>5. CASE pc # "returned" /\ Message
    <3>1. PICK m \in {"cancel", "garbled"} : inbox' = Append(inbox, m) /\ asked' = (asked \/ m = "cancel")
      BY <2>5 DEF Message
    <3>2. /\ sub = "open" /\ conv \in {"loop", "send"} /\ sent < MaxMessages /\ sent' = sent + 1
          /\ UNCHANGED <<root, own, sub, buffer, conv, watcher>>
      BY <2>5 DEF Message
    <3>3. inbox \in Seq({"cancel", "garbled"}) /\ Len(inbox) \in Nat /\ Len(inbox) <= sent
          /\ sent \in Nat /\ MaxMessages \in Nat
      BY <1>0 DEF WatchTypeOK, Asked
    <3>4. /\ inbox' \in Seq({"cancel", "garbled"}) /\ Len(inbox') = Len(inbox) + 1
          /\ \A i \in DOMAIN inbox' : \/ i \in DOMAIN inbox /\ inbox'[i] = inbox[i]
                                     \/ inbox'[i] = m
      BY <3>1, <3>3
    <3>5. Len(inbox') <= sent' /\ Len(inbox') <= MaxMessages /\ sent' \in 0..MaxMessages
      BY <3>2, <3>3, <3>4
    <3>6. asked' \in BOOLEAN
      BY <3>1
    <3>7. WatchTypeOK'
      BY <1>0, <3>2, <3>4, <3>5, <3>6 DEF WatchTypeOK
    <3>8. Watched'
      BY <1>0, <1>1, <2>5, <3>2 DEF Watched, WatcherGone, Closed
    <3>9. (\E i \in DOMAIN inbox' : inbox'[i] = "cancel") => asked'
      <4>1. SUFFICES ASSUME NEW i \in DOMAIN inbox', inbox'[i] = "cancel"
                     PROVE  asked'
        OBVIOUS
      <4>2. CASE i \in DOMAIN inbox /\ inbox'[i] = inbox[i]
        BY <1>0, <3>1, <4>1, <4>2 DEF Asked
      <4>3. CASE inbox'[i] = m
        BY <3>1, <4>1, <4>3
      <4> QED BY <3>4, <4>2, <4>3
    <3>10. Asked'
      BY <1>0, <1>1, <3>1, <3>2, <3>5, <3>9 DEF Asked
    <3> QED BY <3>7, <3>8, <3>10
  <2>6. CASE Shutdown
    <3>1. WatchTypeOK'
      BY <1>0, <2>6 DEF Shutdown, WatchTypeOK
    <3>2. Watched' /\ Asked'
      BY <1>0, <1>1, <2>6 DEF Shutdown, Watched, Asked, WatcherGone, Closed
    <3> QED BY <3>1, <3>2
  <2> QED BY <2>1, <2>2, <2>3, <2>4, <2>5, <2>6 DEF WatchStep, Goroutines
<1> QED BY <1>0, <1>1, <1>2, <1>3, <1>4, Parts DEF JobTypeOK

\* A step of the tool's process.  Only a running one has a status to gain, a
\* report to write or to close.
LEMMA ToolKeeps ==
  ASSUME JobInv, ToolStep(Tool)
  PROVE  JobInv'
<1>0. JobTypeOK /\ Watched /\ Asked /\ Held /\ Worth /\ Flow /\ Sent /\ Announced /\ NativeTypeOK
  BY DEF JobInv, JobTypeOK
<1>1. /\ Tool
      /\ UNCHANGED <<watchVars, jobVars, stream, out, reconVars, processVars>>
  BY DEF ToolStep
<1> USE DEF jobVars, processVars
<1>2. WatchTypeOK' /\ Watched' /\ Asked'
  BY <1>0, <1>1 DEF JobTypeOK, WatchTypeOK, Watched, Asked, WatcherGone, Closed, watchVars
<1>3. Flow' /\ Announced'
  BY <1>0, <1>1 DEF Flow, JobEvents, Announced
<1>4. Sent'
  BY <1>1, QuietSent
<1>5. NativeTypeOK' /\ Held' /\ Worth'
  <2>1. CASE ToolWrites
    <3>1. NativeTypeOK'
      <4>1. written' \in 0..MaxRecords
        BY <1>0, <2>1 DEF ToolWrites, NativeTypeOK
      <4>2. capped' \in BOOLEAN
        BY <1>0, <2>1 DEF ToolWrites, NativeTypeOK
      <4> QED BY <1>0, <1>1, <2>1, <4>1, <4>2 DEF ToolWrites, NativeTypeOK
    <3>2. pc = "wait" /\ proc = "running"
      BY <1>0, <2>1 DEF ToolWrites, Held
    <3>3. Held' /\ Worth'
      BY <1>0, <1>1, <2>1, <3>2 DEF ToolWrites, Held, Worth, Flow, Early, NativePCs
    <3> QED BY <3>1, <3>3
  <2>2. CASE ToolExits \/ ToolDies \/ ToolKilled
    <3>1. NativeTypeOK'
      BY <1>0, <1>1, <2>2 DEF ToolExits, ToolDies, ToolKilled, NativeTypeOK
    <3>2. pc = "wait"
      BY <1>0, <2>2 DEF ToolExits, ToolDies, ToolKilled, Held
    <3>3. Held' /\ Worth'
      BY <1>0, <1>1, <2>2, <3>2 DEF ToolExits, ToolDies, ToolKilled, Held, Worth, Flow, Early,
         NativePCs
    <3> QED BY <3>1, <3>3
  <2>3. CASE Helper \/ Timeout
    <3>1. NativeTypeOK'
      BY <1>0, <1>1, <2>3 DEF Helper, Timeout, NativeTypeOK
    <3>2. Held' /\ Worth'
      BY <1>0, <1>1, <2>3 DEF Helper, Timeout, Held, Worth, Whole, Read, ExitRefused
    <3> QED BY <3>1, <3>2
  <2> QED BY <1>1, <2>1, <2>2, <2>3 DEF Tool
<1> QED BY <1>0, <1>1, <1>2, <1>3, <1>4, <1>5, Parts DEF JobTypeOK

-------------------------------------------------------------------------------
(***************************************************************************)
(* The run of a tool and of recon.                                         *)
(***************************************************************************)
\* A tool that reports in lines has no leniency.
LEMMA NativeTool ==
  ASSUME job \in JobSpace, job.kind = "native"
  PROVE  /\ job.tool.file \in BOOLEAN /\ (job.tool.lines => ~job.tool.lenient)
         /\ job.long \in 0..MaxRecords
<1>1. job.tool \in Tools /\ job.long \in 0..MaxRecords
  BY DEF JobSpace, NativeJobs
<1>2. \A t \in Tools : t.file = TRUE \/ t.file = FALSE
  BY DEF Tools
<1>3. \A t \in Tools : t.lines = TRUE => t.lenient = FALSE
  BY DEF Tools
<1>4. \A t \in Tools : t.lines = TRUE \/ t.lines = FALSE
  BY DEF Tools
<1>5. job.tool.file \in BOOLEAN
  BY <1>1, <1>2, Zenon
<1>6. job.tool.lines => ~job.tool.lenient
  BY <1>1, <1>3, <1>4
<1> QED BY <1>1, <1>5, <1>6

LEMMA NativeKeeps ==
  ASSUME JobInv, NativeStep /\ UNCHANGED <<watchVars, stream, out, reconVars, processVars>>
  PROVE  JobInv'
<1> USE DEF PCs, NativePCs, ReconPCs, Early, Closing, processVars
<1>0. JobTypeOK /\ Watched /\ Asked /\ Held /\ Worth /\ Flow /\ Sent /\ Announced /\ NativeTypeOK
  BY DEF JobInv, JobTypeOK
<1>1. /\ UNCHANGED <<watchVars, job, stream, out, verdict, pending, answer>>
      /\ pc \in NativePCs /\ pc' \in NativePCs \cup {"judge"}
  BY DEF NativeStep, Preflight, Mint, Spawn, Wait, ParseOutput, PostProcess, Returns, Step
<1>2. job.kind = "native" /\ verdict = "none" /\ answer = "none" /\ ~failed
  BY <1>0, <1>1 DEF Held, Flow, Worth
<1>3. WatchTypeOK' /\ Watched' /\ Asked'
  BY <1>1, QuietWatch
<1>4. Sent'
  BY <1>1, <1>2, QuietSent
<1>5. Flow' /\ Announced'
  BY <1>0, <1>1 DEF Flow, JobEvents, Announced
<1>6. <<>> \in Seq(1..MaxRecords)
  OBVIOUS
<1>7. NativeTypeOK' /\ Held' /\ Worth'
  <2>1. ASSUME Returns(TRUE, <<>>), proc # "running"
        PROVE  NativeTypeOK' /\ Held' /\ Worth'
    <3>1. NativeTypeOK'
      BY <1>0, <1>6, <2>1 DEF NativeTypeOK, Returns
    <3>2. Held' /\ Worth'
      BY <1>0, <1>1, <1>2, <2>1 DEF Held, Worth, Returns
    <3> QED BY <3>1, <3>2
  <2>2. CASE Preflight
    <3>1. CASE Returns(TRUE, <<>>)
      BY <1>0, <2>1, <2>2, <3>1 DEF Preflight, Held
    <3>2. CASE Step("mint") /\ UNCHANGED toolVars
      BY <1>0, <1>1, <1>2, <2>2, <3>2 DEF Preflight, Step, toolVars, NativeTypeOK, Held, Worth
    <3> QED BY <2>2, <3>1, <3>2 DEF Preflight
  <2>3. CASE Mint
    <3>1. CASE Returns(TRUE, <<>>)
      BY <1>0, <2>1, <2>3, <3>1 DEF Mint, Held
    <3>2. CASE Step("spawn") /\ tmp' = job.tool.file
               /\ UNCHANGED <<proc, exit, held, written, closed, capped, late>>
      <4>1. job.tool.file \in BOOLEAN
        BY <1>0, <1>2, NativeTool DEF JobTypeOK
      <4>2. NativeTypeOK'
        BY <1>0, <3>2, <4>1 DEF Step, NativeTypeOK
      <4>3. Held' /\ Worth'
        BY <1>0, <1>1, <1>2, <2>3, <3>2 DEF Mint, Step, Held, Worth
      <4> QED BY <4>2, <4>3
    <3> QED BY <2>3, <3>1, <3>2 DEF Mint
  <2>4. CASE Spawn
    <3>1. CASE Returns(TRUE, <<>>)
      BY <1>0, <2>1, <2>4, <3>1 DEF Spawn, Held
    <3>2. CASE Step("wait") /\ proc' = "running"
               /\ UNCHANGED <<exit, held, written, closed, capped, late, tmp>>
      <4>1. NativeTypeOK'
        BY <1>0, <3>2 DEF Step, NativeTypeOK
      <4>2. Held' /\ Worth'
        BY <1>0, <1>1, <1>2, <2>4, <3>2 DEF Spawn, Step, Held, Worth
      <4> QED BY <4>1, <4>2
    <3>3. CASE job.tool.lenient /\ Step("parse") /\ UNCHANGED toolVars
      <4>1. NativeTypeOK'
        BY <1>0, <3>3 DEF Step, NativeTypeOK, toolVars
      <4>2. Held' /\ Worth'
        BY <1>0, <1>1, <1>2, <2>4, <3>3 DEF Spawn, Step, Held, Worth, ExitRefused, toolVars
      <4> QED BY <4>1, <4>2
    <3> QED BY <2>4, <3>1, <3>2, <3>3 DEF Spawn
  <2>5. CASE Wait
    <3>1. CASE Returns(TRUE, <<>>)
      BY <1>0, <2>1, <2>5, <3>1 DEF Wait, Held
    <3>2. CASE /\ ~(JobDone \/ late \/ capped \/ ExitRefused)
               /\ Step("parse") /\ UNCHANGED toolVars
      <4>1. NativeTypeOK'
        BY <1>0, <3>2 DEF Step, NativeTypeOK, toolVars
      <4>2. Held' /\ Worth'
        BY <1>0, <1>1, <1>2, <2>5, <3>2 DEF Wait, Step, Held, Worth, ExitRefused, toolVars
      <4> QED BY <4>1, <4>2
    <3> QED BY <2>5, <3>1, <3>2 DEF Wait
  <2>6. CASE ParseOutput
    <3>1. CASE Returns(TRUE, <<>>)
      BY <1>0, <2>1, <2>6, <3>1 DEF ParseOutput, Held
    <3>2. CASE Parses /\ findings' = Records /\ pc' = "post" /\ UNCHANGED <<job, failed, toolVars>>
      <4>1. written \in Nat /\ written <= MaxRecords /\ job.long \in 0..MaxRecords
        BY <1>0, <1>2, NativeTool DEF NativeTypeOK, JobTypeOK
      <4>9. /\ Reached \in Nat /\ Reached <= MaxRecords
            /\ \/ Reached = written
               \/ job.tool.lines /\ job.long \in 1..written /\ Reached = job.long - 1
        BY <4>1 DEF Reached
      <4>2. Records \in Seq(1..MaxRecords) /\ Len(Records) = Reached
        BY <4>9 DEF Records
      <4>3. NativeTypeOK'
        BY <1>0, <3>2, <4>2 DEF NativeTypeOK, toolVars
      <4>4. Held'
        BY <1>0, <1>1, <2>6, <3>2 DEF ParseOutput, Held, toolVars
      <4>5. ~capped /\ ~ExitRefused /\ (exit = "zero" => closed)
        BY <1>0, <2>6 DEF ParseOutput, Worth
      <4>6. job.tool.lines => ~job.tool.lenient
        BY <1>0, <1>2, NativeTool DEF JobTypeOK
      <4>7. Whole
        BY <3>2, <4>5, <4>6 DEF Parses, ExitRefused, Whole
      <4>8. Worth'
        BY <1>2, <3>2, <4>2, <4>5, <4>7, <4>9 DEF Worth, Whole, Read, toolVars
      <4> QED BY <4>3, <4>4, <4>8
    <3> QED BY <2>6, <3>1, <3>2 DEF ParseOutput
  <2>7. CASE PostProcess
    <3>1. PICK result \in Seq(1..MaxRecords) :
            Returns(FALSE, result) /\ (job.tool.post \/ result = findings)
      <4>1. findings \in Seq(1..MaxRecords)
        BY <1>0 DEF NativeTypeOK
      <4>2. CASE Returns(FALSE, findings)
        BY <4>1, <4>2
      <4>3. CASE /\ job.tool.post
                 /\ \E n \in 0..Len(findings) : \E kept \in [1..n -> 1..MaxRecords] :
                      SomeOf(findings, kept) /\ Returns(FALSE, kept)
        <5>1. PICK n \in 0..Len(findings) : \E kept \in [1..n -> 1..MaxRecords] :
                Returns(FALSE, kept)
          BY <4>3
        <5>2. PICK kept \in [1..n -> 1..MaxRecords] : Returns(FALSE, kept)
          BY <5>1
        <5>3. n \in Nat
          BY <4>1
        <5>4. kept \in Seq(1..MaxRecords)
          BY <5>3
        <5> QED BY <4>3, <5>2, <5>4
      <4> QED BY <2>7, <4>2, <4>3 DEF PostProcess
    <3>2. NativeTypeOK'
      BY <1>0, <3>1 DEF NativeTypeOK, Returns
    <3>3. Held' /\ Worth'
      BY <1>0, <1>1, <1>2, <2>7, <3>1 DEF PostProcess, Held, Worth, Whole, Read, Returns
    <3> QED BY <3>2, <3>3
  <2> QED BY <2>2, <2>3, <2>4, <2>5, <2>6, <2>7 DEF NativeStep
<1> QED BY <1>0, <1>1, <1>3, <1>4, <1>5, <1>7, Parts DEF JobTypeOK

\* Recon publishes at most the attack surface, as the first event.
LEMMA ReconKeeps ==
  ASSUME JobInv, ReconStep /\ UNCHANGED <<watchVars, toolVars, processVars>>
  PROVE  JobInv'
<1> USE DEF PCs, NativePCs, ReconPCs, Early, Closing, processVars
<1>0. JobTypeOK /\ Watched /\ Asked /\ Held /\ Worth /\ Flow /\ Sent /\ Announced
  BY DEF JobInv
<1>1. /\ UNCHANGED <<watchVars, toolVars, verdict, pending, answer, job, failed, findings>>
      /\ pc \in ReconPCs /\ pc' \in (ReconPCs \ {"recon"}) \cup {"judge"}
      /\ stream' # "job_completed" \/ stream' = stream
      /\ out' = out \/ (pc = "surface" /\ pc' = "ended" /\ out' = Append(out, AttackSurface))
      /\ pc' = "judge" => pc = "ended"
      /\ pc \in {"ended"} => pc' = "judge"
  BY DEF ReconStep, ReconStarted, SubfinderReturns, SubdomainsDiscovered, HttpxReturns,
         LivenessProbed, PublishAttackSurface, ReconCompleted, Step, XAdd
<1>2. /\ job.kind = "recon" /\ verdict = "none" /\ answer = "none" /\ ~failed /\ JobEvents = <<>>
      /\ pc # "ended" => out = <<>>
  BY <1>0, <1>1 DEF Held, Flow, Worth
<1>3. WatchTypeOK' /\ Watched' /\ Asked'
  BY <1>1, <1>2, QuietWatch
<1>4. NativeTypeOK'
  BY <1>0, <1>1 DEF JobTypeOK, NativeTypeOK, toolVars
<1>5. Held'
  BY <1>0, <1>1, <1>2 DEF Held, toolVars
<1>6. Worth'
  BY <1>0, <1>1, <1>2 DEF Worth, Whole, Read, ExitRefused, toolVars
<1>7. JobEvents' = <<>> /\ out' \in Seq({AttackSurface} \cup JobEventSet)
  <2>1. CASE out' = out
    BY <1>0, <1>2, <2>1 DEF JobEvents, JobTypeOK
  <2>2. CASE out = <<>> /\ out' = Append(out, AttackSurface)
    <3>1. out' = <<AttackSurface>> /\ out'[1] = AttackSurface /\ Tail(out') = <<>>
      BY <2>2
    <3>2. AttackSurface.type = "attack_surface"
      BY DEF AttackSurface
    <3>3. out' \in Seq({AttackSurface} \cup JobEventSet)
      BY <3>1
    <3>4. out' # <<>> /\ out'[1].type = "attack_surface"
      BY <3>1, <3>2
    <3> QED BY <3>1, <3>3, <3>4 DEF JobEvents
  <2> QED BY <1>1, <1>2, <2>1, <2>2
<1>8. Flow'
  BY <1>0, <1>1, <1>2, <1>7 DEF Flow
<1>9. Sent' /\ Announced'
  BY <1>0, <1>1, <1>2 DEF Sent, Announced
<1> QED BY <1>0, <1>1, <1>2, <1>3, <1>4, <1>5, <1>6, <1>7, <1>8, <1>9, Parts DEF JobTypeOK

-------------------------------------------------------------------------------
(***************************************************************************)
(* The theorems.                                                           *)
(***************************************************************************)
LEMMA InitHolds ==
  ASSUME Init
  PROVE  JobInv
<1> USE DEF Init, WatchInit, NativeInit
<1>1. JobTypeOK
  <2>0. inbox \in Seq({"cancel", "garbled"}) /\ Len(inbox) = 0 /\ findings \in Seq(1..MaxRecords)
    OBVIOUS
  <2>1. WatchTypeOK
    <3>1. sent \in 0..MaxMessages /\ Len(inbox) <= MaxMessages /\ buffer \in 0..1
      BY <2>0
    <3> QED BY <2>0, <3>1 DEF WatchTypeOK
  <2>2. NativeTypeOK
    <3>1. written \in 0..MaxRecords
      OBVIOUS
    <3> QED BY <2>0, <3>1 DEF NativeTypeOK
  <2>3. out \in Seq({AttackSurface} \cup JobEventSet) /\ pending \in Seq(JobEventSet)
    OBVIOUS
  <2> QED BY <2>1, <2>2, <2>3 DEF JobTypeOK, PCs
<1>2. Watched /\ Held /\ Announced
  BY DEF Watched, Held, Announced, NativePCs, ReconPCs
<1>3. Asked
  <2>1. Len(inbox) = 0 /\ DOMAIN inbox = {}
    OBVIOUS
  <2> QED BY <2>1 DEF Asked
<1>4. Worth /\ Flow /\ Sent
  BY DEF Worth, Flow, Sent, JobEvents, Early, NativePCs, ReconPCs
<1> QED BY <1>1, <1>2, <1>3, <1>4 DEF JobInv

LEMMA NextKeeps ==
  ASSUME JobInv, [Next]_vars
  PROVE  JobInv'
<1>1. CASE ProcessStep
  BY <1>1, OpeningKeeps, JobStartedKeeps, JudgeKeeps, StreamKeeps, PublishKeeps, ClosingKeeps,
     NativeKeeps, ReconKeeps, Zenon DEF ProcessStep
<1>2. CASE WatchStep(Goroutines) \/ WatchStep(pc # "returned" /\ (Message \/ Shutdown))
  BY <1>2, WatchSideKeeps
<1>3. CASE ToolStep(Tool)
  BY <1>3, ToolKeeps
<1>4. CASE UNCHANGED vars
  <2>1. UNCHANGED <<watchVars, jobVars, toolVars, stream, out, processVars>>
    BY <1>4 DEF vars
  <2>2. WatchTypeOK' /\ Watched' /\ Asked'
    BY <2>1 DEF JobInv, JobTypeOK, WatchTypeOK, Watched, Asked, WatcherGone, Closed, watchVars,
                jobVars, processVars
  <2>3. NativeTypeOK' /\ Held' /\ Worth'
    BY <2>1 DEF JobInv, JobTypeOK, NativeTypeOK, Held, Worth, Whole, Read, ExitRefused, toolVars, jobVars,
                processVars
  <2>4. Flow' /\ Announced'
    BY <2>1 DEF JobInv, Flow, JobEvents, Announced, jobVars, processVars
  <2>5. Sent'
    BY <2>1, QuietSent DEF jobVars, processVars
  <2> QED BY <2>1, <2>2, <2>3, <2>4, <2>5, Parts DEF JobInv, JobTypeOK, jobVars, processVars
<1> QED BY <1>1, <1>2, <1>3, <1>4 DEF Next

\* Every state of Process satisfies the inductive invariant.
THEOREM JobCorrect == Spec => []JobInv
<1>1. Init => JobInv
  BY InitHolds
<1>2. JobInv /\ [Next]_vars => JobInv'
  BY NextKeeps
<1> QED BY <1>1, <1>2, PTL DEF Spec

\* Without a verdict nothing was published for the job.
LEMMA NoVerdictNoEvent ==
  ASSUME JobInv, JobEvents # <<>>
  PROVE  verdict # "none"
BY DEF JobInv, Flow

\* A whole sequence ends with the terminal event of the verdict.
LEMMA WholeTold ==
  ASSUME JobInv, answer \in {"nil", "error"}
  PROVE  /\ Told /\ Last(out) = Last(JobEvents)
         /\ verdict # "none" /\ Last(JobEvents).status = verdict
<1> DEFINE all == Events(verdict)
<1>0. JobTypeOK /\ Flow /\ Sent
  BY DEF JobInv
<1>1. verdict \in {"completed", "failed", "canceled"}
  BY <1>0 DEF Flow, JobTypeOK
<1>2. Telling(all, verdict)
  BY <1>0, <1>1, EventsTell
<1>3. Len(JobEvents) = Len(all) /\ \A i \in 1..Len(JobEvents) : JobEvents[i] = all[i]
  BY <1>0, <1>1 DEF Sent
<1> HIDE DEF all
<1> DEFINE n == Len(all)
<1>4. n \in Nat /\ n >= 1 /\ all[n].seq.index = n /\ all[n].seq.total = n /\ all[n].status = verdict
  BY <1>2 DEF Telling
<1>5. JobEvents # <<>> /\ Last(JobEvents) = all[n]
  BY <1>3, <1>4 DEF Last
<1>6. Told
  BY <1>4, <1>5 DEF Told, IsTerminal
<1>7. Last(out) = Last(JobEvents)
  <2>1. CASE out # <<>> /\ out[1].type = "attack_surface"
    <3>1. JobEvents = Tail(out)
      BY <2>1 DEF JobEvents
    <3>2. out \in Seq({AttackSurface} \cup JobEventSet)
      BY <1>0 DEF JobTypeOK
    <3>3. Len(Tail(out)) = Len(out) - 1 /\ Len(out) \in Nat /\ Len(Tail(out)) \in Nat \ {0}
      BY <1>3, <1>4, <2>1, <3>1, <3>2
    <3>4. Tail(out)[Len(out) - 1] = out[Len(out)]
      BY <2>1, <3>2, <3>3
    <3> QED BY <3>1, <3>3, <3>4 DEF Last
  <2>2. CASE ~(out # <<>> /\ out[1].type = "attack_surface")
    BY <2>2 DEF JobEvents
  <2> QED BY <2>1, <2>2
<1> QED BY <1>1, <1>4, <1>5, <1>6, <1>7

\* When Process returns anything but ErrJobNotTerminal, the API has been sent
\* the job's terminal event, last of all; the stream announces a completion
\* only after that (Processor.Process, publishCompletion).
THEOREM TerminalToldFirst == Spec => []ReturnTells
<1>1. JobInv => ReturnTells
  <2> SUFFICES ASSUME JobInv PROVE ReturnTells
    OBVIOUS
  <2>1. stream = "job_completed" => verdict = "completed" /\ answer = "nil"
    BY DEF JobInv, Announced
  <2> QED BY <2>1, WholeTold DEF ReturnTells
<1> QED BY <1>1, JobCorrect, PTL

\* A job is reported cancelled only if a well-formed cancel message reached
\* it (spawnCancelWatcher and the verdict of Process).
THEOREM CancellationsAsked == Spec => []CanceledAsked
<1>1. JobInv => CanceledAsked
  <2> SUFFICES ASSUME JobInv, NEW i \in DOMAIN JobEvents, JobEvents[i].status = "canceled"
               PROVE  asked
    BY DEF CanceledAsked
  <2>0. JobTypeOK /\ Flow /\ Sent /\ Asked
    BY DEF JobInv
  <2>1. i \in 1..Len(JobEvents)
    BY <2>0, JobEventsSeq
  <2>2. JobEvents # <<>>
    BY <2>0, <2>1
  <2>3. verdict \in {"completed", "failed", "canceled"}
    BY <2>0, <2>2, NoVerdictNoEvent DEF JobTypeOK
  <2>4. Telling(Events(verdict), verdict)
    BY <2>0, <2>3, EventsTell
  <2>5. JobEvents[i] = Events(verdict)[i] /\ i \in 1..Len(Events(verdict))
    BY <2>0, <2>1, <2>3, <2>4, JobEventsSeq DEF Sent, Telling
  <2>6. verdict = "canceled"
    BY <2>3, <2>4, <2>5 DEF Telling
  <2> QED BY <2>0, <2>6 DEF Asked
<1> QED BY <1>1, JobCorrect, PTL

\* What was published for the job is the beginning of one sequence numbered
\* from 1, of one total, terminal only at its end, with no event over the
\* limit of findings (splitForCompletion, publishCompletion).
THEOREM EventsNumbered == Spec => []Numbered(JobEvents)
<1>1. JobInv => Numbered(JobEvents)
  <2> SUFFICES ASSUME JobInv, NEW i \in DOMAIN JobEvents
               PROVE  /\ JobEvents[i].seq.index = i
                      /\ JobEvents[i].seq.total = JobEvents[1].seq.total
                      /\ (JobEvents[i].type = "job_completed") <=> IsTerminal(JobEvents[i].seq)
                      /\ Len(JobEvents[i].findings) <= MaxFindingsPerEvent
    BY DEF Numbered
  <2>0. JobTypeOK /\ Flow /\ Sent
    BY DEF JobInv
  <2>1. i \in 1..Len(JobEvents) /\ 1 \in 1..Len(JobEvents)
    BY <2>0, JobEventsSeq
  <2>2. JobEvents # <<>>
    BY <2>0, <2>1
  <2>3. verdict \in {"completed", "failed", "canceled"}
    BY <2>0, <2>2, NoVerdictNoEvent DEF JobTypeOK
  <2> DEFINE all == Events(verdict)
  <2>4. Telling(all, verdict)
    BY <2>0, <2>3, EventsTell
  <2>5. /\ JobEvents[i] = all[i] /\ i \in 1..Len(all)
        /\ JobEvents[1] = all[1] /\ 1 \in 1..Len(all)
    BY <2>0, <2>1, <2>3, <2>4, JobEventsSeq DEF Sent, Telling
  <2> HIDE DEF all
  <2> QED BY <2>4, <2>5 DEF Telling, IsTerminal
<1> QED BY <1>1, JobCorrect, PTL

\* Process returns only when the watcher, the converter, the subscription,
\* the tool's process and its report file are gone (the deferred calls of
\* Process and of NativeRunner.Run).
THEOREM ReturnLeavesNothing == Spec => []LeavesNothing
<1>1. JobInv => LeavesNothing
  BY DEF JobInv, Watched, Held, LeavesNothing
<1> QED BY <1>1, JobCorrect, PTL

\* A native scan is reported completed only for a whole report, not cut by
\* the cap, with every record of it unless the tool's own hook dropped some;
\* the exception is a lenient tool's empty report (NativeRunner.Run).
THEOREM CompletionsWhole == Spec => []CompletedMeansWhole
<1>1. JobInv => CompletedMeansWhole
  BY DEF JobInv, Worth, Whole, Read, CompletedMeansWhole
<1> QED BY <1>1, JobCorrect, PTL


-------------------------------------------------------------------------------
(***************************************************************************)
(* The findings in the events.                                             *)
(***************************************************************************)
\* The end of the first k batches.
EndOf(f, k) == IF k * MaxFindingsPerEvent > Len(f) THEN Len(f) ELSE k * MaxFindingsPerEvent

LEMMA BatchNext ==
  ASSUME NEW S, NEW f \in Seq(S), NEW k \in Nat
  PROVE  SubSeq(f, 1, EndOf(f, k)) \o Batch(f, k + 1) = SubSeq(f, 1, EndOf(f, k + 1))
<1> DEFINE M == MaxFindingsPerEvent
           a == k * M
           n == Len(f)
           e == IF a + M > n THEN n ELSE a + M
<1>1. a \in Nat /\ n \in Nat /\ M \in Nat \ {0} /\ (k + 1) * M = a + M /\ ((k + 1) - 1) * M = a
  OBVIOUS
<1>2. /\ Batch(f, k + 1) = SubSeq(f, a + 1, e) /\ EndOf(f, k + 1) = e
      /\ EndOf(f, k) = IF a > n THEN n ELSE a
  BY <1>1 DEF Batch, EndOf
<1> HIDE DEF M, a
<1>3. CASE a <= n
  <2>1. 1 \in 1..(n + 1) /\ a \in (1 - 1)..n /\ e \in a..n
    BY <1>1, <1>3
  <2> HIDE DEF e
  <2>2. SubSeq(f, 1, a) \o SubSeq(f, a + 1, e) = SubSeq(f, 1, e)
    BY <2>1, ConcatAdjacentSubSeq
  <2>3. EndOf(f, k) = a
    BY <1>1, <1>2, <1>3
  <2> QED BY <1>2, <2>2, <2>3
<1>4. CASE a > n
  <2>1. e = n /\ a + 1 > n
    BY <1>1, <1>4
  <2>2. SubSeq(f, a + 1, n) = <<>>
    BY <1>1, <2>1, SubSeqEmpty
  <2>3. SubSeq(f, 1, n) \in Seq(S)
    <3>1. \A i \in 1..n : f[i] \in S
      OBVIOUS
    <3> QED BY <1>1, <3>1, SubSeqProperties
  <2> QED BY <1>2, <1>4, <2>1, <2>2, <2>3, ConcatEmptySeq
<1>5. a <= n \/ a > n
  BY <1>1
<1> QED BY <1>3, <1>4, <1>5

\* The first k batches, joined, are the findings up to the end of the k-th.
LEMMA BatchesJoined ==
  ASSUME NEW S, NEW f \in Seq(S), NEW m \in Nat
  PROVE  FlattenSeq([i \in 1..m |-> Batch(f, i)]) = SubSeq(f, 1, EndOf(f, m))
<1> DEFINE B(k) == [i \in 1..k |-> Batch(f, i)]
           T == {k \in Nat : FlattenSeq(B(k)) = SubSeq(f, 1, EndOf(f, k))}
<1>0. ASSUME NEW k \in Nat
      PROVE  B(k) \in Seq(Seq(S)) /\ Len(B(k)) = k
  <2>1. \A i \in 1..k : Batch(f, i) \in Seq(S)
    BY BatchShape
  <2> QED BY <2>1, IsASeq
<1>1. 0 \in T
  <2>1. B(0) = <<>>
    OBVIOUS
  <2>2. EndOf(f, 0) = 0
    BY DEF EndOf
  <2>3. SubSeq(f, 1, 0) = <<>>
    BY SubSeqEmpty
  <2> QED BY <2>1, <2>2, <2>3, FlattenEmpty
<1>2. ASSUME NEW k \in T PROVE k + 1 \in T
  <2>1. k \in Nat /\ FlattenSeq(B(k)) = SubSeq(f, 1, EndOf(f, k))
    OBVIOUS
  <2>2. Batch(f, k + 1) \in Seq(S)
    BY <2>1, BatchShape
  <2>3. B(k + 1) = Append(B(k), Batch(f, k + 1))
    <3> DEFINE u == B(k)  v == B(k + 1)  w == Append(u, Batch(f, k + 1))
    <3>1. u \in Seq(Seq(S)) /\ Len(u) = k /\ v \in Seq(Seq(S)) /\ Len(v) = k + 1
      BY <1>0, <2>1
    <3>2. (\A i \in 1..k : u[i] = Batch(f, i)) /\ (\A i \in 1..(k + 1) : v[i] = Batch(f, i))
      OBVIOUS
    <3> HIDE DEF u, v
    <3>3. /\ w \in Seq(Seq(S)) /\ Len(w) = k + 1 /\ w[k + 1] = Batch(f, k + 1)
          /\ \A i \in 1..k : w[i] = u[i]
      BY <2>2, <3>1, AppendProperties
    <3> HIDE DEF w
    <3>4. \A i \in 1..(k + 1) : w[i] = v[i]
      <4> TAKE i \in 1..(k + 1)
      <4>1. i \in 1..k \/ i = k + 1
        BY <2>1
      <4> QED BY <3>2, <3>3, <4>1
    <3>5. v = w
      BY <3>1, <3>3, <3>4, SeqEqual
    <3> QED BY <3>5 DEF u, v, w
  <2>4. FlattenSeq(B(k + 1)) = FlattenSeq(B(k)) \o Batch(f, k + 1)
    BY <1>0, <2>1, <2>2, <2>3, FlattenAppend
  <2>5. FlattenSeq(B(k + 1)) = SubSeq(f, 1, EndOf(f, k + 1))
    BY <2>1, <2>4, BatchNext
  <2>6. k + 1 \in Nat
    BY <2>1
  <2> HIDE DEF B
  <2> QED BY <2>5, <2>6
<1>3. T = Nat
  <2> HIDE DEF T
  <2>1. T \in SUBSET Nat
    BY DEF T
  <2> QED BY <1>1, <1>2, <2>1, Induction
<1> QED BY <1>3

\* The batches of a run hold all its findings.
LEMMA TotalEnough ==
  ASSUME NEW n \in Nat
  PROVE  EventTotal(n) * MaxFindingsPerEvent >= n
<1> DEFINE M == MaxFindingsPerEvent
           q == (n + M - 1) \div M
<1>1. CASE n <= M
  BY <1>1 DEF EventTotal
<1>2. CASE n > M
  <2>1. EventTotal(n) = q
    BY <1>2 DEF EventTotal
  <2>2. n + M - 1 \in Nat /\ M \in Nat /\ M > 0
    BY <1>2
  <2>3. n + M - 1 = M * q + ((n + M - 1) % M) /\ (n + M - 1) % M \in 0..(M - 1) /\ q \in Nat
    BY <2>2
  <2> HIDE DEF q, M
  <2>4. M * q = q * M
    BY <2>2, <2>3
  <2>5. q * M >= n
    BY <2>2, <2>3, <2>4
  <2> QED BY <2>1, <2>5 DEF M
<1> QED BY <1>1, <1>2

\* What a sequence of events carries together.
Carries(all, f) ==
  /\ FlattenSeq([i \in 1..Len(all) |-> all[i].findings]) = f
  /\ all[Len(all)].count = Len(f)

\* The events of a run carry its findings, batch by batch, and the last one
\* their number.
LEMMA SplitCarries ==
  ASSUME NEW f \in Seq(1..MaxRecords), NEW named \in BOOLEAN
  PROVE  Carries(SplitForCompletion(f, [JobCompleted("completed", named) EXCEPT !.count = Len(f)]), f)
<1> DEFINE base == [JobCompleted("completed", named) EXCEPT !.count = Len(f)]
           total == EventTotal(Len(f))
           mid(i) == [base EXCEPT !.findings = Batch(f, i), !.seq = EventSeq(i, total)]
           ev(i) == IF i = total THEN mid(i)
                    ELSE [mid(i) EXCEPT !.type = "partial_findings",
                                        !.status = "partial_findings", !.count = 0]
           all == [i \in 1..total |-> ev(i)]
<1>0. Len(f) \in Nat
  OBVIOUS
<1>1. total \in Nat \ {0} /\ total * MaxFindingsPerEvent >= Len(f)
  BY <1>0, TotalPositive, TotalEnough
<1>2. SplitForCompletion(f, base) = all
  BY DEF SplitForCompletion
<1> HIDE DEF total
<1>3. /\ DOMAIN base = {"type", "status", "named", "count", "findings", "seq"}
      /\ base.count = Len(f)
  BY DEF JobCompleted
<1> HIDE DEF base
<1>4. ASSUME NEW i \in 1..total
      PROVE  ev(i).findings = Batch(f, i) /\ (i = total => ev(i).count = Len(f))
  <2>1. /\ DOMAIN mid(i) = {"type", "status", "named", "count", "findings", "seq"}
        /\ mid(i).findings = Batch(f, i) /\ mid(i).count = Len(f)
    BY <1>3
  <2> HIDE DEF mid
  <2> QED BY <2>1
<1> HIDE DEF ev
<1>5. Len(all) = total /\ \A i \in 1..total : all[i] = ev(i)
  BY <1>1
<1> HIDE DEF all
<1>6. [i \in 1..Len(all) |-> all[i].findings] = [i \in 1..total |-> Batch(f, i)]
  BY <1>4, <1>5
<1>7. EndOf(f, total) = Len(f)
  BY <1>0, <1>1 DEF EndOf
<1>8. SubSeq(f, 1, Len(f)) = f
  BY SubSeqFull
<1>9. FlattenSeq([i \in 1..total |-> Batch(f, i)]) = f
  BY <1>1, <1>7, <1>8, BatchesJoined
<1>10. all[Len(all)].count = Len(f)
  <2>1. total \in 1..total
    BY <1>1
  <2> QED BY <1>4, <1>5, <2>1
<1> QED BY <1>2, <1>6, <1>9, <1>10 DEF Carries, base

\* Only a native tool's run has findings.
Bare == job.kind # "native" => findings = <<>>

LEMMA EventsCarry ==
  ASSUME JobTypeOK, Bare, NEW v \in {"completed", "failed", "canceled"}
  PROVE  Carries(Events(v), IF v = "completed" THEN findings ELSE <<>>)
<1>1. job.named \in BOOLEAN
  BY ONLY JobTypeOK DEF JobTypeOK, JobSpace, NativeJobs
<1>2. CASE v = "completed" /\ job.kind = "native"
  BY <1>1, <1>2, SplitCarries DEF Events, JobTypeOK, NativeTypeOK
<1>3. CASE ~(v = "completed" /\ job.kind = "native")
  <2> DEFINE e == JobCompleted(v, job.named)
             all == <<e>>
  <2>1. Events(v) = all
    BY <1>3 DEF Events
  <2>2. e.findings = <<>> /\ e.count = 0
    BY DEF JobCompleted
  <2> HIDE DEF e
  <2>3. Len(all) = 1 /\ all[1] = e
    OBVIOUS
  <2> HIDE DEF all
  <2>4. [i \in 1..Len(all) |-> all[i].findings] = << <<>> >>
    BY <2>2, <2>3
  <2>5. FlattenSeq(<< <<>> >>) = <<>>
    <3>1. <<>> \in Seq(Seq(Nat)) /\ <<>> \in Seq(Nat)
      BY EmptySeq
    <3>2. << <<>> >> = Append(<<>>, <<>>) /\ <<>> \o <<>> = <<>>
      OBVIOUS
    <3> QED BY <3>1, <3>2, FlattenAppend, FlattenEmpty
  <2>6. (IF v = "completed" THEN findings ELSE <<>>) = <<>> /\ Len(<<>>) = 0
    BY <1>3 DEF Bare
  <2> QED BY <2>1, <2>2, <2>3, <2>4, <2>5, <2>6 DEF Carries
<1> QED BY <1>2, <1>3

LEMMA BareStays ==
  ASSUME JobInv, Bare, [Next]_vars
  PROVE  Bare'
<1>1. ASSUME NativeStep PROVE Bare'
  <2>1. UNCHANGED job /\ pc \in NativePCs
    BY <1>1 DEF NativeStep, Preflight, Mint, Spawn, Wait, ParseOutput, PostProcess, Returns, Step, NativePCs
  <2> QED BY <2>1 DEF JobInv, Held, Bare
<1>2. ASSUME UNCHANGED <<job, findings>> PROVE Bare'
  BY <1>2 DEF Bare
<1>3. CASE ProcessStep
  <2>1. CASE NativeStep
    BY <1>1, <2>1
  <2>2. CASE ReconStep
    BY <1>2, <2>2
       DEF ReconStep, ReconStarted, SubfinderReturns, SubdomainsDiscovered, HttpxReturns,
           LivenessProbed, PublishAttackSurface, ReconCompleted, Step
  <2>3. CASE Claim \/ SpawnCancelWatcher \/ JobStarted
    BY <1>2, <2>3 DEF Claim, SpawnCancelWatcher, JobStarted, Step, JobTypeOK, JobInv, JobSpace, NativeJobs
  <2>4. CASE Judge \/ Tell \/ FinalProgress
    BY <1>2, <2>4 DEF Judge, Tell, FinalProgress, Step
  <2>5. CASE PublishCompletion
    BY <1>2, <2>5 DEF PublishCompletion, Step
  <2>6. CASE CloseSub \/ JoinConverter \/ AwaitWatcher
    BY <1>2, <2>6 DEF CloseSub, JoinConverter, AwaitWatcher, Step
  <2> QED BY <1>3, <2>1, <2>2, <2>3, <2>4, <2>5, <2>6, Zenon DEF ProcessStep
<1>4. CASE WatchStep(Goroutines) \/ WatchStep(pc # "returned" /\ (Message \/ Shutdown))
  BY <1>2, <1>4 DEF WatchStep, jobVars
<1>5. CASE ToolStep(Tool)
  BY <1>2, <1>5 DEF ToolStep, jobVars
<1>6. CASE UNCHANGED vars
  BY <1>2, <1>6 DEF vars, jobVars
<1> QED BY <1>3, <1>4, <1>5, <1>6 DEF Next

\* What was published for the job is the beginning of one numbered sequence;
\* a whole one carries every finding of a completed run once and in order and
\* says how many they are, and none of any other run (splitForCompletion,
\* publishCompletion).
THEOREM SequencesWhole == Spec => []SequenceWhole
<1>1. Init => Bare
  BY DEF Init, NativeInit, Bare
<1>2. JobInv /\ Bare /\ [Next]_vars => Bare'
  BY BareStays
<1>3. JobInv /\ Bare /\ Numbered(JobEvents) => SequenceWhole
  <2> SUFFICES ASSUME JobInv, Bare, Numbered(JobEvents), Told
               PROVE  LET all == FlattenSeq([i \in DOMAIN JobEvents |-> JobEvents[i].findings])
                      IN  /\ all = IF verdict = "completed" THEN findings ELSE <<>>
                          /\ Last(JobEvents).count = Len(all)
    BY DEF SequenceWhole
  <2> DEFINE all == Events(verdict)
             n == Len(JobEvents)
             told == IF verdict = "completed" THEN findings ELSE <<>>
  <2>0. JobTypeOK /\ Flow /\ Sent
    BY DEF JobInv
  <2>1. JobEvents # <<>> /\ n \in Nat /\ n # 0 /\ DOMAIN JobEvents = 1..n
    BY <2>0, JobEventsSeq, EmptySeq, LenProperties DEF Told
  <2>2. verdict \in {"completed", "failed", "canceled"}
    BY <2>0, <2>1, NoVerdictNoEvent DEF JobTypeOK
  <2>3. Telling(all, verdict) /\ Carries(all, told)
    BY <2>0, <2>2, EventsTell, EventsCarry
  <2>4. n <= Len(all) /\ \A i \in 1..n : JobEvents[i] = all[i]
    BY <2>0, <2>2 DEF Sent
  <2> HIDE DEF all, told
  <2>5. n = Len(all)
    <3>1. n \in 1..n /\ n \in 1..Len(all)
      BY <2>1, <2>3, <2>4 DEF Telling
    <3>2. Last(JobEvents) = all[n]
      BY <2>4, <3>1 DEF Last
    <3>3. all[n].seq.index = n /\ all[n].seq.total = Len(all)
      BY <2>3, <3>1 DEF Telling
    <3> QED BY <3>2, <3>3 DEF Told, IsTerminal
  <2>6. [i \in DOMAIN JobEvents |-> JobEvents[i].findings] = [i \in 1..Len(all) |-> all[i].findings]
    BY <2>1, <2>4, <2>5
  <2>7. Last(JobEvents) = all[Len(all)]
    BY <2>1, <2>4, <2>5 DEF Last
  <2> QED BY <2>3, <2>6, <2>7 DEF Carries, told
<1> QED BY <1>1, <1>2, <1>3, JobCorrect, EventsNumbered, PTL DEF Spec


-------------------------------------------------------------------------------
(***************************************************************************)
(* Recon's lists.                                                          *)
(***************************************************************************)
\* Hosts that differ at most in their letters.
SameName == {p \in Hosts \X Hosts : Lower(p[1]) = Lower(p[2])}

LEMMA SameNameIs ==
  ASSUME NEW x \in Hosts, NEW y \in Hosts
  PROVE  <<x, y>> \in SameName <=> Lower(x) = Lower(y)
<1>1. <<x, y>> \in Hosts \X Hosts /\ <<x, y>>[1] = x /\ <<x, y>>[2] = y
  OBVIOUS
<1> QED BY <1>1 DEF SameName

\* The parts that Distinct joins, for the exact key and for the lower-case one.
SeenExactly(r) ==
  [i \in DOMAIN r |-> IF r[i] = "blank" \/ \E j \in 1..(i - 1) : r[j] = r[i] THEN <<>> ELSE <<r[i]>>]
SeenLower(r) ==
  [i \in DOMAIN r |->
     IF r[i] = "blank" \/ \E j \in 1..(i - 1) : Lower(r[j]) = Lower(r[i]) THEN <<>> ELSE <<r[i]>>]

LEMMA DistinctIs ==
  ASSUME NEW r
  PROVE  /\ Distinct(r, Exactly) = FlattenSeq(SeenExactly(r))
         /\ Distinct(r, Lower) = FlattenSeq(SeenLower(r))
BY DEF Distinct, Exactly, SeenExactly, SeenLower

\* Subfinder's lines up to the first over the limit, each host once.
LEMMA ScannedType ==
  ASSUME NEW lines \in BoundedSeq({"T", "a", "blank", "long"}, MaxLines)
  PROVE  Scanned(lines) \in Seq({"T", "a", "blank"})
<1> DEFINE L == {"T", "a", "blank", "long"}
           I == {i \in 1..Len(lines) : lines[i] = "long"}
<1>1. PICK m \in 0..MaxLines : lines \in [1..m -> L]
  BY DEF BoundedSeq, SeqOf
<1>2. lines \in Seq(L) /\ Len(lines) = m /\ m \in Nat
  BY <1>1
<1>3. CASE I = {}
  <2>1. ~Contains(lines, "long")
    BY <1>3 DEF Contains
  <2>2. Scanned(lines) = lines
    BY <2>1 DEF Scanned
  <2>3. \A i \in 1..m : lines[i] \in {"T", "a", "blank"}
    BY <1>1, <1>2, <1>3
  <2> QED BY <1>1, <1>2, <2>2, <2>3
<1>4. CASE I # {}
  <2>1. Contains(lines, "long") /\ SelectInSeq(lines, LAMBDA l : l = "long") = Min(I)
    BY <1>4 DEF Contains, SelectInSeq
  <2>2. Min(I) \in I /\ \A i \in I : Min(I) <= i
    <3>1. I \in SUBSET Nat
      OBVIOUS
    <3>2. \E x \in I : \A y \in I : x <= y
      BY <1>4, <3>1, LeastNatural
    <3> HIDE DEF I
    <3> QED BY <3>2 DEF Min
  <2> DEFINE k == Min(I)
  <2>3. Scanned(lines) = SubSeq(lines, 1, k - 1)
    BY <2>1 DEF Scanned
  <2> HIDE DEF k
  <2>4. k \in 1..m /\ \A i \in 1..m : lines[i] = "long" => k <= i
    BY <1>2, <2>2 DEF k
  <2>5. \A i \in 1..(k - 1) : lines[i] \in {"T", "a", "blank"}
    BY <1>1, <1>2, <2>4
  <2> QED BY <1>2, <2>3, <2>4, <2>5, SubSeqProperties
<1> QED BY <1>3, <1>4

LEMMA SubsType ==
  ASSUME NEW lines \in BoundedSeq({"T", "a", "blank", "long"}, MaxLines)
  PROVE  Limited(ParseSubfinder(lines)) \in Seq(Hosts)
<1> DEFINE r == Scanned(lines)
           s == SeenExactly(r)
           p == FlattenSeq(s)
<1>1. r \in Seq({"T", "a", "blank"})
  BY ScannedType
<1> HIDE DEF r
<1>2. ASSUME NEW i \in DOMAIN r PROVE s[i] \in Seq(Hosts)
  <2>1. s[i] = <<>> \/ (s[i] = <<r[i]>> /\ r[i] # "blank")
    BY DEF SeenExactly
  <2>2. r[i] # "blank" => r[i] \in Hosts
    BY <1>1 DEF Hosts
  <2> HIDE DEF s
  <2>3. s[i] = <<>> => s[i] \in Seq(Hosts)
    BY EmptySeq
  <2> QED BY <2>1, <2>2, <2>3, OneOrNone
<1>3. s = [i \in DOMAIN r |-> s[i]]
  BY DEF SeenExactly
<1> HIDE DEF s
<1>4. p \in Seq(Hosts)
  BY <1>1, <1>2, <1>3, FlattenOver
<1>5. ParseSubfinder(lines) = p
  BY DistinctIs DEF ParseSubfinder, r, s
<1> HIDE DEF p
<1>6. Limited(p) \in Seq(Hosts)
  <2> DEFINE e == IF Len(p) < ReconLimit THEN Len(p) ELSE ReconLimit
  <2>1. e \in 0..Len(p)
    BY <1>4
  <2>2. Limited(p) = SubSeq(p, 1, e)
    BY DEF Limited
  <2> HIDE DEF e
  <2>3. \A i \in 1..e : p[i] \in Hosts
    BY <1>4, <2>1
  <2> QED BY <2>1, <2>2, <2>3, SubSeqProperties
<1> QED BY <1>5, <1>6

\* The probes: no name twice, and the names of all that is to be probed.
LEMMA ProbesFit ==
  ASSUME NEW r \in Seq(Hosts \cup {"blank"})
  PROVE  LET p == Distinct(r, Lower)
         IN  /\ p \in Seq(Hosts) /\ AllApart(p, SameName)
             /\ \A k \in 1..Len(p) : \E i \in 1..Len(r) : p[k] = r[i]
             /\ \A i \in 1..Len(r) : r[i] # "blank" => \E k \in 1..Len(p) : Lower(p[k]) = Lower(r[i])
<1> DEFINE s == SeenLower(r)
           p == FlattenSeq(s)
           Seen(i) == \E j \in 1..(i - 1) : Lower(r[j]) = Lower(r[i])
<1>0. DOMAIN r = 1..Len(r) /\ Len(r) \in Nat /\ \A i \in 1..Len(r) : r[i] \in Hosts \cup {"blank"}
  OBVIOUS
<1>1. \A i \in 1..Len(r) : s[i] = IF r[i] = "blank" \/ Seen(i) THEN <<>> ELSE <<r[i]>>
  BY <1>0 DEF SeenLower
<1>2. s = [i \in DOMAIN r |-> s[i]] /\ Distinct(r, Lower) = p
  BY DistinctIs DEF SeenLower
<1> HIDE DEF s
<1>3. ASSUME NEW i \in DOMAIN r PROVE s[i] \in Seq(Hosts)
  <2>1. s[i] = <<>> \/ (s[i] = <<r[i]>> /\ r[i] \in Hosts)
    BY <1>0, <1>1
  <2>2. s[i] = <<>> => s[i] \in Seq(Hosts)
    BY EmptySeq
  <2> QED BY <2>1, <2>2, OneOrNone
<1>4. s \in Seq(Seq(Hosts)) /\ Len(s) = Len(r) /\ p \in Seq(Hosts)
  BY <1>2, <1>3, FlattenOver
<1>5. ASSUME NEW i \in 1..Len(r), NEW k \in 1..Len(s[i])
      PROVE  k = 1 /\ s[i][k] = r[i] /\ r[i] \in Hosts /\ ~Seen(i)
  <2>1. s[i] # <<>>
    <3>1. s[i] = <<>> => Len(s[i]) = 0
      OBVIOUS
    <3> QED BY <3>1
  <2>2. s[i] = <<r[i]>> /\ r[i] # "blank" /\ ~Seen(i)
    BY <1>1, <2>1
  <2>3. Len(<<r[i]>>) = 1 /\ <<r[i]>>[1] = r[i]
    OBVIOUS
  <2>4. k = 1
    BY <2>2, <2>3
  <2>5. s[i][k] = r[i]
    BY <2>2, <2>3, <2>4
  <2> QED BY <1>0, <2>2, <2>4, <2>5
<1>6. PartsApart(s, SameName)
  <2> SUFFICES ASSUME NEW i \in 1..Len(s), NEW j \in 1..Len(s), NEW k \in 1..Len(s[i]),
                      NEW l \in 1..Len(s[j]), <<s[i][k], s[j][l]>> \in SameName
               PROVE  i = j /\ k = l
    BY DEF PartsApart
  <2>1. i \in 1..Len(r) /\ j \in 1..Len(r)
    BY <1>4
  <2>2. /\ k = 1 /\ s[i][k] = r[i] /\ r[i] \in Hosts /\ ~Seen(i)
        /\ l = 1 /\ s[j][l] = r[j] /\ r[j] \in Hosts /\ ~Seen(j)
    BY <1>5, <2>1
  <2>3. Lower(r[i]) = Lower(r[j])
    BY <2>2, SameNameIs
  <2>4. ~(i < j) /\ ~(j < i)
    <3>1. i < j => i \in 1..(j - 1)
      BY <2>1
    <3>2. j < i => j \in 1..(i - 1)
      BY <2>1
    <3> QED BY <2>2, <2>3, <3>1, <3>2
  <2> QED BY <2>1, <2>2, <2>4
<1>7. AllApart(p, SameName)
  BY <1>4, <1>6, FlattenApart
<1>8. ASSUME NEW k \in 1..Len(p) PROVE \E i \in 1..Len(r) : p[k] = r[i]
  <2>1. PICK i \in 1..Len(s) : \E j \in 1..Len(s[i]) : p[k] = s[i][j]
    BY <1>4, FlattenElements
  <2>2. PICK j \in 1..Len(s[i]) : p[k] = s[i][j]
    BY <2>1
  <2>3. i \in 1..Len(r)
    BY <1>4
  <2>4. s[i][j] = r[i]
    BY <1>5, <2>3
  <2> QED BY <2>2, <2>3, <2>4
<1>9. ASSUME NEW i \in 1..Len(r), r[i] # "blank" PROVE \E k \in 1..Len(p) : Lower(p[k]) = Lower(r[i])
  <2> DEFINE J == {j \in 1..Len(r) : r[j] # "blank" /\ Lower(r[j]) = Lower(r[i])}
  <2>1. J \in SUBSET Nat /\ J # {}
    BY <1>9
  <2>2. PICK m \in J : \A j \in J : m <= j
    BY <2>1, LeastNatural
  <2>3. m \in 1..Len(r) /\ r[m] # "blank" /\ Lower(r[m]) = Lower(r[i])
    OBVIOUS
  <2>4. ~Seen(m)
    <3> SUFFICES ASSUME NEW j \in 1..(m - 1), Lower(r[j]) = Lower(r[m]) PROVE FALSE
      OBVIOUS
    <3>1. j \in 1..Len(r) /\ ~(m <= j)
      BY <1>0, <2>3
    <3>2. r[j] # "blank"
      <4>1. Lower("blank") = "blank"
        BY DEF Lower
      <4>2. Lower(r[m]) # "blank"
        BY <2>3 DEF Lower
      <4> QED BY <4>1, <4>2
    <3> QED BY <2>2, <2>3, <3>1, <3>2
  <2>5. s[m] = <<r[m]>>
    BY <1>1, <2>3, <2>4
  <2>6. 1 \in 1..Len(s[m]) /\ s[m][1] = r[m] /\ m \in 1..Len(s)
    BY <1>4, <2>3, <2>5
  <2>7. \E k \in 1..Len(p) : p[k] = s[m][1]
    BY <1>4, <2>6, FlattenHolds
  <2> QED BY <2>3, <2>6, <2>7
<1> QED BY <1>2, <1>4, <1>7, <1>8, <1>9

\* What httpx reports of the probes: some of them, no name twice.
LEMMA AnsweringFits ==
  ASSUME NEW p \in Seq(Hosts), AllApart(p, SameName), NEW up
  PROVE  LET h == Answering(p, up)
         IN  /\ h \in Seq(Hosts) /\ AllApart(h, SameName)
             /\ \A k \in 1..Len(h) : \E i \in 1..Len(p) : h[k] = p[i]
<1> DEFINE s == [i \in DOMAIN p |-> IF p[i] \in up THEN <<p[i]>> ELSE <<>>]
           h == FlattenSeq(s)
<1>0. DOMAIN p = 1..Len(p) /\ Len(p) \in Nat /\ \A i \in 1..Len(p) : p[i] \in Hosts
  OBVIOUS
<1>1. \A i \in 1..Len(p) : s[i] = IF p[i] \in up THEN <<p[i]>> ELSE <<>>
  BY <1>0
<1>2. s = [i \in DOMAIN p |-> s[i]] /\ Answering(p, up) = h
  BY DEF Answering
<1> HIDE DEF s
<1>3. \A i \in DOMAIN p : s[i] \in Seq(Hosts)
  BY <1>0, <1>1, OneOrNone
<1>4. s \in Seq(Seq(Hosts)) /\ Len(s) = Len(p) /\ h \in Seq(Hosts)
  BY <1>2, <1>3, FlattenOver
<1>5. ASSUME NEW i \in 1..Len(p), NEW k \in 1..Len(s[i])
      PROVE  k = 1 /\ s[i][k] = p[i]
  <2>1. s[i] # <<>>
    <3>1. s[i] = <<>> => Len(s[i]) = 0
      OBVIOUS
    <3> QED BY <3>1
  <2>2. s[i] = <<p[i]>>
    BY <1>1, <2>1
  <2>3. Len(<<p[i]>>) = 1 /\ <<p[i]>>[1] = p[i]
    OBVIOUS
  <2>4. k = 1
    BY <2>2, <2>3
  <2> QED BY <2>2, <2>3, <2>4
<1>6. PartsApart(s, SameName)
  <2> SUFFICES ASSUME NEW i \in 1..Len(s), NEW j \in 1..Len(s), NEW k \in 1..Len(s[i]),
                      NEW l \in 1..Len(s[j]), <<s[i][k], s[j][l]>> \in SameName
               PROVE  i = j /\ k = l
    BY DEF PartsApart
  <2>1. i \in 1..Len(p) /\ j \in 1..Len(p)
    BY <1>4
  <2>2. k = 1 /\ s[i][k] = p[i] /\ l = 1 /\ s[j][l] = p[j]
    BY <1>5, <2>1
  <2> QED BY <2>1, <2>2 DEF AllApart
<1>7. AllApart(h, SameName)
  BY <1>4, <1>6, FlattenApart
<1>8. ASSUME NEW k \in 1..Len(h) PROVE \E i \in 1..Len(p) : h[k] = p[i]
  <2>1. PICK i \in 1..Len(s) : \E j \in 1..Len(s[i]) : h[k] = s[i][j]
    BY <1>4, FlattenElements
  <2>2. PICK j \in 1..Len(s[i]) : h[k] = s[i][j]
    BY <2>1
  <2>3. i \in 1..Len(p)
    BY <1>4
  <2>4. s[i][j] = p[i]
    BY <1>5, <2>3
  <2> QED BY <2>2, <2>3, <2>4
<1> QED BY <1>2, <1>4, <1>7, <1>8

\* A list with no name twice has as many names as members.
LEMMA NamesCounted ==
  ASSUME NEW s \in Seq(Hosts), AllApart(s, SameName)
  PROVE  Cardinality({Lower(h) : h \in ToSet(s)}) = Len(s)
<1> DEFINE n == Len(s)
           N == {Lower(h) : h \in ToSet(s)}
           f == [i \in 1..n |-> Lower(s[i])]
<1>1. n \in Nat /\ DOMAIN s = 1..n /\ \A i \in 1..n : s[i] \in Hosts
  OBVIOUS
<1>2. N = {Lower(s[i]) : i \in 1..n}
  BY <1>1 DEF ToSet
<1> HIDE DEF N
<1>3. \A i, j \in 1..n : f[i] = f[j] => i = j
  BY <1>1, SameNameIs DEF AllApart
<1>4. f \in Bijection(1..n, N)
  BY <1>2, <1>3 DEF Bijection, Injection, Surjection, IsInjective
<1>5. ExistsBijection(1..n, N)
  BY <1>4 DEF ExistsBijection
<1>6. IsFiniteSet(1..n) /\ Cardinality(1..n) = n
  <2> HIDE DEF n
  <2>1. IsFiniteSet(1..n) /\ Cardinality(1..n) = IF 1 > n THEN 0 ELSE n - 1 + 1
    BY <1>1, FS_Interval
  <2> QED BY <1>1, <2>1
<1> QED BY <1>5, <1>6, FS_Bijection DEF N

\* What httpx reported is a beginning of the probes that answered.
Probing ==
  /\ subs \in Seq(Hosts)
  /\ pc \in {"probed", "surface"} =>
       \E up \in SUBSET Hosts :
         \E n \in 0..Len(Answering(ProbeSet(job.target, subs), up)) :
           live = SubSeq(Answering(ProbeSet(job.target, subs), up), 1, n)

LEMMA ProbingStays ==
  ASSUME JobInv, Probing, [Next]_vars
  PROVE  Probing'
<1>1. ASSUME UNCHANGED <<job, subs, live>>, pc' \in {"probed", "surface"} => pc \in {"probed", "surface"}
      PROVE  Probing'
  BY <1>1 DEF Probing
<1>2. CASE ReconStep
  <2>1. CASE ReconStarted \/ SubdomainsDiscovered \/ LivenessProbed \/ PublishAttackSurface
    BY <1>1, <2>1 DEF ReconStarted, SubdomainsDiscovered, LivenessProbed, PublishAttackSurface, Step, reconVars
  <2>2. CASE SubfinderReturns
    <3>1. pc' \notin {"probed", "surface"}
      BY <2>2 DEF SubfinderReturns, Step
    <3>2. subs' = subs \/ \E lines \in BoundedSeq({"T", "a", "blank", "long"}, MaxLines) :
                            subs' = Limited(ParseSubfinder(lines))
      BY <2>2 DEF SubfinderReturns
    <3> QED BY <3>1, <3>2, SubsType DEF Probing
  <2>3. CASE HttpxReturns
    <3> DEFINE heard(up) == Answering(ProbeSet(job.target, subs), up)
    <3>1. UNCHANGED <<job, subs>>
      BY <2>3 DEF HttpxReturns, Step
    <3>2. CASE pc' # "probed"
      BY <2>3, <3>1, <3>2 DEF HttpxReturns, Step, Probing
    <3>3. CASE pc' = "probed"
      <4>1. PICK up \in SUBSET Hosts, n \in 0..MaxProbes :
              /\ n = Len(heard(up)) \/ n < Len(heard(up))
              /\ live' = SubSeq(heard(up), 1, n)
        BY <2>3, <3>3 DEF HttpxReturns, Step
      <4>2. heard(up)' = heard(up)
        BY <3>1
      <4>3. n \in 0..Len(heard(up))
        <5>1. ProbeSet(job.target, subs) \in Seq(Hosts) /\ AllApart(ProbeSet(job.target, subs), SameName)
          <6>1. job.target \in Hosts \cup {"blank"}
            BY DEF JobInv, JobTypeOK, JobSpace, NativeJobs, Hosts
          <6>2. <<job.target>> \o subs \in Seq(Hosts \cup {"blank"})
            BY <6>1 DEF Probing
          <6> QED BY <6>2, ProbesFit DEF ProbeSet
        <5>2. Len(heard(up)) \in Nat
          BY <5>1, AnsweringFits, LenProperties
        <5> HIDE DEF heard
        <5>3. n \in Nat
          BY DEF MaxProbes
        <5> QED BY <4>1, <5>2, <5>3
      <4> QED BY <3>1, <4>1, <4>2, <4>3 DEF Probing
    <3> QED BY <3>2, <3>3
  <2>4. CASE ReconCompleted
    <3>1. pc' = "judge" /\ subs' = <<>>
      BY <2>4 DEF ReconCompleted, Step
    <3> QED BY <3>1, EmptySeq DEF Probing
  <2> QED BY <1>2, <2>1, <2>2, <2>3, <2>4 DEF ReconStep
<1>3. CASE ProcessStep /\ ~ReconStep
  <2>1. ProcessStep /\ ~ReconStep /\ UNCHANGED <<subs, live>>
    BY <1>3
       DEF ProcessStep, Claim, SpawnCancelWatcher, JobStarted, Judge, Tell, PublishCompletion,
           FinalProgress, CloseSub, JoinConverter, AwaitWatcher, reconVars
  <2>2. CASE NativeStep
    BY <1>1, <2>1, <2>2
       DEF NativeStep, Preflight, Mint, Spawn, Wait, ParseOutput, PostProcess, Returns, Step
  <2>3. CASE Claim \/ SpawnCancelWatcher \/ JobStarted
    BY <1>1, <2>1, <2>3 DEF Claim, SpawnCancelWatcher, JobStarted, Step, JobTypeOK, JobInv, JobSpace, NativeJobs
  <2>4. CASE Judge \/ Tell \/ FinalProgress
    BY <1>1, <2>1, <2>4 DEF Judge, Tell, FinalProgress, Step
  <2>5. CASE PublishCompletion
    BY <1>1, <2>1, <2>5 DEF PublishCompletion, Step
  <2>6. CASE CloseSub \/ JoinConverter \/ AwaitWatcher
    BY <1>1, <2>1, <2>6 DEF CloseSub, JoinConverter, AwaitWatcher, Step
  <2> QED BY <2>1, <2>2, <2>3, <2>4, <2>5, <2>6, Zenon DEF ProcessStep
<1>4. CASE WatchStep(Goroutines) \/ WatchStep(pc # "returned" /\ (Message \/ Shutdown))
  BY <1>1, <1>4 DEF WatchStep, jobVars, reconVars
<1>5. CASE ToolStep(Tool)
  BY <1>1, <1>5 DEF ToolStep, jobVars, reconVars
<1>6. CASE UNCHANGED vars
  BY <1>1, <1>6 DEF vars, jobVars, reconVars
<1> QED BY <1>2, <1>3, <1>4, <1>5, <1>6 DEF Next

\* The attack surface is the first event if there is one.
LEMMA SurfaceAlone ==
  ASSUME JobInv, NEW i \in DOMAIN out, out[i].type = "attack_surface"
  PROVE  i = 1
<1>0. JobTypeOK /\ Flow /\ Sent /\ out \in Seq({AttackSurface} \cup JobEventSet)
  BY DEF JobInv, JobTypeOK
<1>1. ASSUME NEW k \in 1..Len(JobEvents) PROVE JobEvents[k].type # "attack_surface"
  <2>1. JobEvents # <<>>
    <3>1. JobEvents = <<>> => Len(JobEvents) = 0
      OBVIOUS
    <3> QED BY <3>1
  <2>2. verdict \in {"completed", "failed", "canceled"}
    BY <1>0, <2>1, NoVerdictNoEvent DEF JobTypeOK
  <2>3. Telling(Events(verdict), verdict)
    BY <1>0, <2>2, EventsTell
  <2>4. JobEvents[k] = Events(verdict)[k] /\ k \in 1..Len(Events(verdict))
    BY <1>0, <2>2, <2>3, JobEventsSeq DEF Sent, Telling
  <2>5. JobEvents[k] \in JobEventSet
    BY <2>3, <2>4 DEF Telling
  <2> QED BY <2>5 DEF JobEventSet
<1>2. i \in 1..Len(out) /\ out # <<>>
  BY <1>0
<1>3. CASE out[1].type = "attack_surface"
  <2>1. JobEvents = Tail(out)
    BY <1>2, <1>3 DEF JobEvents
  <2>2. SUFFICES ASSUME i # 1 PROVE FALSE
    OBVIOUS
  <2>3. i - 1 \in 1..Len(Tail(out)) /\ Tail(out)[i - 1] = out[i]
    BY <1>0, <1>2, <2>2
  <2> QED BY <1>1, <2>1, <2>3
<1>4. CASE out[1].type # "attack_surface"
  <2>1. JobEvents = out
    BY <1>4 DEF JobEvents
  <2> QED BY <1>1, <1>2, <2>1
<1> QED BY <1>3, <1>4

\* Recon publishes its attack surface at most once and before the job's own
\* event; the probes cover the target and every subdomain kept, and neither
\* they nor the live hosts name a host twice, however its letters are written
\* (probeSet, runHttpx, publishAttackSurfaceIfReady).
THEOREM SurfaceListed == Spec => []SurfaceFirst
<1>1. Init => Probing
  BY EmptySeq DEF Init, ReconInit, Probing
<1>2. JobInv /\ Probing /\ [Next]_vars => Probing'
  BY ProbingStays
<1>3. JobInv /\ Probing => SurfaceFirst
  <2> SUFFICES ASSUME JobInv, Probing PROVE SurfaceFirst
    OBVIOUS
  <2> DEFINE r == <<job.target>> \o subs
             p == ProbeSet(job.target, subs)
             Names(hosts) == {Lower(h) : h \in ToSet(hosts)}
  <2>1. job.target \in Hosts \cup {"blank"} /\ subs \in Seq(Hosts)
    BY DEF JobInv, JobTypeOK, JobSpace, NativeJobs, Hosts, Probing
  <2>2. r \in Seq(Hosts \cup {"blank"})
    BY <2>1
  <2>3. p = Distinct(r, Lower)
    BY DEF ProbeSet
  <2> HIDE DEF r, p
  <2>4. /\ p \in Seq(Hosts) /\ AllApart(p, SameName)
        /\ \A k \in 1..Len(p) : \E i \in 1..Len(r) : p[k] = r[i]
        /\ \A i \in 1..Len(r) : r[i] # "blank" => \E k \in 1..Len(p) : Lower(p[k]) = Lower(r[i])
    BY <2>2, <2>3, ProbesFit
  <2>5. Names(p) = Names(r) \ {"blank"}
    <3>1. DOMAIN p = 1..Len(p) /\ DOMAIN r = 1..Len(r)
      BY <2>2, <2>4
    <3>2. \A k \in 1..Len(p) : p[k] \in Hosts
      BY <2>4
    <3>3. \A h \in Hosts : Lower(h) # "blank"
      BY DEF Hosts, Lower
    <3>4. Lower("blank") = "blank"
      BY DEF Lower
    <3>5. ASSUME NEW x \in Names(p) PROVE x \in Names(r) \ {"blank"}
      <4>1. PICK k \in 1..Len(p) : x = Lower(p[k])
        BY <3>1 DEF ToSet
      <4> QED BY <2>4, <3>1, <3>2, <3>3, <4>1 DEF ToSet
    <3>6. ASSUME NEW x \in Names(r) \ {"blank"} PROVE x \in Names(p)
      <4>1. PICK i \in 1..Len(r) : x = Lower(r[i])
        BY <3>1 DEF ToSet
      <4>2. r[i] # "blank"
        BY <3>4, <3>6, <4>1
      <4> QED BY <2>4, <3>1, <4>1, <4>2 DEF ToSet
    <3> HIDE DEF Names
    <3> QED BY <3>5, <3>6
  <2>6. Cardinality(Names(p)) = Len(p)
    BY <2>4, NamesCounted
  <2>7. ASSUME pc = "surface" PROVE Names(live) \subseteq Names(p) /\ Cardinality(Names(live)) = Len(live)
    <3>1. PICK up \in SUBSET Hosts : \E n \in 0..Len(Answering(p, up)) : live = SubSeq(Answering(p, up), 1, n)
      BY <2>7 DEF Probing, p
    <3> DEFINE h == Answering(p, up)
    <3>2. PICK n \in 0..Len(h) : live = SubSeq(h, 1, n)
      BY <3>1
    <3>3. /\ h \in Seq(Hosts) /\ AllApart(h, SameName)
          /\ \A k \in 1..Len(h) : \E i \in 1..Len(p) : h[k] = p[i]
      BY <2>4, AnsweringFits
    <3> HIDE DEF h
    <3>4. n \in Nat /\ n <= Len(h) /\ Len(h) \in Nat /\ \A i \in 1..n : i \in 1..Len(h) /\ h[i] \in Hosts
      BY <3>3
    <3>5. live \in Seq(Hosts) /\ Len(live) = n /\ \A i \in 1..n : live[i] = h[i]
      BY <3>2, <3>4, SubSeqProperties
    <3>6. AllApart(live, SameName)
      BY <3>3, <3>4, <3>5 DEF AllApart
    <3>7. Names(live) \subseteq Names(p)
      <4>1. DOMAIN live = 1..n /\ DOMAIN p = 1..Len(p)
        BY <2>4, <3>5
      <4> QED BY <3>3, <3>4, <3>5, <4>1 DEF ToSet
    <3> QED BY <3>5, <3>6, <3>7, NamesCounted
  <2>8. \A i \in DOMAIN out : out[i].type = "attack_surface" => i = 1
    BY SurfaceAlone
  <2> QED BY <2>5, <2>6, <2>7, <2>8 DEF SurfaceFirst, p, r
<1> QED BY <1>1, <1>2, <1>3, JobCorrect, PTL DEF Spec

===============================================================================
