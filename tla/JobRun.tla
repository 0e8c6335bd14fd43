-------------------------------- MODULE JobRun --------------------------------
(***************************************************************************)
(* Processor.Process for one delivery: claim, cancel watcher, the run of a *)
(* native tool or of recon, the verdict, and the events that tell it.      *)
(***************************************************************************)
EXTENDS ReconRun

VARIABLES
  verdict,   \* what Process decided to report
  pending,   \* completion events still to publish
  answer     \* what Process returns

processVars == <<verdict, pending, answer>>
vars == <<watchVars, jobVars, toolVars, stream, out, reconVars, processVars>>

\* A job is recon, a native tool's, or one no runner is registered for; it
\* may lack the identifiers an event needs.
NoTool == [name |-> "none"]
NativeJobs ==
  {j \in [kind : {"native"}, tool : Tools, long : 0..MaxRecords, named : {TRUE}, target : {"t"}] :
     j.long > 0 => j.tool.lines}

JobSpace ==
  NativeJobs
  \cup [kind : {"recon"}, tool : {NoTool}, named : BOOLEAN, target : {"t", "blank"}]
  \cup [kind : {"unknown"}, tool : {NoTool}, named : BOOLEAN, target : {"t"}]

PCs == {"claim", "subscribe", "started", "judge", "tell", "publish", "final",
        "close", "join", "await", "returned"} \cup NativePCs \cup ReconPCs

TypeOK ==
  /\ WatchTypeOK /\ NativeTypeOK /\ ReconTypeOK
  /\ job \in JobSpace
  /\ pc \in PCs
  /\ verdict \in {"none", "completed", "failed", "canceled"}
  /\ answer \in {"none", "nil", "error", "notTerminal", "duplicate"}

Init ==
  /\ WatchInit /\ NativeInit /\ ReconInit
  /\ job \in JobSpace
  /\ pc = "claim"
  /\ stream = "none" /\ out = <<>> /\ pending = <<>>
  /\ verdict = "none" /\ answer = "none"

\* Step 1.  Nothing is subscribed yet: an early return has nothing to undo.
Claim ==
  /\ pc = "claim"
  /\ \/ ~root /\ Step("subscribe") /\ UNCHANGED answer
     \/ ~root /\ Step("returned") /\ answer' = "duplicate"
     \/ (root \/ "redis" \in Faults) /\ Step("returned") /\ answer' = "notTerminal"
  /\ UNCHANGED <<watchVars, toolVars, stream, out, reconVars, verdict, pending>>

SpawnCancelWatcher ==
  /\ pc = "subscribe"
  /\ Subscribe
  /\ Step("started")
  /\ UNCHANGED <<toolVars, stream, out, reconVars, processVars>>

\* Steps 4 and 5: job_started, then recon, a runner, or no runner.
JobStarted ==
  /\ pc = "started"
  /\ XAdd(root, "job_started")
  /\ CASE job.kind = "recon"   -> Step("recon") /\ UNCHANGED <<verdict, pending>>
       [] job.kind = "native"  -> Step("preflight") /\ UNCHANGED <<verdict, pending>>
       [] job.kind = "unknown" -> /\ Step("tell")
                                  /\ verdict' = "failed"
                                  /\ pending' = <<JobCompleted("failed", job.named)>>
  /\ UNCHANGED <<watchVars, toolVars, out, reconVars, answer>>

(***************************************************************************)
(* Steps 7 to 9: cancelled, failed or completed.  A cancelled context is   *)
(* the user's only while the worker's own is alive; it turns a tool's      *)
(* error into a cancellation, and recon's every outcome.                   *)
(***************************************************************************)
Discriminate ==
  CASE own /\ ~root /\ (failed \/ job.kind = "recon") -> "canceled"
    [] failed /\ (root \/ ~own)                       -> "failed"
    [] OTHER                                          -> "completed"

Events(v) ==
  IF v = "completed" /\ job.kind = "native"
  THEN SplitForCompletion(findings, [JobCompleted(v, job.named) EXCEPT !.count = Len(findings)])
  ELSE <<JobCompleted(v, job.named)>>

Judge ==
  /\ pc = "judge"
  /\ verdict' = Discriminate
  /\ pending' = Events(verdict')
  /\ Step(IF verdict' = "completed" THEN "publish" ELSE "tell")
  /\ UNCHANGED <<watchVars, toolVars, stream, out, reconVars, answer>>

\* emitFailure and emitCancellation: the progress event comes first.
Tell ==
  /\ pc = "tell"
  /\ XAdd(root, IF verdict = "failed" THEN "job_failed" ELSE "job_canceled")
  /\ Step("publish")
  /\ UNCHANGED <<watchVars, toolVars, out, reconVars, processVars>>

\* What Process returns once every event is out.
Answer(v) == IF v = "failed" THEN "error" ELSE "nil"

(***************************************************************************)
(* publishCompletion.  The first failure is returned and later events are  *)
(* not tried.  The marker that goes before each event is WorkerLoop's.     *)
(* "out" is the events, not their deliveries: one whose command the Redis  *)
(* client sends again arrives again, under the same number.                *)
(***************************************************************************)
Published ==
  /\ ~root
  /\ Validate(Head(pending))
  /\ out' = Append(out, Head(pending))

PublishLogsErrors ==
  /\ pc = "publish"
  /\ \/ Published
     \/ (root \/ "redis" \in Faults \/ ~Validate(Head(pending))) /\ UNCHANGED out
  /\ pending' = Tail(pending)
  /\ IF Tail(pending) # <<>> THEN Step("publish") /\ UNCHANGED answer
     ELSE /\ answer' = Answer(verdict)
          /\ Step(IF verdict = "completed" THEN "final" ELSE "close")
  /\ UNCHANGED <<watchVars, toolVars, stream, reconVars, verdict>>

PublishCompletion ==
  /\ pc = "publish"
  /\ \/ /\ Published
        /\ pending' = Tail(pending)
        /\ IF Tail(pending) # <<>> THEN Step("publish") /\ UNCHANGED answer
           ELSE /\ answer' = Answer(verdict)
                /\ Step(IF verdict = "completed" THEN "final" ELSE "close")
     \/ /\ \/ (root \/ "redis" \in Faults \/ ~Validate(Head(pending))) /\ UNCHANGED out
           \/ "redis" \in Faults /\ Published   \* the reply is lost
        /\ answer' = "notTerminal"
        /\ Step("close")
        /\ UNCHANGED pending
  /\ UNCHANGED <<watchVars, toolVars, stream, reconVars, verdict>>

FinalProgress ==
  /\ pc = "final"
  /\ XAdd(root, "job_completed")
  /\ Step("close")
  /\ UNCHANGED <<watchVars, toolVars, out, reconVars, processVars>>

(***************************************************************************)
(* The deferred calls.                                                     *)
(***************************************************************************)
CloseSub ==
  /\ pc = "close"
  /\ CloseSubscription
  /\ Step("join")
  /\ UNCHANGED <<toolVars, stream, out, reconVars, processVars>>

JoinConverter ==
  /\ pc = "join"
  /\ Closed
  /\ Step("await")
  /\ UNCHANGED <<watchVars, toolVars, stream, out, reconVars, processVars>>

AwaitWatcher ==
  /\ pc = "await"
  /\ WatcherGone
  /\ CancelOwn
  /\ Step("returned")
  /\ UNCHANGED <<toolVars, stream, out, reconVars, processVars>>

-------------------------------------------------------------------------------
ProcessStep ==
  \/ Claim
  \/ SpawnCancelWatcher
  \/ JobStarted
  \/ NativeStep /\ UNCHANGED <<watchVars, stream, out, reconVars, processVars>>
  \/ ReconStep /\ UNCHANGED <<watchVars, toolVars, processVars>>
  \/ Judge
  \/ Tell
  \/ PublishCompletion
  \/ FinalProgress
  \/ CloseSub
  \/ JoinConverter
  \/ AwaitWatcher

WatchStep(A) == A /\ UNCHANGED <<jobVars, toolVars, stream, out, reconVars, processVars>>
ToolStep(A) == A /\ UNCHANGED <<watchVars, jobVars, stream, out, reconVars, processVars>>

Next ==
  \/ ProcessStep
  \/ WatchStep(Goroutines)
  \/ WatchStep(pc # "returned" /\ (Message \/ Shutdown))
  \/ ToolStep(Tool)

Spec == Init /\ [][Next]_vars

-------------------------------------------------------------------------------
(***************************************************************************)
(* Safety.                                                                 *)
(***************************************************************************)
\* The events of the job itself: all but recon's, which is the first if any.
JobEvents == IF out # <<>> /\ out[1].type = "attack_surface" THEN Tail(out) ELSE out
Told == JobEvents # <<>> /\ IsTerminal(Last(JobEvents).seq)

\* When Process returns anything but ErrJobNotTerminal the delivery is
\* acknowledged and forgotten: the API has been sent a terminal event by
\* then, after every other event of the job, and the progress stream has not
\* announced a completion before it was.
ReturnTells ==
  /\ pc = "returned" /\ answer \in {"nil", "error"} => Told /\ Last(out) = Last(JobEvents)
  /\ stream = "job_completed" => Told /\ Last(JobEvents).status = "completed"

\* Numbered from 1, one total, terminal only at the end, none too large.
Numbered(evs) ==
  \A i \in DOMAIN evs :
    /\ evs[i].seq.index = i
    /\ evs[i].seq.total = evs[1].seq.total
    /\ (evs[i].type = "job_completed") <=> IsTerminal(evs[i].seq)
    /\ Len(evs[i].findings) <= MaxFindingsPerEvent

\* Whatever was published is the beginning of one numbered sequence.  A whole
\* completed sequence carries every finding of the run once and in order, and
\* their number; any other verdict carries none.
SequenceWhole ==
  LET evs == JobEvents
  IN  /\ Numbered(evs)
      /\ Told => LET all == FlattenSeq([i \in DOMAIN evs |-> evs[i].findings])
                 IN  /\ all = IF verdict = "completed" THEN findings ELSE <<>>
                     /\ Last(evs).count = Len(all)

\* A job is reported cancelled only if somebody asked for it: not for a
\* worker that stops, a tool that times out, or a message nobody can read.
CanceledAsked == (\E i \in DOMAIN JobEvents : JobEvents[i].status = "canceled") => asked

\* A returned Process leaves no goroutine that still waits, no subscription,
\* no process and no report file.
LeavesNothing ==
  pc = "returned" => /\ WatcherGone /\ Closed /\ sub # "open"
                     /\ proc # "running" /\ ~tmp

\* "completed" is told of a native tool only when its report was complete,
\* neither cut by the cap nor by a timeout, and was read to its end.  The two
\* exceptions: a lenient tool that did not start or died before its first
\* byte, and a report of lines with one too long for the scanner, of which
\* what comes before that line is reported and nothing after it.
CompletedMeansWhole ==
  job.kind = "native" /\ verdict = "completed" =>
    /\ closed \/ (job.tool.lenient /\ job.tool.emptyOK /\ written = 0)
    /\ ~capped
    /\ \/ job.tool.post
       \/ Len(findings) = written
       \/ job.tool.lines /\ job.long \in 1..written /\ Len(findings) = job.long - 1

\* The attack surface goes out at most once, before the job's own event, and
\* lists the probed hosts once each; the probes cover the target and every
\* subdomain kept.
SurfaceFirst ==
  /\ \A i \in DOMAIN out : out[i].type = "attack_surface" => i = 1
  /\ pc = "surface" =>
       LET probes == ProbeSet(job.target, subs)
           Names(hosts) == {Lower(h) : h \in ToSet(hosts)}
       IN  /\ Names(probes) = Names(<<job.target>> \o subs) \ {"blank"}
           /\ Cardinality(Names(probes)) = Len(probes)
           /\ Names(live) \subseteq Names(probes)
           /\ Cardinality(Names(live)) = Len(live)

(***************************************************************************)
(* Statements of the code's comments that its steps do not keep.           *)
(***************************************************************************)

\* "Under leniency the old 'empty -> zero findings, no error' would have
\* turned exactly that [a crash] into a successful scan of a clean host"
\* (nikto/parse.go): a completed scan has a report.
CompletedMeansReport ==
  job.kind = "native" /\ verdict = "completed" => closed

-------------------------------------------------------------------------------
(***************************************************************************)
(* Liveness.  The goroutines are scheduled, time passes, and a process     *)
(* whose context is done is killed.  Nothing is assumed of users, Redis,   *)
(* the tool, or the helpers a tool leaves behind.                          *)
(***************************************************************************)
Fairness ==
  /\ WF_vars(ProcessStep)
  /\ WF_vars(WatchStep(Goroutines))
  /\ WF_vars(ToolStep(Timeout))
  /\ WF_vars(ToolStep(ToolKilled))

FairSpec == Spec /\ Fairness

\* Process returns: its deferred wait for the watcher comes before cancel(),
\* so the watcher and the converter must end without it, however full the
\* event channel is.  The one exception is a helper that keeps the pipe.
ProcessReturns == <>(pc = "returned") \/ <>[](pc = "wait" /\ proc = "exited" /\ held)

===============================================================================
