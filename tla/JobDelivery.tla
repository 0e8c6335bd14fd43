----------------------------- MODULE JobDelivery -----------------------------
(***************************************************************************)
(* The fleet: the API that dispatches jobs, the worker loops, the reclaim  *)
(* loops, the heartbeats, and the processes that start, stop and die.      *)
(***************************************************************************)
EXTENDS WorkerLoop, Reclaimer

vars == <<status, beat, queue, processing, claim, marker, reclaims, outcomes,
          dispatched, task, at, runs, reported, dropped, sweep, released, lost>>

Init == BrokerInit /\ WorkInit /\ ReclaimInit

TypeOK == BrokerTypeOK /\ WorkTypeOK /\ ReclaimTypeOK

(***************************************************************************)
(* Life of a process (runMain).                                            *)
(***************************************************************************)
\* Startup phase 4, then the three loops.  Without "join" no process
\* registers while a peer's sweep is between its two SCANs.
Start(w) ==
  /\ \/ Register(w)
     \/ RegisterFails(w)
  /\ "join" \in Faults \/ \A v \in Workers : sweep[v].pc # "scan"
  /\ UNCHANGED <<listVars, keyVars, apiVars, workVars, reclaimVars>>

HeartbeatTick(w) ==
  /\ Refresh(w)
  /\ UNCHANGED <<listVars, keyVars, apiVars, workVars, reclaimVars>>

\* The heartbeat goroutine stops at the cancel while the drain may go on for
\* DrainGraceSeconds, 60 by default, so the key can expire during a drain.
\* It lives at least 40s after the cancel and an Ack takes at most 5s, so an
\* Ack that was due at the cancel is over by then.
Expire(w) ==
  /\ beat[w]
  /\ \/ status[w] \in {"down", "crashed"}
     \/ status[w] = "draining" /\ ~AckPending(w)
     \/ status[w] = "up" /\ "lapse" \in Faults
  /\ beat' = [beat EXCEPT ![w] = FALSE]
  /\ UNCHANGED <<status, listVars, keyVars, apiVars, workVars, reclaimVars>>

Shutdown(w) ==
  /\ "shutdown" \in Faults
  /\ w \notin Stable
  /\ status[w] = "up"
  /\ status' = [status EXCEPT ![w] = "draining"]
  /\ UNCHANGED <<beat, listVars, keyVars, apiVars, workVars, reclaimVars>>

\* The process ends: exit code 0 after wg.Wait, or exit code 2 when the
\* grace timer fires first.  The reclaim loop is waited for in both cases;
\* an Ack (5s) never outlasts the grace period (60s).
Exit(w) ==
  /\ status[w] = "draining"
  /\ ~AckPending(w)
  /\ sweep[w].pc = "idle"
  /\ status' = [status EXCEPT ![w] = "down"]
  /\ task' = [task EXCEPT ![w] = [s \in Slots |-> Free]]
  /\ UNCHANGED <<beat, listVars, keyVars, apiVars, at, runs, reported, dropped, reclaimVars>>

\* Everything in memory is gone, a payload in a sweep's hands included.
Crash(w) ==
  /\ "crash" \in Faults
  /\ w \notin Stable
  /\ status[w] \in {"up", "draining"}
  /\ status' = [status EXCEPT ![w] = "crashed"]
  /\ task' = [task EXCEPT ![w] = [s \in Slots |-> Free]]
  /\ sweep' = [sweep EXCEPT ![w] = Idle]
  /\ lost' = lost \cup InHand(w)
  /\ UNCHANGED <<beat, listVars, keyVars, apiVars, at, runs, reported, dropped, released>>

Next ==
  \/ \E j \in Jobs : Dispatch(j) /\ UNCHANGED <<workVars, reclaimVars>>
  \/ \E w \in Workers :
       \/ Start(w)
       \/ HeartbeatTick(w)
       \/ Expire(w)
       \/ Shutdown(w)
       \/ Exit(w)
       \/ Crash(w)
       \/ WorkStep(w) /\ UNCHANGED reclaimVars
       \/ SweepStep(w) /\ UNCHANGED workVars

Spec == Init /\ [][Next]_vars

-------------------------------------------------------------------------------
(***************************************************************************)
(* Safety.                                                                 *)
(***************************************************************************)

\* A job's runner is started at most once plus once per DEL of its claim, and
\* there are no more DELs than allowed reclaims and re-sends of each, no matter
\* which faults strike: duplicates, false deaths, racing sweeps and failing
\* calls included.  The claim (idem.go) admits one run, only a sweep releases
\* it, and the counter (reclaim.go) hands each attempt number out once.  Where
\* no reply is lost that is one run plus one per allowed reclaim.
BoundedRuns == \A j \in Jobs : runs[j] <= 1 + MaxReclaims * (1 + ResendLimit)

\* At most one run of a job ever publishes a findings event, so a reclaim
\* never duplicates findings: publishCompletion sets the marker before the
\* first event and reclaimOne refuses to retry a marked job.
ReportedOnce == \A j \in Jobs : reported[j] <= 1

\* A sweep never holds the processing list of a running process open: "a live
\* peer's in-flight jobs are never touched" (reclaim_wiring.go).
LiveListsUntouched ==
  \A w \in Workers : \A i \in 1..Len(sweep[w].keys) :
    status[sweep[w].keys[i][1]] # "up"

\* Every goroutine of a running process finds its delivery in the process's
\* own processing list, so the LREM of its Ack removes an entry ("never
\* expected" otherwise, queue.go) and a crash leaves the job recoverable.  An
\* LREM that is sent again breaks this for a second copy of its own payload on
\* the same list, so it is stated where no job has two copies or no reply is lost.
InFlightListed ==
  \A w \in Workers, j \in Jobs :
    status[w] = "up" =>
      Cardinality({s \in Slots : task[w][s].job = j})
        <= Cardinality(Positions(processing[w][PriorityOf[j]], j))

\* Where a dispatched job can be: on a list, in a sweep's hands, reported
\* terminal, lost by a sweep, or turned away by its own claim.
Accounted(j) ==
  \/ \E p \in Priorities : Positions(queue[p], j) # {}
  \/ \E w \in Workers, p \in Priorities : Positions(processing[w][p], j) # {}
  \/ \E w \in Workers : sweep[w].hand = j
  \/ outcomes[j] # {}
  \/ j \in lost
  \/ j \in dropped

\* A well-formed job that was dispatched disappears without a terminal event in
\* two ways only: through the gap a sweep documents between its RPOP and the
\* requeue or failure event, and when the client sends a SETNX again whose
\* first execution made the claim, so that Process drops and Acks the job as a
\* duplicate of itself.  No other Ack, duplicate drop or discard loses the last
\* copy, and no lost reply of any other call does.
NoSilentLoss ==
  \A j \in Jobs \ Malformed : dispatched[j] > 0 => Accounted(j)

\* Once a job's completed event is out, a failed event follows only if some
\* process crashed: the detached Ack of finish removes the delivery before a
\* sweep can see it, however a drain interleaves with it.
CompletedStands ==
  [][\A j \in Jobs : "completed" \in outcomes[j] /\ "failed" \in outcomes'[j]
                       => "failed" \in outcomes[j] \/ \E w \in Workers : status[w] = "crashed"]_vars

\* A payload only ever sits on lists of the priority it was dispatched with,
\* through checkout, crash and requeue: Ack looks for it nowhere else.
PriorityKept ==
  \A p \in Priorities :
    /\ \A i \in 1..Len(queue[p]) : PriorityOf[queue[p][i]] = p
    /\ \A w \in Workers : \A i \in 1..Len(processing[w][p]) :
         PriorityOf[processing[w][p][i]] = p

(***************************************************************************)
(* Why BoundedRuns holds: the parts of its inductive invariant.            *)
(***************************************************************************)

\* A goroutine at work has a job, and one that publishes has a verdict.
TaskShape ==
  \A w \in Workers, s \in Slots :
    /\ task[w][s].pc # "free" => task[w][s].job \in Jobs
    /\ task[w][s].pc \in {"mark", "publish"} => task[w][s].verdict \in Verdicts

\* A sweep past its SCAN has a list open, and past its RPOP a job in hand.
SweepShape ==
  \A w \in Workers :
    /\ sweep[w].pc \notin {"idle", "scan"} => sweep[w].keys # <<>>
    /\ sweep[w].pc \notin {"idle", "scan", "drain"} => sweep[w].hand \in Jobs

Deciding(w) == sweep[w].pc \in {"marker", "release"}

\* Of attempt a of job j, the DELs sent n times again or more are to come.
Unspent(j, a, n) == \A d \in released[j] : d[1] = a => d[2] < n

\* The attempt number a sweep decides on came from the counter, no other
\* sweep decides on it, and no DEL but those this sweep has sent used it.
Tickets ==
  \A w \in Workers : Deciding(w) =>
    /\ sweep[w].attempts \in 1..reclaims[sweep[w].hand]
    /\ Unspent(sweep[w].hand, sweep[w].attempts, sweep[w].sent)
    /\ sweep[w].pc = "release" => sweep[w].attempts <= MaxReclaims
    /\ \A v \in Workers : v # w /\ Deciding(v) /\ sweep[v].hand = sweep[w].hand
                              => sweep[v].attempts # sweep[w].attempts

\* Every DEL used an attempt number within the budget and is told from the
\* others by how often it was sent again, and every run was admitted by a free
\* claim: the first one, or one a DEL made free.
Ledger ==
  \A j \in Jobs :
    /\ \A d \in released[j] :
         /\ d[1] \in 1..reclaims[j]
         /\ d[1] \in 1..MaxReclaims
    /\ runs[j] <= Cardinality(released[j]) + (IF j \in claim THEN 1 ELSE 0)

RunInv == TypeOK /\ TaskShape /\ SweepShape /\ Tickets /\ Ledger

(***************************************************************************)
(* Statements of the code's comments that its steps do not keep.           *)
(***************************************************************************)

\* Without a crash or a Redis error a sweep loses no job: "failing to reclaim
\* leaves jobs where they already are" (reclaim.go).
SweepLosesNothing == lost = {}

\* A terminal event is out for the job, or there is a copy left to tell of it.
Represented(j) ==
  \/ outcomes[j] # {}
  \/ \E p \in Priorities : Positions(queue[p], j) # {}
  \/ \E w \in Workers, p \in Priorities : Positions(processing[w][p], j) # {}
  \/ \E w \in Workers : sweep[w].hand = j

\* A job that Process dropped as a duplicate of its own claim is not gone: "a
\* duplicate that was dropped" "is already represented" by a terminal event,
\* finish says (worker.go), "so the delivery is acknowledged".
DroppedRepresented == \A j \in dropped : Represented(j)

-------------------------------------------------------------------------------
(***************************************************************************)
(* Liveness.  Goroutines of a live process are scheduled, every runner     *)
(* returns (a timeout bounds it; ServiceRun has the exception), keys with  *)
(* a TTL expire, a draining process exits, and the processes in Stable do  *)
(* start.  A sweep's SCAN does not fail for ever.                          *)
(***************************************************************************)
TaskProgress(w, s) ==
  /\ \/ Checkout(w, s)
     \/ Purge(w, s)
     \/ Claim(w, s)
     \/ ClaimDuplicate(w, s)
     \/ ClaimError(w, s)
     \/ RunReturns(w, s)
     \/ MarkPublished(w, s)
     \/ MarkOutage(w, s)
     \/ Publish(w, s)
     \/ PublishError(w, s)
     \/ Ack(w, s)
  /\ UNCHANGED reclaimVars

Fairness ==
  \A w \in Workers :
    /\ w \in Stable => WF_vars(Start(w))
    /\ WF_vars(SweepEmpty(w) /\ UNCHANGED reclaimVars)
    /\ \A s \in Slots : WF_vars(TaskProgress(w, s))
    /\ WF_vars(SweepStep(w) /\ UNCHANGED workVars)
    /\ SF_vars(ScanKeys(w) /\ UNCHANGED workVars)
    /\ WF_vars(Exit(w))
    /\ WF_vars(Expire(w))

FairSpec == Spec /\ Fairness

\* Every dispatched job is reported terminal, or is lost in a sweep's hands.
\* "A reclaim will retry or fail" what a worker leaves behind (worker.go).
Settled ==
  \A j \in Jobs \ Malformed : dispatched[j] > 0 ~> (outcomes[j] # {} \/ j \in lost)

===============================================================================
