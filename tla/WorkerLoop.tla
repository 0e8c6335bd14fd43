------------------------------ MODULE WorkerLoop ------------------------------
(***************************************************************************)
(* Worker.Run, Processor.Process and Worker.finish: the loop that checks   *)
(* jobs out of the queues and the goroutine that takes one delivery to its *)
(* terminal event.                                                         *)
(*                                                                         *)
(* A slot is a token of Run's semaphore.  A free slot is a token nobody    *)
(* holds; any other task is the goroutine that holds it.  The steps of     *)
(* Process between two Redis calls (building contexts, registry lookup,    *)
(* splitting findings) touch nothing shared and belong to the call before  *)
(* them.  Progress events are best-effort and change nothing here.         *)
(***************************************************************************)
EXTENDS Broker

CONSTANTS
  Slots,         \* tokens of the semaphore: WORKER_CONCURRENCY of them
  Recon,         \* jobs with engine "recon"
  Unregistered,  \* jobs whose engine has no runner
  MaxParts       \* bound: completion events SplitForCompletion makes of a run

ASSUME WorkerAssumption ==
  /\ IsFiniteSet(Slots)
  /\ Recon \subseteq Jobs
  /\ Unregistered \subseteq Jobs
  /\ MaxParts \in Nat \ {0}

VARIABLES
  task,      \* task[w][s]: the goroutine holding slot s
  at,        \* at[w]: the priority the sweep of w's Pop looks at next
  runs,      \* observation: how often a runner was started for j
  reported,  \* observation: how many runs of j published a findings event
  dropped    \* observation: jobs whose own claim, sent again, called them taken

workVars == <<task, at, runs, reported, dropped>>

TaskPCs == {"free", "purge", "claim", "run", "mark", "publish", "ack"}

Task == [pc : TaskPCs, job : Jobs \cup {NoJob},
         verdict : Verdicts \cup {"none", "duplicate"},
         part : Nat, total : Nat, cancelled : BOOLEAN]

Free == [pc |-> "free", job |-> NoJob, verdict |-> "none",
         part |-> 0, total |-> 0, cancelled |-> FALSE]

WorkTypeOK ==
  /\ task \in [Workers -> [Slots -> Task]]
  /\ at \in [Workers -> Priorities]
  /\ runs \in [Jobs -> Nat]
  /\ reported \in [Jobs -> Nat]
  /\ dropped \subseteq Jobs

WorkInit ==
  /\ task = [w \in Workers |-> [s \in Slots |-> Free]]
  /\ at = [w \in Workers |-> 1]
  /\ runs = [j \in Jobs |-> 0]
  /\ reported = [j \in Jobs |-> 0]
  /\ dropped = {}

AllFree(w) == \A s \in Slots : task[w][s].pc = "free"
AckPending(w) == \E s \in Slots : task[w][s].pc = "ack"

Become(w, s, t) == task' = [task EXCEPT ![w][s] = t]
Leave(w, s) == Become(w, s, Free)

(***************************************************************************)
(* Pop.  The sweep is one LMOVE per priority, so a more urgent job that    *)
(* arrives behind the sweep waits for the next one.  Wrapping around is    *)
(* Pop's poll, or its timeout followed by the next Pop.                    *)
(***************************************************************************)
SweepEmptyNoWrap(w) ==
  /\ Works(w)
  /\ \E s \in Slots : task[w][s].pc = "free"
  /\ queue[at[w]] = <<>>
  /\ at' = [at EXCEPT ![w] = @ + 1]
  /\ UNCHANGED <<fleetVars, listVars, keyVars, apiVars, task, runs, reported, dropped>>

SweepEmpty(w) ==
  /\ Works(w)
  /\ \E s \in Slots : task[w][s].pc = "free"
  /\ queue[at[w]] = <<>>
  /\ at' = [at EXCEPT ![w] = IF @ = NumPriorities THEN 1 ELSE @ + 1]
  /\ UNCHANGED <<fleetVars, listVars, keyVars, apiVars, task, runs, reported, dropped>>

Checkout(w, s) ==
  /\ Works(w)
  /\ task[w][s].pc = "free"
  /\ queue[at[w]] # <<>>
  /\ LMove(w, at[w])
  /\ LET j == Last(queue[at[w]])
     IN  Become(w, s, [Free EXCEPT !.pc = IF j \in Malformed THEN "purge" ELSE "claim",
                                   !.job = j])
  /\ at' = [at EXCEPT ![w] = 1]
  /\ UNCHANGED <<fleetVars, keyVars, apiVars, runs, reported, dropped>>

\* LMOVE errors: Pop returns and the loop starts over.  A lost reply leaves
\* the payload in the processing list, where no goroutine knows of it; the
\* LMOVE that is sent again takes another payload from the same queue.
SweepError(w) ==
  /\ \E s \in Slots : task[w][s].pc = "free"
  /\ \/ /\ Works(w) /\ "redis" \in Faults /\ at[w] # 1 /\ UNCHANGED listVars
        /\ at' = [at EXCEPT ![w] = 1]
     \/ /\ LosesReply(w) /\ queue[at[w]] # <<>> /\ LMove(w, at[w])
        /\ \/ at' = [at EXCEPT ![w] = 1]
           \/ Resends(w, 0) /\ UNCHANGED at
  /\ UNCHANGED <<fleetVars, keyVars, apiVars, task, runs, reported, dropped>>

\* A malformed payload is taken off the processing list again; if that
\* fails it stays there for the reclaimer to drop.
Purge(w, s) ==
  /\ task[w][s].pc = "purge"
  /\ \/ Works(w) /\ LRem(w, task[w][s].job)
     \/ Fails(w) /\ UNCHANGED processing
  /\ Leave(w, s)
  /\ UNCHANGED <<fleetVars, queue, keyVars, apiVars, at, runs, reported, dropped>>

(***************************************************************************)
(* Process, step 1: the idempotency claim, then runner lookup.             *)
(***************************************************************************)
ClaimWithoutNX(w, s) ==
  LET j == task[w][s].job
  IN  /\ task[w][s].pc = "claim"
      /\ Works(w)
      /\ claim' = claim \cup {j}
      /\ Become(w, s, [task[w][s] EXCEPT !.pc = "run"])
      /\ runs' = [runs EXCEPT ![j] = @ + 1]
      /\ UNCHANGED <<fleetVars, listVars, marker, reclaims, apiVars, at, reported, dropped>>

Claim(w, s) ==
  LET j == task[w][s].job
  IN  /\ task[w][s].pc = "claim"
      /\ Works(w)
      /\ j \notin claim
      /\ claim' = claim \cup {j}
      /\ IF j \in Unregistered
         THEN /\ Become(w, s, [task[w][s] EXCEPT !.pc = "mark", !.verdict = "failed",
                                                 !.part = 1, !.total = 1])
              /\ UNCHANGED runs
         ELSE /\ Become(w, s, [task[w][s] EXCEPT !.pc = "run"])
              /\ runs' = [runs EXCEPT ![j] = @ + 1]
      /\ UNCHANGED <<fleetVars, listVars, marker, reclaims, apiVars, at, reported, dropped>>

ClaimDuplicate(w, s) ==
  /\ task[w][s].pc = "claim"
  /\ Works(w)
  /\ task[w][s].job \in claim
  /\ Become(w, s, [task[w][s] EXCEPT !.pc = "ack", !.verdict = "duplicate"])
  /\ UNCHANGED <<fleetVars, listVars, keyVars, apiVars, at, runs, reported, dropped>>

\* The SETNX takes effect, its reply is lost, and the one sent again finds the
\* key: Process calls its own claim a duplicate and leaves the job to an Ack.
ClaimResent(w, s) ==
  LET j == task[w][s].job
  IN  /\ task[w][s].pc = "claim"
      /\ Resends(w, 0)
      /\ j \notin claim
      /\ claim' = claim \cup {j}
      /\ Become(w, s, [task[w][s] EXCEPT !.pc = "ack", !.verdict = "duplicate"])
      /\ dropped' = dropped \cup {j}
      /\ UNCHANGED <<fleetVars, listVars, marker, reclaims, apiVars, at, runs, reported>>

\* ErrJobNotTerminal: the delivery stays in the processing list.
ClaimError(w, s) ==
  /\ task[w][s].pc = "claim"
  /\ \/ Fails(w) /\ UNCHANGED claim
     \/ LosesReply(w) /\ claim' = claim \cup {task[w][s].job}
  /\ Leave(w, s)
  /\ UNCHANGED <<fleetVars, listVars, marker, reclaims, apiVars, at, runs, reported, dropped>>

(***************************************************************************)
(* Steps 3 to 8: the run, its cancellation, and what to report.            *)
(***************************************************************************)
\* The cancel watcher cancels the job's context.
CancelJob(w, s) ==
  /\ "cancel" \in Faults
  /\ Works(w)
  /\ task[w][s].pc = "run"
  /\ ~task[w][s].cancelled
  /\ Become(w, s, [task[w][s] EXCEPT !.cancelled = TRUE])
  /\ UNCHANGED <<fleetVars, listVars, keyVars, apiVars, at, runs, reported, dropped>>

\* A user cancel counts only if the whole worker is not stopping, and for a
\* tool only if its runner returned an error; recon is cancelled regardless.
Discriminate(w, s, ok) ==
  LET t == task[w][s]
      userCancel == t.cancelled /\ status[w] # "draining"
  IN  CASE userCancel /\ (~ok \/ t.job \in Recon) -> "canceled"
        [] ~ok /\ ~userCancel                     -> "failed"
        [] OTHER                                  -> "completed"

RunReturns(w, s) ==
  /\ task[w][s].pc = "run"
  /\ \E ok \in BOOLEAN, n \in 1..MaxParts :
       LET v == Discriminate(w, s, ok)
       IN  /\ (v # "completed" \/ task[w][s].job \in Recon) => n = 1
           /\ Become(w, s, [task[w][s] EXCEPT !.pc = "mark", !.verdict = v,
                                              !.part = 1, !.total = n])
  /\ UNCHANGED <<fleetVars, listVars, keyVars, apiVars, at, runs, reported, dropped>>

(***************************************************************************)
(* publishCompletion: the marker first, then the event.                    *)
(***************************************************************************)
MarkPublishedNever(w, s) ==
  /\ task[w][s].pc = "mark"
  /\ Works(w)
  /\ Become(w, s, [task[w][s] EXCEPT !.pc = "publish"])
  /\ UNCHANGED <<fleetVars, listVars, keyVars, apiVars, at, runs, reported, dropped>>

MarkPublished(w, s) ==
  /\ task[w][s].pc = "mark"
  /\ \/ Works(w) /\ marker' = marker \cup {task[w][s].job}
     \/ Works(w) /\ "marker" \in Faults /\ UNCHANGED marker
  /\ Become(w, s, [task[w][s] EXCEPT !.pc = "publish"])
  /\ UNCHANGED <<fleetVars, listVars, claim, reclaims, apiVars, at, runs, reported, dropped>>

\* A cancelled context or an outage takes both calls down with it.
MarkOutage(w, s) ==
  /\ task[w][s].pc = "mark"
  /\ Fails(w)
  /\ Leave(w, s)
  /\ UNCHANGED <<fleetVars, listVars, keyVars, apiVars, at, runs, reported, dropped>>

\* The event of task t reaches the completions channel: a partial_findings
\* event, or the terminal event of the sequence.
Emit(t) ==
  /\ outcomes' = IF t.part = t.total
                 THEN [outcomes EXCEPT ![t.job] = @ \cup {t.verdict}]
                 ELSE outcomes
  /\ reported' = IF t.verdict = "completed" /\ t.part = 1
                 THEN [reported EXCEPT ![t.job] = @ + 1]
                 ELSE reported

Publish(w, s) ==
  LET t == task[w][s]
  IN  /\ t.pc = "publish"
      /\ Works(w)
      /\ Emit(t)
      /\ Become(w, s, IF t.part = t.total
                      THEN [t EXCEPT !.pc = "ack"]
                      ELSE [t EXCEPT !.pc = "mark", !.part = @ + 1])
      /\ UNCHANGED <<fleetVars, listVars, keyVars, dispatched, at, runs, dropped>>

PublishErrorAcked(w, s) ==
  /\ task[w][s].pc = "publish"
  /\ Fails(w)
  /\ LRem(w, task[w][s].job)
  /\ Leave(w, s)
  /\ UNCHANGED <<fleetVars, queue, keyVars, apiVars, at, runs, reported, dropped>>

\* ErrJobNotTerminal: later events are not attempted, the delivery stays.
PublishError(w, s) ==
  LET t == task[w][s]
  IN  /\ t.pc = "publish"
      /\ \/ Fails(w) /\ UNCHANGED <<outcomes, reported>>
         \/ LosesReply(w) /\ Emit(t)
      /\ Leave(w, s)
      /\ UNCHANGED <<fleetVars, listVars, keyVars, dispatched, at, runs, dropped>>

(***************************************************************************)
(* finish: Ack on a context detached from the worker's, so a cancelled     *)
(* root context does not stop it.                                          *)
(***************************************************************************)
AckOnWorkerContext(w, s) ==
  /\ task[w][s].pc = "ack"
  /\ IF Works(w) THEN LRem(w, task[w][s].job) ELSE UNCHANGED processing
  /\ Leave(w, s)
  /\ UNCHANGED <<fleetVars, queue, keyVars, apiVars, at, runs, reported, dropped>>

Ack(w, s) ==
  /\ task[w][s].pc = "ack"
  /\ LRem(w, task[w][s].job)
  /\ Leave(w, s)
  /\ UNCHANGED <<fleetVars, queue, keyVars, apiVars, at, runs, reported, dropped>>

AckError(w, s) ==
  /\ task[w][s].pc = "ack"
  /\ "redis" \in Faults
  /\ Leave(w, s)
  /\ UNCHANGED <<fleetVars, listVars, keyVars, apiVars, at, runs, reported, dropped>>

\* The LREM of an Ack or a Purge is sent again and removes another copy of
\* the payload; where there is one copy the second LREM finds nothing.
RemoveResent(w, s) ==
  LET j == task[w][s].job
  IN  /\ \/ task[w][s].pc = "ack" /\ ResendLimit > 0
         \/ task[w][s].pc = "purge" /\ Resends(w, 0)
      /\ Cardinality(Positions(processing[w][PriorityOf[j]], j)) > 1
      /\ LRem(w, j)
      /\ UNCHANGED <<fleetVars, queue, keyVars, apiVars, workVars>>

TaskStep(w, s) ==
  \/ Checkout(w, s)
  \/ Purge(w, s)
  \/ Claim(w, s)
  \/ ClaimDuplicate(w, s)
  \/ ClaimResent(w, s)
  \/ ClaimError(w, s)
  \/ CancelJob(w, s)
  \/ RunReturns(w, s)
  \/ MarkPublished(w, s)
  \/ MarkOutage(w, s)
  \/ Publish(w, s)
  \/ PublishError(w, s)
  \/ Ack(w, s)
  \/ AckError(w, s)
  \/ RemoveResent(w, s)

WorkStep(w) ==
  \/ SweepEmpty(w)
  \/ SweepError(w)
  \/ \E s \in Slots : TaskStep(w, s)

===============================================================================
