--------------------------- MODULE JobDeliveryProofs ---------------------------
(***************************************************************************)
(* Type correctness of JobDelivery and the bound on the runs of a job, for *)
(* every fleet, job set, budget and set of faults; then the lists of the   *)
(* fleet: where payloads sit, whose lists a sweep opens, and what a        *)
(* goroutine finds of its delivery.                                        *)
(***************************************************************************)
EXTENDS JobDelivery, FiniteSetTheorems, FunctionTheorems, SequenceTheorems, TLAPS

(***************************************************************************)
(* List commands keep lists over the same elements.                        *)
(***************************************************************************)

\* A non-empty set of naturals has the least element that Min denotes: the
\* entry LREM removes exists.
LEMMA MinInSet ==
  ASSUME NEW I \in SUBSET Nat, I # {}
  PROVE  Min(I) \in I
<1> DEFINE R == OpToRel(<, Nat)
<1>1. \A x, y \in Nat : y < x => <<y, x>> \in R
  <2> TAKE x, y \in Nat
  <2> HAVE y < x
  <2>1. <<y, x>> \in Nat \X Nat
    OBVIOUS
  <2>2. <<y, x>>[1] < <<y, x>>[2]
    OBVIOUS
  <2> QED BY <2>1, <2>2, Zenon DEF OpToRel
<1>2. PICK x \in I : \A y \in I : ~(<<y, x>> \in R)
  BY NatLessThanWellFounded, WFMin
<1> HIDE DEF R
<1>3. ASSUME NEW y \in I
      PROVE  x <= y
  <2>1. ~(y < x)
    BY <1>1, <1>2
  <2> QED BY <2>1
<1> QED BY <1>3 DEF Min

\* LREM: removing the leftmost match leaves a list of the same kind.
LEMMA RemoveType ==
  ASSUME NEW S, NEW s \in Seq(S), NEW e
  PROVE  (IF Positions(s, e) = {} THEN s ELSE RemoveAt(s, Min(Positions(s, e)))) \in Seq(S)
<1> SUFFICES ASSUME Positions(s, e) # {}
             PROVE  RemoveAt(s, Min(Positions(s, e))) \in Seq(S)
  OBVIOUS
<1>0. Positions(s, e) \in SUBSET Nat
  BY DEF Positions
<1>1. Min(Positions(s, e)) \in Positions(s, e)
  BY <1>0, MinInSet
<1>2. Min(Positions(s, e)) \in 1..Len(s)
  BY <1>1 DEF Positions
<1> QED BY <1>2, SubSeqProperties, ConcatProperties DEF RemoveAt

\* LMOVE and RPOP: what is left of a non-empty list, and what was taken off.
LEMMA TakeType ==
  ASSUME NEW S, NEW s \in Seq(S), s # <<>>
  PROVE  Front(s) \in Seq(S) /\ Last(s) \in S
  BY DEF Front, Last

\* LPUSH and the left end of LMOVE.
LEMMA ConsType ==
  ASSUME NEW S, NEW s \in Seq(S), NEW e \in S
  PROVE  Cons(e, s) \in Seq(S)
  BY DEF Cons

\* The keys a SCAN returns form a list of keys, in whatever order.
LEMMA SetToSeqsType ==
  ASSUME NEW S, IsFiniteSet(S), NEW f \in SetToSeqs(S)
  PROVE  f \in Seq(S)
<1>1. Cardinality(S) \in Nat
  BY FS_CardinalityType
<1>2. f \in [1..Cardinality(S) -> S]
  BY DEF SetToSeqs
<1> QED BY <1>1, <1>2

(***************************************************************************)
(* Type correctness, one lemma per actor.                                  *)
(***************************************************************************)
TypeInv == TypeOK /\ TaskShape /\ SweepShape

USE BrokerAssumption, WorkerAssumption, ReclaimAssumption

\* The number of re-sends is a natural number, whatever the faults.
LEMMA LimitType == ResendLimit \in Nat /\ 0 \in 0..ResendLimit
  BY DEF ResendLimit

USE LimitType

\* What an action does to the broker's lists keeps them lists of jobs.
LEMMA ListTypes ==
  ASSUME BrokerTypeOK, NEW w \in Workers
  PROVE  /\ \A p \in Priorities : queue[p] # <<>> /\ LMove(w, p) =>
              /\ queue' \in [Priorities -> Seq(Jobs)]
              /\ processing' \in [Workers -> [Priorities -> Seq(Jobs)]]
         /\ \A j \in Jobs : LRem(w, j) =>
              processing' \in [Workers -> [Priorities -> Seq(Jobs)]]
         /\ \A p \in Priorities : processing[w][p] # <<>> /\ RPop(w, p) =>
              processing' \in [Workers -> [Priorities -> Seq(Jobs)]]
         /\ \A p \in Priorities, j \in Jobs : RPush(p, j) =>
              queue' \in [Priorities -> Seq(Jobs)]
<1>1. ASSUME NEW p \in Priorities, queue[p] # <<>>, LMove(w, p)
      PROVE  /\ queue' \in [Priorities -> Seq(Jobs)]
             /\ processing' \in [Workers -> [Priorities -> Seq(Jobs)]]
  <2>1. Front(queue[p]) \in Seq(Jobs) /\ Last(queue[p]) \in Jobs
    BY <1>1, TakeType DEF BrokerTypeOK
  <2>2. Cons(Last(queue[p]), processing[w][p]) \in Seq(Jobs)
    BY <2>1, ConsType DEF BrokerTypeOK
  <2> QED BY <1>1, <2>1, <2>2 DEF LMove, BrokerTypeOK
<1>2. ASSUME NEW j \in Jobs, LRem(w, j)
      PROVE  processing' \in [Workers -> [Priorities -> Seq(Jobs)]]
  <2> DEFINE s == processing[w][PriorityOf[j]]
             r == IF Positions(s, j) = {} THEN s ELSE RemoveAt(s, Min(Positions(s, j)))
  <2>1. s \in Seq(Jobs)
    BY DEF BrokerTypeOK
  <2>2. r \in Seq(Jobs)
    BY <2>1, RemoveType
  <2>3. processing' = [processing EXCEPT ![w][PriorityOf[j]] = r]
    BY <1>2 DEF LRem
  <2> HIDE DEF r
  <2> QED BY <2>2, <2>3 DEF BrokerTypeOK
<1>3. ASSUME NEW p \in Priorities, processing[w][p] # <<>>, RPop(w, p)
      PROVE  processing' \in [Workers -> [Priorities -> Seq(Jobs)]]
  <2>1. processing[w][p] \in Seq(Jobs)
    BY DEF BrokerTypeOK
  <2>2. Front(processing[w][p]) \in Seq(Jobs)
    BY <1>3, <2>1, TakeType
  <2> QED BY <1>3, <2>2 DEF RPop, BrokerTypeOK
<1>4. ASSUME NEW p \in Priorities, NEW j \in Jobs, RPush(p, j)
      PROVE  queue' \in [Priorities -> Seq(Jobs)]
  BY <1>4, AppendProperties DEF RPush, BrokerTypeOK
<1> QED BY <1>1, <1>2, <1>3, <1>4

\* A goroutine that turns into a well-formed task keeps all tasks well-formed.
LEMMA BecomeType ==
  ASSUME WorkTypeOK, TaskShape, NEW w \in Workers, NEW s \in Slots, NEW t \in Task,
         t.pc # "free" => t.job \in Jobs,
         t.pc \in {"mark", "publish"} => t.verdict \in Verdicts,
         Become(w, s, t)
  PROVE  task' \in [Workers -> [Slots -> Task]] /\ TaskShape'
<1>1. task' \in [Workers -> [Slots -> Task]]
  BY DEF Become, WorkTypeOK
<1>2. \A v \in Workers, r \in Slots :
        task'[v][r] = IF v = w /\ r = s THEN t ELSE task[v][r]
  BY DEF Become, WorkTypeOK
<1> QED BY <1>1, <1>2 DEF TaskShape

\* Free is a task, and so a goroutine may end at any point.
LEMMA LeaveType ==
  ASSUME WorkTypeOK, TaskShape, NEW w \in Workers, NEW s \in Slots, Leave(w, s)
  PROVE  task' \in [Workers -> [Slots -> Task]] /\ TaskShape'
<1>1. /\ Free \in Task
      /\ Free.pc = "free"
  BY DEF Free, Task, TaskPCs
<1> QED BY <1>1, BecomeType DEF Leave

\* The steps of one delivery, from LMOVE to Ack, keep the types.
LEMMA TaskStepType ==
  ASSUME TypeInv, NEW w \in Workers, NEW s \in Slots, TaskStep(w, s), UNCHANGED reclaimVars
  PROVE  TypeInv'
<1> USE DEF TypeInv, TypeOK
<1>r. ReclaimTypeOK' /\ SweepShape'
  BY DEF reclaimVars, ReclaimTypeOK, SweepShape
<1>t. task[w][s] \in Task
  BY DEF WorkTypeOK
<1>1. CASE Checkout(w, s)
  <2> DEFINE j == Last(queue[at[w]])
             t == [Free EXCEPT !.pc = IF j \in Malformed THEN "purge" ELSE "claim", !.job = j]
  <2>1. at[w] \in Priorities /\ queue[at[w]] \in Seq(Jobs) /\ queue[at[w]] # <<>>
    BY <1>1 DEF Checkout, WorkTypeOK, BrokerTypeOK
  <2>2. j \in Jobs
    BY <2>1, TakeType
  <2>3. BrokerTypeOK'
    BY <1>1, <2>1, ListTypes DEF Checkout, BrokerTypeOK, fleetVars, keyVars, apiVars
  <2>4. Become(w, s, t)
    BY <1>1 DEF Checkout
  <2> HIDE DEF j
  <2>5. t \in Task /\ t.job = j /\ t.pc \in {"purge", "claim"}
    BY <2>2 DEF Free, Task, TaskPCs
  <2> HIDE DEF t
  <2>6. task' \in [Workers -> [Slots -> Task]] /\ TaskShape'
    BY <2>2, <2>4, <2>5, BecomeType
  <2>7. at' \in [Workers -> Priorities] /\ UNCHANGED <<runs, reported, dropped>>
    BY <1>1 DEF Checkout, WorkTypeOK, Priorities
  <2> QED BY <1>r, <2>3, <2>6, <2>7 DEF WorkTypeOK
<1>2. CASE Purge(w, s)
  <2>1. task[w][s].job \in Jobs
    BY <1>2 DEF Purge, TaskShape
  <2>2. BrokerTypeOK'
    BY <1>2, <2>1, ListTypes DEF Purge, BrokerTypeOK, fleetVars, keyVars, apiVars
  <2> QED BY <1>2, <1>r, <2>2, LeaveType DEF Purge, WorkTypeOK
<1>3. CASE Claim(w, s)
  <2>1. task[w][s].job \in Jobs
    BY <1>3 DEF Claim, TaskShape
  <2>2. BrokerTypeOK'
    BY <1>3, <2>1 DEF Claim, BrokerTypeOK, fleetVars, listVars, apiVars
  <2>3. PICK t \in Task : /\ Become(w, s, t)
                          /\ t.job \in Jobs
                          /\ t.pc \in {"mark", "publish"} => t.verdict \in Verdicts
    <3> DEFINE t1 == [task[w][s] EXCEPT !.pc = "mark", !.verdict = "failed",
                                        !.part = 1, !.total = 1]
               t2 == [task[w][s] EXCEPT !.pc = "run"]
    <3>1. t1 \in Task /\ t1.job \in Jobs /\ t1.verdict \in Verdicts
      BY <1>t, <2>1 DEF Task, TaskPCs, Verdicts
    <3>2. t2 \in Task /\ t2.job \in Jobs /\ t2.pc = "run"
      BY <1>t, <2>1 DEF Task, TaskPCs
    <3>3. Become(w, s, t1) \/ Become(w, s, t2)
      BY <1>3 DEF Claim
    <3> HIDE DEF t1, t2
    <3> QED BY <3>1, <3>2, <3>3
  <2>4. task' \in [Workers -> [Slots -> Task]] /\ TaskShape'
    BY <2>3, BecomeType
  <2>5. at' = at /\ runs' \in [Jobs -> Nat] /\ reported' = reported /\ dropped' = dropped
    BY <1>3, <2>1 DEF Claim, WorkTypeOK
  <2> QED BY <1>r, <2>2, <2>4, <2>5 DEF WorkTypeOK
<1>4. CASE ClaimDuplicate(w, s)
  <2> DEFINE t == [task[w][s] EXCEPT !.pc = "ack", !.verdict = "duplicate"]
  <2>1. t \in Task /\ t.job \in Jobs /\ t.pc = "ack"
    BY <1>4, <1>t DEF ClaimDuplicate, TaskShape, Task, TaskPCs
  <2>2. Become(w, s, t)
    BY <1>4 DEF ClaimDuplicate
  <2> HIDE DEF t
  <2>3. task' \in [Workers -> [Slots -> Task]] /\ TaskShape'
    BY <2>1, <2>2, BecomeType
  <2> QED BY <1>4, <1>r, <2>3 DEF ClaimDuplicate, WorkTypeOK, BrokerTypeOK,
             fleetVars, listVars, keyVars, apiVars
<1>5. CASE ClaimError(w, s)
  <2>1. task[w][s].job \in Jobs
    BY <1>5 DEF ClaimError, TaskShape
  <2> QED BY <1>5, <1>r, <2>1, LeaveType DEF ClaimError, WorkTypeOK, BrokerTypeOK,
             fleetVars, listVars, apiVars
<1>6. CASE CancelJob(w, s)
  <2> DEFINE t == [task[w][s] EXCEPT !.cancelled = TRUE]
  <2>1. t \in Task /\ t.job \in Jobs /\ t.pc = "run"
    BY <1>6, <1>t DEF CancelJob, TaskShape, Task
  <2>2. Become(w, s, t)
    BY <1>6 DEF CancelJob
  <2> HIDE DEF t
  <2>3. task' \in [Workers -> [Slots -> Task]] /\ TaskShape'
    BY <2>1, <2>2, BecomeType
  <2> QED BY <1>6, <1>r, <2>3 DEF CancelJob, WorkTypeOK, BrokerTypeOK,
             fleetVars, listVars, keyVars, apiVars
<1>7. CASE RunReturns(w, s)
  <2>1. PICK ok \in BOOLEAN, n \in 1..MaxParts :
          Become(w, s, [task[w][s] EXCEPT !.pc = "mark", !.verdict = Discriminate(w, s, ok),
                                          !.part = 1, !.total = n])
    BY <1>7 DEF RunReturns
  <2> DEFINE v == Discriminate(w, s, ok)
             t == [task[w][s] EXCEPT !.pc = "mark", !.verdict = v, !.part = 1, !.total = n]
  <2>2. v \in Verdicts
    BY DEF Discriminate, Verdicts
  <2> HIDE DEF v
  <2>0. n \in Nat /\ task[w][s].job \in Jobs
    BY <1>7 DEF RunReturns, TaskShape
  <2>3. t \in Task /\ t.job \in Jobs /\ t.verdict \in Verdicts
    BY <1>t, <2>0, <2>2 DEF Task, TaskPCs
  <2>4. Become(w, s, t)
    BY <2>1 DEF v
  <2> HIDE DEF t
  <2>5. task' \in [Workers -> [Slots -> Task]] /\ TaskShape'
    BY <2>3, <2>4, BecomeType
  <2> QED BY <1>7, <1>r, <2>5 DEF RunReturns, WorkTypeOK, BrokerTypeOK,
             fleetVars, listVars, keyVars, apiVars
<1>8. CASE MarkPublished(w, s)
  <2> DEFINE t == [task[w][s] EXCEPT !.pc = "publish"]
  <2>1. t \in Task /\ t.job \in Jobs /\ t.verdict \in Verdicts
    BY <1>8, <1>t DEF MarkPublished, TaskShape, Task, TaskPCs
  <2>2. Become(w, s, t)
    BY <1>8 DEF MarkPublished
  <2> HIDE DEF t
  <2>3. task' \in [Workers -> [Slots -> Task]] /\ TaskShape'
    BY <2>1, <2>2, BecomeType
  <2>4. task[w][s].job \in Jobs
    BY <1>8 DEF MarkPublished, TaskShape
  <2> QED BY <1>8, <1>r, <2>3, <2>4 DEF MarkPublished, WorkTypeOK, BrokerTypeOK,
             fleetVars, listVars, apiVars
<1>9. CASE MarkOutage(w, s)
  BY <1>9, <1>r, LeaveType DEF MarkOutage, WorkTypeOK, BrokerTypeOK,
     fleetVars, listVars, keyVars, apiVars
<1>10. ASSUME task[w][s].pc = "publish", Emit(task[w][s])
       PROVE  outcomes' \in [Jobs -> SUBSET Verdicts] /\ reported' \in [Jobs -> Nat]
  <2>1. task[w][s].job \in Jobs /\ task[w][s].verdict \in Verdicts
    BY <1>10 DEF TaskShape
  <2>2. outcomes' \in [Jobs -> SUBSET Verdicts]
    BY <1>10, <2>1 DEF Emit, BrokerTypeOK
  <2>3. reported' \in [Jobs -> Nat]
    BY <1>10, <2>1 DEF Emit, WorkTypeOK
  <2> QED BY <2>2, <2>3
<1>11. CASE Publish(w, s)
  <2> DEFINE t == IF task[w][s].part = task[w][s].total
                  THEN [task[w][s] EXCEPT !.pc = "ack"]
                  ELSE [task[w][s] EXCEPT !.pc = "mark", !.part = task[w][s].part + 1]
  <2>0. task[w][s].job \in Jobs /\ task[w][s].verdict \in Verdicts
    BY <1>11 DEF Publish, TaskShape
  <2>1. t \in Task /\ t.job \in Jobs /\ t.verdict \in Verdicts
    <3>1. CASE task[w][s].part = task[w][s].total
      BY <1>t, <2>0, <3>1 DEF Task, TaskPCs
    <3>2. CASE task[w][s].part # task[w][s].total
      <4> DEFINE n == task[w][s].part + 1
      <4>1. n \in Nat
        BY <1>t DEF Task
      <4>2. t = [task[w][s] EXCEPT !.pc = "mark", !.part = n]
        BY <3>2
      <4> HIDE DEF n, t
      <4> QED BY <1>t, <2>0, <4>1, <4>2 DEF Task, TaskPCs
    <3> QED BY <3>1, <3>2
  <2>2. Become(w, s, t)
    BY <1>11 DEF Publish
  <2> HIDE DEF t
  <2>3. task' \in [Workers -> [Slots -> Task]] /\ TaskShape'
    BY <2>1, <2>2, BecomeType
  <2> QED BY <1>11, <1>r, <1>10, <2>3 DEF Publish, WorkTypeOK, BrokerTypeOK,
             fleetVars, listVars, keyVars
<1>12. CASE PublishError(w, s)
  BY <1>12, <1>r, <1>10, LeaveType DEF PublishError, WorkTypeOK, BrokerTypeOK,
     fleetVars, listVars, keyVars
<1>13. CASE Ack(w, s)
  <2>1. task[w][s].job \in Jobs
    BY <1>13 DEF Ack, TaskShape
  <2>2. BrokerTypeOK'
    BY <1>13, <2>1, ListTypes DEF Ack, BrokerTypeOK, fleetVars, keyVars, apiVars
  <2> QED BY <1>13, <1>r, <2>2, LeaveType DEF Ack, WorkTypeOK
<1>14. CASE AckError(w, s)
  BY <1>14, <1>r, LeaveType DEF AckError, WorkTypeOK, BrokerTypeOK,
     fleetVars, listVars, keyVars, apiVars
<1>15. CASE ClaimResent(w, s)
  <2> DEFINE t == [task[w][s] EXCEPT !.pc = "ack", !.verdict = "duplicate"]
  <2>1. t \in Task /\ t.job \in Jobs /\ t.pc = "ack" /\ task[w][s].job \in Jobs
    BY <1>15, <1>t DEF ClaimResent, TaskShape, Task, TaskPCs
  <2>2. Become(w, s, t)
    BY <1>15 DEF ClaimResent
  <2> HIDE DEF t
  <2>3. task' \in [Workers -> [Slots -> Task]] /\ TaskShape'
    BY <2>1, <2>2, BecomeType
  <2> QED BY <1>15, <1>r, <2>1, <2>3 DEF ClaimResent, WorkTypeOK, BrokerTypeOK,
             fleetVars, listVars, apiVars
<1>16. CASE RemoveResent(w, s)
  <2>1. task[w][s].job \in Jobs
    BY <1>16 DEF RemoveResent, TaskShape
  <2>2. BrokerTypeOK'
    BY <1>16, <2>1, ListTypes DEF RemoveResent, BrokerTypeOK, fleetVars, keyVars, apiVars
  <2> QED BY <1>16, <1>r, <2>2 DEF RemoveResent, workVars, WorkTypeOK, TaskShape
<1> QED BY <1>1, <1>2, <1>3, <1>4, <1>5, <1>6, <1>7, <1>8, <1>9, <1>11, <1>12, <1>13,
           <1>14, <1>15, <1>16 DEF TaskStep

\* A sweep that moves on to a well-formed state keeps all sweeps well-formed.
LEMMA ProceedType ==
  ASSUME ReclaimTypeOK, SweepShape, NEW w \in Workers, NEW r \in Sweep,
         r.pc \notin {"idle", "scan"} => r.keys # <<>>,
         r.pc \notin {"idle", "scan", "drain"} => r.hand \in Jobs,
         Proceed(w, r)
  PROVE  sweep' \in [Workers -> Sweep] /\ SweepShape'
<1>1. sweep' \in [Workers -> Sweep]
  BY DEF Proceed, ReclaimTypeOK
<1>2. \A v \in Workers : sweep'[v] = IF v = w THEN r ELSE sweep[v]
  BY DEF Proceed, ReclaimTypeOK
<1> QED BY <1>1, <1>2 DEF SweepShape

\* The ways a sweep moves on: it ends, takes the next list, returns to the
\* list with nothing in hand, or turns to failing the job in hand.
LEMMA MoveTypes ==
  ASSUME ReclaimTypeOK, SweepShape, NEW w \in Workers
  PROVE  /\ Stop(w) => sweep' \in [Workers -> Sweep] /\ SweepShape'
         /\ sweep[w].pc = "drain" /\ NextList(w)
              => sweep' \in [Workers -> Sweep] /\ SweepShape'
         /\ sweep[w].pc \notin {"idle", "scan"} /\ Continue(w)
              => sweep' \in [Workers -> Sweep] /\ SweepShape'
         /\ sweep[w].pc \notin {"idle", "scan", "drain"} /\ ToFail(w)
              => sweep' \in [Workers -> Sweep] /\ SweepShape'
<1>0. sweep[w] \in Sweep
  BY DEF ReclaimTypeOK
<1>1. ASSUME Stop(w)
      PROVE  sweep' \in [Workers -> Sweep] /\ SweepShape'
  <2>1. Idle \in Sweep /\ Idle.pc = "idle"
    BY DEF Idle, Sweep, SweepPCs
  <2> QED BY <1>1, <2>1, ProceedType DEF Stop
<1>2. ASSUME sweep[w].pc = "drain", NextList(w)
      PROVE  sweep' \in [Workers -> Sweep] /\ SweepShape'
  <2>1. CASE Len(sweep[w].keys) = 1
    BY <1>1, <1>2, <2>1 DEF NextList
  <2>2. CASE Len(sweep[w].keys) # 1
    <3> DEFINE ks == Tail(sweep[w].keys)
               r == [sweep[w] EXCEPT !.keys = ks]
    <3>1. sweep[w].keys \in Seq(Workers \X Priorities) /\ sweep[w].keys # <<>>
      BY <1>0, <1>2 DEF Sweep, SweepShape
    <3>2. ks \in Seq(Workers \X Priorities) /\ ks # <<>>
      <4>1. Len(sweep[w].keys) \in Nat /\ Len(sweep[w].keys) # 0
        BY <3>1, EmptySeq, LenProperties
      <4>2. ks \in Seq(Workers \X Priorities) /\ Len(ks) = Len(sweep[w].keys) - 1
        BY <3>1, HeadTailProperties
      <4> HIDE DEF ks
      <4>3. Len(ks) # 0
        BY <2>2, <4>1, <4>2
      <4>4. Len(<<>>) = 0
        OBVIOUS
      <4>5. ks # <<>>
        BY <4>3, <4>4, Zenon
      <4> QED BY <4>2, <4>5
    <3>3. Proceed(w, r)
      BY <1>2, <2>2 DEF NextList
    <3> HIDE DEF ks
    <3>4. r \in Sweep /\ r.pc = "drain" /\ r.keys = ks
      BY <1>0, <1>2, <3>2 DEF Sweep
    <3> HIDE DEF r
    <3> QED BY <3>2, <3>3, <3>4, ProceedType
  <2> QED BY <2>1, <2>2
<1>3. ASSUME sweep[w].pc \notin {"idle", "scan"}, Continue(w)
      PROVE  sweep' \in [Workers -> Sweep] /\ SweepShape'
  <2> DEFINE r == [sweep[w] EXCEPT !.pc = "drain", !.hand = NoJob, !.attempts = 0, !.sent = 0]
  <2>1. r \in Sweep /\ r.pc = "drain" /\ r.keys # <<>>
    BY <1>0, <1>3 DEF Sweep, SweepPCs, SweepShape
  <2>2. Proceed(w, r)
    BY <1>3 DEF Continue
  <2> HIDE DEF r
  <2> QED BY <2>1, <2>2, ProceedType
<1>4. ASSUME sweep[w].pc \notin {"idle", "scan", "drain"}, ToFail(w)
      PROVE  sweep' \in [Workers -> Sweep] /\ SweepShape'
  <2> DEFINE r == [sweep[w] EXCEPT !.pc = "fail"]
  <2>1. r \in Sweep /\ r.hand \in Jobs /\ r.keys # <<>>
    BY <1>0, <1>4 DEF Sweep, SweepPCs, SweepShape
  <2>2. Proceed(w, r)
    BY <1>4 DEF ToFail
  <2> HIDE DEF r
  <2> QED BY <2>1, <2>2, ProceedType
<1> QED BY <1>1, <1>2, <1>3, <1>4

\* The steps of a sweep keep the types.
LEMMA SweepStepType ==
  ASSUME TypeInv, NEW w \in Workers, SweepStep(w), UNCHANGED workVars
  PROVE  TypeInv'
<1> USE DEF TypeInv, TypeOK
<1>w. WorkTypeOK' /\ TaskShape'
  BY DEF workVars, WorkTypeOK, TaskShape
<1>s. sweep[w] \in Sweep
  BY DEF ReclaimTypeOK
<1>k. ASSUME sweep[w].pc = "drain" \/ sweep[w].pc = "push"
      PROVE  /\ Head(sweep[w].keys)[1] \in Workers
             /\ Head(sweep[w].keys)[2] \in Priorities
  <2>1. sweep[w].keys \in Seq(Workers \X Priorities) /\ sweep[w].keys # <<>>
    BY <1>k, <1>s DEF Sweep, SweepShape
  <2>2. Head(sweep[w].keys) \in Workers \X Priorities
    BY <2>1, HeadTailProperties
  <2> QED BY <2>2
<1>h. sweep[w].pc \notin {"idle", "scan", "drain"} => sweep[w].hand \in Jobs
  BY DEF SweepShape
<1>1. CASE ReadLive(w)
  <2> DEFINE l == {v \in Workers : beat[v]} \cup {w}
             r == [Idle EXCEPT !.pc = "scan", !.live = l]
  <2>1. l \in SUBSET Workers
    OBVIOUS
  <2>2. Proceed(w, r)
    BY <1>1 DEF ReadLive
  <2> HIDE DEF l
  <2>0. Idle \in Sweep
    BY DEF Idle, Sweep, SweepPCs
  <2>3. r \in Sweep /\ r.pc = "scan"
    BY <2>0, <2>1 DEF Sweep, SweepPCs
  <2> HIDE DEF r
  <2>4. sweep' \in [Workers -> Sweep] /\ SweepShape'
    BY <2>2, <2>3, ProceedType
  <2> QED BY <1>1, <1>w, <2>4 DEF ReadLive, ReclaimTypeOK, BrokerTypeOK,
             fleetVars, listVars, keyVars, apiVars
<1>2. CASE ScanKeys(w)
  <2>1. PICK keys \in SetToSeqs(OrphanKeys(sweep[w].live)) :
          IF keys = <<>> THEN Stop(w)
          ELSE Proceed(w, [Idle EXCEPT !.pc = "drain", !.live = sweep[w].live, !.keys = keys])
    BY <1>2 DEF ScanKeys
  <2>2. keys \in Seq(Workers \X Priorities)
    <3>1. OrphanKeys(sweep[w].live) \subseteq Workers \X Priorities
      BY DEF OrphanKeys
    <3>2. IsFiniteSet(Priorities)
      BY FS_Interval DEF Priorities
    <3>3. IsFiniteSet(Workers \X Priorities)
      BY <3>2, FS_Product
    <3>4. IsFiniteSet(OrphanKeys(sweep[w].live))
      BY <3>1, <3>3, FS_Subset
    <3>5. keys \in Seq(OrphanKeys(sweep[w].live))
      BY <3>4, SetToSeqsType
    <3> QED BY <3>1, <3>5
  <2>3. sweep' \in [Workers -> Sweep] /\ SweepShape'
    <3>1. CASE keys = <<>>
      BY <2>1, <3>1, MoveTypes
    <3>2. CASE keys # <<>>
      <4> DEFINE r == [Idle EXCEPT !.pc = "drain", !.live = sweep[w].live, !.keys = keys]
      <4>1. r \in Sweep /\ r.pc = "drain" /\ r.keys = keys
        <5>1. Idle \in Sweep
          BY DEF Idle, Sweep, SweepPCs
        <5> QED BY <1>s, <2>2, <5>1 DEF Sweep, SweepPCs
      <4>2. Proceed(w, r)
        BY <2>1, <3>2
      <4> HIDE DEF r
      <4> QED BY <3>2, <4>1, <4>2, ProceedType
    <3> QED BY <3>1, <3>2
  <2> QED BY <1>2, <1>w, <2>3 DEF ScanKeys, ReclaimTypeOK, BrokerTypeOK,
             fleetVars, listVars, keyVars, apiVars
<1>3. CASE ScanError(w)
  BY <1>3, <1>w, MoveTypes DEF ScanError, ReclaimTypeOK, BrokerTypeOK,
     fleetVars, listVars, keyVars, apiVars
<1>4. CASE ListDrained(w)
  BY <1>4, <1>w, MoveTypes DEF ListDrained, ReclaimTypeOK, BrokerTypeOK,
     fleetVars, listVars, keyVars, apiVars
<1>5. CASE PopOrphan(w)
  <2> DEFINE k == Head(sweep[w].keys)
             j == Last(processing[k[1]][k[2]])
             r == [sweep[w] EXCEPT !.pc = "count", !.hand = j, !.handled = @ \cup {j}]
  <2>1. k[1] \in Workers /\ k[2] \in Priorities /\ processing[k[1]][k[2]] # <<>>
    BY <1>5, <1>k DEF PopOrphan
  <2>2. processing[k[1]][k[2]] \in Seq(Jobs)
    BY <2>1 DEF BrokerTypeOK
  <2>3. j \in Jobs
    BY <2>1, <2>2, TakeType
  <2>4. RPop(k[1], k[2])
    BY <1>5 DEF PopOrphan
  <2>5. BrokerTypeOK'
    BY <1>5, <2>1, <2>4, ListTypes DEF PopOrphan, BrokerTypeOK, fleetVars, keyVars, apiVars
  <2>6. UNCHANGED sweep \/ Proceed(w, r)
    BY <1>5 DEF PopOrphan
  <2>7. sweep[w].keys # <<>>
    BY <1>5 DEF PopOrphan, SweepShape
  <2> HIDE DEF j
  <2>8. r \in Sweep /\ r.hand = j /\ r.keys # <<>>
    BY <1>s, <2>3, <2>7 DEF Sweep, SweepPCs
  <2> HIDE DEF r
  <2>9. sweep' \in [Workers -> Sweep] /\ SweepShape'
    <3>1. CASE UNCHANGED sweep
      BY <3>1 DEF ReclaimTypeOK, SweepShape
    <3>2. CASE Proceed(w, r)
      BY <2>3, <2>8, <3>2, ProceedType
    <3> QED BY <2>6, <3>1, <3>2
  <2> QED BY <1>5, <1>w, <2>5, <2>9 DEF PopOrphan, ReclaimTypeOK
<1>6. CASE PopOrphanError(w)
  BY <1>6, <1>w, MoveTypes DEF PopOrphanError, ReclaimTypeOK, BrokerTypeOK,
     fleetVars, listVars, keyVars, apiVars
<1>18. CASE PopOrphanLost(w)
  <2> DEFINE k == Head(sweep[w].keys)
  <2>1. k[1] \in Workers /\ k[2] \in Priorities
    BY <1>18, <1>k DEF PopOrphanLost
  <2>2. processing[k[1]][k[2]] \in Seq(Jobs)
    BY <2>1 DEF BrokerTypeOK
  <2>3. /\ processing[k[1]][k[2]] # <<>>
        /\ RPop(k[1], k[2])
        /\ lost' = lost \cup {Last(processing[k[1]][k[2]])}
    BY <1>18 DEF PopOrphanLost
  <2> HIDE DEF k
  <2>4. processing' \in [Workers -> [Priorities -> Seq(Jobs)]] /\ lost' \subseteq Jobs
    BY <2>1, <2>2, <2>3, ListTypes, TakeType DEF BrokerTypeOK, ReclaimTypeOK
  <2>5. sweep' \in [Workers -> Sweep] /\ SweepShape'
    <3>1. CASE UNCHANGED sweep
      BY <3>1 DEF ReclaimTypeOK, SweepShape
    <3> QED BY <1>18, <3>1, MoveTypes DEF PopOrphanLost
  <2> QED BY <1>18, <1>w, <2>4, <2>5 DEF PopOrphanLost, ReclaimTypeOK, BrokerTypeOK,
             fleetVars, keyVars, apiVars
<1>n. \A n \in Increments(w) : n \in Nat
  BY DEF Increments
<1>b. \A j : \A n \in Nat : [reclaims EXCEPT ![j] = @ + n] \in [Jobs -> Nat]
  <2> TAKE j
  <2> TAKE n \in Nat
  <2>1. CASE j \in Jobs
    BY <2>1 DEF BrokerTypeOK
  <2>2. CASE j \notin Jobs
    BY <2>2 DEF BrokerTypeOK
  <2> QED BY <2>1, <2>2
<1>7. CASE BumpReclaimCount(w)
  <2>0. PICK m \in Increments(w) :
          /\ reclaims' = [reclaims EXCEPT ![sweep[w].hand] = @ + m]
          /\ Proceed(w, [sweep[w] EXCEPT !.pc = "marker", !.attempts = reclaims[sweep[w].hand] + m])
    BY <1>7 DEF BumpReclaimCount
  <2> DEFINE n == reclaims[sweep[w].hand] + m
             r == [sweep[w] EXCEPT !.pc = "marker", !.attempts = n]
  <2>1. sweep[w].hand \in Jobs /\ n \in Nat
    BY <1>7, <1>h, <1>n DEF BumpReclaimCount, BrokerTypeOK
  <2>2. Proceed(w, r)
    BY <2>0
  <2> HIDE DEF n
  <2>3. r \in Sweep /\ r.hand \in Jobs /\ r.keys # <<>>
    BY <1>7, <1>s, <2>1 DEF BumpReclaimCount, Sweep, SweepPCs, SweepShape
  <2> HIDE DEF r
  <2>4. sweep' \in [Workers -> Sweep] /\ SweepShape'
    BY <2>2, <2>3, ProceedType
  <2>5. reclaims' \in [Jobs -> Nat]
    BY <1>b, <1>n, <2>0
  <2> QED BY <1>7, <1>w, <2>4, <2>5 DEF BumpReclaimCount, ReclaimTypeOK, BrokerTypeOK,
             fleetVars, listVars, apiVars
<1>8. CASE BumpError(w)
  <2>1. reclaims' \in [Jobs -> Nat]
    <3>1. UNCHANGED reclaims \/ \E n \in Increments(w) : reclaims' = [reclaims EXCEPT ![sweep[w].hand] = @ + n]
      BY <1>8 DEF BumpError
    <3>2. CASE UNCHANGED reclaims
      BY <3>2 DEF BrokerTypeOK
    <3>3. ASSUME NEW n \in Increments(w), reclaims' = [reclaims EXCEPT ![sweep[w].hand] = @ + n]
          PROVE  reclaims' \in [Jobs -> Nat]
      <4>1. n \in Nat
        BY <1>n
      <4> QED BY <1>b, <3>3, <4>1
    <3> QED BY <3>1, <3>2, <3>3
  <2> QED BY <1>8, <1>w, <2>1, MoveTypes DEF BumpError, ReclaimTypeOK, BrokerTypeOK,
             fleetVars, listVars, apiVars
<1>9. CASE HasPublished(w)
  <2> DEFINE r == [sweep[w] EXCEPT !.pc = "release"]
  <2>1. r \in Sweep /\ r.hand \in Jobs /\ r.keys # <<>>
    BY <1>9, <1>s DEF HasPublished, Sweep, SweepPCs, SweepShape
  <2>2. ToFail(w) \/ Proceed(w, r)
    BY <1>9 DEF HasPublished
  <2> HIDE DEF r
  <2>3. sweep' \in [Workers -> Sweep] /\ SweepShape'
    BY <1>9, <2>1, <2>2, ProceedType, MoveTypes DEF HasPublished
  <2> QED BY <1>9, <1>w, <2>3 DEF HasPublished, ReclaimTypeOK, BrokerTypeOK,
             fleetVars, listVars, keyVars, apiVars
<1>10. CASE HasPublishedError(w)
  BY <1>10, <1>w, MoveTypes DEF HasPublishedError, ReclaimTypeOK, BrokerTypeOK,
     fleetVars, listVars, keyVars, apiVars
<1>11. ASSUME sweep[w].pc = "release", DropClaim(w)
       PROVE  claim' \subseteq Jobs /\ released' \in [Jobs -> SUBSET (Nat \X (0..ResendLimit))]
  <2>1. <<sweep[w].attempts, sweep[w].sent>> \in Nat \X (0..ResendLimit)
    BY <1>s DEF Sweep
  <2> QED BY <1>11, <1>h, <2>1 DEF DropClaim, BrokerTypeOK, ReclaimTypeOK
<1>12. CASE Release(w)
  <2> DEFINE r == [sweep[w] EXCEPT !.pc = "push", !.sent = 0]
  <2>1. r \in Sweep /\ r.hand \in Jobs /\ r.keys # <<>>
    BY <1>12, <1>s DEF Release, Sweep, SweepPCs, SweepShape
  <2>2. Proceed(w, r)
    BY <1>12 DEF Release
  <2> HIDE DEF r
  <2>3. sweep' \in [Workers -> Sweep] /\ SweepShape'
    BY <2>1, <2>2, ProceedType
  <2> QED BY <1>12, <1>w, <1>11, <2>3 DEF Release, ReclaimTypeOK, BrokerTypeOK,
             fleetVars, listVars, apiVars
<1>13. CASE ReleaseError(w)
  BY <1>13, <1>w, <1>11, MoveTypes DEF ReleaseError, ReclaimTypeOK, BrokerTypeOK,
     fleetVars, listVars, apiVars
<1>14. CASE Requeue(w)
  <2>1. queue' \in [Priorities -> Seq(Jobs)]
    BY <1>14, <1>k, <1>h, ListTypes DEF Requeue
  <2> QED BY <1>14, <1>w, <2>1, MoveTypes DEF Requeue, ReclaimTypeOK, BrokerTypeOK,
             fleetVars, keyVars, apiVars
<1>15. CASE RequeueError(w)
  BY <1>15, <1>w, <1>h, MoveTypes DEF RequeueError, ReclaimTypeOK, BrokerTypeOK,
     fleetVars, listVars, keyVars, apiVars
<1>16. CASE Fail(w)
  <2>1. outcomes' \in [Jobs -> SUBSET Verdicts]
    BY <1>16 DEF Fail, BrokerTypeOK, Verdicts
  <2> QED BY <1>16, <1>w, <2>1, MoveTypes DEF Fail, ReclaimTypeOK, BrokerTypeOK,
             fleetVars, listVars, keyVars
<1>17. CASE FailError(w)
  BY <1>17, <1>w, <1>h, MoveTypes DEF FailError, ReclaimTypeOK, BrokerTypeOK,
     fleetVars, listVars, keyVars, apiVars
<1>19. ASSUME sweep[w].pc \in {"release", "push"}, Resends(w, sweep[w].sent),
              Proceed(w, [sweep[w] EXCEPT !.sent = @ + 1])
       PROVE  sweep' \in [Workers -> Sweep] /\ SweepShape'
  <2> DEFINE n == sweep[w].sent + 1
             r == [sweep[w] EXCEPT !.sent = n]
  <2>1. n \in 0..ResendLimit
    BY <1>19, <1>s DEF Resends, Sweep
  <2>2. Proceed(w, r)
    BY <1>19
  <2> HIDE DEF n
  <2>3. r \in Sweep /\ r.hand \in Jobs /\ r.keys # <<>>
    BY <1>19, <1>s, <2>1 DEF Sweep, SweepShape
  <2> HIDE DEF r
  <2> QED BY <2>2, <2>3, ProceedType
<1>20. CASE ReleaseResent(w)
  BY <1>20, <1>w, <1>11, <1>19 DEF ReleaseResent, ReclaimTypeOK, BrokerTypeOK,
     fleetVars, listVars, apiVars
<1>21. CASE RequeueResent(w)
  <2>1. queue' \in [Priorities -> Seq(Jobs)]
    BY <1>21, <1>k, <1>h, ListTypes DEF RequeueResent
  <2> QED BY <1>21, <1>w, <1>19, <2>1 DEF RequeueResent, ReclaimTypeOK, BrokerTypeOK,
             fleetVars, keyVars, apiVars
<1> QED BY <1>1, <1>2, <1>3, <1>4, <1>5, <1>6, <1>7, <1>8, <1>9, <1>10, <1>12, <1>13,
           <1>14, <1>15, <1>16, <1>17, <1>18, <1>20, <1>21 DEF SweepStep

\* Starting, stopping and dying processes and their heartbeats, and the loop
\* of Pop outside a delivery, keep the types.
LEMMA ProcessType ==
  ASSUME TypeInv, NEW w \in Workers,
         \/ Start(w) \/ HeartbeatTick(w) \/ Expire(w) \/ Shutdown(w) \/ Exit(w) \/ Crash(w)
         \/ (SweepEmpty(w) \/ SweepError(w)) /\ UNCHANGED reclaimVars
  PROVE  TypeInv'
<1> USE DEF TypeInv, TypeOK
<1>f. ASSUME task' = [task EXCEPT ![w] = [s \in Slots |-> Free]]
      PROVE  task' \in [Workers -> [Slots -> Task]] /\ TaskShape'
  <2>1. Free \in Task /\ Free.pc = "free"
    BY DEF Free, Task, TaskPCs
  <2>2. \A v \in Workers, s \in Slots : task'[v][s] = IF v = w THEN Free ELSE task[v][s]
    BY <1>f DEF WorkTypeOK
  <2>3. task' \in [Workers -> [Slots -> Task]]
    BY <1>f, <2>1 DEF WorkTypeOK
  <2> QED BY <2>1, <2>2, <2>3 DEF TaskShape
<1>1. CASE Start(w) \/ HeartbeatTick(w) \/ Expire(w) \/ Shutdown(w)
  <2>1. status' \in [Workers -> Statuses] /\ beat' \in [Workers -> BOOLEAN]
    BY <1>1 DEF Start, Register, RegisterFails, HeartbeatTick, Refresh, Expire, Shutdown,
                BrokerTypeOK, Statuses
  <2>2. UNCHANGED <<listVars, keyVars, apiVars, workVars, reclaimVars>>
    BY <1>1 DEF Start, HeartbeatTick, Expire, Shutdown
  <2> QED BY <2>1, <2>2 DEF BrokerTypeOK, WorkTypeOK, ReclaimTypeOK, TaskShape, SweepShape,
             listVars, keyVars, apiVars, workVars, reclaimVars
<1>2. CASE Exit(w)
  BY <1>2, <1>f DEF Exit, BrokerTypeOK, WorkTypeOK, ReclaimTypeOK, SweepShape, Statuses,
     listVars, keyVars, apiVars, reclaimVars
<1>3. CASE Crash(w)
  <2>1. Stop(w)
    BY <1>3 DEF Crash, Stop, Proceed
  <2>2. sweep' \in [Workers -> Sweep] /\ SweepShape'
    BY <2>1, MoveTypes
  <2>3. lost' \subseteq Jobs
    BY <1>3 DEF Crash, InHand, ReclaimTypeOK
  <2> QED BY <1>3, <1>f, <2>2, <2>3 DEF Crash, BrokerTypeOK, WorkTypeOK, ReclaimTypeOK,
             Statuses, listVars, keyVars, apiVars
<1>4. CASE (SweepEmpty(w) \/ SweepError(w)) /\ UNCHANGED reclaimVars
  <2>1. at[w] \in Priorities /\ 1 \in Priorities
    BY DEF WorkTypeOK, Priorities
  <2>2. at' \in [Workers -> Priorities]
    BY <1>4, <2>1 DEF SweepEmpty, SweepError, WorkTypeOK, Priorities
  <2>3. UNCHANGED listVars \/ (queue[at[w]] # <<>> /\ LMove(w, at[w]))
    BY <1>4 DEF SweepEmpty, SweepError, listVars
  <2>4. /\ queue' \in [Priorities -> Seq(Jobs)]
        /\ processing' \in [Workers -> [Priorities -> Seq(Jobs)]]
    BY <2>1, <2>3, ListTypes DEF BrokerTypeOK, listVars
  <2>5. UNCHANGED <<fleetVars, keyVars, apiVars, task, runs, reported, dropped, reclaimVars>>
    BY <1>4 DEF SweepEmpty, SweepError
  <2> QED BY <2>2, <2>4, <2>5 DEF BrokerTypeOK, WorkTypeOK, ReclaimTypeOK, TaskShape,
             SweepShape, fleetVars, keyVars, apiVars, reclaimVars
<1> QED BY <1>1, <1>2, <1>3, <1>4

\* Every step keeps the types and shapes.
LEMMA NextType == TypeInv /\ [Next]_vars => TypeInv'
<1> SUFFICES ASSUME TypeInv, [Next]_vars
             PROVE  TypeInv'
  OBVIOUS
<1>1. ASSUME NEW j \in Jobs, Dispatch(j), UNCHANGED <<workVars, reclaimVars>>
      PROVE  TypeInv'
  <2>1. queue[PriorityOf[j]] \in Seq(Jobs) /\ PriorityOf[j] \in Priorities
    BY DEF TypeInv, TypeOK, BrokerTypeOK
  <2>2. Cons(j, queue[PriorityOf[j]]) \in Seq(Jobs)
    BY <2>1, ConsType
  <2>3. BrokerTypeOK'
    BY <1>1, <2>2 DEF Dispatch, TypeInv, TypeOK, BrokerTypeOK, fleetVars, keyVars
  <2> QED BY <1>1, <2>3 DEF TypeInv, TypeOK, WorkTypeOK, ReclaimTypeOK, TaskShape,
             SweepShape, workVars, reclaimVars
<1>2. ASSUME NEW w \in Workers, WorkStep(w), UNCHANGED reclaimVars
      PROVE  TypeInv'
  BY <1>2, ProcessType, TaskStepType DEF WorkStep
<1>3. CASE UNCHANGED vars
  BY <1>3 DEF vars, TypeInv, TypeOK, BrokerTypeOK, WorkTypeOK, ReclaimTypeOK,
     TaskShape, SweepShape
<1> QED BY <1>1, <1>2, <1>3, ProcessType, SweepStepType DEF Next

\* The initial state has the types and shapes.
LEMMA InitType == Init => TypeInv
<1> SUFFICES ASSUME Init
             PROVE  TypeInv
  OBVIOUS
<1>1. BrokerTypeOK
  BY DEF Init, BrokerInit, BrokerTypeOK, Statuses
<1>2. Free \in Task /\ Free.pc = "free"
  BY DEF Free, Task, TaskPCs
<1>3. WorkTypeOK /\ TaskShape
  BY <1>2 DEF Init, WorkInit, WorkTypeOK, TaskShape, Priorities
<1>4. Idle \in Sweep /\ Idle.pc = "idle"
  BY DEF Idle, Sweep, SweepPCs
<1>5. ReclaimTypeOK /\ SweepShape
  BY <1>4 DEF Init, ReclaimInit, ReclaimTypeOK, SweepShape
<1> QED BY <1>1, <1>3, <1>5 DEF TypeInv, TypeOK

\* The variables of the fleet always have their types, whatever faults strike:
\* no command is issued on a payload or a list the process does not hold.
THEOREM TypeCorrect == Spec => []TypeOK
<1>1. TypeInv => TypeOK
  BY DEF TypeInv
<1> QED BY InitType, NextType, <1>1, PTL DEF Spec

(***************************************************************************)
(* The bound on runs.  The counter hands each attempt number out once      *)
(* (Tickets), and each run is paid for by the first claim or by a release  *)
(* that spent such a number (Ledger).                                      *)
(***************************************************************************)

\* The DELs recorded for a job are finitely many and within the budget: as
\* many as attempts, times the DELs of one attempt.
LEMMA ReleasedFinite ==
  ASSUME TypeInv, Ledger, NEW j \in Jobs
  PROVE  /\ IsFiniteSet(released[j])
         /\ Cardinality(released[j]) \in Nat
         /\ \A n \in Nat : (\A d \in released[j] : d[2] <= n)
              => Cardinality(released[j]) <= MaxReclaims * (1 + n)
<1>0. released[j] \subseteq Nat \X (0..ResendLimit)
  BY DEF TypeInv, TypeOK, ReclaimTypeOK
<1>1. ASSUME NEW n \in Nat, \A d \in released[j] : d[2] <= n
      PROVE  IsFiniteSet(released[j]) /\ Cardinality(released[j]) <= MaxReclaims * (1 + n)
  <2>1. ASSUME NEW d \in released[j]
        PROVE  d \in (1..MaxReclaims) \X (0..n)
    <3>1. d = <<d[1], d[2]>> /\ d[2] \in Nat
      BY <1>0
    <3>2. d[1] \in 1..MaxReclaims
      BY DEF Ledger
    <3>3. d[2] \in 0..n
      BY <1>1, <3>1
    <3> QED BY <3>1, <3>2, <3>3
  <2>2. /\ IsFiniteSet(1..MaxReclaims) /\ Cardinality(1..MaxReclaims) = MaxReclaims
        /\ IsFiniteSet(0..n) /\ Cardinality(0..n) = n + 1
    BY FS_Interval
  <2>3. /\ IsFiniteSet((1..MaxReclaims) \X (0..n))
        /\ Cardinality((1..MaxReclaims) \X (0..n)) = MaxReclaims * (n + 1)
    BY <2>2, FS_Product
  <2>4. released[j] \subseteq (1..MaxReclaims) \X (0..n)
    BY <2>1
  <2>5. IsFiniteSet(released[j]) /\ Cardinality(released[j]) <= MaxReclaims * (n + 1)
    BY <2>3, <2>4, FS_Subset
  <2> QED BY <2>5
<1>2. \A d \in released[j] : d[2] <= ResendLimit
  BY <1>0
<1>3. IsFiniteSet(released[j])
  BY <1>1, <1>2
<1> QED BY <1>1, <1>3, FS_CardinalityType

\* A step in which no sweep takes a new attempt number and none is spent keeps
\* the numbers apart.  The counter may grow.
LEMMA TicketsKept ==
  ASSUME TypeInv, Tickets, TypeInv',
         \A j \in Jobs : reclaims'[j] >= reclaims[j],
         released' = released,
         \A w \in Workers : Deciding(w)' =>
           /\ Deciding(w)
           /\ sweep'[w].hand = sweep[w].hand
           /\ sweep'[w].attempts = sweep[w].attempts
           /\ sweep'[w].sent = sweep[w].sent
           /\ sweep'[w].pc = "release" => sweep'[w].attempts <= MaxReclaims
  PROVE  Tickets'
<1> SUFFICES ASSUME NEW w \in Workers, Deciding(w)'
             PROVE  /\ sweep'[w].attempts \in 1..reclaims'[sweep'[w].hand]
                    /\ Unspent(sweep[w].hand, sweep[w].attempts, sweep[w].sent)'
                    /\ sweep'[w].pc = "release" => sweep'[w].attempts <= MaxReclaims
                    /\ \A v \in Workers :
                         v # w /\ Deciding(v)' /\ sweep'[v].hand = sweep'[w].hand
                           => sweep'[v].attempts # sweep'[w].attempts
  BY DEF Tickets
<1>1. Deciding(w) /\ sweep'[w].hand = sweep[w].hand
                  /\ sweep'[w].attempts = sweep[w].attempts
                  /\ sweep'[w].sent = sweep[w].sent
  OBVIOUS
<1>2. sweep[w].hand \in Jobs
  BY <1>1 DEF Deciding, TypeInv, SweepShape
<1>3. reclaims[sweep[w].hand] \in Nat /\ reclaims'[sweep[w].hand] \in Nat
  BY <1>2 DEF TypeInv, TypeOK, BrokerTypeOK
<1>4. sweep[w].attempts \in 1..reclaims[sweep[w].hand]
  BY <1>1 DEF Tickets
<1>5. sweep'[w].attempts \in 1..reclaims'[sweep'[w].hand]
  BY <1>1, <1>2, <1>3, <1>4
<1>6. Unspent(sweep[w].hand, sweep[w].attempts, sweep[w].sent)'
  BY <1>1 DEF Tickets, Unspent
<1>7. ASSUME NEW v \in Workers, v # w, Deciding(v)', sweep'[v].hand = sweep'[w].hand
      PROVE  sweep'[v].attempts # sweep'[w].attempts
  BY <1>1, <1>7 DEF Tickets
<1> QED BY <1>5, <1>6, <1>7

\* A step that starts no run and releases no claim keeps the ledger.
LEMMA LedgerKept ==
  ASSUME TypeInv, Ledger, TypeInv',
         \A j \in Jobs : reclaims'[j] >= reclaims[j],
         released' = released, runs' = runs, claim \subseteq claim'
  PROVE  Ledger'
<1> SUFFICES ASSUME NEW j \in Jobs
             PROVE  /\ \A d \in released'[j] : d[1] \in 1..reclaims'[j] /\ d[1] \in 1..MaxReclaims
                    /\ runs'[j] <= Cardinality(released'[j]) + (IF j \in claim' THEN 1 ELSE 0)
  BY DEF Ledger
<1>1. reclaims[j] \in Nat /\ reclaims'[j] \in Nat /\ runs[j] \in Nat
  BY DEF TypeInv, TypeOK, BrokerTypeOK, WorkTypeOK
<1>2. Cardinality(released[j]) \in Nat
  BY ReleasedFinite
<1>3. \A d \in released[j] : d[1] \in 1..reclaims'[j] /\ d[1] \in 1..MaxReclaims
  <2> TAKE d \in released[j]
  <2>1. d[1] \in 1..reclaims[j] /\ d[1] \in 1..MaxReclaims
    BY DEF Ledger
  <2> QED BY <1>1, <2>1
<1>4. runs[j] <= Cardinality(released[j]) + (IF j \in claim THEN 1 ELSE 0)
  BY DEF Ledger
<1>5. runs[j] <= Cardinality(released[j]) + (IF j \in claim' THEN 1 ELSE 0)
  BY <1>1, <1>2, <1>4
<1> QED BY <1>3, <1>5 DEF Ledger

\* A claim admits a run only where none of the admitted ones still holds it.
LEMMA LedgerClaim ==
  ASSUME TypeInv, Ledger, NEW w \in Workers, NEW s \in Slots, Claim(w, s),
         UNCHANGED reclaimVars
  PROVE  Ledger'
<1> DEFINE h == task[w][s].job
<1>1. /\ UNCHANGED <<released, reclaims>>
      /\ h \notin claim
      /\ claim' = claim \cup {h}
      /\ runs' = runs \/ runs' = [runs EXCEPT ![h] = @ + 1]
  BY DEF Claim, reclaimVars
<1> HIDE DEF h
<1> SUFFICES ASSUME NEW j \in Jobs
             PROVE  /\ \A d \in released'[j] : d[1] \in 1..reclaims'[j] /\ d[1] \in 1..MaxReclaims
                    /\ runs'[j] <= Cardinality(released'[j]) + (IF j \in claim' THEN 1 ELSE 0)
  BY DEF Ledger
<1>2. runs[j] \in Nat /\ runs \in [Jobs -> Nat]
  BY DEF TypeInv, TypeOK, WorkTypeOK
<1>3. Cardinality(released[j]) \in Nat
  BY ReleasedFinite
<1>4. runs[j] <= Cardinality(released[j]) + (IF j \in claim THEN 1 ELSE 0)
  BY DEF Ledger
<1>5. runs'[j] <= Cardinality(released[j]) + (IF j \in claim' THEN 1 ELSE 0)
  <2>1. CASE j = h
    <3>1. runs'[j] <= runs[j] + 1
      BY <1>1, <1>2, <2>1
    <3>2. runs[j] <= Cardinality(released[j])
      BY <1>1, <1>3, <1>4, <2>1
    <3>3. runs'[j] \in Nat
      BY <1>1, <1>2, <2>1
    <3>4. j \in claim'
      BY <1>1, <2>1
    <3> QED BY <1>2, <1>3, <3>1, <3>2, <3>3, <3>4
  <2>2. CASE j # h
    <3>1. runs'[j] = runs[j]
      BY <1>1, <1>2, <2>2
    <3>2. j \in claim' <=> j \in claim
      BY <1>1, <2>2
    <3> QED BY <1>4, <3>1, <3>2
  <2> QED BY <2>1, <2>2
<1> QED BY <1>1, <1>5 DEF Ledger

\* A DEL that frees the claim is one nobody else has sent, so it pays for the
\* run that the free claim may admit.  The sweep is done with its number then,
\* or will send the DEL again.
LEMMA DropKeeps ==
  ASSUME TypeInv, TypeInv', Tickets, Ledger, NEW w \in Workers,
         sweep[w].pc = "release", DropClaim(w), UNCHANGED <<reclaims, runs>>,
         \/ ~Deciding(w)'
         \/ /\ sweep'[w].pc = "release"
            /\ sweep'[w].hand = sweep[w].hand
            /\ sweep'[w].attempts = sweep[w].attempts
            /\ sweep'[w].sent = sweep[w].sent + 1,
         \A v \in Workers \ {w} : sweep'[v] = sweep[v]
  PROVE  Tickets' /\ Ledger'
<1> DEFINE h == sweep[w].hand
           a == sweep[w].attempts
           n == sweep[w].sent
<1>0. h \in Jobs /\ released \in [Jobs -> SUBSET (Nat \X (0..ResendLimit))]
  BY DEF TypeInv, TypeOK, ReclaimTypeOK, SweepShape
<1>n. n \in Nat /\ a \in Nat
  BY DEF TypeInv, TypeOK, ReclaimTypeOK, Sweep
<1>1. /\ claim' = claim \ {h}
      /\ released' = IF h \in claim THEN [released EXCEPT ![h] = @ \cup {<<a, n>>}] ELSE released
  BY DEF DropClaim
<1>2. /\ a \in 1..reclaims[h]
      /\ Unspent(h, a, n)
      /\ a <= MaxReclaims
      /\ \A v \in Workers : v # w /\ Deciding(v) /\ sweep[v].hand = h
                              => sweep[v].attempts # a
  BY DEF Tickets, Deciding
<1>3. reclaims[h] \in Nat
  BY <1>0 DEF TypeInv, TypeOK, BrokerTypeOK
<1>s. \/ ~Deciding(w)'
      \/ sweep'[w].pc = "release" /\ sweep'[w].hand = h /\ sweep'[w].attempts = a /\ sweep'[w].sent = n + 1
  OBVIOUS
<1> HIDE DEF h, a, n
<1>4. \A d \in released'[h] : d \in released[h] \/ (d[1] = a /\ d[2] = n)
  BY <1>0, <1>1
<1>5. \A j \in Jobs \ {h} : released'[j] = released[j]
  BY <1>0, <1>1
<1>t. \A d \in released[h] : d[2] \in Nat
  BY <1>0
<1>6. Tickets'
  <2> SUFFICES ASSUME NEW v \in Workers, Deciding(v)'
               PROVE  /\ sweep'[v].attempts \in 1..reclaims'[sweep'[v].hand]
                      /\ Unspent(sweep[v].hand, sweep[v].attempts, sweep[v].sent)'
                      /\ sweep'[v].pc = "release" => sweep'[v].attempts <= MaxReclaims
                      /\ \A u \in Workers :
                           u # v /\ Deciding(u)' /\ sweep'[u].hand = sweep'[v].hand
                             => sweep'[u].attempts # sweep'[v].attempts
    BY DEF Tickets
  <2>0. /\ Deciding(v)
        /\ sweep'[v].hand = sweep[v].hand
        /\ sweep'[v].attempts = sweep[v].attempts
        /\ sweep'[v].pc = sweep[v].pc
        /\ v # w => sweep'[v].sent = sweep[v].sent
    <3>1. CASE v = w
      BY <1>s, <3>1 DEF Deciding, h, a
    <3>2. CASE v # w
      BY <3>2 DEF Deciding
    <3> QED BY <3>1, <3>2
  <2>3. sweep[v].hand \in Jobs
    BY <2>0 DEF Deciding, TypeInv, SweepShape
  <2>4. /\ sweep[v].attempts \in 1..reclaims[sweep[v].hand]
        /\ Unspent(sweep[v].hand, sweep[v].attempts, sweep[v].sent)
        /\ sweep[v].pc = "release" => sweep[v].attempts <= MaxReclaims
    BY <2>0 DEF Tickets
  <2>5. \A d \in released'[sweep[v].hand] : d[1] = sweep[v].attempts => d[2] < sweep'[v].sent
    <3>1. CASE v = w
      <4>1. sweep[v].hand = h /\ sweep[v].attempts = a /\ sweep'[v].sent = n + 1
        BY <1>s, <3>1 DEF h, a
      <4>2. \A d \in released[h] : d[1] = a => d[2] < n
        BY <1>2 DEF Unspent
      <4> QED BY <1>4, <1>n, <1>t, <4>1, <4>2
    <3>2. CASE v # w /\ sweep[v].hand = h
      <4>1. \A d \in released[h] : d[1] = sweep[v].attempts => d[2] < sweep[v].sent
        BY <2>4, <3>2 DEF Unspent
      <4>2. sweep[v].attempts # a
        BY <1>2, <2>0, <3>2
      <4> QED BY <1>4, <2>0, <3>2, <4>1, <4>2
    <3>3. CASE v # w /\ sweep[v].hand # h
      BY <1>5, <2>0, <2>3, <2>4, <3>3 DEF Unspent
    <3> QED BY <3>1, <3>2, <3>3
  <2>6. ASSUME NEW u \in Workers, u # v, Deciding(u)', sweep'[u].hand = sweep'[v].hand
        PROVE  sweep'[u].attempts # sweep'[v].attempts
    <3>1. Deciding(u) /\ sweep'[u].hand = sweep[u].hand /\ sweep'[u].attempts = sweep[u].attempts
      <4>1. CASE u = w
        BY <1>s, <2>6, <4>1 DEF Deciding, h, a
      <4>2. CASE u # w
        BY <2>6, <4>2 DEF Deciding
      <4> QED BY <4>1, <4>2
    <3> QED BY <2>0, <2>6, <3>1 DEF Tickets
  <2> QED BY <2>0, <2>4, <2>5, <2>6 DEF Unspent
<1>7. Ledger'
  <2> SUFFICES ASSUME NEW j \in Jobs
               PROVE  /\ \A d \in released'[j] : d[1] \in 1..reclaims[j] /\ d[1] \in 1..MaxReclaims
                      /\ runs[j] <= Cardinality(released'[j]) + (IF j \in claim' THEN 1 ELSE 0)
    BY DEF Ledger
  <2>1. /\ \A d \in released[j] : d[1] \in 1..reclaims[j] /\ d[1] \in 1..MaxReclaims
        /\ runs[j] <= Cardinality(released[j]) + (IF j \in claim THEN 1 ELSE 0)
    BY DEF Ledger
  <2>2. CASE j # h
    BY <1>1, <1>5, <2>1, <2>2
  <2>3. CASE j = h /\ h \in claim
    <3>1. a \in 1..MaxReclaims
      BY <1>2, <1>3
    <3>2. IsFiniteSet(released[h]) /\ Cardinality(released[h]) \in Nat
      BY <1>0, ReleasedFinite
    <3>3. Cardinality(released'[h]) = Cardinality(released[h]) + 1
      <4> DEFINE e == <<a, n>>
      <4>1. released'[h] = released[h] \cup {e}
        BY <1>0, <1>1, <2>3
      <4>2. e \notin released[h]
        BY <1>2, <1>n DEF Unspent
      <4> HIDE DEF e
      <4> QED BY <3>2, <4>1, <4>2, FS_AddElement
    <3>4. h \notin claim' /\ runs[h] \in Nat
      BY <1>0, <1>1 DEF TypeInv, TypeOK, WorkTypeOK
    <3>5. runs[h] <= Cardinality(released'[h]) + 0
      BY <2>1, <2>3, <3>2, <3>3, <3>4
    <3>6. \A d \in released'[h] : d[1] \in 1..reclaims[h] /\ d[1] \in 1..MaxReclaims
      BY <1>2, <1>4, <2>1, <2>3, <3>1
    <3> QED BY <2>3, <3>4, <3>5, <3>6
  <2>4. CASE j = h /\ h \notin claim
    BY <1>1, <2>1, <2>4
  <2> QED BY <2>2, <2>3, <2>4
<1> QED BY <1>6, <1>7

\* Taking a number: it is more than any number given out before.
LEMMA BumpKeeps ==
  ASSUME TypeInv, TypeInv', Tickets, Ledger, NEW w \in Workers, BumpReclaimCount(w)
  PROVE  Tickets'
<1> DEFINE h == sweep[w].hand
<1>m. PICK m \in Increments(w) :
        /\ reclaims' = [reclaims EXCEPT ![h] = @ + m]
        /\ Proceed(w, [sweep[w] EXCEPT !.pc = "marker", !.attempts = reclaims[h] + m])
  BY DEF BumpReclaimCount
<1>i. m \in Nat /\ m > 0
  BY DEF Increments
<1> DEFINE n == reclaims[h] + m
           r == [sweep[w] EXCEPT !.pc = "marker", !.attempts = n]
<1>0. h \in Jobs /\ reclaims \in [Jobs -> Nat] /\ sweep \in [Workers -> Sweep]
  BY DEF BumpReclaimCount, TypeInv, TypeOK, BrokerTypeOK, ReclaimTypeOK, SweepShape
<1>1. /\ reclaims' = [reclaims EXCEPT ![h] = n]
      /\ sweep' = [sweep EXCEPT ![w] = r]
      /\ released' = released
  BY <1>m, <1>0 DEF BumpReclaimCount, Proceed
<1>2. reclaims[h] \in Nat /\ n \in Nat /\ n > reclaims[h] /\ reclaims'[h] = n
  BY <1>0, <1>1, <1>i
<1>3. sweep'[w].hand = h /\ sweep'[w].attempts = n /\ sweep'[w].pc = "marker"
  <2>1. sweep'[w] = r /\ sweep[w] \in Sweep
    BY <1>0, <1>1
  <2>2. r.hand = h /\ r.attempts = n /\ r.pc = "marker"
    BY <2>1 DEF Sweep
  <2> QED BY <2>1, <2>2
<1>4. \A v \in Workers \ {w} : sweep'[v] = sweep[v]
  BY <1>0, <1>1
<1>5. \A j \in Jobs : reclaims[j] \in Nat /\ reclaims'[j] \in Nat /\ reclaims'[j] >= reclaims[j]
  BY <1>0, <1>1, <1>2
<1>6. \A v \in Workers \ {w} : Deciding(v)' =>
        /\ Deciding(v)
        /\ sweep[v].hand \in Jobs
        /\ sweep[v].attempts \in 1..reclaims[sweep[v].hand]
        /\ Unspent(sweep[v].hand, sweep[v].attempts, sweep[v].sent)
        /\ sweep[v].pc = "release" => sweep[v].attempts <= MaxReclaims
  <2> TAKE v \in Workers \ {w}
  <2> HAVE Deciding(v)'
  <2>1. Deciding(v)
    BY <1>4 DEF Deciding
  <2>2. sweep[v].hand \in Jobs
    BY <2>1 DEF Deciding, TypeInv, SweepShape
  <2> QED BY <2>1, <2>2 DEF Tickets
<1>7. \A d \in released[h] : d[1] \in 1..reclaims[h]
  BY <1>0 DEF Ledger
<1> HIDE DEF h, r, n
<1> SUFFICES ASSUME NEW v \in Workers, Deciding(v)'
             PROVE  /\ sweep'[v].attempts \in 1..reclaims'[sweep'[v].hand]
                    /\ Unspent(sweep[v].hand, sweep[v].attempts, sweep[v].sent)'
                    /\ sweep'[v].pc = "release" => sweep'[v].attempts <= MaxReclaims
                    /\ \A u \in Workers :
                         u # v /\ Deciding(u)' /\ sweep'[u].hand = sweep'[v].hand
                           => sweep'[u].attempts # sweep'[v].attempts
  BY DEF Tickets
<1>8. ASSUME NEW u \in Workers, u # v, Deciding(u)', sweep'[u].hand = sweep'[v].hand
      PROVE  sweep'[u].attempts # sweep'[v].attempts
  <2>1. CASE v = w
    <3>1. sweep'[u] = sweep[u] /\ sweep[u].hand = h
      BY <1>3, <1>4, <1>8, <2>1
    <3>2. sweep[u].attempts \in 1..reclaims[h]
      BY <1>6, <1>8, <2>1, <3>1
    <3> QED BY <1>2, <1>3, <2>1, <3>1, <3>2
  <2>2. CASE u = w
    <3>1. sweep'[v] = sweep[v] /\ sweep[v].hand = h
      BY <1>3, <1>4, <1>8, <2>2
    <3>2. sweep[v].attempts \in 1..reclaims[h]
      BY <1>6, <1>8, <2>2, <3>1
    <3> QED BY <1>2, <1>3, <2>2, <3>1, <3>2
  <2>3. CASE v # w /\ u # w
    <3>1. Deciding(u) /\ Deciding(v) /\ sweep'[u] = sweep[u] /\ sweep'[v] = sweep[v]
      BY <1>4, <1>6, <1>8, <2>3
    <3> QED BY <1>8, <3>1 DEF Tickets
  <2> QED BY <2>1, <2>2, <2>3
<1>9. CASE v = w
  <2>1. n \in 1..n /\ \A d \in released[h] : d[1] # n
    BY <1>2, <1>7
  <2> QED BY <1>1, <1>2, <1>3, <1>8, <1>9, <2>1 DEF Unspent
<1>10. CASE v # w
  <2>1. sweep'[v] = sweep[v]
    BY <1>4, <1>10
  <2>2. sweep[v].attempts \in 1..reclaims'[sweep[v].hand]
    BY <1>5, <1>6, <1>10
  <2> QED BY <1>1, <1>6, <1>8, <1>10, <2>1, <2>2 DEF Unspent
<1> QED BY <1>9, <1>10

\* A sweep that moves on to a state in which it decides nothing new leaves
\* every other sweep alone.
LEMMA ProceedQuiet ==
  ASSUME TypeInv, NEW w \in Workers, NEW r, Proceed(w, r),
         r.pc \notin {"marker", "release"}
  PROVE  /\ ~Deciding(w)'
         /\ \A v \in Workers \ {w} : sweep'[v] = sweep[v]
         /\ \A v \in Workers : Deciding(v)' =>
              /\ Deciding(v)
              /\ sweep'[v].hand = sweep[v].hand
              /\ sweep'[v].attempts = sweep[v].attempts
              /\ sweep'[v].sent = sweep[v].sent
              /\ sweep'[v].pc = sweep[v].pc
<1>1. sweep \in [Workers -> Sweep] /\ sweep' = [sweep EXCEPT ![w] = r]
  BY DEF TypeInv, TypeOK, ReclaimTypeOK, Proceed
<1>2. sweep'[w] = r /\ \A v \in Workers \ {w} : sweep'[v] = sweep[v]
  BY <1>1
<1>3. ~Deciding(w)'
  BY <1>2 DEF Deciding
<1>4. ASSUME NEW v \in Workers, Deciding(v)'
      PROVE  v # w /\ sweep'[v] = sweep[v] /\ Deciding(v)
  BY <1>2, <1>3, <1>4 DEF Deciding
<1> QED BY <1>2, <1>3, <1>4

\* The states the moves of a sweep lead to decide nothing.
LEMMA MovesQuiet ==
  ASSUME TypeInv, NEW w \in Workers
  PROVE  /\ Stop(w) => \E r : Proceed(w, r) /\ r.pc \notin {"marker", "release"}
         /\ sweep[w].pc = "drain" /\ NextList(w)
              => \E r : Proceed(w, r) /\ r.pc \notin {"marker", "release"}
         /\ Continue(w) => \E r : Proceed(w, r) /\ r.pc \notin {"marker", "release"}
         /\ ToFail(w) => \E r : Proceed(w, r) /\ r.pc \notin {"marker", "release"}
<1>0. sweep[w] \in Sweep
  BY DEF TypeInv, TypeOK, ReclaimTypeOK
<1>1. Idle.pc = "idle"
  BY DEF Idle
<1>2. ASSUME sweep[w].pc = "drain"
      PROVE  [sweep[w] EXCEPT !.keys = Tail(@)].pc = "drain"
  BY <1>0, <1>2 DEF Sweep
<1>3. [sweep[w] EXCEPT !.pc = "drain", !.hand = NoJob, !.attempts = 0, !.sent = 0].pc = "drain"
  BY <1>0 DEF Sweep
<1>4. [sweep[w] EXCEPT !.pc = "fail"].pc = "fail"
  BY <1>0 DEF Sweep
<1>5. Stop(w) => \E r : Proceed(w, r) /\ r.pc \notin {"marker", "release"}
  BY <1>1 DEF Stop
<1>6. sweep[w].pc = "drain" /\ NextList(w)
        => \E r : Proceed(w, r) /\ r.pc \notin {"marker", "release"}
  BY <1>2, <1>5 DEF NextList
<1>7. Continue(w) => \E r : Proceed(w, r) /\ r.pc \notin {"marker", "release"}
  BY <1>3 DEF Continue
<1>8. ToFail(w) => \E r : Proceed(w, r) /\ r.pc \notin {"marker", "release"}
  BY <1>4 DEF ToFail
<1> QED BY <1>5, <1>6, <1>7, <1>8

RunParts == Tickets /\ Ledger

\* A step of a sweep keeps the account of attempts and runs.
LEMMA SweepStepRuns ==
  ASSUME TypeInv, RunParts, TypeInv', NEW w \in Workers, SweepStep(w), UNCHANGED workVars
  PROVE  RunParts'
<1> USE DEF RunParts
<1>0. runs' = runs /\ sweep[w] \in Sweep /\ reclaims \in [Jobs -> Nat]
  BY DEF workVars, TypeInv, TypeOK, BrokerTypeOK, ReclaimTypeOK
<1>s. \A j \in Jobs : reclaims[j] >= reclaims[j]
  BY <1>0
\* A step that moves to a state deciding nothing, with claim and attempts as
\* they were.
<1>q. ASSUME NEW r, Proceed(w, r), r.pc \notin {"marker", "release"},
             UNCHANGED <<claim, released>>, \A j \in Jobs : reclaims'[j] >= reclaims[j]
      PROVE  RunParts'
  <2>1. \A v \in Workers : Deciding(v)' =>
          /\ Deciding(v)
          /\ sweep'[v].hand = sweep[v].hand
          /\ sweep'[v].attempts = sweep[v].attempts
          /\ sweep'[v].sent = sweep[v].sent
          /\ sweep'[v].pc = "release" => sweep'[v].attempts <= MaxReclaims
    BY <1>q, ProceedQuiet DEF Tickets
  <2>2. Tickets'
    BY <1>q, <2>1, TicketsKept
  <2>3. Ledger'
    BY <1>q, <1>0, LedgerKept
  <2> QED BY <2>2, <2>3
<1>1. CASE ReadLive(w)
  <2> DEFINE r == [Idle EXCEPT !.pc = "scan", !.live = {v \in Workers : beat[v]} \cup {w}]
  <2>1. Proceed(w, r) /\ UNCHANGED <<claim, released, reclaims>>
    BY <1>1 DEF ReadLive, keyVars
  <2>2. r.pc = "scan"
    BY DEF Idle
  <2> HIDE DEF r
  <2> QED BY <1>q, <1>s, <2>1, <2>2
<1>2. CASE ScanKeys(w)
  <2>1. PICK ks : IF ks = <<>> THEN Stop(w)
                  ELSE Proceed(w, [Idle EXCEPT !.pc = "drain", !.live = sweep[w].live,
                                               !.keys = ks])
    BY <1>2 DEF ScanKeys
  <2>2. [Idle EXCEPT !.pc = "drain", !.live = sweep[w].live, !.keys = ks].pc = "drain"
    BY DEF Idle
  <2>3. UNCHANGED <<claim, released, reclaims>>
    BY <1>2 DEF ScanKeys, keyVars
  <2>4. \E r : Proceed(w, r) /\ r.pc \notin {"marker", "release"}
    BY <2>1, <2>2, MovesQuiet
  <2> QED BY <1>q, <1>s, <2>3, <2>4
<1>3. CASE ScanError(w)
  BY <1>3, <1>q, <1>s, MovesQuiet DEF ScanError, keyVars
<1>4. CASE ListDrained(w)
  BY <1>4, <1>q, <1>s, MovesQuiet DEF ListDrained, keyVars
<1>5. CASE PopOrphan(w)
  <2>1. sweep[w].pc = "drain" /\ UNCHANGED <<claim, released, reclaims>>
    BY <1>5 DEF PopOrphan, keyVars
  <2>2. PICK r : Proceed(w, r) /\ r.pc \notin {"marker", "release"}
    <3>1. CASE UNCHANGED sweep
      <4>1. Proceed(w, sweep[w])
        BY <3>1 DEF Proceed, TypeInv, TypeOK, ReclaimTypeOK
      <4> QED BY <2>1, <4>1
    <3>2. CASE sweep' # sweep
      <4>1. PICK j : Proceed(w, [sweep[w] EXCEPT !.pc = "count", !.hand = j,
                                                 !.handled = @ \cup {j}])
        BY <1>5, <3>2 DEF PopOrphan
      <4>2. [sweep[w] EXCEPT !.pc = "count", !.hand = j, !.handled = @ \cup {j}].pc = "count"
        BY <1>0 DEF Sweep
      <4> QED BY <4>1, <4>2
    <3> QED BY <3>1, <3>2
  <2> QED BY <1>q, <1>s, <2>1, <2>2
<1>6. CASE PopOrphanError(w)
  BY <1>6, <1>q, <1>s, MovesQuiet DEF PopOrphanError, keyVars
<1>14. CASE PopOrphanLost(w)
  <2>1. sweep[w].pc = "drain" /\ UNCHANGED <<claim, released, reclaims>>
    BY <1>14 DEF PopOrphanLost, keyVars
  <2>2. CASE UNCHANGED sweep
    <3>1. Proceed(w, sweep[w])
      BY <2>2 DEF Proceed, TypeInv, TypeOK, ReclaimTypeOK
    <3> QED BY <1>q, <1>s, <2>1, <3>1
  <2>3. CASE NextList(w)
    BY <1>q, <1>s, <2>1, <2>3, MovesQuiet
  <2> QED BY <1>14, <2>2, <2>3 DEF PopOrphanLost
<1>b. ASSUME NEW j, NEW n \in Increments(w), reclaims' = [reclaims EXCEPT ![j] = @ + n]
      PROVE  \A i \in Jobs : reclaims'[i] >= reclaims[i]
  <2> TAKE i \in Jobs
  <2>0. n \in Nat
    BY DEF Increments
  <2>1. reclaims[i] \in Nat
    BY <1>0
  <2>2. reclaims'[i] = reclaims[i] \/ reclaims'[i] = reclaims[i] + n
    BY <1>0, <1>b
  <2> QED BY <2>0, <2>1, <2>2
<1>7. CASE BumpReclaimCount(w)
  <2>1. /\ UNCHANGED <<claim, released>>
        /\ \A i \in Jobs : reclaims'[i] >= reclaims[i]
    BY <1>7, <1>b DEF BumpReclaimCount
  <2> QED BY <1>0, <1>7, <2>1, BumpKeeps, LedgerKept
<1>8. CASE BumpError(w)
  <2>1. /\ UNCHANGED <<claim, released>>
        /\ \A i \in Jobs : reclaims'[i] >= reclaims[i]
    BY <1>8, <1>b, <1>s DEF BumpError
  <2> QED BY <1>8, <1>q, <2>1, MovesQuiet DEF BumpError
<1>9. CASE HasPublished(w)
  <2>1. UNCHANGED <<claim, released, reclaims>>
    BY <1>9 DEF HasPublished, keyVars
  <2>2. CASE ToFail(w)
    BY <1>q, <1>s, <2>1, <2>2, MovesQuiet
  <2>3. CASE ~ToFail(w)
    <3> DEFINE r == [sweep[w] EXCEPT !.pc = "release"]
    <3>1. /\ Proceed(w, r)
          /\ sweep[w].pc = "marker"
          /\ ~(sweep[w].attempts > MaxReclaims)
      BY <1>9, <2>3 DEF HasPublished
    <3>2. sweep[w].attempts \in Nat
      BY <1>0 DEF Sweep
    <3>3. r.hand = sweep[w].hand /\ r.attempts = sweep[w].attempts /\ r.sent = sweep[w].sent
      BY <1>0 DEF Sweep
    <3>4. /\ sweep'[w] = r
          /\ \A v \in Workers \ {w} : sweep'[v] = sweep[v]
      BY <3>1 DEF Proceed, TypeInv, TypeOK, ReclaimTypeOK
    <3> HIDE DEF r
    <3>5. \A v \in Workers : Deciding(v)' =>
            /\ Deciding(v)
            /\ sweep'[v].hand = sweep[v].hand
            /\ sweep'[v].attempts = sweep[v].attempts
            /\ sweep'[v].sent = sweep[v].sent
            /\ sweep'[v].pc = "release" => sweep'[v].attempts <= MaxReclaims
      <4> TAKE v \in Workers
      <4> HAVE Deciding(v)'
      <4>1. CASE v = w
        BY <3>1, <3>2, <3>3, <3>4, <4>1 DEF Deciding
      <4>2. CASE v # w
        BY <3>4, <4>2 DEF Deciding, Tickets
      <4> QED BY <4>1, <4>2
    <3> QED BY <1>0, <1>s, <2>1, <3>5, TicketsKept, LedgerKept
  <2> QED BY <2>2, <2>3
<1>10. CASE HasPublishedError(w)
  BY <1>10, <1>q, <1>s, MovesQuiet DEF HasPublishedError, keyVars
<1>d. ASSUME NEW r, Proceed(w, r), r.pc \notin {"marker", "release"},
             sweep[w].pc = "release", DropClaim(w), UNCHANGED reclaims
      PROVE  RunParts'
  BY <1>0, <1>d, ProceedQuiet, DropKeeps
<1>11. CASE Release(w)
  <2>1. [sweep[w] EXCEPT !.pc = "push", !.sent = 0].pc = "push"
    BY <1>0 DEF Sweep
  <2> QED BY <1>11, <1>d, <2>1 DEF Release
<1>12. CASE ReleaseError(w)
  BY <1>12, <1>d, <1>q, <1>s, MovesQuiet DEF ReleaseError
<1>13. CASE Requeue(w) \/ RequeueError(w) \/ Fail(w) \/ FailError(w)
  <2>1. Continue(w) /\ UNCHANGED <<claim, released, reclaims>>
    BY <1>13 DEF Requeue, RequeueError, Fail, FailError, keyVars
  <2> QED BY <1>q, <1>s, <2>1, MovesQuiet
<1>15. CASE ReleaseResent(w)
  <2> DEFINE r == [sweep[w] EXCEPT !.sent = @ + 1]
  <2>1. sweep[w].pc = "release" /\ DropClaim(w) /\ Proceed(w, r) /\ UNCHANGED reclaims
    BY <1>15 DEF ReleaseResent
  <2>2. /\ r.pc = sweep[w].pc /\ r.hand = sweep[w].hand
        /\ r.attempts = sweep[w].attempts /\ r.sent = sweep[w].sent + 1
    BY <1>0 DEF Sweep
  <2> HIDE DEF r
  <2>3. sweep'[w] = r /\ \A v \in Workers \ {w} : sweep'[v] = sweep[v]
    BY <2>1 DEF Proceed, TypeInv, TypeOK, ReclaimTypeOK
  <2> QED BY <1>0, <2>1, <2>2, <2>3, DropKeeps
<1>16. CASE RequeueResent(w)
  <2>1. /\ sweep[w].pc = "push" /\ Proceed(w, [sweep[w] EXCEPT !.sent = @ + 1])
        /\ UNCHANGED <<claim, released, reclaims>>
    BY <1>16 DEF RequeueResent, keyVars
  <2>2. [sweep[w] EXCEPT !.sent = @ + 1].pc = sweep[w].pc
    BY <1>0 DEF Sweep
  <2> QED BY <1>q, <1>s, <2>1, <2>2
<1> QED BY <1>1, <1>2, <1>3, <1>4, <1>5, <1>6, <1>7, <1>8, <1>9, <1>10, <1>11, <1>12,
           <1>13, <1>14, <1>15, <1>16 DEF SweepStep

\* Every step keeps the account.
LEMMA NextRuns == TypeInv /\ RunParts /\ TypeInv' /\ [Next]_vars => RunParts'
<1> SUFFICES ASSUME TypeInv, RunParts, TypeInv', [Next]_vars
             PROVE  RunParts'
  OBVIOUS
<1>0. \A j \in Jobs : reclaims[j] \in Nat /\ reclaims[j] >= reclaims[j]
  BY DEF TypeInv, TypeOK, BrokerTypeOK
<1>1. ASSUME UNCHANGED <<reclaims, released, sweep, runs>>, claim \subseteq claim'
      PROVE  RunParts'
  <2>1. \A w \in Workers : Deciding(w)' =>
          /\ Deciding(w)
          /\ sweep'[w].pc = "release" => sweep'[w].attempts <= MaxReclaims
    BY <1>1 DEF Deciding, RunParts, Tickets
  <2> QED BY <1>0, <1>1, <2>1, TicketsKept, LedgerKept DEF RunParts
<1>2. ASSUME NEW w \in Workers, NEW s \in Slots, TaskStep(w, s), UNCHANGED reclaimVars
      PROVE  RunParts'
  <2>1. CASE Claim(w, s)
    <3>1. UNCHANGED <<reclaims, released, sweep>>
      BY <1>2, <2>1 DEF Claim, reclaimVars
    <3>2. \A v \in Workers : Deciding(v)' =>
            /\ Deciding(v)
            /\ sweep'[v].pc = "release" => sweep'[v].attempts <= MaxReclaims
      BY <3>1 DEF Deciding, RunParts, Tickets
    <3> QED BY <1>0, <1>2, <2>1, <3>1, <3>2, TicketsKept, LedgerClaim DEF RunParts
  <2>2. CASE ~Claim(w, s)
    <3>1. UNCHANGED <<reclaims, runs>> /\ claim \subseteq claim'
      BY <1>2, <2>2 DEF TaskStep, Checkout, Purge, ClaimDuplicate, ClaimResent, ClaimError,
         RemoveResent, workVars, CancelJob, RunReturns, MarkPublished, MarkOutage, Publish, PublishError, Ack, AckError, keyVars
    <3> QED BY <1>1, <1>2, <3>1 DEF reclaimVars
  <2> QED BY <2>1, <2>2
<1>3. ASSUME NEW w \in Workers, WorkStep(w), UNCHANGED reclaimVars
      PROVE  RunParts'
  <2>1. CASE SweepEmpty(w) \/ SweepError(w)
    BY <1>1, <1>3, <2>1 DEF SweepEmpty, SweepError, keyVars, reclaimVars
  <2> QED BY <1>2, <1>3, <2>1 DEF WorkStep
<1>4. ASSUME NEW w \in Workers, Start(w) \/ HeartbeatTick(w) \/ Expire(w) \/ Shutdown(w) \/ Exit(w)
      PROVE  RunParts'
  BY <1>1, <1>4 DEF Start, HeartbeatTick, Expire, Shutdown, Exit, keyVars, workVars, reclaimVars
<1>5. ASSUME NEW w \in Workers, Crash(w)
      PROVE  RunParts'
  <2>1. Proceed(w, Idle) /\ UNCHANGED <<reclaims, released, runs, claim>>
    BY <1>5 DEF Crash, Proceed, keyVars
  <2>2. Idle.pc \notin {"marker", "release"}
    BY DEF Idle
  <2>3. \A v \in Workers : Deciding(v)' =>
          /\ Deciding(v)
          /\ sweep'[v].hand = sweep[v].hand
          /\ sweep'[v].attempts = sweep[v].attempts
          /\ sweep'[v].sent = sweep[v].sent
          /\ sweep'[v].pc = "release" => sweep'[v].attempts <= MaxReclaims
    BY <2>1, <2>2, ProceedQuiet DEF RunParts, Tickets
  <2> QED BY <1>0, <2>1, <2>3, TicketsKept, LedgerKept DEF RunParts
<1>6. ASSUME NEW j \in Jobs, Dispatch(j), UNCHANGED <<workVars, reclaimVars>>
      PROVE  RunParts'
  BY <1>1, <1>6 DEF Dispatch, keyVars, workVars, reclaimVars
<1>7. CASE UNCHANGED vars
  BY <1>1, <1>7 DEF vars
<1> QED BY <1>3, <1>4, <1>5, <1>6, <1>7, SweepStepRuns DEF Next

\* Nothing has run and no attempt is spent at the start.
LEMMA InitRuns == Init => RunParts
<1> SUFFICES ASSUME Init
             PROVE  RunParts
  OBVIOUS
<1>1. \A w \in Workers : ~Deciding(w)
  BY DEF Init, ReclaimInit, Idle, Deciding
<1>2. \A j \in Jobs : released[j] = {} /\ runs[j] = 0 /\ j \notin claim
  BY DEF Init, BrokerInit, WorkInit, ReclaimInit
<1>3. Cardinality({}) = 0
  BY FS_EmptySet
<1>4. \A j \in Jobs : Cardinality(released[j]) = 0
  BY <1>2, <1>3
<1>5. \A j \in Jobs : runs[j] <= Cardinality(released[j]) + (IF j \in claim THEN 1 ELSE 0)
  BY <1>2, <1>4
<1>6. Ledger
  BY <1>2, <1>5 DEF Ledger
<1> QED BY <1>1, <1>6 DEF RunParts, Tickets

\* The attempts recorded are within the budget, so the runs are too.
LEMMA RunsWithinBudget == TypeInv /\ RunParts => BoundedRuns
<1> SUFFICES ASSUME TypeInv, RunParts, NEW j \in Jobs
             PROVE  runs[j] <= 1 + MaxReclaims * (1 + ResendLimit)
  BY DEF BoundedRuns
<1> DEFINE b == MaxReclaims * (1 + ResendLimit)
<1>0. b \in Nat
  OBVIOUS
<1>1. Cardinality(released[j]) \in Nat /\ Cardinality(released[j]) <= b
  <2>1. \A d \in released[j] : d[2] <= ResendLimit
    BY DEF TypeInv, TypeOK, ReclaimTypeOK
  <2> QED BY <2>1, ReleasedFinite DEF RunParts
<1> HIDE DEF b
<1>2. runs[j] <= Cardinality(released[j]) + (IF j \in claim THEN 1 ELSE 0)
  BY DEF RunParts, Ledger
<1>3. runs[j] \in Nat
  BY DEF TypeInv, TypeOK, WorkTypeOK
<1>4. runs[j] <= 1 + b
  BY <1>0, <1>1, <1>2, <1>3
<1> QED BY <1>4 DEF b

\* No job is started more than once plus once per DEL that an allowed reclaim
\* and its re-sends make (the claim of idem.go with the counter of reclaim.go),
\* for every number of workers, jobs, slots, retries and re-sends, and under
\* every fault: crashes, false deaths, duplicated dispatches, racing sweeps,
\* failing calls and lost replies.  Where no reply is lost the bound is once
\* plus once per allowed reclaim.
THEOREM RunsBounded == Spec => []BoundedRuns
<1> DEFINE Inv == TypeInv /\ RunParts
<1>1. Init => Inv
  BY InitType, InitRuns
<1>2. Inv /\ [Next]_vars => Inv'
  BY NextType, NextRuns
<1>3. Inv => BoundedRuns
  BY RunsWithinBudget
<1> QED BY <1>1, <1>2, <1>3, PTL DEF Spec



-------------------------------------------------------------------------------
(***************************************************************************)
(* How many copies of a payload a list holds.                              *)
(***************************************************************************)
Copies(s, j) == Cardinality(Positions(s, j))

LEMMA CopiesType ==
  ASSUME NEW S, NEW s \in Seq(S), NEW j
  PROVE  /\ IsFiniteSet(Positions(s, j))
         /\ Copies(s, j) \in Nat
         /\ Copies(s, j) = 0 <=> Positions(s, j) = {}
<1>1. Len(s) \in Nat
  OBVIOUS
<1>2. IsFiniteSet(1..Len(s))
  BY <1>1, FS_Interval
<1>3. Positions(s, j) \in SUBSET (1..Len(s))
  BY DEF Positions
<1>4. IsFiniteSet(Positions(s, j))
  BY <1>2, <1>3, FS_Subset
<1> QED BY <1>4, FS_CardinalityType, FS_EmptySet DEF Copies

\* Two sets of positions with a bijection between them.
LEMMA SameCopies ==
  ASSUME NEW S, IsFiniteSet(S), NEW T, NEW f \in [S -> T],
         \A x, y \in S : f[x] = f[y] => x = y,
         \A t \in T : \E x \in S : f[x] = t
  PROVE  IsFiniteSet(T) /\ Cardinality(T) = Cardinality(S)
<1>1. f \in Bijection(S, T)
  BY Fun_IsBij
<1>2. ExistsBijection(S, T)
  BY <1>1 DEF ExistsBijection
<1> QED BY <1>2, FS_Bijection

LEMMA ConsCopies ==
  ASSUME NEW S, NEW s \in Seq(S), NEW e \in S, NEW j
  PROVE  Copies(Cons(e, s), j) = Copies(s, j) + (IF e = j THEN 1 ELSE 0)
<1> DEFINE P == Positions(s, j)
           Q == {i + 1 : i \in P}
           c == Cons(e, s)
<1>1. P \subseteq 1..Len(s) /\ Len(s) \in Nat /\ IsFiniteSet(P)
  <2>1. P \subseteq 1..Len(s)
    BY DEF Positions
  <2> QED BY <2>1, CopiesType
<1>2. IsFiniteSet(Q) /\ Cardinality(Q) = Cardinality(P)
  <2> DEFINE f == [i \in P |-> i + 1]
  <2>1. f \in [P -> Q] /\ \A i \in P : f[i] = i + 1
    OBVIOUS
  <2>2. \A x, y \in P : x + 1 = y + 1 => x = y
    BY <1>1
  <2>3. \A t \in Q : \E x \in P : x + 1 = t
    OBVIOUS
  <2> HIDE DEF f, P, Q
  <2>4. \A x, y \in P : f[x] = f[y] => x = y
    BY <2>1, <2>2
  <2>5. \A t \in Q : \E x \in P : f[x] = t
    BY <2>1, <2>3
  <2>6. IsFiniteSet(P)
    BY <1>1
  <2> QED BY <2>1, <2>4, <2>5, <2>6, SameCopies
<1>3. /\ c \in Seq(S) /\ Len(c) = Len(s) + 1 /\ c[1] = e
      /\ \A i \in 1..Len(s) : c[i + 1] = s[i]
  BY <1>1 DEF Cons
<1> HIDE DEF c
<1>4. 1 \notin Q
  BY <1>1
<1>5. \A i \in Positions(c, j) : i = 1 \/ i \in Q
  <2> TAKE i \in Positions(c, j)
  <2>1. i \in 1..(Len(s) + 1) /\ c[i] = j
    BY <1>3 DEF Positions
  <2>2. CASE i # 1
    <3>1. i - 1 \in 1..Len(s) /\ i = (i - 1) + 1
      BY <1>1, <2>1, <2>2
    <3>2. s[i - 1] = j
      BY <1>3, <2>1, <3>1
    <3>3. i - 1 \in P
      BY <3>1, <3>2 DEF Positions
    <3> QED BY <3>1, <3>3
  <2> QED BY <2>2
<1>6. \A i \in Q : i \in Positions(c, j)
  <2> TAKE i \in Q
  <2>1. PICK k \in P : i = k + 1
    OBVIOUS
  <2>2. k \in 1..Len(s) /\ s[k] = j
    BY DEF Positions
  <2>3. c[i] = j /\ i \in 1..(Len(s) + 1)
    BY <1>1, <1>3, <2>1, <2>2
  <2> QED BY <1>3, <2>3 DEF Positions
<1>7. 1 \in Positions(c, j) <=> e = j
  BY <1>1, <1>3 DEF Positions
<1>8. Cardinality(P) \in Nat
  BY <1>1, FS_CardinalityType
<1> HIDE DEF P, Q
<1>9. CASE e = j
  <2>1. Positions(c, j) = Q \cup {1}
    BY <1>5, <1>6, <1>7, <1>9
  <2>2. Cardinality(Q \cup {1}) = Cardinality(Q) + 1
    BY <1>2, <1>4, FS_AddElement
  <2> QED BY <1>2, <1>8, <1>9, <2>1, <2>2 DEF Copies, c, P
<1>10. CASE e # j
  <2>1. Positions(c, j) = Q
    BY <1>5, <1>6, <1>7, <1>10
  <2> QED BY <1>2, <1>8, <1>10, <2>1 DEF Copies, c, P
<1> QED BY <1>9, <1>10

LEMMA AppendCopies ==
  ASSUME NEW S, NEW s \in Seq(S), NEW e \in S, NEW j
  PROVE  Copies(Append(s, e), j) = Copies(s, j) + (IF e = j THEN 1 ELSE 0)
<1> DEFINE P == Positions(s, j)
           n == Len(s) + 1
           c == Append(s, e)
<1>1. P \subseteq 1..Len(s) /\ Len(s) \in Nat /\ IsFiniteSet(P) /\ Cardinality(P) \in Nat
  <2>1. P \subseteq 1..Len(s)
    BY DEF Positions
  <2> QED BY <2>1, CopiesType DEF Copies
<1>2. Len(c) = n /\ c[n] = e /\ \A i \in 1..Len(s) : c[i] = s[i]
  BY <1>1, AppendProperties
<1> HIDE DEF c
<1>3. \A i \in 1..n : i \in 1..Len(s) \/ i = n
  BY <1>1
<1>4. n \notin P /\ 1..Len(s) \subseteq 1..n /\ n \in 1..n
  BY <1>1
<1> HIDE DEF n
<1>5. CASE e = j
  <2>1. Positions(c, j) = P \cup {n}
    BY <1>2, <1>3, <1>4, <1>5 DEF Positions
  <2>2. Cardinality(P \cup {n}) = Cardinality(P) + 1
    BY <1>1, <1>4, FS_AddElement
  <2> QED BY <1>1, <1>5, <2>1, <2>2 DEF Copies, c
<1>6. CASE e # j
  <2>1. Positions(c, j) = P
    BY <1>2, <1>3, <1>4, <1>6 DEF Positions
  <2> QED BY <1>1, <1>6, <2>1 DEF Copies, c
<1> QED BY <1>5, <1>6

LEMMA FrontCopies ==
  ASSUME NEW S, NEW s \in Seq(S), s # <<>>, NEW j
  PROVE  Copies(Front(s), j) = Copies(s, j) - (IF Last(s) = j THEN 1 ELSE 0)
<1> DEFINE P == Positions(s, j)
           n == Len(s)
           c == Front(s)
<1>1. P \subseteq 1..n /\ n \in Nat \ {0} /\ IsFiniteSet(P) /\ Cardinality(P) \in Nat
  <2>1. P \subseteq 1..n
    BY DEF Positions
  <2>2. n \in Nat \ {0}
    BY EmptySeq
  <2> QED BY <2>1, <2>2, CopiesType DEF Copies
<1>2. Len(c) = n - 1 /\ \A i \in 1..(n - 1) : c[i] = s[i]
  <2>1. n - 1 \in Int /\ \A i \in 1..(n - 1) : s[i] \in S
    BY <1>1
  <2>2. /\ Len(SubSeq(s, 1, n - 1)) = IF 1 <= n - 1 THEN (n - 1) - 1 + 1 ELSE 0
        /\ \A i \in 1..((n - 1) - 1 + 1) : SubSeq(s, 1, n - 1)[i] = s[1 + i - 1]
    BY <2>1, SubSeqProperties
  <2>3. (n - 1) - 1 + 1 = n - 1
    BY <1>1
  <2>4. \A i \in 1..(n - 1) : 1 + i - 1 = i
    BY <1>1
  <2> QED BY <1>1, <2>2, <2>3, <2>4 DEF Front
<1> HIDE DEF c
<1>3. \A i : i \in 1..n /\ i # n <=> i \in 1..(n - 1)
  BY <1>1
<1>4. Positions(c, j) = P \ {n}
  BY <1>2, <1>3 DEF Positions
<1>5. n \in P <=> Last(s) = j
  BY <1>1 DEF Positions, Last
<1>6. Cardinality(P \ {n}) = IF n \in P THEN Cardinality(P) - 1 ELSE Cardinality(P)
  BY <1>1, FS_RemoveElement
<1> QED BY <1>1, <1>4, <1>5, <1>6 DEF Copies, c

\* What LREM leaves of a list.
WithoutOne(s, j) == IF Positions(s, j) = {} THEN s ELSE RemoveAt(s, Min(Positions(s, j)))

LEMMA RemoveCopies ==
  ASSUME NEW S, NEW s \in Seq(S), NEW e, NEW j
  PROVE  Copies(WithoutOne(s, e), j)
           = IF e = j /\ Copies(s, j) > 0 THEN Copies(s, j) - 1 ELSE Copies(s, j)
<1>0. Copies(s, e) \in Nat /\ Copies(s, j) \in Nat /\ (Copies(s, e) = 0 <=> Positions(s, e) = {})
  BY CopiesType
<1>1. CASE Positions(s, e) = {}
  BY <1>0, <1>1 DEF WithoutOne
<1>2. CASE Positions(s, e) # {}
  <2> DEFINE m == Min(Positions(s, e))
             n == Len(s)
             P == Positions(s, j) \ {m}
             f == [i \in P |-> IF i < m THEN i ELSE i - 1]
             c == RemoveAt(s, m)
             T == Positions(c, j)
  <2>1. m \in Positions(s, e)
    <3>1. Positions(s, e) \in SUBSET Nat
      BY DEF Positions
    <3> QED BY <1>2, <3>1, MinInSet
  <2>2. m \in 1..n /\ s[m] = e /\ n \in Nat
    BY <2>1 DEF Positions
  <2> HIDE DEF m
  <2>3. /\ Len(c) = n - 1
        /\ \A i \in 1..(n - 1) : c[i] = IF i < m THEN s[i] ELSE s[i + 1]
    <3> DEFINE a == SubSeq(s, 1, m - 1)
               b == SubSeq(s, m + 1, n)
    <3>0. (\A i \in 1..(m - 1) : s[i] \in S) /\ (\A i \in (m + 1)..n : s[i] \in S)
      BY <2>2
    <3>1. a \in Seq(S) /\ Len(a) = m - 1 /\ \A i \in 1..(m - 1) : a[i] = s[i]
      BY <2>2, <3>0, SubSeqProperties
    <3>2. b \in Seq(S) /\ Len(b) = n - m /\ \A i \in 1..(n - m) : b[i] = s[m + i]
      BY <2>2, <3>0, SubSeqProperties
    <3>3. c = a \o b
      BY DEF RemoveAt
    <3> HIDE DEF a, b, c
    <3>4. /\ Len(c) = (m - 1) + (n - m)
          /\ \A i \in 1..((m - 1) + (n - m)) : c[i] = IF i <= m - 1 THEN a[i] ELSE b[i - (m - 1)]
      <4>1. /\ Len(a \o b) = Len(a) + Len(b)
            /\ \A i \in 1..(Len(a) + Len(b)) : (a \o b)[i] = IF i <= Len(a) THEN a[i] ELSE b[i - Len(a)]
        <5>1. a \in Seq(S) /\ b \in Seq(S)
          BY <3>1, <3>2
        <5> QED BY ONLY <5>1, ConcatProperties
      <4> QED BY <3>1, <3>2, <3>3, <4>1
    <3>5. ASSUME NEW i \in 1..(n - 1)
          PROVE  c[i] = IF i < m THEN s[i] ELSE s[i + 1]
      <4>1. CASE i < m
        BY <2>2, <3>1, <3>4, <4>1
      <4>2. CASE ~(i < m)
        <5>1. i - (m - 1) \in 1..(n - m) /\ m + (i - (m - 1)) = i + 1
          BY <2>2, <4>2
        <5>2. c[i] = b[i - (m - 1)]
          BY <2>2, <3>4, <4>2
        <5> QED BY <3>2, <4>2, <5>1, <5>2
      <4> QED BY <4>1, <4>2
    <3> QED BY <2>2, <3>4, <3>5
  <2> HIDE DEF c
  <2>4. ASSUME NEW i
        PROVE  i \in T <=> i \in 1..(n - 1) /\ (IF i < m THEN s[i] ELSE s[i + 1]) = j
    BY <2>3 DEF Positions
  <2>5. ASSUME NEW i
        PROVE  i \in P <=> i \in 1..n /\ i # m /\ s[i] = j
    BY DEF Positions
  <2> HIDE DEF P, T
  <2>6. f \in [P -> T] /\ \A i \in P : f[i] = IF i < m THEN i ELSE i - 1
    <3>1. ASSUME NEW i \in P
          PROVE  (IF i < m THEN i ELSE i - 1) \in T
      <4>0. i \in 1..n /\ i # m /\ s[i] = j
        BY <2>5
      <4>1. CASE i < m
        <5>1. i \in 1..(n - 1)
          BY <2>2, <4>0, <4>1
        <5> QED BY <2>4, <4>0, <4>1, <5>1
      <4>2. CASE ~(i < m)
        <5>1. i - 1 \in 1..(n - 1) /\ ~(i - 1 < m) /\ (i - 1) + 1 = i
          BY <2>2, <4>0, <4>2
        <5> QED BY <2>4, <4>0, <4>2, <5>1
      <4> QED BY <4>1, <4>2
    <3> QED BY <3>1
  <2> HIDE DEF f
  <2>7. \A x, y \in P : f[x] = f[y] => x = y
    BY <2>2, <2>5, <2>6
  <2>8. \A t \in T : \E x \in P : f[x] = t
    <3> TAKE t \in T
    <3>1. t \in 1..(n - 1) /\ (IF t < m THEN s[t] ELSE s[t + 1]) = j
      BY <2>4
    <3>2. CASE t < m
      <4>1. t \in P
        BY <2>2, <2>5, <3>1, <3>2
      <4>2. f[t] = t
        BY <2>6, <3>2, <4>1
      <4> QED BY <4>1, <4>2
    <3>3. CASE ~(t < m)
      <4>1. t + 1 \in P
        BY <2>2, <2>5, <3>1, <3>3
      <4>2. f[t + 1] = t
        BY <2>2, <2>6, <3>1, <3>3, <4>1
      <4> QED BY <4>1, <4>2
    <3> QED BY <3>2, <3>3
  <2>9. IsFiniteSet(Positions(s, j)) /\ IsFiniteSet(P)
    BY CopiesType, FS_RemoveElement DEF P
  <2>10. Cardinality(T) = Cardinality(P)
    BY <2>6, <2>7, <2>8, <2>9, SameCopies
  <2>11. Cardinality(P) = IF m \in Positions(s, j) THEN Copies(s, j) - 1 ELSE Copies(s, j)
    BY <2>9, FS_RemoveElement DEF P, Copies
  <2>12. m \in Positions(s, j) <=> e = j
    BY <2>2 DEF Positions
  <2>13. e = j => Copies(s, j) > 0
    BY <1>0, <1>2
  <2>14. Copies(WithoutOne(s, e), j) = Cardinality(T)
    BY <1>2 DEF Copies, WithoutOne, T, c, m
  <2> QED BY <2>10, <2>11, <2>12, <2>13, <2>14
<1> QED BY <1>1, <1>2

-------------------------------------------------------------------------------
(***************************************************************************)
(* What a step does to the copies of every job.                            *)
(***************************************************************************)
USE BrokerAssumption, WorkerAssumption, ReclaimAssumption

Of(p) == {j \in Jobs : PriorityOf[j] = p}

Sorted ==
  \A p \in Priorities :
    /\ queue[p] \in Seq(Of(p))
    /\ \A w \in Workers : processing[w][p] \in Seq(Of(p))

Queued(j) == Copies(queue[PriorityOf[j]], j)
Listed(w, j) == Copies(processing[w][PriorityOf[j]], j)

One(b) == IF b THEN 1 ELSE 0

Same == \A k \in Jobs : Queued(k)' = Queued(k) /\ \A v \in Workers : Listed(v, k)' = Listed(v, k)

Taken(w, j) ==
  \A k \in Jobs : /\ Queued(k)' = Queued(k) - One(k = j)
                  /\ \A v \in Workers : Listed(v, k)' = Listed(v, k) + One(v = w /\ k = j)

Removed(w, j) ==
  \A k \in Jobs : /\ Queued(k)' = Queued(k)
                  /\ \A v \in Workers :
                       Listed(v, k)' = Listed(v, k) - One(v = w /\ k = j /\ Listed(v, k) > 0)

Pushed(j) ==
  \A k \in Jobs : /\ Queued(k)' = Queued(k) + One(k = j)
                  /\ \A v \in Workers : Listed(v, k)' = Listed(v, k)

LEMMA CountTypes ==
  ASSUME Sorted, NEW j \in Jobs
  PROVE  /\ Queued(j) \in Nat
         /\ \A w \in Workers : Listed(w, j) \in Nat
<1>1. PriorityOf[j] \in Priorities
  OBVIOUS
<1>2. /\ queue[PriorityOf[j]] \in Seq(Of(PriorityOf[j]))
      /\ \A w \in Workers : processing[w][PriorityOf[j]] \in Seq(Of(PriorityOf[j]))
  BY <1>1 DEF Sorted
<1> QED BY <1>2, CopiesType DEF Queued, Listed

LEMMA CountTypesNext ==
  ASSUME Sorted', NEW j \in Jobs
  PROVE  /\ Queued(j)' \in Nat
         /\ \A w \in Workers : Listed(w, j)' \in Nat
<1>1. PriorityOf[j] \in Priorities
  OBVIOUS
<1>2. /\ queue'[PriorityOf[j]] \in Seq(Of(PriorityOf[j]))
      /\ \A w \in Workers : processing'[w][PriorityOf[j]] \in Seq(Of(PriorityOf[j]))
  BY <1>1 DEF Sorted
<1> QED BY <1>2, CopiesType DEF Queued, Listed

LEMMA SameLists ==
  ASSUME Sorted, UNCHANGED listVars
  PROVE  Sorted' /\ Same
BY DEF Sorted, listVars, Same, Queued, Listed

\* LMOVE takes the right end of a queue to a worker's list.
LEMMA MoveLists ==
  ASSUME BrokerTypeOK, Sorted, NEW w \in Workers, NEW p \in Priorities, queue[p] # <<>>, LMove(w, p)
  PROVE  /\ Sorted'
         /\ Last(queue[p]) \in Jobs /\ PriorityOf[Last(queue[p])] = p
         /\ Queued(Last(queue[p])) > 0
         /\ Taken(w, Last(queue[p]))
<1> DEFINE e == Last(queue[p])
           a == queue[p]
           b == processing[w][p]
<1>1. a \in Seq(Of(p)) /\ b \in Seq(Of(p)) /\ a # <<>>
  BY DEF Sorted
<1>2. e \in Of(p) /\ Front(a) \in Seq(Of(p))
  BY <1>1, TakeType
<1>3. Cons(e, b) \in Seq(Of(p))
  BY <1>1, <1>2, ConsType
<1>4. \A q \in Priorities : queue'[q] = IF q = p THEN Front(a) ELSE queue[q]
  BY DEF LMove, BrokerTypeOK
<1>5. \A v \in Workers, q \in Priorities :
        processing'[v][q] = IF v = w /\ q = p THEN Cons(e, b) ELSE processing[v][q]
  BY DEF LMove, BrokerTypeOK
<1>6. \A k : /\ Copies(Front(a), k) = Copies(a, k) - (IF e = k THEN 1 ELSE 0)
             /\ Copies(Cons(e, b), k) = Copies(b, k) + (IF e = k THEN 1 ELSE 0)
             /\ Copies(a, k) \in Nat /\ Copies(b, k) \in Nat /\ Copies(Front(a), k) \in Nat
  BY <1>1, <1>2, FrontCopies, ConsCopies, CopiesType
<1>7. e \in Jobs /\ PriorityOf[e] = p
  BY <1>2 DEF Of
<1> HIDE DEF e
<1>8. Sorted'
  BY <1>2, <1>3, <1>4, <1>5 DEF Sorted
<1>9. Taken(w, e)
  <2> SUFFICES ASSUME NEW k \in Jobs
               PROVE  /\ Queued(k)' = Queued(k) - One(k = e)
                      /\ \A v \in Workers : Listed(v, k)' = Listed(v, k) + One(v = w /\ k = e)
    BY DEF Taken
  <2>0. Queued(k) \in Nat /\ \A v \in Workers : Listed(v, k) \in Nat
    BY CountTypes
  <2>1. CASE PriorityOf[k] = p
    <3>1. Queued(k)' = Copies(Front(a), k) /\ Queued(k) = Copies(a, k)
      BY <1>4, <2>1 DEF Queued
    <3>2. ASSUME NEW v \in Workers, v # w
          PROVE  Listed(v, k)' = Listed(v, k)
      BY <1>5, <2>1, <3>2 DEF Listed
    <3>3. Listed(w, k)' = Copies(Cons(e, b), k) /\ Listed(w, k) = Copies(b, k)
      BY <1>5, <2>1 DEF Listed
    <3> QED BY <1>6, <2>0, <3>1, <3>2, <3>3 DEF One
  <2>2. CASE PriorityOf[k] # p
    <3>1. Queued(k)' = Queued(k) /\ \A v \in Workers : Listed(v, k)' = Listed(v, k)
      BY <1>4, <1>5, <2>2 DEF Queued, Listed
    <3> QED BY <1>7, <2>0, <2>2, <3>1 DEF One
  <2> QED BY <2>1, <2>2
<1>10. Queued(e) > 0
  <2>1. Queued(e) = Copies(a, e)
    BY <1>7 DEF Queued
  <2> QED BY <1>6, <2>1
<1> QED BY <1>7, <1>8, <1>9, <1>10 DEF e

\* One list of a worker changes: to c, with one copy of e less.
LEMMA LessLists ==
  ASSUME BrokerTypeOK, Sorted, NEW w \in Workers, NEW p \in Priorities, NEW e \in Of(p),
         NEW c \in Seq(Of(p)), queue' = queue,
         processing' = [processing EXCEPT ![w][p] = c],
         \A k \in Jobs : Copies(c, k) = IF e = k /\ Copies(processing[w][p], k) > 0
                                        THEN Copies(processing[w][p], k) - 1
                                        ELSE Copies(processing[w][p], k)
  PROVE  Sorted' /\ Removed(w, e)
<1>1. \A v \in Workers, q \in Priorities :
        processing'[v][q] = IF v = w /\ q = p THEN c ELSE processing[v][q]
  BY DEF BrokerTypeOK
<1>2. Sorted'
  BY <1>1 DEF Sorted
<1>3. Removed(w, e)
  <2> SUFFICES ASSUME NEW k \in Jobs
               PROVE  /\ Queued(k)' = Queued(k)
                      /\ \A v \in Workers :
                           Listed(v, k)' = Listed(v, k) - One(v = w /\ k = e /\ Listed(v, k) > 0)
    BY DEF Removed
  <2>0. Queued(k)' = Queued(k) /\ \A v \in Workers : Listed(v, k) \in Nat
    BY CountTypes DEF Queued
  <2>1. CASE PriorityOf[k] = p
    <3>1. \A v \in Workers : v # w => Listed(v, k)' = Listed(v, k)
      BY <1>1, <2>1 DEF Listed
    <3>2. Listed(w, k)' = Copies(c, k) /\ Listed(w, k) = Copies(processing[w][p], k)
      BY <1>1, <2>1 DEF Listed
    <3> QED BY <2>0, <3>1, <3>2 DEF One
  <2>2. CASE PriorityOf[k] # p
    <3>1. k # e
      BY <2>2 DEF Of
    <3>2. \A v \in Workers : Listed(v, k)' = Listed(v, k)
      BY <1>1, <2>2 DEF Listed
    <3> QED BY <2>0, <3>1, <3>2 DEF One
  <2> QED BY <2>1, <2>2
<1> QED BY <1>2, <1>3

LEMMA RemLists ==
  ASSUME BrokerTypeOK, Sorted, NEW w \in Workers, NEW e \in Jobs, queue' = queue, LRem(w, e)
  PROVE  Sorted' /\ Removed(w, e)
<1> DEFINE p == PriorityOf[e]
           a == processing[w][p]
<1>1. p \in Priorities /\ e \in Of(p) /\ a \in Seq(Of(p))
  BY DEF Of, Sorted
<1>2. WithoutOne(a, e) \in Seq(Of(p))
  BY <1>1, RemoveType DEF WithoutOne
<1>3. processing' = [processing EXCEPT ![w][p] = WithoutOne(a, e)]
  BY DEF LRem, WithoutOne
<1>4. \A k \in Jobs : Copies(WithoutOne(a, e), k) = IF e = k /\ Copies(a, k) > 0
                                                THEN Copies(a, k) - 1 ELSE Copies(a, k)
  BY <1>1, RemoveCopies
<1> QED BY <1>1, <1>2, <1>3, <1>4, LessLists

LEMMA PopLists ==
  ASSUME BrokerTypeOK, Sorted, NEW w \in Workers, NEW p \in Priorities, processing[w][p] # <<>>,
         queue' = queue, RPop(w, p)
  PROVE  /\ Sorted'
         /\ Last(processing[w][p]) \in Jobs /\ PriorityOf[Last(processing[w][p])] = p
         /\ Listed(w, Last(processing[w][p])) > 0
         /\ Removed(w, Last(processing[w][p]))
<1> DEFINE a == processing[w][p]
           e == Last(a)
<1>1. a \in Seq(Of(p)) /\ a # <<>>
  BY DEF Sorted
<1>2. e \in Of(p) /\ Front(a) \in Seq(Of(p))
  BY <1>1, TakeType
<1>3. processing' = [processing EXCEPT ![w][p] = Front(a)]
  BY DEF RPop
<1>4. \A k \in Jobs : /\ Copies(Front(a), k) = Copies(a, k) - (IF e = k THEN 1 ELSE 0)
                      /\ Copies(a, k) \in Nat /\ Copies(Front(a), k) \in Nat
  BY <1>1, <1>2, FrontCopies, CopiesType
<1>5. e \in Jobs /\ PriorityOf[e] = p
  BY <1>2 DEF Of
<1>6. Listed(w, e) > 0
  BY <1>4, <1>5 DEF Listed
<1>7. \A k \in Jobs : Copies(Front(a), k) = IF e = k /\ Copies(a, k) > 0
                                            THEN Copies(a, k) - 1 ELSE Copies(a, k)
  BY <1>4
<1>8. Sorted' /\ Removed(w, e)
  BY <1>2, <1>3, <1>7, LessLists
<1> QED BY <1>5, <1>6, <1>8

\* One queue grows by a job of its priority.
LEMMA MoreLists ==
  ASSUME BrokerTypeOK, Sorted, NEW e \in Jobs, NEW c \in Seq(Of(PriorityOf[e])),
         processing' = processing, queue' = [queue EXCEPT ![PriorityOf[e]] = c],
         \A k \in Jobs : Copies(c, k) = Copies(queue[PriorityOf[e]], k) + (IF e = k THEN 1 ELSE 0)
  PROVE  Sorted' /\ Pushed(e)
<1>1. \A q \in Priorities : queue'[q] = IF q = PriorityOf[e] THEN c ELSE queue[q]
  BY DEF BrokerTypeOK
<1>2. Sorted'
  BY <1>1 DEF Sorted
<1>3. Pushed(e)
  <2> SUFFICES ASSUME NEW k \in Jobs
               PROVE  /\ Queued(k)' = Queued(k) + One(k = e)
                      /\ \A v \in Workers : Listed(v, k)' = Listed(v, k)
    BY DEF Pushed
  <2>0. Queued(k) \in Nat /\ \A v \in Workers : Listed(v, k)' = Listed(v, k)
    BY CountTypes DEF Listed
  <2>1. CASE PriorityOf[k] = PriorityOf[e]
    BY <1>1, <2>0, <2>1 DEF Queued, One
  <2>2. CASE PriorityOf[k] # PriorityOf[e]
    BY <1>1, <2>0, <2>2 DEF Queued, One
  <2> QED BY <2>1, <2>2
<1> QED BY <1>2, <1>3

LEMMA PushLists ==
  ASSUME BrokerTypeOK, Sorted, NEW e \in Jobs, processing' = processing, RPush(PriorityOf[e], e)
  PROVE  Sorted' /\ Pushed(e)
<1> DEFINE a == queue[PriorityOf[e]]
<1>1. a \in Seq(Of(PriorityOf[e])) /\ e \in Of(PriorityOf[e])
  BY DEF Sorted, Of
<1>2. Append(a, e) \in Seq(Of(PriorityOf[e]))
  BY <1>1, AppendProperties
<1>3. \A k \in Jobs : Copies(Append(a, e), k) = Copies(a, k) + (IF e = k THEN 1 ELSE 0)
  BY <1>1, AppendCopies
<1>4. queue' = [queue EXCEPT ![PriorityOf[e]] = Append(a, e)]
  BY DEF RPush
<1> QED BY <1>2, <1>3, <1>4, MoreLists

LEMMA DispatchLists ==
  ASSUME BrokerTypeOK, Sorted, NEW e \in Jobs, Dispatch(e)
  PROVE  Sorted' /\ Pushed(e)
<1> DEFINE a == queue[PriorityOf[e]]
<1>1. a \in Seq(Of(PriorityOf[e])) /\ e \in Of(PriorityOf[e])
  BY DEF Sorted, Of
<1>2. Cons(e, a) \in Seq(Of(PriorityOf[e]))
  BY <1>1, ConsType
<1>3. \A k \in Jobs : Copies(Cons(e, a), k) = Copies(a, k) + (IF e = k THEN 1 ELSE 0)
  BY <1>1, ConsCopies
<1>4. queue' = [queue EXCEPT ![PriorityOf[e]] = Cons(e, a)] /\ processing' = processing
  BY DEF Dispatch
<1> QED BY <1>2, <1>3, <1>4, MoreLists

-------------------------------------------------------------------------------
(***************************************************************************)
(* The kinds of steps, by what they do to lists, goroutines and sweeps.    *)
(***************************************************************************)
Others(w, s) == \A v \in Workers, r \in Slots : v # w \/ r # s => task'[v][r] = task[v][r]

TakesJob(w, s, j) ==
  /\ Works(w) /\ Queued(j) > 0 /\ Taken(w, j)
  /\ task[w][s].pc = "free"
  /\ task'[w][s].job = j
  /\ task'[w][s].pc = IF j \in Malformed THEN "purge" ELSE "claim"

DropsJob(w, s) ==
  /\ task[w][s].pc \in {"purge", "ack"} /\ task[w][s].job \in Jobs
  /\ Removed(w, task[w][s].job) /\ task'[w][s] = Free

KeepsJob(w, s) ==
  /\ task[w][s].pc \notin {"free", "purge", "ack"} /\ task[w][s].job \in Jobs
  /\ Same /\ task'[w][s].job = task[w][s].job
  /\ task'[w][s].pc \notin {"free", "purge", "claim"}

LeavesJob(w, s) == Same /\ task[w][s].pc # "free" /\ task'[w][s] = Free

\* An LREM sent again takes one of several entries.
Strikes(w, s) ==
  /\ task[w][s].pc \in {"purge", "ack"} /\ task[w][s].job \in Jobs
  /\ ResendLimit > 0 /\ Listed(w, task[w][s].job) > 1
  /\ Removed(w, task[w][s].job) /\ task' = task

LEMMA BecomeEffect ==
  ASSUME WorkTypeOK, NEW w \in Workers, NEW s \in Slots, NEW t, Become(w, s, t)
  PROVE  task'[w][s] = t /\ Others(w, s)
BY DEF WorkTypeOK, Become, Others

LEMMA TaskEffect ==
  ASSUME TypeInv, Sorted, NEW w \in Workers, NEW s \in Slots, TaskStep(w, s), UNCHANGED reclaimVars
  PROVE  /\ Sorted' /\ UNCHANGED <<status, beat, sweep, lost, dispatched>>
         /\ Others(w, s)
         /\ \/ \E j \in Jobs : TakesJob(w, s, j)
            \/ DropsJob(w, s)
            \/ KeepsJob(w, s)
            \/ LeavesJob(w, s)
            \/ Strikes(w, s)
<1>0. /\ BrokerTypeOK /\ WorkTypeOK /\ TaskShape /\ task[w][s] \in Task
      /\ task[w][s].pc # "free" => task[w][s].job \in Jobs
      /\ UNCHANGED <<sweep, released, lost>>
  BY DEF TypeInv, TypeOK, WorkTypeOK, TaskShape, reclaimVars
<1>1. CASE Checkout(w, s)
  <2> DEFINE p == at[w]
             j == Last(queue[p])
             t == [Free EXCEPT !.pc = IF j \in Malformed THEN "purge" ELSE "claim", !.job = j]
  <2>1. /\ p \in Priorities /\ queue[p] # <<>> /\ LMove(w, p) /\ Become(w, s, t)
        /\ task[w][s].pc = "free" /\ Works(w)
        /\ UNCHANGED <<status, beat, dispatched>>
    BY <1>0, <1>1 DEF Checkout, WorkTypeOK, fleetVars, apiVars
  <2>2. Sorted' /\ j \in Jobs /\ Queued(j) > 0 /\ Taken(w, j)
    BY <1>0, <2>1, MoveLists
  <2>3. task'[w][s] = t /\ Others(w, s)
    BY <1>0, <2>1, BecomeEffect
  <2> HIDE DEF j
  <2>4. t.job = j /\ t.pc = IF j \in Malformed THEN "purge" ELSE "claim"
    BY DEF Free
  <2> HIDE DEF t
  <2>5. TakesJob(w, s, j)
    BY <2>1, <2>2, <2>3, <2>4 DEF TakesJob
  <2> QED BY <1>0, <2>1, <2>2, <2>3, <2>5
<1>2. ASSUME task[w][s].pc \in {"purge", "ack"}, LRem(w, task[w][s].job), Leave(w, s),
             UNCHANGED <<fleetVars, queue, apiVars>>
      PROVE  Sorted' /\ UNCHANGED <<status, beat, dispatched>> /\ Others(w, s) /\ DropsJob(w, s)
  <2>1. task[w][s].job \in Jobs
    BY <1>0, <1>2
  <2>2. Sorted' /\ Removed(w, task[w][s].job)
    BY <1>0, <1>2, <2>1, RemLists
  <2>3. task'[w][s] = Free /\ Others(w, s)
    BY <1>0, <1>2, BecomeEffect DEF Leave
  <2> QED BY <1>2, <2>1, <2>2, <2>3 DEF DropsJob, fleetVars, apiVars
<1>3. ASSUME task[w][s].pc # "free", Leave(w, s), UNCHANGED <<fleetVars, listVars, dispatched>>
      PROVE  Sorted' /\ UNCHANGED <<status, beat, dispatched>> /\ Others(w, s) /\ LeavesJob(w, s)
  <2>1. Sorted' /\ Same
    BY <1>3, SameLists
  <2>2. task'[w][s] = Free /\ Others(w, s)
    BY <1>0, <1>3, BecomeEffect DEF Leave
  <2> QED BY <1>3, <2>1, <2>2 DEF LeavesJob, fleetVars
<1>4. ASSUME task[w][s].pc \notin {"free", "purge", "ack"}, NEW t, Become(w, s, t),
             t.job = task[w][s].job, t.pc \notin {"free", "purge", "claim"},
             UNCHANGED <<fleetVars, listVars, dispatched>>
      PROVE  Sorted' /\ UNCHANGED <<status, beat, dispatched>> /\ Others(w, s) /\ KeepsJob(w, s)
  <2>1. Sorted' /\ Same
    BY <1>4, SameLists
  <2>2. task'[w][s] = t /\ Others(w, s)
    BY <1>0, <1>4, BecomeEffect
  <2> QED BY <1>0, <1>4, <2>1, <2>2 DEF KeepsJob, fleetVars
<1>5. CASE Purge(w, s)
  <2>1. CASE LRem(w, task[w][s].job)
    BY <1>0, <1>2, <1>5, <2>1 DEF Purge
  <2>2. CASE UNCHANGED processing
    BY <1>0, <1>3, <1>5, <2>2 DEF Purge, listVars, apiVars
  <2> QED BY <1>5, <2>1, <2>2 DEF Purge
<1>6. CASE Claim(w, s)
  <2> DEFINE t1 == [task[w][s] EXCEPT !.pc = "mark", !.verdict = "failed", !.part = 1, !.total = 1]
             t2 == [task[w][s] EXCEPT !.pc = "run"]
  <2>1. t1.job = task[w][s].job /\ t1.pc = "mark" /\ t2.job = task[w][s].job /\ t2.pc = "run"
    BY <1>0 DEF Task
  <2>2. /\ Become(w, s, t1) \/ Become(w, s, t2)
        /\ task[w][s].pc = "claim" /\ UNCHANGED <<fleetVars, listVars, dispatched>>
    BY <1>6 DEF Claim, apiVars
  <2> HIDE DEF t1, t2
  <2> QED BY <1>0, <1>4, <2>1, <2>2
<1>7. CASE ClaimDuplicate(w, s)
  <2> DEFINE t == [task[w][s] EXCEPT !.pc = "ack", !.verdict = "duplicate"]
  <2>1. t.job = task[w][s].job /\ t.pc = "ack"
    BY <1>0 DEF Task
  <2>2. Become(w, s, t) /\ task[w][s].pc = "claim" /\ UNCHANGED <<fleetVars, listVars, dispatched>>
    BY <1>7 DEF ClaimDuplicate, apiVars
  <2> HIDE DEF t
  <2> QED BY <1>0, <1>4, <2>1, <2>2
<1>8. CASE CancelJob(w, s)
  <2> DEFINE t == [task[w][s] EXCEPT !.cancelled = TRUE]
  <2>1. t.job = task[w][s].job /\ t.pc = task[w][s].pc
    BY <1>0 DEF Task
  <2>2. Become(w, s, t) /\ task[w][s].pc = "run" /\ UNCHANGED <<fleetVars, listVars, dispatched>>
    BY <1>8 DEF CancelJob, apiVars
  <2> HIDE DEF t
  <2> QED BY <1>0, <1>4, <2>1, <2>2
<1>9. CASE RunReturns(w, s)
  <2>1. PICK v, n :
          Become(w, s, [task[w][s] EXCEPT !.pc = "mark", !.verdict = v, !.part = 1, !.total = n])
    BY <1>9 DEF RunReturns
  <2> DEFINE t == [task[w][s] EXCEPT !.pc = "mark", !.verdict = v, !.part = 1, !.total = n]
  <2>2. t.job = task[w][s].job /\ t.pc = "mark"
    BY <1>0 DEF Task
  <2>3. Become(w, s, t) /\ task[w][s].pc = "run" /\ UNCHANGED <<fleetVars, listVars, dispatched>>
    BY <1>9, <2>1 DEF RunReturns, apiVars
  <2> HIDE DEF t
  <2> QED BY <1>0, <1>4, <2>2, <2>3
<1>10. CASE MarkPublished(w, s)
  <2> DEFINE t == [task[w][s] EXCEPT !.pc = "publish"]
  <2>1. t.job = task[w][s].job /\ t.pc = "publish"
    BY <1>0 DEF Task
  <2>2. Become(w, s, t) /\ task[w][s].pc = "mark" /\ UNCHANGED <<fleetVars, listVars, dispatched>>
    BY <1>10 DEF MarkPublished, apiVars
  <2> HIDE DEF t
  <2> QED BY <1>0, <1>4, <2>1, <2>2
<1>11. CASE Publish(w, s)
  <2> DEFINE t1 == [task[w][s] EXCEPT !.pc = "ack"]
             n == task[w][s].part + 1
             t2 == [task[w][s] EXCEPT !.pc = "mark", !.part = n]
  <2>1. t1.job = task[w][s].job /\ t1.pc = "ack"
    BY <1>0 DEF Task
  <2>2. /\ Become(w, s, t1) \/ Become(w, s, t2)
        /\ task[w][s].pc = "publish" /\ UNCHANGED <<fleetVars, listVars, dispatched>>
    BY <1>11 DEF Publish
  <2> HIDE DEF n
  <2>3. t2.job = task[w][s].job /\ t2.pc = "mark"
    BY <1>0 DEF Task
  <2> HIDE DEF t1, t2
  <2> QED BY <1>0, <1>4, <2>1, <2>2, <2>3
<1>12. CASE ClaimError(w, s) \/ MarkOutage(w, s) \/ PublishError(w, s) \/ AckError(w, s)
  <2>1. task[w][s].pc # "free" /\ Leave(w, s) /\ UNCHANGED <<fleetVars, listVars, dispatched>>
    BY <1>12 DEF ClaimError, MarkOutage, PublishError, AckError, apiVars
  <2> QED BY <1>0, <1>3, <2>1
<1>13. CASE Ack(w, s)
  BY <1>0, <1>2, <1>13 DEF Ack
<1>14. CASE ClaimResent(w, s)
  <2> DEFINE t == [task[w][s] EXCEPT !.pc = "ack", !.verdict = "duplicate"]
  <2>1. t.job = task[w][s].job /\ t.pc = "ack"
    BY <1>0 DEF Task
  <2>2. Become(w, s, t) /\ task[w][s].pc = "claim" /\ UNCHANGED <<fleetVars, listVars, dispatched>>
    BY <1>14 DEF ClaimResent, apiVars
  <2> HIDE DEF t
  <2> QED BY <1>0, <1>4, <2>1, <2>2
<1>15. CASE RemoveResent(w, s)
  <2> DEFINE j == task[w][s].job
  <2>1. /\ task[w][s].pc \in {"purge", "ack"} /\ ResendLimit > 0
        /\ Cardinality(Positions(processing[w][PriorityOf[j]], j)) > 1
        /\ LRem(w, j) /\ queue' = queue /\ UNCHANGED <<status, beat, dispatched, task>>
    BY <1>15 DEF RemoveResent, Resends, fleetVars, apiVars, workVars
  <2>2. j \in Jobs /\ Listed(w, j) > 1
    BY <1>0, <2>1 DEF Listed, Copies
  <2>3. Sorted' /\ Removed(w, j)
    BY <1>0, <2>1, <2>2, RemLists
  <2>4. Strikes(w, s) /\ Others(w, s)
    BY <2>1, <2>2, <2>3 DEF Strikes, Others
  <2> QED BY <1>0, <2>1, <2>3, <2>4
<1> QED BY <1>1, <1>5, <1>6, <1>7, <1>8, <1>9, <1>10, <1>11, <1>12, <1>13, <1>14, <1>15 DEF TaskStep

(***************************************************************************)
(* Sweeps.                                                                 *)
(***************************************************************************)
HandPCs == {"count", "marker", "release", "push", "fail"}

OtherSweeps(w) == \A v \in Workers : v # w => sweep'[v] = sweep[v]

\* The sweep of w keeps its job in hand, its lists and what it has handled.
Grips(w) ==
  /\ sweep[w].pc \in HandPCs /\ sweep'[w].pc \in HandPCs
  /\ sweep'[w].hand = sweep[w].hand /\ sweep'[w].keys = sweep[w].keys
  /\ sweep'[w].handled = sweep[w].handled

\* It puts the job down.
LetsGo(w) ==
  /\ sweep[w].pc \in HandPCs /\ sweep'[w].pc = "drain"
  /\ sweep'[w].hand = NoJob /\ sweep'[w].keys = sweep[w].keys
  /\ sweep'[w].handled = sweep[w].handled

\* It ends, or goes to the next list.
Ends(w) == sweep[w].pc \in {"scan", "drain"} /\ sweep'[w] = Idle

Advances(w) ==
  /\ sweep[w].pc = "drain" /\ sweep'[w].pc = "drain"
  /\ sweep'[w].hand = sweep[w].hand /\ sweep'[w].keys = Tail(sweep[w].keys)
  /\ sweep'[w].handled = sweep[w].handled

Looks(w) ==
  /\ Works(w) /\ sweep[w].pc = "idle" /\ sweep'[w].pc = "scan"
  /\ sweep'[w].hand = NoJob /\ sweep'[w].keys = <<>> /\ sweep'[w].handled = {}
  /\ sweep'[w].live = {v \in Workers : beat[v]} \cup {w}

Opens(w) ==
  /\ sweep[w].pc = "scan" /\ sweep'[w].pc = "drain"
  /\ sweep'[w].hand = NoJob /\ sweep'[w].keys # <<>> /\ sweep'[w].handled = {}
  /\ sweep'[w].keys \in Seq(OrphanKeys(sweep[w].live))

\* A copy of j leaves the list the sweep has open.
PopsOff(w, j) ==
  /\ sweep[w].pc = "drain"
  /\ Head(sweep[w].keys) \in Workers \X Priorities
  /\ PriorityOf[j] = Head(sweep[w].keys)[2]
  /\ Listed(Head(sweep[w].keys)[1], j) > 0
  /\ Removed(Head(sweep[w].keys)[1], j)

PicksUp(w, j) ==
  /\ j \notin Malformed \cup sweep[w].handled
  /\ sweep'[w].pc = "count" /\ sweep'[w].hand = j /\ sweep'[w].keys = sweep[w].keys
  /\ sweep'[w].handled = sweep[w].handled \cup {j}

LEMMA ProceedEffect ==
  ASSUME ReclaimTypeOK, NEW w \in Workers, NEW r, Proceed(w, r)
  PROVE  sweep'[w] = r /\ OtherSweeps(w)
BY DEF ReclaimTypeOK, Proceed, OtherSweeps

LEMMA SweepMoves ==
  ASSUME TypeInv, NEW w \in Workers
  PROVE  /\ sweep[w].pc \in {"scan", "drain"} /\ Stop(w) => Ends(w) /\ OtherSweeps(w)
         /\ sweep[w].pc = "drain" /\ NextList(w) => (Ends(w) \/ Advances(w)) /\ OtherSweeps(w)
         /\ sweep[w].pc \in HandPCs /\ Continue(w) => LetsGo(w) /\ OtherSweeps(w)
         /\ sweep[w].pc \in HandPCs /\ ToFail(w) => Grips(w) /\ OtherSweeps(w)
<1>0. ReclaimTypeOK /\ sweep[w] \in Sweep
  BY DEF TypeInv, TypeOK, ReclaimTypeOK
<1>1. ASSUME sweep[w].pc \in {"scan", "drain"}, Stop(w)
      PROVE  Ends(w) /\ OtherSweeps(w)
  BY <1>0, <1>1, ProceedEffect DEF Stop, Ends
<1>2. ASSUME sweep[w].pc = "drain", NextList(w)
      PROVE  (Ends(w) \/ Advances(w)) /\ OtherSweeps(w)
  <2> DEFINE ks == Tail(sweep[w].keys)
             r == [sweep[w] EXCEPT !.keys = ks]
  <2>1. CASE Stop(w)
    BY <1>1, <1>2, <2>1
  <2>2. CASE Proceed(w, r)
    <3> HIDE DEF ks
    <3>1. r.pc = "drain" /\ r.hand = sweep[w].hand /\ r.keys = ks /\ r.handled = sweep[w].handled
      BY <1>0, <1>2 DEF Sweep
    <3> HIDE DEF r
    <3>2. sweep'[w] = r /\ OtherSweeps(w)
      BY <1>0, <2>2, ProceedEffect
    <3> QED BY <1>2, <3>1, <3>2 DEF Advances, ks
  <2> QED BY <1>2, <2>1, <2>2 DEF NextList
<1>3. ASSUME sweep[w].pc \in HandPCs, Continue(w)
      PROVE  LetsGo(w) /\ OtherSweeps(w)
  <2> DEFINE r == [sweep[w] EXCEPT !.pc = "drain", !.hand = NoJob, !.attempts = 0, !.sent = 0]
  <2>1. r.pc = "drain" /\ r.hand = NoJob /\ r.keys = sweep[w].keys /\ r.handled = sweep[w].handled
    BY <1>0 DEF Sweep
  <2>2. sweep'[w] = r /\ OtherSweeps(w)
    BY <1>0, <1>3, ProceedEffect DEF Continue
  <2> HIDE DEF r
  <2> QED BY <1>3, <2>1, <2>2 DEF LetsGo
<1>4. ASSUME sweep[w].pc \in HandPCs, ToFail(w)
      PROVE  Grips(w) /\ OtherSweeps(w)
  <2> DEFINE r == [sweep[w] EXCEPT !.pc = "fail"]
  <2>1. r.pc = "fail" /\ r.hand = sweep[w].hand /\ r.keys = sweep[w].keys /\ r.handled = sweep[w].handled
    BY <1>0 DEF Sweep
  <2>2. sweep'[w] = r /\ OtherSweeps(w)
    BY <1>0, <1>4, ProceedEffect DEF ToFail
  <2> HIDE DEF r
  <2> QED BY <1>4, <2>1, <2>2 DEF Grips, HandPCs
<1> QED BY <1>1, <1>2, <1>3, <1>4

\* A job in hand came off the list that is open, and a sweep without one
\* holds nothing.
HandShape ==
  \A w \in Workers :
    /\ sweep[w].pc \in HandPCs => PriorityOf[sweep[w].hand] = Head(sweep[w].keys)[2]
    /\ sweep[w].pc \notin HandPCs => sweep[w].hand = NoJob

Quiet == UNCHANGED <<lost, outcomes>>

Rests(w) == Same /\ Quiet /\ (Ends(w) \/ Advances(w) \/ Looks(w) \/ Opens(w) \/ Grips(w))

Pops(w, j) ==
  /\ PopsOff(w, j)
  /\ outcomes' = outcomes
  /\ \/ lost' = lost /\ j \in Malformed \cup sweep[w].handled /\ sweep' = sweep
     \/ lost' = lost /\ PicksUp(w, j)
     \/ lost' = lost \cup {j} /\ (Ends(w) \/ Advances(w) \/ sweep' = sweep)

GivesUp(w) ==
  /\ Same /\ LetsGo(w)
  /\ \/ lost' = lost \cup {sweep[w].hand} /\ outcomes' = outcomes
     \/ lost' = lost /\ outcomes' = [outcomes EXCEPT ![sweep[w].hand] = @ \cup {"failed"}]

Requeues(w) == sweep[w].pc = "push" /\ Pushed(sweep[w].hand) /\ LetsGo(w) /\ Quiet

\* An RPUSH that will be sent again.
PushesOne(w) ==
  "twice" \in Faults /\ sweep[w].pc = "push" /\ Pushed(sweep[w].hand) /\ Grips(w) /\ Quiet

LEMMA OpenList ==
  ASSUME TypeInv, NEW w \in Workers, sweep[w].pc \in HandPCs \cup {"drain"}
  PROVE  /\ sweep[w].keys \in Seq(Workers \X Priorities) /\ sweep[w].keys # <<>>
         /\ Head(sweep[w].keys) \in Workers \X Priorities
         /\ sweep[w].pc \in HandPCs => sweep[w].hand \in Jobs
<1>1. sweep[w].keys \in Seq(Workers \X Priorities) /\ sweep[w].keys # <<>>
  BY DEF TypeInv, TypeOK, ReclaimTypeOK, SweepShape, Sweep, HandPCs
<1>2. Head(sweep[w].keys) \in Workers \X Priorities
  BY <1>1, HeadTailProperties
<1> QED BY <1>1, <1>2 DEF TypeInv, SweepShape, HandPCs

LEMMA SweepEffect ==
  ASSUME TypeInv, Sorted, HandShape, NEW w \in Workers, SweepStep(w), UNCHANGED workVars
  PROVE  /\ Sorted' /\ UNCHANGED <<status, beat, task, dispatched>>
         /\ OtherSweeps(w)
         /\ Rests(w) \/ (\E j \in Jobs : Pops(w, j)) \/ GivesUp(w) \/ Requeues(w) \/ PushesOne(w)
<1>0. /\ BrokerTypeOK /\ ReclaimTypeOK /\ sweep[w] \in Sweep /\ UNCHANGED task
  BY DEF TypeInv, TypeOK, ReclaimTypeOK, workVars
<1>1. UNCHANGED <<status, beat, dispatched>>
  BY DEF SweepStep, ReadLive, ScanKeys, ScanError, ListDrained, PopOrphan, PopOrphanError,
         PopOrphanLost, BumpReclaimCount, BumpError, HasPublished, HasPublishedError, Release,
         ReleaseResent, ReleaseError, Requeue, RequeueResent, RequeueError, Fail, FailError,
         fleetVars, apiVars
<1>2. ASSUME UNCHANGED <<listVars, apiVars, lost>>
      PROVE  Sorted' /\ Same /\ Quiet
  BY <1>2, SameLists DEF Quiet, apiVars
<1>3. CASE ReadLive(w)
  <2> DEFINE l == {v \in Workers : beat[v]} \cup {w}
             r == [Idle EXCEPT !.pc = "scan", !.live = l]
  <2>1. Proceed(w, r) /\ Works(w) /\ sweep[w].pc = "idle" /\ UNCHANGED <<listVars, apiVars, lost>>
    BY <1>3 DEF ReadLive
  <2> HIDE DEF l
  <2>2. r.pc = "scan" /\ r.hand = NoJob /\ r.keys = <<>> /\ r.handled = {} /\ r.live = l
    BY DEF Idle
  <2> HIDE DEF r
  <2>3. sweep'[w] = r /\ OtherSweeps(w)
    BY <1>0, <2>1, ProceedEffect
  <2>4. Looks(w)
    BY <2>1, <2>2, <2>3 DEF Looks, l
  <2> QED BY <1>0, <1>1, <1>2, <2>1, <2>3, <2>4 DEF Rests
<1>4. CASE ScanKeys(w)
  <2>1. PICK keys \in SetToSeqs(OrphanKeys(sweep[w].live)) :
          IF keys = <<>> THEN Stop(w)
          ELSE Proceed(w, [Idle EXCEPT !.pc = "drain", !.live = sweep[w].live, !.keys = keys])
    BY <1>4 DEF ScanKeys
  <2>2. sweep[w].pc = "scan" /\ UNCHANGED <<listVars, apiVars, lost>>
    BY <1>4 DEF ScanKeys
  <2>3. keys \in Seq(OrphanKeys(sweep[w].live))
    <3>1. OrphanKeys(sweep[w].live) \subseteq Workers \X Priorities
      BY DEF OrphanKeys
    <3>2. IsFiniteSet(Priorities)
      BY FS_Interval DEF Priorities
    <3>3. IsFiniteSet(Workers \X Priorities)
      BY <3>2, FS_Product
    <3>4. IsFiniteSet(OrphanKeys(sweep[w].live))
      BY <3>1, <3>3, FS_Subset
    <3> QED BY <3>4, SetToSeqsType
  <2>4. CASE keys = <<>>
    BY <1>0, <1>1, <1>2, <2>1, <2>2, <2>4, SweepMoves DEF Rests
  <2>5. CASE keys # <<>>
    <3> DEFINE l == sweep[w].live
               r == [Idle EXCEPT !.pc = "drain", !.live = l, !.keys = keys]
    <3>1. Proceed(w, r)
      BY <2>1, <2>5
    <3> HIDE DEF l
    <3>2. r.pc = "drain" /\ r.hand = NoJob /\ r.keys = keys /\ r.handled = {}
      BY DEF Idle
    <3> HIDE DEF r
    <3>3. sweep'[w] = r /\ OtherSweeps(w)
      BY <1>0, <3>1, ProceedEffect
    <3>4. Opens(w)
      BY <2>2, <2>3, <2>5, <3>2, <3>3 DEF Opens
    <3> QED BY <1>0, <1>1, <1>2, <2>2, <3>3, <3>4 DEF Rests
  <2> QED BY <2>4, <2>5
<1>5. CASE ScanError(w)
  BY <1>0, <1>1, <1>2, <1>5, SweepMoves DEF ScanError, Rests
<1>6. CASE ListDrained(w)
  BY <1>0, <1>1, <1>2, <1>6, SweepMoves DEF ListDrained, Rests
<1>p. ASSUME sweep[w].pc = "drain", LET k == Head(sweep[w].keys)
                                    IN  processing[k[1]][k[2]] # <<>> /\ RPop(k[1], k[2]),
             queue' = queue
      PROVE  LET k == Head(sweep[w].keys)
                 j == Last(processing[k[1]][k[2]])
             IN  Sorted' /\ j \in Jobs /\ PopsOff(w, j)
  <2> DEFINE k == Head(sweep[w].keys)
             j == Last(processing[k[1]][k[2]])
  <2>1. k \in Workers \X Priorities
    BY <1>p, OpenList
  <2>2. k[1] \in Workers /\ k[2] \in Priorities
    BY <2>1
  <2>3. /\ Sorted' /\ j \in Jobs /\ PriorityOf[j] = k[2]
        /\ Listed(k[1], j) > 0 /\ Removed(k[1], j)
    BY <1>0, <1>p, <2>2, PopLists
  <2> HIDE DEF j
  <2>4. PopsOff(w, j)
    BY <1>p, <2>1, <2>3 DEF PopsOff
  <2> QED BY <2>3, <2>4 DEF j
<1>7. CASE PopOrphan(w)
  <2> DEFINE k == Head(sweep[w].keys)
             j == Last(processing[k[1]][k[2]])
             h == sweep[w].handled \cup {j}
             r == [sweep[w] EXCEPT !.pc = "count", !.hand = j, !.handled = h]
  <2>1. /\ sweep[w].pc = "drain" /\ processing[k[1]][k[2]] # <<>> /\ RPop(k[1], k[2])
        /\ queue' = queue /\ outcomes' = outcomes /\ lost' = lost
        /\ IF j \in Malformed \cup sweep[w].handled THEN UNCHANGED sweep ELSE Proceed(w, r)
    BY <1>7 DEF PopOrphan, apiVars
  <2>2. Sorted' /\ j \in Jobs /\ PopsOff(w, j)
    BY <1>p, <2>1
  <2> HIDE DEF j
  <2>3. CASE j \in Malformed \cup sweep[w].handled
    <3>1. sweep' = sweep /\ OtherSweeps(w)
      BY <2>1, <2>3 DEF OtherSweeps
    <3> QED BY <1>0, <1>1, <2>1, <2>2, <2>3, <3>1 DEF Pops
  <2>4. CASE j \notin Malformed \cup sweep[w].handled
    <3> HIDE DEF h
    <3>1. r.pc = "count" /\ r.hand = j /\ r.keys = sweep[w].keys /\ r.handled = h
      BY <1>0 DEF Sweep
    <3>2. Proceed(w, r)
      BY <2>1, <2>4
    <3> HIDE DEF r
    <3>3. sweep'[w] = r /\ OtherSweeps(w)
      BY <1>0, <3>2, ProceedEffect
    <3>4. PicksUp(w, j)
      BY <2>4, <3>1, <3>3 DEF PicksUp, h
    <3> QED BY <1>0, <1>1, <2>1, <2>2, <3>3, <3>4 DEF Pops
  <2> QED BY <2>3, <2>4
<1>8. CASE PopOrphanError(w)
  <2>1. /\ sweep[w].pc = "drain" /\ UNCHANGED <<listVars, apiVars, lost>>
        /\ (IF status[w] = "draining" THEN Stop(w) ELSE NextList(w))
    BY <1>8 DEF PopOrphanError
  <2>2. (Ends(w) \/ Advances(w)) /\ OtherSweeps(w)
    BY <2>1, SweepMoves
  <2> QED BY <1>0, <1>1, <1>2, <2>1, <2>2 DEF Rests
<1>l. CASE PopOrphanLost(w)
  <2> DEFINE k == Head(sweep[w].keys)
             j == Last(processing[k[1]][k[2]])
  <2>1. /\ sweep[w].pc = "drain" /\ queue' = queue /\ outcomes' = outcomes
        /\ NextList(w) \/ UNCHANGED sweep
        /\ processing[k[1]][k[2]] # <<>> /\ RPop(k[1], k[2]) /\ lost' = lost \cup {j}
    BY <1>l DEF PopOrphanLost, apiVars
  <2>2. (Ends(w) \/ Advances(w) \/ sweep' = sweep) /\ OtherSweeps(w)
    BY <2>1, SweepMoves DEF OtherSweeps
  <2>3. Sorted' /\ j \in Jobs /\ PopsOff(w, j)
    BY <1>p, <2>1
  <2> HIDE DEF j
  <2>4. Pops(w, j)
    BY <2>1, <2>2, <2>3 DEF Pops
  <2> QED BY <1>0, <1>1, <2>2, <2>3, <2>4
<1>9. CASE BumpReclaimCount(w)
  <2>i. PICK i \in Increments(w) :
          Proceed(w, [sweep[w] EXCEPT !.pc = "marker", !.attempts = reclaims[sweep[w].hand] + i])
    BY <1>9 DEF BumpReclaimCount
  <2> DEFINE n == reclaims[sweep[w].hand] + i
             r == [sweep[w] EXCEPT !.pc = "marker", !.attempts = n]
  <2>1. Proceed(w, r) /\ sweep[w].pc = "count" /\ UNCHANGED <<listVars, apiVars, lost>>
    BY <1>9, <2>i DEF BumpReclaimCount
  <2> HIDE DEF n
  <2>2. r.pc = "marker" /\ r.hand = sweep[w].hand /\ r.keys = sweep[w].keys /\ r.handled = sweep[w].handled
    BY <1>0 DEF Sweep
  <2> HIDE DEF r
  <2>3. sweep'[w] = r /\ OtherSweeps(w)
    BY <1>0, <2>1, ProceedEffect
  <2>4. Grips(w)
    BY <2>1, <2>2, <2>3 DEF Grips, HandPCs
  <2> QED BY <1>0, <1>1, <1>2, <2>1, <2>3, <2>4 DEF Rests
<1>10. ASSUME NEW to \in {"release"}, sweep[w].pc \in HandPCs,
              Proceed(w, [sweep[w] EXCEPT !.pc = to]), UNCHANGED <<listVars, apiVars, lost>>
       PROVE  Sorted' /\ OtherSweeps(w) /\ Rests(w)
  <2> DEFINE r == [sweep[w] EXCEPT !.pc = to]
  <2>1. r.pc = to /\ r.hand = sweep[w].hand /\ r.keys = sweep[w].keys /\ r.handled = sweep[w].handled
    BY <1>0 DEF Sweep
  <2>2. Proceed(w, r)
    BY <1>10
  <2> HIDE DEF r
  <2>3. sweep'[w] = r /\ OtherSweeps(w)
    BY <1>0, <2>2, ProceedEffect
  <2>4. Grips(w)
    BY <1>10, <2>1, <2>3 DEF Grips, HandPCs
  <2> QED BY <1>2, <1>10, <2>3, <2>4 DEF Rests
<1>s. ASSUME NEW n, sweep[w].pc \in HandPCs,
             \/ Proceed(w, [sweep[w] EXCEPT !.pc = "push", !.sent = n])
             \/ Proceed(w, [sweep[w] EXCEPT !.sent = n])
      PROVE  OtherSweeps(w) /\ Grips(w)
  <2> DEFINE r == [sweep[w] EXCEPT !.pc = "push", !.sent = n]
             q == [sweep[w] EXCEPT !.sent = n]
  <2>1. r.pc = "push" /\ r.hand = sweep[w].hand /\ r.keys = sweep[w].keys /\ r.handled = sweep[w].handled
    BY <1>0 DEF Sweep
  <2>2. /\ q.pc = sweep[w].pc /\ q.hand = sweep[w].hand /\ q.keys = sweep[w].keys
        /\ q.handled = sweep[w].handled
    BY <1>0 DEF Sweep
  <2>3. Proceed(w, r) \/ Proceed(w, q)
    BY <1>s
  <2> HIDE DEF r, q
  <2>4. (sweep'[w] = r \/ sweep'[w] = q) /\ OtherSweeps(w)
    BY <1>0, <2>3, ProceedEffect
  <2> QED BY <1>s, <2>1, <2>2, <2>4 DEF Grips, HandPCs
<1>11. ASSUME sweep[w].pc \in HandPCs, ToFail(w), UNCHANGED <<listVars, apiVars, lost>>
       PROVE  Sorted' /\ OtherSweeps(w) /\ Rests(w)
  BY <1>2, <1>11, SweepMoves DEF Rests
<1>12. CASE HasPublished(w)
  <2>1. sweep[w].pc \in HandPCs /\ UNCHANGED <<listVars, apiVars, lost>>
        /\ (ToFail(w) \/ Proceed(w, [sweep[w] EXCEPT !.pc = "release"]))
    BY <1>12 DEF HasPublished, HandPCs
  <2> QED BY <1>0, <1>1, <1>10, <1>11, <2>1
<1>13. CASE Release(w) \/ ReleaseResent(w)
  <2>1. PICK n : \/ Proceed(w, [sweep[w] EXCEPT !.pc = "push", !.sent = n])
                 \/ Proceed(w, [sweep[w] EXCEPT !.sent = n])
    BY <1>13 DEF Release, ReleaseResent
  <2>2. sweep[w].pc \in HandPCs /\ UNCHANGED <<listVars, apiVars, lost>>
    BY <1>13 DEF Release, ReleaseResent, HandPCs
  <2> QED BY <1>0, <1>1, <1>2, <1>s, <2>1, <2>2 DEF Rests
<1>14. CASE BumpError(w) \/ HasPublishedError(w) \/ ReleaseError(w)
  <2>1. sweep[w].pc \in HandPCs /\ UNCHANGED <<listVars, apiVars, lost>> /\ ToFail(w)
    BY <1>14 DEF BumpError, HasPublishedError, ReleaseError, HandPCs
  <2> QED BY <1>0, <1>1, <1>11, <2>1
<1>15. CASE Requeue(w)
  <2>1. /\ sweep[w].pc = "push" /\ RPush(Head(sweep[w].keys)[2], sweep[w].hand) /\ Continue(w)
        /\ processing' = processing /\ UNCHANGED <<lost, outcomes>>
    BY <1>15 DEF Requeue, apiVars
  <2>2. sweep[w].pc \in HandPCs
    BY <2>1 DEF HandPCs
  <2>3. sweep[w].hand \in Jobs /\ PriorityOf[sweep[w].hand] = Head(sweep[w].keys)[2]
    BY <2>2, OpenList DEF HandShape
  <2>4. Sorted' /\ Pushed(sweep[w].hand)
    BY <1>0, <2>1, <2>3, PushLists
  <2>5. LetsGo(w) /\ OtherSweeps(w)
    BY <2>1, <2>2, SweepMoves
  <2> QED BY <1>0, <1>1, <2>1, <2>4, <2>5 DEF Requeues, Quiet
<1>r. CASE RequeueResent(w)
  <2>1. /\ sweep[w].pc = "push" /\ "twice" \in Faults
        /\ RPush(Head(sweep[w].keys)[2], sweep[w].hand)
        /\ Proceed(w, [sweep[w] EXCEPT !.sent = @ + 1])
        /\ processing' = processing /\ UNCHANGED <<lost, outcomes>>
    BY <1>r DEF RequeueResent, apiVars
  <2>2. sweep[w].pc \in HandPCs
    BY <2>1 DEF HandPCs
  <2>3. sweep[w].hand \in Jobs /\ PriorityOf[sweep[w].hand] = Head(sweep[w].keys)[2]
    BY <2>2, OpenList DEF HandShape
  <2>4. Sorted' /\ Pushed(sweep[w].hand)
    BY <1>0, <2>1, <2>3, PushLists
  <2>5. Grips(w) /\ OtherSweeps(w)
    BY <1>s, <2>1, <2>2
  <2> QED BY <1>0, <1>1, <2>1, <2>4, <2>5 DEF PushesOne, Quiet
<1>16. CASE RequeueError(w) \/ Fail(w) \/ FailError(w)
  <2>1. /\ sweep[w].pc \in HandPCs /\ Continue(w) /\ UNCHANGED listVars
        /\ \/ lost' = lost \cup {sweep[w].hand} /\ outcomes' = outcomes
           \/ lost' = lost /\ outcomes' = [outcomes EXCEPT ![sweep[w].hand] = @ \cup {"failed"}]
    BY <1>16 DEF RequeueError, Fail, FailError, HandPCs, apiVars
  <2>2. LetsGo(w) /\ OtherSweeps(w)
    BY <2>1, SweepMoves
  <2>3. Sorted' /\ Same
    BY <2>1, SameLists
  <2> QED BY <1>0, <1>1, <2>1, <2>2, <2>3 DEF GivesUp
<1> QED BY <1>3, <1>4, <1>5, <1>6, <1>7, <1>8, <1>l, <1>9, <1>12, <1>13, <1>14, <1>15, <1>r, <1>16
        DEF SweepStep

(***************************************************************************)
(* The rest of the fleet: Pop between two checkouts, and the processes.    *)
(***************************************************************************)
LEMMA PollEffect ==
  ASSUME TypeInv, Sorted, NEW w \in Workers, SweepEmpty(w) \/ SweepError(w), UNCHANGED reclaimVars
  PROVE  /\ Sorted' /\ UNCHANGED <<status, beat, sweep, lost, dispatched, task, keyVars, outcomes, reported, dropped>>
         /\ Same \/ \E j \in Jobs : Works(w) /\ Queued(j) > 0 /\ Taken(w, j)
<1>0. BrokerTypeOK /\ at[w] \in Priorities
  BY DEF TypeInv, TypeOK, WorkTypeOK
<1>1. UNCHANGED <<status, beat, sweep, lost, dispatched, task, keyVars, outcomes, reported, dropped>>
  BY DEF SweepEmpty, SweepError, fleetVars, apiVars, reclaimVars
<1>2. CASE UNCHANGED listVars
  BY <1>1, <1>2, SameLists
<1>3. CASE LosesReply(w) /\ queue[at[w]] # <<>> /\ LMove(w, at[w])
  <2>1. /\ Sorted' /\ Last(queue[at[w]]) \in Jobs
        /\ Queued(Last(queue[at[w]])) > 0 /\ Taken(w, Last(queue[at[w]]))
    BY <1>0, <1>3, MoveLists
  <2>2. Works(w)
    BY <1>3 DEF LosesReply, Works
  <2> QED BY <1>1, <2>1, <2>2
<1> QED BY <1>2, <1>3 DEF SweepEmpty, SweepError

ProcessStep(w) == Start(w) \/ HeartbeatTick(w) \/ Expire(w) \/ Shutdown(w) \/ Exit(w) \/ Crash(w)

LEMMA ProcessEffect ==
  ASSUME TypeInv, Sorted, NEW w \in Workers, ProcessStep(w)
  PROVE  /\ Sorted' /\ Same /\ UNCHANGED <<dispatched, keyVars, outcomes, reported, dropped>>
         /\ \A v \in Workers : v # w => status'[v] = status[v] /\ beat'[v] = beat[v]
         /\ \A v \in Workers : v # w => task'[v] = task[v] /\ sweep'[v] = sweep[v]
         /\ \/ task'[w] = task[w] /\ sweep'[w] = sweep[w] /\ lost' = lost
            \/ /\ task'[w] = [s \in Slots |-> Free] /\ status'[w] \in {"down", "crashed"}
               /\ \/ sweep'[w] = sweep[w] /\ lost' = lost
                  \/ sweep'[w] = Idle /\ lost' = lost \cup InHand(w)
<1>0. BrokerTypeOK /\ WorkTypeOK /\ ReclaimTypeOK
  BY DEF TypeInv, TypeOK
<1>1. UNCHANGED <<listVars, dispatched, keyVars, outcomes, reported, dropped>>
  BY DEF ProcessStep, Start, HeartbeatTick, Expire, Shutdown, Exit, Crash, apiVars, workVars
<1>2. Sorted' /\ Same
  BY <1>1, SameLists
<1>3. \A v \in Workers : v # w => status'[v] = status[v] /\ beat'[v] = beat[v]
  BY <1>0 DEF ProcessStep, Start, Register, RegisterFails, HeartbeatTick, Refresh, Expire, Shutdown,
              Exit, Crash, BrokerTypeOK
<1>4. \A v \in Workers : v # w => task'[v] = task[v] /\ sweep'[v] = sweep[v]
  BY <1>0 DEF ProcessStep, Start, HeartbeatTick, Expire, Shutdown, Exit, Crash, workVars,
              reclaimVars, WorkTypeOK, ReclaimTypeOK
<1>5. CASE Start(w) \/ HeartbeatTick(w) \/ Expire(w) \/ Shutdown(w)
  <2>1. task'[w] = task[w] /\ sweep'[w] = sweep[w] /\ lost' = lost
    BY <1>5 DEF Start, HeartbeatTick, Expire, Shutdown, workVars, reclaimVars
  <2> QED BY <1>1, <1>2, <1>3, <1>4, <2>1
<1>6. CASE Exit(w)
  <2>1. /\ task'[w] = [s \in Slots |-> Free] /\ status'[w] = "down"
        /\ sweep'[w] = sweep[w] /\ lost' = lost
    BY <1>0, <1>6 DEF Exit, reclaimVars, BrokerTypeOK, WorkTypeOK
  <2> QED BY <1>1, <1>2, <1>3, <1>4, <2>1
<1>7. CASE Crash(w)
  <2>1. /\ task'[w] = [s \in Slots |-> Free] /\ status'[w] = "crashed"
        /\ sweep'[w] = Idle /\ lost' = lost \cup InHand(w)
    BY <1>0, <1>7 DEF Crash, BrokerTypeOK, WorkTypeOK, ReclaimTypeOK
  <2> QED BY <1>1, <1>2, <1>3, <1>4, <2>1
<1> QED BY <1>5, <1>6, <1>7 DEF ProcessStep

-------------------------------------------------------------------------------
(***************************************************************************)
(* Payloads stay on lists of their priority, whatever faults strike.       *)
(***************************************************************************)
LEMMA HandKept ==
  ASSUME HandShape, NEW w \in Workers, OtherSweeps(w),
         Rests(w) \/ (\E j \in Jobs : Pops(w, j)) \/ GivesUp(w) \/ Requeues(w) \/ PushesOne(w)
  PROVE  HandShape'
<1> SUFFICES ASSUME NEW v \in Workers
             PROVE  /\ sweep'[v].pc \in HandPCs => PriorityOf[sweep'[v].hand] = Head(sweep'[v].keys)[2]
                    /\ sweep'[v].pc \notin HandPCs => sweep'[v].hand = NoJob
  BY DEF HandShape
<1>0. /\ sweep[v].pc \in HandPCs => PriorityOf[sweep[v].hand] = Head(sweep[v].keys)[2]
      /\ sweep[v].pc \notin HandPCs => sweep[v].hand = NoJob
  BY DEF HandShape
<1>1. CASE v # w
  BY <1>0, <1>1 DEF OtherSweeps
<1>2. CASE v = w /\ (Ends(w) \/ Advances(w) \/ Looks(w) \/ Opens(w) \/ Grips(w) \/ LetsGo(w))
  BY <1>0, <1>2 DEF Ends, Idle, Advances, Looks, Opens, Grips, LetsGo, HandPCs
<1>3. ASSUME v = w, NEW j \in Jobs, Pops(w, j)
      PROVE  /\ sweep'[v].pc \in HandPCs => PriorityOf[sweep'[v].hand] = Head(sweep'[v].keys)[2]
             /\ sweep'[v].pc \notin HandPCs => sweep'[v].hand = NoJob
  <2>1. CASE sweep' = sweep
    BY <1>0, <2>1
  <2>2. CASE PicksUp(w, j)
    BY <1>3, <2>2 DEF Pops, PopsOff, PicksUp, HandPCs
  <2> QED BY <1>2, <1>3, <2>1, <2>2 DEF Pops
<1> QED BY <1>1, <1>2, <1>3 DEF Rests, GivesUp, Requeues, PushesOne

LEMMA NextPlaced == TypeInv /\ Sorted /\ HandShape /\ [Next]_vars => Sorted' /\ HandShape'
<1> SUFFICES ASSUME TypeInv, Sorted, HandShape, [Next]_vars
             PROVE  Sorted' /\ HandShape'
  OBVIOUS
<1>0. ASSUME sweep' = sweep PROVE HandShape'
  BY <1>0 DEF HandShape
<1>1. CASE UNCHANGED vars
  BY <1>0, <1>1, SameLists DEF vars, listVars
<1>2. ASSUME NEW j \in Jobs, Dispatch(j), UNCHANGED <<workVars, reclaimVars>>
      PROVE  Sorted' /\ HandShape'
  <2>1. Sorted'
    BY <1>2, DispatchLists DEF TypeInv, TypeOK
  <2> QED BY <1>0, <1>2, <2>1 DEF reclaimVars
<1>3. ASSUME NEW w \in Workers, ProcessStep(w)
      PROVE  Sorted' /\ HandShape'
  <2>1. /\ Sorted' /\ \A v \in Workers : v # w => sweep'[v] = sweep[v]
        /\ sweep'[w] = sweep[w] \/ sweep'[w] = Idle
    BY <1>3, ProcessEffect
  <2> QED BY <2>1 DEF HandShape, Idle, HandPCs
<1>4. ASSUME NEW w \in Workers, SweepEmpty(w) \/ SweepError(w), UNCHANGED reclaimVars
      PROVE  Sorted' /\ HandShape'
  BY <1>0, <1>4, PollEffect
<1>5. ASSUME NEW w \in Workers, NEW s \in Slots, TaskStep(w, s), UNCHANGED reclaimVars
      PROVE  Sorted' /\ HandShape'
  BY <1>0, <1>5, TaskEffect
<1>6. ASSUME NEW w \in Workers, SweepStep(w), UNCHANGED workVars
      PROVE  Sorted' /\ HandShape'
  BY <1>6, SweepEffect, HandKept
<1> QED BY <1>1, <1>2, <1>3, <1>4, <1>5, <1>6 DEF Next, WorkStep, ProcessStep

LEMMA InitPlaced == Init => Sorted /\ HandShape
<1> SUFFICES ASSUME Init PROVE Sorted /\ HandShape
  OBVIOUS
<1>1. \A p \in Priorities : <<>> \in Seq(Of(p))
  OBVIOUS
<1>2. Sorted
  BY <1>1 DEF Init, BrokerInit, Sorted
<1>3. HandShape
  BY DEF Init, ReclaimInit, Idle, HandShape, HandPCs
<1> QED BY <1>2, <1>3

Placed == TypeInv /\ Sorted /\ HandShape

LEMMA AlwaysPlaced == Spec => []Placed
<1>1. Init => Placed
  BY InitType, InitPlaced DEF Placed
<1>2. Placed /\ [Next]_vars => Placed'
  BY NextType, NextPlaced DEF Placed
<1> QED BY <1>1, <1>2, PTL DEF Spec

\* A payload only ever sits on lists of the priority it was dispatched with:
\* LMove, LRem, RPop, Requeue and Dispatch keep every list sorted by
\* priority for any fleet and under every fault, so an Ack finds its entry on
\* the one list it looks at.
THEOREM PrioritiesKept == Spec => []PriorityKept
<1>1. ASSUME Placed PROVE PriorityKept
  <2> SUFFICES ASSUME NEW p \in Priorities
               PROVE  /\ \A i \in 1..Len(queue[p]) : PriorityOf[queue[p][i]] = p
                      /\ \A w \in Workers : \A i \in 1..Len(processing[w][p]) :
                           PriorityOf[processing[w][p][i]] = p
    BY DEF PriorityKept
  <2>1. \A s \in Seq(Of(p)) : \A i \in 1..Len(s) : PriorityOf[s[i]] = p
    <3> TAKE s \in Seq(Of(p))
    <3> TAKE i \in 1..Len(s)
    <3>1. s[i] \in Of(p)
      OBVIOUS
    <3> QED BY <3>1 DEF Of
  <2>2. queue[p] \in Seq(Of(p)) /\ \A w \in Workers : processing[w][p] \in Seq(Of(p))
    BY <1>1 DEF Placed, Sorted
  <2> QED BY <2>1, <2>2
<1> QED BY <1>1, AlwaysPlaced, PTL

-------------------------------------------------------------------------------
(***************************************************************************)
(* Whose lists a sweep opens, when the key of a running process does not   *)
(* lapse and no process registers between the two SCANs of a sweep.        *)
(***************************************************************************)

\* The workers whose lists the sweep of w has yet to take apart.
Opened(w) == {sweep[w].keys[i][1] : i \in 1..Len(sweep[w].keys)}

Seen ==
  \A v \in Workers :
    /\ status[v] = "up" => beat[v]
    /\ status[v] = "new" => \A j \in Jobs : Listed(v, j) = 0
    /\ \A w \in Workers :
         /\ sweep[w].pc = "scan" /\ status[v] = "up" => v \in sweep[w].live
         /\ v \in Opened(w) => status[v] \notin {"new", "up"}

LEMMA EmptyList ==
  ASSUME Sorted, NEW w \in Workers, NEW p \in Priorities, processing[w][p] # <<>>
  PROVE  \E j \in Jobs : Listed(w, j) > 0
<1> DEFINE s == processing[w][p]
<1>1. s \in Seq(Of(p)) /\ s # <<>>
  BY DEF Sorted
<1> HIDE DEF s
<1>2. 1 \in 1..Len(s) /\ s[1] \in Of(p)
  BY <1>1, EmptySeq
<1>3. 1 \in Positions(s, s[1])
  BY <1>2 DEF Positions
<1>4. Copies(s, s[1]) \in Nat /\ Copies(s, s[1]) # 0
  BY <1>1, <1>3, CopiesType
<1>5. s[1] \in Jobs /\ Listed(w, s[1]) = Copies(s, s[1])
  BY <1>2 DEF Of, Listed, s
<1> QED BY <1>4, <1>5

\* A sweep opens lists only when it scans, and only orphaned ones.
LEMMA OpenedMoves ==
  ASSUME TypeInv, NEW w \in Workers,
         \/ Ends(w) \/ Advances(w) \/ Looks(w) \/ Grips(w) \/ LetsGo(w) \/ sweep'[w] = sweep[w]
         \/ \E j \in Jobs : PicksUp(w, j)
  PROVE  Opened(w)' \subseteq Opened(w)
<1>1. CASE sweep'[w].keys = sweep[w].keys
  BY <1>1 DEF Opened
<1>2. CASE sweep'[w].keys = <<>>
  BY <1>2 DEF Opened
<1>3. CASE Advances(w)
  <2> DEFINE ks == sweep[w].keys
  <2>1. ks \in Seq(Workers \X Priorities) /\ ks # <<>>
    BY <1>3, OpenList DEF Advances
  <2> HIDE DEF ks
  <2>2. Len(Tail(ks)) = Len(ks) - 1 /\ \A i \in 1..Len(Tail(ks)) : Tail(ks)[i] = ks[i + 1]
    BY <2>1, HeadTailProperties
  <2>3. Len(ks) \in Nat
    BY <2>1
  <2>4. \A i \in 1..Len(Tail(ks)) : i + 1 \in 1..Len(ks)
    BY <2>2, <2>3
  <2>5. sweep'[w].keys = Tail(ks)
    BY <1>3 DEF Advances, ks
  <2> QED BY <2>2, <2>4, <2>5 DEF Opened, ks
<1> QED BY <1>1, <1>2, <1>3 DEF Ends, Idle, Looks, Grips, LetsGo, PicksUp

LEMMA OpenedOrphans ==
  ASSUME NEW w \in Workers, Opens(w), NEW v \in Opened(w)'
  PROVE  v \in Workers \ sweep[w].live /\ \E p \in Priorities : processing[v][p] # <<>>
<1> DEFINE ks == sweep'[w].keys
<1>1. ks \in Seq(OrphanKeys(sweep[w].live))
  BY DEF Opens
<1>2. PICK i \in 1..Len(ks) : v = ks[i][1]
  BY DEF Opened
<1> HIDE DEF ks
<1>3. ks[i] \in OrphanKeys(sweep[w].live)
  BY <1>1, <1>2
<1> QED BY <1>2, <1>3 DEF OrphanKeys

\* How the state of a process may change.
LEMMA StatusMoves ==
  ASSUME TypeInv, "lapse" \notin Faults, "join" \notin Faults, NEW w \in Workers, ProcessStep(w)
  PROVE  /\ status'[w] = "new" => status[w] = "new"
         /\ status'[w] = "up" => \/ status[w] = "up" /\ (beat[w] => beat'[w])
                                 \/ /\ status[w] = "new" /\ beat'[w]
                                    /\ \A v \in Workers : sweep[v].pc # "scan"
<1>0. BrokerTypeOK
  BY DEF TypeInv, TypeOK
<1>1. CASE Start(w)
  BY <1>0, <1>1 DEF Start, Register, RegisterFails, BrokerTypeOK
<1>2. CASE HeartbeatTick(w)
  BY <1>0, <1>2 DEF HeartbeatTick, Refresh, BrokerTypeOK
<1>3. CASE Expire(w)
  BY <1>0, <1>3 DEF Expire, BrokerTypeOK
<1>4. CASE Shutdown(w)
  BY <1>0, <1>4 DEF Shutdown, BrokerTypeOK
<1>5. CASE Exit(w)
  BY <1>0, <1>5 DEF Exit, BrokerTypeOK
<1>6. CASE Crash(w)
  BY <1>0, <1>6 DEF Crash, BrokerTypeOK
<1> QED BY <1>1, <1>2, <1>3, <1>4, <1>5, <1>6 DEF ProcessStep

\* A step of a goroutine or of Pop: only running processes get new entries.
LEMMA SeenByWork ==
  ASSUME Placed, Seen, NEW w \in Workers, UNCHANGED <<status, beat, sweep>>,
         \/ Same
         \/ \E j \in Jobs : Works(w) /\ Taken(w, j)
         \/ \E j \in Jobs : Removed(w, j)
         \/ \E j \in Jobs : Pushed(j)
  PROVE  Seen'
<1>1. ASSUME NEW v \in Workers, status[v] = "new", NEW j \in Jobs
      PROVE  Listed(v, j)' = 0
  <2>1. Listed(v, j) = 0
    BY <1>1 DEF Seen
  <2>2. CASE Same \/ \E k \in Jobs : Pushed(k)
    BY <2>1, <2>2 DEF Same, Pushed
  <2>3. CASE \E k \in Jobs : Works(w) /\ Taken(w, k)
    <3>1. v # w
      BY <1>1, <2>3 DEF Works
    <3> QED BY <2>1, <2>3, <3>1 DEF Taken, One
  <2>4. CASE \E k \in Jobs : Removed(w, k)
    BY <2>1, <2>4 DEF Removed, One
  <2> QED BY <2>2, <2>3, <2>4
<1>2. \A v \in Workers : Opened(v)' = Opened(v)
  BY DEF Opened
<1> QED BY <1>1, <1>2 DEF Seen

LEMMA SeenBySweep ==
  ASSUME Placed, Seen, NEW w \in Workers, SweepStep(w), UNCHANGED workVars
  PROVE  Seen'
<1>1. /\ UNCHANGED <<status, beat>> /\ OtherSweeps(w)
      /\ Rests(w) \/ (\E j \in Jobs : Pops(w, j)) \/ GivesUp(w) \/ Requeues(w) \/ PushesOne(w)
  BY SweepEffect DEF Placed
<1>2. Same \/ (\E j \in Jobs : \E v \in Workers : Removed(v, j)) \/ (\E j : Pushed(j))
  <2>1. ASSUME NEW j \in Jobs, Pops(w, j)
        PROVE  \E v \in Workers : Removed(v, j)
    BY <2>1 DEF Pops, PopsOff
  <2> QED BY <1>1, <2>1 DEF Rests, GivesUp, Requeues, PushesOne
<1>3. ASSUME NEW v \in Workers, status[v] = "new", NEW j \in Jobs
      PROVE  Listed(v, j)' = 0
  <2>1. Listed(v, j) = 0
    BY <1>3 DEF Seen
  <2> QED BY <1>2, <2>1 DEF Same, Removed, Pushed, One
<1>4. ASSUME NEW v \in Workers, NEW u \in Workers, sweep'[u].pc = "scan", status[v] = "up"
      PROVE  v \in sweep'[u].live
  <2>1. CASE u # w
    BY <1>1, <1>4, <2>1 DEF OtherSweeps, Seen
  <2>2. CASE u = w /\ Looks(w)
    BY <1>4, <2>2 DEF Looks, Seen
  <2>3. CASE u = w /\ sweep' = sweep
    BY <1>4, <2>3 DEF Seen
  <2>4. CASE u = w /\ ~Looks(w) /\ sweep' # sweep
    BY <1>1, <1>4, <2>4 DEF Rests, Pops, GivesUp, Requeues, PushesOne, Ends, Idle, Advances, Opens, Grips,
                            HandPCs, LetsGo, PicksUp
  <2> QED BY <2>1, <2>2, <2>3, <2>4
<1>5. ASSUME NEW v \in Workers, NEW u \in Workers, v \in Opened(u)'
      PROVE  status[v] \notin {"new", "up"}
  <2>1. CASE u # w
    <3>1. Opened(u)' = Opened(u)
      BY <1>1, <2>1 DEF OtherSweeps, Opened
    <3> QED BY <1>5, <3>1 DEF Seen
  <2>2. CASE u = w /\ Opens(w)
    <3>1. v \notin sweep[w].live /\ \E p \in Priorities : processing[v][p] # <<>>
      BY <1>5, <2>2, OpenedOrphans
    <3>2. \E j \in Jobs : Listed(v, j) > 0
      BY <3>1, EmptyList DEF Placed
    <3>3. status[v] # "new"
      BY <3>2 DEF Seen
    <3>4. status[v] # "up"
      BY <2>2, <3>1 DEF Seen, Opens
    <3> QED BY <3>3, <3>4
  <2>3. CASE u = w /\ ~Opens(w)
    <3>1. \/ Ends(w) \/ Advances(w) \/ Looks(w) \/ Grips(w) \/ LetsGo(w) \/ sweep'[w] = sweep[w]
          \/ \E j \in Jobs : PicksUp(w, j)
      BY <1>1, <2>3 DEF Rests, Pops, GivesUp, Requeues, PushesOne
    <3>2. Opened(w)' \subseteq Opened(w)
      BY <3>1, OpenedMoves DEF Placed
    <3> QED BY <1>5, <2>3, <3>2 DEF Seen
  <2> QED BY <2>1, <2>2, <2>3
<1> QED BY <1>1, <1>3, <1>4, <1>5 DEF Seen

LEMMA NextSeen ==
  ASSUME "lapse" \notin Faults, "join" \notin Faults, Placed, Seen, [Next]_vars
  PROVE  Seen'
<1>0. TypeInv /\ Sorted /\ BrokerTypeOK
  BY DEF Placed, TypeInv, TypeOK
<1>1. CASE UNCHANGED vars
  BY <1>1 DEF vars, Seen, Listed, Opened
<1>2. ASSUME NEW j \in Jobs, Dispatch(j), UNCHANGED <<workVars, reclaimVars>>
      PROVE  Seen'
  <2>1. Pushed(j) /\ UNCHANGED <<status, beat, sweep>>
    BY <1>0, <1>2, DispatchLists DEF Dispatch, fleetVars, reclaimVars
  <2>2. CASE Workers = {}
    BY <2>2 DEF Seen
  <2> QED BY <2>1, <2>2, SeenByWork
<1>3. ASSUME NEW w \in Workers, ProcessStep(w)
      PROVE  Seen'
  <2>1. /\ Same
        /\ \A v \in Workers : v # w => status'[v] = status[v] /\ beat'[v] = beat[v]
        /\ \A v \in Workers : v # w => sweep'[v] = sweep[v]
        /\ sweep'[w] = sweep[w] \/ sweep'[w] = Idle
    BY <1>0, <1>3, ProcessEffect
  <2>2. /\ status'[w] = "new" => status[w] = "new"
        /\ status'[w] = "up" => \/ status[w] = "up" /\ (beat[w] => beat'[w])
                                \/ /\ status[w] = "new" /\ beat'[w]
                                   /\ \A v \in Workers : sweep[v].pc # "scan"
    BY <1>0, <1>3, StatusMoves
  <2>3. \A v \in Workers : Opened(v)' \subseteq Opened(v)
    BY <2>1 DEF Opened, Idle
  <2>4. \A v \in Workers : sweep'[v].pc = "scan" => sweep'[v] = sweep[v]
    BY <2>1 DEF Idle
  <2>5. ASSUME NEW v \in Workers
        PROVE  /\ status'[v] = "up" => beat'[v]
               /\ status'[v] = "new" => \A j \in Jobs : Listed(v, j)' = 0
    BY <2>1, <2>2 DEF Seen, Same
  <2>6. ASSUME NEW v \in Workers, NEW u \in Workers
        PROVE  /\ sweep'[u].pc = "scan" /\ status'[v] = "up" => v \in sweep'[u].live
               /\ v \in Opened(u)' => status'[v] \notin {"new", "up"}
    <3>1. v \in Opened(u) => status[v] \notin {"new", "up"}
      BY DEF Seen
    <3>2. sweep[u].pc = "scan" /\ status[v] = "up" => v \in sweep[u].live
      BY DEF Seen
    <3>3. status'[v] = "up" => status[v] = "up" \/ \A x \in Workers : sweep[x].pc # "scan"
      BY <2>1, <2>2
    <3>4. status'[v] \in {"new", "up"} => status[v] \in {"new", "up"}
      BY <2>1, <2>2
    <3> QED BY <2>3, <2>4, <3>1, <3>2, <3>3, <3>4
  <2> QED BY <2>5, <2>6 DEF Seen
<1>4. ASSUME NEW w \in Workers, SweepEmpty(w) \/ SweepError(w), UNCHANGED reclaimVars
      PROVE  Seen'
  BY <1>0, <1>4, PollEffect, SeenByWork
<1>5. ASSUME NEW w \in Workers, NEW s \in Slots, TaskStep(w, s), UNCHANGED reclaimVars
      PROVE  Seen'
  <2>1. UNCHANGED <<status, beat, sweep>>
    BY <1>0, <1>5, TaskEffect
  <2>2. \/ Same
        \/ \E j \in Jobs : Works(w) /\ Taken(w, j)
        \/ \E j \in Jobs : Removed(w, j)
    BY <1>0, <1>5, TaskEffect DEF TakesJob, DropsJob, KeepsJob, LeavesJob, Strikes
  <2> QED BY <2>1, <2>2, SeenByWork
<1>6. ASSUME NEW w \in Workers, SweepStep(w), UNCHANGED workVars
      PROVE  Seen'
  BY <1>6, SeenBySweep
<1> QED BY <1>1, <1>2, <1>3, <1>4, <1>5, <1>6 DEF Next, WorkStep, ProcessStep

LEMMA InitSeen == Init => Seen
<1> SUFFICES ASSUME Init PROVE Seen
  OBVIOUS
<1>1. ASSUME NEW v \in Workers, NEW j \in Jobs
      PROVE  Listed(v, j) = 0
  <2>1. processing[v][PriorityOf[j]] = <<>>
    BY DEF Init, BrokerInit
  <2>2. Positions(<<>>, j) = {}
    BY DEF Positions
  <2> QED BY <2>1, <2>2, FS_EmptySet DEF Listed, Copies
<1>2. \A v \in Workers : Opened(v) = {}
  BY DEF Init, ReclaimInit, Idle, Opened
<1> QED BY <1>1, <1>2 DEF Init, BrokerInit, ReclaimInit, Idle, Seen

LEMMA AlwaysSeen ==
  ASSUME "lapse" \notin Faults, "join" \notin Faults
  PROVE  Spec => []Seen
<1>1. Placed /\ Seen /\ [Next]_vars => Seen'
  BY NextSeen
<1> QED BY <1>1, InitSeen, AlwaysPlaced, PTL DEF Spec

\* A sweep never holds the processing list of a running process open, if the
\* heartbeat keys of running processes do not lapse and no process registers
\* between the two SCANs of a sweep: the live set orphanProcessingKeys reads
\* then covers every process that can check a job out.
THEOREM LiveListsKept ==
  ASSUME "lapse" \notin Faults, "join" \notin Faults
  PROVE  Spec => []LiveListsUntouched
<1>1. ASSUME Placed, Seen PROVE LiveListsUntouched
  <2> SUFFICES ASSUME NEW w \in Workers, NEW i \in 1..Len(sweep[w].keys)
               PROVE  status[sweep[w].keys[i][1]] # "up"
    BY DEF LiveListsUntouched
  <2>1. sweep[w].keys \in Seq(Workers \X Priorities)
    BY <1>1 DEF Placed, TypeInv, TypeOK, ReclaimTypeOK, Sweep
  <2>2. sweep[w].keys[i] \in Workers \X Priorities
    BY <2>1
  <2>3. sweep[w].keys[i][1] \in Workers /\ sweep[w].keys[i][1] \in Opened(w)
    BY <2>2 DEF Opened
  <2> QED BY <1>1, <2>3 DEF Seen
<1> QED BY <1>1, AlwaysPlaced, AlwaysSeen, PTL

-------------------------------------------------------------------------------
(***************************************************************************)
(* A job dispatched once, and pushed back once by a requeue, exists once.  *)
(***************************************************************************)
OneCopy ==
  \A j \in Jobs :
    /\ Queued(j) <= 1
    /\ dispatched[j] = 0 => Queued(j) = 0
    /\ dispatched[j] = 0 \/ Queued(j) = 1
         => \A w \in Workers : Listed(w, j) = 0 /\ sweep[w].hand # j
    /\ \A w \in Workers : Listed(w, j) <= 1
    /\ \A w, v \in Workers :
         /\ Listed(w, j) = 1 => sweep[v].hand # j /\ (v # w => Listed(v, j) = 0)
         /\ sweep[w].hand = j /\ sweep[v].hand = j => v = w

Counted ==
  \A j \in Jobs : /\ Queued(j) \in Nat /\ dispatched[j] \in Nat
                  /\ \A w \in Workers : Listed(w, j) \in Nat

LEMMA CountedNow ==
  ASSUME Placed PROVE Counted
BY CountTypes DEF Placed, TypeInv, TypeOK, BrokerTypeOK, Counted

LEMMA CountedNext ==
  ASSUME Placed' PROVE Counted'
BY CountTypesNext DEF Placed, TypeInv, TypeOK, BrokerTypeOK, Counted

(***************************************************************************)
(* One lemma per way the copies of jobs move.                              *)
(***************************************************************************)
LEMMA CopyStays ==
  ASSUME Counted, Counted', OneCopy, dispatched' = dispatched,
         \A k \in Jobs : /\ Queued(k)' <= Queued(k)
                         /\ \A v \in Workers : /\ Listed(v, k)' <= Listed(v, k)
                                               /\ sweep'[v].hand = k => sweep[v].hand = k
  PROVE  OneCopy'
<1> SUFFICES ASSUME NEW j \in Jobs
             PROVE  /\ Queued(j)' <= 1
                    /\ dispatched[j]' = 0 => Queued(j)' = 0
                    /\ dispatched[j]' = 0 \/ Queued(j)' = 1
                         => \A w \in Workers : Listed(w, j)' = 0 /\ sweep'[w].hand # j
                    /\ \A w \in Workers : Listed(w, j)' <= 1
                    /\ \A w, v \in Workers :
                         /\ Listed(w, j)' = 1 => sweep'[v].hand # j /\ (v # w => Listed(v, j)' = 0)
                         /\ sweep'[w].hand = j /\ sweep'[v].hand = j => v = w
  BY DEF OneCopy
<1>1. /\ Queued(j) \in Nat /\ Queued(j)' \in Nat /\ Queued(j)' <= Queued(j)
      /\ \A w \in Workers : /\ Listed(w, j) \in Nat /\ Listed(w, j)' \in Nat
                            /\ Listed(w, j)' <= Listed(w, j)
                            /\ sweep'[w].hand = j => sweep[w].hand = j
  BY DEF Counted
<1>2. /\ Queued(j) <= 1
      /\ dispatched[j] = 0 => Queued(j) = 0
      /\ dispatched[j] = 0 \/ Queued(j) = 1
           => \A w \in Workers : Listed(w, j) = 0 /\ sweep[w].hand # j
      /\ \A w \in Workers : Listed(w, j) <= 1
      /\ \A w, v \in Workers :
           /\ Listed(w, j) = 1 => sweep[v].hand # j /\ (v # w => Listed(v, j) = 0)
           /\ sweep[w].hand = j /\ sweep[v].hand = j => v = w
  BY DEF OneCopy
<1>3. Queued(j)' <= 1 /\ (Queued(j)' = 1 => Queued(j) = 1) /\ (Queued(j) = 0 => Queued(j)' = 0)
  BY <1>1, <1>2
<1>4. \A w \in Workers : /\ Listed(w, j)' <= 1
                         /\ Listed(w, j)' = 1 => Listed(w, j) = 1
                         /\ Listed(w, j) = 0 => Listed(w, j)' = 0
  BY <1>1, <1>2
<1> QED BY <1>1, <1>2, <1>3, <1>4

\* A copy goes from the queue to the list of w.
LEMMA CopyTaken ==
  ASSUME Counted, Counted', OneCopy, UNCHANGED <<dispatched, sweep>>,
         NEW w \in Workers, NEW e \in Jobs, Queued(e) > 0, Taken(w, e)
  PROVE  OneCopy'
<1>1. /\ Queued(e) = 1 /\ Queued(e)' = 0 /\ dispatched[e] # 0
      /\ \A v \in Workers : Listed(v, e) = 0 /\ sweep[v].hand # e
  BY DEF OneCopy, Counted, Taken, One
<1>2. \A v \in Workers : Listed(v, e)' = IF v = w THEN 1 ELSE 0
  BY <1>1 DEF Taken, One
<1>3. \A k \in Jobs : k # e => /\ Queued(k)' = Queued(k)
                               /\ \A v \in Workers : Listed(v, k)' = Listed(v, k)
  BY DEF Taken, One, Counted
<1> QED BY <1>1, <1>2, <1>3 DEF OneCopy

\* A copy goes from a list into the hands of the sweep of w.
LEMMA CopyPicked ==
  ASSUME Counted, Counted', OneCopy, dispatched' = dispatched, NEW w \in Workers, OtherSweeps(w),
         NEW u \in Workers, NEW e \in Jobs, Listed(u, e) > 0, Removed(u, e), sweep'[w].hand = e
  PROVE  OneCopy'
<1>1. /\ Listed(u, e) = 1 /\ Queued(e) = 0 /\ dispatched[e] # 0
      /\ \A v \in Workers : sweep[v].hand # e /\ (v # u => Listed(v, e) = 0)
  BY DEF OneCopy, Counted
<1>2. Queued(e)' = 0 /\ \A v \in Workers : Listed(v, e)' = 0
  BY <1>1 DEF Removed, One
<1>3. \A k \in Jobs : k # e => /\ Queued(k)' = Queued(k)
                               /\ \A v \in Workers : Listed(v, k)' = Listed(v, k)
  BY DEF Removed, One, Counted
<1>4. \A v \in Workers : v # w => sweep'[v].hand = sweep[v].hand
  BY DEF OtherSweeps
<1> QED BY <1>1, <1>2, <1>3, <1>4 DEF OneCopy

\* A copy goes back to the queue.
LEMMA CopyRequeued ==
  ASSUME Counted, Counted', OneCopy, dispatched' = dispatched, NEW w \in Workers, OtherSweeps(w),
         sweep[w].hand \in Jobs, Pushed(sweep[w].hand), sweep'[w].hand = NoJob
  PROVE  OneCopy'
<1> PICK e \in Jobs : e = sweep[w].hand
  OBVIOUS
<1>1. /\ Queued(e) = 0 /\ dispatched[e] # 0
      /\ \A v \in Workers : Listed(v, e) = 0 /\ (v # w => sweep[v].hand # e)
  <2>1. Queued(e) # 1 /\ Queued(e) <= 1 /\ Queued(e) \in Nat /\ dispatched[e] # 0
    BY DEF OneCopy, Counted
  <2>2. ASSUME NEW v \in Workers
        PROVE  Listed(v, e) # 1 /\ Listed(v, e) <= 1 /\ Listed(v, e) \in Nat
    BY DEF OneCopy, Counted
  <2>3. \A v \in Workers : sweep[v].hand = e => v = w
    BY DEF OneCopy
  <2> QED BY <2>1, <2>2, <2>3
<1>2. Pushed(e) /\ sweep[w].hand = e /\ NoJob \notin Jobs
  OBVIOUS
<1>3. Queued(e)' = 1 /\ \A v \in Workers : Listed(v, e)' = 0
  BY <1>1, <1>2 DEF Pushed, One
<1>4. \A k \in Jobs : k # e => /\ Queued(k)' = Queued(k)
                               /\ \A v \in Workers : Listed(v, k)' = Listed(v, k)
  BY <1>2 DEF Pushed, One, Counted
<1>5. \A v \in Workers : v # w => sweep'[v].hand = sweep[v].hand
  BY DEF OtherSweeps
<1> QED BY <1>1, <1>2, <1>3, <1>4, <1>5 DEF OneCopy

\* The first and only copy.
LEMMA CopyDispatched ==
  ASSUME Counted, Counted', OneCopy, "dup" \notin Faults, NEW e \in Jobs, Dispatch(e), Pushed(e),
         sweep' = sweep, BrokerTypeOK
  PROVE  OneCopy'
<1>1. /\ dispatched[e] = 0 /\ dispatched'[e] = 1
      /\ \A k \in Jobs : k # e => dispatched'[k] = dispatched[k]
  BY DEF Dispatch, BrokerTypeOK
<1>2. Queued(e) = 0 /\ \A v \in Workers : Listed(v, e) = 0 /\ sweep[v].hand # e
  BY <1>1 DEF OneCopy
<1>3. Queued(e)' = 1 /\ \A v \in Workers : Listed(v, e)' = 0
  BY <1>2 DEF Pushed, One
<1>4. \A k \in Jobs : k # e => /\ Queued(k)' = Queued(k)
                               /\ \A v \in Workers : Listed(v, k)' = Listed(v, k)
  BY DEF Pushed, One, Counted
<1> QED BY <1>1, <1>2, <1>3, <1>4 DEF OneCopy

LEMMA NextOneCopy ==
  ASSUME Placed, Placed', OneCopy, "dup" \notin Faults, "twice" \notin Faults, [Next]_vars
  PROVE  OneCopy'
<1>0. Counted /\ Counted' /\ TypeInv /\ Sorted /\ HandShape /\ BrokerTypeOK
  BY CountedNow, CountedNext DEF Placed, TypeInv, TypeOK
<1>1. ASSUME Same, dispatched' = dispatched,
             \A v \in Workers, k \in Jobs : sweep'[v].hand = k => sweep[v].hand = k
      PROVE  OneCopy'
  BY <1>0, <1>1, CopyStays DEF Same, Counted
<1>2. ASSUME NEW u \in Workers, NEW j \in Jobs, Removed(u, j), dispatched' = dispatched,
             \A v \in Workers, k \in Jobs : sweep'[v].hand = k => sweep[v].hand = k
      PROVE  OneCopy'
  <2>1. \A k \in Jobs : /\ Queued(k)' <= Queued(k)
                        /\ \A v \in Workers : Listed(v, k)' <= Listed(v, k)
    BY <1>0, <1>2 DEF Removed, One, Counted
  <2> QED BY <1>0, <1>2, <2>1, CopyStays
<1>3. CASE UNCHANGED vars
  <2>1. Same /\ UNCHANGED <<dispatched, sweep>>
    BY <1>3 DEF vars, Same, Queued, Listed
  <2> QED BY <1>1, <2>1
<1>4. ASSUME NEW j \in Jobs, Dispatch(j), UNCHANGED <<workVars, reclaimVars>>
      PROVE  OneCopy'
  <2>1. Pushed(j) /\ sweep' = sweep
    BY <1>0, <1>4, DispatchLists DEF reclaimVars
  <2> QED BY <1>0, <1>4, <2>1, CopyDispatched
<1>5. ASSUME NEW w \in Workers, ProcessStep(w)
      PROVE  OneCopy'
  <2>1. /\ Same /\ dispatched' = dispatched
        /\ \A v \in Workers : sweep'[v] = sweep[v] \/ sweep'[v] = Idle
    BY <1>0, <1>5, ProcessEffect
  <2> QED BY <1>1, <2>1 DEF Idle
<1>6. ASSUME NEW w \in Workers, SweepEmpty(w) \/ SweepError(w), UNCHANGED reclaimVars
      PROVE  OneCopy'
  <2>1. UNCHANGED <<dispatched, sweep>> /\ (Same \/ \E j \in Jobs : Queued(j) > 0 /\ Taken(w, j))
    BY <1>0, <1>6, PollEffect
  <2> QED BY <1>0, <1>1, <2>1, CopyTaken
<1>7. ASSUME NEW w \in Workers, NEW s \in Slots, TaskStep(w, s), UNCHANGED reclaimVars
      PROVE  OneCopy'
  <2>1. /\ UNCHANGED <<dispatched, sweep>>
        /\ \/ Same
           \/ \E j \in Jobs : Removed(w, j)
           \/ \E j \in Jobs : Queued(j) > 0 /\ Taken(w, j)
    BY <1>0, <1>7, TaskEffect DEF TakesJob, DropsJob, KeepsJob, LeavesJob, Strikes
  <2> QED BY <1>0, <1>1, <1>2, <2>1, CopyTaken
<1>8. ASSUME NEW w \in Workers, SweepStep(w), UNCHANGED workVars
      PROVE  OneCopy'
  <2>1. /\ dispatched' = dispatched /\ OtherSweeps(w)
        /\ Rests(w) \/ (\E j \in Jobs : Pops(w, j)) \/ GivesUp(w) \/ Requeues(w)
    BY <1>0, <1>8, SweepEffect DEF PushesOne
  <2>2. ASSUME Ends(w) \/ Advances(w) \/ Looks(w) \/ Opens(w) \/ Grips(w) \/ LetsGo(w)
        PROVE  \A v \in Workers, k \in Jobs : sweep'[v].hand = k => sweep[v].hand = k
    BY <2>1, <2>2 DEF OtherSweeps, Ends, Idle, Advances, Looks, Opens, Grips, LetsGo
  <2>3. CASE Rests(w) \/ GivesUp(w)
    BY <1>1, <2>1, <2>2, <2>3 DEF Rests, GivesUp
  <2>4. ASSUME NEW j \in Jobs, Pops(w, j)
        PROVE  OneCopy'
    <3> DEFINE u == Head(sweep[w].keys)[1]
    <3>1. u \in Workers /\ Listed(u, j) > 0 /\ Removed(u, j)
      BY <2>4 DEF Pops, PopsOff
    <3> HIDE DEF u
    <3>2. CASE PicksUp(w, j)
      BY <1>0, <2>1, <3>1, <3>2, CopyPicked DEF PicksUp
    <3>3. CASE sweep' = sweep \/ Ends(w) \/ Advances(w)
      BY <1>2, <2>1, <2>2, <3>1, <3>3
    <3> QED BY <2>4, <3>2, <3>3 DEF Pops
  <2>5. CASE Requeues(w)
    <3>1. sweep[w].pc \in HandPCs /\ Pushed(sweep[w].hand) /\ sweep'[w].hand = NoJob
      BY <2>5 DEF Requeues, LetsGo
    <3>2. sweep[w].hand \in Jobs
      BY <1>0, <3>1, OpenList
    <3> QED BY <1>0, <2>1, <3>1, <3>2, CopyRequeued
  <2> QED BY <2>1, <2>3, <2>4, <2>5
<1> QED BY <1>3, <1>4, <1>5, <1>6, <1>7, <1>8 DEF Next, WorkStep, ProcessStep

LEMMA InitOneCopy == Init => OneCopy
<1> SUFFICES ASSUME Init PROVE OneCopy
  OBVIOUS
<1>1. \A j : Positions(<<>>, j) = {}
  BY DEF Positions
<1>2. \A j \in Jobs : Queued(j) = 0 /\ \A w \in Workers : Listed(w, j) = 0
  BY <1>1, FS_EmptySet DEF Init, BrokerInit, Queued, Listed, Copies
<1>3. \A w \in Workers : sweep[w].hand = NoJob
  BY DEF Init, ReclaimInit, Idle
<1> QED BY <1>2, <1>3 DEF OneCopy

LEMMA AlwaysOneCopy ==
  ASSUME "dup" \notin Faults, "twice" \notin Faults
  PROVE  Spec => []OneCopy
<1>1. Placed /\ Placed' /\ OneCopy /\ [Next]_vars => OneCopy'
  BY NextOneCopy
<1> QED BY <1>1, InitOneCopy, AlwaysPlaced, PTL DEF Spec

-------------------------------------------------------------------------------
(***************************************************************************)
(* Every goroutine of a running process has an entry on its list.          *)
(***************************************************************************)
Holding(w, j) == {s \in Slots : task[w][s].job = j}

\* A process that has not started runs no goroutine.
Manned ==
  /\ \A w \in Workers : status[w] = "new" => \A s \in Slots : task[w][s] = Free
  /\ \A w \in Workers, j \in Jobs : status[w] = "up" => Cardinality(Holding(w, j)) <= Listed(w, j)

LEMMA HoldingCount ==
  ASSUME NEW w \in Workers, NEW j
  PROVE  IsFiniteSet(Holding(w, j)) /\ Cardinality(Holding(w, j)) \in Nat
<1>1. Holding(w, j) \in SUBSET Slots
  BY DEF Holding
<1> QED BY <1>1, FS_Subset, FS_CardinalityType

\* One goroutine changes what it works on.
LEMMA HoldingMoves ==
  ASSUME NEW w \in Workers, NEW s \in Slots, Others(w, s), NEW j
  PROVE  /\ \A v \in Workers : v # w => Holding(v, j)' = Holding(v, j)
         /\ task'[w][s].job = j => Cardinality(Holding(w, j)') <= Cardinality(Holding(w, j)) + 1
         /\ task'[w][s].job = task[w][s].job => Holding(w, j)' = Holding(w, j)
         /\ task'[w][s].job # j => Cardinality(Holding(w, j)') <= Cardinality(Holding(w, j))
         /\ task'[w][s].job # j /\ task[w][s].job = j
              => /\ Cardinality(Holding(w, j)) >= 1
                 /\ Cardinality(Holding(w, j)') = Cardinality(Holding(w, j)) - 1
<1> DEFINE H == Holding(w, j)
           G == Holding(w, j)'
<1>0. IsFiniteSet(H) /\ Cardinality(H) \in Nat
  BY HoldingCount
<1>1. \A r \in Slots : r # s => (r \in G <=> r \in H)
  BY DEF Holding, Others
<1>2. s \in G <=> task'[w][s].job = j
  BY DEF Holding
<1>3. s \in H <=> task[w][s].job = j
  BY DEF Holding
<1>4. H \subseteq Slots /\ G \subseteq Slots
  BY DEF Holding
<1>5. /\ Cardinality(H \cup {s}) = IF s \in H THEN Cardinality(H) ELSE Cardinality(H) + 1
      /\ Cardinality(H \ {s}) = IF s \in H THEN Cardinality(H) - 1 ELSE Cardinality(H)
      /\ Cardinality(H \ {s}) \in Nat
  BY <1>0, FS_AddElement, FS_RemoveElement, FS_CardinalityType
<1>6. \A v \in Workers : v # w => Holding(v, j)' = Holding(v, j)
  BY DEF Holding, Others
<1> HIDE DEF H, G
<1>7. ASSUME task'[w][s].job = j PROVE Cardinality(G) <= Cardinality(H) + 1
  <2>1. G = H \cup {s}
    BY <1>1, <1>2, <1>4, <1>7
  <2> QED BY <1>0, <1>5, <2>1
<1>8. task'[w][s].job = task[w][s].job => G = H
  BY <1>1, <1>2, <1>3, <1>4
<1>9. ASSUME task'[w][s].job # j
      PROVE  /\ Cardinality(G) <= Cardinality(H)
             /\ task[w][s].job = j => Cardinality(H) >= 1 /\ Cardinality(G) = Cardinality(H) - 1
  <2>1. G = H \ {s}
    BY <1>1, <1>2, <1>4, <1>9
  <2> QED BY <1>0, <1>3, <1>5, <2>1
<1> QED BY <1>6, <1>7, <1>8, <1>9 DEF H, G

\* No LREM that is sent again can take an entry that belongs to another.
NoSpare == ResendLimit = 0 \/ \A w \in Workers, j \in Jobs : Listed(w, j) <= 1

LEMMA MannedByTask ==
  ASSUME Placed, Manned, NoSpare, NEW w \in Workers, NEW s \in Slots, TaskStep(w, s), UNCHANGED reclaimVars
  PROVE  Manned'
<1>1. /\ Sorted' /\ status' = status /\ Others(w, s)
      /\ \/ \E j \in Jobs : TakesJob(w, s, j)
         \/ DropsJob(w, s)
         \/ KeepsJob(w, s)
         \/ LeavesJob(w, s)
  <2>1. ~Strikes(w, s)
    BY CountTypes DEF Strikes, NoSpare, Placed
  <2> QED BY <2>1, TaskEffect DEF Placed
<1>2. ASSUME NEW v \in Workers, status[v] = "new", NEW r \in Slots
      PROVE  task'[v][r] = Free
  <2>1. task[v][r] = Free
    BY <1>2 DEF Manned
  <2>2. CASE v = w /\ r = s
    <3>1. status[w] = "new" /\ task[w][s].pc = "free"
      BY <1>2, <2>1, <2>2 DEF Free
    <3> QED BY <1>1, <3>1 DEF TakesJob, Works, DropsJob, KeepsJob, LeavesJob
  <2> QED BY <1>1, <2>1, <2>2 DEF Others
<1>3. ASSUME NEW v \in Workers, status[v] = "up", NEW k \in Jobs
      PROVE  Cardinality(Holding(v, k)') <= Listed(v, k)'
  <2>0. /\ Cardinality(Holding(v, k)) <= Listed(v, k)
        /\ Cardinality(Holding(v, k)) \in Nat /\ Listed(v, k) \in Nat
    BY <1>3, HoldingCount, CountTypes DEF Manned, Placed
  <2> DEFINE c == Cardinality(Holding(v, k))
             d == Cardinality(Holding(v, k)')
             l == Listed(v, k)
             m == Listed(v, k)'
  <2>1. c \in Nat /\ d \in Nat /\ l \in Nat /\ c <= l
    <3>1. Holding(v, k)' \in SUBSET Slots
      BY DEF Holding
    <3> QED BY <2>0, <3>1, FS_Subset, FS_CardinalityType
  <2>2. v # w => d = c
    BY <1>1, HoldingMoves
  <2>3. ASSUME v = w
        PROVE  /\ task'[w][s].job = k => d <= c + 1
               /\ task'[w][s].job = task[w][s].job => d = c
               /\ task'[w][s].job # k => d <= c
               /\ task'[w][s].job # k /\ task[w][s].job = k => c >= 1 /\ d = c - 1
    BY <1>1, <2>3, HoldingMoves
  <2>4. ASSUME NEW j \in Jobs, TakesJob(w, s, j)
        PROVE  d <= m
    <3>1. m = l + One(v = w /\ k = j) /\ task'[w][s].job = j
      BY <2>4 DEF TakesJob, Taken
    <3> HIDE DEF c, d, l, m
    <3>2. m = l + 1 \/ (m = l /\ ~(v = w /\ k = j))
      BY <2>1, <3>1 DEF One
    <3> QED BY <2>1, <2>2, <2>3, <3>1, <3>2
  <2>5. ASSUME DropsJob(w, s) PROVE d <= m
    <3>1. m = l - One(v = w /\ k = task[w][s].job /\ l > 0) /\ task'[w][s].job = NoJob
      BY <2>5 DEF DropsJob, Removed, Free
    <3>2. NoJob # k
      OBVIOUS
    <3> HIDE DEF c, d, l, m
    <3>3. (m = l /\ ~(v = w /\ k = task[w][s].job /\ l > 0)) \/ (m = l - 1 /\ v = w /\ k = task[w][s].job)
      BY <2>1, <3>1 DEF One
    <3> QED BY <2>1, <2>2, <2>3, <3>1, <3>2, <3>3
  <2>6. ASSUME KeepsJob(w, s) PROVE d <= m
    <3>1. m = l /\ task'[w][s].job = task[w][s].job
      BY <2>6 DEF KeepsJob, Same
    <3> HIDE DEF c, d, l, m
    <3> QED BY <2>1, <2>2, <2>3, <3>1
  <2>7. ASSUME LeavesJob(w, s) PROVE d <= m
    <3>1. m = l /\ task'[w][s].job = NoJob /\ NoJob # k
      BY <2>7 DEF LeavesJob, Same, Free
    <3> HIDE DEF c, d, l, m
    <3> QED BY <2>1, <2>2, <2>3, <3>1
  <2> QED BY <1>1, <2>4, <2>5, <2>6, <2>7
<1> QED BY <1>1, <1>2, <1>3 DEF Manned

\* The other steps give a running process no goroutine and take no entry
\* from its lists.
LEMMA MannedByOthers ==
  ASSUME Placed, Manned,
         \A v \in Workers : status'[v] = "new" => status[v] = "new",
         \A v \in Workers, k \in Jobs : status[v] = "up" => Listed(v, k)' >= Listed(v, k),
         \A v \in Workers : status'[v] = "up" => status[v] \in {"new", "up"},
         \A v \in Workers : status'[v] \in {"new", "up"} => task'[v] = task[v],
         Sorted'
  PROVE  Manned'
<1>1. ASSUME NEW v \in Workers, status'[v] = "up", NEW k \in Jobs
      PROVE  Cardinality(Holding(v, k)') <= Listed(v, k)'
  <2>0. /\ Holding(v, k)' = Holding(v, k)
        /\ Cardinality(Holding(v, k)) \in Nat /\ Listed(v, k) \in Nat
    BY <1>1, HoldingCount, CountTypes DEF Placed, Holding
  <2>1. Listed(v, k)' \in Nat
    BY CountTypesNext
  <2>2. CASE status[v] = "up"
    BY <2>0, <2>1, <2>2 DEF Manned
  <2>3. CASE status[v] = "new"
    <3>1. Holding(v, k) = {}
      BY <2>3 DEF Manned, Holding, Free
    <3> QED BY <2>0, <2>1, <3>1, FS_EmptySet
  <2> QED BY <1>1, <2>2, <2>3
<1> QED BY <1>1 DEF Manned

LEMMA NextManned ==
  ASSUME "lapse" \notin Faults, "join" \notin Faults, Placed, Seen, Manned, NoSpare, [Next]_vars
  PROVE  Manned'
<1>0. TypeInv /\ Sorted /\ HandShape /\ BrokerTypeOK /\ Sorted'
  BY NextPlaced DEF Placed, TypeInv, TypeOK
<1>n. \A k \in Jobs : \A v \in Workers : Listed(v, k) \in Nat
  BY <1>0, CountTypes
<1>1. CASE UNCHANGED vars
  BY <1>1 DEF vars, Manned, Holding, Listed
<1>2. ASSUME UNCHANGED <<status, task>>, Same
      PROVE  Manned'
  BY <1>0, <1>2, <1>n, MannedByOthers DEF Same
<1>3. ASSUME NEW j \in Jobs, Dispatch(j), UNCHANGED <<workVars, reclaimVars>>
      PROVE  Manned'
  <2>1. Pushed(j) /\ UNCHANGED <<status, task>>
    BY <1>0, <1>3, DispatchLists DEF Dispatch, fleetVars, workVars
  <2> QED BY <1>0, <1>n, <2>1, MannedByOthers DEF Pushed
<1>4. ASSUME NEW w \in Workers, ProcessStep(w)
      PROVE  Manned'
  <2>1. /\ Same
        /\ \A v \in Workers : v # w => status'[v] = status[v] /\ task'[v] = task[v]
        /\ task'[w] = task[w] \/ status'[w] \in {"down", "crashed"}
    BY <1>0, <1>4, ProcessEffect
  <2>2. /\ status'[w] = "new" => status[w] = "new"
        /\ status'[w] = "up" => status[w] \in {"new", "up"}
    BY <1>0, <1>4, StatusMoves
  <2> QED BY <1>0, <1>n, <2>1, <2>2, MannedByOthers DEF Same
<1>5. ASSUME NEW w \in Workers, SweepEmpty(w) \/ SweepError(w), UNCHANGED reclaimVars
      PROVE  Manned'
  <2>1. UNCHANGED <<status, task>> /\ (Same \/ \E j \in Jobs : Taken(w, j))
    BY <1>0, <1>5, PollEffect
  <2>2. CASE \E j \in Jobs : Taken(w, j)
    <3>1. PICK j \in Jobs : Taken(w, j)
      BY <2>2
    <3>2. \A v \in Workers, k \in Jobs : Listed(v, k)' >= Listed(v, k)
      BY <1>n, <3>1 DEF Taken, One
    <3> QED BY <1>0, <2>1, <3>2, MannedByOthers
  <2> QED BY <1>2, <2>1, <2>2
<1>6. ASSUME NEW w \in Workers, NEW s \in Slots, TaskStep(w, s), UNCHANGED reclaimVars
      PROVE  Manned'
  BY <1>6, MannedByTask
<1>7. ASSUME NEW w \in Workers, SweepStep(w), UNCHANGED workVars
      PROVE  Manned'
  <2>1. /\ UNCHANGED <<status, task>>
        /\ Rests(w) \/ (\E j \in Jobs : Pops(w, j)) \/ GivesUp(w) \/ Requeues(w) \/ PushesOne(w)
    BY <1>0, <1>7, SweepEffect
  <2>2. CASE Requeues(w) \/ PushesOne(w)
    <3>1. \A v \in Workers, k \in Jobs : Listed(v, k)' = Listed(v, k)
      BY <2>2 DEF Requeues, PushesOne, Pushed
    <3> QED BY <1>0, <1>n, <2>1, <3>1, MannedByOthers
  <2>3. ASSUME NEW j \in Jobs, Pops(w, j)
        PROVE  Manned'
    <3> DEFINE u == Head(sweep[w].keys)[1]
    <3>1. sweep[w].pc = "drain" /\ Removed(u, j)
      BY <2>3 DEF Pops, PopsOff
    <3>2. sweep[w].keys \in Seq(Workers \X Priorities) /\ sweep[w].keys # <<>>
      BY <1>0, <3>1, OpenList
    <3>3. u \in Workers /\ u \in Opened(w)
      <4>1. 1 \in 1..Len(sweep[w].keys) /\ Head(sweep[w].keys) = sweep[w].keys[1]
        BY <3>2, EmptySeq
      <4>2. Head(sweep[w].keys) \in Workers \X Priorities
        BY <1>0, <3>1, OpenList
      <4> QED BY <4>1, <4>2 DEF Opened
    <3>4. status[u] # "up"
      BY <3>3 DEF Seen
    <3> HIDE DEF u
    <3>5. \A v \in Workers, k \in Jobs : status[v] = "up" => Listed(v, k)' >= Listed(v, k)
      BY <1>n, <3>1, <3>4 DEF Removed, One
    <3> QED BY <1>0, <2>1, <3>5, MannedByOthers
  <2> QED BY <1>2, <2>1, <2>2, <2>3 DEF Rests, GivesUp
<1> QED BY <1>1, <1>3, <1>4, <1>5, <1>6, <1>7 DEF Next, WorkStep, ProcessStep

LEMMA InitManned == Init => Manned
<1> SUFFICES ASSUME Init PROVE Manned
  OBVIOUS
<1>1. \A w \in Workers : status[w] = "new" /\ \A s \in Slots : task[w][s] = Free
  BY DEF Init, BrokerInit, WorkInit
<1> QED BY <1>1 DEF Manned

LEMMA AlwaysManned ==
  ASSUME "lapse" \notin Faults, "join" \notin Faults,
         ResendLimit = 0 \/ ("dup" \notin Faults /\ "twice" \notin Faults)
  PROVE  Spec => []Manned
<1>1. Placed /\ Seen /\ NoSpare /\ Manned /\ [Next]_vars => Manned'
  BY NextManned
<1>2. CASE ResendLimit = 0
  <2>1. NoSpare
    BY <1>2 DEF NoSpare
  <2> QED BY <1>1, <2>1, InitManned, AlwaysPlaced, AlwaysSeen, PTL DEF Spec
<1>3. CASE "dup" \notin Faults /\ "twice" \notin Faults
  <2>1. OneCopy => NoSpare
    BY DEF OneCopy, NoSpare
  <2>2. Spec => []OneCopy
    BY <1>3, AlwaysOneCopy
  <2> QED BY <1>1, <2>1, <2>2, InitManned, AlwaysPlaced, AlwaysSeen, PTL DEF Spec
<1> QED BY <1>2, <1>3

\* Every goroutine of a running process finds its delivery in the process's
\* own processing list, one entry per goroutine even when a job is dispatched
\* twice: Pop adds an entry with each goroutine, Ack and the purge remove one
\* with it, and no sweep opens the list of a running process.  An LREM that is
\* sent again takes a second entry, so where replies are lost a job must not
\* have several copies.
THEOREM DeliveriesListed ==
  ASSUME "lapse" \notin Faults, "join" \notin Faults,
         ResendLimit = 0 \/ ("dup" \notin Faults /\ "twice" \notin Faults)
  PROVE  Spec => []InFlightListed
<1>1. Manned => InFlightListed
  BY DEF Manned, InFlightListed, Holding, Listed, Copies
<1> QED BY <1>1, AlwaysManned, PTL

===============================================================================
