------------------------- MODULE JobRefinementProofs -------------------------
(***************************************************************************)
(* A job dispatched once exists once: on a queue, on one processing list   *)
(* or in the hands of one sweep, until its outcome is out or it is lost.   *)
(* On that rests the refinement: every step of a worker, a sweep or the    *)
(* environment is a step of JobLife, the abstract life of one job, or      *)
(* drops what a dead worker had in hand, or changes nothing JobLife sees.  *)
(* The hypotheses of the fleet's lists hold throughout: no heartbeat key   *)
(* of a running process lapses and nobody registers between two SCANs.     *)
(***************************************************************************)
EXTENDS JobDeliveryProofs, JobRefinement

USE BrokerAssumption, WorkerAssumption, ReclaimAssumption, LimitType

-------------------------------------------------------------------------------
(***************************************************************************)
(* Where a job exists once, an LREM that is sent again finds nothing, and  *)
(* where an RPUSH is not sent again a sweep lets go of what it pushes.     *)
(***************************************************************************)
LEMMA NoneStruck ==
  ASSUME TypeInv, Sorted, OneCopy, NEW w \in Workers, NEW s \in Slots
  PROVE  ~RemoveResent(w, s)
<1> SUFFICES ASSUME RemoveResent(w, s) PROVE FALSE
  OBVIOUS
<1> DEFINE j == task[w][s].job
<1>1. task[w][s].pc \in {"ack", "purge"} /\ Listed(w, j) > 1
  BY DEF RemoveResent, Listed, Copies
<1>2. j \in Jobs
  BY <1>1 DEF TypeInv, TaskShape
<1>3. Listed(w, j) <= 1 /\ Listed(w, j) \in Nat
  BY <1>2, CountTypes DEF OneCopy
<1> HIDE DEF j
<1> QED BY <1>1, <1>3

LEMMA OneTaskEffect ==
  ASSUME TypeInv, Sorted, OneCopy, NEW w \in Workers, NEW s \in Slots, TaskStep(w, s),
         UNCHANGED reclaimVars
  PROVE  /\ Sorted' /\ UNCHANGED <<status, beat, dispatched, sweep, lost>> /\ Others(w, s)
         /\ \/ \E j \in Jobs : TakesJob(w, s, j)
            \/ DropsJob(w, s)
            \/ KeepsJob(w, s)
            \/ LeavesJob(w, s)
<1>1. ~Strikes(w, s)
  <2> SUFFICES ASSUME Strikes(w, s) PROVE FALSE
    OBVIOUS
  <2> DEFINE j == task[w][s].job
  <2>1. j \in Jobs /\ Listed(w, j) > 1
    BY DEF Strikes
  <2>2. Listed(w, j) <= 1 /\ Listed(w, j) \in Nat
    BY <2>1, CountTypes DEF OneCopy
  <2> HIDE DEF j
  <2> QED BY <2>1, <2>2
<1> QED BY <1>1, TaskEffect

LEMMA OneSweepEffect ==
  ASSUME TypeInv, Sorted, HandShape, "twice" \notin Faults, NEW w \in Workers, SweepStep(w),
         UNCHANGED workVars
  PROVE  /\ Sorted' /\ UNCHANGED <<status, beat, dispatched, task>> /\ OtherSweeps(w)
         /\ Rests(w) \/ (\E j \in Jobs : Pops(w, j)) \/ GivesUp(w) \/ Requeues(w)
BY SweepEffect DEF PushesOne

-------------------------------------------------------------------------------
(***************************************************************************)
(* What a goroutine and a sweep write besides the lists.                   *)
(***************************************************************************)
Claimed == {"run", "mark", "publish"}

TaskWrites(w, s) ==
  LET t == task[w][s]
      u == task'[w][s]
  IN  /\ \/ claim' = claim
         \/ t.pc = "claim" /\ Works(w) /\ claim' = claim \cup {t.job}
      /\ u.pc \in Claimed => t.pc \in Claimed \/ (t.pc = "claim" /\ t.job \in claim')
      /\ u.pc = "ack" => \/ outcomes'[t.job] # {}
                         \/ t.pc = "claim" /\ Works(w) /\ t.job \in claim
                         \/ t.job \in dropped'
      /\ dropped \subseteq dropped' /\ \A k \in Jobs : outcomes[k] \subseteq outcomes'[k]

LEMMA TaskKeys ==
  ASSUME TypeInv, NEW w \in Workers, NEW s \in Slots, TaskStep(w, s), ~RemoveResent(w, s)
  PROVE  TaskWrites(w, s)
<1> DEFINE t == task[w][s]
           u == task'[w][s]
<1>0. /\ BrokerTypeOK /\ WorkTypeOK /\ t \in Task
      /\ t.pc # "free" => t.job \in Jobs
  BY DEF TypeInv, TypeOK, WorkTypeOK, TaskShape
<1>d. dropped \subseteq dropped'
  BY DEF TaskStep, Checkout, Purge, Claim, ClaimDuplicate, ClaimResent, ClaimError, CancelJob,
         RunReturns, MarkPublished, MarkOutage, Publish, PublishError, Ack, AckError
<1>1. ASSUME claim' = claim, outcomes' = outcomes, u.pc \notin Claimed \cup {"ack"}
      PROVE  TaskWrites(w, s)
  BY <1>1, <1>d DEF TaskWrites
<1>2. ASSUME claim' = claim, outcomes' = outcomes, t.pc \in Claimed, u.pc # "ack"
      PROVE  TaskWrites(w, s)
  BY <1>2, <1>d DEF TaskWrites
<1>3. ASSUME Leave(w, s) PROVE u.pc = "free"
  <2>1. u = Free
    BY <1>0, <1>3, BecomeEffect DEF Leave
  <2> QED BY <2>1 DEF Free
<1>4. CASE Checkout(w, s)
  <2> DEFINE j == Last(queue[at[w]])
             n == [Free EXCEPT !.pc = IF j \in Malformed THEN "purge" ELSE "claim", !.job = j]
  <2>1. Become(w, s, n) /\ claim' = claim /\ outcomes' = outcomes
    BY <1>4 DEF Checkout, keyVars, apiVars
  <2>2. u = n
    BY <1>0, <2>1, BecomeEffect
  <2> HIDE DEF j
  <2>3. n.pc \in {"purge", "claim"}
    BY DEF Free
  <2> QED BY <1>1, <2>1, <2>2, <2>3 DEF Claimed
<1>5. CASE Purge(w, s) \/ MarkOutage(w, s) \/ Ack(w, s) \/ AckError(w, s)
  <2>1. Leave(w, s) /\ claim' = claim /\ outcomes' = outcomes
    BY <1>5 DEF Purge, MarkOutage, Ack, AckError, keyVars, apiVars
  <2> QED BY <1>1, <1>3, <2>1 DEF Claimed
<1>6. CASE Claim(w, s)
  <2> DEFINE n == [t EXCEPT !.pc = "mark", !.verdict = "failed", !.part = 1, !.total = 1]
             m == [t EXCEPT !.pc = "run"]
  <2>1. n.pc = "mark" /\ m.pc = "run"
    BY <1>0 DEF Task
  <2>2. /\ Become(w, s, n) \/ Become(w, s, m)
        /\ t.pc = "claim" /\ Works(w) /\ claim' = claim \cup {t.job} /\ outcomes' = outcomes
    BY <1>6 DEF Claim, apiVars
  <2> HIDE DEF n, m
  <2>3. u = n \/ u = m
    BY <1>0, <2>2, BecomeEffect
  <2> QED BY <1>d, <2>1, <2>2, <2>3 DEF TaskWrites
<1>7. CASE ClaimDuplicate(w, s)
  <2>1. t.pc = "claim" /\ Works(w) /\ t.job \in claim /\ claim' = claim /\ outcomes' = outcomes
    BY <1>7 DEF ClaimDuplicate, keyVars, apiVars
  <2>2. u = [t EXCEPT !.pc = "ack", !.verdict = "duplicate"]
    BY <1>0, <1>7, BecomeEffect DEF ClaimDuplicate
  <2>3. u.pc = "ack"
    BY <1>0, <2>2 DEF Task
  <2> QED BY <1>d, <2>1, <2>3 DEF TaskWrites, Claimed
<1>r. CASE ClaimResent(w, s)
  <2>1. /\ t.pc = "claim" /\ Works(w) /\ claim' = claim \cup {t.job} /\ outcomes' = outcomes
        /\ t.job \in dropped'
    BY <1>r DEF ClaimResent, Resends, LosesReply, Works, apiVars
  <2>2. u = [t EXCEPT !.pc = "ack", !.verdict = "duplicate"]
    BY <1>0, <1>r, BecomeEffect DEF ClaimResent
  <2>3. u.pc = "ack"
    BY <1>0, <2>2 DEF Task
  <2> QED BY <1>d, <2>1, <2>3 DEF TaskWrites, Claimed
<1>8. CASE ClaimError(w, s)
  <2>1. /\ Leave(w, s) /\ outcomes' = outcomes
        /\ claim' = claim \/ (t.pc = "claim" /\ Works(w) /\ claim' = claim \cup {t.job})
    BY <1>8 DEF ClaimError, LosesReply, Works, apiVars
  <2>2. u.pc = "free"
    BY <1>3, <2>1
  <2> QED BY <1>d, <2>1, <2>2 DEF TaskWrites, Claimed
<1>9. CASE CancelJob(w, s)
  <2>1. t.pc = "run" /\ claim' = claim /\ outcomes' = outcomes
    BY <1>9 DEF CancelJob, keyVars, apiVars
  <2>2. u = [t EXCEPT !.cancelled = TRUE]
    BY <1>0, <1>9, BecomeEffect DEF CancelJob
  <2>3. u.pc = t.pc
    BY <1>0, <2>2 DEF Task
  <2> QED BY <1>2, <2>1, <2>3 DEF Claimed
<1>10. CASE RunReturns(w, s)
  <2>1. PICK v, n :
          Become(w, s, [task[w][s] EXCEPT !.pc = "mark", !.verdict = v, !.part = 1, !.total = n])
    BY <1>10, Zenon DEF RunReturns
  <2>2. t.pc = "run" /\ claim' = claim /\ outcomes' = outcomes
    BY <1>10 DEF RunReturns, keyVars, apiVars
  <2>3. u = [t EXCEPT !.pc = "mark", !.verdict = v, !.part = 1, !.total = n]
    BY <1>0, <2>1, BecomeEffect
  <2>4. u.pc = "mark"
    BY <1>0, <2>3 DEF Task
  <2> QED BY <1>2, <2>2, <2>4 DEF Claimed
<1>11. CASE MarkPublished(w, s)
  <2>1. t.pc = "mark" /\ claim' = claim /\ outcomes' = outcomes
    BY <1>11 DEF MarkPublished, apiVars
  <2>2. u = [t EXCEPT !.pc = "publish"]
    BY <1>0, <1>11, BecomeEffect DEF MarkPublished
  <2>3. u.pc = "publish"
    BY <1>0, <2>2 DEF Task
  <2> QED BY <1>2, <2>1, <2>3 DEF Claimed
<1>12. ASSUME Emit(t), t.job \in Jobs
       PROVE  /\ \A k \in Jobs : outcomes[k] \subseteq outcomes'[k]
              /\ t.part = t.total => outcomes'[t.job] # {}
  BY <1>0, <1>12 DEF Emit, BrokerTypeOK
<1>13. CASE Publish(w, s)
  <2> DEFINE n == [t EXCEPT !.pc = "ack"]
             m == [t EXCEPT !.pc = "mark", !.part = @ + 1]
  <2>1. t.pc = "publish" /\ Emit(t) /\ claim' = claim /\ Become(w, s, IF t.part = t.total THEN n ELSE m)
    BY <1>13 DEF Publish, keyVars
  <2>2. n.pc = "ack" /\ m.pc = "mark"
    BY <1>0 DEF Task
  <2>3. u = IF t.part = t.total THEN n ELSE m
    BY <1>0, <2>1, BecomeEffect
  <2> HIDE DEF n, m
  <2>4. t.job \in Jobs
    BY <1>0, <2>1
  <2> QED BY <1>d, <1>12, <2>1, <2>2, <2>3, <2>4 DEF TaskWrites, Claimed
<1>14. CASE PublishError(w, s)
  <2>1. t.pc = "publish" /\ Leave(w, s) /\ claim' = claim /\ (Emit(t) \/ outcomes' = outcomes)
    BY <1>14 DEF PublishError, keyVars
  <2>2. u.pc = "free" /\ t.job \in Jobs
    BY <1>0, <1>3, <2>1
  <2>3. \A k \in Jobs : outcomes[k] \subseteq outcomes'[k]
    BY <1>12, <2>1, <2>2
  <2> QED BY <1>d, <2>1, <2>2, <2>3 DEF TaskWrites, Claimed
<1> QED BY <1>4, <1>5, <1>6, <1>7, <1>r, <1>8, <1>9, <1>10, <1>11, <1>13, <1>14 DEF TaskStep

\* A sweep drops the claim of the job in its hands before it pushes the job,
\* and gets there only with a job whose marker it did not find.
Sending == {"release", "push", "fail"}

LEMMA SweepKeys ==
  ASSUME TypeInv, "twice" \notin Faults, NEW w \in Workers, SweepStep(w)
  PROVE  /\ claim' = claim \/ (sweep[w].pc = "release" /\ claim' = claim \ {sweep[w].hand})
         /\ marker' = marker
         /\ sweep'[w].pc = "push" => /\ sweep[w].pc = "release" /\ sweep'[w].hand = sweep[w].hand
                                     /\ sweep[w].hand \notin claim'
         /\ sweep'[w].pc = "release" =>
              /\ sweep'[w].hand = sweep[w].hand
              /\ \/ sweep[w].pc = "marker" /\ sweep'[w].sent = sweep[w].sent /\ sweep[w].hand \notin marker
                 \/ sweep[w].pc = "release" /\ sweep[w].hand \notin claim'
         /\ sweep'[w].pc \notin Sending =>
              sweep'[w].sent = 0 \/ (sweep'[w].sent = sweep[w].sent /\ sweep[w].pc \notin Sending)
<1>0. ReclaimTypeOK /\ sweep[w] \in Sweep
  BY DEF TypeInv, TypeOK, ReclaimTypeOK
<1>1. CASE Release(w)
  <2>1. sweep'[w] = [sweep[w] EXCEPT !.pc = "push", !.sent = 0]
    BY <1>0, <1>1, ProceedEffect DEF Release
  <2>2. sweep'[w].hand = sweep[w].hand /\ sweep'[w].pc = "push"
    BY <1>0, <2>1 DEF Sweep
  <2> QED BY <1>1, <2>2 DEF Release, DropClaim, Sending
<1>r. CASE ReleaseResent(w)
  <2> DEFINE n == sweep[w].sent + 1
  <2>1. sweep'[w] = [sweep[w] EXCEPT !.sent = n] /\ sweep[w].pc = "release"
    BY <1>0, <1>r, ProceedEffect DEF ReleaseResent
  <2> HIDE DEF n
  <2>2. sweep'[w].hand = sweep[w].hand /\ sweep'[w].pc = "release"
    BY <1>0, <2>1 DEF Sweep
  <2> QED BY <1>r, <2>1, <2>2 DEF ReleaseResent, DropClaim, Sending
<1>2. CASE HasPublished(w)
  <2>1. sweep[w].pc = "marker" /\ UNCHANGED <<claim, marker>>
    BY <1>2 DEF HasPublished, keyVars
  <2>2. CASE sweep[w].hand \in marker \/ sweep[w].attempts > MaxReclaims
    <3>1. sweep'[w] = [sweep[w] EXCEPT !.pc = "fail"]
      BY <1>0, <1>2, <2>2, ProceedEffect DEF HasPublished, ToFail
    <3>2. sweep'[w].pc = "fail"
      BY <1>0, <3>1 DEF Sweep
    <3> QED BY <2>1, <3>2 DEF Sending
  <2>3. CASE ~(sweep[w].hand \in marker \/ sweep[w].attempts > MaxReclaims)
    <3>1. sweep'[w] = [sweep[w] EXCEPT !.pc = "release"]
      BY <1>0, <1>2, <2>3, ProceedEffect DEF HasPublished
    <3>2. sweep'[w].pc = "release" /\ sweep'[w].hand = sweep[w].hand /\ sweep'[w].sent = sweep[w].sent
      BY <1>0, <3>1 DEF Sweep
    <3> QED BY <2>1, <2>3, <3>2 DEF Sending
  <2> QED BY <2>2, <2>3
<1>3. CASE ~Release(w) /\ ~HasPublished(w) /\ ~ReleaseResent(w)
  <2>1. /\ claim' = claim \/ (sweep[w].pc = "release" /\ claim' = claim \ {sweep[w].hand})
        /\ marker' = marker
    <3>1. CASE ReleaseError(w)
      BY <3>1 DEF ReleaseError, DropClaim
    <3>2. CASE ReadLive(w) \/ ScanKeys(w) \/ ScanError(w) \/ ListDrained(w) \/ PopOrphan(w)
      <4>1. UNCHANGED keyVars
        BY <3>2, Zenon DEF ReadLive, ScanKeys, ScanError, ListDrained, PopOrphan
      <4> QED BY <4>1 DEF keyVars
    <3>3. CASE PopOrphanError(w) \/ PopOrphanLost(w) \/ BumpReclaimCount(w) \/ BumpError(w)
      BY <3>3 DEF PopOrphanError, PopOrphanLost, BumpReclaimCount, BumpError, keyVars
    <3>4. CASE \/ HasPublishedError(w) \/ Requeue(w) \/ RequeueError(w) \/ Fail(w) \/ FailError(w)
      BY <3>4 DEF HasPublishedError, Requeue, RequeueError, Fail, FailError, keyVars
    <3> QED BY <1>3, <3>1, <3>2, <3>3, <3>4 DEF SweepStep, RequeueResent
  <2> DEFINE Fine(r) == /\ r.pc \notin {"push", "release"}
                        /\ r.pc \notin Sending =>
                             r.sent = 0 \/ (r.sent = sweep[w].sent /\ sweep[w].pc \notin Sending)
  <2>2. Fine(sweep'[w])
    <3>0. ASSUME NEW r, Proceed(w, r), Fine(r) PROVE Fine(sweep'[w])
      BY <1>0, <3>0, ProceedEffect
    <3>1. ASSUME Stop(w) PROVE Fine(sweep'[w])
      <4>1. Fine(Idle)
        BY DEF Idle
      <4> QED BY <3>0, <3>1, <4>1 DEF Stop
    <3>2. ASSUME sweep[w].pc = "drain", NextList(w) PROVE Fine(sweep'[w])
      <4> DEFINE r == [sweep[w] EXCEPT !.keys = Tail(@)]
      <4>1. r.pc = "drain" /\ r.sent = sweep[w].sent
        BY <1>0, <3>2 DEF Sweep
      <4>2. Stop(w) \/ Proceed(w, r)
        BY <3>2 DEF NextList
      <4> HIDE DEF r
      <4>3. Fine(r)
        BY <3>2, <4>1 DEF Sending
      <4> QED BY <3>0, <3>1, <4>2, <4>3
    <3>3. ASSUME sweep[w].pc = "drain", sweep' = sweep PROVE Fine(sweep'[w])
      BY <3>3 DEF Sending
    <3>4. ASSUME Continue(w) \/ ToFail(w) PROVE Fine(sweep'[w])
      <4> DEFINE c == [sweep[w] EXCEPT !.pc = "drain", !.hand = NoJob, !.attempts = 0, !.sent = 0]
                 g == [sweep[w] EXCEPT !.pc = "fail"]
      <4>1. Proceed(w, c) \/ Proceed(w, g)
        BY <3>4 DEF Continue, ToFail
      <4>2. c.pc = "drain" /\ c.sent = 0 /\ g.pc = "fail"
        BY <1>0 DEF Sweep
      <4> HIDE DEF c, g
      <4>3. Fine(c) /\ Fine(g)
        BY <4>2 DEF Sending
      <4> QED BY <3>0, <4>1, <4>3
    <3>5. CASE ReadLive(w)
      <4> DEFINE l == {v \in Workers : beat[v]} \cup {w}
                 r == [Idle EXCEPT !.pc = "scan", !.live = l]
      <4>1. Proceed(w, r)
        BY <3>5 DEF ReadLive
      <4> HIDE DEF l
      <4>2. r.pc = "scan" /\ r.sent = 0
        BY DEF Idle
      <4> HIDE DEF r
      <4>3. Fine(r)
        BY <4>2
      <4> QED BY <3>0, <4>1, <4>3
    <3>6. CASE ScanKeys(w)
      <4>1. PICK keys \in SetToSeqs(OrphanKeys(sweep[w].live)) :
              IF keys = <<>> THEN Stop(w)
              ELSE Proceed(w, [Idle EXCEPT !.pc = "drain", !.live = sweep[w].live, !.keys = keys])
        BY <3>6, Zenon DEF ScanKeys
      <4> DEFINE l == sweep[w].live
                 r == [Idle EXCEPT !.pc = "drain", !.live = l, !.keys = keys]
      <4>2. Stop(w) \/ Proceed(w, r)
        BY <4>1
      <4> HIDE DEF l
      <4>3. r.pc = "drain" /\ r.sent = 0
        BY DEF Idle
      <4> HIDE DEF r
      <4>4. Fine(r)
        BY <4>3
      <4> QED BY <3>0, <3>1, <4>2, <4>4
    <3>7. CASE PopOrphan(w)
      <4> DEFINE k == Head(sweep[w].keys)
                 j == Last(processing[k[1]][k[2]])
                 h == sweep[w].handled \cup {j}
                 r == [sweep[w] EXCEPT !.pc = "count", !.hand = j, !.handled = h]
      <4>1. sweep[w].pc = "drain" /\ (sweep' = sweep \/ Proceed(w, r))
        BY <3>7 DEF PopOrphan
      <4> HIDE DEF j, h
      <4>2. r.pc = "count" /\ r.sent = sweep[w].sent
        BY <1>0 DEF Sweep
      <4> HIDE DEF r
      <4>3. Fine(r)
        BY <4>1, <4>2 DEF Sending
      <4> QED BY <3>0, <3>3, <4>1, <4>3
    <3>8. CASE BumpReclaimCount(w)
      <4>1. PICK i \in Increments(w) :
              Proceed(w, [sweep[w] EXCEPT !.pc = "marker", !.attempts = reclaims[sweep[w].hand] + i])
        BY <3>8 DEF BumpReclaimCount
      <4> DEFINE n == reclaims[sweep[w].hand] + i
                 r == [sweep[w] EXCEPT !.pc = "marker", !.attempts = n]
      <4>2. Proceed(w, r) /\ sweep[w].pc = "count"
        BY <3>8, <4>1 DEF BumpReclaimCount
      <4> HIDE DEF n
      <4>3. r.pc = "marker" /\ r.sent = sweep[w].sent
        BY <1>0 DEF Sweep
      <4> HIDE DEF r
      <4>4. Fine(r)
        BY <4>2, <4>3 DEF Sending
      <4> QED BY <3>0, <4>2, <4>4
    <3>9. CASE ScanError(w) \/ ListDrained(w) \/ PopOrphanError(w) \/ PopOrphanLost(w)
      BY <3>1, <3>2, <3>3, <3>9 DEF ScanError, ListDrained, PopOrphanError, PopOrphanLost
    <3>10. CASE \/ BumpError(w) \/ HasPublishedError(w) \/ ReleaseError(w)
                \/ Requeue(w) \/ RequeueError(w) \/ Fail(w) \/ FailError(w)
      BY <3>4, <3>10 DEF BumpError, HasPublishedError, ReleaseError, Requeue, RequeueError, Fail,
         FailError
    <3> QED BY <1>3, <3>5, <3>6, <3>7, <3>8, <3>9, <3>10 DEF SweepStep, RequeueResent
  <2> QED BY <2>1, <2>2
<1> QED BY <1>1, <1>r, <1>2, <1>3

-------------------------------------------------------------------------------
(***************************************************************************)
(* The claim: whoever finds a job on its way to a run finds the claim free *)
(* and whoever runs it holds the claim.                                    *)
(***************************************************************************)
Claims ==
  /\ \A j \in Jobs : dispatched[j] = 0 \/ Queued(j) = 1 => j \notin claim
  /\ \A w \in Workers :
       /\ sweep[w].pc = "push" \/ (sweep[w].pc = "release" /\ sweep[w].sent > 0)
            => sweep[w].hand \notin claim
       /\ sweep[w].pc \notin Sending => sweep[w].sent = 0
  /\ \A w \in Workers, s \in Slots : status[w] = "up" =>
       /\ task[w][s].pc = "claim" => task[w][s].job \notin claim
       /\ task[w][s].pc \in Claimed => task[w][s].job \in claim

\* The goroutine of a running process that works on a job is the only one,
\* and holds the only copy.
LEMMA OneGoroutine ==
  ASSUME Placed, Manned, OneCopy, NEW w \in Workers, NEW s \in Slots, status[w] = "up",
         NEW j \in Jobs, task[w][s].job = j
  PROVE  /\ Queued(j) = 0 /\ dispatched[j] # 0
         /\ Listed(w, j) = 1
         /\ \A v \in Workers : sweep[v].hand # j
         /\ \A v \in Workers, r \in Slots : status[v] = "up" /\ task[v][r].job = j => v = w /\ r = s
<1>0. Counted
  BY CountedNow
<1>1. ASSUME NEW v \in Workers, status[v] = "up", NEW r \in Slots, task[v][r].job = j
      PROVE  Listed(v, j) = 1 /\ \A q \in Slots : task[v][q].job = j => q = r
  <2> DEFINE H == Holding(v, j)
  <2>1. IsFiniteSet(H) /\ Cardinality(H) \in Nat /\ r \in H
    BY <1>1, HoldingCount DEF Holding
  <2>2. Cardinality(H) <= Listed(v, j) /\ Listed(v, j) <= 1 /\ Listed(v, j) \in Nat
    BY <1>0, <1>1 DEF Manned, OneCopy, Counted
  <2>3. \A q \in Slots : task[v][q].job = j => q \in H
    BY DEF Holding
  <2> HIDE DEF H
  <2>4. Cardinality(H \ {r}) = Cardinality(H) - 1 /\ IsFiniteSet(H \ {r})
    BY <2>1, FS_RemoveElement
  <2>5. Cardinality(H \ {r}) \in Nat
    BY <2>4, FS_CardinalityType
  <2>6. Cardinality(H \ {r}) = 0 /\ Listed(v, j) = 1
    BY <2>1, <2>2, <2>4, <2>5
  <2>7. H \ {r} = {}
    BY <2>4, <2>6, FS_EmptySet
  <2> QED BY <2>3, <2>6, <2>7
<1>2. Listed(w, j) = 1 /\ \A q \in Slots : task[w][q].job = j => q = s
  BY <1>1
<1>3. \A v \in Workers : sweep[v].hand # j /\ (v # w => Listed(v, j) = 0)
  BY <1>2 DEF OneCopy
<1>4. Queued(j) = 0 /\ dispatched[j] # 0
  BY <1>0, <1>2 DEF OneCopy, Counted
<1> QED BY <1>1, <1>2, <1>3, <1>4

Fit == Placed /\ Seen /\ Manned /\ OneCopy /\ "twice" \notin Faults

LEMMA ClaimsByTask ==
  ASSUME Fit, Claims, NEW w \in Workers, NEW s \in Slots, TaskStep(w, s), UNCHANGED reclaimVars
  PROVE  Claims'
<1>0. TypeInv /\ Sorted /\ Placed /\ Manned /\ OneCopy /\ Counted
  BY CountedNow DEF Fit, Placed
<1> DEFINE t == task[w][s]
<1>1. /\ UNCHANGED <<status, sweep, dispatched>> /\ Others(w, s)
      /\ \/ \E j \in Jobs : TakesJob(w, s, j)
         \/ DropsJob(w, s)
         \/ KeepsJob(w, s)
         \/ LeavesJob(w, s)
  BY <1>0, OneTaskEffect
<1>2. TaskWrites(w, s)
  BY <1>0, NoneStruck, TaskKeys
<1>3. t.pc # "free" => t.job \in Jobs
  BY <1>0 DEF TypeInv, TaskShape
<1>4. \A k \in Jobs : Queued(k)' = 1 => Queued(k) = 1
  <2>1. ASSUME NEW j \in Jobs, Taken(w, j), Queued(j) > 0, NEW k \in Jobs, Queued(k)' = 1
        PROVE  Queued(k) = 1
    BY <1>0, <2>1 DEF Taken, One, Counted, OneCopy
  <2>2. ASSUME NEW j \in Jobs, Removed(w, j), NEW k \in Jobs
        PROVE  Queued(k)' = Queued(k)
    BY <2>2 DEF Removed
  <2> QED BY <1>1, <2>1, <2>2 DEF TakesJob, DropsJob, KeepsJob, LeavesJob, Same
<1>5. ASSUME claim' # claim
      PROVE  /\ t.pc = "claim" /\ status[w] = "up" /\ t.job \in Jobs /\ claim' = claim \cup {t.job}
             /\ Queued(t.job) = 0 /\ dispatched[t.job] # 0
             /\ \A v \in Workers : sweep[v].hand # t.job
             /\ \A v \in Workers, r \in Slots :
                  status[v] = "up" /\ task[v][r].job = t.job => v = w /\ r = s
  <2>1. t.pc = "claim" /\ status[w] = "up" /\ claim' = claim \cup {t.job}
    BY <1>2, <1>5 DEF TaskWrites, Works
  <2>2. t.job \in Jobs
    BY <1>3, <2>1
  <2> QED BY <1>0, <2>1, <2>2, OneGoroutine
<1>6. \A j \in Jobs : dispatched'[j] = 0 \/ Queued(j)' = 1 => j \notin claim'
  BY <1>1, <1>4, <1>5 DEF Claims
<1>7. \A v \in Workers :
        /\ sweep'[v].pc = "push" \/ (sweep'[v].pc = "release" /\ sweep'[v].sent > 0)
             => sweep'[v].hand \notin claim'
        /\ sweep'[v].pc \notin Sending => sweep'[v].sent = 0
  BY <1>1, <1>5 DEF Claims
<1>8. ASSUME NEW v \in Workers, NEW r \in Slots, status[v] = "up"
      PROVE  /\ task'[v][r].pc = "claim" => task'[v][r].job \notin claim'
             /\ task'[v][r].pc \in Claimed => task'[v][r].job \in claim'
  <2>1. CASE v # w \/ r # s
    <3>1. task'[v][r] = task[v][r]
      BY <1>1, <2>1 DEF Others
    <3>2. /\ task[v][r].pc = "claim" => task[v][r].job \notin claim
          /\ task[v][r].pc \in Claimed => task[v][r].job \in claim
      BY <1>8 DEF Claims
    <3> QED BY <1>5, <1>8, <2>1, <3>1, <3>2
  <2>2. ASSUME v = w, r = s, NEW j \in Jobs, TakesJob(w, s, j)
        PROVE  /\ task'[v][r].pc = "claim" => task'[v][r].job \notin claim'
               /\ task'[v][r].pc \in Claimed => task'[v][r].job \in claim'
    <3>1. t.pc = "free" /\ task'[w][s].job = j /\ task'[w][s].pc \in {"purge", "claim"} /\ Queued(j) > 0
      BY <2>2 DEF TakesJob
    <3>2. Queued(j) = 1
      BY <1>0, <3>1 DEF OneCopy, Counted
    <3>3. claim' = claim /\ j \notin claim
      BY <1>5, <3>1, <3>2 DEF Claims
    <3> QED BY <2>2, <3>1, <3>3 DEF Claimed
  <2>3. CASE v = w /\ r = s /\ (DropsJob(w, s) \/ LeavesJob(w, s))
    <3>1. task'[v][r].pc = "free"
      BY <2>3 DEF DropsJob, LeavesJob, Free
    <3> QED BY <3>1 DEF Claimed
  <2>4. CASE v = w /\ r = s /\ KeepsJob(w, s)
    <3>1. task'[w][s].job = t.job /\ task'[w][s].pc # "claim"
      BY <2>4 DEF KeepsJob
    <3>2. task'[w][s].pc \in Claimed => t.pc \in Claimed \/ t.job \in claim'
      BY <1>2 DEF TaskWrites
    <3>3. t.pc \in Claimed => t.job \in claim
      BY <1>8, <2>4 DEF Claims
    <3>4. claim \subseteq claim'
      BY <1>5
    <3> QED BY <2>4, <3>1, <3>2, <3>3, <3>4
  <2> QED BY <1>1, <2>1, <2>2, <2>3, <2>4
<1> QED BY <1>1, <1>6, <1>7, <1>8 DEF Claims

LEMMA ClaimsBySweep ==
  ASSUME Fit, Claims, NEW w \in Workers, SweepStep(w), UNCHANGED workVars
  PROVE  Claims'
<1>0. /\ TypeInv /\ Sorted /\ HandShape /\ Placed /\ Manned /\ OneCopy /\ Counted
      /\ "twice" \notin Faults /\ sweep[w].sent \in Nat /\ sweep[w].pc \in SweepPCs
  <2>1. sweep[w] \in Sweep /\ Fit /\ Counted
    BY CountedNow DEF Fit, Placed, TypeInv, TypeOK, ReclaimTypeOK
  <2> QED BY <2>1 DEF Fit, Placed, Sweep
<1>1. /\ UNCHANGED <<status, task, dispatched>> /\ OtherSweeps(w)
      /\ Rests(w) \/ (\E j \in Jobs : Pops(w, j)) \/ GivesUp(w) \/ Requeues(w)
  BY <1>0, OneSweepEffect
<1>2. /\ claim' = claim \/ (sweep[w].pc = "release" /\ claim' = claim \ {sweep[w].hand})
      /\ sweep'[w].pc = "push" => sweep'[w].hand = sweep[w].hand /\ sweep[w].hand \notin claim'
      /\ sweep'[w].pc = "release" =>
           /\ sweep'[w].hand = sweep[w].hand
           /\ \/ sweep[w].pc = "marker" /\ sweep'[w].sent = sweep[w].sent
              \/ sweep[w].hand \notin claim'
      /\ sweep'[w].pc \notin Sending =>
           sweep'[w].sent = 0 \/ (sweep'[w].sent = sweep[w].sent /\ sweep[w].pc \notin Sending)
  BY <1>0, SweepKeys
<1>3. claim' \subseteq claim
  BY <1>2
<1>4. ASSUME NEW j \in Jobs, dispatched[j] = 0 \/ Queued(j)' = 1
      PROVE  j \notin claim
  <2>1. CASE Queued(j)' = Queued(j)
    BY <1>4, <2>1 DEF Claims
  <2>2. CASE Queued(j)' # Queued(j)
    <3>1. \/ Requeues(w) /\ Pushed(sweep[w].hand)
          \/ Same \/ \E u \in Workers, k \in Jobs : Removed(u, k)
      <4>1. ASSUME NEW k \in Jobs, Pops(w, k)
            PROVE  \E u \in Workers, m \in Jobs : Removed(u, m)
        BY <4>1 DEF Pops, PopsOff
      <4> QED BY <1>1, <4>1 DEF Rests, GivesUp, Requeues
    <3>2. Requeues(w) /\ Pushed(sweep[w].hand)
      BY <2>2, <3>1 DEF Same, Removed
    <3>3. j = sweep[w].hand
      BY <1>0, <2>2, <3>2 DEF Pushed, One, Counted
    <3> QED BY <3>2, <3>3 DEF Requeues, Claims
  <2> QED BY <2>1, <2>2
<1>5. ASSUME NEW v \in Workers
      PROVE  /\ sweep'[v].pc = "push" \/ (sweep'[v].pc = "release" /\ sweep'[v].sent > 0)
                  => sweep'[v].hand \notin claim'
             /\ sweep'[v].pc \notin Sending => sweep'[v].sent = 0
  <2>1. CASE v # w
    BY <1>1, <1>3, <2>1 DEF OtherSweeps, Claims
  <2>2. CASE v = w
    <3>1. sweep[w].pc \notin Sending => sweep[w].sent = 0
      BY DEF Claims
    <3> QED BY <1>2, <2>2, <3>1 DEF Sending
  <2> QED BY <2>1, <2>2
<1>6. ASSUME NEW v \in Workers, NEW s \in Slots, status[v] = "up"
      PROVE  /\ task[v][s].pc = "claim" => task[v][s].job \notin claim'
             /\ task[v][s].pc \in Claimed => task[v][s].job \in claim'
  <2>1. /\ task[v][s].pc = "claim" => task[v][s].job \notin claim
        /\ task[v][s].pc \in Claimed => task[v][s].job \in claim
    BY <1>6 DEF Claims
  <2>2. task[v][s].pc \in Claimed => task[v][s].job \in Jobs
    BY <1>0 DEF TypeInv, TaskShape, Claimed
  <2>3. task[v][s].pc \in Claimed => task[v][s].job # sweep[w].hand
    BY <1>0, <1>6, <2>2, OneGoroutine
  <2> QED BY <1>2, <1>3, <2>1, <2>3
<1> QED BY <1>1, <1>3, <1>4, <1>5, <1>6 DEF Claims

LEMMA NextClaims ==
  ASSUME Fit, Claims, "dup" \notin Faults, "lapse" \notin Faults, "join" \notin Faults, [Next]_vars
  PROVE  Claims'
<1>0. TypeInv /\ Sorted /\ HandShape /\ Placed /\ Manned /\ OneCopy /\ Counted /\ BrokerTypeOK
  BY CountedNow DEF Fit, Placed, TypeInv, TypeOK
<1>1. CASE UNCHANGED vars
  BY <1>1 DEF vars, Claims, Queued
<1>2. ASSUME NEW j \in Jobs, Dispatch(j), UNCHANGED <<workVars, reclaimVars>>
      PROVE  Claims'
  <2>1. Pushed(j) /\ UNCHANGED <<status, task, sweep, claim>>
    BY <1>0, <1>2, DispatchLists DEF Dispatch, fleetVars, keyVars, workVars, reclaimVars
  <2>2. dispatched[j] = 0 /\ \A k \in Jobs : k # j => dispatched'[k] = dispatched[k]
    BY <1>0, <1>2 DEF Dispatch, BrokerTypeOK
  <2>3. \A k \in Jobs : k # j => Queued(k)' = Queued(k)
    BY <1>0, <2>1 DEF Pushed, One, Counted
  <2>4. \A k \in Jobs : dispatched'[k] = 0 \/ Queued(k)' = 1 => k \notin claim
    BY <2>2, <2>3 DEF Claims
  <2> QED BY <2>1, <2>4 DEF Claims
<1>3. ASSUME NEW w \in Workers, ProcessStep(w)
      PROVE  Claims'
  <2>1. /\ Same /\ UNCHANGED <<dispatched, claim>>
        /\ \A v \in Workers : v # w => status'[v] = status[v] /\ task'[v] = task[v]
        /\ \A v \in Workers : sweep'[v] = sweep[v] \/ sweep'[v] = Idle
        /\ task'[w] = task[w] \/ status'[w] \in {"down", "crashed"}
    BY <1>0, <1>3, ProcessEffect DEF keyVars
  <2>2. status'[w] = "up" => status[w] \in {"new", "up"}
    BY <1>0, <1>3, StatusMoves
  <2>3. ASSUME NEW v \in Workers, NEW s \in Slots, status'[v] = "up"
        PROVE  /\ task'[v][s].pc = "claim" => task'[v][s].job \notin claim
               /\ task'[v][s].pc \in Claimed => task'[v][s].job \in claim
    <3>1. task'[v][s] = task[v][s] /\ status[v] \in {"new", "up"}
      BY <2>1, <2>2, <2>3
    <3>2. CASE status[v] = "new"
      <4>1. task[v][s].pc = "free"
        BY <1>0, <3>2 DEF Manned, Free
      <4> QED BY <3>1, <4>1 DEF Claimed
    <3>3. CASE status[v] = "up"
      BY <3>1, <3>3 DEF Claims
    <3> QED BY <3>1, <3>2, <3>3
  <2>4. \A v \in Workers :
          /\ sweep'[v].pc = "push" \/ (sweep'[v].pc = "release" /\ sweep'[v].sent > 0)
               => sweep'[v].hand \notin claim
          /\ sweep'[v].pc \notin Sending => sweep'[v].sent = 0
    BY <2>1 DEF Claims, Idle
  <2>5. \A k \in Jobs : dispatched'[k] = 0 \/ Queued(k)' = 1 => k \notin claim
    BY <2>1 DEF Claims, Same
  <2> QED BY <2>1, <2>3, <2>4, <2>5 DEF Claims
<1>4. ASSUME NEW w \in Workers, SweepEmpty(w) \/ SweepError(w), UNCHANGED reclaimVars
      PROVE  Claims'
  <2>1. /\ UNCHANGED <<status, task, dispatched, sweep, claim>>
        /\ Same \/ \E j \in Jobs : Queued(j) > 0 /\ Taken(w, j)
    BY <1>0, <1>4, PollEffect DEF keyVars
  <2>2. ASSUME NEW j \in Jobs, Taken(w, j), Queued(j) > 0, NEW k \in Jobs, Queued(k)' = 1
        PROVE  Queued(k) = 1
    BY <1>0, <2>2 DEF Taken, One, Counted, OneCopy
  <2>3. \A k \in Jobs : Queued(k)' = 1 => Queued(k) = 1
    BY <2>1, <2>2 DEF Same
  <2> QED BY <2>1, <2>3 DEF Claims
<1>5. ASSUME NEW w \in Workers, NEW s \in Slots, TaskStep(w, s), UNCHANGED reclaimVars
      PROVE  Claims'
  BY <1>5, ClaimsByTask
<1>6. ASSUME NEW w \in Workers, SweepStep(w), UNCHANGED workVars
      PROVE  Claims'
  BY <1>6, ClaimsBySweep
<1> QED BY <1>1, <1>2, <1>3, <1>4, <1>5, <1>6 DEF Next, WorkStep, ProcessStep

-------------------------------------------------------------------------------
(***************************************************************************)
(* Nothing removes the last copy of a job without a trace.                 *)
(***************************************************************************)

\* A goroutine that is about to remove an entry has reported the job, its own
\* claim turned the job away, or the payload was malformed.
Over ==
  \A w \in Workers, s \in Slots :
    /\ task[w][s].pc = "ack" => outcomes[task[w][s].job] # {} \/ task[w][s].job \in dropped
    /\ task[w][s].pc = "purge" => task[w][s].job \in Malformed

\* What a sweep has handled is not on a list it has yet to take apart, so the
\* de-duplication of drainList never drops a job dispatched once.
HandledGone ==
  \A w, v \in Workers, j \in Jobs : j \in sweep[w].handled /\ v \in Opened(w) => Listed(v, j) = 0

Kept ==
  \A j \in Jobs \ Malformed : dispatched[j] > 0 =>
    \/ Queued(j) = 1
    \/ \E w \in Workers : Listed(w, j) = 1 \/ sweep[w].hand = j
    \/ outcomes[j] # {}
    \/ j \in lost \cup dropped

\* What a step of a sweep leaves of the outcomes and of what is lost.
LEMMA SweepGrows ==
  ASSUME TypeInv, NEW w \in Workers,
         Rests(w) \/ (\E j \in Jobs : Pops(w, j)) \/ GivesUp(w) \/ Requeues(w)
  PROVE  lost \subseteq lost' /\ \A k \in Jobs : outcomes[k] \subseteq outcomes'[k]
<1>1. outcomes \in [Jobs -> SUBSET Verdicts]
  BY DEF TypeInv, TypeOK, BrokerTypeOK
<1>2. CASE GivesUp(w)
  <2>1. sweep[w].hand \in Jobs
    BY <1>2, OpenList DEF GivesUp, LetsGo
  <2> QED BY <1>1, <1>2, <2>1 DEF GivesUp
<1>3. CASE ~GivesUp(w)
  BY <1>3 DEF Rests, Requeues, Quiet, Pops
<1> QED BY <1>2, <1>3

LEMMA NextOver ==
  ASSUME Fit, Claims, Over, [Next]_vars
  PROVE  Over'
<1>0. TypeInv /\ Sorted /\ HandShape /\ Placed /\ OneCopy /\ "twice" \notin Faults
  BY DEF Fit, Placed
<1>j. \A v \in Workers, r \in Slots : task[v][r].pc # "free" => task[v][r].job \in Jobs
  BY <1>0 DEF TypeInv, TaskShape
<1>1. ASSUME \A v \in Workers, r \in Slots : task'[v][r] = task[v][r] \/ task'[v][r] = Free,
             dropped \subseteq dropped', \A k \in Jobs : outcomes[k] \subseteq outcomes'[k]
      PROVE  Over'
  <2> SUFFICES ASSUME NEW v \in Workers, NEW r \in Slots
               PROVE  /\ task'[v][r].pc = "ack" =>
                           outcomes'[task'[v][r].job] # {} \/ task'[v][r].job \in dropped'
                      /\ task'[v][r].pc = "purge" => task'[v][r].job \in Malformed
    BY DEF Over
  <2>1. /\ task[v][r].pc = "ack" => outcomes[task[v][r].job] # {} \/ task[v][r].job \in dropped
        /\ task[v][r].pc = "purge" => task[v][r].job \in Malformed
    BY DEF Over
  <2>2. CASE task'[v][r] = task[v][r]
    BY <1>1, <1>j, <2>1, <2>2
  <2>3. CASE task'[v][r] = Free
    BY <2>3 DEF Free
  <2> QED BY <1>1, <2>2, <2>3
<1>2. CASE UNCHANGED vars
  BY <1>1, <1>2 DEF vars
<1>3. ASSUME NEW j \in Jobs, Dispatch(j), UNCHANGED <<workVars, reclaimVars>>
      PROVE  Over'
  BY <1>1, <1>3 DEF Dispatch, workVars
<1>4. ASSUME NEW w \in Workers, ProcessStep(w)
      PROVE  Over'
  <2>1. /\ UNCHANGED <<outcomes, dropped>> /\ \A v \in Workers : v # w => task'[v] = task[v]
        /\ task'[w] = task[w] \/ task'[w] = [s \in Slots |-> Free]
    BY <1>0, <1>4, ProcessEffect
  <2> QED BY <1>1, <2>1
<1>5. ASSUME NEW w \in Workers, SweepEmpty(w) \/ SweepError(w), UNCHANGED reclaimVars
      PROVE  Over'
  <2>1. UNCHANGED <<task, outcomes, dropped>>
    BY <1>0, <1>5, PollEffect
  <2> QED BY <1>1, <2>1
<1>6. ASSUME NEW w \in Workers, NEW s \in Slots, TaskStep(w, s), UNCHANGED reclaimVars
      PROVE  Over'
  <2>1. /\ Others(w, s)
        /\ \/ \E j \in Jobs : TakesJob(w, s, j)
           \/ DropsJob(w, s)
           \/ KeepsJob(w, s)
           \/ LeavesJob(w, s)
    BY <1>0, <1>6, OneTaskEffect
  <2>2. TaskWrites(w, s)
    BY <1>0, <1>6, NoneStruck, TaskKeys
  <2>3. dropped \subseteq dropped' /\ \A k \in Jobs : outcomes[k] \subseteq outcomes'[k]
    BY <2>2 DEF TaskWrites
  <2>4. CASE DropsJob(w, s) \/ LeavesJob(w, s)
    BY <1>1, <2>1, <2>3, <2>4 DEF Others, DropsJob, LeavesJob
  <2>5. ASSUME NEW v \in Workers, NEW r \in Slots, v # w \/ r # s
        PROVE  /\ task'[v][r].pc = "ack" =>
                    outcomes'[task'[v][r].job] # {} \/ task'[v][r].job \in dropped'
               /\ task'[v][r].pc = "purge" => task'[v][r].job \in Malformed
    <3>1. task'[v][r] = task[v][r]
      BY <2>1, <2>5 DEF Others
    <3>2. /\ task[v][r].pc = "ack" => outcomes[task[v][r].job] # {} \/ task[v][r].job \in dropped
          /\ task[v][r].pc = "purge" => task[v][r].job \in Malformed
      BY DEF Over
    <3> QED BY <1>j, <2>3, <3>1, <3>2
  <2>6. CASE KeepsJob(w, s)
    <3>1. /\ task'[w][s].job = task[w][s].job /\ task'[w][s].pc # "purge"
          /\ task[w][s].job \in Jobs
      BY <2>6 DEF KeepsJob
    <3>2. task'[w][s].pc = "ack" => outcomes'[task[w][s].job] # {} \/ task[w][s].job \in dropped'
      <4>1. ~(task[w][s].pc = "claim" /\ Works(w) /\ task[w][s].job \in claim)
        BY DEF Claims, Works
      <4> QED BY <2>2, <4>1 DEF TaskWrites
    <3> QED BY <2>5, <3>1, <3>2 DEF Over
  <2>7. ASSUME NEW j \in Jobs, TakesJob(w, s, j)
        PROVE  Over'
    <3>1. /\ task'[w][s].pc # "ack"
          /\ task'[w][s].pc = "purge" => task'[w][s].job \in Malformed
      BY <2>7 DEF TakesJob
    <3> QED BY <2>5, <3>1 DEF Over
  <2> QED BY <2>1, <2>4, <2>6, <2>7
<1>7. ASSUME NEW w \in Workers, SweepStep(w), UNCHANGED workVars
      PROVE  Over'
  <2>1. /\ UNCHANGED <<task, dropped>>
        /\ Rests(w) \/ (\E j \in Jobs : Pops(w, j)) \/ GivesUp(w) \/ Requeues(w)
    BY <1>0, <1>7, OneSweepEffect DEF workVars
  <2>2. \A k \in Jobs : outcomes[k] \subseteq outcomes'[k]
    BY <1>0, <2>1, SweepGrows
  <2> QED BY <1>1, <2>1, <2>2
<1> QED BY <1>2, <1>3, <1>4, <1>5, <1>6, <1>7 DEF Next, WorkStep, ProcessStep

LEMMA NextHandled ==
  ASSUME Fit, HandledGone, [Next]_vars
  PROVE  HandledGone'
<1>0. TypeInv /\ Sorted /\ HandShape /\ Placed /\ OneCopy /\ Counted /\ Seen /\ "twice" \notin Faults
  BY CountedNow DEF Fit, Placed
<1>1. ASSUME \A u \in Workers : \/ sweep'[u].handled = {}
                                \/ sweep'[u].handled = sweep[u].handled /\ Opened(u)' \subseteq Opened(u),
             \A u, v \in Workers, j \in Jobs :
               v \in Opened(u) /\ Listed(v, j) = 0 => Listed(v, j)' = 0
      PROVE  HandledGone'
  BY <1>1 DEF HandledGone
<1>2. ASSUME sweep' = sweep
      PROVE  \A u \in Workers : sweep'[u].handled = sweep[u].handled /\ Opened(u)' \subseteq Opened(u)
  BY <1>2 DEF Opened
<1>3. CASE UNCHANGED vars
  <2>1. sweep' = sweep /\ \A v \in Workers, j \in Jobs : Listed(v, j)' = Listed(v, j)
    BY <1>3 DEF vars, Listed
  <2> QED BY <1>1, <1>2, <2>1
<1>4. ASSUME NEW j \in Jobs, Dispatch(j), UNCHANGED <<workVars, reclaimVars>>
      PROVE  HandledGone'
  <2>1. Pushed(j) /\ sweep' = sweep
    BY <1>0, <1>4, DispatchLists DEF reclaimVars, TypeInv, TypeOK
  <2> QED BY <1>1, <1>2, <2>1 DEF Pushed
<1>5. ASSUME NEW w \in Workers, ProcessStep(w)
      PROVE  HandledGone'
  <2>1. Same /\ \A v \in Workers : sweep'[v] = sweep[v] \/ sweep'[v] = Idle
    BY <1>0, <1>5, ProcessEffect
  <2>2. \A v \in Workers : \/ sweep'[v].handled = {}
                           \/ sweep'[v].handled = sweep[v].handled /\ Opened(v)' \subseteq Opened(v)
    BY <2>1 DEF Idle, Opened
  <2> QED BY <1>1, <2>1, <2>2 DEF Same
<1>6. ASSUME NEW w \in Workers, sweep' = sweep,
             \/ Same
             \/ \E j \in Jobs : Works(w) /\ Taken(w, j)
             \/ \E j \in Jobs : Removed(w, j)
      PROVE  HandledGone'
  <2>1. ASSUME NEW u \in Workers, NEW v \in Workers, NEW k \in Jobs, v \in Opened(u), Listed(v, k) = 0
        PROVE  Listed(v, k)' = 0
    <3>1. status[v] # "up"
      BY <1>0, <2>1 DEF Seen
    <3>2. CASE Same
      BY <2>1, <3>2 DEF Same
    <3>3. CASE \E j \in Jobs : Works(w) /\ Taken(w, j)
      BY <2>1, <3>1, <3>3 DEF Works, Taken, One
    <3>4. CASE \E j \in Jobs : Removed(w, j)
      BY <2>1, <3>4 DEF Removed, One
    <3> QED BY <1>6, <3>2, <3>3, <3>4
  <2> QED BY <1>1, <1>2, <1>6, <2>1
<1>7. ASSUME NEW w \in Workers, SweepEmpty(w) \/ SweepError(w), UNCHANGED reclaimVars
      PROVE  HandledGone'
  BY <1>0, <1>6, <1>7, PollEffect
<1>8. ASSUME NEW w \in Workers, NEW s \in Slots, TaskStep(w, s), UNCHANGED reclaimVars
      PROVE  HandledGone'
  BY <1>0, <1>6, <1>8, OneTaskEffect DEF TakesJob, DropsJob, KeepsJob, LeavesJob
<1>9. ASSUME NEW w \in Workers, SweepStep(w), UNCHANGED workVars
      PROVE  HandledGone'
  <2>1. /\ OtherSweeps(w)
        /\ Rests(w) \/ (\E j \in Jobs : Pops(w, j)) \/ GivesUp(w) \/ Requeues(w)
    BY <1>0, <1>9, OneSweepEffect
  <2>2. \A u \in Workers : u # w => sweep'[u].handled = sweep[u].handled /\ Opened(u)' \subseteq Opened(u)
    BY <2>1 DEF OtherSweeps, Opened
  <2>3. Same \/ (\E j \in Jobs : \E v \in Workers : Removed(v, j)) \/ (\E j : Pushed(j))
    <3>1. ASSUME NEW j \in Jobs, Pops(w, j)
          PROVE  \E v \in Workers : Removed(v, j)
      BY <3>1 DEF Pops, PopsOff
    <3> QED BY <2>1, <3>1 DEF Rests, GivesUp, Requeues
  <2>4. \A v \in Workers, k \in Jobs : Listed(v, k) = 0 => Listed(v, k)' = 0
    BY <2>3 DEF Same, Removed, Pushed, One
  <2>5. CASE \/ Ends(w) \/ Advances(w) \/ Looks(w) \/ Grips(w) \/ LetsGo(w) \/ Opens(w)
             \/ sweep'[w] = sweep[w]
    <3>1. CASE Opens(w) \/ Looks(w) \/ Ends(w)
      <4>1. sweep'[w].handled = {}
        BY <3>1 DEF Opens, Looks, Ends, Idle
      <4> QED BY <1>1, <2>2, <2>4, <4>1
    <3>2. CASE Advances(w) \/ Grips(w) \/ LetsGo(w) \/ sweep'[w] = sweep[w]
      <4>1. Opened(w)' \subseteq Opened(w)
        BY <1>0, <3>2, OpenedMoves
      <4>2. sweep'[w].handled = sweep[w].handled
        BY <3>2 DEF Advances, Grips, LetsGo
      <4> QED BY <1>1, <2>2, <2>4, <4>1, <4>2
    <3> QED BY <2>5, <3>1, <3>2
  <2>6. ASSUME NEW j \in Jobs, Pops(w, j), PicksUp(w, j)
        PROVE  HandledGone'
    <3> DEFINE u == Head(sweep[w].keys)[1]
    <3>1. u \in Workers /\ Listed(u, j) > 0 /\ Removed(u, j)
      BY <2>6 DEF Pops, PopsOff
    <3> HIDE DEF u
    <3>2. Listed(u, j) = 1 /\ \A v \in Workers : v # u => Listed(v, j) = 0
      BY <1>0, <3>1 DEF OneCopy, Counted
    <3>3. \A v \in Workers : Listed(v, j)' = 0
      BY <3>1, <3>2 DEF Removed, One
    <3>4. sweep'[w].handled = sweep[w].handled \cup {j} /\ Opened(w)' \subseteq Opened(w)
      BY <1>0, <2>6, OpenedMoves DEF PicksUp
    <3> QED BY <2>2, <2>4, <3>3, <3>4 DEF HandledGone
  <2> QED BY <2>1, <2>5, <2>6 DEF Rests, GivesUp, Requeues, Pops
<1> QED BY <1>3, <1>4, <1>5, <1>7, <1>8, <1>9 DEF Next, WorkStep, ProcessStep

Somewhere(j) ==
  \/ Queued(j) = 1
  \/ \E w \in Workers : Listed(w, j) = 1 \/ sweep[w].hand = j
  \/ outcomes[j] # {}
  \/ j \in lost \cup dropped

LEMMA KeptByTask ==
  ASSUME Fit, Over, NEW w \in Workers, NEW s \in Slots, TaskStep(w, s), UNCHANGED reclaimVars,
         NEW k \in Jobs \ Malformed, Somewhere(k)
  PROVE  Somewhere(k)'
<1>0. TypeInv /\ Sorted /\ OneCopy /\ Counted
  BY CountedNow DEF Fit, Placed
<1>1. /\ UNCHANGED <<sweep, lost>>
      /\ \/ \E j \in Jobs : TakesJob(w, s, j)
         \/ DropsJob(w, s)
         \/ KeepsJob(w, s)
         \/ LeavesJob(w, s)
  BY <1>0, OneTaskEffect
<1>2. (outcomes[k] # {} => outcomes'[k] # {}) /\ dropped \subseteq dropped'
  BY <1>0, NoneStruck, TaskKeys DEF TaskWrites
<1>3. CASE Same
  BY <1>1, <1>2, <1>3 DEF Same, Somewhere
<1>4. ASSUME NEW j \in Jobs, TakesJob(w, s, j)
      PROVE  Somewhere(k)'
  <2>1. Taken(w, j) /\ Queued(j) > 0
    BY <1>4 DEF TakesJob
  <2>2. CASE j = k
    <3>1. Listed(w, k) = 0
      BY <1>0, <2>1, <2>2 DEF OneCopy, Counted
    <3>2. Listed(w, k)' = 1
      BY <2>1, <2>2, <3>1 DEF Taken, One
    <3> QED BY <3>2 DEF Somewhere
  <2>3. CASE j # k
    <3>1. Queued(k)' = Queued(k) /\ \A v \in Workers : Listed(v, k)' = Listed(v, k)
      BY <1>0, <2>1, <2>3 DEF Taken, One, Counted
    <3> QED BY <1>1, <1>2, <3>1 DEF Somewhere
  <2> QED BY <2>2, <2>3
<1>5. CASE DropsJob(w, s)
  <2>1. Removed(w, task[w][s].job) /\ task[w][s].pc \in {"purge", "ack"}
    BY <1>5 DEF DropsJob
  <2>2. CASE task[w][s].job = k
    <3>1. outcomes[k] # {} \/ k \in dropped
      BY <2>1, <2>2 DEF Over
    <3> QED BY <1>2, <3>1 DEF Somewhere
  <2>3. CASE task[w][s].job # k
    <3>1. Queued(k)' = Queued(k) /\ \A v \in Workers : Listed(v, k)' = Listed(v, k)
      BY <1>0, <2>1, <2>3 DEF Removed, One, Counted
    <3> QED BY <1>1, <1>2, <3>1 DEF Somewhere
  <2> QED BY <2>2, <2>3
<1> QED BY <1>1, <1>3, <1>4, <1>5 DEF KeepsJob, LeavesJob

LEMMA KeptBySweep ==
  ASSUME Fit, HandledGone, NEW w \in Workers, SweepStep(w), UNCHANGED workVars,
         NEW k \in Jobs \ Malformed, Somewhere(k)
  PROVE  Somewhere(k)'
<1>0. TypeInv /\ Sorted /\ HandShape /\ OneCopy /\ Counted /\ "twice" \notin Faults
  BY CountedNow DEF Fit, Placed
<1>1. /\ OtherSweeps(w)
      /\ Rests(w) \/ (\E j \in Jobs : Pops(w, j)) \/ GivesUp(w) \/ Requeues(w)
  BY <1>0, OneSweepEffect
<1>2. /\ k \in lost \cup dropped => k \in lost' \cup dropped'
      /\ outcomes[k] # {} => outcomes'[k] # {}
  BY <1>0, <1>1, SweepGrows DEF workVars
<1>3. \A v \in Workers : v # w => sweep'[v].hand = sweep[v].hand
  BY <1>1 DEF OtherSweeps
<1>4. sweep[w].pc \notin HandPCs => sweep[w].hand # k
  BY <1>0 DEF HandShape
<1>5. CASE Rests(w)
  <2>1. sweep[w].hand = k => sweep'[w].hand = k
    BY <1>4, <1>5 DEF Rests, Ends, Advances, Looks, Opens, Grips, HandPCs
  <2> QED BY <1>2, <1>3, <1>5, <2>1 DEF Rests, Same, Somewhere
<1>6. CASE GivesUp(w)
  <2>1. CASE sweep[w].hand = k
    <3>0. outcomes \in [Jobs -> SUBSET Verdicts]
      BY <1>0 DEF TypeInv, TypeOK, BrokerTypeOK
    <3>1. k \in lost' \/ outcomes'[k] # {}
      BY <1>6, <2>1, <3>0 DEF GivesUp
    <3> QED BY <3>1 DEF Somewhere
  <2>2. CASE sweep[w].hand # k
    BY <1>2, <1>3, <1>6, <2>2 DEF GivesUp, Same, Somewhere
  <2> QED BY <2>1, <2>2
<1>7. CASE Requeues(w)
  <2>0. sweep[w].pc \in HandPCs /\ Pushed(sweep[w].hand)
    BY <1>7 DEF Requeues, LetsGo
  <2>1. CASE sweep[w].hand = k
    <3>1. Queued(k) = 0
      BY <1>0, <2>1 DEF OneCopy, Counted
    <3>2. Queued(k)' = 1
      BY <2>0, <2>1, <3>1 DEF Pushed, One
    <3> QED BY <3>2 DEF Somewhere
  <2>2. CASE sweep[w].hand # k
    <3>1. Queued(k)' = Queued(k) /\ \A v \in Workers : Listed(v, k)' = Listed(v, k)
      BY <1>0, <2>0, <2>2 DEF Pushed, One, Counted
    <3> QED BY <1>2, <1>3, <2>2, <3>1 DEF Somewhere
  <2> QED BY <2>1, <2>2
<1>8. ASSUME NEW j \in Jobs, Pops(w, j)
      PROVE  Somewhere(k)'
  <2> DEFINE u == Head(sweep[w].keys)[1]
  <2>1. sweep[w].pc = "drain" /\ u \in Workers /\ Listed(u, j) > 0 /\ Removed(u, j)
    BY <1>8 DEF Pops, PopsOff
  <2>2. u \in Opened(w)
    <3>1. sweep[w].keys \in Seq(Workers \X Priorities) /\ sweep[w].keys # <<>>
      BY <1>0, <2>1, OpenList
    <3>2. 1 \in 1..Len(sweep[w].keys) /\ Head(sweep[w].keys) = sweep[w].keys[1]
      BY <3>1, EmptySeq
    <3> QED BY <3>2 DEF Opened
  <2> HIDE DEF u
  <2>3. sweep[w].hand # k
    BY <1>4, <2>1 DEF HandPCs
  <2>4. CASE j = k
    <3>1. k \notin sweep[w].handled
      BY <2>1, <2>2, <2>4 DEF HandledGone
    <3>2. sweep'[w].hand = k \/ k \in lost'
      BY <1>8, <2>4, <3>1 DEF Pops, PicksUp
    <3> QED BY <3>2 DEF Somewhere
  <2>5. CASE j # k
    <3>1. Queued(k)' = Queued(k) /\ \A v \in Workers : Listed(v, k)' = Listed(v, k)
      BY <1>0, <2>1, <2>5 DEF Removed, One, Counted
    <3> QED BY <1>2, <1>3, <2>3, <3>1 DEF Somewhere
  <2> QED BY <2>4, <2>5
<1> QED BY <1>1, <1>5, <1>6, <1>7, <1>8

LEMMA NextKept ==
  ASSUME Fit, "dup" \notin Faults, Over, HandledGone, Kept, [Next]_vars
  PROVE  Kept'
<1>0. TypeInv /\ Sorted /\ OneCopy /\ Counted /\ BrokerTypeOK
  BY CountedNow DEF Fit, Placed, TypeInv, TypeOK
<1>1. ASSUME dispatched' = dispatched, \A k \in Jobs \ Malformed : Somewhere(k) => Somewhere(k)'
      PROVE  Kept'
  BY <1>1 DEF Kept, Somewhere
<1>2. CASE UNCHANGED vars
  BY <1>1, <1>2 DEF vars, Somewhere, Queued, Listed
<1>3. ASSUME NEW j \in Jobs, Dispatch(j), UNCHANGED <<workVars, reclaimVars>>
      PROVE  Kept'
  <2>1. Pushed(j) /\ UNCHANGED <<sweep, lost, outcomes, dropped>>
    BY <1>0, <1>3, DispatchLists DEF reclaimVars, workVars, Dispatch
  <2>2. dispatched[j] = 0 /\ \A k \in Jobs : k # j => dispatched'[k] = dispatched[k]
    BY <1>0, <1>3 DEF Dispatch, BrokerTypeOK
  <2>3. Queued(j)' = 1
    BY <1>0, <2>1, <2>2 DEF OneCopy, Pushed, One
  <2>4. \A k \in Jobs : k # j => Queued(k)' = Queued(k) /\ \A v \in Workers : Listed(v, k)' = Listed(v, k)
    BY <1>0, <2>1 DEF Pushed, One, Counted
  <2> QED BY <2>1, <2>2, <2>3, <2>4 DEF Kept
<1>4. ASSUME NEW w \in Workers, ProcessStep(w)
      PROVE  Kept'
  <2>1. /\ Same /\ UNCHANGED <<dispatched, outcomes, dropped>>
        /\ \A v \in Workers : v # w => sweep'[v] = sweep[v]
        /\ \/ sweep'[w] = sweep[w] /\ lost' = lost
           \/ sweep'[w] = Idle /\ lost' = lost \cup InHand(w)
    BY <1>0, <1>4, ProcessEffect
  <2>2. ASSUME NEW k \in Jobs \ Malformed, Somewhere(k)
        PROVE  Somewhere(k)'
    <3>1. sweep'[w].hand # sweep[w].hand /\ sweep[w].hand = k => k \in lost'
      BY <2>1 DEF InHand
    <3> QED BY <2>1, <2>2, <3>1 DEF Same, Somewhere
  <2> QED BY <1>1, <2>1, <2>2
<1>5. ASSUME NEW w \in Workers, SweepEmpty(w) \/ SweepError(w), UNCHANGED reclaimVars
      PROVE  Kept'
  <2>1. /\ UNCHANGED <<sweep, lost, outcomes, dispatched, dropped>>
        /\ Same \/ \E j \in Jobs : Queued(j) > 0 /\ Taken(w, j)
    BY <1>0, <1>5, PollEffect
  <2>2. ASSUME NEW k \in Jobs \ Malformed, Somewhere(k), NEW j \in Jobs, Queued(j) > 0, Taken(w, j)
        PROVE  Somewhere(k)'
    <3>1. CASE j = k
      <4>1. Listed(w, k) = 0
        BY <1>0, <2>2, <3>1 DEF OneCopy, Counted
      <4>2. Listed(w, k)' = 1
        BY <2>2, <3>1, <4>1 DEF Taken, One
      <4> QED BY <4>2 DEF Somewhere
    <3>2. CASE j # k
      <4>1. Queued(k)' = Queued(k) /\ \A v \in Workers : Listed(v, k)' = Listed(v, k)
        BY <1>0, <2>2, <3>2 DEF Taken, One, Counted
      <4> QED BY <2>1, <2>2, <4>1 DEF Somewhere
    <3> QED BY <3>1, <3>2
  <2>3. ASSUME Same, NEW k \in Jobs \ Malformed, Somewhere(k)
        PROVE  Somewhere(k)'
    BY <2>1, <2>3 DEF Same, Somewhere
  <2> QED BY <1>1, <2>1, <2>2, <2>3
<1>6. ASSUME NEW w \in Workers, NEW s \in Slots, TaskStep(w, s), UNCHANGED reclaimVars
      PROVE  Kept'
  <2>1. dispatched' = dispatched
    BY <1>0, <1>6, OneTaskEffect
  <2> QED BY <1>1, <1>6, <2>1, KeptByTask
<1>7. ASSUME NEW w \in Workers, SweepStep(w), UNCHANGED workVars
      PROVE  Kept'
  <2>1. dispatched' = dispatched
    BY <1>0, <1>7, OneSweepEffect DEF Fit, Placed
  <2> QED BY <1>1, <1>7, <2>1, KeptBySweep
<1> QED BY <1>2, <1>3, <1>4, <1>5, <1>6, <1>7 DEF Next, WorkStep, ProcessStep

LEMMA InitWhole == Init => Claims /\ Over /\ HandledGone /\ Kept
<1> SUFFICES ASSUME Init PROVE Claims /\ Over /\ HandledGone /\ Kept
  OBVIOUS
<1>1. \A w \in Workers : /\ status[w] = "new" /\ sweep[w] = Idle
                         /\ \A s \in Slots : task[w][s] = Free
  BY DEF Init, BrokerInit, WorkInit, ReclaimInit
<1>2. claim = {} /\ \A j \in Jobs : dispatched[j] = 0
  BY DEF Init, BrokerInit
<1> QED BY <1>1, <1>2 DEF Claims, Over, HandledGone, Kept, Idle, Free

LEMMA AlwaysFit ==
  ASSUME "lapse" \notin Faults, "join" \notin Faults, "dup" \notin Faults, "twice" \notin Faults
  PROVE  Spec => []Fit
<1>1. Placed /\ Seen /\ Manned /\ OneCopy => Fit
  BY DEF Fit
<1>2. (Spec => []Placed) /\ (Spec => []Seen) /\ (Spec => []Manned) /\ (Spec => []OneCopy)
  BY AlwaysPlaced, AlwaysSeen, AlwaysManned, AlwaysOneCopy
<1> QED BY <1>1, <1>2, PTL

Whole == Claims /\ Over /\ HandledGone /\ Kept

LEMMA AlwaysWhole ==
  ASSUME "lapse" \notin Faults, "join" \notin Faults, "dup" \notin Faults, "twice" \notin Faults
  PROVE  Spec => []Whole
<1>1. Init => Whole
  BY InitWhole DEF Whole
<1>2. Fit /\ Whole /\ [Next]_vars => Whole'
  BY NextClaims, NextOver, NextHandled, NextKept DEF Whole
<1> QED BY <1>1, <1>2, AlwaysFit, PTL DEF Spec

\* A well-formed job that was dispatched once disappears without a terminal
\* event in two ways only, a payload gone in the hands of a sweep and a claim
\* that go-redis sent again and Process then took for another worker's: every
\* other LREM of Process's caller removes an entry only after the event is
\* out, whichever calls fail, lose their reply or are sent again, and
\* drainList's de-duplication never meets the last copy.
THEOREM LossesKnown ==
  ASSUME "lapse" \notin Faults, "join" \notin Faults, "dup" \notin Faults, "twice" \notin Faults
  PROVE  Spec => []NoSilentLoss
<1>1. ASSUME Placed, Kept PROVE NoSilentLoss
  <2> SUFFICES ASSUME NEW j \in Jobs \ Malformed, dispatched[j] > 0
               PROVE  Accounted(j)
    BY DEF NoSilentLoss
  <2> DEFINE p == PriorityOf[j]
  <2>0. p \in Priorities
    OBVIOUS
  <2>1. /\ Queued(j) = 1 => Positions(queue[p], j) # {}
        /\ \A w \in Workers : Listed(w, j) = 1 => Positions(processing[w][p], j) # {}
    BY FS_EmptySet DEF Queued, Listed, Copies
  <2> HIDE DEF p
  <2> QED BY <1>1, <2>0, <2>1 DEF Kept, Accounted
<1>2. Whole => Kept
  BY DEF Whole
<1> QED BY <1>1, <1>2, AlwaysPlaced, AlwaysWhole, PTL

-------------------------------------------------------------------------------
(***************************************************************************)
(* The publish marker: a run that reports findings marks the job first.    *)
(***************************************************************************)

\* A goroutine that may still send the first findings event of its run.
Fresh(t) == t.pc = "run" \/ (t.pc \in {"mark", "publish"} /\ t.part = 1)

Told ==
  /\ \A j \in Jobs : /\ reported[j] <= 1
                     /\ reported[j] > 0 => j \in marker
                     /\ j \notin claim => reported[j] = 0
  /\ \A w \in Workers : sweep[w].pc \in {"release", "push"} => sweep[w].hand \notin marker
  /\ \A w \in Workers, s \in Slots :
       /\ task[w][s].pc = "publish" => task[w][s].job \in marker
       /\ task[w][s].pc \in {"mark", "publish"} => task[w][s].part >= 1
       /\ status[w] = "up" /\ Fresh(task[w][s]) => reported[task[w][s].job] = 0

TaskTells(w, s) ==
  LET t == task[w][s]
      u == task'[w][s]
  IN  /\ \/ marker' = marker
         \/ t.pc = "mark" /\ Works(w) /\ marker' = marker \cup {t.job}
      /\ u.pc = "publish" => t.pc = "mark" /\ u.job = t.job /\ u.part = t.part /\ t.job \in marker'
      /\ u.pc = "mark" => u.part = 1 \/ (t.pc = "publish" /\ u.part = t.part + 1)
      /\ \/ reported' = reported
         \/ /\ t.pc = "publish" /\ Works(w) /\ t.part = 1
            /\ reported' = [reported EXCEPT ![t.job] = @ + 1]
            /\ u.pc = "mark" => u.part = 2
      /\ u.pc \notin {"run", "publish"} \/ reported' = reported
      /\ Fresh(u) => \/ Fresh(t) /\ u.job = t.job
                     \/ t.pc = "claim" /\ u.job = t.job /\ t.job \notin claim
                     \/ t.pc = "publish" /\ t.part = 0

LEMMA TaskMarks ==
  ASSUME TypeInv, "marker" \notin Faults, NEW w \in Workers, NEW s \in Slots, TaskStep(w, s),
         ~RemoveResent(w, s)
  PROVE  TaskTells(w, s)
<1> DEFINE t == task[w][s]
           u == task'[w][s]
<1>0. /\ BrokerTypeOK /\ WorkTypeOK /\ t \in Task
      /\ t.pc # "free" => t.job \in Jobs
  BY DEF TypeInv, TypeOK, WorkTypeOK, TaskShape
<1>1. t.part \in Nat
  BY <1>0 DEF Task
<1>2. ASSUME marker' = marker, reported' = reported, u.pc \notin {"run", "mark", "publish"}
      PROVE  TaskTells(w, s)
  BY <1>2 DEF TaskTells, Fresh
<1>3. ASSUME Leave(w, s) PROVE u.pc = "free"
  <2>1. u = Free
    BY <1>0, <1>3, BecomeEffect DEF Leave
  <2> QED BY <2>1 DEF Free
<1>4. CASE Checkout(w, s)
  <2> DEFINE j == Last(queue[at[w]])
             n == [Free EXCEPT !.pc = IF j \in Malformed THEN "purge" ELSE "claim", !.job = j]
  <2>1. Become(w, s, n) /\ marker' = marker /\ reported' = reported
    BY <1>4 DEF Checkout, keyVars
  <2>2. u = n
    BY <1>0, <2>1, BecomeEffect
  <2> HIDE DEF j
  <2>3. n.pc \in {"purge", "claim"}
    BY DEF Free
  <2> QED BY <1>2, <2>1, <2>2, <2>3
<1>5. CASE Purge(w, s) \/ ClaimError(w, s) \/ MarkOutage(w, s) \/ Ack(w, s) \/ AckError(w, s)
  <2>1. Leave(w, s) /\ marker' = marker /\ reported' = reported
    BY <1>5 DEF Purge, ClaimError, MarkOutage, Ack, AckError, keyVars
  <2> QED BY <1>2, <1>3, <2>1
<1>6. CASE Claim(w, s)
  <2> DEFINE n == [t EXCEPT !.pc = "mark", !.verdict = "failed", !.part = 1, !.total = 1]
             m == [t EXCEPT !.pc = "run"]
  <2>1. n.pc = "mark" /\ m.pc = "run" /\ n.part = 1 /\ n.job = t.job /\ m.job = t.job
    BY <1>0 DEF Task
  <2>2. /\ Become(w, s, n) \/ Become(w, s, m)
        /\ t.pc = "claim" /\ t.job \notin claim /\ marker' = marker /\ reported' = reported
    BY <1>6 DEF Claim
  <2> HIDE DEF n, m
  <2>3. u = n \/ u = m
    BY <1>0, <2>2, BecomeEffect
  <2> QED BY <2>1, <2>2, <2>3 DEF TaskTells
<1>7. CASE ClaimDuplicate(w, s) \/ ClaimResent(w, s)
  <2>1. marker' = marker /\ reported' = reported
    BY <1>7 DEF ClaimDuplicate, ClaimResent, keyVars
  <2>2. u = [t EXCEPT !.pc = "ack", !.verdict = "duplicate"]
    BY <1>0, <1>7, BecomeEffect DEF ClaimDuplicate, ClaimResent
  <2>3. u.pc = "ack"
    BY <1>0, <2>2 DEF Task
  <2> QED BY <1>2, <2>1, <2>3
<1>8. ASSUME t.pc = "run", u.job = t.job, u.pc = "run" \/ (u.pc = "mark" /\ u.part = 1),
             marker' = marker, reported' = reported
      PROVE  TaskTells(w, s)
  BY <1>8 DEF TaskTells, Fresh
<1>9. CASE CancelJob(w, s)
  <2>1. t.pc = "run" /\ marker' = marker /\ reported' = reported
    BY <1>9 DEF CancelJob, keyVars
  <2>2. u = [t EXCEPT !.cancelled = TRUE]
    BY <1>0, <1>9, BecomeEffect DEF CancelJob
  <2>3. u.pc = t.pc /\ u.job = t.job
    BY <1>0, <2>2 DEF Task
  <2> QED BY <1>8, <2>1, <2>3
<1>10. CASE RunReturns(w, s)
  <2>1. PICK v, n :
          Become(w, s, [task[w][s] EXCEPT !.pc = "mark", !.verdict = v, !.part = 1, !.total = n])
    BY <1>10, Zenon DEF RunReturns
  <2>2. t.pc = "run" /\ marker' = marker /\ reported' = reported
    BY <1>10 DEF RunReturns, keyVars
  <2>3. u = [t EXCEPT !.pc = "mark", !.verdict = v, !.part = 1, !.total = n]
    BY <1>0, <2>1, BecomeEffect
  <2>4. u.pc = "mark" /\ u.part = 1 /\ u.job = t.job
    BY <1>0, <2>3 DEF Task
  <2> QED BY <1>8, <2>2, <2>4
<1>11. CASE MarkPublished(w, s)
  <2>1. t.pc = "mark" /\ Works(w) /\ marker' = marker \cup {t.job} /\ reported' = reported
    BY <1>11 DEF MarkPublished
  <2>2. u = [t EXCEPT !.pc = "publish"]
    BY <1>0, <1>11, BecomeEffect DEF MarkPublished
  <2>3. u.pc = "publish" /\ u.job = t.job /\ u.part = t.part
    BY <1>0, <2>2 DEF Task
  <2> QED BY <2>1, <2>3 DEF TaskTells, Fresh
<1>12. ASSUME Emit(t)
       PROVE  reported' = reported \/ (t.part = 1 /\ reported' = [reported EXCEPT ![t.job] = @ + 1])
  BY <1>12 DEF Emit
<1>13. CASE Publish(w, s)
  <2> DEFINE i == t.part + 1
             n == [t EXCEPT !.pc = "ack"]
             m == [t EXCEPT !.pc = "mark", !.part = i]
  <2>1. /\ t.pc = "publish" /\ Works(w) /\ Emit(t) /\ marker' = marker
        /\ Become(w, s, n) \/ Become(w, s, m)
    BY <1>13 DEF Publish, keyVars
  <2>2. u = n \/ u = m
    BY <1>0, <2>1, BecomeEffect
  <2> HIDE DEF i
  <2>3. n.pc = "ack" /\ m.pc = "mark" /\ m.part = i
    BY <1>0 DEF Task
  <2> HIDE DEF n, m
  <2>4. i = 1 => t.part = 0
    BY <1>1 DEF i
  <2>5. t.part = 1 => i = 2
    BY DEF i
  <2> QED BY <1>12, <2>1, <2>2, <2>3, <2>4, <2>5 DEF TaskTells, Fresh, i
<1>14. CASE PublishError(w, s)
  <2>1. /\ t.pc = "publish" /\ Leave(w, s) /\ marker' = marker
        /\ (Works(w) /\ Emit(t)) \/ reported' = reported
    BY <1>14 DEF PublishError, keyVars, LosesReply, Works
  <2>2. u.pc = "free"
    BY <1>3, <2>1
  <2> QED BY <1>12, <2>1, <2>2 DEF TaskTells, Fresh
<1> QED BY <1>4, <1>5, <1>6, <1>7, <1>9, <1>10, <1>11, <1>13, <1>14 DEF TaskStep

LEMMA ToldByTask ==
  ASSUME Fit, Claims, Told, "marker" \notin Faults, NEW w \in Workers, NEW s \in Slots,
         TaskStep(w, s), UNCHANGED reclaimVars
  PROVE  Told'
<1> DEFINE t == task[w][s]
           u == task'[w][s]
<1>0. TypeInv /\ Sorted /\ Placed /\ Manned /\ OneCopy /\ reported \in [Jobs -> Nat]
  BY DEF Fit, Placed, TypeInv, TypeOK, WorkTypeOK
<1>1. UNCHANGED <<status, sweep>> /\ Others(w, s)
  BY <1>0, OneTaskEffect
<1>2. TaskWrites(w, s) /\ TaskTells(w, s)
  BY <1>0, NoneStruck, TaskKeys, TaskMarks
<1>3. t.pc # "free" => t.job \in Jobs
  BY <1>0 DEF TypeInv, TaskShape
<1>4. claim \subseteq claim' /\ marker \subseteq marker'
  BY <1>2 DEF TaskWrites, TaskTells
<1>5. ASSUME t.pc # "free", status[w] = "up"
      PROVE  /\ t.job \in Jobs
             /\ \A v \in Workers : sweep[v].hand # t.job
             /\ \A v \in Workers, r \in Slots :
                  status[v] = "up" /\ task[v][r].job = t.job => v = w /\ r = s
  BY <1>0, <1>3, <1>5, OneGoroutine
<1>6. ASSUME reported' # reported
      PROVE  /\ t.pc = "publish" /\ status[w] = "up" /\ t.part = 1 /\ t.job \in Jobs
             /\ t.job \in marker /\ t.job \in claim /\ reported[t.job] = 0
             /\ reported' = [reported EXCEPT ![t.job] = 1]
  <2>1. /\ t.pc = "publish" /\ status[w] = "up" /\ t.part = 1
        /\ reported' = [reported EXCEPT ![t.job] = @ + 1]
    BY <1>2, <1>6 DEF TaskTells, Works
  <2>2. t.job \in Jobs /\ t.job \in marker /\ reported[t.job] = 0
    BY <1>3, <2>1 DEF Told, Fresh
  <2>3. t.job \in claim
    BY <2>1 DEF Claims, Claimed
  <2> QED BY <1>0, <2>1, <2>2, <2>3
<1>7. ASSUME NEW j \in Jobs
      PROVE  /\ reported'[j] <= 1
             /\ reported'[j] > 0 => j \in marker'
             /\ j \notin claim' => reported'[j] = 0
  <2>1. /\ reported[j] <= 1
        /\ reported[j] > 0 => j \in marker
        /\ j \notin claim => reported[j] = 0
    BY DEF Told
  <2>2. CASE reported'[j] = reported[j]
    BY <1>4, <2>1, <2>2
  <2>3. CASE reported'[j] # reported[j]
    <3>1. j = t.job /\ reported'[j] = 1 /\ j \in marker /\ j \in claim
      BY <1>0, <1>6, <2>3
    <3> QED BY <1>4, <3>1
  <2> QED BY <2>2, <2>3
<1>8. \A v \in Workers : sweep'[v].pc \in {"release", "push"} => sweep'[v].hand \notin marker'
  <2>1. ASSUME marker' # marker
        PROVE  marker' = marker \cup {t.job} /\ \A v \in Workers : sweep[v].hand # t.job
    BY <1>2, <1>5, <2>1 DEF TaskTells, Works
  <2> QED BY <1>1, <2>1 DEF Told
<1>9. ASSUME NEW v \in Workers, NEW r \in Slots
      PROVE  /\ task'[v][r].pc = "publish" => task'[v][r].job \in marker'
             /\ task'[v][r].pc \in {"mark", "publish"} => task'[v][r].part >= 1
             /\ status[v] = "up" /\ Fresh(task'[v][r]) => reported'[task'[v][r].job] = 0
  <2>0. /\ task[v][r].pc = "publish" => task[v][r].job \in marker
        /\ task[v][r].pc \in {"mark", "publish"} => task[v][r].part >= 1
        /\ status[v] = "up" /\ Fresh(task[v][r]) => reported[task[v][r].job] = 0
    BY DEF Told
  <2>1. CASE v # w \/ r # s
    <3>1. task'[v][r] = task[v][r]
      BY <1>1, <2>1 DEF Others
    <3>2. ASSUME status[v] = "up", Fresh(task[v][r])
          PROVE  reported'[task[v][r].job] = reported[task[v][r].job]
      <4>1. CASE reported' = reported
        BY <4>1
      <4>2. CASE reported' # reported
        <5>1. /\ t.pc # "free" /\ status[w] = "up" /\ t.job \in Jobs
              /\ reported' = [reported EXCEPT ![t.job] = 1]
          BY <1>6, <4>2
        <5>2. task[v][r].job # t.job
          BY <1>5, <2>1, <3>2, <5>1
        <5>3. task[v][r].job \in Jobs
          BY <1>0, <3>2 DEF TypeInv, TaskShape, Fresh
        <5> QED BY <1>0, <5>1, <5>2, <5>3
      <4> QED BY <4>1, <4>2
    <3> QED BY <1>4, <2>0, <3>1, <3>2
  <2>2. CASE v = w /\ r = s
    <3>1. u.pc = "publish" => u.job \in marker' /\ u.part >= 1
      BY <1>2, <2>0, <2>2 DEF TaskTells
    <3>2. u.pc = "mark" => u.part >= 1
      <4>1. t.pc = "publish" => t.part >= 1 /\ t.part \in Nat
        BY <1>0, <2>0, <2>2 DEF TypeInv, TypeOK, WorkTypeOK, Task
      <4> QED BY <1>2, <4>1 DEF TaskTells
    <3>3. ASSUME status[w] = "up", Fresh(u)
          PROVE  reported'[u.job] = 0
      <4>0. ~(t.pc = "publish" /\ t.part = 0)
        BY <2>0, <2>2
      <4>1. u.job = t.job /\ (Fresh(t) \/ (t.pc = "claim" /\ t.job \notin claim))
        BY <1>2, <3>3, <4>0 DEF TaskTells
      <4>2. t.job \in Jobs
        BY <1>3, <4>1 DEF Fresh
      <4>3. reported[t.job] = 0
        BY <2>0, <2>2, <3>3, <4>1, <4>2 DEF Told
      <4>4. reported' = reported
        <5>1. ASSUME reported' # reported
              PROVE  FALSE
          <6>1. u.pc = "mark" => u.part = 2
            BY <1>2, <5>1 DEF TaskTells
          <6>2. u.pc \notin {"run", "publish"}
            BY <1>2, <5>1 DEF TaskTells
          <6> QED BY <3>3, <6>1, <6>2 DEF Fresh
        <5> QED BY <5>1
      <4> QED BY <4>1, <4>3, <4>4
    <3> QED BY <2>2, <3>1, <3>2, <3>3
  <2> QED BY <2>1, <2>2
<1> QED BY <1>1, <1>7, <1>8, <1>9 DEF Told

LEMMA NextTold ==
  ASSUME Fit, Claims, Told, "marker" \notin Faults, "lapse" \notin Faults, "join" \notin Faults,
         [Next]_vars
  PROVE  Told'
<1>0. TypeInv /\ Sorted /\ HandShape /\ Placed /\ Manned /\ "twice" \notin Faults
  BY DEF Fit, Placed
<1>1. ASSUME UNCHANGED <<claim, marker, reported>>,
             \A v \in Workers : sweep'[v] = sweep[v] \/ sweep'[v] = Idle,
             \A v \in Workers, r \in Slots : task'[v][r] = task[v][r] \/ task'[v][r] = Free,
             \A v \in Workers, r \in Slots : status'[v] = "up" /\ task'[v][r] # Free => status[v] = "up"
      PROVE  Told'
  <2>1. Free.pc = "free" /\ Idle.pc = "idle"
    BY DEF Free, Idle
  <2>2. ASSUME NEW v \in Workers, NEW r \in Slots
        PROVE  /\ task'[v][r].pc = "publish" => task'[v][r].job \in marker
               /\ task'[v][r].pc \in {"mark", "publish"} => task'[v][r].part >= 1
               /\ status'[v] = "up" /\ Fresh(task'[v][r]) => reported[task'[v][r].job] = 0
    BY <1>1, <2>1 DEF Told, Fresh
  <2>3. \A v \in Workers : sweep'[v].pc \in {"release", "push"} => sweep'[v].hand \notin marker
    BY <1>1, <2>1 DEF Told
  <2> QED BY <1>1, <2>2, <2>3 DEF Told
<1>2. CASE UNCHANGED vars
  BY <1>1, <1>2 DEF vars
<1>3. ASSUME NEW j \in Jobs, Dispatch(j), UNCHANGED <<workVars, reclaimVars>>
      PROVE  Told'
  BY <1>1, <1>3 DEF Dispatch, workVars, reclaimVars, keyVars, fleetVars
<1>4. ASSUME NEW w \in Workers, ProcessStep(w)
      PROVE  Told'
  <2>1. /\ UNCHANGED <<claim, marker, reported>>
        /\ \A v \in Workers : v # w => status'[v] = status[v] /\ task'[v] = task[v]
        /\ \A v \in Workers : sweep'[v] = sweep[v] \/ sweep'[v] = Idle
        /\ task'[w] = task[w] \/ task'[w] = [r \in Slots |-> Free]
    BY <1>0, <1>4, ProcessEffect DEF keyVars
  <2>2. status'[w] = "up" => status[w] \in {"new", "up"}
    BY <1>0, <1>4, StatusMoves
  <2>3. status[w] = "new" => \A r \in Slots : task'[w][r] = Free
    BY <1>0, <2>1 DEF Manned
  <2> QED BY <1>1, <2>1, <2>2, <2>3
<1>5. ASSUME NEW w \in Workers, SweepEmpty(w) \/ SweepError(w), UNCHANGED reclaimVars
      PROVE  Told'
  <2>1. UNCHANGED <<status, task, sweep, claim, marker, reported>>
    BY <1>0, <1>5, PollEffect DEF keyVars
  <2> QED BY <1>1, <2>1
<1>6. ASSUME NEW w \in Workers, NEW s \in Slots, TaskStep(w, s), UNCHANGED reclaimVars
      PROVE  Told'
  BY <1>6, ToldByTask
<1>7. ASSUME NEW w \in Workers, SweepStep(w), UNCHANGED workVars
      PROVE  Told'
  <2>1. UNCHANGED <<status, task, reported>> /\ OtherSweeps(w)
    BY <1>0, <1>7, OneSweepEffect DEF workVars
  <2>2. /\ claim' = claim \/ (sweep[w].pc = "release" /\ claim' = claim \ {sweep[w].hand})
        /\ marker' = marker
        /\ sweep'[w].pc = "push" => /\ sweep[w].pc = "release" /\ sweep'[w].hand = sweep[w].hand
                                    /\ sweep[w].hand \notin claim'
        /\ sweep'[w].pc = "release" =>
             /\ sweep'[w].hand = sweep[w].hand
             /\ sweep[w].hand \notin marker \/ sweep[w].pc = "release"
    BY <1>0, <1>7, SweepKeys
  <2>3. ASSUME NEW j \in Jobs, j \notin claim'
        PROVE  reported[j] = 0
    <3>1. CASE j \notin claim
      BY <3>1 DEF Told
    <3>2. CASE j \in claim
      <4>1. sweep[w].pc = "release" /\ j = sweep[w].hand
        BY <2>2, <2>3, <3>2
      <4>2. j \notin marker
        BY <4>1 DEF Told
      <4>3. reported[j] \in Nat /\ ~(reported[j] > 0)
        BY <1>0, <4>2 DEF Told, TypeInv, TypeOK, WorkTypeOK
      <4> QED BY <4>3
    <3> QED BY <3>1, <3>2
  <2>4. \A v \in Workers : sweep'[v].pc \in {"release", "push"} => sweep'[v].hand \notin marker
    BY <2>1, <2>2 DEF Told, OtherSweeps
  <2> QED BY <2>1, <2>2, <2>3, <2>4 DEF Told
<1> QED BY <1>2, <1>3, <1>4, <1>5, <1>6, <1>7 DEF Next, WorkStep, ProcessStep

LEMMA InitTold == Init => Told
<1> SUFFICES ASSUME Init PROVE Told
  OBVIOUS
<1>1. \A w \in Workers : /\ status[w] = "new" /\ sweep[w] = Idle
                         /\ \A s \in Slots : task[w][s] = Free
  BY DEF Init, BrokerInit, WorkInit, ReclaimInit
<1>2. \A j \in Jobs : reported[j] = 0
  BY DEF Init, WorkInit
<1> QED BY <1>1, <1>2 DEF Told, Idle, Free, Fresh

\* At most one run of a job publishes findings, if the marker alone never
\* fails to be written: publishCompletion marks the job before its first
\* event, reclaimOne retries only a job whose marker it did not find, and
\* between the two no other goroutine can hold the job.
THEOREM FindingsReportedOnce ==
  ASSUME "lapse" \notin Faults, "join" \notin Faults, "dup" \notin Faults, "twice" \notin Faults,
         "marker" \notin Faults
  PROVE  Spec => []ReportedOnce
<1>1. Fit /\ Whole /\ Told /\ [Next]_vars => Told'
  BY NextTold DEF Whole
<1>2. Told => ReportedOnce
  BY DEF Told, ReportedOnce
<1> QED BY <1>1, <1>2, InitTold, AlwaysFit, AlwaysWhole, PTL DEF Spec

-------------------------------------------------------------------------------
(***************************************************************************)
(* Which way a goroutine goes, and what it tells.                          *)
(***************************************************************************)
TaskTurns(w, s) ==
  LET t == task[w][s]
      u == task'[w][s]
  IN  /\ u.pc = "run" => t.pc \in {"claim", "run"}
      /\ u.pc = "mark" => t.pc \in {"claim", "run", "publish"}
      /\ u.pc = "publish" => t.pc = "mark"
      /\ u.pc = "ack" => t.pc \in {"claim", "publish"}
      /\ t.pc = "run" => u.pc \in {"run", "mark"}
      /\ \/ outcomes' = outcomes /\ ~(t.pc = "publish" /\ u.pc = "ack")
         \/ /\ t.pc = "publish" /\ u.pc \in {"ack", "free"}
            /\ outcomes' = [outcomes EXCEPT ![t.job] = @ \cup {t.verdict}]
      /\ \/ runs' = runs /\ ~(t.pc = "claim" /\ u.pc = "run")
         \/ /\ t.pc = "claim" /\ u.pc = "run" /\ t.job \notin claim \cup Unregistered
            /\ runs' = [runs EXCEPT ![t.job] = @ + 1]
      /\ t.pc = "claim" /\ u.pc = "mark" => t.job \in Unregistered
      /\ t.pc = "claim" /\ u.pc = "ack" => runs' = runs /\ outcomes' = outcomes

LEMMA TaskTurn ==
  ASSUME TypeInv, NEW w \in Workers, NEW s \in Slots, TaskStep(w, s), ~RemoveResent(w, s)
  PROVE  TaskTurns(w, s)
<1> DEFINE t == task[w][s]
           u == task'[w][s]
<1>0. /\ BrokerTypeOK /\ WorkTypeOK /\ t \in Task
      /\ t.pc # "free" => t.job \in Jobs
  BY DEF TypeInv, TypeOK, WorkTypeOK, TaskShape
<1>1. ASSUME Leave(w, s) PROVE u.pc = "free"
  <2>1. u = Free
    BY <1>0, <1>1, BecomeEffect DEF Leave
  <2> QED BY <2>1 DEF Free
<1>2. CASE Checkout(w, s)
  <2> DEFINE j == Last(queue[at[w]])
             n == [Free EXCEPT !.pc = IF j \in Malformed THEN "purge" ELSE "claim", !.job = j]
  <2>1. Become(w, s, n) /\ t.pc = "free" /\ runs' = runs /\ outcomes' = outcomes
    BY <1>2 DEF Checkout, apiVars
  <2>2. u = n
    BY <1>0, <2>1, BecomeEffect
  <2> HIDE DEF j
  <2>3. n.pc \in {"purge", "claim"}
    BY DEF Free
  <2> QED BY <2>1, <2>2, <2>3 DEF TaskTurns
<1>3. CASE Purge(w, s) \/ ClaimError(w, s) \/ MarkOutage(w, s) \/ Ack(w, s) \/ AckError(w, s)
  <2>1. Leave(w, s) /\ t.pc # "run" /\ runs' = runs /\ outcomes' = outcomes
    BY <1>3 DEF Purge, ClaimError, MarkOutage, Ack, AckError, apiVars
  <2>2. u.pc = "free"
    BY <1>1, <2>1
  <2> QED BY <2>1, <2>2 DEF TaskTurns
<1>4. CASE Claim(w, s)
  <2> DEFINE n == [t EXCEPT !.pc = "mark", !.verdict = "failed", !.part = 1, !.total = 1]
             m == [t EXCEPT !.pc = "run"]
  <2>1. n.pc = "mark" /\ m.pc = "run"
    BY <1>0 DEF Task
  <2>2. /\ t.pc = "claim" /\ t.job \notin claim /\ outcomes' = outcomes
        /\ \/ t.job \in Unregistered /\ Become(w, s, n) /\ runs' = runs
           \/ t.job \notin Unregistered /\ Become(w, s, m) /\ runs' = [runs EXCEPT ![t.job] = @ + 1]
    BY <1>4 DEF Claim, apiVars
  <2> HIDE DEF n, m
  <2>3. (Become(w, s, n) => u = n) /\ (Become(w, s, m) => u = m)
    BY <1>0, BecomeEffect
  <2> QED BY <2>1, <2>2, <2>3 DEF TaskTurns
<1>5. CASE ClaimDuplicate(w, s) \/ ClaimResent(w, s)
  <2>1. t.pc = "claim" /\ runs' = runs /\ outcomes' = outcomes
    BY <1>5 DEF ClaimDuplicate, ClaimResent, apiVars
  <2>2. u = [t EXCEPT !.pc = "ack", !.verdict = "duplicate"]
    BY <1>0, <1>5, BecomeEffect DEF ClaimDuplicate, ClaimResent
  <2>3. u.pc = "ack"
    BY <1>0, <2>2 DEF Task
  <2> QED BY <2>1, <2>3 DEF TaskTurns
<1>6. CASE CancelJob(w, s)
  <2>1. t.pc = "run" /\ runs' = runs /\ outcomes' = outcomes
    BY <1>6 DEF CancelJob, apiVars
  <2>2. u = [t EXCEPT !.cancelled = TRUE]
    BY <1>0, <1>6, BecomeEffect DEF CancelJob
  <2>3. u.pc = "run"
    BY <1>0, <2>1, <2>2 DEF Task
  <2> QED BY <2>1, <2>3 DEF TaskTurns
<1>7. CASE RunReturns(w, s)
  <2>1. PICK v, n :
          Become(w, s, [task[w][s] EXCEPT !.pc = "mark", !.verdict = v, !.part = 1, !.total = n])
    BY <1>7, Zenon DEF RunReturns
  <2>2. t.pc = "run" /\ runs' = runs /\ outcomes' = outcomes
    BY <1>7 DEF RunReturns, apiVars
  <2>3. u = [t EXCEPT !.pc = "mark", !.verdict = v, !.part = 1, !.total = n]
    BY <1>0, <2>1, BecomeEffect
  <2>4. u.pc = "mark"
    BY <1>0, <2>3 DEF Task
  <2> QED BY <2>2, <2>4 DEF TaskTurns
<1>8. CASE MarkPublished(w, s)
  <2>1. t.pc = "mark" /\ runs' = runs /\ outcomes' = outcomes
    BY <1>8 DEF MarkPublished, apiVars
  <2>2. u = [t EXCEPT !.pc = "publish"]
    BY <1>0, <1>8, BecomeEffect DEF MarkPublished
  <2>3. u.pc = "publish"
    BY <1>0, <2>2 DEF Task
  <2> QED BY <2>1, <2>3 DEF TaskTurns
<1>9. CASE Publish(w, s)
  <2> DEFINE n == [t EXCEPT !.pc = "ack"]
             m == [t EXCEPT !.pc = "mark", !.part = @ + 1]
  <2>1. /\ t.pc = "publish" /\ Emit(t) /\ runs' = runs
        /\ Become(w, s, IF t.part = t.total THEN n ELSE m)
    BY <1>9 DEF Publish
  <2>2. n.pc = "ack" /\ m.pc = "mark"
    BY <1>0 DEF Task
  <2>3. u = IF t.part = t.total THEN n ELSE m
    BY <1>0, <2>1, BecomeEffect
  <2> HIDE DEF n, m
  <2>4. CASE t.part = t.total
    <3>1. u.pc = "ack" /\ outcomes' = [outcomes EXCEPT ![t.job] = @ \cup {t.verdict}]
      BY <2>1, <2>2, <2>3, <2>4 DEF Emit
    <3> QED BY <2>1, <3>1 DEF TaskTurns
  <2>5. CASE t.part # t.total
    <3>1. u.pc = "mark" /\ outcomes' = outcomes
      BY <2>1, <2>2, <2>3, <2>5 DEF Emit
    <3> QED BY <2>1, <3>1 DEF TaskTurns
  <2> QED BY <2>4, <2>5
<1>10. CASE PublishError(w, s)
  <2>1. t.pc = "publish" /\ Leave(w, s) /\ runs' = runs /\ (Emit(t) \/ outcomes' = outcomes)
    BY <1>10 DEF PublishError
  <2>2. u.pc = "free"
    BY <1>1, <2>1
  <2>3. outcomes' = outcomes \/ outcomes' = [outcomes EXCEPT ![t.job] = @ \cup {t.verdict}]
    BY <2>1 DEF Emit
  <2> QED BY <2>1, <2>2, <2>3 DEF TaskTurns
<1> QED BY <1>2, <1>3, <1>4, <1>5, <1>6, <1>7, <1>8, <1>9, <1>10 DEF TaskStep

-------------------------------------------------------------------------------
(***************************************************************************)
(* A completed event stands: the Ack that follows it removes the delivery  *)
(* before any sweep may open the list it is on.                            *)
(***************************************************************************)

\* A process that owes an Ack is alive, and no sweep takes it for dead.
Guarded ==
  \A w \in Workers : AckPending(w) =>
    /\ status[w] \in {"up", "draining"} /\ beat[w]
    /\ \A v \in Workers : /\ sweep[v].pc = "scan" => w \in sweep[v].live
                          /\ w \notin Opened(v)

NoCrash == \A w \in Workers : status[w] # "crashed"

\* Until a process crashes, a completed job is nowhere but on the list of a
\* process that owes its Ack.
Standing ==
  NoCrash =>
    \A j \in Jobs :
      /\ dispatched[j] = 0 => outcomes[j] = {}
      /\ "completed" \in outcomes[j] =>
           /\ Queued(j) = 0
           /\ \A w \in Workers :
                /\ sweep[w].hand # j
                /\ Listed(w, j) > 0 => \E s \in Slots : task[w][s].job = j /\ task[w][s].pc = "ack"

\* With no failing call, an Ack is taken up by a running process only, right
\* after the terminal event, and it removes the entry.
LEMMA TaskAcks ==
  ASSUME TypeInv, Sorted, "redis" \notin Faults, "reply" \notin Faults,
         NEW w \in Workers, NEW s \in Slots, TaskStep(w, s)
  PROVE  /\ task'[w][s].pc = "ack" => Works(w)
         /\ outcomes' # outcomes => Works(w) /\ task'[w][s].pc = "ack"
         /\ task[w][s].pc = "ack" => Removed(w, task[w][s].job)
<1> DEFINE t == task[w][s]
           u == task'[w][s]
<1>0. /\ BrokerTypeOK /\ WorkTypeOK /\ t \in Task
      /\ t.pc # "free" => t.job \in Jobs
  BY DEF TypeInv, TypeOK, WorkTypeOK, TaskShape
<1>r. ~RemoveResent(w, s) /\ ~ClaimResent(w, s)
  BY DEF RemoveResent, ClaimResent, Resends, LosesReply, ResendLimit
<1>1. TaskTurns(w, s)
  BY <1>r, TaskTurn
<1>2. u.pc = "ack" => t.pc \in {"claim", "publish"}
  BY <1>1 DEF TaskTurns
<1>3. ASSUME Leave(w, s) PROVE u.pc # "ack"
  <2>1. u = Free
    BY <1>0, <1>3, BecomeEffect DEF Leave
  <2> QED BY <2>1 DEF Free
<1>4. ASSUME u.pc = "ack" PROVE Works(w)
  <2>1. CASE t.pc = "claim"
    <3>1. ~ClaimError(w, s)
      BY <1>3, <1>4 DEF ClaimError
    <3>2. Claim(w, s) \/ ClaimDuplicate(w, s)
      BY <1>r, <2>1, <3>1 DEF TaskStep, Checkout, Purge, CancelJob, RunReturns, MarkPublished,
                        MarkOutage, Publish, PublishError, Ack, AckError
    <3> QED BY <3>2 DEF Claim, ClaimDuplicate
  <2>2. CASE t.pc = "publish"
    <3>1. ~PublishError(w, s)
      BY <1>3, <1>4 DEF PublishError
    <3>2. Publish(w, s)
      BY <1>r, <2>2, <3>1 DEF TaskStep, Checkout, Purge, Claim, ClaimDuplicate, ClaimError, CancelJob,
                        RunReturns, MarkPublished, MarkOutage, Ack, AckError
    <3> QED BY <3>2 DEF Publish
  <2> QED BY <1>2, <1>4, <2>1, <2>2
<1>5. ASSUME outcomes' # outcomes PROVE Works(w) /\ u.pc = "ack"
  <2>1. t.pc = "publish"
    BY <1>1, <1>5 DEF TaskTurns
  <2>2. ~PublishError(w, s)
    BY <1>5 DEF PublishError, LosesReply
  <2>3. Publish(w, s)
    BY <1>r, <2>1, <2>2 DEF TaskStep, Checkout, Purge, Claim, ClaimDuplicate, ClaimError, CancelJob,
                      RunReturns, MarkPublished, MarkOutage, Ack, AckError
  <2> DEFINE n == [t EXCEPT !.pc = "ack"]
  <2>4. t.part = t.total /\ Become(w, s, n)
    BY <1>5, <2>3 DEF Publish, Emit
  <2>5. u = n
    BY <1>0, <2>4, BecomeEffect
  <2>6. u.pc = "ack"
    BY <1>0, <2>5 DEF Task
  <2> QED BY <2>3, <2>6 DEF Publish
<1>6. ASSUME t.pc = "ack" PROVE Removed(w, t.job)
  <2>1. Ack(w, s)
    BY <1>r, <1>6 DEF TaskStep, Checkout, Purge, Claim, ClaimDuplicate, ClaimError, CancelJob, RunReturns,
                MarkPublished, MarkOutage, Publish, PublishError, AckError
  <2>2. queue' = queue /\ LRem(w, t.job) /\ t.job \in Jobs
    BY <1>0, <1>6, <2>1 DEF Ack
  <2> QED BY <1>0, <2>2, RemLists
<1> QED BY <1>4, <1>5, <1>6

LEMMA NextGuarded ==
  ASSUME Fit, Guarded, [Next]_vars, "lapse" \notin Faults, "join" \notin Faults,
         "redis" \notin Faults, "reply" \notin Faults
  PROVE  Guarded'
<1>0. /\ TypeInv /\ Sorted /\ HandShape /\ BrokerTypeOK /\ WorkTypeOK /\ Seen /\ Manned
      /\ OneCopy /\ "twice" \notin Faults
  BY DEF Fit, Placed, TypeInv, TypeOK
<1>1. ASSUME UNCHANGED <<status, beat, sweep>>,
             \A w \in Workers : AckPending(w)' => AckPending(w) \/ status[w] = "up"
      PROVE  Guarded'
  <2>1. \A v \in Workers : Opened(v)' = Opened(v)
    BY <1>1 DEF Opened
  <2> QED BY <1>0, <1>1, <2>1 DEF Guarded, Seen
<1>2. CASE UNCHANGED vars
  BY <1>1, <1>2 DEF vars, AckPending
<1>3. ASSUME NEW j \in Jobs, Dispatch(j), UNCHANGED <<workVars, reclaimVars>>
      PROVE  Guarded'
  BY <1>1, <1>3 DEF Dispatch, fleetVars, workVars, reclaimVars, AckPending
<1>4. ASSUME NEW w \in Workers, ProcessStep(w)
      PROVE  Guarded'
  <2>1. /\ \A v \in Workers : v # w => status'[v] = status[v] /\ beat'[v] = beat[v]
        /\ \A v \in Workers : v # w => task'[v] = task[v]
        /\ \A v \in Workers : sweep'[v] = sweep[v] \/ sweep'[v] = Idle
        /\ task'[w] = task[w] \/ task'[w] = [s \in Slots |-> Free]
    BY <1>0, <1>4, ProcessEffect
  <2>2. \A v \in Workers : /\ Opened(v)' \subseteq Opened(v)
                           /\ sweep'[v].pc = "scan" => sweep'[v] = sweep[v]
    BY <2>1 DEF Opened, Idle
  <2>3. \A v \in Workers : AckPending(v)' => AckPending(v)
    BY <2>1 DEF AckPending, Free
  <2>4. ASSUME AckPending(w) PROVE status[w] \in {"up", "draining"} /\ beat[w]
    BY <2>4 DEF Guarded
  <2>5. ASSUME AckPending(w)' PROVE status'[w] \in {"up", "draining"} /\ beat'[w]
    <3>1. AckPending(w) /\ status[w] \in {"up", "draining"} /\ beat[w]
      BY <2>3, <2>4, <2>5
    <3>2. ~Crash(w) /\ ~Exit(w)
      BY <1>0, <2>5, <3>1 DEF Crash, Exit, AckPending, Free, WorkTypeOK
    <3>3. CASE Start(w)
      BY <3>1, <3>3 DEF Start, Register, RegisterFails
    <3>4. CASE HeartbeatTick(w)
      BY <3>1, <3>4 DEF HeartbeatTick, Refresh
    <3>5. CASE Expire(w)
      BY <3>1, <3>5 DEF Expire
    <3>6. CASE Shutdown(w)
      BY <1>0, <3>1, <3>6 DEF Shutdown, BrokerTypeOK
    <3> QED BY <1>4, <3>2, <3>3, <3>4, <3>5, <3>6 DEF ProcessStep
  <2> QED BY <2>1, <2>2, <2>3, <2>5 DEF Guarded
<1>5. ASSUME NEW w \in Workers, SweepEmpty(w) \/ SweepError(w), UNCHANGED reclaimVars
      PROVE  Guarded'
  <2>1. UNCHANGED <<status, beat, task, sweep>>
    BY <1>0, <1>5, PollEffect
  <2> QED BY <1>1, <2>1 DEF AckPending
<1>6. ASSUME NEW w \in Workers, NEW s \in Slots, TaskStep(w, s), UNCHANGED reclaimVars
      PROVE  Guarded'
  <2>1. UNCHANGED <<status, beat, sweep>> /\ Others(w, s)
    BY <1>0, <1>6, OneTaskEffect
  <2>2. task'[w][s].pc = "ack" => status[w] = "up"
    BY <1>0, <1>6, TaskAcks DEF Works
  <2>3. \A v \in Workers : AckPending(v)' => AckPending(v) \/ status[v] = "up"
    BY <2>1, <2>2 DEF AckPending, Others
  <2> QED BY <1>1, <2>1, <2>3
<1>7. ASSUME NEW w \in Workers, SweepStep(w), UNCHANGED workVars
      PROVE  Guarded'
  <2>1. /\ UNCHANGED <<status, beat, task>> /\ OtherSweeps(w)
        /\ Rests(w) \/ (\E j \in Jobs : Pops(w, j)) \/ GivesUp(w) \/ Requeues(w)
    BY <1>0, <1>7, OneSweepEffect
  <2>2. \A v \in Workers : AckPending(v)' = AckPending(v)
    BY <2>1 DEF AckPending
  <2>3. ASSUME NEW x \in Workers, AckPending(x)
        PROVE  (sweep'[w].pc = "scan" => x \in sweep'[w].live) /\ x \notin Opened(w)'
    <3>0. /\ beat[x] /\ x \notin Opened(w)
          /\ sweep[w].pc = "scan" => x \in sweep[w].live
      BY <2>3 DEF Guarded
    <3>1. CASE Opens(w)
      <4>1. x \notin Opened(w)'
        BY <3>0, <3>1, OpenedOrphans DEF Opens
      <4> QED BY <3>1, <4>1 DEF Opens
    <3>2. CASE ~Opens(w)
      <4>1. \/ Ends(w) \/ Advances(w) \/ Looks(w) \/ Grips(w) \/ LetsGo(w) \/ sweep'[w] = sweep[w]
            \/ \E j \in Jobs : PicksUp(w, j)
        BY <2>1, <3>2 DEF Rests, Pops, GivesUp, Requeues
      <4>2. Opened(w)' \subseteq Opened(w)
        BY <1>0, <4>1, OpenedMoves
      <4>3. sweep'[w].pc = "scan" => x \in sweep'[w].live
        BY <3>0, <4>1 DEF Ends, Idle, Advances, Looks, Grips, HandPCs, LetsGo, PicksUp
      <4> QED BY <3>0, <4>2, <4>3
    <3> QED BY <3>1, <3>2
  <2>4. \A v \in Workers : v # w => sweep'[v] = sweep[v] /\ Opened(v)' = Opened(v)
    BY <2>1 DEF OtherSweeps, Opened
  <2> QED BY <2>1, <2>2, <2>3, <2>4 DEF Guarded
<1> QED BY <1>2, <1>3, <1>4, <1>5, <1>6, <1>7 DEF Next, WorkStep, ProcessStep

\* What a step must leave alone for a completed job to stand.
LEMMA StandsOn ==
  ASSUME Standing, NoCrash, NEW j \in Jobs, "completed" \in outcomes[j],
         Queued(j)' = 0,
         \A w \in Workers : /\ sweep'[w].hand = j => sweep[w].hand = j
                            /\ Listed(w, j)' > 0 => Listed(w, j) > 0
                            /\ \A s \in Slots : Listed(w, j)' > 0 /\ task[w][s].pc = "ack"
                                 /\ task[w][s].job = j => task'[w][s] = task[w][s]
  PROVE  /\ Queued(j)' = 0
         /\ \A w \in Workers :
              /\ sweep'[w].hand # j
              /\ Listed(w, j)' > 0 => \E s \in Slots : task'[w][s].job = j /\ task'[w][s].pc = "ack"
<1>1. ASSUME NEW w \in Workers PROVE sweep'[w].hand # j
  BY DEF Standing
<1>2. ASSUME NEW w \in Workers, Listed(w, j)' > 0
      PROVE  \E s \in Slots : task'[w][s].job = j /\ task'[w][s].pc = "ack"
  <2>1. PICK s \in Slots : task[w][s].job = j /\ task[w][s].pc = "ack"
    BY <1>2 DEF Standing
  <2> QED BY <1>2, <2>1
<1> QED BY <1>1, <1>2

LEMMA StandingByTask ==
  ASSUME Fit, Placed', Standing, "redis" \notin Faults, "reply" \notin Faults,
         NEW w \in Workers, NEW s \in Slots, TaskStep(w, s), UNCHANGED reclaimVars
  PROVE  Standing'
<1> DEFINE t == task[w][s]
           u == task'[w][s]
<1>0. TypeInv /\ Sorted /\ Placed /\ Manned /\ OneCopy /\ Counted /\ Counted'
  BY CountedNow, CountedNext DEF Fit, Placed
<1>1. /\ UNCHANGED <<status, sweep, dispatched>> /\ Others(w, s)
      /\ \/ \E j \in Jobs : TakesJob(w, s, j)
         \/ DropsJob(w, s)
         \/ KeepsJob(w, s)
         \/ LeavesJob(w, s)
  BY <1>0, OneTaskEffect
<1> SUFFICES ASSUME NoCrash, NEW j \in Jobs
             PROVE  /\ dispatched[j] = 0 => outcomes'[j] = {}
                    /\ "completed" \in outcomes'[j] =>
                         /\ Queued(j)' = 0
                         /\ \A v \in Workers :
                              /\ sweep'[v].hand # j
                              /\ Listed(v, j)' > 0 =>
                                   \E r \in Slots : task'[v][r].job = j /\ task'[v][r].pc = "ack"
  BY <1>1 DEF Standing, NoCrash
<1>2. /\ dispatched[j] = 0 => outcomes[j] = {}
      /\ "completed" \in outcomes[j] => Queued(j) = 0
  BY DEF Standing
<1>3. /\ u.pc = "ack" => Works(w)
      /\ outcomes' # outcomes => Works(w) /\ u.pc = "ack"
      /\ t.pc = "ack" => Removed(w, t.job)
  BY <1>0, TaskAcks
<1>4. CASE outcomes'[j] # outcomes[j]
  <2>1. t.pc = "publish" /\ t.job = j /\ status[w] = "up" /\ u.pc = "ack"
    <3>1. TaskTurns(w, s)
      BY <1>0, NoneStruck, TaskTurn
    <3> QED BY <1>0, <1>3, <1>4, <3>1 DEF TaskTurns, Works, TypeInv, TypeOK, BrokerTypeOK
  <2>2. /\ Queued(j) = 0 /\ dispatched[j] # 0 /\ Listed(w, j) = 1
        /\ \A v \in Workers : sweep[v].hand # j
    BY <1>0, <2>1, OneGoroutine
  <2>3. \A v \in Workers : v # w => Listed(v, j) = 0
    BY <1>0, <2>2 DEF OneCopy
  <2>4. KeepsJob(w, s)
    BY <1>1, <2>1 DEF TakesJob, DropsJob, LeavesJob, Free
  <2>5. u.job = j /\ Queued(j)' = 0 /\ \A v \in Workers : v # w => Listed(v, j)' = 0
    BY <2>1, <2>2, <2>3, <2>4 DEF KeepsJob, Same
  <2> QED BY <1>1, <2>1, <2>2, <2>5
<1>5. CASE outcomes'[j] = outcomes[j] /\ "completed" \in outcomes[j]
  <2>1. Queued(j)' = 0 /\ \A v \in Workers : Listed(v, j)' > 0 => Listed(v, j) > 0
    <3>1. ASSUME NEW k \in Jobs, TakesJob(w, s, k)
          PROVE  Queued(j)' = 0 /\ \A v \in Workers : Listed(v, j)' > 0 => Listed(v, j) > 0
      <4>1. k # j
        BY <1>2, <1>5, <3>1 DEF TakesJob
      <4> QED BY <1>0, <1>2, <1>5, <3>1, <4>1 DEF TakesJob, Taken, One, Counted
    <3>2. CASE DropsJob(w, s)
      BY <1>0, <1>2, <1>5, <3>2 DEF DropsJob, Removed, One, Counted
    <3> QED BY <1>1, <1>2, <1>5, <3>1, <3>2 DEF KeepsJob, LeavesJob, Same
  <2>2. ASSUME NEW v \in Workers, NEW r \in Slots, Listed(v, j)' > 0, task[v][r].pc = "ack",
               task[v][r].job = j
        PROVE  task'[v][r] = task[v][r]
    <3>1. ASSUME v = w, r = s PROVE FALSE
      <4>1. Removed(w, j)
        BY <1>3, <2>2, <3>1
      <4>2. Listed(w, j) <= 1 /\ Listed(w, j) \in Nat
        BY <1>0 DEF OneCopy, Counted
      <4>3. Listed(w, j)' = 0
        BY <4>1, <4>2 DEF Removed, One
      <4> QED BY <2>2, <3>1, <4>3
    <3> QED BY <1>1, <3>1 DEF Others
  <2>3. \A v \in Workers : sweep'[v].hand = j => sweep[v].hand = j
    BY <1>1
  <2>4. /\ Queued(j)' = 0
        /\ \A v \in Workers :
             /\ sweep'[v].hand # j
             /\ Listed(v, j)' > 0 => \E r \in Slots : task'[v][r].job = j /\ task'[v][r].pc = "ack"
    BY <1>5, <2>1, <2>2, <2>3, StandsOn
  <2> QED BY <1>2, <1>5, <2>4
<1>6. CASE outcomes'[j] = outcomes[j] /\ "completed" \notin outcomes[j]
  BY <1>2, <1>6
<1> QED BY <1>4, <1>5, <1>6

LEMMA StandingBySweep ==
  ASSUME Fit, Placed', Guarded, Standing, NEW w \in Workers, SweepStep(w), UNCHANGED workVars
  PROVE  Standing'
<1>0. TypeInv /\ Sorted /\ HandShape /\ OneCopy /\ Counted /\ Counted' /\ "twice" \notin Faults
  BY CountedNow, CountedNext DEF Fit, Placed
<1>1. /\ UNCHANGED <<status, task, dispatched>> /\ OtherSweeps(w)
      /\ Rests(w) \/ (\E j \in Jobs : Pops(w, j)) \/ GivesUp(w) \/ Requeues(w)
  BY <1>0, OneSweepEffect
<1> SUFFICES ASSUME NoCrash, NEW j \in Jobs
             PROVE  /\ dispatched[j] = 0 => outcomes'[j] = {}
                    /\ "completed" \in outcomes'[j] =>
                         /\ Queued(j)' = 0
                         /\ \A v \in Workers :
                              /\ sweep'[v].hand # j
                              /\ Listed(v, j)' > 0 =>
                                   \E r \in Slots : task'[v][r].job = j /\ task'[v][r].pc = "ack"
  BY <1>1 DEF Standing, NoCrash
<1>2. /\ dispatched[j] = 0 => outcomes[j] = {}
      /\ "completed" \in outcomes[j] => Queued(j) = 0 /\ \A v \in Workers : sweep[v].hand # j
  BY DEF Standing
<1>3. outcomes \in [Jobs -> SUBSET Verdicts]
  BY <1>0 DEF TypeInv, TypeOK, BrokerTypeOK
<1>4. ASSUME outcomes'[j] # outcomes[j]
      PROVE  GivesUp(w) /\ sweep[w].hand = j /\ outcomes'[j] = outcomes[j] \cup {"failed"}
  <2>1. GivesUp(w)
    BY <1>1, <1>4 DEF Rests, Pops, Requeues, Quiet
  <2> QED BY <1>3, <1>4, <2>1 DEF GivesUp
<1>5. ASSUME "completed" \in outcomes'[j]
      PROVE  /\ "completed" \in outcomes[j] /\ outcomes'[j] = outcomes[j]
             /\ Queued(j) = 0 /\ \A v \in Workers : sweep[v].hand # j
  BY <1>2, <1>4, <1>5
<1>6. ASSUME dispatched[j] = 0 PROVE outcomes'[j] = {}
  <2>1. sweep[w].hand # j
    BY <1>0, <1>6 DEF OneCopy
  <2> QED BY <1>2, <1>4, <1>6, <2>1
<1>7. ASSUME "completed" \in outcomes'[j], NEW k \in Jobs, Pops(w, k) PROVE k # j
  <2> DEFINE x == Head(sweep[w].keys)[1]
  <2>1. x \in Workers /\ Listed(x, k) > 0 /\ sweep[w].pc = "drain"
    BY <1>7 DEF Pops, PopsOff
  <2>2. x \in Opened(w)
    <3> DEFINE ks == sweep[w].keys
    <3>1. ks \in Seq(Workers \X Priorities) /\ ks # <<>>
      BY <1>0, <2>1, OpenList
    <3> HIDE DEF ks
    <3>2. 1 \in 1..Len(ks) /\ Head(ks) = ks[1]
      BY <3>1
    <3> QED BY <3>2 DEF Opened, ks
  <2> HIDE DEF x
  <2>3. ~AckPending(x)
    BY <2>1, <2>2 DEF Guarded
  <2>4. ASSUME k = j PROVE FALSE
    BY <1>5, <1>7, <2>1, <2>3, <2>4 DEF Standing, AckPending
  <2> QED BY <2>4
<1>8. ASSUME "completed" \in outcomes'[j]
      PROVE  /\ Queued(j)' = 0
             /\ \A v \in Workers : /\ sweep'[v].hand = j => sweep[v].hand = j
                                   /\ Listed(v, j)' = Listed(v, j)
  <2>0. sweep[w].hand # j /\ Queued(j) = 0 /\ j # NoJob
    BY <1>5, <1>8
  <2>1. \A v \in Workers : v # w => sweep'[v].hand = sweep[v].hand
    BY <1>1 DEF OtherSweeps
  <2>2. CASE Rests(w)
    <3>1. sweep'[w].hand = sweep[w].hand \/ sweep'[w].hand = NoJob
      BY <2>2 DEF Rests, Ends, Idle, Advances, Looks, Opens, Grips
    <3> QED BY <2>0, <2>1, <2>2, <3>1 DEF Rests, Same
  <2>3. ASSUME NEW k \in Jobs, Pops(w, k)
        PROVE  /\ Queued(j)' = 0
               /\ \A v \in Workers : /\ sweep'[v].hand = j => sweep[v].hand = j
                                     /\ Listed(v, j)' = Listed(v, j)
    <3>1. k # j
      BY <1>7, <1>8, <2>3
    <3>2. sweep'[w].hand = sweep[w].hand \/ sweep'[w].hand = NoJob \/ sweep'[w].hand = k
      BY <2>3 DEF Pops, PicksUp, Ends, Idle, Advances
    <3>3. Queued(j)' = 0 /\ \A v \in Workers : Listed(v, j)' = Listed(v, j)
      BY <1>0, <2>0, <2>3, <3>1 DEF Pops, PopsOff, Removed, One, Counted
    <3> QED BY <2>0, <2>1, <3>1, <3>2, <3>3
  <2>4. CASE GivesUp(w)
    BY <2>0, <2>1, <2>4 DEF GivesUp, LetsGo, Same
  <2>5. CASE Requeues(w)
    BY <1>0, <2>0, <2>1, <2>5 DEF Requeues, LetsGo, Pushed, One, Counted
  <2> QED BY <1>1, <2>2, <2>3, <2>4, <2>5
<1>9. ASSUME "completed" \in outcomes'[j]
      PROVE  /\ Queued(j)' = 0
             /\ \A v \in Workers :
                  /\ sweep'[v].hand # j
                  /\ Listed(v, j)' > 0 =>
                       \E r \in Slots : task'[v][r].job = j /\ task'[v][r].pc = "ack"
  BY <1>1, <1>5, <1>8, <1>9, StandsOn
<1> QED BY <1>6, <1>9

LEMMA NextStanding ==
  ASSUME Fit, Placed', Guarded, Standing, [Next]_vars, "dup" \notin Faults,
         "redis" \notin Faults, "reply" \notin Faults
  PROVE  Standing'
<1>0. /\ TypeInv /\ Sorted /\ OneCopy /\ Counted /\ Counted' /\ BrokerTypeOK /\ WorkTypeOK
  BY CountedNow, CountedNext DEF Fit, Placed, TypeInv, TypeOK
<1>1. ASSUME NoCrash, UNCHANGED outcomes,
             \A k \in Jobs : dispatched'[k] = 0 => dispatched[k] = 0,
             \A k \in Jobs : "completed" \in outcomes[k] /\ Queued(k) = 0 /\ dispatched[k] # 0 =>
               /\ Queued(k)' = 0
               /\ \A v \in Workers :
                    /\ sweep'[v].hand = k => sweep[v].hand = k
                    /\ Listed(v, k)' = Listed(v, k)
                    /\ \A r \in Slots : task[v][r].pc = "ack" => task'[v][r] = task[v][r]
      PROVE  Standing'
  <2> SUFFICES ASSUME NEW k \in Jobs
               PROVE  /\ dispatched'[k] = 0 => outcomes[k] = {}
                      /\ "completed" \in outcomes[k] =>
                           /\ Queued(k)' = 0
                           /\ \A v \in Workers :
                                /\ sweep'[v].hand # k
                                /\ Listed(v, k)' > 0 =>
                                     \E r \in Slots : task'[v][r].job = k /\ task'[v][r].pc = "ack"
    BY <1>1 DEF Standing
  <2>1. dispatched'[k] = 0 => outcomes[k] = {}
    BY <1>1 DEF Standing
  <2>2. ASSUME "completed" \in outcomes[k]
        PROVE  Queued(k) = 0 /\ dispatched[k] # 0
    BY <1>1, <2>2 DEF Standing
  <2>3. ASSUME "completed" \in outcomes[k]
        PROVE  /\ Queued(k)' = 0
               /\ \A v \in Workers :
                    /\ sweep'[v].hand # k
                    /\ Listed(v, k)' > 0 =>
                         \E r \in Slots : task'[v][r].job = k /\ task'[v][r].pc = "ack"
    BY <1>1, <2>2, <2>3, StandsOn
  <2> QED BY <2>1, <2>3
<1>2. CASE UNCHANGED vars
  BY <1>2 DEF vars, Standing, NoCrash, Queued, Listed
<1>3. ASSUME NEW j \in Jobs, Dispatch(j), UNCHANGED <<workVars, reclaimVars>>
      PROVE  Standing'
  <2>1. Pushed(j) /\ UNCHANGED <<status, task, sweep, outcomes>>
    BY <1>0, <1>3, DispatchLists DEF Dispatch, fleetVars, workVars, reclaimVars
  <2>2. dispatched[j] = 0 /\ \A k \in Jobs : dispatched'[k] = 0 => dispatched[k] = 0
    BY <1>0, <1>3 DEF Dispatch, BrokerTypeOK
  <2>3. \A k \in Jobs : /\ k # j => Queued(k)' = Queued(k)
                        /\ \A v \in Workers : Listed(v, k)' = Listed(v, k)
    BY <1>0, <2>1 DEF Pushed, One, Counted
  <2>4. CASE NoCrash
    BY <1>1, <2>1, <2>2, <2>3, <2>4
  <2> QED BY <2>1, <2>4 DEF Standing, NoCrash
<1>4. ASSUME NEW w \in Workers, ProcessStep(w)
      PROVE  Standing'
  <2>1. /\ Same /\ UNCHANGED <<dispatched, outcomes>>
        /\ \A v \in Workers : v # w => status'[v] = status[v] /\ task'[v] = task[v]
        /\ \A v \in Workers : sweep'[v] = sweep[v] \/ sweep'[v] = Idle
    BY <1>0, <1>4, ProcessEffect
  <2>2. ASSUME NoCrash'
        PROVE  /\ NoCrash
               /\ \A r \in Slots : task[w][r].pc = "ack" => task'[w][r] = task[w][r]
    <3>1. ~Crash(w)
      BY <1>0, <2>2 DEF Crash, NoCrash, BrokerTypeOK
    <3>2. status[w] # "crashed"
      BY <1>0, <1>4, <2>2, <3>1 DEF ProcessStep, Start, Register, RegisterFails, HeartbeatTick,
         Refresh, Expire, Shutdown, Exit, NoCrash, BrokerTypeOK
    <3>3. ASSUME NEW r \in Slots, task[w][r].pc = "ack"
          PROVE  task'[w][r] = task[w][r]
      <4>1. ~Exit(w)
        BY <3>3 DEF Exit, AckPending
      <4> QED BY <1>4, <3>1, <4>1 DEF ProcessStep, Start, HeartbeatTick, Expire, Shutdown, workVars
    <3>4. NoCrash
      BY <2>1, <2>2, <3>2 DEF NoCrash
    <3> QED BY <3>3, <3>4
  <2>3. \A k \in Jobs : /\ Queued(k)' = Queued(k)
                        /\ \A v \in Workers : /\ Listed(v, k)' = Listed(v, k)
                                              /\ sweep'[v].hand = k => sweep[v].hand = k
    BY <2>1 DEF Same, Idle
  <2>4. CASE NoCrash'
    <3>1. /\ NoCrash
          /\ \A v \in Workers, r \in Slots : task[v][r].pc = "ack" => task'[v][r] = task[v][r]
      BY <2>1, <2>2, <2>4
    <3> QED BY <1>1, <2>1, <2>3, <3>1
  <2> QED BY <2>4 DEF Standing
<1>5. ASSUME NEW w \in Workers, SweepEmpty(w) \/ SweepError(w), UNCHANGED reclaimVars
      PROVE  Standing'
  <2>1. /\ UNCHANGED <<status, task, dispatched, sweep, outcomes>>
        /\ Same \/ \E j \in Jobs : Queued(j) > 0 /\ Taken(w, j)
    BY <1>0, <1>5, PollEffect
  <2>2. ASSUME NEW k \in Jobs, Queued(k) = 0
        PROVE  Queued(k)' = 0 /\ \A v \in Workers : Listed(v, k)' = Listed(v, k)
    BY <1>0, <2>1, <2>2 DEF Same, Taken, One, Counted
  <2>3. CASE NoCrash
    BY <1>1, <2>1, <2>2, <2>3
  <2> QED BY <2>1, <2>3 DEF Standing, NoCrash
<1>6. ASSUME NEW w \in Workers, NEW s \in Slots, TaskStep(w, s), UNCHANGED reclaimVars
      PROVE  Standing'
  BY <1>6, StandingByTask
<1>7. ASSUME NEW w \in Workers, SweepStep(w), UNCHANGED workVars
      PROVE  Standing'
  BY <1>7, StandingBySweep
<1> QED BY <1>2, <1>3, <1>4, <1>5, <1>6, <1>7 DEF Next, WorkStep, ProcessStep

LEMMA InitStanding == Init => Guarded /\ Standing
<1> SUFFICES ASSUME Init PROVE Guarded /\ Standing
  OBVIOUS
<1>1. \A w \in Workers, s \in Slots : task[w][s].pc = "free"
  BY DEF Init, WorkInit, Free
<1>2. \A j \in Jobs : outcomes[j] = {}
  BY DEF Init, BrokerInit
<1> QED BY <1>1, <1>2 DEF Guarded, Standing, AckPending

\* The only goroutine of a running process that holds a job cannot publish
\* for it once it is completed, and no sweep has it in hand.
LEMMA StepStands ==
  ASSUME Fit, Standing, [Next]_vars
  PROVE  [\A j \in Jobs : "completed" \in outcomes[j] /\ "failed" \in outcomes'[j]
            => "failed" \in outcomes[j] \/ \E w \in Workers : status[w] = "crashed"]_vars
<1>0. TypeInv /\ Sorted /\ HandShape /\ Placed /\ Manned /\ OneCopy /\ "twice" \notin Faults
  BY DEF Fit, Placed
<1>1. CASE UNCHANGED vars
  BY <1>1
<1>2. ASSUME Next, NEW j \in Jobs, "completed" \in outcomes[j], outcomes'[j] # outcomes[j], NoCrash
      PROVE  FALSE
  <2>0. /\ \A w \in Workers : /\ sweep[w].hand # j
                              /\ Listed(w, j) > 0 =>
                                   \E s \in Slots : task[w][s].job = j /\ task[w][s].pc = "ack"
    BY <1>2 DEF Standing
  <2>1. ASSUME NEW w \in Workers, NEW s \in Slots, TaskStep(w, s) PROVE FALSE
    <3>1. TaskTurns(w, s)
      BY <1>0, <2>1, NoneStruck, TaskTurn
    <3>2. task[w][s].pc = "publish" /\ task[w][s].job = j
      BY <1>0, <1>2, <3>1 DEF TaskTurns, TypeInv, TypeOK, BrokerTypeOK
    <3>3. status[w] = "up"
      BY <1>2, <2>1, <3>2 DEF TaskStep, Checkout, Purge, Claim, ClaimDuplicate, ClaimResent,
         ClaimError, RemoveResent, CancelJob, RunReturns, MarkPublished, MarkOutage, Publish, PublishError, Ack, AckError,
         LosesReply, Works, apiVars
    <3>4. /\ Listed(w, j) = 1
          /\ \A v \in Workers, r \in Slots : status[v] = "up" /\ task[v][r].job = j => v = w /\ r = s
      BY <1>0, <3>2, <3>3, OneGoroutine
    <3>5. PICK r \in Slots : task[w][r].job = j /\ task[w][r].pc = "ack"
      BY <2>0, <3>4
    <3> QED BY <3>2, <3>3, <3>4, <3>5
  <2>2. ASSUME NEW w \in Workers, SweepStep(w), UNCHANGED workVars PROVE FALSE
    <3>1. GivesUp(w)
      BY <1>0, <1>2, <2>2, OneSweepEffect DEF Rests, Pops, Requeues, Quiet
    <3>2. sweep[w].hand = j
      BY <1>0, <1>2, <3>1 DEF GivesUp, TypeInv, TypeOK, BrokerTypeOK
    <3> QED BY <2>0, <3>2
  <2>3. ASSUME NEW w \in Workers, ProcessStep(w) PROVE FALSE
    BY <1>0, <1>2, <2>3, ProcessEffect
  <2>4. ASSUME NEW w \in Workers, SweepEmpty(w) \/ SweepError(w), UNCHANGED reclaimVars PROVE FALSE
    BY <1>0, <1>2, <2>4, PollEffect
  <2>5. ASSUME NEW k \in Jobs, Dispatch(k) PROVE FALSE
    BY <1>2, <2>5 DEF Dispatch
  <2> QED BY <1>2, <2>1, <2>2, <2>3, <2>4, <2>5 DEF Next, WorkStep, ProcessStep
<1> QED BY <1>1, <1>2 DEF NoCrash

\* Once a job's completed event is out, a failed event follows only if some
\* process has crashed, provided no call fails and no heartbeat key of a
\* running process lapses: finish's detached Ack removes the delivery while
\* the key of its process still lives, even when the process drains.
THEOREM CompletionsStand ==
  ASSUME "lapse" \notin Faults, "join" \notin Faults, "dup" \notin Faults, "twice" \notin Faults,
         "redis" \notin Faults, "reply" \notin Faults
  PROVE  Spec => CompletedStands
<1>1. Fit /\ Guarded /\ [Next]_vars => Guarded'
  BY NextGuarded
<1>2. Spec => []Guarded
  BY <1>1, InitStanding, AlwaysFit, PTL DEF Spec
<1>3. Fit /\ Fit' /\ Guarded /\ Standing /\ [Next]_vars => Standing'
  BY NextStanding DEF Fit
<1>4. Spec => []Standing
  BY <1>2, <1>3, InitStanding, AlwaysFit, PTL DEF Spec
<1>5. Fit /\ Standing /\ [Next]_vars =>
        [\A j \in Jobs : "completed" \in outcomes[j] /\ "failed" \in outcomes'[j]
           => "failed" \in outcomes[j] \/ \E w \in Workers : status[w] = "crashed"]_vars
  BY StepStands
<1> QED BY <1>4, <1>5, AlwaysFit, PTL DEF Spec, CompletedStands


-------------------------------------------------------------------------------

(***************************************************************************)
(* From steps of LifeOf to steps of JobLife.                               *)
(***************************************************************************)
Falls(j) ==
  \/ LifeOf(j)' = LifeOf(j)
  \/ LifeOf(j) \in {"running", "telling"} /\ LifeOf(j)' = "waiting"
  \/ LifeOf(j) = "waiting" /\ LifeOf(j)' = "lost"

LEMMA DropStep ==
  ASSUME runs' = runs, \A j \in WellFormed : Falls(j)
  PROVE  Life!LifeNext
<1> DEFINE back == {j \in WellFormed : LifeOf(j) \in {"running", "telling"} /\ LifeOf(j)' = "waiting"}
           gone == {j \in WellFormed : LifeOf(j) = "waiting" /\ LifeOf(j)' = "lost"}
<1>1. \A j \in WellFormed :
        /\ j \in back => LifeOf(j) \in {"running", "telling"} /\ LifeOf(j)' = "waiting"
        /\ j \in gone => LifeOf(j) = "waiting" /\ LifeOf(j)' = "lost"
        /\ j \notin back /\ j \notin gone => LifeOf(j)' = LifeOf(j)
  BY DEF Falls
<1>2. back \in SUBSET WellFormed /\ gone \in SUBSET WellFormed
  OBVIOUS
<1> HIDE DEF back, gone
<1>3. \A j \in WellFormed : LifeOf(j)' = CASE j \in back -> "waiting"
                                           [] j \in gone -> "lost"
                                           [] OTHER -> LifeOf(j)
  <2> SUFFICES ASSUME NEW j \in WellFormed
               PROVE  LifeOf(j)' = CASE j \in back -> "waiting" [] j \in gone -> "lost" [] OTHER -> LifeOf(j)
    OBVIOUS
  <2>1. j \in back => j \notin gone
    BY <1>1
  <2> QED BY <1>1, <2>1
<1>4. Life!Drop(back, gone)
  BY <1>1, <1>2, <1>3 DEF Life!Drop
<1> QED BY <1>2, <1>4 DEF Life!LifeNext

\* One job moves, the others stay where they are.
LEMMA MoveStep ==
  ASSUME NEW j \in WellFormed, \A k \in WellFormed : k # j => LifeOf(k)' = LifeOf(k),
         NEW from, NEW to, LifeOf(j) \in from, LifeOf(j)' = to
  PROVE  Life!Moves(j, from, to)
BY DEF Life!Moves

(***************************************************************************)
(* What LifeOf depends on.                                                 *)
(***************************************************************************)
Telling == {"mark", "publish"}
Active == {"run", "mark", "publish"}

LifeIs(d, o, r, t, h) ==
  CASE d = 0 -> "unknown"
    [] d > 0 /\ o # {} -> "told"
    [] OTHER -> IF r THEN "running" ELSE IF t THEN "telling" ELSE IF h THEN "waiting" ELSE "lost"

LEMMA LifeNow ==
  ASSUME NEW j
  PROVE  /\ LifeOf(j) = LifeIs(dispatched[j], outcomes[j], InGoroutine(j, {"run"}),
                               InGoroutine(j, Telling), Held(j))
         /\ LifeOf(j)' = LifeIs(dispatched'[j], outcomes'[j], InGoroutine(j, {"run"})',
                                InGoroutine(j, Telling)', Held(j)')
BY DEF LifeOf, LifeIs, Telling

LEMMA LifeCases ==
  ASSUME NEW d \in Nat, NEW o, NEW r \in BOOLEAN, NEW t \in BOOLEAN, NEW h \in BOOLEAN
  PROVE  /\ d = 0 => LifeIs(d, o, r, t, h) = "unknown"
         /\ d # 0 /\ o # {} => LifeIs(d, o, r, t, h) = "told"
         /\ d # 0 /\ o = {} /\ r => LifeIs(d, o, r, t, h) = "running"
         /\ d # 0 /\ o = {} /\ ~r /\ t => LifeIs(d, o, r, t, h) = "telling"
         /\ d # 0 /\ o = {} /\ ~r /\ ~t /\ h => LifeIs(d, o, r, t, h) = "waiting"
         /\ d # 0 /\ o = {} /\ ~r /\ ~t /\ ~h => LifeIs(d, o, r, t, h) = "lost"
BY DEF LifeIs

\* Held, in terms of the counts of the other proofs.
Copied(j) == \/ Queued(j) > 0
             \/ \E w \in Workers : Listed(w, j) > 0 \/ sweep[w].hand = j

LEMMA OnOwnList ==
  ASSUME NEW lists, \A p \in Priorities : lists[p] \in Seq(Of(p)), NEW j \in Jobs
  PROVE  (\E p \in Priorities : Positions(lists[p], j) # {}) <=> Copies(lists[PriorityOf[j]], j) > 0
<1>1. PriorityOf[j] \in Priorities
  OBVIOUS
<1>2. ASSUME NEW p \in Priorities, Positions(lists[p], j) # {}
      PROVE  p = PriorityOf[j]
  <2>1. PICK i \in 1..Len(lists[p]) : lists[p][i] = j
    BY <1>2 DEF Positions
  <2>2. lists[p][i] \in Of(p)
    BY <2>1
  <2> QED BY <2>1, <2>2 DEF Of
<1>3. /\ Copies(lists[PriorityOf[j]], j) \in Nat
      /\ Copies(lists[PriorityOf[j]], j) = 0 <=> Positions(lists[PriorityOf[j]], j) = {}
  BY <1>1, CopiesType
<1>4. Copies(lists[PriorityOf[j]], j) > 0 <=> Positions(lists[PriorityOf[j]], j) # {}
  BY <1>3
<1> QED BY <1>1, <1>2, <1>4, Zenon

LEMMA HeldNow ==
  ASSUME Sorted, NEW j \in Jobs
  PROVE  Held(j) <=> Copied(j)
<1>1. (\E p \in Priorities : Positions(queue[p], j) # {}) <=> Queued(j) > 0
  BY OnOwnList DEF Sorted, Queued
<1>2. ASSUME NEW w \in Workers
      PROVE  (\E p \in Priorities : Positions(processing[w][p], j) # {}) <=> Listed(w, j) > 0
  BY OnOwnList DEF Sorted, Listed
<1> QED BY <1>1, <1>2 DEF Held, Copied

LEMMA HeldNext ==
  ASSUME Sorted', NEW j \in Jobs
  PROVE  Held(j)' <=> Copied(j)'
<1>1. (\E p \in Priorities : Positions(queue'[p], j) # {}) <=> Queued(j)' > 0
  BY OnOwnList DEF Sorted, Queued
<1>2. ASSUME NEW w \in Workers
      PROVE  (\E p \in Priorities : Positions(processing'[w][p], j) # {}) <=> Listed(w, j)' > 0
  BY OnOwnList DEF Sorted, Listed
<1> QED BY <1>1, <1>2 DEF Held, Copied

LEMMA LifeKnown ==
  ASSUME Placed, NEW j \in WellFormed
  PROVE  /\ dispatched[j] = 0 => LifeOf(j) = "unknown"
         /\ dispatched[j] # 0 /\ outcomes[j] # {} => LifeOf(j) = "told"
         /\ dispatched[j] # 0 /\ outcomes[j] = {} =>
              /\ InGoroutine(j, {"run"}) => LifeOf(j) = "running"
              /\ ~InGoroutine(j, {"run"}) /\ InGoroutine(j, Telling) => LifeOf(j) = "telling"
              /\ ~InGoroutine(j, {"run"}) /\ ~InGoroutine(j, Telling) =>
                   LifeOf(j) = IF Copied(j) THEN "waiting" ELSE "lost"
<1>1. j \in Jobs /\ dispatched[j] \in Nat
  BY DEF WellFormed, Placed, TypeInv, TypeOK, BrokerTypeOK
<1>2. /\ InGoroutine(j, {"run"}) \in BOOLEAN /\ InGoroutine(j, Telling) \in BOOLEAN /\ Held(j) \in BOOLEAN
      /\ Held(j) <=> Copied(j)
  BY <1>1, HeldNow DEF InGoroutine, Held, Placed
<1> DEFINE d == dispatched[j]
           o == outcomes[j]
           r == InGoroutine(j, {"run"})
           t == InGoroutine(j, Telling)
           h == Held(j)
<1>3. LifeOf(j) = LifeIs(d, o, r, t, h)
  BY LifeNow
<1>4. d \in Nat /\ r \in BOOLEAN /\ t \in BOOLEAN /\ h \in BOOLEAN /\ (h <=> Copied(j))
  BY <1>1, <1>2
<1> HIDE DEF d, o, r, t, h
<1>5. /\ d = 0 => LifeOf(j) = "unknown"
      /\ d # 0 /\ o # {} => LifeOf(j) = "told"
      /\ d # 0 /\ o = {} /\ r => LifeOf(j) = "running"
      /\ d # 0 /\ o = {} /\ ~r /\ t => LifeOf(j) = "telling"
      /\ d # 0 /\ o = {} /\ ~r /\ ~t => LifeOf(j) = IF h THEN "waiting" ELSE "lost"
  BY <1>3, <1>4, LifeCases
<1> QED BY <1>4, <1>5 DEF d, o, r, t, h

LEMMA LifeKnownNext ==
  ASSUME Placed', NEW j \in WellFormed
  PROVE  /\ dispatched'[j] = 0 => LifeOf(j)' = "unknown"
         /\ dispatched'[j] # 0 /\ outcomes'[j] # {} => LifeOf(j)' = "told"
         /\ dispatched'[j] # 0 /\ outcomes'[j] = {} =>
              /\ InGoroutine(j, {"run"})' => LifeOf(j)' = "running"
              /\ ~InGoroutine(j, {"run"})' /\ InGoroutine(j, Telling)' => LifeOf(j)' = "telling"
              /\ ~InGoroutine(j, {"run"})' /\ ~InGoroutine(j, Telling)' =>
                   LifeOf(j)' = IF Copied(j)' THEN "waiting" ELSE "lost"
<1>1. j \in Jobs /\ dispatched'[j] \in Nat
  BY DEF WellFormed, Placed, TypeInv, TypeOK, BrokerTypeOK
<1>2. /\ InGoroutine(j, {"run"})' \in BOOLEAN /\ InGoroutine(j, Telling)' \in BOOLEAN
      /\ Held(j)' \in BOOLEAN
      /\ Held(j)' <=> Copied(j)'
  BY <1>1, HeldNext DEF InGoroutine, Held, Placed
<1> DEFINE d == dispatched'[j]
           o == outcomes'[j]
           r == InGoroutine(j, {"run"})'
           t == InGoroutine(j, Telling)'
           h == Held(j)'
<1>3. LifeOf(j)' = LifeIs(d, o, r, t, h)
  BY LifeNow
<1>4. d \in Nat /\ r \in BOOLEAN /\ t \in BOOLEAN /\ h \in BOOLEAN /\ (h <=> Copied(j)')
  BY <1>1, <1>2
<1> HIDE DEF d, o, r, t, h
<1>5. /\ d = 0 => LifeOf(j)' = "unknown"
      /\ d # 0 /\ o # {} => LifeOf(j)' = "told"
      /\ d # 0 /\ o = {} /\ r => LifeOf(j)' = "running"
      /\ d # 0 /\ o = {} /\ ~r /\ t => LifeOf(j)' = "telling"
      /\ d # 0 /\ o = {} /\ ~r /\ ~t => LifeOf(j)' = IF h THEN "waiting" ELSE "lost"
  BY <1>3, <1>4, LifeCases
<1> QED BY <1>4, <1>5 DEF d, o, r, t, h

\* A job no part of which changes stays where it is.
LEMMA LifeStays ==
  ASSUME Placed, Placed', NEW j \in WellFormed,
         dispatched'[j] = dispatched[j], outcomes'[j] = outcomes[j],
         InGoroutine(j, {"run"})' <=> InGoroutine(j, {"run"}),
         InGoroutine(j, Telling)' <=> InGoroutine(j, Telling),
         Copied(j)' <=> Copied(j)
  PROVE  LifeOf(j)' = LifeOf(j)
<1>1. dispatched[j] = 0 => LifeOf(j)' = "unknown" /\ LifeOf(j) = "unknown"
  BY LifeKnown, LifeKnownNext
<1>2. dispatched[j] # 0 /\ outcomes[j] # {} => LifeOf(j)' = "told" /\ LifeOf(j) = "told"
  BY LifeKnown, LifeKnownNext
<1>3. ASSUME dispatched[j] # 0, outcomes[j] = {}
      PROVE  LifeOf(j)' = LifeOf(j)
  BY <1>3, LifeKnown, LifeKnownNext
<1> QED BY <1>1, <1>2, <1>3

LEMMA GoroutineStays ==
  ASSUME NEW w \in Workers, NEW s \in Slots, Others(w, s), NEW j, NEW pcs,
         task'[w][s].job = j /\ task'[w][s].pc \in pcs <=> task[w][s].job = j /\ task[w][s].pc \in pcs
  PROVE  InGoroutine(j, pcs)' <=> InGoroutine(j, pcs)
BY DEF InGoroutine, Others

-------------------------------------------------------------------------------
(***************************************************************************)
(* What is answered is not on its way to a run, without a drain that could *)
(* leave goroutines behind.                                                *)
(***************************************************************************)
Answered ==
  /\ \A j \in Jobs : dispatched[j] = 0 \/ Queued(j) = 1 => outcomes[j] = {}
  /\ \A w \in Workers : /\ status[w] # "draining"
                        /\ status[w] # "up" => \A s \in Slots : task[w][s] = Free
  /\ \A w \in Workers, s \in Slots :
       task[w][s].pc \in {"claim"} \cup Active =>
         outcomes[task[w][s].job] = {} /\ task[w][s].job \notin Malformed
  /\ \A w \in Workers, j \in Jobs :
       outcomes[j] # {} /\ (Listed(w, j) > 0 \/ sweep[w].hand = j) => j \in marker

\* The goroutine at work on a job, with Answered.
LEMMA AtWork ==
  ASSUME Fit, Answered, NEW w \in Workers, NEW s \in Slots, task[w][s].pc # "free"
  PROVE  /\ status[w] = "up" /\ task[w][s].job \in Jobs
         /\ Queued(task[w][s].job) = 0 /\ dispatched[task[w][s].job] # 0
         /\ Listed(w, task[w][s].job) = 1
         /\ \A v \in Workers : sweep[v].hand # task[w][s].job
         /\ \A v \in Workers, r \in Slots : task[v][r].job = task[w][s].job => v = w /\ r = s
<1>1. status[w] = "up"
  BY DEF Answered, Free
<1>2. task[w][s].job \in Jobs
  BY DEF Fit, Placed, TypeInv, TaskShape
<1>3. \A v \in Workers, r \in Slots : task[v][r].job \in Jobs => status[v] = "up"
  BY DEF Answered, Free
<1> QED BY <1>1, <1>2, <1>3, OneGoroutine DEF Fit

LEMMA AnsweredByTask ==
  ASSUME Fit, Placed', Told, Answered, "marker" \notin Faults, NEW w \in Workers, NEW s \in Slots,
         TaskStep(w, s), UNCHANGED reclaimVars
  PROVE  Answered'
<1> DEFINE t == task[w][s]
           u == task'[w][s]
<1>0. TypeInv /\ Sorted /\ Placed /\ OneCopy /\ Counted /\ Counted' /\ t.pc \in TaskPCs
  BY CountedNow, CountedNext DEF Fit, Placed, TypeInv, TypeOK, WorkTypeOK, Task
<1>1. /\ UNCHANGED <<status, sweep, dispatched>> /\ Others(w, s)
      /\ \/ \E j \in Jobs : TakesJob(w, s, j)
         \/ DropsJob(w, s)
         \/ KeepsJob(w, s)
         \/ LeavesJob(w, s)
  BY <1>0, OneTaskEffect
<1>2. TaskTurns(w, s) /\ marker \subseteq marker'
  BY <1>0, NoneStruck, TaskTurn, TaskMarks DEF TaskTells
<1>3. ASSUME NEW k \in Jobs, outcomes'[k] # outcomes[k]
      PROVE  t.pc = "publish" /\ t.job = k /\ u.pc \in {"ack", "free"} /\ k \in marker
  <2>1. t.pc = "publish" /\ t.job = k /\ u.pc \in {"ack", "free"}
    BY <1>0, <1>2, <1>3 DEF TaskTurns, TypeInv, TypeOK, BrokerTypeOK
  <2> QED BY <2>1 DEF Told
<1>4. ASSUME NEW k \in Jobs, Queued(k)' = 1
      PROVE  Queued(k) = 1
  <2>1. ASSUME NEW j \in Jobs, TakesJob(w, s, j)
        PROVE  Queued(k) = 1
    BY <1>0, <1>4, <2>1 DEF TakesJob, Taken, One, Counted, OneCopy
  <2>2. CASE DropsJob(w, s)
    BY <1>4, <2>2 DEF DropsJob, Removed
  <2> QED BY <1>1, <1>4, <2>1, <2>2 DEF KeepsJob, LeavesJob, Same
<1>5. ASSUME NEW k \in Jobs, dispatched[k] = 0 \/ Queued(k)' = 1
      PROVE  outcomes'[k] = {}
  <2>1. outcomes[k] = {} /\ (dispatched[k] = 0 \/ Queued(k) = 1)
    BY <1>4, <1>5 DEF Answered
  <2>2. outcomes'[k] = outcomes[k]
    BY <1>3, <2>1, AtWork
  <2> QED BY <2>1, <2>2
<1>6. status[w] = "up"
  BY <1>1, AtWork DEF TakesJob, DropsJob, KeepsJob, LeavesJob, Works
<1>7. ASSUME NEW v \in Workers, NEW r \in Slots, task'[v][r].pc \in {"claim"} \cup Active
      PROVE  outcomes'[task'[v][r].job] = {} /\ task'[v][r].job \notin Malformed
  <2>1. CASE v # w \/ r # s
    <3>1. task'[v][r] = task[v][r]
      BY <1>1, <2>1 DEF Others
    <3>2. outcomes[task[v][r].job] = {} /\ task[v][r].job \notin Malformed /\ task[v][r].pc # "free"
      BY <1>7, <3>1 DEF Answered, Active
    <3>3. task[v][r].job \in Jobs /\ (t.job = task[v][r].job => w = v /\ s = r)
      BY <3>2, AtWork
    <3>4. outcomes'[task[v][r].job] = outcomes[task[v][r].job]
      BY <1>3, <2>1, <3>3
    <3> QED BY <3>1, <3>2, <3>4
  <2>2. CASE v = w /\ r = s
    <3>1. outcomes' = outcomes
      BY <1>2, <1>7, <2>2 DEF TaskTurns, Active
    <3>2. ASSUME NEW j \in Jobs, TakesJob(w, s, j)
          PROVE  outcomes[j] = {} /\ j \notin Malformed /\ u.job = j
      <4>1. Queued(j) = 1 /\ u.job = j /\ j \notin Malformed
        BY <1>0, <1>7, <2>2, <3>2 DEF TakesJob, OneCopy, Counted, Active
      <4> QED BY <4>1 DEF Answered
    <3>3. CASE KeepsJob(w, s)
      <4>1. t.pc \in {"claim"} \cup Active /\ u.job = t.job
        BY <1>0, <3>3 DEF KeepsJob, TaskPCs, Active
      <4>2. outcomes[t.job] = {} /\ t.job \notin Malformed
        BY <4>1 DEF Answered
      <4> QED BY <2>2, <3>1, <4>1, <4>2
    <3>4. CASE DropsJob(w, s) \/ LeavesJob(w, s)
      BY <1>7, <2>2, <3>4 DEF DropsJob, LeavesJob, Free, Active
    <3> QED BY <1>1, <2>2, <3>1, <3>2, <3>3, <3>4
  <2> QED BY <2>1, <2>2
<1>8. ASSUME NEW v \in Workers, NEW k \in Jobs, outcomes'[k] # {}, Listed(v, k)' > 0 \/ sweep[v].hand = k
      PROVE  k \in marker'
  <2>1. CASE outcomes'[k] # outcomes[k]
    BY <1>2, <1>3, <2>1
  <2>2. CASE outcomes'[k] = outcomes[k] /\ Listed(v, k)' > Listed(v, k)
    <3>1. ASSUME NEW j \in Jobs, TakesJob(w, s, j) PROVE Queued(k) = 1
      BY <1>0, <2>2, <3>1 DEF TakesJob, Taken, One, Counted, OneCopy
    <3>2. ~DropsJob(w, s)
      BY <1>0, <2>2 DEF DropsJob, Removed, One, Counted
    <3>3. Queued(k) = 1
      BY <1>0, <1>1, <2>2, <3>1, <3>2 DEF KeepsJob, LeavesJob, Same, Counted
    <3> QED BY <1>8, <2>2, <3>3 DEF Answered
  <2>3. CASE outcomes'[k] = outcomes[k] /\ ~(Listed(v, k)' > Listed(v, k))
    <3>1. Listed(v, k) > 0 \/ sweep[v].hand = k
      BY <1>0, <1>8, <2>3 DEF Counted
    <3> QED BY <1>2, <1>8, <2>3, <3>1 DEF Answered
  <2> QED BY <2>1, <2>2, <2>3
<1>9. ASSUME NEW v \in Workers
      PROVE  /\ status[v] # "draining"
             /\ status[v] # "up" => \A r \in Slots : task'[v][r] = Free
  BY <1>1, <1>6 DEF Answered, Others
<1> QED BY <1>1, <1>5, <1>7, <1>8, <1>9 DEF Answered

LEMMA AnsweredBySweep ==
  ASSUME Fit, Placed', Told, Answered, NEW w \in Workers, SweepStep(w), UNCHANGED workVars
  PROVE  Answered'
<1>0. TypeInv /\ Sorted /\ HandShape /\ OneCopy /\ Counted /\ Counted' /\ "twice" \notin Faults
  BY CountedNow, CountedNext DEF Fit, Placed
<1>1. /\ UNCHANGED <<status, task, dispatched>> /\ OtherSweeps(w)
      /\ Rests(w) \/ (\E j \in Jobs : Pops(w, j)) \/ GivesUp(w) \/ Requeues(w)
  BY <1>0, OneSweepEffect
<1>2. marker' = marker /\ outcomes \in [Jobs -> SUBSET Verdicts]
  BY <1>0, SweepKeys DEF TypeInv, TypeOK, BrokerTypeOK
<1>3. ASSUME NEW k \in Jobs, outcomes'[k] # outcomes[k]
      PROVE  GivesUp(w) /\ sweep[w].hand = k
  <2>1. GivesUp(w)
    BY <1>1, <1>3 DEF Rests, Pops, Requeues, Quiet
  <2> QED BY <1>2, <1>3, <2>1 DEF GivesUp
<1>4. ASSUME NEW k \in Jobs, Queued(k)' # Queued(k)
      PROVE  Requeues(w) /\ sweep[w].hand = k
  <2>1. Requeues(w)
    BY <1>1, <1>4 DEF Rests, GivesUp, Same, Pops, PopsOff, Removed
  <2> QED BY <1>0, <1>4, <2>1 DEF Requeues, Pushed, One, Counted
<1>5. ASSUME NEW k \in Jobs, dispatched[k] = 0 \/ Queued(k)' = 1
      PROVE  outcomes'[k] = {}
  <2>1. CASE Queued(k)' # Queued(k)
    <3>1. Requeues(w) /\ sweep[w].hand = k /\ sweep[w].pc = "push"
      BY <1>4, <2>1 DEF Requeues
    <3>2. k \notin marker
      BY <3>1 DEF Told
    <3>3. outcomes[k] = {}
      BY <3>1, <3>2 DEF Answered
    <3> QED BY <3>1, <3>3 DEF Requeues, Quiet
  <2>2. CASE Queued(k)' = Queued(k)
    <3>1. outcomes[k] = {} /\ sweep[w].hand # k
      BY <1>0, <1>5, <2>2 DEF Answered, OneCopy
    <3> QED BY <1>3, <3>1
  <2> QED BY <2>1, <2>2
<1>6. ASSUME NEW v \in Workers, NEW r \in Slots, task[v][r].pc \in {"claim"} \cup Active
      PROVE  outcomes'[task[v][r].job] = {} /\ task[v][r].job \notin Malformed
  <2>1. outcomes[task[v][r].job] = {} /\ task[v][r].job \notin Malformed /\ task[v][r].pc # "free"
    BY <1>6 DEF Answered, Active
  <2>2. task[v][r].job \in Jobs /\ sweep[w].hand # task[v][r].job
    BY <2>1, AtWork
  <2> QED BY <1>3, <2>1, <2>2
<1>7. ASSUME NEW v \in Workers, NEW k \in Jobs, outcomes'[k] # {},
             Listed(v, k)' > 0 \/ sweep'[v].hand = k
      PROVE  k \in marker
  <2>1. \A x \in Workers : Listed(x, k)' <= Listed(x, k)
    BY <1>0, <1>1 DEF Rests, GivesUp, Requeues, Pushed, Same, Pops, PopsOff, Removed, One, Counted
  <2>2. ASSUME outcomes'[k] # outcomes[k] PROVE FALSE
    <3>1. sweep[w].hand = k /\ LetsGo(w)
      BY <1>3, <2>2 DEF GivesUp
    <3>2. \A x \in Workers : Listed(x, k) = 0 /\ (x # w => sweep[x].hand # k)
      <4>1. ASSUME NEW x \in Workers PROVE Listed(x, k) # 1 /\ Listed(x, k) <= 1 /\ Listed(x, k) \in Nat
        BY <1>0, <3>1 DEF OneCopy, Counted
      <4> QED BY <1>0, <3>1, <4>1 DEF OneCopy
    <3>3. sweep'[v].hand # k
      BY <1>1, <3>1, <3>2 DEF OtherSweeps, LetsGo
    <3> QED BY <1>0, <1>7, <2>1, <3>2, <3>3 DEF Counted
  <2>3. outcomes[k] # {}
    BY <1>7, <2>2
  <2>4. \E x \in Workers : Listed(x, k) > 0 \/ sweep[x].hand = k
    <3>1. CASE Listed(v, k)' > 0
      BY <1>0, <2>1, <3>1 DEF Counted
    <3>2. CASE sweep'[v].hand = k /\ v # w
      BY <1>1, <3>2 DEF OtherSweeps
    <3>3. CASE sweep'[w].hand = k
      <4>1. ASSUME NEW j \in Jobs, Pops(w, j)
            PROVE  sweep'[w].hand = sweep[w].hand \/ sweep'[w].hand = NoJob
                   \/ \E x \in Workers : Listed(x, j) > 0 /\ sweep'[w].hand = j
        BY <4>1 DEF Pops, PopsOff, PicksUp, Ends, Advances, Idle
      <4>2. \/ sweep'[w].hand = sweep[w].hand \/ sweep'[w].hand = NoJob
            \/ \E x \in Workers : Listed(x, k) > 0
        BY <1>1, <3>3, <4>1 DEF Rests, GivesUp, Requeues, Ends, Advances, Looks, Opens, Grips,
           LetsGo, Idle
      <4> QED BY <3>3, <4>2
    <3> QED BY <1>7, <3>1, <3>2, <3>3
  <2> QED BY <2>3, <2>4 DEF Answered
<1> QED BY <1>1, <1>2, <1>5, <1>6, <1>7 DEF Answered

LEMMA NextAnswered ==
  ASSUME Fit, Placed', Told, Answered, [Next]_vars, "marker" \notin Faults, "dup" \notin Faults,
         "lapse" \notin Faults, "join" \notin Faults, "shutdown" \notin Faults
  PROVE  Answered'
<1>0. TypeInv /\ Sorted /\ HandShape /\ OneCopy /\ Counted /\ BrokerTypeOK /\ WorkTypeOK
  BY CountedNow DEF Fit, Placed, TypeInv, TypeOK
<1>1. CASE UNCHANGED vars
  BY <1>1 DEF vars, Answered, Queued, Listed
<1>2. ASSUME NEW j \in Jobs, Dispatch(j), UNCHANGED <<workVars, reclaimVars>>
      PROVE  Answered'
  <2>1. Pushed(j) /\ UNCHANGED <<status, task, sweep, marker, outcomes>>
    BY <1>0, <1>2, DispatchLists DEF Dispatch, fleetVars, keyVars, workVars, reclaimVars
  <2>2. dispatched[j] = 0 /\ \A k \in Jobs : k # j => dispatched'[k] = dispatched[k]
    BY <1>0, <1>2 DEF Dispatch, BrokerTypeOK
  <2>3. \A k \in Jobs : /\ k # j => Queued(k)' = Queued(k)
                        /\ \A v \in Workers : Listed(v, k)' = Listed(v, k)
    BY <1>0, <2>1 DEF Pushed, One, Counted
  <2>4. \A k \in Jobs : dispatched'[k] = 0 \/ Queued(k)' = 1 => outcomes[k] = {}
    BY <2>2, <2>3 DEF Answered
  <2> QED BY <2>1, <2>3, <2>4 DEF Answered
<1>3. ASSUME NEW w \in Workers, ProcessStep(w)
      PROVE  Answered'
  <2>1. /\ Same /\ UNCHANGED <<dispatched, outcomes, marker>>
        /\ \A v \in Workers : v # w => status'[v] = status[v] /\ task'[v] = task[v]
        /\ \A v \in Workers : sweep'[v] = sweep[v] \/ sweep'[v] = Idle
        /\ task'[w] = task[w] \/ task'[w] = [r \in Slots |-> Free]
    BY <1>0, <1>3, ProcessEffect DEF keyVars
  <2>2. /\ status'[w] # "draining"
        /\ status'[w] # "up" => status[w] # "up" \/ task'[w] = [r \in Slots |-> Free]
    <3>1. status[w] # "draining" /\ status \in [Workers -> Statuses] /\ ~Shutdown(w) /\ ~Exit(w)
      BY <1>0 DEF Answered, BrokerTypeOK, Shutdown, Exit
    <3>2. CASE Start(w)
      BY <3>1, <3>2 DEF Start, Register, RegisterFails
    <3>3. CASE HeartbeatTick(w) \/ Expire(w)
      BY <3>1, <3>3 DEF HeartbeatTick, Refresh, Expire
    <3>4. CASE Crash(w)
      BY <1>0, <3>1, <3>4 DEF Crash, WorkTypeOK
    <3> QED BY <1>3, <3>1, <3>2, <3>3, <3>4 DEF ProcessStep
  <2>3. \A v \in Workers : /\ status'[v] # "draining"
                           /\ status'[v] # "up" => \A s \in Slots : task'[v][s] = Free
    BY <2>1, <2>2 DEF Answered
  <2>4. \A v \in Workers, s \in Slots : task'[v][s] = task[v][s] \/ task'[v][s].pc = "free"
    BY <2>1 DEF Free
  <2>5. \A v \in Workers, s \in Slots : task'[v][s].pc \in {"claim"} \cup Active =>
          outcomes[task'[v][s].job] = {} /\ task'[v][s].job \notin Malformed
    BY <2>4 DEF Answered, Active
  <2>6. \A v \in Workers, k \in Jobs : sweep'[v].hand = k => sweep[v].hand = k
    BY <2>1 DEF Idle
  <2>7. \A k \in Jobs : Queued(k)' = Queued(k) /\ \A v \in Workers : Listed(v, k)' = Listed(v, k)
    BY <2>1 DEF Same
  <2>8. \A v \in Workers, k \in Jobs :
          outcomes[k] # {} /\ (Listed(v, k)' > 0 \/ sweep'[v].hand = k) => k \in marker
    BY <2>6, <2>7 DEF Answered
  <2>9. \A k \in Jobs : dispatched[k] = 0 \/ Queued(k)' = 1 => outcomes[k] = {}
    BY <2>7 DEF Answered
  <2> QED BY <2>1, <2>3, <2>5, <2>8, <2>9 DEF Answered
<1>4. ASSUME NEW w \in Workers, SweepEmpty(w) \/ SweepError(w), UNCHANGED reclaimVars
      PROVE  Answered'
  <2>1. /\ UNCHANGED <<status, task, dispatched, sweep, marker, outcomes>>
        /\ Same \/ \E j \in Jobs : Queued(j) > 0 /\ Taken(w, j)
    BY <1>0, <1>4, PollEffect DEF keyVars
  <2>2. ASSUME NEW j \in Jobs, Taken(w, j), Queued(j) > 0, NEW k \in Jobs
        PROVE  /\ Queued(k)' = 1 => Queued(k) = 1
               /\ \A v \in Workers : Listed(v, k)' > 0 => Listed(v, k) > 0 \/ Queued(k) = 1
    BY <1>0, <2>2 DEF Taken, One, Counted, OneCopy
  <2>3. \A k \in Jobs : /\ Queued(k)' = 1 => Queued(k) = 1
                        /\ \A v \in Workers : Listed(v, k)' > 0 => Listed(v, k) > 0 \/ Queued(k) = 1
    BY <2>1, <2>2 DEF Same
  <2> QED BY <2>1, <2>3 DEF Answered
<1>5. ASSUME NEW w \in Workers, NEW s \in Slots, TaskStep(w, s), UNCHANGED reclaimVars
      PROVE  Answered'
  BY <1>5, AnsweredByTask
<1>6. ASSUME NEW w \in Workers, SweepStep(w), UNCHANGED workVars
      PROVE  Answered'
  BY <1>6, AnsweredBySweep
<1> QED BY <1>1, <1>2, <1>3, <1>4, <1>5, <1>6 DEF Next, WorkStep, ProcessStep

LEMMA InitAnswered == Init => Answered
<1> SUFFICES ASSUME Init PROVE Answered
  OBVIOUS
<1>1. \A w \in Workers : status[w] = "new" /\ \A s \in Slots : task[w][s] = Free
  BY DEF Init, BrokerInit, WorkInit
<1>2. \A j \in Jobs : outcomes[j] = {}
  BY DEF Init, BrokerInit
<1>3. \A w \in Workers, s \in Slots : task[w][s].pc = "free"
  BY <1>1 DEF Free
<1> QED BY <1>1, <1>2, <1>3 DEF Answered, Active

-------------------------------------------------------------------------------
(***************************************************************************)
(* The steps of a goroutine.                                               *)
(***************************************************************************)

\* Nobody else works on the job of a goroutine, before the step and after it.
LEMMA OwnJob ==
  ASSUME Fit, Answered, NEW w \in Workers, NEW s \in Slots, NEW j, NEW pcs,
         task[w][s].job = j, task[w][s].pc # "free", Others(w, s)
  PROVE  /\ InGoroutine(j, pcs) <=> task[w][s].pc \in pcs
         /\ InGoroutine(j, pcs)' <=> task'[w][s].job = j /\ task'[w][s].pc \in pcs
<1>1. \A v \in Workers, r \in Slots : task[v][r].job = j => v = w /\ r = s
  BY AtWork
<1> QED BY <1>1 DEF InGoroutine, Others

LEMMA OthersStay ==
  ASSUME Fit, Placed', Answered, NEW w \in Workers, NEW s \in Slots, TaskStep(w, s),
         UNCHANGED reclaimVars, NEW k \in WellFormed,
         outcomes'[k] = outcomes[k],
         task[w][s].job # k \/ (/\ task[w][s].pc \notin Active /\ task'[w][s].pc \notin Active
                                /\ ~DropsJob(w, s))
  PROVE  LifeOf(k)' = LifeOf(k)
<1> DEFINE t == task[w][s]
           u == task'[w][s]
<1>0. TypeInv /\ Sorted /\ Placed /\ OneCopy /\ Counted /\ Counted' /\ k \in Jobs
  BY CountedNow, CountedNext DEF Fit, Placed, WellFormed
<1>1. /\ UNCHANGED <<sweep, dispatched>> /\ Others(w, s)
      /\ \/ \E j \in Jobs : TakesJob(w, s, j)
         \/ DropsJob(w, s)
         \/ KeepsJob(w, s)
         \/ LeavesJob(w, s)
  BY <1>0, OneTaskEffect
<1>2. /\ ~(u.job = k /\ u.pc \in Active)
      /\ ~(t.job = k /\ t.pc \in Active)
  <2>1. CASE u.pc \notin Active /\ t.pc \notin Active
    BY <2>1
  <2>2. CASE t.job # k
    <3>1. ASSUME NEW j \in Jobs, TakesJob(w, s, j) PROVE u.pc \notin Active
      BY <3>1 DEF TakesJob, Active
    <3>2. CASE KeepsJob(w, s)
      BY <2>2, <3>2 DEF KeepsJob
    <3>3. ASSUME DropsJob(w, s) \/ LeavesJob(w, s) PROVE u.pc \notin Active
      BY <3>3 DEF DropsJob, LeavesJob, Free, Active
    <3> QED BY <1>1, <2>2, <3>1, <3>2, <3>3
  <2> QED BY <2>1, <2>2
<1>3. /\ InGoroutine(k, {"run"})' <=> InGoroutine(k, {"run"})
      /\ InGoroutine(k, Telling)' <=> InGoroutine(k, Telling)
  BY <1>1, <1>2, GoroutineStays DEF Active, Telling
<1>4. Copied(k)' <=> Copied(k)
  <2>1. ASSUME NEW j \in Jobs, Queued(j) > 0, Taken(w, j)
        PROVE  Copied(k)' <=> Copied(k)
    <3>1. CASE j = k
      <4>1. Listed(w, k)' > 0
        BY <1>0, <2>1, <3>1 DEF Taken, One, Counted
      <4> QED BY <2>1, <3>1, <4>1 DEF Copied
    <3>2. CASE j # k
      <4>1. Queued(k)' = Queued(k) /\ \A v \in Workers : Listed(v, k)' = Listed(v, k)
        BY <1>0, <2>1, <3>2 DEF Taken, One, Counted
      <4> QED BY <1>1, <4>1 DEF Copied
    <3> QED BY <3>1, <3>2
  <2>2. CASE DropsJob(w, s)
    <3>1. t.job # k /\ Removed(w, t.job)
      BY <2>2 DEF DropsJob
    <3>2. Queued(k)' = Queued(k) /\ \A v \in Workers : Listed(v, k)' = Listed(v, k)
      BY <1>0, <3>1 DEF Removed, One, Counted
    <3> QED BY <1>1, <3>2 DEF Copied
  <2>3. CASE Same
    BY <1>0, <1>1, <2>3 DEF Same, Copied
  <2> QED BY <1>1, <2>1, <2>2, <2>3 DEF TakesJob, KeepsJob, LeavesJob
<1> QED BY <1>0, <1>1, <1>3, <1>4, LifeStays

\* Where a job exists once nobody claims it between two sendings of a DEL, so
\* only the first of them frees the claim.
Once == \A j \in Jobs : \A d \in released[j] : d[2] = 0

LEMMA NextOnce ==
  ASSUME TypeInv, Claims, Once, [Next]_vars
  PROVE  Once'
<1>1. CASE released' = released
  BY <1>1 DEF Once
<1>2. ASSUME NEW w \in Workers, sweep[w].pc = "release", DropClaim(w)
      PROVE  Once'
  <2> DEFINE h == sweep[w].hand
             d == <<sweep[w].attempts, sweep[w].sent>>
  <2>1. sweep[w].sent \in Nat /\ released \in [Jobs -> SUBSET (Nat \X (0..ResendLimit))]
    BY DEF TypeInv, TypeOK, ReclaimTypeOK, Sweep
  <2>2. CASE h \in claim
    <3>1. sweep[w].sent = 0
      BY <1>2, <2>1, <2>2 DEF Claims
    <3>2. released' = [released EXCEPT ![h] = @ \cup {d}] /\ d[2] = 0
      BY <1>2, <2>2, <3>1 DEF DropClaim
    <3> HIDE DEF d
    <3> QED BY <2>1, <3>2 DEF Once
  <2>3. CASE h \notin claim
    BY <1>1, <1>2, <2>3 DEF DropClaim
  <2> QED BY <2>2, <2>3
<1>3. ASSUME NEW w \in Workers, SweepStep(w)
      PROVE  Once'
  BY <1>1, <1>2, <1>3 DEF SweepStep, ReadLive, ScanKeys, ScanError, ListDrained, PopOrphan,
     PopOrphanError, PopOrphanLost, BumpReclaimCount, BumpError, HasPublished, HasPublishedError,
     Release, ReleaseResent, ReleaseError, Requeue, RequeueResent, RequeueError, Fail, FailError
<1>4. ASSUME NEW w \in Workers, ProcessStep(w)
      PROVE  Once'
  BY <1>1, <1>4 DEF ProcessStep, Start, HeartbeatTick, Expire, Shutdown, Exit, Crash, reclaimVars
<1> QED BY <1>1, <1>3, <1>4 DEF Next, WorkStep, ProcessStep, vars, reclaimVars

\* A job with a free claim has a start left.
LEMMA StartsLeft ==
  ASSUME TypeInv, RunParts, Once, NEW j \in Jobs, j \notin claim
  PROVE  runs[j] <= MaxReclaims
<1>1. Cardinality(released[j]) \in Nat /\ Cardinality(released[j]) <= MaxReclaims * (1 + 0)
  BY ReleasedFinite DEF RunParts, Once
<1>2. runs[j] <= Cardinality(released[j]) + 0
  BY DEF RunParts, Ledger
<1>3. runs[j] \in Nat
  BY DEF TypeInv, TypeOK, WorkTypeOK
<1> QED BY <1>1, <1>2, <1>3

LEMMA TaskLives ==
  ASSUME Fit, Placed', Whole, Told, Answered, RunParts, Once, NEW w \in Workers, NEW s \in Slots,
         TaskStep(w, s), UNCHANGED reclaimVars
  PROVE  Life!LifeNext
<1> DEFINE t == task[w][s]
           u == task'[w][s]
<1>0. TypeInv /\ Sorted /\ Placed /\ OneCopy /\ Counted /\ t.pc \in TaskPCs /\ Claims /\ Over
  BY CountedNow DEF Fit, Whole, Placed, TypeInv, TypeOK, WorkTypeOK, Task
<1>1. /\ UNCHANGED <<sweep, dispatched>> /\ Others(w, s)
      /\ \/ \E k \in Jobs : TakesJob(w, s, k)
         \/ DropsJob(w, s)
         \/ KeepsJob(w, s)
         \/ LeavesJob(w, s)
  BY <1>0, OneTaskEffect
<1>2. TaskTurns(w, s)
  BY <1>0, NoneStruck, TaskTurn
<1>3. outcomes \in [Jobs -> SUBSET Verdicts] /\ runs \in [Jobs -> Nat]
  BY <1>0 DEF TypeInv, TypeOK, BrokerTypeOK, WorkTypeOK
<1>4. ASSUME NEW k \in WellFormed, k # t.job
      PROVE  LifeOf(k)' = LifeOf(k)
  <2>1. outcomes'[k] = outcomes[k]
    BY <1>2, <1>3, <1>4 DEF TaskTurns, WellFormed
  <2> QED BY <1>4, <2>1, OthersStay
<1>5. CASE t.pc \notin {"claim"} \cup Active
  <2>1. u.pc \notin Active /\ outcomes' = outcomes /\ runs' = runs
    BY <1>2, <1>5 DEF TaskTurns, Active
  <2>2. ASSUME NEW k \in WellFormed, k = t.job
        PROVE  Falls(k)
    <3>1. CASE ~DropsJob(w, s)
      BY <1>5, <2>1, <3>1, OthersStay DEF Falls
    <3>2. CASE DropsJob(w, s)
      <4>1. t.pc # "free" /\ t.pc \notin Active
        BY <1>5, <3>2 DEF DropsJob
      <4>2. Copied(k) /\ dispatched[k] # 0
        BY <2>2, <4>1, AtWork DEF Copied
      <4>3. /\ ~InGoroutine(k, {"run"}) /\ ~InGoroutine(k, Telling)
            /\ ~InGoroutine(k, {"run"})' /\ ~InGoroutine(k, Telling)'
        BY <1>1, <2>1, <2>2, <4>1, OwnJob DEF Active, Telling
      <4>4. /\ outcomes[k] # {} => LifeOf(k) = "told" /\ LifeOf(k)' = "told"
            /\ outcomes[k] = {} => LifeOf(k) = "waiting" /\ LifeOf(k)' \in {"waiting", "lost"}
        BY <1>0, <1>1, <2>1, <4>2, <4>3, LifeKnown, LifeKnownNext
      <4> QED BY <4>4 DEF Falls
    <3> QED BY <3>1, <3>2
  <2>3. \A k \in WellFormed : Falls(k)
    BY <1>4, <2>2 DEF Falls
  <2> QED BY <2>1, <2>3, DropStep
<1>6. ASSUME t.pc \in {"claim"} \cup Active
      PROVE  Life!LifeNext
  <2> PICK j : j = t.job
    OBVIOUS
  <2>1. /\ j \in WellFormed /\ j \in Jobs /\ outcomes[j] = {} /\ t.pc # "free"
        /\ status[w] = "up" /\ dispatched[j] # 0 /\ Listed(w, j) = 1
    BY <1>6, AtWork DEF Answered, WellFormed, Active
  <2>2. \A k \in WellFormed : k # j => LifeOf(k)' = LifeOf(k)
    BY <1>4
  <2>3. /\ InGoroutine(j, {"run"}) <=> t.pc = "run"
        /\ InGoroutine(j, Telling) <=> t.pc \in Telling
        /\ InGoroutine(j, {"run"})' <=> u.job = j /\ u.pc = "run"
        /\ InGoroutine(j, Telling)' <=> u.job = j /\ u.pc \in Telling
    BY <1>1, <2>1, OwnJob
  <2>4. Copied(j)
    BY <2>1 DEF Copied
  <2>5. /\ KeepsJob(w, s) \/ LeavesJob(w, s)
        /\ Copied(j)' <=> Copied(j)
    <3>1. KeepsJob(w, s) \/ LeavesJob(w, s)
      BY <1>1, <1>6, <2>1 DEF TakesJob, DropsJob, Active
    <3>2. Same
      BY <3>1 DEF KeepsJob, LeavesJob
    <3> QED BY <1>1, <2>1, <3>1, <3>2 DEF Same, Copied
  <2>6. /\ KeepsJob(w, s) => u.job = j /\ u.pc \notin {"free", "purge", "claim"}
        /\ LeavesJob(w, s) => u.pc = "free"
    BY DEF KeepsJob, LeavesJob, Free
  <2>7. u.pc \in TaskPCs
    BY DEF Placed, TypeInv, TypeOK, WorkTypeOK, Task
  <2>8. /\ t.pc = "claim" => LifeOf(j) = "waiting"
        /\ t.pc = "run" => LifeOf(j) = "running"
        /\ t.pc \in Telling => LifeOf(j) = "telling"
    BY <1>0, <2>1, <2>3, <2>4, LifeKnown DEF Telling
  <2>9. /\ outcomes'[j] = {} /\ u.job = j /\ u.pc = "run" => LifeOf(j)' = "running"
        /\ outcomes'[j] = {} /\ u.job = j /\ u.pc \in Telling => LifeOf(j)' = "telling"
        /\ outcomes'[j] = {} /\ u.pc \notin Active => LifeOf(j)' = "waiting"
        /\ outcomes'[j] # {} => LifeOf(j)' = "told"
    BY <1>1, <2>1, <2>3, <2>4, <2>5, LifeKnownNext DEF Telling, Active
  <2>10. ASSUME Falls(j), runs' = runs
         PROVE  Life!LifeNext
    <3>1. \A k \in WellFormed : Falls(k)
      BY <2>2, <2>10 DEF Falls
    <3> QED BY <2>10, <3>1, DropStep
  <2>11. CASE t.pc = "claim" /\ u.pc = "run"
    <3>1. /\ outcomes' = outcomes /\ runs' = [runs EXCEPT ![j] = @ + 1]
          /\ j \notin claim /\ j \notin Unregistered
      BY <1>2, <2>11 DEF TaskTurns
    <3>2. LifeOf(j)' = "running" /\ runs[j] <= MaxReclaims
      BY <1>0, <2>1, <2>5, <2>6, <2>9, <2>11, <3>1, StartsLeft
    <3>3. Life!Moves(j, {"waiting"}, "running")
      BY <2>1, <2>2, <2>8, <2>11, <3>2, MoveStep
    <3>4. Life!Start(j)
      BY <1>3, <2>1, <3>1, <3>2, <3>3 DEF Life!Start, WellFormed
    <3> QED BY <2>1, <3>4 DEF Life!LifeNext
  <2>12. CASE t.pc = "claim" /\ u.pc = "mark"
    <3>1. outcomes' = outcomes /\ runs' = runs /\ j \in Unregistered
      BY <1>2, <2>12 DEF TaskTurns
    <3>2. LifeOf(j)' = "telling"
      BY <2>1, <2>5, <2>6, <2>9, <2>12, <3>1 DEF Telling
    <3>3. Life!Moves(j, {"waiting"}, "telling")
      BY <2>1, <2>2, <2>8, <2>12, <3>2, MoveStep
    <3>4. Life!Refuse(j)
      BY <2>1, <3>1, <3>3 DEF Life!Refuse, WellFormed
    <3> QED BY <2>1, <3>4 DEF Life!LifeNext
  <2>13. CASE t.pc = "claim" /\ u.pc \notin {"run", "mark"}
    <3>1. u.pc # "publish" /\ outcomes' = outcomes /\ runs' = runs
      BY <1>2, <2>13 DEF TaskTurns
    <3>2. LifeOf(j)' = "waiting"
      BY <2>1, <2>9, <2>13, <3>1 DEF Active
    <3> QED BY <2>8, <2>10, <2>13, <3>1, <3>2 DEF Falls
  <2>14. CASE t.pc = "run"
    <3>1. u.pc \in {"run", "mark"} /\ outcomes' = outcomes /\ runs' = runs /\ u.job = j
      BY <1>2, <2>5, <2>6, <2>14 DEF TaskTurns
    <3>2. CASE u.pc = "run"
      BY <2>1, <2>8, <2>9, <2>10, <2>14, <3>1, <3>2 DEF Falls
    <3>3. CASE u.pc = "mark"
      <4>1. LifeOf(j)' = "telling"
        BY <2>1, <2>9, <3>1, <3>3 DEF Telling
      <4>2. Life!Moves(j, {"running"}, "telling")
        BY <2>1, <2>2, <2>8, <2>14, <4>1, MoveStep
      <4>3. Life!End(j)
        BY <3>1, <4>2 DEF Life!End
      <4> QED BY <2>1, <4>3 DEF Life!LifeNext
    <3> QED BY <3>1, <3>2, <3>3
  <2>15. CASE t.pc \in Telling
    <3>1. runs' = runs /\ u.pc # "run"
      BY <1>2, <2>15 DEF TaskTurns, Telling
    <3>2. CASE outcomes'[j] # {}
      <4>1. Life!Moves(j, {"telling", "waiting"}, "told")
        BY <2>1, <2>2, <2>8, <2>9, <2>15, <3>2, MoveStep
      <4>2. Life!Tell(j)
        BY <3>1, <4>1 DEF Life!Tell
      <4> QED BY <2>1, <4>2 DEF Life!LifeNext
    <3>3. CASE outcomes'[j] = {}
      <4>1. LifeOf(j)' \in {"telling", "waiting"}
        BY <2>5, <2>6, <2>9, <3>1, <3>3 DEF Telling, Active
      <4> QED BY <2>8, <2>10, <2>15, <3>1, <4>1 DEF Falls
    <3> QED BY <3>2, <3>3
  <2> QED BY <1>6, <2>11, <2>12, <2>13, <2>14, <2>15 DEF Active, Telling
<1> QED BY <1>5, <1>6

-------------------------------------------------------------------------------
(***************************************************************************)
(* The steps of a sweep, of the processes and of the API.                  *)
(***************************************************************************)
LEMMA SweepLives ==
  ASSUME Fit, Placed', Whole, Answered, NEW w \in Workers, SweepStep(w), UNCHANGED workVars
  PROVE  Life!LifeNext
<1>0. /\ TypeInv /\ Sorted /\ HandShape /\ Placed /\ OneCopy /\ Seen /\ HandledGone
      /\ Counted /\ Counted' /\ "twice" \notin Faults
  BY CountedNow, CountedNext DEF Fit, Placed, Whole
<1>1. /\ UNCHANGED <<status, task, dispatched, runs>> /\ OtherSweeps(w)
      /\ Rests(w) \/ (\E j \in Jobs : Pops(w, j)) \/ GivesUp(w) \/ Requeues(w)
  BY <1>0, OneSweepEffect DEF workVars
<1>2. outcomes \in [Jobs -> SUBSET Verdicts]
  BY <1>0 DEF TypeInv, TypeOK, BrokerTypeOK
<1>3. ASSUME NEW k \in WellFormed, outcomes'[k] = outcomes[k], Copied(k)' <=> Copied(k)
      PROVE  LifeOf(k)' = LifeOf(k)
  <2>1. /\ InGoroutine(k, {"run"})' <=> InGoroutine(k, {"run"})
        /\ InGoroutine(k, Telling)' <=> InGoroutine(k, Telling)
    BY <1>1 DEF InGoroutine
  <2> QED BY <1>0, <1>1, <1>3, <2>1, LifeStays
<1>4. ASSUME \A k \in WellFormed : Falls(k)
      PROVE  Life!LifeNext
  BY <1>1, <1>4, DropStep
\* A job nobody works on that leaves the lists: it waited, and may be lost.
<1>5. ASSUME NEW k \in WellFormed, Copied(k), dispatched[k] # 0,
             \A v \in Workers, r \in Slots : task[v][r].job = k => task[v][r].pc = "free"
      PROVE  /\ outcomes[k] = {} => LifeOf(k) = "waiting"
             /\ outcomes'[k] = outcomes[k] => Falls(k)
             /\ outcomes'[k] # {} => LifeOf(k)' = "told"
             /\ outcomes[k] # {} => LifeOf(k) = "told"
  <2>1. /\ ~InGoroutine(k, {"run"}) /\ ~InGoroutine(k, Telling)
        /\ ~InGoroutine(k, {"run"})' /\ ~InGoroutine(k, Telling)'
    BY <1>1, <1>5 DEF InGoroutine, Telling
  <2>2. /\ outcomes[k] = {} => LifeOf(k) = "waiting"
        /\ outcomes[k] # {} => LifeOf(k) = "told"
    BY <1>0, <1>5, <2>1, LifeKnown
  <2>3. /\ outcomes'[k] = {} => LifeOf(k)' \in {"waiting", "lost"}
        /\ outcomes'[k] # {} => LifeOf(k)' = "told"
    BY <1>1, <1>5, <2>1, LifeKnownNext
  <2> QED BY <2>2, <2>3 DEF Falls
<1>6. \A v \in Workers : v # w => sweep'[v].hand = sweep[v].hand
  BY <1>1 DEF OtherSweeps
<1>7. CASE Rests(w)
  <2>1. ASSUME NEW k \in Jobs PROVE sweep'[w].hand = k <=> sweep[w].hand = k
    BY <1>0, <1>7 DEF Rests, HandShape, HandPCs, Ends, Advances, Looks, Opens, Grips, Idle
  <2>2. ASSUME NEW k \in WellFormed PROVE Falls(k)
    <3>1. k \in Jobs /\ outcomes'[k] = outcomes[k]
      BY <1>7 DEF WellFormed, Rests, Quiet
    <3>2. Copied(k)' <=> Copied(k)
      BY <1>6, <1>7, <2>1, <3>1 DEF Rests, Same, Copied
    <3> QED BY <1>3, <3>1, <3>2 DEF Falls
  <2> QED BY <1>4, <2>2
<1>8. CASE Requeues(w) \/ GivesUp(w)
  <2>0. sweep[w].pc \in HandPCs /\ sweep'[w].hand = NoJob
    BY <1>8 DEF Requeues, GivesUp, LetsGo
  <2>1. PICK h \in Jobs : h = sweep[w].hand
    BY <1>0, <2>0, OpenList
  <2>2. Copied(h) /\ dispatched[h] # 0
    BY <1>0, <2>1 DEF Copied, OneCopy
  <2>3. \A v \in Workers, r \in Slots : task[v][r].job = h => task[v][r].pc = "free"
    BY <2>1, AtWork
  <2>4. ASSUME NEW k \in WellFormed, k # h
        PROVE  LifeOf(k)' = LifeOf(k)
    <3>1. k \in Jobs /\ outcomes'[k] = outcomes[k]
      BY <1>2, <1>8, <2>1, <2>4 DEF WellFormed, Requeues, GivesUp, Quiet
    <3>2. Queued(k)' = Queued(k) /\ \A v \in Workers : Listed(v, k)' = Listed(v, k)
      BY <1>0, <1>8, <2>1, <2>4, <3>1 DEF Requeues, GivesUp, Same, Pushed, One, Counted
    <3>3. Copied(k)' <=> Copied(k)
      BY <1>6, <2>0, <2>1, <2>4, <3>1, <3>2 DEF Copied
    <3> QED BY <1>3, <3>1, <3>3
  <2>5. CASE h \in WellFormed /\ outcomes[h] = {} /\ outcomes'[h] # {}
    <3>1. LifeOf(h) = "waiting" /\ LifeOf(h)' = "told"
      BY <1>5, <2>2, <2>3, <2>5
    <3>2. Life!Moves(h, {"telling", "waiting"}, "told")
      BY <2>4, <2>5, <3>1, MoveStep
    <3>3. Life!Tell(h)
      BY <1>1, <3>2 DEF Life!Tell
    <3> QED BY <2>5, <3>3 DEF Life!LifeNext
  <2>6. CASE h \in WellFormed /\ outcomes[h] # {}
    <3>1. outcomes'[h] # {}
      BY <1>2, <1>8, <2>1, <2>6 DEF Requeues, GivesUp, Quiet
    <3>2. LifeOf(h)' = LifeOf(h)
      BY <1>5, <2>2, <2>3, <2>6, <3>1
    <3> QED BY <1>4, <2>4, <3>2 DEF Falls
  <2>7. CASE h \in WellFormed /\ outcomes[h] = {} /\ outcomes'[h] = {}
    <3>1. Falls(h)
      BY <1>5, <2>2, <2>3, <2>7
    <3> QED BY <1>4, <2>4, <3>1 DEF Falls
  <2>8. CASE h \notin WellFormed
    BY <1>4, <2>4, <2>8 DEF Falls
  <2> QED BY <2>5, <2>6, <2>7, <2>8
<1>9. ASSUME NEW j \in Jobs, Pops(w, j)
      PROVE  Life!LifeNext
  <2>1. PICK x : x = Head(sweep[w].keys)[1]
    OBVIOUS
  <2>2. sweep[w].pc = "drain" /\ x \in Workers /\ Listed(x, j) > 0 /\ Removed(x, j)
    BY <1>9, <2>1 DEF Pops, PopsOff
  <2>3. x \in Opened(w)
    <3>1. sweep[w].keys \in Seq(Workers \X Priorities) /\ sweep[w].keys # <<>>
      BY <1>0, <2>2, OpenList
    <3>2. 1 \in 1..Len(sweep[w].keys) /\ Head(sweep[w].keys) = sweep[w].keys[1]
      BY <3>1, EmptySeq
    <3> QED BY <2>1, <3>2 DEF Opened
  <2>4. status[x] # "up" /\ j \notin sweep[w].handled
    BY <1>0, <2>2, <2>3 DEF Seen, HandledGone
  <2>5. Copied(j) /\ dispatched[j] # 0 /\ Listed(x, j) = 1
    BY <1>0, <2>2 DEF Copied, OneCopy, Counted
  <2>6. \A v \in Workers, r \in Slots : task[v][r].job = j => task[v][r].pc = "free"
    <3>1. ASSUME NEW v \in Workers, NEW r \in Slots, task[v][r].job = j, task[v][r].pc # "free"
          PROVE  FALSE
      <4>1. status[v] = "up" /\ Listed(v, j) = 1
        BY <3>1, AtWork
      <4> QED BY <1>0, <2>2, <2>4, <2>5, <4>1 DEF OneCopy
    <3> QED BY <3>1
  <2>7. sweep[w].hand = NoJob /\ (sweep'[w].hand = NoJob \/ sweep'[w].hand = j)
    BY <1>0, <1>9, <2>2 DEF HandShape, HandPCs, Pops, PicksUp, Ends, Advances, Idle
  <2>8. ASSUME NEW k \in WellFormed PROVE Falls(k)
    <3>1. k \in Jobs /\ outcomes'[k] = outcomes[k]
      BY <1>9 DEF WellFormed, Pops
    <3>2. CASE k = j
      BY <1>5, <2>5, <2>6, <3>1, <3>2
    <3>3. CASE k # j
      <4>1. Queued(k)' = Queued(k) /\ \A v \in Workers : Listed(v, k)' = Listed(v, k)
        BY <1>0, <2>2, <3>1, <3>3 DEF Removed, One, Counted
      <4>2. Copied(k)' <=> Copied(k)
        BY <1>6, <2>7, <3>1, <3>3, <4>1 DEF Copied
      <4> QED BY <1>3, <3>1, <4>2 DEF Falls
    <3> QED BY <3>2, <3>3
  <2> QED BY <1>4, <2>8
<1> QED BY <1>1, <1>7, <1>8, <1>9

LEMMA ProcessLives ==
  ASSUME Fit, Placed', Answered, NEW w \in Workers, ProcessStep(w)
  PROVE  Life!LifeNext
<1>0. TypeInv /\ Sorted /\ Placed /\ OneCopy /\ Counted
  BY CountedNow DEF Fit, Placed
<1>1. /\ Same /\ UNCHANGED <<dispatched, outcomes>>
      /\ \A v \in Workers : v # w => task'[v] = task[v] /\ sweep'[v] = sweep[v]
      /\ task'[w] = task[w] \/ task'[w] = [r \in Slots |-> Free]
      /\ sweep'[w] = sweep[w] \/ sweep'[w] = Idle
  BY <1>0, ProcessEffect
<1>2. runs' = runs
  BY DEF ProcessStep, Start, HeartbeatTick, Expire, Shutdown, Exit, Crash, workVars
<1>3. ASSUME NEW k \in WellFormed
      PROVE  Falls(k)
  <2>0. k \in Jobs
    BY DEF WellFormed
  <2>1. CASE /\ task'[w] # task[w]
             /\ \E s \in Slots : task[w][s].job = k /\ task[w][s].pc \in Active
    <3>1. PICK s \in Slots : task[w][s].job = k /\ task[w][s].pc \in Active
      BY <2>1
    <3>2. /\ dispatched[k] # 0 /\ Listed(w, k) = 1
          /\ \A v \in Workers, r \in Slots : task[v][r].job = k => v = w /\ r = s
      BY <3>1, AtWork DEF Active
    <3>3. outcomes[k] = {}
      BY <3>1 DEF Answered
    <3>4. InGoroutine(k, {"run"}) \/ InGoroutine(k, Telling)
      BY <3>1 DEF InGoroutine, Telling, Active
    <3>5. ASSUME NEW v \in Workers, NEW r \in Slots, task'[v][r].job = k
          PROVE  FALSE
      <4>1. CASE v # w
        BY <1>1, <3>2, <3>5, <4>1
      <4>2. CASE v = w
        BY <1>1, <2>0, <2>1, <3>5, <4>2 DEF Free
      <4> QED BY <4>1, <4>2
    <3>6. ~InGoroutine(k, {"run"})' /\ ~InGoroutine(k, Telling)'
      BY <3>5 DEF InGoroutine
    <3>7. Copied(k)'
      BY <1>1, <2>0, <3>2 DEF Same, Copied
    <3>8. LifeOf(k) \in {"running", "telling"}
      BY <1>0, <3>2, <3>3, <3>4, LifeKnown
    <3>9. LifeOf(k)' = "waiting"
      BY <1>1, <3>2, <3>3, <3>6, <3>7, LifeKnownNext
    <3> QED BY <3>8, <3>9 DEF Falls
  <2>2. CASE ~(/\ task'[w] # task[w]
               /\ \E s \in Slots : task[w][s].job = k /\ task[w][s].pc \in Active)
    <3>1. ASSUME NEW pcs \in SUBSET Active
          PROVE  InGoroutine(k, pcs)' <=> InGoroutine(k, pcs)
      <4>1. CASE task'[w] = task[w]
        BY <1>1, <4>1 DEF InGoroutine
      <4>2. CASE task'[w] # task[w]
        <5>1. \A r \in Slots : task'[w][r].job # k
          BY <1>1, <2>0, <4>2 DEF Free
        <5>2. \A r \in Slots : task[w][r].job = k => task[w][r].pc \notin pcs
          BY <2>2, <4>2
        <5> QED BY <1>1, <5>1, <5>2 DEF InGoroutine
      <4> QED BY <4>1, <4>2
    <3>2. /\ InGoroutine(k, {"run"})' <=> InGoroutine(k, {"run"})
          /\ InGoroutine(k, Telling)' <=> InGoroutine(k, Telling)
      <4>1. {"run"} \in SUBSET Active /\ Telling \in SUBSET Active
        BY DEF Active, Telling
      <4> QED BY <3>1, <4>1
    <3>3. CASE sweep'[w].hand = sweep[w].hand
      <4>1. Copied(k)' <=> Copied(k)
        BY <1>1, <2>0, <3>3 DEF Same, Copied
      <4>2. LifeOf(k)' = LifeOf(k)
        BY <1>0, <1>1, <3>2, <4>1, LifeStays
      <4> QED BY <4>2 DEF Falls
    <3>4. CASE sweep'[w].hand # sweep[w].hand /\ sweep[w].hand # k
      <4>1. sweep'[w].hand # k
        BY <1>1, <2>0, <3>4 DEF Idle
      <4>2. Copied(k)' <=> Copied(k)
        BY <1>1, <2>0, <3>4, <4>1 DEF Same, Copied
      <4>3. LifeOf(k)' = LifeOf(k)
        BY <1>0, <1>1, <3>2, <4>2, LifeStays
      <4> QED BY <4>3 DEF Falls
    <3>5. CASE sweep[w].hand = k
      <4>1. Copied(k) /\ dispatched[k] # 0
        BY <1>0, <2>0, <3>5 DEF Copied, OneCopy
      <4>2. ~InGoroutine(k, {"run"}) /\ ~InGoroutine(k, Telling)
        <5>1. \A v \in Workers, r \in Slots : task[v][r].job = k => task[v][r].pc = "free"
          BY <3>5, AtWork
        <5> QED BY <5>1 DEF InGoroutine, Telling
      <4>3. /\ outcomes[k] = {} => LifeOf(k) = "waiting" /\ LifeOf(k)' \in {"waiting", "lost"}
            /\ outcomes[k] # {} => LifeOf(k) = "told" /\ LifeOf(k)' = "told"
        BY <1>0, <1>1, <3>2, <4>1, <4>2, LifeKnown, LifeKnownNext
      <4> QED BY <4>3 DEF Falls
    <3> QED BY <3>3, <3>4, <3>5
  <2> QED BY <2>1, <2>2
<1> QED BY <1>2, <1>3, DropStep

LEMMA NextLives ==
  ASSUME Fit, Placed', Whole, Told, Answered, RunParts, Once, [Next]_vars, "dup" \notin Faults
  PROVE  Life!LifeNext
<1>0. TypeInv /\ Sorted /\ Placed /\ OneCopy /\ Counted /\ Counted' /\ BrokerTypeOK
  BY CountedNow, CountedNext DEF Fit, Placed, TypeInv, TypeOK
<1>1. ASSUME UNCHANGED <<task, sweep, outcomes, dispatched, runs>>,
             \A k \in Jobs : Copied(k)' <=> Copied(k)
      PROVE  Life!LifeNext
  <2>1. ASSUME NEW k \in WellFormed PROVE LifeOf(k)' = LifeOf(k)
    <3>1. Copied(k)' <=> Copied(k)
      BY <1>1 DEF WellFormed
    <3>2. /\ InGoroutine(k, {"run"})' <=> InGoroutine(k, {"run"})
          /\ InGoroutine(k, Telling)' <=> InGoroutine(k, Telling)
      BY <1>1 DEF InGoroutine
    <3> QED BY <1>0, <1>1, <3>1, <3>2, LifeStays
  <2> QED BY <1>1, <2>1, DropStep DEF Falls
<1>2. CASE UNCHANGED vars
  <2>1. \A k \in Jobs : Copied(k)' <=> Copied(k)
    BY <1>2 DEF vars, Copied, Queued, Listed
  <2> QED BY <1>1, <1>2, <2>1 DEF vars
<1>3. ASSUME NEW j \in Jobs, Dispatch(j), UNCHANGED <<workVars, reclaimVars>>
      PROVE  Life!LifeNext
  <2>1. Pushed(j) /\ UNCHANGED <<task, sweep, outcomes, runs>>
    BY <1>0, <1>3, DispatchLists DEF Dispatch, workVars, reclaimVars
  <2>2. /\ dispatched[j] = 0 /\ dispatched'[j] = 1
        /\ \A k \in Jobs : k # j => dispatched'[k] = dispatched[k]
    BY <1>0, <1>3 DEF Dispatch, BrokerTypeOK
  <2>3. ASSUME NEW k \in Jobs
        PROVE  /\ InGoroutine(k, {"run"})' <=> InGoroutine(k, {"run"})
               /\ InGoroutine(k, Telling)' <=> InGoroutine(k, Telling)
    BY <2>1 DEF InGoroutine
  <2>4. ASSUME NEW k \in WellFormed, k # j
        PROVE  LifeOf(k)' = LifeOf(k)
    <3>0. k \in Jobs
      BY DEF WellFormed
    <3>1. Queued(k)' = Queued(k) /\ \A v \in Workers : Listed(v, k)' = Listed(v, k)
      BY <1>0, <2>1, <2>4, <3>0 DEF Pushed, One, Counted
    <3>2. Copied(k)' <=> Copied(k)
      BY <2>1, <3>1 DEF Copied
    <3> QED BY <1>0, <2>1, <2>2, <2>3, <2>4, <3>0, <3>2, LifeStays
  <2>5. CASE j \in WellFormed
    <3>1. ~InGoroutine(j, {"run"}) /\ ~InGoroutine(j, Telling)
      <4>1. \A v \in Workers, r \in Slots : task[v][r].job = j => task[v][r].pc = "free"
        BY <2>2, AtWork
      <4> QED BY <4>1 DEF InGoroutine, Telling
    <3>2. Copied(j)'
      BY <1>0, <2>1 DEF Pushed, One, Counted, Copied
    <3>3. outcomes'[j] = {}
      BY <2>1, <2>2 DEF Answered
    <3>4. LifeOf(j) = "unknown" /\ LifeOf(j)' = "waiting"
      BY <1>0, <2>2, <2>3, <2>5, <3>1, <3>2, <3>3, LifeKnown, LifeKnownNext
    <3>5. Life!Moves(j, {"unknown"}, "waiting")
      BY <2>4, <2>5, <3>4, MoveStep
    <3>6. Life!Submit(j)
      BY <2>1, <3>5 DEF Life!Submit
    <3> QED BY <2>5, <3>6 DEF Life!LifeNext
  <2>6. CASE j \notin WellFormed
    BY <2>1, <2>4, <2>6, DropStep DEF Falls
  <2> QED BY <2>5, <2>6
<1>4. ASSUME NEW w \in Workers, ProcessStep(w)
      PROVE  Life!LifeNext
  BY <1>4, ProcessLives
<1>5. ASSUME NEW w \in Workers, SweepEmpty(w) \/ SweepError(w), UNCHANGED reclaimVars
      PROVE  Life!LifeNext
  <2>1. /\ UNCHANGED <<task, sweep, outcomes, dispatched>>
        /\ Same \/ \E j \in Jobs : Queued(j) > 0 /\ Taken(w, j)
    BY <1>0, <1>5, PollEffect
  <2>2. runs' = runs
    BY <1>5 DEF SweepEmpty, SweepError
  <2>3. ASSUME NEW k \in Jobs PROVE Copied(k)' <=> Copied(k)
    <3>1. CASE Same
      BY <2>1, <3>1 DEF Same, Copied
    <3>2. ASSUME NEW j \in Jobs, Queued(j) > 0, Taken(w, j), j = k
          PROVE  Copied(k)' <=> Copied(k)
      <4>1. Listed(w, k)' > 0
        BY <1>0, <3>2 DEF Taken, One, Counted
      <4> QED BY <3>2, <4>1 DEF Copied
    <3>3. ASSUME NEW j \in Jobs, Taken(w, j), j # k
          PROVE  Copied(k)' <=> Copied(k)
      <4>1. Queued(k)' = Queued(k) /\ \A v \in Workers : Listed(v, k)' = Listed(v, k)
        BY <1>0, <3>3 DEF Taken, One, Counted
      <4> QED BY <2>1, <4>1 DEF Copied
    <3> QED BY <2>1, <3>1, <3>2, <3>3
  <2> QED BY <1>1, <2>1, <2>2, <2>3
<1>6. ASSUME NEW w \in Workers, NEW s \in Slots, TaskStep(w, s), UNCHANGED reclaimVars
      PROVE  Life!LifeNext
  BY <1>6, TaskLives
<1>7. ASSUME NEW w \in Workers, SweepStep(w), UNCHANGED workVars
      PROVE  Life!LifeNext
  BY <1>7, SweepLives
<1> QED BY <1>2, <1>3, <1>4, <1>5, <1>6, <1>7 DEF Next, WorkStep, ProcessStep

LEMMA InitLives == Init => Life!LifeInit
<1> SUFFICES ASSUME Init PROVE Life!LifeInit
  OBVIOUS
<1>1. \A j \in WellFormed : dispatched[j] = 0 /\ runs[j] = 0
  BY DEF Init, BrokerInit, WorkInit, WellFormed
<1>2. \A j \in WellFormed : LifeOf(j) = "unknown"
  BY <1>1 DEF LifeOf
<1> QED BY <1>1, <1>2 DEF Life!LifeInit

\* The fleet implements the abstract life of a job, for every number of
\* workers, slots, jobs and retries: a job dispatched once is run by one
\* worker at a time, at most once plus once per allowed reclaim, is never run
\* again once a terminal event is out, and leaves unanswered only while it
\* waits, from the hands of a sweep or turned away by its own claim; crashes,
\* failing calls, lost replies and commands sent again included.  The
\* hypotheses are those of FindingsReportedOnce, and that no process drains:
\* a draining worker whose key expires is reclaimed while it still runs.
THEOREM FleetImplementsLife ==
  ASSUME "lapse" \notin Faults, "join" \notin Faults, "dup" \notin Faults, "twice" \notin Faults,
         "marker" \notin Faults, "shutdown" \notin Faults
  PROVE  Spec => ImplementsLife
<1>1. Fit /\ Whole /\ Told /\ [Next]_vars => Told'
  BY NextTold DEF Whole
<1>2. Spec => []Told
  BY <1>1, InitTold, AlwaysFit, AlwaysWhole, PTL DEF Spec
<1>3. TypeInv /\ RunParts /\ [Next]_vars => TypeInv' /\ RunParts'
  BY NextType, NextRuns
<1>4. Spec => []RunParts
  BY <1>3, InitType, InitRuns, PTL DEF Spec
<1>5. Fit /\ Fit' /\ Told /\ Answered /\ [Next]_vars => Answered'
  BY NextAnswered DEF Fit
<1>6. Spec => []Answered
  BY <1>2, <1>5, InitAnswered, AlwaysFit, PTL DEF Spec
<1>o. TypeInv /\ Whole /\ Once /\ [Next]_vars => Once'
  BY NextOnce DEF Whole
<1>p. Init => Once
  BY DEF Init, ReclaimInit, Once
<1>q. Placed => TypeInv
  BY DEF Placed
<1>r. Spec => []Once
  BY <1>o, <1>p, <1>q, AlwaysPlaced, AlwaysWhole, PTL DEF Spec
<1>7. Fit /\ Fit' /\ Whole /\ Told /\ Answered /\ RunParts /\ Once /\ [Next]_vars
        => [Life!LifeNext]_(Life!lifeVars)
  BY NextLives DEF Fit
<1>8. Spec => Life!LifeInit /\ [][Life!LifeNext]_(Life!lifeVars)
  BY <1>2, <1>4, <1>6, <1>7, <1>r, InitLives, AlwaysFit, AlwaysWhole, PTL DEF Spec
<1> QED BY <1>8 DEF ImplementsLife, Life!LifeSpec

===============================================================================
