------------------------------- MODULE Reclaimer -------------------------------
(***************************************************************************)
(* The reclaim loop every worker runs: read the live worker ids, SCAN the  *)
(* processing lists of everybody else, and take each list apart from its   *)
(* oldest end, retrying or failing one job at a time.                      *)
(*                                                                         *)
(* Each Redis call of a sweep is a step of its own, so sweeps of several   *)
(* workers, and the workers themselves, interleave between any two calls.  *)
(* A SCAN is one step: it returns the keys that exist when it is taken.    *)
(* The 30s limit of a sweep shows as calls that fail ("redis").            *)
(***************************************************************************)
EXTENDS Broker

CONSTANT MaxReclaims  \* requeues one job may get before it is failed

ASSUME ReclaimAssumption == MaxReclaims \in Nat

VARIABLES
  sweep,     \* sweep[w]: the reclaim goroutine of w
  released,  \* observation: the DELs that freed j's claim, by attempt and re-send
  lost       \* observation: jobs a sweep popped and then could not place

reclaimVars == <<sweep, released, lost>>

SweepPCs == {"idle", "scan", "drain", "count", "marker", "release", "push", "fail"}

Sweep == [pc : SweepPCs,
          live : SUBSET Workers,             \* ReclaimPolicy.LiveWorkerIDs
          keys : Seq(Workers \X Priorities), \* lists left, the current one first
          handled : SUBSET Jobs,             \* de-duplication set of the sweep
          hand : Jobs \cup {NoJob},          \* the payload popped last
          attempts : Nat,
          sent : 0..ResendLimit]             \* re-sends of the DEL or RPUSH at hand

Idle == [pc |-> "idle", live |-> {}, keys |-> <<>>, handled |-> {},
         hand |-> NoJob, attempts |-> 0, sent |-> 0]

ReclaimTypeOK ==
  /\ sweep \in [Workers -> Sweep]
  /\ released \in [Jobs -> SUBSET (Nat \X (0..ResendLimit))]
  /\ lost \subseteq Jobs

ReclaimInit ==
  /\ sweep = [w \in Workers |-> Idle]
  /\ released = [j \in Jobs |-> {}]
  /\ lost = {}

InHand(w) == {j \in Jobs : sweep[w].hand = j}

Proceed(w, r) == sweep' = [sweep EXCEPT ![w] = r]
Stop(w) == Proceed(w, Idle)

\* Back to the list, with nothing in hand.
Continue(w) ==
  Proceed(w, [sweep[w] EXCEPT !.pc = "drain", !.hand = NoJob, !.attempts = 0, !.sent = 0])

\* The current list is done with: go to the next, or end the sweep.
NextList(w) ==
  IF Len(sweep[w].keys) = 1
  THEN Stop(w)
  ELSE Proceed(w, [sweep[w] EXCEPT !.keys = Tail(@)])

(***************************************************************************)
(* reclaimJobsOnce and orphanProcessingKeys.                               *)
(***************************************************************************)
ReadLiveSelfOnly(w) ==
  /\ sweep[w].pc = "idle"
  /\ Works(w)
  /\ Proceed(w, [Idle EXCEPT !.pc = "scan", !.live = {w}])
  /\ UNCHANGED <<fleetVars, listVars, keyVars, apiVars, released, lost>>

ReadLive(w) ==
  /\ sweep[w].pc = "idle"
  /\ Works(w)
  /\ Proceed(w, [Idle EXCEPT !.pc = "scan", !.live = {v \in Workers : beat[v]} \cup {w}])
  /\ UNCHANGED <<fleetVars, listVars, keyVars, apiVars, released, lost>>

AllKeys(live) == {k \in Workers \X Priorities : processing[k[1]][k[2]] # <<>>}

OrphanKeys(live) ==
  {k \in Workers \X Priorities : k[1] \notin live /\ processing[k[1]][k[2]] # <<>>}

ScanKeys(w) ==
  /\ sweep[w].pc = "scan"
  /\ Works(w)
  /\ \E keys \in SetToSeqs(OrphanKeys(sweep[w].live)) :
       IF keys = <<>>
       THEN Stop(w)
       ELSE Proceed(w, [Idle EXCEPT !.pc = "drain", !.live = sweep[w].live, !.keys = keys])
  /\ UNCHANGED <<fleetVars, listVars, keyVars, apiVars, released, lost>>

ScanError(w) ==
  /\ sweep[w].pc = "scan"
  /\ Fails(w)
  /\ Stop(w)
  /\ UNCHANGED <<fleetVars, listVars, keyVars, apiVars, released, lost>>

(***************************************************************************)
(* drainList.                                                              *)
(***************************************************************************)
ListDrained(w) ==
  /\ sweep[w].pc = "drain"
  /\ Works(w)
  /\ LET k == Head(sweep[w].keys) IN processing[k[1]][k[2]] = <<>>
  /\ NextList(w)
  /\ UNCHANGED <<fleetVars, listVars, keyVars, apiVars, released, lost>>

PopOrphan(w) ==
  /\ sweep[w].pc = "drain"
  /\ Works(w)
  /\ LET k == Head(sweep[w].keys)
         j == Last(processing[k[1]][k[2]])
     IN  /\ processing[k[1]][k[2]] # <<>>
         /\ RPop(k[1], k[2])
         /\ IF j \in Malformed \cup sweep[w].handled
            THEN UNCHANGED sweep
            ELSE Proceed(w, [sweep[w] EXCEPT !.pc = "count", !.hand = j,
                                             !.handled = @ \cup {j}])
  /\ UNCHANGED <<fleetVars, queue, keyVars, apiVars, released, lost>>

\* RPOP fails and the list is abandoned.  A cancelled context ends the sweep
\* at the check before the RPOP.
PopOrphanError(w) ==
  /\ sweep[w].pc = "drain"
  /\ Fails(w)
  /\ IF status[w] = "draining" THEN Stop(w) ELSE NextList(w)
  /\ UNCHANGED <<fleetVars, listVars, keyVars, apiVars, released, lost>>

\* The payload is gone with the reply of its RPOP, and the list is abandoned
\* or the RPOP that is sent again takes the next payload.
PopOrphanLost(w) ==
  LET k == Head(sweep[w].keys)
  IN  /\ sweep[w].pc = "drain"
      /\ LosesReply(w)
      /\ processing[k[1]][k[2]] # <<>>
      /\ RPop(k[1], k[2])
      /\ lost' = lost \cup {Last(processing[k[1]][k[2]])}
      /\ \/ NextList(w)
         \/ Resends(w, 0) /\ UNCHANGED sweep
      /\ UNCHANGED <<fleetVars, queue, keyVars, apiVars, released>>

(***************************************************************************)
(* reclaimOne: count, look at the marker, then retry or fail.              *)
(***************************************************************************)
ToFail(w) == Proceed(w, [sweep[w] EXCEPT !.pc = "fail"])

\* How often one call's INCR takes effect: each one sent again counts too.
Increments(w) == IF LosesReply(w) THEN 1..(1 + ResendLimit) ELSE {1}

BumpReclaimCount(w) ==
  LET j == sweep[w].hand
  IN  /\ sweep[w].pc = "count"
      /\ Works(w)
      /\ \E n \in Increments(w) :
           /\ reclaims' = [reclaims EXCEPT ![j] = @ + n]
           /\ Proceed(w, [sweep[w] EXCEPT !.pc = "marker", !.attempts = reclaims[j] + n])
      /\ UNCHANGED <<fleetVars, listVars, claim, marker, apiVars, released, lost>>

BumpError(w) ==
  LET j == sweep[w].hand
  IN  /\ sweep[w].pc = "count"
      /\ \/ Fails(w) /\ UNCHANGED reclaims
         \/ LosesReply(w) /\ \E n \in Increments(w) : reclaims' = [reclaims EXCEPT ![j] = @ + n]
      /\ ToFail(w)
      /\ UNCHANGED <<fleetVars, listVars, claim, marker, apiVars, released, lost>>

HasPublished(w) ==
  /\ sweep[w].pc = "marker"
  /\ Works(w)
  /\ IF sweep[w].hand \in marker \/ sweep[w].attempts > MaxReclaims
     THEN ToFail(w)
     ELSE Proceed(w, [sweep[w] EXCEPT !.pc = "release"])
  /\ UNCHANGED <<fleetVars, listVars, keyVars, apiVars, released, lost>>

HasPublishedError(w) ==
  /\ sweep[w].pc = "marker"
  /\ Fails(w)
  /\ ToFail(w)
  /\ UNCHANGED <<fleetVars, listVars, keyVars, apiVars, released, lost>>

(***************************************************************************)
(* requeue: release the claim, then push at the head of the line.          *)
(***************************************************************************)
DropClaim(w) ==
  /\ claim' = claim \ {sweep[w].hand}
  /\ released' = IF sweep[w].hand \in claim
                 THEN [released EXCEPT ![sweep[w].hand] =
                         @ \cup {<<sweep[w].attempts, sweep[w].sent>>}]
                 ELSE released

ReleaseNothing(w) ==
  /\ sweep[w].pc = "release"
  /\ Works(w)
  /\ Proceed(w, [sweep[w] EXCEPT !.pc = "push"])
  /\ UNCHANGED <<fleetVars, listVars, keyVars, apiVars, released, lost>>

Release(w) ==
  /\ sweep[w].pc = "release"
  /\ Works(w)
  /\ DropClaim(w)
  /\ Proceed(w, [sweep[w] EXCEPT !.pc = "push", !.sent = 0])
  /\ UNCHANGED <<fleetVars, listVars, marker, reclaims, apiVars, lost>>

\* The DEL takes effect and will be sent again: a claim that another copy of
\* the job takes in between is dropped with it.
ReleaseResent(w) ==
  /\ sweep[w].pc = "release"
  /\ Resends(w, sweep[w].sent)
  /\ DropClaim(w)
  /\ Proceed(w, [sweep[w] EXCEPT !.sent = @ + 1])
  /\ UNCHANGED <<fleetVars, listVars, marker, reclaims, apiVars, lost>>

ReleaseError(w) ==
  /\ sweep[w].pc = "release"
  /\ \/ Fails(w) /\ UNCHANGED <<claim, released>>
     \/ LosesReply(w) /\ DropClaim(w)
  /\ ToFail(w)
  /\ UNCHANGED <<fleetVars, listVars, marker, reclaims, apiVars, lost>>

RequeueUrgent(w) ==
  /\ sweep[w].pc = "push"
  /\ Works(w)
  /\ RPush(1, sweep[w].hand)
  /\ Continue(w)
  /\ UNCHANGED <<fleetVars, processing, keyVars, apiVars, released, lost>>

Requeue(w) ==
  /\ sweep[w].pc = "push"
  /\ Works(w)
  /\ RPush(Head(sweep[w].keys)[2], sweep[w].hand)
  /\ Continue(w)
  /\ UNCHANGED <<fleetVars, processing, keyVars, apiVars, released, lost>>

\* The RPUSH takes effect and will be sent again.
RequeueResent(w) ==
  /\ sweep[w].pc = "push"
  /\ "twice" \in Faults
  /\ Resends(w, sweep[w].sent)
  /\ RPush(Head(sweep[w].keys)[2], sweep[w].hand)
  /\ Proceed(w, [sweep[w] EXCEPT !.sent = @ + 1])
  /\ UNCHANGED <<fleetVars, processing, keyVars, apiVars, released, lost>>

\* The payload is logged and is nowhere else.
RequeueError(w) ==
  /\ sweep[w].pc = "push"
  /\ Fails(w)
  /\ lost' = lost \cup {sweep[w].hand}
  /\ Continue(w)
  /\ UNCHANGED <<fleetVars, listVars, keyVars, apiVars, released>>

(***************************************************************************)
(* fail: the terminal event the dead worker never sent.                    *)
(***************************************************************************)
Fail(w) ==
  /\ sweep[w].pc = "fail"
  /\ Works(w)
  /\ outcomes' = [outcomes EXCEPT ![sweep[w].hand] = @ \cup {"failed"}]
  /\ Continue(w)
  /\ UNCHANGED <<fleetVars, listVars, keyVars, dispatched, released, lost>>

FailError(w) ==
  /\ sweep[w].pc = "fail"
  /\ Fails(w)
  /\ lost' = lost \cup {sweep[w].hand}
  /\ Continue(w)
  /\ UNCHANGED <<fleetVars, listVars, keyVars, apiVars, released>>

SweepStep(w) ==
  \/ ReadLive(w)
  \/ ScanKeys(w)
  \/ ScanError(w)
  \/ ListDrained(w)
  \/ PopOrphan(w)
  \/ PopOrphanError(w)
  \/ PopOrphanLost(w)
  \/ BumpReclaimCount(w)
  \/ BumpError(w)
  \/ HasPublished(w)
  \/ HasPublishedError(w)
  \/ Release(w)
  \/ ReleaseResent(w)
  \/ ReleaseError(w)
  \/ Requeue(w)
  \/ RequeueResent(w)
  \/ RequeueError(w)
  \/ Fail(w)
  \/ FailError(w)

===============================================================================
