------------------------------- MODULE JobLife -------------------------------
(***************************************************************************)
(* What the fleet promises of a job, whichever workers have it in hand:   *)
(* it waits, is run by one of them at a time and at most once plus once   *)
(* per allowed reclaim, is told, and once it is told it is never run      *)
(* again.  A worker's death puts its jobs back; the only way out without  *)
(* an answer is to be lost while it waits.                                *)
(***************************************************************************)
EXTENDS Naturals

CONSTANTS Jobs,          \* the well-formed jobs
          NoRunner,      \* those that are answered without a run
          MaxReclaims

VARIABLES life,          \* life[j]: where the job is
          starts         \* starts[j]: how often a runner was started for it

lifeVars == <<life, starts>>

Lives == {"unknown", "waiting", "running", "telling", "told", "lost"}

LifeInit ==
  /\ life = [j \in Jobs |-> "unknown"]
  /\ starts = [j \in Jobs |-> 0]

Moves(j, from, to) ==
  /\ life[j] \in from
  /\ life' = [life EXCEPT ![j] = to]

Submit(j) == Moves(j, {"unknown"}, "waiting") /\ UNCHANGED starts

Start(j) ==
  /\ Moves(j, {"waiting"}, "running")
  /\ j \notin NoRunner
  /\ starts[j] <= MaxReclaims
  /\ starts' = [starts EXCEPT ![j] = @ + 1]

Refuse(j) == j \in NoRunner /\ Moves(j, {"waiting"}, "telling") /\ UNCHANGED starts

End(j) == Moves(j, {"running"}, "telling") /\ UNCHANGED starts

\* The answer of the worker that ran it, or of a sweep that gave it up.
Tell(j) == Moves(j, {"telling", "waiting"}, "told") /\ UNCHANGED starts

\* Whatever some worker had in hand goes back to the lists (back), and what
\* was between two lists is gone.
Drop(back, gone) ==
  /\ \A j \in back : life[j] \in {"running", "telling"}
  /\ \A j \in gone : life[j] = "waiting"
  /\ life' = [j \in Jobs |-> CASE j \in back -> "waiting"
                               [] j \in gone -> "lost"
                               [] OTHER -> life[j]]
  /\ UNCHANGED starts

LifeNext ==
  \/ \E j \in Jobs : Submit(j) \/ Start(j) \/ Refuse(j) \/ End(j) \/ Tell(j)
  \/ \E back, gone \in SUBSET Jobs : Drop(back, gone)

LifeSpec == LifeInit /\ [][LifeNext]_lifeVars
=============================================================================
