---------------------------- MODULE MCJobDelivery ----------------------------
(***************************************************************************)
(* Instances of JobDelivery for TLC.                                       *)
(***************************************************************************)
EXTENDS JobRefinement

\* All jobs on one priority.
OnePriority == [j \in Jobs |-> 1]

\* The malformed payload and the job without a runner outrank the others.
MixedPriority == [j \in Jobs |-> IF j \in Malformed \cup Unregistered THEN 1 ELSE 2]

\* Workers without a role are interchangeable, and so are slots.
WorkerSymmetry == Permutations(Workers \ Stable) \cup Permutations(Slots)

\* What BoundedRuns and the guards read.  The other variables, and the verdict
\* of a run, are written and never looked at where a run has one event, so
\* states that differ in them alone have the same future.
RunsView == <<status, beat, queue, processing, claim, marker, reclaims, at, runs, sweep,
              [w \in Workers |-> [s \in Slots |-> <<task[w][s].pc, task[w][s].job>>]]>>

===============================================================================
