---------------------------- MODULE JobRefinement ----------------------------
(***************************************************************************)
(* The fleet of JobDelivery implements JobLife.  Where a job is follows   *)
(* from the completion events, the goroutines and the lists.              *)
(***************************************************************************)
EXTENDS JobDelivery

WellFormed == Jobs \ Malformed

InGoroutine(j, pcs) ==
  \E w \in Workers, s \in Slots : task[w][s].job = j /\ task[w][s].pc \in pcs

\* On some list, or in a sweep's hands.
Held(j) ==
  \/ \E p \in Priorities : Positions(queue[p], j) # {}
  \/ \E w \in Workers, p \in Priorities : Positions(processing[w][p], j) # {}
  \/ \E w \in Workers : sweep[w].hand = j

LifeOf(j) ==
  CASE dispatched[j] = 0 -> "unknown"
    [] dispatched[j] > 0 /\ outcomes[j] # {} -> "told"
    [] OTHER -> IF InGoroutine(j, {"run"}) THEN "running"
                ELSE IF InGoroutine(j, {"mark", "publish"}) THEN "telling"
                ELSE IF Held(j) THEN "waiting"
                ELSE "lost"

Life == INSTANCE JobLife WITH
          Jobs <- WellFormed,
          NoRunner <- Unregistered \ Malformed,
          life <- [j \in WellFormed |-> LifeOf(j)],
          starts <- [j \in WellFormed |-> runs[j]]

\* Whatever crashes, failed calls, lost replies and commands sent again do
\* between any two Redis commands, a job is run by one worker at a time, within
\* its budget of starts, never again once a terminal event is out, and it only
\* disappears unanswered while it waits: in the hands of a sweep, or when its
\* own claim, sent again, turns it away.
ImplementsLife == Life!LifeSpec
=============================================================================
