--------------------------- MODULE ServiceContainer ---------------------------
(***************************************************************************)
(* One call of DockerServiceRunner.Run with an ephemeral container: the    *)
(* factory that creates the container, starts it and waits until its HTTP  *)
(* service answers, and the deferred release.  The scan in between is in   *)
(* ZapScan and MobsfScan, the composition in ServiceRun.                   *)
(*                                                                         *)
(* Steps are cut at calls of the Docker daemon and of the service.  Time   *)
(* is a flag, late, that may be raised at any moment while a deadline is   *)
(* pending.  Troubles names what may go wrong:                             *)
(*   create, start, inspect, remove   the daemon refuses the call          *)
(*   exit    the container's process dies                                  *)
(*   http    the service answers an error, or something unreadable         *)
(*   hang    the service takes requests and never answers                  *)
(*   fetch   the app to be analysed cannot be downloaded or stored         *)
(*   stall   the object store stops in the middle of an answer             *)
(*   cancel  the job's context ends: a user cancel or a shutdown           *)
(***************************************************************************)
EXTENDS Naturals

CONSTANT Troubles

ASSUME TroublesAssumption ==
  Troubles \subseteq {"create", "start", "inspect", "remove", "exit", "http",
                      "hang", "fetch", "stall", "cancel"}

VARIABLES
  job,        \* the target and scan configuration Run was called with
  pc,         \* where Run is
  cancelled,  \* the job's context is done
  box,        \* the container
  up,         \* the service in it listens
  stuck,      \* it listens and answers no more
  late,       \* the deadline of the current wait has passed
  acquired,   \* the factory has returned: the release is deferred
  result,     \* what Run will return
  knocks      \* observation: probes of a dead container, see Alive

containerVars == <<pc, cancelled, box, up, stuck, late, acquired, result, knocks>>

BootPCs == {"create", "start", "inspect", "probe", "alive", "pause", "condemn"}

\* "kept": the daemon was asked to remove the container and refused.
Boxes == {"none", "created", "running", "exited", "gone", "kept"}

ContainerInit ==
  /\ pc = "create"
  /\ cancelled = FALSE
  /\ box = "none"
  /\ up = FALSE
  /\ stuck = FALSE
  /\ late = FALSE
  /\ acquired = FALSE
  /\ result = "none"
  /\ knocks = 0

\* ContainerStop and the forced ContainerRemove.  On a finished context
\* neither reaches the daemon.
Remove(ctxLive) ==
  /\ \/ ctxLive /\ box' = "gone"
     \/ ctxLive /\ "remove" \in Troubles /\ box' = "kept"
     \/ ~ctxLive /\ box' = box
  /\ up' = (up /\ box' = box)

\* A boot step that fails cleans up on the job's own context.
BootFails ==
  /\ Remove(~cancelled)
  /\ pc' = "done"
  /\ result' = "error"
  /\ UNCHANGED <<cancelled, stuck, late, acquired, knocks>>

(***************************************************************************)
(* ServiceContainerFactory.                                                *)
(***************************************************************************)
\* ImagePull and ContainerCreate
Create ==
  /\ pc = "create"
  /\ \/ ~cancelled /\ box' = "created" /\ pc' = "start" /\ UNCHANGED result
     \/ /\ cancelled \/ "create" \in Troubles
        /\ pc' = "done"
        /\ result' = "error"
        /\ UNCHANGED box
  /\ UNCHANGED <<cancelled, up, stuck, late, acquired, knocks>>

Start ==
  /\ pc = "start"
  /\ \/ /\ ~cancelled
        /\ box' = "running"
        /\ pc' = "inspect"
        /\ UNCHANGED <<cancelled, up, stuck, late, acquired, result, knocks>>
     \/ (cancelled \/ "start" \in Troubles) /\ BootFails

\* A container that has exited has no mapped port: dynamicHostPort fails.
Inspect ==
  /\ pc = "inspect"
  /\ \/ /\ ~cancelled /\ box = "running"
        /\ pc' = "probe"
        /\ late' = FALSE
        /\ UNCHANGED <<cancelled, box, up, stuck, acquired, result, knocks>>
     \/ (cancelled \/ box = "exited" \/ "inspect" \in Troubles) /\ BootFails

(***************************************************************************)
(* waitForReady.                                                           *)
(***************************************************************************)
ProbeWithoutDeadline ==
  /\ pc = "probe"
  /\ \/ /\ up /\ ~stuck /\ ~cancelled
        /\ pc' = "validate"
        /\ acquired' = TRUE
        /\ UNCHANGED knocks
     \/ /\ ~up \/ stuck \/ cancelled \/ "http" \in Troubles
        /\ pc' = "alive"
        /\ knocks' = IF box = "exited" THEN knocks + 1 ELSE knocks
        /\ UNCHANGED acquired
  /\ UNCHANGED <<cancelled, box, up, stuck, late, result>>

\* The head of the loop, then one probe with a timeout of its own: a service
\* that hangs fails the probe.
Probe ==
  /\ pc = "probe"
  /\ \/ /\ late
        /\ pc' = "condemn"
        /\ UNCHANGED <<acquired, knocks>>
     \/ /\ ~late /\ up /\ ~stuck /\ ~cancelled
        /\ pc' = "validate"
        /\ acquired' = TRUE
        /\ UNCHANGED knocks
     \/ /\ ~late
        /\ ~up \/ stuck \/ cancelled \/ "http" \in Troubles
        /\ pc' = "alive"
        /\ knocks' = IF box = "exited" THEN knocks + 1 ELSE knocks
        /\ UNCHANGED acquired
  /\ UNCHANGED <<cancelled, box, up, stuck, late, result>>

AliveNotAsked ==
  /\ pc = "alive"
  /\ pc' = "pause"
  /\ UNCHANGED <<cancelled, box, up, stuck, late, acquired, result, knocks>>

\* containerAliveCheck: a failed inspect is inconclusive and the wait goes on
Alive ==
  /\ pc = "alive"
  /\ \/ /\ cancelled \/ "inspect" \in Troubles
        /\ pc' = "pause"
        /\ knocks' = 0
     \/ /\ ~cancelled
        /\ pc' = IF box = "running" THEN "pause" ELSE "condemn"
        /\ UNCHANGED knocks
  /\ UNCHANGED <<cancelled, box, up, stuck, late, acquired, result>>

Pause ==
  /\ pc = "pause"
  /\ pc' = IF cancelled THEN "condemn" ELSE "probe"
  /\ UNCHANGED <<cancelled, box, up, stuck, late, acquired, result, knocks>>

\* postMortem, then stop and remove
Condemn == pc = "condemn" /\ BootFails

ReleaseOnContext ==
  /\ pc = "release"
  /\ Remove(~cancelled)
  /\ pc' = "done"
  /\ UNCHANGED <<cancelled, stuck, late, acquired, result, knocks>>

\* The deferred release, on a context detached from the job's
Release ==
  /\ pc = "release"
  /\ Remove(TRUE)
  /\ pc' = "done"
  /\ UNCHANGED <<cancelled, stuck, late, acquired, result, knocks>>

BootStep ==
  \/ Create
  \/ Start
  \/ Inspect
  \/ Probe
  \/ Alive
  \/ Pause
  \/ Condemn
  \/ Release

(***************************************************************************)
(* The world: the job's context, the clock and the container's process.    *)
(***************************************************************************)
Cancel ==
  /\ "cancel" \in Troubles
  /\ pc # "done" /\ ~cancelled
  /\ cancelled' = TRUE
  /\ UNCHANGED <<pc, box, up, stuck, late, acquired, result, knocks>>

Elapse ==
  /\ pc \in {"probe", "alive", "pause", "poll", "get", "backoff"}
  /\ ~late
  /\ late' = TRUE
  /\ UNCHANGED <<pc, cancelled, box, up, stuck, acquired, result, knocks>>

ServiceListens ==
  /\ box = "running" /\ ~up
  /\ up' = TRUE
  /\ UNCHANGED <<pc, cancelled, box, stuck, late, acquired, result, knocks>>

ContainerExits ==
  /\ "exit" \in Troubles
  /\ box = "running"
  /\ box' = "exited"
  /\ up' = FALSE
  /\ UNCHANGED <<pc, cancelled, stuck, late, acquired, result, knocks>>

ServiceHangs ==
  /\ "hang" \in Troubles
  /\ up /\ ~stuck
  /\ stuck' = TRUE
  /\ UNCHANGED <<pc, cancelled, box, up, late, acquired, result, knocks>>

World == Cancel \/ Elapse \/ ServiceListens \/ ContainerExits \/ ServiceHangs

===============================================================================
