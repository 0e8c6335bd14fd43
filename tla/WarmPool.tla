------------------------------- MODULE WarmPool -------------------------------
(***************************************************************************)
(* The warm pool of Docker containers (WarmPool) and the tool runs that    *)
(* use it (DockerRunner.Run): Checkout, the health check and replacement,  *)
(* the exec, Return with its cleanup, and Shutdown.                        *)
(*                                                                         *)
(* Steps are cut where the code gives up the pool's mutex, receives from   *)
(* the available channel, or waits for the Docker daemon.  The channel is  *)
(* a sequence; a send that Go would hand straight to a blocked receiver is *)
(* queued here and may be taken by any receiver.  What a tool prints and   *)
(* how it is parsed plays no part: a container is returned regardless.     *)
(*                                                                         *)
(* Troubles names what may go wrong:                                       *)
(*   create  the image cannot be pulled or the container not created       *)
(*   start   a created container does not start                            *)
(*   sick    a health check fails                                          *)
(*   dirty   a cleanup fails                                               *)
(*   remove  the daemon refuses to remove a container                      *)
(*   hang    a tool never closes its output                                *)
(*   cancel  a run's context ends: its timeout, a user cancel, a shutdown  *)
(***************************************************************************)
EXTENDS Naturals, Sequences, FiniteSets, SequencesExt

CONSTANTS
  Runs,         \* calls of DockerRunner.Run
  Containers,   \* ids the daemon hands out, each once
  NoContainer,
  MaxSize,      \* Config.MaxSize
  Troubles

ASSUME PoolAssumption ==
  /\ IsFiniteSet(Runs)
  /\ NoContainer \notin Containers
  /\ MaxSize \in Nat \ {0}
  /\ Troubles \subseteq {"create", "start", "sick", "dirty", "remove", "hang", "cancel"}

VARIABLES
  size,       \* containers created or being created, in use or not
  closed,     \* Shutdown has begun
  available,  \* the channel of warm containers
  call,       \* call[r]: where run r is, and the container it holds
  cancelled,  \* the runs whose context is done
  alive,      \* containers that exist in the daemon
  made,       \* ids the daemon has given out
  doomed,     \* containers Shutdown has drained and not stopped yet
  soiled,     \* containers a tool has used since their last cleanup
  leaked      \* observation: containers whose removal did not happen

vars == <<size, closed, available, call, cancelled, alive, made, doomed, soiled, leaked>>

PCs == {"checkout", "fast", "grow", "wait", "health", "spin", "boot", "unspin",
        "exec", "stuck", "return", "clean", "put", "discard", "done"}

TypeOK ==
  /\ size \in Nat
  /\ closed \in BOOLEAN
  /\ available \in Seq(Containers)
  /\ call \in [Runs -> [pc : PCs, c : Containers \cup {NoContainer}]]
  /\ cancelled \subseteq Runs
  /\ alive \subseteq made
  /\ made \subseteq Containers
  /\ doomed \subseteq Containers
  /\ soiled \subseteq Containers
  /\ leaked \subseteq Containers

Init ==
  /\ size = 0
  /\ closed = FALSE
  /\ available = <<>>
  /\ call = [r \in Runs |-> [pc |-> "checkout", c |-> NoContainer]]
  /\ cancelled = {}
  /\ alive = {}
  /\ made = {}
  /\ doomed = {}
  /\ soiled = {}
  /\ leaked = {}

Go(r, pc) == call' = [call EXCEPT ![r].pc = pc]
Hold(r, pc, c) == call' = [call EXCEPT ![r] = [pc |-> pc, c |-> c]]
Drop(r, pc) == Hold(r, pc, NoContainer)

\* Container.Stop: whatever ContainerStop says, the container is gone if
\* ContainerRemove succeeds; on a finished context neither call is made.
Stop(c, ctxLive) ==
  \/ ctxLive /\ alive' = alive \ {c} /\ UNCHANGED leaked
  \/ /\ ~ctxLive \/ "remove" \in Troubles
     /\ leaked' = leaked \cup {c}
     /\ UNCHANGED alive

(***************************************************************************)
(* Checkout.                                                               *)
(***************************************************************************)
\* checkClosed, before anything else
Checkout(r) ==
  /\ call[r].pc = "checkout"
  /\ Go(r, IF closed THEN "done" ELSE "fast")
  /\ UNCHANGED <<size, closed, available, cancelled, alive, made, doomed, soiled, leaked>>

TakeWarm(r) ==
  /\ available # <<>>
  /\ Hold(r, "health", Head(available))
  /\ available' = Tail(available)
  /\ UNCHANGED <<size, closed, cancelled, alive, made, doomed, soiled, leaked>>

\* Fast path: a warm container, if the channel has one.
Fast(r) ==
  /\ call[r].pc = "fast"
  /\ \/ TakeWarm(r)
     \/ /\ available = <<>>
        /\ Go(r, "grow")
        /\ UNCHANGED <<size, closed, available, cancelled, alive, made, doomed, soiled, leaked>>

GrowUnchecked(r) ==
  /\ call[r].pc = "grow"
  /\ \/ closed /\ Go(r, "done") /\ UNCHANGED size
     \/ ~closed /\ Go(r, "spin") /\ size' = size + 1
  /\ UNCHANGED <<closed, available, cancelled, alive, made, doomed, soiled, leaked>>

\* Under the lock: reserve a place for a new container, or wait for one.
Grow(r) ==
  /\ call[r].pc = "grow"
  /\ \/ closed /\ Go(r, "done") /\ UNCHANGED size
     \/ ~closed /\ size < MaxSize /\ Go(r, "spin") /\ size' = size + 1
     \/ ~closed /\ size >= MaxSize /\ Go(r, "wait") /\ UNCHANGED size
  /\ UNCHANGED <<closed, available, cancelled, alive, made, doomed, soiled, leaked>>

WaitIgnoresContext(r) ==
  /\ call[r].pc = "wait"
  /\ \/ TakeWarm(r)
     \/ /\ closed
        /\ Go(r, "done")
        /\ UNCHANGED <<size, closed, available, cancelled, alive, made, doomed, soiled, leaked>>

\* The blocking select: a container, the pool's done channel, or the context.
Wait(r) ==
  /\ call[r].pc = "wait"
  /\ \/ TakeWarm(r)
     \/ /\ closed \/ r \in cancelled
        /\ Go(r, "done")
        /\ UNCHANGED <<size, closed, available, cancelled, alive, made, doomed, soiled, leaked>>

\* healthCheckOrReplace: an unhealthy container is stopped on the run's own
\* context and replaced in its place.
HealthCheckOrReplace(r) ==
  /\ call[r].pc = "health"
  /\ \/ Go(r, "exec") /\ UNCHANGED <<alive, leaked>>
     \/ /\ "sick" \in Troubles
        /\ Stop(call[r].c, r \notin cancelled)
        /\ Drop(r, "spin")
  /\ UNCHANGED <<size, closed, available, cancelled, made, doomed, soiled>>

(***************************************************************************)
(* spinUp and newContainer: pull and create, then start.                   *)
(***************************************************************************)
Create(r) ==
  /\ call[r].pc = "spin"
  /\ \/ /\ r \notin cancelled
        /\ \E c \in Containers \ made :
             /\ made' = made \cup {c}
             /\ alive' = alive \cup {c}
             /\ Hold(r, "boot", c)
     \/ /\ r \in cancelled \/ "create" \in Troubles
        /\ Go(r, "unspin")
        /\ UNCHANGED <<made, alive>>
  /\ UNCHANGED <<size, closed, available, cancelled, doomed, soiled, leaked>>

BootLeaves(r) ==
  /\ call[r].pc = "boot"
  /\ \/ r \notin cancelled /\ Go(r, "exec")
     \/ (r \in cancelled \/ "start" \in Troubles) /\ Drop(r, "unspin")
  /\ UNCHANGED <<size, closed, available, cancelled, alive, made, doomed, soiled, leaked>>

\* A container that does not start is removed on the same context.
Boot(r) ==
  /\ call[r].pc = "boot"
  /\ \/ r \notin cancelled /\ Go(r, "exec") /\ UNCHANGED <<alive, leaked>>
     \/ /\ r \in cancelled \/ "start" \in Troubles
        /\ Stop(call[r].c, r \notin cancelled)
        /\ Drop(r, "unspin")
  /\ UNCHANGED <<size, closed, available, cancelled, made, doomed, soiled>>

\* The place of a container that is gone is given up, with no signal to the
\* runs that wait.
Unspin(r) ==
  /\ call[r].pc = "unspin"
  /\ size' = size - 1
  /\ Drop(r, "done")
  /\ UNCHANGED <<closed, available, cancelled, alive, made, doomed, soiled, leaked>>

(***************************************************************************)
(* The run itself and Return, on a context detached from the run's.        *)
(***************************************************************************)

\* The tool's output is read to its end from a hijacked connection that no
\* context closes: a run whose context ends still waits for its tool, and one
\* whose tool never closes its output is never heard of again.
Exec(r) ==
  /\ call[r].pc = "exec"
  /\ soiled' = soiled \cup {call[r].c}
  /\ \/ Go(r, "return")
     \/ "hang" \in Troubles /\ Go(r, "stuck")
  /\ UNCHANGED <<size, closed, available, cancelled, alive, made, doomed, leaked>>

Return(r) ==
  /\ call[r].pc = "return"
  /\ Go(r, IF closed THEN "discard" ELSE "clean")
  /\ UNCHANGED <<size, closed, available, cancelled, alive, made, doomed, soiled, leaked>>

CleanUpKeepsPlace(r) ==
  /\ call[r].pc = "clean"
  /\ \/ Go(r, "put") /\ soiled' = soiled \ {call[r].c} /\ UNCHANGED <<alive, leaked>>
     \/ /\ "dirty" \in Troubles
        /\ Stop(call[r].c, TRUE)
        /\ Drop(r, "done")
        /\ UNCHANGED soiled
  /\ UNCHANGED <<size, closed, available, cancelled, made, doomed>>

CleanUpSkipped(r) ==
  /\ call[r].pc = "clean"
  /\ Go(r, "put")
  /\ UNCHANGED <<size, closed, available, cancelled, alive, made, doomed, soiled, leaked>>

CleanUp(r) ==
  /\ call[r].pc = "clean"
  /\ \/ Go(r, "put") /\ soiled' = soiled \ {call[r].c} /\ UNCHANGED <<alive, leaked>>
     \/ /\ "dirty" \in Troubles
        /\ Stop(call[r].c, TRUE)
        /\ Drop(r, "unspin")
        /\ UNCHANGED soiled
  /\ UNCHANGED <<size, closed, available, cancelled, made, doomed>>

PutUnchecked(r) ==
  /\ call[r].pc = "put"
  /\ available' = Append(available, call[r].c)
  /\ Drop(r, "done")
  /\ UNCHANGED <<size, closed, cancelled, alive, made, doomed, soiled, leaked>>

\* Closed is checked again under the lock, which the send shares; the last
\* case is the channel being full, a "bug-shape" for the code.
Put(r) ==
  /\ call[r].pc = "put"
  /\ \/ /\ closed
        /\ Go(r, "discard")
        /\ UNCHANGED <<size, available>>
     \/ /\ ~closed
        /\ IF Len(available) < MaxSize
           THEN /\ available' = Append(available, call[r].c)
                /\ Drop(r, "done")
                /\ UNCHANGED size
           ELSE /\ size' = size - 1
                /\ Go(r, "discard")
                /\ UNCHANGED available
  /\ UNCHANGED <<closed, cancelled, alive, made, doomed, soiled, leaked>>

\* A run that finds the pool closed stops its container itself.
Discard(r) ==
  /\ call[r].pc = "discard"
  /\ Stop(call[r].c, TRUE)
  /\ Drop(r, "done")
  /\ UNCHANGED <<size, closed, available, cancelled, made, doomed, soiled>>

(***************************************************************************)
(* Shutdown, and the contexts of the runs.                                 *)
(***************************************************************************)
ShutdownPeeks ==
  /\ ~closed
  /\ closed' = TRUE
  /\ doomed' = ToSet(available)
  /\ UNCHANGED <<size, available, call, cancelled, alive, made, soiled, leaked>>

Shutdown ==
  /\ ~closed
  /\ closed' = TRUE
  /\ doomed' = ToSet(available)
  /\ available' = <<>>
  /\ UNCHANGED <<size, call, cancelled, alive, made, soiled, leaked>>

StopDrained(c) ==
  /\ c \in doomed
  /\ Stop(c, TRUE)
  /\ doomed' = doomed \ {c}
  /\ UNCHANGED <<size, closed, available, call, cancelled, made, soiled>>

Cancel(r) ==
  /\ "cancel" \in Troubles
  /\ call[r].pc # "done"
  /\ r \notin cancelled
  /\ cancelled' = cancelled \cup {r}
  /\ UNCHANGED <<size, closed, available, call, alive, made, doomed, soiled, leaked>>

RunStep(r) ==
  \/ Checkout(r)
  \/ Fast(r)
  \/ Grow(r)
  \/ Wait(r)
  \/ HealthCheckOrReplace(r)
  \/ Create(r)
  \/ Boot(r)
  \/ Unspin(r)
  \/ Exec(r)
  \/ Return(r)
  \/ CleanUp(r)
  \/ Put(r)
  \/ Discard(r)

Next ==
  \/ Shutdown
  \/ \E c \in Containers : StopDrained(c)
  \/ \E r \in Runs : RunStep(r) \/ Cancel(r)

Spec == Init /\ [][Next]_vars

-------------------------------------------------------------------------------
(***************************************************************************)
(* Safety.                                                                 *)
(***************************************************************************)

\* The runs between the reservation of a place and giving it back.
Placed == {"health", "spin", "boot", "unspin", "exec", "stuck", "return", "clean", "put"}
Holders == {r \in Runs : call[r].pc \in Placed}

\* While the pool is open its size is exactly the warm containers and those
\* of the runs that hold a place, through failed creations, replacements and
\* cleanups; after Shutdown it is never less.
Accounting ==
  /\ size >= Len(available) + Cardinality(Holders)
  /\ ~closed => size = Len(available) + Cardinality(Holders)

\* size stays within the pool's limits: Grow alone raises it, and no run
\* gives a place back twice.
SizeBounded == size \in 0..MaxSize

\* The case of Return that "should never happen under correct invariants":
\* a container comes back to an open pool and the channel is full.
ReturnFindsRoom ==
  \A r \in Runs : call[r].pc = "put" /\ ~closed => Len(available) < MaxSize

\* No container is in two hands: of two runs, of a run and the channel, twice
\* in the channel, or of Shutdown and anybody else.
SingleHolder ==
  /\ \A q, r \in Runs : call[q].c = call[r].c /\ call[q].c # NoContainer => q = r
  /\ \A r \in Runs : call[r].c \notin ToSet(available) \cup doomed
  /\ \A i, j \in 1..Len(available) : available[i] = available[j] => i = j
  /\ ToSet(available) \cap doomed = {}

\* Tenant isolation: a tool starts only in a container that was cleaned up
\* after the tool that used it before.
CleanHandover ==
  \A r \in Runs : call[r].pc \in {"health", "exec"} => call[r].c \notin soiled

\* Every container in the daemon is still somebody's to stop, or its removal
\* was tried and did not happen: no path forgets a container.
Tracked ==
  alive \subseteq ToSet(available) \cup doomed \cup {call[r].c : r \in Runs} \cup leaked

\* Every container has one owner: whatever Checkout, Return, a replacement, a
\* failed start and Shutdown do at the same time, none is shared and none is
\* forgotten.
OneOwner == SingleHolder /\ Tracked

-------------------------------------------------------------------------------
(***************************************************************************)
(* Liveness.  Goroutines are scheduled, the daemon answers its calls,      *)
(* every run's context has a timeout, and a tool that does not hang closes *)
(* its output some day, though nothing holds it to its run's timeout.      *)
(***************************************************************************)
Fairness ==
  /\ \A r \in Runs : WF_vars(RunStep(r)) /\ WF_vars(Cancel(r))
  /\ \A c \in Containers : WF_vars(StopDrained(c))

FairSpec == Spec /\ Fairness

\* The containers of the runs whose tool hangs.
Occupied == {call[r].c : r \in {q \in Runs : call[q].pc = "stuck"}}

\* Every run ends unless its own tool hangs: a run in need of a container ends
\* with its context even when hanging tools have taken every place.
RunsEnd == \A r \in Runs : <>(call[r].pc \in {"done", "stuck"})

\* After Shutdown no container outlives the runs that were using the pool,
\* except one whose removal did not happen or whose tool hangs.
ShutdownEmpties == closed ~> [](alive \subseteq leaked \cup Occupied)

===============================================================================
