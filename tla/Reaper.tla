-------------------------------- MODULE Reaper --------------------------------
(***************************************************************************)
(* The containers of one Docker host and the startup sweep that removes    *)
(* those of dead workers (reapOrphanContainers, ReapOrphans).  Every       *)
(* container carries the id of the process that made it; the sweep reads   *)
(* the heartbeat keys, then lists the containers, then removes them one by *)
(* one.                                                                    *)
(***************************************************************************)
EXTENDS FiniteSets, Naturals

CONSTANTS
  Procs,       \* worker processes; each run of the binary has an id of its own
  Containers,
  Faults       \* subset of HostFaults

\* What may go wrong: a wrong configuration, failing calls, a job cancelled
\* by its user, a process killed, a removal from the disk that fails.
HostFaults == {"config", "redis", "docker", "git", "disk", "cancel", "kill"}

\* "none" is the owner of what nobody owns.
ASSUME HostAssumption == Faults \subseteq HostFaults /\ "none" \notin Procs

VARIABLES
  phase,   \* phase[p]: how far the process has come
  signal,  \* signal[p]: its context was cancelled
  key,     \* the processes with a heartbeat key
  box,     \* box[c]: owner and state of a container
  live,    \* live[p]: the live set the sweep of p read
  todo,    \* todo[p]: the containers its sweep, or its shutdown, still has to look at
  owed,    \* owed[p]: observation: dead processes without a key when p read it
  peers    \* peers[p]: observation: processes up when p's sweep began, whose keys lasted

sweepVars == <<live, todo, owed, peers>>
hostVars == <<phase, signal, key, box, sweepVars>>

Boots == {"off", "load", "wire", "scan", "list", "reap", "register"}
Stops == {"drain", "join", "pools"}
Ends == {"exited", "killed"}
Phases == Boots \cup {"up"} \cup Stops \cup Ends

NoBox == [owner |-> "none", state |-> "none"]
Boxes == {NoBox} \cup [owner : Procs, state : {"idle", "busy", "stopped"}]
BoxesOf(p) == {c \in Containers : box[c].owner = p}

HostTypeOK ==
  /\ phase \in [Procs -> Phases]
  /\ signal \in [Procs -> BOOLEAN]
  /\ key \subseteq Procs
  /\ box \in [Containers -> Boxes]
  /\ live \in [Procs -> SUBSET Procs]
  /\ todo \in [Procs -> SUBSET Containers]
  /\ owed \in [Procs -> SUBSET Procs]
  /\ peers \in [Procs -> SUBSET Procs]

HostInit ==
  /\ phase = [p \in Procs |-> "off"]
  /\ signal = [p \in Procs |-> FALSE]
  /\ key = {}
  /\ box = [c \in Containers |-> NoBox]
  /\ live = [p \in Procs |-> {}]
  /\ todo = [p \in Procs |-> {}]
  /\ owed = [p \in Procs |-> {}]
  /\ peers = [p \in Procs |-> {}]

Enter(p, ph) == phase' = [phase EXCEPT ![p] = ph]

\* A call on p's context may fail when its service does, and fails when the
\* context is done.
MayFail(p, fault) == signal[p] \/ fault \in Faults

\* Whatever stops the sweep, the boot goes on.
SweepOver(p) ==
  /\ Enter(p, "register")
  /\ live' = [live EXCEPT ![p] = {}]
  /\ todo' = [todo EXCEPT ![p] = {}]
  /\ peers' = [peers EXCEPT ![p] = {}]

\* liveWorkerIDs: a SCAN over the heartbeat keys, and this worker.
ReadLive(p) ==
  /\ phase[p] = "scan"
  /\ \/ /\ ~signal[p]
        /\ Enter(p, "list")
        /\ live' = [live EXCEPT ![p] = key \cup {p}]
        /\ owed' = [owed EXCEPT ![p] = {q \in Procs \ key : phase[q] \in Ends}]
        /\ UNCHANGED <<todo, peers>>
     \/ MayFail(p, "redis") /\ SweepOver(p) /\ UNCHANGED owed
  /\ UNCHANGED <<signal, key, box>>

\* ContainerList with All: stopped containers are listed too.
ManagedRunning == {c \in Containers : box[c].state \in {"idle", "busy"}}

Managed == {c \in Containers : box[c].state # "none"}

ListContainers(p) ==
  /\ phase[p] = "list"
  /\ \/ /\ ~signal[p]
        /\ Enter(p, "reap")
        /\ todo' = [todo EXCEPT ![p] = Managed]
        /\ UNCHANGED <<live, owed, peers>>
     \/ /\ MayFail(p, "docker")
        /\ SweepOver(p)
        /\ owed' = [owed EXCEPT ![p] = {}]
  /\ UNCHANGED <<signal, key, box>>

SparesSelf(p, owner) == owner = p

\* Whose containers a sweep leaves alone.
Spares(p, owner) == owner \in live[p]

\* One container of the list: spared, already gone, removed, or not
\* removable; the sweep goes on.
Reap(p) ==
  /\ phase[p] = "reap"
  /\ \E c \in todo[p] :
       /\ todo' = [todo EXCEPT ![p] = @ \ {c}]
       /\ \/ /\ box[c] = NoBox \/ Spares(p, box[c].owner)
             /\ UNCHANGED <<box, owed>>
          \/ /\ ~(box[c] = NoBox \/ Spares(p, box[c].owner))
             /\ ~signal[p]
             /\ box' = [box EXCEPT ![c] = NoBox]
             /\ UNCHANGED owed
          \/ /\ ~(box[c] = NoBox \/ Spares(p, box[c].owner))
             /\ MayFail(p, "docker")
             /\ owed' = [owed EXCEPT ![p] = @ \ {box[c].owner}]
             /\ UNCHANGED box
  /\ UNCHANGED <<phase, signal, key, live, peers>>

SweepDone(p) ==
  /\ phase[p] = "reap"
  /\ todo[p] = {}
  /\ SweepOver(p)
  /\ UNCHANGED <<signal, key, box, owed>>

SweepStep(p) ==
  \/ ReadLive(p)
  \/ ListContainers(p)
  \/ Reap(p)
  \/ SweepDone(p)

\* A process that no longer refreshes its key loses it after 60 seconds: it
\* is gone or its context ended, or its refreshes fail one after the other.
Expire(p) ==
  /\ p \in key
  /\ phase[p] = "up" => signal[p] \/ "redis" \in Faults
  /\ key' = key \ {p}
  /\ peers' = [q \in Procs |-> IF phase[q] = "scan" THEN peers[q] \ {p} ELSE peers[q]]
  /\ UNCHANGED <<phase, signal, box, live, todo, owed>>

\* A later tick of the heartbeat writes the key again.
Refresh(p) ==
  /\ phase[p] = "up" /\ ~signal[p] /\ p \notin key
  /\ key' = key \cup {p}
  /\ UNCHANGED <<phase, signal, box, sweepVars>>

===============================================================================
