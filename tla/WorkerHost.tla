------------------------------ MODULE WorkerHost ------------------------------
(***************************************************************************)
(* One host and the worker processes that start, work and end on it: main  *)
(* and runMain, from the configuration to the exit code.  The processes    *)
(* share the Docker daemon (Reaper) and the staging directory (Staging).   *)
(* Exit code 3 is not reached: Worker.Run returns only when its context    *)
(* ended, with that context's error.                                       *)
(***************************************************************************)
EXTENDS Staging

VARIABLE code  \* code[p]: the exit code main passes to os.Exit

vars == <<phase, signal, key, box, live, todo, owed, peers, run, dir, stray, code>>

NoCode == 9

TypeOK ==
  /\ HostTypeOK
  /\ StagingTypeOK
  /\ code \in [Procs -> {0, 1, 2, NoCode}]

Init ==
  /\ HostInit
  /\ StagingInit
  /\ code = [p \in Procs |-> NoCode]

Exits(p, n) == Enter(p, "exited") /\ code' = [code EXCEPT ![p] = n]

-------------------------------------------------------------------------------
(***************************************************************************)
(* Boot.                                                                   *)
(***************************************************************************)
Start(p) ==
  /\ phase[p] = "off"
  /\ Enter(p, "load")
  /\ UNCHANGED <<signal, key, box, sweepVars, stagingVars, code>>

\* config.Load, ParseURL and the ping of phase 0.
Load(p) ==
  /\ phase[p] = "load"
  /\ \/ ~signal[p] /\ Enter(p, "wire") /\ UNCHANGED code
     \/ (MayFail(p, "redis") \/ "config" \in Faults) /\ Exits(p, 1)
  /\ UNCHANGED <<signal, key, box, sweepVars, stagingVars>>

\* buildRegistry and buildDockerRegistry need no context; pools are made
\* empty, so no container exists before the first job.
Wire(p) ==
  /\ phase[p] = "wire"
  /\ \/ /\ Enter(p, "scan")
        /\ peers' = [peers EXCEPT ![p] = {q \in key : phase[q] = "up"}]
        /\ UNCHANGED code
     \/ "config" \in Faults /\ Exits(p, 1) /\ UNCHANGED peers
  /\ UNCHANGED <<signal, key, box, live, todo, owed, stagingVars>>

\* Startup.Run: phases 1 to 3 only warn; phase 4 writes the heartbeat key,
\* and a write that is reported as failed may have been done.
Register(p) ==
  /\ phase[p] = "register"
  /\ \/ ~signal[p] /\ key' = key \cup {p} /\ Enter(p, "up") /\ UNCHANGED code
     \/ /\ MayFail(p, "redis")
        /\ key' \in {key, key \cup {p}}
        /\ Exits(p, 1)
  /\ owed' = [owed EXCEPT ![p] = {}]
  /\ UNCHANGED <<signal, box, live, todo, peers, stagingVars>>

-------------------------------------------------------------------------------
(***************************************************************************)
(* Shutdown.                                                               *)
(***************************************************************************)
Signal(p) ==
  /\ phase[p] \notin Ends \cup {"off"}
  /\ ~signal[p]
  /\ signal' = [signal EXCEPT ![p] = TRUE]
  /\ UNCHANGED <<phase, key, box, sweepVars, stagingVars, code>>

DrainBegins(p) ==
  /\ phase[p] = "up" /\ signal[p]
  /\ Enter(p, "drain")
  /\ UNCHANGED <<signal, key, box, sweepVars, stagingVars, code>>

DrainNoWait(p) ==
  /\ phase[p] = "drain"
  /\ Enter(p, "join")
  /\ code' = [code EXCEPT ![p] = 0]
  /\ UNCHANGED <<signal, key, box, sweepVars, stagingVars>>

\* Worker.Run waits for its goroutines.
DrainEnds(p) ==
  /\ phase[p] = "drain"
  /\ ~Busy(p)
  /\ Enter(p, "join")
  /\ code' = [code EXCEPT ![p] = 0]
  /\ UNCHANGED <<signal, key, box, sweepVars, stagingVars>>

GraceForDrained(p) ==
  /\ phase[p] = "drain"
  /\ ~Busy(p)
  /\ Enter(p, "join")
  /\ code' = [code EXCEPT ![p] = 2]
  /\ UNCHANGED <<signal, key, box, sweepVars, stagingVars>>

\* DrainGraceSeconds pass first.
GraceEnds(p) ==
  /\ phase[p] = "drain"
  /\ Busy(p)
  /\ Enter(p, "join")
  /\ code' = [code EXCEPT ![p] = 2]
  /\ UNCHANGED <<signal, key, box, sweepVars, stagingVars>>

\* The bounded waits for the heartbeat and the reclaim loop; then the pools
\* close and give up their idle containers.
Join(p) ==
  /\ phase[p] = "join"
  /\ Enter(p, "pools")
  /\ todo' = [todo EXCEPT ![p] = {c \in BoxesOf(p) : box[c].state = "idle"}]
  /\ UNCHANGED <<signal, key, box, live, owed, peers, stagingVars, code>>

\* Container.Stop, first half; a failed ContainerStop is only logged.
PoolStop(p) ==
  /\ phase[p] = "pools"
  /\ \E c \in todo[p] :
       /\ box[c] = [owner |-> p, state |-> "idle"]
       /\ box' = [box EXCEPT ![c].state = "stopped"]
  /\ UNCHANGED <<phase, signal, key, sweepVars, stagingVars, code>>

\* Second half, on a context of its own; an error is only logged.
PoolRemove(p) ==
  /\ phase[p] = "pools"
  /\ \E c \in todo[p] :
       /\ box[c].owner = p => box[c].state = "stopped" \/ "docker" \in Faults
       /\ \/ box' = [box EXCEPT ![c] = IF @.owner = p THEN NoBox ELSE @]
          \/ "docker" \in Faults /\ UNCHANGED box
       /\ todo' = [todo EXCEPT ![p] = @ \ {c}]
  /\ UNCHANGED <<phase, signal, key, live, owed, peers, stagingVars, code>>

\* A process that is gone takes its runs with it, and no deferred call runs.
Gone(p) ==
  /\ Becomes(p, Idle)
  /\ stray' = stray \cup {s \in Scans : dir[s].by = p}
  /\ todo' = [todo EXCEPT ![p] = {}]
  /\ live' = [live EXCEPT ![p] = {}]
  /\ owed' = [owed EXCEPT ![p] = {}]
  /\ peers' = [peers EXCEPT ![p] = {}]
  /\ UNCHANGED <<signal, key, box, dir>>

Exit(p) ==
  /\ phase[p] = "pools"
  /\ todo[p] = {}
  /\ Enter(p, "exited")
  /\ Gone(p)
  /\ UNCHANGED code

Kill(p) ==
  /\ "kill" \in Faults
  /\ phase[p] \notin Ends \cup {"off"}
  /\ Enter(p, "killed")
  /\ Gone(p)
  /\ UNCHANGED code

\* What the main goroutine does.
MainStep(p) ==
  \/ Load(p)
  \/ Wire(p)
  \/ SweepStep(p) /\ UNCHANGED <<stagingVars, code>>
  \/ Register(p)
  \/ DrainBegins(p)
  \/ DrainEnds(p)
  \/ GraceEnds(p)
  \/ Join(p)
  \/ PoolStop(p)
  \/ PoolRemove(p)
  \/ Exit(p)

Next ==
  \E p \in Procs :
    \/ Start(p)
    \/ MainStep(p)
    \/ Signal(p)
    \/ Kill(p)
    \/ Expire(p) /\ UNCHANGED <<stagingVars, code>>
    \/ Refresh(p) /\ UNCHANGED <<stagingVars, code>>
    \/ \E s \in Scans : Begin(p, s) /\ UNCHANGED code
    \/ SourceStep(p) /\ UNCHANGED code

Spec == Init /\ [][Next]_vars

\* The main goroutine of a live process is scheduled and its timers fire.
\* Nothing is assumed of a scan: it may never end.
Fairness == \A p \in Procs : WF_vars(MainStep(p))

FairSpec == Spec /\ Fairness

-------------------------------------------------------------------------------
(***************************************************************************)
(* Properties.                                                             *)
(***************************************************************************)

\* A container of a worker that is up disappears by a step of another process.
Vanishes(c, q) ==
  /\ phase[q] = "up" /\ box[c].owner = q
  /\ box'[c].owner # q
  /\ run'[q] = run[q]

\* A worker that was up when a peer's startup sweep began, and whose key did
\* not lapse before that sweep read the keys, keeps its containers, whatever
\* its key does afterwards (ReapOrphans, liveWorkerIDs).
PeersSafe ==
  [][\A c \in Containers, q \in Procs :
       Vanishes(c, q) => \E p \in Procs : phase[p] = "reap" /\ q \notin peers[p]]_vars

\* No sweep touches a container of a live peer, whenever the peer started:
\* "a live peer's containers are never touched" (reap_wiring.go).
LivePeerUntouched ==
  [][\A c \in Containers, q \in Procs : ~Vanishes(c, q)]_vars

\* A sweep that met no error left no container, running or stopped, of a
\* process that was dead and without a key when it read the keys.
SweepThorough ==
  \A p \in Procs : phase[p] = "register" =>
    \A c \in Containers : box[c].owner \notin owed[p]

\* A scan reads the whole tree of its own clone, whatever other runs of the
\* same scan id do meanwhile on this host: none of them removes or fills it.
SeesOwnTree ==
  \A p \in Procs : run[p].pc \in {"acquire", "scan", "clean"} =>
    dir[run[p].scan] = [by |-> p, state |-> "full"]

\* A tree on the staging disk is in use by a run of a live process, or was
\* left by a clone or a process that was killed or by a removal that failed: no
\* return path of Run after the clone, cancelled or failed, leaves another.
NoTreeForgotten ==
  \A s \in Scans : dir[s] # Empty =>
    s \in stray \/ \E p \in Procs : Busy(p) /\ run[p].scan = s /\ dir[s].by = p

\* Exit code 0 means every job was finished: no container at work is left.
\* Exit code 1 means the process did nothing: no container, no tree.
ExitHonest ==
  \A p \in Procs : phase[p] = "exited" =>
    /\ code[p] = 0 => \A c \in BoxesOf(p) : box[c].state # "busy"
    /\ code[p] = 1 => BoxesOf(p) = {} /\ \A s \in Scans : dir[s].by # p
    /\ code[p] # NoCode

\* A process that got its signal ends, whatever its jobs do: the grace period
\* bounds the drain and every later wait is bounded (runMain).
ShutdownEnds == \A p \in Procs : signal[p] ~> phase[p] \in Ends

===============================================================================
