-------------------------------- MODULE Staging --------------------------------
(***************************************************************************)
(* FsSourceRunner.Run: clone the scan's repository into a directory named  *)
(* after the scan, scan it in a container of the pool, remove it.  The     *)
(* directory outlives the process, is shared by all processes of the host, *)
(* and the deferred Cleanup is set up only after the clone succeeded.      *)
(***************************************************************************)
EXTENDS Reaper

CONSTANT Scans

VARIABLES
  run,   \* run[p]: the source run of p; its scan, its step and its container
  dir,   \* dir[s]: the staging directory: who fills it, and how far
  stray  \* observation: scans whose tree was left by a kill or a failed removal

stagingVars == <<run, dir, stray>>

Idle == [pc |-> "none"]
RunsOf == {Idle} \cup [pc : {"clone", "fetch", "acquire", "clean"}, scan : Scans]
          \cup [pc : {"scan"}, scan : Scans, box : Containers]
Empty == [by |-> "none", state |-> "none"]
Dirs == {Empty} \cup [by : Procs, state : {"partial", "full"}]

StagingTypeOK ==
  /\ run \in [Procs -> RunsOf]
  /\ dir \in [Scans -> Dirs]
  /\ stray \subseteq Scans

StagingInit ==
  /\ run = [p \in Procs |-> Idle]
  /\ dir = [s \in Scans |-> Empty]
  /\ stray = {}

\* Its goroutines run until the process is gone, drained or not.
Alive(p) == phase[p] \in {"up"} \cup Stops
Busy(p) == run[p] # Idle

RunAt(p, pcs) == Alive(p) /\ run[p].pc = pcs

Becomes(p, r) == run' = [run EXCEPT ![p] = r]

\* A call of the run on the job's context.
CallFails(p, fault) == MayFail(p, fault) \/ "cancel" \in Faults

\* A delivery of the trivy-fs engine: URL and scan id checked, MkdirAll done.
Begin(p, s) ==
  /\ phase[p] = "up" /\ ~signal[p] /\ ~Busy(p)
  /\ Becomes(p, [pc |-> "clone", scan |-> s])
  /\ UNCHANGED <<hostVars, dir, stray>>

CloneRefusedCleans(p) ==
  /\ RunAt(p, "clone")
  /\ dir[run[p].scan] # Empty \/ CallFails(p, "git")
  /\ Becomes(p, Idle)
  /\ dir' = [dir EXCEPT ![run[p].scan] = Empty]
  /\ stray' = stray \ {run[p].scan}
  /\ UNCHANGED hostVars

\* git refuses a directory that is not empty, or does not start at all, as
\* on a context that is done: the run fails and leaves the directory.
CloneRefused(p) ==
  /\ RunAt(p, "clone")
  /\ dir[run[p].scan] # Empty \/ CallFails(p, "git")
  /\ Becomes(p, Idle)
  /\ UNCHANGED <<hostVars, dir, stray>>

CloneStarts(p) ==
  /\ RunAt(p, "clone") /\ ~signal[p]
  /\ dir[run[p].scan] = Empty
  /\ Becomes(p, [run[p] EXCEPT !.pc = "fetch"])
  /\ dir' = [dir EXCEPT ![run[p].scan] = [by |-> p, state |-> "partial"]]
  /\ UNCHANGED <<hostVars, stray>>

Cloned(p) ==
  /\ RunAt(p, "fetch") /\ ~signal[p]
  /\ Becomes(p, [run[p] EXCEPT !.pc = "acquire"])
  /\ dir' = [dir EXCEPT ![run[p].scan].state = "full"]
  /\ UNCHANGED <<hostVars, stray>>

\* git fails and takes its files away again; git killed by the end of the
\* context does not, and no Cleanup is deferred yet.
CloneFails(p) ==
  /\ RunAt(p, "fetch")
  /\ \/ /\ "git" \in Faults
        /\ dir' = [dir EXCEPT ![run[p].scan] = Empty]
        /\ UNCHANGED stray
     \/ /\ signal[p] \/ "cancel" \in Faults
        /\ stray' = stray \cup {run[p].scan}
        /\ UNCHANGED dir
  /\ Becomes(p, Idle)
  /\ UNCHANGED hostVars

\* The inner DockerRunner: an idle container of this process or a new one.
Acquire(p) ==
  /\ RunAt(p, "acquire")
  /\ \/ /\ ~signal[p]
        /\ \E c \in Containers :
             /\ box[c] = [owner |-> p, state |-> "idle"] \/ box[c] = NoBox
             /\ box' = [box EXCEPT ![c] = [owner |-> p, state |-> "busy"]]
             /\ Becomes(p, [pc |-> "scan", scan |-> run[p].scan, box |-> c])
     \/ /\ CallFails(p, "docker")
        /\ Becomes(p, [run[p] EXCEPT !.pc = "clean"])
        /\ UNCHANGED box
  /\ UNCHANGED <<phase, signal, key, sweepVars, dir, stray>>

\* The scan ends and the container goes back to the pool; a pool that is
\* shut down, or cannot clean it, stops and removes it instead, and a removal
\* that fails leaves it outside the pool.
ScanEnds(p) ==
  /\ RunAt(p, "scan")
  /\ LET c == run[p].box IN
       \/ box[c].owner # p /\ UNCHANGED box
       \/ /\ box[c].owner = p
          /\ \/ phase[p] # "pools" /\ box' = [box EXCEPT ![c].state = "idle"]
             \/ /\ phase[p] = "pools" \/ "docker" \in Faults
                /\ box' = [box EXCEPT ![c] = NoBox]
             \/ /\ "docker" \in Faults
                /\ box' = [box EXCEPT ![c].state = "stopped"]
  /\ Becomes(p, [pc |-> "clean", scan |-> run[p].scan])
  /\ UNCHANGED <<phase, signal, key, sweepVars, dir, stray>>

CleanUpOnContext(p) ==
  /\ RunAt(p, "clean")
  /\ dir' = IF signal[p] THEN dir ELSE [dir EXCEPT ![run[p].scan] = Empty]
  /\ Becomes(p, Idle)
  /\ UNCHANGED <<hostVars, stray>>

\* The deferred Cleanup needs no context; a RemoveAll that fails is only
\* logged, and leaves the tree or a part of it.
CleanUp(p) ==
  /\ RunAt(p, "clean")
  /\ \/ /\ dir' = [dir EXCEPT ![run[p].scan] = Empty]
        /\ UNCHANGED stray
     \/ /\ "disk" \in Faults
        /\ \E left \in {"partial", "full"} : dir' = [dir EXCEPT ![run[p].scan].state = left]
        /\ stray' = stray \cup {run[p].scan}
  /\ Becomes(p, Idle)
  /\ UNCHANGED hostVars

SourceStep(p) ==
  \/ CloneRefused(p)
  \/ CloneStarts(p)
  \/ Cloned(p)
  \/ CloneFails(p)
  \/ Acquire(p)
  \/ ScanEnds(p)
  \/ CleanUp(p)

===============================================================================
