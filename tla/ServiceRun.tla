------------------------------ MODULE ServiceRun ------------------------------
(***************************************************************************)
(* DockerServiceRunner.Run for both of its tools: the container's boot,    *)
(* the tool's scan and the release, against a daemon, a service, a clock   *)
(* and a job context that change between any two of its steps.             *)
(***************************************************************************)
EXTENDS ZapScan, MobsfScan

vars == <<job, containerVars, clientVars, zapVars, mobsfVars>>

ScanPCs ==
  {"validate", "auth", "spider", "ascan", "poll", "get", "backoff", "stop", "alerts",
   "fetch", "stage", "upload", "analyse", "report", "delete", "unstage"}

\* Waiting for an answer of the service, with nothing but the context to
\* end the wait.
Requests ==
  {"auth", "spider", "ascan", "get", "stop", "alerts", "upload", "analyse",
   "report", "delete"}

TypeOK ==
  /\ pc \in BootPCs \cup ScanPCs \cup {"release", "done"}
  /\ box \in Boxes
  /\ {cancelled, up, stuck, late, acquired, staged, stalled} \subseteq BOOLEAN
  /\ result \in {"none", "error", "findings"}
  /\ knocks \in Nat
  /\ polling \in {"none", "spider", "drain", "ascan"}
  /\ attempts \in 0..MaxAttempts
  /\ job \in ZapJobs \cup MobsfJobs
  /\ authed \in 0..MaxAuthCalls
  /\ [spider |-> spider, records |-> records, ascan |-> ascan] \in ZapState
  /\ seen \in ZapState
  /\ app \in AppStates

Init ==
  /\ ContainerInit
  /\ ClientInit
  /\ ZapInit
  /\ MobsfInit
  /\ job \in ZapJobs \cup MobsfJobs

\* DockerServiceRunner.Run: acquire, BuildScan, the deferred calls.  The
\* target is checked by BuildScan, when the container already runs.
RunStep ==
  \/ BootStep /\ UNCHANGED <<job, clientVars, zapVars, mobsfVars>>
  \/ ZapStep /\ UNCHANGED <<job, mobsfVars>>
  \/ MobsfStep /\ UNCHANGED <<job, zapVars>>

Next ==
  \/ RunStep
  \/ World /\ UNCHANGED <<job, clientVars, zapVars, mobsfVars>>
  \/ ZapDaemon /\ UNCHANGED <<job, containerVars, clientVars, mobsfVars>>
  \/ StoreStalls /\ UNCHANGED <<job, containerVars, clientVars, zapVars>>

Spec == Init /\ [][Next]_vars

-------------------------------------------------------------------------------
(***************************************************************************)
(* Safety.                                                                 *)
(***************************************************************************)

\* A container the factory handed over is removed by the time Run returns,
\* and so is the downloaded app, whenever and wherever the context ended, a
\* request failed or the process died; only a refusing daemon keeps it.  A
\* factory that fails removes what it made, if the context has not ended.
NothingLeftBehind ==
  pc = "done" => /\ acquired => box \in {"gone", "kept"}
                 /\ ~acquired /\ ~cancelled => box \in {"none", "gone", "kept"}
                 /\ ~staged

\* Findings are reported only for a whole scan: the spider had finished, the
\* passive queue was empty (quick) or the active scan had finished (full)
\* when the alerts were read, whatever the polls met on the way.  (Of the
\* alerts themselves ZAP is asked for the first 5000.)
FindingsComplete ==
  result = "findings" =>
    \/ /\ job.tool = "zap"
       /\ seen.spider = "done"
       /\ ScanModeFor(job.depth) = "quick" => seen.records = 0
       /\ ScanModeFor(job.depth) = "full" => seen.ascan = "done"
    \/ job.tool = "mobsf" /\ app \in {"analysed", "deleted"}

\* The readiness wait does not go on knocking at a container that is known to
\* have died: one probe after the death, unless the daemon could not say.
DeathNoticed == knocks <= 1

-------------------------------------------------------------------------------
(***************************************************************************)
(* Liveness.  The goroutine is scheduled, Docker calls return and time     *)
(* passes; nothing is assumed of the service, the daemon's scans, the      *)
(* object store or users.                                                  *)
(***************************************************************************)
Fairness ==
  /\ WF_vars(RunStep)
  /\ WF_vars(Elapse /\ UNCHANGED <<job, clientVars, zapVars, mobsfVars>>)

FairSpec == Spec /\ Fairness

\* Run returns, with a service that dies, refuses or never gets ready, and
\* with scans that never finish.  The calls that have no timeout are the two
\* exceptions: a request the service leaves unanswered and a download the
\* store leaves unfinished last as long as nobody cancels the job.
RunEnds ==
  \/ <>(pc = "done")
  \/ <>[](stuck /\ ~cancelled /\ pc \in Requests)
  \/ <>[](stalled /\ ~cancelled /\ pc \in {"fetch", "stage"})

===============================================================================
