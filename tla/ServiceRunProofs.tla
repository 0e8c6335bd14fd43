--------------------------- MODULE ServiceRunProofs ---------------------------
(***************************************************************************)
(* DockerServiceRunner.Run: what is left behind, what findings mean and    *)
(* when a death is noticed, for every job, every set of troubles and every *)
(* number of attempts, cookies and records.                                *)
(***************************************************************************)
EXTENDS ServiceRun, TLAPS

USE TroublesAssumption, AttemptsAssumption, ZapAssumption

-------------------------------------------------------------------------------
(***************************************************************************)
(* The inductive invariant.                                                *)
(***************************************************************************)
ZapPCs == {"auth", "spider", "ascan", "poll", "get", "backoff", "stop", "alerts"}
MobsfPCs == {"fetch", "stage", "upload", "analyse", "report", "delete", "unstage"}

\* Each tool's steps are taken for its own jobs.
ToolKnown ==
  /\ pc \in ZapPCs => job.tool = "zap"
  /\ pc \in MobsfPCs => job.tool = "mobsf"

\* Attempts and requests within their bounds.
Counted ==
  /\ pc \in {"get", "backoff"} => attempts < MaxAttempts
  /\ authed <= job.auth

\* The factory has handed over exactly when the boot is over.
HandedOver ==
  /\ pc \in BootPCs => ~acquired
  /\ pc \in ScanPCs \cup {"release"} => acquired
  /\ pc = "create" => box = "none"

\* The temporary directory exists between the fetch and its cleanup.
StagedWithin == staged => pc \in {"stage", "upload", "analyse", "report", "delete", "unstage"}

\* A probe of a dead container is followed by the question whether it lives.
Knocked ==
  /\ knocks \in 0..1
  /\ pc \notin {"alive", "condemn", "done"} => knocks = 0
  /\ pc = "alive" /\ knocks = 1 => box = "exited"

\* What the daemon has done when the scan has come so far.
Finished(spiderState, recordsLeft, ascanState) ==
  /\ spiderState = "done"
  /\ ScanModeFor(job.depth) = "quick" => recordsLeft = 0
  /\ ScanModeFor(job.depth) = "full" => ascanState = "done"

Progressed ==
  /\ pc \in {"poll", "get", "backoff"} =>
       /\ polling \in {"spider", "drain", "ascan"}
       /\ polling # "spider" => spider = "done"
       /\ polling = "drain" => ScanModeFor(job.depth) = "quick"
       /\ polling = "ascan" => ScanModeFor(job.depth) = "full"
  /\ pc = "ascan" => spider = "done" /\ ScanModeFor(job.depth) = "full"
  /\ pc = "alerts" => Finished(spider, records, ascan)
  /\ pc \in {"report", "delete"} => app = "analysed"
  /\ result = "findings" => /\ FindingsComplete
                            /\ pc \in {"delete", "unstage", "release", "done"}

ServiceInv ==
  /\ TypeOK
  /\ ToolKnown
  /\ Counted
  /\ HandedOver
  /\ StagedWithin
  /\ NothingLeftBehind
  /\ Knocked
  /\ Progressed

LEMMA JobShape ==
  ASSUME TypeOK
  PROVE  /\ job.tool \in {"zap", "mobsf"} /\ job.auth \in 0..MaxAuthCalls
         /\ job.auth \in Nat /\ authed \in Nat /\ attempts \in Nat
         /\ ScanModeFor(job.depth) \in {"quick", "full"}
<1>1. job \in ZapJobs \cup MobsfJobs /\ authed \in 0..MaxAuthCalls /\ attempts \in 0..MaxAttempts
  BY DEF TypeOK
<1>2. job.tool \in {"zap", "mobsf"} /\ job.auth \in 0..MaxAuthCalls
  <2>1. CASE job \in ZapJobs
    BY <2>1 DEF ZapJobs
  <2>2. CASE job \in MobsfJobs
    <3>1. job.tool = "mobsf" /\ job.auth = 0
      BY <2>2 DEF MobsfJobs
    <3> QED BY <3>1
  <2> QED BY <1>1, <2>1, <2>2
<1>3. job.auth \in Nat /\ authed \in Nat /\ attempts \in Nat
  BY <1>1, <1>2
<1> QED BY <1>2, <1>3 DEF ScanModeFor

-------------------------------------------------------------------------------
(***************************************************************************)
(* The container's boot and release.                                       *)
(***************************************************************************)
LEMMA RemoveShape ==
  ASSUME TypeOK, NEW ctxLive \in BOOLEAN, Remove(ctxLive)
  PROVE  box' \in Boxes /\ up' \in BOOLEAN /\ (ctxLive => box' \in {"gone", "kept"})
BY DEF Remove, TypeOK, Boxes

LEMMA BootKeeps ==
  ASSUME ServiceInv, BootStep, UNCHANGED <<job, clientVars, zapVars, mobsfVars>>
  PROVE  ServiceInv'
<1> USE DEF clientVars, zapVars, mobsfVars, BootPCs, ScanPCs, ZapPCs, MobsfPCs
<1>0. /\ TypeOK /\ ToolKnown /\ Counted /\ HandedOver /\ StagedWithin /\ NothingLeftBehind
      /\ Knocked /\ Progressed
  BY DEF ServiceInv
<1>1. CASE Create
  <2>1. TypeOK'
    BY <1>0, <1>1 DEF Create, TypeOK, Boxes
  <2>2. ToolKnown' /\ Counted' /\ HandedOver' /\ StagedWithin' /\ NothingLeftBehind' /\ Knocked'
    BY <1>0, <1>1 DEF Create, ToolKnown, Counted, HandedOver, StagedWithin, NothingLeftBehind,
       Knocked
  <2>3. Progressed'
    BY <1>0, <1>1 DEF Create, Progressed, FindingsComplete, Finished
  <2> QED BY <2>1, <2>2, <2>3 DEF ServiceInv
<1>2. CASE BootFails /\ pc \in {"start", "inspect", "condemn"}
  <2>0. box' \in Boxes /\ up' \in BOOLEAN /\ (~cancelled => box' \in {"gone", "kept"})
    BY <1>0, <1>2, RemoveShape DEF BootFails, TypeOK
  <2>1. TypeOK'
    BY <1>0, <1>2, <2>0 DEF BootFails, TypeOK
  <2>2. ToolKnown' /\ Counted' /\ HandedOver' /\ StagedWithin' /\ NothingLeftBehind' /\ Knocked'
    BY <1>0, <1>2, <2>0
       DEF BootFails, ToolKnown, Counted, HandedOver, StagedWithin, NothingLeftBehind, Knocked
  <2>3. Progressed'
    BY <1>0, <1>2 DEF BootFails, Progressed, FindingsComplete, Finished
  <2> QED BY <2>1, <2>2, <2>3 DEF ServiceInv
<1>3. CASE Start
  <2>0. CASE ~BootFails
    <3>1. TypeOK'
      BY <1>0, <1>3, <2>0 DEF Start, TypeOK, Boxes
    <3>2. ToolKnown' /\ Counted' /\ HandedOver' /\ StagedWithin' /\ NothingLeftBehind' /\ Knocked'
      BY <1>0, <1>3, <2>0
         DEF Start, ToolKnown, Counted, HandedOver, StagedWithin, NothingLeftBehind, Knocked
    <3>3. Progressed'
      BY <1>0, <1>3, <2>0 DEF Start, Progressed, FindingsComplete, Finished
    <3> QED BY <3>1, <3>2, <3>3 DEF ServiceInv
  <2> QED BY <1>2, <1>3, <2>0 DEF Start
<1>4. CASE Inspect
  <2>0. CASE ~BootFails
    <3>1. TypeOK'
      BY <1>0, <1>4, <2>0 DEF Inspect, TypeOK, Boxes
    <3>2. ToolKnown' /\ Counted' /\ HandedOver' /\ StagedWithin' /\ NothingLeftBehind' /\ Knocked'
      BY <1>0, <1>4, <2>0
         DEF Inspect, ToolKnown, Counted, HandedOver, StagedWithin, NothingLeftBehind, Knocked
    <3>3. Progressed'
      BY <1>0, <1>4, <2>0 DEF Inspect, Progressed, FindingsComplete, Finished
    <3> QED BY <3>1, <3>2, <3>3 DEF ServiceInv
  <2> QED BY <1>2, <1>4, <2>0 DEF Inspect
<1>5. CASE Probe
  <2>1. TypeOK'
    <3>1. knocks' \in Nat
      BY <1>0, <1>5 DEF Probe, TypeOK
    <3>2. acquired' \in BOOLEAN /\ pc' \in {"condemn", "validate", "alive"}
      BY <1>0, <1>5 DEF Probe, TypeOK
    <3>3. UNCHANGED <<cancelled, box, up, stuck, late, result>>
      BY <1>5 DEF Probe
    <3> QED BY <1>0, <3>1, <3>2, <3>3 DEF TypeOK
  <2>2. ToolKnown' /\ Counted' /\ HandedOver' /\ StagedWithin' /\ NothingLeftBehind'
    BY <1>0, <1>5 DEF Probe, ToolKnown, Counted, HandedOver, StagedWithin, NothingLeftBehind
  <2>3. Knocked'
    BY <1>0, <1>5 DEF Probe, Knocked
  <2>4. Progressed'
    BY <1>0, <1>5 DEF Probe, Progressed, FindingsComplete, Finished
  <2> QED BY <2>1, <2>2, <2>3, <2>4 DEF ServiceInv
<1>6. CASE Alive
  <2>1. TypeOK'
    BY <1>0, <1>6 DEF Alive, TypeOK
  <2>2. ToolKnown' /\ Counted' /\ HandedOver' /\ StagedWithin' /\ NothingLeftBehind'
    BY <1>0, <1>6 DEF Alive, ToolKnown, Counted, HandedOver, StagedWithin, NothingLeftBehind
  <2>3. Knocked'
    BY <1>0, <1>6 DEF Alive, Knocked
  <2>4. Progressed'
    BY <1>0, <1>6 DEF Alive, Progressed, FindingsComplete, Finished
  <2> QED BY <2>1, <2>2, <2>3, <2>4 DEF ServiceInv
<1>7. CASE Pause
  <2>1. TypeOK'
    BY <1>0, <1>7 DEF Pause, TypeOK
  <2>2. ToolKnown' /\ Counted' /\ HandedOver' /\ StagedWithin' /\ NothingLeftBehind' /\ Knocked'
    BY <1>0, <1>7 DEF Pause, ToolKnown, Counted, HandedOver, StagedWithin, NothingLeftBehind,
       Knocked
  <2>3. Progressed'
    BY <1>0, <1>7 DEF Pause, Progressed, FindingsComplete, Finished
  <2> QED BY <2>1, <2>2, <2>3 DEF ServiceInv
<1>8. CASE Condemn
  BY <1>2, <1>8 DEF Condemn
<1>9. CASE Release
  <2>0. box' \in Boxes /\ up' \in BOOLEAN /\ box' \in {"gone", "kept"}
    BY <1>0, <1>9, RemoveShape DEF Release
  <2>1. TypeOK'
    BY <1>0, <1>9, <2>0 DEF Release, TypeOK
  <2>2. ToolKnown' /\ Counted' /\ HandedOver' /\ StagedWithin' /\ NothingLeftBehind' /\ Knocked'
    BY <1>0, <1>9, <2>0
       DEF Release, ToolKnown, Counted, HandedOver, StagedWithin, NothingLeftBehind, Knocked
  <2>3. Progressed'
    BY <1>0, <1>9 DEF Release, Progressed, FindingsComplete, Finished
  <2> QED BY <2>1, <2>2, <2>3 DEF ServiceInv
<1> QED BY <1>1, <1>3, <1>4, <1>5, <1>6, <1>7, <1>8, <1>9 DEF BootStep

-------------------------------------------------------------------------------
(***************************************************************************)
(* The world, the daemon and the scans.                                    *)
(***************************************************************************)
LEMMA WorldKeeps ==
  ASSUME ServiceInv, World, UNCHANGED <<job, clientVars, zapVars, mobsfVars>>
  PROVE  ServiceInv'
<1> USE DEF clientVars, zapVars, mobsfVars, BootPCs, ScanPCs, ZapPCs, MobsfPCs
<1>0. /\ TypeOK /\ ToolKnown /\ Counted /\ HandedOver /\ StagedWithin /\ NothingLeftBehind
      /\ Knocked /\ Progressed
  BY DEF ServiceInv
<1>1. CASE Cancel
  <2>1. TypeOK'
    BY <1>0, <1>1 DEF Cancel, TypeOK
  <2>2. ToolKnown' /\ Counted' /\ HandedOver' /\ StagedWithin' /\ NothingLeftBehind' /\ Knocked'
    BY <1>0, <1>1
       DEF Cancel, ToolKnown, Counted, HandedOver, StagedWithin, NothingLeftBehind, Knocked
  <2>3. Progressed'
    BY <1>0, <1>1 DEF Cancel, Progressed, FindingsComplete, Finished
  <2> QED BY <2>1, <2>2, <2>3 DEF ServiceInv
<1>2. CASE Elapse
  <2>1. TypeOK'
    BY <1>0, <1>2 DEF Elapse, TypeOK
  <2>2. ToolKnown' /\ Counted' /\ HandedOver' /\ StagedWithin' /\ NothingLeftBehind' /\ Knocked'
    BY <1>0, <1>2
       DEF Elapse, ToolKnown, Counted, HandedOver, StagedWithin, NothingLeftBehind, Knocked
  <2>3. Progressed'
    BY <1>0, <1>2 DEF Elapse, Progressed, FindingsComplete, Finished
  <2> QED BY <2>1, <2>2, <2>3 DEF ServiceInv
<1>3. CASE ServiceListens
  <2>1. TypeOK'
    BY <1>0, <1>3 DEF ServiceListens, TypeOK
  <2>2. ToolKnown' /\ Counted' /\ HandedOver' /\ StagedWithin' /\ NothingLeftBehind' /\ Knocked'
    BY <1>0, <1>3
       DEF ServiceListens, ToolKnown, Counted, HandedOver, StagedWithin, NothingLeftBehind, Knocked
  <2>3. Progressed'
    BY <1>0, <1>3 DEF ServiceListens, Progressed, FindingsComplete, Finished
  <2> QED BY <2>1, <2>2, <2>3 DEF ServiceInv
<1>4. CASE ContainerExits
  <2>1. TypeOK'
    BY <1>0, <1>4 DEF ContainerExits, Boxes, TypeOK
  <2>2. ToolKnown' /\ Counted' /\ HandedOver' /\ StagedWithin' /\ NothingLeftBehind' /\ Knocked'
    BY <1>0, <1>4
       DEF ContainerExits, Boxes, ToolKnown, Counted, HandedOver, StagedWithin,
           NothingLeftBehind, Knocked
  <2>3. Progressed'
    BY <1>0, <1>4 DEF ContainerExits, Boxes, Progressed, FindingsComplete, Finished
  <2> QED BY <2>1, <2>2, <2>3 DEF ServiceInv
<1>5. CASE ServiceHangs
  <2>1. TypeOK'
    BY <1>0, <1>5 DEF ServiceHangs, TypeOK
  <2>2. ToolKnown' /\ Counted' /\ HandedOver' /\ StagedWithin' /\ NothingLeftBehind' /\ Knocked'
    BY <1>0, <1>5
       DEF ServiceHangs, ToolKnown, Counted, HandedOver, StagedWithin, NothingLeftBehind, Knocked
  <2>3. Progressed'
    BY <1>0, <1>5 DEF ServiceHangs, Progressed, FindingsComplete, Finished
  <2> QED BY <2>1, <2>2, <2>3 DEF ServiceInv
<1> QED BY <1>1, <1>2, <1>3, <1>4, <1>5 DEF World

LEMMA DaemonKeeps ==
  ASSUME ServiceInv, ZapDaemon, UNCHANGED <<job, containerVars, clientVars, mobsfVars>>
  PROVE  ServiceInv'
<1> USE DEF containerVars, clientVars, mobsfVars, BootPCs, ScanPCs, ZapPCs, MobsfPCs
<1>0. /\ TypeOK /\ ToolKnown /\ Counted /\ HandedOver /\ StagedWithin /\ NothingLeftBehind
      /\ Knocked /\ Progressed
  BY DEF ServiceInv
<1>1. CASE SpiderWorks
  <2>1. TypeOK'
    BY <1>0, <1>1 DEF SpiderWorks, ZapState, Phases, TypeOK
  <2>2. ToolKnown' /\ Counted' /\ HandedOver' /\ StagedWithin' /\ NothingLeftBehind' /\ Knocked'
    BY <1>0, <1>1
       DEF SpiderWorks, ZapState, Phases, ToolKnown, Counted, HandedOver, StagedWithin,
           NothingLeftBehind, Knocked
  <2>3. Progressed'
    BY <1>0, <1>1 DEF SpiderWorks, ZapState, Phases, Progressed, FindingsComplete, Finished
  <2> QED BY <2>1, <2>2, <2>3 DEF ServiceInv
<1>2. CASE PassiveScans
  <2>1. TypeOK'
    BY <1>0, <1>2 DEF PassiveScans, ZapState, Phases, TypeOK
  <2>2. ToolKnown' /\ Counted' /\ HandedOver' /\ StagedWithin' /\ NothingLeftBehind' /\ Knocked'
    BY <1>0, <1>2
       DEF PassiveScans, ZapState, Phases, ToolKnown, Counted, HandedOver, StagedWithin,
           NothingLeftBehind, Knocked
  <2>3. Progressed'
    BY <1>0, <1>2 DEF PassiveScans, ZapState, Phases, Progressed, FindingsComplete, Finished
  <2> QED BY <2>1, <2>2, <2>3 DEF ServiceInv
<1>3. CASE ActiveScans
  <2>1. TypeOK'
    BY <1>0, <1>3 DEF ActiveScans, ZapState, Phases, TypeOK
  <2>2. ToolKnown' /\ Counted' /\ HandedOver' /\ StagedWithin' /\ NothingLeftBehind' /\ Knocked'
    BY <1>0, <1>3
       DEF ActiveScans, ZapState, Phases, ToolKnown, Counted, HandedOver, StagedWithin,
           NothingLeftBehind, Knocked
  <2>3. Progressed'
    BY <1>0, <1>3 DEF ActiveScans, ZapState, Phases, Progressed, FindingsComplete, Finished
  <2> QED BY <2>1, <2>2, <2>3 DEF ServiceInv
<1> QED BY <1>1, <1>2, <1>3 DEF ZapDaemon

LEMMA StoreKeeps ==
  ASSUME ServiceInv, StoreStalls, UNCHANGED <<job, containerVars, clientVars, zapVars>>
  PROVE  ServiceInv'
<1> USE DEF containerVars, clientVars, zapVars
<1>1. TypeOK'
  BY DEF ServiceInv, StoreStalls, TypeOK
<1>2. ToolKnown' /\ Counted' /\ HandedOver' /\ StagedWithin' /\ NothingLeftBehind' /\ Knocked'
  BY DEF ServiceInv, StoreStalls, ToolKnown, Counted, HandedOver, StagedWithin,
         NothingLeftBehind, Knocked
<1>3. Progressed'
  BY DEF ServiceInv, StoreStalls, Progressed, FindingsComplete, Finished
<1> QED BY <1>1, <1>2, <1>3 DEF ServiceInv

LEMMA MobsfKeeps ==
  ASSUME ServiceInv, MobsfStep, UNCHANGED <<job, zapVars>>
  PROVE  ServiceInv'
<1> USE DEF clientVars, zapVars, mobsfVars, BootPCs, ScanPCs, ZapPCs, MobsfPCs, Goto, FailTo
<1>0. /\ TypeOK /\ ToolKnown /\ Counted /\ HandedOver /\ StagedWithin /\ NothingLeftBehind
      /\ Knocked /\ Progressed
  BY DEF ServiceInv
<1>1. CASE ValidateMobileTarget
  <2>1. TypeOK'
    BY <1>0, <1>1 DEF ValidateMobileTarget, TypeOK
  <2>2. ToolKnown' /\ Counted' /\ HandedOver' /\ StagedWithin' /\ NothingLeftBehind' /\ Knocked'
    BY <1>0, <1>1
       DEF ValidateMobileTarget, ToolKnown, Counted, HandedOver, StagedWithin, NothingLeftBehind,
           Knocked
  <2>3. Progressed'
    BY <1>0, <1>1 DEF ValidateMobileTarget, Progressed, FindingsComplete, Finished
  <2> QED BY <2>1, <2>2, <2>3 DEF ServiceInv
<1>2. CASE Fetch
  <2>1. TypeOK'
    BY <1>0, <1>2 DEF Fetch, TypeOK
  <2>2. ToolKnown' /\ Counted' /\ HandedOver' /\ StagedWithin' /\ NothingLeftBehind' /\ Knocked'
    <3>0. pc = "fetch" /\ pc' \in {"stage", "release"} /\ (pc' = "release" => staged' = staged)
      BY <1>2 DEF Fetch
    <3>1. UNCHANGED <<cancelled, box, up, stuck, late, acquired, knocks, attempts>>
      BY <1>2 DEF Fetch
    <3>2. ToolKnown' /\ Counted' /\ HandedOver' /\ Knocked'
      BY <1>0, <3>0, <3>1 DEF ToolKnown, Counted, HandedOver, Knocked
    <3>3. StagedWithin' /\ NothingLeftBehind'
      BY <1>0, <3>0 DEF StagedWithin, NothingLeftBehind
    <3> QED BY <3>2, <3>3
  <2>3. Progressed'
    BY <1>0, <1>2 DEF Fetch, Progressed, FindingsComplete, Finished
  <2> QED BY <2>1, <2>2, <2>3 DEF ServiceInv
<1>3. CASE Stage
  <2>1. TypeOK'
    BY <1>0, <1>3 DEF Stage, TypeOK
  <2>2. ToolKnown' /\ Counted' /\ HandedOver' /\ StagedWithin' /\ NothingLeftBehind' /\ Knocked'
    BY <1>0, <1>3
       DEF Stage, ToolKnown, Counted, HandedOver, StagedWithin, NothingLeftBehind, Knocked
  <2>3. Progressed'
    BY <1>0, <1>3 DEF Stage, Progressed, FindingsComplete, Finished
  <2> QED BY <2>1, <2>2, <2>3 DEF ServiceInv
<1>4. CASE Upload
  <2>1. TypeOK'
    BY <1>0, <1>4 DEF Upload, AppStates, TypeOK
  <2>2. ToolKnown' /\ Counted' /\ HandedOver' /\ StagedWithin' /\ NothingLeftBehind' /\ Knocked'
    BY <1>0, <1>4
       DEF Upload, AppStates, ToolKnown, Counted, HandedOver, StagedWithin, NothingLeftBehind,
           Knocked
  <2>3. Progressed'
    BY <1>0, <1>4 DEF Upload, AppStates, Progressed, FindingsComplete, Finished
  <2> QED BY <2>1, <2>2, <2>3 DEF ServiceInv
<1>5. CASE RunScan
  <2>1. TypeOK'
    BY <1>0, <1>5 DEF RunScan, AppStates, TypeOK
  <2>2. ToolKnown' /\ Counted' /\ HandedOver' /\ StagedWithin' /\ NothingLeftBehind' /\ Knocked'
    BY <1>0, <1>5
       DEF RunScan, AppStates, ToolKnown, Counted, HandedOver, StagedWithin, NothingLeftBehind,
           Knocked
  <2>3. Progressed'
    BY <1>0, <1>5 DEF RunScan, AppStates, Progressed, FindingsComplete, Finished
  <2> QED BY <2>1, <2>2, <2>3 DEF ServiceInv
<1>6. CASE ReportJSON
  <2>1. TypeOK'
    BY <1>0, <1>6 DEF ReportJSON, TypeOK
  <2>2. ToolKnown' /\ Counted' /\ HandedOver' /\ StagedWithin' /\ NothingLeftBehind' /\ Knocked'
    BY <1>0, <1>6
       DEF ReportJSON, ToolKnown, Counted, HandedOver, StagedWithin, NothingLeftBehind, Knocked
  <2>3. Progressed'
    BY <1>0, <1>6 DEF ReportJSON, ToolKnown, Progressed, FindingsComplete, Finished
  <2> QED BY <2>1, <2>2, <2>3 DEF ServiceInv
<1>7. CASE DeleteScan
  <2>1. TypeOK'
    BY <1>0, <1>7 DEF DeleteScan, AppStates, TypeOK
  <2>2. ToolKnown' /\ Counted' /\ HandedOver' /\ StagedWithin' /\ NothingLeftBehind' /\ Knocked'
    BY <1>0, <1>7
       DEF DeleteScan, AppStates, ToolKnown, Counted, HandedOver, StagedWithin,
           NothingLeftBehind, Knocked
  <2>3. Progressed'
    BY <1>0, <1>7 DEF DeleteScan, AppStates, Progressed, FindingsComplete, Finished
  <2> QED BY <2>1, <2>2, <2>3 DEF ServiceInv
<1>8. CASE Cleanup
  <2>1. TypeOK'
    BY <1>0, <1>8 DEF Cleanup, TypeOK
  <2>2. ToolKnown' /\ Counted' /\ HandedOver' /\ StagedWithin' /\ NothingLeftBehind' /\ Knocked'
    BY <1>0, <1>8
       DEF Cleanup, ToolKnown, Counted, HandedOver, StagedWithin, NothingLeftBehind, Knocked
  <2>3. Progressed'
    BY <1>0, <1>8 DEF Cleanup, Progressed, FindingsComplete, Finished
  <2> QED BY <2>1, <2>2, <2>3 DEF ServiceInv
<1> QED BY <1>1, <1>2, <1>3, <1>4, <1>5, <1>6, <1>7, <1>8 DEF MobsfStep

LEMMA ZapKeeps ==
  ASSUME ServiceInv, ZapStep, UNCHANGED <<job, mobsfVars>>
  PROVE  ServiceInv'
<1> USE DEF clientVars, zapVars, mobsfVars, BootPCs, ScanPCs, ZapPCs, MobsfPCs, Goto, FailTo, StartPoll
<1>0. /\ TypeOK /\ ToolKnown /\ Counted /\ HandedOver /\ StagedWithin /\ NothingLeftBehind
      /\ Knocked /\ Progressed
  BY DEF ServiceInv
<1>j. /\ job.tool \in {"zap", "mobsf"} /\ job.auth \in 0..MaxAuthCalls
      /\ job.auth \in Nat /\ authed \in Nat /\ attempts \in Nat
      /\ ScanModeFor(job.depth) \in {"quick", "full"}
  BY <1>0, JobShape
<1>1. CASE ValidateTarget
  <2>1. TypeOK'
    BY <1>0, <1>1, <1>j DEF ValidateTarget, TypeOK
  <2>2. ToolKnown' /\ Counted' /\ HandedOver' /\ StagedWithin' /\ NothingLeftBehind' /\ Knocked'
    BY <1>0, <1>1, <1>j
       DEF ValidateTarget, ToolKnown, Counted, HandedOver, StagedWithin, NothingLeftBehind, Knocked
  <2>3. Progressed'
    BY <1>0, <1>1, <1>j DEF ValidateTarget, Progressed, FindingsComplete, Finished
  <2> QED BY <2>1, <2>2, <2>3 DEF ServiceInv
<1>2. CASE ApplyCookieAuth
  <2>1. TypeOK'
    BY <1>0, <1>2, <1>j DEF ApplyCookieAuth, TypeOK
  <2>2. ToolKnown' /\ Counted' /\ HandedOver' /\ StagedWithin' /\ NothingLeftBehind' /\ Knocked'
    <3>1. /\ pc = "auth" /\ pc' \in {"auth", "spider", "release"}
          /\ UNCHANGED <<box, cancelled, acquired, knocks>>
      BY <1>2 DEF ApplyCookieAuth
    <3>2. authed' \in {authed, authed + 1} /\ (authed' # authed => authed < job.auth)
      BY <1>2 DEF ApplyCookieAuth
    <3>3. Counted'
      BY <1>0, <1>j, <3>1, <3>2 DEF Counted
    <3>4. ToolKnown' /\ HandedOver' /\ StagedWithin' /\ NothingLeftBehind' /\ Knocked'
      BY <1>0, <3>1 DEF ToolKnown, HandedOver, StagedWithin, NothingLeftBehind, Knocked
    <3> QED BY <3>3, <3>4
  <2>3. Progressed'
    BY <1>0, <1>2, <1>j DEF ApplyCookieAuth, Progressed, FindingsComplete, Finished
  <2> QED BY <2>1, <2>2, <2>3 DEF ServiceInv
<1>3. CASE RunSpider
  <2>1. TypeOK'
    <3>1. /\ pc' \in {"poll", "release"} /\ late' \in BOOLEAN /\ result' \in {"error", result}
          /\ UNCHANGED <<cancelled, box, up, stuck, acquired, knocks>>
      BY <1>0, <1>3 DEF RunSpider, TypeOK
    <3>2. polling' \in {polling, "spider"} /\ attempts' \in {attempts, 0}
      BY <1>3 DEF RunSpider
    <3>3. attempts' \in 0..MaxAttempts
      BY <1>0, <3>2 DEF TypeOK
    <3>4. [spider |-> spider, records |-> records, ascan |-> ascan]' \in ZapState
      BY <1>0, <1>3 DEF RunSpider, TypeOK, ZapState, Phases
    <3>5. authed' = authed /\ seen' = seen
      BY <1>3 DEF RunSpider
    <3> QED BY <1>0, <3>1, <3>2, <3>3, <3>4, <3>5 DEF TypeOK
  <2>2. ToolKnown' /\ Counted' /\ HandedOver' /\ StagedWithin' /\ NothingLeftBehind' /\ Knocked'
    BY <1>0, <1>3, <1>j
       DEF RunSpider, ZapState, Phases, ToolKnown, Counted, HandedOver, StagedWithin,
           NothingLeftBehind, Knocked
  <2>3. Progressed'
    BY <1>0, <1>3, <1>j DEF RunSpider, ZapState, Phases, Progressed, FindingsComplete, Finished
  <2> QED BY <2>1, <2>2, <2>3 DEF ServiceInv
<1>4. CASE RunActiveScan
  <2>1. TypeOK'
    <3>1. /\ pc' \in {"poll", "release"} /\ late' \in BOOLEAN /\ result' \in {"error", result}
          /\ UNCHANGED <<cancelled, box, up, stuck, acquired, knocks>>
      BY <1>0, <1>4 DEF RunActiveScan, TypeOK
    <3>2. polling' \in {polling, "ascan"} /\ attempts' \in {attempts, 0}
      BY <1>4 DEF RunActiveScan
    <3>3. attempts' \in 0..MaxAttempts
      BY <1>0, <3>2 DEF TypeOK
    <3>4. [spider |-> spider, records |-> records, ascan |-> ascan]' \in ZapState
      BY <1>0, <1>4 DEF RunActiveScan, TypeOK, ZapState, Phases
    <3>5. authed' = authed /\ seen' = seen
      BY <1>4 DEF RunActiveScan
    <3> QED BY <1>0, <3>1, <3>2, <3>3, <3>4, <3>5 DEF TypeOK
  <2>2. ToolKnown' /\ Counted' /\ HandedOver' /\ StagedWithin' /\ NothingLeftBehind' /\ Knocked'
    BY <1>0, <1>4, <1>j
       DEF RunActiveScan, ZapState, Phases, ToolKnown, Counted, HandedOver, StagedWithin,
           NothingLeftBehind, Knocked
  <2>3. Progressed'
    BY <1>0, <1>4, <1>j DEF RunActiveScan, ZapState, Phases, Progressed, FindingsComplete, Finished
  <2> QED BY <2>1, <2>2, <2>3 DEF ServiceInv
<1>5. CASE PollHead(AfterFailure) /\ UNCHANGED zapVars
  <2>1. TypeOK'
    BY <1>0, <1>5, <1>j DEF PollHead, AfterFailure, TypeOK
  <2>2. ToolKnown' /\ Counted' /\ HandedOver' /\ StagedWithin' /\ NothingLeftBehind' /\ Knocked'
    BY <1>0, <1>5, <1>j
       DEF PollHead, AfterFailure, ToolKnown, Counted, HandedOver, StagedWithin,
           NothingLeftBehind, Knocked
  <2>3. Progressed'
    BY <1>0, <1>5, <1>j DEF PollHead, AfterFailure, Progressed, FindingsComplete, Finished
  <2> QED BY <2>1, <2>2, <2>3 DEF ServiceInv
<1>6. CASE PollAgain(PollDone) /\ UNCHANGED zapVars
  <2>1. TypeOK'
    BY <1>0, <1>6, <1>j DEF PollAgain, TypeOK
  <2>2. ToolKnown' /\ Counted' /\ HandedOver' /\ StagedWithin' /\ NothingLeftBehind' /\ Knocked'
    BY <1>0, <1>6, <1>j
       DEF PollAgain, ToolKnown, Counted, HandedOver, StagedWithin, NothingLeftBehind, Knocked
  <2>3. Progressed'
    BY <1>0, <1>6, <1>j DEF PollAgain, Progressed, FindingsComplete, Finished
  <2> QED BY <2>1, <2>2, <2>3 DEF ServiceInv
<1>7. CASE PollFails(AfterFailure) /\ UNCHANGED zapVars
  <2>1. TypeOK'
    BY <1>0, <1>7, <1>j DEF PollFails, AfterFailure, TypeOK
  <2>2. ToolKnown' /\ Counted' /\ HandedOver' /\ StagedWithin' /\ NothingLeftBehind' /\ Knocked'
    BY <1>0, <1>7, <1>j
       DEF PollFails, AfterFailure, ToolKnown, Counted, HandedOver, StagedWithin,
           NothingLeftBehind, Knocked
  <2>3. Progressed'
    BY <1>0, <1>7, <1>j DEF PollFails, AfterFailure, Progressed, FindingsComplete, Finished
  <2> QED BY <2>1, <2>2, <2>3 DEF ServiceInv
<1>8. CASE PollSucceeds(PollDone) /\ AfterSuccess /\ UNCHANGED zapVars
  <2>0. /\ pc = "get" /\ pc' \in {"poll", "ascan", "alerts"} /\ late' \in {FALSE, late}
        /\ UNCHANGED <<cancelled, box, up, stuck, acquired, knocks, result>>
        /\ polling' \in {polling, "drain"} /\ attempts' \in {attempts, 0}
    BY <1>8 DEF PollSucceeds, AfterSuccess
  <2>1. TypeOK'
    <3>1. attempts' \in 0..MaxAttempts
      BY <1>0, <2>0 DEF TypeOK
    <3> QED BY <1>0, <1>8, <2>0, <3>1 DEF TypeOK
  <2>2. ToolKnown' /\ Counted' /\ HandedOver' /\ StagedWithin' /\ NothingLeftBehind' /\ Knocked'
    BY <1>0, <1>8, <2>0 DEF ToolKnown, Counted, HandedOver, StagedWithin, NothingLeftBehind, Knocked
  <2>3. Progressed'
    BY <1>0, <1>8, <1>j DEF PollSucceeds, AfterSuccess, PollDone, Progressed, FindingsComplete,
       Finished
  <2> QED BY <2>1, <2>2, <2>3 DEF ServiceInv
<1>9. CASE Backoff(AfterFailure) /\ UNCHANGED zapVars
  <2>1. TypeOK'
    <3>1. /\ pc' \in {"poll", "stop", "release"} /\ result' \in {"error", result}
          /\ UNCHANGED <<cancelled, box, up, stuck, late, acquired, knocks, polling>>
      BY <1>9 DEF Backoff, AfterFailure
    <3>2. attempts < MaxAttempts /\ attempts' \in {attempts, attempts + 1}
      BY <1>0, <1>9 DEF Backoff, Counted
    <3>3. attempts' \in 0..MaxAttempts
      BY <1>0, <1>j, <3>2 DEF TypeOK
    <3> QED BY <1>0, <1>9, <3>1, <3>3 DEF TypeOK
  <2>2. ToolKnown' /\ Counted' /\ HandedOver' /\ StagedWithin' /\ NothingLeftBehind' /\ Knocked'
    BY <1>0, <1>9, <1>j
       DEF Backoff, AfterFailure, ToolKnown, Counted, HandedOver, StagedWithin,
           NothingLeftBehind, Knocked
  <2>3. Progressed'
    BY <1>0, <1>9, <1>j DEF Backoff, AfterFailure, Progressed, FindingsComplete, Finished
  <2> QED BY <2>1, <2>2, <2>3 DEF ServiceInv
<1>10. CASE StopActiveScan
  <2>1. TypeOK'
    BY <1>0, <1>10, <1>j DEF StopActiveScan, ZapState, Phases, TypeOK
  <2>2. ToolKnown' /\ Counted' /\ HandedOver' /\ StagedWithin' /\ NothingLeftBehind' /\ Knocked'
    BY <1>0, <1>10, <1>j
       DEF StopActiveScan, ZapState, Phases, ToolKnown, Counted, HandedOver, StagedWithin,
           NothingLeftBehind, Knocked
  <2>3. Progressed'
    BY <1>0, <1>10, <1>j DEF StopActiveScan, ZapState, Phases, Progressed, FindingsComplete,
       Finished
  <2> QED BY <2>1, <2>2, <2>3 DEF ServiceInv
<1>11. CASE FetchAlerts
  <2>1. TypeOK'
    BY <1>0, <1>11, <1>j DEF FetchAlerts, ZapState, Phases, TypeOK
  <2>2. ToolKnown' /\ Counted' /\ HandedOver' /\ StagedWithin' /\ NothingLeftBehind' /\ Knocked'
    BY <1>0, <1>11, <1>j
       DEF FetchAlerts, ZapState, Phases, ToolKnown, Counted, HandedOver, StagedWithin,
           NothingLeftBehind, Knocked
  <2>3. Progressed'
    BY <1>0, <1>11 DEF FetchAlerts, ToolKnown, Progressed, FindingsComplete, Finished
  <2> QED BY <2>1, <2>2, <2>3 DEF ServiceInv
<1> QED BY <1>1, <1>2, <1>3, <1>4, <1>5, <1>6, <1>7, <1>8, <1>9, <1>10, <1>11 DEF ZapStep, Poll

-------------------------------------------------------------------------------
(***************************************************************************)
(* The theorems.                                                           *)
(***************************************************************************)
LEMMA InitServes == Init => ServiceInv
<1> SUFFICES ASSUME Init PROVE ServiceInv
  OBVIOUS
<1> USE DEF Init, ContainerInit, ClientInit, ZapInit, MobsfInit
<1>1. TypeOK
  <2>1. attempts \in 0..MaxAttempts /\ authed \in 0..MaxAuthCalls /\ knocks \in Nat
    OBVIOUS
  <2>2. seen \in ZapState /\ [spider |-> spider, records |-> records, ascan |-> ascan] \in ZapState
    BY DEF ZapState, Phases
  <2> QED BY <2>1, <2>2 DEF TypeOK, BootPCs, Boxes, AppStates
<1>2. Counted
  BY <1>1, JobShape DEF Counted
<1>3. ToolKnown /\ HandedOver /\ StagedWithin /\ NothingLeftBehind /\ Knocked /\ Progressed
  BY DEF ToolKnown, HandedOver, StagedWithin, NothingLeftBehind, Knocked, Progressed, ZapPCs,
         MobsfPCs, ScanPCs
<1> QED BY <1>1, <1>2, <1>3 DEF ServiceInv

\* The inductive invariant holds throughout a run.
THEOREM ServiceCorrect == Spec => []ServiceInv
<1>1. ServiceInv /\ [Next]_vars => ServiceInv'
  <2> SUFFICES ASSUME ServiceInv, [Next]_vars PROVE ServiceInv'
    OBVIOUS
  <2>1. CASE RunStep
    BY <2>1, BootKeeps, ZapKeeps, MobsfKeeps DEF RunStep
  <2>2. CASE World /\ UNCHANGED <<job, clientVars, zapVars, mobsfVars>>
    BY <2>2, WorldKeeps
  <2>3. CASE ZapDaemon /\ UNCHANGED <<job, containerVars, clientVars, mobsfVars>>
    BY <2>3, DaemonKeeps
  <2>5. CASE StoreStalls /\ UNCHANGED <<job, containerVars, clientVars, zapVars>>
    BY <2>5, StoreKeeps
  <2>4. CASE UNCHANGED vars
    BY <2>4 DEF vars, containerVars, clientVars, zapVars, mobsfVars, ServiceInv, TypeOK, ToolKnown,
                Counted, HandedOver, StagedWithin, NothingLeftBehind, Knocked, Progressed, Finished,
                FindingsComplete
  <2> QED BY <2>1, <2>2, <2>3, <2>4, <2>5 DEF Next
<1> QED BY <1>1, InitServes, PTL DEF Spec

\* A container the factory handed over is removed, and the downloaded app
\* with it, by the time DockerServiceRunner.Run returns.
THEOREM NothingLeft == Spec => []NothingLeftBehind
<1>1. ServiceInv => NothingLeftBehind
  BY DEF ServiceInv
<1> QED BY <1>1, ServiceCorrect, PTL

\* Findings are those of a whole scan, whatever PollUntil met on the way.
THEOREM FindingsWhole == Spec => []FindingsComplete
<1>1. ServiceInv => FindingsComplete
  BY DEF ServiceInv, Progressed, FindingsComplete
<1> QED BY <1>1, ServiceCorrect, PTL

\* waitForReady probes a container at most once after its death was there to
\* be seen.
THEOREM DeathsNoticed == Spec => []DeathNoticed
<1>1. ServiceInv => DeathNoticed
  BY DEF ServiceInv, Knocked, DeathNoticed
<1> QED BY <1>1, ServiceCorrect, PTL

===============================================================================
