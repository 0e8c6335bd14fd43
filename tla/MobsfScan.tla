------------------------------ MODULE MobsfScan ------------------------------
(***************************************************************************)
(* The MobSF scan (mobsf.NewBuildScan): fetch the app to a temporary file, *)
(* upload it, run the synchronous analysis, read the report, delete the    *)
(* scan, and remove the file whatever happened.                            *)
(***************************************************************************)
EXTENDS ServiceClient

VARIABLES
  staged,   \* the temporary directory exists
  stalled,  \* the object store sends no more of the app
  app       \* the service's record of the app

mobsfVars == <<staged, stalled, app>>

AppStates == {"none", "uploaded", "analysed", "deleted"}

MobsfJobs ==
  [tool : {"mobsf"}, valid : BOOLEAN, depth : {""}, auth : {0}, policy : {"default"}]

MobsfInit == staged = FALSE /\ stalled = FALSE /\ app = "none"

\* validateMobileTarget: upload reference, platform, analysis type, extension
ValidateMobileTarget ==
  /\ pc = "validate" /\ job.tool = "mobsf"
  /\ \/ job.valid /\ Goto("fetch")
     \/ ~job.valid /\ FailTo("release")
  /\ UNCHANGED <<clientVars, mobsfVars>>

\* The two ways a download ends short of its file.  The client of pre-signed
\* URLs gives up after ten minutes, an error like any other; the one of R2
\* waits for a store that has stalled until the job's context ends.
FetchFails == cancelled \/ (~stalled /\ "fetch" \in Troubles)

\* GetObject, then the temporary directory
Fetch ==
  /\ pc = "fetch"
  /\ \/ ~cancelled /\ ~stalled /\ Goto("stage") /\ staged' = TRUE
     \/ FetchFails /\ FailTo("release") /\ UNCHANGED staged
  /\ UNCHANGED <<stalled, app>> /\ UNCHANGED clientVars

StageLeavesDirectory ==
  /\ pc = "stage"
  /\ \/ ~cancelled /\ ~stalled /\ Goto("upload")
     \/ FetchFails /\ FailTo("release")
  /\ UNCHANGED mobsfVars /\ UNCHANGED clientVars

\* The body is copied into the directory; on an error Fetch removes it
\* itself, before the caller has a cleanup to defer.
Stage ==
  /\ pc = "stage"
  /\ \/ ~cancelled /\ ~stalled /\ Goto("upload") /\ UNCHANGED staged
     \/ FetchFails /\ FailTo("release") /\ staged' = FALSE
  /\ UNCHANGED <<stalled, app>> /\ UNCHANGED clientVars

Upload ==
  /\ pc = "upload"
  /\ \/ Answered /\ Goto("analyse") /\ app' = "uploaded"
     \/ RequestFails /\ FailTo("unstage") /\ UNCHANGED app
  /\ UNCHANGED <<staged, stalled>> /\ UNCHANGED clientVars

\* runScan: the service answers when the analysis is over
RunScan ==
  /\ pc = "analyse"
  /\ \/ Answered /\ Goto("report") /\ app' = "analysed"
     \/ RequestFails /\ FailTo("unstage") /\ UNCHANGED app
  /\ UNCHANGED <<staged, stalled>> /\ UNCHANGED clientVars

\* reportJSON and parseReport
ReportJSON ==
  /\ pc = "report"
  /\ \/ /\ Answered
        /\ pc' = "delete"
        /\ result' = "findings"
        /\ UNCHANGED <<cancelled, box, up, stuck, late, acquired, knocks>>
     \/ RequestFails /\ FailTo("unstage")
  /\ UNCHANGED mobsfVars /\ UNCHANGED clientVars

\* deleteScan: its error is logged and the findings stand
DeleteScan ==
  /\ pc = "delete"
  /\ \/ Answered /\ app' = "deleted"
     \/ RequestFails /\ UNCHANGED app
  /\ Goto("unstage")
  /\ UNCHANGED <<staged, stalled>> /\ UNCHANGED clientVars

Cleanup ==
  /\ pc = "unstage"
  /\ staged' = FALSE
  /\ Goto("release")
  /\ UNCHANGED <<stalled, app>> /\ UNCHANGED clientVars

\* The store stops in the middle of its answer and stays silent.
StoreStalls ==
  /\ "stall" \in Troubles
  /\ pc \in {"fetch", "stage"}
  /\ stalled' = TRUE
  /\ UNCHANGED <<staged, app>>

MobsfStep ==
  \/ ValidateMobileTarget
  \/ Fetch
  \/ Stage
  \/ Upload
  \/ RunScan
  \/ ReportJSON
  \/ DeleteScan
  \/ Cleanup

===============================================================================
