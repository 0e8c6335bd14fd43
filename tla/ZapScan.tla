------------------------------- MODULE ZapScan -------------------------------
(***************************************************************************)
(* The ZAP scan (zap.NewBuildScan): cookie authentication, the spider, the *)
(* passive-scan drain or the active scan according to the depth, and the   *)
(* alerts.  The daemon's own work is external: the spider feeds a queue of *)
(* records that the passive scanner empties.                               *)
(***************************************************************************)
EXTENDS ServiceClient

CONSTANT
  MaxAuthCalls,  \* httpSessions requests of the largest cookie string
  MaxRecords     \* records the spider leaves to the passive scanner

ASSUME ZapAssumption == MaxAuthCalls \in Nat /\ MaxRecords \in Nat

VARIABLES
  authed,   \* httpSessions requests made
  spider, records, ascan,   \* the daemon: spider, passive queue, active scan
  seen      \* observation: the daemon's state when the alerts were read

zapVars == <<authed, spider, records, ascan, seen>>

Depths == {"", "quick", "standard", "deep"}
Phases == {"idle", "running", "done", "stopped"}
ZapState == [spider : Phases, records : 0..MaxRecords, ascan : Phases]

\* auth counts the requests applyCookieAuth makes: none without cookies, or
\* the empty session and one for every well-formed cookie.
ZapJobs ==
  [tool : {"zap"}, valid : BOOLEAN, depth : Depths, auth : 0..MaxAuthCalls,
   policy : {"default", "listed", "unlisted"}]

ScanModeFor(depth) == IF depth \in {"standard", "deep"} THEN "full" ELSE "quick"

ZapInit ==
  /\ authed = 0
  /\ spider = "idle"
  /\ records = 0
  /\ ascan = "idle"
  /\ seen = [spider |-> "idle", records |-> 0, ascan |-> "idle"]

\* validateTarget: a URL that is malformed, or private without leave
ValidateTarget ==
  /\ pc = "validate" /\ job.tool = "zap"
  /\ \/ job.valid /\ Goto("auth")
     \/ ~job.valid /\ FailTo("release")
  /\ UNCHANGED <<clientVars, zapVars>>

ApplyCookieAuth ==
  /\ pc = "auth"
  /\ \/ authed = job.auth /\ Goto("spider") /\ UNCHANGED authed
     \/ authed < job.auth /\ Answered /\ Goto("auth") /\ authed' = authed + 1
     \/ authed < job.auth /\ RequestFails /\ FailTo("release") /\ UNCHANGED authed
  /\ UNCHANGED <<spider, records, ascan, seen>> /\ UNCHANGED clientVars

RunSpider ==
  /\ pc = "spider"
  /\ \/ Answered /\ StartPoll("spider") /\ spider' = "running"
     \/ RequestFails /\ FailTo("release") /\ UNCHANGED spider /\ UNCHANGED clientVars
  /\ UNCHANGED <<authed, records, ascan, seen>>

\* A policy outside the allowlist is refused only here, after the spider.
RunActiveScan ==
  /\ pc = "ascan"
  /\ \/ /\ job.policy # "unlisted"
        /\ Answered
        /\ StartPoll("ascan")
        /\ ascan' = "running"
     \/ /\ job.policy = "unlisted" \/ RequestFails
        /\ FailTo("release")
        /\ UNCHANGED ascan /\ UNCHANGED clientVars
  /\ UNCHANGED <<authed, spider, records, seen>>

\* The three predicates, and what follows each poll.
PollDone ==
  CASE polling = "spider" -> spider = "done"
    [] polling = "drain"  -> records = 0
    [] polling = "ascan"  -> ascan = "done"
    [] OTHER              -> FALSE

AfterFailure == IF polling = "ascan" THEN "stop" ELSE "release"

AfterSuccess ==
  \/ /\ polling = "spider" /\ ScanModeFor(job.depth) = "quick"
     /\ StartPoll("drain")
  \/ /\ polling = "spider" /\ ScanModeFor(job.depth) = "full"
     /\ Goto("ascan") /\ UNCHANGED clientVars
  \/ /\ polling \in {"drain", "ascan"}
     /\ Goto("alerts") /\ UNCHANGED clientVars

PollTimesOutDone ==
  /\ \/ pc = "poll" /\ late /\ AfterSuccess
     \/ PollHead(AfterFailure)
     \/ PollAgain(PollDone)
     \/ PollFails(AfterFailure)
     \/ PollSucceeds(PollDone) /\ AfterSuccess
     \/ Backoff(AfterFailure)
  /\ UNCHANGED zapVars

\* PollUntil, as the spider, the drain and the active scan call it
Poll ==
  /\ \/ PollHead(AfterFailure)
     \/ PollAgain(PollDone)
     \/ PollFails(AfterFailure)
     \/ PollSucceeds(PollDone) /\ AfterSuccess
     \/ Backoff(AfterFailure)
  /\ UNCHANGED zapVars

\* The best-effort stop of an active scan that was given up.
StopActiveScan ==
  /\ pc = "stop"
  /\ Answered \/ RequestFails
  /\ Goto("release")
  /\ ascan' \in IF Answered THEN {"stopped", ascan} ELSE {ascan}
  /\ UNCHANGED <<authed, spider, records, seen>> /\ UNCHANGED clientVars

FetchAlerts ==
  /\ pc = "alerts"
  /\ \/ /\ Answered
        /\ pc' = "release"
        /\ result' = "findings"
        /\ seen' = [spider |-> spider, records |-> records, ascan |-> ascan]
        /\ UNCHANGED <<cancelled, box, up, stuck, late, acquired, knocks>>
     \/ RequestFails /\ FailTo("release") /\ UNCHANGED seen
  /\ UNCHANGED <<authed, spider, records, ascan>> /\ UNCHANGED clientVars

ZapStep ==
  \/ ValidateTarget
  \/ ApplyCookieAuth
  \/ RunSpider
  \/ RunActiveScan
  \/ Poll
  \/ StopActiveScan
  \/ FetchAlerts

(***************************************************************************)
(* The daemon.                                                             *)
(***************************************************************************)
SpiderWorks ==
  /\ up /\ spider = "running"
  /\ \/ records < MaxRecords /\ records' = records + 1 /\ UNCHANGED spider
     \/ spider' = "done" /\ UNCHANGED records
  /\ UNCHANGED <<authed, ascan, seen>>

PassiveScans ==
  /\ up /\ records > 0
  /\ records' = records - 1
  /\ UNCHANGED <<authed, spider, ascan, seen>>

ActiveScans ==
  /\ up /\ ascan = "running"
  /\ ascan' = "done"
  /\ UNCHANGED <<authed, spider, records, seen>>

ZapDaemon == SpiderWorks \/ PassiveScans \/ ActiveScans

===============================================================================
