------------------------------- MODULE NativeRun -------------------------------
(***************************************************************************)
(* NativeRunner.Run: one run of a command-line tool under the job's        *)
(* context and its own timeout, in stdout mode or with a report file, and  *)
(* what its output is worth when it ends.                                  *)
(*                                                                         *)
(* A tool writes its records one by one and closes its report when it is   *)
(* through; a tool that dies has written a prefix.  A record is its number *)
(* and, in a report of lines, one line; job.long is the first that is too  *)
(* long for the buffer of the tool's line scanner, 0 if there is none.     *)
(***************************************************************************)
EXTENDS CancelWatch, SequencesExt

CONSTANT MaxRecords  \* bound: records in a tool's report

ASSUME RecordsAssumption == MaxRecords \in Nat

VARIABLES
  pc,        \* where Process, or the runner it called, stands
  job,       \* the job
  failed,    \* runErr is not nil
  findings,  \* what the runner returned
  proc,      \* the tool's process: none, running or exited
  exit,      \* its exit status: zero, or not (a signal included)
  held,      \* a helper of the tool keeps the stdout pipe open
  written,   \* records written so far
  closed,    \* the report is complete
  capped,    \* stdout went over MaxStdoutBytes
  late,      \* the run's own timeout has passed
  tmp        \* the minted report file exists

toolVars == <<proc, exit, held, written, closed, capped, late, tmp>>
jobVars == <<pc, job, failed, findings>>

\* How the tools differ: where the report goes, whether every prefix of it
\* can be parsed, whether an empty one is taken for a clean scan, whether a
\* non-zero exit is an error, and the two hooks only Nikto has.  (CORStest is
\* of Nuclei's kind, Dependency-Check of Wapiti's.)
Tools == {
  [name |-> "nuclei", file |-> FALSE, lines |-> TRUE, emptyOK |-> TRUE,
   lenient |-> FALSE, preflight |-> FALSE, post |-> FALSE],
  [name |-> "semgrep", file |-> FALSE, lines |-> FALSE, emptyOK |-> TRUE,
   lenient |-> TRUE, preflight |-> FALSE, post |-> FALSE],
  [name |-> "wapiti", file |-> TRUE, lines |-> FALSE, emptyOK |-> TRUE,
   lenient |-> FALSE, preflight |-> FALSE, post |-> FALSE],
  [name |-> "nikto", file |-> TRUE, lines |-> FALSE, emptyOK |-> FALSE,
   lenient |-> TRUE, preflight |-> TRUE, post |-> TRUE] }

NativePCs == {"preflight", "mint", "spawn", "wait", "parse", "post"}

NativeTypeOK ==
  /\ {failed, held, closed, capped, late, tmp} \subseteq BOOLEAN
  /\ proc \in {"none", "running", "exited"}
  /\ exit \in {"none", "zero", "nonzero"}
  /\ written \in 0..MaxRecords
  /\ findings \in Seq(1..MaxRecords)

NativeInit ==
  /\ failed = FALSE /\ findings = <<>>
  /\ proc = "none" /\ exit = "none" /\ held = FALSE /\ written = 0
  /\ closed = FALSE /\ capped = FALSE /\ late = FALSE /\ tmp = FALSE

ReturnsLeavingFile(err, result) ==
  /\ pc' = "judge"
  /\ failed' = err
  /\ findings' = result
  /\ late' = FALSE
  /\ UNCHANGED <<job, proc, exit, held, written, closed, capped, tmp>>

\* Run returns; the deferred calls remove the report file and end the run's
\* own context.
Returns(err, result) ==
  /\ pc' = "judge"
  /\ failed' = err
  /\ findings' = result
  /\ tmp' = FALSE
  /\ late' = FALSE
  /\ UNCHANGED <<job, proc, exit, held, written, closed, capped>>

Step(to) == pc' = to /\ UNCHANGED <<job, failed, findings>>

\* A tool may refuse a target it cannot scan.
Preflight ==
  /\ pc = "preflight"
  /\ \/ Step("mint") /\ UNCHANGED toolVars
     \/ job.tool.preflight /\ Returns(TRUE, <<>>)

\* The timeout starts, and a report file is made where the tool needs one.
Mint ==
  /\ pc = "mint"
  /\ \/ Step("spawn") /\ tmp' = job.tool.file
        /\ UNCHANGED <<proc, exit, held, written, closed, capped, late>>
     \/ job.tool.file /\ Returns(TRUE, <<>>)

\* cmd.Run starts the process, unless the context is done or it cannot.  A
\* binary that is not found on the PATH is an *exec.Error and fails the run;
\* one named by its path that does not start is not, and a lenient tool goes
\* on to parse the nothing it wrote.
Spawn ==
  /\ pc = "spawn"
  /\ \/ /\ ~JobDone /\ ~late
        /\ Step("wait")
        /\ proc' = "running"
        /\ UNCHANGED <<exit, held, written, closed, capped, late, tmp>>
     \/ /\ ~JobDone /\ ~late
        /\ "start" \in Faults /\ job.tool.lenient
        /\ Step("parse") /\ UNCHANGED toolVars
     \/ Returns(TRUE, <<>>)

(***************************************************************************)
(* The process.                                                            *)
(***************************************************************************)
ToolWrites ==
  /\ proc = "running" /\ ~closed /\ ~capped
  /\ written < MaxRecords
  /\ \/ written' = written + 1 /\ UNCHANGED capped
     \/ "overflow" \in Faults /\ capped' = TRUE /\ UNCHANGED written
  /\ UNCHANGED <<proc, exit, held, closed, late, tmp>>

\* It ends by itself; Nikto's status is not zero when there are findings.
ToolExits ==
  /\ proc = "running"
  /\ proc' = "exited"
  /\ closed' = TRUE
  /\ exit' = IF job.tool.name = "nikto" /\ written > 0 THEN "nonzero" ELSE "zero"
  /\ UNCHANGED <<held, written, capped, late, tmp>>

\* It dies: out of memory, on its own error, of the pipe the cap closed.
ToolDies ==
  /\ proc = "running"
  /\ "die" \in Faults
  /\ proc' = "exited"
  /\ exit' = "nonzero"
  /\ UNCHANGED <<held, written, closed, capped, late, tmp>>

\* exec.CommandContext kills it when its context is done.
ToolKilled ==
  /\ proc = "running"
  /\ JobDone \/ late
  /\ proc' = "exited"
  /\ exit' = "nonzero"
  /\ UNCHANGED <<held, written, closed, capped, late, tmp>>

\* A helper the tool started inherits its stdout, and may outlive it.
Helper ==
  /\ "helper" \in Faults
  /\ \/ proc = "running" /\ ~held /\ held' = TRUE
     \/ held /\ held' = FALSE
  /\ UNCHANGED <<proc, exit, written, closed, capped, late, tmp>>

Timeout ==
  /\ "late" \in Faults
  /\ pc \in NativePCs \ {"preflight", "mint"}
  /\ ~late
  /\ late' = TRUE
  /\ UNCHANGED <<proc, exit, held, written, closed, capped, tmp>>

(***************************************************************************)
(* cmd.Run returns when the process has exited and its pipe is closed.     *)
(* What ended it is told apart in this order: the caller's context, the    *)
(* timeout, the cap, the exit status.                                      *)
(***************************************************************************)
ExitRefused == exit # "zero" /\ ~job.tool.lenient

WaitIgnoresCap ==
  /\ pc = "wait"
  /\ proc = "exited" /\ ~held
  /\ \/ /\ JobDone \/ late \/ ExitRefused
        /\ Returns(TRUE, <<>>)
     \/ /\ ~(JobDone \/ late \/ ExitRefused)
        /\ Step("parse") /\ UNCHANGED toolVars

Wait ==
  /\ pc = "wait"
  /\ proc = "exited" /\ ~held
  /\ \/ /\ JobDone \/ late \/ capped \/ ExitRefused
        /\ Returns(TRUE, <<>>)
     \/ /\ ~(JobDone \/ late \/ capped \/ ExitRefused)
        /\ Step("parse") /\ UNCHANGED toolVars

\* Line reports are parsed as far as they go; a document must be complete,
\* or empty where that is taken for a clean scan.
Parses ==
  \/ closed
  \/ job.tool.lines
  \/ written = 0 /\ job.tool.emptyOK

\* A line too long for the scanner ends the parsing without an error, and
\* the line and all that follow it are dropped.
Reached == IF job.tool.lines /\ job.long \in 1..written THEN job.long - 1 ELSE written

Records == [i \in 1..Reached |-> i]

ParseOutput ==
  /\ pc = "parse"
  /\ \/ ~Parses /\ Returns(TRUE, <<>>)
     \/ /\ Parses
        /\ findings' = Records
        /\ pc' = "post"
        /\ UNCHANGED <<job, failed, toolVars>>

\* Some of the findings, in their order.
SomeOf(all, kept) ==
  \E at \in [1..Len(kept) -> 1..Len(all)] :
    /\ \A i, j \in 1..Len(kept) : i < j => at[i] < at[j]
    /\ \A i \in 1..Len(kept) : kept[i] = all[at[i]]

\* PostProcess may only drop findings, and only under a live context (see
\* NiktoVerify); then the findings are enriched and returned.
PostProcess ==
  /\ pc = "post"
  /\ \/ Returns(FALSE, findings)
     \/ /\ job.tool.post /\ ~JobDone /\ ~late
        /\ \E n \in 0..Len(findings) : \E kept \in [1..n -> 1..MaxRecords] :
             SomeOf(findings, kept) /\ Returns(FALSE, kept)

NativeStep ==
  \/ Preflight
  \/ Mint
  \/ Spawn
  \/ Wait
  \/ ParseOutput
  \/ PostProcess

Tool ==
  \/ ToolWrites
  \/ ToolExits
  \/ ToolKilled
  \/ ToolDies
  \/ Helper
  \/ Timeout

===============================================================================
