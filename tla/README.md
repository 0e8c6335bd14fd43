# A TLA+ model of the ShieldScan engine

The engine is a fleet of Go workers.  An API (outside this repository) pushes
scan jobs on Redis lists; a worker takes a job, runs one security tool for it,
publishes the findings, and removes the job from its list.  Workers crash,
drain, lose Redis and are cancelled while they do so, and the engine promises
that a job is run a bounded number of times, is not reported twice, and does
not vanish.  This directory states those promises, model-checks them with TLC
and proves the safety properties among them with TLAPS.

## 1. Inventory

| Part | State | Operations | Talks to |
|---|---|---|---|
| Job queue (`redis/queue.go`) | one list per priority, one processing list per worker and priority | `Pop` (an LMOVE per priority), `Ack` (LREM) | worker loop, reclaimer, the API |
| Idempotency claim (`redis/idem.go`) | one key per job, 24h | `Claim` (SETNX), `Release` (DEL) | processor, reclaimer |
| Worker loop (`worker/worker.go`) | semaphore, wait group | `Run`, `finish` (Ack on a detached context) | queue, processor |
| Processor (`worker/processor.go`) | the job's context, the cancel watcher | claim, run, discriminate, publish | claim, publish guard, runners |
| Publish guard (`redis/reclaim.go`) | one marker key per job | `MarkPublished` before every event | processor, reclaimer |
| Reclaimer (`redis/reclaim.go`, `cmd/worker/reclaim_wiring.go`) | counter key per job; live set and de-duplication set of a sweep | read live ids, SCAN, RPOP, count, marker, release, requeue or fail | everything above, of dead peers |
| Heartbeat (`worker/heartbeat.go`) | one key per worker, 60s TTL, refreshed every 20s | `WriteOnce`, `Run` | reclaimer, reaper |
| Process (`cmd/worker/run.go`, `worker/startup.go`) | root context, grace timer | startup phases, drain, exit codes | all loops |
| Completion events (`events/events.go`, `redis/pubsub.go`) | none | split, validate, publish | processor, reclaimer |
| Warm pool (`tools/docker/warmpool.go`, `container.go`) | size, closed, channel of containers | `Checkout`, health check and replacement, `Return`, `Shutdown` | Docker daemon |
| Docker runner (`tools/docker/dockerrunner.go`) | none | `Run` on a pooled container | warm pool |
| Service runner (`tools/docker/service`) | one container per run | factory, readiness, release; `Get`, `PollUntil` | Docker daemon, the service |
| ZAP, MobSF (`service/zap`, `service/mobsf`) | the staged app (MobSF) | the scan's sequence of requests | service client |
| Container reaper (`tools/docker/reap.go`) | the live set it read | list labelled containers, remove those of dead workers | Docker daemon, heartbeat keys |
| Native runner (`tools/native.go`) | process, output buffers | start, drain output, cancel, exit-code policy | the tools |
| Recon (`tools/recon`) | none | subfinder, httpx, merge; tolerates one failing | native runner |
| Source staging (`internal/source`, `trivy/source_runner.go`) | a checkout per scan, on the host's disk | clone, clean up | git |
| Parsers and rules (`tools/*/parse.go`, `docker/*/parser.go`, `sslyze`) | none | tool output to findings, severity, fingerprint | runners |
| nikto's verification (`nikto/verify.go`) | answers memoised for one pass | ask for the reported path and for a control, drop or keep | the scanned site |
| nmap's target check (`docker/nmap/validation.go`) | none | reduce the spelling, refuse ranges, build the argument | docker runner |
| Cancel channel (`redis/pubsub.go`) | subscription, one-place event channel | converter and watcher goroutines | processor |
| Progress stream (`redis/stream.go`) | one stream per scan | XADD, best effort | recon, processor |

Hard behaviour, and where it comes from:

* **Two agents own a job at once.**  The worker that checked a job out and any
  peer's sweep act on the same list, claim, marker and counter, one Redis
  command at a time, and a sweep's decision rests on a live set read earlier.
* **Crashes.**  Between any two commands a process may die; the payload may
  then be only in a dead worker's list, or only in a dead sweep's memory.
* **Calls that fail, or succeed and lose their reply.**  The Redis client is
  used with its defaults, so a command whose reply does not come is sent again.
* **Contexts.**  The root context is cancelled at SIGTERM, the job's context by
  a user, a run's by its timeout; every clean-up must pick a context that
  outlives what it cleans up after.
* **Blocking.**  The pool's channel, the drain, a poll, a request, a pipe that
  a tool's helper keeps open, two goroutines that Process waits for.
* **Sharing a host.**  Worker processes share a Docker daemon and a staging
  disk, and a worker that starts cleans up after dead ones while others work.
* **Other people's output.**  A dozen tools with a dozen severity scales and
  report formats, any of which may die in the middle of its report; findings
  are merged by a fingerprint of six fields.

`PROJECT.json` lists the hazards with their lines and the property for each.

## 2. Modules

Delivery of jobs:

| Module | Models | State and steps |
|---|---|---|
| `Broker` | the shared Redis keys, the commands, the life of a process and its heartbeat key | `queue`, `processing`, `claim`, `marker`, `reclaims` are the keys; `outcomes` and `dispatched` are what the API sees |
| `WorkerLoop` | `Worker.Run`, `Processor.Process`, `Worker.finish` | `task[w][s]` is the goroutine that holds semaphore token `s`; one action per Redis call, with its error |
| `Reclaimer` | `runReclaimLoop`, `Reclaim`, `drainList`, `reclaimOne`, `requeue`, `fail` | `sweep[w]` is the reclaim goroutine; one action per Redis call, with its error |
| `JobDelivery` | the fleet: composes the three, adds start, heartbeat, expiry, shutdown, exit, crash | the properties of delivery, and fairness |
| `JobLife` | abstract: what the fleet promises of one job | `life`, `starts` |
| `JobRefinement` | the mapping from the fleet to `JobLife` | `ImplementsLife` |
| `MCJobDelivery` | constants and symmetry for TLC | |
| `JobDeliveryProofs` | types and the run budget; what each kind of step does to the lists; priorities, live lists, entries | theorems |
| `JobRefinementProofs` | one copy of a job, its claim, its marker, its Ack; the fleet implements `JobLife` | theorems |

One delivery, from inside the worker:

| Module | Models | State and steps |
|---|---|---|
| `CancelWatch` | the job's context, the converter of `CancelSubscriber`, the watcher of the processor | `root`, `own`, `sub`, `inbox`, `buffer`, `conv`, `watcher` |
| `NativeRun` | `NativeRunner.Run`: preflight, minted report file, start, output cap, timeout, cancellation, exit-code policy, parsing, post-processing | `proc`, `exit`, `written`, `closed`, `capped`, `held`, `tmp` |
| `Completion` | `SplitForCompletion`, event validation | operators |
| `ReconRun` | `RunRecon`: Subfinder, httpx, progress, attack surface | `subs`, `live`, `stream`, `out` |
| `JobRun` | `Processor.Process`: composes the four with claim, discrimination, publication and the deferred closes | `verdict`, `pending`, `answer` |
| `JobRunProofs` | theorems about it | |

Containers, services and the host:

| Module | Models | State and steps |
|---|---|---|
| `WarmPool` | the pool, its containers and the `DockerRunner.Run` calls that use it | `size`, `closed`, `available` as in the code; `call[r]` is where run `r` is |
| `WarmPoolProofs` | theorems about it | |
| `ServiceContainer` | the service runner's ephemeral container: factory, readiness, release, and the world around it | `pc`, `box`, `up`, `stuck`, `late`, `cancelled` |
| `ServiceClient` | `Get`, `PollUntil` | `polling`, `attempts` |
| `ZapScan`, `MobsfScan` | the two `BuildScan` closures, and the ZAP daemon as far as the scan observes it | |
| `ServiceRun` | composes the four: one `DockerServiceRunner.Run` | the properties of a service run |
| `ServiceRunProofs` | theorems about it | |
| `Reaper` | the containers of a host and the startup sweep: live ids, list, removal one by one | `box`, `key`, `live`, `todo` |
| `Staging` | `FsSourceRunner.Run`: clone, scan, clean-up in a directory named after the scan | `run`, `dir` |
| `WorkerHost` | `main` and `runMain` of the processes of one host: boot phases, registration, drain, grace timer, joins, pool shutdown, exit code; composes `Reaper` and `Staging` | `phase`, `signal`, `code` |
| `WorkerHostProofs` | theorems about it | |

From a tool's output to findings:

| Module | Models |
|---|---|
| `Findings` | identity and fingerprint of a finding, severities, the lenient field access of `jsonx` |
| `SourceReports` | the parsers of semgrep, gitleaks, checkov, dependency-check, trivy |
| `WebReports` | the parsers of nuclei, wapiti, ZAP, nmap and the rules of sslyze |
| `LineReports` | corstest's and sqlmap's line-by-line parsers, and what the two tools print |
| `MobileReports` | MobSF's sections |
| `NmapTarget` | the spelling of a target, the refused ranges, nmap's argument |
| `NiktoReport` | nikto's items and their classification |
| `NiktoVerify` | the verification pass and the site it asks, which may change between two requests |
| `Reports` | composes them: arguments, parse, verification, enrichment, and the properties of findings |
| `MCReports` | the reports TLC feeds the parsers |
| `ReportsProofs` | theorems about `Reports` |
| `SequenceFacts` | induction over the naturals and over sequences; what the community modules' `FlattenSeq` computes; used by `ReportsProofs` and `JobRunProofs` |

What the abstraction keeps and drops:

* In delivery a job is its idempotency key.  Payload text, findings,
  fingerprints and log lines are gone; what is left of a run's findings is how
  many completion events they take (`MaxParts`).  `JobRun` looks into one
  delivery, where a finding is the number of the record it came from, and
  `Reports` into one report.
* Every Redis command is one step, and an error of it is an action or a
  disjunct of its own: failed without effect (`redis`), took effect and lost
  the reply (`reply`).  A call on a cancelled context always fails.
  A SCAN is one step.
* `main.go` leaves the client's `MaxRetries` at go-redis' default: after a lost
  reply the command is sent again, up to `MaxResends` times, before the caller
  sees an error.  Where the second execution differs from the first it is a step
  of its own: the SETNX finds its own key (`ClaimResent`), the LMOVE and the
  RPOP take one more payload (`SweepError`, `PopOrphanLost`), the LREM one more
  copy (`RemoveResent`), the INCR counts again (`Increments`), the DEL frees a
  claim made in between (`ReleaseResent`), the RPUSH makes a second copy
  (`RequeueResent`).  The last is a fault of its own, `twice`, because a job
  with two copies is what a second dispatch makes of it.  A SET or PUBLISH sent
  again changes nothing the model tells apart: `outcomes` is a set, `out` the
  events and not their deliveries.
* The claim, marker and counter keys live 24 hours and do not expire in the
  model.  Only the heartbeat key does.
* `Pop` is one LMOVE per priority, not an atomic look at all of them.
* A sweep's 30s budget shows as calls that fail.
* Mutexes make critical sections atomic (`Grow`, `Put`, `Shutdown`); a
  send the Go runtime would hand straight to a waiting receiver is queued
  and may be taken by any receiver, which allows more behaviours.
* The clock of a service run is one flag, `late`, that may rise at any moment
  while a deadline is pending; it is lowered when a new deadline is set.  The
  timeout of a native tool and the grace timer are steps that may come at any
  moment.
* A tool writes records and then closes its report; one that dies, is killed
  or overflows its cap has written a prefix.  `job.long` is the first line too
  long for the scanner of a parser that reads lines; the parser stops there.
* A fingerprint is the sequence of pieces between the bars of the joined text.
  `Pieces`, a constant operator, says what the bars in a field's own text cut it
  into; SHA-256 is taken to be injective.
* A target of nmap is a name, a literal that `net.ParseIP` reads, or loose: an
  address to nmap and not to `net.ParseIP` (`Forms`).
* `WorkerHost` gives a process one source scan at a time; jobs of other kinds
  differ from it only in leaving no tree.
* A report is a small record: whether its body decodes, and records whose
  fields are present, absent or of another type.  Texts that only decorate a
  finding (titles, descriptions, references, metadata) are left out.  Where
  the code ranges over a Go map, the report lists the entries in any order.
* The observation variables `runs`, `reported`, `dropped`, `released`, `lost`,
  `leaked`, `knocks`, `seen`, `asked`, `owed`, `peers`, `stray` and
  `everBlocked` record history for the properties; no guard reads them.

Definitions whose names say what a broken version does (`AckOnWorkerContext`,
`AllKeys` beside `OrphanKeys`, `ReleaseOnContext`, `DecideByStatus`,
`ProbeSetUntargeted`, ...) are plausible bugs kept next to the definition they
distort.  No action uses them; each one shows that a property can be violated.

## 3. Runs

| Run | Shows | Instance |
|---|---|---|
| `Recovery` | `TypeOK`, `ReportedOnce`, `LiveListsUntouched`, `InFlightListed`, `NoSilentLoss`, and that the fleet implements `JobLife` (`ImplementsLife`) | 4 workers, 1 job in up to 2 events, 1 retry; crash, cancel, failed and reply-losing calls, 1 re-send |
| `Hostile` | `BoundedRuns` with everything else permitted to go wrong | 2 workers, 2 dispatches; lapse, join, dup, marker, reply, twice, 1 re-send |
| `Drain` | `PriorityKept`, `CompletedStands`, `Settled` under fairness | 2 workers, one of them stable; malformed, recon and unregistered jobs on 2 priorities; crash, shutdown, cancel |
| `Pool` | `Accounting`, `ReturnFindsRoom`, `OneOwner`, `CleanHandover`; `RunsEnd`, `ShutdownEmpties` under fairness | 3 runs, 3 container ids, 2 places; every trouble but a daemon that refuses to remove |
| `Service` | `NothingLeftBehind`, `FindingsComplete`, `DeathNoticed`; `RunEnds` under fairness | every job shape, every trouble, 2 attempts, 2 queued records |
| `Job` | `ReturnTells`, `SequenceWhole`, `CanceledAsked`, `LeavesNothing`, `CompletedMeansWhole`, `SurfaceFirst`; `ProcessReturns` under fairness | every kind of job and tool, every fault; 2 cancel messages, 3 records in events of 2, 2 subdomains kept of 2 lines |
| `Host` | `SweepThorough`, `SeesOwnTree`, `NoTreeForgotten`, `ExitHonest`, `PeersSafe`; `ShutdownEnds` under fairness | 2 processes, 2 containers, 1 scan both may be given; every fault |
| `Report` | `ToldApart`, `RankKept`, `RefusedNeverScanned`, `CorsExact`, `SqlmapExact`, `RealFileKept`, `PhantomsDropped` | pairs of records for every parser and the bodies a dying tool leaves; 3 CORS hosts; 2 parameters with 2 techniques; every spelling of a target; 2 directories and 2 changes of the site |

Recovery's refinement.  `JobLife` knows a job only as unknown, waiting,
running, telling, told or lost, and counts its starts.  `JobRefinement`
computes that from the fleet: told once a terminal event is out, running or
telling when some goroutine is there, waiting when a list or a sweep holds it,
lost otherwise.  That the fleet implements it says that no interleaving of
crashes, sweeps, failed calls, lost replies and commands sent again starts a
second runner beside a running one, starts one after the job was told or beyond
its budget, or takes a job from a worker that runs it to nowhere: a job is lost
only while it waits, which is in a sweep's hands or on the list of a worker that
took its own claim for another's.  It is checked for jobs dispatched once, and
without the faults `lapse`, `join`, `dup`, `twice`, `marker` and `shutdown`
(section 4 says what each of them would break).

Bounds.  Four workers are the smallest fleet in which one job can be run,
orphaned, swept, requeued, run and orphaned again, and swept by somebody who
was there for neither: two to die and two sweeps that race over the remains.
One retry (`MaxReclaims = 1`) makes both the retry and the exhausted budget
happen; two parts make a crash fall between two events of one run.  One re-send
is enough for a command to take effect twice, and the bound of `BoundedRuns`
grows with the number; the proofs hold for every `MaxResends`.  Two
dispatches suffice to put a copy of a job on the queue while another is
running or being swept.  Two priorities let a payload end on the wrong list.
The pool has more runs than places, so that they wait, and more ids than
places, so that containers are replaced.  In `Service`, two attempts give a
retry and an exhausted poll, and two records a queue that drains and grows
while it is polled.  In `Pool`, two hanging tools take every place from the
third run.  In `Job`, two cancel messages are one more than the event
channel holds, and three records in events of two give a full event, a partly
filled one and an empty report, and an over-long line falls on the first, a
middle or the last of them; two lines and a limit of two let Subfinder
repeat a host, repeat the target in other letters and print a blank.  In
`Host`, two processes are one that sweeps and one that is swept, dead, alive or
in between, with the same scan; with two containers a removal can fail half
way.  In `Report`, two records are what the properties compare; three hosts put
one with every fate before and after another; two changes let the site go down
and come back, or block and stop blocking, within one pass.  Workers without a
role are interchangeable, and `Recovery`, `Hostile` and `FindSweepLoss` use
that symmetry; their properties do not tell workers apart.  `Hostile` also has a
VIEW that leaves out what no guard and not its property reads.

`CHECK_DEADLOCK FALSE` everywhere: a fleet whose processes have exited, a pool
whose runs are done, a host whose processes ended and a run that has returned
may stop.

The type invariants of the other modules are stated with their variables; the
runs spend their time on the properties above.

### Fairness

`JobDelivery`: a goroutine of a live process is scheduled (weak fairness of
each slot's progress, of the empty sweep of `Pop` and of the reclaim loop); a
SCAN does not fail for ever (strong fairness of `ScanKeys`; the loop repeats
every sweep interval); keys with a TTL expire; a draining process exits,
because its grace timer is armed; a stable process starts.  Nothing forces a
crash, a shutdown, a cancel or a Redis error.  That a run returns is what
`ProcessReturns`, `RunsEnd` and `RunEnds` say of the three kinds of runner,
with the exceptions they name.  `WarmPool`: runs are scheduled, the daemon
answers its calls, and a run's context ends, since `DockerRunner.Run` gives it
a timeout.  That timeout does not reach the reading of a tool's output
(container.go:269-280), so a tool may hang there (`stuck`), and one that does
not is assumed to close its output some day.  `ServiceRun`: the goroutine is
scheduled and time passes; nothing is assumed of the service, of the object
store or of the user.  `JobRun`: the goroutines are scheduled, the run's
timeout fires and a killed process dies; nothing is assumed of users, Redis,
the tool, or a helper that inherited its output pipe.  `WorkerHost`: the main
goroutine of a live process is scheduled and its timers fire; nothing is
assumed of a scan.

### Where the code does not do what its comments say

Four of these are runs that TLC refutes:

* `FindSweepLoss` (`SweepLosesNothing`): SIGTERM between a sweep's RPOP and
  its requeue.  The rest of the sweep runs on the cancelled context, so the
  payload is on no list, without a crash ("failing to reclaim leaves jobs where
  they already are", reclaim.go:140).
* `FindOwnClaim` (`DroppedRepresented`): the SETNX of a claim takes effect, its
  reply is lost, the client sends it again and gets "false".  `Process` takes
  the job for a duplicate, the worker acknowledges it, and it is on no list and
  has no terminal event ("a duplicate that was dropped" is "already represented
  by one", worker.go:159-161; "key already claimed by another worker",
  idem.go:44).  `NoSilentLoss` excepts exactly these jobs (`dropped`).
* `FindCrashClean` (`CompletedMeansReport`): semgrep is a lenient tool whose
  parser takes an empty output for no findings.  It dies before its first byte
  and the job is reported completed.  nikto/parse.go:113-121 says why that must
  not be.  A lenient tool named by a path that does not start ends the same way:
  its *os.PathError is not the *exec.Error that native.go:338 looks for.
* `FindReapPeer` (`LivePeerUntouched`): a peer that registers between a
  container sweep's SCAN and its list is not in the live set, and its container
  is removed while in use ("a live peer's containers are never touched",
  reap_wiring.go:30-32).  `PeersSafe` is what does hold.

Known divergences that the models contain and no run is spent on:

* *Publish fails, worker lives on.*  "A reclaim will retry or fail it"
  (worker.go:179), but no sweep visits the list of a live worker or its own.
  `Settled` is checked without Redis failures.
* *Commands sent again* do more than their callers know: an LREM takes a second
  copy of the payload from the list of another goroutine of the process, a DEL
  a claim that another copy has just made, an INCR an attempt, an RPOP a second
  payload with its reply, an RPUSH adds a copy.  `BoundedRuns` counts the DELs;
  `InFlightListed` is stated for jobs with one copy or commands sent once.
* *A clean run during a drain* publishes on the cancelled context and is not
  reported, although processor.go:206-212 and worker.go:101-102 say it is.
  `ReturnTells` is what does hold: Process then returns an error and the job
  stays listed.
* *A context that ends during the boot of a service container* leaves the
  container, because the clean-up uses that context (spinup.go:77-78, 168-169).
  `NothingLeftBehind` excepts it.  The pool's start failure is the same
  (container.go:233); `OneOwner` and `ShutdownEmpties` except such containers
  by name (`leaked`).
* *A request that is never answered.*  `PollUntil`'s "independent guards"
  (client.go:170-171) are looked at between requests only, and a request has
  neither a timeout nor a context with a deadline (service.go:247-251).
  `RunEnds` excepts it.
* *A download that never ends.*  The R2 client has no timeout (r2.go:62-67) and
  the job's context no deadline: a store that stalls holds the run until the job
  is cancelled.  `RunEnds` excepts it.  The client of pre-signed URLs has one.
* *A tool that never closes its output.*  "cancel reaches the daemon-side exec
  process" (container.go:256-257), but the output is read from a hijacked
  connection that the context does not close (container.go:269-280), so neither
  the run's timeout nor a cancel ends the run.  It keeps its container and its
  place in the pool.  `RunsEnd` and `ShutdownEmpties` except that run and its
  container (`stuck`, `Occupied`), and say that the others are not held up by
  it for ever.
* *A helper that keeps the pipe.*  `cmd.Run` waits for the end of stdout after
  the tool was killed, and sets no WaitDelay.  `ProcessReturns` excepts it.
* *Join inside a sweep.*  The live set and the processing lists come from two
  SCANs.  A worker that registers and checks a job out between them is absent
  from the first and present in the second, and its live list is swept
  (reclaim_wiring.go:60 says it never is).  `LiveListsUntouched` holds without
  the fault `join` and fails with it; `BoundedRuns` holds with it.
* *Second dispatch.*  With the fault `dup`, releasing a claim can admit both
  copies of a job (idem.go:77 says it does not reopen a window).
* *Racing sweeps.*  The de-duplication set belongs to one sweep.  Two sweeps
  that divide a list holding two copies of a job can requeue one and fail the
  other (reclaim.go:157-161, 210-211).
* *Unwritable marker.*  The code publishes all the same and accepts a possible
  duplicate report after a crash; `ReportedOnce` is checked without the fault
  `marker`.
* *Failed Ack.*  Logged as such (worker.go:192); `CompletedStands` is checked
  without Redis errors for that reason.
* *Lost wake-up.*  A creation that fails lowers the pool's size and wakes
  nobody: a run blocked at `MaxSize` then waits for its own timeout although a
  place is free (warmpool.go:221).  `RunsEnd` still holds.
* *ZAP full mode* reads alerts without waiting for the passive queue
  (zap.go:141-150); `FindingsComplete` claims an empty queue for quick mode
  only.
* *A dead container is polled on.*  `PollUntil` has no liveness check like the
  readiness wait's; a container that dies in a scan costs the whole poll.
* *The next worker's sweep.*  docker_wiring.go says that containers left behind
  are "reaped by the NEXT worker's startup sweep"; a worker that starts within
  the 60 s of the dead one's key spares them.  `SweepThorough` speaks of
  processes that were dead and without a key.
* *A killed clone* leaves a partial tree and the next clone of that scan is
  refused; nothing removes it (`stray`).  A clean-up that fails is only logged
  (source_runner.go:140-146) and has the same effect.
* *Addresses only nmap can read.*  validateTarget passes whatever `net.ParseIP`
  does not read, as a name: an octet range, a wildcard, `127.1`, an address
  with a zone.  nmap reads them as addresses.  `RefusedNeverScanned` is about
  literals.
* *sqlmap output cut inside an injection block* has one delimiter; the slice
  bounds are reversed and the parser panics, although parser.go:56-58 says
  malformed input is handled gracefully.  Nothing recovers (`Panicked`).
* *nikto behind a blocking site.*  While the site answers every path with one
  page, a finding about a file that exists is dropped, although "dropping
  requires positive evidence" (verify.go).  `RealFileKept` excepts it.
* *Fingerprints that coincide*: all of trivy's, whose parser sets none of the
  fields that would tell two vulnerabilities apart (trivy/parser.go:90-105),
  though the fingerprint is the "primary-pass dedup key"
  (fingerprint.go:12-14); the techniques of one sqlmap parameter, ZAP alerts of
  one plugin that differ in `alertRef` only, most of MobSF's findings; nuclei's
  matches of one template at one place, whose matcher name is dropped
  (nuclei/parse.go:118-120); wapiti's paths `x` and `/x`, between which
  combineTargetPath makes no difference; and findings with a `|` in a field, as
  fingerprint.go says.  `ToldApart` is about rule and place as the parsers know
  them, and about findings without a bar.
* *Over-long lines.*  nuclei's and corstest's parsers stop at a line over their
  scanner's cap and drop the rest of the report without an error
  (nuclei/parse.go:87-93, corstest/parse.go:135-137), and the job completes.
  `CompletedMeansWhole` and `CorsExact` say what is reported then.
* *ZAP's alerts* are asked for up to 5000 (zap/parser.go:53).
* *Configuration and wiring.*  semgrep, gitleaks, checkov and dependency-check
  read `Target.SourcePath`, which the processor does not set; "set to 0 to
  disable" (native.go:92) meets a default of 50 MB; output called discarded
  (native.go:135) still fails a run at the cap; the configured worker id is
  replaced by a generated one; MobSF's runner is registered nowhere.

## 4. Proofs

The theorems hold for every value of the constants that satisfies the
assumptions below: any number of workers, slots, jobs, dispatches, retries,
containers, processes, scans, messages, records, attempts, lines and hosts,
where the runs have a handful.  Every invariant and every action property of the
passing runs is stated by one of them.  Eight modules hold them:
`JobRefinementProofs` extends `JobDeliveryProofs`; `JobRunProofs` and
`ReportsProofs` extend `SequenceFacts`; `WarmPoolProofs`, `WorkerHostProofs` and
`ServiceRunProofs` stand by themselves.

**Delivery, under every combination of faults.**

* `TypeCorrect`: `Spec => []TypeOK`.
* `RunsBounded`: `BoundedRuns`.  It is not inductive: it does not say why
  another claim cannot be granted.  The inductive invariant is `RunInv`:
  `TaskShape` and `SweepShape` (a goroutine past a point has what it needs in
  hand), `Tickets` (the attempt number a sweep decides on was handed out by the
  counter, to it alone, and no DEL but those it has sent itself used it) and
  `Ledger` (`runs[j]` is at most the number of DELs that freed a claim plus the
  claim that is held, and every such DEL is told from the others by its
  attempt, of `1..MaxReclaims`, and by how often it was sent again).  A claim
  admits a run only when free; only a DEL frees it; a ticket is good for one
  DEL and its `ResendLimit` re-sends; and INCR gives each number out once,
  whoever races.  Hence the bound `1 + MaxReclaims * (1 + ResendLimit)`, which
  is the code's `1 + MaxReclaims` where no reply is lost.
* `PrioritiesKept`: `PriorityKept`, from `Sorted` (the same, as types of the
  lists) and `HandShape`: a sweep that has a job in hand took it off the list
  at the head of its keys, so it pushes it back to the right queue.

**Delivery, with the faults excluded that falsify the property.**  Each theorem
names the faults it excludes.  `JobDeliveryProofs` first classifies the steps
once and for all by what they do to the copies of a job (`TaskEffect`,
`SweepEffect`, `PollEffect`, `ProcessEffect`, over `Queued(j)` and `Listed(w,
j)`, the number of its entries); everything after it argues about these kinds.

| Theorem | Property | Excludes | Inductive invariant |
|---|---|---|---|
| `LiveListsKept` | `LiveListsUntouched` | lapse, join | `Seen`: who is up has its key, is in the live set of a sweep between its SCANs, and is on no list a sweep has open |
| `DeliveriesListed` | `InFlightListed` | lapse, join; and re-sends, or else dup and twice | `Manned`: at least as many entries as goroutines, per job and process.  Duplicates are included where nothing is sent again: LREM removes one entry for one goroutine |
| `LossesKnown` | `NoSilentLoss` | lapse, join, dup, twice | `OneCopy` (queue, one list or one hand), `Claims` (who runs holds the claim, who comes finds it free), `Over` (an Ack follows an outcome), `HandledGone` (drainList's de-duplication never meets a job dispatched once), `Kept`; a job its own claim turned away is in `dropped` |
| `FindingsReportedOnce` | `ReportedOnce` | lapse, join, dup, twice, marker | `Told`: a job that was reported is marked and claimed; a sweep that releases found no marker |
| `CompletionsStand` | `CompletedStands` | lapse, join, dup, twice, redis, reply | `Guarded` (a process that owes an Ack has its key and no sweep has its list open, draining or not) and `Standing` (until somebody crashes, a completed job is on no list but that of a process that owes its Ack) |
| `FleetImplementsLife` | `ImplementsLife` | lapse, join, dup, twice, marker, shutdown | `Answered`: what was answered is not on its way to a run; the budget comes from `Ledger` |

`FleetImplementsLife` is the refinement of `JobLife`, step by step: for every
kind of step a lemma (`TaskLives`, `SweepLives`, `ProcessLives`) says which job
changes its life and how, and `NextLives` that this is a step of `JobLife` or
none.  A shutdown is excluded because the key of a draining worker may expire
while its goroutine still runs the tool, so that the job is at once running and
waiting; `Recovery` has no shutdown either, and `Drain` checks what is promised
across one.

Why the others are excluded: a key that lapses, or a process that registers
between a sweep's two SCANs, makes a running process look dead, and its list is
taken apart under it; a job dispatched twice, or requeued by an RPUSH that is
sent again, has two copies, of which a sweep's de-duplication may drop one and a
duplicate's Ack the other; an event whose
marker could not be written is not known to the sweep that retries the job; an
Ack that fails leaves a completed delivery to a later sweep, which fails it.

**The warm pool** (`WarmPoolProofs`), for every number of runs, containers and
places and every set of troubles.

* `PoolAccounted`: `TypeOK`, `Accounting`, `SizeBounded`.  The three are
  inductive once `HasContainer` is added (`PoolInv`): the bound follows from
  `Grow`'s guard, and that no place is given back twice from `Accounting`.
* `ReturnHasRoom`: `ReturnFindsRoom`.  A run at its send is a holder, so while
  the pool is open the channel has fewer than `MaxSize` containers: the
  "bug-shape" branch of `Return` is dead code.
* `ContainersOwned`: `OneOwner`, and `HandoverClean`: `CleanHandover`, from
  `OwnerInv`: the channel has no container twice and none that a run holds, a
  run between two containers holds none, what a run was given exists, what is
  in the channel is clean, and only a closed pool stops what was in it.

**The host** (`WorkerHostProofs`), for every number of processes, containers and
scans and every set of faults: `OwnTree`, `TreesRemembered`,
`ExitCodesHonest`, `SweepsThorough` and `PeersKept` (`SeesOwnTree`,
`NoTreeForgotten`, `ExitHonest`, `SweepThorough`, `PeersSafe`), all from
`HostCorrect: Spec => []HostInv`.  `HostInv` says who has a directory
(`TreesHeld`, `TreesKnown`), which phase goes with which exit code and what is
left to stop in it (`Codes`, `Blanks`, `AtWork`, `Drained`), and, for a sweep,
what it still owes and whom its live set covers (`Owes`, `PeersListed`).

**A service run** (`ServiceRunProofs`), for every job, set of troubles, number of
attempts, cookies and records: `NothingLeft`, `FindingsWhole`, `DeathsNoticed`
(`NothingLeftBehind`, `FindingsComplete`, `DeathNoticed`) from `ServiceInv`:
the container is `Run`'s from the factory to the release, the staged app lives
only within the scan, and a ZAP scan past a poll has seen what the poll waited
for (`Progressed`).

**One delivery** (`JobRunProofs`), for every job, tool, set of faults, number of
messages and records and every size of an event: `TerminalToldFirst`,
`CancellationsAsked`, `ReturnLeavesNothing`, `CompletionsWhole` (`ReturnTells`,
`CanceledAsked`, `LeavesNothing`, `CompletedMeansWhole`), `SequencesWhole`
(`SequenceWhole`) and `SurfaceListed` (`SurfaceFirst`).  `JobInv` relates the
phase of `Process` to the watcher and the contexts (`Watched`, `Asked`), to the
tool (`Held`, `Worth`), and to what is published and pending (`Flow`, `Sent`,
`Announced`).  `EventsNumbered` is the half of `SequenceWhole` that follows from
`JobInv`: numbers, totals, the one terminal event, the size of every event.  The
other half is arithmetic and a fold: the first `k` batches, joined, are the
findings up to the end of the `k`-th (`BatchesJoined`, by induction on `k`), and
`EventTotal` batches reach the end (`TotalEnough`).  For `SurfaceListed` the
invariant `Probing` says that the live hosts are some of the probes of the
subdomains kept, none twice; `ProbesFit` is about the fold behind `ProbeSet`: it
keeps one spelling of every name and loses none.

**Reports** (`ReportsProofs`), for every set of reports, of any length, that the
tools can write (`ReportsOf`), every site and every number of changes of it.

* `NeverScansRefused`: `RefusedNeverScanned`.  Whatever surrounds an IP
  literal, `NormalizeTarget` leaves the bare literal with the same ranges or no
  literal at all, and the ranges are looked at after it.  Of loose addresses it
  says nothing, as they pass.
* `DropsPhantoms`: `PhantomsDropped`, from `VerifyInv`: an answer in the cache
  is one the site can give to that path (`CacheFits`), exactly the answer of a
  site that is up while nothing went wrong (`QuietFits`), and what was dropped
  was dropped for a reason the property allows (`DropsFit`).
* `KeepsRealFiles`: `RealFileKept`, from `VerifyInv` and `OrderInv`: the
  findings given to the pass are, in order, those kept or dropped so far and
  those left (`Split`).  It needs the findings to differ from each other
  (`NiktoDistinct`), since a dropped finding is recognised by its value.
* `FingerprintsTellApart`: `ToldApart`, and `SeveritiesKept`: `RankKept`.  For
  every tool a set holds the findings its parser can make (`SemgrepMade`,
  `NmapMade`, ...) and a lemma says that the parser makes no other
  (`...Makes`).  For a pair of findings of such a set, equal fingerprints mean
  equal identities (`...Told`) and the scale is kept (`...Rated`).  `Pieces` is
  any operator: without a bar in a field the joined text gives the fields back
  (`JoinIsKey`).  `Answered` carries the parser's answer, stamped with
  fingerprints, through the phases of the run.
* `CorsReadsExactly`: `CorsExact`, and `SqlmapReadsExactly`: `SqlmapExact`.
  The two parsers are folds over lines that keep a record in flight.  The
  recursive function behind a fold is shown to exist, so that one more line is
  one more step (`TextFoldAppend`).  For corstest, reading one more host's
  lines appends its finding or nothing and leaves nothing in flight
  (`HostLinesFold`); the induction is over hosts.  The lines before the first
  over-long one are those of the hosts before it and a part of its own, without
  a status (`CutConcat`).  For sqlmap, dropping log lines distributes over
  concatenation (`StripConcat`), the two delimiters the parser looks for are
  the ones around the blocks (`RegionPlaces`), and the induction, over
  techniques and then over parameters, is about what the findings would be if
  the technique in flight were flushed (`Flushed`), which is why it holds at
  every line and the property only at the end.

**Induction over data.**  The library's induction theorems take an operator as a
parameter, which the provers cannot instantiate.  `SequenceFacts` states
induction for a *set* (`Induction`, `SequenceInduction`), proved from the
least element of a set of naturals, and from it what `FlattenSeq` computes: its
unfolding, its type, its elements, that parts without repetitions and without
common elements join to a whole without repetitions.

Assumptions on constants, evaluated by TLC in the runs: finitely many workers,
slots and pool runs; positive sizes, natural bounds and subsets of the named
faults and jobs; a value that stands for "no job" or "no container" is none;
no process is called `"none"`, the owner of what nobody owns; the reports given
to the parsers are reports of their tools (`InputsAssumption`: fields of the
types a decoder yields, items of a nikto report numbered apart, techniques of a
sqlmap report with a type, parameters with a name).

Only model-checked: the liveness properties `Settled`, `RunsEnd`,
`ShutdownEmpties`, `RunEnds`, `ProcessReturns` and `ShutdownEnds`, since
fairness and ENABLED are outside the prover; and that the five statements of
section 3 fail, which takes a counterexample and no proof.

## 5. Not modelled

* The warm-pool mode of the service runner and the client's `Post`, which no
  tool uses.
* The length of `exponentialInterval`; a wait is a step, however long.  Its
  overflow lands on the cap on every platform.
* Command lines: which flags a tool is started with.  Of the arguments only
  nmap's target is modelled.
* `nikto/tuning_table.go`: generated data, 7000 rows from a test's id to its
  category.  Three entries stand for all in `DbTestTuning`.
* Reading the environment and wiring, beyond that they may fail and where in
  the boot they do; the startup checks of binaries and services, which warn.
* Texts that decorate findings; dependency-check's composition of CVSS vectors.
* Docker's stream demultiplexing and the HTTP transport: I/O.
* The build guard and the deployment tests: static checks of the repository.

## 6. Plan

1. *Done.*  Job delivery: `Broker`, `WorkerLoop`, `Reclaimer`, `JobDelivery`;
   the run budget proved; the abstract life of a job and the refinement.
2. *Done.*  `WarmPool`, its accounting proved.
3. *Done.*  The service runner with ZAP and MobSF.
4. *Done.*  The host: reaper, staging, boot and exit.
5. *Done.*  One delivery: cancel watcher, native runner, recon, events.
6. *Done.*  Parsers, rules, nmap's target check, nikto's verification.
7. *Done.*  Proofs: the pool; delivery and the refinement of `JobLife`; the
   host; the service run; one delivery; reports.
8. Left: proofs of the liveness properties, for a prover with ENABLED and
   fairness.
