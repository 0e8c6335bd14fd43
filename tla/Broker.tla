-------------------------------- MODULE Broker --------------------------------
(***************************************************************************)
(* The Redis keys that the workers of the fleet share, the commands issued *)
(* on them, and the life of a worker process with its heartbeat key.       *)
(*                                                                         *)
(* Every Redis command is one atomic step.  A job is named by its          *)
(* idempotency key; two dispatches of one job are two copies of one name,  *)
(* because LREM, the claim, the marker and the counter tell copies apart   *)
(* no better than that.  Lists keep Redis' orientation: the left end is    *)
(* index 1.  The 24-hour TTL of the claim, marker and counter keys is      *)
(* longer than any behaviour considered here, so those keys do not expire. *)
(*                                                                         *)
(* Faults names what the environment may do beyond the ordinary:           *)
(*   crash    a process dies at any point                                  *)
(*   shutdown a process receives SIGTERM and drains                        *)
(*   redis    a Redis call fails without effect                            *)
(*   reply    a Redis call takes effect and its reply is lost: the client  *)
(*            sends the command again, and may report an error in the end  *)
(*   twice    an RPUSH sent again pushes a second copy (only with "reply") *)
(*   marker   the publish marker alone cannot be written                   *)
(*   lapse    the heartbeat key of a running process expires               *)
(*   join     a process registers between the two SCANs of a peer's sweep  *)
(*   dup      the same job is dispatched more than once                    *)
(*   cancel   the user cancels a running job                               *)
(*                                                                         *)
(* The client of go-redis is used with its defaults: a command whose reply *)
(* does not come is sent again.  That is a step of its own wherever the    *)
(* second execution does something the first did not; a second SET, or a   *)
(* second PUBLISH of the same event, changes nothing the model tells apart.*)
(***************************************************************************)
EXTENDS Naturals, Sequences, FiniteSets, SequencesExt

CONSTANTS
  Workers,        \* worker processes; an id is never used by two processes
  Stable,         \* the workers that neither crash nor are told to stop
  Jobs,           \* well-formed or malformed payloads, by idempotency key
  Malformed,      \* the payloads decodeJobDispatch rejects
  NoJob,          \* "no payload in hand"
  NumPriorities,  \* length of canonicalPriorities
  PriorityOf,     \* the priority each job is dispatched with; 1 is highest
  MaxDispatch,    \* bound: dispatches of one job when "dup" is a fault
  MaxResends,     \* redis.Options.MaxRetries, 3 unless set
  Faults

AllFaults == {"crash", "shutdown", "redis", "reply", "twice", "marker", "lapse",
              "join", "dup", "cancel"}

Priorities == 1..NumPriorities

ASSUME BrokerAssumption ==
  /\ IsFiniteSet(Workers)
  /\ Stable \subseteq Workers
  /\ Malformed \subseteq Jobs
  /\ NoJob \notin Jobs
  /\ NumPriorities \in Nat \ {0}
  /\ PriorityOf \in [Jobs -> Priorities]
  /\ MaxDispatch \in Nat \ {0}
  /\ MaxResends \in Nat
  /\ Faults \subseteq AllFaults

VARIABLES
  status,      \* status[w]: the process of w
  beat,        \* beat[w]: the key shieldscan:workers:w exists
  queue,       \* queue[p]: the dispatch list of priority p
  processing,  \* processing[w][p]: the in-flight list of worker w
  claim,       \* the jobs whose idempotency key is set
  marker,      \* the jobs whose published key is set
  reclaims,    \* reclaims[j]: the reclaim counter
  outcomes,    \* outcomes[j]: the statuses of j's terminal completion events
  dispatched   \* dispatched[j]: how often the API dispatched j

fleetVars == <<status, beat>>
listVars  == <<queue, processing>>
keyVars   == <<claim, marker, reclaims>>
apiVars   == <<outcomes, dispatched>>

Statuses == {"new", "up", "draining", "down", "crashed"}
Verdicts == {"completed", "failed", "canceled"}

BrokerTypeOK ==
  /\ status \in [Workers -> Statuses]
  /\ beat \in [Workers -> BOOLEAN]
  /\ queue \in [Priorities -> Seq(Jobs)]
  /\ processing \in [Workers -> [Priorities -> Seq(Jobs)]]
  /\ claim \subseteq Jobs
  /\ marker \subseteq Jobs
  /\ reclaims \in [Jobs -> Nat]
  /\ outcomes \in [Jobs -> SUBSET Verdicts]
  /\ dispatched \in [Jobs -> Nat]

BrokerInit ==
  /\ status = [w \in Workers |-> "new"]
  /\ beat = [w \in Workers |-> FALSE]
  /\ queue = [p \in Priorities |-> <<>>]
  /\ processing = [w \in Workers |-> [p \in Priorities |-> <<>>]]
  /\ claim = {}
  /\ marker = {}
  /\ reclaims = [j \in Jobs |-> 0]
  /\ outcomes = [j \in Jobs |-> {}]
  /\ dispatched = [j \in Jobs |-> 0]

(***************************************************************************)
(* What a call on the worker's context can do.  Once the root context is   *)
(* cancelled every such call returns its error without reaching Redis.     *)
(***************************************************************************)
Works(w)      == status[w] = "up"
Fails(w)      == status[w] = "draining" \/ (status[w] = "up" /\ "redis" \in Faults)
LosesReply(w) == status[w] = "up" /\ "reply" \in Faults

\* The reply is lost and the command, sent n times again so far, is sent again.
ResendLimit   == IF "reply" \in Faults THEN MaxResends ELSE 0
Resends(w, n) == LosesReply(w) /\ n < ResendLimit

(***************************************************************************)
(* List commands.                                                          *)
(***************************************************************************)
\* LMOVE queue:p -> processing:w:p, RIGHT to LEFT
LMove(w, p) ==
  /\ queue' = [queue EXCEPT ![p] = Front(@)]
  /\ processing' = [processing EXCEPT ![w][p] = Cons(Last(queue[p]), @)]

Positions(s, j) == {i \in 1..Len(s) : s[i] = j}

\* LREM processing:w:p 1 payload: the leftmost match goes, if there is one
LRem(w, j) ==
  processing' = [processing EXCEPT ![w][PriorityOf[j]] =
                   IF Positions(@, j) = {} THEN @ ELSE RemoveAt(@, Min(Positions(@, j)))]

\* RPOP processing:v:p
RPop(v, p) == processing' = [processing EXCEPT ![v][p] = Front(@)]

\* RPUSH queue:p payload, the end the consumers take from
RPush(p, j) == queue' = [queue EXCEPT ![p] = Append(@, j)]

\* The API pushes a job on the left of its priority queue (ScanQueue.dispatch)
Dispatch(j) ==
  /\ dispatched[j] < (IF "dup" \in Faults THEN MaxDispatch ELSE 1)
  /\ dispatched' = [dispatched EXCEPT ![j] = @ + 1]
  /\ queue' = [queue EXCEPT ![PriorityOf[j]] = Cons(j, @)]
  /\ UNCHANGED <<fleetVars, processing, keyVars, outcomes>>

(***************************************************************************)
(* Heartbeat.  Refresh is the ticker of Heartbeat.Run, Register the        *)
(* WriteOnce of startup phase 4, Expire the 60s TTL running out.           *)
(***************************************************************************)
Register(w) ==
  /\ status[w] = "new"
  /\ status' = [status EXCEPT ![w] = "up"]
  /\ beat' = [beat EXCEPT ![w] = TRUE]

\* Phase 4 is fail-fast: runMain returns exit code 1 before any loop starts
RegisterFails(w) ==
  /\ status[w] = "new"
  /\ "redis" \in Faults
  /\ w \notin Stable
  /\ status' = [status EXCEPT ![w] = "down"]
  /\ UNCHANGED beat

Refresh(w) ==
  /\ status[w] = "up"
  /\ ~beat[w]
  /\ beat' = [beat EXCEPT ![w] = TRUE]
  /\ UNCHANGED status

===============================================================================
