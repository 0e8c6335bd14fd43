----------------------------- MODULE ServiceClient -----------------------------
(***************************************************************************)
(* The HTTP client of a scan (Client.Get, Client.PollUntil).  A request    *)
(* ends with the service's answer, with an error, or with the job's        *)
(* context; it has no timeout of its own.                                  *)
(***************************************************************************)
EXTENDS ServiceContainer

CONSTANT MaxAttempts   \* PollOpts.MaxAttempts

ASSUME AttemptsAssumption == MaxAttempts \in Nat \ {0}

VARIABLES
  polling,   \* what PollUntil waits for
  attempts   \* finished attempts of PollUntil

clientVars == <<polling, attempts>>

ClientInit == polling = "none" /\ attempts = 0

\* The three ways a request ends.  Retryable is a network error, a 5xx or a
\* 429; Permanent any other status, or a body that cannot be parsed.
Answered == up /\ ~stuck /\ ~cancelled
Retryable == cancelled \/ ~up \/ (~stuck /\ "http" \in Troubles)
Permanent == Answered /\ "http" \in Troubles
RequestFails == Retryable \/ Permanent

Goto(p) ==
  /\ pc' = p
  /\ UNCHANGED <<cancelled, box, up, stuck, late, acquired, result, knocks>>

FailTo(p) ==
  /\ pc' = p
  /\ result' = "error"
  /\ UNCHANGED <<cancelled, box, up, stuck, late, acquired, knocks>>

\* PollUntil begins: a fresh deadline and no attempt made.
StartPoll(what) ==
  /\ pc' = "poll"
  /\ late' = FALSE
  /\ polling' = what
  /\ attempts' = 0
  /\ UNCHANGED <<cancelled, box, up, stuck, acquired, result, knocks>>

\* The head of the loop: both guards, before the request and only there.
PollHead(then) ==
  /\ pc = "poll"
  /\ \/ attempts < MaxAttempts /\ ~late /\ Goto("get")
     \/ (attempts = MaxAttempts \/ late) /\ FailTo(then)
  /\ UNCHANGED clientVars

\* An attempt that does not end the poll: the predicate says no, or the
\* request failed in a way worth a retry.
PollAgain(done) ==
  /\ pc = "get"
  /\ (Answered /\ ~done) \/ Retryable
  /\ Goto("backoff")
  /\ UNCHANGED clientVars

PollFails(then) ==
  /\ pc = "get"
  /\ Permanent
  /\ FailTo(then)
  /\ UNCHANGED clientVars

PollSucceeds(done) ==
  /\ pc = "get"
  /\ Answered /\ done

\* The sleep between two attempts; the context cuts it short.
Backoff(then) ==
  /\ pc = "backoff"
  /\ UNCHANGED polling
  /\ \/ cancelled /\ FailTo(then) /\ UNCHANGED attempts
     \/ ~cancelled /\ Goto("poll") /\ attempts' = attempts + 1

===============================================================================
