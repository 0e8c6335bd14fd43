------------------------------ MODULE CancelWatch ------------------------------
(***************************************************************************)
(* The job's context and the two goroutines that may end it: the converter *)
(* of CancelSubscriber, which turns Pub/Sub messages into cancel events,   *)
(* and the watcher of Processor.spawnCancelWatcher, which turns the first  *)
(* event into a cancelled context.                                         *)
(*                                                                         *)
(* The job's context is derived from the worker's: it is done when the     *)
(* worker stops, when the watcher cancels it, or when Process returns.     *)
(***************************************************************************)
EXTENDS Naturals, Sequences

CONSTANTS
  Faults,      \* what goes wrong: subset of FaultKinds
  MaxMessages  \* bound: messages published on the scan's cancel channel

FaultKinds == {"redis", "shutdown", "garbled", "start", "die", "overflow", "helper", "late"}

ASSUME CancelAssumption == Faults \subseteq FaultKinds /\ MaxMessages \in Nat

VARIABLES
  root,      \* the worker's context is cancelled
  own,       \* cancel() of the job's context was called
  sub,       \* the subscription: none, open or closed
  inbox,     \* messages of the subscription nobody has read
  buffer,    \* events in the one-place channel Events()
  conv,      \* the converter; "done" is between close(done) and close(events)
  watcher,   \* the watcher goroutine
  sent,      \* messages published so far
  asked      \* observation: a well-formed cancel message reached the subscription

watchVars == <<root, own, sub, inbox, buffer, conv, watcher, sent, asked>>

JobDone == root \/ own

WatchTypeOK ==
  /\ {root, own, asked} \subseteq BOOLEAN
  /\ sub \in {"none", "open", "closed"}
  /\ inbox \in Seq({"cancel", "garbled"}) /\ Len(inbox) <= MaxMessages
  /\ buffer \in 0..1
  /\ conv \in {"none", "loop", "send", "done", "gone"}
  /\ watcher \in {"none", "select", "exited"}
  /\ sent \in 0..MaxMessages

WatchInit ==
  /\ root = FALSE /\ own = FALSE /\ asked = FALSE
  /\ sub = "none" /\ inbox = <<>> /\ buffer = 0 /\ sent = 0
  /\ conv = "none" /\ watcher = "none"

(***************************************************************************)
(* NewCancelSubscriber and spawnCancelWatcher.  A failed handshake leaves  *)
(* the job without cancellation.                                           *)
(***************************************************************************)
Subscribe ==
  /\ \/ /\ ~JobDone
        /\ sub' = "open" /\ conv' = "loop" /\ watcher' = "select"
     \/ /\ JobDone \/ "redis" \in Faults
        /\ UNCHANGED <<sub, conv, watcher>>
  /\ UNCHANGED <<root, own, inbox, buffer, sent, asked>>

\* The API publishes on the scan's cancel channel; nobody hears it unless
\* the subscription is open and read.
Message ==
  /\ sub = "open" /\ conv \in {"loop", "send"}
  /\ sent < MaxMessages
  /\ sent' = sent + 1
  /\ \E m \in {"cancel"} \cup ({"garbled"} \cap Faults) :
       inbox' = Append(inbox, m) /\ asked' = (asked \/ m = "cancel")
  /\ UNCHANGED <<root, own, sub, buffer, conv, watcher>>

(***************************************************************************)
(* CancelSubscriber.run.                                                   *)
(***************************************************************************)
ConverterReadsAnything ==
  /\ conv = "loop"
  /\ inbox # <<>>
  /\ inbox' = Tail(inbox)
  /\ conv' = "send"
  /\ UNCHANGED <<root, own, sub, buffer, watcher, sent, asked>>

\* A payload that does not parse is dropped.
ConverterReads ==
  /\ conv = "loop"
  /\ inbox # <<>>
  /\ inbox' = Tail(inbox)
  /\ conv' = IF Head(inbox) = "cancel" THEN "send" ELSE "loop"
  /\ UNCHANGED <<root, own, sub, buffer, watcher, sent, asked>>

ConverterSends ==
  /\ conv = "send"
  /\ buffer = 0
  /\ buffer' = 1
  /\ conv' = "loop"
  /\ UNCHANGED <<root, own, sub, inbox, watcher, sent, asked>>

SendIgnoresContext ==
  /\ conv = "loop"
  /\ JobDone \/ (sub = "closed" /\ inbox = <<>>)
  /\ conv' = "done"
  /\ UNCHANGED <<root, own, sub, inbox, buffer, watcher, sent, asked>>

\* The context ended, or the subscription was closed and its messages read.
\* A blocked send ends with the context only.
ConverterStops ==
  /\ \/ conv \in {"loop", "send"} /\ JobDone
     \/ conv = "loop" /\ sub = "closed" /\ inbox = <<>>
  /\ conv' = "done"
  /\ UNCHANGED <<root, own, sub, inbox, buffer, watcher, sent, asked>>

\* The deferred calls: close(done) has run, close(events) is next.
ConverterExits ==
  /\ conv = "done"
  /\ conv' = "gone"
  /\ UNCHANGED <<root, own, sub, inbox, buffer, watcher, sent, asked>>

(***************************************************************************)
(* The watcher: whichever case of its select is ready.                     *)
(***************************************************************************)
WatcherCancels ==
  /\ watcher = "select"
  /\ buffer = 1
  /\ buffer' = 0
  /\ own' = TRUE
  /\ watcher' = "exited"
  /\ UNCHANGED <<root, sub, inbox, conv, sent, asked>>

WatcherStops ==
  /\ watcher = "select"
  /\ JobDone \/ (conv = "gone" /\ buffer = 0)
  /\ watcher' = "exited"
  /\ UNCHANGED <<root, own, sub, inbox, buffer, conv, sent, asked>>

(***************************************************************************)
(* The deferred calls of Process, in their order: Close the subscription   *)
(* and wait for the converter's done, wait for the watcher, cancel().      *)
(***************************************************************************)
CloseSubscription ==
  /\ sub' = IF sub = "open" THEN "closed" ELSE sub
  /\ UNCHANGED <<root, own, inbox, buffer, conv, watcher, sent, asked>>

Closed == conv \in {"none", "done", "gone"}
WatcherGone == watcher \in {"none", "exited"}

CancelOwn ==
  /\ own' = TRUE
  /\ UNCHANGED <<root, sub, inbox, buffer, conv, watcher, sent, asked>>

\* A signal ends the worker's context.
Shutdown ==
  /\ "shutdown" \in Faults
  /\ ~root
  /\ root' = TRUE
  /\ UNCHANGED <<own, sub, inbox, buffer, conv, watcher, sent, asked>>

Goroutines ==
  \/ ConverterReads
  \/ ConverterSends
  \/ ConverterStops
  \/ ConverterExits
  \/ WatcherCancels
  \/ WatcherStops

===============================================================================
