----------------------------- MODULE NiktoVerify -----------------------------
(***************************************************************************)
(* The pass that runs between nikto's parser and the enrichment of its    *)
(* findings (nikto/verify.go): every file-existence finding is tried      *)
(* again next to a control, a random name of the same kind in the same    *)
(* directory, and is dropped when both answers are the same.  Answers are *)
(* memoised per URL, errors included; the whole pass has a budget.        *)
(*                                                                         *)
(* The site is the environment: which files it really has, what each      *)
(* directory answers for a name it does not have, and whether it answers  *)
(* at all, which may change between two requests.                         *)
(***************************************************************************)
EXTENDS NiktoReport

CONSTANTS Dirs,        \* the directories of the site
          Flaps        \* bound: how often the site changes its state

VARIABLES vstep,       \* off, pick, control, done
          todo,        \* the findings not yet looked at
          kept,        \* the findings kept, in order
          dropped,     \* the findings dropped (in the code, a log line)
          cache,       \* URL -> answer of this pass
          passCtx,     \* live | over
          real,        \* the uris that are files of the site
          serves,      \* directory -> what it answers for a name it does not have
          site,        \* up | blocked | down
          flaps,       \* changes of the site so far
          everBlocked  \* has the site answered every path with one page

verifyVars == <<vstep, todo, kept, dropped, cache, passCtx>>
siteVars == <<real, serves, site, flaps, everBlocked>>

SiteInit(uris) ==
  /\ real \in SUBSET uris
  /\ serves \in [Dirs -> {"shell", "404"}]
  /\ site \in {"up", "blocked", "down"}
  /\ flaps = 0
  /\ everBlocked = (site = "blocked")

VerifyInit ==
  /\ vstep = "off"
  /\ todo = <<>> /\ kept = <<>> /\ dropped = <<>> /\ cache = <<>>
  /\ passCtx = "live"

(************************** the site's answers *****************************)

Probe(err, usable, status, body) ==
  [err |-> err, usable |-> usable, status |-> status, body |-> body]

\* A request that fails, one way or another, within its time or not.
FailedProbe == Probe(TRUE, FALSE, 0, "")

\* A file named "big" is over the cap on what is compared.
Answer(url) ==
  CASE site = "down" -> FailedProbe
    [] site = "blocked" -> Probe(FALSE, TRUE, 403, "blocked")
    [] site = "up" /\ url.uri \in real /\ url.uri.base = "big" -> Probe(FALSE, FALSE, 200, "")
    [] site = "up" /\ url.uri \in real /\ url.uri.base # "big" -> Probe(FALSE, TRUE, 200, url.uri.base)
    [] site = "up" /\ url.uri \notin real ->
         IF serves[url.uri.parent] = "shell" THEN Probe(FALSE, TRUE, 200, "shell")
         ELSE Probe(FALSE, TRUE, 404, "notFound")

SiteChanges ==
  /\ vstep \in {"pick", "control"}
  /\ flaps < Flaps
  /\ site' \in {"up", "blocked", "down"} \ {site}
  /\ flaps' = flaps + 1
  /\ everBlocked' = (everBlocked \/ site' = "blocked")
  /\ UNCHANGED <<real, serves, verifyVars>>

(******************************* the pass **********************************)

\* Mutant: the control is looked for at the site's root.
ControlAtRoot(url) ==
  IF url.site = None \/ url.uri \in {NoPath, Root} \/ url.uri.bucket = "odd" THEN {}
  ELSE {[url EXCEPT !.uri.base = "nonce", !.uri.parent = "/"]}

\* The control's URL; none for a URL without a host, for the root, and for an
\* extension that cannot be imitated.
ControlURLFor(url) ==
  IF url.site = None \/ url.uri \in {NoPath, Root} \/ url.uri.bucket = "odd" THEN {}
  ELSE {[url EXCEPT !.uri.base = "nonce"]}

\* fetch: the memoised answer, or that of a request under the pass's context.
Fetch(url) ==
  CASE url \in DOMAIN cache -> cache[url]
    [] url \notin DOMAIN cache /\ passCtx = "over" -> FailedProbe
    [] OTHER -> Answer(url)

Remember(url) ==
  cache' = [u \in DOMAIN cache \cup {url} |-> IF u = url THEN Fetch(url) ELSE cache[u]]

\* Mutant: the same status is taken for the same answer.
DecideByStatus(target, control) ==
  /\ ~target.err /\ ~control.err
  /\ target.usable /\ control.usable
  /\ target.status = control.status

\* Only two usable answers with the same status and the same bytes drop.
Decide(target, control) ==
  /\ ~target.err /\ ~control.err
  /\ target.usable /\ control.usable
  /\ target.status = control.status /\ target.body = control.body

\* Nothing to verify, or no random name to be had: the findings go on as
\* they are.
Begin(findings) ==
  /\ vstep = "off"
  /\ \/ /\ \E f \in Range(findings) : IsExistenceCheck(f.type)
        /\ vstep' = "pick" /\ todo' = findings /\ kept' = <<>>
     \/ vstep' = "done" /\ todo' = <<>> /\ kept' = findings
  /\ UNCHANGED <<dropped, cache, passCtx, siteVars>>

Keep == /\ kept' = Append(kept, Head(todo))
        /\ todo' = Tail(todo)
        /\ vstep' = "pick"
        /\ UNCHANGED dropped

KeepOther ==
  /\ vstep = "pick" /\ todo # <<>>
  /\ ~IsExistenceCheck(Head(todo).type)
  /\ Keep
  /\ UNCHANGED <<cache, passCtx, siteVars>>

\* The context is over, or no control can be built.
KeepUntried ==
  /\ vstep = "pick" /\ todo # <<>>
  /\ IsExistenceCheck(Head(todo).type)
  /\ passCtx = "over" \/ ControlURLFor(Head(todo).url) = {}
  /\ Keep
  /\ UNCHANGED <<cache, passCtx, siteVars>>

FetchTarget ==
  /\ vstep = "pick" /\ todo # <<>>
  /\ IsExistenceCheck(Head(todo).type)
  /\ passCtx = "live" /\ ControlURLFor(Head(todo).url) # {}
  /\ Remember(Head(todo).url)
  /\ IF Fetch(Head(todo).url).err THEN Keep
     ELSE vstep' = "control" /\ UNCHANGED <<todo, kept, dropped>>
  /\ UNCHANGED <<passCtx, siteVars>>

FetchControl ==
  /\ vstep = "control"
  /\ \E control \in ControlURLFor(Head(todo).url) :
       /\ Remember(control)
       /\ IF Decide(cache[Head(todo).url], Fetch(control))
          THEN /\ dropped' = Append(dropped, Head(todo))
               /\ todo' = Tail(todo)
               /\ vstep' = "pick"
               /\ UNCHANGED kept
          ELSE Keep
  /\ UNCHANGED <<passCtx, siteVars>>

\* Two minutes are up, or the run's own context has ended.
BudgetEnds ==
  /\ vstep \in {"pick", "control"} /\ passCtx = "live"
  /\ passCtx' = "over"
  /\ UNCHANGED <<vstep, todo, kept, dropped, cache, siteVars>>

PassEnds ==
  /\ vstep = "pick" /\ todo = <<>>
  /\ vstep' = "done"
  /\ UNCHANGED <<todo, kept, dropped, cache, passCtx, siteVars>>

VerifyNext ==
  \/ SiteChanges \/ KeepOther \/ KeepUntried \/ FetchTarget \/ FetchControl
  \/ BudgetEnds \/ PassEnds
=============================================================================
