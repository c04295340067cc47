------------------------------ MODULE Polling ------------------------------
(***************************************************************************)
(* One tab of the console once its user is signed in: the page it shows,   *)
(* the hook usePolling that page mounts, the calls in flight, and the      *)
(* handler of 401 answers that every call shares (lib/api.ts).             *)
(*                                                                         *)
(* A call is sent, handled by the service, and its answer delivered later, *)
(* or it is lost; calls overlap, and no call waits for another.  The hook  *)
(* polls by the clock, whatever has become of the previous call.           *)
(* Pages of Lists have a component each; those of Details share one        *)
(* (EstablishmentDetail), so going from one to another keeps the hook's    *)
(* state and only runs its effect again.  Those of Placeholders mount no   *)
(* hook and make no call.                                                  *)
(***************************************************************************)
EXTENDS Integers, FiniteSets

CONSTANTS
  Lists,        \* addresses of the pages with a component of their own
  Details,      \* addresses of the detail page
  Placeholders, \* addresses behind the login whose page is only a text
  NoPage,       \* the login page, or no page yet
  Calls,        \* bound: calls in flight at once
  MaxVersion    \* bound: changes of what the service answers

Polled == Lists \cup Details
Pages  == Polled \cup Placeholders

ASSUME PagesAssumption   ==
  Lists \cap Details = {} /\ Polled \cap Placeholders = {} /\ NoPage \notin Pages
ASSUME VersionAssumption == MaxVersion \in Nat

VARIABLES
  page,     \* the page that is mounted
  shown,    \* the state of its hook, and the freshness last drawn
  calls,    \* the calls in flight
  session,  \* whether the service accepts the cookie of the tab
  service,  \* "up", "failing" (answers are errors) or "unreachable"
  version,  \* what the service would answer with, by age
  opened    \* when the effect began, and whether it has got data (for the properties)

vars == <<page, shown, calls, session, service, version, opened>>

-----------------------------------------------------------------------------
(* Data. *)

\* `old`: the telemetry is older than STALE_AFTER_MIN by now.
NoData == [page |-> NoPage, version |-> 0, old |-> FALSE]

\* The state of a hook just mounted; here `old` is what the freshness was when
\* the page was last drawn, not what it is by now.
Fresh == [data |-> NoData, loading |-> TRUE, error |-> "none", old |-> FALSE]

Free == [status |-> "free", page |-> NoPage, live |-> FALSE, version |-> 0]

\* What the page draws: the order of the tests is that of the pages' Body.
View ==
  IF shown.loading /\ shown.data = NoData THEN "loading"
  ELSE IF shown.error # "none" THEN "error"
  ELSE IF shown.data = NoData THEN "blank"
  ELSE "data"

\* Mutant: the effect has no cleanup.
CancelledNone == calls

\* The cleanup of the effect: its calls no longer have a say.
Cancelled == [i \in Calls |-> [calls[i] EXCEPT !.live = FALSE]]

Sent(p) == [status |-> "sent", page |-> p, live |-> TRUE, version |-> 0]

\* Mutant: an answer without a body passes for data.
SettledUnchecked(c, old) ==
  IF c.status \in {"ok", "empty"}
    THEN [data |-> IF c.status = "ok" THEN [page |-> c.page, version |-> c.version, old |-> old]
                                      ELSE NoData,
          loading |-> FALSE, error |-> "none", old |-> old]
    ELSE [shown EXCEPT !.loading = FALSE, !.error = "http", !.old = shown.data.old]

\* Mutant: the freshness is drawn when the page is, and kept.
SettledOldBadge(c, old) ==
  IF c.status = "ok"
    THEN [data |-> [page |-> c.page, version |-> c.version, old |-> old],
          loading |-> FALSE, error |-> "none", old |-> shown.old]
    ELSE [shown EXCEPT !.loading = FALSE, !.error = "http"]

\* The hook's state after the answer `c`, and the freshness it is drawn with.
Settled(c, old) ==
  IF c.status = "ok"
    THEN [data |-> [page |-> c.page, version |-> c.version, old |-> old],
          loading |-> FALSE, error |-> "none", old |-> old]
    ELSE [shown EXCEPT !.loading = FALSE, !.error = "http", !.old = shown.data.old]

-----------------------------------------------------------------------------
(* The user. *)

\* Page p is mounted; the effect of its hook, if it has one, makes a first call at once.
Mount(p, others, state) ==
  /\ page' = p
  /\ shown' = state
  /\ \/ p \in Placeholders /\ calls' = others
     \/ /\ p \in Polled
        /\ \E i \in Calls : /\ calls[i].status = "free"
                            /\ calls' = [others EXCEPT ![i] = Sent(p)]
  /\ opened' = [version |-> version, answered |-> FALSE]

\* A login that succeeds, or a reload with a valid cookie, ends on a page.
Enter(p) ==
  /\ page = NoPage
  /\ session' = TRUE
  /\ Mount(p, calls, Fresh)
  /\ UNCHANGED <<service, version>>

\* A link, or the history of the browser.
Navigate(p) ==
  /\ page # NoPage /\ p # page
  /\ Mount(p, Cancelled,
           IF {page, p} \subseteq Details THEN [shown EXCEPT !.old = shown.data.old] ELSE Fresh)
  /\ UNCHANGED <<session, service, version>>

Unmount(others) ==
  /\ page' = NoPage
  /\ shown' = Fresh
  /\ calls' = others
  /\ UNCHANGED opened

\* POST /api/auth/logout has been answered: the cookie is gone, the calls are not.
Logout ==
  /\ page # NoPage
  /\ session' = FALSE
  /\ Unmount(Cancelled)
  /\ UNCHANGED <<service, version>>

\* The document is left: nothing is delivered to it any more.
Reload ==
  /\ page # NoPage
  /\ Unmount([i \in Calls |-> Free])
  /\ UNCHANGED <<session, service, version>>

-----------------------------------------------------------------------------
(* The hook. *)

\* Mutant: the timer is cleared by an error.
PollUntilError ==
  /\ page \in Polled /\ shown.error = "none"
  /\ \E i \in Calls : /\ calls[i].status = "free"
                      /\ calls' = [calls EXCEPT ![i] = Sent(page)]
  /\ UNCHANGED <<page, shown, session, service, version, opened>>

\* The timer fires, whether or not the previous call was answered.
Poll ==
  /\ page \in Polled
  /\ \E i \in Calls : /\ calls[i].status = "free"
                      /\ calls' = [calls EXCEPT ![i] = Sent(page)]
  /\ UNCHANGED <<page, shown, session, service, version, opened>>

\* An answer other than 401: the hook whose effect was cleaned up ignores it.
Settle(i) ==
  /\ calls[i].status \in {"ok", "empty", "error"}
  /\ calls' = [calls EXCEPT ![i] = Free]
  /\ \/ ~calls[i].live /\ UNCHANGED <<shown, opened>>
     \/ /\ calls[i].live
        /\ \E old \in BOOLEAN : shown' = Settled(calls[i], old)
        /\ opened' = [opened EXCEPT !.answered = @ \/ calls[i].status = "ok"]
  /\ UNCHANGED <<page, session, service, version>>

\* Mutant: 401 is an error like another.
ExpelIgnored(i) ==
  /\ calls[i].status = "refused"
  /\ calls' = [calls EXCEPT ![i] = Free]
  /\ shown' = IF calls[i].live THEN Settled(calls[i], FALSE) ELSE shown
  /\ UNCHANGED <<page, session, service, version, opened>>

\* 401: api() calls the handler of AuthProvider before the hook sees the answer,
\* so a call that was cleaned up has this effect too.
Expel(i) ==
  /\ calls[i].status = "refused"
  /\ Unmount([Cancelled EXCEPT ![i] = Free])
  /\ UNCHANGED <<session, service, version>>

\* fetch rejects: run() ends there, and nothing catches it.
Lose(i) ==
  /\ calls[i].status = "sent"
  /\ service = "unreachable"
  /\ calls' = [calls EXCEPT ![i] = Free]
  /\ UNCHANGED <<page, shown, session, service, version, opened>>

-----------------------------------------------------------------------------
(* The service, and time. *)

\* An endpoint behind require_admin; a failing service answers 5xx, or through
\* the fallback of the SPA or a proxy with a body that is not JSON.
Serve(i) ==
  /\ calls[i].status = "sent"
  /\ service # "unreachable"
  /\ \E status \in IF service = "failing" THEN {"empty", "error"}
                   ELSE IF session THEN {"ok"} ELSE {"refused"} :
       calls' = [calls EXCEPT ![i].status = status, ![i].version = version]
  /\ UNCHANGED <<page, shown, session, service, version, opened>>

Update ==
  /\ version < MaxVersion
  /\ version' = version + 1
  /\ UNCHANGED <<page, shown, calls, session, service, opened>>

\* The token expires, or JWT_SECRET is replaced.
Expire ==
  /\ session
  /\ session' = FALSE
  /\ UNCHANGED <<page, shown, calls, service, version, opened>>

ServiceChanges ==
  /\ service' \in {"up", "failing", "unreachable"} \ {service}
  /\ UNCHANGED <<page, shown, calls, session, version, opened>>

\* What is on screen gets old; nothing is drawn again for that.
Age ==
  /\ shown.data # NoData /\ ~shown.data.old
  /\ shown' = [shown EXCEPT !.data.old = TRUE]
  /\ UNCHANGED <<page, calls, session, service, version, opened>>

Init ==
  /\ page = NoPage
  /\ shown = Fresh
  /\ calls = [i \in Calls |-> Free]
  /\ session = FALSE
  /\ service \in {"up", "failing", "unreachable"}
  /\ version = 0
  /\ opened = [version |-> 0, answered |-> FALSE]

Next ==
  \/ \E p \in Pages : Enter(p) \/ Navigate(p)
  \/ Logout \/ Reload \/ Poll
  \/ \E i \in Calls : Settle(i) \/ Expel(i) \/ Lose(i) \/ Serve(i)
  \/ Update \/ Expire \/ ServiceChanges \/ Age

\* The timer of a page that polls fires, a call ends one way or the other, its answer is delivered,
\* time passes.  Nothing is asked of the user nor of the service.
Fairness ==
  /\ WF_vars(Poll) /\ WF_vars(Age)
  /\ \A i \in Calls : /\ WF_vars(Serve(i) \/ Lose(i))
                      /\ WF_vars(Settle(i) \/ Expel(i))

Spec == Init /\ [][Next]_vars /\ Fairness

-----------------------------------------------------------------------------
(* Properties. *)

Data  == [page : Pages \cup {NoPage}, version : Nat, old : BOOLEAN]
States == [data : Data, loading : BOOLEAN, error : {"none", "http"}, old : BOOLEAN]
CallType == [status : {"free", "sent", "ok", "empty", "error", "refused"},
             page : Pages \cup {NoPage}, live : BOOLEAN, version : Nat]

\* The state is made of what the hook and the calls declare.
TypeOK ==
  /\ page \in Pages \cup {NoPage}
  /\ shown \in States
  /\ calls \in [Calls -> CallType]
  /\ session \in BOOLEAN
  /\ service \in {"up", "failing", "unreachable"}
  /\ version \in Nat
  /\ opened \in [version : Nat, answered : BOOLEAN]

\* Once the page has been answered, what it shows is about its own address and
\* no older than its opening, also with late answers of the addresses before.
ShownIsOfPage ==
  page \in Polled /\ opened.answered =>
    shown.data.page = page /\ shown.data.version >= opened.version

\* A page draws its loading, an error or data; it is never left empty.
NeverBlank == page \in Polled => View # "blank"

\* A service that stays up is in the end shown as it is, however many calls
\* were lost, failed or overtaken before: the last version, and no error.
Converges ==
  \A p \in Polled :
    <>[](service = "up" /\ session /\ page = p)
      => <>[](View = "data" /\ shown.data.page = p /\ shown.data.version = version)

\* A session that ended is noticed by a page left open, if it is one that polls; a
\* placeholder stays on screen until the user asks for another page.
SessionLossNoticed ==
  <>[](service = "up") => (page \in Polled /\ ~session ~> page \notin Polled \/ session)

\* Telemetry that has become old is drawn as if it were recent.
Unmarked == page \in Details /\ View = "data" /\ shown.data.old /\ ~shown.old

\* As long as calls are answered, old telemetry ends up marked, or replaced.  When fetch
\* rejects for ever it does not: no state is set, and nothing is drawn again.
MarkedWhileAnswered == <>[](service # "unreachable") => (Unmarked ~> ~Unmarked)
=============================================================================
