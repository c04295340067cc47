---------------------------- MODULE ConsoleAuth ----------------------------
(***************************************************************************)
(* How an administrator enters and leaves the console: one tab with its    *)
(* AuthProvider, its login page and its guard of the routes; the cookie    *)
(* jar of the browser; one account, as AuthLifecycle has it.               *)
(*                                                                         *)
(* A call leaves with the cookie of that moment, is handled by the service,*)
(* and answered later, or it is rejected.  What follows an `await` runs    *)
(* when the answer arrives, whatever has become of the page: the setters   *)
(* of a component that is gone do nothing, refresh() and navigate() still  *)
(* do.  Other tabs share the cookie and the account, not the state of the  *)
(* page.                                                                   *)
(***************************************************************************)
EXTENDS Integers

CONSTANTS
  Slots,      \* bound: calls in flight, besides the poll
  Poller,     \* the slot of the poll of the page
  MaxSecrets, \* bound: secrets generated
  Impatient   \* whether the user submits again while an enrol is pending

ASSUME SlotsAssumption   == Poller \notin Slots
ASSUME SecretsAssumption == MaxSecrets \in Nat \ {0}
ASSUME PatienceAssumption == Impatient \in BOOLEAN

VARIABLES
  auth,    \* the state of AuthProvider
  path,    \* "login"; of the guarded routes, "console" for a page that polls and
           \* "placeholder" for one that makes no call
  form,    \* the state of the login page
  jar,     \* the purpose of the cookie
  calls,   \* the calls in flight
  account  \* the account: whether it is enrolled, the last secret generated

vars == <<auth, path, form, jar, calls, account>>

-----------------------------------------------------------------------------
(* Data. *)

\* A login page just mounted.  `secret`: that of the QR code; `saved`: the box was
\* ticked; `hung`: a promise was rejected and busy stays.
FreshForm == [step |-> "PASSWORD", busy |-> FALSE, secret |-> 0, saved |-> FALSE,
              hung |-> FALSE]

Free == [kind |-> "none", cookie |-> "none", owner |-> "gone", code |-> 0, answer |-> "none"]

\* `owner`: "page" while the component that sent it is mounted, then "script", and
\* "gone" when the page was loaded again.  "enter": a refresh() to navigate after.
Kinds == {"me", "enter", "login", "enroll", "confirm", "verify", "logout", "poll"}

\* The calls whose sender is the login page.
FormKinds == {"login", "enroll", "confirm", "verify"}

AllSlots == Slots \cup {Poller}

IsFree(s)    == calls[s].kind = "none"
Pending(ks)  == {s \in AllSlots : calls[s].kind \in ks}
OfPage(ks)   == {s \in Pending(ks) : calls[s].owner = "page"}

\* The calls whose handler reads the cookie, and those that leave a trace in the
\* account or in the cookie jar even when nobody waits for their answer.
Authorised == Kinds \ {"login", "logout"}
Lasting    == {"login", "enroll", "confirm", "verify", "logout"}

Call(kind, cookie, owner, code) ==
  [kind |-> kind, cookie |-> IF kind \in Authorised THEN cookie ELSE "none", owner |-> owner,
   code |-> code, answer |-> "none"]

\* The page that sent it is no longer there.
Abandoned(c) == IF c.kind \in Lasting THEN [c EXCEPT !.owner = "gone"] ELSE Free

Send(s, kind, code) ==
  /\ IsFree(s)
  /\ calls' = [calls EXCEPT ![s] = Call(kind, jar, "page", code)]

\* Mutant: the password is enough for a session.
CookieAfterSkipsCode(c) ==
  CASE c.answer = "totp_requis"                               -> "pre_auth"
    [] c.answer \in {"codes", "ok", "enrolement_requis"}      -> "session"
    [] c.answer = "logged_out"                                -> "none"
    [] OTHER                                                  -> jar

\* Set-Cookie of an answer; the cookie it leaves in the jar.
CookieAfter(c) ==
  CASE c.answer \in {"totp_requis", "enrolement_requis"} -> "pre_auth"
    [] c.answer \in {"codes", "ok"}                      -> "session"
    [] c.answer = "logged_out"                           -> "none"
    [] OTHER                                             -> jar

-----------------------------------------------------------------------------
(* AuthProvider and the routes.                                            *)

Guarded == {"console", "placeholder"}
Routes  == {"login"} \cup Guarded

\* Where the user is once React has settled: the guard sends who is not signed in
\* to the login page, the login page sends who is signed in to where the guard
\* turned them away, or to the dashboard.
Landings(p, a) ==
  IF a = "unauthenticated" THEN {"login"} ELSE IF p = "login" THEN Guarded ELSE {p}

\* The calls of the login page outlive it.
Orphaned(cs) ==
  [s \in AllSlots |->
     IF cs[s].kind \in FormKinds /\ cs[s].owner = "page"
       THEN [cs[s] EXCEPT !.owner = "script"] ELSE cs[s]]

\* setState(a), then navigate(p); cs are the calls left in flight.
Move(a, p, cs) ==
  /\ auth' = a
  /\ path' \in Landings(p, a)
  /\ IF path = "login" /\ p = "login" /\ path' = "login"
       THEN form' = form /\ calls' = cs
       ELSE form' = FreshForm /\ calls' = Orphaned(cs)

\* The page is opened or loaded again: refresh() at mount.
Load(s, p) ==
  /\ Abandoned(calls[s]) = Free
  /\ auth' = "loading"
  /\ path' = p
  /\ form' = FreshForm
  /\ calls' = [[r \in AllSlots |-> Abandoned(calls[r])] EXCEPT ![s] = Call("me", jar, "page", 0)]
  /\ UNCHANGED <<jar, account>>

Logout(s) ==
  /\ auth = "authenticated"
  /\ Send(s, "logout", 0)
  /\ UNCHANGED <<auth, path, form, jar, account>>

\* A link of the side bar.
Navigate ==
  /\ auth = "authenticated"
  /\ path' \in Guarded \ {path}
  /\ UNCHANGED <<auth, form, jar, calls, account>>

\* A page that polls; its calls overlap in Polling, not here.
Poll ==
  /\ auth = "authenticated" /\ path = "console"
  /\ Send(Poller, "poll", 0)
  /\ UNCHANGED <<auth, path, form, jar, account>>

-----------------------------------------------------------------------------
(* The login page.                                                         *)

OnStep(step) == path = "login" /\ form.step = step /\ ~form.busy

Submit(s, kind, code) ==
  /\ Send(s, kind, code)
  /\ form' = [form EXCEPT !.busy = TRUE]
  /\ UNCHANGED <<auth, path, jar, account>>

\* busy is cleared before the enrol that follows: nothing but patience prevents a
\* second submit until its answer.
SubmitPassword(s) ==
  /\ OnStep("PASSWORD")
  /\ Impatient \/ OfPage({"enroll"}) = {}
  /\ Submit(s, "login", 0)

\* A code of the enrolled secret, or a recovery code, is 1; a wrong one 0.
SubmitVerifyTotp(s, code) == OnStep("VERIFY_TOTP") /\ Submit(s, "verify", code)

\* A code of the secret on screen, or a wrong one.
SubmitConfirm(s, code) ==
  /\ OnStep("ENROLL_QR")
  /\ code \in {0, form.secret}
  /\ Submit(s, "confirm", code)

\* "J'ai sauvegarde mes codes"; the box may be cleared again, which changes nothing.
TickSaved ==
  /\ path = "login" /\ form.step = "SHOW_RECOVERY_CODES"
  /\ form' = [form EXCEPT !.saved = TRUE]
  /\ UNCHANGED <<auth, path, jar, calls, account>>

\* Mutant: the button does not wait for the box.
EnterConsoleAnyway(s) ==
  /\ path = "login" /\ form.step = "SHOW_RECOVERY_CODES"
  /\ Send(s, "enter", 0)
  /\ UNCHANGED <<auth, path, form, jar, account>>

EnterConsole(s) ==
  /\ path = "login" /\ form.step = "SHOW_RECOVERY_CODES" /\ form.saved
  /\ Send(s, "enter", 0)
  /\ UNCHANGED <<auth, path, form, jar, account>>

-----------------------------------------------------------------------------
(* The service: one handler per call, in one step.                         *)

Waiting(s, ks) == calls[s].kind \in ks /\ calls[s].answer = "none"

\* What the handler has read is of no use any more.
Reply(s, answer, code) ==
  calls' = [calls EXCEPT ![s] = [@ EXCEPT !.answer = answer, !.code = code, !.cookie = "none"]]

Answer(s, answer) == Reply(s, answer, 0)

HandleLogin(s) ==
  /\ Waiting(s, {"login"})
  /\ Answer(s, IF account.enrolled THEN "totp_requis" ELSE "enrolement_requis")
  /\ UNCHANGED account

HandleEnroll(s) ==
  /\ Waiting(s, {"enroll"})
  /\ IF calls[s].cookie # "none" /\ ~account.enrolled /\ account.secret < MaxSecrets
       THEN /\ account' = [account EXCEPT !.secret = @ + 1]
            /\ Reply(s, "uri", account.secret + 1)
       ELSE Answer(s, "refused") /\ UNCHANGED account

HandleConfirm(s) ==
  /\ Waiting(s, {"confirm"})
  /\ LET c       == calls[s]
         open    == c.cookie # "none" /\ ~account.enrolled /\ account.secret > 0
         matches == c.code = account.secret
     IN /\ Answer(s, IF c.cookie = "none" THEN "expired" ELSE IF open /\ matches THEN "codes" ELSE "refused")
        /\ account' = [account EXCEPT !.enrolled = @ \/ (open /\ matches)]

HandleVerify(s) ==
  /\ Waiting(s, {"verify"})
  /\ LET c == calls[s]
     IN Answer(s, IF c.cookie # "pre_auth" THEN "expired"
                  ELSE IF account.enrolled /\ c.code = 1 THEN "ok" ELSE "refused")
  /\ UNCHANGED account

\* Mutant: /me takes any cookie.
HandleMeAnyCookie(s) ==
  /\ Waiting(s, {"me", "enter"})
  /\ Answer(s, IF calls[s].cookie # "none" THEN "user" ELSE "refused")
  /\ UNCHANGED account

HandleMe(s) ==
  /\ Waiting(s, {"me", "enter"})
  /\ Answer(s, IF calls[s].cookie = "session" THEN "user" ELSE "refused")
  /\ UNCHANGED account

HandleLogout(s) ==
  /\ Waiting(s, {"logout"})
  /\ Answer(s, "logged_out")
  /\ UNCHANGED account

\* Any endpoint behind require_admin.
HandlePoll(s) ==
  /\ Waiting(s, {"poll"})
  /\ Answer(s, IF calls[s].cookie = "session" THEN "data" ELSE "401")
  /\ UNCHANGED account

Handle(s) ==
  /\ \/ HandleLogin(s) \/ HandleEnroll(s) \/ HandleConfirm(s) \/ HandleVerify(s)
     \/ HandleMe(s) \/ HandleLogout(s) \/ HandlePoll(s)
  /\ UNCHANGED <<auth, path, form, jar>>

\* Another answer: the account is locked or inactive, the password wrong, an error.
Refuse(s) ==
  /\ Waiting(s, Kinds)
  /\ Answer(s, "refused")
  /\ UNCHANGED <<auth, path, form, jar, account>>

-----------------------------------------------------------------------------
(* Answers.                                                                *)

Answered(s, ks) == /\ calls[s].kind \in ks
                   /\ calls[s].answer # "none"
                   /\ calls[s].owner # "gone"

Freed(s) == [calls EXCEPT ![s] = Free]

\* The setters of the sender, if it is still mounted.
Set(s, f) == form' = IF calls[s].owner = "page" THEN f ELSE form

NotBusy == [form EXCEPT !.busy = FALSE]

\* Mutant: busy is cleared in the branches that go on.
AfterLoginKeepsBusy(s) ==
  /\ Answered(s, {"login"})
  /\ jar' = CookieAfter(calls[s])
  /\ CASE calls[s].answer = "totp_requis" ->
            /\ Set(s, [NotBusy EXCEPT !.step = "VERIFY_TOTP"])
            /\ calls' = Freed(s)
       [] calls[s].answer = "enrolement_requis" ->
            /\ Set(s, NotBusy)
            /\ calls' = [calls EXCEPT ![s] = Call("enroll", jar', calls[s].owner, 0)]
       [] OTHER ->
            /\ Set(s, form)
            /\ calls' = Freed(s)
  /\ UNCHANGED <<auth, path, account>>

\* submitPassword: what is enrolled goes on to the code, the rest to the enrol.
AfterLogin(s) ==
  /\ Answered(s, {"login"})
  /\ jar' = CookieAfter(calls[s])
  /\ CASE calls[s].answer = "totp_requis" ->
            /\ Set(s, [NotBusy EXCEPT !.step = "VERIFY_TOTP"])
            /\ calls' = Freed(s)
       [] calls[s].answer = "enrolement_requis" ->
            /\ Set(s, NotBusy)
            /\ calls' = [calls EXCEPT ![s] = Call("enroll", jar', calls[s].owner, 0)]
       [] OTHER ->
            /\ Set(s, NotBusy)
            /\ calls' = Freed(s)
  /\ UNCHANGED <<auth, path, account>>

AfterEnroll(s) ==
  /\ Answered(s, {"enroll"})
  /\ Set(s, IF calls[s].answer = "uri"
              THEN [form EXCEPT !.step = "ENROLL_QR", !.secret = calls[s].code] ELSE form)
  /\ calls' = Freed(s)
  /\ UNCHANGED <<auth, path, jar, account>>

\* submitConfirm; resetToPassword when the cookie has expired.
AfterConfirm(s) ==
  /\ Answered(s, {"confirm"})
  /\ jar' = CookieAfter(calls[s])
  /\ Set(s, CASE calls[s].answer = "codes"   -> [NotBusy EXCEPT !.step = "SHOW_RECOVERY_CODES"]
              [] calls[s].answer = "expired" -> FreshForm
              [] OTHER                       -> NotBusy)
  /\ calls' = Freed(s)
  /\ UNCHANGED <<auth, path, account>>

\* submitVerifyTotp; a refresh, then the console, when the code is right.
AfterVerify(s) ==
  /\ Answered(s, {"verify"})
  /\ jar' = CookieAfter(calls[s])
  /\ Set(s, IF calls[s].answer = "expired" THEN FreshForm ELSE NotBusy)
  /\ calls' = IF calls[s].answer = "ok"
                THEN [calls EXCEPT ![s] = Call("enter", jar', calls[s].owner, 0)] ELSE Freed(s)
  /\ UNCHANGED <<auth, path, account>>

Told(s) == IF calls[s].answer = "user" THEN "authenticated" ELSE "unauthenticated"

\* refresh() at mount, and before entering.
AfterMe(s) ==
  /\ \/ Answered(s, {"me"}) /\ Move(Told(s), path, Freed(s))
     \/ Answered(s, {"enter"}) /\ \E p \in Guarded : Move(Told(s), p, Freed(s))
  /\ UNCHANGED <<jar, account>>

\* Whatever the answer.
AfterLogout(s) ==
  /\ Answered(s, {"logout"})
  /\ jar' = CookieAfter(calls[s])
  /\ Move("unauthenticated", path, Freed(s))
  /\ UNCHANGED account

\* Mutant: the handler of 401 is never registered.
AfterPollDeaf(s) ==
  /\ Answered(s, {"poll"})
  /\ calls' = Freed(s)
  /\ UNCHANGED <<auth, path, form, jar, account>>

\* The handler of 401 that all the calls of the console share.
AfterPoll(s) ==
  /\ Answered(s, {"poll"})
  /\ IF calls[s].answer = "401" THEN Move("unauthenticated", path, Freed(s))
                                ELSE calls' = Freed(s) /\ UNCHANGED <<auth, path, form>>
  /\ UNCHANGED <<jar, account>>

\* Nobody waits for it any more; the browser may keep its cookie.
AfterNobody(s) ==
  /\ ~IsFree(s) /\ calls[s].owner = "gone"
  /\ jar' \in {jar, CookieAfter(calls[s])}
  /\ calls' = Freed(s)
  /\ UNCHANGED <<auth, path, form, account>>

Deliver(s) ==
  \/ AfterLogin(s) \/ AfterEnroll(s) \/ AfterConfirm(s) \/ AfterVerify(s)
  \/ AfterMe(s) \/ AfterLogout(s) \/ AfterPoll(s) \/ AfterNobody(s)

\* fetch is rejected and nobody catches it; the service may still handle the call.
Lose(s) ==
  /\ ~IsFree(s) /\ calls[s].owner # "gone"
  /\ calls' = [calls EXCEPT ![s] = Abandoned(@)]
  /\ Set(s, IF calls[s].kind \in FormKinds \ {"enroll"} THEN [form EXCEPT !.hung = TRUE] ELSE form)
  /\ UNCHANGED <<auth, path, jar, account>>

\* The other tabs, with their own calls; the cookie expires.
Elsewhere ==
  /\ \/ /\ jar' \in {"none", "pre_auth"} \cup (IF account.enrolled THEN {"session"} ELSE {})
        /\ UNCHANGED account
     \/ /\ ~account.enrolled
        /\ account' \in {[account EXCEPT !.secret = @ + 1], [account EXCEPT !.enrolled = TRUE]}
        /\ account'.secret <= MaxSecrets /\ account'.secret > 0
        /\ UNCHANGED jar
  /\ UNCHANGED <<auth, path, form, calls>>

-----------------------------------------------------------------------------
Init ==
  /\ account \in {[enrolled |-> FALSE, secret |-> 0], [enrolled |-> TRUE, secret |-> 1]}
  /\ jar \in {"none"} \cup (IF account.enrolled THEN {"session"} ELSE {})
  /\ auth = "loading"
  /\ path \in Routes
  /\ form = FreshForm
  /\ \E s \in Slots :
       calls = [[r \in AllSlots |-> Free] EXCEPT ![s] = Call("me", jar, "page", 0)]

User ==
  \/ \E s \in Slots :
       \/ \E p \in Routes : Load(s, p)
       \/ SubmitPassword(s) \/ EnterConsole(s) \/ Logout(s)
       \/ \E code \in {0, 1} : SubmitVerifyTotp(s, code)
       \/ \E code \in 0..MaxSecrets : SubmitConfirm(s, code)
  \/ TickSaved \/ Navigate

Next ==
  \/ User \/ Poll \/ Elsewhere
  \/ \E s \in AllSlots : Handle(s) \/ Refuse(s) \/ Deliver(s) \/ Lose(s)

\* A poll of a page that is still there, handled; its answer, told to the page.
PollHandled   == calls[Poller].owner = "page" /\ HandlePoll(Poller) /\ UNCHANGED <<auth, path, form, jar>>
PollDelivered == calls[Poller].answer \in {"data", "401"} /\ AfterPoll(Poller)

\* The service handles what reaches it and its answers arrive; a page that polls does
\* so again and again, and the network does not lose or fail every poll.
Fairness ==
  /\ \A s \in Slots : WF_vars(Handle(s)) /\ WF_vars(Deliver(s))
  /\ WF_vars(Poll) /\ WF_vars(Deliver(Poller))
  /\ SF_vars(PollHandled) /\ SF_vars(PollDelivered)

Spec == Init /\ [][Next]_vars /\ Fairness

-----------------------------------------------------------------------------
(* Properties.                                                             *)

CallType == [kind : Kinds \cup {"none"}, cookie : {"none", "pre_auth", "session"},
             owner : {"page", "script", "gone"}, code : 0..MaxSecrets,
             answer : {"none", "totp_requis", "enrolement_requis", "uri", "codes", "expired",
                       "refused", "ok", "user", "logged_out", "data", "401"}]

\* The state has its types, and the routes agree with the state of AuthProvider.
TypeOK ==
  /\ auth \in {"loading", "authenticated", "unauthenticated"}
  /\ path \in Routes
  /\ auth # "loading" => (path \in Guarded <=> auth = "authenticated")
  /\ form \in [step : {"PASSWORD", "VERIFY_TOTP", "ENROLL_QR", "SHOW_RECOVERY_CODES"},
               busy : BOOLEAN, secret : 0..MaxSecrets, saved : BOOLEAN, hung : BOOLEAN]
  /\ jar \in {"none", "pre_auth", "session"}
  /\ calls \in [AllSlots -> CallType]
  /\ account \in [enrolled : BOOLEAN, secret : 0..MaxSecrets]

\* However late the answers, the console opens for an account that is enrolled only,
\* a code is asked for of such an account only, and a QR code on screen is a secret
\* that the account has, or has had.
StepsFollowAccount ==
  /\ auth = "authenticated" \/ jar = "session" => account.enrolled
  /\ form.step \in {"VERIFY_TOTP", "SHOW_RECOVERY_CODES"} => account.enrolled
  /\ form.step = "ENROLL_QR" => form.secret \in 1..account.secret

\* The gate (Login.tsx:13, JOURNAL.md:531): until the box is ticked, the screen of the
\* recovery codes is not left, except when the page is loaded again.
CodesAreGated ==
  [][form.step = "SHOW_RECOVERY_CODES" /\ ~form.saved =>
       form'.step = "SHOW_RECOVERY_CODES" \/ auth' = "loading"]_vars

\* The form comes back after every submit that is not rejected.
FormComesBack == form.busy ~> ~form.busy \/ form.hung

\* A page that polls, shown without a session, as after a late answer of /me or a
\* login in another tab, does not stay.  A placeholder does, until the user goes to
\* another page.
GhostConsoleEnds ==
  LET ghost == auth = "authenticated" /\ path = "console" /\ jar # "session"
  IN ghost ~> ~ghost

\* The account of this module is the one of AuthLifecycle, as that of AuthAccount is.
Lifecycle == INSTANCE AuthLifecycle WITH
  phase   <- IF account.enrolled THEN "enrolled" ELSE IF account.secret > 0 THEN "pending"
             ELSE "new",
  session <- jar = "session"

KeepsLifecycle == [][Lifecycle!Next]_(Lifecycle!vars)
=============================================================================
