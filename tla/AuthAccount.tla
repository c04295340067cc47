---------------------------- MODULE AuthAccount ----------------------------
(***************************************************************************)
(* The authentication of one admin account: the row of table users, the    *)
(* four POST handlers of app/api/auth_admin.py that read and write it, and *)
(* the lockout counters of app/services/auth_lockout.py.                   *)
(*                                                                         *)
(* The handlers are synchronous, so FastAPI runs each in a thread of its   *)
(* pool: requests interleave.  A handler is up to three steps:             *)
(*   Receive  the cookie is decoded, the row is read ONCE, and the early   *)
(*            returns are decided;                                         *)
(*   commit   the columns that differ from the row as it was read are      *)
(*            written (the ORM has no version check), one transaction;     *)
(*   Answer   the cookie and the body leave, with what is shown only once. *)
(* Rows of different accounts never meet, so one account is enough.        *)
(* Durations are counted in ticks left, so that time needs no bound.       *)
(***************************************************************************)
EXTENDS Integers, FiniteSets

CONSTANTS
  Requests,      \* the threads that may hold a request about this account
  Keys,          \* values TOTP_AT_REST_KEY may take
  NoKey,         \* TOTP_AT_REST_KEY missing from the environment
  MaxAttempts,   \* settings.login_max_attempts
  LockMinutes,   \* settings.login_lockout_minutes, in ticks
  PreauthTtl,    \* settings.preauth_ttl_minutes, in ticks
  SessionTtl,    \* settings.session_ttl_hours, in ticks
  CodeCount,     \* recovery_codes.CODE_COUNT
  MayDeactivate, \* whether the operator edits is_active in the base
  MaxSecrets,    \* bound: secrets that enroll generates
  MaxRestarts    \* bound: restarts of the service

ASSUME KeyAssumption      == NoKey \notin Keys
ASSUME LimitsAssumption   == /\ MaxAttempts \in Nat \ {0}
                             /\ LockMinutes \in Nat \ {0}
                             /\ PreauthTtl  \in Nat \ {0}
                             /\ SessionTtl  \in Nat \ {0}
                             /\ CodeCount   \in Nat \ {0}
ASSUME BoundsAssumption   == /\ MaxSecrets  \in Nat
                             /\ MaxRestarts \in Nat
                             /\ MayDeactivate \in BOOLEAN

VARIABLES
  env,      \* the settings the running process has read: JWT_SECRET, at-rest key
  row,      \* the row of the account in table users, as committed
  exp,      \* per purpose, ticks left on the longest-lived token issued
  slots,    \* per thread, the request it runs, or the status of the last one
  gen,      \* how many secrets and batches of recovery codes were generated
  shown,    \* what answers have shown to the owner: secrets, recovery codes
  history,  \* what has truly happened, for the properties (no code reads it)
  restarts  \* restarts so far

vars == <<env, row, exp, slots, gen, shown, history, restarts>>

-----------------------------------------------------------------------------
(* Data. *)

\* locked_until: NULL, or the ticks left (0 once it is in the past).
NoLock == -1
\* totp_secret: NULL, or the secret number `plain` encrypted under `key`.
NoSecret == [key |-> NoKey, plain |-> 0]

NewRow == [active |-> TRUE, secret |-> NoSecret, enrolled |-> FALSE,
           codes |-> {}, failed |-> 0, lock |-> NoLock]

\* What a body may carry: a TOTP code of some secret, a recovery code, the
\* password of the account, or something that matches nothing.
TotpCode(n)        == [kind |-> "totp", n |-> n]
RecoveryCode(b, n) == [kind |-> "recovery", batch |-> b, n |-> n]
Password           == [kind |-> "password"]
WrongCode          == [kind |-> "wrong"]

\* The codes generate_codes returns on its b-th call (collisions ignored).
Batch(b) == {RecoveryCode(b, n) : n \in 1 .. CodeCount}

\* A code the owner can type: she knows what answers have shown her.
Inputs == {WrongCode} \cup {TotpCode(n) : n \in shown.secrets} \cup shown.codes

\* The cookie of a request: none, or a token that is not expired.  A token
\* that expires earlier than another of its purpose is accepted no longer.
Cookies == {"none"} \cup {p \in {"pre_auth", "session"} : exp[p] > 0}

IsLocked(s) == s.lock > 0
Decrypts(s) == s.secret.key = env.key
Matches(s, code) == code = TotpCode(s.secret.plain)

\* The flush of a handler that read `old` and leaves `new`: only the columns
\* it changed are in the UPDATE, the others keep what the base holds by then.
Write(old, new) ==
  LET column(c) == IF new[c] # old[c] THEN new[c] ELSE row[c]
  IN  [active   |-> column("active"),   secret |-> column("secret"),
       enrolled |-> column("enrolled"), codes  |-> column("codes"),
       failed   |-> column("failed"),   lock   |-> column("lock")]

\* Mutant: the limit is off by one.
AfterFailureLate(s) ==
  LET lapsed == s.lock # NoLock /\ ~IsLocked(s)
      count  == IF lapsed THEN 1 ELSE s.failed + 1
  IN  [s EXCEPT !.failed = count,
                !.lock   = IF count > MaxAttempts THEN LockMinutes
                           ELSE IF lapsed THEN NoLock ELSE @]

\* register_failure, on the row `s` the handler holds.
AfterFailure(s) ==
  LET lapsed == s.lock # NoLock /\ ~IsLocked(s)
      count  == IF lapsed THEN 1 ELSE s.failed + 1
  IN  [s EXCEPT !.failed = count,
                !.lock   = IF count >= MaxAttempts THEN LockMinutes
                           ELSE IF lapsed THEN NoLock ELSE @]

\* register_session_established.
AfterSession(s) == [s EXCEPT !.failed = 0, !.lock = NoLock]

-----------------------------------------------------------------------------
(* Early returns, in the order of the code; "none" when the handler goes on. *)

LoginRefusal ==
  IF ~env.jwt THEN "not_configured"
  ELSE IF IsLocked(row) THEN "locked"
  ELSE "none"

\* require_authenticated and require_preauth: the purposes they accept differ.
CookieRefusal(cookie, purposes) ==
  IF ~env.jwt THEN "not_configured"
  ELSE IF cookie \notin purposes \/ ~row.active THEN "unauthenticated"
  ELSE IF env.key = NoKey THEN "not_configured"
  ELSE "none"

\* Mutant: an enrolled account may ask for a new secret.
EnrollRefusalAnyone(cookie) == CookieRefusal(cookie, {"pre_auth", "session"})

EnrollRefusal(cookie) ==
  IF CookieRefusal(cookie, {"pre_auth", "session"}) # "none"
    THEN CookieRefusal(cookie, {"pre_auth", "session"})
  ELSE IF row.enrolled THEN "already_enrolled"
  ELSE "none"

ConfirmRefusal(cookie) ==
  IF EnrollRefusal(cookie) # "none" THEN EnrollRefusal(cookie)
  ELSE IF row.secret = NoSecret THEN "no_pending_enroll"
  ELSE IF IsLocked(row) THEN "locked"
  ELSE IF ~Decrypts(row) THEN "key_error"
  ELSE "none"

\* Mutant: a secret that was never confirmed is good enough.
VerifyRefusalPending(cookie) ==
  IF CookieRefusal(cookie, {"pre_auth"}) # "none"
    THEN CookieRefusal(cookie, {"pre_auth"})
  ELSE IF row.secret = NoSecret THEN "not_enrolled"
  ELSE IF IsLocked(row) THEN "locked"
  ELSE IF ~Decrypts(row) THEN "key_error"
  ELSE "none"

VerifyRefusal(cookie) ==
  IF CookieRefusal(cookie, {"pre_auth"}) # "none"
    THEN CookieRefusal(cookie, {"pre_auth"})
  ELSE IF ~row.enrolled \/ row.secret = NoSecret THEN "not_enrolled"
  ELSE IF IsLocked(row) THEN "locked"
  ELSE IF ~Decrypts(row) THEN "key_error"
  ELSE "none"

-----------------------------------------------------------------------------
(* Steps shared by the handlers. *)

Idle(status) ==
  [pc |-> "idle", op |-> "none", code |-> WrongCode, row |-> NewRow,
   issued |-> 0, status |-> status]

Reply(r, status) == slots' = [slots EXCEPT ![r] = Idle(status)]

\* The transaction is committed; the answer carries the `n`-th thing generated.
Answering(r, n) ==
  slots' = [slots EXCEPT ![r] = [Idle("none") EXCEPT !.pc = "answer", !.op = slots[r].op,
                                                     !.issued = n]]

Receive(r, op, code, refusal) ==
  /\ slots[r].pc = "idle"
  /\ \/ /\ refusal # "none"
        /\ Reply(r, refusal)
     \/ /\ refusal = "none"
        /\ slots' = [slots EXCEPT ![r] = [pc |-> "work", op |-> op, code |-> code,
                                          row |-> row, issued |-> 0, status |-> "none"]]
  /\ UNCHANGED <<env, row, exp, gen, shown, history, restarts>>

Working(r, op)   == slots[r].pc = "work" /\ slots[r].op = op
Answerable(r, op) == slots[r].pc = "answer" /\ slots[r].op = op

\* register_failure then 401.  history.guesses counts the failures answered
\* since the last session or the last lapse of a lock; it saturates.
FailedAttempt(r) ==
  /\ row' = Write(slots[r].row, AfterFailure(slots[r].row))
  /\ history' = [history EXCEPT !.guesses = IF @ > MaxAttempts THEN @ ELSE @ + 1]
  /\ Reply(r, "refused")
  /\ UNCHANGED <<env, exp, gen, shown, restarts>>

-----------------------------------------------------------------------------
(* POST /api/auth/login *)

\* Mutant: an attempt on a locked account renews the lock.
LoginReceiveRenews(r) ==
  \/ \E code \in {Password, WrongCode} : Receive(r, "login", code, LoginRefusal)
  \/ /\ slots[r].pc = "idle" /\ env.jwt /\ IsLocked(row)
     /\ row' = [row EXCEPT !.lock = LockMinutes]
     /\ Reply(r, "locked")
     /\ UNCHANGED <<env, exp, gen, shown, history, restarts>>

LoginReceive(r) ==
  \E code \in {Password, WrongCode} : Receive(r, "login", code, LoginRefusal)

\* Mutant: the right password clears the counter.
LoginAcceptResets(r) ==
  /\ Working(r, "login")
  /\ slots[r].row.active
  /\ slots[r].code = Password
  /\ row' = Write(slots[r].row, AfterSession(slots[r].row))
  /\ exp' = [exp EXCEPT !.pre_auth = PreauthTtl]
  /\ Reply(r, IF row.enrolled THEN "totp_requis" ELSE "enrolement_requis")
  /\ UNCHANGED <<env, gen, shown, history, restarts>>

\* Mutant: the pre_auth token is given the life of a session.
LoginAcceptLongToken(r) ==
  /\ Working(r, "login")
  /\ slots[r].row.active
  /\ slots[r].code = Password
  /\ exp' = [exp EXCEPT !.pre_auth = SessionTtl]
  /\ Reply(r, IF row.enrolled THEN "totp_requis" ELSE "enrolement_requis")
  /\ UNCHANGED <<env, row, gen, shown, history, restarts>>

\* bcrypt has run.  The commit writes last_login_at only, and expires the row:
\* the status is computed from the row as it is now.
LoginAccept(r) ==
  /\ Working(r, "login")
  /\ slots[r].row.active
  /\ slots[r].code = Password
  /\ exp' = [exp EXCEPT !.pre_auth = PreauthTtl]
  /\ Reply(r, IF row.enrolled THEN "totp_requis" ELSE "enrolement_requis")
  /\ UNCHANGED <<env, row, gen, shown, history, restarts>>

LoginFail(r) ==
  /\ Working(r, "login")
  /\ slots[r].row.active
  /\ slots[r].code # Password
  /\ FailedAttempt(r)

\* An inactive account is refused whatever the password, and nothing is counted.
LoginInactive(r) ==
  /\ Working(r, "login")
  /\ ~slots[r].row.active
  /\ Reply(r, "refused")
  /\ UNCHANGED <<env, row, exp, gen, shown, history, restarts>>

(* POST /api/auth/totp/enroll *)

EnrollReceive(r) ==
  /\ gen.secrets + Cardinality({q \in Requests : Working(q, "enroll")}) < MaxSecrets
  /\ \E cookie \in Cookies : Receive(r, "enroll", WrongCode, EnrollRefusal(cookie))

EnrollCommit(r) ==
  LET old == slots[r].row
      n   == gen.secrets + 1
  IN  /\ Working(r, "enroll")
      /\ row' = Write(old, [old EXCEPT !.secret = [key |-> env.key, plain |-> n]])
      /\ gen' = [gen EXCEPT !.secrets = n]
      /\ Answering(r, n)
      /\ UNCHANGED <<env, exp, shown, history, restarts>>

EnrollAnswer(r) ==
  /\ Answerable(r, "enroll")
  /\ shown' = [shown EXCEPT !.secrets = @ \cup {slots[r].issued}]
  /\ Reply(r, "ok")
  /\ UNCHANGED <<env, row, exp, gen, history, restarts>>

(* POST /api/auth/totp/confirm *)

ConfirmReceive(r) ==
  \E cookie \in Cookies, code \in Inputs :
    Receive(r, "confirm", code, ConfirmRefusal(cookie))

\* Mutant: the provisional secret is dropped once it is confirmed.
ConfirmCommitDropsSecret(r) ==
  LET old == slots[r].row
      b   == gen.batches + 1
  IN  /\ Working(r, "confirm")
      /\ Matches(old, slots[r].code)
      /\ row' = Write(old, [AfterSession(old) EXCEPT !.codes = Batch(b), !.enrolled = TRUE,
                                                     !.secret = NoSecret])
      /\ gen' = [gen EXCEPT !.batches = b]
      /\ history' = [history EXCEPT !.guesses = 0,
                                    !.proven = @ \cup {old.secret.plain}]
      /\ Answering(r, b)
      /\ UNCHANGED <<env, exp, shown, restarts>>

ConfirmCommit(r) ==
  LET old == slots[r].row
      b   == gen.batches + 1
  IN  /\ Working(r, "confirm")
      /\ Matches(old, slots[r].code)
      /\ row' = Write(old, [AfterSession(old) EXCEPT !.codes = Batch(b), !.enrolled = TRUE])
      /\ gen' = [gen EXCEPT !.batches = b]
      /\ history' = [history EXCEPT !.guesses = 0,
                                    !.proven = @ \cup {old.secret.plain}]
      /\ Answering(r, b)
      /\ UNCHANGED <<env, exp, shown, restarts>>

ConfirmFail(r) ==
  /\ Working(r, "confirm")
  /\ ~Matches(slots[r].row, slots[r].code)
  /\ FailedAttempt(r)

\* Mutant: the body of the answer is empty.
ConfirmAnswerEmpty(r) ==
  /\ Answerable(r, "confirm")
  /\ exp' = [exp EXCEPT !.session = SessionTtl]
  /\ Reply(r, "ok")
  /\ UNCHANGED <<env, row, gen, shown, history, restarts>>

ConfirmAnswer(r) ==
  /\ Answerable(r, "confirm")
  /\ shown' = [shown EXCEPT !.codes = @ \cup Batch(slots[r].issued)]
  /\ exp' = [exp EXCEPT !.session = SessionTtl]
  /\ Reply(r, "ok")
  /\ UNCHANGED <<env, row, gen, history, restarts>>

(* POST /api/auth/verify-totp *)

VerifyReceive(r) ==
  \E cookie \in Cookies, code \in Inputs :
    Receive(r, "verify", code, VerifyRefusal(cookie))

VerifyTotp(r) ==
  LET old == slots[r].row
  IN  /\ Working(r, "verify")
      /\ Matches(old, slots[r].code)
      /\ row' = Write(old, AfterSession(old))
      /\ history' = [history EXCEPT !.guesses = 0]
      /\ Answering(r, 0)
      /\ UNCHANGED <<env, exp, gen, shown, restarts>>

\* Mutant: the list without the code is not written back.
VerifyRecoveryKeeps(r) ==
  LET old  == slots[r].row
      code == slots[r].code
  IN  /\ Working(r, "verify")
      /\ ~Matches(old, code)
      /\ code \in old.codes
      /\ row' = Write(old, AfterSession(old))
      /\ history' = [history EXCEPT !.guesses = 0, !.used = @ \cup {code}]
      /\ Answering(r, 0)
      /\ UNCHANGED <<env, exp, gen, shown, restarts>>

VerifyRecovery(r) ==
  LET old  == slots[r].row
      code == slots[r].code
  IN  /\ Working(r, "verify")
      /\ ~Matches(old, code)
      /\ code \in old.codes
      /\ row' = Write(old, [AfterSession(old) EXCEPT !.codes = @ \ {code}])
      /\ history' = [history EXCEPT !.guesses = 0, !.used = @ \cup {code}]
      /\ Answering(r, 0)
      /\ UNCHANGED <<env, exp, gen, shown, restarts>>

VerifyFail(r) ==
  /\ Working(r, "verify")
  /\ ~Matches(slots[r].row, slots[r].code)
  /\ slots[r].code \notin slots[r].row.codes
  /\ FailedAttempt(r)

VerifyAnswer(r) ==
  /\ Answerable(r, "verify")
  /\ exp' = [exp EXCEPT !.session = SessionTtl]
  /\ Reply(r, "ok")
  /\ UNCHANGED <<env, row, gen, shown, history, restarts>>

-----------------------------------------------------------------------------
(* What happens around the handlers. *)

\* SQLite gives up waiting for the write lock of another connection: the
\* exception reaches FastAPI, the session is closed, nothing is written.
CommitFails(r) ==
  /\ slots[r].pc = "work"
  /\ slots[r].op = "login" => slots[r].row.active
  /\ Reply(r, "db_error")
  /\ UNCHANGED <<env, row, exp, gen, shown, history, restarts>>

\* The operator edits is_active in the base (no handler writes it).
OperatorSetsActive ==
  /\ MayDeactivate
  /\ row' = [row EXCEPT !.active = ~@]
  /\ UNCHANGED <<env, exp, slots, gen, shown, history, restarts>>

\* One tick less on everything that expires.
Less(n) == IF n > 0 THEN n - 1 ELSE n

Tick ==
  /\ IsLocked(row) \/ exp.pre_auth > 0 \/ exp.session > 0
  /\ row' = [row EXCEPT !.lock = Less(@)]
  /\ exp' = [pre_auth |-> Less(exp.pre_auth), session |-> Less(exp.session)]
  /\ slots' = [r \in Requests |-> [slots[r] EXCEPT !.row.lock = Less(@)]]
  /\ history' = [history EXCEPT !.guesses = IF row.lock = 1 THEN 0 ELSE @]
  /\ UNCHANGED <<env, gen, shown, restarts>>

\* launchd restarts the process, after a crash or a kickstart: the requests in
\* flight are lost, and .env is read again.  A JWT_SECRET that was replaced
\* makes every issued token invalid.
Restart ==
  /\ restarts < MaxRestarts
  /\ restarts' = restarts + 1
  /\ slots' = [r \in Requests |-> Idle("none")]
  /\ env' \in [jwt : BOOLEAN, key : Keys \cup {NoKey}]
  /\ exp' \in {exp, [pre_auth |-> 0, session |-> 0]}
  /\ UNCHANGED <<row, gen, shown, history>>

Init ==
  /\ env \in [jwt : BOOLEAN, key : Keys \cup {NoKey}]
  /\ row = NewRow
  /\ exp = [pre_auth |-> 0, session |-> 0]
  /\ slots = [r \in Requests |-> Idle("none")]
  /\ gen = [secrets |-> 0, batches |-> 0]
  /\ shown = [secrets |-> {}, codes |-> {}]
  /\ history = [guesses |-> 0, proven |-> {}, used |-> {}]
  /\ restarts = 0

\* A step of a request that has been received.
Handle(r) ==
  \/ LoginAccept(r) \/ LoginFail(r) \/ LoginInactive(r)
  \/ EnrollCommit(r) \/ EnrollAnswer(r)
  \/ ConfirmCommit(r) \/ ConfirmFail(r) \/ ConfirmAnswer(r)
  \/ VerifyTotp(r) \/ VerifyRecovery(r) \/ VerifyFail(r) \/ VerifyAnswer(r)
  \/ CommitFails(r)

Next ==
  \/ \E r \in Requests :
       \/ LoginReceive(r) \/ EnrollReceive(r) \/ ConfirmReceive(r) \/ VerifyReceive(r)
       \/ Handle(r)
  \/ OperatorSetsActive
  \/ Tick
  \/ Restart

\* A received request is run to its answer by its thread; the clock runs.
Fairness == WF_vars(Tick) /\ \A r \in Requests : WF_vars(Handle(r))

Spec == Init /\ [][Next]_vars /\ Fairness

-----------------------------------------------------------------------------
(* Types. *)

Ticks(n)  == 0 .. n
Secrets   == [key : Keys \cup {NoKey}, plain : Nat]
Recovery  == [kind : {"recovery"}, batch : Nat, n : Nat]
Bodies    == {Password, WrongCode} \cup [kind : {"totp"}, n : Nat] \cup Recovery
Rows      == [active : BOOLEAN, secret : Secrets, enrolled : BOOLEAN,
              codes : SUBSET Recovery, failed : Nat, lock : {NoLock} \cup Ticks(LockMinutes)]
Statuses  == {"none", "ok", "totp_requis", "enrolement_requis", "refused", "locked",
              "not_configured", "unauthenticated", "already_enrolled", "not_enrolled",
              "no_pending_enroll", "key_error", "db_error"}
SlotType  == [pc : {"idle", "work", "answer"},
              op : {"none", "login", "enroll", "confirm", "verify"},
              code : Bodies, row : Rows, issued : Nat, status : Statuses]

\* The state is made of what the code declares, and a status is one it returns.
TypeOK ==
  /\ env \in [jwt : BOOLEAN, key : Keys \cup {NoKey}]
  /\ row \in Rows
  /\ exp \in [pre_auth : Ticks(PreauthTtl), session : Ticks(SessionTtl)]
  /\ slots \in [Requests -> SlotType]
  /\ gen \in [secrets : Nat, batches : Nat]
  /\ shown \in [secrets : SUBSET Nat, codes : SUBSET Recovery]
  /\ history \in [guesses : Nat, proven : SUBSET Nat, used : SUBSET Recovery]
  /\ restarts \in Nat

-----------------------------------------------------------------------------
(* What holds however requests interleave. *)

\* A session token that is not expired belongs to an enrolled account, also
\* when the request that earned it read the row before others rewrote it.
SessionNeedsEnrolment == exp.session > 0 => row.enrolled

\* An enrolled account has a secret to verify, and its recovery codes are what
\* is left of ONE batch: confirms that race never leave a mixture.
EnrolledIsUsable ==
  row.enrolled => /\ row.secret # NoSecret
                  /\ \E b \in 1 .. gen.batches : row.codes \subseteq Batch(b)

\* As long as the process has not been restarted, every recovery code in the
\* base was in an answer, or is in one that is about to leave: a confirm that
\* loses the race never leaves codes nobody was given.
CodesReachOwner ==
  restarts = 0 => row.codes \subseteq
    shown.codes
      \cup UNION {Batch(slots[r].issued) : r \in {q \in Requests : Answerable(q, "confirm")}}

\* Nothing takes an enrolment back: no stale row is ever written over it.
EnrolmentIsFinal == [][row.enrolled => row'.enrolled]_vars

\* "Lockout auto-resolved in 15 min": requests in flight when the lock is set
\* may set it again, those received afterwards cannot, so it always lapses.
LockLapses == IsLocked(row) ~> ~IsLocked(row)

-----------------------------------------------------------------------------
(* What the code means to guarantee, and does when requests do not overlap. *)

\* The account is locked exactly when MaxAttempts failures were answered since
\* the last session or the last lapse: none is lost, none counts twice.
LockIffSpent == IsLocked(row) <=> history.guesses >= MaxAttempts

\* The secret of an enrolled account is one whose code the owner has typed.
EnrolledSecretProven == row.enrolled => row.secret.plain \in history.proven

\* A recovery code that has opened a session is gone from the base for good.
UsedCodesAreGone == history.used \cap row.codes = {}

\* A recovery code opens one session.
OpensWithRecovery(r) ==
  /\ slots[r].pc = "work" /\ slots[r].op = "verify" /\ slots[r].code.kind = "recovery"
  /\ slots'[r].pc = "answer"
RecoveryCodeOpensOnce ==
  [][\A r \in Requests : OpensWithRecovery(r) => slots[r].code \notin history.used]_vars

\* What the documentation says of a changed TOTP_AT_REST_KEY: a recovery code
\* the owner was shown still opens a session; no early return stands in the way.
RecoveryOutlivesKey ==
  /\ env.jwt /\ env.key # NoKey
  /\ row.active /\ row.enrolled /\ ~IsLocked(row)
  /\ row.codes \cap shown.codes # {}
  => VerifyRefusal("pre_auth") = "none"

-----------------------------------------------------------------------------
(* The abstract specifications this one implements. *)

Phase ==
  IF row.enrolled THEN "enrolled" ELSE IF row.secret # NoSecret THEN "pending" ELSE "new"

Lifecycle == INSTANCE AuthLifecycle WITH phase <- Phase, session <- exp.session > 0

\* With any number of threads, restarts and failed commits: the account only
\* moves forward, and a session needs the last stage.
ImplementsLifecycle == Lifecycle!Spec

Serial == INSTANCE AuthSerial WITH
  secret   <- row.secret.plain,
  enrolled <- row.enrolled,
  codes    <- row.codes,
  failures <- IF row.lock = 0 THEN 0 ELSE row.failed,
  lockLeft <- IF IsLocked(row) THEN row.lock ELSE 0,
  owed     <- \E r \in Requests : slots[r].pc = "answer" /\ slots[r].op \in {"confirm", "verify"},
  preauth  <- exp.pre_auth,
  session  <- exp.session

\* With one thread: every handler is one step of the serial account.
ImplementsSerial == Serial!Spec
=============================================================================
