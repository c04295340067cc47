----------------------------- MODULE AuthSerial -----------------------------
(***************************************************************************)
(* What the handlers of auth_admin.py mean when each runs alone: one step   *)
(* per request, on the account itself.  There is no stored counter to go    *)
(* stale: failures are counted from the last session or the last lapse of   *)
(* the lock, and the account is locked exactly while MaxAttempts of them    *)
(* stand.                                                                   *)
(***************************************************************************)
EXTENDS Integers

CONSTANTS MaxAttempts, LockMinutes, PreauthTtl, SessionTtl

VARIABLES
  secret,    \* number of the TOTP secret, 0 for none
  enrolled,  \* whether the secret is confirmed
  codes,     \* recovery codes that remain
  failures,  \* failures since the last session or the last lapse of the lock
  lockLeft,  \* ticks left on the lock
  owed,      \* sessions committed whose cookie has not left yet
  preauth,   \* ticks left on the pre_auth token
  session    \* ticks left on the session token

vars == <<secret, enrolled, codes, failures, lockLeft, owed, preauth, session>>

Init ==
  /\ secret = 0 /\ ~enrolled /\ codes = {}
  /\ failures = 0 /\ lockLeft = 0 /\ ~owed
  /\ preauth = 0 /\ session = 0

Open == failures < MaxAttempts

\* A wrong password, TOTP code or recovery code: the last one allowed locks.
Fail ==
  /\ Open
  /\ failures' = failures + 1
  /\ lockLeft' = IF failures' = MaxAttempts THEN LockMinutes ELSE 0
  /\ UNCHANGED <<secret, enrolled, codes, owed, preauth, session>>

\* The right password: a pre_auth token, and NO effect on the failures.
Login ==
  /\ Open
  /\ preauth' = PreauthTtl
  /\ UNCHANGED <<secret, enrolled, codes, failures, lockLeft, owed, session>>

Enroll ==
  /\ ~enrolled
  /\ secret' > secret
  /\ UNCHANGED <<enrolled, codes, failures, lockLeft, owed, preauth, session>>

Confirm ==
  /\ Open
  /\ ~enrolled /\ secret # 0
  /\ enrolled' = TRUE
  /\ codes' # {}
  /\ failures' = 0 /\ owed' = TRUE
  /\ UNCHANGED <<secret, lockLeft, preauth, session>>

\* verify-totp, with a TOTP code or with a recovery code that is spent.
Verify ==
  /\ Open
  /\ enrolled
  /\ codes' \in {codes} \cup {codes \ {c} : c \in codes}
  /\ failures' = 0 /\ owed' = TRUE
  /\ UNCHANGED <<secret, enrolled, lockLeft, preauth, session>>

\* The cookie leaves, or is lost with the process.
Deliver ==
  /\ owed
  /\ session' = SessionTtl /\ owed' = FALSE
  /\ UNCHANGED <<secret, enrolled, codes, failures, lockLeft, preauth>>

Lose ==
  /\ owed' = FALSE
  /\ \/ UNCHANGED <<preauth, session>>
     \/ preauth' = 0 /\ session' = 0
  /\ UNCHANGED <<secret, enrolled, codes, failures, lockLeft>>

Less(n) == IF n > 0 THEN n - 1 ELSE n

Tick ==
  /\ lockLeft' = Less(lockLeft)
  /\ failures' = IF lockLeft = 1 THEN 0 ELSE failures
  /\ preauth' = Less(preauth)
  /\ session' = Less(session)
  /\ UNCHANGED <<secret, enrolled, codes, owed>>

Next ==
  Fail \/ Login \/ Enroll \/ Confirm \/ Verify \/ Deliver \/ Lose \/ Tick

Spec == Init /\ [][Next]_vars
=============================================================================
