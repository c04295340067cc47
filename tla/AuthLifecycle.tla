--------------------------- MODULE AuthLifecycle ---------------------------
(***************************************************************************)
(* What the two-step authentication promises of one admin account, whatever *)
(* the requests do to each other: the account goes from new to pending (an  *)
(* enrolment has been asked for) to enrolled, never back, never past a      *)
(* stage, and a session is open only on an enrolled account.                *)
(***************************************************************************)
VARIABLES
  phase,    \* "new", "pending" or "enrolled"
  session   \* whether a session token that is not expired exists

vars == <<phase, session>>

Init == phase = "new" /\ session = FALSE

\* totp/enroll: the first secret, or another one while none is confirmed.
Enroll ==
  /\ phase \in {"new", "pending"}
  /\ phase' = "pending"
  /\ UNCHANGED session

\* totp/confirm: only an enrolment that was asked for can be confirmed.
Confirm ==
  /\ phase = "pending"
  /\ phase' = "enrolled"
  /\ UNCHANGED session

\* The answer of totp/confirm or verify-totp carries a session cookie.
Open ==
  /\ phase = "enrolled"
  /\ session' = TRUE
  /\ UNCHANGED phase

\* The token expires, or JWT_SECRET is replaced.
Close ==
  /\ session' = FALSE
  /\ UNCHANGED phase

Next == Enroll \/ Confirm \/ Open \/ Close

Spec == Init /\ [][Next]_vars
=============================================================================
