------------------------- MODULE AuthAccountProofs -------------------------
(***************************************************************************)
(* Proofs about AuthAccount, for any number of threads and any limits.     *)
(* A request may write a row it read long ago: EnrolmentInv and CodesInv   *)
(* say what stays true of the rows that are held, SerialInv what is true   *)
(* besides when requests do not overlap.                                   *)
(***************************************************************************)
EXTENDS AuthAccount, TLAPS

-----------------------------------------------------------------------------
(* The operators the handlers are built from stay inside the types. *)

USE DEF NoLock

\* Expiring one tick keeps a duration in range.
LEMMA LessType ==
  ASSUME NEW n \in Nat
  PROVE  /\ \A t \in Ticks(n) : Less(t) \in Ticks(n)
         /\ \A t \in {NoLock} \cup Ticks(n) : Less(t) \in {NoLock} \cup Ticks(n)
BY DEF Less, Ticks

\* What a new process, a new row and an idle thread hold is well typed.
LEMMA NewTypes ==
  /\ NoSecret \in Secrets
  /\ NewRow \in Rows
  /\ \A status \in Statuses : Idle(status) \in SlotType
<1>1. NoSecret \in Secrets
  BY DEF NoSecret, Secrets
<1>2. NewRow \in Rows
  BY <1>1 DEF NewRow, Rows
<1>3. \A status \in Statuses : Idle(status) \in SlotType
  BY <1>2 DEF Idle, SlotType, Bodies, WrongCode
<1> QED BY <1>1, <1>2, <1>3

\* A flush of two well typed rows on a third is a well typed row.
LEMMA WriteType ==
  ASSUME row \in Rows, NEW old \in Rows, NEW new \in Rows
  PROVE  Write(old, new) \in Rows
BY DEF Write, Rows

\* register_failure and register_session_established build rows.
LEMMA CounterTypes ==
  ASSUME NEW s \in Rows
  PROVE  AfterFailure(s) \in Rows /\ AfterSession(s) \in Rows
<1> DEFINE lapsed == s.lock # NoLock /\ ~IsLocked(s)
           count  == IF lapsed THEN 1 ELSE s.failed + 1
           lock   == IF count >= MaxAttempts THEN LockMinutes
                     ELSE IF lapsed THEN NoLock ELSE s.lock
<1>1. s.failed \in Nat /\ s.lock \in {NoLock} \cup Ticks(LockMinutes)
  BY DEF Rows
<1>2. count \in Nat
  BY <1>1
<1>3. lock \in {NoLock} \cup Ticks(LockMinutes)
  BY <1>1, LimitsAssumption DEF Ticks
<1>4. AfterFailure(s) = [s EXCEPT !.failed = count, !.lock = lock]
  BY DEF AfterFailure, Rows
<1> HIDE DEF lapsed, count, lock
<1>5. AfterFailure(s) \in Rows
  BY <1>2, <1>3, <1>4 DEF Rows
<1>6. AfterSession(s) \in Rows
  BY DEF AfterSession, Rows
<1> QED BY <1>5, <1>6

\* Every batch is made of recovery codes.
LEMMA BatchType ==
  ASSUME NEW b \in Nat
  PROVE  Batch(b) \subseteq Recovery
BY LimitsAssumption DEF Batch, Recovery, RecoveryCode

-----------------------------------------------------------------------------
(* Type correctness. *)

\* Ending a request, or moving it to its answer, leaves well typed slots.
LEMMA SlotTypes ==
  ASSUME slots \in [Requests -> SlotType], NEW r \in Requests
  PROVE  /\ \A status \in Statuses : Reply(r, status) => slots' \in [Requests -> SlotType]
         /\ \A n \in Nat : Answering(r, n) => slots' \in [Requests -> SlotType]
<1>1. ASSUME NEW status \in Statuses, Reply(r, status)
      PROVE  slots' \in [Requests -> SlotType]
  BY <1>1, NewTypes DEF Reply
<1>2. ASSUME NEW n \in Nat, Answering(r, n)
      PROVE  slots' \in [Requests -> SlotType]
  <2>1. Idle("none") \in SlotType
    BY NewTypes DEF Statuses
  <2>2. slots[r].op \in {"none", "login", "enroll", "confirm", "verify"}
    BY DEF SlotType
  <2>3. [Idle("none") EXCEPT !.pc = "answer", !.op = slots[r].op, !.issued = n] \in SlotType
    BY <1>2, <2>1, <2>2 DEF SlotType
  <2> QED BY <1>2, <2>3 DEF Answering
<1> QED BY <1>1, <1>2

\* The statuses of the early returns are statuses.
LEMMA RefusalTypes ==
  /\ LoginRefusal \in Statuses
  /\ \A cookie : /\ EnrollRefusal(cookie) \in Statuses
                 /\ ConfirmRefusal(cookie) \in Statuses
                 /\ VerifyRefusal(cookie) \in Statuses
<1>1. \A cookie, purposes : CookieRefusal(cookie, purposes) \in Statuses
  BY DEF CookieRefusal, Statuses
<1>2. LoginRefusal \in Statuses
  BY DEF LoginRefusal, Statuses
<1>3. \A cookie : EnrollRefusal(cookie) \in Statuses
  BY <1>1 DEF EnrollRefusal, Statuses
<1>4. \A cookie : ConfirmRefusal(cookie) \in Statuses
  BY <1>3 DEF ConfirmRefusal, Statuses
<1>5. \A cookie : VerifyRefusal(cookie) \in Statuses
  BY <1>1 DEF VerifyRefusal, Statuses
<1> QED BY <1>2, <1>3, <1>4, <1>5

\* What the owner can type is a body.
LEMMA InputTypes ==
  ASSUME TypeOK
  PROVE  Inputs \subseteq Bodies /\ Password \in Bodies /\ WrongCode \in Bodies
<1>1. shown.secrets \subseteq Nat /\ shown.codes \subseteq Recovery
  BY DEF TypeOK
<1> QED BY <1>1 DEF Inputs, Bodies, TotpCode

\* Receiving a request touches its slot only.
LEMMA ReceiveType ==
  ASSUME TypeOK, NEW r \in Requests, NEW code \in Bodies, NEW refusal \in Statuses,
         NEW op \in {"login", "enroll", "confirm", "verify"},
         Receive(r, op, code, refusal)
  PROVE  TypeOK'
<1>1. CASE Reply(r, refusal)
  BY <1>1, SlotTypes DEF TypeOK, Receive
<1>2. CASE slots' = [slots EXCEPT ![r] = [pc |-> "work", op |-> op, code |-> code,
                                          row |-> row, issued |-> 0, status |-> "none"]]
  <2>1. [pc |-> "work", op |-> op, code |-> code, row |-> row, issued |-> 0,
         status |-> "none"] \in SlotType
    BY DEF SlotType, Statuses, TypeOK
  <2> QED BY <1>2, <2>1 DEF TypeOK, Receive
<1> QED BY <1>1, <1>2 DEF Receive

\* A request at work holds a well typed row and body.
LEMMA HeldTypes ==
  ASSUME TypeOK, NEW r \in Requests
  PROVE  /\ slots[r].row \in Rows
         /\ slots[r].code \in Bodies
         /\ slots[r].issued \in Nat
BY DEF TypeOK, SlotType

\* register_failure on a well typed row leaves a well typed state.
LEMMA FailedAttemptType ==
  ASSUME TypeOK, NEW r \in Requests, FailedAttempt(r)
  PROVE  TypeOK'
<1>1. row' \in Rows
  BY HeldTypes, CounterTypes, WriteType DEF FailedAttempt, TypeOK
<1>2. history' \in [guesses : Nat, proven : SUBSET Nat, used : SUBSET Recovery]
  BY DEF FailedAttempt, TypeOK
<1>3. slots' \in [Requests -> SlotType]
  BY SlotTypes DEF FailedAttempt, TypeOK, Statuses
<1> QED BY <1>1, <1>2, <1>3 DEF FailedAttempt, TypeOK

\* No step leaves the types.
LEMMA TypeStep ==
  ASSUME TypeOK, [Next]_vars
  PROVE  TypeOK'
<1> USE SlotTypes, HeldTypes DEF TypeOK
<1>a. \A st \in {"ok", "totp_requis", "enrolement_requis", "refused", "db_error", "none"} :
        st \in Statuses
  BY DEF Statuses
<1>b. \A r \in Requests : AfterSession(slots[r].row) \in Rows
  BY CounterTypes
<1>c. \A r \in Requests, new \in Rows : Write(slots[r].row, new) \in Rows
  BY WriteType
<1>1. ASSUME NEW r \in Requests, LoginReceive(r)
      PROVE  TypeOK'
  BY <1>1, ReceiveType, RefusalTypes, InputTypes DEF LoginReceive
<1>2. ASSUME NEW r \in Requests, EnrollReceive(r)
      PROVE  TypeOK'
  BY <1>2, ReceiveType, RefusalTypes, InputTypes DEF EnrollReceive
<1>3. ASSUME NEW r \in Requests, ConfirmReceive(r)
      PROVE  TypeOK'
  BY <1>3, ReceiveType, RefusalTypes, InputTypes DEF ConfirmReceive
<1>4. ASSUME NEW r \in Requests, VerifyReceive(r)
      PROVE  TypeOK'
  BY <1>4, ReceiveType, RefusalTypes, InputTypes DEF VerifyReceive
<1>5. ASSUME NEW r \in Requests, LoginAccept(r)
      PROVE  TypeOK'
  <2>1. slots' \in [Requests -> SlotType]
    BY <1>5, <1>a DEF LoginAccept
  <2>2. exp' \in [pre_auth : Ticks(PreauthTtl), session : Ticks(SessionTtl)]
    BY <1>5, LimitsAssumption DEF LoginAccept, Ticks
  <2> QED BY <1>5, <2>1, <2>2 DEF LoginAccept
<1>6. ASSUME NEW r \in Requests, LoginFail(r) \/ ConfirmFail(r) \/ VerifyFail(r)
      PROVE  TypeOK'
  BY <1>6, FailedAttemptType DEF LoginFail, ConfirmFail, VerifyFail
<1>7. ASSUME NEW r \in Requests, LoginInactive(r) \/ CommitFails(r)
      PROVE  TypeOK'
  BY <1>7, <1>a DEF LoginInactive, CommitFails
<1>8. ASSUME NEW r \in Requests, EnrollCommit(r)
      PROVE  TypeOK'
  <2> DEFINE old == slots[r].row
             n   == gen.secrets + 1
             new == [old EXCEPT !.secret = [key |-> env.key, plain |-> n]]
  <2>1. n \in Nat
    OBVIOUS
  <2>2. new \in Rows
    BY <2>1 DEF Rows, Secrets
  <2>3. row' = Write(old, new) /\ gen' = [gen EXCEPT !.secrets = n] /\ Answering(r, n)
    BY <1>8 DEF EnrollCommit
  <2> HIDE DEF n, new
  <2>4. row' \in Rows
    BY <2>2, <2>3, <1>c
  <2>5. slots' \in [Requests -> SlotType]
    BY <2>1, <2>3
  <2> QED BY <1>8, <2>1, <2>3, <2>4, <2>5 DEF EnrollCommit
<1>9. ASSUME NEW r \in Requests, EnrollAnswer(r)
      PROVE  TypeOK'
  <2>1. slots' \in [Requests -> SlotType]
    BY <1>9, <1>a DEF EnrollAnswer
  <2>2. shown' \in [secrets : SUBSET Nat, codes : SUBSET Recovery]
    BY <1>9 DEF EnrollAnswer
  <2> QED BY <1>9, <2>1, <2>2 DEF EnrollAnswer
<1>10. ASSUME NEW r \in Requests, ConfirmCommit(r)
       PROVE  TypeOK'
  <2> DEFINE old == slots[r].row
             b   == gen.batches + 1
             new == [AfterSession(old) EXCEPT !.codes = Batch(b), !.enrolled = TRUE]
  <2>1. b \in Nat
    OBVIOUS
  <2>2. Batch(b) \subseteq Recovery
    BY <2>1, BatchType
  <2>3. new \in Rows
    BY <1>b, <2>2 DEF Rows
  <2>4. row' = Write(old, new) /\ gen' = [gen EXCEPT !.batches = b] /\ Answering(r, b)
    BY <1>10 DEF ConfirmCommit
  <2>5. history' \in [guesses : Nat, proven : SUBSET Nat, used : SUBSET Recovery]
    BY <1>10 DEF ConfirmCommit, Rows, Secrets
  <2> HIDE DEF b, new
  <2>6. row' \in Rows
    BY <2>3, <2>4, <1>c
  <2>7. slots' \in [Requests -> SlotType]
    BY <2>1, <2>4
  <2> QED BY <1>10, <2>1, <2>4, <2>5, <2>6, <2>7 DEF ConfirmCommit
<1>11. ASSUME NEW r \in Requests, ConfirmAnswer(r)
       PROVE  TypeOK'
  <2>1. slots' \in [Requests -> SlotType]
    BY <1>11, <1>a DEF ConfirmAnswer
  <2>2. shown' \in [secrets : SUBSET Nat, codes : SUBSET Recovery]
    BY <1>11, BatchType DEF ConfirmAnswer
  <2>3. exp' \in [pre_auth : Ticks(PreauthTtl), session : Ticks(SessionTtl)]
    BY <1>11, LimitsAssumption DEF ConfirmAnswer, Ticks
  <2> QED BY <1>11, <2>1, <2>2, <2>3 DEF ConfirmAnswer
<1>12. ASSUME NEW r \in Requests, VerifyTotp(r)
       PROVE  TypeOK'
  <2>1. row' \in Rows
    BY <1>12, <1>b, <1>c DEF VerifyTotp
  <2>2. slots' \in [Requests -> SlotType]
    BY <1>12 DEF VerifyTotp
  <2> QED BY <1>12, <2>1, <2>2 DEF VerifyTotp
<1>13. ASSUME NEW r \in Requests, VerifyRecovery(r)
       PROVE  TypeOK'
  <2> DEFINE old == slots[r].row
             new == [AfterSession(old) EXCEPT !.codes = @ \ {slots[r].code}]
  <2>1. new \in Rows
    BY <1>b DEF Rows
  <2>2. row' = Write(old, new) /\ Answering(r, 0)
    BY <1>13 DEF VerifyRecovery
  <2>3. slots[r].code \in Recovery
    BY <1>13 DEF VerifyRecovery, Rows
  <2>4. history' \in [guesses : Nat, proven : SUBSET Nat, used : SUBSET Recovery]
    BY <1>13, <2>3 DEF VerifyRecovery
  <2> HIDE DEF new
  <2>5. row' \in Rows
    BY <2>1, <2>2, <1>c
  <2>6. slots' \in [Requests -> SlotType]
    BY <2>2
  <2> QED BY <1>13, <2>4, <2>5, <2>6 DEF VerifyRecovery
<1>14. ASSUME NEW r \in Requests, VerifyAnswer(r)
       PROVE  TypeOK'
  <2>1. slots' \in [Requests -> SlotType]
    BY <1>14, <1>a DEF VerifyAnswer
  <2>2. exp' \in [pre_auth : Ticks(PreauthTtl), session : Ticks(SessionTtl)]
    BY <1>14, LimitsAssumption DEF VerifyAnswer, Ticks
  <2> QED BY <1>14, <2>1, <2>2 DEF VerifyAnswer
<1>15. CASE OperatorSetsActive
  <2>1. row' \in Rows
    BY <1>15 DEF OperatorSetsActive, Rows
  <2> QED BY <1>15, <2>1 DEF OperatorSetsActive
<1>16. CASE Tick
  <2>1. ASSUME NEW s \in Rows
        PROVE  [s EXCEPT !.lock = Less(@)] \in Rows
    BY LessType, LimitsAssumption DEF Rows
  <2>2. row' \in Rows
    BY <1>16, <2>1 DEF Tick
  <2>3. exp' \in [pre_auth : Ticks(PreauthTtl), session : Ticks(SessionTtl)]
    BY <1>16, LessType, LimitsAssumption DEF Tick
  <2>4. ASSUME NEW r \in Requests
        PROVE  [slots[r] EXCEPT !.row.lock = Less(@)] \in SlotType
    <3>1. slots[r] \in SlotType /\ slots[r].row \in Rows
      BY DEF SlotType
    <3>2. [slots[r].row EXCEPT !.lock = Less(@)] \in Rows
      BY <2>1, <3>1
    <3> QED BY <3>1, <3>2 DEF SlotType
  <2>5. slots' \in [Requests -> SlotType]
    BY <1>16, <2>4 DEF Tick
  <2>6. history' \in [guesses : Nat, proven : SUBSET Nat, used : SUBSET Recovery]
    BY <1>16 DEF Tick
  <2> QED BY <1>16, <2>2, <2>3, <2>5, <2>6 DEF Tick
<1>17. CASE Restart
  <2>1. slots' \in [Requests -> SlotType]
    BY <1>17, <1>a, NewTypes DEF Restart
  <2>2. exp' \in [pre_auth : Ticks(PreauthTtl), session : Ticks(SessionTtl)]
    BY <1>17, LimitsAssumption DEF Restart, Ticks
  <2> QED BY <1>17, <2>1, <2>2 DEF Restart
<1>18. CASE UNCHANGED vars
  BY <1>18 DEF vars
<1> QED
  BY <1>1, <1>2, <1>3, <1>4, <1>5, <1>6, <1>7, <1>8, <1>9, <1>10, <1>11, <1>12, <1>13,
     <1>14, <1>15, <1>16, <1>17, <1>18 DEF Next, Handle

\* The initial states are well typed.
LEMMA TypeInit == Init => TypeOK
<1>1. Idle("none") \in SlotType
  BY NewTypes DEF Statuses
<1> QED BY <1>1, NewTypes, LimitsAssumption DEF Init, TypeOK, Ticks

\* Whatever the requests, the restarts and the limits, the state keeps the
\* types the models and the settings declare.
THEOREM TypeCorrect == Spec => []TypeOK
<1> QED BY TypeInit, TypeStep, PTL DEF Spec
-----------------------------------------------------------------------------
(* The enrolment, whatever requests do to each other.                       *)
(*                                                                          *)
(* SessionNeedsEnrolment and EnrolledIsUsable are not inductive: a request  *)
(* commits what it derives from a row it read earlier.  What carries them   *)
(* is that the base is always ahead of every row held: an enrolled row held *)
(* means an enrolled account, a secret held means a secret in the base.     *)

OneBatch(codes) == \E b \in 1 .. gen.batches : codes \subseteq Batch(b)

RowInv ==
  /\ row.enrolled => row.secret # NoSecret
  /\ row.enrolled => OneBatch(row.codes)
  /\ ~row.enrolled => row.codes = {}

HeldInv(r) ==
  /\ slots[r].row.enrolled => row.enrolled /\ OneBatch(slots[r].row.codes)
  /\ slots[r].row.secret # NoSecret => row.secret # NoSecret
  /\ Working(r, "verify") => slots[r].row.enrolled
  /\ Working(r, "confirm") => slots[r].row.secret # NoSecret /\ slots[r].row.codes = {}
  /\ Answerable(r, "confirm") \/ Answerable(r, "verify") => row.enrolled

EnrolmentInv ==
  /\ TypeOK
  /\ RowInv
  /\ \A r \in Requests : HeldInv(r)
  /\ SessionNeedsEnrolment

\* How a step may move the row: enrolment and secret are not taken back.
Forward ==
  /\ row.enrolled => row'.enrolled
  /\ row.secret # NoSecret => row'.secret # NoSecret
  /\ gen.batches <= gen'.batches

\* Batches are never forgotten.
LEMMA BatchesKept ==
  ASSUME TypeOK, TypeOK', Forward, NEW codes, OneBatch(codes)
  PROVE  OneBatch(codes)'
<1>1. PICK b \in 1 .. gen.batches : codes \subseteq Batch(b)
  BY DEF OneBatch
<1>2. b \in 1 .. gen'.batches
  BY <1>1 DEF Forward, TypeOK
<1> QED BY <1>1, <1>2 DEF OneBatch

\* A request that a step leaves alone still holds a row the base is ahead of.
LEMMA HeldKept ==
  ASSUME TypeOK, TypeOK', Forward, NEW r \in Requests, HeldInv(r), slots'[r] = slots[r]
  PROVE  HeldInv(r)'
<1>1. OneBatch(slots[r].row.codes) => OneBatch(slots[r].row.codes)'
  <2> DEFINE codes == slots[r].row.codes
  <2>1. slots'[r].row.codes = codes
    OBVIOUS
  <2>2. ASSUME NEW c, OneBatch(c)
        PROVE  \E b \in 1 .. gen'.batches : c \subseteq Batch(b)
    BY <2>2, BatchesKept DEF OneBatch
  <2> QED BY <2>1, <2>2 DEF OneBatch
<1> QED BY <1>1 DEF HeldInv, Forward, Working, Answerable, OneBatch

\* A thread without a request holds nothing.
LEMMA IdleHolds ==
  ASSUME NEW r \in Requests, NEW status, slots'[r] = Idle(status)
  PROVE  HeldInv(r)'
BY DEF HeldInv, Idle, NewRow, Working, Answerable

\* The columns of a flush, and what the two counter updates leave alone.
LEMMA Columns ==
  ASSUME NEW old, NEW new, row' = Write(old, new)
  PROVE  /\ row'.enrolled = IF new.enrolled # old.enrolled THEN new.enrolled ELSE row.enrolled
         /\ row'.secret   = IF new.secret # old.secret THEN new.secret ELSE row.secret
         /\ row'.codes    = IF new.codes # old.codes THEN new.codes ELSE row.codes
BY DEF Write

\* register_failure and register_session_established touch the counters only.
LEMMA CountersOnly ==
  ASSUME NEW s \in Rows
  PROVE  \A new \in {AfterFailure(s), AfterSession(s)} :
           new.enrolled = s.enrolled /\ new.secret = s.secret /\ new.codes = s.codes
BY DEF AfterFailure, AfterSession, Rows

\* A step that leaves enrolment, secret and codes alone.
SameEnrolment ==
  /\ row'.enrolled = row.enrolled /\ row'.secret = row.secret /\ row'.codes = row.codes
  /\ gen' = gen

\* All a step may do to the stage of the account and to its session: forward,
\* through an enrolment that was asked for, one of the two at a time.
Moves ==
  /\ Forward
  /\ row'.enrolled /\ ~row.enrolled => row.secret # NoSecret
  /\ exp'.session = exp.session \/ SameEnrolment

\* A step that leaves the enrolment columns alone moves nothing backwards.
LEMMA SameKeeps ==
  ASSUME TypeOK, RowInv, SameEnrolment
  PROVE  Forward /\ Moves /\ RowInv'
BY DEF RowInv, SameEnrolment, Forward, Moves, OneBatch, TypeOK

\* What is left to show of a step of thread r.
LEMMA OneThread ==
  ASSUME EnrolmentInv, TypeOK', RowInv', Forward, SessionNeedsEnrolment',
         NEW r \in Requests, HeldInv(r)',
         \A q \in Requests \ {r} : slots'[q] = slots[q]
  PROVE  EnrolmentInv'
<1>1. \A q \in Requests : HeldInv(q)'
  BY HeldKept DEF EnrolmentInv
<1> QED BY <1>1 DEF EnrolmentInv

\* How the slots of the other threads fare when thread r replies or commits.
LEMMA Slots ==
  ASSUME TypeOK, NEW r \in Requests, NEW status, NEW n
  PROVE  /\ Reply(r, status) => /\ slots'[r] = Idle(status)
                                /\ \A q \in Requests \ {r} : slots'[q] = slots[q]
         /\ Answering(r, n) =>
              /\ slots'[r].row = NewRow /\ slots'[r].pc = "answer" /\ slots'[r].op = slots[r].op
              /\ \A q \in Requests \ {r} : slots'[q] = slots[q]
<1> DEFINE a == [Idle("none") EXCEPT !.pc = "answer", !.op = slots[r].op, !.issued = n]
<1>1. Reply(r, status) => /\ slots'[r] = Idle(status)
                          /\ \A q \in Requests \ {r} : slots'[q] = slots[q]
  BY DEF Reply, TypeOK
<1>2. a.row = NewRow /\ a.pc = "answer" /\ a.op = slots[r].op
  BY DEF Idle
<1>3. Answering(r, n) => slots' = [slots EXCEPT ![r] = a]
  BY DEF Answering
<1> HIDE DEF a
<1>4. Answering(r, n) => /\ slots'[r] = a
                         /\ \A q \in Requests \ {r} : slots'[q] = slots[q]
  BY <1>3 DEF TypeOK
<1> QED BY <1>1, <1>2, <1>4

\* Receiving a request: the row it holds is the row of the base.
LEMMA ReceiveKeeps ==
  ASSUME EnrolmentInv, TypeOK', NEW r \in Requests, NEW op, NEW code, NEW refusal,
         Receive(r, op, code, refusal),
         refusal = "none" /\ op = "verify" => row.enrolled,
         refusal = "none" /\ op = "confirm" => row.secret # NoSecret /\ ~row.enrolled
  PROVE  EnrolmentInv' /\ Moves
<1>1. SameEnrolment /\ exp' = exp
  BY DEF Receive, SameEnrolment
<1>2. Forward /\ Moves /\ RowInv' /\ SessionNeedsEnrolment'
  BY <1>1, SameKeeps DEF EnrolmentInv, SessionNeedsEnrolment, SameEnrolment
<1>3. CASE Reply(r, refusal)
  <2>1. HeldInv(r)'
    BY <1>3, Slots, IdleHolds DEF EnrolmentInv
  <2> QED BY <1>2, <1>3, <2>1, Slots, OneThread DEF EnrolmentInv
<1>4. CASE refusal = "none" /\ slots' = [slots EXCEPT ![r] =
              [pc |-> "work", op |-> op, code |-> code, row |-> row, issued |-> 0,
               status |-> "none"]]
  <2>1. slots'[r].row = row /\ slots'[r].pc = "work" /\ slots'[r].op = op
    BY <1>4 DEF EnrolmentInv, TypeOK
  <2>2. row' = row /\ gen' = gen
    BY DEF Receive
  <2>3. HeldInv(r)'
    BY <1>4, <2>1, <2>2 DEF HeldInv, EnrolmentInv, RowInv, Working, Answerable, OneBatch
  <2>4. \A q \in Requests \ {r} : slots'[q] = slots[q]
    BY <1>4 DEF EnrolmentInv, TypeOK
  <2> QED BY <1>2, <2>3, <2>4, OneThread
<1> QED BY <1>2, <1>3, <1>4 DEF Receive

\* A failure moves the counters only.
LEMMA FailureKeeps ==
  ASSUME EnrolmentInv, TypeOK', NEW r \in Requests, FailedAttempt(r)
  PROVE  EnrolmentInv' /\ Moves
<1>1. slots[r].row \in Rows
  BY HeldTypes DEF EnrolmentInv
<1>2. SameEnrolment /\ exp' = exp
  BY <1>1, Columns, CountersOnly DEF FailedAttempt, SameEnrolment
<1>3. Forward /\ Moves /\ RowInv' /\ SessionNeedsEnrolment'
  BY <1>2, SameKeeps DEF EnrolmentInv, SessionNeedsEnrolment, SameEnrolment
<1>4. HeldInv(r)' /\ \A q \in Requests \ {r} : slots'[q] = slots[q]
  BY Slots, IdleHolds DEF FailedAttempt, EnrolmentInv
<1> QED BY <1>3, <1>4, OneThread

\* What a request that was let through has been checked for.
LEMMA LetThrough ==
  ASSUME NEW cookie
  PROVE  /\ VerifyRefusal(cookie) = "none" => row.enrolled
         /\ ConfirmRefusal(cookie) = "none" => row.secret # NoSecret /\ ~row.enrolled
BY DEF VerifyRefusal, ConfirmRefusal, EnrollRefusal

\* The commit of enroll: at most the secret moves, and not back to none.
LEMMA EnrollKeeps ==
  ASSUME EnrolmentInv, TypeOK', NEW r \in Requests, EnrollCommit(r)
  PROVE  EnrolmentInv' /\ Moves
<1> DEFINE old == slots[r].row
           new == [old EXCEPT !.secret = [key |-> env.key, plain |-> gen.secrets + 1]]
<1>1. new.enrolled = old.enrolled /\ new.codes = old.codes /\ new.secret # NoSecret
  <2>1. old \in Rows /\ gen.secrets + 1 # 0
    BY HeldTypes DEF EnrolmentInv, TypeOK
  <2> QED BY <2>1 DEF Rows, NoSecret
<1>2. row' = Write(old, new) /\ exp' = exp /\ gen'.batches = gen.batches
  BY DEF EnrollCommit, EnrolmentInv, TypeOK
<1> HIDE DEF new
<1>3. row'.enrolled = row.enrolled /\ row'.codes = row.codes
  BY <1>1, <1>2, Columns
<1>4. row.secret # NoSecret => row'.secret # NoSecret
  BY <1>1, <1>2, Columns
<1>5. Forward /\ Moves
  BY <1>2, <1>3, <1>4 DEF Forward, Moves, EnrolmentInv, TypeOK
<1>6. RowInv' /\ SessionNeedsEnrolment'
  BY <1>2, <1>3, <1>4 DEF RowInv, EnrolmentInv, SessionNeedsEnrolment, OneBatch
<1>7. HeldInv(r)' /\ \A q \in Requests \ {r} : slots'[q] = slots[q]
  <2>1. /\ slots'[r].row = NewRow /\ slots'[r].op = "enroll" /\ slots'[r].pc = "answer"
        /\ \A q \in Requests \ {r} : slots'[q] = slots[q]
    BY Slots DEF EnrollCommit, Working, EnrolmentInv
  <2> QED BY <2>1 DEF HeldInv, NewRow, Working, Answerable
<1> QED BY <1>5, <1>6, <1>7, OneThread

\* The commit of confirm: the account ends enrolled, with the codes of one batch.
LEMMA ConfirmKeeps ==
  ASSUME EnrolmentInv, TypeOK', NEW r \in Requests, ConfirmCommit(r)
  PROVE  EnrolmentInv' /\ Moves
<1> DEFINE old == slots[r].row
           b   == gen.batches + 1
           new == [AfterSession(old) EXCEPT !.codes = Batch(b), !.enrolled = TRUE]
<1>1. old \in Rows /\ AfterSession(old) \in Rows
  BY HeldTypes, CounterTypes DEF EnrolmentInv
<1>2. new.enrolled = TRUE /\ new.codes = Batch(b) /\ new.secret = old.secret
  BY <1>1, CountersOnly DEF Rows
<1>3. row' = Write(old, new) /\ exp' = exp /\ gen'.batches = b
  BY DEF ConfirmCommit, EnrolmentInv, TypeOK
<1>4. old.secret # NoSecret /\ old.codes = {} /\ row.secret # NoSecret
      /\ (old.enrolled => row.enrolled)
  BY DEF ConfirmCommit, EnrolmentInv, HeldInv
<1>5. RecoveryCode(b, 1) \in Batch(b)
  BY LimitsAssumption DEF Batch
<1>6. b \in 1 .. b /\ gen.batches <= b
  BY DEF EnrolmentInv, TypeOK
<1> HIDE DEF new, b
<1>7. old.enrolled \in BOOLEAN /\ row.enrolled \in BOOLEAN
  BY <1>1 DEF Rows, EnrolmentInv, TypeOK
<1>8. row'.enrolled /\ row'.secret = row.secret /\ row'.codes = Batch(b)
  BY <1>2, <1>3, <1>4, <1>5, <1>7, Columns
<1>9. Forward /\ Moves
  BY <1>3, <1>4, <1>6, <1>8 DEF Forward, Moves
<1>10. RowInv' /\ SessionNeedsEnrolment'
  BY <1>3, <1>4, <1>6, <1>8 DEF RowInv, SessionNeedsEnrolment, OneBatch
<1>11. HeldInv(r)' /\ \A q \in Requests \ {r} : slots'[q] = slots[q]
  <2>1. /\ slots'[r].row = NewRow /\ slots'[r].pc = "answer"
        /\ \A q \in Requests \ {r} : slots'[q] = slots[q]
    BY Slots DEF ConfirmCommit, EnrolmentInv
  <2> QED BY <1>8, <2>1 DEF HeldInv, NewRow, Working, Answerable
<1> QED BY <1>9, <1>10, <1>11, OneThread

\* The commit of verify-totp: nothing moves but, maybe, the codes of the batch.
LEMMA VerifyKeeps ==
  ASSUME EnrolmentInv, TypeOK', NEW r \in Requests, VerifyTotp(r) \/ VerifyRecovery(r)
  PROVE  EnrolmentInv' /\ Moves
<1> DEFINE old == slots[r].row
<1>1. old \in Rows /\ AfterSession(old) \in Rows
  BY HeldTypes, CounterTypes DEF EnrolmentInv
<1>2. PICK new : /\ row' = Write(old, new)
                 /\ new.enrolled = old.enrolled /\ new.secret = old.secret
                 /\ new.codes \subseteq old.codes
  <2>1. CASE VerifyTotp(r)
    BY <2>1, <1>1, CountersOnly DEF VerifyTotp
  <2>2. CASE VerifyRecovery(r)
    <3> DEFINE new == [AfterSession(old) EXCEPT !.codes = @ \ {slots[r].code}]
    <3>1. new.enrolled = old.enrolled /\ new.secret = old.secret /\ new.codes \subseteq old.codes
      BY <1>1, CountersOnly DEF Rows
    <3>2. row' = Write(old, new)
      BY <2>2 DEF VerifyRecovery
    <3> QED BY <3>1, <3>2
  <2> QED BY <2>1, <2>2
<1>3. exp' = exp /\ gen' = gen
  BY DEF VerifyTotp, VerifyRecovery
<1>4. old.enrolled /\ row.enrolled /\ OneBatch(old.codes) /\ OneBatch(row.codes)
      /\ row.secret # NoSecret
  BY DEF VerifyTotp, VerifyRecovery, EnrolmentInv, HeldInv, RowInv
<1>5. row'.enrolled /\ row'.secret = row.secret /\ OneBatch(row'.codes)
  BY <1>2, <1>4, Columns DEF OneBatch
<1>6. Forward /\ Moves
  BY <1>3, <1>4, <1>5 DEF Forward, Moves, EnrolmentInv, TypeOK
<1>7. RowInv' /\ SessionNeedsEnrolment'
  BY <1>3, <1>4, <1>5 DEF RowInv, SessionNeedsEnrolment, OneBatch
<1>8. HeldInv(r)' /\ \A q \in Requests \ {r} : slots'[q] = slots[q]
  <2>1. /\ slots'[r].row = NewRow /\ slots'[r].pc = "answer"
        /\ \A q \in Requests \ {r} : slots'[q] = slots[q]
    BY Slots DEF VerifyTotp, VerifyRecovery, EnrolmentInv
  <2> QED BY <1>5, <2>1 DEF HeldInv, NewRow, Working, Answerable
<1> QED BY <1>6, <1>7, <1>8, OneThread

\* The steps that end a request or surround the requests.
LEMMA QuietKeeps ==
  ASSUME EnrolmentInv, TypeOK', SameEnrolment, SessionNeedsEnrolment',
         \A q \in Requests : \/ slots'[q] = slots[q]
                             \/ \E status : slots'[q] = Idle(status)
  PROVE  EnrolmentInv' /\ Moves
<1>1. Forward /\ Moves /\ RowInv'
  BY SameKeeps DEF EnrolmentInv
<1>2. \A q \in Requests : HeldInv(q)'
  BY <1>1, HeldKept, IdleHolds DEF EnrolmentInv
<1> QED BY <1>1, <1>2 DEF EnrolmentInv

\* The clock touches dates only.
LEMMA TickKeeps ==
  ASSUME EnrolmentInv, TypeOK', Tick
  PROVE  EnrolmentInv' /\ Moves
<1>1. SameEnrolment
  BY DEF Tick, SameEnrolment, EnrolmentInv, TypeOK, Rows
<1>2. Forward /\ Moves /\ RowInv'
  BY <1>1, SameKeeps DEF EnrolmentInv
<1>3. SessionNeedsEnrolment'
  BY <1>1 DEF Tick, SessionNeedsEnrolment, SameEnrolment, EnrolmentInv, TypeOK, Ticks, Less
<1>4. ASSUME NEW q \in Requests
      PROVE  HeldInv(q)'
  <2>1. slots[q] \in SlotType /\ slots[q].row \in Rows
    BY HeldTypes DEF EnrolmentInv, TypeOK
  <2>2. slots'[q] = [slots[q] EXCEPT !.row.lock = Less(@)]
    BY DEF Tick
  <2>3. /\ slots'[q].row.enrolled = slots[q].row.enrolled
        /\ slots'[q].row.secret = slots[q].row.secret
        /\ slots'[q].row.codes = slots[q].row.codes
        /\ slots'[q].pc = slots[q].pc /\ slots'[q].op = slots[q].op
    BY <2>1, <2>2 DEF SlotType, Rows
  <2> QED
    BY <1>1, <2>3 DEF EnrolmentInv, HeldInv, SameEnrolment, Working, Answerable, OneBatch
<1> QED BY <1>2, <1>3, <1>4 DEF EnrolmentInv

\* The invariant is inductive: one case per action.
LEMMA EnrolmentStep ==
  ASSUME EnrolmentInv, [Next]_vars
  PROVE  EnrolmentInv' /\ Moves
<1> USE DEF EnrolmentInv
<1>t. TypeOK'
  BY TypeStep
<1>1. ASSUME NEW r \in Requests,
             LoginReceive(r) \/ EnrollReceive(r) \/ ConfirmReceive(r) \/ VerifyReceive(r)
      PROVE  EnrolmentInv' /\ Moves
  <2> HIDE DEF EnrolmentInv
  <2>1. CASE LoginReceive(r)
    BY <2>1, <1>t, ReceiveKeeps DEF LoginReceive
  <2>2. CASE EnrollReceive(r)
    BY <2>2, <1>t, ReceiveKeeps DEF EnrollReceive
  <2>3. CASE ConfirmReceive(r)
    <3>1. PICK cookie, code : Receive(r, "confirm", code, ConfirmRefusal(cookie))
      BY <2>3 DEF ConfirmReceive
    <3> QED BY <3>1, <1>t, LetThrough, ReceiveKeeps
  <2>4. CASE VerifyReceive(r)
    <3>1. PICK cookie, code : Receive(r, "verify", code, VerifyRefusal(cookie))
      BY <2>4 DEF VerifyReceive
    <3> QED BY <3>1, <1>t, LetThrough, ReceiveKeeps
  <2> QED BY <1>1, <2>1, <2>2, <2>3, <2>4
<1>2. ASSUME NEW r \in Requests, LoginFail(r) \/ ConfirmFail(r) \/ VerifyFail(r)
      PROVE  EnrolmentInv' /\ Moves
  BY <1>2, <1>t, FailureKeeps DEF LoginFail, ConfirmFail, VerifyFail
<1>3. ASSUME NEW r \in Requests,
             LoginAccept(r) \/ LoginInactive(r) \/ EnrollAnswer(r) \/ CommitFails(r)
      PROVE  EnrolmentInv' /\ Moves
  <2>1. SameEnrolment /\ exp'.session = exp.session
    BY <1>3 DEF LoginAccept, LoginInactive, EnrollAnswer, CommitFails, SameEnrolment, TypeOK
  <2>2. \A q \in Requests : slots'[q] = slots[q] \/ \E status : slots'[q] = Idle(status)
    BY <1>3, Slots DEF LoginAccept, LoginInactive, EnrollAnswer, CommitFails
  <2>3. SessionNeedsEnrolment'
    BY <2>1 DEF SessionNeedsEnrolment, SameEnrolment
  <2> QED BY <1>t, <2>1, <2>2, <2>3, QuietKeeps
<1>4. ASSUME NEW r \in Requests, EnrollCommit(r)
      PROVE  EnrolmentInv' /\ Moves
  BY <1>4, <1>t, EnrollKeeps
<1>5. ASSUME NEW r \in Requests, ConfirmCommit(r)
      PROVE  EnrolmentInv' /\ Moves
  BY <1>5, <1>t, ConfirmKeeps
<1>6. ASSUME NEW r \in Requests, VerifyTotp(r) \/ VerifyRecovery(r)
      PROVE  EnrolmentInv' /\ Moves
  BY <1>6, <1>t, VerifyKeeps
<1>7. ASSUME NEW r \in Requests, ConfirmAnswer(r) \/ VerifyAnswer(r)
      PROVE  EnrolmentInv' /\ Moves
  <2>1. SameEnrolment
    BY <1>7 DEF ConfirmAnswer, VerifyAnswer, SameEnrolment
  <2>2. row.enrolled
    BY <1>7 DEF HeldInv, ConfirmAnswer, VerifyAnswer
  <2>3. \A q \in Requests : slots'[q] = slots[q] \/ \E status : slots'[q] = Idle(status)
    BY <1>7, Slots DEF ConfirmAnswer, VerifyAnswer
  <2>4. SessionNeedsEnrolment'
    BY <2>1, <2>2 DEF SessionNeedsEnrolment, SameEnrolment
  <2> QED BY <1>t, <2>1, <2>3, <2>4, QuietKeeps
<1>8. CASE OperatorSetsActive
  <2>1. SameEnrolment /\ exp' = exp /\ slots' = slots
    BY <1>8 DEF OperatorSetsActive, SameEnrolment, TypeOK, Rows
  <2> QED BY <1>t, <2>1, QuietKeeps DEF SessionNeedsEnrolment, SameEnrolment
<1>9. CASE Tick
  BY <1>9, <1>t, TickKeeps
<1>10. CASE Restart
  <2>1. SameEnrolment /\ (exp' = exp \/ exp'.session = 0)
    BY <1>10 DEF Restart, SameEnrolment
  <2>2. \A q \in Requests : slots'[q] = Idle("none")
    BY <1>10 DEF Restart
  <2>3. SessionNeedsEnrolment'
    BY <2>1 DEF SessionNeedsEnrolment, SameEnrolment
  <2> QED BY <1>t, <2>1, <2>2, <2>3, QuietKeeps
<1>11. CASE UNCHANGED vars
  <2>1. SameEnrolment /\ exp' = exp /\ slots' = slots
    BY <1>11 DEF vars, SameEnrolment
  <2> QED BY <1>t, <2>1, QuietKeeps DEF SessionNeedsEnrolment, SameEnrolment
<1> QED
  BY <1>1, <1>2, <1>3, <1>4, <1>5, <1>6, <1>7, <1>8, <1>9, <1>10, <1>11 DEF Next, Handle

\* A new account satisfies the invariant.
LEMMA EnrolmentInit == Init => EnrolmentInv
<1> SUFFICES ASSUME Init PROVE EnrolmentInv
  OBVIOUS
<1>1. \A r \in Requests : HeldInv(r)
  BY DEF Init, HeldInv, Idle, NewRow, Working, Answerable
<1> QED
  BY <1>1, TypeInit DEF Init, EnrolmentInv, RowInv, NewRow, SessionNeedsEnrolment

\* The invariant holds in every reachable state.
LEMMA EnrolmentAlways == Spec => []EnrolmentInv
<1>1. EnrolmentInv /\ [Next]_vars => EnrolmentInv'
  BY EnrolmentStep
<1> QED BY <1>1, EnrolmentInit, PTL DEF Spec

\* A session token that has not expired belongs to an enrolled account, for any
\* number of requests that overlap, restarts and failed commits.
THEOREM SessionsAreEnrolled == Spec => []SessionNeedsEnrolment
<1>1. EnrolmentInv => SessionNeedsEnrolment
  BY DEF EnrolmentInv
<1> QED BY <1>1, EnrolmentAlways, PTL

\* An enrolled account always has a secret, and recovery codes of one batch.
THEOREM EnrolledStaysUsable == Spec => []EnrolledIsUsable
<1>1. EnrolmentInv => EnrolledIsUsable
  BY DEF EnrolmentInv, RowInv, EnrolledIsUsable, OneBatch
<1> QED BY <1>1, EnrolmentAlways, PTL

\* No interleaving of stale writes takes an enrolment back.
THEOREM EnrolmentNeverUndone == Spec => EnrolmentIsFinal
<1>1. EnrolmentInv /\ [Next]_vars => [row.enrolled => row'.enrolled]_vars
  BY EnrolmentStep DEF Moves, Forward
<1> QED BY <1>1, EnrolmentAlways, PTL DEF Spec, EnrolmentIsFinal

-----------------------------------------------------------------------------
(* The refinement of AuthLifecycle. *)

\* Every step of the handlers is a step of AuthLifecycle or a stutter.
LEMMA LifecycleStep ==
  ASSUME EnrolmentInv, EnrolmentInv', Moves
  PROVE  [Lifecycle!Next]_(Lifecycle!vars)
<1> DEFINE open == exp.session > 0
<1>1. CASE SameEnrolment
  <2>1. Phase' = Phase
    BY <1>1 DEF Phase, SameEnrolment
  <2>2. open' => Phase = "enrolled"
    BY <1>1 DEF EnrolmentInv, SessionNeedsEnrolment, SameEnrolment, Phase
  <2>3. CASE open'
    BY <2>1, <2>2, <2>3 DEF Lifecycle!Next, Lifecycle!Open
  <2>4. CASE ~open'
    BY <2>1, <2>4 DEF Lifecycle!Next, Lifecycle!Close
  <2> QED BY <2>3, <2>4
<1>2. CASE exp'.session = exp.session
  <2>1. open' = open
    BY <1>2
  <2>2. CASE row.enrolled
    <3>1. Phase' = Phase
      BY <2>2 DEF Moves, Forward, Phase
    <3> QED BY <2>1, <3>1 DEF Lifecycle!vars
  <2>3. CASE ~row.enrolled /\ row'.enrolled
    <3>1. Phase = "pending" /\ Phase' = "enrolled"
      BY <2>3 DEF Moves, Phase
    <3> QED BY <2>1, <3>1 DEF Lifecycle!Next, Lifecycle!Confirm
  <2>4. CASE ~row.enrolled /\ ~row'.enrolled
    <3>1. Phase' = Phase \/ (Phase = "new" /\ Phase' = "pending")
      BY <2>4 DEF Moves, Forward, Phase
    <3> QED BY <2>1, <3>1 DEF Lifecycle!Next, Lifecycle!Enroll, Lifecycle!vars
  <2> QED BY <2>2, <2>3, <2>4
<1> QED BY <1>1, <1>2 DEF Moves

\* Requests that overlap implement the lifecycle: new, pending, enrolled, in
\* this order and for good, with sessions in the last stage only.
THEOREM RefinesLifecycle == Spec => ImplementsLifecycle
<1>1. Init => Lifecycle!Init
  BY DEF Init, Lifecycle!Init, Phase, NewRow
<1>2. EnrolmentInv /\ EnrolmentInv' /\ [Next]_vars => [Lifecycle!Next]_(Lifecycle!vars)
  BY EnrolmentStep, LifecycleStep
<1> QED BY <1>1, <1>2, EnrolmentAlways, PTL DEF Spec, Lifecycle!Spec, ImplementsLifecycle

-----------------------------------------------------------------------------
(* The recovery codes reach their owner, whatever requests do to each other. *)
(* A request may write codes it read long ago, so what must be carried along *)
(* is that the codes of every row held were given, too; and what was given   *)
(* stays so until the process is restarted.                                  *)

\* The codes in the answers given and about to be.
Given ==
  shown.codes
    \cup UNION {Batch(slots[r].issued) : r \in {q \in Requests : Answerable(q, "confirm")}}

CodesInv ==
  /\ TypeOK
  /\ restarts = 0 => /\ row.codes \subseteq Given
                     /\ \A r \in Requests : slots[r].row.codes \subseteq Given

\* A code was given if it was shown, or is in an answer.
LEMMA GivenMembers ==
  \A c : c \in Given <=> \/ c \in shown.codes
                         \/ \E r \in Requests : /\ Answerable(r, "confirm")
                                                /\ c \in Batch(slots[r].issued)
BY DEF Given

\* What was given stays given if no answer is taken back.
LEMMA GivenGrows ==
  ASSUME shown.codes \subseteq shown'.codes,
         \A q \in Requests :
           Answerable(q, "confirm") =>
             \/ Answerable(q, "confirm")' /\ slots'[q].issued = slots[q].issued
             \/ Batch(slots[q].issued) \subseteq shown'.codes
  PROVE  Given \subseteq Given'
<1> SUFFICES ASSUME NEW c \in Given
             PROVE  c \in Given'
  OBVIOUS
<1>1. CASE c \in shown.codes
  BY <1>1 DEF Given
<1>2. CASE \E r \in Requests : Answerable(r, "confirm") /\ c \in Batch(slots[r].issued)
  <2>1. PICK r \in Requests : Answerable(r, "confirm") /\ c \in Batch(slots[r].issued)
    BY <1>2
  <2> QED BY <2>1 DEF Given
<1> QED BY <1>1, <1>2, GivenMembers

\* The request of one thread moves: what it does to the codes.
LEMMA CodesOneThread ==
  ASSUME CodesInv, TypeOK', restarts' = restarts, NEW r \in Requests,
         shown.codes \subseteq shown'.codes,
         Answerable(r, "confirm") => Batch(slots[r].issued) \subseteq shown'.codes,
         \A q \in Requests \ {r} : slots'[q] = slots[q],
         restarts = 0 => row'.codes \subseteq row.codes \cup slots[r].row.codes \cup Given',
         slots'[r].row.codes \subseteq row.codes
  PROVE  CodesInv'
<1>1. Given \subseteq Given'
  BY GivenGrows DEF Answerable
<1> QED BY <1>1 DEF CodesInv

\* The codes a handler leaves in the base, when it does not generate any.
LEMMA NoNewCodes ==
  ASSUME TypeOK, NEW r \in Requests
  PROVE  /\ FailedAttempt(r) => row'.codes = row.codes
         /\ VerifyTotp(r) => row'.codes = row.codes
         /\ EnrollCommit(r) => row'.codes = row.codes
         /\ VerifyRecovery(r) => row'.codes \subseteq row.codes \cup slots[r].row.codes
<1> DEFINE old == slots[r].row
<1>1. old \in Rows /\ AfterSession(old) \in Rows
  BY HeldTypes, CounterTypes
<1>2. AfterFailure(old).codes = old.codes /\ AfterSession(old).codes = old.codes
  BY <1>1, CountersOnly
<1>3. FailedAttempt(r) => row'.codes = row.codes
  BY <1>2, Columns DEF FailedAttempt
<1>4. VerifyTotp(r) => row'.codes = row.codes
  BY <1>2, Columns DEF VerifyTotp
<1>5. ASSUME EnrollCommit(r)
      PROVE  row'.codes = row.codes
  <2> DEFINE new == [old EXCEPT !.secret = [key |-> env.key, plain |-> gen.secrets + 1]]
  <2>1. row' = Write(old, new)
    BY <1>5 DEF EnrollCommit
  <2>2. new.codes = old.codes
    BY <1>1 DEF Rows
  <2> HIDE DEF new
  <2> QED BY <2>1, <2>2, Columns
<1>6. ASSUME VerifyRecovery(r)
      PROVE  row'.codes \subseteq row.codes \cup old.codes
  <2> DEFINE new == [AfterSession(old) EXCEPT !.codes = @ \ {slots[r].code}]
  <2>1. row' = Write(old, new)
    BY <1>6 DEF VerifyRecovery
  <2>2. new.codes \subseteq old.codes
    BY <1>1, <1>2 DEF Rows
  <2> HIDE DEF new
  <2> QED BY <2>1, <2>2, Columns
<1> QED BY <1>3, <1>4, <1>5, <1>6

\* A thread without a request, and one that answers, hold no codes.
LEMMA IdleCodes ==
  NewRow.codes = {} /\ \A status : Idle(status).row.codes = {}
BY DEF Idle, NewRow

\* A request that is received holds the row of the base.
LEMMA ReceiveCodes ==
  ASSUME CodesInv, TypeOK', NEW r \in Requests, NEW op, NEW code, NEW refusal,
         Receive(r, op, code, refusal)
  PROVE  CodesInv'
<1>1. /\ slots[r].pc = "idle"
      /\ shown' = shown /\ restarts' = restarts /\ row' = row
  BY DEF Receive
<1>2. slots'[r].row.codes \subseteq row.codes /\ \A q \in Requests \ {r} : slots'[q] = slots[q]
  <2>1. CASE Reply(r, refusal)
    BY <2>1, Slots, IdleCodes DEF CodesInv
  <2>2. CASE slots' = [slots EXCEPT ![r] = [pc |-> "work", op |-> op, code |-> code,
                                            row |-> row, issued |-> 0, status |-> "none"]]
    BY <2>2 DEF CodesInv, TypeOK
  <2> QED BY <2>1, <2>2 DEF Receive
<1>3. ~Answerable(r, "confirm")
  BY <1>1 DEF Answerable
<1> QED BY <1>1, <1>2, <1>3, CodesOneThread

\* A request that ends, or commits, holds no row any more.
LEMMA EndCodes ==
  ASSUME CodesInv, TypeOK', NEW r \in Requests, restarts' = restarts,
         shown.codes \subseteq shown'.codes,
         Answerable(r, "confirm") => Batch(slots[r].issued) \subseteq shown'.codes,
         row'.codes \subseteq row.codes \cup slots[r].row.codes,
         NEW status, NEW n, Reply(r, status) \/ Answering(r, n)
  PROVE  CodesInv'
<1>1. slots'[r].row.codes = {} /\ \A q \in Requests \ {r} : slots'[q] = slots[q]
  BY Slots, IdleCodes DEF CodesInv
<1> QED BY <1>1, CodesOneThread

\* The commit of confirm gives the batch it writes to its own answer.
LEMMA ConfirmCodes ==
  ASSUME CodesInv, TypeOK', NEW r \in Requests, ConfirmCommit(r)
  PROVE  CodesInv'
<1> DEFINE old == slots[r].row
           b   == gen.batches + 1
           new == [AfterSession(old) EXCEPT !.codes = Batch(b), !.enrolled = TRUE]
           a   == [Idle("none") EXCEPT !.pc = "answer", !.op = slots[r].op, !.issued = b]
<1>1. old \in Rows /\ AfterSession(old) \in Rows
  BY HeldTypes, CounterTypes DEF CodesInv
<1>2. new.codes = Batch(b)
  BY <1>1 DEF Rows
<1>3. row' = Write(old, new) /\ shown' = shown /\ restarts' = restarts
  BY DEF ConfirmCommit
<1>4. /\ slots'[r] = a
      /\ \A q \in Requests \ {r} : slots'[q] = slots[q]
  BY DEF ConfirmCommit, Answering, CodesInv, TypeOK
<1>5. slots[r].op = "confirm" /\ slots[r].pc = "work"
  BY DEF ConfirmCommit, Working
<1>6. a.row.codes = {} /\ a.pc = "answer" /\ a.op = "confirm" /\ a.issued = b
  BY <1>5 DEF Idle, NewRow
<1> HIDE DEF new, a
<1>7. row'.codes \subseteq row.codes \cup Batch(b)
  BY <1>2, <1>3, Columns
<1>8. Batch(b) \subseteq Given'
  <2>1. Answerable(r, "confirm")' /\ slots'[r].issued = b
    BY <1>4, <1>6 DEF Answerable
  <2> HIDE DEF b
  <2> QED BY <2>1 DEF Given
<1>9. ~Answerable(r, "confirm")
  BY <1>5 DEF Answerable
<1> QED BY <1>3, <1>4, <1>6, <1>7, <1>8, <1>9, CodesOneThread

\* The invariant is inductive: one case per action.
LEMMA CodesStep ==
  ASSUME CodesInv, [Next]_vars
  PROVE  CodesInv'
<1>t. TypeOK /\ TypeOK'
  BY TypeStep DEF CodesInv
<1>1. ASSUME NEW r \in Requests,
             LoginReceive(r) \/ EnrollReceive(r) \/ ConfirmReceive(r) \/ VerifyReceive(r)
      PROVE  CodesInv'
  BY <1>1, <1>t, ReceiveCodes
     DEF LoginReceive, EnrollReceive, ConfirmReceive, VerifyReceive
<1>2. ASSUME NEW r \in Requests, LoginFail(r) \/ ConfirmFail(r) \/ VerifyFail(r)
      PROVE  CodesInv'
  <2>1. FailedAttempt(r) /\ slots[r].pc = "work"
    BY <1>2 DEF LoginFail, ConfirmFail, VerifyFail, Working
  <2>2. row'.codes = row.codes /\ shown' = shown /\ restarts' = restarts /\ Reply(r, "refused")
    BY <1>t, <2>1, NoNewCodes DEF FailedAttempt
  <2> QED BY <1>t, <2>1, <2>2, EndCodes DEF Answerable
<1>3. ASSUME NEW r \in Requests, LoginAccept(r) \/ LoginInactive(r) \/ CommitFails(r)
      PROVE  CodesInv'
  <2>1. /\ slots[r].pc = "work" /\ \E status : Reply(r, status)
        /\ row' = row /\ shown' = shown /\ restarts' = restarts
    BY <1>3 DEF LoginAccept, LoginInactive, CommitFails, Working
  <2> QED BY <1>t, <2>1, EndCodes DEF Answerable
<1>4. ASSUME NEW r \in Requests, EnrollCommit(r) \/ VerifyTotp(r) \/ VerifyRecovery(r)
      PROVE  CodesInv'
  <2>1. /\ slots[r].pc = "work" /\ \E n : Answering(r, n)
        /\ shown' = shown /\ restarts' = restarts
    BY <1>4 DEF EnrollCommit, VerifyTotp, VerifyRecovery, Working
  <2>2. row'.codes \subseteq row.codes \cup slots[r].row.codes
    BY <1>4, <1>t, NoNewCodes
  <2> QED BY <1>t, <2>1, <2>2, EndCodes DEF Answerable
<1>5. ASSUME NEW r \in Requests, ConfirmCommit(r)
      PROVE  CodesInv'
  BY <1>5, <1>t, ConfirmCodes
<1>6. ASSUME NEW r \in Requests, EnrollAnswer(r) \/ ConfirmAnswer(r) \/ VerifyAnswer(r)
      PROVE  CodesInv'
  <2>1. Reply(r, "ok") /\ row' = row /\ restarts' = restarts
    BY <1>6 DEF EnrollAnswer, ConfirmAnswer, VerifyAnswer
  <2>2. /\ shown.codes \subseteq shown'.codes
        /\ Answerable(r, "confirm") => Batch(slots[r].issued) \subseteq shown'.codes
    BY <1>6, <1>t DEF EnrollAnswer, ConfirmAnswer, VerifyAnswer, Answerable, TypeOK
  <2> QED BY <1>t, <2>1, <2>2, EndCodes
<1>7. CASE OperatorSetsActive \/ UNCHANGED vars
  <2>1. row'.codes = row.codes /\ UNCHANGED <<slots, shown, restarts>>
    BY <1>7, <1>t DEF OperatorSetsActive, vars, TypeOK, Rows
  <2>2. Given' = Given
    BY <2>1 DEF Given, Answerable
  <2> QED BY <1>t, <2>1, <2>2 DEF CodesInv
<1>8. CASE Tick
  <2>1. ASSUME NEW q \in Requests
        PROVE  /\ slots'[q].row.codes = slots[q].row.codes
               /\ slots'[q].pc = slots[q].pc /\ slots'[q].op = slots[q].op
               /\ slots'[q].issued = slots[q].issued
    <3>1. slots[q] \in SlotType /\ slots[q].row \in Rows
      BY <1>t, HeldTypes DEF TypeOK
    <3>2. slots'[q] = [slots[q] EXCEPT !.row.lock = Less(@)]
      BY <1>8 DEF Tick
    <3> QED BY <3>1, <3>2 DEF SlotType, Rows
  <2>2. row'.codes = row.codes /\ UNCHANGED <<shown, restarts>>
    BY <1>8, <1>t DEF Tick, TypeOK, Rows
  <2>3. Given \subseteq Given'
    BY <2>1, <2>2, GivenGrows DEF Answerable
  <2> QED BY <1>t, <2>1, <2>2, <2>3 DEF CodesInv
<1>9. CASE Restart
  <2>1. restarts' # 0
    BY <1>9, <1>t DEF Restart, TypeOK
  <2> QED BY <1>t, <2>1 DEF CodesInv
<1> QED
  BY <1>1, <1>2, <1>3, <1>4, <1>5, <1>6, <1>7, <1>8, <1>9 DEF Next, Handle

\* However confirms race and stale rows land, the codes in the base are codes the
\* owner was given, or is about to be, unless the process was restarted.
THEOREM CodesAlwaysReach == Spec => []CodesReachOwner
<1>1. Init => CodesInv
  <2> SUFFICES ASSUME Init PROVE CodesInv
    OBVIOUS
  <2>1. TypeOK
    BY TypeInit
  <2> QED BY <2>1 DEF Init, CodesInv, Idle, NewRow
<1>2. CodesInv /\ [Next]_vars => CodesInv'
  BY CodesStep
<1>3. CodesInv => CodesReachOwner
  BY DEF CodesInv, CodesReachOwner, Given
<1> QED BY <1>1, <1>2, <1>3, PTL DEF Spec

-----------------------------------------------------------------------------
(* Requests that do not overlap.  What false interleavings break is carried  *)
(* by one fact, Fresh: the row a request holds while it works is still that  *)
(* of the base, but for is_active.  With it the counters say how many        *)
(* failures were answered, and every commit is one step of AuthSerial.       *)

OneAtATime == \A p, q \in Requests : p = q

Fresh(r) ==
  /\ slots[r].row.secret = row.secret /\ slots[r].row.enrolled = row.enrolled
  /\ slots[r].row.codes = row.codes
  /\ slots[r].row.failed = row.failed /\ slots[r].row.lock = row.lock

\* What was looked at when the request was let through has not changed.
LetInInv(r) ==
  slots[r].pc = "work" =>
    /\ Fresh(r)
    /\ slots[r].op \in {"login", "confirm", "verify"} => ~IsLocked(row)
    /\ slots[r].op \in {"enroll", "confirm"} => ~row.enrolled

\* The failures that stand: none any more once the lock has lapsed.
Failures == IF row.lock = 0 THEN 0 ELSE row.failed

CountInv ==
  /\ history.guesses = Failures
  /\ row.lock = NoLock => row.failed < MaxAttempts
  /\ IsLocked(row) => row.failed = MaxAttempts

SecretInv ==
  /\ row.secret # NoSecret => row.secret.plain > 0
  /\ row.secret.plain <= gen.secrets
  /\ row.enrolled => row.secret.plain \in history.proven

UsedInv ==
  /\ history.used \cap row.codes = {}
  /\ ~row.enrolled => history.used = {}

SerialInv ==
  /\ EnrolmentInv
  /\ \A r \in Requests : LetInInv(r)
  /\ CountInv /\ SecretInv /\ UsedInv

\* Sessions that were committed and whose answer has not left.
Owed == \E r \in Requests : slots[r].pc = "answer" /\ slots[r].op \in {"confirm", "verify"}

\* The columns of a commit that nobody overtook are those the handler leaves.
LEMMA FreshWrite ==
  ASSUME NEW r \in Requests, Fresh(r), NEW new, row' = Write(slots[r].row, new)
  PROVE  /\ row'.secret = new.secret /\ row'.enrolled = new.enrolled /\ row'.codes = new.codes
         /\ row'.failed = new.failed /\ row'.lock = new.lock
BY DEF Fresh, Write

\* register_failure on a row that is not locked: one more failure stands, and the
\* last one allowed locks.
LEMMA FailureCounts ==
  ASSUME NEW s \in Rows, ~IsLocked(s), s.lock = NoLock => s.failed < MaxAttempts
  PROVE  LET new    == AfterFailure(s)
             before == IF s.lock = 0 THEN 0 ELSE s.failed
         IN /\ before \in Nat /\ before < MaxAttempts
            /\ new.failed = before + 1
            /\ new.lock = IF before + 1 = MaxAttempts THEN LockMinutes ELSE NoLock
<1>1. s.lock \in {NoLock, 0} /\ s.failed \in Nat
  BY LimitsAssumption DEF Rows, Ticks, IsLocked
<1> DEFINE lapsed == s.lock # NoLock /\ ~IsLocked(s)
           count  == IF lapsed THEN 1 ELSE s.failed + 1
           lock   == IF count >= MaxAttempts THEN LockMinutes
                     ELSE IF lapsed THEN NoLock ELSE s.lock
<1>2. AfterFailure(s).failed = count /\ AfterFailure(s).lock = lock
  BY DEF AfterFailure, Rows
<1>3. CASE s.lock = 0
  BY <1>1, <1>2, <1>3, LimitsAssumption DEF IsLocked
<1>4. CASE s.lock = NoLock
  BY <1>1, <1>2, <1>4, LimitsAssumption DEF IsLocked
<1> QED BY <1>1, <1>3, <1>4

\* What is left to show of a step after which the only thread does not work.
LEMMA SerialRest ==
  ASSUME OneAtATime, SerialInv, EnrolmentInv', NEW r \in Requests, slots'[r].pc # "work",
         CountInv', SecretInv', UsedInv'
  PROVE  SerialInv'
<1>1. \A q \in Requests : LetInInv(q)'
  BY DEF OneAtATime, LetInInv
<1> QED BY <1>1 DEF SerialInv

\* With one thread, what is owed is what it is to answer.
LEMMA OwedIs ==
  ASSUME OneAtATime, NEW r \in Requests
  PROVE  /\ Owed <=> slots[r].pc = "answer" /\ slots[r].op \in {"confirm", "verify"}
         /\ Owed' <=> slots'[r].pc = "answer" /\ slots'[r].op \in {"confirm", "verify"}
BY DEF OneAtATime, Owed

\* The bounds of the counters of a state that satisfies the invariant.
LEMMA CountTypes ==
  ASSUME TypeOK, CountInv
  PROVE  /\ Failures \in Nat /\ row.failed \in Nat /\ history.guesses \in Nat
         /\ row.lock \in {NoLock} \cup Ticks(LockMinutes)
         /\ IsLocked(row) <=> Failures >= MaxAttempts
<1>1. row.failed \in Nat /\ row.lock \in {NoLock} \cup Ticks(LockMinutes)
  BY DEF TypeOK, Rows
<1> QED BY <1>1, LimitsAssumption DEF CountInv, Failures, IsLocked, Ticks, TypeOK

\* What a request that is let through was checked for.
LEMMA LetIn ==
  ASSUME NEW cookie
  PROVE  /\ LoginRefusal = "none" => ~IsLocked(row)
         /\ EnrollRefusal(cookie) = "none" => ~row.enrolled
         /\ ConfirmRefusal(cookie) = "none" => ~IsLocked(row) /\ ~row.enrolled
         /\ VerifyRefusal(cookie) = "none" => ~IsLocked(row)
BY DEF LoginRefusal, EnrollRefusal, ConfirmRefusal, VerifyRefusal

\* Receiving a request changes nothing of the account.
LEMMA ReceiveSerial ==
  ASSUME OneAtATime, SerialInv, EnrolmentInv', NEW r \in Requests, NEW op, NEW code,
         NEW refusal, Receive(r, op, code, refusal),
         refusal = "none" /\ op \in {"login", "confirm", "verify"} => ~IsLocked(row),
         refusal = "none" /\ op \in {"enroll", "confirm"} => ~row.enrolled
  PROVE  SerialInv' /\ UNCHANGED Serial!vars
<1>1. UNCHANGED <<row, exp, gen, history>> /\ slots[r].pc = "idle"
  BY DEF Receive
<1>2. \/ slots'[r].pc = "idle"
      \/ /\ refusal = "none" /\ slots'[r].pc = "work" /\ slots'[r].op = op /\ slots'[r].row = row
  <2>1. CASE Reply(r, refusal)
    BY <2>1, Slots DEF Idle, Reply, SerialInv, EnrolmentInv, TypeOK
  <2>2. CASE refusal = "none" /\ slots' = [slots EXCEPT ![r] =
                [pc |-> "work", op |-> op, code |-> code, row |-> row, issued |-> 0,
                 status |-> "none"]]
    BY <2>2 DEF SerialInv, EnrolmentInv, TypeOK
  <2> QED BY <2>1, <2>2 DEF Receive
<1>3. LetInInv(r)'
  BY <1>1, <1>2 DEF LetInInv, Fresh, IsLocked
<1>4. \A q \in Requests : LetInInv(q)'
  BY <1>3 DEF OneAtATime
<1>5. CountInv' /\ SecretInv' /\ UsedInv'
  BY <1>1 DEF SerialInv, CountInv, SecretInv, UsedInv, Failures, IsLocked
<1>6. ~Owed /\ ~Owed'
  BY <1>1, <1>2, OwedIs
<1> QED BY <1>1, <1>4, <1>5, <1>6 DEF SerialInv, Serial!vars, Owed, IsLocked

\* A wrong password or code is one more failure.
LEMMA FailureSerial ==
  ASSUME OneAtATime, SerialInv, EnrolmentInv', NEW r \in Requests, FailedAttempt(r),
         slots[r].pc = "work", slots[r].op \in {"login", "confirm", "verify"}
  PROVE  SerialInv' /\ Serial!Fail
<1> DEFINE old == slots[r].row
           new == AfterFailure(old)
<1>1. /\ row' = Write(old, new) /\ Reply(r, "refused") /\ UNCHANGED <<exp, gen>>
      /\ history' = [history EXCEPT !.guesses = IF @ > MaxAttempts THEN @ ELSE @ + 1]
  BY DEF FailedAttempt
<1>2. TypeOK /\ old \in Rows /\ Fresh(r) /\ ~IsLocked(row)
  BY HeldTypes DEF SerialInv, EnrolmentInv, LetInInv
<1>3. /\ new.secret = row.secret /\ new.enrolled = row.enrolled /\ new.codes = row.codes
  BY <1>2, CountersOnly DEF Fresh
<1>4. /\ Failures \in Nat /\ Failures < MaxAttempts
      /\ new.failed = Failures + 1
      /\ new.lock = IF Failures + 1 = MaxAttempts THEN LockMinutes ELSE NoLock
  <2>1. ~IsLocked(old) /\ (old.lock = NoLock => old.failed < MaxAttempts)
    BY <1>2 DEF Fresh, IsLocked, SerialInv, CountInv
  <2>2. Failures = IF old.lock = 0 THEN 0 ELSE old.failed
    BY <1>2 DEF Fresh, Failures
  <2> QED BY <1>2, <2>1, <2>2, FailureCounts
<1> HIDE DEF new
<1>5. /\ row'.secret = row.secret /\ row'.enrolled = row.enrolled /\ row'.codes = row.codes
      /\ row'.failed = Failures + 1
      /\ row'.lock = IF Failures + 1 = MaxAttempts THEN LockMinutes ELSE NoLock
  BY <1>1, <1>2, <1>3, <1>4, FreshWrite
<1>6. /\ history'.guesses = Failures + 1
      /\ history'.proven = history.proven /\ history'.used = history.used
  BY <1>1, <1>2, <1>4, LimitsAssumption DEF SerialInv, CountInv, TypeOK
<1>7. Failures' = Failures + 1
  BY <1>4, <1>5, LimitsAssumption DEF Failures
<1>8. (IF IsLocked(row) THEN row.lock ELSE 0)'
        = IF Failures + 1 = MaxAttempts THEN LockMinutes ELSE 0
  BY <1>5, LimitsAssumption DEF IsLocked
<1>9. slots'[r].pc = "idle" /\ ~Owed /\ ~Owed'
  BY <1>1, <1>2, OwedIs DEF Reply, Idle, TypeOK
<1>10. CountInv' /\ SecretInv' /\ UsedInv'
  <2>1. CountInv'
    BY <1>4, <1>5, <1>6, <1>7, LimitsAssumption DEF CountInv, IsLocked
  <2>2. SecretInv' /\ UsedInv'
    BY <1>1, <1>5, <1>6 DEF SerialInv, SecretInv, UsedInv
  <2> QED BY <2>1, <2>2
<1>11. SerialInv'
  BY <1>9, <1>10, SerialRest
<1>12. Serial!Fail
  BY <1>1, <1>4, <1>5, <1>7, <1>8, <1>9
     DEF Serial!Fail, Serial!Open, Failures, Owed
<1> QED BY <1>11, <1>12

\* A session that is committed clears the counters, and is owed.
LEMMA SessionCounts ==
  ASSUME OneAtATime, SerialInv, NEW r \in Requests, slots[r].pc = "work",
         slots[r].op \in {"confirm", "verify"}, NEW n, Answering(r, n),
         row'.failed = 0, row'.lock = NoLock, history'.guesses = 0
  PROVE  /\ CountInv' /\ Failures' = 0 /\ Failures < MaxAttempts
         /\ slots'[r].pc = "answer" /\ ~Owed /\ Owed'
         /\ (IF IsLocked(row) THEN row.lock ELSE 0)' = (IF IsLocked(row) THEN row.lock ELSE 0)
<1>1. TypeOK /\ CountInv /\ ~IsLocked(row)
  BY DEF SerialInv, EnrolmentInv, LetInInv
<1>2. Failures < MaxAttempts
  BY <1>1, CountTypes, LimitsAssumption
<1>3. CountInv' /\ Failures' = 0
  BY LimitsAssumption DEF CountInv, Failures, IsLocked
<1>4. slots'[r].pc = "answer" /\ slots'[r].op = slots[r].op
  BY <1>1, Slots
<1>5. ~Owed /\ Owed'
  BY <1>4, OwedIs
<1> QED BY <1>1, <1>2, <1>3, <1>4, <1>5 DEF IsLocked

\* register_session_established clears the counters and nothing else.
LEMMA SessionColumns ==
  ASSUME NEW s \in Rows
  PROVE  LET new == AfterSession(s)
         IN /\ new.failed = 0 /\ new.lock = NoLock /\ new \in Rows
            /\ new.secret = s.secret /\ new.enrolled = s.enrolled /\ new.codes = s.codes
BY CounterTypes DEF AfterSession, Rows

\* The commit of enroll gives a later secret to an account that is not enrolled.
LEMMA EnrollSerial ==
  ASSUME OneAtATime, SerialInv, EnrolmentInv', NEW r \in Requests, EnrollCommit(r)
  PROVE  SerialInv' /\ Serial!Enroll
<1> DEFINE old == slots[r].row
           n   == gen.secrets + 1
           new == [old EXCEPT !.secret = [key |-> env.key, plain |-> n]]
<1>1. /\ row' = Write(old, new) /\ gen' = [gen EXCEPT !.secrets = n] /\ Answering(r, n)
      /\ UNCHANGED <<exp, history>> /\ slots[r].pc = "work" /\ slots[r].op = "enroll"
  BY DEF EnrollCommit, Working
<1>2. TypeOK /\ old \in Rows /\ Fresh(r) /\ ~row.enrolled
  BY <1>1, HeldTypes DEF SerialInv, EnrolmentInv, LetInInv
<1>3. n \in Nat /\ n > 0 /\ gen'.secrets = n /\ row.secret.plain < n
  BY <1>1, <1>2 DEF TypeOK, SerialInv, SecretInv, Rows, Secrets
<1>4. /\ new.secret.plain = n /\ new.enrolled = row.enrolled /\ new.codes = row.codes
      /\ new.failed = row.failed /\ new.lock = row.lock
  BY <1>2 DEF Rows, Fresh
<1> HIDE DEF n, new
<1>5. /\ row'.secret.plain = n /\ row'.enrolled = row.enrolled /\ row'.codes = row.codes
      /\ row'.failed = row.failed /\ row'.lock = row.lock
  BY <1>1, <1>2, <1>4, FreshWrite
<1>6. slots'[r].pc = "answer" /\ ~Owed /\ ~Owed'
  BY <1>1, <1>2, Slots, OwedIs
<1>7. CountInv' /\ SecretInv' /\ UsedInv'
  BY <1>1, <1>2, <1>3, <1>5 DEF SerialInv, CountInv, SecretInv, UsedInv, Failures, IsLocked
<1>8. SerialInv'
  BY <1>6, <1>7, SerialRest
<1>9. Serial!Enroll
  BY <1>1, <1>2, <1>3, <1>5, <1>6 DEF Serial!Enroll, Owed, IsLocked
<1> QED BY <1>8, <1>9

\* The commit of confirm enrols the account with a batch of codes nobody has used.
LEMMA ConfirmSerial ==
  ASSUME OneAtATime, SerialInv, EnrolmentInv', NEW r \in Requests, ConfirmCommit(r)
  PROVE  SerialInv' /\ Serial!Confirm
<1> DEFINE old == slots[r].row
           b   == gen.batches + 1
           new == [AfterSession(old) EXCEPT !.codes = Batch(b), !.enrolled = TRUE]
<1>1. /\ row' = Write(old, new) /\ gen' = [gen EXCEPT !.batches = b] /\ Answering(r, b)
      /\ history' = [history EXCEPT !.guesses = 0, !.proven = @ \cup {old.secret.plain}]
      /\ UNCHANGED exp /\ slots[r].pc = "work" /\ slots[r].op = "confirm"
  BY DEF ConfirmCommit, Working
<1>2. TypeOK /\ old \in Rows /\ Fresh(r) /\ ~row.enrolled /\ row.secret # NoSecret
  BY <1>1, HeldTypes DEF SerialInv, EnrolmentInv, LetInInv, HeldInv, Fresh, Working
<1>3. /\ new.secret = row.secret /\ new.enrolled = TRUE /\ new.codes = Batch(b)
      /\ new.failed = 0 /\ new.lock = NoLock
  BY <1>2, SessionColumns DEF Rows, Fresh
<1>4. Batch(b) # {} /\ gen'.secrets = gen.secrets
  <2>1. RecoveryCode(b, 1) \in Batch(b)
    BY LimitsAssumption DEF Batch
  <2> QED BY <1>1, <1>2, <2>1 DEF TypeOK
<1>5. /\ history'.guesses = 0 /\ history'.used = history.used
      /\ history'.proven = history.proven \cup {row.secret.plain}
  BY <1>1, <1>2 DEF TypeOK, Fresh
<1> HIDE DEF b, new
<1>6. /\ row'.secret = row.secret /\ row'.enrolled = TRUE /\ row'.codes = Batch(b)
      /\ row'.failed = 0 /\ row'.lock = NoLock
  BY <1>1, <1>2, <1>3, FreshWrite
<1>7. /\ CountInv' /\ Failures' = 0 /\ Failures < MaxAttempts
      /\ slots'[r].pc = "answer" /\ ~Owed /\ Owed'
      /\ (IF IsLocked(row) THEN row.lock ELSE 0)' = (IF IsLocked(row) THEN row.lock ELSE 0)
  BY <1>1, <1>5, <1>6, SessionCounts
<1>8. SecretInv' /\ UsedInv'
  BY <1>2, <1>4, <1>5, <1>6 DEF SerialInv, SecretInv, UsedInv
<1>9. SerialInv'
  BY <1>7, <1>8, SerialRest
<1>10. row.secret.plain # 0
  BY <1>2 DEF SerialInv, SecretInv
<1>11. Serial!Confirm
  BY <1>1, <1>2, <1>4, <1>6, <1>7, <1>10 DEF Serial!Confirm, Serial!Open, Failures, Owed
<1> QED BY <1>9, <1>11

\* The commit of verify-totp keeps the codes, or spends one that was there.
LEMMA VerifySerial ==
  ASSUME OneAtATime, SerialInv, EnrolmentInv', NEW r \in Requests,
         VerifyTotp(r) \/ VerifyRecovery(r)
  PROVE  SerialInv' /\ Serial!Verify
<1> DEFINE old  == slots[r].row
           code == slots[r].code
<1>1. /\ slots[r].pc = "work" /\ slots[r].op = "verify" /\ Answering(r, 0)
      /\ UNCHANGED <<exp, gen>>
  BY DEF VerifyTotp, VerifyRecovery, Working
<1>2. TypeOK /\ old \in Rows /\ Fresh(r) /\ row.enrolled /\ old.codes = row.codes
  BY <1>1, HeldTypes DEF SerialInv, EnrolmentInv, LetInInv, HeldInv, Fresh, Working
<1> DEFINE Spends(new, spent) ==
          /\ row' = Write(old, new)
          /\ new.secret = old.secret /\ new.enrolled = old.enrolled
          /\ new.failed = 0 /\ new.lock = NoLock
          /\ spent = {} \/ \E c \in old.codes : spent = {c}
          /\ new.codes = old.codes \ spent
          /\ history' = [history EXCEPT !.guesses = 0, !.used = @ \cup spent]
<1>3. \E new, spent : Spends(new, spent)
  <2>1. CASE VerifyTotp(r)
    <3>1. history.used \cup {} = history.used
      OBVIOUS
    <3>2. history' = [history EXCEPT !.guesses = 0, !.used = @ \cup {}]
      BY <1>2, <2>1, <3>1 DEF VerifyTotp, TypeOK
    <3>3. AfterSession(old).codes = old.codes \ {}
      BY <1>2, SessionColumns
    <3>4. Spends(AfterSession(old), {})
      BY <1>2, <2>1, <3>2, <3>3, SessionColumns DEF VerifyTotp
    <3> HIDE DEF Spends
    <3> QED BY <3>4
  <2>2. CASE VerifyRecovery(r)
    <3> DEFINE new == [AfterSession(old) EXCEPT !.codes = @ \ {code}]
    <3>1. /\ new.secret = old.secret /\ new.enrolled = old.enrolled
          /\ new.failed = 0 /\ new.lock = NoLock /\ new.codes = old.codes \ {code}
      BY <1>2, SessionColumns DEF Rows
    <3>2. row' = Write(old, new) /\ code \in old.codes
            /\ history' = [history EXCEPT !.guesses = 0, !.used = @ \cup {code}]
      BY <2>2 DEF VerifyRecovery
    <3> HIDE DEF new
    <3>3. Spends(new, {code})
      BY <3>1, <3>2
    <3> HIDE DEF Spends
    <3> QED BY <3>3
  <2> HIDE DEF Spends
  <2> QED BY <2>1, <2>2
<1> HIDE DEF Spends
<1>4. PICK new, spent : Spends(new, spent)
  BY <1>3
<1> USE DEF Spends
<1>5. /\ history'.guesses = 0 /\ history'.proven = history.proven
      /\ history'.used = history.used \cup spent
  BY <1>2, <1>4 DEF TypeOK
<1>6. /\ row'.secret = row.secret /\ row'.enrolled = row.enrolled
      /\ row'.codes = row.codes \ spent /\ row'.failed = 0 /\ row'.lock = NoLock
  BY <1>2, <1>4, FreshWrite DEF Fresh
<1>7. /\ CountInv' /\ Failures' = 0 /\ Failures < MaxAttempts
      /\ slots'[r].pc = "answer" /\ ~Owed /\ Owed'
      /\ (IF IsLocked(row) THEN row.lock ELSE 0)' = (IF IsLocked(row) THEN row.lock ELSE 0)
  BY <1>1, <1>5, <1>6, SessionCounts
<1>8. SecretInv' /\ UsedInv'
  BY <1>1, <1>2, <1>5, <1>6 DEF SerialInv, SecretInv, UsedInv
<1>9. SerialInv'
  BY <1>7, <1>8, SerialRest
<1>10. row'.codes \in {row.codes} \cup {row.codes \ {c} : c \in row.codes}
  BY <1>2, <1>4, <1>6
<1>11. Serial!Verify
  BY <1>1, <1>2, <1>6, <1>7, <1>10 DEF Serial!Verify, Serial!Open, Failures, Owed
<1> QED BY <1>9, <1>11

\* A request that ends without a commit: the session it owes leaves with its answer.
LEMMA EndSerial ==
  ASSUME OneAtATime, SerialInv, EnrolmentInv', NEW r \in Requests, NEW status,
         Reply(r, status), UNCHANGED <<row, gen, history>>
  PROVE  /\ SerialInv' /\ ~Owed'
         /\ Owed <=> slots[r].pc = "answer" /\ slots[r].op \in {"confirm", "verify"}
<1>1. slots'[r].pc = "idle"
  BY DEF Reply, Idle, SerialInv, EnrolmentInv, TypeOK
<1>2. CountInv' /\ SecretInv' /\ UsedInv'
  BY DEF SerialInv, CountInv, SecretInv, UsedInv, Failures, IsLocked
<1> QED BY <1>1, <1>2, SerialRest, OwedIs

\* The clock: the failures stand until the lock has lapsed.
LEMMA TickSerial ==
  ASSUME SerialInv, EnrolmentInv', Tick
  PROVE  SerialInv' /\ Serial!Tick
<1>1. /\ row' = [row EXCEPT !.lock = Less(@)]
      /\ exp' = [pre_auth |-> Less(exp.pre_auth), session |-> Less(exp.session)]
      /\ history' = [history EXCEPT !.guesses = IF row.lock = 1 THEN 0 ELSE @]
      /\ UNCHANGED gen
  BY DEF Tick
<1>2. TypeOK /\ row \in Rows /\ CountInv
  BY DEF SerialInv, EnrolmentInv, TypeOK
<1>3. /\ row'.secret = row.secret /\ row'.enrolled = row.enrolled /\ row'.codes = row.codes
      /\ row'.failed = row.failed /\ row'.lock = Less(row.lock)
  BY <1>1, <1>2 DEF Rows
<1>4. ASSUME NEW q \in Requests
      PROVE  /\ slots'[q].pc = slots[q].pc /\ slots'[q].op = slots[q].op
             /\ slots'[q].row = [slots[q].row EXCEPT !.lock = Less(@)]
             /\ slots[q].row \in Rows
  <2>1. slots[q] \in SlotType /\ slots[q].row \in Rows
    BY <1>2, HeldTypes DEF TypeOK
  <2>2. slots'[q] = [slots[q] EXCEPT !.row.lock = Less(@)]
    BY DEF Tick
  <2> QED BY <2>1, <2>2 DEF SlotType
<1>5. row.lock \in Int /\ row.failed \in Nat /\ row.lock >= NoLock
  BY <1>2, CountTypes, LimitsAssumption DEF Ticks
<1>6. ~IsLocked(row) => ~IsLocked(row)'
  BY <1>3, <1>5 DEF IsLocked, Less
<1>7. ASSUME NEW q \in Requests
      PROVE  LetInInv(q)'
  <2>1. Fresh(q) => Fresh(q)'
    BY <1>3, <1>4 DEF Fresh, Rows
  <2> QED BY <1>3, <1>4, <1>6, <2>1 DEF SerialInv, LetInInv
<1>8. /\ history'.guesses = IF row.lock = 1 THEN 0 ELSE history.guesses
      /\ history'.proven = history.proven /\ history'.used = history.used
  BY <1>1, <1>2 DEF TypeOK
<1>9. /\ Failures' = IF row.lock = 1 THEN 0 ELSE Failures
      /\ (IF IsLocked(row) THEN row.lock ELSE 0)' = Serial!Less(IF IsLocked(row) THEN row.lock ELSE 0)
      /\ (IF IsLocked(row) THEN row.lock ELSE 0) = 1 <=> row.lock = 1
  BY <1>3, <1>5 DEF Failures, Less, Serial!Less, IsLocked
<1>10. CountInv'
  BY <1>2, <1>3, <1>5, <1>8, <1>9 DEF CountInv, IsLocked, Less
<1>11. SecretInv' /\ UsedInv'
  BY <1>1, <1>3, <1>8 DEF SerialInv, SecretInv, UsedInv
<1>12. Owed' = Owed
  BY <1>4 DEF Owed
<1>13. SerialInv'
  BY <1>7, <1>10, <1>11 DEF SerialInv
<1>14. exp'.pre_auth = Serial!Less(exp.pre_auth) /\ exp'.session = Serial!Less(exp.session)
  BY <1>1 DEF Less, Serial!Less
<1>15. Serial!Tick
  BY <1>3, <1>9, <1>12, <1>14 DEF Serial!Tick, Failures, Owed
<1> QED BY <1>13, <1>15

\* The operator's edit is not seen, and a restart loses what was owed.
LEMMA AroundSerial ==
  ASSUME SerialInv, EnrolmentInv', OperatorSetsActive \/ Restart \/ UNCHANGED vars
  PROVE  SerialInv' /\ (UNCHANGED Serial!vars \/ Serial!Lose)
<1>1. /\ row'.secret = row.secret /\ row'.enrolled = row.enrolled /\ row'.codes = row.codes
      /\ row'.failed = row.failed /\ row'.lock = row.lock
      /\ gen' = gen /\ history' = history
  BY DEF OperatorSetsActive, Restart, vars, SerialInv, EnrolmentInv, TypeOK, Rows
<1>2. CountInv' /\ SecretInv' /\ UsedInv'
  BY <1>1 DEF SerialInv, CountInv, SecretInv, UsedInv, Failures, IsLocked
<1>3. CASE slots' = slots /\ exp' = exp
  <2>1. \A q \in Requests : LetInInv(q)'
    BY <1>1, <1>3 DEF SerialInv, LetInInv, Fresh, IsLocked
  <2>2. UNCHANGED Serial!vars
    BY <1>1, <1>3 DEF Serial!vars, IsLocked
  <2> QED BY <1>2, <2>1, <2>2 DEF SerialInv
<1>4. CASE Restart
  <2>1. \A q \in Requests : slots'[q].pc = "idle"
    BY <1>4 DEF Restart, Idle
  <2>2. \A q \in Requests : LetInInv(q)'
    BY <2>1 DEF LetInInv
  <2>3. Serial!Lose
    BY <1>1, <1>4, <2>1 DEF Serial!Lose, Restart, IsLocked
  <2> QED BY <1>2, <2>2, <2>3 DEF SerialInv
<1> QED BY <1>3, <1>4 DEF OperatorSetsActive, vars

\* One case per action: each is one step of AuthSerial, or none.
LEMMA SerialStep ==
  ASSUME OneAtATime, SerialInv, [Next]_vars
  PROVE  SerialInv' /\ [Serial!Next]_(Serial!vars)
<1>e. EnrolmentInv'
  BY EnrolmentStep DEF SerialInv
<1>1. ASSUME NEW r \in Requests,
             LoginReceive(r) \/ EnrollReceive(r) \/ ConfirmReceive(r) \/ VerifyReceive(r)
      PROVE  SerialInv' /\ UNCHANGED Serial!vars
  <2>1. PICK op, code, refusal :
          /\ Receive(r, op, code, refusal)
          /\ refusal = "none" /\ op \in {"login", "confirm", "verify"} => ~IsLocked(row)
          /\ refusal = "none" /\ op \in {"enroll", "confirm"} => ~row.enrolled
    <3>1. CASE LoginReceive(r)
      BY <3>1, LetIn DEF LoginReceive
    <3>2. CASE EnrollReceive(r)
      BY <3>2, LetIn DEF EnrollReceive
    <3>3. CASE ConfirmReceive(r)
      BY <3>3, LetIn DEF ConfirmReceive
    <3>4. CASE VerifyReceive(r)
      BY <3>4, LetIn DEF VerifyReceive
    <3> QED BY <1>1, <3>1, <3>2, <3>3, <3>4
  <2> QED BY <1>e, <2>1, ReceiveSerial
<1>2. ASSUME NEW r \in Requests, LoginFail(r) \/ ConfirmFail(r) \/ VerifyFail(r)
      PROVE  SerialInv' /\ Serial!Fail
  BY <1>2, <1>e, FailureSerial DEF LoginFail, ConfirmFail, VerifyFail, Working
<1>3. ASSUME NEW r \in Requests, LoginAccept(r)
      PROVE  SerialInv' /\ Serial!Login
  <2>1. /\ slots[r].pc = "work" /\ slots[r].op = "login" /\ \E status : Reply(r, status)
        /\ exp' = [exp EXCEPT !.pre_auth = PreauthTtl] /\ UNCHANGED <<row, gen, history>>
    BY <1>3 DEF LoginAccept, Working
  <2>2. SerialInv' /\ ~Owed /\ ~Owed'
    BY <1>e, <2>1, EndSerial
  <2>3. Failures < MaxAttempts
    BY <2>1, CountTypes, LimitsAssumption DEF SerialInv, EnrolmentInv, LetInInv
  <2>4. exp'.pre_auth = PreauthTtl /\ exp'.session = exp.session
    BY <2>1 DEF SerialInv, EnrolmentInv, TypeOK
  <2> QED
    BY <2>1, <2>2, <2>3, <2>4 DEF Serial!Login, Serial!Open, Failures, Owed, IsLocked
<1>4. ASSUME NEW r \in Requests, EnrollCommit(r)
      PROVE  SerialInv' /\ Serial!Enroll
  BY <1>4, <1>e, EnrollSerial
<1>5. ASSUME NEW r \in Requests, ConfirmCommit(r)
      PROVE  SerialInv' /\ Serial!Confirm
  BY <1>5, <1>e, ConfirmSerial
<1>6. ASSUME NEW r \in Requests, VerifyTotp(r) \/ VerifyRecovery(r)
      PROVE  SerialInv' /\ Serial!Verify
  BY <1>6, <1>e, VerifySerial
<1>7. ASSUME NEW r \in Requests, LoginInactive(r) \/ EnrollAnswer(r) \/ CommitFails(r)
      PROVE  SerialInv' /\ UNCHANGED Serial!vars
  <2>1. /\ slots[r].pc = "work" \/ slots[r].op = "enroll"
        /\ \E status : Reply(r, status) /\ UNCHANGED <<row, exp, gen, history>>
    BY <1>7 DEF LoginInactive, EnrollAnswer, CommitFails, Working, Answerable
  <2>2. SerialInv' /\ ~Owed /\ ~Owed'
    BY <1>e, <2>1, EndSerial
  <2> QED BY <2>1, <2>2 DEF Serial!vars, Owed, IsLocked
<1>8. ASSUME NEW r \in Requests, ConfirmAnswer(r) \/ VerifyAnswer(r)
      PROVE  SerialInv' /\ Serial!Deliver
  <2>1. /\ slots[r].pc = "answer" /\ slots[r].op \in {"confirm", "verify"}
        /\ Reply(r, "ok") /\ UNCHANGED <<row, gen, history>>
        /\ exp' = [exp EXCEPT !.session = SessionTtl]
    BY <1>8 DEF ConfirmAnswer, VerifyAnswer, Answerable
  <2>2. SerialInv' /\ Owed /\ ~Owed'
    BY <1>e, <2>1, EndSerial
  <2>3. exp'.session = SessionTtl /\ exp'.pre_auth = exp.pre_auth
    BY <2>1 DEF SerialInv, EnrolmentInv, TypeOK
  <2> QED BY <2>1, <2>2, <2>3 DEF Serial!Deliver, Owed, IsLocked
<1>9. CASE Tick
  BY <1>9, <1>e, TickSerial DEF Serial!Next
<1>10. CASE OperatorSetsActive \/ Restart \/ UNCHANGED vars
  BY <1>10, <1>e, AroundSerial DEF Serial!Next
<1> QED
  BY <1>1, <1>2, <1>3, <1>4, <1>5, <1>6, <1>7, <1>8, <1>9, <1>10
     DEF Next, Handle, Serial!Next

\* The invariant of requests that do not overlap.
LEMMA SerialAlways ==
  ASSUME OneAtATime
  PROVE  Spec => []SerialInv
<1>1. Init => SerialInv
  <2> SUFFICES ASSUME Init PROVE SerialInv
    OBVIOUS
  <2>1. EnrolmentInv
    BY EnrolmentInit
  <2> QED
    BY <2>1, LimitsAssumption
       DEF Init, SerialInv, LetInInv, Idle, CountInv, SecretInv, UsedInv, Failures, IsLocked,
           NewRow, NoSecret
<1>2. SerialInv /\ [Next]_vars => SerialInv'
  BY SerialStep
<1> QED BY <1>1, <1>2, PTL DEF Spec

\* When requests do not overlap, the account is locked exactly when MaxAttempts
\* failures were answered, for any limit, any lock and any number of restarts.
THEOREM LockCountsExactly ==
  ASSUME OneAtATime
  PROVE  Spec => []LockIffSpent
<1>1. SerialInv => LockIffSpent
  BY CountTypes DEF SerialInv, EnrolmentInv, LockIffSpent, CountInv
<1> QED BY <1>1, SerialAlways, PTL

\* When requests do not overlap, the secret of an enrolled account was proven.
THEOREM SecretStaysProven ==
  ASSUME OneAtATime
  PROVE  Spec => []EnrolledSecretProven
<1>1. SerialInv => EnrolledSecretProven
  BY DEF SerialInv, SecretInv, EnrolledSecretProven
<1> QED BY <1>1, SerialAlways, PTL

\* When requests do not overlap, a recovery code that was used is gone for good.
THEOREM UsedCodesStayGone ==
  ASSUME OneAtATime
  PROVE  Spec => []UsedCodesAreGone
<1>1. SerialInv => UsedCodesAreGone
  BY DEF SerialInv, UsedInv, UsedCodesAreGone
<1> QED BY <1>1, SerialAlways, PTL

\* When requests do not overlap, the handlers are steps of AuthSerial: failures
\* count and clear as there, a lock refuses logins, confirmations and verifications,
\* and one confirmation or verification gives one session.
THEOREM RefinesSerial ==
  ASSUME OneAtATime
  PROVE  Spec => ImplementsSerial
<1>1. Init => Serial!Init
  BY DEF Init, Serial!Init, NewRow, NoSecret, Idle, IsLocked
<1>2. SerialInv /\ [Next]_vars => [Serial!Next]_(Serial!vars)
  BY SerialStep
<1> QED BY <1>1, <1>2, SerialAlways, PTL DEF Spec, Serial!Spec, ImplementsSerial
=============================================================================
