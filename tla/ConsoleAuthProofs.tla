------------------------- MODULE ConsoleAuthProofs -------------------------
(***************************************************************************)
(* Proofs about ConsoleAuth, for any number of calls in flight and of      *)
(* secrets, and whether the user waits or not.  An answer may be delivered *)
(* long after it was given: CallsInv says what remains true of it, since   *)
(* an account that is enrolled stays so.  For a user who waits, AwaitInv   *)
(* says that the form waits for one call at most, and GateInv that no call *)
(* in flight can take the page away while the codes are on screen.         *)
(***************************************************************************)
EXTENDS ConsoleAuth, TLAPS

\* What a call that may be late can still tell.
CallInv(c) ==
  /\ c.cookie = "session" => account.enrolled
  /\ c.answer \in {"totp_requis", "codes", "ok", "user"} => account.enrolled
  /\ c.answer = "uri" => c.code \in 1..account.secret

CallsInv == \A s \in AllSlots : CallInv(calls[s])

FormType == [step : {"PASSWORD", "VERIFY_TOTP", "ENROLL_QR", "SHOW_RECOVERY_CODES"},
             busy : BOOLEAN, secret : 0..MaxSecrets, saved : BOOLEAN, hung : BOOLEAN]

FormInv(f) ==
  /\ f.step \in {"VERIFY_TOTP", "SHOW_RECOVERY_CODES"} => account.enrolled
  /\ f.step = "ENROLL_QR" => f.secret \in 1..account.secret

Inv == TypeOK /\ StepsFollowAccount /\ CallsInv

-----------------------------------------------------------------------------
\* The data the actions are made of.
LEMMA DataTypes ==
  /\ 0 \in 0..MaxSecrets /\ 1 \in 0..MaxSecrets
  /\ Free \in CallType /\ FreshForm \in FormType
  /\ FreshForm.step = "PASSWORD"
  /\ Free.answer = "none" /\ Free.cookie = "none"
<1>1. 0 \in 0..MaxSecrets /\ 1 \in 0..MaxSecrets
  BY SecretsAssumption
<1>2. Free \in CallType
  BY <1>1 DEF Free, CallType
<1>3. FreshForm \in FormType
  BY <1>1 DEF FreshForm, FormType
<1> QED BY <1>1, <1>2, <1>3 DEF Free, FreshForm

\* A new call, with the cookie of the jar.
LEMMA NewCall ==
  ASSUME NEW kind \in Kinds, NEW cookie \in {"none", "pre_auth", "session"},
         cookie = "session" => account.enrolled,
         NEW owner \in {"page", "script", "gone"}, NEW code \in 0..MaxSecrets
  PROVE  Call(kind, cookie, owner, code) \in CallType /\ CallInv(Call(kind, cookie, owner, code))
<1>1. Call(kind, cookie, owner, code) \in CallType
  BY DEF Call, CallType
<1>2. /\ Call(kind, cookie, owner, code).answer = "none"
      /\ Call(kind, cookie, owner, code).cookie \in {cookie, "none"}
  BY DEF Call
<1> QED BY <1>1, <1>2 DEF CallInv

\* What becomes of calls when a page goes.
LEMMA LeftCalls ==
  ASSUME NEW c \in CallType, CallInv(c)
  PROVE  /\ Abandoned(c) \in CallType /\ CallInv(Abandoned(c))
         /\ [c EXCEPT !.owner = "script"] \in CallType
         /\ CallInv([c EXCEPT !.owner = "script"])
<1>1. [c EXCEPT !.owner = "gone"] \in CallType /\ CallInv([c EXCEPT !.owner = "gone"])
  BY DEF CallType, CallInv
<1>2. [c EXCEPT !.owner = "script"] \in CallType /\ CallInv([c EXCEPT !.owner = "script"])
  BY DEF CallType, CallInv
<1>3. Free \in CallType /\ CallInv(Free)
  BY DataTypes DEF CallInv
<1> QED BY <1>1, <1>2, <1>3 DEF Abandoned

\* One call is replaced, the account is the same.
LEMMA OneCall ==
  ASSUME Inv, NEW s \in AllSlots, NEW c \in CallType, CallInv(c)
  PROVE  /\ [calls EXCEPT ![s] = c] \in [AllSlots -> CallType]
         /\ \A r \in AllSlots : CallInv([calls EXCEPT ![s] = c][r])
<1>1. calls \in [AllSlots -> CallType]
  BY DEF Inv, TypeOK
<1> QED BY <1>1 DEF Inv, CallsInv

\* A step with the same account: what each variable must be.
LEMMA SameAccount ==
  ASSUME Inv, account' = account,
         auth' \in {"loading", "authenticated", "unauthenticated"},
         path' \in Routes,
         auth' # "loading" => (path' \in Guarded <=> auth' = "authenticated"),
         auth' = "authenticated" => account.enrolled,
         form' \in FormType, FormInv(form'),
         jar' \in {"none", "pre_auth", "session"}, jar' = "session" => account.enrolled,
         calls' \in [AllSlots -> CallType], \A s \in AllSlots : CallInv(calls'[s])
  PROVE  Inv'
<1>1. TypeOK'
  BY DEF Inv, TypeOK, FormType
<1>2. StepsFollowAccount'
  BY DEF FormInv, StepsFollowAccount
<1>3. CallsInv'
  BY DEF CallsInv, CallInv
<1> QED BY <1>1, <1>2, <1>3 DEF Inv

\* What the invariant says of the state, in the terms of SameAccount.
LEMMA InvParts ==
  ASSUME Inv
  PROVE  /\ auth \in {"loading", "authenticated", "unauthenticated"}
         /\ path \in Routes
         /\ auth # "loading" => (path \in Guarded <=> auth = "authenticated")
         /\ auth = "authenticated" => account.enrolled
         /\ form \in FormType /\ FormInv(form)
         /\ jar \in {"none", "pre_auth", "session"} /\ (jar = "session" => account.enrolled)
         /\ calls \in [AllSlots -> CallType]
         /\ \A s \in AllSlots : calls[s] \in CallType /\ CallInv(calls[s])
         /\ account \in [enrolled : BOOLEAN, secret : 0..MaxSecrets]
<1>1. TypeOK /\ StepsFollowAccount /\ CallsInv
  BY DEF Inv
<1>2. form \in FormType
  BY <1>1 DEF TypeOK, FormType
<1>3. FormInv(form)
  BY <1>1 DEF StepsFollowAccount, FormInv
<1> QED BY <1>1, <1>2, <1>3 DEF TypeOK, StepsFollowAccount, CallsInv

\* Forms that the steps make.
LEMMA FreshForms == FreshForm \in FormType /\ FormInv(FreshForm)
  BY DataTypes DEF FormInv

\* A flag of the form.
LEMMA FlagForms ==
  ASSUME NEW f \in FormType, FormInv(f), NEW b \in BOOLEAN
  PROVE  /\ [f EXCEPT !.busy = b] \in FormType /\ FormInv([f EXCEPT !.busy = b])
         /\ [f EXCEPT !.hung = b] \in FormType /\ FormInv([f EXCEPT !.hung = b])
         /\ [f EXCEPT !.saved = b] \in FormType /\ FormInv([f EXCEPT !.saved = b])
  BY DEF FormType, FormInv

\* The screens of an enrolled account.
LEMMA StepForms ==
  ASSUME NEW f \in FormType, NEW step \in {"VERIFY_TOTP", "SHOW_RECOVERY_CODES"},
         account.enrolled
  PROVE  [f EXCEPT !.step = step] \in FormType /\ FormInv([f EXCEPT !.step = step])
  BY DEF FormType, FormInv

-----------------------------------------------------------------------------
\* Where the user lands, and the calls that the login page leaves behind.
LEMMA MoveKeeps ==
  ASSUME Inv, account' = account,
         jar' \in {"none", "pre_auth", "session"}, jar' = "session" => account.enrolled,
         NEW a \in {"authenticated", "unauthenticated"},
         a = "authenticated" => account.enrolled,
         NEW p \in Routes, NEW s \in AllSlots, Move(a, p, Freed(s))
  PROVE  Inv'
<1>1. /\ Freed(s) \in [AllSlots -> CallType]
      /\ \A r \in AllSlots : Freed(s)[r] \in CallType /\ CallInv(Freed(s)[r])
  <2>1. Free \in CallType /\ CallInv(Free)
    BY DataTypes DEF CallInv
  <2> QED BY <2>1, OneCall DEF Freed
<1> DEFINE cs == Freed(s)
<1> HIDE DEF cs
<1>2. /\ Orphaned(cs) \in [AllSlots -> CallType]
      /\ \A r \in AllSlots : CallInv(Orphaned(cs)[r])
  <2>1. \A r \in AllSlots : /\ cs[r] \in CallType /\ CallInv(cs[r])
                            /\ [cs[r] EXCEPT !.owner = "script"] \in CallType
                            /\ CallInv([cs[r] EXCEPT !.owner = "script"])
    BY <1>1, LeftCalls DEF cs
  <2> QED BY <2>1 DEF Orphaned
<1>3. /\ auth' = a /\ path' \in Landings(p, a)
      /\ \/ form' = form /\ calls' = cs
         \/ form' = FreshForm /\ calls' = Orphaned(cs)
  BY DEF Move, cs
<1>4. form' \in FormType /\ FormInv(form')
  BY <1>3, InvParts, FreshForms
<1>5. calls' \in [AllSlots -> CallType] /\ \A r \in AllSlots : CallInv(calls'[r])
  BY <1>1, <1>2, <1>3 DEF cs
<1>6. /\ path' \in Routes
      /\ path' \in Guarded <=> auth' = "authenticated"
  <2>1. CASE a = "unauthenticated"
    BY <1>3, <2>1 DEF Landings, Routes, Guarded
  <2>2. CASE a = "authenticated"
    BY <1>3, <2>2 DEF Landings, Routes
  <2> QED BY <2>1, <2>2
<1> QED BY <1>3, <1>4, <1>5, <1>6, SameAccount

\* The steps that send, answer or take away one call, and leave the routes alone.
LEMMA FormKeeps ==
  ASSUME Inv, UNCHANGED <<auth, path, account>>,
         jar' \in {"none", "pre_auth", "session"}, jar' = "session" => account.enrolled,
         form' \in FormType, FormInv(form'),
         NEW s \in AllSlots, NEW c \in CallType, CallInv(c), calls' = [calls EXCEPT ![s] = c]
  PROVE  Inv'
<1>1. calls' \in [AllSlots -> CallType] /\ \A r \in AllSlots : CallInv(calls'[r])
  BY OneCall
<1> QED BY <1>1, InvParts, SameAccount

\* What the user does.
LEMMA UserKeeps ==
  ASSUME Inv, User \/ Poll
  PROVE  Inv'
<1>1. ASSUME NEW s \in AllSlots, NEW kind \in Kinds, NEW code \in 0..MaxSecrets,
             Send(s, kind, code), UNCHANGED <<auth, path, jar, account>>,
             form' \in {form, [form EXCEPT !.busy = TRUE]}
      PROVE  Inv'
  <2>1. Call(kind, jar, "page", code) \in CallType /\ CallInv(Call(kind, jar, "page", code))
    BY InvParts, NewCall
  <2>2. form' \in FormType /\ FormInv(form')
    BY <1>1, InvParts, FlagForms
  <2>3. calls' = [calls EXCEPT ![s] = Call(kind, jar, "page", code)]
    BY <1>1 DEF Send
  <2> QED BY <1>1, <2>1, <2>2, <2>3, InvParts, FormKeeps
<1>2. ASSUME NEW s \in Slots, NEW p \in Routes, Load(s, p)
      PROVE  Inv'
  <2> DEFINE cs == [r \in AllSlots |-> Abandoned(calls[r])]
             c  == Call("me", jar, "page", 0)
  <2>1. \A r \in AllSlots : Abandoned(calls[r]) \in CallType /\ CallInv(Abandoned(calls[r]))
    BY InvParts, LeftCalls
  <2>2. c \in CallType /\ CallInv(c)
    BY InvParts, DataTypes, NewCall DEF Kinds
  <2> HIDE DEF c
  <2>3. calls' = [cs EXCEPT ![s] = c]
    BY <1>2 DEF Load, c
  <2>4. calls' \in [AllSlots -> CallType] /\ \A r \in AllSlots : CallInv(calls'[r])
    BY <2>1, <2>2, <2>3
  <2>5. /\ auth' = "loading" /\ path' = p /\ form' = FreshForm
        /\ UNCHANGED <<jar, account>>
    BY <1>2 DEF Load
  <2> QED BY <2>4, <2>5, InvParts, FreshForms, SameAccount
<1>3. CASE TickSaved
  <2>1. form' = [form EXCEPT !.saved = TRUE] /\ UNCHANGED <<auth, path, jar, calls, account>>
    BY <1>3 DEF TickSaved
  <2>2. form' \in FormType /\ FormInv(form')
    BY <2>1, InvParts, FlagForms
  <2> QED BY <2>1, <2>2, InvParts, SameAccount
<1>4. /\ {"login", "verify", "confirm", "enter", "logout", "poll"} \subseteq Kinds
      /\ 0 \in 0..MaxSecrets /\ 1 \in 0..MaxSecrets
      /\ \A s \in Slots : s \in AllSlots
      /\ Poller \in AllSlots
  BY DataTypes DEF Kinds, AllSlots
<1>5. ASSUME NEW s \in Slots,
             \/ SubmitPassword(s) \/ EnterConsole(s) \/ Logout(s)
             \/ \E code \in {0, 1} : SubmitVerifyTotp(s, code)
             \/ \E code \in 0..MaxSecrets : SubmitConfirm(s, code)
      PROVE  Inv'
  <2>1. \E kind \in {"login", "verify", "confirm", "enter", "logout"}, code \in 0..MaxSecrets :
          Send(s, kind, code)
    BY <1>4, <1>5 DEF SubmitPassword, EnterConsole, Logout, SubmitVerifyTotp, SubmitConfirm,
                      Submit
  <2>2. /\ UNCHANGED <<auth, path, jar, account>>
        /\ form' \in {form, [form EXCEPT !.busy = TRUE]}
    BY <1>5 DEF SubmitPassword, EnterConsole, Logout, SubmitVerifyTotp, SubmitConfirm, Submit
  <2> QED BY <1>1, <1>4, <2>1, <2>2
<1>6. CASE Poll
  BY <1>1, <1>4, <1>6 DEF Poll
<1>7. CASE Navigate
  <2>1. /\ auth = "authenticated" /\ path' \in Guarded
        /\ UNCHANGED <<auth, form, jar, calls, account>>
    BY <1>7 DEF Navigate
  <2>2. path' \in Routes
    BY <2>1 DEF Routes
  <2> QED BY <2>1, <2>2, InvParts, SameAccount
<1> QED BY <1>2, <1>3, <1>5, <1>6, <1>7 DEF User

\* What the service answers is true of the account it leaves.
LEMMA HandleKeeps ==
  ASSUME Inv, NEW s \in AllSlots, Handle(s) \/ Refuse(s)
  PROVE  Inv'
<1> DEFINE Told2(answer, code) ==
             [calls[s] EXCEPT !.answer = answer, !.code = code, !.cookie = "none"]
<1>1. /\ UNCHANGED <<auth, path, form, jar>> /\ calls[s] \in CallType /\ CallInv(calls[s])
      /\ account \in [enrolled : BOOLEAN, secret : 0..MaxSecrets]
  BY InvParts DEF Handle, Refuse
<1>2. ASSUME NEW answer \in {"totp_requis", "enrolement_requis", "uri", "codes", "expired",
                             "refused", "ok", "user", "logged_out", "data", "401"},
             NEW code \in 0..MaxSecrets, Reply(s, answer, code),
             account' \in [enrolled : BOOLEAN, secret : 0..MaxSecrets],
             account.enrolled => account'.enrolled, account.secret <= account'.secret,
             answer \in {"totp_requis", "codes", "ok", "user"} => account'.enrolled,
             answer = "uri" => code \in 1..account'.secret
      PROVE  Inv'
  <2> DEFINE c == Told2(answer, code)
  <2>1. c \in CallType /\ c.answer = answer /\ c.code = code /\ c.cookie = "none"
    BY <1>1, DataTypes DEF CallType
  <2>2. calls' = [calls EXCEPT ![s] = c]
    BY <1>2 DEF Reply
  <2> HIDE DEF c
  <2>3. calls' \in [AllSlots -> CallType]
    BY <2>1, <2>2, InvParts
  <2>4. \A r \in AllSlots : CallInv(calls[r])'
    <3> SUFFICES ASSUME NEW r \in AllSlots PROVE CallInv(calls[r])'
      OBVIOUS
    <3>1. CASE r = s
      <4>1. calls'[r] = c
        BY <2>2, <3>1, InvParts
      <4> QED BY <1>2, <2>1, <4>1 DEF CallInv
    <3>2. CASE r # s
      <4>1. calls'[r] = calls[r] /\ CallInv(calls[r]) /\ calls[r] \in CallType
        BY <2>2, <3>2, InvParts
      <4>2. account.secret \in Nat /\ account'.secret \in Nat
        BY <1>1, <1>2, SecretsAssumption
      <4> QED BY <1>2, <4>1, <4>2 DEF CallInv, CallType
    <3> QED BY <3>1, <3>2
  <2>5. TypeOK'
    BY <1>1, <1>2, <2>3 DEF Inv, TypeOK
  <2>6. StepsFollowAccount'
    <3>1. form.step = "ENROLL_QR" => form.secret \in 1..account.secret
      BY DEF Inv, StepsFollowAccount
    <3>2. account.secret \in Nat /\ account'.secret \in Nat
      BY <1>1, <1>2, SecretsAssumption
    <3>3. form.step = "ENROLL_QR" => form.secret \in 1..account'.secret
      BY <1>2, <3>1, <3>2
    <3> QED BY <1>1, <1>2, <3>3 DEF Inv, StepsFollowAccount
  <2> QED BY <2>4, <2>5, <2>6 DEF Inv, CallsInv
<1>3. ASSUME NEW answer \in {"totp_requis", "enrolement_requis", "expired", "codes",
                             "refused", "ok", "user", "logged_out", "data", "401"},
             Answer(s, answer),
             account' \in [enrolled : BOOLEAN, secret : 0..MaxSecrets],
             account.enrolled => account'.enrolled, account.secret <= account'.secret,
             answer \in {"totp_requis", "codes", "ok", "user"} => account'.enrolled
      PROVE  Inv'
  BY <1>2, <1>3, DataTypes DEF Answer
<1>4. account.secret <= account.secret
  BY <1>1, SecretsAssumption
<1>5. CASE HandleLogin(s)
  BY <1>1, <1>3, <1>4, <1>5 DEF HandleLogin
<1>6. CASE HandleEnroll(s)
  <2>1. CASE Answer(s, "refused") /\ UNCHANGED account
    BY <1>1, <1>3, <1>4, <2>1
  <2>2. CASE /\ account.secret < MaxSecrets
             /\ account' = [account EXCEPT !.secret = @ + 1]
             /\ Reply(s, "uri", account.secret + 1)
    <3>1. /\ account.secret + 1 \in 0..MaxSecrets
          /\ account.secret + 1 \in 1..account.secret + 1
          /\ account.secret <= account.secret + 1
      BY <1>1, <2>2, SecretsAssumption
    <3>2. /\ account' \in [enrolled : BOOLEAN, secret : 0..MaxSecrets]
          /\ account'.enrolled = account.enrolled /\ account'.secret = account.secret + 1
      BY <1>1, <2>2, <3>1
    <3> QED BY <1>2, <2>2, <3>1, <3>2
  <2> QED BY <1>6, <2>1, <2>2 DEF HandleEnroll
<1>7. CASE HandleConfirm(s)
  <2> DEFINE open    == calls[s].cookie # "none" /\ ~account.enrolled /\ account.secret > 0
             matches == calls[s].code = account.secret
  <2>1. /\ Answer(s, IF calls[s].cookie = "none" THEN "expired"
                     ELSE IF open /\ matches THEN "codes" ELSE "refused")
        /\ account' = [account EXCEPT !.enrolled = @ \/ (open /\ matches)]
    BY <1>7 DEF HandleConfirm
  <2>2. /\ account' \in [enrolled : BOOLEAN, secret : 0..MaxSecrets]
        /\ account.enrolled => account'.enrolled
        /\ account'.secret = account.secret
        /\ open /\ matches => account'.enrolled
    BY <1>1, <2>1
  <2> QED BY <1>3, <1>4, <2>1, <2>2
<1>8. CASE HandleVerify(s)
  BY <1>1, <1>3, <1>4, <1>8 DEF HandleVerify
<1>9. CASE HandleMe(s)
  BY <1>1, <1>3, <1>4, <1>9 DEF HandleMe, CallInv
<1>10. CASE HandleLogout(s) \/ HandlePoll(s) \/ Refuse(s)
  BY <1>1, <1>3, <1>4, <1>10 DEF HandleLogout, HandlePoll, Refuse
<1> QED BY <1>5, <1>6, <1>7, <1>8, <1>9, <1>10 DEF Handle

\* What arrives, however late, leads where the account is.
LEMMA DeliverKeeps ==
  ASSUME Inv, NEW s \in AllSlots, Deliver(s) \/ Lose(s)
  PROVE  Inv'
<1> DEFINE c == calls[s]
<1>1. /\ c \in CallType /\ CallInv(c)
      /\ Free \in CallType /\ CallInv(Free)
      /\ CookieAfter(c) \in {"none", "pre_auth", "session"}
      /\ CookieAfter(c) = "session" => account.enrolled
  BY InvParts, DataTypes DEF CookieAfter, CallInv
<1>2. /\ form \in FormType /\ FormInv(form)
      /\ NotBusy \in FormType /\ FormInv(NotBusy)
      /\ jar \in {"none", "pre_auth", "session"} /\ (jar = "session" => account.enrolled)
  BY InvParts, FlagForms DEF NotBusy
<1>3. \A kind \in {"enroll", "enter"}, owner \in {"page", "script", "gone"},
         cookie \in {"none", "pre_auth", "session"} :
        (cookie = "session" => account.enrolled) =>
          Call(kind, cookie, owner, 0) \in CallType /\ CallInv(Call(kind, cookie, owner, 0))
  BY DataTypes, NewCall DEF Kinds
<1>4. ASSUME UNCHANGED <<auth, path, account>>, jar' \in {jar, CookieAfter(c)},
             form' \in FormType, FormInv(form'),
             NEW new \in CallType, CallInv(new), calls' = [calls EXCEPT ![s] = new]
      PROVE  Inv'
  BY <1>1, <1>2, <1>4, FormKeeps
<1>5. ASSUME NEW f \in FormType, FormInv(f), Set(s, f)
      PROVE  form' \in FormType /\ FormInv(form')
  BY <1>2, <1>5 DEF Set
<1>6. CASE AfterLogin(s)
  <2>1. UNCHANGED <<auth, path, account>> /\ jar' = CookieAfter(c)
    BY <1>6 DEF AfterLogin
  <2>2. CASE c.answer = "totp_requis"
    <3>1. Set(s, [NotBusy EXCEPT !.step = "VERIFY_TOTP"]) /\ calls' = [calls EXCEPT ![s] = Free]
      BY <1>6, <2>2 DEF AfterLogin, Freed
    <3>2. account.enrolled
      BY <1>1, <2>2 DEF CallInv
    <3>3. form' \in FormType /\ FormInv(form')
      BY <1>2, <1>5, <3>1, <3>2, StepForms
    <3> QED BY <1>1, <1>4, <2>1, <3>1, <3>3
  <2>3. CASE c.answer = "enrolement_requis"
    <3>1. /\ Set(s, NotBusy)
          /\ calls' = [calls EXCEPT ![s] = Call("enroll", jar', c.owner, 0)]
      BY <1>6, <2>3 DEF AfterLogin
    <3>2. form' \in FormType /\ FormInv(form')
      BY <1>2, <1>5, <3>1
    <3>3. Call("enroll", jar', c.owner, 0) \in CallType /\ CallInv(Call("enroll", jar', c.owner, 0))
      BY <1>1, <1>3, <2>1 DEF CallType
    <3> QED BY <1>4, <2>1, <3>1, <3>2, <3>3
  <2>4. CASE c.answer \notin {"totp_requis", "enrolement_requis"}
    <3>1. Set(s, NotBusy) /\ calls' = [calls EXCEPT ![s] = Free]
      BY <1>6, <2>4 DEF AfterLogin, Freed
    <3>2. form' \in FormType /\ FormInv(form')
      BY <1>2, <1>5, <3>1
    <3> QED BY <1>1, <1>4, <2>1, <3>1, <3>2
  <2> QED BY <2>2, <2>3, <2>4
<1>7. CASE AfterEnroll(s)
  <2>1. /\ UNCHANGED <<auth, path, account, jar>> /\ calls' = [calls EXCEPT ![s] = Free]
        /\ Set(s, IF c.answer = "uri"
                    THEN [form EXCEPT !.step = "ENROLL_QR", !.secret = c.code] ELSE form)
    BY <1>7 DEF AfterEnroll, Freed
  <2>2. form' \in FormType /\ FormInv(form')
    <3>1. CASE c.answer = "uri"
      <4>1. c.code \in 0..MaxSecrets /\ c.code \in 1..account.secret
        BY <1>1, <3>1 DEF CallInv, CallType
      <4> DEFINE qr == [form EXCEPT !.step = "ENROLL_QR", !.secret = c.code]
      <4>2. Set(s, qr)
        BY <2>1, <3>1
      <4>3. qr \in FormType /\ FormInv(qr)
        <5>1. qr \in FormType /\ qr.step = "ENROLL_QR" /\ qr.secret = c.code
          BY <1>2, <4>1 DEF FormType
        <5> HIDE DEF qr
        <5> QED BY <4>1, <5>1 DEF FormInv
      <4> HIDE DEF qr
      <4> QED BY <1>5, <4>2, <4>3
    <3>2. CASE c.answer # "uri"
      BY <1>2, <1>5, <2>1, <3>2
    <3> QED BY <3>1, <3>2
  <2> QED BY <1>1, <1>4, <2>1, <2>2
<1>8. CASE AfterConfirm(s)
  <2>1. /\ UNCHANGED <<auth, path, account>> /\ jar' = CookieAfter(c)
        /\ calls' = [calls EXCEPT ![s] = Free]
        /\ Set(s, CASE c.answer = "codes"   -> [NotBusy EXCEPT !.step = "SHOW_RECOVERY_CODES"]
                    [] c.answer = "expired" -> FreshForm
                    [] OTHER                -> NotBusy)
    BY <1>8 DEF AfterConfirm, Freed
  <2>2. form' \in FormType /\ FormInv(form')
    <3>1. CASE c.answer = "codes"
      <4>1. account.enrolled /\ Set(s, [NotBusy EXCEPT !.step = "SHOW_RECOVERY_CODES"])
        BY <1>1, <2>1, <3>1 DEF CallInv
      <4> QED BY <1>2, <1>5, <4>1, StepForms
    <3>2. CASE c.answer = "expired"
      BY <1>5, <2>1, <3>2, FreshForms
    <3>3. CASE c.answer \notin {"codes", "expired"}
      BY <1>2, <1>5, <2>1, <3>3
    <3> QED BY <3>1, <3>2, <3>3
  <2> QED BY <1>1, <1>4, <2>1, <2>2
<1>9. CASE AfterVerify(s)
  <2>1. /\ UNCHANGED <<auth, path, account>> /\ jar' = CookieAfter(c)
        /\ Set(s, IF c.answer = "expired" THEN FreshForm ELSE NotBusy)
        /\ \/ calls' = [calls EXCEPT ![s] = Call("enter", jar', c.owner, 0)]
           \/ calls' = [calls EXCEPT ![s] = Free]
    BY <1>9 DEF AfterVerify, Freed
  <2>2. form' \in FormType /\ FormInv(form')
    BY <1>2, <1>5, <2>1, FreshForms
  <2>3. Call("enter", jar', c.owner, 0) \in CallType /\ CallInv(Call("enter", jar', c.owner, 0))
    BY <1>1, <1>3, <2>1 DEF CallType
  <2> QED BY <1>1, <1>4, <2>1, <2>2, <2>3
<1>10. ASSUME NEW a \in {"authenticated", "unauthenticated"},
              a = "authenticated" => account.enrolled,
              NEW p \in {path} \cup Guarded, Move(a, p, Freed(s)),
              account' = account, jar' \in {jar, CookieAfter(c)}
       PROVE  Inv'
  BY <1>1, <1>2, <1>10, InvParts, MoveKeeps DEF Routes
<1>11. CASE AfterMe(s)
  <2>1. /\ Told(s) \in {"authenticated", "unauthenticated"}
        /\ Told(s) = "authenticated" => account.enrolled
    BY <1>1 DEF Told, CallInv
  <2> QED BY <1>10, <1>11, <2>1 DEF AfterMe
<1>12. CASE AfterLogout(s)
  BY <1>10, <1>12 DEF AfterLogout
<1>13. CASE AfterPoll(s)
  <2>1. CASE c.answer = "401"
    BY <1>10, <1>13, <2>1 DEF AfterPoll
  <2>2. CASE c.answer # "401"
    BY <1>1, <1>2, <1>4, <1>13, <2>2 DEF AfterPoll, Freed
  <2> QED BY <2>1, <2>2
<1>14. CASE AfterNobody(s)
  BY <1>1, <1>2, <1>4, <1>14 DEF AfterNobody, Freed
<1>15. CASE Lose(s)
  <2>1. /\ UNCHANGED <<auth, path, jar, account>>
        /\ calls' = [calls EXCEPT ![s] = Abandoned(c)]
        /\ form' \in {form, [form EXCEPT !.hung = TRUE]}
    BY <1>15 DEF Lose, Set
  <2>2. form' \in FormType /\ FormInv(form')
    BY <1>2, <2>1, FlagForms
  <2>3. Abandoned(c) \in CallType /\ CallInv(Abandoned(c))
    BY <1>1, LeftCalls
  <2> QED BY <1>4, <2>1, <2>2, <2>3
<1> QED BY <1>6, <1>7, <1>8, <1>9, <1>11, <1>12, <1>13, <1>14, <1>15 DEF Deliver

\* What the other tabs do to the account and to the cookie.
LEMMA ElsewhereKeeps ==
  ASSUME Inv, Elsewhere
  PROVE  Inv'
<1>1. UNCHANGED <<auth, path, form, calls>>
      /\ account \in [enrolled : BOOLEAN, secret : 0..MaxSecrets]
  BY InvParts DEF Elsewhere
<1>2. CASE account' = account
  <2>1. /\ jar' \in {"none", "pre_auth", "session"}
        /\ jar' = "session" => account.enrolled
    BY <1>2, InvParts DEF Elsewhere
  <2> QED BY <1>1, <1>2, <2>1, InvParts, SameAccount
<1>3. CASE account' # account
  <2>1. /\ ~account.enrolled /\ jar' = jar
        /\ account' \in [enrolled : BOOLEAN, secret : 0..MaxSecrets]
        /\ account.secret <= account'.secret
        /\ account.secret \in Nat /\ account'.secret \in Nat
    <3>1. ~account.enrolled /\ jar' = jar /\ account'.secret <= MaxSecrets
      BY <1>3 DEF Elsewhere
    <3>2. account.secret \in Nat /\ MaxSecrets \in Nat
      BY <1>1, SecretsAssumption
    <3>3. CASE account' = [account EXCEPT !.secret = @ + 1]
      <4>1. account'.secret = account.secret + 1 /\ account'.enrolled = account.enrolled
        BY <1>1, <3>3
      <4>2. account.secret + 1 \in 0..MaxSecrets
        BY <3>1, <3>2, <4>1
      <4> QED BY <1>1, <3>1, <3>2, <3>3, <4>1, <4>2
    <3>4. CASE account' = [account EXCEPT !.enrolled = TRUE]
      <4>1. account'.secret = account.secret /\ account'.enrolled = TRUE
        BY <1>1, <3>4
      <4>2. account' \in [enrolled : BOOLEAN, secret : 0..MaxSecrets]
        BY <1>1, <3>4
      <4>3. account.secret <= account'.secret
        BY <3>2, <4>1
      <4> QED BY <3>1, <3>2, <4>1, <4>2, <4>3
    <3> QED BY <1>3, <3>3, <3>4 DEF Elsewhere
  <2>2. \A n : n \in 1..account.secret => n \in 1..account'.secret
    BY <2>1
  <2>3. TypeOK'
    BY <1>1, <2>1 DEF Inv, TypeOK
  <2>4. StepsFollowAccount'
    BY <1>1, <2>1, <2>2 DEF Inv, StepsFollowAccount
  <2>5. CallsInv'
    BY <1>1, <2>1, <2>2 DEF Inv, CallsInv, CallInv
  <2> QED BY <2>3, <2>4, <2>5 DEF Inv
<1> QED BY <1>2, <1>3

\* Every step keeps the invariant.
LEMMA InvStep == Inv /\ [Next]_vars => Inv'
<1>1. ASSUME Inv, UNCHANGED vars PROVE Inv'
  BY <1>1 DEF Inv, TypeOK, StepsFollowAccount, CallsInv, CallInv, vars
<1> QED BY <1>1, UserKeeps, HandleKeeps, DeliverKeeps, ElsewhereKeeps DEF Next

\* It holds when the page is opened.
LEMMA InitInv == Init => Inv
<1> SUFFICES ASSUME Init PROVE Inv
  OBVIOUS
<1>1. /\ account \in [enrolled : BOOLEAN, secret : 0..MaxSecrets]
      /\ jar \in {"none", "pre_auth", "session"} /\ (jar = "session" => account.enrolled)
  <2>1. account \in [enrolled : BOOLEAN, secret : 0..MaxSecrets]
    <3>1. [enrolled |-> FALSE, secret |-> 0] \in [enrolled : BOOLEAN, secret : 0..MaxSecrets]
      BY DataTypes
    <3>2. [enrolled |-> TRUE, secret |-> 1] \in [enrolled : BOOLEAN, secret : 0..MaxSecrets]
      BY DataTypes
    <3> QED BY <3>1, <3>2 DEF Init
  <2>2. jar \in {"none"} \cup (IF account.enrolled THEN {"session"} ELSE {})
    BY DEF Init
  <2> QED BY <2>1, <2>2
<1>2. Call("me", jar, "page", 0) \in CallType /\ CallInv(Call("me", jar, "page", 0))
  BY <1>1, DataTypes, NewCall DEF Kinds
<1>3. Free \in CallType /\ CallInv(Free)
  BY DataTypes DEF CallInv
<1>4. calls \in [AllSlots -> CallType] /\ \A s \in AllSlots : CallInv(calls[s])
  BY <1>2, <1>3 DEF Init
<1>5. TypeOK
  BY <1>1, <1>4, FreshForms DEF Init, TypeOK, FormType
<1>6. StepsFollowAccount
  BY <1>1, DataTypes DEF Init, StepsFollowAccount
<1> QED BY <1>4, <1>5, <1>6 DEF Inv, CallsInv

\* It is an invariant.
LEMMA InvHolds == Spec => []Inv
  BY InitInv, InvStep, PTL DEF Spec

\* The page, the cookie and the calls keep their types, and the route that is shown is
\* the one of the state of AuthProvider.
THEOREM ConsoleTypes == Spec => []TypeOK
<1>1. Inv => TypeOK
  BY DEF Inv
<1> QED BY <1>1, InvHolds, PTL

\* For any number of calls in flight, delivered in any order or lost, the console opens
\* and a code is asked for of an enrolled account only.
THEOREM StepsAlwaysFollow == Spec => []StepsFollowAccount
<1>1. Inv => StepsFollowAccount
  BY DEF Inv
<1> QED BY <1>1, InvHolds, PTL

-----------------------------------------------------------------------------
\* What a step does to the account: an enrolment is asked for, then confirmed.
LEMMA AccountSteps ==
  ASSUME Inv, [Next]_vars
  PROVE  \/ account' = account
         \/ /\ jar' = jar /\ ~account.enrolled
            /\ \/ account'.enrolled = FALSE /\ account'.secret > 0
               \/ account'.enrolled = TRUE /\ account.secret > 0
<1>1. account \in [enrolled : BOOLEAN, secret : 0..MaxSecrets] /\ account.secret \in Nat
  BY InvParts, SecretsAssumption
<1>2. ASSUME NEW s \in AllSlots, HandleEnroll(s), jar' = jar
      PROVE  \/ account' = account
             \/ jar' = jar /\ ~account.enrolled /\ account'.enrolled = FALSE /\ account'.secret > 0
  BY <1>1, <1>2 DEF HandleEnroll
<1>3. ASSUME NEW s \in AllSlots, HandleConfirm(s), jar' = jar
      PROVE  \/ account' = account
             \/ jar' = jar /\ ~account.enrolled /\ account'.enrolled = TRUE /\ account.secret > 0
  <2>1. account' = [account EXCEPT !.enrolled =
                      @ \/ (/\ calls[s].cookie # "none" /\ ~account.enrolled /\ account.secret > 0
                            /\ calls[s].code = account.secret)]
    BY <1>3 DEF HandleConfirm
  <2>2. CASE /\ calls[s].cookie # "none" /\ ~account.enrolled /\ account.secret > 0
             /\ calls[s].code = account.secret
    BY <1>1, <1>3, <2>1, <2>2
  <2>3. CASE ~(/\ calls[s].cookie # "none" /\ ~account.enrolled /\ account.secret > 0
               /\ calls[s].code = account.secret)
    BY <1>1, <2>1, <2>3
  <2> QED BY <2>2, <2>3
<1>4. ASSUME NEW s \in AllSlots, Handle(s)
      PROVE  jar' = jar /\ (HandleEnroll(s) \/ HandleConfirm(s) \/ account' = account)
  BY <1>4 DEF Handle, HandleLogin, HandleVerify, HandleMe, HandleLogout, HandlePoll
<1>5. CASE Elsewhere
  BY <1>1, <1>5 DEF Elsewhere
<1>6. ASSUME User \/ Poll \/ (\E s \in AllSlots : Refuse(s) \/ Deliver(s) \/ Lose(s)) \/ UNCHANGED vars
      PROVE  account' = account
  <2>1. CASE User \/ Poll
    BY <2>1 DEF User, Load, SubmitPassword, EnterConsole, Logout, SubmitVerifyTotp,
                SubmitConfirm, Submit, TickSaved, Navigate, Poll
  <2>2. ASSUME NEW s \in AllSlots, Refuse(s) \/ Deliver(s) \/ Lose(s)
        PROVE  account' = account
    BY <2>2 DEF Refuse, Deliver, AfterLogin, AfterEnroll, AfterConfirm, AfterVerify, AfterMe,
                AfterLogout, AfterPoll, AfterNobody, Lose
  <2> QED BY <1>6, <2>1, <2>2 DEF vars
<1> QED BY <1>2, <1>3, <1>4, <1>5, <1>6 DEF Next

\* Every step of the console is a step of AuthLifecycle or a stutter.
LEMMA LifecycleStep ==
  ASSUME Inv, Inv', [Next]_vars
  PROVE  [Lifecycle!Next]_(Lifecycle!vars)
<1> DEFINE phase == IF account.enrolled THEN "enrolled" ELSE IF account.secret > 0 THEN "pending"
                    ELSE "new"
<1>1. account.enrolled \in BOOLEAN /\ account'.enrolled \in BOOLEAN
  BY DEF Inv, TypeOK
<1>2. CASE account' = account
  <2>1. phase' = phase
    BY <1>2
  <2>2. CASE jar' # "session"
    BY <2>1, <2>2 DEF Lifecycle!Next, Lifecycle!Close
  <2>3. CASE jar' = "session"
    <3>1. account.enrolled
      BY <1>2, <2>3 DEF Inv, StepsFollowAccount
    <3> QED BY <2>1, <2>3, <3>1 DEF Lifecycle!Next, Lifecycle!Open
  <2> QED BY <2>2, <2>3
<1>3. CASE jar' = jar /\ ~account.enrolled /\ account'.enrolled = FALSE /\ account'.secret > 0
  BY <1>1, <1>3 DEF Lifecycle!Next, Lifecycle!Enroll, Lifecycle!vars
<1>4. CASE jar' = jar /\ ~account.enrolled /\ account'.enrolled = TRUE /\ account.secret > 0
  BY <1>1, <1>4 DEF Lifecycle!Next, Lifecycle!Confirm, Lifecycle!vars
<1> QED BY <1>2, <1>3, <1>4, AccountSteps

\* The account and the session of the browser are those of AuthLifecycle.
THEOREM ConsoleKeepsLifecycle == Spec => KeepsLifecycle
<1>1. Inv /\ Inv' /\ [Next]_vars => [Lifecycle!Next]_(Lifecycle!vars)
  BY LifecycleStep
<1> QED BY <1>1, InvHolds, InvStep, PTL DEF Spec, KeepsLifecycle

-----------------------------------------------------------------------------
(* The gate of the recovery codes, for a user who waits for the enrol.     *)
(* The page waits for one answer at a time, on the step it was sent from;  *)
(* whatever else could move it was sent when the account was enrolled, and *)
(* codes are given to an account that was not.                             *)

\* The step that the login page is on while it waits for the answer to c.
Fits(c, f) ==
  CASE c.kind = "login"   -> f.step = "PASSWORD" /\ f.busy
    [] c.kind = "enroll"  -> f.step = "PASSWORD" /\ ~f.busy
    [] c.kind = "confirm" -> f.step = "ENROLL_QR" /\ f.busy
    [] c.kind = "verify"  -> f.step = "VERIFY_TOTP" /\ f.busy

\* The login page waits for c.
Awaited(c) == c.kind \in FormKinds /\ c.owner = "page"

AwaitInv ==
  /\ \A s \in AllSlots : Awaited(calls[s]) => Fits(calls[s], form) /\ path = "login"
  /\ \A s, r \in AllSlots : Awaited(calls[s]) /\ Awaited(calls[r]) => s = r
  /\ path # "login" => form.step = "PASSWORD"

\* What takes the page to the console, or will.
Moves(c) ==
  /\ c.owner # "gone"
  /\ \/ c.kind \in {"enter", "verify"}
     \/ c.kind = "me" /\ (c.cookie = "session" \/ c.answer = "user")

\* The codes are on screen, the box is not ticked; or they are on their way.
Showing   == form.step = "SHOW_RECOVERY_CODES" /\ ~form.saved
Coming(c) == c.kind = "confirm" /\ c.owner = "page" /\ c.answer = "codes"

GateInv ==
  /\ \A s \in AllSlots : Moves(calls[s]) => account.enrolled
  /\ Showing \/ (\E s \in AllSlots : Coming(calls[s])) => \A s \in AllSlots : ~Moves(calls[s])

\* A new call comes from a page that waits for nothing; one that leaves is not awaited.
LEMMA OneAwaited ==
  ASSUME Inv, AwaitInv, path' = path, NEW s \in AllSlots, NEW c,
         calls' = [calls EXCEPT ![s] = c],
         \/ form'.step = form.step /\ form'.busy = form.busy
         \/ \A r \in AllSlots \ {s} : ~Awaited(calls[r]),
         Awaited(c) => /\ Fits(c, form') /\ path = "login"
                       /\ \A r \in AllSlots \ {s} : ~Awaited(calls[r]),
         path # "login" => form'.step = "PASSWORD"
  PROVE  AwaitInv'
<1>1. calls'[s] = c /\ \A r \in AllSlots \ {s} : calls'[r] = calls[r]
  BY InvParts
<1>2. \A r, q \in AllSlots : Awaited(calls'[r]) /\ Awaited(calls'[q]) => r = q
  BY <1>1 DEF AwaitInv
<1>3. ASSUME NEW r \in AllSlots, Awaited(calls'[r])
      PROVE  Fits(calls'[r], form') /\ path' = "login"
  <2>1. CASE r = s
    BY <1>1, <1>3, <2>1
  <2>2. CASE r # s
    <3>1. calls'[r] = calls[r] /\ Awaited(calls[r])
      BY <1>1, <1>3, <2>2
    <3>2. form'.step = form.step /\ form'.busy = form.busy
      BY <2>2, <3>1
    <3> QED BY <3>1, <3>2 DEF AwaitInv, Fits
  <2> QED BY <2>1, <2>2
<1> QED BY <1>2, <1>3 DEF AwaitInv, Awaited, Fits

\* Nothing new moves the page, and no codes come but those that were coming.
LEMMA FewerMoves ==
  ASSUME GateInv, account.enrolled => account'.enrolled,
         \A s \in AllSlots : Moves(calls'[s]) => Moves(calls[s]),
         Showing' => Showing \/ \E s \in AllSlots : Coming(calls[s]),
         \A s \in AllSlots : Coming(calls'[s]) => \E r \in AllSlots : Coming(calls[r])
  PROVE  GateInv'
<1>1. \A s \in AllSlots : Moves(calls[s])' = Moves(calls'[s])
  BY DEF Moves
<1>2. \A s \in AllSlots : Coming(calls[s])' = Coming(calls'[s])
  BY DEF Coming
<1> QED BY <1>1, <1>2 DEF GateInv

\* A page that is loaded waits for nothing and shows nothing.
LEMMA FreshGate ==
  ASSUME form' = FreshForm, \A s \in AllSlots : ~Awaited(calls'[s]),
         \A s \in AllSlots : Moves(calls'[s]) => account'.enrolled
  PROVE  AwaitInv' /\ GateInv'
<1>1. form'.step = "PASSWORD"
  BY DataTypes
<1>2. \A s \in AllSlots : ~Coming(calls'[s])
  BY DEF Awaited, Coming, FormKinds
<1>3. AwaitInv'
  BY <1>1 DEF AwaitInv, Awaited
<1>4. GateInv'
  BY <1>1, <1>2 DEF GateInv, Showing, Moves, Coming
<1> QED BY <1>3, <1>4

\* The screen of the codes stays until the box is ticked or the page loaded.
Kept == Showing => form'.step = "SHOW_RECOVERY_CODES" \/ auth' = "loading"

Gated == AwaitInv' /\ GateInv' /\ Kept

\* While the codes are coming or on screen, the page waits for nothing else.
LEMMA OnStepWaits ==
  ASSUME Inv, AwaitInv
  PROVE  /\ form.step = "SHOW_RECOVERY_CODES" => \A s \in AllSlots : ~Awaited(calls[s])
         /\ form.step \in {"VERIFY_TOTP", "ENROLL_QR"} /\ ~form.busy =>
              \A s \in AllSlots : ~Awaited(calls[s])
         /\ form.step = "PASSWORD" /\ ~form.busy /\ OfPage({"enroll"}) = {} =>
              \A s \in AllSlots : ~Awaited(calls[s])
         /\ \A s \in AllSlots : Coming(calls[s]) => form.step = "ENROLL_QR"
         /\ form.step # "PASSWORD" => path = "login"
<1>1. \A s \in AllSlots : Awaited(calls[s]) => Fits(calls[s], form) /\ calls[s].kind \in FormKinds
  BY DEF AwaitInv, Awaited
<1>2. \A s \in AllSlots : Coming(calls[s]) => Awaited(calls[s]) /\ calls[s].kind = "confirm"
  BY DEF Coming, Awaited, FormKinds
<1>3. \A s \in AllSlots : Awaited(calls[s]) =>
        /\ form.step \in {"PASSWORD", "ENROLL_QR", "VERIFY_TOTP"}
        /\ form.step # "PASSWORD" => form.busy
        /\ calls[s].kind # "enroll" => form.busy
        /\ calls[s].kind = "confirm" => form.step = "ENROLL_QR"
  BY <1>1 DEF Fits, FormKinds
<1>4. \A s \in AllSlots : Awaited(calls[s]) /\ calls[s].kind = "enroll" => s \in OfPage({"enroll"})
  BY DEF Awaited, OfPage, Pending
<1>5. path # "login" => form.step = "PASSWORD"
  BY DEF AwaitInv
<1> QED BY <1>2, <1>3, <1>4, <1>5, InvParts

\* The user sends a call from the login page or from the console.
LEMMA SendGate ==
  ASSUME Inv, AwaitInv, GateInv, NEW s \in AllSlots, NEW kind \in Kinds \ {"me", "enroll"}, NEW code,
         Send(s, kind, code), UNCHANGED <<auth, path, jar, account>>,
         form' \in {form, [form EXCEPT !.busy = TRUE]},
         kind \notin FormKinds => form' = form,
         kind \in FormKinds =>
           /\ \A r \in AllSlots : ~Awaited(calls[r])
           /\ path = "login" /\ Fits(Call(kind, jar, "page", code), form'),
         kind \in {"enter", "verify"} =>
           account.enrolled /\ ~Showing /\ form.step \in {"SHOW_RECOVERY_CODES", "VERIFY_TOTP"}
  PROVE  Gated
<1> DEFINE c == Call(kind, jar, "page", code)
<1>1. /\ c.kind = kind /\ c.owner = "page" /\ c.answer = "none"
      /\ calls' = [calls EXCEPT ![s] = c]
  BY DEF Call, Send
<1> HIDE DEF c
<1>2. calls'[s] = c /\ \A r \in AllSlots \ {s} : calls'[r] = calls[r]
  BY <1>1, InvParts
<1>3. form'.step = form.step /\ form'.saved = form.saved /\ form'.busy \in {form.busy, TRUE}
  BY InvParts DEF FormType
<1>4. AwaitInv'
  <2>1. CASE kind \in FormKinds
    <3>1. Awaited(c) => /\ Fits(c, form') /\ path = "login"
                        /\ \A r \in AllSlots \ {s} : ~Awaited(calls[r])
      BY <2>1 DEF c
    <3> QED BY <1>1, <1>3, <2>1, <3>1, OneAwaited DEF AwaitInv
  <2>2. CASE kind \notin FormKinds
    <3>1. ~Awaited(c)
      BY <1>1, <2>2 DEF Awaited
    <3>2. \/ form'.step = form.step /\ form'.busy = form.busy
          \/ \A r \in AllSlots \ {s} : ~Awaited(calls[r])
      BY <1>3, <3>1, <2>2
    <3> QED BY <1>1, <1>3, <3>1, <3>2, OneAwaited DEF AwaitInv
  <2> QED BY <2>1, <2>2
<1>5. Showing' <=> Showing
  BY <1>3 DEF Showing
<1>6. \A r \in AllSlots : Coming(calls'[r]) => Coming(calls[r])
  BY <1>1, <1>2 DEF Coming
<1>7. GateInv'
  <2>1. CASE kind \in {"enter", "verify"}
    <3>1. ~Showing' /\ \A r \in AllSlots : ~Coming(calls'[r])
      BY <1>5, <1>6, <2>1, OnStepWaits
    <3>2. \A r \in AllSlots : Moves(calls'[r]) => account'.enrolled
      BY <1>2, <2>1 DEF GateInv
    <3>3. \A r \in AllSlots : Moves(calls[r])' = Moves(calls'[r])
      BY DEF Moves
    <3>4. \A r \in AllSlots : Coming(calls[r])' = Coming(calls'[r])
      BY DEF Coming
    <3> QED BY <3>1, <3>2, <3>3, <3>4 DEF GateInv
  <2>2. CASE kind \notin {"enter", "verify"}
    <3>1. ~Moves(c)
      BY <1>1, <2>2 DEF Moves
    <3>2. \A r \in AllSlots : Moves(calls'[r]) => Moves(calls[r])
      BY <1>2, <3>1
    <3> QED BY <1>5, <1>6, <3>2, FewerMoves
  <2> QED BY <2>1, <2>2
<1> QED BY <1>3, <1>4, <1>7 DEF Gated, Kept, Showing

\* What the user does.
LEMMA UserGate ==
  ASSUME ~Impatient, Inv, AwaitInv, GateInv, User \/ Poll
  PROVE  Gated
<1>1. ASSUME NEW s \in Slots, NEW p \in Routes, Load(s, p)
      PROVE  Gated
  <2> DEFINE cs == [r \in AllSlots |-> Abandoned(calls[r])]
             c  == Call("me", jar, "page", 0)
  <2>1. /\ auth' = "loading" /\ form' = FreshForm /\ calls' = [cs EXCEPT ![s] = c]
        /\ account' = account
    BY <1>1 DEF Load
  <2>2. /\ ~Awaited(c) /\ (Moves(c) => account.enrolled)
    BY InvParts DEF Call, Awaited, FormKinds, Moves
  <2>3. \A r \in AllSlots : ~Awaited(cs[r]) /\ ~Moves(cs[r])
    <3>1. ~Awaited(Free) /\ ~Moves(Free)
      BY DEF Free, Awaited, Moves
    <3>2. \A r \in AllSlots : [calls[r] EXCEPT !.owner = "gone"].owner = "gone"
      BY InvParts DEF CallType
    <3>3. \A d : d.owner = "gone" => ~Awaited(d) /\ ~Moves(d)
      BY DEF Awaited, Moves
    <3> QED BY <3>1, <3>2, <3>3 DEF Abandoned
  <2> HIDE DEF c
  <2>4. \A r \in AllSlots : calls'[r] \in {cs[r], c}
    BY <2>1
  <2> HIDE DEF cs
  <2>5. AwaitInv' /\ GateInv'
    BY <2>1, <2>2, <2>3, <2>4, FreshGate
  <2> QED BY <2>1, <2>5 DEF Gated, Kept
<1>2. CASE TickSaved
  <2>1. /\ form' = [form EXCEPT !.saved = TRUE] /\ UNCHANGED <<auth, path, jar, calls, account>>
        /\ form.step = "SHOW_RECOVERY_CODES"
    BY <1>2 DEF TickSaved
  <2>2. form'.step = form.step /\ form'.busy = form.busy /\ form'.saved = TRUE
    BY <2>1, InvParts DEF FormType
  <2>3. AwaitInv'
    BY <2>1, <2>2 DEF AwaitInv, Fits, Awaited
  <2>4. GateInv'
    BY <2>1, <2>2 DEF GateInv, Moves, Coming, Showing
  <2> QED BY <2>1, <2>2, <2>3, <2>4 DEF Gated, Kept
<1>3. /\ \A s \in Slots : s \in AllSlots
      /\ Poller \in AllSlots
      /\ {"login", "verify", "confirm", "enter", "logout", "poll"} \subseteq Kinds \ {"me", "enroll"}
  BY DEF AllSlots, Kinds
<1>4. \A kind, code : Call(kind, jar, "page", code).kind = kind
  BY DEF Call
<1>5. ASSUME NEW s \in Slots, SubmitPassword(s)
      PROVE  Gated
  <2>1. /\ path = "login" /\ form.step = "PASSWORD" /\ ~form.busy /\ OfPage({"enroll"}) = {}
        /\ Send(s, "login", 0) /\ UNCHANGED <<auth, path, jar, account>>
        /\ form' = [form EXCEPT !.busy = TRUE]
    BY <1>5 DEF SubmitPassword, OnStep, Submit
  <2>2. \A r \in AllSlots : ~Awaited(calls[r])
    BY <2>1, OnStepWaits
  <2>3. Fits(Call("login", jar, "page", 0), form')
    <3>1. form'.step = "PASSWORD" /\ form'.busy
      BY <2>1, InvParts DEF FormType
    <3>2. Call("login", jar, "page", 0).kind = "login"
      BY <1>4
    <3> QED BY <3>1, <3>2 DEF Fits
  <2> QED BY <1>3, <2>1, <2>2, <2>3, SendGate DEF FormKinds
<1>6. ASSUME NEW s \in Slots, NEW code, SubmitVerifyTotp(s, code)
      PROVE  Gated
  <2>1. /\ path = "login" /\ form.step = "VERIFY_TOTP" /\ ~form.busy
        /\ Send(s, "verify", code) /\ UNCHANGED <<auth, path, jar, account>>
        /\ form' = [form EXCEPT !.busy = TRUE]
    BY <1>6 DEF SubmitVerifyTotp, OnStep, Submit
  <2>2. \A r \in AllSlots : ~Awaited(calls[r])
    BY <2>1, OnStepWaits
  <2>3. Fits(Call("verify", jar, "page", code), form')
    <3>1. form'.step = "VERIFY_TOTP" /\ form'.busy
      BY <2>1, InvParts DEF FormType
    <3>2. Call("verify", jar, "page", code).kind = "verify"
      BY <1>4
    <3> QED BY <3>1, <3>2 DEF Fits
  <2>4. account.enrolled /\ ~Showing
    BY <2>1, InvParts DEF FormInv, Showing
  <2> QED BY <1>3, <2>1, <2>2, <2>3, <2>4, SendGate DEF FormKinds
<1>7. ASSUME NEW s \in Slots, NEW code, SubmitConfirm(s, code)
      PROVE  Gated
  <2>1. /\ path = "login" /\ form.step = "ENROLL_QR" /\ ~form.busy
        /\ Send(s, "confirm", code) /\ UNCHANGED <<auth, path, jar, account>>
        /\ form' = [form EXCEPT !.busy = TRUE]
    BY <1>7 DEF SubmitConfirm, OnStep, Submit
  <2>2. \A r \in AllSlots : ~Awaited(calls[r])
    BY <2>1, OnStepWaits
  <2>3. Fits(Call("confirm", jar, "page", code), form')
    <3>1. form'.step = "ENROLL_QR" /\ form'.busy
      BY <2>1, InvParts DEF FormType
    <3>2. Call("confirm", jar, "page", code).kind = "confirm"
      BY <1>4
    <3> QED BY <3>1, <3>2 DEF Fits
  <2> QED BY <1>3, <2>1, <2>2, <2>3, SendGate DEF FormKinds
<1>8. ASSUME NEW s \in Slots, EnterConsole(s)
      PROVE  Gated
  <2>1. /\ form.step = "SHOW_RECOVERY_CODES" /\ form.saved
        /\ Send(s, "enter", 0) /\ UNCHANGED <<auth, path, form, jar, account>>
    BY <1>8 DEF EnterConsole
  <2>2. account.enrolled /\ ~Showing
    BY <2>1, InvParts DEF FormInv, Showing
  <2>3. "enter" \notin FormKinds
    BY DEF FormKinds
  <2> QED BY <1>3, <2>1, <2>2, <2>3, SendGate
<1>9. ASSUME NEW s \in Slots, Logout(s)
      PROVE  Gated
  BY <1>3, <1>9, SendGate DEF Logout, FormKinds
<1>10. CASE Poll
  BY <1>3, <1>10, SendGate DEF Poll, FormKinds
<1>11. CASE Navigate
  <2>1. /\ auth = "authenticated" /\ UNCHANGED <<auth, form, calls, account>>
    BY <1>11 DEF Navigate
  <2>2. path # "login"
    BY <2>1, InvParts DEF Guarded
  <2>3. form.step = "PASSWORD" /\ \A s \in AllSlots : ~Awaited(calls[s])
    BY <2>2 DEF AwaitInv
  <2>4. AwaitInv'
    BY <2>1, <2>3 DEF AwaitInv, Awaited
  <2>5. GateInv'
    BY <2>1 DEF GateInv, Moves, Coming, Showing
  <2> QED BY <2>3, <2>4, <2>5 DEF Gated, Kept, Showing
<1> QED BY <1>1, <1>2, <1>5, <1>6, <1>7, <1>8, <1>9, <1>10, <1>11 DEF User

\* The service, other tabs: no codes come while something moves the page, since those
\* are for an account that was not enrolled.
LEMMA ServiceGate ==
  ASSUME Inv, AwaitInv, GateInv,
         \/ \E s \in AllSlots : Handle(s) \/ Refuse(s)
         \/ Elsewhere
         \/ UNCHANGED vars
  PROVE  Gated
<1>1. UNCHANGED <<auth, path, form>>
  BY DEF Handle, Refuse, Elsewhere, vars
<1>2. Showing' <=> Showing
  BY <1>1 DEF Showing
<1>3. account.enrolled => account'.enrolled
  <2>1. [Next]_vars
    BY DEF Next
  <2> QED BY <2>1, AccountSteps
<1>4. ASSUME NEW s \in AllSlots, NEW answer, NEW code, Reply(s, answer, code),
             answer = "codes" => calls[s].kind = "confirm" /\ ~account.enrolled,
             answer = "user" => calls[s].cookie = "session"
      PROVE  Gated
  <2>1. /\ calls'[s].kind = calls[s].kind /\ calls'[s].owner = calls[s].owner
        /\ calls'[s].answer = answer /\ calls'[s].cookie = "none"
        /\ \A r \in AllSlots \ {s} : calls'[r] = calls[r]
    BY <1>4, InvParts DEF Reply, CallType
  <2>2. \A r \in AllSlots : Awaited(calls'[r]) <=> Awaited(calls[r])
    BY <2>1 DEF Awaited
  <2>3. \A r \in AllSlots : calls'[r].kind = calls[r].kind
    BY <2>1
  <2>4. AwaitInv'
    <3>1. \A r \in AllSlots : Awaited(calls[r])' <=> Awaited(calls[r])
      BY <2>2 DEF Awaited
    <3>2. \A r \in AllSlots : Fits(calls[r], form)' <=> Fits(calls[r], form)
      BY <1>1, <2>3 DEF Fits
    <3> QED BY <1>1, <3>1, <3>2 DEF AwaitInv
  <2>5. \A r \in AllSlots : Moves(calls'[r]) => Moves(calls[r])
    BY <1>4, <2>1 DEF Moves
  <2>6. CASE answer # "codes"
    <3>1. \A r \in AllSlots : Coming(calls'[r]) => Coming(calls[r])
      BY <2>1, <2>6 DEF Coming
    <3>2. GateInv'
      BY <1>2, <1>3, <2>5, <3>1, FewerMoves
    <3> QED BY <1>1, <2>4, <3>2 DEF Gated, Kept, Showing
  <2>7. CASE answer = "codes"
    <3>1. \A r \in AllSlots : ~Moves(calls'[r])
      BY <1>4, <2>5, <2>7 DEF GateInv
    <3>2. \A r \in AllSlots : Moves(calls[r])' = Moves(calls'[r])
      BY DEF Moves
    <3>3. GateInv'
      BY <3>1, <3>2 DEF GateInv
    <3> QED BY <1>1, <2>4, <3>3 DEF Gated, Kept, Showing
  <2> QED BY <2>6, <2>7
<1>5. ASSUME NEW s \in AllSlots, Handle(s) \/ Refuse(s)
      PROVE  Gated
  <2>1. CASE HandleEnroll(s)
    BY <1>4, <2>1 DEF HandleEnroll, Answer
  <2>2. CASE HandleConfirm(s)
    <3> DEFINE open    == calls[s].cookie # "none" /\ ~account.enrolled /\ account.secret > 0
               matches == calls[s].code = account.secret
               answer  == IF calls[s].cookie = "none" THEN "expired"
                          ELSE IF open /\ matches THEN "codes" ELSE "refused"
    <3>1. Reply(s, answer, 0) /\ calls[s].kind = "confirm"
      BY <2>2 DEF HandleConfirm, Answer, Waiting
    <3>2. answer # "user" /\ (answer = "codes" => ~account.enrolled)
      OBVIOUS
    <3> HIDE DEF answer
    <3> QED BY <1>4, <3>1, <3>2
  <2>3. CASE HandleLogin(s) \/ HandleVerify(s) \/ HandleMe(s) \/ HandleLogout(s) \/ HandlePoll(s)
             \/ Refuse(s)
    BY <1>4, <2>3 DEF HandleLogin, HandleVerify, HandleMe, HandleLogout, HandlePoll, Refuse, Answer
  <2> QED BY <1>5, <2>1, <2>2, <2>3 DEF Handle
<1>6. CASE calls' = calls
  <2>1. AwaitInv'
    BY <1>1, <1>6 DEF AwaitInv, Awaited, Fits
  <2>2. GateInv'
    BY <1>2, <1>3, <1>6, FewerMoves
  <2> QED BY <1>1, <2>1, <2>2 DEF Gated, Kept, Showing
<1> QED BY <1>5, <1>6 DEF Elsewhere, vars

\* An answer that nobody awaits, or no longer, changes the routes or nothing.
LEMMA MoveGate ==
  ASSUME Inv, AwaitInv, GateInv, NEW s \in AllSlots, ~Awaited(calls[s]), account' = account,
         NEW a \in {"authenticated", "unauthenticated"}, NEW p \in {path} \cup Guarded,
         Move(a, p, Freed(s)),
         a = "authenticated" \/ p # path => Moves(calls[s])
  PROVE  Gated
<1>1. calls \in [AllSlots -> CallType]
  BY InvParts
<1>2. Freed(s)[s] = Free /\ \A r \in AllSlots \ {s} : Freed(s)[r] = calls[r]
  BY <1>1 DEF Freed
<1>3. ~Awaited(Free) /\ ~Moves(Free) /\ ~Coming(Free)
  BY DEF Free, Awaited, FormKinds, Moves, Coming
<1>4. CASE form' = form /\ calls' = Freed(s) /\ path = "login" /\ path' = "login"
  <2>1. AwaitInv'
    BY <1>2, <1>3, <1>4, OneAwaited DEF Freed, AwaitInv
  <2>2. \A r \in AllSlots : /\ Moves(calls'[r]) => Moves(calls[r])
                            /\ Coming(calls'[r]) => Coming(calls[r])
    BY <1>2, <1>3, <1>4
  <2>3. Showing' <=> Showing
    BY <1>4 DEF Showing
  <2>4. GateInv'
    BY <2>2, <2>3, FewerMoves
  <2> QED BY <1>4, <2>1, <2>4 DEF Gated, Kept, Showing
<1>5. CASE form' = FreshForm /\ calls' = Orphaned(Freed(s))
           /\ ~(path = "login" /\ p = "login" /\ path' = "login")
  <2>1. ASSUME NEW r \in AllSlots
        PROVE  ~Awaited(calls'[r]) /\ (Moves(calls'[r]) => Moves(calls[r]))
    <3> DEFINE d == Freed(s)[r]
    <3>1. d \in CallType /\ (Moves(d) => Moves(calls[r]))
      BY <1>1, <1>2, <1>3, DataTypes
    <3>2. calls'[r] = IF Awaited(d) THEN [d EXCEPT !.owner = "script"] ELSE d
      BY <1>5 DEF Orphaned, Awaited
    <3> HIDE DEF d
    <3>3. CASE Awaited(d)
      <4>1. /\ calls'[r].owner = "script" /\ calls'[r].kind = d.kind
            /\ calls'[r].cookie = d.cookie /\ calls'[r].answer = d.answer
        BY <3>1, <3>2, <3>3 DEF CallType
      <4> QED BY <3>1, <3>3, <4>1 DEF Awaited, Moves
    <3> QED BY <3>1, <3>2, <3>3
  <2>2. AwaitInv' /\ GateInv'
    BY <1>5, <2>1, FreshGate DEF GateInv
  <2>3. ~Showing
    <3>1. CASE Showing
      <4>1. path = "login" /\ ~Moves(calls[s])
        BY <3>1, OnStepWaits DEF GateInv, Showing
      <4>2. a = "unauthenticated" /\ p = path
        BY <4>1
      <4>3. path' = "login"
        BY <4>2 DEF Move, Landings
      <4> QED BY <1>5, <4>1, <4>2, <4>3
    <3> QED BY <3>1
  <2> QED BY <2>2, <2>3 DEF Gated, Kept
<1> QED BY <1>4, <1>5 DEF Move

\* The answer to a call of the form: the page goes where it leads if it is awaited, and
\* waits at most for what follows from it.
LEMMA AnswerGate ==
  ASSUME Inv, AwaitInv, GateInv, NEW s \in AllSlots, UNCHANGED <<auth, path, account>>,
         NEW c, calls' = [calls EXCEPT ![s] = c], NEW f, Set(s, f),
         calls[s].kind \in FormKinds \/ f = form,
         Moves(c) => Moves(calls[s]), ~Coming(c),
         Awaited(c) => Awaited(calls[s]) /\ Fits(c, f),
         f.step = "SHOW_RECOVERY_CODES" => f = form \/ Coming(calls[s])
  PROVE  Gated
<1>1. calls'[s] = c /\ \A r \in AllSlots \ {s} : calls'[r] = calls[r]
  BY InvParts
<1>2. \A r \in AllSlots : /\ Moves(calls'[r]) => Moves(calls[r])
                          /\ Coming(calls'[r]) => Coming(calls[r])
  BY <1>1
<1>3. CASE Awaited(calls[s])
  <2>1. form' = f /\ path = "login"
    BY <1>3 DEF Set, Awaited, AwaitInv
  <2>2. \A r \in AllSlots \ {s} : ~Awaited(calls[r])
    BY <1>3 DEF AwaitInv
  <2>3. AwaitInv'
    BY <2>1, <2>2, OneAwaited
  <2>4. ~Showing
    BY <1>3, OnStepWaits DEF Showing
  <2>5. Showing' => Coming(calls[s])
    BY <2>1, <2>4 DEF Showing
  <2>6. GateInv'
    BY <1>2, <2>5, FewerMoves
  <2> QED BY <2>3, <2>4, <2>6 DEF Gated, Kept
<1>4. CASE ~Awaited(calls[s])
  <2>1. form' = form
    BY <1>4 DEF Set, Awaited
  <2>2. AwaitInv'
    BY <1>4, <2>1, OneAwaited DEF AwaitInv
  <2>3. Showing' <=> Showing
    BY <2>1 DEF Showing
  <2>4. GateInv'
    BY <1>2, <2>3, FewerMoves
  <2> QED BY <2>1, <2>2, <2>4 DEF Gated, Kept, Showing
<1> QED BY <1>3, <1>4

\* What arrives, or is lost.
LEMMA DeliverGate ==
  ASSUME Inv, AwaitInv, GateInv, NEW s \in AllSlots, Deliver(s) \/ Lose(s)
  PROVE  Gated
<1> DEFINE c == calls[s]
<1>1. c \in CallType /\ form \in FormType
  BY InvParts
<1>2. ~Moves(Free) /\ ~Coming(Free) /\ ~Awaited(Free)
  BY DEF Free, Moves, Coming, Awaited, FormKinds
<1>3. /\ FreshForm.step = "PASSWORD"
      /\ NotBusy.step = form.step /\ NotBusy.busy = FALSE
  BY <1>1, DataTypes DEF NotBusy, FormType
<1>4. \A kind, cookie, owner :
        /\ Call(kind, cookie, owner, 0).kind = kind /\ Call(kind, cookie, owner, 0).owner = owner
        /\ Call(kind, cookie, owner, 0).answer = "none"
  BY DEF Call
<1>5. Awaited(c) => Fits(c, form)
  BY DEF AwaitInv
<1>6. CASE AfterLogin(s)
  <2>1. /\ UNCHANGED <<auth, path, account>> /\ c.kind = "login"
    BY <1>6 DEF AfterLogin, Answered
  <2>2. c.owner = "page" => NotBusy.step = "PASSWORD"
    BY <1>3, <1>5, <2>1 DEF Awaited, FormKinds, Fits
  <2>3. CASE c.answer = "totp_requis"
    <3> DEFINE f == [NotBusy EXCEPT !.step = "VERIFY_TOTP"]
    <3>1. Set(s, f) /\ calls' = [calls EXCEPT ![s] = Free]
      BY <1>6, <2>3 DEF AfterLogin, Freed
    <3>2. f.step = "VERIFY_TOTP"
      BY <1>1 DEF NotBusy, FormType
    <3> HIDE DEF f
    <3> QED BY <1>2, <2>1, <3>1, <3>2, AnswerGate DEF FormKinds
  <2>4. CASE c.answer = "enrolement_requis"
    <3> DEFINE new == Call("enroll", jar', c.owner, 0)
    <3>1. Set(s, NotBusy) /\ calls' = [calls EXCEPT ![s] = new]
      BY <1>6, <2>4 DEF AfterLogin
    <3>2. new.kind = "enroll" /\ new.owner = c.owner /\ new.answer = "none"
      BY <1>4
    <3> HIDE DEF new
    <3>3. ~Moves(new) /\ ~Coming(new)
      BY <3>2 DEF Moves, Coming
    <3>4. Awaited(new) => Awaited(c) /\ Fits(new, NotBusy)
      BY <1>3, <2>1, <2>2, <3>2 DEF Awaited, FormKinds, Fits
    <3>5. CASE c.owner = "page"
      BY <2>1, <2>2, <3>1, <3>3, <3>4, <3>5, AnswerGate DEF FormKinds
    <3>6. CASE c.owner # "page"
      <4>1. Set(s, form)
        BY <3>1, <3>6 DEF Set
      <4>2. ~Awaited(new)
        BY <3>2, <3>6 DEF Awaited
      <4> QED BY <2>1, <3>1, <3>3, <4>1, <4>2, AnswerGate
    <3> QED BY <3>5, <3>6
  <2>5. CASE c.answer \notin {"totp_requis", "enrolement_requis"}
    <3>1. Set(s, NotBusy) /\ calls' = [calls EXCEPT ![s] = Free]
      BY <1>6, <2>5 DEF AfterLogin, Freed
    <3>2. CASE c.owner = "page"
      BY <1>2, <2>1, <2>2, <3>1, <3>2, AnswerGate DEF FormKinds
    <3>3. CASE c.owner # "page"
      <4>1. Set(s, form)
        BY <3>1, <3>3 DEF Set
      <4> QED BY <1>2, <2>1, <3>1, <4>1, AnswerGate
    <3> QED BY <3>2, <3>3
  <2> QED BY <2>3, <2>4, <2>5
<1>7. CASE AfterEnroll(s)
  <2> DEFINE f == IF c.answer = "uri"
                    THEN [form EXCEPT !.step = "ENROLL_QR", !.secret = c.code] ELSE form
  <2>1. /\ UNCHANGED <<auth, path, account>> /\ c.kind = "enroll"
        /\ Set(s, f) /\ calls' = [calls EXCEPT ![s] = Free]
    BY <1>7 DEF AfterEnroll, Answered, Freed
  <2>2. f = form \/ f.step = "ENROLL_QR"
    BY <1>1 DEF FormType
  <2> HIDE DEF f
  <2> QED BY <1>2, <2>1, <2>2, AnswerGate DEF FormKinds
<1>8. CASE AfterConfirm(s)
  <2> DEFINE f == CASE c.answer = "codes"   -> [NotBusy EXCEPT !.step = "SHOW_RECOVERY_CODES"]
                    [] c.answer = "expired" -> FreshForm
                    [] OTHER                -> NotBusy
  <2>1. /\ UNCHANGED <<auth, path, account>> /\ c.kind = "confirm"
        /\ Set(s, f) /\ calls' = [calls EXCEPT ![s] = Free]
    BY <1>8 DEF AfterConfirm, Answered, Freed
  <2>2. CASE c.owner = "page"
    <3>1. form.step = "ENROLL_QR"
      BY <1>5, <2>1, <2>2 DEF Awaited, FormKinds, Fits
    <3>2. f.step = "SHOW_RECOVERY_CODES" => c.answer = "codes"
      BY <1>3, <3>1
    <3>3. f.step = "SHOW_RECOVERY_CODES" => Coming(c)
      BY <2>1, <2>2, <3>2 DEF Coming
    <3> HIDE DEF f
    <3> QED BY <1>2, <2>1, <3>3, AnswerGate DEF FormKinds
  <2>3. CASE c.owner # "page"
    <3>1. Set(s, form)
      BY <2>1, <2>3 DEF Set
    <3> QED BY <1>2, <2>1, <3>1, AnswerGate
  <2> QED BY <2>2, <2>3
<1>9. CASE AfterVerify(s)
  <2> DEFINE f == IF c.answer = "expired" THEN FreshForm ELSE NotBusy
             new == IF c.answer = "ok" THEN Call("enter", jar', c.owner, 0) ELSE Free
  <2>1. /\ UNCHANGED <<auth, path, account>> /\ c.kind = "verify" /\ c.owner # "gone"
        /\ Set(s, f) /\ calls' = [calls EXCEPT ![s] = new]
    BY <1>9 DEF AfterVerify, Answered, Freed
  <2>2. Moves(c)
    BY <2>1 DEF Moves
  <2>3. ~Coming(new) /\ ~Awaited(new)
    BY <1>2, <1>4 DEF Coming, Awaited, FormKinds
  <2>4. CASE c.owner = "page"
    <3>1. form.step = "VERIFY_TOTP"
      BY <1>5, <2>1, <2>4 DEF Awaited, FormKinds, Fits
    <3>2. f.step # "SHOW_RECOVERY_CODES"
      BY <1>3, <3>1
    <3> HIDE DEF f, new
    <3> QED BY <2>1, <2>2, <2>3, <3>2, AnswerGate DEF FormKinds
  <2>5. CASE c.owner # "page"
    <3>1. Set(s, form)
      BY <2>1, <2>5 DEF Set
    <3> HIDE DEF f, new
    <3> QED BY <2>1, <2>2, <2>3, <3>1, AnswerGate
  <2> QED BY <2>4, <2>5
<1>10. c.kind \notin FormKinds => ~Awaited(c)
  BY DEF Awaited
<1>11. CASE AfterMe(s)
  <2>1. /\ Told(s) \in {"authenticated", "unauthenticated"} /\ account' = account
        /\ Told(s) = "authenticated" => c.answer = "user"
        /\ c.owner # "gone" /\ c.kind \in {"me", "enter"}
    BY <1>11 DEF AfterMe, Told, Answered
  <2>2. ~Awaited(c)
    BY <1>10, <2>1 DEF FormKinds
  <2>3. CASE c.kind = "me"
    <3>1. Move(Told(s), path, Freed(s))
      BY <1>11, <2>3 DEF AfterMe, Answered
    <3>2. Told(s) = "authenticated" => Moves(c)
      BY <2>1, <2>3 DEF Moves
    <3> QED BY <2>1, <2>2, <3>1, <3>2, MoveGate
  <2>4. CASE c.kind = "enter"
    <3>1. PICK p \in Guarded : Move(Told(s), p, Freed(s))
      BY <1>11, <2>4 DEF AfterMe, Answered
    <3>2. Moves(c)
      BY <2>1, <2>4 DEF Moves
    <3> QED BY <2>1, <2>2, <3>1, <3>2, MoveGate
  <2> QED BY <2>1, <2>3, <2>4
<1>12. CASE AfterLogout(s)
  <2>1. /\ c.kind = "logout" /\ account' = account /\ Move("unauthenticated", path, Freed(s))
    BY <1>12 DEF AfterLogout, Answered
  <2>2. ~Awaited(c)
    BY <1>10, <2>1 DEF FormKinds
  <2> QED BY <2>1, <2>2, MoveGate
<1>13. CASE AfterPoll(s)
  <2>1. c.kind = "poll" /\ account' = account
    BY <1>13 DEF AfterPoll, Answered
  <2>2. ~Awaited(c)
    BY <1>10, <2>1 DEF FormKinds
  <2>3. CASE c.answer = "401"
    <3>1. Move("unauthenticated", path, Freed(s))
      BY <1>13, <2>3 DEF AfterPoll
    <3> QED BY <2>1, <2>2, <3>1, MoveGate
  <2>4. CASE c.answer # "401"
    <3>1. calls' = [calls EXCEPT ![s] = Free] /\ UNCHANGED <<auth, path, form>>
      BY <1>13, <2>4 DEF AfterPoll, Freed
    <3>2. Set(s, form)
      BY <3>1 DEF Set
    <3> QED BY <1>2, <2>1, <3>1, <3>2, AnswerGate
  <2> QED BY <2>3, <2>4
<1>14. CASE AfterNobody(s)
  <2>1. /\ calls' = [calls EXCEPT ![s] = Free] /\ UNCHANGED <<auth, path, form, account>>
    BY <1>14 DEF AfterNobody, Freed
  <2>2. Set(s, form)
    BY <2>1 DEF Set
  <2> QED BY <1>2, <2>1, <2>2, AnswerGate
<1>15. CASE Lose(s)
  <2> DEFINE f == IF c.kind \in FormKinds \ {"enroll"} THEN [form EXCEPT !.hung = TRUE] ELSE form
             new == Abandoned(c)
  <2>1. /\ calls' = [calls EXCEPT ![s] = new] /\ Set(s, f) /\ UNCHANGED <<auth, path, account>>
    BY <1>15 DEF Lose
  <2>2. ~Moves(new) /\ ~Coming(new) /\ ~Awaited(new)
    <3>1. CASE new = Free
      BY <1>2, <3>1
    <3>2. CASE new.owner = "gone"
      BY <3>2 DEF Moves, Coming, Awaited
    <3>3. new = Free \/ new.owner = "gone"
      BY <1>1 DEF Abandoned, CallType
    <3> QED BY <3>1, <3>2, <3>3
  <2>3. f = form \/ (c.kind \in FormKinds /\ f.step = form.step)
    BY <1>1 DEF FormType
  <2> HIDE DEF f, new
  <2>4. CASE c.owner = "page" /\ c.kind \in FormKinds
    <3>1. form.step # "SHOW_RECOVERY_CODES"
      BY <1>5, <2>4 DEF Awaited, Fits, FormKinds
    <3> QED BY <2>1, <2>2, <2>3, <2>4, <3>1, AnswerGate
  <2>5. CASE ~(c.owner = "page" /\ c.kind \in FormKinds)
    <3>1. Set(s, form)
      BY <2>1, <2>3, <2>5 DEF Set
    <3> QED BY <2>1, <2>2, <3>1, AnswerGate
  <2> QED BY <2>4, <2>5
<1> QED BY <1>6, <1>7, <1>8, <1>9, <1>11, <1>12, <1>13, <1>14, <1>15 DEF Deliver

\* For a user who waits for the answer to the enrol, nothing that arrives late takes the
\* screen of the recovery codes away before the box is ticked.
THEOREM CodesStayGated == ASSUME ~Impatient PROVE Spec => CodesAreGated
<1>1. Init => AwaitInv /\ GateInv
  <2> SUFFICES ASSUME Init PROVE AwaitInv /\ GateInv
    OBVIOUS
  <2>1. form.step = "PASSWORD"
    BY DataTypes DEF Init
  <2>2. PICK s \in Slots : calls = [[r \in AllSlots |-> Free] EXCEPT ![s] = Call("me", jar, "page", 0)]
    BY DEF Init
  <2>3. \A r \in AllSlots : calls[r] \in {Free, Call("me", jar, "page", 0)}
    BY <2>2
  <2>4. \A r \in AllSlots : ~Awaited(calls[r]) /\ ~Coming(calls[r])
    BY <2>3 DEF Free, Call, Awaited, FormKinds, Coming
  <2>5. \A r \in AllSlots : Moves(calls[r]) => account.enrolled
    BY <2>3, InitInv, InvParts DEF Free, Call, Moves
  <2> QED BY <2>1, <2>4, <2>5 DEF AwaitInv, GateInv, Showing
<1>2. Inv /\ AwaitInv /\ GateInv /\ [Next]_vars => Gated
  BY UserGate, ServiceGate, DeliverGate DEF Next
<1>3. Gated => AwaitInv' /\ GateInv'
  BY DEF Gated
<1>4. Gated => [form.step = "SHOW_RECOVERY_CODES" /\ ~form.saved =>
                  form'.step = "SHOW_RECOVERY_CODES" \/ auth' = "loading"]_vars
  BY DEF Gated, Kept, Showing
<1> QED BY <1>1, <1>2, <1>3, <1>4, InvHolds, PTL DEF Spec, CodesAreGated
=============================================================================
