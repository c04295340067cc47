--------------------------- MODULE PollingProofs ---------------------------
(***************************************************************************)
(* What a page shows belongs to its address, for any number of calls that  *)
(* overlap and any set of pages.                                           *)
(***************************************************************************)
EXTENDS Polling, TLAPS

\* Without a page nothing is polled.
LEMMA NoPageIsNotPolled == NoPage \notin Polled
  BY PagesAssumption DEF Pages

\* Page and hook, call by call: a call that still has a say was sent by the page
\* on screen, and what it brings is no older than the opening of that page.
CallInv(i) ==
  calls[i].live =>
    /\ page \in Polled /\ calls[i].page = page
    /\ calls[i].status = "ok" => calls[i].version >= opened.version

PageInv ==
  /\ TypeOK
  /\ version >= opened.version
  /\ \A i \in Calls : CallInv(i)
  /\ ShownIsOfPage
  /\ NeverBlank

\* A page, once mounted, has one call of its own and owes nothing to the others.
LEMMA MountKeeps ==
  ASSUME PageInv, NEW p \in Pages, NEW others \in [Calls -> CallType], NEW state \in States,
         \A i \in Calls : ~others[i].live,
         state.loading \/ state.error # "none" \/ state.data # NoData,
         Mount(p, others, state), session' \in BOOLEAN, UNCHANGED <<service, version>>
  PROVE  PageInv'
<1>1. /\ page' = p /\ shown' = state
      /\ opened' = [version |-> version, answered |-> FALSE]
  BY DEF Mount
<1>2. Sent(p) \in CallType /\ Sent(p).page = p /\ Sent(p).status = "sent"
  BY DEF Sent, CallType
<1>3. calls' \in [Calls -> CallType] /\ \A j \in Calls : CallInv(j)'
  <2>1. CASE calls' = others
    BY <2>1 DEF CallInv
  <2>2. ASSUME p \in Polled, NEW i \in Calls, calls' = [others EXCEPT ![i] = Sent(p)]
        PROVE  calls' \in [Calls -> CallType] /\ \A j \in Calls : CallInv(j)'
    <3>1. \A j \in Calls : calls'[j] = IF j = i THEN Sent(p) ELSE others[j]
      BY <2>2
    <3> QED BY <1>1, <1>2, <2>2, <3>1 DEF CallInv
  <2> QED BY <2>1, <2>2 DEF Mount
<1>4. TypeOK'
  BY <1>1, <1>3 DEF PageInv, TypeOK
<1>5. (version >= opened.version)' /\ ShownIsOfPage'
  BY <1>1 DEF PageInv, TypeOK, ShownIsOfPage
<1>6. NeverBlank'
  BY <1>1 DEF NeverBlank, View
<1> QED BY <1>3, <1>4, <1>5, <1>6 DEF PageInv

\* Without a page nothing is shown and no call has a say.
LEMMA UnmountKeeps ==
  ASSUME PageInv, NEW others \in [Calls -> CallType], \A i \in Calls : ~others[i].live,
         Unmount(others), session' \in BOOLEAN, UNCHANGED <<service, version>>
  PROVE  PageInv'
<1>1. Fresh \in States
  BY DEF Fresh, States, Data, NoData
<1>2. TypeOK'
  BY <1>1 DEF PageInv, TypeOK, Unmount
<1> QED
  BY <1>2, NoPageIsNotPolled DEF PageInv, Unmount, CallInv, ShownIsOfPage, NeverBlank

\* The records the actions build are well typed, and cancelled calls have no say.
LEMMA Records ==
  ASSUME TypeOK
  PROVE  /\ Fresh \in States /\ NoData \in Data /\ Free \in CallType
         /\ Cancelled \in [Calls -> CallType]
         /\ \A i \in Calls : ~Cancelled[i].live
         /\ \A i \in Calls : [Cancelled EXCEPT ![i] = Free] \in [Calls -> CallType]
<1>1. Fresh \in States /\ NoData \in Data /\ Free \in CallType
  BY DEF Fresh, States, Data, NoData, Free, CallType
<1>2. \A i \in Calls : /\ [calls[i] EXCEPT !.live = FALSE] \in CallType
                       /\ ~[calls[i] EXCEPT !.live = FALSE].live
  BY DEF CallType, TypeOK
<1>3. Cancelled \in [Calls -> CallType] /\ \A i \in Calls : ~Cancelled[i].live
  BY <1>2 DEF Cancelled
<1> QED BY <1>1, <1>3

\* An answer that has a say leaves a page that is not blank and about itself.
LEMMA SettleKeeps ==
  ASSUME PageInv, NEW i \in Calls, Settle(i)
  PROVE  PageInv'
<1>1. calls' = [calls EXCEPT ![i] = Free] /\ UNCHANGED <<page, session, service, version>>
  BY DEF Settle
<1>2. calls[i] \in CallType /\ shown \in States /\ NoData \in Data
  BY Records DEF PageInv, TypeOK
<1>3. calls' \in [Calls -> CallType] /\ \A j \in Calls : j # i => calls'[j] = calls[j]
  BY <1>1, Records DEF PageInv, TypeOK
<1>4. ~calls'[i].live
  BY <1>1 DEF Free, PageInv, TypeOK
<1>5. CASE UNCHANGED <<shown, opened>>
  BY <1>1, <1>3, <1>4, <1>5 DEF PageInv, TypeOK, CallInv, ShownIsOfPage, NeverBlank, View
<1>6. ASSUME calls[i].live, NEW old \in BOOLEAN, shown' = Settled(calls[i], old),
             opened' = [opened EXCEPT !.answered = @ \/ calls[i].status = "ok"]
      PROVE  PageInv'
  <2>1. opened' \in [version : Nat, answered : BOOLEAN] /\ opened'.version = opened.version
    BY <1>6 DEF PageInv, TypeOK
  <2>2. page \in Polled /\ calls[i].page = page
    BY <1>6 DEF PageInv, CallInv
  <2>3. CASE calls[i].status = "ok"
    <3>1. shown' = [data |-> [page |-> page, version |-> calls[i].version, old |-> old],
                    loading |-> FALSE, error |-> "none", old |-> old]
      BY <1>6, <2>2, <2>3 DEF Settled
    <3>2. shown' \in States /\ shown'.data # NoData
      BY <3>1, <2>2, <1>2, NoPageIsNotPolled DEF States, Data, NoData, CallType, PageInv, TypeOK
    <3>3. calls[i].version >= opened.version
      BY <1>6, <2>3 DEF PageInv, CallInv
    <3>4. TypeOK'
      BY <1>1, <1>3, <2>1, <3>2 DEF PageInv, TypeOK
    <3>5. ShownIsOfPage'
      BY <1>1, <2>1, <3>1, <3>3 DEF ShownIsOfPage
    <3>6. NeverBlank'
      BY <3>2 DEF NeverBlank, View
    <3>7. \A j \in Calls : CallInv(j)'
      BY <1>1, <1>3, <1>4, <2>1 DEF PageInv, CallInv
    <3> QED BY <1>1, <2>1, <3>4, <3>5, <3>6, <3>7 DEF PageInv
  <2>4. CASE calls[i].status # "ok"
    <3>1. /\ shown' \in States /\ shown'.data = shown.data /\ shown'.error = "http"
      BY <1>2, <1>6, <2>4 DEF Settled, States, Data
    <3>2. opened'.answered = opened.answered
      BY <1>6, <2>4 DEF PageInv, TypeOK
    <3>3. TypeOK'
      BY <1>1, <1>3, <2>1, <3>1 DEF PageInv, TypeOK
    <3>4. ShownIsOfPage' /\ NeverBlank'
      BY <1>1, <2>1, <3>1, <3>2 DEF PageInv, ShownIsOfPage, NeverBlank, View
    <3>5. \A j \in Calls : CallInv(j)'
      BY <1>1, <1>3, <1>4, <2>1 DEF PageInv, CallInv
    <3> QED BY <1>1, <2>1, <3>3, <3>4, <3>5 DEF PageInv
  <2> QED BY <2>3, <2>4
<1> QED BY <1>5, <1>6 DEF Settle

\* A call that moves on, or one more call of the page on screen.
LEMMA CallKeeps ==
  ASSUME PageInv, NEW i \in Calls, NEW c \in CallType,
         calls' = [calls EXCEPT ![i] = c],
         c.live => /\ page \in Polled /\ c.page = page
                   /\ c.status = "ok" => c.version >= opened.version,
         UNCHANGED <<page, shown, session, service, version, opened>>
  PROVE  PageInv'
<1>1. \A j \in Calls : calls'[j] = IF j = i THEN c ELSE calls[j]
  BY DEF PageInv, TypeOK
<1>2. TypeOK'
  BY DEF PageInv, TypeOK
<1>3. \A j \in Calls : CallInv(j)'
  BY <1>1 DEF PageInv, CallInv
<1> QED
  BY <1>2, <1>3 DEF PageInv, ShownIsOfPage, NeverBlank, View

\* The invariant is inductive.
LEMMA PageStep == PageInv /\ [Next]_vars => PageInv'
<1> SUFFICES ASSUME PageInv, [Next]_vars PROVE PageInv'
  OBVIOUS
<1>0. TypeOK /\ shown \in States /\ calls \in [Calls -> CallType]
  BY DEF PageInv, TypeOK
<1>1. ASSUME NEW p \in Pages, Enter(p) PROVE PageInv'
  <2>1. \A i \in Calls : ~calls[i].live
    BY <1>1, NoPageIsNotPolled DEF Enter, PageInv, CallInv
  <2>2. Fresh \in States /\ Fresh.loading
    BY <1>0, Records DEF Fresh
  <2>3. Mount(p, calls, Fresh) /\ session' \in BOOLEAN /\ UNCHANGED <<service, version>>
    BY <1>1 DEF Enter
  <2> QED BY <1>0, <2>1, <2>2, <2>3, MountKeeps
<1>2. ASSUME NEW p \in Pages, Navigate(p) PROVE PageInv'
  <2> DEFINE kept == [shown EXCEPT !.old = shown.data.old]
  <2>1. kept \in States /\ kept.loading = shown.loading /\ kept.error = shown.error
        /\ kept.data = shown.data
    BY <1>0 DEF States, Data
  <2>2. page \in Details => shown.loading \/ shown.error # "none" \/ shown.data # NoData
    BY <1>0, <1>2 DEF Navigate, PageInv, NeverBlank, View, States, Polled
  <2>3. CASE {page, p} \subseteq Details
    BY <1>0, <1>2, <2>1, <2>2, <2>3, MountKeeps, Records DEF Navigate, PageInv, TypeOK
  <2>4. CASE ~({page, p} \subseteq Details)
    BY <1>0, <1>2, <2>4, MountKeeps, Records DEF Navigate, PageInv, TypeOK, Fresh
  <2> QED BY <2>3, <2>4
<1>3. CASE Logout
  BY <1>0, <1>3, UnmountKeeps, Records DEF Logout
<1>4. CASE Reload
  <2> DEFINE none == [i \in Calls |-> Free]
  <2>1. none \in [Calls -> CallType] /\ \A i \in Calls : ~none[i].live
    BY <1>0, Records DEF Free
  <2>2. Unmount(none) /\ session' \in BOOLEAN /\ UNCHANGED <<service, version>>
    BY <1>0, <1>4 DEF Reload, TypeOK
  <2> HIDE DEF none
  <2> QED BY <2>1, <2>2, UnmountKeeps
<1>5. CASE Poll
  <2>1. PICK i \in Calls : calls' = [calls EXCEPT ![i] = Sent(page)]
    BY <1>5 DEF Poll
  <2>2. page \in Polled /\ UNCHANGED <<page, shown, session, service, version, opened>>
    BY <1>5 DEF Poll
  <2>3. Sent(page) \in CallType /\ Sent(page).page = page /\ Sent(page).status = "sent"
    BY <1>0 DEF Sent, CallType, TypeOK
  <2> QED BY <2>1, <2>2, <2>3, CallKeeps
<1>6. ASSUME NEW i \in Calls, Settle(i) PROVE PageInv'
  BY <1>6, SettleKeeps
<1>7. ASSUME NEW i \in Calls, Expel(i) PROVE PageInv'
  <2>1. \A j \in Calls : ~[Cancelled EXCEPT ![i] = Free][j].live
    BY <1>0, Records DEF Free, Cancelled
  <2> QED BY <1>0, <1>7, <2>1, UnmountKeeps, Records DEF Expel, PageInv, TypeOK
<1>8. ASSUME NEW i \in Calls, Lose(i) PROVE PageInv'
  <2>1. Free \in CallType /\ ~Free.live
    BY <1>0, Records DEF Free
  <2> QED BY <1>8, <2>1, CallKeeps DEF Lose
<1>9. ASSUME NEW i \in Calls, Serve(i) PROVE PageInv'
  <2>1. PICK s \in {"empty", "error", "ok", "refused"} :
          calls' = [calls EXCEPT ![i].status = s, ![i].version = version]
    BY <1>9 DEF Serve
  <2> DEFINE c == [calls[i] EXCEPT !.status = s, !.version = version]
  <2>2. calls' = [calls EXCEPT ![i] = c]
    BY <1>0, <2>1
  <2>3. c \in CallType /\ c.live = calls[i].live /\ c.page = calls[i].page /\ c.version = version
    <3>1. calls[i] \in CallType /\ version \in Nat
      BY <1>0 DEF TypeOK
    <3> QED BY <3>1, <2>1 DEF CallType
  <2>4. c.live => page \in Polled /\ c.page = page /\ c.version >= opened.version
    BY <2>3 DEF PageInv, CallInv
  <2> HIDE DEF c
  <2> QED BY <1>9, <2>2, <2>3, <2>4, CallKeeps DEF Serve
<1>10. CASE Update
  BY <1>0, <1>10 DEF Update, PageInv, TypeOK, CallInv, ShownIsOfPage, NeverBlank, View
<1>11. CASE Expire
  BY <1>0, <1>11 DEF Expire, PageInv, TypeOK, CallInv, ShownIsOfPage, NeverBlank, View
<1>12. CASE ServiceChanges
  BY <1>0, <1>12 DEF ServiceChanges, PageInv, TypeOK, CallInv, ShownIsOfPage, NeverBlank, View
<1>13. CASE Age
  <2>1. /\ shown' \in States /\ shown'.loading = shown.loading /\ shown'.error = shown.error
        /\ shown'.data.page = shown.data.page /\ shown'.data.version = shown.data.version
        /\ shown'.data # NoData
    BY <1>0, <1>13 DEF Age, States, Data, NoData
  <2> QED
    BY <1>0, <1>13, <2>1 DEF Age, PageInv, TypeOK, CallInv, ShownIsOfPage, NeverBlank, View
<1>14. CASE UNCHANGED vars
  BY <1>0, <1>14 DEF vars, PageInv, TypeOK, CallInv, ShownIsOfPage, NeverBlank, View
<1> QED
  BY <1>1, <1>2, <1>3, <1>4, <1>5, <1>6, <1>7, <1>8, <1>9, <1>10, <1>11, <1>12, <1>13, <1>14
  DEF Next

\* A tab without a page satisfies the invariant.
LEMMA PageInit == Init => PageInv
<1> SUFFICES ASSUME Init PROVE PageInv
  OBVIOUS
<1>1. Fresh \in States /\ Free \in CallType /\ ~Free.live
  BY DEF Fresh, States, Data, NoData, Free, CallType
<1>2. TypeOK
  BY <1>1 DEF Init, TypeOK
<1>3. \A i \in Calls : CallInv(i)
  BY <1>1 DEF Init, CallInv
<1> QED
  BY <1>2, <1>3, NoPageIsNotPolled DEF Init, PageInv, ShownIsOfPage, NeverBlank

\* The invariant holds in every reachable state.
LEMMA PageAlways == Spec => []PageInv
BY PageInit, PageStep, PTL DEF Spec

\* The hook and its calls keep their types.
THEOREM PollingTypes == Spec => []TypeOK
<1>1. PageInv => TypeOK
  BY DEF PageInv
<1> QED BY <1>1, PageAlways, PTL

\* No late answer, of this visit or of an earlier one, passes for the data of the
\* address on screen: usePolling's cleanup is enough.
THEOREM ShownAlwaysOfPage == Spec => []ShownIsOfPage
<1>1. PageInv => ShownIsOfPage
  BY DEF PageInv
<1> QED BY <1>1, PageAlways, PTL

\* The `return null` of the pages is never reached.
THEOREM PagesNeverBlank == Spec => []NeverBlank
<1>1. PageInv => NeverBlank
  BY DEF PageInv
<1> QED BY <1>1, PageAlways, PTL
=============================================================================
