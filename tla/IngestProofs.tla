---------------------------- MODULE IngestProofs ----------------------------
(***************************************************************************)
(* Proofs about Ingest, for any number of threads, of establishments and   *)
(* of pushes.  NewestWins needs to know what a thread may assume of the    *)
(* pushes it was sent after, although its commit may come much later:      *)
(* OrderInv.                                                               *)
(***************************************************************************)
EXTENDS Queries, SequenceTheorems, FiniteSetTheorems, TLAPS

\* q and r are of the same establishment and the same type.
Alike(q, r) == q.etab = r.etab /\ q.push.type = r.push.type

\* Identifiers and times of reception are those of the past.
LogInv ==
  /\ \A r \in db.raw : r.id <= db.lastId /\ r.received_at <= clock
  /\ \A q, r \in db.raw : q.id = r.id => q = r

\* A request knows pushes that are in the log, alike, and received before it.
RequestInv ==
  \A t \in Threads :
    /\ requests[t].status = "received" =>
         /\ requests[t].received_at <= clock
         /\ \A k \in requests[t].after : \E q \in db.raw :
              q.id = k /\ Alike(q, requests[t]) /\ q.received_at <= requests[t].received_at
    /\ requests[t].status = "stored" => \E q \in db.raw : q.id = requests[t].id

\* What was surpassed has a later push of its kind in the log.
SurpassedInv ==
  \A k \in surpassed : \E q, r \in db.raw : q.id = k /\ Alike(q, r) /\ Before(q, r)

OrderInv == LogInv /\ RequestInv /\ SurpassedInv

Inv == TypeOK /\ Replayable /\ OrderInv

-----------------------------------------------------------------------------
\* What one commit does to the log and to the identifiers.
LEMMA StoredFields ==
  ASSUME TypeOK, NEW r \in RowType, db' = Stored(r)
  PROVE  /\ db'.lastId = r.id
         /\ db'.raw = db.raw \cup {r}
         /\ db'.heartbeats = db.heartbeats \cup OfType({r}, "heartbeat")
         /\ db'.sessions = db.sessions \cup OfType({r}, "live") \cup OfType({r}, "historical")
         /\ db'.incidents = db.incidents \cup OfType({r}, "incidents")
         /\ db'.reports = db.reports \cup UNION {Items(q) : q \in OfType({r}, "reports")}
         /\ db' \in [lastId : Nat, raw : SUBSET RowType, heartbeats : SUBSET RowType,
                     sessions : SUBSET RowType, incidents : SUBSET RowType,
                     reports : SUBSET ItemType]
<1>1. OfType({r}, "heartbeat") \subseteq RowType /\ OfType({r}, "live") \subseteq RowType
        /\ OfType({r}, "historical") \subseteq RowType /\ OfType({r}, "incidents") \subseteq RowType
  BY DEF OfType
<1>2. UNION {Items(q) : q \in OfType({r}, "reports")} \subseteq ItemType
  <2>1. Items(r) \subseteq ItemType
    <3>1. r.push.n \in Nat
      BY PayloadsAssumption DEF RowType, PayloadType
    <3> QED BY <3>1 DEF Items, ItemType, RowType
  <2> QED BY <2>1 DEF OfType
<1>3. r.id \in Nat
  BY DEF RowType
<1> DEFINE beats == OfType({r}, "heartbeat")
           live  == OfType({r}, "live")
           past  == OfType({r}, "historical")
           incid == OfType({r}, "incidents")
           items == UNION {Items(q) : q \in OfType({r}, "reports")}
<1>4. db' = [db EXCEPT !.lastId = r.id, !.raw = @ \cup {r}, !.heartbeats = @ \cup beats,
                       !.sessions = @ \cup live \cup past, !.incidents = @ \cup incid,
                       !.reports = @ \cup items]
  BY DEF Stored
<1> HIDE DEF beats, live, past, incid, items
<1>5. /\ db'.lastId = r.id /\ db'.raw = db.raw \cup {r}
      /\ db'.heartbeats = db.heartbeats \cup beats
      /\ db'.sessions = db.sessions \cup live \cup past
      /\ db'.incidents = db.incidents \cup incid
      /\ db'.reports = db.reports \cup items
      /\ db' = [lastId |-> db'.lastId, raw |-> db'.raw, heartbeats |-> db'.heartbeats,
                sessions |-> db'.sessions, incidents |-> db'.incidents,
                reports |-> db'.reports]
  BY <1>4 DEF TypeOK
<1> QED BY <1>1, <1>2, <1>3, <1>5 DEF TypeOK, beats, live, past, incid, items

\* The row a commit stores.
LEMMA NewRow ==
  ASSUME TypeOK, NEW t \in Threads, Commit(t)
  PROVE  LET r == Row(db.lastId + 1, requests[t])
         IN /\ r \in RowType
            /\ requests[t] \in Received
            /\ r.id = db.lastId + 1 /\ r.etab = requests[t].etab
            /\ r.push = requests[t].push /\ r.received_at = requests[t].received_at
<1>1. requests[t] \in Received
  BY DEF Commit, TypeOK, Idle, Received, Unanswered
<1>2. db.lastId \in Nat
  BY DEF TypeOK
<1> QED BY <1>1, <1>2 DEF Received, Row, RowType

-----------------------------------------------------------------------------
\* Rows, requests and identifiers keep their types, whatever the step.
LEMMA TypeStep == TypeOK /\ [Next]_vars => TypeOK'
<1> SUFFICES ASSUME TypeOK, [Next]_vars PROVE TypeOK'
  OBVIOUS
<1> USE ClockAssumption
<1>1. ASSUME NEW t \in Threads, NEW e \in Etabs, NEW p \in Payloads, Post(t, e, p)
      PROVE  TypeOK'
  <2>1. {r.id : r \in {q \in db.raw : q.id \in acked /\ q.etab = e /\ q.push.type = p.type}}
          \in SUBSET Nat
    BY DEF TypeOK, RowType
  <2>2. requests'[t] \in Received
    BY <1>1, <2>1 DEF Post, TypeOK, Received
  <2> QED BY <1>1, <2>2 DEF Post, TypeOK
<1>2. ASSUME NEW t \in Threads, Commit(t)
      PROVE  TypeOK'
  <2> DEFINE r == Row(db.lastId + 1, requests[t])
  <2>1. /\ r \in RowType
        /\ requests[t] \in Received
        /\ r.id = db.lastId + 1
    BY <1>2, NewRow
  <2>2. db' = Stored(r)
    BY <1>2 DEF Commit
  <2> HIDE DEF r
  <2>3. db' \in [lastId : Nat, raw : SUBSET RowType, heartbeats : SUBSET RowType,
                 sessions : SUBSET RowType, incidents : SUBSET RowType,
                 reports : SUBSET ItemType]
    BY <2>1, <2>2, StoredFields
  <2>4. requests' \in [Threads -> {Idle} \cup Received \cup Unanswered]
    <3>1. requests' = [requests EXCEPT ![t] = [status |-> "stored", id |-> r.id]]
      BY <1>2 DEF Commit, r
    <3>2. [status |-> "stored", id |-> r.id] \in Unanswered
      BY <2>1 DEF Unanswered, RowType
    <3> QED BY <3>1, <3>2 DEF TypeOK
  <2>5. surpassed' \in SUBSET Nat
    BY <1>2, <2>1 DEF Commit, TypeOK, Received
  <2> QED BY <1>2, <2>3, <2>4, <2>5 DEF Commit, TypeOK
<1>3. ASSUME NEW t \in Threads, CommitFails(t)
      PROVE  TypeOK'
  BY <1>3 DEF CommitFails, TypeOK
<1>4. ASSUME NEW t \in Threads, Answer(t)
      PROVE  TypeOK'
  <2>1. requests[t] \in Unanswered
    BY <1>4 DEF Answer, TypeOK, Idle, Received, Unanswered
  <2> QED BY <1>4, <2>1 DEF Answer, TypeOK, Unanswered
<1>5. CASE Restart
  BY <1>5 DEF Restart, TypeOK
<1>6. CASE Tick
  BY <1>6 DEF Tick, TypeOK
<1>7. CASE UNCHANGED vars
  BY <1>7 DEF vars, TypeOK
<1> QED BY <1>1, <1>2, <1>3, <1>4, <1>5, <1>6, <1>7 DEF Next

\* A commit writes the log and the table; no other step writes either.
LEMMA ReplayStep == Inv /\ [Next]_vars => Replayable'
<1> SUFFICES ASSUME Inv, [Next]_vars PROVE Replayable'
  OBVIOUS
<1>1. ASSUME NEW t \in Threads, Commit(t)
      PROVE  Replayable'
  <2> DEFINE r == Row(db.lastId + 1, requests[t])
  <2>1. r \in RowType /\ db' = Stored(r)
    BY <1>1, NewRow DEF Inv, Commit
  <2> HIDE DEF r
  <2>2. /\ db'.raw = db.raw \cup {r}
        /\ db'.heartbeats = db.heartbeats \cup OfType({r}, "heartbeat")
        /\ db'.sessions = db.sessions \cup OfType({r}, "live") \cup OfType({r}, "historical")
        /\ db'.incidents = db.incidents \cup OfType({r}, "incidents")
        /\ db'.reports = db.reports \cup UNION {Items(q) : q \in OfType({r}, "reports")}
    BY <2>1, StoredFields DEF Inv
  <2>3. \A type : OfType(db'.raw, type) = OfType(db.raw, type) \cup OfType({r}, type)
    BY <2>2 DEF OfType
  <2>4. UNION {Items(q) : q \in OfType(db'.raw, "reports")}
          = (UNION {Items(q) : q \in OfType(db.raw, "reports")})
              \cup UNION {Items(q) : q \in OfType({r}, "reports")}
    BY <2>3
  <2>5. acked' \subseteq {q.id : q \in db'.raw}
    BY <1>1, <2>2 DEF Commit, Inv, Replayable
  <2>6. db'.heartbeats = OfType(db'.raw, "heartbeat")
    BY <2>2, <2>3 DEF Inv, Replayable
  <2>7. db'.sessions = OfType(db'.raw, "live") \cup OfType(db'.raw, "historical")
    BY <2>2, <2>3 DEF Inv, Replayable
  <2>8. db'.incidents = OfType(db'.raw, "incidents")
    BY <2>2, <2>3 DEF Inv, Replayable
  <2>9. db'.reports = UNION {Items(q) : q \in OfType(db'.raw, "reports")}
    <3>1. db.reports = UNION {Items(q) : q \in OfType(db.raw, "reports")}
      BY DEF Inv, Replayable
    <3> QED BY <2>2, <2>4, <3>1
  <2> QED BY <2>5, <2>6, <2>7, <2>8, <2>9 DEF Replayable
<1>2. ASSUME NEW t \in Threads, Answer(t)
      PROVE  Replayable'
  <2>1. requests[t].id \in {q.id : q \in db.raw}
    BY <1>2 DEF Answer, Inv, OrderInv, RequestInv
  <2> QED BY <1>2, <2>1 DEF Answer, Inv, Replayable
<1>3. ASSUME db' = db, acked' = acked
      PROVE  Replayable'
  BY <1>3 DEF Inv, Replayable
<1> QED BY <1>1, <1>2, <1>3 DEF Next, Post, CommitFails, Restart, Tick, vars

-----------------------------------------------------------------------------
\* A row just stored comes after every push its request was sent after.
LEMMA CommitOrder ==
  ASSUME Inv, NEW t \in Threads, Commit(t)
  PROVE  OrderInv'
<1> DEFINE r == Row(db.lastId + 1, requests[t])
<1>1. /\ r \in RowType
      /\ requests[t] \in Received
      /\ r.id = db.lastId + 1 /\ r.etab = requests[t].etab
      /\ r.push = requests[t].push /\ r.received_at = requests[t].received_at
  BY NewRow DEF Inv
<1>2. db' = Stored(r) /\ requests' = [requests EXCEPT ![t] = [status |-> "stored", id |-> r.id]]
  BY DEF Commit
<1>3. surpassed' = surpassed \cup requests[t].after /\ clock' = clock
        /\ requests[t].status = "received"
  BY DEF Commit
<1> HIDE DEF r
<1>4. db'.lastId = r.id /\ db'.raw = db.raw \cup {r}
  BY <1>1, <1>2, StoredFields DEF Inv
<1>5. db.raw \subseteq RowType /\ db.lastId \in Nat
  BY DEF Inv, TypeOK
<1>6. requests[t].received_at <= clock
  BY <1>3 DEF Inv, OrderInv, RequestInv
<1>7. LogInv'
  BY <1>1, <1>3, <1>4, <1>5, <1>6 DEF Inv, OrderInv, LogInv, RowType
<1>8. RequestInv'
  <2> SUFFICES ASSUME NEW u \in Threads
               PROVE  /\ requests'[u].status = "received" =>
                           /\ requests'[u].received_at <= clock'
                           /\ \A k \in requests'[u].after : \E q \in db'.raw :
                                /\ q.id = k /\ Alike(q, requests'[u])
                                /\ q.received_at <= requests'[u].received_at
                      /\ requests'[u].status = "stored" => \E q \in db'.raw : q.id = requests'[u].id
    BY DEF RequestInv, Alike
  <2>1. CASE u = t
    BY <1>2, <1>4, <2>1 DEF Inv, TypeOK
  <2>2. CASE u # t
    <3>1. requests'[u] = requests[u]
      BY <1>2, <2>2 DEF Inv, TypeOK
    <3> QED BY <1>3, <1>4, <3>1 DEF Inv, OrderInv, RequestInv
  <2> QED BY <2>1, <2>2
<1>9. SurpassedInv'
  <2> SUFFICES ASSUME NEW k \in surpassed'
               PROVE  \E q, s \in db'.raw : q.id = k /\ Alike(q, s) /\ Before(q, s)
    BY DEF SurpassedInv, Alike, Before
  <2>1. CASE k \in surpassed
    BY <1>4, <2>1 DEF Inv, OrderInv, SurpassedInv
  <2>2. CASE k \in requests[t].after
    <3>1. PICK q \in db.raw : /\ q.id = k /\ Alike(q, requests[t])
                              /\ q.received_at <= requests[t].received_at
      BY <1>3, <2>2 DEF Inv, OrderInv, RequestInv
    <3>2. Alike(q, r)
      BY <1>1, <3>1 DEF Alike
    <3>3. Before(q, r)
      <4>1. q.id \in Nat /\ q.received_at \in Nat /\ q.id <= db.lastId
        BY <1>5 DEF RowType, Inv, OrderInv, LogInv
      <4>2. q.received_at <= r.received_at /\ r.received_at \in Nat
        BY <1>1, <3>1 DEF RowType
      <4> QED BY <1>1, <1>5, <4>1, <4>2 DEF Before
    <3> QED BY <1>4, <3>1, <3>2, <3>3
  <2> QED BY <1>3, <2>1, <2>2
<1> QED BY <1>7, <1>8, <1>9 DEF OrderInv

\* A request is sent after pushes that are in the log, and no later than now.
LEMMA PostOrder ==
  ASSUME Inv, NEW t \in Threads, NEW e \in Etabs, NEW p \in Payloads, Post(t, e, p)
  PROVE  OrderInv'
<1> DEFINE known == {r.id : r \in {q \in db.raw : q.id \in acked /\ q.etab = e /\ q.push.type = p.type}}
           new == [status |-> "received", etab |-> e, push |-> p, received_at |-> clock,
                   after |-> known]
<1>1. requests' = [requests EXCEPT ![t] = new] /\ db' = db /\ clock' = clock
        /\ surpassed' = surpassed
  BY DEF Post
<1>2. LogInv' /\ SurpassedInv'
  BY <1>1 DEF Inv, OrderInv, LogInv, SurpassedInv, Alike, Before
<1>3. \A k \in known : \E q \in db.raw :
         q.id = k /\ Alike(q, new) /\ q.received_at <= new.received_at
  BY DEF Inv, OrderInv, LogInv, Alike
<1>4. new.status = "received" /\ new.received_at <= clock /\ new.after = known
  BY DEF Inv, TypeOK
<1> HIDE DEF new, known
<1>5. RequestInv'
  <2>1. \A u \in Threads : requests'[u] = IF u = t THEN new ELSE requests[u]
    BY <1>1 DEF Inv, TypeOK
  <2>2. \A u \in Threads \ {t} : requests'[u] = requests[u]
    BY <2>1
  <2>3. requests'[t] = new
    BY <2>1
  <2> QED BY <1>1, <1>3, <1>4, <2>2, <2>3 DEF Inv, OrderInv, RequestInv, Alike
<1> QED BY <1>2, <1>5 DEF OrderInv

\* No other step adds a row or a request, and time only goes forward.
LEMMA OrderStep == Inv /\ [Next]_vars => OrderInv'
<1> SUFFICES ASSUME Inv, [Next]_vars PROVE OrderInv'
  OBVIOUS
<1>1. ASSUME NEW t \in Threads, CommitFails(t) \/ Answer(t)
      PROVE  OrderInv'
  <2>1. requests' = [requests EXCEPT ![t] = Idle] /\ UNCHANGED <<clock, db, surpassed>>
    BY <1>1 DEF CommitFails, Answer
  <2>2. \A u \in Threads : requests'[u] = Idle \/ requests'[u] = requests[u]
    BY <2>1 DEF Inv, TypeOK
  <2>3. RequestInv'
    BY <2>1, <2>2 DEF Inv, OrderInv, RequestInv, Idle, Alike
  <2> QED BY <2>1, <2>3 DEF Inv, OrderInv, LogInv, SurpassedInv, Alike, Before
<1>2. CASE Restart
  <2>1. RequestInv'
    BY <1>2 DEF Restart, RequestInv, Idle
  <2> QED BY <1>2, <2>1 DEF Restart, Inv, OrderInv, LogInv, SurpassedInv, Alike, Before
<1>3. CASE Tick
  <2>1. clock' = clock + 1 /\ clock \in Nat /\ UNCHANGED <<db, requests, surpassed>>
    BY <1>3 DEF Tick, Inv, TypeOK
  <2>2. LogInv'
    BY <2>1 DEF Inv, OrderInv, LogInv, TypeOK, RowType
  <2>3. RequestInv'
    <3>1. \A t \in Threads : requests[t].status = "received" => requests[t].received_at \in Nat
      BY DEF Inv, TypeOK, Idle, Received, Unanswered
    <3> QED BY <2>1, <3>1 DEF Inv, OrderInv, RequestInv, Alike
  <2> QED BY <2>1, <2>2, <2>3 DEF Inv, OrderInv, SurpassedInv, Alike, Before
<1>4. CASE UNCHANGED vars
  BY <1>4 DEF vars, Inv, OrderInv, LogInv, RequestInv, SurpassedInv, Alike, Before
<1> QED BY <1>1, <1>2, <1>3, <1>4, CommitOrder, PostOrder DEF Next

-----------------------------------------------------------------------------
\* The order of the log is what NewestWins asks.
LEMMA OrderGivesNewest == TypeOK /\ OrderInv => NewestWins
<1> SUFFICES ASSUME TypeOK, OrderInv,
                    NEW e \in Etabs, NEW type \in Types, NEW r \in Log(e, type),
                    IsLast(r, Log(e, type)), r.id \in surpassed
             PROVE  FALSE
  BY DEF NewestWins
<1>1. PICK q, s \in db.raw : q.id = r.id /\ Alike(q, s) /\ Before(q, s)
  BY DEF OrderInv, SurpassedInv
<1>2. q = r
  BY <1>1 DEF OrderInv, LogInv, Log
<1>3. s \in Log(e, type)
  BY <1>1, <1>2 DEF Log, Alike
<1>4. /\ r.id \in Nat /\ r.received_at \in Nat
      /\ s.id \in Nat /\ s.received_at \in Nat
  BY <1>1, <1>2 DEF TypeOK, RowType
<1>5. s # r
  BY <1>1, <1>2, <1>4 DEF Before
<1>6. Before(s, r)
  BY <1>3, <1>5 DEF IsLast
<1> QED BY <1>1, <1>2, <1>4, <1>6 DEF Before

\* Inv holds of the empty base.
LEMMA InitInv == Init => Inv
<1> USE ClockAssumption
<1> SUFFICES ASSUME Init PROVE Inv
  OBVIOUS
<1>1. TypeOK
  BY DEF Init, TypeOK
<1>2. Replayable
  BY DEF Init, Replayable, OfType
<1>3. OrderInv
  BY DEF Init, OrderInv, LogInv, RequestInv, SurpassedInv, Idle
<1> QED BY <1>1, <1>2, <1>3 DEF Inv

\* Every step keeps it.
LEMMA InvStep == Inv /\ [Next]_vars => Inv'
  BY TypeStep, ReplayStep, OrderStep DEF Inv

\* It is an invariant.
LEMMA InvHolds == Spec => []Inv
  BY InitInv, InvStep, PTL DEF Spec

\* Rows and requests keep their types, for any number of threads and of pushes.
THEOREM IngestTypes == Spec => []TypeOK
<1>1. Inv => TypeOK
  BY DEF Inv
<1> QED BY <1>1, InvHolds, PTL

\* The tables are always a replay of the log, which has all that was acknowledged.
THEOREM LogIsReplayable == Spec => []Replayable
<1>1. Inv => Replayable
  BY DEF Inv
<1> QED BY <1>1, InvHolds, PTL

\* However commits overtake each other, the last push of a kind is never one that
\* its M4 had already replaced.
THEOREM NewestAlwaysWins == Spec => []NewestWins
<1>1. Inv => NewestWins
  BY OrderGivesNewest DEF Inv
<1> QED BY <1>1, InvHolds, PTL

-----------------------------------------------------------------------------
(* For the views: what their queries for a last row give.                  *)

\* A log that has rows has a newest one.
NewestInv ==
  \A e \in Etabs, type \in Types :
    Log(e, type) # {} => \E r \in Log(e, type) : IsLast(r, Log(e, type))

\* The tables the views query are parts of the log.
LEMMA TablesAreLogs ==
  ASSUME Replayable, NEW e \in Etabs
  PROVE  /\ OfEtab(db.heartbeats, e) = Log(e, "heartbeat")
         /\ OfEtab(OfType(db.sessions, "live"), e) = Log(e, "live")
         /\ OfEtab(OfType(db.raw, "machine"), e) = Log(e, "machine")
<1>1. OfEtab(db.heartbeats, e) = Log(e, "heartbeat")
  BY DEF Replayable, OfEtab, OfType, Log
<1>2. OfEtab(OfType(db.sessions, "live"), e) = Log(e, "live")
  BY DEF Replayable, OfEtab, OfType, Log
<1>3. OfEtab(OfType(db.raw, "machine"), e) = Log(e, "machine")
  BY DEF OfEtab, OfType, Log
<1> QED BY <1>1, <1>2, <1>3

\* A step of the ingestion leaves the log alone or adds the row that is to be last
\* by identifier.
LEMMA LogGrows ==
  ASSUME Inv, [Next]_vars
  PROVE  \/ db' = db
         \/ \E r \in RowType : r.id = db.lastId + 1 /\ db'.raw = db.raw \cup {r}
<1>1. ASSUME NEW t \in Threads, Commit(t)
      PROVE  \E r \in RowType : r.id = db.lastId + 1 /\ db'.raw = db.raw \cup {r}
  <2> DEFINE r == Row(db.lastId + 1, requests[t])
  <2>1. r \in RowType /\ r.id = db.lastId + 1 /\ db' = Stored(r)
    BY <1>1, NewRow DEF Inv, Commit
  <2> HIDE DEF r
  <2>2. db'.raw = db.raw \cup {r}
    BY <2>1, StoredFields DEF Inv
  <2> QED BY <2>1, <2>2
<1> QED BY <1>1 DEF Next, Post, CommitFails, Answer, Restart, Tick, vars

\* A row with a new identifier is after the newest, or before it: there still is one.
LEMMA NewestStep ==
  ASSUME Inv, NewestInv, [Next]_vars
  PROVE  /\ NewestInv'
         /\ \A e \in Etabs, type \in Types : Log(e, type) \subseteq Log(e, type)'
<1>1. CASE db' = db
  BY <1>1 DEF NewestInv, Log, IsLast, Before
<1>2. ASSUME NEW r \in RowType, r.id = db.lastId + 1, db'.raw = db.raw \cup {r}
      PROVE  /\ NewestInv'
             /\ \A e \in Etabs, type \in Types : Log(e, type) \subseteq Log(e, type)'
  <2>1. \A e \in Etabs, type \in Types : Log(e, type) \subseteq Log(e, type)'
    BY <1>2 DEF Log
  <2>2. ASSUME NEW e \in Etabs, NEW type \in Types, Log(e, type)' # {}
        PROVE  \E s \in Log(e, type)' : IsLast(s, Log(e, type)')
    <3>1. CASE r \notin Log(e, type)'
      <4>1. Log(e, type)' = Log(e, type)
        BY <1>2, <3>1 DEF Log
      <4> QED BY <2>2, <4>1 DEF NewestInv
    <3>2. CASE r \in Log(e, type)'
      <4>1. Log(e, type)' = Log(e, type) \cup {r}
        BY <1>2, <3>2 DEF Log
      <4>2. CASE Log(e, type) = {}
        BY <4>1, <4>2 DEF IsLast
      <4>3. CASE Log(e, type) # {}
        <5>1. PICK s \in Log(e, type) : IsLast(s, Log(e, type))
          BY <4>3 DEF NewestInv
        <5>2. \A q \in Log(e, type) :
                 q.id \in Nat /\ q.received_at \in Nat /\ q.id < r.id
          BY <1>2 DEF Inv, TypeOK, OrderInv, LogInv, Log, RowType
        <5>3. r.received_at \in Nat /\ r.id \in Nat
          BY DEF RowType
        <5>4. CASE Before(s, r)
          <6>1. \A q \in Log(e, type) : q = s \/ Before(q, s)
            BY <5>1 DEF IsLast
          <6>2. \A q \in Log(e, type) : Before(q, r)
            BY <5>2, <5>3, <5>4, <6>1 DEF Before
          <6> QED BY <4>1, <6>2 DEF IsLast
        <5>5. CASE ~Before(s, r)
          <6>1. Before(r, s)
            BY <5>2, <5>3, <5>5 DEF Before
          <6> QED BY <4>1, <5>1, <6>1 DEF IsLast
        <5> QED BY <5>4, <5>5
      <4> QED BY <4>2, <4>3
    <3> QED BY <3>1, <3>2
  <2> QED BY <2>1, <2>2 DEF NewestInv
<1> QED BY <1>1, <1>2, LogGrows

-----------------------------------------------------------------------------
\* A query for the last row gives one of the log, not older than any in it.
LEMMA NewestIsLast ==
  ASSUME TypeOK, NewestInv, NEW e \in Etabs, NEW type \in Types
  PROVE  /\ Newest(Log(e, type)) \subseteq Log(e, type)
         /\ \A r \in Log(e, type) : \E q \in Newest(Log(e, type)) : ~Before(q, r)
<1>1. Newest(Log(e, type)) \subseteq Log(e, type)
  BY DEF Newest
<1>2. ASSUME NEW r \in Log(e, type)
      PROVE  \E q \in Newest(Log(e, type)) : ~Before(q, r)
  <2>1. PICK q \in Log(e, type) : IsLast(q, Log(e, type))
    BY <1>2 DEF NewestInv
  <2>2. q \in Newest(Log(e, type))
    BY <2>1 DEF Newest
  <2>3. /\ q.id \in Nat /\ q.received_at \in Nat
        /\ r.id \in Nat /\ r.received_at \in Nat
    BY <1>2 DEF TypeOK, Log, RowType
  <2>4. r = q \/ Before(r, q)
    BY <1>2, <2>1 DEF IsLast
  <2> QED BY <2>2, <2>3, <2>4 DEF Before
<1> QED BY <1>1, <1>2

-----------------------------------------------------------------------------
(* The log is finite, and so are the tables: they can be counted and summed. *)

FiniteInv == IsFiniteSet(db.raw) /\ IsFiniteSet(db.reports)

\* A push of reports has as many rows as items.
LEMMA ItemsAreFinite ==
  ASSUME NEW r \in RowType
  PROVE  IsFiniteSet(Items(r))
<1>1. r.push.n \in Nat
  BY PayloadsAssumption DEF RowType, PayloadType
<1> DEFINE f == [i \in 1..r.push.n |-> [id |-> r.id, etab |-> r.etab, push |-> r.push,
                                        received_at |-> r.received_at, item |-> i]]
<1>2. f \in Surjection(1..r.push.n, Items(r))
  BY DEF Items, Surjection
<1>3. IsFiniteSet(1..r.push.n)
  BY <1>1, FS_Interval
<1> HIDE DEF f
<1> QED BY <1>2, <1>3, FS_Surjection

\* A commit adds one row to the log, and the items of one push.
LEMMA FiniteStep ==
  ASSUME Inv, FiniteInv, [Next]_vars
  PROVE  FiniteInv'
<1>1. ASSUME NEW t \in Threads, Commit(t)
      PROVE  FiniteInv'
  <2> DEFINE r == Row(db.lastId + 1, requests[t])
             new == UNION {Items(q) : q \in OfType({r}, "reports")}
  <2>1. r \in RowType /\ db' = Stored(r)
    BY <1>1, NewRow DEF Inv, Commit
  <2> HIDE DEF r
  <2>2. db'.raw = db.raw \cup {r} /\ db'.reports = db.reports \cup new
    BY <2>1, StoredFields DEF Inv
  <2>3. IsFiniteSet(new)
    <3>1. new = IF r.push.type = "reports" THEN Items(r) ELSE {}
      BY DEF OfType
    <3> QED BY <2>1, <3>1, ItemsAreFinite, FS_EmptySet
  <2> HIDE DEF new
  <2>4. IsFiniteSet(db.raw \cup {r})
    BY FS_AddElement DEF FiniteInv
  <2>5. IsFiniteSet(db.reports \cup new)
    BY <2>3, FS_Union DEF FiniteInv
  <2> QED BY <2>2, <2>4, <2>5 DEF FiniteInv
<1>2. db' = db => FiniteInv'
  BY DEF FiniteInv
<1> QED BY <1>1, <1>2 DEF Next, Post, CommitFails, Answer, Restart, Tick, vars

\* So are the tables made from the log.
LEMMA TablesAreFinite ==
  ASSUME Replayable, FiniteInv
  PROVE  /\ IsFiniteSet(db.heartbeats) /\ db.heartbeats \subseteq db.raw
         /\ IsFiniteSet(db.sessions) /\ db.sessions \subseteq db.raw
         /\ IsFiniteSet(db.incidents) /\ db.incidents \subseteq db.raw
<1>1. \A T \in SUBSET db.raw : IsFiniteSet(T)
  BY FS_Subset DEF FiniteInv
<1>2. \A type : OfType(db.raw, type) \subseteq db.raw
  BY DEF OfType
<1> QED BY <1>1, <1>2 DEF Replayable

-----------------------------------------------------------------------------
(* Sums: Total, and the sums of series.  The fold of the library takes the *)
(* members of a set in an order nobody knows; a sum does not depend on it. *)
(* Inductions are on the smallest subset for which a fact would fail.      *)

Summable(w, S) == IsFiniteSet(S) /\ \A x \in S : w[x] \in Nat

\* The member that the fold takes first.
Some(s) == CHOOSE x \in s : TRUE

\* g gives each subset of S the sum of what w gives its members.
Sums(g, w, S) ==
  g = [s \in SUBSET S |-> IF s = {} THEN 0 ELSE w[Some(s)] + g[s \ {Some(s)}]]

SumOver(w, S) == (CHOOSE g : Sums(g, w, S))[S]

\* Among subsets of a finite set, if any, one has no other within it.
LEMMA SmallestSubset ==
  ASSUME NEW S, IsFiniteSet(S), NEW Bad \in SUBSET SUBSET S, Bad # {}
  PROVE  \E s \in Bad : \A t \in SUBSET s : t # s => t \notin Bad
<1>1. SUBSET S = FiniteSubsetsOf(S)
  BY FS_FiniteSubsetsOfFinite
<1>2. IsWellFoundedOn(StrictSubsetOrdering(S), SUBSET S)
  BY <1>1, FS_StrictSubsetOrderingWellFounded
<1>3. PICK s \in Bad : \A t \in Bad : <<t, s>> \notin StrictSubsetOrdering(S)
  BY <1>2, WFMin
<1>4. ASSUME NEW t \in SUBSET s, t # s, t \in Bad
      PROVE  FALSE
  BY <1>3, <1>4 DEF StrictSubsetOrdering
<1> QED BY <1>3, <1>4

\* Two ways to sum give the same sums to the subsets they share.
LEMMA SumsAgree ==
  ASSUME NEW S, NEW T \in SUBSET S, NEW w, Summable(w, S),
         NEW g, Sums(g, w, S), NEW h, Sums(h, w, T)
  PROVE  \A s \in SUBSET T : g[s] = h[s] /\ g[s] \in Nat
<1> DEFINE Bad == {s \in SUBSET T : ~(g[s] = h[s] /\ g[s] \in Nat)}
<1>1. SUFFICES ASSUME Bad # {} PROVE FALSE
  OBVIOUS
<1>2. PICK s \in Bad : \A t \in SUBSET s : t # s => t \notin Bad
  <2>1. IsFiniteSet(T)
    BY FS_Subset DEF Summable
  <2>2. Bad \in SUBSET SUBSET T
    OBVIOUS
  <2> HIDE DEF Bad
  <2> QED BY <1>1, <2>1, <2>2, SmallestSubset
<1>3. s \in SUBSET S /\ s \in SUBSET T /\ s # {}
  BY <1>2 DEF Sums
<1> DEFINE c == Some(s)
           t == s \ {c}
<1>4. c \in s /\ c \in S /\ t \in SUBSET s /\ t # s
  BY <1>3 DEF Some
<1>5. g[t] = h[t] /\ g[t] \in Nat
  BY <1>2, <1>4
<1>6. g[s] = w[c] + g[t] /\ h[s] = w[c] + h[t]
  BY <1>3 DEF Sums
<1>7. w[c] \in Nat
  BY <1>4 DEF Summable
<1> HIDE DEF c, t
<1>8. g[s] = h[s] /\ g[s] \in Nat
  BY <1>5, <1>6, <1>7
<1> QED BY <1>2, <1>8

\* There is a way to sum, whatever is summed.
LEMMA SumsExist ==
  ASSUME NEW S, NEW w, Summable(w, S)
  PROVE  \E g : Sums(g, w, S)
<1> DEFINE Bad == {s \in SUBSET S : ~ \E g : Sums(g, w, s)}
<1>1. SUFFICES ASSUME Bad # {} PROVE FALSE
  <2> HIDE DEF Sums
  <2> QED OBVIOUS
<1>2. PICK s \in Bad : \A t \in SUBSET s : t # s => t \notin Bad
  <2>1. Bad \in SUBSET SUBSET S /\ IsFiniteSet(S)
    BY DEF Summable
  <2> HIDE DEF Bad
  <2> QED BY <1>1, <2>1, SmallestSubset
<1>3. s \in SUBSET S
  BY <1>2
<1> DEFINE of(t) == CHOOSE g : Sums(g, w, t)
           G == [t \in SUBSET s |->
                   IF t = {} THEN 0
                   ELSE w[Some(t)] + of(t \ {Some(t)})[t \ {Some(t)}]]
<1>4. ASSUME NEW t \in SUBSET s, t # s
      PROVE  Sums(of(t), w, t) /\ Summable(w, t)
  <2>1. \E g : Sums(g, w, t)
    BY <1>2, <1>3, <1>4
  <2>2. IsFiniteSet(t)
    BY <1>3, FS_Subset DEF Summable
  <2> QED BY <1>3, <2>1, <2>2 DEF Summable
<1>5. ASSUME NEW t \in SUBSET s, t # s
      PROVE  G[t] = of(t)[t]
  <2>1. CASE t = {}
    <3>1. Sums(of(t), w, t)
      BY <1>4, <1>5
    <3>2. G[t] = 0
      BY <2>1
    <3> HIDE DEF of, G
    <3>3. of(t)[t] = 0
      BY <2>1, <3>1 DEF Sums
    <3> QED BY <3>2, <3>3
  <2>2. CASE t # {}
    <3> DEFINE u == t \ {Some(t)}
    <3>1. u \in SUBSET t /\ u \in SUBSET s /\ u # s
      BY <1>5
    <3>2. of(t)[u] = of(u)[u]
      <4>1. Sums(of(t), w, t) /\ Summable(w, t) /\ Sums(of(u), w, u)
        BY <1>4, <1>5, <3>1
      <4> HIDE DEF of, u
      <4> QED BY <3>1, <4>1, SumsAgree
    <3>3. of(t)[t] = w[Some(t)] + of(t)[u]
      <4>1. Sums(of(t), w, t)
        BY <1>4, <1>5
      <4> HIDE DEF of
      <4> QED BY <2>2, <4>1 DEF Sums
    <3>4. G[t] = w[Some(t)] + of(u)[u]
      BY <2>2
    <3> HIDE DEF of, u, G
    <3> QED BY <3>2, <3>3, <3>4
  <2> QED BY <2>1, <2>2
<1>6. ASSUME NEW t \in SUBSET s, t # {}
      PROVE  G[t] = w[Some(t)] + G[t \ {Some(t)}]
  <2> DEFINE u == t \ {Some(t)}
  <2>1. Some(t) \in t
    BY <1>6 DEF Some
  <2>2. u \in SUBSET s /\ u # s
    BY <2>1
  <2>3. G[u] = of(u)[u]
    BY <1>5, <2>2
  <2>4. G[t] = w[Some(t)] + of(u)[u]
    BY <1>6
  <2> HIDE DEF of, u, G
  <2> QED BY <2>3, <2>4 DEF u
<1>7. G[{}] = 0
  OBVIOUS
<1>8. G = [t \in SUBSET s |-> G[t]]
  OBVIOUS
<1> HIDE DEF G
<1>9. Sums(G, w, s)
  BY <1>6, <1>7, <1>8 DEF Sums
<1> QED BY <1>2, <1>9

\* A sum, by the member that is taken first.
LEMMA SumUnfolds ==
  ASSUME NEW S, NEW w, Summable(w, S)
  PROVE  /\ SumOver(w, S) \in Nat
         /\ S = {} => SumOver(w, S) = 0
         /\ S # {} => SumOver(w, S) = w[Some(S)] + SumOver(w, S \ {Some(S)})
<1> DEFINE T == S \ {Some(S)}
           g == CHOOSE f : Sums(f, w, S)
           h == CHOOSE f : Sums(f, w, T)
<1>1. Summable(w, T)
  BY FS_Subset DEF Summable
<1>2. Sums(g, w, S) /\ Sums(h, w, T)
  BY <1>1, SumsExist
<1>3. SumOver(w, S) = g[S] /\ SumOver(w, T) = h[T]
  BY DEF SumOver
<1>4. T \in SUBSET S
  OBVIOUS
<1> HIDE DEF g, h, T
<1>5. g[S] \in Nat
  BY <1>2, SumsAgree
<1>6. g[T] = h[T]
  BY <1>2, <1>4, SumsAgree
<1>7. S = {} => g[S] = 0
  BY <1>2 DEF Sums
<1>8. S # {} => g[S] = w[Some(S)] + g[T]
  BY <1>2 DEF Sums, T
<1>9. S # {} => g[S] = w[Some(S)] + h[T]
  BY <1>6, <1>8
<1> QED BY <1>3, <1>5, <1>7, <1>9 DEF T

\* Any member may be taken first.
LEMMA SumTakes ==
  ASSUME NEW S, NEW w, Summable(w, S), NEW x \in S
  PROVE  SumOver(w, S) = w[x] + SumOver(w, S \ {x})
<1> DEFINE Wrong(s, y) == SumOver(w, s) # w[y] + SumOver(w, s \ {y})
           Bad == {s \in SUBSET S : \E y \in s : Wrong(s, y)}
<1>1. SUFFICES ASSUME Bad # {} PROVE FALSE
  OBVIOUS
<1>2. PICK s \in Bad : \A t \in SUBSET s : t # s => t \notin Bad
  <2>1. Bad \in SUBSET SUBSET S /\ IsFiniteSet(S)
    BY DEF Summable
  <2> HIDE DEF Bad
  <2> QED BY <1>1, <2>1, SmallestSubset
<1>3. PICK y \in s : Wrong(s, y)
  BY <1>2
<1>4. \A t \in SUBSET s : Summable(w, t)
  BY <1>2, FS_Subset DEF Summable
<1> DEFINE c == Some(s)
<1>5. c \in s /\ SumOver(w, s) = w[c] + SumOver(w, s \ {c})
  BY <1>3, <1>4, SumUnfolds DEF Some
<1> HIDE DEF c
<1>6. c # y
  BY <1>3, <1>5
<1>7. SumOver(w, s \ {c}) = w[y] + SumOver(w, (s \ {c}) \ {y})
  <2>1. s \ {c} \in SUBSET S /\ s \ {c} \notin Bad /\ y \in s \ {c}
    BY <1>2, <1>3, <1>5, <1>6
  <2> QED BY <2>1
<1>8. SumOver(w, s \ {y}) = w[c] + SumOver(w, (s \ {y}) \ {c})
  <2>1. s \ {y} \in SUBSET S /\ s \ {y} \notin Bad /\ c \in s \ {y}
    BY <1>2, <1>3, <1>5, <1>6
  <2> QED BY <2>1
<1>9. SumOver(w, (s \ {y}) \ {c}) = SumOver(w, (s \ {c}) \ {y})
  <2>1. (s \ {c}) \ {y} = (s \ {y}) \ {c}
    OBVIOUS
  <2> QED BY <2>1
<1>10. w[c] \in Nat /\ w[y] \in Nat /\ SumOver(w, (s \ {c}) \ {y}) \in Nat
  <2>1. (s \ {c}) \ {y} \in SUBSET s
    OBVIOUS
  <2> QED BY <1>3, <1>4, <1>5, <2>1, SumUnfolds DEF Summable
<1>11. SumOver(w, s) = w[y] + SumOver(w, s \ {y})
  BY <1>5, <1>7, <1>8, <1>9, <1>10
<1> QED BY <1>3, <1>11

\* What is within a set sums to no more.
LEMMA SumGrows ==
  ASSUME NEW S, NEW w, Summable(w, S), NEW T \in SUBSET S
  PROVE  SumOver(w, T) <= SumOver(w, S)
<1> DEFINE Bad == {s \in SUBSET S : \E t \in SUBSET s : ~(SumOver(w, t) <= SumOver(w, s))}
<1>1. SUFFICES ASSUME Bad # {} PROVE FALSE
  OBVIOUS
<1>2. PICK s \in Bad : \A t \in SUBSET s : t # s => t \notin Bad
  <2>1. Bad \in SUBSET SUBSET S /\ IsFiniteSet(S)
    BY DEF Summable
  <2> HIDE DEF Bad
  <2> QED BY <1>1, <2>1, SmallestSubset
<1>3. PICK t \in SUBSET s : ~(SumOver(w, t) <= SumOver(w, s))
  BY <1>2
<1>4. \A u \in SUBSET s : Summable(w, u) /\ SumOver(w, u) \in Nat
  <2>1. \A u \in SUBSET s : Summable(w, u)
    BY <1>2, FS_Subset DEF Summable
  <2> QED BY <2>1, SumUnfolds
<1>5. t # s
  BY <1>3, <1>4
<1>6. PICK x \in s : x \notin t
  BY <1>5
<1>7. s \ {x} \in SUBSET s /\ s \ {x} # s /\ t \in SUBSET (s \ {x}) /\ s \ {x} \in SUBSET S
  BY <1>2, <1>6
<1>8. SumOver(w, t) <= SumOver(w, s \ {x})
  BY <1>2, <1>7
<1>9. SumOver(w, s) = w[x] + SumOver(w, s \ {x}) /\ w[x] \in Nat
  BY <1>4, SumTakes DEF Summable
<1>10. SumOver(w, t) <= SumOver(w, s)
  BY <1>4, <1>7, <1>8, <1>9
<1> QED BY <1>3, <1>10

\* A sum depends on what is summed, not on what w is elsewhere.
LEMMA SumsSame ==
  ASSUME NEW S, NEW w, Summable(w, S), NEW v, \A x \in S : v[x] = w[x]
  PROVE  SumOver(v, S) = SumOver(w, S)
<1> DEFINE Bad == {s \in SUBSET S : SumOver(v, s) # SumOver(w, s)}
<1>1. SUFFICES ASSUME Bad # {} PROVE FALSE
  OBVIOUS
<1>2. PICK s \in Bad : \A t \in SUBSET s : t # s => t \notin Bad
  <2>1. Bad \in SUBSET SUBSET S /\ IsFiniteSet(S)
    BY DEF Summable
  <2> HIDE DEF Bad
  <2> QED BY <1>1, <2>1, SmallestSubset
<1>3. Summable(w, s) /\ Summable(v, s)
  BY <1>2, FS_Subset DEF Summable
<1>4. s # {}
  BY <1>2, <1>3, SumUnfolds
<1> DEFINE c == Some(s)
<1>5. c \in s
  BY <1>4 DEF Some
<1>6. /\ SumOver(w, s) = w[c] + SumOver(w, s \ {c})
      /\ SumOver(v, s) = v[c] + SumOver(v, s \ {c})
  BY <1>3, <1>5, SumTakes
<1>7. SumOver(v, s \ {c}) = SumOver(w, s \ {c})
  BY <1>2, <1>5
<1>8. v[c] = w[c]
  BY <1>2, <1>5
<1> HIDE DEF c
<1>9. SumOver(v, s) = SumOver(w, s)
  BY <1>6, <1>7, <1>8
<1> QED BY <1>2, <1>9

\* Nothing but zeros sums to zero, and conversely.
LEMMA SumIsZero ==
  ASSUME NEW S, NEW w, Summable(w, S)
  PROVE  SumOver(w, S) = 0 <=> \A x \in S : w[x] = 0
<1>1. ASSUME SumOver(w, S) = 0, NEW x \in S
      PROVE  w[x] = 0
  <2>1. Summable(w, S \ {x})
    BY FS_Subset DEF Summable
  <2>2. SumOver(w, S) = w[x] + SumOver(w, S \ {x})
    BY SumTakes
  <2>3. SumOver(w, S \ {x}) \in Nat
    BY <2>1, SumUnfolds
  <2> QED BY <1>1, <2>2, <2>3 DEF Summable
<1>2. ASSUME \A x \in S : w[x] = 0
      PROVE  SumOver(w, S) = 0
  <2> DEFINE Bad == {s \in SUBSET S : SumOver(w, s) # 0}
  <2>1. SUFFICES ASSUME Bad # {} PROVE FALSE
    OBVIOUS
  <2>2. PICK s \in Bad : \A t \in SUBSET s : t # s => t \notin Bad
    <3>1. Bad \in SUBSET SUBSET S /\ IsFiniteSet(S)
      BY DEF Summable
    <3> HIDE DEF Bad
    <3> QED BY <2>1, <3>1, SmallestSubset
  <2>3. Summable(w, s) /\ s \in SUBSET S
    BY <2>2, FS_Subset DEF Summable
  <2>4. s # {}
    BY <2>2, <2>3, SumUnfolds
  <2>5. PICK c : c \in s
    BY <2>4
  <2>6. SumOver(w, s) = w[c] + SumOver(w, s \ {c})
    BY <2>3, <2>5, SumTakes
  <2>7. SumOver(w, s \ {c}) = 0 /\ w[c] = 0
    BY <1>2, <2>2, <2>3, <2>5
  <2> QED BY <2>2, <2>6, <2>7
<1> QED BY <1>1, <1>2

\* The members of s that are given i.
Given(s, key, i) == {x \in s : key[x] = i}

\* A sum may be made key by key.
LEMMA SumByKey ==
  ASSUME NEW S, NEW w, Summable(w, S), NEW I, IsFiniteSet(I),
         NEW key, \A x \in S : key[x] \in I
  PROVE  LET series == [i \in I |-> SumOver(w, Given(S, key, i))]
         IN  Summable(series, I) /\ SumOver(series, I) = SumOver(w, S)
<1> DEFINE Series(s) == [i \in I |-> SumOver(w, Given(s, key, i))]
           Bad == {s \in SUBSET S : SumOver(Series(s), I) # SumOver(w, s)}
<1>1. ASSUME NEW s \in SUBSET S
      PROVE  Summable(w, s) /\ Summable(Series(s), I)
  <2>1. Summable(w, s)
    BY FS_Subset DEF Summable
  <2>2. ASSUME NEW i \in I PROVE SumOver(w, Given(s, key, i)) \in Nat
    <3>1. Given(s, key, i) \in SUBSET S
      BY DEF Given
    <3>2. Summable(w, Given(s, key, i))
      BY <3>1, FS_Subset DEF Summable
    <3> QED BY <3>2, SumUnfolds
  <2> QED BY <2>1, <2>2 DEF Summable
<1>2. SUFFICES ASSUME Bad # {} PROVE FALSE
  BY <1>1
<1>3. PICK s \in Bad : \A t \in SUBSET s : t # s => t \notin Bad
  <2>1. Bad \in SUBSET SUBSET S /\ IsFiniteSet(S)
    BY DEF Summable
  <2> HIDE DEF Bad
  <2> QED BY <1>2, <2>1, SmallestSubset
<1>4. s # {}
  <2>1. ASSUME s = {}
        PROVE  FALSE
    <3>1. \A i \in I : Given(s, key, i) = {}
      BY <2>1 DEF Given
    <3>2. Summable(w, {}) /\ Summable(Series(s), I)
      BY <1>1, <2>1
    <3>3. SumOver(w, {}) = 0
      BY <3>2, SumUnfolds
    <3>4. \A i \in I : Series(s)[i] = 0
      BY <3>1, <3>3
    <3> HIDE DEF Series
    <3>5. SumOver(Series(s), I) = 0
      BY <3>2, <3>4, SumIsZero
    <3> QED BY <1>3, <2>1, <3>3, <3>5
  <2> QED BY <2>1
<1>5. PICK c : c \in s
  BY <1>4
<1> DEFINE t == s \ {c}
           k == key[c]
           A == Series(s)
           B == Series(t)
<1>6. t \in SUBSET S /\ s \in SUBSET S /\ k \in I /\ Summable(A, I) /\ Summable(B, I)
  BY <1>1, <1>3, <1>5
<1>7. SumOver(B, I) = SumOver(w, t)
  BY <1>3, <1>5, <1>6
<1>8. SumOver(w, s) = w[c] + SumOver(w, t)
  BY <1>1, <1>5, <1>6, SumTakes
<1>9. A[k] = w[c] + B[k]
  <2>1. c \in Given(s, key, k) /\ Given(t, key, k) = Given(s, key, k) \ {c}
    BY <1>5 DEF Given
  <2>2. Given(s, key, k) \in SUBSET S
    BY <1>6 DEF Given
  <2>3. Summable(w, Given(s, key, k))
    BY <1>1, <2>2
  <2>4. SumOver(w, Given(s, key, k)) = w[c] + SumOver(w, Given(s, key, k) \ {c})
    BY <2>1, <2>3, SumTakes
  <2>5. A[k] = SumOver(w, Given(s, key, k)) /\ B[k] = SumOver(w, Given(t, key, k))
    BY <1>6
  <2> HIDE DEF A, B, k, t
  <2> QED BY <2>1, <2>4, <2>5
<1>10. \A i \in I \ {k} : A[i] = B[i]
  <2>1. \A i \in I \ {k} : Given(t, key, i) = Given(s, key, i)
    BY DEF Given
  <2> QED BY <2>1
<1> HIDE DEF A, B, t, k
<1>11. SumOver(A, I) = A[k] + SumOver(A, I \ {k}) /\ SumOver(B, I) = B[k] + SumOver(B, I \ {k})
  BY <1>6, SumTakes
<1>12. Summable(B, I \ {k}) /\ Summable(A, I \ {k})
  BY <1>6, FS_Subset DEF Summable
<1>13. SumOver(A, I \ {k}) = SumOver(B, I \ {k})
  BY <1>10, <1>12, SumsSame
<1>14. w[c] \in Nat /\ B[k] \in Nat /\ SumOver(B, I \ {k}) \in Nat
  BY <1>3, <1>5, <1>6, <1>12, SumUnfolds DEF Summable
<1>15. SumOver(A, I) = SumOver(w, s)
  BY <1>7, <1>8, <1>9, <1>11, <1>13, <1>14
<1> QED BY <1>3, <1>15 DEF A

\* What Total adds up.
Counts == [r \in RowType |-> r.push.n]

LEMMA TotalIsSum ==
  ASSUME NEW rows \in SUBSET RowType, IsFiniteSet(rows)
  PROVE  Summable(Counts, rows) /\ Total(rows) = SumOver(Counts, rows)
<1> DEFINE Adds(g) == g = [s \in SUBSET rows |->
                             IF s = {} THEN 0 ELSE Some(s).push.n + g[s \ {Some(s)}]]
           h == CHOOSE g : Adds(g)
           g1 == CHOOSE g : Sums(g, Counts, rows)
<1>1. Total(rows) = h[rows]
  BY Zenon DEF Total, MapThenSumSet, MapThenFoldSet, Some
<1>2. Summable(Counts, rows)
  BY PayloadsAssumption DEF Summable, Counts, RowType, PayloadType
<1>3. Sums(g1, Counts, rows)
  BY <1>2, SumsExist
<1>4. \A s \in SUBSET rows : s # {} => Some(s).push.n = Counts[Some(s)]
  BY DEF Some, Counts
<1>5. \A g : [s \in SUBSET rows |-> IF s = {} THEN 0 ELSE Some(s).push.n + g[s \ {Some(s)}]]
               = [s \in SUBSET rows |-> IF s = {} THEN 0 ELSE Counts[Some(s)] + g[s \ {Some(s)}]]
  BY <1>4
<1>6. \A g : Adds(g) <=> Sums(g, Counts, rows)
  BY <1>5 DEF Sums
<1>7. Adds(h)
  <2>1. Adds(g1)
    BY <1>3, <1>6
  <2> HIDE DEF Adds
  <2> QED BY <2>1
<1>8. Sums(h, Counts, rows)
  BY <1>6, <1>7
<1> HIDE DEF h, g1
<1>9. h[rows] = g1[rows]
  BY <1>2, <1>3, <1>8, SumsAgree
<1> QED BY <1>1, <1>2, <1>9 DEF SumOver, g1

\* More rows have no smaller a total.
LEMMA TotalGrows ==
  ASSUME NEW rows \in SUBSET RowType, IsFiniteSet(rows), NEW part \in SUBSET rows
  PROVE  Total(part) \in Nat /\ Total(rows) \in Nat /\ Total(part) <= Total(rows)
<1>1. IsFiniteSet(part) /\ part \in SUBSET RowType
  BY FS_Subset
<1> QED BY <1>1, TotalIsSum, SumGrows, SumUnfolds

-----------------------------------------------------------------------------
(* The first k of a list in some order: those that fewer than k are ahead of. *)

\* <<y, x>> \in R: y is ahead of x.
Ahead(S, R, x) == {y \in S : <<y, x>> \in R}

FirstOf(S, R, k) == {x \in S : Cardinality(Ahead(S, R, x)) < k}

StrictOrder(S, R) ==
  /\ \A x \in S : <<x, x>> \notin R
  /\ \A x, y, z \in S : <<x, y>> \in R /\ <<y, z>> \in R => <<x, z>> \in R
  /\ \A x, y \in S : x # y => <<x, y>> \in R \/ <<y, x>> \in R

\* Whoever is ahead has fewer ahead.
LEMMA AheadHasFewer ==
  ASSUME NEW S, IsFiniteSet(S), NEW R, StrictOrder(S, R)
  PROVE  \A x \in S : /\ Cardinality(Ahead(S, R, x)) \in 0 .. Cardinality(S) - 1
                      /\ \A y \in Ahead(S, R, x) :
                           Cardinality(Ahead(S, R, y)) < Cardinality(Ahead(S, R, x))
<1>1. \A T \in SUBSET S : IsFiniteSet(T) /\ Cardinality(T) \in Nat
  BY FS_Subset, FS_CardinalityType
<1>2. ASSUME NEW T \in SUBSET S, NEW U \in SUBSET T, U # T
      PROVE  Cardinality(U) < Cardinality(T)
  <2>1. Cardinality(U) <= Cardinality(T) /\ Cardinality(T) # Cardinality(U)
    BY <1>1, <1>2, FS_Subset
  <2>2. Cardinality(U) \in Nat /\ Cardinality(T) \in Nat
    BY <1>1
  <2> QED BY <2>1, <2>2
<1>3. ASSUME NEW x \in S
      PROVE  Cardinality(Ahead(S, R, x)) \in 0 .. Cardinality(S) - 1
  <2>1. Ahead(S, R, x) \in SUBSET S /\ Ahead(S, R, x) # S
    BY DEF Ahead, StrictOrder
  <2>2. Cardinality(Ahead(S, R, x)) < Cardinality(S)
    BY <1>2, <2>1
  <2>3. Cardinality(Ahead(S, R, x)) \in Nat /\ Cardinality(S) \in Nat
    BY <1>1, <2>1
  <2> QED BY <2>2, <2>3
<1>4. ASSUME NEW x \in S, NEW y \in Ahead(S, R, x)
      PROVE  Cardinality(Ahead(S, R, y)) < Cardinality(Ahead(S, R, x))
  <2>1. Ahead(S, R, x) \in SUBSET S
    BY DEF Ahead
  <2>2. Ahead(S, R, y) \in SUBSET Ahead(S, R, x)
    BY DEF Ahead, StrictOrder
  <2>3. y \notin Ahead(S, R, y)
    BY DEF Ahead, StrictOrder
  <2> QED BY <1>2, <2>1, <2>2, <2>3
<1> QED BY <1>3, <1>4

\* If one is left out, the list is full, and of those ahead of it.
LEMMA FirstOnes ==
  ASSUME NEW S, IsFiniteSet(S), NEW R, StrictOrder(S, R), NEW k \in Nat,
         NEW x \in S \ FirstOf(S, R, k)
  PROVE  /\ Cardinality(FirstOf(S, R, k)) = k
         /\ \A y \in FirstOf(S, R, k) : <<y, x>> \in R
<1> DEFINE rank(y) == Cardinality(Ahead(S, R, y))
           n == Cardinality(S)
<1>1. n \in Nat
  BY FS_CardinalityType
<1>2. \A y \in S : rank(y) \in 0 .. n - 1
  BY AheadHasFewer
<1>3. \A y, z \in S : <<y, z>> \in R => rank(y) < rank(z)
  BY AheadHasFewer DEF Ahead
<1>4. FirstOf(S, R, k) = {y \in S : rank(y) < k}
  BY DEF FirstOf
<1>5. \A y, z \in S : y # z => <<y, z>> \in R \/ <<z, y>> \in R
  BY Zenon DEF StrictOrder
<1> HIDE DEF rank, n
<1>6. \A y \in S : rank(y) \in Int
  BY <1>1, <1>2
<1>7. ASSUME NEW y \in S, NEW z \in S, rank(y) = rank(z)
      PROVE  y = z
  <2>1. rank(y) \in Int /\ ~(rank(y) < rank(z)) /\ ~(rank(z) < rank(y))
    BY <1>7, <1>6
  <2>2. <<y, z>> \notin R /\ <<z, y>> \notin R
    BY <1>3, <2>1
  <2> QED BY <1>5, <2>2
<1>8. ~(rank(x) < k) /\ x \in S
  BY <1>4
<1>9. ASSUME NEW y \in FirstOf(S, R, k)
      PROVE  <<y, x>> \in R
  <2>1. y \in S /\ rank(y) < k
    BY <1>4
  <2>2. y # x /\ <<x, y>> \notin R
    BY <1>3, <1>8, <1>6, <2>1
  <2> QED BY <1>8, <1>5, <2>1, <2>2
<1>10. ASSUME NEW i \in 0 .. n - 1
      PROVE  \E y \in S : rank(y) = i
  <2> DEFINE f == [y \in S |-> rank(y)]
  <2>1. f \in Injection(S, 0 .. n - 1)
    BY <1>2, <1>7 DEF Injection, IsInjective
  <2>2. IsFiniteSet(0 .. n - 1) /\ Cardinality(0 .. n - 1) = n
    BY <1>1, FS_Interval
  <2>3. f \in Surjection(S, 0 .. n - 1)
    <3>1. Cardinality(S) = Cardinality(0 .. n - 1)
      BY <2>2 DEF n
    <3> HIDE DEF f
    <3> QED BY <2>1, <2>2, <3>1, FS_Injection
  <2> QED BY <2>3 DEF Surjection
<1>11. Cardinality(FirstOf(S, R, k)) = k
  <2> DEFINE F == FirstOf(S, R, k)
             g == [y \in F |-> rank(y)]
  <2>1. g \in Injection(F, 0 .. k - 1)
    BY <1>2, <1>7, <1>4 DEF Injection, IsInjective
  <2>2. g \in Surjection(F, 0 .. k - 1)
    <3>1. ASSUME NEW i \in 0 .. k - 1
          PROVE  \E y \in F : g[y] = i
      <4>1. i \in 0 .. n - 1
        BY <1>1, <1>2, <1>8
      <4>2. PICK y \in S : rank(y) = i
        BY <1>10, <4>1
      <4> QED BY <1>4, <4>2
    <3>2. g \in [F -> 0 .. k - 1]
      BY <2>1 DEF Injection
    <3> QED BY <3>1, <3>2 DEF Surjection
  <2>3. ExistsBijection(F, 0 .. k - 1)
    BY <2>1, <2>2 DEF ExistsBijection, Bijection
  <2>4. IsFiniteSet(F)
    BY FS_Subset DEF FirstOf
  <2>5. Cardinality(0 .. k - 1) = k
    BY FS_Interval
  <2> HIDE DEF F, g
  <2> QED BY <2>3, <2>4, <2>5, FS_Bijection DEF F
<1> QED BY <1>9, <1>11


-----------------------------------------------------------------------------
(* Series of days.                                                         *)

\* The total of each day, from the oldest to the last.
DaySeries(rows, day, last, days) ==
  [i \in 1..days |-> Total({r \in rows : day[r] = last - (days - i)})]

\* The rows of these days.
OfDays(rows, day, last, days) == {r \in rows : day[r] \in last - (days - 1) .. last}

\* A series of days adds up to the total of its days.
LEMMA DaysAddUp ==
  ASSUME NEW rows \in SUBSET RowType, IsFiniteSet(rows),
         NEW day, \A r \in rows : day[r] \in Int, NEW last \in Int, NEW days \in Nat
  PROVE  /\ Summable(DaySeries(rows, day, last, days), 1..days)
         /\ SumOver(DaySeries(rows, day, last, days), 1..days)
              = Total(OfDays(rows, day, last, days))
<1> USE DEF OfDays
<1> DEFINE S == OfDays(rows, day, last, days)
           key == [r \in S |-> day[r] - last + days]
           series == DaySeries(rows, day, last, days)
           sums == [i \in 1..days |-> SumOver(Counts, Given(S, key, i))]
<1>1. S \in SUBSET RowType /\ IsFiniteSet(S) /\ S \in SUBSET rows
  BY FS_Subset
<1>2. Summable(Counts, S) /\ Total(S) = SumOver(Counts, S)
  <2> HIDE DEF S
  <2> QED BY <1>1, TotalIsSum
<1>3. \A r \in S : key[r] \in 1..days
  OBVIOUS
<1>4. IsFiniteSet(1..days)
  BY FS_Interval
<1>5. Summable(sums, 1..days) /\ SumOver(sums, 1..days) = SumOver(Counts, S)
  <2> HIDE DEF S, key
  <2> QED BY <1>2, <1>3, <1>4, SumByKey
<1>6. ASSUME NEW i \in 1..days
      PROVE  Total({r \in rows : day[r] = last - (days - i)}) = SumOver(Counts, Given(S, key, i))
  <2>1. {r \in rows : day[r] = last - (days - i)} = Given(S, key, i)
    BY DEF Given
  <2>2. Given(S, key, i) \in SUBSET S
    BY DEF Given
  <2> HIDE DEF S, key
  <2>3. IsFiniteSet(Given(S, key, i)) /\ Given(S, key, i) \in SUBSET RowType
    BY <1>1, <2>2, FS_Subset
  <2> QED BY <2>1, <2>3, TotalIsSum
<1>7. series = sums
  BY <1>6 DEF DaySeries
<1> HIDE DEF series, sums, S
<1>8. Summable(series, 1..days) /\ SumOver(series, 1..days) = Total(S)
  BY <1>2, <1>5, <1>7
<1> QED BY <1>8 DEF series, S

\* The end of a series of counts.
LEMMA EndOfSeries ==
  ASSUME NEW s, NEW m \in Int, NEW n \in Int, \A i \in m..n : s[i] \in Nat
  PROVE  SubSeq(s, m, n) = [i \in 1..n - m + 1 |-> s[m + i - 1]]
<1>1. /\ SubSeq(s, m, n) \in Seq(Nat)
      /\ Len(SubSeq(s, m, n)) = IF m <= n THEN n - m + 1 ELSE 0
      /\ \A i \in 1 .. n - m + 1 : SubSeq(s, m, n)[i] = s[m + i - 1]
  BY SubSeqProperties
<1>2. DOMAIN SubSeq(s, m, n) = 1..n - m + 1
  BY <1>1
<1> QED BY <1>1, <1>2
=============================================================================
