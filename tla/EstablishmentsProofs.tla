------------------------ MODULE EstablishmentsProofs ------------------------
(***************************************************************************)
(* Proofs about Establishments, for any number of names, creations and     *)
(* keys.  A key that was generated is one creation's until its row is      *)
(* there, and one row's then: KeysInv.  It also bounds the identifiers,    *)
(* since each row has another key.  ListingInv follows a listing from its  *)
(* question to its answer; CountedInv makes identifiers those of one row,  *)
(* for what a deactivation promises.                                       *)
(***************************************************************************)
EXTENDS Establishments, IngestProofs, FiniteSetTheorems

\* The key of a creation that has not inserted is nobody else's.
Fresh(c) ==
  /\ creations[c].key \in 1..minted
  /\ \A s \in schools : s.key # creations[c].key
  /\ \A d \in Creators \ {c} :
       creations[d].step = "insert" => creations[d].key # creations[c].key

\* There is a row with this name and this key.
Opened(x) == \E s \in schools : s.name = x.name /\ s.key = x.key

KeysInv ==
  /\ \A s \in schools : s.key <= minted
  /\ \A s, q \in schools : s.name = q.name \/ s.key = q.key => s = q
  /\ \A c \in Creators : /\ creations[c].step = "insert" => Fresh(c)
                         /\ creations[c].step = "created" => Opened(creations[c])
  /\ \A h \in held : Opened(h)

\* Some M4 has the key of e.
Heard(e) == \E s \in schools : s.id = e /\ \E h \in held : h.key = s.key

\* What is stored, or about to be.
Senders ==
  {r.etab : r \in db.raw} \cup
  {requests[t].etab : t \in {u \in Threads : requests[u].status = "received"}}

RegistryInv == Inv /\ RegistryTypeOK /\ KeysInv /\ OnlyHoldersPush

allVars == <<vars, keyVars>>

-----------------------------------------------------------------------------
\* A step of this module is a step of Ingest, or leaves it alone.
LEMMA RegistryIngests ==
  ASSUME RegistryTypeOK, [RegistryNext]_allVars
  PROVE  [Next]_vars
<1>1. ASSUME NEW t \in Threads, NEW h \in held, NEW p \in Payloads, Push(t, h, p)
      PROVE  Next
  BY <1>1 DEF Push, Authenticated, RegistryTypeOK, School, Next
<1> QED BY <1>1 DEF RegistryNext, Pushes, RestartAll, Next, allVars

\* There is an identifier for the row that a creation inserts.
LEMMA RoomForOne ==
  ASSUME RegistryTypeOK, KeysInv, NEW c \in Creators, creations[c].step = "insert"
  PROVE  NextId \in Etabs
<1> DEFINE others == (1..minted) \ {creations[c].key}
           keyOf  == [s \in schools |-> s.key]
<1>1. minted \in Nat /\ minted <= MaxKeys /\ MaxKeys \in Nat
  BY KeysAssumption DEF RegistryTypeOK
<1>2. creations[c].key \in 1..minted
  BY DEF KeysInv, Fresh
<1>3. IsFiniteSet(1..minted) /\ Cardinality(1..minted) = minted
  <2>1. ~(1 > minted) /\ minted - 1 + 1 = minted /\ 1 \in Int /\ minted \in Int
    BY <1>1, <1>2
  <2>2. /\ IsFiniteSet(1..minted)
        /\ Cardinality(1..minted) = IF 1 > minted THEN 0 ELSE minted - 1 + 1
    BY <2>1, FS_Interval
  <2> QED BY <2>1, <2>2
<1>4. IsFiniteSet(others) /\ Cardinality(others) = minted - 1
  BY <1>2, <1>3, FS_RemoveElement
<1>5. keyOf \in [schools -> others]
  <2>1. \A s \in schools : s.key \in others
    BY <1>1 DEF KeysInv, Fresh, RegistryTypeOK, School
  <2> QED BY <2>1
<1>6. \A s, q \in schools : keyOf[s] = keyOf[q] => s = q
  BY DEF KeysInv
<1>7. keyOf \in Injection(schools, others)
  BY <1>5, <1>6 DEF Injection, IsInjective
<1> HIDE DEF others, keyOf
<1>8. IsFiniteSet(schools) /\ Cardinality(schools) <= Cardinality(others)
  BY <1>4, <1>7, FS_Injection
<1>9. Cardinality(schools) \in Nat
  BY <1>8, FS_CardinalityType
<1> QED BY <1>1, <1>4, <1>8, <1>9, EtabsAssumption DEF NextId

-----------------------------------------------------------------------------
\* What a step may not do: take a row or a key away.
Keeps ==
  /\ \A s \in schools : \E q \in schools' : q.id = s.id /\ q.name = s.name /\ q.key = s.key
  /\ held \subseteq held'

\* Nothing that was heard falls silent for that; what is new must be heard.
LEMMA HoldersStay ==
  ASSUME OnlyHoldersPush, Keeps, NEW e \in Senders
  PROVE  Heard(e)'
<1>1. PICK s \in schools : s.id = e /\ \E h \in held : h.key = s.key
  BY DEF OnlyHoldersPush, Senders
<1>2. PICK q \in schools' : q.id = s.id /\ q.key = s.key
  BY DEF Keeps
<1> QED BY <1>1, <1>2 DEF Heard, Keeps

\* The steps of Ingest after a push was let in have no new sender.
LEMMA SendersStay ==
  ASSUME TypeOK, \/ \E t \in Threads : Commit(t) \/ CommitFails(t) \/ Answer(t)
                 \/ Tick \/ Restart \/ UNCHANGED vars
  PROVE  Senders' \subseteq Senders
<1>1. ASSUME NEW t \in Threads, Commit(t)
      PROVE  Senders' \subseteq Senders
  <2> DEFINE r == Row(db.lastId + 1, requests[t])
  <2>1. r \in RowType /\ r.etab = requests[t].etab /\ db' = Stored(r)
    BY <1>1, NewRow DEF Commit
  <2> HIDE DEF r
  <2>2. db'.raw = db.raw \cup {r}
    BY <2>1, StoredFields
  <2>3. \A u \in Threads : requests'[u].status = "received" => requests'[u] = requests[u]
    BY <1>1 DEF Commit, TypeOK
  <2> QED BY <1>1, <2>1, <2>2, <2>3 DEF Senders, Commit
<1>2. ASSUME NEW t \in Threads, CommitFails(t) \/ Answer(t)
      PROVE  Senders' \subseteq Senders
  <2>1. \A u \in Threads : requests'[u].status = "received" => requests'[u] = requests[u]
    BY <1>2 DEF CommitFails, Answer, TypeOK, Idle
  <2> QED BY <1>2, <2>1 DEF Senders, CommitFails, Answer
<1>3. CASE Restart
  BY <1>3 DEF Restart, Senders, Idle
<1>4. CASE Tick \/ UNCHANGED vars
  BY <1>4 DEF Tick, vars, Senders
<1> QED BY <1>1, <1>2, <1>3, <1>4

\* The types of what this module adds.
RegistryTypes ==
  /\ schools \subseteq School
  /\ creations \in [Creators -> {NoCreation} \cup
       [step : {"insert", "created", "refused"}, name : Names, key : 0..MaxKeys]]
  /\ minted \in 0..MaxKeys
  /\ held \subseteq [name : Names, key : 1..MaxKeys]
  /\ listing \in {NoListing} \cup [step : {"query", "answered"}, etab : Etabs,
                                   rows : SUBSET RowType, acked : SUBSET RowType]

\* A creation begins: its key is greater than all those there are.
LEMMA CreateKeeps ==
  ASSUME RegistryTypeOK, KeysInv, NEW c \in Creators, NEW name \in Names, Create(c, name)
  PROVE  RegistryTypes' /\ KeysInv' /\ Keeps
<1>1. /\ minted' \in 0..MaxKeys /\ minted <= minted' /\ minted \in Nat
      /\ ~Taken(name) => minted' \in 1..MaxKeys /\ minted < minted'
  BY KeysAssumption DEF Create, RegistryTypeOK
<1>2. /\ schools' = schools /\ held' = held /\ listing' = listing
      /\ creations' = [creations EXCEPT ![c] =
           [step |-> IF Taken(name) THEN "refused" ELSE "insert", name |-> name,
            key |-> IF Taken(name) THEN 0 ELSE minted']]
      /\ Taken(name) => minted' = minted
  BY DEF Create
<1>3. creations'[c] = [step |-> IF Taken(name) THEN "refused" ELSE "insert", name |-> name,
                       key |-> IF Taken(name) THEN 0 ELSE minted']
  BY <1>2 DEF RegistryTypeOK
<1>4. \A d \in Creators \ {c} : creations'[d] = creations[d]
  BY <1>2 DEF RegistryTypeOK
<1>5. RegistryTypes'
  <2>1. (IF Taken(name) THEN 0 ELSE minted') \in 0..MaxKeys
    BY <1>1, KeysAssumption
  <2>2. creations' \in [Creators -> {NoCreation} \cup
          [step : {"insert", "created", "refused"}, name : Names, key : 0..MaxKeys]]
    BY <1>2, <2>1 DEF RegistryTypeOK
  <2> QED BY <1>1, <1>2, <2>2 DEF RegistryTypes, RegistryTypeOK
<1>6. \A s \in schools : s.key <= minted /\ s.key \in Nat
  BY DEF KeysInv, RegistryTypeOK, School
<1>7. \A d \in Creators : creations[d].step = "insert" => creations[d].key \in 1..minted
  BY DEF KeysInv, Fresh
<1>8. ASSUME NEW d \in Creators, creations'[d].step = "insert"
      PROVE  Fresh(d)'
  <2>1. CASE d = c
    BY <1>1, <1>2, <1>3, <1>4, <1>6, <1>7, <1>8, <2>1 DEF Fresh
  <2>2. CASE d # c
    <3>1. Fresh(d) /\ creations'[d] = creations[d]
      BY <1>4, <1>8, <2>2 DEF KeysInv
    <3>2. creations'[c].step = "insert" => creations'[c].key # creations[d].key
      BY <1>1, <1>3, <3>1 DEF Fresh
    <3> QED BY <1>1, <1>2, <1>4, <3>1, <3>2 DEF Fresh
  <2> QED BY <2>1, <2>2
<1>9. \A d \in Creators : creations'[d].step = "created" => Opened(creations[d])'
  BY <1>2, <1>3, <1>4 DEF KeysInv, Opened
<1>10. KeysInv'
  <2>1. \A s \in schools' : s.key <= minted'
    BY <1>1, <1>2, <1>6
  <2> QED BY <1>2, <1>8, <1>9, <2>1 DEF KeysInv, Opened
<1> QED BY <1>2, <1>5, <1>10 DEF Keeps

\* A creation goes from one step to the next without a row: its key is not given again.
LEMMA MoveKeeps ==
  ASSUME RegistryTypeOK, KeysInv, NEW c \in Creators, NEW step \in {"refused", "none"},
         creations' = [creations EXCEPT ![c] =
                         IF step = "none" THEN NoCreation ELSE [@ EXCEPT !.step = step]],
         creations[c] # NoCreation,
         held \subseteq held', held' \subseteq [name : Names, key : 1..MaxKeys],
         \A h \in held' : Opened(h),
         UNCHANGED <<schools, minted, listing>>
  PROVE  RegistryTypes' /\ KeysInv' /\ Keeps
<1>1. creations[c] \in [step : {"insert", "created", "refused"}, name : Names,
                        key : 0..MaxKeys]
  BY DEF RegistryTypeOK
<1>2. creations' \in [Creators -> {NoCreation} \cup
        [step : {"insert", "created", "refused"}, name : Names, key : 0..MaxKeys]]
  BY <1>1 DEF RegistryTypeOK
<1>3. \A d \in Creators : creations'[d].step \in {"insert", "created"} =>
        creations'[d] = creations[d]
  BY <1>1 DEF RegistryTypeOK, NoCreation
<1>4. \A d \in Creators : creations'[d].step = "insert" => Fresh(d)'
  BY <1>3 DEF KeysInv, Fresh
<1>5. \A d \in Creators : creations'[d].step = "created" => Opened(creations[d])'
  BY <1>3 DEF KeysInv, Opened
<1>6. KeysInv'
  BY <1>4, <1>5 DEF KeysInv, Opened
<1> QED BY <1>2, <1>6 DEF RegistryTypes, RegistryTypeOK, Keeps

\* The row of a creation is the only one with its name and with its key.
LEMMA InsertKeeps ==
  ASSUME RegistryTypeOK, KeysInv, NEW c \in Creators, Insert(c)
  PROVE  RegistryTypes' /\ KeysInv' /\ Keeps
<1> DEFINE row == Inserted(c)
<1>1. /\ creations[c].step = "insert" /\ Fresh(c)
      /\ creations[c] \in [step : {"insert", "created", "refused"}, name : Names,
                           key : 0..MaxKeys]
  BY DEF Insert, KeysInv, RegistryTypeOK, NoCreation
<1>2. CASE Taken(creations[c].name)
  <2>1. creations' = [creations EXCEPT ![c] = [@ EXCEPT !.step = "refused"]]
    BY <1>2 DEF Insert
  <2>2. schools' = schools /\ UNCHANGED <<minted, held, listing>>
    BY <1>2 DEF Insert
  <2>3. \A h \in held' : Opened(h)
    BY <2>2 DEF KeysInv
  <2>4. held' \subseteq [name : Names, key : 1..MaxKeys] /\ creations[c] # NoCreation
    BY <1>1, <2>2 DEF RegistryTypeOK, NoCreation
  <2> QED BY <2>1, <2>2, <2>3, <2>4, MoveKeeps
<1>3. CASE ~Taken(creations[c].name)
  <2>1. /\ schools' = schools \cup {row}
        /\ creations' = [creations EXCEPT ![c] = [@ EXCEPT !.step = "created"]]
        /\ UNCHANGED <<minted, held, listing>>
    BY <1>3 DEF Insert
  <2>2. /\ row.id \in Etabs /\ row.name = creations[c].name /\ row.key = creations[c].key
        /\ row.key \in 1..minted /\ row \in School
    <3>1. NextId \in Etabs
      BY <1>1, RoomForOne
    <3>2. creations[c].key \in 1..minted /\ minted <= MaxKeys /\ minted \in Nat
      BY <1>1 DEF Fresh, RegistryTypeOK
    <3> QED BY <1>1, <3>1, <3>2, KeysAssumption DEF Inserted, School
  <2>3. \A s \in schools : s.name # row.name /\ s.key # row.key
    BY <1>1, <1>3, <2>2 DEF Taken, Fresh
  <2> HIDE DEF row
  <2>4. /\ creations'[c].step = "created" /\ creations'[c].name = row.name
        /\ creations'[c].key = row.key
        /\ \A d \in Creators \ {c} : creations'[d] = creations[d]
    BY <1>1, <2>1, <2>2 DEF RegistryTypeOK
  <2>5. RegistryTypes'
    <3>1. creations' \in [Creators -> {NoCreation} \cup
            [step : {"insert", "created", "refused"}, name : Names, key : 0..MaxKeys]]
      BY <1>1, <2>1 DEF RegistryTypeOK
    <3> QED BY <2>1, <2>2, <3>1 DEF RegistryTypes, RegistryTypeOK, School
  <2>6. ASSUME NEW d \in Creators, creations'[d].step = "insert"
        PROVE  Fresh(d)'
    <3>1. d # c /\ creations[d].step = "insert" /\ creations'[d] = creations[d]
      BY <2>4, <2>6
    <3>2. Fresh(d) /\ creations[d].key # row.key
      BY <1>1, <2>2, <3>1 DEF KeysInv, Fresh
    <3> QED BY <2>1, <2>4, <3>1, <3>2 DEF Fresh
  <2>7. \A d \in Creators : creations'[d].step = "created" => Opened(creations[d])'
    BY <2>1, <2>4 DEF KeysInv, Opened
  <2>8. KeysInv'
    <3>1. \A s \in schools' : s.key <= minted'
      BY <2>1, <2>2 DEF KeysInv, RegistryTypeOK
    <3>2. \A s, q \in schools' : s.name = q.name \/ s.key = q.key => s = q
      BY <2>1, <2>3 DEF KeysInv
    <3>3. \A h \in held' : Opened(h)'
      BY <2>1 DEF KeysInv, Opened
    <3> QED BY <2>6, <2>7, <3>1, <3>2, <3>3 DEF KeysInv
  <2> QED BY <2>1, <2>5, <2>8 DEF Keeps
<1> QED BY <1>2, <1>3

\* What does not insert, and the answer: a key that leaves is that of a row.
LEMMA RefusalKeeps ==
  ASSUME RegistryTypeOK, KeysInv, NEW c \in Creators, InsertFails(c) \/ Reply(c)
  PROVE  RegistryTypes' /\ KeysInv' /\ Keeps
<1>1. /\ creations[c] # NoCreation
      /\ creations[c] \in [step : {"insert", "created", "refused"}, name : Names,
                           key : 0..MaxKeys]
  BY DEF InsertFails, Reply, NoCreation, RegistryTypeOK
<1>2. CASE InsertFails(c)
  <2>1. /\ creations' = [creations EXCEPT ![c] = [@ EXCEPT !.step = "refused"]]
        /\ held' = held /\ UNCHANGED <<schools, minted, listing>>
    BY <1>2 DEF InsertFails
  <2> QED BY <1>1, <2>1, MoveKeeps DEF RegistryTypeOK, KeysInv
<1>3. CASE Reply(c)
  <2>1. /\ creations' = [creations EXCEPT ![c] = NoCreation]
        /\ UNCHANGED <<schools, minted, listing>>
    BY <1>3 DEF Reply
  <2>2. held \subseteq held'
    BY <1>3 DEF Reply
  <2>3. ASSUME NEW h \in held'
        PROVE  h \in [name : Names, key : 1..MaxKeys] /\ Opened(h)
    <3>1. CASE h \in held
      BY <3>1 DEF RegistryTypeOK, KeysInv
    <3>2. CASE h \notin held
      <4>1. creations[c].step = "created"
            /\ h = [name |-> creations[c].name, key |-> creations[c].key]
        BY <1>3, <2>3, <3>2 DEF Reply
      <4>2. PICK s \in schools : s.name = h.name /\ s.key = h.key
        BY <4>1 DEF KeysInv, Opened
      <4>3. s.key \in 1..MaxKeys
        BY DEF RegistryTypeOK, School
      <4> QED BY <1>1, <4>1, <4>2, <4>3 DEF Opened
    <3> QED BY <3>1, <3>2
  <2> QED BY <1>1, <2>1, <2>2, <2>3, MoveKeeps
<1> QED BY <1>2, <1>3

\* A row that is deactivated keeps its name and its key.
LEMMA DeactivateKeeps ==
  ASSUME RegistryTypeOK, KeysInv, NEW s \in schools, Deactivate(s)
  PROVE  RegistryTypes' /\ KeysInv' /\ Keeps
<1> DEFINE row == [s EXCEPT !.active = FALSE]
<1>1. /\ row \in School /\ row.id = s.id /\ row.name = s.name /\ row.key = s.key
      /\ schools' = (schools \ {s}) \cup {row}
      /\ UNCHANGED <<creations, minted, held, listing>>
  BY DEF Deactivate, RegistryTypeOK, School
<1> HIDE DEF row
<1>2. RegistryTypes'
  BY <1>1 DEF RegistryTypes, RegistryTypeOK
<1>3. \A x : Opened(x) => Opened(x)'
  BY <1>1 DEF Opened
<1>4. \A q \in schools' : \E o \in schools : q.name = o.name /\ q.key = o.key
  BY <1>1
<1>5. \A p, q \in schools' : p.name = q.name \/ p.key = q.key => p = q
  BY <1>1 DEF KeysInv
<1>6. \A c \in Creators : Fresh(c) => Fresh(c)'
  BY <1>1, <1>4 DEF Fresh
<1>7. KeysInv'
  BY <1>1, <1>3, <1>4, <1>5, <1>6 DEF KeysInv
<1>8. Keeps
  BY <1>1 DEF Keeps
<1> QED BY <1>2, <1>7, <1>8

\* A listing is of one of the rows.
LEMMA ListingKeeps ==
  ASSUME RegistryTypeOK, KeysInv,
         \/ \E h \in held, id \in Etabs : List(h, id)
         \/ AnswerList
  PROVE  RegistryTypes' /\ KeysInv' /\ Keeps
<1>1. UNCHANGED <<schools, creations, minted, held>>
  BY DEF List, AnswerList
<1>2. db.heartbeats \subseteq RowType
  BY DEF RegistryTypeOK, TypeOK
<1>3. listing' \in [step : {"query", "answered"}, etab : Etabs,
                    rows : SUBSET RowType, acked : SUBSET RowType]
  <2>1. ASSUME NEW h \in held, NEW id \in Etabs, List(h, id)
        PROVE  listing' \in [step : {"query", "answered"}, etab : Etabs,
                             rows : SUBSET RowType, acked : SUBSET RowType]
    <3>1. {r \in OfEtab(db.heartbeats, id) : r.id \in acked} \in SUBSET RowType
      BY <1>2 DEF OfEtab
    <3> QED BY <2>1, <3>1 DEF List
  <2>2. CASE AnswerList
    <3>1. First(OfEtab(db.heartbeats, listing.etab)) \in SUBSET RowType
      BY <1>2 DEF OfEtab, First
    <3>2. listing \in [step : {"query", "answered"}, etab : Etabs,
                       rows : SUBSET RowType, acked : SUBSET RowType]
      BY <2>2 DEF AnswerList, RegistryTypeOK, NoListing
    <3> QED BY <2>2, <3>1, <3>2 DEF AnswerList
  <2> QED BY <2>1, <2>2
<1>4. RegistryTypes'
  BY <1>1, <1>3 DEF RegistryTypes, RegistryTypeOK
<1>5. KeysInv'
  BY <1>1 DEF KeysInv, Fresh, Opened
<1> QED BY <1>1, <1>4, <1>5 DEF Keeps

\* A push, or nothing of this module.
LEMMA OutsideKeeps ==
  ASSUME RegistryTypeOK, KeysInv, UNCHANGED keyVars
  PROVE  RegistryTypes' /\ KeysInv' /\ Keeps
<1>1. UNCHANGED <<schools, creations, minted, held, listing>>
  BY DEF keyVars
<1>2. RegistryTypes'
  BY <1>1 DEF RegistryTypes, RegistryTypeOK
<1>3. KeysInv'
  BY <1>1 DEF KeysInv, Fresh, Opened
<1> QED BY <1>1, <1>2, <1>3 DEF Keeps

\* A restart forgets the creations: their keys are not given again.
LEMMA RestartKeeps ==
  ASSUME RegistryTypeOK, KeysInv, RestartAll
  PROVE  RegistryTypes' /\ KeysInv' /\ Keeps
<1>1. /\ UNCHANGED <<schools, minted, held>>
      /\ creations' = [c \in Creators |-> NoCreation]
      /\ listing' \in {listing, NoListing}
  BY DEF RestartAll
<1>2. RegistryTypes'
  BY <1>1 DEF RegistryTypes, RegistryTypeOK
<1>3. KeysInv'
  BY <1>1 DEF KeysInv, Opened, NoCreation
<1> QED BY <1>1, <1>2, <1>3 DEF Keeps

-----------------------------------------------------------------------------
\* A push is let in by a key that someone has.
LEMMA PushIsHeard ==
  ASSUME RegistryTypeOK, OnlyHoldersPush, UNCHANGED keyVars, Keeps,
         NEW t \in Threads, NEW h \in held, NEW p \in Payloads, Push(t, h, p)
  PROVE  OnlyHoldersPush'
<1>1. PICK s \in Authenticated(h.key) : Post(t, s.id, p)
  BY DEF Push
<1>2. s \in schools /\ s.key = h.key
  BY DEF Authenticated
<1>3. Heard(s.id)'
  BY <1>2 DEF Heard, keyVars
<1>4. /\ db' = db
      /\ requests'[t].etab = s.id
      /\ \A u \in Threads \ {t} : requests'[u] = requests[u]
  BY <1>1 DEF Post, RegistryTypeOK, TypeOK
<1>5. Senders' \subseteq Senders \cup {s.id}
  BY <1>4 DEF Senders
<1>6. \A e \in Senders' : Heard(e)'
  BY <1>3, <1>5, HoldersStay
<1> QED BY <1>6 DEF OnlyHoldersPush, Senders, Heard

\* Every step keeps the invariant.
LEMMA RegistryStep ==
  ASSUME RegistryInv, [RegistryNext]_allVars
  PROVE  RegistryInv'
<1> USE DEF RegistryInv
<1>1. Inv'
  BY RegistryIngests, InvStep
<1>2. RegistryTypes' /\ KeysInv' /\ Keeps
  <2>1. CASE Registry
    BY <2>1, CreateKeeps, InsertKeeps, RefusalKeeps, DeactivateKeeps, ListingKeeps DEF Registry
  <2>2. CASE UNCHANGED keyVars
    BY <2>2, OutsideKeeps
  <2>3. CASE RestartAll
    BY <2>3, RestartKeeps
  <2> QED BY <2>1, <2>2, <2>3 DEF RegistryNext, Push, allVars
<1>3. RegistryTypeOK'
  BY <1>1, <1>2 DEF RegistryTypeOK, RegistryTypes, Inv
<1>4. OnlyHoldersPush'
  <2>1. ASSUME NEW t \in Threads, NEW h \in held, NEW p \in Payloads, Push(t, h, p)
        PROVE  OnlyHoldersPush'
    <3>1. UNCHANGED keyVars
      BY <2>1 DEF Push
    <3> QED BY <1>2, <2>1, <3>1, PushIsHeard
  <2>2. ASSUME \/ \E t \in Threads : Commit(t) \/ CommitFails(t) \/ Answer(t)
               \/ Tick \/ Restart \/ UNCHANGED vars
        PROVE  OnlyHoldersPush'
    <3>1. Senders' \subseteq Senders
      BY <2>2, SendersStay DEF Inv
    <3>2. \A e \in Senders' : Heard(e)'
      BY <1>2, <3>1, HoldersStay
    <3> QED BY <3>2 DEF OnlyHoldersPush, Senders, Heard
  <2> QED BY <2>1, <2>2 DEF RegistryNext, Pushes, RestartAll, allVars
<1> QED BY <1>1, <1>2, <1>3, <1>4

\* It holds of an empty base.
LEMMA RegistryInitInv == RegistryInit => RegistryInv
<1> SUFFICES ASSUME RegistryInit PROVE RegistryInv
  OBVIOUS
<1>1. Inv
  BY InitInv DEF RegistryInit
<1>2. RegistryTypeOK
  BY <1>1, KeysAssumption DEF RegistryInit, RegistryTypeOK, Inv
<1>3. KeysInv
  BY DEF RegistryInit, KeysInv, NoCreation
<1>4. OnlyHoldersPush
  BY DEF RegistryInit, Init, OnlyHoldersPush, Idle
<1> QED BY <1>1, <1>2, <1>3, <1>4 DEF RegistryInv

\* It is an invariant.
LEMMA RegistryInvHolds == RegistrySpec => []RegistryInv
  BY RegistryInitInv, RegistryStep, PTL DEF RegistrySpec, allVars

\* There is always an identifier for a new establishment, and its columns are filled.
THEOREM RegistryKeepsTypes == RegistrySpec => []RegistryTypeOK
<1>1. RegistryInv => RegistryTypeOK
  BY DEF RegistryInv
<1> QED BY <1>1, RegistryInvHolds, PTL

\* However creations overlap, fail or lose their answers, a key that was shown opens
\* the establishment it was shown for, and that one alone.
THEOREM ShownKeysOpen == RegistrySpec => []ShownKeyOpens
<1>1. RegistryInv => ShownKeyOpens
  <2> SUFFICES ASSUME RegistryInv PROVE ShownKeyOpens
    OBVIOUS
  <2>1. \A h \in held : \E s \in schools : s.name = h.name /\ s.key = h.key
    BY DEF RegistryInv, KeysInv, Opened
  <2>2. \A s, q \in schools : s.name = q.name \/ s.key = q.key => s = q
    BY DEF RegistryInv, KeysInv
  <2>3. \A h \in held, s \in schools : s.name = h.name <=> s.key = h.key
    BY <2>1, <2>2
  <2> QED BY <2>1, <2>3 DEF ShownKeyOpens
<1> QED BY <1>1, RegistryInvHolds, PTL

\* Nothing is stored for an establishment whose key nobody was shown.
THEOREM OnlyHoldersEverPush == RegistrySpec => []OnlyHoldersPush
<1>1. RegistryInv => OnlyHoldersPush
  BY DEF RegistryInv
<1> QED BY <1>1, RegistryInvHolds, PTL

-----------------------------------------------------------------------------
(* Listings: the first rows of a table that only grows.                    *)

\* What is still to be answered for, and what was answered.
ListingInv ==
  /\ FiniteInv
  /\ listing.step = "query" => listing.acked \subseteq OfEtab(db.heartbeats, listing.etab)
  /\ ListingIsCurrent

\* <<y, x>>: y is newer than x.
Newer(rows) == {p \in rows \X rows : Before(p[2], p[1])}

\* No two rows of the log are at the same place.
LEMMA NewerIsStrict ==
  ASSUME Inv, NEW rows \in SUBSET db.raw
  PROVE  StrictOrder(rows, Newer(rows))
<1>1. \A x \in rows : x.id \in Nat /\ x.received_at \in Nat
  BY DEF Inv, TypeOK, RowType
<1>2. \A x, y \in rows : <<x, y>> \in Newer(rows) <=> Before(y, x)
  BY DEF Newer
<1>3. \A x, y \in rows : x # y => x.id # y.id
  BY DEF Inv, OrderInv, LogInv
<1>4. \A x \in rows : ~Before(x, x)
  BY <1>1 DEF Before
<1>5. \A x, y, z \in rows : Before(y, x) /\ Before(z, y) => Before(z, x)
  BY <1>1 DEF Before
<1>6. \A x, y \in rows : x # y => Before(y, x) \/ Before(x, y)
  BY <1>1, <1>3 DEF Before
<1> QED BY <1>2, <1>4, <1>5, <1>6 DEF StrictOrder

\* What the limit cuts off is older than all of the rows it keeps.
LEMMA FirstAreNewest ==
  ASSUME Inv, NEW rows \in SUBSET db.raw, IsFiniteSet(rows), NEW r \in rows \ First(rows)
  PROVE  /\ Cardinality(First(rows)) = PageLimit
         /\ \A q \in First(rows) : Before(r, q)
<1> DEFINE R == Newer(rows)
<1>1. \A x \in rows : Ahead(rows, R, x) = {q \in rows : Before(x, q)}
  BY DEF Ahead, Newer
<1>2. StrictOrder(rows, R)
  BY NewerIsStrict
<1>3. \A q \in rows : <<q, r>> \in R => Before(r, q)
  BY DEF Newer
<1> HIDE DEF R
<1>4. FirstOf(rows, R, PageLimit) = First(rows)
  BY <1>1 DEF FirstOf, First
<1>5. PageLimit \in Nat /\ r \in rows \ FirstOf(rows, R, PageLimit)
  BY <1>4, LimitAssumption
<1>6. /\ Cardinality(FirstOf(rows, R, PageLimit)) = PageLimit
      /\ \A q \in FirstOf(rows, R, PageLimit) : <<q, r>> \in R
  BY <1>2, <1>5, FirstOnes
<1> QED BY <1>3, <1>4, <1>6 DEF First

\* A heartbeat that is stored stays.
LEMMA HeartbeatsStay ==
  ASSUME Inv, Inv', [Next]_vars
  PROVE  db.heartbeats \subseteq db'.heartbeats
<1>1. db.raw \subseteq db'.raw
  BY LogGrows
<1>2. db.heartbeats = OfType(db.raw, "heartbeat") /\ db'.heartbeats = OfType(db'.raw, "heartbeat")
  BY DEF Inv, Replayable, OfType
<1> QED BY <1>1, <1>2 DEF OfType

\* The answer to a listing.
LEMMA AnswerIsCurrent ==
  ASSUME RegistryInv, ListingInv, AnswerList
  PROVE  ListingIsCurrent'
<1> DEFINE rows == OfEtab(db.heartbeats, listing.etab)
<1>1. /\ listing \in [step : {"query", "answered"}, etab : Etabs,
                      rows : SUBSET RowType, acked : SUBSET RowType]
      /\ listing.step = "query"
  BY DEF AnswerList, RegistryInv, RegistryTypeOK, NoListing
<1>2. listing' = [listing EXCEPT !.step = "answered", !.rows = First(rows)]
  BY DEF AnswerList
<1>3. listing'.etab = listing.etab /\ listing'.rows = First(rows)
      /\ listing'.acked = listing.acked
  BY <1>1, <1>2
<1>4. rows \in SUBSET db.raw /\ IsFiniteSet(rows)
  <2>1. IsFiniteSet(db.heartbeats) /\ db.heartbeats \subseteq db.raw
    BY TablesAreFinite DEF RegistryInv, Inv, ListingInv
  <2>2. rows \in SUBSET db.heartbeats
    BY DEF OfEtab
  <2> QED BY <2>1, <2>2, FS_Subset
<1>5. listing.acked \subseteq rows
  BY <1>1 DEF ListingInv
<1>6. \A r \in rows : r.etab = listing.etab
  BY DEF OfEtab
<1> HIDE DEF rows
<1>7. First(rows) \subseteq rows
  BY DEF First
<1>8. \A r \in rows \ First(rows) : /\ Cardinality(First(rows)) = PageLimit
                                    /\ \A q \in First(rows) : Before(r, q)
  BY <1>4, FirstAreNewest DEF RegistryInv
<1>9. \A r \in listing'.rows : r.etab = listing'.etab
  BY <1>3, <1>6, <1>7
<1>10. \A r \in listing'.acked \ listing'.rows :
         /\ Cardinality(listing'.rows) = PageLimit
         /\ \A q \in listing'.rows : Before(r, q)
  BY <1>3, <1>5, <1>8
<1> QED BY <1>9, <1>10 DEF ListingIsCurrent, Before

\* Every step keeps what is known of the listing.
LEMMA ListingStep ==
  ASSUME RegistryInv, ListingInv, [RegistryNext]_allVars
  PROVE  ListingInv'
<1>1. RegistryInv' /\ [Next]_vars
  BY RegistryStep, RegistryIngests DEF RegistryInv
<1>2. FiniteInv'
  BY <1>1, FiniteStep DEF RegistryInv, ListingInv
<1>3. CASE listing' = listing
  <2>1. db.heartbeats \subseteq db'.heartbeats
    BY <1>1, HeartbeatsStay DEF RegistryInv
  <2>2. ListingIsCurrent'
    BY <1>3 DEF ListingInv, ListingIsCurrent, Before
  <2> QED BY <1>2, <1>3, <2>1, <2>2 DEF ListingInv, OfEtab
<1>4. CASE listing' = NoListing
  BY <1>2, <1>4 DEF ListingInv, ListingIsCurrent, NoListing
<1>5. CASE Registry /\ UNCHANGED vars
  <2>1. CASE AnswerList
    <3>1. ListingIsCurrent'
      BY <2>1, AnswerIsCurrent
    <3>2. listing'.step # "query"
      <4>1. listing \in [step : {"query", "answered"}, etab : Etabs,
                         rows : SUBSET RowType, acked : SUBSET RowType]
        BY <2>1 DEF AnswerList, RegistryInv, RegistryTypeOK, NoListing
      <4> QED BY <2>1, <4>1 DEF AnswerList
    <3> QED BY <1>2, <3>1, <3>2 DEF ListingInv
  <2>2. ASSUME NEW h \in held, NEW id \in Etabs, List(h, id)
        PROVE  ListingInv'
    <3>1. /\ listing'.step = "query" /\ listing'.etab = id
          /\ listing'.acked \subseteq OfEtab(db.heartbeats, id)
      BY <2>2 DEF List
    <3>2. db' = db
      BY <1>5 DEF vars
    <3> QED BY <1>2, <3>1, <3>2 DEF ListingInv, ListingIsCurrent
  <2>3. CASE listing' = listing
    BY <1>3, <2>3
  <2> QED BY <1>5, <2>1, <2>2, <2>3 DEF Registry, Create, Insert, InsertFails, Reply, Deactivate
<1> QED BY <1>3, <1>4, <1>5 DEF RegistryNext, Push, RestartAll, keyVars, allVars

\* A listing lacks no heartbeat that was acknowledged before it was asked for, unless it
\* is full of newer ones, whatever is stored between the question and the answer.
THEOREM ListingStaysCurrent == RegistrySpec => []ListingIsCurrent
<1>1. RegistryInit => ListingInv
  <2> SUFFICES ASSUME RegistryInit PROVE ListingInv
    OBVIOUS
  <2>1. FiniteInv
    BY FS_EmptySet DEF RegistryInit, Init, FiniteInv
  <2> QED BY <2>1 DEF RegistryInit, ListingInv, ListingIsCurrent, NoListing
<1>2. ListingInv => ListingIsCurrent
  BY DEF ListingInv
<1> QED BY <1>1, <1>2, ListingStep, RegistryInvHolds, PTL DEF RegistrySpec, allVars

-----------------------------------------------------------------------------
(* Deactivation: the identifiers of the pushes are those of one row each.  *)

\* Identifiers are given one after the other; what is in flight can be counted.
CountedInv ==
  /\ IsFiniteSet(schools)
  /\ \A s \in schools : s.id <= Cardinality(schools)
  /\ \A s, q \in schools : s.id = q.id => s = q
  /\ IsFiniteSet(InFlight)

\* A thread takes or drops a request at a time.
LEMMA InFlightStays ==
  ASSUME TypeOK, IsFiniteSet(InFlight), [Next]_vars
  PROVE  IsFiniteSet(InFlight')
<1>1. ASSUME NEW t \in Threads, \A u \in Threads \ {t} : requests'[u] = requests[u]
      PROVE  IsFiniteSet(InFlight')
  <2>1. InFlight' \subseteq InFlight \cup {t}
    BY <1>1 DEF InFlight
  <2>2. IsFiniteSet(InFlight \cup {t})
    BY FS_AddElement
  <2> QED BY <2>1, <2>2, FS_Subset
<1>2. ASSUME NEW t \in Threads,
             \/ \E e \in Etabs, p \in Payloads : Post(t, e, p)
             \/ Commit(t) \/ CommitFails(t) \/ Answer(t)
      PROVE  \A u \in Threads \ {t} : requests'[u] = requests[u]
  BY <1>2 DEF Post, Commit, CommitFails, Answer, TypeOK
<1>3. CASE Restart
  <2>1. InFlight' = {}
    BY <1>3 DEF Restart, InFlight
  <2> QED BY <2>1, FS_EmptySet
<1>4. CASE requests' = requests
  BY <1>4 DEF InFlight
<1> QED BY <1>1, <1>2, <1>3, <1>4 DEF Next, Tick, vars

\* A row that is inserted has the next identifier, one that is deactivated its own.
LEMMA SchoolsStayCounted ==
  ASSUME RegistryInv, CountedInv, [RegistryNext]_allVars
  PROVE  /\ IsFiniteSet(schools')
         /\ \A s \in schools' : s.id <= Cardinality(schools')
         /\ \A s, q \in schools' : s.id = q.id => s = q
<1>1. schools \subseteq School /\ Cardinality(schools) \in Nat /\ \A s \in schools : s.id \in Nat
  BY FS_CardinalityType, EtabsAssumption DEF RegistryInv, RegistryTypeOK, CountedInv, School
<1>2. CASE schools' = schools
  BY <1>2 DEF CountedInv
<1>3. ASSUME NEW row, row.id = Cardinality(schools) + 1, schools' = schools \cup {row}
      PROVE  /\ IsFiniteSet(schools')
             /\ \A s \in schools' : s.id <= Cardinality(schools')
             /\ \A s, q \in schools' : s.id = q.id => s = q
  <2>1. row \notin schools
    BY <1>1, <1>3 DEF CountedInv
  <2>2. IsFiniteSet(schools') /\ Cardinality(schools') = Cardinality(schools) + 1
    BY <1>3, <2>1, FS_AddElement DEF CountedInv
  <2> QED BY <1>1, <1>3, <2>2 DEF CountedInv
<1>4. ASSUME NEW s \in schools, Deactivate(s)
      PROVE  /\ IsFiniteSet(schools')
             /\ \A r \in schools' : r.id <= Cardinality(schools')
             /\ \A r, q \in schools' : r.id = q.id => r = q
  <2> DEFINE row == [s EXCEPT !.active = FALSE]
             others == schools \ {s}
  <2>1. row.id = s.id /\ schools' = others \cup {row}
    BY <1>1, <1>4 DEF Deactivate, School
  <2>2. \A q \in others : q.id # row.id
    BY <2>1 DEF CountedInv
  <2>3. IsFiniteSet(others) /\ Cardinality(others) = Cardinality(schools) - 1
    BY FS_RemoveElement DEF CountedInv
  <2> HIDE DEF row, others
  <2>4. row \notin others
    BY <2>2
  <2>5. IsFiniteSet(schools') /\ Cardinality(schools') = Cardinality(schools)
    <3>1. Cardinality(schools') = Cardinality(others) + 1 /\ IsFiniteSet(schools')
      BY <2>1, <2>3, <2>4, FS_AddElement
    <3> QED BY <1>1, <2>3, <3>1
  <2> QED BY <1>1, <2>1, <2>2, <2>5 DEF CountedInv, others
<1>5. CASE Registry
  <2>1. ASSUME NEW c \in Creators, Insert(c)
        PROVE  \/ schools' = schools
               \/ schools' = schools \cup {Inserted(c)} /\ Inserted(c).id = Cardinality(schools) + 1
    BY <2>1 DEF Insert, Inserted, NextId
  <2>2. \/ \E c \in Creators : Insert(c)
        \/ \E s \in schools : Deactivate(s)
        \/ schools' = schools
    BY <1>5 DEF Registry, Create, InsertFails, Reply, List, AnswerList
  <2> QED BY <1>2, <1>3, <1>4, <2>1, <2>2
<1> QED BY <1>2, <1>5 DEF RegistryNext, Push, RestartAll, keyVars, allVars

\* What is being stored for an establishment is in flight.
LEMMA StoringIsCounted ==
  ASSUME CountedInv, ListingInv, NEW e
  PROVE  /\ IsFiniteSet(Storing(e)) /\ Cardinality(Storing(e)) \in Nat
         /\ IsFiniteSet(OfEtab(db.raw, e)) /\ Cardinality(OfEtab(db.raw, e)) \in Nat
<1>1. Storing(e) \subseteq InFlight
  BY DEF Storing, InFlight, Idle
<1>2. OfEtab(db.raw, e) \subseteq db.raw
  BY DEF OfEtab
<1> QED BY <1>1, <1>2, FS_Subset, FS_CardinalityType DEF CountedInv, ListingInv, FiniteInv

\* Nothing is let in for e, and one commit stores one push at most.
Silent(e) ==
  /\ Storing(e)' \subseteq Storing(e)
  /\ Cardinality(OfEtab(db'.raw, e)) + Cardinality(Storing(e)')
       <= Cardinality(OfEtab(db.raw, e)) + Cardinality(Storing(e))

\* What is dropped is not stored.
LEMMA DroppedIsSilent ==
  ASSUME CountedInv, ListingInv, NEW e, db' = db, Storing(e)' \subseteq Storing(e)
  PROVE  Silent(e)
<1>1. /\ IsFiniteSet(Storing(e)) /\ Cardinality(Storing(e)) \in Nat
      /\ Cardinality(OfEtab(db.raw, e)) \in Nat
  BY StoringIsCounted
<1>2. IsFiniteSet(Storing(e)') /\ Cardinality(Storing(e)') <= Cardinality(Storing(e))
  BY <1>1, FS_Subset
<1>3. Cardinality(Storing(e)') \in Nat
  BY <1>2, FS_CardinalityType
<1>4. OfEtab(db'.raw, e) = OfEtab(db.raw, e)
  OBVIOUS
<1> HIDE DEF Storing
<1> QED BY <1>1, <1>2, <1>3, <1>4 DEF Silent

\* What is committed is stored no more.
LEMMA CommitIsSilent ==
  ASSUME Inv, CountedInv, ListingInv, NEW e, NEW t \in Threads, Commit(t)
  PROVE  Silent(e)
<1> DEFINE r == Row(db.lastId + 1, requests[t])
           rows == OfEtab(db.raw, e)
<1>1. /\ r \in RowType /\ r.etab = requests[t].etab /\ r.id = db.lastId + 1
      /\ db' = Stored(r)
  BY NewRow DEF Inv, Commit
<1> HIDE DEF r
<1>2. db'.raw = db.raw \cup {r}
  BY <1>1, StoredFields DEF Inv
<1>3. r \notin db.raw
  <2>1. db.lastId \in Nat /\ \A q \in db.raw : q.id <= db.lastId
    BY DEF Inv, TypeOK, OrderInv, LogInv
  <2> QED BY <1>1, <2>1
<1>4. Storing(e)' = Storing(e) \ {t}
  <2>1. \A u \in Threads \ {t} : requests'[u] = requests[u]
    BY DEF Commit, Inv, TypeOK
  <2>2. requests'[t].status = "stored"
    BY DEF Commit, Inv, TypeOK
  <2> QED BY <2>1, <2>2 DEF Storing
<1>5. t \in Storing(e) <=> requests[t].etab = e
  BY DEF Storing, Commit
<1>6. OfEtab(db'.raw, e) = IF requests[t].etab = e THEN rows \cup {r} ELSE rows
  BY <1>1, <1>2 DEF OfEtab
<1>7. r \notin rows
  BY <1>3 DEF OfEtab
<1>8. /\ IsFiniteSet(Storing(e)) /\ Cardinality(Storing(e)) \in Nat
      /\ IsFiniteSet(rows) /\ Cardinality(rows) \in Nat
  BY StoringIsCounted
<1> HIDE DEF rows
<1>9. Cardinality(rows \cup {r}) = Cardinality(rows) + 1
  BY <1>7, <1>8, FS_AddElement
<1>10. Cardinality(Storing(e) \ {t}) =
         IF requests[t].etab = e THEN Cardinality(Storing(e)) - 1 ELSE Cardinality(Storing(e))
  BY <1>5, <1>8, FS_RemoveElement
<1>11. Cardinality(Storing(e)') = Cardinality(Storing(e) \ {t})
  BY <1>4
<1>12. Storing(e)' \subseteq Storing(e)
  BY <1>4
<1> QED BY <1>6, <1>8, <1>9, <1>10, <1>11, <1>12 DEF Silent, rows

\* The key of a deactivated establishment opens nothing, and no other key opens it.
LEMMA PushIsSilent ==
  ASSUME RegistryInv, CountedInv, ListingInv, NEW s \in schools, ~s.active,
         NEW t \in Threads, NEW h \in held, NEW p \in Payloads, Push(t, h, p)
  PROVE  Silent(s.id)
<1>1. PICK q \in schools : q.active /\ Post(t, q.id, p)
  BY DEF Push, Authenticated
<1>2. q.id # s.id
  BY <1>1 DEF CountedInv
<1>3. /\ requests'[t].etab = q.id /\ db' = db
      /\ \A u \in Threads \ {t} : requests'[u] = requests[u]
  BY <1>1 DEF Post, RegistryInv, Inv, TypeOK
<1>4. Storing(s.id)' \subseteq Storing(s.id)
  BY <1>2, <1>3 DEF Storing
<1> QED BY <1>3, <1>4, DroppedIsSilent

\* No step lets in anything for a deactivated establishment.
LEMMA StepIsSilent ==
  ASSUME RegistryInv, CountedInv, ListingInv, [RegistryNext]_allVars,
         NEW s \in schools, ~s.active
  PROVE  Silent(s.id)
<1>1. ASSUME NEW t \in Threads, Commit(t)
      PROVE  Silent(s.id)
  BY <1>1, CommitIsSilent DEF RegistryInv
<1>2. ASSUME NEW t \in Threads, CommitFails(t) \/ Answer(t)
      PROVE  Silent(s.id)
  <2>1. \A u \in Threads : requests'[u].status = "received" => requests'[u] = requests[u]
    BY <1>2 DEF CommitFails, Answer, RegistryInv, Inv, TypeOK, Idle
  <2>2. db' = db /\ Storing(s.id)' \subseteq Storing(s.id)
    BY <1>2, <2>1 DEF CommitFails, Answer, Storing
  <2> QED BY <2>2, DroppedIsSilent
<1>3. CASE Restart
  <2>1. db' = db /\ Storing(s.id)' \subseteq Storing(s.id)
    BY <1>3 DEF Restart, Storing, Idle
  <2> QED BY <2>1, DroppedIsSilent
<1>4. CASE db' = db /\ requests' = requests
  <2>1. Storing(s.id)' \subseteq Storing(s.id)
    BY <1>4 DEF Storing
  <2> QED BY <1>4, <2>1, DroppedIsSilent
<1>5. ASSUME NEW t \in Threads, NEW h \in held, NEW p \in Payloads, Push(t, h, p)
      PROVE  Silent(s.id)
  BY <1>5, PushIsSilent
<1> QED BY <1>1, <1>2, <1>3, <1>4, <1>5 DEF RegistryNext, Pushes, RestartAll, Tick, vars, allVars

\* A deactivated establishment stores what it had in flight, and then nothing: its row is
\* the only one with its identifier, and no key opens it any more.
THEOREM DeactivationSilences == RegistrySpec => DeactivatedFallsSilent
<1>1. RegistryInit => ListingInv /\ CountedInv
  <2> SUFFICES ASSUME RegistryInit PROVE ListingInv /\ CountedInv
    OBVIOUS
  <2>1. FiniteInv
    BY FS_EmptySet DEF RegistryInit, Init, FiniteInv
  <2>2. InFlight = {}
    BY DEF RegistryInit, Init, InFlight
  <2>3. CountedInv
    BY <2>2, FS_EmptySet DEF RegistryInit, CountedInv
  <2> QED BY <2>1, <2>3 DEF RegistryInit, ListingInv, ListingIsCurrent, NoListing
<1>2. ASSUME RegistryInv, CountedInv, [RegistryNext]_allVars
      PROVE  CountedInv'
  <2>1. IsFiniteSet(InFlight')
    BY <1>2, RegistryIngests, InFlightStays DEF RegistryInv, Inv, CountedInv
  <2> QED BY <1>2, <2>1, SchoolsStayCounted DEF CountedInv
<1>3. ASSUME RegistryInv, CountedInv, ListingInv, [RegistryNext]_allVars
      PROVE  [\A s \in schools : ~s.active => Silent(s.id)]_allVars
  BY <1>3, StepIsSilent
<1>4. [\A s \in schools : ~s.active => Silent(s.id)]_allVars <=>
      [\A s \in schools :
         ~s.active => /\ Storing(s.id)' \subseteq Storing(s.id)
                      /\ Cardinality(OfEtab(db'.raw, s.id)) + Cardinality(Storing(s.id)')
                           <= Cardinality(OfEtab(db.raw, s.id)) + Cardinality(Storing(s.id))
      ]_<<vars, keyVars>>
  BY DEF Silent, allVars
<1> QED BY <1>1, <1>2, <1>3, <1>4, ListingStep, RegistryInvHolds, PTL
        DEF RegistrySpec, allVars, DeactivatedFallsSilent

=============================================================================
