--------------------------- MODULE Establishments ---------------------------
(***************************************************************************)
(* POST /api/establishments, the API keys, and what they open: the pushes  *)
(* of Ingest and GET /api/establishments/{id}/heartbeats.                  *)
(*                                                                         *)
(* A creation looks for the name, then inserts: two of them overlap, and   *)
(* the UNIQUE constraint decides.  The key leaves in the answer and nowhere*)
(* else: it is configured by hand in the M4, or it is lost.  A key that is *)
(* looked up is not looked up again by the request it has let in.          *)
(***************************************************************************)
EXTENDS Queries

CONSTANTS
  Names,     \* names of establishments
  Creators,  \* threads that serve creations
  MaxKeys,   \* bound: keys generated
  PageLimit  \* the limit of a listing

ASSUME EtabsAssumption == Etabs = 1..MaxKeys
ASSUME KeysAssumption  == MaxKeys \in Nat \ {0}
ASSUME LimitAssumption == PageLimit \in Nat \ {0}

VARIABLES
  schools,   \* the table etablissements; the hash of a key is the key
  creations, \* what each of the Creators is doing
  minted,    \* the last key generated
  held,      \* the answers that arrived: what the M4s are configured with
  listing    \* the listing being served, or the last one answered

keyVars == <<schools, creations, minted, held, listing>>

-----------------------------------------------------------------------------
(* Creation. *)

NoCreation == [step |-> "none"]
NoListing  == [step |-> "none"]

Taken(name) == \E s \in schools : s.name = name

\* A name that is taken is refused: 409.  A key is generated for any other.
Create(c, name) ==
  /\ creations[c] = NoCreation
  /\ Taken(name) \/ minted < MaxKeys
  /\ minted' = IF Taken(name) THEN minted ELSE minted + 1
  /\ creations' = [creations EXCEPT ![c] =
                     [step |-> IF Taken(name) THEN "refused" ELSE "insert", name |-> name,
                      key |-> IF Taken(name) THEN 0 ELSE minted']]
  /\ UNCHANGED <<schools, held, listing>>

\* Autoincrement.
NextId == Cardinality(schools) + 1

Inserted(c) == [id |-> NextId, name |-> creations[c].name, key |-> creations[c].key,
                active |-> TRUE]

\* Mutant: an IntegrityError is taken for "already there" and ignored.
InsertIgnores(c) ==
  /\ creations[c].step = "insert"
  /\ schools' = schools \cup (IF Taken(creations[c].name) THEN {} ELSE {Inserted(c)})
  /\ creations' = [creations EXCEPT ![c].step = "created"]
  /\ UNCHANGED <<minted, held, listing>>

\* The constraint is on the name; what it refuses, nobody catches: 500.
Insert(c) ==
  /\ creations[c].step = "insert"
  /\ schools' = schools \cup (IF Taken(creations[c].name) THEN {} ELSE {Inserted(c)})
  /\ creations' = [creations EXCEPT ![c].step =
                     IF Taken(creations[c].name) THEN "refused" ELSE "created"]
  /\ UNCHANGED <<minted, held, listing>>

\* The write lock is not obtained in time: 500.
InsertFails(c) ==
  /\ creations[c].step = "insert"
  /\ creations' = [creations EXCEPT ![c].step = "refused"]
  /\ UNCHANGED <<schools, minted, held, listing>>

\* 201 with the key, or an error; or the answer is lost.
Reply(c) ==
  /\ creations[c].step \in {"created", "refused"}
  /\ held' \in {held} \cup (IF creations[c].step = "created"
                              THEN {held \cup {[name |-> creations[c].name,
                                                key  |-> creations[c].key]}} ELSE {})
  /\ creations' = [creations EXCEPT ![c] = NoCreation]
  /\ UNCHANGED <<schools, minted, listing>>

\* By hand in the base: no code writes another status than "active".
Deactivate(s) ==
  /\ s.active
  /\ schools' = (schools \ {s}) \cup {[s EXCEPT !.active = FALSE]}
  /\ UNCHANGED <<creations, minted, held, listing>>

-----------------------------------------------------------------------------
(* What a key opens.                                                       *)

\* Mutant: the key is only checked to exist.
AuthenticatedAnyKey(key) ==
  {s \in schools : s.active /\ \E q \in schools : q.key = key /\ q.active}

\* Mutant: the status is not looked at.
AuthenticatedAnyStatus(key) == {s \in schools : s.key = key}

\* get_current_etablissement: the establishment of a key, if it is active.
Authenticated(key) == {s \in schools : s.key = key /\ s.active}

Push(t, h, p) ==
  /\ \E s \in Authenticated(h.key) : Post(t, s.id, p)
  /\ UNCHANGED keyVars

\* The limit and the order of the rows of a listing.
First(rows) == {r \in rows : Cardinality({q \in rows : Before(r, q)}) < PageLimit}

\* Its own heartbeats only: another identifier is refused.  `acked` is for the
\* properties.
List(h, id) ==
  /\ listing.step # "query"
  /\ \E s \in Authenticated(h.key) : s.id = id
  /\ listing' = [step |-> "query", etab |-> id, rows |-> {},
                 acked |-> {r \in OfEtab(db.heartbeats, id) : r.id \in acked}]
  /\ UNCHANGED <<schools, creations, minted, held>>

\* Mutant: the limit is taken before the establishment.
AnswerListAny ==
  /\ listing.step = "query"
  /\ listing' = [listing EXCEPT !.step = "answered",
                                !.rows = OfEtab(First(db.heartbeats), listing.etab)]
  /\ UNCHANGED <<schools, creations, minted, held>>

AnswerList ==
  /\ listing.step = "query"
  /\ listing' = [listing EXCEPT !.step = "answered",
                                !.rows = First(OfEtab(db.heartbeats, listing.etab))]
  /\ UNCHANGED <<schools, creations, minted, held>>

-----------------------------------------------------------------------------
RegistryInit ==
  /\ Init
  /\ schools = {} /\ minted = 0 /\ held = {}
  /\ creations = [c \in Creators |-> NoCreation]
  /\ listing = NoListing

\* The requests that were being served are lost, what they have committed is not.
RestartAll ==
  /\ Restart
  /\ creations' = [c \in Creators |-> NoCreation]
  /\ listing' = IF listing.step = "query" THEN NoListing ELSE listing
  /\ UNCHANGED <<schools, minted, held>>

Registry ==
  \/ \E c \in Creators : \/ \E name \in Names : Create(c, name)
                         \/ Insert(c) \/ InsertFails(c) \/ Reply(c)
  \/ \E s \in schools : Deactivate(s)
  \/ \E h \in held, id \in Etabs : List(h, id)
  \/ AnswerList

Pushes ==
  \/ \E t \in Threads : Commit(t) \/ CommitFails(t) \/ Answer(t)
  \/ Tick

RegistryNext ==
  \/ \E t \in Threads, h \in held, p \in Payloads : Push(t, h, p)
  \/ Pushes /\ UNCHANGED keyVars
  \/ Registry /\ UNCHANGED vars
  \/ RestartAll

RegistrySpec == RegistryInit /\ [][RegistryNext]_<<vars, keyVars>>

-----------------------------------------------------------------------------
(* Properties.                                                             *)

School == [id : Etabs, name : Names, key : 1..MaxKeys, active : BOOLEAN]

\* The state of this module has its types, and so has the one of Ingest.
RegistryTypeOK ==
  /\ TypeOK
  /\ schools \subseteq School
  /\ creations \in [Creators -> {NoCreation} \cup
       [step : {"insert", "created", "refused"}, name : Names, key : 0..MaxKeys]]
  /\ minted \in 0..MaxKeys
  /\ held \subseteq [name : Names, key : 1..MaxKeys]
  /\ listing \in {NoListing} \cup [step : {"query", "answered"}, etab : Etabs,
                                   rows : SUBSET RowType, acked : SUBSET RowType]

\* A key that was shown is that of the establishment it was shown for, and of no other,
\* however the creations overlap, fail or are cut; nobody was shown another key for it.
ShownKeyOpens ==
  \A h \in held :
    /\ \E s \in schools : s.name = h.name /\ s.key = h.key
    /\ \A s \in schools : s.name = h.name <=> s.key = h.key
    /\ \A g \in held : g.name = h.name => g.key = h.key

\* What is stored for an establishment, or is about to be, was sent with its key: an
\* establishment whose key was lost in an answer stays silent.
OnlyHoldersPush ==
  \A e \in {r.etab : r \in db.raw} \cup {requests[t].etab : t \in {u \in Threads :
                                           requests[u].status = "received"}} :
    \E s \in schools : s.id = e /\ \E h \in held : h.key = s.key

\* The pushes of an establishment that are being stored.
Storing(e) == {t \in Threads : requests[t].status = "received" /\ requests[t].etab = e}

\* Once deactivated, an establishment adds nothing but what it had in flight.
DeactivatedFallsSilent ==
  [][\A s \in schools :
       ~s.active => /\ Storing(s.id)' \subseteq Storing(s.id)
                    /\ Cardinality(OfEtab(db'.raw, s.id)) + Cardinality(Storing(s.id)')
                         <= Cardinality(OfEtab(db.raw, s.id)) + Cardinality(Storing(s.id))
     ]_<<vars, keyVars>>

\* A listing is of one establishment, and has every heartbeat that was acknowledged
\* before it was asked for, unless it is full of what came after it.
ListingIsCurrent ==
  listing.step = "answered" =>
    /\ \A r \in listing.rows : r.etab = listing.etab
    /\ \A r \in listing.acked \ listing.rows :
         /\ Cardinality(listing.rows) = PageLimit
         /\ \A q \in listing.rows : Before(r, q)
=============================================================================
