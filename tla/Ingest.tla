------------------------------- MODULE Ingest -------------------------------
(***************************************************************************)
(* POST /api/ingest: the pushes of the M4s, received by request threads    *)
(* that overlap, and stored in one transaction each.                       *)
(*                                                                         *)
(* A thread takes the time of reception first and commits later, so rows   *)
(* become visible in another order than that of their received_at.  A push *)
(* carries nothing that identifies it: sent again, it is another push.     *)
(***************************************************************************)
EXTENDS Integers, FiniteSets

CONSTANTS
  Etabs,      \* the active establishments
  Threads,    \* request threads
  Payloads,   \* what is pushed: [type, tag, day, n]
  StartClock, \* the time, in ticks, when the base is empty
  MaxClock,   \* bound: the last tick
  MaxPushes   \* bound: pushes stored or being stored

\* Raw-only types are one type here, "machine".
Types == {"heartbeat", "live", "historical", "incidents", "reports", "machine"}

\* `tag`: the status of a heartbeat, the granularity of a usage report, the
\* category of an incident count, the level of the reports.  `day`: the parsed
\* period of a usage report.  `n`: the count that is reported, or the items.
PayloadType == [type : Types, tag : STRING, day : Int, n : Nat]

ASSUME PayloadsAssumption == Payloads \subseteq PayloadType
ASSUME ClockAssumption    == StartClock \in Nat /\ MaxClock \in Nat /\ MaxPushes \in Nat

VARIABLES
  clock,     \* the time
  db,        \* the tables, and the last identifier given
  requests,  \* what each thread is doing
  acked,     \* identifiers of the pushes answered 202
  surpassed  \* (for the properties) those some later push was sent after

vars == <<clock, db, requests, acked, surpassed>>

-----------------------------------------------------------------------------
(* Tables are sets of rows.  The rows of one push have its identifier in   *)
(* all the tables: autoincrement gives each table the same order, that of  *)
(* the commits.                                                            *)

Row(id, r) == [id |-> id, etab |-> r.etab, push |-> r.push, received_at |-> r.received_at]

OfType(rows, type) == {r \in rows : r.push.type = type}

\* One row per item of a push of reports.
Items(r) == {[id |-> r.id, etab |-> r.etab, push |-> r.push,
              received_at |-> r.received_at, item |-> i] : i \in 1..r.push.n}

\* Mutant: the counts of incidents stay in the raw log.
StoredNoIncidents(r) ==
  [db EXCEPT !.lastId     = r.id,
             !.raw        = @ \cup {r},
             !.heartbeats = @ \cup OfType({r}, "heartbeat"),
             !.sessions   = @ \cup OfType({r}, "live") \cup OfType({r}, "historical"),
             !.reports    = @ \cup UNION {Items(q) : q \in OfType({r}, "reports")}]

\* store_push: the raw log whatever the type, and the table of its type.
Stored(r) ==
  [db EXCEPT !.lastId     = r.id,
             !.raw        = @ \cup {r},
             !.heartbeats = @ \cup OfType({r}, "heartbeat"),
             !.sessions   = @ \cup OfType({r}, "live") \cup OfType({r}, "historical"),
             !.incidents  = @ \cup OfType({r}, "incidents"),
             !.reports    = @ \cup UNION {Items(q) : q \in OfType({r}, "reports")}]

\* ORDER BY received_at DESC, id DESC.
Before(q, r) == \/ q.received_at < r.received_at
                \/ q.received_at = r.received_at /\ q.id < r.id

\* Mutant: ORDER BY received_at DESC.
LastByTime(r, rows) == r \in rows /\ \A q \in rows : q.received_at <= r.received_at

\* Mutant: ORDER BY id DESC.
LastById(r, rows) == r \in rows /\ \A q \in rows : q.id <= r.id

\* The row that LIMIT 1 keeps.
IsLast(r, rows) == r \in rows /\ \A q \in rows \ {r} : Before(q, r)

-----------------------------------------------------------------------------
Idle == [status |-> "idle"]

InFlight == {t \in Threads : requests[t] # Idle}

\* The key has been checked; the body is valid; the time is taken.
Post(t, e, p) ==
  /\ requests[t] = Idle
  /\ db.lastId + Cardinality(InFlight) < MaxPushes
  /\ requests' = [requests EXCEPT ![t] =
       [status |-> "received", etab |-> e, push |-> p, received_at |-> clock,
        after  |-> {r.id : r \in {q \in db.raw : /\ q.id \in acked
                                                 /\ q.etab = e
                                                 /\ q.push.type = p.type}}]]
  /\ UNCHANGED <<clock, db, acked, surpassed>>

Commit(t) ==
  /\ requests[t].status = "received"
  /\ LET r == Row(db.lastId + 1, requests[t])
     IN /\ db' = Stored(r)
        /\ requests' = [requests EXCEPT ![t] = [status |-> "stored", id |-> r.id]]
  /\ surpassed' = surpassed \cup requests[t].after
  /\ UNCHANGED <<clock, acked>>

\* The write lock is not obtained in time: 500, nothing is stored.
CommitFails(t) ==
  /\ requests[t].status = "received"
  /\ requests' = [requests EXCEPT ![t] = Idle]
  /\ UNCHANGED <<clock, db, acked, surpassed>>

\* 202; or the answer is lost, and the M4 does not know.
Answer(t) ==
  /\ requests[t].status = "stored"
  /\ acked' \in {acked, acked \cup {requests[t].id}}
  /\ requests' = [requests EXCEPT ![t] = Idle]
  /\ UNCHANGED <<clock, db, surpassed>>

\* The service is restarted: what was in flight is lost.
Restart ==
  /\ requests' = [t \in Threads |-> Idle]
  /\ UNCHANGED <<clock, db, acked, surpassed>>

Tick ==
  /\ clock < MaxClock
  /\ clock' = clock + 1
  /\ UNCHANGED <<db, requests, acked, surpassed>>

Init ==
  /\ clock = StartClock
  /\ db = [lastId |-> 0, raw |-> {}, heartbeats |-> {}, sessions |-> {},
           incidents |-> {}, reports |-> {}]
  /\ requests = [t \in Threads |-> Idle]
  /\ acked = {}
  /\ surpassed = {}

Next ==
  \/ \E t \in Threads : \/ \E e \in Etabs, p \in Payloads : Post(t, e, p)
                        \/ Commit(t) \/ CommitFails(t) \/ Answer(t)
  \/ Restart \/ Tick

Spec == Init /\ [][Next]_vars

-----------------------------------------------------------------------------
(* Properties. *)

RowType  == [id : Nat, etab : Etabs, push : Payloads, received_at : Nat]
ItemType == [id : Nat, etab : Etabs, push : Payloads, received_at : Nat, item : Nat]

Received   == [status : {"received"}, etab : Etabs, push : Payloads, received_at : Nat,
               after : SUBSET Nat]
Unanswered == [status : {"stored"}, id : Nat]

\* Rows have the columns of their tables, threads what their step needs.
TypeOK ==
  /\ clock \in Nat
  /\ db \in [lastId : Nat, raw : SUBSET RowType, heartbeats : SUBSET RowType,
             sessions : SUBSET RowType, incidents : SUBSET RowType,
             reports : SUBSET ItemType]
  /\ requests \in [Threads -> {Idle} \cup Received \cup Unanswered]
  /\ acked \in SUBSET Nat
  /\ surpassed \in SUBSET Nat

\* Replaying the raw log gives the tables, and the log has every push that was
\* acknowledged: store_push writes both in one transaction, before it answers.
Replayable ==
  /\ db.heartbeats = OfType(db.raw, "heartbeat")
  /\ db.sessions   = OfType(db.raw, "live") \cup OfType(db.raw, "historical")
  /\ db.incidents  = OfType(db.raw, "incidents")
  /\ db.reports    = UNION {Items(r) : r \in OfType(db.raw, "reports")}
  /\ acked \subseteq {r.id : r \in db.raw}

\* The rows of one establishment and one type in the log.
Log(e, type) == {r \in db.raw : r.etab = e /\ r.push.type = type}

\* What the views take for the last push is never one the M4 knew stored when it
\* sent another of that type that is stored too: commits out of order, and ties of
\* the clock, do not bring back what was surpassed.
NewestWins ==
  \A e \in Etabs, type \in Types :
    \A r \in Log(e, type) : IsLast(r, Log(e, type)) => r.id \notin surpassed
=============================================================================
