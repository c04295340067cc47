----------------------------- MODULE FleetView -----------------------------
(***************************************************************************)
(* GET /api/fleet and GET /api/fleet/{id}: what the console says of an M4, *)
(* while its pushes are being stored.                                      *)
(*                                                                         *)
(* `now` is taken first; then each table is read by a query of its own,    *)
(* and SQLite gives each query what is committed by then: the parts of one *)
(* answer are of different moments.  The requests are served by threads of *)
(* a pool, so several are read at once and answered in any order.          *)
(***************************************************************************)
EXTENDS Queries, Sequences, SequencesExt

CONSTANTS
  Readers,      \* the threads that serve these requests
  OnlineMax,    \* HEALTH_ONLINE_MAX_MIN, in ticks
  SilentMin,    \* HEALTH_SILENT_MIN_MIN, in ticks
  RecentDays,   \* SESSIONS_RECENT_WINDOW_DAYS and INCIDENTS_WINDOW_DAYS
  TrendDays,    \* TREND_WINDOW_DAYS
  DetailDays,   \* DETAIL_INCIDENTS_WINDOW_DAYS and DETAIL_USAGE_WINDOW_DAYS
  NoDay         \* a period that is not an ISO date

ASSUME ThresholdsAssumption ==
  OnlineMax \in Nat /\ SilentMin \in Nat /\ OnlineMax < SilentMin
ASSUME WindowsAssumption ==
  /\ RecentDays \in Nat \ {0} /\ TrendDays \in Nat /\ DetailDays \in Nat
  /\ RecentDays <= TrendDays /\ TrendDays <= DetailDays

VARIABLES
  readers,  \* the request each thread serves: what it has read so far
  told      \* (for the properties) the last pushes that answers have shown

viewVars == <<readers, told>>

-----------------------------------------------------------------------------
(* What is computed from the rows.                                         *)

Age(now, r) == now - r.received_at

\* Mutant: the age of an "ok" is not looked at.
HealthTrusting(now, last) ==
  IF last = {} \/ \E h \in last : Age(now, h) > SilentMin THEN "silent"
  ELSE IF \E h \in last : h.push.tag \notin {"", "ok"} THEN "degraded" ELSE "online"

\* compute_health; an empty status is taken for none.
Health(now, last) ==
  IF last = {} \/ \E h \in last : Age(now, h) > SilentMin THEN "silent"
  ELSE IF \E h \in last : h.push.tag \notin {"", "ok"} \/ Age(now, h) > OnlineMax
    THEN "degraded" ELSE "online"

\* The usage reports of a day; the other granularities and the periods that do not
\* parse are left out.
Daily(usage) == {r \in usage : r.push.tag = "jour" /\ r.push.day # NoDay}

\* Mutant: the last day is yesterday.
SeriesYesterday(usage, today, days) ==
  [i \in 1..days |-> Total({r \in Daily(usage) : r.push.day = today - (days - i) - 1})]

\* Days from the oldest to today, with zeros filled.
Series(usage, today, days) ==
  [i \in 1..days |-> Total({r \in Daily(usage) : r.push.day = today - (days - i)})]

\* Mutant: one day more.
WeekLong(usage, today) ==
  Total({r \in Daily(usage) : r.push.day >= today - RecentDays})

\* sessions_7j: from six days ago on, with no limit after today.
Week(usage, today) ==
  Total({r \in Daily(usage) : r.push.day >= today - (RecentDays - 1)})

Trend(a)     == Series(a.rows["usage"], Day(a.now), TrendDays)
HealthOf(a)  == Health(a.now, a.rows["heartbeat"])
SumSeq(s)    == FoldSeq(+, 0, s)

Dormant(a) == HealthOf(a) = "online" /\ SumSeq(Trend(a)) = 0

-----------------------------------------------------------------------------
(* The two handlers: build_fleet_item and build_establishment_detail.      *)

NoReader == [step |-> "none"]

Queries == {"heartbeat", "live", "snapshot", "usage", "incidents"}

\* The queries of one row, and the type of its push.
Parts == {"heartbeat", "live", "snapshot"}
TypeOf(part) == IF part = "snapshot" THEN "machine" ELSE part

\* The order of the queries.
Following(kind, step) ==
  CASE step = "heartbeat" -> "live"
    [] step = "live"      -> IF kind = "tile" THEN "usage" ELSE "snapshot"
    [] step = "snapshot"  -> "incidents"
    [] step = "usage"     -> IF kind = "tile" THEN "incidents" ELSE "send"
    [] step = "incidents" -> IF kind = "tile" THEN "send" ELSE "usage"

\* `known`: what the M4 was acknowledged, or an answer has shown of it, before.
Get(g, kind, e) ==
  /\ readers[g] = NoReader
  /\ readers' = [readers EXCEPT ![g] =
       [kind |-> kind, step |-> "heartbeat", etab |-> e, now |-> clock,
        rows |-> [q \in Queries |-> {}],
        known |-> {r \in db.raw : r.etab = e /\ (r.id \in acked \/ r \in told)}]]
  /\ UNCHANGED told

Read(g, query, rows) ==
  /\ readers[g].step = query
  /\ readers' = [readers EXCEPT ![g].rows[query] = rows,
                                ![g].step = Following(readers[g].kind, query)]
  /\ UNCHANGED told

\* The queries by `received_at DESC, id DESC`, and that of the usage reports.
ReadHeartbeat(g) ==
  Read(g, "heartbeat", Newest(OfEtab(db.heartbeats, readers[g].etab)))
ReadLive(g) ==
  Read(g, "live", Newest(OfEtab(OfType(db.sessions, "live"), readers[g].etab)))
ReadSnapshot(g) ==
  Read(g, "snapshot", Newest(OfEtab(OfType(db.raw, "machine"), readers[g].etab)))
ReadUsage(g) ==
  Read(g, "usage", OfEtab(OfType(db.sessions, "historical"), readers[g].etab))

\* Mutant: the window of the detail for both.
ReadIncidentsThirty(g) ==
  Read(g, "incidents", Since(OfEtab(db.incidents, readers[g].etab),
                             readers[g].now - DetailDays * DayLength))

\* Seven days for a tile, thirty for the detail: to the second, not to the day.
ReadIncidents(g) ==
  LET days == IF readers[g].kind = "tile" THEN RecentDays ELSE DetailDays
  IN Read(g, "incidents", Since(OfEtab(db.incidents, readers[g].etab),
                                readers[g].now - days * DayLength))

Send(g) ==
  /\ readers[g].step = "send"
  /\ told' = told \cup UNION {readers[g].rows[part] : part \in Parts}
  /\ readers' = [readers EXCEPT ![g] = NoReader]

ViewInit == Init /\ readers = [g \in Readers |-> NoReader] /\ told = {}

View ==
  \E g \in Readers :
    \/ \E kind \in {"tile", "detail"}, e \in Etabs : Get(g, kind, e)
    \/ ReadHeartbeat(g) \/ ReadLive(g) \/ ReadSnapshot(g) \/ ReadUsage(g)
    \/ ReadIncidents(g) \/ Send(g)

ViewNext == \/ Next /\ UNCHANGED viewVars
            \/ View /\ UNCHANGED vars

ViewSpec == ViewInit /\ [][ViewNext]_<<vars, viewVars>>

-----------------------------------------------------------------------------
(* Properties: an answer against what was known before it was asked, and   *)
(* what is stored by the time it is sent.                                  *)

\* The answers ready to be sent.
Answers == {readers[g] : g \in {h \in Readers : readers[h].step = "send"}}
Tiles   == {a \in Answers : a.kind = "tile"}

\* An answer shows no heartbeat, live count or snapshot older than one that had been
\* acknowledged, or that another answer about the M4 had shown, be it the grid or the
\* detail page, before it was asked.  Of two answers asked together, the last to be
\* sent may be the older.
NeverStale ==
  \A a \in Answers : \A part \in Parts :
    (part = "snapshot" => a.kind = "detail") =>
      \A r \in OfType(a.known, TypeOf(part)) : \E q \in a.rows[part] : ~Before(q, r)

\* An M4 is not called silent if a heartbeat known before is still in its fifteen
\* minutes; it is called online on an "ok", or an empty status, of the last five
\* minutes that no known heartbeat replaces.  Both limits are included, as in the code
\* and its test: docs/JOURNAL.md:407-409 has them excluded, and the docstring of
\* compute_health (fleet.py:45) has no exception for the empty status.
HealthIsTrue ==
  \A a \in Answers :
    LET beats == OfType(a.known, "heartbeat")
    IN /\ HealthOf(a) = "silent" => \A r \in beats : Age(a.now, r) > SilentMin
       /\ HealthOf(a) = "online" =>
            \E r \in OfEtab(db.heartbeats, a.etab) :
               /\ r.push.tag \in {"", "ok"} /\ Age(a.now, r) <= OnlineMax
               /\ \A q \in beats : ~Before(r, q)

\* The number on the tile counts every refusal acknowledged before, in the window,
\* and none that was not stored.
IncidentsAreTrue ==
  \A a \in Tiles :
    LET from == a.now - RecentDays * DayLength
    IN /\ Total(Since(OfType(a.known, "incidents"), from)) <= Total(a.rows["incidents"])
       /\ Total(a.rows["incidents"]) <= Total(Since(OfEtab(db.incidents, a.etab), from))

\* The number of the last seven days is that of the end of the sparkline above it,
\* unless a day after today was reported.
WeekMatchesTrend ==
  \A a \in Tiles :
    LET today == Day(a.now)
        end   == SubSeq(Trend(a), TrendDays - RecentDays + 1, TrendDays)
    IN \/ Week(a.rows["usage"], today) = SumSeq(end)
       \/ \E r \in Daily(a.rows["usage"]) : r.push.day > today

\* Of an M4 that is called dormant, no session that was reported and acknowledged is
\* of the last fourteen days, although its heartbeat is read before its usage.
DormantIsTrue ==
  \A a \in Tiles : Dormant(a) =>
    \A r \in Daily(OfType(a.known, "historical")) :
      r.push.n > 0 => r.push.day \notin Day(a.now) - TrendDays + 1 .. Day(a.now)
=============================================================================
