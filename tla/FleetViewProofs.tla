-------------------------- MODULE FleetViewProofs --------------------------
(***************************************************************************)
(* That the views say what is true, for any number of readers, threads,    *)
(* M4s, pushes and days.  Each part of an answer comes from a log that     *)
(* only grows (IngestProofs says what the tables have to do with the log). *)
(* One fact is carried along for every request that is being served: each  *)
(* part it has read has what was known when the request came, and nothing  *)
(* that is not stored (RequestTrue).  What answers have shown is in the    *)
(* log, so that the requests that come next know it.                       *)
(***************************************************************************)
EXTENDS FleetView, IngestProofs

ReaderType ==
  [kind : {"tile", "detail"}, etab : Etabs, now : Nat, known : SUBSET RowType,
   step : Queries \cup {"send"}, rows : [Queries -> SUBSET RowType]]

Requests == {readers[g] : g \in Readers} \ {NoReader}

IncidentsFrom(a) ==
  a.now - (IF a.kind = "tile" THEN RecentDays ELSE DetailDays) * DayLength

\* One row, not older than any that was known.
LastTrue(a, part) ==
  /\ \A r \in OfType(a.known, TypeOf(part)) : \E q \in a.rows[part] : ~Before(q, r)
  /\ \A q, r \in a.rows[part] : q = r

\* All the usage that was acknowledged, and none that is not stored.
UsageTrue(a) ==
  /\ OfType(a.known, "historical") \subseteq a.rows["usage"]
  /\ a.rows["usage"] \subseteq Log(a.etab, "historical")

\* All the refusals of the window that were acknowledged, and none that is not stored.
RefusalsTrue(a) ==
  /\ Since(OfType(a.known, "incidents"), IncidentsFrom(a)) \subseteq a.rows["incidents"]
  /\ a.rows["incidents"] \subseteq Since(Log(a.etab, "incidents"), IncidentsFrom(a))

PartTrue(a, query) ==
  /\ query \in Parts     => LastTrue(a, query)
  /\ query = "usage"     => UsageTrue(a)
  /\ query = "incidents" => RefusalsTrue(a)

\* The queries made when a request comes to `step`.
Seen(kind, step) ==
  CASE step = "heartbeat" -> {}
    [] step = "live"      -> {"heartbeat"}
    [] step = "snapshot"  -> {"heartbeat", "live"}
    [] step = "usage"     -> IF kind = "tile" THEN {"heartbeat", "live"}
                                              ELSE Parts \cup {"incidents"}
    [] step = "incidents" -> IF kind = "tile" THEN {"heartbeat", "live", "usage"} ELSE Parts
    [] OTHER              -> IF kind = "tile" THEN Queries \ {"snapshot"} ELSE Queries

RequestTrue(a) ==
  /\ ~(a.kind = "tile" /\ a.step = "snapshot")
  /\ a.known \subseteq {r \in db.raw : r.etab = a.etab}
  /\ \A part \in Parts : a.rows[part] \subseteq Log(a.etab, TypeOf(part))
  /\ \A query \in Seen(a.kind, a.step) : PartTrue(a, query)

ViewInv ==
  /\ readers \in [Readers -> {NoReader} \cup ReaderType]
  /\ NewestInv
  /\ FiniteInv
  /\ told \subseteq db.raw
  /\ \A a \in Requests : RequestTrue(a)

-----------------------------------------------------------------------------
\* The query that is made is the only one that is added to those seen.
LEMMA SeenGrows ==
  ASSUME NEW kind \in {"tile", "detail"}, NEW query \in Queries,
         ~(kind = "tile" /\ query = "snapshot")
  PROVE  /\ Following(kind, query) \in Queries \cup {"send"}
         /\ ~(kind = "tile" /\ Following(kind, query) = "snapshot")
         /\ Seen(kind, Following(kind, query)) \subseteq Seen(kind, query) \cup {query}
<1>1. CASE query = "heartbeat"
  BY <1>1 DEF Seen, Following, Queries
<1>2. CASE query = "live"
  BY <1>2 DEF Seen, Following, Queries
<1>3. CASE query = "snapshot"
  BY <1>3 DEF Seen, Following, Queries, Parts
<1>4. CASE query = "usage"
  BY <1>4 DEF Seen, Following, Queries, Parts
<1>5. CASE query = "incidents"
  BY <1>5 DEF Seen, Following, Queries, Parts
<1> QED BY <1>1, <1>2, <1>3, <1>4, <1>5 DEF Queries

\* While the base does not change, what is true of a request stays so.
LEMMA BaseSame ==
  ASSUME NEW a, db' = db
  PROVE  /\ RequestTrue(a) => RequestTrue(a)'
         /\ \A query : PartTrue(a, query) => PartTrue(a, query)'
<1>1. \A e, type : Log(e, type)' = Log(e, type)
  BY DEF Log
<1>2. IncidentsFrom(a)' = IncidentsFrom(a)
  BY DEF IncidentsFrom
<1>3. \A query : PartTrue(a, query) => PartTrue(a, query)'
  BY <1>1, <1>2 DEF PartTrue, LastTrue, UsageTrue, RefusalsTrue, Before
<1> QED BY <1>1, <1>3 DEF RequestTrue

\* A step of a reader: the requests are those there were, but for its own.
LEMMA OneRequest ==
  ASSUME ViewInv, UNCHANGED vars, NEW g \in Readers,
         NEW b \in {NoReader} \cup ReaderType, readers' = [readers EXCEPT ![g] = b],
         told' \subseteq db.raw, b # NoReader => RequestTrue(b)
  PROVE  ViewInv'
<1>1. db' = db
  BY DEF vars
<1>2. readers' \in [Readers -> {NoReader} \cup ReaderType]
  BY DEF ViewInv
<1>3. ASSUME NEW a \in Requests' PROVE RequestTrue(a)'
  <2>1. a \in Requests \/ (a = b /\ b # NoReader)
    BY <1>3 DEF Requests, ViewInv
  <2>2. RequestTrue(a)
    BY <2>1 DEF ViewInv
  <2> QED BY <1>1, <2>2, BaseSame
<1>4. NewestInv'
  <2>1. \A e, type : Log(e, type)' = Log(e, type)
    BY <1>1 DEF Log
  <2> QED BY <2>1 DEF ViewInv, NewestInv, IsLast, Before
<1> QED BY <1>1, <1>2, <1>3, <1>4 DEF ViewInv, FiniteInv

\* What is known of a request that is being served.
LEMMA Serving ==
  ASSUME ViewInv, NEW g \in Readers, readers[g].step # "none"
  PROVE  /\ readers[g] \in ReaderType /\ readers[g] # NoReader
         /\ readers[g] \in Requests /\ RequestTrue(readers[g])
         /\ readers[g].etab \in Etabs
<1>1. readers[g] # NoReader
  BY DEF NoReader
<1>2. readers[g] \in Requests
  BY <1>1 DEF Requests
<1> QED BY <1>1, <1>2 DEF ViewInv, ReaderType

\* A query that gives what it has to.
LEMMA ReadKeeps ==
  ASSUME ViewInv, UNCHANGED vars, NEW g \in Readers,
         NEW query \in Queries, NEW rows \in SUBSET RowType, Read(g, query, rows),
         query \in Parts => rows \subseteq Log(readers[g].etab, TypeOf(query)),
         \A b \in ReaderType :
           (/\ b.etab = readers[g].etab /\ b.kind = readers[g].kind
            /\ b.now = readers[g].now /\ b.known = readers[g].known
            /\ b.rows[query] = rows) => PartTrue(b, query)
  PROVE  ViewInv'
<1>1. readers[g].step = query /\ query # "none"
  BY DEF Read, Queries
<1>2. readers[g] \in ReaderType /\ RequestTrue(readers[g])
  BY <1>1, Serving
<1>3. PICK old : old = readers[g]
  OBVIOUS
<1>4. PICK b : b = [old EXCEPT !.rows[query] = rows, !.step = Following(old.kind, query)]
  OBVIOUS
<1>5. old \in ReaderType /\ RequestTrue(old) /\ old.step = query
  BY <1>1, <1>2, <1>3
<1>6. old.kind \in {"tile", "detail"} /\ ~(old.kind = "tile" /\ query = "snapshot")
  BY <1>5 DEF ReaderType, RequestTrue
<1>7. /\ Following(old.kind, query) \in Queries \cup {"send"}
      /\ ~(old.kind = "tile" /\ Following(old.kind, query) = "snapshot")
      /\ Seen(old.kind, Following(old.kind, query)) \subseteq Seen(old.kind, query) \cup {query}
  BY <1>6, SeenGrows
<1>8. b \in ReaderType
  BY <1>4, <1>5, <1>7 DEF ReaderType
<1>9. /\ b.kind = old.kind /\ b.etab = old.etab /\ b.now = old.now /\ b.known = old.known
      /\ b.step = Following(old.kind, query)
      /\ b.rows = [old.rows EXCEPT ![query] = rows]
  BY <1>4, <1>5 DEF ReaderType
<1>10. b.rows[query] = rows
         /\ \A other \in Queries \ {query} : b.rows[other] = old.rows[other]
  BY <1>5, <1>9 DEF ReaderType
<1>11. PartTrue(b, query)
  BY <1>3, <1>8, <1>9, <1>10
<1>12. ASSUME NEW other \in Seen(old.kind, query), other # query
       PROVE  PartTrue(b, other)
  <2>1. PartTrue(old, other)
    BY <1>5, <1>12 DEF RequestTrue
  <2>2. IncidentsFrom(b) = IncidentsFrom(old)
    BY <1>9 DEF IncidentsFrom
  <2>3. CASE other \in Parts
    <3>1. b.rows[other] = old.rows[other] /\ LastTrue(old, other)
      BY <1>10, <1>12, <2>1, <2>3 DEF PartTrue, Parts, Queries
    <3> QED BY <1>9, <2>3, <3>1 DEF PartTrue, LastTrue, Parts
  <2>4. CASE other = "usage"
    <3>1. b.rows["usage"] = old.rows["usage"]
      BY <1>10, <1>12, <2>4 DEF Queries
    <3> QED BY <1>9, <2>1, <2>4, <3>1 DEF PartTrue, UsageTrue, Parts
  <2>5. CASE other = "incidents"
    <3>1. b.rows["incidents"] = old.rows["incidents"]
      BY <1>10, <1>12, <2>5 DEF Queries
    <3> QED BY <1>9, <2>1, <2>2, <2>5, <3>1 DEF PartTrue, RefusalsTrue, Parts
  <2> QED BY <2>3, <2>4, <2>5 DEF PartTrue
<1>13. \A part \in Parts : b.rows[part] \subseteq Log(b.etab, TypeOf(part))
  <2> SUFFICES ASSUME NEW part \in Parts
               PROVE  b.rows[part] \subseteq Log(b.etab, TypeOf(part))
    OBVIOUS
  <2>1. CASE part = query
    BY <1>3, <1>9, <1>10, <2>1
  <2>2. CASE part # query
    <3>1. b.rows[part] = old.rows[part]
      BY <1>10, <2>2 DEF Parts, Queries
    <3> QED BY <1>5, <1>9, <3>1 DEF RequestTrue
  <2> QED BY <2>1, <2>2
<1>14. RequestTrue(b)
  BY <1>5, <1>7, <1>9, <1>11, <1>12, <1>13 DEF RequestTrue
<1>15. readers' = [readers EXCEPT ![g] = b] /\ told' = told
  <2>1. readers' = [readers EXCEPT ![g].rows[query] = rows,
                                   ![g].step = Following(readers[g].kind, query)]
          /\ told' = told
    BY DEF Read
  <2>2. readers \in [Readers -> {NoReader} \cup ReaderType]
    BY DEF ViewInv
  <2> QED BY <1>3, <1>4, <2>1, <2>2
<1>16. told' \subseteq db.raw
  BY <1>15 DEF ViewInv
<1> QED BY <1>8, <1>14, <1>15, <1>16, OneRequest

\* Of the rows that a query for the last one gives, there is one.
LEMMA NewestIsOne ==
  ASSUME NEW rows \in SUBSET RowType
  PROVE  \A q, r \in Newest(rows) : q = r
<1> SUFFICES ASSUME NEW q \in Newest(rows), NEW r \in Newest(rows), q # r
             PROVE  FALSE
  OBVIOUS
<1>1. Before(q, r) /\ Before(r, q)
  BY DEF Newest, IsLast
<1>2. q.id \in Nat /\ r.id \in Nat /\ q.received_at \in Nat /\ r.received_at \in Nat
  BY DEF Newest, RowType
<1> QED BY <1>1, <1>2 DEF Before

\* A query for the last row, of any of the three parts.
LEMMA ReadPart ==
  ASSUME Inv, ViewInv, UNCHANGED vars, NEW g \in Readers, NEW part \in Parts,
         Read(g, part, Newest(Log(readers[g].etab, TypeOf(part))))
  PROVE  ViewInv'
<1> DEFINE log  == Log(readers[g].etab, TypeOf(part))
           rows == Newest(log)
<1>1. part \in Queries /\ TypeOf(part) \in Types /\ readers[g].step = part /\ part # "none"
  BY DEF Parts, Queries, TypeOf, Types, Read
<1>2. readers[g].etab \in Etabs /\ RequestTrue(readers[g])
  BY <1>1, Serving
<1>3. log \in SUBSET RowType
  BY DEF Log, Inv, TypeOK
<1>4. rows \subseteq log /\ \A r \in log : \E q \in rows : ~Before(q, r)
  BY <1>1, <1>2, NewestIsLast DEF Inv, ViewInv
<1>5. \A q, r \in rows : q = r
  BY <1>3, NewestIsOne
<1>6. OfType(readers[g].known, TypeOf(part)) \subseteq log
  BY <1>2 DEF RequestTrue, OfType, Log
<1>7. Read(g, part, rows)
  OBVIOUS
<1> HIDE DEF rows
<1>8. ASSUME NEW b \in ReaderType, b.known = readers[g].known, b.rows[part] = rows
      PROVE  PartTrue(b, part)
  BY <1>4, <1>5, <1>6, <1>8 DEF PartTrue, LastTrue, Parts
<1> QED BY <1>1, <1>3, <1>4, <1>7, <1>8, ReadKeeps

\* A request that begins has read nothing, and knows what is in the log.
LEMMA GetKeeps ==
  ASSUME Inv, ViewInv, UNCHANGED vars, NEW g \in Readers,
         NEW kind \in {"tile", "detail"}, NEW e \in Etabs, Get(g, kind, e)
  PROVE  ViewInv'
<1> DEFINE known == {r \in db.raw : r.etab = e /\ (r.id \in acked \/ r \in told)}
           new == [kind |-> kind, step |-> "heartbeat", etab |-> e, now |-> clock,
                   rows |-> [q \in Queries |-> {}], known |-> known]
<1>1. readers' = [readers EXCEPT ![g] = new] /\ told' = told
  BY DEF Get
<1>2. known \subseteq RowType /\ known \subseteq {r \in db.raw : r.etab = e} /\ clock \in Nat
  BY DEF Inv, TypeOK
<1> HIDE DEF known
<1>3. new \in ReaderType
  BY <1>2 DEF ReaderType, Queries
<1>4. \A part \in Parts : new.rows[part] = {}
  BY DEF Parts, Queries
<1>5. /\ new.step = "heartbeat" /\ new.kind = kind /\ new.etab = e /\ new.known = known
      /\ Seen(new.kind, new.step) = {}
  BY DEF Seen
<1> HIDE DEF new
<1>6. RequestTrue(new)
  BY <1>2, <1>4, <1>5 DEF RequestTrue
<1>7. told' \subseteq db.raw
  BY <1>1 DEF ViewInv
<1> QED BY <1>1, <1>3, <1>6, <1>7, OneRequest

\* What an answer shows is in the log.
LEMMA SendKeeps ==
  ASSUME ViewInv, UNCHANGED vars, NEW g \in Readers, Send(g)
  PROVE  ViewInv'
<1>1. readers[g].step = "send" /\ readers' = [readers EXCEPT ![g] = NoReader]
        /\ told' = told \cup UNION {readers[g].rows[part] : part \in Parts}
  BY DEF Send
<1>2. RequestTrue(readers[g])
  BY <1>1, Serving
<1>3. \A part \in Parts : readers[g].rows[part] \subseteq db.raw
  BY <1>2 DEF RequestTrue, Log
<1>4. told' \subseteq db.raw
  BY <1>1, <1>3 DEF ViewInv
<1> QED BY <1>1, <1>4, OneRequest

\* The queries of a view are of the tables, which are those of the log.
LEMMA ViewKeeps ==
  ASSUME Inv, ViewInv, View, UNCHANGED vars
  PROVE  ViewInv'
<1>1. PICK g \in Readers :
        \/ \E kind \in {"tile", "detail"}, e \in Etabs : Get(g, kind, e)
        \/ ReadHeartbeat(g) \/ ReadLive(g) \/ ReadSnapshot(g) \/ ReadUsage(g)
        \/ ReadIncidents(g) \/ Send(g)
  BY DEF View
<1>2. Replayable /\ TypeOK
  BY DEF Inv
<1>3. "heartbeat" \in Parts /\ "live" \in Parts /\ "snapshot" \in Parts
        /\ TypeOf("heartbeat") = "heartbeat" /\ TypeOf("live") = "live"
        /\ TypeOf("snapshot") = "machine"
  BY DEF Parts, TypeOf
<1>4. "heartbeat" \in Queries /\ "live" \in Queries /\ "snapshot" \in Queries
        /\ "usage" \in Queries /\ "incidents" \in Queries
  BY DEF Queries
<1>5. ASSUME NEW query \in Queries, NEW rows, Read(g, query, rows)
      PROVE  /\ readers[g].etab \in Etabs
             /\ \A type : OfType(readers[g].known, type) \subseteq Log(readers[g].etab, type)
  <2>1. readers[g].step # "none"
    BY <1>5 DEF Read, Queries
  <2>2. readers[g].etab \in Etabs /\ RequestTrue(readers[g])
    BY <2>1, Serving
  <2> QED BY <2>2 DEF RequestTrue, OfType, Log
<1>6. CASE ReadHeartbeat(g)
  <2>1. OfEtab(db.heartbeats, readers[g].etab) = Log(readers[g].etab, TypeOf("heartbeat"))
    BY <1>2, <1>3, <1>4, <1>5, <1>6, TablesAreLogs DEF ReadHeartbeat
  <2> QED BY <1>3, <1>6, <2>1, ReadPart DEF ReadHeartbeat
<1>7. CASE ReadLive(g)
  <2>1. OfEtab(OfType(db.sessions, "live"), readers[g].etab)
          = Log(readers[g].etab, TypeOf("live"))
    BY <1>2, <1>3, <1>4, <1>5, <1>7, TablesAreLogs DEF ReadLive
  <2> QED BY <1>3, <1>7, <2>1, ReadPart DEF ReadLive
<1>8. CASE ReadSnapshot(g)
  <2>1. OfEtab(OfType(db.raw, "machine"), readers[g].etab)
          = Log(readers[g].etab, TypeOf("snapshot"))
    BY <1>2, <1>3, <1>4, <1>5, <1>8, TablesAreLogs DEF ReadSnapshot
  <2> QED BY <1>3, <1>8, <2>1, ReadPart DEF ReadSnapshot
<1>9. CASE ReadUsage(g)
  <2> DEFINE rows == Log(readers[g].etab, "historical")
  <2>1. OfEtab(OfType(db.sessions, "historical"), readers[g].etab) = rows
    BY <1>2 DEF Replayable, OfEtab, OfType, Log
  <2>2. Read(g, "usage", rows)
    BY <1>9, <2>1 DEF ReadUsage
  <2>3. rows \in SUBSET RowType
    BY <1>2 DEF TypeOK, Log
  <2>4. OfType(readers[g].known, "historical") \subseteq rows
    BY <1>4, <1>5, <2>2
  <2>5. ASSUME NEW b \in ReaderType, b.etab = readers[g].etab,
               b.known = readers[g].known, b.rows["usage"] = rows
        PROVE  PartTrue(b, "usage")
    BY <2>4, <2>5 DEF PartTrue, UsageTrue, Parts
  <2> HIDE DEF rows
  <2>6. "usage" \notin Parts
    BY DEF Parts
  <2> QED BY <1>4, <2>2, <2>3, <2>5, <2>6, ReadKeeps
<1>10. CASE ReadIncidents(g)
  <2> DEFINE rows == Since(Log(readers[g].etab, "incidents"), IncidentsFrom(readers[g]))
  <2>1. OfEtab(db.incidents, readers[g].etab) = Log(readers[g].etab, "incidents")
    BY <1>2 DEF Replayable, OfEtab, OfType, Log
  <2>2. Read(g, "incidents", rows)
    BY <1>10, <2>1 DEF ReadIncidents, IncidentsFrom
  <2>3. rows \in SUBSET RowType
    BY <1>2 DEF TypeOK, Log, Since
  <2>4. Since(OfType(readers[g].known, "incidents"), IncidentsFrom(readers[g])) \subseteq rows
    <3>1. OfType(readers[g].known, "incidents") \subseteq Log(readers[g].etab, "incidents")
      BY <1>4, <1>5, <2>2
    <3> QED BY <3>1 DEF Since
  <2>5. ASSUME NEW b \in ReaderType, b.etab = readers[g].etab, b.kind = readers[g].kind,
               b.now = readers[g].now, b.known = readers[g].known,
               b.rows["incidents"] = rows
        PROVE  PartTrue(b, "incidents")
    <3>1. IncidentsFrom(b) = IncidentsFrom(readers[g])
      BY <2>5 DEF IncidentsFrom
    <3> QED BY <2>4, <2>5, <3>1 DEF PartTrue, RefusalsTrue, Parts
  <2> HIDE DEF rows
  <2>6. "incidents" \notin Parts
    BY DEF Parts
  <2> QED BY <1>4, <2>2, <2>3, <2>5, <2>6, ReadKeeps
<1> QED BY <1>1, <1>6, <1>7, <1>8, <1>9, <1>10, GetKeeps, SendKeeps

\* While pushes are stored, what was read stays stored, and what was known too.
LEMMA IngestKeeps ==
  ASSUME Inv, ViewInv, [Next]_vars, UNCHANGED viewVars
  PROVE  ViewInv'
<1>1. /\ NewestInv'
      /\ \A e \in Etabs, type \in Types : Log(e, type) \subseteq Log(e, type)'
  BY NewestStep DEF ViewInv
<1>2. FiniteInv' /\ db.raw \subseteq db'.raw
  BY FiniteStep, LogGrows DEF ViewInv
<1>3. UNCHANGED <<readers, told>>
  BY DEF viewVars
<1>4. "historical" \in Types /\ "incidents" \in Types
        /\ \A part \in Parts : TypeOf(part) \in Types
  BY DEF Parts, TypeOf, Types
<1>5. ASSUME NEW a \in Requests' PROVE RequestTrue(a)'
  <2>1. a \in Requests
    BY <1>3, <1>5 DEF Requests
  <2>2. RequestTrue(a) /\ a.etab \in Etabs
    BY <2>1 DEF ViewInv, Requests, ReaderType
  <2>3. Log(a.etab, "historical") \subseteq Log(a.etab, "historical")'
          /\ Log(a.etab, "incidents") \subseteq Log(a.etab, "incidents")'
    BY <1>1, <1>4, <2>2
  <2>4. IncidentsFrom(a)' = IncidentsFrom(a)
    BY DEF IncidentsFrom
  <2>5. Since(Log(a.etab, "incidents"), IncidentsFrom(a))
          \subseteq Since(Log(a.etab, "incidents"), IncidentsFrom(a))'
    BY <2>3, <2>4 DEF Since
  <2>6. \A query : PartTrue(a, query) => PartTrue(a, query)'
    BY <2>3, <2>4, <2>5 DEF PartTrue, LastTrue, UsageTrue, RefusalsTrue, Before
  <2>7. \A part \in Parts : a.rows[part] \subseteq Log(a.etab, TypeOf(part))'
    BY <1>1, <1>4, <2>2 DEF RequestTrue
  <2> QED BY <1>2, <2>2, <2>6, <2>7 DEF RequestTrue
<1> QED BY <1>1, <1>2, <1>3, <1>5 DEF ViewInv

\* Both invariants hold of every state the views and the ingestion reach.
LEMMA ViewInvHolds == ViewSpec => [](Inv /\ ViewInv)
<1>1. ViewInit => Inv /\ ViewInv
  <2> SUFFICES ASSUME ViewInit PROVE Inv /\ ViewInv
    OBVIOUS
  <2>1. Inv
    BY InitInv DEF ViewInit
  <2>2. Requests = {}
    BY DEF ViewInit, Requests
  <2>3. readers \in [Readers -> {NoReader} \cup ReaderType] /\ told \subseteq db.raw
    BY DEF ViewInit
  <2>4. NewestInv /\ FiniteInv
    BY FS_EmptySet DEF ViewInit, Init, NewestInv, Log, FiniteInv
  <2> QED BY <2>1, <2>2, <2>3, <2>4 DEF ViewInv
<1>2. Inv /\ ViewInv /\ [ViewNext]_<<vars, viewVars>> => (Inv /\ ViewInv)'
  <2> SUFFICES ASSUME Inv, ViewInv, [ViewNext]_<<vars, viewVars>>
               PROVE  Inv' /\ ViewInv'
    OBVIOUS
  <2>1. [Next]_vars
    BY DEF ViewNext
  <2>2. Inv'
    BY <2>1, InvStep
  <2>3. CASE UNCHANGED viewVars
    BY <2>1, <2>2, <2>3, IngestKeeps
  <2>4. CASE View /\ UNCHANGED vars
    BY <2>2, <2>4, ViewKeeps
  <2> QED BY <2>2, <2>3, <2>4 DEF ViewNext
<1> QED BY <1>1, <1>2, PTL DEF ViewSpec

-----------------------------------------------------------------------------
\* What is known of an answer.
LEMMA AnswerIs ==
  ASSUME Inv, ViewInv, NEW a \in Answers
  PROVE  /\ a \in ReaderType /\ a.known \subseteq db.raw
         /\ \A part \in Parts :
              (part = "snapshot" => a.kind = "detail") => LastTrue(a, part)
         /\ UsageTrue(a) /\ RefusalsTrue(a)
         /\ a.rows["heartbeat"] \subseteq Log(a.etab, "heartbeat")
         /\ \A rows \in SUBSET db.raw : rows \in SUBSET RowType /\ IsFiniteSet(rows)
<1>1. PICK g \in Readers : a = readers[g] /\ readers[g].step = "send"
  BY DEF Answers
<1>2. a \in ReaderType /\ RequestTrue(a) /\ a.step = "send"
  BY <1>1, Serving
<1>3. a.kind \in {"tile", "detail"}
        /\ Seen(a.kind, a.step)
             = IF a.kind = "tile" THEN Queries \ {"snapshot"} ELSE Queries
  BY <1>2 DEF Seen, ReaderType
<1>4. \A query \in Seen(a.kind, a.step) : PartTrue(a, query)
  BY <1>2 DEF RequestTrue
<1>5. UsageTrue(a) /\ RefusalsTrue(a)
  BY <1>3, <1>4 DEF PartTrue, Queries
<1>6. ASSUME NEW part \in Parts, part = "snapshot" => a.kind = "detail"
      PROVE  LastTrue(a, part)
  BY <1>3, <1>4, <1>6 DEF PartTrue, Parts, Queries
<1>7. a.rows["heartbeat"] \subseteq Log(a.etab, "heartbeat")
  BY <1>2 DEF RequestTrue, Parts, TypeOf
<1>8. db.raw \subseteq RowType
  BY DEF Inv, TypeOK
<1>9. \A rows \in SUBSET db.raw : IsFiniteSet(rows)
  BY FS_Subset DEF ViewInv, FiniteInv
<1>10. a.known \subseteq db.raw
  BY <1>2 DEF RequestTrue
<1> QED BY <1>2, <1>5, <1>6, <1>7, <1>8, <1>9, <1>10

\* However many requests are served at once, an answer about an M4 is not older, part
\* by part, than what was acknowledged or answered before its request came.
THEOREM AnswersNeverStale == ViewSpec => []NeverStale
<1>1. Inv /\ ViewInv => NeverStale
  BY AnswerIs DEF NeverStale, LastTrue
<1> QED BY <1>1, ViewInvHolds, PTL

\* An M4 is called silent or online by a heartbeat that no known one replaces, whatever
\* the statuses.
THEOREM HealthStaysTrue == ViewSpec => []HealthIsTrue
<1>1. Inv /\ ViewInv => HealthIsTrue
  <2> SUFFICES ASSUME Inv, ViewInv, NEW a \in Answers
               PROVE  LET beats == OfType(a.known, "heartbeat")
                      IN /\ HealthOf(a) = "silent" =>
                              \A r \in beats : Age(a.now, r) > SilentMin
                         /\ HealthOf(a) = "online" =>
                              \E r \in OfEtab(db.heartbeats, a.etab) :
                                 /\ r.push.tag \in {"", "ok"} /\ Age(a.now, r) <= OnlineMax
                                 /\ \A q \in beats : ~Before(r, q)
    BY DEF HealthIsTrue
  <2> DEFINE last  == a.rows["heartbeat"]
             beats == OfType(a.known, "heartbeat")
             now   == a.now
  <2>1. /\ a \in ReaderType /\ beats \subseteq RowType
        /\ last \subseteq Log(a.etab, "heartbeat")
        /\ \A r \in beats : \E q \in last : ~Before(q, r)
        /\ \A q, r \in last : q = r
    <3>1. "heartbeat" \in Parts /\ TypeOf("heartbeat") = "heartbeat" /\ "heartbeat" # "snapshot"
      BY DEF Parts, TypeOf
    <3>2. LastTrue(a, "heartbeat")
      BY <3>1, AnswerIs
    <3>3. a \in ReaderType /\ last \subseteq Log(a.etab, "heartbeat") /\ a.known \subseteq RowType
      BY AnswerIs
    <3> QED BY <3>1, <3>2, <3>3 DEF LastTrue, OfType
  <2>2. now \in Nat /\ \A r \in beats \cup last :
                          r.id \in Nat /\ r.received_at \in Nat
    BY <2>1 DEF ReaderType, RowType, Queries
  <2>3. HealthOf(a) = Health(now, last)
    BY DEF HealthOf
  <2>4. OfEtab(db.heartbeats, a.etab) = Log(a.etab, "heartbeat")
    BY <2>1, TablesAreLogs DEF Inv, ReaderType
  <2> HIDE DEF last, beats, now
  <2>5. ASSUME Health(now, last) = "silent", NEW r \in beats
        PROVE  Age(now, r) > SilentMin
    <3>1. PICK q \in last : ~Before(q, r)
      BY <2>1
    <3>2. PICK h \in last : Age(now, h) > SilentMin
      BY <2>5, <3>1 DEF Health
    <3>3. h = q
      BY <2>1
    <3> QED BY <2>2, <3>1, <3>2, <3>3, ThresholdsAssumption DEF Age, Before
  <2>6. ASSUME Health(now, last) = "online"
        PROVE  \E r \in Log(a.etab, "heartbeat") :
                 /\ r.push.tag \in {"", "ok"} /\ Age(now, r) <= OnlineMax
                 /\ \A q \in beats : ~Before(r, q)
    <3>1. ~(last = {} \/ \E h \in last : Age(now, h) > SilentMin)
      BY <2>6 DEF Health
    <3>2. ~(\E h \in last : h.push.tag \notin {"", "ok"} \/ Age(now, h) > OnlineMax)
      BY <2>6, <3>1 DEF Health
    <3>3. PICK h : h \in last
      BY <3>1
    <3>4. h \in Log(a.etab, "heartbeat")
      BY <2>1, <3>3
    <3>5. h.push.tag \in {"", "ok"}
      BY <3>2, <3>3
    <3>6. Age(now, h) <= OnlineMax
      <4>1. ~(Age(now, h) > OnlineMax)
        BY <3>2, <3>3
      <4> QED BY <2>2, <3>3, <4>1, ThresholdsAssumption DEF Age
    <3>7. \A q \in beats : ~Before(h, q)
      BY <2>1, <3>3
    <3> QED BY <3>4, <3>5, <3>6, <3>7
  <2> QED BY <2>3, <2>4, <2>5, <2>6 DEF beats, now
<1> QED BY <1>1, ViewInvHolds, PTL

\* The refusals on a tile are between those acknowledged before and those stored by then.
THEOREM IncidentsStayTrue == ViewSpec => []IncidentsAreTrue
<1>1. Inv /\ ViewInv => IncidentsAreTrue
  <2> SUFFICES ASSUME Inv, ViewInv, NEW a \in Answers, a.kind = "tile"
               PROVE  LET from == a.now - RecentDays * DayLength
                      IN /\ Total(Since(OfType(a.known, "incidents"), from))
                              <= Total(a.rows["incidents"])
                         /\ Total(a.rows["incidents"])
                              <= Total(Since(OfEtab(db.incidents, a.etab), from))
    BY DEF IncidentsAreTrue, Tiles
  <2> DEFINE from  == a.now - RecentDays * DayLength
             known == Since(OfType(a.known, "incidents"), from)
             shown == a.rows["incidents"]
             all   == Since(OfEtab(db.incidents, a.etab), from)
  <2>1. from = IncidentsFrom(a)
    BY DEF IncidentsFrom
  <2>2. OfEtab(db.incidents, a.etab) = Log(a.etab, "incidents")
    BY DEF Inv, Replayable, OfEtab, OfType, Log
  <2>3. known \subseteq shown /\ shown \subseteq all
    BY <2>1, <2>2, AnswerIs DEF RefusalsTrue
  <2>4. all \in SUBSET db.raw
    BY <2>2 DEF Since, Log
  <2>5. all \in SUBSET RowType /\ IsFiniteSet(all)
    BY <2>4, AnswerIs
  <2>6. shown \in SUBSET RowType /\ IsFiniteSet(shown)
    BY <2>3, <2>4, AnswerIs
  <2> HIDE DEF known, shown, all
  <2>7. Total(known) <= Total(shown)
    BY <2>3, <2>6, TotalGrows
  <2>8. Total(shown) <= Total(all)
    BY <2>3, <2>5, TotalGrows
  <2> QED BY <2>7, <2>8 DEF known, shown, all
<1> QED BY <1>1, ViewInvHolds, PTL

-----------------------------------------------------------------------------
\* The sum of a series.
LEMMA SumSeqIsSum == ASSUME NEW s PROVE SumSeq(s) = SumOver(s, DOMAIN s)
  BY Zenon DEF SumSeq, FoldSeq, FoldFunction, FoldFunctionOnSet, MapThenFoldSet,
               SumOver, Sums, Some

\* A series of days adds up to the total of its days.
LEMMA SeriesAddsUp ==
  ASSUME NEW usage \in SUBSET RowType, IsFiniteSet(usage), NEW today \in Int, NEW days \in Nat
  PROVE  LET s == Series(usage, today, days)
         IN  /\ Summable(s, 1..days) /\ SumSeq(s) = SumOver(s, 1..days)
             /\ SumSeq(s) = Total({r \in Daily(usage) : r.push.day \in today - (days - 1) .. today})
<1> DEFINE rows == Daily(usage)
           day  == [r \in rows |-> r.push.day]
           s    == Series(usage, today, days)
<1>1. rows \in SUBSET RowType /\ IsFiniteSet(rows)
  BY FS_Subset DEF Daily
<1>2. \A r \in rows : day[r] = r.push.day /\ day[r] \in Int
  BY <1>1, PayloadsAssumption DEF RowType, PayloadType
<1>3. s = DaySeries(rows, day, today, days)
  <2>1. ASSUME NEW i \in 1..days
        PROVE  {r \in rows : r.push.day = today - (days - i)}
                 = {r \in rows : day[r] = today - (days - i)}
    BY <1>2
  <2> HIDE DEF rows, day
  <2> QED BY <2>1 DEF Series, DaySeries, rows
<1>4. {r \in rows : r.push.day \in today - (days - 1) .. today} = OfDays(rows, day, today, days)
  BY <1>2 DEF OfDays
<1> HIDE DEF rows, day, s
<1>5. Summable(s, 1..days) /\ SumOver(s, 1..days) = Total(OfDays(rows, day, today, days))
  BY <1>1, <1>2, <1>3, DaysAddUp
<1>6. DOMAIN s = 1..days
  BY DEF Series, s
<1>7. SumSeq(s) = SumOver(s, 1..days)
  BY <1>6, SumSeqIsSum
<1> QED BY <1>4, <1>5, <1>7 DEF rows, s

\* The usage an answer is made of.
LEMMA UsageIs ==
  ASSUME Inv, ViewInv, NEW a \in Answers
  PROVE  /\ a.rows["usage"] \in SUBSET RowType /\ IsFiniteSet(a.rows["usage"])
         /\ OfType(a.known, "historical") \subseteq a.rows["usage"]
         /\ Day(a.now) \in Int
<1>1. UsageTrue(a) /\ a \in ReaderType
        /\ \A rows \in SUBSET db.raw : rows \in SUBSET RowType /\ IsFiniteSet(rows)
  BY AnswerIs
<1>2. a.rows["usage"] \in SUBSET db.raw
  BY <1>1 DEF UsageTrue, Log
<1>3. Day(a.now) \in Int
  BY <1>1, DayAssumption DEF Day, ReaderType
<1> QED BY <1>1, <1>2, <1>3 DEF UsageTrue

\* An M4 that is called dormant was not acknowledged a session in the days of the trend.
THEOREM DormantStaysTrue == ViewSpec => []DormantIsTrue
<1>1. Inv /\ ViewInv => DormantIsTrue
  <2> SUFFICES ASSUME Inv, ViewInv, NEW a \in Answers, Dormant(a),
                      NEW r \in Daily(OfType(a.known, "historical")), r.push.n > 0,
                      r.push.day \in Day(a.now) - TrendDays + 1 .. Day(a.now)
               PROVE  FALSE
    BY DEF DormantIsTrue, Tiles
  <2> DEFINE usage == a.rows["usage"]
             today == Day(a.now)
             s     == Series(usage, today, TrendDays)
             D     == {q \in Daily(usage) : q.push.day \in today - (TrendDays - 1) .. today}
  <2>1. usage \in SUBSET RowType /\ IsFiniteSet(usage) /\ today \in Int
          /\ r \in Daily(usage) /\ TrendDays \in Nat
    BY UsageIs, WindowsAssumption DEF Daily
  <2>2. SumSeq(s) = 0
    BY DEF Dormant, Trend
  <2>3. D \in SUBSET RowType /\ IsFiniteSet(D)
    BY <2>1, FS_Subset DEF Daily
  <2>4. r \in D
    BY <2>1
  <2> HIDE DEF usage, today
  <2>5. Total(D) = 0
    BY <2>1, <2>2, SeriesAddsUp
  <2> HIDE DEF D
  <2>6. Summable(Counts, D) /\ SumOver(Counts, D) = 0
    BY <2>3, <2>5, TotalIsSum
  <2>7. Counts[r] = 0
    BY <2>4, <2>6, SumIsZero
  <2>8. Counts[r] = r.push.n
    BY <2>3, <2>4 DEF Counts
  <2> QED BY <2>7, <2>8
<1> QED BY <1>1, ViewInvHolds, PTL

\* The seven days of a tile are the end of its trend, or a day to come was reported.
THEOREM WeekAlwaysMatches == ViewSpec => []WeekMatchesTrend
<1>1. Inv /\ ViewInv => WeekMatchesTrend
  <2> SUFFICES ASSUME Inv, ViewInv, NEW a \in Answers,
                      \A r \in Daily(a.rows["usage"]) : ~(r.push.day > Day(a.now))
               PROVE  Week(a.rows["usage"], Day(a.now))
                        = SumSeq(SubSeq(Trend(a), TrendDays - RecentDays + 1, TrendDays))
    BY DEF WeekMatchesTrend, Tiles
  <2> DEFINE usage == a.rows["usage"]
             today == Day(a.now)
             trend == Series(usage, today, TrendDays)
             week  == Series(usage, today, RecentDays)
             first == TrendDays - RecentDays + 1
  <2>1. usage \in SUBSET RowType /\ IsFiniteSet(usage) /\ today \in Int
    BY UsageIs
  <2>2. RecentDays \in Nat /\ TrendDays \in Nat /\ first \in 1 .. TrendDays
    BY WindowsAssumption
  <2>3. \A r \in Daily(usage) : r.push.day \in Int /\ ~(r.push.day > today)
    BY <2>1, PayloadsAssumption DEF Daily, RowType, PayloadType
  <2>4. Trend(a) = trend
    BY DEF Trend
  <2> HIDE DEF usage, today
  <2>5. Summable(trend, 1..TrendDays)
    BY <2>1, <2>2, SeriesAddsUp
  <2>6. SubSeq(trend, first, TrendDays)
          = [i \in 1 .. TrendDays - first + 1 |-> trend[first + i - 1]]
    <3>1. \A i \in first..TrendDays : trend[i] \in Nat
      BY <2>2, <2>5 DEF Summable
    <3> HIDE DEF trend, first
    <3> QED BY <2>2, <3>1, EndOfSeries
  <2>7. ASSUME NEW i \in 1..RecentDays
        PROVE  trend[first + i - 1] = week[i]
    <3>1. first + i - 1 \in 1..TrendDays
            /\ today - (TrendDays - (first + i - 1)) = today - (RecentDays - i)
      BY <2>1, <2>2
    <3> HIDE DEF first
    <3> QED BY <3>1 DEF Series
  <2>8. SubSeq(trend, first, TrendDays) = week
    <3>1. TrendDays - first + 1 = RecentDays
      BY <2>2
    <3>2. week = [i \in 1..RecentDays |-> week[i]]
      BY DEF Series
    <3> HIDE DEF trend, week, first
    <3> QED BY <2>6, <2>7, <3>1, <3>2
  <2>9. SumSeq(week)
          = Total({r \in Daily(usage) : r.push.day \in today - (RecentDays - 1) .. today})
    BY <2>1, <2>2, SeriesAddsUp
  <2>10. {r \in Daily(usage) : r.push.day \in today - (RecentDays - 1) .. today}
           = {r \in Daily(usage) : r.push.day >= today - (RecentDays - 1)}
    BY <2>1, <2>2, <2>3
  <2> QED BY <2>4, <2>8, <2>9, <2>10 DEF Week, usage, today
<1> QED BY <1>1, ViewInvHolds, PTL
=============================================================================
