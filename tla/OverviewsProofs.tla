-------------------------- MODULE OverviewsProofs --------------------------
(***************************************************************************)
(* Proofs about Overviews, for any number of threads, establishments,      *)
(* pushes and days.  The figures of a page are read one after the other    *)
(* from tables that only grow: FiguresInv says, of each part that was read,*)
(* what it has and what it is within; LinesInv of the establishments whose *)
(* line was read; ListsInv what the trend and the list of the last rows    *)
(* have of the figures before and after them.                              *)
(***************************************************************************)
EXTENDS Overviews, IngestProofs

Figures == {"short", "long", "top"}

Steps == Parts \cup {"sent"}

\* The steps that come when a figure has been read.
After(part) ==
  CASE part = "short" -> {"long", "trend", "top", "recent", "sent"}
    [] part = "long"  -> {"trend", "top", "recent", "sent"}
    [] part = "top"   -> {"recent", "sent"}

From(part) == page.now - (IF part = "short" THEN ShortDays ELSE LongDays) * DayLength

Kinds == {"incidents", "reports", "inventory"}

Rows == RowType \cup ItemType

PageType == [kind : Kinds, step : Steps, now : Nat, left : SUBSET Etabs,
             rows : [Parts -> SUBSET Rows], acked : SUBSET Rows]

\* The state of a page; the inventory has lines, the others figures.
PageTypes ==
  page # NoPage =>
    /\ page \in PageType
    /\ page.kind = "inventory" => page.step \in {"lines", "sent"}
    /\ page.kind # "inventory" => page.step # "lines"
    /\ page.acked \subseteq Table(page.kind)

FiguresInv ==
  page # NoPage /\ page.kind # "inventory" =>
    /\ \A part \in Figures :
         page.step \in After(part) =>
           /\ Since(page.acked, From(part)) \subseteq page.rows[part]
           /\ page.rows[part] \subseteq Since(Table(page.kind), From(part))
    /\ page.step \in After("long") => page.rows["short"] \subseteq page.rows["long"]
    /\ page.step \in After("top") => page.rows["long"] \subseteq page.rows["top"]

\* Of an establishment that was passed, the line is not older than what was acknowledged.
LinesInv ==
  page # NoPage /\ page.kind = "inventory" =>
    /\ \A r \in page.acked : r.etab \notin page.left =>
         \E q \in page.rows["lines"] : q.etab = r.etab /\ ~Before(q, r)
    /\ page.step = "sent" => page.left = {}

PageInv == PageTypes /\ FiguresInv /\ LinesInv

-----------------------------------------------------------------------------
\* The tables only grow.
LEMMA TablesGrow ==
  ASSUME Inv, [Next]_vars, NEW kind \in Kinds
  PROVE  Table(kind) \subseteq Table(kind)'
<1>1. ASSUME NEW t \in Threads, Commit(t)
      PROVE  Table(kind) \subseteq Table(kind)'
  <2> DEFINE r == Row(db.lastId + 1, requests[t])
  <2>1. r \in RowType /\ db' = Stored(r)
    BY <1>1, NewRow DEF Inv, Commit
  <2> HIDE DEF r
  <2>2. /\ db'.raw = db.raw \cup {r}
        /\ db.incidents \subseteq db'.incidents
        /\ db.reports \subseteq db'.reports
    BY <2>1, StoredFields DEF Inv
  <2> QED BY <2>2 DEF Kinds, Table, OfType
<1>2. db' = db => Table(kind) \subseteq Table(kind)'
  BY DEF Kinds, Table, OfType
<1> QED BY <1>1, <1>2 DEF Next, Post, CommitFails, Answer, Restart, Tick, vars

\* The rows of a table have a time of reception.
LEMMA TablesAreTimed ==
  ASSUME TypeOK, NEW kind \in Kinds
  PROVE  /\ Table(kind) \subseteq Rows
         /\ \A r \in Table(kind) : r.received_at \in Nat
<1>1. Table(kind) \subseteq Rows
  BY DEF Kinds, Rows, Table, TypeOK, OfType
<1>2. \A r \in Rows : r.received_at \in Nat
  BY DEF Rows, RowType, ItemType
<1> QED BY <1>1, <1>2

\* The short window is within the long one.
LEMMA WindowsNest ==
  ASSUME NEW now \in Nat
  PROVE  /\ now - LongDays * DayLength \in Int
         /\ now - ShortDays * DayLength \in Int
         /\ now - LongDays * DayLength <= now - ShortDays * DayLength
<1>1. ShortDays \in Nat /\ LongDays \in Nat /\ DayLength \in Nat /\ ShortDays <= LongDays
  BY PeriodsAssumption, DayAssumption
<1>2. \A a, b, d \in Nat : a <= b => a * d <= b * d
  BY Z3
<1>3. ShortDays * DayLength <= LongDays * DayLength
  BY <1>1, <1>2
<1>4. ShortDays * DayLength \in Nat /\ LongDays * DayLength \in Nat
  BY <1>1
<1> QED BY <1>3, <1>4

-----------------------------------------------------------------------------
\* What every query of a page changes.
LEMMA ReadChanges ==
  ASSUME PageTypes, NEW part \in Parts, NEW rows \in SUBSET Rows, Read(part, rows)
  PROVE  /\ page # NoPage /\ page \in PageType /\ page.step = part
         /\ page' # NoPage /\ page' \in PageType
         /\ page'.kind = page.kind /\ page'.now = page.now
         /\ page'.acked = page.acked /\ page'.left = page.left
         /\ page'.step = Following(page.kind, part)
         /\ page'.rows[part] = rows
         /\ \A other \in Parts \ {part} : page'.rows[other] = page.rows[other]
<1>1. page.step = part /\ part # "none"
  BY DEF Read, Parts
<1>2. page # NoPage
  BY <1>1 DEF NoPage
<1>3. page \in PageType
  BY <1>2 DEF PageTypes
<1>4. page' = [page EXCEPT !.rows[part] = rows, !.step = Following(page.kind, part)]
  BY DEF Read
<1>5. Following(page.kind, part) \in Steps
  BY DEF Following, Steps, Parts
<1>6. /\ page'.kind = page.kind /\ page'.now = page.now
      /\ page'.acked = page.acked /\ page'.left = page.left
      /\ page'.step = Following(page.kind, part)
      /\ page'.rows = [page.rows EXCEPT ![part] = rows]
  BY <1>3, <1>4 DEF PageType
<1>7. page' \in PageType
  BY <1>3, <1>4, <1>5 DEF PageType
<1>8. page'.step # "none"
  BY <1>5, <1>6 DEF Steps, Parts
<1>9. page' # NoPage
  BY <1>8 DEF NoPage
<1>10. page'.rows[part] = rows
        /\ \A other \in Parts \ {part} : page'.rows[other] = page.rows[other]
  BY <1>3, <1>6 DEF PageType
<1> QED BY <1>1, <1>2, <1>3, <1>6, <1>7, <1>9, <1>10

\* A figure is read: it has what was acknowledged, is within its window, and has what
\* the figures read before it have.
LEMMA FigureKeeps ==
  ASSUME Inv, PageInv, UNCHANGED vars, NEW part \in Figures,
         Read(part, Since(Table(page.kind), From(part)))
  PROVE  PageInv'
<1> DEFINE rows == Since(Table(page.kind), From(part))
<1>1. page.step = part /\ page # NoPage /\ page \in PageType
  <2>1. page.step = part /\ part # "none"
    BY DEF Read, Figures
  <2> QED BY <2>1 DEF NoPage, PageInv, PageTypes
<1>2. page.kind \in {"incidents", "reports"} /\ page.now \in Nat
  BY <1>1 DEF PageInv, PageTypes, PageType, Kinds, Figures
<1>3. part \in Parts /\ rows \in SUBSET Rows
  <2>1. page.kind \in Kinds
    BY <1>2 DEF Kinds
  <2> QED BY <2>1, TablesAreTimed DEF Inv, Since, Figures, Parts
<1>4. /\ page' # NoPage /\ page' \in PageType
      /\ page'.kind = page.kind /\ page'.now = page.now
      /\ page'.acked = page.acked /\ page'.left = page.left
      /\ page'.step = Following(page.kind, part)
      /\ page'.rows[part] = rows
      /\ \A other \in Parts \ {part} : page'.rows[other] = page.rows[other]
  BY <1>3, ReadChanges DEF PageInv
<1>5. \A k : Table(k)' = Table(k)
  BY DEF Table, vars
<1>6. \A p : From(p)' = From(p)
  BY <1>4 DEF From
<1>7. PageTypes'
  <2>1. page'.step # "lines"
    BY <1>2, <1>4 DEF Following, Figures
  <2> QED BY <1>1, <1>2, <1>4, <1>5, <2>1 DEF PageInv, PageTypes
<1>8. /\ Since(page.acked, From(part)) \subseteq rows
      /\ rows \subseteq Since(Table(page.kind), From(part))
  BY <1>1 DEF PageInv, PageTypes, Since
<1>9. \A p \in Figures : page'.step \in After(p) => p = part \/ page.step \in After(p)
  BY <1>1, <1>2, <1>4 DEF Following, After, Figures
<1>10. ASSUME NEW p \in Figures, page'.step \in After(p)
       PROVE  /\ Since(page.acked, From(p)) \subseteq page'.rows[p]
              /\ page'.rows[p] \subseteq Since(Table(page.kind), From(p))
  <2>1. CASE p = part
    BY <1>4, <1>8, <2>1
  <2>2. CASE p # part
    <3>1. page'.rows[p] = page.rows[p]
      BY <1>4, <2>2 DEF Figures, Parts
    <3>2. page.step \in After(p)
      BY <1>9, <1>10, <2>2
    <3>3. page.kind # "inventory"
      BY <1>2
    <3> QED BY <1>1, <3>1, <3>2, <3>3 DEF PageInv, FiguresInv
  <2> QED BY <2>1, <2>2
<1>11. page'.step \in After("long") => page'.rows["short"] \subseteq page'.rows["long"]
  <2>1. CASE part = "short"
    BY <1>2, <1>4, <2>1 DEF Following, After
  <2>2. CASE part = "long"
    <3>1. page'.rows["short"] = page.rows["short"]
      BY <1>4, <2>2 DEF Parts
    <3>2. page.rows["short"] \subseteq Since(Table(page.kind), From("short"))
      BY <1>1, <1>2, <2>2 DEF PageInv, FiguresInv, After, Figures
    <3>3. \A r \in Table(page.kind) : r.received_at \in Nat
      BY <1>2, TablesAreTimed DEF Inv, Kinds
    <3>4. From("long") \in Int /\ From("short") \in Int /\ From("long") <= From("short")
      BY <1>2, WindowsNest DEF From
    <3>5. Since(Table(page.kind), From("short")) \subseteq Since(Table(page.kind), From("long"))
      BY <3>3, <3>4 DEF Since
    <3> QED BY <1>4, <2>2, <3>1, <3>2, <3>5
  <2>3. CASE part = "top"
    <3>1. page.rows["short"] \subseteq page.rows["long"]
      BY <1>1, <1>2, <2>3 DEF PageInv, FiguresInv, After
    <3> QED BY <1>4, <2>3, <3>1 DEF Parts
  <2> QED BY <2>1, <2>2, <2>3 DEF Figures
<1>12. page'.step \in After("top") => page'.rows["long"] \subseteq page'.rows["top"]
  <2>1. CASE part # "top"
    BY <1>2, <1>4, <2>1 DEF Following, After, Figures
  <2>2. CASE part = "top"
    <3>1. page.rows["long"] \subseteq Since(Table(page.kind), From("long"))
      BY <1>1, <1>2, <2>2 DEF PageInv, FiguresInv, After, Figures
    <3>2. From("long") = From("top")
      BY DEF From
    <3> QED BY <1>4, <2>2, <3>1, <3>2 DEF Parts
  <2> QED BY <2>1, <2>2
<1>13. FiguresInv'
  <2>1. \A p \in Figures :
          /\ Since(page.acked, From(p))' = Since(page.acked, From(p))
          /\ Since(Table(page.kind), From(p))' = Since(Table(page.kind), From(p))
    BY <1>4, <1>5 DEF Since, From
  <2> QED BY <1>10, <1>11, <1>12, <2>1 DEF FiguresInv
<1>14. LinesInv'
  BY <1>2, <1>4 DEF LinesInv
<1> QED BY <1>7, <1>13, <1>14 DEF PageInv

\* The trend and the list of the last ones change none of the figures.
LEMMA OtherKeeps ==
  ASSUME Inv, PageInv, UNCHANGED vars, NEW part \in {"trend", "recent"},
         NEW rows \in SUBSET Rows, Read(part, rows)
  PROVE  PageInv'
<1>1. part \in Parts
  BY DEF Parts
<1>2. /\ page # NoPage /\ page \in PageType /\ page.step = part
      /\ page' # NoPage /\ page' \in PageType
      /\ page'.kind = page.kind /\ page'.now = page.now
      /\ page'.acked = page.acked /\ page'.left = page.left
      /\ page'.step = Following(page.kind, part)
      /\ \A other \in Parts \ {part} : page'.rows[other] = page.rows[other]
  BY <1>1, ReadChanges DEF PageInv
<1>3. page.kind # "inventory"
  BY <1>2 DEF PageInv, PageTypes
<1>4. \A k : Table(k)' = Table(k)
  BY DEF Table, vars
<1>5. \A p : From(p)' = From(p)
  BY <1>2 DEF From
<1>6. PageTypes'
  <2>1. page'.step # "lines"
    BY <1>2 DEF Following
  <2> QED BY <1>2, <1>3, <1>4, <2>1 DEF PageInv, PageTypes
<1>7. \A p \in Figures : /\ page'.rows[p] = page.rows[p]
                         /\ page'.step \in After(p) => page.step \in After(p)
  <2>1. \A p \in Figures : page'.rows[p] = page.rows[p]
    BY <1>2 DEF Figures, Parts
  <2>2. \A p \in Figures : page'.step \in After(p) => page.step \in After(p)
    BY <1>2 DEF Following, After, Figures
  <2> QED BY <2>1, <2>2
<1>8. \A p \in Figures :
        /\ Since(page.acked, From(p))' = Since(page.acked, From(p))
        /\ Since(Table(page.kind), From(p))' = Since(Table(page.kind), From(p))
  BY <1>2, <1>4 DEF Since, From
<1>9. FiguresInv'
  BY <1>2, <1>3, <1>7, <1>8 DEF PageInv, FiguresInv, Figures
<1>10. LinesInv'
  BY <1>2, <1>3 DEF LinesInv
<1> QED BY <1>6, <1>9, <1>10 DEF PageInv

\* A page that begins has read nothing.
LEMMA AskKeeps ==
  ASSUME Inv, UNCHANGED vars, NEW kind \in Kinds, Ask(kind)
  PROVE  PageInv'
<1>1. /\ Table(kind)' = Table(kind)
      /\ Table(kind) \subseteq Rows
      /\ clock \in Nat
  BY TablesAreTimed DEF Inv, TypeOK, Table, vars
<1>2. /\ page' \in PageType /\ page' # NoPage
      /\ page'.kind = kind /\ page'.left = Etabs
      /\ page'.step = IF kind = "inventory" THEN "lines" ELSE "short"
      /\ page'.acked \subseteq Table(kind)
  <2>1. Following(kind, "asked") = IF kind = "inventory" THEN "lines" ELSE "short"
    BY DEF Following
  <2>2. Following(kind, "asked") \in Steps /\ Following(kind, "asked") # "none"
    BY <2>1 DEF Steps, Parts
  <2>3. {r \in Table(kind) : r.id \in acked} \subseteq Rows
    BY <1>1
  <2>4. page' \in PageType
    BY <1>1, <2>2, <2>3 DEF Ask, PageType
  <2>5. page'.step # "none"
    BY <2>2 DEF Ask
  <2>6. page' # NoPage
    BY <2>5 DEF NoPage
  <2> QED BY <2>1, <2>4, <2>6 DEF Ask
<1>3. PageTypes'
  BY <1>1, <1>2 DEF PageTypes
<1>4. FiguresInv'
  BY <1>2 DEF FiguresInv, Figures, After
<1>5. LinesInv'
  <2>1. \A r \in page'.acked : r.etab \in Etabs
    BY <1>1, <1>2 DEF Rows, RowType, ItemType
  <2> QED BY <1>2, <2>1 DEF LinesInv
<1> QED BY <1>3, <1>4, <1>5 DEF PageInv

\* The line of an establishment is its newest inventory.
LEMMA LineKeeps ==
  ASSUME Inv, NewestInv, PageInv, UNCHANGED vars, ReadLine
  PROVE  PageInv'
<1> DEFINE e == CHOOSE f \in page.left : \A g \in page.left : f <= g
           line == Newest(OfEtab(Table("inventory"), e))
<1>1. /\ page # NoPage /\ page \in PageType /\ page.step = "lines"
      /\ page.kind = "inventory"
  <2>1. page.step = "lines"
    BY DEF ReadLine
  <2>2. page # NoPage
    BY <2>1 DEF NoPage
  <2> QED BY <2>1, <2>2 DEF PageInv, PageTypes
<1>2. Table("inventory") = OfType(db.raw, "machine")
  BY DEF Table
<1>3. line \subseteq Rows
  <2>1. Table("inventory") \subseteq Rows
    BY TablesAreTimed DEF Inv, Kinds
  <2> QED BY <2>1 DEF Newest, OfEtab
<1>4. page' = [page EXCEPT !.left = @ \ {e}, !.rows["lines"] = @ \cup line]
  BY DEF ReadLine
<1> HIDE DEF e, line
<1>5. /\ page' \in PageType
      /\ page'.kind = "inventory" /\ page'.step = "lines"
      /\ page'.acked = page.acked /\ page'.left = page.left \ {e}
      /\ page'.rows["lines"] = page.rows["lines"] \cup line
  <2>1. page.rows["lines"] \cup line \in SUBSET Rows
    BY <1>1, <1>3 DEF PageType, Parts
  <2> QED BY <1>1, <1>4, <2>1 DEF PageType, Parts
<1>6. PageTypes'
  BY <1>1, <1>5 DEF PageInv, PageTypes, Table, vars
<1>7. FiguresInv'
  BY <1>5 DEF FiguresInv
<1>8. ASSUME NEW r \in page.acked, r.etab = e
      PROVE  \E q \in line : q.etab = r.etab /\ ~Before(q, r)
  <2>1. r \in db.raw /\ r.push.type = "machine" /\ r.etab \in Etabs
    BY <1>1, <1>2, <1>8 DEF PageInv, PageTypes, OfType, Inv, TypeOK, RowType
  <2>2. OfEtab(Table("inventory"), e) = Log(e, "machine")
    BY <1>2, <1>8, <2>1, TablesAreLogs DEF Inv
  <2>3. line = Newest(Log(e, "machine"))
    BY <2>2 DEF line
  <2>4. r \in Log(e, "machine") /\ "machine" \in Types
    BY <1>8, <2>1 DEF Log, Types
  <2>5. /\ Newest(Log(e, "machine")) \subseteq Log(e, "machine")
        /\ \E q \in Newest(Log(e, "machine")) : ~Before(q, r)
    BY <1>8, <2>1, <2>4, NewestIsLast DEF Inv
  <2> QED BY <1>8, <2>3, <2>5 DEF Log
<1>9. LinesInv'
  <2>1. ASSUME NEW r \in page.acked, r.etab \notin page'.left
        PROVE  \E q \in page'.rows["lines"] : q.etab = r.etab /\ ~Before(q, r)
    <3>1. CASE r.etab = e
      BY <1>5, <1>8, <3>1
    <3>2. CASE r.etab # e
      <4>1. r.etab \notin page.left
        BY <1>5, <2>1, <3>2
      <4> QED BY <1>1, <1>5, <4>1 DEF PageInv, LinesInv
    <3> QED BY <3>1, <3>2
  <2>2. \A r \in page'.acked : r.etab \notin page'.left =>
           (\E q \in page'.rows["lines"] : q.etab = r.etab /\ ~Before(q, r))
    BY <1>5, <2>1
  <2>3. \A q, r : Before(q, r)' = Before(q, r)
    BY DEF Before
  <2> QED BY <1>5, <2>2 DEF LinesInv, Before
<1> QED BY <1>6, <1>7, <1>9 DEF PageInv

\* The inventory is sent when no establishment is left.
LEMMA EndKeeps ==
  ASSUME PageInv, UNCHANGED vars, EndLines
  PROVE  PageInv'
<1>1. /\ page # NoPage /\ page \in PageType /\ page.step = "lines"
      /\ page.kind = "inventory" /\ page.left = {}
  <2>1. page.step = "lines" /\ page.left = {}
    BY DEF EndLines
  <2>2. page # NoPage
    BY <2>1 DEF NoPage
  <2> QED BY <2>1, <2>2 DEF PageInv, PageTypes
<1>2. page' = [page EXCEPT !.step = "sent"]
  BY DEF EndLines, Following
<1>3. /\ page' \in PageType
      /\ page'.kind = page.kind /\ page'.step = "sent" /\ page'.rows = page.rows
      /\ page'.acked = page.acked /\ page'.left = page.left
  BY <1>1, <1>2 DEF PageType, Steps
<1>4. PageTypes'
  BY <1>1, <1>3 DEF PageInv, PageTypes, Table, vars
<1>5. FiguresInv' /\ LinesInv'
  BY <1>1, <1>3 DEF PageInv, FiguresInv, LinesInv, Before
<1> QED BY <1>4, <1>5 DEF PageInv

\* What is stored meanwhile only adds rows to the tables.
LEMMA IngestKeeps ==
  ASSUME Inv, PageInv, [Next]_vars, UNCHANGED page
  PROVE  PageInv'
<1>1. CASE page = NoPage
  BY <1>1 DEF PageInv, PageTypes, FiguresInv, LinesInv
<1>2. CASE page # NoPage
  <2>1. page \in PageType /\ page.kind \in Kinds
    BY <1>2 DEF PageInv, PageTypes, PageType
  <2>2. Table(page.kind) \subseteq Table(page.kind)'
    BY <2>1, TablesGrow
  <2>3. PageTypes'
    BY <1>2, <2>1, <2>2 DEF PageInv, PageTypes
  <2>4. \A p : /\ Since(page.acked, From(p))' = Since(page.acked, From(p))
               /\ Since(Table(page.kind), From(p)) \subseteq Since(Table(page.kind), From(p))'
    BY <2>2 DEF Since, From
  <2>5. FiguresInv'
    BY <2>4 DEF PageInv, FiguresInv
  <2>6. LinesInv'
    BY DEF PageInv, LinesInv, Before
  <2> QED BY <2>3, <2>5, <2>6 DEF PageInv
<1> QED BY <1>1, <1>2

-----------------------------------------------------------------------------
\* Every step keeps the invariant.
LEMMA PageStep ==
  ASSUME Inv, NewestInv, PageInv, [PageNext]_<<vars, page>>
  PROVE  Inv' /\ NewestInv' /\ PageInv'
<1>1. [Next]_vars
  BY DEF PageNext
<1>2. Inv' /\ NewestInv'
  BY <1>1, InvStep, NewestStep
<1>3. PageInv'
  <2>1. CASE UNCHANGED page
    BY <1>1, <2>1, IngestKeeps
  <2>2. CASE Pages /\ UNCHANGED vars
    <3>1. ASSUME NEW kind \in {"incidents", "reports", "inventory"}, Ask(kind)
          PROVE  PageInv'
      BY <2>2, <3>1, AskKeeps DEF Kinds
    <3>2. CASE ReadShort
      <4>1. Read("short", Since(Table(page.kind), From("short"))) /\ "short" \in Figures
        BY <3>2 DEF ReadShort, Ago, From, Figures
      <4> QED BY <2>2, <4>1, FigureKeeps
    <3>3. CASE ReadLong
      <4>1. Read("long", Since(Table(page.kind), From("long"))) /\ "long" \in Figures
        BY <3>3 DEF ReadLong, Ago, From, Figures
      <4> QED BY <2>2, <4>1, FigureKeeps
    <3>4. CASE ReadTop
      <4>1. Read("top", Since(Table(page.kind), From("top"))) /\ "top" \in Figures
        BY <3>4 DEF ReadTop, Ago, From, Figures
      <4> QED BY <2>2, <4>1, FigureKeeps
    <3>5. ASSUME page.step \in {"trend", "recent"}
          PROVE  Table(page.kind) \subseteq Rows
      <4>1. page # NoPage
        BY <3>5 DEF NoPage
      <4>2. page.kind \in Kinds
        BY <4>1 DEF PageInv, PageTypes, PageType
      <4> QED BY <4>2, TablesAreTimed DEF Inv
    <3>6. CASE ReadTrend
      <4> DEFINE rows == Since(Table(page.kind), (Day(page.now) - (TrendLength - 1)) * DayLength)
      <4>1. Read("trend", rows) /\ page.step = "trend"
        BY <3>6 DEF ReadTrend, Read
      <4>2. rows \in SUBSET Rows
        BY <3>5, <4>1 DEF Since
      <4> HIDE DEF rows
      <4> QED BY <2>2, <4>1, <4>2, OtherKeeps
    <3>7. CASE ReadRecent
      <4> DEFINE rows == Recent(Table(page.kind))
      <4>1. Read("recent", rows) /\ page.step = "recent"
        BY <3>7 DEF ReadRecent, Read
      <4>2. rows \in SUBSET Rows
        BY <3>5, <4>1 DEF Recent
      <4> HIDE DEF rows
      <4> QED BY <2>2, <4>1, <4>2, OtherKeeps
    <3>8. CASE ReadLine
      BY <2>2, <3>8, LineKeeps
    <3>9. CASE EndLines
      BY <2>2, <3>9, EndKeeps
    <3> QED BY <2>2, <3>1, <3>2, <3>3, <3>4, <3>6, <3>7, <3>8, <3>9 DEF Pages
  <2> QED BY <2>1, <2>2 DEF PageNext
<1> QED BY <1>2, <1>3

\* It holds before any push and any page.
LEMMA PageInitInv == PageInit => Inv /\ NewestInv /\ PageInv
<1> SUFFICES ASSUME PageInit PROVE Inv /\ NewestInv /\ PageInv
  OBVIOUS
<1>1. Inv
  BY InitInv DEF PageInit
<1>2. NewestInv
  BY DEF PageInit, Init, NewestInv, Log
<1>3. PageInv
  BY DEF PageInit, PageInv, PageTypes, FiguresInv, LinesInv
<1> QED BY <1>1, <1>2, <1>3

\* It is an invariant.
LEMMA PageInvHolds == PageSpec => [](Inv /\ NewestInv /\ PageInv)
  BY PageInitInv, PageStep, PTL DEF PageSpec

\* A page that was sent with figures.
LEMMA WindowedPage ==
  ASSUME PageInv, Windowed
  PROVE  page # NoPage /\ page.kind # "inventory" /\ page.step = "sent"
  BY DEF Windowed, Sent, NoPage

\* Whatever is stored between their queries, the short figure is within the long
\* one, and the long one within the table of establishments.
THEOREM ShortIsWithinLong == PageSpec => []ShortWithinLong
<1>1. PageInv => ShortWithinLong
  BY WindowedPage DEF PageInv, FiguresInv, ShortWithinLong, Shown, After
<1> QED BY <1>1, PageInvHolds, PTL

\* Each figure has all that was acknowledged in its window when the page was asked
\* for, and only what is stored.
THEOREM TotalsStayTrue == PageSpec => []TotalsAreTrue
<1>1. PageInv => TotalsAreTrue
  <2> SUFFICES ASSUME PageInv, Windowed, NEW part \in {"short", "long", "top"}
               PROVE  /\ Since(page.acked, From(part)) \subseteq Shown(part)
                      /\ Shown(part) \subseteq Since(Table(page.kind), From(part))
    BY DEF TotalsAreTrue, From
  <2>1. page.step \in After(part) /\ part \in Figures
    BY WindowedPage DEF After, Figures
  <2> QED BY <2>1, WindowedPage DEF PageInv, FiguresInv, Shown
<1> QED BY <1>1, PageInvHolds, PTL

\* Each line of the inventory is the newest one acknowledged, or a newer one.
THEOREM InventoryStaysCurrent == PageSpec => []InventoryIsCurrent
<1>1. PageInv => InventoryIsCurrent
  <2> SUFFICES ASSUME PageInv, Sent({"inventory"}), NEW r \in page.acked
               PROVE  \E q \in Shown("lines") : q.etab = r.etab /\ ~Before(q, r)
    BY DEF InventoryIsCurrent
  <2>1. page # NoPage /\ page.kind = "inventory" /\ page.step = "sent"
    BY DEF Sent, NoPage
  <2> QED BY <2>1 DEF PageInv, LinesInv, Shown
<1> QED BY <1>1, PageInvHolds, PTL

-----------------------------------------------------------------------------
(* The list of the last ones: the first rows of a table by an order that   *)
(* no two of its rows share.                                               *)

Listed == {"incidents", "reports"}

\* <<y, x>>: y is ahead of x in the list.
Later(rows) == {p \in rows \X rows : Precedes(p[2], p[1])}

\* What the rows of a page were read from can be counted.
LEMMA ListedAreFinite ==
  ASSUME Inv, FiniteInv, NEW kind \in Listed
  PROVE  IsFiniteSet(Table(kind))
  BY TablesAreFinite DEF Inv, FiniteInv, Listed, Table

\* A row of incidents is a row of the log.
LEMMA IncidentsInOrder ==
  ASSUME Inv
  PROVE  StrictOrder(db.incidents, Later(db.incidents))
<1> DEFINE T == db.incidents
<1>1. \A x \in T : x \in db.raw /\ x \in RowType
  BY DEF Inv, TypeOK, Replayable, OfType
<1>2. \A x \in T : x.id \in Nat /\ x.received_at \in Nat /\ "item" \notin DOMAIN x
  BY <1>1 DEF RowType
<1>3. \A x, y \in T : x # y => x.id # y.id
  BY <1>1 DEF Inv, OrderInv, LogInv
<1> HIDE DEF T
<1>4. \A x, y \in T : <<x, y>> \in Later(T) <=> Before(y, x)
  BY <1>2 DEF Later, Precedes
<1>5. \A x \in T : ~Before(x, x)
  BY <1>2 DEF Before
<1>6. \A x, y, z \in T : Before(y, x) /\ Before(z, y) => Before(z, x)
  BY <1>2 DEF Before
<1>7. \A x, y \in T : x # y => Before(y, x) \/ Before(x, y)
  BY <1>2, <1>3 DEF Before
<1> QED BY <1>4, <1>5, <1>6, <1>7 DEF StrictOrder, T

\* The rows of one push of reports have one time, and another number each.
LEMMA ReportsInOrder ==
  ASSUME Inv
  PROVE  StrictOrder(db.reports, Later(db.reports))
<1> DEFINE T == db.reports
<1>1. \A x \in T : \E r \in db.raw :
        \E i \in 1..r.push.n : x = [id |-> r.id, etab |-> r.etab, push |-> r.push,
                                    received_at |-> r.received_at, item |-> i]
  BY DEF Inv, Replayable, OfType, Items
<1>2. \A x \in T : /\ x.id \in Nat /\ x.received_at \in Nat /\ x.item \in Nat
                   /\ "item" \in DOMAIN x
  <2>1. T \subseteq ItemType
    BY DEF Inv, TypeOK
  <2> QED BY <2>1 DEF ItemType
<1>3. \A q, r \in db.raw : q.id = r.id => q = r
  BY DEF Inv, OrderInv, LogInv
<1> HIDE DEF T
<1>4. \A x, y \in T : x.id = y.id => x.received_at = y.received_at
  BY <1>1, <1>3
<1>5. \A x, y \in T : x.id = y.id /\ x.item = y.item => x = y
  BY <1>1, <1>3
<1> DEFINE Behind(x, y) == Before(x, y) \/ (x.id = y.id /\ x.item < y.item)
<1>6. \A x, y \in T : <<x, y>> \in Later(T) <=> Behind(y, x)
  <2>1. \A x, y \in T : Precedes(y, x) <=> Behind(y, x)
    BY <1>2 DEF Precedes
  <2> HIDE DEF Behind
  <2> QED BY <2>1 DEF Later
<1>7. \A x \in T : ~Behind(x, x)
  BY <1>2 DEF Before
<1>8. \A x, y, z \in T : Behind(y, x) /\ Behind(z, y) => Behind(z, x)
  BY <1>2, <1>4 DEF Before
<1>9. \A x, y \in T : x # y => Behind(y, x) \/ Behind(x, y)
  <2> SUFFICES ASSUME NEW x \in T, NEW y \in T, x # y
               PROVE  Behind(y, x) \/ Behind(x, y)
    OBVIOUS
  <2>1. /\ x.id \in Nat /\ x.received_at \in Nat /\ x.item \in Nat
        /\ y.id \in Nat /\ y.received_at \in Nat /\ y.item \in Nat
    BY <1>2
  <2>2. x.id # y.id \/ x.item # y.item
    BY <1>5
  <2> QED BY <2>1, <2>2 DEF Before
<1> HIDE DEF Behind
<1> QED BY <1>6, <1>7, <1>8, <1>9 DEF StrictOrder, T

\* What the limit cuts off comes before all that it keeps.
LEMMA RecentAreLast ==
  ASSUME Inv, FiniteInv, NEW kind \in Listed,
         NEW r \in Table(kind) \ Recent(Table(kind))
  PROVE  /\ Cardinality(Recent(Table(kind))) = RecentLimit
         /\ \A q \in Recent(Table(kind)) : Precedes(r, q)
<1> DEFINE T == Table(kind)
           R == Later(T)
<1>1. StrictOrder(T, R) /\ IsFiniteSet(T)
  BY IncidentsInOrder, ReportsInOrder, ListedAreFinite DEF Listed, Table
<1>2. \A x \in T : Ahead(T, R, x) = {q \in T : Precedes(x, q)}
  BY DEF Ahead, Later
<1>3. \A q \in T : <<q, r>> \in R => Precedes(r, q)
  BY DEF Later
<1> HIDE DEF T, R
<1>4. FirstOf(T, R, RecentLimit) = Recent(T)
  BY <1>2 DEF FirstOf, Recent
<1>5. RecentLimit \in Nat /\ r \in T \ FirstOf(T, R, RecentLimit)
  BY <1>4, LimitsAssumption DEF T
<1>6. /\ Cardinality(FirstOf(T, R, RecentLimit)) = RecentLimit
      /\ \A q \in FirstOf(T, R, RecentLimit) : <<q, r>> \in R
  BY <1>1, <1>5, FirstOnes
<1>7. Recent(T) \subseteq T
  BY DEF Recent
<1> QED BY <1>3, <1>4, <1>6, <1>7 DEF T

-----------------------------------------------------------------------------
(* The trend begins at a midnight, the figures at the time of the page.    *)

TrendFrom == (Day(page.now) - (TrendLength - 1)) * DayLength

\* A day is the ticks from its midnight to the next.
LEMMA DayBounds ==
  ASSUME NEW time \in Nat
  PROVE  /\ Day(time) \in Nat
         /\ Day(time) * DayLength <= time
         /\ time < Day(time) * DayLength + DayLength
<1>1. DayLength \in Nat \ {0}
  BY DayAssumption
<1>2. \A d \in Nat \ {0} : /\ time \div d \in Nat /\ (time \div d) * d <= time
                           /\ time < (time \div d) * d + d
  BY Z3
<1> QED BY <1>1, <1>2 DEF Day

\* What is multiplied by the length of a day.
LEMMA DaysInTicks ==
  /\ \A a, b \in Int : a <= b => a * DayLength <= b * DayLength
  /\ \A a, b \in Int : a * DayLength < b * DayLength => a < b
  /\ \A a, b \in Int : (a - b) * DayLength = a * DayLength - b * DayLength
  /\ \A a, b \in Int : (a + b) * DayLength = a * DayLength + b * DayLength
  /\ \A a \in Int : a * DayLength \in Int
<1>1. DayLength \in Nat \ {0}
  BY DayAssumption
<1>2. \A d \in Nat \ {0} : \A a, b \in Int : a <= b => a * d <= b * d
  BY Z3
<1>3. \A d \in Nat \ {0} : \A a, b \in Int : a * d < b * d => a < b
  BY Z3
<1>4. \A d \in Nat \ {0} : \A a, b \in Int : /\ (a - b) * d = a * d - b * d
                                             /\ (a + b) * d = a * d + b * d
                                             /\ a * d \in Int
  BY Z3
<1> QED BY <1>1, <1>2, <1>3, <1>4

\* The trend goes back further than the short figure and not as far as the long one.
LEMMA TrendIsBetween ==
  ASSUME page.now \in Nat
  PROVE  /\ From("long") \in Int /\ TrendFrom \in Int /\ From("short") \in Int
         /\ From("long") <= TrendFrom
         /\ TrendFrom <= From("short")
<1> DEFINE t == Day(page.now)
           S == ShortDays * DayLength
           L == LongDays * DayLength
           T == TrendLength * DayLength
           M == t * DayLength
<1>1. /\ ShortDays \in Int /\ LongDays \in Int /\ TrendLength \in Int /\ DayLength \in Int
      /\ ShortDays <= TrendLength - 1 /\ TrendLength <= LongDays /\ 1 \in Int
  BY PeriodsAssumption, DayAssumption
<1>2. t \in Int /\ M <= page.now /\ page.now < M + DayLength
  BY DayBounds
<1>3. S \in Int /\ L \in Int /\ T \in Int /\ M \in Int /\ T <= L
  BY <1>1, <1>2, DaysInTicks
<1>4. S <= T - DayLength
  <2>1. (TrendLength - 1) * DayLength = T - 1 * DayLength
    BY <1>1, DaysInTicks
  <2>2. S <= (TrendLength - 1) * DayLength
    BY <1>1, DaysInTicks
  <2> QED BY <1>1, <1>3, <2>1, <2>2
<1>5. TrendFrom = M - (T - DayLength)
  <2>1. TrendFrom = M - (TrendLength - 1) * DayLength
    BY <1>1, <1>2, DaysInTicks DEF TrendFrom
  <2>2. (TrendLength - 1) * DayLength = T - 1 * DayLength
    BY <1>1, DaysInTicks
  <2> QED BY <1>1, <1>3, <2>1, <2>2
<1>6. From("long") = page.now - L /\ From("short") = page.now - S
  BY DEF From
<1> HIDE DEF t, S, L, T, M
<1> QED BY <1>1, <1>2, <1>3, <1>4, <1>5, <1>6

-----------------------------------------------------------------------------
(* What the trend and the list have of the figures read before and after.  *)

TrendInv ==
  page # NoPage /\ page.kind = "incidents" =>
    /\ page.step \in {"top", "recent", "sent"} =>
         /\ page.rows["short"] \subseteq page.rows["trend"]
         /\ page.rows["trend"] \subseteq Since(db.incidents, From("top"))
    /\ page.step \in {"recent", "sent"} => page.rows["trend"] \subseteq page.rows["top"]

ListsInv == FiniteInv /\ TrendInv /\ RecentExplainsTotals

\* What is stored meanwhile only adds rows.
LEMMA ListsStay ==
  ASSUME Inv, TrendInv, RecentExplainsTotals, [Next]_vars, UNCHANGED page
  PROVE  TrendInv' /\ RecentExplainsTotals'
<1>1. db.incidents \subseteq db'.incidents
  BY TablesGrow DEF Kinds, Table
<1>2. From("top")' = From("top")
  BY DEF From
<1>3. Since(db.incidents, From("top")) \subseteq Since(db.incidents, From("top"))'
  BY <1>1, <1>2 DEF Since
<1>4. TrendInv'
  BY <1>3 DEF TrendInv
<1>5. RecentExplainsTotals'
  BY DEF RecentExplainsTotals, Windowed, Sent, Shown, Precedes, Before
<1> QED BY <1>4, <1>5

\* The trend has what the seven days counted, and is within the thirty.
LEMMA TrendReads ==
  ASSUME Inv, PageInv, TrendInv, UNCHANGED vars, NEW part \in Parts,
         NEW rows \in SUBSET Rows, Read(part, rows),
         part = "trend" => rows = Since(Table(page.kind), TrendFrom),
         part = "top" => rows = Since(Table(page.kind), From("top"))
  PROVE  TrendInv'
<1>1. /\ page # NoPage /\ page \in PageType /\ page.step = part
      /\ page'.kind = page.kind /\ page'.now = page.now
      /\ page'.step = Following(page.kind, part)
      /\ page'.rows[part] = rows
      /\ \A other \in Parts \ {part} : page'.rows[other] = page.rows[other]
  BY ReadChanges DEF PageInv
<1>2. SUFFICES ASSUME page.kind = "incidents" PROVE TrendInv'
  BY <1>1 DEF TrendInv
<1>3. Table(page.kind) = db.incidents /\ db' = db
  BY <1>2 DEF Table, vars
<1>4. From("top")' = From("top") /\ page.now \in Nat
  BY <1>1 DEF From, PageType
<1>5. CASE part = "trend"
  <2>1. page'.step = "top" /\ page'.rows["trend"] = Since(db.incidents, TrendFrom)
        /\ page'.rows["short"] = page.rows["short"]
    BY <1>1, <1>2, <1>3, <1>5 DEF Following, Parts
  <2>2. page.rows["short"] \subseteq Since(db.incidents, From("short"))
    BY <1>1, <1>2, <1>3, <1>5 DEF PageInv, FiguresInv, After, Figures
  <2>3. \A r \in db.incidents : r.received_at \in Nat
    BY <1>2, <1>3, TablesAreTimed DEF Inv, Kinds
  <2>4. /\ From("long") \in Int /\ TrendFrom \in Int /\ From("short") \in Int
        /\ From("long") <= TrendFrom /\ TrendFrom <= From("short")
    BY <1>4, TrendIsBetween
  <2>5. From("top") = From("long")
    BY DEF From
  <2>6. Since(db.incidents, From("short")) \subseteq Since(db.incidents, TrendFrom)
    BY <2>3, <2>4 DEF Since
  <2>7. Since(db.incidents, TrendFrom) \subseteq Since(db.incidents, From("top"))
    BY <2>3, <2>4, <2>5 DEF Since
  <2> QED BY <1>3, <1>4, <2>1, <2>2, <2>6, <2>7 DEF TrendInv, Since
<1>6. CASE part = "top"
  <2>1. page'.step = "recent" /\ page'.rows["top"] = Since(db.incidents, From("top"))
        /\ page'.rows["short"] = page.rows["short"]
        /\ page'.rows["trend"] = page.rows["trend"]
    BY <1>1, <1>2, <1>3, <1>6 DEF Following, Parts
  <2>2. /\ page.rows["short"] \subseteq page.rows["trend"]
        /\ page.rows["trend"] \subseteq Since(db.incidents, From("top"))
    BY <1>1, <1>2, <1>6 DEF TrendInv
  <2> QED BY <1>3, <1>4, <2>1, <2>2 DEF TrendInv, Since
<1>7. CASE part = "recent"
  <2>1. /\ page'.rows["top"] = page.rows["top"]
        /\ page'.rows["short"] = page.rows["short"]
        /\ page'.rows["trend"] = page.rows["trend"]
    BY <1>1, <1>7 DEF Parts
  <2>2. /\ page.rows["short"] \subseteq page.rows["trend"]
        /\ page.rows["trend"] \subseteq Since(db.incidents, From("top"))
        /\ page.rows["trend"] \subseteq page.rows["top"]
    BY <1>1, <1>2, <1>7 DEF TrendInv
  <2> QED BY <1>3, <1>4, <2>1, <2>2 DEF TrendInv, Since
<1>8. CASE part \in {"short", "long", "lines"}
  <2>1. page'.step \notin {"top", "recent", "sent"} \/ part = "lines"
    BY <1>1, <1>2, <1>8 DEF Following
  <2>2. part # "lines"
    BY <1>1, <1>2 DEF PageInv, PageTypes
  <2> QED BY <2>1, <2>2 DEF TrendInv
<1> QED BY <1>5, <1>6, <1>7, <1>8 DEF Parts

\* The list is read last.
LEMMA RecentReads ==
  ASSUME Inv, FiniteInv, PageInv, UNCHANGED vars, NEW part \in Parts \ {"lines"},
         NEW rows \in SUBSET Rows, Read(part, rows),
         part = "recent" => rows = Recent(Table(page.kind))
  PROVE  RecentExplainsTotals'
<1>1. /\ page # NoPage /\ page \in PageType /\ page.step = part
      /\ page'.kind = page.kind
      /\ page'.step = Following(page.kind, part)
      /\ page'.rows[part] = rows
      /\ \A other \in Parts \ {part} : page'.rows[other] = page.rows[other]
  BY ReadChanges DEF PageInv
<1>2. page.kind \in Listed
  BY <1>1 DEF PageInv, PageTypes, PageType, Kinds, Listed, Parts
<1>3. CASE part # "recent"
  <2>1. page'.step # "sent"
    BY <1>1, <1>2, <1>3 DEF Following, Parts, Listed
  <2> QED BY <2>1 DEF RecentExplainsTotals, Windowed, Sent
<1>4. CASE part = "recent"
  <2>1. /\ page'.rows["recent"] = Recent(Table(page.kind))
        /\ page'.rows["long"] = page.rows["long"]
    BY <1>1, <1>4 DEF Parts
  <2>2. page.rows["long"] \subseteq Table(page.kind)
    <3>1. page.rows["long"] \subseteq Since(Table(page.kind), From("long"))
      BY <1>1, <1>2, <1>4 DEF PageInv, FiguresInv, After, Figures, Listed
    <3> QED BY <3>1 DEF Since
  <2>3. \A r \in Table(page.kind) \ Recent(Table(page.kind)) :
          /\ Cardinality(Recent(Table(page.kind))) = RecentLimit
          /\ \A q \in Recent(Table(page.kind)) : Precedes(r, q)
    BY <1>2, RecentAreLast
  <2>4. \A r \in page'.rows["long"] \ page'.rows["recent"] :
          /\ Cardinality(page'.rows["recent"]) = RecentLimit
          /\ \A q \in page'.rows["recent"] : Precedes(r, q)
    BY <2>1, <2>2, <2>3
  <2> QED BY <2>4 DEF RecentExplainsTotals, Shown, Precedes, Before
<1> QED BY <1>3, <1>4

\* Every step keeps what is known of the trend and of the list.
LEMMA ListsStep ==
  ASSUME Inv, PageInv, ListsInv, [PageNext]_<<vars, page>>
  PROVE  ListsInv'
<1>1. [Next]_vars
  BY DEF PageNext
<1>2. FiniteInv'
  BY <1>1, FiniteStep DEF ListsInv
<1>3. CASE UNCHANGED page
  BY <1>1, <1>2, <1>3, ListsStay DEF ListsInv
<1>4. CASE Pages /\ UNCHANGED vars
  <2>1. ASSUME NEW kind \in {"incidents", "reports", "inventory"}, Ask(kind)
        PROVE  ListsInv'
    <3>1. page'.step \in {"short", "lines"} /\ page'.kind = kind
      BY <2>1 DEF Ask, Following
    <3> QED BY <1>2, <3>1 DEF ListsInv, TrendInv, RecentExplainsTotals, Windowed, Sent
  <2>2. CASE ReadLine \/ EndLines
    <3>1. page.step = "lines"
      BY <2>2 DEF ReadLine, EndLines
    <3>2. page # NoPage /\ page \in PageType /\ page.kind = "inventory"
      BY <3>1 DEF PageInv, PageTypes, NoPage
    <3>3. page'.kind = "inventory"
      BY <2>2, <3>2 DEF ReadLine, EndLines, PageType
    <3> QED BY <1>2, <3>3 DEF ListsInv, TrendInv, RecentExplainsTotals, Windowed, Sent
  <2>3. ASSUME NEW part \in Parts \ {"lines"}, NEW rows \in SUBSET Rows, Read(part, rows),
               part = "trend" => rows = Since(Table(page.kind), TrendFrom),
               part = "top" => rows = Since(Table(page.kind), From("top")),
               part = "recent" => rows = Recent(Table(page.kind))
        PROVE  ListsInv'
    <3>1. TrendInv'
      BY <1>4, <2>3, TrendReads DEF ListsInv
    <3>2. RecentExplainsTotals'
      BY <1>4, <2>3, RecentReads DEF ListsInv
    <3> QED BY <1>2, <3>1, <3>2 DEF ListsInv
  <2>4. ASSUME page.step \in Parts
        PROVE  \A from : /\ Since(Table(page.kind), from) \in SUBSET Rows
                         /\ Recent(Table(page.kind)) \in SUBSET Rows
    <3>1. page # NoPage
      BY <2>4 DEF NoPage, Parts
    <3>2. page.kind \in Kinds
      BY <3>1 DEF PageInv, PageTypes, PageType
    <3>3. Table(page.kind) \subseteq Rows
      BY <3>2, TablesAreTimed DEF Inv
    <3> QED BY <3>3 DEF Since, Recent
  <2>5. CASE ReadShort
    BY <2>3, <2>4, <2>5 DEF ReadShort, Read, Parts
  <2>6. CASE ReadLong
    BY <2>3, <2>4, <2>6 DEF ReadLong, Read, Parts
  <2>7. CASE ReadTrend
    BY <2>3, <2>4, <2>7 DEF ReadTrend, Read, Parts, TrendFrom
  <2>8. CASE ReadTop
    BY <2>3, <2>4, <2>8 DEF ReadTop, Read, Parts, Ago, From
  <2>9. CASE ReadRecent
    BY <2>3, <2>4, <2>9 DEF ReadRecent, Read, Parts
  <2> QED BY <1>4, <2>1, <2>2, <2>5, <2>6, <2>7, <2>8, <2>9 DEF Pages
<1> QED BY <1>3, <1>4 DEF PageNext

\* It is an invariant.
LEMMA ListsHold == PageSpec => []ListsInv
<1>1. PageInit => ListsInv
  <2> SUFFICES ASSUME PageInit PROVE ListsInv
    OBVIOUS
  <2>1. FiniteInv
    BY FS_EmptySet DEF PageInit, Init, FiniteInv
  <2> QED BY <2>1 DEF PageInit, ListsInv, TrendInv, RecentExplainsTotals, Windowed, Sent, NoPage
<1> QED BY <1>1, ListsStep, PageInvHolds, PTL DEF PageSpec

\* What is counted in the figures is in the list, unless the list is full of later rows.
THEOREM RecentAlwaysExplains == PageSpec => []RecentExplainsTotals
<1>1. ListsInv => RecentExplainsTotals
  BY DEF ListsInv
<1> QED BY <1>1, ListsHold, PTL

-----------------------------------------------------------------------------
(* The table of establishments: the first ones by decreasing count.        *)

CountOf(kind, rows, e) == Count(kind, OfEtab(rows, e))

\* <<f, e>>: f is ahead of e in the table.
Above(kind, rows) ==
  {p \in Ranked(kind, rows) \X Ranked(kind, rows) :
     \/ CountOf(kind, rows, p[1]) > CountOf(kind, rows, p[2])
     \/ CountOf(kind, rows, p[1]) = CountOf(kind, rows, p[2]) /\ p[1] < p[2]}

\* Rows of a table: refusals are summed, reports are counted.
Countable(kind, rows) ==
  /\ kind \in Listed /\ IsFiniteSet(rows) /\ rows \subseteq Rows
  /\ kind = "incidents" => rows \subseteq RowType

\* Counts are numbers, and less rows count for less.
LEMMA CountsGrow ==
  ASSUME NEW kind, NEW rows, Countable(kind, rows), NEW part \in SUBSET rows, NEW e
  PROVE  /\ CountOf(kind, rows, e) \in Nat /\ CountOf(kind, part, e) \in Nat
         /\ CountOf(kind, part, e) <= CountOf(kind, rows, e)
<1> DEFINE all == OfEtab(rows, e)
           some == OfEtab(part, e)
<1>1. some \in SUBSET all /\ all \in SUBSET rows
  BY DEF OfEtab
<1>2. IsFiniteSet(all) /\ IsFiniteSet(some)
  BY <1>1, FS_Subset DEF Countable
<1>3. CASE kind = "incidents"
  <2>1. all \in SUBSET RowType
    BY <1>1, <1>3 DEF Countable
  <2> HIDE DEF all, some
  <2>2. Total(some) \in Nat /\ Total(all) \in Nat /\ Total(some) <= Total(all)
    BY <1>1, <1>2, <2>1, TotalGrows
  <2> QED BY <1>3, <2>2 DEF CountOf, Count, all, some
<1>4. CASE kind # "incidents"
  <2> HIDE DEF all, some
  <2>1. /\ Cardinality(some) \in Nat /\ Cardinality(all) \in Nat
        /\ Cardinality(some) <= Cardinality(all)
    BY <1>1, <1>2, FS_Subset, FS_CardinalityType
  <2> QED BY <1>4, <2>1 DEF CountOf, Count, all, some
<1> QED BY <1>3, <1>4

\* There is one row for each establishment that has rows, ties go by identifier.
LEMMA AboveIsStrict ==
  ASSUME NEW kind, NEW rows, Countable(kind, rows)
  PROVE  /\ IsFiniteSet(Ranked(kind, rows))
         /\ StrictOrder(Ranked(kind, rows), Above(kind, rows))
<1> DEFINE S == Ranked(kind, rows)
<1>1. IsFiniteSet(S)
  <2> DEFINE f == [r \in rows |-> r.etab]
  <2>1. f \in Surjection(rows, S)
    BY DEF Surjection, Ranked
  <2> HIDE DEF f, S
  <2> QED BY <2>1, FS_Surjection DEF Countable
<1>2. S \subseteq Nat
  BY IdsAssumption DEF Ranked, Countable, Rows, RowType, ItemType
<1> DEFINE n(e) == CountOf(kind, rows, e)
<1>3. \A e \in S : n(e) \in Nat
  BY CountsGrow
<1>4. \A f, e \in S : <<f, e>> \in Above(kind, rows) <=>
        n(f) > n(e) \/ (n(f) = n(e) /\ f < e)
  BY DEF Above
<1> HIDE DEF S, n
<1>5. \A e \in S : <<e, e>> \notin Above(kind, rows)
  BY <1>2, <1>3, <1>4
<1>6. \A e, f, g \in S : <<e, f>> \in Above(kind, rows) /\ <<f, g>> \in Above(kind, rows) =>
        <<e, g>> \in Above(kind, rows)
  BY <1>2, <1>3, <1>4
<1>7. \A e, f \in S : e # f => <<e, f>> \in Above(kind, rows) \/ <<f, e>> \in Above(kind, rows)
  BY <1>2, <1>3, <1>4
<1> QED BY <1>1, <1>5, <1>6, <1>7 DEF StrictOrder, S

\* Who is left out of the table has not more than anyone who is in it.
LEMMA TopAreFirst ==
  ASSUME NEW kind, NEW rows, Countable(kind, rows),
         NEW e \in Ranked(kind, rows) \ Top(kind, rows)
  PROVE  /\ Cardinality(Top(kind, rows)) = TopLimit
         /\ \A f \in Top(kind, rows) : CountOf(kind, rows, f) >= CountOf(kind, rows, e)
<1> DEFINE S == Ranked(kind, rows)
           R == Above(kind, rows)
<1>1. IsFiniteSet(S) /\ StrictOrder(S, R) /\ TopLimit \in Nat
  BY AboveIsStrict, LimitsAssumption
<1>2. FirstOf(S, R, TopLimit) = Top(kind, rows)
  <2>1. ASSUME NEW d \in S
        PROVE  Ahead(S, R, d) =
                 {f \in S : \/ CountOf(kind, rows, f) > CountOf(kind, rows, d)
                            \/ CountOf(kind, rows, f) = CountOf(kind, rows, d) /\ f < d}
    BY DEF Ahead, Above
  <2>2. Top(kind, rows) =
          {d \in S :
             Cardinality({f \in S : \/ CountOf(kind, rows, f) > CountOf(kind, rows, d)
                                    \/ CountOf(kind, rows, f) = CountOf(kind, rows, d) /\ f < d})
               < TopLimit}
    BY DEF Top, CountOf
  <2> HIDE DEF S, R
  <2> QED BY <2>1, <2>2 DEF FirstOf
<1>3. \A f \in S : <<f, e>> \in R => CountOf(kind, rows, f) >= CountOf(kind, rows, e)
  <2>1. \A f : CountOf(kind, rows, f) \in Nat
    BY CountsGrow
  <2> QED BY <2>1 DEF Above
<1>4. Top(kind, rows) \subseteq S
  BY DEF Top
<1> HIDE DEF S, R
<1>5. e \in S \ FirstOf(S, R, TopLimit)
  BY <1>2 DEF S
<1>6. /\ Cardinality(FirstOf(S, R, TopLimit)) = TopLimit
      /\ \A f \in FirstOf(S, R, TopLimit) : <<f, e>> \in R
  BY <1>1, <1>5, FirstOnes
<1> QED BY <1>2, <1>3, <1>4, <1>6

\* The figures of a page that was sent are counted from rows that are stored.
LEMMA ShownAreCountable ==
  ASSUME Inv, FiniteInv, PageInv, Windowed
  PROVE  /\ Countable(page.kind, Shown("top"))
         /\ Since(page.acked, page.now - LongDays * DayLength) \in SUBSET Shown("top")
         /\ Shown("top") \subseteq Table(page.kind) /\ Shown("short") \subseteq Shown("top")
<1>1. page # NoPage /\ page.kind \in Listed /\ page.step = "sent"
  BY DEF Windowed, Sent, NoPage, Listed
<1>2. /\ Since(page.acked, From("top")) \subseteq page.rows["top"]
      /\ page.rows["top"] \subseteq Since(Table(page.kind), From("top"))
      /\ page.rows["short"] \subseteq page.rows["top"]
  BY <1>1 DEF PageInv, FiguresInv, After, Figures, Listed
<1>3. page.rows["top"] \subseteq Table(page.kind)
  BY <1>2 DEF Since
<1>4. IsFiniteSet(page.rows["top"])
  BY <1>1, <1>3, ListedAreFinite, FS_Subset
<1>5. /\ Table(page.kind) \subseteq Rows
      /\ page.kind = "incidents" => Table(page.kind) \subseteq RowType
  BY <1>1, TablesAreTimed DEF Inv, TypeOK, Table, Kinds, Listed
<1> QED BY <1>1, <1>2, <1>3, <1>4, <1>5 DEF Countable, Shown, From

\* An establishment is left out of the table only by as many as it may hold, and none of
\* them has less than what it was acknowledged for.
THEOREM TopAlwaysTop == PageSpec => []TopIsTop
<1>1. Inv /\ PageInv /\ ListsInv => TopIsTop
  <2> DEFINE of == Since(page.acked, page.now - LongDays * DayLength)
             rows == Shown("top")
             top == Top(page.kind, rows)
  <2> SUFFICES ASSUME Inv, PageInv, ListsInv, Windowed, NEW e \in {r.etab : r \in of} \ top
               PROVE  /\ Cardinality(top) = TopLimit
                      /\ \A f \in top : CountOf(page.kind, rows, f) >= CountOf(page.kind, of, e)
    BY DEF TopIsTop, CountOf
  <2>1. Countable(page.kind, rows) /\ of \in SUBSET rows
    BY ShownAreCountable DEF ListsInv
  <2>2. e \in Ranked(page.kind, rows) \ top
    BY <2>1 DEF Ranked
  <2> HIDE DEF of, rows
  <2>3. /\ Cardinality(top) = TopLimit
        /\ \A f \in top : CountOf(page.kind, rows, f) >= CountOf(page.kind, rows, e)
    BY <2>1, <2>2, TopAreFirst
  <2> HIDE DEF top
  <2>4. \A f : /\ CountOf(page.kind, rows, f) \in Nat /\ CountOf(page.kind, of, f) \in Nat
               /\ CountOf(page.kind, of, f) <= CountOf(page.kind, rows, f)
    BY <2>1, CountsGrow
  <2> QED BY <2>3, <2>4
<1> QED BY <1>1, PageInvHolds, ListsHold, PTL

-----------------------------------------------------------------------------
(* The trend: its days add up to what was received in them.                *)

\* The sum of a series.
LEMMA SumSeqIsSum == ASSUME NEW s PROVE SumSeq(s) = SumOver(s, DOMAIN s)
  BY Zenon DEF SumSeq, FoldSeq, FoldFunction, FoldFunctionOnSet, MapThenFoldSet,
               SumOver, Sums, Some

\* The day a row was received.
DayOf(rows) == [r \in rows |-> Day(r.received_at)]

\* The end of the trend is the series of its last days.
LEMMA TrendIsSeries ==
  ASSUME NEW rows \in SUBSET RowType, IsFiniteSet(rows), NEW today \in Nat
  PROVE  LET trend == ByDay(rows, today)
             end   == SubSeq(trend, TrendLength - ShortDays, TrendLength)
         IN  /\ SumSeq(trend) = Total(OfDays(rows, DayOf(rows), today, TrendLength))
             /\ SumSeq(end)   = Total(OfDays(rows, DayOf(rows), today, ShortDays + 1))
<1> DEFINE day   == DayOf(rows)
           trend == ByDay(rows, today)
           m     == TrendLength - ShortDays
           k     == ShortDays + 1
           end   == SubSeq(trend, m, TrendLength)
<1>1. \A r \in rows : day[r] = Day(r.received_at) /\ day[r] \in Int
  BY DayBounds DEF DayOf, RowType
<1>2. /\ TrendLength \in Nat /\ ShortDays \in Nat /\ today \in Int /\ m \in Nat
      /\ 1 <= m /\ k \in Nat /\ TrendLength - m + 1 = k
  BY PeriodsAssumption
<1>3. \A d : {r \in rows : Day(r.received_at) = d} = {r \in rows : day[r] = d}
  BY <1>1
<1> HIDE DEF day, m, k
<1>4. trend = DaySeries(rows, day, today, TrendLength)
  BY <1>3 DEF ByDay, DaySeries
<1>5. /\ Summable(trend, 1..TrendLength)
      /\ SumOver(trend, 1..TrendLength) = Total(OfDays(rows, day, today, TrendLength))
  <2> HIDE DEF trend
  <2> QED BY <1>1, <1>2, <1>4, DaysAddUp
<1>6. DOMAIN trend = 1..TrendLength
  BY DEF ByDay
<1>7. SumSeq(trend) = Total(OfDays(rows, day, today, TrendLength))
  BY <1>5, <1>6, SumSeqIsSum
<1>8. end = DaySeries(rows, day, today, k)
  <2>1. \A i \in m..TrendLength : trend[i] \in Nat
    <3> HIDE DEF trend
    <3> QED BY <1>2, <1>5 DEF Summable
  <2>2. end = [i \in 1..k |-> trend[m + i - 1]]
    <3> HIDE DEF trend
    <3> QED BY <1>2, <2>1, EndOfSeries
  <2>3. ASSUME NEW i \in 1..k
        PROVE  trend[m + i - 1] = Total({r \in rows : day[r] = today - (k - i)})
    <3>1. m + i - 1 \in 1..TrendLength
          /\ today - (TrendLength - (m + i - 1)) = today - (k - i)
      BY <1>2
    <3> QED BY <1>3, <3>1 DEF ByDay
  <2> HIDE DEF trend, end
  <2> QED BY <2>2, <2>3 DEF DaySeries
<1>9. DOMAIN end = 1..k
  BY <1>8 DEF DaySeries
<1>10. SumOver(end, 1..k) = Total(OfDays(rows, day, today, k))
  <2> HIDE DEF end
  <2> QED BY <1>1, <1>2, <1>8, DaysAddUp
<1>11. SumSeq(end) = Total(OfDays(rows, day, today, k))
  BY <1>9, <1>10, SumSeqIsSum
<1> QED BY <1>7, <1>11 DEF day, m, k

\* What the seven days counted was received today or in as many days before.
LEMMA ShortIsOfDays ==
  ASSUME page.now \in Nat, NEW time \in Nat, time >= From("short")
  PROVE  Day(time) >= Day(page.now) - ShortDays
<1> DEFINE t == Day(page.now)
           d == Day(time)
<1>1. /\ ShortDays \in Int /\ DayLength \in Int /\ 1 \in Int
  BY PeriodsAssumption, DayAssumption
<1>2. t \in Int /\ t * DayLength <= page.now
  BY DayBounds
<1>3. d \in Int /\ time < d * DayLength + DayLength
  BY DayBounds
<1>4. time >= page.now - ShortDays * DayLength
  BY DEF From
<1> HIDE DEF t, d
<1>5. (t - ShortDays) * DayLength = t * DayLength - ShortDays * DayLength
  BY <1>1, <1>2, DaysInTicks
<1>6. (d + 1) * DayLength = d * DayLength + DayLength
  <2>1. (d + 1) * DayLength = d * DayLength + 1 * DayLength
    BY <1>1, <1>3, DaysInTicks
  <2> QED BY <1>1, <2>1
<1>7. /\ t * DayLength \in Int /\ d * DayLength \in Int /\ ShortDays * DayLength \in Int
      /\ t - ShortDays \in Int /\ d + 1 \in Int
  BY <1>1, <1>2, <1>3, DaysInTicks
<1>8. (t - ShortDays) * DayLength < (d + 1) * DayLength
  BY <1>1, <1>2, <1>3, <1>4, <1>5, <1>6, <1>7
<1>9. t - ShortDays < d + 1
  BY <1>7, <1>8, DaysInTicks
<1> QED BY <1>1, <1>2, <1>3, <1>9 DEF t, d

\* The days of the trend hold no more than the table read after it; its last eight what
\* the seven days counted, unless a push came after midnight while the page was made.
THEOREM TrendAlwaysAgrees == PageSpec => []TrendAgrees
<1>1. Inv /\ PageInv /\ ListsInv => TrendAgrees
  <2> DEFINE today == Day(page.now)
             rows  == Shown("trend")
           k     == ShortDays + 1
             trend == ByDay(rows, today)
             end   == SubSeq(trend, TrendLength - ShortDays, TrendLength)
  <2> SUFFICES ASSUME Inv, PageInv, ListsInv, Sent({"incidents"})
               PROVE  /\ SumSeq(trend) <= Total(Shown("top"))
                      /\ \/ Total(Shown("short")) <= SumSeq(end)
                         \/ \E r \in Shown("short") : Day(r.received_at) > today
    BY DEF TrendAgrees
  <2>1. page # NoPage /\ page.kind = "incidents" /\ page.step = "sent" /\ Windowed
    BY DEF Sent, Windowed, NoPage
  <2>2. /\ Shown("short") \subseteq rows /\ rows \subseteq Shown("top")
        /\ Shown("top") \subseteq RowType /\ IsFiniteSet(Shown("top"))
    <3>1. Countable(page.kind, Shown("top"))
      BY <2>1, ShownAreCountable DEF ListsInv
    <3> QED BY <2>1, <3>1 DEF ListsInv, TrendInv, Shown, Countable
  <2>3. page.now \in Nat /\ today \in Nat
    <3>1. page.now \in Nat
      BY <2>1 DEF PageInv, PageTypes, PageType
    <3> QED BY <3>1, DayBounds
  <2>4. rows \in SUBSET RowType /\ IsFiniteSet(rows)
    BY <2>2, FS_Subset
  <2>5. /\ SumSeq(trend) = Total(OfDays(rows, DayOf(rows), today, TrendLength))
        /\ SumSeq(end)   = Total(OfDays(rows, DayOf(rows), today, ShortDays + 1))
    <3> HIDE DEF rows, today
    <3> QED BY <2>3, <2>4, TrendIsSeries
  <2>6. SumSeq(trend) <= Total(Shown("top"))
    <3>1. OfDays(rows, DayOf(rows), today, TrendLength) \subseteq Shown("top")
      BY <2>2 DEF OfDays
    <3> HIDE DEF rows, today, trend
    <3> QED BY <2>2, <2>5, <3>1, TotalGrows
  <2>7. ASSUME \A r \in Shown("short") : ~(Day(r.received_at) > today)
        PROVE  Total(Shown("short")) <= SumSeq(end)
    <3> DEFINE days == OfDays(rows, DayOf(rows), today, k)
    <3>1. ASSUME NEW r \in Shown("short") PROVE r \in days
      <4>1. r \in rows /\ r.received_at \in Nat
        BY <2>2, <2>4 DEF RowType
      <4>2. r.received_at >= From("short")
        BY <2>1 DEF PageInv, FiguresInv, After, Figures, Shown, Since
      <4>3. Day(r.received_at) >= today - ShortDays
        BY <2>3, <4>1, <4>2, ShortIsOfDays
      <4>4. Day(r.received_at) \in Nat /\ ShortDays \in Nat
        BY <4>1, DayBounds, PeriodsAssumption
      <4>5. ~(Day(r.received_at) > today)
        BY <2>7
      <4>6. DayOf(rows)[r] = Day(r.received_at)
        BY <4>1 DEF DayOf
      <4>7. k \in Nat /\ k - 1 = ShortDays
        BY <4>4
      <4> HIDE DEF today, rows, k
      <4>8. DayOf(rows)[r] \in today - (k - 1) .. today
        BY <2>3, <4>3, <4>4, <4>5, <4>6, <4>7
      <4> QED BY <4>1, <4>8 DEF OfDays
    <3>2. days \in SUBSET RowType /\ IsFiniteSet(days)
      <4>1. days \in SUBSET rows
        BY DEF OfDays
      <4> HIDE DEF rows, days
      <4> QED BY <2>4, <4>1, FS_Subset
    <3> HIDE DEF days, end
    <3>3. Total(Shown("short")) <= Total(days)
      BY <3>1, <3>2, TotalGrows
    <3> QED BY <2>5, <3>3 DEF days
  <2> QED BY <2>6, <2>7
<1> QED BY <1>1, PageInvHolds, ListsHold, PTL

=============================================================================
