----------------------------- MODULE Overviews -----------------------------
(***************************************************************************)
(* GET /api/incidents, /api/reports and /api/inventory: the pages that sum *)
(* up all the establishments, while pushes are being stored.               *)
(*                                                                         *)
(* `now` is taken first, then the parts are computed one after the other,  *)
(* each from a query of its own: what is stored in between is in the later *)
(* parts only.  Windows are of so many times 24 hours, the trend is of     *)
(* calendar days.                                                          *)
(***************************************************************************)
EXTENDS Queries, Sequences, SequencesExt

CONSTANTS
  ShortDays,   \* KPI_SHORT_WINDOW_DAYS
  LongDays,    \* KPI_LONG_WINDOW_DAYS
  TrendLength, \* TREND_WINDOW_DAYS
  TopLimit,    \* TOP_LIMIT
  RecentLimit  \* RECENT_LIMIT

\* Establishments are their identifiers; they are in the order of their names too.
ASSUME IdsAssumption == Etabs \subseteq Nat
ASSUME PeriodsAssumption ==
  /\ ShortDays \in Nat /\ LongDays \in Nat /\ TrendLength \in Nat
  /\ 0 < ShortDays /\ ShortDays < TrendLength /\ TrendLength <= LongDays
ASSUME LimitsAssumption ==
  TopLimit \in Nat \ {0} /\ RecentLimit \in Nat \ {0}

VARIABLE
  page  \* the request being served, what it has read so far; once sent, the answer

-----------------------------------------------------------------------------
(* What is computed from the rows.                                         *)

\* received_at, then id; the rows of one push of reports have increasing ids.
Precedes(q, r) ==
  \/ Before(q, r)
  \/ q.id = r.id /\ "item" \in DOMAIN q /\ q.item < r.item

\* Mutant: ORDER BY id DESC.
RecentById(rows) ==
  {r \in rows : Cardinality({q \in rows : q.id > r.id}) < RecentLimit}

\* ORDER BY received_at DESC, id DESC LIMIT
Recent(rows) ==
  {r \in rows : Cardinality({q \in rows : Precedes(r, q)}) < RecentLimit}

\* Refusals of all categories, or number of reports.
Count(kind, rows) == IF kind = "incidents" THEN Total(rows) ELSE Cardinality(rows)

Ranked(kind, rows) == {r.etab : r \in rows}

\* Mutant: cut in the order of the identifiers.
TopUnsorted(kind, rows) ==
  {e \in Ranked(kind, rows) : Cardinality({f \in Ranked(kind, rows) : f < e}) < TopLimit}

\* The first ones by decreasing total, then by name.
Top(kind, rows) ==
  LET CountOf(e)  == Count(kind, OfEtab(rows, e))
      Above(f, e) == \/ CountOf(f) > CountOf(e)
                     \/ CountOf(f) = CountOf(e) /\ f < e
  IN {e \in Ranked(kind, rows) :
        Cardinality({f \in Ranked(kind, rows) : Above(f, e)}) < TopLimit}

\* Mutant: the series ends yesterday.
ByDayYesterday(rows, today) ==
  [i \in 1..TrendLength |->
     Total({r \in rows : Day(r.received_at) = today - (TrendLength + 1 - i)})]

\* Days from the oldest to today, with zeros filled.
ByDay(rows, today) ==
  [i \in 1..TrendLength |->
     Total({r \in rows : Day(r.received_at) = today - (TrendLength - i)})]

SumSeq(s) == FoldSeq(+, 0, s)

-----------------------------------------------------------------------------
(* The three handlers.                                                     *)

NoPage == [step |-> "none"]

Parts == {"short", "long", "trend", "top", "recent", "lines"}

\* Mutant: the thirty days are read before the seven.
FollowingLongFirst(kind, step) ==
  CASE step = "asked"  -> IF kind = "inventory" THEN "lines" ELSE "long"
    [] step = "long"   -> "short"
    [] step = "short"  -> IF kind = "incidents" THEN "trend" ELSE "top"
    [] step = "trend"  -> "top"
    [] step = "top"    -> "recent"
    [] OTHER           -> "sent"

\* The order of the dictionary that is returned.
Following(kind, step) ==
  CASE step = "asked"  -> IF kind = "inventory" THEN "lines" ELSE "short"
    [] step = "short"  -> "long"
    [] step = "long"   -> IF kind = "incidents" THEN "trend" ELSE "top"
    [] step = "trend"  -> "top"
    [] step = "top"    -> "recent"
    [] OTHER           -> "sent"

\* What a page is about.  The inventories are raw-only pushes.
Table(kind) ==
  CASE kind = "incidents" -> db.incidents
    [] kind = "reports"   -> db.reports
    [] kind = "inventory" -> OfType(db.raw, "machine")

\* `acked` is for the properties.
Ask(kind) ==
  /\ page.step \in {"none", "sent"}
  /\ page' = [kind |-> kind, step |-> Following(kind, "asked"), now |-> clock,
              left |-> Etabs, rows |-> [p \in Parts |-> {}],
              acked |-> {r \in Table(kind) : r.id \in acked}]

\* Mutant: from a midnight, like the trend.
AgoMidnight(days) == (Day(page.now) - (days - 1)) * DayLength

\* To the second, not to the day.
Ago(days) == page.now - days * DayLength

Read(part, rows) ==
  /\ page.step = part
  /\ page' = [page EXCEPT !.rows[part] = rows, !.step = Following(page.kind, part)]

ReadShort  == Read("short", Since(Table(page.kind), Ago(ShortDays)))
ReadLong   == Read("long", Since(Table(page.kind), Ago(LongDays)))
ReadTop    == Read("top", Since(Table(page.kind), Ago(LongDays)))
ReadRecent == Read("recent", Recent(Table(page.kind)))

\* From the midnight that begins the first day.
ReadTrend ==
  Read("trend", Since(Table(page.kind), (Day(page.now) - (TrendLength - 1)) * DayLength))

\* The next establishment, by identifier: its last inventory, if any.
ReadLine ==
  /\ page.step = "lines"
  /\ page.left # {}
  /\ LET e == CHOOSE f \in page.left : \A g \in page.left : f <= g
     IN page' = [page EXCEPT !.left = @ \ {e},
                             !.rows["lines"] = @ \cup Newest(OfEtab(Table("inventory"), e))]

EndLines ==
  /\ page.step = "lines"
  /\ page.left = {}
  /\ page' = [page EXCEPT !.step = Following(page.kind, "lines")]

PageInit == Init /\ page = NoPage

Pages ==
  \/ \E kind \in {"incidents", "reports", "inventory"} : Ask(kind)
  \/ ReadShort \/ ReadLong \/ ReadTrend \/ ReadTop \/ ReadRecent
  \/ ReadLine \/ EndLines

PageNext == \/ Next /\ UNCHANGED page
            \/ Pages /\ UNCHANGED vars

PageSpec == PageInit /\ [][PageNext]_<<vars, page>>

-----------------------------------------------------------------------------
(* Properties.                                                             *)

Sent(kinds) == page.step = "sent" /\ page.kind \in kinds

Windowed == Sent({"incidents", "reports"})

Shown(part) == page.rows[part]

\* What the short figure counts the long one counts too, although a push may be
\* stored between their queries; and the table of establishments counts all of it.
ShortWithinLong ==
  Windowed => Shown("short") \subseteq Shown("long") /\ Shown("long") \subseteq Shown("top")

\* Each figure counts everything of its window that was acknowledged before the page
\* was asked for, and nothing that is not stored.
TotalsAreTrue ==
  Windowed =>
    \A part \in {"short", "long", "top"} :
      LET from == page.now - (IF part = "short" THEN ShortDays ELSE LongDays) * DayLength
      IN /\ Since(page.acked, from) \subseteq Shown(part)
         /\ Shown(part) \subseteq Since(Table(page.kind), from)

\* What is counted in the figures is in the list below them, unless the list is full
\* of what came after it.
RecentExplainsTotals ==
  Windowed =>
    \A r \in Shown("long") \ Shown("recent") :
      /\ Cardinality(Shown("recent")) = RecentLimit
      /\ \A q \in Shown("recent") : Precedes(r, q)

\* An establishment is left out of the top only by others that have at least what
\* it was acknowledged for.
TopIsTop ==
  Windowed =>
    LET top == Top(page.kind, Shown("top"))
        CountOf(rows, e) == Count(page.kind, OfEtab(rows, e))
        of  == Since(page.acked, page.now - LongDays * DayLength)
    IN \A e \in {r.etab : r \in of} \ top :
         /\ Cardinality(top) = TopLimit
         /\ \A f \in top : CountOf(Shown("top"), f) >= CountOf(of, e)

\* The trend and the figures of one page: its days hold no more than the thirty days
\* of the table read after it; its last eight hold what the seven days counted,
\* unless something was received after midnight while the page was made.
TrendAgrees ==
  Sent({"incidents"}) =>
    LET today == Day(page.now)
        trend == ByDay(Shown("trend"), today)
        end   == SubSeq(trend, TrendLength - ShortDays, TrendLength)
    IN /\ SumSeq(trend) <= Total(Shown("top"))
       /\ \/ Total(Shown("short")) <= SumSeq(end)
          \/ \E r \in Shown("short") : Day(r.received_at) > today

\* No line of the inventory is older than an inventory acknowledged before the page
\* was asked for.
InventoryIsCurrent ==
  Sent({"inventory"}) =>
    \A r \in page.acked :
      \E q \in Shown("lines") : q.etab = r.etab /\ ~Before(q, r)
=============================================================================
