------------------------------ MODULE Queries ------------------------------
(* What the queries of all the views are made of, over the tables of Ingest. *)
EXTENDS Ingest, FiniteSetsExt

CONSTANT
  DayLength  \* ticks of a day

ASSUME DayAssumption == DayLength \in Nat \ {0}

Day(time) == time \div DayLength

OfEtab(rows, e) == {r \in rows : r.etab = e}

\* None or one row.
Newest(rows) == {r \in rows : IsLast(r, rows)}

\* received_at >= time
Since(rows, time) == {r \in rows : r.received_at >= time}

Total(rows) == MapThenSumSet(LAMBDA r : r.push.n, rows)
=============================================================================
