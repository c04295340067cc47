---------------------------- MODULE MCFleetView ----------------------------
(* FleetView on small instances. *)
EXTENDS FleetView, TLC

Push(type, tag, day, n) == [type |-> type, tag |-> tag, day |-> day, n |-> n]

\* What is looked at for its time.
Parted == {Push("heartbeat", "ok", 0, 0), Push("machine", "any", 0, 0)}

\* What is looked at for its status or its count too.
Signals == {Push("heartbeat", status, 0, 0) : status \in {"", "warning"}}
             \cup {Push("live", "any", 0, 1), Push("incidents", "any", 0, 1)}

NoPeriod == -1

\* Today goes from 3 to 5: days before, in and after the windows, and a week.
Usage == {Push("historical", "jour", d, 1) : d \in {2, 4}}
           \cup {Push("historical", "semaine", NoPeriod, 5)}

Reported == Parted \cup Signals \cup Usage

ThreadSymmetry == Permutations(Threads) \cup Permutations(Readers)

-----------------------------------------------------------------------------
\* A bound: requests overlap each other before the last instant, and beside pushes of
\* Parted only, of which an answer can show an old one; else there is one at a time.
AllParted ==
  /\ \A r \in db.raw : r.push \in Parted
  /\ \A t \in Threads : requests[t].status = "received" => requests[t].push \in Parted

Bounded ==
  \/ AllParted /\ clock < MaxClock
  \/ Cardinality({g \in Readers : readers[g] # NoReader}) <= 1

BoundedNext == ViewNext /\ Bounded'

BoundedSpec == ViewInit /\ [][BoundedNext]_<<vars, viewVars>>
=============================================================================
