---------------------------- MODULE MCOverviews ----------------------------
(* Overviews, and Ingest under it, on small instances. *)
EXTENDS Overviews, TLC

Push(type, n) == [type |-> type, tag |-> "any", day |-> 0, n |-> n]

\* One and two refusals, two reports at once, an inventory.
Counted == {Push("incidents", 1), Push("incidents", 2), Push("reports", 2),
            Push("machine", 0)}

ThreadSymmetry == Permutations(Threads)
=============================================================================
