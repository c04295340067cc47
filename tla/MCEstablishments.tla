-------------------------- MODULE MCEstablishments --------------------------
(* Establishments, and Ingest under it, on small instances. *)
EXTENDS Establishments, TLC

Beats == {[type |-> "heartbeat", tag |-> "ok", day |-> 0, n |-> 0]}

Symmetry == Permutations(Threads) \cup Permutations(Creators) \cup Permutations(Names)
=============================================================================
