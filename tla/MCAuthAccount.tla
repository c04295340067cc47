--------------------------- MODULE MCAuthAccount ---------------------------
(* AuthAccount on small instances. *)
EXTENDS AuthAccount, TLC

\* Threads are interchangeable (safety runs only).
ThreadSymmetry == Permutations(Requests)
=============================================================================
