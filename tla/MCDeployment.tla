---------------------------- MODULE MCDeployment ----------------------------
(* Instances of Deployment.                                                *)
EXTENDS Deployment

\* A bound: .env is edited when it has a JWT_SECRET, as it has from the start on the
\* machine of the phase before.
Bounded == edits' = edits \/ file["jwt"].text # 0

BoundedNext == Next /\ Bounded

BoundedSpec == Init /\ [][BoundedNext]_vars /\ WF_vars(Serve)
=============================================================================
