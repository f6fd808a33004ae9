--------------------------- MODULE MCControlPlane ---------------------------
(* The control plane of two machines, with the monkey on or off.           *)
EXTENDS ControlPlane

CONSTANT v

About(who, acts, faults) ==
    [who |-> who, maxDisruptions |-> acts, maxFailures |-> faults]

\* A visitor acts twice; viewers watch one act; the monkey's loop runs on
\* with Docker failing once; viewers watch the monkey.
MCDeployments ==
    {About({v}, 2, 1), About({v, "viewer"}, 1, 1),
     About({"monkey"}, 0, 1), About({"monkey", "viewer"}, 0, 0)}
=============================================================================
