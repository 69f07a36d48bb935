---------------------------- MODULE MCMutateLease ----------------------------
(***************************************************************************)
(* A small instance of MutateLease: two issuing calls, overlapping or not, *)
(* and a guarded handler, with neither, one or both switches on.           *)
(***************************************************************************)
EXTENDS MutateLease

CONSTANTS i1, i2, g1, ssl

Deployments ==
    {[serialized |-> s, master |-> m, env |-> e] :
        s \in BOOLEAN, m \in BOOLEAN, e \in {{}, {ssl}}}
===============================================================================
