------------------------- MODULE MCCredentialRotation -------------------------
(***************************************************************************)
(* A small instance of CredentialRotation: two callers for one account,    *)
(* each starting over after a failure or a kill, over every kind of        *)
(* request, with and without a runner that admits one call at a time.      *)
(***************************************************************************)
EXTENDS CredentialRotation

CONSTANTS c1, c2
===============================================================================
