----------------------------- MODULE MCSslLadder ------------------------------
(***************************************************************************)
(* A small instance of SslLadder: a lone caller in every mode but assign   *)
(* that meets faults and a kill, one whose probes fail too, one in mode    *)
(* assign, and two that overlap, with and without an authority.            *)
(***************************************************************************)
EXTENDS SslLadder

CONSTANTS c1, c2

Holding(held) == [n \in CertNames |-> IF n \in DOMAIN held THEN held[n] ELSE "absent"]
SmallRepositories ==
    {Holding([own |-> "other"]),
     Holding([own |-> "covers", le |-> "other"]),
     Holding([le |-> "other", ss |-> "covers"]),
     Holding([san |-> "other", ss |-> "other"])}

Truthful == [calls |-> {c1}, modes |-> Modes \ {"assign"}, serialized |-> TRUE,
             issues |-> TRUE, faults |-> 2, blips |-> 0, kills |-> 1]
Unissued == [Truthful EXCEPT !.issues = FALSE]
Blinking == [Truthful EXCEPT !.modes = {"auto", "assign"}, !.faults = 1, !.blips = 2]
Overlap == [calls |-> {c1, c2}, modes |-> {"auto", "letsencrypt"}, serialized |-> FALSE,
            issues |-> TRUE, faults |-> 0, blips |-> 1, kills |-> 0]
SmallDeployments == {Truthful, Unissued, Blinking, Overlap, [Overlap EXCEPT !.issues = FALSE]}
===============================================================================
