---------------------------- MODULE MCReleaseStore ----------------------------
(***************************************************************************)
(* A small instance of ReleaseVerify: two releases.  One call of the store *)
(* at a time that meets faults and a kill, or two overlapping ones; and a  *)
(* verifying call that takes turns with one, or overlaps it.               *)
(***************************************************************************)
EXTENDS ReleaseVerify

CONSTANTS h1, h2, r1, r2, v1

Serial ==
    [calls |-> {h1}, strategies |-> AllStrategies, serialized |-> TRUE, faults |-> 2, kills |-> 1]
Overlap ==
    [calls |-> {h1, h2}, strategies |-> {"auto"}, serialized |-> FALSE, faults |-> 0, kills |-> 0]
InTurns == [Serial EXCEPT !.strategies = {"auto"}, !.faults = 1]
Beside == [Overlap EXCEPT !.calls = {h1}, !.kills = 1]
Deployments == {Serial, Overlap, InTurns, Beside}
Watched == {InTurns, Beside}
New == {Beside}

\* Before the cut-over, after it, with every rung, without any address.
Ladders ==
    {[origin |-> TRUE, ip |-> TRUE, targets |-> FALSE, tls |-> TRUE, public |-> FALSE],
     [origin |-> FALSE, ip |-> FALSE, targets |-> FALSE, tls |-> TRUE, public |-> FALSE],
     [origin |-> TRUE, ip |-> TRUE, targets |-> TRUE, tls |-> TRUE, public |-> TRUE],
     [origin |-> TRUE, ip |-> FALSE, targets |-> FALSE, tls |-> FALSE, public |-> TRUE]}
Requests ==
    {[kind |-> k, rel |-> r, origin |-> l.origin, ip |-> l.ip, targets |-> l.targets,
      tls |-> l.tls \/ k = "release", public |-> l.public] :
        k \in {"release", "publish"}, r \in {r1, r2}, l \in Ladders}
===============================================================================
