------------------------------ MODULE MCSiteSync ------------------------------
(***************************************************************************)
(* A small instance of SiteSync: two files, a caller that starts over      *)
(* after failures and kills; a frozen deployment without the hash check,   *)
(* one of two directories that is edited, with it, and one with a clock.   *)
(***************************************************************************)
EXTENDS SiteSync

CONSTANTS c1, v1, v2, r1, r2

OneDir == [f \in Files |-> 1]
TwoDirs == [f \in Files |-> IF f = 1 THEN 1 ELSE 2]
Frozen ==
    [frozen |-> TRUE, hashed |-> FALSE, dir |-> OneDir, depth |-> 1,
     timed |-> FALSE, operation |-> 0, total |-> 0, runner |-> 0, faults |-> 2]
Edited == [Frozen EXCEPT !.frozen = FALSE, !.hashed = TRUE, !.dir = TwoDirs,
                            !.depth = 2, !.faults = 0]
\* Budgets, and a runner that leaves two units more.
Timed == [Frozen EXCEPT !.timed = TRUE, !.operation = 2, !.total = 3, !.runner = 5,
                           !.faults = 1]
Deployments == {Frozen, Edited, Timed}
===============================================================================
