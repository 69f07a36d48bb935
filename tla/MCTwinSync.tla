------------------------------ MODULE MCTwinSync ------------------------------
(***************************************************************************)
(* A small instance of TwinSync: two files, and a source that changes      *)
(* between three trees; a lone caller observed by twin-current while the   *)
(* profile changes, a lone caller that meets faults and kills, and two     *)
(* that overlap.                                                           *)
(***************************************************************************)
EXTENDS TwinSync

CONSTANTS c1, c2, v1, v2, o1

\* The second differs from the first by file 2, the third has no file 1.
SourceTrees == {[f \in Files |-> v1],
                [f \in Files |-> IF f = 1 THEN v1 ELSE v2],
                [f \in Files |-> IF f = 1 THEN Absent ELSE v2]}

Observed == [calls |-> {c1}, serialized |-> TRUE, edits |-> 2, profiles |-> 1,
             faults |-> 0, kills |-> 0, again |-> 2, queries |-> 2]
Rough == [calls |-> {c1}, serialized |-> TRUE, edits |-> 1, profiles |-> 0,
          faults |-> 1, kills |-> 2, again |-> 1, queries |-> 0]
Overlap == [calls |-> {c1, c2}, serialized |-> FALSE, edits |-> 1, profiles |-> 0,
            faults |-> 0, kills |-> 1, again |-> 0, queries |-> 0]
Deployments == {Observed, Rough, Overlap}
===============================================================================
