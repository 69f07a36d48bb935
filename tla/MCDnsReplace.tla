----------------------------- MODULE MCDnsReplace -----------------------------
(***************************************************************************)
(* A small instance of DnsReplace: one caller that starts over after every *)
(* failure, for each kind of host, and two callers that overlap with each  *)
(* other and the panel.                                                    *)
(***************************************************************************)
EXTENDS DnsReplace

CONSTANTS c1, c2, v1, v2

Contrary == [c \in {c1, c2} |-> IF c = c1 THEN v1 ELSE v2]
Single ==
    [callers |-> {c1}, host |-> "plain", size |-> 3, ids |-> 20, rejects |-> 2, lost |-> 2, kills |-> 1, edits |-> 0]
Overlap ==
    [callers |-> {c1, c2}, host |-> "plain", size |-> 2, ids |-> 6, rejects |-> 1, lost |-> 0, kills |-> 0, edits |-> 1]
Below == [Single EXCEPT !.host = "below", !.size = 2]
Apex == [Below EXCEPT !.host = "apex", !.ids = 8]
Killed == [Overlap EXCEPT !.rejects = 0, !.kills = 1]
All == {Single, Below, Apex, Overlap, Killed}
===============================================================================
