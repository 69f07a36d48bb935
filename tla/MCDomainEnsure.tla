---------------------------- MODULE MCDomainEnsure ----------------------------
(***************************************************************************)
(* A small instance of DomainEnsure: two names, one subscription; a lone   *)
(* caller that starts over after failures, and two callers that overlap    *)
(* with each other and the panel.                                          *)
(***************************************************************************)
EXTENDS DomainEnsure

CONSTANTS c1, c2, n1, n2, s1, s2

Lone == [callers |-> {c1}, rejects |-> 2, lost |-> 2, kills |-> 1, edits |-> 0]
Rivals == [callers |-> {c1, c2}, rejects |-> 1, lost |-> 1, kills |-> 0, edits |-> 0]
Disturbed == [callers |-> {c1, c2}, rejects |-> 0, lost |-> 0, kills |-> 0, edits |-> 2]
All == {Lone, Rivals, Disturbed}
===============================================================================
