---------------------------- MODULE MCGrantReplay ----------------------------
(***************************************************************************)
(* Small instances of GrantReplay: two threads of one process and a call   *)
(* in a process of its own, or two calls in a process each.                *)
(***************************************************************************)
EXTENDS GrantReplay

CONSTANTS c1, c2, c3, p1, p2, j1, j2

ThreadsAndProcess == [c \in {c1, c2, c3} |-> IF c = c3 THEN p2 ELSE p1]
OwnProcess == [c \in {c1, c2} |-> IF c = c1 THEN p1 ELSE p2]
===============================================================================
