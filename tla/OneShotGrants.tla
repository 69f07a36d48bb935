---------------------------- MODULE OneShotGrants ----------------------------
(***************************************************************************)
(* What apply_grant_replay.py promises its callers, without files, locks,  *)
(* or processes: "TTL for a consumed jti is grant expiry + CLOCK_SKEW.     *)
(* Second consume -> apply_grant_replay."  A grant is remembered from its  *)
(* first use until its retention ends, and while it is remembered it       *)
(* cannot be used again.                                                   *)
(***************************************************************************)
EXTENDS Naturals

CONSTANT Jtis          \* identifiers of the grants

VARIABLES clock,       \* wall-clock time
          until,       \* end of each grant's retention, 0 before it is issued
          spent,       \* the grants remembered as used
          uses         \* how often each grant was accepted (2 means "twice or more")

promise == <<clock, until, spent, uses>>

Init ==
    /\ clock = 1
    /\ until = [j \in Jtis |-> 0]
    /\ spent = {}
    /\ uses = [j \in Jtis |-> 0]

Issue(j) ==
    /\ until[j] = 0
    /\ until'[j] > clock
    /\ until' = [until EXCEPT ![j] = until'[j]]
    /\ UNCHANGED <<clock, spent, uses>>

Tick == clock' = clock + 1 /\ UNCHANGED <<until, spent, uses>>

\* Memory may be dropped, but only for grants whose retention has ended.
Outdated == {j \in Jtis : until[j] <= clock}

Forget ==
    /\ \E gone \in SUBSET Outdated : spent' = spent \ gone
    /\ UNCHANGED <<clock, until, uses>>

Spend(j) ==
    /\ until[j] # 0
    /\ j \in spent => j \in Outdated
    /\ \E gone \in SUBSET Outdated : spent' = (spent \ gone) \cup {j}
    /\ uses' = [uses EXCEPT ![j] = IF @ = 0 THEN 1 ELSE 2]
    /\ UNCHANGED <<clock, until>>

Next == Tick \/ Forget \/ (\E j \in Jtis : Issue(j) \/ Spend(j))

Spec == Init /\ [][Next]_promise
===============================================================================
