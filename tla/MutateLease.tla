------------------------------ MODULE MutateLease ------------------------------
(***************************************************************************)
(* The session mutate lease (apply_grant.py, session/command/mutate-lease  *)
(* of core.py): a file that for a while opens the gates of the mutating    *)
(* handlers, beside the two permanent switches in the environment.         *)
(*                                                                         *)
(* A lease is written to `<path>.tmp` and renamed to `<path>`; it is       *)
(* revoked by removing `<path>`.  Every issuer uses the same `<path>.tmp`, *)
(* and a rename moves the file, not what a writer goes on to put into it,  *)
(* so files are modelled apart from their names.  The guarded handlers     *)
(* read the lease anew at each of their gates.                             *)
(***************************************************************************)
EXTENDS Naturals, FiniteSets

CONSTANTS
    Issuers,     \* calls of session/command/mutate-lease
    Guarded,     \* calls of the handlers behind the gates
    Flags,       \* names of apply switches
    Sync,        \* the switch of site/command/sync and publish
    Default,     \* DEFAULT_HANDOFF_APPLIES
    None,        \* no file, no lease
    Empty, Torn, \* contents of a file that is no lease
    Requests,    \* lifetimes that issuers ask for
    MinTtl,      \* 60 seconds
    MaxTtl,      \* MAX_LEASE_TTL_SECONDS
    Skew,        \* CLOCK_SKEW_SECONDS
    Settings,    \* the deployments considered, see `setting`
    MaxClock,    \* bound: the time modelled
    MaxIssues,   \* bound: leases issued
    MaxFaults,   \* bound: file operations that fail
    MaxKills     \* bound: issuing calls killed by the runner's deadline

ASSUME LeaseAssumption ==
    /\ IsFiniteSet(Issuers) /\ Issuers \cap Guarded = {}
    /\ Default \subseteq Flags /\ Default # {} /\ Sync \in Flags
    /\ Requests \subseteq Nat
    /\ {MinTtl, MaxTtl, Skew, MaxClock, MaxIssues, MaxFaults, MaxKills} \subseteq Nat
    /\ MinTtl <= MaxTtl
    /\ \A x \in {None, Empty, Torn} :
          x \notin Nat /\ x \notin [number : Nat, expires : Nat, applies : SUBSET Flags]
    /\ Settings \subseteq [serialized : BOOLEAN, master : BOOLEAN, env : SUBSET Flags]

VARIABLES
    setting,  \* fixed: whether issuing calls are admitted one at a time, whether
              \* AUTONOMY_MUTATIONS_ENABLED is 1, and the apply switches that are 1
    clock,    \* the time
    name,     \* name[n]: the file that has this name
    content,  \* content[f]: what is in file f
    pc,       \* where each call is
    mine,     \* the lease that an issuing call writes
    fd,       \* the file it has open
    flag,     \* the switch of each guarded call
    used,     \* leases issued, faults and kills so far
    granted,  \* history: the last lease answered ok and not revoked since
    last,     \* history: when a lease was last asked for
    closed,   \* history: a clear was answered ok, or a lease would be too old by
              \* now, and none was being issued then or asked for since
    late      \* history: guarded calls that began after that, switches off

vars == <<setting, clock, name, content, pc, mine, fd, flag, used, granted, last, closed, late>>
files == <<name, content>>
history == <<granted, last, closed, late>>

Inodes == 1..(Cardinality(Issuers) + 2)
Lease == [number : 1..MaxIssues, expires : Nat, applies : SUBSET Flags]
Issuing == {"open", "write", "replace"}
Checking == {"first", "second"}

Init ==
    /\ setting \in Settings
    /\ clock = 0
    /\ name = [n \in {"path", "tmp"} |-> None]
    /\ content = [f \in Inodes |-> Empty]
    /\ pc = [c \in Issuers \cup Guarded |-> "idle"]
    /\ mine = [i \in Issuers |-> None]
    /\ fd = [i \in Issuers |-> None]
    /\ flag = [g \in Guarded |-> Sync]
    /\ used = [what \in {"issues", "faults", "kills"} |-> 0]
    /\ granted = 0
    /\ last = 0
    /\ closed = TRUE
    /\ late = {}

Goto(c, place) == pc' = [pc EXCEPT ![c] = place]
Spend(what, max) == used[what] < max /\ used' = [used EXCEPT ![what] = @ + 1]
Fault == Spend("faults", MaxFaults)
Least(a, b) == IF a <= b THEN a ELSE b

NobodyIssues == \A i \in Issuers : pc[i] \notin Issuing
MayBegin(i) == pc[i] \notin Issuing /\ (setting.serialized => NobodyIssues)

\* Mutant of Ends: the file stays open.
EndsLeaks(i) ==
    /\ Goto(i, "idle")
    /\ mine' = [mine EXCEPT ![i] = None]
    /\ UNCHANGED fd

\* An issuing call answers or dies, and lets go of its file.  What it answers
\* shows in `granted`.
Ends(i) ==
    /\ Goto(i, "idle")
    /\ mine' = [mine EXCEPT ![i] = None]
    /\ fd' = [fd EXCEPT ![i] = None]

\* load_mutate_lease: the lease that opens gates at this moment.
Readable == name["path"] # None /\ content[name["path"]] \notin {Empty, Torn}
InForce == content[name["path"]]
Active == Readable /\ clock <= InForce.expires + Skew
-------------------------------------------------------------------------------
\* Mutant of Lifetime: what is asked for is what is given.
LifetimeUncapped(ttl) == ttl

\* issue_mutate_lease_file caps the lifetime.
Lifetime(ttl) == Least(ttl, MaxTtl)

\* A lease is asked for; a lifetime that is too short or an unknown risk class
\* is turned down.  No list of switches means the default list.
Issue(i) ==
    /\ MayBegin(i)
    /\ \E ttl \in Requests, some \in SUBSET Flags :
        /\ ttl >= MinTtl
        /\ mine' = [mine EXCEPT ![i] =
                      [number |-> used["issues"] + 1, expires |-> clock + Lifetime(ttl),
                       applies |-> IF some = {} THEN Default ELSE some]]
    /\ Spend("issues", MaxIssues)
    /\ last' = clock /\ closed' = FALSE /\ late' = {}
    /\ Goto(i, "open")
    /\ UNCHANGED <<clock, files, fd, flag, granted>>

\* A file nobody has a name or a descriptor for.
Unused == CHOOSE f \in Inodes :
    f \notin {name["path"], name["tmp"]} /\ \A i \in Issuers : fd[i] # f

\* Mutant of Open: the lease file itself is written.
OpenInPlace(i) ==
    LET f == IF name["path"] # None THEN name["path"] ELSE Unused
    IN  /\ pc[i] = "open"
        /\ name' = [name EXCEPT !["path"] = f]
        /\ content' = [content EXCEPT ![f] = Empty]
        /\ fd' = [fd EXCEPT ![i] = f]
        /\ Goto(i, "write")
        /\ UNCHANGED <<clock, mine, flag, used, history>>

\* open(tmp, "w") empties the file of that name, or makes one.
Open(i) ==
    LET f == IF name["tmp"] # None THEN name["tmp"] ELSE Unused
    IN  /\ pc[i] = "open"
        /\ \/ /\ name' = [name EXCEPT !["tmp"] = f]
              /\ content' = [content EXCEPT ![f] = Empty]
              /\ fd' = [fd EXCEPT ![i] = f]
              /\ Goto(i, "write")
              /\ UNCHANGED <<mine, used>>
           \/ Fault /\ Ends(i) /\ UNCHANGED files
        /\ UNCHANGED <<clock, flag, history>>

\* The payload is written when the file is closed: over what another issuer
\* wrote into the same file, of which a longer text leaves its end behind.
Write(i) ==
    /\ pc[i] = "write"
    /\ \/ /\ \E result \in {mine[i], Torn} :
              /\ content[fd[i]] = Empty => result = mine[i]
              /\ content' = [content EXCEPT ![fd[i]] = result]
          /\ Goto(i, "replace")
          /\ fd' = [fd EXCEPT ![i] = None]
          /\ UNCHANGED <<mine, used>>
       \/ Fault /\ Ends(i) /\ content' = [content EXCEPT ![fd[i]] = Torn]
    /\ UNCHANGED <<clock, name, flag, history>>

\* os.replace; the name may be gone, renamed by another issuer.
Replace(i) ==
    /\ pc[i] = "replace"
    /\ \/ /\ name["tmp"] # None
          /\ name' = [path |-> name["tmp"], tmp |-> None]
          /\ Ends(i)
          /\ granted' = mine[i].number
          /\ UNCHANGED used
       \/ /\ IF name["tmp"] = None THEN UNCHANGED used ELSE Fault
          /\ Ends(i)
          /\ UNCHANGED <<name, granted>>
    /\ UNCHANGED <<clock, content, flag, last, closed, late>>

\* clear_mutate_lease_file: no file is as good as a removed one.
Clear(i) ==
    /\ MayBegin(i)
    /\ \/ /\ name' = [name EXCEPT !["path"] = None]
          /\ Ends(i)
          /\ granted' = 0
          /\ closed' = (closed \/ NobodyIssues)
          /\ UNCHANGED used
       \/ Fault /\ Ends(i) /\ UNCHANGED <<name, granted, closed>>
    /\ UNCHANGED <<clock, content, flag, last, late>>

\* The runner's deadline.
Kill(i) ==
    /\ pc[i] \in Issuing
    /\ Spend("kills", MaxKills)
    /\ Ends(i)
    /\ UNCHANGED <<clock, files, flag, history>>

Tick ==
    /\ clock < MaxClock
    /\ clock' = clock + 1
    /\ closed' = (closed \/ (NobodyIssues /\ clock' > last + MaxTtl + Skew))
    /\ UNCHANGED <<files, pc, mine, fd, flag, used, granted, last, late>>
-------------------------------------------------------------------------------
Switched(f) == f \in setting.env
Listed(f) == Active /\ f \in InForce.applies

\* A guarded handler is called with apply.
Begin(g) ==
    /\ pc[g] = "idle"
    /\ \E f \in Flags :
        /\ flag' = [flag EXCEPT ![g] = f]
        /\ late' = IF closed /\ ~(setting.master /\ Switched(f)) THEN late \cup {g} ELSE late
    /\ Goto(g, "first")
    /\ UNCHANGED <<clock, files, mine, fd, used, granted, last, closed>>

Unguarded == UNCHANGED <<clock, files, mine, fd, flag, used, history>>

\* mutations_gates_open, the one gate of site sync, asks for both switches or
\* any lease; the other handlers ask for the master switch or a lease first ...
First(g) ==
    /\ pc[g] = "first"
    /\ Goto(g, IF flag[g] = Sync
               THEN IF (setting.master /\ Switched(Sync)) \/ Active THEN "mutating" ELSE "refused"
               ELSE IF setting.master \/ Active THEN "second" ELSE "refused")
    /\ Unguarded

\* ... and then, mutate_lease_allows_apply, for their own switch or a lease
\* that lists it.
Second(g) ==
    /\ pc[g] = "second"
    /\ Goto(g, IF Switched(flag[g]) \/ Listed(flag[g]) THEN "mutating" ELSE "refused")
    /\ Unguarded

\* The call is over, mutated or refused.
Return(g) ==
    /\ pc[g] \in {"mutating", "refused"}
    /\ Goto(g, "idle")
    /\ late' = late \ {g}
    /\ UNCHANGED <<clock, files, mine, fd, flag, used, granted, last, closed>>

Next ==
    /\ \/ Tick
       \/ \E i \in Issuers : Issue(i) \/ Open(i) \/ Write(i) \/ Replace(i) \/ Clear(i) \/ Kill(i)
       \/ \E g \in Guarded : Begin(g) \/ First(g) \/ Second(g) \/ Return(g)
    /\ UNCHANGED setting

Spec == Init /\ [][Next]_vars
-------------------------------------------------------------------------------
\* Types; a call that writes has a lease and an open file, and the file that is
\* being written is not free to be taken.
TypeOK ==
    /\ setting \in Settings
    /\ clock \in 0..MaxClock /\ last \in 0..MaxClock
    /\ name \in [{"path", "tmp"} -> Inodes \cup {None}]
    /\ content \in [Inodes -> Lease \cup {Empty, Torn}]
    /\ \A i \in Issuers : pc[i] \in {"idle"} \cup Issuing
    /\ \A g \in Guarded : pc[g] \in {"idle", "mutating", "refused"} \cup Checking
    /\ \A i \in Issuers : mine[i] # None <=> pc[i] \in Issuing
    /\ \A i \in Issuers : fd[i] # None <=> pc[i] = "write"
    /\ mine \in [Issuers -> Lease \cup {None}]
    /\ fd \in [Issuers -> Inodes \cup {None}]
    /\ flag \in [Guarded -> Flags]
    /\ granted \in 0..MaxIssues
    /\ closed \in BOOLEAN /\ late \subseteq Guarded

\* Once a revocation has been answered ok, or the longest lifetime and the
\* clock skew have passed, with no lease being issued, no lease opens a gate
\* until another is asked for, whatever unfinished issuers left behind.
\* Nor does a handler that is called after that, without both of its switches,
\* mutate, whatever it meets between its two gates.
StaysClosed ==
    /\ closed => ~Active
    /\ \A g \in late : pc[g] # "mutating"

\* With issuing calls one at a time, the lease file is the lease that was last
\* answered ok and not revoked, wherever an issuer failed or was killed since.
LeaseIsLastGranted ==
    setting.serialized => granted = IF Readable THEN InForce.number ELSE 0
===============================================================================
