----------------------------- MODULE GrantReplay -----------------------------
(***************************************************************************)
(* Apply grants and the store of consumed grant identifiers (jti):         *)
(* apply_grant.py (issue, verify, verify-and-consume) and                  *)
(* apply_grant_replay.py (the memory and the file store).                  *)
(*                                                                         *)
(* A call is one run of a mutating handler.  It verifies the grant, does   *)
(* other work, reads the time, takes its process's lock, loads the store,  *)
(* and either refuses the grant as a replay or saves the store with the    *)
(* grant in it.  The lock is a threading.Lock: it orders the calls of one  *)
(* process only.  Every handler is declared isolated=True, so a deployment *)
(* has one process per call; the in-process form (several threads, one     *)
(* lock) is the one the store's code is written for.                       *)
(***************************************************************************)
EXTENDS Naturals

CONSTANTS
    Calls,        \* concurrent handler calls
    Jtis,         \* grants
    Procs,        \* operating-system processes
    Host,         \* Host[c] is the process call c runs in
    FileStore,    \* TRUE iff APPLY_GRANT_JTI_STORE names a file
    Isolated,     \* TRUE iff a process ends with its call
    Serialized,   \* TRUE iff the runner runs one process at a time
    Skew,         \* CLOCK_SKEW_SECONDS
    MaxTtl,       \* MAX_TTL_SECONDS
    MaxClock,     \* bound: the time stops there
    MaxKills,     \* bound: processes killed by the runner's deadline
    NoCall, NoJti \* "nobody holds the lock", "no grant in hand"

ASSUME ReplayAssumption ==
    /\ Host \in [Calls -> Procs]
    /\ {FileStore, Isolated, Serialized} \subseteq BOOLEAN
    /\ {Skew, MaxTtl, MaxClock, MaxKills} \subseteq Nat
    /\ MaxTtl > 0
    /\ NoCall \notin Calls
    /\ NoJti \notin Jtis
    /\ "file" \notin Procs

VARIABLES
    clock,        \* time.time()
    until,        \* expires_at + Skew of each issued grant, 0 before
    entries,      \* entries[s][j]: when store s may forget j, 0 if j is not in s
    lock,         \* lock[p]: the call of process p inside `with _lock`
    pc,           \* where each call is
    jti,          \* the grant each call presents
    now,          \* the call's own reading of the time, taken before the lock
    snap,         \* the entries a call loaded and purged
    kills,        \* processes killed so far
    uses,         \* history: how often a grant was accepted (2: twice or more)
    early         \* history: the same, counting acceptances before retention ends

vars == <<clock, until, entries, lock, pc, jti, now, snap, kills, uses, early>>

Stores == {"file"} \cup Procs
\* resolve_jti_replay_store
StoreOf(c) == IF FileStore THEN "file" ELSE Host[c]
Empty == [j \in Jtis |-> 0]
Ended == {"granted", "refused"}
Count(n) == IF n = 0 THEN 1 ELSE 2

Init ==
    /\ clock = 1
    /\ until = Empty
    /\ entries = [s \in Stores |-> Empty]
    /\ lock = [p \in Procs |-> NoCall]
    /\ pc = [c \in Calls |-> "idle"]
    /\ jti = [c \in Calls |-> NoJti]
    /\ now = [c \in Calls |-> 0]
    /\ snap = [c \in Calls |-> Empty]
    /\ kills = 0
    /\ uses = Empty
    /\ early = Empty

Tick ==
    /\ clock < MaxClock
    /\ clock' = clock + 1
    /\ UNCHANGED <<until, entries, lock, pc, jti, now, snap, kills, uses, early>>

\* issue_apply_grant: a positive lifetime of at most MaxTtl.
Issue(j) ==
    /\ until[j] = 0
    /\ \E ttl \in 1..MaxTtl : until' = [until EXCEPT ![j] = clock + ttl + Skew]
    /\ UNCHANGED <<clock, entries, lock, pc, jti, now, snap, kills, uses, early>>

\* The runner starts a call; a serialised one starts none beside a process
\* that has a call in it, while one process's threads may overlap.
Begin(c) ==
    /\ pc[c] = "idle"
    /\ Serialized => \A d \in Calls : pc[d] # "idle" => Host[d] = Host[c]
    /\ \E j \in Jtis :
        /\ until[j] # 0
        /\ jti' = [jti EXCEPT ![c] = j]
    /\ pc' = [pc EXCEPT ![c] = "verify"]
    /\ UNCHANGED <<clock, until, entries, lock, now, snap, kills, uses, early>>

\* verify_apply_grant: the only check that depends on the time is the expiry.
Unexpired(j) == clock <= until[j]

VerifyAccepts(c) ==
    /\ pc[c] = "verify"
    /\ Unexpired(jti[c])
    /\ pc' = [pc EXCEPT ![c] = "verified"]
    /\ UNCHANGED <<clock, until, entries, lock, jti, now, snap, kills, uses, early>>

\* An expired grant is refused; so is, at any time, one whose signature, plan
\* hash, target, artifact, actor, pack or risk class does not match.
VerifyRefuses(c) ==
    /\ pc[c] = "verify"
    /\ pc' = [pc EXCEPT ![c] = "refused"]
    /\ UNCHANGED <<clock, until, entries, lock, jti, now, snap, kills, uses, early>>

\* consume: now_ts is read before the lock is taken.
ReadClock(c) ==
    /\ pc[c] = "verified"
    /\ now' = [now EXCEPT ![c] = clock]
    /\ pc' = [pc EXCEPT ![c] = "waiting"]
    /\ UNCHANGED <<clock, until, entries, lock, jti, snap, kills, uses, early>>

\* _purge: entries whose retention has ended are dropped.
Purged(store, t) == [j \in Jtis |-> IF store[j] <= t THEN 0 ELSE store[j]]

\* Mutant of Load: the store is read outside `with _lock`.
LoadUnlocked(c) ==
    LET kept == Purged(entries[StoreOf(c)], now[c])
    IN  /\ pc[c] = "waiting"
        /\ entries' = IF FileStore THEN entries
                      ELSE [entries EXCEPT ![StoreOf(c)] = kept]
        /\ IF kept[jti[c]] # 0
           THEN /\ pc' = [pc EXCEPT ![c] = "refused"]
                /\ UNCHANGED <<snap, lock>>
           ELSE /\ pc' = [pc EXCEPT ![c] = "loaded"]
                /\ snap' = [snap EXCEPT ![c] = kept]
                /\ lock' = [lock EXCEPT ![Host[c]] = c]
        /\ UNCHANGED <<clock, until, jti, now, kills, uses, early>>

\* Mutant of Load: the lock is not a `with` block, and the refusal returns
\* without releasing it.
LoadRefusesLocked(c) ==
    LET kept == Purged(entries[StoreOf(c)], now[c])
    IN  /\ pc[c] = "waiting"
        /\ lock[Host[c]] = NoCall
        /\ entries' = IF FileStore THEN entries
                      ELSE [entries EXCEPT ![StoreOf(c)] = kept]
        /\ lock' = [lock EXCEPT ![Host[c]] = c]
        /\ IF kept[jti[c]] # 0
           THEN /\ pc' = [pc EXCEPT ![c] = "refused"]
                /\ UNCHANGED snap
           ELSE /\ pc' = [pc EXCEPT ![c] = "loaded"]
                /\ snap' = [snap EXCEPT ![c] = kept]
        /\ UNCHANGED <<clock, until, jti, now, kills, uses, early>>

\* The lock is taken and the store loaded.  The memory store is purged in
\* place; the file store only in the loaded copy.
Load(c) ==
    LET kept == Purged(entries[StoreOf(c)], now[c])
    IN  /\ pc[c] = "waiting"
        /\ lock[Host[c]] = NoCall
        /\ entries' = IF FileStore THEN entries
                      ELSE [entries EXCEPT ![StoreOf(c)] = kept]
        /\ IF kept[jti[c]] # 0
           THEN /\ pc' = [pc EXCEPT ![c] = "refused"]
                /\ UNCHANGED <<snap, lock>>
           ELSE /\ pc' = [pc EXCEPT ![c] = "loaded"]
                /\ snap' = [snap EXCEPT ![c] = kept]
                /\ lock' = [lock EXCEPT ![Host[c]] = c]
        /\ UNCHANGED <<clock, until, jti, now, kills, uses, early>>

\* Mutant of Save: the new file holds this grant only.
SaveOnlyThis(c) ==
    LET j == jti[c]
    IN  /\ pc[c] = "loaded"
        /\ entries' = [entries EXCEPT ![StoreOf(c)] = [Empty EXCEPT ![j] = until[j]]]
        /\ lock' = [lock EXCEPT ![Host[c]] = NoCall]
        /\ pc' = [pc EXCEPT ![c] = "granted"]
        /\ snap' = [snap EXCEPT ![c] = Empty]
        /\ uses' = [uses EXCEPT ![j] = Count(@)]
        /\ early' = IF clock < until[j] THEN [early EXCEPT ![j] = Count(@)] ELSE early
        /\ UNCHANGED <<clock, until, jti, now, kills>>

\* The loaded entries plus this grant replace the store (os.replace is
\* atomic); the lock is released and the caller may mutate.
Save(c) ==
    LET j == jti[c]
    IN  /\ pc[c] = "loaded"
        /\ entries' = [entries EXCEPT ![StoreOf(c)] = [snap[c] EXCEPT ![j] = until[j]]]
        /\ lock' = [lock EXCEPT ![Host[c]] = NoCall]
        /\ pc' = [pc EXCEPT ![c] = "granted"]
        /\ snap' = [snap EXCEPT ![c] = Empty]
        /\ uses' = [uses EXCEPT ![j] = Count(@)]
        /\ early' = IF clock < until[j] THEN [early EXCEPT ![j] = Count(@)] ELSE early
        /\ UNCHANGED <<clock, until, jti, now, kills>>

\* The call answers.  An isolated process ends here and its memory with it.
Return(c) ==
    /\ pc[c] \in Ended
    /\ pc' = [pc EXCEPT ![c] = "idle"]
    /\ jti' = [jti EXCEPT ![c] = NoJti]
    /\ now' = [now EXCEPT ![c] = 0]
    /\ entries' = IF Isolated THEN [entries EXCEPT ![Host[c]] = Empty] ELSE entries
    /\ UNCHANGED <<clock, until, lock, snap, kills, uses, early>>

\* The runner kills a process at its deadline: its calls, its lock and its
\* memory are gone, the file stays as it was.
Kill(p) ==
    LET dead == {c \in Calls : Host[c] = p}
    IN  /\ kills < MaxKills
        /\ \E c \in dead : pc[c] # "idle"
        /\ pc' = [c \in Calls |-> IF c \in dead THEN "idle" ELSE pc[c]]
        /\ jti' = [c \in Calls |-> IF c \in dead THEN NoJti ELSE jti[c]]
        /\ now' = [c \in Calls |-> IF c \in dead THEN 0 ELSE now[c]]
        /\ snap' = [c \in Calls |-> IF c \in dead THEN Empty ELSE snap[c]]
        /\ lock' = [lock EXCEPT ![p] = NoCall]
        /\ entries' = [entries EXCEPT ![p] = Empty]
        /\ kills' = kills + 1
        /\ UNCHANGED <<clock, until, uses, early>>

Step(c) ==
    \/ Begin(c) \/ VerifyAccepts(c) \/ VerifyRefuses(c) \/ ReadClock(c)
    \/ Load(c) \/ Save(c) \/ Return(c)

Next ==
    \/ Tick
    \/ \E j \in Jtis : Issue(j)
    \/ \E c \in Calls : Step(c)
    \/ \E p \in Procs : Kill(p)

Spec == Init /\ [][Next]_vars
-------------------------------------------------------------------------------
\* Types; a call in progress presents an issued grant; and the lock of a
\* process is held exactly while one of its calls is between load and save, so
\* an answered or killed call leaves it free for the next one.
TypeOK ==
    /\ clock \in Nat
    /\ until \in [Jtis -> Nat]
    /\ entries \in [Stores -> [Jtis -> Nat]]
    /\ lock \in [Procs -> Calls \cup {NoCall}]
    /\ pc \in [Calls -> {"idle", "verify", "verified", "waiting", "loaded"} \cup Ended]
    /\ jti \in [Calls -> Jtis \cup {NoJti}]
    /\ now \in [Calls -> Nat]
    /\ snap \in [Calls -> [Jtis -> Nat]]
    /\ kills \in Nat
    /\ uses \in [Jtis -> 0..2]
    /\ early \in [Jtis -> 0..2]
    /\ \A c \in Calls : pc[c] # "idle" => jti[c] \in Jtis /\ until[jti[c]] # 0
    /\ \A c \in Calls : pc[c] = "loaded" => lock[Host[c]] = c
    /\ \A p \in Procs : lock[p] # NoCall => Host[lock[p]] = p /\ pc[lock[p]] = "loaded"

\* No grant is accepted twice before its retention (expiry plus skew) ends,
\* whatever calls run beside each other, are killed or are retried: the second
\* consume is answered apply_grant_replay (apply_grant_replay.py).
SingleUse == \A j \in Jtis : early[j] < 2

\* At most one call is between load and save: what a common lock or a runner
\* that serialises its calls provides.
Exclusive ==
    \A c, d \in Calls : pc[c] = "loaded" /\ pc[d] = "loaded" => c = d

\* The file store, seen through its entries, keeps the abstract promise.
Promise == INSTANCE OneShotGrants WITH
    spent <- {j \in Jtis : entries["file"][j] # 0}

KeepsPromise == Promise!Spec
===============================================================================
