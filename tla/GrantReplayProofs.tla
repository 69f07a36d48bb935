-------------------------- MODULE GrantReplayProofs --------------------------
(***************************************************************************)
(* Theorems about GrantReplay, for any number of calls, grants and         *)
(* processes.  Single use rests on one condition, that no two calls are    *)
(* between load and save at once.  Calls of one process meet it through    *)
(* the lock (LockExcludes); calls of several processes meet it only if the *)
(* runner serialises them (SerialExcludes).  The invariant is about one    *)
(* store: the file, or the memory of a process that lives on.              *)
(***************************************************************************)
EXTENDS GrantReplay, TLAPS

\* Calls read the time before they use it, and the clock never goes back.
NowIsPast == \A c \in Calls : pc[c] \in {"waiting", "loaded"} => now[c] <= clock

\* The calls share store s and it has not been lost: it is the file, or the
\* memory of a process that serves many calls and was not killed.
Shared(s) ==
    /\ \A c \in Calls : StoreOf(c) = s
    /\ s = "file" <=> FileStore
    /\ ~FileStore => ~Isolated

Lasts == FileStore \/ kills = 0

\* An entry of the store or of a loaded copy is the grant's own retention end.
EntriesGenuine(s) ==
    /\ \A j \in Jtis : entries[s][j] \in {0, until[j]}
    /\ \A c \in Calls, j \in Jtis : pc[c] = "loaded" => snap[c][j] \in {0, until[j]}

\* A loaded copy is the store without grants whose retention is over, and
\* without the grant the call is about to record.
SnapFaithful(s) ==
    \A c \in Calls : pc[c] = "loaded" =>
        /\ snap[c][jti[c]] = 0
        /\ \A j \in Jtis :
            /\ snap[c][j] # 0 => entries[s][j] # 0
            /\ entries[s][j] # 0 /\ snap[c][j] = 0 => until[j] <= clock

\* A grant accepted early is remembered until its retention ends.
Remembered(s) ==
    \A j \in Jtis : early[j] # 0 =>
        /\ until[j] # 0
        /\ clock < until[j] => entries[s][j] # 0

IInv(s) ==
    /\ TypeOK /\ NowIsPast
    /\ EntriesGenuine(s) /\ SnapFaithful(s) /\ Remembered(s) /\ SingleUse

\* A loaded copy of grants and times is again one.
LEMMA PurgedType ==
    ASSUME NEW store \in [Jtis -> Nat], NEW t \in Nat
    PROVE  Purged(store, t) \in [Jtis -> Nat]
BY DEF Purged

\* Types hold whatever the store and the deployment are.
THEOREM TypeCorrect == Spec => []TypeOK
<1> USE ReplayAssumption DEF Stores, Ended, Empty
<1>1. Init => TypeOK
  BY DEF Init, TypeOK
<1>2. TypeOK /\ [Next]_vars => TypeOK'
  <2> SUFFICES ASSUME TypeOK, [Next]_vars PROVE TypeOK'
    OBVIOUS
  <2>1. CASE Tick
    BY <2>1 DEF Tick, TypeOK
  <2>2. ASSUME NEW j \in Jtis, Issue(j) PROVE TypeOK'
    BY <2>2 DEF Issue, TypeOK
  <2>3. ASSUME NEW c \in Calls, Begin(c) PROVE TypeOK'
    BY <2>3 DEF Begin, TypeOK
  <2>4. ASSUME NEW c \in Calls, VerifyAccepts(c) \/ VerifyRefuses(c) PROVE TypeOK'
    <3>1. UNCHANGED <<clock, until, entries, lock, jti, now, snap, kills, uses, early>>
      BY <2>4 DEF VerifyAccepts, VerifyRefuses
    <3>2. pc[c] = "verify" /\ \E place \in {"verified", "refused"} : pc' = [pc EXCEPT ![c] = place]
      BY <2>4 DEF VerifyAccepts, VerifyRefuses
    <3>3. QED
      BY <3>1, <3>2 DEF TypeOK
  <2>5. ASSUME NEW c \in Calls, ReadClock(c) PROVE TypeOK'
    BY <2>5 DEF ReadClock, TypeOK
  <2>6. ASSUME NEW c \in Calls, Load(c) PROVE TypeOK'
    <3> DEFINE kept == Purged(entries[StoreOf(c)], now[c])
    <3>1. StoreOf(c) \in Stores /\ kept \in [Jtis -> Nat]
      BY PurgedType DEF TypeOK, StoreOf
    <3>2. /\ pc[c] = "waiting" /\ lock[Host[c]] = NoCall
          /\ entries' \in {entries, [entries EXCEPT ![StoreOf(c)] = kept]}
          /\ \/ pc' = [pc EXCEPT ![c] = "refused"] /\ UNCHANGED <<snap, lock>>
             \/ /\ pc' = [pc EXCEPT ![c] = "loaded"]
                /\ snap' = [snap EXCEPT ![c] = kept]
                /\ lock' = [lock EXCEPT ![Host[c]] = c]
          /\ UNCHANGED <<clock, until, jti, now, kills, uses, early>>
      BY <2>6 DEF Load
    <3> HIDE DEF kept
    <3>3. entries' \in [Stores -> [Jtis -> Nat]]
      <4>1. entries \in [Stores -> [Jtis -> Nat]]
        BY DEF TypeOK
      <4>2. [entries EXCEPT ![StoreOf(c)] = kept] \in [Stores -> [Jtis -> Nat]]
        BY <3>1, <4>1
      <4>3. QED
        BY <3>2, <4>1, <4>2
    <3>4. CASE pc' = [pc EXCEPT ![c] = "refused"] /\ UNCHANGED <<snap, lock>>
      BY <3>2, <3>3, <3>4 DEF TypeOK
    <3>5. CASE /\ pc' = [pc EXCEPT ![c] = "loaded"]
               /\ snap' = [snap EXCEPT ![c] = kept]
               /\ lock' = [lock EXCEPT ![Host[c]] = c]
      <4>1. snap' \in [Calls -> [Jtis -> Nat]]
        BY <3>1, <3>5 DEF TypeOK
      <4>2. /\ pc' \in [Calls -> {"idle", "verify", "verified", "waiting", "loaded"} \cup Ended]
            /\ lock' \in [Procs -> Calls \cup {NoCall}]
        BY <3>5 DEF TypeOK
      <4>3. /\ \A d \in Calls : pc'[d] = "loaded" => lock'[Host[d]] = d
            /\ \A p \in Procs : lock'[p] # NoCall =>
                    Host[lock'[p]] = p /\ pc'[lock'[p]] = "loaded"
        BY <3>2, <3>5 DEF TypeOK
      <4>4. \A d \in Calls : pc'[d] # "idle" => pc[d] # "idle"
        BY <3>2, <3>5 DEF TypeOK
      <4>5. QED
        BY <3>2, <3>3, <4>1, <4>2, <4>3, <4>4 DEF TypeOK
    <3>6. QED
      BY <3>2, <3>4, <3>5
  <2>7. ASSUME NEW c \in Calls, Save(c) PROVE TypeOK'
    <3>1. jti[c] \in Jtis /\ Host[c] \in Procs /\ StoreOf(c) \in Stores
      BY <2>7 DEF Save, TypeOK, StoreOf
    <3>2. entries' \in [Stores -> [Jtis -> Nat]]
      BY <2>7, <3>1 DEF Save, TypeOK
    <3>3. uses' \in [Jtis -> 0..2] /\ early' \in [Jtis -> 0..2]
      BY <2>7, <3>1 DEF Save, TypeOK, Count
    <3>4. QED
      BY <2>7, <3>1, <3>2, <3>3 DEF Save, TypeOK
  <2>8. ASSUME NEW c \in Calls, Return(c) PROVE TypeOK'
    BY <2>8 DEF Return, TypeOK
  <2>9. ASSUME NEW p \in Procs, Kill(p) PROVE TypeOK'
    BY <2>9 DEF Kill, TypeOK
  <2>10. CASE UNCHANGED vars
    BY <2>10 DEF vars, TypeOK
  <2>11. QED
    BY <2>1, <2>2, <2>3, <2>4, <2>5, <2>6, <2>7, <2>8, <2>9, <2>10 DEF Next, Step
<1>3. QED
  BY <1>1, <1>2, PTL DEF Spec

\* Threads of one process: the lock keeps two of them from being between load
\* and save of the store (consume, under `with _lock`).
THEOREM LockExcludes ==
    ASSUME \A c, d \in Calls : Host[c] = Host[d]
    PROVE  Spec => []Exclusive
<1>1. TypeOK => Exclusive
  BY DEF TypeOK, Exclusive
<1>2. QED
  BY <1>1, TypeCorrect, PTL

\* Processes of their own: a runner that runs one process at a time leaves the
\* rest to the lock of that process.
THEOREM SerialExcludes ==
    ASSUME Serialized
    PROVE  Spec => []Exclusive
<1> DEFINE Alone == \A c, d \in Calls : pc[c] # "idle" /\ pc[d] # "idle" => Host[c] = Host[d]
<1>1. Init => Alone
  BY DEF Init
<1>2. TypeOK /\ Alone /\ [Next]_vars => Alone'
  <2> SUFFICES ASSUME TypeOK, Alone, [Next]_vars PROVE Alone'
    OBVIOUS
  <2>1. CASE Tick \/ (\E j \in Jtis : Issue(j)) \/ UNCHANGED vars
    BY <2>1 DEF Tick, Issue, vars
  <2>2. ASSUME NEW c \in Calls, Begin(c) PROVE Alone'
    BY <2>2 DEF Begin, TypeOK
  <2>3. ASSUME NEW c \in Calls,
               VerifyAccepts(c) \/ VerifyRefuses(c) \/ ReadClock(c) \/ Return(c)
        PROVE Alone'
    BY <2>3 DEF VerifyAccepts, VerifyRefuses, ReadClock, Return, TypeOK, Ended
  <2>4. ASSUME NEW c \in Calls, Load(c) PROVE Alone'
    BY <2>4 DEF Load, TypeOK
  <2>5. ASSUME NEW c \in Calls, Save(c) PROVE Alone'
    BY <2>5 DEF Save, TypeOK
  <2>6. ASSUME NEW p \in Procs, Kill(p) PROVE Alone'
    BY <2>6 DEF Kill, TypeOK
  <2>7. QED
    BY <2>1, <2>2, <2>3, <2>4, <2>5, <2>6 DEF Next, Step
<1>3. Alone /\ TypeOK => Exclusive
  BY DEF Exclusive, TypeOK
<1>4. QED
  BY <1>1, <1>2, <1>3, TypeCorrect, PTL DEF Spec

\* The strengthened invariant is kept by every step that does not lose the
\* store, out of a state in which no two calls are between load and save.
LEMMA StepKeepsIInv ==
    ASSUME NEW s \in Stores, Shared(s), Lasts',
           IInv(s), Exclusive, TypeOK', [Next]_vars
    PROVE  IInv(s)'
<1> USE ReplayAssumption DEF IInv
<1>1. CASE Tick
  BY <1>1 DEF Tick, TypeOK, NowIsPast, EntriesGenuine, SnapFaithful, Remembered, SingleUse
<1>2. ASSUME NEW j \in Jtis, Issue(j) PROVE IInv(s)'
  <2>1. until[j] = 0 /\ until' = [until EXCEPT ![j] = until'[j]] /\ until'[j] > clock
    BY <1>2 DEF Issue, TypeOK
  <2>2. UNCHANGED <<clock, entries, pc, jti, now, snap, early>>
    BY <1>2 DEF Issue
  <2>3. entries[s][j] = 0 /\ \A c \in Calls : pc[c] = "loaded" => snap[c][j] = 0
    BY <2>1 DEF EntriesGenuine
  <2>4. NowIsPast' /\ SingleUse'
    BY <2>2 DEF NowIsPast, SingleUse
  <2>5. EntriesGenuine(s)'
    BY <2>1, <2>2, <2>3 DEF EntriesGenuine, TypeOK
  <2>6. SnapFaithful(s)'
    <3> SUFFICES ASSUME NEW c \in Calls, pc[c] = "loaded",
                        NEW i \in Jtis, entries[s][i] # 0, snap[c][i] = 0
                 PROVE  until'[i] <= clock
      BY <2>2 DEF SnapFaithful
    <3>1. until'[i] = until[i]
      BY <2>1, <2>3 DEF TypeOK
    <3>2. QED
      BY <3>1 DEF SnapFaithful
  <2>7. Remembered(s)'
    BY <2>1, <2>2 DEF Remembered, TypeOK
  <2>8. QED
    BY <2>4, <2>5, <2>6, <2>7
<1>3. ASSUME NEW c \in Calls, Begin(c) \/ VerifyAccepts(c) \/ VerifyRefuses(c)
      PROVE IInv(s)'
  <2>1. \A d \in Calls : pc'[d] \in {"waiting", "loaded"} => pc'[d] = pc[d] /\ jti'[d] = jti[d]
    BY <1>3 DEF Begin, VerifyAccepts, VerifyRefuses, TypeOK
  <2>2. UNCHANGED <<clock, until, entries, now, snap, early>>
    BY <1>3 DEF Begin, VerifyAccepts, VerifyRefuses
  <2>3. QED
    BY <2>1, <2>2 DEF NowIsPast, EntriesGenuine, SnapFaithful, Remembered, SingleUse
<1>4. ASSUME NEW c \in Calls, ReadClock(c) PROVE IInv(s)'
  <2>1. \A d \in Calls : pc'[d] = "loaded" => pc[d] = "loaded"
    BY <1>4 DEF ReadClock, TypeOK
  <2>2. UNCHANGED <<clock, until, entries, jti, snap, early>>
    BY <1>4 DEF ReadClock
  <2>3. NowIsPast'
    BY <1>4 DEF ReadClock, NowIsPast, TypeOK
  <2>4. QED
    BY <2>1, <2>2, <2>3 DEF EntriesGenuine, SnapFaithful, Remembered, SingleUse
<1>5. ASSUME NEW c \in Calls, Load(c) PROVE IInv(s)'
  <2> DEFINE kept == Purged(entries[s], now[c])
  <2>1. UNCHANGED <<clock, until, jti, now, uses, early>>
    BY <1>5 DEF Load
  <2>2. \A d \in Calls : pc'[d] \in {"waiting", "loaded"} =>
            \/ pc'[d] = pc[d] /\ snap'[d] = snap[d]
            \/ d = c /\ pc[d] = "waiting" /\ snap'[d] = kept /\ kept[jti[c]] = 0
    BY <1>5 DEF Load, Shared, TypeOK
  <2>3. \A j \in Jtis : kept[j] = IF entries[s][j] <= now[c] THEN 0 ELSE entries[s][j]
    BY DEF Purged
  <2>4. now[c] <= clock /\ now[c] \in Nat /\ clock \in Nat
    BY <1>5 DEF Load, NowIsPast, TypeOK
  <2>5. \A j \in Jtis : kept[j] \in {0, until[j]}
    BY <2>3 DEF EntriesGenuine
  <2>6. \A j \in Jtis : entries[s][j] # 0 /\ kept[j] = 0 => until[j] <= clock
    <3> SUFFICES ASSUME NEW j \in Jtis, entries[s][j] # 0, kept[j] = 0
                 PROVE  until[j] <= clock
      OBVIOUS
    <3>1. entries[s][j] <= now[c] /\ entries[s][j] = until[j]
      BY <2>3 DEF EntriesGenuine
    <3>2. until[j] \in Nat
      BY DEF TypeOK
    <3>3. QED
      BY <2>4, <3>1, <3>2
  <2>7. \A j \in Jtis : kept[j] # 0 => entries[s][j] # 0
    BY <2>3
  <2>8. entries'[s] = IF FileStore THEN entries[s] ELSE kept
    BY <1>5 DEF Load, Shared, TypeOK
  \* The memory store is purged in place, so a copy loaded before would go stale.
  <2>9. ~FileStore => \A d \in Calls : pc[d] # "loaded"
    BY <1>5 DEF Load, Shared, StoreOf, TypeOK
  <2> HIDE DEF kept
  <2>10. NowIsPast'
    BY <2>1, <2>2 DEF NowIsPast
  <2>11. EntriesGenuine(s)'
    BY <2>1, <2>2, <2>5, <2>8 DEF EntriesGenuine
  <2>12. SnapFaithful(s)'
    <3>1. CASE FileStore
      BY <3>1, <2>1, <2>2, <2>6, <2>7, <2>8 DEF SnapFaithful
    <3>2. CASE ~FileStore
      BY <3>2, <2>1, <2>2, <2>8, <2>9 DEF SnapFaithful
    <3>3. QED
      BY <3>1, <3>2
  <2>13. Remembered(s)'
    <3> SUFFICES ASSUME NEW j \in Jtis, early[j] # 0
                 PROVE  until[j] # 0 /\ (clock < until[j] => entries'[s][j] # 0)
      BY <2>1 DEF Remembered
    <3>1. until[j] # 0 /\ (clock < until[j] => entries[s][j] # 0)
      BY DEF Remembered
    <3>2. until[j] \in Nat
      BY DEF TypeOK
    <3>3. QED
      BY <3>1, <3>2, <2>4, <2>6, <2>8
  <2>14. QED
    BY <2>1, <2>10, <2>11, <2>12, <2>13 DEF SingleUse
<1>6. ASSUME NEW c \in Calls, Save(c) PROVE IInv(s)'
  <2> DEFINE j == jti[c]
  <2>1. j \in Jtis /\ until[j] # 0 /\ pc[c] = "loaded"
    BY <1>6 DEF Save, TypeOK
  <2>2. \A i \in Jtis : entries'[s][i] = IF i = j THEN until[j] ELSE snap[c][i]
    <3>1. entries' = [entries EXCEPT ![s] = [snap[c] EXCEPT ![j] = until[j]]]
      BY <1>6 DEF Save, Shared
    <3>2. snap[c] \in [Jtis -> Nat] /\ s \in DOMAIN entries
      BY DEF TypeOK, Stores
    <3>3. QED
      BY <3>1, <3>2
  <2>3. \A d \in Calls : pc'[d] # "loaded" /\ (pc'[d] = "waiting" => pc[d] = "waiting")
    BY <1>6, <2>1 DEF Save, Exclusive, TypeOK
  <2>4. UNCHANGED <<clock, until, jti, now>>
    BY <1>6 DEF Save
  <2>5. \A i \in Jtis : early'[i] =
            IF i = j /\ clock < until[j] THEN Count(early[j]) ELSE early[i]
    BY <1>6, <2>1 DEF Save, TypeOK
  <2>6. clock < until[j] => early[j] = 0
    BY <2>1 DEF SnapFaithful, Remembered, TypeOK
  <2>7. EntriesGenuine(s)'
    BY <2>1, <2>2, <2>3, <2>4 DEF EntriesGenuine
  <2>8. Remembered(s)'
    <3> SUFFICES ASSUME NEW i \in Jtis, early'[i] # 0
                 PROVE  until[i] # 0 /\ (clock < until[i] => entries'[s][i] # 0)
      BY <2>4 DEF Remembered
    <3>1. CASE i = j
      BY <3>1, <2>1, <2>2
    <3>2. CASE i # j
      BY <3>2, <2>1, <2>2, <2>5 DEF Remembered, SnapFaithful, TypeOK
    <3>3. QED
      BY <3>1, <3>2
  <2>9. SingleUse'
    BY <2>5, <2>6 DEF SingleUse, Count
  <2>10. QED
    BY <2>3, <2>4, <2>7, <2>8, <2>9 DEF NowIsPast, SnapFaithful
<1>7. ASSUME NEW c \in Calls, Return(c) PROVE IInv(s)'
  <2>1. \A d \in Calls : pc'[d] \in {"waiting", "loaded"} =>
            pc'[d] = pc[d] /\ jti'[d] = jti[d] /\ now'[d] = now[d]
    BY <1>7 DEF Return, TypeOK
  <2>2. entries'[s] = entries[s]
    BY <1>7 DEF Return, Shared, TypeOK, Stores
  <2>3. UNCHANGED <<clock, until, snap, early>>
    BY <1>7 DEF Return
  <2>4. QED
    BY <2>1, <2>2, <2>3 DEF NowIsPast, EntriesGenuine, SnapFaithful, Remembered, SingleUse
<1>8. ASSUME NEW p \in Procs, Kill(p) PROVE IInv(s)'
  <2>1. \A d \in Calls : pc'[d] \in {"waiting", "loaded"} =>
            pc'[d] = pc[d] /\ jti'[d] = jti[d] /\ now'[d] = now[d] /\ snap'[d] = snap[d]
    BY <1>8 DEF Kill, TypeOK
  <2>2. entries'[s] = entries[s]
    BY <1>8 DEF Kill, Lasts, Shared, TypeOK, Stores
  <2>3. UNCHANGED <<clock, until, early>>
    BY <1>8 DEF Kill
  <2>4. QED
    BY <2>1, <2>2, <2>3 DEF NowIsPast, EntriesGenuine, SnapFaithful, Remembered, SingleUse
<1>9. CASE UNCHANGED vars
  BY <1>9 DEF vars, NowIsPast, EntriesGenuine, SnapFaithful, Remembered, SingleUse
<1>10. QED
  BY <1>1, <1>2, <1>3, <1>4, <1>5, <1>6, <1>7, <1>8, <1>9 DEF Next, Step

\* It holds at the start, of every store.
LEMMA StartsInIInv ==
    ASSUME NEW s \in Stores, Init
    PROVE  IInv(s)
BY ReplayAssumption
DEF Init, IInv, TypeOK, NowIsPast, EntriesGenuine, SnapFaithful, Remembered,
    SingleUse, Stores, Empty, Ended

LEMMA FileIsShared ==
    ASSUME FileStore
    PROVE  "file" \in Stores /\ Shared("file")
BY DEF Stores, Shared, StoreOf

\* A grant is accepted at most once before its retention ends, as long as no
\* two calls are between load and save: threads of one process (LockExcludes),
\* processes that the runner serialises (SerialExcludes), across any number of
\* kills and restarts (FileJtiReplayStore.consume).
THEOREM GrantSingleUse ==
    ASSUME FileStore
    PROVE  Spec /\ []Exclusive => []SingleUse
<1>1. Init => IInv("file")
  BY FileIsShared, StartsInIInv
<1>2. IInv("file") /\ Exclusive /\ TypeOK' /\ [Next]_vars => IInv("file")'
  BY FileIsShared, StepKeepsIInv DEF Lasts
<1>3. IInv("file") => SingleUse
  BY DEF IInv
<1>4. QED
  BY <1>1, <1>2, <1>3, TypeCorrect, PTL DEF Spec

\* Threads of one process that share the file store use a grant once, and so
\* do processes that run one at a time.
THEOREM DeployedSingleUse ==
    ASSUME FileStore, Serialized \/ \A c, d \in Calls : Host[c] = Host[d]
    PROVE  Spec => []SingleUse
<1>1. CASE Serialized
  BY <1>1, GrantSingleUse, SerialExcludes, PTL
<1>2. CASE \A c, d \in Calls : Host[c] = Host[d]
  BY <1>2, GrantSingleUse, LockExcludes, PTL
<1>3. QED
  BY <1>1, <1>2

\* Threads of one process that serves many calls use a grant once without a
\* file, as long as the process lives: the memory store is purged in place,
\* under the lock (MemoryJtiReplayStore.consume).
THEOREM MemorySingleUse ==
    ASSUME ~FileStore, ~Isolated, NEW p \in Procs, \A c \in Calls : Host[c] = p
    PROVE  Spec => [](kills = 0 => SingleUse)
<1> USE ReplayAssumption
<1> DEFINE Kept == kills = 0 => IInv(p)
<1>1. p \in Stores /\ Shared(p)
  BY DEF Stores, Shared, StoreOf
<1>2. Init => Kept
  BY <1>1, StartsInIInv
<1>3. TypeOK /\ [Next]_vars => (kills' = 0 => kills = 0)
  BY DEF Next, Step, vars, Tick, Issue, Begin, VerifyAccepts, VerifyRefuses, ReadClock,
         Load, Save, Return, Kill, TypeOK
<1>4. TypeOK /\ Kept /\ Exclusive /\ TypeOK' /\ [Next]_vars => Kept'
  BY <1>1, <1>3, StepKeepsIInv DEF Lasts
<1>5. Kept => (kills = 0 => SingleUse)
  BY DEF IInv
<1>6. Spec => []Exclusive
  BY LockExcludes
<1>7. QED
  BY <1>2, <1>4, <1>5, <1>6, TypeCorrect, PTL DEF Spec

\* The file store implements the abstract promise under the same condition:
\* every step is a step of OneShotGrants or leaves its state alone.
THEOREM FileStoreKeepsPromise ==
    ASSUME FileStore
    PROVE  Spec /\ []Exclusive => KeepsPromise
<1> USE ReplayAssumption
<1>1. Init => Promise!Init
  BY DEF Init, Promise!Init, Empty, Stores
<1>2. Init => IInv("file")
  BY FileIsShared, StartsInIInv
<1>3. IInv("file") /\ Exclusive /\ TypeOK' /\ [Next]_vars => IInv("file")'
  BY FileIsShared, StepKeepsIInv DEF Lasts
<1>4. IInv("file") /\ [Next]_vars => [Promise!Next]_(Promise!promise)
  <2> SUFFICES ASSUME IInv("file"), [Next]_vars
               PROVE  Promise!Next \/ UNCHANGED Promise!promise
    OBVIOUS
  <2>1. CASE Tick
    BY <2>1 DEF Tick, Promise!Next, Promise!Tick
  <2>2. ASSUME NEW j \in Jtis, Issue(j) PROVE Promise!Next
    <3>1. until'[j] > clock /\ until' = [until EXCEPT ![j] = until'[j]]
      BY <2>2 DEF Issue, IInv, TypeOK
    <3>2. QED
      BY <2>2, <3>1 DEF Issue, Promise!Next, Promise!Issue
  <2>3. ASSUME UNCHANGED <<clock, until, uses>>, entries'["file"] = entries["file"]
        PROVE  UNCHANGED Promise!promise
    BY <2>3 DEF Promise!promise
  <2>4. ASSUME NEW c \in Calls,
               Begin(c) \/ VerifyAccepts(c) \/ VerifyRefuses(c) \/ ReadClock(c)
                   \/ Load(c) \/ Return(c)
        PROVE  UNCHANGED Promise!promise
    BY <2>3, <2>4
    DEF Begin, VerifyAccepts, VerifyRefuses, ReadClock, Load, Return, IInv, TypeOK, Stores
  <2>5. ASSUME NEW p \in Procs, Kill(p) PROVE UNCHANGED Promise!promise
    BY <2>3, <2>5 DEF Kill, IInv, TypeOK, Stores
  <2>6. ASSUME NEW c \in Calls, Save(c) PROVE Promise!Next
    <3>0. PICK j \in Jtis : j = jti[c]
      BY <2>6 DEF Save, IInv, TypeOK
    <3> DEFINE old == {i \in Jtis : entries["file"][i] # 0}
               new == {i \in Jtis : entries'["file"][i] # 0}
               gone == {i \in old : snap[c][i] = 0}
    <3>1. until[j] # 0 /\ pc[c] = "loaded"
      BY <2>6, <3>0 DEF Save, IInv, TypeOK
    <3>2. entries'["file"] = [snap[c] EXCEPT ![j] = until[j]]
      <4>1. entries' = [entries EXCEPT !["file"] = [snap[c] EXCEPT ![j] = until[j]]]
        BY <2>6, <3>0 DEF Save, StoreOf
      <4>2. QED
        BY <4>1 DEF IInv, TypeOK, Stores
    <3>3. gone \in SUBSET Promise!Outdated
      BY <3>1 DEF IInv, SnapFaithful, Promise!Outdated
    <3>4. new = (old \ gone) \cup {j}
      <4>1. snap[c] \in [Jtis -> Nat] /\ \A i \in Jtis : snap[c][i] # 0 => i \in old
        BY <3>1 DEF IInv, TypeOK, SnapFaithful
      <4>2. QED
        BY <3>1, <3>2, <4>1
    <3>5. j \in old => j \in Promise!Outdated
      BY <3>0, <3>1 DEF IInv, SnapFaithful, Promise!Outdated
    <3>6. UNCHANGED <<clock, until>> /\ uses' = [uses EXCEPT ![j] = IF @ = 0 THEN 1 ELSE 2]
      BY <2>6, <3>0 DEF Save, Count
    <3> HIDE DEF gone
    <3>7. Promise!Spend(j)
      BY <3>1, <3>3, <3>4, <3>5, <3>6 DEF Promise!Spend
    <3>8. QED
      BY <3>7 DEF Promise!Next
  <2>7. CASE UNCHANGED vars
    BY <2>3, <2>7 DEF vars
  <2>8. QED
    BY <2>1, <2>2, <2>4, <2>5, <2>6, <2>7 DEF Next, Step
<1>5. QED
  BY <1>1, <1>2, <1>3, <1>4, TypeCorrect, PTL DEF Spec, KeepsPromise, Promise!Spec

\* With the conditions of DeployedSingleUse nothing is left but the deployment.
THEOREM DeployedKeepsPromise ==
    ASSUME FileStore, Serialized \/ \A c, d \in Calls : Host[c] = Host[d]
    PROVE  Spec => KeepsPromise
<1>1. CASE Serialized
  BY <1>1, FileStoreKeepsPromise, SerialExcludes, PTL
<1>2. CASE \A c, d \in Calls : Host[c] = Host[d]
  BY <1>2, FileStoreKeepsPromise, LockExcludes, PTL
<1>3. QED
  BY <1>1, <1>2
===============================================================================
