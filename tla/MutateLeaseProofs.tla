-------------------------- MODULE MutateLeaseProofs --------------------------
(***************************************************************************)
(* Theorems about MutateLease for any number of issuing and guarded calls, *)
(* any lifetimes, faults and kills.                                        *)
(***************************************************************************)
EXTENDS MutateLease, FiniteSetTheorems, TLAPS

\* The parts of the state that TypeOK leaves out.
Shape ==
    /\ pc = [c \in Issuers \cup Guarded |-> pc[c]]
    /\ used \in [{"issues", "faults", "kills"} -> Nat]
    /\ used["issues"] <= MaxIssues

\* No lease, written or about to be written, outlives the last request for one
\* by more than the longest lifetime.
Bounded ==
    /\ last <= clock
    /\ \A i \in Issuers : pc[i] \in Issuing => mine[i].expires <= last + MaxTtl
    /\ \A f \in Inodes : content[f] \in Lease => content[f].expires <= last + MaxTtl

\* While the gates are closed nobody can put a lease in place, and the one that
\* may be there is too old.
Shut == closed => /\ NobodyIssues
                  /\ name["path"] = None \/ clock > last + MaxTtl + Skew

\* A late call has not got past the gate whose switch is off.
LateStopped ==
    \A g \in late :
        /\ closed
        /\ ~(setting.master /\ Switched(flag[g]))
        /\ pc[g] \notin {"idle", "mutating"}
        /\ pc[g] = "second" => setting.master

\* One issuing call at a time: the names and their files are as it left them.
Orderly ==
    /\ \A i, j \in Issuers : pc[i] \in Issuing /\ pc[j] \in Issuing => i = j
    /\ name["path"] = None => granted = 0
    /\ name["path"] # None =>
          /\ name["tmp"] # name["path"]
          /\ content[name["path"]] \in Lease
          /\ content[name["path"]].number = granted
    /\ \A i \in Issuers :
          /\ pc[i] = "write" => /\ name["tmp"] # None /\ fd[i] = name["tmp"]
                                /\ content[fd[i]] = Empty
          /\ pc[i] = "replace" => /\ name["tmp"] # None
                                  /\ content[name["tmp"]] = mine[i]

IInv == TypeOK /\ Shape /\ Bounded /\ Shut /\ LateStopped /\ (setting.serialized => Orderly)

LEMMA Distinct ==
    /\ None \notin Inodes /\ None \notin Lease /\ Empty \notin Lease /\ Torn \notin Lease
    /\ Inodes \subseteq Nat
<1>1. Lease \subseteq [number : Nat, expires : Nat, applies : SUBSET Flags]
  BY LeaseAssumption DEF Lease
<1>2. Inodes \subseteq Nat
  BY LeaseAssumption, FS_CardinalityType DEF Inodes
<1> QED
  BY <1>1, <1>2, LeaseAssumption

\* There is always a file to be had that is neither named "path" nor open.
LEMMA UnusedExists ==
    ASSUME TypeOK, name["tmp"] = None
    PROVE  /\ Unused \in Inodes
           /\ Unused # name["path"]
           /\ \A i \in Issuers : fd[i] # Unused
<1> DEFINE open == {fd[i] : i \in Issuers}
<1> DEFINE taken == open \cup {name["path"]}
<1>1. IsFiniteSet(Issuers) /\ Cardinality(Issuers) \in Nat
  BY LeaseAssumption, FS_CardinalityType
<1>2. IsFiniteSet(open) /\ Cardinality(open) <= Cardinality(Issuers)
  <2>1. fd \in Surjection(Issuers, open)
    BY DEF TypeOK, Surjection
  <2> HIDE DEF open
  <2> QED
    BY <1>1, <2>1, FS_Surjection
<1>3. IsFiniteSet(taken) /\ Cardinality(taken) <= Cardinality(Issuers) + 1
  <2> HIDE DEF open
  <2>1. Cardinality(open) \in Nat
    BY <1>2, FS_CardinalityType
  <2>2. /\ IsFiniteSet(taken)
        /\ Cardinality(taken) = IF name["path"] \in open THEN Cardinality(open)
                                 ELSE Cardinality(open) + 1
    BY <1>2, FS_AddElement
  <2> HIDE DEF taken
  <2> QED
    BY <1>1, <1>2, <2>1, <2>2
<1>4. IsFiniteSet(Inodes) /\ Cardinality(Inodes) = Cardinality(Issuers) + 2
  BY <1>1, FS_Interval DEF Inodes
<1>5. ~(Inodes \subseteq taken)
  <2> HIDE DEF taken
  <2>1. Cardinality(taken) \in Nat
    BY <1>3, FS_CardinalityType
  <2> QED
    BY <1>1, <1>3, <1>4, <2>1, FS_Subset
<1>6. PICK f \in Inodes : f \notin taken
  BY <1>5
<1>7. f # None
  BY <1>6, Distinct
<1>8. f \notin {name["path"], name["tmp"]} /\ \A i \in Issuers : fd[i] # f
  BY <1>6, <1>7
<1> QED
  BY <1>8 DEF Unused

LEMMA Initially == Init => IInv
<1> SUFFICES ASSUME Init PROVE IInv
  OBVIOUS
<1>1. TypeOK
  BY LeaseAssumption, Distinct DEF Init, TypeOK, Issuing, Checking
<1>2. Shape
  BY LeaseAssumption DEF Init, Shape
<1>3. Bounded
  BY LeaseAssumption, Distinct DEF Init, Bounded, Issuing
<1>4. Shut /\ LateStopped
  BY LeaseAssumption DEF Init, Shut, LateStopped, NobodyIssues, Issuing
<1>5. Orderly
  BY LeaseAssumption DEF Init, Orderly, Issuing
<1> QED
  BY <1>1, <1>2, <1>3, <1>4, <1>5 DEF IInv
-------------------------------------------------------------------------------
IssuerStep(i) == Issue(i) \/ Open(i) \/ Write(i) \/ Replace(i) \/ Clear(i) \/ Kill(i)
GuardedStep(g) == Begin(g) \/ First(g) \/ Second(g) \/ Return(g)

LEMMA Steps ==
    [Next]_vars =>
        \/ UNCHANGED vars
        \/ UNCHANGED setting /\ \/ Tick
                                \/ \E i \in Issuers : IssuerStep(i)
                                \/ \E g \in Guarded : GuardedStep(g)
BY DEF Next, IssuerStep, GuardedStep

LEMMA Counted ==
    ASSUME Shape, NEW what \in {"issues", "faults", "kills"}, NEW max \in Nat, Spend(what, max),
           what = "issues" => max = MaxIssues
    PROVE  /\ used' \in [{"issues", "faults", "kills"} -> Nat]
           /\ used'["issues"] <= MaxIssues
BY LeaseAssumption DEF Shape, Spend

\* The lease that is asked for.
LEMMA LeaseAskedFor ==
    ASSUME TypeOK, Shape, Spend("issues", MaxIssues),
           NEW ttl \in Requests, NEW some \in SUBSET Flags
    PROVE  LET lease == [number |-> used["issues"] + 1, expires |-> clock + Lifetime(ttl),
                         applies |-> IF some = {} THEN Default ELSE some]
           IN  lease \in Lease /\ lease.expires <= clock + MaxTtl
<1>1. Lifetime(ttl) \in Nat /\ Lifetime(ttl) <= MaxTtl
  BY LeaseAssumption DEF Lifetime, Least
<1>2. used["issues"] + 1 \in 1..MaxIssues
  BY LeaseAssumption DEF Shape, Spend
<1>3. clock \in Nat
  BY LeaseAssumption DEF TypeOK
<1>4. (IF some = {} THEN Default ELSE some) \in SUBSET Flags
  BY LeaseAssumption
<1> HIDE DEF Lifetime
<1> QED
  BY <1>1, <1>2, <1>3, <1>4, LeaseAssumption DEF Lease

LEMMA UsedKept ==
    ASSUME Shape, Tick \/ (\E i \in Issuers : IssuerStep(i)) \/ (\E g \in Guarded : GuardedStep(g))
    PROVE  Shape'
<1>1. Shape /\ {MaxIssues, MaxFaults, MaxKills} \subseteq Nat
  BY LeaseAssumption
<1>2. CASE Tick \/ \E g \in Guarded : GuardedStep(g)
  BY <1>1, <1>2 DEF Shape, Tick, GuardedStep, Begin, First, Second, Return, Unguarded, Goto
<1>3. ASSUME NEW i \in Issuers, IssuerStep(i) PROVE Shape'
  <2>1. pc' = [c \in Issuers \cup Guarded |-> pc'[c]]
    BY <1>1, <1>3 DEF Shape, IssuerStep, Issue, Open, Write, Replace, Clear, Kill, Ends, Goto
  <2>2. UNCHANGED used \/ Spend("issues", MaxIssues) \/ Fault \/ Spend("kills", MaxKills)
    BY <1>3 DEF IssuerStep, Issue, Open, Write, Replace, Clear, Kill
  <2>3. used' \in [{"issues", "faults", "kills"} -> Nat] /\ used'["issues"] <= MaxIssues
    <3>1. CASE UNCHANGED used
      BY <1>1, <3>1 DEF Shape
    <3>2. CASE Spend("issues", MaxIssues)
      BY <1>1, <3>2, Counted
    <3>3. CASE Fault
      BY <1>1, <3>3, Counted DEF Fault
    <3>4. CASE Spend("kills", MaxKills)
      BY <1>1, <3>4, Counted
    <3> QED
      BY <2>2, <3>1, <3>2, <3>3, <3>4
  <2> QED
    BY <2>1, <2>3 DEF Shape
<1> QED
  BY <1>2, <1>3

\* What an issuing call does when it ends keeps the types.
LEMMA EndsTyped ==
    ASSUME TypeOK, Shape, NEW i \in Issuers, Ends(i)
    PROVE  /\ \A j \in Issuers : pc'[j] \in {"idle"} \cup Issuing
           /\ \A g \in Guarded : pc'[g] = pc[g]
           /\ \A j \in Issuers : mine'[j] # None <=> pc'[j] \in Issuing
           /\ \A j \in Issuers : fd'[j] # None <=> pc'[j] = "write"
           /\ mine' \in [Issuers -> Lease \cup {None}]
           /\ fd' \in [Issuers -> Inodes \cup {None}]
           /\ pc'[i] = "idle" /\ \A j \in Issuers \ {i} : pc'[j] = pc[j] /\ mine'[j] = mine[j]
                                                          /\ fd'[j] = fd[j]
BY LeaseAssumption DEF TypeOK, Shape, Ends, Goto, Issuing

LEMMA IssuerTypes ==
    ASSUME TypeOK, Shape, NEW i \in Issuers, IssuerStep(i), UNCHANGED setting
    PROVE  TypeOK'
<1> USE DEF Issuing
<1>1. CASE Issue(i)
  <2>1. PICK ttl \in Requests, some \in SUBSET Flags :
          mine' = [mine EXCEPT ![i] = [number |-> used["issues"] + 1,
                                       expires |-> clock + Lifetime(ttl),
                                       applies |-> IF some = {} THEN Default ELSE some]]
    BY <1>1 DEF Issue
  <2>2. mine'[i] \in Lease
    <3> DEFINE lease == [number |-> used["issues"] + 1, expires |-> clock + Lifetime(ttl),
                         applies |-> IF some = {} THEN Default ELSE some]
    <3>1. lease \in Lease
      BY <1>1, LeaseAskedFor DEF Issue
    <3>2. mine'[i] = lease
      BY <2>1 DEF TypeOK
    <3> QED
      BY <3>1, <3>2
  <2>3. mine' \in [Issuers -> Lease \cup {None}] /\ \A j \in Issuers \ {i} : mine'[j] = mine[j]
    BY <2>1, <2>2 DEF TypeOK
  <2>4. pc'[i] = "open" /\ \A c \in (Issuers \cup Guarded) \ {i} : pc'[c] = pc[c]
    BY <1>1 DEF Issue, Goto, Shape
  <2>5. \A j \in Issuers : mine'[j] # None <=> pc'[j] \in Issuing
    BY <2>2, <2>3, <2>4, Distinct DEF TypeOK
  <2>6. pc[i] # "write"
    BY <1>1 DEF Issue, MayBegin
  <2> QED
    BY <1>1, <2>3, <2>4, <2>5, <2>6, LeaseAssumption DEF TypeOK, Issue, files
<1>2. CASE Open(i)
  <2>1. CASE Ends(i) /\ UNCHANGED files
    BY <1>2, <2>1, EndsTyped DEF TypeOK, Open, files, history
  <2>2. CASE ~(Ends(i) /\ UNCHANGED files)
    <3>1. PICK f \in Inodes : /\ name' = [name EXCEPT !["tmp"] = f]
                              /\ content' = [content EXCEPT ![f] = Empty]
                              /\ fd' = [fd EXCEPT ![i] = f]
      BY <1>2, <2>2, UnusedExists DEF Open, TypeOK
    <3>2. pc'[i] = "write" /\ \A c \in (Issuers \cup Guarded) \ {i} : pc'[c] = pc[c]
      BY <1>2, <2>2 DEF Open, Goto, Shape
    <3>3. fd'[i] = f /\ f # None /\ \A j \in Issuers \ {i} : fd'[j] = fd[j]
      BY <3>1, Distinct DEF TypeOK
    <3>4. name' \in [{"path", "tmp"} -> Inodes \cup {None}]
          /\ content' \in [Inodes -> Lease \cup {Empty, Torn}]
          /\ fd' \in [Issuers -> Inodes \cup {None}]
      BY <3>1 DEF TypeOK
    <3>5. pc[i] = "open" /\ UNCHANGED mine
      BY <1>2, <2>2 DEF Open
    <3>6. \A j \in Issuers : fd'[j] # None <=> pc'[j] = "write"
      BY <3>2, <3>3 DEF TypeOK
    <3>7. \A j \in Issuers : mine'[j] # None <=> pc'[j] \in Issuing
      BY <3>2, <3>5 DEF TypeOK
    <3>8. \A g \in Guarded : pc'[g] = pc[g]
      BY <3>2, LeaseAssumption
    <3>9. \A j \in Issuers : pc'[j] \in {"idle"} \cup Issuing
      BY <3>2 DEF TypeOK
    <3>10. mine' \in [Issuers -> Lease \cup {None}]
      BY <3>5 DEF TypeOK
    <3>11. UNCHANGED <<clock, flag, history>>
      BY <1>2 DEF Open
    <3> QED
      BY <3>4, <3>6, <3>7, <3>8, <3>9, <3>10, <3>11 DEF TypeOK, history
  <2> QED
    BY <2>1, <2>2
<1>3. CASE Write(i)
  <2>1. mine[i] \in Lease /\ fd[i] \in Inodes
    BY <1>3 DEF Write, TypeOK
  <2>2. content' \in [Inodes -> Lease \cup {Empty, Torn}]
    BY <1>3, <2>1 DEF Write, TypeOK
  <2>3. CASE Ends(i)
    BY <1>3, <2>2, <2>3, EndsTyped DEF TypeOK, Write, history
  <2>4. CASE ~Ends(i)
    <3>1. pc'[i] = "replace" /\ \A c \in (Issuers \cup Guarded) \ {i} : pc'[c] = pc[c]
      BY <1>3, <2>4 DEF Write, Goto, Shape
    <3>2. fd' = [fd EXCEPT ![i] = None] /\ UNCHANGED mine /\ pc[i] = "write"
      BY <1>3, <2>4 DEF Write
    <3>3. \A g \in Guarded : pc'[g] = pc[g]
      BY <3>1, LeaseAssumption
    <3> QED
      BY <1>3, <2>2, <3>1, <3>2, <3>3 DEF TypeOK, Write, history
  <2> QED
    BY <2>3, <2>4
<1>4. CASE Replace(i)
  <2>1. mine[i] \in Lease
    BY <1>4 DEF Replace, TypeOK
  <2>2. granted' \in 0..MaxIssues
    <3>1. mine[i].number \in 0..MaxIssues
      BY <2>1, LeaseAssumption DEF Lease
    <3> QED
      BY <1>4, <3>1 DEF Replace, TypeOK
  <2>3. name' \in [{"path", "tmp"} -> Inodes \cup {None}]
    <3>1. CASE name' = [path |-> name["tmp"], tmp |-> None]
      BY <3>1 DEF TypeOK
    <3> QED
      BY <1>4, <3>1 DEF Replace, TypeOK
  <2> QED
    BY <1>4, <2>2, <2>3, EndsTyped DEF TypeOK, Replace
<1>5. CASE Clear(i)
  <2>1. name' \in [{"path", "tmp"} -> Inodes \cup {None}] /\ granted' \in 0..MaxIssues
    BY <1>5, LeaseAssumption DEF Clear, TypeOK
  <2>2. closed' \in BOOLEAN
    BY <1>5, Zenon DEF Clear, TypeOK, NobodyIssues
  <2>3. Ends(i) /\ UNCHANGED <<clock, content, flag, last, late>>
    BY <1>5 DEF Clear
  <2> QED
    BY <2>1, <2>2, <2>3, EndsTyped DEF TypeOK
<1>6. CASE Kill(i)
  BY <1>6, EndsTyped DEF TypeOK, Kill, files, history
<1> QED
  BY <1>1, <1>2, <1>3, <1>4, <1>5, <1>6 DEF IssuerStep
\* A guarded call reads, and the clock goes on.
LEMMA GuardedTypes ==
    ASSUME TypeOK, Shape, NEW g \in Guarded, GuardedStep(g), UNCHANGED setting
    PROVE  /\ TypeOK'
           /\ UNCHANGED <<clock, files, mine, fd, used, granted, last, closed>>
           /\ \A c \in (Issuers \cup Guarded) \ {g} : pc'[c] = pc[c]
           /\ \A c \in Guarded \ {g} : flag'[c] = flag[c]
<1>1. UNCHANGED <<clock, files, mine, fd, used, granted, last, closed>>
  BY DEF GuardedStep, Begin, First, Second, Return, Unguarded, history
<1>2. \A c \in (Issuers \cup Guarded) \ {g} : pc'[c] = pc[c]
  BY DEF Shape, GuardedStep, Begin, First, Second, Return, Goto
<1>3. pc'[g] \in {"idle", "mutating", "refused"} \cup Checking
  BY DEF Shape, GuardedStep, Begin, First, Second, Return, Goto, Checking
<1>4. flag' \in [Guarded -> Flags] /\ \A c \in Guarded \ {g} : flag'[c] = flag[c]
  BY DEF TypeOK, GuardedStep, Begin, First, Second, Return, Unguarded
<1>5. late' \subseteq Guarded
  BY DEF TypeOK, GuardedStep, Begin, First, Second, Return, Unguarded, history
<1>6. \A i \in Issuers : pc'[i] = pc[i]
  BY <1>2, LeaseAssumption
<1>7. TypeOK'
  BY <1>1, <1>2, <1>3, <1>4, <1>5, <1>6 DEF TypeOK, files
<1> QED
  BY <1>1, <1>2, <1>4, <1>7

LEMMA TickTypes ==
    ASSUME TypeOK, Tick, UNCHANGED setting PROVE TypeOK'
<1>1. clock' \in 0..MaxClock
  BY LeaseAssumption DEF TypeOK, Tick
<1>2. closed' \in BOOLEAN
  BY Zenon DEF TypeOK, Tick, NobodyIssues
<1> QED
  BY <1>1, <1>2 DEF TypeOK, Tick, files

LEMMA NextTypes ==
    ASSUME TypeOK, Shape, [Next]_vars PROVE TypeOK' /\ Shape'
<1>1. CASE UNCHANGED vars
  BY <1>1 DEF vars, files, history, TypeOK, Shape
<1>2. CASE UNCHANGED setting /\ Tick
  BY <1>2, TickTypes, UsedKept
<1>3. ASSUME NEW i \in Issuers, IssuerStep(i), UNCHANGED setting PROVE TypeOK' /\ Shape'
  BY <1>3, IssuerTypes, UsedKept
<1>4. ASSUME NEW g \in Guarded, GuardedStep(g), UNCHANGED setting PROVE TypeOK' /\ Shape'
  BY <1>4, GuardedTypes, UsedKept
<1> QED
  BY <1>1, <1>2, <1>3, <1>4, Steps

\* session/command/mutate-lease: the types of the model.
THEOREM TypesHold == Spec => []TypeOK
<1>1. Init => TypeOK /\ Shape
  BY Initially DEF IInv
<1>2. TypeOK /\ Shape /\ [Next]_vars => (TypeOK /\ Shape)'
  BY NextTypes
<1> QED
  BY <1>1, <1>2, PTL DEF Spec
-------------------------------------------------------------------------------
\* The lifetimes of leases.
LEMMA BoundedKept ==
    ASSUME TypeOK, Shape, Bounded, [Next]_vars PROVE Bounded'
<1> USE DEF Issuing
<1>1. CASE UNCHANGED <<pc, mine, content, last, clock>>
  BY <1>1 DEF Bounded
<1>2. CASE Tick
  BY <1>2, LeaseAssumption DEF Bounded, Tick, files, TypeOK
<1>3. ASSUME NEW g \in Guarded, GuardedStep(g), UNCHANGED setting PROVE Bounded'
  <2>1. \A i \in Issuers : pc'[i] = pc[i]
    BY <1>3, GuardedTypes, LeaseAssumption
  <2> QED
    BY <1>3, <2>1, GuardedTypes DEF Bounded, files
<1>4. ASSUME NEW i \in Issuers, IssuerStep(i), UNCHANGED setting PROVE Bounded'
  <2>1. CASE Issue(i)
    <3>1. PICK ttl \in Requests, some \in SUBSET Flags :
            mine' = [mine EXCEPT ![i] = [number |-> used["issues"] + 1,
                                         expires |-> clock + Lifetime(ttl),
                                         applies |-> IF some = {} THEN Default ELSE some]]
      BY <2>1 DEF Issue
    <3> DEFINE lease == [number |-> used["issues"] + 1, expires |-> clock + Lifetime(ttl),
                         applies |-> IF some = {} THEN Default ELSE some]
    <3>2. lease \in Lease /\ lease.expires <= clock + MaxTtl
      BY <2>1, LeaseAskedFor DEF Issue
    <3>3. mine'[i] = lease
      BY <3>1 DEF TypeOK
    <3> HIDE DEF lease
    <3>4. last' = clock /\ UNCHANGED content
      BY <2>1 DEF Issue, files
    <3>5. \A j \in Issuers \ {i} : mine'[j] = mine[j] /\ pc'[j] = pc[j]
      BY <2>1, <3>1 DEF TypeOK, Shape, Issue, Goto
    <3>6. clock \in Nat /\ last \in Nat /\ MaxTtl \in Nat /\ last <= clock /\ UNCHANGED clock
      BY <2>1, LeaseAssumption DEF TypeOK, Bounded, Issue
    <3>7. ASSUME NEW lent \in Lease, lent.expires <= last + MaxTtl
          PROVE  lent.expires <= clock + MaxTtl
      BY <3>6, <3>7 DEF Lease
    <3>8. \A j \in Issuers : pc'[j] \in Issuing => mine'[j].expires <= last' + MaxTtl
      <4>1. ASSUME NEW j \in Issuers \ {i}, pc[j] \in Issuing
            PROVE  mine[j] \in Lease /\ mine[j].expires <= last + MaxTtl
        BY <4>1 DEF TypeOK, Bounded
      <4> QED
        BY <3>2, <3>3, <3>4, <3>5, <3>7, <4>1
    <3>9. \A f \in Inodes : content'[f] \in Lease => content'[f].expires <= last' + MaxTtl
      BY <3>4, <3>7 DEF Bounded
    <3> QED
      BY <3>4, <3>6, <3>8, <3>9 DEF Bounded
  <2>2. CASE Ends(i) /\ UNCHANGED <<content, last, clock>>
    BY <2>2, EndsTyped DEF Bounded
  <2>3. CASE Open(i)
    <3>1. CASE Ends(i) /\ UNCHANGED files
      BY <2>2, <2>3, <3>1 DEF Open, files, history
    <3>2. CASE ~(Ends(i) /\ UNCHANGED files)
      <4>1. PICK f : content' = [content EXCEPT ![f] = Empty]
        BY <2>3, <3>2 DEF Open
      <4>2. \A e \in Inodes : content'[e] \in Lease => content'[e] = content[e]
        BY <4>1, Distinct DEF TypeOK
      <4>3. \A j \in Issuers : pc'[j] \in Issuing => pc[j] \in Issuing
        BY <2>3, <3>2 DEF Open, Goto, Shape
      <4>4. UNCHANGED <<mine, last, clock>>
        BY <2>3, <3>2 DEF Open, history
      <4> QED
        BY <4>2, <4>3, <4>4 DEF Bounded
    <3> QED
      BY <3>1, <3>2
  <2>4. CASE Write(i)
    <3>1. mine[i].expires <= last + MaxTtl /\ fd[i] \in Inodes
      BY <2>4 DEF Write, TypeOK, Bounded
    <3>2. \E result \in {mine[i], Torn} : content' = [content EXCEPT ![fd[i]] = result]
      BY <2>4 DEF Write
    <3>3. \A f \in Inodes : content'[f] \in Lease =>
              content'[f] = content[f] \/ content'[f] = mine[i]
      BY <3>2, Distinct DEF TypeOK
    <3>4. UNCHANGED <<last, clock>>
      BY <2>4 DEF Write, history
    <3>5. \A j \in Issuers : pc'[j] \in Issuing => pc[j] \in Issuing /\ mine'[j] = mine[j]
      <4>1. CASE Ends(i)
        BY <4>1, EndsTyped
      <4>2. CASE ~Ends(i)
        BY <2>4, <4>2 DEF Write, Goto, Shape
      <4> QED
        BY <4>1, <4>2
    <3> QED
      BY <3>1, <3>3, <3>4, <3>5 DEF Bounded
  <2>5. CASE Replace(i) \/ Clear(i) \/ Kill(i)
    BY <2>2, <2>5 DEF Replace, Clear, Kill, files, history
  <2> QED
    BY <1>4, <2>1, <2>3, <2>4, <2>5 DEF IssuerStep
<1> QED
  BY <1>1, <1>2, <1>3, <1>4, Steps DEF vars, files, history
-------------------------------------------------------------------------------
\* The gates.
LEMMA ShutIsInactive ==
    ASSUME TypeOK, Bounded, Shut, closed PROVE ~Active
<1>1. SUFFICES ASSUME name["path"] # None, content[name["path"]] \notin {Empty, Torn},
                      clock <= InForce.expires + Skew
               PROVE  FALSE
  BY DEF Active, Readable
<1>2. name["path"] \in Inodes /\ InForce \in Lease
  BY <1>1 DEF TypeOK, InForce
<1>3. InForce.expires <= last + MaxTtl /\ InForce.expires \in Nat
  BY <1>2 DEF Bounded, InForce, Lease
<1>4. clock > last + MaxTtl + Skew
  BY <1>1 DEF Shut
<1>5. clock \in Nat /\ last \in Nat /\ MaxTtl \in Nat /\ Skew \in Nat
  BY LeaseAssumption DEF TypeOK
<1> QED
  BY <1>1, <1>3, <1>4, <1>5

\* An issuing call that goes on was admitted: the gates are not closed.
LEMMA GoingOn ==
    ASSUME Shut, NEW i \in Issuers, Open(i) \/ Write(i) \/ Replace(i) \/ Kill(i)
    PROVE  ~closed /\ closed' = closed
<1>1. pc[i] \in Issuing
  BY DEF Open, Write, Replace, Kill, Issuing
<1>2. closed' = closed
  BY DEF Open, Write, Replace, Kill, history
<1> QED
  BY <1>1, <1>2 DEF Shut, NobodyIssues

LEMMA ShutKept ==
    ASSUME TypeOK, Shape, Shut, [Next]_vars PROVE Shut'
<1>1. CASE UNCHANGED vars
  BY <1>1 DEF vars, files, history, Shut, NobodyIssues
<1>2. CASE Tick
  <2>1. clock <= clock' /\ UNCHANGED <<name, last>> /\ (NobodyIssues' <=> NobodyIssues)
    BY <1>2 DEF Tick, files, NobodyIssues, TypeOK
  <2>2. closed' => closed \/ (NobodyIssues /\ clock' > last + MaxTtl + Skew)
    BY <1>2, Zenon DEF Tick
  <2>3. {clock, clock', last, MaxTtl, Skew} \subseteq Nat
    BY <1>2, LeaseAssumption DEF TypeOK, Tick
  <2>4. clock > last + MaxTtl + Skew => clock' > last + MaxTtl + Skew
    BY <2>1, <2>3
  <2> QED
    BY <2>1, <2>2, <2>4 DEF Shut
<1>3. ASSUME NEW g \in Guarded, GuardedStep(g), UNCHANGED setting PROVE Shut'
  <2>1. \A i \in Issuers : pc'[i] = pc[i]
    BY <1>3, GuardedTypes, LeaseAssumption
  <2> QED
    BY <1>3, <2>1, GuardedTypes DEF Shut, files, NobodyIssues
<1>4. ASSUME NEW i \in Issuers, IssuerStep(i), UNCHANGED setting PROVE Shut'
  <2>1. CASE Issue(i)
    BY <2>1 DEF Issue, Shut
  <2>2. CASE Open(i) \/ Write(i) \/ Replace(i) \/ Kill(i)
    BY <2>2, GoingOn DEF Shut
  <2>3. CASE Clear(i)
    <3>1. NobodyIssues => NobodyIssues'
      BY <2>3, EndsTyped DEF Clear, NobodyIssues, Issuing
    <3>2. /\ closed' => closed \/ NobodyIssues
          /\ name'["path"] = None \/ (name' = name /\ closed' = closed)
          /\ UNCHANGED <<clock, last>>
      <4>1. CASE closed' = closed /\ name' = name
        BY <2>3, <4>1 DEF Clear
      <4>2. CASE name' = [name EXCEPT !["path"] = None] /\ closed' = (closed \/ NobodyIssues)
        <5>1. name'["path"] = None
          BY <4>2 DEF TypeOK
        <5>2. closed' => closed \/ NobodyIssues
          BY <4>2, Zenon
        <5> QED
          BY <2>3, <5>1, <5>2 DEF Clear
      <4> QED
        BY <2>3, <4>1, <4>2 DEF Clear
    <3> QED
      BY <3>1, <3>2 DEF Shut
  <2> QED
    BY <1>4, <2>1, <2>2, <2>3 DEF IssuerStep
<1> QED
  BY <1>1, <1>2, <1>3, <1>4, Steps

LEMMA LateKept ==
    ASSUME TypeOK, Shape, Bounded, Shut, LateStopped, [Next]_vars PROVE LateStopped'
<1>1. CASE UNCHANGED vars
  BY <1>1 DEF vars, files, history, LateStopped, Switched
<1>2. CASE Tick /\ UNCHANGED setting
  <2>1. closed => closed'
    BY <1>2, Zenon DEF Tick
  <2> QED
    BY <1>2, <2>1 DEF Tick, LateStopped, Switched
<1>3. ASSUME NEW g \in Guarded, GuardedStep(g), UNCHANGED setting PROVE LateStopped'
  <2>1. /\ \A d \in Guarded \ {g} : pc'[d] = pc[d] /\ flag'[d] = flag[d]
        /\ closed' = closed /\ late \subseteq Guarded
    BY <1>3, GuardedTypes DEF TypeOK
  <2>2. \A d \in late' \ {g} : d \in late
    BY <1>3 DEF GuardedStep, Begin, First, Second, Return, Unguarded, history
  <2>3. SUFFICES ASSUME g \in late'
                 PROVE  /\ closed
                        /\ ~(setting.master /\ flag'[g] \in setting.env)
                        /\ pc'[g] \notin {"idle", "mutating"}
                        /\ pc'[g] = "second" => setting.master
    BY <1>3, <2>1, <2>2 DEF LateStopped, Switched
  <2>4. CASE Begin(g)
    <3>1. PICK f \in Flags :
            /\ flag' = [flag EXCEPT ![g] = f]
            /\ late' = IF closed /\ ~(setting.master /\ Switched(f)) THEN late \cup {g} ELSE late
      BY <2>4 DEF Begin
    <3>2. flag'[g] = f /\ pc'[g] = "first" /\ pc[g] = "idle"
      BY <2>4, <3>1 DEF Begin, TypeOK, Shape, Goto
    <3>3. CASE closed /\ ~(setting.master /\ Switched(f))
      BY <3>2, <3>3 DEF Switched
    <3>4. g \notin late
      BY <3>2 DEF LateStopped
    <3> QED
      BY <2>3, <3>1, <3>3, <3>4
  <2>5. CASE Return(g)
    BY <2>3, <2>5 DEF Return
  <2>6. CASE First(g) \/ Second(g)
    <3>1. g \in late /\ UNCHANGED flag
      BY <2>3, <2>6 DEF First, Second, Unguarded, history
    <3>2. closed /\ ~Active /\ ~(setting.master /\ Switched(flag[g]))
          /\ (pc[g] = "second" => setting.master)
      BY <3>1, ShutIsInactive DEF LateStopped
    <3>3. pc'[g] \in {"second", "refused"} /\ (pc'[g] = "second" => setting.master)
      BY <2>6, <3>2 DEF First, Second, Goto, Shape, Listed
    <3> QED
      BY <3>1, <3>2, <3>3 DEF Switched
  <2> QED
    BY <1>3, <2>4, <2>5, <2>6 DEF GuardedStep
<1>4. ASSUME NEW i \in Issuers, IssuerStep(i), UNCHANGED setting PROVE LateStopped'
  <2>1. CASE Issue(i)
    BY <2>1 DEF Issue, LateStopped
  <2>2. CASE Open(i) \/ Write(i) \/ Replace(i) \/ Kill(i) \/ Clear(i)
    <3>1. closed => closed'
      <4>1. CASE Clear(i)
        <5>1. closed' = (closed \/ NobodyIssues) \/ UNCHANGED closed
          BY <4>1 DEF Clear
        <5> QED
          BY <5>1, Zenon
      <4> QED
        BY <2>2, <4>1 DEF Open, Write, Replace, Kill, history
    <3>2. UNCHANGED <<late, flag>>
      BY <2>2 DEF Open, Write, Replace, Kill, Clear, history
    <3>3. \A g \in Guarded : pc'[g] = pc[g]
      BY <2>2, LeaseAssumption DEF Open, Write, Replace, Kill, Clear, Ends, Goto, Shape
    <3> QED
      BY <1>4, <3>1, <3>2, <3>3 DEF LateStopped, Switched, TypeOK
  <2> QED
    BY <1>4, <2>1, <2>2 DEF IssuerStep
<1> QED
  BY <1>1, <1>2, <1>3, <1>4, Steps
-------------------------------------------------------------------------------
\* The file, with issuing calls one at a time.
LEMMA OrderlyEnds ==
    ASSUME TypeOK, Shape, Orderly, NEW i \in Issuers, Ends(i), UNCHANGED <<files, granted>>
    PROVE  Orderly'
BY EndsTyped DEF Orderly, files, Issuing

LEMMA OrderlyKept ==
    ASSUME TypeOK, Shape, setting.serialized, Orderly, [Next]_vars PROVE Orderly'
<1> USE DEF Issuing
<1>1. CASE UNCHANGED vars \/ Tick
  BY <1>1 DEF vars, files, history, Tick, Orderly
<1>2. ASSUME NEW g \in Guarded, GuardedStep(g), UNCHANGED setting PROVE Orderly'
  <2>1. \A i \in Issuers : pc'[i] = pc[i]
    BY <1>2, GuardedTypes, LeaseAssumption
  <2> QED
    BY <1>2, <2>1, GuardedTypes DEF Orderly, files
<1>3. ASSUME NEW i \in Issuers, IssuerStep(i), UNCHANGED setting PROVE Orderly'
  <2>1. CASE Issue(i)
    <3>1. NobodyIssues /\ UNCHANGED <<files, granted, fd>>
      BY <2>1 DEF Issue, MayBegin
    <3>2. pc'[i] = "open" /\ \A j \in Issuers \ {i} : pc'[j] = pc[j]
      BY <2>1 DEF Issue, Goto, Shape
    <3> QED
      BY <3>1, <3>2 DEF Orderly, NobodyIssues, files
  <2>2. CASE Open(i)
    <3>1. CASE Ends(i) /\ UNCHANGED files
      BY <2>2, <3>1, OrderlyEnds DEF Open, history
    <3>2. CASE ~(Ends(i) /\ UNCHANGED files)
      <4> DEFINE f == IF name["tmp"] # None THEN name["tmp"] ELSE Unused
      <4>1. /\ pc[i] = "open" /\ name' = [name EXCEPT !["tmp"] = f]
            /\ content' = [content EXCEPT ![f] = Empty] /\ fd' = [fd EXCEPT ![i] = f]
            /\ Goto(i, "write") /\ UNCHANGED <<mine, granted>>
        BY <2>2, <3>2 DEF Open, history
      <4>2. f \in Inodes /\ f # name["path"]
        BY UnusedExists, Distinct DEF TypeOK, Orderly
      <4> HIDE DEF f
      <4>3. pc'[i] = "write" /\ \A j \in Issuers \ {i} : pc'[j] = pc[j] /\ pc[j] \notin Issuing
        BY <4>1 DEF Goto, Shape, Orderly
      <4>4. name'["path"] = name["path"] /\ name'["tmp"] = f /\ fd'[i] = f /\ f # None
        BY <4>1, <4>2, Distinct DEF TypeOK
      <4>5. content'[f] = Empty /\ (name["path"] # None => content'[name["path"]] = content[name["path"]])
        BY <4>1, <4>2 DEF TypeOK
      <4> QED
        BY <4>1, <4>2, <4>3, <4>4, <4>5 DEF Orderly
    <3> QED
      BY <3>1, <3>2
  <2>3. CASE Write(i)
    <3>1. /\ name["tmp"] # None /\ fd[i] = name["tmp"] /\ content[fd[i]] = Empty
          /\ fd[i] \in Inodes /\ fd[i] # name["path"]
      BY <2>3 DEF Write, Orderly, TypeOK
    <3>2. UNCHANGED <<name, granted>>
      BY <2>3 DEF Write, history
    <3>3. \E result : content' = [content EXCEPT ![fd[i]] = result]
      BY <2>3 DEF Write
    <3>4. name["path"] # None => content'[name["path"]] = content[name["path"]]
      BY <3>1, <3>3 DEF TypeOK
    <3>5. \A j \in Issuers \ {i} : pc[j] \notin Issuing
      BY <2>3 DEF Write, Orderly
    <3>6. CASE Ends(i)
      BY <3>2, <3>4, <3>5, <3>6, EndsTyped DEF Orderly
    <3>7. CASE ~Ends(i)
      <4>1. content' = [content EXCEPT ![fd[i]] = mine[i]] /\ UNCHANGED mine
        BY <2>3, <3>1, <3>7 DEF Write
      <4>2. content'[name["tmp"]] = mine'[i]
        BY <3>1, <4>1 DEF TypeOK
      <4>3. pc'[i] = "replace" /\ \A j \in Issuers \ {i} : pc'[j] = pc[j]
        BY <2>3, <3>7 DEF Write, Goto, Shape
      <4> QED
        BY <3>1, <3>2, <3>4, <3>5, <4>2, <4>3 DEF Orderly
    <3> QED
      BY <3>6, <3>7
  <2>4. CASE Replace(i)
    <3>1. CASE UNCHANGED <<name, granted>>
      BY <2>4, <3>1, OrderlyEnds DEF Replace, files
    <3>2. CASE ~UNCHANGED <<name, granted>>
      <4>1. /\ name' = [path |-> name["tmp"], tmp |-> None] /\ name["tmp"] # None
            /\ granted' = mine[i].number /\ Ends(i) /\ UNCHANGED content
        BY <2>4, <3>2 DEF Replace
      <4>2. content[name["tmp"]] = mine[i] /\ mine[i] \in Lease
        BY <2>4 DEF Replace, Orderly, TypeOK
      <4>3. \A j \in Issuers : pc'[j] \notin Issuing
        BY <2>4, <4>1, EndsTyped DEF Replace, Orderly
      <4> QED
        BY <4>1, <4>2, <4>3 DEF Orderly
    <3> QED
      BY <3>1, <3>2
  <2>5. CASE Clear(i)
    <3>1. CASE UNCHANGED <<name, granted>>
      BY <2>5, <3>1, OrderlyEnds DEF Clear, files
    <3>2. CASE ~UNCHANGED <<name, granted>>
      <4>1. name'["path"] = None /\ granted' = 0 /\ Ends(i) /\ NobodyIssues
        BY <2>5, <3>2 DEF Clear, MayBegin, TypeOK
      <4>2. \A j \in Issuers : pc'[j] \notin Issuing
        BY <4>1, EndsTyped DEF NobodyIssues
      <4> QED
        BY <4>1, <4>2 DEF Orderly
    <3> QED
      BY <3>1, <3>2
  <2>6. CASE Kill(i)
    BY <2>6, OrderlyEnds DEF Kill, history
  <2> QED
    BY <1>3, <2>1, <2>2, <2>3, <2>4, <2>5, <2>6 DEF IssuerStep
<1> QED
  BY <1>1, <1>2, <1>3, Steps
-------------------------------------------------------------------------------
\* The inductive invariant.
THEOREM InvariantHolds == Spec => []IInv
<1>1. Init => IInv
  BY Initially
<1>2. IInv /\ [Next]_vars => IInv'
  <2>1. ASSUME IInv, [Next]_vars PROVE setting' = setting
    BY <2>1 DEF Next, vars
  <2> QED
    BY <2>1, NextTypes, BoundedKept, ShutKept, LateKept, OrderlyKept DEF IInv
<1> QED
  BY <1>1, <1>2, PTL DEF Spec

\* mutations_gates_open, mutate_lease_allows_apply: after a revocation that was
\* answered ok, or the longest lifetime, no lease opens a gate until another is
\* asked for, and no handler that began after that mutates without its switches;
\* for any number of overlapping issuers, wherever they fail or are killed.
THEOREM GatesStayClosed == Spec => []StaysClosed
<1>1. IInv => StaysClosed
  BY ShutIsInactive DEF IInv, StaysClosed, LateStopped
<1> QED
  BY <1>1, InvariantHolds, PTL

\* issue_mutate_lease_file: with issuing calls one at a time the lease in force is
\* the last one answered ok and not revoked, wherever a call failed or was killed.
THEOREM LastGrantedIsInForce == Spec => []LeaseIsLastGranted
<1>1. IInv => LeaseIsLastGranted
  BY Distinct DEF IInv, LeaseIsLastGranted, Orderly, Readable, InForce
<1> QED
  BY <1>1, InvariantHolds, PTL
===============================================================================
