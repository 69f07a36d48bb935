--------------------------- MODULE DnsReplaceProofs ---------------------------
(***************************************************************************)
(* Theorems about DnsReplace for any number of calls and values, any       *)
(* settings: whoever overlaps, edits the zone, is refused or killed.       *)
(***************************************************************************)
EXTENDS DnsReplace, FiniteSetTheorems, TLAPS

Records == [id : Nat \ {0}, val : Values]
Unique(records) == \A r, s \in records : r.id = s.id => r = s
Below(records, n) == \A r \in records : r.id < n

\* Identifiers bound a set of records.
LEMMA RecordsFinite ==
    ASSUME NEW S \in SUBSET Records, NEW n \in Nat, Unique(S), Below(S, n)
    PROVE  IsFiniteSet(S)
<1> DEFINE f == [r \in S |-> r.id]
<1>1. f \in Injection(S, 0..n)
  BY DEF Injection, IsInjective, Records, Unique, Below
<1>2. IsFiniteSet(0..n)
  BY FS_Interval
<1> QED
  BY <1>1, <1>2, FS_Injection

\* The records that one request adds get identifiers of their own, all new.
LEMMA FreshIsNew ==
    ASSUME NEW S \in SUBSET Records, NEW n \in Nat, nextId \in Nat \ {0}, Unique(S), Below(S, n)
    PROVE  /\ Cardinality(S) \in Nat
           /\ Fresh(S) \subseteq Records
           /\ Unique(Fresh(S))
           /\ \A r \in Fresh(S) : nextId <= r.id /\ r.id < nextId + Cardinality(S)
           /\ \E f \in Bijection(S, Fresh(S)) : \A r \in S : f[r].val = r.val
<1> DEFINE Low(r) == {s \in S : s.id < r.id}
<1> DEFINE New(r) == [id |-> nextId + Cardinality(Low(r)), val |-> r.val]
<1>1. IsFiniteSet(S) /\ Cardinality(S) \in Nat
  BY RecordsFinite, FS_CardinalityType
<1>2. ASSUME NEW r \in S
      PROVE  Cardinality(Low(r)) \in Nat /\ Cardinality(Low(r)) < Cardinality(S)
  <2>1. Low(r) \in SUBSET S /\ r \notin Low(r)
    BY DEF Records
  <2>2. IsFiniteSet(Low(r)) /\ Cardinality(Low(r)) <= Cardinality(S)
    BY <1>1, <2>1, FS_Subset
  <2>3. Cardinality(S) # Cardinality(Low(r))
    BY <1>1, <2>1, FS_Subset
  <2>4. Cardinality(Low(r)) \in Nat
    BY <2>2, FS_CardinalityType
  <2> HIDE DEF Low
  <2> QED
    BY <1>1, <2>2, <2>3, <2>4
<1>3. ASSUME NEW r \in S, NEW t \in S, r.id < t.id
      PROVE  Cardinality(Low(r)) # Cardinality(Low(t))
  <2>1. Low(r) \in SUBSET Low(t)
    BY <1>3 DEF Records
  <2>2. r \in Low(t) /\ r \notin Low(r)
    BY <1>3 DEF Records
  <2>3. Low(t) \in SUBSET S
    OBVIOUS
  <2>4. IsFiniteSet(Low(t))
    BY <1>1, <2>3, FS_Subset
  <2> HIDE DEF Low
  <2>5. Low(r) # Low(t)
    BY <2>2
  <2> QED
    BY <2>1, <2>4, <2>5, FS_Subset
<1>4. Fresh(S) = {New(r) : r \in S}
  BY DEF Fresh
<1>5. ASSUME NEW r \in S PROVE New(r) \in Records /\ nextId <= New(r).id
                               /\ New(r).id < nextId + Cardinality(S)
  <2>1. r.val \in Values
    BY DEF Records
  <2>2. New(r).id = nextId + Cardinality(Low(r)) /\ New(r).val = r.val
    OBVIOUS
  <2>3. nextId + Cardinality(Low(r)) \in Nat \ {0}
    BY <1>2
  <2> HIDE DEF Low
  <2>4. New(r) \in Records
    BY <2>1, <2>3 DEF Records
  <2> HIDE DEF New
  <2> QED
    BY <1>1, <1>2, <2>2, <2>4
<1>6. ASSUME NEW r \in S, NEW t \in S, New(r).id = New(t).id PROVE r = t
  <2>1. Cardinality(Low(r)) = Cardinality(Low(t))
    <3>1. nextId + Cardinality(Low(r)) = nextId + Cardinality(Low(t))
      BY <1>6
    <3> HIDE DEF Low
    <3> QED
      BY <3>1, <1>2
  <2>2. ~(r.id < t.id) /\ ~(t.id < r.id)
    BY <1>3, <2>1
  <2>3. r.id \in Nat /\ t.id \in Nat
    BY DEF Records
  <2>4. r.id = t.id
    BY <2>2, <2>3
  <2> QED
    BY <2>4 DEF Unique
<1>7. \A r \in S : New(r).val = r.val
  OBVIOUS
<1> HIDE DEF New
<1>8. Unique(Fresh(S))
  BY <1>4, <1>6 DEF Unique
<1> DEFINE f == [r \in S |-> New(r)]
<1>9. f \in Bijection(S, Fresh(S))
  <2>1. f \in [S -> Fresh(S)]
    BY <1>4
  <2>2. \A r, t \in S : f[r] = f[t] => r = t
    BY <1>6
  <2>3. \A t \in Fresh(S) : \E r \in S : f[r] = t
    BY <1>4
  <2> QED
    BY <2>1, <2>2, <2>3 DEF Bijection, Injection, Surjection, IsInjective
<1>10. \A r \in S : f[r].val = r.val
  BY <1>7
<1> QED
  BY <1>1, <1>4, <1>5, <1>8, <1>9, <1>10
-------------------------------------------------------------------------------
Typed ==
    /\ setting \in Settings
    /\ nextId \in Nat \ {0}
    /\ zone \subseteq Records
    /\ pc = [c \in Calls |-> pc[c]]
    /\ shown \in [Calls -> SUBSET Records]
    /\ edited \in [Calls -> SUBSET Nat]
    /\ seen \in [Calls -> SUBSET Records]
    /\ budget \in [{"rejects", "lost", "kills", "edits"} -> Nat]

\* Identifiers are unique and handed out once.
ZoneGood == Unique(zone) /\ Below(zone, nextId)

\* What a call has read has identifiers of its own, all handed out.
SeenGood(c) == Unique(seen[c]) /\ Below(seen[c], nextId)

\* What a caller was shown is still what its identifiers mean, but for records
\* that were edited in place since.
ShownGood(c) ==
    /\ Below(shown[c], nextId)
    /\ \A s \in shown[c], r \in zone : s.id = r.id => s = r \/ r.id \in edited[c]

\* A call that is about to delete does what was approved.
PlanGood(c) == pc[c] \in {"delete", "batch"} => Applied(c) = Approved(c)

IInv == Typed /\ ZoneGood /\ \A c \in Calls : SeenGood(c) /\ ShownGood(c) /\ PlanGood(c)

LEMMA Initially == Init => IInv
<1> SUFFICES ASSUME Init PROVE IInv
  OBVIOUS
<1>1. PICK n \in 0..setting.size : \E f \in [1..n -> Values] :
          zone = {[id |-> i, val |-> f[i]] : i \in 1..n} /\ nextId = n + 1
  BY DEF Init
<1>2. PICK f \in [1..n -> Values] :
          zone = {[id |-> i, val |-> f[i]] : i \in 1..n} /\ nextId = n + 1
  BY <1>1
<1>3. setting.size \in Nat /\ n \in Nat
  BY DnsAssumption DEF Init
<1>4. zone \subseteq Records /\ nextId \in Nat
  BY <1>2, <1>3 DEF Records
<1>5. ZoneGood
  BY <1>2, <1>3 DEF ZoneGood, Unique, Below
<1>6. Typed
  BY <1>4 DEF Init, Typed
<1>7. \A c \in Calls : SeenGood(c) /\ ShownGood(c) /\ PlanGood(c)
  BY DEF Init, SeenGood, ShownGood, PlanGood, Unique, Below
<1> QED
  BY <1>5, <1>6, <1>7 DEF IInv

\* A change of the zone: records go, and records with new identifiers come.
Evolves ==
    \E new \in SUBSET Records :
        /\ zone' \subseteq zone \cup new
        /\ Unique(new)
        /\ \A r \in new : nextId <= r.id /\ r.id < nextId'
        /\ nextId' \in Nat /\ nextId <= nextId'

LEMMA EvolvesKeeps ==
    ASSUME IInv, Evolves
    PROVE  /\ zone' \subseteq Records /\ ZoneGood' /\ nextId' \in Nat \ {0}
           /\ \A c \in Calls : seen'[c] = seen[c] => SeenGood(c)'
           /\ \A c \in Calls : shown'[c] = shown[c] /\ edited'[c] = edited[c] => ShownGood(c)'
<1>1. PICK new \in SUBSET Records :
        /\ zone' \subseteq zone \cup new
        /\ Unique(new)
        /\ \A r \in new : nextId <= r.id /\ r.id < nextId'
        /\ nextId' \in Nat /\ nextId <= nextId'
  BY DEF Evolves
<1>2. Typed /\ ZoneGood
  BY DEF IInv
<1>3. \A r \in new, s \in zone : r.id # s.id
  BY <1>1, <1>2 DEF ZoneGood, Below, Records, Typed
<1>4. ZoneGood'
  <2>1. Unique(zone)'
    BY <1>1, <1>2, <1>3 DEF Unique, ZoneGood
  <2>2. Below(zone, nextId)'
    BY <1>1, <1>2 DEF Below, ZoneGood, Typed, Records
  <2> QED
    BY <2>1, <2>2 DEF ZoneGood
<1>5. ASSUME NEW c \in Calls, seen'[c] = seen[c] PROVE SeenGood(c)'
  <2>1. SeenGood(c) /\ seen[c] \subseteq Records
    BY <1>2 DEF IInv, Typed
  <2> QED
    BY <1>1, <1>2, <1>5, <2>1 DEF SeenGood, Unique, Below, Records, Typed
<1>6. ASSUME NEW c \in Calls, shown'[c] = shown[c], edited'[c] = edited[c] PROVE ShownGood(c)'
  <2>1. ShownGood(c) /\ shown[c] \subseteq Records
    BY <1>2 DEF IInv, Typed
  <2>2. \A s \in shown[c], r \in new : s.id # r.id
    BY <1>1, <1>2, <2>1 DEF ShownGood, Below, Records, Typed
  <2>3. Below(shown[c], nextId)'
    BY <1>1, <1>2, <1>6, <2>1 DEF ShownGood, Below, Records, Typed
  <2>4. \A s \in shown[c], r \in zone' : s.id = r.id => s = r \/ r.id \in edited[c]
    BY <1>1, <2>1, <2>2 DEF ShownGood
  <2> QED
    BY <1>6, <2>3, <2>4 DEF ShownGood
<1> QED
  BY <1>1, <1>2, <1>4, <1>5, <1>6 DEF Typed

LEMMA StaysIsEvolves ==
    ASSUME IInv, zone' \subseteq zone, nextId' = nextId PROVE Evolves
<1>1. {} \in SUBSET Records /\ Unique({}) /\ nextId \in Nat
  BY DEF Unique, IInv, Typed
<1> QED
  BY <1>1 DEF Evolves

LEMMA OneMoreIsEvolves ==
    ASSUME IInv, NEW v \in Values, Add({[id |-> nextId, val |-> v]}),
           zone' \subseteq zone \cup {[id |-> nextId, val |-> v]}
    PROVE  Evolves
<1> DEFINE r == [id |-> nextId, val |-> v]
<1>1. nextId \in Nat \ {0} /\ Cardinality({r}) = 1
  BY FS_Singleton DEF IInv, Typed
<1>2. nextId' = nextId + 1
  BY <1>1 DEF Add
<1>3. {r} \in SUBSET Records /\ Unique({r})
  BY <1>1 DEF Records, Unique
<1>4. \A s \in {r} : nextId <= s.id /\ s.id < nextId'
  BY <1>1, <1>2
<1> QED
  BY <1>1, <1>2, <1>3, <1>4 DEF Evolves

\* An accepted add request, wherever its records land.
LEMMA AcceptedIsEvolves ==
    ASSUME IInv, NEW c \in Calls, NEW some \in SUBSET Records, Accepted(c, some),
           Unique(some), \E n \in Nat : Below(some, n)
    PROVE  Evolves
<1>1. PICK n \in Nat : Below(some, n)
  OBVIOUS
<1>2. nextId \in Nat \ {0}
  BY DEF IInv, Typed
<1>3. /\ Cardinality(some) \in Nat
      /\ Fresh(some) \subseteq Records
      /\ Unique(Fresh(some))
      /\ \A r \in Fresh(some) : nextId <= r.id /\ r.id < nextId + Cardinality(some)
  BY <1>1, <1>2, FreshIsNew
<1>4. nextId' = nextId + Cardinality(some) /\ zone' \subseteq zone \cup Fresh(some)
  BY DEF Accepted, Add
<1>5. nextId' \in Nat /\ nextId <= nextId'
  BY <1>2, <1>3, <1>4
<1> QED
  BY <1>3, <1>4, <1>5 DEF Evolves

LEMMA WantedIsOne ==
    ASSUME IInv, NEW c \in Calls
    PROVE  /\ Wanted(c) = {[id |-> nextId, val |-> Want[c]]}
           /\ Wanted(c) \in SUBSET Records /\ Unique(Wanted(c))
           /\ \E n \in Nat : Below(Wanted(c), n)
<1>1. nextId \in Nat \ {0} /\ Want[c] \in Values
  BY DnsAssumption DEF IInv, Typed
<1>2. Wanted(c) \in SUBSET Records /\ Unique(Wanted(c))
  BY <1>1 DEF Wanted, Records, Unique
<1>3. Below(Wanted(c), nextId + 1) /\ nextId + 1 \in Nat
  BY <1>1 DEF Wanted, Below
<1> QED
  BY <1>2, <1>3 DEF Wanted

\* How each step changes the zone.
LEMMA StepEvolves ==
    ASSUME IInv, NEW c \in Calls, Step(c) \/ Kill(c) PROVE Evolves
<1>1. Want[c] \in Values
  BY DnsAssumption
<1>2. CASE zone' \subseteq zone /\ nextId' = nextId
  BY <1>2, StaysIsEvolves
<1>3. CASE DryRun(c) \/ Read(c) \/ Delete(c) \/ Verify(c) \/ Kill(c)
  BY <1>2, <1>3 DEF DryRun, Read, Delete, Verify, Kill, Without
<1>4. CASE AddRecord(c)
  <2>1. CASE Accepted(c, Wanted(c))
    BY <2>1, WantedIsOne, AcceptedIsEvolves
  <2> QED
    BY <1>2, <1>4, <2>1 DEF AddRecord
<1>5. CASE Batch(c)
  <2> DEFINE new == IF Applied(c).add THEN Wanted(c) ELSE {}
  <2>1. CASE Add(new) /\ zone' = Without(Applied(c).delete) \cup new
    <3>1. Without(Applied(c).delete) \subseteq zone
      BY DEF Without
    <3>2. CASE Applied(c).add
      BY <1>1, <2>1, <3>1, <3>2, WantedIsOne, OneMoreIsEvolves
    <3>3. CASE ~Applied(c).add
      <4>1. zone' \subseteq zone
        BY <2>1, <3>1, <3>3
      <4>2. nextId' = nextId
        BY <2>1, <3>3, FS_EmptySet DEF Add, IInv, Typed
      <4> QED
        BY <4>1, <4>2, <1>2
    <3> QED
      BY <3>2, <3>3
  <2>2. CASE UNCHANGED <<zone, nextId>>
    BY <1>2, <2>2
  <2> QED
    BY <1>5, <2>1, <2>2 DEF Batch
<1>6. CASE Restore(c)
  <2>1. PICK some \in SUBSET Deleted(c) : Accepted(c, some)
    BY <1>6 DEF Restore
  <2>2. some \in SUBSET Records /\ Unique(some) /\ Below(some, nextId) /\ nextId \in Nat
    BY DEF Deleted, IInv, Typed, SeenGood, Unique, Below
  <2> QED
    BY <2>1, <2>2, AcceptedIsEvolves
<1> QED
  BY <1>3, <1>4, <1>5, <1>6 DEF Step

\* A call begins to delete with the plan that was approved.
LEMMA StepPlans ==
    ASSUME IInv, NEW c \in Calls, Step(c) \/ Kill(c)
    PROVE  /\ \A d \in Calls : PlanGood(d)' /\ SeenGood(d)' /\ ShownGood(d)'
           /\ pc' = [d \in Calls |-> pc'[d]]
           /\ shown' \in [Calls -> SUBSET Records] /\ edited' \in [Calls -> SUBSET Nat]
           /\ seen' \in [Calls -> SUBSET Records]
<1> USE DEF Goto, Fails, Proceeds, Verified
<1>1. Typed /\ ZoneGood /\ Evolves
  BY StepEvolves DEF IInv
<1>2. ASSUME NEW d \in Calls \ {c}
      PROVE  pc'[d] = pc[d] /\ seen'[d] = seen[d] /\ shown'[d] = shown[d] /\ edited'[d] = edited[d]
  BY <1>1 DEF Step, Kill, DryRun, Read, PlansFrom, Delete, AddRecord, Restore, Batch, Verify, Typed
<1>3. /\ pc' = [d \in Calls |-> pc'[d]]
      /\ shown' \in [Calls -> SUBSET Records] /\ edited' \in [Calls -> SUBSET Nat]
      /\ seen' \in [Calls -> SUBSET Records]
  BY <1>1 DEF Step, Kill, DryRun, Read, PlansFrom, Delete, AddRecord, Restore, Batch, Verify, Typed
<1>4. ASSUME NEW d \in Calls \ {c} PROVE PlanGood(d)' /\ SeenGood(d)' /\ ShownGood(d)'
  BY <1>1, <1>2, EvolvesKeeps DEF IInv, PlanGood, Applied, Approved
<1>5. CASE Read(c)
  <2>1. /\ seen'[c] \in {zone, {}, seen[c]}
        /\ shown'[c] = shown[c] /\ edited'[c] = edited[c] /\ zone' = zone /\ nextId' = nextId
    BY <1>1, <1>5 DEF Read, PlansFrom, Typed
  <2>2. SeenGood(c)'
    BY <1>1, <2>1 DEF IInv, SeenGood, ZoneGood, Unique, Below
  <2>3. pc'[c] \in {"delete", "batch"} => Plan(seen'[c], Want[c]) = Plan(shown[c], Want[c])
    BY <1>1, <1>5 DEF Read, PlansFrom, Approved, Typed
  <2>4. PlanGood(c)'
    BY <2>1, <2>3 DEF PlanGood, Applied, Approved
  <2>5. ShownGood(c)'
    BY <1>1, <2>1, EvolvesKeeps
  <2> QED
    BY <1>3, <1>4, <2>2, <2>4, <2>5
<1>6. CASE DryRun(c)
  <2>1. /\ shown'[c] \in {zone, {}} /\ zone' = zone /\ nextId' = nextId
        /\ seen'[c] = seen[c] /\ pc'[c] = "approved"
    BY <1>1, <1>6 DEF DryRun, Typed
  <2>2. ShownGood(c)'
    BY <1>1, <2>1 DEF ShownGood, ZoneGood, Unique, Below
  <2> QED
    BY <1>1, <1>3, <1>4, <2>1, <2>2, EvolvesKeeps DEF PlanGood
<1>7. CASE ~Read(c) /\ ~DryRun(c)
  <2>1. /\ seen'[c] = seen[c] /\ shown'[c] = shown[c] /\ edited'[c] = edited[c]
        /\ pc'[c] \notin {"delete", "batch"}
    BY <1>1, <1>7 DEF Step, Kill, Delete, AddRecord, Restore, Batch, Verify, Typed
  <2> QED
    BY <1>1, <1>3, <1>4, <2>1, EvolvesKeeps DEF PlanGood
<1> QED
  BY <1>5, <1>6, <1>7

LEMMA CallersAreCalls == Typed => setting.callers \subseteq Calls
BY DnsAssumption DEF Typed

LEMMA BudgetTyped ==
    ASSUME IInv, PanelEdit \/ \E c \in Calls : Step(c) \/ Kill(c)
    PROVE  budget' \in [{"rejects", "lost", "kills", "edits"} -> Nat]
<1>1. budget \in [{"rejects", "lost", "kills", "edits"} -> Nat]
  BY DEF IInv, Typed
<1>2. ASSUME NEW what \in {"rejects", "lost", "kills", "edits"}, Spend(what)
      PROVE  budget' \in [{"rejects", "lost", "kills", "edits"} -> Nat]
  BY <1>1, <1>2 DEF Spend
<1>3. CASE PanelEdit
  BY <1>2, <1>3 DEF PanelEdit
<1>4. ASSUME NEW c \in Calls, Step(c) \/ Kill(c)
      PROVE  \/ UNCHANGED budget
             \/ \E what \in {"rejects", "lost", "kills", "edits"} : Spend(what)
  BY <1>4 DEF Step, Kill, DryRun, Read, Delete, AddRecord, Restore, Batch, Verify, Lose, Reject, Misread
<1> QED
  BY <1>1, <1>2, <1>3, <1>4

\* An edit in the panel, in place or not.
LEMMA PanelKeeps ==
    ASSUME IInv, PanelEdit
    PROVE  /\ zone' \subseteq Records /\ ZoneGood' /\ nextId' \in Nat \ {0}
           /\ edited' \in [Calls -> SUBSET Nat]
           /\ \A c \in Calls : SeenGood(c)' /\ ShownGood(c)'
<1>1. Typed /\ ZoneGood /\ UNCHANGED <<shown, seen>>
  BY DEF IInv, PanelEdit
<1>2. CASE UNCHANGED edited /\ Evolves
  BY <1>1, <1>2, EvolvesKeeps DEF Typed
<1>3. CASE (\E r \in zone : zone' = zone \ {r}) /\ UNCHANGED <<nextId, edited>>
  BY <1>2, <1>3, StaysIsEvolves
<1>4. CASE /\ \E v \in Values : LET new == {[id |-> nextId, val |-> v]}
                               IN  Add(new) /\ zone' = zone \cup new
           /\ UNCHANGED edited
  BY <1>2, <1>4, OneMoreIsEvolves
<1>5. ASSUME NEW r \in zone, NEW v \in Values, UNCHANGED nextId,
             zone' = (zone \ {r}) \cup {[r EXCEPT !.val = v]},
             edited' = [c \in Calls |-> edited[c] \cup {r.id}]
      PROVE  /\ zone' \subseteq Records /\ ZoneGood' /\ nextId' \in Nat \ {0}
             /\ edited' \in [Calls -> SUBSET Nat]
             /\ \A c \in Calls : SeenGood(c)' /\ ShownGood(c)'
  <2> DEFINE new == [r EXCEPT !.val = v]
  <2>1. r \in Records /\ r.id \in Nat /\ new \in Records /\ new.id = r.id
    BY <1>1 DEF Typed, Records
  <2> HIDE DEF new
  <2>2. zone' = (zone \ {r}) \cup {new}
    BY <1>5 DEF new
  <2>3. \A s \in zone \ {r} : s.id # r.id
    BY <1>1 DEF ZoneGood, Unique
  <2>4. ZoneGood'
    BY <1>1, <1>5, <2>1, <2>2, <2>3 DEF ZoneGood, Unique, Below
  <2>5. edited' \in [Calls -> SUBSET Nat]
    BY <1>1, <1>5, <2>1 DEF Typed
  <2>6. ASSUME NEW c \in Calls PROVE SeenGood(c)' /\ ShownGood(c)'
    <3>1. edited'[c] = edited[c] \cup {r.id}
      BY <1>5
    <3>2. SeenGood(c)'
      BY <1>1, <1>5 DEF IInv, SeenGood, Unique, Below
    <3>3. \A s \in shown[c], t \in zone' : s.id = t.id => s = t \/ t.id \in edited'[c]
      BY <2>1, <2>2, <3>1 DEF IInv, ShownGood
    <3>4. Below(shown[c], nextId)
      BY DEF IInv, ShownGood
    <3> QED
      BY <1>1, <1>5, <3>2, <3>3, <3>4 DEF ShownGood, Below
  <2> QED
    BY <1>1, <1>5, <2>1, <2>2, <2>4, <2>5, <2>6 DEF Typed
<1> QED
  BY <1>3, <1>4, <1>5 DEF PanelEdit

LEMMA NextKeeps == IInv /\ [Next]_vars => IInv'
<1> SUFFICES ASSUME IInv, [Next]_vars PROVE IInv'
  OBVIOUS
<1>1. CASE UNCHANGED vars
  BY <1>1 DEF vars, IInv, Typed, ZoneGood, SeenGood, ShownGood, PlanGood, Applied, Approved, Unique, Below
<1>2. ASSUME NEW c \in setting.callers, Step(c) \/ Kill(c), UNCHANGED setting PROVE IInv'
  <2>1. c \in Calls
    BY CallersAreCalls DEF IInv
  <2>2. budget' \in [{"rejects", "lost", "kills", "edits"} -> Nat]
    BY <1>2, <2>1, BudgetTyped
  <2>3. zone' \subseteq Records /\ ZoneGood' /\ nextId' \in Nat \ {0}
    BY <1>2, <2>1, StepEvolves, EvolvesKeeps
  <2>4. /\ \A d \in Calls : PlanGood(d)' /\ SeenGood(d)' /\ ShownGood(d)'
        /\ pc' = [d \in Calls |-> pc'[d]]
        /\ shown' \in [Calls -> SUBSET Records] /\ edited' \in [Calls -> SUBSET Nat]
        /\ seen' \in [Calls -> SUBSET Records]
    BY <1>2, <2>1, StepPlans
  <2>5. Typed'
    BY <1>2, <2>2, <2>3, <2>4 DEF IInv, Typed
  <2> QED
    BY <2>3, <2>4, <2>5 DEF IInv
<1>3. CASE PanelEdit /\ UNCHANGED setting
  <2>1. /\ zone' \subseteq Records /\ ZoneGood' /\ nextId' \in Nat \ {0}
        /\ edited' \in [Calls -> SUBSET Nat]
        /\ \A c \in Calls : SeenGood(c)' /\ ShownGood(c)'
    BY <1>3, PanelKeeps
  <2>2. UNCHANGED <<pc, shown, seen>>
    BY <1>3 DEF PanelEdit
  <2>3. budget' \in [{"rejects", "lost", "kills", "edits"} -> Nat]
    BY <1>3, BudgetTyped
  <2>4. Typed'
    BY <1>3, <2>1, <2>2, <2>3 DEF IInv, Typed
  <2>5. \A c \in Calls : PlanGood(c)'
    BY <2>2 DEF IInv, PlanGood, Applied, Approved
  <2> QED
    BY <2>1, <2>4, <2>5 DEF IInv
<1> QED
  BY <1>1, <1>2, <1>3 DEF Next, Finished

THEOREM InvariantHolds == Spec => []IInv
<1>1. Init => IInv
  BY Initially
<1>2. IInv /\ [Next]_vars => IInv'
  BY NextKeeps
<1> QED
  BY <1>1, <1>2, PTL DEF Spec

LEMMA RemovalsAreApproved ==
    ASSUME IInv, [Next]_vars, budget'["edits"] = budget["edits"], NEW r \in zone \ zone'
    PROVE  \E c \in Calls : /\ pc[c] \in {"delete", "batch"}
                            /\ r.id \in Approved(c).delete
                            /\ r \in shown[c] \/ r.id \in edited[c]
<1>1. ~PanelEdit
  BY DEF PanelEdit, Spend, IInv, Typed
<1>2. PICK c \in Calls : Step(c)
  <2>1. zone' # zone
    OBVIOUS
  <2> QED
    BY <1>1, <2>1, CallersAreCalls DEF Next, Finished, vars, Kill, IInv
<1>3. pc[c] \in {"delete", "batch"} /\ r.id \in Applied(c).delete
  BY <1>2 DEF Step, DryRun, Read, Delete, AddRecord, Accepted, Restore, Batch, Verify, Without
<1>4. r.id \in Approved(c).delete
  BY <1>3 DEF IInv, PlanGood
<1>5. PICK s \in shown[c] : s.id = r.id
  BY <1>4 DEF Approved, Plan
<1>6. r \in shown[c] \/ r.id \in edited[c]
  BY <1>5 DEF IInv, ShownGood
<1> QED
  BY <1>3, <1>4, <1>6

\* dns_replace, dns_reconcile: whoever overlaps and edits, and whatever is refused,
\* misread or lost, no call deletes a record that its approver was not shown, but
\* for one that was edited in place since.
THEOREM OnlyApprovedAreRemoved == Spec => OnlyApprovedRemoved
<1>1. IInv /\ [Next]_vars =>
        [budget'["edits"] = budget["edits"] =>
            \A r \in zone \ zone' : \E c \in Calls :
                /\ pc[c] \in {"delete", "batch"}
                /\ r.id \in Approved(c).delete
                /\ r \in shown[c] \/ r.id \in edited[c]]_vars
  BY RemovalsAreApproved
<1> QED
  BY <1>1, InvariantHolds, PTL DEF Spec, OnlyApprovedRemoved
-------------------------------------------------------------------------------
\* What TypeOK says beyond IInv: identifiers stay within the bound, edited ones
\* too, and a request that is about to be sent is not empty.
Bounded == nextId <= Ids + 1

Ranges ==
    /\ provider \in {"plesk", "cloudflare"}
    /\ pc \in [Calls -> {"idle", "done"} \cup Working \cup Ended]
    /\ edited \in [Calls -> SUBSET (1..Ids)]
    /\ reply \in [Calls -> [verified : BOOLEAN, attempted : BOOLEAN,
                            rollback : {"none", "ok", "failed"}]]

NonEmpty(c) ==
    /\ pc[c] = "delete" => Applied(c).delete # {}
    /\ pc[c] = "restore" => Deleted(c) # {}

TInv == Bounded /\ Ranges /\ \A c \in Calls : NonEmpty(c)

LEMMA TypesInitially == Init => TInv
<1> SUFFICES ASSUME Init PROVE TInv
  OBVIOUS
<1>1. Bounded
  BY DnsAssumption DEF Init, Bounded, Ids
<1>2. Ranges
  BY DEF Init, Ranges, NoReply
<1>3. \A c \in Calls : NonEmpty(c)
  BY DEF Init, NonEmpty
<1> QED
  BY <1>1, <1>2, <1>3 DEF TInv

\* The records of the host have identifiers within the bound.
LEMMA ZoneInRange == IInv /\ Bounded => zone \subseteq Record
<1> SUFFICES ASSUME IInv, Bounded, NEW r \in zone PROVE r \in Record
  OBVIOUS
<1>1. setting.ids \in Nat
  BY DnsAssumption DEF IInv, Typed
<1>2. r \in Records /\ r.id < nextId /\ nextId \in Nat
  BY DEF IInv, Typed, ZoneGood, Below
<1>3. r.id \in 1..Ids
  BY <1>1, <1>2 DEF Records, Bounded, Ids
<1> QED
  BY <1>2, <1>3 DEF Records, Record

LEMMA ReadInRange ==
    ASSUME IInv, Bounded, NEW c \in Calls
    PROVE  seen[c] \subseteq Record /\ shown[c] \subseteq Record
<1>1. setting.ids \in Nat
  BY DnsAssumption DEF IInv, Typed
<1>2. ASSUME NEW r \in Records, r.id < nextId PROVE r \in Record
  <2>1. r.id \in 1..Ids
    BY <1>1, <1>2 DEF Records, Bounded, Ids, IInv, Typed
  <2> QED
    BY <2>1 DEF Records, Record
<1>3. \A r \in seen[c] \cup shown[c] : r \in Records /\ r.id < nextId
  BY DEF IInv, Typed, SeenGood, ShownGood, Below
<1> QED
  BY <1>2, <1>3

LEMMA StepStaysBounded ==
    ASSUME IInv, Bounded, NEW c \in Calls, Step(c) \/ Kill(c), UNCHANGED setting
    PROVE  Bounded'
<1>1. ASSUME NEW new, Add(new) PROVE Bounded'
  BY <1>1 DEF Add, Bounded, Ids
<1>2. CASE UNCHANGED nextId
  BY <1>2 DEF Bounded, Ids
<1>3. UNCHANGED nextId \/ \E new : Add(new)
  BY DEF Step, Kill, DryRun, Read, Delete, AddRecord, Accepted, Restore, Batch, Verify
<1> QED
  BY <1>1, <1>2, <1>3

LEMMA StepTyped ==
    ASSUME IInv, TInv, NEW c \in Calls, Step(c) \/ Kill(c), UNCHANGED <<setting, provider>>
    PROVE  TInv'
<1> USE DEF Goto, Fails, Proceeds, Verified
<1> DEFINE Answers == [verified : BOOLEAN, attempted : BOOLEAN,
                       rollback : {"none", "ok", "failed"}]
<1> DEFINE Places == {"idle", "done"} \cup Working \cup Ended
<1>1. Typed /\ Bounded /\ Ranges /\ NonEmpty(c)
  BY DEF IInv, TInv
<1>2. Bounded'
  BY <1>1, StepStaysBounded
<1>3. pc' \in [Calls -> Places]
  <2>1. \E p \in Places : pc' = [pc EXCEPT ![c] = p]
    BY DEF Step, Kill, DryRun, Read, PlansFrom, Delete, AddRecord, Restore, Batch, Verify, FirstStep,
           Working, Ended
  <2> HIDE DEF Places
  <2> QED
    BY <2>1, <1>1 DEF Ranges, Places
<1>4. edited' \in [Calls -> SUBSET (1..Ids)]
  <2>1. UNCHANGED edited \/ edited' = [edited EXCEPT ![c] = {}]
    BY DEF Step, Kill, DryRun, Read, Delete, AddRecord, Restore, Batch, Verify
  <2> QED
    BY <1>1, <2>1 DEF Ranges
<1>5. reply' \in [Calls -> Answers]
  <2>1. UNCHANGED reply \/ \E a \in Answers : reply' = [reply EXCEPT ![c] = a]
    <3>1. ASSUME NEW a \in BOOLEAN, NEW r \in {"none", "ok", "failed"}
          PROVE  Reply(a, r) \in Answers
      BY DEF Reply
    <3>2. NoReply \in Answers
      BY DEF NoReply
    <3>3. ASSUME NEW a \in BOOLEAN
          PROVE  [verified |-> TRUE, attempted |-> a, rollback |-> "none"] \in Answers
      OBVIOUS
    <3>4. (provider = "cloudflare") \in BOOLEAN
      OBVIOUS
    <3> HIDE DEF Answers
    <3> QED
      BY <3>1, <3>2, <3>3, <3>4
         DEF Step, Kill, DryRun, Read, PlansFrom, Delete, AddRecord, Restore, Batch, Verify
  <2> QED
    BY <1>1, <2>1 DEF Ranges
<1>6. ASSUME NEW d \in Calls PROVE NonEmpty(d)'
  <2>1. CASE d # c
    <3>1. pc'[d] = pc[d] /\ seen'[d] = seen[d]
      BY <1>1, <2>1
         DEF Step, Kill, DryRun, Read, PlansFrom, Delete, AddRecord, Restore, Batch, Verify, Typed
    <3> QED
      BY <3>1 DEF TInv, NonEmpty, Applied, Deleted
  <2>2. CASE d = c
    <3>1. CASE Read(c)
      <4>1. pc'[c] # "restore"
        BY <1>1, <3>1 DEF Read, PlansFrom, Typed, FirstStep
      <4>2. pc'[c] = "delete" => seen'[c] = zone /\ Plan(zone, Want[c]).delete # {}
        BY <1>1, <3>1 DEF Read, PlansFrom, Typed, FirstStep
      <4> QED
        BY <2>2, <4>1, <4>2 DEF NonEmpty, Applied
    <3>2. CASE ~Read(c)
      <4>1. seen'[c] = seen[c] /\ pc'[c] # "delete"
        BY <1>1, <3>2
           DEF Step, Kill, DryRun, Delete, AddRecord, Restore, Batch, Verify, Typed
      <4>2. pc'[c] = "restore" => Deleted(c) # {}
        BY <1>1, <3>2
           DEF Step, Kill, DryRun, Delete, AddRecord, Restore, Batch, Verify, Typed
      <4> QED
        BY <2>2, <4>1, <4>2 DEF NonEmpty, Applied, Deleted
    <3> QED
      BY <3>1, <3>2
  <2> QED
    BY <2>1, <2>2
<1>7. Ids' = Ids
  BY DEF Ids
<1>8. Ranges'
  BY <1>1, <1>3, <1>4, <1>5, <1>7 DEF Ranges
<1> QED
  BY <1>2, <1>6, <1>8 DEF TInv

LEMMA TypesKept == IInv /\ TInv /\ [Next]_vars => TInv'
<1> SUFFICES ASSUME IInv, TInv, [Next]_vars PROVE TInv'
  OBVIOUS
<1>1. CASE UNCHANGED vars
  <2>1. Ids' = Ids
    BY <1>1 DEF Ids, vars
  <2> QED
    BY <1>1, <2>1 DEF TInv, Bounded, Ranges, NonEmpty, Applied, Deleted, vars
<1>2. ASSUME NEW c \in setting.callers, Step(c) \/ Kill(c), UNCHANGED <<setting, provider>>
      PROVE  TInv'
  BY <1>2, CallersAreCalls, StepTyped DEF IInv
<1>3. CASE PanelEdit /\ UNCHANGED <<setting, provider>>
  <2>1. Bounded'
    BY <1>3 DEF PanelEdit, Add, Bounded, Ids, TInv
  <2>2. zone \subseteq Record /\ Ids' = Ids
    BY <1>3, ZoneInRange DEF TInv, Ids
  <2>3. Ranges'
    BY <1>3, <2>2 DEF PanelEdit, Ranges, TInv, Record
  <2>4. \A c \in Calls : NonEmpty(c)'
    BY <1>3 DEF PanelEdit, NonEmpty, TInv, Applied, Deleted
  <2> QED
    BY <2>1, <2>3, <2>4 DEF TInv
<1> QED
  BY <1>1, <1>2, <1>3 DEF Next, Finished

LEMMA TypesFollow == IInv /\ TInv => TypeOK
<1> SUFFICES ASSUME IInv, TInv PROVE TypeOK
  OBVIOUS
<1>1. /\ zone \subseteq Record /\ seen \in [Calls -> SUBSET Record]
      /\ shown \in [Calls -> SUBSET Record]
  BY ZoneInRange, ReadInRange DEF TInv, IInv, Typed
<1>2. nextId \in 1..(Ids + 1)
  BY DnsAssumption DEF IInv, Typed, TInv, Bounded, Ids
<1> QED
  BY <1>1, <1>2 DEF IInv, Typed, TInv, ZoneGood, Unique, Below, Ranges, NonEmpty, TypeOK

\* Types, and more: identifiers are unique in the zone, and no call is about to
\* send a delete or a restore request that names nothing.
THEOREM DnsTypes == Spec => []TypeOK
<1>1. Init => TInv
  BY TypesInitially
<1>2. IInv /\ TInv /\ [Next]_vars => TInv'
  BY TypesKept
<1>3. IInv /\ TInv => TypeOK
  BY TypesFollow
<1> QED
  BY <1>1, <1>2, <1>3, InvariantHolds, PTL DEF Spec
-------------------------------------------------------------------------------
WithVal(S, v) == {r \in S : r.val = v}

\* Two sets of records with a bijection that keeps values have the same contents.
LEMMA SameContents ==
    ASSUME NEW S, NEW T, IsFiniteSet(S), NEW v,
           NEW f \in Bijection(S, T), \A r \in S : f[r].val = r.val
    PROVE  /\ IsFiniteSet(WithVal(S, v)) /\ IsFiniteSet(WithVal(T, v))
           /\ Cardinality(WithVal(T, v)) = Cardinality(WithVal(S, v))
<1> DEFINE A == WithVal(S, v)
<1> DEFINE B == WithVal(T, v)
<1> DEFINE g == [r \in A |-> f[r]]
<1>1. f \in [S -> T] /\ (\A r, t \in S : f[r] = f[t] => r = t) /\ \A t \in T : \E r \in S : f[r] = t
  BY DEF Bijection, Injection, Surjection, IsInjective
<1>2. A \subseteq S /\ IsFiniteSet(A)
  BY FS_Subset DEF WithVal
<1>3. g \in [A -> B]
  BY <1>1 DEF WithVal
<1>4. \A r, t \in A : g[r] = g[t] => r = t
  BY <1>1, <1>2
<1>5. \A t \in B : \E r \in A : g[r] = t
  BY <1>1 DEF WithVal
<1> HIDE DEF A, B, g
<1>6. g \in Bijection(A, B)
  BY <1>3, <1>4, <1>5 DEF Bijection, Injection, Surjection, IsInjective
<1>7. ExistsBijection(A, B)
  BY <1>6 DEF ExistsBijection
<1>8. IsFiniteSet(B) /\ Cardinality(B) = Cardinality(A)
  BY <1>2, <1>7, FS_Bijection
<1> QED
  BY <1>2, <1>8 DEF A, B

\* Removing D from S and adding as many records of the same values: the same contents.
LEMMA SwappedContents ==
    ASSUME NEW S, IsFiniteSet(S), NEW D \in SUBSET S, NEW T,
           NEW f \in Bijection(D, T), \A r \in D : f[r].val = r.val,
           S \cap T = {}
    PROVE  Contents((S \ D) \cup T) = Contents(S)
<1> SUFFICES ASSUME NEW v \in Values
             PROVE  Cardinality(WithVal((S \ D) \cup T, v)) = Cardinality(WithVal(S, v))
  BY DEF Contents, WithVal
<1> DEFINE Kept == WithVal(S \ D, v)
<1> DEFINE Gone == WithVal(D, v)
<1> DEFINE Back == WithVal(T, v)
<1>1. IsFiniteSet(D) /\ IsFiniteSet(S \ D)
  BY FS_Subset
<1>2. IsFiniteSet(Gone) /\ IsFiniteSet(Back) /\ Cardinality(Back) = Cardinality(Gone)
  BY <1>1, SameContents
<1>3. IsFiniteSet(Kept)
  <2>1. Kept \in SUBSET (S \ D)
    BY DEF WithVal
  <2> QED
    BY <1>1, <2>1, FS_Subset
<1>4. /\ WithVal((S \ D) \cup T, v) = Kept \cup Back /\ Kept \cap Back = {}
      /\ WithVal(S, v) = Kept \cup Gone /\ Kept \cap Gone = {}
  BY DEF WithVal
<1> HIDE DEF Kept, Gone, Back
<1>5. Cardinality(Kept \cup Back) = Cardinality(Kept) + Cardinality(Back) - Cardinality({})
  BY <1>2, <1>3, <1>4, FS_Union
<1>6. Cardinality(Kept \cup Gone) = Cardinality(Kept) + Cardinality(Gone) - Cardinality({})
  BY <1>2, <1>3, <1>4, FS_Union
<1> QED
  BY <1>2, <1>4, <1>5, <1>6

\* What a call that has the host for itself knows of the zone on its way to a
\* rollback: nothing but its own requests has changed what it read.
OwnZone(c) ==
    Alone(c) =>
        /\ pc[c] = "delete" => zone = seen[c]
        /\ pc[c] \in {"add", "restore"} => zone = seen[c] \ Deleted(c)
        /\ pc[c] = "blind" => seen[c] = {}
        /\ pc[c] = "failed" /\ reply[c].rollback = "ok" /\ setting.host # "apex" =>
                Contents(zone) = Contents(seen[c])

LInv == \A c \in Calls : OwnZone(c)

\* The restore of a call that is alone brings back the contents it read.
LEMMA RestoreRestores ==
    ASSUME IInv, NEW c \in Calls, zone = seen[c] \ Deleted(c),
           zone' = zone \cup Fresh(Deleted(c))
    PROVE  Contents(zone') = Contents(seen[c])
<1> DEFINE D == Deleted(c)
<1>1. /\ seen[c] \in SUBSET Records /\ Unique(seen[c]) /\ Below(seen[c], nextId)
      /\ nextId \in Nat \ {0}
  BY DEF IInv, Typed, SeenGood
<1>2. D \in SUBSET seen[c]
  BY DEF Deleted
<1>3. D \in SUBSET Records /\ Unique(D) /\ Below(D, nextId)
  BY <1>1, <1>2 DEF Unique, Below
<1> HIDE DEF D
<1>4. IsFiniteSet(seen[c])
  BY <1>1, RecordsFinite
<1>5. /\ \A r \in Fresh(D) : nextId <= r.id
      /\ \E f \in Bijection(D, Fresh(D)) : \A r \in D : f[r].val = r.val
      /\ Fresh(D) \subseteq Records
  BY <1>1, <1>3, FreshIsNew
<1>6. seen[c] \cap Fresh(D) = {}
  BY <1>1, <1>5 DEF Below, Records
<1>7. Contents((seen[c] \ D) \cup Fresh(D)) = Contents(seen[c])
  BY <1>2, <1>4, <1>5, <1>6, SwappedContents
<1> QED
  BY <1>7 DEF D

LEMMA AloneActs ==
    ASSUME Typed, NEW c \in Calls, Alone(c), [Next]_vars
    PROVE  UNCHANGED vars \/ ((Step(c) \/ Kill(c)) /\ UNCHANGED setting)
<1>1. ~PanelEdit
  BY DEF PanelEdit, Spend, Typed, Alone
<1> QED
  BY <1>1 DEF Next, Finished, Alone

LEMMA OwnStep ==
    ASSUME IInv, NEW c \in Calls, OwnZone(c), Alone(c), Step(c) \/ Kill(c), UNCHANGED setting,
           reply = [d \in Calls |-> reply[d]]
    PROVE  OwnZone(c)'
<1> USE DEF Goto, Fails, Proceeds, Verified, NoReply, Reply
<1>1. Typed
  BY DEF IInv
<1>2. CASE DryRun(c) \/ Verify(c) \/ Kill(c) \/ Batch(c)
  <2>1. pc'[c] \notin {"delete", "add", "blind", "restore"}
    BY <1>1, <1>2 DEF DryRun, Verify, Kill, Batch, Typed
  <2>2. pc'[c] = "failed" => reply'[c].rollback # "ok"
    BY <1>1, <1>2 DEF DryRun, Verify, Kill, Batch, Typed
  <2> QED
    BY <2>1, <2>2 DEF OwnZone
<1>3. CASE Read(c)
  <2>1. /\ zone' = zone /\ pc'[c] # "restore"
        /\ pc'[c] \in {"delete", "add"} => seen'[c] = zone
        /\ pc'[c] = "blind" => seen'[c] = {}
    BY <1>1, <1>3 DEF Read, PlansFrom, Typed, FirstStep
  <2>2. pc'[c] = "failed" => reply'[c].rollback # "ok"
    BY <1>1, <1>3 DEF Read, PlansFrom, Typed, FirstStep
  <2>3. pc'[c] = "add" => Plan(zone, Want[c]).delete = {}
    BY <1>1, <1>3 DEF Read, PlansFrom, Typed, FirstStep
  <2>4. pc'[c] = "add" => Deleted(c)' = {}
    BY <2>1, <2>3 DEF Deleted, Applied
  <2> QED
    BY <2>1, <2>2, <2>4 DEF OwnZone
<1>4. CASE Delete(c)
  <2>1. seen' = seen /\ zone = seen[c] /\ pc'[c] \notin {"delete", "blind", "restore"}
    BY <1>1, <1>4 DEF Delete, OwnZone, Typed
  <2>2. pc'[c] = "add" => zone' = Without(Applied(c).delete)
    BY <1>1, <1>4 DEF Delete, Typed
  <2>3. pc'[c] = "failed" => reply'[c].rollback # "ok"
    BY <1>1, <1>4 DEF Delete, Typed
  <2>4. Without(Applied(c).delete) = seen[c] \ Deleted(c)
    BY <2>1 DEF Without, Deleted
  <2>5. Deleted(c)' = Deleted(c)
    BY <2>1 DEF Deleted, Applied
  <2> QED
    BY <2>1, <2>2, <2>3, <2>4, <2>5 DEF OwnZone
<1>5. CASE AddRecord(c)
  <2>1. seen' = seen /\ pc[c] \in {"add", "blind"} /\ pc'[c] \notin {"delete", "add", "blind"}
    BY <1>1, <1>5 DEF AddRecord, Typed
  <2>2. pc'[c] = "restore" => zone' = zone /\ Deleted(c) # {}
    BY <1>1, <1>5 DEF AddRecord, Typed
  <2>3. pc'[c] = "failed" => reply'[c].rollback # "ok"
    BY <1>1, <1>5 DEF AddRecord, Typed
  <2>4. Deleted(c)' = Deleted(c) /\ (pc[c] = "blind" => Deleted(c) = {})
    BY <2>1 DEF Deleted, Applied, OwnZone
  <2>5. pc'[c] = "restore" => zone' = seen[c] \ Deleted(c)
    BY <2>1, <2>2, <2>4 DEF OwnZone
  <2> QED
    BY <2>1, <2>3, <2>4, <2>5 DEF OwnZone
<1>6. CASE Restore(c)
  <2>1. seen' = seen /\ zone = seen[c] \ Deleted(c) /\ pc[c] = "restore" /\ pc'[c] = "failed"
    BY <1>1, <1>6 DEF Restore, OwnZone, Typed
  <2>2. setting.host # "apex" => LandsAtHost(c)
    BY <1>1, <2>1, DnsAssumption DEF LandsAtHost, Typed, Hosts
  <2>3. reply'[c].rollback = "ok" => Accepted(c, Deleted(c))
    BY <1>1, <1>6 DEF Restore, Typed
  <2>4. reply'[c].rollback = "ok" /\ setting.host # "apex" =>
            zone' = zone \cup Fresh(Deleted(c))
    BY <2>2, <2>3 DEF Accepted
  <2>5. reply'[c].rollback = "ok" /\ setting.host # "apex" =>
            Contents(zone') = Contents(seen[c])
    BY <2>1, <2>4, RestoreRestores
  <2>6. Contents(zone)' = Contents(zone') /\ Contents(seen[c])' = Contents(seen[c])
    BY <2>1 DEF Contents
  <2> QED
    BY <2>1, <2>5, <2>6 DEF OwnZone
<1> QED
  BY <1>2, <1>3, <1>4, <1>5, <1>6 DEF Step

LEMMA OwnKept == IInv /\ TInv /\ LInv /\ [Next]_vars => LInv'
<1> SUFFICES ASSUME IInv, TInv, LInv, [Next]_vars, NEW c \in Calls, Alone(c)' PROVE OwnZone(c)'
  BY DEF LInv, OwnZone
<1>1. setting' = setting
  BY DEF Next, vars
<1>2. Alone(c) /\ OwnZone(c) /\ Typed /\ reply = [d \in Calls |-> reply[d]]
  BY <1>1 DEF Alone, LInv, IInv, TInv, Ranges
<1>3. CASE UNCHANGED vars
  BY <1>2, <1>3 DEF OwnZone, Alone, Deleted, Applied, Contents, vars
<1>4. CASE (Step(c) \/ Kill(c)) /\ UNCHANGED setting
  BY <1>2, <1>4, OwnStep
<1> QED
  BY <1>2, <1>3, <1>4, AloneActs

\* dns_replace: a call that had the host for itself and answers rollback_ok left
\* the host with exactly the contents it read, however often it started over and
\* whatever was refused or lost before.
THEOREM RollbackIsRestored == Spec => []RollbackRestores
<1>1. Init => TInv /\ LInv
  BY TypesInitially DEF Init, LInv, OwnZone
<1>2. IInv /\ TInv /\ LInv /\ [Next]_vars => TInv' /\ LInv'
  BY TypesKept, OwnKept
<1>3. LInv => RollbackRestores
  BY DEF LInv, OwnZone, RollbackRestores
<1> QED
  BY <1>1, <1>2, <1>3, InvariantHolds, PTL DEF Spec
===============================================================================
