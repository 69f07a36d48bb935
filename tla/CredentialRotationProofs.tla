----------------------- MODULE CredentialRotationProofs -----------------------
(***************************************************************************)
(* Theorems about CredentialRotation for any number of calls, refusals,    *)
(* lost answers and kills, and every kind of request.                      *)
(***************************************************************************)
EXTENDS CredentialRotation, FiniteSetTheorems, TLAPS

Places == {"idle", "approved", "ok", "kept"} \cup Applying \cup Ended
Set == {"check", "store", "mirror", "readback"}
ApiKey == job.kind = "apikey"

\* What the argument needs of the types: it compares secrets for equality only.
Typed ==
    /\ job \in Jobs
    /\ pc \in [Calls -> Places]
    /\ vault = [e \in Entries |-> vault[e]]
    /\ secret = [c \in Calls |-> secret[c]]
    /\ budget \in [{"faults", "lost", "kills", "duds"} -> Nat]

\* The runner admits one applying call at a time.
OneApplies ==
    job.serial => \A c, d \in Calls : pc[c] \in Applying /\ pc[d] \in Applying => c = d

\* A call that has set the credential holds one that the panel accepts: no other
\* call replaces it, because there is none or because keys are only added; only a
\* created key need not be one that works.
Accepted(c) ==
    (job.serial \/ ApiKey) /\ pc[c] \in Set =>
        secret[c] \in valid \/ (ApiKey /\ budget["duds"] > 0)

\* What the call has stored so far.
Stored(c) ==
    job.serial =>
        /\ pc[c] = "mirror" => vault["primary"] = secret[c]
        /\ pc[c] = "readback" => \A e \in Targets : vault[e] = secret[c]

IInv ==
    /\ Typed /\ OneApplies /\ RuntimeKeyKept
    /\ \A c \in Calls : Accepted(c) /\ Stored(c)

LEMMA Initially == Init => IInv
<1> SUFFICES ASSUME Init PROVE IInv
  OBVIOUS
<1>1. Typed
  BY DEF Init, Typed, Places
<1>2. OneApplies /\ \A c \in Calls : Accepted(c) /\ Stored(c)
  BY DEF Init, OneApplies, Accepted, Stored, Applying, Set
<1>3. RuntimeKeyKept
  BY DEF Init, RuntimeKeyKept, Works, Entries
<1> QED
  BY <1>1, <1>2, <1>3 DEF IInv

\* A call changes nothing of another one, touches panel and vault only while it
\* applies, and takes no API key away.
Own(c) ==
    /\ UNCHANGED job
    /\ \A d \in Calls \ {c} : pc'[d] = pc[d] /\ secret'[d] = secret[d]
    /\ UNCHANGED <<valid, vault>> \/ pc[c] \in Applying
    /\ ApiKey => valid \subseteq valid'
    /\ budget'["duds"] \in Nat /\ budget'["duds"] >= budget["duds"]

LEMMA LocalStep ==
    ASSUME NEW c \in Calls, IInv, Own(c), Typed', RuntimeKeyKept', Accepted(c)', Stored(c)',
           pc'[c] \in Applying =>
               pc[c] \in Applying \/ (job.serial => \A d \in Calls : pc[d] \notin Applying)
    PROVE  IInv'
<1>1. OneApplies'
  BY DEF IInv, OneApplies, Own
<1>2. ASSUME NEW d \in Calls \ {c} PROVE Accepted(d)' /\ Stored(d)'
  <2>1. /\ pc'[d] = pc[d] /\ secret'[d] = secret[d] /\ job' = job
        /\ Accepted(d) /\ Stored(d)
        /\ budget["duds"] > 0 => budget'["duds"] > 0
    BY DEF Own, IInv, Typed
  <2>2. CASE UNCHANGED <<valid, vault>>
    BY <2>1, <2>2 DEF Accepted, Stored, ApiKey, Targets
  <2>3. CASE pc[c] \in Applying /\ job.serial
    <3>1. pc[d] \notin Applying
      BY <2>3 DEF IInv, OneApplies
    <3> QED
      BY <2>1, <3>1 DEF Accepted, Stored, Applying, Set
  <2>4. CASE ~job.serial
    BY <2>1, <2>4 DEF Accepted, Stored, ApiKey, Own
  <2> QED
    BY <2>2, <2>3, <2>4 DEF Own, IInv, Typed, Jobs
<1> QED
  BY <1>1, <1>2 DEF IInv

\* What a step may use of its bounds.
LEMMA Spending ==
    ASSUME Typed, NEW c \in Calls, Step(c) \/ Kill(c)
    PROVE  /\ budget' \in [{"faults", "lost", "kills", "duds"} -> Nat]
           /\ budget'["duds"] \in Nat /\ budget'["duds"] >= budget["duds"]
<1>1. \/ budget' = budget
      \/ \E what \in {"faults", "lost", "kills", "duds"} :
            budget' = [budget EXCEPT ![what] = @ + 1]
  BY DEF Step, Kill, DryRun, Apply, SetPanel, Fallback, Check, Store, ReadBack,
         Fault, Lose, Dud, Spend
<1> QED
  BY <1>1 DEF Typed

\* A key that was created dead is paid for.
LEMMA DudIsSpent == ASSUME Typed, Dud PROVE ApiKey /\ budget'["duds"] > 0
BY DEF Typed, Dud, Spend, ApiKey

\* The call gives up, or has not begun: it sets and stores nothing.
LEMMA Elsewhere ==
    ASSUME NEW c \in Calls, pc'[c] \notin Set PROVE Accepted(c)' /\ Stored(c)'
BY DEF Accepted, Stored, Set

\* Nobody stores: a dead key stays the failure of a call unless that call, too,
\* finds one that works.
LEMMA KeysOnlyAdded ==
    ASSUME IInv, NEW c \in Calls, Own(c), vault' = vault,
           pc'[c] # "idle", pc'[c] = "ok" /\ ApiKey => Works("primary")'
    PROVE  RuntimeKeyKept'
<1> SUFFICES ASSUME ApiKey, vault["primary"] # NoSecret, ~Works("primary")'
             PROVE  budget'["duds"] > 0 /\ \E d \in Calls : pc'[d] \notin {"idle", "ok"}
  BY DEF RuntimeKeyKept, ApiKey, Own
<1>1. ~Works("primary")
  BY DEF Works, Own
<1>2. PICK d \in Calls : pc[d] \notin {"idle", "ok"}
  BY <1>1 DEF IInv, RuntimeKeyKept, ApiKey
<1>3. pc'[d] \notin {"idle", "ok"}
  BY <1>2 DEF Own
<1>4. budget["duds"] > 0 /\ budget["duds"] \in Nat /\ budget'["duds"] >= budget["duds"]
  BY <1>1 DEF IInv, Typed, RuntimeKeyKept, ApiKey, Own
<1> QED
  BY <1>3, <1>4 DEF Own

LEMMA StepKeeps ==
    ASSUME NEW c \in Calls, IInv, Step(c) \/ (Kill(c) /\ UNCHANGED job)
    PROVE  IInv'
<1> USE DEF Goto
<1>0. Typed /\ OneApplies /\ RuntimeKeyKept /\ Accepted(c) /\ Stored(c) /\ job' = job
  BY DEF IInv, Step
<1>s. /\ budget' \in [{"faults", "lost", "kills", "duds"} -> Nat]
      /\ budget'["duds"] \in Nat /\ budget'["duds"] >= budget["duds"]
  BY <1>0, Spending DEF Step
<1>t. pc'[c] # "idle"
  BY <1>0 DEF Step, Kill, DryRun, Apply, SetPanel, Failing, Fallback, Check, Store, ReadBack,
              Typed
<1>1. CASE DryRun(c) \/ Apply(c)
  <2>1. Typed' /\ Own(c)
    BY <1>0, <1>s, <1>1 DEF DryRun, Apply, Typed, Own, Places, Applying, Ended
  <2>2. /\ pc'[c] \in {"kept", "approved", "failed", "panel"}
        /\ pc'[c] = "panel" => (job.serial => \A d \in Calls : pc[d] \notin Applying)
    BY <1>0, <1>1 DEF DryRun, Apply, Typed
  <2>3. UNCHANGED <<valid, vault>>
    BY <1>1 DEF DryRun, Apply
  <2> QED
    BY <1>0, <1>t, <2>1, <2>2, <2>3, LocalStep, Elsewhere, KeysOnlyAdded DEF Set, Applying
<1>2. CASE SetPanel(c)
  <2>1. Typed' /\ pc[c] \in Applying /\ vault' = vault
    BY <1>0, <1>s, <1>2 DEF SetPanel, Failing, Typed, Places, Applying, Ended
  <2>2. ApiKey => valid \subseteq valid'
    BY <1>2 DEF SetPanel, With, ApiKey
  <2>3. Own(c)
    BY <1>0, <1>s, <1>2, <2>1, <2>2 DEF SetPanel, Own, Typed
  <2>4. \/ /\ pc'[c] \in {"check", "store"} /\ secret'[c] = fresh /\ valid' = With(fresh)
        \/ pc'[c] = "store" /\ Dud
        \/ pc'[c] \notin Set
    BY <1>0, <1>2 DEF SetPanel, Failing, Typed, Set
  <2>5. Accepted(c)' /\ Stored(c)'
    BY <1>0, <2>4, Elsewhere, DudIsSpent DEF Accepted, Stored, With, ApiKey
  <2>6. pc'[c] # "ok"
    BY <1>0, <1>2 DEF SetPanel, Failing, Typed
  <2> QED
    BY <1>0, <1>t, <2>1, <2>2, <2>3, <2>5, <2>6, LocalStep, KeysOnlyAdded
<1>3. CASE Fallback(c)
  <2> DEFINE new == IF job.kind = "apikey" THEN fresh ELSE secret[c]
  <2>1. Typed' /\ pc[c] \in Applying /\ vault' = vault
    BY <1>0, <1>s, <1>3 DEF Fallback, Typed, Places, Applying, Ended
  <2>2. ApiKey => valid \subseteq valid'
    BY <1>3 DEF Fallback, With, ApiKey
  <2>3. Own(c)
    BY <1>0, <1>s, <1>3, <2>1, <2>2 DEF Fallback, Own, Typed
  <2>4. \/ pc'[c] \in {"check", "store"} /\ secret'[c] = new /\ valid' = With(new)
        \/ pc'[c] = "store" /\ Dud
        \/ pc'[c] \notin Set
    BY <1>0, <1>3 DEF Fallback, Typed, Set
  <2>5. Accepted(c)' /\ Stored(c)'
    BY <1>0, <2>4, Elsewhere, DudIsSpent DEF Accepted, Stored, With, ApiKey
  <2>6. pc'[c] # "ok"
    BY <1>0, <1>3 DEF Fallback, Typed
  <2> QED
    BY <1>0, <1>t, <2>1, <2>2, <2>3, <2>5, <2>6, LocalStep, KeysOnlyAdded
<1>4. CASE Check(c)
  <2>1. Typed' /\ pc[c] = "check" /\ UNCHANGED <<valid, vault, secret>>
    BY <1>0, <1>s, <1>4 DEF Check, Typed, Places, Applying, Ended
  <2>2. Own(c) /\ pc'[c] \in {"store", "failed"}
    BY <1>0, <1>s, <1>4, <2>1 DEF Check, Own, Typed
  <2>3. Accepted(c)' /\ Stored(c)'
    BY <1>0, <1>s, <2>1, <2>2 DEF Accepted, Stored, Set, ApiKey, Typed
  <2> QED
    BY <1>0, <1>t, <2>1, <2>2, <2>3, LocalStep, KeysOnlyAdded DEF Applying
<1>5. ASSUME NEW e \in Entries, Store(c, e) PROVE IInv'
  <2>1. /\ pc[c] = (IF e = "primary" THEN "store" ELSE "mirror")
        /\ UNCHANGED <<valid, secret>>
        /\ vault' = vault \/ vault' = [vault EXCEPT ![e] = secret[c]]
    BY <1>5 DEF Store
  <2>2. \/ /\ pc' = [pc EXCEPT ![c] = IF e = "primary" /\ job.mirror THEN "mirror" ELSE "readback"]
           /\ vault' = [vault EXCEPT ![e] = secret[c]]
        \/ pc' = [pc EXCEPT ![c] = "failed"]
    BY <1>5 DEF Store
  <2>3. Typed'
    BY <1>0, <1>s, <2>1, <2>2 DEF Typed, Places, Applying, Ended
  <2>4. Own(c)
    BY <1>0, <1>s, <2>1, <2>2 DEF Own, Typed, Applying
  <2>5. RuntimeKeyKept'
    <3>1. ApiKey => secret[c] \in valid \/ budget'["duds"] > 0
      BY <1>0, <1>s, <2>1 DEF Accepted, Set, Typed
    <3>3. pc'[c] \notin {"idle", "ok"}
      BY <1>0, <2>2 DEF Typed
    <3>4. ApiKey /\ vault["primary"] # NoSecret /\ ~Works("primary") => budget'["duds"] > 0
      BY <1>0, <1>s DEF RuntimeKeyKept, ApiKey, Typed
    <3>2. vault'["primary"] = vault["primary"] \/ vault'["primary"] = secret[c]
      BY <1>0, <2>1 DEF Typed, Entries
    <3> QED
      BY <1>0, <2>1, <3>1, <3>2, <3>3, <3>4 DEF RuntimeKeyKept, Works, ApiKey
  <2>6. Accepted(c)' /\ Stored(c)'
    <3>1. CASE pc' = [pc EXCEPT ![c] = "failed"]
      BY <1>0, <3>1, Elsewhere DEF Typed, Set
    <3>2. CASE /\ pc' = [pc EXCEPT ![c] = IF e = "primary" /\ job.mirror
                                           THEN "mirror" ELSE "readback"]
               /\ vault' = [vault EXCEPT ![e] = secret[c]]
      <4>1. Accepted(c)'
        BY <1>0, <1>s, <2>1, <3>2 DEF Accepted, Set, ApiKey, Typed
      <4>2. vault'[e] = secret[c] /\ (e = "mirror" => vault'["primary"] = vault["primary"])
        BY <1>0, <3>2 DEF Typed, Entries
      <4>3. e = "mirror" => (job.serial => vault["primary"] = secret[c])
        BY <1>0, <2>1 DEF Stored
      <4>4. pc'[c] = (IF e = "primary" /\ job.mirror THEN "mirror" ELSE "readback")
        BY <1>0, <3>2 DEF Typed
      <4> QED
        BY <1>0, <2>1, <4>1, <4>2, <4>3, <4>4 DEF Stored, Targets, Entries
    <3> QED
      BY <2>2, <3>1, <3>2
  <2> QED
    BY <1>0, <2>1, <2>3, <2>4, <2>5, <2>6, LocalStep DEF Applying
<1>6. CASE ReadBack(c) \/ Kill(c)
  <2>1. Typed' /\ Own(c) /\ UNCHANGED <<valid, vault>> /\ pc'[c] \in {"ok", "failed", "killed"}
    BY <1>0, <1>s, <1>6 DEF ReadBack, Kill, Typed, Own, Places, Applying, Ended
  <2>2. pc'[c] = "ok" /\ ApiKey => Works("primary")'
    BY <1>0, <1>6, <2>1 DEF ReadBack, Kill, Typed, Confirmed, Works, ApiKey
  <2> QED
    BY <1>0, <1>t, <2>1, <2>2, LocalStep, Elsewhere, KeysOnlyAdded DEF Set, Applying
<1> QED
  BY <1>1, <1>2, <1>3, <1>4, <1>5, <1>6 DEF Step

LEMMA NextKeeps == IInv /\ [Next]_vars => IInv'
<1> SUFFICES ASSUME IInv, [Next]_vars PROVE IInv'
  OBVIOUS
<1>1. CASE UNCHANGED vars
  BY <1>1 DEF vars, IInv, Typed, OneApplies, RuntimeKeyKept, Works, Accepted, Stored, ApiKey, Targets
<1>2. CASE \E c \in Calls : Step(c) \/ (Kill(c) /\ UNCHANGED job)
  BY <1>2, StepKeeps
<1> QED
  BY <1>1, <1>2 DEF Next, Finished

THEOREM InvariantHolds == Spec => []IInv
<1>1. Init => IInv
  BY Initially
<1>2. IInv /\ [Next]_vars => IInv'
  BY NextKeeps
<1> QED
  BY <1>1, <1>2, PTL DEF Spec

\* bootstrap_api_key: whatever is refused, lost, killed or overlaps, a key in the
\* vault opens the API, unless one was created that does not, and then a call that
\* went ahead has no ok answer.
THEOREM RuntimeKeysAreGood == Spec => []RuntimeKeyKept
<1>1. IInv => RuntimeKeyKept
  BY DEF IInv
<1> QED
  BY <1>1, InvariantHolds, PTL

\* A step that answers ok comes from the handler's own last check, with the
\* entries written.
LEMMA OkIsProvisioned ==
    ASSUME IInv, [Next]_vars
    PROVE  \A c \in Calls : job.serial /\ pc'[c] = "ok" /\ pc[c] # "ok" =>
               \A e \in Targets : Works(e)'
<1> SUFFICES ASSUME NEW c \in Calls, job.serial, pc'[c] = "ok", pc[c] # "ok",
                    NEW e \in Targets
             PROVE  Works(e)'
  OBVIOUS
<1> USE DEF Goto
<1>1. ReadBack(c)
  <2>1. PICK d \in Calls : Step(d) \/ Kill(d)
    BY DEF Next, Finished, vars
  <2>2. pc' = [pc EXCEPT ![d] = pc'[d]] /\ pc \in [Calls -> Places]
    BY <2>1 DEF IInv, Typed, Step, Kill, DryRun, Apply, SetPanel, Fallback, Check, Store, ReadBack
  <2>3. d = c
    BY <2>2
  <2>4. ~DryRun(c) /\ ~Apply(c) /\ ~SetPanel(c) /\ ~Kill(c)
    BY <2>2 DEF DryRun, Apply, SetPanel, Kill, Failing
  <2>5. ~Fallback(c) /\ ~Check(c) /\ \A x \in Entries : ~Store(c, x)
    BY <2>2 DEF Fallback, Check, Store
  <2> QED
    BY <2>1, <2>3, <2>4, <2>5 DEF Step
<1>2. vault[e] \in valid
  <2>1. CASE ApiKey
    <3>1. e = "primary"
      BY <2>1 DEF IInv, Typed, Jobs, Targets, ApiKey
    <3>2. Confirmed
      BY <1>1 DEF ReadBack, IInv, Typed
    <3> QED
      BY <2>1, <3>1, <3>2 DEF Confirmed, ApiKey
  <2>2. CASE ~ApiKey
    BY <1>1, <2>2 DEF ReadBack, IInv, Accepted, Stored, Set
  <2> QED
    BY <2>1, <2>2
<1>3. UNCHANGED <<valid, vault>>
  BY <1>1 DEF ReadBack
<1> QED
  BY <1>2, <1>3 DEF Works

\* ensure_mailbox, ensure_ftp_user, bootstrap_api_key: one applying call at a time,
\* an answer "verified" leaves vault entries that open the account.
THEOREM VerifiedIsProvisioned == Spec => Provisioned
<1>1. IInv /\ [Next]_vars =>
        [\A c \in Calls : job.serial /\ pc'[c] = "ok" /\ pc[c] # "ok" =>
            \A e \in Targets : Works(e)']_vars
  BY OkIsProvisioned
<1> QED
  BY <1>1, InvariantHolds, PTL DEF Spec, Provisioned
-------------------------------------------------------------------------------
\* Why two secrets per grant are enough: a grant is consumed before the call asks
\* the panel, and each of the two ways to set a credential takes one secret.
At(place) == {c \in Calls : pc[c] = place}

TwoPerGrant ==
    /\ IsFiniteSet(At("panel")) /\ IsFiniteSet(At("fallback"))
    /\ fresh + 2 * Cardinality(At("panel")) + Cardinality(At("fallback")) <= 2 * grants + 1

\* The secrets generated so far.
Known == 0..(fresh - 1)

Ranges ==
    /\ fresh \in Nat \ {0}
    /\ grants \in 0..MaxGrants
    /\ valid \subseteq Known
    /\ vault \in [Entries -> Known \cup {NoSecret}]
    /\ approved \in [Calls -> Actions]
    /\ secret \in [Calls -> (Known \ {0}) \cup {NoSecret}]

\* A password replaces the one before.
OnePassword == ~ApiKey => \A s, t \in valid : s = t

\* A call past its first request holds a secret, and nobody else does.
Holds(c) == pc[c] \in {"fallback", "check", "store", "mirror"} => secret[c] # NoSecret
OwnSecrets == \A c, d \in Calls : secret[c] = secret[d] /\ secret[c] # NoSecret => c = d

TInv ==
    /\ TwoPerGrant /\ Ranges /\ OnePassword /\ OwnSecrets
    /\ \A c \in Calls : Holds(c)

LEMMA TypesInitially == Init => TInv
<1> SUFFICES ASSUME Init PROVE TInv
  OBVIOUS
<1>1. At("panel") = {} /\ At("fallback") = {}
  BY DEF Init, At
<1>2. TwoPerGrant
  BY <1>1, FS_EmptySet DEF TwoPerGrant, Init
<1>3. Known = {0}
  BY DEF Init, Known
<1>4. Ranges
  BY <1>3, RotationAssumption DEF Init, Ranges, Actions
<1>5. OnePassword /\ OwnSecrets /\ \A c \in Calls : Holds(c)
  BY DEF Init, OnePassword, OwnSecrets, Holds
<1> QED
  BY <1>2, <1>4, <1>5 DEF TInv

\* One call moves: how the count changes.
LEMMA CountMoves ==
    ASSUME NEW c \in Calls, NEW to \in Places, NEW p \in Places, pc \in [Calls -> Places],
           pc' = [pc EXCEPT ![c] = to], IsFiniteSet(At(p))
    PROVE  /\ IsFiniteSet(At(p)')
           /\ Cardinality(At(p)) \in Nat
           /\ Cardinality(At(p)') = Cardinality(At(p)) + (IF to = p THEN 1 ELSE 0)
                                                       - (IF pc[c] = p THEN 1 ELSE 0)
<1> DEFINE A == At(p)
<1> DEFINE B == At(p)'
<1>1. Cardinality(A) \in Nat
  BY FS_CardinalityType
<1>2. CASE to = p /\ pc[c] # p
  <2>1. B = A \cup {c} /\ c \notin A
    BY <1>2 DEF At
  <2> HIDE DEF A, B
  <2>2. IsFiniteSet(B) /\ Cardinality(B) = Cardinality(A) + 1
    BY <2>1, FS_AddElement DEF A
  <2> QED
    BY <1>1, <1>2, <2>2 DEF A, B
<1>3. CASE to # p /\ pc[c] = p
  <2>1. B = A \ {c} /\ c \in A
    BY <1>3 DEF At
  <2> HIDE DEF A, B
  <2>2. IsFiniteSet(B) /\ Cardinality(B) = Cardinality(A) - 1
    BY <2>1, FS_RemoveElement DEF A
  <2> QED
    BY <1>1, <1>3, <2>2 DEF A, B
<1>4. CASE (to = p) = (pc[c] = p)
  <2>1. B = A
    BY <1>4 DEF At
  <2> HIDE DEF A, B
  <2> QED
    BY <1>1, <1>4, <2>1 DEF A, B
<1> QED
  BY <1>2, <1>3, <1>4

\* A step that takes a secret or enters the panel request, and what pays for it.
Pays(from, to) ==
    fresh' - fresh + (IF to = "panel" THEN 2 ELSE IF to = "fallback" THEN 1 ELSE 0)
        <= 2 * (grants' - grants)
             + (IF from = "panel" THEN 2 ELSE IF from = "fallback" THEN 1 ELSE 0)

LEMMA PaidKeepsCount ==
    ASSUME NEW c \in Calls, NEW to \in Places, pc \in [Calls -> Places], TwoPerGrant,
           pc' = [pc EXCEPT ![c] = to], Pays(pc[c], to),
           fresh \in Nat, fresh' \in Nat, grants \in Nat, grants' \in Nat
    PROVE  TwoPerGrant'
<1> DEFINE Weight(q) == IF q = "panel" THEN 2 ELSE IF q = "fallback" THEN 1 ELSE 0
<1>1. {"panel", "fallback"} \subseteq Places
  BY DEF Places, Applying
<1>2. /\ IsFiniteSet(At("panel")') /\ Cardinality(At("panel")) \in Nat
      /\ Cardinality(At("panel")') = Cardinality(At("panel"))
           + (IF to = "panel" THEN 1 ELSE 0) - (IF pc[c] = "panel" THEN 1 ELSE 0)
  BY <1>1, CountMoves DEF TwoPerGrant
<1>3. /\ IsFiniteSet(At("fallback")') /\ Cardinality(At("fallback")) \in Nat
      /\ Cardinality(At("fallback")') = Cardinality(At("fallback"))
           + (IF to = "fallback" THEN 1 ELSE 0) - (IF pc[c] = "fallback" THEN 1 ELSE 0)
  BY <1>1, CountMoves DEF TwoPerGrant
<1>4. PICK p \in Nat, f \in Nat, p2 \in Int, f2 \in Int :
        /\ p = Cardinality(At("panel")) /\ f = Cardinality(At("fallback"))
        /\ p2 = Cardinality(At("panel")') /\ f2 = Cardinality(At("fallback")')
  BY <1>2, <1>3
<1>5. 2 * p2 + f2 = 2 * p + f + Weight(to) - Weight(pc[c])
  BY <1>2, <1>3, <1>4
<1>6. fresh + 2 * p + f <= 2 * grants + 1
  BY <1>4 DEF TwoPerGrant
<1>7. fresh' - fresh + Weight(to) <= 2 * (grants' - grants) + Weight(pc[c])
  BY DEF Pays
<1>8. PICK w \in Int, x \in Int, f1 \in Nat, f3 \in Nat, g1 \in Nat, g3 \in Nat :
        /\ w = Weight(to) /\ x = Weight(pc[c])
        /\ f1 = fresh /\ f3 = fresh' /\ g1 = grants /\ g3 = grants'
  OBVIOUS
<1> HIDE DEF Weight
<1>9. 2 * p2 + f2 = 2 * p + f + w - x
  BY <1>5, <1>8
<1>10. f1 + 2 * p + f <= 2 * g1 + 1
  BY <1>6, <1>8
<1>11. f3 - f1 + w <= 2 * (g3 - g1) + x
  BY <1>7, <1>8
<1>12. f3 + 2 * p2 + f2 <= 2 * g3 + 1
  BY <1>9, <1>10, <1>11
<1>13. fresh' + 2 * p2 + f2 <= 2 * grants' + 1
  BY <1>8, <1>12
<1> QED
  BY <1>2, <1>3, <1>4, <1>13 DEF TwoPerGrant

LEMMA StepPays ==
    ASSUME IInv, TInv, NEW c \in Calls, Step(c) \/ (Kill(c) /\ UNCHANGED job)
    PROVE  /\ \E to \in Places : pc' = [pc EXCEPT ![c] = to] /\ Pays(pc[c], to)
           /\ fresh' \in {fresh, fresh + 1} /\ grants' \in 0..MaxGrants
<1> USE DEF Goto
<1>1. fresh \in Nat /\ grants \in 0..MaxGrants /\ MaxGrants \in Nat
  BY RotationAssumption DEF TInv, Ranges
<1>2. ASSUME UNCHANGED <<fresh, grants>>, NEW to \in Places \ {"panel", "fallback"},
             pc' = [pc EXCEPT ![c] = to]
      PROVE  \E t \in Places : pc' = [pc EXCEPT ![c] = t] /\ Pays(pc[c], t)
  <2>1. fresh' - fresh = 0 /\ grants' - grants = 0
    BY <1>1, <1>2
  <2>2. Pays(pc[c], to)
    BY <1>2, <2>1 DEF Pays
  <2> QED
    BY <1>2, <2>2
<1>3. CASE DryRun(c)
  <2>1. PICK to \in {"kept", "approved"} : pc' = [pc EXCEPT ![c] = to]
    BY <1>3 DEF DryRun
  <2>2. to \in Places \ {"panel", "fallback"}
    BY DEF Places
  <2> QED
    BY <1>1, <1>2, <1>3, <2>1, <2>2 DEF DryRun
<1>4. CASE Apply(c)
  <2>1. CASE grants < MaxGrants /\ grants' = grants + 1 /\ pc' = [pc EXCEPT ![c] = "panel"]
    <3>1. "panel" \in Places /\ fresh' = fresh
      BY <1>4 DEF Places, Applying, Apply
    <3>2. Pays(pc[c], "panel") /\ grants' \in 0..MaxGrants
      BY <1>1, <2>1, <3>1 DEF Pays
    <3> QED
      BY <2>1, <3>1, <3>2
  <2>2. CASE UNCHANGED grants
    BY <1>1, <1>2, <1>4, <2>2 DEF Apply, Places, Ended
  <2> QED
    BY <1>4, <2>1, <2>2 DEF Apply
<1>5. CASE SetPanel(c)
  <2>1. fresh' = fresh + 1 /\ grants' = grants /\ pc[c] = "panel"
    BY <1>5 DEF SetPanel
  <2>2. PICK to \in Places \ {"panel"} : pc' = [pc EXCEPT ![c] = to]
    BY <1>5 DEF SetPanel, Failing, Places, Applying, Ended
  <2>3. Pays(pc[c], to)
    BY <1>1, <2>1, <2>2 DEF Pays
  <2> QED
    BY <1>1, <2>1, <2>2, <2>3
<1>6. CASE Fallback(c)
  <2>1. (fresh' = fresh \/ fresh' = fresh + 1) /\ grants' = grants /\ pc[c] = "fallback"
    BY <1>6 DEF Fallback
  <2>2. PICK to \in Places \ {"panel", "fallback"} : pc' = [pc EXCEPT ![c] = to]
    BY <1>6 DEF Fallback, Places, Applying, Ended
  <2>3. fresh' - fresh <= 1 /\ grants' - grants = 0
    BY <1>1, <2>1
  <2>4. Pays(pc[c], to)
    BY <1>1, <2>1, <2>2, <2>3 DEF Pays
  <2> QED
    BY <1>1, <2>1, <2>2, <2>4
<1>7. CASE Check(c) \/ ReadBack(c) \/ Kill(c) \/ \E e \in Entries : Store(c, e)
  <2>1. UNCHANGED <<fresh, grants>>
    BY <1>7 DEF Check, ReadBack, Kill, Store
  <2>2. PICK to \in Places \ {"panel", "fallback"} : pc' = [pc EXCEPT ![c] = to]
    BY <1>7 DEF Check, ReadBack, Kill, Store, Places, Applying, Ended
  <2> QED
    BY <1>1, <1>2, <2>1, <2>2
<1> QED
  BY <1>3, <1>4, <1>5, <1>6, <1>7 DEF Step

\* A call takes a secret s, its own or the next one, and may set it at the panel.
LEMMA TakesSecret ==
    ASSUME Ranges, OnePassword, OwnSecrets, NEW c \in Calls, NEW s,
           \/ s = fresh /\ fresh' = fresh + 1
           \/ s = secret[c] /\ s # NoSecret /\ fresh' = fresh,
           secret' = [secret EXCEPT ![c] = s], valid' = valid \/ valid' = With(s),
           UNCHANGED <<job, vault, approved>>, grants' \in 0..MaxGrants
    PROVE  Ranges' /\ OnePassword' /\ OwnSecrets' /\ secret'[c] # NoSecret
<1>1. fresh \in Nat \ {0} /\ fresh' \in Nat \ {0} /\ NoSecret \notin Nat
  BY RotationAssumption DEF Ranges
<1>2. Known \subseteq Known' /\ s \in Known' \ {0} /\ NoSecret \notin Known'
  <2>1. CASE s = fresh /\ fresh' = fresh + 1
    BY <1>1, <2>1 DEF Known
  <2>2. CASE s = secret[c] /\ s # NoSecret /\ fresh' = fresh
    BY <1>1, <2>2 DEF Known, Ranges
  <2> QED
    BY <2>1, <2>2
<1>3. valid' \subseteq Known'
  BY <1>2 DEF With, Ranges
<1>4. secret' \in [Calls -> (Known' \ {0}) \cup {NoSecret}]
  BY <1>2 DEF Ranges
<1>5. Ranges'
  BY <1>1, <1>2, <1>3, <1>4 DEF Ranges
<1>6. OnePassword'
  BY DEF OnePassword, ApiKey, With
<1>7. \A d \in Calls \ {c} : secret[d] # s
  <2>1. CASE s = fresh
    BY <1>1, <2>1 DEF Ranges, Known
  <2>2. CASE s = secret[c] /\ s # NoSecret
    BY <2>2 DEF OwnSecrets
  <2> QED
    BY <2>1, <2>2
<1>8. OwnSecrets'
  BY <1>7 DEF OwnSecrets, Ranges
<1> QED
  BY <1>1, <1>2, <1>5, <1>6, <1>8 DEF Ranges

LEMMA StepTyped ==
    ASSUME IInv, TInv, NEW c \in Calls, Step(c) \/ (Kill(c) /\ UNCHANGED job)
    PROVE  TInv'
<1> USE DEF Goto
<1>0. Typed /\ Ranges /\ OnePassword /\ OwnSecrets /\ TwoPerGrant /\ job' = job
  BY DEF IInv, TInv, Step
<1>1. TwoPerGrant' /\ grants' \in 0..MaxGrants
  <2>1. PICK to \in Places : pc' = [pc EXCEPT ![c] = to] /\ Pays(pc[c], to)
    BY StepPays
  <2>2. fresh' \in {fresh, fresh + 1} /\ grants' \in 0..MaxGrants
    BY StepPays
  <2>3. fresh \in Nat /\ fresh' \in Nat /\ grants \in Nat /\ grants' \in Nat
    BY <1>0, <2>2, RotationAssumption DEF Ranges
  <2> QED
    BY <1>0, <2>1, <2>2, <2>3, PaidKeepsCount DEF Typed
<1>2. ASSUME NEW d \in Calls \ {c} PROVE Holds(d)'
  <2>1. pc'[d] = pc[d] /\ secret'[d] = secret[d]
    BY <1>0 DEF Step, Kill, DryRun, Apply, SetPanel, Fallback, Check, Store, ReadBack, Typed
  <2> QED
    BY <2>1 DEF TInv, Holds
<1>3. CASE SetPanel(c)
  <2>1. /\ fresh' = fresh + 1 /\ secret' = [secret EXCEPT ![c] = fresh]
        /\ valid' = valid \/ valid' = With(fresh)
        /\ UNCHANGED <<vault, approved>>
    BY <1>3 DEF SetPanel
  <2>2. Ranges' /\ OnePassword' /\ OwnSecrets' /\ secret'[c] # NoSecret
    BY <1>0, <1>1, <2>1, TakesSecret
  <2> QED
    BY <1>1, <1>2, <2>2 DEF TInv, Holds
<1>4. CASE Fallback(c)
  <2> DEFINE new == IF job.kind = "apikey" THEN fresh ELSE secret[c]
  <2>1. secret[c] # NoSecret
    BY <1>4 DEF Fallback, TInv, Holds
  <2>2. CASE /\ valid' = With(new) /\ secret' = [secret EXCEPT ![c] = new]
             /\ fresh' = IF job.kind = "apikey" THEN fresh + 1 ELSE fresh
    <3>1. UNCHANGED <<vault, approved>>
      BY <1>4 DEF Fallback
    <3>2. Ranges' /\ OnePassword' /\ OwnSecrets' /\ secret'[c] # NoSecret
      BY <1>0, <1>1, <2>1, <2>2, <3>1, TakesSecret
    <3> QED
      BY <1>1, <1>2, <3>2 DEF TInv, Holds
  <2>3. CASE /\ UNCHANGED valid /\ secret' = [secret EXCEPT ![c] = new]
             /\ fresh' = IF job.kind = "apikey" THEN fresh + 1 ELSE fresh
    <3>1. UNCHANGED <<vault, approved>>
      BY <1>4 DEF Fallback
    <3>2. Ranges' /\ OnePassword' /\ OwnSecrets' /\ secret'[c] # NoSecret
      BY <1>0, <1>1, <2>1, <2>3, <3>1, TakesSecret
    <3> QED
      BY <1>1, <1>2, <3>2 DEF TInv, Holds
  <2>4. CASE UNCHANGED <<valid, secret, fresh>>
    <3>1. UNCHANGED <<vault, approved>>
      BY <1>4 DEF Fallback
    <3>2. Ranges' /\ OnePassword' /\ OwnSecrets'
      BY <1>0, <1>1, <2>4, <3>1 DEF Ranges, OnePassword, OwnSecrets, Known, ApiKey
    <3> QED
      BY <1>1, <1>2, <2>1, <2>4, <3>2 DEF TInv, Holds
  <2> QED
    BY <1>4, <2>2, <2>3, <2>4 DEF Fallback
<1>5. CASE DryRun(c) \/ Apply(c) \/ Check(c) \/ ReadBack(c) \/ Kill(c) \/ \E e \in Entries : Store(c, e)
  <2>1. UNCHANGED <<valid, secret, fresh>>
    BY <1>5 DEF DryRun, Apply, Check, ReadBack, Kill, Store
  <2>2. OnePassword' /\ OwnSecrets' /\ Known' = Known
    BY <1>0, <2>1 DEF OnePassword, OwnSecrets, ApiKey, Known
  <2>3. Holds(c)'
    <3>1. pc'[c] \in {"store", "mirror"} => pc[c] \in {"check", "store"}
      BY <1>0, <1>5 DEF DryRun, Apply, Check, ReadBack, Kill, Store, Typed
    <3>2. pc'[c] \notin {"fallback", "check"}
      BY <1>0, <1>5 DEF DryRun, Apply, Check, ReadBack, Kill, Store, Typed
    <3> QED
      BY <2>1, <3>1, <3>2 DEF TInv, Holds
  <2>4. approved' \in [Calls -> Actions]
    <3>1. Action \in Actions
      BY DEF Action, Actions
    <3>2. approved' = approved \/ approved' = [approved EXCEPT ![c] = Action]
      BY <1>5 DEF DryRun, Apply, Check, ReadBack, Kill, Store
    <3> QED
      BY <1>0, <3>1, <3>2 DEF Ranges
  <2>5. vault' \in [Entries -> Known \cup {NoSecret}]
    <3>1. secret[c] \in Known \cup {NoSecret}
      BY <1>0 DEF Ranges
    <3>2. vault' = vault \/ \E e \in Entries : vault' = [vault EXCEPT ![e] = secret[c]]
      BY <1>5 DEF DryRun, Apply, Check, ReadBack, Kill, Store
    <3> QED
      BY <1>0, <3>1, <3>2 DEF Ranges
  <2>6. Ranges'
    BY <1>0, <1>1, <2>1, <2>2, <2>4, <2>5 DEF Ranges
  <2> QED
    BY <1>1, <1>2, <2>2, <2>3, <2>6 DEF TInv
<1> QED
  BY <1>3, <1>4, <1>5 DEF Step

LEMMA TypesKept == IInv /\ TInv /\ [Next]_vars => TInv'
<1> SUFFICES ASSUME IInv, TInv, [Next]_vars PROVE TInv'
  OBVIOUS
<1>1. CASE UNCHANGED vars
  <2>1. At("panel")' = At("panel") /\ At("fallback")' = At("fallback") /\ Known' = Known
    BY <1>1 DEF At, Known, vars
  <2> QED
    BY <1>1, <2>1
       DEF vars, TInv, TwoPerGrant, Ranges, OnePassword, OwnSecrets, Holds, ApiKey
<1>2. CASE \E c \in Calls : Step(c) \/ (Kill(c) /\ UNCHANGED job)
  BY <1>2, StepTyped
<1> QED
  BY <1>1, <1>2 DEF Next, Finished

LEMMA TypesFollow == IInv /\ TInv => TypeOK
<1> SUFFICES ASSUME IInv, TInv PROVE TypeOK
  OBVIOUS
<1>1. fresh \in 1..(2 * MaxGrants + 1)
  <2>1. Cardinality(At("panel")) \in Nat /\ Cardinality(At("fallback")) \in Nat
    BY FS_CardinalityType DEF TInv, TwoPerGrant
  <2>2. fresh \in Nat \ {0} /\ grants \in 0..MaxGrants /\ MaxGrants \in Nat
    BY RotationAssumption DEF TInv, Ranges
  <2>3. fresh <= 2 * grants + 1
    BY <2>1, <2>2 DEF TInv, TwoPerGrant
  <2> QED
    BY <2>2, <2>3
<1>2. Known \subseteq Secrets
  BY <1>1, RotationAssumption DEF Known, Secrets
<1>3. job.kind # "apikey" => Cardinality(valid) <= 1
  <2>1. CASE valid = {}
    BY <2>1, FS_EmptySet
  <2>2. ASSUME NEW s \in valid, job.kind # "apikey" PROVE Cardinality(valid) = 1
    <3>1. valid = {s}
      BY <2>2 DEF TInv, OnePassword, ApiKey
    <3> QED
      BY <3>1, FS_Singleton
  <2> QED
    BY <2>1, <2>2
<1>4. \A c \in Calls : pc[c] \in {"store", "mirror"} => secret[c] \in 1..(fresh - 1)
  <2>1. Known \ {0} \subseteq 1..(fresh - 1)
    BY <1>1 DEF Known
  <2> QED
    BY <2>1 DEF TInv, Holds, Ranges
<1>5. /\ valid \subseteq Secrets
      /\ vault \in [Entries -> Secrets \cup {NoSecret}]
      /\ secret \in [Calls -> Secrets \cup {NoSecret}]
  BY <1>2 DEF TInv, Ranges
<1> QED
  BY <1>1, <1>3, <1>4, <1>5 DEF TypeOK, IInv, Typed, TInv, Ranges, OwnSecrets, Places

\* Types, and more: two secrets per consumed grant are enough, an account has one
\* password, and no two calls ever hold the same secret.
THEOREM RotationTypes == Spec => []TypeOK
<1>1. Init => TInv
  BY TypesInitially
<1>2. IInv /\ TInv /\ [Next]_vars => TInv'
  BY TypesKept
<1>3. IInv /\ TInv => TypeOK
  BY TypesFollow
<1> QED
  BY <1>1, <1>2, <1>3, InvariantHolds, PTL DEF Spec
===============================================================================
