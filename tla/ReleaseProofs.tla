---------------------------- MODULE ReleaseProofs -----------------------------
(***************************************************************************)
(* Theorems about ReleaseStore, and about ReleaseVerify which extends it,  *)
(* for any number of releases, calls and verifying calls, whatever         *)
(* strategies and requests they are asked for and, where a theorem says    *)
(* nothing else, whatever operations fail and calls are killed.            *)
(***************************************************************************)
EXTENDS ReleaseVerify, TLAPS

\* The runner admits one call at a time.
Alone == \A g, h \in Calls : pc[g] # Idle /\ pc[h] # Idle => g = h

\* The basic types, without the facts about which releases have directories.
Typed ==
    /\ setting \in Settings
    /\ link \in [Slots -> Maybe]
    /\ ptr \in [Slots -> Maybe]
    /\ dir \in [Releases -> {"absent", "partial", "whole"}]
    /\ pc \in [Calls -> Places]
    /\ req \in [Calls -> Request]
    /\ faults \in Nat

\* The steps that change what the state names.
Activating(h) == pc[h][1] \in Steps

\* A reading, faulty or not, names what a link or a pointer file names, or nothing.
LEMMA SeesType ==
    ASSUME Typed, NEW s \in Slots, NEW lost
    PROVE  Sees(s, lost) \in Maybe /\ Sees(s, lost) \in {link[s], ptr[s], None}
BY DEF Typed, Sees, Maybe

\* The two steps that read the state change nothing of it.
LEMMA ReadingSteps ==
    ASSUME Typed, NEW h \in Calls, Lookup(h) \/ Resolve(h)
    PROVE  /\ UNCHANGED host
           /\ \A g \in Calls : g # h => pc'[g] = pc[g] /\ req'[g] = req[g]
           /\ pc[h] \in {<<"lookup", "call">>, <<"resolve", "call">>}
           /\ pc'[h] \in {<<"resolve", "call">>, Failed,
                           <<"open", "current">>, <<"unlink", "previous">>}
BY DEF Lookup, Resolve, FirstChange, Goto, Typed

\* Types are kept by every step.
THEOREM TypesCorrect == Spec => []Typed
<1> USE StoreAssumption DEF AllStrategies
<1>1. Init => Typed
  BY DEF Init, Typed, Idle, Places, Request, Kinds, Maybe
<1>2. Typed /\ [Next]_vars => Typed'
  <2> SUFFICES ASSUME Typed, [Next]_vars PROVE Typed'
    OBVIOUS
  <2>a. UNCHANGED setting
    BY DEF Next, vars
  <2>b. setting \in Settings /\ setting.calls \subseteq Calls
        /\ setting.strategies \subseteq AllStrategies
    BY StoreAssumption DEF Typed
  <2> USE <2>a, <2>b DEF host, Goto, Places, Steps, Idle, Ok, Failed, Maybe
  <2>1. ASSUME NEW h \in Calls, Starts(h) PROVE Typed'
    <3>1. PICK k \in Kinds, r \in Maybe, first \in {"resolve", "lookup", "upload"} :
            /\ k # "rollback" => r # None
            /\ first # "lookup" => r # None
            /\ Begin(h, k, r, first)
      BY <2>1, StoreAssumption DEF Starts, Activate, RollBack, Upload, Kinds
    <3>a. PICK s \in setting.strategies :
            req' = [req EXCEPT ![h] =
                    [kind |-> k, rel |-> r, strategy |-> s, old |-> None, prev |-> None,
                     live |-> None]]
      BY <3>1 DEF Begin
    <3>b. pc' = [pc EXCEPT ![h] = <<first, "call">>]
      BY <3>1 DEF Begin
    <3>2. req' \in [Calls -> Request]
      BY <3>a DEF Typed, Request
    <3>3. pc' \in [Calls -> Places]
      BY <3>b DEF Typed
    <3>c. /\ req'[h].rel = r /\ pc'[h] = <<first, "call">>
          /\ \A g \in Calls : g # h => req'[g] = req[g] /\ pc'[g] = pc[g]
      BY <3>a, <3>b DEF Typed
    <3>4. QED
      BY <3>1, <3>2, <3>3, <3>c DEF Begin, Typed
  <2>2. ASSUME NEW h \in Calls, Lookup(h) PROVE Typed'
    <3>1. \A lost : Sees("previous", lost) \in Maybe
      BY SeesType DEF Slots
    <3>2. PICK t \in Maybe : req' \in {req, [req EXCEPT ![h].rel = t]}
      BY <2>2, <3>1 DEF Lookup, Typed, Request
    <3>3. req' \in [Calls -> Request]
      <4>1. req \in [Calls -> Request]
        BY DEF Typed
      <4>2. [req[h] EXCEPT !.rel = t] \in Request
        BY <4>1 DEF Request
      <4>3. QED
        BY <3>2, <4>1, <4>2
    <3>4. pc' \in [Calls -> Places] /\ faults' \in Nat
      BY <2>2 DEF Lookup, Typed, Reading, Fault, NoFault
    <3>5. QED
      BY <2>2, <3>3, <3>4 DEF Lookup, Typed
  <2>3. ASSUME NEW h \in Calls, Resolve(h) PROVE Typed'
    <3>1. /\ \A lost : Sees("previous", lost) \in Maybe /\ Sees("current", lost) \in Maybe
          /\ Current \in Maybe
      BY SeesType DEF Slots, Current, Reads, Sees
    <3>2. req' \in [Calls -> Request]
      <4>1. CASE UNCHANGED req
        BY <4>1 DEF Typed
      <4>2. ASSUME NEW o \in Maybe, NEW p \in Maybe,
                   req' = [req EXCEPT ![h].old = o, ![h].prev = p, ![h].live = Current]
            PROVE  req' \in [Calls -> Request]
        <5>1. [req[h] EXCEPT !.old = o, !.prev = p, !.live = Current] \in Request
          <6>1. req[h] \in Request
            BY DEF Typed
          <6>2. [req[h] EXCEPT !.old = o] \in Request
            BY <6>1 DEF Request
          <6>3. [[req[h] EXCEPT !.old = o] EXCEPT !.prev = p] \in Request
            BY <6>2 DEF Request
          <6>4. [[[req[h] EXCEPT !.old = o] EXCEPT !.prev = p] EXCEPT !.live = Current] \in Request
            BY <3>1, <6>3 DEF Request
          <6>5. QED
            BY <6>4
        <5>2. req' = [req EXCEPT ![h] = [req[h] EXCEPT !.old = o, !.prev = p, !.live = Current]]
          BY <4>2 DEF Typed
        <5>3. QED
          BY <5>1, <5>2 DEF Typed
      <4>3. CASE \E lost \in SUBSET Names :
                 LET old == Sees("current", lost)
                     demoted == IF old \notin {None, req[h].rel} THEN old ELSE Sees("previous", lost)
                 IN  req' = [req EXCEPT ![h].old = old, ![h].prev = demoted, ![h].live = Current]
        BY <3>1, <4>2, <4>3
      <4>4. QED
        BY <2>3, <4>1, <4>3 DEF Resolve
    <3>3. pc' \in [Calls -> Places] /\ faults' \in Nat
      <4>1. faults' \in {faults, faults + 1}
        BY <2>3 DEF Resolve, Reading, Fault, NoFault
      <4>2. pc' \in {[pc EXCEPT ![h] = FirstChange(h)], [pc EXCEPT ![h] = Failed]}
        BY <2>3 DEF Resolve
      <4>3. FirstChange(h) \in Places
        BY DEF FirstChange, Slots
      <4>4. QED
        BY <4>1, <4>2, <4>3 DEF Typed
    <3>4. QED
      BY <2>3, <3>2, <3>3 DEF Resolve, Typed
  <2>4. ASSUME NEW h \in Calls, NEW s \in Slots, Unlink(h, s) PROVE Typed'
    BY <2>4 DEF Unlink, Typed, Fault, NoFault, Slots
  <2>5. ASSUME NEW h \in Calls, NEW s \in Slots, Link(h, s) PROVE Typed'
    BY <2>5 DEF Link, Typed, Request, Slots
  <2>6. ASSUME NEW h \in Calls, NEW s \in Slots, LinkFails(h, s) PROVE Typed'
    BY <2>6 DEF LinkFails, Typed, Fault, NoFault, Slots
  <2>7. ASSUME NEW h \in Calls, NEW s \in Slots, Drop(h, s) PROVE Typed'
    BY <2>7 DEF Drop, Typed, Fault, NoFault, Slots
  <2>8. ASSUME NEW h \in Calls, NEW s \in Slots, Open(h, s) PROVE Typed'
    BY <2>8 DEF Open, Typed, Fault, NoFault, Slots
  <2>9. ASSUME NEW h \in Calls, NEW s \in Slots, Fill(h, s) PROVE Typed'
    BY <2>9 DEF Fill, Typed, Request, Fault, NoFault, Slots
  <2>10. ASSUME NEW h \in Calls, UploadBegins(h) \/ UploadEnds(h) \/ Mark(h) PROVE Typed'
    BY <2>10 DEF UploadBegins, UploadEnds, Mark, Typed, Fault, NoFault
  <2>11. ASSUME NEW h \in Calls, Return(h) \/ Kill(h) PROVE Typed'
    BY <2>11 DEF Return, Kill, Typed
  <2>12. CASE UNCHANGED vars
    BY <2>12 DEF vars, Typed
  <2>13. QED
    BY <2>1, <2>2, <2>3, <2>4, <2>5, <2>6, <2>7, <2>8, <2>9, <2>10, <2>11, <2>12
    DEF Next, Step
<1>3. QED
  BY <1>1, <1>2, PTL DEF Spec

Replaced(h) == req[h].old \notin {None, req[h].rel}

\* The places of an activation through links, in their order: nothing is
\* changed, `previous` is settled, `current` is switched ...
Starting(h) == pc[h] \in {<<"unlink", "previous">>, <<"link", "previous">>}
Settled(h) == pc[h] \in {<<"unlink", "current">>, <<"link", "current">>}
Dropping(h) == pc[h] \in {<<"drop", "current">>, <<"drop", "previous">>}
\* ... and of one through pointer files.
Pointing(h) == pc[h] \in {<<"open", "current">>, <<"fill", "current">>}
Demoting(h) == pc[h] \in {<<"open", "previous">>, <<"fill", "previous">>}
Answered(h) == pc[h] = Ok /\ req[h].kind # "upload"

Linked(h) ==
    /\ link["current"] = req[h].rel
    /\ req[h].prev # None => link["previous"] = req[h].prev
Pointed(h) ==
    /\ ptr["current"] = req[h].rel
    /\ req[h].prev # None => ptr["previous"] = req[h].prev

\* What an activation has established at each of its places: through links
\* `previous` is settled before `current` is touched, and pointer files are
\* never written for a call that asked for symlinks.
LinkInv(h) ==
    /\ pc[h] = <<"resolve", "call">> => req[h].rel # None
    /\ pc[h][1] \in {"upload", "transfer", "mark"} => req[h].kind = "upload"
    /\ Activating(h) \/ Answered(h) =>
          req[h].rel # None /\ (Replaced(h) => req[h].prev = req[h].old)
    /\ pc[h] = <<"link", "previous">> \/ Demoting(h) => req[h].prev # None
    /\ Activating(h) \/ Answered(h) => link["current"] \in {None, req[h].rel, req[h].live}
    /\ Starting(h) => Current = req[h].live
    /\ Settled(h) /\ req[h].prev # None => link["previous"] = req[h].prev
    /\ Dropping(h) => Linked(h)
    /\ Pointing(h) \/ Demoting(h) => req[h].strategy # "symlink"
    /\ Demoting(h) => ptr["current"] = req[h].rel
    /\ Answered(h) => Linked(h) \/ (req[h].strategy # "symlink" /\ Pointed(h))

IInv == Typed /\ Alone /\ \A h \in Calls : LinkInv(h)

\* The invariant gives both properties of the run.
LEMMA IInvImplies == IInv => OldStillNamed /\ EffectiveActivation
<1> SUFFICES ASSUME IInv, NEW h \in Calls
             PROVE  /\ pc[h][1] \in {"unlink", "link", "drop"} /\ Replaces(h)
                          => req[h].live \in {Current, Previous}
                    /\ Answered(h) =>
                         /\ Current \in {req[h].rel, req[h].live}
                         /\ ~Shadowed(h, "current") => Current = req[h].rel
                         /\ ~Shadowed(h, "previous") /\ Replaces(h) => Previous = req[h].live
  BY DEF OldStillNamed, EffectiveActivation, Answered
<1>1. LinkInv(h)
  BY DEF IInv
<1>2. pc[h][1] \in {"unlink", "link", "drop"} =>
        Activating(h) /\ (Starting(h) \/ Settled(h) \/ Dropping(h))
  <2>1. pc[h] \in Places
    BY DEF IInv, Typed
  <2>2. QED
    BY <2>1 DEF Activating, Places, Steps, Slots, Starting, Settled, Dropping, Idle, Ok, Failed
\* What a call demotes that did not miss the live release.
<1>3. (Activating(h) \/ Answered(h)) /\ Replaces(h) =>
        req[h].live # None /\ req[h].prev = req[h].live
  BY <1>1 DEF LinkInv, Replaced, Replaces
<1>4. (Settled(h) \/ Dropping(h)) /\ Activating(h) /\ Replaces(h) => Previous = req[h].live
  BY <1>1, <1>3 DEF LinkInv, Linked, Previous, Reads, Sees
<1>5. Answered(h) /\ Linked(h) =>
        Current = req[h].rel /\ (Replaces(h) => Previous = req[h].live)
  BY <1>1, <1>3 DEF LinkInv, Linked, Previous, Current, Reads, Sees
<1>6. ASSUME Answered(h), Pointed(h), req[h].strategy # "symlink"
      PROVE  /\ Current \in {req[h].rel, req[h].live}
             /\ ~Shadowed(h, "current") => Current = req[h].rel
             /\ ~Shadowed(h, "previous") /\ Replaces(h) => Previous = req[h].live
  <2>1. Current = IF link["current"] # None THEN link["current"] ELSE req[h].rel
    BY <1>6 DEF Pointed, Current, Reads, Sees
  <2>2. Replaces(h) => Previous = IF link["previous"] # None THEN link["previous"] ELSE req[h].live
    BY <1>3, <1>6 DEF Pointed, Previous, Reads, Sees
  <2>3. QED
    BY <1>1, <1>3, <1>6, <2>1, <2>2 DEF LinkInv, Shadowed, Writes
<1>7. QED
  BY <1>1, <1>2, <1>3, <1>4, <1>5, <1>6 DEF LinkInv

\* Every step of a serialised runner keeps the invariant.
LEMMA StepKeepsIInv ==
    ASSUME Serialized, IInv, Typed', [Next]_vars
    PROVE  Serialized' /\ IInv'
<1> USE StoreAssumption
    DEF IInv, host, Goto, Idle, Ok, Failed, Starting, Settled, Dropping, Pointing, Demoting,
        Answered, Activating, Steps
<1>a. UNCHANGED setting
  BY DEF Next, vars
<1>b. Serialized' /\ setting \in Settings /\ setting.calls \subseteq Calls
      /\ setting.strategies \subseteq AllStrategies
  BY <1>a, StoreAssumption DEF Typed, Serialized
<1>1. ASSUME NEW h \in Calls, Starts(h) \/ Step(h) \/ Kill(h),
             pc' = [pc EXCEPT ![h] = pc'[h]],
             req' = [req EXCEPT ![h] = req'[h]],
             pc[h] = Idle => \A g \in Calls : pc[g] = Idle,
             LinkInv(h)'
      PROVE  IInv'
  <2>1. \A g \in Calls : g # h => pc[g] = Idle /\ pc'[g] = Idle
    BY <1>1 DEF Alone, Typed
  <2>2. Alone'
    BY <2>1 DEF Alone
  <2>3. \A g \in Calls : LinkInv(g)'
    <3> SUFFICES ASSUME NEW g \in Calls, g # h PROVE LinkInv(g)'
      BY <1>1
    <3>1. pc'[g] = <<"idle", "call">>
      BY <2>1
    <3>2. QED
      BY <3>1 DEF LinkInv
  <2>4. QED
    BY <1>1, <2>2, <2>3
<1>2. ASSUME NEW h \in Calls, Starts(h) PROVE IInv'
  <2>1. PICK k \in Kinds, r \in Maybe, first \in {"resolve", "lookup", "upload"} :
          /\ first = "resolve" => r # None
          /\ first = "upload" => k = "upload"
          /\ Begin(h, k, r, first)
    BY <1>2, StoreAssumption DEF Starts, Activate, RollBack, Upload, Kinds, Maybe
  <2>a. PICK st \in setting.strategies :
          req' = [req EXCEPT ![h] =
                  [kind |-> k, rel |-> r, strategy |-> st, old |-> None, prev |-> None,
                   live |-> None]]
    BY <2>1 DEF Begin
  <2>b. pc' = [pc EXCEPT ![h] = <<first, "call">>]
    BY <2>1 DEF Begin
  <2>2. /\ req'[h].strategy = st /\ pc'[h][2] = "call"
        /\ pc'[h][1] \in {"resolve", "lookup", "upload"}
        /\ pc'[h][1] = "resolve" => req'[h].rel # None
        /\ pc'[h][1] = "upload" => req'[h].kind = "upload"
    BY <2>1, <2>a, <2>b DEF Typed, Kinds
  <2>3. LinkInv(h)'
    BY <2>2 DEF LinkInv, Slots
  <2>4. QED
    BY <1>1, <1>2, <2>1, <2>a, <2>b, <2>3 DEF Begin, Typed
<1>3. ASSUME NEW h \in Calls, Lookup(h) PROVE IInv'
  <2>1. /\ pc'[h][2] = "call" /\ pc'[h][1] \in {"resolve", "failed"}
        /\ req'[h].strategy = req[h].strategy
        /\ req' = [req EXCEPT ![h] = req'[h]]
        /\ pc'[h][1] = "resolve" => req'[h].rel # None
    BY <1>3 DEF Lookup, Typed, Request
  <2>2. LinkInv(h)'
    BY <1>3, <2>1 DEF Lookup, LinkInv, Slots
  <2>3. QED
    BY <1>1, <1>3, <2>1, <2>2 DEF Lookup, Step, Typed
<1>4. ASSUME NEW h \in Calls, Resolve(h) PROVE IInv'
  <2>1. /\ req' = [req EXCEPT ![h] = req'[h]]
        /\ pc' = [pc EXCEPT ![h] = pc'[h]]
        /\ UNCHANGED <<link, ptr>>
        /\ pc[h] = <<"resolve", "call">>
    BY <1>4 DEF Resolve, Typed
  <2>2. CASE pc'[h] = Failed /\ UNCHANGED req
    <3>1. LinkInv(h)'
      BY <1>4, <2>2 DEF LinkInv, Slots
    <3>2. QED
      BY <1>1, <1>4, <2>1, <3>1 DEF Step
  <2>3. ASSUME NEW o, NEW p, o \notin {None, req[h].rel} => p = o,
               req' = [req EXCEPT ![h].old = o, ![h].prev = p, ![h].live = Current],
               pc' = [pc EXCEPT ![h] = FirstChange(h)]
        PROVE  IInv'
    <3>1. pc'[h] = IF req[h].strategy = "pointer"
                   THEN <<"open", "current">> ELSE <<"unlink", "previous">>
      BY <2>3 DEF Typed, FirstChange
    <3>2. /\ req'[h].strategy = req[h].strategy /\ req'[h].rel = req[h].rel
          /\ req'[h].old = o /\ req'[h].prev = p /\ req'[h].live = Current
      BY <2>3 DEF Typed, Request
    <3>3. req[h].rel # None
      BY <2>1 DEF LinkInv
    <3>4. link["current"] \in {None, Current}
      BY DEF Current, Reads, Sees
    <3>5. Current' = Current
      BY <2>1 DEF Current, Reads, Sees
    <3>6. LinkInv(h)'
      BY <2>1, <2>3, <3>1, <3>2, <3>3, <3>4, <3>5 DEF LinkInv, Slots, Replaced
    <3>7. QED
      BY <1>1, <1>4, <2>1, <3>6 DEF Step
  <2>4. CASE pc' = [pc EXCEPT ![h] = Failed] /\ UNCHANGED req
    BY <2>2, <2>4 DEF Typed
  <2>5. CASE /\ pc' = [pc EXCEPT ![h] = FirstChange(h)]
             /\ \E lost \in SUBSET Names :
                 LET old == Sees("current", lost)
                     demoted == IF old \notin {None, req[h].rel} THEN old ELSE Sees("previous", lost)
                 IN  req' = [req EXCEPT ![h].old = old, ![h].prev = demoted, ![h].live = Current]
    BY <2>3, <2>5
  <2>6. QED
    BY <1>4, <2>4, <2>5 DEF Resolve
\* The remaining places of an activation leave the request alone.
<1>5. ASSUME NEW h \in Calls, pc' = [pc EXCEPT ![h] = pc'[h]], UNCHANGED req,
             Step(h) \/ Kill(h), pc[h] # Idle, LinkInv(h)'
      PROVE  IInv'
  BY <1>1, <1>5 DEF Typed
<1>7. ASSUME NEW h \in Calls, NEW s \in Slots, Unlink(h, s) PROVE IInv'
  <2>1. /\ pc' = [pc EXCEPT ![h] = pc'[h]] /\ UNCHANGED <<req, ptr>> /\ pc[h] = <<"unlink", s>>
        /\ pc'[h] = IF s = "previous" /\ req[h].prev = None
                    THEN <<"unlink", "current">> ELSE <<"link", s>>
    BY <1>7 DEF Unlink, Typed
  <2>2. link' \in {link, [link EXCEPT ![s] = None]}
    BY <1>7 DEF Unlink
  <2>3. /\ s \in {"previous", "current"}
        /\ s = "previous" => link'["current"] = link["current"]
        /\ s = "current" => link'["previous"] = link["previous"]
        /\ link'["current"] \in {None, link["current"]}
    BY <2>2 DEF Slots, Typed
  <2>4. LinkInv(h)'
    BY <2>1, <2>3 DEF LinkInv, Replaced, Current, Reads, Sees
  <2>5. QED
    BY <1>5, <1>7, <2>1, <2>4 DEF Step
<1>8. ASSUME NEW h \in Calls, NEW s \in Slots, Link(h, s) PROVE IInv'
  <2>1. /\ pc' = [pc EXCEPT ![h] = pc'[h]] /\ UNCHANGED <<req, ptr>> /\ pc[h] = <<"link", s>>
        /\ pc'[h] = IF s = "previous" THEN <<"unlink", "current">> ELSE <<"drop", "current">>
    BY <1>8 DEF Link, Typed
  <2>2. link' = [link EXCEPT ![s] = IF s = "current" THEN req[h].rel ELSE req[h].prev]
    BY <1>8 DEF Link
  <2>3. LinkInv(h)'
    BY <2>1, <2>2 DEF LinkInv, Linked, Slots, Replaced, Typed
  <2>4. QED
    BY <1>5, <1>8, <2>1, <2>3 DEF Step
<1>9. ASSUME NEW h \in Calls, NEW s \in Slots, LinkFails(h, s) PROVE IInv'
  <2>1. /\ pc' = [pc EXCEPT ![h] = pc'[h]] /\ UNCHANGED <<req, link>> /\ pc[h] = <<"link", s>>
        /\ pc'[h] = IF req[h].strategy = "auto" THEN <<"open", "current">> ELSE Failed
    BY <1>9 DEF LinkFails, Typed
  <2>2. LinkInv(h)'
    BY <2>1 DEF LinkInv, Replaced
  <2>3. QED
    BY <1>5, <1>9, <2>1, <2>2 DEF Step
<1>10. ASSUME NEW h \in Calls, NEW s \in Slots, Drop(h, s) PROVE IInv'
  <2>1. /\ pc' = [pc EXCEPT ![h] = pc'[h]] /\ UNCHANGED <<req, link>> /\ pc[h] = <<"drop", s>>
        /\ pc'[h] = IF s = "current" THEN <<"drop", "previous">> ELSE Ok
    BY <1>10 DEF Drop, Typed
  <2>2. LinkInv(h)'
    BY <2>1 DEF LinkInv, Linked, Slots, Replaced
  <2>3. QED
    BY <1>5, <1>10, <2>1, <2>2 DEF Step
<1>11. ASSUME NEW h \in Calls, NEW s \in Slots, Open(h, s) PROVE IInv'
  <2>1. /\ pc' = [pc EXCEPT ![h] = pc'[h]] /\ UNCHANGED <<req, link>> /\ pc[h] = <<"open", s>>
        /\ pc'[h] \in {<<"fill", s>>, Failed}
        /\ ptr' \in {ptr, [ptr EXCEPT ![s] = None]}
    BY <1>11 DEF Open, Typed
  <2>2. s \in {"previous", "current"} /\ (s = "previous" => ptr'["current"] = ptr["current"])
    BY <2>1 DEF Slots, Typed
  <2>3. LinkInv(h)'
    BY <2>1, <2>2 DEF LinkInv, Replaced
  <2>4. QED
    BY <1>5, <1>11, <2>1, <2>3 DEF Step
<1>6. ASSUME NEW h \in Calls, NEW s \in Slots, Fill(h, s) PROVE IInv'
  <2>1. /\ pc' = [pc EXCEPT ![h] = pc'[h]] /\ UNCHANGED <<req, link>> /\ pc[h] = <<"fill", s>>
    BY <1>6 DEF Fill, Typed
  <2>2. CASE pc'[h] = Failed
    <3>1. LinkInv(h)'
      BY <2>1, <2>2 DEF LinkInv
    <3>2. QED
      BY <1>5, <1>6, <2>1, <3>1 DEF Step
  <2>3. CASE /\ ptr' = [ptr EXCEPT ![s] = IF s = "current" THEN req[h].rel ELSE req[h].prev]
             /\ pc'[h] = IF s = "current" /\ req[h].prev # None
                         THEN <<"open", "previous">> ELSE Ok
    <3>1. /\ s \in {"previous", "current"}
          /\ s = "current" => ptr'["current"] = req[h].rel
          /\ s = "previous" => ptr'["current"] = ptr["current"] /\ ptr'["previous"] = req[h].prev
      BY <2>3 DEF Slots, Typed
    <3>2. LinkInv(h)'
      BY <2>1, <2>3, <3>1 DEF LinkInv, Replaced, Pointed
    <3>3. QED
      BY <1>5, <1>6, <2>1, <3>2 DEF Step
  <2>4. QED
    BY <1>6, <2>2, <2>3 DEF Fill, Typed
<1>12. ASSUME NEW h \in Calls, UploadBegins(h) \/ UploadEnds(h) \/ Mark(h) PROVE IInv'
  <2>1. /\ pc' = [pc EXCEPT ![h] = pc'[h]] /\ UNCHANGED req /\ pc[h] # Idle
        /\ pc'[h] \in {<<"transfer", "call">>, <<"mark", "call">>, Ok, Failed}
        /\ pc'[h] = Ok => pc[h] = <<"mark", "call">>
    BY <1>12 DEF UploadBegins, UploadEnds, Mark, Typed
  <2>2. pc[h][1] \in {"upload", "transfer", "mark"}
    BY <1>12 DEF UploadBegins, UploadEnds, Mark
  <2>3. LinkInv(h)'
    BY <2>1, <2>2 DEF LinkInv, Slots, Replaced
  <2>4. QED
    BY <1>5, <1>12, <2>1, <2>3 DEF Step
<1>13. ASSUME NEW h \in Calls, Return(h) \/ Kill(h) PROVE IInv'
  <2>1. /\ pc' = [pc EXCEPT ![h] = Idle] /\ pc'[h] = Idle /\ UNCHANGED req
        /\ pc[h] # Idle
    BY <1>13 DEF Return, Kill, Typed, Ends
  <2>2. LinkInv(h)'
    BY <2>1 DEF LinkInv, Slots, Replaced
  <2>3. QED
    BY <1>5, <1>13, <2>1, <2>2 DEF Step
<1>14. ASSUME UNCHANGED vars PROVE IInv'
  BY <1>14 DEF vars, Alone, LinkInv, Linked, Pointed, Replaced, Current, Reads, Sees
<1>15. QED
  BY <1>b, <1>2, <1>3, <1>4, <1>6, <1>7, <1>8, <1>9, <1>10, <1>11, <1>12, <1>13, <1>14
  DEF Next, Step

LEMMA SerialInitially == Init => (Serialized => IInv)
<1> SUFFICES ASSUME Init PROVE IInv
  OBVIOUS
<1>1. Typed
  BY StoreAssumption
  DEF Init, Typed, Idle, Places, Request, Kinds, Maybe, AllStrategies
<1>2. QED
  BY <1>1
  DEF Init, IInv, Alone, LinkInv, Starting, Settled, Dropping, Pointing, Demoting,
      Answered, Activating, Steps, Idle, Ok

LEMMA SerialStep ==
    (Serialized => IInv) /\ Typed' /\ [Next]_vars => (Serialized => IInv)'
<1>1. Serialized' /\ [Next]_vars => Serialized
  BY DEF Serialized, Next, vars
<1>2. QED
  BY <1>1, StepKeepsIInv

\* One call at a time, whatever fails or is killed, an activation or rollback
\* that answers ok took effect, unless a leftover link shadows pointer files
\* (activate_release, _via_symlink, _via_pointer).
THEOREM SerialActivation == Spec => []EffectiveActivation
<1>1. (Serialized => IInv) => EffectiveActivation
  BY IInvImplies DEF EffectiveActivation
<1>2. QED
  BY <1>1, SerialInitially, SerialStep, TypesCorrect, PTL DEF Spec

\* One call at a time, an activation that asked for symlinks, killed or failing
\* anywhere, leaves the release it was replacing named by `current` or
\* `previous`, which a rollback can name (_via_symlink).
THEOREM ReplacedStaysNamed == Spec => []OldStillNamed
<1>1. (Serialized => IInv) => OldStillNamed
  BY IInvImplies DEF OldStillNamed
<1>2. QED
  BY <1>1, SerialInitially, SerialStep, TypesCorrect, PTL DEF Spec
-------------------------------------------------------------------------------
\* What a call knows of its own request wherever other calls are: its release
\* has a directory once it was looked up, and so has the one it demotes.
Here(r) == dir[r] # "absent"
Asked(h) ==
    /\ pc[h] \notin {Idle, Failed, <<"lookup", "call">>} => req[h].rel \in Releases
    /\ pc[h][1] \in {"upload", "transfer", "mark"} => req[h].kind = "upload"
    /\ Activating(h) => Here(req[h].rel) /\ (req[h].prev # None => Here(req[h].prev))
    /\ pc[h][2] = "previous" /\ pc[h][1] \in {"link", "open", "fill"} => req[h].prev # None

\* The state names no release without a directory.
NamesHere == \A s \in Slots :
    /\ link[s] # None => Here(link[s])
    /\ ptr[s] # None => Here(ptr[s])

TInv ==
    /\ Typed /\ marked \subseteq Releases /\ kills \in Nat
    /\ NamesHere /\ \A h \in Calls : Asked(h)

\* Without faults and kills a call leaves <<"link", "current">> and
\* <<"fill", "current">> only with a release in that place.
Linking == link["current"] # None \/ \E h \in Calls : pc[h] = <<"link", "current">>
Naming == Linking \/ ptr["current"] # None \/ \E h \in Calls : pc[h] = <<"fill", "current">>
Smooth == setting.faults = 0 /\ setting.kills = 0
Published == Smooth =>
    /\ (\E h \in Calls : Dropping(h)) => Linking
    /\ (\E h \in Calls : Demoting(h) \/ Answered(h)) => Naming

LEMMA TInvImplies == TInv => TypeOK
<1> SUFFICES ASSUME TInv PROVE TypeOK
  OBVIOUS
<1>1. \A h \in Calls : pc[h][2] = "previous" /\ pc[h][1] \in {"link", "open", "fill"} =>
        req[h].prev \in Releases
  BY DEF TInv, Typed, Asked, Maybe, Request
<1>2. \A h \in Calls : pc[h] \notin {Idle, Failed, <<"lookup", "call">>} => req[h].rel \in Releases
  BY DEF TInv, Asked
<1>3. \A s \in Slots, r \in Releases : r \in {link[s], ptr[s]} => dir[r] # "absent"
  BY StoreAssumption DEF TInv, NamesHere, Here
<1>4. QED
  BY <1>1, <1>2, <1>3 DEF TInv, Typed, TypeOK

LEMMA TInvInitially == Init => TInv
BY StoreAssumption
DEF Init, TInv, Typed, NamesHere, Asked, Idle, Ok, Failed, Places, Request, Kinds, Maybe,
    AllStrategies, Activating, Steps

LEMMA TInvKept ==
    ASSUME TInv, Typed', [Next]_vars
    PROVE  TInv'
<1> USE StoreAssumption DEF TInv, host, Goto, Idle, Ok, Failed, Activating, Steps
<1>a. /\ pc \in [Calls -> Places] /\ req \in [Calls -> Request]
      /\ link \in [Slots -> Maybe] /\ ptr \in [Slots -> Maybe]
      /\ dir \in [Releases -> {"absent", "partial", "whole"}]
      /\ setting.calls \subseteq Calls
  BY StoreAssumption DEF Typed
\* Directories stay; a step of one call leaves what the others know.
<1>1. ASSUME NEW h \in Calls,
             \A g \in Calls : g # h => pc'[g] = pc[g] /\ req'[g] = req[g],
             \A r \in Releases : Here(r) => Here(r)',
             NamesHere', Asked(h)', marked' \subseteq Releases, kills' \in Nat
      PROVE  TInv'
  <2>1. ASSUME NEW g \in Calls, g # h PROVE Asked(g)'
    <3>1. Asked(g) /\ req[g] \in Request
      BY <1>a
    <3>2. Activating(g) => pc[g] \notin {Idle, Failed, <<"lookup", "call">>}
      OBVIOUS
    <3>3. Activating(g) => Here(req[g].rel)' /\ (req[g].prev # None => Here(req[g].prev)')
      BY <1>1, <2>1, <3>1, <3>2 DEF Asked, Request, Maybe, Here
    <3>4. QED
      BY <1>1, <2>1, <3>1, <3>3 DEF Asked
  <2>2. QED
    BY <1>1, <2>1
<1>2. \A r \in Releases : UNCHANGED dir => (Here(r) => Here(r)')
  BY DEF Here
<1>3. UNCHANGED <<link, ptr, dir>> => NamesHere'
  BY DEF NamesHere, Here
<1>4. ASSUME NEW h \in Calls, Starts(h) PROVE TInv'
  <2>1. PICK k \in Kinds, r \in Maybe, first \in {"resolve", "lookup", "upload"} :
          /\ first # "lookup" => r \in Releases
          /\ first = "upload" => k = "upload"
          /\ Begin(h, k, r, first)
    BY <1>4 DEF Starts, Activate, RollBack, Upload, Kinds, Maybe
  <2>2. /\ \A g \in Calls : g # h => pc'[g] = pc[g] /\ req'[g] = req[g]
        /\ pc'[h] = <<first, "call">> /\ req'[h].rel = r /\ req'[h].kind = k
    BY <1>a, <2>1 DEF Begin
  <2>3. Asked(h)'
    BY <2>1, <2>2 DEF Asked
  <2>4. QED
    BY <1>1, <1>2, <1>3, <2>1, <2>2, <2>3 DEF Begin
<1>5. ASSUME NEW h \in Calls, Lookup(h) PROVE TInv'
  <2>1. \A lost : Sees("previous", lost) \in Maybe
    BY SeesType DEF Slots
  <2>2. /\ \A g \in Calls : g # h => pc'[g] = pc[g] /\ req'[g] = req[g]
        /\ pc'[h] = Failed \/ (pc'[h] = <<"resolve", "call">> /\ req'[h].rel \in Releases)
    BY <1>5, <1>a, <2>1 DEF Lookup, Maybe, Request
  <2>3. Asked(h)'
    <3>1. CASE pc'[h] = Failed
      BY <3>1 DEF Asked
    <3>2. CASE pc'[h] = <<"resolve", "call">> /\ req'[h].rel \in Releases
      BY <3>2 DEF Asked
    <3>3. QED
      BY <2>2, <3>1, <3>2
  <2>4. QED
    BY <1>1, <1>2, <1>3, <1>5, <2>2, <2>3 DEF Lookup
<1>6. ASSUME NEW h \in Calls, Resolve(h) PROVE TInv'
  <2>1. \A s \in Slots : \A lost : Sees(s, lost) # None => Here(Sees(s, lost))
    <3> SUFFICES ASSUME NEW s \in Slots, NEW lost, Sees(s, lost) # None
                 PROVE  Here(Sees(s, lost))
      OBVIOUS
    <3>1. CASE Sees(s, lost) = link[s]
      BY <3>1, <1>1 DEF NamesHere
    <3>2. CASE Sees(s, lost) = ptr[s]
      BY <3>2, <1>1 DEF NamesHere
    <3>3. Sees(s, lost) \in {link[s], ptr[s]}
      BY SeesType
    <3>4. QED
      BY <3>1, <3>2, <3>3
  <2>2. req[h].rel \in Releases
    <3>1. pc[h] = <<"resolve", "call">>
      BY <1>6 DEF Resolve
    <3>2. pc[h] \notin {Idle, Failed, <<"lookup", "call">>}
      BY <3>1
    <3>3. QED
      BY <3>2 DEF Asked
  <2>3. UNCHANGED <<link, ptr, dir, marked, kills>>
    BY <1>6 DEF Resolve
  <2>4. CASE pc' = [pc EXCEPT ![h] = Failed] /\ UNCHANGED req
    BY <1>1, <1>2, <1>3, <1>a, <2>3, <2>4 DEF Asked
  <2>5. ASSUME Here(req[h].rel), NEW o, NEW p, p # None => Here(p),
               req' = [req EXCEPT ![h].old = o, ![h].prev = p, ![h].live = Current],
               pc' = [pc EXCEPT ![h] = FirstChange(h)]
        PROVE  TInv'
    <3>1. \A g \in Calls : g # h => pc'[g] = pc[g] /\ req'[g] = req[g]
      BY <1>a, <2>5
    <3>2. /\ req'[h].rel = req[h].rel /\ req'[h].prev = p
          /\ pc'[h] \in {<<"open", "current">>, <<"unlink", "previous">>}
      BY <1>a, <2>5 DEF Request, FirstChange
    <3>3. \A r : Here(r)' <=> Here(r)
      BY <2>3 DEF Here
    <3>4. Asked(h)'
      BY <2>2, <2>5, <3>2, <3>3 DEF Asked
    <3>5. QED
      BY <1>1, <1>2, <1>3, <2>3, <3>1, <3>4
  <2>6. CASE /\ Here(req[h].rel)
             /\ pc' = [pc EXCEPT ![h] = FirstChange(h)]
             /\ \E lost \in SUBSET Names :
                 LET old == Sees("current", lost)
                     demoted == IF old \notin {None, req[h].rel} THEN old ELSE Sees("previous", lost)
                 IN  req' = [req EXCEPT ![h].old = old, ![h].prev = demoted, ![h].live = Current]
    BY <2>1, <2>5, <2>6 DEF Slots
  <2>7. QED
    BY <1>6, <2>4, <2>6 DEF Resolve, Here
\* Links and pointers are given only the releases of the call's request.
<1>7. ASSUME NEW h \in Calls, pc' = [pc EXCEPT ![h] = pc'[h]], UNCHANGED <<req, dir, marked, kills>>,
             Activating(h),
             pc'[h] \in Places,
             pc'[h][1] \in Steps \/ pc'[h] \in {Ok, Failed},
             pc'[h][2] = "previous" /\ pc'[h][1] \in {"link", "open", "fill"} => req[h].prev # None,
             NEW s \in Slots,
             s = "previous" /\ ~UNCHANGED <<link, ptr>> =>
                 link'["previous"] = None \/ ptr'["previous"] = None \/ req[h].prev # None,
             \/ UNCHANGED <<link, ptr>>
             \/ UNCHANGED ptr /\ link' = [link EXCEPT ![s] = None]
             \/ UNCHANGED ptr /\ link' = [link EXCEPT ![s] = Writes(h, s)]
             \/ UNCHANGED link /\ ptr' = [ptr EXCEPT ![s] = None]
             \/ UNCHANGED link /\ ptr' = [ptr EXCEPT ![s] = Writes(h, s)]
      PROVE  TInv'
  <2>1. \A r : Here(r)' <=> Here(r)
    BY <1>7 DEF Here
  <2>2. \A g \in Calls : g # h => pc'[g] = pc[g] /\ req'[g] = req[g]
    BY <1>7, <1>a
  <2>3. Writes(h, s) # None => Here(Writes(h, s))
    BY <1>7 DEF Asked, Writes
  <2>4. NamesHere'
    <3>1. ASSUME NEW t \in Slots
          PROVE  /\ link'[t] \in {link[t], None, Writes(h, s)}
                 /\ ptr'[t] \in {ptr[t], None, Writes(h, s)}
      BY <1>7, <1>a
    <3>2. QED
      BY <2>1, <2>3, <3>1 DEF NamesHere
  <2>5. Asked(h)'
    BY <1>7, <2>1 DEF Asked
  <2>6. QED
    BY <1>1, <1>2, <1>7, <2>2, <2>4, <2>5
<1>8. ASSUME NEW h \in Calls, NEW s \in Slots, Unlink(h, s) \/ Link(h, s) PROVE TInv'
  <2>1. s \in {"current", "previous"} /\ Asked(h)
    BY DEF Slots
  <2>2. pc'[h] \in Places
    BY DEF Typed
  <2>3. QED
    BY <1>7, <1>8, <1>a, <2>1, <2>2 DEF Unlink, Link, Asked, Writes
<1>9. ASSUME NEW h \in Calls, NEW s \in Slots, LinkFails(h, s) \/ Drop(h, s) PROVE TInv'
  <2>1. s \in {"current", "previous"} /\ Asked(h)
    BY DEF Slots
  <2>2. pc'[h] \in Places
    BY DEF Typed
  <2>3. QED
    BY <1>7, <1>9, <1>a, <2>1, <2>2 DEF LinkFails, Drop, Asked, Writes
<1>10. ASSUME NEW h \in Calls, NEW s \in Slots, Open(h, s) \/ Fill(h, s) PROVE TInv'
  <2>1. s \in {"current", "previous"} /\ Asked(h)
    BY DEF Slots
  <2>2. pc'[h] \in Places
    BY DEF Typed
  <2>3. QED
    BY <1>7, <1>10, <1>a, <2>1, <2>2 DEF Open, Fill, Asked, Writes
<1>11. ASSUME NEW h \in Calls, UploadBegins(h) \/ UploadEnds(h) \/ Mark(h) PROVE TInv'
  <2>1. req[h].rel \in Releases /\ req[h].kind = "upload"
    BY <1>11 DEF UploadBegins, UploadEnds, Mark, Asked
  <2>2. /\ \A g \in Calls : g # h => pc'[g] = pc[g]
        /\ pc'[h] \in {<<"transfer", "call">>, <<"mark", "call">>, Ok, Failed}
        /\ UNCHANGED <<req, link, ptr, kills>>
        /\ \A r \in Releases : dir'[r] # dir[r] => dir'[r] # "absent"
        /\ marked' \subseteq Releases
    BY <1>11, <1>a, <2>1 DEF UploadBegins, UploadEnds, Mark
  <2>3. \A r \in Releases : Here(r) => Here(r)'
    BY <2>2 DEF Here
  <2>4. NamesHere'
    BY <1>a, <2>2, <2>3 DEF NamesHere, Maybe
  <2>5. Asked(h)'
    BY <2>1, <2>2 DEF Asked
  <2>6. QED
    BY <1>1, <2>2, <2>3, <2>4, <2>5
<1>12. ASSUME NEW h \in Calls, Return(h) \/ Kill(h) PROVE TInv'
  <2>1. /\ \A g \in Calls : g # h => pc'[g] = pc[g]
        /\ pc'[h] = Idle /\ UNCHANGED <<host, req>> /\ kills' \in Nat
    BY <1>12, <1>a DEF Return, Kill
  <2>2. Asked(h)'
    BY <2>1 DEF Asked
  <2>3. QED
    BY <1>1, <1>2, <1>3, <2>1, <2>2
<1>13. CASE UNCHANGED vars
  BY <1>13 DEF vars, NamesHere, Asked, Here
<1>14. QED
  BY <1>a, <1>4, <1>5, <1>6, <1>8, <1>9, <1>10, <1>11, <1>12, <1>13 DEF Next, Step

\* Types, and the state never names a release that is not on the host
\* (activate_release requires the directory, and nothing removes one).
THEOREM StoreTypes == Spec => []TypeOK
<1>1. Spec => []TInv
  BY TypesCorrect, TInvInitially, TInvKept, PTL DEF Spec
<1>2. QED
  BY <1>1, TInvImplies, PTL

\* With overlapping calls and neither faults nor kills a release stays current.
LEMMA PublishedKept ==
    ASSUME TInv, TInv', Published, [Next]_vars
    PROVE  Published'
<1> SUFFICES ASSUME Smooth
             PROVE  /\ (\E h \in Calls : Dropping(h)') => Linking'
                    /\ (\E h \in Calls : Demoting(h)' \/ Answered(h)') => Naming'
  BY DEF Published, Smooth, Next, vars
<1> USE DEF host, Goto, Idle, Ok, Failed, Slots
<1>a. /\ pc \in [Calls -> Places] /\ link \in [Slots -> Maybe] /\ ptr \in [Slots -> Maybe]
      /\ req \in [Calls -> Request] /\ setting.calls \subseteq Calls /\ faults \in Nat /\ kills \in Nat
      /\ None \notin Releases
  BY StoreAssumption DEF TInv, Typed
<1>b. ~Fault /\ \A h \in Calls : ~Kill(h) /\ Asked(h)
  BY <1>a DEF Smooth, Fault, Kill, TInv
<1>c. /\ (\E h \in Calls : Dropping(h)) => Linking
      /\ (\E h \in Calls : Demoting(h) \/ Answered(h)) => Naming
  BY DEF Published
\* A step that touches neither name of `current` and leaves none of the places.
<1>1. ASSUME NEW h \in Calls, \A g \in Calls : g # h => pc'[g] = pc[g] /\ req'[g] = req[g],
             link'["current"] = link["current"] \/ link'["current"] # None
                \/ pc'[h] = <<"link", "current">>,
             pc[h] = <<"link", "current">> => link'["current"] # None,
             Naming => Naming',
             Dropping(h)' => Dropping(h) \/ link'["current"] # None,
             Demoting(h)' \/ Answered(h)' => Demoting(h) \/ Answered(h) \/ Naming'
      PROVE  Published'
  <2>1. Linking => Linking'
    BY <1>1 DEF Linking
  <2>2. \A g \in Calls : g # h => /\ Dropping(g)' => Dropping(g)
                                  /\ Demoting(g)' \/ Answered(g)' => Demoting(g) \/ Answered(g)
    BY <1>1 DEF Dropping, Demoting, Answered
  <2>3. (\E g \in Calls : Dropping(g)') => Linking'
    BY <1>1, <1>c, <2>1, <2>2 DEF Linking
  <2>4. (\E g \in Calls : Demoting(g)' \/ Answered(g)') => Naming'
    BY <1>1, <1>c, <2>2
  <2>5. QED
    BY <2>3, <2>4 DEF Published
\* A step that changes neither name of `current` keeps one being there.
<1>2. ASSUME NEW h \in Calls, \A g \in Calls : g # h => pc'[g] = pc[g],
             link'["current"] = link["current"], ptr'["current"] = ptr["current"],
             pc[h] \notin {<<"link", "current">>, <<"fill", "current">>}
      PROVE  Naming => Naming'
  BY <1>2 DEF Naming, Linking
<1>3. ASSUME NEW h \in Calls, Starts(h) \/ Lookup(h) \/ Resolve(h) \/ UploadBegins(h) \/ UploadEnds(h)
                                \/ Mark(h) \/ Return(h)
      PROVE  Published'
  <2>1. UNCHANGED <<link, ptr>>
    BY <1>3 DEF Starts, Activate, RollBack, Upload, Begin, Lookup, Resolve, UploadBegins,
                UploadEnds, Mark, Return
  <2>a. CASE Lookup(h) \/ Resolve(h)
    <3>1. Typed
      BY DEF TInv
    <3>2. /\ \A g \in Calls : g # h => pc'[g] = pc[g] /\ req'[g] = req[g]
          /\ pc[h] \notin {<<"link", "current">>, <<"fill", "current">>}
          /\ ~Dropping(h)' /\ ~Demoting(h)' /\ ~Answered(h)'
      BY <2>a, <3>1, ReadingSteps DEF Dropping, Demoting, Answered
    <3>3. QED
      BY <1>1, <1>2, <2>1, <3>2
  <2>b. CASE ~Lookup(h) /\ ~Resolve(h)
    <3>2. \A g \in Calls : g # h => pc'[g] = pc[g] /\ req'[g] = req[g]
      BY <1>3, <2>b, <1>a DEF Starts, Activate, RollBack, Upload, Begin, UploadBegins,
                  UploadEnds, Mark, Return
    <3>3. pc[h] \notin {<<"link", "current">>, <<"fill", "current">>}
      BY <1>3, <2>b DEF Starts, Activate, RollBack, Upload, Begin, UploadBegins,
                  UploadEnds, Mark, Return, Ends
    <3>4. ~Dropping(h)' /\ ~Demoting(h)'
      BY <1>3, <2>b, <1>a DEF Starts, Activate, RollBack, Upload, Begin, UploadBegins,
                  UploadEnds, Mark, Return, Dropping, Demoting
    <3>5. ~Answered(h)'
      <4>1. pc'[h] = Ok => Mark(h)
        BY <1>3, <2>b, <1>a DEF Starts, Activate, RollBack, Upload, Begin, UploadBegins,
                  UploadEnds, Mark, Return
      <4>2. Mark(h) => req'[h].kind = "upload"
        BY <1>b DEF Mark, Asked
      <4>3. QED
        BY <4>1, <4>2 DEF Answered
    <3>6. QED
      BY <1>1, <1>2, <2>1, <3>2, <3>3, <3>4, <3>5
  <2>6. QED
    BY <2>a, <2>b
<1>4. ASSUME NEW h \in Calls, NEW s \in Slots, Unlink(h, s) PROVE Published'
  <2>1. /\ \A g \in Calls : g # h => pc'[g] = pc[g] /\ req'[g] = req[g]
        /\ s = "current" => pc'[h] = <<"link", "current">>
        /\ s = "previous" => link'["current"] = link["current"]
        /\ pc[h] = <<"unlink", s>> /\ pc'[h][1] \in {"unlink", "link"} /\ UNCHANGED ptr
    BY <1>4, <1>a DEF Unlink
  <2>2. ~Dropping(h)' /\ ~Demoting(h)' /\ ~Answered(h)'
    BY <2>1 DEF Dropping, Demoting, Answered
  <2>3. s = "current" => Naming'
    BY <2>1 DEF Naming, Linking
  <2>4. s = "previous" => (Naming => Naming')
    BY <1>2, <2>1
  <2>5. QED
    BY <1>1, <2>1, <2>2, <2>3, <2>4
<1>5. ASSUME NEW h \in Calls, NEW s \in Slots, Link(h, s) PROVE Published'
  <2>1. /\ \A g \in Calls : g # h => pc'[g] = pc[g] /\ req'[g] = req[g]
        /\ s = "current" => link'["current"] = req[h].rel /\ pc'[h] = <<"drop", "current">>
        /\ s = "previous" => link'["current"] = link["current"] /\ pc'[h] = <<"unlink", "current">>
        /\ pc[h] = <<"link", s>> /\ UNCHANGED ptr
    BY <1>5, <1>a DEF Link
  <2>2. req[h].rel # None
    BY <1>a, <1>b, <2>1 DEF Asked
  <2>3. ~Demoting(h)' /\ ~Answered(h)'
    BY <2>1 DEF Demoting, Answered
  <2>4. s = "current" => Naming'
    BY <2>1, <2>2 DEF Naming, Linking
  <2>5. s = "previous" => (Naming => Naming') /\ ~Dropping(h)'
    BY <1>2, <2>1 DEF Dropping
  <2>6. QED
    BY <1>1, <2>1, <2>2, <2>3, <2>4, <2>5
<1>6. ASSUME NEW h \in Calls, NEW s \in Slots, LinkFails(h, s) PROVE Published'
  <2>1. /\ \A g \in Calls : g # h => pc'[g] = pc[g] /\ req'[g] = req[g]
        /\ link[s] # None /\ UNCHANGED <<link, ptr>> /\ pc[h] = <<"link", s>>
        /\ pc'[h] \in {<<"open", "current">>, Failed}
    BY <1>6, <1>a, <1>b DEF LinkFails
  <2>2. ~Dropping(h)' /\ ~Demoting(h)' /\ ~Answered(h)'
    BY <2>1 DEF Dropping, Demoting, Answered
  <2>3. s = "current" => Naming'
    BY <2>1 DEF Naming, Linking
  <2>4. s = "previous" => (Naming => Naming')
    BY <1>2, <2>1
  <2>5. QED
    BY <1>1, <2>1, <2>2, <2>3, <2>4
<1>7. ASSUME NEW h \in Calls, NEW s \in Slots, Drop(h, s) PROVE Published'
  <2>1. /\ \A g \in Calls : g # h => pc'[g] = pc[g] /\ req'[g] = req[g]
        /\ UNCHANGED link /\ pc[h] = <<"drop", s>>
        /\ pc'[h] \in {<<"drop", "previous">>, Ok}
    BY <1>7, <1>a DEF Drop
  <2>2. Linking
    BY <1>c, <2>1 DEF Dropping
  <2>3. Naming'
    BY <2>1, <2>2 DEF Naming, Linking
  <2>4. Dropping(h)
    BY <2>1 DEF Dropping
  <2>5. QED
    BY <1>1, <2>1, <2>3, <2>4
<1>8. ASSUME NEW h \in Calls, NEW s \in Slots, Open(h, s) PROVE Published'
  <2>1. /\ \A g \in Calls : g # h => pc'[g] = pc[g] /\ req'[g] = req[g]
        /\ UNCHANGED link /\ pc[h] = <<"open", s>> /\ pc'[h] = <<"fill", s>>
        /\ s = "previous" => ptr'["current"] = ptr["current"]
    BY <1>8, <1>a, <1>b DEF Open
  <2>2. s = "current" => Naming' /\ ~Demoting(h)'
    BY <2>1 DEF Naming, Linking, Demoting
  <2>3. s = "previous" => (Naming => Naming') /\ Demoting(h)
    BY <1>2, <2>1 DEF Demoting
  <2>4. ~Dropping(h)' /\ ~Answered(h)'
    BY <2>1 DEF Dropping, Answered
  <2>5. QED
    BY <1>1, <2>1, <2>2, <2>3, <2>4
<1>9. ASSUME NEW h \in Calls, NEW s \in Slots, Fill(h, s) PROVE Published'
  <2>1. /\ \A g \in Calls : g # h => pc'[g] = pc[g] /\ req'[g] = req[g]
        /\ UNCHANGED link /\ pc[h] = <<"fill", s>>
        /\ pc'[h] \in {<<"open", "previous">>, Ok}
        /\ s = "current" => ptr'["current"] = req[h].rel
        /\ s = "previous" => ptr'["current"] = ptr["current"]
    BY <1>9, <1>a, <1>b DEF Fill
  <2>2. req[h].rel # None
    BY <1>a, <1>b, <2>1 DEF Asked
  <2>3. s = "current" => Naming'
    BY <2>1, <2>2 DEF Naming
  <2>4. s = "previous" => (Naming => Naming') /\ Demoting(h)
    BY <1>2, <2>1 DEF Demoting
  <2>5. ~Dropping(h)'
    BY <2>1 DEF Dropping
  <2>6. QED
    BY <1>1, <2>1, <2>3, <2>4, <2>5
<1>10. ASSUME UNCHANGED vars PROVE Published'
  BY <1>10, <1>c DEF vars, Linking, Naming, Dropping, Demoting, Answered, Published
<1>11. Published'
  <2>1. ASSUME NEW h \in setting.calls, Starts(h) \/ Step(h) \/ Kill(h) PROVE Published'
    <3>1. h \in Calls /\ ~Kill(h)
      BY <1>a, <1>b
    <3>2. Step(h) => Published'
      BY <1>3, <1>4, <1>5, <1>6, <1>7, <1>8, <1>9, <3>1 DEF Step
    <3>3. QED
      BY <1>3, <2>1, <3>1, <3>2
  <2>2. QED
    BY <1>10, <2>1 DEF Next
<1>12. Smooth'
  BY DEF Next, vars, Smooth
<1>13. QED
  BY <1>11, <1>12 DEF Published

\* Once the dust settles after a successful activation some release is current,
\* with one call at a time whatever fails or is killed, and with overlapping
\* calls as long as nothing does.
THEOREM StaysPublished == Spec => []NotLeftUnpublished
<1>1. Spec => []TInv
  BY TypesCorrect, TInvInitially, TInvKept, PTL DEF Spec
<1>2. Init => Published
  BY DEF Init, Published, Dropping, Demoting, Answered, Idle, Ok
<1>3. TInv /\ TInv' /\ Published /\ [Next]_vars => Published'
  BY PublishedKept
<1>4. Init => (Serialized => IInv)
  BY SerialInitially
<1>5. (Serialized => IInv) /\ Typed' /\ [Next]_vars => (Serialized => IInv)'
  BY SerialStep
<1>6. (Serialized => IInv) /\ Published => NotLeftUnpublished
  <2> SUFFICES ASSUME Serialized => IInv, Published, Serialized \/ Smooth,
                      \A h \in Calls : pc[h] \in Ends \cup {Idle},
                      NEW h \in Calls, Answered(h)
               PROVE  Current # None
    BY DEF NotLeftUnpublished, Answered, Smooth
  <2>1. CASE Serialized
    BY <2>1 DEF IInv, LinkInv, Linked, Pointed, Current, Reads, Sees
  <2>2. CASE Smooth
    <3>1. Naming
      BY <2>2 DEF Published
    <3>2. \A g \in Calls : pc[g] # <<"link", "current">> /\ pc[g] # <<"fill", "current">>
      BY DEF Ends, Idle, Ok, Failed
    <3>3. QED
      BY <3>1, <3>2 DEF Naming, Linking, Current, Reads, Sees
  <2>3. QED
    BY <2>1, <2>2
<1>7. QED
  BY <1>1, <1>2, <1>3, <1>4, <1>5, <1>6, TypesCorrect, PTL DEF Spec
-------------------------------------------------------------------------------
\* Verifying calls change nothing in the store: whatever holds of ReleaseStore
\* alone holds of the store beside its verifiers.
THEOREM VerifiersOnlyRead == VerifySpec => Spec
<1>1. VerifyInit => Init
  BY DEF VerifyInit
<1>2. [VerifyNext]_allVars => [Next]_vars
  <2> SUFFICES ASSUME [VerifyNext]_allVars PROVE [Next]_vars
    OBVIOUS
  <2>1. CASE UNCHANGED allVars
    BY <2>1 DEF allVars
  <2>2. ASSUME NEW h \in setting.calls, StoreStep(h), UNCHANGED setting PROVE Next
    BY <2>2 DEF StoreStep, Starts, Next
  <2>3. ASSUME NEW v \in Verifiers, VerifyStep(v) PROVE UNCHANGED vars
    BY <2>3 DEF VerifyStep, VerifyBegins, FirstRung, ReadMeta, Origin, Dns, Tls, Public,
                VerifyFails, VerifyReturns
  <2>4. CutOver => UNCHANGED vars
    BY DEF CutOver
  <2>5. QED
    BY <2>1, <2>2, <2>3, <2>4 DEF VerifyNext
<1>3. QED
  BY <1>1, <1>2, PTL DEF VerifySpec, Spec

\* With the calls one at a time, verifying calls among them, an activation or
\* rollback that answers ok took effect (activate_release, rollback_release).
THEOREM EffectiveBesideVerifiers == VerifySpec => []EffectiveActivation
BY VerifiersOnlyRead, SerialActivation, PTL
-------------------------------------------------------------------------------
At(h, step) == pc[h] = <<step, "call">>
Uploading(h) == At(h, "upload") \/ At(h, "transfer") \/ At(h, "mark")

\* Where identifiers are fresh, every upload has its release to itself and the
\* marker is written when the tree is whole.
MarkedWhole ==
    /\ \A r \in marked : dir[r] = "whole"
    /\ \A h \in Calls :
          /\ At(h, "upload") => dir[req[h].rel] = "absent"
          /\ At(h, "transfer") => dir[req[h].rel] = "partial"
          /\ At(h, "mark") => dir[req[h].rel] = "whole"
    /\ \A g, h \in Calls : Uploading(g) /\ Uploading(h) /\ req[g].rel = req[h].rel => g = h

StoreInv ==
    /\ Typed
    /\ marked \subseteq Releases
    /\ \A h \in Calls : Uploading(h) => req[h].rel \in Releases
    /\ setting \in Fresh => MarkedWhole

VerifyTyped ==
    /\ place \in [Verifiers -> {"idle", "begun", "origin", "dns", "tls", "public"} \cup Answers]
    /\ ask \in [Verifiers -> Asks]
    /\ zone \in {"here", "elsewhere"}
    /\ seen \in [Verifiers -> SUBSET Releases]

\* What a verifying call knows at each of its places.
Knows(v) ==
    /\ seen[v] \subseteq marked
    /\ place[v] # "idle" => Served \subseteq seen[v]
    /\ place[v] = "told" => ask[v].rel \in marked
    /\ place[v] \in {"dns", "tls", "public", "verified"} /\ ask[v].origin /\ ask[v].ip =>
          ask[v].rel \in seen[v]
    /\ place[v] = "verified" /\ ask[v].public => ask[v].rel \in seen[v]
    /\ Serialized /\ place[v] # "idle" =>
          (\A h \in Calls : pc[h] = Idle) /\ seen[v] \subseteq Served

VInv == StoreInv /\ VerifyTyped /\ \A v \in Verifiers : Knows(v)

LEMMA VInvImplies == VInv => VerifiedIsServed
<1> SUFFICES ASSUME VInv, NEW v \in Verifiers
    PROVE /\ place[v] = "verified" /\ Looked(v) =>
                ask[v].rel \in seen[v] /\ (Serialized => ask[v].rel \in Served)
          /\ place[v] = "told" \/ (place[v] = "verified" /\ Looked(v)) =>
                (setting \in Fresh => dir[ask[v].rel] = "whole")
  BY DEF VerifiedIsServed
<1>1. Knows(v)
  BY DEF VInv
<1>2. place[v] = "verified" /\ Looked(v) => ask[v].rel \in seen[v] /\ ask[v].rel \in marked
  BY <1>1 DEF Knows, Looked
<1>3. place[v] = "told" => ask[v].rel \in marked
  BY <1>1 DEF Knows
<1>4. Serialized /\ place[v] = "verified" => seen[v] \subseteq Served
  BY <1>1 DEF Knows
<1>5. setting \in Fresh => \A r \in marked : dir[r] = "whole"
  BY DEF VInv, StoreInv, MarkedWhole
<1>6. QED
  BY <1>2, <1>3, <1>4, <1>5

LEMMA RungAfterFact ==
    ASSUME VerifyTyped, NEW v \in Verifiers, NEW k \in 0..3
    PROVE  /\ RungAfter(v, k) \in {"origin", "dns", "tls", "public", "verified"}
           /\ k = 0 /\ ask[v].origin => RungAfter(v, k) = "origin"
           /\ ask[v].public => RungAfter(v, k) # "verified"
<1> DEFINE left == {j \in 1..4 : j > k /\ Wants(ask[v], Rungs[j])}
<1> DEFINE first == CHOOSE j \in left : \A i \in left : j <= i
<1>1. RungAfter(v, k) = IF left = {} THEN "verified" ELSE Rungs[first]
  BY DEF RungAfter
<1>2. /\ Rungs[1] = "origin" /\ Rungs[2] = "dns" /\ Rungs[3] = "tls" /\ Rungs[4] = "public"
      /\ left \subseteq 1..4
  BY DEF Rungs
<1>3. ASSUME left # {} PROVE first \in left /\ \A i \in left : first <= i
  <2>1. \E j \in left : \A i \in left : j <= i
    <3> HIDE DEF left
    <3>1. \A i \in left : i \in {1, 2, 3, 4}
      BY <1>2
    <3>2. CASE 1 \in left
      BY <3>1, <3>2
    <3>3. CASE 1 \notin left /\ 2 \in left
      BY <3>1, <3>3
    <3>4. CASE 1 \notin left /\ 2 \notin left /\ 3 \in left
      BY <3>1, <3>4
    <3>5. CASE 1 \notin left /\ 2 \notin left /\ 3 \notin left
      BY <3>1, <3>5, <1>3
    <3>6. QED
      BY <3>2, <3>3, <3>4, <3>5
  <2> HIDE DEF left
  <2>2. QED
    BY <2>1
<1>4. k = 0 /\ ask[v].origin => 1 \in left
  <2>1. ask[v].origin => Wants(ask[v], Rungs[1])
    BY <1>2 DEF Wants
  <2>2. QED
    BY <2>1
<1>5. ask[v].public => 4 \in left
  <2>1. ask[v].public => Wants(ask[v], Rungs[4])
    BY <1>2 DEF Wants
  <2>2. QED
    BY <2>1
<1> HIDE DEF left, first
<1>6. left # {} => first \in {1, 2, 3, 4}
  <2>1. ASSUME left # {} PROVE first \in 1..4
    BY <1>2, <1>3, <2>1
  <2>2. QED
    BY <2>1
<1>7. 1 \in left => first = 1
  BY <1>3, <1>6
<1>8. QED
  BY <1>1, <1>2, <1>4, <1>5, <1>6, <1>7

LEMMA VInitially == VerifyInit => VInv
<1> SUFFICES ASSUME VerifyInit PROVE VInv
  OBVIOUS
<1>1. Init
  BY DEF VerifyInit
<1>2. Typed
  BY <1>1, StoreAssumption DEF Init, Typed, Idle, Places, Request, Kinds, Maybe, AllStrategies
<1>3. StoreInv
  BY <1>1, <1>2 DEF Init, StoreInv, MarkedWhole, At, Uploading, Idle
<1>4. Nothing \in Asks
  BY VerifyAssumption DEF Nothing
<1>5. VerifyTyped
  BY <1>4 DEF VerifyInit, VerifyTyped, Answers
<1>6. ASSUME NEW v \in Verifiers PROVE Knows(v)
  BY <1>5 DEF VerifyInit, Knows
<1>7. QED
  BY <1>3, <1>5, <1>6 DEF VInv


LEMMA MarkersGrow ==
    ASSUME NEW h \in Calls, StoreStep(h), UNCHANGED setting
    PROVE  marked \subseteq marked'
BY DEF StoreStep, Activate, RollBack, Upload, Begin, Step, Lookup, Resolve, Unlink, Link,
       LinkFails, Drop, Open, Fill, UploadBegins, UploadEnds, Mark, Return, Kill, host

\* A step of an upload touches its own release only; every other step leaves
\* the trees and the markers alone.
LEMMA StoreInvKept ==
    ASSUME StoreInv, Typed', NEW h \in Calls, StoreStep(h), UNCHANGED setting
    PROVE  StoreInv'
<1>a. /\ Typed /\ marked \subseteq Releases
      /\ \A g \in Calls : Uploading(g) => req[g].rel \in Releases
      /\ setting \in Fresh => MarkedWhole
  BY DEF StoreInv
<1>b. dir \in [Releases -> {"absent", "partial", "whole"}] /\ pc \in [Calls -> Places]
      /\ req \in [Calls -> Request]
  BY <1>a DEF Typed
<1>1. CASE Activate(h) \/ RollBack(h)
  <2>1. PICK k \in Kinds, r \in Maybe, to \in {"resolve", "lookup"} : Begin(h, k, r, to)
    BY <1>1 DEF Activate, RollBack, Kinds, Maybe
  <2>2. /\ UNCHANGED <<dir, marked>> /\ pc' = [pc EXCEPT ![h] = <<to, "call">>]
        /\ \A g \in Calls : g # h => req'[g] = req[g]
    BY <2>1, <1>b DEF Begin, Goto, host
  <2>3. \A g \in Calls : g # h => pc'[g] = pc[g]
    BY <2>2, <1>b
  <2>4. pc'[h] = <<to, "call">>
    BY <2>2, <1>b
  <2>5. QED
    BY <1>a, <2>2, <2>3, <2>4 DEF StoreInv, MarkedWhole, At, Uploading
<1>2. CASE Upload(h) /\ (setting \in Fresh => NewRelease(h))
  <2>1. PICK r \in Releases : Begin(h, "upload", r, "upload")
    BY <1>2 DEF Upload
  <2>2. /\ UNCHANGED <<dir, marked>> /\ pc' = [pc EXCEPT ![h] = <<"upload", "call">>]
        /\ \A g \in Calls : g # h => req'[g] = req[g]
        /\ req'[h].rel = r
    BY <2>1, <1>b DEF Begin, Goto, host
  <2>3. \A g \in Calls : g # h => pc'[g] = pc[g]
    BY <2>2, <1>b
  <2>4. pc'[h] = <<"upload", "call">>
    BY <2>2, <1>b
  <2>5. setting \in Fresh =>
          dir[r] = "absent" /\ \A g \in Calls \ {h} : pc[g] # Idle => req[g].rel # r
    BY <1>2, <2>2 DEF NewRelease
  <2>6. \A g \in Calls : Uploading(g) => pc[g] # Idle
    BY DEF Uploading, At, Idle
  <2>7. setting \in Fresh => MarkedWhole'
    <3> SUFFICES ASSUME setting \in Fresh PROVE MarkedWhole'
      OBVIOUS
    <3>1. \A q \in marked' : dir'[q] = "whole"
      BY <1>a, <2>2 DEF MarkedWhole
    <3>2. ASSUME NEW g \in Calls
          PROVE  /\ At(g, "upload")' => dir'[req'[g].rel] = "absent"
                 /\ At(g, "transfer")' => dir'[req'[g].rel] = "partial"
                 /\ At(g, "mark")' => dir'[req'[g].rel] = "whole"
      BY <1>a, <2>2, <2>3, <2>4, <2>5 DEF MarkedWhole, At
    <3>3. ASSUME NEW f \in Calls, NEW g \in Calls, Uploading(f)', Uploading(g)',
                 req'[f].rel = req'[g].rel
          PROVE  f = g
      <4>1. f # h => Uploading(f) /\ req'[f] = req[f]
        BY <2>2, <2>3, <3>3 DEF Uploading, At
      <4>2. g # h => Uploading(g) /\ req'[g] = req[g]
        BY <2>2, <2>3, <3>3 DEF Uploading, At
      <4>3. QED
        BY <1>a, <2>2, <2>5, <2>6, <3>3, <4>1, <4>2 DEF MarkedWhole
    <3>4. QED
      BY <3>1, <3>2, <3>3 DEF MarkedWhole
  <2>8. QED
    BY <1>a, <2>2, <2>3, <2>4, <2>7 DEF StoreInv, Uploading, At
<1>3. CASE UploadBegins(h) \/ UploadEnds(h) \/ Mark(h)
  <2> DEFINE r == req[h].rel
  <2>1. Uploading(h) /\ r \in Releases /\ UNCHANGED req
    BY <1>3, <1>a DEF UploadBegins, UploadEnds, Mark, Uploading, At
  <2>2. \A g \in Calls : g # h => pc'[g] = pc[g]
    BY <1>3, <1>b DEF UploadBegins, UploadEnds, Mark, Goto
  <2>3. \/ /\ At(h, "upload") /\ At(h, "transfer")' /\ dir' = [dir EXCEPT ![r] = "partial"]
           /\ UNCHANGED marked
        \/ /\ At(h, "transfer") /\ At(h, "mark")' /\ dir' = [dir EXCEPT ![r] = "whole"]
           /\ UNCHANGED marked
        \/ /\ At(h, "mark") /\ ~Uploading(h)' /\ UNCHANGED dir /\ marked' = marked \cup {r}
        \/ ~Uploading(h)' /\ UNCHANGED <<dir, marked>>
    BY <1>3, <1>b DEF UploadBegins, UploadEnds, Mark, Goto, At, Uploading, Ok, Failed
  <2>4. /\ \A q \in Releases : q # r => dir'[q] = dir[q]
        /\ At(h, "transfer")' => dir'[r] = "partial"
        /\ At(h, "mark")' => dir'[r] = "whole"
        /\ ~At(h, "upload")'
    BY <1>b, <2>1, <2>3 DEF At, Uploading
  <2>5. Uploading(h)' => Uploading(h)
    BY <2>1
  <2> HIDE DEF r
  <2>6. \A g \in Calls : g # h => /\ Uploading(g)' => Uploading(g)
                                  /\ At(g, "upload")' => At(g, "upload")
                                  /\ At(g, "transfer")' => At(g, "transfer")
                                  /\ At(g, "mark")' => At(g, "mark")
    BY <2>2 DEF Uploading, At
  <2>7. marked' \subseteq Releases
    BY <1>a, <2>1, <2>3
  <2>8. setting \in Fresh => MarkedWhole'
    <3> SUFFICES ASSUME setting \in Fresh PROVE MarkedWhole'
      OBVIOUS
    <3>1. MarkedWhole
      BY <1>a
    <3>2. \A g \in Calls : g # h /\ Uploading(g) => req[g].rel # r
      BY <2>1, <3>1 DEF MarkedWhole, r
    <3>3. ASSUME NEW q \in marked' PROVE dir'[q] = "whole"
      <4>1. CASE q \in marked /\ q # r
        BY <3>1, <4>1, <2>4, <1>a DEF MarkedWhole
      <4>2. CASE q = r
        <5>1. r \in marked => dir[r] = "whole"
          BY <3>1 DEF MarkedWhole
        <5>2. /\ At(h, "upload") => dir[r] = "absent"
              /\ At(h, "transfer") => dir[r] = "partial"
              /\ At(h, "mark") => dir[r] = "whole"
          BY <3>1 DEF MarkedWhole, r
        <5>3. QED
          BY <5>1, <5>2, <2>3, <3>3, <4>2
      <4>3. QED
        BY <4>1, <4>2, <2>3, <3>3
    <3>4. ASSUME NEW g \in Calls
          PROVE  /\ At(g, "upload")' => dir'[req'[g].rel] = "absent"
                 /\ At(g, "transfer")' => dir'[req'[g].rel] = "partial"
                 /\ At(g, "mark")' => dir'[req'[g].rel] = "whole"
      <4>1. CASE g = h
        BY <2>1, <2>4, <4>1 DEF r
      <4>2. CASE g # h
        <5>1. Uploading(g) => dir'[req[g].rel] = dir[req[g].rel]
          BY <1>a, <3>2, <4>2, <2>4
        <5>2. QED
          BY <5>1, <4>2, <2>1, <2>6, <3>1 DEF MarkedWhole, Uploading
      <4>3. QED
        BY <4>1, <4>2
    <3>5. \A f, g \in Calls :
            Uploading(f)' /\ Uploading(g)' /\ req'[f].rel = req'[g].rel => f = g
      BY <2>1, <2>5, <2>6, <3>1 DEF MarkedWhole
    <3>6. QED
      BY <3>3, <3>4, <3>5 DEF MarkedWhole
  <2>9. QED
    BY <1>a, <2>1, <2>5, <2>6, <2>7, <2>8 DEF StoreInv
<1>4. CASE \/ Lookup(h) \/ Resolve(h) \/ Return(h) \/ Kill(h)
           \/ \E s \in Slots : Unlink(h, s) \/ Link(h, s) \/ LinkFails(h, s)
                                 \/ Drop(h, s) \/ Open(h, s) \/ Fill(h, s)
  <2>1. UNCHANGED <<dir, marked>>
    BY <1>4 DEF Lookup, Resolve, Return, Kill, Unlink, Link, LinkFails, Drop, Open, Fill, host
  <2>2. \A g \in Calls : g # h => pc'[g] = pc[g] /\ req'[g] = req[g]
    BY <1>4, <1>b DEF Lookup, Resolve, Return, Kill, Unlink, Link, LinkFails, Drop, Open, Fill,
                      Goto
  <2>3. ~Uploading(h)'
    <3>1. CASE Lookup(h) \/ Resolve(h)
      BY <1>a, <3>1, ReadingSteps DEF Uploading, At, Failed
    <3>2. CASE Return(h) \/ Kill(h)
      BY <1>b, <3>2 DEF Return, Kill, Goto, Uploading, At, Idle
    <3>3. ASSUME NEW t \in Slots, \/ Unlink(h, t) \/ Link(h, t) \/ LinkFails(h, t)
                                  \/ Drop(h, t) \/ Open(h, t) \/ Fill(h, t)
          PROVE  ~Uploading(h)'
      BY <1>b, <3>3 DEF Unlink, Link, LinkFails, Drop, Open, Fill, Goto, Uploading, At, Ok, Failed
    <3>4. QED
      BY <1>4, <3>1, <3>2, <3>3
  <2>4. \A g \in Calls : g # h => /\ Uploading(g)' <=> Uploading(g)
                                  /\ At(g, "upload")' <=> At(g, "upload")
                                  /\ At(g, "transfer")' <=> At(g, "transfer")
                                  /\ At(g, "mark")' <=> At(g, "mark")
    BY <2>2 DEF Uploading, At
  <2>5. MarkedWhole => MarkedWhole'
    BY <2>1, <2>2, <2>3, <2>4 DEF MarkedWhole, Uploading
  <2>6. QED
    BY <1>a, <2>1, <2>2, <2>3, <2>4, <2>5 DEF StoreInv
<1>5. QED
  BY <1>1, <1>2, <1>3, <1>4 DEF StoreStep, Step

\* Whatever the store does, a verifying call only sees more.
LEMMA StoreStepKeeps ==
    ASSUME VInv, Typed', NEW h \in Calls, StoreStep(h), UNCHANGED setting
    PROVE  VInv'
<1>1. StoreInv'
  BY StoreInvKept DEF VInv
<1>2. Served' \subseteq marked' /\ Served' \subseteq Releases /\ marked \subseteq marked'
  BY <1>1, MarkersGrow DEF Served, StoreInv
<1>3. /\ UNCHANGED <<zone, place, ask>>
      /\ seen' = [v \in Verifiers |-> IF place[v] = "idle" THEN {} ELSE seen[v] \cup Served']
  BY DEF StoreStep
<1>4. VerifyTyped'
  BY <1>2, <1>3 DEF VInv, VerifyTyped
<1>5. ASSUME Serialized, NEW v \in Verifiers, place[v] # "idle", Knows(v) PROVE FALSE
  <2>1. pc[h] = Idle
    BY <1>5 DEF Knows
  <2>2. ~Activate(h) /\ ~RollBack(h) /\ ~Upload(h) => Step(h) \/ Kill(h)
    BY DEF StoreStep
  <2>3. ~Step(h) /\ ~Kill(h)
    BY <2>1 DEF Step, Lookup, Resolve, Unlink, Link, LinkFails, Drop, Open, Fill, UploadBegins,
                UploadEnds, Mark, Return, Kill, Idle, Ends, Ok, Failed
  <2>4. QED
    BY <1>5, <2>3 DEF StoreStep
<1>6. ASSUME NEW v \in Verifiers PROVE Knows(v)'
  <2>1. Knows(v) /\ VerifyTyped
    BY DEF VInv
  <2>2. seen'[v] = IF place[v] = "idle" THEN {} ELSE seen[v] \cup Served'
    BY <1>3
  <2>3. Serialized' <=> Serialized
    BY DEF Serialized
  <2>4. QED
    BY <1>2, <1>3, <1>5, <2>1, <2>2, <2>3 DEF Knows
<1>7. QED
  BY <1>1, <1>4, <1>6 DEF VInv

LEMMA VerifyStepKeeps ==
    ASSUME VInv, NEW v \in Verifiers, VerifyStep(v), UNCHANGED setting
    PROVE  VInv'
<1>1. UNCHANGED vars
  BY DEF VerifyStep, VerifyBegins, FirstRung, ReadMeta, Origin, Dns, Tls, Public,
         VerifyFails, VerifyReturns
<1>2. /\ StoreInv' /\ StoreInv /\ Typed
      /\ Served' = Served /\ (Serialized' <=> Serialized)
      /\ Served \subseteq marked /\ Served \subseteq Releases
  BY <1>1 DEF VInv, StoreInv, MarkedWhole, Uploading, At, Typed, Served, Current, Reads, Sees,
              Serialized, vars
<1>3. VerifyTyped /\ (\A w \in Verifiers : Knows(w)) /\ UNCHANGED <<pc, marked>>
  BY <1>1 DEF VInv, vars
<1>4. /\ place \in [Verifiers -> {"idle", "begun", "origin", "dns", "tls", "public"} \cup Answers]
      /\ ask \in [Verifiers -> Asks]
      /\ seen \in [Verifiers -> SUBSET Releases]
      /\ zone \in {"here", "elsewhere"}
  BY <1>3 DEF VerifyTyped
<1>5. Nothing \in Asks
  BY VerifyAssumption DEF Nothing
<1> DEFINE after(k) == RungAfter(v, k)
<1>6. \A k \in 0..3 :
        /\ after(k) \in {"origin", "dns", "tls", "public", "verified"}
        /\ k = 0 /\ ask[v].origin => after(k) = "origin"
        /\ ask[v].public => after(k) # "verified"
  BY <1>3, RungAfterFact
<1> HIDE DEF after
<1>7. VerifyTyped' /\ \A w \in Verifiers : w # v =>
        place'[w] = place[w] /\ ask'[w] = ask[w] /\ seen'[w] = seen[w]
  <2> USE <1>4, <1>5, <1>2 DEF VerifyTyped, Move, Answers
  <2>1. CASE VerifyBegins(v)
    BY <2>1 DEF VerifyBegins
  <2>2. CASE FirstRung(v) \/ ReadMeta(v) \/ Origin(v) \/ Dns(v) \/ Tls(v)
    BY <2>2, <1>6 DEF FirstRung, ReadMeta, Origin, Dns, Tls, after
  <2>3. CASE Public(v) \/ VerifyFails(v)
    BY <2>3 DEF Public, VerifyFails
  <2>4. CASE VerifyReturns(v)
    BY <2>4 DEF VerifyReturns
  <2>5. QED
    BY <2>1, <2>2, <2>3, <2>4 DEF VerifyStep
<1>8. Knows(v)'
  <2>1. Knows(v)
    BY <1>3
  <2>2. CASE VerifyBegins(v)
    <3>1. place'[v] = "begun" /\ seen'[v] = Served
      BY <2>2, <1>4 DEF VerifyBegins, Move
    <3>2. Serialized => \A h \in Calls : pc[h] = Idle
      BY <2>2 DEF VerifyBegins
    <3>3. QED
      BY <3>1, <3>2, <1>2, <1>3 DEF Knows
  <2>3. CASE FirstRung(v)
    <3>1. place[v] = "begun" /\ place'[v] = after(0) /\ UNCHANGED <<ask, seen>>
      BY <2>3, <1>4 DEF FirstRung, Move, after
    <3>2. QED
      BY <3>1, <2>1, <1>2, <1>3, <1>6 DEF Knows
  <2>4. CASE ReadMeta(v)
    <3>1. /\ place[v] = "begun" /\ place'[v] \in {after(0), "told"} /\ UNCHANGED <<ask, seen>>
          /\ ask[v].rel \in marked
      BY <2>4, <1>4 DEF ReadMeta, Move, after
    <3>2. QED
      BY <3>1, <2>1, <1>2, <1>3, <1>6 DEF Knows
  <2>5. CASE Origin(v)
    <3>1. /\ place[v] = "origin" /\ place'[v] = after(1) /\ UNCHANGED <<ask, seen>>
          /\ ask[v].ip => ask[v].rel \in Served
      BY <2>5, <1>4 DEF Origin, Move, after, Fetched
    <3>2. QED
      BY <3>1, <2>1, <1>2, <1>3, <1>6 DEF Knows
  <2>6. CASE Dns(v) \/ Tls(v)
    <3>1. PICK k \in {2, 3} :
            place[v] \in {"dns", "tls"} /\ place'[v] = after(k) /\ UNCHANGED <<ask, seen>>
      BY <2>6, <1>4 DEF Dns, Tls, Move, after
    <3>2. QED
      BY <3>1, <2>1, <1>2, <1>3, <1>6 DEF Knows
  <2>7. CASE Public(v)
    <3>1. /\ place[v] = "public" /\ place'[v] = "verified" /\ UNCHANGED <<ask, seen>>
          /\ ask[v].rel \in Served
      BY <2>7, <1>4 DEF Public, Move, Fetched
    <3>2. QED
      BY <3>1, <2>1, <1>2, <1>3 DEF Knows
  <2>8. CASE VerifyFails(v)
    <3>1. place[v] # "idle" /\ place'[v] = "failed" /\ UNCHANGED <<ask, seen>>
      BY <2>8, <1>4 DEF VerifyFails, Move
    <3>2. QED
      BY <3>1, <2>1, <1>2, <1>3 DEF Knows
  <2>9. CASE VerifyReturns(v)
    <3>1. place'[v] = "idle" /\ seen'[v] = {}
      BY <2>9, <1>4 DEF VerifyReturns, Move
    <3>2. QED
      BY <3>1, <1>2, <1>3 DEF Knows
  <2>10. QED
    BY <2>2, <2>3, <2>4, <2>5, <2>6, <2>7, <2>8, <2>9 DEF VerifyStep
<1>9. ASSUME NEW w \in Verifiers PROVE Knows(w)'
  <2>1. CASE w = v
    BY <1>8, <2>1
  <2>2. CASE w # v
    BY <2>2, <1>2, <1>3, <1>7 DEF Knows
  <2>3. QED
    BY <2>1, <2>2
<1>10. QED
  BY <1>2, <1>7, <1>9 DEF VInv

LEMMA AlwaysVInv == VerifySpec => []VInv
<1>1. VerifySpec => []Typed
  BY VerifiersOnlyRead, TypesCorrect, PTL
<1>2. VInv /\ Typed' /\ [VerifyNext]_allVars => VInv'
  <2> SUFFICES ASSUME VInv, Typed', [VerifyNext]_allVars PROVE VInv'
    OBVIOUS
  <2>1. CASE UNCHANGED allVars
    BY <2>1 DEF allVars, vars, verifyVars, VInv, StoreInv, MarkedWhole, Uploading, At, Typed,
                VerifyTyped, Knows, Served, Current, Reads, Sees, Serialized
  <2>2. ASSUME NEW h \in setting.calls, StoreStep(h), UNCHANGED setting PROVE VInv'
    <3>1. h \in Calls
      BY StoreAssumption DEF VInv, StoreInv, Typed
    <3>2. QED
      BY <2>2, <3>1, StoreStepKeeps
  <2>3. ASSUME NEW v \in Verifiers, VerifyStep(v), UNCHANGED setting PROVE VInv'
    BY <2>3, VerifyStepKeeps
  <2>4. CASE CutOver
    BY <2>4 DEF CutOver, vars, VInv, StoreInv, MarkedWhole, Uploading, At, Typed,
                VerifyTyped, Knows, Served, Current, Reads, Sees, Serialized
  <2>5. QED
    BY <2>1, <2>2, <2>3, <2>4 DEF VerifyNext
<1>3. QED
  BY <1>1, <1>2, VInitially, PTL DEF VerifySpec

\* Whatever uploads and activations do meanwhile, a verified answer of a call
\* that fetched something speaks of a release that was served during the call,
\* which is still served where calls do not overlap; where release identifiers
\* are fresh its tree is there in full although no rung reads it.
THEOREM VerifiedReleasesAreServed == VerifySpec => []VerifiedIsServed
BY AlwaysVInv, VInvImplies, PTL

\* The types of the store and of the verifying calls beside it.
THEOREM VerifyTypes == VerifySpec => []VerifyTypeOK
<1>1. VerifySpec => []TypeOK
  BY VerifiersOnlyRead, StoreTypes, PTL
<1>2. TypeOK /\ VInv => VerifyTypeOK
  BY DEF VInv, VerifyTyped, VerifyTypeOK
<1>3. QED
  BY <1>1, <1>2, AlwaysVInv, PTL
===============================================================================
