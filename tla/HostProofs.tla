------------------------------ MODULE HostProofs ------------------------------
(***************************************************************************)
(* Theorems about the three handlers that set a host up, each for every    *)
(* value of its constants: its reverse proxy (ReverseProxyApply), its name *)
(* (DomainEnsure) and its certificate (SslLadder).  Each theorem is about  *)
(* one of the three specifications; they share no variable and no constant *)
(* but the names of things.                                                *)
(***************************************************************************)
EXTENDS ReverseProxyApply, DomainEnsure, SslLadder, FiniteSetTheorems, TLAPS
-------------------------------------------------------------------------------
(* The reverse proxy: what is served follows the files. *)

Budgets == {"runs", "faults", "breaks", "kills", "edits"}

\* Types; a call past the read has something to write.
Typed ==
    /\ conf \in [Hosts -> Content]
    /\ live \in [Hosts -> Content]
    /\ pc \in [Calls -> {"idle"} \cup Working \cup Ended]
    /\ req \in [Calls -> [host : Hosts, up : Upstreams]]
    /\ old \in [Calls -> Content]
    /\ rolled \in [Calls -> {"none", "ok", "no"}]
    /\ budget \in [Budgets -> Nat]
    /\ \A c \in Calls :
          pc[c] \in Commands \cup {"write", "readback", "restore"} => Merged(c) # old[c]

\* What the runner admits: how two working calls may lie.
Apart == \A c, d \in Calls :
    pc[c] \in Working /\ pc[d] \in Working /\ c # d =>
        Admits = "any" \/ (Admits = "host" /\ req[c].host # req[d].host)

\* A call that has rolled back finds its host as it had read it.
Restored == budget["edits"] = 0 => \A c \in Calls :
    pc[c] = "rebuild" => conf[req[c].host] = old[c]

\* No call was killed or cut off and no host was edited so far.
Quiet == budget["kills"] = 0 /\ budget["breaks"] = 0 /\ budget["edits"] = 0

\* Then nginx serves what the files say, but for the host of a call between
\* its write and its reload or its rollback, where it serves what was read.
Serves(c) ==
    /\ pc[c] \in {"read", "write", "readback", "rebuild"} => live = conf
    /\ pc[c] = "write" => conf[req[c].host] = old[c]
    /\ pc[c] = "readback" => conf[req[c].host] = Merged(c)
    /\ pc[c] = "rebuild" => conf[req[c].host] = old[c]
    /\ pc[c] \in Commands \cup {"restore"} =>
          /\ conf[req[c].host] = Merged(c)
          /\ live = [conf EXCEPT ![req[c].host] = old[c]]
InStep == Quiet =>
    /\ (\A c \in Calls : pc[c] \notin Working) => live = conf
    /\ \A c \in Calls : Serves(c)

\* What each place of a call leads to and what it may change.
LEMMA Spends ==
    ASSUME Typed, [Next]_vars
    PROVE  budget' \in [Budgets -> Nat] /\ \A what \in Budgets : budget'[what] >= budget[what]
<1>1. ASSUME NEW what \in Budgets, NEW max, Spend(what, max)
      PROVE  budget' \in [Budgets -> Nat] /\ \A w \in Budgets : budget'[w] >= budget[w]
  BY <1>1 DEF Typed, Spend
<1>2. {"runs", "faults", "breaks", "kills", "edits"} \subseteq Budgets
  BY DEF Budgets
<1>3. UNCHANGED budget =>
        budget' \in [Budgets -> Nat] /\ \A w \in Budgets : budget'[w] >= budget[w]
  BY DEF Typed
<1>4. ASSUME NEW c \in Calls, Begin(c) \/ Step(c) \/ Kill(c)
      PROVE  UNCHANGED budget \/ \E what \in Budgets, max \in Nat : Spend(what, max)
  BY <1>2, <1>4, ProxyAssumption
  DEF Begin, Step, Kill, Read, Write, ReadBack, Restore, Rebuild, Run, Fault, Break
<1>5. PanelEdit => \E what \in Budgets, max \in Nat : Spend(what, max)
  BY <1>2, ProxyAssumption DEF PanelEdit
<1>6. Finished \/ UNCHANGED vars => UNCHANGED budget
  BY DEF Finished, vars
<1>7. UNCHANGED budget \/ \E what \in Budgets, max \in Nat : Spend(what, max)
  BY <1>4, <1>5, <1>6 DEF Next
<1>8. QED
  BY <1>1, <1>3, <1>7

\* Types hold at the start, in every step, and so always.
LEMMA TypedInitially == Init => Typed
<1> SUFFICES ASSUME Init PROVE Typed
  OBVIOUS
<1>1. PICK rest \in [Hosts -> Directives] :
        conf = [h \in Hosts |-> [block |-> NoBlock, rest |-> rest[h]]]
  BY DEF Init
<1>2. conf \in [Hosts -> Content] /\ Missing \in Content
  BY <1>1 DEF Content, Missing, Directives
<1>3. QED
  BY <1>2 DEF Init, Typed, Budgets, Commands

LEMMA TypedKept == Typed /\ [Next]_vars => Typed'
<1> SUFFICES ASSUME Typed, [Next]_vars PROVE Typed'
  OBVIOUS
<1> USE DEF Goto, Proceeds, Fails, files, Working, Commands, Ended
<1>a. /\ conf \in [Hosts -> Content] /\ live \in [Hosts -> Content]
      /\ pc \in [Calls -> {"idle"} \cup Working \cup Ended]
      /\ req \in [Calls -> [host : Hosts, up : Upstreams]]
      /\ old \in [Calls -> Content]
      /\ rolled \in [Calls -> {"none", "ok", "no"}]
      /\ \A c \in Calls :
            pc[c] \in Commands \cup {"write", "readback", "restore"} => Merged(c) # old[c]
  BY DEF Typed
<1>b. budget' \in [Budgets -> Nat]
  BY Spends
<1>c. \A c \in Calls : Merged(c) \in Content
  BY <1>a DEF Merged, Merge, Content
<1>1. ASSUME NEW c \in Calls, Begin(c) PROVE Typed'
  <2>1. PICK h \in Hosts, u \in Upstreams : req' = [req EXCEPT ![c] = [host |-> h, up |-> u]]
    BY <1>1 DEF Begin
  <2>2. /\ UNCHANGED <<conf, live, old>> /\ pc' = [pc EXCEPT ![c] = "read"]
        /\ rolled' = [rolled EXCEPT ![c] = "none"]
    BY <1>1 DEF Begin
  <2>3. \A d \in Calls : d # c => (Merged(d)' = Merged(d) /\ pc'[d] = pc[d])
    BY <1>a, <2>1, <2>2 DEF Merged
  <2>4. QED
    BY <1>a, <1>b, <2>1, <2>2, <2>3 DEF Typed
<1>2. ASSUME NEW c \in Calls, Read(c) PROVE Typed'
  <2>1. PICK read \in Content : old' = [old EXCEPT ![c] = read]
    <3>1. Missing \in Content /\ conf[req[c].host] \in Content
      BY <1>a DEF Missing, Content, Directives
    <3>2. QED
      BY <1>2, <3>1 DEF Read
  <2>2. /\ UNCHANGED <<conf, live, req, rolled>>
        /\ pc' = [pc EXCEPT ![c] = IF Merge(old'[c], req[c].up) = old'[c]
                                   THEN "verified" ELSE "write"]
    BY <1>2 DEF Read
  <2>3. \A d \in Calls : d # c => (Merged(d)' = Merged(d) /\ old'[d] = old[d] /\ pc'[d] = pc[d])
    BY <1>a, <2>1, <2>2 DEF Merged
  <2>4. Merged(c)' = Merge(old'[c], req[c].up)
    BY <2>2 DEF Merged
  <2>5. old' \in [Calls -> Content] /\ pc' \in [Calls -> {"idle"} \cup Working \cup Ended]
    BY <1>a, <2>1, <2>2
  <2>6. pc'[c] \in Commands \cup {"write", "readback", "restore"} => Merged(c)' # old'[c]
    BY <1>a, <2>2, <2>4
  <2>7. QED
    BY <1>a, <1>b, <2>2, <2>3, <2>5, <2>6 DEF Typed
\* The other steps of a call leave its request and what it read alone.
<1>3. ASSUME NEW c \in Calls, UNCHANGED <<req, old>>,
             conf' \in [Hosts -> Content], live' \in [Hosts -> Content],
             rolled' \in [Calls -> {"none", "ok", "no"}],
             pc' \in [Calls -> {"idle"} \cup Working \cup Ended],
             \A d \in Calls : d # c => pc'[d] = pc[d],
             pc'[c] \in Commands \cup {"write", "readback", "restore"} =>
                 pc[c] \in Commands \cup {"write", "readback", "restore"}
      PROVE  Typed'
  BY <1>3, <1>a, <1>b DEF Typed, Merged
<1>4. ASSUME NEW c \in Calls, Write(c) PROVE Typed'
  <2>1. /\ conf' \in [Hosts -> Content] /\ UNCHANGED <<req, old, live, rolled>>
        /\ pc[c] = "write"
    BY <1>4, <1>a, <1>c DEF Write
  <2>2. \E place \in {"httpdmng", "raised"} : pc' = [pc EXCEPT ![c] = place]
    BY <1>4 DEF Write
  <2>3. QED
    BY <1>3, <1>a, <2>1, <2>2
<1>5. ASSUME NEW c \in Calls, NEW command \in Commands, Run(c, command) PROVE Typed'
  <2>1. After(command) \in Commands \cup {"readback"}
    BY DEF After
  <2>2. /\ live' \in [Hosts -> Content] /\ UNCHANGED <<req, old, conf, rolled>>
        /\ pc[c] = command
    BY <1>5, <1>a DEF Run
  <2>3. \E place \in Commands \cup {"readback", "restore", "raised"} :
          pc' = [pc EXCEPT ![c] = place]
    BY <1>5, <2>1 DEF Run
  <2>4. QED
    BY <1>3, <1>a, <2>2, <2>3
<1>6. ASSUME NEW c \in Calls, ReadBack(c) \/ Restore(c) \/ Rebuild(c) \/ Kill(c) PROVE Typed'
  <2>1. CASE Restore(c)
    <3>1. conf' = conf \/ conf' = [conf EXCEPT ![req[c].host] = old[c]]
      BY <2>1 DEF Restore
    <3>2. conf' \in [Hosts -> Content]
      BY <1>a, <3>1
    <3>3. /\ UNCHANGED <<req, old, live>> /\ pc[c] = "restore"
          /\ rolled' \in [Calls -> {"none", "ok", "no"}]
      BY <1>a, <2>1 DEF Restore
    <3>4. \E place \in {"rebuild", "failed"} : pc' = [pc EXCEPT ![c] = place]
      BY <2>1 DEF Restore
    <3>5. QED
      BY <1>3, <1>a, <3>2, <3>3, <3>4
  <2>2. CASE ReadBack(c) \/ Rebuild(c) \/ Kill(c)
    BY <1>3, <1>a, <2>2 DEF ReadBack, Rebuild, Kill
  <2>3. QED
    BY <1>6, <2>1, <2>2
<1>7. CASE PanelEdit
  <2>1. PICK h \in Hosts, rest \in Directives : conf' = [conf EXCEPT ![h].rest = rest]
    BY <1>7 DEF PanelEdit
  <2>2. [conf[h] EXCEPT !.rest = rest] \in Content
    <3>1. conf[h] \in Content
      BY <1>a
    <3>2. QED
      BY <3>1 DEF Content
  <2>3. conf' \in [Hosts -> Content]
    BY <1>a, <2>1, <2>2
  <2>4. QED
    BY <1>7, <1>a, <1>b, <2>3 DEF PanelEdit, Typed, Merged
<1>8. CASE UNCHANGED vars
  BY <1>8, <1>a, <1>b DEF vars, Typed, Merged
<1>9. QED
  BY <1>1, <1>2, <1>4, <1>5, <1>6, <1>7, <1>8 DEF Next, Step, Finished

LEMMA AlwaysTyped == Spec => []Typed
BY TypedInitially, TypedKept, PTL DEF Spec

\* Types for every setting, and a rollback is only attempted for a file that
\* the call had a reason to change (ensure_reverse_proxy).
THEOREM ProxyTypes == Spec => []TypeOK
<1>1. Typed => TypeOK
  BY DEF Typed, TypeOK
<1>2. QED
  BY <1>1, AlwaysTyped, PTL
-------------------------------------------------------------------------------
\* The runner keeps calls apart, and then a rolled back host stays as it was read.
LEMMA ApartKept == Typed /\ Apart /\ [Next]_vars => Apart'
<1> SUFFICES ASSUME Typed, Apart, [Next]_vars PROVE Apart'
  OBVIOUS
<1> USE DEF Goto, Proceeds, Fails, files
<1>a. pc \in [Calls -> {"idle"} \cup Working \cup Ended]
      /\ req \in [Calls -> [host : Hosts, up : Upstreams]]
  BY DEF Typed
<1>1. ASSUME NEW c \in Calls, Begin(c) PROVE Apart'
  <2>1. PICK h \in Hosts, u \in Upstreams :
          Admitted(h) /\ req' = [req EXCEPT ![c] = [host |-> h, up |-> u]]
    BY <1>1 DEF Begin
  <2>2. req'[c].host = h /\ \A d \in Calls : d # c => req'[d] = req[d] /\ pc'[d] = pc[d]
    BY <1>1, <1>a, <2>1 DEF Begin
  <2>3. QED
    BY <2>1, <2>2 DEF Admitted, Apart
<1>2. ASSUME NEW c \in Calls, Step(c) \/ Kill(c) PROVE Apart'
  <2>1. /\ pc[c] \in Working /\ UNCHANGED req
        /\ \A d \in Calls : d # c => pc'[d] = pc[d]
    BY <1>2, <1>a DEF Step, Kill, Read, Write, ReadBack, Restore, Rebuild, Run, Working
  <2>2. QED
    BY <2>1 DEF Apart
<1>3. CASE PanelEdit \/ UNCHANGED vars
  BY <1>3 DEF PanelEdit, vars, Apart
<1>4. QED
  BY <1>1, <1>2, <1>3 DEF Next, Finished

LEMMA RestoredKept ==
    ASSUME Admits # "any", Typed, Apart, Restored, [Next]_vars
    PROVE  Restored'
<1> USE DEF Goto, Proceeds, Fails, files
<1>a. /\ pc \in [Calls -> {"idle"} \cup Working \cup Ended]
      /\ req \in [Calls -> [host : Hosts, up : Upstreams]]
      /\ conf \in [Hosts -> Content] /\ old \in [Calls -> Content]
      /\ budget \in [Budgets -> Nat]
  BY DEF Typed
<1> SUFFICES ASSUME budget'["edits"] = 0, NEW d \in Calls, pc'[d] = "rebuild"
             PROVE  conf'[req'[d].host] = old'[d]
  BY DEF Restored
<1>1. budget["edits"] = 0
  BY <1>a, Spends DEF Budgets
<1>2. ~PanelEdit
  BY <1>1, <1>a DEF PanelEdit, Spend, Budgets
<1>3. pc[d] = "rebuild" => conf[req[d].host] = old[d]
  BY <1>1 DEF Restored
<1>4. ASSUME NEW c \in Calls, Begin(c) PROVE conf'[req'[d].host] = old'[d]
  <2>1. pc'[c] = "read" /\ UNCHANGED <<conf, old>>
        /\ \A e \in Calls : e # c => pc'[e] = pc[e] /\ req'[e] = req[e]
    BY <1>4, <1>a DEF Begin
  <2>2. QED
    BY <1>3, <2>1
<1>5. ASSUME NEW c \in Calls, Step(c) \/ Kill(c) PROVE conf'[req'[d].host] = old'[d]
  <2>1. /\ pc[c] \in Working /\ UNCHANGED req
        /\ \A e \in Calls : e # c => pc'[e] = pc[e] /\ old'[e] = old[e]
        /\ \A h \in Hosts : h # req[c].host => conf'[h] = conf[h]
        /\ pc'[c] = "rebuild" => conf'[req[c].host] = old[c] /\ UNCHANGED old
    <3>1. ASSUME NEW command \in Commands, Run(c, command)
          PROVE  pc'[c] # "rebuild"
      BY <1>a, <3>1 DEF Run, After, Commands
    <3>2. QED
      BY <1>5, <1>a, <3>1
      DEF Step, Kill, Read, Write, ReadBack, Restore, Rebuild, Run, Working, Commands
  <2>2. CASE d = c
    BY <2>1, <2>2
  <2>3. CASE d # c
    <3>1. pc[d] \in Working
      BY <2>1, <2>3 DEF Working
    <3>2. req[c].host # req[d].host /\ req[d].host \in Hosts
      BY <1>a, <2>1, <2>3, <3>1 DEF Apart
    <3>3. QED
      BY <1>3, <2>1, <2>3, <3>2
  <2>4. QED
    BY <2>2, <2>3
<1>6. CASE UNCHANGED vars
  BY <1>3, <1>6 DEF vars
<1>7. QED
  BY <1>2, <1>4, <1>5, <1>6 DEF Next, Finished

\* "Restores the previous file when apply fails", for every number of callers,
\* whatever commands fail, operations break and calls are killed, when the
\* runner lets no two calls work on one host (ensure_reverse_proxy: the rollback
\* of the except branch).
THEOREM ProxyFailureRestores ==
    ASSUME Admits # "any"
    PROVE  Spec => FailureRestores
<1>1. Init => Apart /\ Restored
  BY DEF Init, Apart, Restored, Working, Commands
<1>2. Typed /\ Restored /\ Restored' /\ [Next]_vars =>
        [Never("edits") =>
            \A c \in Calls : pc'[c] = "failed" /\ pc[c] \in Working /\ rolled'[c] # "no" =>
                conf'[req[c].host] = old'[c]]_vars
  <2> SUFFICES ASSUME Typed, Restored, Next, Never("edits"), NEW c \in Calls,
                      pc'[c] = "failed", pc[c] \in Working, rolled'[c] # "no"
               PROVE  conf'[req[c].host] = old'[c]
    BY DEF vars
  <2> USE DEF Goto, Proceeds, Fails, files
  <2>a. /\ pc \in [Calls -> {"idle"} \cup Working \cup Ended]
        /\ rolled \in [Calls -> {"none", "ok", "no"}] /\ budget \in [Budgets -> Nat]
    BY DEF Typed
  <2>1. budget["edits"] = 0
    BY <2>a, Spends DEF Never, Budgets
  <2>2. PICK d \in Calls : Begin(d) \/ Step(d) \/ Kill(d)
    BY DEF Next, PanelEdit, Finished, vars, Working, Commands
  <2>3. d = c
    BY <2>2, <2>a DEF Begin, Step, Kill, Read, Write, ReadBack, Restore, Rebuild, Run, Working,
                      Commands
  <2>4. ASSUME NEW command \in Commands, Run(c, command) PROVE pc'[c] # "failed"
    BY <2>a, <2>4 DEF Run, After, Commands
  <2>5. Rebuild(c)
    BY <2>2, <2>3, <2>4, <2>a DEF Begin, Step, Kill, Read, Write, ReadBack, Restore, Rebuild
  <2>6. pc[c] = "rebuild" /\ UNCHANGED <<conf, req, old>>
    BY <2>5 DEF Rebuild
  <2>7. QED
    BY <2>1, <2>6 DEF Restored
<1>3. Typed /\ Apart /\ Restored /\ [Next]_vars => Apart' /\ Restored'
  BY ApartKept, RestoredKept
<1>4. QED
  BY <1>1, <1>2, <1>3, AlwaysTyped, PTL DEF Spec, FailureRestores

-------------------------------------------------------------------------------
\* What is quiet after a step was quiet before it.
LEMMA QuietBefore ==
    ASSUME Typed, [Next]_vars, Quiet'
    PROVE  Quiet /\ ~PanelEdit /\ ~Break /\ \A c \in Calls : ~Kill(c)
<1>1. budget \in [Budgets -> Nat] /\ {"kills", "breaks", "edits"} \subseteq Budgets
  BY DEF Typed, Budgets
<1>2. Quiet
  BY <1>1, Spends DEF Quiet
<1>3. ASSUME NEW what \in {"kills", "breaks", "edits"}, NEW max, Spend(what, max) PROVE FALSE
  BY <1>1, <1>2, <1>3 DEF Spend, Quiet
<1>4. QED
  BY <1>2, <1>3 DEF PanelEdit, Break, Kill

\* With one call at a time what nginx serves follows the files.
LEMMA InStepKept ==
    ASSUME Admits = "one", Typed, Apart, InStep, [Next]_vars
    PROVE  InStep'
<1> SUFFICES ASSUME Quiet'
             PROVE  /\ (\A c \in Calls : pc'[c] \notin Working) => live' = conf'
                    /\ \A c \in Calls : Serves(c)'
  BY DEF InStep
<1> USE DEF Goto, Proceeds, Fails, files
<1>a. /\ pc \in [Calls -> {"idle"} \cup Working \cup Ended]
      /\ req \in [Calls -> [host : Hosts, up : Upstreams]]
      /\ conf \in [Hosts -> Content] /\ live \in [Hosts -> Content]
      /\ old \in [Calls -> Content]
  BY DEF Typed
<1>b. Quiet /\ ~PanelEdit /\ ~Break /\ \A c \in Calls : ~Kill(c)
  BY QuietBefore
<1>c. /\ (\A c \in Calls : pc[c] \notin Working) => live = conf
      /\ \A c \in Calls : Serves(c)
  BY <1>b DEF InStep
<1>d. Working = {"read", "write", "readback", "restore", "rebuild", "httpdmng", "test", "reload"}
      /\ Commands = {"httpdmng", "test", "reload"}
  BY DEF Working, Commands
\* A step of one call, when no other works.
<1>1. ASSUME NEW c \in Calls, \A d \in Calls : d # c => pc[d] \notin Working /\ pc'[d] = pc[d],
             Serves(c)', pc'[c] \notin Working => live' = conf'
      PROVE  InStep'
  <2>1. ASSUME NEW d \in Calls, d # c PROVE Serves(d)'
    BY <1>1, <1>d, <2>1 DEF Serves
  <2>2. QED
    BY <1>1, <2>1 DEF InStep
<1>2. ASSUME NEW c \in Calls, Begin(c) PROVE InStep'
  <2>1. \A d \in Calls : pc[d] \notin Working
    BY <1>2 DEF Begin, Admitted
  <2>2. /\ pc'[c] = "read" /\ UNCHANGED <<conf, live>> /\ \A d \in Calls : d # c => pc'[d] = pc[d]
    BY <1>2, <1>a DEF Begin
  <2>3. Serves(c)'
    BY <1>c, <1>d, <2>1, <2>2 DEF Serves
  <2>4. QED
    BY <1>1, <1>d, <2>1, <2>2, <2>3
<1>3. ASSUME NEW c \in Calls, Step(c) PROVE InStep'
  <2>1. pc[c] \in Working
    BY <1>3, <1>d DEF Step, Read, Write, ReadBack, Restore, Rebuild, Run
  <2>2. \A d \in Calls : d # c => pc[d] \notin Working /\ pc'[d] = pc[d]
    BY <1>3, <1>a, <2>1 DEF Apart, Step, Read, Write, ReadBack, Restore, Rebuild, Run
  <2>3. Serves(c) /\ req[c].host \in Hosts /\ old[c] \in Content
    BY <1>a, <1>c
  <2>4. CASE Read(c)
    <3>1. /\ UNCHANGED <<conf, live, req>> /\ old'[c] = conf[req[c].host] /\ pc[c] = "read"
          /\ pc'[c] \in {"verified", "write"}
      BY <1>a, <1>b, <2>4 DEF Read
    <3>2. live = conf
      BY <2>3, <3>1 DEF Serves
    <3>3. QED
      BY <1>1, <1>d, <2>2, <3>1, <3>2 DEF Serves
  <2>5. CASE Write(c)
    <3>1. /\ UNCHANGED <<live, req, old>> /\ conf' = [conf EXCEPT ![req[c].host] = Merged(c)]
          /\ pc[c] = "write" /\ pc'[c] = "httpdmng"
      BY <1>a, <1>b, <2>5 DEF Write
    <3>2. live = conf /\ conf[req[c].host] = old[c]
      BY <2>3, <3>1 DEF Serves
    <3>3. conf'[req[c].host] = Merged(c) /\ live = [conf' EXCEPT ![req[c].host] = old[c]]
      BY <1>a, <2>3, <3>1, <3>2
    <3>4. Merged(c)' = Merged(c)
      BY <3>1 DEF Merged
    <3>5. Serves(c)'
      BY <1>d, <3>1, <3>3, <3>4 DEF Serves
    <3>6. QED
      BY <1>1, <1>d, <2>2, <3>1, <3>5
  <2>6. ASSUME NEW command \in Commands, Run(c, command) PROVE InStep'
    <3>1. /\ UNCHANGED <<conf, req, old>> /\ pc[c] = command
          /\ \/ pc'[c] = After(command) /\ live' = IF command = "reload" THEN conf ELSE live
             \/ pc'[c] = "restore" /\ live' = live
      BY <1>a, <1>b, <2>6 DEF Run
    <3>2. conf[req[c].host] = Merged(c) /\ live = [conf EXCEPT ![req[c].host] = old[c]]
      BY <2>3, <3>1 DEF Serves
    <3>3. Merged(c)' = Merged(c)
      BY <3>1 DEF Merged
    <3>4. /\ command = "httpdmng" => After(command) = "test"
          /\ command = "test" => After(command) = "reload"
          /\ command = "reload" => After(command) = "readback"
      BY DEF After
    <3>5. \/ pc'[c] \in {"test", "reload", "restore"} /\ live' = live
          \/ pc'[c] = "readback" /\ live' = conf
      BY <1>d, <3>1, <3>4
    <3>6. Serves(c)'
      BY <1>d, <3>1, <3>2, <3>3, <3>5 DEF Serves
    <3>7. QED
      BY <1>1, <1>d, <2>2, <3>5, <3>6
  <2>7. CASE ReadBack(c)
    <3>1. /\ UNCHANGED <<conf, live, req, old>> /\ pc[c] = "readback"
          /\ pc'[c] = IF conf[req[c].host] = Merged(c) THEN "verified" ELSE "restore"
      BY <1>a, <1>b, <2>7 DEF ReadBack
    <3>2. live = conf /\ conf[req[c].host] = Merged(c)
      BY <2>3, <3>1 DEF Serves
    <3>3. QED
      BY <1>1, <1>d, <2>2, <3>1, <3>2 DEF Serves
  <2>8. CASE Restore(c)
    <3>1. /\ UNCHANGED <<live, req, old>> /\ conf' = [conf EXCEPT ![req[c].host] = old[c]]
          /\ pc[c] = "restore" /\ pc'[c] = "rebuild"
      BY <1>a, <1>b, <2>8 DEF Restore
    <3>2. live = [conf EXCEPT ![req[c].host] = old[c]]
      BY <2>3, <3>1, <1>d DEF Serves
    <3>3. live' = conf' /\ conf'[req[c].host] = old[c]
      BY <1>a, <2>3, <3>1, <3>2
    <3>4. QED
      BY <1>1, <1>d, <2>2, <3>1, <3>3 DEF Serves
  <2>9. CASE Rebuild(c)
    <3>1. UNCHANGED <<conf, live, req, old>> /\ pc[c] = "rebuild" /\ pc'[c] = "failed"
      BY <1>a, <2>9 DEF Rebuild
    <3>2. live = conf
      BY <2>3, <3>1 DEF Serves
    <3>3. QED
      BY <1>1, <1>d, <2>2, <3>1, <3>2 DEF Serves
  <2>10. QED
    BY <1>3, <2>4, <2>5, <2>6, <2>7, <2>8, <2>9 DEF Step
<1>4. UNCHANGED vars => InStep'
  BY <1>b, <1>c DEF vars, InStep, Serves, Merged
<1>5. InStep'
  BY <1>b, <1>2, <1>3, <1>4 DEF Next, Finished
<1>6. QED
  BY <1>5 DEF InStep

\* Both at all times.
LEMMA AlwaysInStep ==
    ASSUME Admits = "one"
    PROVE  Spec => []InStep
<1>1. Init => Apart /\ InStep
  BY DEF Init, Apart, InStep, Serves, Working, Commands
<1>2. Typed /\ Apart /\ InStep /\ [Next]_vars => Apart' /\ InStep'
  BY ApartKept, InStepKept
<1>3. QED
  BY <1>1, <1>2, AlwaysTyped, PTL DEF Spec

\* How a call ends undisturbed.
LEMMA QuietEnds ==
    ASSUME Typed, InStep, Next, Undisturbed, NEW c \in Calls,
           pc'[c] \in {"verified", "failed"}, pc'[c] # pc[c]
    PROVE  /\ live = conf
           /\ pc'[c] = "verified" => conf[req[c].host].block = req[c].up
           /\ pc'[c] = "failed" => conf[req[c].host] = old[c]
<1> USE DEF Goto, Proceeds, Fails, files
<1>a. /\ pc \in [Calls -> {"idle"} \cup Working \cup Ended]
      /\ req \in [Calls -> [host : Hosts, up : Upstreams]]
      /\ conf \in [Hosts -> Content] /\ old \in [Calls -> Content]
  BY DEF Typed
<1>b. ~PanelEdit /\ ~Break /\ Serves(c) /\ \A d \in Calls : ~Kill(d)
  BY QuietBefore DEF Undisturbed, Never, Quiet, InStep
<1>1. PICK d \in Calls : Begin(d) \/ Step(d)
  BY <1>b DEF Next, Finished, vars
<1>2. d = c /\ ~Begin(d)
  BY <1>1, <1>a DEF Begin, Step, Read, Write, ReadBack, Restore, Rebuild, Run
<1>3. ASSUME NEW content \in Content, NEW up \in Upstreams
      PROVE  Merge(content, up).block = up
  BY <1>3 DEF Merge, Content
<1>4. ASSUME NEW command \in Commands, Run(c, command) PROVE FALSE
  BY <1>4, <1>a, <1>b DEF Run, After, Commands
<1>5. CASE Read(c)
  <2>1. /\ live = conf /\ pc'[c] = "verified"
        /\ Merge(conf[req[c].host], req[c].up) = conf[req[c].host]
    BY <1>5, <1>a, <1>b DEF Read, Serves
  <2>2. QED
    BY <1>3, <1>a, <2>1
<1>6. CASE ReadBack(c)
  <2>1. live = conf /\ pc'[c] = "verified" /\ conf[req[c].host] = Merged(c)
    BY <1>6, <1>a, <1>b DEF ReadBack, Serves
  <2>2. QED
    BY <1>3, <1>a, <2>1 DEF Merged
<1>7. CASE Rebuild(c)
  BY <1>7, <1>a, <1>b DEF Rebuild, Serves
<1>8. QED
  BY <1>1, <1>2, <1>4, <1>5, <1>6, <1>7, <1>a, <1>b DEF Step, Write, Restore

\* One call at a time: an answer "verified" is given only while nginx serves
\* the wanted upstream on that host (ensure_reverse_proxy: nginx -t, the reload
\* and the read-back before the answer).
THEOREM ProxyVerifiedIsLive ==
    ASSUME Admits = "one"
    PROVE  Spec => VerifiedIsLive
<1>1. Typed /\ InStep /\ [Next]_vars =>
        [Undisturbed =>
            \A c \in Calls : pc'[c] = "verified" /\ pc[c] # "verified" =>
                live[req[c].host].block = req[c].up]_vars
  BY QuietEnds
<1>2. QED
  BY <1>1, AlwaysTyped, AlwaysInStep, PTL DEF Spec, VerifiedIsLive

\* One call at a time: a call that fails does not change what nginx serves on
\* its host (nothing is reloaded after a failure, and the rollback comes before
\* the next call reads).
THEOREM ProxyFailureNotServed ==
    ASSUME Admits = "one"
    PROVE  Spec => FailureNotServed
<1>1. Typed /\ InStep /\ [Next]_vars =>
        [Undisturbed =>
            \A c \in Calls : pc'[c] = "failed" /\ pc[c] # "failed" =>
                live[req[c].host].block = old[c].block]_vars
  BY QuietEnds
<1>2. QED
  BY <1>1, AlwaysTyped, AlwaysInStep, PTL DEF Spec, FailureNotServed
-------------------------------------------------------------------------------
(* The name: a lone caller counts before it adds. *)

\* What the environment of a domain or subdomain ensure may do, and how often it
\* has done so.
Counters == {"rejects", "lost", "kills", "edits"}
Counts == [Counters -> Nat]

\* A step spends at most one of them once.
LEMMA EnsureSpends ==
    ASSUME spent \in Counts, UNCHANGED spent \/ \E what \in Counters : Happens(what)
    PROVE  spent' \in Counts
<1>1. ASSUME NEW what \in Counters, Happens(what) PROVE spent' \in Counts
  <2>1. spent[what] + 1 \in Nat
    BY DEF Counts
  <2> QED
    BY <1>1, <2>1 DEF Happens, Counts
<1> QED
  BY <1>1 DEF Counts

\* Types for every setting; and only an applying call adds.
EnsureInv ==
    /\ EnsureTypeOK
    /\ spent \in Counts
    /\ \A c \in Callers : at[c] = "add" => job[c].apply

\* The invariant holds at the start.
LEMMA EnsureInitially ==
    ASSUME EnsureInit
    PROVE  EnsureInv
<1>1. spent \in Counts
  BY DEF EnsureInit, Counts, Counters
<1> QED
  BY <1>1, EnsureAssumption DEF EnsureInit, EnsureInv, EnsureTypeOK, Resting, Busy

\* What a step of a call may do: which place it goes to, and from where.
EnsureMoves(c) ==
    /\ \E to \in {"ok"} \cup Busy \cup Resting :
          /\ MoveTo(c, to)
          /\ to \in {"limits", "count"} => job[c].kind = "domain"
          /\ to = "verify" => job[c].kind = "subdomain" /\ job[c].apply
          /\ to = "add" => job[c].apply
    /\ at[c] # "ok"
    /\ \/ UNCHANGED created
       \/ created' = created \cup {c} /\ MoveTo(c, "ok") /\ job[c].apply
    /\ misread' \in {misread, misread \cup {c}, misread \ {c}}
    /\ holder' = holder \/ (Adds(c) /\ at[c] = "add")
    /\ UNCHANGED spent \/ \E what \in Counters : Happens(what)

\* Every action of a caller is such a step.
LEMMA EnsureStepMoves ==
    ASSUME EnsureInv, NEW c \in setting.callers, EnsureStep(c) \/ EnsureKill(c)
    PROVE  EnsureMoves(c)
<1> USE DEF Busy, Resting, Continues, Succeeds, GivesUp, Reject, Lose,
            Counters
<1>a. /\ at \in [Callers -> {"ok"} \cup Busy \cup Resting]
      /\ c \in Callers /\ job \in [Callers -> Job] /\ job[c].kind \in Kinds
      /\ (at[c] \in {"limits", "count"} => job[c].kind = "domain")
      /\ (at[c] = "verify" => job[c].kind = "subdomain" /\ job[c].apply)
      /\ (at[c] = "add" => job[c].apply)
  BY EnsureAssumption DEF EnsureInv, EnsureTypeOK, Job
<1>1. CASE EnsureBegin(c)
  BY <1>1, <1>a DEF EnsureBegin, EnsureMoves
<1>2. CASE Look(c)
  BY <1>2, <1>a DEF Look, EnsureMoves, Kinds
<1>3. CASE AskLimits(c)
  BY <1>3, <1>a DEF AskLimits, EnsureMoves
<1>4. CASE Count(c)
  BY <1>4, <1>a DEF Count, EnsureMoves
<1>5. CASE Ready(c)
  BY <1>5, <1>a DEF Ready, EnsureMoves
<1>6. CASE Add(c)
  BY <1>6, <1>a DEF Add, AddRefused, EnsureMoves, Kinds
<1>7. CASE Verify(c)
  BY <1>7, <1>a DEF Verify, EnsureMoves
<1>8. CASE EnsureKill(c)
  BY <1>8, <1>a DEF EnsureKill, EnsureMoves
<1> QED
  BY <1>1, <1>2, <1>3, <1>4, <1>5, <1>6, <1>7, <1>8 DEF EnsureStep

\* Such a step keeps the invariant.
LEMMA EnsureMovesKeep ==
    ASSUME EnsureInv, NEW c \in setting.callers, EnsureMoves(c), UNCHANGED fixed
    PROVE  EnsureInv'
<1>a. /\ c \in Callers /\ at \in [Callers -> {"ok"} \cup Busy \cup Resting]
      /\ setting' = setting /\ job' = job /\ job[c] \in Job
  BY EnsureAssumption DEF EnsureInv, EnsureTypeOK, fixed
<1>1. PICK to \in {"ok"} \cup Busy \cup Resting :
          /\ MoveTo(c, to)
          /\ to \in {"limits", "count"} => job[c].kind = "domain"
          /\ to = "verify" => job[c].kind = "subdomain" /\ job[c].apply
          /\ to = "add" => job[c].apply
  BY DEF EnsureMoves
<1>2. /\ at' \in [Callers -> {"ok"} \cup Busy \cup Resting] /\ at'[c] = to
      /\ \A d \in Callers : d # c => at'[d] = at[d]
  BY <1>1, <1>a DEF MoveTo
<1>3. spent' \in Counts
  BY EnsureSpends DEF EnsureInv, EnsureMoves
<1>4. holder' \in [Names -> Holder \cup {None}]
  <2>1. Wanted(c) \in Holder /\ job[c].name \in Names
    BY <1>a DEF Wanted, Holder, Job
  <2> QED
    BY <2>1 DEF EnsureMoves, Adds, EnsureInv, EnsureTypeOK
<1>5. {created', misread'} \subseteq SUBSET Callers
  BY <1>a DEF EnsureMoves, EnsureInv, EnsureTypeOK
<1>6. \A d \in created' : at'[d] = "ok" /\ job[d].apply
  <2>1. \A d \in created : d # c /\ d \in Callers
    BY DEF EnsureMoves, EnsureInv, EnsureTypeOK
  <2>2. \/ created' = created
        \/ created' = created \cup {c} /\ MoveTo(c, "ok") /\ job[c].apply
    BY DEF EnsureMoves
  <2>3. MoveTo(c, "ok") => at'[c] = "ok"
    BY <1>a DEF MoveTo
  <2> QED
    BY <1>2, <2>1, <2>2, <2>3 DEF EnsureInv, EnsureTypeOK
<1>7. \A d \in Callers :
        /\ at'[d] \in {"limits", "count"} => job[d].kind = "domain"
        /\ at'[d] = "verify" => job[d].kind = "subdomain" /\ job[d].apply
        /\ at'[d] = "add" => job[d].apply
  BY <1>1, <1>2 DEF EnsureInv, EnsureTypeOK
<1> QED
  BY <1>a, <1>2, <1>3, <1>4, <1>5, <1>6, <1>7 DEF EnsureInv, EnsureTypeOK

\* So does every step, a panel edit included.
LEMMA EnsureTypesKept == EnsureInv /\ [EnsureNext]_ensureVars => EnsureInv'
<1> SUFFICES ASSUME EnsureInv, [EnsureNext]_ensureVars PROVE EnsureInv'
  OBVIOUS
<1>1. ASSUME NEW c \in setting.callers, EnsureStep(c) \/ EnsureKill(c), UNCHANGED fixed
      PROVE  EnsureInv'
  BY <1>1, EnsureStepMoves, EnsureMovesKeep
<1>2. CASE NameEdit /\ UNCHANGED fixed
  <2>1. spent' \in Counts
    BY <1>2, EnsureSpends DEF NameEdit, EnsureInv, Counters
  <2>2. holder' \in [Names -> Holder \cup {None}]
    BY <1>2 DEF NameEdit, EnsureInv, EnsureTypeOK
  <2> QED
    BY <1>2, <2>1, <2>2 DEF NameEdit, EnsureInv, EnsureTypeOK, fixed
<1>3. CASE UNCHANGED ensureVars
  BY <1>3 DEF ensureVars, fixed, EnsureInv, EnsureTypeOK
<1> QED
  BY <1>1, <1>2, <1>3 DEF EnsureNext, EnsureFinished

\* The subscription a call is for, and the domains that it holds.
Subscription(c) == job[c].subscription
Held(c) == Domains(Subscription(c))

\* A lone caller about to add a domain has counted the domains that are there.
Counted(c) ==
    /\ Alone(c) /\ c \notin misread
    /\ job[c].kind = "domain" /\ at[c] \in {"ready", "add"}
    => Room(Subscription(c), Cardinality(Held(c)))

\* A subscription holds finitely many domains.
LEMMA HeldCounts ==
    ASSUME EnsureInv, NEW c \in Callers
    PROVE  Cardinality(Held(c)) \in Nat
<1>1. Held(c) \in SUBSET Names
  BY DEF Held, Domains
<1> QED
  BY <1>1, FS_Subset, FS_CardinalityType, EnsureAssumption DEF EnsureInv

\* Adding raises the number of domains of the subscription by at most one, and
\* only for a domain: a subdomain does not count (ensure_domain, ensure_subdomain).
LEMMA OneDomainMore ==
    ASSUME EnsureInv, NEW c \in Callers, Adds(c), UNCHANGED fixed
    PROVE  /\ Cardinality(Held(c)) \in Nat /\ Cardinality(Held(c)') \in Nat
           /\ Cardinality(Held(c)') > Cardinality(Held(c)) =>
                 /\ job[c].kind = "domain"
                 /\ Cardinality(Held(c)') = Cardinality(Held(c)) + 1
<1> DEFINE n == job[c].name
           S == Held(c)
           T == Held(c)'
<1>1. IsFiniteSet(S) /\ IsFiniteSet(T)
  <2>1. S \in SUBSET Names /\ T \in SUBSET Names
    BY DEF Held, Domains
  <2> QED
    BY <2>1, FS_Subset, EnsureAssumption DEF EnsureInv
<1>2. Cardinality(S) \in Nat /\ Cardinality(T) \in Nat
  BY <1>1, FS_CardinalityType
<1>3. job' = job /\ job[c] \in Job /\ n \in Names
  BY DEF fixed, EnsureInv, EnsureTypeOK, Job
<1>4. /\ holder'[n] = Wanted(c)
      /\ \A m \in Names : m # n => holder'[m] = holder[m]
  BY <1>3 DEF Adds, EnsureInv, EnsureTypeOK
<1>5. CASE job[c].kind = "domain"
  <2>1. T = S \cup {n}
    BY <1>3, <1>4, <1>5 DEF Held, Subscription, Domains, Wanted
  <2>2. Cardinality(S \cup {n}) = IF n \in S THEN Cardinality(S)
                                                   ELSE Cardinality(S) + 1
    BY <1>1, FS_AddElement
  <2> QED
    BY <1>2, <1>5, <2>1, <2>2
<1>6. CASE job[c].kind # "domain"
  <2>1. T \in SUBSET S
    BY <1>3, <1>4, <1>6 DEF Held, Subscription, Domains, Wanted
  <2>2. Cardinality(T) <= Cardinality(S)
    BY <1>1, <2>1, FS_Subset
  <2> QED
    BY <1>2, <2>2
<1> QED
  BY <1>2, <1>5, <1>6

\* Where a caller is alone and the panel is left alone, every step is its own.
LEMMA AloneActs ==
    ASSUME EnsureInv, NEW c \in Callers, Alone(c), [EnsureNext]_ensureVars
    PROVE  /\ UNCHANGED fixed /\ Alone(c)'
           /\ EnsureStep(c) \/ EnsureKill(c) \/ UNCHANGED ensureVars
<1>1. ~NameEdit
  <2>1. spent["edits"] \in Nat /\ setting["edits"] = 0
    BY DEF EnsureInv, Counts, Counters, Alone
  <2> QED
    BY <2>1 DEF NameEdit, Happens
<1>2. UNCHANGED fixed
  BY DEF EnsureNext, ensureVars
<1> QED
  BY <1>1, <1>2 DEF Alone, EnsureNext, EnsureFinished, fixed

\* The count of a lone caller stays right from the count to the add.
LEMMA CountedKept ==
    ASSUME EnsureInv, NEW c \in Callers, Counted(c), [EnsureNext]_ensureVars
    PROVE  Counted(c)'
<1> USE DEF Busy, Resting, Continues, Succeeds, GivesUp
<1> SUFFICES ASSUME Alone(c)' PROVE Counted(c)'
  BY DEF Counted
<1>1. UNCHANGED fixed
  BY DEF EnsureNext, ensureVars
<1>2. Alone(c) /\ c \in setting.callers
  BY <1>1 DEF Alone, fixed
<1>3. EnsureStep(c) \/ EnsureKill(c) \/ UNCHANGED ensureVars
  BY <1>2, AloneActs
<1>a. /\ at \in [Callers -> {"ok"} \cup Busy \cup Resting]
      /\ job' = job /\ limit' = limit /\ denied' = denied
  BY <1>1 DEF EnsureInv, EnsureTypeOK, fixed
<1>b. UNCHANGED holder => Held(c)' = Held(c)
  BY <1>a DEF Held, Domains, Subscription
<1> DEFINE Fits(n) == /\ Subscription(c) \notin denied
                      /\ \/ limit[Subscription(c)] = Unlimited
                         \/ limit[Subscription(c)] \in Nat /\ n < limit[Subscription(c)]
<1> SUFFICES ASSUME c \notin misread', job[c].kind = "domain", at'[c] \in {"ready", "add"}
             PROVE  Fits(Cardinality(Held(c)'))
  BY <1>a DEF Counted, Room, Subscription
<1>c. c \notin misread /\ at[c] \in {"ready", "add"} => Fits(Cardinality(Held(c)))
  BY <1>2 DEF Counted, Room
<1>4. CASE UNCHANGED ensureVars
  BY <1>4, <1>b, <1>c DEF ensureVars
<1>5. CASE Count(c)
  <2>1. Room(Subscription(c), Cardinality(Held(c))) /\ UNCHANGED holder
    <3>1. c \in misread' \/ UNCHANGED misread
      BY <1>5 DEF Count
    <3> QED
      BY <1>5, <1>a DEF Count, MoveTo, Held, Subscription
  <2> QED
    BY <1>b, <2>1 DEF Room
<1>6. CASE Ready(c)
  BY <1>6, <1>a, <1>b, <1>c DEF Ready, MoveTo
<1>7. CASE \/ EnsureBegin(c) \/ Look(c) \/ AskLimits(c)
           \/ Add(c) \/ Verify(c) \/ EnsureKill(c)
  <2>1. at'[c] \notin {"ready", "add"}
    BY <1>7, <1>a DEF EnsureBegin, Look, AskLimits, Add,
                      AddRefused, Verify, EnsureKill, MoveTo
  <2> QED
    BY <2>1
<1> QED
  BY <1>3, <1>4, <1>5, <1>6, <1>7 DEF EnsureStep

\* Both parts together, at all times.
LEMMA AlwaysCounted == EnsureSpec => [](EnsureInv /\ \A c \in Callers : Counted(c))
<1>1. EnsureInit => EnsureInv /\ \A c \in Callers : Counted(c)
  BY EnsureInitially DEF EnsureInit, Counted
<1>2. EnsureInv /\ (\A c \in Callers : Counted(c)) /\ [EnsureNext]_ensureVars =>
        (\A c \in Callers : Counted(c))'
  BY CountedKept
<1> QED
  BY <1>1, <1>2, EnsureTypesKept, PTL DEF EnsureSpec

\* Types for every setting; limits are asked and domains counted only for a
\* domain, and only a call that applied reports a name as created
\* (ensure_domain, ensure_subdomain).
THEOREM EnsureTypes == EnsureSpec => []EnsureTypeOK
<1>1. EnsureInv => EnsureTypeOK
  BY DEF EnsureInv
<1> QED
  BY <1>1, AlwaysCounted, PTL

\* A caller that is alone, with the panel left alone and its answers read for
\* what they are, never adds a domain to a subscription that may not have one,
\* whose limit it could not learn, or that is full: for every set of names,
\* limits and denials (ensure_domain: the gate on permission and limit in front
\* of the add).
THEOREM DomainsAddedWithRoom == EnsureSpec => AddedWithRoom
<1>1. ASSUME EnsureInv, NEW c \in Callers \ misread, Counted(c), EnsureNext, Alone(c),
             Cardinality(Held(c)') > Cardinality(Held(c))
      PROVE  /\ Subscription(c) \notin denied /\ limit[Subscription(c)] # Unknown
             /\ limit[Subscription(c)] # Unlimited =>
                    Cardinality(Held(c)') <= limit[Subscription(c)]
  <2>1. UNCHANGED fixed /\ (EnsureStep(c) \/ EnsureKill(c) \/ UNCHANGED ensureVars)
    BY <1>1, AloneActs
  <2>2. UNCHANGED holder \/ (Adds(c) /\ at[c] = "add")
    <3>1. c \in setting.callers
      BY <1>1 DEF Alone
    <3>2. ASSUME EnsureStep(c) \/ EnsureKill(c)
          PROVE  UNCHANGED holder \/ (Adds(c) /\ at[c] = "add")
      BY <1>1, <3>1, <3>2, EnsureStepMoves DEF EnsureMoves
    <3> QED
      BY <2>1, <3>2 DEF ensureVars
  <2>3. ~UNCHANGED holder
    <3>1. UNCHANGED holder => Held(c)' = Held(c)
      BY <2>1 DEF fixed, Held, Domains, Subscription
    <3>2. Cardinality(Held(c)) \in Nat
      BY <1>1, HeldCounts
    <3> QED
      BY <1>1, <3>1, <3>2
  <2>4. job[c].kind = "domain" /\ Cardinality(Held(c)') = Cardinality(Held(c)) + 1
        /\ Cardinality(Held(c)) \in Nat
    BY <1>1, <2>1, <2>2, <2>3, OneDomainMore
  <2>5. Room(Subscription(c), Cardinality(Held(c)))
    BY <1>1, <2>2, <2>3, <2>4 DEF Counted
  <2> DEFINE s == Subscription(c)
  <2>6. limit[s] # Unlimited => limit[s] \in Nat /\ Cardinality(Held(c)) < limit[s]
    BY <2>5 DEF Room
  <2>7. limit[s] # Unknown
    BY <1>1, <2>6, EnsureAssumption DEF EnsureInv
  <2>8. s \notin denied
    BY <2>5 DEF Room
  <2> QED
    BY <2>4, <2>6, <2>7, <2>8
<1>2. (EnsureInv /\ \A c \in Callers : Counted(c)) /\ [EnsureNext]_ensureVars =>
        [\A c \in Callers \ misread :
            LET s == job[c].subscription
            IN  Alone(c) /\ Cardinality(Domains(s)') > Cardinality(Domains(s)) =>
                    /\ s \notin denied /\ limit[s] # Unknown
                    /\ limit[s] # Unlimited => Cardinality(Domains(s)') <= limit[s]]_ensureVars
  <2> SUFFICES ASSUME EnsureInv, EnsureNext, NEW c \in Callers \ misread, Counted(c),
                      Alone(c), Cardinality(Domains(job[c].subscription)')
                                    > Cardinality(Domains(job[c].subscription))
               PROVE  LET s == job[c].subscription
                      IN  /\ s \notin denied /\ limit[s] # Unknown
                          /\ limit[s] # Unlimited => Cardinality(Domains(s)') <= limit[s]
    BY DEF ensureVars
  <2> QED
    BY <1>1 DEF Held, Subscription
<1> QED
  BY <1>2, AlwaysCounted, PTL DEF EnsureSpec, AddedWithRoom
-------------------------------------------------------------------------------
(* The certificate: each call that ends ok leaves the host covered. *)

\* The stages of the ladder, as places (ensure_ssl).
Stages == {"assign", "pem", "self", "le", "rest"}

\* The next stage is a later one that the mode runs, or there is none.
LEMMA StageIsLater ==
    ASSUME NEW c \in SslCalls, NEW k \in 0..4
    PROVE  \/ StageAfter(c, k) = "failed"
           \/ /\ StageAfter(c, k) \in Stages
              /\ Runs(asked[c].mode, StageAfter(c, k))
              /\ k > 0 => StageAfter(c, k) # "assign"
<1> DEFINE left == {j \in 1..5 : j > k /\ Runs(asked[c].mode, Ladder[j])}
           first == CHOOSE j \in left : \A i \in left : j <= i
<1>1. CASE left = {}
  BY <1>1 DEF StageAfter
<1>2. CASE left # {}
  <2>1. \E j \in left : \A i \in left : j <= i
    <3> HIDE DEF left
    <3>1. left \subseteq 1..5
      BY DEF left
    <3>3. CASE 1 \in left
      BY <3>1, <3>3
    <3>4. CASE 1 \notin left /\ 2 \in left
      BY <3>1, <3>4
    <3>5. CASE 1 \notin left /\ 2 \notin left /\ 3 \in left
      BY <3>1, <3>5
    <3>6. CASE 1 \notin left /\ 2 \notin left /\ 3 \notin left /\ 4 \in left
      BY <3>1, <3>6
    <3>7. CASE 1 \notin left /\ 2 \notin left /\ 3 \notin left /\ 4 \notin left /\ 5 \in left
      BY <3>1, <3>7
    <3>2. PICK j \in left : j \in 1..5
      BY <1>2, <3>1
    <3>8. 1 \in left \/ 2 \in left \/ 3 \in left \/ 4 \in left \/ 5 \in left
      BY <3>2
    <3> QED
      BY <3>8, <3>3, <3>4, <3>5, <3>6, <3>7
  <2>2. first \in left
    BY <2>1
  <2>3. StageAfter(c, k) = Ladder[first]
    BY <1>2 DEF StageAfter
  <2>4. first \in 1..5 /\ first > k /\ Runs(asked[c].mode, Ladder[first])
    BY <2>2
  <2>5. Ladder[first] \in Stages /\ (first > 1 => Ladder[first] # "assign")
    <3> HIDE DEF first
    <3> QED
      BY <2>4 DEF Ladder, Stages
  <2>6. k > 0 => first > 1
    <3> HIDE DEF first
    <3> QED
      BY <2>4
  <2> QED
    BY <2>3, <2>4, <2>5, <2>6
<1> QED
  BY <1>1, <1>2

\* A step spends at most one fault, failing probe or kill.
LEMMA LadderSpends ==
    ASSUME mishaps \in [{"faults", "blips", "kills"} -> Nat],
           UNCHANGED mishaps \/ \E what \in {"faults", "blips", "kills"} : Meets(what)
    PROVE  mishaps' \in [{"faults", "blips", "kills"} -> Nat]
<1>1. ASSUME NEW what \in {"faults", "blips", "kills"}, Meets(what)
      PROVE  mishaps' \in [{"faults", "blips", "kills"} -> Nat]
  <2>1. mishaps[what] + 1 \in Nat
    OBVIOUS
  <2> QED
    BY <1>1, <2>1 DEF Meets
<1> QED
  BY <1>1

\* What a step does to the host: certificates stay, and what is served is there.
HostStep ==
    /\ cert' \in [CertNames -> Coverage]
    /\ assigned' \in CertNames \cup {NoCert}
    /\ assigned' # NoCert => cert'[assigned'] # "absent"
    /\ \A n \in CertNames : cert[n] = "covers" => cert'[n] = "covers"

\* Assigning by name is such a step, however it ends.
LEMMA AssignStep ==
    ASSUME LadderTypeOK, NEW n \in CertNames, Assigned(n) \/ Refused(n) \/ Lost(n)
    PROVE  HostStep
<1> USE DEF LadderTypeOK, HostStep
<1>1. CASE Assigned(n)
  BY <1>1 DEF Assigned
<1>2. CASE Refused(n)
  BY <1>2 DEF Refused, host
<1>3. CASE Lost(n)
  BY <1>3 DEF Lost
<1> QED
  BY <1>1, <1>2, <1>3

\* So is making a certificate; the call goes on to assign it only when it covers.
LEMMA MakeStep ==
    ASSUME LadderTypeOK, NEW c \in SslCalls, NEW n \in CertNames, NEW here, NEW next, NEW after,
           Make(c, here, n, next, after)
    PROVE  /\ HostStep /\ UNCHANGED assigned /\ rung[c] = here
           /\ \/ ClimbTo(c, next) /\ cert'[n] = "covers"
              \/ ClimbTo(c, after)
              \/ ClimbTo(c, "raised")
           /\ UNCHANGED mishaps \/ Mishap
<1>1. cert' = cert \/ (cert[n] = "absent" /\ cert' = [cert EXCEPT ![n] = "covers"])
  BY DEF Make, LadderTypeOK
<1>2. cert' \in [CertNames -> Coverage]
      /\ \A m \in CertNames :
            cert'[m] = cert[m] \/ (cert[m] = "absent" /\ cert'[m] = "covers")
  BY <1>1 DEF LadderTypeOK, Coverage
<1>3. HostStep
  BY <1>2 DEF Make, LadderTypeOK, HostStep
<1>4. cert' = [cert EXCEPT ![n] = "covers"] => cert'[n] = "covers"
  BY DEF LadderTypeOK
<1> QED
  BY <1>3, <1>4 DEF Make

\* Let's Encrypt issues and assigns in one.
LEMMA IssueStep ==
    ASSUME LadderTypeOK, Issued
    PROVE  HostStep /\ assigned' = "le" /\ cert'["le"] = "covers"
<1>1. "le" \in CertNames /\ "covers" \in Coverage
  BY DEF CertNames, Coverage
<1> QED
  BY <1>1 DEF LadderTypeOK, Issued, HostStep

\* What a step leaves to be shown: the place the call goes to.
LadderMoves(c) ==
    /\ HostStep
    /\ \E to \in Rest \cup Climbing : ClimbTo(c, to)
    /\ asked' \in [SslCalls -> Request]
    /\ tries' \in [SslCalls -> Seq(CertNames)]
    /\ UNCHANGED mishaps \/ \E what \in {"faults", "blips", "kills"} : Meets(what)

\* Types stay through such a step.
LEMMA LadderMovesKeep ==
    ASSUME LadderTypeOK, NEW c \in SslCalls, LadderMoves(c), UNCHANGED <<deployment, dns>>
    PROVE  LadderTypeOK'
<1>1. rung' \in [SslCalls -> Rest \cup Climbing]
  BY DEF LadderMoves, ClimbTo, LadderTypeOK
<1>2. mishaps' \in [{"faults", "blips", "kills"} -> Nat]
  BY LadderSpends DEF LadderMoves, LadderTypeOK
<1> QED
  BY <1>1, <1>2 DEF LadderMoves, HostStep, LadderTypeOK

\* The steps below are such steps: first those that leave the host alone.
LEMMA HostStays == ASSUME LadderTypeOK, UNCHANGED host PROVE HostStep
BY DEF LadderTypeOK, HostStep, host

\* What a stage hands on to is a place of the ladder.
LEMMA StageIsPlace ==
    ASSUME NEW c \in SslCalls, NEW k \in 0..4
    PROVE  StageAfter(c, k) \in Rest \cup Climbing
BY StageIsLater DEF Stages, Rest, Climbing

\* The names under which the panel stages store what they make.
LEMMA NamesMade ==
    ASSUME LadderTypeOK, NEW c \in SslCalls
    PROVE  MadeName(c, "san") \in CertNames /\ MadeName(c, "ss") \in CertNames
BY DEF LadderTypeOK, MadeName, CertNames, Request

\* The two halves of a panel stage: to make a certificate and to assign it.
LEMMA MakeMoves ==
    ASSUME LadderTypeOK, NEW c \in SslCalls, NEW n \in CertNames, NEW here,
           NEW next \in Rest \cup Climbing, NEW after \in Rest \cup Climbing,
           Make(c, here, n, next, after)
    PROVE  LadderMoves(c) /\ UNCHANGED dns
<1>1. HostStep /\ (ClimbTo(c, next) \/ ClimbTo(c, after) \/ ClimbTo(c, "raised"))
      /\ (UNCHANGED mishaps \/ Mishap)
  BY MakeStep
<1>2. UNCHANGED <<dns, asked, tries>>
  BY DEF Make
<1> QED
  BY <1>1, <1>2 DEF LadderMoves, Mishap, Rest, LadderTypeOK

LEMMA AssignMadeMoves ==
    ASSUME LadderTypeOK, NEW c \in SslCalls, NEW n \in CertNames, NEW here,
           NEW after \in Rest \cup Climbing, AssignMade(c, here, n, after)
    PROVE  LadderMoves(c) /\ UNCHANGED dns
<1>1. HostStep
  BY AssignStep DEF AssignMade
<1>2. UNCHANGED mishaps \/ Mishap
  BY DEF AssignMade, Assigned, Refused, Lost
<1>3. UNCHANGED <<dns, asked, tries>> /\ (ClimbTo(c, "ok") \/ ClimbTo(c, after))
  BY DEF AssignMade
<1> QED
  BY <1>1, <1>2, <1>3 DEF LadderMoves, Mishap, Rest, LadderTypeOK

\* A call that probes what it has assigned has the name still on its list.
Listed(c) == rung[c] = "reprobe" => tries[c] # <<>>

\* Every action of a call moves along the ladder.
LEMMA LadderStepMoves ==
    ASSUME LadderTypeOK, NEW c \in SslCalls, Listed(c), LadderStep(c) \/ LadderKill(c)
    PROVE  LadderMoves(c) /\ UNCHANGED dns
<1> USE DEF Rest, Climbing
<1>a. /\ asked \in [SslCalls -> Request] /\ tries \in [SslCalls -> Seq(CertNames)]
      /\ {"given", "le", "san", "ss"} \subseteq CertNames
  BY DEF LadderTypeOK, CertNames
<1>1. CASE Ask(c)
  BY <1>1, <1>a, HostStays DEF Ask, LadderMoves
<1>2. CASE Preflight(c)
  BY <1>2, <1>a, HostStays DEF Preflight, LadderMoves, Mishap
<1>3. CASE Probe(c)
  BY <1>3, <1>a, HostStays DEF Probe, Probes, LadderMoves
<1>4. CASE Denied(c)
  BY <1>4, <1>a, HostStays DEF Denied, LadderMoves, Mishap
<1>5. CASE Site(c)
  <2>1. {<<"given">>, <<"le", "san", "ss">>, <<>>} \subseteq Seq(CertNames)
    BY <1>a
  <2>2. tries' \in [SslCalls -> Seq(CertNames)]
    BY <1>5, <1>a, <2>1 DEF Site
  <2>3. StageAfter(c, 0) \in Rest \cup Climbing
    BY StageIsPlace
  <2>4. HostStep
    BY <1>5, HostStays DEF Site
  <2>5. ClimbTo(c, StageAfter(c, 0)) /\ UNCHANGED <<dns, asked, mishaps>>
    BY <1>5 DEF Site
  <2> QED
    BY <1>a, <2>2, <2>3, <2>4, <2>5 DEF LadderMoves
<1>6. CASE Assign(c)
  <2>1. Head(tries[c]) \in CertNames /\ Tail(tries[c]) \in Seq(CertNames)
    BY <1>6, <1>a DEF Assign
  <2>2. HostStep
    BY <1>6, <2>1, AssignStep DEF Assign
  <2>3. tries' \in [SslCalls -> Seq(CertNames)]
    BY <1>6, <1>a, <2>1 DEF Assign
  <2>4. ClimbTo(c, "reprobe") \/ ClimbTo(c, "failed") \/ ClimbTo(c, "assign")
    BY <1>6 DEF Assign, ClimbTo, LadderTypeOK
  <2>5. UNCHANGED mishaps \/ Mishap
    BY <1>6 DEF Assign, Assigned, Refused, Lost
  <2>6. UNCHANGED <<dns, asked>>
    BY <1>6 DEF Assign
  <2> QED
    BY <1>a, <2>2, <2>3, <2>4, <2>5, <2>6 DEF LadderMoves, Mishap
<1>7. CASE Reprobe(c)
  <2>1. Tail(tries[c]) \in Seq(CertNames)
    BY <1>7, <1>a DEF Reprobe, Listed
  <2>2. tries' \in [SslCalls -> Seq(CertNames)]
    BY <1>7, <1>a, <2>1 DEF Reprobe
  <2>3. ClimbTo(c, "ok") \/ ClimbTo(c, "assign")
    BY <1>7 DEF Reprobe
  <2> QED
    BY <1>7, <1>a, <2>2, <2>3, HostStays DEF Reprobe, Probes, LadderMoves
<1>8. CASE AssignedNone(c)
  <2>1. ClimbTo(c, "failed") \/ ClimbTo(c, StageAfter(c, 1))
    BY <1>8 DEF AssignedNone
  <2>2. StageAfter(c, 1) \in Rest \cup Climbing
    BY StageIsPlace
  <2> QED
    BY <1>8, <1>a, <2>1, <2>2, HostStays DEF AssignedNone, LadderMoves
<1>9. CASE PanelPem(c)
  <2> DEFINE n == MadeName(c, "san")
             after == IF asked[c].mode = "panel-pem" THEN "failed" ELSE StageAfter(c, 2)
  <2>1. n \in CertNames /\ after \in Rest \cup Climbing
    BY NamesMade, StageIsPlace
  <2>2. ASSUME Make(c, "pem", n, "pemassign", after)
        PROVE  LadderMoves(c) /\ UNCHANGED dns
    BY <1>a, <2>1, <2>2, MakeMoves
  <2>3. ASSUME AssignMade(c, "pemassign", n, after)
        PROVE  LadderMoves(c) /\ UNCHANGED dns
    BY <1>a, <2>1, <2>3, AssignMadeMoves
  <2> QED
    BY <1>9, <2>2, <2>3 DEF PanelPem
<1>10. CASE PanelSelfSigned(c)
  <2> DEFINE n == MadeName(c, "ss")
  <2>1. n \in CertNames
    BY NamesMade
  <2>2. ASSUME Make(c, "self", n, "selfassign", "failed")
        PROVE  LadderMoves(c) /\ UNCHANGED dns
    BY <1>a, <2>1, <2>2, MakeMoves
  <2>3. ASSUME AssignMade(c, "selfassign", n, "failed")
        PROVE  LadderMoves(c) /\ UNCHANGED dns
    BY <1>a, <2>1, <2>3, AssignMadeMoves
  <2> QED
    BY <1>10, <2>2, <2>3 DEF PanelSelfSigned
<1>11. CASE LetsEncrypt(c)
  BY <1>11, <1>a, HostStays, IssueStep, StageIsPlace DEF LetsEncrypt, LadderMoves, Mishap
<1>12. CASE RestCli(c)
  BY <1>12, <1>a, HostStays, IssueStep DEF RestCli, LadderMoves, Mishap
<1>13. CASE LadderKill(c)
  BY <1>13, <1>a, HostStays DEF LadderKill, LadderMoves
<1> QED
  BY <1>1, <1>2, <1>3, <1>4, <1>5, <1>6, <1>7, <1>8, <1>9, <1>10, <1>11, <1>12, <1>13
  DEF LadderStep

\* What a call knows at a place: a certificate that it has made covers the host.
Knows(c) ==
    /\ Listed(c)
    /\ rung[c] = "pemassign" => cert[MadeName(c, "san")] = "covers"
    /\ rung[c] = "selfassign" => cert[MadeName(c, "ss")] = "covers"

\* A step of one call leaves the others where they are and what they know true.
LEMMA OthersKnow ==
    ASSUME LadderTypeOK, NEW c \in SslCalls, NEW d \in SslCalls, c # d, Knows(c), Knows(d),
           LadderStep(c) \/ LadderKill(c)
    PROVE  Knows(d)' /\ rung'[d] = rung[d] /\ asked'[d] = asked[d]
<1>1. LadderMoves(c)
  BY LadderStepMoves DEF Knows
<1>2. rung'[d] = rung[d]
  BY <1>1 DEF LadderMoves, ClimbTo, LadderTypeOK
<1>3. asked'[d] = asked[d]
  BY DEF LadderTypeOK, LadderStep, LadderKill, Ask, Preflight, Probe, Denied,
         Site, Assign, Reprobe, AssignedNone, PanelPem,
         PanelSelfSigned, Make, AssignMade, LetsEncrypt, RestCli
<1>4. tries'[d] = tries[d]
  BY DEF LadderTypeOK, LadderStep, LadderKill, Ask, Preflight, Probe, Denied,
         Site, Assign, Reprobe, AssignedNone, PanelPem,
         PanelSelfSigned, Make, AssignMade, LetsEncrypt, RestCli
<1>5. \A n \in CertNames : cert[n] = "covers" => cert'[n] = "covers"
  BY <1>1 DEF LadderMoves, HostStep
<1> QED
  BY <1>2, <1>3, <1>4, <1>5, NamesMade DEF Knows, Listed, MadeName

\* A call that answers ok leaves the host covered, unless it is of mode assign.
EndsCovered(c) ==
    /\ rung[c] # "ok"
    /\ rung'[c] = "ok" => asked'[c].mode = "assign" \/ Covered'

\* What the halves of a panel stage show of themselves.
LEMMA MakeKnows ==
    ASSUME LadderTypeOK, NEW c \in SslCalls, NEW n \in CertNames, NEW here, NEW next, NEW after,
           Make(c, here, n, next, after), next \in {"pemassign", "selfassign"},
           after \in Stages \cup {"failed"}
    PROVE  /\ rung'[c] \in {next, after, "raised"} /\ rung[c] = here
           /\ rung'[c] = next => cert'[n] = "covers"
           /\ UNCHANGED asked
<1>1. \/ ClimbTo(c, next) /\ cert'[n] = "covers"
      \/ ClimbTo(c, after)
      \/ ClimbTo(c, "raised")
  BY MakeStep
<1> QED
  BY <1>1 DEF Make, ClimbTo, LadderTypeOK, Stages

LEMMA AssignMadeKnows ==
    ASSUME LadderTypeOK, NEW c \in SslCalls, NEW n \in CertNames, NEW here,
           NEW after \in Stages \cup {"failed"}, AssignMade(c, here, n, after),
           cert[n] = "covers"
    PROVE  /\ rung'[c] \in {"ok", after} /\ rung[c] = here
           /\ rung'[c] = "ok" => Covered'
           /\ Covered => Covered'
           /\ UNCHANGED asked
<1>1. n # NoCert
  BY LadderAssumption
<1>2. \/ ClimbTo(c, "ok") /\ Assigned(n)
      \/ ClimbTo(c, after) /\ (Refused(n) \/ Lost(n))
  BY DEF AssignMade
<1>3. Covered => Covered'
  BY <1>1, <1>2 DEF Assigned, Refused, Lost, Covered, host
<1>4. Assigned(n) => Covered'
  BY <1>1 DEF Assigned, Covered
<1> QED
  BY <1>2, <1>3, <1>4 DEF AssignMade, ClimbTo, LadderTypeOK, Stages

\* What Let's Encrypt issued covers the host.
LEMMA IssuedCovers ==
    ASSUME LadderTypeOK, Issued
    PROVE  Covered'
<1>1. "le" # NoCert
  BY LadderAssumption DEF CertNames
<1> QED
  BY <1>1, IssueStep DEF Covered

\* Without failing probes a call of a mode other than "assign" assigns by name
\* only over a certificate that does not cover.
Careful(c) ==
    /\ asked[c].mode # "assign"
    /\ rung[c] = "assign" \/ (rung[c] = "site" /\ asked[c].mode = "auto") => ~Covered

\* Where no probe fails, a probe tells whether the host is covered.
LEMMA ProbesTruly ==
    ASSUME LadderTypeOK, deployment.blips = 0, NEW result \in BOOLEAN, Probes(result)
    PROVE  result = Covered
<1>1. mishaps["blips"] \in Nat /\ deployment["blips"] = 0
  BY DEF LadderTypeOK
<1>2. ~Meets("blips")
  BY <1>1 DEF Meets
<1> QED
  BY <1>2 DEF Probes

\* The settings of CoveringKept, but for one call at a time.
Watched == deployment.blips = 0 /\ "assign" \notin deployment.modes

\* What one step of call c shows of itself.
LEMMA StepShows ==
    ASSUME LadderTypeOK, NEW c \in SslCalls, Knows(c),
           LadderStep(c) \/ LadderKill(c)
    PROVE  /\ Knows(c)' /\ EndsCovered(c)
           /\ Watched /\ Careful(c) => Careful(c)' /\ (Covered => Covered')
<1> USE DEF Rest, Climbing, Watched
<1>a. /\ rung \in [SslCalls -> Rest \cup Climbing] /\ asked \in [SslCalls -> Request]
      /\ tries \in [SslCalls -> Seq(CertNames)] /\ Listed(c)
  BY DEF LadderTypeOK, Knows
<1>b. HostStep
  BY LadderStepMoves DEF Knows, LadderMoves
<1>c. UNCHANGED host => (Covered' <=> Covered)
  BY DEF host, Covered
<1>1. CASE Ask(c)
  <2>1. PICK j \in Request : j.mode \in deployment.modes /\ asked' = [asked EXCEPT ![c] = j]
    BY <1>1 DEF Ask
  <2>2. rung'[c] = "dns" /\ rung[c] # "ok" /\ asked'[c] = j /\ UNCHANGED host
    BY <1>1, <1>a, <2>1 DEF Ask, ClimbTo
  <2> QED
    BY <1>c, <2>1, <2>2 DEF Knows, Listed, EndsCovered, Careful
<1>2. CASE Preflight(c)
  BY <1>2, <1>a, <1>c DEF Preflight, ClimbTo, Knows, Listed, EndsCovered, Careful
<1>3. CASE Probe(c)
  <2>1. PICK ok \in BOOLEAN :
          /\ Probes(ok)
          /\ ClimbTo(c, IF ~asked[c].apply THEN "told"
                     ELSE IF ok /\ asked[c].mode = "auto" THEN "ok" ELSE "site")
    BY <1>3 DEF Probe
  <2>2. /\ rung'[c] = (IF ~asked[c].apply THEN "told"
                     ELSE IF ok /\ asked[c].mode = "auto" THEN "ok" ELSE "site")
        /\ rung[c] = "probe" /\ UNCHANGED <<asked, host>>
    BY <1>3, <1>a, <2>1 DEF Probe, ClimbTo
  <2>3. ok => Covered
    BY <2>1 DEF Probes
  <2>4. deployment.blips = 0 => ok = Covered
    BY <2>1, ProbesTruly
  <2> QED
    BY <1>c, <2>2, <2>3, <2>4 DEF Knows, Listed, EndsCovered, Careful
<1>4. CASE Denied(c)
  BY <1>4, <1>a, <1>c DEF Denied, ClimbTo, Knows, Listed, EndsCovered, Careful
<1>5. CASE Site(c)
  <2>1. rung'[c] = StageAfter(c, 0) /\ rung[c] = "site" /\ UNCHANGED <<asked, host>>
    BY <1>5, <1>a DEF Site, ClimbTo
  <2>2. /\ rung'[c] \in Stages \cup {"failed"}
        /\ rung'[c] = "assign" => asked[c].mode \in {"auto", "assign"}
    <3>1. Runs(asked[c].mode, "assign") => asked[c].mode \in {"auto", "assign"}
      BY DEF Runs
    <3> QED
      BY <2>1, <3>1, StageIsLater
  <2> QED
    BY <1>c, <2>1, <2>2 DEF Knows, Listed, EndsCovered, Careful, Stages
<1>6. CASE Assign(c)
  <2>1. /\ rung[c] = "assign" /\ tries[c] # <<>> /\ UNCHANGED asked
        /\ \/ rung'[c] = "reprobe" /\ UNCHANGED tries
           \/ rung'[c] = "assign" /\ UNCHANGED host
           \/ rung'[c] = "failed"
    BY <1>6, <1>a DEF Assign, ClimbTo, Refused
  <2> QED
    BY <1>c, <2>1 DEF Knows, Listed, EndsCovered, Careful
<1>7. CASE Reprobe(c)
  <2>1. PICK ok \in BOOLEAN :
          /\ Probes(ok)
          /\ IF ok \/ asked[c].mode = "assign" THEN ClimbTo(c, "ok") ELSE ClimbTo(c, "assign")
    BY <1>7 DEF Reprobe
  <2>2. /\ rung'[c] = (IF ok \/ asked[c].mode = "assign" THEN "ok" ELSE "assign")
        /\ rung[c] = "reprobe" /\ UNCHANGED <<asked, host>>
    BY <1>7, <1>a, <2>1 DEF Reprobe, ClimbTo
  <2>3. ok => Covered
    BY <2>1 DEF Probes
  <2>4. deployment.blips = 0 => ok = Covered
    BY <2>1, ProbesTruly
  <2> QED
    BY <1>c, <2>2, <2>3, <2>4 DEF Knows, Listed, EndsCovered, Careful
<1>8. CASE AssignedNone(c)
  <2>1. /\ rung'[c] \in {"failed", StageAfter(c, 1)} /\ rung[c] = "assign"
        /\ UNCHANGED <<asked, host>>
    BY <1>8, <1>a DEF AssignedNone, ClimbTo
  <2>2. rung'[c] \in {"failed", "pem", "self", "le", "rest"}
    BY <2>1, StageIsLater DEF Stages
  <2> QED
    BY <1>c, <2>1, <2>2 DEF Knows, Listed, EndsCovered, Careful
<1>9. CASE PanelPem(c)
  <2> DEFINE n == MadeName(c, "san")
             after == IF asked[c].mode = "panel-pem" THEN "failed" ELSE StageAfter(c, 2)
  <2>1. n \in CertNames
    BY NamesMade
  <2>2. after \in {"failed", "pem", "self", "le", "rest"}
    BY StageIsLater DEF Stages
  <2>3. ASSUME Make(c, "pem", n, "pemassign", after)
        PROVE  /\ Knows(c)' /\ EndsCovered(c)
               /\ Watched /\ Careful(c) => Careful(c)' /\ (Covered => Covered')
    <3>1. /\ rung'[c] \in {"pemassign", after, "raised"} /\ rung[c] = "pem" /\ UNCHANGED asked
          /\ rung'[c] = "pemassign" => cert'[n] = "covers"
      BY <2>1, <2>2, <2>3, MakeKnows DEF Stages
    <3>2. UNCHANGED assigned
      BY <2>3 DEF Make
    <3>3. Covered => Covered'
      BY <1>b, <3>2 DEF Covered, HostStep, LadderTypeOK
    <3> QED
      BY <2>2, <3>1, <3>3 DEF Knows, Listed, EndsCovered, Careful, MadeName
  <2>4. ASSUME AssignMade(c, "pemassign", n, after)
        PROVE  /\ Knows(c)' /\ EndsCovered(c)
               /\ Watched /\ Careful(c) => Careful(c)' /\ (Covered => Covered')
    <3>1. /\ rung'[c] \in {"ok", after} /\ rung[c] = "pemassign" /\ UNCHANGED asked
          /\ (rung'[c] = "ok" => Covered') /\ (Covered => Covered')
      BY <2>1, <2>2, <2>4, AssignMadeKnows DEF Stages, Knows, AssignMade
    <3> QED
      BY <2>2, <3>1 DEF Knows, Listed, EndsCovered, Careful
  <2> QED
    BY <1>9, <2>3, <2>4 DEF PanelPem
<1>10. CASE PanelSelfSigned(c)
  <2> DEFINE n == MadeName(c, "ss")
  <2>1. n \in CertNames
    BY NamesMade
  <2>3. ASSUME Make(c, "self", n, "selfassign", "failed")
        PROVE  /\ Knows(c)' /\ EndsCovered(c)
               /\ Watched /\ Careful(c) => Careful(c)' /\ (Covered => Covered')
    <3>1. /\ rung'[c] \in {"selfassign", "failed", "raised"} /\ rung[c] = "self" /\ UNCHANGED asked
          /\ rung'[c] = "selfassign" => cert'[n] = "covers"
      BY <2>1, <2>3, MakeKnows DEF Stages
    <3>2. UNCHANGED assigned
      BY <2>3 DEF Make
    <3>3. Covered => Covered'
      BY <1>b, <3>2 DEF Covered, HostStep, LadderTypeOK
    <3> QED
      BY <3>1, <3>3 DEF Knows, Listed, EndsCovered, Careful, MadeName
  <2>4. ASSUME AssignMade(c, "selfassign", n, "failed")
        PROVE  /\ Knows(c)' /\ EndsCovered(c)
               /\ Watched /\ Careful(c) => Careful(c)' /\ (Covered => Covered')
    <3>1. /\ rung'[c] \in {"ok", "failed"} /\ rung[c] = "selfassign" /\ UNCHANGED asked
          /\ (rung'[c] = "ok" => Covered') /\ (Covered => Covered')
      BY <2>1, <2>4, AssignMadeKnows DEF Stages, Knows, AssignMade
    <3> QED
      BY <3>1 DEF Knows, Listed, EndsCovered, Careful
  <2> QED
    BY <1>10, <2>3, <2>4 DEF PanelSelfSigned
<1>11. CASE LetsEncrypt(c)
  <2>1. /\ rung[c] = "le" /\ UNCHANGED asked /\ rung'[c] \in {"ok", StageAfter(c, 4), "raised"}
        /\ Issued \/ (UNCHANGED host /\ rung'[c] # "ok")
    <3>1. StageAfter(c, 4) # "ok"
      BY StageIsLater DEF Stages
    <3> QED
      BY <1>11, <1>a, <3>1 DEF LetsEncrypt, ClimbTo
  <2>2. rung'[c] \in {"ok", "failed", "pem", "self", "le", "rest", "raised"}
    BY <2>1, StageIsLater DEF Stages
  <2> QED
    BY <1>c, <2>1, <2>2, IssuedCovers DEF Knows, Listed, EndsCovered, Careful
<1>12. CASE RestCli(c)
  <2>1. /\ rung[c] = "rest" /\ UNCHANGED asked /\ rung'[c] \in {"ok", "failed", "raised"}
        /\ Issued \/ (UNCHANGED host /\ rung'[c] # "ok")
    BY <1>12, <1>a DEF RestCli, ClimbTo
  <2> QED
    BY <1>c, <2>1, IssuedCovers DEF Knows, Listed, EndsCovered, Careful
<1>13. CASE LadderKill(c)
  BY <1>13, <1>a, <1>c DEF LadderKill, ClimbTo, Knows, Listed, EndsCovered, Careful
<1> QED
  BY <1>1, <1>2, <1>3, <1>4, <1>5, <1>6, <1>7, <1>8, <1>9, <1>10, <1>11, <1>12, <1>13
  DEF LadderStep

\* The runner admits one call at a time.
OneClimbs == deployment.serialized =>
    \A c, d \in SslCalls : rung[c] \notin Rest /\ rung[d] \notin Rest => c = d

\* The inductive invariant of the ladder.
CertInv ==
    /\ LadderTypeOK /\ EnsuredCovers
    /\ \A c \in SslCalls : Knows(c)
    /\ OneClimbs
    /\ deployment.serialized /\ Watched => \A c \in SslCalls : Careful(c)

\* It holds at the start.
LEMMA CertInitially ==
    ASSUME LadderInit
    PROVE  CertInv
<1>1. LadderTypeOK
  BY LadderAssumption DEF LadderInit, LadderTypeOK, Rest, Request, Modes
<1>2. EnsuredCovers
  BY LadderAssumption DEF LadderInit, EnsuredCovers
<1>3. \A c \in SslCalls : Knows(c) /\ Careful(c)
  BY DEF LadderInit, Knows, Listed, Careful
<1>4. OneClimbs
  BY DEF LadderInit, OneClimbs, Rest
<1> QED
  BY <1>1, <1>2, <1>3, <1>4 DEF CertInv

\* A call leaves the runner's queue by its first step only.
LEMMA OnlyAskStarts ==
    ASSUME NEW c \in SslCalls, LadderStep(c) \/ LadderKill(c)
    PROVE  Ask(c) \/ rung[c] \notin Rest
BY DEF LadderStep, LadderKill, Rest, Climbing, Preflight, Probe, Denied,
       Site, Assign, Reprobe, AssignedNone, PanelPem,
       PanelSelfSigned, Make, AssignMade, LetsEncrypt, RestCli

\* A step of a call that is admitted leaves no other call on the ladder.
LEMMA OneClimbsKept ==
    ASSUME CertInv, NEW c \in SslCalls, LadderStep(c) \/ LadderKill(c), UNCHANGED deployment
    PROVE  OneClimbs'
<1>a. LadderTypeOK /\ LadderMoves(c)
  BY LadderStepMoves DEF CertInv, Knows
<1>1. \A d \in SslCalls : d # c => rung'[d] = rung[d]
  BY <1>a DEF LadderMoves, ClimbTo, LadderTypeOK
<1>2. CASE Ask(c)
  BY <1>1, <1>2 DEF CertInv, OneClimbs, Ask
<1>3. CASE rung[c] \notin Rest
  BY <1>1, <1>3 DEF CertInv, OneClimbs
<1> QED
  BY <1>2, <1>3, OnlyAskStarts

\* A step of a call keeps the invariant; watched and alone it keeps the cover too.
LEMMA CallKeepsCerts ==
    ASSUME CertInv, NEW c \in SslCalls, LadderStep(c) \/ LadderKill(c), UNCHANGED deployment
    PROVE  CertInv' /\ (deployment.serialized /\ Watched => (Covered => Covered'))
<1>a. LadderTypeOK /\ Knows(c) /\ LadderMoves(c) /\ UNCHANGED dns
  BY LadderStepMoves DEF CertInv, Knows
<1>1. LadderTypeOK'
  BY <1>a, LadderMovesKeep
<1>2. /\ Knows(c)' /\ EndsCovered(c)
      /\ Watched /\ Careful(c) => Careful(c)' /\ (Covered => Covered')
  BY <1>a, StepShows DEF CertInv
<1>3. \A d \in SslCalls : Knows(d)'
  BY <1>a, <1>2, OthersKnow DEF CertInv
<1>4. \A d \in SslCalls \ {c} : rung'[d] = rung[d] /\ asked'[d] = asked[d]
  BY <1>a, OthersKnow DEF CertInv
<1>5. EnsuredCovers'
  <2> SUFFICES ASSUME \A d \in deployment.calls : rung'[d] = "ok" /\ asked'[d].mode # "assign"
               PROVE  Covered'
    BY DEF EnsuredCovers
  <2>1. CASE c \in deployment.calls
    BY <1>2, <2>1 DEF EndsCovered
  <2>2. CASE c \notin deployment.calls
    <3>1. \A d \in deployment.calls : d \in SslCalls \ {c}
      BY <1>a, <2>2, LadderAssumption DEF CertInv, LadderTypeOK
    <3>2. LadderKill(c)
      BY <2>2 DEF LadderStep
    <3>3. Covered
      BY <1>4, <3>1 DEF CertInv, EnsuredCovers
    <3> QED
      BY <3>2, <3>3 DEF LadderKill, host, Covered
  <2> QED
    BY <2>1, <2>2
<1>6. ASSUME deployment.serialized, Watched
      PROVE  (\A d \in SslCalls : Careful(d)') /\ (Covered => Covered')
  <2>1. \A d \in SslCalls : Careful(d)
    BY <1>6 DEF CertInv
  <2>2. Careful(c)' /\ (Covered => Covered')
    BY <1>2, <1>6, <2>1
  <2>3. ASSUME NEW d \in SslCalls, d # c PROVE Careful(d)'
    <3>1. rung'[d] \in {"site", "assign"} => Covered' = Covered
      <4>1. CASE rung[c] \notin Rest
        BY <1>4, <1>6, <2>3, <4>1 DEF CertInv, OneClimbs, Rest
      <4>2. CASE Ask(c)
        BY <4>2 DEF Ask, host, Covered
      <4> QED
        BY <4>1, <4>2, OnlyAskStarts
    <3> QED
      BY <1>4, <2>1, <2>3, <3>1 DEF Careful
  <2> QED
    BY <2>2, <2>3
<1>7. OneClimbs'
  BY OneClimbsKept
<1> QED
  BY <1>1, <1>3, <1>5, <1>6, <1>7 DEF CertInv, Watched

\* So does every step.
LEMMA CertKept ==
    ASSUME CertInv, [LadderNext]_ladderVars
    PROVE  CertInv' /\ (deployment.serialized /\ Watched => (Covered => Covered'))
<1>1. ASSUME NEW c \in SslCalls, LadderStep(c) \/ LadderKill(c), UNCHANGED deployment
      PROVE  CertInv' /\ (deployment.serialized /\ Watched => (Covered => Covered'))
  BY <1>1, CallKeepsCerts
<1>2. CASE CutOver /\ UNCHANGED deployment
  BY <1>2, LadderAssumption DEF CutOver, host, CertInv, LadderTypeOK,
              EnsuredCovers, Covered, Knows, Listed, MadeName, OneClimbs,
              Watched, Careful
<1>3. CASE UNCHANGED ladderVars
  BY <1>3, LadderAssumption DEF ladderVars, CertInv, LadderTypeOK, EnsuredCovers,
              Covered, Knows, Listed, MadeName, OneClimbs, Watched, Careful
<1> QED
  BY <1>1, <1>2, <1>3 DEF LadderNext, LadderFinished

\* The invariant at all times.
LEMMA AlwaysCertInv == LadderSpec => []CertInv
<1>1. LadderInit => CertInv
  BY CertInitially
<1>2. CertInv /\ [LadderNext]_ladderVars => CertInv'
  BY CertKept
<1> QED
  BY <1>1, <1>2, PTL DEF LadderSpec

\* Types for every setting, and the certificate that the site serves is in the
\* repository (ensure_ssl and its stages).
THEOREM CertificateTypes == LadderSpec => []LadderTypeOK
<1>1. CertInv => LadderTypeOK
  BY DEF CertInv
<1> QED
  BY <1>1, AlwaysCertInv, PTL

\* Once every call has answered ok, mode assign aside, the served certificate
\* covers the host: for every number of overlapping calls, whatever requests
\* fail, whichever probes do and whoever is killed (ensure_ssl: every
\* stage that answers ok has assigned a covering certificate or probed one).
THEOREM EnsuredHostsAreCovered == LadderSpec => []EnsuredCovers
<1>1. CertInv => EnsuredCovers
  BY DEF CertInv
<1> QED
  BY <1>1, AlwaysCertInv, PTL

\* One call at a time, with probes that tell the truth and without mode assign, no
\* call takes a covering certificate away, whatever fails and wherever it is
\* killed (ensure_ssl: the probe before the first stage, and the stages
\* that follow an assignment by name).
THEOREM CoveringCertificatesStay == LadderSpec => CoveringKept
<1>1. CertInv /\ [LadderNext]_ladderVars =>
        [deployment.serialized /\ deployment.blips = 0 /\ "assign" \notin deployment.modes =>
            (Covered => Covered')]_ladderVars
  BY CertKept DEF Watched
<1> QED
  BY <1>1, AlwaysCertInv, PTL DEF LadderSpec, CoveringKept
===============================================================================
