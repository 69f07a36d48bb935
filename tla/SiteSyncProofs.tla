---------------------------- MODULE SiteSyncProofs ----------------------------
(***************************************************************************)
(* Theorems about SiteSync for any number of calls, files, directories and *)
(* releases, any budgets and deadlines, whatever fails and is edited.      *)
(***************************************************************************)
EXTENDS SiteSync, WellFoundedInduction, TLAPS

Moments == [now : Nat, begun : Nat, uploading : Nat, checked : Nat]

\* The types that the arguments need.
Typed ==
    /\ setting \in Settings
    /\ pc \in [Calls -> {"idle"} \cup Working \cup Ended]
    /\ done = [c \in Calls |-> done[c]]
    /\ todo \in [Calls -> SUBSET Files]
    /\ code \in [Calls -> Codes]
    /\ time \in [Calls -> Moments]

\* The last look at the deadlines was before the total budget ran out, so
\* whoever is killed spent the headroom before the transfer or after that look.
InTime(c) ==
    setting.timed =>
        /\ time[c].checked <= time[c].begun + setting.total
        /\ pc[c] = "killed" => time[c].now >= setting.runner

\* Nothing is uploaded before the walk, and a failure says what was.
Reports(c) ==
    /\ pc[c] \in {"approved", "preflight", "connect"} => done[c] = {}
    /\ ~setting.hashed /\ pc[c] = "failed" /\ todo[c] # {} /\ done[c] # {} =>
          code[c] = "partial_upload"

IInv == Typed /\ \A c \in Calls : InTime(c) /\ Reports(c)

LEMMA Budgets ==
    ASSUME NEW s \in Settings PROVE s.total \in Nat /\ s.runner \in Nat
BY SyncAssumption

LEMMA InvariantImplies == IInv => EndsByItself /\ PartialReported
<1> SUFFICES ASSUME IInv PROVE EndsByItself /\ PartialReported
  OBVIOUS
<1>1. PartialReported
  BY DEF PartialReported, IInv, Reports
<1>2. ASSUME NEW c \in Calls, setting.timed, pc[c] = "killed"
      PROVE  time[c].begun + (time[c].now - time[c].checked) >= setting.runner - setting.total
  <2>1. setting.total \in Nat /\ setting.runner \in Nat
    BY Budgets DEF IInv, Typed
  <2>2. time[c].begun \in Nat /\ time[c].now \in Nat /\ time[c].checked \in Nat
    BY DEF IInv, Typed, Moments
  <2>3. time[c].checked <= time[c].begun + setting.total /\ time[c].now >= setting.runner
    BY <1>2 DEF IInv, InTime
  <2> QED
    BY <2>1, <2>2, <2>3
<1> QED
  BY <1>1, <1>2 DEF EndsByItself

LEMMA Initially == Init => IInv
<1> SUFFICES ASSUME Init PROVE IInv
  OBVIOUS
<1>1. Started \in Moments /\ Started.checked = 0 /\ Started.begun = 0
  BY DEF Started, Moments
<1>2. Typed
  BY <1>1 DEF Init, Typed, Working, Transferring, Ended, Codes
<1>3. ASSUME NEW c \in Calls PROVE InTime(c) /\ Reports(c)
  <2>1. setting.total \in Nat
    BY Budgets DEF Init
  <2> QED
    BY <1>1, <2>1 DEF Init, InTime, Reports
<1> QED
  BY <1>2, <1>3 DEF IInv

\* A call changes nothing of another one.
Only(c) ==
    /\ UNCHANGED setting
    /\ \A d \in Calls \ {c} :
          /\ pc'[d] = pc[d] /\ done'[d] = done[d] /\ todo'[d] = todo[d]
          /\ code'[d] = code[d] /\ time'[d] = time[d]

LEMMA LocalStep ==
    ASSUME NEW c \in Calls, IInv, Only(c), Typed', InTime(c)', Reports(c)'
    PROVE  IInv'
<1>1. ASSUME NEW d \in Calls \ {c} PROVE InTime(d)' /\ Reports(d)'
  BY DEF IInv, InTime, Reports, Only
<1> QED
  BY <1>1 DEF IInv

\* A step that leaves the clock of the call alone, and lets it be killed by no
\* other than the runner.
LEMMA SameTime ==
    ASSUME NEW c \in Calls, IInv, UNCHANGED <<setting, time>>,
           pc'[c] = "killed" => (setting.timed => time[c].now >= setting.runner)
    PROVE  InTime(c)'
BY DEF IInv, InTime

LEMMA StepKeeps ==
    ASSUME NEW c \in Calls, IInv, Step(c) \/ ((Tick(c) \/ Kill(c)) /\ UNCHANGED setting)
    PROVE  IInv'
<1> USE DEF Goto, Proceeds, Fails, call
<1>0. Typed /\ InTime(c) /\ Reports(c) /\ setting' = setting
  BY DEF IInv, Step
<1>1. CASE DryRun(c)
  <2>1. Typed' /\ Only(c)
    BY <1>0, <1>1 DEF DryRun, Typed, Only, Started, Moments, Working, Transferring, Ended, Codes
  <2>2. time'[c].checked = 0 /\ time'[c].begun = 0 /\ pc'[c] = "approved" /\ done'[c] = {}
    BY <1>0, <1>1 DEF DryRun, Typed, Started
  <2>3. setting.total \in Nat
    BY <1>0, Budgets DEF Typed
  <2> QED
    BY <1>0, <2>1, <2>2, <2>3, LocalStep DEF InTime, Reports
<1>2. CASE Apply(c)
  <2>1. Typed' /\ Only(c) /\ pc'[c] \in {"preflight", "failed"} /\ UNCHANGED <<time, done>>
    BY <1>0, <1>2 DEF Apply, NoTransport, Typed, Only, Working, Transferring, Ended, Codes
  <2>2. done[c] = {}
    BY <1>0, <1>2 DEF Apply, Reports
  <2>3. InTime(c)'
    BY <1>0, <2>1, SameTime
  <2> QED
    BY <1>0, <2>1, <2>2, <2>3, LocalStep DEF Reports
<1>3. CASE TransferBegins(c)
  <2>1. Typed' /\ Only(c)
    BY <1>0, <1>3 DEF TransferBegins, Typed, Moments, Only, Working, Transferring, Ended, Codes
  <2>2. /\ time'[c].checked = time[c].now /\ time'[c].begun = time[c].now
        /\ pc'[c] = "connect" /\ done'[c] = {}
    BY <1>0, <1>3 DEF TransferBegins, Typed, Moments, Reports
  <2>3. setting.total \in Nat /\ time[c].now \in Nat
    BY <1>0, Budgets DEF Typed, Moments
  <2> QED
    BY <1>0, <2>1, <2>2, <2>3, LocalStep DEF InTime, Reports
<1>4. CASE Connect(c)
  <2>1. Typed' /\ Only(c)
    BY <1>0, <1>4 DEF Connect, Notes, Typed, Moments, Only, Working, Transferring, Ended, Codes
  <2>2. /\ time'[c].checked = time[c].checked /\ time'[c].begun = time[c].begun
        /\ pc'[c] = "file"
    BY <1>0, <1>4 DEF Connect, Notes, Typed, Moments
  <2> QED
    BY <1>0, <2>1, <2>2, LocalStep DEF InTime, Reports
<1>5. CASE NoConnection(c)
  <2>1. Typed' /\ Only(c) /\ pc'[c] = "failed" /\ UNCHANGED <<time, done>>
    BY <1>0, <1>5 DEF NoConnection, Typed, Only, Working, Transferring, Ended, Codes
  <2>2. done[c] = {}
    BY <1>0, <1>5 DEF NoConnection, Reports
  <2>3. InTime(c)'
    BY <1>0, <2>1, SameTime
  <2> QED
    BY <1>0, <2>1, <2>2, <2>3, LocalStep DEF Reports
<1>6. CASE Enter(c)
  <2>1. {f \in Present(source) : setting.dir[f] = level[c] + 1} \in SUBSET Files
    BY DEF Present
  <2>2. Typed' /\ Only(c) /\ UNCHANGED time
    BY <1>0, <1>6, <2>1 DEF Enter, Typed, Only, Working, Transferring, Ended, Codes
  <2>3. /\ pc'[c] \in {"file", "failed"}
        /\ pc'[c] = "failed" => todo'[c] = {}
    BY <1>0, <1>6 DEF Enter, Typed
  <2>4. InTime(c)'
    BY <1>0, <2>2, <2>3, SameTime
  <2> QED
    BY <1>0, <2>2, <2>3, <2>4, LocalStep DEF Reports
<1>7. CASE PutBegins(c)
  <2>1. Typed' /\ Only(c) /\ UNCHANGED <<done, todo>>
    <3>1. PutError(c) \in Codes
      BY DEF PutError, Codes
    <3>2. \/ pc' = [pc EXCEPT ![c] = "sending"] /\ code' = code
          \/ pc' = [pc EXCEPT ![c] = "failed"] /\ code' = [code EXCEPT ![c] = PutError(c)]
      BY <1>7 DEF PutBegins
    <3>3. time' = time \/ time' = [time EXCEPT ![c].checked = time[c].now]
      BY <1>7 DEF PutBegins, Notes
    <3>4. UNCHANGED <<setting, done, todo>>
      BY <1>0, <1>7 DEF PutBegins
    <3>5. pc' \in [Calls -> {"idle"} \cup Working \cup Ended] /\ code' \in [Calls -> Codes]
      BY <1>0, <3>1, <3>2 DEF Typed, Working, Transferring, Ended
    <3>6. time' \in [Calls -> Moments]
      BY <1>0, <3>3 DEF Typed, Moments
    <3>7. Only(c)
      BY <1>0, <3>2, <3>3, <3>4 DEF Typed, Only
    <3> QED
      BY <1>0, <3>4, <3>5, <3>6, <3>7 DEF Typed
  <2>2. \/ /\ pc'[c] = "sending" /\ ~Late(c)
           /\ time'[c].checked = time[c].now /\ time'[c].begun = time[c].begun
        \/ /\ pc'[c] = "failed" /\ time' = time /\ code'[c] = PutError(c)
    BY <1>0, <1>7 DEF PutBegins, Notes, Typed, Moments
  <2>3. setting.total \in Nat /\ time[c].now \in Nat /\ time[c].begun \in Nat
    BY <1>0, Budgets DEF Typed, Moments
  <2>4. InTime(c)'
    <3>1. CASE pc'[c] = "sending" /\ time'[c].checked = time[c].now
               /\ time'[c].begun = time[c].begun /\ ~Late(c)
      BY <1>0, <2>3, <3>1 DEF InTime, Late
    <3>2. CASE pc'[c] = "failed" /\ time' = time
      BY <1>0, <3>2, SameTime
    <3> QED
      BY <2>2, <3>1, <3>2
  <2>5. Reports(c)'
    BY <1>0, <2>1, <2>2 DEF Reports, PutError
  <2> QED
    BY <2>1, <2>4, <2>5, LocalStep
<1>8. CASE PutEnds(c)
  <2>1. Typed' /\ Only(c) /\ UNCHANGED <<done, todo, time>>
    BY <1>0, <1>8 DEF PutEnds, PutError, Typed, Only, Working, Transferring, Ended, Codes
  <2>2. \/ pc'[c] = "check"
        \/ pc'[c] = "failed" /\ code'[c] = PutError(c)
    BY <1>0, <1>8 DEF PutEnds, Typed
  <2>3. InTime(c)'
    BY <1>0, <2>1, <2>2, SameTime
  <2>4. Reports(c)'
    BY <1>0, <2>1, <2>2 DEF Reports, PutError
  <2> QED
    BY <2>1, <2>3, <2>4, LocalStep
<1>9. CASE Check(c)
  <2>1. todo[c] \ {NextFile(c)} \in SUBSET Files
    BY <1>0 DEF Typed
  <2>2. Typed' /\ Only(c) /\ UNCHANGED time
    BY <1>0, <1>9, <2>1 DEF Check, Uploaded, Typed, Only, Working, Transferring, Ended, Codes
  <2>3. pc'[c] = "file" \/ (pc'[c] = "failed" /\ setting.hashed)
    BY <1>0, <1>9 DEF Check, Uploaded, Typed
  <2>4. InTime(c)'
    BY <1>0, <2>2, <2>3, SameTime
  <2> QED
    BY <1>0, <2>2, <2>3, <2>4, LocalStep DEF Reports
<1>10. CASE Answer(c)
  <2>1. Typed' /\ Only(c) /\ pc'[c] = "ok" /\ UNCHANGED time
    BY <1>0, <1>10 DEF Answer, Typed, Only, Working, Transferring, Ended
  <2>2. InTime(c)'
    BY <1>0, <2>1, SameTime
  <2> QED
    BY <1>0, <2>1, <2>2, LocalStep DEF Reports
<1>11. CASE Tick(c)
  <2>1. Typed' /\ Only(c) /\ UNCHANGED <<pc, done, todo, code>>
    BY <1>0, <1>11 DEF Tick, Typed, Moments, Only
  <2>2. /\ time'[c].checked = time[c].checked /\ time'[c].begun = time[c].begun
        /\ pc[c] # "killed"
    BY <1>0, <1>11 DEF Tick, Typed, Moments, Transferring
  <2> QED
    BY <1>0, <2>1, <2>2, LocalStep DEF InTime, Reports
<1>12. CASE Kill(c)
  <2>1. Typed' /\ Only(c) /\ pc'[c] = "killed" /\ UNCHANGED time
    BY <1>0, <1>12 DEF Kill, Typed, Only, Ended
  <2>2. setting.timed => time[c].now >= setting.runner
    BY <1>12 DEF Kill
  <2>3. InTime(c)'
    BY <1>0, <2>1, <2>2, SameTime
  <2> QED
    BY <1>0, <2>1, <2>3, LocalStep DEF Reports
<1> QED
  BY <1>1, <1>2, <1>3, <1>4, <1>5, <1>6, <1>7, <1>8, <1>9, <1>10, <1>11, <1>12 DEF Step

LEMMA NextKeeps == IInv /\ [Next]_vars => IInv'
<1> SUFFICES ASSUME IInv, [Next]_vars PROVE IInv'
  OBVIOUS
<1>1. CASE UNCHANGED <<setting, pc, todo, done, code, time>>
  BY <1>1 DEF IInv, Typed, InTime, Reports
<1>2. CASE UNCHANGED vars \/ ((EditSource \/ Activation \/ Finished) /\ UNCHANGED setting)
  <2>1. UNCHANGED <<setting, pc, todo, done, code, time>>
    BY <1>2 DEF vars, EditSource, Activation, Finished, call
  <2> QED
    BY <1>1, <2>1
<1>3. CASE \E c \in Calls : Step(c) \/ ((Tick(c) \/ Kill(c)) /\ UNCHANGED setting)
  BY <1>3, StepKeeps
<1> QED
  BY <1>2, <1>3 DEF Next

THEOREM InvariantHolds == Spec => []IInv
<1>1. Init => IInv
  BY Initially
<1>2. IInv /\ [Next]_vars => IInv'
  BY NextKeeps
<1> QED
  BY <1>1, <1>2, PTL DEF Spec

\* isolated_execution_timeout, for every budget and deadline: whoever is killed
\* spent the headroom outside of the transfer's own looks at its deadlines.
THEOREM TransfersEndByThemselves == Spec => []EndsByItself
BY InvariantHolds, InvariantImplies, PTL

\* _sftp_upload_dir: without the hash check a failure among the files of
\* a directory says that files were uploaded before it.
THEOREM PartialUploadsReported == Spec => []PartialReported
BY InvariantHolds, InvariantImplies, PTL

-------------------------------------------------------------------------------
\* The other types ...
Shape ==
    /\ source \in Tree
    /\ remote \in [Trees -> [Files -> Versions \cup {Absent, Torn}]]
    /\ current \in Releases \cup {None, Made}
    /\ approved \in [Calls -> Tree]
    /\ via \in [Calls -> {"flat", "current"}]
    /\ level \in [Calls -> 0..setting.depth]
    /\ done \in [Calls -> SUBSET Files]
    /\ target \in [Calls -> Trees]

\* ... and how the walk goes on: what is left and what is done are files of the
\* directories that were entered, and no file is both.
Walks(c) ==
    /\ pc[c] \in {"sending", "check"} => todo[c] # {}
    /\ todo[c] \cap done[c] = {}
    /\ \A f \in todo[c] \cup done[c] : setting.dir[f] <= level[c]

WInv == Shape /\ \A c \in Calls : Walks(c)

LEMMA LeastElement ==
    ASSUME NEW S, S \subseteq Nat, S # {}
    PROVE  \E x \in S : \A y \in S : x <= y
<1>1. PICK x \in S : \A y \in S : ~ (<<y, x>> \in OpToRel(<, Nat))
  BY NatLessThanWellFounded, WFMin
<1>2. ASSUME NEW y \in S PROVE x <= y
  <2>1. x \in Nat /\ y \in Nat
    OBVIOUS
  <2>2. ~(y < x)
    BY <1>1, <2>1 DEF OpToRel
  <2> QED
    BY <2>1, <2>2
<1> QED
  BY <1>2

\* The walk takes its files in order, and there is a first one.
LEMMA NextIsLeft ==
    ASSUME Typed, NEW c \in Calls, todo[c] # {}
    PROVE  NextFile(c) \in todo[c] /\ NextFile(c) \in Files
<1>1. todo[c] \subseteq Files /\ todo[c] \subseteq Nat
  BY SyncAssumption DEF Typed
<1>2. \E f \in todo[c] : \A g \in todo[c] : f <= g
  BY <1>1, LeastElement
<1> QED
  BY <1>1, <1>2 DEF NextFile

LEMMA ShapeInitially == Init => WInv
<1> SUFFICES ASSUME Init PROVE WInv
  OBVIOUS
<1>1. setting.depth \in Nat /\ 0 \in 0..setting.depth
  BY SyncAssumption DEF Init
<1>2. "flat" \in Trees /\ Releases \cup {None} \subseteq Releases \cup {None, Made}
  BY DEF Trees
<1>3. [f \in Files |-> Absent] \in Tree
  BY DEF Tree
<1>4. remote \in [Trees -> [Files -> Versions \cup {Absent, Torn}]]
  <2>1. [Files -> {Absent}] \subseteq [Files -> Versions \cup {Absent, Torn}]
    OBVIOUS
  <2> QED
    BY <2>1 DEF Init
<1>5. Shape
  BY <1>1, <1>2, <1>3, <1>4 DEF Init, Shape
<1> QED
  BY <1>5 DEF Init, WInv, Walks

\* What the remote tree may become in a step of call c: the file that the call
\* is at changes, in one tree.
Sends(c) == \E t \in Trees, v \in Versions \cup {Torn} :
    remote' = [remote EXCEPT ![t][NextFile(c)] = v]

LEMMA ReachedTree ==
    ASSUME Shape, NEW c \in Calls, Reached(c) # None
    PROVE  Reached(c) \in Trees
BY DEF Shape, Reached, Trees

LEMMA RemoteSteps ==
    ASSUME Typed, WInv, NEW c \in Calls, Step(c)
    PROVE  /\ UNCHANGED remote \/ (todo[c] # {} /\ pc[c] \in Transferring /\ Sends(c))
           /\ remote' \in [Trees -> [Files -> Versions \cup {Absent, Torn}]]
<1> USE DEF call
<1>a. Shape /\ Walks(c)
  BY DEF WInv
<1>b. /\ target[c] \in Trees /\ source \in Tree /\ \A f \in Files : source[f] \in Versions \cup {Absent}
      /\ remote \in [Trees -> [Files -> Versions \cup {Absent, Torn}]]
  BY <1>a DEF Shape, Tree
<1>1. ASSUME NEW t \in Trees, NEW v \in Versions \cup {Torn}, todo[c] # {},
             remote' = [remote EXCEPT ![t][NextFile(c)] = v]
      PROVE  remote' \in [Trees -> [Files -> Versions \cup {Absent, Torn}]]
  <2>1. NextFile(c) \in Files
    BY <1>1, NextIsLeft
  <2>2. remote[t] \in [Files -> Versions \cup {Absent, Torn}]
    BY <1>b
  <2>3. [remote[t] EXCEPT ![NextFile(c)] = v] \in [Files -> Versions \cup {Absent, Torn}]
    BY <2>1, <2>2
  <2> QED
    BY <1>1, <1>b, <2>3
<1>2. CASE PutBegins(c)
  <2>1. pc[c] = "file" /\ todo[c] # {}
    BY <1>2 DEF PutBegins
  <2>2. \/ UNCHANGED remote
        \/ Reached(c) # None /\ remote' = [remote EXCEPT ![Reached(c)][NextFile(c)] = Torn]
    BY <1>2 DEF PutBegins
  <2>3. CASE UNCHANGED remote
    BY <1>b, <2>3
  <2>4. CASE Reached(c) # None /\ remote' = [remote EXCEPT ![Reached(c)][NextFile(c)] = Torn]
    <3>1. Reached(c) \in Trees /\ Torn \in Versions \cup {Torn}
      BY <1>a, <2>4, ReachedTree
    <3> QED
      BY <1>1, <2>1, <2>4, <3>1 DEF Sends, Transferring
  <2> QED
    BY <2>2, <2>3, <2>4
<1>3. CASE PutEnds(c)
  <2>1. pc[c] = "sending" /\ todo[c] # {}
    BY <1>3, <1>a DEF PutEnds, Walks
  <2>2. \/ UNCHANGED remote
        \/ /\ source[NextFile(c)] # Absent
           /\ remote' = [remote EXCEPT ![target[c]][NextFile(c)] = source[NextFile(c)]]
    BY <1>3 DEF PutEnds
  <2>3. CASE UNCHANGED remote
    BY <1>b, <2>3
  <2>4. CASE /\ source[NextFile(c)] # Absent
             /\ remote' = [remote EXCEPT ![target[c]][NextFile(c)] = source[NextFile(c)]]
    <3>1. NextFile(c) \in Files
      BY <2>1, NextIsLeft
    <3>2. source[NextFile(c)] \in Versions \cup {Torn}
      BY <1>b, <2>4, <3>1
    <3> QED
      BY <1>1, <1>b, <2>1, <2>4, <3>2 DEF Sends, Transferring
  <2> QED
    BY <2>2, <2>3, <2>4
<1>4. CASE ~PutBegins(c) /\ ~PutEnds(c)
  <2>1. UNCHANGED remote
    BY <1>4 DEF Step, DryRun, Apply, TransferBegins, Connect, NoConnection, Enter, Check, Answer
  <2> QED
    BY <1>b, <2>1
<1> QED
  BY <1>2, <1>3, <1>4

\* A step of one call keeps the types and the order of the walk.
LEMMA StepKeepsWalk ==
    ASSUME Typed, Typed', WInv, NEW c \in Calls, Step(c)
    PROVE  WInv'
<1> USE DEF Goto, Proceeds, Fails, call
<1>a. Shape /\ Walks(c) /\ setting' = setting
  BY DEF WInv, Step
<1>b. /\ source \in Tree /\ current \in Releases \cup {None, Made}
      /\ approved \in [Calls -> Tree] /\ via \in [Calls -> {"flat", "current"}]
      /\ level \in [Calls -> 0..setting.depth] /\ done \in [Calls -> SUBSET Files]
      /\ target \in [Calls -> Trees] /\ todo \in [Calls -> SUBSET Files]
      /\ pc \in [Calls -> {"idle"} \cup Working \cup Ended]
  BY <1>a DEF Shape, Typed
<1>c. /\ setting.depth \in Nat /\ setting.dir \in [Files -> 1..setting.depth]
      /\ level[c] \in Nat /\ level[c] \in 0..setting.depth
  BY <1>b, SyncAssumption DEF Typed
<1>d. remote' \in [Trees -> [Files -> Versions \cup {Absent, Torn}]]
  BY RemoteSteps
\* What a step of the call leaves of the others.
<1>1. ASSUME \A d \in Calls : d # c =>
                /\ pc'[d] = pc[d] /\ todo'[d] = todo[d] /\ done'[d] = done[d]
                /\ level'[d] = level[d],
             Shape', Walks(c)'
      PROVE  WInv'
  <2>1. ASSUME NEW d \in Calls, d # c PROVE Walks(d)'
    BY <1>1, <1>a, <2>1 DEF WInv, Walks
  <2> QED
    BY <1>1, <2>1 DEF WInv
<1>2. CASE DryRun(c)
  <2>1. Shape'
    BY <1>2, <1>a, <1>b, <1>c, <1>d DEF DryRun, Shape
  <2>2. todo'[c] = {} /\ done'[c] = {} /\ pc'[c] = "approved"
    BY <1>2, <1>b DEF DryRun
  <2>3. Walks(c)'
    BY <2>2 DEF Walks
  <2> QED
    BY <1>1, <1>2, <1>b, <2>1, <2>3 DEF DryRun
<1>3. CASE Apply(c) \/ TransferBegins(c) \/ Connect(c) \/ NoConnection(c) \/ Answer(c)
  <2>1. UNCHANGED <<source, current, approved, level, todo, done, target>>
    BY <1>3 DEF Apply, TransferBegins, Connect, NoConnection, Answer
  <2>2. via' \in [Calls -> {"flat", "current"}]
    BY <1>3, <1>b DEF Apply, TransferBegins, Connect, NoConnection, Answer, WritePath
  <2>3. Shape'
    BY <1>a, <1>d, <2>1, <2>2 DEF Shape
  <2>4. /\ pc'[c] \notin {"sending", "check"}
        /\ \A d \in Calls : d # c => pc'[d] = pc[d]
    BY <1>3, <1>b DEF Apply, NoTransport, TransferBegins, Connect, NoConnection, Answer
  <2>5. Walks(c)'
    BY <1>a, <2>1, <2>4 DEF Walks
  <2> QED
    BY <1>1, <2>1, <2>3, <2>4, <2>5
<1>4. CASE Enter(c)
  <2> DEFINE files == {f \in Present(source) : setting.dir[f] = level[c] + 1}
  <2>1. files \in SUBSET Files
    BY DEF Present
  <2>2. /\ todo[c] = {} /\ level[c] + 1 <= setting.depth
        /\ \/ /\ level' = [level EXCEPT ![c] = level[c] + 1]
              /\ todo' = [todo EXCEPT ![c] = files]
              /\ current' \in {Made, current}
              /\ UNCHANGED pc
           \/ UNCHANGED <<current, level, todo>> /\ pc' = [pc EXCEPT ![c] = "failed"]
        /\ UNCHANGED <<source, approved, via, done, target>>
        /\ pc[c] = "file"
    BY <1>4 DEF Enter
  <2> HIDE DEF files
  <2>3. level[c] + 1 \in 0..setting.depth
    BY <1>c, <2>2
  <2>4. Shape'
    BY <1>a, <1>b, <1>d, <2>2, <2>3 DEF Shape
  <2>5. CASE UNCHANGED <<level, todo>> /\ pc' = [pc EXCEPT ![c] = "failed"]
    <3>1. Walks(c)'
      BY <1>a, <1>b, <2>2, <2>5 DEF Walks
    <3> QED
      BY <1>1, <1>b, <2>2, <2>4, <2>5, <3>1
  <2>6. CASE /\ level' = [level EXCEPT ![c] = level[c] + 1]
             /\ todo' = [todo EXCEPT ![c] = files] /\ UNCHANGED pc
    <3>1. todo'[c] = files /\ level'[c] = level[c] + 1 /\ done'[c] = done[c] /\ pc'[c] = "file"
      BY <1>b, <2>2, <2>6
    <3>2. \A f \in done[c] : f \in Files /\ setting.dir[f] <= level[c] /\ setting.dir[f] \in Nat
      BY <1>a, <1>b, <1>c DEF Walks
    <3>3. \A f \in files : setting.dir[f] = level[c] + 1
      BY DEF files
    <3>4. \A f \in files \cup done[c] : setting.dir[f] <= level[c] + 1
      BY <1>c, <3>2, <3>3
    <3>5. files \cap done[c] = {}
      BY <1>c, <3>2, <3>3
    <3>6. Walks(c)'
      BY <1>a, <3>1, <3>4, <3>5 DEF Walks
    <3> QED
      BY <1>1, <1>b, <2>2, <2>4, <2>6, <3>6
  <2> QED
    BY <2>2, <2>5, <2>6
<1>5. CASE PutBegins(c)
  <2>1. /\ UNCHANGED <<source, current, approved, via, level, todo, done>> /\ todo[c] # {}
        /\ \A d \in Calls : d # c => pc'[d] = pc[d]
    BY <1>5, <1>b DEF PutBegins
  <2>2. target' \in [Calls -> Trees]
    BY <1>5, <1>a, <1>b, ReachedTree DEF PutBegins
  <2>3. Shape'
    BY <1>a, <1>d, <2>1, <2>2 DEF Shape
  <2>4. Walks(c)'
    BY <1>a, <2>1 DEF Walks
  <2> QED
    BY <1>1, <2>1, <2>3, <2>4
<1>6. CASE PutEnds(c)
  <2>1. /\ UNCHANGED <<source, current, call>> /\ todo[c] # {}
        /\ \A d \in Calls : d # c => pc'[d] = pc[d]
    BY <1>6, <1>a, <1>b DEF PutEnds, Walks
  <2>2. Shape' /\ Walks(c)'
    BY <1>a, <1>d, <2>1 DEF Shape, Walks
  <2> QED
    BY <1>1, <2>1, <2>2
<1>7. CASE Check(c)
  <2>1. /\ UNCHANGED <<source, current, approved, via, level, target>>
        /\ pc'[c] \notin {"sending", "check"} /\ \A d \in Calls : d # c => pc'[d] = pc[d]
        /\ \/ UNCHANGED <<todo, done>>
           \/ /\ done' = [done EXCEPT ![c] = done[c] \cup {NextFile(c)}]
              /\ todo' = [todo EXCEPT ![c] = todo[c] \ {NextFile(c)}]
    BY <1>7, <1>b DEF Check, Uploaded
  <2>2. NextFile(c) \in todo[c] /\ NextFile(c) \in Files
    BY <1>7, <1>a, NextIsLeft DEF Check, Walks
  <2>3. /\ done' \in [Calls -> SUBSET Files]
        /\ \A d \in Calls : d # c => todo'[d] = todo[d] /\ done'[d] = done[d]
        /\ todo'[c] \cup done'[c] \subseteq todo[c] \cup done[c]
        /\ todo'[c] \cap done'[c] = {}
    BY <1>a, <1>b, <2>1, <2>2 DEF Walks
  <2>4. Shape'
    BY <1>a, <1>d, <2>1, <2>3 DEF Shape
  <2>5. Walks(c)'
    BY <1>a, <2>1, <2>3 DEF Walks
  <2> QED
    BY <1>1, <2>1, <2>3, <2>4, <2>5
<1> QED
  BY <1>2, <1>3, <1>4, <1>5, <1>6, <1>7 DEF Step

LEMMA WalkKept == Typed /\ Typed' /\ WInv /\ [Next]_vars => WInv'
<1> SUFFICES ASSUME Typed, Typed', WInv, [Next]_vars PROVE WInv'
  OBVIOUS
<1>1. CASE \E c \in Calls : Step(c)
  BY <1>1, StepKeepsWalk
<1>2. ASSUME NEW c \in Calls, Tick(c) \/ Kill(c), UNCHANGED setting PROVE WInv'
  <2>1. /\ UNCHANGED <<source, remote, current, call>>
        /\ pc'[c] \in {"sending", "check"} => pc[c] \in {"sending", "check"}
        /\ \A d \in Calls : d # c => pc'[d] = pc[d]
    BY <1>2 DEF Tick, Kill, Proceeds, Goto, call, Typed
  <2> QED
    BY <1>2, <2>1 DEF WInv, Shape, Walks, call
<1>3. CASE EditSource /\ UNCHANGED setting
  <2>1. PICK f \in Files, v \in Versions \cup {Absent} : source' = [source EXCEPT ![f] = v]
    BY <1>3 DEF EditSource
  <2>2. source' \in Tree
    BY <2>1 DEF WInv, Shape, Tree
  <2> QED
    BY <1>3, <2>2 DEF EditSource, WInv, Shape, Walks, call
<1>4. CASE Activation /\ UNCHANGED setting
  BY <1>4 DEF Activation, WInv, Shape, Walks, call
<1>5. CASE UNCHANGED vars
  BY <1>5 DEF vars, WInv, Shape, Walks
<1> QED
  BY <1>1, <1>2, <1>3, <1>4, <1>5 DEF Next, Finished

LEMMA AlwaysWalks == Spec => [](IInv /\ WInv)
<1>1. IInv => Typed
  BY DEF IInv
<1> QED
  BY <1>1, Initially, NextKeeps, ShapeInitially, WalkKept, PTL DEF Spec

\* Types for every deployment, and a call that sends or checks has a file to
\* work on, which it has not done yet (_sftp_upload_dir).
THEOREM SyncTypes == Spec => []TypeOK
<1>1. IInv /\ WInv => TypeOK
  <2>1. Moments = [DOMAIN Started -> Nat]
    BY DEF Moments, Started
  <2> QED
    BY <2>1 DEF IInv, Typed, WInv, Shape, Walks, TypeOK
<1> QED
  BY <1>1, AlwaysWalks, PTL
-------------------------------------------------------------------------------
\* The runner lets one call transfer at a time.
OneTransfers == \A c, d \in Calls :
    pc[c] \in Transferring /\ pc[d] \in Transferring => c = d

\* With the hash check every planned file that was done is there.
Counted == \A c \in Calls :
    setting.hashed /\ pc[c] \in Transferring =>
        \A f \in done[c] \cap Present(approved[c]) :
            \E t \in Trees : remote[t][f] = approved[c][f]

LEMMA CountedKept ==
    ASSUME IInv, WInv, OneTransfers, Counted, [Next]_vars
    PROVE  Counted'
<1> USE DEF Goto, Proceeds, Fails, call
<1>a. /\ pc \in [Calls -> {"idle"} \cup Working \cup Ended]
      /\ done \in [Calls -> SUBSET Files] /\ approved \in [Calls -> Tree]
      /\ remote \in [Trees -> [Files -> Versions \cup {Absent, Torn}]] /\ Typed
  BY DEF IInv, Typed, WInv, Shape
<1> SUFFICES ASSUME NEW d \in Calls, setting.hashed, pc'[d] \in Transferring,
                    NEW f \in done'[d] \cap Present(approved'[d])
             PROVE  \E t \in Trees : remote'[t][f] = approved'[d][f]
  BY DEF Counted, Next, vars
<1>1. ASSUME pc[d] \in Transferring, f \in done[d], approved'[d] = approved[d]
      PROVE  \E t \in Trees : remote[t][f] = approved[d][f]
  BY <1>1 DEF Counted, Present
<1>2. ASSUME NEW c \in Calls, Step(c) PROVE \E t \in Trees : remote'[t][f] = approved'[d][f]
  <2>1. CASE d # c
    <3>1. pc'[d] = pc[d] /\ done'[d] = done[d] /\ approved'[d] = approved[d]
      BY <1>2, <1>a, <2>1
      DEF Step, DryRun, Apply, NoTransport, TransferBegins, Connect, NoConnection, Enter,
          PutBegins, PutEnds, Check, Uploaded, Answer
    <3>2. UNCHANGED remote
      BY <1>2, <2>1, <3>1, <1>a, RemoteSteps DEF OneTransfers
    <3> QED
      BY <1>1, <3>1, <3>2
  <2>2. CASE d = c /\ pc[c] \in {"idle", "failed", "killed", "approved", "preflight"}
    <3>1. done'[c] = {}
      BY <1>2, <1>a, <2>2
      DEF Step, DryRun, Apply, NoTransport, TransferBegins, Connect, NoConnection, Enter,
          PutBegins, PutEnds, Check, Uploaded, Answer, IInv, Reports
    <3> QED
      BY <2>2, <3>1
  <2>3. CASE d = c /\ pc[c] \in Transferring /\ f \in done[c]
    <3>1. UNCHANGED approved
      BY <1>2, <2>3
      DEF Step, DryRun, Apply, NoTransport, TransferBegins, Connect, NoConnection, Enter,
          PutBegins, PutEnds, Check, Uploaded, Answer, Transferring
    <3>2. PICK t \in Trees : remote[t][f] = approved[c][f]
      BY <1>1, <2>3, <3>1
    <3>3. f \in Files /\ (todo[c] # {} => NextFile(c) # f)
      BY <1>a, <2>3, NextIsLeft DEF WInv, Walks
    <3>4. remote'[t][f] = remote[t][f]
      <4>1. UNCHANGED remote \/ (todo[c] # {} /\ Sends(c))
        BY <1>2, <1>a, RemoteSteps
      <4>2. CASE todo[c] # {} /\ Sends(c)
        <5>1. PICK u \in Trees, v \in Versions \cup {Torn} :
                remote' = [remote EXCEPT ![u][NextFile(c)] = v]
          BY <4>2 DEF Sends
        <5>2. NextFile(c) # f /\ remote[u] \in [Files -> Versions \cup {Absent, Torn}]
          BY <1>a, <3>3, <4>2
        <5> QED
          BY <1>a, <3>3, <5>1, <5>2
      <4> QED
        BY <4>1, <4>2
    <3> QED
      BY <2>3, <3>1, <3>2, <3>4
  <2>4. CASE d = c /\ pc[c] \in Transferring /\ f \notin done[c]
    <3>1. Check(c) /\ f = NextFile(c)
      BY <1>2, <1>a, <2>4
      DEF Step, DryRun, Apply, NoTransport, TransferBegins, Connect, NoConnection, Enter,
          PutBegins, PutEnds, Check, Uploaded, Answer, Transferring
    <3>2. UNCHANGED <<remote, approved>> /\ approved[c][f] # Absent
      BY <3>1, <2>4 DEF Check, Present
    <3>3. Reached(c) # None /\ remote[Reached(c)][f] = approved[c][f]
      BY <1>a, <2>4, <3>1, <3>2 DEF Check, Transferring
    <3>4. Reached(c) \in Trees
      BY <3>3, ReachedTree DEF WInv
    <3> QED
      BY <2>4, <3>2, <3>3, <3>4
  <2> QED
    <3>1. pc[c] \in {"idle", "failed", "killed", "approved"} \cup Transferring
      BY <1>2 DEF Step, DryRun, Apply, TransferBegins, Connect, NoConnection, Enter,
          PutBegins, PutEnds, Check, Answer, Transferring
    <3> QED
      BY <2>1, <2>2, <2>3, <2>4, <3>1
<1>3. ASSUME NEW c \in Calls, Tick(c) \/ Kill(c)
      PROVE \E t \in Trees : remote'[t][f] = approved'[d][f]
  <2>1. pc[d] \in Transferring /\ UNCHANGED <<done, approved, remote>>
    BY <1>3, <1>a DEF Tick, Kill, Transferring
  <2> QED
    BY <1>1, <2>1
<1>4. CASE EditSource \/ Activation \/ UNCHANGED vars
  <2>1. UNCHANGED <<pc, done, approved, remote>>
    BY <1>4 DEF EditSource, Activation, vars
  <2> QED
    BY <1>1, <2>1
<1> QED
  BY <1>2, <1>3, <1>4 DEF Next, Finished

\* With the hash check, as long as no two calls transfer at once, a planned file
\* that an ok answer counts as uploaded is on the host with its approved content,
\* whatever happens to the source and to `current` (_sftp_upload_dir,
\* _verify_remote_hash).
THEOREM UploadsAreAsApproved == Spec /\ []OneTransfers => CountedAsApproved
<1>1. Init => Counted
  BY DEF Init, Counted, Transferring
<1>2. IInv /\ WInv /\ OneTransfers /\ Counted /\ [Next]_vars => Counted'
  BY CountedKept
<1>3. IInv /\ Counted /\ [Next]_vars =>
        [\A c \in Calls : setting.hashed /\ Answers(c) =>
            \A f \in done[c] \cap Present(approved[c]) :
                \E t \in Trees : remote[t][f] = approved[c][f]]_vars
  <2> SUFFICES ASSUME IInv, Counted, Next, NEW c \in Calls, setting.hashed, Answers(c)
               PROVE  \A f \in done[c] \cap Present(approved[c]) :
                        \E t \in Trees : remote[t][f] = approved[c][f]
    BY DEF vars
  <2>1. pc \in [Calls -> {"idle"} \cup Working \cup Ended]
    BY DEF IInv, Typed
  <2>2. pc[c] \in Transferring
    <3>1. pc'[c] = "ok" /\ pc[c] # "ok"
      BY DEF Answers
    <3>2. PICK d \in Calls : Step(d) \/ Tick(d) \/ Kill(d)
      BY <3>1 DEF Next, EditSource, Activation, Finished, vars
    <3>3. Answer(d) /\ d = c
      BY <2>1, <3>1, <3>2
      DEF Step, DryRun, Apply, NoTransport, TransferBegins, Connect, NoConnection, Enter,
          PutBegins, PutEnds, Check, Uploaded, Answer, Tick, Kill, Goto, Proceeds, Fails
    <3> QED
      BY <3>3 DEF Answer, Transferring
  <2> QED
    BY <2>2 DEF Counted
<1> QED
  BY <1>1, <1>2, <1>3, AlwaysWalks, PTL DEF Spec, CountedAsApproved

\* A lone caller needs nobody to keep others from transferring: what it counts as
\* uploaded is there as approved, through edits of the source, switches of
\* `current`, failures and kills, and however often it starts over.
THEOREM LoneUploadsAreAsApproved ==
    ASSUME \A c, d \in Calls : c = d
    PROVE  Spec => CountedAsApproved
<1>1. OneTransfers
  BY DEF OneTransfers
<1> QED
  BY <1>1, UploadsAreAsApproved, PTL
===============================================================================
