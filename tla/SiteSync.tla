------------------------------- MODULE SiteSync -------------------------------
(***************************************************************************)
(* site/command/sync, publish and the transfer of release-upload           *)
(* (_site_tree_sync of core.py): a local tree is planned by walking it and *)
(* hashing its files, the plan is approved by its hash, and the tree is    *)
(* walked again to upload it file by file.                                 *)
(*                                                                         *)
(* The source directory can be edited at any time.  A remote path with a   *)
(* `current` below it is written through `current`, which an activation    *)
(* (ReleaseStore) can take away and point elsewhere meanwhile.             *)
(***************************************************************************)
EXTENDS Integers, FiniteSets

CONSTANTS
    Calls,           \* callers of the handler
    Files,           \* file numbers, in the order of the walk
    Versions,        \* contents of a file
    Absent, Torn,    \* no file; a file that is being or was half written
    Releases,        \* release directories on the host
    None,            \* "no `current`"
    Made,            \* a plain directory that a call made under the name `current`
    Settings,        \* the deployments considered, see `setting`
    MaxEdits,        \* bound: edits of the source directory
    MaxActivations,  \* bound: times `current` changes
    MaxKills         \* bound: calls killed by the runner's deadline

ASSUME SyncAssumption ==
    /\ Files \subseteq Nat /\ IsFiniteSet(Files)
    /\ Absent # Torn /\ {Absent, Torn} \cap Versions = {}
    /\ {None, Made} \cap (Releases \cup {"flat"}) = {} /\ None # Made /\ "flat" \notin Releases
    /\ \A s \in Settings :
          /\ {s.frozen, s.hashed, s.timed} \subseteq BOOLEAN /\ s.dir \in [Files -> 1..s.depth]
          /\ {s.depth, s.operation, s.total, s.runner, s.faults} \subseteq Nat
    /\ {MaxEdits, MaxActivations, MaxKills} \subseteq Nat

VARIABLES
    setting,   \* the deployment, fixed: `frozen` iff the source is not edited while a
               \* call transfers and `current` never moves, `hashed` iff SFTP is used
               \* with PLESK_SYNC_VERIFY_REMOTE_HASH=1, `timed` iff time is looked at;
               \* `dir` gives each file's directory, of `depth` directories in the
               \* order of the walk, `operation` and `total` the budgets of a transfer,
               \* `runner` the deadline of the runner, `faults` bounds the operations
               \* that fail
    source,    \* the local tree
    remote,    \* remote[t]: the files of tree t on the host
    current,   \* the release that `current` points to, or Made
    pc,        \* where each call is
    approved,  \* the plan of each caller's dry run, which the grant is for
    via,       \* the path the call decided to write through
    level,     \* the directories that the second walk has entered
    todo,      \* the files of the last one that it has yet to upload
    done,      \* the files it has uploaded
    target,    \* the open remote file of the put in progress: its tree
    code,      \* the error code of the last answer
    time,      \* time[c]: how long the process runs, and at which moments it reached
               \* the transfer, the walk, and its last look at the deadlines
    budget     \* edits, activations, faults and kills so far

vars == <<setting, source, remote, current, pc, approved, via, level, todo, done, target, code,
          time, budget>>
call == <<approved, via, level, todo, done, target>>

Trees == Releases \cup {"flat", Made}
Tree == [Files -> Versions \cup {Absent}]
Present(tree) == {f \in Files : tree[f] # Absent}
Transferring == {"preflight", "connect", "file", "sending", "check"}
Working == {"approved"} \cup Transferring
Ended == {"ok", "failed", "killed"}
Codes == {"none", "plan_hash_mismatch", "capability_unavailable", "transfer",
          "partial_upload", "remote_hash_mismatch"}

NextFile(c) == CHOOSE f \in todo[c] : \A g \in todo[c] : f <= g

Spend(what, max) == budget[what] < max /\ budget' = [budget EXCEPT ![what] = @ + 1]
Fault == Spend("faults", setting.faults)
\* The process of call c looks at its clock and remembers the moment.
Notes(c, moment) == time' = [time EXCEPT ![c][moment] = time[c].now]
Started == [now |-> 0, begun |-> 0, uploading |-> 0, checked |-> 0]
Goto(c, place) == pc' = [pc EXCEPT ![c] = place]
Proceeds(c, place) == Goto(c, place) /\ UNCHANGED code
Fails(c, error) == Goto(c, "failed") /\ code' = [code EXCEPT ![c] = error]

Init ==
    /\ setting \in Settings
    /\ source \in Tree
    /\ remote \in [Trees -> [Files -> {Absent}]]
    /\ current \in Releases \cup {None}
    /\ pc = [c \in Calls |-> "idle"]
    /\ approved = [c \in Calls |-> [f \in Files |-> Absent]]
    /\ via = [c \in Calls |-> "flat"]
    /\ level = [c \in Calls |-> 0]
    /\ todo = [c \in Calls |-> {}]
    /\ done = [c \in Calls |-> {}]
    /\ target = [c \in Calls |-> "flat"]
    /\ code = [c \in Calls |-> "none"]
    /\ time = [c \in Calls |-> Started]
    /\ budget = [what \in {"edits", "activations", "faults", "kills"} |-> 0]
-------------------------------------------------------------------------------
\* The dry run: _plan_local_tree and build_immutable_manifest.  A caller whose
\* call failed or was killed starts over from here.
DryRun(c) ==
    /\ pc[c] \in {"idle", "failed", "killed"}
    /\ approved' = [approved EXCEPT ![c] = source]
    /\ code' = [code EXCEPT ![c] = "none"]
    /\ done' = [done EXCEPT ![c] = {}]
    /\ todo' = [todo EXCEPT ![c] = {}]
    /\ level' = [level EXCEPT ![c] = 0]
    /\ time' = [time EXCEPT ![c] = Started]
    /\ Goto(c, "approved")
    /\ UNCHANGED <<source, remote, current, via, target, budget>>

\* The approved plan is bound to the plan of this call by its hash.
Matches(c) == source = approved[c]

\* The grant is gone before a missing transport is noticed.
NoTransport(c) == Fault /\ Fails(c, "capability_unavailable")

\* The applying call plans again; a plan other than the approved one uploads
\* nothing.  Then the grant is consumed and a transport chosen.
Apply(c) ==
    /\ pc[c] = "approved"
    /\ \/ ~Matches(c) /\ Fails(c, "plan_hash_mismatch") /\ UNCHANGED budget
       \/ Matches(c) /\ Proceeds(c, "preflight") /\ UNCHANGED budget
       \/ Matches(c) /\ NoTransport(c)
    /\ UNCHANGED <<source, remote, current, call, time>>

\* The transfer begins, and with it the total budget.
TransferBegins(c) ==
    /\ pc[c] = "preflight"
    /\ time' = [time EXCEPT ![c].begun = time[c].now, ![c].checked = time[c].now]
    /\ Proceeds(c, "connect")
    /\ UNCHANGED <<source, remote, current, call, budget>>

\* _resolve_release_write_path: whether a `current` exists is looked up once.
WritePath == IF current = None THEN "flat" ELSE "current"

\* The tree that a write to the path of call c reaches now.
Reached(c) == IF via[c] = "current" THEN current ELSE "flat"

\* _publish_over_sftp, _publish_over_ftp: the path is resolved, and the walk
\* begins, for which there is a budget of its own.  A lookup that meets an error
\* answers that there is no `current` (_sftp_current_exists).
Connect(c) ==
    /\ pc[c] = "connect"
    /\ \/ via' = [via EXCEPT ![c] = WritePath] /\ UNCHANGED budget
       \/ via' = [via EXCEPT ![c] = "flat"] /\ Fault
    /\ Notes(c, "uploading")
    /\ Proceeds(c, "file")
    /\ UNCHANGED <<source, remote, current, approved, level, todo, done, target>>

\* _sftp_connect: no connection, a fingerprint that differs, a login refused.
NoConnection(c) ==
    /\ pc[c] = "connect"
    /\ Fault /\ Fails(c, "transfer")
    /\ UNCHANGED <<source, remote, current, call, time>>

\* Mutant of PutError: what was uploaded before is not looked at.
PutErrorPlain(c) == "transfer"

\* The code of a failure: whether a file was uploaded before.
PutError(c) == IF done[c] = {} THEN "transfer" ELSE "partial_upload"

\* The walk enters a directory and lists its files; _sftp_mkdirs makes whatever
\* is missing of its remote path.  When the first is entered that can be
\* `current` itself, if an activation has just taken the link away: then a plain
\* directory is made in its place.
Enter(c) ==
    LET next == level[c] + 1
    IN  /\ pc[c] = "file" /\ todo[c] = {} /\ next <= setting.depth
        /\ \/ /\ Reached(c) # None \/ level[c] = 0
              /\ current' = IF Reached(c) = None THEN Made ELSE current
              /\ level' = [level EXCEPT ![c] = next]
              /\ todo' = [todo EXCEPT ![c] = {f \in Present(source) : setting.dir[f] = next}]
              /\ UNCHANGED <<pc, code, budget>>
           \/ /\ IF Reached(c) = None /\ level[c] # 0 THEN UNCHANGED budget ELSE Fault
              /\ Fails(c, "transfer")
              /\ UNCHANGED <<current, level, todo>>
        /\ UNCHANGED <<source, remote, approved, via, done, target, time>>

\* Mutant of Late: the deadlines are not looked at.
LateNever(c) == FALSE

\* The deadlines are looked at before each file, and never while it is sent.
Late(c) ==
    /\ setting.timed
    /\ \/ time[c].now > time[c].begun + setting.total
       \/ time[c].now > time[c].uploading + setting.operation

\* The next file: the deadlines are looked at, and put opens the remote file,
\* which empties it.
PutBegins(c) ==
    LET f == NextFile(c)
        t == Reached(c)
    IN  /\ pc[c] = "file" /\ todo[c] # {}
        /\ \/ /\ ~Late(c) /\ t # None /\ source[f] # Absent
              /\ remote' = [remote EXCEPT ![t][f] = Torn]
              /\ target' = [target EXCEPT ![c] = t]
              /\ Notes(c, "checked")
              /\ Proceeds(c, "sending")
              /\ UNCHANGED budget
           \/ /\ IF Late(c) \/ t = None \/ source[f] = Absent THEN UNCHANGED budget ELSE Fault
              /\ Fails(c, PutError(c))
              /\ UNCHANGED <<remote, target, time>>
        /\ UNCHANGED <<source, current, approved, via, level, todo, done>>

\* Mutant of PutEnds: a file that cannot be sent is left for what it is.
PutEndsSkips(c) ==
    /\ pc[c] = "sending"
    /\ \/ /\ source[NextFile(c)] # Absent
          /\ remote' = [remote EXCEPT ![target[c]][NextFile(c)] = source[NextFile(c)]]
          /\ UNCHANGED budget
       \/ /\ IF source[NextFile(c)] = Absent THEN UNCHANGED budget ELSE Fault
          /\ UNCHANGED remote
    /\ Proceeds(c, "check")
    /\ UNCHANGED <<source, current, call, time>>

\* put sends what the source holds now; an error leaves the remote file torn.
PutEnds(c) ==
    LET f == NextFile(c)
    IN  /\ pc[c] = "sending"
        /\ \/ /\ source[f] # Absent
              /\ remote' = [remote EXCEPT ![target[c]][f] = source[f]]
              /\ Proceeds(c, "check")
              /\ UNCHANGED budget
           \/ /\ Fault
              /\ Fails(c, PutError(c))
              /\ UNCHANGED remote
           \/ /\ source[f] = Absent
              /\ Fails(c, PutError(c))
              /\ UNCHANGED <<remote, budget>>
        /\ UNCHANGED <<source, current, call, time>>

\* Mutant of Uploaded: the file stays in the walk.
UploadedAgain(c) ==
    /\ done' = [done EXCEPT ![c] = @ \cup {NextFile(c)}]
    /\ UNCHANGED todo
    /\ Proceeds(c, "file")

Uploaded(c) ==
    /\ done' = [done EXCEPT ![c] = @ \cup {NextFile(c)}]
    /\ todo' = [todo EXCEPT ![c] = @ \ {NextFile(c)}]
    /\ Proceeds(c, "file")

\* Mutant of Check: a hash is never compared.
CheckNothing(c) ==
    /\ pc[c] = "check"
    /\ Uploaded(c)
    /\ UNCHANGED <<source, remote, current, approved, via, level, target, time, budget>>

\* If asked to, the remote file is read back and compared with the plan, which
\* says nothing of a file it does not list.  A file that cannot be read is
\* a plain failure.
Check(c) ==
    LET f == NextFile(c)
        t == Reached(c)
        compared == setting.hashed /\ approved[c][f] # Absent
    IN  /\ pc[c] = "check"
        /\ \/ /\ ~compared \/ (t # None /\ remote[t][f] = approved[c][f])
              /\ Uploaded(c)
              /\ UNCHANGED budget
           \/ /\ compared /\ t # None /\ remote[t][f] \notin {approved[c][f], Absent}
              /\ Fails(c, "remote_hash_mismatch")
              /\ UNCHANGED <<todo, done, budget>>
           \/ /\ compared
              /\ IF t = None \/ remote[t][f] = Absent THEN UNCHANGED budget ELSE Fault
              /\ Fails(c, "transfer")
              /\ UNCHANGED <<todo, done>>
        /\ UNCHANGED <<source, remote, current, approved, via, level, target, time>>

\* Every file of the walk is uploaded.
Answer(c) ==
    /\ pc[c] = "file" /\ todo[c] = {} /\ level[c] = setting.depth
    /\ Proceeds(c, "ok")
    /\ UNCHANGED <<source, remote, current, call, time, budget>>

\* Time passes for a process; the runner lets none live beyond its deadline.
Tick(c) ==
    /\ setting.timed
    /\ pc[c] \in Transferring /\ time[c].now < setting.runner
    /\ time' = [time EXCEPT ![c].now = @ + 1]
    /\ UNCHANGED <<source, remote, current, pc, call, code, budget>>

\* The runner's deadline; where time is not looked at it can come at any moment.
Kill(c) ==
    /\ pc[c] \in Transferring
    /\ IF setting.timed
       THEN time[c].now >= setting.runner /\ UNCHANGED budget
       ELSE Spend("kills", MaxKills)
    /\ Proceeds(c, "killed")
    /\ UNCHANGED <<source, remote, current, call, time>>

\* Someone edits, adds or removes a file of the source directory.
EditSource ==
    /\ setting.frozen => \A c \in Calls : pc[c] \notin Transferring
    /\ ~setting.timed
    /\ Spend("edits", MaxEdits)
    /\ \E f \in Files, v \in Versions \cup {Absent} :
        v # source[f] /\ source' = [source EXCEPT ![f] = v]
    /\ UNCHANGED <<remote, current, pc, call, code, time>>

\* An activation takes `current` down and puts it up again (ReleaseStore); a
\* plain directory of that name it can neither remove nor replace.
Activation ==
    /\ ~setting.frozen
    /\ \/ current \in Releases /\ Spend("activations", MaxActivations) /\ current' = None
       \/ /\ current = None /\ budget["activations"] > 0 /\ UNCHANGED budget
          /\ \E r \in Releases : current' = r
    /\ UNCHANGED <<source, remote, pc, call, code, time>>

Finished == (\A c \in Calls : pc[c] = "ok") /\ UNCHANGED vars

Step(c) ==
    /\ \/ DryRun(c) \/ Apply(c) \/ TransferBegins(c) \/ Connect(c) \/ NoConnection(c)
       \/ Enter(c) \/ PutBegins(c) \/ PutEnds(c) \/ Check(c) \/ Answer(c)
    /\ UNCHANGED setting

Next ==
    /\ \/ EditSource \/ Activation \/ Finished
       \/ \E c \in Calls : Step(c) \/ Tick(c) \/ Kill(c)
    /\ UNCHANGED setting

Spec == Init /\ [][Next]_vars

\* The steps of a call are the handler's own; that a caller without an ok
\* starts over is the caller's part.
FairSpec == Spec /\ \A c \in Calls : WF_vars(Step(c))
-------------------------------------------------------------------------------
\* Types; a call that is sending or checking has a file to work on.
TypeOK ==
    /\ setting \in Settings
    /\ source \in Tree
    /\ remote \in [Trees -> [Files -> Versions \cup {Absent, Torn}]]
    /\ current \in Releases \cup {None, Made}
    /\ pc \in [Calls -> {"idle"} \cup Working \cup Ended]
    /\ approved \in [Calls -> Tree]
    /\ via \in [Calls -> {"flat", "current"}]
    /\ level \in [Calls -> 0..setting.depth]
    /\ {todo, done} \subseteq [Calls -> SUBSET Files]
    /\ target \in [Calls -> Trees]
    /\ code \in [Calls -> Codes]
    /\ time \in [Calls -> [DOMAIN Started -> Nat]]
    /\ \A c \in Calls : pc[c] \in {"sending", "check"} => todo[c] # {}
    /\ \A c \in Calls : todo[c] \cap done[c] = {}

Answers(c) == pc[c] # "ok" /\ pc'[c] = "ok"

\* With the hash check, a planned file that an ok answer counts as uploaded is
\* on the host with its approved content, whatever happened to the source and
\* to `current` meanwhile.
CountedAsApproved ==
    [][\A c \in Calls : setting.hashed /\ Answers(c) =>
        \A f \in done[c] \cap Present(approved[c]) :
            \E t \in Trees : remote[t][f] = approved[c][f]]_vars

\* A call that fails after it uploaded a file says so, unless it failed at a
\* directory that cannot be made or a remote file that cannot be read back.
PartialReported ==
    \A c \in Calls : ~setting.hashed /\ pc[c] = "failed" /\ todo[c] # {} /\ done[c] # {} =>
        code[c] = "partial_upload"

\* "so the connector can return its typed timeout/partial-upload result instead
\* of being killed by the generic runner" (isolated_execution_timeout): a process
\* is killed only if what it did before the transfer, where the total budget
\* begins, and the one file after its last look at the deadlines together took
\* longer than the runner's deadline exceeds the budget.
EndsByItself ==
    \A c \in Calls : setting.timed /\ pc[c] = "killed" =>
        time[c].begun + (time[c].now - time[c].checked) >= setting.runner - setting.total

\* In a frozen deployment a caller that starts over after failures and kills
\* ends with the whole approved tree where its last answer says it was written
\* (release_layout_redirect), whatever broken transfers left there.  That is the
\* served tree unless the lookup of `current` met an error: then the answer is
\* ok for a tree beside a live `current`.
Converges ==
    \A c \in Calls : <>[](setting.frozen /\ ~setting.timed =>
        /\ pc[c] = "ok"
        /\ \A f \in Present(approved[c]) : remote[Reached(c)][f] = approved[c][f])
===============================================================================
