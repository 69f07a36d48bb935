------------------------------- MODULE TwinSync -------------------------------
(***************************************************************************)
(* site/command/twin-sync and site/query/twin-current of core.py, over     *)
(* LocalReleaseFs of release_ops.py: a site tree is materialized as a      *)
(* release of a local volume and made current by a symlink.                *)
(*                                                                         *)
(* A release is named by the hash of its plan, so a release IS the tree it *)
(* was planned as, and a repeated call rewrites the same release, also     *)
(* while it is current.  The source directory can be edited at any time,   *)
(* calls can overlap, and the runner kills a call at its deadline.         *)
(***************************************************************************)
EXTENDS Naturals, FiniteSets

CONSTANTS
    Calls,         \* callers of twin-sync
    Observers,     \* callers of twin-current
    Files,         \* file numbers, in the order of the plan
    Entries,       \* the twin profiles, each known by the entrypoint it declares
    Versions,      \* contents of a file
    Absent, Torn,  \* no file; a file opened for writing and not filled
    Trees,         \* the trees that the source directory may hold
    None,          \* "no release"
    Settings       \* the deployments considered: which calls there are, whether the
                   \* runner admits one call at a time, and bounds on edits of the
                   \* source and of the profile, faults, kills, calls repeated after an
                   \* ok answer and twin-current calls

Plan == [Files -> Versions \cup {Absent}]
Present(tree) == {f \in Files : tree[f] # Absent}

ASSUME TwinAssumption ==
    /\ Calls \cap Observers = {}
    /\ Files \subseteq Nat /\ IsFiniteSet(Files) /\ Entries \subseteq Files
    /\ Absent # Torn /\ {Absent, Torn} \cap Versions = {}
    /\ Trees \subseteq Plan /\ None \notin Trees
    /\ Settings \subseteq [calls : SUBSET Calls, serialized : BOOLEAN, edits : Nat, profiles : Nat,
                           faults : Nat, kills : Nat, again : Nat, queries : Nat]

VARIABLES
    setting,   \* the deployment, fixed
    profile,   \* the registered twin profile
    source,    \* the source directory
    store,     \* store[r]: the files of release r in the volume
    marker,    \* marker[r]: its __subactor_release.json
    link,      \* the releases that the symlinks current and previous point to
    pc,        \* where each call is; steps on a link are pairs <<step, slot>>
    agreed,    \* the profile whose hash each caller sends
    approved,  \* the plan of each caller's dry run, whose hash it sends back
    todo,      \* the files of the plan that the call has yet to write
    demoted,   \* what the call decided to make previous
    seen,      \* the release that a twin-current call found current
    scan,      \* the source tree that it scanned
    budget     \* edits, faults, kills and repeated calls so far

vars == <<setting, profile, source, store, marker, link, pc, agreed, approved, todo, demoted,
          seen, scan, budget>>
volume == <<store, marker, link>>
inputs == <<profile, source>>
sync == <<agreed, approved, todo, demoted>>
query == <<seen, scan>>

Slots == {"current", "previous"}
Maybe == Trees \cup {None}
Rest == {"idle", "approved", "ok", "failed", "killed", "fresh", "conflicting"}
Actors == Calls \cup Observers
At(a, place) == pc[a] = <<place, "call">>
Resting(a) == pc[a][1] \in Rest
NextFile(c) == CHOOSE f \in todo[c] : \A g \in todo[c] : f <= g

Spend(what) == budget[what] < setting[what] /\ budget' = [budget EXCEPT ![what] = @ + 1]
Fault == Spend("faults")
Goto(a, place) == pc' = [pc EXCEPT ![a] = <<place, "call">>]
GotoLink(c, step, s) == pc' = [pc EXCEPT ![c] = <<step, s>>]

\* Any OSError or RuntimeError: the call answers that it is not verified, and
\* leaves the volume as it is.
Fails(c) == Goto(c, "failed") /\ UNCHANGED <<store, marker, link>>

\* The runner admits the call.
Admitted == setting.serialized => \A a \in Actors : Resting(a)

Init ==
    /\ setting \in Settings
    /\ profile \in Entries
    /\ source \in Trees
    /\ store = [r \in Trees |-> [f \in Files |-> Absent]]
    /\ marker = [r \in Trees |-> "absent"]
    /\ link = [s \in Slots |-> None]
    /\ pc = [a \in Actors |-> <<"idle", "call">>]
    /\ agreed = [a \in Actors |-> profile]
    /\ approved = [c \in Calls |-> source]
    /\ todo = [c \in Calls |-> {}]
    /\ demoted = [c \in Calls |-> None]
    /\ seen = [o \in Observers |-> None]
    /\ scan = [o \in Observers |-> source]
    /\ budget = [what \in {"edits", "profiles", "faults", "kills", "again", "queries"} |-> 0]
-------------------------------------------------------------------------------
\* _twin_profile_contract: the registered profile has the hash that was sent.
Contract(a) == agreed[a] = profile

\* The dry run: _plan_local_tree and build_immutable_manifest.  A caller whose
\* call failed or was killed starts over from here, and may come back later.
DryRun(c) ==
    /\ Resting(c) /\ ~At(c, "approved")
    /\ IF At(c, "ok") THEN Spend("again") ELSE UNCHANGED budget
    /\ agreed' = [agreed EXCEPT ![c] = profile]
    /\ approved' = [approved EXCEPT ![c] = source]
    /\ Goto(c, "approved")
    /\ UNCHANGED <<inputs, volume, todo, demoted, query>>

\* The applying call checks the contract and plans again; the plan must have the
\* approved hash.
Apply(c) ==
    /\ At(c, "approved") /\ Admitted
    /\ todo' = [todo EXCEPT ![c] = Present(source)]
    /\ Goto(c, IF Contract(c) /\ source = approved[c] THEN "copy" ELSE "failed")
    /\ UNCHANGED <<inputs, volume, agreed, approved, demoted, query, budget>>

\* Mutant of Copy: the content is not compared with the plan.
CopyUnchecked(c) ==
    LET f == NextFile(c)
    IN  /\ At(c, "copy") /\ todo[c] # {}
        /\ \/ /\ source[f] # Absent
              /\ store' = [store EXCEPT ![approved[c]][f] = source[f]]
              /\ Goto(c, "readback")
              /\ UNCHANGED <<marker, link>>
           \/ source[f] = Absent /\ Fails(c)
        /\ UNCHANGED <<inputs, sync, query, budget>>

\* Mutant of Copy: a file that the release has already is not written again.
CopyMissing(c) ==
    LET f == NextFile(c)
    IN  /\ At(c, "copy") /\ todo[c] # {}
        /\ \/ /\ store[approved[c]][f] # Absent
              /\ todo' = [todo EXCEPT ![c] = @ \ {f}]
              /\ UNCHANGED <<store, pc>>
           \/ /\ store[approved[c]][f] = Absent /\ source[f] = approved[c][f]
              /\ store' = [store EXCEPT ![approved[c]][f] = Torn]
              /\ Goto(c, "fill")
              /\ UNCHANGED todo
           \/ /\ source[f] # approved[c][f]
              /\ Goto(c, "failed")
              /\ UNCHANGED <<store, todo>>
        /\ UNCHANGED <<inputs, marker, link, agreed, approved, demoted, query, budget>>

\* A file is read and compared with the plan; then write_bytes opens its copy
\* with "wb", which empties it.
Copy(c) ==
    LET f == NextFile(c)
    IN  /\ At(c, "copy") /\ todo[c] # {}
        /\ \/ /\ source[f] = approved[c][f]
              /\ store' = [store EXCEPT ![approved[c]][f] = Torn]
              /\ Goto(c, "fill")
              /\ UNCHANGED <<marker, link, budget>>
           \/ /\ IF source[f] = approved[c][f] THEN Fault ELSE UNCHANGED budget
              /\ Fails(c)
        /\ UNCHANGED <<inputs, sync, query>>

\* The content read before is written.
Fill(c) ==
    LET f == NextFile(c)
    IN  /\ At(c, "fill")
        /\ \/ /\ store' = [store EXCEPT ![approved[c]][f] = approved[c][f]]
              /\ Goto(c, "readback")
              /\ UNCHANGED <<marker, link, budget>>
           \/ Fault /\ Fails(c)
        /\ UNCHANGED <<inputs, sync, query>>

\* The copy is read back and compared with the plan.
ReadBack(c) ==
    LET f == NextFile(c)
    IN  /\ At(c, "readback")
        /\ \/ /\ store[approved[c]][f] = approved[c][f]
              /\ todo' = [todo EXCEPT ![c] = @ \ {f}]
              /\ Goto(c, "copy")
              /\ UNCHANGED <<volume, budget>>
           \/ /\ IF store[approved[c]][f] = approved[c][f] THEN Fault ELSE UNCHANGED budget
              /\ Fails(c) /\ UNCHANGED todo
        /\ UNCHANGED <<inputs, agreed, approved, demoted, query>>

\* After the last file the marker is opened ...
OpenMarker(c) ==
    /\ At(c, "copy") /\ todo[c] = {}
    /\ \/ /\ marker' = [marker EXCEPT ![approved[c]] = "torn"]
          /\ Goto(c, "mark")
          /\ UNCHANGED <<store, link, budget>>
       \/ Fault /\ Fails(c)
    /\ UNCHANGED <<inputs, sync, query>>

\* ... and filled.
FillMarker(c) ==
    /\ At(c, "mark")
    /\ \/ /\ marker' = [marker EXCEPT ![approved[c]] = "written"]
          /\ Goto(c, "entry")
          /\ UNCHANGED <<store, link, budget>>
       \/ Fault /\ Fails(c)
    /\ UNCHANGED <<inputs, sync, query>>

\* The entrypoint must be in the plan and have its content in the release.
CheckEntry(c) ==
    LET r == approved[c]
        entry == agreed[c]
        good == r[entry] # Absent /\ store[r][entry] = r[entry]
    IN  /\ At(c, "entry")
        /\ \/ good /\ Goto(c, "resolve") /\ UNCHANGED <<volume, budget>>
           \/ (IF good THEN Fault ELSE UNCHANGED budget) /\ Fails(c)
        /\ UNCHANGED <<inputs, sync, query>>

\* activate_release(strategy="symlink"): the state read here decides what
\* previous becomes.  No pointer file is ever written in this volume.
Resolve(c) ==
    /\ At(c, "resolve")
    /\ demoted' = [demoted EXCEPT ![c] =
                     IF link["current"] \notin {None, approved[c]}
                     THEN link["current"] ELSE link["previous"]]
    /\ GotoLink(c, "unlink", "previous")
    /\ UNCHANGED <<inputs, volume, agreed, approved, todo, query, budget>>

\* Mutant of Unlink: a link is created over the one that exists.
UnlinkNothing(c, s) ==
    /\ pc[c] = <<"unlink", s>>
    /\ IF s = "previous" /\ demoted[c] = None
       THEN GotoLink(c, "unlink", "current") ELSE GotoLink(c, "link", s)
    /\ UNCHANGED <<inputs, volume, sync, query, budget>>

\* Mutant of Unlink: `previous` is linked also with nothing to demote.
UnlinkAlways(c, s) ==
    /\ pc[c] = <<"unlink", s>>
    /\ link' = [link EXCEPT ![s] = None]
    /\ GotoLink(c, "link", s)
    /\ UNCHANGED <<inputs, store, marker, sync, query, budget>>

\* LocalReleaseFs.symlink removes a link that exists; another call can remove
\* it first, which is an error here.
Unlink(c, s) ==
    /\ pc[c] = <<"unlink", s>>
    /\ \/ /\ link' = [link EXCEPT ![s] = None]
          /\ IF s = "previous" /\ demoted[c] = None
             THEN GotoLink(c, "unlink", "current") ELSE GotoLink(c, "link", s)
          /\ UNCHANGED <<store, marker, budget>>
       \/ (IF \E d \in Calls \ {c} : ~Resting(d) THEN UNCHANGED budget ELSE Fault) /\ Fails(c)
    /\ UNCHANGED <<inputs, sync, query>>

\* os.symlink; a link made by another call meanwhile is an error.
Link(c, s) ==
    /\ pc[c] = <<"link", s>>
    /\ \/ /\ link[s] = None
          /\ link' = [link EXCEPT ![s] = IF s = "current" THEN approved[c] ELSE demoted[c]]
          /\ IF s = "previous" THEN GotoLink(c, "unlink", "current") ELSE Goto(c, "ok")
          /\ UNCHANGED <<store, marker, budget>>
       \/ (IF link[s] = None THEN Fault ELSE UNCHANGED budget) /\ Fails(c)
    /\ UNCHANGED <<inputs, sync, query>>

\* The runner's deadline.
Kill(c) ==
    /\ ~Resting(c)
    /\ Spend("kills")
    /\ Goto(c, "killed")
    /\ UNCHANGED <<inputs, volume, sync, query>>

\* Someone edits the source directory.
EditSource ==
    /\ Spend("edits")
    /\ \E t \in Trees \ {source} : source' = t
    /\ UNCHANGED <<profile, volume, pc, sync, query>>

\* Someone registers another profile.
EditProfile ==
    /\ Spend("profiles")
    /\ \E p \in Entries \ {profile} : profile' = p
    /\ UNCHANGED <<source, volume, pc, sync, query>>
-------------------------------------------------------------------------------
\* twin-current checks the contract and reads the links ...
Query(o) ==
    /\ Resting(o) /\ Admitted
    /\ Spend("queries")
    /\ agreed' = [agreed EXCEPT ![o] = profile]
    /\ seen' = [seen EXCEPT ![o] = link["current"]]
    /\ Goto(o, IF link["current"] = None THEN "failed" ELSE "marker")
    /\ UNCHANGED <<inputs, volume, approved, todo, demoted, scan>>

\* ... the marker of the release they name ...
QueryMarker(o) ==
    /\ At(o, "marker")
    /\ Goto(o, IF marker[seen[o]] = "written" THEN "scan" ELSE "failed")
    /\ UNCHANGED <<inputs, volume, sync, query, budget>>

\* ... scans and hashes the source ...
QueryScan(o) ==
    /\ At(o, "scan")
    /\ scan' = [scan EXCEPT ![o] = source]
    /\ Goto(o, "verdict")
    /\ UNCHANGED <<inputs, volume, sync, seen, budget>>

\* Mutant of Fresh: the entrypoint alone is compared.
FreshEntry(o) ==
    LET entry == agreed[o] IN scan[o][entry] # Absent /\ store[seen[o]][entry] = scan[o][entry]

\* ... and compares: the entrypoint by its content, the rest by the plan hash
\* that the marker holds, which is the release's.
Fresh(o) ==
    /\ LET entry == agreed[o]
       IN  scan[o][entry] # Absent /\ store[seen[o]][entry] = scan[o][entry]
    /\ seen[o] = scan[o]

QueryVerdict(o) ==
    /\ At(o, "verdict")
    /\ Goto(o, IF Fresh(o) THEN "fresh" ELSE "conflicting")
    /\ UNCHANGED <<inputs, volume, sync, query, budget>>

Finished == (\A c \in setting.calls : At(c, "ok")) /\ UNCHANGED vars

Step(c) ==
    /\ c \in setting.calls
    /\ \/ DryRun(c) \/ Apply(c) \/ Copy(c) \/ Fill(c) \/ ReadBack(c)
       \/ OpenMarker(c) \/ FillMarker(c) \/ CheckEntry(c) \/ Resolve(c)
       \/ \E s \in Slots : Unlink(c, s) \/ Link(c, s)
    /\ UNCHANGED setting

Observe(o) ==
    /\ Query(o) \/ QueryMarker(o) \/ QueryScan(o) \/ QueryVerdict(o)
    /\ UNCHANGED setting

Next ==
    /\ \/ EditSource \/ EditProfile \/ Finished
       \/ \E c \in Calls : Step(c) \/ Kill(c)
       \/ \E o \in Observers : Observe(o)
    /\ UNCHANGED setting

Spec == Init /\ [][Next]_vars

\* The steps of a call are the handler's own; that a caller without an ok
\* starts over is the caller's part.
FairSpec ==
    /\ Spec
    /\ \A c \in Calls : WF_vars(Step(c))
    /\ \A o \in Observers : WF_vars(Observe(o))
-------------------------------------------------------------------------------
LinkSteps == {"unlink", "link"} \X Slots
Places ==
    LinkSteps \cup ((Rest \cup {"copy", "fill", "readback", "mark", "entry", "resolve",
                                "marker", "scan", "verdict"}) \X {"call"})

\* Types; a call that writes a file has one to write, and one that has written
\* the marker has none left.
TypeOK ==
    /\ setting \in Settings
    /\ profile \in Entries
    /\ source \in Trees
    /\ store \in [Trees -> [Files -> Versions \cup {Absent, Torn}]]
    /\ marker \in [Trees -> {"absent", "torn", "written"}]
    /\ link \in [Slots -> Maybe]
    /\ pc \in [Actors -> Places]
    /\ agreed \in [Actors -> Entries]
    /\ approved \in [Calls -> Trees]
    /\ todo \in [Calls -> SUBSET Files]
    /\ demoted \in [Calls -> Maybe]
    /\ seen \in [Observers -> Maybe]
    /\ scan \in [Observers -> Trees]
    /\ budget \in [{"edits", "profiles", "faults", "kills", "again", "queries"} -> Nat]
    /\ \A c \in Calls : pc[c][1] \in {"fill", "readback"} => todo[c] # {}
    /\ \A c \in Calls : pc[c] = <<"link", "previous">> => demoted[c] # None
    /\ \A o \in Observers : pc[o][1] \in {"marker", "scan", "verdict"} => seen[o] # None

\* Release r holds all of its plan and nothing else; a file may be in the
\* middle of being written again.
HoldsPlan(r) ==
    \A f \in Files : store[r][f] \in (IF r[f] = Absent THEN {Absent} ELSE {Torn, r[f]})

\* However calls overlap, fail and are killed, and however the source is edited
\* meanwhile, a release named by `current` or `previous` has every file of its
\* plan, and no file with a content of another plan ("Plan or materialize an
\* exact site tree").
LiveIsPlanned == \A s \in Slots : link[s] # None => HoldsPlan(link[s])

Answers(a, place) == ~At(a, place) /\ At(a, place)'

\* One call at a time, an ok answer with verified=True is about the release
\* that is current now, whole and with its marker, although each file was
\* verified at another time and a killed call may have torn it before.
VerifiedIsWhole ==
    [][\A c \in Calls : setting.serialized /\ Answers(c, "ok") =>
        /\ link'["current"] = approved[c]
        /\ store[approved[c]] = approved[c]
        /\ marker[approved[c]] = "written"]_vars

\* "A fresh fact only when the current release still matches the registered
\* source": twin-current hashes the entrypoint alone, so this holds as long as
\* no call was killed or failed while it wrote a release again.
Calm == setting.serialized /\ setting.kills = 0 /\ setting.faults = 0
FreshMatches ==
    [][\A o \in Observers : Calm /\ Answers(o, "fresh") =>
        link["current"] = seen[o] /\ store[seen[o]] = scan[o]]_vars

\* A lone caller that starts over after failures and kills ends with an ok and
\* the release whole, whatever was torn before; unless the source has no
\* entrypoint, which no call accepts.
Converges ==
    setting.serialized /\ setting.calls # {} =>
        <>[](source[profile] # Absent =>
                \A c \in setting.calls : At(c, "ok") /\ store[approved[c]] = approved[c])
===============================================================================
