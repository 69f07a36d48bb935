----------------------------- MODULE ReleaseStore -----------------------------
(***************************************************************************)
(* The release tree on the host and the handlers that change it:           *)
(* release_ops.py (state, activation, rollback over SFTP) and the handlers *)
(* release-upload, release-activate and release-rollback of core.py.       *)
(*                                                                         *)
(* `current` and `previous` are each named by a symlink and by a pointer   *)
(* file; reads prefer the symlink.  Over SFTP a symlink is replaced by a   *)
(* remove and a create, and a pointer file by a truncating open and a      *)
(* write, so every activation is a sequence of steps at which the call can *)
(* be killed, meet an error, or be overtaken by another call.  An error of *)
(* a read is swallowed: what could not be read counts as absent.           *)
(***************************************************************************)
EXTENDS Naturals

CONSTANTS
    Calls,        \* handler calls
    Releases,     \* release identifiers
    None,         \* "no release"
    Settings      \* the deployments considered: which calls there are, which
                  \* activation strategies they ask for, whether the runner
                  \* admits one call at a time, and two bounds: SFTP operations
                  \* that fail (on a host that refuses symlinks every attempt to
                  \* create one does) and calls killed by the runner's deadline

AllStrategies == {"auto", "symlink", "pointer"}

ASSUME StoreAssumption ==
    /\ None \notin Releases
    /\ Settings \subseteq [calls : SUBSET Calls, strategies : SUBSET AllStrategies,
                           serialized : BOOLEAN, faults : Nat, kills : Nat]

VARIABLES
    setting,  \* the deployment, fixed
    link,     \* link[s]: the release symlink s points to
    ptr,      \* ptr[s]: the release a readable pointer file for s names
    dir,      \* how much of each release's tree is on the host
    marked,   \* releases with __subactor_release.json
    pc,       \* where each call is; steps on a slot are pairs <<step, slot>>
    req,      \* what each call was asked for, what it read of the state, and
              \* (history) the release that was live when it read
    faults, kills

vars == <<setting, link, ptr, dir, marked, pc, req, faults, kills>>
host == <<link, ptr, dir, marked>>

Slots == {"current", "previous"}
Maybe == Releases \cup {None}
Kinds == {"activate", "rollback", "upload"}
Idle == <<"idle", "call">>
Ok == <<"ok", "call">>
Failed == <<"failed", "call">>
Request == [kind : Kinds, rel : Maybe, strategy : AllStrategies, old : Maybe, prev : Maybe,
            live : Maybe]

Init ==
    /\ setting \in Settings
    /\ link = [s \in Slots |-> None]
    /\ ptr = [s \in Slots |-> None]
    /\ dir = [r \in Releases |-> "absent"]
    /\ marked = {}
    /\ pc = [h \in Calls |-> Idle]
    /\ req = [h \in Calls |-> [kind |-> "upload", rel |-> None, strategy |-> "auto",
                               old |-> None, prev |-> None, live |-> None]]
    /\ faults = 0
    /\ kills = 0

\* read_current_state: the symlink wins over the pointer file, slot by slot.
\* readlink and read_bytes turn an error into None, so a link or a pointer file
\* in `lost` looks absent.
Names == {"link", "pointer"} \X Slots
Sees(s, lost) ==
    IF link[s] # None /\ <<"link", s>> \notin lost THEN link[s]
    ELSE IF <<"pointer", s>> \notin lost THEN ptr[s] ELSE None

Reads(s) == Sees(s, {})
Current == Reads("current")
Previous == Reads("previous")

\* The runner admits one call at a time.
Serialized == setting.serialized

Goto(h, place) == pc' = [pc EXCEPT ![h] = place]
Ends == {Ok, Failed}

Fault == faults < setting.faults /\ faults' = faults + 1
NoFault == UNCHANGED faults

\* A reading of the state; in a faulty one any of the names look absent.
Reading(lost) == IF lost = {} THEN NoFault ELSE Fault
-------------------------------------------------------------------------------
\* A handler starts, past its gates (_release_mutate_gates, the subject of
\* GrantReplay and MutateLease), and opens its SFTP session.
Begin(h, kind, rel, place) ==
    /\ pc[h] = Idle
    /\ Serialized => \A g \in Calls : pc[g] = Idle
    /\ \E s \in setting.strategies :
        req' = [req EXCEPT ![h] =
                  [kind |-> kind, rel |-> rel, strategy |-> s, old |-> None, prev |-> None,
                   live |-> None]]
    /\ Goto(h, <<place, "call">>)
    /\ UNCHANGED <<host, faults, kills>>

Activate(h) == \E r \in Releases : Begin(h, "activate", r, "resolve")

\* A rollback may leave the choice of the release to the state on the host.
RollBack(h) == \E r \in Maybe : Begin(h, "rollback", r, "lookup")

Upload(h) == \E r \in Releases : Begin(h, "upload", r, "upload")

Starts(h) == Activate(h) \/ RollBack(h) \/ Upload(h)

\* rollback_release: the caller's release, or else the previous one.
Lookup(h) ==
    /\ pc[h] = <<"lookup", "call">>
    /\ \E lost \in SUBSET Names :
        LET target == IF req[h].rel # None THEN req[h].rel ELSE Sees("previous", lost)
        IN  /\ Reading(lost)
            /\ IF target \in {None, Sees("current", lost)}
               THEN Goto(h, Failed) /\ UNCHANGED req
               ELSE /\ req' = [req EXCEPT ![h].rel = target]
                    /\ Goto(h, <<"resolve", "call">>)
    /\ UNCHANGED <<host, kills>>

\* The first step that changes something.
FirstChange(h) ==
    IF req[h].strategy = "pointer" THEN <<"open", "current">> ELSE <<"unlink", "previous">>

\* Mutant of Resolve: the release need not be on the host.
ResolveUnchecked(h) ==
    LET demoted == IF Current \notin {None, req[h].rel} THEN Current ELSE Previous
    IN  /\ pc[h] = <<"resolve", "call">>
        /\ req' = [req EXCEPT ![h].old = Current, ![h].prev = demoted, ![h].live = Current]
        /\ Goto(h, FirstChange(h))
        /\ UNCHANGED <<host, faults, kills>>

\* Mutant of Resolve: the previous release stays previous.
ResolveKeepsPrevious(h) ==
    /\ pc[h] = <<"resolve", "call">>
    /\ dir[req[h].rel] # "absent"
    /\ req' = [req EXCEPT ![h].old = Current, ![h].prev = Previous, ![h].live = Current]
    /\ Goto(h, FirstChange(h))
    /\ UNCHANGED <<host, faults, kills>>

\* Mutant of Unlink: `current` is taken down before `previous` is settled.
UnlinkBoth(h, s) ==
    /\ pc[h] = <<"unlink", s>>
    /\ \/ NoFault /\ link' = [t \in Slots |-> None]
       \/ Fault /\ UNCHANGED link
    /\ Goto(h, IF s = "previous" /\ req[h].prev = None
               THEN <<"unlink", "current">> ELSE <<"link", s>>)
    /\ UNCHANGED <<ptr, dir, marked, req, kills>>

\* The start of activate_release: the release must have a directory (its marker
\* is not required, and an error of the look counts as a missing one), and the
\* state read here decides what `previous` becomes.
Resolve(h) ==
    /\ pc[h] = <<"resolve", "call">>
    /\ \/ /\ dir[req[h].rel] # "absent"
          /\ \E lost \in SUBSET Names :
              LET old == Sees("current", lost)
                  demoted == IF old \notin {None, req[h].rel} THEN old ELSE Sees("previous", lost)
              IN  /\ Reading(lost)
                  /\ req' = [req EXCEPT ![h].old = old, ![h].prev = demoted, ![h].live = Current]
          /\ Goto(h, FirstChange(h))
       \/ /\ \/ dir[req[h].rel] = "absent" /\ NoFault
             \/ Fault
          /\ Goto(h, Failed)
          /\ UNCHANGED req
    /\ UNCHANGED <<host, kills>>

\* fs.symlink removes an existing link first; remove() swallows errors.  With
\* nothing to demote, `previous` is only removed.
Unlink(h, s) ==
    /\ pc[h] = <<"unlink", s>>
    /\ \/ NoFault /\ link' = [link EXCEPT ![s] = None]
       \/ Fault /\ UNCHANGED link
    /\ Goto(h, IF s = "previous" /\ req[h].prev = None
               THEN <<"unlink", "current">> ELSE <<"link", s>>)
    /\ UNCHANGED <<ptr, dir, marked, req, kills>>

\* sftp.symlink creates the link: first `previous`, then `current`.
Link(h, s) ==
    /\ pc[h] = <<"link", s>>
    /\ link[s] = None
    /\ link' = [link EXCEPT ![s] = IF s = "current" THEN req[h].rel ELSE req[h].prev]
    /\ Goto(h, IF s = "previous" THEN <<"unlink", "current">> ELSE <<"drop", "current">>)
    /\ UNCHANGED <<ptr, dir, marked, req, faults, kills>>

\* Mutant of LinkFails: the error path tidies the link away.
LinkFailsTidies(h, s) ==
    /\ pc[h] = <<"link", s>>
    /\ \/ NoFault /\ link[s] # None
       \/ Fault
    /\ link' = [link EXCEPT ![s] = None]
    /\ Goto(h, IF req[h].strategy = "auto" THEN <<"open", "current">> ELSE Failed)
    /\ UNCHANGED <<ptr, dir, marked, req, kills>>

\* It raises OSError when the link is still or again there, when the host
\* refuses it, or for a passing reason.  `auto` falls back to pointer files;
\* under `symlink` the error leaves the handler.
LinkFails(h, s) ==
    /\ pc[h] = <<"link", s>>
    /\ \/ NoFault /\ link[s] # None
       \/ Fault
    /\ Goto(h, IF req[h].strategy = "auto" THEN <<"open", "current">> ELSE Failed)
    /\ UNCHANGED <<host, req, kills>>

\* After the links, the pointer files are removed so that reads see the links.
Drop(h, s) ==
    /\ pc[h] = <<"drop", s>>
    /\ \/ NoFault /\ ptr' = [ptr EXCEPT ![s] = None]
       \/ Fault /\ UNCHANGED ptr
    /\ Goto(h, IF s = "current" THEN <<"drop", "previous">> ELSE Ok)
    /\ UNCHANGED <<link, dir, marked, req, kills>>

\* write_bytes opens the pointer file with "wb", which empties it; an empty
\* file parses as no pointer.
Open(h, s) ==
    /\ pc[h] = <<"open", s>>
    /\ \/ NoFault /\ ptr' = [ptr EXCEPT ![s] = None] /\ Goto(h, <<"fill", s>>)
       \/ Fault /\ UNCHANGED ptr /\ Goto(h, Failed)
    /\ UNCHANGED <<link, dir, marked, req, kills>>

\* Then it writes the payload.  `previous` is written only if something was
\* demoted, and after `current`.
Fill(h, s) ==
    /\ pc[h] = <<"fill", s>>
    /\ \/ /\ NoFault
          /\ ptr' = [ptr EXCEPT ![s] = IF s = "current" THEN req[h].rel ELSE req[h].prev]
          /\ Goto(h, IF s = "current" /\ req[h].prev # None THEN <<"open", "previous">> ELSE Ok)
       \/ Fault /\ UNCHANGED ptr /\ Goto(h, Failed)
    /\ UNCHANGED <<link, dir, marked, req, kills>>

\* Mutant of UploadBegins: the marker is written first.
UploadBeginsMarked(h) ==
    /\ pc[h] = <<"upload", "call">>
    /\ dir' = [dir EXCEPT ![req[h].rel] = "partial"]
    /\ marked' = marked \cup {req[h].rel}
    /\ Goto(h, <<"transfer", "call">>)
    /\ UNCHANGED <<link, ptr, req, faults, kills>>

\* release_upload: the tree is transferred file by file into releases/<id>,
\* which may exist already and may be the live one ...
UploadBegins(h) ==
    /\ pc[h] = <<"upload", "call">>
    /\ dir' = [dir EXCEPT ![req[h].rel] = "partial"]
    /\ Goto(h, <<"transfer", "call">>)
    /\ UNCHANGED <<link, ptr, marked, req, faults, kills>>

UploadEnds(h) ==
    /\ pc[h] = <<"transfer", "call">>
    /\ \/ /\ NoFault
          /\ dir' = [dir EXCEPT ![req[h].rel] = "whole"]
          /\ Goto(h, <<"mark", "call">>)
       \/ Fault /\ UNCHANGED dir /\ Goto(h, Failed)
    /\ UNCHANGED <<link, ptr, marked, req, kills>>

\* ... and the marker is written last, in a session of its own.
Mark(h) ==
    /\ pc[h] = <<"mark", "call">>
    /\ \/ NoFault /\ marked' = marked \cup {req[h].rel} /\ Goto(h, Ok)
       \/ Fault /\ UNCHANGED marked /\ Goto(h, Failed)
    /\ UNCHANGED <<link, ptr, dir, req, kills>>

\* The call answers its caller.
Return(h) ==
    /\ pc[h] \in Ends
    /\ Goto(h, Idle)
    /\ UNCHANGED <<host, req, faults, kills>>

\* The runner kills the call's process at its deadline; the host keeps what
\* was done so far.
Kill(h) ==
    /\ pc[h] \notin Ends \cup {Idle}
    /\ kills < setting.kills
    /\ kills' = kills + 1
    /\ Goto(h, Idle)
    /\ UNCHANGED <<host, req, faults>>

Step(h) ==
    \/ Lookup(h) \/ Resolve(h)
    \/ \E s \in Slots : Unlink(h, s) \/ Link(h, s) \/ LinkFails(h, s)
                            \/ Drop(h, s) \/ Open(h, s) \/ Fill(h, s)
    \/ UploadBegins(h) \/ UploadEnds(h) \/ Mark(h) \/ Return(h)

Next ==
    /\ \E h \in setting.calls : Starts(h) \/ Step(h) \/ Kill(h)
    /\ UNCHANGED setting

Spec == Init /\ [][Next]_vars
-------------------------------------------------------------------------------
Steps == {"unlink", "link", "drop", "open", "fill"}
Places ==
    {Idle, Ok, Failed} \cup (Steps \X Slots)
        \cup ({"lookup", "resolve", "upload", "transfer", "mark"} \X {"call"})

\* Types; a call that works on a release has one, and the state names no
\* release without a directory.
TypeOK ==
    /\ setting \in Settings
    /\ link \in [Slots -> Maybe]
    /\ ptr \in [Slots -> Maybe]
    /\ dir \in [Releases -> {"absent", "partial", "whole"}]
    /\ marked \subseteq Releases
    /\ pc \in [Calls -> Places]
    /\ req \in [Calls -> Request]
    /\ faults \in Nat /\ kills \in Nat
    /\ \A h \in Calls : pc[h] \notin {Idle, Failed, <<"lookup", "call">>} =>
          req[h].rel \in Releases
    /\ \A h \in Calls : pc[h][2] = "previous" /\ pc[h][1] \in {"link", "open", "fill"} =>
          req[h].prev \in Releases
    /\ \A s \in Slots, r \in Releases : r \in {link[s], ptr[s]} => dir[r] # "absent"

\* A pointer file is written while a link that reads prefer stays in place.
Writes(h, s) == IF s = "current" THEN req[h].rel ELSE req[h].prev
Shadowed(h, s) == req[h].strategy # "symlink" /\ link[s] \notin {None, Writes(h, s)}

\* The call replaces a release, and it did not miss that one when it read the state.
Replaces(h) == req[h].live \notin {None, req[h].rel} /\ req[h].old = req[h].live

\* One call at a time, an activation or rollback that answers ok took effect: a
\* reader now sees its release as current, and the release it replaced as
\* `previous`, so that a rollback would restore it (activate_release,
\* rollback_release).  A leftover link can hide the pointer file of its slot;
\* then the release that was live is still current, and never a third one.  An
\* error of a read can hide the live release from the call, which then demotes
\* another or none.
EffectiveActivation ==
    Serialized => \A h \in Calls : pc[h] = Ok /\ req[h].kind # "upload" =>
        /\ Current \in {req[h].rel, req[h].live}
        /\ ~Shadowed(h, "current") => Current = req[h].rel
        /\ ~Shadowed(h, "previous") /\ Replaces(h) => Previous = req[h].live

\* One call at a time, while an activation replaces one release by another
\* through links, and so also after it is killed or fails at any point, the
\* release that was live is still named by `current` or `previous`: "demote
\* prior current -> previous" comes first.  Pointer files come in the other order.
OldStillNamed ==
    Serialized => \A h \in Calls :
        pc[h][1] \in {"unlink", "link", "drop"} /\ Replaces(h) => req[h].live \in {Current, Previous}

\* Once the dust settles after a successful activation some release is current:
\* with one call at a time whatever fails or is killed, and when calls overlap,
\* where one may fail because of the other, as long as none is killed.
NotLeftUnpublished ==
    Serialized \/ (setting.faults = 0 /\ setting.kills = 0) =>
        ((\A h \in Calls : pc[h] \in Ends \cup {Idle})
            /\ (\E h \in Calls : pc[h] = Ok /\ req[h].kind # "upload")
         => Current # None)
===============================================================================
