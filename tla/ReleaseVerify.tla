---------------------------- MODULE ReleaseVerify -----------------------------
(***************************************************************************)
(* The release store together with the calls that judge what it serves:    *)
(* release-verify and publish-verify of core.py, over the ladder of        *)
(* verify_ladder.py.                                                       *)
(*                                                                         *)
(* A verifying call changes nothing.  It climbs rungs, each of which reads *)
(* something at a moment of its own (the marker in the release tree, what  *)
(* the origin serves, where the name points, what the public name serves), *)
(* while uploads and activations may change the store in between.          *)
(***************************************************************************)
EXTENDS ReleaseStore, Integers

CONSTANTS
    Verifiers,  \* verifying calls
    Asks,       \* what they may be asked for
    Observed,   \* the settings in which there are verifying calls
    Fresh       \* those in which every upload has a new release identifier

AskType ==
    [kind : {"release", "publish"}, rel : Releases, origin : BOOLEAN, ip : BOOLEAN,
     targets : BOOLEAN, tls : BOOLEAN, public : BOOLEAN]

ASSUME VerifyAssumption ==
    /\ Asks # {} /\ Asks \subseteq AskType
    /\ Observed \subseteq Settings /\ Fresh \subseteq Observed
    /\ \A a \in Asks : a.kind = "release" => a.tls

VARIABLES
    zone,   \* where the public name points
    place,  \* place[v]: the rung that v is at, or how it answered
    ask,    \* what v was asked for
    seen    \* history: the releases that were served, with their marker, during the call

verifyVars == <<zone, place, ask, seen>>
allVars == <<vars, verifyVars>>

Answers == {"told", "verified", "failed"}
Rungs == <<"origin", "dns", "tls", "public">>

\* What a call that is not there was asked for.
Nothing == CHOOSE a \in Asks : TRUE

\* What the host serves: the release that `current` names, and its marker.
Served == {Current} \cap marked

VerifyInit ==
    /\ Init
    /\ zone \in IF setting \in Observed THEN {"here", "elsewhere"} ELSE {"here"}
    /\ place = [v \in Verifiers |-> "idle"]
    /\ ask = [v \in Verifiers |-> Nothing]
    /\ seen = [v \in Verifiers |-> {}]

Move(v, to) == place' = [place EXCEPT ![v] = to]
-------------------------------------------------------------------------------
\* The rungs that a request asks for; no targets, no DNS rung.
Wants(a, rung) ==
    \/ rung = "origin" /\ a.origin
    \/ rung = "dns" /\ a.targets
    \/ rung = "tls" /\ a.tls
    \/ rung = "public" /\ a.public

\* The rung after the first k; after the last the ladder has succeeded.
RungAfter(v, k) ==
    LET left == {j \in 1..4 : j > k /\ Wants(ask[v], Rungs[j])}
    IN  IF left = {} THEN "verified" ELSE Rungs[CHOOSE j \in left : \A i \in left : j <= i]

\* The handler starts.  publish-verify begins with the ladder.
VerifyBegins(v) ==
    /\ setting \in Observed
    /\ place[v] = "idle"
    /\ Serialized => (\A h \in Calls : pc[h] = Idle) /\ (\A w \in Verifiers : place[w] = "idle")
    /\ \E a \in Asks :
          /\ ask' = [ask EXCEPT ![v] = a]
          /\ Move(v, "begun")
    /\ seen' = [seen EXCEPT ![v] = Served]
    /\ UNCHANGED <<vars, zone>>

FirstRung(v) ==
    /\ place[v] = "begun" /\ ask[v].kind = "publish"
    /\ Move(v, RungAfter(v, 0))
    /\ UNCHANGED <<vars, zone, ask, seen>>

\* _read_release_meta, verify_release_local: release-verify requires the marker in
\* the release tree (no file of the tree is read); asked for neither origin nor
\* public verification it answers ok at once.
ReadMeta(v) ==
    /\ place[v] = "begun" /\ ask[v].kind = "release"
    /\ ask[v].rel \in marked
    /\ Move(v, IF ask[v].origin \/ ask[v].public THEN RungAfter(v, 0) ELSE "told")
    /\ UNCHANGED <<vars, zone, ask, seen>>

\* compare_fingerprints: the fetched marker is the one of the expected release.
Fetched(v) == ask[v].rel \in Served

\* _rung_origin asks the address of the host; without an address it passes.
Origin(v) ==
    /\ place[v] = "origin"
    /\ ask[v].ip => Fetched(v)
    /\ Move(v, RungAfter(v, 1))
    /\ UNCHANGED <<vars, zone, ask, seen>>

\* _rung_dns: the name resolves to one of the targets.
Dns(v) ==
    /\ place[v] = "dns"
    /\ zone = "here"
    /\ Move(v, RungAfter(v, 2))
    /\ UNCHANGED <<vars, zone, ask, seen>>

\* _rung_tls: the served certificate covers the name (SslLadder).
Tls(v) ==
    /\ place[v] = "tls"
    /\ Move(v, RungAfter(v, 3))
    /\ UNCHANGED <<vars, zone, ask, seen>>

\* _rung_public: the name is fetched as anybody would.
Public(v) ==
    /\ place[v] = "public"
    /\ zone = "here" /\ Fetched(v)
    /\ Move(v, "verified")
    /\ UNCHANGED <<vars, zone, ask, seen>>

\* _fail_ladder: any rung can fail, for what it sees or because a request does.
VerifyFails(v) ==
    /\ place[v] \in {"begun", "origin", "dns", "tls", "public"}
    /\ Move(v, "failed")
    /\ UNCHANGED <<vars, zone, ask, seen>>

\* The call answers its caller.
VerifyReturns(v) ==
    /\ place[v] \in Answers
    /\ Move(v, "idle")
    /\ seen' = [seen EXCEPT ![v] = {}]
    /\ ask' = [ask EXCEPT ![v] = Nothing]
    /\ UNCHANGED <<vars, zone>>

VerifyStep(v) ==
    \/ VerifyBegins(v) \/ FirstRung(v) \/ ReadMeta(v)
    \/ Origin(v) \/ Dns(v) \/ Tls(v) \/ Public(v)
    \/ VerifyFails(v) \/ VerifyReturns(v)

\* The name comes to point to this host (DnsReplace).
CutOver ==
    /\ zone = "elsewhere" /\ zone' = "here"
    /\ UNCHANGED <<vars, place, ask, seen>>

\* Where identifiers are fresh, an upload goes to a release that nothing knows.
NewRelease(h) ==
    LET r == req'[h].rel
    IN  /\ dir[r] = "absent"
        /\ \A g \in Calls \ {h} : pc[g] # Idle => req[g].rel # r

\* The store goes on; a runner that admits one call at a time starts no other
\* while a verifying call is there.
StoreStep(h) ==
    /\ \/ /\ Serialized => \A v \in Verifiers : place[v] = "idle"
          /\ \/ Activate(h) \/ RollBack(h)
             \/ Upload(h) /\ (setting \in Fresh => NewRelease(h))
       \/ Step(h) \/ Kill(h)
    /\ UNCHANGED <<zone, place, ask>>
    /\ seen' = [v \in Verifiers |-> IF place[v] = "idle" THEN {} ELSE seen[v] \cup Served']

VerifyNext ==
    /\ \/ \E h \in setting.calls : StoreStep(h)
       \/ \E v \in Verifiers : VerifyStep(v)
       \/ CutOver
    /\ UNCHANGED setting

VerifySpec == VerifyInit /\ [][VerifyNext]_allVars
-------------------------------------------------------------------------------
\* Types, those of the store among them.
VerifyTypeOK ==
    /\ TypeOK
    /\ zone \in {"here", "elsewhere"}
    /\ place \in [Verifiers -> {"idle", "begun", "origin", "dns", "tls", "public"} \cup Answers]
    /\ ask \in [Verifiers -> Asks]
    /\ seen \in [Verifiers -> SUBSET Releases]

\* The call has looked at what is served.
Looked(v) == (ask[v].origin /\ ask[v].ip) \/ ask[v].public

\* A verified answer of a call that fetched something speaks of a release that
\* was served during the call, and that is still served if calls do not overlap.
\* With fresh release identifiers an ok of any kind speaks of a tree that is
\* there in full, although no rung reads it: the marker is written last
\* (release_upload), so that whoever sees the marker may trust the tree.
VerifiedIsServed ==
    \A v \in Verifiers :
        /\ place[v] = "verified" /\ Looked(v) =>
              ask[v].rel \in seen[v] /\ (Serialized => ask[v].rel \in Served)
        /\ place[v] = "told" \/ (place[v] = "verified" /\ Looked(v)) =>
              (setting \in Fresh => dir[ask[v].rel] = "whole")
===============================================================================
