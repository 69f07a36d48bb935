---------------------------- MODULE TwinSyncProofs ----------------------------
(***************************************************************************)
(* Theorems about TwinSync for any number of calls, files and trees, and   *)
(* any deployment: whatever overlaps, fails or is killed.                  *)
(***************************************************************************)
EXTENDS TwinSync, TLAPS, WellFoundedInduction

\* The first file of a walk that is not over belongs to it.
LEMMA NextFileExists ==
    ASSUME NEW c \in Calls, todo[c] \subseteq Nat, todo[c] # {}
    PROVE  NextFile(c) \in todo[c]
<1> DEFINE R == OpToRel(<, Nat)
<1>1. IsWellFoundedOn(R, Nat)
  BY NatLessThanWellFounded
<1>2. \E x \in todo[c] : \A y \in todo[c] : ~(<<y, x>> \in R)
  BY <1>1, WFMin
<1>3. \A x, y \in Nat : <<y, x>> \in R <=> y < x
  BY DEF OpToRel
<1> HIDE DEF R
<1>4. \E x \in todo[c] : \A y \in todo[c] : x <= y
  <2>1. PICK x \in todo[c] : \A y \in todo[c] : ~(<<y, x>> \in R)
    BY <1>2
  <2>2. ASSUME NEW y \in todo[c] PROVE x <= y
    <3>1. ~(y < x)
      BY <1>3, <2>1
    <3> QED
      BY <3>1
  <2> QED
    BY <2>2
<1> QED
  BY <1>4 DEF NextFile

\* A call that writes or has written its release.
Writing == {"copy", "fill", "readback", "mark", "entry", "resolve", "unlink", "link"}
Written == {"mark", "entry", "resolve", "unlink", "link"}

Complete(r) == \A f \in Present(r) : store[r][f] # Absent

\* The types that the argument needs.
Typed ==
    /\ source \in Trees
    /\ store \in [Trees -> [Files -> Versions \cup {Absent, Torn}]]
    /\ link \in [Slots -> Maybe]
    /\ pc \in [Actors -> Places]
    /\ approved \in [Calls -> Trees]
    /\ todo \in [Calls -> SUBSET Files]
    /\ demoted \in [Calls -> Maybe]

\* A release never holds what is not of its plan, current or not.
Stored ==
    \A r \in Trees : \A f \in Files :
        store[r][f] # Absent => r[f] # Absent /\ store[r][f] \in {Torn, r[f]}

\* Of the files that the call no longer has to write, none is missing.
Progress(c) ==
    /\ pc[c][1] \in Writing =>
          /\ todo[c] \subseteq Present(approved[c])
          /\ \A f \in Present(approved[c]) \ todo[c] : store[approved[c]][f] # Absent
    /\ pc[c][1] \in {"fill", "readback"} => todo[c] # {}
    /\ pc[c][1] \in Written => todo[c] = {}

\* What is named, or about to be named, is complete.
Named(c) == pc[c][1] \in {"unlink", "link"} /\ demoted[c] # None => Complete(demoted[c])
Links == \A s \in Slots : link[s] # None => Complete(link[s])

IInv == Typed /\ Stored /\ (\A c \in Calls : Progress(c) /\ Named(c)) /\ Links

\* No step takes a file out of a release or puts a foreign content in it.
Kept ==
    /\ store' \in [Trees -> [Files -> Versions \cup {Absent, Torn}]]
    /\ Stored'
    /\ \A r \in Trees : \A f \in Files : store[r][f] # Absent => store'[r][f] # Absent

LEMMA SameStore == ASSUME Typed, Stored, store' = store PROVE Kept
BY DEF Typed, Stored, Kept

\* Opening or filling a planned file of a release.
LEMMA FileWritten ==
    ASSUME Typed, Stored, NEW r \in Trees, NEW f \in Present(r), NEW v \in {Torn, r[f]},
           store' = [store EXCEPT ![r][f] = v]
    PROVE  Kept /\ store'[r][f] # Absent
<1>1. f \in Files /\ r[f] \in Versions /\ v # Absent /\ v \in Versions \cup {Absent, Torn}
  BY TwinAssumption DEF Present, Plan
<1>2. store' \in [Trees -> [Files -> Versions \cup {Absent, Torn}]]
  BY <1>1 DEF Typed
<1>3. /\ store'[r][f] = v
      /\ \A g \in Files \ {f} : store'[r][g] = store[r][g]
      /\ \A q \in Trees \ {r} : store'[q] = store[q]
  BY <1>1 DEF Typed
<1>4. Stored'
  BY <1>1, <1>3 DEF Stored, Present
<1> QED
  BY <1>1, <1>2, <1>3, <1>4 DEF Kept

\* A complete release stays complete.
LEMMA CompleteStays ==
    ASSUME Typed, Kept, NEW r \in Trees, Complete(r) PROVE Complete(r)'
BY DEF Typed, Kept, Complete, Present

\* The steps of one call keep the invariant if they keep what it says of that
\* call and of the links.
LEMMA LocalStep ==
    ASSUME NEW c \in Calls, IInv, Kept, Typed', Links', Progress(c)', Named(c)',
           \A d \in Calls \ {c} : /\ pc'[d] = pc[d] /\ approved'[d] = approved[d]
                                  /\ todo'[d] = todo[d] /\ demoted'[d] = demoted[d]
    PROVE  IInv'
<1>1. ASSUME NEW d \in Calls \ {c} PROVE Progress(d)'
  <2>1. Progress(d) /\ approved[d] \in Trees
    BY DEF IInv, Typed
  <2>2. \A f \in Files : store[approved[d]][f] # Absent => store'[approved[d]][f] # Absent
    BY <2>1 DEF Kept
  <2> QED
    BY <2>1, <2>2 DEF Progress, Present
<1>2. ASSUME NEW d \in Calls \ {c} PROVE Named(d)'
  <2>1. Named(d) /\ demoted[d] \in Maybe
    BY DEF IInv, Typed
  <2>2. CASE demoted[d] = None
    BY <2>2 DEF Named
  <2>3. CASE demoted[d] # None
    <3>1. demoted[d] \in Trees
      BY <2>1, <2>3 DEF Maybe
    <3>2. Complete(demoted[d]) => Complete(demoted[d])'
      BY <3>1, CompleteStays DEF IInv, Complete
    <3> QED
      BY <2>1, <2>3, <3>2 DEF Named, Complete
  <2> QED
    BY <2>2, <2>3
<1> QED
  BY <1>1, <1>2 DEF IInv, Kept

\* What Goto, GotoLink and EXCEPT on a call's variables mean.
LEMMA Moves ==
    ASSUME IInv, NEW c \in Calls
    PROVE  /\ \A place : Goto(c, place) /\ <<place, "call">> \in Places =>
                 /\ pc' \in [Actors -> Places] /\ pc'[c] = <<place, "call">>
                 /\ \A d \in Calls \ {c} : pc'[d] = pc[d]
           /\ \A step \in {"unlink", "link"}, s \in Slots : GotoLink(c, step, s) =>
                 /\ pc' \in [Actors -> Places] /\ pc'[c] = <<step, s>>
                 /\ \A d \in Calls \ {c} : pc'[d] = pc[d]
<1>1. pc \in [Actors -> Places] /\ c \in Actors /\ \A d \in Calls : d \in Actors
  BY DEF IInv, Typed, Actors
<1>2. \A step \in {"unlink", "link"}, s \in Slots : <<step, s>> \in Places
  BY DEF Places, LinkSteps
<1> QED
  BY <1>1, <1>2 DEF Goto, GotoLink

\* Failing, being killed, and every step to a place of rest.
LEMMA Rests ==
    ASSUME NEW c \in Calls, IInv, NEW place \in Rest, Goto(c, place), source' \in Trees,
           store' = store, link' = link, todo' = todo, demoted' = demoted,
           approved' \in [Calls -> Trees],
           \A d \in Calls \ {c} : approved'[d] = approved[d]
    PROVE  IInv'
<1>1. <<place, "call">> \in Places
  BY DEF Places
<1>2. /\ pc' \in [Actors -> Places] /\ pc'[c] = <<place, "call">>
      /\ \A d \in Calls \ {c} : pc'[d] = pc[d]
  BY <1>1, Moves
<1>3. Kept
  BY SameStore DEF IInv
<1>4. Typed'
  BY <1>2 DEF IInv, Typed
<1>5. Links'
  BY DEF IInv, Links, Complete
<1>6. Progress(c)' /\ Named(c)'
  BY <1>2 DEF Progress, Named, Rest, Writing, Written
<1> QED
  BY <1>2, <1>3, <1>4, <1>5, <1>6, LocalStep

\* A step that fails.
LEMMA FailsKeeps ==
    ASSUME NEW c \in Calls, IInv, Fails(c), source' = source, approved' = approved,
           todo' = todo, demoted' = demoted
    PROVE  IInv'
<1>1. "failed" \in Rest /\ source' \in Trees /\ approved' \in [Calls -> Trees]
  BY DEF Rest, IInv, Typed
<1> QED
  BY <1>1, Rests DEF Fails

LEMMA DryRunKeeps == ASSUME NEW c \in Calls, IInv, DryRun(c) PROVE IInv'
<1>1. "approved" \in Rest /\ Goto(c, "approved")
  BY DEF Rest, DryRun
<1>2. approved' = [approved EXCEPT ![c] = source] /\ source \in Trees
  BY DEF DryRun, IInv, Typed
<1>3. /\ approved' \in [Calls -> Trees]
      /\ \A d \in Calls \ {c} : approved'[d] = approved[d]
  BY <1>2 DEF IInv, Typed
<1> QED
  BY <1>1, <1>2, <1>3, Rests DEF DryRun, inputs, volume

LEMMA ApplyKeeps == ASSUME NEW c \in Calls, IInv, Apply(c) PROVE IInv'
<1>1. PICK place \in {"copy", "failed"} :
        Goto(c, place) /\ (place = "copy" => source = approved[c])
  BY DEF Apply
<1>2. /\ pc' \in [Actors -> Places] /\ pc'[c] = <<place, "call">>
      /\ \A d \in Calls \ {c} : pc'[d] = pc[d]
  BY <1>1, Moves DEF Places, Rest
<1>3. todo' = [todo EXCEPT ![c] = Present(source)] /\ Present(source) \subseteq Files
  BY DEF Apply, Present
<1>4. /\ todo' \in [Calls -> SUBSET Files] /\ todo'[c] = Present(source)
      /\ \A d \in Calls \ {c} : todo'[d] = todo[d]
  BY <1>3 DEF IInv, Typed
<1>5. UNCHANGED <<source, store, link, approved, demoted>>
  BY DEF Apply, inputs, volume
<1>6. Kept /\ Typed' /\ Links'
  BY <1>2, <1>4, <1>5, SameStore DEF IInv, Typed, Links, Complete
<1>7. Progress(c)' /\ Named(c)'
  BY <1>1, <1>2, <1>4, <1>5 DEF Progress, Named, Writing, Written
<1> QED
  BY <1>2, <1>4, <1>5, <1>6, <1>7, LocalStep

LEMMA CopyKeeps == ASSUME NEW c \in Calls, IInv, Copy(c) PROVE IInv'
<1> DEFINE f == NextFile(c)
           r == approved[c]
<1>1. UNCHANGED <<source, approved, todo, demoted>>
  BY DEF Copy, inputs, sync
<1>2. CASE Fails(c)
  BY <1>1, <1>2, FailsKeeps
<1>3. CASE ~Fails(c)
  <2>1. /\ pc[c] = <<"copy", "call">> /\ todo[c] # {}
        /\ store' = [store EXCEPT ![r][f] = Torn]
        /\ Goto(c, "fill") /\ link' = link
    BY <1>3 DEF Copy, At
  <2>2. /\ todo[c] \subseteq Present(r) /\ r \in Trees
        /\ \A g \in Present(r) \ todo[c] : store[r][g] # Absent
    BY <2>1 DEF IInv, Progress, Writing, Typed
  <2>3. f \in Present(r)
    BY <2>1, <2>2, NextFileExists, TwinAssumption DEF Present
  <2>4. Kept
    <3> HIDE DEF f, r
    <3> QED
      BY <2>1, <2>2, <2>3, FileWritten DEF IInv
  <2>5. /\ pc' \in [Actors -> Places] /\ pc'[c] = <<"fill", "call">>
        /\ \A d \in Calls \ {c} : pc'[d] = pc[d]
    BY <2>1, Moves DEF Places
  <2>6. Typed'
    BY <1>1, <2>1, <2>4, <2>5 DEF IInv, Typed, Kept
  <2>7. Links'
    BY <2>1, <2>4, CompleteStays DEF IInv, Links, Complete, Typed, Maybe
  <2>8. Progress(c)' /\ Named(c)'
    <3>1. \A g \in Present(r) \ todo[c] : store'[r][g] # Absent
      BY <2>2, <2>4 DEF Kept, Present
    <3> QED
      BY <1>1, <2>1, <2>2, <2>5, <3>1 DEF Progress, Named, Writing, Written, Present
  <2> QED
    BY <1>1, <2>4, <2>5, <2>6, <2>7, <2>8, LocalStep
<1> QED
  BY <1>2, <1>3

LEMMA FillKeeps == ASSUME NEW c \in Calls, IInv, Fill(c) PROVE IInv'
<1> DEFINE f == NextFile(c)
           r == approved[c]
<1>1. UNCHANGED <<source, approved, todo, demoted>>
  BY DEF Fill, inputs, sync
<1>2. CASE Fails(c)
  BY <1>1, <1>2, FailsKeeps
<1>3. CASE ~Fails(c)
  <2>1. /\ pc[c] = <<"fill", "call">> /\ store' = [store EXCEPT ![r][f] = r[f]]
        /\ Goto(c, "readback") /\ link' = link
    BY <1>3 DEF Fill, At
  <2>2. /\ todo[c] # {} /\ todo[c] \subseteq Present(r) /\ r \in Trees
        /\ \A g \in Present(r) \ todo[c] : store[r][g] # Absent
    BY <2>1 DEF IInv, Progress, Writing, Typed
  <2>3. f \in Present(r)
    BY <2>2, NextFileExists, TwinAssumption DEF Present
  <2>4. Kept
    <3> HIDE DEF f, r
    <3> QED
      BY <2>1, <2>2, <2>3, FileWritten DEF IInv
  <2>5. /\ pc' \in [Actors -> Places] /\ pc'[c] = <<"readback", "call">>
        /\ \A d \in Calls \ {c} : pc'[d] = pc[d]
    BY <2>1, Moves DEF Places
  <2>6. Typed'
    BY <1>1, <2>1, <2>4, <2>5 DEF IInv, Typed, Kept
  <2>7. Links'
    BY <2>1, <2>4, CompleteStays DEF IInv, Links, Complete, Typed, Maybe
  <2>8. Progress(c)' /\ Named(c)'
    <3>1. \A g \in Present(r) \ todo[c] : store'[r][g] # Absent
      BY <2>2, <2>4 DEF Kept, Present
    <3> QED
      BY <1>1, <2>1, <2>2, <2>5, <3>1 DEF Progress, Named, Writing, Written, Present
  <2> QED
    BY <1>1, <2>4, <2>5, <2>6, <2>7, <2>8, LocalStep
<1> QED
  BY <1>2, <1>3

\* A copy that has the planned content is there.
LEMMA ReadBackKeeps == ASSUME NEW c \in Calls, IInv, ReadBack(c) PROVE IInv'
<1> DEFINE f == NextFile(c)
           r == approved[c]
<1>1. UNCHANGED <<source, approved, demoted>>
  BY DEF ReadBack, inputs
<1>2. CASE Fails(c) /\ UNCHANGED todo
  BY <1>1, <1>2, FailsKeeps
<1>3. CASE ~(Fails(c) /\ UNCHANGED todo)
  <2>1. /\ pc[c] = <<"readback", "call">> /\ store[r][f] = r[f]
        /\ todo' = [todo EXCEPT ![c] = @ \ {f}]
        /\ Goto(c, "copy") /\ UNCHANGED <<store, link>>
    BY <1>3 DEF ReadBack, At, volume
  <2>2. /\ todo[c] # {} /\ todo[c] \subseteq Present(r) /\ r \in Trees
        /\ \A g \in Present(r) \ todo[c] : store[r][g] # Absent
    BY <2>1 DEF IInv, Progress, Writing, Typed
  <2>3. f \in Present(r)
    BY <2>2, NextFileExists, TwinAssumption DEF Present
  <2>4. /\ todo' \in [Calls -> SUBSET Files] /\ todo'[c] = todo[c] \ {f}
        /\ \A d \in Calls \ {c} : todo'[d] = todo[d]
    BY <2>1 DEF IInv, Typed
  <2>5. /\ pc' \in [Actors -> Places] /\ pc'[c] = <<"copy", "call">>
        /\ \A d \in Calls \ {c} : pc'[d] = pc[d]
    BY <2>1, Moves DEF Places
  <2>6. Kept /\ Typed' /\ Links'
    BY <1>1, <2>1, <2>4, <2>5, SameStore DEF IInv, Typed, Links, Complete
  <2>7. Progress(c)' /\ Named(c)'
    <3>1. store[r][f] # Absent
      BY <2>1, <2>3 DEF Present
    <3> QED
      BY <1>1, <2>1, <2>2, <2>4, <2>5, <3>1 DEF Progress, Named, Writing, Written
  <2> QED
    BY <1>1, <2>4, <2>5, <2>6, <2>7, LocalStep
<1> QED
  BY <1>2, <1>3

\* From the last file to the activation nothing is written to the files.
LEMMA MarkerKeeps ==
    ASSUME NEW c \in Calls, IInv, OpenMarker(c) \/ FillMarker(c) \/ CheckEntry(c)
    PROVE  IInv'
<1>1. UNCHANGED <<source, approved, todo, demoted>>
  BY DEF OpenMarker, FillMarker, CheckEntry, inputs, sync
<1>2. CASE Fails(c)
  BY <1>1, <1>2, FailsKeeps
<1>3. CASE ~Fails(c)
  <2>1. /\ pc[c][1] \in Writing /\ todo[c] = {} /\ UNCHANGED <<store, link>>
        /\ \E place \in {"mark", "entry", "resolve"} : Goto(c, place)
    BY <1>3 DEF OpenMarker, FillMarker, CheckEntry, At, volume, IInv, Progress, Writing, Written
  <2>2. PICK place \in {"mark", "entry", "resolve"} : Goto(c, place)
    BY <2>1
  <2>3. /\ pc' \in [Actors -> Places] /\ pc'[c] = <<place, "call">>
        /\ \A d \in Calls \ {c} : pc'[d] = pc[d]
    BY <2>2, Moves DEF Places
  <2>4. Kept /\ Typed' /\ Links'
    BY <1>1, <2>1, <2>3, SameStore DEF IInv, Typed, Links, Complete
  <2>5. Progress(c)' /\ Named(c)'
    BY <1>1, <2>1, <2>3 DEF Progress, Named, Writing, Written, IInv
  <2> QED
    BY <1>1, <2>3, <2>4, <2>5, LocalStep
<1> QED
  BY <1>2, <1>3

\* What is demoted was named by a link.
LEMMA ResolveKeeps == ASSUME NEW c \in Calls, IInv, Resolve(c) PROVE IInv'
<1>1. /\ pc[c] = <<"resolve", "call">> /\ GotoLink(c, "unlink", "previous")
      /\ UNCHANGED <<source, store, link, approved, todo>>
  BY DEF Resolve, At, inputs, volume
<1>2. PICK old \in {link["current"], link["previous"]} :
        demoted' = [demoted EXCEPT ![c] = old]
  BY DEF Resolve
<1>3. old \in Maybe /\ (old # None => Complete(old))
  BY <1>2 DEF IInv, Typed, Links, Slots
<1>4. /\ demoted' \in [Calls -> Maybe] /\ demoted'[c] = old
      /\ \A d \in Calls \ {c} : demoted'[d] = demoted[d]
  BY <1>2, <1>3 DEF IInv, Typed
<1>5. /\ pc' \in [Actors -> Places] /\ pc'[c] = <<"unlink", "previous">>
      /\ \A d \in Calls \ {c} : pc'[d] = pc[d]
  BY <1>1, Moves DEF Slots
<1>6. Kept /\ Typed' /\ Links'
  BY <1>1, <1>4, <1>5, SameStore DEF IInv, Typed, Links, Complete
<1>7. Progress(c)' /\ Named(c)'
  BY <1>1, <1>3, <1>4, <1>5 DEF Progress, Named, Writing, Written, IInv, Complete
<1> QED
  BY <1>1, <1>4, <1>5, <1>6, <1>7, LocalStep

LEMMA UnlinkKeeps ==
    ASSUME NEW c \in Calls, NEW s \in Slots, IInv, Unlink(c, s) PROVE IInv'
<1>1. UNCHANGED <<source, approved, todo, demoted>>
  BY DEF Unlink, inputs, sync
<1>2. CASE Fails(c)
  BY <1>1, <1>2, FailsKeeps
<1>3. CASE ~Fails(c)
  <2>1. /\ pc[c] = <<"unlink", s>> /\ link' = [link EXCEPT ![s] = None] /\ store' = store
        /\ \E step \in {"unlink", "link"}, t \in Slots : GotoLink(c, step, t)
    BY <1>3 DEF Unlink, Slots
  <2>2. PICK step \in {"unlink", "link"}, t \in Slots : GotoLink(c, step, t)
    BY <2>1
  <2>3. /\ pc' \in [Actors -> Places] /\ pc'[c] = <<step, t>>
        /\ \A d \in Calls \ {c} : pc'[d] = pc[d]
    BY <2>2, Moves
  <2>4. link' \in [Slots -> Maybe] /\ \A t1 \in Slots : link'[t1] \in {None, link[t1]}
    BY <2>1 DEF IInv, Typed, Maybe
  <2>5. Kept /\ Typed' /\ Links'
    BY <1>1, <2>1, <2>3, <2>4, SameStore DEF IInv, Typed, Links, Complete
  <2>6. Progress(c)' /\ Named(c)'
    BY <1>1, <2>1, <2>3 DEF Progress, Named, Writing, Written, IInv, Complete
  <2> QED
    BY <1>1, <2>3, <2>5, <2>6, LocalStep
<1> QED
  BY <1>2, <1>3

\* A release is linked after all of it was written.
LEMMA LinkKeeps ==
    ASSUME NEW c \in Calls, NEW s \in Slots, IInv, Link(c, s) PROVE IInv'
<1>1. UNCHANGED <<source, approved, todo, demoted>>
  BY DEF Link, inputs, sync
<1>2. CASE Fails(c)
  BY <1>1, <1>2, FailsKeeps
<1>3. CASE ~Fails(c)
  <2>1. /\ pc[c] = <<"link", s>> /\ store' = store
        /\ link' = [link EXCEPT ![s] = IF s = "current" THEN approved[c] ELSE demoted[c]]
    BY <1>3 DEF Link
  <2>2. /\ Complete(approved[c]) /\ (demoted[c] # None => Complete(demoted[c]))
        /\ approved[c] \in Trees /\ demoted[c] \in Maybe
    BY <2>1 DEF IInv, Progress, Named, Typed, Writing, Written, Complete
  <2>3. PICK p \in {<<"unlink", "current">>, <<"ok", "call">>} :
          /\ pc' \in [Actors -> Places] /\ pc'[c] = p
          /\ \A d \in Calls \ {c} : pc'[d] = pc[d]
    <3>1. CASE s = "previous"
      BY <1>3, <3>1, Moves DEF Link, Slots
    <3>2. CASE s # "previous"
      BY <1>3, <3>2, Moves DEF Link, Places, Rest
    <3> QED
      BY <3>1, <3>2
  <2>4. link' \in [Slots -> Maybe]
    BY <2>1, <2>2 DEF IInv, Typed, Maybe
  <2>5. Links'
    BY <2>1, <2>2 DEF IInv, Links, Complete, Typed
  <2>6. Kept /\ Typed'
    BY <1>1, <2>1, <2>3, <2>4, SameStore DEF IInv, Typed
  <2>7. Progress(c)' /\ Named(c)'
    BY <1>1, <2>1, <2>3 DEF Progress, Named, Writing, Written, IInv, Complete
  <2> QED
    BY <1>1, <2>3, <2>5, <2>6, <2>7, LocalStep
<1> QED
  BY <1>2, <1>3

\* Edits and queries leave the volume and the calls alone.
LEMMA OthersKeep ==
    ASSUME IInv, source' \in Trees, pc' \in [Actors -> Places],
           \A c \in Calls : pc'[c] = pc[c],
           UNCHANGED <<store, link, approved, todo, demoted>>
    PROVE  IInv'
<1>1. Typed'
  BY DEF IInv, Typed
<1>2. \A c \in Calls : Progress(c)' /\ Named(c)'
  BY DEF IInv, Progress, Named, Complete
<1> QED
  BY <1>1, <1>2 DEF IInv, Stored, Links, Complete

LEMMA ObserveKeeps == ASSUME NEW o \in Observers, IInv, Observe(o) PROVE IInv'
<1>1. PICK place \in {"marker", "scan", "verdict", "failed", "fresh", "conflicting"} :
        Goto(o, place)
  BY DEF Observe, Query, QueryMarker, QueryScan, QueryVerdict
<1>2. <<place, "call">> \in Places /\ o \in Actors /\ o \notin Calls
  BY TwinAssumption DEF Places, Rest, Actors
<1>3. pc' \in [Actors -> Places] /\ \A c \in Calls : pc'[c] = pc[c]
  BY <1>1, <1>2 DEF Goto, IInv, Typed, Actors
<1>4. UNCHANGED <<source, store, link, approved, todo, demoted>>
  BY DEF Observe, Query, QueryMarker, QueryScan, QueryVerdict, inputs, volume, sync
<1> QED
  BY <1>3, <1>4, OthersKeep DEF IInv, Typed

THEOREM InvariantHolds == Spec => []IInv
<1>1. Init => IInv
  <2> SUFFICES ASSUME Init PROVE IInv
    OBVIOUS
  <2>1. Typed
    BY DEF Init, Typed, Places, Rest, Maybe, Actors, Slots
  <2>2. \A c \in Calls : Progress(c) /\ Named(c)
    BY DEF Init, Progress, Named, Writing, Written, Actors
  <2> QED
    BY <2>1, <2>2 DEF Init, IInv, Stored, Links
<1>2. IInv /\ [Next]_vars => IInv'
  <2> SUFFICES ASSUME IInv, [Next]_vars PROVE IInv'
    OBVIOUS
  <2>1. CASE UNCHANGED vars
    BY <2>1, OthersKeep DEF vars, IInv, Typed
  <2>2. CASE EditSource
    BY <2>2, OthersKeep DEF EditSource, volume, sync, IInv, Typed
  <2>3. CASE EditProfile
    BY <2>3, OthersKeep DEF EditProfile, volume, sync, IInv, Typed
  <2>4. ASSUME NEW c \in Calls, Step(c) PROVE IInv'
    BY <2>4, DryRunKeeps, ApplyKeeps, CopyKeeps, FillKeeps, ReadBackKeeps, MarkerKeeps,
       ResolveKeeps, UnlinkKeeps, LinkKeeps DEF Step
  <2>5. ASSUME NEW c \in Calls, Kill(c) PROVE IInv'
    <3>1. Goto(c, "killed") /\ "killed" \in Rest
      BY <2>5 DEF Kill, Rest
    <3> QED
      BY <2>5, <3>1, Rests DEF Kill, inputs, volume, sync, IInv, Typed
  <2>6. ASSUME NEW o \in Observers, Observe(o) PROVE IInv'
    BY <2>6, ObserveKeeps
  <2>7. QED
    BY <2>1, <2>2, <2>3, <2>4, <2>5, <2>6 DEF Next, Finished
<1> QED
  BY <1>1, <1>2, PTL DEF Spec

\* "Plan or materialize an exact site tree": whatever fails, is killed,
\* overlaps or is edited, the releases that `current` and `previous` name have
\* every file of their plan, with its content or in the middle of being written
\* again, and no file of another plan.
THEOREM LinkedReleasesHoldTheirPlan == Spec => []LiveIsPlanned
<1>1. IInv => LiveIsPlanned
  <2> SUFFICES ASSUME IInv, NEW s \in Slots, link[s] # None, NEW f \in Files
               PROVE  store[link[s]][f] \in (IF link[s][f] = Absent THEN {Absent}
                                             ELSE {Torn, link[s][f]})
    BY DEF LiveIsPlanned, HoldsPlan
  <2>1. link[s] \in Trees /\ Complete(link[s])
    BY DEF IInv, Typed, Maybe, Links
  <2>2. store[link[s]][f] # Absent =>
           link[s][f] # Absent /\ store[link[s]][f] \in {Torn, link[s][f]}
    BY <2>1 DEF IInv, Stored
  <2>3. link[s][f] # Absent => store[link[s]][f] # Absent
    BY <2>1 DEF Complete, Present
  <2> QED
    BY <2>2, <2>3
<1> QED
  BY <1>1, InvariantHolds, PTL
-------------------------------------------------------------------------------
Kinds == {"edits", "profiles", "faults", "kills", "again", "queries"}
Looking == {"marker", "scan", "verdict"}

\* What TypeOK says beyond IInv.
Ranges ==
    /\ setting \in Settings
    /\ profile \in Entries
    /\ marker \in [Trees -> {"absent", "torn", "written"}]
    /\ agreed \in [Actors -> Entries]
    /\ seen \in [Observers -> Maybe]
    /\ scan \in [Observers -> Trees]
    /\ budget \in [Kinds -> Nat]

Demotes(c) == pc[c] = <<"link", "previous">> => demoted[c] # None
Sees(o) == pc[o][1] \in Looking => seen[o] # None

TInv == Ranges /\ (\A c \in Calls : Demotes(c)) /\ (\A o \in Observers : Sees(o))

LEMMA SpendTyped ==
    ASSUME Ranges, budget' = budget \/ \E what \in Kinds : Spend(what)
    PROVE  budget' \in [Kinds -> Nat]
<1>1. ASSUME NEW what \in Kinds, Spend(what) PROVE budget' \in [Kinds -> Nat]
  <2>1. budget[what] + 1 \in Nat
    BY DEF Ranges
  <2> QED
    BY <1>1, <2>1 DEF Spend, Ranges
<1> QED
  BY <1>1 DEF Ranges

\* A step of a call touches nothing of the others, and no input.
LEMMA CallMoves ==
    ASSUME IInv, NEW c \in Calls, Step(c) \/ Kill(c)
    PROVE  /\ \A a \in Actors \ {c} : pc'[a] = pc[a]
           /\ UNCHANGED <<profile, source, seen, scan>>
           /\ budget' = budget \/ \E what \in Kinds : Spend(what)
<1>1. \E x : pc' = [pc EXCEPT ![c] = x]
  <2>1. CASE DryRun(c) \/ Apply(c) \/ Kill(c)
    BY <2>1 DEF DryRun, Apply, Kill, Goto
  <2>2. CASE Copy(c) \/ Fill(c) \/ ReadBack(c)
    BY <2>2 DEF Copy, Fill, ReadBack, Goto, Fails
  <2>3. CASE OpenMarker(c) \/ FillMarker(c) \/ CheckEntry(c) \/ Resolve(c)
    BY <2>3 DEF OpenMarker, FillMarker, CheckEntry, Resolve, Goto, GotoLink, Fails
  <2>4. ASSUME NEW s \in Slots, Unlink(c, s) \/ Link(c, s) PROVE \E x : pc' = [pc EXCEPT ![c] = x]
    BY <2>4 DEF Unlink, Link, Goto, GotoLink, Fails
  <2> QED
    BY <2>1, <2>2, <2>3, <2>4 DEF Step
<1>2. UNCHANGED <<profile, source, seen, scan>>
  BY DEF Step, Kill, DryRun, Apply, Copy, Fill, ReadBack, OpenMarker, FillMarker, CheckEntry,
         Resolve, Unlink, Link, inputs, query
<1>3. budget' = budget \/ \E what \in Kinds : Spend(what)
  BY DEF Step, Kill, DryRun, Apply, Copy, Fill, ReadBack, OpenMarker, FillMarker, CheckEntry,
         Resolve, Unlink, Link, Fault, Kinds
<1> QED
  BY <1>1, <1>2, <1>3 DEF IInv, Typed

LEMMA ObserverMoves ==
    ASSUME IInv, NEW o \in Observers, Observe(o)
    PROVE  /\ \A a \in Actors \ {o} : pc'[a] = pc[a]
           /\ \E place \in {"marker", "scan", "verdict", "failed", "fresh", "conflicting"} :
                  pc'[o] = <<place, "call">>
           /\ UNCHANGED <<profile, source, store, marker, link, approved, todo, demoted, setting>>
           /\ budget' = budget \/ \E what \in Kinds : Spend(what)
<1>1. PICK place \in {"marker", "scan", "verdict", "failed", "fresh", "conflicting"} :
        Goto(o, place)
  BY DEF Observe, Query, QueryMarker, QueryScan, QueryVerdict
<1>2. o \in Actors /\ pc \in [Actors -> Places]
  BY DEF Actors, IInv, Typed
<1>3. UNCHANGED <<profile, source, store, marker, link, approved, todo, demoted, setting>>
  BY DEF Observe, Query, QueryMarker, QueryScan, QueryVerdict, inputs, volume, sync
<1>4. budget' = budget \/ \E what \in Kinds : Spend(what)
  BY DEF Observe, Query, QueryMarker, QueryScan, QueryVerdict, Kinds
<1> QED
  BY <1>1, <1>2, <1>3, <1>4 DEF Goto

LEMMA CallTyped ==
    ASSUME IInv, TInv, NEW c \in Calls, Step(c) \/ Kill(c), setting' = setting
    PROVE  TInv'
<1>1. Ranges /\ Typed
  BY DEF IInv, TInv
<1>2. /\ \A a \in Actors \ {c} : pc'[a] = pc[a]
      /\ UNCHANGED <<profile, source, seen, scan>>
      /\ budget' \in [Kinds -> Nat]
  BY <1>1, CallMoves, SpendTyped
<1>3. marker' \in [Trees -> {"absent", "torn", "written"}]
  <2>1. approved[c] \in Trees
    BY <1>1 DEF Typed
  <2>2. \/ marker' = marker
        \/ \E m \in {"torn", "written"} : marker' = [marker EXCEPT ![approved[c]] = m]
    BY DEF Step, Kill, DryRun, Apply, Copy, Fill, ReadBack, OpenMarker, FillMarker, CheckEntry,
           Resolve, Unlink, Link, Fails, volume
  <2> QED
    BY <1>1, <2>1, <2>2 DEF Ranges
<1>4. agreed' \in [Actors -> Entries]
  <2>1. agreed' = agreed \/ agreed' = [agreed EXCEPT ![c] = profile]
    BY DEF Step, Kill, DryRun, Apply, Copy, Fill, ReadBack, OpenMarker, FillMarker, CheckEntry,
           Resolve, Unlink, Link, sync
  <2> QED
    BY <1>1, <2>1 DEF Ranges
<1>5. ASSUME NEW d \in Calls PROVE Demotes(d)'
  <2>1. CASE d # c
    <3>1. demoted'[d] = demoted[d]
      BY <1>1, <2>1 DEF Step, Kill, DryRun, Apply, Copy, Fill, ReadBack, OpenMarker, FillMarker,
             CheckEntry, Resolve, Unlink, Link, sync, Typed
    <3> QED
      BY <1>2, <2>1, <3>1 DEF Demotes, TInv, Actors
  <2>2. CASE d = c
    <3> SUFFICES ASSUME pc'[c] = <<"link", "previous">> PROVE demoted'[c] # None
      BY <2>2 DEF Demotes
    <3>1. pc \in [Actors -> Places] /\ c \in Actors
      BY <1>1 DEF Typed, Actors
    <3>2. \A place : ~Goto(c, place)
      BY <3>1 DEF Goto
    <3>3. ~GotoLink(c, "unlink", "previous") /\ ~GotoLink(c, "unlink", "current")
          /\ ~GotoLink(c, "link", "current")
      BY <3>1 DEF GotoLink
    <3>4. PICK s \in Slots : Unlink(c, s)
      BY <3>2, <3>3 DEF Step, Kill, DryRun, Apply, Copy, Fill, ReadBack, OpenMarker, FillMarker,
         CheckEntry, Resolve, Link, Fails
    <3>5. s = "previous"
      BY <3>2, <3>3, <3>4 DEF Unlink, Fails, Slots
    <3> QED
      BY <3>2, <3>3, <3>4, <3>5 DEF Unlink, Fails, sync
  <2> QED
    BY <2>1, <2>2
<1>6. ASSUME NEW o \in Observers PROVE Sees(o)'
  <2>1. pc'[o] = pc[o] /\ seen'[o] = seen[o]
    BY <1>2, TwinAssumption DEF Actors
  <2> QED
    BY <2>1 DEF Sees, TInv
<1>7. Ranges'
  BY <1>1, <1>2, <1>3, <1>4 DEF Ranges
<1> QED
  BY <1>5, <1>6, <1>7 DEF TInv

LEMMA ObserverTyped ==
    ASSUME IInv, TInv, NEW o \in Observers, Observe(o)
    PROVE  TInv'
<1>1. Ranges /\ Typed /\ o \in Actors
  BY DEF IInv, TInv, Actors
<1>2. /\ \A a \in Actors \ {o} : pc'[a] = pc[a]
      /\ UNCHANGED <<profile, source, marker, link, demoted, setting>>
      /\ budget' \in [Kinds -> Nat]
  BY <1>1, ObserverMoves, SpendTyped
<1>3. agreed' \in [Actors -> Entries]
  <2>1. agreed' = agreed \/ agreed' = [agreed EXCEPT ![o] = profile]
    BY DEF Observe, Query, QueryMarker, QueryScan, QueryVerdict, sync
  <2> QED
    BY <1>1, <2>1 DEF Ranges
<1>4. seen' \in [Observers -> Maybe] /\ scan' \in [Observers -> Trees]
  <2>1. link["current"] \in Maybe /\ source \in Trees
    BY <1>1 DEF Typed, Slots
  <2>2. seen' = seen \/ seen' = [seen EXCEPT ![o] = link["current"]]
    BY DEF Observe, Query, QueryMarker, QueryScan, QueryVerdict, query
  <2>3. scan' = scan \/ scan' = [scan EXCEPT ![o] = source]
    BY DEF Observe, Query, QueryMarker, QueryScan, QueryVerdict, query
  <2> QED
    BY <1>1, <2>1, <2>2, <2>3 DEF Ranges
<1>5. ASSUME NEW p \in Observers PROVE Sees(p)'
  <2>1. CASE p # o
    <3>1. seen'[p] = seen[p]
      BY <1>1, <2>1 DEF Observe, Query, QueryMarker, QueryScan, QueryVerdict, query, Ranges
    <3> QED
      BY <1>2, <2>1, <3>1 DEF Sees, TInv, Actors
  <2>2. CASE p = o
    <3>1. CASE Query(o)
      BY <1>1, <2>2, <3>1 DEF Query, Goto, Sees, Ranges, Typed, Looking
    <3>2. CASE QueryMarker(o) \/ QueryScan(o) \/ QueryVerdict(o)
      <4>1. pc[o][1] \in Looking /\ seen' = seen
        BY <3>2 DEF QueryMarker, QueryScan, QueryVerdict, At, Looking, query
      <4> QED
        BY <2>2, <4>1 DEF Sees, TInv
    <3> QED
      BY <3>1, <3>2 DEF Observe
  <2> QED
    BY <2>1, <2>2
<1>6. ASSUME NEW c \in Calls PROVE Demotes(c)'
  <2>1. pc'[c] = pc[c]
    BY <1>2, TwinAssumption DEF Actors
  <2> QED
    BY <1>2, <2>1 DEF Demotes, TInv
<1>7. Ranges'
  BY <1>1, <1>2, <1>3, <1>4 DEF Ranges
<1> QED
  BY <1>5, <1>6, <1>7 DEF TInv

LEMMA TypesInitially == Init => TInv
<1> SUFFICES ASSUME Init PROVE TInv
  OBVIOUS
<1>1. Ranges
  BY DEF Init, Ranges, Maybe, Kinds
<1>2. \A c \in Calls : Demotes(c)
  BY DEF Init, Demotes, Actors
<1>3. \A o \in Observers : Sees(o)
  BY DEF Init, Sees, Actors, Looking
<1> QED
  BY <1>1, <1>2, <1>3 DEF TInv

LEMMA TypesKept == IInv /\ TInv /\ [Next]_vars => TInv'
<1> SUFFICES ASSUME IInv, TInv, [Next]_vars PROVE TInv'
  OBVIOUS
<1>1. CASE UNCHANGED vars
  BY <1>1 DEF vars, TInv, Ranges, Demotes, Sees
<1>2. CASE (EditSource \/ EditProfile) /\ setting' = setting
  <2>1. budget' \in [Kinds -> Nat]
    BY <1>2, SpendTyped DEF EditSource, EditProfile, Kinds, TInv
  <2>2. profile' \in Entries /\ UNCHANGED <<marker, pc, agreed, demoted, seen, scan>>
    BY <1>2 DEF EditSource, EditProfile, volume, sync, query, TInv, Ranges
  <2> QED
    BY <1>2, <2>1, <2>2 DEF TInv, Ranges, Demotes, Sees
<1>3. ASSUME NEW c \in Calls, Step(c) \/ Kill(c), setting' = setting PROVE TInv'
  BY <1>3, CallTyped
<1>4. ASSUME NEW o \in Observers, Observe(o) PROVE TInv'
  BY <1>4, ObserverTyped
<1> QED
  BY <1>1, <1>2, <1>3, <1>4 DEF Next, Finished

\* Types, and more: a call that writes a file has one left to write, a link is made
\* only to a release, and a twin-current call past its first look saw a release.
THEOREM TwinTypes == Spec => []TypeOK
<1>1. Init => TInv
  BY TypesInitially
<1>2. IInv /\ TInv /\ [Next]_vars => TInv'
  BY TypesKept
<1>3. IInv /\ TInv => TypeOK
  BY DEF IInv, Typed, Progress, TInv, Ranges, Demotes, Sees, Looking, Kinds, TypeOK
<1> QED
  BY <1>1, <1>2, <1>3, InvariantHolds, PTL DEF Spec

-------------------------------------------------------------------------------
\* The runner admits one actor at a time.
OneActs == setting.serialized =>
    \A a, b \in Actors : ~Resting(a) /\ ~Resting(b) => a = b

\* What a call has behind it is as planned: its files, and then the marker.
AsPlanned(c) == setting.serialized =>
    /\ pc[c][1] \in Writing =>
          \A f \in Present(approved[c]) \ todo[c] : store[approved[c]][f] = approved[c][f]
    /\ pc[c][1] \in {"entry", "resolve", "unlink", "link"} => marker[approved[c]] = "written"

\* Nothing was killed or failed: but for the file that a call is writing again,
\* the current release is whole.
Rewrites(r, f) == \E c \in Calls : At(c, "fill") /\ approved[c] = r /\ f = NextFile(c)
LiveWhole == Calm /\ link["current"] # None =>
    \A f \in Present(link["current"]) :
        store[link["current"]][f] = link["current"][f] \/ Rewrites(link["current"], f)

\* What twin-current has seen is still current.
Looks(o) == setting.serialized /\ pc[o][1] \in Looking => seen[o] = link["current"]

SInv == OneActs /\ (\A c \in Calls : AsPlanned(c)) /\ LiveWhole /\ \A o \in Observers : Looks(o)
AInv == IInv /\ TInv /\ SInv

LEMMA SerialInitially == Init => SInv
<1> SUFFICES ASSUME Init PROVE SInv
  OBVIOUS
<1>1. \A a \in Actors : Resting(a) /\ pc[a][1] = "idle"
  BY DEF Init, Resting, Rest
<1>2. \A c \in Calls : AsPlanned(c)
  BY <1>1 DEF AsPlanned, Writing, Actors
<1>3. \A o \in Observers : Looks(o)
  BY <1>1 DEF Looks, Looking, Actors
<1>4. LiveWhole
  BY DEF Init, LiveWhole, Slots
<1> QED
  BY <1>1, <1>2, <1>3, <1>4 DEF SInv, OneActs

\* Only actors that work can be at a step of a call or of a query.
LEMMA Working ==
    ASSUME NEW a \in Actors
    PROVE  pc[a][1] \in Writing \cup Looking => ~Resting(a)
BY DEF Writing, Looking, Resting, Rest

\* While one actor works, every other one rests.
LEMMA OthersRest ==
    ASSUME OneActs, setting.serialized, NEW a \in Actors, ~Resting(a) \/ Admitted,
           NEW b \in Actors \ {a}
    PROVE  Resting(b)
BY DEF OneActs, Admitted

LEMMA OneActsKept ==
    ASSUME OneActs, setting' = setting, NEW a \in Actors,
           \A b \in Actors \ {a} : pc'[b] = pc[b],
           Resting(a)' \/ ~Resting(a) \/ Admitted
    PROVE  OneActs'
<1> SUFFICES ASSUME setting.serialized, NEW x \in Actors, NEW y \in Actors,
                    ~Resting(x)', ~Resting(y)', x # y
             PROVE  FALSE
  BY DEF OneActs
<1>1. \A b \in Actors \ {a} : ~Resting(b)' => ~Resting(b)
  BY DEF Resting
<1>2. CASE x # a /\ y # a
  BY <1>1, <1>2 DEF OneActs
<1>3. CASE x = a \/ y = a
  BY <1>1, <1>3, OthersRest
<1> QED
  BY <1>2, <1>3

\* The steps of a call: from rest it only plans, and changes nothing.
LEMMA CallActs ==
    ASSUME IInv, NEW c \in Calls, Step(c) \/ Kill(c)
    PROVE  \/ ~Resting(c)
           \/ Resting(c) /\ Resting(c)' /\ UNCHANGED <<store, marker, link>>
           \/ Resting(c) /\ Apply(c) /\ Admitted /\ UNCHANGED <<store, marker, link>>
<1>1. CASE DryRun(c)
  BY <1>1 DEF DryRun, Goto, Resting, Rest, volume, IInv, Typed, Actors
<1>2. CASE Apply(c)
  BY <1>2 DEF Apply, At, Resting, Rest, volume
<1>3. CASE ~DryRun(c) /\ ~Apply(c)
  BY <1>3 DEF Step, Kill, Copy, Fill, ReadBack, OpenMarker, FillMarker, CheckEntry, Resolve,
              Unlink, Link, At, Resting, Rest
<1> QED
  BY <1>1, <1>2, <1>3

LEMMA CallLeavesOthers ==
    ASSUME AInv, NEW c \in Calls, Step(c) \/ Kill(c), setting' = setting
    PROVE  /\ OneActs'
           /\ \A d \in Calls \ {c} : AsPlanned(d)'
           /\ \A o \in Observers : Looks(o)'
<1>1. /\ \A a \in Actors \ {c} : pc'[a] = pc[a]
      /\ seen' = seen /\ c \in Actors
  BY CallMoves DEF AInv, Actors
<1>2. ~Resting(c) \/ UNCHANGED <<store, marker, link>>
  BY CallActs DEF AInv
<1>3. OneActs'
  BY <1>1, CallActs, OneActsKept DEF AInv, SInv
<1>4. ASSUME NEW d \in Calls \ {c} PROVE AsPlanned(d)'
  <2>1. d \in Actors \ {c} /\ approved'[d] = approved[d] /\ todo'[d] = todo[d]
    BY DEF Step, Kill, DryRun, Apply, Copy, Fill, ReadBack, OpenMarker, FillMarker,
           CheckEntry, Resolve, Unlink, Link, sync, AInv, IInv, Typed, Actors
  <2>2. CASE setting.serialized /\ ~Resting(c)
    <3>1. Resting(d)
      BY <1>1, <2>1, <2>2, OthersRest DEF AInv, SInv
    <3>2. pc'[d][1] \notin Writing
      BY <1>1, <2>1, <3>1 DEF Resting, Rest, Writing
    <3> QED
      BY <3>2 DEF AsPlanned, Writing
  <2>3. CASE ~setting.serialized
    BY <2>3 DEF AsPlanned
  <2>4. CASE UNCHANGED <<store, marker>>
    BY <1>1, <2>1, <2>4 DEF AsPlanned, AInv, SInv
  <2> QED
    BY <1>2, <2>2, <2>3, <2>4
<1>5. ASSUME NEW o \in Observers PROVE Looks(o)'
  <2>1. o \in Actors \ {c}
    BY TwinAssumption DEF Actors
  <2>2. CASE setting.serialized /\ ~Resting(c)
    <3>1. Resting(o)
      BY <1>1, <2>1, <2>2, OthersRest DEF AInv, SInv
    <3> QED
      BY <1>1, <2>1, <3>1 DEF Looks, Resting, Rest, Looking
  <2>3. CASE ~setting.serialized
    BY <2>3 DEF Looks
  <2>4. CASE link' = link
    BY <1>1, <2>1, <2>4 DEF Looks, AInv, SInv
  <2> QED
    BY <1>2, <2>2, <2>3, <2>4
<1> QED
  BY <1>3, <1>4, <1>5

\* One file of one release is written.
LEMMA FileStep ==
    ASSUME Typed, NEW r \in Trees, NEW f \in Files, NEW v, store' = [store EXCEPT ![r][f] = v]
    PROVE  /\ store'[r][f] = v
           /\ \A q \in Trees, g \in Files : q # r \/ g # f => store'[q][g] = store[q][g]
BY DEF Typed

\* What a call that writes a file knows of it.
LEMMA NextFileIs ==
    ASSUME IInv, NEW c \in Calls, pc[c][1] \in Writing, todo[c] # {}
    PROVE  NextFile(c) \in todo[c] /\ todo[c] \subseteq Files /\ approved[c] \in Trees
<1>1. todo[c] \subseteq Files /\ approved[c] \in Trees
  BY DEF IInv, Typed
<1>2. todo[c] \subseteq Nat
  BY <1>1, TwinAssumption
<1> QED
  BY <1>1, <1>2, NextFileExists

\* A calm deployment has no faults and no kills.
LEMMA CalmMeans ==
    ASSUME TInv, Calm
    PROVE  ~Fault /\ ~Spend("kills") /\ setting.serialized
<1>1. budget["faults"] \in Nat /\ budget["kills"] \in Nat
  BY DEF TInv, Ranges, Kinds
<1> QED
  BY <1>1 DEF Calm, Fault, Spend

\* A call that works has the volume to itself.
LEMMA Sole ==
    ASSUME AInv, NEW c \in Calls, ~Resting(c), setting.serialized,
           NEW d \in Calls, ~Resting(d)
    PROVE  d = c
<1>1. c \in Actors /\ d \in Actors
  BY DEF Actors
<1> QED
  BY <1>1 DEF AInv, SInv, OneActs

\* Steps that leave the files and the current release alone, by a call that is
\* not in the middle of a file.
LEMMA LiveStays ==
    ASSUME AInv, NEW c \in Calls, ~At(c, "fill"), setting' = setting, store' = store,
           link'["current"] = link["current"] \/ link'["current"] = None,
           \A d \in Calls \ {c} : /\ pc'[d] = pc[d] /\ approved'[d] = approved[d]
                                  /\ todo'[d] = todo[d]
    PROVE  LiveWhole'
<1> SUFFICES ASSUME Calm, link["current"] # None, link'["current"] = link["current"],
                    NEW f \in Present(link["current"])
             PROVE  store[link["current"]][f] = link["current"][f] \/ Rewrites(link["current"], f)'
  BY DEF LiveWhole, Calm
<1>1. store[link["current"]][f] = link["current"][f] \/ Rewrites(link["current"], f)
  BY DEF AInv, SInv, LiveWhole
<1>2. ASSUME NEW d \in Calls, At(d, "fill"), approved[d] = link["current"], f = NextFile(d)
      PROVE  Rewrites(link["current"], f)'
  <2>1. At(d, "fill")' /\ approved'[d] = approved[d] /\ NextFile(d)' = NextFile(d)
    BY <1>2 DEF At, NextFile
  <2> QED
    BY <1>2, <2>1 DEF Rewrites
<1> QED
  BY <1>1, <1>2 DEF Rewrites

LEMMA CopyExact ==
    ASSUME AInv, NEW c \in Calls, Copy(c), ~Fails(c), setting' = setting
    PROVE  AsPlanned(c)' /\ LiveWhole'
<1> DEFINE f == NextFile(c)
           r == approved[c]
<1>1. /\ pc[c] = <<"copy", "call">> /\ todo[c] # {}
      /\ store' = [store EXCEPT ![r][f] = Torn] /\ pc' = [pc EXCEPT ![c] = <<"fill", "call">>]
      /\ UNCHANGED <<link, approved, todo>>
  BY DEF Copy, At, Goto, sync
<1>2. Typed /\ f \in todo[c] /\ f \in Files /\ r \in Trees /\ ~Resting(c) /\ c \in Actors
  BY <1>1, NextFileIs DEF AInv, IInv, Writing, Resting, Rest, Actors
<1>3. pc'[c] = <<"fill", "call">>
  BY <1>1, <1>2 DEF Typed
<1>4. \A q \in Trees, g \in Files : q # r \/ g # f => store'[q][g] = store[q][g]
  <2> HIDE DEF f, r
  <2> QED
    BY <1>1, <1>2, FileStep
<1>5. AsPlanned(c)'
  <2> SUFFICES ASSUME setting.serialized, NEW g \in Present(r) \ todo[c] PROVE store'[r][g] = r[g]
    BY <1>1, <1>3 DEF AsPlanned, Writing
  <2>1. store[r][g] = r[g]
    BY <1>1 DEF AInv, SInv, AsPlanned, Writing
  <2> QED
    BY <1>2, <1>4, <2>1 DEF Present
<1>6. LiveWhole'
  <2> SUFFICES ASSUME Calm, link["current"] # None, NEW g \in Present(link["current"])
               PROVE  \/ store'[link["current"]][g] = link["current"][g]
                      \/ Rewrites(link["current"], g)'
    BY <1>1 DEF LiveWhole, Calm
  <2>1. CASE link["current"] = r /\ g = f
    <3>1. NextFile(c)' = NextFile(c) /\ At(c, "fill")' /\ approved'[c] = r
      BY <1>1, <1>3 DEF NextFile, At
    <3> QED
      BY <1>1, <2>1, <3>1 DEF Rewrites
  <2>2. CASE link["current"] # r \/ g # f
    <3>1. store'[link["current"]][g] = store[link["current"]][g]
      BY <1>2, <1>4, <2>2 DEF Typed, Maybe, Slots, Present
    <3>2. ~Rewrites(link["current"], g)
      <4> SUFFICES ASSUME NEW d \in Calls, At(d, "fill") PROVE FALSE
        BY DEF Rewrites
      <4>1. d = c
        BY <1>2, Sole, CalmMeans DEF AInv, At, Resting, Rest
      <4> QED
        BY <1>1, <4>1 DEF At
    <3> QED
      BY <3>1, <3>2 DEF AInv, SInv, LiveWhole
  <2> QED
    BY <2>1, <2>2
<1> QED
  BY <1>5, <1>6

LEMMA FillExact ==
    ASSUME AInv, NEW c \in Calls, Fill(c), ~Fails(c), setting' = setting
    PROVE  AsPlanned(c)' /\ LiveWhole'
<1> DEFINE f == NextFile(c)
           r == approved[c]
<1>1. /\ pc[c] = <<"fill", "call">>
      /\ store' = [store EXCEPT ![r][f] = r[f]] /\ pc' = [pc EXCEPT ![c] = <<"readback", "call">>]
      /\ UNCHANGED <<link, approved, todo>>
  BY DEF Fill, At, Goto, sync
<1>2. todo[c] # {}
  BY <1>1 DEF AInv, IInv, Progress
<1>3. Typed /\ f \in todo[c] /\ f \in Files /\ r \in Trees /\ ~Resting(c) /\ c \in Actors
  BY <1>1, <1>2, NextFileIs DEF AInv, IInv, Writing, Resting, Rest, Actors
<1>4. pc'[c] = <<"readback", "call">>
  BY <1>1, <1>3 DEF Typed
<1>5. /\ store'[r][f] = r[f]
      /\ \A q \in Trees, g \in Files : q # r \/ g # f => store'[q][g] = store[q][g]
  <2> DEFINE v == r[f]
  <2>1. store' = [store EXCEPT ![r][f] = v]
    BY <1>1
  <2>2. /\ store'[r][f] = v
        /\ \A q \in Trees, g \in Files : q # r \/ g # f => store'[q][g] = store[q][g]
    <3> HIDE DEF f, r, v
    <3> QED
      BY <1>3, <2>1 DEF Typed
  <2> QED
    BY <2>2
<1>6. AsPlanned(c)'
  <2> SUFFICES ASSUME setting.serialized, NEW g \in Present(r) \ todo[c] PROVE store'[r][g] = r[g]
    BY <1>1, <1>4 DEF AsPlanned, Writing
  <2>1. store[r][g] = r[g]
    BY <1>1 DEF AInv, SInv, AsPlanned, Writing
  <2> QED
    BY <1>3, <1>5, <2>1 DEF Present
<1>7. LiveWhole'
  <2> SUFFICES ASSUME Calm, link["current"] # None, NEW g \in Present(link["current"])
               PROVE  store'[link["current"]][g] = link["current"][g]
    BY <1>1 DEF LiveWhole, Calm
  <2>1. CASE link["current"] = r /\ g = f
    BY <1>5, <2>1
  <2>2. CASE link["current"] # r \/ g # f
    <3>1. store'[link["current"]][g] = store[link["current"]][g]
      BY <1>3, <1>5, <2>2 DEF Typed, Maybe, Slots, Present
    <3>2. ~Rewrites(link["current"], g)
      <4> SUFFICES ASSUME NEW d \in Calls, At(d, "fill"), approved[d] = link["current"],
                          g = NextFile(d)
                   PROVE  FALSE
        BY DEF Rewrites
      <4>1. d = c
        BY <1>3, Sole, CalmMeans DEF AInv, At, Resting, Rest
      <4> QED
        BY <2>2, <4>1
    <3> QED
      BY <3>1, <3>2 DEF AInv, SInv, LiveWhole
  <2> QED
    BY <2>1, <2>2
<1> QED
  BY <1>6, <1>7

\* The steps of a call that do not write a file.
LEMMA OtherStepsExact ==
    ASSUME AInv, NEW c \in Calls, Step(c), ~Fails(c), ~Copy(c), ~Fill(c), setting' = setting
    PROVE  AsPlanned(c)'
<1>1. /\ pc \in [Actors -> Places] /\ c \in Actors /\ approved[c] \in Trees
      /\ marker \in [Trees -> {"absent", "torn", "written"}]
      /\ AsPlanned(c) /\ Progress(c)
      /\ todo \in [Calls -> SUBSET Files]
  BY DEF AInv, IInv, TInv, Typed, Ranges, SInv, Actors
<1>2. CASE DryRun(c)
  BY <1>1, <1>2 DEF DryRun, Goto, AsPlanned, Writing
<1>3. CASE Apply(c)
  <2>1. CASE source = approved[c]
    <3>1. todo'[c] = Present(approved[c]) /\ pc'[c][1] \in {"copy", "failed"} /\ approved' = approved
      BY <1>1, <1>3, <2>1 DEF Apply, Goto
    <3> QED
      BY <3>1 DEF AsPlanned, Present
  <2>2. CASE source # approved[c]
    BY <1>1, <1>3, <2>2 DEF Apply, Goto, AsPlanned, Writing
  <2> QED
    BY <2>1, <2>2
<1>4. CASE ReadBack(c)
  <2>1. /\ pc[c] = <<"readback", "call">> /\ pc'[c] = <<"copy", "call">>
        /\ store[approved[c]][NextFile(c)] = approved[c][NextFile(c)]
        /\ todo'[c] = todo[c] \ {NextFile(c)}
        /\ UNCHANGED <<store, marker, approved>>
    BY <1>1, <1>4 DEF ReadBack, At, Goto, volume
  <2> QED
    BY <1>1, <2>1 DEF AsPlanned, Writing, Present
<1>5. CASE OpenMarker(c)
  <2>1. pc[c] = <<"copy", "call">> /\ pc'[c] = <<"mark", "call">> /\ UNCHANGED <<store, approved, todo>>
    BY <1>1, <1>5 DEF OpenMarker, At, Goto, sync
  <2> QED
    BY <1>1, <2>1 DEF AsPlanned, Writing, Present
<1>6. CASE FillMarker(c)
  <2>1. /\ pc[c] = <<"mark", "call">> /\ pc'[c] = <<"entry", "call">>
        /\ marker'[approved[c]] = "written" /\ UNCHANGED <<store, approved, todo>>
    BY <1>1, <1>6 DEF FillMarker, At, Goto, sync
  <2> QED
    BY <1>1, <2>1 DEF AsPlanned, Writing, Present
<1>7. CASE CheckEntry(c) \/ Resolve(c) \/ \E s \in Slots : Unlink(c, s) \/ Link(c, s)
  <2>1. /\ pc[c][1] \in {"entry", "resolve", "unlink", "link"}
        /\ UNCHANGED <<store, marker, approved, todo>>
    BY <1>7 DEF CheckEntry, Resolve, Unlink, Link, At, sync, volume
  <2> QED
    BY <1>1, <2>1 DEF AsPlanned, Writing, Present
<1> QED
  BY <1>2, <1>3, <1>4, <1>5, <1>6, <1>7 DEF Step

\* The steps that neither write a file nor make a release current.
LEMMA OtherStepsLive ==
    ASSUME AInv, NEW c \in Calls, Step(c) \/ Kill(c), setting' = setting,
           ~(Copy(c) /\ ~Fails(c)), ~(Fill(c) /\ ~Fails(c)), ~(Link(c, "current") /\ ~Fails(c))
    PROVE  LiveWhole'
<1>1. \A d \in Calls \ {c} : /\ pc'[d] = pc[d] /\ approved'[d] = approved[d]
                             /\ todo'[d] = todo[d]
  <2>1. \A d \in Calls \ {c} : pc'[d] = pc[d]
    BY CallMoves DEF AInv, Actors
  <2> QED
    BY <2>1 DEF Step, Kill, DryRun, Apply, Copy, Fill, ReadBack, OpenMarker, FillMarker,
           CheckEntry, Resolve, Unlink, Link, sync, AInv, IInv, Typed
<1>2. store' = store /\ (link'["current"] = link["current"] \/ link'["current"] = None)
  <2>1. CASE Fails(c) \/ Kill(c) \/ DryRun(c) \/ Apply(c) \/ ReadBack(c) \/ OpenMarker(c)
             \/ FillMarker(c) \/ CheckEntry(c) \/ Resolve(c)
    BY <2>1 DEF Fails, Kill, DryRun, Apply, ReadBack, OpenMarker, FillMarker, CheckEntry,
           Resolve, volume
  <2>2. ASSUME NEW s \in Slots, Unlink(c, s) PROVE store' = store
               /\ (link'["current"] = link["current"] \/ link'["current"] = None)
    BY <2>2 DEF Unlink, Fails, AInv, IInv, Typed, Slots
  <2>3. ASSUME Link(c, "previous") PROVE store' = store /\ link'["current"] = link["current"]
    BY <2>3 DEF Link, Fails, AInv, IInv, Typed, Slots
  <2> QED
    BY <2>1, <2>2, <2>3 DEF Step, Slots
<1>3. CASE ~At(c, "fill")
  BY <1>1, <1>2, <1>3, LiveStays
<1>4. CASE At(c, "fill")
  <2>1. Fill(c) \/ Kill(c)
    BY <1>4 DEF Step, DryRun, Resting, Rest, Apply, Copy, ReadBack, OpenMarker, FillMarker,
           CheckEntry, Resolve, Unlink, Link, At
  <2>2. Fault \/ Spend("kills")
    <3>1. pc \in [Actors -> Places] /\ c \in Actors
      BY DEF AInv, IInv, Typed, Actors
    <3>2. CASE Kill(c)
      BY <3>2 DEF Kill
    <3>3. CASE Fill(c) /\ Fails(c)
      BY <3>1, <3>3 DEF Fill, Fails, Goto
    <3> QED
      BY <2>1, <3>2, <3>3
  <2>3. ~Calm
    BY <2>2, CalmMeans DEF AInv
  <2> QED
    BY <2>3 DEF LiveWhole, Calm
<1> QED
  BY <1>3, <1>4

\* A release is made current whole, with its marker.
LEMMA LinkedWhole ==
    ASSUME AInv, NEW c \in Calls, Link(c, "current"), ~Fails(c), setting.serialized
    PROVE  /\ link'["current"] = approved[c] /\ store' = store
           /\ store[approved[c]] = approved[c]
           /\ marker[approved[c]] = "written"
<1>1. /\ pc[c] = <<"link", "current">> /\ approved[c] \in Trees
      /\ link' = [link EXCEPT !["current"] = approved[c]] /\ store' = store
  BY DEF Link, AInv, IInv, Typed
<1>2. todo[c] = {}
  BY <1>1 DEF AInv, IInv, Progress, Written
<1>3. /\ \A f \in Present(approved[c]) : store[approved[c]][f] = approved[c][f]
      /\ marker[approved[c]] = "written"
  BY <1>1, <1>2 DEF AInv, SInv, AsPlanned, Writing
<1>4. \A f \in Files : store[approved[c]][f] = approved[c][f]
  BY <1>1, <1>3 DEF AInv, IInv, Stored, Present
<1>5. store[approved[c]] \in [Files -> Versions \cup {Absent, Torn}] /\ approved[c] \in Plan
  BY <1>1, TwinAssumption DEF AInv, IInv, Typed
<1>6. store[approved[c]] = approved[c]
  BY <1>4, <1>5 DEF Plan
<1>7. link'["current"] = approved[c]
  BY <1>1 DEF AInv, IInv, Typed, Slots
<1> QED
  BY <1>1, <1>3, <1>6, <1>7

LEMMA CallExact ==
    ASSUME AInv, NEW c \in Calls, Step(c) \/ Kill(c), setting' = setting
    PROVE  AsPlanned(c)' /\ LiveWhole'
<1>1. CASE Copy(c) /\ ~Fails(c)
  BY <1>1, CopyExact
<1>2. CASE Fill(c) /\ ~Fails(c)
  BY <1>2, FillExact
<1>3. CASE ~(Copy(c) /\ ~Fails(c)) /\ ~(Fill(c) /\ ~Fails(c))
  <2>1. AsPlanned(c)'
    <3>1. CASE Fails(c) \/ Kill(c)
      <4>1. pc'[c][1] \in {"failed", "killed"}
        BY <3>1 DEF Fails, Kill, Goto, AInv, IInv, Typed, Actors
      <4> QED
        BY <4>1 DEF AsPlanned, Writing
    <3>2. CASE ~Fails(c) /\ ~Kill(c)
      BY <1>3, <3>2, OtherStepsExact
    <3> QED
      BY <3>1, <3>2
  <2>2. ASSUME Link(c, "current"), ~Fails(c) PROVE LiveWhole'
    <3>1. Calm' => /\ link'["current"] = approved[c] /\ store' = store
                   /\ store[approved[c]] = approved[c]
      BY <2>2, LinkedWhole DEF Calm
    <3>2. ASSUME Calm', NEW f \in Present(link["current"])'
          PROVE  store'[link'["current"]][f] = link'["current"][f]
      BY <3>1, <3>2
    <3> QED
      BY <3>2 DEF LiveWhole
  <2>3. ASSUME ~(Link(c, "current") /\ ~Fails(c)) PROVE LiveWhole'
    BY <1>3, <2>3, OtherStepsLive
  <2> QED
    BY <2>1, <2>2, <2>3
<1> QED
  BY <1>1, <1>2, <1>3

LEMMA ObserverExact ==
    ASSUME AInv, NEW o \in Observers, Observe(o) PROVE SInv'
<1>1. /\ \A a \in Actors \ {o} : pc'[a] = pc[a]
      /\ UNCHANGED <<store, marker, link, approved, todo, setting>>
      /\ o \in Actors /\ \A c \in Calls : pc'[c] = pc[c] /\ c \in Actors
  BY ObserverMoves, TwinAssumption DEF AInv, Actors
<1>2. ~Resting(o) \/ Admitted
  BY DEF Observe, Query, QueryMarker, QueryScan, QueryVerdict, At, Resting, Rest
<1>3. OneActs'
  BY <1>1, <1>2, OneActsKept DEF AInv, SInv
<1>4. \A c \in Calls : AsPlanned(c)'
  BY <1>1 DEF AInv, SInv, AsPlanned
<1>5. LiveWhole'
  BY <1>1 DEF AInv, SInv, LiveWhole, Calm, Rewrites, At, NextFile
<1>6. ASSUME NEW p \in Observers PROVE Looks(p)'
  <2>1. CASE p # o
    <3>1. pc'[p] = pc[p] /\ seen'[p] = seen[p]
      BY <1>1, <2>1 DEF Observe, Query, QueryMarker, QueryScan, QueryVerdict, query, Actors,
         AInv, TInv, Ranges
    <3> QED
      BY <1>1, <3>1 DEF AInv, SInv, Looks
  <2>2. CASE p = o /\ Query(o)
    BY <1>1, <2>2 DEF Query, Looks, AInv, TInv, Ranges
  <2>3. CASE p = o /\ ~Query(o)
    <3>1. pc[o][1] \in Looking /\ seen' = seen
      BY <2>3 DEF Observe, QueryMarker, QueryScan, QueryVerdict, At, Looking, query
    <3> QED
      BY <1>1, <2>3, <3>1 DEF AInv, SInv, Looks
  <2> QED
    BY <2>1, <2>2, <2>3
<1> QED
  BY <1>3, <1>4, <1>5, <1>6 DEF SInv

LEMMA SerialKept == AInv /\ [Next]_vars => SInv'
<1> SUFFICES ASSUME AInv, [Next]_vars PROVE SInv'
  OBVIOUS
<1>1. CASE UNCHANGED <<setting, store, marker, link, pc, approved, todo, seen>>
  BY <1>1 DEF AInv, SInv, OneActs, AsPlanned, LiveWhole, Calm, Rewrites, Looks, Resting, At, NextFile
<1>2. ASSUME NEW c \in Calls, Step(c) \/ Kill(c), setting' = setting PROVE SInv'
  BY <1>2, CallLeavesOthers, CallExact DEF SInv
<1>3. ASSUME NEW o \in Observers, Observe(o) PROVE SInv'
  BY <1>3, ObserverExact
<1> QED
  BY <1>1, <1>2, <1>3
     DEF Next, Finished, EditSource, EditProfile, vars, volume, sync, query

THEOREM SerialInvariantHolds == Spec => []AInv
<1>1. Init => TInv /\ SInv
  BY TypesInitially, SerialInitially
<1>2. AInv /\ [Next]_vars => SInv'
  BY SerialKept
<1>3. IInv /\ TInv /\ [Next]_vars => TInv'
  BY TypesKept
<1>4. AInv <=> IInv /\ TInv /\ SInv
  BY DEF AInv
<1> QED
  BY <1>1, <1>2, <1>3, <1>4, InvariantHolds, PTL DEF Spec

\* A step that answers ok is the handler's last one: it makes the release current.
LEMMA OkIsWhole ==
    ASSUME AInv, [Next]_vars, NEW c \in Calls, setting.serialized, Answers(c, "ok")
    PROVE  /\ link'["current"] = approved[c]
           /\ store[approved[c]] = approved[c]
           /\ marker[approved[c]] = "written"
<1>1. pc \in [Actors -> Places] /\ c \in Actors /\ pc'[c] # pc[c] /\ pc'[c] = <<"ok", "call">>
  BY DEF AInv, IInv, Typed, Actors, Answers, At
<1>2. \A o \in Observers : ~Observe(o)
  BY <1>1, ObserverMoves, TwinAssumption DEF AInv
<1>3. PICK d \in Calls : Step(d) \/ Kill(d)
  BY <1>1, <1>2 DEF Next, Finished, EditSource, EditProfile, vars
<1>4. d = c
  BY <1>1, <1>3, CallMoves DEF AInv
<1>5. ~Fails(c) /\ ~Kill(c)
  BY <1>1 DEF Fails, Kill, Goto
<1>6. ~DryRun(c) /\ ~Apply(c) /\ ~Copy(c) /\ ~Fill(c) /\ ~ReadBack(c)
  BY <1>1, <1>5 DEF DryRun, Apply, Copy, Fill, ReadBack, Goto
<1>7. ~OpenMarker(c) /\ ~FillMarker(c) /\ ~CheckEntry(c) /\ ~Resolve(c)
  BY <1>1, <1>5 DEF OpenMarker, FillMarker, CheckEntry, Resolve, Goto, GotoLink
<1>8. \A s \in Slots : ~Unlink(c, s)
  BY <1>1, <1>5 DEF Unlink, GotoLink
<1>9. ~Link(c, "previous")
  BY <1>1, <1>5 DEF Link, GotoLink
<1>10. Link(c, "current")
  BY <1>3, <1>4, <1>5, <1>6, <1>7, <1>8, <1>9 DEF Step, Slots
<1> QED
  BY <1>5, <1>10, LinkedWhole

\* site-twin-sync: one call at a time, an ok answer is about the release that is
\* current now, whole and with its marker, whatever was torn before.
THEOREM VerifiedSyncIsWhole == Spec => VerifiedIsWhole
<1>1. AInv /\ [Next]_vars =>
        [\A c \in Calls : setting.serialized /\ Answers(c, "ok") =>
            /\ link'["current"] = approved[c]
            /\ store[approved[c]] = approved[c]
            /\ marker[approved[c]] = "written"]_vars
  BY OkIsWhole
<1> QED
  BY <1>1, SerialInvariantHolds, PTL DEF Spec, VerifiedIsWhole

\* A twin-current call that answers fresh had the volume to itself.
LEMMA FreshIsCurrent ==
    ASSUME AInv, [Next]_vars, NEW o \in Observers, Calm, Answers(o, "fresh")
    PROVE  link["current"] = seen[o] /\ store[seen[o]] = scan[o]
<1>1. pc \in [Actors -> Places] /\ o \in Actors /\ pc'[o] # pc[o] /\ pc'[o] = <<"fresh", "call">>
  BY DEF AInv, IInv, Typed, Actors, Answers, At
<1>2. \A c \in Calls : ~Step(c) /\ ~Kill(c)
  BY <1>1, CallMoves, TwinAssumption DEF AInv
<1>3. PICK p \in Observers : Observe(p)
  BY <1>1, <1>2 DEF Next, Finished, EditSource, EditProfile, vars
<1>4. p = o
  BY <1>1, <1>3, ObserverMoves DEF AInv
<1>5. At(o, "verdict") /\ Fresh(o)
  BY <1>1, <1>3, <1>4 DEF Observe, Query, QueryMarker, QueryScan, QueryVerdict, Goto
<1>6. /\ setting.serialized /\ ~Resting(o) /\ seen[o] = scan[o] /\ seen[o] \in Trees
      /\ seen[o] = link["current"] /\ link["current"] # None
  <2>1. setting.serialized /\ pc[o][1] = "verdict" /\ seen[o] = scan[o]
    BY <1>5 DEF Fresh, At, Calm
  <2>2. seen[o] \in Maybe /\ seen[o] # None /\ seen[o] = link["current"]
    BY <2>1 DEF AInv, TInv, Ranges, Sees, SInv, Looks, Looking
  <2> QED
    BY <2>1, <2>2 DEF Maybe, Resting, Rest
<1>7. \A f : ~Rewrites(link["current"], f)
  <2> SUFFICES ASSUME NEW c \in Calls, At(c, "fill") PROVE FALSE
    BY DEF Rewrites
  <2>1. Resting(c)
    BY <1>1, <1>6, OthersRest, TwinAssumption DEF AInv, SInv, Actors
  <2> QED
    BY <2>1 DEF At, Resting, Rest
<1>8. \A f \in Present(seen[o]) : store[seen[o]][f] = seen[o][f]
  BY <1>6, <1>7 DEF AInv, SInv, LiveWhole
<1>9. \A f \in Files : store[seen[o]][f] = seen[o][f]
  BY <1>6, <1>8 DEF AInv, IInv, Stored, Present
<1>10. store[seen[o]] \in [Files -> Versions \cup {Absent, Torn}] /\ seen[o] \in Plan
  BY <1>6, TwinAssumption DEF AInv, IInv, Typed
<1> QED
  BY <1>6, <1>9, <1>10 DEF Plan

\* "A fresh fact only when the current release still matches the registered source".
THEOREM FreshFactsMatch == Spec => FreshMatches
<1>1. AInv /\ [Next]_vars =>
        [\A o \in Observers : Calm /\ Answers(o, "fresh") =>
            link["current"] = seen[o] /\ store[seen[o]] = scan[o]]_vars
  BY FreshIsCurrent
<1> QED
  BY <1>1, SerialInvariantHolds, PTL DEF Spec, FreshMatches
===============================================================================
