------------------------------ MODULE DnsReplace ------------------------------
(***************************************************************************)
(* dns/command/replace and dns/command/reconcile (core.py, and             *)
(* dns_providers.py for Cloudflare): the address records of one host are   *)
(* brought to exactly one wanted record.                                   *)
(*                                                                         *)
(* A caller first takes a dry run, whose plan the grant is issued for, and *)
(* then applies.  Plesk takes a delete request and an add request, with a  *)
(* restore when the add is rejected; Cloudflare takes one batch.  A        *)
(* request can be rejected, or lost: no answer, applied or not.  People    *)
(* edit the zone in the panel meanwhile, records in place too.             *)
(*                                                                         *)
(* An add at Plesk names the host relative to its zone, a name the code    *)
(* guesses from the records it read (_dns_plesk_add_host): the record may  *)
(* land under another name than the one asked for.                         *)
(***************************************************************************)
EXTENDS Naturals, FiniteSets

CONSTANTS
    Calls,       \* callers of the handler
    Values,      \* record contents: type and address (and ttl, proxied)
    Want,        \* Want[c]: the content caller c wants
    Settings     \* who calls for which host, and the bounds: records of the host
                 \* at the start, identifiers the provider hands out, requests it
                 \* refuses, requests without an answer, calls killed by the
                 \* runner's deadline, edits made in the panel

\* A host of a zone of two labels; below, or at, the apex of a deeper zone.
Hosts == {"plain", "below", "apex"}

ASSUME DnsAssumption ==
    /\ Want \in [Calls -> Values]
    /\ Settings \subseteq [callers : SUBSET Calls, host : Hosts, size : Nat, ids : Nat,
                           rejects : Nat, lost : Nat, kills : Nat, edits : Nat]
    /\ \A s \in Settings : s.size <= s.ids

VARIABLES
    setting,   \* the setting, fixed
    provider,  \* who hosts the zone: "plesk" or "cloudflare"
    zone,      \* the host's address records at the provider
    nextId,    \* the identifier of the next record
    pc,        \* where each call is
    shown,     \* the host's records that each caller's dry run showed
    edited,    \* history: identifiers of records edited in place since then
    seen,      \* the host's records when the applying call asked for them
    reply,     \* what the last applying call answered
    budget     \* rejects, losses, kills and edits so far

vars == <<setting, provider, zone, nextId, pc, shown, edited, seen, reply, budget>>

Ids == setting.ids
Record == [id : 1..Ids, val : Values]
Working == {"approved", "delete", "add", "blind", "restore", "batch", "verify"}
Ended == {"failed", "killed"}

\* Mutant of Plan: every exact record is kept, duplicates too.
PlanKeepsDuplicates(records, v) ==
    LET exact == {r \in records : r.val = v}
    IN  [delete |-> {r.id : r \in records \ exact}, add |-> exact = {}]

\* _dns_plan, cloudflare_plan: keep one exact record, delete the others.
Plan(records, v) ==
    LET exact == {r \in records : r.val = v}
        keep == {r \in exact : \A s \in exact : r.id <= s.id}
    IN  [delete |-> {r.id : r \in records \ keep}, add |-> exact = {}]

Changed(plan) == plan.delete # {} \/ plan.add
NoReply == [verified |-> FALSE, attempted |-> FALSE, rollback |-> "none"]
Reply(attempted, rollback) ==
    [verified |-> FALSE, attempted |-> attempted, rollback |-> rollback]

Without(ids) == {r \in zone : r.id \notin ids}
\* Records added by one request get consecutive fresh identifiers.
Fresh(records) ==
    {[id |-> nextId + Cardinality({s \in records : s.id < r.id}), val |-> r.val] : r \in records}
\* The plan that was shown and that the grant is for; the plan of the applying
\* call, and the records it deletes.
Approved(c) == Plan(shown[c], Want[c])
Applied(c) == Plan(seen[c], Want[c])
Deleted(c) == {r \in seen[c] : r.id \in Applied(c).delete}
Exact(v) == \E r \in zone : zone = {r} /\ r.val = v
Add(records) ==
    /\ nextId + Cardinality(records) <= Ids + 1
    /\ nextId' = nextId + Cardinality(records)

Spend(what) == budget[what] < setting[what] /\ budget' = [budget EXCEPT ![what] = @ + 1]
Reject == Spend("rejects")
Lose == Spend("lost")

Goto(c, place) == pc' = [pc EXCEPT ![c] = place]
Fails(c, answer) == Goto(c, "failed") /\ reply' = [reply EXCEPT ![c] = answer]
Proceeds(c, place) == Goto(c, place) /\ UNCHANGED reply
Verified(c, attempted) ==
    /\ Goto(c, "done")
    /\ reply' = [reply EXCEPT ![c] = [verified |-> TRUE, attempted |-> attempted,
                                      rollback |-> "none"]]

Init ==
    /\ setting \in Settings
    /\ provider \in {"plesk", "cloudflare"}
    /\ \E n \in 0..setting.size : \E f \in [1..n -> Values] :
        /\ zone = {[id |-> i, val |-> f[i]] : i \in 1..n}
        /\ nextId = n + 1
    /\ pc = [c \in Calls |-> "idle"]
    /\ shown = [c \in Calls |-> {}]
    /\ edited = [c \in Calls |-> {}]
    /\ seen = [c \in Calls |-> {}]
    /\ reply = [c \in Calls |-> NoReply]
    /\ budget = [what \in {"rejects", "lost", "kills", "edits"} |-> 0]
-------------------------------------------------------------------------------
\* Plesk refuses the whole packet: the answer has no result for the query and
\* reads as a zone without records (_dns_parse_records).
Misread == provider = "plesk" /\ Reject

\* The dry run: its plan is shown, approved, and a grant is issued for it.  A
\* caller whose call failed or was killed starts over from here.
DryRun(c) ==
    /\ pc[c] \in {"idle"} \cup Ended
    /\ \/ shown' = [shown EXCEPT ![c] = zone] /\ UNCHANGED budget
       \/ shown' = [shown EXCEPT ![c] = {}] /\ Misread
    /\ edited' = [edited EXCEPT ![c] = {}]
    /\ reply' = [reply EXCEPT ![c] = NoReply]
    /\ Goto(c, "approved")
    /\ UNCHANGED <<zone, nextId, seen>>

\* Where an approved plan starts.
FirstStep(plan) == IF provider = "cloudflare" THEN "batch"
                   ELSE IF plan.delete # {} THEN "delete" ELSE "add"

\* Mutant of PlansFrom: the plan is not compared with the approved one.
PlansUnchecked(c, records, start) ==
    /\ seen' = [seen EXCEPT ![c] = records]
    /\ IF Changed(Plan(records, Want[c])) THEN Proceeds(c, start) ELSE Verified(c, FALSE)

\* The applying call plans again from the records it got: nothing to do, a plan
\* other than the approved one, or a plan it goes on to apply once the grant is
\* consumed (GrantReplay).  The plans are compared by their hash, which binds
\* identifiers and what is wanted, not the contents of what is deleted.
PlansFrom(c, records, start) ==
    LET plan == Plan(records, Want[c])
    IN  /\ seen' = [seen EXCEPT ![c] = records]
        /\ \/ ~Changed(plan) /\ Verified(c, FALSE)
           \/ Changed(plan) /\ plan # Approved(c) /\ Fails(c, NoReply)
           \/ Changed(plan) /\ plan = Approved(c) /\ Proceeds(c, start)

\* The applying call asks for the records: they, none by mistake, or no answer.
Read(c) ==
    /\ pc[c] = "approved"
    /\ \/ PlansFrom(c, zone, FirstStep(Plan(zone, Want[c]))) /\ UNCHANGED budget
       \/ PlansFrom(c, {}, "blind") /\ Misread
       \/ Lose /\ Fails(c, NoReply) /\ UNCHANGED seen
    /\ UNCHANGED <<zone, nextId, shown, edited>>

\* Plesk, the delete request: one del_rec per identifier.  An identifier that
\* is gone may be refused; a refusal can come after some were deleted.
Delete(c) ==
    LET ids == Applied(c).delete
        missing == ids \ {r.id : r \in zone}
    IN  /\ pc[c] = "delete"
        /\ \/ /\ zone' = Without(ids)
              /\ Proceeds(c, IF Applied(c).add THEN "add" ELSE "verify")
              /\ UNCHANGED budget
           \/ /\ IF missing # {} THEN UNCHANGED budget ELSE Reject
              /\ \E some \in SUBSET ids : zone' = Without(some)
              /\ Fails(c, Reply(TRUE, "none"))
           \/ /\ Lose
              /\ \E some \in {{}, ids} : zone' = Without(some)
              /\ Fails(c, NoReply)
        /\ UNCHANGED <<nextId, shown, edited, seen>>

\* _dns_plesk_add_host: the name relative to the zone is what is left of the
\* host before the shortest other name among the records read that ends it, and
\* without such a name all labels but the last two.  An add is one of the host's
\* records unless the host is the apex of a zone of three labels or more, or
\* below it while the query showed nothing (a zone has records at its apex).
LandsAtHost(c) ==
    setting.host = "plain" \/ (setting.host = "below" /\ pc[c] # "blind")

\* An add request was accepted: its records are of this host or of another.
Accepted(c, records) ==
    /\ Add(records)
    /\ zone' = IF LandsAtHost(c) THEN zone \cup Fresh(records) ELSE zone

Wanted(c) == {[id |-> nextId, val |-> Want[c]]}

\* Mutant of AddRecord: a rejected add is always followed by a restore.
AddAlwaysRestores(c) ==
    /\ pc[c] \in {"add", "blind"}
    /\ Reject
    /\ Proceeds(c, "restore")
    /\ UNCHANGED <<zone, nextId, shown, edited, seen>>

\* Plesk, the add request.
AddRecord(c) ==
    /\ pc[c] \in {"add", "blind"}
    /\ \/ Accepted(c, Wanted(c)) /\ Proceeds(c, "verify") /\ UNCHANGED budget
       \/ /\ Reject
          /\ IF Deleted(c) # {} THEN Proceeds(c, "restore")
                                ELSE Fails(c, Reply(TRUE, "none"))
          /\ UNCHANGED <<zone, nextId>>
       \/ /\ Lose
          /\ Accepted(c, Wanted(c)) \/ UNCHANGED <<zone, nextId>>
          /\ Fails(c, NoReply)
    /\ UNCHANGED <<shown, edited, seen>>

\* Mutant of Restore: the restore puts one of the deleted records back.
RestoreOne(c) ==
    /\ pc[c] = "restore"
    /\ \E r \in Deleted(c) : Accepted(c, {r})
    /\ Fails(c, Reply(TRUE, "ok"))
    /\ UNCHANGED <<shown, edited, seen, budget>>

\* Plesk, after a rejected add: the deleted records are added again, in one
\* request, of which only some may be accepted.
Restore(c) ==
    LET back == Deleted(c)
    IN  /\ pc[c] = "restore"
        /\ \/ Accepted(c, back) /\ Fails(c, Reply(TRUE, "ok")) /\ UNCHANGED budget
           \/ /\ Reject
              /\ \E some \in (SUBSET back) \ {back} : Accepted(c, some)
              /\ Fails(c, Reply(TRUE, "failed"))
           \/ /\ Lose
              /\ \E some \in {{}, back} : Accepted(c, some)
              /\ Fails(c, NoReply)
        /\ UNCHANGED <<shown, edited, seen>>

\* Cloudflare: deletes and the create in one batch, all or nothing.
Batch(c) ==
    LET ids == Applied(c).delete
        new == IF Applied(c).add THEN Wanted(c) ELSE {}
        missing == ids \ {r.id : r \in zone}
        applied == Add(new) /\ zone' = Without(ids) \cup new
    IN  /\ pc[c] = "batch"
        /\ \/ missing = {} /\ applied /\ Proceeds(c, "verify") /\ UNCHANGED budget
           \/ /\ IF missing # {} THEN UNCHANGED budget ELSE Reject
              /\ UNCHANGED <<zone, nextId>>
              /\ Fails(c, Reply(TRUE, "none"))
           \/ /\ Lose
              /\ (missing = {} /\ applied) \/ UNCHANGED <<zone, nextId>>
              /\ Fails(c, Reply(TRUE, "none"))
        /\ UNCHANGED <<shown, edited, seen>>

\* The read-back: exactly the wanted record; a refused query shows none.
\* Without an answer the Plesk handler says that nothing was attempted.
Verify(c) ==
    /\ pc[c] = "verify"
    /\ \/ Exact(Want[c]) /\ Verified(c, TRUE) /\ UNCHANGED budget
       \/ ~Exact(Want[c]) /\ Fails(c, Reply(TRUE, "none")) /\ UNCHANGED budget
       \/ Reject /\ Fails(c, Reply(TRUE, "none"))
       \/ Lose /\ Fails(c, Reply(provider = "cloudflare", "none"))
    /\ UNCHANGED <<zone, nextId, shown, edited, seen>>

\* The runner's deadline: the call is gone, the provider keeps what it has.
Kill(c) ==
    /\ pc[c] \in Working
    /\ Spend("kills")
    /\ Goto(c, "killed")
    /\ UNCHANGED <<zone, nextId, shown, edited, seen, reply>>

\* Someone adds, removes, or edits in place a record of the host in the panel.
\* An edited record keeps its identifier.
PanelEdit ==
    /\ Spend("edits")
    /\ \/ /\ \E v \in Values : LET new == {[id |-> nextId, val |-> v]}
                               IN  Add(new) /\ zone' = zone \cup new
          /\ UNCHANGED edited
       \/ /\ \E r \in zone : zone' = zone \ {r}
          /\ UNCHANGED <<nextId, edited>>
       \/ /\ \E r \in zone, v \in Values :
              /\ v # r.val
              /\ zone' = (zone \ {r}) \cup {[r EXCEPT !.val = v]}
              /\ edited' = [c \in Calls |-> edited[c] \cup {r.id}]
          /\ UNCHANGED nextId
    /\ UNCHANGED <<pc, shown, seen, reply>>

Step(c) ==
    /\ \/ DryRun(c) \/ Read(c) \/ Delete(c) \/ AddRecord(c) \/ Restore(c)
       \/ Batch(c) \/ Verify(c)
    /\ UNCHANGED <<setting, provider>>

\* Every call is done, or the bound on identifiers is near.
Finished ==
    /\ (\A c \in setting.callers : pc[c] = "done") \/ nextId + setting.size > Ids
    /\ UNCHANGED vars

Next ==
    /\ PanelEdit \/ Finished \/ \E c \in setting.callers : Step(c) \/ Kill(c)
    /\ UNCHANGED <<setting, provider>>

Spec == Init /\ [][Next]_vars

\* The steps of a call are the handler's own, which a live process takes; that
\* a caller without a verified answer starts over is the caller's part.
FairSpec == Spec /\ \A c \in Calls : WF_vars(c \in setting.callers /\ Step(c))
-------------------------------------------------------------------------------
\* Types; identifiers are unique; a delete or a restore request is not empty.
TypeOK ==
    /\ setting \in Settings
    /\ provider \in {"plesk", "cloudflare"}
    /\ zone \subseteq Record
    /\ \A r, s \in zone : r.id = s.id => r = s
    /\ nextId \in 1..(Ids + 1)
    /\ \A r \in zone : r.id < nextId
    /\ pc \in [Calls -> {"idle", "done"} \cup Working \cup Ended]
    /\ shown \in [Calls -> SUBSET Record]
    /\ edited \in [Calls -> SUBSET (1..Ids)]
    /\ seen \in [Calls -> SUBSET Record]
    /\ reply \in [Calls -> [verified : BOOLEAN, attempted : BOOLEAN,
                            rollback : {"none", "ok", "failed"}]]
    /\ \A c \in Calls : pc[c] = "delete" => Applied(c).delete # {}
    /\ \A c \in Calls : pc[c] = "restore" => Deleted(c) # {}

\* Call c has the host for itself.
Alone(c) == setting.callers = {c} /\ setting.edits = 0

Contents(records) == [v \in Values |-> Cardinality({r \in records : r.val = v})]

\* A call that was alone and answered rollback_ok left the host with the
\* contents it read: every deleted record is back, once, and nothing was added.
\* Not so at the apex of a zone of three labels or more, where the restored
\* records land under another name and the answer is the same.
RollbackRestores ==
    \A c \in Calls : Alone(c) /\ pc[c] = "failed" /\ reply[c].rollback = "ok"
                     /\ setting.host # "apex" =>
        Contents(zone) = Contents(seen[c])

\* No call deletes a record its approver was not shown: the plan of the caller's
\* dry run named its identifier, and the record is the one that dry run showed
\* unless someone edited it in place since, which no hash of the plan tells.
OnlyApprovedRemoved ==
    [][budget'["edits"] = budget["edits"] =>
        \A r \in zone \ zone' : \E c \in Calls :
            /\ pc[c] \in {"delete", "batch"}
            /\ r.id \in Approved(c).delete
            /\ r \in shown[c] \/ r.id \in edited[c]]_vars

\* A lone caller that starts over after failures, lost answers, misread zones and
\* kills ends with exactly the record it wants, whatever half-done replacement it
\* starts from.  Not so at the apex of a deep zone at Plesk, where the wanted
\* record lands under another name however often the caller starts over.
Converges ==
    \A c \in Calls :
        <>[](Alone(c) /\ (setting.host # "apex" \/ provider = "cloudflare") =>
                pc[c] = "done" /\ Exact(Want[c]))
===============================================================================
