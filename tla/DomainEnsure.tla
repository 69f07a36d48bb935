----------------------------- MODULE DomainEnsure -----------------------------
(***************************************************************************)
(* domain/command/ensure and site/command/subdomain-ensure (core.py): a    *)
(* domain is added to a subscription with room for it, a subdomain to its  *)
(* parent, unless it is there.                                             *)
(*                                                                         *)
(* Every question is an XML request of its own: is the name there, what    *)
(* may the subscription hold, how many does it hold, add it, is it there   *)
(* now.  A request can be rejected, or lost: no answer, applied or not.    *)
(* The panel gives a name to one site or subdomain only; whether it holds  *)
(* to a subscription's limit by itself is left open.                       *)
(***************************************************************************)
EXTENDS Naturals, FiniteSets

CONSTANTS
    Callers,        \* callers of the two handlers
    Names,          \* names of domains and subdomains
    Subscriptions,  \* subscriptions (webspaces)
    None,           \* nothing has this name
    Unlimited, Unknown,  \* limits that are no number
    Limits,         \* the limits considered
    Settings        \* who calls, and the bounds: requests the panel rejects,
                    \* requests without an answer, calls killed by the runner's
                    \* deadline, changes made in the panel

ASSUME EnsureAssumption ==
    /\ IsFiniteSet(Names)
    /\ Limits \subseteq Nat \cup {Unlimited, Unknown}
    /\ Unlimited # Unknown /\ Unknown \notin Nat
    /\ Settings \subseteq [callers : SUBSET Callers, rejects : Nat, lost : Nat,
                           kills : Nat, edits : Nat]

VARIABLES
    setting,     \* the setting, fixed
    job,         \* what each caller wants, fixed
    limit,       \* the domain limit of each subscription, fixed
    denied,      \* subscriptions that are denied more domains, fixed
    holder,      \* holder[n]: what has name n at the panel
    at,          \* where each call is
    created,     \* callers that were answered created = True
    misread,     \* callers that took a rejected request for an answer: a list of
                 \* domains for an empty one, or an add for a name that is there
    spent        \* rejects, losses, kills and edits so far

fixed == <<setting, job, limit, denied>>
ensureVars == <<fixed, holder, at, created, misread, spent>>

Kinds == {"domain", "subdomain"}
Job == [kind : Kinds, name : Names, subscription : Subscriptions, apply : BOOLEAN]
Holder == [kind : Kinds, subscription : Subscriptions]
Busy == {"look", "limits", "count", "ready", "add", "verify"}
Resting == {"idle", "failed", "killed"}

\* The holder that a call would put there, and whether one like it is there:
\* a site is found in whichever subscription it is.
Wanted(c) == [kind |-> job[c].kind, subscription |-> job[c].subscription]
There(c) == holder[job[c].name] # None /\ holder[job[c].name].kind = job[c].kind
Free(c) == holder[job[c].name] = None
Domains(s) == {n \in Names : holder[n] = [kind |-> "domain", subscription |-> s]}

EnsureInit ==
    /\ setting \in Settings
    /\ job \in [Callers -> Job]
    /\ \A c \in Callers \ setting.callers : job[c] = CHOOSE j \in Job : TRUE
    /\ limit \in [Subscriptions -> Limits]
    /\ denied \in SUBSET Subscriptions
    /\ holder \in [Names -> Holder \cup {None}]
    /\ at = [c \in Callers |-> "idle"]
    /\ created = {}
    /\ misread = {}
    /\ spent = [what \in {"rejects", "lost", "kills", "edits"} |-> 0]

Happens(what) == spent[what] < setting[what] /\ spent' = [spent EXCEPT ![what] = @ + 1]
Reject == Happens("rejects")
Lose == Happens("lost")
MoveTo(c, place) == at' = [at EXCEPT ![c] = place]
Succeeds(c, new) == MoveTo(c, "ok") /\ created' = IF new THEN created \cup {c} ELSE created
Continues(c, place) == MoveTo(c, place) /\ UNCHANGED created
GivesUp(c) == Continues(c, "failed")
-------------------------------------------------------------------------------
\* A call begins; a caller whose call failed or was killed starts over.
EnsureBegin(c) ==
    /\ at[c] \in Resting
    /\ Continues(c, "look")
    /\ misread' = misread \ {c}
    /\ UNCHANGED <<holder, spent>>

\* Mutant of Look: a domain is not looked for before room is asked for.
LookLater(c) ==
    /\ at[c] = "look"
    /\ IF job[c].kind = "domain" THEN Continues(c, "limits")
       ELSE IF There(c) THEN Succeeds(c, FALSE) ELSE Continues(c, "ready")
    /\ UNCHANGED <<holder, misread, spent>>

\* The get request for the name.  An error answer is how the panel says that
\* the name is not there, so a rejected request reads like that too.
Look(c) ==
    LET absent == Continues(c, IF job[c].kind = "domain" THEN "limits" ELSE "ready")
    IN  /\ at[c] = "look"
        /\ \/ There(c) /\ Succeeds(c, FALSE) /\ UNCHANGED spent
           \/ ~There(c) /\ absent /\ UNCHANGED spent
           \/ Reject /\ absent
           \/ Lose /\ GivesUp(c)
        /\ UNCHANGED <<holder, misread>>

\* _subscription_capabilities_with_credentials asks for the limits and the
\* permissions: a subscription the credential may not see ends the call ...
AskLimits(c) ==
    /\ at[c] = "limits"
    /\ \/ Continues(c, "count") /\ UNCHANGED spent
       \/ (Reject \/ Lose) /\ GivesUp(c)
    /\ UNCHANGED <<holder, misread>>

\* Mutant of Room: the last domain may be one too many.
RoomForOneMore(s, n) ==
    /\ s \notin denied
    /\ limit[s] = Unlimited \/ (limit[s] \in Nat /\ n <= limit[s])

\* The limit must be known; a permission need not, if only it is not denied.
Room(s, n) ==
    /\ s \notin denied
    /\ limit[s] = Unlimited \/ (limit[s] \in Nat /\ n < limit[s])

\* ... and then for the list of domains, of which an error answer counts none.
Count(c) ==
    LET s == job[c].subscription
        decides(n) == IF Room(s, n) THEN Continues(c, "ready") ELSE GivesUp(c)
    IN  /\ at[c] = "count"
        /\ \/ decides(Cardinality(Domains(s))) /\ UNCHANGED <<misread, spent>>
           \/ Reject /\ decides(0) /\ misread' = misread \cup {c}
           \/ Lose /\ GivesUp(c) /\ UNCHANGED misread
        /\ UNCHANGED holder

\* Mutant of Ready: a dry run goes on like an applying call.
ReadyAnyway(c) ==
    /\ at[c] = "ready"
    /\ Continues(c, "add")
    /\ UNCHANGED <<holder, misread, spent>>

\* A dry run ends here.  An applying call goes on when its gates are open and,
\* for a subdomain, its plan and grant are in order (GrantReplay, MutateLease).
Ready(c) ==
    /\ at[c] = "ready"
    /\ \/ ~job[c].apply /\ Succeeds(c, FALSE) /\ UNCHANGED spent
       \/ job[c].apply /\ Continues(c, "add") /\ UNCHANGED spent
       \/ job[c].apply /\ Reject /\ GivesUp(c)
    /\ UNCHANGED <<holder, misread>>

Adds(c) == Free(c) /\ holder' = [holder EXCEPT ![job[c].name] = Wanted(c)]

\* A refusal that says "already" or "exists" is success for a subdomain,
\* whatever it says it of, and like any other refusal a failure for a domain.
AddRefused(c) ==
    \/ /\ ~Free(c)
       /\ IF job[c].kind = "subdomain" THEN Succeeds(c, FALSE) ELSE GivesUp(c)
       /\ UNCHANGED <<misread, spent>>
    \/ Reject /\ GivesUp(c) /\ UNCHANGED misread
    \/ /\ job[c].kind = "subdomain" /\ Reject
       /\ Succeeds(c, FALSE) /\ misread' = misread \cup {c}

\* The add request.  A domain is answered as created for the panel's word, a
\* subdomain is read back.
Add(c) ==
    /\ at[c] = "add"
    /\ \/ /\ Adds(c)
          /\ IF job[c].kind = "domain" THEN Succeeds(c, TRUE) ELSE Continues(c, "verify")
          /\ UNCHANGED <<misread, spent>>
       \/ AddRefused(c) /\ UNCHANGED holder
       \/ Lose /\ GivesUp(c) /\ (Adds(c) \/ UNCHANGED holder) /\ UNCHANGED misread

\* The read-back of a subdomain.
Verify(c) ==
    /\ at[c] = "verify"
    /\ \/ There(c) /\ Succeeds(c, TRUE) /\ UNCHANGED spent
       \/ ~There(c) /\ GivesUp(c) /\ UNCHANGED spent
       \/ (Reject \/ Lose) /\ GivesUp(c)
    /\ UNCHANGED <<holder, misread>>

\* The runner's deadline.
EnsureKill(c) ==
    /\ at[c] \in Busy
    /\ Happens("kills")
    /\ Continues(c, "killed")
    /\ UNCHANGED <<holder, misread>>

\* Someone adds or removes a site or a subdomain in the panel.
NameEdit ==
    /\ Happens("edits")
    /\ \E n \in Names :
        \/ holder[n] # None /\ holder' = [holder EXCEPT ![n] = None]
        \/ holder[n] = None /\ \E h \in Holder : holder' = [holder EXCEPT ![n] = h]
    /\ UNCHANGED <<at, created, misread>>

EnsureStep(c) ==
    /\ \/ EnsureBegin(c) \/ Look(c) \/ AskLimits(c) \/ Count(c) \/ Ready(c)
       \/ Add(c) \/ Verify(c)
    /\ UNCHANGED fixed

EnsureFinished == (\A c \in setting.callers : at[c] = "ok") /\ UNCHANGED ensureVars

EnsureNext ==
    /\ NameEdit \/ EnsureFinished \/ \E c \in setting.callers : EnsureStep(c) \/ EnsureKill(c)
    /\ UNCHANGED fixed

EnsureSpec == EnsureInit /\ [][EnsureNext]_ensureVars

\* The steps of a call are the handler's own; that a caller without an ok
\* starts over is the caller's part.
FairEnsureSpec ==
    EnsureSpec /\ \A c \in Callers : WF_ensureVars(c \in setting.callers /\ EnsureStep(c))
-------------------------------------------------------------------------------
\* Types; only a domain is counted, only a subdomain is read back.
EnsureTypeOK ==
    /\ setting \in Settings
    /\ job \in [Callers -> Job]
    /\ holder \in [Names -> Holder \cup {None}]
    /\ at \in [Callers -> {"ok"} \cup Busy \cup Resting]
    /\ {created, misread} \subseteq SUBSET Callers
    /\ \A c \in Callers : at[c] \in {"limits", "count"} => job[c].kind = "domain"
    /\ \A c \in Callers : at[c] = "verify" => job[c].kind = "subdomain" /\ job[c].apply
    /\ \A c \in created : at[c] = "ok" /\ job[c].apply

Alone(c) == setting.callers = {c} /\ setting.edits = 0

\* "Unknown subscription limits, exhausted capacity [...] and explicit permission
\* denial all fail closed": a lone caller's domain is added only to a
\* subscription that may have it, also when the caller starts over after an add
\* whose answer was lost.  An error answer to the list of domains, which
\* the code counts as an empty list, is left out.
AddedWithRoom ==
    [][\A c \in Callers \ misread :
        LET s == job[c].subscription
        IN  Alone(c) /\ Cardinality(Domains(s)') > Cardinality(Domains(s)) =>
                /\ s \notin denied /\ limit[s] # Unknown
                /\ limit[s] # Unlimited => Cardinality(Domains(s)') <= limit[s]]_ensureVars

\* A lone caller can be served: what it wants is there, or its name is free
\* and a domain has room.
Servable(c) ==
    /\ Alone(c) /\ job[c].apply
    /\ There(c) \/ (Free(c) /\ (job[c].kind = "domain" =>
           Room(job[c].subscription, Cardinality(Domains(job[c].subscription)))))

\* A lone caller that starts over after rejected and lost requests and kills ends
\* with its domain or subdomain there, also when a lost add took the last place,
\* but for a subdomain whose refusal spoke of something that exists.
EnsureConverges ==
    \A c \in Callers : <>[](Servable(c) =>
        at[c] = "ok" /\ (There(c) \/ (job[c].kind = "subdomain" /\ c \in misread)))
===============================================================================
