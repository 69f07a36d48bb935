-------------------------- MODULE CredentialRotation --------------------------
(***************************************************************************)
(* The handlers that set a credential at the Plesk panel and store it in   *)
(* the vault (core.py): ensure_mailbox, ensure_ftp_user (system and        *)
(* additional) and bootstrap_api_key.                                      *)
(*                                                                         *)
(* The panel and the vault are two services: nothing makes the two writes  *)
(* one.  Either can be refused or get no answer, the runner can kill the   *)
(* call in between, and two calls for one account can overlap.  A secret   *)
(* is a number, the order in which it was generated.                       *)
(***************************************************************************)
EXTENDS Naturals, FiniteSets

CONSTANTS
    Calls,       \* callers of the handler, all for one account
    NoSecret,    \* an entry or a call without a secret
    MaxGrants,   \* bound: grants consumed
    MaxFaults,   \* bound: refused requests
    MaxLost,     \* bound: requests without an answer
    MaxKills,    \* bound: calls killed by the runner's deadline
    MaxDuds      \* bound: API keys created that do not open the API from here

ASSUME RotationAssumption ==
    /\ {MaxGrants, MaxFaults, MaxLost, MaxKills, MaxDuds} \subseteq Nat
    /\ NoSecret \notin Nat

VARIABLES
    job,         \* what the calls are asked for, see Jobs
    valid,       \* the secrets that open the account, or the API, from here
    vault,       \* the secret in each vault entry
    fresh,       \* the next secret
    pc,          \* where each call is
    approved,    \* the action each caller's dry run planned
    secret,      \* the secret each call generated
    grants,      \* grants consumed
    budget       \* faults, lost answers, kills and duds so far

vars == <<job, valid, vault, fresh, pc, approved, secret, grants, budget>>

\* A request: what kind of credential, whether it goes to a second entry as well,
\* the mailbox handler's rotate_existing, and whether the runner admits one
\* applying call at a time.
Jobs == {j \in [kind : {"mailbox", "system", "additional", "apikey"},
                mirror : BOOLEAN, rotate : BOOLEAN, serial : BOOLEAN] :
            /\ j.mirror => j.kind \in {"mailbox", "system"}
            /\ ~j.rotate => j.kind = "mailbox"}

Entries == {"primary", "mirror"}
\* The entries a call of this kind is to fill.
Targets == IF job.mirror THEN Entries ELSE {"primary"}
Secrets == 0..(2 * MaxGrants)
Actions == {"create", "rotate", "keep"}
Applying == {"panel", "fallback", "check", "store", "mirror", "readback"}
Ended == {"failed", "killed"}

Spend(what, max) == budget[what] < max /\ budget' = [budget EXCEPT ![what] = @ + 1]
Fault == Spend("faults", MaxFaults)
Lose == Spend("lost", MaxLost)

\* The key in the answer does not open the API from here: it is bound to another
\* address or login, or the first line `plesk bin` printed was not the key.
Dud == job.kind = "apikey" /\ Spend("duds", MaxDuds)

Goto(c, place) == pc' = [pc EXCEPT ![c] = place]

\* The secret 0 was set by a person: the vault may have it, in every entry.
\* The subscription's system user always exists.
Init ==
    /\ job \in Jobs
    /\ valid \in {{}, {0}}
    /\ job.kind = "system" => valid = {0}
    /\ \E s \in {NoSecret} \cup valid : vault = [e \in Entries |-> s]
    /\ fresh = 1
    /\ pc = [c \in Calls |-> "idle"]
    /\ approved = [c \in Calls |-> "keep"]
    /\ secret = [c \in Calls |-> NoSecret]
    /\ grants = 0
    /\ budget = [what \in {"faults", "lost", "kills", "duds"} |-> 0]
-------------------------------------------------------------------------------
\* Mutant of Action: an existing mailbox is always kept.
ActionKeeps == IF valid = {} THEN "create" ELSE "keep"

\* The action in the plan.  Only the mailbox handler looks at the account; the
\* plan of the others is the request alone.
Action ==
    IF job.kind # "mailbox" THEN "rotate"
    ELSE IF valid = {} THEN "create" ELSE IF job.rotate THEN "rotate" ELSE "keep"

\* The dry run.  A caller whose call failed or was killed starts over here; an
\* account to be kept is answered ok at once.
DryRun(c) ==
    /\ pc[c] \in {"idle"} \cup Ended
    /\ approved' = [approved EXCEPT ![c] = Action]
    /\ Goto(c, IF Action = "keep" THEN "kept" ELSE "approved")
    /\ UNCHANGED <<valid, vault, fresh, secret, grants, budget>>

\* The applying call plans again, compares, and consumes its grant.  The probe
\* of the mailbox may fail, a gate be closed, the grant be refused.
Apply(c) ==
    /\ pc[c] = "approved"
    /\ job.serial => \A d \in Calls : pc[d] \notin Applying
    /\ \/ Action = "keep" /\ Goto(c, "kept") /\ UNCHANGED <<grants, budget>>
       \/ /\ Action \notin {"keep", approved[c]}
          /\ Goto(c, "failed")
          /\ UNCHANGED <<grants, budget>>
       \/ /\ Action # "keep" /\ Action = approved[c]
          /\ grants < MaxGrants /\ grants' = grants + 1
          /\ Goto(c, "panel")
          /\ UNCHANGED budget
       \/ Fault /\ Goto(c, "failed") /\ UNCHANGED grants
    /\ UNCHANGED <<valid, vault, fresh, approved, secret>>

\* Does the panel accept the first request: create a mailbox that is absent,
\* change one that is there; set an additional user that is there.
Accepts(c) ==
    CASE job.kind = "mailbox" -> (approved[c] = "create") = (valid = {})
      [] job.kind = "additional" -> valid # {}
      [] OTHER -> TRUE

\* A password replaces the one before; an API key is one more key.
With(s) == IF job.kind = "apikey" THEN valid \cup {s} ELSE {s}
Failing == IF job.kind \in {"additional", "apikey"} THEN "fallback" ELSE "failed"

\* Mutant of SetPanel: calls share one generated password.
SetPanelShared(c) ==
    /\ pc[c] = "panel"
    /\ Accepts(c) /\ valid' = With(fresh)
    /\ secret' = [secret EXCEPT ![c] = fresh]
    /\ Goto(c, IF job.kind \in {"system", "additional"} THEN "check" ELSE "store")
    /\ UNCHANGED <<vault, fresh, approved, grants, budget>>

\* The request that sets the credential: a password the call generates, or a
\* key the panel does.  A refusal is final for a mailbox and a system user; an
\* additional user is then added, a key is then asked for over root SSH, also
\* when the first request got no answer.
SetPanel(c) ==
    /\ pc[c] = "panel"
    /\ fresh' = fresh + 1
    /\ secret' = [secret EXCEPT ![c] = fresh]
    /\ \/ /\ Accepts(c) /\ valid' = With(fresh) /\ UNCHANGED budget
          /\ Goto(c, IF job.kind \in {"system", "additional"} THEN "check" ELSE "store")
       \/ Dud /\ UNCHANGED valid /\ Goto(c, "store")
       \/ /\ IF Accepts(c) THEN Fault ELSE UNCHANGED budget
          /\ UNCHANGED valid
          /\ Goto(c, Failing)
       \/ /\ Lose
          /\ \/ Accepts(c) /\ valid' = With(fresh)
             \/ UNCHANGED valid
          /\ Goto(c, IF job.kind = "apikey" THEN "fallback" ELSE "failed")
    /\ UNCHANGED <<vault, approved, grants>>

\* Mutant of Fallback: the key stored is the one of the first request.
FallbackKeepsSecret(c) ==
    /\ pc[c] = "fallback"
    /\ valid' = With(fresh)
    /\ fresh' = fresh + 1
    /\ Goto(c, IF job.kind = "additional" THEN "check" ELSE "store")
    /\ UNCHANGED <<vault, approved, secret, grants, budget>>

\* The second way: add the additional user with the same password, or create
\* another key with `plesk bin secret_key`.
Fallback(c) ==
    LET new == IF job.kind = "apikey" THEN fresh ELSE secret[c]
        accepted == job.kind = "apikey" \/ valid = {}
        takes == /\ secret' = [secret EXCEPT ![c] = new]
                 /\ fresh' = IF job.kind = "apikey" THEN fresh + 1 ELSE fresh
        sets == accepted /\ valid' = With(new) /\ takes
    IN  /\ pc[c] = "fallback"
        /\ \/ /\ sets /\ UNCHANGED budget
              /\ Goto(c, IF job.kind = "apikey" THEN "store" ELSE "check")
           \/ Dud /\ takes /\ UNCHANGED valid /\ Goto(c, "store")
           \/ /\ IF accepted THEN Fault ELSE UNCHANGED budget
              /\ UNCHANGED <<valid, secret, fresh>>
              /\ Goto(c, "failed")
           \/ /\ Lose
              /\ sets \/ UNCHANGED <<valid, secret, fresh>>
              /\ Goto(c, "failed")
        /\ UNCHANGED <<vault, approved, grants>>

\* ensure_ftp_user asks the panel for the login before it stores anything.
Check(c) ==
    /\ pc[c] = "check"
    /\ \/ valid # {} /\ Goto(c, "store") /\ UNCHANGED budget
       \/ valid = {} /\ Goto(c, "failed") /\ UNCHANGED budget
       \/ (Fault \/ Lose) /\ Goto(c, "failed")
    /\ UNCHANGED <<valid, vault, fresh, approved, secret, grants>>

\* Mutant of Store: an entry that exists is not overwritten.
StoreOnce(c, e) ==
    /\ pc[c] = (IF e = "primary" THEN "store" ELSE "mirror")
    /\ vault' = [vault EXCEPT ![e] = IF @ = NoSecret THEN secret[c] ELSE @]
    /\ Goto(c, IF e = "primary" /\ job.mirror THEN "mirror" ELSE "readback")
    /\ UNCHANGED <<valid, fresh, approved, secret, grants, budget>>

\* _vault_store_secrets, for the primary entry and then for its mirror.
Store(c, e) ==
    LET stores == vault' = [vault EXCEPT ![e] = secret[c]]
    IN  /\ pc[c] = (IF e = "primary" THEN "store" ELSE "mirror")
        /\ \/ /\ stores /\ UNCHANGED budget
              /\ Goto(c, IF e = "primary" /\ job.mirror THEN "mirror" ELSE "readback")
           \/ Fault /\ UNCHANGED vault /\ Goto(c, "failed")
           \/ Lose /\ (stores \/ UNCHANGED vault) /\ Goto(c, "failed")
        /\ UNCHANGED <<valid, fresh, approved, secret, grants>>

\* Mutant of Confirmed: a key that is stored is taken for one that works.
ConfirmedStored == IF job.kind = "mailbox" THEN valid # {} ELSE vault["primary"] # NoSecret

\* What the last check looks at: that the mailbox exists, that the vault has the
\* entry, or that the key in the vault opens the panel's API.
Confirmed ==
    CASE job.kind = "mailbox" -> valid # {}
      [] job.kind = "apikey" -> vault["primary"] \in valid
      [] OTHER -> vault["primary"] # NoSecret

ReadBack(c) ==
    /\ pc[c] = "readback"
    /\ \/ Confirmed /\ Goto(c, "ok") /\ UNCHANGED budget
       \/ ~Confirmed /\ Goto(c, "failed") /\ UNCHANGED budget
       \/ (Fault \/ Lose) /\ Goto(c, "failed")
    /\ UNCHANGED <<valid, vault, fresh, approved, secret, grants>>

\* The runner's deadline: the secret dies with the call's process.
Kill(c) ==
    /\ pc[c] \in Applying
    /\ Spend("kills", MaxKills)
    /\ Goto(c, "killed")
    /\ UNCHANGED <<valid, vault, fresh, approved, secret, grants>>

Finished == (\A c \in Calls : pc[c] \in {"ok", "kept"}) /\ UNCHANGED vars

Step(c) ==
    /\ \/ DryRun(c) \/ Apply(c) \/ SetPanel(c) \/ Fallback(c) \/ Check(c)
       \/ \E e \in Entries : Store(c, e)
       \/ ReadBack(c)
    /\ UNCHANGED job

Next == Finished \/ \E c \in Calls : Step(c) \/ (Kill(c) /\ UNCHANGED job)

Spec == Init /\ [][Next]_vars

\* A call's steps are its own; that a caller without an ok answer starts over
\* is the caller's part.
FairSpec == Spec /\ \A c \in Calls : WF_vars(Step(c))
-------------------------------------------------------------------------------
Works(e) == vault[e] \in valid

\* Types; a password kind has at most one password, a call that writes to the
\* vault holds the secret it generated, which no other call holds.
TypeOK ==
    /\ job \in Jobs
    /\ valid \subseteq Secrets
    /\ vault \in [Entries -> Secrets \cup {NoSecret}]
    /\ fresh \in 1..(2 * MaxGrants + 1)
    /\ pc \in [Calls -> {"idle", "approved", "ok", "kept"} \cup Applying \cup Ended]
    /\ approved \in [Calls -> Actions]
    /\ secret \in [Calls -> Secrets \cup {NoSecret}]
    /\ grants \in 0..MaxGrants
    /\ job.kind # "apikey" => Cardinality(valid) <= 1
    /\ \A c \in Calls : pc[c] \in {"store", "mirror"} => secret[c] \in 1..(fresh - 1)
    /\ \A c, d \in Calls : secret[c] = secret[d] /\ secret[c] # NoSecret => c = d

\* With one applying call at a time, a call that answers "verified" leaves vault
\* entries that open the account at the panel: the primary, and its mirror where
\* the request names one.
Provisioned ==
    [][\A c \in Calls : job.serial /\ pc'[c] = "ok" /\ pc[c] # "ok" =>
        \A e \in Targets : Works(e)']_vars

\* bootstrap_api_key stores a key before it tries it.  A key in the vault that
\* does not open the API is one that was created so, never one that a refusal, a
\* lost answer, a kill or an overlap put there; and it is nobody's success: some
\* call that went ahead was told of a failure, was killed, or is not through.
RuntimeKeyKept ==
    job.kind = "apikey" /\ vault["primary"] # NoSecret /\ ~Works("primary") =>
        /\ budget["duds"] > 0
        /\ \E c \in Calls : pc[c] \notin {"idle", "ok"}

\* Callers that start over after refusals, lost answers, duds and kills end with
\* entries that open the account, whatever half-done call they start from; only
\* a mailbox that the request says to keep can keep entries that do not.
Converges ==
    job.serial /\ job.rotate =>
        \A c \in Calls : <>[](pc[c] = "ok" /\ \A e \in Targets : Works(e))
===============================================================================
