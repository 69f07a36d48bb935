------------------------------ MODULE SslLadder -------------------------------
(***************************************************************************)
(* site/command/ssl-ensure: ensure_ssl and its stages (core.py), with the  *)
(* panel, DNS and probe helpers of ssl_ops.py and dns_providers.py.        *)
(*                                                                         *)
(* The host has a repository of named certificates, one of which is        *)
(* assigned to the site.  A call probes what is served, and unless that    *)
(* covers the host name climbs a ladder: assign an existing certificate,   *)
(* upload one, have one issued.  Requests can be refused, lose their       *)
(* answer, or end in an exception that no stage catches; calls are killed  *)
(* at the runner's deadline and can overlap.                               *)
(***************************************************************************)
EXTENDS Integers, Sequences

CONSTANTS
    SslCalls,      \* callers of the handler
    NoCert,        \* "no certificate name given", "no certificate assigned"
    Repositories,  \* what the repository may hold at first
    Deployments    \* the deployments considered: which calls there are (one at
                   \* least) and the modes they ask for, whether the runner admits
                   \* one call at a time, whether a certificate authority issues for
                   \* the host, and bounds on faulty requests, failing probes and kills

\* The names that the ladder tries or makes, and one that an operator chose.
CertNames == {"given", "le", "san", "ss", "own"}
Coverage == {"absent", "covers", "other"}
Modes == {"auto", "assign", "panel-pem", "panel-selfsigned", "letsencrypt", "rest-cli"}

ASSUME LadderAssumption ==
    /\ NoCert \notin CertNames
    /\ Repositories \subseteq [CertNames -> Coverage]
    /\ Deployments \subseteq [calls : SUBSET SslCalls, modes : SUBSET Modes, serialized : BOOLEAN,
                           issues : BOOLEAN, faults : Nat, blips : Nat, kills : Nat]
    /\ \A s \in Deployments : s.calls # {}

VARIABLES
    deployment, \* the deployment, fixed
    dns,        \* where the public name points
    cert,       \* cert[n]: the certificate called n in the repository
    assigned,   \* the name of the certificate that the site serves
    rung,       \* where each call is
    asked,      \* what each call was asked for
    tries,      \* the names that the first stage has yet to try
    mishaps     \* faulty requests, failing probes and kills so far

ladderVars == <<deployment, dns, cert, assigned, rung, asked, tries, mishaps>>
host == <<cert, assigned>>

Request == [mode : Modes, name : {"given", NoCert}, expected : BOOLEAN, apply : BOOLEAN]
Rest == {"idle", "ok", "told", "failed", "raised", "killed"}
Climbing == {"dns", "probe", "site", "assign", "reprobe", "pem", "pemassign", "self",
            "selfassign", "le", "rest"}

Covered == assigned # NoCert /\ cert[assigned] = "covers"

Meets(what) == mishaps[what] < deployment[what] /\ mishaps' = [mishaps EXCEPT ![what] = @ + 1]
Mishap == Meets("faults")
ClimbTo(c, place) == rung' = [rung EXCEPT ![c] = place]

\* _SSL_STAGES: the stages in the order of the ladder, and who runs them.
Ladder == <<"assign", "pem", "self", "le", "rest">>
Runs(mode, stage) ==
    CASE stage = "assign" -> mode \in {"auto", "assign"}
      [] stage = "pem"    -> mode \in {"auto", "panel-pem"}
      [] stage = "self"   -> mode = "panel-selfsigned"
      [] stage = "le"     -> mode \in {"auto", "letsencrypt"}
      [] stage = "rest"   -> mode \in {"auto", "letsencrypt", "rest-cli"}

\* The stage that call c runs after the first k of the ladder; after the last
\* one _ssl_exhausted reports the failure.
StageAfter(c, k) ==
    LET left == {j \in 1..5 : j > k /\ Runs(asked[c].mode, Ladder[j])}
    IN  IF left = {} THEN "failed" ELSE Ladder[CHOOSE j \in left : \A i \in left : j <= i]

LadderInit ==
    /\ deployment \in Deployments
    /\ dns \in {"here", "elsewhere", "missing"}
    /\ cert \in Repositories
    /\ assigned \in {n \in CertNames : cert[n] # "absent"} \cup {NoCert}
    /\ rung = [c \in SslCalls |-> "idle"]
    /\ asked = [c \in SslCalls |-> [mode |-> "auto", name |-> NoCert, expected |-> FALSE,
                               apply |-> FALSE]]
    /\ tries = [c \in SslCalls |-> <<>>]
    /\ mishaps = [what \in {"faults", "blips", "kills"} |-> 0]
-------------------------------------------------------------------------------
\* A caller asks, or asks again after a failure.
Ask(c) ==
    /\ rung[c] \in Rest \ {"ok"}
    /\ deployment.serialized => \A d \in SslCalls : rung[d] \in Rest
    /\ \E j \in Request :
          /\ j.mode \in deployment.modes
          /\ rung[c] # "idle" => j = [asked[c] EXCEPT !.apply = TRUE]
          /\ asked' = [asked EXCEPT ![c] = j]
    /\ ClimbTo(c, "dns")
    /\ UNCHANGED <<dns, host, tries, mishaps>>

\* tls_dns_preflight: some resolver shows an address, and the expected one if
\* the caller gave it.  Without that nothing is changed.
Preflight(c) ==
    LET ready == dns = "here" \/ (dns = "elsewhere" /\ ~asked[c].expected)
    IN  /\ rung[c] = "dns"
        /\ \/ ready /\ ClimbTo(c, "probe") /\ UNCHANGED mishaps
           \/ (IF ready THEN Mishap ELSE UNCHANGED mishaps) /\ ClimbTo(c, "failed")
        /\ UNCHANGED <<dns, host, asked, tries>>

\* origin_tls_probe: it can fail for other reasons than the certificate.
Probes(result) ==
    \/ result = Covered /\ UNCHANGED mishaps
    \/ Covered /\ result = FALSE /\ Meets("blips")

\* The probe and _ssl_gate: in mode auto a covered host ends the call, and a
\* call that may not write only tells what it saw.
Probe(c) ==
    /\ rung[c] = "probe"
    /\ \E ok \in BOOLEAN :
          /\ Probes(ok)
          /\ ClimbTo(c, IF ~asked[c].apply THEN "told"
                     ELSE IF ok /\ asked[c].mode = "auto" THEN "ok" ELSE "site")
    /\ UNCHANGED <<dns, host, asked, tries>>

\* ssl_apply_permitted or a lease is refused.
Denied(c) ==
    /\ rung[c] \in {"probe", "site"} /\ asked[c].apply
    /\ Mishap
    /\ ClimbTo(c, "failed")
    /\ UNCHANGED <<dns, host, asked, tries>>

\* resolve_site_id; then the first stage, for which the names are listed.
Site(c) ==
    /\ rung[c] = "site"
    /\ ClimbTo(c, StageAfter(c, 0))
    /\ tries' = [tries EXCEPT ![c] = (IF asked[c].name = NoCert THEN <<>> ELSE <<"given">>)
                                         \o <<"le", "san", "ss">>]
    /\ UNCHANGED <<dns, host, asked, mishaps>>

\* assign_certificate: the panel assigns a certificate that it has.  It may
\* refuse, or its answer may be lost, which is a RuntimeError.
Assigned(n) == cert[n] # "absent" /\ assigned' = n /\ UNCHANGED <<cert, mishaps>>
Refused(n) == (IF cert[n] = "absent" THEN UNCHANGED mishaps ELSE Mishap) /\ UNCHANGED host
Lost(n) ==
    /\ Mishap
    /\ UNCHANGED cert
    /\ assigned' \in {assigned} \cup (IF cert[n] = "absent" THEN {} ELSE {n})

\* _ssl_stage_assign: the next name of the list.
Assign(c) ==
    LET n == Head(tries[c])
    IN  /\ rung[c] = "assign" /\ tries[c] # <<>>
        /\ \/ Assigned(n) /\ ClimbTo(c, "reprobe") /\ UNCHANGED tries
           \/ Refused(n) /\ tries' = [tries EXCEPT ![c] = Tail(@)] /\ UNCHANGED rung
           \/ Lost(n) /\ ClimbTo(c, "failed") /\ UNCHANGED tries
        /\ UNCHANGED <<dns, asked>>

\* Mutant of Reprobe: an assignment counts as success without a probe.
ReprobeNothing(c) ==
    /\ rung[c] = "reprobe"
    /\ ClimbTo(c, "ok")
    /\ UNCHANGED <<dns, host, asked, tries, mishaps>>

\* Mutant of Reprobe: after a success the remaining names are tried too.
ReprobeGoesOn(c) ==
    /\ rung[c] = "reprobe"
    /\ tries' = [tries EXCEPT ![c] = Tail(@)]
    /\ ClimbTo(c, IF Covered /\ Len(tries[c]) = 1 THEN "ok" ELSE "assign")
    /\ UNCHANGED <<dns, host, asked, mishaps>>

\* What was assigned is probed; mode assign answers ok whatever is served.
Reprobe(c) ==
    /\ rung[c] = "reprobe"
    /\ \E ok \in BOOLEAN :
          /\ Probes(ok)
          /\ IF ok \/ asked[c].mode = "assign"
             THEN ClimbTo(c, "ok") /\ UNCHANGED tries
             ELSE ClimbTo(c, "assign") /\ tries' = [tries EXCEPT ![c] = Tail(@)]
    /\ UNCHANGED <<dns, host, asked>>

\* No name is left.
AssignedNone(c) ==
    /\ rung[c] = "assign" /\ tries[c] = <<>>
    /\ ClimbTo(c, IF asked[c].mode = "assign" THEN "failed" ELSE StageAfter(c, 1))
    /\ UNCHANGED <<dns, host, asked, tries, mishaps>>

\* The name under which a certificate is made.
MadeName(c, default) == IF asked[c].name = NoCert THEN default ELSE "given"

\* panel_login, then panel_upload_pem or panel_create_self_signed: the panel
\* makes a certificate for the host under a name that is not taken.  A login or
\* token that fails is a RuntimeError, a request without an answer an exception
\* that nothing catches.
Make(c, here, n, next, after) ==
    /\ rung[c] = here
    /\ \/ /\ cert[n] = "absent"
          /\ cert' = [cert EXCEPT ![n] = "covers"]
          /\ ClimbTo(c, next) /\ UNCHANGED mishaps
       \/ /\ IF cert[n] # "absent" THEN UNCHANGED mishaps ELSE Mishap
          /\ UNCHANGED cert
          /\ ClimbTo(c, after)
       \/ /\ Mishap
          /\ cert' \in {cert, [cert EXCEPT ![n] = IF @ = "absent" THEN "covers" ELSE @]}
          /\ ClimbTo(c, "raised")
    /\ UNCHANGED <<dns, assigned, asked, tries>>

\* Mutant of AssignMade: a refused assignment is not noticed.
AssignMadeBlindly(c, here, n, after) ==
    /\ rung[c] = here
    /\ Assigned(n) \/ Refused(n)
    /\ ClimbTo(c, "ok")
    /\ UNCHANGED <<dns, asked, tries>>

\* What was made is assigned; an ok is answered whatever the probe shows then.
AssignMade(c, here, n, after) ==
    /\ rung[c] = here
    /\ \/ Assigned(n) /\ ClimbTo(c, "ok")
       \/ (Refused(n) \/ Lost(n)) /\ ClimbTo(c, after)
    /\ UNCHANGED <<dns, asked, tries>>

\* _ssl_stage_panel_pem.
PanelPem(c) ==
    LET n == MadeName(c, "san")
        after == IF asked[c].mode = "panel-pem" THEN "failed" ELSE StageAfter(c, 2)
    IN  Make(c, "pem", n, "pemassign", after) \/ AssignMade(c, "pemassign", n, after)

\* _ssl_stage_panel_selfsigned.
PanelSelfSigned(c) ==
    LET n == MadeName(c, "ss")
    IN  Make(c, "self", n, "selfassign", "failed") \/ AssignMade(c, "selfassign", n, "failed")

\* Mutant of Issued: the name is assigned before the certificate is there.
IssuedUnmade == assigned' = "le" /\ UNCHANGED cert

\* An authority issues a certificate, which the panel assigns.
Issued == assigned' = "le" /\ cert' = [cert EXCEPT !["le"] = "covers"]

\* _ssl_stage_letsencrypt: installation by the panel's extension.  An HTTP error
\* counts as a refusal, also when the certificate was installed; a request
\* without an answer is an exception that nothing catches.
LetsEncrypt(c) ==
    /\ rung[c] = "le"
    /\ \/ deployment.issues /\ Issued /\ ClimbTo(c, "ok") /\ UNCHANGED mishaps
       \/ ~deployment.issues /\ UNCHANGED <<host, mishaps>> /\ ClimbTo(c, StageAfter(c, 4))
       \/ /\ Mishap
          /\ UNCHANGED host \/ (deployment.issues /\ Issued)
          /\ ClimbTo(c, StageAfter(c, 4)) \/ ClimbTo(c, "raised")
    /\ UNCHANGED <<dns, asked, tries>>

\* _ssl_stage_rest_cli: the same by the command line of the panel, where a lost
\* answer is a RuntimeError, but a code that is no number leaves the handler; it
\* is the last stage.
RestCli(c) ==
    /\ rung[c] = "rest"
    /\ \/ deployment.issues /\ Issued /\ ClimbTo(c, "ok") /\ UNCHANGED mishaps
       \/ ~deployment.issues /\ UNCHANGED <<host, mishaps>> /\ ClimbTo(c, "failed")
       \/ /\ Mishap
          /\ UNCHANGED host \/ (deployment.issues /\ Issued)
          /\ ClimbTo(c, "failed") \/ ClimbTo(c, "raised")
    /\ UNCHANGED <<dns, asked, tries>>

\* The runner's deadline.
LadderKill(c) ==
    /\ rung[c] \in Climbing
    /\ Meets("kills")
    /\ ClimbTo(c, "killed")
    /\ UNCHANGED <<dns, host, asked, tries>>

\* The public name comes to point to this host (DnsReplace).
CutOver ==
    /\ dns # "here" /\ dns' = "here"
    /\ UNCHANGED <<host, rung, asked, tries, mishaps>>

LadderFinished == (\A c \in deployment.calls : rung[c] = "ok") /\ UNCHANGED ladderVars

LadderStep(c) ==
    /\ c \in deployment.calls
    /\ \/ Ask(c) \/ Preflight(c) \/ Probe(c) \/ Denied(c) \/ Site(c)
       \/ Assign(c) \/ Reprobe(c) \/ AssignedNone(c)
       \/ PanelPem(c) \/ PanelSelfSigned(c) \/ LetsEncrypt(c) \/ RestCli(c)
    /\ UNCHANGED deployment

LadderNext ==
    /\ \/ CutOver \/ LadderFinished
       \/ \E c \in SslCalls : LadderStep(c) \/ LadderKill(c)
    /\ UNCHANGED deployment

LadderSpec == LadderInit /\ [][LadderNext]_ladderVars

\* The steps of a call are the handler's own; that a caller without an ok asks
\* again is the caller's part.
FairLadderSpec == LadderSpec /\ \A c \in SslCalls : WF_ladderVars(LadderStep(c))
-------------------------------------------------------------------------------
\* Types; the certificate that the site serves is in the repository.
LadderTypeOK ==
    /\ deployment \in Deployments
    /\ dns \in {"here", "elsewhere", "missing"}
    /\ cert \in [CertNames -> Coverage]
    /\ assigned \in CertNames \cup {NoCert}
    /\ rung \in [SslCalls -> Rest \cup Climbing]
    /\ asked \in [SslCalls -> Request]
    /\ tries \in [SslCalls -> Seq(CertNames)]
    /\ mishaps \in [{"faults", "blips", "kills"} -> Nat]
    /\ assigned # NoCert => cert[assigned] # "absent"

\* "Ensure TLS cert covers hostname": also when calls overlap, once every call
\* has answered ok the served certificate covers the host, although only one
\* stage probes what it did, and each call undoes what another assigned.  Mode
\* assign promises less: it answers ok with a warning.
EnsuredCovers ==
    (\A c \in deployment.calls : rung[c] = "ok" /\ asked[c].mode # "assign") => Covered

\* One call at a time and with probes that tell the truth, no call ever takes
\* away a certificate that covers the host, whichever requests are refused or
\* lost and wherever it is killed; mode assign aside, which does not look.
CoveringKept ==
    [][deployment.serialized /\ deployment.blips = 0 /\ "assign" \notin deployment.modes =>
        (Covered => Covered')]_ladderVars

\* A certificate can still be had: issued, uploaded, or already there.
Obtainable(c) ==
    /\ dns = "here" /\ asked[c].mode = "auto"
    /\ deployment.issues \/ Covered \/ \A n \in CertNames : cert[n] # "other"

\* A caller of mode auto that asks again after failures, exceptions and kills
\* ends with an ok and a host that is covered.
LadderConverges ==
    deployment.serialized => \A c \in SslCalls :
        c \in deployment.calls => <>[](Obtainable(c) => rung[c] = "ok" /\ Covered)
===============================================================================
