-------------------------- MODULE ReverseProxyApply --------------------------
(***************************************************************************)
(* site/command/reverse-proxy-ensure (ensure_reverse_proxy of core.py with *)
(* reverse_proxy.py): a managed block is merged into a vhost's             *)
(* vhost_nginx.conf over SFTP, and three commands over SSH rebuild, test   *)
(* and reload nginx.  A RuntimeError restores the previous file; any other *)
(* exception leaves the handler.                                           *)
(***************************************************************************)
EXTENDS Naturals

CONSTANTS
    Calls,       \* callers of the handler
    Hosts,       \* virtual hosts of one server
    Upstreams,   \* upstream origins callers ask for
    NoBlock,     \* "no managed block"
    Admits,      \* which calls the runner lets overlap: "one" at a time, one
                 \* per "host", or "any"
    MaxRuns,     \* bound: calls started
    MaxFaults,   \* bound: commands that exit non-zero for a passing reason
    MaxBreaks,   \* bound: SFTP operations or SSH channels that break
    MaxKills,    \* bound: calls killed by the runner's deadline
    MaxEdits     \* bound: edits of other directives in the panel

ASSUME ProxyAssumption ==
    /\ NoBlock \notin Upstreams
    /\ Admits \in {"one", "host", "any"}
    /\ {MaxRuns, MaxFaults, MaxBreaks, MaxKills, MaxEdits} \subseteq Nat

VARIABLES
    conf,    \* the content of each host's vhost_nginx.conf
    live,    \* the content nginx last loaded for each host
    pc,      \* where each call is
    req,     \* the host and the upstream each call was asked for
    old,     \* the content each call read
    rolled,  \* rollback_attempted and rollback_ok of each call
    budget   \* runs, faults, breaks, kills and edits so far

vars == <<conf, live, pc, req, old, rolled, budget>>
files == <<conf, live>>

\* The other directives of a file: none, some, or some with a `location /` of
\* their own, which the managed block's collides with.
Directives == {"none", "headers", "location"}
Content == [block : Upstreams \cup {NoBlock}, rest : Directives]
Missing == [block |-> NoBlock, rest |-> "none"]
Valid(content) == content.block = NoBlock \/ content.rest # "location"

\* merge_managed_directives: the block is replaced or appended.
Merge(content, up) == [content EXCEPT !.block = up]
Merged(c) == Merge(old[c], req[c].up)

Commands == {"httpdmng", "test", "reload"}
Working == {"read", "write", "readback", "restore", "rebuild"} \cup Commands
Ended == {"verified", "failed", "raised", "killed"}

Spend(what, max) == budget[what] < max /\ budget' = [budget EXCEPT ![what] = @ + 1]
Fault == Spend("faults", MaxFaults)
Break == Spend("breaks", MaxBreaks)
Goto(c, place) == pc' = [pc EXCEPT ![c] = place]
Proceeds(c, place) == Goto(c, place) /\ UNCHANGED rolled
Fails(c, outcome) == Goto(c, "failed") /\ rolled' = [rolled EXCEPT ![c] = outcome]

Init ==
    /\ \E rest \in [Hosts -> Directives] :
        conf = [h \in Hosts |-> [block |-> NoBlock, rest |-> rest[h]]]
    /\ live = conf
    /\ pc = [c \in Calls |-> "idle"]
    /\ req \in [Calls -> [host : Hosts, up : Upstreams]]
    /\ old = [c \in Calls |-> Missing]
    /\ rolled = [c \in Calls |-> "none"]
    /\ budget = [what \in {"runs", "faults", "breaks", "kills", "edits"} |-> 0]
-------------------------------------------------------------------------------
Admitted(h) ==
    \A d \in Calls : pc[d] \in Working =>
        Admits = "any" \/ (Admits = "host" /\ req[d].host # h)

\* A call starts; the probe, the gates and the grant let it through.
Begin(c) ==
    /\ pc[c] \in {"idle"} \cup Ended
    /\ Spend("runs", MaxRuns)
    /\ \E h \in Hosts, u \in Upstreams :
        /\ Admitted(h)
        /\ req' = [req EXCEPT ![c] = [host |-> h, up |-> u]]
    /\ Goto(c, "read")
    /\ rolled' = [rolled EXCEPT ![c] = "none"]
    /\ UNCHANGED <<files, old>>

\* Mutant of Read: the file is written even if the merge changes nothing.
ReadAlwaysWrites(c) ==
    /\ pc[c] = "read"
    /\ old' = [old EXCEPT ![c] = conf[req[c].host]]
    /\ Proceeds(c, "write")
    /\ UNCHANGED <<files, req, budget>>

\* The file is read; an IOError counts as a missing file.  If the merge
\* changes nothing the call answers at once, else its grant is consumed.
Read(c) ==
    /\ pc[c] = "read"
    /\ \/ old' = [old EXCEPT ![c] = conf[req[c].host]] /\ UNCHANGED budget
       \/ old' = [old EXCEPT ![c] = Missing] /\ Break
    /\ Proceeds(c, IF Merge(old'[c], req[c].up) = old'[c] THEN "verified" ELSE "write")
    /\ UNCHANGED <<files, req>>

\* The merged content goes to a temporary file, which is renamed over the old
\* one; an error in between leaves the handler, also when the rename was made and
\* its answer is lost.
Write(c) ==
    /\ pc[c] = "write"
    /\ \/ /\ conf' = [conf EXCEPT ![req[c].host] = Merged(c)]
          /\ Proceeds(c, "httpdmng")
          /\ UNCHANGED budget
       \/ /\ Break /\ Proceeds(c, "raised")
          /\ conf' \in {conf, [conf EXCEPT ![req[c].host] = Merged(c)]}
    /\ UNCHANGED <<live, req, old>>

Healthy == \A h \in Hosts : Valid(conf[h])

\* Mutant of After: nginx is reloaded before it is tested.
AfterReloadFirst(command) ==
    [httpdmng |-> "reload", reload |-> "test", test |-> "readback"][command]

After(command) == [httpdmng |-> "test", test |-> "reload", reload |-> "readback"][command]

\* Mutant of Run: the exit code of a command is not looked at.
RunUnchecked(c, command) ==
    /\ pc[c] = command
    /\ Proceeds(c, After(command))
    /\ live' = IF command = "reload" /\ Healthy THEN conf ELSE live
    /\ UNCHANGED <<conf, req, old, budget>>

\* httpdmng, nginx -t and the reload, in this order: the test and the reload
\* see the files of every host, and nginx keeps what it runs when they are not
\* valid.  A non-zero exit starts the rollback; a broken channel does not, and
\* the server may have run the command or not.
Run(c, command) ==
    /\ pc[c] = command
    /\ \/ /\ command # "httpdmng" => Healthy
          /\ live' = IF command = "reload" THEN conf ELSE live
          /\ Proceeds(c, After(command))
          /\ UNCHANGED budget
       \/ /\ IF command # "httpdmng" /\ ~Healthy THEN UNCHANGED budget ELSE Fault
          /\ Proceeds(c, "restore")
          /\ UNCHANGED live
       \/ /\ Break /\ Proceeds(c, "raised")
          /\ live' \in {live, IF command = "reload" /\ Healthy THEN conf ELSE live}
    /\ UNCHANGED <<conf, req, old>>

\* The file is read again: what the call wrote is verified, else rolled back.
ReadBack(c) ==
    /\ pc[c] = "readback"
    /\ \/ /\ Proceeds(c, IF conf[req[c].host] = Merged(c) THEN "verified" ELSE "restore")
          /\ UNCHANGED budget
       \/ Break /\ Proceeds(c, "raised")
    /\ UNCHANGED <<files, req, old>>

\* Mutant of Restore: the rollback takes the managed block out.
RestoreRemovesBlock(c) ==
    LET h == req[c].host
    IN  /\ pc[c] = "restore"
        /\ conf' = [conf EXCEPT ![h].block = NoBlock]
        /\ Proceeds(c, "rebuild")
        /\ UNCHANGED <<live, req, old, budget>>

\* The rollback renames the content that was read over the file, or removes
\* the file.  Whatever breaks in it is caught and reported.
Restore(c) ==
    /\ pc[c] = "restore"
    /\ \/ /\ conf' = [conf EXCEPT ![req[c].host] = old[c]]
          /\ Proceeds(c, "rebuild")
          /\ UNCHANGED budget
       \/ /\ Break /\ Fails(c, "no")
          /\ conf' \in {conf, [conf EXCEPT ![req[c].host] = old[c]]}
    /\ UNCHANGED <<live, req, old>>

\* ... and runs httpdmng; nothing is reloaded.
Rebuild(c) ==
    /\ pc[c] = "rebuild"
    /\ \/ Fails(c, "ok") /\ UNCHANGED budget
       \/ (Fault \/ Break) /\ Fails(c, "no")
    /\ UNCHANGED <<files, req, old>>

\* The runner's deadline: what was done stays.
Kill(c) ==
    /\ pc[c] \in Working
    /\ Spend("kills", MaxKills)
    /\ Goto(c, "killed")
    /\ UNCHANGED <<files, req, old, rolled>>

\* Someone edits the other directives of a host in the panel, which writes the
\* file and reloads nginx.
PanelEdit ==
    /\ Spend("edits", MaxEdits)
    /\ \E h \in Hosts, rest \in Directives :
        /\ Valid([conf[h] EXCEPT !.rest = rest])
        /\ conf' = [conf EXCEPT ![h].rest = rest]
    /\ live' = IF \A h \in Hosts : Valid(conf'[h]) THEN conf' ELSE live
    /\ UNCHANGED <<pc, req, old, rolled>>

Finished ==
    /\ \A c \in Calls : pc[c] \notin Working
    /\ budget["runs"] = MaxRuns
    /\ UNCHANGED vars

Step(c) ==
    \/ Read(c) \/ Write(c) \/ ReadBack(c) \/ Restore(c) \/ Rebuild(c)
    \/ \E command \in Commands : Run(c, command)

Next == PanelEdit \/ Finished \/ \E c \in Calls : Begin(c) \/ Step(c) \/ Kill(c)

Spec == Init /\ [][Next]_vars
-------------------------------------------------------------------------------
\* Types; a rollback is attempted only for a file that the call changed.
TypeOK ==
    /\ conf \in [Hosts -> Content]
    /\ live \in [Hosts -> Content]
    /\ pc \in [Calls -> {"idle"} \cup Working \cup Ended]
    /\ req \in [Calls -> [host : Hosts, up : Upstreams]]
    /\ old \in [Calls -> Content]
    /\ rolled \in [Calls -> {"none", "ok", "no"}]
    /\ \A c \in Calls : pc[c] \in Commands \cup {"readback", "restore"} => Merged(c) # old[c]

\* Commands failed at most: no call was killed or cut off, and nobody edited a
\* host in the panel.
Never(what) == budget'[what] = 0
Undisturbed == Never("kills") /\ Never("breaks") /\ Never("edits")

\* An answer "verified" is given only while nginx serves the wanted upstream on
\* that host: the block was tested and loaded, by this call or before it.
VerifiedIsLive ==
    [][Undisturbed =>
        \A c \in Calls : pc'[c] = "verified" /\ pc[c] # "verified" =>
            live[req[c].host].block = req[c].up]_vars

\* "The connector preserves non-managed directives": no apply and no rollback
\* changes them, whatever commands fail and wherever calls are killed.
UnmanagedPreserved ==
    [][Never("edits") => \A h \in Hosts : conf'[h].rest = conf[h].rest]_vars

\* "Restores the previous file when apply fails": a call that answers with a
\* failure leaves its host's file as the call had read it, unless the answer
\* says that the rollback failed.
FailureRestores ==
    [][Never("edits") =>
        \A c \in Calls : pc'[c] = "failed" /\ pc[c] \in Working /\ rolled'[c] # "no" =>
            conf'[req[c].host] = old'[c]]_vars

\* A call that fails does not change what nginx serves on its host.
FailureNotServed ==
    [][Undisturbed =>
        \A c \in Calls : pc'[c] = "failed" /\ pc[c] # "failed" =>
            live[req[c].host].block = old[c].block]_vars
===============================================================================
