# A verification project for urirun-connector-plesk

The connector turns URIs of a `urirun` runner into changes on a Plesk server: it
uploads site trees, activates releases, edits DNS zones and vhost files, rotates
credentials.  Each handler is a short sequential program.  What is hard about it is
outside its own text: every handler runs in an isolated process that the runner
kills at a deadline, each step is a request that can be refused or get no answer,
nothing but a thread lock orders two calls, and people and other calls change the
same server in between.  This directory models those programs with their steps
apart, checks them with TLC, and proves what matters most with TLAPS.

All paths below are under `src/urirun_connector_plesk/`.

## Inventory

| Component | State it keeps | Operations | Hard behaviour | What makes it correct |
|---|---|---|---|---|
| Apply grants (`apply_grant.py`, `apply_grant_replay.py`) | consumed grant ids in a JSON file or in process memory | issue, verify, verify-and-consume, purge | two processes on one file, purge at the retention boundary, killed processes | a grant is worth one apply until it expires; the store never forgets early |
| Mutate lease and gates (`apply_grant.py`, `core.py`) | the lease file and its temporary file, environment switches | session-mutate-lease issue / clear, gate predicates | a lease that expires or is replaced between two gates, an issuer that dies half way, two issuers on one temporary name | a revoked or outlived lease opens nothing; the file is the lease last granted |
| Release store (`release_ops.py`, release handlers of `core.py`) | `releases/<id>`, links and pointer files `current` / `previous`, the marker file | release-upload, -activate, -rollback, -current | activation is many requests: kills, link errors with fallback, overlapping activations | ok means activated; the release that was live can be found again |
| Site sync (`core.py`, `immutable_manifest.py`, `errors.py`) | the remote tree, `current` as redirect | site sync, publish, transfer of release-upload | the tree is walked twice, torn files, an activation during the transfer | what is published is what was approved; failures say what they left |
| DNS (`core.py`, `dns_providers.py`) | the zone at Plesk or Cloudflare | dns replace, dns reconcile | delete and add are two requests, rollback, lost answers, edits in the panel | exactly the wanted record; rollback restores; nothing unapproved is deleted |
| Reverse proxy (`core.py`, `reverse_proxy.py`) | vhost file, running nginx | reverse-proxy-ensure | a command fails after the file was replaced, reload of all hosts | failures restore the file and do not reach nginx; verified means served |
| Credentials (`core.py`) | panel password or key, vault entries | mailbox ensure, ftpuser ensure, bootstrap-api-key | two services and no transaction, lost answers, overlap | vault and panel agree when the answer says so |
| Certificates (`core.py`, `ssl_ops.py`) | the certificates of the panel and which one a site serves | ssl ensure: probe, gate, a ladder of stages | stages assign by name and probe afterwards, requests end in exceptions that no stage catches, overlap | ok means covered; no call takes a covering certificate away; asking again gets there |
| Domains, subdomains (`core.py`) | sites and subscriptions of the server | domain ensure, subdomain ensure | looking, the capacity check and the add are separate requests, lost answers, other callers | added only where there is room; repeating gets there |
| Twin volume (`core.py`, `release_ops.py`) | a local volume of releases, its links and markers; the registered profile | site-twin-sync, -current | a release is rewritten under the name that is current, source edited meanwhile, kills between any two file operations | what a link names always has every file of its own plan; verified means whole |
| Verification ladder (`verify_ladder.py`, verifying handlers of `core.py`) | none | release-verify, publish-verify | rungs look at different moments while uploads and activations go on | a verified answer is about a release that was served |
| Transport budgets (`timeouts.py`) | the start of a transfer | looks at the deadlines between files | the runner's deadline starts earlier and does not wait for a file | a call ends by its own error before it is killed |
| Extensions (`extensions.py`), generic REST call (`core.py`) | none | extension-call, api-request | one request without read-back | gates only |
| Queries, capabilities, results | none | | | |

Interaction: every mutating handler passes the gates, verifies and consumes a grant
(GrantReplay), then does its work.  Site sync writes through the `current` that an
activation moves.  release-upload is a site sync into `releases/<id>` followed by a
marker; the verifying calls trust that marker.  The twin volume uses the activation
of the release store over local files.  dns-reconcile calls dns-replace for zones at
Plesk; ssl ensure and the verifying calls wait for the name that DNS points here.
The credentials that ensure_ftp_user stores are those that site sync leases.  Calls
interact through the server, the vault and the jti file, never in memory.

## Modules

| Module | What it is | Runs |
|---|---|---|
| `OneShotGrants` | abstract: a set of spent grants that only forgets after retention | as the property KeepsPromise |
| `GrantReplay` | grants and the replay store, with threads, processes, a clock | `GrantReplay_store`, `GrantReplay_race` |
| `GrantReplayProofs` | theorems about it | |
| `ReleaseStore` | upload, activation, rollback step by step | by way of `ReleaseVerify` |
| `ReleaseVerify` | ReleaseStore composed with the verifying calls | `ReleaseStore_all` |
| `ReleaseProofs` | theorems about the store and the composition | |
| `DnsReplace` | replace and reconcile at both providers | `DnsReplace_all` |
| `DnsReplaceProofs` | theorems about it | |
| `ReverseProxyApply` | the apply path of reverse-proxy-ensure | `ReverseProxy_serial`, `ReverseProxy_read_error` |
| `HostProofs` | theorems about it, DomainEnsure and SslLadder: how a host is set up | |
| `SiteSync` | plan, hash gate and file-by-file transfer, with its budgets | `SiteSync_all` |
| `SiteSyncProofs` | theorems about it | |
| `CredentialRotation` | the three credential handlers against panel and vault | `CredentialRotation_all` |
| `CredentialRotationProofs` | theorems about it | |
| `MutateLease` | issuers, revocation and a guarded handler on the lease file | `MutateLease_all` |
| `MutateLeaseProofs` | theorems about it | |
| `DomainEnsure` | domain and subdomain ensure against the panel | `DomainEnsure_all` |
| `TwinSync` | twin-sync and twin-current over the local volume | `TwinSync_all` |
| `TwinSyncProofs` | theorems about it | |
| `SslLadder` | ssl ensure: probe, gate and every stage | `SslLadder_all` |
| `MC...` | give the constants of one module their values for TLC | |

### How state and actions correspond to the code

A call is a position `pc[c]` (`at[c]`, `rung[c]`) in its handler and the local
variables a later step still needs.  One action is one request or one file operation
together with everything the handler does before the next one; where a request can
fail, the action has a disjunct per outcome and goes where the code's `except` or early
return goes.  A lost answer is a disjunct of its own: the request was applied or not,
and the handler sees an error.  `Kill` removes a call at any step and leaves the server
as it is.  A caller whose call failed starts over with a dry run.

* **GrantReplay.**  `entries[s]` is store `s`, `lock` the `threading.Lock` of each
  process, `snap` what `consume` loaded.  `ReadClock`, `Load`, `Save` are the three
  moments of `consume`: `now` is read before the lock, the file is loaded under it,
  and replaced by `os.replace`.  `Host` says which process a call runs in, so the
  same module covers threads and isolated processes.  Claims other than time and
  identifier are abstracted to a refusal that may always happen.  `uses` and
  `early` are history variables, for the promise and for SingleUse.
* **ReleaseStore.**  `link` and `ptr` are the two representations of a slot, and
  `Reads` is `read_current_state`: the link wins.  `readlink` and `read_bytes` turn
  an error into `None`: in `Lookup` and `Resolve` any set of the four names may be
  `lost`, at the price of a fault, and `Sees` is what the call then reads.  `old` and
  `prev` of a request are that reading, `live` is a history field: the release that
  was live at that moment.  `Unlink` / `Link` are the remove
  and the create inside `SftpReleaseFs.symlink`, `Drop` the removal of pointer
  files, `Open` / `Fill` a truncating open and the write after it.  `LinkFails` is
  the fallback of `auto`.  A host that refuses symlinks is one where every link
  attempt is a fault.
* **DnsReplace.**  A record is an identifier and a value (type, address, and for
  Cloudflare ttl and proxied).  `Plan` is `_dns_plan` and `cloudflare_plan`.
  Cloudflare's batch is atomic, as `apply_cloudflare_plan` relies on it to be.
  An add request at Plesk names the host relative to its zone, and
  `_dns_plesk_add_host` guesses that zone from the records it read: the shortest name
  that ends the host, or else its last two labels.  `LandsAtHost` is what comes of it,
  for a host of a zone of two labels (`plain`), and for one below or at the apex of a
  deeper zone.  A refused query has no result of its own and is parsed as a zone without
  records (`Misread`); a call that goes on from there is at the place `blind`.
  `PanelEdit` adds, removes, or edits a record in place, which keeps its identifier;
  `shown` is what the dry run showed, and the history variable `edited` has the
  identifiers edited since.  Plans are compared as their hashes are: by identifiers
  and by what is wanted.
* **ReleaseVerify.**  The rungs of `verify_ladder.py` are the places of a verifying
  call, `Wants` says which a request asks for, `RungAfter` takes the next.  `Origin`
  and `Public` compare the fetched marker with the expected release; `ReadMeta` is
  the marker read from the tree.  No rung reads a file of the tree.  `seen` is a
  history variable: the releases that were served, with their marker, while the call
  was there.  `StoreStep` is the whole of ReleaseStore, so the store's own properties
  are checked in the composition.
* **ReverseProxyApply.**  `conf` is the file, `live` what nginx loaded.  nginx tests
  and loads all hosts at once.
  Only `RuntimeError` reaches the rollback; a broken channel is another exception
  and leaves the handler (`raised`), with the request applied or not.
* **SiteSync.**  `approved` is the plan that the dry run showed, `source` what the
  second walk reads, one directory after the other (`Enter`).  A put empties the
  remote file (`Torn`) and then fills it.
  `Activation` is ReleaseStore seen from here: `current` goes away and comes back
  elsewhere; `Made` is the plain directory that a transfer makes if it meets the gap.
  `Connect` looks `current` up, and with a fault takes the parent although it is there:
  `_sftp_current_exists` and `_ftp_current_exists` answer False to any error.  The FTP transfer has the same control without the hash check.  In the
  timed deployment each process has a clock: `TransferBegins` starts the total budget,
  `Connect` the operation budget, `Late` is the look at both before each file, `Tick`
  lets time pass at any step, and the runner kills at its own deadline, which counts
  from the start of the process.
* **MutateLease.**  `name` maps the lease path and its temporary path to files,
  `content` files to leases, and `fd` is the file an issuer has open: `os.replace`
  moves a name, an issuer that still has the file open writes into it wherever it is
  called by then.  `Issue`, `Open`, `Write`, `Replace` are `issue_mutate_lease_file`
  step by step, `Clear` the revocation, `First` and `Second` the two moments at which
  a guarded handler reads the gates.  `closed` and `late` are history variables: no
  lease may be in force any more, and the handlers that were called after that
  without their switches.
* **DomainEnsure.**  The panel's names and who holds them, the limit of the
  subscription and its permission.  `Look`, `AskLimits`, `Count`, `Add`, `Verify` are
  the requests of the two handlers; both share the program text, and differ in what
  they look for, in the capacity check, and in what a refused add leads to.
  `misread` is a history variable: the callers that took a rejected request for an
  answer, an error answer to the list of sites for an empty list, or a refusal that
  speaks of something that exists for a subdomain that is there.
* **TwinSync.**  A release is named by the hash of its plan, so a release is the tree
  it was planned as and `store[r]` is what the volume really holds under that name.
  `Copy`, `Fill`, `ReadBack` are the three moments of a file, `OpenMarker` and
  `FillMarker` those of the marker, `Resolve`, `Unlink`, `Link` are
  `activate_release` with LocalReleaseFs.  `Query` to `QueryVerdict` are the reads of
  twin-current in their order.  Of the registered profile there is the entrypoint,
  which is what the handlers use of it, and its identity.
* **SslLadder.**  `cert` is the panel's repository by name, `assigned` the name the
  site serves.  `Ladder` and `Runs` are `_SSL_STAGES`; `Make` and `AssignMade` are
  shared by the two stages that upload or create a certificate before they assign
  it.  What a certificate covers is abstracted to whether it covers the host.  An
  exception that no stage catches leaves the handler (`raised`), also from `RestCli`,
  where a code that is no number makes `int()` fail.
* **CredentialRotation.**  A secret is the number of its generation.  `job` is the
  kind of request, fixed for a behaviour.  `SetPanel` and `Fallback` are the first
  and the second way to set a credential, `Store` the vault writes, `ReadBack` the
  handler's own last check, which is weaker than the property Provisioned: a mailbox
  is only probed for existence.  `valid` are the secrets that open the account from
  here.  A created API key need not be one of them (`Dud`): it is bound to the address
  and the login that were asked for, and over SSH it is the first line of output
  that is long enough.  It is stored like any other and tried afterwards.

Where one module is used in several deployments (who calls, whether the runner admits
one call at a time, which bounds), the deployment is a rigid variable `setting` that
`Init` chooses from the constant `Settings` and no action changes (`deployment` and
`Deployments` in SslLadder).  One run then covers them all, and a property that needs a
condition names it.

Handler lines that refuse before any step (validation, probes, scope and credential
preflight) are abstracted to the start of the call; they change nothing.

## Runs

Passing runs and what they show; the numbers are distinct states.

| Run | Instance | Shows | States |
|---|---|---|---|
| `GrantReplay_store` | two threads in one process and a call in a second, two grants, clock to 4, one kill | TypeOK, SingleUse, KeepsPromise | 364k |
| `ReleaseStore_all` | two releases; one call at a time with two faults and a kill for each way of choosing the strategy; two overlapping calls with `auto`; a verifying call that takes turns with a store call, or overlaps it, with sixteen different requests | VerifyTypeOK, EffectiveActivation, OldStillNamed, NotLeftUnpublished, VerifiedIsServed | 1.6M |
| `DnsReplace_all` | one caller with refusals, lost answers and a kill, for each of the three kinds of host; two callers who want different values with a panel edit and a refusal or a kill; both providers | TypeOK, RollbackRestores, OnlyApprovedRemoved, Converges | 946k |
| `ReverseProxy_serial` | calls over two hosts, two failing commands, a break, a kill, an edit | TypeOK, FailureRestores, VerifiedIsLive, FailureNotServed | 624k |
| `SiteSync_all` | two files in one or two directories, two faults, a kill; edits of the source only between transfers, or at any time with an activation that switches between two releases and the hash check; and a transfer under a clock with budgets of 2 (walk) and 3 (total) against a deadline of 5 | TypeOK, PartialReported, EndsByItself, CountedAsApproved, Converges | 1.6M |
| `CredentialRotation_all` | two callers, every kind of request, serialised or not, a fault, a lost answer, a kill, a key that does not open the API | TypeOK, RuntimeKeyKept, Provisioned, Converges | 896k |
| `MutateLease_all` | two issuers, overlapping or not, a guarded handler with every choice of its switches, a clock to 4, a failing operation, a kill | TypeOK, StaysClosed, LeaseIsLastGranted | 3.0M |
| `DomainEnsure_all` | a caller that starts over after refusals, lost answers and a kill; two rivals; two callers and a person at the panel; limited, unlimited and unknown subscriptions | EnsureTypeOK, AddedWithRoom, EnsureConverges | 759k |
| `TwinSync_all` | two files, three trees; a lone caller that comes back, observed by twin-current while source and profile change; a lone caller with a fault and two kills; two that overlap with a kill | TypeOK, LiveIsPlanned, VerifiedIsWhole, FreshMatches, Converges | 665k |
| `SslLadder_all` | a lone caller in each mode with refused and lost requests and a kill, with and without an authority that issues; one whose probes fail for other reasons; two that overlap | LadderTypeOK, EnsuredCovers, CoveringKept, LadderConverges | 496k |

Why the bounds suffice: the code compares contents and identifiers for equality
only, so two values tell everything apart.  Three records give a zone with
duplicates of the wanted record next to another one.  Two calls give every pairwise
order; no handler counts calls.  Faults, lost answers and kills are bounded so that
a behaviour ends, and one of each is enough to separate every pair of neighbouring
steps; a second fault is allowed where a rollback or a fallback can fail in its turn.
The identifiers of a DNS setting (`ids`), `MaxGrants` (7, for as many failures of two
callers) and `MaxClock` are chosen so that the other bounds are met first; only at the
apex of a deep zone, where nothing converges, a lone caller uses its identifiers up.

Deadlock is checked in every run.  Where all calls can be done, the action
`Finished` stutters.

### Disagreements with the repository's own words

Two are runs that end in a counterexample:

* `GrantReplay_race` violates SingleUse: `FileJtiReplayStore.consume` loads, checks
  and saves under a thread lock, so two processes on one file consume one grant,
  while README.md describes the jti as refused on replay.
* `ReverseProxy_read_error` violates UnmanagedPreserved: any `IOError` on the read is
  taken for a missing file, and the managed block alone replaces it.

The others show in the models as conditions that properties need, and are noted here:

* DNS (`core.py:2193`): when the restore request gets no answer, the outer `except`
  answers `mutation_attempted=False` and no rollback outcome, although records were
  deleted.
* DNS (`core.py:1976-2004`): the relative name of an add is guessed.  At the apex of a
  zone of three labels or more no record read ends the host, the last two labels are
  taken for the zone, and the record lands under another name.  So the wanted record is
  never there however often the call is repeated, and after a rejected add the deleted
  records are restored elsewhere: `rollback_ok` is True with the records gone.
* DNS (`core.py:2116`): the plan hash binds identifiers.  A record that was edited in
  place after the dry run is deleted under an approval that showed another content.
* Activation (`release_ops.py:259-264`, `:287-291`): an error of a read counts as an
  absent link or pointer file.  An activation whose reading meets one answers ok, and
  does not demote the live release ("demote prior current -> previous"), which then has
  no name.
* Redirected transfers (`core.py:3890-3893`): an error of the look for `current` counts
  as its absence.  The tree is written beside a live `current`, against
  `core.py:3869`, and the answer is ok.
* API keys (`core.py:1153-1160`): the key is stored before it is tried, so a bootstrap
  that ends in `plesk_api_key_verification_failed` has replaced a key that worked.
* Subdomains (`core.py:3543`): a refused add whose text says "already" or "exists" is
  answered ok with `existed=True`.  The comment above it makes that depend on a get
  that works; no get is made after the refusal, and the one before had found nothing.
* twin-current (README.md:250): a fresh fact "only when the current release still
  matches the registered source" holds of the entrypoint.  Of the other files the plan
  hash in the marker is compared, so after a rewrite that was killed in a file the
  release is torn and the fact fresh.
* Verification (`verify_ladder.py:439`, `:534`): without an origin address the origin
  rung is skipped with ok, and `origin_verified` and `content_verified` are True
  although nothing was fetched.
* release-verify reads the marker and no file of the tree, so a repeated upload that
  was cut short under an old marker verifies.
* Redirected transfers (`core.py:3869`, "write into its live ``current``"): whether
  `current` exists is looked up once.  If an activation takes the link away before the
  first directory is made, the transfer makes a plain directory named `current`, and
  later activations can neither remove nor replace it (`Made` in SiteSync).
* release-upload (`core.py:5218`) uses the transfer budgets and does not declare the
  outer deadline that goes with them, so a runner with its default kills it first.

### Conditions on properties

Several properties hold only under conditions that the properties or the constants
state; without them they are false of the code, and the list of hazards in
`PROJECT.json` says where.

* One call at a time: SingleUse across processes, EffectiveActivation, OldStillNamed,
  Provisioned and the credential handlers' Converges, VerifiedIsWhole and Converges of
  TwinSync, CoveringKept and LadderConverges of SslLadder, and LeaseIsLastGranted (issuers
  share `<path>.tmp`, and one can empty or fill the file that the other has put in
  force).  StaysClosed speaks of moments at which no lease is being issued.
* One call at a time, or neither faults nor kills: NotLeftUnpublished (two overlapping
  activations of which one is killed can leave no release current).
* A lone caller and no panel edit: RollbackRestores and Converges of DnsReplace (two
  Cloudflare callers that each keep one of two records can delete both), and
  AddedWithRoom of DomainEnsure (two callers can take the last place together, and an
  error answer to the list of sites counts as no sites).
* The links strategy only: OldStillNamed (pointer files are written in the other
  order).
* A reading that did not miss the live release: OldStillNamed, and what
  EffectiveActivation says of `previous` (`Replaces`).
* Not the apex of a deep zone: RollbackRestores, and Converges of DnsReplace at Plesk.
* OnlyApprovedRemoved: of a record as it was shown, or edited in place since under an
  identifier that was approved.
* The tree that the transfer reached: Converges of SiteSync; it is not the served one
  when the look for `current` met an error.
* RuntimeKeyKept: it does not say that a good key stays.  It says that a dead key in
  the vault was created dead, and that then some call that went ahead has no ok.
* No refusal of a subdomain that speaks of something else: EnsureConverges.
* SingleUse speaks of the retention without its last instant, at which the purge has
  forgotten a grant that the verification still accepts.
* No kill: VerifiedIsLive (a call killed between rename and reload leaves a file that
  the next call takes for applied).  No kill and no fault: FreshMatches (above).
* The hash check: CountedAsApproved, and only of files that the approved plan lists.
  It says that the content is on the host, not in which tree: `current` can be
  switched during a transfer, and nothing in the code ties a transfer to one release.
* No hash check: PartialReported (a file that cannot be read back is a plain failure),
  and it excepts a directory that cannot be made.
* Rotation: Converges of CredentialRotation (a mailbox whose vault entry was never
  stored is kept as it is).
* Not mode `assign` of ssl ensure: EnsuredCovers and CoveringKept (it assigns without
  looking, and answers ok with a warning).  CoveringKept also needs probes that tell
  the truth: after a probe that failed for another reason the ladder assigns the next
  name over a covering certificate.
* VerifiedIsServed: of a verified answer whose request fetches something.  Its part
  about the whole tree needs a new identifier for every upload, which the code leaves
  to the caller.
* EndsByItself: of a runner whose deadline is the declared one.  It bounds by the
  headroom what a killed call spent before its transfer began and in the last file.

### Fairness

`Converges` (`EnsureConverges`, `LadderConverges`) is checked under weak fairness of
the step of each call, in TwinSync also of the steps of twin-current.  A live handler process takes its next step: its requests
end with an answer or a time-out.  That a caller starts over after a failure is the
caller's part and not the code's; the property says that doing so suffices, from
every half-done state.  Faults, kills and edits get no fairness, and they are
bounded: a server that refuses for ever lets nobody converge.

## Proofs

`GrantReplayProofs`, for every set of calls, processes and grants, every host
assignment, skew, lifetime and bound:

* `TypeCorrect`: TypeOK.
* `LockExcludes`, `SerialExcludes`: no two calls are between load and save
  (`Exclusive`) if all calls are threads of one process, or if the runner runs one
  process at a time.  Both rest on the part of TypeOK that says that a lock is held by
  the call that is past its load and by no other, which survives kills because a kill
  takes the lock with it.
* `GrantSingleUse`: with the file store, `[]Exclusive` implies SingleUse.
  SingleUse is not inductive: it does not say that the store still has the grant.
  `IInv(s)`, for a store `s` that the calls share, adds that readings of the clock are
  in the past, that entries hold the grant's own retention (EntriesGenuine), that a
  loaded copy lacks nothing but what is outdated (SnapFaithful, the part that a second
  process breaks), and that a grant used early is in the store until its retention
  ends (Remembered).
* `FileStoreKeepsPromise`: under the same condition every step of GrantReplay is a
  step of OneShotGrants or leaves its variables alone.
* `DeployedSingleUse`, `DeployedKeepsPromise`: the facts combined, with no condition
  left but the deployment.
* `MemorySingleUse`: without a file, SingleUse holds in one process that serves many
  calls, as long as it was not killed.  That store is purged in place, where the file is
  purged in the copy only; a call that purges holds the lock, so no other call has a
  copy that would go stale.

`ReleaseProofs`, for every set of calls and releases, all strategies, any number of
faults and kills, and any number of verifying calls with any request:

* `StoreTypes`, `VerifyTypes`: TypeOK and VerifyTypeOK.  They say more than types: a
  name that a link, a pointer file or a call holds has a directory, for which `Asked`
  says which names a call carries at which place and `NamesHere` that the state has no
  others.
* `SerialActivation`, `ReplacedStaysNamed`: if the runner admits one call at a time
  (`Serialized`, a condition inside both properties), EffectiveActivation and
  OldStillNamed.  `LinkInv`
  says what an activation has established at each of its places: through links
  `previous` is settled before `current` is touched, so the old release has a name
  throughout; after the pointer files are written they hold both names.  The reading
  may be faulty: `SeesType` says that it names what a link or a pointer file names, or
  nothing, and both properties follow for a call that did not miss the live release.
  A leftover link that hides a pointer file (`Shadowed`), which `auto` can leave
  behind, excuses its own slot only, and current is then still the old release.
* `StaysPublished`: NotLeftUnpublished.  For one call at a time it follows from what
  `LinkInv` says of the ends of a call.  Overlapping calls need another argument
  (`Published`): if nothing fails and nobody is killed, `current` is a link once a call
  drops pointer files, or some call is about to make it one (`Linking`), and the same
  for either representation once a call demotes or has answered (`Naming`).
* `VerifiersOnlyRead`: the composition implements ReleaseStore, since every step is a
  step of the store or leaves its variables alone.  `EffectiveBesideVerifiers` then
  carries `SerialActivation` over.
* `VerifiedReleasesAreServed`: VerifiedIsServed.  `StoreInv` says what the store has,
  `MarkedWhole` that with fresh identifiers every upload has its release to itself and a
  marked tree is whole, and `Knows` what a verifying call has established at each rung.

`TwinSyncProofs`, for every number of calls, files and trees, overlapping or not:

* `LinkedReleasesHoldTheirPlan`: LiveIsPlanned.  The invariant adds `Stored` (a file of
  a release is absent, torn or as planned, whoever wrote it: overlapping writers of one
  release write the same content), `Progress` (of the files that a call no longer has to
  write none is missing), and `Named`, `Links` (what is linked, or about to be linked as
  previous, has every file).
* `TwinTypes`: TypeOK, with `Demotes` and `Sees`, that a call about to link `previous`
  and a query past its first read have a release in hand.
* `VerifiedSyncIsWhole`, `FreshFactsMatch`: VerifiedIsWhole and FreshMatches, both for
  one actor at a time (a condition inside them).  The invariant `SInv`
  says that one actor is at work (`OneActs`), that the files a call no longer has to
  write are as planned and from the marker on so is the marker (`AsPlanned`), that without
  faults and kills the current release is whole but for a file that is being written
  again (`LiveWhole`), and that what a query has seen is still current (`Looks`).

`SiteSyncProofs`, for every number of calls, files and releases:

* `TransfersEndByThemselves`: EndsByItself, from `InTime`: the last look at
  the deadlines was before the total budget ran out, so a call that is killed spent the
  headroom before its transfer began or after that look.
* `PartialUploadsReported`: PartialReported, from `Reports`: nothing is uploaded
  before the connection, and a failure that leaves files uploaded and files to do says
  so, without the hash check.
* `SyncTypes`: TypeOK.  `Walks` says that the files a call has done or has to do lie in
  directories that its walk has entered, none is both, and one that sends has one to do.  That a walk with files left has a next one
  (`NextIsLeft`) is `LeastElement`, a nonempty set of numbers has a least one, from the
  library's theorem that the order of the numbers is well founded.
* `UploadsAreAsApproved`: CountedAsApproved, as long as no two calls transfer at once
  (`OneTransfers`; a second transfer could put another plan's content over it), and
  also when the transfer took the parent for want of `current`.
  The invariant is `Counted`: with the hash check, every planned file that was
  done has its approved content in some tree, since the remote file is read back before
  the file counts.  `LoneUploadsAreAsApproved` has no condition left for a lone caller,
  the instance that the run checks.

`CredentialRotationProofs`, for every set of callers and every kind of request:

* `RotationTypes`: TypeOK.  That secrets stay within two for each grant is a counting
  argument (`TwoPerGrant`): a grant pays for two secrets, a call before its request to
  the panel is still owed both, a call before the fallback one.  `OwnSecrets` adds that
  no two calls hold the same secret.
* `RuntimeKeysAreGood`: RuntimeKeyKept.  `Accepted` says that the panel accepts the
  credential of a call that has set one: nobody replaces it, because keys are only added
  or because there is no other call; only an API key may have been created dead, and
  then a dud was spent (`DudIsSpent`).  A call that stores a dead key is not through,
  and it cannot end ok while that key is in the vault: its read-back opens the API with it.
* `VerifiedIsProvisioned`: Provisioned, with `OneApplies` (the runner admits one call
  at a time) and `Stored` (the vault entries that the call has written so far).

`DnsReplaceProofs`, for every number of callers and values, overlapping callers,
panel edits, refusals, losses and kills, at both providers:

* `OnlyApprovedAreRemoved`: OnlyApprovedRemoved.  `ZoneGood` says that identifiers are
  unique and below the next one, `SeenGood` that what a call has read has identifiers of
  its own, `ShownGood` that an identifier that a dry run has shown still means the record
  that it showed, one edited in place since, or none (identifiers are not handed out
  twice, also not when a restore puts several records back: `FreshIsNew`), `PlanGood`
  that a call about to delete has the approved plan.
* `DnsTypes`: TypeOK.  `Bounded` says that identifiers stay within those of the
  setting, `NonEmpty` that a request about to be sent has records.
* `RollbackIsRestored`: RollbackRestores, for a caller that is alone with the host
  (`Alone`, a condition inside the property) that is not the apex of a deep zone.  That
  a restore lands at the host (`LandsAtHost`) takes that a call that deleted something
  did not misread the zone.  `OwnZone` says that on the way to a
  rollback the zone is what the call read, less what it has deleted.  The property counts
  contents, so that duplicates have to come back as often as they were there: restored
  records have new identifiers, and `FreshIsNew` gives a bijection between the old and
  the new ones that keeps values, from which `SwappedContents` gets equal counts.

`HostProofs` has the theorems about the three handlers that set a host up, and extends
all three modules: for that their specifications have names of their own (`EnsureSpec`,
`LadderSpec`, positions `at` and `rung` beside `pc`).  The
reverse proxy, for every set of calls, hosts and contents:

* `ProxyTypes`: TypeOK, for overlapping calls too.
* `ProxyFailureRestores`: FailureRestores, if no two calls work on one host
  (`Admits` is not "any").  `Apart` is that condition as an invariant, `Restored` that a
  call that has put the old file back finds it there while it rebuilds.
* `ProxyVerifiedIsLive`, `ProxyFailureNotServed`: VerifiedIsLive and FailureNotServed,
  for one call at a time.  `InStep` says how far what nginx serves is behind the files:
  not at all when nobody works, and at each place of a call by what that call has
  written (`Serves`).  For calls that only keep apart by host both are false of the code:
  each reload loads all hosts, so one call can load a block that another has written and
  not tested yet.

The name (DomainEnsure), for every set of callers, names and
subscriptions, any limits, denials, rejections, losses and kills:

* `EnsureTypes`: EnsureTypeOK, for overlapping callers and panel edits too, from `EnsureInv`.
* `DomainsAddedWithRoom`: AddedWithRoom, for a caller that is alone (a condition inside
  the property).  `Counted` says that from its count to its add the subscription still has
  room for the domains that are there; `OneDomainMore` that the add puts at most one
  domain on top, and a subdomain none, from the library's theorems about cardinality.
  That a call starts over after an add whose answer was lost is no exception: it
  counts again.

The certificate (SslLadder), for every number of calls, any
repository, faults, failing probes and kills:

* `CertificateTypes`: LadderTypeOK; the served certificate is one of the repository.
* `EnsuredHostsAreCovered`: EnsuredCovers, for overlapping calls.  One call may well
  undo what another has assigned, but the step in which a call answers ok leaves the
  host covered (`EndsCovered`), so when all have, the last one left it so.  For
  the stages that assign without a probe this needs `Knows`: the certificate that the
  call has made still covers the host, whoever else climbs, since no step replaces a
  covering certificate (`HostStep`).
* `CoveringCertificatesStay`: CoveringKept, for one call at a time (`OneClimbs`) with
  probes that tell the truth.  `Careful` says that a call that is assigning by name does
  so over a certificate that does not cover; `StageIsLater`, that the ladder never goes
  back to that stage, is what keeps it so.

`MutateLeaseProofs`, for every number of issuing and guarded calls, any lifetimes:

* `TypesHold`: TypeOK.  A file to open always exists: there are two names and at most
  one open file for each other issuer (`UnusedExists`).
* `GatesStayClosed`: StaysClosed.  `Bounded` says that no lease outlives the last
  request for one by more than the longest lifetime, `Shut` that while the gates are
  closed nobody is between open and replace and the lease in place is gone or too old,
  `LateStopped` where a late call can be at most, given its switches.
* `LastGrantedIsInForce`: LeaseIsLastGranted, from `Orderly`: with one issuer at a time
  the temporary name has what that issuer wrote, and is never the lease in force.

Each proof uses the named assumption on the constants in its module and
nothing else, besides the hypotheses named above.  In DnsReplace and MutateLease that
assumption gives the bounds a type and no value; that of DnsReplace also says that a
setting has identifiers for at least the records of its first zone, that of MutateLease
that the contents of a file that is no lease are different from every lease.

That of DomainEnsure says that its two words for a limit that is no number are
different and no numbers, that of SslLadder that somebody calls: with no
call at all "every call has answered ok" would hold of any host.

Only model-checked: all liveness (fairness and ENABLED are out of the prover's
reach), and the two properties whose runs expect a violation, which the code does not
have.  The run of GrantReplay has the file store; about the memory store there are only
the theorems, and one that ends with its isolated process cannot keep single use.

## Not modelled

* Text, formats, XML and JSON encoding, signatures and hashes (equality of what is
  hashed stands for them), and the contents of files.
* Read-only queries: status, inventories, capability checks, DNS authority and
  propagation.  They keep no state; where a handler's decision rests on one (probes,
  the subscription limits, the records of a host) the query is a step of that handler.
* Capabilities, results, error codes, compatibility: pure classification and wording of
  answers.
* Extensions and the generic REST call: one request behind the gates without read-back
  or retry, whose effect is defined by somebody else.  There is nothing to check in
  them beyond MutateLease and GrantReplay.
* The FTP transfer as a program of its own: it is the transfer of SiteSync without the
  hash check, and ignores errors of mkdir.
* Validation, scope and credential preflights: they refuse before any step.
* In MutateLease the gates are modelled by themselves; in the other modules a handler
  begins where its gates let it through.
* A request without an answer takes effect at once or never: one that takes effect
  after the caller has gone on is not modelled.

## Plan

Done: every module has its safety properties proved.  Left, in this order:

1. A composition of gates, grants and a handler: an abstract "no mutation without an
   open gate and a fresh grant", which MutateLease and GrantReplay together implement.
2. Requests that take effect late, beginning with DnsReplace, whose restore they would
   overtake.
