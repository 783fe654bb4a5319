# wanfw in TLA+

wanfw publishes home services to the Internet. An operator or the web UI writes
*desired state*; the **orchestrator**, the only process with the Docker socket,
reconciles the host towards it: networks, volumes, containers, a reverse proxy
and its certificate. Anything powerful is gated on an operator's approval, and
plugins run in a separate sandboxed process.

This directory specifies that system. The modules are translated from the
TypeScript under `src/`, TLC checks them on small instances, TLAPS proves the
theorems for every value of the constants. `PROJECT.json` maps every definition
to the lines it stands for.

Contents: [inventory](#inventory) · [modules](#modules) · [runs](#runs) ·
[bounds](#bounds) · [fairness and deadlock](#fairness-and-deadlock) ·
[proofs](#proofs) · [findings and limits](#findings) · [not modelled](#not-modelled) ·
[plan](#plan)

## Inventory

All paths are below `src/packages/` unless they begin with `plugins/` or `docs/`.

| Component | State it keeps | Operations | What is hard, and what correct means |
|---|---|---|---|
| Reconcile engine `orchestrator/src/reconciler/engine.ts`, `main.ts` | `runningPromise`, `pendingRerun`, last outcome | `trigger(source)` from boot, watcher (2 s debounce, 30 s poll), 60 s timer, nudge, approvals, certificates, framework | triggers arrive at every await; none may be lost, reruns coalesce, boot finishes |
| Pipeline LOAD → RESOLVE → PLAN → RENEWAL → VALIDATE → GATE → EXECUTE → OBSERVE, `orchestrator/src/reconciler/*`, `execute/*` | a context per run; Docker objects; status files; the GATE snapshot | one stage after the other, the first error ends the run | documents, approvals and containers change during a run; a run may fail or die half-way; the next must converge, start only what is approved, collect only what is gone |
| Desired-state loader and watcher `orchestrator/src/desired-state/*` | files of `wanfw_desired` | list, read, validate, migrate | files appear and vanish between the listing and the reading |
| Approvals, trust, grants, IPAM, framework, kv, journal `orchestrator/src/state-store/*` | SQLite tables | synchronous inserts, updates and queries | sequences of legal calls |
| IPAM `orchestrator/src/state-store/store.ts`, `host-api/*`, `plugins/network-macvlan` | `ipam_ranges`, `ipam_allocations` | allocate, release, set range | a plan killed and made again must not drain the range; CIDR arithmetic at its edges |
| Validation and grants `orchestrator/src/validate/*` | none | field-by-field tiers of a container spec | every powerful field is covered by a grant and hashed |
| Dependency resolution `orchestrator/src/dependency-resolution/*` | none | bindings, versions, cycles | a manifest that cannot be read; a depth first search whose colours must neither miss a cycle nor invent one |
| Certificate store and renewal `orchestrator/src/certs/store.ts`, `renewal/scheduler.ts`, `reconciler/renewal-stage.ts` | `gen-<N>` directories, `current`, `renewal-state.json` | store, rollback, list; due, backoff, escalation | a crash between any two steps; a rollback in the middle of a run; limits that meet |
| Audit log `orchestrator/src/audit-log.ts` | `audit.jsonl`, `seq`, `lastHash` | append, readAll, verify | appends cut short or failing; resuming after a crash |
| Signing key `orchestrator/src/signing-key.ts` | `signing.key`, the manager in the holder | loadOrCreate, rotate, importFrom, reSignAll | the file is ahead of the object for several awaits; requests overlap |
| Trust flow `orchestrator/src/trust/*`, `composed-schema/*` | trust records, grants, `wanfw_bundles`, `schema.json` | upload, trust, trust-builtins, untrust, publish the composed schema | a request is several transactions with awaits in between; uploads move the source of a copy; upgrade and removal against a running reconcile |
| Host API `orchestrator/src/host-api/*` | calls in flight | dns, certs, secrets, kv on behalf of a plugin | which caller a call belongs to, which grant covers it |
| Admin and status sockets `orchestrator/src/admin-socket.ts`, `status-socket.ts`, `uds-server.ts` | none | request handlers | handlers interleave at their awaits |
| Plugin host `pluginhost/src/*`, `orchestrator/src/plugin-socket.ts` | connection, calls in flight, child processes | invoke, host call, kill at the wall limit | a late answer against a timeout; reconnection |
| tier1 web UI `tier1/*` | sessions, setup token, service documents | setup, login, uploads, write and delete services | two setups at once; a password that changes during a login; windows of the login limiter |
| Plugins `plugins/*` | DNS records, ACME orders | cert.ensure, dns.apply, network and deploy plans | clean-up after failure; read-modify-write of a zone |
| wanfwctl `wanfwctl/*` | the step `init` is at | the setup wizard; otherwise one request to the admin socket per command | a wizard that dies half-way and is run again |
| Secrets `orchestrator/src/secrets/store.ts` | a file per secret | put, get | written by the wizard and by plugins, read by plugins |

Components interact in four ways: the engine calls the stages; the stages read
files, SQLite and Docker, which the admin socket and tier1 change at the same
time; admin handlers set off triggers; plugins are invoked over a socket and call
back into the host API. The orchestrator is one Node process: code between two
`await`s is atomic with respect to everything else in it, and is not atomic with
respect to a crash, to tier1 or to Docker. The specifications follow that: **one
action is one await** (with all that is synchronous after it), and where a crash
between two synchronous steps matters the steps are actions too.

The hazards are listed in `PROJECT.json`, each at its line with the properties that
catch it. Where the code does not keep what the repository says of it, the property is
one of the [findings](#findings), or the hazard has a note and the case is under
[limits](#limits-of-the-guarantees).

## Modules

### `ReconcileEngine`, `EngineTriggers`, `LevelTrigger`

`ReconcileEngine` is the coalescing loop of `engine.ts`: `running` is
`runningPromise`, `pendingRerun` the flag, `stage` the stage the current run is
in (`0` none, `Finished` after the last). `Trigger(source)` is `trigger()`, with
the sources that exist before and after boot; `StageOk`/`StageFail` are the two
ways a stage returns in `runOnce`, `LoopAgain`/`LoopEnds` the test after
`runOnce`, `Restart` a crash and the boot that follows. It is a module of actions
without a specification of its own: `EngineTriggers` composes it with counters of
triggers and runs, `Reconcile` with the pipeline.

`LevelTrigger` is the abstract specification: a request counter, a run that
works on all requests made before it began, and the promise that every request is
worked on. `EngineTriggers!LevelSpec` is the refinement (checked with its
liveness, proved for its safety part).

### `Reconcile`

The pipeline, composed with the engine and with everything that moves while a
run is in flight. `docs`, `fw` and `approvals` are the desired state;
`ctxDocs`, `ctxFw`, `ctxGate` what the run carries in its context;
`nets`, `exposure`, `vols`, `ctrs`, `proxy` Docker; `cfgFile`/`served` the
Caddyfile and what the running proxy has loaded; `status` the status files;
`snapshot` the GATE snapshot the admin socket approves from.

Every await that reads or changes shared state is an action, in the code's order:
`LoadList`, `LoadRead` per file, `LoadEnds`; `ResolveStage`, `PlanStage` (or
`PlanUnreachable`: the plugin socket opens only after the boot run),
`RenewalStage`, `ValidateStage`; `GateStage`, which reads the approvals once;
per service `EnsureNetwork`, `EnsureVolume`, `EnsureContainer`,
`CreateContainer`, `StartContainer`, `JoinNetwork` (the connect that follows
`ensureContainer` in every run); the proxy's `EnsureExposure`,
`EnsureProxy`, `CreateProxy`, `StartProxy`, `ConnectProxy`, `WriteConfig`,
`ReloadProxy`; the garbage collection `GcContainer`, `GcNetwork`, `GcVolume`;
then OBSERVE's second listing (`ListRemaining`), a `WriteStatus` or `RemoveStatus` per
status file, and `ObserveEnds`. Around them: `Fault` (any call may throw), `ContainerStops`,
`ProxyStops`, `Reboot`, tier1's `WriteServiceDoc`/`DeleteServiceDoc`, and the
admin socket's `SetFramework`, `Approve`, `Revoke`.

A find-then-change pair (`inspect` and then `create`) is one action: only the
orchestrator creates and removes these objects. A document is abstracted to the
part the approval binds (`proj`), the rest of the spec (`env`) and the volume
opt-in (`rm`); hashes are injective. `Unjoinable` are the configurations whose
`networkMode` (host, none, another container's) lets Docker attach no further network:
`docker-client.ts:226` gives it precedence over the service's network, so the connect
is attempted, and refused, in every run.

### `Certs`

The wildcard certificate. `gens` are the `gen-<N>` directories (names, age,
which files are there), `current` the pointer, `store` the step `storeCert` is
at, `since`/`failures` `renewal-state.json`, `at`/`ctxNames`/`planned` the run,
`config`/`served` the proxy. `StoreRename`, `StorePointer`, `StorePrune` are the
steps of one synchronous call, apart because the process may die there (`Crash`,
and `CrashInPrune` inside the recursive removal). A crash ends the attempt that was
under way; its child in the pluginhost, which may outlive it until the wall timer and
store a certificate over the next connection (`PluginLink`), is left out. `Due` is
`computeRenewalDecision`; time is kept as saturating ages in ticks.

### `Custody`

The signing key, the records it signs and the audit log. `keyFile` is the file,
`keyOf` the key of each `SigningKeyManager` object, `holder` the object in use;
`ops` are the admin requests in flight (rotate, import, trust), `sig` the key a
live record is signed with; `log`, `tail`, `seq`, `lastHash` are the log's file
and memory. An append ends in one of four ways (`Outcomes`): all of the line, none,
a part of the object, or the object without its newline. Approve, revoke and the
rest of the handlers are synchronous, so each is one action.

`overlap` remembers whether two key operations were ever in flight at once since
the last start.

### `PluginLink`, `RemoteCall`

`PluginLink` is the socket between the two processes and the invocations over it.
`orchEnd[c]` and `hostEnd[c]` are the two ends of connection `c`: accepted or still
in the listen backlog, `ended` after `handleClose`, `closed` after the socket's
"close"; `holder` is `pluginConnectionHolder.connection`, `connection` the
pluginhost's variable of that name. `call` is the orchestrator's side of an `invoke`,
`job` `runInvocation`, `child` the process, `ask` the host call a child has in
flight, with the invocation `brokerDnsApply` makes for it. `Result`, `ChildFails`,
`ChildExits` and `WallTimer` are the events that race for `settled`; a child's
`HostCall` goes over the connection of the moment, not the one its invocation came
by. `HostStops` and `OrchStops` kill either process anywhere; what was sent may
still be read, or be lost. Outcomes are abstracted to well or not, and one host
call is in flight per child.

`RemoteCall` is the abstract specification: a call refused never runs, none runs
twice, one that returns well ran to its result, every call and all work ends.

### `Resolve`

One call of `resolveDependencies`. `ResolveInit` chooses any manifests, bindings, trust
records and unreadable files within the bounds; `ReadManifest` is the awaited read
of each bound plugin's manifest, `CheckDependencies` the errors the call collects,
and `VisitRoot`, `Descend`, `PassOver`, `FindCycle`, `Leave` the depth first
search, with the recursion of `visit()` as the explicit `path`. The references
are declarative: `Acyclic` (no set in which each waits for another of the set) and
`Satisfied`.

### `Ipam`

`holder` is `ipam_allocations` without its released rows, `range` the row of
`ipam_ranges` that LOAD keeps in step with the framework document (`SyncRange`),
`call` the host calls in flight, `run` the run that plans with network-macvlan and
creates the proxy. `Mask`, `Network`, `Broadcast`, `HostsInCidr` are the CIDR
arithmetic, with JavaScript's shift modulo the word (`Shl`). `AllocateAgain`,
`AllocateFirst`, `AllocateFails` are the ways `allocateIp` goes; the caller's
grant is looked up before the await and used after it (`call[c].as`). `WallTimer`
kills the plan while its call is still on the way. `told` is what an owner was
answered and nobody released.

### `Validate`, `Trust`

`Validate` is the field-by-field check of a container spec against grants, as
operators: canonical paths, globs, name prefixes, port sets. `Trust` uses it for
the VALIDATE stage and models what the grants are (a volume whose name begins with
`wanfw_<serviceId>` counts as the service's own, as in the code): uploads in tier1 (extract,
remove the old directory, rename), `trust` and `trust-builtins` with the copy of a
bundle as an await, the records and grants they write (`CopyEnds`), `Untrust`, and
the publishing of the composed schema (`PublishReads`, `PublishWrites`). A directory
that exists is overwritten in place: it is `"rewritten"` while a bundle is trusted again,
two copies of one staged bundle may unlink each other's files (`Clash`), and a copy that
throws may leave it short (`CopyThrows`). `VersionOf` is a version's rank in the store's
order, which compares strings. `Crash`
falls at any await, `CrashInRecords` and `CrashInRevoke` between two transactions
of one synchronous stretch. `given`, `torn`, `short` and `dirty` are history: what
the operator trusted, and where a crash, a moved source or an overlap excuses a
difference.

### `FirstRun`

`wanfwctl init` and what it leads to. A wizard goes through `Trusts`, `Stores`
(one request per credential), `WritesFramework`, `Polls`, `IssuesToken`,
`SendsInfo`, may fail or be killed at each, and may overlap another. In tier1,
`SetupStarts`/`SetupVerifies`/`SetupFinishes` and `LoginStarts`/`LoginFinishes` are
the parts of a server action between its awaits (the password hash is one);
`LoginRefused` is the limiter, `limit` its row; `sessions` the table, `cookie`
what a browser holds. `Seed` is `seed-admin.mjs`.

### `CertIssue`

One DNS-01 issuance after the other. `iss` is `cert.ensure` at each of its awaits:
account key, account, order, per authorization fetch, set record, wait, respond,
poll, delete record, and at last finalize, poll and store. `apply[n]` is the
`dns.apply` it last asked the broker for, in a child of its own: `GetHosts` reads
the whole zone, `SetHosts` replaces it, and `SetHostsSwallowed` is the HTTP error without
an `<Errors>` block that counts as done with nothing written. `Killed` is the wall timer, which does not
reach that child. The ACME server (`authz`, `order`, `accounts`) is external and
answers as it likes within the protocol; `OwnerEdits` is the zone's owner.
`raced` and `faults` are history: a write on a wrong picture of the zone, and what may
have left a challenge record behind: a kill (`"cut"`), a set carried out and reported as
failed (`"unheard"`), a delete not carried out (`"kept"`).

### Proof modules

`ReconcileProofs` (the pipeline, and the engine under it: `EngineTriggers`),
`CertsProofs`, `CertIssueProofs`, `CustodyProofs`, `PluginLinkProofs`,
`ResolveProofs`, `IpamProofs`, and `AccessProofs` (`Trust` and `FirstRun`). A module
of proofs, or of a run, about several specifications extends them all, which is why the definitions of
some modules carry the module's name (`TriggersInit`, `FirstRunNext`, `IssueSpec`,
`IpamInit`, `ResolveNext`, ...).

### `MC*` modules

They give the constants that a `.cfg` cannot write and the symmetry sets, and compose
what one run checks together:

* `MCServing` runs the engine's loop and the plugin link. In `main.ts` the link's socket
  opens when the boot trigger's promise has resolved; so it does here.
* `MCCertificates` (`Certs`, `CertIssue`, `Ipam`) and `MCStores` (`Custody`, `FirstRun`,
  `Resolve`) put parts side by side that share no state. In each behaviour one of them
  (`part`) takes the steps of its own specification, under its own fairness, and the
  others stay as they began. A property of one part mentions no variable of another, so
  the run says of each part what a run of it alone would say; the product of parts that
  cannot influence each other is not explored.

Operators marked "Wrong on purpose" are plausible bugs of the definition they
stand in front of. Nothing uses them; replacing the definition by one of them
makes TLC refute the property `PROJECT.json` pairs it with under "mutants".

## Runs

| Run | Question | Answer |
|---|---|---|
| `serving` | `EngineTriggers`: is every trigger served, and does boot end? | `NoLostTrigger`, `BootCompletes`; refines `LevelTrigger` with its fairness, so every trigger is followed by a completed run (`LevelSpec`) |
| | `PluginLink`: invocations, nested ones included, while either process dies | nobody waits on a dead connection (`PendingIsOpen`), the holder has the live one (`LiveIsHeld`), children end and the link comes back (`Recovers`); refines `RemoteCall` with its liveness (`RemoteSpec`) |
| `reconcile_pair` | Two services, one proxy, edits, approvals, revocations and a fault anywhere in a run | nothing starts unapproved (`StartsOnlyApproved`), parked services are left alone (`ParkedUntouched`), only absent services are collected (`CollectsOnlyAbsent`), no data is lost unasked (`DataKept`), a matching host is not touched (`IdempotentRun`); `Inv`: Docker never refuses a removal (`NetworkGcUnblocked`), and the invariants behind the theorems |
| `reconcile_settles` | Does the host settle after an edit, a fault, an unreadable listing and a crash at any await? | `Convergence`, but for two standing conditions under which EXECUTE fails in every run |
| `certificates` | `Certs`: store, prune, rollback and crash in any order, a failing attempt, a change of names | the pointer does not dangle (`PointerWhole`), the reload finds what PLAN looked up (`ReloadFindsCert`), renewal is neither late (`InTime`) nor early (`NoReissue`), the proxy ends up with the current certificate (`ServesCurrent`); `Inv`: a missing certificate shows in the status (`UncoveredIsDegraded`) |
| | `CertIssue`: two issuances, two authorizations, failures and kills at every await, an owner editing the zone | a challenge record stays only after a kill, a lost answer or a delete not carried out (`CleanedUp`), the owner's readable records survive (`ForeignSafe`), every issuance ends (`IssuanceEnds`); `IssueOrder`: the ACME steps are in order (`FinalizedWhenReady`, `AnswersPending`) and one account is kept (`AccountKept`) |
| | `Ipam`: allocations, releases and killed plans while range, gateway and trust change | the host set is what a CIDR means (`HostsExact`); an owner holds one address and keeps what it was told (`Table`) |
| `stores` | `Custody`: appends that fail, are torn or crash, among overlapping rotations, an import and trust requests | the chain is linked (`ChainUnbroken`), the damage to the log is bounded by its causes (`DamageBounded`), the key in use is the key in custody (`CustodyMatches`), live records verify (`RecordsVerify`, `TrustsUnderCurrent`) |
| | `FirstRun`: two wizards that die or overlap, two browsers, a reseeded password | `FirstRunInv`: a token means a finished installation (`TokenMeansReady`), an undisturbed wizard leaves only its own answers (`WizardLeavesOwn`); the limiter lets at most twice its limit through in a window and opens again (`LimiterFair`); a setup that comes in after the first account changes nothing (`PasswordSettles`); sessions are earned, once, and end (`SessionsEarned`) |
| | `Resolve`: every graph of three plugins and three roles | a cycle is reported exactly when there is one (`CycleExact`), the stage passes exactly when the bound plugins have what they ask for (`VerdictExact`) |
| `trust` | Uploads, trust, trust-builtins, untrust, a run and a crash, interleaved | grants are those of what is trusted (`GrantsExact`), nothing validated exceeds trusted manifests (`ValidatedByTrust`); `Inv`: a recorded bundle is whole unless it is being trusted again or a copy was cut short (`RecordedIsWhole`), and the schema is current (`SchemaCurrent`) |

The other runs ask for what a comment, a test or the design says, and TLC finds each
violated; the [findings](#findings) quote the claim.

| Run | Claimed | Property |
|---|---|---|
| `torn_line_glued` | no entry that landed is lost | `LandedKept` |
| `transitive_ignored` | transitive dependencies that fail reject a binding | `TransitivelySatisfied` |
| `window_not_sliding` | the login limit slides | `SlidingWindow` |
| `setup_after_account` | setup is dead once there is an account | `SetupStaysDead` |
| `zone_rewritten` | a challenge keeps every record of the zone | `ForeignKept` |
| `lost_answer_leaves_record` | a delete is always attempted | `DeleteAttempted` |

An invariant called `Inv`, `IssueOrder` or `FirstRunInv` is the conjunction of the module's type invariant and of
the parts named in its row; each part has a comment of its own in the module.

## Bounds

Every bound is a constant `Max...` and appears in the guard of the action it
limits.

* `EngineTriggers` (in `MCServing`): 6 triggers, 1 restart, 3 stages. A loop of two
  flags has shown all it can do after a trigger in each stage of a run and of its rerun.
* `PluginLink` (in `MCServing`): two invocations, each of which may be made for the
  other's host call, one death of each process, hence three connections. A connection can
  be overtaken only by the next one, and host calls meet only in the connection. The link
  is used after a boot run that went well (`JustBooted`), the engine goes on only while
  the link was not (`Unused`): the loop does not look at the link, and what a failing
  invocation does to a run is in `Reconcile`.
* `MCReconcile`: two services for safety, with two edits and one fault; services
  meet only in the proxy and in the garbage collection, which the pair has both
  of. `MCReconcileLive` has a projection that may join no network, one edit, one fault,
  one unreadable listing and one restart, each at any of the two dozen awaits.
  `ServiceSymmetry` is used only for safety and only with `SelfExposed = {}`, where
  services are interchangeable.
* `Certs` (in `MCCertificates`): a tick stands for the coarsest step the schedule tells
  apart; lifetime 5, window 2, escalation 1, pace and longest backoff 2 keep the order of
  90, 30, 7 days, one day and 24 hours. Four stores exceed the three generations
  retained, so that one is pruned; time stops once they are used up, and a tick waits for
  a run, since runs come every minute. One each of failing attempt, crash, interrupted
  removal, rollback and change of names.
* `CertIssue` (in `MCCertificates`): two issuances over two authorizations, so that one
  overlaps the write the other left behind; one edit by the owner, one HTTP error taken
  for an answer (`MaxBlanks`, of either request); one record the client can read and one
  it cannot.
* `Ipam` (in `MCCertificates`): addresses of three bits, a /1, a /0 and a /2 (four hosts
  before network, broadcast and gateway are taken away, all of them, and none free), two
  named owners and an anonymous one, two other calls, one change or timeout.
* `Custody` (in `MCStores`): four entries with a checkpoint at the third, two requests in
  flight, two rotations, and at most two (`Mishaps`) of a torn append, a failed one, a
  crash and an import: a key request inside another and a line appended behind a torn one
  both happen.
* `FirstRun` (in `MCStores`): two credentials and two polls stand for three and fifteen;
  time to live and window of one tick and two ticks of time let every deadline pass
  before and after every request; a limit of two attempts, two sessions, one reseed, and
  together at most four wizards, sessions and ticks (`Events`).
* `Resolve` (in `MCStores`): three plugins, three roles, three declared dependencies, one
  plugin untrusted or unreadable: a self-loop, a ring of two and of three, a diamond and a
  ring through a role all occur. Plugins and roles are interchangeable, so `Bindings`
  holds one of each kind: which roles share a plugin, and which have none.
* `MCTrust`: one plugin id with an uploaded bundle, a built-in one of the same
  version and a built-in upgrade, two uploads, three requests of which two overlap,
  one crash or failure. Two specs, one with a path that climbs.
* The safety properties of the composed runs are also proved, for every value of these
  constants; what rests on the bounds alone is the liveness.
* The runs that find a violation use the same modules with the bounds the trace needs
  and every other kind of trouble set to zero, so that the trace shows its one cause.

## Fairness and deadlock

* `EngineTriggers`: weak fairness of a stage's return and of the loop's
  continuations. Plugin calls have a wall-clock limit, promise continuations are
  run by the event loop; nothing is assumed of triggers.
* `Reconcile`: `WF(Pipeline)`, the awaits return, and `WF(Timer)`, the 60 s
  `setInterval` of `main.ts`. Nothing is assumed of operators, of tier1, of faults.
* `Certs`: `WF(Run)`, the same two facts seen from the certificate.
* `PluginLink`: `WF(Link)`, event loops run their callbacks and Docker starts a
  container again (`restart: unless-stopped` in `deploy/docker-compose.yml`), and
  `WF(Progress(j))`, requests are read, files are hashed, the wall timer fires and
  a signalled child dies. A child need never reply.
* `CertIssue`: `WF(IssueStep)` and `WF(ApplyStep(n))`: a request is answered or
  fails, polling has a limit of attempts, the wait for propagation a deadline, and
  whatever hangs is ended by the wall timer. The server need never validate, and
  nothing is assumed of kills or of the owner.
* The other specifications have no liveness property and state no fairness.
* In a composed run the fairness of a part is about its steps, and holds vacuously
  while another part moves.
* Deadlock is checked in `reconcile_pair` and `reconcile_settles`, where the timer can
  always fire. The others do not check it: with their triggers, requests, wizards or
  issuances used up, an idle system legitimately waits, and `Resolve` is one call,
  which returns.

`Convergence` exempts three situations: no framework document yet (`fw = None`,
every stage skips), a service parked before it ever ran (`ParkedUnnetworked`), and an
approved one that can join no network (`Refused`). For the last two see
[limits](#limits-of-the-guarantees).

## Proofs

What TLAPS proves holds for every value of the constants that satisfies the
`ASSUME`s of the modules, that is for any number of services, stages,
generations, entries, requests and faults.

| Theorem | States | Along |
|---|---|---|
| `ReconcileProofs!TriggersTypeCorrect` | `TriggersTypeOK` | inductive as it is |
| `NoTriggerLost`, `TriggersCoalesce` | `NoLostTrigger`, `Coalesced` | `TriggerIInv` (`TriggersAccounted`): `pendingRerun` holds exactly when a trigger came after the run began, and only while running. `NoLostTrigger` alone does not exclude a flag left over from a run that ended. |
| `RefinesLevelTrigger` | every step is a step of `LevelTrigger` or stutters | `TriggerIInv`, one step per action |
| `NothingStartsUnapproved` | `StartsOnlyApproved` | `ApprovalIInv`: what EXECUTE has still to visit is cleared, and the container about to be started is the one this run created |
| `CollectionSound`, `DataSurvives` | `CollectsOnlyAbsent`, `DataKept`, if no listing fails | `AbsenceIInv`: whoever the context lacks was absent during the run; the label "remove" implies an opt-in |
| `ParkedStaysUntouched`, `RunsAreIdempotent` | `ParkedUntouched`, `IdempotentRun` | `HostIInv`: what EXECUTE has still to do concerns no parked service and repeats nothing done |
| `NetworksCollectable` | `TypeOK`, `NetworkGcUnblocked` | `HostIInv`: once EXECUTE has settled the proxy, and through OBSERVE, it is joined to planned services only, so no network that is collected has an endpoint left |
| `PipelineInvariant` | `Inv`, if no listing fails | the parts above together |
| `DrivesTheEngine` | every step of `Reconcile` is a step of `ReconcileEngine` or stutters | one step per action: the pipeline adds documents, Docker, operators and crashes to the engine and takes none of its steps away |
| `CertsProofs!PointerNeverDangles` | `PointerWhole`: until a removal is interrupted | `AttemptIInv`, `PointerIInv`: while pruning, the pointer is at the newest generation, which is never in excess |
| `ReloadSafe` | `ReloadFindsCert`, if at least two generations are retained | `NewestIInv`, `PlannedIInv`: a run sees at most one generation newer than the one it planned with |
| `CertsInvariant` | `Inv`, if at least two generations are retained | with `CoveredIInv`: without a crash only a store in flight separates the first generation from its pointer, so a run that plans without a certificate looks for one and finds none |
| `IssuesOnlyWhenDue` | `NoReissue` | `StoredIInv`, `QuietIInv`: while nothing but time passes the current generation covers the names asked for, so an attempt means that its window is open |
| `RenewedInTime` | `InTime`, for every schedule that absorbs its failures (`Absorbs`) | `CalmIInv`, `LateIInv`: a ledger of what the failures so far have cost (`late`), what is left to wait, and the tick a finished run has allowed. With the constants of `scheduler.ts` and a tick of an hour (backoff 1, 4, 12, then 24; 23 days between window and threshold) `late` exists up to 25 failures |
| `CustodyProofs!TypeCorrect` | `TypeOK` | `KeyIInv`: every key made was paid for |
| `SeqsIncrease` | `SeqIncreasing` | `LogIInv`: memory is never behind the file |
| `ChainHolds` | `ChainUnbroken` | `ChainIInv`: while nothing was torn every line parses and `lastHash` is the last one's |
| `CustodyKept` | `CustodyMatches`: unless two key operations overlapped since the last start | `CustodyIInv`: the file is ahead of the object by just the one operation in flight |
| `RotationReSigns` | `RecordsVerify`: until an import or a crash | `RecordsIInv`, `OneManager`: only one manager exists, and it re-signs all when it has a new key |
| `LogDamageIsBounded` | `DamageBounded` | `LossIInv`: a line left open has not cost its entry yet, and what is on it never landed; `SignedIInv`: until the first rotation or import one key signed every checkpoint |
| `TrustSignsUnderCurrent` | `TrustsUnderCurrent` | `ManagerIInv`: `OneManager` also across crashes, which end every request |
| `PluginLinkProofs!TypeCorrect` | `TypeOK` | inductive as it is |
| `NoWaitOnDeadConnection` | `PendingIsOpen` | `CallIInv`, `AskIInv`, `ChildIInv`: only a child that was spawned asks, and a child runs exactly while its invocation does |
| `HolderTracksLink` | `LiveIsHeld` | `LinkIInv`: connections are dialled one after the other and accepted in that order |
| `RefinesRemoteCall` | every step is a step of `RemoteCall` or stutters | `CallIInv`: only a call that went out has a connection to arrive by |
| `ResolveProofs!SearchInvariant` | `ResolveTypeOK` and `SearchIInv` | inductive: the gray nodes are the path, the path follows edges, what a node on the path has looked at is black or next on the path, black nodes have black successors and no set of them waits for itself |
| `ReportedCycleIsReal`, `CycleSearchExact` | `CycleIsReal`, `CycleExact`, for every graph | `SearchIInv`. The last clause about black nodes is what makes it work without induction over paths: a node turns black after its successors, so any set of black nodes has one without a successor in the set |
| `VerdictIsExact` | `VerdictExact` | `ErrorIInv`: what is reported at any moment is what the plugins read so far, the checks made so far and the ring found call for, no more and no less |
| `IpamProofs!OwnerHoldsOne`, `PromiseKept` | `OneAddressPerOwner`, `ToldIsHeld` | `Table`, the two with `IpamTypeOK`: inductive together, for every width and every CIDR |
| `OnlyReleaseTakes` | `TakenOnlyByRelease` | `Table`, one step per action |
| `HostsAreExact` | `HostsExact`, for every width and every CIDR | the netmask of a prefix is the multiple of a power of two it stands for (`MaskIsPrefix`), and division with rest is unique. Powers of two are characterised by `PowersOfTwo`, an assumption that TLC evaluates; the inductions over exponents go by a least counterexample |
| `CertIssueProofs!ProtocolInOrder` | `IssueOrder` | `KeyIInv`, `AuthIInv`: the authorizations before the current one are valid, those after it unanswered, and the server changes only one that was answered |
| `RecordsCleanedUp` | `CleanedUp` | `ApplyIInv`, `CleanIInv`: with none of the three causes the only `dns.apply` on its way is the one the issuance waits for, and the record is out only while its issuance has still to delete it |
| `ForeignRecordsSafe` | `ForeignSafe` | `ZoneIInv`: what a `dns.apply` has read and will write back is what the owner wants, as long as no write was raced |
| `AccessProofs!RequestsLeaveOrder` | `Trust!Inv` | `BundleIInv`: only a copy under way leaves a directory partial or rewritten without a mark; `SchemaIInv`: a request marked alone is the only one, and what it will write was composed of at least every record whose bundle can be read for certain (`Firm`) |
| `GrantsAreExact`, `ValidatesByContent` | `GrantsExact`, `ValidatedByContent` | `GrantsWithin`: no grant is live that trusted content did not declare, whatever a crash cut short |
| `SetupLeavesReady` | `FirstRunInv` | `WizardIInv`: what a wizard has got through has been done (`HasDone`), and by itself if it is alone (`HasLeftOwn`); nobody undoes what another did |
| `LimiterIsFair` | `LimiterFair`, for every window and limit | `LimiterIInv`: the attempts of the last window are those of the row and those of the row before it (`Earlier`), neither of which let more than the limit through. `tries` keeps each attempt with its number in its row, so that the row's own can be counted against `limit.count` |
| `PasswordStaysSettled`, `SessionsAreEarned` | `PasswordSettles`, `SessionsEarned` | `RequestIInv`: a setup under way came in before there was an account, a login read its hash after it came in |

The conditions in the middle column are the ones the code needs; "if no listing
fails", "at least two generations are retained" and `Absorbs` are assumptions of their theorems, the others are part of the property (see
[limits](#limits-of-the-guarantees)). Of the
inductive invariants, those of `Reconcile`, `Certs` and `Ipam` are also part of what TLC
checks (`Inv`, `Table`); the others were checked with the constants of their runs
before they were proved. `Coalesced`, `SeqIncreasing`, `CycleIsReal`,
`TakenOnlyByRelease`, `ValidatedByContent` and `DrivesTheEngine` are proved and not run.

Only model-checked:

* all liveness (`BootCompletes`, `Convergence`, `ServesCurrent`, `Recovers`,
  `IssuanceEnds`, the liveness of `LevelSpec` and `RemoteSpec`), which this prover does
  not handle under fairness;
* the half of `ValidatedByTrust` that says a path resolves to where its pattern allows:
  resolution is a fold over the path's elements, and what a fold computes for every
  path needs induction over data. `ValidatesByContent` is the other half.

## Findings

Each is a run whose property states the claim, and a trace that the code allows.

* `zone_rewritten`: `parseHosts` (`plugins/dns-namecheap/src/namecheap-client.ts:99`)
  matches a host element with `/<host\s+([^/>]*)\/?>/`, so a record with a slash or an
  angle bracket in an attribute (a DKIM key, a URL redirect) is not read, and
  `setHosts`, which replaces the zone, writes it away. The comments of the file say
  that `getHosts` "fetches every current host record for the zone" (line 123) and
  that a change writes "the full merged list" (line 5). One challenge loses the
  record, with no failure and no concurrent edit.
* `lost_answer_leaves_record`: `dns.setRecord` is awaited before the `try`
  (`cert-ensure.ts:155`), so a set whose answer is lost leaves its record with no delete;
  "*always* attempted before this function returns or throws" (`cert-ensure.ts:111`).
* `torn_line_glued`: the entry appended after a line that was cut short is on that line,
  and lost (`audit-log.ts:98`); "nothing is lost that was ever counted as having landed"
  (`audit-log.ts:110`).
* `transitive_ignored`: only bound plugins' manifests are read
  (`dependency-resolution/resolve.ts`); "a role binding whose transitive dependencies fail
  is rejected whole" (`resolve.ts:56`).
* `window_not_sliding`: the limiter's windows are fixed (`tier1/lib/session-db.ts:87`), so
  two that touch let twice the limit through; "Sliding-window" (`session-db.ts:80`).
* `setup_after_account`: a setup past its check when the account appears overwrites the
  password (`tier1/app/setup/actions.ts:41`); "permanently dead" (`actions.ts:15`).

### Limits of the guarantees

Some properties hold only under a condition, which is written into the property
except where noted.
What lies outside it is what the code does, not an artefact of the model:

* `PointerWhole`: a crash inside the recursive removal of an old generation
  (`certs/store.ts:134`) leaves a directory that is still listed, and a rollback can
  make it current (`store.ts:153`).
* `UncoveredIsDegraded`: a crash between the first generation and the first
  pointer leaves RENEWAL content, since `listCerts` reads the newest generation
  (`store.ts:176`), and the proxy without a certificate.
* `RecordsVerify`: a crash between the key's file and the last re-signed record
  (`signing-key.ts:76`) leaves records no key verifies. An import replaces the
  manager without re-signing.
* `CustodyMatches`: two key requests that overlap (`signing-key.ts:65`) can leave a
  key in use that is not in the file.
* `Convergence`: EXECUTE joins the proxy to the network of a service that was parked
  before it had one (`reconciler/execute-stage.ts:145`), and every run fails until the
  service is approved or deleted, although parking "is not a stage failure"
  (`gate-stage.ts:92`). The connect after `ensureContainer` (`execute-stage.ts:101`) is
  refused in every run for an approved container in host network mode, which
  `plugins/deploy-docker/config-schema.json:71` and `docs/design-spec.md:710` offer.
* `CollectsOnlyAbsent`, `DataKept`: about runs in which no listing fails. A directory that
  cannot be listed counts as empty (`desired-state/loader.ts:99`), and the services in it
  are collected and brought back by the next run; with `MaxListFaults = 1` TLC finds it.
* `ChainUnbroken`, `VerifyUntilRotated`: about logs without a torn line, the latter also
  without a replaced key. Checkpoints of the past are checked with the key of today
  (`audit-log.ts:157`), so verify fails after a rotation; the test that says it "stays
  green over [...] rotate" (`negative-acceptance.test.ts:190`) writes the entry and
  rotates no key.
* `TrustsUnderCurrent`: about requests that no import overtook. One in flight during an
  import signs with the replaced manager (`admin-socket.ts:69`).
* `LiveIsHeld`, `Recovers`: about connections that were not accepted before an older one's
  "close". A pluginhost that restarts while the orchestrator is busy is accepted before
  its old socket's "close", which then empties the holder (`main.ts:230`).
* `GrantsExact`: about plugins no crash caught between two writes. Untrust revokes row by
  row (`trust/trust-flow.ts:144`); after a crash in between grants stay live without a
  record, and a retry answers "not trusted".
* `PasswordSettles` is about setups that came in after the account, `LimiterFair` about
  fixed windows; the findings are what happens otherwise.
* `CleanedUp` names three causes. A lost answer is a finding; a kill: the wall limit of
  30 s (`reconciler/plugin-invoker.ts:9`) is far below the cap on propagation, and a
  killed child cleans nothing up; a delete that is not carried out is not repeated.
* `ForeignSafe`: what the owner changes between the two requests of
  `plugins/dns-namecheap/src/apply.ts:51` is undone.
* `DataKept` is about the label: `ensureVolume` never relabels (`execute/ensure.ts:48`),
  so an opt-in to removal written after the volume exists has no effect.
* `VerdictExact`: a bound plugin whose manifest cannot be read is skipped silently.
* `Ipam`: the address PLAN allocated is not handed to Docker. `docker-client.ts`
  passes the range only, so the proxy may have another one
  (`execute/proxy-container.ts:72`), and an address kept from an earlier range stays.
* `GrantsExact`: a capability the upgrade removed keeps its live grant.
* `RecordedIsWhole`: trusting a recorded bundle again rewrites its directory in place, and
  an upload of the same content or another copy meanwhile can leave it short; the hash
  check at invocation refuses to run it.
* `Violations`: the own-volume test is `startsWith("wanfw_" + serviceId)`
  (`validate-plan.ts:63`), which the volumes of a service with a longer id of the same
  beginning pass.
* `SchemaCurrent`: overlapping requests may leave an older schema, and
  trust-builtins that fails half-way publishes none, until the next change.
* `ValidatedByTrust`: a plan validated before an untrust is still executed by that run.
* `SessionsEarned`: sessions survive a change of password, and a login may be verified
  against the hash of a moment ago.
* `WizardLeavesOwn`: overlapping wizards mix their answers. A repeated `init` may
  report "proxy is up" from a phase that was there before it. A request of a killed
  wizard that lands after its death is not modelled.
* `CleanedUp`: the `dns.apply` of a killed issuance goes on and may overwrite the next
  one's record. An unawaited `dns.query` that rejects ends the child like a kill.
  `setHosts` does not look at the HTTP status, so a delete that an error page answered
  counts as done (`namecheap-client.ts:152`).
* `ForeignSafe`: `getHosts` does not look at the HTTP status, so an error page
  without an `<Errors>` block is an empty zone (`MaxBlanks`). A record stands for its
  text: XML entities are not decoded and `MXPref` is not carried over
  (`namecheap-client.ts:103`). An operator's manual
  `plugin invoke` beside an issuance is not modelled.

## Not modelled

* Presentation: Caddyfiles, composed JSON Schemas and their validation of drafts,
  logs and status text, the pages and the schema form of tier1.
* Pure encoders (jws, csr, der) and the cryptography: signatures and hashes are
  injective. ACME nonces are threaded through every request by one function and are
  left out.
* Framing and permissions of the sockets.
* `uninstall`, which nothing orders against a run, and `secret unset`; `plugin_kv` and
  the journal, which the program writes and does not decide by; heartbeat, doctor and
  logger, which report.
* A torn write of a secret file: `putSecret` writes in place and `CertIssue` stores
  the key in one step.
* Migrations of documents: there is one version.
* The plugins that map a document to a document (deploy-docker, proxy-caddy) or keep
  no state (network-bridge, dns-mock), and the commands of `wanfwctl` other than
  `init`, each of which is one request that is modelled where it arrives.
* `plan approve --service` approves what the latest GATE snapshot holds when the
  request arrives (`admin-socket.ts:359`), not what the operator was shown: the
  request carries no hash, so no state of the program relates the two.
* The clock is monotone; rows of expired sessions stay, as in the code.

Docker, Namecheap and the ACME server are external and modelled by what the code
relies on: names are unique, a network in use cannot be removed, a container can
exit at any time; `setHosts` replaces the zone; an order becomes ready only when
its authorizations are valid.

## Plan

Every invariant and action property of the runs is proved, but for the half of
`ValidatedByTrust` named above. Open: lemmas about `CanonicalizePath` and `Match` on
paths without climbing elements, from which more of it would follow.
