# A verification project for the delivery orchestrator

The service in this repository moves integration content (artifacts) from a
source tenant of SAP Cloud Integration to target tenants. It asks the transport
management service (TMS) to import transport requests (TRs) and the runtime of
the tenants (CPI) to deploy what was imported, and mirrors their progress in a
database. Around that core it prepares tenants (bootstrap), compares the
versions they hold, and copies artifacts to a Git repository. This directory
holds TLA+ modules that model these parts, the TLC configurations that check
them and proofs for TLAPS.

## 1. Inventory

| Component | State it keeps | Operations | Hard behaviour | What makes it correct | Module |
|---|---|---|---|---|---|
| Life cycles (`pkg/lifecycle/consts.go`, `service/tenant_lifecycle.go`) | none; the tenant's state | `DeriveImport`, `DeriveAggregateStatus`, `TransitionLifecycle` | order of the cases | never leaves `CANCELED`; moves along the table | `Lifecycle`, `TenantLifecycle` |
| Delivery requests (`handler/delivery_request.go`, `service/approve.go`, `cancel.go`) | row `delivery_requests` | create, update, delete, request approval, approve, cancel | status is checked in one statement and written in another | only approved DRs are delivered, a cancellation stays | `Delivery` |
| Operation rows (`service/dr.go`, `db/delivery.go`) | rows `artifact_tenant_operations` | insert, update, delete | `Save` of a row read earlier | TR numbers fit the artifact | `Delivery`, `Rules` |
| TR generation (`service/tr_resolver.go`) | `request_state`, TR number | `GenerateTransportRequest`, `exportOneTR` | background exports write to rows that have moved on | as above | `Delivery` |
| Delivery (`service/deliver.go`) | rows | `BatchImportTenantOps`, `BatchDeployTenantOps`, `batchUpdateOps` | check, mark and remote call are separate; answers get lost | no deployment before the import | `Delivery` |
| Status sync (`service/sync_status.go`) | rows, `drSyncLocks` | `SyncDeliveryStatus`, `syncImportState`, `syncDeployState`, `DetermineOverallStatus` | several callers, a lock that makes the second one give up, stale snapshots saved | no duplicate row, no invented progress, the lock is released | `Delivery`, `WsHub` |
| Sync tracker (`service/sync_tracker.go`) | `running` map | `StartDRSync`, `runDRSync`, `RecoverActiveSyncs` | check-then-finish window, restart | every tracked import is brought home | `Delivery` |
| Delivery rules (`handler/delivery_rule.go`, `service/dr.go` 75-151, `service/checks.go`) | the rule | `UpsertDeliveryRule`, `SourceAndRoute`, `DeliveryRuleCheck` | cycles, several starts, odd versions | a saved rule is one chain; no downgrade | `Rules` |
| Tenant bootstrap (`service/tenant_*.go`, `tms_node_registrar.go`, `handler/cpi_tenant.go`) | tenant state, jobs, prerequisites | identity, node, routes, apply, retry, reset, update, delete | the job's goroutine outlives a reset; whole rows saved | one job at a time, ready only when complete | `Bootstrap` |
| Version compare (`service/version_compare.go`) | one snapshot per rule | trigger, collect, query, count, preview, create DR | first triggers race, a preview grows stale | one collection, no DR with versions nobody saw | `VersionCompare` |
| Git sync (`service/git_sync.go`, `pkg/github/github_client.go`) | claims, branch locks, the repository | claim, commit, tag, complete, invalidate | several instances, claims that time out | a completed snapshot pins its files | `GitSync` |
| WebSocket hub (`service/ws_hub.go`) | subscriptions, buffers | subscribe, publish, both pumps, disconnect | bounded buffers, close during publish | no send after close, nobody left with an old version | `WsHub` |
| GitHub App flow (`handler/git_app_manifest.go`, `pkg/github/manifest.go`, `handler/system.go`) | state tokens, configuration row, key | start, two redirects, settings, disconnect | redirects twice, late, out of order; remote failures | a token works once; row and key stay together | `GitApp` |
| Destinations and clients (`pkg/cf/destination.go`, `pkg/*/manager.go`, `pkg/env/remotecall.go`) | cache, clients, tokens, slots | get, upsert, delete, `Manager.Get`, `Do` | fill races invalidation, shared tokens | the cache follows, calls end | `RemoteClients` |
| Sessions, settings, history, notifications, plumbing | rows, maps | I/O | none | | not modelled (section 7) |

How they interact: HTTP handlers run on goroutines of their own and call the
service functions directly. `Approve` and `CancelDeliveryRequest` call the sync
before they return; the two delivery functions start the tracker, one goroutine
per DR, that calls the sync every 15 seconds. All of them share the database
rows, almost always without transactions, and, for the sync, the map
`drSyncLocks`. Whoever changes rows of a DR publishes an event at the hub, and
browsers answer it by loading the DR. A bootstrap, a version collection and a
Git sync are each a goroutine that a request starts after it has claimed a row;
that row is then the only thing that tells others of it. TMS, CPI, Cloud Foundry
and GitHub are asked through HTTP clients that share tokens and a cache of
destinations. After a restart only `RecoverActiveSyncs` picks work up again.

## 2. The modules

| Module | Models |
|---|---|
| `Lifecycle` | the states of package `lifecycle` and the two derivations |
| `DeliveryPromise` | the abstract delivery: approval, then imports, then reports and deployments |
| `Delivery` | one DR with its rows, requests, goroutines, sync lock, tracker, TMS and CPI; implements `DeliveryPromise` |
| `TenantLifecycle` | the abstract life cycle of a tenant: the table of allowed transitions |
| `Bootstrap` | one tenant, its jobs and their goroutines, the wizard, Cloud Foundry and the destinations; implements `TenantLifecycle` |
| `VersionCompare` | one rule, its snapshot, collectors, the three views, DRs made from a preview |
| `GitSync` | the syncs in all instances, their claims, a Git repository with branches, commits, trees and tags |
| `GitApp` | the flows, tokens, codes, configuration rows and keys |
| `RemoteClients` | destinations, their cache, the manager, tokens and slots |
| `WsHub` | connections with their goroutines, the hub, publishers, browsers |
| `Rules` | route graph, source and search; versions and the downgrade check |
| `MC...` | the small instances for TLC and the budgets of the runs |
| `DeliveryProofs`, `RulesProofs`, `WsHubProofs`, `GitAppProofs`, `RemoteClientsProofs`, `BootstrapProofs`, `VersionCompareProofs`, `GitSyncProofs` | the theorems |

Conventions. A worker is a goroutine that serves one HTTP request at a time;
goroutines that the code starts (`go ...`) are processes of their own. Every
statement that reads or writes the database and every remote call is an action
of its own, unless the code holds a transaction or a mutex over it. What users,
the environment and faults may do is bounded by `Budget`, a number for each kind
of request or fault, from a set of budgets: each initial state takes one. The
history variable `calm` says that none of the faults a property excludes has
happened; a property that uses it says which in its comment.

### Delivery

| Variable | In the code |
|---|---|
| `dr`, `ops`, `nextId` | the DR row, its operation rows (`live` is FALSE for a soft-deleted one), the id sequence |
| `lock` | the entry of `drSyncLocks` for the DR, with the goroutine that put it there |
| `running` | the entry of `SyncTracker.running` |
| `pc`, `job` | where each goroutine is; which caller `SyncDeliveryStatus` returns to |
| `snap`, `todo` | local variables: rows read earlier, and those still to be worked on |
| `seen` | local: node statuses fetched from TMS and not yet applied |
| `stat` | local: the status a goroutine has decided to write |
| `tms`, `accepted`, `released` | the queue of every TMS node, imports accepted and not started, TRs that exist |
| `runtime`, `deploys` | status of the artifact's version on each tenant, deployments accepted and not started |
| `imported`, `asked`, `deployAsked` | history, for the properties only |

- `RequestApproval`/`RequestApprovalWrite`, `Approve`/`ApproveWrite`,
  `UpdateDr`/`UpdateDrWrite`, `Cancel`/`CancelRead`/`CancelWrite`: the checks, and
  later the unconditional `UPDATE`. `UpdateDr` may give the DR another rule, and
  `UpsertDeliveryRule` may save the rule it has with another content. What a rule
  says is `SkipApprove` (whether the creator may approve) and `RuleTargets`; the row
  `dr` names its `rule`, and two histories: `basis`, the rule an approval was checked
  against, and `raced`, set when requests that write the row have overlapped or a
  rule was saved anew.
- `InsertTenantOps`, `UpdateTenantOps`(`Write`), `DeleteTenantOps`(`Write`): the
  handlers of the rows. `Save` inserts a row again that was deleted meanwhile.
- `GenMark`, `GenGate`, `ExportOneTR`, `GenWriteBack`, `GenDone`: TR generation,
  from an insert, for the source tenant, or from `HandleGenTR`, for any operations
  and any tenant (`GenTenants`); a fatal error marks every row it was asked for,
  those of other tenants too.
- `ImportPreCheck`, `batchUpdateOps`, `DetermineRead`/`DetermineWrite`,
  `ImportCall`, `ImportTrack`: `BatchImportTenantOps`; the deploy actions
  likewise. `batchUpdateOpsFails` is a statement that fails: two callers give up,
  two go on.
- `SyncTry` ... `SyncEnd`: `SyncDeliveryStatus` with the deferred calls last.
  `SyncSave` writes the row **as it was in the snapshot**, with its new state, as
  `DB.Save` does; `SyncDep` updates one column only.
- `TrackCheck`, `TrackTick`, `TrackFinish`: the loop of the tracker, with the
  window between its last look at the rows and `Finish`.
- `CrashRestart`: every goroutine, the lock and the tracker map are lost, and
  `RecoverActiveSyncs` starts the tracker if rows are in progress.

`DeliveryPromise` is what all of this is for, in six variables and without rows,
snapshots, locks or goroutines: who has approved, which TRs exist, what TMS was
asked for and has done, what the rows report as imported, what CPI was asked to
deploy. `ImplementsPromise` maps `approval` to the DR's `approvedBy` with `basis`
(an approval is a user and a rule that entitles him) and `reported` to the
artifacts and tenants of the rows that claim their import (`ClaimsImport`); the
other four are the histories and `released`.

Assumptions. There is **one instance** of the application: `drSyncLocks` and
`SyncTracker.running` are maps in the memory of a process, so `SyncTry`, `OneOpPerNode`,
`IInv` and all that rests on them speak of one process only. git_sync.go:65-69 expects
several; with two, both may sync one DR at once and insert a row twice. There is
**one DR**: the maps are keyed by DR, and users name rows of the DR they work on.
The handlers do not check the latter everywhere: deliver.go:303-310, dr.go:250 and
394 and tr_resolver.go:190 take the ids of the request and never compare them with
the id of the DR, so a request can change rows of another DR. The model does not
contain such requests. The source tenant is the DR's own (`dr.SourceTenantID`), set
when it is created; a change of the rule does not change it
(delivery_request.go:92 has a TODO about this).

Abstractions: an artifact has one version; `FATAL`, `FAILED` and
`ERROR` of TMS are one status; the runtime query and the row's update in
`syncDeployState` are one step (the update touches only the deploy state and its
condition does not depend on anything read before); insert, update and delete
take one row per request; the version check of the import pre-check may drop any
row (`Rules` has the check itself); e-mail, Jira, notifications and conditions
are left out: nothing reads them, except that a failure in `Approve` skips its
sync, which is modelled.

### Bootstrap and TenantLifecycle

`tenant` is the row of `cpi_tenants`, `jobs` those of `tenant_bootstrap_jobs`,
`step[j]` where the goroutine of job `j` is, `ctx[j]` what that goroutine was
given when it started: the space, the node and the keys of the inspection. It
never reads the tenant again, which is why it can end for an identity the tenant
no longer has. `TransitionLifecycle` is one step, because it locks the row in a
transaction; everything else is a step per statement. `Apply...` is
`ApplyBootstrap` (and `RetryBootstrap`, which calls it), `Ensure` ... `Finish` and
`Fail` are `runBootstrap`, `GiveUp` its error returns. `UpsertCpiTenant` reads the
row, `UpsertSave` later saves all columns, those of the client's copy and the
state it has read. Cloud Foundry is what exists in each space: instances, keys,
destinations. A failing remote call may have had its effect or not.
`RegisterTmsNode` is one step; in the code its check for a draft
(handler/tms_node.go:56-69) comes before the transaction that checks the
registration and writes. Only a whole row saved by `UpsertCpiTenant` could make
the tenant a draft in between.

`TenantLifecycle` is what the tenant's state promises: it moves along the table
`allowedTransitions`, or back to a state that an update handler has read and not
yet saved. `Bootstrap` implements it (`Promise == INSTANCE TenantLifecycle WITH`
`state` the state column, `held` the states in the copies of update requests).
A model in which the state only moves along the table would be refuted by
`UpsertCpiTenant`; that handler is the one writer of the column which goes around
`TransitionLifecycle`.

### VersionCompare

`row` is the snapshot of the rule, with the data it holds; `collector[c]` the
goroutine that trigger `c` has started, with the rule **as it was then** and what
it has fetched so far; `screen` the preview a user looks at; `drs` the delivery
requests created from one. A tenant's copy of an artifact has a design-time and a
runtime version. `TriggerStart` is the conditional `UPDATE` or the `CREATE` that
the unique index may refuse. Remote failures drop a tenant, or a package of a
tenant, from the data, as the collectors do. `QueryMismatches`,
`CountedMismatches` and `PreviewMismatches` are the three functions that each
decide what a mismatch is. A design-time version may be `Blank`, the empty string,
of which the three make different things (`HasVersion`). The cooldown is a flag
that a completion sets and time resets.

### GitSync

`sync[g]` is a goroutine of `TriggerGitSync` in some instance, `snapshot` the rows
by their unique key (artifact, version, tenant), `locks` the branch mutexes of
each instance. GitHub is `commits` (each with its repository and tree), the tip of
every tenant's branch and `tags`. `UpdateRef` succeeds only on a fast forward;
`CreateTag` only if the tag does not exist. A claim that is older than
`snapshotPendingTimeout` may be taken over while its owner still runs
(`PendingTimeout`), so the fault model has slow owners as well as dead ones. The
files of a version are a set; a tree maps paths to the version they come from, and
since `.cpi-sync.yaml` has the time of the sync, an attempt that changes no other file
may still make a commit (`UpdateRef`). Any call of GitHub may be answered too late or
never, after it had its effect or without one: `RemoteFails` ends the sync, `CallHangs`
leaves its goroutine where it is, with the mutex if it holds it. The latter is
possible because the client has no timeout (github_client.go:74-104) and the context
comes from `context.WithoutCancel` (dr.go:359); the calls of CPI have timeouts.

### GitApp

App and installation `i` are those of flow `i`; `config` holds the configuration
rows by id. Every request first reads the first row and later saves all its
columns or creates one (`CreateOrSave`), with nothing in between that would stop
another. `Consume` takes the state token out of the store under its mutex; the
code that GitHub hands out works once. Left out: `UpsertGitRepoConfig` creates the row
from the request as it is (system.go:193-201), so a client that sends an id or an App
id with a personal access token has them stored; the model's client does not.

### RemoteClients

A destination is told apart by its version, which also stands for its
credentials. `ReadCache`, `Fetch`, `Fill` are `GetDestination`; `Write` and
`Invalidate` are `UpsertDestination`. `Lookup`, `Lock`, `MadeMeanwhile`, `Build`
are the double-checked `Manager.Get`. `TakeSlot`, `NeedsToken`, `FetchToken`,
`Store`, `Send`, `RateLimited`, `Return` are `Do` with its retry after a 401 and
its bounded retries after a 429. The environment ends tokens early, rotates
credentials, edits destinations elsewhere and loses answers.

### WsHub

The operations that take the hub's lock for writing are single steps; a publisher
holds it for reading over several steps, `PublishTo` once per watcher, and drops
the event if the buffer is full. `Unregister` and `CloseSend` are the two halves
of `Disconnect`: the channel is closed after the lock is released. `Stop` ends the
writer when a ping fails or the channel is closed and empty. A browser loads the
DR when it subscribes and on every event.

### Rules

`FindSource`, `Visit` and `CheckConnectivity` are `SourceAndRoute`, one node of
the queue per step; tenants without a TMS node have node 0 (`NoNode`). A version
is a sequence of segments, a segment a number or a text, `Parsed` is
`parseCPIVersion`. The node of a tenant is the one the request names: the handler
takes `TmsSourceNodeID` from the client's JSON and does not read it from the
tenant's row (delivery_rule.go:47 and 74, dr.go:99), so `SavedIsChain` is a
statement about these nodes. Refusals for other reasons (an empty name, a bad
pattern, a name that exists, a failing call of TMS or statement:
delivery_rule.go:51-63 and 81-101) store nothing and are left out, and so is a
tenant that `CheckTenant` refuses because CPI does not answer: both only make
fewer rules and operations. There is one operation for each version and tenant:
inserting it again while its import is under way puts it back to *queued*
(`StoreOp`), where the code would make a second row. `InsertTenantOps`,
`CheckTenant`, `RefuseOp`, `StoreOp` are the loop over the rule's tenants;
`PreCheck` is the second check, before an import; `TmsImports` and `DesignerEdits`
change tenants meanwhile.

## 3. Properties, runs and bounds

Deadlock is not checked: when its budget is spent and all goroutines have
returned, each of the systems rightly stops. `Deploy` and `Edit` use symmetry of
the workers, which no definition tells apart; the other passing runs check
liveness and use none. Every property fails when a plausible bug is put into the
code it is about (the `mutants` of `PROJECT.json`; the mutated definitions stand
beside the true ones and are marked "Faulty").

| Run | Instance | Properties |
|---|---|---|
| `Deploy` | source and one target, one import, two deploy requests, a failing call, another delivery's newer version | `ProgressIsReal`, `ImplementsPromise` |
| `Edit` | two artifacts and three TRs (one of the second artifact; one still to be created), two rules of which one lets the creator approve, two workers; six budgets: rows edited, resolved and synced; generations in two requests; a DR submitted, approved, changed and imported; one canceled and deleted around an import; a rule saved anew between two approvals; a crash and a failing statement | `IInv`, `TrCarriesArtifact`, `DeliveredOnlyApproved` |
| `Live` | two hops, one worker and the tracker; cancellation, crash and failing call; a sync by a user with imports and resets in TMS; two imports | `OneOpPerNode`, `SyncLockReleased`, `TrackedImportSettles` |
| `Bootstrap` | two spaces, one node, two requests at a time, two jobs; six budgets | `Inv`, `OneHolder`, `ReadyIsEarned`, `ImplementsLifecycle`, `ReadyingEnds` |
| `VersionCompare` | two tenants, two artifacts, two versions and drafts and versions without a name, three triggers, two DRs; five budgets | `Inv`, `DeliversWhatWasShown`, `ViewsAgree`, `FinishedStays`, `CollectionEnds` |
| `GitSync` | two instances, three syncs, two artifacts, two versions (the second has lost a file), two repositories, two attempts; seven budgets, two of them with a call that hangs | `Inv`, `CompletedIsPinned`, `NothingLost`, `SyncsEnd` |
| `GitApp` | two flows, two requests at a time, three rows; five budgets | `Inv`, `SingleRow`, `KeyHeld`, `DisconnectUnbinds` |
| `RemoteClients` | one destination, two goroutines, one slot, one retry, four versions, eight tokens; six budgets | `Inv`, `CacheFollows`, `NoLost401`, `OneClient`, `CallsEnd` |
| `WsHub` | two connections, two DRs, two publishers, a buffer of one event; three budgets | `Inv`, `NoUpdateLost`, `WatcherIsTold`, `ConnectionsEnd` |
| `Rules` | all 64 route graphs on three nodes, a shared node, tenants without a node; seven versions (short, long, numeric, text) for two inserts and an edit | `Inv`, `SavedIsChain`, `RefusedIsNoChain`, `DowngradeOnlyByRace`, `UpsertEnds` |

What the properties say. In `Delivery`:

- `OneOpPerNode`: of the rows the sync makes (their request state is empty, which
  no other path writes) no two stand for the same TR at the same node. Two
  syncs that overlap, a save of a deleted row and a restart are the dangers.
- `ProgressIsReal`: a row that says *imported* or whose deployment is open stands
  for an artifact that TMS has imported on that tenant, by whichever TR. Stale
  saves can take a row back, but never forward.
- `ImplementsPromise`: the refinement. TMS is asked to import only TRs that exist,
  after an entitled user has approved; whatever the rows report as imported has
  arrived on its tenant; CPI is asked to deploy only what has; and none of it is
  taken back but a report, by a stale save, and an approval by another one.
- `DeliveredOnlyApproved`: no import state moves and no goroutine delivers before
  somebody has approved whom the rule he was checked against (`basis`) entitles.
  The rule the DR has *now* entitles him too, unless requests that write the row
  have overlapped or the rule was saved anew (`raced`). Without these exceptions the
  second half is false in the code, see below.
- `TrCarriesArtifact`: a TR number in a row is that of an existing TR that carries
  the row's artifact, whichever of edit, generation and sync wrote last.
- `SyncLockReleased`: whichever way `SyncDeliveryStatus` returns, the lock goes.
- `TrackedImportSettles`: as long as the tracker has not decided to stop, the
  outcome of every import reaches its row.

In the other modules (`Inv` is each module's type invariant with one more part):

- `Bootstrap.Inv` (`NamesResolve`): the row names the provider destinations only
  when both exist; runtime calls resolve them by these names. `OneHolder`: a
  tenant is readying exactly while one request or goroutine holds it, and jobs
  that say running are those with a goroutine. `ReadyIsEarned`: whatever is reset,
  restarted, saved over or late, a tenant is ready only if everything a bootstrap
  makes exists in one space and both provider destinations were written
  (consts.go:111-114 asks for a registered TMS node as well; only the inspection
  before the job looks at it, the wizard may register another node meanwhile, and the
  property leaves it out).
  `ReadyingEnds`: a bootstrap ends. `ImplementsLifecycle`: the refinement.
- `VersionCompare.Inv` (`OneCollection`): one collection at a time, and the row
  says so. `FinishedStays`: only a new trigger takes a finished snapshot away,
  although the last `UPDATE` of a collection names only the rule.
  `DeliversWhatWasShown`: a DR carries the versions of the preview it was made
  made from, and neither drafts nor versions without a name. `ViewsAgree`: what the
  cards count the list shows; what the list shows for design-time versions the
  preview offers, if the source names a version; and beyond the list the preview
  offers only what a compared tenant lacks.
- `GitSync.Inv` (`OneOwner`): a pending row has one owner. `CompletedIsPinned`: in
  the tagged commit of a completed snapshot every file of the version is the
  version's, also if two owners worked on it. `NothingLost`: no update of a branch
  drops a path of another artifact. `SyncsEnd`: every sync ends, but one whose call of
  GitHub hangs and those that wait for the mutex it holds (`Stuck`); in particular no
  sync of another branch or in another instance is stopped by it.
- `GitApp.Inv` (`TokenOnce`): one request goes on with a state token, and a key is
  stored only after its code was used. `SingleRow`, `KeyHeld`: one configuration,
  and its App's key is stored. `DisconnectUnbinds`: the row goes, whatever GitHub
  and the destination service answer.
- `RemoteClients.Inv` (`Guarded`): lock and slots have their holders.
  `CacheFollows`: the cache holds what the service has, with three named
  exceptions. `NoLost401`: sharing a token loses nobody a request. `OneClient`: a
  client and its token are not replaced. `CallsEnd`: nothing is kept.
- `WsHub.Inv`: nobody sends on a closed channel (which would end the process), and
  the hub keeps no connection that is gone. `NoUpdateLost`, `WatcherIsTold`:
  dropping an event when the buffer is full costs a browser that watches one DR
  nothing, because an event is still coming. `ConnectionsEnd`: both pumps end.
- `Rules.Inv` (`SearchInv`): the search is sound so far. `SavedIsChain`,
  `RefusedIsNoChain`: a saved rule is a chain from its source, and a refused one
  is none from any tenant, although only the first possible start is tried.
  `DowngradeOnlyByRace`: an import replaces a version by an older one (by the
  usual order, defined independently of the comparison) only if the tenant has
  changed since the check. `UpsertEnds`: cycles do not stop the search.

Why the bounds are enough. Two workers and the processes the code starts are the
parties of every check-then-write window; three triggers or syncs make one that
races, one that is refused or taken over, and one that follows. Two hops give a
row whose TR is created by the first sync and copied by the second. One crash can
hit between any two steps, and one failing call or statement can be any of them;
what needs two faults is given two (a takeover after a crash, two remote
failures while disconnecting). A buffer of one event makes every second publish
meet a full one. Two attempts of a commit make one conflict and one that follows.
Two versions, of which the newer has one file less, tell apart a tree that is
merged from one that is replaced. Two rules that differ in `SkipApprove` are what an
approval can tell apart; one call that hangs, with and without a claim that times
out, meets every place of a sync. The versions of `Rules` are every shape the
parser tells apart: with and without a qualifier, short, textual in the last, a
middle or the first segment.

### Sentences of the code that do not hold

Two runs refute a sentence of the code; each is a finding of `PROJECT.json`.

| Run | Sentence | Counterexample in short |
|---|---|---|
| `CancelPermanent` | cancel.go:22 "Cancellation is permanent" | `Approve` has checked the status, the DR is canceled, the `UPDATE` of `Approve` follows |
| `LostWakeup` | sync_tracker.go:97 "until there are no more active ... operations" | an import starts between the tracker's last look and its `Finish` (checked under `FairSpec`) |

Further observations made while modelling, contained in the models but not run
against a property of their own:

- delivery_request.go:97 writes back the status `UpdateDr` has read, with another
  rule. `UpdateDr` reads PENDING; the creator approves, under a rule that lets him;
  `UpdateDr` writes PENDING and a rule that does not; `approvedBy` stays, which is all
  `preDeliverCheck` asks, and the DR is delivered with its creator as the approver.
  The same follows without a race when `UpsertDeliveryRule` changes the rule after
  the approval. These are the exceptions in `DeliveredOnlyApproved`.
- version_compare.go:949 and 1099 pass over an artifact whose design-time version in
  the source is empty; the query at 505-513 does not: the list shows a mismatch from
  which the preview makes no operation.
- github_client.go:74-104: the client has no timeout, the context is detached from the
  request (dr.go:359) and git_sync.go:176 holds the branch mutex across the calls. One
  call that GitHub never answers stops every later sync of that tenant in that
  instance until it is restarted; after three minutes its claim may be taken over,
  and the next sync waits for the mutex in turn.
- sync_status.go:412 "never downgrade InProgress": a sync reads a row, an import
  marks it, and the sync's `Save` writes the row as it was.
- sync_status.go:413 "import was triggered": after a crash between the mark
  (deliver.go:81) and the call, it was not.
- deliver.go:42 "only queued(INITIAL), Failed ...": two requests can both check,
  and then both mark and call.
- sync_tracker.go:13 "until the DR reaches a terminal state": the sync refuses a
  canceled DR, a row in progress stays so, and the tracker polls on.
- consts.go:188 "REPEAT means TR was reset and may be imported again": the guard
  against downgrades ignores it for a row in progress.
- consts.go:144 "JobFailed is a terminal failure state": after a reset, the late
  goroutine of the job may write its success over it.
- handler/bootstrap.go:113 says a retry "continues from the step where the
  previous job failed"; the handler calls `ApplyBootstrap`, which starts over (its
  steps are repeatable, so nothing is lost).
- handler/cpi_tenant.go:24 says a change of the identity "resets LifecycleState to
  DRAFT"; the handler refuses such a request, and `SaveCfIdentity` is the way.
- version_compare.go:1125 "don't create an empty DR": when `InsertTenantOps`
  refuses every operation, the DR has been created already.
- After a failed collection the cooldown does not apply, and it is read before
  the row is claimed: two collections may follow each other closely.
- A file that a version no longer has stays in the branch of the tenant, and so
  in the commit of its snapshot (db/git_sync.go:54 calls that pointer
  authoritative): `CompletedIsPinned` speaks of the version's files only.
- The setup redirect attaches its installation to whichever row there is, also to
  one that was switched to a personal access token meanwhile; a second App keeps
  the first one's installation until its own redirect comes.
- `NewClient` does not expect a destination that does not exist; the modelled
  outcome is a panic of that request.
- Events of another DR can fill the buffer of a connection and displace the last
  event of the one a browser shows.
- Some paths change rows and do not tell the hub: `DeleteTenantOps` and
  `UpdateTenantOps` after a partial failure (dr.go:430-435), `BatchImportTenantOps` and
  `BatchDeployTenantOps` when `batchUpdateOps` fails (deliver.go:81-84, 198-201),
  `DeleteDr` (delivery_request.go:202-214), and `RequestApproval` when the insert of its
  condition fails (approve.go:65-67) or the DR was waiting already. In `WsHub` every
  change is followed by a notification (`Change`), so `NoUpdateLost` and `WatcherIsTold`
  speak of the paths that notify.

## 4. Fairness

- `Delivery`: weak fairness of every goroutine's next step (the Go scheduler and
  clients with timeouts: those of consts.go:110-112 end every call of TMS, CPI, CAS and
  the destination service), of the
  tracker's loop (the ticker fires) and of TMS working off what it accepted, which
  the code relies on without a deadline. CPI needs none.
- `Bootstrap`, `VersionCompare`, `GitSync`, `GitApp`, `RemoteClients`: weak fairness of
  each goroutine's next step, for the same reasons, with one difference: a call of
  GitHub in a Git sync has no timeout. There it may hang (`CallHangs`, to which no
  fairness applies), and a goroutine that hangs has no next step. The client of a
  disconnect is bounded by the context of its request. A goroutine that waits for a
  mutex or a slot is not enabled; that weak fairness suffices shows that nobody
  waits for ever within the bounds.
- `WsHub`: of the reader when it has something to read or the socket has failed, of
  each step of the writer, and of publishers. A write need not succeed; a ping
  must only fail when the socket is down.
- `Rules`: of `SourceAndRoute`, a loop in one goroutine.

No request is fair: users may do nothing, browsers may never come back, and no
environment step except TMS's own work is assumed to happen.

## 5. Proofs

For every value of the constants that satisfies the modules' named assumptions
(the constants have their types; the markers for "none" are not members of the
sets they complete):

| Theorem | Statement |
|---|---|
| `DeliveryProofs.TypeCorrect` | `Spec => []TypeOK` |
| `DeliveryProofs.Inductive` | `Spec => []IInv` |
| `DeliveryProofs.NoDuplicates` | `Spec => []OneOpPerNode` |
| `DeliveryProofs.SyncExclusion` | at most one goroutine is in `SyncDeliveryStatus` |
| `DeliveryProofs.TrFits` | `Spec => []TrCarriesArtifact` |
| `DeliveryProofs.ProgressReal` | `Spec => []ProgressIsReal` |
| `DeliveryProofs.DeploysImported` | `Spec => []DeployOnlyImported` |
| `DeliveryProofs.ApprovedFirst` | `Spec => []DeliveredOnlyApproved` |
| `DeliveryProofs.IdsStable` | an id stands for one artifact on one tenant, in every copy of its row |
| `DeliveryProofs.ApprovalPermanent` | no step blanks an approval, an action property |
| `DeliveryProofs.Refinement` | `Spec => ImplementsPromise`, the refinement |
| `RulesProofs.SearchIsSound` | `Spec => []Inv` |
| `RulesProofs.SavedRules` | `Spec => []SavedIsChain` |
| `RulesProofs.RefusedRules` | `Spec => []RefusedIsNoChain` |
| `RulesProofs.NoDowngradeWithoutRace` | `Spec => DowngradeOnlyByRace`, an action property |
| `RulesProofs.ComparesBothWays` | `compareCPIVersion` is antisymmetric, for all versions |
| `RulesProofs.LessIsOlder` | for versions of numbers and one shape, less is older in the usual order |
| `RulesProofs.NoDowngradeInSteps` | for those, two imports that pass the check are no downgrade together |
| `WsHubProofs.HubIsSafe` | `Spec => []Inv` |
| `WsHubProofs.NothingLost` | `Spec => []NoUpdateLost` |
| `GitAppProofs.TokensWorkOnce` | `Spec => []Inv` |
| `GitAppProofs.OneRow` | `Spec => []SingleRow` |
| `GitAppProofs.KeyStored` | `Spec => []KeyHeld` |
| `RemoteClientsProofs.LockAndSlots` | `Spec => []Inv` |
| `RemoteClientsProofs.CacheIsCurrent` | `Spec => []CacheFollows` |
| `RemoteClientsProofs.TokensServe` | `Spec => []NoLost401` |
| `RemoteClientsProofs.ClientsAreMadeOnce` | `Spec => OneClient`, an action property |
| `BootstrapProofs.NamesAlwaysResolve` | `Spec => []Inv` |
| `BootstrapProofs.OneHolderAtATime` | `Spec => []OneHolder` |
| `BootstrapProofs.ReadyMeansDone` | `Spec => []ReadyIsEarned` |
| `BootstrapProofs.Refinement` | `Spec => ImplementsLifecycle`, the refinement |
| `VersionCompareProofs.OneAtATime` | `Spec => []Inv` |
| `VersionCompareProofs.NoLateWrite` | `Spec => FinishedStays`, an action property |
| `VersionCompareProofs.ShownIsDelivered` | `Spec => []DeliversWhatWasShown` |
| `VersionCompareProofs.ViewsNest` | `Spec => []ViewsAgree` |
| `GitSyncProofs.RowsAreClaimedOnce` | `Spec => []Inv` |
| `GitSyncProofs.SnapshotsArePinned` | `Spec => []CompletedIsPinned` |
| `GitSyncProofs.FilesAreKept` | `Spec => NothingLost`, an action property |

**Delivery.** `OneOpPerNode` is not inductive: `SyncSave` decides from its snapshot
whether to insert a row, and writes whole stale rows. `IInv` therefore speaks of
every copy of a row, stored or in a goroutine's memory (`Tables`). Its first part is
`KeyInv`:

- `SyncLocked`: a goroutine in the sync holds the lock, so at most one inserts.
- `CopiesAgree`: copies of a row made by the sync agree on its TR and tenant, so a
  stale save moves no row to another node.
- `FreshIds`: no copy has an id the database has not given out, so an insert
  never meets a stale copy.
- `UpdateHeld`: `UpdateTenantOps` never saves a row made by the sync: it admits only
  rows in state `NOT_REQUESTED`.
- `BatchHeld`, `ImportHasTR`: what a delivery marks are rows it holds.
- `SnapCovers`: what a running sync holds has no duplicates and covers every row
  made by a sync, except those whose node it has already done.

The argument, in the order of the module: types (one lemma per group of actions);
then the lemmas named `...Moves`, that every step writes only copies of rows that
were there before, or a fresh one; `...Placed`, that rows of the sync enter the
table in `SyncSave` only; `SyncSaveInv` for that step; and `QuietInv` for all others.

`ProgressIsReal` and `TrCarriesArtifact` are not inductive for the same reason: a
stale copy may be saved at any time, so what they say of stored rows must hold of
every copy (`CopiesSound`). `RowInv` adds what keeps it so: an id stands for one
artifact on one tenant in all copies, although deleted rows are saved again
(`IdsStand`); an answer of TMS that somebody holds and has not applied is about a
past import (`AnswersReal`); and a deployment works on rows it has itself found
imported (`DeployOpen`). All of these facts only ever grow truer: TRs are not
unmade and imports not undone, which is why staleness costs progress and never
invents any. `ApprovalInv` is the same idea for the approval: until there is one,
no copy of a row has a started import and nobody is at a place of the code behind
the check; and whoever approved is one of those the rule lets approve that he was
checked against. For the rule of the present it needs `RuleStands`: as long as no
two requests that write the row have overlapped, an approval goes with a status
that `UpdateDr` refuses, and an approval about to be written was checked against
the rule the row still has. `DerivedIsClosed` is what keeps the first of these: no
status that is derived from the rows is one that `UpdateDr` admits. `asked` counts
only what the program asks TMS for: an import that a user starts in TMS itself
(`TmsImport`) needs no approval, and the theorem says so by leaving it out.

The refinement sorts the steps into five kinds, one lemma each: an approval, an
export, the call to TMS, the call to CPI, and TMS's own work; all other steps are a
`Report` or a stutter, because they ask nobody for anything, and `CopiesSound` in the
next state says that what the rows then report has arrived.

**Rules.** Reachability is stated without paths: a node is led to from `a` if it is
in every set of nodes that contains `a` and is closed under the routes (`Leads`).
So neither induction nor recursion is needed: the nodes found and visited are
closed up to the queue, which is what `SearchInv` says, and when the queue is
empty the set found is itself one of those closed sets. That a refused rule is no
chain from any other tenant (`NotConnected`) follows because no route leads to the
start that was tried: without it the remaining nodes are a closed set.

`DowngradeOnlyByRace` rests on `ClearedFits`: what is cleared for import has passed
the check against the version the tenant has now; a change of the tenant is what
breaks it, and the property allows for that. What the check means is proved of the
operators alone, for every version: the comparison is antisymmetric, and for
versions whose segments are numbers and that have a fourth one both or neither it
is the usual order (`LessIsOlder`), so that no chain of imports ends below where it
began (`NoDowngradeInSteps`). With mixed shapes it is no order: 1.1.0 passes for
1.1.0.2 and 1.1.0.1 passes for 1.1.0, so two imports, each of which passes, replace
1.1.0.2 by 1.1.0.1. The proofs need a version to be a sequence of numbers and texts,
which `RulesAssumption` says.

**WsHub.** `NoSendOnClosed` is not inductive: it needs that whoever a publisher has
still to send to is registered (`TodoRegistered`), because the publisher holds the
hub's lock for reading and nobody unregisters meanwhile; that a channel is closed
only after its connection was unregistered (`ClosedIsGone`); and where a publisher
is in its work (`AtWork`). `NoUpdateLost` needs `Told`: browser and hub agree on what is
watched (`WatchersAgree`), events on their way to a connection are about DRs it has
watched at some time (`OnlyWatched`), and the snapshot of a sync is not ahead of the
rows (`SyncsLookBack`). Then a full buffer of a browser that has only ever watched one
DR holds an event of that DR, and dropping another one loses nothing: the browser
fetches the row when it gets the one before.

**GitApp.** `TokenOnce` needs to know what a request in the flow has behind it
(`AtWork`): it took its state token, which nobody else can take again, before it
redeems the code, and it has redeemed the code of its own App before it stores
that App's key. `SingleRow` and `KeyHeld` hold while requests do not overlap; `CalmInv`
says what that gives: at most one request is under way and one row live, what this
request has read is what is stored (`Relies`), and the key is there unless this very
request is disconnecting the App (`Bound`).

**RemoteClients.** `IInv` says for each place of a goroutine what it holds: whoever
makes a client has the manager's lock, whoever sends has a slot of its client, and
the slots of a client are counted as a set of goroutines. `Owns` adds that whoever
makes a client has seen under the lock that there is none, and that whoever sends
has one; with it a client is created only where there is none, which is `OneClient`.
`Good` is the invariant of the tokens: as long as `calm` holds, every token that is
stored and not due, about to be stored, or being sent is one that the service
accepts, so a late store replaces a good token by a good one. `Names` is not empty
and `MaxVersion` at least 1 because a request names a destination and a destination
starts with version 1. `FollowInv` strengthens `CacheFollows` by the reader that has its
answer and has not cached it: as long as nobody writes in this window, the answer is
what the service still has.

**Bootstrap.** `NamesResolve` needs what a job at a late step has written (`StepOK`),
and that a copy of the row which an update handler will save is as good as the row
it was read from: destinations are never removed, so what was true of them when the
row was read still is. `ReadyInv` strengthens `ReadyIsEarned` in the same way: each
job has the work of the steps behind it done in its own space (`Done`), whatever other
jobs, resets and late goroutines do, since nothing that was created goes away
(`Grown`); a copy that says ready was read from a row that had earned it.
`HoldInv` unfolds `OneHolder`: requests between claim and end, and jobs between their
start and their last statement, exclude each other, and each hand-over from request
to goroutine passes the tenant on in one step.
The refinement maps `state` to the row's state and `held` to the states of the
copies that update handlers are about to save. `Abstractly` lists the four ways in
which a step can be one of the life cycle's, and one lemma per group of actions
shows which it is; that a step keeps the types is all it needs of the invariant.

**VersionCompare.** Every step of a collector either goes on and leaves the row
alone (`Goes`), or ends the collector and finishes the row, or remembers that the
last statement failed (`Ends`). So `OneCollection` is inductive together with the
types, which say that a collector holds data of the tenants of its rule only. A
finished row is one no collector runs for, which gives `FinishedStays`. `ShownInv`
strengthens `DeliversWhatWasShown`: a snapshot has the number of a collection that
has ended, so a preview with that number was made of those data, and what a
request is about to insert agrees with the preview it was made from. `ViewsAgree`
is a fact about the three filters, given that a stored snapshot has versions of
its source and of the tenants compared with it only, and the source is not
compared with itself (`Scoped`).

**GitSync.** Commits are only appended, branches never go back to none and tags
never move (`Extends`), so what a goroutine has behind it (`Good`: a branch that
exists, a tip of its repository, a commit that `Pins` the files of its version, a
tag) stays true whatever others do. A step of a goroutine is one of three moves
for its mutex (`LockMove`: kept, taken, released) and one of four for its row
(`OwnerMove`: left alone, claimed, finished, or a statement failed), and two
lemmas show once that these keep `LocksOK` and `OwnersOK`; what GitHub may have
done for a call without an answer (`Effect`) is one of the things it does for a
call with one. `CompletedIsPinned` holds because a row is completed with the
commit of its tag, and every tag in the repository pins the version in its name;
`NothingLost` because the update of a branch is a fast forward from the tip whose
tree the new one contains. `Repos` is not empty because the run starts configured.

**Only model-checked**: the liveness properties `SyncLockReleased`,
`TrackedImportSettles`, `ReadyingEnds`, `CollectionEnds`, `SyncsEnd`,
`DisconnectUnbinds`, `CallsEnd`, `WatcherIsTold`, `ConnectionsEnd` and
`UpsertEnds`: liveness and `ENABLED` are beyond the prover. Every invariant and
every action property of a passing run, and both refinements, are proved.

## 6. What could follow

A model of several DRs that deliver one artifact, in place of the environment steps
`CpiSuperseded` and `TmsImport`, which now stand for the other DRs. Abstract
specifications of the Git sync (a version is published or it is not) and of the
version compare, with their refinements.

## 7. Not modelled

- Sessions and OAuth state (`pkg/auth`): two maps with expiry, each under one
  mutex, every method one critical section; there is no interleaving to explore.
- System settings other than the Git configuration, CF discovery, tenant and
  artifact queries, the operations history: single rows read and written whole,
  or nothing written.
- `downstreamfromSource` and `GenRouteForRule`: the same search as `SourceAndRoute`,
  for the display.
- `AdhocVersionCompare`: the collection without a row.
- Notifications (Jira, alert service, e-mail): best effort, nothing depends on them.
- Process start, routing, configuration, telemetry; encodings and paging of the
  remote clients.
