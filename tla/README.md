# Models and proofs of aio-platform

aio-platform hosts plugins for many tenants: WebAssembly components, containers and
native plugins in a Rust host that keeps its state in PostgreSQL, is fed by a build
queue, and is itself replaced by a small launcher. This directory models the parts
where several processes, several stores and failures meet, checks them with TLC and
proves what matters most with TLAPS.

Paths below are relative to the repository's root. `RT` is
`lib/plugin/runtime/src`, `SV` is `lib/plugin/host/src/runtime/server`, `L` is
`lib/plugin/launcher/src`.

## 1. The system

| component | state | operations | what is hard about it | what makes it correct |
|---|---|---|---|---|
| persistent slot `RT/registry/slot.rs` with `RT/postgres_releases.rs` | per host the active instance, an update mutex, a read/write lock; in the database one row (revision, generation) per source and tenant and its history | activate, restore, snapshot, handle, deactivate, unload, invalidate | lock order across hosts, what was read before a wait, lost commit answers, cancellation, failing guests | requests execute the committed revision; compare-and-set of releases; complete history; migrations only grow; nothing waits for ever |
| component installation `SV/components` | the catalog's installation record, the release record, applied migrations; per host `active` routes and the slot | install, enable, upgrade, rollback, disable, uninstall, startup restore, request | three stores without a common transaction, compensation that fails, dropped handlers, restarts | the stores agree at rest; nothing disabled is served; the schema is never behind; a restart repairs |
| process executor `SV/components/process`, `executors/sidecar.rs` | per host the listed and the owned instances and their gateways; the containers, which outlive the host | install, remove, validate, restore, reconcile, shutdown | the supervisor is another process that may act after the host has given a call up; activating stops what serves before | one connected container per tenant; nothing runs that nobody stops; what serves is what is enabled |
| native plugins `SV/plugins` | the generation, per instance its hooks and tasks, the permits of requests | initialize, change, recover, shutdown, admit, spawn | requests and jobs while plugins are replaced, hooks that fail in a candidate, in its cleanup and in the recovery, callers that give up | no two instances of one plugin overlap; dependencies outlive their users; whatever was entered is stopped; the host ends whole or down |
| build queue and workers `SV/delivery`, `delivery/src` | per repository the wanted commit with its generation; per commit a job with its lease; archives kept by workers | discover, list, claim, upload, complete, report, defer, expire, clean up | several hosts watch the same repository; leases run out under workers; requests are served after they were given up | one builder; observations apply in order; a job completes with what its holder uploaded |
| publication and rollout `SV/delivery/components.rs`, `SV/components/delivery.rs`, `SV/publisher_store.rs` | publications, publication requests, rollout rows, the installations of all tenants | publish, activate, mark failed, sweep, offer, upgrade, install, disable, roll back | the target moves while a build is published; failures reported late; tenants decide in between | the active job is the published one; nothing is stranded; what a tenant chose is not overwritten |
| component catalog `SV/component_catalog` | versions, publications, installations, rollouts | publish, install, remove, rollouts | selection against commit | no choice is overwritten |
| launcher `L` | the link `current`, the journal `switch.json`, the running process | activate, repair, boot (settle) | two processes without a lock, a restart that kills its caller, crashes between two files | an ended switch leaves link, record and host agreeing; in-flight switches are left alone; orphans end |
| schema binding `RT/persistence` | roles, schema, applied migrations | install | partially applied upgrades | migrations are a prefix chain |
| scoped database and invocation state `RT/database.rs`, `state.rs` | transaction handles, quotas | query, execute, commit, rollback, cleanup | cancellation at every wait | a handle whose outcome is unknown is dead |
| configuration recovery `lib/plugin/host/src/recovery` | the record, the lock, the configuration file | begin, confirm, reject, restore, stage | crash between two files | an unfinished attempt is never retried by itself |
| legacy installation, enhancements, capabilities, remote access, frontends, management, tools, formats | see `PROJECT.json` | | | |

How they interact. A discoverer on every host turns the head of a repository into
the wanted commit of its source; a job per wanted commit waits for a worker, which
polls over HTTP, holds the job by a lease and uploads an archive. A publisher on
every host takes uploaded jobs, checks them and publishes; for packages it queues a
publication task instead. The rollout task then calls `upgrade` for every tenant
that follows. `upgrade` and the management handlers (`SV/routes.rs`,
`SV/installation.rs`) call `Components::install` and `change` under one mutex per
host. An installation drives an executor: the Wasm one binds the schema and
activates the persistent slot, the process one starts a container through the
supervisor. Then it commits to the catalog and rebinds its routes. Requests are
authorised against the catalog and the routes and handed to the executor, which
reloads an empty slot from the release record. All of this is made of native
plugins, which the host composes into a generation and may exchange while requests
run. Several hosts share the database and nothing else. The launcher sees none of
it: it starts the host process and asks its health address.

## 2. Modules

| module | models | state and actions |
|---|---|---|
| `ReleaseRegister` | the contract in `RT/component_releases.rs`, for every host and any backend | revision, generation, offers and running requests; Offer, Publish, Withdraw, Begin, Forget |
| `PersistentSlot` | `slot.rs` over `postgres_releases.rs`, with what they take from `release.rs` and `engine.rs` | one task per call; its program counter stands at the wait it is in. A lock is held exactly at the program points of its guard's scope (`HoldsUpdates`, `HoldsWrite`, `HoldsRead`, `HoldsLease`, `HoldsAdvisory`, `HoldsRow`). `Drop` is an error or a cancellation at any wait, `Crash` takes a host. The commit and its answer are two steps |
| `ComponentInstall` | `installation.rs`, `dispatch.rs`, `delivery.rs`, `executors/wasm.rs`, `resources.rs`, the installation part of `component_catalog/postgres.rs`, `persistence/binding.rs` | per host one job under the mutations mutex, stepped at every database or slot call; per request authorise, ensure slot, bind, reload, handle, run, unload, retry. Slot operations are one step: `PersistentSlot` has their inside. `setting` fixes at the start which host receives which request, which actions each host takes, the migrations and the failures: the constant `Settings` lists the cases |
| `ComponentProcess` | `executors/sidecar.rs`, `components/process` and the supervisor's part of it | per data space and digest the `container`, with the configuration it was started under, and its `gateway` (broker and forwarder); `listed` and `owned` are the maps of `instance.rs`, `enabled` the catalog. One `task` under the mutations lock: Install, Remove, Validate or BootTenant begins, then Unlist, Restore, Prepare, Configure, Start, Healthy or Unhealthy, CleanUp, Commit, each one wait. Reconcile, Shutdown and Release are the host's. Refuse, Unanswered (the call was served, the host does not know), Sicken, Cancel, Exit, Crash, ReconcileFails and ReleaseFails are the failures |
| `RuntimeHost` | what `RuntimeHost` of `live.rs` is to whoever operates and calls it | the phase of the host, what it serves, what a change wants and affects, which instances are up, have been told to end and are busy, who is inside; Admit, Leave, BeginWork, EndWork, StartInstance, StopInstance, GiveUp, Serve, Ask, Refuse, Commit, Adopt, Restore, GoDown, Down. No generations, hooks, locks or order of a start |
| `LiveGenerations` | `live.rs`, `lifecycle.rs`, `composition.rs`, `admission.rs`, `tasks.rs` | per generation which instance serves each plugin and who was entered and retired; per instance its stage, cancelled tasks and running job. `op` is the holder of the operation lock: StopStep (AwaitRequests, Drain, BeginRelease, Release, Released), StartStep (Enter, Initialized, Resolve, Launch, Launched, MakeReady, Started, Publish, StartFails, Interrupted), Call (BeginChange, Refuse, Commit, Shutdown, Abandon). Requests are admitted, answered and streamed; Work is what the plugins run in the background |
| `DeliveryQueue` | `SV/delivery` (discovery, queue, jobs, archives) and the worker loop in `delivery/src` | the repository's `head`; the `source` row with its generation; per discoverer what it has read; the `job` rows and their leases; per worker its step, the archive on its `disk`, and the requests it has given up that are still on the way (`late`). Push; Read, List, Decide, ReadListed, Update, GiveUp; Claim, ClaimLost, Build, BuildFails, Abandon, Upload, End; TimeOut, ServeLate, Expire, Retry, Crash, Cleanup |
| `Delivery` | `SV/delivery/components.rs`, `publication.rs`, `rollout.rs`, `SV/components/delivery.rs`, `component_catalog`, `publisher_store.rs`, `activation_store.rs` | extends `DeliveryQueue` with publishers (Take, Publish, PublishUnanswered, Refuse, MarkFailed, Sweep), publication tasks (StartTask, Activate, RefuseTask, FinishTask, TaskBreaks, Copy, Restart), the rollout (Offer, Upgrade, UpgradeFails, Skip, FinishRollout, RollerCrash) and what tenants choose. `requests` are the rows of the publication requests, one per package; `latest` is the one requested last (`request_order`); `dropped` remembers whose task a database error has ended |
| `ReleaseSwitch` | `activate.rs`, `journal.rs`, `layout.rs`, `supervisor.rs`, `cli.rs` of the launcher | deployments step through activate or repair; the service steps through settle, repair, exec. `Restarted` is the restart command: whatever the service was doing is gone |
| `PersistentSlotProofs`, `ComponentInstallProofs`, `ComponentProcessProofs`, `LiveGenerationsProofs`, `LiveGenerationsSafety`, `DeliveryQueueProofs`, `DeliveryProofs`, `ReleaseSwitchProofs` | | the theorems of section 5 |
| `MC*` | | constants for TLC |

A definition that stands right above one it resembles and that no action uses
(`LeaseUntilCall` above `HoldsLease`) is that definition with a plausible mistake;
`PROJECT.json` lists which property notices which.

What the models abstract.

- A bundle is its digest and its list of migrations; grants, archives, frontends and
  credentials follow the digest. Signed documents are what they say.
- A generation of the installation record is a random UUID in the code, so
  `ComponentInstall` only keeps whether the one read is still current.
- A guest request ends well, fails or traps.
- Clocks are orderings. A lease may run out whenever its job is held. The grace
  period of the launcher is longer than its health timeout, as by default (`cli.rs`).
- `ComponentProcess`: a supervisor call that the host has given up has had its effect
  by then or never has one (the supervisor drops the handler with the connection, and
  `kill_on_drop` ends the docker command). A container that was created and does not
  run counts as none. A lost answer of the catalog is `ComponentInstall`'s.
- `LiveGenerations`: the start follows any order in which dependencies come first.
  Calls into the host from outside a request and background tasks are the same thing,
  work. Response bodies are read to their end or dropped. Development mode is left
  out. The code rebuilds over a wider relation, with lazily injected services
  (`composition.rs:43`), than the direct dependencies it starts by
  (`composition.rs:101`). `Depends` stands for both, so it is acyclic, and it does not
  change with the composition.
- `Delivery`: one upgrade is one step (`ComponentInstall` has its inside) and one host
  rolls out. The sweep of stranded jobs is part of the end of a publisher's round.
  Polls that find nothing new change nothing and are no step (`News`).

History variables: `overtaken`, `trouble` (`ComponentInstall`, `ComponentProcess`),
`stolen`, `probed` (`ReleaseSwitch`), the push numbers `at` (`DeliveryQueue`) and
`dropped` (`Delivery`) record what happened. They guard nothing, except that `trouble` starts the next
action like any other.

## 3. Runs

| run | question | bounds | size |
|---|---|---|---|
| `slot` | do requests on any host execute the active release only, and is the record's contract kept | 2 hosts, 4 calls (publisher, request and an administrative call on one, publisher or withdrawal on the other), 2 digests where one extends the other, 3 generations so that the last change meets the limit | 617 k states |
| `slot_live` | do calls wait for each other for ever | 3 calls on 2 hosts | 97 k states |
| `install` | do the stores agree after any sequence of actions with failures and restarts, and what does another host serve meanwhile | 2 requests, 2 versions; either both requests at one managing host, growing migrations and 2 failures of any kind, or one at a second, serving host, equal migrations (so that rollbacks succeed) and 1 failure | 3.4 M states |
| `install_restart` | refuted: a startup with no failure of its own comes up | 1 host, upgrades | |
| `install_compensation` | refuted: a compensation with no failure of its own works | 1 host, one lost answer | |
| `install_contended` | refuted: no outcome is recorded over another host's choice | 2 hosts, no failure | |
| `process` | is a tenant served by one container of the enabled version, and does every container have a host that stops it | 2 tenants, 2 versions, 4 failures of any kind, crashes included | 336 k states |
| `host` | do changes, requests and jobs leave the host whole or down, is the contract `RuntimeHost` all that is seen of them, and do they all end | a chain base, middle, top and a plugin that keeps the container; the other selection lacks middle and watcher. Up to 2 changes, 2 failing hooks, 1 job, 1 request, in the combinations of `MCBudgets` | 159 k states |
| `delivery` | from a commit to an upgraded tenant, is everything delivered in order and once, and are choices respected | 2 commits, 2 discoverers, 2 workers, 2 hosts, 1 tenant; two pushes, or one with a failure or a decision, or a failure and a decision, or two failures (a task that breaks and the restart that repairs it), or two repositories (`MCBudgets`) | 569 k states |
| `switch` | do link, record and host agree after every ended switch | 2 deployments, a release that never gets healthy, one without a manifest, 2 failures | 42 k states |
| `switch_orphan` | refuted: the switch of a dead deployment is ended by boot | 1 deployment, 1 crash | |
| `switch_takeover` | refuted: boot leaves the switch of a living deployment alone | 2 deployments, 2 failures | |

Why the bounds are enough. Two publishers, one of them remote, are what a stale
comparison needs; a third generation lets a withdrawn and a republished release
follow each other; two requests share one instance. In `ComponentInstall` two
failures are what a failing compensation of a failing action needs, and the third
version that was tried once (15 M states) showed nothing new: a rollback and an
upgrade already meet with two. In `ComponentProcess` four failures let an action fail,
its cleanup fail, its recovery fail and the host crash. In `LiveGenerations` a hook
fails in the candidate and another in its cleanup or in the recovery; the chain of
three is the least in which a plugin depends on another only through a third, and a
change may take away what is in the middle. In `Delivery` two discoverers and two
pushes are what an observation out of order needs, and a commit that returns is the
second push back to the first commit. In `ReleaseSwitch` the second deployment is the
one that finds what a first has left behind. `CHECK_DEADLOCK FALSE` is set because
these systems stop when every call has been made and every deployment has run.

Symmetry. `install` permutes its two requests: the set of settings is closed under
exchanging them. `process` permutes tenants and versions; `delivery` permutes
workers, discoverers, commits and hosts. No run with a temporal property of fairness
uses symmetry; the action properties do not depend on names.

Fairness.

- `slot_live`: weak fairness of each call's own steps. Every wait in the code is
  bounded or served in order (`lock_timeout` 20 s, engine limits of 5, 10 and 30 s,
  fair tokio locks). Errors, cancellations and crashes are never assumed to happen, so
  they cannot resolve a deadlock.
- `switch`: systemd starts the service again, boot proceeds, and a deployment proceeds
  or times out.
- `host`: weak fairness of the stop, of the start, of the end of a change, of each
  request that was admitted, and of the end of each job. The last two are the contract
  of the plugins (`SV/plugins/README.md` line 131: requests and tasks do not wait for a
  change or a shutdown; `PluginTasks::spawn`: a job ends after its cancellation).
  Strong fairness of `Admit`: the tokio lock it waits for is served in order, while
  shutdowns may come and go.

## 4. What the models disagree with

Each is a run that TLC refutes, listed in `PROJECT.json` with its source line.

1. *A restart does not always restore* (`RestartRestores`). A failed upgrade leaves
   its migrations applied; the older version no longer binds, and
   `Components::restore` stops the whole startup. `components/README.md` line 7
   promises the restart. `OutgrownOnly`, which passes and is proved, shows that this is
   the only cause.
2. *The compensation can refuse to repair* (`CompensationRepairs`). `restore` asks the
   slot for a snapshot first, and a slot that disagrees with the release record
   answers with an error; `components/README.md` line 56 says it must repair exactly
   this.
3. *An upgrade can undo another host's disabling* (`RefusesOvertaken`): the generation
   is read after the selection was checked, against `components/README.md` line 76.
4. *Boot's rollback never ends* (`OrphanSettles`): it restarts its own service before
   it writes the record.
5. *Boot can move the link under a living deployment* (`BootSparesInFlight`): `repair`
   reads the journal again and does not look at the holder. The deployment may then
   confirm a release on the answer of the previous one; `SettledIsCurrent` and its
   neighbours exclude this case by `stolen` and nothing else.

Observations made while modelling, which no run states as a property of its own.

- Delivery. The listing of archived repositories and forks reads a source's generation
  after the network (`discovery.rs:235`), against the comment at line 113; the next
  scan repairs what a stale listing revoked, so `ObservationsInOrder` speaks of the
  other observations. A repository that is deleted without being archived writes its
  tombstone again at every scan. A rollout row that ended is not offered again
  (`component_catalog/postgres.rs:309`). When a repository returns to a commit whose
  job is still active nothing is queued, and the publication stays at the commit in
  between. A publisher that fails late can mark a job that was queued, built and taken
  again meanwhile as failed (`delivery/components.rs:90`). `save_activation` locks the
  source before the publication, the other order than the comment at
  `postgres.rs:136` promises; both are shared locks, so nothing waits.
- Packages. The restart of any host puts running publication tasks back into the
  queue (`publisher_store.rs:191`); one that was already activated is activated again
  and undoes a rollback of the default tenant. `ensure_current` lets a package pass
  whose job is gone (`rollout.rs:14`). A task that meets a database error while it
  claims its request (`server/mod.rs:230`) or records the result (`mod.rs:290`) ends
  and is not tried again: the request stays queued or running and its job
  `publishing`. Asking again for the same package changes nothing while the row says
  running, so only the next restart of a host picks it up. `NothingStranded` exempts
  exactly these requests, and only until a host restarts.
- Native plugins. A background job that ever failed makes the next change of its
  plugin end with the host down, because draining it is an error. A response body that
  is neither read nor dropped keeps its permit, and with it every change, waiting.
- Containers. A dropped installation leaves its candidate running, without access and
  owned by the host, until it is used again or the host shuts down, also after the
  plugin was disabled. `Processes::stop` keeps the lock of the instances while docker
  stops a container, up to 75 seconds. The legacy `ProcessManager::start` that times
  out leaves a container that nobody owns (`process.rs:113`).

## 5. Proofs

All theorems hold for any values of the constants that satisfy the named assumptions
of the component's module (which TLC evaluates on every run): any hosts, tenants,
versions, releases, calls, number of failures.

| module | theorem | property |
|---|---|---|
| `PersistentSlotProofs` | `TypeCorrect` | `TypeOK` |
| | `RequestsExecuteActiveRevision` | `ExecutesActiveRevision` |
| | `HistoryComplete` | `AuditMatchesRow` |
| | `MigrationsNeverRewritten` | `MigrationsExtendPredecessor` |
| | `OffersAreCommitted` | `OnlyCommittedOffered` |
| | `FailuresSpareNewer` | `FailureSparesNewer` |
| | `SlotsKeepPromise` | `KeepsPromise`: the slots implement `ReleaseRegister` |
| `ComponentInstallProofs` | `TypeCorrect` | `TypeOK` |
| | `SchemaNeverBehind` | `SchemaCoversRelease` |
| | `StoresAgree` | `StoresAgreeAtRest` |
| | `ServesEnabled` | `ServesEnabledVersion`, with one managing host |
| | `StopsOnlyWhenOutgrown` | `OutgrownOnly`, with one managing host |
| `ComponentProcessProofs` | `TypeCorrect` | `TypeOK` |
| | `OneContainerConnected` | `OneConnected` |
| | `LeavesNothingBehind` | `NothingLeftBehind` |
| | `ServesWhatIsEnabled` | `ListedIsEnabled` |
| `LiveGenerationsProofs` | `TypeCorrect` | `TypeOK` |
| | `OneInstanceAtATime` | `OneInstance` |
| `LiveGenerationsSafety` | `DependenciesStayUp` | `DependenciesOutlive` |
| | `OnlyLiveInstancesWork` | `WorkOnLive` |
| | `AvailableIsWhole` | `AvailableMeansWhole` |
| | `DownIsReleased` | `DownMeansReleased` |
| | `ChangeLeavesRest` | what a change leaves alone, in terms of the generations |
| | `HostKeepsPromise` | `KeepsPromise`: the generations implement `RuntimeHost` |
| `DeliveryQueueProofs` | `QueueInvariant` | |
| | `QueueOneBuilder` | `OneBuilder`, in the queue alone |
| `DeliveryProofs` | `DeliveryTypeCorrect` | `DeliveryTypeOK` |
| | `DeliveryOneBuilder` | `OneBuilder` |
| | `DeliveryPublished` | `PublishedIsActive` |
| | `DeliveryStranded` | `NothingStranded` |
| | `DeliveryInOrder` | `ObservationsInOrder` |
| | `DeliveryOwnUpload` | `CompletesOwnUpload` |
| | `DeliveryStaysReplaced` | `ReplacedStaysReplaced` |
| | `DeliveryFollowsTarget` | `PublicationFollowsTarget` |
| | `DeliveryAsChosen` | `UpgradesAsChosen` |
| `ReleaseSwitchProofs` | `TypeCorrect` | `TypeOK` |
| | `EndedSwitchIsCurrent` | `SettledIsCurrent` |
| | `RunsWhatIsRecorded` | `HostRunsRecorded` |
| | `ConfirmsItsOwnAnswer` | `ConfirmedByItself` |

Each component has an inductive invariant (`IInv`; `QInv` and `DInv` for the delivery;
`SafetyInv`, which extends `IInv`, for the native plugins), one lemma per action or
kind of step, and the theorems that follow from it. None of the properties is inductive
by itself.

**`PersistentSlot`.** `AllSane` says what the program point of a call says about its
method and its reads, and bounds the generation a publisher has read by the current
one, so that a generation once left is never met again. `Settled`: an instance that a
slot or a request refers to was swapped in for good, so its digest does not change
under them. `Locks`: advisory locks exclude each other and a row lock excludes every
lease, which is why a request's revision cannot change while it executes. `Row`:
generation 0 means no release, and the comparison still holds at the commit.
`Requests`: a request past its lease check works under the revision it asked for, and
calls of one instance do not overlap. `Candidates`: a publisher whose generation is
still current has checked its migrations against the very release it will replace,
although it took no lock. `MigrationsExtendPredecessor` needs `Candidates`, which
needs the bound in `AllSane`; `ExecutesActiveRevision` needs `Locks` and `Requests`;
`OnlyCommittedOffered` needs `Settled`. The refinement maps every step to one step of
`ReleaseRegister` or to a stutter: only `ReadGeneration`, `Commit`, `Call` and the
ends of calls move it.

**`ComponentInstall`.** `Schema`: whatever an action is about to load fits the applied
migrations, which are never taken back. `Jobs` and `Asks`: what the step of an action
or a request says about what it has read. `Agree`: at each step of the action of the
only managing host, unless it has left trouble behind, which version the catalog
selects, which one is active, which one the routes are bound to and which one a
compensation would go back to. `SchemaNeverBehind` needs no assumption about who
manages. `StoresAgreeAtRest` names the only manager in the property (`Alone`). The last
two theorems assume `OneManager`, that in every setting one host takes all the
actions; with two the stores do come apart, as `install_contended` shows.

**`ComponentProcess`.** `Shape`: what a task is about at each of its waits.
`Gateways`: a gateway runs exactly for what is listed and for the candidate between
its configuration and its end, and while a candidate is prepared its tenant has nothing
listed. `Answered`: from startup to shutdown the host owns every container that runs,
and none was started under an earlier configuration. `Chosen`: a tenant without trouble
is served by its enabled version unless the task is about it, and the task knows the
version to go back to.

**`LiveGenerations`.** `Budgeted`, `Shape`, `Known`, `Recipes` and `Phase` say which
generation an operation is at and what it composes; `Registered` and `RegisteredRun`
that what a generation has entered and not retired is up; `CleanStops` that a stop
without an error has released everything; `Serving` that requests hold what serves.
`Owned` says which generation's instance of a plugin may hold resources at each stage
of a change, and with it `OneInstance` is inductive: the next instance is entered only
when the one before was stopped without an error.

`LiveGenerationsSafety` sorts the steps by what they change (`Changes`: a start or a
stop moves on, an instance is entered, rises or falls, a stop ends, a generation is
published, a start is given up, the served generation begins to stop, or only requests
and work do), once and for all in `Effects`; every later lemma splits on these kinds
and not on the 26 actions. `SafetyInv` then adds four layers, each proved from the ones
before it.

- `Structure`: what generations are made of. An instance uses the instances its own
  generation consists of (`Wired`), which needs that what a change rebuilds is closed
  under dependence (`Rebuilt`); what is cancelled is exactly what a stop has selected
  (`CancelledInstances`).
- `Requests`: a request that was admitted is at the served generation until the stop of
  that generation has awaited it, so none is left while anything starts or is released.
- `Stance`: whatever is up is being started, being compensated or not yet retired of the
  served generation (`Placed`); what is served and not released is ready; and an
  instance stands on ready ones (`Supported`). The last is kept by a release because
  dependants are part of the same stop and come first (`NoDependants`), also across
  instances that were inherited from earlier generations: there `Rebuilt` says that
  a dependant of what is rebuilt was itself stopped before.
- `Working`: a stop waits for the work of all it has selected before it releases any.

`DownMeansReleased` is more than the last step of a stop: `Idle` follows from `Placed`
and from what releases have been through (`Done`), whichever hook failed. For the
refinement, `StepKeepsPromise` maps each kind of step to one step of `RuntimeHost` or to
a stutter: entering a fresh plugin starts an instance (`OneInstance` gives that no
other is up), a release stops one (`NoDependants`, `Working` and `Requests` give its
guards), the end of a stop goes down, is down or is not seen (`StopReleases`), and a
publication is whole by `AvailableMeansWhole`. `RuntimeHost` is proved of every step of
`Next`, failures and cancellations included; it says nothing about progress.

**`DeliveryQueue`.** `JobsLeased` and `WorkersLeased`: leases are numbered, no two
workers have the same, and at most one job is held under a lease that has not run out.
`Kepts` and `Mail`: what is on a worker's disk was built under a lease handed out, and
a lease whose completion is still on the way has no upload on the way and no worker any
more, because a worker whose upload gets no answer defers or reports, and never completes. `Uploads`:
under the lease of its job, the package stored is the one the worker has kept, or the
one the late completion was sent for. This makes `CompletesOwnUpload` inductive: of the
same lease nothing can replace the upload between it and the completion. `Observed`: a
source is never ahead of its repository, and a commit decided on under the generation
still current was read after the target was set; with it an older answer fails the
comparison of generations. The listing of archived repositories does read the
generation later (section 4), but it never sets a commit. `StepKinds` sorts the steps
by what they change, and the three action properties follow from it.

**`Delivery`.** Every step outside the queue keeps `QInv`: publishers, copied results
and sweeps only end a job that is being published or remove an archive (`Ends`), so
what was proved of the queue carries over. `Catalogued` relates the catalog and the
jobs of components both ways; the transaction of a publication changes both, and a
publisher that lost its answer marks a job failed only while it is being published.
`Requested` and `Attended`: every package that is being published has a request, every
queued request a task that has not started and every running one a task at work, except
the requests in `dropped`, whose task a database error has ended. A restart queues all
running requests again and starts a task for every queued one, so that none is left in
`dropped`; a package that is requested again leaves it too. `UpgradesAsChosen` needs no
more than `DInv`: what an upgrade or the activation of a package installs is the latest
publication at that moment (the upgrade checks this again under the lock, the activation
publishes it), so what was selected earlier cannot make them go back; a package that is
published a second time counts with its last publication.

**`ReleaseSwitch`.** `Alone`: one deployment works at a time. `Planned`: past its record
its plan is the switch in flight. `Linked`: unless boot has taken a switch over from a
living deployment, the link is what the record or the plan says. `Boots`: what boot is
about to point or execute, and that it does not roll back while its deployment probes.
`Serves`: a host that was booted after the restart runs what the link says. `Probed`:
the answer a deployment has seen is its candidate's.

Model-checked only: liveness, which is out of the prover's reach (`CallsReturn`,
`HealthySwitchSucceeds`, `OperationsEnd`, `RequestsEnd`). Every invariant and every
action property that a passing run checks is a theorem as well.

## 6. Not modelled

Every component is listed in `PROJECT.json`, with the reason where it has no module.
In short:

- Formats, validation and dependency planning: pure functions over data, without
  state. Generated code, user interfaces, command-line tools, what happens inside a
  build container.
- Configuration recovery: a library whose callers, and with them the order of its
  calls, are outside this repository.
- Scoped transactions (`RT/database.rs`, `state.rs`): one guest, one handle, one
  function after the other. Nothing runs concurrently.
- Enhancements, capabilities, protocols, remote access and navigation: adapters that
  hold no state across requests, or whose state is one row.
- Inside the modelled parts: the connection pool of two, plugins with two kinds of
  executor, parents and children, tenant `default` during the validation of a Wasm
  candidate, roles and credentials, the requests a broker answers, development
  instances, streaming transfers.

The mapped lines are a few percent of the 57 500 implementation lines. Most of the rest
is handlers, generated clients, formats and pages; the models hold the part that
is concurrent, persistent or both.

## 7. Plan

Done: `ReleaseRegister`, `PersistentSlot`, `ComponentInstall`, `ComponentProcess`,
`RuntimeHost`, `LiveGenerations`, `ReleaseSwitch`, `DeliveryQueue`, `Delivery` and their
proofs.

Next, in this order:

1. An abstract switch that `ReleaseSwitch` implements as long as boot steals nothing.
2. An abstract catalog of choices for `ComponentInstall` and `Delivery` together.
3. The scoped transactions of a guest and the requests of a container's broker.
