------------------------------- MODULE Delivery -------------------------------
(***************************************************************************)
(* From a completed build job to the tenants: publication and automatic    *)
(* upgrades (server/delivery, component_catalog, the legacy catalog).  A   *)
(* source delivers components, which a publisher on every host takes from  *)
(* the queue and publishes in one transaction, or packages, which queue a  *)
(* publication request of their own.  A rollout task then moves the        *)
(* tenants that follow the publication, while they install, disable and    *)
(* roll back.  The steps inside an installation are those of the module    *)
(* ComponentInstall: here an upgrade is one step under the lock of its     *)
(* host, and one host rolls out.                                           *)
(***************************************************************************)
EXTENDS DeliveryQueue, SequencesExt

CONSTANTS Host, Tenant,
          Default      \* the tenant packages are published for

ASSUME DefaultAssumption == Default \in Tenant

VARIABLES
  format,      \* what a source delivers
  released,    \* its publications, the last one is current
  publisher,   \* components: what each host is publishing
  requests,    \* packages: the publication requests
  latest,      \* the package requested last
  tasks,       \* packages: the running publications
  dropped,     \* packages: requests whose task a database error ended, until a host restarts
  install,     \* the installation of each tenant
  rollouts,    \* the rows of the automatic upgrades
  roller       \* the rollout task: rows selected, row being finished

catalog == <<released, install>>
packages == <<requests, latest, tasks, dropped>>
upgrades == <<rollouts, roller>>
deliveryVars == <<queueVars, format, catalog, publisher, packages, upgrades>>

Package == [commit : Commit \cup {None}, build : Nat]
NoPackage == [commit |-> None, build |-> 0]
Earlier == [commit |-> None, build |-> 1]    \* published before there was a delivery source
PackageOf(j, build) == [commit |-> j[2], build |-> build]
JobOf(s, p) == <<s, p.commit>>
Published(s) == Last(released[s])
Resting == [step |-> "idle", job |-> None, build |-> 0]
Waiting == [todo |-> {}, done |-> {}]
Row == [tenant : Tenant, source : Source, package : Package,
        state : {"queued", "active", "failed", "superseded"}]

DeliveryTypeOK ==
  /\ QueueTypeOK
  /\ format \in [Source -> {"component", "package"}]
  /\ released \in [Source -> Seq(Package)]
  /\ publisher \in [Host -> [step : {"idle", "holding", "refused"},
                             job : Job \cup {None}, build : Nat]]
  /\ requests \in SUBSET [source : Source, package : Package,
                          state : {"queued", "running", "active", "failed"}]
  /\ latest \in [Source -> Package]
  /\ tasks \in SUBSET [host : Host, source : Source, package : Package,
                       step : {"spawned", "working", "active", "failed"}]
  /\ dropped \in SUBSET (Source \X Package)
  /\ install \in [Tenant -> [Source -> [package : Package, enabled : BOOLEAN,
                                        excluded : Package, known : BOOLEAN]]]
  /\ rollouts \in SUBSET Row
  /\ roller.todo \in SUBSET Row /\ roller.done \in SUBSET Row

NotInstalled == [package |-> NoPackage, enabled |-> FALSE, excluded |-> NoPackage, known |-> FALSE]
Installed(p, excluded) == [package |-> p, enabled |-> TRUE, excluded |-> excluded, known |-> TRUE]

DeliveryInit ==
  /\ QueueInit
  /\ format \in [Source -> {"component", "package"}]
  /\ released = [s \in Source |-> <<Earlier>>]
  /\ publisher = [h \in Host |-> Resting]
  /\ requests = {} /\ latest = [s \in Source |-> NoPackage]
  /\ tasks = {} /\ dropped = {}
  /\ install \in [Tenant -> [Source -> {NotInstalled, Installed(Earlier, NoPackage)} \cup
       (IF left.choices > 0 THEN {[Installed(Earlier, NoPackage) EXCEPT !.enabled = FALSE]}
        ELSE {})]]
  /\ \A s \in Source \ left.repositories :
       format[s] = "component" /\ \A t \in Tenant : install[t][s] = NotInstalled
  /\ rollouts = {}
  /\ roller = Waiting

-----------------------------------------------------------------------------
(* Components: publish_pending on every host. *)

Pending == {j \in Job : /\ format[j[1]] = "component"
                        /\ job[j].state = "publishing" /\ job[j].archive # 0}

Take(h) ==
  /\ publisher[h].step = "idle"
  /\ \E j \in Pending :
       /\ \A k \in Pending : job[j].order <= job[k].order
       /\ publisher' = [publisher EXCEPT ![h] = [step |-> "holding", job |-> j,
                                                 build |-> job[j].archive]]
  /\ UNCHANGED <<queueVars, format, catalog, packages, upgrades>>

(* The conditions of finish_publication, read in the publishing transaction. *)
PublishableAny(j, build) == Current(j) /\ job[j].state = "publishing"
Publishable(j, build) ==
  Current(j) /\ job[j].state = "publishing" /\ job[j].package = build

Release(s, p) == released' = [released EXCEPT ![s] = Append(@, p)]

(* Every round ends with the archives that nobody needs any more.            *)
Unneeded(j, row) == format[j[1]] = "component" /\ row.state \in {"superseded", "active"}
SweptPublishing(rows) ==
  [j \in Job |-> IF rows[j].state = "active" \/ j \in Pending THEN [rows[j] EXCEPT !.archive = 0]
                 ELSE rows[j]]
Swept(rows) == [j \in Job |-> IF Unneeded(j, rows[j]) THEN [rows[j] EXCEPT !.archive = 0]
                              ELSE rows[j]]
CommitPublication(h) ==
  LET j == publisher[h].job  build == publisher[h].build IN
  /\ publisher[h].step = "holding" /\ Publishable(j, build)
  /\ Release(j[1], PackageOf(j, build))
  /\ job' = Swept([job EXCEPT ![j].state = "active"])

Publish(h) ==
  /\ CommitPublication(h)
  /\ publisher' = [publisher EXCEPT ![h] = Resting]
  /\ UNCHANGED <<discovery, leases, workers, late, left, format, install, packages, upgrades>>

(* The transaction commits, its answer is lost. *)
PublishUnanswered(h) ==
  /\ Spend
  /\ CommitPublication(h)
  /\ publisher' = [publisher EXCEPT ![h].step = "refused"]
  /\ UNCHANGED <<discovery, leases, workers, late, format, install, packages, upgrades>>

(* The candidate is invalid, or its job is no longer the one to publish. *)
Refuse(h) ==
  /\ publisher[h].step = "holding"
  /\ IF Publishable(publisher[h].job, publisher[h].build) THEN Spend ELSE UNCHANGED left
  /\ publisher' = [publisher EXCEPT ![h].step = "refused"]
  /\ UNCHANGED <<discovery, job, leases, workers, late, format, catalog, packages, upgrades>>

MarkAlways(h) ==
  /\ publisher[h].step = "refused"
  /\ job' = Swept([job EXCEPT ![publisher[h].job].state = "failed"])
  /\ publisher' = [publisher EXCEPT ![h] = Resting]
  /\ UNCHANGED <<discovery, leases, workers, late, left, format, catalog, packages, upgrades>>
MarkFailed(h) ==
  /\ publisher[h].step = "refused"
  /\ job' = Swept([job EXCEPT ![publisher[h].job].state = IF @ = "publishing" THEN "failed"
                                                         ELSE @])
  /\ publisher' = [publisher EXCEPT ![h] = Resting]
  /\ UNCHANGED <<discovery, leases, workers, late, left, format, catalog, packages, upgrades>>

(* A round that finds nothing to publish. *)
Sweep(h) ==
  /\ publisher[h].step = "idle" /\ Pending = {}
  /\ job' = Swept(job) /\ job' # job
  /\ UNCHANGED <<discovery, leases, workers, late, left, format, catalog, publisher, packages,
                 upgrades>>

-----------------------------------------------------------------------------
(* Packages: publication requests and their tasks. *)

Task(h, s, p, step) == [host |-> h, source |-> s, package |-> p, step |-> step]
Asked(s, p) == {r \in requests : r.source = s /\ r.package = p}
InState(s, p, state) == \E r \in Asked(s, p) : r.state = state
SetState(s, p, state) ==
  {IF r \in Asked(s, p) THEN [r EXCEPT !.state = state] ELSE r : r \in requests}

(* queue_publish_job: one row per package, a running one keeps running, and  *)
(* the latest request counts.                                               *)
QueuePackage(h, s, p) ==
  /\ latest' = [latest EXCEPT ![s] = p]
  /\ IF InState(s, p, "running")
     THEN UNCHANGED <<requests, tasks, dropped>>
     ELSE /\ requests' = (requests \ Asked(s, p))
                         \cup {[source |-> s, package |-> p, state |-> "queued"]}
          /\ tasks' = tasks \cup {Task(h, s, p, "spawned")}
          /\ dropped' = dropped \ {<<s, p>>}

(* A completed package job queues its request in the same transaction, and   *)
(* the host that serves it starts the task.                                 *)
QueueRequest(h) ==
  LET handed == {j \in Job : /\ format[j[1]] = "package"
                             /\ job[j].state # "publishing" /\ job'[j].state = "publishing"}
  IN IF handed = {} THEN UNCHANGED packages
     ELSE \E j \in handed : QueuePackage(h, j[1], PackageOf(j, job'[j].package))

(* Only one task claims a queued request. *)
StartTask(t) ==
  /\ t \in tasks /\ t.step = "spawned"
  /\ IF InState(t.source, t.package, "queued")
     THEN /\ requests' = SetState(t.source, t.package, "running")
          /\ tasks' = (tasks \ {t}) \cup {[t EXCEPT !.step = "working"]}
     ELSE tasks' = tasks \ {t} /\ UNCHANGED requests
  /\ UNCHANGED <<queueVars, format, catalog, publisher, latest, dropped, upgrades>>

(* ensure_current looks for a job with this package: a package no job has    *)
(* any more is let through.  ensure_current_publication: the latest request. *)
Known(s, p) == p.commit # None /\ job[JobOf(s, p)].package = p.build
ActivatableAnyTarget(s, p) == latest[s] = p
Activatable(s, p) ==
  /\ Known(s, p) => Current(JobOf(s, p))
  /\ latest[s] = p

(* A tenant that has disabled or removed the package keeps it that way. *)
PublishOnly(s, p) ==
  LET i == install[Default][s] IN Known(s, p) /\ i.known /\ ~i.enabled

StepTask(t, step) == tasks' = (tasks \ {t}) \cup {[t EXCEPT !.step = step]}
Activate(t) ==
  LET s == t.source  p == t.package IN
  /\ t \in tasks /\ t.step = "working" /\ Activatable(s, p)
  /\ IF Published(s) = p THEN UNCHANGED released ELSE Release(s, p)
  /\ install' = IF PublishOnly(s, p) THEN install
                ELSE [install EXCEPT ![Default][s] = Installed(p, @.excluded)]
  /\ StepTask(t, "active")
  /\ UNCHANGED <<queueVars, format, publisher, requests, latest, dropped, upgrades>>

RefuseTask(t) ==
  /\ t \in tasks /\ t.step = "working"
  /\ IF Activatable(t.source, t.package) THEN Spend ELSE UNCHANGED left
  /\ StepTask(t, "failed")
  /\ UNCHANGED <<discovery, job, leases, workers, late, format, catalog, publisher, requests,
                 latest, dropped, upgrades>>

(* The result goes to a request that is still running. *)
FinishTask(t) ==
  /\ t \in tasks /\ t.step \in {"active", "failed"}
  /\ requests' = IF InState(t.source, t.package, "running")
                 THEN SetState(t.source, t.package, t.step) ELSE requests
  /\ tasks' = tasks \ {t}
  /\ UNCHANGED <<queueVars, format, catalog, publisher, latest, dropped, upgrades>>

(* A database error ends the task with its request as it is: the claim       *)
(* fails, or is committed and not answered, or the result is not recorded.   *)
(* The same state is left when the task cannot be started at all.           *)
TaskBreaks(t) ==
  /\ Spend
  /\ t \in tasks /\ t.step # "working"
  /\ \/ UNCHANGED requests
     \/ /\ t.step = "spawned" /\ InState(t.source, t.package, "queued")
        /\ requests' = SetState(t.source, t.package, "running")
  /\ tasks' = tasks \ {t}
  /\ dropped' = dropped \cup {<<t.source, t.package>>}
  /\ UNCHANGED <<discovery, job, leases, workers, late, format, catalog, publisher, latest,
                 upgrades>>

(* publication tick: the results are copied to the jobs. *)
Results(j) == {r.state : r \in Asked(j[1], PackageOf(j, job[j].package))}
CopiedEarly(j) ==
  IF format[j[1]] = "package" /\ job[j].state = "publishing" /\ Results(j) # {}
  THEN [job[j] EXCEPT !.state = CHOOSE state \in Results(j) : TRUE] ELSE job[j]
Copied(j) ==
  LET ended == Results(j) \cap {"active", "failed"} IN
  IF format[j[1]] = "package" /\ job[j].state = "publishing" /\ ended # {}
  THEN [job[j] EXCEPT !.state = CHOOSE state \in ended : TRUE] ELSE job[j]
Copy ==
  /\ job' = [j \in Job |-> Copied(j)] /\ job' # job
  /\ UNCHANGED <<discovery, leases, workers, late, left, format, catalog, publisher, packages,
                 upgrades>>

(* A host starts again: its work is gone, every running request is queued    *)
(* again, those of other hosts too, and all queued ones get a task here.    *)
ResumedQueuedOnly == requests
Resumed == {[r EXCEPT !.state = IF @ = "running" THEN "queued" ELSE @] : r \in requests}
Restart(h) ==
  /\ Spend
  /\ publisher' = [publisher EXCEPT ![h] = Resting]
  /\ requests' = Resumed
  /\ tasks' = {t \in tasks : t.host # h}
              \cup {Task(h, r.source, r.package, "spawned") :
                      r \in {x \in requests' : x.state = "queued"}}
  /\ dropped' = {}
  /\ UNCHANGED <<discovery, job, leases, workers, late, format, catalog, latest, upgrades>>

-----------------------------------------------------------------------------
(* The rollout task and the tenants of its host. *)

(* Tenants that follow the publication; components only while their source   *)
(* is delivered.                                                            *)
Followed(t, s) ==
  LET i == install[t][s] IN
  /\ i.enabled /\ i.excluded # Published(s)
  /\ format[s] = "component" => source[s].enabled /\ i.package # Published(s)
UpgradableStale(x) == TRUE
Upgradable(x) == x.package = Published(x.source) /\ Followed(x.tenant, x.source)

(* A row is inserted once for a publication, and offered while it is queued  *)
(* or has failed.                                                           *)
Offer ==
  LET fresh == {[tenant |-> t, source |-> s, package |-> Published(s), state |-> "queued"] :
                  t \in Tenant, s \in Source}
      rows == rollouts \cup {r \in fresh :
                /\ Followed(r.tenant, r.source)
                /\ install[r.tenant][r.source].package # r.package
                /\ \A q \in rollouts : <<q.tenant, q.source, q.package>>
                                       # <<r.tenant, r.source, r.package>>}
      todo == {r \in rows : r.state \in {"queued", "failed"} /\ Upgradable(r)}
  IN /\ roller = Waiting /\ todo # {}
     /\ rollouts' = rows
     /\ roller' = [roller EXCEPT !.todo = todo]
     /\ UNCHANGED <<queueVars, format, catalog, publisher, packages>>

Take1(x, state) == roller' = [todo |-> roller.todo \ {x}, done |-> {[x EXCEPT !.state = state]}]

(* The selection of the tenant is read again under the lock. *)
Upgrade(x) ==
  /\ x \in roller.todo /\ roller.done = {}
  /\ IF Upgradable(x)
     THEN /\ install' = [install EXCEPT ![x.tenant][x.source] =
                Installed(x.package, IF format[x.source] = "component" THEN NoPackage
                                     ELSE @.excluded)]
          /\ Take1(x, "active")
     ELSE /\ UNCHANGED install
          /\ Take1(x, IF format[x.source] = "component" THEN "superseded" ELSE "failed")
  /\ UNCHANGED <<queueVars, format, released, publisher, packages, rollouts>>

(* The candidate does not start. *)
UpgradeFails(x) ==
  /\ Spend
  /\ x \in roller.todo /\ roller.done = {} /\ Upgradable(x)
  /\ Take1(x, "failed")
  /\ UNCHANGED <<discovery, job, leases, workers, late, format, catalog, publisher, packages,
                 rollouts>>

(* An executor that is missing leaves the row alone. *)
Skip(x) ==
  /\ Spend
  /\ x \in roller.todo /\ roller.done = {} /\ format[x.source] = "component"
  /\ roller' = [roller EXCEPT !.todo = @ \ {x}]
  /\ UNCHANGED <<discovery, job, leases, workers, late, format, catalog, publisher, packages,
                 rollouts>>

FinishRollout(x) ==
  /\ x \in roller.done
  /\ rollouts' = {IF <<r.tenant, r.source, r.package>> = <<x.tenant, x.source, x.package>>
                  THEN x ELSE r : r \in rollouts}
  /\ roller' = [roller EXCEPT !.done = {}]
  /\ UNCHANGED <<queueVars, format, catalog, publisher, packages>>

(* The host of the rollout task crashes between two steps. *)
RollerCrash ==
  /\ Spend
  /\ roller # Waiting /\ roller' = Waiting
  /\ UNCHANGED <<discovery, job, leases, workers, late, format, catalog, publisher, packages,
                 rollouts>>

Choose(t, s, record) ==
  /\ s \in left.repositories /\ left.choices > 0
  /\ left' = [left EXCEPT !.choices = @ - 1]
  /\ install' = [install EXCEPT ![t][s] = record]
  /\ UNCHANGED <<discovery, job, leases, workers, late, format, released, publisher, packages,
                 upgrades>>

TenantInstalls(t, s) ==
  Choose(t, s, Installed(Published(s), IF format[s] = "component" THEN NoPackage
                                       ELSE install[t][s].excluded))
TenantEnables(t, s) ==
  /\ install[t][s].package # NoPackage /\ ~install[t][s].enabled
  /\ Choose(t, s, [install[t][s] EXCEPT !.enabled = TRUE])
TenantDisables(t, s) ==
  /\ install[t][s].enabled
  /\ Choose(t, s, [install[t][s] EXCEPT !.enabled = FALSE])
TenantUninstalls(t, s) ==
  /\ install[t][s].package # NoPackage
  /\ Choose(t, s, IF format[s] = "component" THEN NotInstalled
                  ELSE [install[t][s] EXCEPT !.package = NoPackage, !.enabled = FALSE])

Since(releases, p) == CHOOSE i \in DOMAIN releases :
                        releases[i] = p /\ \A k \in 1 .. (i - 1) : releases[k] # p
Age(s, p) == Since(released[s], p)
(* Components go back to the version before the installed one, packages to   *)
(* the latest other one; the publication is not followed any more.          *)
RollbackTarget(t, s) ==
  LET at == Age(s, install[t][s].package)
      others == {Age(s, released[s][i]) : i \in DOMAIN released[s]} \ {at}
  IN {i \in others : /\ format[s] = "component" => i < at
                     /\ \A k \in others : k > i => format[s] = "component" /\ k > at}
TenantRollsBack(t, s) ==
  /\ install[t][s].package # NoPackage
  /\ \E i \in RollbackTarget(t, s) :
       Choose(t, s, Installed(released[s][i], Published(s)))

-----------------------------------------------------------------------------
PublishStep(h) == Take(h) \/ Publish(h) \/ PublishUnanswered(h) \/ Refuse(h)
                  \/ MarkFailed(h) \/ Sweep(h)
TaskStep(t) == StartTask(t) \/ Activate(t) \/ RefuseTask(t) \/ FinishTask(t) \/ TaskBreaks(t)
RolloutStep == \/ Offer \/ RollerCrash
               \/ \E x \in roller.todo : Upgrade(x) \/ UpgradeFails(x) \/ Skip(x)
               \/ \E x \in roller.done : FinishRollout(x)
Choice(t, s) == TenantInstalls(t, s) \/ TenantEnables(t, s) \/ TenantDisables(t, s)
                \/ TenantUninstalls(t, s) \/ TenantRollsBack(t, s)

Queue == /\ QueueNext
         /\ \E h \in Host : QueueRequest(h)
         /\ UNCHANGED <<format, catalog, publisher, upgrades>>

DeliveryNext ==
  \/ Queue
  \/ \E h \in Host : PublishStep(h) \/ Restart(h)
  \/ \E t \in tasks : TaskStep(t)
  \/ Copy
  \/ RolloutStep
  \/ \E t \in Tenant, s \in Source : Choice(t, s)

DeliverySpec == DeliveryInit /\ [][DeliveryNext]_deliveryVars
-----------------------------------------------------------------------------
(* Properties. *)

(* A publication never goes back to a commit that the discovery has replaced *)
(* meanwhile, however long the publishing host held its archive             *)
(* (finish_publication, ensure_current).  A package that its job has         *)
(* rebuilt since is not recognised by that check.                           *)
PublicationFollowsTarget ==
  [][\A s \in Source : released'[s] # released[s] =>
       LET p == Published(s)'  j == JobOf(s, p) IN
       format[s] = "component" \/ job[j].package = p.build => Current(j)]_deliveryVars

(* Components: the catalog has published a package exactly when its job says *)
(* so, also when hosts publish the same job together, an answer is lost or   *)
(* the job was built again.                                                 *)
PublishedIsActive ==
  \A j \in Job : format[j[1]] = "component" =>
    /\ job[j].state = "active" <=>
         \E i \in DOMAIN released[j[1]] : released[j[1]][i].commit = j[2]
    /\ job[j].state = "active" => ToSet(released[j[1]]) \cap {PackageOf(j, n) : n \in 1 .. leases}
                                   = {PackageOf(j, job[j].package)}

(* A wanted job that is being published has somebody to finish it: an        *)
(* archive for the publishers, or a request whose result is there or that a  *)
(* task is working at, on whatever host, over answers that come late,        *)
(* retaken leases, rebuilt packages and restarts.  Only a task that met a    *)
(* database error leaves its request behind (server/mod.rs), and then the    *)
(* next restart of any host attends to it (on_ready).                        *)
NothingStranded ==
  \A j \in Job : job[j].state = "publishing" =>
    IF format[j[1]] = "component" THEN job[j].archive # 0
    ELSE LET p == PackageOf(j, job[j].package)
             steps == {t.step : t \in {x \in tasks : x.source = j[1] /\ x.package = p}}
         IN /\ Asked(j[1], p) # {}
            /\ <<j[1], p>> \notin dropped =>
                 /\ InState(j[1], p, "queued") => "spawned" \in steps
                 /\ InState(j[1], p, "running") => steps \cap {"working", "active", "failed"} # {}

(* An automatic upgrade neither enables what a tenant has disabled, nor       *)
(* brings back what it has removed, nor installs the publication it has       *)
(* rolled back, whatever it decides after the row was selected (contract.rs); *)
(* and what changes without the tenant's doing goes forward to a later        *)
(* publication.                                                               *)
UpgradesAsChosen ==
  [][\A t \in Tenant, s \in Source :
       LET old == install[t][s]  new == install'[t][s] IN
       new # old /\ left'.choices = left.choices =>
         /\ roller' # roller => old.enabled /\ old.excluded # new.package
         /\ old.package \notin {NoPackage, new.package} =>
              \E i \in DOMAIN released'[s] :
                /\ released'[s][i] = new.package
                /\ \A k \in DOMAIN released'[s] : released'[s][k] = old.package => k < i
    ]_deliveryVars
=============================================================================
