--------------------------- MODULE ComponentInstall ---------------------------
(***************************************************************************)
(* Installing, upgrading, rolling back, disabling and restarting one       *)
(* plugin of one tenant: components/installation.rs and dispatch.rs over   *)
(* executors/wasm.rs.  Three stores have to agree: the catalog's           *)
(* installation record, the release record behind the execution slots, and *)
(* the migrations applied to the plugin's schema.  A host adds its         *)
(* execution slot and the version its routes are bound to.                 *)
(*                                                                         *)
(* A slot operation is one step here; PersistentSlot has its inside, and   *)
(* proves what this relies on: a publication never passes a running        *)
(* request, and the migration check covers the release that is replaced.   *)
(***************************************************************************)
EXTENDS Naturals, SequencesExt

CONSTANTS Host, Request,
          Versions,    \* the digests of the plugin in order of publication
          Published,   \* the one the market currently offers
          Faults,      \* the kinds of failure that occur
          Settings,    \* the deployments, one of which a behaviour is about
          None

Digest == ToSet(Versions)
Kind == {"install", "enable", "upgrade", "rollback", "disable", "uninstall"}
Removal == {"disable", "uninstall"}
Fault == {"refused", "lost", "cancel", "trap"}

(* hostOf: the host a request arrives at; migrations: what a version        *)
(* carries, in order; may: the management actions started on a host, and    *)
(* "restart" when it may crash and start again; faults: a bound on the      *)
(* failures.                                                                *)
ASSUME SettingsAssumption ==
  \A s \in Settings :
    /\ s.hostOf \in [Request -> Host]
    /\ DOMAIN s.migrations = Digest
    /\ \A d \in Digest : s.migrations[d] \in Seq(STRING)
    /\ s.may \in [Host -> SUBSET (Kind \cup {"restart"})]
    /\ s.faults \in Nat
ASSUME VersionAssumption ==
  Versions \in Seq(Digest) /\ Published \in Digest /\ Faults \subseteq Fault
Revision == Digest \cup {None}
Installation == [digest : Digest, enabled : BOOLEAN, excluded : Revision]
ASSUME NoneAssumption == None \notin Digest /\ None \notin Installation

VARIABLES
  setting,    \* the deployment
  installed,  \* component_installations: a record, or None
  revision,   \* the active release, None when withdrawn
  applied,    \* database_bindings.migrations
  up,         \* per host: "down", "booting" or "up"
  bound,      \* per host: the version Components.active holds
  slot,       \* per host: the version of the instance in its slot
  broken,     \* the hosts whose instance has lost its execution
  pc, job,    \* per host: the management action under the mutations lock
  req, ask,   \* per request: where it is, and the version it asks for
  trouble,    \* per host: an action was left half done, until a startup has restored
  overtaken,  \* per host: the record changed under the action in progress
  faults      \* failures left

dbVars == <<installed, revision, applied>>
slots == <<slot, broken>>
hostVars == <<up, bound, slot, broken>>
vars == <<setting, dbVars, hostVars, pc, job, req, ask, trouble, overtaken, faults>>

HostOf == setting.hostOf
Migrations == setting.migrations
May == setting.may

NoJob == [kind |-> "none", target |-> None, excluded |-> None, seen |-> "none", previous |-> None]

NoAsk == [digest |-> None, stored |-> None, retried |-> FALSE]

TypeOK ==
  /\ setting \in Settings
  /\ installed \in Installation \cup {None}
  /\ revision \in Revision
  /\ applied \in Range(Migrations) \cup {<<>>}
  /\ up \in [Host -> {"down", "booting", "up"}]
  /\ bound \in [Host -> Revision]
  /\ slot \in [Host -> Revision] /\ broken \subseteq Host
  /\ pc \in [Host -> {"idle", "expect", "previous", "resources", "activate", "withdraw", "commit",
                      "bind", "recover", "restore", "rebind", "reactivate"}]
  /\ job \in [Host -> [kind : Kind \cup {"boot", "none"}, target : Revision, excluded : Revision,
                       seen : {"none", "absent", "current", "stale"}, previous : Revision]]
  /\ req \in [Request -> {"idle", "ready", "resources", "reload", "handle", "run", "unload", "retry"}]
  /\ ask \in [Request -> [digest : Revision, stored : Revision, retried : BOOLEAN]]
  /\ trouble \in [Host -> BOOLEAN] /\ overtaken \in [Host -> BOOLEAN]
  /\ faults \in 0 .. setting.faults

-----------------------------------------------------------------------------
Enabled == installed # None /\ installed.enabled
Selected == IF Enabled THEN installed.digest ELSE None

(* The newest version published before the installed one. *)
Older(d) == LET i == CHOOSE i \in DOMAIN Versions : Versions[i] = d
            IN IF i = 1 THEN None ELSE Versions[i - 1]

(* resources_verified: the applied migrations must begin the version's own, *)
(* and what is missing is applied and committed on the spot.                *)
FitsEitherWay(d) == IsPrefix(applied, Migrations[d]) \/ IsPrefix(Migrations[d], applied)
Fits(d) == IsPrefix(applied, Migrations[d])
MigrateFromStart(d) == applied' = applied \o Migrations[d]
Migrate(d) == applied' = Migrations[d]

(* slot.activate: the migrations of the active release begin the version's. *)
Follows(d) == IF revision = None THEN TRUE ELSE IsPrefix(Migrations[revision], Migrations[d])

(* Changing the release record waits for every lease, changing a slot for   *)
(* the requests of its host.                                                *)
Quiet == \A r \in Request : req[r] # "run"
QuietOn(h) == \A r \in Request : HostOf[r] = h => req[r] # "run"

Load(h, d) == slot' = [slot EXCEPT ![h] = d] /\ broken' = broken \ {h}

Goto(h, p) == pc' = [pc EXCEPT ![h] = p]
KeepJob == UNCHANGED <<job, trouble, overtaken>>
KeepRequests == UNCHANGED <<req, ask>>

End(h, left) ==
  /\ Goto(h, "idle")
  /\ job' = [job EXCEPT ![h] = NoJob]
  /\ trouble' = [trouble EXCEPT ![h] = left]
  /\ overtaken' = [overtaken EXCEPT ![h] = FALSE]

(* The action returns; `failed` says that its compensation did not work. *)
Return(h, failed) == End(h, trouble[h] \/ failed)

(* A new generation: what the other hosts have read is no longer current. *)
Overtake(h, after) ==
  /\ job' = [g \in Host |-> IF g = h THEN after
                            ELSE IF job[g].seen = "current" THEN [job[g] EXCEPT !.seen = "stale"]
                            ELSE job[g]]
  /\ overtaken' = [g \in Host |-> overtaken[g] \/ (g # h /\ pc[g] # "idle")]

(* A host that no request reaches starts with an empty slot. *)
Init ==
  /\ setting \in Settings
  /\ \E d \in Digest, e \in BOOLEAN :
       /\ installed \in {None, [digest |-> d, enabled |-> e, excluded |-> None]}
       /\ revision = Selected
       /\ applied = IF installed = None THEN <<>> ELSE Migrations[d]
       /\ up = [h \in Host |-> "up"]
       /\ bound = [h \in Host |-> Selected]
       /\ slot \in [Host -> {None, Selected}] /\ broken = {}
       /\ \A h \in Host \ Range(HostOf) : slot[h] = None
  /\ pc = [h \in Host |-> "idle"]
  /\ job = [h \in Host |-> NoJob]
  /\ req = [r \in Request |-> "idle"]
  /\ ask = [r \in Request |-> NoAsk]
  /\ trouble = [h \in Host |-> FALSE]
  /\ overtaken = [h \in Host |-> FALSE]
  /\ faults = setting.faults

-----------------------------------------------------------------------------
(* Management actions, one at a time on a host (mutations lock).           *)

(* What the action is about, as the catalog has it when it gets the lock. *)
Selection(kind) ==
  CASE kind = "install" -> {[target |-> d, excluded |-> None] : d \in Digest}
    [] kind = "enable" ->
         {[target |-> i.digest, excluded |-> i.excluded] : i \in {installed} \ {None}}
    [] kind = "rollback" ->
         {[target |-> Older(i.digest), excluded |-> Published] :
            i \in {j \in {installed} \ {None} : Older(j.digest) # None}}
    [] kind = "upgrade" ->
         {[target |-> Published, excluded |-> None] :
            i \in {j \in {installed} \ {None} :
                     j.enabled /\ j.digest # Published /\ j.excluded # Published}}
    [] kind \in Removal ->
         {[target |-> None, excluded |-> None] : i \in {installed} \ {None}}

(* Disabling reads the generation at once, installing in a later step. *)
Begin(h) ==
  /\ up[h] = "up" /\ pc[h] = "idle"
  /\ \E kind \in May[h] \cap Kind : \E s \in Selection(kind) :
       /\ job' = [job EXCEPT ![h] = [kind |-> kind, target |-> s.target, excluded |-> s.excluded,
                                     seen |-> IF kind \in Removal THEN "current" ELSE "none",
                                     previous |-> None]]
       /\ Goto(h, IF kind \in Removal THEN "previous" ELSE "expect")
  /\ KeepRequests /\ UNCHANGED <<dbVars, hostVars, trouble, overtaken, faults>>

ReadGeneration(h) ==
  /\ pc[h] = "expect"
  /\ job' = [job EXCEPT ![h].seen = IF installed = None THEN "absent" ELSE "current"]
  /\ Goto(h, "previous")
  /\ KeepRequests /\ UNCHANGED <<dbVars, hostVars, trouble, overtaken, faults>>

(* previous_execution: what to go back to if the action fails. *)
ReadPrevious(h) ==
  /\ pc[h] = "previous"
  /\ LET previous == IF Enabled /\ bound[h] # None THEN installed.digest ELSE None
     IN IF previous # None /\ bound[h] # previous
        THEN Return(h, FALSE)
        ELSE /\ job' = [job EXCEPT ![h].previous = previous]
             /\ Goto(h, IF job[h].kind \notin Removal THEN "resources"
                        ELSE IF previous # None THEN "withdraw" ELSE "commit")
             /\ UNCHANGED <<trouble, overtaken>>
  /\ KeepRequests /\ UNCHANGED <<dbVars, hostVars, faults>>

BindResources(h) ==
  /\ pc[h] = "resources"
  /\ IF Fits(job[h].target)
     THEN Migrate(job[h].target) /\ Goto(h, "activate")
     ELSE UNCHANGED applied /\ Goto(h, "recover")
  /\ KeepJob /\ KeepRequests /\ UNCHANGED <<installed, revision, hostVars, faults>>

Activate(h) ==
  /\ pc[h] = "activate" /\ Quiet
  /\ IF Follows(job[h].target)
     THEN /\ revision' = job[h].target
          /\ Load(h, job[h].target)
          /\ Goto(h, "commit")
     ELSE UNCHANGED <<revision, slots>> /\ Goto(h, "recover")
  /\ KeepJob /\ KeepRequests /\ UNCHANGED <<installed, applied, up, bound, faults>>

Withdraw(h) ==
  /\ pc[h] = "withdraw" /\ Quiet
  /\ revision' = None
  /\ Load(h, None)
  /\ Goto(h, "commit")
  /\ KeepJob /\ KeepRequests /\ UNCHANGED <<installed, applied, up, bound, faults>>

(* catalog.install and catalog.remove compare the generation; having seen   *)
(* none only allows a record that is still missing.                         *)
Record(h) ==
  installed' = CASE job[h].kind = "uninstall" -> None
                 [] job[h].kind = "disable" -> [installed EXCEPT !.enabled = FALSE]
                 [] OTHER -> [digest |-> job[h].target, enabled |-> TRUE,
                              excluded |-> job[h].excluded]
MayRecord(h) == job[h].seen = "current" \/ (job[h].seen = "absent" /\ installed = None)

(* An action that had nothing running before it has nothing to recover. *)
NothingToRecover(h) == job[h].kind \in Removal /\ job[h].previous = None
CompensateNothing(h) == Return(h, FALSE)
Compensate(h) ==
  IF NothingToRecover(h) THEN Return(h, FALSE)
  ELSE Goto(h, "recover") /\ KeepJob

Commit(h) ==
  /\ pc[h] = "commit"
  /\ IF MayRecord(h)
     THEN Record(h) /\ Overtake(h, job[h]) /\ Goto(h, "bind") /\ UNCHANGED trouble
     ELSE UNCHANGED installed /\ Compensate(h)
  /\ KeepRequests /\ UNCHANGED <<revision, applied, hostVars, faults>>

BindKeepingRoute(h) ==
  /\ pc[h] = "bind"
  /\ bound' = [bound EXCEPT ![h] = IF @ = None THEN job[h].target ELSE @]
  /\ Return(h, FALSE)
  /\ KeepRequests /\ UNCHANGED <<dbVars, up, slots, faults>>
Bind(h) ==
  /\ pc[h] = "bind"
  /\ bound' = [bound EXCEPT ![h] = job[h].target]
  /\ Return(h, FALSE)
  /\ KeepRequests /\ UNCHANGED <<dbVars, up, slots, faults>>

-----------------------------------------------------------------------------
(* Compensation and restart.                                               *)

(* recover_execution: the candidate of a first installation is withdrawn,  *)
(* any other makes room for the previous version.                          *)
RecoverKeepingCandidate(h) ==
  /\ pc[h] = "recover"
  /\ IF job[h].previous = None THEN Return(h, FALSE) ELSE Goto(h, "restore") /\ KeepJob
  /\ KeepRequests /\ UNCHANGED <<dbVars, hostVars, faults>>
Recover(h) ==
  /\ pc[h] = "recover"
  /\ IF job[h].previous = None
     THEN /\ Quiet
          /\ revision' = None
          /\ Load(h, None)
          /\ Return(h, FALSE)
     ELSE /\ Goto(h, "restore")
          /\ KeepJob /\ UNCHANGED <<revision, slots>>
  /\ KeepRequests /\ UNCHANGED <<installed, applied, up, bound, faults>>

(* A restoration that ends well binds the routes at startup; one that does  *)
(* not stops the startup, or is reported with the action's own error.       *)
Restored(h) ==
  IF job[h].kind = "boot"
  THEN /\ bound' = [bound EXCEPT ![h] = job[h].previous]
       /\ up' = [up EXCEPT ![h] = "up"]
       /\ End(h, FALSE)
  ELSE Return(h, FALSE) /\ UNCHANGED <<up, bound>>
Unrestored(h) ==
  /\ up' = [up EXCEPT ![h] = IF job[h].kind = "boot" THEN "down" ELSE @]
  /\ Return(h, job[h].kind # "boot")
  /\ UNCHANGED bound

(* WasmComponentExecutor::restore asks the slot for a snapshot first: an    *)
(* instance that is not the active release is an error, not a reason to     *)
(* restore.                                                                 *)
RestoreTrustingRelease(h) ==
  /\ pc[h] = "restore"
  /\ IF revision # job[h].previous THEN Unrestored(h)
     ELSE Goto(h, "rebind") /\ KeepJob /\ UNCHANGED <<up, bound>>
  /\ KeepRequests /\ UNCHANGED <<dbVars, slots, faults>>
Restore(h) ==
  /\ pc[h] = "restore"
  /\ IF slot[h] # None /\ slot[h] # revision THEN Unrestored(h)
     ELSE IF slot[h] = job[h].previous THEN Restored(h)
     ELSE Goto(h, "rebind") /\ KeepJob /\ UNCHANGED <<up, bound>>
  /\ KeepRequests /\ UNCHANGED <<dbVars, slots, faults>>

Rebind(h) ==
  /\ pc[h] = "rebind"
  /\ IF Fits(job[h].previous)
     THEN Migrate(job[h].previous) /\ Goto(h, "reactivate") /\ KeepJob /\ UNCHANGED <<up, bound>>
     ELSE UNCHANGED applied /\ Unrestored(h)
  /\ KeepRequests /\ UNCHANGED <<installed, revision, slots, faults>>

Reactivate(h) ==
  /\ pc[h] = "reactivate" /\ Quiet
  /\ IF Follows(job[h].previous)
     THEN /\ revision' = job[h].previous
          /\ Load(h, job[h].previous)
          /\ Restored(h)
     ELSE UNCHANGED <<revision, slots>> /\ Unrestored(h)
  /\ KeepRequests /\ UNCHANGED <<installed, applied, faults>>

(* Components::restore at startup: what the catalog has enabled. *)
Boot(h) ==
  /\ up[h] = "down"
  /\ IF Enabled
     THEN /\ up' = [up EXCEPT ![h] = "booting"]
          /\ job' = [job EXCEPT ![h] = [NoJob EXCEPT !.kind = "boot", !.previous = Selected]]
          /\ Goto(h, "restore")
     ELSE up' = [up EXCEPT ![h] = "up"] /\ UNCHANGED <<job, pc>>
  /\ KeepRequests /\ UNCHANGED <<dbVars, bound, slots, trouble, overtaken, faults>>

-----------------------------------------------------------------------------
(* Requests.                                                               *)

Carry(r, p, a) ==
  /\ req' = [req EXCEPT ![r] = p]
  /\ ask' = [ask EXCEPT ![r] = IF p = "idle" THEN NoAsk ELSE a]
Move(r, p) == Carry(r, p, ask[r])
KeepManagement == UNCHANGED <<pc, job, trouble, overtaken>>

(* authorized_executor: the version the catalog has enabled, as it is bound. *)
Authorize(r) ==
  /\ req[r] = "idle" /\ up[HostOf[r]] = "up"
  /\ Enabled /\ bound[HostOf[r]] = installed.digest
  /\ Carry(r, "ready", [NoAsk EXCEPT !.digest = installed.digest])
  /\ KeepManagement /\ UNCHANGED <<dbVars, hostVars, faults>>

(* restored_slot: an instance that is not the active release is an error;   *)
(* an empty slot is loaded again from the release record.                   *)
EnsureSlot(r) ==
  LET current == slot[HostOf[r]]
  IN /\ req[r] = "ready"
     /\ IF current # None
        THEN Move(r, IF current = revision THEN "handle" ELSE "idle")
        ELSE Carry(r, IF revision = None THEN "handle" ELSE "resources",
                   [ask[r] EXCEPT !.stored = revision])
     /\ KeepManagement /\ UNCHANGED <<dbVars, hostVars, faults>>

BindStored(r) ==
  /\ req[r] = "resources"
  /\ IF Fits(ask[r].stored)
     THEN Migrate(ask[r].stored) /\ Move(r, "reload")
     ELSE UNCHANGED applied /\ Move(r, "idle")
  /\ KeepManagement /\ UNCHANGED <<installed, revision, hostVars, faults>>

(* slot.restore reads the record once more and loads what it finds there,   *)
(* with the resources bound for what was read before.                       *)
Reload(r) ==
  /\ req[r] = "reload" /\ QuietOn(HostOf[r])
  /\ IF revision = None THEN UNCHANGED slots ELSE Load(HostOf[r], revision)
  /\ Move(r, "handle")
  /\ KeepManagement /\ UNCHANGED <<dbVars, up, bound, faults>>

(* After an error the slot is cleaned, then the request is answered or, when *)
(* the instance was used up before the request reached it, tried once more.  *)
Retried(r) == IF ask[r].retried THEN "unload" ELSE "retry"
LosesInstance(r) == Move(r, Retried(r))

(* slot.handle: under the lease, on an instance of the requested version. *)
Handle(r) ==
  LET current == slot[HostOf[r]]
  IN /\ req[r] = "handle"
     /\ IF current = None \/ revision # ask[r].digest
        THEN Move(r, IF ask[r].retried THEN "idle" ELSE "unload")
        ELSE IF current # revision THEN Move(r, "unload")
        ELSE IF HostOf[r] \in broken THEN LosesInstance(r)
        ELSE Move(r, "run")
     /\ KeepManagement /\ UNCHANGED <<dbVars, hostVars, faults>>

Respond(r) ==
  /\ req[r] = "run"
  /\ Move(r, "idle")
  /\ KeepManagement /\ UNCHANGED <<dbVars, hostVars, faults>>

(* Calls of an instance run one after the other: one that has waited behind *)
(* a failed call finds the execution gone.                                  *)
Displaced(r) ==
  /\ req[r] = "run" /\ HostOf[r] \in broken
  /\ LosesInstance(r)
  /\ KeepManagement /\ UNCHANGED <<dbVars, hostVars, faults>>

(* slot.handle has dropped the instance that failed; the executor then      *)
(* unloads whatever the slot holds by that time.                            *)
Unload(r) ==
  /\ req[r] \in {"unload", "retry"} /\ QuietOn(HostOf[r])
  /\ Load(HostOf[r], None)
  /\ Carry(r, IF req[r] = "retry" THEN "ready" ELSE "idle", [ask[r] EXCEPT !.retried = TRUE])
  /\ KeepManagement /\ UNCHANGED <<dbVars, up, bound, faults>>

-----------------------------------------------------------------------------
(* Failures.                                                               *)

Spend == faults > 0 /\ faults' = faults - 1
Happens(f) == f \in Faults /\ Spend

(* A candidate that does not pass its checks, or a database error, without  *)
(* effect.                                                                  *)
Refuse(h) ==
  /\ Happens("refused")
  /\ \/ /\ pc[h] \in {"resources", "activate", "withdraw"}
        /\ Goto(h, "recover") /\ KeepJob /\ UNCHANGED <<up, bound>>
     \/ /\ pc[h] = "commit"
        /\ Compensate(h) /\ UNCHANGED <<up, bound>>
     \/ /\ pc[h] \in {"rebind", "reactivate"}
        /\ Unrestored(h)
  /\ KeepRequests /\ UNCHANGED <<dbVars, slots>>

(* A database error in a request, or a release that changes while the       *)
(* instance for it is made: in slot.handle it costs the instance.           *)
RefuseRequest(r) ==
  /\ Happens("refused")
  /\ \/ req[r] \in {"resources", "reload"} /\ Move(r, "idle")
     \/ req[r] = "handle" /\ Move(r, IF ask[r].retried THEN "idle" ELSE "unload")
  /\ KeepManagement /\ UNCHANGED <<dbVars, hostVars>>

(* A database has committed but the answer is lost, and the action goes on  *)
(* as if it had failed: first the release record, then the catalog.         *)
Lose(h) ==
  /\ Happens("lost")
  /\ \/ /\ pc[h] = "activate" /\ Quiet /\ Follows(job[h].target)
        /\ revision' = job[h].target
        /\ Goto(h, "recover") /\ KeepJob /\ UNCHANGED <<installed, up, bound>>
     \/ /\ pc[h] = "withdraw" /\ Quiet
        /\ revision' = None
        /\ Goto(h, "recover") /\ KeepJob /\ UNCHANGED <<installed, up, bound>>
     \/ /\ pc[h] = "reactivate" /\ Quiet /\ Follows(job[h].previous)
        /\ revision' = job[h].previous /\ Unrestored(h) /\ UNCHANGED installed
  /\ KeepRequests /\ UNCHANGED <<applied, slots>>

LoseRecord(h) ==
  /\ Happens("lost")
  /\ pc[h] = "commit" /\ MayRecord(h)
  /\ Record(h)
  /\ IF NothingToRecover(h) THEN Overtake(h, NoJob) /\ Goto(h, "idle")
     ELSE Overtake(h, job[h]) /\ Goto(h, "recover")
  /\ trouble' = [trouble EXCEPT ![h] = TRUE]
  /\ KeepRequests /\ UNCHANGED <<revision, applied, hostVars>>

(* The HTTP handler is dropped with its client: no compensation runs. *)
Cancel(h) ==
  /\ Happens("cancel")
  /\ pc[h] # "idle" /\ job[h].kind \notin {"boot", "upgrade"}
  /\ Return(h, TRUE)
  /\ KeepRequests /\ UNCHANGED <<dbVars, hostVars>>

(* A guest that traps or exceeds its time takes its execution with it. *)
Trap(r) ==
  /\ Happens("trap")
  /\ req[r] = "run"
  /\ Move(r, "unload")
  /\ broken' = broken \cup {HostOf[r]}
  /\ KeepManagement /\ UNCHANGED <<dbVars, up, bound, slot>>

Crash(h) ==
  /\ "restart" \in May[h] /\ Spend
  /\ up[h] # "down"
  /\ up' = [up EXCEPT ![h] = "down"]
  /\ bound' = [bound EXCEPT ![h] = None]
  /\ Load(h, None)
  /\ Return(h, pc[h] # "idle")
  /\ req' = [r \in Request |-> IF HostOf[r] = h THEN "idle" ELSE req[r]]
  /\ ask' = [r \in Request |-> IF HostOf[r] = h THEN NoAsk ELSE ask[r]]
  /\ UNCHANGED dbVars

Next ==
  \/ \E h \in Host :
       \/ Begin(h) \/ ReadGeneration(h) \/ ReadPrevious(h) \/ BindResources(h) \/ Activate(h)
       \/ Withdraw(h) \/ Commit(h) \/ Bind(h) \/ Recover(h) \/ Restore(h) \/ Rebind(h)
       \/ Reactivate(h) \/ Boot(h) \/ Refuse(h) \/ Lose(h) \/ LoseRecord(h) \/ Cancel(h)
       \/ Crash(h)
  \/ \E r \in Request :
       \/ Authorize(r) \/ EnsureSlot(r) \/ BindStored(r) \/ Reload(r) \/ Handle(r)
       \/ Respond(r) \/ Displaced(r) \/ Unload(r) \/ RefuseRequest(r) \/ Trap(r)

Spec == Init /\ [][Next /\ UNCHANGED setting]_vars

-----------------------------------------------------------------------------
(* Properties.                                                             *)

(* A request executes the version its tenant has enabled, or the candidate  *)
(* of an action that has not ended: never one that is disabled, removed or  *)
(* replaced, although it is authorised long before it runs (dispatch.rs     *)
(* against slot.rs).  Excused is a host that has reported a failed          *)
(* compensation, lost the catalog's answer or dropped an action half way.   *)
Settling(h) == pc[h] \in {"commit", "recover", "restore", "rebind", "reactivate"}
ServesEnabledVersion ==
  \A r \in Request : req[r] = "run" =>
    \/ Selected = ask[r].digest
    \/ \E h \in Host : trouble[h] \/ (Settling(h) /\ job[h].target = ask[r].digest)

(* When the only host that manages the plugin or restarts is between two actions, the   *)
(* enabled version is the active release and the one its routes are bound   *)
(* to (installation.rs: the record is the commit point, a failure restores  *)
(* the slot; dispatch.rs restore: a restart repairs whatever it finds).     *)
Alone(h) == \A g \in Host \ {h} : May[g] = {}
StoresAgreeAtRest ==
  \A h \in Host :
    Alone(h) /\ up[h] = "up" /\ pc[h] = "idle" /\ ~trouble[h] /\ Enabled
      => revision = installed.digest /\ bound[h] = installed.digest

(* The schema is never behind the active release, so a host may always load *)
(* it (resources_verified runs before every activation).                    *)
SchemaCoversRelease == revision # None => IsPrefix(Migrations[revision], applied)

(* A startup stops only at a failure of its own or at a schema that has     *)
(* outgrown the enabled version (Components::restore passes every error on).*)
StartupStops(h) == up[h] = "booting" /\ up'[h] = "down"
OutgrownOnly ==
  [][\A h \in Host : StartupStops(h) /\ faults' = faults => ~Fits(job[h].previous)]_vars

(* A startup that meets no failure of its own comes up (components README:  *)
(* a restart restores the slots from the installation records).             *)
RestartRestores == [][\A h \in Host : StartupStops(h) => faults' # faults]_vars

(* A compensation that meets no failure of its own works: restore repairs   *)
(* what an unfinished commit has left behind (components README, wasm.rs    *)
(* restore).                                                                *)
CompensationRepairs ==
  [][\A h \in Host : ~trouble[h] /\ trouble'[h] => faults' # faults]_vars

(* No action records its outcome over a change that another host has made   *)
(* since the action was selected (components README: installing and         *)
(* disabling compare generations and refuse to override concurrent choices).*)
RefusesOvertaken ==
  [][\A h \in Host : pc[h] = "commit" /\ pc'[h] = "bind" => ~overtaken[h]]_vars
=============================================================================
