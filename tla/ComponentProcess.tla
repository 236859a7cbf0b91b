--------------------------- MODULE ComponentProcess ---------------------------
(***************************************************************************)
(* The containers of one plugin on one host: executors/sidecar.rs over     *)
(* components/process and the supervisor's part of it.  A container is     *)
(* named by its data space and its digest; the host remembers which one    *)
(* serves a tenant (instances), which ones it has to stop (owned), and     *)
(* runs the broker and the database forwarder behind each (gateway).  The  *)
(* supervisor is another process: a call to it that the host gives up may  *)
(* have had its effect all the same, and the containers outlive the host.  *)
(*                                                                         *)
(* Installing, removing and validating a candidate for a publication come  *)
(* one at a time (the mutations lock); each is a task of several calls.    *)
(***************************************************************************)
EXTENDS Naturals

CONSTANTS Tenant, Digest,
          Validation,   \* the data space "publication-validation"
          Faults,       \* the kinds of failure that occur
          MaxFaults,    \* bound on their number
          None

Fault == {"refused", "unanswered", "sick", "cancel", "exit", "crash"}

ASSUME NamesAssumption == Validation \notin Tenant /\ None \notin Digest \cup Tenant \cup {Validation}
ASSUME BoundAssumption == Faults \subseteq Fault /\ MaxFaults \in Nat

Id == (Tenant \cup {Validation}) \X Digest

VARIABLES
  container,  \* per id: "none", "current" when it was started with the last
              \* configuration written for it, "stale" when with an earlier one
  gateway,    \* the ids whose broker and forwarder run
  listed,     \* Processes.instances: the digest that serves a tenant
  owned,      \* Processes.owned
  enabled,    \* the catalog: the version a tenant has enabled
  phase,      \* the host
  task,       \* the call under the mutations lock and the wait it is in
  trouble,    \* the tenants whose last action was left half done, until a startup
  faults      \* failures left

host == <<gateway, listed, owned>>
vars == <<container, host, enabled, phase, task, trouble, faults>>

Idle == [kind |-> "none", at |-> "idle", space |-> None, digest |-> None, previous |-> None]
Task == [kind : {"none", "install", "remove", "recovery", "withdrawal", "boot", "validate"},
         at : {"idle", "unlist", "restore", "prepare", "configure", "start", "health", "cleanup",
               "commit"},
         space : Tenant \cup {Validation, None},
         digest : Digest \cup {None}, previous : Digest \cup {None}]

(* An entry holds the jobs of its gateway. *)
TypeOK ==
  /\ container \in [Id -> {"none", "current", "stale"}]
  /\ gateway \subseteq Id /\ owned \subseteq Id
  /\ listed \in [Tenant -> Digest \cup {None}]
  /\ \A t \in Tenant : listed[t] # None => <<t, listed[t]>> \in gateway
  /\ enabled \in [Tenant -> Digest \cup {None}]
  /\ phase \in {"down", "stopped", "booting", "up", "closing", "failing"}
  /\ task \in Task
  /\ trouble \subseteq Tenant
  /\ faults \in 0 .. MaxFaults

-----------------------------------------------------------------------------
At(p) == task.at = p
Goto(p) == task' = [task EXCEPT !.at = p]
End == task' = Idle
Candidate == <<task.space, task.digest>>
Running(id) == container[id] # "none"

(* The supervisor stops the container of an id, or starts it unless it runs. *)
Without(ids) == [id \in Id |-> IF id \in ids THEN "none" ELSE container[id]]
With(id) == [container EXCEPT ![id] = IF @ = "none" THEN "current" ELSE @]

(* Processes::stop asks for the instance that is listed, the other calls    *)
(* for the id of their own.                                                 *)
Entry(t) == {<<t, d>> : d \in {listed[t]} \ {None}}
Effect ==
  CASE At("unlist") -> Without(Entry(task.space))
    [] At("prepare") \/ At("cleanup") -> Without({Candidate})
    [] At("start") -> With(Candidate)
    [] OTHER -> container

Init ==
  /\ container = [id \in Id |-> "none"]
  /\ gateway = {} /\ listed = [t \in Tenant |-> None] /\ owned = {}
  /\ enabled \in [Tenant -> Digest \cup {None}]
  /\ phase = "stopped"
  /\ task = Idle /\ trouble = {}
  /\ faults = MaxFaults

-----------------------------------------------------------------------------
(* How a call ends.                                                        *)

(* recover_execution: a failed action goes back to the version that was     *)
(* enabled before it, or takes its candidate back.                          *)
Recovery ==
  IF task.previous = None
  THEN [Idle EXCEPT !.kind = "withdrawal", !.at = "unlist", !.space = task.space]
  ELSE [Idle EXCEPT !.kind = "recovery", !.at = "restore", !.space = task.space,
                    !.digest = task.previous]
FailQuietly ==
  /\ End
  /\ phase' = IF task.kind = "boot" THEN "failing" ELSE phase
  /\ UNCHANGED trouble
Fail ==
  /\ task' = IF task.kind \in {"install", "remove"} THEN Recovery ELSE Idle
  /\ phase' = IF task.kind = "boot" THEN "failing" ELSE phase
  /\ trouble' = IF task.kind \in {"recovery", "withdrawal"} THEN trouble \cup {task.space}
                ELSE trouble

Succeed ==
  /\ IF task.kind = "install" THEN Goto("commit") ELSE End
  /\ UNCHANGED <<phase, trouble>>

-----------------------------------------------------------------------------
(* Calls begin.                                                            *)

Begin(kind, at, space, digest, previous) ==
  /\ At("idle")
  /\ task' = [kind |-> kind, at |-> at, space |-> space, digest |-> digest, previous |-> previous]
  /\ UNCHANGED <<container, host, enabled, phase, trouble, faults>>

Install(t, d) == phase = "up" /\ Begin("install", "unlist", t, d, enabled[t])
Remove(t) ==
  phase = "up" /\ enabled[t] # None /\ Begin("remove", "unlist", t, None, enabled[t])
Validate(d) == phase = "up" /\ Begin("validate", "prepare", Validation, d, None)

-----------------------------------------------------------------------------
(* Stopping what is listed, and starting a candidate.                      *)

(* Processes::stop, under the instances lock: the container, then its       *)
(* gateway, then the entry.                                                 *)
Stop(t) == container' = Effect /\ owned' = owned \ Entry(t) /\ gateway' = gateway \ Entry(t)
Stopped ==
  /\ CASE task.kind = "remove" -> Goto("commit")
       [] task.kind = "withdrawal" -> End
       [] OTHER -> Goto("prepare")
  /\ UNCHANGED <<enabled, phase, trouble, faults>>
UnlistKeepingEntry == At("unlist") /\ Stop(task.space) /\ Stopped /\ UNCHANGED listed
Unlist ==
  /\ At("unlist")
  /\ Stop(task.space)
  /\ listed' = [listed EXCEPT ![task.space] = None]
  /\ Stopped

(* Processes::restore keeps an instance of that version which is healthy. *)
Kept == listed[task.space] = task.digest /\ Running(Candidate)
Restore ==
  /\ At("restore")
  /\ IF Kept THEN Succeed ELSE Goto("unlist") /\ UNCHANGED <<phase, trouble>>
  /\ UNCHANGED <<container, host, enabled, faults>>

(* prepare first stops whatever runs under its name. *)
PrepareAtOnce ==
  /\ At("prepare")
  /\ Goto("configure")
  /\ UNCHANGED <<container, host, enabled, phase, trouble, faults>>
Prepare ==
  /\ At("prepare")
  /\ container' = Effect
  /\ owned' = owned \ {Candidate}
  /\ Goto("configure")
  /\ UNCHANGED <<gateway, listed, enabled, phase, trouble, faults>>

(* A new token is written for the container, and the gateway that expects   *)
(* it starts.  From here on the host answers for the container.             *)
OwnLater(id) == UNCHANGED owned
Own(id) == owned' = owned \cup {id}
Configure ==
  /\ At("configure")
  /\ container' = [container EXCEPT ![Candidate] = IF @ = "current" THEN "stale" ELSE @]
  /\ gateway' = gateway \cup {Candidate}
  /\ Own(Candidate)
  /\ Goto("start")
  /\ UNCHANGED <<listed, enabled, phase, trouble, faults>>

(* supervision::start leaves a container of that name alone if it runs. *)
Start ==
  /\ At("start")
  /\ container' = Effect
  /\ Goto("health")
  /\ UNCHANGED <<host, enabled, phase, trouble, faults>>

(* A healthy container that describes itself gets listed; a validated one   *)
(* has done its work.                                                       *)
Healthy ==
  /\ At("health") /\ Running(Candidate)
  /\ IF task.kind = "validate"
     THEN Goto("cleanup") /\ UNCHANGED <<listed, phase, trouble>>
     ELSE listed' = [listed EXCEPT ![task.space] = task.digest] /\ Succeed
  /\ UNCHANGED <<container, gateway, owned, enabled, faults>>

Unhealthy ==
  /\ At("health") /\ ~Running(Candidate)
  /\ Goto("cleanup")
  /\ UNCHANGED <<container, host, enabled, phase, trouble, faults>>

CleanUp ==
  /\ At("cleanup")
  /\ container' = Effect
  /\ owned' = owned \ {Candidate} /\ gateway' = gateway \ {Candidate}
  /\ Fail
  /\ UNCHANGED <<listed, enabled, faults>>

(* The catalog's record (installation.rs). *)
Commit ==
  /\ At("commit")
  /\ enabled' = [enabled EXCEPT ![task.space] = task.digest]
  /\ trouble' = trouble \ {task.space}
  /\ End
  /\ UNCHANGED <<container, host, phase, faults>>

-----------------------------------------------------------------------------
(* The host.                                                               *)

Boot ==
  /\ phase \in {"down", "stopped"}
  /\ phase' = "booting"
  /\ UNCHANGED <<container, host, enabled, task, trouble, faults>>

(* Components::restore, one enabled version after the other. *)
BootTenant(t) ==
  /\ phase = "booting" /\ enabled[t] # None /\ listed[t] = None
  /\ Begin("boot", "restore", t, enabled[t], None)

Booted == phase = "booting" /\ At("idle") /\ listed = enabled

(* supervision::reconcile stops every container that is not listed. *)
Strays == {id \in Id : Running(id) /\ id \notin UNION {Entry(t) : t \in Tenant}}
Reconcile ==
  /\ Booted
  /\ container' = Without(Strays)
  /\ phase' = "up"
  /\ trouble' = {}
  /\ UNCHANGED <<host, enabled, task, faults>>

(* Components::shutdown waits for the mutations lock. *)
Shutdown ==
  /\ phase = "up" /\ At("idle")
  /\ phase' = "closing"
  /\ UNCHANGED <<container, host, enabled, task, trouble, faults>>

(* A startup that fails releases what it has started, not what a crash has  *)
(* left.                                                                    *)
Leaving == phase \in {"closing", "failing"}
Forget == gateway' = {} /\ listed' = [t \in Tenant |-> None] /\ owned' = {}
Release ==
  /\ Leaving
  /\ container' = Without(owned)
  /\ Forget
  /\ phase' = IF phase = "closing" THEN "stopped" ELSE "down"
  /\ UNCHANGED <<enabled, task, trouble, faults>>

-----------------------------------------------------------------------------
(* Failures.                                                               *)

Happens(f) == f \in Faults /\ faults > 0 /\ faults' = faults - 1

(* The supervisor refuses, the resources cannot be bound, or the catalog    *)
(* does not take the record.                                                *)
Refuse ==
  /\ Happens("refused")
  /\ \/ At("unlist") /\ Entry(task.space) # {} /\ Fail /\ UNCHANGED gateway
     \/ task.at \in {"prepare", "configure", "commit"} /\ Fail /\ UNCHANGED gateway
     \/ At("start") /\ Goto("cleanup") /\ UNCHANGED <<gateway, phase, trouble>>
     \/ At("cleanup") /\ gateway' = gateway \ {Candidate} /\ Fail
  /\ UNCHANGED <<container, listed, owned, enabled>>

(* The supervisor does what it was asked, after the host has given up. *)
Unanswered ==
  /\ Happens("unanswered")
  /\ Effect # container
  /\ container' = Effect
  /\ IF At("start")
     THEN Goto("cleanup") /\ UNCHANGED <<gateway, phase, trouble>>
     ELSE Fail /\ gateway' = IF At("cleanup") THEN gateway \ {Candidate} ELSE gateway
  /\ UNCHANGED <<listed, owned, enabled>>

(* A container runs but does not get healthy, or does not describe itself. *)
Sicken ==
  /\ Happens("sick")
  /\ \/ At("health") /\ Running(Candidate) /\ Goto("cleanup")
     \/ At("restore") /\ Kept /\ Goto("unlist")
  /\ UNCHANGED <<container, host, enabled, phase, trouble>>

(* The handler is dropped with its client.  What it had prepared goes with  *)
(* it, its call to the supervisor may still have its effect.                *)
Dropped == IF task.at \in {"start", "health", "cleanup"} THEN gateway \ {Candidate} ELSE gateway
Cancel ==
  /\ Happens("cancel")
  /\ task.kind \notin {"none", "boot"}
  /\ container' \in {container, Effect}
  /\ gateway' = Dropped
  /\ trouble' = IF task.kind = "validate" THEN trouble ELSE trouble \cup {task.space}
  /\ End
  /\ UNCHANGED <<listed, owned, enabled, phase>>

Exit(id) ==
  /\ Happens("exit")
  /\ Running(id)
  /\ container' = Without({id})
  /\ UNCHANGED <<host, enabled, phase, task, trouble>>

(* The containers stay, and a call under way may still have its effect. *)
Crash ==
  /\ Happens("crash")
  /\ phase \notin {"down", "stopped"}
  /\ container' \in {container, Effect}
  /\ Forget
  /\ phase' = "down" /\ End
  /\ UNCHANGED <<enabled, trouble>>

(* Some of the containers cannot be stopped: a startup fails, and a host    *)
(* that is leaving reports it and leaves.                                   *)
StopsSome(ids) == \E some \in SUBSET ids : some # ids /\ container' = Without(some)
ReconcileFails ==
  /\ Happens("refused")
  /\ Booted
  /\ StopsSome(Strays)
  /\ phase' = "failing"
  /\ UNCHANGED <<host, enabled, task, trouble>>

ReleaseFails ==
  /\ Happens("refused")
  /\ Leaving
  /\ StopsSome(owned)
  /\ Forget
  /\ phase' = "down"
  /\ UNCHANGED <<enabled, task, trouble>>

Next ==
  \/ \E t \in Tenant : (\E d \in Digest : Install(t, d)) \/ Remove(t) \/ BootTenant(t)
  \/ \E d \in Digest : Validate(d)
  \/ Unlist \/ Restore \/ Prepare \/ Configure \/ Start \/ Healthy \/ Unhealthy \/ CleanUp
  \/ Commit \/ Refuse \/ Unanswered \/ Sicken \/ Cancel
  \/ \E id \in Id : Exit(id)
  \/ Boot \/ Reconcile \/ Shutdown \/ Release \/ Crash \/ ReconcileFails \/ ReleaseFails

Spec == Init /\ [][Next]_vars

-----------------------------------------------------------------------------
(* Properties.                                                             *)

(* At most one container of a tenant's plugin reaches the tenant's database *)
(* and the broker, and the one its requests are sent to holds the token     *)
(* they carry (instance.rs stop, prepare; README: credentials, forwarder    *)
(* and broker are made anew at every start).                                *)
Connected(t) == {d \in Digest : Running(<<t, d>>) /\ <<t, d>> \in gateway}
OneConnected ==
  \A t \in Tenant :
    /\ \A d, e \in Connected(t) : d = e
    /\ listed[t] # None => container[<<t, listed[t]>>] # "stale"

(* A host that is up answers for every container that runs: its shutdown    *)
(* finds and stops them all, whatever actions were dropped or failed before *)
(* (instance.rs owned: responsible from the moment a start is sent).        *)
NothingLeftBehind ==
  \A id \in Id : Running(id) =>
    /\ phase = "up" => id \in owned
    /\ phase # "stopped"

(* When no action runs and none was left half done, a tenant is served by   *)
(* the version it has enabled, through a gateway, and a disabled plugin by  *)
(* none (README: a failed installation restores the version that was        *)
(* enabled, and no retry brings back one that is disabled).                 *)
ListedIsEnabled ==
  phase = "up" /\ At("idle") =>
    \A t \in Tenant \ trouble :
      /\ listed[t] = enabled[t]
      /\ \A d \in Digest : <<t, d>> \in gateway <=> d = enabled[t]
=============================================================================
