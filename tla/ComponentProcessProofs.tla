------------------------ MODULE ComponentProcessProofs ------------------------
(***************************************************************************)
(* Proofs about ComponentProcess, for any tenants, versions and number of  *)
(* failures.                                                               *)
(*                                                                         *)
(* Four facts carry the argument.  Shape says what a task is about at each *)
(* of its waits.  Gateways says that a gateway runs exactly for what is    *)
(* listed and for the candidate between its configuration and its end.     *)
(* Answered says that from its startup to its shutdown the host owns every *)
(* container that runs, and that none was started under an earlier         *)
(* configuration.  Chosen says that a tenant without trouble is served by  *)
(* its enabled version unless the task is about it, and that a task knows  *)
(* the version to go back to.  The lemmas have one action each; the ends   *)
(* of a start share FailedStartStep and the stops share EffectFacts.       *)
(***************************************************************************)
EXTENDS ComponentProcess, TLAPS

(* The waits of a task that brings a container up. *)
Preparing == {"prepare", "configure", "start", "health", "cleanup"}

(* What a task is about, by its kind and by its wait. *)
Shape ==
  /\ task.kind = "none" => task = Idle
  /\ At("idle") => task.kind = "none"
  /\ task.kind = "validate" => task.space = Validation /\ task.at \in Preparing
  /\ task.kind \notin {"none", "validate"} => task.space \in Tenant
  /\ At("restore") => task.kind \in {"recovery", "boot"}
  /\ At("commit") => task.kind \in {"install", "remove"}
  /\ task.at \in Preparing => task.kind \in {"install", "recovery", "boot", "validate"}
  /\ task.kind \in {"install", "recovery", "boot", "validate"} => task.digest \in Digest
  /\ task.kind \in {"remove", "withdrawal"} =>
       task.digest = None /\ task.at \in {"unlist", "commit"}
  /\ task.kind \notin {"none", "boot"} => phase = "up"
  /\ task.kind = "boot" => phase = "booting"

(* What has a gateway: the candidate has one from its configuration on. *)
InHand == IF task.at \in {"start", "health", "cleanup"} THEN {Candidate} ELSE {}
Gateways ==
  /\ \A id \in Id :
       id \in gateway <=> (id \in InHand \/ (id[1] \in Tenant /\ listed[id[1]] = id[2]))
  /\ task.at \in Preparing /\ task.space \in Tenant => listed[task.space] = None

(* The host answers for what runs (instance.rs owned). *)
Answered ==
  /\ \A id \in Id : container[id] # "stale"
  /\ task.at \in {"configure", "start"} => ~Running(Candidate)
  /\ \A t \in Tenant : listed[t] # None => <<t, listed[t]>> \in owned
  /\ InHand \subseteq owned
  /\ phase \in {"up", "closing"} => \A id \in Id : Running(id) => id \in owned
  /\ phase = "stopped" => \A id \in Id : ~Running(id)

(* What is listed is what the database says is enabled. *)
Chosen ==
  /\ phase = "up" => \A t \in Tenant \ trouble : t # task.space => listed[t] = enabled[t]
  /\ task.kind \in {"install", "remove"} => task.previous = enabled[task.space]
  /\ task.kind = "recovery" => task.digest = enabled[task.space]
  /\ task.kind = "withdrawal" => enabled[task.space] = None
  /\ At("commit") => listed[task.space] = task.digest

(* The inductive invariant. *)
IInv == TypeOK /\ Shape /\ Gateways /\ Answered /\ Chosen

LEMMA InstallStep ==
  ASSUME IInv, NEW t \in Tenant, NEW d \in Digest, Install(t, d)
  PROVE  IInv'
<1>1. TypeOK'
  BY DEF IInv, TypeOK, Task, host, Install, Begin
<1>2. Shape'
  BY DEF Shape, At, Install, Begin
<1>3. Gateways'
  BY DEF IInv, Shape, Preparing, Gateways, InHand, host, Install, Begin
<1>4. Answered'
  BY DEF IInv, InHand, Answered, Running, host, Install, Begin
<1>5. Chosen'
  BY NamesAssumption DEF IInv, Shape, Chosen, At, Idle, host, Install, Begin
<1> QED  BY <1>1, <1>2, <1>3, <1>4, <1>5 DEF IInv

LEMMA RemoveStep ==
  ASSUME IInv, NEW t \in Tenant, Remove(t)
  PROVE  IInv'
<1>1. TypeOK'
  BY DEF IInv, TypeOK, Task, host, Remove, Begin
<1>2. Shape'
  BY DEF Shape, Preparing, At, Remove, Begin
<1>3. Gateways'
  BY DEF IInv, Shape, Preparing, Gateways, InHand, host, Remove, Begin
<1>4. Answered'
  BY DEF IInv, InHand, Answered, Running, host, Remove, Begin
<1>5. Chosen'
  BY NamesAssumption DEF IInv, Shape, Chosen, At, Idle, host, Remove, Begin
<1> QED  BY <1>1, <1>2, <1>3, <1>4, <1>5 DEF IInv

LEMMA BootTenantStep ==
  ASSUME IInv, NEW t \in Tenant, BootTenant(t)
  PROVE  IInv'
<1>1. TypeOK'
  BY DEF IInv, TypeOK, Task, host, BootTenant, Begin
<1>2. Shape'
  BY DEF IInv, TypeOK, Shape, At, BootTenant, Begin
<1>3. Gateways'
  BY DEF IInv, Shape, Preparing, Gateways, InHand, host, BootTenant, Begin
<1>4. Answered'
  BY DEF IInv, InHand, Answered, host, BootTenant, Begin
<1>5. Chosen'
  BY DEF Chosen, At, BootTenant, Begin
<1> QED  BY <1>1, <1>2, <1>3, <1>4, <1>5 DEF IInv

LEMMA ValidateStep ==
  ASSUME IInv, NEW d \in Digest, Validate(d)
  PROVE  IInv'
<1>1. TypeOK'
  BY DEF IInv, TypeOK, Task, host, Validate, Begin
<1>2. Shape'
  BY DEF Shape, Preparing, At, Validate, Begin
<1>3. Gateways'
  BY NamesAssumption DEF IInv, Shape, Preparing, Gateways, InHand, host, Validate, Begin
<1>4. Answered'
  BY DEF IInv, InHand, Answered, Running, host, Validate, Begin
<1>5. Chosen'
  BY NamesAssumption DEF IInv, Shape, Chosen, At, Idle, host, Validate, Begin
<1> QED  BY <1>1, <1>2, <1>3, <1>4, <1>5 DEF IInv

LEMMA UnlistStep ==
  ASSUME IInv, Unlist
  PROVE  IInv'
<1>1. TypeOK'
  BY DEF IInv, TypeOK, Task, Shape, Preparing, At, Goto, End, Idle, Without, Entry, Unlist,
         Stop, Stopped, Effect
<1>2. Shape'
  BY DEF IInv, TypeOK, Task, Shape, Preparing, At, Goto, End, Idle, Unlist, Stopped
<1>3. Gateways'
  BY NamesAssumption
     DEF IInv, TypeOK, Task, Gateways, InHand, At, Goto, End, Idle, Entry, Id, Unlist, Stop,
         Stopped
<1>4. Answered'
  <2> DEFINE t == task.space
  <2>1. /\ t \in Tenant /\ task'.at \notin {"configure", "start", "health", "cleanup"}
        /\ listed' = [listed EXCEPT ![t] = None]
        /\ container' = Without(Entry(t)) /\ owned' = owned \ Entry(t)
        /\ UNCHANGED phase
    BY NamesAssumption, SMTT(20)
       DEF IInv, TypeOK, Task, Shape, Preparing, Unlist, Stop, Stopped, Effect, At, Goto,
           End, Idle
  <2>2. \A id \in Entry(t) : id[1] = t /\ id[2] = listed[t]
    BY <2>1 DEF Entry
  <2>3. \A id \in Id : container'[id] \in {container[id], "none"}
                      /\ (id \in Entry(t) => container'[id] = "none")
    BY <2>1 DEF Without
  <2>4. \A u \in Tenant : listed'[u] # None => <<u, listed'[u]>> \in owned'
    BY <2>1, <2>2 DEF IInv, Answered, TypeOK
  <2>5. InHand' = {}
    BY <2>1 DEF InHand
  <2> QED  BY <2>1, <2>3, <2>4, <2>5 DEF IInv, Answered, Running, At
<1>5. Chosen'
  BY DEF IInv, TypeOK, Task, Shape, Chosen, At, Goto, End, Idle, Unlist, Stopped
<1> QED  BY <1>1, <1>2, <1>3, <1>4, <1>5 DEF IInv

LEMMA RestoreStep ==
  ASSUME IInv, Restore
  PROVE  IInv'
<1>1. TypeOK'
  BY DEF IInv, TypeOK, Task, Goto, End, Idle, host, Restore, Succeed
<1>2. Shape'
  BY DEF IInv, TypeOK, Task, Shape, Preparing, At, Goto, End, Idle, Restore, Succeed
<1>3. Gateways'
  BY DEF IInv, TypeOK, Task, Preparing, Gateways, InHand, At, Goto, End, Idle, host,
         Restore, Succeed
<1>4. Answered'
  BY DEF IInv, TypeOK, Task, InHand, Answered, Goto, End, Idle, Running, host, Restore,
         Succeed
<1>5. Chosen'
  BY DEF IInv, TypeOK, Task, Shape, Chosen, At, Goto, End, Idle, host, Restore, Kept,
         Succeed
<1> QED  BY <1>1, <1>2, <1>3, <1>4, <1>5 DEF IInv

LEMMA PrepareStep ==
  ASSUME IInv, Prepare
  PROVE  IInv'
<1>1. TypeOK'
  BY DEF IInv, TypeOK, Task, At, Goto, Without, Prepare, Effect
<1>2. Shape'
  BY DEF IInv, Shape, Preparing, At, Goto, Prepare
<1>3. Gateways'
  BY DEF IInv, Preparing, Gateways, InHand, At, Goto, Prepare
<1>4. Answered'
  BY DEF IInv, Shape, Preparing, Gateways, InHand, Answered, At, Goto, Candidate, Running,
         Without, Id, Prepare, Effect
<1>5. Chosen'
  BY DEF IInv, Chosen, At, Goto, Prepare
<1> QED  BY <1>1, <1>2, <1>3, <1>4, <1>5 DEF IInv

LEMMA ConfigureStep ==
  ASSUME IInv, Configure
  PROVE  IInv'
<1>1. TypeOK'
  BY DEF IInv, TypeOK, Task, Shape, At, Goto, Idle, Candidate, Id, Configure, Own
<1>2. Shape'
  BY DEF IInv, Shape, Preparing, At, Goto, Configure
<1>3. Gateways'
  BY DEF IInv, Preparing, Gateways, InHand, At, Goto, Candidate, Configure
<1>4. Answered'
  BY DEF IInv, InHand, Answered, At, Goto, Candidate, Running, Configure, Own
<1>5. Chosen'
  BY DEF IInv, Chosen, At, Goto, Configure
<1> QED  BY <1>1, <1>2, <1>3, <1>4, <1>5 DEF IInv

LEMMA StartStep ==
  ASSUME IInv, Start
  PROVE  IInv'
<1>1. TypeOK'
  BY DEF IInv, TypeOK, Task, Shape, At, Goto, Idle, Candidate, Id, host, Start, Effect, With
<1>2. Shape'
  BY DEF IInv, Shape, Preparing, At, Goto, Start
<1>3. Gateways'
  BY DEF IInv, Preparing, Gateways, InHand, At, Goto, Candidate, host, Start
<1>4. Answered'
  BY BoundAssumption
     DEF IInv, Shape, InHand, Answered, At, Goto, Idle, Candidate, Running, host, Start,
         Effect, With
<1>5. Chosen'
  BY DEF IInv, Chosen, At, Goto, host, Start
<1> QED  BY <1>1, <1>2, <1>3, <1>4, <1>5 DEF IInv

LEMMA HealthyStep ==
  ASSUME IInv, Healthy
  PROVE  IInv'
<1>1. TypeOK'
  BY DEF IInv, TypeOK, Task, Gateways, InHand, Answered, At, Goto, End, Idle, Candidate,
         Healthy, Succeed
<1>2. Shape'
  BY DEF IInv, TypeOK, Task, Shape, Preparing, At, Goto, End, Idle, Healthy, Succeed
<1>3. Gateways'
  BY NamesAssumption
     DEF IInv, TypeOK, Task, Shape, Preparing, Gateways, InHand, At, Goto, End, Idle,
         Candidate, Id, Healthy, Succeed
<1>4. Answered'
  BY DEF IInv, TypeOK, Task, InHand, Answered, At, Goto, End, Idle, Candidate, Running,
         Healthy, Succeed
<1>5. Chosen'
  BY DEF IInv, TypeOK, Task, Shape, Chosen, At, Goto, End, Idle, Healthy, Succeed
<1> QED  BY <1>1, <1>2, <1>3, <1>4, <1>5 DEF IInv

LEMMA UnhealthyStep ==
  ASSUME IInv, Unhealthy
  PROVE  IInv'
<1>1. TypeOK'
  BY DEF IInv, TypeOK, Task, Goto, host, Unhealthy
<1>2. Shape'
  BY DEF IInv, Shape, Preparing, At, Goto, Unhealthy
<1>3. Gateways'
  BY DEF IInv, Preparing, Gateways, InHand, At, Goto, Candidate, host, Unhealthy
<1>4. Answered'
  BY DEF IInv, InHand, Answered, At, Goto, Candidate, Running, host, Unhealthy
<1>5. Chosen'
  BY DEF IInv, Chosen, At, Goto, host, Unhealthy
<1> QED  BY <1>1, <1>2, <1>3, <1>4, <1>5 DEF IInv

LEMMA FailedStep ==
  ASSUME IInv, Fail, task.kind # "none",
         container' \in [Id -> {"none", "current", "stale"}],
         \A id \in Id : container'[id] \in {container[id], "none"},
         owned' \subseteq owned,
         \A id \in owned : id \in owned' \/ container'[id] = "none",
         \A t \in Tenant : listed[t] # None => <<t, listed[t]>> \in owned',
         gateway' = gateway \ InHand,
         UNCHANGED <<listed, enabled>>, faults' \in 0 .. MaxFaults
  PROVE  IInv'
<1>0. task' \in Task /\ task'.at \notin Preparing
  <2>1. CASE task.kind \in {"install", "remove"}
    <3>1. task' = Recovery /\ task.space \in Tenant /\ task.previous \in Digest \cup {None}
      BY <2>1 DEF IInv, TypeOK, Task, Shape, Fail
    <3>2. task' = [kind |-> IF task.previous = None THEN "withdrawal" ELSE "recovery",
                   at |-> IF task.previous = None THEN "unlist" ELSE "restore",
                   space |-> task.space, digest |-> task.previous, previous |-> None]
      BY <3>1 DEF Recovery, Idle
    <3> QED  BY <3>1, <3>2 DEF Task, Preparing
  <2>2. CASE task.kind \notin {"install", "remove"}
    <3>1. task' = Idle
      BY <2>2 DEF Fail
    <3> QED  BY <3>1, SMTT(20) DEF Idle, Task, Preparing
  <2> QED  BY <2>1, <2>2
<1>1. TypeOK'
  BY <1>0 DEF IInv, TypeOK, Shape, Preparing, Gateways, InHand, Fail, Candidate
<1>2. Shape'
  BY DEF IInv, TypeOK, Shape, Preparing, Chosen, Fail, Recovery, At, Idle
<1>3. Gateways'
  BY NamesAssumption
     DEF IInv, Shape, Preparing, Gateways, InHand, Fail, Recovery, Idle, Candidate
<1>4. Answered'
  BY DEF IInv, InHand, Answered, Fail, Recovery, Idle, Running
<1>5. Chosen'
  BY NamesAssumption DEF IInv, TypeOK, Task, Shape, Chosen, Fail, Recovery, At, Idle
<1> QED  BY <1>1, <1>2, <1>3, <1>4, <1>5 DEF IInv

LEMMA CommitStep ==
  ASSUME IInv, Commit
  PROVE  IInv'
<1>1. TypeOK'
  BY DEF IInv, TypeOK, Task, Shape, End, Idle, host, Commit
<1>2. Shape'
  BY DEF Shape, Preparing, At, End, Idle, Commit
<1>3. Gateways'
  BY DEF IInv, Preparing, Gateways, InHand, At, End, Idle, host, Commit
<1>4. Answered'
  BY DEF IInv, InHand, Answered, End, Idle, Running, host, Commit
<1>5. Chosen'
  BY DEF IInv, TypeOK, Chosen, At, End, Idle, host, Commit
<1> QED  BY <1>1, <1>2, <1>3, <1>4, <1>5 DEF IInv

LEMMA SickenStep ==
  ASSUME IInv, Sicken
  PROVE  IInv'
<1>1. TypeOK'
  BY BoundAssumption DEF IInv, TypeOK, Task, Goto, host, Sicken, Happens
<1>2. Shape'
  BY DEF IInv, TypeOK, Task, Shape, Preparing, At, Goto, Sicken
<1>3. Gateways'
  BY DEF IInv, TypeOK, Task, Preparing, Gateways, InHand, At, Goto, Candidate, host, Sicken
<1>4. Answered'
  BY DEF IInv, TypeOK, Task, InHand, Answered, At, Goto, Candidate, Running, host, Sicken
<1>5. Chosen'
  BY DEF IInv, TypeOK, Task, Chosen, At, Goto, host, Sicken
<1> QED  BY <1>1, <1>2, <1>3, <1>4, <1>5 DEF IInv

LEMMA CancelStep ==
  ASSUME IInv, Cancel
  PROVE  IInv'
<1>1. TypeOK'
  BY NamesAssumption, BoundAssumption
     DEF IInv, TypeOK, Task, Shape, Preparing, Gateways, End, Idle, Candidate, Without,
         Cancel, Happens, Dropped, Effect, With
<1>2. Shape'
  BY DEF Shape, Preparing, At, End, Idle, Cancel
<1>3. Gateways'
  BY NamesAssumption
     DEF IInv, Shape, Preparing, Gateways, InHand, End, Idle, Candidate, Cancel, Dropped
<1>4. Answered'
  BY NamesAssumption
     DEF IInv, TypeOK, Shape, InHand, Answered, At, End, Idle, Running, Without, Cancel,
         Effect, With
<1>5. Chosen'
  BY NamesAssumption DEF IInv, Shape, Chosen, At, End, Idle, Cancel
<1> QED  BY <1>1, <1>2, <1>3, <1>4, <1>5 DEF IInv

LEMMA ExitStep ==
  ASSUME IInv, NEW id \in Id, Exit(id)
  PROVE  IInv'
<1>1. TypeOK'
  BY BoundAssumption DEF IInv, TypeOK, Without, host, Exit, Happens
<1>2. Shape'
  BY DEF IInv, Shape, At, Exit
<1>3. Gateways'
  BY DEF IInv, Gateways, InHand, Candidate, host, Exit
<1>4. Answered'
  BY DEF IInv, TypeOK, Task, Shape, InHand, Answered, Idle, Candidate, Running, Without, Id,
         host, Exit
<1>5. Chosen'
  BY DEF IInv, Chosen, At, host, Exit
<1> QED  BY <1>1, <1>2, <1>3, <1>4, <1>5 DEF IInv

LEMMA BootStep ==
  ASSUME IInv, Boot
  PROVE  IInv'
<1>1. TypeOK'
  BY DEF IInv, TypeOK, host, Boot
<1>2. Shape'
  BY DEF IInv, Shape, At, Boot
<1>3. Gateways'
  BY DEF IInv, Shape, Preparing, Gateways, InHand, host, Boot
<1>4. Answered'
  BY DEF IInv, Shape, Preparing, InHand, Answered, host, Boot
<1>5. Chosen'
  BY DEF IInv, Shape, Chosen, At, Boot
<1> QED  BY <1>1, <1>2, <1>3, <1>4, <1>5 DEF IInv

LEMMA ReconcileStep ==
  ASSUME IInv, Reconcile
  PROVE  IInv'
<1>1. TypeOK'
  BY DEF IInv, TypeOK, Without, host, Reconcile
<1>2. Shape'
  BY DEF IInv, Shape, At, Reconcile, Booted
<1>3. Gateways'
  BY DEF IInv, Shape, Preparing, Gateways, InHand, host, Reconcile, Booted
<1>4. Answered'
  BY DEF IInv, Shape, InHand, Answered, Idle, Running, Without, Entry, host, Reconcile,
         Booted, Strays
<1>5. Chosen'
  BY DEF IInv, Chosen, At, host, Reconcile, Booted
<1> QED  BY <1>1, <1>2, <1>3, <1>4, <1>5 DEF IInv

LEMMA ShutdownStep ==
  ASSUME IInv, Shutdown
  PROVE  IInv'
<1>1. TypeOK'
  BY DEF IInv, TypeOK, host, Shutdown
<1>2. Shape'
  BY DEF IInv, Shape, At, Shutdown
<1>3. Gateways'
  BY DEF IInv, Shape, Preparing, Gateways, InHand, host, Shutdown
<1>4. Answered'
  BY DEF IInv, InHand, Answered, Candidate, Running, host, Shutdown
<1>5. Chosen'
  BY DEF IInv, Chosen, At, Shutdown
<1> QED  BY <1>1, <1>2, <1>3, <1>4, <1>5 DEF IInv

LEMMA ReleaseStep ==
  ASSUME IInv, Release
  PROVE  IInv'
<1>1. TypeOK'
  BY DEF IInv, TypeOK, Without, Release, Forget
<1>2. Shape'
  BY DEF IInv, Shape, At, Release, Leaving
<1>3. Gateways'
  BY NamesAssumption
     DEF IInv, Shape, Preparing, Gateways, InHand, Id, Release, Leaving, Forget
<1>4. Answered'
  BY DEF IInv, Shape, InHand, Answered, Idle, Running, Without, Release, Leaving, Forget
<1>5. Chosen'
  BY DEF IInv, Shape, Chosen, At, Release, Leaving
<1> QED  BY <1>1, <1>2, <1>3, <1>4, <1>5 DEF IInv

LEMMA CrashStep ==
  ASSUME IInv, Crash
  PROVE  IInv'
<1>1. TypeOK'
  BY BoundAssumption
     DEF IInv, TypeOK, Task, End, Idle, Without, Crash, Happens, Forget, Effect, With
<1>2. Shape'
  BY DEF Shape, Preparing, At, End, Idle, Crash
<1>3. Gateways'
  BY NamesAssumption DEF Gateways, InHand, End, Idle, Id, Crash, Forget
<1>4. Answered'
  BY DEF IInv, TypeOK, InHand, Answered, End, Idle, Without, Crash, Forget, Effect, With
<1>5. Chosen'
  BY DEF Chosen, At, End, Idle, Crash
<1> QED  BY <1>1, <1>2, <1>3, <1>4, <1>5 DEF IInv

LEMMA ReconcileFailsStep ==
  ASSUME IInv, ReconcileFails
  PROVE  IInv'
<1>1. TypeOK'
  BY BoundAssumption DEF IInv, TypeOK, Without, host, ReconcileFails, Happens, StopsSome
<1>2. Shape'
  BY DEF IInv, Shape, At, ReconcileFails, Booted
<1>3. Gateways'
  BY DEF IInv, Shape, Preparing, Gateways, InHand, host, ReconcileFails, Booted
<1>4. Answered'
  BY DEF IInv, Shape, InHand, Answered, Idle, Without, host, ReconcileFails, Booted,
         StopsSome
<1>5. Chosen'
  BY DEF IInv, Chosen, At, ReconcileFails, Booted
<1> QED  BY <1>1, <1>2, <1>3, <1>4, <1>5 DEF IInv

LEMMA ReleaseFailsStep ==
  ASSUME IInv, ReleaseFails
  PROVE  IInv'
<1>1. TypeOK'
  BY BoundAssumption DEF IInv, TypeOK, Without, ReleaseFails, Happens, Forget, StopsSome
<1>2. Shape'
  BY DEF IInv, Shape, At, ReleaseFails, Leaving
<1>3. Gateways'
  BY NamesAssumption
     DEF IInv, Shape, Preparing, Gateways, InHand, Id, ReleaseFails, Leaving, Forget
<1>4. Answered'
  BY DEF IInv, Shape, InHand, Answered, Idle, Without, ReleaseFails, Leaving, Forget,
         StopsSome
<1>5. Chosen'
  BY DEF IInv, Shape, Chosen, At, ReleaseFails, Leaving
<1> QED  BY <1>1, <1>2, <1>3, <1>4, <1>5 DEF IInv

(* A start that fails, although the container may have come up. *)
LEMMA FailedStartStep ==
  ASSUME IInv, At("start"), Goto("cleanup"), container' \in {container, With(Candidate)},
         UNCHANGED <<gateway, listed, owned, enabled, phase, trouble>>,
         faults' \in 0 .. MaxFaults
  PROVE  IInv'
<1>1. TypeOK'
  BY DEF IInv, TypeOK, Task, With, Goto
<1>2. Shape'
  BY DEF IInv, Shape, Preparing, At, Goto
<1>3. Gateways'
  BY DEF IInv, Preparing, Gateways, InHand, At, Goto, Candidate
<1>4. Answered'
  BY DEF IInv, TypeOK, Shape, InHand, Answered, With, At, Goto, Idle, Candidate, Running
<1>5. Chosen'
  BY DEF IInv, Chosen, At, Goto
<1> QED  BY <1>1, <1>2, <1>3, <1>4, <1>5 DEF IInv

(* Stopping the candidate, or what serves the tenant, spares every other   *)
(* instance.                                                               *)
LEMMA EffectFacts ==
  ASSUME IInv, task.at \in {"unlist", "prepare", "cleanup"}
  PROVE  /\ Effect \in [Id -> {"none", "current", "stale"}]
         /\ \A id \in Id : Effect[id] \in {container[id], "none"}
<1>1. PICK ids : Effect = Without(ids)
  BY DEF Effect, At
<1> QED  BY <1>1 DEF IInv, TypeOK, Without

LEMMA CandidateUnlisted ==
  ASSUME IInv, At("cleanup")
  PROVE  /\ Candidate \in Id /\ InHand = {Candidate}
         /\ Effect = Without({Candidate})
         /\ \A t \in Tenant : listed[t] # None => <<t, listed[t]>> # Candidate
BY NamesAssumption, SMTT(20)
   DEF IInv, TypeOK, Task, Shape, Preparing, Gateways, InHand, Candidate, At, Id, Effect

LEMMA CleanUpStep ==
  ASSUME IInv, CleanUp
  PROVE  IInv'
<1>1. At("cleanup") /\ Fail /\ task.kind # "none"
  BY DEF IInv, Shape, CleanUp, At, Idle
<1>2. /\ container' \in [Id -> {"none", "current", "stale"}]
      /\ \A id \in Id : container'[id] \in {container[id], "none"}
  BY <1>1, EffectFacts DEF CleanUp, At
<1>3. owned' = owned \ {Candidate} /\ container'[Candidate] = "none"
  BY <1>1, CandidateUnlisted DEF CleanUp, Without
<1>4. \A t \in Tenant : listed[t] # None => <<t, listed[t]>> \in owned'
  BY <1>1, <1>3, CandidateUnlisted DEF IInv, Answered
<1>5. gateway' = gateway \ InHand /\ UNCHANGED <<listed, enabled>> /\ faults' \in 0 .. MaxFaults
  BY <1>1, CandidateUnlisted DEF CleanUp, IInv, TypeOK
<1>6. owned' \subseteq owned /\ \A id \in owned : id \in owned' \/ container'[id] = "none"
  BY <1>3
<1> QED  BY <1>1, <1>2, <1>4, <1>5, <1>6, FailedStep

LEMMA RefuseStep ==
  ASSUME IInv, Refuse
  PROVE  IInv'
<1>1. faults' \in 0 .. MaxFaults
  BY BoundAssumption DEF IInv, TypeOK, Refuse, Happens
<1>2. UNCHANGED <<container, listed, owned, enabled>>
  BY DEF Refuse
<1>3. CASE At("start") /\ Goto("cleanup") /\ UNCHANGED <<gateway, phase, trouble>>
  BY <1>1, <1>2, <1>3, FailedStartStep
<1>4. CASE At("cleanup") /\ gateway' = gateway \ {Candidate} /\ Fail
  <2>1. gateway' = gateway \ InHand
    BY <1>4, CandidateUnlisted
  <2> QED  BY <1>1, <1>2, <1>4, <2>1, FailedStep DEF IInv, TypeOK, Shape, Answered, At, Idle
<1>5. CASE task.at \in {"unlist", "prepare", "configure", "commit"} /\ Fail /\ UNCHANGED gateway
  <2>1. gateway' = gateway \ InHand
    BY <1>5 DEF InHand
  <2> QED  BY <1>1, <1>2, <1>5, <2>1, FailedStep DEF IInv, TypeOK, Shape, Answered, At, Idle
<1> QED  BY <1>3, <1>4, <1>5 DEF Refuse, At

LEMMA UnansweredStep ==
  ASSUME IInv, Unanswered
  PROVE  IInv'
<1>1. faults' \in 0 .. MaxFaults
  BY BoundAssumption DEF IInv, TypeOK, Unanswered, Happens
<1>2. UNCHANGED <<listed, owned, enabled>> /\ container' = Effect
  BY DEF Unanswered
<1>3. CASE At("start")
  <2>1. container' = With(Candidate)
    BY <1>2, <1>3 DEF Effect, At
  <2> QED  BY <1>1, <1>2, <1>3, <2>1, FailedStartStep DEF Unanswered
<1>4. CASE ~At("start")
  <2>1. task.at \in {"unlist", "prepare", "cleanup"} /\ Fail
    BY <1>4 DEF Unanswered, Effect, At
  <2>2. gateway' = gateway \ InHand
    BY <1>4, <2>1, CandidateUnlisted DEF Unanswered, InHand, At
  <2> QED  BY <1>1, <1>2, <2>1, <2>2, EffectFacts, FailedStep
              DEF IInv, TypeOK, Shape, Answered, At, Idle
<1> QED  BY <1>3, <1>4

-----------------------------------------------------------------------------
LEMMA InitIInv == Init => IInv
<1> SUFFICES ASSUME Init PROVE IInv
  OBVIOUS
<1>1. TypeOK
  BY BoundAssumption DEF Init, TypeOK, Task, Idle
<1>2. Shape /\ Gateways
  BY NamesAssumption DEF Init, Shape, Preparing, Gateways, InHand, Idle, At, TypeOK, Id
<1>3. Answered /\ Chosen
  BY DEF Init, Answered, Chosen, InHand, Running, Idle, At
<1> QED  BY <1>1, <1>2, <1>3 DEF IInv

LEMMA NextIInv == IInv /\ [Next]_vars => IInv'
<1> SUFFICES ASSUME IInv, [Next]_vars PROVE IInv'
  OBVIOUS
<1>1. CASE UNCHANGED vars
  BY <1>1
     DEF IInv, TypeOK, Shape, Gateways, InHand, Answered, Chosen, Candidate, Running, At,
         vars, host
<1>2. CASE \E t \in Tenant : (\E d \in Digest : Install(t, d)) \/ Remove(t) \/ BootTenant(t)
  BY <1>2, InstallStep, RemoveStep, BootTenantStep
<1>3. CASE \E d \in Digest : Validate(d)
  BY <1>3, ValidateStep
<1>4. CASE \/ Unlist \/ Restore \/ Prepare \/ Configure \/ Start
           \/ Healthy \/ Unhealthy \/ CleanUp \/ Commit
  BY <1>4, UnlistStep, RestoreStep, PrepareStep, ConfigureStep, StartStep, HealthyStep,
     UnhealthyStep, CleanUpStep, CommitStep
<1>5. CASE Refuse \/ Unanswered \/ Sicken \/ Cancel \/ \E id \in Id : Exit(id)
  BY <1>5, RefuseStep, UnansweredStep, SickenStep, CancelStep, ExitStep
<1>6. CASE Boot \/ Reconcile \/ Shutdown \/ Release \/ Crash \/ ReconcileFails \/ ReleaseFails
  BY <1>6, BootStep, ReconcileStep, ShutdownStep, ReleaseStep, CrashStep,
     ReconcileFailsStep, ReleaseFailsStep
<1> QED  BY <1>1, <1>2, <1>3, <1>4, <1>5, <1>6 DEF Next

LEMMA Inductive == Spec => []IInv
<1> QED  BY InitIInv, NextIInv, PTL DEF Spec

-----------------------------------------------------------------------------
(* Every variable keeps its type, and what is listed has its gateway        *)
(* (instance.rs: an instance owns the jobs of its broker).                  *)
THEOREM TypeCorrect == Spec => []TypeOK
<1>1. IInv => TypeOK
  BY DEF IInv
<1> QED  BY <1>1, Inductive, PTL

(* A tenant's plugin has one container with access to its database and the  *)
(* broker, whatever was refused, answered late, dropped or crashed before.  *)
THEOREM OneContainerConnected == Spec => []OneConnected
<1>1. ASSUME IInv PROVE OneConnected
  <2> SUFFICES ASSUME NEW t \in Tenant
               PROVE  /\ \A d, e \in Connected(t) : d = e
                      /\ listed[t] # None => container[<<t, listed[t]>>] # "stale"
    BY DEF OneConnected
  <2>1. \A d \in Connected(t) : <<t, d>> \in Id /\ (<<t, d>> \in InHand \/ listed[t] = d)
    BY <1>1 DEF IInv, Gateways, Connected, Id
  <2>2. ASSUME NEW d \in Connected(t), <<t, d>> \in InHand
        PROVE  d = task.digest /\ listed[t] = None
    BY <1>1, <2>2 DEF IInv, Gateways, InHand, Candidate, Preparing
  <2>3. \A d \in Connected(t) : d # None
    BY NamesAssumption DEF Connected
  <2>4. \A d, e \in Connected(t) : d = e
    BY <2>1, <2>2, <2>3
  <2>5. listed[t] # None => <<t, listed[t]>> \in Id
    BY <1>1 DEF IInv, TypeOK, Id
  <2> QED  BY <1>1, <2>4, <2>5 DEF IInv, Answered
<1> QED  BY <1>1, Inductive, PTL

(* A host that is up answers for every container, and one that has shut     *)
(* down without complaint has left none (instance.rs owned, shutdown).      *)
THEOREM LeavesNothingBehind == Spec => []NothingLeftBehind
<1>1. IInv => NothingLeftBehind
  BY DEF IInv, Answered, NothingLeftBehind
<1> QED  BY <1>1, Inductive, PTL

(* Between two actions every tenant without trouble is served by the        *)
(* version it has enabled, and by none when it has disabled the plugin.     *)
THEOREM ServesWhatIsEnabled == Spec => []ListedIsEnabled
<1>1. ASSUME IInv PROVE ListedIsEnabled
  <2> SUFFICES ASSUME phase = "up", At("idle"), NEW t \in Tenant \ trouble
               PROVE  /\ listed[t] = enabled[t]
                      /\ \A d \in Digest : <<t, d>> \in gateway <=> d = enabled[t]
    BY DEF ListedIsEnabled
  <2>1. task = Idle
    BY <1>1 DEF IInv, Shape
  <2>2. listed[t] = enabled[t]
    BY <1>1, <2>1, NamesAssumption DEF IInv, Chosen, Idle
  <2>3. InHand = {}
    BY <2>1 DEF InHand, Idle
  <2>4. \A d \in Digest : <<t, d>> \in Id
    BY DEF Id
  <2> QED  BY <1>1, <2>2, <2>3, <2>4 DEF IInv, Gateways
<1> QED  BY <1>1, Inductive, PTL
=============================================================================
