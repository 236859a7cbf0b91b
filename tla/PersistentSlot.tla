---------------------------- MODULE PersistentSlot ----------------------------
(***************************************************************************)
(* The persistent execution slots of one (source, tenant) on several       *)
(* hosts, over the one release record they share: runtime/src/registry/    *)
(* slot.rs on top of postgres_releases.rs, with what the calls take from   *)
(* release.rs and engine.rs.                                               *)
(*                                                                         *)
(* A task is one call of a slot's method.  Every step is what the call     *)
(* does between two waits, so tasks of one host interleave at the same     *)
(* points as the asynchronous code does and tasks of different hosts meet  *)
(* in the database only.  Locks are scoped guards in the code; here a task *)
(* holds a lock exactly at the program points of that scope.               *)
(*                                                                         *)
(* An operator that stands right above the definition it resembles and     *)
(* that no action uses (LeaseUntilCall above HoldsLease, for one) is that  *)
(* definition with a mistake in it: checking with it in place shows that   *)
(* the property about it would notice.                                     *)
(***************************************************************************)
EXTENDS Naturals, SequencesExt

CONSTANTS Host,           \* processes that share the database
          Task,           \* calls; a task makes one call
          HostOf,         \* the host a task runs on
          MayCall,        \* the methods a task may call
          Digest,         \* bundle digests
          Migrations,     \* the migrations a bundle carries, in order
          MaxGeneration,  \* i64::MAX in the code
          None

Op == {"activate", "restore", "deactivate", "unload", "snapshot", "handle"}

ASSUME HostAssumption == HostOf \in [Task -> Host]
ASSUME CallAssumption == MayCall \in [Task -> SUBSET Op]
ASSUME MigrationAssumption == DOMAIN Migrations = Digest
ASSUME GenerationAssumption == MaxGeneration \in Nat \ {0}
ASSUME NoneAssumption == None \notin Digest /\ None \notin Nat
ASSUME InstanceAssumption == Task \cap Host = {} /\ None \notin Task \cup Host

(* An instance is named after the task that prepared it, or after the host  *)
(* when it is the one the host had restored before the first task.          *)
Instance == Task \cup Host

VARIABLES
  pc, op, want,        \* per task: where it waits, its method, its digest
  expected, base,      \* per task: the generation and the revision it read
  inst,                \* per task: the instance its request works on
  carries,             \* per instance put into a slot: its digest
  spent,               \* instances whose execution was dropped mid-call
  slot,                \* per host: the active instance (state in slot.rs)
  revision, generation, audit  \* the row and its component_activations

locals == <<op, want, expected, base, inst>>
slotVars == <<carries, spent, slot>>
dbVars == <<revision, generation, audit>>
vars == <<pc, op, want, expected, base, inst, carries, spent, slot,
          revision, generation, audit>>

PC == {"idle", "updates", "expect", "check", "stored", "prepare", "write",
       "advisory", "row", "commit", "ack", "retire", "read", "lease",
       "call", "run", "finish", "failed", "done"}
Revision == Digest \cup {None}
Mutating == {"activate", "restore", "deactivate", "unload", "invalidate"}

TypeOK ==
  /\ pc \in [Task -> PC]
  /\ op \in [Task -> Op \cup {"invalidate", "none"}]
  /\ want \in [Task -> Revision]
  /\ expected \in [Task -> Nat \cup {None}]
  /\ base \in [Task -> Revision]
  /\ inst \in [Task -> Instance \cup {None}]
  /\ carries \in [Instance -> Revision]
  /\ spent \subseteq Instance
  /\ slot \in [Host -> Instance \cup {None}]
  /\ revision \in Revision
  /\ generation \in 0 .. MaxGeneration
  /\ audit \subseteq [generation : 1 .. MaxGeneration, revision : Revision]

-----------------------------------------------------------------------------
(* Lock scopes. *)

HoldsUpdates(t) == op[t] \in Mutating /\ pc[t] \notin {"idle", "updates", "done"}
HoldsWrite(t) ==
  op[t] \in Mutating /\ pc[t] \in {"advisory", "row", "commit", "lease", "finish", "ack"}
ReadUntilInvalidated(t) ==
  \/ op[t] \in {"handle", "snapshot"} /\ pc[t] \in {"lease", "call", "run", "finish", "failed"}
  \/ op[t] = "invalidate" /\ pc[t] = "updates"
HoldsRead(t) ==
  op[t] \in {"handle", "snapshot"} /\ pc[t] \in {"lease", "call", "run", "finish", "failed"}
LeaseUntilCall(t) == pc[t] = "call"
HoldsLease(t) == pc[t] \in {"call", "run", "finish", "failed"}
HoldsAdvisory(t) == pc[t] \in {"row", "commit"}
HoldsRow(t) == pc[t] = "commit"

Neighbours(t) == {u \in Task \ {t} : HostOf[u] = HostOf[t]}

(* A FOR SHARE read of a row that does not exist yet waits for nobody. *)
RowBlocked == generation > 0 /\ \E u \in Task : HoldsRow(u)

-----------------------------------------------------------------------------
Init ==
  /\ pc = [t \in Task |-> "idle"]
  /\ op = [t \in Task |-> "none"]
  /\ want = [t \in Task |-> None]
  /\ expected = [t \in Task |-> None]
  /\ base = [t \in Task |-> None]
  /\ inst = [t \in Task |-> None]
  /\ spent = {}
  /\ \/ /\ revision = None /\ generation = 0 /\ audit = {}
        /\ slot = [h \in Host |-> None]
        /\ carries = [i \in Instance |-> None]
     \/ \E d \in Digest :
          /\ revision = d /\ generation = 1
          /\ audit = {[generation |-> 1, revision |-> d]}
          /\ slot \in [Host -> Instance \cup {None}]
          /\ \A h \in Host : slot[h] \in {h, None}
          /\ carries = [i \in Instance |-> IF i \in Host THEN d ELSE None]

Goto(t, p) == pc' = [pc EXCEPT ![t] = p] /\ UNCHANGED locals

(* The calls return or fail; nothing of what they had read is left. *)
Return(ts) ==
  /\ pc' = [t \in Task |-> IF t \in ts THEN "done" ELSE pc[t]]
  /\ op' = [t \in Task |-> IF t \in ts THEN "none" ELSE op[t]]
  /\ want' = [t \in Task |-> IF t \in ts THEN None ELSE want[t]]
  /\ expected' = [t \in Task |-> IF t \in ts THEN None ELSE expected[t]]
  /\ base' = [t \in Task |-> IF t \in ts THEN None ELSE base[t]]
  /\ inst' = [t \in Task |-> IF t \in ts THEN None ELSE inst[t]]

Start(t) ==
  /\ pc[t] = "idle"
  /\ \E o \in MayCall[t] :
       /\ op' = [op EXCEPT ![t] = o]
       /\ IF o \in {"activate", "handle"}
          THEN \E d \in Digest : want' = [want EXCEPT ![t] = d]
          ELSE UNCHANGED want
       /\ pc' = [pc EXCEPT ![t] = IF o \in Mutating THEN "updates" ELSE "read"]
  /\ UNCHANGED <<expected, base, inst, slotVars, dbVars>>

(* self.updates.lock(): one mutating call per host. *)
LockUpdates(t) ==
  /\ pc[t] = "updates"
  /\ \A u \in Neighbours(t) : ~HoldsUpdates(u)
  /\ Goto(t, CASE op[t] = "activate" -> "expect"
               [] op[t] = "restore" -> "stored"
               [] OTHER -> "write")
  /\ UNCHANGED <<slotVars, dbVars>>

(* activate reads the generation it will compare against first of all ... *)
ReadGeneration(t) ==
  /\ pc[t] = "expect"
  /\ expected' = [expected EXCEPT ![t] = generation]
  /\ pc' = [pc EXCEPT ![t] = "check"]
  /\ UNCHANGED <<op, want, base, inst, slotVars, dbVars>>

(* ... and only then the stored bundle whose migrations must be a prefix. *)
CheckMigrations(t) ==
  /\ pc[t] = "check"
  /\ IF revision = None \/ IsPrefix(Migrations[revision], Migrations[want[t]])
     THEN Goto(t, "prepare") ELSE Return({t})
  /\ UNCHANGED <<slotVars, dbVars>>

(* restore reads revision and generation of the stored release together. *)
ReadStored(t) ==
  /\ pc[t] = "stored"
  /\ IF revision = None
     THEN Return({t})
     ELSE /\ base' = [base EXCEPT ![t] = revision]
          /\ expected' = [expected EXCEPT ![t] = generation]
          /\ pc' = [pc EXCEPT ![t] = "prepare"]
          /\ UNCHANGED <<op, want, inst>>
  /\ UNCHANGED <<slotVars, dbVars>>

(* The candidate is compiled and passes prepare, describe, health, activate. *)
PrepareRereadingGeneration(t) ==
  /\ pc[t] = "prepare"
  /\ expected' = [expected EXCEPT ![t] = generation]
  /\ pc' = [pc EXCEPT ![t] = "write"]
  /\ UNCHANGED <<op, want, base, inst, slotVars, dbVars>>
PrepareInPlace(t) ==
  /\ pc[t] = "prepare"
  /\ Goto(t, "write")
  /\ slot' = [slot EXCEPT ![HostOf[t]] = t]
  /\ carries' = [carries EXCEPT ![t] = IF op[t] = "activate" THEN want[t] ELSE base[t]]
  /\ UNCHANGED <<spent, dbVars>>
Prepare(t) ==
  /\ pc[t] = "prepare"
  /\ Goto(t, "write")
  /\ UNCHANGED <<slotVars, dbVars>>

(* What invalidate leaves in its host's slot: Arc::ptr_eq decides. *)
InvalidatedAlways(t) == None
Invalidated(t) == IF slot[HostOf[t]] = inst[t] THEN None ELSE slot[HostOf[t]]

(* self.state.write(): drains this host's requests. *)
LockState(t) ==
  /\ pc[t] = "write"
  /\ \A u \in Neighbours(t) : ~HoldsRead(u) /\ ~HoldsWrite(u)
  /\ CASE op[t] \in {"activate", "deactivate"} ->
            Goto(t, "advisory") /\ UNCHANGED slot
       [] op[t] = "restore" ->
            Goto(t, "lease") /\ UNCHANGED slot
       [] op[t] = "unload" ->
            Goto(t, "retire") /\ slot' = [slot EXCEPT ![HostOf[t]] = None]
       [] op[t] = "invalidate" ->
            /\ Return({t})
            /\ slot' = [slot EXCEPT ![HostOf[t]] = Invalidated(t)]
  /\ UNCHANGED <<carries, spent, dbVars>>

-----------------------------------------------------------------------------
(* The transaction of PostgresReleases::activate and ::deactivate. *)

AdvisoryLock(t) ==
  /\ pc[t] = "advisory"
  /\ \A u \in Task : ~HoldsAdvisory(u)
  /\ Goto(t, "row")
  /\ UNCHANGED <<slotVars, dbVars>>

(* The comparison with the generation read at first, and checked_add. *)
MayCommitStale(t) == op[t] = "activate" \/ revision # None => generation < MaxGeneration
MayCommit(t) ==
  /\ op[t] = "activate" => generation = expected[t]
  /\ op[t] = "activate" \/ revision # None => generation < MaxGeneration

(* SELECT ... FOR UPDATE waits for every lease of every host. *)
LockRow(t) ==
  /\ pc[t] = "row"
  /\ \A u \in Task : ~HoldsLease(u)
  /\ IF MayCommit(t) THEN Goto(t, "commit") ELSE Return({t})
  /\ UNCHANGED <<slotVars, dbVars>>

(* Every change adds its line to component_activations. *)
AuditedBeforehand(t) ==
  audit \cup {[generation |-> generation, revision |-> IF op[t] = "activate" THEN want[t] ELSE None]}
AuditedActivations(t) ==
  IF op[t] = "deactivate" THEN audit
  ELSE audit \cup {[generation |-> generation + 1, revision |-> want[t]]}
Audited(t) ==
  audit \cup {[generation |-> generation + 1,
               revision |-> IF op[t] = "activate" THEN want[t] ELSE None]}

(* The commit takes effect; its answer is still on the way. *)
Commit(t) ==
  /\ pc[t] = "commit"
  /\ IF op[t] = "deactivate" /\ revision = None
     THEN UNCHANGED dbVars
     ELSE /\ revision' = IF op[t] = "activate" THEN want[t] ELSE None
          /\ generation' = generation + 1
          /\ audit' = Audited(t)
  /\ Goto(t, "ack")
  /\ UNCHANGED slotVars

(* Once the answer is there the pointer is swapped without another wait. *)
Swap(t) ==
  /\ pc[t] = "ack"
  /\ IF op[t] = "deactivate"
     THEN /\ slot' = [slot EXCEPT ![HostOf[t]] = None]
          /\ UNCHANGED carries
     ELSE /\ slot' = [slot EXCEPT ![HostOf[t]] = t]
          /\ carries' = [carries EXCEPT ![t] = IF op[t] = "activate" THEN want[t] ELSE base[t]]
  /\ Goto(t, "retire")
  /\ UNCHANGED <<spent, dbVars>>

(* The previous instance's Deactivate hook runs after the write lock. *)
Retire(t) ==
  /\ pc[t] = "retire"
  /\ Return({t})
  /\ UNCHANGED <<slotVars, dbVars>>

-----------------------------------------------------------------------------
(* Requests and snapshots. *)

(* self.state.read(): a waiting writer goes first. *)
ReadLock(t) ==
  /\ pc[t] = "read"
  /\ \A u \in Neighbours(t) : ~HoldsWrite(u) /\ pc[u] # "write"
  /\ IF slot[HostOf[t]] = None
     THEN Return({t})
     ELSE /\ inst' = [inst EXCEPT ![t] = slot[HostOf[t]]]
          /\ pc' = [pc EXCEPT ![t] = "lease"]
          /\ UNCHANGED <<op, want, expected, base>>
  /\ UNCHANGED <<slotVars, dbVars>>

(* What the version under the lease must be for the call to go on. *)
Admits(t) ==
  CASE op[t] = "handle" -> revision = want[t]
    [] op[t] = "snapshot" -> revision = carries[inst[t]]
    [] op[t] = "restore" -> revision = base[t] /\ generation = expected[t]

(* SELECT ... FOR SHARE; a refused call drops the lease at once. *)
Lease(t) ==
  /\ pc[t] = "lease"
  /\ ~RowBlocked
  /\ IF Admits(t)
     THEN Goto(t, IF op[t] = "handle" THEN "call" ELSE "finish")
     ELSE Return({t})
  /\ UNCHANGED <<slotVars, dbVars>>

(* The instance mutex serialises the calls of one instance. *)
InstanceFree(t) == \A u \in Task : ~(pc[u] = "run" /\ inst[u] = inst[t])

Call(t) ==
  /\ pc[t] = "call"
  /\ InstanceFree(t)
  /\ carries[inst[t]] = want[t]
  /\ inst[t] \notin spent
  /\ Goto(t, "run")
  /\ UNCHANGED <<slotVars, dbVars>>

(* Another digest, a spent instance or an oversized body: not executed. *)
Refuse(t) ==
  /\ pc[t] = "call"
  /\ InstanceFree(t)
  /\ Goto(t, "failed")
  /\ UNCHANGED <<slotVars, dbVars>>

Respond(t) ==
  /\ pc[t] = "run"
  /\ Goto(t, "finish")
  /\ UNCHANGED <<slotVars, dbVars>>

(* A trap, the 30 s timeout or an invalid response: the store is dropped. *)
Trap(t) ==
  /\ pc[t] = "run"
  /\ spent' = spent \cup {inst[t]}
  /\ Goto(t, "failed")
  /\ UNCHANGED <<carries, slot, dbVars>>

(* The error path gives the lease and the read lock back before it waits    *)
(* for the update lock to invalidate the instance.                          *)
GiveUp(t) ==
  /\ pc[t] = "failed"
  /\ op' = [op EXCEPT ![t] = "invalidate"]
  /\ pc' = [pc EXCEPT ![t] = "updates"]
  /\ UNCHANGED <<want, expected, base, inst, slotVars, dbVars>>

(* lease.finish(): restore then goes on to swap, the others return. *)
Finish(t) ==
  /\ pc[t] = "finish"
  /\ IF op[t] = "restore" THEN Goto(t, "ack") ELSE Return({t})
  /\ UNCHANGED <<slotVars, dbVars>>

-----------------------------------------------------------------------------
InFlight(t) == pc[t] \notin {"idle", "done"}
Running(ts) == {inst[t] : t \in {u \in ts : pc[u] = "run"}}

(* A wait ends in an error (database error, lock_timeout, failed candidate, *)
(* lost commit answer) or the call is cancelled: its guards are dropped,    *)
(* its transaction rolls back and a running execution is destroyed.         *)
Drop(t) ==
  /\ InFlight(t)
  /\ Return({t})
  /\ spent' = spent \cup Running({t})
  /\ UNCHANGED <<carries, slot, dbVars>>

(* The process dies: its calls, locks, transactions and instances with it. *)
Crash(h) ==
  LET lost == {t \in Task : HostOf[t] = h /\ InFlight(t)}
  IN /\ slot[h] # None \/ lost # {}
     /\ Return(lost)
     /\ slot' = [slot EXCEPT ![h] = None]
     /\ spent' = spent \cup Running(lost)
     /\ UNCHANGED <<carries, dbVars>>

Progress(t) ==
  \/ LockUpdates(t) \/ ReadGeneration(t) \/ CheckMigrations(t) \/ ReadStored(t)
  \/ Prepare(t) \/ LockState(t) \/ AdvisoryLock(t) \/ LockRow(t) \/ Commit(t)
  \/ Swap(t) \/ Retire(t) \/ ReadLock(t) \/ Lease(t) \/ Call(t) \/ Refuse(t)
  \/ Respond(t) \/ Trap(t) \/ GiveUp(t) \/ Finish(t)

Next ==
  \/ \E t \in Task : Start(t) \/ Progress(t) \/ Drop(t)
  \/ \E h \in Host : Crash(h)

Spec == Init /\ [][Next]_vars

(* Every wait is bounded in the code (lock_timeout, the engine's 5, 10 and  *)
(* 30 s limits, fair tokio locks), so a call that can go on does.           *)
FairSpec == Spec /\ \A t \in Task : WF_vars(Progress(t))

-----------------------------------------------------------------------------
(* Properties. *)

(* A request executes on an instance of the digest it asked for, and that   *)
(* digest is the committed revision at every moment of the execution, on    *)
(* whatever host it runs and whatever the other hosts publish or withdraw   *)
(* (slot.rs handle: read lock, lease and digest checks; postgres_releases.rs *)
(* FOR SHARE against FOR UPDATE).                                           *)
ExecutesActiveRevision ==
  \A t \in Task : pc[t] = "run" => /\ revision = want[t]
                                   /\ carries[inst[t]] = want[t]
                                   /\ inst[t] \notin spent

(* The activation history has exactly one entry for every generation, and   *)
(* its last entry is the row (postgres_releases.rs activate, deactivate).   *)
AuditMatchesRow ==
  /\ \A g \in 1 .. generation : \E e \in audit : e.generation = g
  /\ \A e, f \in audit : e.generation = f.generation => e = f
  /\ \A e \in audit : e.generation <= generation
  /\ generation > 0 => [generation |-> generation, revision |-> revision] \in audit

(* Every activation extends the migrations of the release it replaced: the  *)
(* prefix check ran against that very release although it was read without  *)
(* any lock, before the candidate was prepared (slot.rs activate).          *)
MigrationsExtendPredecessor ==
  \A e, f \in audit :
    f.generation = e.generation + 1 /\ e.revision # None /\ f.revision # None
      => IsPrefix(Migrations[e.revision], Migrations[f.revision])

(* No host offers a candidate whose activation never committed: the slot    *)
(* only holds instances of revisions the history knows (slot.rs activate    *)
(* and restore swap after the database has answered).                       *)
OnlyCommittedOffered ==
  \A h \in Host : slot[h] # None =>
    \E e \in audit : e.revision = carries[slot[h]]

(* A failed request takes down the instance it failed on and never the one  *)
(* an activation or a restore has put in its place meanwhile (slot.rs       *)
(* invalidate; registry/README.md: the new version is not cleared).         *)
FailureSparesNewer ==
  [][\A h \in Host :
       slot[h] # None /\ slot'[h] = None =>
         \/ \E t \in Task : /\ HostOf[t] = h /\ pc[t] # pc'[t]
                            /\ \/ op[t] \in {"unload", "deactivate"}
                               \/ op[t] = "invalidate" /\ inst[t] = slot[h]
         \/ \A t \in Task : HostOf[t] = h => ~InFlight(t)']_vars

(* Every call returns: no order of update locks, state locks, leases and    *)
(* row locks of any hosts leaves calls waiting for each other (the comment  *)
(* in slot.rs handle on its error path is about exactly this).              *)
CallsReturn == \A t \in Task : InFlight(t) ~> pc[t] = "done"

-----------------------------------------------------------------------------
(* The slots keep the promise of the release record (ReleaseRegister).      *)

Promise == INSTANCE ReleaseRegister WITH
  offer <- [t \in Task |->
              IF op[t] = "activate" /\ pc[t] \in {"check", "prepare", "write",
                                                  "advisory", "row", "commit"}
              THEN expected[t] ELSE None],
  running <- [t \in Task |-> IF pc[t] = "run" THEN want[t] ELSE None]

KeepsPromise == Promise!Spec
=============================================================================
