------------------------- MODULE PersistentSlotProofs -------------------------
(***************************************************************************)
(* The safety properties of PersistentSlot for any number of hosts, calls, *)
(* digests and generations.  IInv is the inductive strengthening.          *)
(***************************************************************************)
EXTENDS PersistentSlot, TLAPS

Preparing == {"prepare", "write", "advisory", "row", "commit"}

(* What a call's program point says about its method and what it has read. *)
Sane(t) ==
  /\ pc[t] = "idle" => base[t] = None
  /\ pc[t] \in {"updates", "write"} => op[t] \in Mutating
  /\ pc[t] \in {"expect", "check"} => op[t] = "activate"
  /\ pc[t] = "stored" => op[t] = "restore"
  /\ pc[t] = "prepare" => op[t] \in {"activate", "restore"}
  /\ pc[t] \in {"advisory", "row", "commit"} => op[t] \in {"activate", "deactivate"}
  /\ pc[t] = "ack" => op[t] \in {"activate", "restore", "deactivate"}
  /\ pc[t] = "retire" => op[t] \in {"activate", "restore", "deactivate", "unload"}
  /\ pc[t] = "read" => op[t] \in {"handle", "snapshot"}
  /\ pc[t] \in {"lease", "finish"} => op[t] \in {"handle", "snapshot", "restore"}
  /\ pc[t] \in {"call", "run", "failed"} => op[t] = "handle"
  /\ op[t] \in {"activate", "handle"} => want[t] \in Digest
  /\ op[t] = "restore" /\ pc[t] \in {"prepare", "write", "lease", "finish", "ack"}
       => base[t] \in Digest
  /\ op[t] = "activate" /\ pc[t] \in {"check"} \cup Preparing
       => expected[t] \in Nat /\ expected[t] <= generation
  /\ op[t] \in {"handle", "snapshot"} /\ pc[t] \in {"lease", "call", "run", "finish", "failed"}
       => inst[t] \in Instance

AllSane == \A t \in Task : Sane(t)

(* Instances that are referred to have been put in place for good. *)
Settled ==
  /\ \A h \in Host : slot[h] \in Task => pc[slot[h]] \in {"retire", "done"}
  /\ \A t \in Task : inst[t] \in Task => pc[inst[t]] \in {"retire", "done"}
  /\ \A h \in Host : slot[h] # None => carries[slot[h]] \in Digest
  /\ \A t \in Task : inst[t] # None => carries[inst[t]] \in Digest

(* The database's locks exclude each other. *)
Locks ==
  /\ \A t, u \in Task : HoldsAdvisory(t) /\ HoldsAdvisory(u) => t = u
  /\ \A t, u \in Task : ~(HoldsRow(t) /\ HoldsLease(u))

Row ==
  /\ generation = 0 => revision = None
  /\ \A t \in Task : pc[t] = "commit" => MayCommit(t)

(* A request past its lease check works under the revision it asked for. *)
Requests ==
  /\ \A t \in Task : op[t] = "handle" /\ HoldsLease(t) => revision = want[t]
  /\ \A t, u \in Task : pc[t] = "run" /\ pc[u] = "run" /\ inst[t] = inst[u] => t = u

Extends(d) == revision = None \/ IsPrefix(Migrations[revision], Migrations[d])
Committed(d) == \E e \in audit : e.revision = d

(* What makes a candidate fit to follow the current release. *)
Candidates ==
  /\ \A t \in Task : op[t] = "activate" /\ pc[t] \in Preparing /\ expected[t] = generation
       => Extends(want[t])
  /\ \A t \in Task : op[t] = "activate" /\ pc[t] = "ack" => Committed(want[t])
  /\ \A t \in Task : op[t] = "restore" /\ base[t] # None => Committed(base[t])

IInv ==
  /\ TypeOK
  /\ AllSane
  /\ Settled
  /\ Locks
  /\ Row
  /\ Requests
  /\ Candidates
  /\ ExecutesActiveRevision
  /\ AuditMatchesRow
  /\ MigrationsExtendPredecessor
  /\ OnlyCommittedOffered

(* Calls that return, fail, are cancelled or die leave the rest in order,   *)
(* whether or not their host and their executions go with them.             *)
LEMMA ReturnStep ==
  ASSUME IInv, NEW ts \in SUBSET Task, Return(ts),
         slot' \in [Host -> Instance \cup {None}],
         \A h \in Host : slot'[h] \in {slot[h], None},
         spent' \in {spent, spent \cup Running(ts)},
         UNCHANGED <<carries, revision, generation, audit>>
  PROVE  IInv'
<1> USE DEF IInv, Return
<1>1. TypeOK'
  BY DEF TypeOK, PC, Running, Revision, AllSane, Sane
<1>2. AllSane'
  BY DEF TypeOK, AllSane, Sane, Mutating, Preparing
<1>3. Settled'
  BY InstanceAssumption DEF TypeOK, Settled
<1>4. Locks'
  BY DEF TypeOK, Locks, HoldsAdvisory, HoldsRow, HoldsLease
<1>5. Row'
  BY DEF TypeOK, Row, MayCommit
<1>6. Requests'
  BY DEF TypeOK, Requests, HoldsLease
<1>7. Candidates'
  BY DEF TypeOK, Candidates, Extends, Committed, Preparing
<1>8. ExecutesActiveRevision'
  BY DEF TypeOK, ExecutesActiveRevision, Requests, Running
<1>9. AuditMatchesRow' /\ MigrationsExtendPredecessor'
  BY DEF AuditMatchesRow, MigrationsExtendPredecessor
<1>10. OnlyCommittedOffered'
  BY DEF OnlyCommittedOffered
<1> QED
  BY <1>1, <1>2, <1>3, <1>4, <1>5, <1>6, <1>7, <1>8, <1>9, <1>10

(* ... in particular one call that returns by itself. *)
LEMMA ReturnAlone ==
  ASSUME IInv, NEW t \in Task, Return({t}), UNCHANGED <<slotVars, dbVars>>
  PROVE  IInv'
BY ReturnStep DEF IInv, TypeOK, slotVars, dbVars

(* The current release is in the history. *)
LEMMA CurrentCommitted ==
  ASSUME IInv, revision # None
  PROVE  Committed(revision)
<1>1. generation > 0
  BY DEF IInv, Row, TypeOK
<1>2. [generation |-> generation, revision |-> revision] \in audit
  BY <1>1 DEF IInv, AuditMatchesRow
<1> QED
  BY <1>2 DEF Committed

(* A call begins with nothing read. *)
LEMMA StartStep ==
  ASSUME IInv, NEW t \in Task, Start(t)
  PROVE  IInv'
<1> USE DEF IInv
<1>1. PICK o \in Op, d \in Revision :
        /\ pc[t] = "idle" /\ pc' = [pc EXCEPT ![t] = IF o \in Mutating THEN "updates" ELSE "read"]
        /\ op' = [op EXCEPT ![t] = o] /\ want' = [want EXCEPT ![t] = d]
        /\ o \in {"activate", "handle"} => d \in Digest
        /\ UNCHANGED <<expected, base, inst, carries, spent, slot, revision, generation, audit>>
  <2>1. PICK o \in MayCall[t] :
          /\ op' = [op EXCEPT ![t] = o]
          /\ IF o \in {"activate", "handle"}
             THEN \E d \in Digest : want' = [want EXCEPT ![t] = d]
             ELSE UNCHANGED want
          /\ pc' = [pc EXCEPT ![t] = IF o \in Mutating THEN "updates" ELSE "read"]
    BY DEF Start
  <2>2. o \in Op
    BY CallAssumption
  <2>3. \E d \in Revision : /\ want' = [want EXCEPT ![t] = d]
                            /\ o \in {"activate", "handle"} => d \in Digest
    <3>1. CASE o \in {"activate", "handle"}
      BY <2>1, <3>1 DEF Revision
    <3>2. CASE o \notin {"activate", "handle"}
      <4>1. want[t] \in Revision /\ want = [want EXCEPT ![t] = want[t]]
        BY DEF TypeOK
      <4> QED
        BY <2>1, <3>2, <4>1
    <3> QED
      BY <3>1, <3>2
  <2> QED
    BY <2>1, <2>2, <2>3 DEF Start, slotVars, dbVars
<1>2. TypeOK'
  BY <1>1 DEF TypeOK, PC, Op
<1>3. AllSane'
  BY <1>1 DEF TypeOK, AllSane, Sane, Mutating, Preparing, Op
<1>4. Settled'
  BY <1>1 DEF TypeOK, Settled
<1>5. Requests'
  BY <1>1 DEF TypeOK, Requests, HoldsLease, AllSane, Sane, Op
<1>6. Candidates'
  BY <1>1 DEF TypeOK, Candidates, Extends, Committed, Preparing, AllSane, Sane,
         Op, Mutating
<1>7. Locks' /\ Row' /\ ExecutesActiveRevision'
  BY <1>1 DEF TypeOK, Locks, HoldsAdvisory, HoldsRow, HoldsLease, Row,
         MayCommit, ExecutesActiveRevision
<1>8. AuditMatchesRow' /\ MigrationsExtendPredecessor' /\ OnlyCommittedOffered'
  BY <1>1 DEF AuditMatchesRow, MigrationsExtendPredecessor,
         OnlyCommittedOffered
<1> QED
  BY <1>2, <1>3, <1>4, <1>5, <1>6, <1>7, <1>8

(* One mutating call of a host goes on. *)
LEMMA LockUpdatesStep ==
  ASSUME IInv, NEW t \in Task, LockUpdates(t)
  PROVE  IInv'
<1> USE DEF IInv
<1>1. /\ pc[t] = "updates" /\ pc' = [pc EXCEPT ![t] = IF op[t] = "activate" THEN "expect"
                                           ELSE IF op[t] = "restore" THEN "stored" ELSE "write"]
      /\ UNCHANGED <<op, want, expected, base, inst>>
      /\ UNCHANGED <<carries, spent, slot, revision, generation, audit>>
  BY DEF Goto, locals, slotVars, dbVars, LockUpdates
<1>2. TypeOK'
  BY <1>1 DEF TypeOK, PC
<1>3. AllSane'
  BY <1>1 DEF TypeOK, AllSane, Sane, Mutating, Preparing
<1>4. Settled' /\ Locks' /\ Row' /\ Requests' /\ Candidates' 
       /\ ExecutesActiveRevision'
  BY <1>1 DEF TypeOK, Settled, Locks, HoldsAdvisory, HoldsRow, HoldsLease, Row,
         MayCommit, Requests, Candidates, Extends, Committed, Preparing,
         ExecutesActiveRevision
<1>5. AuditMatchesRow' /\ MigrationsExtendPredecessor' /\ OnlyCommittedOffered'
  BY <1>1 DEF AuditMatchesRow, MigrationsExtendPredecessor,
         OnlyCommittedOffered
<1> QED
  BY <1>2, <1>3, <1>4, <1>5

(* The generation an activation reads is at most the current one. *)
LEMMA ReadGenerationStep ==
  ASSUME IInv, NEW t \in Task, ReadGeneration(t)
  PROVE  IInv'
<1> USE DEF IInv
<1>1. /\ pc[t] = "expect" /\ pc' = [pc EXCEPT ![t] = "check"]
      /\ expected' = [expected EXCEPT ![t] = generation]
      /\ UNCHANGED <<op, want, base, inst>>
      /\ UNCHANGED <<carries, spent, slot, revision, generation, audit>>
  BY DEF ReadGeneration, slotVars, dbVars
<1>2. TypeOK'
  BY <1>1 DEF TypeOK, PC
<1>3. AllSane'
  BY <1>1 DEF TypeOK, AllSane, Sane, Mutating, Preparing
<1>4. Settled' /\ Locks' /\ Row' /\ Requests' /\ Candidates' 
       /\ ExecutesActiveRevision'
  BY <1>1 DEF TypeOK, Settled, Locks, HoldsAdvisory, HoldsRow, HoldsLease, Row,
         MayCommit, Requests, Candidates, Extends, Committed, Preparing,
         ExecutesActiveRevision
<1>5. AuditMatchesRow' /\ MigrationsExtendPredecessor' /\ OnlyCommittedOffered'
  BY <1>1 DEF AuditMatchesRow, MigrationsExtendPredecessor,
         OnlyCommittedOffered
<1> QED
  BY <1>2, <1>3, <1>4, <1>5

(* A candidate that is prepared extends the release it was compared with. *)
LEMMA CheckMigrationsStep ==
  ASSUME IInv, NEW t \in Task, CheckMigrations(t)
  PROVE  IInv'
<1> USE DEF IInv
<1>1. CASE revision = None \/ IsPrefix(Migrations[revision], Migrations[want[t]])
  <2>1. /\ pc[t] = "check" /\ pc' = [pc EXCEPT ![t] = "prepare"]
        /\ UNCHANGED <<op, want, expected, base, inst>>
        /\ UNCHANGED <<carries, spent, slot, revision, generation, audit>>
    BY <1>1 DEF Goto, locals, slotVars, dbVars, CheckMigrations
  <2>2. TypeOK'
    BY <2>1 DEF TypeOK, PC
  <2>3. AllSane'
    BY <2>1 DEF TypeOK, AllSane, Sane, Mutating, Preparing
  <2>4. Candidates'
    BY <2>1, <1>1 DEF TypeOK, Candidates, Extends, Committed, Preparing
  <2>5. Settled' /\ Locks' /\ Row' /\ Requests' /\ ExecutesActiveRevision'
    BY <2>1 DEF TypeOK, Settled, Locks, HoldsAdvisory, HoldsRow, HoldsLease, Row,
           MayCommit, Requests, ExecutesActiveRevision
  <2>6. AuditMatchesRow' /\ MigrationsExtendPredecessor' /\ OnlyCommittedOffered'
    BY <2>1 DEF AuditMatchesRow, MigrationsExtendPredecessor,
           OnlyCommittedOffered
  <2> QED
    BY <2>2, <2>3, <2>4, <2>5, <2>6
<1>2. CASE ~(revision = None \/ IsPrefix(Migrations[revision], Migrations[want[t]]))
  BY <1>2, ReturnAlone DEF CheckMigrations
<1> QED
  BY <1>1, <1>2

(* What restore reads has been committed. *)
LEMMA ReadStoredStep ==
  ASSUME IInv, NEW t \in Task, ReadStored(t)
  PROVE  IInv'
<1> USE DEF IInv
<1>1. CASE revision # None
  <2>1. /\ pc[t] = "stored" /\ pc' = [pc EXCEPT ![t] = "prepare"]
        /\ base' = [base EXCEPT ![t] = revision]
        /\ expected' = [expected EXCEPT ![t] = generation]
        /\ UNCHANGED <<op, want, inst>>
        /\ UNCHANGED <<carries, spent, slot, revision, generation, audit>>
    BY <1>1 DEF ReadStored, slotVars, dbVars
  <2>2. TypeOK'
    BY <2>1 DEF TypeOK, PC
  <2>3. AllSane'
    BY <2>1, <1>1 DEF TypeOK, AllSane, Sane, Mutating, Preparing, Revision
  <2>4. Candidates'
    BY <2>1, <1>1, CurrentCommitted DEF TypeOK, Candidates, Extends, Committed,
           Preparing, AllSane, Sane
  <2>5. Settled' /\ Locks' /\ Row' /\ Requests' /\ ExecutesActiveRevision'
    BY <2>1 DEF TypeOK, Settled, Locks, HoldsAdvisory, HoldsRow, HoldsLease, Row,
           MayCommit, Requests, ExecutesActiveRevision
  <2>6. AuditMatchesRow' /\ MigrationsExtendPredecessor' /\ OnlyCommittedOffered'
    BY <2>1 DEF AuditMatchesRow, MigrationsExtendPredecessor,
           OnlyCommittedOffered
  <2> QED
    BY <2>2, <2>3, <2>4, <2>5, <2>6
<1>2. CASE ~(revision # None)
  BY <1>2, ReturnAlone DEF ReadStored
<1> QED
  BY <1>1, <1>2

(* Preparing a candidate changes nothing that is offered. *)
LEMMA PrepareStep ==
  ASSUME IInv, NEW t \in Task, Prepare(t)
  PROVE  IInv'
<1> USE DEF IInv
<1>1. /\ pc[t] = "prepare" /\ pc' = [pc EXCEPT ![t] = "write"]
      /\ UNCHANGED <<op, want, expected, base, inst>>
      /\ UNCHANGED <<carries, spent, slot, revision, generation, audit>>
  BY DEF Goto, locals, slotVars, dbVars, Prepare
<1>2. TypeOK'
  BY <1>1 DEF TypeOK, PC
<1>3. AllSane'
  BY <1>1 DEF TypeOK, AllSane, Sane, Mutating, Preparing
<1>4. Settled' /\ Locks' /\ Row' /\ Requests' /\ Candidates' 
       /\ ExecutesActiveRevision'
  BY <1>1 DEF TypeOK, Settled, Locks, HoldsAdvisory, HoldsRow, HoldsLease, Row,
         MayCommit, Requests, Candidates, Extends, Committed, Preparing,
         ExecutesActiveRevision
<1>5. AuditMatchesRow' /\ MigrationsExtendPredecessor' /\ OnlyCommittedOffered'
  BY <1>1 DEF AuditMatchesRow, MigrationsExtendPredecessor,
         OnlyCommittedOffered
<1> QED
  BY <1>2, <1>3, <1>4, <1>5

(* Unload and a failed request empty the slot, the others go on. *)
LEMMA LockStateStep ==
  ASSUME IInv, NEW t \in Task, LockState(t)
  PROVE  IInv'
<1> USE DEF IInv
<1>1. pc[t] = "write" /\ UNCHANGED <<carries, spent, revision, generation, audit>>
  BY DEF LockState, dbVars
<1>2. CASE op[t] = "invalidate"
  <2>1. Return({t}) /\ slot' = [slot EXCEPT ![HostOf[t]] = Invalidated(t)]
    BY <1>2 DEF LockState
  <2> QED
    BY <1>1, <2>1, ReturnStep, HostAssumption DEF TypeOK, Invalidated
<1>3. CASE op[t] # "invalidate"
  <2>1. /\ pc' = [pc EXCEPT ![t] = IF op[t] = "restore" THEN "lease"
                              ELSE IF op[t] = "unload" THEN "retire" ELSE "advisory"]
        /\ UNCHANGED <<op, want, expected, base, inst>>
        /\ slot' \in [Host -> Instance \cup {None}]
        /\ \A h \in Host : slot'[h] \in {slot[h], None}
    BY <1>1, <1>3, HostAssumption DEF LockState, Goto, locals, TypeOK, AllSane, Sane, Mutating
  <2>2. TypeOK'
    BY <1>1, <2>1 DEF TypeOK, PC
  <2>3. AllSane'
    BY <1>1, <1>3, <2>1 DEF TypeOK, AllSane, Sane, Mutating, Preparing
  <2>4. Settled'
    BY <1>1, <2>1, InstanceAssumption DEF TypeOK, Settled
  <2>5. Locks' /\ Row' /\ Requests' /\ Candidates' /\ ExecutesActiveRevision'
    BY <1>1, <2>1 DEF TypeOK, Locks, HoldsAdvisory, HoldsRow, HoldsLease, Row, MayCommit,
           Requests, Candidates, Extends, Committed, Preparing, ExecutesActiveRevision
  <2>6. AuditMatchesRow' /\ MigrationsExtendPredecessor' /\ OnlyCommittedOffered'
    BY <1>1, <2>1 DEF AuditMatchesRow, MigrationsExtendPredecessor, OnlyCommittedOffered
  <2> QED
    BY <2>2, <2>3, <2>4, <2>5, <2>6
<1> QED
  BY <1>2, <1>3

(* One transaction at a time gets past the advisory lock. *)
LEMMA AdvisoryLockStep ==
  ASSUME IInv, NEW t \in Task, AdvisoryLock(t)
  PROVE  IInv'
<1> USE DEF IInv
<1>1. /\ pc[t] = "advisory" /\ pc' = [pc EXCEPT ![t] = "row"]
      /\ UNCHANGED <<op, want, expected, base, inst>>
      /\ UNCHANGED <<carries, spent, slot, revision, generation, audit>>
      /\ \A u \in Task : ~HoldsAdvisory(u)
  BY DEF Goto, locals, slotVars, dbVars, AdvisoryLock
<1>2. TypeOK'
  BY <1>1 DEF TypeOK, PC
<1>3. AllSane'
  BY <1>1 DEF TypeOK, AllSane, Sane, Mutating, Preparing
<1>4. Locks'
  BY <1>1 DEF TypeOK, Locks, HoldsAdvisory, HoldsRow, HoldsLease
<1>5. Settled' /\ Row' /\ Requests' /\ Candidates' /\ ExecutesActiveRevision'
  BY <1>1 DEF TypeOK, Settled, Row, MayCommit, Requests, HoldsLease,
         Candidates, Extends, Committed, Preparing, ExecutesActiveRevision
<1>6. AuditMatchesRow' /\ MigrationsExtendPredecessor' /\ OnlyCommittedOffered'
  BY <1>1 DEF AuditMatchesRow, MigrationsExtendPredecessor,
         OnlyCommittedOffered
<1> QED
  BY <1>2, <1>3, <1>4, <1>5, <1>6

(* A release is replaced only while it is the one it was compared with, and
   no lease is held.                                                        *)
LEMMA LockRowStep ==
  ASSUME IInv, NEW t \in Task, LockRow(t)
  PROVE  IInv'
<1> USE DEF IInv
<1>1. CASE MayCommit(t)
  <2>1. /\ pc[t] = "row" /\ pc' = [pc EXCEPT ![t] = "commit"]
        /\ UNCHANGED <<op, want, expected, base, inst>>
        /\ UNCHANGED <<carries, spent, slot, revision, generation, audit>>
        /\ \A u \in Task : ~HoldsLease(u)
    BY <1>1 DEF Goto, locals, slotVars, dbVars, LockRow
  <2>2. TypeOK'
    BY <2>1 DEF TypeOK, PC
  <2>3. AllSane'
    BY <2>1 DEF TypeOK, AllSane, Sane, Mutating, Preparing
  <2>4. Locks'
    BY <2>1 DEF TypeOK, Locks, HoldsAdvisory, HoldsRow, HoldsLease
  <2>5. Row'
    BY <2>1, <1>1 DEF TypeOK, Row, MayCommit
  <2>6. Settled' /\ Requests' /\ Candidates' /\ ExecutesActiveRevision'
    BY <2>1 DEF TypeOK, Settled, Requests, HoldsLease, Candidates, Extends,
           Committed, Preparing, ExecutesActiveRevision
  <2>7. AuditMatchesRow' /\ MigrationsExtendPredecessor' /\ OnlyCommittedOffered'
    BY <2>1 DEF AuditMatchesRow, MigrationsExtendPredecessor,
           OnlyCommittedOffered
  <2> QED
    BY <2>2, <2>3, <2>4, <2>5, <2>6, <2>7
<1>2. CASE ~(MayCommit(t))
  BY <1>2, ReturnAlone DEF LockRow
<1> QED
  BY <1>1, <1>2

(* The hook of the instance that was replaced ends the call. *)
LEMMA RetireStep ==
  ASSUME IInv, NEW t \in Task, Retire(t)
  PROVE  IInv'
<1> USE DEF IInv
<1> QED
  BY ReturnAlone DEF Retire

(* A step that leaves a call's variables alone keeps what they promise. *)
LEMMA SaneKept ==
  ASSUME NEW u \in Task, Sane(u), pc'[u] = pc[u],
         UNCHANGED <<op, want, expected, base, generation>>, inst'[u] = inst[u]
  PROVE  Sane(u)'
BY DEF Sane

(* A request works on what its host offers. *)
LEMMA ReadLockStep ==
  ASSUME IInv, NEW t \in Task, ReadLock(t)
  PROVE  IInv'
<1> USE DEF IInv
<1>1. CASE slot[HostOf[t]] # None
  <2>1. /\ pc[t] = "read" /\ pc' = [pc EXCEPT ![t] = "lease"]
        /\ inst' = [inst EXCEPT ![t] = slot[HostOf[t]]]
        /\ UNCHANGED <<op, want, expected, base>>
        /\ UNCHANGED <<carries, spent, slot, revision, generation, audit>>
    BY <1>1 DEF ReadLock, slotVars, dbVars
  <2>2. TypeOK'
    BY <2>1, HostAssumption DEF TypeOK, PC
  <2>3. AllSane'
    <3>1. op[t] \in {"handle", "snapshot"} /\ slot[HostOf[t]] \in Instance
      BY <2>1, <1>1, HostAssumption DEF TypeOK, AllSane, Sane
    <3>2. Sane(t)'
      BY <2>1, <3>1 DEF TypeOK, AllSane, Sane, Mutating, Preparing
    <3>3. ASSUME NEW u \in Task, u # t  PROVE Sane(u)'
      <4>1. pc'[u] = pc[u] /\ inst'[u] = inst[u]
        BY <2>1, <3>3 DEF TypeOK
      <4>2. Sane(u)
        BY DEF AllSane
      <4> QED
        BY <2>1, <4>1, <4>2, SaneKept
    <3> QED
      BY <3>2, <3>3 DEF AllSane
  <2>4. Settled'
    BY <2>1, HostAssumption, <1>1 DEF TypeOK, Settled
  <2>5. Locks' /\ Row' /\ Requests' /\ Candidates' /\ ExecutesActiveRevision'
    BY <2>1 DEF TypeOK, Locks, HoldsAdvisory, HoldsRow, HoldsLease, Row,
           MayCommit, Requests, Candidates, Extends, Committed, Preparing,
           ExecutesActiveRevision
  <2>6. AuditMatchesRow' /\ MigrationsExtendPredecessor' /\ OnlyCommittedOffered'
    BY <2>1 DEF AuditMatchesRow, MigrationsExtendPredecessor,
           OnlyCommittedOffered
  <2> QED
    BY <2>2, <2>3, <2>4, <2>5, <2>6
<1>2. CASE ~(slot[HostOf[t]] # None)
  BY <1>2, ReturnAlone DEF ReadLock
<1> QED
  BY <1>1, <1>2

(* A lease is granted for the current revision, while no change is under
   way.                                                                    *)
LEMMA LeaseStep ==
  ASSUME IInv, NEW t \in Task, Lease(t)
  PROVE  IInv'
<1> USE DEF IInv
<1>1. CASE Admits(t)
  <2>1. /\ pc[t] = "lease" /\ pc' = [pc EXCEPT ![t] = IF op[t] = "handle" THEN "call" ELSE "finish"]
        /\ UNCHANGED <<op, want, expected, base, inst>>
        /\ UNCHANGED <<carries, spent, slot, revision, generation, audit>>
        /\ ~RowBlocked
    BY <1>1 DEF Goto, locals, slotVars, dbVars, Lease
  <2>2. TypeOK'
    BY <2>1 DEF TypeOK, PC
  <2>3. AllSane'
    <3>1. Sane(t)'
      <4>1. op[t] \in {"handle", "snapshot", "restore"} /\ pc'[t] \in {"call", "finish"}
            /\ (pc'[t] = "call" => op[t] = "handle")
        BY <2>1 DEF TypeOK, AllSane, Sane
      <4> QED
        BY <2>1, <4>1 DEF AllSane, Sane, Mutating, Preparing
    <3>2. ASSUME NEW u \in Task, u # t  PROVE Sane(u)'
      <4>1. pc'[u] = pc[u]
        BY <2>1, <3>2 DEF TypeOK
      <4>2. Sane(u)
        BY DEF AllSane
      <4> QED
        BY <2>1, <4>1, <4>2, SaneKept
    <3> QED
      BY <3>1, <3>2 DEF AllSane
  <2>4. revision \in Digest
    <3>1. /\ op[t] \in {"handle", "snapshot", "restore"}
          /\ op[t] = "handle" => want[t] \in Digest
          /\ op[t] = "restore" => base[t] \in Digest
          /\ op[t] = "snapshot" => inst[t] \in Instance
      BY <2>1 DEF AllSane, Sane
    <3>2. CASE op[t] = "snapshot"
      BY <1>1, <2>1, <3>1, <3>2, InstanceAssumption DEF Admits, Settled, Instance
    <3>3. CASE op[t] # "snapshot"
      BY <1>1, <3>1, <3>3 DEF Admits
    <3> QED
      BY <3>2, <3>3
  <2>5. \A u \in Task : ~HoldsRow(u)
    BY <2>1, <2>4, NoneAssumption DEF RowBlocked, Row, TypeOK
  <2>6. Locks'
    BY <2>1, <2>5 DEF TypeOK, Locks, HoldsAdvisory, HoldsRow, HoldsLease
  <2>7. Requests'
    BY <1>1, <2>1 DEF TypeOK, Requests, HoldsLease, Admits
  <2>8. Settled' /\ Row' /\ Candidates' /\ ExecutesActiveRevision'
    BY <2>1 DEF TypeOK, Settled, Row, MayCommit, Candidates, Extends, Committed, Preparing,
           ExecutesActiveRevision
  <2>9. AuditMatchesRow' /\ MigrationsExtendPredecessor' /\ OnlyCommittedOffered'
    BY <2>1 DEF AuditMatchesRow, MigrationsExtendPredecessor, OnlyCommittedOffered
  <2> QED
    BY <2>2, <2>3, <2>6, <2>7, <2>8, <2>9
<1>2. CASE ~Admits(t)
  BY <1>2, ReturnAlone DEF Lease
<1> QED
  BY <1>1, <1>2

(* An execution starts under the lease, alone on its instance. *)
LEMMA CallStep ==
  ASSUME IInv, NEW t \in Task, Call(t)
  PROVE  IInv'
<1> USE DEF IInv
<1>1. /\ pc[t] = "call" /\ pc' = [pc EXCEPT ![t] = "run"]
      /\ UNCHANGED <<op, want, expected, base, inst>>
      /\ UNCHANGED <<carries, spent, slot, revision, generation, audit>>
      /\ InstanceFree(t)
      /\ carries[inst[t]] = want[t] /\ inst[t] \notin spent
  BY DEF Goto, locals, slotVars, dbVars, Call
<1>2. TypeOK'
  BY <1>1 DEF TypeOK, PC
<1>3. AllSane'
  BY <1>1 DEF TypeOK, AllSane, Sane, Mutating, Preparing
<1>4. Requests'
  BY <1>1 DEF TypeOK, Requests, HoldsLease, InstanceFree
<1>5. ExecutesActiveRevision'
  BY <1>1 DEF TypeOK, ExecutesActiveRevision, Requests, HoldsLease, AllSane,
         Sane
<1>6. Settled' /\ Locks' /\ Row' /\ Candidates'
  BY <1>1 DEF TypeOK, Settled, Locks, HoldsAdvisory, HoldsRow, HoldsLease, Row,
         MayCommit, Candidates, Extends, Committed, Preparing
<1>7. AuditMatchesRow' /\ MigrationsExtendPredecessor' /\ OnlyCommittedOffered'
  BY <1>1 DEF AuditMatchesRow, MigrationsExtendPredecessor,
         OnlyCommittedOffered
<1> QED
  BY <1>2, <1>3, <1>4, <1>5, <1>6, <1>7

(* A refused request executes nothing. *)
LEMMA RefuseStep ==
  ASSUME IInv, NEW t \in Task, Refuse(t)
  PROVE  IInv'
<1> USE DEF IInv
<1>1. /\ pc[t] = "call" /\ pc' = [pc EXCEPT ![t] = "failed"]
      /\ UNCHANGED <<op, want, expected, base, inst>>
      /\ UNCHANGED <<carries, spent, slot, revision, generation, audit>>
  BY DEF Goto, locals, slotVars, dbVars, Refuse
<1>2. TypeOK'
  BY <1>1 DEF TypeOK, PC
<1>3. AllSane'
  BY <1>1 DEF TypeOK, AllSane, Sane, Mutating, Preparing
<1>4. Settled' /\ Locks' /\ Row' /\ Requests' /\ Candidates' 
       /\ ExecutesActiveRevision'
  BY <1>1 DEF TypeOK, Settled, Locks, HoldsAdvisory, HoldsRow, HoldsLease, Row,
         MayCommit, Requests, Candidates, Extends, Committed, Preparing,
         ExecutesActiveRevision
<1>5. AuditMatchesRow' /\ MigrationsExtendPredecessor' /\ OnlyCommittedOffered'
  BY <1>1 DEF AuditMatchesRow, MigrationsExtendPredecessor,
         OnlyCommittedOffered
<1> QED
  BY <1>2, <1>3, <1>4, <1>5

(* A response gives the instance back. *)
LEMMA RespondStep ==
  ASSUME IInv, NEW t \in Task, Respond(t)
  PROVE  IInv'
<1> USE DEF IInv
<1>1. /\ pc[t] = "run" /\ pc' = [pc EXCEPT ![t] = "finish"]
      /\ UNCHANGED <<op, want, expected, base, inst>>
      /\ UNCHANGED <<carries, spent, slot, revision, generation, audit>>
  BY DEF Goto, locals, slotVars, dbVars, Respond
<1>2. TypeOK'
  BY <1>1 DEF TypeOK, PC
<1>3. AllSane'
  BY <1>1 DEF TypeOK, AllSane, Sane, Mutating, Preparing
<1>4. Settled' /\ Locks' /\ Row' /\ Requests' /\ Candidates' 
       /\ ExecutesActiveRevision'
  BY <1>1 DEF TypeOK, Settled, Locks, HoldsAdvisory, HoldsRow, HoldsLease, Row,
         MayCommit, Requests, Candidates, Extends, Committed, Preparing,
         ExecutesActiveRevision
<1>5. AuditMatchesRow' /\ MigrationsExtendPredecessor' /\ OnlyCommittedOffered'
  BY <1>1 DEF AuditMatchesRow, MigrationsExtendPredecessor,
         OnlyCommittedOffered
<1> QED
  BY <1>2, <1>3, <1>4, <1>5

(* A trap spends the instance that only this request executes on. *)
LEMMA TrapStep ==
  ASSUME IInv, NEW t \in Task, Trap(t)
  PROVE  IInv'
<1> USE DEF IInv
<1>1. /\ pc[t] = "run" /\ pc' = [pc EXCEPT ![t] = "failed"]
      /\ UNCHANGED <<op, want, expected, base, inst>>
      /\ UNCHANGED <<carries, slot, revision, generation, audit>>
      /\ spent' = spent \cup {inst[t]}
  BY DEF Trap, Goto, locals, slotVars, dbVars
<1>2. TypeOK'
  BY <1>1 DEF TypeOK, PC, AllSane, Sane
<1>3. AllSane'
  BY <1>1 DEF TypeOK, AllSane, Sane, Mutating, Preparing
<1>4. ExecutesActiveRevision'
  BY <1>1 DEF TypeOK, ExecutesActiveRevision, Requests
<1>5. Settled' /\ Locks' /\ Row' /\ Requests' /\ Candidates'
  BY <1>1 DEF TypeOK, Settled, Locks, HoldsAdvisory, HoldsRow, HoldsLease, Row,
         MayCommit, Requests, Candidates, Extends, Committed, Preparing
<1>6. AuditMatchesRow' /\ MigrationsExtendPredecessor' /\ OnlyCommittedOffered'
  BY <1>1 DEF AuditMatchesRow, MigrationsExtendPredecessor,
         OnlyCommittedOffered
<1> QED
  BY <1>2, <1>3, <1>4, <1>5, <1>6

(* A failed request gives its lease back before it waits again. *)
LEMMA GiveUpStep ==
  ASSUME IInv, NEW t \in Task, GiveUp(t)
  PROVE  IInv'
<1> USE DEF IInv
<1>1. /\ pc[t] = "failed" /\ pc' = [pc EXCEPT ![t] = "updates"]
      /\ op' = [op EXCEPT ![t] = "invalidate"]
      /\ UNCHANGED <<want, expected, base, inst>>
      /\ UNCHANGED <<carries, spent, slot, revision, generation, audit>>
  BY DEF GiveUp, slotVars, dbVars
<1>2. TypeOK'
  BY <1>1 DEF TypeOK, PC
<1>3. AllSane'
  BY <1>1 DEF TypeOK, AllSane, Sane, Mutating, Preparing
<1>4. Settled' /\ Locks' /\ Row' /\ Requests' /\ Candidates' 
       /\ ExecutesActiveRevision'
  BY <1>1 DEF TypeOK, Settled, Locks, HoldsAdvisory, HoldsRow, HoldsLease, Row,
         MayCommit, Requests, Candidates, Extends, Committed, Preparing,
         ExecutesActiveRevision
<1>5. AuditMatchesRow' /\ MigrationsExtendPredecessor' /\ OnlyCommittedOffered'
  BY <1>1 DEF AuditMatchesRow, MigrationsExtendPredecessor,
         OnlyCommittedOffered
<1> QED
  BY <1>2, <1>3, <1>4, <1>5

(* Restore goes on to swap once its lease is finished. *)
LEMMA FinishStep ==
  ASSUME IInv, NEW t \in Task, Finish(t)
  PROVE  IInv'
<1> USE DEF IInv
<1>1. CASE op[t] = "restore"
  <2>1. /\ pc[t] = "finish" /\ pc' = [pc EXCEPT ![t] = "ack"]
        /\ UNCHANGED <<op, want, expected, base, inst>>
        /\ UNCHANGED <<carries, spent, slot, revision, generation, audit>>
    BY <1>1 DEF Goto, locals, slotVars, dbVars, Finish
  <2>2. TypeOK'
    BY <2>1 DEF TypeOK, PC
  <2>3. AllSane'
    BY <2>1, <1>1 DEF TypeOK, AllSane, Sane, Mutating, Preparing
  <2>4. Settled' /\ Locks' /\ Row' /\ Requests' /\ Candidates' 
       /\ ExecutesActiveRevision'
    BY <2>1, <1>1 DEF TypeOK, Settled, Locks, HoldsAdvisory, HoldsRow,
           HoldsLease, Row, MayCommit, Requests, Candidates, Extends, Committed,
           Preparing, ExecutesActiveRevision
  <2>5. AuditMatchesRow' /\ MigrationsExtendPredecessor' /\ OnlyCommittedOffered'
    BY <2>1 DEF AuditMatchesRow, MigrationsExtendPredecessor,
           OnlyCommittedOffered
  <2> QED
    BY <2>2, <2>3, <2>4, <2>5
<1>2. CASE ~(op[t] = "restore")
  BY <1>2, ReturnAlone DEF Finish
<1> QED
  BY <1>1, <1>2

(* The commit appends the next generation to the history; every candidate
   compared with the release it replaces is out of date from here on.      *)
LEMMA CommitStep ==
  ASSUME IInv, NEW t \in Task, Commit(t)
  PROVE  IInv'
<1> USE DEF IInv
<1>1. /\ pc[t] = "commit" /\ pc' = [pc EXCEPT ![t] = "ack"]
      /\ UNCHANGED <<op, want, expected, base, inst, carries, spent, slot>>
      /\ op[t] \in {"activate", "deactivate"} /\ MayCommit(t)
  BY DEF Commit, Goto, locals, slotVars, AllSane, Sane, Row
<1>2. \A u \in Task : ~HoldsLease(u) /\ (pc[u] = "commit" => u = t)
  BY <1>1 DEF Locks, HoldsRow, HoldsAdvisory
<1>3. CASE op[t] = "deactivate" /\ revision = None
  <2>1. UNCHANGED <<revision, generation, audit>>
    BY <1>3 DEF Commit, dbVars
  <2>2. TypeOK' /\ AllSane' /\ Settled'
    BY <1>1, <2>1 DEF TypeOK, PC, AllSane, Sane, Mutating, Preparing, Settled
  <2>3. Locks' /\ Row' /\ Requests' /\ Candidates' /\ ExecutesActiveRevision'
    BY <1>1, <1>3, <2>1 DEF TypeOK, Locks, HoldsAdvisory, HoldsRow, HoldsLease, Row, MayCommit,
           Requests, Candidates, Extends, Committed, Preparing, ExecutesActiveRevision
  <2>4. AuditMatchesRow' /\ MigrationsExtendPredecessor' /\ OnlyCommittedOffered'
    BY <1>1, <2>1 DEF AuditMatchesRow, MigrationsExtendPredecessor, OnlyCommittedOffered
  <2> QED
    BY <2>2, <2>3, <2>4
<1>4. CASE ~(op[t] = "deactivate" /\ revision = None)
  <2> DEFINE r == IF op[t] = "activate" THEN want[t] ELSE None
             e == [generation |-> generation + 1, revision |-> r]
  <2>1. revision' = r /\ generation' = generation + 1 /\ audit' = audit \cup {e}
    BY <1>1, <1>4 DEF Commit, Audited
  <2>2. r \in Revision /\ generation \in Nat /\ generation + 1 \in 1 .. MaxGeneration
    BY <1>1, <1>4, GenerationAssumption DEF TypeOK, MayCommit, Revision
  <2>3. TypeOK'
    BY <1>1, <2>1, <2>2 DEF TypeOK, PC
  <2>4. AllSane'
    BY <1>1, <2>1, <2>2 DEF TypeOK, AllSane, Sane, Mutating, Preparing
  <2>5. Settled' /\ Locks' /\ Row' /\ Requests' /\ ExecutesActiveRevision'
    BY <1>1, <1>2, <2>1, <2>2 DEF TypeOK, Settled, Locks, HoldsAdvisory, HoldsRow, HoldsLease, Row,
           Requests, ExecutesActiveRevision, AllSane, Sane
  <2>6. Candidates'
    <3>1. \A d : Committed(d) => Committed(d)'
      BY <2>1 DEF Committed
    <3>2. op[t] = "activate" => Committed(want[t])'
      <4>1. e \in audit' /\ e.revision = r
        BY <2>1
      <4> QED
        BY <1>1, <4>1 DEF Committed
    <3> QED
      BY <1>1, <2>1, <2>2, <3>1, <3>2 DEF TypeOK, Candidates, AllSane, Sane, Preparing
  <2>7. AuditMatchesRow'
    <3>1. \A x \in audit : x.generation \in Nat /\ x.generation <= generation
      BY DEF TypeOK, AuditMatchesRow
    <3>2. e \in audit' /\ e.generation = generation' /\ e.revision = revision'
      BY <2>1
    <3>3. \A g \in 1 .. generation' : \E x \in audit' : x.generation = g
      <4>1. \A g \in 1 .. generation : \E x \in audit' : x.generation = g
        BY <2>1 DEF AuditMatchesRow
      <4>2. \A g \in 1 .. generation' : g \in 1 .. generation \/ g = generation'
        BY <2>1, <2>2
      <4> QED
        BY <3>2, <4>1, <4>2
    <3>4. \A x, y \in audit' : x.generation = y.generation => x = y
      BY <2>1, <2>2, <3>1 DEF AuditMatchesRow
    <3>5. \A x \in audit' : x.generation <= generation'
      BY <2>1, <2>2, <3>1
    <3> QED
      BY <2>1, <3>3, <3>4, <3>5 DEF AuditMatchesRow
  <2>8. MigrationsExtendPredecessor'
    <3>1. op[t] = "activate" => Extends(want[t])
      BY <1>1 DEF Candidates, MayCommit, Preparing
    <3>2. ASSUME NEW f \in audit, f.generation = generation, f.revision # None, r # None
          PROVE  IsPrefix(Migrations[f.revision], Migrations[r])
      BY <3>1, <3>2, <2>2 DEF AuditMatchesRow, Extends, TypeOK
    <3>3. SUFFICES ASSUME NEW f \in audit \cup {e}, NEW n \in audit \cup {e},
                          n.generation = f.generation + 1, f.revision # None, n.revision # None
                   PROVE  IsPrefix(Migrations[f.revision], Migrations[n.revision])
      BY <2>1 DEF MigrationsExtendPredecessor
    <3>4. \A x \in audit : x.generation \in Nat /\ x.generation <= generation
      BY DEF TypeOK, AuditMatchesRow
    <3>5. CASE n \in audit
      <4>1. f \in audit
        BY <2>2, <3>3, <3>4, <3>5
      <4> QED
        BY <3>3, <3>5, <4>1 DEF MigrationsExtendPredecessor
    <3>6. CASE n = e
      <4>1. f \in audit /\ f.generation = generation
        BY <2>2, <3>3, <3>4, <3>6
      <4> QED
        BY <3>2, <3>3, <3>6, <4>1
    <3> QED
      BY <3>3, <3>5, <3>6
  <2>9. OnlyCommittedOffered'
    <3>1. \A h \in Host : slot[h] # None => \E x \in audit' : x.revision = carries[slot[h]]
      BY <2>1 DEF OnlyCommittedOffered
    <3> QED
      BY <1>1, <3>1 DEF OnlyCommittedOffered
  <2> QED
    BY <2>3, <2>4, <2>5, <2>6, <2>7, <2>8, <2>9
<1> QED
  BY <1>3, <1>4

(* What a host offers from here on is what its transaction committed, or
   what restore found committed.                                           *)
LEMMA SwapStep ==
  ASSUME IInv, NEW t \in Task, Swap(t)
  PROVE  IInv'
<1> USE DEF IInv
<1>1. /\ pc[t] = "ack" /\ pc' = [pc EXCEPT ![t] = "retire"]
      /\ UNCHANGED <<op, want, expected, base, inst, spent, revision, generation, audit>>
      /\ op[t] \in {"activate", "restore", "deactivate"}
  BY DEF Swap, Goto, locals, dbVars, AllSane, Sane
<1>2. \A u \in Task : inst[u] # t
  BY <1>1 DEF Settled
<1>3. \A h \in Host : slot[h] # t
  BY <1>1 DEF Settled
<1>4. CASE op[t] = "deactivate"
  <2>1. slot' = [slot EXCEPT ![HostOf[t]] = None] /\ carries' = carries
    BY <1>4 DEF Swap
  <2>2. TypeOK' /\ AllSane'
    <3>1. TypeOK'
      BY <1>1, <2>1 DEF TypeOK, PC
    <3>2. AllSane'
      BY <1>1 DEF TypeOK, AllSane, Sane, Mutating, Preparing
    <3> QED
      BY <3>1, <3>2
  <2>3. Settled'
    BY <1>1, <2>1, InstanceAssumption DEF TypeOK, Settled
  <2>4. Locks' /\ Row' /\ Requests' /\ Candidates' /\ ExecutesActiveRevision'
    BY <1>1, <2>1 DEF TypeOK, Locks, HoldsAdvisory, HoldsRow, HoldsLease, Row, MayCommit,
           Requests, Candidates, Extends, Committed, Preparing, ExecutesActiveRevision
  <2>5. AuditMatchesRow' /\ MigrationsExtendPredecessor' /\ OnlyCommittedOffered'
    BY <1>1, <2>1, HostAssumption DEF TypeOK, AuditMatchesRow, MigrationsExtendPredecessor,
           OnlyCommittedOffered
  <2> QED
    BY <2>2, <2>3, <2>4, <2>5
<1>5. CASE op[t] # "deactivate"
  <2> DEFINE d == IF op[t] = "activate" THEN want[t] ELSE base[t]
  <2>1. slot' = [slot EXCEPT ![HostOf[t]] = t] /\ carries' = [carries EXCEPT ![t] = d]
    BY <1>5 DEF Swap
  <2>2. d \in Digest /\ d # None /\ Committed(d)
    BY <1>1, <1>5, NoneAssumption DEF AllSane, Sane, Candidates
  <2>3. t \in Instance
    BY DEF Instance
  <2>4. TypeOK' /\ AllSane'
    <3>1. TypeOK'
      BY <1>1, <2>1, <2>2, <2>3 DEF TypeOK, PC, Revision
    <3>2. AllSane'
      BY <1>1 DEF TypeOK, AllSane, Sane, Mutating, Preparing
    <3> QED
      BY <3>1, <3>2
  <2>5. Settled'
    BY <1>1, <1>2, <2>1, <2>2, <2>3, HostAssumption, InstanceAssumption DEF TypeOK, Settled, Instance
  <2>6. Locks' /\ Row' /\ Requests' /\ Candidates'
    BY <1>1, <2>1 DEF TypeOK, Locks, HoldsAdvisory, HoldsRow, HoldsLease, Row, MayCommit,
           Requests, Candidates, Extends, Committed, Preparing
  <2>7. ExecutesActiveRevision'
    BY <1>1, <1>2, <2>1 DEF TypeOK, ExecutesActiveRevision, AllSane, Sane
  <2>8. OnlyCommittedOffered'
    BY <1>1, <1>3, <2>1, <2>2, <2>3, HostAssumption, InstanceAssumption
       DEF TypeOK, OnlyCommittedOffered, Committed, Instance
  <2>9. AuditMatchesRow' /\ MigrationsExtendPredecessor'
    BY <1>1 DEF AuditMatchesRow, MigrationsExtendPredecessor
  <2> QED
    BY <2>4, <2>5, <2>6, <2>7, <2>8, <2>9
<1> QED
  BY <1>4, <1>5

(* Cancellation gives back everything the call held. *)
LEMMA DropStep ==
  ASSUME IInv, NEW t \in Task, Drop(t)
  PROVE  IInv'
<1> USE DEF IInv
<1> QED
  BY ReturnStep DEF Drop, dbVars, TypeOK

(* A crash ends the calls of its host and empties its slot. *)
LEMMA CrashStep ==
  ASSUME IInv, NEW h \in Host, Crash(h)
  PROVE  IInv'
<1> DEFINE lost == {t \in Task : HostOf[t] = h /\ InFlight(t)}
<1>1. /\ Return(lost) /\ slot' = [slot EXCEPT ![h] = None]
      /\ spent' = spent \cup Running(lost)
      /\ UNCHANGED <<carries, revision, generation, audit>>
  BY DEF Crash, dbVars
<1>2. lost \in SUBSET Task
  OBVIOUS
<1> HIDE DEF lost
<1> QED
  BY <1>1, <1>2, ReturnStep DEF IInv, TypeOK

-----------------------------------------------------------------------------
(* The slots start with nothing held and at most one release, the committed. *)
LEMMA InitIInv == Init => IInv
<1> SUFFICES ASSUME Init PROVE IInv
  OBVIOUS
<1> USE DEF Init
<1>1. TypeOK /\ Settled
  <2>1. CASE revision = None /\ generation = 0 /\ audit = {} /\ slot = [h \in Host |-> None]
             /\ carries = [i \in Instance |-> None]
    BY <2>1, GenerationAssumption, InstanceAssumption DEF TypeOK, PC, Revision, Settled
  <2>2. CASE \E d \in Digest :
               /\ revision = d /\ generation = 1
               /\ audit = {[generation |-> 1, revision |-> d]}
               /\ slot \in [Host -> Instance \cup {None}]
               /\ \A h \in Host : slot[h] \in {h, None}
               /\ carries = [i \in Instance |-> IF i \in Host THEN d ELSE None]
    BY <2>2, GenerationAssumption, InstanceAssumption DEF TypeOK, PC, Revision, Settled, Instance
  <2> QED
    BY <2>1, <2>2
<1>2. AllSane
  BY DEF AllSane, Sane, Mutating, Preparing
<1>3. Locks /\ Row /\ Requests /\ Candidates /\ ExecutesActiveRevision
  BY DEF Locks, HoldsAdvisory, HoldsRow, HoldsLease, Row, Requests, Candidates, Preparing,
         ExecutesActiveRevision
<1>4. AuditMatchesRow /\ MigrationsExtendPredecessor
  BY NoneAssumption DEF AuditMatchesRow, MigrationsExtendPredecessor
<1>5. OnlyCommittedOffered
  <2>1. CASE \A h \in Host : slot[h] = None
    BY <2>1 DEF OnlyCommittedOffered
  <2>2. CASE \E d \in Digest :
               /\ audit = {[generation |-> 1, revision |-> d]}
               /\ \A h \in Host : slot[h] \in {h, None}
               /\ carries = [i \in Instance |-> IF i \in Host THEN d ELSE None]
    <3>1. PICK d \in Digest :
               /\ audit = {[generation |-> 1, revision |-> d]}
               /\ \A h \in Host : slot[h] \in {h, None}
               /\ \A h \in Host : carries[h] = d
      BY <2>2 DEF Instance
    <3>2. \E x \in audit : x.revision = d
      BY <3>1
    <3> QED
      BY <3>1, <3>2 DEF OnlyCommittedOffered
  <2> QED
    BY <2>1, <2>2
<1> QED
  BY <1>1, <1>2, <1>3, <1>4, <1>5 DEF IInv

(* Every step keeps the strengthened invariant: one lemma above per action. *)
LEMMA NextIInv == IInv /\ [Next]_vars => IInv'
<1> SUFFICES ASSUME IInv, [Next]_vars PROVE IInv'
  OBVIOUS
<1>1. ASSUME NEW t \in Task, Progress(t) PROVE IInv'
  BY <1>1, LockUpdatesStep, ReadGenerationStep, CheckMigrationsStep, ReadStoredStep, PrepareStep,
     LockStateStep, AdvisoryLockStep, LockRowStep, CommitStep, SwapStep, RetireStep, ReadLockStep,
     LeaseStep, CallStep, RefuseStep, RespondStep, TrapStep, GiveUpStep, FinishStep DEF Progress
<1>2. CASE UNCHANGED vars
  <2>1. TypeOK' /\ AllSane' /\ Settled'
    BY <1>2 DEF IInv, vars, TypeOK, AllSane, Sane, Settled
  <2>2. Locks' /\ Row' /\ Requests' /\ Candidates' /\ ExecutesActiveRevision'
    BY <1>2 DEF IInv, vars, Locks, HoldsAdvisory, HoldsRow, HoldsLease, Row, MayCommit, Requests,
           Candidates, Extends, Committed, ExecutesActiveRevision
  <2>3. AuditMatchesRow' /\ MigrationsExtendPredecessor' /\ OnlyCommittedOffered'
    BY <1>2 DEF IInv, vars, AuditMatchesRow, MigrationsExtendPredecessor, OnlyCommittedOffered
  <2> QED
    BY <2>1, <2>2, <2>3 DEF IInv
<1> QED
  BY <1>1, <1>2, StartStep, DropStep, CrashStep DEF Next

(* The inductive invariant holds in every reachable state. *)
THEOREM Invariance == Spec => []IInv
  BY InitIInv, NextIInv, PTL DEF Spec

(* Every variable keeps its type; in particular the generation never goes   *)
(* past the largest one that checked_add admits.                            *)
THEOREM TypeCorrect == Spec => []TypeOK
<1>1. IInv => TypeOK
  BY DEF IInv
<1> QED
  BY <1>1, Invariance, PTL

(* However many hosts publish, withdraw, crash and serve: a request executes *)
(* the committed revision it asked for, from its first moment to its last.   *)
THEOREM RequestsExecuteActiveRevision == Spec => []ExecutesActiveRevision
<1>1. IInv => ExecutesActiveRevision
  BY DEF IInv
<1> QED
  BY <1>1, Invariance, PTL

(* The activation history is complete and ends in the current row. *)
THEOREM HistoryComplete == Spec => []AuditMatchesRow
<1>1. IInv => AuditMatchesRow
  BY DEF IInv
<1> QED
  BY <1>1, Invariance, PTL

(* The migration check that runs unlocked, before the candidate is prepared, *)
(* still covers the release the candidate replaces.                          *)
THEOREM MigrationsNeverRewritten == Spec => []MigrationsExtendPredecessor
<1>1. IInv => MigrationsExtendPredecessor
  BY DEF IInv
<1> QED
  BY <1>1, Invariance, PTL

(* No host offers a candidate whose activation was refused or lost. *)
THEOREM OffersAreCommitted == Spec => []OnlyCommittedOffered
<1>1. IInv => OnlyCommittedOffered
  BY DEF IInv
<1> QED
  BY <1>1, Invariance, PTL

-----------------------------------------------------------------------------
(* The slots implement the release record's promise (ReleaseRegister), and    *)
(* failed requests spare newer instances.                                     *)
Offering == {"check", "prepare", "write", "advisory", "row", "commit"}
Offer == [t \in Task |-> IF op[t] = "activate" /\ pc[t] \in Offering THEN expected[t] ELSE None]
Executing == [t \in Task |-> IF pc[t] = "run" THEN want[t] ELSE None]

(* A step that leaves the row, the offers and the executions is a stutter. *)
LEMMA Stutter ==
  ASSUME UNCHANGED <<revision, generation, Offer, Executing>>
  PROVE  UNCHANGED Promise!vars
BY DEF Offer, Executing, Offering, Promise!vars

(* Calls that end take their offers and executions with them. *)
LEMMA Forgets ==
  ASSUME NEW ts \in SUBSET Task, Return(ts), UNCHANGED dbVars
  PROVE  Promise!Forget(ts)
BY DEF Return, dbVars, Promise!Forget

(* A call that moves on within or outside its offer changes nothing. *)
LEMMA GotoStutter ==
  ASSUME IInv, NEW t \in Task, NEW p, Goto(t, p), pc[t] # "run", p # "run",
         UNCHANGED <<revision, generation>>,
         op[t] = "activate" => (pc[t] \in Offering <=> p \in Offering)
  PROVE  UNCHANGED Promise!vars
<1>1. /\ pc' = [pc EXCEPT ![t] = p] /\ UNCHANGED <<op, want, expected>>
  BY DEF Goto, locals
<1>2. Offer' = Offer
  BY <1>1 DEF Offer, IInv, TypeOK
<1>3. Executing' = Executing
  BY <1>1 DEF Executing, IInv, TypeOK
<1> QED
  BY <1>2, <1>3, Stutter

(* Every step of a call is a step of the register, or none. *)
LEMMA ProgressMaps ==
  ASSUME IInv, NEW t \in Task, Progress(t)
  PROVE  Promise!Next \/ UNCHANGED Promise!vars
<1> USE DEF IInv, slotVars, dbVars, Offering
<1> DEFINE Mapped == Promise!Next \/ UNCHANGED Promise!vars
<1>f. ASSUME Return({t}), UNCHANGED dbVars PROVE Mapped
  BY <1>f, Forgets DEF Promise!Next
<1>1. CASE LockUpdates(t)
  BY <1>1, GotoStutter DEF LockUpdates
<1>2. CASE ReadGeneration(t)
  <2>1. Promise!Offer(t)
    <3>1. Offer' = [Offer EXCEPT ![t] = generation]
      BY <1>2 DEF ReadGeneration, Offer, TypeOK, AllSane, Sane
    <3>2. Executing' = Executing
      BY <1>2 DEF ReadGeneration, Executing, TypeOK
    <3> QED
      BY <1>2, <3>1, <3>2 DEF ReadGeneration, Offer, Executing, Promise!Offer
  <2> QED
    BY <2>1 DEF Promise!Next
<1>3. CASE CheckMigrations(t)
  BY <1>3, <1>f, GotoStutter DEF CheckMigrations
<1>4. CASE ReadStored(t)
  <2>1. CASE revision = None
    BY <1>4, <1>f, <2>1 DEF ReadStored
  <2>2. CASE revision # None
    <3>1. Offer' = Offer
      BY <1>4, <2>2 DEF ReadStored, Offer, TypeOK, AllSane, Sane
    <3>2. Executing' = Executing
      BY <1>4, <2>2 DEF ReadStored, Executing, TypeOK
    <3> QED
      BY <1>4, <3>1, <3>2, Stutter DEF ReadStored
  <2> QED
    BY <2>1, <2>2
<1>5. CASE Prepare(t)
  BY <1>5, GotoStutter DEF Prepare
<1>6. CASE LockState(t)
  <2>1. CASE op[t] = "invalidate"
    BY <1>6, <1>f, <2>1 DEF LockState
  <2>2. CASE op[t] # "invalidate"
    BY <1>6, <2>2, GotoStutter DEF LockState, AllSane, Sane, Mutating
  <2> QED
    BY <2>1, <2>2
<1>7. CASE AdvisoryLock(t)
  BY <1>7, GotoStutter DEF AdvisoryLock
<1>8. CASE LockRow(t)
  BY <1>8, <1>f, GotoStutter DEF LockRow
<1>9. CASE Commit(t)
  <2>1. /\ pc[t] = "commit" /\ pc' = [pc EXCEPT ![t] = "ack"] /\ UNCHANGED <<op, want, expected>>
        /\ op[t] \in {"activate", "deactivate"}
    BY <1>9 DEF Commit, Goto, locals, AllSane, Sane
  <2>2. Executing' = Executing
    BY <2>1 DEF Executing, TypeOK
  <2>3. \A u \in Task : Executing[u] = None
    BY <2>1 DEF Locks, HoldsRow, HoldsLease, Executing
  <2>4. CASE op[t] = "activate"
    <3>1. want[t] \in Digest /\ Offer[t] = generation
      BY <2>1, <2>4 DEF AllSane, Sane, Row, MayCommit, Offer
    <3>2. Offer' = [Offer EXCEPT ![t] = None]
      BY <2>1, <2>4 DEF Offer, TypeOK
    <3>3. revision' = want[t] /\ generation' = generation + 1
      BY <1>9, <2>4 DEF Commit
    <3>4. \E d \in Digest : Promise!Publish(t, d)
      BY <2>2, <2>3, <3>1, <3>2, <3>3 DEF Promise!Publish, Promise!Quiet, Offer, Executing
    <3> QED
      BY <3>4 DEF Promise!Next
  <2>5. CASE op[t] = "deactivate"
    <3>1. Offer' = Offer
      BY <2>1, <2>5 DEF Offer, TypeOK
    <3>2. CASE revision = None
      BY <1>9, <2>2, <2>5, <3>1, <3>2, Stutter DEF Commit
    <3>3. CASE revision # None
      <4>1. Promise!Withdraw
        BY <1>9, <2>2, <2>3, <2>5, <3>1, <3>3
           DEF Commit, Promise!Withdraw, Promise!Quiet, Offer, Executing
      <4> QED
        BY <4>1 DEF Promise!Next
    <3> QED
      BY <3>2, <3>3
  <2> QED
    BY <2>1, <2>4, <2>5
<1>10. CASE Swap(t)
  BY <1>10, GotoStutter DEF Swap
<1>11. CASE Retire(t)
  BY <1>11, <1>f DEF Retire
<1>12. CASE ReadLock(t)
  <2>1. CASE slot[HostOf[t]] = None
    BY <1>12, <1>f, <2>1 DEF ReadLock
  <2>2. CASE slot[HostOf[t]] # None
    <3>1. Offer' = Offer
      BY <1>12, <2>2 DEF ReadLock, Offer, TypeOK, AllSane, Sane
    <3>2. Executing' = Executing
      BY <1>12, <2>2 DEF ReadLock, Executing, TypeOK
    <3> QED
      BY <1>12, <3>1, <3>2, Stutter DEF ReadLock
  <2> QED
    BY <2>1, <2>2
<1>13. CASE Lease(t)
  BY <1>13, <1>f, GotoStutter DEF Lease, AllSane, Sane
<1>14. CASE Call(t)
  <2>1. /\ pc[t] = "call" /\ pc' = [pc EXCEPT ![t] = "run"] /\ UNCHANGED <<op, want, expected>>
        /\ op[t] = "handle" /\ UNCHANGED <<revision, generation>>
    BY <1>14 DEF Call, Goto, locals, AllSane, Sane
  <2>2. Offer' = Offer
    BY <2>1 DEF Offer, TypeOK
  <2>3. revision = want[t] /\ revision # None
    BY <2>1, NoneAssumption DEF Requests, HoldsLease, AllSane, Sane
  <2>4. Executing' = [Executing EXCEPT ![t] = revision]
    BY <2>1, <2>3 DEF Executing, TypeOK
  <2>5. Promise!Begin(t)
    BY <2>1, <2>2, <2>3, <2>4 DEF Promise!Begin, Offer, Executing
  <2> QED
    BY <2>5 DEF Promise!Next
<1>15. CASE Refuse(t)
  BY <1>15, GotoStutter DEF Refuse, AllSane, Sane
<1>16. CASE Respond(t) \/ Trap(t)
  <2>1. /\ pc[t] = "run" /\ pc' = [pc EXCEPT ![t] = IF Respond(t) THEN "finish" ELSE "failed"]
        /\ op[t] = "handle" /\ UNCHANGED <<op, want, expected, revision, generation>>
    BY <1>16 DEF Respond, Trap, Goto, locals, AllSane, Sane
  <2>2. Offer' = [u \in Task |-> IF u \in {t} THEN None ELSE Offer[u]]
    BY <2>1 DEF Offer, TypeOK
  <2>3. Executing' = [u \in Task |-> IF u \in {t} THEN None ELSE Executing[u]]
    BY <2>1 DEF Executing, TypeOK
  <2>4. Promise!Forget({t})
    BY <2>1, <2>2, <2>3 DEF Promise!Forget, Offer, Executing
  <2> QED
    BY <2>4 DEF Promise!Next
<1>17. CASE GiveUp(t)
  <2>1. Offer' = Offer
    BY <1>17 DEF GiveUp, Offer, TypeOK, AllSane, Sane
  <2>2. Executing' = Executing
    BY <1>17 DEF GiveUp, Executing, TypeOK
  <2> QED
    BY <1>17, <2>1, <2>2, Stutter DEF GiveUp
<1>18. CASE Finish(t)
  BY <1>18, <1>f, GotoStutter DEF Finish
<1> QED
  BY <1>1, <1>2, <1>3, <1>4, <1>5, <1>6, <1>7, <1>8, <1>9, <1>10, <1>11, <1>12, <1>13, <1>14,
     <1>15, <1>16, <1>17, <1>18 DEF Progress

-----------------------------------------------------------------------------
(* Beginning a call, dropping it and crashing its host map as well. *)
LEMMA NextMaps == IInv /\ [Next]_vars => [Promise!Next]_(Promise!vars)
<1> SUFFICES ASSUME IInv, [Next]_vars PROVE Promise!Next \/ UNCHANGED Promise!vars
  OBVIOUS
<1>1. ASSUME NEW t \in Task, Start(t) PROVE UNCHANGED Promise!vars
  <2>1. Offer' = Offer
    BY <1>1 DEF Start, Offer, Offering, IInv, TypeOK
  <2>2. Executing' = Executing
    BY <1>1 DEF Start, Executing, IInv, TypeOK
  <2> QED
    BY <1>1, <2>1, <2>2, Stutter DEF Start, dbVars
<1>2. ASSUME NEW ts \in SUBSET Task, Return(ts), UNCHANGED dbVars PROVE Promise!Next
  BY <1>2, Forgets DEF Promise!Next
<1>3. ASSUME NEW t \in Task, Drop(t) PROVE Promise!Next
  BY <1>2, <1>3 DEF Drop
<1>4. ASSUME NEW h \in Host, Crash(h) PROVE Promise!Next
  BY <1>2, <1>4 DEF Crash
<1>5. CASE UNCHANGED vars
  BY <1>5, Stutter DEF vars, Offer, Executing
<1> QED
  BY <1>1, <1>3, <1>4, <1>5, ProgressMaps DEF Next

(* Nothing is offered and nothing executes at the start. *)
LEMMA InitMaps == Init => Promise!Init
<1> SUFFICES ASSUME Init PROVE Promise!Init
  OBVIOUS
<1>1. Offer = [t \in Task |-> None] /\ Executing = [t \in Task |-> None]
  BY DEF Init, Offer, Executing
<1>2. revision \in Digest \cup {None} /\ generation \in Nat /\ (generation = 0 => revision = None)
  BY DEF Init
<1> QED
  BY <1>1, <1>2 DEF Promise!Init, Offer, Offering, Executing

(* For any number of hosts and calls the slots and the database together are *)
(* the release record the contract describes: a release is published by one  *)
(* compare-and-set over revision and generation, never under a request.      *)
THEOREM SlotsKeepPromise == Spec => KeepsPromise
<1>1. Promise!Init /\ [][Promise!Next]_(Promise!vars) => Promise!Spec
  BY DEF Promise!Spec
<1> QED
  BY <1>1, InitMaps, NextMaps, Invariance, PTL DEF Spec, KeepsPromise

-----------------------------------------------------------------------------
Spared ==
  \A h \in Host :
    slot[h] # None /\ slot'[h] = None =>
      \/ \E t \in Task : /\ HostOf[t] = h /\ pc[t] # pc'[t]
                         /\ \/ op[t] \in {"unload", "deactivate"}
                            \/ op[t] = "invalidate" /\ inst[t] = slot[h]
      \/ \A t \in Task : HostOf[t] = h => ~InFlight(t)'

(* Only unload, deactivate, invalidate and a crash ever empty a slot. *)
LEMMA StepSpares == IInv /\ [Next]_vars => Spared
<1> SUFFICES ASSUME IInv, [Next]_vars, NEW h \in Host, slot[h] # None, slot'[h] = None
             PROVE  \/ \E t \in Task : /\ HostOf[t] = h /\ pc[t] # pc'[t]
                                       /\ \/ op[t] \in {"unload", "deactivate"}
                                          \/ op[t] = "invalidate" /\ inst[t] = slot[h]
                    \/ \A t \in Task : HostOf[t] = h => ~InFlight(t)'
  BY DEF Spared
<1> USE DEF IInv
<1>1. ASSUME NEW t \in Task, Progress(t)
      PROVE  /\ HostOf[t] = h /\ pc[t] # pc'[t]
             /\ \/ op[t] \in {"unload", "deactivate"}
                \/ op[t] = "invalidate" /\ inst[t] = slot[h]
  <2>1. LockState(t) \/ Swap(t)
    BY <1>1 DEF Progress, LockUpdates, ReadGeneration, CheckMigrations, ReadStored, Prepare,
         AdvisoryLock, LockRow, Commit, Retire, ReadLock, Lease, Call, Refuse, Respond, Trap,
         GiveUp, Finish, slotVars
  <2>2. CASE LockState(t)
    BY <2>2, HostAssumption DEF LockState, Goto, Return, Invalidated, TypeOK, AllSane, Sane, Mutating
  <2>3. CASE Swap(t)
    BY <2>3, HostAssumption, InstanceAssumption DEF Swap, Goto, TypeOK
  <2> QED
    BY <2>1, <2>2, <2>3
<1>2. ASSUME NEW t \in Task, Start(t) \/ Drop(t) PROVE FALSE
  BY <1>2 DEF Start, Drop, slotVars
<1>3. ASSUME NEW g \in Host, Crash(g) PROVE \A t \in Task : HostOf[t] = h => ~InFlight(t)'
  <2>1. g = h
    BY <1>3 DEF Crash, TypeOK
  <2> QED
    BY <1>3, <2>1 DEF Crash, Return, InFlight, TypeOK
<1>4. CASE UNCHANGED vars
  BY <1>4 DEF vars
<1> QED
  BY <1>1, <1>2, <1>3, <1>4 DEF Next

(* A failed request never takes down the instance that has replaced the one *)
(* it failed on.                                                            *)
THEOREM FailuresSpareNewer == Spec => FailureSparesNewer
<1>1. IInv /\ [Next]_vars => [Spared]_vars
  BY StepSpares
<1>2. Spec => [][Spared]_vars
  BY <1>1, Invariance, PTL DEF Spec
<1> QED
  BY <1>2 DEF FailureSparesNewer, Spared, vars
=============================================================================
