------------------------- MODULE ReleaseSwitchProofs -------------------------
(***************************************************************************)
(* Safety of ReleaseSwitch for any releases, deployments and failures.     *)
(*                                                                         *)
(* IInv is the inductive invariant.  One deployment works at a time        *)
(* (Alone); past its record, its plan is what the journal has in flight    *)
(* (Planned).  The link is therefore what the record                       *)
(* or the plan says, until a boot takes the switch over from a deployment  *)
(* that is still working (Linked and the flag `stolen`).  What a boot      *)
(* points and what it executes are then the same release (Boots, Serves),  *)
(* so the answer a deployment has seen is its candidate's (Probed).        *)
(***************************************************************************)
EXTENDS ReleaseSwitch, TLAPS

(* There is one deployment at a time (journal.rs). *)
Alone == \A d, e \in Deployment : Running(d) /\ Running(e) => d = e

(* Past its record, a deployment works on the switch in flight. *)
Planned ==
  \A d \in Deployment :
    /\ Running(d) => plan[d].candidate \in Release
    /\ pc[d] \notin {"idle", "record", "done"} =>
         /\ Switching
         /\ journal.current = plan[d].candidate /\ journal.previous = plan[d].previous
    /\ pc[d] \in {"point", "restart", "health", "confirm"} => journal.holder = d
    /\ pc[d] \in {"back", "again", "recheck", "close"} => plan[d].previous # None

(* What `current` points to. *)
Linked ==
  ~stolen =>
    /\ Settled => current = journal.current
    /\ \A d \in Deployment :
         /\ pc[d] \in {"restart", "health", "confirm"} => current = plan[d].candidate
         /\ pc[d] \in {"again", "recheck", "close"} => current = plan[d].previous

(* What a boot is about to point or to execute. *)
Boots ==
  /\ svc = "exec" => target \in Verified
  /\ \A d \in Deployment :
       /\ pc[d] \in {"health", "confirm"} => svc \notin {"repair", "point", "restart"}
       /\ pc[d] \in {"recheck", "close"} /\ svc = "point" => target = plan[d].previous
  /\ Settled /\ svc = "point" => target = journal.current

(* The host has been restarted by the deployment. *)
After(d) == pc[d] \in {"health", "confirm", "recheck", "close"}

(* A host that has read the link runs what the link says. *)
Serves ==
  ~stolen /\ svc \in {"exec", "host"} /\ (Settled \/ \E d \in Deployment : After(d))
    => target = current

(* A deployment about to confirm was answered by its candidate. *)
Probed ==
  ~stolen => \A d \in Deployment : pc[d] = "confirm" => probed[d] = plan[d].candidate

(* The inductive invariant. *)
IInv == TypeOK /\ Alone /\ Planned /\ Linked /\ Boots /\ Serves /\ Probed

(* Recording a switch begins it; the link is still the release before. *)
LEMMA RecordStep ==
  ASSUME IInv, NEW d \in Deployment, Record(d)
  PROVE  IInv'
<1>1. journal' \in Journal /\ journal'.phase = "switching" /\ journal'.holder = d
      /\ journal'.current = plan[d].candidate /\ journal'.previous = plan[d].previous
  <2>1. /\ plan[d].candidate \in Release
        /\ plan[d] \in [revision : Nat, candidate : Link, previous : Link]
    BY DEF IInv, TypeOK, Planned, Record, Running, Ended
  <2> QED  BY <2>1 DEF Record, Write, Journal
<1>2. \A e \in Deployment : e # d => ~Running(e)
  BY DEF IInv, Alone, Record, Running, Ended
<1>3. /\ pc'[d] = "point" /\ \A e \in Deployment : e # d => pc'[e] = pc[e]
      /\ UNCHANGED <<plan, probed, current, svc, target, faults>> /\ ~stolen'
  BY DEF Record, Goto, KeepDeployment, IInv, TypeOK
<1>4. TypeOK'
  BY <1>1, <1>3 DEF IInv, TypeOK, Record, Goto
<1>5. Alone'
  BY <1>2, <1>3 DEF Alone, Running
<1>6. journal' # None
  BY <1>1, NoneAssumption DEF Journal
<1>7. Planned'
  BY <1>1, <1>2, <1>3, <1>6 DEF IInv, Planned, Record, Running, Ended, Switching
<1>8. Linked'
  BY <1>1, <1>2, <1>3 DEF Linked, Settled, Running, Ended
<1>9. Boots'
  BY <1>1, <1>2, <1>3 DEF IInv, Boots, Settled, Running, Ended
<1>10. Serves'
  BY <1>1, <1>2, <1>3 DEF Serves, Settled, After, Running, Ended
<1>11. Probed'
  BY <1>2, <1>3 DEF Probed, Running, Ended
<1> QED  BY <1>4, <1>5, <1>7, <1>8, <1>9, <1>10, <1>11 DEF IInv

(* A deployment that ends for any reason leaves files and host alone. *)
LEMMA FinishedStep ==
  ASSUME IInv, NEW d \in Deployment, Finish(d), UNCHANGED <<files, service>>,
         faults' \in 0 .. MaxFaults
  PROVE  IInv'
<1>1. /\ pc' = [pc EXCEPT ![d] = "done"] /\ DOMAIN pc = Deployment
      /\ plan' = [plan EXCEPT ![d] = NoPlan] /\ probed' = [probed EXCEPT ![d] = None]
      /\ UNCHANGED <<current, journal, svc, target, stolen>>
  BY DEF Finish, Goto, files, service, IInv, TypeOK
<1>2. TypeOK'
  BY <1>1 DEF IInv, TypeOK, NoPlan, Link
<1>3. \A e \in Deployment :
        e # d => pc'[e] = pc[e] /\ plan'[e] = plan[e] /\ probed'[e] = probed[e]
  BY <1>1 DEF IInv, TypeOK
<1>4. pc'[d] = "done"
  BY <1>1
<1>5. Alone'
  BY <1>3, <1>4 DEF IInv, Alone, Running, Ended
<1>6. Planned'
  BY <1>1, <1>3, <1>4 DEF IInv, Planned, Running, Ended, Switching
<1>7. Linked'
  BY <1>1, <1>3, <1>4 DEF IInv, Linked, Settled
<1>8. Boots'
  BY <1>1, <1>3, <1>4 DEF IInv, Boots, Settled
<1>9. Serves'
  BY <1>1, <1>3, <1>4 DEF IInv, Serves, Settled, After
<1>10. Probed'
  BY <1>1, <1>3, <1>4 DEF IInv, Probed
<1> QED  BY <1>2, <1>5, <1>6, <1>7, <1>8, <1>9, <1>10 DEF IInv

(* A switch that fails either goes back or ends. *)
LEMMA FailedStep ==
  ASSUME IInv, NEW d \in Deployment, Running(d), Fail(d), UNCHANGED <<files, service>>,
         faults' \in 0 .. MaxFaults
  PROVE  IInv'
<1>1. CASE Finish(d)
  BY <1>1, FinishedStep
<1>2. CASE ~Finish(d)
  <2>1. /\ pc[d] \in {"restart", "health"} /\ plan[d].previous # None
        /\ pc' = [pc EXCEPT ![d] = "back"] /\ DOMAIN pc = Deployment
        /\ UNCHANGED <<plan, probed, current, journal, svc, target, stolen>>
    BY <1>2 DEF Fail, Goto, KeepDeployment, files, service, IInv, TypeOK
  <2>2. pc'[d] = "back" /\ \A e \in Deployment : e # d => pc'[e] = pc[e]
    BY <2>1
  <2>3. TypeOK'
    BY <2>1 DEF IInv, TypeOK
  <2>4. Alone'
    BY <2>2 DEF IInv, Alone, Running, Ended
  <2>5. Planned'
    BY <2>1, <2>2 DEF IInv, Planned, Running, Ended, Switching
  <2>6. Linked'
    BY <2>1, <2>2 DEF IInv, Linked, Settled
  <2>7. Boots'
    BY <2>1, <2>2 DEF IInv, Boots, Settled
  <2>8. Serves'
    BY <2>1, <2>2 DEF IInv, Serves, Settled, After
  <2>9. Probed'
    BY <2>1, <2>2 DEF IInv, Probed
  <2> QED  BY <2>3, <2>4, <2>5, <2>6, <2>7, <2>8, <2>9 DEF IInv
<1> QED  BY <1>1, <1>2

LEMMA TimeoutStep ==
  ASSUME IInv, NEW d \in Deployment, Timeout(d)
  PROVE  IInv'
  BY FailedStep DEF Timeout, Running, Ended, IInv, TypeOK

LEMMA RestartFailsStep ==
  ASSUME IInv, NEW d \in Deployment, RestartFails(d)
  PROVE  IInv'
  BY FailedStep, BoundAssumption DEF RestartFails, Spend, Running, Ended, IInv, TypeOK

LEMMA TimesOutEarlyStep ==
  ASSUME IInv, NEW d \in Deployment, TimesOutEarly(d)
  PROVE  IInv'
  BY FailedStep, BoundAssumption DEF TimesOutEarly, Spend, Running, Ended, IInv, TypeOK

LEMMA KillStep ==
  ASSUME IInv, NEW d \in Deployment, Kill(d)
  PROVE  IInv'
  BY FinishedStep, BoundAssumption DEF Kill, Spend, IInv, TypeOK

(* The remaining actions, one lemma each, one step per part of IInv. *)
LEMMA BeginStep ==
  ASSUME IInv, NEW d \in Deployment, Begin(d)
  PROVE  IInv'
<1>1. TypeOK'
  BY ReleaseAssumption
     DEF IInv, TypeOK, Goto, files, service, Link, Journal, NextSequence, Begin
<1>2. Alone'
  BY DEF Alone, Running, Goto, Begin
<1>3. Planned'
  BY ReleaseAssumption DEF IInv, TypeOK, Planned, Running, Switching, Goto, files, Begin
<1>4. Linked'
  BY DEF IInv, Linked, Settled, Goto, files, service, Begin
<1>5. Boots'
  BY DEF IInv, Boots, Settled, Goto, files, service, Begin
<1>6. Serves'
  BY DEF IInv, Serves, After, Settled, Goto, files, service, Begin
<1>7. Probed'
  BY DEF Probed, Running, Ended, Goto, Begin
<1> QED  BY <1>1, <1>2, <1>3, <1>4, <1>5, <1>6, <1>7 DEF IInv

LEMMA PointStep ==
  ASSUME IInv, NEW d \in Deployment, Point(d)
  PROVE  IInv'
<1>1. TypeOK'
  BY DEF IInv, TypeOK, Goto, KeepDeployment, service, Point
<1>2. Alone'
  BY DEF IInv, Alone, Running, Ended, Goto, Point
<1>3. Planned'
  BY DEF IInv, Planned, Running, Ended, Switching, Goto, KeepDeployment, Point
<1>4. Linked'
  BY DEF IInv, Alone, Planned, Linked, Running, Ended, Goto, KeepDeployment, Point
<1>5. Boots'
  BY DEF IInv, Boots, Settled, Goto, KeepDeployment, service, Point
<1>6. Serves'
  BY DEF IInv, Alone, Planned, Serves, After, Running, Ended, Settled, Switching, Goto,
         Point
<1>7. Probed'
  BY DEF IInv, Planned, Probed, Goto, Point
<1> QED  BY <1>1, <1>2, <1>3, <1>4, <1>5, <1>6, <1>7 DEF IInv

LEMMA RestartStep ==
  ASSUME IInv, NEW d \in Deployment, Restart(d)
  PROVE  IInv'
<1>1. TypeOK'
  BY DEF IInv, TypeOK, Goto, KeepDeployment, files, Link, Restarted, Restart
<1>2. Alone'
  BY DEF IInv, Alone, Running, Ended, Goto, Restart
<1>3. Planned'
  BY DEF IInv, Planned, Running, Ended, Switching, Goto, KeepDeployment, files, Restart
<1>4. Linked'
  BY DEF IInv, Linked, Settled, Goto, KeepDeployment, files, Restarted, Restart
<1>5. Boots'
  BY DEF Boots, Restarted, Restart
<1>6. Serves'
  BY DEF Serves, Restarted, Restart
<1>7. Probed'
  BY DEF IInv, Probed, Goto, KeepDeployment, Restarted, Restart
<1> QED  BY <1>1, <1>2, <1>3, <1>4, <1>5, <1>6, <1>7 DEF IInv

LEMMA AnswerStep ==
  ASSUME IInv, NEW d \in Deployment, Answer(d)
  PROVE  IInv'
<1>1. TypeOK'
  BY DEF IInv, TypeOK, Goto, files, service, Answer
<1>2. Alone'
  BY DEF IInv, Alone, Running, Ended, Goto, Answer
<1>3. Planned'
  BY DEF IInv, Planned, Running, Ended, Switching, Goto, files, Answer
<1>4. Linked'
  BY DEF IInv, Linked, Settled, Goto, files, service, Answer
<1>5. Boots'
  BY DEF Boots, service, Answering, Answer
<1>6. Serves'
  BY DEF IInv, Serves, After, files, service, Answer
<1>7. Probed'
  BY DEF IInv, TypeOK, Linked, Serves, Probed, After, Goto, service, Answering, Answer
<1> QED  BY <1>1, <1>2, <1>3, <1>4, <1>5, <1>6, <1>7 DEF IInv

LEMMA ConfirmStep ==
  ASSUME IInv, NEW d \in Deployment, Confirm(d)
  PROVE  IInv'
<1>1. TypeOK'
  BY DEF IInv, TypeOK, Planned, Switching, Goto, service, Link, Journal, Write, Finish,
         NoPlan, Confirm
<1>2. Alone'
  BY DEF IInv, Alone, Running, Ended, Goto, Finish, Confirm
<1>3. Planned'
  BY DEF IInv, TypeOK, Alone, Planned, Running, Ended, Goto, Finish, Confirm
<1>4. Linked'
  BY DEF IInv, TypeOK, Linked, Goto, service, Write, Finish, Confirm
<1>5. Boots'
  BY DEF IInv, Boots, service, Confirm
<1>6. Serves'
  BY DEF IInv, Serves, After, service, Confirm
<1>7. Probed'
  BY DEF IInv, TypeOK, Planned, Probed, Goto, Finish, Confirm
<1> QED  BY <1>1, <1>2, <1>3, <1>4, <1>5, <1>6, <1>7 DEF IInv

LEMMA BackStep ==
  ASSUME IInv, NEW d \in Deployment, Back(d)
  PROVE  IInv'
<1>1. TypeOK'
  BY DEF IInv, TypeOK, Goto, KeepDeployment, service, Back
<1>2. Alone'
  BY DEF IInv, Alone, Running, Ended, Goto, Back
<1>3. Planned'
  BY DEF IInv, Planned, Running, Ended, Switching, Goto, KeepDeployment, Back
<1>4. Linked'
  BY DEF IInv, Alone, Planned, Linked, Running, Ended, Settled, Switching, Goto,
         KeepDeployment, Back
<1>5. Boots'
  BY DEF IInv, Boots, Settled, Goto, KeepDeployment, service, Back
<1>6. Serves'
  BY DEF IInv, Alone, Planned, Serves, After, Running, Ended, Settled, Switching, Goto, Back
<1>7. Probed'
  BY DEF IInv, Probed, Goto, KeepDeployment, service, Back
<1> QED  BY <1>1, <1>2, <1>3, <1>4, <1>5, <1>6, <1>7 DEF IInv

LEMMA CloseStep ==
  ASSUME IInv, NEW d \in Deployment, Close(d)
  PROVE  IInv'
<1>1. TypeOK'
  BY DEF IInv, TypeOK, Planned, Goto, service, Link, Journal, Write, Finish, NoPlan, Close
<1>2. Alone'
  BY DEF IInv, Alone, Running, Ended, Goto, Finish, Close
<1>3. Planned'
  BY DEF IInv, TypeOK, Alone, Planned, Running, Ended, Goto, Finish, Close
<1>4. Linked'
  BY DEF IInv, TypeOK, Linked, Goto, service, Write, Finish, Close
<1>5. Boots'
  BY DEF IInv, TypeOK, Boots, Goto, service, Write, Finish, Close
<1>6. Serves'
  BY DEF IInv, Serves, After, service, Close
<1>7. Probed'
  BY DEF IInv, Probed, Goto, service, Finish, Close
<1> QED  BY <1>1, <1>2, <1>3, <1>4, <1>5, <1>6, <1>7 DEF IInv

LEMMA RepairStep ==
  ASSUME IInv, NEW d \in Deployment, Repair(d)
  PROVE  IInv'
<1>1. TypeOK'
  BY DEF IInv, TypeOK, Switching, Goto, files, service, Link, Journal, Repair
<1>2. Alone'
  BY DEF Alone, Running, Goto, Repair
<1>3. Planned'
  BY DEF IInv, TypeOK, Planned, Running, Switching, Goto, files, Journal, Repair
<1>4. Linked'
  BY DEF Linked, Running, Ended, Settled, Switching, Goto, files, Repair
<1>5. Boots'
  BY DEF IInv, Boots, Settled, Goto, files, service, Repair
<1>6. Serves'
  BY DEF Serves, After, Running, Ended, Settled, Switching, Goto, files, Repair
<1>7. Probed'
  BY DEF Probed, Running, Ended, Goto, Repair
<1> QED  BY <1>1, <1>2, <1>3, <1>4, <1>5, <1>6, <1>7 DEF IInv

LEMMA StartStep ==
  ASSUME IInv, Start
  PROVE  IInv'
<1>1. TypeOK'
  BY DEF IInv, TypeOK, files, deployments, Link, Restarted, Start
<1>2. Alone'
  BY DEF IInv, Alone, Running, deployments, Start
<1>3. Planned'
  BY DEF IInv, Planned, Running, Switching, files, deployments, Start
<1>4. Linked'
  BY DEF IInv, Linked, Settled, files, deployments, Restarted, Start
<1>5. Boots'
  BY DEF Boots, Restarted, Start
<1>6. Serves'
  BY DEF Serves, Restarted, Start
<1>7. Probed'
  BY DEF IInv, Probed, deployments, Restarted, Start
<1> QED  BY <1>1, <1>2, <1>3, <1>4, <1>5, <1>6, <1>7 DEF IInv

LEMMA SettleStep ==
  ASSUME IInv, Settle
  PROVE  IInv'
<1>1. TypeOK'
  BY DEF IInv, TypeOK, files, deployments, Settle
<1>2. Alone'
  BY DEF IInv, Alone, Running, deployments, Settle
<1>3. Planned'
  BY DEF IInv, Planned, Running, Switching, files, deployments, Settle
<1>4. Linked'
  BY DEF IInv, Linked, Settled, files, deployments, Settle
<1>5. Boots'
  BY NoneAssumption
     DEF IInv, Planned, Boots, Running, Ended, deployments, HolderAlive, Settle
<1>6. Serves'
  BY DEF Serves, Settle
<1>7. Probed'
  BY DEF IInv, Probed, deployments, Settle
<1> QED  BY <1>1, <1>2, <1>3, <1>4, <1>5, <1>6, <1>7 DEF IInv

LEMMA BootRepairStep ==
  ASSUME IInv, BootRepair
  PROVE  IInv'
<1>1. TypeOK'
  BY DEF IInv, TypeOK, Switching, files, deployments, Journal, BootRepair
<1>2. Alone'
  BY DEF IInv, Alone, Running, deployments, BootRepair
<1>3. Planned'
  BY DEF IInv, Planned, Running, Switching, files, deployments, BootRepair
<1>4. Linked'
  BY DEF IInv, Linked, Settled, files, deployments, BootRepair
<1>5. Boots'
  BY DEF IInv, Planned, Boots, Settled, Switching, files, deployments, BootRepair
<1>6. Serves'
  BY DEF Serves, BootRepair
<1>7. Probed'
  BY DEF IInv, Probed, deployments, BootRepair
<1> QED  BY <1>1, <1>2, <1>3, <1>4, <1>5, <1>6, <1>7 DEF IInv

LEMMA BootPointStep ==
  ASSUME IInv, BootPoint
  PROVE  IInv'
<1>1. /\ svc = "point" /\ svc' = "restart" /\ current' = target
      /\ UNCHANGED <<pc, plan, probed, journal, target, faults>>
  BY DEF BootPoint, deployments
<1>2. stolen' <=> (stolen \/ \E d \in Deployment : Running(d))
  BY DEF BootPoint
<1>3. ~stolen' => \A d \in Deployment : pc[d] \in Ended
  BY <1>2 DEF Running
<1>4. TypeOK'
  BY <1>1, <1>2 DEF IInv, TypeOK, BootPoint
<1>5. Alone' /\ Planned'
  BY <1>1 DEF IInv, Alone, Planned, Running, Switching
<1>6. Linked'
  BY <1>1, <1>2, <1>3 DEF IInv, Linked, Boots, Settled, Ended
<1>7. Boots'
  BY <1>1 DEF IInv, Boots, Settled
<1>8. Serves' /\ Probed'
  BY <1>1, <1>3 DEF Serves, Probed, Ended
<1> QED  BY <1>4, <1>5, <1>6, <1>7, <1>8 DEF IInv

LEMMA BootRestartStep ==
  ASSUME IInv, BootRestart
  PROVE  IInv'
<1>1. TypeOK'
  BY DEF IInv, TypeOK, files, deployments, Link, Restarted, BootRestart
<1>2. Alone'
  BY DEF IInv, Alone, Running, deployments, BootRestart
<1>3. Planned'
  BY DEF IInv, Planned, Running, Switching, files, deployments, BootRestart
<1>4. Linked'
  BY DEF IInv, Linked, Settled, files, deployments, Restarted, BootRestart
<1>5. Boots'
  BY DEF Boots, Restarted, BootRestart
<1>6. Serves'
  BY DEF Serves, Restarted, BootRestart
<1>7. Probed'
  BY DEF IInv, Probed, deployments, Restarted, BootRestart
<1> QED  BY <1>1, <1>2, <1>3, <1>4, <1>5, <1>6, <1>7 DEF IInv

LEMMA ReadTargetStep ==
  ASSUME IInv, ReadTarget
  PROVE  IInv'
<1>1. TypeOK'
  BY DEF IInv, TypeOK, files, deployments, Link, ReadTarget
<1>2. Alone'
  BY DEF IInv, Alone, Running, deployments, ReadTarget
<1>3. Planned'
  BY DEF IInv, Planned, Running, Switching, files, deployments, ReadTarget
<1>4. Linked'
  BY DEF IInv, Linked, Settled, files, deployments, ReadTarget
<1>5. Boots'
  BY DEF Boots, ReadTarget
<1>6. Serves'
  BY DEF Serves, files, ReadTarget
<1>7. Probed'
  BY DEF IInv, Probed, deployments, ReadTarget
<1> QED  BY <1>1, <1>2, <1>3, <1>4, <1>5, <1>6, <1>7 DEF IInv

LEMMA ExecStep ==
  ASSUME IInv, Exec
  PROVE  IInv'
<1>1. TypeOK'
  BY DEF IInv, TypeOK, Boots, files, deployments, Exec
<1>2. Alone'
  BY DEF IInv, Alone, Running, deployments, Exec
<1>3. Planned'
  BY DEF IInv, Planned, Running, Switching, files, deployments, Exec
<1>4. Linked'
  BY DEF IInv, Linked, Settled, files, deployments, Exec
<1>5. Boots'
  BY DEF Boots, Exec
<1>6. Serves'
  BY DEF IInv, Serves, After, Settled, files, deployments, Exec
<1>7. Probed'
  BY DEF IInv, Probed, deployments, Exec
<1> QED  BY <1>1, <1>2, <1>3, <1>4, <1>5, <1>6, <1>7 DEF IInv

LEMMA ServiceDiesStep ==
  ASSUME IInv, ServiceDies
  PROVE  IInv'
<1>1. TypeOK'
  BY BoundAssumption DEF IInv, TypeOK, files, deployments, Link, Spend, ServiceDies
<1>2. Alone'
  BY DEF IInv, Alone, Running, deployments, ServiceDies
<1>3. Planned'
  BY DEF IInv, Planned, Running, Switching, files, deployments, ServiceDies
<1>4. Linked'
  BY DEF IInv, Linked, Settled, files, deployments, ServiceDies
<1>5. Boots'
  BY DEF Boots, ServiceDies
<1>6. Serves'
  BY DEF Serves, ServiceDies
<1>7. Probed'
  BY DEF IInv, Probed, deployments, ServiceDies
<1> QED  BY <1>1, <1>2, <1>3, <1>4, <1>5, <1>6, <1>7 DEF IInv

-----------------------------------------------------------------------------
LEMMA InitIInv == Init => IInv
<1> SUFFICES ASSUME Init PROVE IInv
  OBVIOUS
<1>1. pc = [d \in Deployment |-> "idle"] /\ stolen = FALSE
  BY DEF Init
<1>2. journal # None =>
        /\ current \in Release /\ journal.phase = "confirmed" /\ journal.current = current
        /\ journal \in Journal
  BY NoneAssumption DEF Init, Journal, Link
<1>3. \/ svc = "host" /\ target = current /\ current \in Verified
      \/ svc = "down" /\ target = None
  BY DEF Init
<1>4. TypeOK
  <2>1. journal \in Journal \cup {None} /\ current \in Link /\ target \in Link
    BY <1>2, <1>3 DEF Init, Link
  <2>2. /\ plan \in [Deployment -> [revision : Nat, candidate : Link, previous : Link]]
        /\ probed \in [Deployment -> Link] /\ faults \in 0 .. MaxFaults
    BY BoundAssumption DEF Init, NoPlan, Link
  <2> QED  BY <1>1, <1>3, <2>1, <2>2 DEF TypeOK
<1>5. Alone /\ Planned /\ Probed
  BY <1>1 DEF Alone, Planned, Probed, Running, Ended
<1>6. Linked /\ Boots /\ Serves
  BY <1>1, <1>2, <1>3 DEF Linked, Boots, Serves, After, Settled
<1> QED  BY <1>4, <1>5, <1>6 DEF IInv

LEMMA NextIInv == IInv /\ [Next]_vars => IInv'
<1> SUFFICES ASSUME IInv, [Next]_vars PROVE IInv'
  OBVIOUS
<1>1. ASSUME NEW d \in Deployment, Begin(d) \/ Repair(d)
      PROVE  IInv'
  BY <1>1, BeginStep, RepairStep
<1>2. ASSUME NEW d \in Deployment, Deploy(d)
      PROVE  IInv'
  BY <1>2, RecordStep, PointStep, RestartStep, AnswerStep, TimeoutStep, ConfirmStep,
     BackStep, CloseStep DEF Deploy
<1>3. ASSUME NEW d \in Deployment, RestartFails(d) \/ TimesOutEarly(d) \/ Kill(d)
      PROVE  IInv'
  BY <1>3, RestartFailsStep, TimesOutEarlyStep, KillStep
<1>4. CASE Serve
  BY <1>4, StartStep, SettleStep, BootRepairStep, BootPointStep, BootRestartStep,
     ReadTargetStep, ExecStep DEF Serve
<1>5. CASE ServiceDies
  BY <1>5, ServiceDiesStep
<1>6. CASE UNCHANGED vars
  BY <1>6
     DEF vars, IInv, TypeOK, Alone, Planned, Linked, Boots, Serves, Probed, After, Running,
         Settled, Switching
<1> QED  BY <1>1, <1>2, <1>3, <1>4, <1>5, <1>6 DEF Next

LEMMA Inductive == Spec => []IInv
  BY InitIInv, NextIInv, PTL DEF Spec

-----------------------------------------------------------------------------
(* Every variable keeps its type: in particular boot executes no release    *)
(* that does not verify (services: run checks the manifest first).          *)
THEOREM TypeCorrect == Spec => []TypeOK
<1>1. IInv => TypeOK
  BY DEF IInv
<1> QED  BY <1>1, Inductive, PTL

(* Once a switch is recorded as ended, however it ended, the link is where  *)
(* the record says, unless boot has taken it over from a living deployment. *)
THEOREM EndedSwitchIsCurrent == Spec => []SettledIsCurrent
<1>1. IInv => SettledIsCurrent
  BY DEF IInv, Linked, SettledIsCurrent
<1> QED  BY <1>1, Inductive, PTL

(* The host that runs while no switch is in flight is the recorded one.     *)
THEOREM RunsWhatIsRecorded == Spec => []HostRunsRecorded
<1>1. IInv => HostRunsRecorded
  BY DEF IInv, Linked, Serves, HostRunsRecorded
<1> QED  BY <1>1, Inductive, PTL

(* While a deployment is about to confirm, the journal is only written when *)
(* that deployment confirms: no other is running.                           *)
LEMMA ConfirmStepAnswered ==
  ASSUME IInv, [Next]_vars, NEW d \in Deployment, pc[d] = "confirm", journal' # journal, ~stolen
  PROVE  probed[d] = journal'.current
<1>1. \A e \in Deployment : e # d => ~Running(e)
  BY DEF IInv, Alone, Running, Ended
<1>2. Confirm(d)
  BY <1>1
     DEF Next, Deploy, Serve, Begin, Repair, Record, Point, Restart, Answer, Timeout,
         Confirm, Back, Close, RestartFails, TimesOutEarly, Kill, Start, Settle, BootRepair,
         BootPoint, BootRestart, ReadTarget, Exec, ServiceDies, files, vars, Running, Ended
<1> QED  BY <1>2 DEF Confirm, Write, IInv, Probed

(* A release is confirmed on its own answer, not on that of the host it     *)
(* replaces.                                                                *)
THEOREM ConfirmsItsOwnAnswer == Spec => ConfirmedByItself
<1>1. IInv /\ [Next]_vars =>
        [\A d \in Deployment : pc[d] = "confirm" /\ journal' # journal /\ ~stolen
           => probed[d] = journal'.current]_vars
  BY ConfirmStepAnswered
<1> QED  BY <1>1, Inductive, PTL DEF Spec, ConfirmedByItself
=============================================================================
