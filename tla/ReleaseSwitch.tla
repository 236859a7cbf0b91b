----------------------------- MODULE ReleaseSwitch -----------------------------
(***************************************************************************)
(* The launcher's switch to a new release of the host (lib/plugin/launcher):*)
(* a deployment outside the service runs activate or repair, the service   *)
(* runs boot and becomes the host.  They share two files, each replaced in *)
(* one step: the symbolic link `current` and the journal switch.json; a    *)
(* restart of the service kills whatever boot is doing.                    *)
(***************************************************************************)
EXTENDS Naturals

CONSTANTS Release,
          Verified,    \* have a manifest that matches their files
          Healthy,     \* would answer the health probe
          Deployment,  \* runs of the launcher outside the service
          MaxFaults,   \* bound on crashes, failing commands and early timeouts
          None

ASSUME ReleaseAssumption == Verified \subseteq Release /\ Healthy \subseteq Release
ASSUME BoundAssumption == MaxFaults \in Nat

(* What the link and the record hold. *)
Link == Release \cup {None}
Journal == [revision : Nat, phase : {"switching", "confirmed", "rolled_back"},
            current : Release, previous : Link, holder : Deployment \cup {None}]
ASSUME NoneAssumption == None \notin Release \cup Deployment /\ None \notin Journal

VARIABLES
  current,  \* what the link points to
  journal,  \* the record, or None
  pc, plan, \* per deployment: its next step, what it works with
  probed,   \* per deployment: the release that has answered its probe
  svc,      \* the service: boot's next step, "host" or "down"
  target,   \* the release boot goes back to, then the one it starts
  stolen,   \* history: boot has moved the link under a switch in flight
  faults    \* failures left

files == <<current, journal>>
service == <<svc, target, stolen>>
deployments == <<pc, plan, probed>>
vars == <<current, journal, pc, plan, probed, svc, target, stolen, faults>>

NoPlan == [revision |-> 0, candidate |-> None, previous |-> None]
Ended == {"idle", "done"}

TypeOK ==
  /\ current \in Link
  /\ journal \in Journal \cup {None}
  /\ pc \in [Deployment -> {"idle", "record", "point", "restart", "health", "confirm",
                            "back", "again", "recheck", "close", "done"}]
  /\ plan \in [Deployment -> [revision : Nat, candidate : Link, previous : Link]]
  /\ probed \in [Deployment -> Link]
  /\ svc \in {"down", "settle", "repair", "point", "restart", "target", "exec", "host"}
  /\ target \in Link
  /\ svc = "host" => target \in Verified
  /\ stolen \in BOOLEAN
  /\ faults \in 0 .. MaxFaults

Init ==
  /\ current \in Link
  /\ journal \in {None, [revision |-> 1, phase |-> "confirmed", current |-> current,
                         previous |-> None, holder |-> None]}
  /\ current = None => journal = None
  /\ IF current \in Verified THEN svc = "host" /\ target = current ELSE svc = "down" /\ target = None
  /\ pc = [d \in Deployment |-> "idle"]
  /\ plan = [d \in Deployment |-> NoPlan]
  /\ probed = [d \in Deployment |-> None]
  /\ stolen = FALSE
  /\ faults = MaxFaults

-----------------------------------------------------------------------------
Switching == journal # None /\ journal.phase = "switching"
Settled == journal # None /\ journal.phase # "switching"
Running(d) == pc[d] \notin Ended

(* holder_alive: the process that wrote the record still runs. *)
HolderAlive == journal.holder # None /\ Running(journal.holder)

NextSequence == IF journal = None THEN 1 ELSE journal.revision + 1

Goto(d, p) == pc' = [pc EXCEPT ![d] = p]
Finish(d) == Goto(d, "done") /\ plan' = [plan EXCEPT ![d] = NoPlan]
                            /\ probed' = [probed EXCEPT ![d] = None]
KeepDeployment == UNCHANGED <<plan, probed>>

Write(d, phase, release) ==
  journal' = [revision |-> plan[d].revision + (IF phase = "switching" THEN 0 ELSE 1),
              phase |-> phase, current |-> release,
              previous |-> IF phase = "rolled_back" THEN None ELSE plan[d].previous,
              holder |-> IF phase = "switching" THEN d ELSE None]

-----------------------------------------------------------------------------
(* A deployment: activate.  journal.rs says there is one at a time.        *)

Begin(d) ==
  /\ pc[d] = "idle" /\ \A e \in Deployment : ~Running(e)
  /\ \E c \in Verified :
       plan' = [plan EXCEPT ![d] = [revision |-> NextSequence, candidate |-> c, previous |-> current]]
  /\ Goto(d, "record")
  /\ UNCHANGED <<files, probed, service, faults>>

Record(d) ==
  /\ pc[d] = "record"
  /\ Write(d, "switching", plan[d].candidate)
  /\ Goto(d, "point")
  /\ stolen' = FALSE
  /\ KeepDeployment /\ UNCHANGED <<current, svc, target, faults>>

Point(d) ==
  /\ pc[d] = "point"
  /\ current' = plan[d].candidate
  /\ Goto(d, "restart")
  /\ KeepDeployment /\ UNCHANGED <<journal, service, faults>>

(* The restart command: the service starts over with boot. *)
RestartNothing == UNCHANGED service
Restarted == svc' = "settle" /\ target' = None /\ UNCHANGED stolen

Restart(d) ==
  /\ pc[d] \in {"restart", "again"}
  /\ Restarted
  /\ Goto(d, IF pc[d] = "restart" THEN "health" ELSE "recheck")
  /\ KeepDeployment /\ UNCHANGED <<files, faults>>

(* The probe asks an address: whichever host is there answers. *)
Answering == svc = "host" /\ target \in Healthy
Answer(d) ==
  /\ pc[d] \in {"health", "recheck"}
  /\ Answering
  /\ probed' = [probed EXCEPT ![d] = target]
  /\ Goto(d, IF pc[d] = "health" THEN "confirm" ELSE "close")
  /\ UNCHANGED <<files, plan, service, faults>>

(* A candidate that fails is taken back, unless nothing ran before it; a     *)
(* rollback that fails leaves the record as it is.                          *)
Fail(d) ==
  IF pc[d] \in {"restart", "health"} /\ plan[d].previous # None
  THEN Goto(d, "back") /\ KeepDeployment
  ELSE Finish(d)

(* No host answers, or boot sits out the grace period of an orphan, which    *)
(* is longer than the health check (cli.rs).                                *)
Timeout(d) ==
  /\ pc[d] \in {"health", "recheck"}
  /\ \/ svc = "down"
     \/ svc = "host" /\ target \notin Healthy
     \/ Switching /\ ~HolderAlive
  /\ Fail(d)
  /\ UNCHANGED <<files, service, faults>>

Confirm(d) ==
  /\ pc[d] = "confirm"
  /\ Write(d, "confirmed", plan[d].candidate)
  /\ Finish(d)
  /\ UNCHANGED <<current, service, faults>>

BackWithoutPointing(d) ==
  /\ pc[d] = "back"
  /\ Goto(d, "again")
  /\ KeepDeployment /\ UNCHANGED <<files, service, faults>>
Back(d) ==
  /\ pc[d] = "back"
  /\ current' = plan[d].previous
  /\ Goto(d, "again")
  /\ KeepDeployment /\ UNCHANGED <<journal, service, faults>>

Close(d) ==
  /\ pc[d] = "close"
  /\ Write(d, "rolled_back", plan[d].previous)
  /\ Finish(d)
  /\ UNCHANGED <<current, service, faults>>

(* The operator's repair: an unconfirmed record is rolled back. *)
Repair(d) ==
  /\ pc[d] = "idle" /\ \A e \in Deployment : ~Running(e)
  /\ Switching /\ journal.previous # None
  /\ plan' = [plan EXCEPT ![d] = [revision |-> journal.revision, candidate |-> journal.current,
                                  previous |-> journal.previous]]
  /\ Goto(d, "back")
  /\ UNCHANGED <<files, probed, service, faults>>

-----------------------------------------------------------------------------
(* The service: boot, then the host.                                       *)

(* systemd starts the service again. *)
Start ==
  /\ svc = "down"
  /\ Restarted
  /\ UNCHANGED <<files, deployments, faults>>

(* settle: a switch in flight is served once the link has moved; one whose  *)
(* holder is gone is rolled back after a grace period.                      *)
SwitchedWhenSettled == FALSE
Switched == current \in {journal.current, journal.previous}
Settle ==
  /\ svc = "settle"
  /\ \/ ~Switching /\ svc' = "target"
     \/ Switching /\ HolderAlive /\ Switched /\ svc' = "target"
     \/ Switching /\ ~HolderAlive /\ svc' = "repair"
  /\ UNCHANGED <<files, deployments, target, stolen, faults>>

(* repair reads the record again; without a previous release boot fails. *)
BootRepair ==
  /\ svc = "repair"
  /\ IF ~Switching THEN svc' = "target" /\ UNCHANGED target
     ELSE /\ svc' = IF journal.previous = None THEN "down" ELSE "point"
          /\ target' = journal.previous
  /\ UNCHANGED <<files, deployments, stolen, faults>>

BootPoint ==
  /\ svc = "point"
  /\ current' = target
  /\ svc' = "restart"
  /\ stolen' = (stolen \/ \E d \in Deployment : Running(d))
  /\ UNCHANGED <<journal, deployments, target, faults>>

(* The restart command restarts the very service that runs it. *)
BootRestart ==
  /\ svc = "restart"
  /\ Restarted
  /\ UNCHANGED <<files, deployments, faults>>

ReadTargetUnchecked ==
  /\ svc = "target"
  /\ IF current # None THEN svc' = "exec" /\ target' = current
                       ELSE svc' = "down" /\ target' = None
  /\ UNCHANGED <<files, deployments, stolen, faults>>
ReadTarget ==
  /\ svc = "target"
  /\ IF current \in Verified THEN svc' = "exec" /\ target' = current
                             ELSE svc' = "down" /\ target' = None
  /\ UNCHANGED <<files, deployments, stolen, faults>>

Exec ==
  /\ svc = "exec"
  /\ svc' = "host"
  /\ UNCHANGED <<files, deployments, target, stolen, faults>>

-----------------------------------------------------------------------------
(* Failures. *)

Spend == faults > 0 /\ faults' = faults - 1

RestartFails(d) ==
  /\ Spend
  /\ pc[d] \in {"restart", "again"}
  /\ Fail(d)
  /\ UNCHANGED <<files, service>>

(* The time of the health check is over before boot or the host gets there. *)
TimesOutEarly(d) ==
  /\ Spend
  /\ pc[d] \in {"health", "recheck"}
  /\ Fail(d)
  /\ UNCHANGED <<files, service>>

(* The deployment dies, or one of its writes fails. *)
Kill(d) ==
  /\ Spend
  /\ Running(d)
  /\ Finish(d)
  /\ UNCHANGED <<files, service>>

ServiceDies ==
  /\ Spend
  /\ svc # "down"
  /\ svc' = "down" /\ target' = None
  /\ UNCHANGED <<files, deployments, stolen>>

Deploy(d) ==
  \/ Record(d) \/ Point(d) \/ Restart(d) \/ Answer(d) \/ Timeout(d) \/ Confirm(d)
  \/ Back(d) \/ Close(d)
Serve == Start \/ Settle \/ BootRepair \/ BootPoint \/ BootRestart \/ ReadTarget \/ Exec

Next ==
  \/ \E d \in Deployment :
       Begin(d) \/ Repair(d) \/ Deploy(d) \/ RestartFails(d) \/ TimesOutEarly(d) \/ Kill(d)
  \/ Serve \/ ServiceDies

Spec == Init /\ [][Next]_vars
FairSpec == Spec /\ WF_vars(Serve) /\ \A d \in Deployment : WF_vars(Deploy(d))

-----------------------------------------------------------------------------
(* Properties. *)

(* Once a switch is recorded as ended, the link is where the record says    *)
(* (activate.rs: either it succeeds or it is rolled back completely),       *)
(* unless boot moved it meanwhile, see BootSparesInFlight.                  *)
SettledIsCurrent == Settled /\ ~stolen => current = journal.current

(* While no switch is recorded as in flight the host that runs is the one   *)
(* the record names: none is left over from before or from a failed try.    *)
HostRunsRecorded == Settled /\ ~stolen /\ svc = "host" => target = journal.current

(* A release is confirmed on its own answer to the probe, not on that of    *)
(* the host it replaces (supervisor.rs probes an address, not a release).   *)
ConfirmedByItself ==
  [][\A d \in Deployment : pc[d] = "confirm" /\ journal' # journal /\ ~stolen
       => probed[d] = journal'.current]_vars

(* boot and activate do not wait for each other: a switch to a healthy      *)
(* release that starts while a host is serving is confirmed without running *)
(* into a timeout (activate.rs settle), if nothing fails.                   *)
HealthySwitchSucceeds ==
  \A d \in Deployment, r \in Healthy :
    (pc[d] = "record" /\ plan[d].candidate = r /\ svc = "host" /\ faults = MaxFaults)
      ~> ((Settled /\ journal.current = r) \/ faults # MaxFaults)

(* boot leaves the switch of a living deployment alone (README, activate.rs *)
(* settle: it takes over only when the holder is gone).                     *)
BootSparesInFlight ==
  [][svc = "point" /\ svc' = "restart" => ~(Switching /\ HolderAlive)]_vars

(* A switch whose holder is gone is ended by boot (activate.rs: after a     *)
(* crash boot takes the rollback over), or at least a host comes up.        *)
OrphanSettles ==
  (svc = "settle" /\ Switching /\ ~HolderAlive /\ journal.previous \in Verified)
    ~> (Settled \/ svc = "host")
=============================================================================
