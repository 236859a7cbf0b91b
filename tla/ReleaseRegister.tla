--------------------------- MODULE ReleaseRegister ---------------------------
(***************************************************************************)
(* What the release record of one (source, tenant) promises to every host, *)
(* whatever the backend: component_releases.rs states it as the contract   *)
(* of ComponentReleases and ReleaseLease.                                  *)
(*                                                                         *)
(* A candidate is offered against the generation its preparation saw.  It  *)
(* is published only while that generation is still the current one, and   *)
(* only while no request executes anywhere.  A request executes the        *)
(* revision that is current when it begins, and that revision stays the    *)
(* current one until it ends.  Withdrawing a release keeps the generation  *)
(* counting, so that an older offer can never be published afterwards.     *)
(***************************************************************************)
EXTENDS Naturals

CONSTANTS Task,     \* the calls made on the hosts' execution slots
          Digest,   \* bundle digests
          None      \* no revision, no offer, nothing executing

VARIABLES revision,    \* the active revision, None when withdrawn
          generation,  \* how often the record has changed
          offer,       \* the generation each candidate was prepared against
          running      \* the revision each request executes

vars == <<revision, generation, offer, running>>

Quiet == \A t \in Task : running[t] = None

Init ==
  /\ revision \in Digest \cup {None}
  /\ generation \in Nat
  /\ generation = 0 => revision = None
  /\ offer = [t \in Task |-> None]
  /\ running = [t \in Task |-> None]

(* A candidate is prepared against the current generation. *)
Offer(t) ==
  /\ offer' = [offer EXCEPT ![t] = generation]
  /\ UNCHANGED <<revision, generation, running>>

(* Candidates are given up at any time: refused, cancelled, lost in a crash. *)
Forget(ts) ==
  /\ offer' = [t \in Task |-> IF t \in ts THEN None ELSE offer[t]]
  /\ running' = [t \in Task |-> IF t \in ts THEN None ELSE running[t]]
  /\ UNCHANGED <<revision, generation>>

(* Compare-and-set of the whole release: revision and generation together. *)
Publish(t, d) ==
  /\ Quiet
  /\ offer[t] = generation
  /\ revision' = d
  /\ generation' = generation + 1
  /\ offer' = [offer EXCEPT ![t] = None]
  /\ UNCHANGED running

Withdraw ==
  /\ Quiet
  /\ revision # None
  /\ revision' = None
  /\ generation' = generation + 1
  /\ UNCHANGED <<offer, running>>

Begin(t) ==
  /\ revision # None
  /\ running' = [running EXCEPT ![t] = revision]
  /\ UNCHANGED <<revision, generation, offer>>

Next ==
  \/ \E t \in Task : Offer(t) \/ Begin(t) \/ \E d \in Digest : Publish(t, d)
  \/ \E ts \in SUBSET Task : Forget(ts)
  \/ Withdraw

Spec == Init /\ [][Next]_vars
=============================================================================
