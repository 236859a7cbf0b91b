----------------------------- MODULE RuntimeHost -----------------------------
(***************************************************************************)
(* What the owner of the native plugins promises whoever operates and      *)
(* calls the host (RuntimeHost in server/plugins/live.rs), whatever hooks  *)
(* fail and callers go away.                                               *)
(*                                                                         *)
(* A host serves one composition, all of it and nothing else.  While it    *)
(* does, no instance starts or stops.  A change touches only the plugins   *)
(* it affects, once no request is inside any more, one instance at a time; *)
(* it ends with what was asked for, or with the old set, affected plugins  *)
(* anew and the others as they were, tasks included.  Otherwise the host   *)
(* ends down, with nothing left of it.                                     *)
(***************************************************************************)
CONSTANTS Plugin, Request,
          Number,     \* instances of a plugin are numbered
          None,       \* the number of a plugin that is not part of it
          Depends,    \* the plugins whose services a plugin is initialised with
          Observers   \* plugins that keep the whole service container

VARIABLES
  phase,             \* starting, serving, asked for a change, changing, stopping, down
  served,            \* the number of each plugin's instance in what is served
  wanted, affected,  \* the set a change is to install, and what it may touch
  up,                \* the instances that are up, from before their resources exist
  ended,             \* the instances whose tasks have been told to end
  busy,              \* the instances that work in the background
  inside             \* the requests admitted, with those whose answer is still read

change == <<wanted, affected>>
instances == <<up, ended, busy>>
vars == <<phase, served, wanted, affected, up, ended, busy, inside>>

Composition(s) == {p \in Plugin : s[p] # None}
Instances(s) == {<<p, s[p]>> : p \in Composition(s)}
(* What is served is up, nothing else is, and it may work. *)
Whole(s) == up = Instances(s) /\ Instances(s) \cap ended = {}

Init ==
  /\ phase = "starting" /\ served = [p \in Plugin |-> None]
  /\ wanted = {} /\ affected = {}
  /\ up = {} /\ ended = {} /\ busy = {} /\ inside = {}

-----------------------------------------------------------------------------
(* Requests come while the host serves, and leave when they want; background *)
(* work begins on what is up and has not been told to end.                   *)
Admit(r) ==
  /\ phase \in {"serving", "asked"} /\ r \notin inside
  /\ inside' = inside \cup {r}
  /\ UNCHANGED <<phase, served, change, instances>>
Leave(r) ==
  /\ r \in inside
  /\ inside' = inside \ {r}
  /\ UNCHANGED <<phase, served, change, instances>>
BeginWork(u) ==
  /\ u \in up \ (busy \cup ended)
  /\ busy' = busy \cup {u}
  /\ UNCHANGED <<phase, served, change, up, ended, inside>>
EndWork(u) ==
  /\ u \in busy
  /\ busy' = busy \ {u}
  /\ UNCHANGED <<phase, served, change, up, ended, inside>>

-----------------------------------------------------------------------------
(* Instances are exchanged one by one and never under a request. *)
Touches(p) ==
  /\ inside = {}
  /\ phase = "changing" => p \in affected
StartInstance(p, n) ==
  /\ phase \in {"starting", "changing"} /\ Touches(p)
  /\ \A m \in Number : <<p, m>> \notin up
  /\ up' = up \cup {<<p, n>>}
  /\ UNCHANGED <<phase, served, change, ended, busy, inside>>
(* What uses it has stopped before, and its own work has ended. *)
StopInstance(p, n) ==
  /\ phase \in {"starting", "changing", "stopping"} /\ Touches(p)
  /\ <<p, n>> \in up \ busy
  /\ \A q \in Plugin, m \in Number : p \in Depends[q] => <<q, m>> \notin up
  /\ up' = up \ {<<p, n>>}
  /\ UNCHANGED <<phase, served, change, ended, busy, inside>>
(* A start that fails or is abandoned ends the tasks it had begun. *)
GiveUp ==
  /\ phase \in {"starting", "changing"}
  /\ ended \subseteq ended'
  /\ phase = "changing" => \A u \in ended' \ ended : u[1] \in affected
  /\ UNCHANGED <<phase, served, change, up, busy, inside>>

-----------------------------------------------------------------------------
(* The first start. *)
Serve ==
  /\ phase = "starting" /\ phase' = "serving"
  /\ Whole(served')
  /\ UNCHANGED <<change, instances, inside>>

(* What a change affects is closed under dependence, and covers what differs. *)
Ask ==
  LET plugins == Composition(served) \cup wanted' IN
  /\ phase = "serving" /\ phase' = "asked"
  /\ affected' # {}
  /\ wanted' \ affected' = Composition(served) \ affected'
  /\ \A p \in plugins : p \in Observers \/ Depends[p] \cap affected' # {} => p \in affected'
  /\ UNCHANGED <<served, instances, inside>>
Refuse ==
  /\ phase = "asked" /\ phase' = "serving" /\ wanted' = {} /\ affected' = {}
  /\ UNCHANGED <<served, instances, inside>>
(* Only the tasks of affected plugins are told to end. *)
Commit ==
  /\ phase = "asked" /\ phase' = "changing"
  /\ ended \subseteq ended' /\ \A u \in ended' \ ended : u[1] \in affected
  /\ UNCHANGED <<served, change, up, busy, inside>>

Publish(plugins) ==
  /\ phase = "changing" /\ phase' = "serving" /\ wanted' = {} /\ affected' = {}
  /\ Composition(served') = plugins /\ Whole(served')
  /\ \A p \in plugins : p \in affected <=> served'[p] # served[p]
  /\ UNCHANGED <<instances, inside>>
Adopt == Publish(wanted)
Restore == Publish(Composition(served))

(* The host goes down, for good: when it is told to, or a change cannot be undone. *)
GoDown ==
  /\ phase \in {"serving", "changing", "down"} /\ phase' = "stopping"
  /\ ended \subseteq ended' /\ up \subseteq ended'
  /\ UNCHANGED <<served, change, up, busy, inside>>
Down ==
  /\ phase \in {"starting", "stopping"} /\ phase' = "down" /\ wanted' = {} /\ affected' = {}
  /\ up = {} /\ busy = {} /\ inside = {}
  /\ UNCHANGED <<served, instances, inside>>

Next ==
  \/ \E r \in Request : Admit(r) \/ Leave(r)
  \/ \E p \in Plugin, n \in Number :
       \/ BeginWork(<<p, n>>) \/ EndWork(<<p, n>>)
       \/ StartInstance(p, n) \/ StopInstance(p, n)
  \/ GiveUp \/ Serve \/ Ask \/ Refuse \/ Commit \/ Adopt \/ Restore \/ GoDown \/ Down

Spec == Init /\ [][Next]_vars
=============================================================================
