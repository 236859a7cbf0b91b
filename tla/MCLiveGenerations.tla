--------------------------- MODULE MCLiveGenerations ---------------------------
(* A chain of three plugins and one that keeps the service container; the     *)
(* other selection lacks the middle of the chain and the keeper.  One change  *)
(* with up to two failures, or with work and a request; or two changes with a *)
(* failure or with work.                                                      *)
EXTENDS LiveGenerations, TLC
CONSTANTS base, middle, top, watcher, r1

MCDepends == base :> {} @@ middle :> {base} @@ top :> {middle} @@ watcher :> {}
MCSelections == {{base, middle, top, watcher}, {base, top}}
Plan(changes, faults, jobs, requests) ==
  [changes |-> changes, faults |-> faults, jobs |-> jobs, requests |-> requests]
MCBudgets == {Plan(1, 2, 0, 0), Plan(1, 1, 1, 0), Plan(1, 1, 0, 1), Plan(1, 0, 1, 1),
              Plan(2, 1, 0, 0), Plan(2, 0, 1, 0)}
=============================================================================
