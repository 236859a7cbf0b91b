------------------------------ MODULE MCDelivery ------------------------------
(* Two commits, two discovering hosts, two workers, two publishing hosts and  *)
(* one tenant.  One repository changes twice; or changes once while something *)
(* fails or the tenant decides once; or does not change while both happen; or *)
(* there are two repositories that do not change.                             *)
EXTENDS Delivery
CONSTANTS s1, s2, c1, c2, w1, w2, d1, d2, h1, h2, t1

Plan(repositories, pushes, faults, choices) ==
  [repositories |-> repositories, pushes |-> pushes, faults |-> faults, choices |-> choices]
MCBudgets == {Plan({s1}, 2, 0, 0), Plan({s1}, 1, 1, 0), Plan({s1}, 1, 0, 1),
              Plan({s1}, 0, 1, 1), Plan({s1}, 0, 2, 0), Plan({s1, s2}, 0, 0, 0)}
Symmetry == Permutations({w1, w2}) \cup Permutations({d1, d2}) \cup Permutations({c1, c2})
            \cup Permutations({h1, h2})
=============================================================================
