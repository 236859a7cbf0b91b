-------------------------- MODULE MCComponentProcess --------------------------
(***************************************************************************)
(* Two tenants and two versions of the plugin, up to four failures.        *)
(***************************************************************************)
EXTENDS ComponentProcess, TLC
CONSTANTS t1, t2, d1, d2
Symmetry == Permutations({t1, t2}) \cup Permutations({d1, d2})
=============================================================================
