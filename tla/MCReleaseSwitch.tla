---------------------------- MODULE MCReleaseSwitch ----------------------------
(***************************************************************************)
(* Two deployments in a row, over good releases g1 and g2, one that starts *)
(* but never answers and one from before the launcher, without a manifest. *)
(***************************************************************************)
EXTENDS ReleaseSwitch
CONSTANTS g1, g2, sick, legacy, x1, x2
=============================================================================
