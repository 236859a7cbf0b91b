-------------------------- MODULE MCComponentInstall --------------------------
(***************************************************************************)
(* Two versions, the newer of which adds a migration or has those of the   *)
(* older one.  Either both requests arrive at the host a that manages the  *)
(* plugin and may restart, or one at a second host b that only serves.     *)
(***************************************************************************)
EXTENDS ComponentInstall, TLC

CONSTANTS a, b, r1, r2, d1, d2

MCVersions == <<d1, d2>>
Growing == d1 :> <<"m1">> @@ d2 :> <<"m1", "m2">>
Equal == d1 :> <<"m1">> @@ d2 :> <<"m1">>

Setting(hostOf, migrations, may, failures) ==
  [hostOf |-> hostOf, migrations |-> migrations, may |-> may, faults |-> failures]
AtA == r1 :> a @@ r2 :> a
AtBoth == {r1 :> a @@ r2 :> b, r1 :> b @@ r2 :> a}
Managed == a :> Kind \cup {"restart"} @@ b :> {}
Requests == Permutations({r1, r2})

MCSettings == {Setting(AtA, Growing, Managed, 2)}
              \cup {Setting(hosts, Equal, Managed, 1) : hosts \in AtBoth}

(* Only what the disagreements need: an upgrade that fails, and an upgrade  *)
(* that races the other host's choice.                                      *)
Upgraded(failures) == {Setting(AtA, Growing, a :> {"upgrade", "restart"} @@ b :> {}, failures)}
UpgradedOnce == Upgraded(1)
UpgradedTwice == Upgraded(2)
Contended ==
  {Setting(hosts, Growing, a :> {"upgrade"} @@ b :> {"disable", "uninstall"}, 0) : hosts \in AtBoth}
=============================================================================
