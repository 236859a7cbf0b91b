--------------------------- MODULE MCPersistentSlot ---------------------------
(***************************************************************************)
(* Two hosts share one release: the first runs a publisher and two         *)
(* requests, the second a competing call of every administrative kind.     *)
(* d2 extends the migrations of d1, so d1 may be replaced by d2 and not    *)
(* the other way round.                                                    *)
(***************************************************************************)
EXTENDS PersistentSlot, TLC

CONSTANTS a, b, t1, t2, t3, t4, d1, d2

MCHost == {a, b}
MCTask == {t1, t2, t3, t4}
MCHostOf == t1 :> a @@ t2 :> a @@ t3 :> a @@ t4 :> b
MCMayCall ==
  t1 :> {"activate"} @@ t2 :> {"handle"} @@ t3 :> {"restore", "unload", "snapshot"}
    @@ t4 :> {"activate", "deactivate"}

(* Fewer calls for the liveness run: a publisher and a request on one host, *)
(* a publisher or a request of its own on the other.                        *)
LiveTask == {t1, t2, t4}
LiveHostOf == t1 :> a @@ t2 :> a @@ t4 :> b
LiveMayCall ==
  t1 :> {"activate", "restore"} @@ t2 :> {"handle"} @@ t4 :> {"activate", "deactivate", "handle"}

MCMigrations == d1 :> <<"m1">> @@ d2 :> <<"m1", "m2">>
=============================================================================
