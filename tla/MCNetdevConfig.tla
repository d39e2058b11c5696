--------------------------- MODULE MCNetdevConfig ---------------------------
(* NetdevConfig on a name that is opened with every class, and a loopback  *)
(* interface beside it.                                                    *)
EXTENDS NetdevConfig, TLC

CONSTANTS e1, lo1

MCClasses == e1  :> {"system", "internal", "vlansubint"} @@
             lo1 :> {"loopback"}
=============================================================================
