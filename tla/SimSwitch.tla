------------------------------ MODULE SimSwitch ------------------------------
(***************************************************************************)
(* SimBundle as an implementation of L2Switch.                             *)
(***************************************************************************)
EXTENDS SimBundle

(* The frames a port of the ASIC OVS carries, by the meaning of its        *)
(* vlan_mode, tag and trunks columns.                                      *)
Frames(a) ==
    CASE a = NoPort -> {}
      [] a # NoPort /\ a.vlan_mode = "access" -> {<<a.tag, "untagged">>}
      [] a # NoPort /\ a.vlan_mode = "trunk"  -> a.trunks \X {"tagged"}
      [] a # NoPort /\ a.vlan_mode = "native-tagged" ->
            (a.trunks \cup {a.tag}) \X {"tagged"}
      [] a # NoPort /\ a.vlan_mode = "native-untagged" ->
            {<<a.tag, "untagged">>} \cup ((a.trunks \ {a.tag}) \X {"tagged"})

Switch == INSTANCE L2Switch WITH
    LogicalPorts <- Bundles,
    Vids    <- Vlans,
    Absent  <- NoPort,
    conf    <- [b \in Bundles |-> IF b \in Switched THEN cfg[b] ELSE NoPort],
    vlans   <- vlans_bmp,
    carried <- [b \in Bundles |-> Frames(asic[b])],
    defined <- Intact

(* While commands succeed, the bridge is an L2Switch: in every order of    *)
(* bundle_set, bundle_remove, set_vlan, moves of interfaces between        *)
(* bundles, crashes and restarts, a handler changes the settings of one    *)
(* logical port, removes at most those that lose their interfaces to it,   *)
(* and leaves on every wire what the settings and enabled VLANs ask for.   *)
ImplementsSwitch == Switch!SwitchSpec
=============================================================================
