---------------------------- MODULE SimBridgeVrf ----------------------------
(***************************************************************************)
(* A bridge (SimBundle with Vrf = FALSE) and a VRF that share the          *)
(* interfaces: an interface is a port of one of them at a time, and the    *)
(* DROP rules that hide a switched port from the kernel are the kernel's.  *)
(*                                                                         *)
(* A VRF ofproto never reaches bundle_configure, so that none of its ports *)
(* is flagged iptable_rules_added and neither its bundle_set nor its       *)
(* bundle_del_port runs iptables for a DROP rule: all that matters of it   *)
(* here is which ports it has.                                             *)
(***************************************************************************)
EXTENDS SimBundle

VARIABLES
    routed,    \* physical interfaces with a bundle in the VRF
    leftover   \* ports with rules left by a process that died (history)

bothvars == <<vars, routed, leftover>>

Dropped == {p \in Ports : dropInput[p] + dropForward[p] > 0}

BothInit == Init /\ routed = {} /\ leftover = {}

BridgeHandler == Handler /\ ofports' \cap routed = {} /\ UNCHANGED routed

(* port_alloc and bundle_set of the VRF, for an interface that is in no    *)
(* ofproto; bundle_set with NULL and port_dealloc of the VRF.              *)
Route(p)   == Intact /\ p \notin ofports \cup routed
              /\ routed' = routed \cup {p} /\ UNCHANGED vars
Unroute(p) == Intact /\ p \in routed
              /\ routed' = routed \ {p} /\ UNCHANGED vars

(* The process dies, between two handlers or two iptables commands, and    *)
(* another one starts.                                                     *)
Dies == (Boot \/ Crash) /\ routed' = {} /\ leftover' = Dropped'

BothNext ==
    \/ /\ BridgeHandler \/ \E p \in Phys : Route(p) \/ Unroute(p)
       /\ leftover' = leftover \cap Dropped'
    \/ Dies

BothSpec == BothInit /\ [][BothNext]_bothvars

-----------------------------------------------------------------------------
(* "Enable the port in IP tables. So that regular L3 traffic can flow      *)
(* across it." (bundle_del_port): however a port was moved between         *)
(* bundles, LAGs and ofprotos, and whichever ovs-vsctl commands failed,    *)
(* the kernel drops no packet of a port of the VRF, except by rules that   *)
(* were left by a process that died and were not all deleted since.        *)
RoutedPortsOpen == Intact => routed \cap Dropped \subseteq leftover
=============================================================================
