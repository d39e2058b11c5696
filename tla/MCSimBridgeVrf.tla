--------------------------- MODULE MCSimBridgeVrf ---------------------------
(* SimBridgeVrf on two interfaces, a LAG, a VLAN interface and one VLAN.   *)
EXTENDS SimBridgeVrf, TLC

CONSTANTS p1, p2

MCVlans    == {10}

(* A trunk, which is switched without a VLAN of its own.                   *)
MCSettings == {[vlan_mode |-> "trunk", vlan |-> -1, trunks |-> MCVlans]}

(* Bound: the VLAN interface, which no setting here has a VLAN for, only   *)
(* while there is no other interface.                                      *)
IntfAlone == ofports \cap Intf = {} \/ ofports \cap Phys = {}

BothSymmetry == Permutations({p1, p2})
=============================================================================
