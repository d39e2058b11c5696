----------------------------- MODULE MCSimBundle -----------------------------
(* SimBundle on two interfaces, one LAG, two VLAN interfaces, two VLANs.   *)
EXTENDS SimSwitch, SimVlanIntf, TLC

CONSTANTS p1, p2, i1, i2

MCVlans    == {10, 20}

(* One setting per way through bundle_configure; native-tagged differs     *)
(* from native-untagged in the mode written only.  The reserved VLAN is    *)
(* one that no switched bundle copies and that a VLAN interface keeps.     *)
MCSettings ==
    {[vlan_mode |-> "access", vlan |-> 10,   trunks |-> MCVlans],
     [vlan_mode |-> "trunk",  vlan |-> 4095, trunks |-> {20}],
     [vlan_mode |-> "native-untagged", vlan |-> 20, trunks |-> MCVlans]}

(* Bound: a second VLAN interface only while there is no physical one.     *)
SecondAlone == Cardinality(ofports \cap Intf) <= 1 \/ ofports \cap Phys = {}

(* Bound: a stale bit is followed among VLAN interfaces only.              *)
StaleApart == stale = {} \/ ofports \cap Phys = {}

Symmetry == Permutations({p1, p2}) \cup Permutations({i1, i2})
=============================================================================
