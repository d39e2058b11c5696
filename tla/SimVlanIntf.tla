---------------------------- MODULE SimVlanIntf -----------------------------
(***************************************************************************)
(* The internal VLAN interfaces of a bridge (SimBundle with Vrf = FALSE)   *)
(* and the trunks of the bridge's port in the ASIC OVS, which decide whose *)
(* frames reach them.  The bitmap behind the trunks has one bit per VLAN   *)
(* and no count: history variables tell the VLANs for which that is too    *)
(* little to know.                                                         *)
(***************************************************************************)
EXTENDS SimBundle

VARIABLES
    stale,    \* VLANs with a bit that an interface left set when it was
              \* given another VLAN
    shared    \* VLANs that two interfaces had at the same time

vlanvars == <<vars, stale, shared>>

(* The VLAN interfaces that exist, and those of VLAN v.                    *)
Interfaces == Intf \cap bundles
Having(v)  == {i \in Interfaces : cfg[i].vlan = v}

VlanInit == Init /\ stale = {} /\ shared = {}

(* An interface that stays is given another VLAN.                          *)
LeftVlans == {cfg[i].vlan : i \in {j \in Interfaces \cap bundles' :
                                      cfg'[j].vlan # cfg[j].vlan}}

(* Two interfaces have the same VLAN after the step.                       *)
MetVlans == {cfg'[i].vlan : i \in {j \in Interfaces' :
                \E k \in Interfaces' : k # j /\ cfg'[k].vlan = cfg'[j].vlan}}

History ==
    /\ stale'  = (stale \cup LeftVlans) \cap vlan_intf_bmp'
    /\ shared' = {v \in shared \cup MetVlans : Having(v)' # {}}

(* With and without the process dying.                                     *)
VlanNextNoCrash == NextNoCrash /\ History
VlanNext        == Next /\ History

VlanSpecNoCrash == VlanInit /\ [][VlanNextNoCrash]_vlanvars
VlanSpec        == VlanInit /\ [][VlanNext]_vlanvars

-----------------------------------------------------------------------------
(* "Configure trunk for bridge interface so we receive vlan frames on      *)
(* internal vlan interfaces created on top of bridge" (bundle_set): while  *)
(* commands succeed, frames of its VLAN reach every VLAN interface, except *)
(* where two interfaces had that VLAN and one of them may have taken the   *)
(* bit with it; and the bridge gets frames of no other VLAN, except one    *)
(* that an interface had before it was given another: in whatever order    *)
(* interfaces are set, set again, destroyed and lost in restarts.          *)
TrunksFollowInterfaces ==
    Intact => /\ \A i \in Interfaces : cfg[i].vlan \in brTrunks \cup shared \cup {4095}
              /\ \A v \in brTrunks : v \in stale \/ Having(v) # {}
=============================================================================
