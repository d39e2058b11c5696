----------------------------- MODULE MCSimSflow -----------------------------
(* SimSflow on two interfaces, of which a VRF treats the one of its own    *)
(* name as any other.                                                      *)
EXTENDS SimSflow

CONSTANTS p1, vrf0

MCVlans    == {}
MCSettings == {[vlan_mode |-> "access", vlan |-> 10, trunks |-> {}]}

(* Two configurations that sample, and one that asks for sFlow without a   *)
(* collector.                                                              *)
MCRequests == {[sampling_rate |-> 1, targets |-> {"c1"}],
               [sampling_rate |-> 2, targets |-> {"c1"}],
               [sampling_rate |-> 1, targets |-> {}]}

OneRequest == {[sampling_rate |-> 1, targets |-> {"c1"}]}

(* No name is the beginning of another.                                    *)
ExactMatches == [p \in Ports |-> {p}]

SflowSymmetry == Permutations({p1, vrf0})
=============================================================================
