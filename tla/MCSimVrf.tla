------------------------------ MODULE MCSimVrf ------------------------------
(* SimVrf on one interface, the internal interface of the VRF and one LAG. *)
EXTENDS SimVrf

MCNetdevs  == Ports
MCVlans    == {10}
MCSettings == {[vlan_mode |-> "access", vlan |-> 10, trunks |-> {}]}
=============================================================================
