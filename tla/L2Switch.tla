------------------------------ MODULE L2Switch ------------------------------
(***************************************************************************)
(* What the bridge of the simulation promises (DESIGN.md, "ofproto         *)
(* simulation provider"): logical ports with VLAN settings and a set of    *)
(* enabled VLANs, and on the wire of every port exactly the VLANs these    *)
(* ask for.  "The simulations brings up an access port, only when the      *)
(* interface and the access VLAN are up [...] configures a trunk port with *)
(* a subset of its enabled VLANS (assuming at least one)."  There are no   *)
(* processes, tables, bitmaps or commands here.                            *)
(***************************************************************************)
EXTENDS Integers

CONSTANTS LogicalPorts, Vids, Absent

VARIABLES
    conf,     \* the settings of every logical port, or Absent
    vlans,    \* the enabled VLANs
    carried,  \* the <<VLAN, tagging>> pairs on the wire of every port
    defined   \* FALSE: a handler ran into undefined behaviour

switchvars == <<conf, vlans, carried, defined>>

(* What a port with settings c carries while the VLANs v are enabled.  A   *)
(* port with a native VLAN is up when that VLAN is and a trunk VLAN is.    *)
Wire(c, v) ==
    LET trunks == c.trunks \cap v
        native == {c.vlan} \cap v
    IN  CASE c.vlan_mode = "access" -> native \X {"untagged"}
          [] c.vlan_mode = "trunk"  -> trunks \X {"tagged"}
          [] c.vlan_mode = "native-tagged" ->
                {f \in (native \cup trunks) \X {"tagged"} : native # {} /\ trunks # {}}
          [] c.vlan_mode = "native-untagged" ->
                {f \in (native \X {"untagged"}) \cup ((trunks \ native) \X {"tagged"}) :
                    native # {} /\ trunks # {}}

SwitchInit ==
    /\ conf = [p \in LogicalPorts |-> Absent]
    /\ vlans = {}
    /\ carried = [p \in LogicalPorts |-> {}]
    /\ defined = TRUE

(* After every step the wires follow the settings.                         *)
Rewire ==
    /\ carried' = [p \in LogicalPorts |->
                     IF conf'[p] = Absent THEN {} ELSE Wire(conf'[p], vlans')]
    /\ defined' = TRUE

(* Port p gets settings; other ports, whose last interface it takes, may   *)
(* be gone.                                                                *)
Configure(p) ==
    /\ defined
    /\ DOMAIN conf' = LogicalPorts /\ conf'[p] # Absent
    /\ \A q \in LogicalPorts \ {p} : conf'[q] \in {conf[q], Absent}
    /\ vlans' = vlans
    /\ Rewire

(* Port p is removed.                                                      *)
Remove(p) ==
    /\ defined
    /\ conf' = [conf EXCEPT ![p] = Absent]
    /\ vlans' = vlans
    /\ Rewire

(* A VLAN is enabled or disabled.                                          *)
SetVlan(v) ==
    /\ defined
    /\ vlans' = IF v \in vlans THEN vlans \ {v} ELSE vlans \cup {v}
    /\ conf' = conf
    /\ Rewire

(* A new process starts empty.                                             *)
Reboot ==
    /\ conf' = [p \in LogicalPorts |-> Absent]
    /\ vlans' = {}
    /\ Rewire

(* Undefined behaviour; only a new process goes on from there.             *)
Undefined == defined' = FALSE

SwitchNext ==
    \/ \E p \in LogicalPorts : Configure(p) \/ Remove(p)
    \/ \E v \in Vids : SetVlan(v)
    \/ Reboot
    \/ Undefined

SwitchSpec == SwitchInit /\ [][SwitchNext]_switchvars
=============================================================================
