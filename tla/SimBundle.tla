------------------------------ MODULE SimBundle ------------------------------
(***************************************************************************)
(* The logical ports ("bundles") of one ofproto of the container           *)
(* simulation, and what they leave in the two places outside the process:  *)
(* the "ASIC" OVS (its port table and the trunks of its bridge interface)  *)
(* and the DROP rules in iptables.  Models ofproto-sim-provider.c:         *)
(* bundle_set, bundle_remove, bundle_configure, bundle_destroy, set_vlan,  *)
(* the VLAN routing update and the two iptables helpers.                   *)
(*                                                                         *)
(* The handlers run one at a time in the main thread of ops-switchd, so    *)
(* each is one action.  A handler that uses a freed bundle or a corrupted  *)
(* port list is undefined behaviour in C: the model shows the pointers     *)
(* such a handler leaves behind (Intact is false) and no handler runs      *)
(* after it; only the process dying and starting again (Boot) goes on.     *)
(***************************************************************************)
EXTENDS Integers, FiniteSets

CONSTANTS
    Phys,       \* physical interfaces
    Intf,       \* internal VLAN interfaces (type "internal")
    Bridge,     \* the bridge's own internal interface, named as the bridge
    Lags,       \* names of link aggregation groups
    Vlans,      \* VLAN ids
    Settings,   \* the <<vlan_mode, vlan, trunks>> requests of the client
    Vrf,        \* ofproto->vrf: this ofproto is a VRF, not a bridge
    MayFail,    \* may ovs-vsctl commands fail?
    MaxRules,   \* bound on identical DROP rules in one chain
    NoBundle,   \* NULL for port->bundle
    NoPort      \* the ASIC OVS has no port of that name

(* An interface and the logical port of the same name are one value; a     *)
(* logical port that is not a LAG has the interface of its name for slave. *)
Ports   == Phys \cup Intf \cup {Bridge}
Bundles == Ports \cup Lags

Modes == {"access", "trunk", "native-tagged", "native-untagged"}

(* What a request may have for its VLAN, and the VLANs that a bit of the   *)
(* VLAN interface bitmap and a trunk may stand for.                        *)
VlanIds     == -1 .. 4095
BitmapVlans == 1 .. 4095
TrunkVlans  == 1 .. 4094

(* trunks = Vlans also stands for a NULL bitmap (trunk every VLAN).        *)
Setting   == [vlan_mode: Modes, vlan: VlanIds, trunks: SUBSET Vlans]
BundleCfg == Setting
AsicPort  == [vlan_mode: Modes, tag: {0} \cup TrunkVlans, trunks: SUBSET Vlans]

ASSUME ConstantsAssumption ==
    /\ Vlans \subseteq TrunkVlans
    /\ Settings \subseteq Setting
    /\ Vrf \in BOOLEAN /\ MayFail \in BOOLEAN
    /\ MaxRules \in Nat \ {0}
    /\ NoBundle \notin Bundles
    /\ NoPort \notin AsicPort \cup BundleCfg

(* Interfaces and LAGs have different names.                               *)
ASSUME NamesAssumption ==
    /\ Phys \cap Intf = {} /\ Phys \cap Lags = {} /\ Intf \cap Lags = {}
    /\ Bridge \notin Phys \cup Intf \cup Lags

(* There are finitely many of them.                                        *)
ASSUME FiniteAssumption == IsFiniteSet(Phys)

VARIABLES
    ofports,                  \* ports for which an ofport exists
    bundles,                  \* keys in the ofproto's "bundles" map
    ports,                    \* bundle->ports
    bundle,                   \* port->bundle
    cfg,                      \* bundle->vlan_mode, vlan and trunks
    bond_hw_handle,           \* bundles whose handle is not -1
    is_added_to_sim_ovs,      \* bundles with that flag
    is_vlan_routing_enabled,  \* bundles with that flag
    is_bridge_bundle,         \* bundles with that flag
    iptable_rules_added,      \* ports with that flag
    vlans_bmp,                \* VLANs set in the VLAN bitmap
    vlan_intf_bmp,            \* VLANs set in the VLAN interface bitmap
    asic,                     \* port table of the ASIC OVS, by name
    brTrunks,                 \* trunks of its bridge port ({}: trunks=0)
    dropInput, dropForward    \* DROP rules per interface in the two chains

links   == <<bundles, ports, bundle, bond_hw_handle>>
flags   == <<is_vlan_routing_enabled, is_bridge_bundle>>
l2vars  == <<cfg, is_added_to_sim_ovs, asic>>
routing == <<vlan_intf_bmp, brTrunks>>
rules   == <<iptable_rules_added, dropInput, dropForward>>
vars    == <<ofports, links, flags, l2vars, routing, rules, vlans_bmp>>

(* A fresh bundle: access mode, no VLAN, no trunks bitmap.                 *)
InitCfg == [vlan_mode |-> "access", vlan |-> -1, trunks |-> Vlans]

-----------------------------------------------------------------------------
(* Helpers                                                                 *)

(* What add-port writes for configuration c when the VLANs v are enabled,  *)
(* or NoPort when the code jumps to "done" without adding the port.        *)
Program(c, v) ==
    LET trunks == c.trunks \cap v
    IN  IF \/ c.vlan_mode # "trunk" /\ c.vlan \notin v
           \/ c.vlan_mode # "access" /\ trunks = {}
        THEN NoPort
        ELSE [vlan_mode |-> c.vlan_mode,
              tag    |-> IF c.vlan_mode = "trunk" THEN 0 ELSE c.vlan,
              trunks |-> IF c.vlan_mode = "access" THEN {} ELSE trunks]

(* The sets of commands out of C that may fail together.                   *)
Failures(C) == IF MayFail THEN SUBSET C ELSE {{}}

(* The table a without the ports named in C.                               *)
DelPort(a, C) == [n \in Bundles |-> IF n \in C THEN NoPort ELSE a[n]]

(* iptables -D of one DROP rule for every port of S: it fails, and changes *)
(* nothing, where there is none.                                           *)
DeleteRule(d, S) ==
    [p \in Ports |-> IF p \in S /\ d[p] > 0 THEN d[p] - 1 ELSE d[p]]

(* iptables -A of one DROP rule for every port of S.                       *)
AppendRule(d, S) == [p \in Ports |-> IF p \in S THEN d[p] + 1 ELSE d[p]]

(* Mutant: the rules are appended without the -C check.                    *)
UncheckedAppend(d, S) == S

(* The ports of S that disable_port_in_iptables finds without an INPUT     *)
(* rule (its -C fails): both rules are appended for these only.            *)
Unblocked(d, S) == {p \in S : d[p] = 0}

(* Mutant: the FORWARD rule is not deleted.                                *)
UpdateRulesKeepForward(S, T) ==
    LET in0 == DeleteRule(dropInput, S \cap iptable_rules_added)
        new == Unblocked(in0, T \ (iptable_rules_added \ S))
    IN  /\ iptable_rules_added' = (iptable_rules_added \ S) \cup T
        /\ dropInput'   = AppendRule(in0, new)
        /\ dropForward' = AppendRule(dropForward, new)

(* bundle_del_port for the ports of S, then bundle_configure's "done" part *)
(* for the ports of T: the flagged ports of S lose their rules, the        *)
(* unflagged ones of T get them.                                           *)
UpdateRules(S, T) ==
    LET released == S \cap iptable_rules_added
        in0  == DeleteRule(dropInput, released)
        fwd0 == DeleteRule(dropForward, released)
        new  == Unblocked(in0, T \ (iptable_rules_added \ S))
    IN  /\ iptable_rules_added' = (iptable_rules_added \ S) \cup T
        /\ dropInput'   = AppendRule(in0, new)
        /\ dropForward' = AppendRule(fwd0, new)

(* Mutant: the trunks are written only when a VLAN is added.               *)
RoutingUpdateOnAdd(bmp) ==
    /\ vlan_intf_bmp' = bmp
    /\ brTrunks' = IF bmp \subseteq vlan_intf_bmp THEN brTrunks ELSE bmp \ {4095}

(* sim_bridge_vlan_routing_update: nothing when the bit has its value,     *)
(* else the bits 1 to 4094 are written to the trunks of the bridge port.   *)
sim_bridge_vlan_routing_update(bmp) ==
    /\ vlan_intf_bmp' = bmp
    /\ \/ bmp = vlan_intf_bmp /\ UNCHANGED brTrunks
       \/ bmp # vlan_intf_bmp /\ brTrunks' = bmp \ {4095}
       \/ MayFail /\ UNCHANGED brTrunks

-----------------------------------------------------------------------------
(* The pointers                                                            *)

(* A port is in the list of the bundle its pointer names, and in no other. *)
ListMatchesPointer ==
    \A p \in Ports, b \in Bundles : p \in ports[b] <=> bundle[p] = b

(* A port's bundle pointer is NULL or names a bundle of the ofproto: it    *)
(* never dangles ("Bundle that contains this port, if any",                *)
(* ofproto-sim-provider.h).                                                *)
NoDanglingBundle == \A p \in Ports : bundle[p] \in bundles \cup {NoBundle}

(* The port list of a bundle holds ofports that exist ("Contains struct    *)
(* ofports", ofproto-sim-provider.h), none that was deallocated.           *)
NoFreedMember == \A b \in Bundles : ports[b] \subseteq ofports

Intact == ListMatchesPointer /\ NoDanglingBundle /\ NoFreedMember

-----------------------------------------------------------------------------
(* Destroying a bundle                                                     *)

(* Everything bundle_destroy does to the bundles of C but unlinking their  *)
(* ports: del-port when it was added, the VLAN routing update, and the     *)
(* memory (a bundle created later starts from InitCfg).                    *)
DestroyState(C) ==
    /\ bond_hw_handle' = bond_hw_handle \ C
    /\ cfg' = [b \in Bundles |-> IF b \in C THEN InitCfg ELSE cfg[b]]
    /\ is_added_to_sim_ovs' = is_added_to_sim_ovs \ C
    /\ \E F \in Failures(C) :
          asic' = DelPort(asic, (C \cap is_added_to_sim_ovs) \ F)
    /\ is_vlan_routing_enabled' = is_vlan_routing_enabled \ C
    /\ sim_bridge_vlan_routing_update(
          vlan_intf_bmp \ {cfg[b].vlan : b \in C \cap is_vlan_routing_enabled})
    /\ is_bridge_bundle' = is_bridge_bundle \ C

(* bundle_destroy of a bundle of the ofproto: every port leaves it and     *)
(* gets its rules deleted, and the bundle leaves the map.                  *)
bundle_destroy(b) ==
    /\ DestroyState({b})
    /\ bundles' = bundles \ {b}
    /\ ports'   = [ports EXCEPT ![b] = {}]
    /\ bundle'  = [p \in Ports |-> IF p \in ports[b] THEN NoBundle
                                                     ELSE bundle[p]]
    /\ UpdateRules(ports[b], {})

(* bundle_set with s = NULL.                                               *)
bundle_set_null(b) ==
    /\ Intact
    /\ b \in bundles
    /\ bundle_destroy(b)
    /\ UNCHANGED <<ofports, vlans_bmp>>

(* bundle_remove: destroys the port's bundle unless it is a LAG with a     *)
(* handle, for which nothing is done.                                      *)
bundle_remove(p) ==
    /\ Intact
    /\ p \in ofports /\ bundle[p] # NoBundle
    /\ IF bundle[p] \in bond_hw_handle
       THEN UNCHANGED <<links, flags, l2vars, routing, rules>>
       ELSE bundle_destroy(bundle[p])
    /\ UNCHANGED <<ofports, vlans_bmp>>

-----------------------------------------------------------------------------
(* Setting a bundle                                                        *)

(* A request s to bundle_set: the slaves, whether slaves_entered > 1,      *)
(* hw_bond_should_exist, and the VLAN settings.  The client asks for a     *)
(* bond whenever a LAG has two slaves or more, and never for VLAN 0 on a   *)
(* VLAN interface.                                                         *)
Requests(b) ==
    IF b \in Lags
    THEN {r \in [slaves: SUBSET Phys, many: BOOLEAN, bond: BOOLEAN,
                 set: Settings] :
             Cardinality(r.slaves) > 1 => r.many /\ r.bond}
    ELSE [slaves: {{b}}, many: {FALSE}, bond: {FALSE},
          set: {x \in Settings : b \in Intf => x.vlan # 0}]

(* The slaves for which bundle_add_port finds a port.                      *)
Found(s) == s.slaves \cap ofports

(* Other bundles that lose a port to b: bundle_add_port calls              *)
(* bundle_remove for it.                                                   *)
Losers(b, s) == {bundle[p] : p \in Found(s)} \ {b, NoBundle}

(* hw_bond_should_exist is withdrawn from a bundle that has a handle.      *)
Withdrawn(b, s) == b \in bond_hw_handle /\ ~s.bond

(* Mutant: every old port of the bundle is taken out, slave or not.        *)
ReleasedAll(b, s) == (UNION {ports[c] : c \in Losers(b, s)}) \cup ports[b]

(* The ports bundle_del_port takes out of a list on the way.               *)
Released(b, s) == (UNION {ports[c] : c \in Losers(b, s)}) \cup (ports[b] \ s.slaves)

(* Mutant: the ports that leave b keep their pointer to it.                *)
RelinkKeepsPointer(b, s) ==
    LET gone == Losers(b, s)
    IN  /\ bundles' = (bundles \ gone) \cup {b}
        /\ ports' = [c \in Bundles |-> IF c = b THEN Found(s)
                                       ELSE IF c \in gone THEN {} ELSE ports[c]]
        /\ bundle' = [p \in Ports |-> IF p \in Found(s) THEN b ELSE bundle[p]]
        /\ bond_hw_handle' = IF s.bond THEN bond_hw_handle \cup {b}
                                       ELSE bond_hw_handle

(* The first half of bundle_set: the losers are destroyed, b is created    *)
(* when it does not exist, and holds exactly the slaves found.             *)
Relink(b, s) ==
    LET gone == Losers(b, s)
    IN  /\ bundles' = (bundles \ gone) \cup {b}
        /\ ports' = [c \in Bundles |-> IF c = b THEN Found(s)
                                       ELSE IF c \in gone THEN {} ELSE ports[c]]
        /\ bundle' = [p \in Ports |-> IF p \in Found(s) THEN b
                                      ELSE IF p \in Released(b, s) THEN NoBundle
                                      ELSE bundle[p]]
        /\ bond_hw_handle' = IF s.bond THEN bond_hw_handle \cup {b}
                                       ELSE bond_hw_handle

(* bundle_set links its slaves: no bond withdrawn, no port of a LAG.       *)
Links(b, s) ==
    /\ Intact
    /\ ~Withdrawn(b, s)
    /\ Found(s) # {}
    /\ Losers(b, s) \cap bond_hw_handle = {}
    /\ Relink(b, s)

(* The bundles of C are taken out of the ASIC OVS and the map; used for    *)
(* the losers, which have physical ports only and so no VLAN routing.      *)
DestroyLosers(b, s, F) == DelPort(asic, (Losers(b, s) \cap is_added_to_sim_ovs) \ F)

ResetLosers(b, s) ==
    [c \in Bundles |-> IF c \in Losers(b, s) THEN InitCfg ELSE cfg[c]]

(* Mutant: a LAG waits for more than two slaves.                           *)
ReturnsEarlyOneMore(b, s) ==
    \/ Vrf
    \/ b = Bridge
    \/ s.many /\ Cardinality(s.slaves) <= 2

(* bundle_set that returns without programming the ASIC OVS: the bundle    *)
(* is in a VRF, or is the bridge's own, or is a LAG still waiting for      *)
(* enough slaves ("So delaying the creation").                             *)
ReturnsEarly(b, s) ==
    \/ Vrf
    \/ b = Bridge
    \/ s.many /\ Cardinality(s.slaves) <= 1

bundle_set_no_program(b, s) ==
    /\ Links(b, s)
    /\ b \in Intf => Vrf
    /\ ReturnsEarly(b, s)
    /\ cfg' = ResetLosers(b, s)
    /\ is_added_to_sim_ovs' = is_added_to_sim_ovs \ Losers(b, s)
    /\ \E F \in Failures(Losers(b, s)) : asic' = DestroyLosers(b, s, F)
    /\ is_bridge_bundle' = IF b = Bridge /\ ~Vrf
                           THEN is_bridge_bundle \cup {b} ELSE is_bridge_bundle
    /\ UpdateRules(Released(b, s), {})
    /\ UNCHANGED <<ofports, vlans_bmp, is_vlan_routing_enabled, routing>>

(* bundle_set of an internal VLAN interface: its VLAN is added to the      *)
(* trunks of the bridge port.  The bit of the VLAN it had stays.           *)
bundle_set_routing(b, s) ==
    /\ Links(b, s)
    /\ b \in Intf /\ ~Vrf
    /\ s.set.vlan > 0
    /\ sim_bridge_vlan_routing_update(vlan_intf_bmp \cup {s.set.vlan})
    /\ cfg' = [cfg EXCEPT ![b].vlan = s.set.vlan]
    /\ is_vlan_routing_enabled' = is_vlan_routing_enabled \cup {b}
    /\ UNCHANGED <<ofports, vlans_bmp, is_bridge_bundle, is_added_to_sim_ovs,
                   asic, rules>>

(* Mutant: VLAN 4095 is copied.                                            *)
CopySettingsReserved(set) ==
    [vlan_mode |-> set.vlan_mode,
     vlan      |-> IF set.vlan > 0 /\ set.vlan <= 4095 THEN set.vlan ELSE -1,
     trunks    |-> set.trunks]

(* The settings copied from s.                                             *)
CopySettings(set) ==
    [vlan_mode |-> set.vlan_mode,
     vlan      |-> IF set.vlan > 0 /\ set.vlan < 4095 THEN set.vlan ELSE -1,
     trunks    |-> set.trunks]

(* Mutant: add-port without deleting the old port.                         *)
ReprogramInPlace(a, pt, cf, v, C, Fd, Fa) ==
    [n \in Bundles |-> IF n \in C \ Fa /\ a[n] = NoPort
                       THEN Program(cf[n], v) ELSE a[n]]

(* Mutant: every added port is deleted, not only those of C.               *)
ReprogramDeletesAll(a, pt, cf, v, C, Fd, Fa) ==
    LET left == DelPort(a, is_added_to_sim_ovs \ Fd)
    IN  [n \in Bundles |-> IF n \in C \ Fa /\ left[n] = NoPort
                           THEN Program(cf[n], v) ELSE left[n]]

(* bundle_configure of the bundles of C, from ASIC table a, port lists pt, *)
(* configurations cf, VLANs v; Fd and Fa are the bundles whose del-port    *)
(* and add-port fail.  The port is deleted when it was added; the member   *)
(* interfaces of a bond are deleted too; add-port --may-exist leaves a     *)
(* port that still exists as it is.                                        *)
Reprogram(a, pt, cf, v, C, Fd, Fa) ==
    LET members == UNION {pt[b] : b \in {c \in C : Cardinality(pt[c]) > 1}}
        deleted == ((C \cap is_added_to_sim_ovs) \cup members) \ Fd
        left    == DelPort(a, deleted)
    IN  [n \in Bundles |-> IF n \in C \ Fa /\ left[n] = NoPort
                           THEN Program(cf[n], v) ELSE left[n]]

(* Mutant: the flag is set even when add-port fails.                       *)
AddedAnyway(cf, v, C, Fa) ==
    (is_added_to_sim_ovs \ C) \cup {b \in C : Program(cf[b], v) # NoPort}

(* The bundles added after that.                                           *)
Added(cf, v, C, Fa) ==
    (is_added_to_sim_ovs \ C) \cup {b \in C \ Fa : Program(cf[b], v) # NoPort}

(* bundle_set of a physical port or a LAG of a bridge: the settings are    *)
(* copied, the bundle is programmed, its ports are hidden from the kernel. *)
bundle_set_program(b, s) ==
    LET cf   == [ResetLosers(b, s) EXCEPT ![b] = CopySettings(s.set)]
        gone == Losers(b, s)
    IN  /\ Links(b, s)
        /\ b \notin Intf /\ ~ReturnsEarly(b, s)
        /\ cfg' = cf
        /\ \E F \in Failures(gone), Fd \in Failures({b} \cup Found(s)),
              Fa \in Failures({b}) :
              /\ asic' = Reprogram(DestroyLosers(b, s, F), ports', cf,
                                   vlans_bmp, {b}, Fd, Fa)
              /\ is_added_to_sim_ovs' = Added(cf, vlans_bmp, {b}, Fa) \ gone
        /\ UpdateRules(Released(b, s), Found(s))
        /\ UNCHANGED <<ofports, vlans_bmp, flags, routing>>

(* bundle_set that finds none of its slaves: the bundle is left empty, is  *)
(* destroyed, and EINVAL is returned.                                      *)
bundle_set_empty(b, s) ==
    /\ Intact
    /\ ~Withdrawn(b, s)
    /\ Found(s) = {}
    /\ b \in bundles
    /\ bundle_destroy(b)
    /\ UNCHANGED <<ofports, vlans_bmp>>

(* bundle_set that takes a port of a LAG: bundle_remove does nothing, and  *)
(* the list node still in the LAG's list is pushed onto b's list.  What    *)
(* the handler does with the two tangled lists is undefined.               *)
bundle_set_steals(b, s) ==
    /\ Intact
    /\ ~Withdrawn(b, s)
    /\ Losers(b, s) \cap bond_hw_handle # {}
    /\ bundles' = bundles \cup {b}
    /\ ports'   = [ports EXCEPT ![b] = @ \cup Found(s)]
    /\ bundle'  = [p \in Ports |-> IF p \in Found(s) THEN b ELSE bundle[p]]
    /\ bond_hw_handle' = IF s.bond THEN bond_hw_handle \cup {b}
                                   ELSE bond_hw_handle
    /\ UNCHANGED <<ofports, vlans_bmp, flags, l2vars, routing, rules>>

(* bundle_set that withdraws the bond: the bundle is destroyed and the     *)
(* handler goes on linking the slaves to the freed memory.                 *)
bundle_set_withdraws(b, s) ==
    LET gone == {b} \cup (Losers(b, s) \ bond_hw_handle)
        out  == UNION {ports[c] : c \in gone}
    IN  /\ Intact
        /\ Withdrawn(b, s)
        /\ Found(s) # {}
        /\ DestroyState(gone)
        /\ bundles' = bundles \ gone
        /\ ports'   = [c \in Bundles |-> IF c = b THEN Found(s)
                                         ELSE IF c \in gone THEN {} ELSE ports[c]]
        /\ bundle'  = [p \in Ports |-> IF p \in Found(s) THEN b
                                       ELSE IF p \in out THEN NoBundle
                                       ELSE bundle[p]]
        /\ UpdateRules(out, {})
        /\ UNCHANGED <<ofports, vlans_bmp>>

-----------------------------------------------------------------------------
(* VLANs                                                                   *)

(* bundle_set_reconfigure: bundle_configure of every bundle that is        *)
(* neither a VLAN routing bundle nor the bridge's own.                     *)
bundle_set_reconfigure(v) ==
    LET C == bundles \ (is_vlan_routing_enabled \cup is_bridge_bundle)
    IN  /\ \E Fd \in Failures(C \cup Phys), Fa \in Failures(C) :
              /\ asic' = Reprogram(asic, ports, cfg, v, C, Fd, Fa)
              /\ is_added_to_sim_ovs' = Added(cfg, v, C, Fa)
        /\ UpdateRules({}, UNION {ports[b] : b \in C})

(* set_vlan: an unchanged bit is left alone, a changed one reconfigures    *)
(* the bundles of a bridge.                                                *)
set_vlan(vid, add) ==
    /\ Intact
    /\ add <=> vid \notin vlans_bmp
    /\ vlans_bmp' = IF add THEN vlans_bmp \cup {vid} ELSE vlans_bmp \ {vid}
    /\ IF Vrf THEN UNCHANGED <<is_added_to_sim_ovs, asic, rules>>
              ELSE bundle_set_reconfigure(vlans_bmp')
    /\ UNCHANGED <<ofports, links, flags, cfg, routing>>

-----------------------------------------------------------------------------
(* Ports and the process                                                   *)

(* port_alloc: a zeroed port, in no bundle and with no rules.              *)
port_alloc(p) ==
    /\ Intact
    /\ p \notin ofports
    /\ ofports' = ofports \cup {p}
    /\ UNCHANGED <<links, flags, l2vars, routing, rules, vlans_bmp>>

(* port_dealloc, once bundle_remove has been called for the port: the port *)
(* is in no bundle then, unless it is in a LAG.                            *)
port_dealloc(p) ==
    /\ Intact
    /\ p \in ofports
    /\ bundle[p] \in bond_hw_handle \cup {NoBundle}
    /\ ofports' = ofports \ {p}
    /\ UNCHANGED <<links, flags, l2vars, routing, rules, vlans_bmp>>

(* A new process: init gives it a fresh ASIC OVS and construct an empty    *)
(* ofproto.  The DROP rules are the kernel's.                              *)
Fresh ==
    /\ ofports' = {} /\ bundles' = {}
    /\ ports'   = [b \in Bundles |-> {}]
    /\ bundle'  = [p \in Ports |-> NoBundle]
    /\ cfg'     = [b \in Bundles |-> InitCfg]
    /\ bond_hw_handle' = {} /\ is_added_to_sim_ovs' = {}
    /\ is_vlan_routing_enabled' = {} /\ is_bridge_bundle' = {}
    /\ iptable_rules_added' = {}
    /\ vlans_bmp' = {} /\ vlan_intf_bmp' = {}
    /\ asic' = [b \in Bundles |-> NoPort]
    /\ brTrunks' = {}

(* The process ends between two handlers and is started again.             *)
Boot == Fresh /\ UNCHANGED <<dropInput, dropForward>>

(* The process dies in disable_port_in_iptables, called by the bundle_set  *)
(* of an interface in no bundle, between its two commands.                 *)
CrashInDisable(p) ==
    /\ Intact /\ ~Vrf
    /\ p \in Phys \cap ofports /\ bundle[p] = NoBundle
    /\ dropInput[p] = 0
    /\ Fresh
    /\ dropInput' = AppendRule(dropInput, {p})
    /\ UNCHANGED dropForward

(* The process dies in enable_port_in_iptables, called by the destruction  *)
(* of a bundle with one port, between its two commands.                    *)
CrashInEnable(p) ==
    /\ Intact
    /\ p \in iptable_rules_added /\ bundle[p] # NoBundle
    /\ ports[bundle[p]] = {p}
    /\ dropForward[p] < MaxRules
    /\ Fresh
    /\ dropInput' = DeleteRule(dropInput, {p})
    /\ UNCHANGED dropForward

(* bundle_set of a VLAN interface without a VLAN (-1) indexes the VLAN     *)
(* interface bitmap far outside of it.                                     *)
bundle_set_no_vlan(b, s) ==
    /\ Intact
    /\ b \in Intf \cap ofports /\ ~Vrf
    /\ s.set.vlan = -1
    /\ Boot

(* bundle_set that withdraws the bond and finds no slave destroys the      *)
(* bundle a second time.                                                   *)
bundle_set_frees_twice(b, s) ==
    LET released == ports[b] \cap iptable_rules_added
    IN  /\ Intact
        /\ Withdrawn(b, s)
        /\ Found(s) = {}
        /\ Fresh
        /\ dropInput'   = DeleteRule(dropInput, released)
        /\ dropForward' = DeleteRule(dropForward, released)

-----------------------------------------------------------------------------
Init ==
    /\ ofports = {} /\ bundles = {}
    /\ ports   = [b \in Bundles |-> {}]
    /\ bundle  = [p \in Ports |-> NoBundle]
    /\ cfg     = [b \in Bundles |-> InitCfg]
    /\ bond_hw_handle = {} /\ is_added_to_sim_ovs = {}
    /\ is_vlan_routing_enabled = {} /\ is_bridge_bundle = {}
    /\ iptable_rules_added = {}
    /\ vlans_bmp = {} /\ vlan_intf_bmp = {}
    /\ asic = [b \in Bundles |-> NoPort]
    /\ brTrunks = {}
    /\ dropInput   = [p \in Ports |-> 0]
    /\ dropForward = [p \in Ports |-> 0]

(* bundle_set by what it comes to.                                         *)
bundle_set(b, s) ==
    \/ bundle_set_no_program(b, s)
    \/ bundle_set_routing(b, s)
    \/ bundle_set_program(b, s)
    \/ bundle_set_empty(b, s)
    \/ bundle_set_steals(b, s)
    \/ bundle_set_withdraws(b, s)

Handler ==
    \/ \E b \in Bundles : bundle_set_null(b)
    \/ \E b \in Bundles : \E s \in Requests(b) : bundle_set(b, s)
    \/ \E p \in Ports : bundle_remove(p) \/ port_alloc(p) \/ port_dealloc(p)
    \/ \E v \in Vlans, add \in BOOLEAN : set_vlan(v, add)

Crash ==
    \/ \E p \in Ports : CrashInDisable(p) \/ CrashInEnable(p)
    \/ \E b \in Bundles : \E s \in Requests(b) :
          bundle_set_no_vlan(b, s) \/ bundle_set_frees_twice(b, s)

(* With and without the process dying.                                     *)
NextNoCrash == Handler
Next        == Handler \/ Boot \/ Crash

SpecNoCrash == Init /\ [][NextNoCrash]_vars
Spec        == Init /\ [][Next]_vars

-----------------------------------------------------------------------------
(* Properties                                                              *)

(* Only a VLAN interface may have the reserved VLAN.                       *)
ReservedNotCopied ==
    {f \in [Bundles -> BundleCfg] : \A b \in Bundles \ Intf : f[b].vlan # 4095}

(* The sets and functions the variables range over.                        *)
TypeOK ==
    /\ ofports \subseteq Ports /\ bundles \subseteq Bundles
    /\ ports \in [Bundles -> SUBSET Ports]
    /\ bundle \in [Ports -> Bundles \cup {NoBundle}]
    /\ cfg \in [Bundles -> BundleCfg] /\ cfg \in ReservedNotCopied
    /\ bond_hw_handle \subseteq Bundles /\ is_added_to_sim_ovs \subseteq Bundles
    /\ is_vlan_routing_enabled \subseteq Bundles
    /\ is_bridge_bundle \subseteq Bundles
    /\ iptable_rules_added \subseteq Ports
    /\ vlans_bmp \subseteq Vlans /\ vlan_intf_bmp \subseteq BitmapVlans
    /\ asic \in [Bundles -> AsicPort \cup {NoPort}]
    /\ brTrunks \subseteq TrunkVlans
    /\ dropInput \in [Ports -> Nat] /\ dropForward \in [Ports -> Nat]

(* The bundles that L2 switching is for.                                   *)
Switched == IF Vrf THEN {} ELSE bundles \ (Intf \cup {Bridge})

(* While commands succeed, the port table of the ASIC OVS is at all times  *)
(* what bundle_configure would write for the bundles that exist with the   *)
(* VLANs that are enabled: no port of a destroyed bundle is left, no       *)
(* disabled VLAN is programmed, and no bundle misses a VLAN that was       *)
(* enabled after it was set, whatever the order of bundle_set,             *)
(* bundle_remove, set_vlan and moves of ports between bundles.             *)
AsicMatchesConfig ==
    Intact => asic = [b \in Bundles |-> IF b \in Switched
                                        THEN Program(cfg[b], vlans_bmp)
                                        ELSE NoPort]

(* While the process lives, a port has its two DROP rules, once each, if   *)
(* and only if its flag is set, and only the physical ports of switched    *)
(* bundles are flagged: a port that left its bundle is open to the kernel  *)
(* again, however often it was moved.                                      *)
RulesFollowBundles ==
    Intact =>
      /\ \A p \in Ports :
            LET n == IF p \in iptable_rules_added THEN 1 ELSE 0
            IN  dropInput[p] = n /\ dropForward[p] = n
      /\ \A p \in iptable_rules_added : bundle[p] \in Switched

(* Through crashes and restarts, disable_port_in_iptables never stacks     *)
(* INPUT rules (its -C finds the old one), and a flagged port has one.     *)
InputRuleOnce ==
    \A p \in Ports : /\ dropInput[p] <= 1
                     /\ p \in iptable_rules_added => dropInput[p] = 1

(* A port that stays in its bundle keeps its DROP rules: no VLAN change,   *)
(* no new setting and no handler for another port opens it to the kernel,  *)
(* even for a moment between two handlers.                                 *)
BlockedWhileMember ==
    [][\A p \in iptable_rules_added :
          Intact' /\ bundle'[p] = bundle[p] =>
             /\ p \in iptable_rules_added'
             /\ dropInput'[p] = dropInput[p]
             /\ dropForward'[p] = dropForward[p]]_vars

(* As long as no bundle has a bond_hw_handle, no handler leaves a pointer  *)
(* to a freed bundle or port, or a port in two lists or in a list that is  *)
(* not its bundle's: what bundle_remove and bundle_set leave behind is the *)
(* doing of bonds alone, which they do not take apart.                     *)
OnlyBondsBreakLists == [][Intact /\ bond_hw_handle = {} => Intact']_vars

(* A handler changes the ASIC port of a bundle only when it changes the    *)
(* VLANs, the bundle's settings, or whether the bundle exists: reprogram-  *)
(* ming one bundle never takes another one off the wire.                   *)
AsicIsolation ==
    [][\A b \in Bundles :
          asic'[b] # asic[b] => \/ vlans_bmp' # vlans_bmp
                                \/ cfg'[b] # cfg[b]
                                \/ b \in bundles /\ b \notin bundles']_vars

(* Even when ovs-vsctl commands fail, a bundle flagged as added has a port *)
(* in the ASIC OVS.                                                        *)
AddedIsPresent == Intact => \A b \in is_added_to_sim_ovs : asic[b] # NoPort

(* "Install IP table rules to prevent the traffic going to kernel IP       *)
(* stack.  When L2 switching is enabled on a port, ASIC OVS takes care of  *)
(* switching the packets" (bundle_configure): every port of a bundle that  *)
(* the ASIC OVS switches has the rules, except the port of a LAG that went *)
(* down to one slave: bundle_set returns before it reconfigures that LAG,  *)
(* and leaves its ASIC port.                                               *)
SwitchedPortsBlocked ==
    Intact => \A b \in Bundles :
                 asic[b] # NoPort => \/ ports[b] \subseteq iptable_rules_added
                                     \/ b \in Lags /\ Cardinality(ports[b]) = 1
=============================================================================
