--------------------------- MODULE SimBundleProofs ---------------------------
(***************************************************************************)
(* Proofs about SimBundle, for every set of interfaces, LAGs and VLANs.    *)
(***************************************************************************)
EXTENDS SimBundle, TLAPS

-----------------------------------------------------------------------------
(* Types                                                                   *)

(* What bundle_configure writes for a configuration is an OVS port.        *)
LEMMA ProgramType ==
    ASSUME NEW c \in BundleCfg, NEW v \in SUBSET Vlans
    PROVE  Program(c, v) \in AsicPort \cup {NoPort}
<1> DEFINE trunks == c.trunks \cap v
           tag    == IF c.vlan_mode = "trunk" THEN 0 ELSE c.vlan
           p == [vlan_mode |-> c.vlan_mode,
                 tag    |-> tag,
                 trunks |-> IF c.vlan_mode = "access" THEN {} ELSE trunks]
<1>1. c.vlan_mode \in Modes /\ trunks \in SUBSET Vlans
  BY DEF BundleCfg, Setting
<1>2. CASE c.vlan_mode # "trunk" /\ c.vlan \notin v
  BY <1>2 DEF Program
<1>3. CASE c.vlan_mode = "trunk" \/ c.vlan \in v
  <2>1. v \subseteq TrunkVlans
    BY ConstantsAssumption
  <2>2. tag \in {0} \cup TrunkVlans
    BY <1>3, <2>1
  <2>3. p \in AsicPort
    BY <1>1, <2>2 DEF AsicPort
  <2> QED  BY <2>3 DEF Program
<1> QED  BY <1>2, <1>3

(* The settings copied from a request are settings a bundle may have: the  *)
(* VLANs 0 and 4095 are not copied.                                        *)
LEMMA CopyType ==
    ASSUME NEW s \in Settings
    PROVE  CopySettings(s) \in BundleCfg /\ CopySettings(s).vlan # 4095
<1>1. -1 \in VlanIds /\ -1 # 4095
  BY DEF VlanIds
<1>2. \A v \in VlanIds : v < 4095 => v # 4095
  BY DEF VlanIds
<1>3. s \in Setting
  BY ConstantsAssumption
<1>4. s.vlan_mode \in Modes /\ s.vlan \in VlanIds /\ s.trunks \in SUBSET Vlans
  BY <1>3 DEF Setting
<1>5. CopySettings(s).vlan \in {-1, s.vlan} /\ (CopySettings(s).vlan = s.vlan => s.vlan # 4095 \/ s.vlan = -1)
  BY <1>2, <1>4 DEF CopySettings
<1> QED  BY <1>1, <1>4, <1>5 DEF CopySettings, BundleCfg, Setting

LEMMA InitCfgType == InitCfg \in BundleCfg /\ InitCfg.vlan = -1
  BY DEF InitCfg, BundleCfg, Setting, Modes, VlanIds

(* Deleting ports leaves a port table.                                     *)
LEMMA DelPortType ==
    ASSUME NEW a \in [Bundles -> AsicPort \cup {NoPort}], NEW C
    PROVE  DelPort(a, C) \in [Bundles -> AsicPort \cup {NoPort}]
  BY DEF DelPort

LEMMA ReprogramType ==
    ASSUME NEW a \in [Bundles -> AsicPort \cup {NoPort}],
           NEW cf \in [Bundles -> BundleCfg], NEW v \in SUBSET Vlans,
           NEW pt, NEW C, NEW Fd, NEW Fa
    PROVE  Reprogram(a, pt, cf, v, C, Fd, Fa)
              \in [Bundles -> AsicPort \cup {NoPort}]
<1>1. \A X : DelPort(a, X) \in [Bundles -> AsicPort \cup {NoPort}]
  BY DelPortType
<1>2. \A n \in Bundles : Program(cf[n], v) \in AsicPort \cup {NoPort}
  BY ProgramType
<1> QED  BY <1>1, <1>2 DEF Reprogram

(* The rules stay counters, the flags stay flags of ports.                 *)
LEMMA UpdateRulesType ==
    ASSUME TypeOK, NEW S, NEW T \in SUBSET Ports, UpdateRules(S, T)
    PROVE  /\ iptable_rules_added' \subseteq Ports
           /\ dropInput' \in [Ports -> Nat] /\ dropForward' \in [Ports -> Nat]
<1>1. \A d \in [Ports -> Nat] : \A X : DeleteRule(d, X) \in [Ports -> Nat]
  BY DEF DeleteRule
<1>2. \A d \in [Ports -> Nat] : \A X : AppendRule(d, X) \in [Ports -> Nat]
  BY DEF AppendRule
<1> QED  BY <1>1, <1>2 DEF UpdateRules, TypeOK

(* The reserved VLAN is never written to the trunks.                       *)
LEMMA RoutingUpdateType ==
    ASSUME TypeOK, NEW bmp \in SUBSET BitmapVlans, sim_bridge_vlan_routing_update(bmp)
    PROVE  vlan_intf_bmp' \subseteq BitmapVlans /\ brTrunks' \subseteq TrunkVlans
<1>1. \A X \in SUBSET BitmapVlans : X \ {4095} \subseteq TrunkVlans
  BY DEF BitmapVlans, TrunkVlans
<1> QED  BY <1>1 DEF sim_bridge_vlan_routing_update, TypeOK

LEMMA DestroyStateType ==
    ASSUME TypeOK, NEW C, DestroyState(C)
    PROVE  /\ bond_hw_handle' \subseteq Bundles
           /\ cfg' \in [Bundles -> BundleCfg]
           /\ cfg' \in ReservedNotCopied
           /\ is_added_to_sim_ovs' \subseteq Bundles
           /\ asic' \in [Bundles -> AsicPort \cup {NoPort}]
           /\ is_vlan_routing_enabled' \subseteq Bundles
           /\ vlan_intf_bmp' \subseteq BitmapVlans /\ brTrunks' \subseteq TrunkVlans
           /\ is_bridge_bundle' \subseteq Bundles
<1>1. asic' \in [Bundles -> AsicPort \cup {NoPort}]
  BY DelPortType DEF DestroyState, TypeOK
<1>2. cfg' \in [Bundles -> BundleCfg] /\ cfg' \in ReservedNotCopied
  BY InitCfgType DEF DestroyState, TypeOK, ReservedNotCopied
<1>3. PICK bmp \in SUBSET vlan_intf_bmp : sim_bridge_vlan_routing_update(bmp)
  BY DEF DestroyState
<1>4. bmp \subseteq BitmapVlans
  BY DEF TypeOK
<1>5. vlan_intf_bmp' \subseteq BitmapVlans /\ brTrunks' \subseteq TrunkVlans
  BY <1>3, <1>4, RoutingUpdateType
<1> QED  BY <1>1, <1>2, <1>5 DEF DestroyState, TypeOK

(* A VLAN interface gets another VLAN.                                     *)
LEMMA WithVlan ==
    ASSUME NEW c \in BundleCfg, NEW v \in BitmapVlans
    PROVE  [c EXCEPT !.vlan = v] \in BundleCfg
<1>1. v \in VlanIds
  BY DEF BitmapVlans, VlanIds
<1> QED  BY <1>1 DEF BundleCfg, Setting

LEMMA PositiveVlan ==
    ASSUME NEW v \in VlanIds, v > 0
    PROVE  v \in BitmapVlans
BY DEF VlanIds, BitmapVlans

(* The requests for a LAG name physical ports; those for another bundle    *)
(* name its own port.                                                      *)
LEMMA RequestType ==
    ASSUME NEW b \in Bundles, NEW s \in Requests(b)
    PROVE  /\ s.slaves \subseteq Ports
           /\ s.set \in Settings
           /\ b \in Lags => s.slaves \subseteq Phys
           /\ b \notin Lags => s.slaves = {b} /\ ~s.bond /\ ~s.many
<1>1. CASE b \in Lags
  BY <1>1 DEF Requests, Ports
<1>2. CASE b \notin Lags
  BY <1>2 DEF Requests, Bundles
<1> QED  BY <1>1, <1>2

LEMMA RelinkType ==
    ASSUME TypeOK, NEW b \in Bundles, NEW s \in Requests(b), Relink(b, s)
    PROVE  /\ bundles' \subseteq Bundles
           /\ ports' \in [Bundles -> SUBSET Ports]
           /\ bundle' \in [Ports -> Bundles \cup {NoBundle}]
           /\ bond_hw_handle' \subseteq Bundles
           /\ Found(s) \subseteq Ports
<1>1. Found(s) \subseteq Ports
  BY RequestType DEF Found
<1>2. ports' \in [Bundles -> SUBSET Ports]
  BY <1>1 DEF Relink, TypeOK
<1>3. bundle' \in [Ports -> Bundles \cup {NoBundle}]
  BY DEF Relink, TypeOK
<1> QED  BY <1>1, <1>2, <1>3 DEF Relink, TypeOK

LEMMA LosersType ==
    ASSUME TypeOK, NEW b \in Bundles, NEW s \in Requests(b)
    PROVE  /\ ResetLosers(b, s) \in [Bundles -> BundleCfg]
           /\ ResetLosers(b, s) \in ReservedNotCopied
           /\ \A F : DestroyLosers(b, s, F) \in [Bundles -> AsicPort \cup {NoPort}]
<1>1. /\ ResetLosers(b, s) \in [Bundles -> BundleCfg]
      /\ ResetLosers(b, s) \in ReservedNotCopied
  BY InitCfgType DEF ResetLosers, TypeOK, ReservedNotCopied
<1>2. \A F : DestroyLosers(b, s, F) \in [Bundles -> AsicPort \cup {NoPort}]
  BY DelPortType DEF DestroyLosers, TypeOK
<1> QED  BY <1>1, <1>2

LEMMA AddedType ==
    ASSUME TypeOK, NEW C \in SUBSET Bundles, NEW cf, NEW v, NEW Fa
    PROVE  Added(cf, v, C, Fa) \subseteq Bundles
  BY DEF Added, TypeOK

LEMMA BundleDestroyType ==
    ASSUME TypeOK, NEW b \in Bundles, bundle_destroy(b),
           UNCHANGED <<ofports, vlans_bmp>>
    PROVE  TypeOK'
<1>1. DestroyState({b}) /\ UpdateRules(ports[b], {})
  BY DEF bundle_destroy
<1>2. /\ bundles' \subseteq Bundles
      /\ ports' \in [Bundles -> SUBSET Ports]
      /\ bundle' \in [Ports -> Bundles \cup {NoBundle}]
  BY DEF bundle_destroy, TypeOK
<1> QED  BY <1>1, <1>2, DestroyStateType, UpdateRulesType DEF TypeOK

(* Every step keeps the types.                                             *)
LEMMA TypeStep ==
    ASSUME TypeOK, [Next]_vars
    PROVE  TypeOK'
<1>1. ASSUME NEW b \in Bundles, bundle_set_null(b)
      PROVE  TypeOK'
  BY <1>1, BundleDestroyType DEF bundle_set_null
<1>2. ASSUME NEW b \in Bundles, NEW s \in Requests(b), bundle_set(b, s)
      PROVE  TypeOK'
  <2>1. CASE bundle_set_no_program(b, s)
    <3>1. Relink(b, s) /\ UpdateRules(Released(b, s), {})
      BY <2>1 DEF bundle_set_no_program, Links
    <3>2. /\ cfg' \in [Bundles -> BundleCfg]
          /\ cfg' \in ReservedNotCopied
          /\ asic' \in [Bundles -> AsicPort \cup {NoPort}]
      BY <2>1, <1>2, LosersType DEF bundle_set_no_program
    <3>3. is_added_to_sim_ovs' \subseteq Bundles /\ is_bridge_bundle' \subseteq Bundles
      BY <2>1 DEF bundle_set_no_program, TypeOK
    <3>4. UNCHANGED <<ofports, vlans_bmp, is_vlan_routing_enabled, routing>>
      BY <2>1 DEF bundle_set_no_program
    <3> QED  BY <3>1, <3>2, <3>3, <3>4, <1>2, RelinkType, UpdateRulesType
             DEF TypeOK, routing
  <2>2. CASE bundle_set_routing(b, s)
    <3>1. Relink(b, s)
      BY <2>2 DEF bundle_set_routing, Links
    <3>2. s.set.vlan \in BitmapVlans
      <4>1. s.set.vlan > 0
        BY <2>2 DEF bundle_set_routing
      <4>2. s.set \in Setting
        BY <1>2, RequestType, ConstantsAssumption
      <4>3. s.set.vlan \in VlanIds
        BY <4>2 DEF Setting
      <4> QED  BY <4>1, <4>3, PositiveVlan
    <3>3. cfg' \in [Bundles -> BundleCfg] /\ cfg' \in ReservedNotCopied
      <4>1. PICK c \in BundleCfg : c = cfg[b]
        BY <1>2 DEF TypeOK
      <4>2. PICK v \in BitmapVlans : v = s.set.vlan
        BY <3>2
      <4>3. [c EXCEPT !.vlan = v] \in BundleCfg
        BY <4>1, <4>2, WithVlan
      <4>4. cfg' = [cfg EXCEPT ![b] = [c EXCEPT !.vlan = v]] /\ b \in Intf
        BY <2>2, <4>1, <4>2 DEF bundle_set_routing
      <4>5. cfg' \in [Bundles -> BundleCfg]
        BY <4>3, <4>4 DEF TypeOK
      <4>6. \A d \in Bundles \ Intf : cfg'[d] = cfg[d]
        BY <4>4 DEF TypeOK
      <4> QED  BY <4>5, <4>6 DEF TypeOK, ReservedNotCopied
    <3>4. vlan_intf_bmp' \subseteq BitmapVlans /\ brTrunks' \subseteq TrunkVlans
      <4>1. vlan_intf_bmp \cup {s.set.vlan} \in SUBSET BitmapVlans
        BY <3>2 DEF TypeOK
      <4> QED  BY <2>2, <4>1, RoutingUpdateType DEF bundle_set_routing
    <3>5. /\ is_vlan_routing_enabled' \subseteq Bundles
          /\ UNCHANGED <<ofports, vlans_bmp, is_bridge_bundle,
                         is_added_to_sim_ovs, asic, rules>>
      BY <2>2 DEF bundle_set_routing, TypeOK
    <3> QED  BY <3>1, <3>3, <3>4, <3>5, <1>2, RelinkType DEF TypeOK, rules
  <2>3. CASE bundle_set_program(b, s)
    <3> DEFINE cf == [ResetLosers(b, s) EXCEPT ![b] = CopySettings(s.set)]
    <3>1. Relink(b, s) /\ UpdateRules(Released(b, s), Found(s))
      BY <2>3 DEF bundle_set_program, Links
    <3>2. cf \in [Bundles -> BundleCfg] /\ cf \in ReservedNotCopied
      BY <1>2, LosersType, RequestType, CopyType DEF ReservedNotCopied
    <3>3. cfg' = cf
      BY <2>3 DEF bundle_set_program
    <3>4. PICK F, Fd, Fa :
             /\ asic' = Reprogram(DestroyLosers(b, s, F), ports', cf,
                                  vlans_bmp, {b}, Fd, Fa)
             /\ is_added_to_sim_ovs' = Added(cf, vlans_bmp, {b}, Fa) \ Losers(b, s)
      BY <2>3 DEF bundle_set_program
    <3> HIDE DEF cf
    <3>5. asic' \in [Bundles -> AsicPort \cup {NoPort}]
      BY <3>2, <3>4, <1>2, LosersType, ReprogramType DEF TypeOK
    <3>6. is_added_to_sim_ovs' \subseteq Bundles
      BY <3>4, <1>2, AddedType
    <3>7. UNCHANGED <<ofports, vlans_bmp, flags, routing>>
      BY <2>3 DEF bundle_set_program
    <3> QED  BY <3>1, <3>2, <3>3, <3>5, <3>6, <3>7, <1>2, RelinkType,
                UpdateRulesType DEF TypeOK, flags, routing
  <2>4. CASE bundle_set_empty(b, s)
    BY <2>4, <1>2, BundleDestroyType DEF bundle_set_empty
  <2>5. CASE bundle_set_steals(b, s)
    <3>1. Found(s) \subseteq Ports
      BY <1>2, RequestType DEF Found
    <3> QED  BY <2>5, <3>1, <1>2
             DEF bundle_set_steals, TypeOK, flags, l2vars, routing, rules
  <2>6. CASE bundle_set_withdraws(b, s)
    <3>1. PICK C, S : DestroyState(C) /\ UpdateRules(S, {})
      BY <2>6 DEF bundle_set_withdraws
    <3>2. Found(s) \subseteq Ports
      BY <1>2, RequestType DEF Found
    <3>3. /\ bundles' \subseteq Bundles
          /\ ports' \in [Bundles -> SUBSET Ports]
          /\ bundle' \in [Ports -> Bundles \cup {NoBundle}]
          /\ UNCHANGED <<ofports, vlans_bmp>>
      BY <2>6, <3>2, <1>2 DEF bundle_set_withdraws, TypeOK
    <3> QED  BY <3>1, <3>3, DestroyStateType, UpdateRulesType DEF TypeOK
  <2> QED  BY <1>2, <2>1, <2>2, <2>3, <2>4, <2>5, <2>6 DEF bundle_set
<1>3. ASSUME NEW p \in Ports, bundle_remove(p)
      PROVE  TypeOK'
  <2>1. bundle[p] \in Bundles /\ UNCHANGED <<ofports, vlans_bmp>>
    BY <1>3 DEF bundle_remove, TypeOK
  <2>2. CASE bundle[p] \in bond_hw_handle
    BY <1>3, <2>1, <2>2 DEF bundle_remove, TypeOK, links, flags, l2vars, routing, rules
  <2>3. CASE bundle[p] \notin bond_hw_handle
    BY <1>3, <2>1, <2>3, BundleDestroyType DEF bundle_remove
  <2> QED  BY <2>2, <2>3
<1>4. ASSUME NEW p \in Ports, port_alloc(p) \/ port_dealloc(p)
      PROVE  TypeOK'
  BY <1>4 DEF port_alloc, port_dealloc, TypeOK, links, flags, l2vars, routing, rules
<1>5. ASSUME NEW v \in Vlans, NEW add \in BOOLEAN, set_vlan(v, add)
      PROVE  TypeOK'
  <2>1. /\ vlans_bmp' \subseteq Vlans
        /\ UNCHANGED <<ofports, links, flags, cfg, routing>>
    BY <1>5 DEF set_vlan, TypeOK
  <2>2. CASE Vrf
    BY <1>5, <2>1, <2>2 DEF set_vlan, TypeOK, links, flags, routing, rules
  <2>3. CASE ~Vrf
    <3> DEFINE C == bundles \ (is_vlan_routing_enabled \cup is_bridge_bundle)
    <3>1. /\ \E Fd, Fa : /\ asic' = Reprogram(asic, ports, cfg, vlans_bmp', C, Fd, Fa)
                        /\ is_added_to_sim_ovs' = Added(cfg, vlans_bmp', C, Fa)
          /\ UpdateRules({}, UNION {ports[b] : b \in C})
      BY <1>5, <2>3 DEF set_vlan, bundle_set_reconfigure
    <3>2. C \subseteq Bundles /\ UNION {ports[b] : b \in C} \subseteq Ports
      BY DEF TypeOK
    <3> HIDE DEF C
    <3>3. asic' \in [Bundles -> AsicPort \cup {NoPort}]
      <4>1. PICK Fd, Fa : asic' = Reprogram(asic, ports, cfg, vlans_bmp', C, Fd, Fa)
        BY <3>1
      <4> QED  BY <2>1, <4>1, ReprogramType DEF TypeOK
    <3>4. is_added_to_sim_ovs' \subseteq Bundles
      BY <3>1, <3>2, AddedType
    <3>5. /\ iptable_rules_added' \subseteq Ports
          /\ dropInput' \in [Ports -> Nat] /\ dropForward' \in [Ports -> Nat]
      BY <3>1, <3>2, UpdateRulesType
    <3> QED  BY <2>1, <3>3, <3>4, <3>5 DEF TypeOK, links, flags, routing
  <2> QED  BY <2>2, <2>3
<1>6. ASSUME Fresh, dropInput' \in [Ports -> Nat], dropForward' \in [Ports -> Nat]
      PROVE  TypeOK'
  BY <1>6, InitCfgType DEF Fresh, TypeOK, ReservedNotCopied
<1>7. CASE Boot
  BY <1>6, <1>7 DEF Boot, TypeOK
<1>8. ASSUME NEW p \in Ports, CrashInDisable(p) \/ CrashInEnable(p)
      PROVE  TypeOK'
  <2>1. dropInput' \in [Ports -> Nat] /\ dropForward' \in [Ports -> Nat]
    BY <1>8 DEF CrashInDisable, CrashInEnable, AppendRule, DeleteRule, TypeOK
  <2> QED  BY <1>6, <1>8, <2>1 DEF CrashInDisable, CrashInEnable
<1>9. ASSUME NEW b \in Bundles, NEW s \in Requests(b),
             bundle_set_no_vlan(b, s) \/ bundle_set_frees_twice(b, s)
      PROVE  TypeOK'
  <2>1. CASE bundle_set_no_vlan(b, s)
    BY <1>7, <2>1 DEF bundle_set_no_vlan
  <2>2. CASE bundle_set_frees_twice(b, s)
    <3>1. dropInput' \in [Ports -> Nat] /\ dropForward' \in [Ports -> Nat]
      BY <2>2 DEF bundle_set_frees_twice, DeleteRule, TypeOK
    <3> QED  BY <1>6, <2>2, <3>1 DEF bundle_set_frees_twice
  <2> QED  BY <1>9, <2>1, <2>2
<1>10. CASE UNCHANGED vars
  BY <1>10 DEF TypeOK, vars, links, flags, l2vars, routing, rules
<1> QED  BY <1>1, <1>2, <1>3, <1>4, <1>5, <1>7, <1>8, <1>9, <1>10
         DEF Next, Handler, Crash

(* Through every order of handlers, failing commands and restarts, the     *)
(* variables keep their types; in particular no VLAN id outside the range  *)
(* of OVS is ever programmed, and no port is in a list under a name that   *)
(* is no bundle.                                                           *)
THEOREM TypeCorrect == Spec => []TypeOK
<1>1. Init => TypeOK
  BY InitCfgType DEF Init, TypeOK, ReservedNotCopied
<1>2. TypeOK /\ [Next]_vars => TypeOK'
  BY TypeStep
<1> QED  BY <1>1, <1>2, PTL DEF Spec

-----------------------------------------------------------------------------
(* The inductive invariant                                                 *)

(* A bundle that is no LAG holds at most the port of its name, a LAG holds *)
(* physical ports; a bundle of the ofproto is not empty; handles are those *)
(* of LAGs.                                                                *)
Shape ==
    /\ \A b \in Bundles \ Lags : ports[b] \subseteq {b}
    /\ \A b \in Lags : ports[b] \subseteq Phys
    /\ \A b \in bundles : ports[b] # {}
    /\ bond_hw_handle \subseteq bundles \cap Lags

(* In a bridge the two flags tell the bundles that are not switched.       *)
FlagsTell ==
    ~Vrf => /\ is_vlan_routing_enabled = Intf \cap bundles
            /\ is_bridge_bundle = {Bridge} \cap bundles

ShapeInv == Intact => Shape /\ FlagsTell

-----------------------------------------------------------------------------
(* Pointers and lists                                                      *)

(* The bundles that lose a port are bundles of the ofproto, never the one  *)
(* that is set, an internal VLAN interface or the bridge's own; and these  *)
(* take no port from anyone.                                               *)
LEMMA LosersFacts ==
    ASSUME TypeOK, Intact, Shape, NEW b \in Bundles, NEW s \in Requests(b)
    PROVE  /\ Losers(b, s) \subseteq bundles
           /\ b \notin Losers(b, s)
           /\ Losers(b, s) \cap (Intf \cup {Bridge}) = {}
           /\ b \in Intf \cup {Bridge} => Losers(b, s) = {}
<1>1. \A c \in Losers(b, s) : c \in bundles /\ c # b
  BY RequestType DEF Losers, Found, Intact, NoDanglingBundle
<1>2. ASSUME NEW c \in Losers(b, s)
      PROVE  c \notin Intf \cup {Bridge} /\ b \notin Intf \cup {Bridge}
  <2>1. PICK p \in s.slaves : p \in Ports /\ p \in ports[c] /\ c \in Bundles
    BY <1>1, <1>2, RequestType DEF Losers, Found, Intact, ListMatchesPointer, TypeOK
  <2>2. CASE c \in Lags
    <3>1. p \in Phys
      BY <2>1, <2>2 DEF Shape
    <3>2. b \in Lags \/ b = p
      BY <2>1, RequestType
    <3> QED  BY <2>2, <3>1, <3>2, NamesAssumption
  <2>3. CASE c \notin Lags
    <3>1. p = c
      BY <2>1, <2>3 DEF Shape
    <3>2. b \in Lags /\ p \in Phys
      BY <1>1, <1>2, <2>1, <3>1, RequestType
    <3> QED  BY <3>1, <3>2, NamesAssumption
  <2> QED  BY <2>2, <2>3
<1> QED  BY <1>1, <1>2

LEMMA DestroyShape ==
    ASSUME TypeOK, Intact, Shape, FlagsTell, NEW b \in Bundles, bundle_destroy(b)
    PROVE  Shape' /\ FlagsTell'
<1>1. Shape'
  BY DEF Shape, bundle_destroy, DestroyState, TypeOK
<1>2. FlagsTell'
  BY DEF FlagsTell, bundle_destroy, DestroyState
<1> QED  BY <1>1, <1>2

LEMMA LinksShape ==
    ASSUME TypeOK, Intact, Shape, NEW b \in Bundles, NEW s \in Requests(b),
           Links(b, s)
    PROVE  /\ Shape'
           /\ bundles' = (bundles \ Losers(b, s)) \cup {b}
<1>1. /\ Found(s) # {} /\ Found(s) \subseteq s.slaves
      /\ Losers(b, s) \cap bond_hw_handle = {}
      /\ Relink(b, s)
  BY DEF Links, Found
<1>2. \A c \in Bundles : ports'[c] \in {Found(s), {}, ports[c]}
                        /\ (c # b => ports'[c] \subseteq ports[c])
  BY <1>1 DEF Relink, TypeOK
<1>3. ports'[b] = Found(s)
  BY <1>1 DEF Relink, TypeOK
<1>4. \A c \in Bundles \ Lags : ports'[c] \subseteq {c}
  BY <1>1, <1>2, <1>3, RequestType DEF Shape
<1>5. \A c \in Lags : ports'[c] \subseteq Phys
  BY <1>1, <1>2, <1>3, RequestType DEF Shape, Bundles
<1>6. \A c \in bundles' : ports'[c] # {}
  BY <1>1, <1>3 DEF Relink, Shape, TypeOK
<1>7. bond_hw_handle' \subseteq bundles' \cap Lags
  BY <1>1, RequestType DEF Relink, Shape
<1> QED  BY <1>1, <1>4, <1>5, <1>6, <1>7 DEF Relink, Shape

(* Taking a port of a LAG leaves it in two lists.                          *)
LEMMA StealsBreaks ==
    ASSUME TypeOK, NEW b \in Bundles, NEW s \in Requests(b), bundle_set_steals(b, s)
    PROVE  ~Intact'
<1>1. PICK c \in Losers(b, s) : c \in bond_hw_handle
  BY DEF bundle_set_steals
<1>2. PICK p \in Found(s) : c = bundle[p]
  BY DEF Losers
<1>3. p \in Ports /\ c \in Bundles /\ c # b
  BY <1>1, RequestType DEF Found, Losers, TypeOK
<1>4. p \in ports[c]
  BY <1>2, <1>3 DEF bundle_set_steals, Intact, ListMatchesPointer
<1>5. p \in ports'[c] /\ bundle'[p] = b
  BY <1>3, <1>4 DEF bundle_set_steals, TypeOK
<1> QED  BY <1>3, <1>5 DEF Intact, ListMatchesPointer

(* Withdrawing a bond leaves its slaves in a freed bundle.                 *)
LEMMA WithdrawsBreaks ==
    ASSUME TypeOK, NEW b \in Bundles, NEW s \in Requests(b),
           bundle_set_withdraws(b, s)
    PROVE  ~Intact'
<1>1. PICK p \in Found(s) : TRUE
  BY DEF bundle_set_withdraws
<1>2. p \in Ports
  BY <1>1, RequestType DEF Found
<1>3. bundle'[p] = b /\ b \notin bundles'
  BY <1>1, <1>2 DEF bundle_set_withdraws, TypeOK
<1> QED  BY <1>2, <1>3, ConstantsAssumption DEF Intact, NoDanglingBundle

(* Every step keeps the lists and flags in shape.                          *)
LEMMA ShapeStep ==
    ASSUME TypeOK, ShapeInv, [Next]_vars
    PROVE  ShapeInv'
<1> SUFFICES ASSUME Intact'
             PROVE  Shape' /\ FlagsTell'
  BY DEF ShapeInv
<1>1. ASSUME NEW b \in Bundles, bundle_set_null(b)
      PROVE  Shape' /\ FlagsTell'
  BY <1>1, DestroyShape DEF bundle_set_null, ShapeInv
<1>2. ASSUME NEW b \in Bundles, NEW s \in Requests(b), bundle_set(b, s)
      PROVE  Shape' /\ FlagsTell'
  <2>1. Intact
    BY <1>2 DEF bundle_set, bundle_set_no_program, bundle_set_routing,
                bundle_set_program, bundle_set_empty, bundle_set_steals,
                bundle_set_withdraws, Links
  <2>2. Shape /\ FlagsTell
    BY <2>1 DEF ShapeInv
  <2>3. ASSUME Links(b, s)
        PROVE  /\ Shape'
               /\ bundles' = (bundles \ Losers(b, s)) \cup {b}
    BY <1>2, <2>1, <2>2, <2>3, LinksShape
  <2>4. /\ Losers(b, s) \cap (Intf \cup {Bridge}) = {}
        /\ b \in Intf \cup {Bridge} => Losers(b, s) = {}
    BY <1>2, <2>1, <2>2, LosersFacts
  <2>5. CASE bundle_set_no_program(b, s)
    <3>1. FlagsTell'
      BY <2>2, <2>3, <2>4, <2>5 DEF bundle_set_no_program, FlagsTell
    <3> QED  BY <2>3, <2>5, <3>1 DEF bundle_set_no_program
  <2>6. CASE bundle_set_routing(b, s)
    <3>1. FlagsTell'
      BY <2>2, <2>3, <2>4, <2>6, NamesAssumption DEF bundle_set_routing, FlagsTell
    <3> QED  BY <2>3, <2>6, <3>1 DEF bundle_set_routing
  <2>7. CASE bundle_set_program(b, s)
    <3>1. FlagsTell'
      BY <2>2, <2>3, <2>4, <2>7 DEF bundle_set_program, ReturnsEarly, FlagsTell, flags
    <3> QED  BY <2>3, <2>7, <3>1 DEF bundle_set_program
  <2>8. CASE bundle_set_empty(b, s)
    BY <1>2, <2>1, <2>2, <2>8, DestroyShape DEF bundle_set_empty
  <2>9. CASE bundle_set_steals(b, s) \/ bundle_set_withdraws(b, s)
    BY <1>2, <2>9, StealsBreaks, WithdrawsBreaks
  <2> QED  BY <1>2, <2>5, <2>6, <2>7, <2>8, <2>9 DEF bundle_set
<1>3. ASSUME NEW p \in Ports, bundle_remove(p)
      PROVE  Shape' /\ FlagsTell'
  <2>1. Intact /\ Shape /\ FlagsTell /\ bundle[p] \in Bundles
    BY <1>3 DEF bundle_remove, ShapeInv, TypeOK
  <2>2. CASE bundle[p] \in bond_hw_handle
    BY <1>3, <2>1, <2>2 DEF bundle_remove, Shape, FlagsTell, links, flags
  <2>3. CASE bundle[p] \notin bond_hw_handle
    BY <1>3, <2>1, <2>3, DestroyShape DEF bundle_remove
  <2> QED  BY <2>2, <2>3
<1>4. ASSUME Intact, UNCHANGED <<links, flags>>
      PROVE  Shape' /\ FlagsTell'
  BY <1>4 DEF ShapeInv, Shape, FlagsTell, links, flags
<1>5. ASSUME NEW p \in Ports, port_alloc(p) \/ port_dealloc(p)
      PROVE  Shape' /\ FlagsTell'
  BY <1>4, <1>5 DEF port_alloc, port_dealloc
<1>6. ASSUME NEW v \in Vlans, NEW add \in BOOLEAN, set_vlan(v, add)
      PROVE  Shape' /\ FlagsTell'
  BY <1>4, <1>6 DEF set_vlan
<1>7. CASE Fresh
  BY <1>7 DEF Fresh, Shape, FlagsTell, Bundles
<1>8. CASE Boot \/ Crash
  BY <1>7, <1>8 DEF Boot, Crash, CrashInDisable, CrashInEnable,
     bundle_set_no_vlan, bundle_set_frees_twice
<1>9. CASE UNCHANGED vars
  <2>1. Intact
    BY <1>9 DEF Intact, ListMatchesPointer, NoDanglingBundle, NoFreedMember,
                vars, links
  <2> QED  BY <1>4, <1>9, <2>1 DEF vars
<1> QED  BY <1>1, <1>2, <1>3, <1>5, <1>6, <1>8, <1>9 DEF Next, Handler

-----------------------------------------------------------------------------
(* The DROP rules                                                          *)

(* A handler changes the rules by releasing ports and blocking ports.      *)
LEMMA HandlerRules ==
    ASSUME TypeOK, Handler
    PROVE  UNCHANGED rules \/ \E S, T \in SUBSET Ports : UpdateRules(S, T)
<1>1. ASSUME NEW b \in Bundles, bundle_destroy(b)
      PROVE  \E S, T \in SUBSET Ports : UpdateRules(S, T)
  BY <1>1 DEF bundle_destroy, TypeOK
<1>2. ASSUME NEW b \in Bundles, NEW s \in Requests(b), bundle_set(b, s)
      PROVE  UNCHANGED rules \/ \E S, T \in SUBSET Ports : UpdateRules(S, T)
  <2>1. /\ Found(s) \in SUBSET Ports /\ ports[b] \in SUBSET Ports
        /\ Released(b, s) \in SUBSET Ports
    <3>1. Found(s) \subseteq Ports /\ ports[b] \subseteq Ports
      BY <1>2, RequestType DEF Found, TypeOK
    <3>2. \A c \in Losers(b, s) : c \in Bundles
      BY <3>1 DEF Losers, TypeOK
    <3>3. \A c \in Losers(b, s) : ports[c] \subseteq Ports
      BY <3>2 DEF TypeOK
    <3>4. UNION {ports[c] : c \in Losers(b, s)} \subseteq Ports
      BY <3>3
    <3> QED  BY <3>1, <3>4 DEF Released
  <2>2. CASE bundle_set_no_program(b, s) \/ bundle_set_program(b, s)
    BY <2>1, <2>2 DEF bundle_set_no_program, bundle_set_program
  <2>3. CASE bundle_set_routing(b, s) \/ bundle_set_steals(b, s)
    BY <2>3 DEF bundle_set_routing, bundle_set_steals
  <2>4. CASE bundle_set_empty(b, s)
    BY <1>1, <1>2, <2>4 DEF bundle_set_empty
  <2>5. CASE bundle_set_withdraws(b, s)
    <3> DEFINE gone == {b} \cup (Losers(b, s) \ bond_hw_handle)
    <3>1. gone \subseteq Bundles
      BY <1>2, <2>1 DEF Losers, TypeOK
    <3>2. UNION {ports[c] : c \in gone} \in SUBSET Ports
      BY <3>1 DEF TypeOK
    <3> QED  BY <2>5, <3>2 DEF bundle_set_withdraws
  <2> QED  BY <1>2, <2>2, <2>3, <2>4, <2>5 DEF bundle_set
<1>3. ASSUME NEW p \in Ports, bundle_remove(p)
      PROVE  UNCHANGED rules \/ \E S, T \in SUBSET Ports : UpdateRules(S, T)
  BY <1>1, <1>3 DEF bundle_remove, TypeOK
<1>4. ASSUME NEW v \in Vlans, NEW add \in BOOLEAN, set_vlan(v, add)
      PROVE  UNCHANGED rules \/ \E S, T \in SUBSET Ports : UpdateRules(S, T)
  <2> DEFINE C == bundles \ (is_vlan_routing_enabled \cup is_bridge_bundle)
  <2>1. UNION {ports[b] : b \in C} \in SUBSET Ports
    BY DEF TypeOK
  <2> QED  BY <1>4, <2>1 DEF set_vlan, bundle_set_reconfigure
<1>5. ASSUME NEW p \in Ports, port_alloc(p) \/ port_dealloc(p)
      PROVE  UNCHANGED rules
  BY <1>5 DEF port_alloc, port_dealloc
<1> QED  BY <1>1, <1>2, <1>3, <1>4, <1>5 DEF Handler, bundle_set_null

LEMMA UpdateRulesOnce ==
    ASSUME TypeOK, InputRuleOnce, NEW S \in SUBSET Ports, NEW T \in SUBSET Ports,
           UpdateRules(S, T)
    PROVE  InputRuleOnce'
<1> SUFFICES ASSUME NEW p \in Ports
             PROVE  /\ dropInput'[p] <= 1
                    /\ p \in iptable_rules_added' => dropInput'[p] = 1
  BY DEF InputRuleOnce
<1> DEFINE in0 == DeleteRule(dropInput, S \cap iptable_rules_added)
           new == Unblocked(in0, T \ (iptable_rules_added \ S))
<1>1. /\ dropInput[p] \in Nat /\ dropInput[p] <= 1
      /\ p \in iptable_rules_added => dropInput[p] = 1
  BY DEF InputRuleOnce, TypeOK
<1>2. in0[p] = IF p \in S /\ p \in iptable_rules_added THEN 0 ELSE dropInput[p]
  BY <1>1 DEF DeleteRule
<1>3. p \in new <=> p \in T /\ ~(p \in iptable_rules_added /\ p \notin S) /\ in0[p] = 0
  BY DEF Unblocked
<1>4. dropInput'[p] = IF p \in new THEN in0[p] + 1 ELSE in0[p]
  BY DEF UpdateRules, AppendRule
<1>5. p \in iptable_rules_added' <=> (p \in iptable_rules_added /\ p \notin S) \/ p \in T
  BY DEF UpdateRules
<1> HIDE DEF in0, new
<1> QED  BY <1>1, <1>2, <1>3, <1>4, <1>5

(* Whatever commands fail, and wherever the process dies and is started    *)
(* again, a port never has two INPUT rules, and has one when it is         *)
(* flagged: the rules that survive a process are found by the next one.    *)
THEOREM InputRuleNeverStacked == Spec => []InputRuleOnce
<1>1. Init => InputRuleOnce
  BY DEF Init, InputRuleOnce
<1>2. TypeOK /\ InputRuleOnce /\ [Next]_vars => InputRuleOnce'
  <2> SUFFICES ASSUME TypeOK, InputRuleOnce, [Next]_vars
               PROVE  InputRuleOnce'
    OBVIOUS
  <2>1. CASE Handler
    BY <2>1, HandlerRules, UpdateRulesOnce DEF InputRuleOnce, rules
  <2>2. CASE Boot
    BY <2>2 DEF Boot, Fresh, InputRuleOnce
  <2>3. ASSUME NEW p \in Ports, CrashInDisable(p)
        PROVE  InputRuleOnce'
    BY <2>3 DEF CrashInDisable, Fresh, AppendRule, InputRuleOnce, TypeOK
  <2>4. ASSUME NEW p \in Ports, CrashInEnable(p)
        PROVE  InputRuleOnce'
    BY <2>4 DEF CrashInEnable, Fresh, DeleteRule, InputRuleOnce, TypeOK
  <2>5. ASSUME NEW b \in Bundles, NEW s \in Requests(b),
               bundle_set_no_vlan(b, s) \/ bundle_set_frees_twice(b, s)
        PROVE  InputRuleOnce'
    <3>1. CASE bundle_set_no_vlan(b, s)
      BY <2>2, <3>1 DEF bundle_set_no_vlan
    <3>2. CASE bundle_set_frees_twice(b, s)
      BY <3>2 DEF bundle_set_frees_twice, Fresh, DeleteRule, InputRuleOnce, TypeOK
    <3> QED  BY <2>5, <3>1, <3>2
  <2>6. CASE UNCHANGED vars
    BY <2>6 DEF InputRuleOnce, vars, rules
  <2> QED  BY <2>1, <2>2, <2>3, <2>4, <2>5, <2>6 DEF Next, Crash
<1> QED  BY <1>1, <1>2, TypeCorrect, PTL DEF Spec

(* The two parts of RulesFollowBundles.                                    *)
ExactAt(p) ==
    LET n == IF p \in iptable_rules_added THEN 1 ELSE 0
    IN  dropInput[p] = n /\ dropForward[p] = n

RulesExact == \A p \in Ports : ExactAt(p)

FlaggedSwitched == \A p \in iptable_rules_added : bundle[p] \in Switched

LEMMA UpdateRulesExact ==
    ASSUME TypeOK, NEW p \in Ports, ExactAt(p),
           NEW S \in SUBSET Ports, NEW T \in SUBSET Ports, UpdateRules(S, T)
    PROVE  ExactAt(p)'
<1> DEFINE in0  == DeleteRule(dropInput, S \cap iptable_rules_added)
           fwd0 == DeleteRule(dropForward, S \cap iptable_rules_added)
           new  == Unblocked(in0, T \ (iptable_rules_added \ S))
           n0   == IF p \in iptable_rules_added /\ p \notin S THEN 1 ELSE 0
<1>1. in0[p] = n0 /\ fwd0[p] = n0
  BY DEF ExactAt, DeleteRule
<1>2. p \in new <=> p \in T /\ ~(p \in iptable_rules_added /\ p \notin S) /\ in0[p] = 0
  BY DEF Unblocked
<1>3. /\ dropInput'[p]   = IF p \in new THEN in0[p] + 1 ELSE in0[p]
      /\ dropForward'[p] = IF p \in new THEN fwd0[p] + 1 ELSE fwd0[p]
  BY DEF UpdateRules, AppendRule
<1>4. p \in iptable_rules_added' <=> (p \in iptable_rules_added /\ p \notin S) \/ p \in T
  BY DEF UpdateRules
<1> HIDE DEF in0, fwd0, new
<1> QED  BY <1>1, <1>2, <1>3, <1>4 DEF ExactAt

(* No handler runs on pointers that are broken.                            *)
LEMMA HandlerIntact ==
    ASSUME Handler
    PROVE  Intact
<1>1. ASSUME NEW b, NEW s, bundle_set(b, s)
      PROVE  Intact
  BY <1>1 DEF bundle_set, bundle_set_no_program, bundle_set_routing,
              bundle_set_program, bundle_set_empty, bundle_set_steals,
              bundle_set_withdraws, Links
<1>2. ASSUME NEW b, bundle_set_null(b)
      PROVE  Intact
  BY <1>2 DEF bundle_set_null
<1>3. ASSUME NEW p, bundle_remove(p) \/ port_alloc(p) \/ port_dealloc(p)
      PROVE  Intact
  BY <1>3 DEF bundle_remove, port_alloc, port_dealloc
<1>4. ASSUME NEW v, NEW add, set_vlan(v, add)
      PROVE  Intact
  BY <1>4 DEF set_vlan
<1> QED  BY <1>1, <1>2, <1>3, <1>4 DEF Handler

LEMMA DestroyFlagged ==
    ASSUME TypeOK, Intact, FlaggedSwitched, NEW b \in Bundles, bundle_destroy(b)
    PROVE  FlaggedSwitched'
<1> SUFFICES ASSUME NEW p \in iptable_rules_added'
             PROVE  bundle'[p] \in Switched'
  BY DEF FlaggedSwitched
<1>1. p \in iptable_rules_added /\ p \notin ports[b] /\ p \in Ports
  BY DEF bundle_destroy, UpdateRules, TypeOK
<1>2. bundle'[p] = bundle[p] /\ bundle[p] # b
  BY <1>1 DEF bundle_destroy, Intact, ListMatchesPointer
<1> QED  BY <1>1, <1>2 DEF FlaggedSwitched, Switched, bundle_destroy

(* After the slaves are linked, a port that is still flagged and was not   *)
(* released is in the bundle it was in.                                    *)
LEMMA LinksFlagged ==
    ASSUME TypeOK, Intact, Shape, FlaggedSwitched, NEW b \in Bundles,
           NEW s \in Requests(b), Links(b, s),
           NEW p \in iptable_rules_added, p \notin Released(b, s)
    PROVE  bundle'[p] \in Switched'
<1>1. p \in Ports /\ bundle[p] \in Switched /\ bundle[p] \in bundles
  BY DEF TypeOK, FlaggedSwitched, Switched
<1>2. bundle[p] \notin Losers(b, s)
  BY <1>1 DEF Released, Intact, ListMatchesPointer, TypeOK
<1>3. bundles' = (bundles \ Losers(b, s)) \cup {b}
  BY LinksShape
<1>4. CASE p \in Found(s)
  <2>1. bundle[p] = b
    BY <1>1, <1>2, <1>4, ConstantsAssumption DEF Losers, TypeOK
  <2>2. bundle'[p] = b
    BY <1>1, <1>4 DEF Links, Relink
  <2> QED  BY <1>1, <1>3, <2>1, <2>2 DEF Switched
<1>5. CASE p \notin Found(s)
  <2>1. bundle'[p] = bundle[p]
    BY <1>1, <1>5 DEF Links, Relink
  <2> QED  BY <1>1, <1>2, <1>3, <2>1 DEF Switched
<1> QED  BY <1>4, <1>5

LEMMA FlaggedStep ==
    ASSUME TypeOK, ShapeInv, FlaggedSwitched, Handler, Intact'
    PROVE  FlaggedSwitched'
<1>1. Intact /\ Shape /\ FlagsTell
  BY HandlerIntact DEF ShapeInv
<1>2. ASSUME NEW b \in Bundles, bundle_set_null(b)
      PROVE  FlaggedSwitched'
  BY <1>1, <1>2, DestroyFlagged DEF bundle_set_null
<1>3. ASSUME NEW b \in Bundles, NEW s \in Requests(b), bundle_set(b, s)
      PROVE  FlaggedSwitched'
  <2>1. CASE bundle_set_no_program(b, s)
    <3>1. Links(b, s) /\ iptable_rules_added' = iptable_rules_added \ Released(b, s)
      BY <2>1 DEF bundle_set_no_program, UpdateRules
    <3> QED  BY <1>1, <1>3, <3>1, LinksFlagged DEF FlaggedSwitched
  <2>2. CASE bundle_set_routing(b, s)
    <3>1. Links(b, s) /\ iptable_rules_added' = iptable_rules_added
      BY <2>2 DEF bundle_set_routing, rules
    <3>2. Losers(b, s) = {} /\ b \notin Phys \cup Lags
      BY <1>1, <1>3, <2>2, LosersFacts, NamesAssumption DEF bundle_set_routing
    <3>3. b \notin Switched /\ ports[b] \subseteq s.slaves
      BY <1>1, <1>3, <2>2, <3>2, RequestType DEF Switched, bundle_set_routing, Shape
    <3>4. Released(b, s) = {}
      BY <3>2, <3>3 DEF Released
    <3> QED  BY <1>1, <1>3, <3>1, <3>4, LinksFlagged DEF FlaggedSwitched
  <2>3. CASE bundle_set_program(b, s)
    <3>1. /\ Links(b, s)
          /\ iptable_rules_added' = (iptable_rules_added \ Released(b, s)) \cup Found(s)
      BY <2>3 DEF bundle_set_program, UpdateRules
    <3>2. ASSUME NEW p \in Found(s)
          PROVE  bundle'[p] \in Switched'
      <4>1. bundle'[p] = b /\ b \in bundles'
        BY <1>3, <3>1, <3>2, RequestType DEF Links, Relink, Found
      <4> QED  BY <2>3, <4>1 DEF bundle_set_program, ReturnsEarly, Switched
    <3> QED  BY <1>1, <1>3, <3>1, <3>2, LinksFlagged DEF FlaggedSwitched
  <2>4. CASE bundle_set_empty(b, s)
    BY <1>1, <1>3, <2>4, DestroyFlagged DEF bundle_set_empty
  <2>5. CASE bundle_set_steals(b, s) \/ bundle_set_withdraws(b, s)
    BY <1>3, <2>5, StealsBreaks, WithdrawsBreaks
  <2> QED  BY <1>3, <2>1, <2>2, <2>3, <2>4, <2>5 DEF bundle_set
<1>4. ASSUME NEW p \in Ports, bundle_remove(p)
      PROVE  FlaggedSwitched'
  <2>1. bundle[p] \in Bundles
    BY <1>4 DEF bundle_remove, TypeOK
  <2>2. CASE bundle[p] \in bond_hw_handle
    BY <1>4, <2>2 DEF bundle_remove, FlaggedSwitched, Switched, links, rules
  <2>3. CASE bundle[p] \notin bond_hw_handle
    BY <1>1, <1>4, <2>1, <2>3, DestroyFlagged DEF bundle_remove
  <2> QED  BY <2>2, <2>3
<1>5. ASSUME NEW p \in Ports, port_alloc(p) \/ port_dealloc(p)
      PROVE  FlaggedSwitched'
  BY <1>5 DEF port_alloc, port_dealloc, FlaggedSwitched, Switched, links, rules
<1>6. ASSUME NEW v \in Vlans, NEW add \in BOOLEAN, set_vlan(v, add)
      PROVE  FlaggedSwitched'
  <2>1. UNCHANGED <<bundles, bundle>>
    BY <1>6 DEF set_vlan, links
  <2>2. CASE Vrf
    BY <1>6, <2>1, <2>2 DEF set_vlan, rules, FlaggedSwitched, Switched
  <2>3. CASE ~Vrf
    <3>1. bundles \ (is_vlan_routing_enabled \cup is_bridge_bundle) = Switched
      BY <1>1, <2>3 DEF FlagsTell, Switched
    <3>2. iptable_rules_added' = iptable_rules_added \cup UNION {ports[b] : b \in Switched}
      BY <1>6, <2>3, <3>1 DEF set_vlan, bundle_set_reconfigure, UpdateRules
    <3>3. \A b \in Switched : \A p \in ports[b] : bundle[p] = b
      BY <1>1 DEF Switched, Intact, ListMatchesPointer, TypeOK
    <3> QED  BY <2>1, <3>2, <3>3 DEF FlaggedSwitched, Switched
  <2> QED  BY <2>2, <2>3
<1> QED  BY <1>2, <1>3, <1>4, <1>5, <1>6 DEF Handler

(* In the life of one process, whatever the order of handlers and the      *)
(* commands that fail, the DROP rules in the kernel are those of the flags *)
(* and the flags those of ports of switched bundles.                       *)
THEOREM RulesCorrect == SpecNoCrash => []RulesFollowBundles
<1>1. RulesFollowBundles <=> (Intact => RulesExact /\ FlaggedSwitched)
  BY DEF RulesFollowBundles, RulesExact, ExactAt, FlaggedSwitched
<1>2. Init => RulesFollowBundles /\ ShapeInv
  <2>1. Init => RulesExact /\ FlaggedSwitched
    BY DEF Init, RulesExact, ExactAt, FlaggedSwitched
  <2>2. Init => ShapeInv
    BY DEF Init, ShapeInv, Shape, FlagsTell, Bundles
  <2> QED  BY <1>1, <2>1, <2>2
<1>3. TypeOK /\ ShapeInv /\ RulesFollowBundles /\ [NextNoCrash]_vars
      => RulesFollowBundles' /\ ShapeInv'
  <2> SUFFICES ASSUME TypeOK, ShapeInv, RulesFollowBundles, [NextNoCrash]_vars
               PROVE  RulesFollowBundles' /\ ShapeInv'
    OBVIOUS
  <2>1. ShapeInv'
    BY ShapeStep DEF NextNoCrash, Next
  <2>2. CASE Handler
    <3>1. RulesExact /\ FlaggedSwitched
      BY <1>1, <2>2, HandlerIntact
    <3>2. RulesExact'
      BY <2>2, <3>1, HandlerRules, UpdateRulesExact DEF RulesExact, ExactAt, rules
    <3>3. Intact' => FlaggedSwitched'
      BY <2>2, <3>1, FlaggedStep
    <3> QED  BY <2>1, <3>2, <3>3 DEF RulesFollowBundles, RulesExact, ExactAt, FlaggedSwitched
  <2>3. CASE UNCHANGED vars
    BY <2>1, <2>3 DEF RulesFollowBundles, Intact, ListMatchesPointer,
       NoDanglingBundle, NoFreedMember, Switched, vars, links, rules
  <2> QED  BY <2>2, <2>3 DEF NextNoCrash
<1>4. SpecNoCrash => []TypeOK
  <2>1. [NextNoCrash]_vars => [Next]_vars
    BY DEF NextNoCrash, Next
  <2>2. SpecNoCrash => Spec
    BY <2>1, PTL DEF SpecNoCrash, Spec
  <2> QED  BY <2>2, TypeCorrect, PTL
<1> QED  BY <1>2, <1>3, <1>4, PTL DEF SpecNoCrash

-----------------------------------------------------------------------------
(* The invariants of every process, restarts included                      *)

LEMMA ShapeCorrect == Spec => []ShapeInv
<1>1. Init => ShapeInv
  BY DEF Init, ShapeInv, Shape, FlagsTell, Bundles
<1>2. TypeOK /\ ShapeInv /\ [Next]_vars => ShapeInv'
  BY ShapeStep
<1> QED  BY <1>1, <1>2, TypeCorrect, PTL DEF Spec

LEMMA FlaggedCorrect == Spec => [](Intact => FlaggedSwitched)
<1>1. Init => FlaggedSwitched
  BY DEF Init, FlaggedSwitched
<1>2. TypeOK /\ ShapeInv /\ (Intact => FlaggedSwitched) /\ [Next]_vars
      => (Intact => FlaggedSwitched)'
  <2> SUFFICES ASSUME TypeOK, ShapeInv, Intact => FlaggedSwitched, [Next]_vars, Intact'
               PROVE  FlaggedSwitched'
    OBVIOUS
  <2>1. CASE Handler
    BY <2>1, HandlerIntact, FlaggedStep
  <2>2. CASE Boot \/ Crash
    BY <2>2 DEF Boot, Crash, CrashInDisable, CrashInEnable,
     bundle_set_no_vlan, bundle_set_frees_twice, Fresh, FlaggedSwitched
  <2>3. CASE UNCHANGED vars
    BY <2>3 DEF Intact, ListMatchesPointer, NoDanglingBundle, NoFreedMember,
       FlaggedSwitched, Switched, vars, links, rules
  <2> QED  BY <2>1, <2>2, <2>3 DEF Next
<1> QED  BY <1>1, <1>2, TypeCorrect, ShapeCorrect, PTL DEF Spec

-----------------------------------------------------------------------------
(* What a step never does                                                  *)

(* Destroying a bundle, or linking the slaves of one, leaves the pointers  *)
(* intact.                                                                 *)
LEMMA DestroyIntact ==
    ASSUME TypeOK, Intact, NEW b \in Bundles, bundle_destroy(b), UNCHANGED ofports
    PROVE  Intact'
<1>1. \A p \in Ports : bundle'[p] = IF bundle[p] = b THEN NoBundle ELSE bundle[p]
  BY DEF bundle_destroy, Intact, ListMatchesPointer
<1>2. \A c \in Bundles : ports'[c] = IF c = b THEN {} ELSE ports[c]
  BY DEF bundle_destroy, TypeOK
<1>3. ListMatchesPointer'
  BY <1>1, <1>2, ConstantsAssumption DEF Intact, ListMatchesPointer
<1>4. NoDanglingBundle'
  BY <1>1 DEF Intact, NoDanglingBundle, bundle_destroy
<1>5. NoFreedMember'
  BY <1>2 DEF Intact, NoFreedMember
<1> QED  BY <1>3, <1>4, <1>5 DEF Intact

LEMMA LinksIntact ==
    ASSUME TypeOK, Intact, Shape, NEW b \in Bundles, NEW s \in Requests(b), Links(b, s),
           UNCHANGED ofports
    PROVE  Intact'
<1>1. /\ Relink(b, s) /\ Found(s) \subseteq Ports /\ Found(s) \subseteq ofports
      /\ Found(s) \subseteq s.slaves
  BY RequestType DEF Links, Found
<1>2. /\ Losers(b, s) \subseteq bundles /\ b \notin Losers(b, s)
      /\ \A p \in Found(s) : bundle[p] \in Losers(b, s) \cup {b, NoBundle}
  BY LosersFacts DEF Losers
<1>3. \A c \in Bundles : ports'[c] = IF c = b THEN Found(s)
                                     ELSE IF c \in Losers(b, s) THEN {} ELSE ports[c]
  BY <1>1 DEF Relink
<1>4. \A p \in Ports : p \in Released(b, s) <=>
         bundle[p] \in Losers(b, s) \/ (bundle[p] = b /\ p \notin s.slaves)
  <2>1. ASSUME NEW p \in Ports
        PROVE  p \in Released(b, s) <=> \/ \E c \in Losers(b, s) : p \in ports[c]
                                        \/ p \in ports[b] /\ p \notin s.slaves
    BY DEF Released
  <2>2. \A c \in Losers(b, s) : c \in Bundles
    BY <1>2 DEF TypeOK
  <2> QED  BY <2>1, <2>2 DEF Intact, ListMatchesPointer
<1>5. \A p \in Ports : bundle'[p] = IF p \in Found(s) THEN b
                                    ELSE IF p \in Released(b, s) THEN NoBundle
                                    ELSE bundle[p]
  BY <1>1 DEF Relink
<1>6. ListMatchesPointer'
  <2> SUFFICES ASSUME NEW p \in Ports, NEW c \in Bundles
               PROVE  p \in ports'[c] <=> bundle'[p] = c
    BY DEF ListMatchesPointer
  <2>1. /\ p \in ports[c] <=> bundle[p] = c
        /\ p \in ofports \/ bundle[p] # b
    BY DEF Intact, ListMatchesPointer, NoFreedMember
  <2>2. p \in s.slaves /\ p \in ofports => p \in Found(s)
    BY DEF Found
  <2>3. NoBundle # c
    BY ConstantsAssumption
  <2> QED  BY <1>2, <1>3, <1>4, <1>5, <2>1, <2>2, <2>3
<1>7. NoDanglingBundle'
  BY <1>1, <1>4, <1>5 DEF Intact, NoDanglingBundle, Relink
<1>8. NoFreedMember'
  BY <1>1, <1>3 DEF Intact, NoFreedMember
<1> QED  BY <1>6, <1>7, <1>8 DEF Intact

LEMMA NewProcess ==
    ASSUME Boot \/ Crash
    PROVE  Fresh /\ Intact'
<1>1. Fresh
  BY DEF Boot, Crash, CrashInDisable, CrashInEnable,
     bundle_set_no_vlan, bundle_set_frees_twice
<1>2. Intact'
  BY <1>1, ConstantsAssumption DEF Fresh, Intact, ListMatchesPointer,
     NoDanglingBundle, NoFreedMember
<1> QED  BY <1>1, <1>2

(* The handlers that may leave broken pointers: those that meet a bond.    *)
BreaksBond ==
    \/ \E b \in Bundles : \E s \in Requests(b) :
          bundle_set_steals(b, s) \/ bundle_set_withdraws(b, s)
    \/ \E p \in Ports : port_dealloc(p) /\ bundle[p] \in bond_hw_handle

LEMMA HandlerKeepsIntact ==
    ASSUME TypeOK, ShapeInv, Handler, ~BreaksBond
    PROVE  Intact'
<1>1. Intact /\ Shape
  BY HandlerIntact DEF ShapeInv
<1>2. ASSUME NEW b \in Bundles, NEW s \in Requests(b), bundle_set(b, s)
      PROVE  Intact'
  <2>1. CASE bundle_set_no_program(b, s) \/ bundle_set_routing(b, s)
             \/ bundle_set_program(b, s)
    BY <1>1, <1>2, <2>1, LinksIntact
       DEF bundle_set_no_program, bundle_set_routing, bundle_set_program
  <2>2. CASE bundle_set_empty(b, s)
    BY <1>1, <1>2, <2>2, DestroyIntact DEF bundle_set_empty
  <2>3. ~bundle_set_steals(b, s) /\ ~bundle_set_withdraws(b, s)
    BY <1>2 DEF BreaksBond
  <2> QED  BY <1>2, <2>1, <2>2, <2>3 DEF bundle_set
<1>3. ASSUME NEW b \in Bundles, bundle_set_null(b)
      PROVE  Intact'
  BY <1>1, <1>3, DestroyIntact DEF bundle_set_null
<1>4. ASSUME UNCHANGED <<links, ofports>>
      PROVE  Intact'
  BY <1>1, <1>4 DEF links, Intact, ListMatchesPointer, NoDanglingBundle, NoFreedMember
<1>5. ASSUME NEW p \in Ports, bundle_remove(p)
      PROVE  Intact'
  <2>1. bundle[p] \in Bundles /\ UNCHANGED ofports
    BY <1>5 DEF bundle_remove, TypeOK
  <2>2. CASE bundle[p] \in bond_hw_handle
    BY <1>4, <1>5, <2>1, <2>2 DEF bundle_remove
  <2>3. CASE bundle[p] \notin bond_hw_handle
    BY <1>1, <1>5, <2>1, <2>3, DestroyIntact DEF bundle_remove
  <2> QED  BY <2>2, <2>3
<1>6. ASSUME NEW p \in Ports, port_alloc(p)
      PROVE  Intact'
  BY <1>1, <1>6 DEF port_alloc, links, Intact, ListMatchesPointer, NoDanglingBundle,
                    NoFreedMember
<1>7. ASSUME NEW p \in Ports, port_dealloc(p)
      PROVE  Intact'
  <2>1. bundle[p] = NoBundle /\ ofports' = ofports \ {p} /\ UNCHANGED links
    BY <1>7 DEF port_dealloc, BreaksBond
  <2>2. \A b \in Bundles : p \notin ports[b]
    BY <1>1, <2>1, ConstantsAssumption DEF Intact, ListMatchesPointer
  <2> QED  BY <1>1, <2>1, <2>2 DEF links, Intact, ListMatchesPointer,
                                   NoDanglingBundle, NoFreedMember
<1>8. ASSUME NEW v, NEW add, set_vlan(v, add)
      PROVE  Intact'
  BY <1>4, <1>8 DEF set_vlan
<1> QED  BY <1>2, <1>3, <1>5, <1>6, <1>7, <1>8 DEF Handler

(* Only bonds make a handler leave broken pointers: bundle_remove and      *)
(* bundle_set do not take bonds apart, and nothing else goes wrong.        *)
THEOREM OnlyBondsBreak == Spec => OnlyBondsBreakLists
<1>1. TypeOK /\ ShapeInv /\ [Next]_vars => [Intact /\ bond_hw_handle = {} => Intact']_vars
  <2> SUFFICES ASSUME TypeOK, ShapeInv, [Next]_vars, Intact, bond_hw_handle = {}
               PROVE  Intact'
    OBVIOUS
  <2>1. CASE Handler
    <3>1. ~BreaksBond
      BY DEF BreaksBond, bundle_set_steals, bundle_set_withdraws, Withdrawn
    <3> QED  BY <2>1, <3>1, HandlerKeepsIntact
  <2>2. CASE Boot \/ Crash
    BY <2>2, NewProcess
  <2>3. CASE UNCHANGED vars
    BY <2>3 DEF vars, links, Intact, ListMatchesPointer, NoDanglingBundle, NoFreedMember
  <2> QED  BY <2>1, <2>2, <2>3 DEF Next
<1> QED  BY <1>1, TypeCorrect, ShapeCorrect, PTL DEF Spec, OnlyBondsBreakLists

(* A flagged port is in a bundle, even one that is freed: the flag is      *)
(* cleared wherever the pointer is.                                        *)
FlaggedMember == \A p \in iptable_rules_added : bundle[p] # NoBundle

(* A handler that leaves the pointers intact releases only ports that      *)
(* leave their bundle.                                                     *)
LEMMA ReleasedLeave ==
    ASSUME TypeOK, ShapeInv, Handler, Intact'
    PROVE  \/ UNCHANGED rules
           \/ \E S, T \in SUBSET Ports :
                 /\ UpdateRules(S, T)
                 /\ \A p \in S : bundle'[p] # bundle[p]
<1> DEFINE Leave == \E S, T \in SUBSET Ports :
                       /\ UpdateRules(S, T)
                       /\ \A p \in S : bundle'[p] # bundle[p]
<1>1. Intact /\ Shape /\ FlagsTell
  BY HandlerIntact DEF ShapeInv
<1>2. ASSUME NEW b \in Bundles, bundle_destroy(b)
      PROVE  Leave
  <2>1. ports[b] \in SUBSET Ports /\ {} \in SUBSET Ports /\ UpdateRules(ports[b], {})
    BY <1>2 DEF bundle_destroy, TypeOK
  <2>2. \A p \in ports[b] : bundle[p] = b /\ bundle'[p] = NoBundle
    BY <1>1, <1>2, <2>1 DEF bundle_destroy, Intact, ListMatchesPointer
  <2> QED  BY <2>1, <2>2, ConstantsAssumption
<1>3. ASSUME NEW b \in Bundles, NEW s \in Requests(b), Links(b, s)
      PROVE  /\ Released(b, s) \in SUBSET Ports /\ Found(s) \in SUBSET Ports
             /\ \A p \in Released(b, s) : bundle'[p] # bundle[p]
  <2>1. /\ Relink(b, s) /\ Found(s) \subseteq Ports /\ Found(s) \subseteq s.slaves
        /\ \A c \in Losers(b, s) : c \in Bundles /\ c # b
    BY <1>1, <1>3, RequestType, LosersFacts DEF Links, Found, TypeOK
  <2>2. ASSUME NEW p \in Released(b, s)
        PROVE  /\ p \in Ports
               /\ \/ bundle[p] \in Losers(b, s)
                  \/ bundle[p] = b /\ p \notin s.slaves
    BY <1>1, <2>1, <2>2 DEF Released, Intact, ListMatchesPointer, TypeOK
  <2>3. ASSUME NEW p \in Released(b, s)
        PROVE  bundle'[p] # bundle[p]
    BY <2>1, <2>2, <2>3, ConstantsAssumption DEF Relink
  <2> QED  BY <2>1, <2>2, <2>3
<1>4. ASSUME NEW b \in Bundles, NEW s \in Requests(b), bundle_set(b, s)
      PROVE  UNCHANGED rules \/ Leave
  <2>1. CASE bundle_set_no_program(b, s)
    BY <1>3, <1>4, <2>1 DEF bundle_set_no_program
  <2>2. CASE bundle_set_program(b, s)
    BY <1>3, <1>4, <2>2 DEF bundle_set_program
  <2>3. CASE bundle_set_routing(b, s)
    BY <2>3 DEF bundle_set_routing
  <2>4. CASE bundle_set_empty(b, s)
    BY <1>2, <1>4, <2>4 DEF bundle_set_empty
  <2>5. ~bundle_set_steals(b, s) /\ ~bundle_set_withdraws(b, s)
    BY <1>4, StealsBreaks, WithdrawsBreaks
  <2> QED  BY <1>4, <2>1, <2>2, <2>3, <2>4, <2>5 DEF bundle_set
<1>5. ASSUME NEW p \in Ports, bundle_remove(p)
      PROVE  UNCHANGED rules \/ Leave
  BY <1>2, <1>5 DEF bundle_remove, TypeOK
<1>6. ASSUME NEW v \in Vlans, NEW add \in BOOLEAN, set_vlan(v, add)
      PROVE  UNCHANGED rules \/ Leave
  <2>1. CASE Vrf
    BY <1>6, <2>1 DEF set_vlan
  <2>2. CASE ~Vrf
    <3> DEFINE T == UNION {ports[b] : b \in bundles \
                              (is_vlan_routing_enabled \cup is_bridge_bundle)}
    <3>1. UpdateRules({}, T)
      BY <1>6, <2>2 DEF set_vlan, bundle_set_reconfigure
    <3>2. T \in SUBSET Ports
      BY DEF TypeOK
    <3> HIDE DEF T
    <3> QED  BY <3>1, <3>2
  <2> QED  BY <2>1, <2>2
<1>7. ASSUME NEW p \in Ports, port_alloc(p) \/ port_dealloc(p)
      PROVE  UNCHANGED rules
  BY <1>7 DEF port_alloc, port_dealloc
<1> HIDE DEF Leave
<1>8. UNCHANGED rules \/ Leave
  BY <1>2, <1>4, <1>5, <1>6, <1>7 DEF Handler, bundle_set_null
<1> QED  BY <1>8 DEF Leave

(* A port that is not released keeps its flag and its rules.               *)
LEMMA NotReleasedKeeps ==
    ASSUME TypeOK, NEW S \in SUBSET Ports, NEW T \in SUBSET Ports, UpdateRules(S, T),
           NEW p \in iptable_rules_added, p \notin S
    PROVE  /\ p \in iptable_rules_added'
           /\ dropInput'[p] = dropInput[p] /\ dropForward'[p] = dropForward[p]
<1> DEFINE released == S \cap iptable_rules_added
           in0  == DeleteRule(dropInput, released)
           fwd0 == DeleteRule(dropForward, released)
           new  == Unblocked(in0, T \ (iptable_rules_added \ S))
<1>1. p \in Ports /\ in0[p] = dropInput[p] /\ fwd0[p] = dropForward[p]
  BY DEF DeleteRule, TypeOK
<1>2. p \notin new
  BY DEF Unblocked
<1>3. dropInput' = AppendRule(in0, new) /\ dropForward' = AppendRule(fwd0, new)
  BY DEF UpdateRules
<1>4. p \in iptable_rules_added'
  BY DEF UpdateRules
<1> HIDE DEF in0, fwd0, new
<1> QED  BY <1>1, <1>2, <1>3, <1>4 DEF AppendRule

LEMMA FlaggedMemberStep ==
    ASSUME TypeOK, ShapeInv, Intact => FlaggedSwitched, (Intact => FlaggedSwitched)',
           FlaggedMember, [Next]_vars
    PROVE  FlaggedMember'
<1>1. ASSUME Intact'
      PROVE  FlaggedMember'
  BY <1>1, ConstantsAssumption, TypeStep DEF FlaggedSwitched, FlaggedMember, Switched, TypeOK
<1>2. ASSUME Handler, BreaksBond
      PROVE  FlaggedMember'
  <2>1. ASSUME NEW b \in Bundles, NEW s \in Requests(b), bundle_set_steals(b, s)
        PROVE  FlaggedMember'
    BY <2>1, ConstantsAssumption DEF bundle_set_steals, rules, FlaggedMember, TypeOK
  <2>2. ASSUME NEW b \in Bundles, NEW s \in Requests(b), bundle_set_withdraws(b, s)
        PROVE  FlaggedMember'
    BY <2>2, ConstantsAssumption
       DEF bundle_set_withdraws, UpdateRules, FlaggedMember, TypeOK
  <2>3. ASSUME NEW p \in Ports, port_dealloc(p)
        PROVE  FlaggedMember'
    BY <2>3 DEF port_dealloc, links, rules, FlaggedMember
  <2> QED  BY <1>2, <2>1, <2>2, <2>3 DEF BreaksBond
<1>3. CASE Handler
  BY <1>1, <1>2, <1>3, HandlerKeepsIntact
<1>4. CASE Boot \/ Crash
  BY <1>1, <1>4, NewProcess
<1>5. CASE UNCHANGED vars
  BY <1>5 DEF vars, links, rules, FlaggedMember
<1> QED  BY <1>3, <1>4, <1>5 DEF Next

(* A port that stays in its bundle keeps its DROP rules, whatever handler  *)
(* runs and whichever commands fail.                                       *)
THEOREM MembersStayBlocked == Spec => BlockedWhileMember
<1> DEFINE A == \A p \in iptable_rules_added :
                   Intact' /\ bundle'[p] = bundle[p] =>
                      /\ p \in iptable_rules_added'
                      /\ dropInput'[p] = dropInput[p]
                      /\ dropForward'[p] = dropForward[p]
<1>1. Init => FlaggedMember
  BY DEF Init, FlaggedMember
<1>2. /\ TypeOK /\ ShapeInv /\ (Intact => FlaggedSwitched) /\ (Intact => FlaggedSwitched)'
      /\ FlaggedMember /\ [Next]_vars
      => FlaggedMember'
  BY FlaggedMemberStep
<1>3. Spec => []FlaggedMember
  BY <1>1, <1>2, TypeCorrect, ShapeCorrect, FlaggedCorrect, PTL DEF Spec
<1>4. TypeOK /\ ShapeInv /\ FlaggedMember /\ [Next]_vars => [A]_vars
  <2> SUFFICES ASSUME TypeOK, ShapeInv, FlaggedMember, [Next]_vars,
                      NEW p \in iptable_rules_added, Intact', bundle'[p] = bundle[p]
               PROVE  /\ p \in iptable_rules_added'
                      /\ dropInput'[p] = dropInput[p]
                      /\ dropForward'[p] = dropForward[p]
    OBVIOUS
  <2>1. CASE Handler
    <3>1. CASE UNCHANGED rules
      BY <3>1 DEF rules
    <3>2. CASE ~UNCHANGED rules
      <4>1. PICK S \in SUBSET Ports, T \in SUBSET Ports :
               /\ UpdateRules(S, T)
               /\ \A q \in S : bundle'[q] # bundle[q]
        BY <2>1, <3>2, ReleasedLeave
      <4> QED  BY <4>1, NotReleasedKeeps
    <3> QED  BY <3>1, <3>2
  <2>2. CASE Boot \/ Crash
    BY <2>2, NewProcess DEF Fresh, FlaggedMember, TypeOK
  <2>3. CASE UNCHANGED vars
    BY <2>3 DEF vars, rules
  <2> QED  BY <2>1, <2>2, <2>3 DEF Next
<1> QED  BY <1>3, <1>4, TypeCorrect, ShapeCorrect, PTL DEF Spec, BlockedWhileMember
=============================================================================
