--------------------------- MODULE SimBridgeProofs ---------------------------
(***************************************************************************)
(* The bridge and its ASIC OVS.  While ovs-vsctl commands succeed, the     *)
(* port table is at all times that of the bundles and VLANs, for every set *)
(* of interfaces, LAGs and settings, restarts included; the trunks follow  *)
(* the VLAN interfaces as far as the code keeps track of them              *)
(* (SimVlanIntf); and the bridge implements L2Switch (SimSwitch).          *)
(* Whichever commands fail, the flags tell the truth, what is switched is  *)
(* blocked, and the ports of a VRF are open to the kernel (SimBridgeVrf).  *)
(***************************************************************************)
EXTENDS SimSwitch, SimBridgeVrf, SimVlanIntf, SimBundleProofs, FiniteSetTheorems

-----------------------------------------------------------------------------
(* The inductive invariant                                                 *)

(* The flag of a bundle is right, and the memory of a bundle that does not *)
(* exist is fresh.                                                         *)
AddedTells ==
    /\ \A b \in Bundles : b \in is_added_to_sim_ovs <=> asic[b] # NoPort
    /\ \A b \in Bundles \ bundles : cfg[b] = InitCfg

(* AsicMatchesConfig, point by point.                                      *)
AsicExact ==
    \A b \in Bundles : asic[b] = IF b \in Switched
                                 THEN Program(cfg[b], vlans_bmp) ELSE NoPort

Asic == AddedTells /\ AsicExact

AsicInv == Intact => Asic

-----------------------------------------------------------------------------
(* Programming                                                             *)

(* A fresh bundle is not programmed, whatever the VLANs.                   *)
LEMMA FreshNotProgrammed ==
    ASSUME NEW v \in SUBSET Vlans
    PROVE  Program(InitCfg, v) = NoPort
<1>1. -1 \notin TrunkVlans
  BY DEF TrunkVlans
<1>2. -1 \notin v
  BY <1>1, ConstantsAssumption
<1> QED  BY <1>2 DEF Program, InitCfg

LEMMA NoFailures ==
    ASSUME ~MayFail, NEW C, NEW F \in Failures(C)
    PROVE  F = {}
  BY DEF Failures

(* bundle_configure of the bundles of C writes these and only these, when  *)
(* the flags are right and the members of bonds have no port of their own. *)
LEMMA ReprogramWorks ==
    ASSUME NEW a \in [Bundles -> AsicPort \cup {NoPort}],
           NEW pt, NEW cf, NEW v, NEW C,
           \A b \in C : b \in is_added_to_sim_ovs \/ a[b] = NoPort,
           \A c \in C : Cardinality(pt[c]) > 1 =>
              \A m \in pt[c] \cap Bundles : a[m] = NoPort,
           NEW n \in Bundles
    PROVE  Reprogram(a, pt, cf, v, C, {}, {})[n] =
              IF n \in C THEN Program(cf[n], v) ELSE a[n]
<1> DEFINE members == UNION {pt[b] : b \in {c \in C : Cardinality(pt[c]) > 1}}
           deleted == ((C \cap is_added_to_sim_ovs) \cup members) \ {}
           left    == DelPort(a, deleted)
<1>1. n \in members => a[n] = NoPort
  OBVIOUS
<1>2. left[n] = IF n \in C THEN NoPort ELSE a[n]
  <2>1. n \in deleted <=> (n \in C /\ n \in is_added_to_sim_ovs) \/ n \in members
    OBVIOUS
  <2>2. left[n] = IF n \in deleted THEN NoPort ELSE a[n]
    BY DEF DelPort
  <2> HIDE DEF members, deleted, left
  <2> QED  BY <1>1, <2>1, <2>2
<1>3. Reprogram(a, pt, cf, v, C, {}, {})[n] =
         IF n \in C \ {} /\ left[n] = NoPort THEN Program(cf[n], v) ELSE left[n]
  BY DEF Reprogram
<1> HIDE DEF members, deleted, left
<1> QED  BY <1>2, <1>3

(* A bundle with more than one port is a LAG.                              *)
LEMMA BondsAreLags ==
    ASSUME NEW b, NEW S, S \subseteq {b}, Cardinality(S) > 1
    PROVE  FALSE
<1>1. S = {} \/ S = {b}
  OBVIOUS
<1>2. Cardinality({}) = 0 /\ Cardinality({b}) = 1
  BY FS_EmptySet, FS_Singleton
<1> QED  BY <1>1, <1>2

(* A member of a LAG is no bundle itself.                                  *)
LEMMA MembersAreNoBundles ==
    ASSUME TypeOK, Intact, Shape, NEW c \in Lags, NEW m \in ports[c]
    PROVE  m \notin bundles
<1>1. m \in Phys /\ m \in Ports /\ m \in Bundles /\ m \notin Lags /\ c \in Bundles
  BY NamesAssumption DEF Shape, Ports, Bundles
<1>2. bundle[m] = c /\ m # c
  BY <1>1 DEF Intact, ListMatchesPointer
<1>3. m \notin ports[m]
  BY <1>1, <1>2 DEF Intact, ListMatchesPointer
<1> QED  BY <1>1, <1>3 DEF Shape

-----------------------------------------------------------------------------
(* Steps                                                                   *)

LEMMA DestroyAsic ==
    ASSUME ~MayFail, TypeOK, Intact, Shape, FlagsTell, Asic,
           NEW b \in Bundles, bundle_destroy(b), UNCHANGED vlans_bmp
    PROVE  Asic'
<1>1. /\ bundles' = bundles \ {b}
      /\ cfg' = [c \in Bundles |-> IF c = b THEN InitCfg ELSE cfg[c]]
      /\ is_added_to_sim_ovs' = is_added_to_sim_ovs \ {b}
  BY DEF bundle_destroy, DestroyState
<1>2. \A n \in Bundles : asic'[n] = IF n = b THEN NoPort ELSE asic[n]
  <2>1. asic' = DelPort(asic, {b} \cap is_added_to_sim_ovs)
    BY NoFailures DEF bundle_destroy, DestroyState
  <2> QED  BY <2>1 DEF DelPort, Asic, AddedTells
<1>3. AddedTells'
  BY <1>1, <1>2 DEF Asic, AddedTells
<1>4. AsicExact'
  BY <1>1, <1>2 DEF Asic, AsicExact, Switched
<1> QED  BY <1>3, <1>4 DEF Asic

(* The table once the losers are destroyed.                                *)
LEMMA LosersAsic ==
    ASSUME TypeOK, Asic, NEW b \in Bundles, NEW s \in Requests(b)
    PROVE  /\ DestroyLosers(b, s, {}) \in [Bundles -> AsicPort \cup {NoPort}]
           /\ \A n \in Bundles : DestroyLosers(b, s, {})[n] =
                 IF n \in Losers(b, s) THEN NoPort ELSE asic[n]
<1>1. DestroyLosers(b, s, {}) \in [Bundles -> AsicPort \cup {NoPort}]
  BY LosersType
<1>2. \A n \in Bundles : DestroyLosers(b, s, {})[n] =
         IF n \in Losers(b, s) THEN NoPort ELSE asic[n]
  BY DEF DestroyLosers, DelPort, Asic, AddedTells
<1> QED  BY <1>1, <1>2

LEMMA NoProgramAsic ==
    ASSUME ~MayFail, TypeOK, Intact, Shape, FlagsTell, Asic,
           NEW b \in Bundles, NEW s \in Requests(b), bundle_set_no_program(b, s)
    PROVE  Asic'
<1> DEFINE gone == Losers(b, s)
<1>1. /\ gone \subseteq bundles /\ b \notin gone
      /\ gone \cap (Intf \cup {Bridge}) = {}
  BY LosersFacts
<1>2. bundles' = (bundles \ gone) \cup {b}
  BY LinksShape DEF bundle_set_no_program
<1>3. /\ \A n \in Bundles : cfg'[n] = IF n \in gone THEN InitCfg ELSE cfg[n]
      /\ is_added_to_sim_ovs' = is_added_to_sim_ovs \ gone
      /\ UNCHANGED <<vlans_bmp, routing>>
  BY DEF bundle_set_no_program, ResetLosers
<1>4. \A n \in Bundles : asic'[n] = IF n \in gone THEN NoPort ELSE asic[n]
  <2>1. asic' = DestroyLosers(b, s, {})
    BY NoFailures DEF bundle_set_no_program
  <2> QED  BY <2>1, LosersAsic
<1> HIDE DEF gone
<1>5. AddedTells'
  BY <1>1, <1>2, <1>3, <1>4 DEF Asic, AddedTells
<1>6. ASSUME NEW n \in Bundles
      PROVE  asic'[n] = IF n \in Switched' THEN Program(cfg'[n], vlans_bmp') ELSE NoPort
  <2>1. CASE n \in gone
    BY <1>1, <1>2, <1>4, <2>1 DEF Switched
  <2>2. CASE n \notin gone /\ (n # b \/ b \in bundles)
    BY <1>2, <1>3, <1>4, <1>6, <2>2 DEF Switched, Asic, AsicExact
  <2>3. CASE n = b /\ b \notin bundles
    <3>1. asic'[n] = NoPort /\ cfg'[n] = InitCfg
      BY <1>1, <1>3, <1>4, <1>6, <2>3 DEF Switched, Asic, AsicExact, AddedTells
    <3> QED  BY <1>3, <3>1, FreshNotProgrammed DEF TypeOK
  <2> QED  BY <2>1, <2>2, <2>3
<1>7. AsicExact'
  BY <1>6 DEF AsicExact
<1> QED  BY <1>5, <1>7 DEF Asic

LEMMA RoutingAsic ==
    ASSUME ~MayFail, TypeOK, Intact, Shape, FlagsTell, Asic,
           NEW b \in Bundles, NEW s \in Requests(b), bundle_set_routing(b, s)
    PROVE  Asic'
<1>1. /\ b \in Intf /\ ~Vrf /\ Losers(b, s) = {}
      /\ UNCHANGED <<vlans_bmp, is_added_to_sim_ovs, asic>>
  BY LosersFacts DEF bundle_set_routing
<1>2. bundles' = bundles \cup {b}
  BY <1>1, LinksShape DEF bundle_set_routing
<1>3. \A n \in Bundles : n # b => cfg'[n] = cfg[n]
  BY DEF bundle_set_routing, TypeOK
<1>4. AddedTells'
  BY <1>1, <1>2, <1>3 DEF Asic, AddedTells
<1>5. AsicExact'
  BY <1>1, <1>2, <1>3 DEF Asic, AsicExact, Switched
<1> QED  BY <1>4, <1>5 DEF Asic

LEMMA ProgramAsic ==
    ASSUME ~MayFail, TypeOK, Intact, Shape, FlagsTell, Asic,
           NEW b \in Bundles, NEW s \in Requests(b), bundle_set_program(b, s)
    PROVE  Asic'
<1> DEFINE gone == Losers(b, s)
           a    == DestroyLosers(b, s, {})
           cf   == [ResetLosers(b, s) EXCEPT ![b] = CopySettings(s.set)]
<1>1. /\ gone \subseteq bundles /\ b \notin gone
      /\ gone \cap (Intf \cup {Bridge}) = {}
      /\ b \notin Intf /\ b # Bridge /\ ~Vrf
  BY LosersFacts DEF bundle_set_program, ReturnsEarly
<1>2. /\ bundles' = (bundles \ gone) \cup {b}
      /\ ports'[b] = Found(s)
      /\ UNCHANGED <<vlans_bmp, routing>>
  BY LinksShape DEF bundle_set_program, Links, Relink
<1>3. /\ cfg' = cf
      /\ asic' = Reprogram(a, ports', cf, vlans_bmp, {b}, {}, {})
      /\ is_added_to_sim_ovs' = Added(cf, vlans_bmp, {b}, {}) \ gone
  BY NoFailures DEF bundle_set_program
<1>4. \A n \in Bundles : n # b => cf[n] = IF n \in gone THEN InitCfg ELSE cfg[n]
  BY DEF ResetLosers
<1>5. /\ a \in [Bundles -> AsicPort \cup {NoPort}]
      /\ \A n \in Bundles : a[n] = IF n \in gone THEN NoPort ELSE asic[n]
  BY LosersAsic
<1>6. ASSUME Cardinality(ports'[b]) > 1, NEW m \in ports'[b]
      PROVE  a[m] = NoPort
  <2>1. b \in Lags
    BY <1>2, <1>6, BondsAreLags, RequestType DEF Found
  <2>2. m \in Phys /\ m \in Found(s) /\ m \in Ports /\ m \in Bundles /\ m \notin Lags
    BY <1>2, <1>6, <2>1, RequestType, NamesAssumption DEF Found, Ports, Bundles
  <2>3. CASE m \in gone
    BY <1>5, <2>2, <2>3
  <2>4. CASE m \notin gone
    <3>1. bundle[m] # m
      BY <2>1, <2>2, <2>4, ConstantsAssumption DEF Losers
    <3>2. m \notin bundles
      BY <2>2, <3>1 DEF Shape, Intact, ListMatchesPointer
    <3> QED  BY <1>5, <2>2, <2>4, <3>2 DEF Asic, AsicExact, Switched
  <2> QED  BY <2>3, <2>4
<1>7. b \in is_added_to_sim_ovs \/ a[b] = NoPort
  BY <1>1, <1>5 DEF Asic, AddedTells
<1> HIDE DEF a, cf, gone
<1>8. \A n \in Bundles : asic'[n] = IF n = b THEN Program(cf[n], vlans_bmp) ELSE a[n]
  BY <1>3, <1>5, <1>6, <1>7, ReprogramWorks
<1>9. AddedTells'
  <2>1. \A n \in Bundles : n \in is_added_to_sim_ovs' <=>
           /\ n \notin gone
           /\ \/ n = b /\ Program(cf[b], vlans_bmp) # NoPort
              \/ n # b /\ n \in is_added_to_sim_ovs
    BY <1>3 DEF Added
  <2>2. \A n \in Bundles : n \in is_added_to_sim_ovs' <=> asic'[n] # NoPort
    BY <1>1, <1>5, <1>8, <2>1 DEF Asic, AddedTells
  <2>3. \A n \in Bundles \ bundles' : cfg'[n] = InitCfg
    BY <1>2, <1>3, <1>4 DEF Asic, AddedTells
  <2> QED  BY <2>2, <2>3 DEF AddedTells
<1>10. AsicExact'
  <2>1. \A n \in Bundles : n # b => (n \in Switched' <=> n \in Switched /\ n \notin gone)
    BY <1>2 DEF Switched
  <2>2. b \in Switched'
    BY <1>1, <1>2 DEF Switched
  <2> QED  BY <1>2, <1>3, <1>4, <1>5, <1>8, <2>1, <2>2 DEF Asic, AsicExact
<1> QED  BY <1>9, <1>10 DEF Asic

LEMMA SetVlanAsic ==
    ASSUME ~MayFail, TypeOK, Intact, Shape, FlagsTell, Asic,
           NEW vid \in Vlans, NEW add \in BOOLEAN, set_vlan(vid, add)
    PROVE  Asic'
<1>1. UNCHANGED <<bundles, ports, cfg, routing>>
  BY DEF set_vlan, links
<1>2. CASE Vrf
  BY <1>1, <1>2 DEF set_vlan, Asic, AddedTells, AsicExact, Switched
<1>3. CASE ~Vrf
  <2>1. bundles \ (is_vlan_routing_enabled \cup is_bridge_bundle) = Switched
    BY <1>3 DEF FlagsTell, Switched
  <2>2. /\ asic' = Reprogram(asic, ports, cfg, vlans_bmp', Switched, {}, {})
        /\ is_added_to_sim_ovs' = Added(cfg, vlans_bmp', Switched, {})
    BY <1>3, <2>1, NoFailures DEF set_vlan, bundle_set_reconfigure
  <2>3. ASSUME NEW c \in Switched, Cardinality(ports[c]) > 1, NEW m \in ports[c]
        PROVE  asic[m] = NoPort
    <3>1. c \in Bundles /\ c \in Lags
      <4>1. c \in Bundles
        BY <2>3 DEF Switched, TypeOK
      <4>2. c \notin Lags => ports[c] \subseteq {c}
        BY <4>1 DEF Shape
      <4> QED  BY <2>3, <4>1, <4>2, BondsAreLags
    <3>2. m \notin bundles /\ m \in Bundles
      BY <2>3, <3>1, MembersAreNoBundles DEF TypeOK, Bundles
    <3> QED  BY <3>2 DEF Asic, AsicExact, Switched
  <2>4. \A c \in Switched : c \in is_added_to_sim_ovs \/ asic[c] = NoPort
    BY DEF Asic, AddedTells, Switched, TypeOK
  <2>5. \A n \in Bundles : asic'[n] = IF n \in Switched
                           THEN Program(cfg[n], vlans_bmp') ELSE asic[n]
    BY <2>2, <2>3, <2>4, ReprogramWorks DEF TypeOK
  <2>6. AsicExact'
    BY <1>1, <2>5 DEF Asic, AsicExact, Switched
  <2>7. AddedTells'
    <3>1. \A n \in Bundles : n \in is_added_to_sim_ovs' <=>
             \/ n \in Switched /\ Program(cfg[n], vlans_bmp') # NoPort
             \/ n \notin Switched /\ n \in is_added_to_sim_ovs
      BY <2>2 DEF Added
    <3> QED  BY <1>1, <2>5, <3>1 DEF Asic, AddedTells
  <2> QED  BY <2>6, <2>7 DEF Asic
<1> QED  BY <1>2, <1>3

LEMMA AsicStep ==
    ASSUME ~MayFail, TypeOK, ShapeInv, AsicInv, [Next]_vars
    PROVE  AsicInv'
<1> SUFFICES ASSUME Intact'
             PROVE  Asic'
  BY DEF AsicInv
<1>1. CASE Handler
  <2>1. Intact /\ Shape /\ FlagsTell /\ Asic
    BY <1>1, HandlerIntact DEF ShapeInv, AsicInv
  <2>2. ASSUME NEW b \in Bundles, bundle_set_null(b)
        PROVE  Asic'
    BY <2>1, <2>2, DestroyAsic DEF bundle_set_null
  <2>3. ASSUME NEW b \in Bundles, NEW s \in Requests(b), bundle_set(b, s)
        PROVE  Asic'
    <3>1. CASE bundle_set_empty(b, s)
      BY <2>1, <2>3, <3>1, DestroyAsic DEF bundle_set_empty
    <3>2. CASE bundle_set_steals(b, s) \/ bundle_set_withdraws(b, s)
      BY <2>3, <3>2, StealsBreaks, WithdrawsBreaks
    <3> QED  BY <2>1, <2>3, <3>1, <3>2, NoProgramAsic, RoutingAsic, ProgramAsic
             DEF bundle_set
  <2>4. ASSUME NEW p \in Ports, bundle_remove(p)
        PROVE  Asic'
    <3>1. bundle[p] \in Bundles /\ UNCHANGED vlans_bmp
      BY <2>4 DEF bundle_remove, TypeOK
    <3>2. CASE bundle[p] \in bond_hw_handle
      BY <2>1, <2>4, <3>1, <3>2 DEF bundle_remove, links, l2vars, routing, Asic,
         AddedTells, AsicExact, Switched
    <3>3. CASE bundle[p] \notin bond_hw_handle
      BY <2>1, <2>4, <3>1, <3>3, DestroyAsic DEF bundle_remove
    <3> QED  BY <3>2, <3>3
  <2>5. ASSUME NEW p \in Ports, port_alloc(p) \/ port_dealloc(p)
        PROVE  Asic'
    BY <2>1, <2>5 DEF port_alloc, port_dealloc, links, l2vars, routing, Asic,
       AddedTells, AsicExact, Switched
  <2>6. ASSUME NEW v \in Vlans, NEW add \in BOOLEAN, set_vlan(v, add)
        PROVE  Asic'
    BY <2>1, <2>6, SetVlanAsic
  <2> QED  BY <1>1, <2>2, <2>3, <2>4, <2>5, <2>6 DEF Handler
<1>2. CASE Boot \/ Crash
  <2>1. Fresh
    BY <1>2, NewProcess
  <2> QED  BY <2>1 DEF Fresh, Asic, AddedTells, AsicExact, Switched
<1>3. CASE UNCHANGED vars
  <2>1. Intact
    BY <1>3 DEF Intact, ListMatchesPointer, NoDanglingBundle, NoFreedMember, vars, links
  <2>2. Asic
    BY <2>1 DEF AsicInv
  <2> QED  BY <1>3, <2>2 DEF vars, links, l2vars, routing, Asic, AddedTells,
           AsicExact, Switched
<1> QED  BY <1>1, <1>2, <1>3 DEF Next

LEMMA AsicInvCorrect ==
    ASSUME ~MayFail
    PROVE  Spec => []AsicInv
<1>1. Init => AsicInv
  BY DEF Init, AsicInv, Asic, AddedTells, AsicExact, Switched
<1>2. TypeOK /\ ShapeInv /\ AsicInv /\ [Next]_vars => AsicInv'
  BY AsicStep
<1> QED  BY <1>1, <1>2, TypeCorrect, ShapeCorrect, PTL DEF Spec

(* While commands succeed, the ASIC OVS is programmed exactly as the       *)
(* bundles and VLANs ask, after every handler and every restart.           *)
THEOREM AsicCorrect ==
    ASSUME ~MayFail
    PROVE  Spec => []AsicMatchesConfig
<1>1. TypeOK /\ AsicInv => AsicMatchesConfig
  BY DEF AsicMatchesConfig, AsicInv, Asic, AsicExact, TypeOK
<1> QED  BY <1>1, AsicInvCorrect, TypeCorrect, PTL

(* Withdrawing a bond, which breaks the pointers, takes the LAG that had   *)
(* it and those that lose a port to it out of the ASIC OVS, and nothing    *)
(* else.                                                                   *)
LEMMA WithdrawsAsic ==
    ASSUME ~MayFail, TypeOK, ShapeInv, AsicInv, NEW b \in Bundles,
           NEW s \in Requests(b), bundle_set_withdraws(b, s)
    PROVE  \E gone \in SUBSET bundles :
              /\ bundles' = bundles \ gone
              /\ \A n \in Bundles : asic'[n] = IF n \in gone THEN NoPort ELSE asic[n]
<1> DEFINE gone == {b} \cup (Losers(b, s) \ bond_hw_handle)
<1>1. Intact /\ Shape /\ Asic
  BY DEF bundle_set_withdraws, ShapeInv, AsicInv
<1>2. b \in bundles
  BY <1>1 DEF bundle_set_withdraws, Withdrawn, Shape
<1>3. gone \in SUBSET bundles
  BY <1>1, <1>2, LosersFacts
<1>4. asic' = DelPort(asic, gone \cap is_added_to_sim_ovs) /\ bundles' = bundles \ gone
  BY NoFailures DEF bundle_set_withdraws, DestroyState
<1> HIDE DEF gone
<1>5. \A n \in Bundles : asic'[n] = IF n \in gone THEN NoPort ELSE asic[n]
  BY <1>1, <1>4 DEF DelPort, Asic, AddedTells
<1> QED  BY <1>3, <1>4, <1>5

(* A bundle's ASIC port changes only with the VLANs, its settings or its   *)
(* existence: no handler for one bundle disturbs another, also when it is  *)
(* a process that dies.                                                    *)
THEOREM AsicIsolated ==
    ASSUME ~MayFail
    PROVE  Spec => AsicIsolation
<1> DEFINE Present == \A b \in Bundles : asic[b] # NoPort => b \in bundles
           A == \A b \in Bundles :
                   asic'[b] # asic[b] => \/ vlans_bmp' # vlans_bmp
                                         \/ cfg'[b] # cfg[b]
                                         \/ b \in bundles /\ b \notin bundles'
           I == TypeOK /\ ShapeInv /\ AsicInv
<1>1. Spec => []I
  BY AsicInvCorrect, TypeCorrect, ShapeCorrect, PTL
<1>2. I /\ I' /\ Present /\ [Next]_vars => Present'
  <2> SUFFICES ASSUME I, I', Present, [Next]_vars
               PROVE  Present'
    OBVIOUS
  <2>1. ASSUME Intact'
        PROVE  Present'
    BY <2>1 DEF AsicInv, Asic, AsicExact, Switched
  <2>2. ASSUME NEW b \in Bundles, NEW s \in Requests(b), bundle_set_steals(b, s)
        PROVE  Present'
    BY <2>2 DEF bundle_set_steals, l2vars
  <2>3. ASSUME NEW b \in Bundles, NEW s \in Requests(b), bundle_set_withdraws(b, s)
        PROVE  Present'
    BY <2>3, WithdrawsAsic
  <2>4. ASSUME NEW p \in Ports, port_dealloc(p)
        PROVE  Present'
    BY <2>4 DEF port_dealloc, links, l2vars
  <2>5. CASE Handler
    BY <2>1, <2>2, <2>3, <2>4, <2>5, HandlerKeepsIntact DEF BreaksBond
  <2>6. CASE Boot \/ Crash
    BY <2>1, <2>6, NewProcess
  <2>7. CASE UNCHANGED vars
    BY <2>7 DEF vars, links, l2vars
  <2> QED  BY <2>5, <2>6, <2>7 DEF Next
<1>3. Init => Present
  BY DEF Init
<1>4. I /\ I' /\ Present /\ [Next]_vars => [A]_vars
  <2> SUFFICES ASSUME I, I', Present, [Next]_vars, NEW b \in Bundles,
                      vlans_bmp' = vlans_bmp, cfg'[b] = cfg[b],
                      ~(b \in bundles /\ b \notin bundles')
               PROVE  asic'[b] = asic[b]
    OBVIOUS
  <2>1. ASSUME Intact, Intact'
        PROVE  asic'[b] = asic[b]
    <3>1. /\ asic[b] = IF b \in Switched THEN Program(cfg[b], vlans_bmp) ELSE NoPort
          /\ asic'[b] = IF b \in Switched' THEN Program(cfg[b], vlans_bmp) ELSE NoPort
      BY <2>1 DEF AsicInv, Asic, AsicExact
    <3>2. CASE b \in Switched <=> b \in Switched'
      BY <3>1, <3>2
    <3>3. CASE b \notin Switched /\ b \in Switched'
      <4>1. b \notin bundles
        BY <3>3 DEF Switched
      <4>2. cfg[b] = InitCfg
        BY <2>1, <4>1 DEF AsicInv, Asic, AddedTells
      <4> QED  BY <3>1, <3>3, <4>2, FreshNotProgrammed DEF TypeOK
    <3> QED  BY <3>2, <3>3 DEF Switched
  <2>2. ASSUME NEW c \in Bundles, NEW s \in Requests(c), bundle_set_steals(c, s)
        PROVE  asic'[b] = asic[b]
    BY <2>2 DEF bundle_set_steals, l2vars
  <2>3. ASSUME NEW c \in Bundles, NEW s \in Requests(c), bundle_set_withdraws(c, s)
        PROVE  asic'[b] = asic[b]
    BY <2>3, WithdrawsAsic
  <2>4. ASSUME NEW p \in Ports, port_dealloc(p)
        PROVE  asic'[b] = asic[b]
    BY <2>4 DEF port_dealloc, l2vars
  <2>5. CASE Handler
    BY <2>1, <2>2, <2>3, <2>4, <2>5, HandlerIntact, HandlerKeepsIntact DEF BreaksBond
  <2>6. CASE Boot \/ Crash
    BY <2>6, NewProcess DEF Fresh
  <2>7. CASE UNCHANGED vars
    BY <2>7 DEF vars, l2vars
  <2> QED  BY <2>5, <2>6, <2>7 DEF Next
<1> QED  BY <1>1, <1>2, <1>3, <1>4, PTL DEF Spec, AsicIsolation

-----------------------------------------------------------------------------
(* VLAN interfaces and the trunks of the bridge port                       *)

(* The trunks are the bitmap; an interface's VLAN has its bit unless two   *)
(* interfaces had it; a bit is of an interface or stale; two interfaces    *)
(* with one VLAN are recorded.                                             *)
VlansTell ==
    /\ brTrunks = vlan_intf_bmp \ {4095}
    /\ \A i \in Interfaces : cfg[i].vlan \in vlan_intf_bmp \cup shared
    /\ \A v \in vlan_intf_bmp : v \in stale \/ Having(v) # {}
    /\ \A i, j \in Interfaces : i # j /\ cfg[i].vlan = cfg[j].vlan => cfg[i].vlan \in shared

VlansInv == Intact => VlansTell

(* A VLAN that two interfaces have after a step, or that was recorded and  *)
(* one still has, is recorded.                                             *)
LEMMA SharedRecorded ==
    ASSUME History
    PROVE  /\ \A i, j \in Interfaces' : i # j /\ cfg'[i].vlan = cfg'[j].vlan
                                          => cfg'[i].vlan \in shared'
           /\ \A i \in Interfaces' : cfg'[i].vlan \in shared => cfg'[i].vlan \in shared'
<1>1. \A i \in Interfaces' : \A v : cfg'[i].vlan = v => Having(v)' # {}
  BY DEF Having
<1>2. \A i, j \in Interfaces' : i # j /\ cfg'[i].vlan = cfg'[j].vlan
                                => cfg'[i].vlan \in MetVlans
  BY DEF MetVlans
<1> QED  BY <1>1, <1>2 DEF History

(* No interface comes, goes or is given another VLAN.                      *)
LEMMA VlansKept ==
    ASSUME VlansTell, History, UNCHANGED <<routing, Interfaces>>,
           \A i \in Interfaces : cfg'[i].vlan = cfg[i].vlan
    PROVE  VlansTell'
<1>1. \A v : Having(v)' = Having(v)
  BY DEF Having
<1>2. \A v \in vlan_intf_bmp : v \in stale => v \in stale'
  BY DEF History, routing
<1> QED  BY <1>1, <1>2, SharedRecorded DEF VlansTell, routing

(* Destroying an interface clears the bit of its VLAN; another one with    *)
(* that VLAN is left without.                                              *)
LEMMA DestroyVlans ==
    ASSUME ~MayFail, ~Vrf, TypeOK, FlagsTell, VlansTell, History,
           NEW b \in Bundles, bundle_destroy(b)
    PROVE  VlansTell'
<1>1. /\ bundles' = bundles \ {b}
      /\ \A i \in Bundles \ {b} : cfg'[i] = cfg[i]
      /\ sim_bridge_vlan_routing_update(vlan_intf_bmp \
            {cfg[c].vlan : c \in {b} \cap is_vlan_routing_enabled})
  BY DEF bundle_destroy, DestroyState
<1>2. b \in is_vlan_routing_enabled <=> b \in Interfaces
  BY DEF FlagsTell, Interfaces
<1>3. Interfaces' = Interfaces \ {b} /\ Interfaces \subseteq Bundles
  BY <1>1 DEF Interfaces, TypeOK
<1>4. CASE b \notin Interfaces
  <2>1. UNCHANGED <<routing, Interfaces>>
    BY <1>1, <1>2, <1>3, <1>4 DEF sim_bridge_vlan_routing_update, routing
  <2>2. \A i \in Interfaces : cfg'[i].vlan = cfg[i].vlan
    BY <1>1, <1>3, <1>4
  <2> QED  BY <2>1, <2>2, VlansKept
<1>5. CASE b \in Interfaces
  <2> DEFINE w == cfg[b].vlan
  <2>1. {cfg[c].vlan : c \in {b} \cap is_vlan_routing_enabled} = {w}
    BY <1>2, <1>5
  <2>2. vlan_intf_bmp' = vlan_intf_bmp \ {w} /\ brTrunks' = vlan_intf_bmp' \ {4095}
    BY <1>1, <2>1 DEF sim_bridge_vlan_routing_update, VlansTell
  <2>3. \A i \in Interfaces' : i \in Interfaces /\ i # b /\ cfg'[i].vlan = cfg[i].vlan
    BY <1>1, <1>3
  <2>4. \A i \in Interfaces' : cfg'[i].vlan \in vlan_intf_bmp' \cup shared'
    BY <1>5, <2>2, <2>3, SharedRecorded DEF VlansTell
  <2>5. ASSUME NEW v \in vlan_intf_bmp'
        PROVE  v \in stale' \/ Having(v)' # {}
    <3>1. v \in vlan_intf_bmp /\ v # w
      BY <2>2, <2>5
    <3>2. CASE v \in stale
      BY <2>5, <3>2 DEF History
    <3>3. CASE Having(v) # {}
      <4>1. PICK j \in Interfaces : cfg[j].vlan = v
        BY <3>3 DEF Having
      <4>2. j \in Interfaces' /\ cfg'[j].vlan = v
        BY <1>3, <2>3, <3>1, <4>1
      <4> QED  BY <4>2 DEF Having
    <3> QED  BY <3>1, <3>2, <3>3 DEF VlansTell
  <2> QED  BY <2>2, <2>4, <2>5, SharedRecorded DEF VlansTell
<1> QED  BY <1>4, <1>5

(* Setting an interface sets the bit of its VLAN and leaves the one of the *)
(* VLAN it had, which becomes stale.                                       *)
LEMMA RoutingVlans ==
    ASSUME ~MayFail, ~Vrf, TypeOK, Intact, Shape, VlansTell, History,
           NEW b \in Bundles, NEW s \in Requests(b), bundle_set_routing(b, s)
    PROVE  VlansTell'
<1> DEFINE w == s.set.vlan
<1>1. b \in Intf /\ Losers(b, s) = {}
  BY LosersFacts DEF bundle_set_routing
<1>2. bundles' = bundles \cup {b}
  BY <1>1, LinksShape DEF bundle_set_routing
<1>3. Interfaces' = Interfaces \cup {b} /\ Interfaces \subseteq Bundles
  BY <1>1, <1>2 DEF Interfaces, TypeOK
<1>4. cfg'[b].vlan = w /\ \A i \in Interfaces \ {b} : cfg'[i].vlan = cfg[i].vlan
  <2>1. cfg[b] \in BundleCfg
    BY DEF TypeOK
  <2> QED  BY <1>3, <2>1 DEF bundle_set_routing, TypeOK, BundleCfg, Setting
<1>5. vlan_intf_bmp' = vlan_intf_bmp \cup {w} /\ brTrunks' = vlan_intf_bmp' \ {4095}
  BY DEF bundle_set_routing, sim_bridge_vlan_routing_update, VlansTell
<1> HIDE DEF w
<1>6. \A i \in Interfaces' : cfg'[i].vlan \in vlan_intf_bmp' \cup shared'
  BY <1>3, <1>4, <1>5, SharedRecorded DEF VlansTell
<1>7. ASSUME NEW v \in vlan_intf_bmp'
      PROVE  v \in stale' \/ Having(v)' # {}
  <2>1. CASE v = w
    BY <1>3, <1>4, <2>1 DEF Having
  <2>2. CASE v # w /\ v \in stale
    BY <1>7, <2>2 DEF History
  <2>3. CASE v # w /\ Having(v) # {}
    <3>1. PICK j \in Interfaces : cfg[j].vlan = v
      BY <2>3 DEF Having
    <3>2. CASE j # b
      BY <1>3, <1>4, <3>1, <3>2 DEF Having
    <3>3. CASE j = b
      <4>1. v \in LeftVlans
        BY <1>2, <1>4, <2>3, <3>1, <3>3 DEF LeftVlans
      <4> QED  BY <1>7, <4>1 DEF History
    <3> QED  BY <3>2, <3>3
  <2> QED  BY <1>5, <1>7, <2>1, <2>2, <2>3 DEF VlansTell
<1> QED  BY <1>5, <1>6, <1>7, SharedRecorded DEF VlansTell

LEMMA VlansStep ==
    ASSUME ~MayFail, ~Vrf, TypeOK, ShapeInv, VlansInv, [VlanNext]_vlanvars
    PROVE  VlansInv'
<1> SUFFICES ASSUME Intact'
             PROVE  VlansTell'
  BY DEF VlansInv
<1>1. CASE Handler /\ VlanNext
  <2>1. Intact /\ Shape /\ FlagsTell /\ VlansTell /\ History
    BY <1>1, HandlerIntact DEF ShapeInv, VlansInv, VlanNext, History
  <2>2. ASSUME NEW b \in Bundles, bundle_set_null(b)
        PROVE  VlansTell'
    BY <2>1, <2>2, DestroyVlans DEF bundle_set_null
  <2>3. ASSUME NEW b \in Bundles, NEW s \in Requests(b), bundle_set(b, s)
        PROVE  VlansTell'
    <3>1. CASE bundle_set_empty(b, s)
      BY <2>1, <2>3, <3>1, DestroyVlans DEF bundle_set_empty
    <3>2. CASE bundle_set_steals(b, s) \/ bundle_set_withdraws(b, s)
      BY <2>3, <3>2, StealsBreaks, WithdrawsBreaks
    <3>3. CASE bundle_set_routing(b, s)
      BY <2>1, <2>3, <3>3, RoutingVlans
    <3>4. CASE bundle_set_no_program(b, s) \/ bundle_set_program(b, s)
      <4>1. /\ Losers(b, s) \cap (Intf \cup {Bridge}) = {} /\ b \notin Intf
            /\ bundles' = (bundles \ Losers(b, s)) \cup {b}
            /\ UNCHANGED routing
        BY <2>1, <2>3, <3>4, LosersFacts, LinksShape
           DEF bundle_set_no_program, bundle_set_program
      <4>2. \A i \in Bundles : i # b /\ i \notin Losers(b, s) => cfg'[i] = cfg[i]
        BY <2>3, <3>4 DEF bundle_set_no_program, bundle_set_program, ResetLosers
      <4>3. Interfaces' = Interfaces /\ \A i \in Interfaces : cfg'[i].vlan = cfg[i].vlan
        BY <4>1, <4>2 DEF Interfaces, TypeOK
      <4> QED  BY <2>1, <4>1, <4>3, VlansKept
    <3> QED  BY <2>3, <3>1, <3>2, <3>3, <3>4 DEF bundle_set
  <2>4. ASSUME UNCHANGED <<bundles, cfg, routing>>
        PROVE  VlansTell'
    BY <2>1, <2>4, VlansKept DEF Interfaces
  <2>5. ASSUME NEW p \in Ports, bundle_remove(p)
        PROVE  VlansTell'
    <3>1. bundle[p] \in Bundles
      BY <2>5 DEF bundle_remove, TypeOK
    <3> QED  BY <2>1, <2>4, <2>5, <3>1, DestroyVlans DEF bundle_remove, links, l2vars
  <2>6. ASSUME NEW p \in Ports, port_alloc(p) \/ port_dealloc(p)
        PROVE  VlansTell'
    BY <2>4, <2>6 DEF port_alloc, port_dealloc, links, l2vars
  <2>7. ASSUME NEW v \in Vlans, NEW add \in BOOLEAN, set_vlan(v, add)
        PROVE  VlansTell'
    BY <2>4, <2>7 DEF set_vlan, links
  <2> QED  BY <1>1, <2>2, <2>3, <2>5, <2>6, <2>7 DEF Handler
<1>2. CASE Boot \/ Crash
  <2>1. Interfaces' = {} /\ vlan_intf_bmp' = {} /\ brTrunks' = {}
    BY <1>2, NewProcess DEF Fresh, Interfaces
  <2> QED  BY <2>1 DEF VlansTell
<1>3. CASE UNCHANGED vlanvars
  <2>1. UNCHANGED <<links, cfg, routing, ofports, stale, shared, Interfaces>>
    BY <1>3 DEF vlanvars, vars, l2vars, links, Interfaces
  <2>2. Intact /\ \A v : Having(v)' = Having(v)
    BY <2>1 DEF Intact, ListMatchesPointer, NoDanglingBundle, NoFreedMember, links, Having
  <2>3. VlansTell
    BY <2>2 DEF VlansInv
  <2> QED  BY <2>1, <2>2, <2>3 DEF VlansTell, routing
<1> QED  BY <1>1, <1>2, <1>3 DEF VlanNext, Next

(* While commands succeed, the trunks of the bridge port follow the VLAN   *)
(* interfaces of a bridge, with any number of them and any VLANs, through  *)
(* changes of VLAN and restarts, up to the two things that the code loses  *)
(* track of: a VLAN that an interface had before, and one that two had.    *)
THEOREM TrunksCorrect ==
    ASSUME ~MayFail, ~Vrf
    PROVE  VlanSpec => []TrunksFollowInterfaces
<1>1. VlanInit => VlansInv
  BY DEF VlanInit, Init, VlansInv, VlansTell, Interfaces
<1>2. VlanSpec => Spec
  <2>1. [VlanNext]_vlanvars => [Next]_vars
    BY DEF VlanNext, vlanvars
  <2>2. VlanInit => Init
    BY DEF VlanInit
  <2> QED  BY <2>1, <2>2, PTL DEF VlanSpec, Spec
<1>3. TypeOK /\ ShapeInv /\ VlansInv /\ [VlanNext]_vlanvars => VlansInv'
  BY VlansStep
<1>4. VlansInv => TrunksFollowInterfaces
  BY DEF VlansInv, VlansTell, TrunksFollowInterfaces
<1> QED  BY <1>1, <1>2, <1>3, <1>4, TypeCorrect, ShapeCorrect, PTL DEF VlanSpec

-----------------------------------------------------------------------------
(* When commands fail                                                      *)

(* A bundle that is added exists, and has a port.                          *)
AddedThere ==
    /\ is_added_to_sim_ovs \subseteq bundles
    /\ \A b \in is_added_to_sim_ovs : asic[b] # NoPort

(* The port of a bundle whose kind is switched; it may be left over from a *)
(* bundle whose del-port failed.                                           *)
OnlySwitched ==
    \A b \in Bundles : asic[b] # NoPort => ~Vrf /\ b \notin Intf \cup {Bridge}

PortsBlocked ==
    \A b \in Bundles :
        asic[b] # NoPort => \/ ports[b] \subseteq iptable_rules_added
                            \/ b \in Lags /\ Cardinality(ports[b]) = 1

FailInv == Intact => AddedThere /\ OnlySwitched /\ PortsBlocked

(* bundle_configure with failing commands: what is programmed is a bundle  *)
(* of C or was there; a bundle of C for which add-port works is there      *)
(* afterwards; and the others are left alone but for the members of bonds. *)
LEMMA ReprogramFails ==
    ASSUME NEW a, NEW pt, NEW cf, NEW v, NEW C, NEW Fd, NEW Fa, NEW n \in Bundles
    PROVE  LET r == Reprogram(a, pt, cf, v, C, Fd, Fa)[n]
           IN  /\ r # NoPort => a[n] # NoPort \/ n \in C
               /\ n \in C \ Fa /\ Program(cf[n], v) # NoPort => r # NoPort
               /\ n \notin C /\ (\A c \in C : Cardinality(pt[c]) > 1 => n \notin pt[c])
                  => r = a[n]
<1> DEFINE members == UNION {pt[b] : b \in {c \in C : Cardinality(pt[c]) > 1}}
           deleted == ((C \cap is_added_to_sim_ovs) \cup members) \ Fd
           left    == DelPort(a, deleted)
<1>1. Reprogram(a, pt, cf, v, C, Fd, Fa)[n] =
         IF n \in C \ Fa /\ left[n] = NoPort THEN Program(cf[n], v) ELSE left[n]
  BY DEF Reprogram
<1>2. left[n] = IF n \in deleted THEN NoPort ELSE a[n]
  BY DEF DelPort
<1>3. n \in deleted => n \in C \/ \E c \in C : Cardinality(pt[c]) > 1 /\ n \in pt[c]
  OBVIOUS
<1> HIDE DEF members, deleted, left
<1> QED  BY <1>1, <1>2, <1>3

LEMMA DestroyFails ==
    ASSUME TypeOK, Intact, AddedThere, OnlySwitched, PortsBlocked, NEW b \in Bundles,
           bundle_destroy(b)
    PROVE  AddedThere' /\ OnlySwitched' /\ PortsBlocked'
<1>1. PICK F : asic' = DelPort(asic, ({b} \cap is_added_to_sim_ovs) \ F)
  BY DEF bundle_destroy, DestroyState
<1>2. \A n \in Bundles : /\ asic'[n] # NoPort => asic[n] # NoPort
                         /\ n # b => asic'[n] = asic[n]
  BY <1>1 DEF DelPort
<1>3. /\ is_added_to_sim_ovs' = is_added_to_sim_ovs \ {b}
      /\ bundles' = bundles \ {b}
      /\ iptable_rules_added' = iptable_rules_added \ ports[b]
      /\ \A n \in Bundles : ports'[n] = IF n = b THEN {} ELSE ports[n]
  BY DEF bundle_destroy, DestroyState, UpdateRules, TypeOK
<1>4. AddedThere'
  BY <1>2, <1>3 DEF AddedThere, TypeOK
<1>5. OnlySwitched'
  BY <1>2 DEF OnlySwitched
<1>6. PortsBlocked'
  <2> SUFFICES ASSUME NEW n \in Bundles, asic'[n] # NoPort
               PROVE  \/ ports'[n] \subseteq iptable_rules_added'
                      \/ n \in Lags /\ Cardinality(ports'[n]) = 1
    BY DEF PortsBlocked
  <2>1. CASE n = b
    BY <1>3, <2>1
  <2>2. CASE n # b
    <3>1. ports[n] \cap ports[b] = {}
      BY <2>2 DEF Intact, ListMatchesPointer, TypeOK
    <3> QED  BY <1>2, <1>3, <2>2, <3>1 DEF PortsBlocked
  <2> QED  BY <2>1, <2>2
<1> QED  BY <1>4, <1>5, <1>6

(* The ports of the bundles other than b that keep theirs are not released *)
(* by a bundle_set of b.                                                   *)
LEMMA OthersKeepPorts ==
    ASSUME TypeOK, Intact, Shape, NEW b \in Bundles, NEW s \in Requests(b), Links(b, s),
           NEW n \in Bundles, n # b
    PROVE  /\ n \in Losers(b, s) => ports'[n] = {}
           /\ n \notin Losers(b, s) =>
                 ports'[n] = ports[n] /\ ports[n] \cap Released(b, s) = {}
<1>1. ports'[n] = IF n \in Losers(b, s) THEN {} ELSE ports[n]
  BY DEF Links, Relink
<1>2. ASSUME n \notin Losers(b, s), NEW p \in ports[n] \cap Released(b, s)
      PROVE  FALSE
  <2>1. p \in Ports /\ bundle[p] = n
    BY <1>2 DEF Intact, ListMatchesPointer, TypeOK
  <2>2. PICK c \in Losers(b, s) \cup {b} : p \in ports[c]
    BY <1>2 DEF Released
  <2>3. c \in Bundles
    BY <2>2, LosersFacts DEF TypeOK
  <2> QED  BY <1>2, <2>1, <2>2, <2>3 DEF Intact, ListMatchesPointer
<1> QED  BY <1>1, <1>2

LEMMA AtMostOne ==
    ASSUME NEW X, IsFiniteSet(X), Cardinality(X) <= 1, NEW S \in SUBSET X, S # {}
    PROVE  Cardinality(S) = 1
<1>1. IsFiniteSet(S) /\ Cardinality(S) <= Cardinality(X)
  BY FS_Subset
<1>2. Cardinality(S) \in Nat /\ Cardinality(X) \in Nat /\ Cardinality(S) # 0
  BY <1>1, FS_CardinalityType, FS_EmptySet
<1> QED  BY <1>1, <1>2

LEMMA NoProgramFails ==
    ASSUME TypeOK, Intact, Shape, AddedThere, OnlySwitched, PortsBlocked,
           NEW b \in Bundles, NEW s \in Requests(b), bundle_set_no_program(b, s)
    PROVE  AddedThere' /\ OnlySwitched' /\ PortsBlocked'
<1> DEFINE gone == Losers(b, s)
<1>1. Links(b, s) /\ b \notin gone
  BY LosersFacts DEF bundle_set_no_program
<1>2. PICK F : asic' = DestroyLosers(b, s, F)
  BY DEF bundle_set_no_program
<1>3. \A n \in Bundles : /\ asic'[n] # NoPort => asic[n] # NoPort
                         /\ n \notin gone => asic'[n] = asic[n]
  BY <1>2 DEF DestroyLosers, DelPort
<1>4. /\ is_added_to_sim_ovs' = is_added_to_sim_ovs \ gone
      /\ bundles' = (bundles \ gone) \cup {b}
      /\ iptable_rules_added' = iptable_rules_added \ Released(b, s)
      /\ ports'[b] = Found(s)
  BY <1>1, LinksShape DEF bundle_set_no_program, UpdateRules, Links, Relink
<1> HIDE DEF gone
<1>5. AddedThere'
  BY <1>3, <1>4 DEF AddedThere, TypeOK
<1>6. OnlySwitched'
  BY <1>3 DEF OnlySwitched
<1>7. ASSUME NEW n \in Bundles, asic'[n] # NoPort
      PROVE  \/ ports'[n] \subseteq iptable_rules_added'
             \/ n \in Lags /\ Cardinality(ports'[n]) = 1
  <2>1. CASE n = b
    <3>1. ~Vrf /\ b # Bridge
      BY <1>3, <1>7, <2>1 DEF OnlySwitched
    <3>2. s.many /\ Cardinality(s.slaves) <= 1 /\ b \in Lags
      BY <3>1, RequestType DEF bundle_set_no_program, ReturnsEarly
    <3>3. IsFiniteSet(s.slaves)
      BY <3>2, RequestType, FiniteAssumption, FS_Subset
    <3>4. Cardinality(Found(s)) = 1
      BY <1>1, <3>2, <3>3, AtMostOne DEF Links, Found
    <3> QED  BY <1>4, <2>1, <3>2, <3>4
  <2>2. CASE n # b /\ n \in gone
    BY <1>1, <2>2, OthersKeepPorts DEF gone
  <2>3. CASE n # b /\ n \notin gone
    <3>1. ports'[n] = ports[n] /\ ports[n] \cap Released(b, s) = {}
      BY <1>1, <2>3, OthersKeepPorts DEF gone
    <3> QED  BY <1>3, <1>4, <1>7, <2>3, <3>1 DEF PortsBlocked
  <2> QED  BY <2>1, <2>2, <2>3
<1> QED  BY <1>5, <1>6, <1>7 DEF PortsBlocked

LEMMA ProgramFails ==
    ASSUME TypeOK, Intact, Shape, AddedThere, OnlySwitched, PortsBlocked,
           NEW b \in Bundles, NEW s \in Requests(b), bundle_set_program(b, s)
    PROVE  AddedThere' /\ OnlySwitched' /\ PortsBlocked'
<1> DEFINE gone == Losers(b, s)
           cf   == [ResetLosers(b, s) EXCEPT ![b] = CopySettings(s.set)]
<1>1. /\ Links(b, s) /\ b \notin gone /\ gone \subseteq bundles
      /\ b \notin Intf /\ b # Bridge /\ ~Vrf
  BY LosersFacts DEF bundle_set_program, ReturnsEarly
<1>2. /\ bundles' = (bundles \ gone) \cup {b}
      /\ iptable_rules_added' = (iptable_rules_added \ Released(b, s)) \cup Found(s)
      /\ ports'[b] = Found(s)
  BY <1>1, LinksShape DEF bundle_set_program, UpdateRules, Links, Relink
<1>3. PICK F, Fd, Fa :
         /\ asic' = Reprogram(DestroyLosers(b, s, F), ports', cf, vlans_bmp, {b}, Fd, Fa)
         /\ is_added_to_sim_ovs' = Added(cf, vlans_bmp, {b}, Fa) \ gone
  BY DEF bundle_set_program
<1> DEFINE a == DestroyLosers(b, s, F)
<1>4. \A n \in Bundles : /\ a[n] # NoPort => asic[n] # NoPort
                         /\ n \notin gone => a[n] = asic[n]
  BY DEF DestroyLosers, DelPort
<1> HIDE DEF cf, a
<1>5. ASSUME NEW n \in Bundles
      PROVE  /\ asic'[n] # NoPort => asic[n] # NoPort \/ n = b
             /\ n = b /\ b \notin Fa /\ Program(cf[b], vlans_bmp) # NoPort => asic'[n] # NoPort
             /\ n # b /\ n \notin gone /\ n \notin Found(s) => asic'[n] = asic[n]
  <2>1. /\ asic'[n] # NoPort => a[n] # NoPort \/ n \in {b}
        /\ n \in {b} \ Fa /\ Program(cf[n], vlans_bmp) # NoPort => asic'[n] # NoPort
        /\ n \notin {b} /\ (\A c \in {b} : Cardinality(ports'[c]) > 1 => n \notin ports'[c])
           => asic'[n] = a[n]
    BY <1>3, ReprogramFails DEF a
  <2> QED  BY <1>2, <1>4, <2>1
<1>6. \A n \in is_added_to_sim_ovs' :
         \/ n = b /\ b \notin Fa /\ Program(cf[b], vlans_bmp) # NoPort
         \/ n \in is_added_to_sim_ovs /\ n # b /\ n \notin gone
  BY <1>3 DEF Added
<1>7. AddedThere'
  <2> SUFFICES ASSUME NEW n \in is_added_to_sim_ovs'
               PROVE  n \in bundles' /\ asic'[n] # NoPort
    BY DEF AddedThere
  <2>1. n \in Bundles
    BY <1>6 DEF TypeOK
  <2>2. CASE n = b /\ b \notin Fa /\ Program(cf[b], vlans_bmp) # NoPort
    BY <1>2, <1>5, <2>1, <2>2
  <2>3. CASE n \in is_added_to_sim_ovs /\ n # b /\ n \notin gone
    <3>1. n \in bundles /\ asic[n] # NoPort
      BY <2>3 DEF AddedThere
    <3>2. n \notin Found(s)
      <4>1. ASSUME n \in Found(s)
            PROVE  n \in Ports /\ n \notin Lags
        BY <2>3, <4>1, RequestType, NamesAssumption DEF Found, Ports
      <4>2. ASSUME n \in Found(s)
            PROVE  bundle[n] = n
        BY <2>1, <3>1, <4>1, <4>2 DEF Shape, Intact, ListMatchesPointer
      <4> QED  BY <2>1, <2>3, <4>2, ConstantsAssumption DEF Losers
    <3> QED  BY <1>2, <1>5, <2>1, <2>3, <3>1, <3>2
  <2> QED  BY <1>6, <2>2, <2>3
<1>8. OnlySwitched'
  BY <1>1, <1>5 DEF OnlySwitched
<1>9. ASSUME NEW n \in Bundles, asic'[n] # NoPort
      PROVE  \/ ports'[n] \subseteq iptable_rules_added'
             \/ n \in Lags /\ Cardinality(ports'[n]) = 1
  <2>1. CASE n = b
    BY <1>2, <2>1
  <2>2. CASE n # b /\ n \in gone
    BY <1>1, <2>2, OthersKeepPorts
  <2>3. CASE n # b /\ n \notin gone
    <3>1. ports'[n] = ports[n] /\ ports[n] \cap Released(b, s) = {}
      BY <1>1, <2>3, OthersKeepPorts
    <3> QED  BY <1>2, <1>5, <1>9, <2>3, <3>1 DEF PortsBlocked
  <2> QED  BY <2>1, <2>2, <2>3
<1> QED  BY <1>7, <1>8, <1>9 DEF PortsBlocked

LEMMA RoutingFails ==
    ASSUME TypeOK, Intact, Shape, AddedThere, OnlySwitched, PortsBlocked,
           NEW b \in Bundles, NEW s \in Requests(b), bundle_set_routing(b, s)
    PROVE  AddedThere' /\ OnlySwitched' /\ PortsBlocked'
<1>1. /\ Links(b, s) /\ Losers(b, s) = {} /\ b \in Intf
      /\ UNCHANGED <<is_added_to_sim_ovs, asic, iptable_rules_added>>
  BY LosersFacts DEF bundle_set_routing, rules
<1>2. bundles' = bundles \cup {b}
  BY <1>1, LinksShape
<1>3. AddedThere' /\ OnlySwitched'
  BY <1>1, <1>2 DEF AddedThere, OnlySwitched
<1>4. \A n \in Bundles : n # b => ports'[n] = ports[n]
  BY <1>1, OthersKeepPorts
<1>5. PortsBlocked'
  BY <1>1, <1>4 DEF PortsBlocked, OnlySwitched
<1> QED  BY <1>3, <1>5

LEMMA SetVlanFails ==
    ASSUME TypeOK, Intact, Shape, FlagsTell, AddedThere, OnlySwitched, PortsBlocked,
           NEW vid \in Vlans, NEW add \in BOOLEAN, set_vlan(vid, add)
    PROVE  AddedThere' /\ OnlySwitched' /\ PortsBlocked'
<1>1. UNCHANGED <<bundles, ports, cfg>>
  BY DEF set_vlan, links
<1>2. CASE Vrf
  BY <1>1, <1>2 DEF set_vlan, rules, AddedThere, OnlySwitched, PortsBlocked
<1>3. CASE ~Vrf
  <2>1. bundles \ (is_vlan_routing_enabled \cup is_bridge_bundle) = Switched
    BY <1>3 DEF FlagsTell, Switched
  <2>2. PICK Fd, Fa :
           /\ asic' = Reprogram(asic, ports, cfg, vlans_bmp', Switched, Fd, Fa)
           /\ is_added_to_sim_ovs' = Added(cfg, vlans_bmp', Switched, Fa)
    BY <1>3, <2>1 DEF set_vlan, bundle_set_reconfigure
  <2>3. iptable_rules_added' = iptable_rules_added \cup UNION {ports[b] : b \in Switched}
    BY <1>3, <2>1 DEF set_vlan, bundle_set_reconfigure, UpdateRules
  <2>4. ASSUME NEW n \in Bundles
        PROVE  /\ asic'[n] # NoPort => asic[n] # NoPort \/ n \in Switched
               /\ n \in Switched \ Fa /\ Program(cfg[n], vlans_bmp') # NoPort => asic'[n] # NoPort
               /\ n \notin Switched
                  /\ (\A c \in Switched : Cardinality(ports[c]) > 1 => n \notin ports[c])
                  => asic'[n] = asic[n]
    BY <2>2, ReprogramFails
  <2>5. ASSUME NEW c \in Switched, Cardinality(ports[c]) > 1, NEW m \in ports[c]
        PROVE  m \notin bundles
    <3>1. c \in Bundles /\ c \in Lags
      <4>1. c \in Bundles
        BY <2>5 DEF Switched, TypeOK
      <4>2. c \notin Lags => ports[c] \subseteq {c}
        BY <4>1 DEF Shape
      <4> QED  BY <2>5, <4>1, <4>2, BondsAreLags
    <3> QED  BY <2>5, <3>1, MembersAreNoBundles
  <2>6. AddedThere'
    <3> SUFFICES ASSUME NEW n \in is_added_to_sim_ovs'
                 PROVE  n \in bundles' /\ asic'[n] # NoPort
      BY DEF AddedThere
    <3>1. \/ n \in Switched \ Fa /\ Program(cfg[n], vlans_bmp') # NoPort
          \/ n \in is_added_to_sim_ovs /\ n \notin Switched
      BY <2>2 DEF Added
    <3>2. n \in Bundles /\ n \in bundles
      BY <3>1 DEF Switched, AddedThere, TypeOK
    <3> QED  BY <1>1, <2>4, <2>5, <3>1, <3>2 DEF AddedThere
  <2>7. OnlySwitched'
    BY <1>3, <2>4 DEF OnlySwitched, Switched
  <2>8. PortsBlocked'
    BY <1>1, <2>3, <2>4 DEF PortsBlocked
  <2> QED  BY <2>6, <2>7, <2>8
<1> QED  BY <1>2, <1>3

LEMMA FailStep ==
    ASSUME TypeOK, ShapeInv, FailInv, [Next]_vars
    PROVE  FailInv'
<1> DEFINE P == AddedThere /\ OnlySwitched /\ PortsBlocked
<1> SUFFICES ASSUME Intact'
             PROVE  P'
  BY DEF FailInv
<1>1. CASE Handler
  <2>1. Intact /\ Shape /\ FlagsTell /\ AddedThere /\ OnlySwitched /\ PortsBlocked
    BY <1>1, HandlerIntact DEF ShapeInv, FailInv
  <2>2. ASSUME NEW b \in Bundles, bundle_set_null(b)
        PROVE  P'
    BY <2>1, <2>2, DestroyFails DEF bundle_set_null
  <2>3. ASSUME NEW b \in Bundles, NEW s \in Requests(b), bundle_set(b, s)
        PROVE  P'
    <3>1. CASE bundle_set_empty(b, s)
      BY <2>1, <2>3, <3>1, DestroyFails DEF bundle_set_empty
    <3>2. CASE bundle_set_steals(b, s) \/ bundle_set_withdraws(b, s)
      BY <2>3, <3>2, StealsBreaks, WithdrawsBreaks
    <3> QED  BY <2>1, <2>3, <3>1, <3>2, NoProgramFails, RoutingFails, ProgramFails
             DEF bundle_set
  <2>4. ASSUME UNCHANGED <<links, l2vars, rules>>
        PROVE  P'
    BY <2>1, <2>4 DEF links, l2vars, rules, AddedThere, OnlySwitched, PortsBlocked
  <2>5. ASSUME NEW p \in Ports, bundle_remove(p)
        PROVE  P'
    <3>1. bundle[p] \in Bundles
      BY <2>5 DEF bundle_remove, TypeOK
    <3> QED  BY <2>1, <2>4, <2>5, <3>1, DestroyFails DEF bundle_remove
  <2>6. ASSUME NEW p \in Ports, port_alloc(p) \/ port_dealloc(p)
        PROVE  P'
    BY <2>4, <2>6 DEF port_alloc, port_dealloc
  <2>7. ASSUME NEW v \in Vlans, NEW add \in BOOLEAN, set_vlan(v, add)
        PROVE  P'
    BY <2>1, <2>7, SetVlanFails
  <2> HIDE DEF P
  <2> QED  BY <1>1, <2>2, <2>3, <2>5, <2>6, <2>7 DEF Handler
<1>2. CASE Boot \/ Crash
  BY <1>2, NewProcess DEF Fresh, AddedThere, OnlySwitched, PortsBlocked
<1>3. CASE UNCHANGED vars
  <2>1. Intact
    BY <1>3 DEF Intact, ListMatchesPointer, NoDanglingBundle, NoFreedMember, vars, links
  <2> QED  BY <1>3, <2>1 DEF FailInv, vars, links, l2vars, rules, AddedThere,
           OnlySwitched, PortsBlocked
<1> QED  BY <1>1, <1>2, <1>3 DEF Next

LEMMA FailInvCorrect == Spec => []FailInv
<1>1. Init => FailInv
  BY DEF Init, FailInv, AddedThere, OnlySwitched, PortsBlocked
<1>2. TypeOK /\ ShapeInv /\ FailInv /\ [Next]_vars => FailInv'
  BY FailStep
<1> QED  BY <1>1, <1>2, TypeCorrect, ShapeCorrect, PTL DEF Spec

(* Whichever commands fail, in whatever order, the flag of a bundle never  *)
(* claims a port that the ASIC OVS does not have.                          *)
THEOREM AddedCorrect == Spec => []AddedIsPresent
<1>1. FailInv => AddedIsPresent
  BY DEF FailInv, AddedThere, AddedIsPresent
<1> QED  BY <1>1, FailInvCorrect, PTL

(* Whichever commands fail, the kernel sees no packet of a port that the   *)
(* ASIC OVS switches, but for a LAG that went down to one slave.           *)
THEOREM SwitchedBlocked == Spec => []SwitchedPortsBlocked
<1>1. FailInv => SwitchedPortsBlocked
  BY DEF FailInv, PortsBlocked, SwitchedPortsBlocked
<1> QED  BY <1>1, FailInvCorrect, PTL

-----------------------------------------------------------------------------
(* The bridge is an L2Switch                                               *)

(* What add-port writes carries the frames that the settings ask for.      *)
LEMMA ProgramCarries ==
    ASSUME NEW c \in BundleCfg, NEW v \in SUBSET Vlans
    PROVE  Frames(Program(c, v)) = Switch!Wire(c, v)
<1> DEFINE p == Program(c, v)
<1>1. c.vlan_mode \in Modes
  BY DEF BundleCfg, Setting
<1>2. p = NoPort \/ p \in AsicPort
  BY ProgramType
<1>3. Frames(NoPort) = {}
  BY DEF Frames
<1>4. CASE c.vlan_mode # "trunk" /\ c.vlan \notin v
  <2>1. p = NoPort
    BY <1>4 DEF Program
  <2>2. {c.vlan} \cap v = {}
    BY <1>4
  <2>3. Switch!Wire(c, v) = {}
    BY <1>1, <1>4, <2>2 DEF Switch!Wire, Modes
  <2> QED  BY <1>3, <2>1, <2>3
<1>5. CASE c.vlan_mode # "access" /\ c.trunks \cap v = {}
  <2>1. p = NoPort
    BY <1>5 DEF Program
  <2>2. Switch!Wire(c, v) = {}
    BY <1>1, <1>5 DEF Switch!Wire, Modes
  <2> QED  BY <1>3, <2>1, <2>2
<1>6. CASE /\ c.vlan_mode = "trunk" \/ c.vlan \in v
           /\ c.vlan_mode = "access" \/ c.trunks \cap v # {}
  <2>1. p = [vlan_mode |-> c.vlan_mode,
             tag    |-> IF c.vlan_mode = "trunk" THEN 0 ELSE c.vlan,
             trunks |-> IF c.vlan_mode = "access" THEN {} ELSE c.trunks \cap v]
    BY <1>6 DEF Program
  <2>2. p # NoPort
    <3>1. v \subseteq TrunkVlans
      BY ConstantsAssumption
    <3>2. (IF c.vlan_mode = "trunk" THEN 0 ELSE c.vlan) \in {0} \cup TrunkVlans
      BY <1>6, <3>1
    <3>3. p \in AsicPort
      BY <1>1, <2>1, <3>2 DEF AsicPort
    <3> QED  BY <3>3, ConstantsAssumption
  <2>3. /\ p # NoPort /\ p.vlan_mode = c.vlan_mode
        /\ p.tag = IF c.vlan_mode = "trunk" THEN 0 ELSE c.vlan
        /\ p.trunks = IF c.vlan_mode = "access" THEN {} ELSE c.trunks \cap v
    BY <2>1, <2>2
  <2>4. Frames(p) = Switch!Wire(c, v)
    <3> HIDE DEF p
    <3>1. CASE c.vlan_mode = "access"
      BY <1>6, <2>3, <3>1 DEF Frames, Switch!Wire
    <3>2. CASE c.vlan_mode = "trunk"
      BY <1>6, <2>3, <3>2 DEF Frames, Switch!Wire
    <3>3. CASE c.vlan_mode = "native-tagged"
      BY <1>6, <2>3, <3>3 DEF Frames, Switch!Wire
    <3>4. CASE c.vlan_mode = "native-untagged"
      BY <1>6, <2>3, <3>4 DEF Frames, Switch!Wire
    <3> QED  BY <1>1, <3>1, <3>2, <3>3, <3>4 DEF Modes
  <2> QED  BY <2>4
<1> QED  BY <1>4, <1>5, <1>6

(* The variables of L2Switch.                                              *)
confBar    == [b \in Bundles |-> IF b \in Switched THEN cfg[b] ELSE NoPort]
carriedBar == [b \in Bundles |-> Frames(asic[b])]

(* The wires follow the settings when the pointers are intact.             *)
Wired ==
    Intact => carriedBar = [b \in Bundles |-> IF confBar[b] = NoPort THEN {}
                                              ELSE Switch!Wire(confBar[b], vlans_bmp)]

LEMMA WiresFollow ==
    ASSUME TypeOK, AsicInv
    PROVE  Wired
<1> SUFFICES ASSUME Intact, NEW b \in Bundles
             PROVE  Frames(asic[b]) = IF confBar[b] = NoPort THEN {}
                                      ELSE Switch!Wire(confBar[b], vlans_bmp)
  BY DEF Wired, carriedBar
<1>1. cfg[b] \in BundleCfg /\ cfg[b] # NoPort /\ vlans_bmp \in SUBSET Vlans
  BY ConstantsAssumption DEF TypeOK
<1>2. asic[b] = IF b \in Switched THEN Program(cfg[b], vlans_bmp) ELSE NoPort
  BY DEF AsicInv, Asic, AsicExact
<1>3. confBar[b] = IF b \in Switched THEN cfg[b] ELSE NoPort
  BY DEF confBar
<1>4. Frames(NoPort) = {}
  BY DEF Frames
<1> QED  BY <1>1, <1>2, <1>3, <1>4, ProgramCarries

(* Destroying a bundle removes its logical port.                           *)
LEMMA DestroyRemoves ==
    ASSUME TypeOK, Intact, NEW b \in Bundles, bundle_destroy(b)
    PROVE  confBar' = [confBar EXCEPT ![b] = NoPort]
<1>1. bundles' = bundles \ {b} /\ \A c \in Bundles : c # b => cfg'[c] = cfg[c]
  BY DEF bundle_destroy, DestroyState
<1>2. \A c \in Bundles : /\ c # b => (c \in Switched' <=> c \in Switched)
                         /\ b \notin Switched'
  BY <1>1 DEF Switched
<1> QED  BY <1>1, <1>2 DEF confBar

(* bundle_set gives one logical port its settings, or none, and removes    *)
(* those that lose their ports.                                            *)
LEMMA LinksConfigures ==
    ASSUME TypeOK, Intact, Shape, NEW b \in Bundles, NEW s \in Requests(b),
           \/ bundle_set_no_program(b, s) \/ bundle_set_routing(b, s)
           \/ bundle_set_program(b, s)
    PROVE  /\ \A q \in Bundles \ {b} : confBar'[q] \in {confBar[q], NoPort}
           /\ \/ confBar'[b] = cfg'[b]
              \/ confBar' = confBar
<1>1. /\ Links(b, s) /\ Losers(b, s) \subseteq bundles /\ b \notin Losers(b, s)
      /\ Losers(b, s) \cap (Intf \cup {Bridge}) = {}
      /\ b \in Intf \cup {Bridge} => Losers(b, s) = {}
  BY LosersFacts DEF bundle_set_no_program, bundle_set_routing, bundle_set_program
<1>2. bundles' = (bundles \ Losers(b, s)) \cup {b}
  BY <1>1, LinksShape
<1>3. \A q \in Bundles : q # b /\ q \notin Losers(b, s) => cfg'[q] = cfg[q]
  <2>1. CASE bundle_set_no_program(b, s)
    BY <2>1 DEF bundle_set_no_program, ResetLosers
  <2>2. CASE bundle_set_routing(b, s)
    BY <2>2 DEF bundle_set_routing, TypeOK
  <2>3. CASE bundle_set_program(b, s)
    BY <2>3 DEF bundle_set_program, ResetLosers
  <2> QED  BY <2>1, <2>2, <2>3
<1>4. \A q \in Bundles : q # b => (q \in Switched' <=> q \in Switched /\ q \notin Losers(b, s))
  BY <1>1, <1>2 DEF Switched
<1>5. \A q \in Bundles \ {b} : confBar'[q] \in {confBar[q], NoPort}
  BY <1>3, <1>4 DEF confBar
<1>6. CASE b \in Switched'
  BY <1>5, <1>6 DEF confBar
<1>7. CASE b \notin Switched'
  <2>1. b \notin Switched
    BY <1>1, <1>2, <1>7 DEF Switched
  <2>2. Switched = {} \/ Losers(b, s) = {}
    BY <1>1, <1>2, <1>7 DEF Switched
  <2>3. \A q \in Bundles : confBar'[q] = confBar[q]
    BY <1>3, <1>4, <1>7, <2>1, <2>2 DEF confBar
  <2> QED  BY <1>5, <2>3 DEF confBar
<1> QED  BY <1>6, <1>7

(* A step that leaves the settings and VLANs alone leaves the wires alone. *)
LEMMA SameSwitch ==
    ASSUME Wired, Wired', Intact, Intact', confBar' = confBar, vlans_bmp' = vlans_bmp
    PROVE  UNCHANGED Switch!switchvars
<1>1. carriedBar' = carriedBar
  BY DEF Wired
<1>2. Intact' = Intact
  OBVIOUS
<1> QED  BY <1>1, <1>2 DEF Switch!switchvars, confBar, carriedBar

LEMMA HandlerRefines ==
    ASSUME TypeOK, TypeOK', ShapeInv, Wired, Wired', Handler, Intact'
    PROVE  [Switch!SwitchNext]_Switch!switchvars
<1>1. Intact /\ Shape
  BY HandlerIntact DEF ShapeInv
<1>2. Switch!Rewire
  <2>1. carriedBar' = [b \in Bundles |-> IF confBar'[b] = NoPort THEN {}
                                         ELSE Switch!Wire(confBar'[b], vlans_bmp')]
    BY DEF Wired
  <2>2. Intact' = TRUE
    OBVIOUS
  <2> QED  BY <2>1, <2>2 DEF Switch!Rewire, confBar, carriedBar
<1>3. ASSUME confBar' = confBar, vlans_bmp' = vlans_bmp
      PROVE  [Switch!SwitchNext]_Switch!switchvars
  BY <1>1, <1>3, SameSwitch
<1>4. ASSUME NEW b \in Bundles, bundle_destroy(b), vlans_bmp' = vlans_bmp
      PROVE  Switch!SwitchNext
  <2>1. Switch!Remove(b)
    BY <1>1, <1>2, <1>4, DestroyRemoves DEF Switch!Remove, confBar
  <2> QED  BY <2>1 DEF Switch!SwitchNext
<1>5. ASSUME NEW b \in Bundles, NEW s \in Requests(b), bundle_set(b, s)
      PROVE  [Switch!SwitchNext]_Switch!switchvars
  <2>1. CASE bundle_set_no_program(b, s) \/ bundle_set_routing(b, s)
             \/ bundle_set_program(b, s)
    <3>1. vlans_bmp' = vlans_bmp
      BY <2>1 DEF bundle_set_no_program, bundle_set_routing, bundle_set_program
    <3>2. /\ \A q \in Bundles \ {b} : confBar'[q] \in {confBar[q], NoPort}
          /\ \/ confBar'[b] = cfg'[b]
             \/ confBar' = confBar
      BY <1>1, <1>5, <2>1, LinksConfigures
    <3>3. CASE confBar' = confBar
      BY <1>3, <3>1, <3>3
    <3>4. CASE confBar'[b] = cfg'[b]
      <4>1. confBar'[b] # NoPort
        BY <1>5, <3>4, ConstantsAssumption DEF TypeOK
      <4>2. Switch!Configure(b)
        <5>1. DOMAIN confBar' = Bundles
          BY DEF confBar
        <5> QED  BY <1>1, <1>2, <3>1, <3>2, <4>1, <5>1 DEF Switch!Configure, confBar
      <4> QED  BY <1>5, <4>2 DEF Switch!SwitchNext
    <3> QED  BY <3>2, <3>3, <3>4
  <2>2. CASE bundle_set_empty(b, s)
    BY <1>4, <1>5, <2>2 DEF bundle_set_empty
  <2>3. ~bundle_set_steals(b, s) /\ ~bundle_set_withdraws(b, s)
    BY <1>5, StealsBreaks, WithdrawsBreaks
  <2> QED  BY <1>5, <2>1, <2>2, <2>3 DEF bundle_set
<1>6. ASSUME NEW b \in Bundles, bundle_set_null(b)
      PROVE  Switch!SwitchNext
  BY <1>4, <1>6 DEF bundle_set_null
<1>7. ASSUME UNCHANGED <<links, l2vars, vlans_bmp>>
      PROVE  [Switch!SwitchNext]_Switch!switchvars
  <2>1. confBar' = confBar /\ vlans_bmp' = vlans_bmp
    BY <1>7 DEF confBar, Switched, links, l2vars
  <2> QED  BY <1>3, <2>1
<1>8. ASSUME NEW p \in Ports, bundle_remove(p)
      PROVE  [Switch!SwitchNext]_Switch!switchvars
  <2>1. bundle[p] \in Bundles /\ vlans_bmp' = vlans_bmp
    BY <1>8 DEF bundle_remove, TypeOK
  <2>2. CASE bundle[p] \in bond_hw_handle
    BY <1>7, <1>8, <2>1, <2>2 DEF bundle_remove
  <2>3. CASE bundle[p] \notin bond_hw_handle
    BY <1>4, <1>8, <2>1, <2>3 DEF bundle_remove
  <2> QED  BY <2>2, <2>3
<1>9. ASSUME NEW p \in Ports, port_alloc(p) \/ port_dealloc(p)
      PROVE  [Switch!SwitchNext]_Switch!switchvars
  BY <1>7, <1>9 DEF port_alloc, port_dealloc
<1>10. ASSUME NEW v \in Vlans, NEW add \in BOOLEAN, set_vlan(v, add)
       PROVE  Switch!SwitchNext
  <2>1. /\ confBar' = confBar
        /\ vlans_bmp' = IF v \in vlans_bmp THEN vlans_bmp \ {v} ELSE vlans_bmp \cup {v}
    BY <1>10 DEF set_vlan, links, confBar, Switched
  <2>2. Switch!SetVlan(v)
    BY <1>1, <1>2, <2>1 DEF Switch!SetVlan, confBar
  <2> QED  BY <1>10, <2>2 DEF Switch!SwitchNext
<1> QED  BY <1>5, <1>6, <1>8, <1>9, <1>10 DEF Handler

(* While commands succeed, the provider implements L2Switch: what its      *)
(* handlers do to its maps, lists, bitmaps and tables is, on the wire, the *)
(* setting or removal of one logical port, a change of one VLAN, or a new  *)
(* process.                                                                *)
THEOREM BridgeImplementsSwitch ==
    ASSUME ~MayFail
    PROVE  Spec => ImplementsSwitch
<1>1. Init => Switch!SwitchInit
  <2>1. ASSUME Init
        PROVE  /\ confBar = [b \in Bundles |-> NoPort] /\ vlans_bmp = {}
               /\ carriedBar = [b \in Bundles |-> {}]
    BY <2>1 DEF Init, confBar, carriedBar, Switched, Frames
  <2>2. ASSUME Init
        PROVE  Intact = TRUE
    BY <2>2, ConstantsAssumption DEF Init, Intact, ListMatchesPointer,
       NoDanglingBundle, NoFreedMember
  <2> QED  BY <2>1, <2>2 DEF Switch!SwitchInit, confBar, carriedBar
<1>2. Spec => []Wired
  <2>1. TypeOK /\ AsicInv => Wired
    BY WiresFollow
  <2> QED  BY <2>1, TypeCorrect, AsicInvCorrect, PTL
<1>3. TypeOK /\ TypeOK' /\ ShapeInv /\ Wired /\ Wired' /\ [Next]_vars
      => [Switch!SwitchNext]_Switch!switchvars
  <2> SUFFICES ASSUME TypeOK, TypeOK', ShapeInv, Wired, Wired', [Next]_vars
               PROVE  [Switch!SwitchNext]_Switch!switchvars
    OBVIOUS
  <2>1. CASE ~Intact'
    <3>1. Intact' = FALSE
      BY <2>1
    <3> QED  BY <3>1 DEF Switch!SwitchNext, Switch!Undefined
  <2>2. CASE Handler /\ Intact'
    BY <2>2, HandlerRefines
  <2>3. CASE Boot \/ Crash
    <3>1. Fresh /\ Intact'
      BY <2>3, NewProcess
    <3>2. confBar' = [b \in Bundles |-> NoPort] /\ vlans_bmp' = {}
      BY <3>1 DEF Fresh, confBar, Switched
    <3>3. carriedBar' = [b \in Bundles |-> IF confBar'[b] = NoPort THEN {}
                                           ELSE Switch!Wire(confBar'[b], vlans_bmp')]
      BY <3>1 DEF Wired
    <3>4. Intact' = TRUE
      BY <3>1
    <3> QED  BY <3>2, <3>3, <3>4 DEF Switch!SwitchNext, Switch!Reboot, Switch!Rewire,
             confBar, carriedBar
  <2>4. CASE UNCHANGED vars
    <3>1. UNCHANGED <<confBar, carriedBar, vlans_bmp>>
      BY <2>4 DEF vars, links, l2vars, confBar, carriedBar, Switched
    <3>2. Intact' = Intact
      BY <2>4 DEF vars, links, Intact, ListMatchesPointer, NoDanglingBundle, NoFreedMember
    <3> QED  BY <3>1, <3>2 DEF Switch!switchvars, confBar, carriedBar
  <2> QED  BY <2>1, <2>2, <2>3, <2>4 DEF Next
<1> QED  BY <1>1, <1>2, <1>3, TypeCorrect, ShapeCorrect, PTL
         DEF Spec, ImplementsSwitch, Switch!SwitchSpec

-----------------------------------------------------------------------------
(* The ports of the VRF are open                                           *)

(* A port without leftover rules has exactly those of its flag, and no     *)
(* port of the VRF is one of the bridge.                                   *)
OpenInv ==
    /\ \A p \in Ports \ leftover : ExactAt(p)
    /\ routed \cap ofports = {}

LEMMA OpenStep ==
    ASSUME TypeOK, TypeOK', InputRuleOnce', OpenInv, [BothNext]_bothvars
    PROVE  OpenInv'
<1>1. ASSUME UNCHANGED rules \/ \E S, T \in SUBSET Ports : UpdateRules(S, T),
             leftover' = leftover \cap Dropped', NEW p \in Ports \ leftover'
      PROVE  ExactAt(p)'
  <2>1. CASE p \notin leftover
    BY <1>1, <2>1, UpdateRulesExact DEF OpenInv, ExactAt, rules
  <2>2. CASE p \in leftover
    <3>1. ~(dropInput'[p] + dropForward'[p] > 0)
      BY <1>1, <2>2 DEF Dropped
    <3>2. dropInput'[p] = 0 /\ dropForward'[p] = 0
      BY <1>1, <3>1 DEF TypeOK
    <3>3. p \notin iptable_rules_added'
      BY <1>1, <3>2 DEF InputRuleOnce
    <3> QED  BY <3>2, <3>3 DEF ExactAt
  <2> QED  BY <2>1, <2>2
<1>2. CASE BridgeHandler /\ leftover' = leftover \cap Dropped'
  <2>1. routed' \cap ofports' = {}
    BY <1>2 DEF BridgeHandler
  <2> QED  BY <1>1, <1>2, <2>1, HandlerRules DEF BridgeHandler, OpenInv
<1>3. ASSUME NEW p \in Phys, Route(p) \/ Unroute(p), leftover' = leftover \cap Dropped'
      PROVE  OpenInv'
  <2>1. UNCHANGED rules /\ routed' \cap ofports' = {}
    BY <1>3 DEF Route, Unroute, OpenInv, vars
  <2> QED  BY <1>1, <1>3, <2>1 DEF OpenInv
<1>4. CASE Dies
  <2>1. Fresh /\ leftover' = Dropped' /\ routed' = {}
    BY <1>4, NewProcess DEF Dies
  <2>2. ASSUME NEW p \in Ports \ leftover'
        PROVE  ExactAt(p)'
    <3>1. ~(dropInput'[p] + dropForward'[p] > 0)
      BY <2>1, <2>2 DEF Dropped
    <3>2. dropInput'[p] = 0 /\ dropForward'[p] = 0
      BY <2>2, <3>1 DEF TypeOK
    <3>3. iptable_rules_added' = {}
      BY <2>1 DEF Fresh
    <3> QED  BY <3>2, <3>3 DEF ExactAt
  <2> QED  BY <2>1, <2>2 DEF OpenInv
<1>5. CASE UNCHANGED bothvars
  BY <1>5 DEF bothvars, vars, rules, OpenInv, ExactAt
<1> QED  BY <1>2, <1>3, <1>4, <1>5 DEF BothNext

(* A port that the VRF routes is dropped by no rule but those that a dead  *)
(* process left, whichever commands failed and wherever processes died.    *)
THEOREM RoutedOpen == BothSpec => []RoutedPortsOpen
<1>1. BothInit => OpenInv
  BY DEF BothInit, Init, OpenInv, ExactAt
<1>2. BothSpec => Spec
  <2>1. [BothNext]_bothvars => [Next]_vars
    <3>1. BothNext => [Next]_vars
      BY DEF BothNext, BridgeHandler, Route, Unroute, Dies, Next
    <3>2. UNCHANGED bothvars => UNCHANGED vars
      BY DEF bothvars
    <3> QED  BY <3>1, <3>2
  <2>2. BothInit => Init
    BY DEF BothInit
  <2> QED  BY <2>1, <2>2, PTL DEF BothSpec, Spec
<1>3. TypeOK /\ TypeOK' /\ InputRuleOnce' /\ OpenInv /\ [BothNext]_bothvars => OpenInv'
  BY OpenStep
<1>4. TypeOK /\ OpenInv /\ (Intact => FlaggedSwitched) => RoutedPortsOpen
  <2> SUFFICES ASSUME TypeOK, OpenInv, FlaggedSwitched, Intact,
                      NEW p \in routed \cap Dropped
               PROVE  p \in leftover
    BY DEF RoutedPortsOpen
  <2>1. p \in Ports /\ dropInput[p] + dropForward[p] > 0
    BY DEF Dropped
  <2>2. CASE p \in iptable_rules_added
    <3>1. bundle[p] \in Bundles
      BY <2>2 DEF FlaggedSwitched, Switched, TypeOK
    <3>2. p \in ofports
      BY <2>1, <3>1 DEF Intact, ListMatchesPointer, NoFreedMember
    <3> QED  BY <3>2 DEF OpenInv
  <2>3. CASE p \notin iptable_rules_added
    BY <2>1, <2>3 DEF OpenInv, ExactAt
  <2> QED  BY <2>2, <2>3
<1> QED  BY <1>1, <1>2, <1>3, <1>4, TypeCorrect, InputRuleNeverStacked, FlaggedCorrect,
            PTL DEF BothSpec
=============================================================================
