--------------------------- MODULE SimSflowProofs ---------------------------
(***************************************************************************)
(* What set_sflow believes of rules, agent and ASIC record is so, for any  *)
(* bundles, requests and directions, through restarts and through the      *)
(* death of the process in set_sflow.                                      *)
(***************************************************************************)
EXTENDS SimSflow, SimBundleProofs, SequenceTheorems, FiniteSetTheorems

-----------------------------------------------------------------------------
(* Rules of one name                                                       *)

(* One group of rules, made for the rate r.                                *)
OneAt(q, r) == Len(q) = 1 /\ q[1].rate = r

LEMMA AddOne ==
    ASSUME NEW r \in Nat
    PROVE  /\ sflow_iptable_add(<<>>, r) \in Seq(RuleGroup)
           /\ OneAt(sflow_iptable_add(<<>>, r), r)
           /\ sflow_iptable_add(<<>>, r)[1].pkts = Zero
<1> DEFINE g == [rate |-> r, pkts |-> Zero]
<1>1. g \in RuleGroup /\ g.rate = r /\ g.pkts = Zero
  BY DEF RuleGroup, Zero
<1> HIDE DEF g
<1>2. <<g>> \o <<>> \in Seq(RuleGroup) /\ OneAt(<<g>> \o <<>>, r) /\ (<<g>> \o <<>>)[1] = g
  BY <1>1 DEF OneAt
<1> QED  BY <1>1, <1>2 DEF sflow_iptable_add, g

(* sflow_iptable_del finds the only group by its rate.                     *)
LEMMA DelOne ==
    ASSUME NEW q \in Seq(RuleGroup), NEW r, OneAt(q, r)
    PROVE  sflow_iptable_del(q, r) = <<>>
<1> DEFINE same == {i \in DOMAIN q : q[i].rate = r}
<1>1. DOMAIN q = {1}
  BY DEF OneAt
<1>2. same = {1}
  BY <1>1 DEF OneAt
<1>3. (CHOOSE i \in same : \A j \in same : i <= j) = 1
  BY <1>2
<1>4. sflow_iptable_del(q, r) = RemoveAt(q, 1)
  BY <1>2, <1>3 DEF sflow_iptable_del
<1>5. SubSeq(q, 1, 0) = <<>> /\ SubSeq(q, 2, 1) = <<>>
  OBVIOUS
<1>6. RemoveAt(q, 1) = <<>> \o <<>>
  BY <1>5 DEF RemoveAt, OneAt
<1> QED  BY <1>4, <1>6

(* What EditRules makes of rules that are those of the names in had.       *)
LEMMA EditFacts ==
    ASSUME NEW q \in [Bundles -> Seq(RuleGroup)], NEW r \in Nat, NEW had,
           NEW del \in SUBSET (had \ is_sflow_enabled),
           \A n \in Bundles : IF n \in had THEN OneAt(q[n], r) ELSE q[n] = <<>>
    PROVE  /\ EditRules(q, had, del, r) \in [Bundles -> Seq(RuleGroup)]
           /\ \A n \in Bundles :
                 IF n \in (had \ del) \cup is_sflow_enabled
                 THEN OneAt(EditRules(q, had, del, r)[n], r)
                 ELSE EditRules(q, had, del, r)[n] = <<>>
<1> DEFINE e == EditRules(q, had, del, r)
<1>1. ASSUME NEW n \in Bundles
      PROVE  /\ e[n] \in Seq(RuleGroup)
             /\ IF n \in (had \ del) \cup is_sflow_enabled THEN OneAt(e[n], r) ELSE e[n] = <<>>
  <2>1. e[n] = IF n \in Adds(had) THEN sflow_iptable_add(q[n], r)
               ELSE IF n \in del THEN sflow_iptable_del(q[n], r) ELSE q[n]
    BY DEF EditRules
  <2>2. q[n] \in Seq(RuleGroup) /\ <<>> \in Seq(RuleGroup)
    OBVIOUS
  <2> HIDE DEF e
  <2>3. CASE n \in Adds(had)
    BY <2>1, <2>3, AddOne DEF Adds
  <2>4. CASE n \notin Adds(had) /\ n \in del
    <3>1. e[n] = <<>>
      BY <2>1, <2>2, <2>4, DelOne
    <3> QED  BY <2>2, <2>4, <3>1
  <2>5. CASE n \notin Adds(had) /\ n \notin del
    BY <2>1, <2>2, <2>5 DEF Adds
  <2> QED  BY <2>3, <2>4, <2>5
<1>2. DOMAIN e = Bundles /\ e = [n \in Bundles |-> e[n]]
  BY DEF EditRules
<1> HIDE DEF e
<1>3. e \in [Bundles -> Seq(RuleGroup)]
  BY <1>1, <1>2
<1> QED  BY <1>1, <1>3 DEF e

-----------------------------------------------------------------------------
(* Counters                                                                *)

(* What the rules f have counted that a poll of p finds.                   *)
Total(f, p, d) == Cardinality(UNION {{n} \X Counted(f[n], d) : n \in Matches[p]})

LEMMA CountedFinite ==
    ASSUME NEW q \in Seq(RuleGroup), NEW d \in Dirs
    PROVE  IsFiniteSet(Counted(q, d))
<1> DEFINE D == DOMAIN q
           Of(i) == {i} \X (1 .. q[i].pkts[d])
           T == {Of(i) : i \in D}
           f == [i \in D |-> Of(i)]
<1>1. IsFiniteSet(D)
  <2>1. D = 1 .. Len(q) /\ Len(q) \in Int /\ 1 \in Int
    OBVIOUS
  <2> QED  BY <2>1, FS_Interval
<1>2. ASSUME NEW i \in D PROVE IsFiniteSet(Of(i))
  <2>1. q[i].pkts[d] \in Int /\ 1 \in Int
    <3>1. q[i] \in RuleGroup
      BY <1>2
    <3> QED  BY <3>1 DEF RuleGroup
  <2>2. IsFiniteSet(1 .. q[i].pkts[d])
    BY <2>1, FS_Interval
  <2>3. IsFiniteSet({i})
    BY FS_Singleton
  <2> QED  BY <2>2, <2>3, FS_Product
<1> HIDE DEF D, Of
<1>3. f \in Surjection(D, T)
  BY DEF Surjection
<1>4. IsFiniteSet(T)
  BY <1>1, <1>3, FS_Surjection
<1>5. IsFiniteSet(UNION T)
  BY <1>2, <1>4, FS_UNION
<1> QED  BY <1>5 DEF Counted, D, Of

LEMMA TotalNat ==
    ASSUME NEW f \in [Bundles -> Seq(RuleGroup)], NEW p \in Ports, NEW d \in Dirs
    PROVE  Total(f, p, d) \in Nat
<1> DEFINE M == Matches[p]
           Of(n) == {n} \X Counted(f[n], d)
           T == {Of(n) : n \in M}
           g == [n \in M |-> Of(n)]
<1>1. IsFiniteSet(M) /\ M \subseteq Bundles
  BY SflowAssumption
<1>2. ASSUME NEW n \in M PROVE IsFiniteSet(Of(n))
  <2>1. IsFiniteSet(Counted(f[n], d))
    BY <1>1, <1>2, CountedFinite
  <2>2. IsFiniteSet({n})
    BY FS_Singleton
  <2> QED  BY <2>1, <2>2, FS_Product
<1> HIDE DEF M, Of
<1>3. g \in Surjection(M, T)
  BY DEF Surjection
<1>4. IsFiniteSet(T)
  BY <1>1, <1>3, FS_Surjection
<1>5. Cardinality(UNION T) \in Nat
  BY <1>2, <1>4, FS_UNION, FS_CardinalityType
<1> QED  BY <1>5 DEF Total, M, Of

LEMMA StatsAreTotals ==
    ASSUME NEW p, NEW d
    PROVE  netdev_sim_get_iptable_stats(p, d) =
              IF netdev[p].sflow_stats_enabled THEN Total(nflog, p, d) ELSE 0
  BY DEF netdev_sim_get_iptable_stats, Total

(* A poll adds a natural number: it never takes back what was reported.    *)
LEMMA IncrementNat ==
    ASSUME nflog \in [Bundles -> Seq(RuleGroup)], netdev \in [Ports -> Netdev],
           NEW p \in Ports, NEW d \in Dirs
    PROVE  netdev_sim_get_iptable_stats(p, d) \in Nat /\ Increment(p, d) \in Nat
<1> DEFINE n == netdev_sim_get_iptable_stats(p, d)
<1>1. n \in Nat
  <2>1. Total(nflog, p, d) \in Nat
    BY TotalNat
  <2> QED  BY <2>1, StatsAreTotals
<1>2. netdev[p].sflow_prev[d] \in Nat
  BY DEF Netdev
<1>3. ~StartedAgain(p) => ~(netdev[p].sflow_prev[d] > n)
  BY DEF StartedAgain
<1> HIDE DEF n
<1>4. (IF StartedAgain(p) THEN n ELSE n - netdev[p].sflow_prev[d]) \in Nat
  BY <1>1, <1>2, <1>3
<1> QED  BY <1>1, <1>4 DEF Increment, n

-----------------------------------------------------------------------------
(* The inductive invariant                                                 *)

Local == [cfg: SflowRequests \cup {NoCfg}, disabled: BOOLEAN, ports: SUBSET Bundles]

SyncType ==
    /\ is_sflow_enabled \subseteq Bundles
    /\ sflow \in Local /\ brSflow \in Local
    /\ nflog \in [Bundles -> Seq(RuleGroup)]
    /\ dead \in BOOLEAN

SyncInv == SyncType /\ SflowInSync

LEMMA RequestFacts ==
    ASSUME NEW o \in SflowRequests
    PROVE  o # NoCfg /\ o.sampling_rate \in Nat
  BY SflowAssumption DEF SflowOptions

(* Before a set_sflow with the configuration there is.                     *)
LEMMA RulesBefore ==
    ASSUME SyncInv, ~dead, NEW o \in SflowRequests, o = sflow.cfg
    PROVE  /\ agent = o
           /\ \A n \in Bundles : IF n \in sflow.ports THEN OneAt(nflog[n], o.sampling_rate)
                                 ELSE nflog[n] = <<>>
  BY RequestFacts DEF SyncInv, SflowInSync, OneAt

(* After a set_sflow that configures.                                      *)
LEMMA ReconfigureFacts ==
    ASSUME SyncType, NEW q \in [Bundles -> Seq(RuleGroup)], NEW had, NEW o \in SflowRequests,
           \A n \in Bundles : IF n \in had THEN OneAt(q[n], o.sampling_rate) ELSE q[n] = <<>>,
           sflow_iptables_reconfigure(q, had, o)
    PROVE  /\ nflog' \in [Bundles -> Seq(RuleGroup)]
           /\ \A n \in Bundles : IF n \in is_sflow_enabled
                                 THEN OneAt(nflog'[n], o.sampling_rate) ELSE nflog'[n] = <<>>
           /\ sflow' \in Local
           /\ sflow'.cfg = o /\ sflow'.ports = is_sflow_enabled /\ ~sflow'.disabled
<1>1. Deletes(had) \in SUBSET (had \ is_sflow_enabled)
      /\ (had \ Deletes(had)) \cup is_sflow_enabled = is_sflow_enabled
  BY DEF Deletes
<1>2. nflog' = EditRules(q, had, Deletes(had), o.sampling_rate)
      /\ sflow' = [cfg |-> o, disabled |-> FALSE, ports |-> is_sflow_enabled]
  BY DEF sflow_iptables_reconfigure
<1>3. o.sampling_rate \in Nat
  BY RequestFacts
<1>4. /\ nflog' \in [Bundles -> Seq(RuleGroup)]
      /\ \A n \in Bundles : IF n \in is_sflow_enabled
                            THEN OneAt(nflog'[n], o.sampling_rate) ELSE nflog'[n] = <<>>
  <2> DEFINE r == o.sampling_rate
             del == Deletes(had)
  <2>1. r \in Nat /\ del \in SUBSET (had \ is_sflow_enabled)
    BY <1>1, <1>3
  <2> HIDE DEF r, del
  <2>2. /\ EditRules(q, had, del, r) \in [Bundles -> Seq(RuleGroup)]
        /\ \A n \in Bundles :
              IF n \in (had \ del) \cup is_sflow_enabled
              THEN OneAt(EditRules(q, had, del, r)[n], r)
              ELSE EditRules(q, had, del, r)[n] = <<>>
    BY <2>1, EditFacts DEF r
  <2> QED  BY <1>1, <1>2, <2>2 DEF r, del
<1> QED  BY <1>2, <1>4 DEF SyncType, Local

(* NoRules are the rules of no name.                                       *)
LEMMA NoRulesFacts ==
    /\ NoRules \in [Bundles -> Seq(RuleGroup)]
    /\ \A n \in Bundles, r \in Nat : IF n \in {} THEN OneAt(NoRules[n], r) ELSE NoRules[n] = <<>>
  BY DEF NoRules

(* set_sflow with the configuration there is or with another one leaves    *)
(* one group of rules, of the new rate, for every enabled bundle.          *)
LEMMA ConfiguredFacts ==
    ASSUME SyncInv, NEW o \in SflowRequests, set_sflow_same(o) \/ set_sflow_new(o)
    PROVE  /\ nflog' \in [Bundles -> Seq(RuleGroup)]
           /\ \A n \in Bundles : IF n \in is_sflow_enabled
                                 THEN OneAt(nflog'[n], o.sampling_rate) ELSE nflog'[n] = <<>>
           /\ sflow' \in Local
           /\ sflow'.cfg = o /\ sflow'.ports = is_sflow_enabled /\ ~sflow'.disabled
           /\ agent' = o
<1>1. CASE set_sflow_same(o)
  <2>1. /\ ~dead /\ o = sflow.cfg /\ UNCHANGED agent
        /\ sflow_iptables_reconfigure(nflog, sflow.ports, o)
    BY <1>1 DEF set_sflow_same, OnVrf, SflowCall
  <2>2. /\ agent = o
        /\ \A n \in Bundles : IF n \in sflow.ports THEN OneAt(nflog[n], o.sampling_rate)
                              ELSE nflog[n] = <<>>
    BY <2>1, RulesBefore
  <2>3. SyncType /\ nflog \in [Bundles -> Seq(RuleGroup)]
    BY DEF SyncInv, SyncType
  <2> QED  BY <2>1, <2>2, <2>3, ReconfigureFacts
<1>2. CASE set_sflow_new(o)
  <2>1. sflow_iptables_reconfigure(NoRules, {}, o) /\ agent' = o
    BY <1>2 DEF set_sflow_new
  <2>2. SyncType /\ o.sampling_rate \in Nat
    BY RequestFacts DEF SyncInv
  <2>3. \A n \in Bundles : IF n \in {} THEN OneAt(NoRules[n], o.sampling_rate)
                           ELSE NoRules[n] = <<>>
    BY NoRulesFacts
  <2>4. NoRules \in [Bundles -> Seq(RuleGroup)]
    BY NoRulesFacts
  <2> HIDE DEF NoRules
  <2> DEFINE q == NoRules
             had == {}
  <2>5. /\ q \in [Bundles -> Seq(RuleGroup)]
        /\ \A n \in Bundles : IF n \in had THEN OneAt(q[n], o.sampling_rate) ELSE q[n] = <<>>
        /\ sflow_iptables_reconfigure(q, had, o)
    BY <2>1, <2>3, <2>4
  <2> HIDE DEF q, had
  <2> QED  BY <2>1, <2>2, <2>5, ReconfigureFacts
<1> QED  BY <1>1, <1>2

(* Group i of p has counted one packet more.                               *)
OneMore(p, d, i) ==
    \A e \in Dirs : nflog'[p][i].pkts[e] =
       IF e = d THEN nflog[p][i].pkts[e] + 1 ELSE nflog[p][i].pkts[e]

(* A sample changes no group but in its counters.                          *)
LEMMA SampleFacts ==
    ASSUME SyncType, NEW p \in Ports, NEW d \in Dirs, NEW i \in DOMAIN nflog[p], Sample(p, d, i)
    PROVE  /\ nflog' \in [Bundles -> Seq(RuleGroup)]
           /\ \A n \in Bundles, r \in Nat :
                 /\ OneAt(nflog[n], r) => OneAt(nflog'[n], r)
                 /\ nflog[n] = <<>> => nflog'[n] = <<>>
           /\ \A n \in Bundles : n # p => nflog'[n] = nflog[n]
           /\ Len(nflog'[p]) = Len(nflog[p]) /\ nflog[p] # <<>> /\ nflog'[p] # <<>>
           /\ OneMore(p, d, i)
<1> DEFINE q == nflog[p]
           g == q[i]
           h == [g EXCEPT !.pkts = [g.pkts EXCEPT ![d] = g.pkts[d] + 1]]
           t == [q EXCEPT ![i] = h]
<1>1. p \in Bundles
  BY DEF Bundles
<1>2. q \in Seq(RuleGroup) /\ g \in RuleGroup /\ i \in DOMAIN q
  BY <1>1 DEF SyncType
<1>3. nflog' = [nflog EXCEPT ![p][i].pkts[d] = nflog[p][i].pkts[d] + 1]
  BY DEF Sample
<1>4. nflog' = [nflog EXCEPT ![p] = t]
  BY <1>1, <1>2, <1>3 DEF SyncType, RuleGroup
<1>5. /\ h \in RuleGroup /\ h.rate = g.rate
      /\ h.pkts = [g.pkts EXCEPT ![d] = g.pkts[d] + 1]
  <2> DEFINE k == [g.pkts EXCEPT ![d] = g.pkts[d] + 1]
  <2> HIDE DEF g
  <2>1. k \in [Dirs -> Nat]
    <3>1. g.pkts \in [Dirs -> Nat]
      BY <1>2 DEF RuleGroup
    <3> QED  BY <3>1
  <2>2. h = [g EXCEPT !.pkts = k]
    OBVIOUS
  <2> HIDE DEF k, h
  <2>3. h \in RuleGroup /\ h.rate = g.rate /\ h.pkts = k
    BY <1>2, <2>1, <2>2 DEF RuleGroup
  <2> QED  BY <2>3 DEF k
<1>6. t \in Seq(RuleGroup) /\ Len(t) = Len(q) /\ t # <<>>
      /\ \A j \in DOMAIN q : t[j] = IF j = i THEN h ELSE q[j]
  <2> HIDE DEF h, q
  <2>1. t \in Seq(RuleGroup) /\ Len(t) = Len(q)
    BY <1>2, <1>5, ExceptSeq
  <2>2. \A j \in DOMAIN q : t[j] = IF j = i THEN h ELSE q[j]
    BY <1>2
  <2>3. Len(q) # 0
    BY <1>2
  <2> HIDE DEF t
  <2>4. t # <<>>
    BY <2>1, <2>3
  <2> QED  BY <2>1, <2>2, <2>4
<1>7. \A r \in Nat : OneAt(q, r) => OneAt(t, r)
  <2> HIDE DEF h, q, t
  <2> QED  BY <1>2, <1>5, <1>6 DEF OneAt
<1>8. q # <<>>
  BY <1>2
<1>9. t[i] = h
  BY <1>2, <1>6
<1> HIDE DEF t, h
<1>10. nflog'[p] = t /\ \A n \in Bundles : n # p => nflog'[n] = nflog[n]
  BY <1>1, <1>4 DEF SyncType
<1>11. nflog' \in [Bundles -> Seq(RuleGroup)]
  BY <1>1, <1>4, <1>6 DEF SyncType
<1>12. \A n \in Bundles, r \in Nat :
          /\ OneAt(nflog[n], r) => OneAt(nflog'[n], r)
          /\ nflog[n] = <<>> => nflog'[n] = <<>>
  BY <1>7, <1>8, <1>10
<1>13. OneMore(p, d, i)
  <2>1. nflog'[p][i] = h
    BY <1>9, <1>10
  <2>2. g.pkts \in [Dirs -> Nat]
    BY <1>2 DEF RuleGroup
  <2>3. \A e \in Dirs : h.pkts[e] = IF e = d THEN g.pkts[e] + 1 ELSE g.pkts[e]
    BY <1>5, <2>2
  <2> QED  BY <2>1, <2>3 DEF OneMore
<1>14. Len(nflog'[p]) = Len(nflog[p]) /\ nflog[p] # <<>> /\ nflog'[p] # <<>>
  BY <1>6, <1>8, <1>10
<1>15. \A n \in Bundles : n # p => nflog'[n] = nflog[n]
  BY <1>10
<1> QED  BY <1>11, <1>12, <1>13, <1>14, <1>15

LEMMA SyncStep == SyncInv /\ TypeOK' /\ [SflowNext]_sflowvars => SyncInv'
<1> SUFFICES ASSUME SyncInv, TypeOK', [SflowNext]_sflowvars PROVE SyncInv'
  OBVIOUS
<1> USE DEF SyncInv
<1>1. ASSUME UNCHANGED <<sflow, brSflow, dead, nflog, agent, asicSflow>>,
             is_sflow_enabled' \subseteq Bundles
      PROVE  SyncInv'
  BY <1>1 DEF SyncType, SflowInSync
<1>2. bundles' \subseteq Bundles
  BY DEF TypeOK
<1>3. ASSUME NEW b \in Bundles, NEW s \in Requests(b), NEW on \in BOOLEAN, SetBundle(b, s, on)
      PROVE  SyncInv'
  BY <1>1, <1>2, <1>3 DEF SetBundle, outside
<1>4. CASE OtherHandler
  BY <1>1, <1>2, <1>4 DEF OtherHandler, outside
<1>5. ASSUME NEW p \in Ports, ReopenNetdev(p) \/ netdev_sim_update_sflow_stats(p)
      PROVE  SyncInv'
  BY <1>1, <1>5 DEF ReopenNetdev, netdev_sim_update_sflow_stats, outside, SyncType
<1>6. CASE set_sflow_off
  <2>1. /\ sflow' = Disabled /\ nflog' = NoRules /\ agent' = NoCfg
        /\ UNCHANGED <<is_sflow_enabled, brSflow, asicSflow, dead>>
    BY <1>6 DEF set_sflow_off, OnVrf, SflowCall
  <2>2. Disabled \in Local /\ Disabled.cfg = NoCfg
    BY DEF Disabled, NewSflow, Local
  <2>3. SyncType'
    BY <2>1, <2>2, NoRulesFacts DEF SyncType
  <2> QED  BY <2>1, <2>2, <2>3 DEF SflowInSync
<1>7. ASSUME NEW o \in SflowRequests, set_sflow_same(o) \/ set_sflow_new(o) PROVE SyncInv'
  <2>1. UNCHANGED <<is_sflow_enabled, brSflow, asicSflow, dead>>
    BY <1>7 DEF set_sflow_same, set_sflow_new, OnVrf, SflowCall
  <2>2. /\ nflog' \in [Bundles -> Seq(RuleGroup)]
        /\ \A n \in Bundles : IF n \in is_sflow_enabled
                              THEN OneAt(nflog'[n], o.sampling_rate) ELSE nflog'[n] = <<>>
        /\ sflow' \in Local
        /\ sflow'.cfg = o /\ sflow'.ports = is_sflow_enabled /\ ~sflow'.disabled
        /\ agent' = o
    BY <1>7, ConfiguredFacts
  <2>3. SyncType'
    BY <2>1, <2>2 DEF SyncType
  <2>4. ~dead => asicSflow' = brSflow'.cfg
    BY <2>1 DEF SflowInSync
  <2> QED  BY <2>1, <2>2, <2>3, <2>4 DEF SflowInSync, OneAt
<1>8. ASSUME NEW o \in SflowRequests, set_sflow_dies(o) PROVE SyncInv'
  <2>1. PICK del \in SUBSET (Deletes(sflow.ports) \cap bundles) :
            nflog' = EditRules(nflog, sflow.ports, del, o.sampling_rate)
    BY <1>8 DEF set_sflow_dies
  <2>2. /\ ~dead /\ o = sflow.cfg /\ dead' = TRUE
        /\ UNCHANGED <<sflow, brSflow, is_sflow_enabled>>
    BY <1>8 DEF set_sflow_dies, OnVrf, SflowCall
  <2>3. /\ o.sampling_rate \in Nat
        /\ del \in SUBSET (sflow.ports \ is_sflow_enabled)
    BY RequestFacts DEF Deletes
  <2>4. \A n \in Bundles : IF n \in sflow.ports THEN OneAt(nflog[n], o.sampling_rate)
                           ELSE nflog[n] = <<>>
    BY <2>2, RulesBefore
  <2>5. nflog' \in [Bundles -> Seq(RuleGroup)]
    <3>1. nflog \in [Bundles -> Seq(RuleGroup)]
      BY DEF SyncType
    <3> QED  BY <2>1, <2>3, <2>4, <3>1, EditFacts
  <2> QED  BY <2>2, <2>5 DEF SyncType, SflowInSync
<1>9. ASSUME OnBridge, brSflow' \in Local, asicSflow' = brSflow'.cfg PROVE SyncInv'
  BY <1>9 DEF OnBridge, SflowCall, SyncType, SflowInSync
<1>10. CASE set_sflow_bridge_off
  <2>1. Disabled \in Local /\ Disabled.cfg = NoCfg
    BY DEF Disabled, NewSflow, Local
  <2> QED  BY <1>9, <1>10, <2>1 DEF set_sflow_bridge_off
<1>11. ASSUME NEW o \in SflowRequests, set_sflow_bridge(o) PROVE SyncInv'
  <2>1. [NewSflow EXCEPT !.cfg = o] \in Local /\ [NewSflow EXCEPT !.cfg = o].cfg = o
    BY DEF NewSflow, Local
  <2>2. CASE ~set_sflow_bridge_off
    BY <1>9, <1>11, <2>1, <2>2 DEF set_sflow_bridge
  <2> QED  BY <1>10, <2>2
<1>12. ASSUME NEW p \in Ports, NEW d \in Dirs, NEW i \in DOMAIN nflog[p], Sample(p, d, i)
       PROVE  SyncInv'
  <2>1. /\ nflog' \in [Bundles -> Seq(RuleGroup)]
        /\ \A n \in Bundles, r \in Nat :
              /\ OneAt(nflog[n], r) => OneAt(nflog'[n], r)
              /\ nflog[n] = <<>> => nflog'[n] = <<>>
    BY <1>12, SampleFacts
  <2>2. UNCHANGED <<is_sflow_enabled, sflow, brSflow, dead, agent, asicSflow>>
    BY <1>12 DEF Sample, switchd
  <2>3. SyncType'
    BY <2>1, <2>2 DEF SyncType
  <2>4. ASSUME ~dead, sflow.cfg # NoCfg
        PROVE  /\ agent = sflow.cfg
               /\ \A n \in Bundles : IF n \in sflow.ports
                                     THEN OneAt(nflog'[n], agent.sampling_rate)
                                     ELSE nflog'[n] = <<>>
    <3>1. sflow.cfg \in SflowRequests
      BY <2>4 DEF SyncType, Local
    <3>2. sflow.cfg.sampling_rate \in Nat
      BY <3>1, RequestFacts
    <3> QED  BY <2>1, <2>4, <3>1, <3>2, RulesBefore
  <2>5. ~dead /\ sflow.disabled => nflog' = NoRules /\ agent = NoCfg
    <3> SUFFICES ASSUME ~dead, sflow.disabled PROVE nflog' = NoRules /\ agent = NoCfg
      OBVIOUS
    <3>1. nflog = NoRules /\ agent = NoCfg
      BY DEF SflowInSync
    <3>2. \A n \in Bundles : nflog'[n] = <<>>
      BY <2>1, <3>1 DEF NoRules
    <3> QED  BY <2>1, <3>1, <3>2 DEF NoRules
  <2>6. ~dead => asicSflow = brSflow.cfg
    BY DEF SflowInSync
  <2> QED  BY <2>2, <2>3, <2>4, <2>5, <2>6 DEF SflowInSync, OneAt
<1>13. CASE SflowBoot
  <2>1. NewSflow \in Local /\ NewSflow.cfg = NoCfg /\ ~NewSflow.disabled
    BY DEF NewSflow, Local
  <2>2. /\ is_sflow_enabled' = {} /\ sflow' = NewSflow /\ brSflow' = NewSflow
        /\ dead' = FALSE /\ asicSflow' = NoCfg /\ UNCHANGED nflog
    BY <1>13 DEF SflowBoot
  <2> QED  BY <2>1, <2>2 DEF SyncType, SflowInSync
<1>14. CASE UNCHANGED sflowvars
  BY <1>1, <1>14 DEF sflowvars, switchd, outside, SyncType
<1> QED  BY <1>3, <1>4, <1>5, <1>6, <1>7, <1>8, <1>10, <1>11, <1>12, <1>13, <1>14
         DEF SflowNext, set_sflow

(* The VRF of SimSflow is one of SimBundle.                                *)
LEMMA SflowIsBundle == SflowSpec => []TypeOK /\ []ShapeInv
<1>1. [SflowNext]_sflowvars => [Next]_vars
  <2>1. SflowNext => [Next]_vars
    <3>1. OtherHandler => Handler
      BY DEF OtherHandler, Handler
    <3>2. \A b \in Bundles : \A s \in Requests(b), on \in BOOLEAN :
             SetBundle(b, s, on) => Handler
      BY DEF SetBundle, Handler
    <3>3. SflowBoot => Boot
      BY DEF SflowBoot
    <3>4. \A p \in Ports : ReopenNetdev(p) \/ netdev_sim_update_sflow_stats(p) => UNCHANGED vars
      BY DEF ReopenNetdev, netdev_sim_update_sflow_stats
    <3>5. set_sflow_off \/ set_sflow_bridge_off => UNCHANGED vars
      BY DEF set_sflow_off, set_sflow_bridge_off, OnVrf, OnBridge, SflowCall
    <3>6. \A o \in SflowRequests :
             set_sflow(o) \/ set_sflow_dies(o) \/ set_sflow_bridge(o) => UNCHANGED vars
      BY DEF set_sflow, set_sflow_off, set_sflow_same, set_sflow_new, set_sflow_dies,
             set_sflow_bridge, set_sflow_bridge_off, OnVrf, OnBridge, SflowCall
    <3>7. \A p \in Ports, d \in Dirs : \A i \in DOMAIN nflog[p] :
             Sample(p, d, i) => UNCHANGED vars
      BY DEF Sample
    <3> QED  BY <3>1, <3>2, <3>3, <3>4, <3>5, <3>6, <3>7 DEF SflowNext, Next
  <2>2. UNCHANGED sflowvars => UNCHANGED vars
    BY DEF sflowvars
  <2> QED  BY <2>1, <2>2
<1>2. SflowInit => Init
  BY DEF SflowInit
<1> QED  BY <1>1, <1>2, TypeCorrect, ShapeCorrect, PTL DEF SflowSpec, Spec

LEMMA SyncCorrect == SflowSpec => []SyncInv
<1>1. SflowInit => SyncInv
  <2>1. NewSflow \in Local /\ NewSflow.cfg = NoCfg /\ ~NewSflow.disabled
    BY DEF NewSflow, Local
  <2> QED  BY <2>1, NoRulesFacts DEF SflowInit, SyncInv, SyncType, SflowInSync
<1> QED  BY <1>1, SyncStep, SflowIsBundle, PTL DEF SflowSpec

(* For any bundles, interfaces and requests: rules, agent and ASIC record  *)
(* are those of the local configurations as long as the process lives,     *)
(* though rules and agent outlive it and set_sflow may die half way.       *)
THEOREM SflowStaysInSync == SflowSpec => []SflowInSync
<1>1. SyncInv => SflowInSync
  BY DEF SyncInv
<1> QED  BY <1>1, SyncCorrect, PTL

(* For any bundles and requests: a set_sflow that configures and returns   *)
(* leaves rules for the enabled bundles and for no others.                 *)
THEOREM EnabledAreSampled == SflowSpec => SamplesEnabledBundles
<1>1. SyncInv /\ [SflowNext]_sflowvars =>
         [\A o \in SflowRequests :
             ~Off(o) /\ set_sflow(o) =>
                {n \in Bundles : nflog'[n] # <<>>} = is_sflow_enabled]_sflowvars
  <2> SUFFICES ASSUME SyncInv, NEW o \in SflowRequests, ~Off(o), set_sflow(o)
               PROVE  {n \in Bundles : nflog'[n] # <<>>} = is_sflow_enabled
    OBVIOUS
  <2>1. set_sflow_same(o) \/ set_sflow_new(o)
    BY DEF set_sflow
  <2>2. \A n \in Bundles : IF n \in is_sflow_enabled
                           THEN OneAt(nflog'[n], o.sampling_rate) ELSE nflog'[n] = <<>>
    BY <2>1, ConfiguredFacts
  <2>3. \A n \in Bundles : n \in is_sflow_enabled <=> nflog'[n] # <<>>
    BY <2>2 DEF OneAt
  <2>4. is_sflow_enabled \subseteq Bundles
    BY DEF SyncInv, SyncType
  <2> QED  BY <2>3, <2>4
<1> QED  BY <1>1, SyncCorrect, PTL DEF SflowSpec, SamplesEnabledBundles

-----------------------------------------------------------------------------
(* Types                                                                   *)

LEMMA NewNetdevType == NewNetdev \in Netdev
  BY DEF NewNetdev, Netdev, Zero

(* What set_sflow does to the netdev of p.                                 *)
LEMMA MarkFacts ==
    ASSUME netdev \in [Ports -> Netdev], NEW had, NEW del
    PROVE  /\ MarkNetdevs(had, del) \in [Ports -> Netdev]
           /\ \A p \in Ports :
                 LET n == MarkNetdevs(had, del)[p]
                 IN  /\ n.stats = netdev[p].stats /\ n.sflow_prev = netdev[p].sflow_prev
                     /\ bundle[p] \in Adds(had) =>
                           n.sflow_stats_enabled /\ n.sflow_resets
                     /\ bundle[p] \notin Adds(had) /\ bundle[p] \in del =>
                           ~n.sflow_stats_enabled
                     /\ bundle[p] \notin Adds(had) \cup del => n = netdev[p]
<1> DEFINE m == MarkNetdevs(had, del)
<1>1. ASSUME NEW p \in Ports
      PROVE  /\ m[p] \in Netdev
             /\ m[p].stats = netdev[p].stats /\ m[p].sflow_prev = netdev[p].sflow_prev
             /\ bundle[p] \in Adds(had) => m[p].sflow_stats_enabled /\ m[p].sflow_resets
             /\ bundle[p] \notin Adds(had) /\ bundle[p] \in del => ~m[p].sflow_stats_enabled
             /\ bundle[p] \notin Adds(had) \cup del => m[p] = netdev[p]
  <2> DEFINE n == netdev[p]
  <2>1. n \in Netdev
    OBVIOUS
  <2>2. m[p] = IF bundle[p] \in Adds(had)
               THEN [n EXCEPT !.sflow_stats_enabled = TRUE, !.sflow_resets = TRUE]
               ELSE IF bundle[p] \in del THEN [n EXCEPT !.sflow_stats_enabled = FALSE]
               ELSE n
    BY DEF MarkNetdevs
  <2> HIDE DEF m, n
  <2>3. CASE bundle[p] \in Adds(had)
    <3>1. m[p] = [n EXCEPT !.sflow_stats_enabled = TRUE, !.sflow_resets = TRUE]
      BY <2>2, <2>3
    <3> QED  BY <2>1, <2>3, <3>1 DEF Netdev, n
  <2>4. CASE bundle[p] \notin Adds(had) /\ bundle[p] \in del
    <3>1. m[p] = [n EXCEPT !.sflow_stats_enabled = FALSE]
      BY <2>2, <2>4
    <3> QED  BY <2>1, <2>4, <3>1 DEF Netdev, n
  <2>5. CASE bundle[p] \notin Adds(had) /\ bundle[p] \notin del
    BY <2>1, <2>2, <2>5 DEF n
  <2> QED  BY <2>3, <2>4, <2>5
<1>2. m = [p \in Ports |-> m[p]]
  BY DEF MarkNetdevs
<1> HIDE DEF m
<1>3. m \in [Ports -> Netdev]
  BY <1>1, <1>2
<1> QED  BY <1>1, <1>3 DEF m

(* What a poll does to the netdev of p, and that it touches no other.      *)
LEMMA PollFacts ==
    ASSUME nflog \in [Bundles -> Seq(RuleGroup)], netdev \in [Ports -> Netdev],
           NEW p \in Ports, netdev_sim_update_sflow_stats(p)
    PROVE  /\ netdev' \in [Ports -> Netdev]
           /\ \A o \in Ports : o # p => netdev'[o] = netdev[o]
           /\ netdev'[p].sflow_stats_enabled = netdev[p].sflow_stats_enabled
           /\ ~netdev'[p].sflow_resets
           /\ netdev'[p].stats = [d \in Dirs |-> netdev[p].stats[d] + Increment(p, d)]
           /\ netdev'[p].sflow_prev = [d \in Dirs |-> netdev_sim_get_iptable_stats(p, d)]
<1> DEFINE n == netdev[p]
           st == [d \in Dirs |-> n.stats[d] + Increment(p, d)]
           pr == [d \in Dirs |-> netdev_sim_get_iptable_stats(p, d)]
           m == [n EXCEPT !.stats = st, !.sflow_prev = pr, !.sflow_resets = FALSE]
<1>1. n \in Netdev
  OBVIOUS
<1>2. \A d \in Dirs : n.stats[d] \in Nat
  BY <1>1 DEF Netdev
<1>3. \A d \in Dirs : netdev_sim_get_iptable_stats(p, d) \in Nat /\ Increment(p, d) \in Nat
  BY IncrementNat
<1>4. st \in [Dirs -> Nat] /\ pr \in [Dirs -> Nat]
  BY <1>2, <1>3
<1>5. netdev' = [netdev EXCEPT ![p].stats = [d \in Dirs |-> netdev[p].stats[d] + Increment(p, d)],
          ![p].sflow_prev = [d \in Dirs |-> netdev_sim_get_iptable_stats(p, d)],
          ![p].sflow_resets = FALSE]
  BY DEF netdev_sim_update_sflow_stats
<1>6. netdev' = [netdev EXCEPT ![p].stats = st, ![p].sflow_prev = pr, ![p].sflow_resets = FALSE]
  BY <1>5
<1> HIDE DEF st, pr
<1>7. netdev' = [netdev EXCEPT ![p] = m]
  BY <1>1, <1>6 DEF Netdev
<1> HIDE DEF n
<1>8. /\ m \in Netdev /\ ~m.sflow_resets /\ m.stats = st /\ m.sflow_prev = pr
      /\ m.sflow_stats_enabled = n.sflow_stats_enabled
  BY <1>1, <1>4 DEF Netdev
<1> HIDE DEF m
<1>9. netdev'[p] = m /\ (\A o \in Ports : o # p => netdev'[o] = netdev[o])
  BY <1>7
<1>10. netdev' \in [Ports -> Netdev]
  BY <1>7, <1>8
<1> QED  BY <1>8, <1>9, <1>10 DEF n, st, pr

(* The rest of the type invariant beside SyncType.                         *)
PollType ==
    /\ agent \in SflowRequests \cup {NoCfg}
    /\ asicSflow \in SflowRequests \cup {NoCfg}
    /\ netdev \in [Ports -> Netdev]
    /\ sampled \in [Ports -> [Dirs -> Nat]]

LEMMA PollTypeStep == SyncInv /\ PollType /\ [SflowNext]_sflowvars => PollType'
<1> SUFFICES ASSUME SyncInv, PollType, [SflowNext]_sflowvars PROVE PollType'
  OBVIOUS
<1> USE DEF PollType
<1>1. nflog \in [Bundles -> Seq(RuleGroup)]
  BY DEF SyncInv, SyncType
<1>2. ASSUME NEW b \in Bundles, NEW s \in Requests(b), NEW on \in BOOLEAN, SetBundle(b, s, on)
      PROVE  PollType'
  BY <1>2 DEF SetBundle, outside
<1>3. CASE OtherHandler
  BY <1>3 DEF OtherHandler, outside
<1>4. ASSUME NEW p \in Ports, ReopenNetdev(p) PROVE PollType'
  <2>1. Zero \in [Dirs -> Nat]
    BY DEF Zero
  <2> QED  BY <1>4, <2>1, NewNetdevType DEF ReopenNetdev
<1>5. ASSUME NEW p \in Ports, netdev_sim_update_sflow_stats(p) PROVE PollType'
  <2>1. netdev' \in [Ports -> Netdev]
    BY <1>1, <1>5, PollFacts
  <2> QED  BY <1>5, <2>1 DEF netdev_sim_update_sflow_stats, outside
<1>6. CASE set_sflow_off
  BY <1>6 DEF set_sflow_off, OnVrf, SflowCall
<1>7. ASSUME NEW o \in SflowRequests, set_sflow_same(o) \/ set_sflow_new(o) PROVE PollType'
  <2>1. PICK had : netdev' = MarkNetdevs(had, Deletes(had))
    BY <1>7 DEF set_sflow_same, set_sflow_new, sflow_iptables_reconfigure
  <2>2. netdev' \in [Ports -> Netdev]
    BY <2>1, MarkFacts
  <2> QED  BY <1>7, <2>2 DEF set_sflow_same, set_sflow_new, OnVrf, SflowCall
<1>8. ASSUME NEW o \in SflowRequests, set_sflow_dies(o) PROVE PollType'
  <2>1. PICK del : netdev' = MarkNetdevs(sflow.ports, del)
    BY <1>8 DEF set_sflow_dies
  <2>2. netdev' \in [Ports -> Netdev]
    BY <2>1, MarkFacts
  <2> QED  BY <1>8, <2>2 DEF set_sflow_dies, OnVrf, SflowCall
<1>9. CASE set_sflow_bridge_off
  BY <1>9 DEF set_sflow_bridge_off, OnBridge, SflowCall
<1>10. ASSUME NEW o \in SflowRequests, set_sflow_bridge(o) PROVE PollType'
  BY <1>9, <1>10 DEF set_sflow_bridge, OnBridge, SflowCall
<1>11. ASSUME NEW p \in Ports, NEW d \in Dirs, NEW i \in DOMAIN nflog[p], Sample(p, d, i)
       PROVE  PollType'
  <2>1. sampled' = [sampled EXCEPT ![p][d] = sampled[p][d] + 1]
    BY <1>11 DEF Sample
  <2>2. sampled' \in [Ports -> [Dirs -> Nat]]
    BY <2>1
  <2> QED  BY <1>11, <2>2 DEF Sample, switchd
<1>12. CASE SflowBoot
  <2>1. Zero \in [Dirs -> Nat]
    BY DEF Zero
  <2> QED  BY <1>12, <2>1, NewNetdevType DEF SflowBoot
<1>13. CASE UNCHANGED sflowvars
  BY <1>13 DEF sflowvars, switchd, outside
<1> QED  BY <1>2, <1>3, <1>4, <1>5, <1>6, <1>7, <1>8, <1>9, <1>10, <1>11, <1>12, <1>13
         DEF SflowNext, set_sflow

LEMMA PollTypeCorrect == SflowSpec => []PollType
<1>1. SflowInit => PollType
  <2>1. Zero \in [Dirs -> Nat]
    BY DEF Zero
  <2> QED  BY <2>1, NewNetdevType DEF SflowInit, PollType
<1> QED  BY <1>1, PollTypeStep, SyncCorrect, PTL DEF SflowSpec

(* For any bundles, interfaces, requests and names that grep finds: every  *)
(* variable stays in its set.  In particular the statistics of a netdev    *)
(* are natural numbers: netdev_sim_update_sflow_stats never subtracts a    *)
(* counter from a smaller one, though rules are deleted, made anew and     *)
(* inherited from a process before.                                        *)
THEOREM SflowTypeCorrect == SflowSpec => []SflowTypeOK
<1>1. SyncInv /\ PollType => SflowTypeOK
  BY DEF SyncInv, SyncType, Local, PollType, SflowTypeOK
<1> QED  BY <1>1, SyncCorrect, PollTypeCorrect, PTL

-----------------------------------------------------------------------------
(* The statistics implement SflowCounter                                   *)

(* When grep finds the rules of the port itself only, a poll reads the     *)
(* counter of its one group.                                               *)
LEMMA TotalOne ==
    ASSUME NEW p \in Ports, Matches[p] = {p}, NEW d \in Dirs, NEW f,
           f[p] \in Seq(RuleGroup), Len(f[p]) <= 1
    PROVE  Total(f, p, d) = IF f[p] = <<>> THEN 0 ELSE f[p][1].pkts[d]
<1> DEFINE q == f[p]
           C == Counted(q, d)
<1>1. UNION {{n} \X Counted(f[n], d) : n \in Matches[p]} = {p} \X C
  OBVIOUS
<1>2. IsFiniteSet({p}) /\ Cardinality({p}) = 1
  BY FS_Singleton
<1>3. IsFiniteSet(C)
  BY CountedFinite
<1>4. Cardinality(C) \in Nat
  BY <1>3, FS_CardinalityType
<1>5. Cardinality({p} \X C) = Cardinality({p}) * Cardinality(C)
  BY <1>2, <1>3, FS_Product
<1>6. Total(f, p, d) = Cardinality(C)
  <2>1. Total(f, p, d) = Cardinality({p} \X C)
    BY <1>1 DEF Total
  <2> DEFINE c == Cardinality(C)
  <2>2. Cardinality({p} \X C) = 1 * c /\ c \in Nat
    BY <1>2, <1>4, <1>5
  <2> HIDE DEF c
  <2>3. Cardinality({p} \X C) = c
    BY <2>2
  <2> QED  BY <2>1, <2>3 DEF c
<1>7. CASE q = <<>>
  <2>1. C = {}
    BY <1>7 DEF Counted
  <2>2. Cardinality(C) = 0
    BY <2>1, FS_EmptySet
  <2> QED  BY <1>6, <1>7, <2>2
<1>8. CASE q # <<>>
  <2> DEFINE k == q[1].pkts[d]
  <2>1. DOMAIN q = {1} /\ q[1] \in RuleGroup
    BY <1>8
  <2>2. k \in Nat
    BY <2>1 DEF RuleGroup
  <2>3. C = {1} \X (1 .. k)
    BY <2>1 DEF Counted
  <2> HIDE DEF k
  <2>4. IsFiniteSet({1}) /\ Cardinality({1}) = 1
    BY FS_Singleton
  <2>5. IsFiniteSet(1 .. k) /\ Cardinality(1 .. k) = IF 1 > k THEN 0 ELSE k - 1 + 1
    <3>1. k \in Int /\ 1 \in Int
      BY <2>2
    <3> QED  BY <3>1, FS_Interval
  <2>6. Cardinality(1 .. k) = k
    BY <2>2, <2>5
  <2>7. Cardinality({1} \X (1 .. k)) = Cardinality({1}) * Cardinality(1 .. k)
    BY <2>4, <2>5, FS_Product
  <2>8. Cardinality(C) = k
    BY <2>2, <2>3, <2>4, <2>6, <2>7
  <2> QED  BY <1>6, <1>8, <2>8 DEF k
<1> QED  BY <1>7, <1>8

(* While the process lives, an interface whose polls report samples has at *)
(* most one group of rules, and unless the next poll knows of the restart, *)
(* the group has counted on from the last poll.                            *)
CountInv ==
    ~dead => \A p \in Ports : netdev[p].sflow_stats_enabled =>
        /\ Len(nflog[p]) <= 1
        /\ p \in Exact /\ ~netdev[p].sflow_resets /\ nflog[p] # <<>> =>
              \A d \in Dirs : netdev[p].sflow_prev[d] <= nflog[p][1].pkts[d]

(* The flag is one of a bundle that exists.                                *)
FlaggedExist == is_sflow_enabled \subseteq bundles

(* What the next poll of p will add, read off its group of rules.          *)
Pend(p, d) ==
    IF netdev[p].sflow_stats_enabled /\ nflog[p] # <<>>
    THEN IF netdev[p].sflow_resets THEN nflog[p][1].pkts[d]
         ELSE nflog[p][1].pkts[d] - netdev[p].sflow_prev[d]
    ELSE 0

PendingRead == ~dead => \A p \in Exact, d \in Dirs : Increment(p, d) = Pend(p, d)

LEMMA StatsRead ==
    ASSUME SyncInv, PollType, CountInv, ~dead, NEW p \in Exact, NEW d \in Dirs
    PROVE  netdev_sim_get_iptable_stats(p, d) =
              IF netdev[p].sflow_stats_enabled /\ nflog[p] # <<>>
              THEN nflog[p][1].pkts[d] ELSE 0
<1>1. p \in Ports /\ nflog[p] \in Seq(RuleGroup) /\ Matches[p] = {p}
  BY DEF SyncInv, SyncType, Bundles, Exact
<1>2. CASE netdev[p].sflow_stats_enabled
  <2>1. Len(nflog[p]) <= 1
    BY <1>1, <1>2 DEF CountInv
  <2>2. Total(nflog, p, d) = IF nflog[p] = <<>> THEN 0 ELSE nflog[p][1].pkts[d]
    BY <1>1, <2>1, TotalOne
  <2> QED  BY <1>1, <1>2, <2>2, StatsAreTotals
<1>3. CASE ~netdev[p].sflow_stats_enabled
  BY <1>1, <1>3, StatsAreTotals
<1> QED  BY <1>2, <1>3

LEMMA PendingIsRead ==
    ASSUME SyncInv, PollType, CountInv
    PROVE  PendingRead
<1> SUFFICES ASSUME ~dead, NEW p \in Exact, NEW d \in Dirs
             PROVE  Increment(p, d) = Pend(p, d)
  BY DEF PendingRead
<1> DEFINE n(e) == netdev_sim_get_iptable_stats(p, e)
           prev == netdev[p].sflow_prev
<1>0. p \in Ports
  BY DEF Exact
<1>1. \A e \in Dirs : n(e) \in Nat /\ prev[e] \in Nat
  <2>1. nflog \in [Bundles -> Seq(RuleGroup)] /\ netdev \in [Ports -> Netdev]
    BY DEF SyncInv, SyncType, PollType
  <2>2. \A e \in Dirs : n(e) \in Nat
    BY <1>0, <2>1, IncrementNat
  <2>3. prev \in [Dirs -> Nat]
    BY <1>0, <2>1 DEF Netdev
  <2> QED  BY <2>2, <2>3
<1>2. Increment(p, d) = IF StartedAgain(p) THEN n(d) ELSE n(d) - prev[d]
  BY DEF Increment
<1>3. StartedAgain(p) <=> netdev[p].sflow_resets \/ \E e \in Dirs : prev[e] > n(e)
  BY DEF StartedAgain
<1>4. CASE netdev[p].sflow_stats_enabled /\ nflog[p] # <<>>
  <2>1. \A e \in Dirs : n(e) = nflog[p][1].pkts[e]
    BY <1>4, StatsRead
  <2>2. CASE netdev[p].sflow_resets
    BY <1>2, <1>3, <1>4, <2>1, <2>2 DEF Pend
  <2>3. CASE ~netdev[p].sflow_resets
    <3>1. \A e \in Dirs : prev[e] <= n(e)
      BY <1>0, <1>4, <2>1, <2>3 DEF CountInv
    <3> HIDE DEF n, prev
    <3>2. ~\E e \in Dirs : prev[e] > n(e)
      BY <1>1, <3>1
    <3>3. Increment(p, d) = n(d) - prev[d]
      BY <1>2, <1>3, <2>3, <3>2
    <3> QED  BY <1>4, <2>1, <2>3, <3>3 DEF Pend, prev
  <2> QED  BY <2>2, <2>3
<1>5. CASE ~(netdev[p].sflow_stats_enabled /\ nflog[p] # <<>>)
  <2>1. n(d) = 0
    BY <1>5, StatsRead
  <2> HIDE DEF n, prev
  <2>2. Increment(p, d) = 0
    BY <1>1, <1>2, <1>3, <2>1
  <2> QED  BY <1>5, <2>2 DEF Pend
<1> QED  BY <1>4, <1>5

(* A bundle of the ofproto that has the name of a port holds that port.    *)
LEMMA OwnBundle ==
    ASSUME TypeOK, Intact, ShapeInv, NEW p \in Ports, p \in bundles
    PROVE  bundle[p] = p
<1>1. p \in Bundles \ Lags
  BY NamesAssumption DEF Bundles, Ports
<1>2. ports[p] = {p}
  BY <1>1 DEF ShapeInv, Shape
<1> QED  BY <1>1, <1>2 DEF Intact, ListMatchesPointer

(* What set_sflow leaves as it was for the port p.                         *)
Kept(p) == netdev'[p] = netdev[p] /\ nflog'[p] = nflog[p]

(* Nothing is pending, and the next poll need not know more.               *)
Cleared(p) ==
    \/ ~netdev'[p].sflow_stats_enabled
    \/ nflog'[p] = <<>>
    \/ netdev'[p].sflow_resets /\ Len(nflog'[p]) = 1 /\ nflog'[p][1].pkts = Zero

(* A set_sflow that configures changes nothing for a port or clears it.    *)
LEMMA ConfiguredPort ==
    ASSUME SyncInv, PollType, TypeOK, Intact, ShapeInv, FlaggedExist,
           NEW o \in SflowRequests, set_sflow_same(o) \/ set_sflow_new(o), NEW p \in Ports
    PROVE  /\ netdev'[p].stats = netdev[p].stats
           /\ Kept(p) \/ Cleared(p)
<1>1. p \in Bundles /\ netdev \in [Ports -> Netdev] /\ nflog \in [Bundles -> Seq(RuleGroup)]
  BY DEF Bundles, PollType, SyncInv, SyncType
<1>2. o.sampling_rate \in Nat
  BY RequestFacts
<1>3. p \notin is_sflow_enabled => nflog'[p] = <<>>
  BY <1>1, ConfiguredFacts
<1>4. p \in is_sflow_enabled => bundle[p] = p
  BY OwnBundle DEF FlaggedExist
<1>5. CASE set_sflow_new(o)
  <2>1. /\ netdev' = MarkNetdevs({}, Deletes({}))
        /\ nflog' = EditRules(NoRules, {}, Deletes({}), o.sampling_rate)
    BY <1>5 DEF set_sflow_new, sflow_iptables_reconfigure
  <2>2. netdev'[p].stats = netdev[p].stats
        /\ (bundle[p] \in Adds({}) => netdev'[p].sflow_resets)
    BY <1>1, <2>1, MarkFacts
  <2>3. CASE p \in is_sflow_enabled
    <3>1. p \in Adds({}) /\ bundle[p] \in Adds({})
      BY <1>4, <2>3 DEF Adds
    <3>2. nflog'[p] = sflow_iptable_add(<<>>, o.sampling_rate)
      BY <1>1, <2>1, <3>1 DEF EditRules, NoRules
    <3>3. Len(nflog'[p]) = 1 /\ nflog'[p][1].pkts = Zero
      BY <1>2, <3>2, AddOne DEF OneAt
    <3> QED  BY <2>2, <3>1, <3>3 DEF Cleared
  <2>4. CASE p \notin is_sflow_enabled
    BY <1>3, <2>2, <2>4 DEF Cleared
  <2> QED  BY <2>3, <2>4
<1>6. CASE set_sflow_same(o)
  <2> DEFINE had == sflow.ports
  <2>1. /\ netdev' = MarkNetdevs(had, Deletes(had))
        /\ nflog' = EditRules(nflog, had, Deletes(had), o.sampling_rate)
        /\ ~dead /\ o = sflow.cfg
    BY <1>6 DEF set_sflow_same, sflow_iptables_reconfigure, OnVrf, SflowCall
  <2>2. nflog'[p] = IF p \in Adds(had) THEN sflow_iptable_add(nflog[p], o.sampling_rate)
                    ELSE IF p \in Deletes(had) THEN sflow_iptable_del(nflog[p], o.sampling_rate)
                    ELSE nflog[p]
    BY <1>1, <2>1 DEF EditRules
  <2>3. p \notin had => nflog[p] = <<>>
    BY <1>1, <2>1, RulesBefore
  <2> HIDE DEF had
  <2>4. /\ netdev'[p].stats = netdev[p].stats
        /\ bundle[p] \in Adds(had) => netdev'[p].sflow_resets
        /\ bundle[p] \notin Adds(had) \cup Deletes(had) => netdev'[p] = netdev[p]
    BY <1>1, <2>1, MarkFacts
  <2>5. CASE p \in Adds(had)
    <3>1. bundle[p] \in Adds(had) /\ nflog[p] = <<>>
      BY <1>4, <2>3, <2>5 DEF Adds
    <3>2. nflog'[p] = sflow_iptable_add(<<>>, o.sampling_rate)
      BY <2>2, <2>5, <3>1
    <3>3. Len(nflog'[p]) = 1 /\ nflog'[p][1].pkts = Zero
      BY <1>2, <3>2, AddOne DEF OneAt
    <3> QED  BY <2>4, <3>1, <3>3 DEF Cleared
  <2>6. CASE p \in is_sflow_enabled /\ p \in had
    <3>1. p \notin Adds(had) \cup Deletes(had) /\ bundle[p] = p
      BY <1>4, <2>6 DEF Adds, Deletes
    <3> QED  BY <2>2, <2>4, <3>1 DEF Kept
  <2>7. CASE p \notin is_sflow_enabled
    BY <1>3, <2>4, <2>7 DEF Cleared
  <2> QED  BY <2>5, <2>6, <2>7 DEF Adds
<1> QED  BY <1>5, <1>6

LEMMA CountStep ==
    /\ SyncInv /\ PollType /\ TypeOK /\ ShapeInv /\ FlaggedExist /\ CountInv
    /\ SyncInv' /\ [SflowNext]_sflowvars
    => CountInv'
<1> SUFFICES ASSUME SyncInv, PollType, TypeOK, ShapeInv, FlaggedExist, CountInv, SyncInv',
                    [SflowNext]_sflowvars
             PROVE  CountInv'
  OBVIOUS
<1>1. /\ nflog \in [Bundles -> Seq(RuleGroup)] /\ nflog' \in [Bundles -> Seq(RuleGroup)]
      /\ netdev \in [Ports -> Netdev] /\ Ports \subseteq Bundles
  BY DEF SyncInv, SyncType, PollType, Bundles
<1>2. ASSUME UNCHANGED <<netdev, nflog, dead>> PROVE CountInv'
  BY <1>2 DEF CountInv
<1>3. ASSUME NEW b \in Bundles, NEW s \in Requests(b), NEW on \in BOOLEAN, SetBundle(b, s, on)
      PROVE  CountInv'
  BY <1>2, <1>3 DEF SetBundle, outside
<1>4. CASE OtherHandler
  BY <1>2, <1>4 DEF OtherHandler, outside
<1>5. ASSUME NEW p \in Ports, ReopenNetdev(p) PROVE CountInv'
  <2>1. UNCHANGED <<nflog, dead>> /\ netdev' = [netdev EXCEPT ![p] = NewNetdev]
    BY <1>5 DEF ReopenNetdev
  <2>2. ~netdev'[p].sflow_stats_enabled /\ \A o \in Ports : o # p => netdev'[o] = netdev[o]
    BY <1>1, <2>1 DEF NewNetdev
  <2> QED  BY <2>1, <2>2 DEF CountInv
<1>6. ASSUME NEW p \in Ports, netdev_sim_update_sflow_stats(p) PROVE CountInv'
  <2>1. UNCHANGED <<nflog, dead>> /\ ~dead
    BY <1>6 DEF netdev_sim_update_sflow_stats, outside
  <2>2. /\ \A o \in Ports : o # p => netdev'[o] = netdev[o]
        /\ netdev'[p].sflow_stats_enabled = netdev[p].sflow_stats_enabled
        /\ netdev'[p].sflow_prev = [d \in Dirs |-> netdev_sim_get_iptable_stats(p, d)]
    BY <1>1, <1>6, PollFacts
  <2>3. ASSUME p \in Exact, netdev[p].sflow_stats_enabled, nflog[p] # <<>>, NEW d \in Dirs
        PROVE  netdev'[p].sflow_prev[d] <= nflog[p][1].pkts[d]
    <3>1. netdev'[p].sflow_prev[d] = netdev_sim_get_iptable_stats(p, d)
      BY <2>2
    <3>2. netdev_sim_get_iptable_stats(p, d) = nflog[p][1].pkts[d]
      BY <2>1, <2>3, StatsRead
    <3>3. netdev_sim_get_iptable_stats(p, d) \in Nat
      BY <1>1, IncrementNat
    <3> QED  BY <3>1, <3>2, <3>3
  <2> QED  BY <2>1, <2>2, <2>3 DEF CountInv
<1>7. CASE set_sflow_off
  <2>1. \A p \in Ports : nflog'[p] = <<>> /\ Len(nflog'[p]) <= 1
    BY <1>1, <1>7 DEF set_sflow_off, NoRules
  <2> QED  BY <2>1 DEF CountInv
<1>8. ASSUME NEW o \in SflowRequests, set_sflow_same(o) \/ set_sflow_new(o) PROVE CountInv'
  <2>1. Intact /\ UNCHANGED dead
    BY <1>8 DEF set_sflow_same, set_sflow_new, OnVrf, SflowCall
  <2>2. \A p \in Ports : Len(nflog'[p]) <= 1
    <3>1. \A n \in Bundles : OneAt(nflog'[n], o.sampling_rate) \/ nflog'[n] = <<>>
      BY <1>8, ConfiguredFacts
    <3>2. \A n \in Bundles : Len(nflog'[n]) = 1 \/ Len(nflog'[n]) = 0
      BY <3>1 DEF OneAt
    <3>3. \A k : k = 1 \/ k = 0 => k <= 1
      OBVIOUS
    <3> QED  BY <1>1, <3>2, <3>3
  <2>3. ASSUME NEW p \in Ports, p \in Exact, ~dead, netdev'[p].sflow_stats_enabled,
               ~netdev'[p].sflow_resets, nflog'[p] # <<>>, NEW d \in Dirs
        PROVE  netdev'[p].sflow_prev[d] <= nflog'[p][1].pkts[d]
    <3>1. Kept(p)
      BY <1>8, <2>1, <2>3, ConfiguredPort DEF Cleared
    <3> QED  BY <2>3, <3>1 DEF Kept, CountInv
  <2> QED  BY <2>1, <2>2, <2>3 DEF CountInv
<1>9. ASSUME NEW o \in SflowRequests, set_sflow_dies(o) PROVE CountInv'
  BY <1>9 DEF set_sflow_dies, CountInv
<1>10. CASE set_sflow_bridge_off
  BY <1>2, <1>10 DEF set_sflow_bridge_off, OnBridge, SflowCall
<1>11. ASSUME NEW o \in SflowRequests, set_sflow_bridge(o) PROVE CountInv'
  BY <1>2, <1>10, <1>11 DEF set_sflow_bridge, OnBridge, SflowCall
<1>12. ASSUME NEW p \in Ports, NEW d \in Dirs, NEW i \in DOMAIN nflog[p], Sample(p, d, i)
       PROVE  CountInv'
  <2>1. UNCHANGED <<netdev, dead>>
    BY <1>12 DEF Sample, switchd
  <2>2. /\ \A n \in Bundles : n # p => nflog'[n] = nflog[n]
        /\ Len(nflog'[p]) = Len(nflog[p]) /\ nflog[p] # <<>>
        /\ OneMore(p, d, i)
    <3>1. SyncType
      BY DEF SyncInv
    <3> QED  BY <1>12, <3>1, SampleFacts
  <2>3. ASSUME p \in Exact, ~dead, netdev[p].sflow_stats_enabled, ~netdev[p].sflow_resets,
               NEW e \in Dirs
        PROVE  netdev[p].sflow_prev[e] <= nflog'[p][1].pkts[e]
    <3>1. Len(nflog[p]) <= 1 /\ netdev[p].sflow_prev[e] <= nflog[p][1].pkts[e]
      BY <2>2, <2>3 DEF CountInv
    <3>2. i = 1 /\ nflog[p][1] \in RuleGroup
      BY <1>1, <1>12, <3>1
    <3>3. nflog[p][1].pkts[e] \in Nat /\ netdev[p].sflow_prev[e] \in Nat
      <4>1. netdev[p].sflow_prev \in [Dirs -> Nat] /\ nflog[p][1].pkts \in [Dirs -> Nat]
        BY <1>1, <3>2 DEF Netdev, RuleGroup
      <4> QED  BY <4>1
    <3>4. nflog'[p][1].pkts[e] = IF e = d THEN nflog[p][1].pkts[e] + 1
                                 ELSE nflog[p][1].pkts[e]
      BY <2>2, <3>2 DEF OneMore
    <3> QED  BY <3>1, <3>3, <3>4
  <2> QED  BY <1>1, <2>1, <2>2, <2>3 DEF CountInv
<1>13. CASE SflowBoot
  <2>1. \A p \in Ports : ~netdev'[p].sflow_stats_enabled
    BY <1>13 DEF SflowBoot, NewNetdev
  <2> QED  BY <2>1 DEF CountInv
<1>14. CASE UNCHANGED sflowvars
  BY <1>2, <1>14 DEF sflowvars, switchd, outside
<1> QED  BY <1>3, <1>4, <1>5, <1>6, <1>7, <1>8, <1>9, <1>10, <1>11, <1>12, <1>13, <1>14
         DEF SflowNext, set_sflow

LEMMA FlaggedExistCorrect == SflowSpec => []FlaggedExist
<1>1. SflowInit => FlaggedExist
  BY DEF SflowInit, FlaggedExist
<1>2. FlaggedExist /\ [SflowNext]_sflowvars => FlaggedExist'
  <2> SUFFICES ASSUME FlaggedExist, [SflowNext]_sflowvars PROVE FlaggedExist'
    OBVIOUS
  <2>1. ASSUME UNCHANGED <<vars, is_sflow_enabled>> PROVE FlaggedExist'
    BY <2>1 DEF FlaggedExist, vars, links
  <2>2. CASE OtherHandler \/ SflowBoot
    BY <2>2 DEF OtherHandler, SflowBoot, FlaggedExist
  <2>3. ASSUME NEW b \in Bundles, NEW s \in Requests(b), NEW on \in BOOLEAN, SetBundle(b, s, on)
        PROVE  FlaggedExist'
    BY <2>3 DEF SetBundle, FlaggedExist
  <2>4. ASSUME NEW p \in Ports, ReopenNetdev(p) \/ netdev_sim_update_sflow_stats(p)
        PROVE  FlaggedExist'
    BY <2>1, <2>4 DEF ReopenNetdev, netdev_sim_update_sflow_stats
  <2>5. CASE set_sflow_off \/ set_sflow_bridge_off
    BY <2>1, <2>5 DEF set_sflow_off, set_sflow_bridge_off, OnVrf, OnBridge, SflowCall
  <2>6. ASSUME NEW o \in SflowRequests,
               set_sflow_same(o) \/ set_sflow_new(o) \/ set_sflow_dies(o) \/ set_sflow_bridge(o)
        PROVE  FlaggedExist'
    BY <2>1, <2>5, <2>6 DEF set_sflow_same, set_sflow_new, set_sflow_dies, set_sflow_bridge,
       OnVrf, OnBridge, SflowCall
  <2>7. ASSUME NEW p \in Ports, NEW d \in Dirs, NEW i \in DOMAIN nflog[p], Sample(p, d, i)
        PROVE  FlaggedExist'
    BY <2>1, <2>7 DEF Sample, switchd
  <2>8. CASE UNCHANGED sflowvars
    BY <2>1, <2>8 DEF sflowvars, switchd
  <2> QED  BY <2>2, <2>3, <2>4, <2>5, <2>6, <2>7, <2>8 DEF SflowNext, set_sflow
<1> QED  BY <1>1, <1>2, PTL DEF SflowSpec

LEMMA CountCorrect == SflowSpec => []CountInv
<1>1. SflowInit => CountInv
  BY DEF SflowInit, CountInv, NewNetdev
<1> QED  BY <1>1, CountStep, SyncCorrect, PollTypeCorrect, SflowIsBundle, FlaggedExistCorrect,
            PTL DEF SflowSpec

LEMMA PendingCorrect == SflowSpec => []PendingRead
<1>1. SyncInv /\ PollType /\ CountInv => PendingRead
  BY PendingIsRead
<1> QED  BY <1>1, SyncCorrect, PollTypeCorrect, CountCorrect, PTL

(* The refinement mapping.                                                 *)
sampledBar  == [p \in Exact |-> sampled[p]]
watchedBar  == {p \in Exact : ~dead /\ netdev[p].sflow_stats_enabled}
pendingBar  == [p \in Exact |-> [d \in Dirs |-> IF dead THEN 0 ELSE Increment(p, d)]]
reportedBar == [p \in Exact |-> netdev[p].stats]

(* A dead process has nothing pending, a live one what its rules say.      *)
PendOrDead == pendingBar = [p \in Exact |-> [d \in Dirs |-> IF dead THEN 0 ELSE Pend(p, d)]]

LEMMA PendBar == PendingRead => PendOrDead
  BY DEF PendingRead, PendOrDead, pendingBar

(* Steps that lose what is pending of the ports of S and keep the rest.    *)
LEMMA LoseStep ==
    ASSUME PendOrDead, PendOrDead', NEW S \in SUBSET Exact,
           UNCHANGED <<sampledBar, reportedBar>>,
           \A p \in S, d \in Dirs : dead' \/ Pend(p, d)' = 0,
           S = Exact \/ UNCHANGED dead,
           \A p \in Exact \ S : Kept(p)
    PROVE  Counter!CounterNext
<1>1. PICK W \in SUBSET S : W = watchedBar' \cap S
  OBVIOUS
<1>2. watchedBar' = (watchedBar \ S) \cup W
  BY <1>1 DEF watchedBar, Kept
<1>3. pendingBar' = [p \in Exact |-> IF p \in S THEN Counter!Zero ELSE pendingBar[p]]
  <2>1. ASSUME NEW p \in S
        PROVE  [d \in Dirs |-> IF dead' THEN 0 ELSE Pend(p, d)'] = Counter!Zero
    BY <2>1 DEF Counter!Zero
  <2>2. ASSUME NEW p \in Exact \ S
        PROVE  [d \in Dirs |-> IF dead' THEN 0 ELSE Pend(p, d)'] = pendingBar[p]
    <3>1. UNCHANGED dead /\ \A d \in Dirs : Pend(p, d)' = Pend(p, d)
      BY <2>2 DEF Kept, Pend
    <3> QED  BY <3>1 DEF PendOrDead
  <2>3. pendingBar' = [p \in Exact |-> [d \in Dirs |-> IF dead' THEN 0 ELSE Pend(p, d)']]
    BY DEF PendOrDead
  <2> QED  BY <2>1, <2>2, <2>3
<1>4. Counter!Lose(S, W)
  BY <1>2, <1>3 DEF Counter!Lose, sampledBar, watchedBar, pendingBar, reportedBar
<1> QED  BY <1>1, <1>4 DEF Counter!CounterNext

LEMMA SampleTakes ==
    ASSUME SyncInv, PollType, CountInv, PendOrDead, PendOrDead',
           NEW p \in Exact, NEW d \in Dirs, NEW i \in DOMAIN nflog[p], Sample(p, d, i)
    PROVE  Counter!Take(p, d)
<1>0. p \in Ports
  BY DEF Exact
<1>1. /\ UNCHANGED <<netdev, dead>> /\ p \in Bundles /\ Exact \subseteq Bundles
      /\ sampledBar' = [sampledBar EXCEPT ![p][d] = @ + 1]
  BY DEF Sample, switchd, Bundles, Exact, sampledBar, PollType
<1>2. /\ \A n \in Bundles : n # p => nflog'[n] = nflog[n]
      /\ nflog[p] # <<>> /\ nflog'[p] # <<>> /\ OneMore(p, d, i)
  <2>1. SyncType
    BY DEF SyncInv
  <2> QED  BY <1>0, <2>1, SampleFacts
<1>3. \A o \in Exact, e \in Dirs : o # p => Pend(o, e)' = Pend(o, e)
  BY <1>1, <1>2 DEF Pend
<1>4. CASE p \in watchedBar
  <2>1. ~dead /\ netdev[p].sflow_stats_enabled /\ Len(nflog[p]) <= 1
    BY <1>0, <1>4 DEF watchedBar, CountInv
  <2>2. nflog[p] \in Seq(RuleGroup)
    BY <1>1 DEF SyncInv, SyncType
  <2>3. i = 1 /\ nflog[p][1] \in RuleGroup
    BY <2>1, <2>2
  <2>4. nflog[p][1].pkts \in [Dirs -> Nat] /\ netdev[p].sflow_prev \in [Dirs -> Nat]
    BY <1>0, <2>3 DEF RuleGroup, PollType, Netdev
  <2>5. ASSUME NEW e \in Dirs
        PROVE  Pend(p, e)' = (IF e = d THEN Pend(p, e) + 1 ELSE Pend(p, e)) /\ Pend(p, e) \in Int
    <3>1. /\ nflog'[p][1].pkts[e] = IF e = d THEN nflog[p][1].pkts[e] + 1
                                    ELSE nflog[p][1].pkts[e]
          /\ nflog[p][1].pkts[e] \in Nat /\ netdev[p].sflow_prev[e] \in Nat
      BY <1>2, <2>3, <2>4 DEF OneMore
    <3>2. Pend(p, e) = IF netdev[p].sflow_resets THEN nflog[p][1].pkts[e]
                       ELSE nflog[p][1].pkts[e] - netdev[p].sflow_prev[e]
      BY <1>2, <2>1 DEF Pend
    <3>3. Pend(p, e)' = IF netdev[p].sflow_resets THEN nflog'[p][1].pkts[e]
                        ELSE nflog'[p][1].pkts[e] - netdev[p].sflow_prev[e]
      BY <1>1, <1>2, <2>1 DEF Pend
    <3> QED  BY <3>1, <3>2, <3>3
  <2> DEFINE row == [e \in Dirs |-> Pend(p, e)]
  <2>6. pendingBar[p] = row /\ \A o \in Exact : pendingBar[o] = [e \in Dirs |-> Pend(o, e)]
    BY <2>1 DEF PendOrDead
  <2>7. pendingBar' = [o \in Exact |-> [e \in Dirs |-> Pend(o, e)']]
    BY <1>1, <2>1 DEF PendOrDead
  <2>8. pendingBar = [o \in Exact |-> pendingBar[o]]
    BY DEF pendingBar
  <2>9. pendingBar' = [pendingBar EXCEPT ![p] = [row EXCEPT ![d] = row[d] + 1]]
    <3>1. [e \in Dirs |-> Pend(p, e)'] = [row EXCEPT ![d] = row[d] + 1]
      BY <2>5
    <3>2. \A o \in Exact : o # p => [e \in Dirs |-> Pend(o, e)'] = pendingBar[o]
      BY <1>3, <2>6
    <3> QED  BY <2>7, <2>8, <3>1, <3>2
  <2>10. pendingBar' = [pendingBar EXCEPT ![p][d] = pendingBar[p][d] + 1]
    BY <2>6, <2>9
  <2>11. UNCHANGED <<watchedBar, reportedBar>>
    BY <1>1 DEF watchedBar, reportedBar
  <2> QED  BY <1>1, <1>4, <2>10, <2>11 DEF Counter!Take, sampledBar, watchedBar, pendingBar, reportedBar
<1>5. CASE p \notin watchedBar
  <2>1. dead \/ ~netdev[p].sflow_stats_enabled
    BY <1>5 DEF watchedBar
  <2>2. \A e \in Dirs : ~dead => Pend(p, e)' = Pend(p, e)
    BY <1>1, <2>1 DEF Pend
  <2>3. \A o \in Exact, e \in Dirs :
           (IF dead' THEN 0 ELSE Pend(o, e)') = (IF dead THEN 0 ELSE Pend(o, e))
    BY <1>1, <1>3, <2>2
  <2>4. pendingBar' = pendingBar
    BY <2>3 DEF PendOrDead
  <2>5. UNCHANGED <<watchedBar, reportedBar>>
    BY <1>1 DEF watchedBar, reportedBar
  <2> QED  BY <1>1, <1>5, <2>4, <2>5 DEF Counter!Take, sampledBar, watchedBar, pendingBar, reportedBar
<1> QED  BY <1>4, <1>5

LEMMA PollPublishes ==
    ASSUME SyncInv, PollType, CountInv, PendOrDead, PendOrDead',
           NEW p \in Exact, netdev_sim_update_sflow_stats(p)
    PROVE  Counter!Publish(p)
<1>0. p \in Ports /\ Exact \subseteq Ports
  BY DEF Exact
<1>1. /\ UNCHANGED <<nflog, dead, sampled>> /\ ~dead
      /\ nflog \in [Bundles -> Seq(RuleGroup)] /\ netdev \in [Ports -> Netdev]
  BY DEF netdev_sim_update_sflow_stats, outside, SyncInv, SyncType, PollType
<1>2. /\ \A o \in Exact : o # p => netdev'[o] = netdev[o]
      /\ netdev'[p].sflow_stats_enabled = netdev[p].sflow_stats_enabled
      /\ ~netdev'[p].sflow_resets
      /\ netdev'[p].stats = [d \in Dirs |-> netdev[p].stats[d] + Increment(p, d)]
      /\ netdev'[p].sflow_prev = [d \in Dirs |-> netdev_sim_get_iptable_stats(p, d)]
  BY <1>0, <1>1, PollFacts
<1>3. ASSUME NEW d \in Dirs PROVE Pend(p, d)' = 0
  <2>1. CASE netdev[p].sflow_stats_enabled /\ nflog[p] # <<>>
    <3>1. netdev_sim_get_iptable_stats(p, d) = nflog[p][1].pkts[d]
      BY <1>1, <2>1, StatsRead
    <3>2. netdev_sim_get_iptable_stats(p, d) \in Nat
      BY <1>0, <1>1, IncrementNat
    <3>3. netdev'[p].sflow_prev[d] = nflog[p][1].pkts[d]
      BY <1>2, <3>1
    <3>4. Pend(p, d)' = nflog[p][1].pkts[d] - nflog[p][1].pkts[d]
      BY <1>1, <1>2, <2>1, <3>3 DEF Pend
    <3> QED  BY <3>1, <3>2, <3>4
  <2>2. CASE ~(netdev[p].sflow_stats_enabled /\ nflog[p] # <<>>)
    BY <1>1, <1>2, <2>2 DEF Pend
  <2> QED  BY <2>1, <2>2
<1>4. \A o \in Exact, d \in Dirs : o # p => Pend(o, d)' = Pend(o, d)
  BY <1>1, <1>2 DEF Pend
<1>5. pendingBar' = [pendingBar EXCEPT ![p] = Counter!Zero]
  <2>1. [d \in Dirs |-> Pend(p, d)'] = Counter!Zero
    BY <1>3 DEF Counter!Zero
  <2>2. \A o \in Exact : pendingBar[o] = [d \in Dirs |-> Pend(o, d)]
    BY <1>1 DEF PendOrDead
  <2>3. pendingBar' = [o \in Exact |-> [d \in Dirs |-> Pend(o, d)']]
    BY <1>1 DEF PendOrDead
  <2>4. \A o \in Exact : o # p => [d \in Dirs |-> Pend(o, d)'] = pendingBar[o]
    BY <1>4, <2>2
  <2>5. pendingBar = [o \in Exact |-> pendingBar[o]]
    BY DEF pendingBar
  <2> QED  BY <2>1, <2>3, <2>4, <2>5
<1>6. reportedBar' = [reportedBar EXCEPT
         ![p] = [d \in Dirs |-> reportedBar[p][d] + pendingBar[p][d]]]
  <2>1. netdev'[p].stats = [d \in Dirs |-> reportedBar[p][d] + pendingBar[p][d]]
    BY <1>1, <1>2 DEF reportedBar, pendingBar
  <2>2. \A o \in Exact : o # p => netdev'[o].stats = netdev[o].stats
    BY <1>2
  <2> QED  BY <2>1, <2>2 DEF reportedBar
<1>7. watchedBar' = watchedBar
  BY <1>1, <1>2 DEF watchedBar
<1> QED  BY <1>1, <1>5, <1>6, <1>7 DEF Counter!Publish, sampledBar, watchedBar, pendingBar, reportedBar

(* Steps that close the ports of S and touch nothing else that counts.     *)
LEMMA ReopenStep ==
    ASSUME PendOrDead, PendOrDead', NEW S \in SUBSET Exact,
           \A p \in S : netdev'[p] = NewNetdev,
           \A p \in Exact \ S : Kept(p),
           S = Exact \/ UNCHANGED dead,
           sampledBar' = [p \in Exact |-> IF p \in S THEN Zero ELSE sampledBar[p]]
    PROVE  Counter!Reopen(S)
<1>1. \A p \in S : /\ ~netdev'[p].sflow_stats_enabled /\ netdev'[p].stats = Zero
                   /\ \A d \in Dirs : Pend(p, d)' = 0
  BY DEF NewNetdev, Pend
<1>2. \A p \in Exact \ S : /\ netdev'[p] = netdev[p] /\ UNCHANGED dead
                           /\ \A d \in Dirs : Pend(p, d)' = Pend(p, d)
  BY DEF Kept, Pend
<1>3. watchedBar' = watchedBar \ S
  BY <1>1, <1>2 DEF watchedBar
<1>4. reportedBar' = [p \in Exact |-> IF p \in S THEN Counter!Zero ELSE reportedBar[p]]
  BY <1>1, <1>2 DEF reportedBar, Zero, Counter!Zero
<1>5. pendingBar' = [p \in Exact |-> IF p \in S THEN Counter!Zero ELSE pendingBar[p]]
  <2>1. ASSUME NEW p \in S
        PROVE  [d \in Dirs |-> IF dead' THEN 0 ELSE Pend(p, d)'] = Counter!Zero
    BY <1>1, <2>1 DEF Counter!Zero
  <2>2. ASSUME NEW p \in Exact \ S
        PROVE  [d \in Dirs |-> IF dead' THEN 0 ELSE Pend(p, d)'] = pendingBar[p]
    BY <1>2, <2>2 DEF PendOrDead
  <2>3. pendingBar' = [p \in Exact |-> [d \in Dirs |-> IF dead' THEN 0 ELSE Pend(p, d)']]
    BY DEF PendOrDead
  <2> QED  BY <2>1, <2>2, <2>3
<1>6. Zero = Counter!Zero
  BY DEF Zero, Counter!Zero
<1> QED  BY <1>3, <1>4, <1>5, <1>6 DEF Counter!Reopen, sampledBar, watchedBar, pendingBar, reportedBar

(* Every step of SimSflow is one of SflowCounter or a stutter.             *)
LEMMA CounterRefined ==
    /\ SyncInv /\ PollType /\ TypeOK /\ ShapeInv /\ FlaggedExist /\ CountInv
    /\ PendingRead /\ PendingRead' /\ [SflowNext]_sflowvars
    => [Counter!CounterNext]_Counter!countervars
<1> SUFFICES ASSUME SyncInv, PollType, TypeOK, ShapeInv, FlaggedExist, CountInv,
                    PendingRead, PendingRead', [SflowNext]_sflowvars
             PROVE  Counter!CounterNext \/ UNCHANGED Counter!countervars
  OBVIOUS
<1> DEFINE Goal == Counter!CounterNext \/ UNCHANGED Counter!countervars
<1>1. /\ PendOrDead /\ PendOrDead' /\ netdev \in [Ports -> Netdev] /\ Ports \subseteq Bundles
      /\ sampled \in [Ports -> [Dirs -> Nat]] /\ Exact \subseteq Ports
  BY PendBar DEF PendingRead, PendOrDead, pendingBar, PollType, Bundles, Exact
<1>2. ASSUME UNCHANGED dead, UNCHANGED sampledBar, \A p \in Exact : Kept(p) PROVE Goal
  <2>1. UNCHANGED <<watchedBar, reportedBar>>
    BY <1>2 DEF watchedBar, reportedBar, Kept
  <2>2. UNCHANGED pendingBar
    BY <1>1, <1>2 DEF PendOrDead, Pend, Kept
  <2> QED  BY <1>2, <2>1, <2>2 DEF Counter!countervars, sampledBar, watchedBar, pendingBar, reportedBar
<1>3. ASSUME NEW b \in Bundles, NEW s \in Requests(b), NEW on \in BOOLEAN, SetBundle(b, s, on)
      PROVE  Goal
  BY <1>2, <1>3 DEF SetBundle, outside, sampledBar, Kept
<1>4. CASE OtherHandler
  BY <1>2, <1>4 DEF OtherHandler, outside, sampledBar, Kept
<1>5. ASSUME NEW p \in Ports, ReopenNetdev(p) PROVE Goal
  <2>1. /\ UNCHANGED <<nflog, dead>> /\ netdev' = [netdev EXCEPT ![p] = NewNetdev]
        /\ sampled' = [sampled EXCEPT ![p] = Zero]
    BY <1>5 DEF ReopenNetdev
  <2>2. PICK S \in SUBSET Exact : S = {p} \cap Exact
    OBVIOUS
  <2>3. /\ \A o \in S : netdev'[o] = NewNetdev
        /\ \A o \in Exact \ S : Kept(o)
        /\ sampledBar' = [o \in Exact |-> IF o \in S THEN Zero ELSE sampledBar[o]]
    BY <1>1, <2>1, <2>2 DEF Kept, sampledBar
  <2>4. Counter!Reopen(S)
    BY <1>1, <2>1, <2>2, <2>3, ReopenStep
  <2> QED  BY <2>2, <2>4 DEF Counter!CounterNext
<1>6. ASSUME NEW p \in Ports, netdev_sim_update_sflow_stats(p) PROVE Goal
  <2>1. CASE p \in Exact
    <3>1. Counter!Publish(p)
      BY <1>1, <1>6, <2>1, PollPublishes
    <3> QED  BY <2>1, <3>1 DEF Counter!CounterNext
  <2>2. CASE p \notin Exact
    <3>1. UNCHANGED <<nflog, dead, sampled>> /\ \A o \in Exact : netdev'[o] = netdev[o]
      BY <1>1, <1>6, <2>2, PollFacts DEF netdev_sim_update_sflow_stats, outside
    <3> QED  BY <1>2, <3>1, <1>1 DEF sampledBar, Kept, Bundles
  <2> QED  BY <2>1, <2>2
<1>7. CASE set_sflow_off
  <2>1. UNCHANGED <<netdev, dead, sampled>> /\ nflog' = NoRules
    BY <1>7 DEF set_sflow_off, OnVrf, SflowCall
  <2>2. \A p \in Exact, d \in Dirs : Pend(p, d)' = 0
    BY <1>1, <2>1 DEF Pend, NoRules
  <2>3. UNCHANGED <<sampledBar, reportedBar>>
    BY <2>1 DEF sampledBar, reportedBar
  <2> QED  BY <1>1, <2>1, <2>2, <2>3, LoseStep
<1>8. ASSUME NEW o \in SflowRequests, set_sflow_same(o) \/ set_sflow_new(o) PROVE Goal
  <2>1. Intact /\ UNCHANGED <<dead, sampled>>
    BY <1>8 DEF set_sflow_same, set_sflow_new, OnVrf, SflowCall
  <2>2. \A p \in Ports : netdev'[p].stats = netdev[p].stats /\ (Kept(p) \/ Cleared(p))
    BY <1>8, <2>1, ConfiguredPort
  <2>3. PICK S \in SUBSET Exact : S = {p \in Exact : ~Kept(p)}
    OBVIOUS
  <2>4. ASSUME NEW p \in S, NEW d \in Dirs PROVE Pend(p, d)' = 0
    <3>1. p \in Ports /\ Cleared(p)
      BY <1>1, <2>2, <2>3, <2>4
    <3> QED  BY <3>1 DEF Cleared, Pend, Zero
  <2>5. UNCHANGED <<sampledBar, reportedBar>>
    BY <1>1, <2>1, <2>2 DEF sampledBar, reportedBar
  <2>6. \A p \in Exact \ S : Kept(p)
    BY <2>3
  <2> QED  BY <1>1, <2>1, <2>4, <2>5, <2>6, LoseStep
<1>9. ASSUME NEW o \in SflowRequests, set_sflow_dies(o) PROVE Goal
  <2>1. PICK del : netdev' = MarkNetdevs(sflow.ports, del)
    BY <1>9 DEF set_sflow_dies
  <2>2. dead' /\ UNCHANGED sampled
    BY <1>9 DEF set_sflow_dies, OnVrf, SflowCall
  <2>3. \A p \in Ports : netdev'[p].stats = netdev[p].stats
    BY <1>1, <2>1, MarkFacts
  <2>4. UNCHANGED <<sampledBar, reportedBar>>
    BY <1>1, <2>2, <2>3 DEF sampledBar, reportedBar
  <2> QED  BY <1>1, <2>2, <2>4, LoseStep
<1>10. CASE set_sflow_bridge_off
  BY <1>2, <1>10 DEF set_sflow_bridge_off, OnBridge, SflowCall, sampledBar, Kept
<1>11. ASSUME NEW o \in SflowRequests, set_sflow_bridge(o) PROVE Goal
  BY <1>2, <1>10, <1>11 DEF set_sflow_bridge, OnBridge, SflowCall, sampledBar, Kept
<1>12. ASSUME NEW p \in Ports, NEW d \in Dirs, NEW i \in DOMAIN nflog[p], Sample(p, d, i)
       PROVE  Goal
  <2>1. CASE p \in Exact
    <3>1. Counter!Take(p, d)
      BY <1>1, <1>12, <2>1, SampleTakes
    <3> QED  BY <2>1, <3>1 DEF Counter!CounterNext
  <2>2. CASE p \notin Exact
    <3>1. UNCHANGED <<netdev, dead>> /\ sampled' = [sampled EXCEPT ![p][d] = @ + 1]
      BY <1>12 DEF Sample, switchd
    <3>2. \A n \in Bundles : n # p => nflog'[n] = nflog[n]
      BY <1>12, SampleFacts DEF SyncInv
    <3> QED  BY <1>1, <1>2, <2>2, <3>1, <3>2 DEF sampledBar, Kept
  <2> QED  BY <2>1, <2>2
<1>13. CASE SflowBoot
  <2>1. /\ \A p \in Exact : netdev'[p] = NewNetdev
        /\ sampledBar' = [p \in Exact |-> IF p \in Exact THEN Zero ELSE sampledBar[p]]
    BY <1>1, <1>13 DEF SflowBoot, sampledBar
  <2>2. Counter!Reopen(Exact)
    BY <1>1, <2>1, ReopenStep
  <2> QED  BY <2>2 DEF Counter!CounterNext
<1>14. CASE UNCHANGED sflowvars
  BY <1>2, <1>14 DEF sflowvars, switchd, outside, sampledBar, Kept
<1> QED  BY <1>3, <1>4, <1>5, <1>6, <1>7, <1>8, <1>9, <1>10, <1>11, <1>12, <1>13, <1>14
         DEF SflowNext, set_sflow

(* For any interfaces, LAGs, requests, directions and names that grep      *)
(* finds: polls of an interface whose name is not the beginning of another *)
(* report every sample that is still in its rules, and once, through flags *)
(* and bundles that change, rules made anew, interfaces closed and opened, *)
(* deaths in set_sflow and restarts, whatever the other interfaces do.     *)
THEOREM CounterImplemented == SflowSpec => ImplementsCounter
<1>1. SflowInit /\ PendingRead => Counter!CounterInit
  <2> SUFFICES ASSUME SflowInit, PendingRead PROVE Counter!CounterInit
    OBVIOUS
  <2>1. /\ ~dead /\ Exact \subseteq Ports /\ \A p \in Exact : netdev[p] = NewNetdev
        /\ sampledBar = [p \in Exact |-> Zero]
    BY DEF SflowInit, Exact, sampledBar
  <2>2. Zero = Counter!Zero
    BY DEF Zero, Counter!Zero
  <2>3. watchedBar = {} /\ reportedBar = [p \in Exact |-> Counter!Zero]
    BY <2>1, <2>2 DEF watchedBar, reportedBar, NewNetdev
  <2>4. \A p \in Exact, d \in Dirs : Pend(p, d) = 0
    BY <2>1 DEF Pend, NewNetdev
  <2>5. pendingBar = [p \in Exact |-> Counter!Zero]
    BY <2>1, <2>4, PendBar DEF PendOrDead, Counter!Zero
  <2> QED  BY <2>1, <2>2, <2>3, <2>5
           DEF Counter!CounterInit, sampledBar, watchedBar, pendingBar, reportedBar
<1> QED  BY <1>1, CounterRefined, SyncCorrect, PollTypeCorrect, SflowIsBundle,
            FlaggedExistCorrect, CountCorrect, PendingCorrect, PTL
         DEF SflowSpec, ImplementsCounter, Counter!CounterSpec
=============================================================================
