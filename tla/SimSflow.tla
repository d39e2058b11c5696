------------------------------ MODULE SimSflow ------------------------------
(***************************************************************************)
(* sFlow: set_sflow of a VRF (SimBundle) and of the bridge beside it, and  *)
(* what it leaves outside the process.  The VRF samples with NFLOG rules   *)
(* in iptables, one group of four per bundle name, and the host sFlow      *)
(* agent; the bridge with the sFlow record of the ASIC OVS.  The           *)
(* statistics poll of a netdev (netdev-sim.c) turns the counters of the    *)
(* rules, which start again whenever the rules do, into counters that only *)
(* grow.                                                                   *)
(*                                                                         *)
(* The handlers and the polls run in the main thread.  iptables, systemctl *)
(* and ovs-vsctl are taken to succeed.                                     *)
(***************************************************************************)
EXTENDS SimBundle, Sequences, SequencesExt

CONSTANTS
    SflowRequests,  \* the ofproto_sflow_options the client asks for
    Dirs,           \* the directions that are counted
    Matches,        \* per port, the names that grep '<dir> <port>' finds
    MaxSamples,     \* bound on the samples of a rule and of all interfaces
    NoCfg           \* no sFlow configuration

SflowOptions == [sampling_rate: Nat, targets: SUBSET STRING]

ASSUME SflowAssumption ==
    /\ Vrf
    /\ SflowRequests \subseteq SflowOptions
    /\ Dirs \subseteq {"ingress", "egress"}
    /\ Matches \in [Ports -> SUBSET Bundles]
    /\ \A p \in Ports : p \in Matches[p] /\ IsFiniteSet(Matches[p])
    /\ MaxSamples \in Nat
    /\ NoCfg \notin SflowOptions

VARIABLES
    is_sflow_enabled,  \* bundles with that flag
    sflow,             \* ofproto->sflow of the VRF: configuration, disabled, ports
    brSflow,           \* the same of the bridge, which has no ports in it
    nflog,             \* per bundle name, its rule groups in iptables
    agent,             \* what the host sFlow agent runs with, or NoCfg
    asicSflow,         \* the sFlow record of the bridge in the ASIC OVS
    netdev,            \* per port, the sFlow fields of its netdev
    sampled,           \* per port, samples since its netdev was opened
    dead               \* the process died in set_sflow

switchd   == <<is_sflow_enabled, sflow, brSflow, netdev, dead>>
outside   == <<nflog, agent, asicSflow, sampled>>
sflowvars == <<vars, switchd, outside>>

Zero == [d \in Dirs |-> 0]

RuleGroup == [rate: Nat, pkts: [Dirs -> Nat]]

Netdev == [sflow_stats_enabled: BOOLEAN, sflow_resets: BOOLEAN,
           sflow_prev: [Dirs -> Nat], stats: [Dirs -> Nat]]

(* netdev_sim_alloc and netdev_sim_construct.                              *)
NewNetdev == [sflow_stats_enabled |-> FALSE, sflow_resets |-> FALSE,
              sflow_prev |-> Zero, stats |-> Zero]

(* A fresh ofproto is zeroed: nothing is set, and nothing is disabled yet. *)
NewSflow == [cfg |-> NoCfg, disabled |-> FALSE, ports |-> {}]

NoRules == [n \in Bundles |-> <<>>]

SflowInit ==
    /\ Init
    /\ is_sflow_enabled = {} /\ sflow = NewSflow /\ brSflow = NewSflow /\ dead = FALSE
    /\ nflog = NoRules
    /\ agent = NoCfg /\ asicSflow = NoCfg
    /\ netdev  = [p \in Ports |-> NewNetdev]
    /\ sampled = [p \in Ports |-> Zero]

-----------------------------------------------------------------------------
(* The bundle handlers                                                     *)

(* bundle_set of b with the "sflow-enabled" option on.  It is not read     *)
(* once the bundle is known to be the bridge's own.                        *)
SetBundle(b, s, on) ==
    /\ ~dead
    /\ bundle_set(b, s)
    /\ is_sflow_enabled' =
          bundles' \cap (IF b \in is_bridge_bundle THEN is_sflow_enabled
                         ELSE IF on THEN is_sflow_enabled \cup {b}
                         ELSE is_sflow_enabled \ {b})
    /\ UNCHANGED <<sflow, brSflow, netdev, dead, outside>>

(* The other handlers of the VRF, but set_vlan: the VLANs of a VRF are a   *)
(* bitmap that nothing here reads.                                         *)
OtherHandler ==
    /\ ~dead
    /\ \/ \E b \in Bundles : bundle_set_null(b)
       \/ \E p \in Ports : bundle_remove(p) \/ port_alloc(p) \/ port_dealloc(p)
    /\ is_sflow_enabled' = is_sflow_enabled \cap bundles'
    /\ UNCHANGED <<sflow, brSflow, netdev, dead, outside>>

(* The interface is removed, and one of its name is made: a new netdev.    *)
ReopenNetdev(p) ==
    /\ Intact /\ ~dead
    /\ p \notin ofports
    /\ netdev'  = [netdev EXCEPT ![p] = NewNetdev]
    /\ sampled' = [sampled EXCEPT ![p] = Zero]
    /\ UNCHANGED <<vars, is_sflow_enabled, sflow, brSflow, dead, nflog, agent, asicSflow>>

-----------------------------------------------------------------------------
(* set_sflow                                                               *)

(* Requests that disable sFlow, besides NULL.                              *)
Off(o) == o.targets = {} \/ o.sampling_rate = 0

(* sflow_iptable_add: a group of rules is inserted before the others.      *)
sflow_iptable_add(q, rate) == <<[rate |-> rate, pkts |-> Zero]>> \o q

(* sflow_iptable_del: the first group with the probability of the rate.    *)
sflow_iptable_del(q, rate) ==
    LET same == {i \in DOMAIN q : q[i].rate = rate}
    IN  IF same = {} THEN q
        ELSE RemoveAt(q, CHOOSE i \in same : \A j \in same : i <= j)

(* Mutant: the flag is not looked at.                                      *)
DeletesGone(had) == had \ bundles

(* The names sflow_iptables_reconfigure adds rules for, and those it       *)
(* deletes rules for, when the names in had have them.                     *)
Adds(had)    == is_sflow_enabled \ had
Deletes(had) == had \ is_sflow_enabled

(* The rules q after the additions and the deletions of the names of del.  *)
EditRules(q, had, del, rate) ==
    [n \in Bundles |-> IF n \in Adds(had) THEN sflow_iptable_add(q[n], rate)
                       ELSE IF n \in del  THEN sflow_iptable_del(q[n], rate)
                       ELSE q[n]]

(* Mutant: sflow_port_reset is left out.                                   *)
MarkNetdevsNoReset(had, del) ==
    [p \in Ports |->
        IF bundle[p] \in Adds(had)
        THEN [netdev[p] EXCEPT !.sflow_stats_enabled = TRUE]
        ELSE IF bundle[p] \in del
        THEN [netdev[p] EXCEPT !.sflow_stats_enabled = FALSE]
        ELSE netdev[p]]

(* sflow_port_reset and sflow_port_stats_enable for the ports of bundles   *)
(* that get rules, sflow_port_stats_enable for those that lose them.       *)
MarkNetdevs(had, del) ==
    [p \in Ports |->
        IF bundle[p] \in Adds(had)
        THEN [netdev[p] EXCEPT !.sflow_stats_enabled = TRUE, !.sflow_resets = TRUE]
        ELSE IF bundle[p] \in del
        THEN [netdev[p] EXCEPT !.sflow_stats_enabled = FALSE]
        ELSE netdev[p]]

(* sflow_iptables_reconfigure, from rules q for the names in had.          *)
sflow_iptables_reconfigure(q, had, cfg2) ==
    /\ had \subseteq bundles
    /\ nflog'  = EditRules(q, had, Deletes(had), cfg2.sampling_rate)
    /\ netdev' = MarkNetdevs(had, Deletes(had))
    /\ sflow'  = [cfg |-> cfg2, disabled |-> FALSE, ports |-> is_sflow_enabled]

SflowCall == Intact /\ ~dead /\ UNCHANGED <<vars, is_sflow_enabled, sampled>>

OnVrf    == SflowCall /\ UNCHANGED <<brSflow, asicSflow>>
OnBridge == SflowCall /\ UNCHANGED <<sflow, nflog, agent, netdev, dead>>

(* sflow_disable: once only.                                               *)
Disabled == [NewSflow EXCEPT !.disabled = TRUE]

(* set_sflow of the VRF with NULL, no targets or no rate: sflow_disable.   *)
(* The flags of the netdevs stay.                                          *)
set_sflow_off ==
    /\ OnVrf
    /\ ~sflow.disabled
    /\ sflow' = Disabled
    /\ nflog' = NoRules /\ agent' = NoCfg
    /\ UNCHANGED <<netdev, dead>>

(* set_sflow with the configuration it has: only the rules are brought up  *)
(* to date.                                                                *)
set_sflow_same(o) ==
    /\ OnVrf
    /\ ~Off(o) /\ o = sflow.cfg
    /\ sflow_iptables_reconfigure(nflog, sflow.ports, o)
    /\ UNCHANGED <<agent, dead>>

(* The same when a bundle that has rules is gone: the search for it ends   *)
(* with NULL, and sflow_port_stats_enable reads its list of ports.  The    *)
(* rules to add and some of those to delete are done by then.              *)
set_sflow_dies(o) ==
    /\ OnVrf
    /\ ~Off(o) /\ o = sflow.cfg
    /\ ~(sflow.ports \subseteq bundles)
    /\ \E del \in SUBSET (Deletes(sflow.ports) \cap bundles) :
          /\ nflog'  = EditRules(nflog, sflow.ports, del, o.sampling_rate)
          /\ netdev' = MarkNetdevs(sflow.ports, del)
    /\ dead' = TRUE
    /\ UNCHANGED <<sflow, agent>>

(* Mutant: the rules of the old configuration are left.                    *)
set_sflow_new_keep(o) ==
    /\ OnVrf
    /\ ~Off(o) /\ o # sflow.cfg
    /\ sflow_iptables_reconfigure(nflog, {}, o)
    /\ agent' = o
    /\ UNCHANGED dead

(* set_sflow with another configuration: all rules are deleted, those of   *)
(* the enabled bundles added, and the agent restarted.                     *)
set_sflow_new(o) ==
    /\ OnVrf
    /\ ~Off(o) /\ o # sflow.cfg
    /\ sflow_iptables_reconfigure(NoRules, {}, o)
    /\ agent' = o
    /\ UNCHANGED dead

(* What set_sflow of the VRF does for the request o, if it returns.        *)
set_sflow(o) ==
    \/ Off(o) /\ set_sflow_off
    \/ set_sflow_same(o)
    \/ set_sflow_new(o)

(* set_sflow of the bridge, which disables or sets.                        *)
set_sflow_bridge_off ==
    /\ OnBridge
    /\ ~brSflow.disabled
    /\ brSflow' = Disabled /\ asicSflow' = NoCfg

(* The record is removed and created; nothing is done for the              *)
(* configuration it has.                                                   *)
set_sflow_bridge(o) ==
    \/ Off(o) /\ set_sflow_bridge_off
    \/ /\ OnBridge
       /\ ~Off(o) /\ o # brSflow.cfg
       /\ brSflow' = [NewSflow EXCEPT !.cfg = o] /\ asicSflow' = o

-----------------------------------------------------------------------------
(* Samples and polls                                                       *)

(* The packets that the rules q have counted in direction d.               *)
Counted(q, d) == UNION {{i} \X (1 .. q[i].pkts[d]) : i \in DOMAIN q}

TotalSampled ==
    Cardinality(UNION {{x} \X (1 .. sampled[x[1]][x[2]]) : x \in Ports \X Dirs})

(* A packet of interface p in direction d matches a rule of its name.      *)
Sample(p, d, i) ==
    /\ i \in DOMAIN nflog[p]
    /\ nflog[p][i].pkts[d] < MaxSamples
    /\ TotalSampled < MaxSamples
    /\ nflog'   = [nflog EXCEPT ![p][i].pkts[d] = @ + 1]
    /\ sampled' = [sampled EXCEPT ![p][d] = @ + 1]
    /\ UNCHANGED <<vars, switchd, agent, asicSflow>>

(* netdev_sim_get_iptable_stats: the sum over the rules whose interface    *)
(* begins with the name of the port; no rules are read for a netdev        *)
(* without the flag.                                                       *)
netdev_sim_get_iptable_stats(p, d) ==
    IF netdev[p].sflow_stats_enabled
    THEN Cardinality(UNION {{n} \X Counted(nflog[n], d) : n \in Matches[p]})
    ELSE 0

(* The counters of the rules started again since the last poll.            *)
StartedAgain(p) ==
    \/ netdev[p].sflow_resets
    \/ \E d \in Dirs : netdev[p].sflow_prev[d] > netdev_sim_get_iptable_stats(p, d)

(* Mutant: the new counter is taken from the old one.                      *)
IncrementSwapped(p, d) ==
    LET pkts == netdev_sim_get_iptable_stats(p, d)
    IN  IF StartedAgain(p) THEN pkts ELSE netdev[p].sflow_prev[d] - pkts

(* What the next poll will add.                                            *)
Increment(p, d) ==
    LET pkts == netdev_sim_get_iptable_stats(p, d)
    IN  IF StartedAgain(p) THEN pkts ELSE pkts - netdev[p].sflow_prev[d]

(* netdev_sim_get_stats, its netdev_sim_update_sflow_stats.                *)
netdev_sim_update_sflow_stats(p) ==
    /\ Intact /\ ~dead
    /\ p \in ofports
    /\ netdev' = [netdev EXCEPT
          ![p].stats = [d \in Dirs |-> @[d] + Increment(p, d)],
          ![p].sflow_prev = [d \in Dirs |-> netdev_sim_get_iptable_stats(p, d)],
          ![p].sflow_resets = FALSE]
    /\ UNCHANGED <<vars, is_sflow_enabled, sflow, brSflow, dead, outside>>

-----------------------------------------------------------------------------
(* A new process: the rules and the agent are the kernel's and systemd's,  *)
(* the ASIC OVS starts with an empty database.                             *)
SflowBoot ==
    /\ Boot
    /\ is_sflow_enabled' = {} /\ sflow' = NewSflow /\ brSflow' = NewSflow /\ dead' = FALSE
    /\ asicSflow' = NoCfg
    /\ netdev'  = [p \in Ports |-> NewNetdev]
    /\ sampled' = [p \in Ports |-> Zero]
    /\ UNCHANGED <<nflog, agent>>

SflowNext ==
    \/ \E b \in Bundles : \E s \in Requests(b), on \in BOOLEAN : SetBundle(b, s, on)
    \/ OtherHandler
    \/ \E p \in Ports : ReopenNetdev(p) \/ netdev_sim_update_sflow_stats(p)
    \/ set_sflow_off \/ set_sflow_bridge_off
    \/ \E o \in SflowRequests : set_sflow(o) \/ set_sflow_dies(o) \/ set_sflow_bridge(o)
    \/ \E p \in Ports, d \in Dirs : \E i \in DOMAIN nflog[p] : Sample(p, d, i)
    \/ SflowBoot

SflowSpec == SflowInit /\ [][SflowNext]_sflowvars

-----------------------------------------------------------------------------
SflowTypeOK ==
    /\ is_sflow_enabled \subseteq Bundles
    /\ {sflow, brSflow} \subseteq
          [cfg: SflowRequests \cup {NoCfg}, disabled: BOOLEAN, ports: SUBSET Bundles]
    /\ nflog \in [Bundles -> Seq(RuleGroup)]
    /\ agent \in SflowRequests \cup {NoCfg}
    /\ asicSflow \in SflowRequests \cup {NoCfg}
    /\ netdev \in [Ports -> Netdev]
    /\ sampled \in [Ports -> [Dirs -> Nat]]
    /\ dead \in BOOLEAN

(* What the process believes of sFlow is so outside, even after restarts   *)
(* that find the rules and the agent of the process before: while sFlow is *)
(* configured the VRF has one group of rules, at the configured rate, for  *)
(* every name in sflow.ports and none for others, its agent runs with that *)
(* configuration, and the ASIC bridge has the configuration of the bridge; *)
(* once it was disabled nothing samples.                                   *)
SflowInSync ==
    ~dead =>
      /\ sflow.cfg # NoCfg =>
            /\ agent = sflow.cfg
            /\ \A n \in Bundles :
                  IF n \in sflow.ports
                  THEN Len(nflog[n]) = 1 /\ nflog[n][1].rate = agent.sampling_rate
                  ELSE nflog[n] = <<>>
      /\ sflow.disabled => nflog = NoRules /\ agent = NoCfg
      /\ asicSflow = brSflow.cfg

(* A set_sflow that configures a VRF and returns leaves rules for exactly  *)
(* the bundles that exist then and have sFlow enabled ("Adding iptable     *)
(* rules for port by default if enabled on global level OR if sflow is     *)
(* explicitly enabled"), whatever bundles and flags changed since the last *)
(* call.                                                                   *)
SamplesEnabledBundles ==
    [][\A o \in SflowRequests :
          ~Off(o) /\ set_sflow(o) =>
             {n \in Bundles : nflog'[n] # <<>>} = is_sflow_enabled]_sflowvars

(* The interfaces whose name is not the beginning of another name: grep    *)
(* finds their own rules.                                                  *)
Exact == {p \in Ports : Matches[p] = {p}}

(* The statistics of those interfaces implement SflowCounter: a poll       *)
(* reports every sample that is pending in the rules once, though rules,   *)
(* flags and bundles change between polls and the counters of the rules    *)
(* start again.  A dead process reports nothing any more.                  *)
Counter == INSTANCE SflowCounter WITH
    Interfaces <- Exact,
    sampled    <- [p \in Exact |-> sampled[p]],
    watched    <- {p \in Exact : ~dead /\ netdev[p].sflow_stats_enabled},
    pending    <- [p \in Exact |-> [d \in Dirs |-> IF dead THEN 0 ELSE Increment(p, d)]],
    reported   <- [p \in Exact |-> netdev[p].stats]

ImplementsCounter == Counter!CounterSpec

(* "Deleting iptable rules for port if the new configuration doesn't have  *)
(* the port present in the current local configuration": set_sflow deletes *)
(* the rules of a bundle that is gone, and goes on.                        *)
GoneBundlesDeleted == ~dead
=============================================================================
