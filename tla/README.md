# ops-switchd-container-plugin in TLA+

The container plugin lets `ops-switchd` drive a simulated switch: an Open
vSwitch (the "ASIC" OVS), the kernel's iptables and a kernel bridge, all of them
through commands run with `system()`. The code keeps its own picture of what it
has programmed. The question behind every module here is whether that picture,
the database's wishes and what the commands left outside the process stay
together, whatever the order of handlers, threads, failures and restarts.

## The system

| Component | State | Operations | Interacts with |
|---|---|---|---|
| Bundles and VLANs (`ofproto-sim-provider.c`) | bundles and their port lists, VLAN settings, flags, VLAN bitmaps | `bundle_set`, `bundle_remove`, `set_vlan`, `port_alloc`, `port_dealloc` | ASIC OVS (`ovs-vsctl`), iptables, mirrors, L3 statistics |
| DROP rules (same file) | `iptable_rules_added`; the rules in the kernel | `enable_port_in_iptables`, `disable_port_in_iptables` | called by the bundle handlers; rules outlive the process |
| L3 statistics rules (`netdev-sim.c`) | `l3_stats_mutex`, `l3_stats_enabled`; 16 rules per netdev | detached create and delete threads | started by the bundle handlers of a VRF |
| Mirrors (`ofproto-sim-provider.c`) | mbundles, `mirrors[]`; mirror rows in the ASIC database | `mirror_set`, register and unregister of bundles | bundles, ASIC OVS |
| Classifier (`ops-classifier-sim.c`) | ACLs, bindings in a hash table, hit counters | `ops_cls_pd_*` | bundles (which ports a list is bound to) |
| Spanning tree (`sim-stp-plugin.c`) | instance, ports and their states, `nb_ports`; kernel bridge | `stp_reconfigure` | database rows, kernel (`ip`, `bridge`) |
| sFlow (`ofproto-sim-provider.c`, `netdev-sim.c`) | local configuration, flags of bundles and netdevs; NFLOG rules, host sFlow agent, record of the ASIC OVS | `set_sflow`, the sFlow part of the statistics poll | bundles, netdevs; rules and agent outlive the process |
| netdev core (`netdev-sim.c`) | link, speed, pause, MAC addresses, `change_seq`, counters | getters and setters, statistics polls | the client, the kernel |
| Start (`sim-plugins.c`) | none | `init`: a fresh ASIC database | all |
| CoPP, QoS, port dump, OpenFlow stubs | none or one set of names | | |

All handlers run one at a time in the main thread, so a handler is one action.
Concurrency comes from the L3 statistics threads (against each other and against
the polls), from other processes writing the database, and from the process
dying while its effects stay. The hard
parts are: pointers between ports, bundles and mbundles that must be cleared
together; commands that fail one by one; state that survives a restart (DROP
and NFLOG rules, L3 statistics rules, the kernel bridge) beside state that does not; unordered threads; and
hash buckets taken for keys. `PROJECT.json` lists these as hazards, line by line.

What makes each component correct: the ASIC and the rules follow the
configuration (bundles); rules and flag agree and threads end (L3 statistics);
a binding has its list and is made once, and the lists keep to their limit (classifier); a mirror
points to live bundles and the ASIC mirrors nothing else (mirrors); the kernel
has the ports of the rows and their states (spanning tree); rules, agent and configuration
agree and a sample is counted once (sFlow); a poll reads the rules it thinks it
reads (statistics); a client that follows `change_seq` is not out of date
(netdev configuration).

## Modules

| Module | Models |
|---|---|
| `SimBundle` | bundles, VLANs, ASIC ports, DROP rules, crashes of one ofproto |
| `SimVlanIntf` | VLAN interfaces and the trunks of the bridge's port, over `SimBundle` |
| `NetdevL3Stats` | threads, mutex, flag and rules of every netdev |
| `SimVrf` | composes the two: a VRF ofproto and the threads its handlers start |
| `SimBridgeVrf` | a bridge and a VRF that hand interfaces to each other, with crashes |
| `L2Switch` | abstract: ports with settings, enabled VLANs, and what is on the wires |
| `SimSwitch` | `SimBundle` as an implementation of `L2Switch` |
| `NetdevL3Poll` | composes `NetdevL3Stats` with the polls that read the rules |
| `SimSflow` | `set_sflow` over the bundles of a VRF and of a bridge, rules, agent, polls |
| `SflowCounter` | abstract: samples that are taken, pending, reported or lost |
| `NetdevConfig` | construction, configuration and status of netdevs, and a client |
| `Classifier` | ACLs, bindings by bucket, hit counts |
| `SimMirror` | mirrors, mbundles and the ASIC's mirror rows |
| `SimStp` | the spanning tree instance, the rows and the kernel bridge |
| `MC...` | the instances for TLC |
| `SimBundleProofs` | theorems on the pointers, flags and rules of `SimBundle` |
| `SimBridgeProofs` | theorems on the ASIC port table, `SimVlanIntf`, `SimSwitch` and `SimBridgeVrf` |
| `SimVrfProofs` | theorems on the threads of `SimVrf` and the polls of `NetdevL3Poll` |
| `ClassifierProofs`, `SimMirrorProofs`, `SimStpProofs`, `SimSflowProofs` | theorems on the module of the name |
| `NetdevProofs` | theorems on `NetdevConfig` and `SflowCounter` |

Definitions keep the names of the functions and fields they model; `map` in
`PROJECT.json` gives the lines. Operators whose comment begins with "Mutant" are
plausible mistakes; no specification uses them.

### SimBundle

An interface and the logical port of its name are one value. Fields of bundles
are functions or sets of bundles, `asic` is the ASIC port table by name,
`brTrunks` the trunks of its bridge port, and `dropInput` and `dropForward`
count the DROP rules of an interface. A trunks bitmap that is NULL is the set of
all VLANs: `bundle_configure` treats both alike.

`bundle_set` is split by what it comes to: `..._null`, `..._no_program` (VRF, the
bridge's own bundle, a LAG still waiting), `..._routing` (VLAN interface),
`..._program`, `..._empty` (EINVAL), and four that are undefined behaviour in C:
`..._steals` (a port of a LAG is linked into a second list), `..._withdraws` (a freed
bundle is used), `..._frees_twice` (the same without a slave: it is freed again) and
`..._no_vlan` (VLAN -1 of a VLAN interface indexes far outside the bitmap). In the
last two the process dies. The first two leave pointers for which `Intact` is false, and
after that only a restart is possible. Properties of the bundles are therefore
claimed while `Intact` holds; `Intact` itself is what `bundle_freed` refutes in
part. `bundle_remove` of a LAG does nothing, as in the code, and `port_dealloc`
may follow.

With `MayFail`, every `ovs-vsctl` command may fail on its own. `Boot` is the end
and start of the process between handlers; `CrashInDisable` and `CrashInEnable`
are the process dying between two iptables commands. iptables commands
themselves are taken to succeed unless there is no rule to delete.

### SimVlanIntf

The VLAN of a VLAN interface is `s->vlan` of each request, and any request may bring
another one, one that another interface has, or 4095 (which has a bit and is never a
trunk). A bit has no count, so two history variables tell where the bitmap cannot
know: `stale` has VLANs that an interface left for another one, whose bits stay set,
`shared` those that two interfaces had together, whose bit goes with the first of
them. `TrunksFollowInterfaces` is exact but for these: the bitmap is not quite the
"bitmap of vlan interfaces" the header calls it.

### L2Switch and SimSwitch

`L2Switch` is the promise of DESIGN.md: settings per logical port, a set of enabled
VLANs, and on every wire the pairs of VLAN and tagging these ask for. It has no
tables, flags or commands. The refinement mapping reads the settings off `cfg` of
the switched bundles and the wires off the ASIC port table (`Frames`, the meaning
of the columns `vlan_mode`, `tag` and `trunks`). A handler must be one step of the
switch: one port configured (others may be gone, as their interfaces were taken),
one removed, or one VLAN toggled. Undefined behaviour maps to `defined = FALSE`.

### SimBridgeVrf

The VRF never runs iptables for DROP rules, so that only its ports matter.
`leftover` is a history variable: ports with rules that a process left when it
died, until all of them are deleted.

### NetdevL3Stats and SimVrf

A thread has an operation and a place: before the lock, at a rule, or at the
end. `xtables` is the list of a netdev's rules in the order they were added, `NRules`
commands deal with them one by one, and a rule may be there twice. The `-i` and the
`-o` rule of FORWARD are two commands behind one check of both (`Pairs`, `Second`): a pair
with one rule missing is added whole, and is not deleted. A thread
that finds nothing to do ends with the mutex locked, as the code's early `return
NULL` does. The history variable `overtaken` records that a thread took the
mutex before an older one. In `SimVrf`, the threads a handler starts are read off
what the handler does to the port: leaving a list starts a delete, joining
another bundle starts a create, in that order.

### NetdevL3Poll

`netdev_sim_get_stats` reads the flag, then lists the rules with one command per
direction, each an action; thread steps come in between. A counter is the set of
rules it sums. The poll takes the lines by position, and `-S` lists chain after chain
(`LineNo`). Handlers do not run during a poll: both are the main thread. `Restart` keeps
the rules; `torn` (history) has the netdevs for which a delete thread died at work, or a
create thread between the two commands of a pair, until their rules are all gone. A pair
left half made gets its `-i` rule a second time, and polls then read five `rx` lines.

### SimSflow and SflowCounter

`sflow` and `brSflow` are the configuration a VRF and a bridge keep; `nflog` has the
groups of four rules of a name, newest first, with the rate they were made for
(a rule is deleted by its probability). `set_sflow` is split by what it comes to:
off, the same configuration, another one, and `set_sflow_dies`, when a bundle that
had rules is gone and NULL is dereferenced. Commands succeed, and so do the reads of
their output: the paths for a failed `popen` or `fgets`, which count as 0, are left out. The poll
(`netdev_sim_update_sflow_stats`) compares the sums of the rules with the last ones.
`Matches` is what the pattern of the poll finds for a name: the name itself and those that
begin with it.

`SflowCounter` is the promise of the comment at `netdev_sflow_reset`. The mapping:
an interface is watched while its flag is set, and pending is what the next poll
would add. It is over the interfaces whose name is not the beginning of another (`Exact`),
beside any others, which report the samples of the names that begin with theirs as well. What rules have counted is a set of packets and a sum its cardinality,
as with the entries of the ACLs below.

### NetdevConfig

One action per setter; the client (`Refresh`) reads a netdev again only if
`change_seq` moved. `given` is history: the pause setting given last since the link
came up. MAC addresses are numbers of the counter they are made of, or given.

### Classifier

The table of bindings is OVS's hash map, searched with
`HMAP_FOR_EACH_IN_BUCKET`, which compares neither hash nor key. The number of
buckets (`mask`) and the hash of every list are thus part of the model: one
bucket at first, four after the second binding, and so on, several times within one
apply if it binds many ports. A binding has a number (`copy`) that tells it from others of
the same list, interface and direction, as nothing in the table forbids two.
`overfilled` (history) tells that a `list_update` took the lists over their limit. Where the result
depends on the order of a bucket or of a port list, all outcomes are allowed.
The number of entries of all lists is the cardinality of the set of entries
(`Entries`), taken modulo `CountMod` where the code sums in a `uint16_t`.
`rebundle` stands for the bundle handlers.

### SimMirror

An mbundle is an address that may be used again once freed. `mirror` holds
pointers and `asicMirror` the row of that name. External: the ASIC database
refers to ports weakly, so a deleted port leaves its mirrors; and `set mirror
NAME` fails if two rows have the name. `del-port` is taken to succeed here (its
failures are `SimBundle`'s). A change without an output, or with a source or
destination that has no bundle, reads a NULL bundle's name and the process dies
(`mirror_set_dies`).

### SimStp

Rows change at any time (`WriteRows`, `DeleteRows`); `stp_reconfigure` works on the
rows as it finds them. The order of the ports in its loop is that of a hash
map: an early return may leave any of them behind. `br_set` returns the number
of characters written when it uses sysfs and 0 when it uses the ioctl; both are
allowed, and a result that is not 0 leaves the port out. Ports never leave the kernel
bridge: `ip` refuses the command for a deleted port, as `nomaster` takes no argument.
History variables: `missed` has the ports for which a command failed or was skipped,
`late` those whose row had no state when they were first seen (these are never added),
`unset` tells that `br_set` failed to enable STP since the process started. The kernel is
taken to obey `bridge link set` for a member and refuse it otherwise: what a kernel that
runs STP itself does with port states is outside the model.

## Runs

| Run | States | Shows |
|---|---|---|
| `bundle` | 27 876 | ASIC ports and DROP rules are those of the configuration after any sequence of handlers; the trunks of the bridge's port are the VLANs of the VLAN interfaces, but for stale and shared ones; a step touches no other bundle's ASIC port, and opens no member to the kernel; switched ports are blocked but for a LAG down to one slave; pointers break only where there are bonds; `SimBundle` implements `L2Switch` |
| `bundle_faults` | 52 557 | a bridge and a VRF with failing commands, crashes and restarts: INPUT rules never stack; a bundle flagged as added is in the ASIC; a routed port is blocked only by rules of a process that died |
| `vrf_l3stats` | 142 628 | mutual exclusion; rules match the flag; a mutex is leaked only after threads overtook each other; otherwise every port settles |
| `l3poll` | 37 474 | a poll mixes unicast and multicast only beside a delete thread, or after one died at work, or after a create thread died inside a pair; other polls that overlap no thread are exact |
| `sflow` | 175 232 | rules, agent, ASIC record and configuration agree, also after restarts; a `set_sflow` that returns leaves rules for the enabled bundles; the statistics implement `SflowCounter` |
| `netdev_config` | 737 492 | the client is not out of date; pause settings do not outlive the link; constructed addresses differ |
| `classifier` | 86 107 | a binding has its list and is made once; only `list_update` takes the entries over the limit |
| `mirror` | 2 877 | sources and outputs are live; a destination is freed only if it was a source too; the ASIC mirrors nothing the kept mirror does not have |
| `stp` | 171 097 | rows' states reach the kernel, ports with rows join the bridge, nothing is lost in the end; STP is off under ports only after a failed `br_set` or a drifted count |

Three runs show that the code does not do what one of its own lines says (the
findings in `PROJECT.json` quote them):

- `bundle_freed`: an ofport freed while it is in the list of a LAG.
- `vrf_close`: a thread that runs after its netdev was freed.
- `sflow_gone`: a bundle with sFlow rules is removed, and the next `set_sflow` with the
  same configuration dereferences NULL.

Other disagreements are in the models, each of them part of an action, and the
properties above say exactly when they happen:

- `SwitchedPortsBlocked`: a LAG brought down to one new slave stays in the ASIC with the
  slave unblocked.
- `TrunksFollowInterfaces`: a VLAN interface that is given another VLAN leaves the bit and
  the trunk of the old one (`stale`), and destroying one of two interfaces with one VLAN
  takes the bit of both (`shared`).
- `RoutedPortsOpen`: DROP rules survive a restart under a port that is routed afterwards.
- `DestinationsLeave`: a bundle that is a source and a destination of a mirror stays among
  the destinations when it is freed.
- `PortsJoin`: a port first seen without a state never joins the bridge.
- `StpEnabledWithPorts`: deleting a port that was never counted takes `nb_ports` below the
  number of ports, and the next port joins a bridge on which STP is off.
- `SettledPollsExact`, `PollMixNeedsDelete`: rules half deleted by a process that died are
  completed in another order, and a FORWARD pair half made by one gets its `-i` rule a
  second time; polls then take unicast for multicast or the other way round (`torn`).
- `ImplementsCounter`: interface 1 sums the rules of interface 10 as well (`Exact`).
- `CapacityHolds`: `list_update` takes the lists over 512 entries (`overfilled`).

Two are modelled without a property that tells them: an apply takes a port that is bound to
another list of the bucket for bound (`Taken`), and a deleted port stays in the kernel
bridge (`Members`). Statistics of access lists are read and cleared by bucket too, so that
lists that share one share hits; no line says otherwise.

### Bounds

- `bundle`: two interfaces and one LAG are the least with which a port can move,
  be stolen, and a LAG have one or two slaves; two VLAN interfaces can share a VLAN, and
  two VLANs let a setting name an enabled and a disabled one, and an interface go from one
  to the other. The three settings take each way through `bundle_configure` (native-tagged
  is native-untagged but for the mode written), and 4095 is the id that is not copied.
  Two constraints: handlers are followed no further where a second VLAN interface
  exists beside a physical one (`SecondAlone`), or a stale bit does (`StaleApart`); the
  bitmap and the trunks are those of the VLAN interfaces alone. The
  theorems below remove these bounds for what they state.
- `bundle_faults`: two interfaces, a LAG, a VLAN interface, one VLAN and one setting, whose
  VLAN -1 is the one that a VLAN interface cannot have (followed only while there is no
  other interface, `IntfAlone`); `MaxRules` bounds how often a crash may
  leave one more FORWARD rule (they do stack, one per crash in
  `enable_port_in_iptables`; nothing in the code claims otherwise).
- `vrf_l3stats`: one interface, the VRF's own and a LAG, four threads per netdev:
  two joins and two leaves, enough for overtaking, a leak, and threads behind it.
  A rule and a pair, so that one can be seen without the other. Deadlock is not checked: the bounded
  number of threads may be used up.
- `l3poll`: one netdev (polls and threads of two share nothing but the main thread),
  the eight rules of one address family, four threads: a join and a leave before a
  restart and after it.
- `sflow`: two interfaces that are bundles, of which the VRF's own is handled as the
  other; two rates and a request without collector; one direction, as the two are
  added and compared alike; two samples, so that a counter that starts again can
  reach its old value. A LAG exceeds the time of a run: it is in `sflow_gone`, and
  the theorems hold with LAGs.
- `netdev_config`: one name opened with every class and a loopback beside it, a
  speed with and one without a feature bit, every pause setting; three
  constructions, so that one follows a close while another netdev is open.
- `classifier`: three lists, of which all share the first bucket and two share one
  after growth; a LAG with two ports; one list size and a capacity that two
  lists fit and three do not; hits on one binding (`MaxCounted`).
- `mirror`: two bundles, as many addresses (so that they are reused), two mirrors
  for one place. Three of either exceed the time of a run.
- `stp`: two ports, two states, `nb_ports` no further than `MaxDrift` below 0.

`bundle` and the runs with its specification do not check deadlock, as a state
with broken pointers has no successor without a restart.

### Fairness

`VrfSpec` assumes weak fairness of every netdev's threads: the kernel runs a
thread that is not blocked. No fairness between threads is assumed, so one may
overtake another. `StpSpec` assumes weak fairness of `stp_reconfigure`: the main
loop calls it again and again. Handlers, database writes and restarts have none.

## Proofs

Each theorem holds for every value of the constants, under the named assumptions
beside their declarations. Besides types these say: enabled VLANs are 1..4094 and
requested ones -1..4095; names of interfaces, LAGs and the bridge differ;
values that stand for "none" are no others; a VRF specification has `Vrf` true; an ACL
fits the type of its counter; and interfaces, and the names the pattern of a poll finds, are finitely many
(`FiniteAssumption`, `StpAssumption`, `ClsAssumption`, `SflowAssumption`: cardinalities are
compared). Hypotheses of single theorems are given with them. The constants that bound
a run (`MaxRules`, `MaxThreads`, `MaxDrift`, `MaxCounted`, `MaxConstructs`, `MaxSamples`) are any
numbers.

Every proof has the same shape: an invariant that includes the types, one lemma per
helper, one step per action. What follows is what each invariant adds, and why.

### Bundles, rules and the switch

- `TypeCorrect`: `Spec => []TypeOK`, with crashes and failing commands. `TypeOK` is
  inductive.
- `InputRuleNeverStacked`: `Spec => []InputRuleOnce`, crashes and failing commands
  included. With `TypeOK`, `InputRuleOnce` is inductive: every handler changes the
  rules by one `UpdateRules(S, T)` (`HandlerRules`), which preserves it because the
  `-C` check finds a surviving rule (`UpdateRulesOnce`).
- `RulesCorrect`: `SpecNoCrash => []RulesFollowBundles`, whatever commands fail.
  `RulesExact` (rule counts equal flags) is inductive by itself through
  `UpdateRules`; `FlaggedSwitched` (a flagged port is in a switched bundle) needs the
  pointers and `FlagsTell` of `ShapeInv`: the routing and bridge flags tell which
  bundles are not switched.
- `OnlyBondsBreak`: `Spec => OnlyBondsBreakLists`. Handlers that break the pointers are
  shown to make `Intact` false (`StealsBreaks`, `WithdrawsBreaks`) and to need a bond; all
  others keep lists and back pointers together, from `ShapeInv`.
- `MembersStayBlocked`: `Spec => BlockedWhileMember`, a fact of each step: the ports a handler
  unblocks are those that leave their bundle.
- `AsicCorrect`: if no command fails (`~MayFail`), `Spec`, crashes and restarts included,
  implies `[]AsicMatchesConfig`. The invariant adds that `is_added_to_sim_ovs` is set exactly
  for the bundles with an ASIC port and that memory of bundles that do not exist is fresh
  (`AddedTells`); without it `del-port` could not be known to hit.
- `TrunksCorrect`: for a bridge (`~Vrf`) whose commands succeed, `VlanSpec` implies
  `[]TrunksFollowInterfaces`, whatever VLANs the interfaces are given and however often.
  `VlansTell`: the trunks are the bitmap without 4095; an interface that exists has a VLAN
  whose bit is set or that is shared; a bit that is set belongs to an interface or is
  stale; and a VLAN that two interfaces have is shared. Without the last part the bit that
  goes with a destroyed interface could be one that another interface needs.
- `AsicIsolated`: under the same hypothesis `Spec => AsicIsolation`, from that invariant in
  both states of a step.
- `AddedCorrect`, `SwitchedBlocked`: `Spec => []AddedIsPresent` and `Spec => []SwitchedPortsBlocked`
  whichever commands fail. `FailInv` adds that only switched bundles are in the ASIC: a
  failed `del-port` or `add-port` leaves the flag behind the port, never ahead of it.
- `BridgeImplementsSwitch`: if no command fails, `Spec => ImplementsSwitch`. `ProgramCarries`
  shows that what `add-port` writes carries the frames that the settings ask for; with
  `AsicCorrect` the wires follow the settings in every state, and each handler changes
  the settings of one port, takes one away, or toggles a VLAN.
- `RoutedOpen`: `BothSpec => []RoutedPortsOpen`. `OpenInv`: a port without leftover rules has
  exactly those of its flag, and a port of the VRF is none of the bridge.

### Threads

- `OneThreadAtATime`, `RulesFollowFlag`: `VrfSpec \/ VrfCloseSpec` implies `[]MutexExcludes` and
  `[]RulesMatchFlag`, for any number of rules and threads. The invariant (`LockedInv`) says
  what the rules are while a holder is at rule `k`: those before `k` are done, the others
  as the flag says, pairs included; without it `RulesMatchFlag` is not inductive.
- `LeaksReorder`: the same specifications imply `[]LeakNeedsReordering`. `OrderInv`: unless a
  thread overtook another, the operations of the waiting threads alternate, the first
  finds work to do, and the last one is that of the port's place. It needs the back
  pointers of `SimBundle`, because joins and leaves alternate only while they are
  intact.
- `PollsMixOnlyDeleting`, `SettledPollsAreExact`: for the eight rules of an address family
  (`NRules = 8`, `Pairs = {5, 7}`) `PollSpec` implies `[]PollMixNeedsDelete` and
  `[]SettledPollsExact`, for any netdevs, threads and restarts. Neither is inductive. The
  invariant (`PollInv`) says who may be at work (`AtWork`); that rules that are not torn are
  those the thread at work has come to, a run of `1 .. 8` in order, each once, and all of
  them while the flag is set (`Made`), so that the unicast rule of a chain is listed first;
  and that the rules have been left alone since a poll began, unless it knows of a delete
  thread (`Overlaps`). With that the number of a line is known for
  every rule.

### Classifier

- `BindingsNeverOrphaned`: `ClsSpec => []BindingsHaveAcl`, for any hashes and any
  growth of the table: a list is deleted only if its bucket is empty, and its
  own bindings are in that bucket.
- `ClsTypeCorrect`, `BindingsStaySingle`: `ClsSpec` implies `[]ClsTypeOK` and `[]BoundOnce`.
  A list is searched in the bucket of its own hash, so a binding of it is found there,
  whatever the mask is at that moment of an apply.
- `CapacityKept`: `ClsSpec => []CapacityHolds`. Removing lists makes the set of entries smaller
  (`FewerTotal`), creating one adds exactly its entries; the invariant is that the set is
  finite. Below the limit the 16 bit sum is the true one (`MaxAce < CountMod`), so that the
  check before a creation sees the true room.

### Mirrors

- `MirrorTypeCorrect`, `SourcesStayAlive`, `MirrorsNothingElse`: `MirrorSpec` implies
  `[]MirrorTypeOK`, `[]SourcesAlive` and `[]NothingElseMirrored`. `MirrorInv` relates every mirror
  to its row (`Covers`), says that sources and output are registered (`Alive`) and that a
  row names ports that exist. Addresses are reused, so that an address alone says
  nothing.
- `DestinationsLeaveMirrors`: `MirrorSpec => DestinationsLeave`, from `MirrorInv`.

### Spanning tree

- `StpTypeCorrect`: `StpSpec => []StpTypeOK`.
- `KernelStatesCorrect`: `StpSpec => []StatesReachKernel`. Two invariants: the kernel has the
  plugin's copy (`KernelHasCopy`), and once changes are seen the copy is the row
  (`CopyIsRow`). An early return leaves ports behind, but not without leaving `changed`.
- `PortsHaveJoined`: `StpSpec => []PortsJoin`. `JoinInv`: a port the plugin knows is in the kernel
  bridge, missed or late, and once changes are seen every port with a row is known.
- `StpEnabled`: `StpSpec => []StpEnabledWithPorts`. `CountInv`: `nb_ports` is at most the number
  of known ports, and while it is that number the first of them called `br_set`.

### sFlow and netdevs

- `SflowStaysInSync`: `SflowSpec => []SflowInSync`. With the types of rules and local
  configurations it is inductive; the lemmas say that `sflow_iptable_del` finds the
  one group by its rate (`DelOne`) and what `EditRules` leaves (`EditFacts`), half done too,
  when the process dies.
- `EnabledAreSampled`: `SflowSpec => SamplesEnabledBundles`, from that invariant.
- `StatusUpToDate`, `PauseIsGiven`, `AddressesDiffer`: `ConfigSpec` implies `[]StatusNotStale`,
  `[]PauseSinceUp` and `[]ConstructedAddressesDiffer`. `ConfigInv` adds that the pause fields
  tell `given` and that constructed addresses are numbers the counter has passed.
- `ReportedOnce`: `CounterSpec => []NoSampleTwice` for any interfaces and directions.
  With the types of the counters it is inductive.
- `SflowTypeCorrect`: `SflowSpec => []SflowTypeOK`, whatever names the pattern of the poll
  finds. The hard part are the statistics: the sum a poll reads is a number (`TotalNat`),
  and it subtracts the last one only when that is not larger (`IncrementNat`).
- `CounterImplemented`: `SflowSpec => ImplementsCounter`, without a hypothesis on the names: the
  mapping is over the interfaces whose rules the pattern finds alone (`Exact`), in a switch
  that may have others. For these a sum is the counter of one group (`TotalOne`). `CountInv`: while the process lives, a watched interface
  has at most one group, which has not fallen behind the last poll unless `sflow_resets` is
  set. `set_sflow` keeps it because it changes nothing for a port or leaves it without
  rules, unwatched, or with a fresh group and a reset (`ConfiguredPort`). That needs the
  shape of `SimBundle`: the name of an interface is the name of a bundle only if the
  interface is in it, since a port that a LAG takes away destroys its bundle
  (`OwnBundle`); else its rules could be kept and its counters reset. Handlers stutter, a
  packet is `Take`, a poll `Publish`, `set_sflow` `Lose`, a closed interface and a restart
  `Reopen`.

By `CounterImplemented` and `ReportedOnce`, the statistics of a netdev whose name is not the
beginning of another never report a sample twice, nor more than were taken. Those of an
interface 1 beside a 10 do report more: the condition is needed.

### Only model-checked

- `EventuallySettled` and `StatesEventuallyReach`: liveness under fairness, out of the
  prover's reach.
- What the violation runs refute. Every other property of a run is a theorem above, under
  the hypotheses given there.

## Not modelled

- CoPP: `sim_copp_stats_get` keeps no state; it sums the rows of one file.
- The netlink request for the kernel's interface counters: values are copied.
- QoS and OpenFlow handlers, mirror statistics, `statistics_clear_all`: stubs.
- `port_add`, `port_del`, the port dump: a set of names that only the dump reads.
- `destruct` of an ofproto: nothing of it is left.
- A `pthread_create` that fails: the code does not look at its result, and the thread
  is then missing. In `SimSflow`, commands whose output cannot be read.
- VLAN 0 of a VLAN interface (the client gives a VLAN interface its VLAN or -1), for which
  `bundle_set` goes on to switching.
- Text of commands, their lengths, and logging. The MTU, which nothing reads.

## Plan

Done: bundles, rules, VRF threads and polls, classifier, mirrors, spanning tree,
sFlow, netdev configuration, the two refinements, and a theorem for every property
of the passing runs but the two of liveness. What could come next:

1. Bundles with the classifier and with mirrors in one specification, in place
   of `rebundle` and of `SimMirror`'s own bundle actions.
2. sFlow with failing commands.
3. `NetdevL3Poll` over the two address families at once, as they share the flag.
