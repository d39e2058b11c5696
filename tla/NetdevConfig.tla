---------------------------- MODULE NetdevConfig ----------------------------
(***************************************************************************)
(* The netdevs of netdev-sim.c as ops-switchd configures and watches them: *)
(* construction and its MAC address, hardware information and              *)
(* configuration of physical and internal interfaces, the VLAN of a        *)
(* subinterface.  The client reads the status of a netdev again only when  *)
(* change_seq has moved.                                                   *)
(*                                                                         *)
(* Every handler holds the mutex of the netdev from its first read to its  *)
(* last write.  The MTU is left out, as no getter returns it.              *)
(***************************************************************************)
EXTENDS Naturals, FiniteSets

CONSTANTS
    Netdevs,       \* the names of interfaces
    Classes,       \* per name, the classes its netdev is opened with
    Speeds,        \* values of max_speed
    PauseArgs,     \* values of pause
    MacArgs,       \* MAC addresses of the configuration
    Absent,        \* a key that is not in the map
    MaxConstructs  \* bound on the netdevs one process constructs

ASSUME ConfigAssumption ==
    /\ Classes \in [Netdevs -> SUBSET {"system", "internal", "vlansubint", "loopback"}]
    /\ Speeds \subseteq Nat
    /\ PauseArgs \subseteq {"none", "rx", "tx", "rxtx"}
    /\ MaxConstructs \in Nat

VARIABLES
    next_n,     \* constructions so far, the static counter
    dev,        \* per name, its netdev or Closed
    kernelMac,  \* per name, the address of the kernel's interface
    changed,    \* names whose change_seq is not the one the client has
    seen,       \* per name, the status the client read last
    given       \* per name, pause as last given since it came up (history)

cfgvars == <<next_n, dev, kernelMac, changed, seen, given>>

Closed == [class |-> "closed"]
Open   == {n \in Netdevs : dev[n] # Closed}

(* The classes with set_hw_intf_info and set_hw_intf_config.               *)
HwClasses == {"system", "internal"}

NewDev(class, addr) ==
    [class |-> class, up |-> FALSE, link_state |-> FALSE,
     hw_info_link_speed |-> 0, link_speed |-> 0, autoneg |-> FALSE,
     pause_rx |-> FALSE, pause_tx |-> FALSE,
     hwaddr |-> addr, hw_addr_str |-> Absent]

SpeedBit ==
    [s \in {10, 100, 1000, 10000, 40000, 100000} |->
       CASE s = 10 -> "10MB_FD" [] s = 100 -> "100MB_FD" [] s = 1000 -> "1GB_FD"
         [] s = 10000 -> "10GB_FD" [] s = 40000 -> "40GB_FD" [] s = 100000 -> "100GB_FD"]

SpeedBits(speed) == {SpeedBit[s] : s \in {speed} \cap DOMAIN SpeedBit}

(* netdev_sim_get_features                                                 *)
netdev_sim_get_features(d) ==
    SpeedBits(d.link_speed)
    \cup (IF d.autoneg THEN {"AUTONEG"} ELSE {})
    \cup (IF d.pause_rx THEN {"PAUSE"} ELSE {})
    \cup (IF d.pause_rx # d.pause_tx THEN {"PAUSE_ASYM"} ELSE {})

(* What netdev_sim_update_flags, netdev_sim_get_carrier,                   *)
(* netdev_sim_get_features and netdev_sim_get_etheraddr return.            *)
Status(d) == [flags |-> d.up, carrier |-> d.link_state,
              features |-> netdev_sim_get_features(d), etheraddr |-> d.hwaddr]

ConfigInit ==
    /\ next_n = 0
    /\ dev       = [n \in Netdevs |-> Closed]
    /\ kernelMac = [n \in Netdevs |-> Absent]
    /\ changed = {}
    /\ seen  = [n \in Netdevs |-> Closed]
    /\ given = [n \in Netdevs |-> "none"]

-----------------------------------------------------------------------------
(* Mutant: the address is made of the number of netdevs there are.         *)
ConstructCounted(n, class) ==
    /\ dev[n] = Closed /\ next_n < MaxConstructs
    /\ next_n' = next_n + 1
    /\ dev' = [dev EXCEPT ![n] = NewDev(class, Cardinality(Open))]
    /\ changed' = changed \cup {n}
    /\ given' = [given EXCEPT ![n] = "none"]
    /\ UNCHANGED <<kernelMac, seen>>

(* netdev_sim_construct: the address is made of the counter.  The client   *)
(* has read nothing of the new netdev.                                     *)
netdev_sim_construct(n, class) ==
    /\ dev[n] = Closed /\ next_n < MaxConstructs
    /\ next_n' = next_n + 1
    /\ dev' = [dev EXCEPT ![n] = NewDev(class, next_n)]
    /\ changed' = changed \cup {n}
    /\ given' = [given EXCEPT ![n] = "none"]
    /\ UNCHANGED <<kernelMac, seen>>

netdev_sim_dealloc(n) ==
    /\ n \in Open
    /\ dev'  = [dev EXCEPT ![n] = Closed]
    /\ seen' = [seen EXCEPT ![n] = Closed]
    /\ UNCHANGED <<next_n, kernelMac, changed, given>>

(* netdev_sim_set_hw_intf_info: a speed or an address that is not given    *)
(* stays, and the kernel's interface gets the address that is kept, if     *)
(* there is one.  The link keeps its speed.                                *)
netdev_sim_set_hw_intf_info(n, max_speed, mac_addr) ==
    LET mac == IF mac_addr = Absent THEN dev[n].hw_addr_str ELSE mac_addr
    IN  /\ n \in Open /\ dev[n].class \in HwClasses
        /\ dev' = [dev EXCEPT
              ![n].hw_info_link_speed = IF max_speed = Absent THEN @ ELSE max_speed,
              ![n].hw_addr_str = mac]
        /\ \/ mac # Absent /\ kernelMac' = [kernelMac EXCEPT ![n] = mac]
           \/ UNCHANGED kernelMac
        /\ UNCHANGED <<next_n, changed, seen, given>>

get_interface_pause_config(pause) ==
    [rx |-> pause \in {"rx", "rxtx"}, tx |-> pause \in {"tx", "rxtx"}]

(* Mutant: the pause settings outlive the link.                            *)
DisableKeepsPause(d) ==
    [d EXCEPT !.up = FALSE, !.link_state = FALSE, !.link_speed = 0, !.autoneg = FALSE]

Disable(d) ==
    [d EXCEPT !.up = FALSE, !.link_state = FALSE, !.link_speed = 0,
              !.autoneg = FALSE, !.pause_tx = FALSE, !.pause_rx = FALSE]

(* The link comes up at its maximum speed; without a pause key the pause   *)
(* settings stay.                                                          *)
Enable(d, autoneg, pause) ==
    LET p == IF pause = Absent THEN [rx |-> d.pause_rx, tx |-> d.pause_tx]
             ELSE get_interface_pause_config(pause)
    IN  [d EXCEPT !.up = TRUE, !.link_state = TRUE,
                  !.link_speed = d.hw_info_link_speed, !.autoneg = autoneg,
                  !.pause_rx = p.rx, !.pause_tx = p.tx]

(* Mutant: a link that stays up is taken for unchanged.                    *)
ConfigNoBump(n, hw_enable, autoneg, pause) ==
    /\ n \in Open /\ dev[n].class \in HwClasses
    /\ dev' = [dev EXCEPT ![n] = IF hw_enable THEN Enable(@, autoneg, pause) ELSE Disable(@)]
    /\ changed' = IF dev'[n].link_state = dev[n].link_state
                  THEN changed ELSE changed \cup {n}
    /\ given' = [given EXCEPT ![n] = IF ~hw_enable THEN "none"
                                     ELSE IF pause = Absent THEN @ ELSE pause]
    /\ UNCHANGED <<next_n, kernelMac, seen>>

(* netdev_sim_set_hw_intf_config                                           *)
netdev_sim_set_hw_intf_config(n, hw_enable, autoneg, pause) ==
    /\ n \in Open /\ dev[n].class \in HwClasses
    /\ dev' = [dev EXCEPT ![n] = IF hw_enable THEN Enable(@, autoneg, pause) ELSE Disable(@)]
    /\ changed' = changed \cup {n}
    /\ given' = [given EXCEPT ![n] = IF ~hw_enable THEN "none"
                                     ELSE IF pause = Absent THEN @ ELSE pause]
    /\ UNCHANGED <<next_n, kernelMac, seen>>

(* netdev_sim_set_config, of subinterfaces: change_seq does not move.      *)
netdev_sim_set_config(n, vlan) ==
    /\ n \in Open /\ dev[n].class = "vlansubint"
    /\ dev' = [dev EXCEPT ![n].up = (vlan # 0)]
    /\ UNCHANGED <<next_n, kernelMac, changed, seen, given>>

netdev_sim_set_etheraddr(n, mac) ==
    /\ n \in Open
    /\ dev' = [dev EXCEPT ![n].hwaddr = mac]
    /\ changed' = IF mac = dev[n].hwaddr THEN changed ELSE changed \cup {n}
    /\ UNCHANGED <<next_n, kernelMac, seen, given>>

(* The client reads the status of a netdev whose change_seq moved.         *)
Refresh(n) ==
    /\ n \in Open /\ n \in changed
    /\ seen' = [seen EXCEPT ![n] = Status(dev[n])]
    /\ changed' = changed \ {n}
    /\ UNCHANGED <<next_n, dev, kernelMac, given>>

(* The process is started again: the counter too, and the kernel's         *)
(* interfaces keep their addresses.                                        *)
Restart ==
    /\ next_n' = 0
    /\ dev'  = [n \in Netdevs |-> Closed]
    /\ seen' = [n \in Netdevs |-> Closed]
    /\ UNCHANGED <<kernelMac, changed, given>>

ConfigNext ==
    \/ Restart
    \/ \E n \in Netdevs :
          \/ \E class \in Classes[n] : netdev_sim_construct(n, class)
          \/ netdev_sim_dealloc(n)
          \/ \E s \in Speeds \cup {Absent}, mac \in MacArgs \cup {Absent} :
                netdev_sim_set_hw_intf_info(n, s, mac)
          \/ \E enable, autoneg \in BOOLEAN, pause \in PauseArgs \cup {Absent} :
                netdev_sim_set_hw_intf_config(n, enable, autoneg, pause)
          \/ \E vlan \in 0 .. 1 : netdev_sim_set_config(n, vlan)
          \/ \E mac \in MacArgs : netdev_sim_set_etheraddr(n, mac)
          \/ Refresh(n)

ConfigSpec == ConfigInit /\ [][ConfigNext]_cfgvars

-----------------------------------------------------------------------------
(* A client that has seen the last change_seq has the status the getters   *)
(* return, however handlers and reads interleave: carrier, features and    *)
(* address of every netdev, and the flags of those that set_config does    *)
(* not change.                                                             *)
StatusNotStale ==
    \A n \in Open \ changed :
        LET now == Status(dev[n]) IN
        /\ seen[n].carrier = now.carrier
        /\ seen[n].features = now.features
        /\ seen[n].etheraddr = now.etheraddr
        /\ dev[n].class # "vlansubint" => seen[n].flags = now.flags

(* The pause bits of the features tell the pause setting that was given    *)
(* last since the link came up, and none while it is down: a setting of an *)
(* earlier time does not come back with the link.                          *)
PauseSinceUp ==
    \A n \in Open :
        LET bits == netdev_sim_get_features(dev[n]) \cap {"PAUSE", "PAUSE_ASYM"} IN
        given[n] = CASE bits = {} -> "none"
                     [] bits = {"PAUSE"} -> "rxtx"
                     [] bits = {"PAUSE", "PAUSE_ASYM"} -> "rx"
                     [] bits = {"PAUSE_ASYM"} -> "tx"

(* Two netdevs that kept the address they were constructed with have       *)
(* different ones, whatever was opened and closed in between.              *)
ConstructedAddressesDiffer ==
    \A n, o \in Open :
        dev[n].hwaddr = dev[o].hwaddr => n = o \/ dev[n].hwaddr \in MacArgs
=============================================================================
