---------------------------- MODULE NetdevProofs ----------------------------
(***************************************************************************)
(* What the netdevs of netdev-sim.c promise a client, for any number of    *)
(* them: status, pause settings and addresses (NetdevConfig), and sFlow    *)
(* counters (SflowCounter).                                                *)
(***************************************************************************)
EXTENDS NetdevConfig, SflowCounter, TLAPS

-----------------------------------------------------------------------------
(* Records of netdevs                                                      *)

Class == {"system", "internal", "vlansubint", "loopback"}

Dev == [class: Class, up: BOOLEAN, link_state: BOOLEAN,
        hw_info_link_speed: Nat, link_speed: Nat, autoneg: BOOLEAN,
        pause_rx: BOOLEAN, pause_tx: BOOLEAN,
        hwaddr: Nat \cup MacArgs, hw_addr_str: MacArgs \cup {Absent}]

LEMMA DevFacts ==
    /\ Closed \notin Dev
    /\ \A class \in Class, a \in Nat \cup MacArgs :
          /\ NewDev(class, a) \in Dev
          /\ NewDev(class, a).hwaddr = a
          /\ ~NewDev(class, a).pause_rx /\ ~NewDev(class, a).pause_tx
  BY DEF Closed, Dev, Class, NewDev

(* What Enable makes of d, with the pause settings that come out.          *)
Up(d, autoneg, rx, tx) ==
    [d EXCEPT !.up = TRUE, !.link_state = TRUE,
              !.link_speed = d.hw_info_link_speed, !.autoneg = autoneg,
              !.pause_rx = rx, !.pause_tx = tx]

LEMMA DisableFacts ==
    ASSUME NEW d \in Dev
    PROVE  /\ Disable(d) \in Dev /\ Disable(d).hwaddr = d.hwaddr
           /\ ~Disable(d).pause_rx /\ ~Disable(d).pause_tx
  BY DEF Disable, Dev

LEMMA UpFacts ==
    ASSUME NEW d \in Dev, NEW autoneg \in BOOLEAN, NEW rx \in BOOLEAN, NEW tx \in BOOLEAN
    PROVE  Up(d, autoneg, rx, tx) \in Dev /\ Up(d, autoneg, rx, tx).hwaddr = d.hwaddr
  BY DEF Up, Dev

LEMMA UpPause ==
    ASSUME NEW d \in Dev, NEW autoneg \in BOOLEAN, NEW rx \in BOOLEAN, NEW tx \in BOOLEAN,
           NEW e, e = Up(d, autoneg, rx, tx)
    PROVE  (e.pause_rx <=> rx) /\ (e.pause_tx <=> tx)
  BY DEF Up, Dev

LEMMA EnableIsUp ==
    ASSUME NEW d \in Dev, NEW autoneg \in BOOLEAN, NEW pause \in PauseArgs \cup {Absent}
    PROVE  Enable(d, autoneg, pause) =
              IF pause = Absent THEN Up(d, autoneg, d.pause_rx, d.pause_tx)
              ELSE Up(d, autoneg, pause \in {"rx", "rxtx"}, pause \in {"tx", "rxtx"})
<1> DEFINE p == IF pause = Absent THEN [rx |-> d.pause_rx, tx |-> d.pause_tx]
                ELSE get_interface_pause_config(pause)
<1>1. Enable(d, autoneg, pause) = Up(d, autoneg, p.rx, p.tx)
  BY DEF Enable, Up
<1>2. CASE pause = Absent
  <2>1. p.rx = d.pause_rx /\ p.tx = d.pause_tx
    BY <1>2
  <2> QED  BY <1>1, <1>2, <2>1
<1>3. CASE pause # Absent
  <2>1. p.rx = (pause \in {"rx", "rxtx"}) /\ p.tx = (pause \in {"tx", "rxtx"})
    BY <1>3 DEF get_interface_pause_config
  <2> QED  BY <1>1, <1>3, <2>1
<1> QED  BY <1>2, <1>3

(* Pause settings as pause was given.                                      *)
Tells(g, rx, tx) ==
    /\ g \in {"none", "rx", "tx", "rxtx"}
    /\ rx <=> g \in {"rx", "rxtx"}
    /\ tx <=> g \in {"tx", "rxtx"}

LEMMA ConfigFacts ==
    ASSUME NEW d \in Dev, NEW enable \in BOOLEAN, NEW autoneg \in BOOLEAN,
           NEW pause \in PauseArgs \cup {Absent}, NEW e, NEW g, NEW h,
           e = IF enable THEN Enable(d, autoneg, pause) ELSE Disable(d),
           h = IF ~enable THEN "none" ELSE IF pause = Absent THEN g ELSE pause
    PROVE  /\ e \in Dev /\ e.hwaddr = d.hwaddr
           /\ Tells(g, d.pause_rx, d.pause_tx) => Tells(h, e.pause_rx, e.pause_tx)
<1>1. CASE ~enable
  <2>1. e = Disable(d) /\ h = "none"
    BY <1>1
  <2>2. e \in Dev /\ e.hwaddr = d.hwaddr /\ ~e.pause_rx /\ ~e.pause_tx
    BY <2>1, DisableFacts
  <2> QED  BY <2>1, <2>2 DEF Tells
<1>2. CASE enable /\ pause = Absent
  <2>1. e = Up(d, autoneg, d.pause_rx, d.pause_tx) /\ h = g
    BY <1>2, EnableIsUp
  <2>2. d.pause_rx \in BOOLEAN /\ d.pause_tx \in BOOLEAN
    BY DEF Dev
  <2>3. e \in Dev /\ e.hwaddr = d.hwaddr
    <3>1. /\ Up(d, autoneg, d.pause_rx, d.pause_tx) \in Dev
          /\ Up(d, autoneg, d.pause_rx, d.pause_tx).hwaddr = d.hwaddr
      BY <2>2, UpFacts
    <3> QED  BY <2>1, <3>1
  <2>4. e.pause_rx <=> d.pause_rx
    BY <2>1, <2>2, UpPause
  <2>5. e.pause_tx <=> d.pause_tx
    BY <2>1, <2>2, UpPause
  <2> QED  BY <2>1, <2>3, <2>4, <2>5 DEF Tells
<1>3. CASE enable /\ pause # Absent
  <2> DEFINE rx == pause \in {"rx", "rxtx"}
             tx == pause \in {"tx", "rxtx"}
  <2>1. e = Up(d, autoneg, rx, tx) /\ h = pause
    BY <1>3, EnableIsUp
  <2>2. rx \in BOOLEAN /\ tx \in BOOLEAN
    OBVIOUS
  <2>3. pause \in {"none", "rx", "tx", "rxtx"}
    BY <1>3, ConfigAssumption
  <2>4. /\ e \in Dev /\ e.hwaddr = d.hwaddr
        /\ e.pause_rx <=> rx
        /\ e.pause_tx <=> tx
    <3> HIDE DEF rx, tx
    <3>1. e \in Dev /\ e.hwaddr = d.hwaddr
      <4>1. Up(d, autoneg, rx, tx) \in Dev /\ Up(d, autoneg, rx, tx).hwaddr = d.hwaddr
        BY <2>2, UpFacts
      <4> QED  BY <2>1, <4>1
    <3>2. (e.pause_rx <=> rx) /\ (e.pause_tx <=> tx)
      BY <2>1, <2>2, UpPause
    <3> QED  BY <3>1, <3>2
  <2> QED  BY <2>1, <2>3, <2>4 DEF Tells
<1> QED  BY <1>1, <1>2, <1>3

(* A VLAN shows in the flags alone.                                        *)
LEMMA VlanFacts ==
    ASSUME NEW d \in Dev, NEW up \in BOOLEAN, NEW e, e = [d EXCEPT !.up = up]
    PROVE  /\ e \in Dev
           /\ e.class = d.class /\ e.link_state = d.link_state
           /\ e.link_speed = d.link_speed /\ e.autoneg = d.autoneg
           /\ e.pause_rx = d.pause_rx /\ e.pause_tx = d.pause_tx
           /\ e.hwaddr = d.hwaddr
  BY DEF Dev

LEMMA EtherFacts ==
    ASSUME NEW d \in Dev, NEW mac \in MacArgs, NEW e, e = [d EXCEPT !.hwaddr = mac]
    PROVE  /\ e \in Dev /\ e.hwaddr = mac
           /\ e.pause_rx = d.pause_rx /\ e.pause_tx = d.pause_tx
           /\ mac = d.hwaddr => e = d
  BY DEF Dev

-----------------------------------------------------------------------------
(* The inductive invariant of the netdevs                                  *)

DevType ==
    /\ dev \in [Netdevs -> Dev \cup {Closed}]
    /\ next_n \in Nat
    /\ given \in [Netdevs -> {"none", "rx", "tx", "rxtx"}]
    /\ seen = [n \in Netdevs |-> seen[n]]

(* What the client read is what the getters return, but for the flags of a *)
(* subinterface.                                                           *)
Fresh(s, d) ==
    /\ s.carrier = d.link_state
    /\ s.features = netdev_sim_get_features(d)
    /\ s.etheraddr = d.hwaddr
    /\ d.class # "vlansubint" => s.flags = d.up

AllFresh == \A n \in Open \ changed : Fresh(seen[n], dev[n])

PauseTells == \A n \in Open : Tells(given[n], dev[n].pause_rx, dev[n].pause_tx)

(* Addresses that were made are numbers the counter has passed.            *)
Passed ==
    \A n \in Open : \/ dev[n].hwaddr \in MacArgs
                    \/ dev[n].hwaddr \in Nat /\ dev[n].hwaddr < next_n

ConfigInv == DevType /\ AllFresh /\ PauseTells /\ Passed /\ ConstructedAddressesDiffer

(* One netdev is replaced by an open one.                                  *)
LEMMA Replace ==
    ASSUME DevType, NEW n \in Netdevs, NEW e \in Dev, dev' = [dev EXCEPT ![n] = e]
    PROVE  /\ dev' \in [Netdevs -> Dev \cup {Closed}]
           /\ dev'[n] = e
           /\ \A m \in Netdevs : m # n => dev'[m] = dev[m]
           /\ Open' = Open \cup {n}
  BY DevFacts DEF DevType, Open

LEMMA OpenIsDev == ASSUME DevType, NEW n \in Open PROVE n \in Netdevs /\ dev[n] \in Dev
  BY DEF DevType, Open

(* If its status, pause settings and address stay, so does the invariant.  *)
LEMMA SameInv ==
    ASSUME ConfigInv, NEW n \in Open, NEW e \in Dev, dev' = [dev EXCEPT ![n] = e],
           e.class = dev[n].class, e.up = dev[n].up \/ e.class = "vlansubint",
           e.link_state = dev[n].link_state,
           netdev_sim_get_features(e) = netdev_sim_get_features(dev[n]),
           e.pause_rx = dev[n].pause_rx, e.pause_tx = dev[n].pause_tx,
           e.hwaddr = dev[n].hwaddr,
           UNCHANGED <<next_n, changed, seen, given>>
    PROVE  ConfigInv'
<1>1. n \in Netdevs
  BY DEF Open
<1>2. /\ dev' \in [Netdevs -> Dev \cup {Closed}]
      /\ dev'[n] = e
      /\ \A m \in Netdevs : m # n => dev'[m] = dev[m]
      /\ Open' = Open \cup {n}
  BY <1>1, Replace DEF ConfigInv
<1>3. Open' = Open /\ Open \subseteq Netdevs
  BY <1>2 DEF Open
<1>4. DevType'
  BY <1>2 DEF ConfigInv, DevType
<1>5. AllFresh'
  <2> SUFFICES ASSUME NEW m \in Open', m \notin changed' PROVE Fresh(seen'[m], dev'[m])
    BY DEF AllFresh
  <2>1. Fresh(seen[m], dev[m])
    BY <1>3 DEF ConfigInv, AllFresh
  <2>2. CASE m # n
    BY <1>2, <1>3, <2>1, <2>2
  <2>3. CASE m = n
    BY <1>2, <2>1, <2>3 DEF Fresh
  <2> QED  BY <2>2, <2>3
<1>6. PauseTells'
  <2> SUFFICES ASSUME NEW m \in Open'
               PROVE  Tells(given'[m], dev'[m].pause_rx, dev'[m].pause_tx)
    BY DEF PauseTells
  <2>1. Tells(given[m], dev[m].pause_rx, dev[m].pause_tx)
    BY <1>3 DEF ConfigInv, PauseTells
  <2>2. dev'[m].pause_rx = dev[m].pause_rx /\ dev'[m].pause_tx = dev[m].pause_tx
    BY <1>2, <1>3
  <2> QED  BY <2>1, <2>2
<1>7. \A m \in Open' : dev'[m].hwaddr = dev[m].hwaddr
  BY <1>2, <1>3
<1>8. Passed' /\ ConstructedAddressesDiffer'
  BY <1>3, <1>7 DEF ConfigInv, Passed, ConstructedAddressesDiffer
<1> QED  BY <1>4, <1>5, <1>6, <1>8 DEF ConfigInv

(* If the client is told, and the address stays or becomes a given or a    *)
(* fresh one, the invariant stays.                                         *)
LEMMA ToldInv ==
    ASSUME ConfigInv, NEW n \in Netdevs, NEW e \in Dev, dev' = [dev EXCEPT ![n] = e],
           n \in changed', changed \subseteq changed', UNCHANGED seen,
           next_n' \in Nat, next_n <= next_n',
           given' \in [Netdevs -> {"none", "rx", "tx", "rxtx"}],
           \A m \in Netdevs : m # n => given'[m] = given[m],
           Tells(given'[n], e.pause_rx, e.pause_tx),
           \/ n \in Open /\ e.hwaddr = dev[n].hwaddr
           \/ e.hwaddr \in MacArgs
           \/ e.hwaddr = next_n /\ next_n < next_n'
    PROVE  ConfigInv'
<1>1. /\ dev' \in [Netdevs -> Dev \cup {Closed}]
      /\ dev'[n] = e
      /\ \A m \in Netdevs : m # n => dev'[m] = dev[m]
      /\ Open' = Open \cup {n}
  BY Replace DEF ConfigInv
<1>2. Open \subseteq Netdevs /\ next_n \in Nat
  BY DEF Open, ConfigInv, DevType
<1>3. DevType'
  BY <1>1 DEF ConfigInv, DevType
<1>4. AllFresh'
  <2> SUFFICES ASSUME NEW m \in Open', m \notin changed' PROVE Fresh(seen'[m], dev'[m])
    BY DEF AllFresh
  <2>1. m # n /\ m \in Open \ changed
    BY <1>1
  <2> QED  BY <1>1, <1>2, <2>1 DEF ConfigInv, AllFresh
<1>5. PauseTells'
  <2> SUFFICES ASSUME NEW m \in Open'
               PROVE  Tells(given'[m], dev'[m].pause_rx, dev'[m].pause_tx)
    BY DEF PauseTells
  <2>1. CASE m = n
    BY <1>1, <2>1
  <2>2. CASE m # n
    BY <1>1, <1>2, <2>2 DEF ConfigInv, PauseTells
  <2> QED  BY <2>1, <2>2
<1>6. \A m \in Open' : m # n => m \in Open /\ dev'[m].hwaddr = dev[m].hwaddr
  BY <1>1, <1>2
<1>7. Passed'
  <2> SUFFICES ASSUME NEW m \in Open'
               PROVE  \/ dev'[m].hwaddr \in MacArgs
                      \/ dev'[m].hwaddr \in Nat /\ dev'[m].hwaddr < next_n'
    BY DEF Passed
  <2>1. \A o \in Open : \/ dev[o].hwaddr \in MacArgs
                        \/ dev[o].hwaddr \in Nat /\ dev[o].hwaddr < next_n'
    BY <1>2 DEF ConfigInv, Passed
  <2> QED  BY <1>1, <1>2, <1>6, <2>1
<1>8. ConstructedAddressesDiffer'
  <2> SUFFICES ASSUME NEW m \in Open', NEW o \in Open', dev'[m].hwaddr = dev'[o].hwaddr, m # o,
                      dev'[m].hwaddr \notin MacArgs
               PROVE  FALSE
    BY DEF ConstructedAddressesDiffer
  <2>1. \A p, q \in Open : dev[p].hwaddr = dev[q].hwaddr => p = q \/ dev[p].hwaddr \in MacArgs
    BY DEF ConfigInv, ConstructedAddressesDiffer
  <2>2. \A p \in Open : dev[p].hwaddr \in MacArgs \/ dev[p].hwaddr # next_n
    BY <1>2 DEF ConfigInv, Passed
  <2>3. CASE m # n /\ o # n
    BY <1>6, <2>1, <2>3
  <2>4. ASSUME NEW q \in Open', q # n, dev'[q].hwaddr = e.hwaddr, e.hwaddr \notin MacArgs
        PROVE  FALSE
    BY <1>6, <2>1, <2>2, <2>4
  <2> QED  BY <1>1, <2>3, <2>4
<1> QED  BY <1>3, <1>4, <1>5, <1>7, <1>8 DEF ConfigInv

LEMMA ConstructInv ==
    ASSUME ConfigInv, NEW n \in Netdevs, NEW class \in Classes[n],
           netdev_sim_construct(n, class)
    PROVE  ConfigInv'
<1> DEFINE e == NewDev(class, next_n)
<1>1. class \in Class /\ next_n \in Nat \cup MacArgs /\ next_n \in Nat
  BY ConfigAssumption DEF Class, ConfigInv, DevType
<1>2. e \in Dev /\ e.hwaddr = next_n /\ ~e.pause_rx /\ ~e.pause_tx
  BY <1>1, DevFacts
<1>3. /\ dev' = [dev EXCEPT ![n] = e]
      /\ n \in changed' /\ changed \subseteq changed' /\ UNCHANGED seen
      /\ given' = [given EXCEPT ![n] = "none"]
      /\ next_n' = next_n + 1
  BY DEF netdev_sim_construct
<1>4. next_n' \in Nat /\ next_n <= next_n' /\ next_n < next_n'
  BY <1>1, <1>3
<1>5. given' \in [Netdevs -> {"none", "rx", "tx", "rxtx"}]
      /\ given'[n] = "none"
      /\ \A m \in Netdevs : m # n => given'[m] = given[m]
  BY <1>3 DEF ConfigInv, DevType
<1>6. Tells(given'[n], e.pause_rx, e.pause_tx)
  BY <1>2, <1>5 DEF Tells
<1> HIDE DEF e
<1> QED  BY <1>2, <1>3, <1>4, <1>5, <1>6, ToldInv

LEMMA ConfigureInv ==
    ASSUME ConfigInv, NEW n \in Netdevs, NEW enable \in BOOLEAN, NEW autoneg \in BOOLEAN,
           NEW pause \in PauseArgs \cup {Absent},
           netdev_sim_set_hw_intf_config(n, enable, autoneg, pause)
    PROVE  ConfigInv'
<1> DEFINE e == IF enable THEN Enable(dev[n], autoneg, pause) ELSE Disable(dev[n])
           h == IF ~enable THEN "none" ELSE IF pause = Absent THEN given[n] ELSE pause
<1>1. n \in Open /\ dev[n] \in Dev
  BY OpenIsDev DEF netdev_sim_set_hw_intf_config, ConfigInv
<1>2. Tells(given[n], dev[n].pause_rx, dev[n].pause_tx)
  BY <1>1 DEF ConfigInv, PauseTells
<1>3. e \in Dev /\ e.hwaddr = dev[n].hwaddr /\ Tells(h, e.pause_rx, e.pause_tx)
  <2> DEFINE d == dev[n]
             g == given[n]
  <2>1. /\ e = IF enable THEN Enable(d, autoneg, pause) ELSE Disable(d)
        /\ h = IF ~enable THEN "none" ELSE IF pause = Absent THEN g ELSE pause
        /\ d \in Dev /\ Tells(g, d.pause_rx, d.pause_tx)
    BY <1>1, <1>2
  <2> HIDE DEF d, g, e, h
  <2>2. e \in Dev /\ e.hwaddr = d.hwaddr /\ Tells(h, e.pause_rx, e.pause_tx)
    BY <2>1, ConfigFacts
  <2> QED  BY <2>2 DEF d
<1>4. /\ dev' = [dev EXCEPT ![n] = e]
      /\ n \in changed' /\ changed \subseteq changed' /\ UNCHANGED <<seen, next_n>>
      /\ given' = [given EXCEPT ![n] = h]
  BY DEF netdev_sim_set_hw_intf_config
<1> HIDE DEF e, h
<1>5. given' \in [Netdevs -> {"none", "rx", "tx", "rxtx"}]
      /\ given'[n] = h
      /\ \A m \in Netdevs : m # n => given'[m] = given[m]
  BY <1>3, <1>4 DEF ConfigInv, DevType, Tells
<1>6. next_n' \in Nat /\ next_n <= next_n'
  BY <1>4 DEF ConfigInv, DevType
<1> QED  BY <1>1, <1>3, <1>4, <1>5, <1>6, ToldInv

(* The hardware information does not show in the status.                   *)
LEMMA InfoInv ==
    ASSUME ConfigInv, NEW n \in Netdevs, NEW max_speed \in Speeds \cup {Absent},
           NEW mac_addr \in MacArgs \cup {Absent},
           netdev_sim_set_hw_intf_info(n, max_speed, mac_addr)
    PROVE  ConfigInv'
<1> DEFINE s   == IF max_speed = Absent THEN dev[n].hw_info_link_speed ELSE max_speed
           mac == IF mac_addr = Absent THEN dev[n].hw_addr_str ELSE mac_addr
           e   == [dev[n] EXCEPT !.hw_info_link_speed = s, !.hw_addr_str = mac]
<1>1. n \in Open /\ dev[n] \in Dev
  BY OpenIsDev DEF netdev_sim_set_hw_intf_info, ConfigInv
<1>2. s \in Nat
  BY <1>1, ConfigAssumption DEF Dev
<1>3. mac \in MacArgs \cup {Absent}
  BY <1>1 DEF Dev
<1>4. dev' = [dev EXCEPT ![n].hw_info_link_speed = s, ![n].hw_addr_str = mac]
  BY DEF netdev_sim_set_hw_intf_info
<1>5. UNCHANGED <<next_n, changed, seen, given>>
  BY DEF netdev_sim_set_hw_intf_info
<1> HIDE DEF s, mac
<1>6. dev' = [dev EXCEPT ![n] = e]
  BY <1>1, <1>4 DEF ConfigInv, DevType
<1>7. /\ e \in Dev
      /\ e.class = dev[n].class /\ e.up = dev[n].up /\ e.link_state = dev[n].link_state
      /\ e.link_speed = dev[n].link_speed /\ e.autoneg = dev[n].autoneg
      /\ e.pause_rx = dev[n].pause_rx /\ e.pause_tx = dev[n].pause_tx
      /\ e.hwaddr = dev[n].hwaddr
  <2> DEFINE d == dev[n]
  <2>1. d \in Dev /\ e = [d EXCEPT !.hw_info_link_speed = s, !.hw_addr_str = mac]
    BY <1>1
  <2> HIDE DEF d, e
  <2>2. /\ e \in Dev
        /\ e.class = d.class /\ e.up = d.up /\ e.link_state = d.link_state
        /\ e.link_speed = d.link_speed /\ e.autoneg = d.autoneg
        /\ e.pause_rx = d.pause_rx /\ e.pause_tx = d.pause_tx
        /\ e.hwaddr = d.hwaddr
    BY <1>2, <1>3, <2>1 DEF Dev
  <2> QED  BY <2>2 DEF d
<1> HIDE DEF e
<1>8. netdev_sim_get_features(e) = netdev_sim_get_features(dev[n])
  BY <1>7 DEF netdev_sim_get_features
<1> QED  BY <1>1, <1>5, <1>6, <1>7, <1>8, SameInv

LEMMA VlanInv ==
    ASSUME ConfigInv, NEW n \in Netdevs, NEW vlan \in 0 .. 1, netdev_sim_set_config(n, vlan)
    PROVE  ConfigInv'
<1> DEFINE up == vlan # 0
           e  == [dev[n] EXCEPT !.up = up]
<1>1. n \in Open /\ dev[n] \in Dev /\ dev[n].class = "vlansubint"
  BY OpenIsDev DEF netdev_sim_set_config, ConfigInv
<1>2. dev' = [dev EXCEPT ![n].up = up] /\ up \in BOOLEAN
  BY DEF netdev_sim_set_config
<1>3. UNCHANGED <<next_n, changed, seen, given>>
  BY DEF netdev_sim_set_config
<1> HIDE DEF up
<1>4. dev' = [dev EXCEPT ![n] = e]
  BY <1>1, <1>2 DEF ConfigInv, DevType
<1>5. /\ e \in Dev
      /\ e.class = dev[n].class /\ e.link_state = dev[n].link_state
      /\ e.link_speed = dev[n].link_speed /\ e.autoneg = dev[n].autoneg
      /\ e.pause_rx = dev[n].pause_rx /\ e.pause_tx = dev[n].pause_tx
      /\ e.hwaddr = dev[n].hwaddr
  BY <1>1, <1>2, VlanFacts
<1> HIDE DEF e
<1>6. netdev_sim_get_features(e) = netdev_sim_get_features(dev[n])
  BY <1>5 DEF netdev_sim_get_features
<1> QED  BY <1>1, <1>3, <1>4, <1>5, <1>6, SameInv

LEMMA EtherInv ==
    ASSUME ConfigInv, NEW n \in Netdevs, NEW mac \in MacArgs, netdev_sim_set_etheraddr(n, mac)
    PROVE  ConfigInv'
<1> DEFINE e == [dev[n] EXCEPT !.hwaddr = mac]
<1>1. n \in Open /\ dev[n] \in Dev
  BY OpenIsDev DEF netdev_sim_set_etheraddr, ConfigInv
<1>2. dev' = [dev EXCEPT ![n].hwaddr = mac] /\ UNCHANGED <<next_n, seen, given>>
  BY DEF netdev_sim_set_etheraddr
<1>3. changed' = IF mac = dev[n].hwaddr THEN changed ELSE changed \cup {n}
  BY DEF netdev_sim_set_etheraddr
<1>4. dev' = [dev EXCEPT ![n] = e]
  BY <1>1, <1>2 DEF ConfigInv, DevType
<1>5. /\ e \in Dev /\ e.hwaddr = mac
      /\ e.pause_rx = dev[n].pause_rx /\ e.pause_tx = dev[n].pause_tx
      /\ mac = dev[n].hwaddr => e = dev[n]
  BY <1>1, EtherFacts
<1> HIDE DEF e
<1>6. CASE mac = dev[n].hwaddr
  <2>1. dev' = dev /\ changed' = changed
    BY <1>3, <1>4, <1>5, <1>6 DEF ConfigInv, DevType
  <2> QED  BY <1>2, <2>1 DEF ConfigInv, DevType, AllFresh, PauseTells, Passed,
                             ConstructedAddressesDiffer, Open
<1>7. CASE mac # dev[n].hwaddr
  <2>1. n \in changed' /\ changed \subseteq changed'
    BY <1>3, <1>7
  <2>2. /\ next_n' \in Nat /\ next_n <= next_n'
        /\ given' \in [Netdevs -> {"none", "rx", "tx", "rxtx"}]
    BY <1>2 DEF ConfigInv, DevType
  <2>3. Tells(given'[n], dev[n].pause_rx, dev[n].pause_tx)
    BY <1>1, <1>2 DEF ConfigInv, PauseTells
  <2>4. Tells(given'[n], e.pause_rx, e.pause_tx)
    BY <1>5, <2>3
  <2> QED  BY <1>2, <1>4, <1>5, <2>1, <2>2, <2>4, ToldInv
<1> QED  BY <1>6, <1>7

LEMMA ConfigStep == ConfigInv /\ [ConfigNext]_cfgvars => ConfigInv'
<1> SUFFICES ASSUME ConfigInv, [ConfigNext]_cfgvars PROVE ConfigInv'
  OBVIOUS
<1>1. CASE Restart
  <2>1. Open' = {}
    BY <1>1 DEF Restart, Open
  <2>2. DevType'
    BY <1>1 DEF Restart, ConfigInv, DevType
  <2> QED  BY <2>1, <2>2 DEF ConfigInv, AllFresh, PauseTells, Passed, ConstructedAddressesDiffer
<1>2. ASSUME NEW n \in Netdevs, netdev_sim_dealloc(n) PROVE ConfigInv'
  <2>1. Open' = Open \ {n} /\ Open \subseteq Netdevs
        /\ \A m \in Open' : dev'[m] = dev[m] /\ seen'[m] = seen[m]
    BY <1>2 DEF netdev_sim_dealloc, ConfigInv, DevType, Open
  <2>2. DevType'
    BY <1>2 DEF netdev_sim_dealloc, ConfigInv, DevType
  <2>3. UNCHANGED <<next_n, changed, given>>
    BY <1>2 DEF netdev_sim_dealloc
  <2>4. AllFresh' /\ PauseTells'
    BY <2>1, <2>3 DEF ConfigInv, AllFresh, PauseTells
  <2>5. Passed' /\ ConstructedAddressesDiffer'
    BY <2>1, <2>3 DEF ConfigInv, Passed, ConstructedAddressesDiffer
  <2> QED  BY <2>2, <2>4, <2>5 DEF ConfigInv
<1>3. ASSUME NEW n \in Netdevs, Refresh(n) PROVE ConfigInv'
  <2>1. /\ n \in Open /\ seen' = [seen EXCEPT ![n] = Status(dev[n])]
        /\ changed' = changed \ {n} /\ UNCHANGED <<next_n, dev, given>>
    BY <1>3 DEF Refresh
  <2>2. Open' = Open /\ Open \subseteq Netdevs
    BY <2>1 DEF Open
  <2>3. seen'[n] = Status(dev[n]) /\ \A m \in Netdevs : m # n => seen'[m] = seen[m]
    BY <1>3, <2>1 DEF ConfigInv, DevType
  <2>4. DevType'
    BY <2>1 DEF ConfigInv, DevType
  <2>5. AllFresh'
    <3> SUFFICES ASSUME NEW m \in Open', m \notin changed' PROVE Fresh(seen'[m], dev'[m])
      BY DEF AllFresh
    <3>1. CASE m = n
      BY <2>1, <2>3, <3>1 DEF Fresh, Status
    <3>2. CASE m # n
      BY <2>1, <2>2, <2>3, <3>2 DEF ConfigInv, AllFresh
    <3> QED  BY <3>1, <3>2
  <2> QED  BY <2>1, <2>2, <2>4, <2>5
           DEF ConfigInv, PauseTells, Passed, ConstructedAddressesDiffer
<1>4. CASE UNCHANGED cfgvars
  BY <1>4 DEF cfgvars, ConfigInv, DevType, AllFresh, PauseTells, Passed,
              ConstructedAddressesDiffer, Open
<1> QED  BY <1>1, <1>2, <1>3, <1>4, ConstructInv, InfoInv, ConfigureInv, VlanInv, EtherInv
         DEF ConfigNext

LEMMA ConfigCorrect == ConfigSpec => []ConfigInv
<1>1. ConfigInit => ConfigInv
  <2> SUFFICES ASSUME ConfigInit PROVE ConfigInv
    OBVIOUS
  <2>1. Open = {} /\ DevType
    BY DEF ConfigInit, Open, DevType
  <2> QED  BY <2>1 DEF ConfigInv, AllFresh, PauseTells, Passed, ConstructedAddressesDiffer
<1> QED  BY <1>1, ConfigStep, PTL DEF ConfigSpec

(* For any number of netdevs: a client that reads again when change_seq    *)
(* has moved is never out of date, through every construction, closing,    *)
(* configuration and restart.                                              *)
THEOREM StatusUpToDate == ConfigSpec => []StatusNotStale
<1>1. ConfigInv => StatusNotStale
  BY DEF ConfigInv, AllFresh, Fresh, StatusNotStale, Status
<1> QED  BY <1>1, ConfigCorrect, PTL

(* No speed has one of the bits of the pause settings.                     *)
LEMMA SpeedNoPause == ASSUME NEW s PROVE SpeedBits(s) \cap {"PAUSE", "PAUSE_ASYM"} = {}
  BY DEF SpeedBits, SpeedBit

(* For any number of netdevs: the pause bits are those of the setting last *)
(* given since the link came up.                                           *)
THEOREM PauseIsGiven == ConfigSpec => []PauseSinceUp
<1>1. ConfigInv => PauseSinceUp
  <2> SUFFICES ASSUME ConfigInv, NEW n \in Open
               PROVE  LET bits == netdev_sim_get_features(dev[n]) \cap {"PAUSE", "PAUSE_ASYM"} IN
                      given[n] = CASE bits = {} -> "none"
                                   [] bits = {"PAUSE"} -> "rxtx"
                                   [] bits = {"PAUSE", "PAUSE_ASYM"} -> "rx"
                                   [] bits = {"PAUSE_ASYM"} -> "tx"
    BY DEF PauseSinceUp
  <2> DEFINE bits == netdev_sim_get_features(dev[n]) \cap {"PAUSE", "PAUSE_ASYM"}
             rx == dev[n].pause_rx
             tx == dev[n].pause_tx
  <2>1. bits = (IF rx THEN {"PAUSE"} ELSE {}) \cup (IF rx # tx THEN {"PAUSE_ASYM"} ELSE {})
    BY SpeedNoPause DEF netdev_sim_get_features
  <2>2. Tells(given[n], rx, tx) /\ rx \in BOOLEAN /\ tx \in BOOLEAN
    BY OpenIsDev DEF ConfigInv, PauseTells, Dev
  <2> QED  BY <2>1, <2>2 DEF Tells
<1> QED  BY <1>1, ConfigCorrect, PTL

(* For any number of netdevs: two that kept the address they were made     *)
(* with differ in it, whatever was opened and closed in between.           *)
THEOREM AddressesDiffer == ConfigSpec => []ConstructedAddressesDiffer
<1>1. ConfigInv => ConstructedAddressesDiffer
  BY DEF ConfigInv
<1> QED  BY <1>1, ConfigCorrect, PTL

-----------------------------------------------------------------------------
(* The sFlow counters: what follows from the promise SflowCounter, which   *)
(* SimSflow implements (CounterImplemented in SimSflowProofs).             *)

Counts == [Interfaces -> [Dirs -> Nat]]

(* The inductive invariant: the bound itself, over natural counters.       *)
CounterInv ==
    /\ sampled \in Counts /\ pending \in Counts /\ reported \in Counts
    /\ watched \subseteq Interfaces
    /\ NoSampleTwice

(* A step of the counters keeps the invariant.                             *)
LEMMA CounterStep == CounterInv /\ [CounterNext]_countervars => CounterInv'
<1> SUFFICES ASSUME CounterInv, [CounterNext]_countervars PROVE CounterInv'
  OBVIOUS
<1> USE DEF CounterInv, NoSampleTwice, Counts
<1>1. ASSUME NEW p \in Interfaces, NEW d \in Dirs, Take(p, d) PROVE CounterInv'
  <2>1. sampled' = [sampled EXCEPT ![p][d] = sampled[p][d] + 1] BY <1>1 DEF Take
  <2>2. pending' = pending \/ pending' = [pending EXCEPT ![p][d] = pending[p][d] + 1]
    BY <1>1 DEF Take
  <2>3. watched' = watched /\ reported' = reported BY <1>1 DEF Take
  <2>4. sampled' \in Counts /\ pending' \in Counts /\ reported' \in Counts
    <3>1. sampled[p][d] + 1 \in Nat /\ pending[p][d] + 1 \in Nat OBVIOUS
    <3>2. sampled' \in Counts BY <2>1, <3>1
    <3>3. [pending EXCEPT ![p][d] = pending[p][d] + 1] \in Counts BY <3>1
    <3> QED BY <2>2, <2>3, <3>2, <3>3
  <2>5. ASSUME NEW q \in Interfaces, NEW e \in Dirs
        PROVE  reported'[q][e] + pending'[q][e] <= sampled'[q][e]
    <3>1. reported[q][e] + pending[q][e] <= sampled[q][e]
          /\ sampled[q][e] \in Nat /\ pending[q][e] \in Nat /\ reported[q][e] \in Nat
      OBVIOUS
    <3>2. CASE q = p /\ e = d
      <4>1. sampled'[q][e] = sampled[q][e] + 1 BY <2>1, <3>2
      <4>2. pending'[q][e] \in {pending[q][e], pending[q][e] + 1} BY <2>2, <3>2
      <4> QED BY <2>3, <3>1, <4>1, <4>2
    <3>3. CASE ~(q = p /\ e = d)
      <4>1. sampled'[q][e] = sampled[q][e] BY <2>1, <3>3
      <4>2. pending'[q][e] = pending[q][e] BY <2>2, <3>3
      <4> QED BY <2>3, <3>1, <4>1, <4>2
    <3> QED BY <3>2, <3>3
  <2> QED BY <2>3, <2>4, <2>5
<1>2. ASSUME NEW p \in Interfaces, Publish(p) PROVE CounterInv'
  BY <1>2 DEF Publish, Zero
<1>3. ASSUME NEW R \in SUBSET Interfaces, NEW W \in SUBSET R, Lose(R, W)
      PROVE  CounterInv'
  BY <1>3 DEF Lose, Zero
<1>4. ASSUME NEW R \in SUBSET Interfaces, Reopen(R) PROVE CounterInv'
  BY <1>4 DEF Reopen, Zero
<1>5. CASE UNCHANGED countervars BY <1>5 DEF countervars
<1> QED BY <1>1, <1>2, <1>3, <1>4, <1>5 DEF CounterNext

(* Whatever interfaces, rules and polls do, the samples an interface       *)
(* reports and those a poll is still to report are no more than those      *)
(* taken of it: the comment of netdev_sflow_reset, "the db counters has to *)
(* keep incrementing", is kept without counting a sample twice.            *)
THEOREM ReportedOnce == CounterSpec => []NoSampleTwice
<1>1. CounterInit => CounterInv
  BY DEF CounterInit, CounterInv, Counts, Zero, NoSampleTwice
<1>2. CounterInv => NoSampleTwice BY DEF CounterInv
<1> QED BY <1>1, <1>2, CounterStep, PTL DEF CounterSpec
=============================================================================
