-------------------------------- MODULE SimStp --------------------------------
(***************************************************************************)
(* The spanning tree plugin: the common instance (CIST) that               *)
(* sim-stp-plugin.c keeps of the database rows, and the kernel bridge      *)
(* "bridge-sim" it drives with commands.  The database changes at any      *)
(* time; stp_reconfigure runs later, in the main thread, on the rows as    *)
(* they are then.  The kernel bridge survives the process.                 *)
(***************************************************************************)
EXTENDS Integers, FiniteSets

CONSTANTS
    StpPorts,     \* ports that may have a row
    ValidStates,  \* port states: blocking, disabled, learning, forwarding
    StpMayFail,   \* may the commands that change the kernel fail?
    MaxDrift      \* bound on how far nb_ports falls below 0

ASSUME StpAssumption ==
    /\ StpMayFail \in BOOLEAN /\ MaxDrift \in Nat
    /\ ValidStates \cap {"invalid", "none", "default"} = {}
    /\ IsFiniteSet(StpPorts)

(* A row's port_state: also "invalid", for a column that is not set yet or *)
(* has another value; "none" when there is no row.                         *)
RowStates == ValidStates \cup {"invalid", "none"}

VARIABLES
    cistRow,    \* the mstp_common_instance row exists
    rows,       \* port_state of the port rows it refers to
    changed,    \* rows were inserted or modified since the last reconfigure
    msti,       \* the CIST instance exists
    stp_state,  \* stp_state of the ports in msti->ports
    nb_ports,   \* msti->nb_ports
    missed,     \* ports a command for which failed since they were added,
                \* or was skipped as br_set did not return 0 (history variable)
    late,       \* ports whose row had no state when they were first seen
                \* (history variable)
    unset,      \* br_set failed to enable STP in this process (history variable)
    kBridge,    \* kernel: the bridge exists
    kStp,       \* kernel: STP is enabled on it
    kMembers,   \* kernel: ports whose master it is
    kState      \* kernel: their states, "default" until one is set

plugin  == <<msti, stp_state, nb_ports, missed, late, unset>>
kernel  == <<kBridge, kStp, kMembers, kState>>
stpVars == <<cistRow, rows, changed, plugin, kernel>>

Known    == {p \in StpPorts : stp_state[p] # "none"}
Existing == {p \in StpPorts : rows[p] # "none"}

(* The sets of commands, one per port of P, that may fail together.        *)
StpFailures(P) == IF StpMayFail THEN SUBSET P ELSE {{}}

-----------------------------------------------------------------------------
(* The database and the process                                            *)

(* Another process writes the rows, within the bound on nb_ports.          *)
WriteRows(r) ==
    /\ r # rows \/ ~cistRow
    /\ nb_ports - Cardinality({p \in Known : r[p] = "none"}) >= -MaxDrift
    /\ cistRow' = TRUE /\ rows' = r /\ changed' = TRUE
    /\ UNCHANGED <<plugin, kernel>>

(* The rows are deleted: stp_plugin_need_propagate_change finds no row to  *)
(* look at, and says no.                                                   *)
DeleteRows ==
    /\ cistRow
    /\ cistRow' = FALSE /\ rows' = [p \in StpPorts |-> "none"] /\ changed' = FALSE
    /\ UNCHANGED <<plugin, kernel>>

(* ops-switchd ends and is started again: all rows are new to it.          *)
Restart ==
    /\ msti
    /\ msti' = FALSE /\ nb_ports' = 0 /\ missed' = {} /\ late' = {} /\ unset' = FALSE
    /\ stp_state' = [p \in StpPorts |-> "none"]
    /\ changed' = cistRow
    /\ UNCHANGED <<cistRow, rows, kernel>>

-----------------------------------------------------------------------------
(* stp_reconfigure                                                         *)

(* Mutant: any string is a state.                                          *)
AnyState(p) == TRUE

(* get_port_state_from_string: whether the row of p has a state.           *)
get_port_state_from_string(p) == rows[p] \in ValidStates

(* "Delete old Instance Ports": known ports that have no row.              *)
Deleted == Known \ Existing

(* "Add new Instance ports": all are remembered, the ones with a state are *)
(* counted and go to the kernel.                                           *)
New      == Existing \ Known
NewValid == {p \in New : get_port_state_from_string(p)}

(* nb_ports goes down for every deleted port, counted or not, and up for   *)
(* every new port with a state.                                            *)
Counted == nb_ports - Cardinality(Deleted) + Cardinality(NewValid)

(* Mutant: the second port enables STP.                                    *)
FirstIsSecond ==
    IF nb_ports - Cardinality(Deleted) <= 1 /\ Counted >= 2
    THEN {{p} : p \in NewValid} ELSE {{}}

(* The new port that makes nb_ports one, if any, as a set: STP is enabled  *)
(* on the bridge when it is added.                                         *)
First ==
    IF nb_ports - Cardinality(Deleted) <= 0 /\ Counted >= 1
    THEN {{p} : p \in NewValid} ELSE {{}}

(* br_set for the ports of first: those that enable STP, and those for     *)
(* which it does not return 0, which are then not added.  It returns 0     *)
(* after the ioctl, but the number of characters written when it could     *)
(* open the file of the bridge, and -1 when there is no bridge.            *)
br_set(bridge, first) ==
    (IF bridge THEN {[enable |-> first, failed |-> {}],
                     [enable |-> first, failed |-> first]} ELSE {})
    \cup (IF StpMayFail \/ ~bridge THEN {[enable |-> {}, failed |-> first]} ELSE {})

(* Mutant: the loop skips nothing but returns at the first port that is    *)
(* already right.                                                          *)
UpdatesUntilSame ==
    LET differ == {p \in Existing \cap Known :
                      get_port_state_from_string(p) /\ rows[p] # stp_state[p]}
    IN  IF differ = Existing THEN {differ} ELSE SUBSET differ

(* "Check for changes in the port row entries": every known port whose row *)
(* has another state; the loop returns at a port without a state, which    *)
(* may come at any place, so only some are done when there is one.         *)
Updates ==
    LET differ == {p \in Existing \cap Known :
                      get_port_state_from_string(p) /\ rows[p] # stp_state[p]}
    IN  IF \A p \in Existing : get_port_state_from_string(p)
        THEN {differ} ELSE SUBSET differ

(* Mutant: the port joins inside the braces that enable STP.              *)
MembersBraced(bridge, joins) ==
    kMembers \cup (IF bridge /\ Counted = 1 THEN joins ELSE {})

(* mstp_cist_add_del_port: the ports of joins become members, if there is  *)
(* a bridge.  None leaves: the command for a deleted port is "ip link set  *)
(* <port> nomaster bridge-sim", and as nomaster takes no argument, ip      *)
(* refuses the name behind it and changes nothing.                         *)
Members(bridge, joins) == kMembers \cup (IF bridge THEN joins ELSE {})

(* mstp_cist_add_del_bridge, if there is no instance: whether the bridge   *)
(* exists then.  "ip link add" fails, and changes nothing, when it is      *)
(* there.                                                                  *)
mstp_cist_add_del_bridge ==
    IF msti \/ kBridge THEN {kBridge} ELSE IF StpMayFail THEN BOOLEAN ELSE {TRUE}

(* mstp_cist_set_port for the ports of set, once the members are those     *)
(* given: "bridge link set" is refused for a port that is not one.         *)
mstp_cist_set_port(set, members) ==
    [p \in StpPorts |-> IF p \in set \cap members THEN rows[p] ELSE kState[p]]

(* mstp_cist_create makes the instance and the bridge if there is no       *)
(* instance; mstp_cist_configure_ports deletes, adds and updates the       *)
(* ports.  A failed command is logged and not run again.                   *)
stp_reconfigure ==
    /\ cistRow /\ changed
    /\ changed' = FALSE /\ msti' = TRUE /\ nb_ports' = Counted
    /\ kBridge' \in mstp_cist_add_del_bridge
    /\ \E first \in First, updated \in Updates :
       \E stp \in br_set(kBridge', first), noadd \in StpFailures(NewValid),
          noset \in StpFailures(NewValid \cup updated) :
          LET added == NewValid \ stp.failed
          IN  /\ kStp' = (kStp \/ stp.enable # {})
              /\ unset' = (unset \/ stp.enable # first)
              /\ missed' = (missed \ (Deleted \cup New)) \cup stp.failed
                           \cup noadd \cup noset \cup (IF kBridge' THEN {} ELSE NewValid)
              /\ late' = (late \ Deleted) \cup (New \ NewValid)
              /\ kMembers' = Members(kBridge', added \ noadd)
              /\ stp_state' = [p \in StpPorts |->
                    IF p \in Deleted THEN "none"
                    ELSE IF p \in New \cup updated THEN rows[p] ELSE stp_state[p]]
              /\ kState' = mstp_cist_set_port((added \cup updated) \ noset, kMembers')
    /\ UNCHANGED <<cistRow, rows>>

-----------------------------------------------------------------------------
StpInit ==
    /\ cistRow = FALSE /\ changed = FALSE /\ msti = FALSE
    /\ rows = [p \in StpPorts |-> "none"]
    /\ stp_state = [p \in StpPorts |-> "none"] /\ nb_ports = 0
    /\ missed = {} /\ late = {} /\ unset = FALSE /\ kBridge = FALSE /\ kStp = FALSE
    /\ kMembers = {} /\ kState = [p \in StpPorts |-> "default"]

StpNext ==
    \/ \E r \in [StpPorts -> RowStates] : WriteRows(r)
    \/ DeleteRows
    \/ Restart
    \/ stp_reconfigure

(* The main loop of ops-switchd runs reconfigure again and again.          *)
StpSpec == StpInit /\ [][StpNext]_stpVars /\ WF_stpVars(stp_reconfigure)

-----------------------------------------------------------------------------
(* Properties                                                              *)

(* The sets the variables range over; the kernel never gets a state that   *)
(* is none.                                                                *)
StpTypeOK ==
    /\ cistRow \in BOOLEAN /\ changed \in BOOLEAN /\ msti \in BOOLEAN
    /\ rows \in [StpPorts -> RowStates]
    /\ stp_state \in [StpPorts -> RowStates]
    /\ nb_ports \in Int /\ missed \subseteq StpPorts /\ late \subseteq StpPorts /\ unset \in BOOLEAN
    /\ kBridge \in BOOLEAN /\ kStp \in BOOLEAN
    /\ kMembers \subseteq StpPorts
    /\ kState \in [StpPorts -> ValidStates \cup {"default"}]

(* Once the changes have been seen and every row has a state, every port   *)
(* with a row that is in the kernel bridge has the state of its row there, *)
(* also when an earlier reconfigure returned in the middle of the ports,   *)
(* and across restarts; except a port that was missed.                     *)
StatesReachKernel ==
    cistRow /\ ~changed /\ (\A p \in Existing : rows[p] \in ValidStates) =>
        \A p \in (kMembers \cap Existing) \ missed : kState[p] = rows[p]

(* Once the changes have been seen, every port with a row is in the kernel *)
(* bridge: nothing is lost when rows are deleted and written again, when   *)
(* the loop returned early or when the process was restarted.  It is out   *)
(* only if a command for it failed or was skipped, or if its row had no    *)
(* state when it was first seen: the update loop never adds a port.        *)
PortsJoin ==
    cistRow /\ ~changed => Existing \subseteq kMembers \cup missed \cup late

(* If the process goes on, and the rows stay as they are and have states,  *)
(* the kernel has them in the end for the ports in the bridge that were    *)
(* not missed: no change of a row is lost.                                 *)
StatesEventuallyReach ==
    \A p \in StpPorts, v \in ValidStates :
        <>[](msti /\ cistRow /\ rows[p] = v /\ \A q \in Existing : rows[q] \in ValidStates)
        => <>[](p \in kMembers \ missed => kState[p] = v)

(* "Enable STP on the bridge. NOOP if already enabled"                     *)
(* (mstp_cist_port_add): STP is enabled on a bridge that has ports of this *)
(* process, unless br_set failed, or nb_ports has gone below the number of *)
(* ports: it goes down for ports it never went up for, and then the port   *)
(* that makes it one is not the first.                                     *)
StpEnabledWithPorts ==
    kMembers \cap Known # {} => kStp \/ unset \/ nb_ports < Cardinality(Known)
=============================================================================
