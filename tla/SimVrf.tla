------------------------------- MODULE SimVrf -------------------------------
(***************************************************************************)
(* A VRF ofproto (SimBundle with Vrf = TRUE) with the threads that its     *)
(* bundle_add_port and bundle_del_port start (NetdevL3Stats): every        *)
(* interface is the netdev of its port.                                    *)
(***************************************************************************)
EXTENDS SimBundle, NetdevL3Stats

ASSUME VrfAssumption == Vrf = TRUE /\ Netdevs = Ports

allvars == <<vars, l3vars>>

(* What a handler's bundle_del_port and bundle_add_port calls start for p: *)
(* a delete thread when p leaves a list, then a create thread when it is   *)
(* put in a bundle that is not its own.                                    *)
Left(p)   == bundle[p] # NoBundle /\ p \notin ports'[bundle[p]]
Joined(p) == bundle'[p] \notin {NoBundle, bundle[p]}

XtablesCalls(p) == (IF Left(p)   THEN <<"delete">> ELSE <<>>) \o
                   (IF Joined(p) THEN <<"create">> ELSE <<>>)

VrfHandler ==
    /\ Handler
    /\ ofports' \subseteq alive
    /\ StartThreads([p \in Ports |-> XtablesCalls(p)])
    /\ UNCHANGED <<alive, l3_stats_mutex, l3_stats_enabled, xtables, overtaken>>

Work(p) == ThreadStep(p) /\ UNCHANGED vars

(* The interface is removed: its port is gone and the last reference to    *)
(* its netdev is closed.                                                   *)
CloseNetdev(p) ==
    /\ Intact
    /\ p \notin ofports
    /\ netdev_sim_dealloc(p)
    /\ UNCHANGED vars

VrfInit == Init /\ L3Init
VrfNext == VrfHandler \/ \E p \in Ports : Work(p)

(* The kernel runs every thread that is not blocked on the mutex.          *)
VrfSpec == VrfInit /\ [][VrfNext]_allvars /\ \A p \in Ports : WF_allvars(Work(p))

(* The same with interfaces that are removed for good.                     *)
VrfCloseSpec ==
    VrfInit /\ [][VrfNext \/ \E p \in Ports : CloseNetdev(p)]_allvars

-----------------------------------------------------------------------------
(* Only one thread at a time edits the rules of a netdev, and it holds the *)
(* mutex (l3_stats_mutex).                                                 *)
MutexExcludes ==
    \A d \in Netdevs : /\ Cardinality(Holders(d)) <= 1
                       /\ Holders(d) # {} => d \in l3_stats_mutex

(* While no thread is at work on a netdev, all its rules are installed,    *)
(* once and in order, if the flag is set and none if it is not, in         *)
(* whatever order the threads of joins and leaves ran: a statistics poll   *)
(* then reads all four counters or does not read.                          *)
RulesMatchFlag ==
    \A d \in Netdevs : Holders(d) = {} =>
        xtables[d] = IF d \in l3_stats_enabled THEN [k \in 1 .. NRules |-> k] ELSE <<>>

(* A thread that returns with the mutex (netdev_sim_xtables_rule_create_   *)
(* and ..._delete_ return early without unlocking) has overtaken an older  *)
(* one: joins and leaves alternate, so that threads that run in the order  *)
(* they were started always find the flag they expect.                     *)
LeakNeedsReordering ==
    Intact => \A d \in Netdevs : Leaked(d) => d \in overtaken

(* The rules of p are those its place in the VRF asks for, and stay so.    *)
Settled(p) == threads[p] = <<>> /\ (p \in l3_stats_enabled <=> bundle[p] # NoBundle)

(* When threads are never overtaken, every one of them ends, and in the    *)
(* end a port has its rules if and only if it is in a bundle of the VRF.   *)
EventuallySettled ==
    \A p \in Ports : <>(p \in overtaken) \/ <>[]Settled(p) \/ <>(~Intact)

(* netdev_sim_cast, the first statement of the threads, asserts that its   *)
(* argument is a netdev of this class: a thread's netdev is not freed      *)
(* before the thread is done with it.                                      *)
ThreadNetdevAlive == \A d \in Netdevs : threads[d] # <<>> => d \in alive
=============================================================================
