---------------------------- MODULE NetdevL3Poll ----------------------------
(***************************************************************************)
(* The L3 statistics poll, netdev_sim_get_stats, against the threads of    *)
(* NetdevL3Stats that add and delete the rules it reads.  The poll reads   *)
(* l3_stats_enabled without the mutex, then lists the rules with one       *)
(* command per direction and takes the lines by their position.            *)
(*                                                                         *)
(* One address family is modelled, the other is read the same way: its     *)
(* eight rules, in the order the threads handle them, are the unicast and  *)
(* the multicast rule of INPUT (1, 2) and of OUTPUT (3, 4), and the pairs  *)
(* of FORWARD, -i and -o, for unicast (5, 6) and for multicast (7, 8).     *)
(* What a counter is made of is the set of rules whose counters it sums.   *)
(***************************************************************************)
EXTENDS NetdevL3Stats

VARIABLES
    joined,    \* netdevs whose port is in a bundle of the VRF
    poll,      \* per netdev, where its poll is and what it overlapped
    torn,      \* netdevs with rules from a process that died deleting them
               \* or between the two rules of a pair (history)
    l3stats    \* per netdev and direction, the counters of the last poll

pollvars == <<joined, poll, torn, l3stats>>
l3pollvars == <<l3vars, pollvars>>

Directions == {"rx", "tx"}

(* The rules with "-i" and with "-o" and the interface, of which these are *)
(* for unicast.                                                            *)
RulesOf(dir) == IF dir = "rx" THEN {1, 2, 5, 7} ELSE {3, 4, 6, 8}
Unicast(r)   == r \in {1, 3, 5, 6}

(* "-S" lists the chains in the order INPUT, FORWARD, OUTPUT.              *)
Chain(r) == IF r \in {1, 2} THEN 1 ELSE IF r \in {3, 4} THEN 3 ELSE 2

(* quiet: no thread was at work, and all rules were made by this process   *)
(* or found as a create thread left them between two calls; deleting: a    *)
(* delete thread was at work, or the rules are torn.  Both are history     *)
(* variables.                                                              *)
Idle      == [at |-> "idle", quiet |-> FALSE, deleting |-> FALSE]
NoReading == [uc |-> {}, mc |-> {}, quiet |-> FALSE, deleting |-> FALSE]

PollInit ==
    /\ L3Init
    /\ joined = {} /\ torn = {}
    /\ poll    = [d \in Netdevs |-> Idle]
    /\ l3stats = [d \in Netdevs |-> [dir \in Directions |-> NoReading]]

(* The main thread is in no poll: it may run a handler or start a poll.    *)
MainIdle == \A d \in Netdevs : poll[d].at = "idle"

(* A handler puts the port in a bundle or takes it out: the calls of       *)
(* bundle_add_port and bundle_del_port alternate.                          *)
JoinOrLeave(d) ==
    /\ MainIdle
    /\ StartThreads([e \in Netdevs |->
          IF e # d THEN <<>> ELSE IF d \in joined THEN <<"delete">> ELSE <<"create">>])
    /\ joined' = IF d \in joined THEN joined \ {d} ELSE joined \cup {d}
    /\ UNCHANGED <<alive, l3_stats_mutex, l3_stats_enabled, xtables, overtaken,
                   poll, torn, l3stats>>

Deleting(ts) == \E i \in DOMAIN ts : ts[i].at > 0 /\ ts[i].op = "delete"

(* A create thread between the two commands of a pair.                     *)
InPair(ts) == \E i \in DOMAIN ts : ts[i].op = "create" /\ Second(ts[i].at)

(* A step of a thread.                                                     *)
PollThreadStep(d) ==
    /\ ThreadStep(d)
    /\ poll' = [poll EXCEPT
          ![d].quiet = FALSE,
          ![d].deleting = @ \/ Deleting(threads'[d])]
    /\ torn' = IF xtables'[d] = <<>> THEN torn \ {d} ELSE torn
    /\ UNCHANGED <<joined, l3stats>>

(* netdev_sim_get_stats finds the flag set.                                *)
netdev_sim_get_stats(d) ==
    /\ MainIdle /\ d \in alive
    /\ d \in l3_stats_enabled
    /\ poll' = [poll EXCEPT ![d] = [at |-> "rx",
                                    quiet |-> Holders(d) = {} /\ d \notin torn,
                                    deleting |-> Deleting(threads[d]) \/ d \in torn]]
    /\ UNCHANGED <<l3vars, joined, torn, l3stats>>

(* The rules of q that the command for a direction lists, and the line of  *)
(* the i-th rule: the rules of a chain are listed in the order they were   *)
(* added.                                                                  *)
Lines(q, dir) == {i \in DOMAIN q : q[i] \in RulesOf(dir)}

LineNo(q, dir, i) ==
    Cardinality({j \in Lines(q, dir) : \/ Chain(q[j]) < Chain(q[i])
                                       \/ Chain(q[j]) = Chain(q[i]) /\ j <= i})

(* netdev_sim_parse_xtables_l3_stats: the first and third line are taken   *)
(* for unicast, the second and fourth for multicast; missing ones are 0.   *)
netdev_sim_parse_xtables_l3_stats(d, dir) ==
    LET q == xtables[d]
        At(N) == {q[i] : i \in {j \in Lines(q, dir) : LineNo(q, dir, j) \in N}}
    IN  [uc |-> At({1, 3}), mc |-> At({2, 4}),
         quiet |-> poll[d].quiet, deleting |-> poll[d].deleting]

(* netdev_sim_get_kernel_l3_stats, one direction: the command may fail to  *)
(* start, which ends the poll.                                             *)
netdev_sim_get_kernel_l3_stats(d) ==
    LET dir == poll[d].at
    IN  /\ dir # "idle"
        /\ \/ /\ l3stats' = [l3stats EXCEPT
                    ![d][dir] = netdev_sim_parse_xtables_l3_stats(d, dir)]
              /\ poll' = [poll EXCEPT ![d].at = IF dir = "rx" THEN "tx" ELSE "idle"]
           \/ /\ poll' = [poll EXCEPT ![d].at = "idle"]
              /\ UNCHANGED l3stats
        /\ UNCHANGED <<l3vars, joined, torn>>

(* The process dies and is started again; the rules are the kernel's.      *)
Restart ==
    /\ threads' = [d \in Netdevs |-> <<>>]
    /\ l3_stats_mutex' = {} /\ l3_stats_enabled' = {} /\ overtaken' = {}
    /\ joined' = {}
    /\ torn' = {d \in Netdevs : /\ xtables[d] # <<>>
                                /\ d \in torn \/ Deleting(threads[d]) \/ InPair(threads[d])}
    /\ poll'    = [d \in Netdevs |-> Idle]
    /\ l3stats' = [d \in Netdevs |-> [dir \in Directions |-> NoReading]]
    /\ UNCHANGED <<alive, started, xtables>>

PollNext ==
    \/ Restart
    \/ \E d \in Netdevs : \/ JoinOrLeave(d)
                          \/ PollThreadStep(d)
                          \/ netdev_sim_get_stats(d)
                          \/ netdev_sim_get_kernel_l3_stats(d)

PollSpec == PollInit /\ [][PollNext]_l3pollvars

-----------------------------------------------------------------------------
(* Unicast counters sum unicast rules only, and multicast counters         *)
(* multicast rules.                                                        *)
Unmixed(s) == /\ \A r \in s.uc : Unicast(r)
              /\ \A r \in s.mc : ~Unicast(r)

(* A poll mixes unicast and multicast packets only if a delete thread was  *)
(* at work on the netdev while it ran, or there are rules of a process     *)
(* that died in the middle of one, or of a create thread between the -i    *)
(* and the -o rule of a pair: threads that create rules set the flag last, *)
(* so that no poll overlaps them, though the poll takes neither mutex and  *)
(* the FORWARD rules of a half made set come before the OUTPUT rules.      *)
PollMixNeedsDelete ==
    \A d \in Netdevs, dir \in Directions :
        Unmixed(l3stats[d][dir]) \/ l3stats[d][dir].deleting

(* A poll that no thread overlaps reads all rules of its direction, the    *)
(* forwarded packets included, and takes each for what it is ("Adding      *)
(* packets and bytes for forwarded traffic"): also of rules that a process *)
(* found of the one before, half made or complete, and until they are all  *)
(* deleted except of those it found half deleted or with half a pair.      *)
SettledPollsExact ==
    \A d \in Netdevs, dir \in Directions :
        LET s == l3stats[d][dir] IN
        s.quiet => Unmixed(s) /\ s.uc \cup s.mc = RulesOf(dir)
=============================================================================
