---------------------------- MODULE SflowCounter ----------------------------
(***************************************************************************)
(* What the sFlow statistics of an interface promise (netdev-sim.c, the    *)
(* comment of netdev_sflow_reset: "sflow iptable rules clear the counters  *)
(* when sflow gets disabled, but the db counters has to keep               *)
(* incrementing"): a poll of an interface that is watched adds to its      *)
(* reported counters the samples taken since the last poll, each of them   *)
(* once; samples of rules that are deleted before a poll are lost, and     *)
(* nothing else changes the counters.                                      *)
(***************************************************************************)
EXTENDS Naturals

CONSTANTS Interfaces, Dirs

VARIABLES
    sampled,   \* samples taken, per interface and direction
    watched,   \* the interfaces whose polls report samples
    pending,   \* the samples the next poll will report
    reported   \* what the statistics of the interface say

countervars == <<sampled, watched, pending, reported>>

Zero == [d \in Dirs |-> 0]

CounterInit ==
    /\ sampled  = [p \in Interfaces |-> Zero]
    /\ watched  = {}
    /\ pending  = [p \in Interfaces |-> Zero]
    /\ reported = [p \in Interfaces |-> Zero]

(* A packet is sampled.                                                    *)
Take(p, d) ==
    /\ sampled' = [sampled EXCEPT ![p][d] = @ + 1]
    /\ pending' = IF p \in watched THEN [pending EXCEPT ![p][d] = @ + 1] ELSE pending
    /\ UNCHANGED <<watched, reported>>

(* A poll.                                                                 *)
Publish(p) ==
    /\ reported' = [reported EXCEPT ![p] = [d \in Dirs |-> @[d] + pending[p][d]]]
    /\ pending'  = [pending EXCEPT ![p] = Zero]
    /\ UNCHANGED <<sampled, watched>>

(* The rules of the interfaces of S are deleted or made anew; from then on *)
(* those of W among them are watched.                                      *)
Lose(S, W) ==
    /\ watched' = (watched \ S) \cup W
    /\ pending' = [p \in Interfaces |-> IF p \in S THEN Zero ELSE pending[p]]
    /\ UNCHANGED <<sampled, reported>>

(* The interfaces of S are closed; their statistics start again.           *)
Reopen(S) ==
    /\ watched'  = watched \ S
    /\ sampled'  = [p \in Interfaces |-> IF p \in S THEN Zero ELSE sampled[p]]
    /\ pending'  = [p \in Interfaces |-> IF p \in S THEN Zero ELSE pending[p]]
    /\ reported' = [p \in Interfaces |-> IF p \in S THEN Zero ELSE reported[p]]

CounterNext ==
    \/ \E p \in Interfaces, d \in Dirs : Take(p, d)
    \/ \E p \in Interfaces : Publish(p)
    \/ \E S \in SUBSET Interfaces : \E W \in SUBSET S : Lose(S, W)
    \/ \E S \in SUBSET Interfaces : Reopen(S)

CounterSpec == CounterInit /\ [][CounterNext]_countervars

-----------------------------------------------------------------------------
(* No sample is reported twice: what was reported and what is pending are  *)
(* samples that were taken.                                                *)
NoSampleTwice ==
    \A p \in Interfaces, d \in Dirs :
        reported[p][d] + pending[p][d] <= sampled[p][d]
=============================================================================
