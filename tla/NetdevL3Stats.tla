---------------------------- MODULE NetdevL3Stats ----------------------------
(***************************************************************************)
(* The L3 statistics rules of the netdevs (netdev-sim.c).  The main thread *)
(* starts a detached thread that installs the pkttype rules of a netdev    *)
(* when its port joins a bundle of a VRF, and another that deletes them    *)
(* when it leaves.  The threads share the netdev's l3_stats_mutex and      *)
(* l3_stats_enabled, nobody joins them, and nothing orders them.           *)
(***************************************************************************)
EXTENDS Naturals, Sequences, FiniteSets

CONSTANTS
    Netdevs,    \* the netdevs
    NRules,     \* rules per netdev, installed and deleted in the order 1..NRules
    Pairs,      \* the -i rules of FORWARD, each with its -o rule next to it
    MaxThreads  \* bound on the threads started for one netdev in its life

ASSUME L3Assumption ==
    /\ NRules \in Nat \ {0} /\ MaxThreads \in Nat
    /\ Pairs \subseteq 1 .. NRules - 1
    /\ \A k \in Pairs : k + 1 \notin Pairs

VARIABLES
    alive,             \* netdevs that are allocated
    threads,           \* per netdev, its unfinished threads, oldest first
    started,           \* per netdev, threads started so far
    l3_stats_mutex,    \* netdevs whose mutex is locked
    l3_stats_enabled,  \* netdevs with that flag
    xtables,           \* per netdev, its rules in iptables and ip6tables, oldest first
    overtaken          \* netdevs with a thread that took the mutex before an
                       \* older one (history variable)

l3vars == <<alive, threads, started, l3_stats_mutex, l3_stats_enabled,
            xtables, overtaken>>

Ops == {"create", "delete"}

(* A thread runs one of the two functions; at = 0 before it has the mutex, *)
(* then the rule its next command is about.                                *)
Thread == [op: Ops, at: 0 .. NRules + 1]

L3Init ==
    /\ alive = Netdevs
    /\ threads = [d \in Netdevs |-> <<>>]
    /\ started = [d \in Netdevs |-> 0]
    /\ l3_stats_mutex = {} /\ l3_stats_enabled = {} /\ overtaken = {}
    /\ xtables = [d \in Netdevs |-> <<>>]

-----------------------------------------------------------------------------
(* netdev_sim_l3stats_xtables_rules_create and ..._delete: one new thread  *)
(* for every operation of new[d].  The calls are made by the handlers of   *)
(* the main thread.                                                        *)
StartThreads(new) ==
    /\ \A d \in Netdevs : started[d] + Len(new[d]) <= MaxThreads
    /\ threads' = [d \in Netdevs |->
                     threads[d] \o [i \in 1 .. Len(new[d]) |->
                                      [op |-> new[d][i], at |-> 0]]]
    /\ started' = [d \in Netdevs |-> started[d] + Len(new[d])]

(* A thread ends: it leaves the sequence.                                  *)
Without(q, i) == SubSeq(q, 1, i - 1) \o SubSeq(q, i + 1, Len(q))

(* A create thread has nothing to do when the flag is set, a delete thread *)
(* when it is not.                                                         *)
NothingToDo(d, op) == (op = "create") <=> (d \in l3_stats_enabled)

(* The thread takes the free mutex of its netdev.                          *)
Takes(d, i) ==
    /\ i \in DOMAIN threads[d] /\ threads[d][i].at = 0
    /\ d \in alive
    /\ d \notin l3_stats_mutex
    /\ l3_stats_mutex' = l3_stats_mutex \cup {d}
    /\ overtaken' = IF i = 1 THEN overtaken ELSE overtaken \cup {d}

(* Mutant: the check comes before the lock.                                *)
CheckBeforeLock(d, i) ==
    /\ i \in DOMAIN threads[d] /\ threads[d][i].at = 0
    /\ threads' = [threads EXCEPT ![d][i].at = 1]
    /\ l3_stats_mutex' = l3_stats_mutex \cup {d}
    /\ UNCHANGED <<alive, started, l3_stats_enabled, xtables, overtaken>>

(* Mutant: a create thread sets the flag first.                            *)
FlagFirst(d, i) ==
    /\ Takes(d, i)
    /\ ~NothingToDo(d, threads[d][i].op)
    /\ threads' = [threads EXCEPT ![d][i].at = 1]
    /\ l3_stats_enabled' = IF threads[d][i].op = "create"
                           THEN l3_stats_enabled \cup {d} ELSE l3_stats_enabled
    /\ UNCHANGED <<alive, started, xtables>>

LockAndWork(d, i) ==
    /\ Takes(d, i)
    /\ ~NothingToDo(d, threads[d][i].op)
    /\ threads' = [threads EXCEPT ![d][i].at = 1]
    /\ UNCHANGED <<alive, started, l3_stats_enabled, xtables>>

(* "return NULL" after ovs_mutex_lock: the thread ends with the mutex.     *)
LockAndReturn(d, i) ==
    /\ Takes(d, i)
    /\ NothingToDo(d, threads[d][i].op)
    /\ threads' = [threads EXCEPT ![d] = Without(@, i)]
    /\ UNCHANGED <<alive, started, l3_stats_enabled, xtables>>

(* The rule k is among the rules q.                                        *)
Has(q, k) == \E i \in DOMAIN q : q[i] = k

(* Mutant: "-I" for "-A".                                                  *)
RuleInserted(q, k) == <<k>> \o q

(* "-A" puts a rule at the end of its chain, whether it is there or not;   *)
(* "-D" takes out the first such rule, and fails when there is none.       *)
RuleAdded(q, k)   == Append(q, k)
RuleDeleted(q, k) ==
    IF Has(q, k)
    THEN Without(q, CHOOSE i \in DOMAIN q : q[i] = k /\ \A j \in 1 .. i - 1 : q[j] # k)
    ELSE q

(* netdev_sim_l3stats_xtables_rule_installed: both rules of a pair.        *)
netdev_sim_l3stats_xtables_rule_installed(q, k) ==
    Has(q, k) /\ (k \in Pairs => Has(q, k + 1))

(* The command for the -o rule of a pair, which the check for the -i rule  *)
(* stands for.                                                             *)
Second(k) == \E j \in Pairs : k = j + 1

(* A rule is added unless it is installed, and deleted if it is.           *)
Acts(q, t) ==
    \/ Second(t.at)
    \/ netdev_sim_l3stats_xtables_rule_installed(q, t.at) <=> t.op = "delete"

(* Mutant: delete threads leave the last rule.                             *)
EditRuleKeepLast(d, i) ==
    LET t == threads[d][i]
    IN  /\ i \in DOMAIN threads[d] /\ t.at \in 1 .. NRules
        /\ d \in alive
        /\ Acts(xtables[d], t)
        /\ xtables' = [xtables EXCEPT ![d] =
                         IF t.op = "create" THEN RuleAdded(@, t.at)
                         ELSE IF t.at < NRules THEN RuleDeleted(@, t.at) ELSE @]
        /\ threads' = [threads EXCEPT ![d][i].at = t.at + 1]
        /\ UNCHANGED <<alive, started, l3_stats_mutex, l3_stats_enabled, overtaken>>

(* netdev_sim_l3stats_add_rule or ..._delete_rule, one command that edits. *)
EditRule(d, i) ==
    LET t == threads[d][i]
    IN  /\ i \in DOMAIN threads[d] /\ t.at \in 1 .. NRules
        /\ d \in alive
        /\ Acts(xtables[d], t)
        /\ xtables' = [xtables EXCEPT ![d] = IF t.op = "create" THEN RuleAdded(@, t.at)
                                                                ELSE RuleDeleted(@, t.at)]
        /\ threads' = [threads EXCEPT ![d][i].at = t.at + 1]
        /\ UNCHANGED <<alive, started, l3_stats_mutex, l3_stats_enabled, overtaken>>

(* The same when there is nothing to do for a rule, or for a pair.         *)
SkipRule(d, i) ==
    LET t == threads[d][i]
    IN  /\ i \in DOMAIN threads[d] /\ t.at \in 1 .. NRules
        /\ d \in alive
        /\ ~Acts(xtables[d], t)
        /\ threads' = [threads EXCEPT ![d][i].at = t.at + IF t.at \in Pairs THEN 2 ELSE 1]
        /\ UNCHANGED <<alive, started, l3_stats_mutex, l3_stats_enabled, xtables, overtaken>>

(* Mutant: the thread ends without unlocking.                              *)
FinishLocked(d, i) ==
    LET t == threads[d][i]
    IN  /\ i \in DOMAIN threads[d] /\ t.at = NRules + 1
        /\ l3_stats_enabled' = IF t.op = "create" THEN l3_stats_enabled \cup {d}
                                                  ELSE l3_stats_enabled \ {d}
        /\ threads' = [threads EXCEPT ![d] = Without(@, i)]
        /\ UNCHANGED <<alive, started, l3_stats_mutex, xtables, overtaken>>

(* The flag is set or cleared and the mutex is unlocked.                   *)
Finish(d, i) ==
    LET t == threads[d][i]
    IN  /\ i \in DOMAIN threads[d] /\ t.at = NRules + 1
        /\ d \in alive
        /\ l3_stats_enabled' = IF t.op = "create" THEN l3_stats_enabled \cup {d}
                                                  ELSE l3_stats_enabled \ {d}
        /\ l3_stats_mutex' = l3_stats_mutex \ {d}
        /\ threads' = [threads EXCEPT ![d] = Without(@, i)]
        /\ UNCHANGED <<alive, started, xtables, overtaken>>

ThreadStep(d) ==
    \E i \in 1 .. MaxThreads :
        \/ LockAndWork(d, i) \/ LockAndReturn(d, i)
        \/ EditRule(d, i) \/ SkipRule(d, i)
        \/ Finish(d, i)

(* netdev_sim_dealloc, when the last reference is closed.  A thread holds  *)
(* none.                                                                   *)
netdev_sim_dealloc(d) ==
    /\ d \in alive
    /\ alive' = alive \ {d}
    /\ UNCHANGED <<threads, started, l3_stats_mutex, l3_stats_enabled, xtables, overtaken>>

-----------------------------------------------------------------------------
L3TypeOK ==
    /\ alive \subseteq Netdevs /\ l3_stats_mutex \subseteq Netdevs
    /\ l3_stats_enabled \subseteq Netdevs /\ overtaken \subseteq Netdevs
    /\ threads \in [Netdevs -> Seq(Thread)]
    /\ started \in [Netdevs -> 0 .. MaxThreads]
    /\ xtables \in [Netdevs -> Seq(1 .. NRules)]

Holders(d) == {i \in DOMAIN threads[d] : threads[d][i].at > 0}

(* The mutex is locked and no thread will unlock it.                       *)
Leaked(d) == d \in l3_stats_mutex /\ Holders(d) = {}
=============================================================================
