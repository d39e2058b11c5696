------------------------------ MODULE Classifier ------------------------------
(***************************************************************************)
(* The access lists the container simulation keeps: the map of ACLs, the   *)
(* table of their bindings to interfaces and the hit counters of the       *)
(* bindings.  Models the ops_cls_pd_* handlers of ops-classifier-sim.c,    *)
(* which run one at a time in the main thread of ops-switchd.              *)
(*                                                                         *)
(* The bindings are searched by bucket of the hash table and not by hash   *)
(* or by list, so a handler for one list also meets the bindings of the    *)
(* lists that share its bucket: with one bucket, which is how the table    *)
(* starts, those of every list.  The table is therefore part of the model. *)
(***************************************************************************)
EXTENDS Integers, FiniteSets

CONSTANTS
    Lists,         \* ACLs, by UUID
    RollbackList,  \* the one named LAGRollbackACL
    Hash,          \* uuid_hash of every ACL
    Sizes,         \* numbers of entries the client gives to ACLs
    ClsPorts,      \* interfaces
    ClsBundles,    \* logical ports
    MaxAce,        \* MAX_ACE_PER_ACL and MAX_ACE_IN_HASHMAP
    CountMod,      \* 2^16, for the uint16_t count of entries
    MaxCounted     \* bound on the bindings with hits

ASSUME ClsAssumption ==
    /\ Hash \in [Lists -> Nat]
    /\ Sizes \subseteq Nat
    /\ MaxAce \in Nat /\ CountMod \in Nat /\ MaxAce < CountMod
    /\ MaxCounted \in Nat
    /\ IsFiniteSet(ClsPorts)

VARIABLES
    members,      \* bundle->ports of every bundle, {} when it does not exist
    all_acls,     \* the ACLs in the map of that name
    num_entries,  \* their list->num_entries, 0 for the others
    bindings,     \* all_port_applications
    mask,         \* number of buckets of that table, minus one
    counted,      \* bindings with a hit count that is not 0
    overfilled    \* a list_update took the ACLs beyond MAX_ACE_IN_HASHMAP, and
                  \* they still are (history variable)

clsVars == <<members, all_acls, num_entries, bindings, mask, counted, overfilled>>

Directions == {"in", "out"}

(* The copy tells bindings apart that agree in all else: nothing but the   *)
(* search before it keeps hmap_insert from adding a second one.            *)
Binding == [list: Lists, intf: ClsPorts, direction: Directions, copy: Nat]

-----------------------------------------------------------------------------
(* The hash table of OVS                                                   *)

(* Lists whose bindings are in one bucket of a table with the mask m.      *)
SameBucket(m, l, k) == Hash[l] % (m + 1) = Hash[k] % (m + 1)

(* The masks of a table: all ones, but not 1.                              *)
IsMask(k) == k # 1 /\ \E i \in 0 .. k : 2 ^ i = k + 1

(* The mask, as a set, once n bindings are in a table that had the mask m: *)
(* it grows when there are two bindings per bucket, and never shrinks.     *)
Grown(m, n) ==
    {k \in m .. m + n + 3 : /\ k >= n \div 2 /\ IsMask(k)
                            /\ \A j \in m .. k - 1 : j >= n \div 2 => ~IsMask(j)}

-----------------------------------------------------------------------------
(* Helpers                                                                 *)

(* The entries of the ACLs of A, when ACL l has ne[l] of them.             *)
Entries(A, ne) == UNION {{l} \X (1 .. ne[l]) : l \in A}

(* The entries of all ACLs there are.                                      *)
ClsTotal == Cardinality(Entries(all_acls, num_entries))

(* acl_get_current_ace_entries_count.                                      *)
acl_get_current_ace_entries_count(A, ne) == Cardinality(Entries(A, ne)) % CountMod

(* Mutant: room for one entry too many.                                    *)
FitsOneMore(A, ne, n) ==
    LET current == acl_get_current_ace_entries_count(A, ne)
    IN  current <= MaxAce /\ MaxAce + 1 - current >= n

(* A new ACL with n entries fits beside the ACLs of A.                     *)
acl_list_entries_fit_in_hashmap(A, ne, n) ==
    LET current == acl_get_current_ace_entries_count(A, ne)
    IN  current < MaxAce /\ MaxAce - current >= n

(* Mutant: the direction is compared the wrong way round.                  *)
TakenOther(B, m, l, p, d) ==
    \E x \in B : x.intf = p /\ x.direction # d /\ SameBucket(m, x.list, l)

(* "already bound": the bucket of l has a binding, of whatever list, of    *)
(* the interface p in the direction d.                                     *)
Taken(B, m, l, p, d) ==
    \E x \in B : x.intf = p /\ x.direction = d /\ SameBucket(m, x.list, l)

(* Mutant: the direction of the zeroed binding is not set.                 *)
NewBindingUndirected(B, l, p, d) ==
    [list |-> l, intf |-> p, direction |-> "invalid", copy |-> 0]

(* One more binding of l to p beside those of B.                           *)
NewBinding(B, l, p, d) ==
    [list |-> l, intf |-> p, direction |-> d,
     copy |-> Cardinality({x \in B : x.list = l /\ x.intf = p /\ x.direction = d})]

(* The sets of bindings that binding l to the ports P, one after the       *)
(* other, may add to B.  The ports that are free at first are bound in any *)
(* case.  The table may grow on the way, once or more, and ports that come *)
(* later in the list are then looked up in a smaller bucket: the set Q can *)
(* be bound if, whenever only a part of it is, one more of it is free in   *)
(* the table as it is then.                                                *)
NewBindings(B, m, l, P, d) ==
    LET free    == {p \in P : ~Taken(B, m, l, p, d)}
        More(S) == {p \in P \ S : \E k \in Grown(m, Cardinality(B) + Cardinality(S)) :
                                      ~Taken(B, k, l, p, d)}
    IN  {{NewBinding(B, l, p, d) : p \in Q} :
            Q \in {Q \in SUBSET P :
                      /\ free \subseteq Q
                      /\ \A S \in SUBSET Q :
                            free \subseteq S /\ S # Q => More(S) \cap Q # {}}}

(* The sets of bindings that unbinding l from the ports P may remove from  *)
(* B: for every port the first one of its interface in the bucket of l.    *)
OldBindings(B, m, l, P) ==
    LET found == {x \in B : x.intf \in P /\ SameBucket(m, x.list, l)}
    IN  {R \in SUBSET found :
            \A p \in {x.intf : x \in found} :
                Cardinality({x \in R : x.intf = p}) = 1}

(* Mutant: the list is deleted when the interface has no binding left.     *)
DeletesByPort(B, m, l, P) == \A x \in B : ~SameBucket(m, x.list, l) \/ x.intf \notin P

(* "Remove the list if all references are deleted": the bucket of l is     *)
(* empty.                                                                  *)
DeletesList(B, m, l, P) == \A x \in B : ~SameBucket(m, x.list, l)

(* The ACLs left once the bindings B are left.                             *)
RemainingAcls(B, l, P) ==
    IF DeletesList(B, mask, l, P) THEN all_acls \ {l} ELSE all_acls

(* ops_cls_pd_apply from the ACLs A, with ne entries, and the bindings B:  *)
(* the list is created if it is new, even when the bundle is then not      *)
(* found, and is bound to the ports of the bundle.                         *)
DoApply(A, ne, B, l, n, b, d) ==
    LET fits == l \in A \/ acl_list_entries_fit_in_hashmap(A, ne, n)
    IN  /\ all_acls' = IF fits THEN A \cup {l} ELSE A
        /\ num_entries' = [k \in Lists |-> IF k = l /\ l \notin A /\ fits THEN n
                                           ELSE IF k \in A THEN ne[k] ELSE 0]
        /\ \E new \in IF fits THEN NewBindings(B, mask, l, members[b], d) ELSE {{}} :
              /\ bindings' = B \cup new
              /\ mask' \in Grown(mask, Cardinality(B \cup new))

-----------------------------------------------------------------------------
(* The handlers                                                            *)

ops_cls_pd_apply(l, n, b, d) ==
    /\ DoApply(all_acls, num_entries, bindings, l, n, b, d)
    /\ UNCHANGED <<members, counted>>

(* The direction is an argument the code does not look at.                 *)
ops_cls_pd_remove(l, b) ==
    /\ l \in all_acls /\ members[b] # {}
    /\ \E R \in OldBindings(bindings, mask, l, members[b]) :
          /\ bindings' = bindings \ R
          /\ all_acls' = RemainingAcls(bindings \ R, l, members[b])
          /\ num_entries' = [k \in Lists |-> IF k \in all_acls'
                                             THEN num_entries[k] ELSE 0]
          /\ counted' = counted \ R
    /\ UNCHANGED <<members, mask>>

(* A port joins a LAG: the list must exist, and is not the rollback test   *)
(* list in the direction out.                                              *)
ops_cls_pd_lag_update_add(l, b, p, d) ==
    /\ ~(l = RollbackList /\ d = "out")
    /\ l \in all_acls /\ p \in members[b]
    /\ \E new \in NewBindings(bindings, mask, l, {p}, d) :
          /\ bindings' = bindings \cup new
          /\ mask' \in Grown(mask, Cardinality(bindings'))
    /\ UNCHANGED <<members, all_acls, num_entries, counted>>

(* A port leaves a LAG: the list stays, whatever is left bound to it.      *)
ops_cls_pd_lag_update_delete(l, b, p) ==
    /\ l \in all_acls /\ p \in members[b]
    /\ \E R \in OldBindings(bindings, mask, l, {p}) :
          /\ bindings' = bindings \ R
          /\ counted'  = counted \ R
    /\ UNCHANGED <<members, all_acls, num_entries, mask>>

(* The remove and, if it succeeds, the apply of the new list.              *)
ops_cls_pd_replace(orig, l, n, b, d) ==
    /\ orig \in all_acls /\ members[b] # {}
    /\ \E R \in OldBindings(bindings, mask, orig, members[b]) :
          /\ DoApply(RemainingAcls(bindings \ R, orig, members[b]),
                     num_entries, bindings \ R, l, n, b, d)
          /\ counted' = counted \ R
    /\ UNCHANGED members

(* The list is copied over the one in the map, or added to it.             *)
acl_create_or_update_entry(l, n) ==
    /\ all_acls' = all_acls \cup {l}
    /\ num_entries' = [num_entries EXCEPT ![l] = n]

(* No look at how many entries there are.                                  *)
ops_cls_pd_list_update(l, n) ==
    /\ acl_create_or_update_entry(l, n)
    /\ UNCHANGED <<members, bindings, mask, counted>>

(* The hits of the first binding of a port of the bundle grow, whatever    *)
(* its direction.  Defined for no more entries than the array has.         *)
ops_cls_pd_statistics_get(l, b) ==
    /\ l \in all_acls /\ num_entries[l] \in 1 .. MaxAce
    /\ Cardinality(counted) < MaxCounted
    /\ \E x \in bindings : /\ x.intf \in members[b]
                           /\ SameBucket(mask, x.list, l)
                           /\ counted' = counted \cup {x}
    /\ UNCHANGED <<members, all_acls, num_entries, bindings, mask>>

(* The hits of every binding of a port of the bundle, in the bucket of the *)
(* list, are cleared.                                                      *)
ops_cls_pd_statistics_clear(l, b) ==
    /\ l \in all_acls
    /\ counted' = {x \in counted : \/ x.intf \notin members[b]
                                   \/ ~SameBucket(mask, x.list, l)}
    /\ UNCHANGED <<members, all_acls, num_entries, bindings, mask>>

(* bundle_set and bundle_remove of the provider: a bundle gets other       *)
(* ports, and a bundle that loses its port to it is destroyed.  A LAG of   *)
(* several ports only gives up ports itself.                               *)
rebundle(b, P) ==
    /\ b \in ClsPorts => P \subseteq {b}
    /\ \A c \in ClsBundles \ {b} : members[c] \cap P = {} \/ members[c] \subseteq P
    /\ members' = [c \in ClsBundles |-> IF c = b THEN P ELSE members[c] \ P]
    /\ UNCHANGED <<all_acls, num_entries, bindings, mask, counted>>

-----------------------------------------------------------------------------
ClsInit ==
    /\ members = [b \in ClsBundles |-> {}]
    /\ all_acls = {} /\ num_entries = [l \in Lists |-> 0]
    /\ bindings = {} /\ mask = 0 /\ counted = {} /\ overfilled = FALSE

(* All handlers but list_update.                                           *)
Handlers ==
    \/ \E b \in ClsBundles, P \in SUBSET ClsPorts : rebundle(b, P)
    \/ \E l \in Lists, b \in ClsBundles :
          \/ \E n \in Sizes, d \in Directions :
                \/ ops_cls_pd_apply(l, n, b, d)
                \/ \E orig \in Lists : ops_cls_pd_replace(orig, l, n, b, d)
          \/ ops_cls_pd_remove(l, b)
          \/ \E p \in ClsPorts :
                \/ \E d \in Directions : ops_cls_pd_lag_update_add(l, b, p, d)
                \/ ops_cls_pd_lag_update_delete(l, b, p)
          \/ ops_cls_pd_statistics_get(l, b)
          \/ ops_cls_pd_statistics_clear(l, b)

ClsNext ==
    \/ /\ Handlers
       /\ overfilled' = (overfilled /\ ~(ClsTotal' <= MaxAce))
    \/ /\ \E l \in Lists, n \in Sizes : ops_cls_pd_list_update(l, n)
       /\ overfilled' = ~(ClsTotal' <= MaxAce)

ClsSpec == ClsInit /\ [][ClsNext]_clsVars

-----------------------------------------------------------------------------
(* Properties                                                              *)

(* The sets the variables range over.                                      *)
ClsTypeOK ==
    /\ members \in [ClsBundles -> SUBSET ClsPorts]
    /\ all_acls \subseteq Lists
    /\ num_entries \in [Lists -> Nat]
    /\ bindings \subseteq Binding
    /\ mask \in Nat
    /\ counted \subseteq bindings
    /\ overfilled \in BOOLEAN

(* A binding never outlives its list, although a list is deleted by a look *)
(* at one bucket: the "No ACL found for port" of dump_port_bindings never  *)
(* happens.                                                                *)
BindingsHaveAcl == \A x \in bindings : x.list \in all_acls

(* An interface is bound to a list in a direction at most once, through    *)
(* every apply, replace, LAG update and growth of the table: the search    *)
(* before hmap_insert, which looks at one bucket only, always finds the    *)
(* binding that is there.                                                  *)
BoundOnce ==
    \A x, y \in bindings :
        x.list = y.list /\ x.intf = y.intf /\ x.direction = y.direction => x = y

(* No handler but list_update takes the ACLs beyond MAX_ACE_IN_HASHMAP     *)
(* entries: neither an apply that leaves a list behind when it does not    *)
(* find the bundle, nor a replace, which removes and creates.              *)
CapacityHolds == overfilled \/ ClsTotal <= MaxAce
=============================================================================
