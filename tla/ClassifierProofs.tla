--------------------------- MODULE ClassifierProofs ---------------------------
(***************************************************************************)
(* Access lists: proofs for every set of lists, interfaces and bundles,    *)
(* and whatever hashes make the lists share buckets.                       *)
(***************************************************************************)
EXTENDS Classifier, FiniteSetTheorems, TLAPS

-----------------------------------------------------------------------------
(* Bindings and their lists                                                *)

(* The bindings that binding a list adds are bindings of that list.        *)
LEMMA NewAreOfList ==
    ASSUME NEW B, NEW m, NEW l, NEW P, NEW d, NEW new \in NewBindings(B, m, l, P, d)
    PROVE  \A x \in new : x.list = l
<1>1. \A p : NewBinding(B, l, p, d).list = l
  BY DEF NewBinding
<1>2. PICK Q \in SUBSET P : new = {NewBinding(B, l, p, d) : p \in Q}
  BY DEF NewBindings
<1> QED  BY <1>1, <1>2

(* Lists left without an ACL have no binding left: a list is in its own    *)
(* bucket.                                                                 *)
LEMMA RemainingHaveAcl ==
    ASSUME BindingsHaveAcl, NEW R, NEW l, NEW P
    PROVE  \A x \in bindings \ R : x.list \in RemainingAcls(bindings \ R, l, P)
  BY DEF BindingsHaveAcl, RemainingAcls, DeletesList, SameBucket

LEMMA ApplyHasAcl ==
    ASSUME NEW A, NEW ne, NEW B, NEW l, NEW n, NEW b, NEW d,
           \A x \in B : x.list \in A,
           DoApply(A, ne, B, l, n, b, d)
    PROVE  BindingsHaveAcl'
<1> DEFINE fits == l \in A \/ acl_list_entries_fit_in_hashmap(A, ne, n)
<1>1. all_acls' = IF fits THEN A \cup {l} ELSE A
  BY DEF DoApply
<1>2. PICK new \in (IF fits THEN NewBindings(B, mask, l, members[b], d) ELSE {{}}) :
         bindings' = B \cup new
  BY DEF DoApply
<1> HIDE DEF fits
<1>3. CASE fits
  BY <1>1, <1>2, <1>3, NewAreOfList DEF BindingsHaveAcl
<1>4. CASE ~fits
  BY <1>1, <1>2, <1>4 DEF BindingsHaveAcl
<1> QED  BY <1>3, <1>4

(* Every binding has its ACL, through every order of apply, remove,        *)
(* replace, list and LAG updates, and changes of the bundles.              *)
THEOREM BindingsNeverOrphaned == ClsSpec => []BindingsHaveAcl
<1>1. ClsInit => BindingsHaveAcl
  BY DEF ClsInit, BindingsHaveAcl
<1>2. BindingsHaveAcl /\ [ClsNext]_clsVars => BindingsHaveAcl'
  <2> SUFFICES ASSUME BindingsHaveAcl, [ClsNext]_clsVars
               PROVE  BindingsHaveAcl'
    OBVIOUS
  <2>1. ASSUME NEW l, NEW n, NEW b, NEW d, ops_cls_pd_apply(l, n, b, d)
        PROVE  BindingsHaveAcl'
    BY <2>1, ApplyHasAcl DEF ops_cls_pd_apply, BindingsHaveAcl
  <2>2. ASSUME NEW l, NEW n, NEW b, NEW d, NEW orig,
               ops_cls_pd_replace(orig, l, n, b, d)
        PROVE  BindingsHaveAcl'
    <3>1. PICK R : DoApply(RemainingAcls(bindings \ R, orig, members[b]),
                           num_entries, bindings \ R, l, n, b, d)
      BY <2>2 DEF ops_cls_pd_replace
    <3> QED  BY <3>1, RemainingHaveAcl, ApplyHasAcl
  <2>3. ASSUME NEW l, NEW b, ops_cls_pd_remove(l, b)
        PROVE  BindingsHaveAcl'
    <3>1. PICK R : /\ bindings' = bindings \ R
                   /\ all_acls' = RemainingAcls(bindings \ R, l, members[b])
      BY <2>3 DEF ops_cls_pd_remove
    <3> QED  BY <3>1, RemainingHaveAcl DEF BindingsHaveAcl
  <2>4. ASSUME NEW l, NEW b, NEW p, NEW d, ops_cls_pd_lag_update_add(l, b, p, d)
        PROVE  BindingsHaveAcl'
    <3>1. PICK new \in NewBindings(bindings, mask, l, {p}, d) :
             bindings' = bindings \cup new
      BY <2>4 DEF ops_cls_pd_lag_update_add
    <3> QED  BY <2>4, <3>1, NewAreOfList DEF ops_cls_pd_lag_update_add, BindingsHaveAcl
  <2>5. ASSUME NEW l, NEW b, NEW p, ops_cls_pd_lag_update_delete(l, b, p)
        PROVE  BindingsHaveAcl'
    BY <2>5 DEF ops_cls_pd_lag_update_delete, BindingsHaveAcl
  <2>6. ASSUME NEW l, NEW n, ops_cls_pd_list_update(l, n)
        PROVE  BindingsHaveAcl'
    BY <2>6 DEF ops_cls_pd_list_update, acl_create_or_update_entry, BindingsHaveAcl
  <2>7. ASSUME UNCHANGED <<all_acls, bindings>>
        PROVE  BindingsHaveAcl'
    BY <2>7 DEF BindingsHaveAcl
  <2>8. ASSUME NEW l, NEW b, \/ ops_cls_pd_statistics_get(l, b)
                             \/ ops_cls_pd_statistics_clear(l, b)
        PROVE  BindingsHaveAcl'
    BY <2>7, <2>8 DEF ops_cls_pd_statistics_get, ops_cls_pd_statistics_clear
  <2>9. ASSUME NEW b, NEW P, rebundle(b, P)
        PROVE  BindingsHaveAcl'
    BY <2>7, <2>9 DEF rebundle
  <2>10. CASE UNCHANGED clsVars
    BY <2>7, <2>10 DEF clsVars
  <2> QED  BY <2>1, <2>2, <2>3, <2>4, <2>5, <2>6, <2>8, <2>9, <2>10 DEF ClsNext, Handlers
<1> QED  BY <1>1, <1>2, PTL DEF ClsSpec

-----------------------------------------------------------------------------
(* Types, and bindings once                                                *)

Once(B) ==
    \A x, y \in B :
        x.list = y.list /\ x.intf = y.intf /\ x.direction = y.direction => x = y

(* A list is in its own bucket, in every table: a port that is free in one *)
(* of them has no binding of the list.                                     *)
LEMMA FreeNotBound ==
    ASSUME NEW B, NEW m, NEW l, NEW p, NEW d, ~Taken(B, m, l, p, d), NEW x \in B,
           x.list = l, x.intf = p, x.direction = d
    PROVE  FALSE
  BY DEF Taken, SameBucket

(* The ports that are bound had no binding of the list, also those that    *)
(* are free only in a table that grew on the way.                          *)
LEMMA NewNotBound ==
    ASSUME NEW B, NEW m, NEW l, NEW P, NEW d, NEW new \in NewBindings(B, m, l, P, d)
    PROVE  \E Q \in SUBSET P :
              /\ new = {NewBinding(B, l, p, d) : p \in Q}
              /\ \A p \in Q, x \in B : ~(x.list = l /\ x.intf = p /\ x.direction = d)
<1> DEFINE free    == {p \in P : ~Taken(B, m, l, p, d)}
           More(S) == {p \in P \ S : \E k \in Grown(m, Cardinality(B) + Cardinality(S)) :
                                         ~Taken(B, k, l, p, d)}
<1>1. PICK Q \in SUBSET P :
         /\ new = {NewBinding(B, l, p, d) : p \in Q}
         /\ free \subseteq Q
         /\ \A S \in SUBSET Q : free \subseteq S /\ S # Q => More(S) \cap Q # {}
  BY DEF NewBindings
<1>2. ASSUME NEW p \in Q, NEW x \in B, x.list = l, x.intf = p, x.direction = d
      PROVE  FALSE
  <2>1. CASE p \in free
    BY <1>2, <2>1, FreeNotBound
  <2>2. CASE p \notin free
    <3>1. Q \ {p} \in SUBSET Q /\ free \subseteq Q \ {p} /\ Q \ {p} # Q
      BY <1>1, <1>2, <2>2
    <3> HIDE DEF free
    <3>2. More(Q \ {p}) \cap Q # {}
      <4> HIDE DEF More
      <4> QED  BY <1>1, <3>1
    <3>3. PICK q \in More(Q \ {p}) : q \in Q
      <4> HIDE DEF More
      <4> QED  BY <3>2
    <3>4. q = p
      BY <3>3
    <3>5. PICK k : ~Taken(B, k, l, p, d)
      BY <3>3, <3>4
    <3> QED  BY <1>2, <3>5, FreeNotBound
  <2> QED  BY <2>1, <2>2
<1> QED  BY <1>1, <1>2

LEMMA GrownNat ==
    ASSUME NEW m \in Nat, NEW n, NEW k \in Grown(m, n)
    PROVE  k \in Nat
<1>1. k \in m .. m + n + 3
  BY DEF Grown
<1> QED  BY <1>1

(* Binding a list leaves every binding single.                             *)
LEMMA BindKeepsOnce ==
    ASSUME NEW B \in SUBSET Binding, Once(B), NEW m,
           NEW l \in Lists, NEW P \in SUBSET ClsPorts, NEW d \in Directions,
           NEW new \in NewBindings(B, m, l, P, d)
    PROVE  new \subseteq Binding /\ Once(B \cup new)
<1>1. PICK Q \in SUBSET P :
         /\ new = {NewBinding(B, l, p, d) : p \in Q}
         /\ \A p \in Q, x \in B : ~(x.list = l /\ x.intf = p /\ x.direction = d)
  BY NewNotBound
<1>2. ASSUME NEW p \in Q
      PROVE  NewBinding(B, l, p, d) = [list |-> l, intf |-> p, direction |-> d, copy |-> 0]
  <2>1. {x \in B : x.list = l /\ x.intf = p /\ x.direction = d} = {}
    BY <1>1, <1>2
  <2> QED  BY <2>1, FS_EmptySet DEF NewBinding
<1>3. /\ new \subseteq Binding
      /\ \A x \in new : x.list = l /\ x.intf \in Q /\ x.direction = d
      /\ \A x, y \in new : x.intf = y.intf => x = y
  BY <1>1, <1>2 DEF Binding
<1>4. Once(B \cup new)
  BY <1>1, <1>3 DEF Once
<1> QED  BY <1>3, <1>4

(* What is proved of all steps: the types and single bindings.             *)
BoundInv == ClsTypeOK /\ Once(bindings)

(* Fewer bindings do no harm.                                              *)
LEMMA FewerBindings ==
    ASSUME BoundInv, NEW R
    PROVE  bindings \ R \in SUBSET Binding /\ Once(bindings \ R)
  BY DEF BoundInv, ClsTypeOK, Once

(* DoApply, from a smaller table and fewer lists.                          *)
LEMMA ApplyOnce ==
    ASSUME ClsTypeOK, NEW A \in SUBSET Lists, NEW B \in SUBSET Binding, Once(B),
           NEW l \in Lists, NEW n \in Sizes, NEW b \in ClsBundles,
           NEW d \in Directions, DoApply(A, num_entries, B, l, n, b, d)
    PROVE  /\ all_acls' \subseteq Lists /\ num_entries' \in [Lists -> Nat]
           /\ bindings' \subseteq Binding /\ B \subseteq bindings' /\ mask' \in Nat
           /\ Once(bindings')
<1> DEFINE fits == l \in A \/ acl_list_entries_fit_in_hashmap(A, num_entries, n)
<1>1. all_acls' = IF fits THEN A \cup {l} ELSE A
  BY DEF DoApply
<1>2. num_entries' = [k \in Lists |-> IF k = l /\ l \notin A /\ fits THEN n
                                      ELSE IF k \in A THEN num_entries[k] ELSE 0]
  BY DEF DoApply
<1>3. PICK new \in (IF fits THEN NewBindings(B, mask, l, members[b], d) ELSE {{}}) :
         bindings' = B \cup new /\ mask' \in Grown(mask, Cardinality(B \cup new))
  BY DEF DoApply
<1> HIDE DEF fits
<1>4. n \in Nat /\ mask \in Nat /\ members[b] \in SUBSET ClsPorts
  BY ClsAssumption DEF ClsTypeOK
<1>5. num_entries' \in [Lists -> Nat]
  BY <1>2, <1>4 DEF ClsTypeOK
<1>6. mask' \in Nat
  BY <1>3, <1>4, GrownNat
<1>7. CASE fits
  <2>1. new \in NewBindings(B, mask, l, members[b], d)
    BY <1>3, <1>7
  <2>2. new \subseteq Binding /\ Once(B \cup new)
    BY <1>4, <2>1, BindKeepsOnce
  <2> QED  BY <1>1, <1>3, <1>5, <1>6, <2>2
<1>8. CASE ~fits
  <2>1. new = {}
    BY <1>3, <1>8
  <2>2. bindings' = B
    BY <1>3, <2>1
  <2> QED  BY <1>1, <1>5, <1>6, <1>8, <2>2
<1> QED  BY <1>7, <1>8

LEMMA BoundStep ==
    ASSUME BoundInv, [ClsNext]_clsVars
    PROVE  BoundInv'
<1>0. overfilled' \in BOOLEAN
  BY DEF BoundInv, ClsTypeOK, ClsNext, clsVars
<1>1. ClsTypeOK /\ Once(bindings)
  BY DEF BoundInv
<1>2. ASSUME UNCHANGED <<bindings, mask>>, ClsTypeOK'
      PROVE  BoundInv'
  BY <1>0, <1>1, <1>2 DEF BoundInv, Once
<1>3. ASSUME NEW l \in Lists, NEW n \in Sizes, ops_cls_pd_list_update(l, n)
      PROVE  BoundInv'
  <2>1. n \in Nat
    BY ClsAssumption
  <2>2. ClsTypeOK'
    BY <1>0, <1>1, <1>3, <2>1
       DEF ops_cls_pd_list_update, acl_create_or_update_entry, ClsTypeOK
  <2> QED  BY <1>2, <1>3, <2>2 DEF ops_cls_pd_list_update
<1>4. ASSUME NEW b \in ClsBundles, NEW P \in SUBSET ClsPorts, rebundle(b, P)
      PROVE  BoundInv'
  <2>1. ClsTypeOK'
    BY <1>0, <1>1, <1>4 DEF rebundle, ClsTypeOK
  <2> QED  BY <1>2, <1>4, <2>1 DEF rebundle
<1>5. ASSUME NEW l \in Lists, NEW n \in Sizes, NEW b \in ClsBundles, NEW d \in Directions,
             ops_cls_pd_apply(l, n, b, d)
      PROVE  BoundInv'
  <2>1. /\ DoApply(all_acls, num_entries, bindings, l, n, b, d)
        /\ UNCHANGED <<members, counted>>
    BY <1>5 DEF ops_cls_pd_apply
  <2>2. /\ all_acls' \subseteq Lists /\ num_entries' \in [Lists -> Nat]
        /\ bindings' \subseteq Binding /\ bindings \subseteq bindings' /\ mask' \in Nat
        /\ Once(bindings')
    BY <1>0, <1>1, <2>1, ApplyOnce DEF ClsTypeOK
  <2> QED  BY <1>0, <1>1, <2>1, <2>2 DEF BoundInv, ClsTypeOK, Once
<1>6. ASSUME NEW orig \in Lists, NEW l \in Lists, NEW n \in Sizes, NEW b \in ClsBundles,
             NEW d \in Directions, ops_cls_pd_replace(orig, l, n, b, d)
      PROVE  BoundInv'
  <2>1. PICK R : /\ DoApply(RemainingAcls(bindings \ R, orig, members[b]),
                            num_entries, bindings \ R, l, n, b, d)
                 /\ counted' = counted \ R
    BY <1>6 DEF ops_cls_pd_replace
  <2>2. UNCHANGED members
    BY <1>6 DEF ops_cls_pd_replace
  <2>3. RemainingAcls(bindings \ R, orig, members[b]) \in SUBSET Lists
    BY <1>1 DEF RemainingAcls, ClsTypeOK
  <2>4. /\ all_acls' \subseteq Lists /\ num_entries' \in [Lists -> Nat]
        /\ bindings' \subseteq Binding /\ bindings \ R \subseteq bindings' /\ mask' \in Nat
        /\ Once(bindings')
    BY <1>0, <1>1, <2>1, <2>3, FewerBindings, ApplyOnce
  <2> QED  BY <1>0, <1>1, <2>1, <2>2, <2>4 DEF BoundInv, ClsTypeOK, Once
<1>7. ASSUME NEW l \in Lists, NEW b \in ClsBundles, ops_cls_pd_remove(l, b)
      PROVE  BoundInv'
  <2>1. PICK R : /\ bindings' = bindings \ R /\ counted' = counted \ R
                 /\ all_acls' = RemainingAcls(bindings \ R, l, members[b])
                 /\ num_entries' = [k \in Lists |-> IF k \in all_acls'
                                                    THEN num_entries[k] ELSE 0]
    BY <1>7 DEF ops_cls_pd_remove
  <2>2. UNCHANGED <<members, mask>>
    BY <1>7 DEF ops_cls_pd_remove
  <2>3. all_acls' \subseteq Lists /\ num_entries' \in [Lists -> Nat]
    BY <1>1, <2>1 DEF RemainingAcls, ClsTypeOK
  <2> QED  BY <1>0, <1>1, <2>1, <2>2, <2>3, FewerBindings DEF BoundInv, ClsTypeOK, Once
<1>8. ASSUME NEW l \in Lists, NEW b \in ClsBundles, NEW p \in ClsPorts, NEW d \in Directions,
             ops_cls_pd_lag_update_add(l, b, p, d)
      PROVE  BoundInv'
  <2>1. PICK new \in NewBindings(bindings, mask, l, {p}, d) :
           /\ bindings' = bindings \cup new
           /\ mask' \in Grown(mask, Cardinality(bindings'))
    BY <1>8 DEF ops_cls_pd_lag_update_add
  <2>2. UNCHANGED <<members, all_acls, num_entries, counted>>
    BY <1>8 DEF ops_cls_pd_lag_update_add
  <2>3. bindings \in SUBSET Binding /\ mask \in Nat /\ {p} \in SUBSET ClsPorts
    BY <1>1 DEF ClsTypeOK
  <2>4. new \subseteq Binding /\ Once(bindings \cup new)
    BY <1>0, <1>1, <2>1, <2>3, BindKeepsOnce
  <2>5. mask' \in Nat
    BY <2>1, <2>3, GrownNat
  <2>6. Once(bindings')
    BY <2>1, <2>4
  <2> QED  BY <1>0, <1>1, <2>1, <2>2, <2>4, <2>5, <2>6 DEF BoundInv, ClsTypeOK, Once
<1>9. ASSUME NEW l, NEW b, NEW p, ops_cls_pd_lag_update_delete(l, b, p)
      PROVE  BoundInv'
  <2>1. PICK R : bindings' = bindings \ R /\ counted' = counted \ R
    BY <1>9 DEF ops_cls_pd_lag_update_delete
  <2>2. UNCHANGED <<members, all_acls, num_entries, mask>>
    BY <1>9 DEF ops_cls_pd_lag_update_delete
  <2> QED  BY <1>0, <1>1, <2>1, <2>2, FewerBindings DEF BoundInv, ClsTypeOK, Once
<1>10. ASSUME NEW l, NEW b, ops_cls_pd_statistics_get(l, b) \/ ops_cls_pd_statistics_clear(l, b)
       PROVE  BoundInv'
  <2>1. UNCHANGED <<members, all_acls, num_entries, bindings, mask>>
    BY <1>10 DEF ops_cls_pd_statistics_get, ops_cls_pd_statistics_clear
  <2>2. counted' \subseteq bindings'
    BY <1>0, <1>1, <1>10, <2>1
       DEF ops_cls_pd_statistics_get, ops_cls_pd_statistics_clear, ClsTypeOK
  <2> QED  BY <1>0, <1>1, <1>2, <2>1, <2>2 DEF ClsTypeOK
<1>11. CASE UNCHANGED clsVars
  BY <1>0, <1>1, <1>2, <1>11 DEF clsVars, ClsTypeOK
<1> QED  BY <1>3, <1>4, <1>5, <1>6, <1>7, <1>8, <1>9, <1>10, <1>11 DEF ClsNext, Handlers

LEMMA BoundInvCorrect == ClsSpec => []BoundInv
<1>1. ClsInit => BoundInv
  <2> SUFFICES ASSUME ClsInit PROVE BoundInv
    OBVIOUS
  <2>1. bindings = {}
    BY DEF ClsInit
  <2>2. ClsTypeOK
    BY DEF ClsInit, ClsTypeOK
  <2> QED  BY <2>1, <2>2 DEF BoundInv, Once
<1>2. BoundInv /\ [ClsNext]_clsVars => BoundInv'
  BY BoundStep
<1> QED  BY <1>1, <1>2, PTL DEF ClsSpec

(* The variables range over their sets; hits are hits of bindings that     *)
(* exist.                                                                  *)
THEOREM ClsTypeCorrect == ClsSpec => []ClsTypeOK
<1>1. BoundInv => ClsTypeOK
  BY DEF BoundInv
<1> QED  BY <1>1, BoundInvCorrect, PTL

(* For every hash function and any number of lists and interfaces: an      *)
(* interface is bound to a list in a direction once, though the search     *)
(* looks at one bucket and the table may grow in the middle of an apply.   *)
THEOREM BindingsStaySingle == ClsSpec => []BoundOnce
<1>1. BoundInv => BoundOnce
  BY DEF BoundInv, Once, BoundOnce
<1> QED  BY <1>1, BoundInvCorrect, PTL

-----------------------------------------------------------------------------
(* Capacity                                                                *)

LEMMA EntriesMember ==
    ASSUME NEW A, NEW ne, NEW e
    PROVE  e \in Entries(A, ne) <=> \E l \in A : e \in {l} \X (1 .. ne[l])
  BY DEF Entries

(* Fewer ACLs, with the entries they had, have fewer entries.              *)
LEMMA FewerEntries ==
    ASSUME NEW A, NEW ne, NEW B \in SUBSET A, NEW nf, \A l \in B : nf[l] = ne[l]
    PROVE  Entries(B, nf) \subseteq Entries(A, ne)
  BY EntriesMember

LEMMA FewerTotal ==
    ASSUME NEW A, NEW ne, IsFiniteSet(Entries(A, ne)),
           NEW B \in SUBSET A, NEW nf, \A l \in B : nf[l] = ne[l]
    PROVE  /\ IsFiniteSet(Entries(B, nf))
           /\ Cardinality(Entries(B, nf)) \in Nat
           /\ Cardinality(Entries(B, nf)) <= Cardinality(Entries(A, ne))
<1>1. Entries(B, nf) \subseteq Entries(A, ne)
  BY FewerEntries
<1> QED  BY <1>1, FS_Subset, FS_CardinalityType

(* The entries of one ACL.                                                 *)
LEMMA OneAclTotal ==
    ASSUME NEW l, NEW n \in Nat
    PROVE  IsFiniteSet({l} \X (1 .. n)) /\ Cardinality({l} \X (1 .. n)) = n
<1>1. IsFiniteSet({l}) /\ Cardinality({l}) = 1
  BY FS_Singleton, Zenon
<1>2. IsFiniteSet(1 .. n) /\ Cardinality(1 .. n) = IF 1 > n THEN 0 ELSE n - 1 + 1
  BY FS_Interval
<1>3. Cardinality(1 .. n) = n
  BY <1>2
<1>4. /\ IsFiniteSet({l} \X (1 .. n))
      /\ Cardinality({l} \X (1 .. n)) = Cardinality({l}) * Cardinality(1 .. n)
  BY <1>1, <1>2, FS_Product
<1> QED  BY <1>1, <1>3, <1>4

(* Another ACL adds its entries.                                           *)
LEMMA AddedTotal ==
    ASSUME NEW A, NEW ne, IsFiniteSet(Entries(A, ne)), NEW l, NEW n \in Nat,
           NEW nf, nf[l] = n, \A k \in A \ {l} : nf[k] = ne[k]
    PROVE  /\ IsFiniteSet(Entries(A \cup {l}, nf))
           /\ Cardinality(Entries(A \cup {l}, nf)) <= Cardinality(Entries(A, ne)) + n
<1> DEFINE S == Entries(A, ne)
           T == {l} \X (1 .. n)
<1>1. IsFiniteSet(T) /\ Cardinality(T) = n
  BY OneAclTotal
<1>2. Entries(A \cup {l}, nf) \subseteq S \cup T
  BY EntriesMember
<1> HIDE DEF S, T
<1>3. IsFiniteSet(S)
  BY DEF S
<1>4. /\ IsFiniteSet(S \cup T)
      /\ Cardinality(S \cup T) = Cardinality(S) + Cardinality(T) - Cardinality(S \cap T)
  BY <1>1, <1>3, FS_Union
<1>5. Cardinality(S \cap T) \in Nat /\ Cardinality(S) \in Nat
  BY <1>3, FS_Intersection, FS_CardinalityType
<1>6. /\ IsFiniteSet(Entries(A \cup {l}, nf))
      /\ Cardinality(Entries(A \cup {l}, nf)) <= Cardinality(S \cup T)
      /\ Cardinality(Entries(A \cup {l}, nf)) \in Nat /\ Cardinality(S \cup T) \in Nat
  BY <1>2, <1>4, FS_Subset, FS_CardinalityType
<1> QED  BY <1>1, <1>4, <1>5, <1>6 DEF S

(* ops_cls_pd_apply from fewer ACLs.  The uint16_t count is the number of  *)
(* entries as long as they are no more than MAX_ACE_IN_HASHMAP.            *)
LEMMA ApplyTotal ==
    ASSUME ClsTypeOK, NEW A \in SUBSET Lists, NEW B, NEW l \in Lists, NEW n \in Sizes,
           NEW b, NEW d, IsFiniteSet(Entries(A, num_entries)),
           DoApply(A, num_entries, B, l, n, b, d)
    PROVE  /\ IsFiniteSet(Entries(all_acls, num_entries)')
           /\ Cardinality(Entries(A, num_entries)) <= MaxAce => ClsTotal' <= MaxAce
<1> DEFINE fits == l \in A \/ acl_list_entries_fit_in_hashmap(A, num_entries, n)
           total == Cardinality(Entries(A, num_entries))
<1>1. all_acls' = IF fits THEN A \cup {l} ELSE A
  BY DEF DoApply
<1>2. num_entries' = [k \in Lists |-> IF k = l /\ l \notin A /\ fits THEN n
                                      ELSE IF k \in A THEN num_entries[k] ELSE 0]
  BY DEF DoApply
<1>3. n \in Nat /\ total \in Nat /\ MaxAce \in Nat /\ CountMod \in Nat /\ MaxAce < CountMod
  BY ClsAssumption, FS_CardinalityType
<1>4. \A k \in A : k # l \/ l \in A => num_entries'[k] = num_entries[k]
  BY <1>2
<1>5. l \notin A /\ fits => num_entries'[l] = n
  BY <1>2
<1>6. ClsTotal' = Cardinality(Entries(all_acls', num_entries'))
  BY DEF ClsTotal
<1> HIDE DEF fits
<1>7. CASE ~(l \notin A /\ fits)
  <2>1. all_acls' = A /\ \A k \in A : num_entries'[k] = num_entries[k]
    BY <1>1, <1>4, <1>7
  <2>2. /\ IsFiniteSet(Entries(A, num_entries'))
        /\ Cardinality(Entries(A, num_entries')) \in Nat
        /\ Cardinality(Entries(A, num_entries')) <= total
    BY <2>1, FewerTotal
  <2> QED  BY <1>3, <1>6, <2>1, <2>2
<1>8. CASE l \notin A /\ fits
  <2>1. all_acls' = A \cup {l} /\ num_entries'[l] = n
    BY <1>1, <1>5, <1>8
  <2>2. /\ IsFiniteSet(Entries(A \cup {l}, num_entries'))
        /\ Cardinality(Entries(A \cup {l}, num_entries')) <= total + n
    BY <1>3, <1>4, <2>1, AddedTotal
  <2>3. Cardinality(Entries(A \cup {l}, num_entries')) \in Nat
    BY <2>2, FS_CardinalityType
  <2>4. MaxAce - (total % CountMod) >= n
    BY <1>8 DEF fits, acl_list_entries_fit_in_hashmap, acl_get_current_ace_entries_count
  <2>5. ASSUME total <= MaxAce
        PROVE  total + n <= MaxAce
    <3> HIDE DEF total
    <3>1. total % CountMod = total
      BY <1>3, <2>5
    <3> QED  BY <1>3, <2>4, <2>5, <3>1
  <2> HIDE DEF total
  <2>6. total <= MaxAce => Cardinality(Entries(A \cup {l}, num_entries')) <= MaxAce
    BY <1>3, <2>2, <2>3, <2>5
  <2> QED  BY <1>6, <2>1, <2>2, <2>6 DEF total
<1> QED  BY <1>7, <1>8

AclEntriesFinite == IsFiniteSet(Entries(all_acls, num_entries))

(* Every handler but list_update keeps the entries within the capacity.    *)
LEMMA TotalStep ==
    ASSUME ClsTypeOK, AclEntriesFinite, CapacityHolds, [ClsNext]_clsVars
    PROVE  AclEntriesFinite' /\ CapacityHolds'
<1> DEFINE Kept == /\ AclEntriesFinite'
                   /\ ClsTotal <= MaxAce => ClsTotal' <= MaxAce
<1>1. ClsTotal \in Nat /\ MaxAce \in Nat
  BY ClsAssumption, FS_CardinalityType DEF ClsTotal, AclEntriesFinite
<1>2. ASSUME all_acls' \in SUBSET all_acls, \A k \in all_acls' : num_entries'[k] = num_entries[k]
      PROVE  Kept
  <2>1. /\ IsFiniteSet(Entries(all_acls', num_entries'))
        /\ Cardinality(Entries(all_acls', num_entries')) \in Nat
        /\ Cardinality(Entries(all_acls', num_entries')) <= ClsTotal
    BY <1>2, FewerTotal DEF AclEntriesFinite, ClsTotal
  <2> QED  BY <1>1, <2>1 DEF AclEntriesFinite, ClsTotal
<1>3. ASSUME NEW A \in SUBSET all_acls, NEW B, NEW l \in Lists, NEW n \in Sizes, NEW b, NEW d,
             DoApply(A, num_entries, B, l, n, b, d)
      PROVE  Kept
  <2>1. /\ IsFiniteSet(Entries(A, num_entries)) /\ A \in SUBSET Lists
        /\ Cardinality(Entries(A, num_entries)) \in Nat
        /\ Cardinality(Entries(A, num_entries)) <= ClsTotal
    BY <1>3, FewerTotal DEF AclEntriesFinite, ClsTotal, ClsTypeOK
  <2>2. /\ IsFiniteSet(Entries(all_acls, num_entries)')
        /\ Cardinality(Entries(A, num_entries)) <= MaxAce => ClsTotal' <= MaxAce
    BY <1>3, <2>1, ApplyTotal
  <2> QED  BY <1>1, <2>1, <2>2 DEF AclEntriesFinite
<1>4. ASSUME NEW l \in Lists, NEW n \in Sizes, NEW b, NEW d, ops_cls_pd_apply(l, n, b, d)
      PROVE  Kept
  BY <1>3, <1>4 DEF ops_cls_pd_apply
<1>5. ASSUME NEW l \in Lists, NEW n \in Sizes, NEW b, NEW d, NEW orig,
             ops_cls_pd_replace(orig, l, n, b, d)
      PROVE  Kept
  <2>1. PICK R : DoApply(RemainingAcls(bindings \ R, orig, members[b]),
                         num_entries, bindings \ R, l, n, b, d)
    BY <1>5 DEF ops_cls_pd_replace
  <2>2. RemainingAcls(bindings \ R, orig, members[b]) \in SUBSET all_acls
    BY DEF RemainingAcls
  <2> QED  BY <1>3, <2>1, <2>2
<1>6. ASSUME NEW l, NEW b, ops_cls_pd_remove(l, b)
      PROVE  Kept
  <2>1. PICK R : /\ all_acls' = RemainingAcls(bindings \ R, l, members[b])
                 /\ num_entries' = [k \in Lists |-> IF k \in all_acls' THEN num_entries[k] ELSE 0]
    BY <1>6 DEF ops_cls_pd_remove
  <2>2. all_acls' \in SUBSET all_acls
    BY <2>1 DEF RemainingAcls
  <2>3. \A k \in all_acls' : num_entries'[k] = num_entries[k]
    BY <2>1, <2>2 DEF ClsTypeOK
  <2> QED  BY <1>2, <2>2, <2>3
<1>7. ASSUME UNCHANGED <<all_acls, num_entries>>
      PROVE  Kept
  BY <1>2, <1>7
<1>8. ASSUME NEW l, NEW b, NEW p, NEW d,
             \/ ops_cls_pd_lag_update_add(l, b, p, d) \/ ops_cls_pd_lag_update_delete(l, b, p)
             \/ ops_cls_pd_statistics_get(l, b) \/ ops_cls_pd_statistics_clear(l, b)
      PROVE  Kept
  BY <1>7, <1>8 DEF ops_cls_pd_lag_update_add, ops_cls_pd_lag_update_delete,
                    ops_cls_pd_statistics_get, ops_cls_pd_statistics_clear
<1>9. ASSUME NEW b, NEW P, rebundle(b, P)
      PROVE  Kept
  BY <1>7, <1>9 DEF rebundle
<1>11. ASSUME NEW l \in Lists, NEW n \in Sizes, ops_cls_pd_list_update(l, n)
       PROVE  AclEntriesFinite'
  <2>1. all_acls' = all_acls \cup {l} /\ num_entries' = [num_entries EXCEPT ![l] = n]
    BY <1>11 DEF ops_cls_pd_list_update, acl_create_or_update_entry
  <2>2. num_entries'[l] = n /\ n \in Nat /\ \A k \in all_acls \ {l} : num_entries'[k] = num_entries[k]
    BY <2>1, ClsAssumption DEF ClsTypeOK
  <2>3. IsFiniteSet(Entries(all_acls \cup {l}, num_entries'))
    BY <2>2, AddedTotal DEF AclEntriesFinite
  <2> QED  BY <2>1, <2>3 DEF AclEntriesFinite
<1> HIDE DEF Kept
<1>13. CASE Handlers /\ overfilled' = (overfilled /\ ~(ClsTotal' <= MaxAce))
  <2>1. ASSUME NEW l \in Lists, NEW b \in ClsBundles, NEW p \in ClsPorts,
               \/ \E d \in Directions : ops_cls_pd_lag_update_add(l, b, p, d)
               \/ ops_cls_pd_lag_update_delete(l, b, p)
        PROVE  Kept
    BY <1>8, <2>1
  <2>2. ASSUME NEW l \in Lists, NEW b \in ClsBundles,
               ops_cls_pd_statistics_get(l, b) \/ ops_cls_pd_statistics_clear(l, b)
        PROVE  Kept
    BY <1>8, <2>2
  <2>3. Kept
    BY <1>4, <1>5, <1>6, <1>9, <1>13, <2>1, <2>2 DEF Handlers
  <2>4. AclEntriesFinite' /\ (ClsTotal <= MaxAce => ClsTotal' <= MaxAce)
    BY <2>3 DEF Kept
  <2> QED  BY <1>13, <2>4 DEF CapacityHolds
<1>14. CASE /\ \E l \in Lists, n \in Sizes : ops_cls_pd_list_update(l, n)
            /\ overfilled' = ~(ClsTotal' <= MaxAce)
  BY <1>11, <1>14 DEF CapacityHolds
<1>15. CASE UNCHANGED clsVars
  <2>1. UNCHANGED <<all_acls, num_entries, overfilled>>
    BY <1>15 DEF clsVars
  <2> QED  BY <2>1 DEF AclEntriesFinite, CapacityHolds, ClsTotal
<1> QED  BY <1>13, <1>14, <1>15 DEF ClsNext

(* For every set of lists and every number of entries: the ACLs are beyond *)
(* MAX_ACE_IN_HASHMAP only since a list_update, which does not look, took  *)
(* them there.  The check of apply and replace is sound though it adds the *)
(* entries in a uint16_t, because the sum never wraps before the limit is  *)
(* passed.                                                                 *)
THEOREM CapacityKept == ClsSpec => []CapacityHolds
<1>1. ClsInit => AclEntriesFinite /\ CapacityHolds
  <2> SUFFICES ASSUME ClsInit
               PROVE  AclEntriesFinite /\ CapacityHolds
    OBVIOUS
  <2>1. Entries(all_acls, num_entries) = {}
    BY DEF ClsInit, Entries
  <2>2. IsFiniteSet({}) /\ Cardinality({}) = 0
    BY FS_EmptySet
  <2>3. ClsTotal = 0
    BY <2>1, <2>2 DEF ClsTotal
  <2>4. ClsTotal <= MaxAce
    BY <2>3, ClsAssumption
  <2> QED  BY <2>1, <2>2, <2>4 DEF AclEntriesFinite, CapacityHolds
<1>2. ClsTypeOK /\ AclEntriesFinite /\ CapacityHolds /\ [ClsNext]_clsVars
      => AclEntriesFinite' /\ CapacityHolds'
  BY TotalStep
<1> QED  BY <1>1, <1>2, ClsTypeCorrect, PTL DEF ClsSpec
=============================================================================
