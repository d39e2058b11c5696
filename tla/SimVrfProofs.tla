---------------------------- MODULE SimVrfProofs ----------------------------
(***************************************************************************)
(* The threads that install and delete the L3 statistics rules of the      *)
(* ports of a VRF: proofs for every set of interfaces, every number of     *)
(* rules and threads, and every order in which the threads run.            *)
(***************************************************************************)
EXTENDS SimVrf, NetdevL3Poll, SimBundleProofs, FiniteSetTheorems, SequenceTheorems,
        WellFoundedInduction

-----------------------------------------------------------------------------
(* The sequence of threads of one netdev                                   *)

(* A thread goes on: its place changes, the others are left alone.         *)
LEMMA AtSet ==
    ASSUME NEW q \in Seq(Thread), NEW i \in DOMAIN q, NEW k \in 0 .. NRules + 1
    PROVE  LET r == [q EXCEPT ![i].at = k]
           IN  /\ r \in Seq(Thread) /\ DOMAIN r = DOMAIN q /\ Len(r) = Len(q)
               /\ r[i].op = q[i].op /\ r[i].at = k
               /\ \A j \in DOMAIN q : j # i => r[j] = q[j]
<1> DEFINE t == [q[i] EXCEPT !.at = k]
           r == [q EXCEPT ![i] = t]
<1>1. q[i] \in Thread
  BY ElementOfSeq
<1>2. t \in Thread /\ t.op = q[i].op /\ t.at = k
  BY <1>1 DEF Thread
<1> HIDE DEF t
<1>3. r \in Seq(Thread) /\ Len(r) = Len(q) /\ \A j \in 1 .. Len(q) : r[j] = IF i = j THEN t ELSE q[j]
  BY <1>2, ExceptSeq
<1>4. DOMAIN r = DOMAIN q /\ DOMAIN q = 1 .. Len(q)
  BY <1>3, LenProperties
<1> QED  BY <1>2, <1>3, <1>4 DEF t

(* One element leaves a sequence: those behind it move up.                 *)
LEMMA WithoutFacts ==
    ASSUME NEW S, NEW q \in Seq(S), NEW i \in DOMAIN q
    PROVE  /\ Without(q, i) \in Seq(S)
           /\ Len(Without(q, i)) = Len(q) - 1
           /\ DOMAIN Without(q, i) = 1 .. Len(q) - 1
           /\ \A j \in 1 .. Len(q) - 1 :
                 Without(q, i)[j] = IF j < i THEN q[j] ELSE q[j + 1]
<1> DEFINE a == SubSeq(q, 1, i - 1)
           b == SubSeq(q, i + 1, Len(q))
<1>1. Len(q) \in Nat /\ DOMAIN q = 1 .. Len(q) /\ i \in 1 .. Len(q)
  BY LenProperties
<1>2. a \in Seq(S) /\ Len(a) = i - 1 /\ \A j \in 1 .. i - 1 : a[j] = q[j]
  BY <1>1, SubSeqProperties
<1>3. /\ b \in Seq(S) /\ Len(b) = Len(q) - i
      /\ \A j \in 1 .. Len(q) - i : b[j] = q[i + j]
  BY <1>1, SubSeqProperties
<1> HIDE DEF a, b
<1>4. /\ a \o b \in Seq(S) /\ Len(a \o b) = Len(a) + Len(b)
      /\ \A j \in 1 .. Len(a) + Len(b) : (a \o b)[j] = IF j <= Len(a) THEN a[j] ELSE b[j - Len(a)]
  BY <1>2, <1>3, ConcatProperties
<1>5. Len(a \o b) = Len(q) - 1 /\ DOMAIN (a \o b) = 1 .. Len(q) - 1
  <2>1. Len(a \o b) = Len(q) - 1
    BY <1>1, <1>2, <1>3, <1>4
  <2>2. DOMAIN (a \o b) = 1 .. Len(a \o b)
    BY <1>4, LenProperties
  <2> QED  BY <2>1, <2>2
<1>6. ASSUME NEW j \in 1 .. Len(q) - 1
      PROVE  (a \o b)[j] = IF j < i THEN q[j] ELSE q[j + 1]
  <2>1. CASE j < i
    BY <1>1, <1>2, <1>3, <1>4, <2>1
  <2>2. CASE ~(j < i)
    <3>1. j - (i - 1) \in 1 .. Len(q) - i /\ i + (j - (i - 1)) = j + 1
      BY <1>1, <2>2
    <3>2. Len(a) = i - 1 /\ j \in 1 .. Len(a) + Len(b) /\ ~(j <= Len(a))
      BY <1>1, <1>2, <1>3, <2>2
    <3>3. (a \o b)[j] = b[j - (i - 1)]
      BY <1>4, <3>2
    <3> QED  BY <1>3, <2>2, <3>1, <3>3
  <2> QED  BY <2>1, <2>2
<1> QED  BY <1>4, <1>5, <1>6 DEF Without, a, b

(* New threads come last, and have not begun.                              *)
LEMMA StartedFacts ==
    ASSUME NEW q \in Seq(Thread), NEW new \in Seq(Ops)
    PROVE  LET r == q \o [k \in 1 .. Len(new) |-> [op |-> new[k], at |-> 0]]
           IN  /\ r \in Seq(Thread) /\ Len(r) = Len(q) + Len(new)
               /\ DOMAIN r = 1 .. Len(q) + Len(new)
               /\ \A j \in 1 .. Len(q) : r[j] = q[j]
               /\ \A j \in 1 .. Len(new) : r[Len(q) + j] = [op |-> new[j], at |-> 0]
<1> DEFINE m == [k \in 1 .. Len(new) |-> [op |-> new[k], at |-> 0]]
<1>1. Len(q) \in Nat /\ Len(new) \in Nat
  BY LenProperties
<1>2. \A k \in 1 .. Len(new) : [op |-> new[k], at |-> 0] \in Thread
  BY ElementOfSeq, L3Assumption DEF Thread
<1>3. m \in Seq(Thread) /\ Len(m) = Len(new)
  BY <1>1, <1>2, IsASeq
<1>4. \A j \in 1 .. Len(new) : m[j] = [op |-> new[j], at |-> 0]
  OBVIOUS
<1> HIDE DEF m
<1>5. /\ q \o m \in Seq(Thread) /\ Len(q \o m) = Len(q) + Len(m)
      /\ \A j \in 1 .. Len(q) + Len(m) : (q \o m)[j] = IF j <= Len(q) THEN q[j] ELSE m[j - Len(q)]
  BY <1>3, ConcatProperties
<1>6. DOMAIN (q \o m) = 1 .. Len(q) + Len(new)
  BY <1>3, <1>5, LenProperties
<1>7. ASSUME NEW j \in 1 .. Len(q)
      PROVE  (q \o m)[j] = q[j]
  BY <1>1, <1>3, <1>5
<1>8. ASSUME NEW j \in 1 .. Len(new)
      PROVE  (q \o m)[Len(q) + j] = [op |-> new[j], at |-> 0]
  BY <1>1, <1>3, <1>4, <1>5
<1> QED  BY <1>3, <1>5, <1>6, <1>7, <1>8 DEF m

-----------------------------------------------------------------------------
(* The sequence of rules of one netdev                                     *)

(* The rules from a to b, in order.                                        *)
Run(a, b) == [k \in 1 .. b - a + 1 |-> a + k - 1]

LEMMA RunFacts ==
    ASSUME NEW a \in Nat, NEW b \in Nat, a <= b + 1
    PROVE  /\ Run(a, b) \in Seq(Nat) /\ Len(Run(a, b)) = b - a + 1
           /\ DOMAIN Run(a, b) = 1 .. b - a + 1
           /\ \A k \in 1 .. b - a + 1 : Run(a, b)[k] = a + k - 1
           /\ \A k \in Nat : Has(Run(a, b), k) <=> k \in a .. b
           /\ a = b + 1 => Run(a, b) = <<>>
<1> DEFINE n == b - a + 1
<1>1. n \in Nat
  OBVIOUS
<1>2. \A k \in 1 .. n : a + k - 1 \in Nat
  BY <1>1
<1>3. Run(a, b) = [k \in 1 .. n |-> a + k - 1]
  BY DEF Run
<1> HIDE DEF n
<1>4. Run(a, b) \in Seq(Nat) /\ Len(Run(a, b)) = n /\ DOMAIN Run(a, b) = 1 .. n
      /\ \A k \in 1 .. n : Run(a, b)[k] = a + k - 1
  <2>1. [k \in 1 .. n |-> a + k - 1] \in Seq(Nat) /\ Len([k \in 1 .. n |-> a + k - 1]) = n
    BY <1>1, <1>2, IsASeq
  <2> QED  BY <1>3, <2>1
<1>5. ASSUME NEW k \in Nat
      PROVE  Has(Run(a, b), k) <=> k \in a .. b
  <2>1. k \in a .. b => k - a + 1 \in 1 .. n /\ a + (k - a + 1) - 1 = k
    BY DEF n
  <2>2. \A i \in 1 .. n : a + i - 1 \in a .. b
    BY DEF n
  <2> HIDE DEF n
  <2>3. k \in a .. b => Has(Run(a, b), k)
    BY <1>4, <2>1 DEF Has
  <2> QED  BY <1>4, <2>2, <2>3 DEF Has
<1>6. a = b + 1 => Run(a, b) = <<>>
  <2> SUFFICES ASSUME a = b + 1 PROVE Run(a, b) = <<>>
    OBVIOUS
  <2>1. n = 0
    BY DEF n
  <2> QED  BY <1>4, <2>1, EmptySeq
<1> QED  BY <1>4, <1>5, <1>6 DEF n

LEMMA RunAdded ==
    ASSUME NEW a \in Nat, NEW b \in Nat, a <= b + 1
    PROVE  RuleAdded(Run(a, b), b + 1) = Run(a, b + 1)
<1> DEFINE n == b - a + 1
           q == Run(a, b)
           w == Append(q, b + 1)
<1>1. n \in Nat /\ (b + 1) - a + 1 = n + 1 /\ a <= (b + 1) + 1 /\ b + 1 \in Nat
  OBVIOUS
<1>2. /\ q \in Seq(Nat) /\ Len(q) = n /\ \A k \in 1 .. n : q[k] = a + k - 1
  BY RunFacts
<1>3. /\ Run(a, b + 1) \in Seq(Nat) /\ Len(Run(a, b + 1)) = n + 1
      /\ \A k \in 1 .. n + 1 : Run(a, b + 1)[k] = a + k - 1
  <2>1. /\ Run(a, b + 1) \in Seq(Nat) /\ Len(Run(a, b + 1)) = (b + 1) - a + 1
        /\ \A k \in 1 .. (b + 1) - a + 1 : Run(a, b + 1)[k] = a + k - 1
    BY <1>1, RunFacts
  <2> QED  BY <1>1, <2>1
<1>4. a + (n + 1) - 1 = b + 1
  OBVIOUS
<1> HIDE DEF n, q
<1>5. /\ w \in Seq(Nat) /\ Len(w) = n + 1
      /\ \A k \in 1 .. n : w[k] = q[k]
      /\ w[n + 1] = b + 1
  BY <1>1, <1>2, AppendProperties
<1>6. \A k \in 1 .. n + 1 : w[k] = a + k - 1
  BY <1>1, <1>2, <1>4, <1>5
<1> HIDE DEF w
<1>7. w = Run(a, b + 1)
  <2>1. Len(w) = Len(Run(a, b + 1)) /\ \A k \in 1 .. Len(w) : w[k] = Run(a, b + 1)[k]
    BY <1>3, <1>5, <1>6
  <2> QED  BY <1>3, <1>5, <2>1, SeqEqual
<1> QED  BY <1>7 DEF RuleAdded, w, q

LEMMA RunDeleted ==
    ASSUME NEW a \in Nat, NEW b \in Nat, a <= b
    PROVE  RuleDeleted(Run(a, b), a) = Run(a + 1, b)
<1> DEFINE n == b - a + 1
           q == Run(a, b)
           P(i) == i \in DOMAIN q /\ q[i] = a /\ \A j \in 1 .. i - 1 : q[j] # a
<1>1. n \in Nat /\ n > 0 /\ b - (a + 1) + 1 = n - 1 /\ a + 1 <= b + 1 /\ a + 1 \in Nat
      /\ a + 1 - 1 = a /\ 1 .. 1 - 1 = {}
  OBVIOUS
<1>2. /\ q \in Seq(Nat) /\ Len(q) = n /\ DOMAIN q = 1 .. n
      /\ \A k \in 1 .. n : q[k] = a + k - 1
      /\ Has(q, a)
  <2>1. a <= b + 1 /\ a \in a .. b
    OBVIOUS
  <2> QED  BY <2>1, RunFacts
<1>3. /\ Run(a + 1, b) \in Seq(Nat) /\ Len(Run(a + 1, b)) = n - 1
      /\ \A k \in 1 .. n - 1 : Run(a + 1, b)[k] = (a + 1) + k - 1
  <2>1. /\ Run(a + 1, b) \in Seq(Nat) /\ Len(Run(a + 1, b)) = b - (a + 1) + 1
        /\ \A k \in 1 .. b - (a + 1) + 1 : Run(a + 1, b)[k] = (a + 1) + k - 1
    BY <1>1, RunFacts
  <2> QED  BY <1>1, <2>1
<1> HIDE DEF n, q
<1>4. P(1) /\ \A i : P(i) => i = 1
  <2>1. 1 \in 1 .. n /\ q[1] = a
    BY <1>1, <1>2
  <2>2. \A i \in 1 .. n : a + i - 1 = a => i = 1
    BY <1>1
  <2> QED  BY <1>1, <1>2, <2>1, <2>2
<1>5. (CHOOSE i \in DOMAIN q : q[i] = a /\ \A j \in 1 .. i - 1 : q[j] # a) = 1
  BY <1>4
<1>6. RuleDeleted(q, a) = Without(q, 1)
  BY <1>2, <1>5 DEF RuleDeleted
<1>7. /\ Without(q, 1) \in Seq(Nat) /\ Len(Without(q, 1)) = n - 1
      /\ \A j \in 1 .. n - 1 : Without(q, 1)[j] = IF j < 1 THEN q[j] ELSE q[j + 1]
  <2>1. 1 \in DOMAIN q
    BY <1>4
  <2> QED  BY <1>2, <2>1, WithoutFacts
<1>8. \A j \in 1 .. n - 1 : Without(q, 1)[j] = (a + 1) + j - 1
  <2> SUFFICES ASSUME NEW j \in 1 .. n - 1 PROVE Without(q, 1)[j] = (a + 1) + j - 1
    OBVIOUS
  <2>1. j + 1 \in 1 .. n /\ ~(j < 1) /\ a + (j + 1) - 1 = (a + 1) + j - 1
    BY <1>1
  <2> QED  BY <1>2, <1>7, <2>1
<1>9. Without(q, 1) = Run(a + 1, b)
  <2>1. /\ Len(Without(q, 1)) = Len(Run(a + 1, b))
        /\ \A k \in 1 .. Len(Without(q, 1)) : Without(q, 1)[k] = Run(a + 1, b)[k]
    BY <1>3, <1>7, <1>8
  <2> QED  BY <1>3, <1>7, <2>1, SeqEqual
<1> QED  BY <1>6, <1>9 DEF q

(* A set of numbers has a smallest one.                                    *)
LEMMA SmallestNumber ==
    ASSUME NEW S, S \subseteq Nat, S # {}
    PROVE  \E n \in S : \A m \in S : n <= m
<1> DEFINE R == OpToRel(<, Nat)
<1>1. IsWellFoundedOn(R, Nat)
  BY NatLessThanWellFounded
<1>2. \A x, y \in Nat : x < y => <<x, y>> \in R
  BY DEF OpToRel
<1> HIDE DEF R
<1>3. PICK n \in S : \A m \in S : ~(<<m, n>> \in R)
  BY <1>1, WFMin
<1>4. ASSUME NEW m \in S PROVE n <= m
  <2>1. m \in Nat /\ n \in Nat
    OBVIOUS
  <2>2. ~(m < n)
    BY <1>2, <1>3, <2>1
  <2> QED  BY <2>1, <2>2
<1> QED  BY <1>4

(* A command keeps the rules a sequence of rules.                          *)
LEMMA EditedType ==
    ASSUME NEW q \in Seq(1 .. NRules), NEW k \in 1 .. NRules
    PROVE  RuleAdded(q, k) \in Seq(1 .. NRules) /\ RuleDeleted(q, k) \in Seq(1 .. NRules)
           /\ RuleAdded(q, k) # <<>> /\ RuleDeleted(<<>>, k) = <<>>
<1>1. RuleAdded(q, k) \in Seq(1 .. NRules) /\ Len(RuleAdded(q, k)) = Len(q) + 1 /\ Len(q) \in Nat
  BY AppendProperties, LenProperties DEF RuleAdded
<1>2. RuleAdded(q, k) # <<>>
  BY <1>1, EmptySeq
<1>3. RuleDeleted(q, k) \in Seq(1 .. NRules)
  <2> DEFINE P(i) == q[i] = k /\ \A j \in 1 .. i - 1 : q[j] # k
             c == CHOOSE i \in DOMAIN q : P(i)
  <2>1. CASE ~Has(q, k)
    BY <2>1 DEF RuleDeleted
  <2>2. CASE Has(q, k)
    <3>1. \E i \in DOMAIN q : P(i)
      <4> DEFINE S == {i \in DOMAIN q : q[i] = k}
      <4>1. S # {} /\ S \subseteq Nat
        BY <2>2, LenProperties DEF Has
      <4> HIDE DEF S
      <4>2. PICK n \in S : \A m \in S : n <= m
        BY <4>1, SmallestNumber
      <4>3. n \in DOMAIN q /\ q[n] = k /\ DOMAIN q = 1 .. Len(q) /\ Len(q) \in Nat
        BY LenProperties DEF S
      <4>4. ASSUME NEW j \in 1 .. n - 1 PROVE q[j] # k
        <5>1. j \in DOMAIN q /\ ~(n <= j)
          BY <4>3
        <5> QED  BY <4>2, <5>1 DEF S
      <4> QED  BY <4>3, <4>4
    <3>2. c \in DOMAIN q
      BY <3>1
    <3>3. RuleDeleted(q, k) = Without(q, c)
      BY <2>2 DEF RuleDeleted
    <3> QED  BY <3>2, <3>3, WithoutFacts
  <2> QED  BY <2>1, <2>2
<1>4. RuleDeleted(<<>>, k) = <<>>
  BY DEF RuleDeleted, Has
<1> QED  BY <1>1, <1>2, <1>3, <1>4

(* A create thread that finds the rules before its place, or a delete      *)
(* thread that finds those from its place on, has a command to run.        *)
LEMMA ActsInOrder ==
    ASSUME NEW t \in Thread, t.at \in 1 .. NRules, NEW q,
           \/ t.op = "create" /\ q = Run(1, t.at - 1)
           \/ t.op = "delete" /\ q = Run(t.at, NRules)
    PROVE  Acts(q, t)
<1> DEFINE k == t.at
<1>1. NRules \in Nat /\ k \in Nat /\ k - 1 \in Nat /\ 1 <= (k - 1) + 1 /\ k <= NRules + 1
      /\ k + 1 \in Nat
  BY L3Assumption
<1>2. CASE t.op = "create"
  <2>1. ~(k \in 1 .. k - 1)
    BY <1>1
  <2>2. ~Has(q, k)
    <3>1. q = Run(1, k - 1) /\ (Has(Run(1, k - 1), k) <=> k \in 1 .. k - 1)
      BY <1>1, <1>2, RunFacts
    <3> QED  BY <2>1, <3>1
  <2> QED  BY <1>2, <2>2 DEF Acts, netdev_sim_l3stats_xtables_rule_installed
<1>3. CASE t.op = "delete"
  <2>1. k \in k .. NRules /\ (k \in Pairs => k + 1 \in k .. NRules)
    BY <1>1, L3Assumption
  <2>2. Has(q, k) /\ (k \in Pairs => Has(q, k + 1))
    <3>1. q = Run(k, NRules) /\ \A j \in Nat : Has(Run(k, NRules), j) <=> j \in k .. NRules
      BY <1>1, <1>3, RunFacts
    <3> QED  BY <1>1, <2>1, <3>1
  <2> QED  BY <1>3, <2>2 DEF Acts, netdev_sim_l3stats_xtables_rule_installed
<1> QED  BY <1>2, <1>3

-----------------------------------------------------------------------------
(* Steps                                                                   *)

Closes == \E p \in Ports : CloseNetdev(p)

(* What a handler starts, for one port.                                    *)
LEMMA CallsType ==
    ASSUME NEW p
    PROVE  /\ XtablesCalls(p) \in Seq(Ops)
           /\ Len(XtablesCalls(p)) = (IF Left(p) THEN 1 ELSE 0) + (IF Joined(p) THEN 1 ELSE 0)
           /\ Left(p) => XtablesCalls(p)[1] = "delete"
           /\ Joined(p) => XtablesCalls(p)[Len(XtablesCalls(p))] = "create"
<1> USE DEF XtablesCalls, Ops
<1>1. CASE Left(p) /\ Joined(p)
  <2> DEFINE a == <<"delete">>
             b == <<"create">>
  <2>1. XtablesCalls(p) = a \o b
    BY <1>1
  <2>2. /\ a \in Seq(Ops) /\ Len(a) = 1 /\ a[1] = "delete"
        /\ b \in Seq(Ops) /\ Len(b) = 1 /\ b[1] = "create"
    OBVIOUS
  <2> HIDE DEF XtablesCalls, a, b, Ops
  <2>3. /\ a \o b \in Seq(Ops) /\ Len(a \o b) = Len(a) + Len(b)
        /\ \A i \in 1 .. Len(a) + Len(b) :
              (a \o b)[i] = IF i <= Len(a) THEN a[i] ELSE b[i - Len(a)]
    BY <2>2, ConcatProperties
  <2>4. Len(a \o b) = 2 /\ (a \o b)[1] = "delete" /\ (a \o b)[2] = "create"
    BY <2>2, <2>3
  <2> QED  BY <1>1, <2>1, <2>3, <2>4
<1>2. CASE Left(p) /\ ~Joined(p)
  <2>1. XtablesCalls(p) = <<"delete">>
    BY <1>2
  <2> HIDE DEF XtablesCalls
  <2> QED  BY <1>2, <2>1
<1>3. CASE ~Left(p) /\ Joined(p)
  <2>1. XtablesCalls(p) = <<"create">>
    BY <1>3
  <2> HIDE DEF XtablesCalls
  <2> QED  BY <1>3, <2>1
<1>4. CASE ~Left(p) /\ ~Joined(p)
  <2>1. XtablesCalls(p) = <<>>
    BY <1>4
  <2> HIDE DEF XtablesCalls
  <2> QED  BY <1>4, <2>1
<1> QED  BY <1>1, <1>2, <1>3, <1>4

(* The threads of d after a handler: some more, not begun.                 *)
LEMMA HandlerThreads ==
    ASSUME L3TypeOK, VrfHandler, NEW d \in Netdevs
    PROVE  LET n == Len(threads[d])
               k == Len(XtablesCalls(d))
           IN  /\ n \in Nat /\ k \in Nat /\ DOMAIN threads[d] = 1 .. n
               /\ threads'[d] \in Seq(Thread) /\ Len(threads'[d]) = n + k
               /\ DOMAIN threads'[d] = 1 .. n + k
               /\ \A j \in 1 .. n : threads'[d][j] = threads[d][j]
               /\ \A j \in 1 .. k : threads'[d][n + j] = [op |-> XtablesCalls(d)[j], at |-> 0]
<1>1. threads[d] \in Seq(Thread) /\ d \in Ports
  BY VrfAssumption DEF L3TypeOK
<1>2. threads'[d] = threads[d] \o [i \in 1 .. Len(XtablesCalls(d)) |->
                                     [op |-> XtablesCalls(d)[i], at |-> 0]]
  BY <1>1 DEF VrfHandler, StartThreads
<1>3. XtablesCalls(d) \in Seq(Ops)
  BY CallsType
<1>4. Len(threads[d]) \in Nat /\ DOMAIN threads[d] = 1 .. Len(threads[d])
      /\ Len(XtablesCalls(d)) \in Nat
  BY <1>1, <1>3, LenProperties
<1> QED  BY <1>1, <1>2, <1>3, <1>4, StartedFacts

(* Where a thread goes on when it skips a rule or a pair.                  *)
Skipped(k) == k + IF k \in Pairs THEN 2 ELSE 1

LEMMA SkippedType ==
    ASSUME NEW k \in 1 .. NRules
    PROVE  Skipped(k) \in 0 .. NRules + 1 /\ Skipped(k) \in 1 .. NRules + 1
BY L3Assumption DEF Skipped

(* Every step of a thread keeps the types.                                 *)
LEMMA ThreadStepType ==
    ASSUME L3TypeOK, NEW d \in Netdevs, ThreadStep(d)
    PROVE  L3TypeOK'
<1>1. ASSUME NEW i \in DOMAIN threads[d], NEW k \in 0 .. NRules + 1
      PROVE  [threads EXCEPT ![d][i].at = k] \in [Netdevs -> Seq(Thread)]
  <2>1. [threads[d] EXCEPT ![i].at = k] \in Seq(Thread)
    BY <1>1, AtSet DEF L3TypeOK
  <2> QED  BY <2>1 DEF L3TypeOK
<1>2. ASSUME NEW i \in DOMAIN threads[d]
      PROVE  [threads EXCEPT ![d] = Without(@, i)] \in [Netdevs -> Seq(Thread)]
  BY <1>2, WithoutFacts DEF L3TypeOK
<1>3. 1 \in 0 .. NRules + 1
  BY L3Assumption
<1>4. ASSUME NEW i, LockAndWork(d, i)
      PROVE  L3TypeOK'
  <2>1. threads' \in [Netdevs -> Seq(Thread)]
    BY <1>1, <1>3, <1>4 DEF LockAndWork, Takes
  <2> QED  BY <1>4, <2>1 DEF LockAndWork, Takes, L3TypeOK
<1>5. ASSUME NEW i, LockAndReturn(d, i)
      PROVE  L3TypeOK'
  <2>1. threads' \in [Netdevs -> Seq(Thread)]
    BY <1>2, <1>5 DEF LockAndReturn, Takes
  <2> QED  BY <1>5, <2>1 DEF LockAndReturn, Takes, L3TypeOK
<1>6. ASSUME NEW i, EditRule(d, i)
      PROVE  L3TypeOK'
  <2>1. /\ i \in DOMAIN threads[d] /\ threads[d][i].at \in 1 .. NRules
        /\ threads' = [threads EXCEPT ![d][i].at = threads[d][i].at + 1]
        /\ UNCHANGED <<alive, started, l3_stats_mutex, l3_stats_enabled, overtaken>>
    BY <1>6 DEF EditRule
  <2>2. threads[d][i].at + 1 \in 0 .. NRules + 1
    BY <2>1, L3Assumption
  <2>3. xtables' \in [Netdevs -> Seq(1 .. NRules)]
    <3>1. /\ RuleAdded(xtables[d], threads[d][i].at) \in Seq(1 .. NRules)
          /\ RuleDeleted(xtables[d], threads[d][i].at) \in Seq(1 .. NRules)
      BY <2>1, EditedType DEF L3TypeOK
    <3> QED  BY <1>6, <2>1, <3>1 DEF EditRule, L3TypeOK
  <2>4. threads' \in [Netdevs -> Seq(Thread)]
    BY <1>1, <2>1, <2>2
  <2> QED  BY <2>1, <2>3, <2>4 DEF L3TypeOK
<1>8. ASSUME NEW i, SkipRule(d, i)
      PROVE  L3TypeOK'
  <2>1. /\ i \in DOMAIN threads[d]
        /\ threads' = [threads EXCEPT ![d][i].at = Skipped(threads[d][i].at)]
        /\ Skipped(threads[d][i].at) \in 0 .. NRules + 1
        /\ UNCHANGED <<alive, started, l3_stats_mutex, l3_stats_enabled, xtables, overtaken>>
    BY <1>8, SkippedType DEF SkipRule, Skipped
  <2> QED  BY <1>1, <2>1 DEF L3TypeOK
<1>7. ASSUME NEW i, Finish(d, i)
      PROVE  L3TypeOK'
  <2>1. threads' \in [Netdevs -> Seq(Thread)]
    BY <1>2, <1>7 DEF Finish
  <2> QED  BY <1>7, <2>1 DEF Finish, L3TypeOK
<1> QED  BY <1>4, <1>5, <1>6, <1>7, <1>8 DEF ThreadStep

(* Every step of a VRF keeps the types.                                    *)
LEMMA L3TypeStep ==
    ASSUME L3TypeOK, [VrfNext \/ Closes]_allvars
    PROVE  L3TypeOK'
<1>1. CASE VrfHandler
  <2>1. /\ UNCHANGED <<alive, l3_stats_mutex, l3_stats_enabled, xtables, overtaken>>
        /\ DOMAIN threads' = Netdevs /\ threads' = [d \in Netdevs |-> threads'[d]]
    BY <1>1 DEF VrfHandler, StartThreads
  <2>2. \A d \in Netdevs : threads'[d] \in Seq(Thread)
    BY <1>1, HandlerThreads
  <2>3. started' \in [Netdevs -> 0 .. MaxThreads]
    <3> DEFINE new == [p \in Ports |-> XtablesCalls(p)]
    <3>1. StartThreads(new)
      BY <1>1 DEF VrfHandler
    <3>2. \A d \in Netdevs : Len(new[d]) \in Nat
      BY CallsType, LenProperties, VrfAssumption
    <3> HIDE DEF new
    <3>3. \A d \in Netdevs : started[d] + Len(new[d]) \in 0 .. MaxThreads
      BY <3>1, <3>2, L3Assumption DEF StartThreads, L3TypeOK
    <3> QED  BY <3>1, <3>3 DEF StartThreads
  <2>4. threads' \in [Netdevs -> Seq(Thread)]
    BY <2>1, <2>2
  <2> QED  BY <2>1, <2>3, <2>4 DEF L3TypeOK
<1>2. ASSUME NEW d \in Netdevs, Work(d)
      PROVE  L3TypeOK'
  BY <1>2, ThreadStepType DEF Work
<1>3. CASE Closes
  BY <1>3 DEF Closes, CloseNetdev, netdev_sim_dealloc, L3TypeOK
<1>4. CASE UNCHANGED allvars
  BY <1>4 DEF allvars, l3vars, L3TypeOK
<1> QED  BY <1>1, <1>2, <1>3, <1>4, VrfAssumption DEF VrfNext

-----------------------------------------------------------------------------
(* The mutex and the rules                                                 *)

(* At most one thread of d is past the lock.  While one is, the mutex is   *)
(* locked, the flag is the one it found, and the rules are those its loop  *)
(* has come to; while none is, the rules are those of the flag.            *)
OneHolder(d) == \A i, j \in Holders(d) : i = j

HolderAt(d) ==
    \A i \in Holders(d) :
        LET t == threads[d][i]
        IN  /\ d \in l3_stats_mutex
            /\ t.op = "create" => d \notin l3_stats_enabled /\ xtables[d] = Run(1, t.at - 1)
            /\ t.op = "delete" => d \in l3_stats_enabled /\ xtables[d] = Run(t.at, NRules)

IdleRules(d) ==
    Holders(d) = {} => xtables[d] = IF d \in l3_stats_enabled THEN Run(1, NRules) ELSE <<>>

Locked(d)  == OneHolder(d) /\ HolderAt(d) /\ IdleRules(d)
LockedInv  == \A d \in Netdevs : Locked(d)

(* A step that leaves d's holder, mutex, flag and rules alone.             *)
LEMMA SameLocked ==
    ASSUME NEW d \in Netdevs, Locked(d), Holders(d)' = Holders(d),
           \A i \in Holders(d) : threads'[d][i] = threads[d][i],
           d \in l3_stats_mutex => d \in l3_stats_mutex',
           d \in l3_stats_enabled' <=> d \in l3_stats_enabled,
           xtables'[d] = xtables[d]
    PROVE  Locked(d)'
<1>1. OneHolder(d)'
  BY DEF Locked, OneHolder
<1>2. HolderAt(d)'
  BY DEF Locked, HolderAt
<1>3. IdleRules(d)'
  BY DEF Locked, IdleRules
<1> QED  BY <1>1, <1>2, <1>3 DEF Locked

LEMMA ThreadType ==
    ASSUME L3TypeOK, NEW d \in Netdevs, NEW i \in DOMAIN threads[d]
    PROVE  /\ threads[d] \in Seq(Thread) /\ DOMAIN threads[d] = 1 .. Len(threads[d])
           /\ Len(threads[d]) \in Nat
           /\ threads[d][i].op \in Ops /\ threads[d][i].at \in 0 .. NRules + 1
<1>1. threads[d] \in Seq(Thread)
  BY DEF L3TypeOK
<1>2. DOMAIN threads[d] = 1 .. Len(threads[d]) /\ Len(threads[d]) \in Nat
  BY <1>1, LenProperties
<1>3. threads[d][i] \in Thread
  BY <1>1, <1>2, ElementOfSeq
<1> QED  BY <1>1, <1>2, <1>3 DEF Thread

(* The thread i of d goes on to the place k.                               *)
GoesOn(d, i, k) == threads' = [threads EXCEPT ![d][i].at = k]

LEMMA ThreadGoesOn ==
    ASSUME L3TypeOK, NEW d \in Netdevs, NEW i \in DOMAIN threads[d],
           NEW k \in 1 .. NRules + 1, GoesOn(d, i, k)
    PROVE  /\ DOMAIN threads'[d] = DOMAIN threads[d] /\ Len(threads'[d]) = Len(threads[d])
           /\ threads'[d][i].at = k
           /\ \A j \in DOMAIN threads[d] : threads'[d][j].op = threads[d][j].op
           /\ \A j \in DOMAIN threads[d] : j # i => threads'[d][j] = threads[d][j]
           /\ Holders(d)' = Holders(d) \cup {i}
<1>1. threads[d] \in Seq(Thread) /\ k \in 0 .. NRules + 1 /\ k > 0
  BY L3Assumption DEF L3TypeOK
<1>2. threads'[d] = [threads[d] EXCEPT ![i].at = k]
  BY DEF GoesOn, L3TypeOK
<1>3. /\ DOMAIN threads'[d] = DOMAIN threads[d] /\ Len(threads'[d]) = Len(threads[d])
      /\ threads'[d][i].op = threads[d][i].op /\ threads'[d][i].at = k
      /\ \A j \in DOMAIN threads[d] : j # i => threads'[d][j] = threads[d][j]
  BY <1>1, <1>2, AtSet
<1>4. Holders(d)' = Holders(d) \cup {i}
  BY <1>1, <1>3 DEF Holders
<1> QED  BY <1>3, <1>4

(* The thread i of d ends.                                                 *)
LEMMA ThreadEnds ==
    ASSUME L3TypeOK, NEW d \in Netdevs, NEW i \in DOMAIN threads[d],
           threads' = [threads EXCEPT ![d] = Without(@, i)],
           Holders(d) \subseteq {i}
    PROVE  /\ Len(threads'[d]) = Len(threads[d]) - 1
           /\ DOMAIN threads'[d] = 1 .. Len(threads[d]) - 1
           /\ \A j \in 1 .. Len(threads[d]) - 1 :
                 threads'[d][j] = IF j < i THEN threads[d][j] ELSE threads[d][j + 1]
           /\ Holders(d)' = {}
<1>1. threads[d] \in Seq(Thread) /\ threads'[d] = Without(threads[d], i)
  BY DEF L3TypeOK
<1>2. DOMAIN threads[d] = 1 .. Len(threads[d]) /\ Len(threads[d]) \in Nat /\ i \in Nat
  BY ThreadType
<1>3. /\ Len(threads'[d]) = Len(threads[d]) - 1
      /\ DOMAIN threads'[d] = 1 .. Len(threads[d]) - 1
      /\ \A j \in 1 .. Len(threads[d]) - 1 :
            threads'[d][j] = IF j < i THEN threads[d][j] ELSE threads[d][j + 1]
  BY <1>1, WithoutFacts
<1>4. ASSUME NEW j \in DOMAIN threads'[d], threads'[d][j].at > 0
      PROVE  FALSE
  <2>1. CASE j < i
    BY <1>2, <1>3, <1>4, <2>1 DEF Holders
  <2>2. CASE ~(j < i)
    <3>1. /\ j \in 1 .. Len(threads[d]) - 1 /\ threads'[d][j] = threads[d][j + 1]
          /\ j + 1 \in DOMAIN threads[d] /\ j + 1 # i
      BY <1>2, <1>3, <1>4, <2>2
    <3>2. j + 1 \in Holders(d)
      BY <1>4, <3>1 DEF Holders
    <3> QED  BY <3>1, <3>2
  <2> QED  BY <2>1, <2>2
<1> QED  BY <1>3, <1>4 DEF Holders

LEMMA LockedStep ==
    ASSUME L3TypeOK, LockedInv, [VrfNext \/ Closes]_allvars
    PROVE  LockedInv'
<1> SUFFICES ASSUME NEW d \in Netdevs
             PROVE  Locked(d)'
  BY DEF LockedInv
<1>1. Locked(d) /\ NRules \in Nat /\ NRules > 0
  BY L3Assumption DEF LockedInv
<1>2. CASE VrfHandler
  <2>1. UNCHANGED <<l3_stats_mutex, l3_stats_enabled, xtables>>
    BY <1>2 DEF VrfHandler
  <2>2. \A i \in DOMAIN threads[d] : i \in DOMAIN threads'[d] /\ threads'[d][i] = threads[d][i]
    <3>1. /\ Len(threads[d]) \in Nat /\ Len(XtablesCalls(d)) \in Nat
          /\ DOMAIN threads[d] = 1 .. Len(threads[d])
          /\ DOMAIN threads'[d] = 1 .. Len(threads[d]) + Len(XtablesCalls(d))
          /\ \A j \in 1 .. Len(threads[d]) : threads'[d][j] = threads[d][j]
      BY <1>2, HandlerThreads
    <3> QED  BY <3>1
  <2>3. \A i \in DOMAIN threads'[d] : i \in DOMAIN threads[d] \/ threads'[d][i].at = 0
    <3> DEFINE n == Len(threads[d])
               k == Len(XtablesCalls(d))
    <3>1. /\ n \in Nat /\ k \in Nat /\ DOMAIN threads[d] = 1 .. n
          /\ DOMAIN threads'[d] = 1 .. n + k
          /\ \A j \in 1 .. k : threads'[d][n + j] = [op |-> XtablesCalls(d)[j], at |-> 0]
      BY <1>2, HandlerThreads
    <3> HIDE DEF n, k
    <3> SUFFICES ASSUME NEW i \in 1 .. n + k, i \notin 1 .. n
                 PROVE  threads'[d][i].at = 0
      BY <3>1
    <3>2. i - n \in 1 .. k /\ n + (i - n) = i
      BY <3>1
    <3>3. threads'[d][i] = [op |-> XtablesCalls(d)[i - n], at |-> 0]
      BY <3>1, <3>2
    <3> QED  BY <3>3
  <2>4. Holders(d)' = Holders(d)
    BY <2>2, <2>3 DEF Holders
  <2> QED  BY <1>1, <2>1, <2>2, <2>4, SameLocked DEF Holders
<1>3. ASSUME NEW e \in Netdevs, e # d, NEW i,
             \/ LockAndWork(e, i) \/ LockAndReturn(e, i)
             \/ EditRule(e, i) \/ SkipRule(e, i) \/ Finish(e, i)
      PROVE  Locked(d)'
  <2>1. threads'[d] = threads[d] /\ xtables'[d] = xtables[d]
    BY <1>3 DEF LockAndWork, LockAndReturn, EditRule, SkipRule, Finish, L3TypeOK
  <2>2. /\ d \in l3_stats_mutex => d \in l3_stats_mutex'
        /\ d \in l3_stats_enabled' <=> d \in l3_stats_enabled
    BY <1>3 DEF LockAndWork, LockAndReturn, EditRule, SkipRule, Finish, Takes
  <2>3. Holders(d)' = Holders(d)
    BY <2>1 DEF Holders
  <2> QED  BY <1>1, <2>1, <2>2, <2>3, SameLocked
<1>4. ASSUME NEW i, LockAndWork(d, i)
      PROVE  Locked(d)'
  <2>1. /\ i \in DOMAIN threads[d] /\ d \notin l3_stats_mutex /\ d \in l3_stats_mutex'
        /\ (threads[d][i].op = "create") <=> (d \notin l3_stats_enabled)
        /\ GoesOn(d, i, 1)
        /\ UNCHANGED <<l3_stats_enabled, xtables>>
    BY <1>4 DEF LockAndWork, Takes, NothingToDo, GoesOn
  <2>2. Holders(d) = {} /\ 1 \in 1 .. NRules + 1
    BY <1>1, <2>1 DEF Locked, HolderAt
  <2>3. /\ threads'[d][i].at = 1 /\ threads'[d][i].op = threads[d][i].op
        /\ Holders(d)' = {i}
    <3>1. /\ threads'[d][i].at = 1 /\ Holders(d)' = Holders(d) \cup {i}
          /\ \A j \in DOMAIN threads[d] : threads'[d][j].op = threads[d][j].op
      BY <2>1, <2>2, ThreadGoesOn
    <3> QED  BY <2>1, <2>2, <3>1
  <2>4. xtables[d] = IF d \in l3_stats_enabled THEN Run(1, NRules) ELSE Run(1, 1 - 1)
    <3>1. Run(1, 0) = <<>> /\ 1 - 1 = 0
      BY RunFacts
    <3> QED  BY <1>1, <2>2, <3>1 DEF Locked, IdleRules
  <2>5. HolderAt(d)'
    BY <2>1, <2>3, <2>4 DEF HolderAt
  <2> QED  BY <2>3, <2>5 DEF Locked, OneHolder, IdleRules
<1>5. ASSUME NEW i, LockAndReturn(d, i)
      PROVE  Locked(d)'
  <2>1. /\ i \in DOMAIN threads[d] /\ d \notin l3_stats_mutex
        /\ threads' = [threads EXCEPT ![d] = Without(@, i)]
        /\ UNCHANGED <<l3_stats_enabled, xtables>>
    BY <1>5 DEF LockAndReturn, Takes
  <2>2. Holders(d) = {}
    BY <1>1, <2>1 DEF Locked, HolderAt
  <2>3. Holders(d)' = {}
    BY <2>1, <2>2, ThreadEnds
  <2> QED  BY <1>1, <2>1, <2>2, <2>3 DEF Locked, OneHolder, HolderAt, IdleRules
<1>6. ASSUME NEW i, EditRule(d, i)
      PROVE  Locked(d)'
  <2> DEFINE k == threads[d][i].at
  <2>1. /\ i \in DOMAIN threads[d] /\ k \in 1 .. NRules
        /\ GoesOn(d, i, k + 1)
        /\ UNCHANGED <<l3_stats_mutex, l3_stats_enabled>>
    BY <1>6 DEF EditRule, GoesOn
  <2>2. xtables'[d] = IF threads[d][i].op = "create" THEN RuleAdded(xtables[d], k)
                                                     ELSE RuleDeleted(xtables[d], k)
    BY <1>6 DEF EditRule, L3TypeOK
  <2>3. i \in Holders(d)
    BY <2>1 DEF Holders
  <2>4. k + 1 \in 1 .. NRules + 1
    BY <1>1, <2>1
  <2>5. /\ threads'[d][i].at = k + 1 /\ threads'[d][i].op = threads[d][i].op
        /\ Holders(d)' = Holders(d)
    <3> HIDE DEF k
    <3>1. /\ threads'[d][i].at = k + 1 /\ Holders(d)' = Holders(d) \cup {i}
          /\ \A j \in DOMAIN threads[d] : threads'[d][j].op = threads[d][j].op
      BY <2>1, <2>4, ThreadGoesOn
    <3> QED  BY <2>1, <2>3, <3>1
  <2>6. Holders(d) = {i}
    BY <1>1, <2>3 DEF Locked, OneHolder
  <2>7. /\ d \in l3_stats_mutex
        /\ threads[d][i].op = "create" => d \notin l3_stats_enabled /\ xtables[d] = Run(1, k - 1)
        /\ threads[d][i].op = "delete" => d \in l3_stats_enabled /\ xtables[d] = Run(k, NRules)
    BY <1>1, <2>3 DEF Locked, HolderAt
  <2> HIDE DEF k
  <2>8. /\ RuleAdded(Run(1, k - 1), k) = Run(1, (k + 1) - 1)
        /\ RuleDeleted(Run(k, NRules), k) = Run(k + 1, NRules)
    <3>1. k \in Nat /\ k - 1 \in Nat /\ 1 <= (k - 1) + 1 /\ (k - 1) + 1 = k /\ (k + 1) - 1 = k
          /\ k <= NRules
      BY <1>1, <2>1
    <3>2. RuleAdded(Run(1, k - 1), (k - 1) + 1) = Run(1, (k - 1) + 1)
      BY <3>1, RunAdded
    <3>3. RuleDeleted(Run(k, NRules), k) = Run(k + 1, NRules)
      BY <1>1, <3>1, RunDeleted
    <3> QED  BY <3>1, <3>2, <3>3
  <2>9. HolderAt(d)'
    BY <2>1, <2>2, <2>5, <2>6, <2>7, <2>8 DEF HolderAt
  <2> QED  BY <2>5, <2>6, <2>9 DEF Locked, OneHolder, IdleRules
<1>9. ASSUME NEW i, SkipRule(d, i)
      PROVE  FALSE
  <2>1. i \in DOMAIN threads[d] /\ threads[d][i].at \in 1 .. NRules /\ ~Acts(xtables[d], threads[d][i])
    BY <1>9 DEF SkipRule
  <2>2. i \in Holders(d) /\ threads[d][i] \in Thread /\ threads[d][i].op \in {"create", "delete"}
    BY <2>1, ThreadType, ElementOfSeq DEF Holders, Ops
  <2> QED  BY <1>1, <2>1, <2>2, ActsInOrder DEF Locked, HolderAt
<1>7. ASSUME NEW i, Finish(d, i)
      PROVE  Locked(d)'
  <2>1. /\ i \in DOMAIN threads[d] /\ threads[d][i].at = NRules + 1
        /\ d \in l3_stats_enabled' <=> threads[d][i].op = "create"
        /\ threads' = [threads EXCEPT ![d] = Without(@, i)]
        /\ UNCHANGED xtables
    BY <1>7 DEF Finish
  <2>2. i \in Holders(d)
    BY <1>1, <2>1 DEF Holders
  <2>3. Holders(d) = {i}
    BY <1>1, <2>2 DEF Locked, OneHolder
  <2>4. Holders(d)' = {}
    BY <2>1, <2>3, ThreadEnds
  <2>5. threads[d][i].op \in {"create", "delete"}
    BY <2>1, ThreadType DEF Ops
  <2>6. xtables[d] = IF threads[d][i].op = "create" THEN Run(1, (NRules + 1) - 1)
                                                    ELSE Run(NRules + 1, NRules)
    BY <1>1, <2>1, <2>2, <2>5 DEF Locked, HolderAt
  <2>7. (NRules + 1) - 1 = NRules /\ Run(NRules + 1, NRules) = <<>>
    <3>1. NRules + 1 \in Nat /\ NRules + 1 <= NRules + 1 /\ (NRules + 1) - 1 = NRules
      BY <1>1
    <3> QED  BY <1>1, <3>1, RunFacts
  <2>8. IdleRules(d)'
    BY <2>1, <2>5, <2>6, <2>7 DEF IdleRules
  <2> QED  BY <2>4, <2>8 DEF Locked, OneHolder, HolderAt
<1>8. CASE Closes \/ UNCHANGED allvars
  <2>1. UNCHANGED <<threads, l3_stats_mutex, l3_stats_enabled, xtables>>
    BY <1>8 DEF Closes, CloseNetdev, netdev_sim_dealloc, allvars, l3vars
  <2>2. Holders(d)' = Holders(d)
    BY <2>1 DEF Holders
  <2> QED  BY <1>1, <2>1, <2>2, SameLocked
<1> QED  BY <1>2, <1>3, <1>4, <1>5, <1>6, <1>7, <1>8, <1>9, VrfAssumption
         DEF VrfNext, Work, ThreadStep

LEMMA LockedInit ==
    ASSUME L3Init
    PROVE  L3TypeOK /\ LockedInv
<1>1. L3TypeOK
  <2>1. <<>> \in Seq(Thread) /\ <<>> \in Seq(1 .. NRules)
    OBVIOUS
  <2>2. threads \in [Netdevs -> Seq(Thread)] /\ xtables \in [Netdevs -> Seq(1 .. NRules)]
    BY <2>1 DEF L3Init
  <2> QED  BY <2>2, L3Assumption DEF L3Init, L3TypeOK
<1>2. \A d \in Netdevs : Holders(d) = {}
  BY DEF L3Init, Holders
<1>3. LockedInv
  BY <1>2 DEF L3Init, LockedInv, Locked, OneHolder, HolderAt, IdleRules
<1> QED  BY <1>1, <1>3

(* Every step of the one specification is a step of the other.             *)
LEMMA VrfIsVrfClose ==
    VrfSpec => VrfInit /\ [][VrfNext \/ Closes]_allvars
<1>1. [VrfNext]_allvars => [VrfNext \/ Closes]_allvars
  OBVIOUS
<1> QED  BY <1>1, PTL DEF VrfSpec

LEMMA LockedCorrect ==
    VrfInit /\ [][VrfNext \/ Closes]_allvars => [](L3TypeOK /\ LockedInv)
<1>1. VrfInit => L3TypeOK /\ LockedInv
  BY LockedInit DEF VrfInit
<1>2. L3TypeOK /\ LockedInv /\ [VrfNext \/ Closes]_allvars => (L3TypeOK /\ LockedInv)'
  BY L3TypeStep, LockedStep
<1> QED  BY <1>1, <1>2, PTL

(* In every VRF, with any number of rules and threads: two threads of a    *)
(* netdev are never at work together, in whatever order the joins and      *)
(* leaves of its port start them and the kernel runs them, and also when   *)
(* interfaces are removed meanwhile.                                       *)
THEOREM OneThreadAtATime == VrfSpec \/ VrfCloseSpec => []MutexExcludes
<1>1. LockedInv => MutexExcludes
  <2> SUFFICES ASSUME LockedInv, NEW d \in Netdevs
               PROVE  /\ Cardinality(Holders(d)) <= 1
                      /\ Holders(d) # {} => d \in l3_stats_mutex
    BY DEF MutexExcludes
  <2>1. OneHolder(d) /\ HolderAt(d)
    BY DEF LockedInv, Locked
  <2>2. CASE Holders(d) = {}
    BY <2>2, FS_EmptySet
  <2>3. CASE Holders(d) # {}
    <3>1. PICK i \in Holders(d) : TRUE
      BY <2>3
    <3>2. Holders(d) = {i}
      BY <2>1, <3>1 DEF OneHolder
    <3>3. Cardinality({i}) = 1
      BY FS_Singleton, Zenon
    <3>4. d \in l3_stats_mutex
      BY <2>1, <3>1 DEF HolderAt
    <3> QED  BY <3>2, <3>3, <3>4
  <2> QED  BY <2>2, <2>3
<1> QED  BY <1>1, VrfIsVrfClose, LockedCorrect, PTL DEF VrfCloseSpec, Closes

(* In every VRF, whatever the order of the threads: the rules of a netdev  *)
(* that no thread is at work on are all there or all absent, as its flag   *)
(* says.                                                                   *)
THEOREM RulesFollowFlag == VrfSpec \/ VrfCloseSpec => []RulesMatchFlag
<1>1. LockedInv => RulesMatchFlag
  <2>1. Run(1, NRules) = [k \in 1 .. NRules |-> k]
    <3>1. NRules - 1 + 1 = NRules /\ \A k \in 1 .. NRules : 1 + k - 1 = k
      BY L3Assumption
    <3> QED  BY <3>1 DEF Run
  <2> QED  BY <2>1 DEF LockedInv, Locked, IdleRules, RulesMatchFlag
<1> QED  BY <1>1, VrfIsVrfClose, LockedCorrect, PTL DEF VrfCloseSpec, Closes

-----------------------------------------------------------------------------
(* The order of the threads                                                *)

(* Whether the flag is set, f now, when the first j threads of q have run  *)
(* in order.                                                               *)
After(q, f, j) == IF j = 0 THEN f ELSE q[j].op = "create"

Flag(d) == d \in l3_stats_enabled

(* As long as no thread of d overtook another: only the oldest is at work, *)
(* the mutex is locked by a thread that will unlock it, every thread finds *)
(* work to do when its turn comes, and the last one leaves the rules that  *)
(* the place of the port asks for.                                         *)
InTurn(d) ==
    /\ Holders(d) \subseteq {1}
    /\ d \in l3_stats_mutex => Holders(d) # {}
    /\ \A j \in 1 .. Len(threads[d]) :
          After(threads[d], Flag(d), j) <=> ~After(threads[d], Flag(d), j - 1)
    /\ After(threads[d], Flag(d), Len(threads[d])) <=> bundle[d] # NoBundle

OrderInv == Intact => \A d \in Netdevs : d \notin overtaken => InTurn(d)

(* A step that changes neither the operations nor the flag of d.           *)
LEMMA SameAfter ==
    ASSUME L3TypeOK, NEW d \in Netdevs,
           Len(threads'[d]) = Len(threads[d]),
           \A j \in DOMAIN threads[d] : threads'[d][j].op = threads[d][j].op,
           Flag(d)' <=> Flag(d),
           bundle' = bundle,
           InTurn(d)
    PROVE  /\ \A j \in 1 .. Len(threads'[d]) :
                 After(threads'[d], Flag(d)', j) <=> ~After(threads'[d], Flag(d)', j - 1)
           /\ After(threads'[d], Flag(d)', Len(threads'[d])) <=> bundle'[d] # NoBundle
<1>1. threads[d] \in Seq(Thread)
  BY DEF L3TypeOK
<1>2. DOMAIN threads[d] = 1 .. Len(threads[d]) /\ Len(threads[d]) \in Nat
  BY <1>1, LenProperties
<1>3. \A j \in 0 .. Len(threads[d]) :
         After(threads'[d], Flag(d)', j) <=> After(threads[d], Flag(d), j)
  BY <1>2 DEF After
<1>4. \A j \in 1 .. Len(threads[d]) : j \in 0 .. Len(threads[d]) /\ j - 1 \in 0 .. Len(threads[d])
  BY <1>2
<1> HIDE DEF After
<1>5. \A j \in 1 .. Len(threads[d]) :
         After(threads'[d], Flag(d)', j) <=> ~After(threads'[d], Flag(d)', j - 1)
  BY <1>3, <1>4 DEF InTurn
<1>6. Len(threads[d]) \in 0 .. Len(threads[d])
  BY <1>2
<1> QED  BY <1>3, <1>5, <1>6 DEF InTurn

(* A handler leaves the threads in turn: a port that is in a bundle leaves *)
(* it before it joins another, and a port joins when it is in none.        *)
LEMMA HandlerInTurn ==
    ASSUME TypeOK, TypeOK', L3TypeOK, VrfHandler, Intact, Intact',
           NEW d \in Netdevs, InTurn(d)
    PROVE  InTurn(d)'
<1> DEFINE n == Len(threads[d])
           k == Len(XtablesCalls(d))
           new(j) == XtablesCalls(d)[j]
<1>1. /\ n \in Nat /\ k \in Nat /\ DOMAIN threads[d] = 1 .. n
      /\ Len(threads'[d]) = n + k /\ DOMAIN threads'[d] = 1 .. n + k
      /\ \A j \in 1 .. n : threads'[d][j] = threads[d][j]
      /\ \A j \in 1 .. k : threads'[d][n + j] = [op |-> new(j), at |-> 0]
  BY HandlerThreads
<1>2. /\ k = (IF Left(d) THEN 1 ELSE 0) + (IF Joined(d) THEN 1 ELSE 0)
      /\ Left(d) => new(1) = "delete"
      /\ Joined(d) => new(k) = "create"
  BY CallsType
<1>3. d \in Ports /\ bundle[d] \in Bundles \cup {NoBundle} /\ bundle'[d] \in Bundles \cup {NoBundle}
  BY VrfAssumption DEF TypeOK
<1>4. Left(d) <=> bundle[d] # NoBundle /\ bundle'[d] # bundle[d]
  BY <1>3 DEF Left, Intact, ListMatchesPointer
<1>5. Joined(d) <=> bundle'[d] # NoBundle /\ bundle'[d] # bundle[d]
  BY DEF Joined
<1>6. UNCHANGED l3_stats_mutex /\ (Flag(d)' <=> Flag(d))
  BY DEF VrfHandler, Flag
<1> HIDE DEF n, k, new
<1>7. ASSUME NEW j \in 1 .. k
      PROVE  n + j # 0 /\ threads'[d][n + j].op = new(j) /\ threads'[d][n + j].at = 0
  <2>1. threads'[d][n + j] = [op |-> new(j), at |-> 0]
    BY <1>1
  <2>2. threads'[d][n + j].op = new(j) /\ threads'[d][n + j].at = 0
    BY <2>1
  <2> QED  BY <1>1, <2>2
<1>8. Holders(d)' = Holders(d)
  <2>1. \A i \in (1 .. n + k) \ (1 .. n) : i - n \in 1 .. k /\ n + (i - n) = i
    BY <1>1
  <2>2. \A i \in (1 .. n + k) \ (1 .. n) : threads'[d][i].at = 0
    BY <1>7, <2>1
  <2>3. 1 .. n \subseteq 1 .. n + k
    BY <1>1
  <2> QED  BY <1>1, <2>2, <2>3 DEF Holders
<1>9. \A j \in 0 .. n : After(threads'[d], Flag(d)', j) <=> After(threads[d], Flag(d), j)
  BY <1>1, <1>6 DEF After
<1>10. \A j \in 1 .. k : After(threads'[d], Flag(d)', n + j) <=> new(j) = "create"
  BY <1>7 DEF After
<1>11. After(threads[d], Flag(d), n) <=> bundle[d] # NoBundle
  BY DEF InTurn, n
<1>12. After(threads'[d], Flag(d)', n + 0) <=> bundle[d] # NoBundle
  BY <1>1, <1>9, <1>11
<1>13. k > 0 => (After(threads'[d], Flag(d)', n + 1) <=> ~After(threads'[d], Flag(d)', n + 0))
  BY <1>1, <1>2, <1>4, <1>5, <1>10, <1>12
<1>14. k > 1 => (After(threads'[d], Flag(d)', n + 2) <=> ~After(threads'[d], Flag(d)', n + 1))
  BY <1>1, <1>2, <1>10
<1>15. After(threads'[d], Flag(d)', n + k) <=> bundle'[d] # NoBundle
  BY <1>1, <1>2, <1>4, <1>5, <1>10, <1>12
<1>16. ASSUME NEW j \in 1 .. n + k
       PROVE  After(threads'[d], Flag(d)', j) <=> ~After(threads'[d], Flag(d)', j - 1)
  <2>1. CASE j <= n
    <3>1. j \in 1 .. n /\ j \in 0 .. n /\ j - 1 \in 0 .. n
      BY <1>1, <2>1
    <3> QED  BY <1>9, <3>1 DEF InTurn, n
  <2>2. CASE j = n + 1
    BY <1>1, <1>13, <2>2
  <2>3. CASE j = n + 2
    BY <1>1, <1>14, <2>3
  <2> QED  BY <1>1, <1>2, <2>1, <2>2, <2>3
<1>17. /\ Holders(d)' \subseteq {1}
       /\ d \in l3_stats_mutex' => Holders(d)' # {}
  BY <1>6, <1>8 DEF InTurn
<1> QED  BY <1>1, <1>15, <1>16, <1>17 DEF InTurn

(* The oldest thread of d ends.                                            *)
LEMMA FinishInTurn ==
    ASSUME L3TypeOK, NEW d \in Netdevs, NEW i, Finish(d, i), InTurn(d), bundle' = bundle
    PROVE  InTurn(d)'
<1> DEFINE n == Len(threads[d])
<1>1. /\ i \in DOMAIN threads[d] /\ threads[d][i].at = NRules + 1
      /\ Flag(d)' <=> threads[d][i].op = "create"
      /\ d \notin l3_stats_mutex'
      /\ threads' = [threads EXCEPT ![d] = Without(@, i)]
  BY DEF Finish, Flag
<1>2. n \in Nat /\ DOMAIN threads[d] = 1 .. n
  BY <1>1, ThreadType
<1>3. i \in Holders(d)
  BY <1>1, L3Assumption DEF Holders
<1>4. i = 1 /\ Holders(d) \subseteq {i}
  BY <1>3 DEF InTurn
<1>5. /\ Len(threads'[d]) = n - 1 /\ Holders(d)' = {}
      /\ \A j \in 1 .. n - 1 : threads'[d][j] = IF j < i THEN threads[d][j] ELSE threads[d][j + 1]
  BY <1>1, <1>4, ThreadEnds
<1> HIDE DEF n
<1>6. \A j \in 1 .. n - 1 : threads'[d][j] = threads[d][j + 1]
  BY <1>2, <1>4, <1>5
<1>7. \A j \in 0 .. n - 1 : After(threads'[d], Flag(d)', j) <=> After(threads[d], Flag(d), j + 1)
  BY <1>1, <1>2, <1>4, <1>6 DEF After
<1>8. \A j \in 1 .. n : After(threads[d], Flag(d), j) <=> ~After(threads[d], Flag(d), j - 1)
  BY DEF InTurn, n
<1>9. After(threads[d], Flag(d), n) <=> bundle[d] # NoBundle
  BY DEF InTurn, n
<1>10. n > 0
  BY <1>1, <1>2
<1>11. After(threads'[d], Flag(d)', n - 1) <=> bundle'[d] # NoBundle
  <2>1. n - 1 \in 0 .. n - 1 /\ (n - 1) + 1 = n
    BY <1>2, <1>10
  <2> QED  BY <1>7, <1>9, <2>1
<1>12. ASSUME NEW j \in 1 .. n - 1
       PROVE  After(threads'[d], Flag(d)', j) <=> ~After(threads'[d], Flag(d)', j - 1)
  <2>1. /\ j \in 0 .. n - 1 /\ j - 1 \in 0 .. n - 1 /\ (j - 1) + 1 = j
        /\ j + 1 \in 1 .. n /\ (j + 1) - 1 = j
    BY <1>2
  <2>2. After(threads'[d], Flag(d)', j) <=> After(threads[d], Flag(d), j + 1)
    BY <1>7, <2>1
  <2>3. After(threads'[d], Flag(d)', j - 1) <=> After(threads[d], Flag(d), j)
    BY <1>7, <2>1
  <2>4. After(threads[d], Flag(d), j + 1) <=> ~After(threads[d], Flag(d), j)
    BY <1>8, <2>1
  <2> QED  BY <2>2, <2>3, <2>4
<1> QED  BY <1>1, <1>5, <1>11, <1>12 DEF InTurn

LEMMA OrderStep ==
    ASSUME TypeOK, TypeOK', L3TypeOK, OrderInv, [VrfNext \/ Closes]_allvars
    PROVE  OrderInv'
<1> SUFFICES ASSUME Intact', NEW d \in Netdevs, d \notin overtaken'
             PROVE  InTurn(d)'
  BY DEF OrderInv
<1>1. CASE VrfHandler
  <2>1. Intact /\ d \notin overtaken
    BY <1>1, HandlerIntact DEF VrfHandler
  <2> QED  BY <1>1, <2>1, HandlerInTurn DEF OrderInv
<1>2. ASSUME UNCHANGED vars
      PROVE  Intact /\ UNCHANGED bundle
  <2>1. UNCHANGED <<ofports, bundles, ports, bundle>>
    BY <1>2 DEF vars, links
  <2>2. Intact' <=> Intact
    BY <2>1 DEF Intact, ListMatchesPointer, NoDanglingBundle, NoFreedMember
  <2> QED  BY <2>1, <2>2
<1>3. ASSUME NEW e \in Netdevs, e # d, NEW i, UNCHANGED vars,
             \/ LockAndWork(e, i) \/ LockAndReturn(e, i)
             \/ EditRule(e, i) \/ SkipRule(e, i) \/ Finish(e, i)
      PROVE  InTurn(d)'
  <2>1. threads'[d] = threads[d]
    BY <1>3 DEF LockAndWork, LockAndReturn, EditRule, SkipRule, Finish, L3TypeOK
  <2>2. /\ d \in l3_stats_mutex' => d \in l3_stats_mutex
        /\ Flag(d)' <=> Flag(d)
        /\ d \notin overtaken
    BY <1>3 DEF LockAndWork, LockAndReturn, EditRule, SkipRule, Finish, Takes, Flag
  <2>3. Holders(d)' = Holders(d)
    BY <2>1 DEF Holders
  <2>4. InTurn(d) /\ UNCHANGED bundle
    BY <1>2, <1>3, <2>2 DEF OrderInv
  <2>5. UNCHANGED <<threads[d], Flag(d), Holders(d), bundle[d]>>
    BY <2>1, <2>2, <2>3, <2>4 DEF Flag
  <2> QED  BY <2>2, <2>4, <2>5 DEF InTurn
<1>4. ASSUME NEW i, LockAndWork(d, i), UNCHANGED vars
      PROVE  InTurn(d)'
  <2>1. /\ i \in DOMAIN threads[d] /\ d \notin l3_stats_mutex
        /\ i = 1 /\ d \notin overtaken
        /\ GoesOn(d, i, 1) /\ (Flag(d)' <=> Flag(d))
    BY <1>4 DEF LockAndWork, Takes, GoesOn, Flag
  <2>2. InTurn(d) /\ UNCHANGED bundle
    BY <1>2, <1>4, <2>1 DEF OrderInv
  <2>3. 1 \in 1 .. NRules + 1
    BY L3Assumption
  <2>4. /\ Len(threads'[d]) = Len(threads[d])
        /\ \A j \in DOMAIN threads[d] : threads'[d][j].op = threads[d][j].op
        /\ Holders(d)' = Holders(d) \cup {i}
    BY <2>1, <2>3, ThreadGoesOn
  <2>5. /\ \A j \in 1 .. Len(threads'[d]) :
              After(threads'[d], Flag(d)', j) <=> ~After(threads'[d], Flag(d)', j - 1)
        /\ After(threads'[d], Flag(d)', Len(threads'[d])) <=> bundle'[d] # NoBundle
    BY <2>1, <2>2, <2>4, SameAfter
  <2>6. Holders(d)' = {1}
    BY <2>1, <2>2, <2>4 DEF InTurn
  <2> QED  BY <2>5, <2>6 DEF InTurn
<1>5. ASSUME NEW i, LockAndReturn(d, i), UNCHANGED vars
      PROVE  FALSE
  <2>1. /\ i \in DOMAIN threads[d] /\ i = 1 /\ d \notin overtaken
        /\ (threads[d][1].op = "create") <=> Flag(d)
    BY <1>5 DEF LockAndReturn, Takes, NothingToDo, Flag
  <2>2. InTurn(d)
    BY <1>2, <1>5, <2>1 DEF OrderInv
  <2>3. 1 \in 1 .. Len(threads[d]) /\ 1 - 1 = 0
    BY <2>1, ThreadType
  <2>4. After(threads[d], Flag(d), 1) <=> ~After(threads[d], Flag(d), 0)
    BY <2>2, <2>3 DEF InTurn
  <2> QED  BY <2>1, <2>4 DEF After
<1>6. ASSUME NEW i, EditRule(d, i) \/ SkipRule(d, i), UNCHANGED vars
      PROVE  InTurn(d)'
  <2> DEFINE k == threads[d][i].at
             n == IF Acts(xtables[d], threads[d][i]) THEN k + 1 ELSE Skipped(k)
  <2>1. /\ i \in DOMAIN threads[d] /\ k \in 1 .. NRules
        /\ GoesOn(d, i, n) /\ (Flag(d)' <=> Flag(d))
        /\ UNCHANGED l3_stats_mutex /\ d \notin overtaken
    BY <1>6 DEF EditRule, SkipRule, Skipped, GoesOn, Flag
  <2>2. InTurn(d) /\ UNCHANGED bundle
    BY <1>2, <1>6, <2>1 DEF OrderInv
  <2>3. i \in Holders(d)
    BY <2>1 DEF Holders
  <2>4. n \in 1 .. NRules + 1
    BY <2>1, SkippedType, L3Assumption
  <2> HIDE DEF k, n
  <2>5. /\ Len(threads'[d]) = Len(threads[d])
        /\ \A j \in DOMAIN threads[d] : threads'[d][j].op = threads[d][j].op
        /\ Holders(d)' = Holders(d) \cup {i}
    BY <2>1, <2>4, ThreadGoesOn
  <2>6. /\ \A j \in 1 .. Len(threads'[d]) :
              After(threads'[d], Flag(d)', j) <=> ~After(threads'[d], Flag(d)', j - 1)
        /\ After(threads'[d], Flag(d)', Len(threads'[d])) <=> bundle'[d] # NoBundle
    BY <2>1, <2>2, <2>5, SameAfter
  <2>7. Holders(d)' = Holders(d)
    BY <2>3, <2>5
  <2>8. Holders(d) \subseteq {1} /\ (d \in l3_stats_mutex => Holders(d) # {})
    BY <2>2 DEF InTurn
  <2> QED  BY <2>1, <2>6, <2>7, <2>8 DEF InTurn
<1>7. ASSUME NEW i, Finish(d, i), UNCHANGED vars
      PROVE  InTurn(d)'
  <2>1. d \notin overtaken
    BY <1>7 DEF Finish
  <2> QED  BY <1>2, <1>7, <2>1, FinishInTurn DEF OrderInv
<1>8. CASE Closes \/ UNCHANGED allvars
  <2>1. UNCHANGED vars /\ UNCHANGED <<threads, l3_stats_mutex, l3_stats_enabled, overtaken>>
    BY <1>8 DEF Closes, CloseNetdev, netdev_sim_dealloc, allvars, l3vars
  <2>2. InTurn(d) /\ UNCHANGED bundle
    BY <1>2, <2>1 DEF OrderInv
  <2>3. Holders(d)' = Holders(d) /\ (Flag(d)' <=> Flag(d))
    BY <2>1 DEF Holders, Flag
  <2>4. UNCHANGED <<threads[d], Flag(d), Holders(d), bundle[d]>>
    BY <2>1, <2>2, <2>3 DEF Flag
  <2> QED  BY <2>1, <2>2, <2>4 DEF InTurn
<1> QED  BY <1>1, <1>3, <1>4, <1>5, <1>6, <1>7, <1>8, VrfAssumption
         DEF VrfNext, Work, ThreadStep

(* In every VRF, also when interfaces are removed: a thread that returns   *)
(* with the mutex has overtaken an older one.  The early returns of the    *)
(* two thread functions, which do not unlock, are reached only because     *)
(* nothing orders the threads.                                             *)
THEOREM LeaksReorder == VrfSpec \/ VrfCloseSpec => []LeakNeedsReordering
<1>1. VrfInit => Init
  BY DEF VrfInit
<1>2. [VrfNext \/ Closes]_allvars => [Next]_vars
  BY DEF VrfNext, Closes, VrfHandler, Work, CloseNetdev, allvars, Next
<1>3. VrfInit => OrderInv
  <2> SUFFICES ASSUME VrfInit, NEW d \in Netdevs
               PROVE  InTurn(d)
    BY DEF OrderInv
  <2>1. threads[d] = <<>> /\ l3_stats_mutex = {} /\ ~Flag(d) /\ bundle[d] = NoBundle
    BY VrfAssumption DEF VrfInit, Init, L3Init, Flag
  <2>2. Len(threads[d]) = 0 /\ Holders(d) = {}
    BY <2>1 DEF Holders
  <2> QED  BY <2>1, <2>2 DEF InTurn, After
<1>4. TypeOK /\ TypeOK' /\ L3TypeOK /\ OrderInv /\ [VrfNext \/ Closes]_allvars => OrderInv'
  BY OrderStep
<1>5. OrderInv => LeakNeedsReordering
  BY DEF OrderInv, InTurn, LeakNeedsReordering, Leaked
<1>6. VrfInit /\ [][VrfNext \/ Closes]_allvars => []TypeOK
  BY <1>1, <1>2, TypeCorrect, PTL DEF Spec
<1> QED  BY <1>3, <1>4, <1>5, <1>6, VrfIsVrfClose, LockedCorrect, PTL
         DEF VrfCloseSpec, Closes

-----------------------------------------------------------------------------
(* Polls                                                                   *)

(* The first rules, without a half pair: what create threads leave behind. *)
Whole(q) == \E m \in 0 .. NRules : m \notin Pairs /\ q = Run(1, m)

(* What a thread t that is past the lock finds: a create thread the rules  *)
(* before its place and perhaps, from an earlier process, some more; a     *)
(* delete thread those from its place on, or none.                         *)
MadeBy(q, t) ==
    /\ t.op = "create" =>
          \E m \in t.at - 1 .. NRules :
              /\ q = Run(1, m)
              /\ IF Second(t.at) THEN m = t.at - 1 ELSE m \notin Pairs
    /\ t.op = "delete" => q = Run(t.at, NRules) \/ q = <<>>

(* The two rules of a pair are neighbours, and no rule is in two pairs.    *)
LEMMA PairFacts ==
    ASSUME NEW k \in 0 .. NRules
    PROVE  /\ Second(k + 1) <=> k \in Pairs
           /\ Second(k) => k \notin Pairs
           /\ k \in Pairs => k + 1 <= NRules /\ ~Second(k + 2)
           /\ ~Second(1) /\ 0 \notin Pairs /\ NRules \notin Pairs
<1>1. NRules \in Nat /\ \A j \in Pairs : j \in 1 .. NRules - 1 /\ j + 1 \notin Pairs
  BY L3Assumption
<1>2. Second(k + 1) <=> k \in Pairs
  BY <1>1 DEF Second
<1>3. Second(k) => k \notin Pairs
  BY <1>1 DEF Second
<1>4. ASSUME k \in Pairs PROVE k + 1 <= NRules /\ ~Second(k + 2)
  <2>1. \A j \in Pairs : k + 2 = j + 1 => j = k + 1
    BY <1>1
  <2> QED  BY <1>1, <1>4, <2>1 DEF Second
<1>5. ~Second(1) /\ 0 \notin Pairs /\ NRules \notin Pairs
  BY <1>1 DEF Second
<1> QED  BY <1>2, <1>3, <1>4, <1>5

LEMMA MadeEdit ==
    ASSUME NEW q, NEW t \in Thread, t.at \in 1 .. NRules, MadeBy(q, t), Acts(q, t),
           NEW u, u.op = t.op, u.at = t.at + 1
    PROVE  MadeBy(IF t.op = "create" THEN RuleAdded(q, t.at) ELSE RuleDeleted(q, t.at), u)
<1> DEFINE k == t.at
<1>1. NRules \in Nat /\ k \in Nat /\ k - 1 \in Nat /\ (k + 1) - 1 = k /\ (k - 1) + 1 = k
      /\ k \in 0 .. NRules /\ 1 <= (k - 1) + 1 /\ k <= NRules
  BY L3Assumption
<1>2. CASE t.op = "create"
  <2>1. PICK m \in k - 1 .. NRules :
           q = Run(1, m) /\ IF Second(k) THEN m = k - 1 ELSE m \notin Pairs
    BY <1>2 DEF MadeBy
  <2>2. m = k - 1
    <3>1. CASE Second(k)
      BY <2>1, <3>1
    <3>2. CASE ~Second(k)
      <4>1. ~netdev_sim_l3stats_xtables_rule_installed(q, k)
        BY <1>2, <3>2 DEF Acts
      <4>2. m \in Nat /\ 1 <= m + 1 /\ k + 1 \in Nat
        BY <1>1, <2>1
      <4>3. \A j \in Nat : Has(q, j) <=> j \in 1 .. m
        BY <2>1, <4>2, RunFacts
      <4>4. ~(k \in 1 .. m) \/ (k \in Pairs /\ ~(k + 1 \in 1 .. m))
        BY <1>1, <4>1, <4>2, <4>3 DEF netdev_sim_l3stats_xtables_rule_installed
      <4>5. m # k \/ k \notin Pairs
        BY <2>1, <3>2
      <4> QED  BY <1>1, <2>1, <4>2, <4>4, <4>5
    <3> QED  BY <3>1, <3>2
  <2>3. RuleAdded(q, k) = Run(1, k)
    <3>1. RuleAdded(Run(1, k - 1), (k - 1) + 1) = Run(1, (k - 1) + 1)
      BY <1>1, RunAdded
    <3> QED  BY <1>1, <2>1, <2>2, <3>1
  <2>4. k \in (k + 1) - 1 .. NRules
    BY <1>1
  <2>5. IF Second(k + 1) THEN k = (k + 1) - 1 ELSE k \notin Pairs
    BY <1>1, PairFacts
  <2> QED  BY <1>2, <2>3, <2>4, <2>5 DEF MadeBy
<1>3. CASE t.op = "delete"
  <2>1. CASE q = Run(k, NRules)
    <3>1. RuleDeleted(q, k) = Run(k + 1, NRules)
      BY <1>1, <2>1, RunDeleted
    <3> QED  BY <1>3, <3>1 DEF MadeBy
  <2>2. CASE q = <<>>
    <3>1. RuleDeleted(q, k) = <<>>
      BY <2>2 DEF RuleDeleted, Has
    <3> QED  BY <1>3, <3>1 DEF MadeBy
  <2> QED  BY <1>3, <2>1, <2>2 DEF MadeBy
<1> QED  BY <1>2, <1>3 DEF Thread, Ops

LEMMA MadeSkip ==
    ASSUME NEW q, NEW t \in Thread, t.at \in 1 .. NRules, MadeBy(q, t), ~Acts(q, t),
           NEW u, u.op = t.op, u.at = Skipped(t.at)
    PROVE  MadeBy(q, u)
<1> DEFINE k == t.at
<1>1. NRules \in Nat /\ k \in Nat /\ k \in 0 .. NRules /\ k + 1 \in Nat
  BY L3Assumption
<1>2. CASE t.op = "create"
  <2>1. ~Second(k) /\ netdev_sim_l3stats_xtables_rule_installed(q, k)
    BY <1>2 DEF Acts
  <2>2. PICK m \in k - 1 .. NRules : q = Run(1, m) /\ m \notin Pairs
    BY <1>2, <2>1 DEF MadeBy
  <2>3. m \in Nat /\ 1 <= m + 1
    BY <1>1, <2>2
  <2>4. \A j \in Nat : Has(q, j) <=> j \in 1 .. m
    BY <2>2, <2>3, RunFacts
  <2>5. k \in 1 .. m /\ (k \in Pairs => k + 1 \in 1 .. m)
    BY <1>1, <2>1, <2>4 DEF netdev_sim_l3stats_xtables_rule_installed
  <2>6. m \in Skipped(k) - 1 .. NRules
    BY <1>1, <2>2, <2>3, <2>5 DEF Skipped
  <2>7. ~Second(Skipped(k))
    BY <1>1, PairFacts DEF Skipped
  <2> QED  BY <1>2, <2>2, <2>6, <2>7 DEF MadeBy
<1>3. CASE t.op = "delete"
  <2>1. q # Run(k, NRules)
    BY <1>3, ActsInOrder
  <2> QED  BY <1>3, <2>1 DEF MadeBy
<1> QED  BY <1>2, <1>3 DEF Thread, Ops

(* At most one thread of d is past the lock, and it has the mutex.         *)
AtWork(d) ==
    /\ OneHolder(d)
    /\ \A i \in Holders(d) :
          /\ d \in l3_stats_mutex
          /\ threads[d][i].op = "create" => d \notin l3_stats_enabled
          /\ threads[d][i].op = "delete" => d \in l3_stats_enabled

(* Rules that are not torn are those a thread at work has come to, all of  *)
(* them while the flag is set, or what create threads left behind.         *)
Made(d) ==
    IF d \in torn THEN xtables[d] # <<>>
    ELSE /\ \A i \in Holders(d) : MadeBy(xtables[d], threads[d][i])
         /\ Holders(d) = {} => IF d \in l3_stats_enabled THEN xtables[d] = Run(1, NRules)
                                                         ELSE Whole(xtables[d])

(* A poll that has met no delete thread found the flag set, and the rules  *)
(* have been left alone since.                                             *)
Overlaps(d) ==
    poll[d].at # "idle" =>
        /\ poll[d].quiet => ~poll[d].deleting
        /\ poll[d].deleting \/ (d \in l3_stats_enabled /\ Holders(d) = {} /\ d \notin torn)

Readings == [uc: SUBSET Nat, mc: SUBSET Nat, quiet: BOOLEAN, deleting: BOOLEAN]

PollTypeOK ==
    /\ torn \subseteq Netdevs
    /\ poll \in [Netdevs -> [at: Directions \cup {"idle"}, quiet: BOOLEAN, deleting: BOOLEAN]]
    /\ l3stats \in [Netdevs -> [Directions -> Readings]]

PollNetdev(d) == AtWork(d) /\ Made(d) /\ Overlaps(d)
PollInv == L3TypeOK /\ PollTypeOK /\ \A d \in Netdevs : PollNetdev(d)

(* What a thread step records.                                             *)
LEMMA Recorded ==
    ASSUME L3TypeOK, PollTypeOK, NEW d \in Netdevs, PollThreadStep(d)
    PROVE  /\ d \in torn' <=> d \in torn /\ xtables'[d] # <<>>
           /\ poll'[d].at = poll[d].at /\ ~poll'[d].quiet
           /\ poll'[d].deleting <=> poll[d].deleting \/ Deleting(threads'[d])
<1>2. d \in torn' <=> d \in torn /\ xtables'[d] # <<>>
  BY DEF PollThreadStep
<1>3. poll' = [poll EXCEPT ![d].quiet = FALSE, ![d].deleting = @ \/ Deleting(threads'[d])]
  BY DEF PollThreadStep
<1> DEFINE x == poll[d].deleting \/ Deleting(threads'[d])
<1>4. poll'[d] = [poll[d] EXCEPT !.quiet = FALSE, !.deleting = x]
  BY <1>3 DEF PollTypeOK
<1> HIDE DEF x
<1>5. poll[d] \in [at: Directions \cup {"idle"}, quiet: BOOLEAN, deleting: BOOLEAN]
  BY DEF PollTypeOK
<1>6. poll'[d].at = poll[d].at /\ poll'[d].quiet = FALSE /\ poll'[d].deleting = x
  BY <1>4, <1>5
<1> QED  BY <1>2, <1>6 DEF x

(* Steps of one thread, by what it does.                                   *)
LEMMA PollLock ==
    ASSUME L3TypeOK, PollTypeOK, NEW d \in Netdevs, PollNetdev(d), PollThreadStep(d),
           NEW i, LockAndWork(d, i)
    PROVE  PollNetdev(d)'
<1>1. /\ i \in DOMAIN threads[d] /\ d \notin l3_stats_mutex /\ d \in l3_stats_mutex'
      /\ (threads[d][i].op = "create") <=> (d \notin l3_stats_enabled)
      /\ GoesOn(d, i, 1)
      /\ UNCHANGED <<l3_stats_enabled, xtables>>
  BY DEF LockAndWork, Takes, NothingToDo, GoesOn
<1>2. Holders(d) = {} /\ NRules \in Nat /\ 1 \in 1 .. NRules + 1
  BY <1>1, L3Assumption DEF PollNetdev, AtWork
<1>3. /\ threads'[d][i].at = 1 /\ threads'[d][i].op = threads[d][i].op
      /\ Holders(d)' = {i}
  <2>1. /\ threads'[d][i].at = 1 /\ Holders(d)' = Holders(d) \cup {i}
        /\ \A j \in DOMAIN threads[d] : threads'[d][j].op = threads[d][j].op
    BY <1>1, <1>2, ThreadGoesOn
  <2> QED  BY <1>1, <1>2, <2>1
<1>4. AtWork(d)'
  BY <1>1, <1>3 DEF AtWork, OneHolder
<1>5. d \in torn' <=> d \in torn
  BY <1>1, Recorded DEF PollNetdev, Made
<1>6. Made(d)'
  <2>1. CASE d \in torn
    BY <1>1, <1>5, <2>1 DEF PollNetdev, Made
  <2>2. CASE d \notin torn
    <3>2. threads[d][i].op \in Ops
      BY <1>1, ThreadType
    <3>3. d \in l3_stats_enabled => xtables[d] = Run(1, NRules)
      BY <1>2, <2>2 DEF PollNetdev, Made
    <3>4. d \notin l3_stats_enabled => Whole(xtables[d])
      BY <1>2, <2>2 DEF PollNetdev, Made
    <3>5. ~Second(1) /\ 1 - 1 = 0
      BY <1>2, PairFacts
    <3>6. MadeBy(xtables[d], threads'[d][i])
      BY <1>1, <1>3, <3>2, <3>3, <3>4, <3>5 DEF MadeBy, Whole, Ops
    <3> QED  BY <1>1, <1>3, <1>5, <2>2, <3>6 DEF Made
  <2> QED  BY <2>1, <2>2
<1>7. ~Deleting(threads[d]) /\ threads[d][i].op \in Ops
  BY <1>1, <1>2, ThreadType DEF Deleting, Holders
<1>8. Deleting(threads'[d]) <=> threads[d][i].op = "delete"
  BY <1>3 DEF Deleting, Holders
<1>10. Overlaps(d)'
  <2>1. /\ poll'[d].at = poll[d].at /\ ~poll'[d].quiet
        /\ poll'[d].deleting <=> poll[d].deleting \/ Deleting(threads'[d])
    BY Recorded
  <2>2. poll[d].at # "idle" => poll[d].deleting \/ d \in l3_stats_enabled
    BY DEF PollNetdev, Overlaps
  <2> QED  BY <1>1, <1>7, <1>8, <2>1, <2>2 DEF Overlaps, Ops
<1> QED  BY <1>4, <1>6, <1>10 DEF PollNetdev

LEMMA PollReturn ==
    ASSUME L3TypeOK, PollTypeOK, NEW d \in Netdevs, PollNetdev(d), PollThreadStep(d),
           NEW i, LockAndReturn(d, i)
    PROVE  PollNetdev(d)'
<1>1. /\ i \in DOMAIN threads[d] /\ d \notin l3_stats_mutex
      /\ threads' = [threads EXCEPT ![d] = Without(@, i)]
      /\ UNCHANGED <<l3_stats_enabled, xtables>>
  BY DEF LockAndReturn, Takes
<1>2. Holders(d) = {}
  BY <1>1 DEF PollNetdev, AtWork
<1>3. Holders(d)' = {}
  BY <1>1, <1>2, ThreadEnds
<1>4. AtWork(d)'
  BY <1>3 DEF AtWork, OneHolder
<1>5. d \in torn' <=> d \in torn
  BY <1>1, Recorded DEF PollNetdev, Made
<1>6. Made(d)'
  BY <1>1, <1>2, <1>3, <1>5 DEF PollNetdev, Made
<1>8. Overlaps(d)'
  <2>1. /\ poll'[d].at = poll[d].at /\ ~poll'[d].quiet
        /\ poll'[d].deleting <=> poll[d].deleting \/ Deleting(threads'[d])
    BY Recorded
  <2> QED  BY <1>1, <1>3, <1>5, <2>1 DEF Overlaps, PollNetdev
<1> QED  BY <1>4, <1>6, <1>8 DEF PollNetdev

(* The thread that is past the lock handles a rule, or skips it.           *)
LEMMA PollRule ==
    ASSUME L3TypeOK, PollTypeOK, NEW d \in Netdevs, PollNetdev(d), PollThreadStep(d),
           NEW i, EditRule(d, i) \/ SkipRule(d, i)
    PROVE  PollNetdev(d)'
<1> DEFINE k == threads[d][i].at
           t == threads[d][i]
           w == IF EditRule(d, i) THEN k + 1 ELSE Skipped(k)
<1>1. /\ i \in DOMAIN threads[d] /\ k \in 1 .. NRules
      /\ UNCHANGED <<l3_stats_mutex, l3_stats_enabled>>
  BY DEF EditRule, SkipRule
<1>2. GoesOn(d, i, w)
  BY DEF EditRule, SkipRule, GoesOn, Skipped
<1>3. i \in Holders(d) /\ t \in Thread /\ t.op \in Ops
  BY <1>1, ThreadType, ElementOfSeq DEF Holders, L3TypeOK
<1>4. w \in 1 .. NRules + 1
  <2>1. k + 1 \in 1 .. NRules + 1
    BY <1>1, L3Assumption
  <2> HIDE DEF k
  <2> QED  BY <1>1, <2>1, SkippedType
<1>5. Holders(d) = {i}
  BY <1>3 DEF PollNetdev, AtWork, OneHolder
<1>6. threads'[d][i].at = w /\ threads'[d][i].op = t.op /\ Holders(d)' = {i}
  <2> HIDE DEF w
  <2>1. /\ threads'[d][i].at = w /\ Holders(d)' = Holders(d) \cup {i}
        /\ \A j \in DOMAIN threads[d] : threads'[d][j].op = threads[d][j].op
    BY <1>1, <1>2, <1>4, ThreadGoesOn
  <2> QED  BY <1>1, <1>5, <2>1
<1>7. AtWork(d)'
  <2>1. /\ d \in l3_stats_mutex
        /\ t.op = "create" => d \notin l3_stats_enabled
        /\ t.op = "delete" => d \in l3_stats_enabled
    BY <1>3 DEF PollNetdev, AtWork
  <2> HIDE DEF t
  <2> QED  BY <1>1, <1>6, <2>1 DEF AtWork, OneHolder
<1>8. d \in torn' <=> d \in torn /\ xtables'[d] # <<>>
  BY Recorded
<1>9. d \notin torn => MadeBy(xtables[d], t)
  BY <1>3 DEF PollNetdev, Made
<1> DEFINE e == IF t.op = "create" THEN RuleAdded(xtables[d], k) ELSE RuleDeleted(xtables[d], k)
<1>10. ASSUME d \notin torn' PROVE MadeBy(xtables'[d], threads'[d][i])
  <2>1. CASE EditRule(d, i)
    <3>1. xtables'[d] = e /\ w = k + 1 /\ Acts(xtables[d], t)
      BY <2>1 DEF EditRule, L3TypeOK
    <3>2. CASE d \notin torn
      <4>1. MadeBy(e, threads'[d][i])
        <5>1. threads'[d][i].op = t.op /\ threads'[d][i].at = t.at + 1
          BY <1>6, <3>1
        <5> HIDE DEF t
        <5> QED  BY <1>1, <1>3, <1>9, <3>1, <3>2, <5>1, MadeEdit DEF t
      <4> QED  BY <3>1, <4>1
    <3>3. CASE d \in torn
      <4>1. e = <<>>
        BY <1>8, <1>10, <3>1, <3>3
      <4>2. RuleAdded(xtables[d], k) # <<>>
        BY <1>1, EditedType DEF L3TypeOK
      <4>3. t.op # "create"
        BY <4>1, <4>2
      <4> QED  BY <1>6, <3>1, <4>1, <4>3 DEF MadeBy
    <3> QED  BY <3>2, <3>3
  <2>2. CASE SkipRule(d, i) /\ ~EditRule(d, i)
    <3>1. xtables'[d] = xtables[d] /\ w = Skipped(k) /\ ~Acts(xtables[d], t)
      BY <2>2 DEF SkipRule
    <3>2. d \notin torn
      BY <1>8, <1>10, <3>1 DEF PollNetdev, Made
    <3>3. threads'[d][i].op = t.op /\ threads'[d][i].at = Skipped(t.at)
      BY <1>6, <3>1
    <3>4. MadeBy(xtables[d], threads'[d][i])
      <4> HIDE DEF t
      <4> QED  BY <1>1, <1>3, <1>9, <3>1, <3>2, <3>3, MadeSkip DEF t
    <3> QED  BY <3>1, <3>4
  <2> QED  BY <2>1, <2>2
<1>11. Made(d)'
  BY <1>6, <1>8, <1>10 DEF Made
<1>12. Overlaps(d)'
  <2>1. /\ poll'[d].at = poll[d].at /\ ~poll'[d].quiet
        /\ poll'[d].deleting <=> poll[d].deleting \/ Deleting(threads'[d])
    BY Recorded
  <2>2. poll[d].at # "idle" => poll[d].deleting
    BY <1>5 DEF PollNetdev, Overlaps
  <2> QED  BY <2>1, <2>2 DEF Overlaps
<1> QED  BY <1>7, <1>11, <1>12 DEF PollNetdev

LEMMA PollFinish ==
    ASSUME L3TypeOK, PollTypeOK, NEW d \in Netdevs, PollNetdev(d), PollThreadStep(d),
           NEW i, Finish(d, i)
    PROVE  PollNetdev(d)'
<1> DEFINE t == threads[d][i]
<1>1. /\ i \in DOMAIN threads[d] /\ t.at = NRules + 1
      /\ d \in l3_stats_enabled' <=> t.op = "create"
      /\ threads' = [threads EXCEPT ![d] = Without(@, i)]
      /\ UNCHANGED xtables
  BY DEF Finish
<1>2. i \in Holders(d) /\ t.op \in Ops /\ NRules \in Nat
  BY <1>1, ThreadType, L3Assumption DEF Holders
<1>3. Holders(d) = {i}
  BY <1>2 DEF PollNetdev, AtWork, OneHolder
<1>4. Holders(d)' = {}
  BY <1>1, <1>3, ThreadEnds
<1>5. d \in torn' <=> d \in torn
  BY <1>1, Recorded DEF PollNetdev, Made
<1>6. d \notin torn => MadeBy(xtables[d], t)
  BY <1>2 DEF PollNetdev, Made
<1>7. AtWork(d)'
  BY <1>4 DEF AtWork, OneHolder
<1>8. Made(d)'
  <2>1. CASE d \in torn
    BY <1>1, <1>5, <2>1 DEF PollNetdev, Made
  <2>2. CASE d \notin torn
    <3>1. /\ (NRules + 1) - 1 = NRules /\ NRules .. NRules = {NRules}
          /\ Run(NRules + 1, NRules) = <<>> /\ Run(1, 0) = <<>>
      <4>1. NRules + 1 \in Nat /\ NRules + 1 <= NRules + 1 /\ 0 \in Nat /\ 1 <= 0 + 1
        BY <1>2
      <4> QED  BY <1>2, <4>1, RunFacts
    <3>2. t.op = "create" => xtables[d] = Run(1, NRules)
      <4> HIDE DEF t
      <4> QED  BY <1>1, <1>6, <2>2, <3>1 DEF MadeBy
    <3>3. t.op = "delete" => xtables[d] = <<>>
      <4> HIDE DEF t
      <4> QED  BY <1>1, <1>6, <2>2, <3>1 DEF MadeBy
    <3>4. Whole(<<>>)
      <4>1. 0 \in 0 .. NRules /\ 0 \notin Pairs
        BY <1>2, PairFacts
      <4> QED  BY <3>1, <4>1 DEF Whole
    <3> HIDE DEF t
    <3> QED  BY <1>1, <1>2, <1>4, <1>5, <2>2, <3>2, <3>3, <3>4 DEF Made, Ops
  <2> QED  BY <2>1, <2>2
<1>10. Overlaps(d)'
  <2>1. /\ poll'[d].at = poll[d].at /\ ~poll'[d].quiet
        /\ poll'[d].deleting <=> poll[d].deleting \/ Deleting(threads'[d])
    BY Recorded
  <2>2. poll[d].at # "idle" => poll[d].deleting
    BY <1>3 DEF PollNetdev, Overlaps
  <2> QED  BY <2>1, <2>2 DEF Overlaps
<1> QED  BY <1>7, <1>8, <1>10 DEF PollNetdev

(* A step that leaves the threads of d at their places, and d's mutex,     *)
(* flag and rules alone.                                                   *)
LEMMA SamePollNetdev ==
    ASSUME NEW d \in Netdevs, PollNetdev(d), Holders(d)' = Holders(d),
           \A i \in Holders(d) : threads'[d][i] = threads[d][i],
           d \in l3_stats_mutex => d \in l3_stats_mutex',
           d \in l3_stats_enabled' <=> d \in l3_stats_enabled,
           d \in torn' <=> d \in torn,
           xtables'[d] = xtables[d]
    PROVE  /\ AtWork(d)' /\ Made(d)'
           /\ poll'[d] = poll[d] => Overlaps(d)'
<1>1. AtWork(d)'
  BY DEF PollNetdev, AtWork, OneHolder
<1>2. Made(d)'
  BY DEF PollNetdev, Made
<1>3. poll'[d] = poll[d] => Overlaps(d)'
  BY DEF PollNetdev, Overlaps
<1> QED  BY <1>1, <1>2, <1>3

(* What a join or a leave starts: threads that have not begun.             *)
LEMMA JoinThreads ==
    ASSUME L3TypeOK, NEW e \in Netdevs, JoinOrLeave(e), NEW d \in Netdevs
    PROVE  /\ threads'[d] \in Seq(Thread) /\ started'[d] \in 0 .. MaxThreads
           /\ Holders(d)' = Holders(d)
           /\ \A i \in Holders(d) : threads'[d][i] = threads[d][i]
<1> DEFINE new == [f \in Netdevs |->
                     IF f # e THEN <<>> ELSE IF e \in joined THEN <<"delete">> ELSE <<"create">>]
<1>1. StartThreads(new)
  BY DEF JoinOrLeave
<1>2. new[d] \in Seq(Ops) /\ Len(new[d]) \in Nat
  <2>1. <<>> \in Seq(Ops) /\ <<"delete">> \in Seq(Ops) /\ <<"create">> \in Seq(Ops)
    BY DEF Ops
  <2>2. new[d] \in {<<>>, <<"delete">>, <<"create">>}
    OBVIOUS
  <2>3. new[d] \in Seq(Ops)
    BY <2>1, <2>2
  <2> HIDE DEF new
  <2> QED  BY <2>3, LenProperties
<1> HIDE DEF new
<1> DEFINE q == threads[d]
           c == new[d]
           r == q \o [k \in 1 .. Len(c) |-> [op |-> c[k], at |-> 0]]
<1>3. threads'[d] = r /\ started'[d] = started[d] + Len(c) /\ started[d] + Len(c) <= MaxThreads
  BY <1>1 DEF StartThreads
<1>4. q \in Seq(Thread) /\ started[d] \in Nat
  BY DEF L3TypeOK
<1>5. Len(q) \in Nat /\ DOMAIN q = 1 .. Len(q)
  BY <1>4, LenProperties
<1> HIDE DEF c, q
<1>6. /\ r \in Seq(Thread) /\ DOMAIN r = 1 .. Len(q) + Len(c)
      /\ \A j \in 1 .. Len(q) : r[j] = q[j]
      /\ \A j \in 1 .. Len(c) : r[Len(q) + j] = [op |-> c[j], at |-> 0]
  BY <1>2, <1>4, StartedFacts DEF c
<1> HIDE DEF r
<1>7. started'[d] \in 0 .. MaxThreads
  BY <1>2, <1>3, <1>4, L3Assumption DEF c
<1>8. ASSUME NEW j \in DOMAIN r, j \notin DOMAIN q
      PROVE  r[j].at = 0
  <2>1. j - Len(q) \in 1 .. Len(c) /\ Len(q) + (j - Len(q)) = j
    BY <1>2, <1>5, <1>6, <1>8 DEF c
  <2>2. r[j] = [op |-> c[j - Len(q)], at |-> 0]
    BY <1>6, <2>1
  <2> QED  BY <2>2
<1>9. \A j \in DOMAIN q : j \in DOMAIN r /\ r[j] = q[j]
  BY <1>2, <1>5, <1>6 DEF c
<1>10. {j \in DOMAIN r : r[j].at > 0} = {j \in DOMAIN q : q[j].at > 0}
  BY <1>8, <1>9
<1> QED  BY <1>3, <1>6, <1>7, <1>9, <1>10 DEF Holders, q

(* A thread step of e leaves the netdev d alone.                           *)
LEMMA OtherThread ==
    ASSUME L3TypeOK, PollTypeOK, NEW e \in Netdevs, PollThreadStep(e),
           NEW d \in Netdevs, d # e, PollNetdev(d)
    PROVE  PollNetdev(d)'
<1>1. PICK i : LockAndWork(e, i) \/ LockAndReturn(e, i) \/ EditRule(e, i) \/ SkipRule(e, i)
           \/ Finish(e, i)
  BY DEF PollThreadStep, ThreadStep
<1>2. threads'[d] = threads[d] /\ xtables'[d] = xtables[d]
  BY <1>1 DEF LockAndWork, LockAndReturn, EditRule, SkipRule, Finish, L3TypeOK
<1>3. /\ d \in l3_stats_mutex => d \in l3_stats_mutex'
      /\ d \in l3_stats_enabled' <=> d \in l3_stats_enabled
  BY <1>1 DEF LockAndWork, LockAndReturn, EditRule, SkipRule, Finish, Takes
<1>4. poll'[d] = poll[d] /\ (d \in torn' <=> d \in torn)
  BY DEF PollThreadStep, PollTypeOK
<1>5. Holders(d)' = Holders(d)
  BY <1>2 DEF Holders
<1> QED  BY <1>2, <1>3, <1>4, <1>5, SamePollNetdev DEF PollNetdev

(* A poll begins.                                                          *)
LEMMA PollBegins ==
    ASSUME L3TypeOK, PollTypeOK, NEW d \in Netdevs, netdev_sim_get_stats(d), PollNetdev(d)
    PROVE  Overlaps(d)'
<1>1. d \in l3_stats_enabled /\ UNCHANGED <<threads, l3_stats_enabled, torn>>
  BY DEF netdev_sim_get_stats, l3vars
<1> DEFINE x == Holders(d) = {} /\ d \notin torn
           y == Deleting(threads[d]) \/ d \in torn
<1>2. poll'[d] = [at |-> "rx", quiet |-> x, deleting |-> y]
  BY DEF netdev_sim_get_stats, PollTypeOK
<1>3. x => ~y
  BY DEF Deleting, Holders
<1>4. y \/ (Holders(d) = {} /\ d \notin torn)
  <2> SUFFICES ASSUME d \notin torn, NEW i \in Holders(d)
               PROVE  Deleting(threads[d])
    OBVIOUS
  <2>1. threads[d][i].op \in Ops /\ i \in DOMAIN threads[d] /\ threads[d][i].at > 0
    BY ThreadType DEF Holders
  <2>2. threads[d][i].op # "create"
    BY <1>1 DEF PollNetdev, AtWork
  <2> QED  BY <2>1, <2>2 DEF Deleting, Ops
<1> HIDE DEF x, y
<1>5. poll'[d].quiet = x /\ poll'[d].deleting = y
  BY <1>2
<1>6. Holders(d)' = Holders(d)
  BY <1>1 DEF Holders
<1> QED  BY <1>1, <1>3, <1>4, <1>5, <1>6 DEF Overlaps

(* A direction is read.                                                    *)
LEMMA PollReads ==
    ASSUME PollTypeOK, NEW e \in Netdevs, netdev_sim_get_kernel_l3_stats(e), NEW d \in Netdevs,
           PollNetdev(d)
    PROVE  Overlaps(d)'
<1>1. UNCHANGED <<threads, l3_stats_enabled, torn>>
  BY DEF netdev_sim_get_kernel_l3_stats, l3vars
<1>2. \E a : poll' = [poll EXCEPT ![e].at = a]
  BY DEF netdev_sim_get_kernel_l3_stats
<1>3. PICK a : poll' = [poll EXCEPT ![e].at = a]
  BY <1>2
<1>4. poll[e].at # "idle"
  BY DEF netdev_sim_get_kernel_l3_stats
<1>5. poll'[d].quiet = poll[d].quiet /\ poll'[d].deleting = poll[d].deleting
  BY <1>3 DEF PollTypeOK
<1>6. d # e => poll'[d] = poll[d]
  BY <1>3 DEF PollTypeOK
<1>7. Holders(d)' = Holders(d)
  BY <1>1 DEF Holders
<1> QED  BY <1>1, <1>4, <1>5, <1>6, <1>7 DEF Overlaps, PollNetdev

(* The process dies.                                                       *)
LEMMA PollRestart ==
    ASSUME L3TypeOK, PollTypeOK, Restart, NEW d \in Netdevs, PollNetdev(d)
    PROVE  PollNetdev(d)'
<1>1. /\ threads'[d] = <<>> /\ d \notin l3_stats_enabled' /\ poll'[d] = Idle
      /\ UNCHANGED xtables
      /\ d \in torn' <=> /\ xtables[d] # <<>>
                         /\ d \in torn \/ Deleting(threads[d]) \/ InPair(threads[d])
  BY DEF Restart
<1>2. Holders(d)' = {} /\ poll'[d].at = "idle"
  BY <1>1 DEF Holders, Idle
<1>3. NRules \in Nat /\ 0 \notin Pairs /\ NRules \notin Pairs /\ Run(1, 0) = <<>>
  <2>1. NRules \in Nat /\ 0 \in 0 .. NRules /\ 0 \in Nat /\ 1 <= 0 + 1
    BY L3Assumption
  <2> QED  BY <2>1, PairFacts, RunFacts
<1>4. ASSUME d \notin torn' PROVE Whole(xtables[d])
  <2>1. CASE xtables[d] = <<>>
    BY <1>3, <2>1 DEF Whole
  <2>2. CASE xtables[d] # <<>>
    <3>1. d \notin torn /\ ~Deleting(threads[d]) /\ ~InPair(threads[d])
      BY <1>1, <1>4, <2>2
    <3>2. CASE Holders(d) = {}
      <4>1. xtables[d] = Run(1, NRules) \/ Whole(xtables[d])
        BY <3>1, <3>2 DEF PollNetdev, Made
      <4> QED  BY <1>3, <4>1 DEF Whole
    <3>3. CASE Holders(d) # {}
      <4>1. PICK i \in Holders(d) : TRUE
        BY <3>3
      <4> DEFINE t == threads[d][i]
      <4>2. i \in DOMAIN threads[d] /\ t.at > 0 /\ t.op \in Ops /\ t \in Thread
        BY <4>1, ThreadType, ElementOfSeq DEF Holders, L3TypeOK
      <4>3. t.op = "create" /\ ~Second(t.at)
        BY <3>1, <4>2 DEF Deleting, InPair, Ops
      <4>4. MadeBy(xtables[d], t)
        BY <3>1, <4>1 DEF PollNetdev, Made
      <4>5. t.at \in Nat /\ ~(t.at = 0)
        BY <4>2, <1>3 DEF Thread
      <4> HIDE DEF t
      <4>6. PICK m \in t.at - 1 .. NRules : xtables[d] = Run(1, m) /\ m \notin Pairs
        BY <4>3, <4>4 DEF MadeBy
      <4>7. m \in 0 .. NRules
        BY <1>3, <4>5, <4>6
      <4> QED  BY <4>6, <4>7 DEF Whole
    <3> QED  BY <3>2, <3>3
  <2> QED  BY <2>1, <2>2
<1> QED  BY <1>1, <1>2, <1>4 DEF PollNetdev, AtWork, OneHolder, Made, Overlaps

(* The lines of a complete list up to each rule, in either direction.      *)
LEMMA RxLines ==
    /\ Cardinality({1}) = 1 /\ Cardinality({1, 2}) = 2
    /\ Cardinality({1, 2, 5}) = 3 /\ Cardinality({1, 2, 5, 7}) = 4
<1> DEFINE A == {1}
           B == {1, 2}
           C == {1, 2, 5}
           D == {1, 2, 5, 7}
<1>1. IsFiniteSet(A) /\ Cardinality(A) = 1
  BY FS_Singleton
<1>2. B = A \cup {2} /\ 2 \notin A
  OBVIOUS
<1>3. C = B \cup {5} /\ 5 \notin B
  OBVIOUS
<1>4. D = C \cup {7} /\ 7 \notin C
  OBVIOUS
<1> SUFFICES Cardinality(A) = 1 /\ Cardinality(B) = 2 /\ Cardinality(C) = 3 /\ Cardinality(D) = 4
  OBVIOUS
<1> HIDE DEF A, B, C, D
<1>5. IsFiniteSet(B) /\ Cardinality(B) = 2
  BY <1>1, <1>2, FS_AddElement
<1>6. IsFiniteSet(C) /\ Cardinality(C) = 3
  BY <1>3, <1>5, FS_AddElement
<1>7. Cardinality(D) = 4
  BY <1>4, <1>6, FS_AddElement
<1> QED  BY <1>1, <1>5, <1>6, <1>7

LEMMA TxLines ==
    /\ Cardinality({6}) = 1 /\ Cardinality({6, 8}) = 2
    /\ Cardinality({6, 8, 3}) = 3 /\ Cardinality({6, 8, 3, 4}) = 4
<1> DEFINE A == {6}
           B == {6, 8}
           C == {6, 8, 3}
           D == {6, 8, 3, 4}
<1>1. IsFiniteSet(A) /\ Cardinality(A) = 1
  BY FS_Singleton
<1>2. B = A \cup {8} /\ 8 \notin A
  OBVIOUS
<1>3. C = B \cup {3} /\ 3 \notin B
  OBVIOUS
<1>4. D = C \cup {4} /\ 4 \notin C
  OBVIOUS
<1> SUFFICES Cardinality(A) = 1 /\ Cardinality(B) = 2 /\ Cardinality(C) = 3 /\ Cardinality(D) = 4
  OBVIOUS
<1> HIDE DEF A, B, C, D
<1>5. IsFiniteSet(B) /\ Cardinality(B) = 2
  BY <1>1, <1>2, FS_AddElement
<1>6. IsFiniteSet(C) /\ Cardinality(C) = 3
  BY <1>3, <1>5, FS_AddElement
<1>7. Cardinality(D) = 4
  BY <1>4, <1>6, FS_AddElement
<1> QED  BY <1>1, <1>5, <1>6, <1>7

(* A poll that has met no delete thread reads all rules of its direction,  *)
(* and takes each for what it is.                                          *)
LEMMA PollExact ==
    ASSUME NRules = 8, PollInv, NEW d \in Netdevs, NEW dir \in Directions,
           poll[d].at # "idle", ~poll[d].deleting
    PROVE  LET s == netdev_sim_parse_xtables_l3_stats(d, dir)
           IN  Unmixed(s) /\ s.uc \cup s.mc = RulesOf(dir)
<1> DEFINE q == xtables[d]
           s == netdev_sim_parse_xtables_l3_stats(d, dir)
           L == Lines(q, dir)
           Upto(i) == {j \in L : \/ Chain(q[j]) < Chain(q[i])
                                 \/ Chain(q[j]) = Chain(q[i]) /\ j <= i}
<1>1. d \in l3_stats_enabled /\ Holders(d) = {} /\ d \notin torn
  BY DEF PollInv, PollNetdev, Overlaps
<1>2. q = Run(1, 8)
  BY <1>1 DEF PollInv, PollNetdev, Made
<1>3. DOMAIN q = 1 .. 8 /\ \A k \in 1 .. 8 : q[k] = k
  <2>1. DOMAIN Run(1, 8) = 1 .. 8 - 1 + 1 /\ \A k \in 1 .. 8 - 1 + 1 : Run(1, 8)[k] = 1 + k - 1
    <3>1. 1 \in Nat /\ 8 \in Nat /\ 1 <= 8 + 1
      OBVIOUS
    <3> QED  BY <3>1, RunFacts
  <2>2. 8 - 1 + 1 = 8 /\ \A k \in 1 .. 8 : 1 + k - 1 = k
    OBVIOUS
  <2> QED  BY <1>2, <2>1, <2>2
<1>4. /\ Chain(1) = 1 /\ Chain(2) = 1 /\ Chain(3) = 3 /\ Chain(4) = 3
      /\ Chain(5) = 2 /\ Chain(6) = 2 /\ Chain(7) = 2 /\ Chain(8) = 2
  BY DEF Chain
<1>5. /\ Unicast(1) /\ Unicast(3) /\ Unicast(5) /\ Unicast(6)
      /\ ~Unicast(2) /\ ~Unicast(4) /\ ~Unicast(7) /\ ~Unicast(8)
  BY DEF Unicast
<1>6. L = RulesOf(dir)
  <2>1. RulesOf(dir) \subseteq 1 .. 8
    BY DEF RulesOf
  <2>2. L = {i \in 1 .. 8 : q[i] \in RulesOf(dir)}
    BY <1>3 DEF Lines
  <2> HIDE DEF q, L
  <2> QED  BY <1>3, <2>1, <2>2
<1>7. /\ s.uc = {q[i] : i \in {j \in L : LineNo(q, dir, j) \in {1, 3}}}
      /\ s.mc = {q[i] : i \in {j \in L : LineNo(q, dir, j) \in {2, 4}}}
  BY DEF netdev_sim_parse_xtables_l3_stats
<1>8. \A i : LineNo(q, dir, i) = Cardinality(Upto(i))
  BY DEF LineNo
<1> HIDE DEF q, s, L
<1>9. CASE dir = "rx"
  <2>1. L = {1, 2, 5, 7} /\ RulesOf(dir) = {1, 2, 5, 7}
    BY <1>6, <1>9 DEF RulesOf
  <2>2. q[1] = 1 /\ q[2] = 2 /\ q[5] = 5 /\ q[7] = 7
    BY <1>3
  <2>3. Upto(1) = {1} /\ Upto(2) = {1, 2} /\ Upto(5) = {1, 2, 5} /\ Upto(7) = {1, 2, 5, 7}
    BY <1>4, <2>1, <2>2
  <2>4. /\ Cardinality({1}) = 1 /\ Cardinality({1, 2}) = 2
        /\ Cardinality({1, 2, 5}) = 3 /\ Cardinality({1, 2, 5, 7}) = 4
    BY RxLines
  <2>5. /\ LineNo(q, dir, 1) = 1 /\ LineNo(q, dir, 2) = 2
        /\ LineNo(q, dir, 5) = 3 /\ LineNo(q, dir, 7) = 4
    <3>1. /\ LineNo(q, dir, 1) = Cardinality(Upto(1)) /\ LineNo(q, dir, 2) = Cardinality(Upto(2))
          /\ LineNo(q, dir, 5) = Cardinality(Upto(5)) /\ LineNo(q, dir, 7) = Cardinality(Upto(7))
      BY <1>8
    <3> HIDE DEF Upto
    <3> QED  BY <2>3, <2>4, <3>1, Zenon
  <2>6. /\ {j \in L : LineNo(q, dir, j) \in {1, 3}} = {1, 5}
        /\ {j \in L : LineNo(q, dir, j) \in {2, 4}} = {2, 7}
    BY <2>1, <2>5
  <2>7. s.uc = {1, 5} /\ s.mc = {2, 7}
    <3>1. {q[i] : i \in {1, 5}} = {1, 5} /\ {q[i] : i \in {2, 7}} = {2, 7}
      BY <2>2
    <3> QED  BY <1>7, <2>6, <3>1
  <2> QED  BY <1>5, <2>1, <2>7 DEF Unmixed, s
<1>10. CASE dir = "tx"
  <2>1. L = {6, 8, 3, 4} /\ RulesOf(dir) = {3, 4, 6, 8}
    BY <1>6, <1>10 DEF RulesOf
  <2>2. q[3] = 3 /\ q[4] = 4 /\ q[6] = 6 /\ q[8] = 8
    BY <1>3
  <2>3. Upto(6) = {6} /\ Upto(8) = {6, 8} /\ Upto(3) = {6, 8, 3} /\ Upto(4) = {6, 8, 3, 4}
    BY <1>4, <2>1, <2>2
  <2>4. /\ Cardinality({6}) = 1 /\ Cardinality({6, 8}) = 2
        /\ Cardinality({6, 8, 3}) = 3 /\ Cardinality({6, 8, 3, 4}) = 4
    BY TxLines
  <2>5. /\ LineNo(q, dir, 6) = 1 /\ LineNo(q, dir, 8) = 2
        /\ LineNo(q, dir, 3) = 3 /\ LineNo(q, dir, 4) = 4
    <3>1. /\ LineNo(q, dir, 6) = Cardinality(Upto(6)) /\ LineNo(q, dir, 8) = Cardinality(Upto(8))
          /\ LineNo(q, dir, 3) = Cardinality(Upto(3)) /\ LineNo(q, dir, 4) = Cardinality(Upto(4))
      BY <1>8
    <3> HIDE DEF Upto
    <3> QED  BY <2>3, <2>4, <3>1, Zenon
  <2>6. /\ {j \in L : LineNo(q, dir, j) \in {1, 3}} = {6, 3}
        /\ {j \in L : LineNo(q, dir, j) \in {2, 4}} = {8, 4}
    BY <2>1, <2>5
  <2>7. s.uc = {6, 3} /\ s.mc = {8, 4}
    <3>1. {q[i] : i \in {6, 3}} = {6, 3} /\ {q[i] : i \in {8, 4}} = {8, 4}
      BY <2>2
    <3> QED  BY <1>7, <2>6, <3>1
  <2> QED  BY <1>5, <2>1, <2>7 DEF Unmixed, s
<1> QED  BY <1>9, <1>10 DEF Directions

LEMMA ParseType ==
    ASSUME L3TypeOK, PollTypeOK, NEW d \in Netdevs, NEW dir \in Directions
    PROVE  netdev_sim_parse_xtables_l3_stats(d, dir) \in Readings
<1>1. xtables[d] \in Seq(1 .. NRules) /\ NRules \in Nat
  BY L3Assumption DEF L3TypeOK
<1>2. \A i \in DOMAIN xtables[d] : xtables[d][i] \in Nat
  BY <1>1, ElementOfSeq, LenProperties
<1>3. \A i \in Lines(xtables[d], dir) : i \in DOMAIN xtables[d]
  BY DEF Lines
<1>4. poll[d].quiet \in BOOLEAN /\ poll[d].deleting \in BOOLEAN
  BY DEF PollTypeOK
<1> QED  BY <1>2, <1>3, <1>4 DEF netdev_sim_parse_xtables_l3_stats, Readings

LEMMA PollTypeStep ==
    ASSUME PollInv, PollNext
    PROVE  PollTypeOK'
<1> USE DEF PollInv
<1>1. CASE Restart
  <2>1. torn' \subseteq Netdevs
    BY <1>1 DEF Restart
  <2>2. poll' = [d \in Netdevs |-> Idle]
        /\ l3stats' = [d \in Netdevs |-> [dir \in Directions |-> NoReading]]
    BY <1>1 DEF Restart
  <2>3. Idle \in [at: Directions \cup {"idle"}, quiet: BOOLEAN, deleting: BOOLEAN]
    BY DEF Idle
  <2>4. NoReading \in Readings
    BY DEF NoReading, Readings
  <2> QED  BY <2>1, <2>2, <2>3, <2>4 DEF PollTypeOK
<1>2. ASSUME NEW d \in Netdevs, JoinOrLeave(d)
      PROVE  PollTypeOK'
  BY <1>2 DEF JoinOrLeave, PollTypeOK
<1>3. ASSUME NEW d \in Netdevs, PollThreadStep(d)
      PROVE  PollTypeOK'
  <2>1. torn' \subseteq Netdevs /\ UNCHANGED l3stats
    BY <1>3 DEF PollThreadStep, PollTypeOK
  <2>3. poll' \in [Netdevs -> [at: Directions \cup {"idle"}, quiet: BOOLEAN, deleting: BOOLEAN]]
    <3> DEFINE x == poll[d].deleting \/ Deleting(threads'[d])
               v == [poll[d] EXCEPT !.quiet = FALSE, !.deleting = x]
    <3>1. poll' = [poll EXCEPT ![d] = v]
      BY <1>3 DEF PollThreadStep, PollTypeOK
    <3>2. x \in BOOLEAN
      OBVIOUS
    <3> HIDE DEF x
    <3>3. v \in [at: Directions \cup {"idle"}, quiet: BOOLEAN, deleting: BOOLEAN]
      BY <3>2 DEF PollTypeOK
    <3> HIDE DEF v
    <3> QED  BY <3>1, <3>3 DEF PollTypeOK
  <2> QED  BY <2>1, <2>3 DEF PollTypeOK
<1>4. ASSUME NEW d \in Netdevs, netdev_sim_get_stats(d)
      PROVE  PollTypeOK'
  <2> DEFINE x == Holders(d) = {} /\ d \notin torn
             y == Deleting(threads[d]) \/ d \in torn
  <2>1. x \in BOOLEAN /\ y \in BOOLEAN
    OBVIOUS
  <2>2. poll' = [poll EXCEPT ![d] = [at |-> "rx", quiet |-> x, deleting |-> y]]
    BY <1>4 DEF netdev_sim_get_stats
  <2> HIDE DEF x, y
  <2>3. [at |-> "rx", quiet |-> x, deleting |-> y]
        \in [at: Directions \cup {"idle"}, quiet: BOOLEAN, deleting: BOOLEAN]
    BY <2>1 DEF Directions
  <2>4. poll' \in [Netdevs -> [at: Directions \cup {"idle"}, quiet: BOOLEAN, deleting: BOOLEAN]]
    BY <2>2, <2>3 DEF PollTypeOK
  <2> QED  BY <1>4, <2>4 DEF netdev_sim_get_stats, PollTypeOK
<1>5. ASSUME NEW d \in Netdevs, netdev_sim_get_kernel_l3_stats(d)
      PROVE  PollTypeOK'
  <2> DEFINE dir == poll[d].at
  <2>1. poll[d] \in [at: Directions \cup {"idle"}, quiet: BOOLEAN, deleting: BOOLEAN]
    BY DEF PollTypeOK
  <2>2. dir \in Directions /\ UNCHANGED torn
    BY <1>5, <2>1 DEF netdev_sim_get_kernel_l3_stats
  <2>3. PICK a \in {"tx", "idle"} : poll' = [poll EXCEPT ![d].at = a]
    BY <1>5 DEF netdev_sim_get_kernel_l3_stats
  <2>4. poll' = [poll EXCEPT ![d] = [poll[d] EXCEPT !.at = a]]
    BY <2>3 DEF PollTypeOK
  <2>5. [poll[d] EXCEPT !.at = a]
        \in [at: Directions \cup {"idle"}, quiet: BOOLEAN, deleting: BOOLEAN]
    BY <2>1 DEF Directions
  <2>6. poll' \in [Netdevs -> [at: Directions \cup {"idle"}, quiet: BOOLEAN, deleting: BOOLEAN]]
    BY <2>4, <2>5 DEF PollTypeOK
  <2>7. l3stats' \in [Netdevs -> [Directions -> Readings]]
    <3> DEFINE s == netdev_sim_parse_xtables_l3_stats(d, dir)
    <3>1. s \in Readings
      BY <2>2, ParseType
    <3>2. l3stats' = l3stats \/ l3stats' = [l3stats EXCEPT ![d][dir] = s]
      BY <1>5 DEF netdev_sim_get_kernel_l3_stats
    <3> HIDE DEF s, dir
    <3>3. [l3stats[d] EXCEPT ![dir] = s] \in [Directions -> Readings]
      BY <2>2, <3>1 DEF PollTypeOK
    <3>4. l3stats' = l3stats \/ l3stats' = [l3stats EXCEPT ![d] = [l3stats[d] EXCEPT ![dir] = s]]
      BY <3>2
    <3> QED  BY <3>3, <3>4 DEF PollTypeOK
  <2> QED  BY <2>2, <2>6, <2>7 DEF PollTypeOK
<1> QED  BY <1>1, <1>2, <1>3, <1>4, <1>5 DEF PollNext

LEMMA PollInitInv ==
    ASSUME PollInit
    PROVE  PollInv
<1>1. L3TypeOK
  BY LockedInit DEF PollInit
<1>2. PollTypeOK
  <2>1. Idle \in [at: Directions \cup {"idle"}, quiet: BOOLEAN, deleting: BOOLEAN]
    BY DEF Idle
  <2>2. NoReading \in Readings
    BY DEF NoReading, Readings
  <2> QED  BY <2>1, <2>2 DEF PollInit, PollTypeOK
<1>3. ASSUME NEW d \in Netdevs
      PROVE  PollNetdev(d)
  <2>1. threads[d] = <<>> /\ l3_stats_enabled = {} /\ xtables[d] = <<>> /\ poll[d] = Idle
        /\ torn = {}
    BY DEF PollInit, L3Init
  <2>2. Holders(d) = {} /\ poll[d].at = "idle"
    BY <2>1 DEF Holders, Idle
  <2>3. Whole(<<>>)
    <3>1. NRules \in Nat /\ 0 \in 0 .. NRules /\ 0 \in Nat /\ 1 <= 0 + 1
      BY L3Assumption
    <3>2. 0 \notin Pairs /\ Run(1, 0) = <<>>
      BY <3>1, PairFacts, RunFacts
    <3> QED  BY <3>1, <3>2 DEF Whole
  <2> QED  BY <2>1, <2>2, <2>3 DEF PollNetdev, AtWork, OneHolder, Made, Overlaps
<1> QED  BY <1>1, <1>2, <1>3 DEF PollInv

LEMMA PollL3TypeStep ==
    ASSUME L3TypeOK, PollNext
    PROVE  L3TypeOK'
<1>1. CASE Restart
  <2>1. <<>> \in Seq(Thread)
    OBVIOUS
  <2>2. threads' \in [Netdevs -> Seq(Thread)]
    BY <1>1, <2>1 DEF Restart
  <2> QED  BY <1>1, <2>2 DEF Restart, L3TypeOK
<1>2. ASSUME NEW e \in Netdevs, JoinOrLeave(e)
      PROVE  L3TypeOK'
  <2>1. \A d \in Netdevs : threads'[d] \in Seq(Thread) /\ started'[d] \in 0 .. MaxThreads
    BY <1>2, JoinThreads
  <2>2. /\ threads' = [d \in Netdevs |-> threads'[d]] /\ started' = [d \in Netdevs |-> started'[d]]
        /\ UNCHANGED <<alive, l3_stats_mutex, l3_stats_enabled, xtables, overtaken>>
    BY <1>2 DEF JoinOrLeave, StartThreads
  <2>3. threads' \in [Netdevs -> Seq(Thread)] /\ started' \in [Netdevs -> 0 .. MaxThreads]
    BY <2>1, <2>2
  <2> QED  BY <2>2, <2>3 DEF L3TypeOK
<1>3. ASSUME NEW d \in Netdevs, PollThreadStep(d)
      PROVE  L3TypeOK'
  BY <1>3, ThreadStepType DEF PollThreadStep
<1>4. ASSUME NEW d \in Netdevs, netdev_sim_get_stats(d) \/ netdev_sim_get_kernel_l3_stats(d)
      PROVE  L3TypeOK'
  <2>1. UNCHANGED l3vars
    BY <1>4 DEF netdev_sim_get_stats, netdev_sim_get_kernel_l3_stats
  <2> QED  BY <2>1 DEF l3vars, L3TypeOK
<1> QED  BY <1>1, <1>2, <1>3, <1>4 DEF PollNext

LEMMA PollInvStep ==
    ASSUME PollInv, [PollNext]_l3pollvars
    PROVE  PollInv'
<1>1. CASE UNCHANGED l3pollvars
  <2>1. L3TypeOK' /\ PollTypeOK'
    BY <1>1 DEF l3pollvars, l3vars, pollvars, PollInv, L3TypeOK, PollTypeOK
  <2>2. ASSUME NEW d \in Netdevs
        PROVE  PollNetdev(d)'
    <3>1. Holders(d)' = Holders(d)
      BY <1>1 DEF l3pollvars, l3vars, Holders
    <3>2. PollNetdev(d)
      BY <2>2 DEF PollInv
    <3>3. /\ UNCHANGED <<threads, l3_stats_mutex, l3_stats_enabled, xtables>>
          /\ UNCHANGED <<torn, poll>>
      BY <1>1 DEF l3pollvars, l3vars, pollvars
    <3> QED  BY <3>1, <3>2, <3>3, SamePollNetdev DEF PollNetdev
  <2> QED  BY <2>1, <2>2 DEF PollInv
<1>2. CASE PollNext
  <2>1. ASSUME NEW d \in Netdevs
        PROVE  PollNetdev(d)'
    <3>1. PollNetdev(d) /\ L3TypeOK /\ PollTypeOK
      BY <2>1 DEF PollInv
    <3>2. CASE Restart
      BY <3>1, <3>2, PollRestart
    <3>3. ASSUME NEW e \in Netdevs, JoinOrLeave(e)
          PROVE  PollNetdev(d)'
      <4>1. UNCHANGED <<l3_stats_mutex, l3_stats_enabled, xtables, poll, torn>>
        BY <3>3 DEF JoinOrLeave
      <4>2. Holders(d)' = Holders(d) /\ \A i \in Holders(d) : threads'[d][i] = threads[d][i]
        BY <3>1, <3>3, JoinThreads
      <4> QED  BY <3>1, <4>1, <4>2, SamePollNetdev DEF PollNetdev
    <3>4. ASSUME NEW e \in Netdevs, PollThreadStep(e)
          PROVE  PollNetdev(d)'
      <4>1. CASE e # d
        BY <3>1, <3>4, <4>1, OtherThread
      <4>2. CASE e = d
        <5>1. PICK i : LockAndWork(d, i) \/ LockAndReturn(d, i) \/ EditRule(d, i)
                     \/ SkipRule(d, i) \/ Finish(d, i)
          BY <3>4, <4>2 DEF PollThreadStep, ThreadStep
        <5> QED  BY <3>1, <3>4, <4>2, <5>1, PollLock, PollReturn, PollRule, PollFinish
      <4> QED  BY <4>1, <4>2
    <3>5. ASSUME NEW e \in Netdevs, netdev_sim_get_stats(e) \/ netdev_sim_get_kernel_l3_stats(e)
          PROVE  PollNetdev(d)'
      <4>1. UNCHANGED l3vars /\ UNCHANGED torn
        BY <3>5 DEF netdev_sim_get_stats, netdev_sim_get_kernel_l3_stats
      <4>2. UNCHANGED <<threads, l3_stats_mutex, l3_stats_enabled, xtables>>
        BY <4>1 DEF l3vars
      <4>3. Holders(d)' = Holders(d)
        BY <4>2 DEF Holders
      <4>4. /\ AtWork(d)' /\ Made(d)'
            /\ poll'[d] = poll[d] => Overlaps(d)'
        BY <3>1, <4>1, <4>2, <4>3, SamePollNetdev
      <4>5. Overlaps(d)'
        <5>1. CASE netdev_sim_get_kernel_l3_stats(e)
          BY <3>1, <5>1, PollReads
        <5>2. CASE netdev_sim_get_stats(e) /\ e = d
          BY <3>1, <5>2, PollBegins
        <5>3. CASE netdev_sim_get_stats(e) /\ e # d
          <6>1. poll'[d] = poll[d]
            BY <3>1, <5>3 DEF netdev_sim_get_stats, PollTypeOK
          <6> QED  BY <4>4, <6>1
        <5> QED  BY <3>5, <5>1, <5>2, <5>3
      <4> QED  BY <4>4, <4>5 DEF PollNetdev
    <3> QED  BY <1>2, <3>2, <3>3, <3>4, <3>5 DEF PollNext
  <2>2. L3TypeOK'
    BY <1>2, PollL3TypeStep DEF PollInv
  <2>3. PollTypeOK'
    BY <1>2, PollTypeStep
  <2> QED  BY <2>1, <2>2, <2>3 DEF PollInv
<1> QED  BY <1>1, <1>2

LEMMA PollCorrect == PollSpec => []PollInv
BY PollInitInv, PollInvStep, PTL DEF PollSpec

(* Every reading is exact, unless a delete thread was at work.             *)
LEMMA ReadingStep ==
    ASSUME NRules = 8, PollInv, [PollNext]_l3pollvars,
           NEW d \in Netdevs, NEW dir \in Directions
    PROVE  LET s == l3stats'[d][dir]
           IN  \/ s = l3stats[d][dir]
               \/ s = NoReading
               \/ /\ s.quiet => ~s.deleting
                  /\ s.deleting \/ (Unmixed(s) /\ s.uc \cup s.mc = RulesOf(dir))
<1> DEFINE s == l3stats'[d][dir]
<1>1. CASE l3stats' = l3stats
  BY <1>1
<1>2. CASE Restart
  BY <1>2 DEF Restart
<1>3. ASSUME NEW e \in Netdevs, netdev_sim_get_kernel_l3_stats(e), l3stats' # l3stats
      PROVE  \/ s = l3stats[d][dir]
             \/ /\ s.quiet => ~s.deleting
                /\ s.deleting \/ (Unmixed(s) /\ s.uc \cup s.mc = RulesOf(dir))
  <2> DEFINE a == poll[e].at
             r == netdev_sim_parse_xtables_l3_stats(e, a)
  <2>1. a # "idle" /\ l3stats' = [l3stats EXCEPT ![e][a] = r]
    BY <1>3 DEF netdev_sim_get_kernel_l3_stats
  <2>2. l3stats'[d][dir] = IF d = e /\ dir = a THEN r ELSE l3stats[d][dir]
    <3> HIDE DEF r, a
    <3>1. l3stats \in [Netdevs -> [Directions -> Readings]]
      BY DEF PollInv, PollTypeOK
    <3> QED  BY <2>1, <3>1
  <2>3. CASE d = e /\ dir = a
    <3>1. s = netdev_sim_parse_xtables_l3_stats(d, dir)
      BY <2>2, <2>3
    <3>2. s.quiet = poll[d].quiet /\ s.deleting = poll[d].deleting
      BY <3>1 DEF netdev_sim_parse_xtables_l3_stats
    <3>3. poll[d].at # "idle" /\ (poll[d].quiet => ~poll[d].deleting)
      BY <2>1, <2>3 DEF PollInv, PollNetdev, Overlaps
    <3>4. CASE poll[d].deleting
      BY <3>2, <3>3, <3>4
    <3>5. CASE ~poll[d].deleting
      <4>1. /\ Unmixed(netdev_sim_parse_xtables_l3_stats(d, dir))
            /\ netdev_sim_parse_xtables_l3_stats(d, dir).uc
                 \cup netdev_sim_parse_xtables_l3_stats(d, dir).mc = RulesOf(dir)
        BY <3>3, <3>5, PollExact
      <4>2. Unmixed(s) /\ s.uc \cup s.mc = RulesOf(dir)
        BY <3>1, <4>1
      <4> HIDE DEF s
      <4> QED  BY <3>2, <3>5, <4>2
    <3> QED  BY <3>4, <3>5
  <2> QED  BY <2>2, <2>3
<1>4. CASE UNCHANGED l3pollvars
  BY <1>4, <1>1 DEF l3pollvars, pollvars
<1>5. CASE PollNext
  BY <1>1, <1>2, <1>3, <1>5
     DEF PollNext, JoinOrLeave, PollThreadStep, netdev_sim_get_stats
<1> QED  BY <1>4, <1>5

(* For every number of netdevs and of threads, and a process that may die  *)
(* at any moment: a poll mixes unicast and multicast packets only if it    *)
(* met a delete thread, or rules that a process died deleting or between   *)
(* the two rules of a pair.  The rules of one family are eight, as in the  *)
(* code.                                                                   *)
THEOREM PollsMixOnlyDeleting ==
    ASSUME NRules = 8
    PROVE  PollSpec => []PollMixNeedsDelete
<1>1. PollInit => PollMixNeedsDelete
  BY DEF PollInit, PollMixNeedsDelete, NoReading, Unmixed
<1>2. PollInv /\ PollMixNeedsDelete /\ [PollNext]_l3pollvars => PollMixNeedsDelete'
  <2> SUFFICES ASSUME PollInv, PollMixNeedsDelete, [PollNext]_l3pollvars,
                      NEW d \in Netdevs, NEW dir \in Directions
               PROVE  Unmixed(l3stats'[d][dir]) \/ l3stats'[d][dir].deleting
    BY DEF PollMixNeedsDelete
  <2>1. Unmixed(NoReading)
    BY DEF Unmixed, NoReading
  <2> QED  BY <2>1, ReadingStep DEF PollMixNeedsDelete
<1> QED  BY <1>1, <1>2, PollCorrect, PTL DEF PollSpec

(* A poll that no thread overlaps reads all rules of its direction and     *)
(* takes each for what it is, also after restarts at any moment, except on *)
(* what is left of a half deleted set or of half a pair.                   *)
THEOREM SettledPollsAreExact ==
    ASSUME NRules = 8
    PROVE  PollSpec => []SettledPollsExact
<1>1. PollInit => SettledPollsExact
  BY DEF PollInit, SettledPollsExact, NoReading
<1>2. PollInv /\ SettledPollsExact /\ [PollNext]_l3pollvars => SettledPollsExact'
  <2> SUFFICES ASSUME PollInv, SettledPollsExact, [PollNext]_l3pollvars,
                      NEW d \in Netdevs, NEW dir \in Directions, l3stats'[d][dir].quiet
               PROVE  /\ Unmixed(l3stats'[d][dir])
                      /\ l3stats'[d][dir].uc \cup l3stats'[d][dir].mc = RulesOf(dir)
    BY DEF SettledPollsExact
  <2>1. ~NoReading.quiet
    BY DEF NoReading
  <2> QED  BY <2>1, ReadingStep DEF SettledPollsExact
<1> QED  BY <1>1, <1>2, PollCorrect, PTL DEF PollSpec
=============================================================================
