-------------------------- MODULE SimMirrorProofs ---------------------------
(***************************************************************************)
(* Mirrors: proofs for every set of bundles, addresses and mirrors, every  *)
(* MAX_MIRRORS, and with mirror commands that fail or not.                 *)
(***************************************************************************)
EXTENDS SimMirror, FiniteSetTheorems, TLAPS

-----------------------------------------------------------------------------
(* Operators                                                               *)

LEMMA MaxIsNat == MAX_MIRRORS \in Nat /\ 0 <= MAX_MIRRORS
<1>1. MAX_MIRRORS \in Nat
  BY MirrorAssumption
<1> QED  BY <1>1

(* A mirror is a selection or none, never both.                            *)
LEMMA NoMirrorApart ==
    ASSUME NEW P, "no mirror" \notin P
    PROVE  /\ NoMirror \notin Selection(P) /\ Nothing \in Selection(P)
           /\ NoMirror # Nothing
  BY DEF Selection, NoMirror, Nothing

(* What is left of a mirror when an mbundle is unregistered.               *)
LEMMA UnregisteredFacts ==
    ASSUME NEW r \in Selection(Mbundles), NEW a \in Mbundles, r.out # a
    PROVE  LET u == Unregistered(r, a)
           IN  /\ u \in Selection(Mbundles)
               /\ u.out = r.out /\ u.srcs = r.srcs \ {a}
               /\ r.dsts \ {a} \subseteq u.dsts /\ u.dsts \subseteq r.dsts
               /\ a \in u.dsts => a \in r.srcs
<1>1. CASE a \in r.srcs
  <2>1. Unregistered(r, a) = [r EXCEPT !.srcs = @ \ {a}]
    BY <1>1 DEF Unregistered
  <2> QED  BY <1>1, <2>1 DEF Selection
<1>2. CASE a \notin r.srcs
  <2>1. Unregistered(r, a) = [r EXCEPT !.dsts = @ \ {a}]
    BY <1>2 DEF Unregistered
  <2> QED  BY <1>2, <2>1 DEF Selection
<1> QED  BY <1>1, <1>2

LEMMA UnregisteredOut ==
    ASSUME NEW r \in Selection(Mbundles), NEW a, r.out = a
    PROVE  Unregistered(r, a) = NoMirror
  BY DEF Unregistered

LEMMA UnregisteredNone ==
    ASSUME NEW a \in Mbundles
    PROVE  Unregistered(NoMirror, a) = NoMirror /\ Unregistered(Nothing, a) = Nothing
<1>1. a # "none" /\ a # "no mirror"
  BY MirrorAssumption
<1>2. ASSUME NEW r \in {NoMirror, Nothing}
      PROVE  Unregistered(r, a) = r
  <2>1. r.out # a /\ a \notin r.srcs /\ r.dsts = {}
    <3>1. CASE r = NoMirror
      BY <1>1, <3>1 DEF NoMirror
    <3>2. CASE r = Nothing
      BY <1>1, <3>2 DEF Nothing
    <3> QED  BY <3>1, <3>2
  <2>2. Unregistered(r, a) = [r EXCEPT !.dsts = @ \ {a}]
    BY <2>1 DEF Unregistered
  <2>3. r.dsts \ {a} = r.dsts
    BY <2>1
  <2>4. [r EXCEPT !.dsts = @ \ {a}] = r
    <3>1. [r EXCEPT !.dsts = r.dsts] = r
      BY DEF NoMirror, Nothing
    <3> QED  BY <2>3, <3>1, Zenon
  <2> QED  BY <2>2, <2>4
<1> QED  BY <1>2

(* What is left of an ASIC mirror when a port is deleted.                  *)
Unported(r, b) ==
    [r EXCEPT !.srcs = @ \ {b}, !.dsts = @ \ {b}, !.out = IF @ = b THEN "none" ELSE @]

LEMMA UnportedFacts ==
    ASSUME NEW r \in Selection(MPorts), NEW b \in MPorts
    PROVE  LET u == Unported(r, b)
           IN  /\ u \in Selection(MPorts)
               /\ u.srcs = r.srcs \ {b} /\ u.dsts = r.dsts \ {b}
               /\ u.out = IF r.out = b THEN "none" ELSE r.out
  BY DEF Unported, Selection

LEMMA UnportedNone ==
    ASSUME NEW b \in MPorts
    PROVE  Unported(NoMirror, b) = NoMirror
<1>1. b # "no mirror"
  BY MirrorAssumption
<1>2. /\ NoMirror.srcs \ {b} = {} /\ NoMirror.dsts \ {b} = {}
      /\ (IF NoMirror.out = b THEN "none" ELSE NoMirror.out) = "no mirror"
  BY <1>1 DEF NoMirror
<1>3. /\ [NoMirror EXCEPT !.srcs = {}] = NoMirror
      /\ [NoMirror EXCEPT !.dsts = {}] = NoMirror
      /\ [NoMirror EXCEPT !.out = "no mirror"] = NoMirror
  <2>1. ASSUME NEW r \in {NoMirror}
        PROVE  /\ [r EXCEPT !.srcs = r.srcs] = r /\ [r EXCEPT !.dsts = r.dsts] = r
               /\ [r EXCEPT !.out = r.out] = r
    BY DEF NoMirror
  <2>2. NoMirror.srcs = {} /\ NoMirror.dsts = {} /\ NoMirror.out = "no mirror"
    BY DEF NoMirror
  <2> QED  BY <2>1, <2>2, Zenon
<1> QED  BY <1>2, <1>3, Zenon DEF Unported

LEMMA PortDeletedIs ==
    ASSUME NEW b, NEW m \in Mirrors
    PROVE  PortDeleted(b)[m] = Unported(asicMirror[m], b)
  BY DEF PortDeleted, Unported

-----------------------------------------------------------------------------
(* The invariant                                                           *)

InUse == {m \in Mirrors : mirror[m] # NoMirror}

(* The ports that a row of the ASIC names are in the ASIC; a row that was  *)
(* left behind by a destroyed mirror is no exception.                      *)
RowNamesPorts(y) ==
    y # NoMirror => y.srcs \cup y.dsts \cup ({y.out} \ {"none"}) \subseteq asicPorts

(* SourcesAlive and NothingElseMirrored, for one mirror x and its row y.   *)
Alive(x) ==
    x # NoMirror => x.srcs \cup ({x.out} \ {"none"}) \subseteq Registered

Covers(x, y) ==
    x \notin {NoMirror, Nothing} /\ y # NoMirror =>
        /\ {mbundle[b] : b \in y.srcs} \subseteq x.srcs
        /\ {mbundle[b] : b \in y.dsts} \subseteq x.dsts
        /\ y.out \in BundlesNow => mbundle[y.out] = x.out

MirrorInv ==
    /\ MirrorTypeOK /\ IsFiniteSet(InUse)
    /\ \A m \in Mirrors : /\ Alive(mirror[m]) /\ RowNamesPorts(asicMirror[m])
                          /\ Covers(mirror[m], asicMirror[m])

LEMMA MirrorInvGives == MirrorInv => MirrorTypeOK /\ SourcesAlive /\ NothingElseMirrored
<1> SUFFICES ASSUME MirrorInv
             PROVE  SourcesAlive /\ NothingElseMirrored
  BY DEF MirrorInv
<1>1. SourcesAlive
  BY DEF MirrorInv, Alive, SourcesAlive
<1>2. NothingElseMirrored
  BY DEF MirrorInv, Covers, NothingElseMirrored
<1> QED  BY <1>1, <1>2

(* A request as pointers.                                                  *)
LEMMA PointersFacts ==
    ASSUME MirrorTypeOK, NEW s \in Requests
    PROVE  /\ Pointers(s) \in Selection(Mbundles) /\ Pointers(s) # NoMirror
           /\ Alive(Pointers(s))
<1>1. s.out \in MPorts \cup {"none"}
  BY DEF Requests, Selection
<1>2. ASSUME NEW b \in BundlesNow
      PROVE  mbundle[b] \in Mbundles /\ mbundle[b] \in Registered
  BY DEF BundlesNow, Registered, MirrorTypeOK
<1>3. OutBundle(s) # "none" => s.out \in BundlesNow
  BY DEF OutBundle
<1> DEFINE p == Pointers(s)
<1>4. /\ p.srcs \subseteq Mbundles \cap Registered /\ p.dsts \subseteq Mbundles
      /\ p.out \in (Mbundles \cap Registered) \cup {"none"}
  <2>1. /\ p.srcs = {mbundle[b] : b \in s.srcs \cap BundlesNow}
        /\ p.dsts = {mbundle[b] : b \in s.dsts \cap BundlesNow}
    BY DEF Pointers
  <2>2. p.out = IF OutBundle(s) = "none" THEN "none" ELSE mbundle[s.out]
    BY DEF Pointers
  <2> HIDE DEF p
  <2> QED  BY <1>1, <1>2, <1>3, <2>1, <2>2
<1>5. p \in Selection(Mbundles)
  <2>1. p = [srcs |-> p.srcs, dsts |-> p.dsts, out |-> p.out]
    BY DEF Pointers
  <2> HIDE DEF p
  <2> QED  BY <1>4, <2>1 DEF Selection
<1>6. p # NoMirror
  BY <1>5, MirrorAssumption, NoMirrorApart
<1> QED  BY <1>4, <1>5, <1>6 DEF Alive

(* mirror_set changes one mirror and its row.                              *)
LEMMA SetOne ==
    ASSUME MirrorInv, NEW m \in Mirrors,
           NEW x \in Selection(Mbundles) \cup {NoMirror},
           NEW y \in Selection(MPorts) \cup {NoMirror},
           mirror' = [mirror EXCEPT ![m] = x],
           asicMirror' = [asicMirror EXCEPT ![m] = y],
           UNCHANGED <<mbundle, asicPorts>>,
           x # NoMirror => Room(m),
           Alive(x), RowNamesPorts(y), Covers(x, y)
    PROVE  MirrorInv'
<1>1. MirrorTypeOK /\ IsFiniteSet(InUse) /\ Cardinality(InUse) <= MAX_MIRRORS
  BY DEF MirrorInv, MirrorTypeOK, InUse
<1>2. /\ mirror' \in [Mirrors -> Selection(Mbundles) \cup {NoMirror}]
      /\ asicMirror' \in [Mirrors -> Selection(MPorts) \cup {NoMirror}]
      /\ BundlesNow' = BundlesNow /\ Registered' = Registered
  BY <1>1 DEF MirrorTypeOK, BundlesNow, Registered
<1>3. InUse' = IF x = NoMirror THEN InUse \ {m} ELSE InUse \cup {m}
  BY <1>1 DEF InUse, MirrorTypeOK
<1>4. Cardinality(InUse) \in Nat /\ MAX_MIRRORS \in Nat
  BY <1>1, FS_CardinalityType, MirrorAssumption
<1>5. IsFiniteSet(InUse') /\ Cardinality(InUse') <= MAX_MIRRORS
  <2>1. CASE x = NoMirror
    <3>1. /\ IsFiniteSet(InUse \ {m})
          /\ Cardinality(InUse \ {m}) = IF m \in InUse THEN Cardinality(InUse) - 1
                                                       ELSE Cardinality(InUse)
      BY <1>1, FS_RemoveElement
    <3> QED  BY <1>1, <1>3, <1>4, <2>1, <3>1
  <2>2. CASE x # NoMirror
    <3>1. /\ IsFiniteSet(InUse \cup {m})
          /\ Cardinality(InUse \cup {m}) = IF m \in InUse THEN Cardinality(InUse)
                                                          ELSE Cardinality(InUse) + 1
      BY <1>1, FS_AddElement
    <3>2. m \in InUse \/ Cardinality(InUse) < MAX_MIRRORS
      BY <2>2 DEF Room, InUse
    <3> QED  BY <1>1, <1>3, <1>4, <2>2, <3>1, <3>2
  <2> QED  BY <2>1, <2>2
<1>6. MirrorTypeOK' /\ IsFiniteSet(InUse)'
  BY <1>1, <1>2, <1>5 DEF MirrorTypeOK, InUse
<1>7. ASSUME NEW n \in Mirrors
      PROVE  /\ Alive(mirror[n])' /\ RowNamesPorts(asicMirror[n])'
             /\ Covers(mirror[n], asicMirror[n])'
  <2>1. /\ mirror'[n] = IF n = m THEN x ELSE mirror[n]
        /\ asicMirror'[n] = IF n = m THEN y ELSE asicMirror[n]
    BY <1>1 DEF MirrorTypeOK
  <2>2. /\ Alive(mirror[n]) /\ RowNamesPorts(asicMirror[n])
        /\ Covers(mirror[n], asicMirror[n])
    BY DEF MirrorInv
  <2>3. Alive(mirror[n])'
    BY <1>2, <2>1, <2>2 DEF Alive
  <2>4. RowNamesPorts(asicMirror[n])'
    BY <2>1, <2>2 DEF RowNamesPorts
  <2>5. Covers(mirror[n], asicMirror[n])'
    BY <1>2, <2>1, <2>2 DEF Covers
  <2> QED  BY <2>3, <2>4, <2>5
<1> QED  BY <1>6, <1>7 DEF MirrorInv

-----------------------------------------------------------------------------
(* Steps                                                                   *)

LEMMA RegisterStep ==
    ASSUME MirrorInv, NEW b \in MPorts, mbridge_register_bundle(b)
    PROVE  MirrorInv'
<1>1. MirrorTypeOK /\ IsFiniteSet(InUse)
  BY DEF MirrorInv
<1>2. PICK a \in Mbundles \ Registered : mbundle' = [mbundle EXCEPT ![b] = a]
  BY DEF mbridge_register_bundle
<1>3. mbundle[b] = "none" /\ UNCHANGED <<mirror, asicPorts, asicMirror>>
  BY DEF mbridge_register_bundle
<1>4. a # "none" /\ a \in Mbundles
  BY MirrorAssumption
<1>5. \A c \in MPorts : mbundle'[c] = IF c = b THEN a ELSE mbundle[c]
  BY <1>1, <1>2 DEF MirrorTypeOK
<1>6. BundlesNow' = BundlesNow \cup {b} /\ b \notin BundlesNow /\ BundlesNow \subseteq MPorts
  BY <1>3, <1>4, <1>5 DEF BundlesNow
<1>7. Registered \subseteq Registered'
  BY <1>3, <1>5 DEF Registered
<1>8. \A c \in BundlesNow : mbundle[c] \in Registered
  BY DEF BundlesNow, Registered
<1>9. MirrorTypeOK'
  <2>1. mbundle' \in [MPorts -> Mbundles \cup {"none"}]
    BY <1>1, <1>2 DEF MirrorTypeOK
  <2>2. \A c, d \in BundlesNow' : mbundle'[c] = mbundle'[d] => c = d
    BY <1>1, <1>2, <1>5, <1>6, <1>8 DEF MirrorTypeOK
  <2> QED  BY <1>1, <1>3, <1>6, <2>1, <2>2 DEF MirrorTypeOK
<1>10. ASSUME NEW n \in Mirrors
       PROVE  /\ Alive(mirror[n])' /\ RowNamesPorts(asicMirror[n])'
              /\ Covers(mirror[n], asicMirror[n])'
  <2>1. /\ Alive(mirror[n]) /\ RowNamesPorts(asicMirror[n])
        /\ Covers(mirror[n], asicMirror[n])
        /\ asicMirror[n] \in Selection(MPorts) \cup {NoMirror}
    BY <1>1 DEF MirrorInv, MirrorTypeOK
  <2>2. Alive(mirror[n])'
    BY <1>3, <1>7, <2>1 DEF Alive
  <2>3. RowNamesPorts(asicMirror[n])'
    BY <1>3, <2>1 DEF RowNamesPorts
  <2>4. asicMirror[n] # NoMirror =>
           /\ asicMirror[n].srcs \cup asicMirror[n].dsts \subseteq BundlesNow
           /\ asicMirror[n].out \in BundlesNow \cup {"none"}
    BY <1>1, <2>1 DEF RowNamesPorts, MirrorTypeOK
  <2>5. b # "none"
    BY MirrorAssumption
  <2>6. Covers(mirror[n], asicMirror[n])'
    BY <1>3, <1>5, <1>6, <2>1, <2>4, <2>5 DEF Covers
  <2> QED  BY <2>2, <2>3, <2>6
<1> QED  BY <1>1, <1>3, <1>9, <1>10 DEF MirrorInv, InUse

(* A row after its port b was deleted names what it named but b, and no    *)
(* row comes into being.                                                   *)
LEMMA RowDeleted ==
    ASSUME MirrorTypeOK, NEW b \in MPorts, NEW n \in Mirrors
    PROVE  LET y == asicMirror[n]
               z == PortDeleted(b)[n]
           IN  /\ z \in Selection(MPorts) \cup {NoMirror}
               /\ y = NoMirror => z = NoMirror
               /\ y # NoMirror => /\ z.srcs = y.srcs \ {b} /\ z.dsts = y.dsts \ {b}
                                  /\ z.out = IF y.out = b THEN "none" ELSE y.out
<1>1. asicMirror[n] \in Selection(MPorts) \cup {NoMirror}
  BY DEF MirrorTypeOK
<1>2. PortDeleted(b)[n] = Unported(asicMirror[n], b)
  BY PortDeletedIs
<1> HIDE DEF Unported, NoMirror
<1>3. CASE asicMirror[n] = NoMirror
  BY <1>2, <1>3, UnportedNone
<1>4. CASE asicMirror[n] \in Selection(MPorts) /\ asicMirror[n] # NoMirror
  BY <1>2, <1>4, UnportedFacts
<1> QED  BY <1>1, <1>3, <1>4

LEMMA ConfigureStep ==
    ASSUME MirrorInv, NEW b \in MPorts, bundle_configure(b)
    PROVE  MirrorInv'
<1>1. MirrorTypeOK /\ IsFiniteSet(InUse)
  BY DEF MirrorInv
<1>2. /\ b \in BundlesNow /\ UNCHANGED <<mbundle, mirror>>
      /\ asicMirror' = IF b \in asicPorts THEN PortDeleted(b) ELSE asicMirror
      /\ asicPorts' \subseteq asicPorts \cup {b} /\ asicPorts \ {b} \subseteq asicPorts'
  BY DEF bundle_configure, BundlesNow
<1>3. BundlesNow' = BundlesNow /\ Registered' = Registered
  BY <1>2 DEF BundlesNow, Registered
<1>4. ASSUME NEW n \in Mirrors
      PROVE  /\ asicMirror'[n] \in Selection(MPorts) \cup {NoMirror}
             /\ Alive(mirror[n])' /\ RowNamesPorts(asicMirror[n])'
             /\ Covers(mirror[n], asicMirror[n])'
  <2> DEFINE x == mirror[n]
             y == asicMirror[n]
             z == asicMirror'[n]
  <2>1. /\ Alive(x) /\ RowNamesPorts(y) /\ Covers(x, y)
        /\ y \in Selection(MPorts) \cup {NoMirror}
    BY <1>1 DEF MirrorInv, MirrorTypeOK
  <2>2. Alive(mirror[n])'
    BY <1>2, <1>3, <2>1 DEF Alive
  <2>3. /\ z \in Selection(MPorts) \cup {NoMirror}
        /\ z # NoMirror =>
              /\ y # NoMirror
              /\ z.srcs = y.srcs \ {b} /\ z.dsts = y.dsts \ {b}
              /\ z.out = IF y.out = b THEN "none" ELSE y.out
    <3>1. CASE b \in asicPorts
      <4>1. z = PortDeleted(b)[n]
        BY <1>2, <3>1
      <4> QED  BY <1>1, <4>1, RowDeleted
    <3>2. CASE b \notin asicPorts
      <4>1. z = y
        BY <1>2, <3>2
      <4>2. y # NoMirror => b \notin y.srcs /\ b \notin y.dsts /\ b # y.out
        BY <2>1, <3>2, MirrorAssumption DEF RowNamesPorts
      <4> QED  BY <2>1, <4>1, <4>2
    <3> QED  BY <3>1, <3>2
  <2>4. RowNamesPorts(asicMirror[n])'
    BY <1>2, <2>1, <2>3 DEF RowNamesPorts
  <2>5. "none" \notin BundlesNow
    BY MirrorAssumption DEF BundlesNow
  <2>6. Covers(mirror[n], asicMirror[n])'
    BY <1>2, <1>3, <2>1, <2>3, <2>5 DEF Covers
  <2> QED  BY <2>2, <2>3, <2>4, <2>6
<1>5. DOMAIN asicMirror' = Mirrors /\ asicMirror' = [n \in Mirrors |-> asicMirror'[n]]
  BY <1>1, <1>2 DEF PortDeleted, MirrorTypeOK
<1>6. MirrorTypeOK'
  <2>1. asicMirror' \in [Mirrors -> Selection(MPorts) \cup {NoMirror}]
    BY <1>4, <1>5
  <2> QED  BY <1>1, <1>2, <1>3, <2>1 DEF MirrorTypeOK
<1> QED  BY <1>1, <1>2, <1>4, <1>6 DEF MirrorInv, InUse

(* A mirror after the mbundle a of a bundle was unregistered.              *)
LEMMA MirrorUnregistered ==
    ASSUME MirrorTypeOK, NEW a \in Mbundles, NEW n \in Mirrors
    PROVE  LET x == mirror[n]
               u == Unregistered(x, a)
           IN  /\ u \in Selection(Mbundles) \cup {NoMirror}
               /\ x \in {NoMirror, Nothing} => u = x
               /\ u # NoMirror =>
                     /\ x # NoMirror /\ u.out = x.out /\ u.out # a
                     /\ u.srcs = x.srcs \ {a} /\ x.dsts \ {a} \subseteq u.dsts
                     /\ a \in u.dsts => a \in x.srcs
<1>1. mirror[n] \in Selection(Mbundles) \cup {NoMirror}
  BY DEF MirrorTypeOK
<1> HIDE DEF NoMirror, Nothing, Unregistered
<1>2. CASE mirror[n] = NoMirror
  BY <1>2, UnregisteredNone
<1>3. CASE mirror[n] \in Selection(Mbundles) /\ mirror[n] # NoMirror /\ mirror[n].out = a
  <2>1. Unregistered(mirror[n], a) = NoMirror
    BY <1>3, UnregisteredOut
  <2>2. mirror[n] # Nothing
    <3>1. Nothing.out = "none" /\ a # "none"
      BY MirrorAssumption DEF Nothing
    <3> QED  BY <1>3, <3>1
  <2> QED  BY <1>3, <2>1, <2>2
<1>4. CASE mirror[n] \in Selection(Mbundles) /\ mirror[n] # NoMirror /\ mirror[n].out # a
  BY <1>4, UnregisteredFacts, UnregisteredNone
<1> QED  BY <1>1, <1>2, <1>3, <1>4

LEMMA DestroyStep ==
    ASSUME MirrorInv, NEW b \in MPorts, bundle_destroy(b)
    PROVE  MirrorInv'
<1> DEFINE a == mbundle[b]
<1>1. MirrorTypeOK /\ IsFiniteSet(InUse) /\ Cardinality(InUse) <= MAX_MIRRORS
  BY DEF MirrorInv, MirrorTypeOK, InUse
<1>2. /\ b \in BundlesNow /\ a # "none" /\ a \in Mbundles
      /\ mbundle' = [mbundle EXCEPT ![b] = "none"]
      /\ mirror' = [m \in Mirrors |-> Unregistered(mirror[m], a)]
      /\ asicMirror' = PortDeleted(b) /\ asicPorts' = asicPorts \ {b}
  BY <1>1 DEF bundle_destroy, BundlesNow, MirrorTypeOK
<1> HIDE DEF a
<1>3. \A c \in MPorts : mbundle'[c] = IF c = b THEN "none" ELSE mbundle[c]
  BY <1>1, <1>2 DEF MirrorTypeOK
<1>4. BundlesNow' = BundlesNow \ {b} /\ BundlesNow \subseteq MPorts
  BY <1>3 DEF BundlesNow
<1>5. \A c \in BundlesNow : mbundle[c] = a => c = b
  BY <1>1, <1>2 DEF MirrorTypeOK, a
<1>6. Registered \ {a} \subseteq Registered'
  BY <1>3 DEF Registered, a
<1>7. ASSUME NEW n \in Mirrors
      PROVE  /\ mirror'[n] \in Selection(Mbundles) \cup {NoMirror}
             /\ asicMirror'[n] \in Selection(MPorts) \cup {NoMirror}
             /\ mirror[n] = NoMirror => mirror'[n] = NoMirror
             /\ Alive(mirror[n])' /\ RowNamesPorts(asicMirror[n])'
             /\ Covers(mirror[n], asicMirror[n])'
  <2> DEFINE x == mirror[n]
             u == mirror'[n]
             y == asicMirror[n]
             z == asicMirror'[n]
  <2>1. /\ Alive(x) /\ RowNamesPorts(y) /\ Covers(x, y)
        /\ y \in Selection(MPorts) \cup {NoMirror}
    BY <1>1 DEF MirrorInv, MirrorTypeOK
  <2>2. /\ u \in Selection(Mbundles) \cup {NoMirror}
        /\ x \in {NoMirror, Nothing} => u = x
        /\ u # NoMirror =>
              /\ x # NoMirror /\ u.out = x.out /\ u.out # a
              /\ u.srcs = x.srcs \ {a} /\ x.dsts \ {a} \subseteq u.dsts
    <3>1. u = Unregistered(x, a)
      BY <1>2
    <3> QED  BY <1>1, <1>2, <3>1, MirrorUnregistered
  <2>3. /\ z \in Selection(MPorts) \cup {NoMirror}
        /\ z # NoMirror =>
              /\ y # NoMirror
              /\ z.srcs = y.srcs \ {b} /\ z.dsts = y.dsts \ {b}
              /\ z.out = IF y.out = b THEN "none" ELSE y.out
    <3>1. z = PortDeleted(b)[n]
      BY <1>2
    <3> QED  BY <1>1, <3>1, RowDeleted
  <2>4. Alive(mirror[n])'
    BY <1>6, <2>1, <2>2 DEF Alive
  <2>5. RowNamesPorts(asicMirror[n])'
    BY <1>2, <2>1, <2>3 DEF RowNamesPorts
  <2>6. y # NoMirror => y.srcs \cup y.dsts \subseteq BundlesNow
    BY <1>1, <2>1 DEF RowNamesPorts, MirrorTypeOK
  <2>7. "none" \notin BundlesNow
    BY MirrorAssumption DEF BundlesNow
  <2>8. Covers(mirror[n], asicMirror[n])'
    <3> HIDE DEF x, u, y, z
    <3> SUFFICES ASSUME u \notin {NoMirror, Nothing}, z # NoMirror
                 PROVE  /\ {mbundle'[c] : c \in z.srcs} \subseteq u.srcs
                        /\ {mbundle'[c] : c \in z.dsts} \subseteq u.dsts
                        /\ z.out \in BundlesNow' => mbundle'[z.out] = u.out
      BY DEF Covers, u, z
    <3>1. x \notin {NoMirror, Nothing} /\ y # NoMirror
      BY <2>2, <2>3
    <3>2. /\ \A c \in y.srcs : mbundle[c] \in x.srcs
          /\ \A c \in y.dsts : mbundle[c] \in x.dsts
          /\ y.out \in BundlesNow => mbundle[y.out] = x.out
      BY <2>1, <3>1 DEF Covers
    <3>3. \A c \in BundlesNow \ {b} : mbundle'[c] = mbundle[c] /\ mbundle[c] # a
      BY <1>3, <1>4, <1>5
    <3>4. \A c \in z.srcs : mbundle'[c] \in u.srcs
      BY <2>2, <2>3, <2>6, <3>1, <3>2, <3>3
    <3>5. \A c \in z.dsts : mbundle'[c] \in u.dsts
      BY <2>2, <2>3, <2>6, <3>1, <3>2, <3>3
    <3>6. z.out \in BundlesNow' => mbundle'[z.out] = u.out
      BY <1>4, <2>2, <2>3, <2>7, <3>1, <3>2, <3>3
    <3> QED  BY <3>4, <3>5, <3>6
  <2> QED  BY <2>2, <2>3, <2>4, <2>5, <2>8
<1>8. InUse' \subseteq InUse
  BY <1>7 DEF InUse
<1>9. IsFiniteSet(InUse') /\ Cardinality(InUse') <= MAX_MIRRORS
  <2>1. IsFiniteSet(InUse') /\ Cardinality(InUse') <= Cardinality(InUse)
    BY <1>1, <1>8, FS_Subset
  <2>2. Cardinality(InUse) \in Nat /\ Cardinality(InUse') \in Nat /\ MAX_MIRRORS \in Nat
    BY <1>1, <2>1, FS_CardinalityType, MirrorAssumption
  <2> QED  BY <1>1, <2>1, <2>2
<1>10. MirrorTypeOK' /\ IsFiniteSet(InUse)'
  <2>1. mirror' \in [Mirrors -> Selection(Mbundles) \cup {NoMirror}]
    <3>1. mirror' = [n \in Mirrors |-> mirror'[n]]
      BY <1>2
    <3> QED  BY <1>7, <3>1
  <2>2. asicMirror' \in [Mirrors -> Selection(MPorts) \cup {NoMirror}]
    <3>1. asicMirror' = [n \in Mirrors |-> asicMirror'[n]]
      BY <1>2 DEF PortDeleted
    <3> QED  BY <1>7, <3>1
  <2>3. mbundle' \in [MPorts -> Mbundles \cup {"none"}]
    BY <1>1, <1>2 DEF MirrorTypeOK
  <2>4. \A c, d \in BundlesNow' : mbundle'[c] = mbundle'[d] => c = d
    BY <1>1, <1>3, <1>4 DEF MirrorTypeOK
  <2>5. asicPorts' \subseteq BundlesNow'
    BY <1>1, <1>2, <1>4 DEF MirrorTypeOK
  <2> QED  BY <1>9, <2>1, <2>2, <2>3, <2>4, <2>5 DEF MirrorTypeOK, InUse
<1> QED  BY <1>7, <1>10 DEF MirrorInv

LEMMA MirrorInitial ==
    ASSUME mbundle = [b \in MPorts |-> "none"], asicPorts = {},
           mirror = [m \in Mirrors |-> NoMirror],
           asicMirror = [m \in Mirrors |-> NoMirror]
    PROVE  MirrorInv
<1>1. InUse = {} /\ BundlesNow = {}
  BY DEF InUse, BundlesNow
<1>2. IsFiniteSet(InUse) /\ Cardinality(InUse) = 0 /\ 0 <= MAX_MIRRORS
  <2>1. IsFiniteSet(InUse) /\ Cardinality(InUse) = 0
    BY <1>1, FS_EmptySet, Zenon
  <2> QED  BY <2>1, MaxIsNat
<1>3. MirrorTypeOK
  <2>1. Cardinality(InUse) <= MAX_MIRRORS
    BY <1>2
  <2> QED  BY <1>1, <2>1 DEF MirrorTypeOK, InUse
<1> QED  BY <1>2, <1>3 DEF MirrorInv, Alive, RowNamesPorts, Covers

LEMMA MirrorSetStep ==
    ASSUME MirrorInv, NEW m \in Mirrors, mirror_set(m)
    PROVE  MirrorInv'
<1> DEFINE y == asicMirror[m]
<1>1. /\ MirrorTypeOK /\ Alive(mirror[m]) /\ RowNamesPorts(y) /\ Covers(mirror[m], y)
      /\ mirror[m] \in Selection(Mbundles) \cup {NoMirror}
      /\ y \in Selection(MPorts) \cup {NoMirror}
      /\ asicMirror = [asicMirror EXCEPT ![m] = y]
  BY DEF MirrorInv, MirrorTypeOK
<1>2. Alive(NoMirror) /\ RowNamesPorts(NoMirror) /\ \A z : Covers(NoMirror, z)
  BY DEF Alive, RowNamesPorts, Covers
<1>3. CASE mirror_set_null(m)
  <2>1. asicMirror' = [asicMirror EXCEPT ![m] = y] \/ asicMirror' = [asicMirror EXCEPT ![m] = NoMirror]
    BY <1>1, <1>3 DEF mirror_set_null
  <2>2. mirror' = [mirror EXCEPT ![m] = NoMirror] /\ UNCHANGED <<mbundle, asicPorts>>
    BY <1>3 DEF mirror_set_null
  <2> HIDE DEF y, NoMirror
  <2> QED  BY <1>1, <1>2, <2>1, <2>2, SetOne
<1>4. CASE mirror_set_refused(m)
  <2>1. /\ asicMirror' = [asicMirror EXCEPT ![m] = y]
        /\ mirror' = [mirror EXCEPT ![m] = NoMirror] /\ UNCHANGED <<mbundle, asicPorts>>
    BY <1>1, <1>4 DEF mirror_set_refused
  <2> HIDE DEF y, NoMirror
  <2> QED  BY <1>1, <1>2, <2>1, SetOne
<1>5. ASSUME NEW s \in Requests, mirror_set_unchanged(m, s)
      PROVE  MirrorInv'
  <2>1. /\ asicMirror' = [asicMirror EXCEPT ![m] = y] /\ Room(m)
        /\ mirror' = [mirror EXCEPT ![m] = Pointers(s)] /\ UNCHANGED <<mbundle, asicPorts>>
        /\ Pointers(s) = Current(m)
    BY <1>1, <1>5 DEF mirror_set_unchanged
  <2>2. Pointers(s) \in Selection(Mbundles) /\ Alive(Pointers(s))
    BY <1>1, PointersFacts
  <2>3. Covers(Pointers(s), y)
    <3>1. CASE mirror[m] = NoMirror
      BY <2>1, <3>1 DEF Current, Covers
    <3>2. CASE mirror[m] # NoMirror
      BY <1>1, <2>1, <3>2 DEF Current
    <3> QED  BY <3>1, <3>2
  <2> HIDE DEF y, NoMirror
  <2> QED  BY <1>1, <2>1, <2>2, <2>3, SetOne
<1>6. ASSUME NEW s \in Requests, mirror_set_configure(m, s)
      PROVE  MirrorInv'
  <2>1. PICK delFails \in CmdFails, createFails \in CmdFails :
          LET left    == IF mirror[m] # NoMirror /\ ~delFails
                         THEN NoMirror ELSE asicMirror[m]
              created == left = NoMirror /\ Named(s) \subseteq asicPorts /\ ~createFails
          IN  /\ asicMirror' = [asicMirror EXCEPT ![m] = IF created THEN s ELSE left]
              /\ mirror' = [mirror EXCEPT ![m] = KeptIfCreated(created, s)]
    BY <1>6 DEF mirror_set_configure
  <2>2. UNCHANGED <<mbundle, asicPorts>> /\ Room(m) /\ Complete(s)
    BY <1>6 DEF mirror_set_configure
  <2>3. CASE mirror' = [mirror EXCEPT ![m] = NoMirror]
             /\ \E z \in {NoMirror, y} : asicMirror' = [asicMirror EXCEPT ![m] = z]
    <3> HIDE DEF y, NoMirror
    <3> QED  BY <1>1, <1>2, <2>2, <2>3, SetOne
  <2>4. CASE /\ mirror' = [mirror EXCEPT ![m] = Pointers(s)]
             /\ asicMirror' = [asicMirror EXCEPT ![m] = s] /\ Named(s) \subseteq asicPorts
    <3>1. Pointers(s) \in Selection(Mbundles) /\ Alive(Pointers(s))
      BY <1>1, PointersFacts
    <3>2. s \in Selection(MPorts)
      BY DEF Requests
    <3>3. s.out \in BundlesNow /\ OutBundle(s) = s.out
      BY <2>2 DEF Complete, OutBundle
    <3>4. RowNamesPorts(s)
      BY <2>4, <3>3 DEF RowNamesPorts, Named
    <3>5. Covers(Pointers(s), s)
      BY <2>2, <3>3 DEF Covers, Pointers, Complete
    <3> HIDE DEF y, NoMirror
    <3> QED  BY <1>1, <2>2, <2>4, <3>1, <3>2, <3>4, <3>5, SetOne
  <2> QED  BY <2>1, <2>3, <2>4 DEF KeptIfCreated
<1>7. ASSUME NEW s \in Requests, mirror_set_dies(m, s)
      PROVE  MirrorInv'
  <2>1. /\ mbundle' = [b \in MPorts |-> "none"] /\ asicPorts' = {}
        /\ mirror' = [n \in Mirrors |-> NoMirror]
        /\ asicMirror' = [n \in Mirrors |-> NoMirror]
    BY <1>7 DEF mirror_set_dies
  <2>2. InUse' = {} /\ BundlesNow' = {}
    BY <2>1 DEF InUse, BundlesNow
  <2>3. IsFiniteSet({}) /\ Cardinality({}) = 0 /\ 0 <= MAX_MIRRORS
    <3>1. IsFiniteSet({}) /\ Cardinality({}) = 0
      BY FS_EmptySet, Zenon
    <3> QED  BY <3>1, MaxIsNat
  <2>4. MirrorTypeOK'
    <3>1. Cardinality(InUse') <= MAX_MIRRORS
      BY <2>2, <2>3
    <3> QED  BY <2>1, <2>2, <3>1 DEF MirrorTypeOK, InUse
  <2> QED  BY <2>1, <2>2, <2>3, <2>4 DEF MirrorInv, Alive, RowNamesPorts, Covers
<1> QED  BY <1>3, <1>4, <1>5, <1>6, <1>7 DEF mirror_set

LEMMA MirrorStep ==
    ASSUME MirrorInv, [MirrorNext]_mirrorVars
    PROVE  MirrorInv'
<1>1. CASE UNCHANGED mirrorVars
  <2>1. UNCHANGED <<mbundle, mirror, asicPorts, asicMirror>>
    BY <1>1 DEF mirrorVars
  <2>2. UNCHANGED <<InUse, BundlesNow, Registered>>
    BY <2>1 DEF InUse, BundlesNow, Registered
  <2>3. MirrorTypeOK'
    BY <2>1, <2>2 DEF MirrorInv, MirrorTypeOK
  <2>4. \A m \in Mirrors : Alive(mirror[m])'
    BY <2>1, <2>2 DEF MirrorInv, Alive
  <2>5. \A m \in Mirrors : RowNamesPorts(asicMirror[m])'
    BY <2>1, <2>2 DEF MirrorInv, RowNamesPorts
  <2>6. \A m \in Mirrors : Covers(mirror[m], asicMirror[m])'
    BY <2>1, <2>2 DEF MirrorInv, Covers
  <2> QED  BY <2>2, <2>3, <2>4, <2>5, <2>6 DEF MirrorInv
<1> QED  BY <1>1, RegisterStep, ConfigureStep, DestroyStep, MirrorSetStep DEF MirrorNext

LEMMA MirrorInvCorrect == MirrorSpec => []MirrorInv
<1>1. MirrorInit => MirrorInv
  BY MirrorInitial DEF MirrorInit
<1>2. MirrorInv /\ [MirrorNext]_mirrorVars => MirrorInv'
  BY MirrorStep
<1> QED  BY <1>1, <1>2, PTL DEF MirrorSpec

-----------------------------------------------------------------------------
(* Theorems                                                                *)

(* Two bundles never share an mbundle, and there are never more mirrors    *)
(* than MAX_MIRRORS, whatever mirror_scan and mirror_destroy are asked.    *)
THEOREM MirrorTypeCorrect == MirrorSpec => []MirrorTypeOK
  BY MirrorInvCorrect, MirrorInvGives, PTL

(* mbridge_unregister_bundle leaves no mirror with a freed source or       *)
(* output, for every number of bundles and mirrors and however addresses   *)
(* are used again.                                                         *)
THEOREM SourcesStayAlive == MirrorSpec => []SourcesAlive
  BY MirrorInvCorrect, MirrorInvGives, PTL

(* The ASIC mirrors nothing that the kept mirror does not have, also when  *)
(* mirror commands fail at any point and rows are left behind.             *)
THEOREM MirrorsNothingElse == MirrorSpec => []NothingElseMirrored
  BY MirrorInvCorrect, MirrorInvGives, PTL

(* A destination is freed under its mirror only when it was also one of    *)
(* its sources: the else branch of mbridge_unregister_bundle is the only   *)
(* way to a dangling destination.                                          *)
THEOREM DestinationsLeaveMirrors == MirrorSpec => DestinationsLeave
<1>1. ASSUME MirrorInv, [MirrorNext]_mirrorVars, NEW m \in Mirrors, mirror'[m] # NoMirror,
             NEW a \in mirror'[m].dsts \ Registered', a \in Registered
      PROVE  a \in mirror[m].srcs
  <2>1. MirrorTypeOK
    BY <1>1 DEF MirrorInv
  <2>2. CASE Registered \subseteq Registered'
    BY <1>1, <2>2
  <2>3. ASSUME NEW b \in MPorts, bundle_destroy(b)
        PROVE  a \in mirror[m].srcs
    <3>1. /\ mbundle[b] \in Mbundles
          /\ mbundle' = [mbundle EXCEPT ![b] = "none"]
          /\ mirror'[m] = Unregistered(mirror[m], mbundle[b])
      BY <2>1, <2>3 DEF bundle_destroy, MirrorTypeOK
    <3>2. Registered \ {mbundle[b]} \subseteq Registered'
      BY <2>1, <3>1 DEF Registered, MirrorTypeOK
    <3>3. a = mbundle[b] /\ a \in mirror'[m].dsts
      BY <1>1, <3>2
    <3> QED  BY <1>1, <2>1, <3>1, <3>3, MirrorUnregistered
  <2>4. ASSUME NEW b \in MPorts, mbridge_register_bundle(b) \/ bundle_configure(b)
        PROVE  Registered \subseteq Registered'
    BY <2>1, <2>4 DEF mbridge_register_bundle, bundle_configure, Registered, MirrorTypeOK
  <2>5. ASSUME NEW n \in Mirrors, mirror_set(n)
        PROVE  Registered \subseteq Registered'
    <3>1. UNCHANGED mbundle \/ \E s \in Requests : mirror_set_dies(n, s)
      BY <2>5 DEF mirror_set, mirror_set_null, mirror_set_refused,
                  mirror_set_unchanged, mirror_set_configure
    <3>2. ~\E s \in Requests : mirror_set_dies(n, s)
      BY <1>1 DEF mirror_set_dies
    <3> QED  BY <3>1, <3>2 DEF Registered
  <2>6. CASE UNCHANGED mirrorVars
    BY <2>2, <2>6 DEF mirrorVars, Registered
  <2> QED  BY <1>1, <2>2, <2>3, <2>4, <2>5, <2>6 DEF MirrorNext
<1>2. MirrorInv /\ [MirrorNext]_mirrorVars =>
        [\A m \in Mirrors : mirror'[m] # NoMirror =>
            \A a \in mirror'[m].dsts \ Registered' :
               a \notin Registered \/ a \in mirror[m].srcs]_mirrorVars
  BY <1>1
<1> QED  BY <1>2, MirrorInvCorrect, PTL DEF MirrorSpec, DestinationsLeave
=============================================================================
