------------------------------ MODULE SimMirror ------------------------------
(***************************************************************************)
(* Port mirrors: the mirrors that mirror_set keeps in the mbridge of one   *)
(* bridge, as sets of pointers to the mbundles of the bundles, and the     *)
(* mirrors of the ASIC simulator, which name ports.  Bundles come and go,  *)
(* and every reconfiguration deletes and adds their ASIC port, while the   *)
(* mirrors refer to them.                                                  *)
(***************************************************************************)
EXTENDS Naturals, FiniteSets

CONSTANTS
    MPorts,      \* bundles of the bridge, and the ASIC ports named like them
    Mbundles,    \* addresses xzalloc may return for a struct mbundle
    Mirrors,     \* the aux of the mirrors, and their names
    MAX_MIRRORS, \* size of mbridge->mirrors
    MirrorCmdsMayFail  \* may ovs-vsctl fail on a mirror, all else being right?

ASSUME MirrorAssumption ==
    /\ MAX_MIRRORS \in Nat /\ MirrorCmdsMayFail \in BOOLEAN
    /\ {"none", "no mirror"} \cap (MPorts \cup Mbundles) = {}

(* A mirror selects sources and destinations, elements of P, and has one   *)
(* output or "none".                                                       *)
Selection(P) == [srcs : SUBSET P, dsts : SUBSET P, out : P \cup {"none"}]

Nothing  == [srcs |-> {}, dsts |-> {}, out |-> "none"]
NoMirror == [srcs |-> {}, dsts |-> {}, out |-> "no mirror"]

VARIABLES
    mbundle,    \* the mbundle of a bundle, "none" when there is no bundle
    mirror,     \* mbridge->mirrors: pointers to mbundles, by aux
    asicPorts,  \* ports in the ASIC
    asicMirror  \* mirrors in the ASIC: their ports, by name

mirrorVars == <<mbundle, mirror, asicPorts, asicMirror>>

Registered == {mbundle[b] : b \in MPorts} \ {"none"}
BundlesNow == {b \in MPorts : mbundle[b] # "none"}
CmdFails   == IF MirrorCmdsMayFail THEN BOOLEAN ELSE {FALSE}

-----------------------------------------------------------------------------
(* Bundles, as far as mirrors are concerned                                *)

(* bundle_set makes a bundle: xzalloc may return an address that was freed *)
(* before.                                                                 *)
mbridge_register_bundle(b) ==
    /\ mbundle[b] = "none"
    /\ \E a \in Mbundles \ Registered : mbundle' = [mbundle EXCEPT ![b] = a]
    /\ UNCHANGED <<mirror, asicPorts, asicMirror>>

(* The ASIC database refers to ports weakly: a deleted port leaves the     *)
(* mirrors that name it.                                                   *)
PortDeleted(b) ==
    [m \in Mirrors |->
        [asicMirror[m] EXCEPT !.srcs = @ \ {b}, !.dsts = @ \ {b},
                              !.out = IF @ = b THEN "none" ELSE @]]

(* bundle_configure: del-port if the port is in the ASIC, and add-port or  *)
(* not, depending on its VLANs.                                            *)
bundle_configure(b) ==
    /\ mbundle[b] # "none"
    /\ asicMirror' = IF b \in asicPorts THEN PortDeleted(b) ELSE asicMirror
    /\ asicPorts' \in {asicPorts \cup {b}, asicPorts \ {b}}
    /\ UNCHANGED <<mbundle, mirror>>

(* Mutant: the destinations are looked at first.                           *)
UnregisteredDstsFirst(r, a) ==
    IF r.out = a THEN NoMirror
    ELSE IF a \in r.dsts THEN [r EXCEPT !.dsts = @ \ {a}]
    ELSE [r EXCEPT !.srcs = @ \ {a}]

(* Mutant: the destinations are not looked at.                             *)
UnregisteredSrcs(r, a) ==
    IF r.out = a THEN NoMirror ELSE [r EXCEPT !.srcs = @ \ {a}]

(* mbridge_unregister_bundle, for one mirror r and the mbundle a: without  *)
(* its output the mirror is destroyed, here and not in the ASIC.  A        *)
(* pointer is taken from the destinations only if it was not found in the  *)
(* sources.                                                                *)
Unregistered(r, a) ==
    IF r.out = a THEN NoMirror
    ELSE IF a \in r.srcs THEN [r EXCEPT !.srcs = @ \ {a}]
    ELSE [r EXCEPT !.dsts = @ \ {a}]

(* bundle_destroy, of the same bundle: unregister, then del-port.          *)
bundle_destroy(b) ==
    /\ mbundle[b] # "none"
    /\ mirror' = [m \in Mirrors |-> Unregistered(mirror[m], mbundle[b])]
    /\ mbundle' = [mbundle EXCEPT ![b] = "none"]
    /\ asicMirror' = PortDeleted(b)
    /\ asicPorts' = asicPorts \ {b}

-----------------------------------------------------------------------------
(* mirror_set                                                              *)

(* The requests for a mirror name ports, for which there may be no bundle. *)
Requests == Selection(MPorts)

(* The bundle found for the output, and the ports that the ASIC command    *)
(* names.                                                                  *)
OutBundle(s) == IF s.out \in BundlesNow THEN s.out ELSE "none"
Named(s)     == s.srcs \cup s.dsts \cup ({OutBundle(s)} \ {"none"})

(* Every port of the request has its bundle.                               *)
Complete(s) == s.srcs \cup s.dsts \subseteq BundlesNow /\ OutBundle(s) # "none"

(* mbundle_lookup, mbundle_lookup_multiple: the request as pointers.       *)
Pointers(s) ==
    [srcs |-> {mbundle[b] : b \in s.srcs \cap BundlesNow},
     dsts |-> {mbundle[b] : b \in s.dsts \cap BundlesNow},
     out  |-> IF OutBundle(s) = "none" THEN "none" ELSE mbundle[s.out]]

(* Mutant: one mirror too many.                                            *)
RoomForOneMore(m) ==
    mirror[m] # NoMirror
    \/ Cardinality({n \in Mirrors : mirror[n] # NoMirror}) <= MAX_MIRRORS

(* mirror_lookup finds a mirror, or mirror_scan a free place; otherwise    *)
(* mirror_set returns EFBIG.                                               *)
Room(m) ==
    mirror[m] # NoMirror
    \/ Cardinality({n \in Mirrors : mirror[n] # NoMirror}) < MAX_MIRRORS

(* The mirror that the request is compared with: a new one is empty.       *)
Current(m) == IF mirror[m] = NoMirror THEN Nothing ELSE mirror[m]

(* A port of another bridge: the mirror is destroyed, also when it was in  *)
(* use; the ASIC is not told.                                              *)
mirror_set_refused(m) ==
    /\ Room(m)
    /\ mirror' = [mirror EXCEPT ![m] = NoMirror]
    /\ UNCHANGED <<mbundle, asicPorts, asicMirror>>

(* "If the configuration has not changed, do nothing", although a mirror   *)
(* may have been made.                                                     *)
mirror_set_unchanged(m, s) ==
    /\ Room(m) /\ Pointers(s) = Current(m)
    /\ mirror' = [mirror EXCEPT ![m] = Pointers(s)]
    /\ UNCHANGED <<mbundle, asicPorts, asicMirror>>

(* Mutant: the mirror is kept when its creation in the ASIC fails.         *)
KeptIfFailed(created, s) == Pointers(s)

(* What is kept of the request: mirror_destroy if the creation failed.     *)
KeptIfCreated(created, s) == IF created THEN Pointers(s) ELSE NoMirror

(* A change: a mirror that existed is deleted in the ASIC, whatever comes  *)
(* of it, and created anew.  The creation fails when one of the ports is   *)
(* not in the ASIC, or a mirror of that name still is: "set mirror" would  *)
(* then match two rows.                                                    *)
mirror_set_configure(m, s) ==
    /\ Room(m) /\ Pointers(s) # Current(m) /\ Complete(s)
    /\ \E delFails \in CmdFails, createFails \in CmdFails :
          LET left    == IF mirror[m] # NoMirror /\ ~delFails
                         THEN NoMirror ELSE asicMirror[m]
              created == left = NoMirror /\ Named(s) \subseteq asicPorts /\ ~createFails
          IN  /\ asicMirror' = [asicMirror EXCEPT ![m] = IF created THEN s ELSE left]
              /\ mirror' = [mirror EXCEPT ![m] = KeptIfCreated(created, s)]
    /\ UNCHANGED <<mbundle, asicPorts>>

(* A change with a bundle missing: the command is put together from the    *)
(* names of the sources and destinations, and the length check reads the   *)
(* name of out_bundle ("+" binds tighter than "==" there): one of these is *)
(* NULL, and the process dies.  When it is started again its bridges and   *)
(* the ASIC database are made anew.                                        *)
mirror_set_dies(m, s) ==
    /\ Room(m) /\ Pointers(s) # Current(m) /\ ~Complete(s)
    /\ mbundle' = [b \in MPorts |-> "none"] /\ asicPorts' = {}
    /\ mirror' = [n \in Mirrors |-> NoMirror]
    /\ asicMirror' = [n \in Mirrors |-> NoMirror]

(* Settings NULL: delete it in the ASIC, if that works, and here.          *)
mirror_set_null(m) ==
    /\ mirror[m] # NoMirror
    /\ mirror' = [mirror EXCEPT ![m] = NoMirror]
    /\ \E delFails \in CmdFails :
          asicMirror' = IF delFails THEN asicMirror
                        ELSE [asicMirror EXCEPT ![m] = NoMirror]
    /\ UNCHANGED <<mbundle, asicPorts>>

-----------------------------------------------------------------------------
MirrorInit ==
    /\ mbundle = [b \in MPorts |-> "none"] /\ asicPorts = {}
    /\ mirror = [m \in Mirrors |-> NoMirror]
    /\ asicMirror = [m \in Mirrors |-> NoMirror]

mirror_set(m) ==
    \/ mirror_set_null(m)
    \/ mirror_set_refused(m)
    \/ \E s \in Requests : \/ mirror_set_unchanged(m, s)
                           \/ mirror_set_configure(m, s)
                           \/ mirror_set_dies(m, s)

MirrorNext ==
    \/ \E b \in MPorts : \/ mbridge_register_bundle(b)
                         \/ bundle_configure(b)
                         \/ bundle_destroy(b)
    \/ \E m \in Mirrors : mirror_set(m)

MirrorSpec == MirrorInit /\ [][MirrorNext]_mirrorVars

-----------------------------------------------------------------------------
(* Properties                                                              *)

(* The sets the variables range over; two bundles never share an mbundle   *)
(* (mbridge_register_bundle), and there are never more mirrors than places *)
(* for them (mirror_scan).                                                 *)
MirrorTypeOK ==
    /\ mbundle \in [MPorts -> Mbundles \cup {"none"}]
    /\ \A b, c \in BundlesNow : mbundle[b] = mbundle[c] => b = c
    /\ mirror \in [Mirrors -> Selection(Mbundles) \cup {NoMirror}]
    /\ Cardinality({m \in Mirrors : mirror[m] # NoMirror}) <= MAX_MIRRORS
    /\ asicPorts \subseteq BundlesNow
    /\ asicMirror \in [Mirrors -> Selection(MPorts) \cup {NoMirror}]

(* mbridge_unregister_bundle leaves no mirror with a freed mbundle as a    *)
(* source or as its output, through any creation and destruction of        *)
(* bundles and reuse of their memory.  (Of the destinations this is not    *)
(* so: see Unregistered.)                                                  *)
SourcesAlive ==
    \A m \in Mirrors : mirror[m] # NoMirror =>
        mirror[m].srcs \cup ({mirror[m].out} \ {"none"}) \subseteq Registered

(* The ASIC mirrors no port, and outputs to none, that the mirror kept by  *)
(* mirror_set does not have, also when the kept pointers dangle, memory is *)
(* reused, commands fail, or a row was left behind by a mirror that was    *)
(* destroyed: a row that is not the mirror's own is never taken for it.    *)
(* (An empty mirror is not compared: mirror_set says of an empty request   *)
(* for a new mirror that it is unchanged.)                                 *)
NothingElseMirrored ==
    \A m \in Mirrors :
        mirror[m] \notin {NoMirror, Nothing} /\ asicMirror[m] # NoMirror =>
            /\ {mbundle[b] : b \in asicMirror[m].srcs} \subseteq mirror[m].srcs
            /\ {mbundle[b] : b \in asicMirror[m].dsts} \subseteq mirror[m].dsts
            /\ asicMirror[m].out \in BundlesNow =>
                   mbundle[asicMirror[m].out] = mirror[m].out

(* "Contains struct mbundle*s" (struct mirror, dsts): a destination is     *)
(* freed under its mirror only when it was also a source of it, whatever   *)
(* is set, refused, destroyed or allocated again in between.               *)
DestinationsLeave ==
    [][\A m \in Mirrors : mirror'[m] # NoMirror =>
          \A a \in mirror'[m].dsts \ Registered' :
             a \notin Registered \/ a \in mirror[m].srcs]_mirrorVars
=============================================================================
