---------------------------- MODULE SimStpProofs ----------------------------
(***************************************************************************)
(* The spanning tree plugin: proofs for every finite set of ports, every   *)
(* set of states, and with commands that fail or not.                      *)
(***************************************************************************)
EXTENDS SimStp, FiniteSetTheorems, TLAPS

-----------------------------------------------------------------------------
(* Operators                                                               *)

LEMMA StatesApart ==
    "none" \notin ValidStates /\ "invalid" \notin ValidStates /\ "default" \notin ValidStates
  BY StpAssumption

(* The sets of ports that a reconfigure looks at.                          *)
LEMMA PortSets ==
    /\ Known \subseteq StpPorts /\ Deleted \subseteq Known
    /\ New \subseteq StpPorts /\ New \cap Known = {} /\ NewValid \subseteq New
    /\ \A p \in NewValid : rows[p] \in ValidStates
    /\ \A p \in New : rows[p] # "none"
  BY DEF Known, Existing, Deleted, New, NewValid, get_port_state_from_string

(* What the update loop sets are states of rows of known ports, and all of *)
(* them when no row is without a state.                                    *)
LEMMA UpdatesFacts ==
    ASSUME NEW updated \in Updates
    PROVE  /\ updated \subseteq Existing \cap Known
           /\ \A p \in updated : rows[p] \in ValidStates /\ rows[p] # "none"
           /\ (\A p \in Existing : rows[p] \in ValidStates) =>
                 \A p \in Existing \cap Known : p \in updated \/ rows[p] = stp_state[p]
  BY DEF Updates, get_port_state_from_string, Existing

LEMMA FailuresIn ==
    ASSUME NEW P
    PROVE  StpFailures(P) \subseteq SUBSET P
  BY DEF StpFailures

LEMMA BrSetFacts ==
    ASSUME NEW bridge, NEW first, NEW stp \in br_set(bridge, first)
    PROVE  stp.enable \subseteq first /\ stp.failed \subseteq first
  BY DEF br_set

(* The port that makes nb_ports one is there when nb_ports becomes one.    *)
LEMMA FirstFacts ==
    ASSUME NEW first \in First
    PROVE  /\ first \subseteq NewValid
           /\ first = {} => ~(nb_ports - Cardinality(Deleted) <= 0 /\ Counted >= 1)
  BY DEF First

-----------------------------------------------------------------------------
(* What a reconfigure does, with names for its choices                     *)

Reconfigures(first, updated, stp, noadd, noset) ==
    LET added == NewValid \ stp.failed
    IN  /\ kStp' = (kStp \/ stp.enable # {})
        /\ unset' = (unset \/ stp.enable # first)
        /\ missed' = (missed \ (Deleted \cup New)) \cup stp.failed
                     \cup noadd \cup noset \cup (IF kBridge' THEN {} ELSE NewValid)
        /\ late' = (late \ Deleted) \cup (New \ NewValid)
        /\ kMembers' = Members(kBridge', added \ noadd)
        /\ stp_state' = [p \in StpPorts |->
              IF p \in Deleted THEN "none"
              ELSE IF p \in New \cup updated THEN rows[p] ELSE stp_state[p]]
        /\ kState' = mstp_cist_set_port((added \cup updated) \ noset, kMembers')

LEMMA ReconfigureChoices ==
    ASSUME stp_reconfigure
    PROVE  /\ cistRow /\ changed /\ ~changed' /\ msti' /\ nb_ports' = Counted
           /\ changed' \in BOOLEAN /\ msti' \in BOOLEAN
           /\ kBridge' \in mstp_cist_add_del_bridge /\ UNCHANGED <<cistRow, rows>>
           /\ \E first \in First, updated \in Updates :
              \E stp \in br_set(kBridge', first), noadd \in SUBSET NewValid,
                 noset \in SUBSET (NewValid \cup updated) :
                 Reconfigures(first, updated, stp, noadd, noset)
<1>1. \E first \in First, updated \in Updates :
      \E stp \in br_set(kBridge', first), noadd \in SUBSET NewValid,
         noset \in SUBSET (NewValid \cup updated) :
         Reconfigures(first, updated, stp, noadd, noset)
  <2>1. PICK first \in First, updated \in Updates :
        \E stp \in br_set(kBridge', first), noadd \in StpFailures(NewValid),
           noset \in StpFailures(NewValid \cup updated) :
           Reconfigures(first, updated, stp, noadd, noset)
    BY DEF stp_reconfigure, Reconfigures
  <2>2. PICK stp \in br_set(kBridge', first), noadd \in StpFailures(NewValid),
             noset \in StpFailures(NewValid \cup updated) :
             Reconfigures(first, updated, stp, noadd, noset)
    BY <2>1
  <2>3. noadd \in SUBSET NewValid /\ noset \in SUBSET (NewValid \cup updated)
    BY <2>2, FailuresIn
  <2> QED  BY <2>2, <2>3
<1> QED  BY <1>1 DEF stp_reconfigure

-----------------------------------------------------------------------------
(* Types                                                                   *)

LEMMA CardsAreNat ==
    /\ IsFiniteSet(Known) /\ IsFiniteSet(Deleted) /\ IsFiniteSet(New) /\ IsFiniteSet(NewValid)
    /\ Cardinality(Known) \in Nat /\ Cardinality(Deleted) \in Nat
    /\ Cardinality(New) \in Nat /\ Cardinality(NewValid) \in Nat
    /\ Cardinality(NewValid) <= Cardinality(New)
<1>1. IsFiniteSet(StpPorts)
  BY StpAssumption
<1>2. /\ Known \subseteq StpPorts /\ Deleted \subseteq StpPorts
      /\ New \subseteq StpPorts /\ NewValid \subseteq StpPorts /\ NewValid \subseteq New
  BY PortSets
<1>3. /\ IsFiniteSet(Known) /\ IsFiniteSet(Deleted)
      /\ IsFiniteSet(New) /\ IsFiniteSet(NewValid)
  BY <1>1, <1>2, FS_Subset
<1>4. Cardinality(NewValid) <= Cardinality(New)
  BY <1>2, <1>3, FS_Subset
<1> QED  BY <1>3, <1>4, FS_CardinalityType

LEMMA StpTypeStep ==
    ASSUME StpTypeOK, [StpNext]_stpVars
    PROVE  StpTypeOK'
<1>1. ASSUME NEW r \in [StpPorts -> RowStates], WriteRows(r)
      PROVE  StpTypeOK'
  <2>1. /\ cistRow' \in BOOLEAN /\ changed' \in BOOLEAN /\ rows' = r
        /\ UNCHANGED <<msti, stp_state, nb_ports, missed, late, unset>>
        /\ UNCHANGED <<kBridge, kStp, kMembers, kState>>
    BY <1>1 DEF WriteRows, plugin, kernel
  <2> QED  BY <1>1, <2>1 DEF StpTypeOK
<1>2. "none" \in RowStates
  BY DEF RowStates
<1>3. CASE DeleteRows
  BY <1>2, <1>3 DEF DeleteRows, plugin, kernel, StpTypeOK
<1>4. CASE Restart
  <2>1. /\ UNCHANGED <<cistRow, rows, kBridge, kStp, kMembers, kState>>
        /\ msti' = FALSE /\ nb_ports' = 0 /\ missed' = {} /\ late' = {} /\ unset' = FALSE
        /\ stp_state' = [p \in StpPorts |-> "none"] /\ changed' = cistRow
    BY <1>4 DEF Restart, kernel
  <2>2. stp_state' \in [StpPorts -> RowStates] /\ nb_ports' \in Int
    BY <1>2, <2>1
  <2> QED  BY <2>1, <2>2 DEF StpTypeOK
<1>5. CASE stp_reconfigure
  <2>1. PICK first \in First, updated \in Updates :
        \E stp \in br_set(kBridge', first), noadd \in SUBSET NewValid,
           noset \in SUBSET (NewValid \cup updated) :
           Reconfigures(first, updated, stp, noadd, noset)
    BY <1>5, ReconfigureChoices
  <2>2. PICK stp \in br_set(kBridge', first), noadd \in SUBSET NewValid,
             noset \in SUBSET (NewValid \cup updated) :
             Reconfigures(first, updated, stp, noadd, noset)
    BY <2>1
  <2>3. /\ changed' \in BOOLEAN /\ msti' \in BOOLEAN /\ UNCHANGED <<cistRow, rows>>
        /\ nb_ports' = Counted /\ kBridge' \in BOOLEAN
    BY <1>5, ReconfigureChoices DEF mstp_cist_add_del_bridge, StpTypeOK
  <2>4. nb_ports' \in Int
    BY <2>3, CardsAreNat DEF Counted, StpTypeOK
  <2>5. /\ updated \subseteq StpPorts /\ NewValid \subseteq StpPorts
        /\ New \subseteq StpPorts /\ Deleted \subseteq StpPorts
        /\ stp.failed \subseteq StpPorts
    BY PortSets, UpdatesFacts, FirstFacts, BrSetFacts DEF Known
  <2>6. missed' \subseteq StpPorts /\ late' \subseteq StpPorts /\ kMembers' \subseteq StpPorts
    BY <2>2, <2>5 DEF Reconfigures, Members, StpTypeOK
  <2>7. stp_state' \in [StpPorts -> RowStates]
    BY <1>2, <2>2 DEF Reconfigures, StpTypeOK
  <2>8. kState' \in [StpPorts -> ValidStates \cup {"default"}]
    <3>1. \A p \in NewValid \cup updated : rows[p] \in ValidStates
      BY PortSets, UpdatesFacts
    <3> QED  BY <2>2, <3>1 DEF Reconfigures, mstp_cist_set_port, StpTypeOK
  <2>9. kStp' \in BOOLEAN /\ unset' \in BOOLEAN
    BY <2>2 DEF Reconfigures
  <2> QED  BY <2>3, <2>4, <2>6, <2>7, <2>8, <2>9 DEF StpTypeOK
<1>6. CASE UNCHANGED stpVars
  <2>1. /\ UNCHANGED <<cistRow, rows, changed, msti, stp_state, nb_ports, missed, late, unset>>
        /\ UNCHANGED <<kBridge, kStp, kMembers, kState>>
    BY <1>6 DEF stpVars, plugin, kernel
  <2> QED  BY <2>1 DEF StpTypeOK
<1> QED  BY <1>1, <1>3, <1>4, <1>5, <1>6 DEF StpNext

(* nb_ports stays a number and the kernel never gets a state that is none, *)
(* for any rows that the database may hold.                                *)
THEOREM StpTypeCorrect == StpSpec => []StpTypeOK
<1>1. StpInit => StpTypeOK
  <2> SUFFICES ASSUME StpInit PROVE StpTypeOK
    OBVIOUS
  <2>1. /\ rows \in [StpPorts -> RowStates] /\ stp_state \in [StpPorts -> RowStates]
        /\ kState \in [StpPorts -> ValidStates \cup {"default"}] /\ nb_ports \in Int
    BY DEF StpInit, RowStates
  <2> QED  BY <2>1 DEF StpInit, StpTypeOK
<1>2. StpTypeOK /\ [StpNext]_stpVars => StpTypeOK'
  BY StpTypeStep
<1> QED  BY <1>1, <1>2, PTL DEF StpSpec

-----------------------------------------------------------------------------
(* The states in the kernel                                                *)

(* The plugin's copy of a state is the kernel's, for a port of the bridge  *)
(* that was not missed; once the changes have been seen, the copies are    *)
(* the states of the rows, when all rows have one.                         *)
KernelHasCopy ==
    \A p \in kMembers \ missed : stp_state[p] \in ValidStates => kState[p] = stp_state[p]

CopyIsRow ==
    cistRow /\ ~changed /\ (\A p \in Existing : rows[p] \in ValidStates) =>
        \A p \in Existing : stp_state[p] = rows[p]

LEMMA CopyStep ==
    ASSUME StpTypeOK, KernelHasCopy, CopyIsRow, [StpNext]_stpVars
    PROVE  KernelHasCopy' /\ CopyIsRow'
<1>1. ASSUME NEW r, WriteRows(r)
      PROVE  KernelHasCopy' /\ CopyIsRow'
  BY <1>1 DEF WriteRows, plugin, kernel, KernelHasCopy, CopyIsRow
<1>2. CASE DeleteRows
  BY <1>2 DEF DeleteRows, plugin, kernel, KernelHasCopy, CopyIsRow
<1>3. CASE Restart
  <2>1. \A p \in kMembers' : stp_state'[p] \notin ValidStates
    BY <1>3, StatesApart DEF Restart, kernel, StpTypeOK
  <2>2. CopyIsRow'
    BY <1>3 DEF Restart, CopyIsRow
  <2> QED  BY <2>1, <2>2 DEF KernelHasCopy
<1>4. CASE stp_reconfigure
  <2>1. PICK first \in First, updated \in Updates :
        \E stp \in br_set(kBridge', first), noadd \in SUBSET NewValid,
           noset \in SUBSET (NewValid \cup updated) :
           Reconfigures(first, updated, stp, noadd, noset)
    BY <1>4, ReconfigureChoices
  <2>2. PICK stp \in br_set(kBridge', first), noadd \in SUBSET NewValid,
             noset \in SUBSET (NewValid \cup updated) :
             Reconfigures(first, updated, stp, noadd, noset)
    BY <2>1
  <2>3. UNCHANGED <<cistRow, rows>> /\ Existing' = Existing
    BY <1>4, ReconfigureChoices DEF Existing
  <2>4. \A p \in StpPorts : stp_state'[p] = IF p \in Deleted THEN "none"
                                           ELSE IF p \in New \cup updated THEN rows[p]
                                           ELSE stp_state[p]
    BY <2>2 DEF Reconfigures
  <2>5. ASSUME NEW p \in kMembers' \ missed', stp_state'[p] \in ValidStates
        PROVE  kState'[p] = stp_state'[p]
    <3>1. p \in StpPorts /\ p \notin Deleted
      <4>1. StpTypeOK'
        BY StpTypeStep
      <4>2. p \in StpPorts
        BY <2>5, <4>1 DEF StpTypeOK
      <4> QED  BY <2>4, <2>5, <4>2, StatesApart
    <3>2. p \notin stp.failed /\ p \notin noset /\ (p \in missed => p \in New)
      BY <2>2, <2>5, <3>1 DEF Reconfigures
    <3>3. kState'[p] = IF p \in (((NewValid \ stp.failed) \cup updated) \ noset) \cap kMembers'
                       THEN rows[p] ELSE kState[p]
      BY <2>2, <3>1 DEF Reconfigures, mstp_cist_set_port
    <3>4. CASE p \in New \cup updated
      <4>1. stp_state'[p] = rows[p]
        BY <2>4, <3>1, <3>4
      <4>2. p \in NewValid \cup updated
        BY <2>5, <3>4, <4>1 DEF NewValid, get_port_state_from_string
      <4> QED  BY <2>5, <3>2, <3>3, <4>1, <4>2
    <3>5. CASE p \notin New \cup updated
      <4>1. stp_state'[p] = stp_state[p]
        BY <2>4, <3>1, <3>5
      <4>2. p \in kMembers /\ p \notin missed /\ p \notin NewValid
        BY <2>2, <2>5, <3>2, <3>5, PortSets DEF Reconfigures, Members
      <4> QED  BY <2>5, <3>3, <3>5, <4>1, <4>2 DEF KernelHasCopy
    <3> QED  BY <3>4, <3>5
  <2>6. ASSUME \A p \in Existing : rows[p] \in ValidStates, NEW p \in Existing
        PROVE  stp_state'[p] = rows[p]
    <3>1. p \in StpPorts /\ p \notin Deleted
      BY <2>6 DEF Existing, Deleted
    <3>2. p \in New \/ p \in updated \/ rows[p] = stp_state[p]
      BY <2>6, UpdatesFacts DEF New
    <3> QED  BY <2>4, <3>1, <3>2
  <2> QED  BY <2>3, <2>5, <2>6 DEF KernelHasCopy, CopyIsRow
<1>5. CASE UNCHANGED stpVars
  <2>1. UNCHANGED <<cistRow, rows, changed, stp_state, missed, kMembers, kState>>
    BY <1>5 DEF stpVars, plugin, kernel
  <2> QED  BY <2>1 DEF KernelHasCopy, CopyIsRow, Existing
<1> QED  BY <1>1, <1>2, <1>3, <1>4, <1>5 DEF StpNext

(* Every state of a row reaches the kernel, with any number of ports:      *)
(* whatever the returns in the middle of the loop, the restarts and the    *)
(* failed commands before, a reconfigure that finds a state in every row   *)
(* leaves no port of the bridge with another one, but those missed.        *)
THEOREM KernelStatesCorrect == StpSpec => []StatesReachKernel
<1>1. StpInit => KernelHasCopy /\ CopyIsRow
  BY DEF StpInit, KernelHasCopy, CopyIsRow
<1>2. StpTypeOK /\ KernelHasCopy /\ CopyIsRow /\ [StpNext]_stpVars
      => KernelHasCopy' /\ CopyIsRow'
  BY CopyStep
<1>3. KernelHasCopy /\ CopyIsRow => StatesReachKernel
  BY DEF KernelHasCopy, CopyIsRow, StatesReachKernel
<1> QED  BY <1>1, <1>2, <1>3, StpTypeCorrect, PTL DEF StpSpec

-----------------------------------------------------------------------------
(* The ports of the bridge                                                 *)

(* All ports with a row are known once the changes have been seen, and a   *)
(* port that is known joined when it was first seen, or is accounted for.  *)
JoinInv ==
    /\ cistRow /\ ~changed => Existing \subseteq Known
    /\ Known \subseteq kMembers \cup missed \cup late

LEMMA JoinStep ==
    ASSUME StpTypeOK, JoinInv, [StpNext]_stpVars
    PROVE  JoinInv'
<1>1. ASSUME NEW r, WriteRows(r)
      PROVE  JoinInv'
  BY <1>1 DEF WriteRows, plugin, kernel, JoinInv, Known
<1>2. CASE DeleteRows
  BY <1>2 DEF DeleteRows, plugin, kernel, JoinInv, Known
<1>3. CASE Restart
  BY <1>3 DEF Restart, JoinInv, Known
<1>4. CASE stp_reconfigure
  <2>1. PICK first \in First, updated \in Updates :
        \E stp \in br_set(kBridge', first), noadd \in SUBSET NewValid,
           noset \in SUBSET (NewValid \cup updated) :
           Reconfigures(first, updated, stp, noadd, noset)
    BY <1>4, ReconfigureChoices
  <2>2. PICK stp \in br_set(kBridge', first), noadd \in SUBSET NewValid,
             noset \in SUBSET (NewValid \cup updated) :
             Reconfigures(first, updated, stp, noadd, noset)
    BY <2>1
  <2>3. \A p \in StpPorts : stp_state'[p] = IF p \in Deleted THEN "none"
                                           ELSE IF p \in New \cup updated THEN rows[p]
                                           ELSE stp_state[p]
    BY <2>2 DEF Reconfigures
  <2>4. Existing' = Existing
    BY <1>4, ReconfigureChoices DEF Existing
  <2>5. Known' = (Known \ Deleted) \cup New
    BY <2>3, PortSets, UpdatesFacts DEF Known
  <2>6. Existing \subseteq Known'
    BY <2>5 DEF Deleted, New, Existing, Known
  <2>7. \A p \in Known \ Deleted : p \in kMembers' \cup missed' \cup late'
    BY <2>2, PortSets DEF Reconfigures, Members, JoinInv
  <2>8. \A p \in New : p \in kMembers' \cup missed' \cup late'
    BY <2>2 DEF Reconfigures, Members
  <2> QED  BY <2>4, <2>5, <2>6, <2>7, <2>8 DEF JoinInv
<1>5. CASE UNCHANGED stpVars
  <2>1. UNCHANGED <<cistRow, rows, changed, stp_state, missed, late, kMembers>>
    BY <1>5 DEF stpVars, plugin, kernel
  <2> QED  BY <2>1 DEF JoinInv, Existing, Known
<1> QED  BY <1>1, <1>2, <1>3, <1>4, <1>5 DEF StpNext

(* With any number of ports and whatever was deleted, written again,       *)
(* skipped or restarted before: a port with a row is out of the kernel     *)
(* bridge, once the changes have been seen, only if a command for it was   *)
(* missed or its state came late.                                          *)
THEOREM PortsHaveJoined == StpSpec => []PortsJoin
<1>1. StpInit => JoinInv
  BY DEF StpInit, JoinInv, Known
<1>2. StpTypeOK /\ JoinInv /\ [StpNext]_stpVars => JoinInv'
  BY JoinStep
<1>3. JoinInv => PortsJoin
  BY DEF JoinInv, PortsJoin
<1> QED  BY <1>1, <1>2, <1>3, StpTypeCorrect, PTL DEF StpSpec

-----------------------------------------------------------------------------
(* STP on the bridge                                                       *)

(* nb_ports is at most the number of ports that the plugin knows.  While   *)
(* it is that number, every one of them was counted, so the first of them  *)
(* made it one: that is when br_set was called.                            *)
CountInv ==
    /\ nb_ports <= Cardinality(Known)
    /\ Known # {} => kStp \/ unset \/ nb_ports < Cardinality(Known)

(* The number of known ports after a reconfigure.                          *)
LEMMA KnownAfter ==
    ASSUME StpTypeOK, stp_reconfigure
    PROVE  Cardinality(Known') = Cardinality(Known) - Cardinality(Deleted) + Cardinality(New)
<1>1. PICK first \in First, updated \in Updates :
      \E stp \in br_set(kBridge', first), noadd \in SUBSET NewValid,
         noset \in SUBSET (NewValid \cup updated) :
         Reconfigures(first, updated, stp, noadd, noset)
  BY ReconfigureChoices
<1>2. \A p \in StpPorts : stp_state'[p] = IF p \in Deleted THEN "none"
                                          ELSE IF p \in New \cup updated THEN rows[p]
                                          ELSE stp_state[p]
  BY <1>1 DEF Reconfigures
<1>3. /\ updated \subseteq Known /\ \A p \in updated : rows[p] # "none"
      /\ New \subseteq StpPorts /\ \A p \in New : rows[p] # "none"
      /\ Deleted \subseteq Known /\ New \cap Known = {}
  BY PortSets, UpdatesFacts
<1>4. Known' = (Known \ Deleted) \cup New
  BY <1>2, <1>3 DEF Known
<1>5. IsFiniteSet(Known \ Deleted) /\ (Known \ Deleted) \cap New = {}
      /\ Known \cap Deleted = Deleted
  BY <1>3, CardsAreNat, FS_Difference
<1>6. Cardinality(Known \ Deleted) = Cardinality(Known) - Cardinality(Deleted)
  BY <1>5, CardsAreNat, FS_Difference
<1>7. /\ Cardinality((Known \ Deleted) \cup New)
           = Cardinality(Known \ Deleted) + Cardinality(New) - Cardinality((Known \ Deleted) \cap New)
  BY <1>5, CardsAreNat, FS_Union
<1>8. Cardinality((Known \ Deleted) \cap New) = 0
  BY <1>5, FS_EmptySet
<1> QED  BY <1>4, <1>6, <1>7, <1>8, CardsAreNat

LEMMA CountStep ==
    ASSUME StpTypeOK, CountInv, [StpNext]_stpVars
    PROVE  CountInv'
<1>1. CASE UNCHANGED <<stp_state, nb_ports, unset, kStp>>
  <2>1. Known' = Known
    BY <1>1 DEF Known
  <2> QED  BY <1>1, <2>1 DEF CountInv
<1>2. CASE Restart
  <2>1. Known' = {} /\ nb_ports' = 0
    BY <1>2 DEF Restart, Known
  <2>2. Cardinality(Known') = 0
    BY <2>1, FS_EmptySet
  <2> QED  BY <2>1, <2>2 DEF CountInv
<1>3. CASE stp_reconfigure
  <2>1. PICK first \in First, updated \in Updates :
        \E stp \in br_set(kBridge', first), noadd \in SUBSET NewValid,
           noset \in SUBSET (NewValid \cup updated) :
           Reconfigures(first, updated, stp, noadd, noset)
    BY <1>3, ReconfigureChoices
  <2>2. PICK stp \in br_set(kBridge', first), noadd \in SUBSET NewValid,
             noset \in SUBSET (NewValid \cup updated) :
             Reconfigures(first, updated, stp, noadd, noset)
    BY <2>1
  <2>3. Cardinality(Known') = Cardinality(Known) - Cardinality(Deleted) + Cardinality(New)
    BY <1>3, KnownAfter
  <2>4. /\ nb_ports' = nb_ports - Cardinality(Deleted) + Cardinality(NewValid)
        /\ nb_ports \in Int /\ nb_ports' = Counted
    BY <1>3, ReconfigureChoices DEF Counted, StpTypeOK
  <2>5. nb_ports <= Cardinality(Known)
    BY DEF CountInv
  <2>6. nb_ports' <= Cardinality(Known')
    BY <2>3, <2>4, <2>5, CardsAreNat
  <2>7. ASSUME Known' # {}, ~kStp', ~unset', ~(nb_ports' < Cardinality(Known'))
        PROVE  FALSE
    <3>1. ~kStp /\ ~unset /\ first = {}
      BY <2>2, <2>7 DEF Reconfigures
    <3>2. ~(nb_ports - Cardinality(Deleted) <= 0 /\ Counted >= 1)
      BY <3>1, FirstFacts
    <3>3. Cardinality(Known') >= 1
      <4>1. IsFiniteSet(Known')
        BY StpAssumption, FS_Subset DEF Known
      <4>2. Cardinality(Known') \in Nat /\ Cardinality(Known') # 0
        BY <2>7, <4>1, FS_EmptySet, FS_CardinalityType
      <4> QED  BY <4>2
    <3>4. Counted >= 1
      BY <2>3, <2>4, <2>6, <2>7, <3>3, CardsAreNat
    <3>5. nb_ports > 0 /\ nb_ports >= Cardinality(Known)
      BY <2>3, <2>4, <2>7, <3>2, <3>4, CardsAreNat
    <3>6. Known # {}
      <4>1. Cardinality(Known) > 0
        BY <2>4, <2>5, <3>5, CardsAreNat
      <4> QED  BY <4>1, FS_EmptySet
    <3> QED  BY <2>4, <3>1, <3>5, <3>6, CardsAreNat DEF CountInv
  <2> QED  BY <2>6, <2>7 DEF CountInv
<1> QED  BY <1>1, <1>2, <1>3
         DEF StpNext, WriteRows, DeleteRows, plugin, kernel, stpVars

(* STP is enabled on a bridge with ports of this process, with any number  *)
(* of them, unless br_set failed or nb_ports had fallen behind.            *)
THEOREM StpEnabled == StpSpec => []StpEnabledWithPorts
<1>1. StpInit => CountInv
  <2> SUFFICES ASSUME StpInit PROVE CountInv
    OBVIOUS
  <2>1. Known = {} /\ nb_ports = 0
    BY DEF StpInit, Known
  <2>2. Cardinality(Known) = 0
    BY <2>1, FS_EmptySet
  <2> QED  BY <2>1, <2>2 DEF CountInv
<1>2. StpTypeOK /\ CountInv /\ [StpNext]_stpVars => CountInv'
  BY CountStep
<1>3. CountInv => StpEnabledWithPorts
  BY DEF CountInv, StpEnabledWithPorts
<1> QED  BY <1>1, <1>2, <1>3, StpTypeCorrect, PTL DEF StpSpec
=============================================================================
