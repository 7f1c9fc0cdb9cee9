--------------------------- MODULE BootChainProofs ---------------------------
(***************************************************************************)
(* Proofs about BootChain for every number of tries, priorities, rollback  *)
(* indexes, faults and updates.  IndInv is the inductive invariant; its    *)
(* parts say what the flow and its callers rely on from one write to the   *)
(* next.  The last two sections limit the faults: to those that leave the  *)
(* metadata accessible for the slot a failed start falls back to, to power *)
(* losses for the slots that are never given up.                           *)
(***************************************************************************)
EXTENDS BootChain, TLAPS

USE DEF Slot, NoSlot

\* Once the slots are verified, those with data are those left bootable.
FlowData ==
  /\ pc = "rollback" => slot_data # {}
  /\ pc \in {"rollback", "save"} /\ slot_data # {}
       => slot_data = {s \in Slot : slot_is_bootable(ab_data[s])}

\* Between the two flows and after them a boot image in RAM has made its slot
\* the cached one.
InSecondFlow == caller = "vendor_boot" /\ pc \in {"flow", "rollback", "save"}

BootLoaded ==
  /\ pc \in {"start", "os"} => caller = "vendor_boot"
  /\ pc = "os" => bootimage # NoSlot
  /\ (InSecondFlow \/ pc \in {"compare", "start", "os"}) /\ bootimage # NoSlot
       => cur_suffix \in Slot

\* The slot compared with that of kfld is the one that the flow has saved.
ChosenSlot ==
  pc = "compare" =>
    /\ bootimage \in Slot /\ misc.valid
    /\ slot_is_bootable(misc.slots[bootimage]) => get_active_slot(misc.slots) = bootimage

\* On a locked device the boot path only carries what was verified.
BootCaller == caller \in {"boot", "vendor_boot"}

LockedData ==
  locked /\ BootCaller /\ pc \in {"rollback", "save"}
    => \A s \in slot_data : image[s].kind \notin {Altered, "invalid"}

LockedIndex ==
  locked /\ BootCaller /\ pc = "rollback"
    => \A s \in slot_data : image[s].idx >= rollback

LockedImages ==
  locked =>
    /\ (InSecondFlow \/ pc \in {"compare", "start"}) /\ bootimage # NoSlot
         => image[bootimage].kind \notin {"bad_boot", "invalid"}
    /\ pc = "start" /\ vendorbootimage # NoSlot
         => image[vendorbootimage].kind \notin {"bad_vendor", "invalid"}

\* The slots the rollback update must not lock out have their data.
AcceptableHaveData ==
  pc = "rollback" => \A s \in Slot : AcceptableSlot(s) => s \in slot_data

IndInv == /\ TypeOK /\ FlowData /\ BootLoaded /\ ChosenSlot
          /\ LockedData /\ LockedIndex /\ LockedImages /\ AcceptableHaveData

-----------------------------------------------------------------------------
(* Metadata operations keep the metadata well formed *)

LEMMA UnbootableType == Unbootable \in SlotData /\ ~slot_is_bootable(Unbootable)
BY BoundsAssumption DEF Unbootable, SlotData, slot_is_bootable

LEMMA InitDataType == avb_ab_data_init \in AbData
BY BoundsAssumption DEF avb_ab_data_init, AbData, SlotData, FreshSlot

LEMMA NormalizedType ==
  ASSUME NEW ab \in AbData
  PROVE  /\ Normalized(ab) \in AbData
         /\ \A s \in Slot : slot_is_bootable(Normalized(ab)[s]) <=> slot_is_bootable(ab[s])
BY UnbootableType, Zenon DEF Normalized, AbData

LEMMA SetUnbootableType ==
  ASSUME NEW ab \in AbData, NEW s
  PROVE  slot_set_unbootable(ab, s) \in AbData
BY UnbootableType, Zenon DEF slot_set_unbootable, AbData

LEMMA MarkActiveType ==
  ASSUME NEW ab \in AbData, NEW s \in Slot
  PROVE  MarkActive(ab, s) \in AbData
<1> DEFINE n == Normalized(ab)
           o == n[Other(s)]
<1>1. FreshSlot(MaxPriority) \in SlotData
  BY BoundsAssumption DEF FreshSlot, SlotData
<1>2. o \in SlotData
  BY NormalizedType DEF AbData, Other
<1>3. [o EXCEPT !.priority = MaxPriority - 1] \in SlotData
  BY <1>2, BoundsAssumption DEF SlotData
<1> QED
  BY <1>1, <1>2, <1>3, Zenon DEF MarkActive, AbData

LEMMA MarkSuccessfulType ==
  ASSUME NEW ab \in AbData, NEW s \in Slot
  PROVE  MarkSuccessful(ab, s) \in AbData
<1> DEFINE n == Normalized(ab)
<1>1. n \in AbData
  BY NormalizedType, Zenon
<1>2. [priority |-> n[s].priority, tries_remaining |-> 0, successful_boot |-> TRUE]
        \in SlotData
  BY <1>1, BoundsAssumption DEF AbData, SlotData
<1> QED
  BY <1>1, <1>2, Zenon DEF MarkSuccessful, AbData

LEMMA MarkUnbootableType ==
  ASSUME NEW ab \in AbData, NEW s
  PROVE  MarkUnbootable(ab, s) \in AbData
BY NormalizedType, SetUnbootableType, Zenon DEF MarkUnbootable

LEMMA DecrementTriesType ==
  ASSUME NEW ab \in AbData, NEW s \in Slot
  PROVE  DecrementTries(ab, s) \in AbData
<1>1. CASE ~ab[s].successful_boot /\ ab[s].tries_remaining > 0
  <2>1. ab[s].tries_remaining - 1 \in 0 .. MaxTries
    BY <1>1, BoundsAssumption DEF AbData, SlotData
  <2> QED
    BY <1>1, <2>1, Zenon DEF DecrementTries, AbData, SlotData
<1>2. CASE ~(~ab[s].successful_boot /\ ab[s].tries_remaining > 0)
  BY <1>2, Zenon DEF DecrementTries
<1> QED
  BY <1>1, <1>2, Zenon

LEMMA SlotIndexType ==
  ASSUME NEW ab \in AbData
  PROVE  /\ SlotIndexToBoot(ab) \in Slot \union {NoSlot}
         /\ SlotIndexToBoot(ab) # NoSlot => slot_is_bootable(ab[SlotIndexToBoot(ab)])
         /\ SlotIndexToBoot(ab) = NoSlot => \A s \in Slot : ~slot_is_bootable(ab[s])
BY DEF SlotIndexToBoot

LEMMA HighestType ==
  ASSUME NEW ab
  PROVE  highest_priority_slot(ab) \in Slot \union {NoSlot}
BY Zenon DEF highest_priority_slot

LEMMA ActiveSlotType ==
  ASSUME NEW ab
  PROVE  get_active_slot(ab) \in Slot
BY Zenon DEF get_active_slot

\* kfld and the flow agree on the slot that the flow has counted a try of.
LEMMA KfldAgrees ==
  ASSUME NEW ab \in AbData, NEW s \in Slot, s = SlotIndexToBoot(ab),
         slot_is_bootable(DecrementTries(ab, s)[s])
  PROVE  get_active_slot(DecrementTries(ab, s)) = s
<1> DEFINE d == DecrementTries(ab, s)
<1>1. d \in AbData
  BY DecrementTriesType, Zenon
<1>2. /\ d[Other(s)] = ab[Other(s)] /\ d[s].priority = ab[s].priority /\ slot_is_bootable(ab[s])
  BY SlotIndexType DEF DecrementTries, AbData, SlotData, Other
<1>3. \A t \in Slot : /\ ab[t].priority \in Nat /\ d[t].priority \in Nat
                      /\ d[t].tries_remaining \in Nat /\ ab[t].tries_remaining \in Nat
  BY <1>1, BoundsAssumption DEF AbData, SlotData
<1>4. CASE slot_is_bootable(ab[Other(s)])
  <2>1. \/ s = 0 /\ ab[1].priority <= ab[0].priority
        \/ s = 1 /\ ab[0].priority < ab[1].priority
    <3>1. slot_is_bootable(ab[0]) /\ slot_is_bootable(ab[1])
      BY <1>2, <1>4 DEF Other
    <3>2. s = IF ab[1].priority > ab[0].priority THEN 1 ELSE 0
      BY <3>1, Zenon DEF SlotIndexToBoot
    <3> QED BY <1>3, <3>2
  <2> HIDE DEF d
  <2> QED BY <1>2, <1>3, <1>4, <2>1 DEF get_active_slot, Other, slot_is_bootable, d
<1>5. CASE ~slot_is_bootable(ab[Other(s)])
  <2>1. d[Other(s)].priority = 0 \/ ~(d[Other(s)].successful_boot \/ d[Other(s)].tries_remaining > 0)
    BY <1>2, <1>3, <1>5 DEF slot_is_bootable, Other
  <2>2. d[s].priority > 0 /\ (d[s].successful_boot \/ d[s].tries_remaining > 0)
    BY DEF slot_is_bootable
  <2> HIDE DEF d
  <2>3. get_active_slot(d) = s
    BY <1>3, <2>1, <2>2 DEF get_active_slot, Other
  <2> QED BY <2>3 DEF d
<1> QED
  BY <1>4, <1>5, Zenon

-----------------------------------------------------------------------------
(* The operators of the flow *)

LEMMA ReadSlotsType == TypeOK => ReadSlots \in AbData
BY InitDataType, Zenon DEF TypeOK, ReadSlots

LEMMA StoredType ==
  ASSUME NEW ab \in AbData
  PROVE  Stored(ab) \in [valid : BOOLEAN, slots : AbData]
BY Zenon DEF Stored

LEMMA VerifiedDataType ==
  ASSUME NEW ab \in AbData, NEW vs
  PROVE  /\ VerifiedData(ab, vs) \in AbData
         /\ \A s \in Slot : slot_is_bootable(VerifiedData(ab, vs)[s])
                            <=> slot_is_bootable(ab[s]) /\ (s \notin vs \/ Accepted(s))
BY UnbootableType, Zenon DEF VerifiedData, AbData

\* The rollback index value is the least index of the slots with data.
LEMMA RollbackIndexIsLeast ==
  ASSUME TypeOK, slot_data # {}
  PROVE  /\ \E s \in slot_data : RollbackIndexValue = image[s].idx
         /\ \A s \in slot_data : RollbackIndexValue <= image[s].idx
<1> DEFINE S == {image[s].idx : s \in slot_data}
<1>1. \A s \in slot_data : s \in {0, 1} /\ image[s].idx \in Nat
  BY ParamAssumption DEF TypeOK
<1>2. \E v \in S : \A s \in slot_data : v <= image[s].idx
  <2>1. CASE slot_data = {0}
    BY <1>1, <2>1
  <2>2. CASE slot_data = {1}
    BY <1>1, <2>2
  <2>3. CASE slot_data = {0, 1}
    <3>1. image[0].idx \in S /\ image[1].idx \in S
      BY <2>3, Zenon
    <3>2. CASE image[0].idx <= image[1].idx
      BY <1>1, <2>3, <3>1, <3>2
    <3>3. CASE ~(image[0].idx <= image[1].idx)
      BY <1>1, <2>3, <3>1, <3>3
    <3> QED
      BY <3>2, <3>3, Zenon
  <2> QED
    BY <1>1, <2>1, <2>2, <2>3, Zenon
<1>3. /\ RollbackIndexValue \in S
      /\ \A s \in slot_data : RollbackIndexValue <= image[s].idx
  BY <1>2, Zenon DEF RollbackIndexValue
<1> QED
  BY <1>3, Zenon

LEMMA SelectedSlotType ==
  ASSUME TypeOK
  PROVE  /\ SelectedSlot \in Slot \union {NoSlot}
         /\ DataToSave \in AbData
<1>1. SelectedSlot \in Slot \union {NoSlot}
  BY SlotIndexType, Zenon DEF TypeOK, SelectedSlot
<1>2. DataToSave \in AbData
  BY <1>1, DecrementTriesType, Zenon DEF TypeOK, DataToSave
<1> QED
  BY <1>1, <1>2, Zenon

LEMMA AfterBootFailedType ==
  ASSUME NEW b \in AbData
  PROVE  AfterBootFailed(b) \in AbData
BY SetUnbootableType, Zenon DEF AfterBootFailed

\* What a return of the flow does to the variables the callers set.
LEMMA FlowReturnType ==
  ASSUME TypeOK, NEW s \in Slot \union {NoSlot}, FlowReturn(s)
  PROVE  /\ cur_suffix' \in Slot \union {NoSlot}
         /\ bootimage' \in Slot \union {NoSlot}
         /\ vendorbootimage' \in Slot \union {NoSlot}
         /\ caller' \in Callers
         /\ pc' \in PCs \ {"rollback", "save", "os"}
<1>1. CASE ReturnBoot(s)
  BY <1>1, Zenon DEF ReturnBoot, TypeOK, Callers, PCs
<1>2. CASE ReturnVendorBoot(s)
  BY <1>2, Zenon DEF ReturnVendorBoot, TypeOK, Callers, PCs
<1>3. CASE ReturnActive(s)
  BY <1>3, Zenon DEF ReturnActive, TypeOK, Callers, PCs, images
<1> QED
  BY <1>1, <1>2, <1>3, Zenon DEF FlowReturn

-----------------------------------------------------------------------------
(* Type correctness of a step *)

LEMMA FaultType ==
  ASSUME TypeOK, NEW k
  PROVE  (Fault(k) => faults' \in 0 .. MaxFaults) /\ (NoFault => faults' \in 0 .. MaxFaults)
BY ParamAssumption DEF TypeOK, Fault, NoFault

LEMMA TryOtherType ==
  ASSUME TypeOK, NEW s \in Slot, TryOther(s)
  PROVE  loaded_slot' \in Slot \union {NoSlot} /\ pc' \in {"init", "firmware"}
<1>1. Other(s) \in Slot
  BY DEF Other
<1> QED
  BY <1>1, Zenon DEF TryOther, TypeOK

LEMMA KfldType ==
  ASSUME TypeOK, Kfld
  PROVE  /\ loaded_slot' \in Slot \union {NoSlot}
         /\ failed_slots' \subseteq Slot
         /\ pc' \in {"init", "firmware"} /\ pc' \in PCs
<1> DEFINE Goal == /\ loaded_slot' \in Slot \union {NoSlot}
                   /\ failed_slots' \subseteq Slot
                   /\ pc' \in {"init", "firmware"}
<1>1. \A s \in ActiveForKfld : s \in Slot
  BY ActiveSlotType, Zenon DEF ActiveForKfld
<1>2. ASSUME NEW s \in Slot, LoadKf(s)
      PROVE  Goal
  BY <1>2, TryOtherType, Zenon DEF LoadKf, TypeOK
<1>3. ASSUME NEW s \in Slot, failed_slots' = {s} \/ failed_slots' = {}, TryOther(s)
      PROVE  Goal
  BY <1>3, TryOtherType, Zenon
<1>4. ASSUME NEW s \in Slot, failed_slots' = {s}, pc' = "firmware", UNCHANGED loaded_slot
      PROVE  Goal
  BY <1>4, Zenon DEF TypeOK
<1>5. 0 \in Slot
  BY Zenon
<1> HIDE DEF Goal
<1>6. Goal
  BY <1>1, <1>2, <1>3, <1>4, <1>5, Zenon DEF Kfld
<1> QED
  BY <1>6, Zenon DEF Goal, PCs

LEMMA TypeStep ==
  ASSUME TypeOK, FlowData, BootLoaded, Next
  PROVE  TypeOK'
<1> USE DEF persistent, slotvars, efivars, flowvars, images
<1>1. CASE PowerOn
  BY <1>1, InitDataType, Zenon DEF PowerOn, TypeOK, PCs, Callers
<1>2. CASE Kfld
  BY <1>2, KfldType, FaultType, Zenon DEF Kfld, TypeOK
<1>3. CASE slot_init
  BY <1>3, InitDataType, ReadSlotsType, StoredType, FaultType, Zenon DEF slot_init, TypeOK, PCs
<1>4. CASE BootNormal
  <2>1. CASE UNCHANGED <<misc, slotvars>>
    <3>1. UNCHANGED <<misc, boot_ctrl, cur_suffix>> /\ faults' \in 0 .. MaxFaults
      BY <1>4, <2>1, FaultType, Zenon DEF BootNormal
    <3> HIDE <2>1
    <3> QED
      BY <1>4, <3>1, SMT DEF BootNormal, TypeOK, PCs, Callers
  <2>2. CASE boot_ctrl' = [s \in Slot |-> IF s \in FailedToLoad THEN Unbootable ELSE boot_ctrl[s]]
    <3>1. boot_ctrl' \in AbData
      BY <2>2, UnbootableType, Zenon DEF TypeOK, AbData
    <3> QED
      BY <1>4, <3>1, StoredType, FaultType, Zenon DEF BootNormal, TypeOK, PCs, Callers
  <2> QED
    BY <1>4, <2>1, <2>2, Zenon DEF BootNormal
<1>5. CASE FlowVerify
  <2>1. /\ misc' \in [valid : BOOLEAN, slots : AbData]
        /\ ab_data' \in AbData
    BY <1>5, ReadSlotsType, StoredType, NormalizedType, VerifiedDataType, Zenon DEF FlowVerify
  <2> QED
    BY <1>5, <2>1, FaultType, Zenon DEF FlowVerify, TypeOK, PCs
<1>6. CASE FlowRollback
  <2>1. slot_data # {}
    BY <1>6, Zenon DEF FlowRollback, FlowData
  <2>2. RollbackIndexValue \in 0 .. MaxIndex
    BY <2>1, RollbackIndexIsLeast, Zenon DEF TypeOK
  <2> QED
    BY <1>6, <2>2, FaultType, ZenonT(60) DEF FlowRollback, TypeOK, PCs
<1>7. CASE FlowSave
  <2>1. /\ cur_suffix' \in Slot \union {NoSlot}
        /\ bootimage' \in Slot \union {NoSlot}
        /\ vendorbootimage' \in Slot \union {NoSlot}
        /\ caller' \in Callers
        /\ pc' \in PCs
    BY <1>7, FlowReturnType, SelectedSlotType, Zenon DEF FlowSave
  <2> QED
    BY <1>7, <2>1, StoredType, SelectedSlotType, FaultType, Zenon DEF FlowSave, TypeOK
<1>8. CASE StartKernel
  BY <1>8, Zenon DEF StartKernel, TypeOK, PCs
<1>9. CASE LoadImageFails
  <2>1. ASSUME NEW io, slot_boot_failed(io)
        PROVE  /\ misc' \in [valid : BOOLEAN, slots : AbData]
               /\ boot_ctrl' \in AbData
               /\ cur_suffix' \in Slot \union {NoSlot}
    <3>1. CASE cur_suffix = NoSlot
      BY <2>1, <3>1, Zenon DEF slot_boot_failed, TypeOK
    <3>2. CASE cur_suffix # NoSlot
      <4>1. PICK b \in {ReadSlots} \union (IF io THEN {boot_ctrl} ELSE {}) :
              /\ boot_ctrl' = AfterBootFailed(b)
              /\ cur_suffix' = highest_priority_slot(slot_set_unbootable(b, cur_suffix))
              /\ misc' = Stored(AfterBootFailed(b)) \/ misc' = misc
        BY <2>1, <3>2, Zenon DEF slot_boot_failed
      <4>2. b \in AbData
        BY <4>1, ReadSlotsType, Zenon DEF TypeOK
      <4> QED
        BY <4>1, <4>2, AfterBootFailedType, StoredType, HighestType DEF TypeOK
    <3> QED
      BY <3>1, <3>2, Zenon
  <2>2. /\ misc' \in [valid : BOOLEAN, slots : AbData]
        /\ boot_ctrl' \in AbData
        /\ cur_suffix' \in Slot \union {NoSlot}
        /\ faults' \in 0 .. MaxFaults
    BY <1>9, <2>1, FaultType, Zenon DEF LoadImageFails
  <2> QED
    BY <1>9, <2>2, Zenon DEF LoadImageFails, TypeOK, PCs
<1>10. CASE BootFailed
  BY <1>10, ZenonT(60) DEF BootFailed, TypeOK, PCs, Callers
<1>11. CASE Recover
  BY <1>11 DEF Recover, TypeOK, PCs
<1>12. CASE PowerLoss
  BY <1>12, FaultType DEF PowerLoss, TypeOK, PCs
<1>13. CASE EnterFastboot
  BY <1>13, Zenon DEF EnterFastboot, TypeOK, PCs
<1>14. CASE FlowReadError
  <2>1. misc' \in [valid : BOOLEAN, slots : AbData]
    BY <1>14, StoredType, Zenon DEF FlowReadError, TypeOK
  <2>2. /\ cur_suffix' \in Slot \union {NoSlot}
        /\ bootimage' \in Slot \union {NoSlot}
        /\ vendorbootimage' \in Slot \union {NoSlot}
        /\ caller' \in Callers
        /\ pc' \in PCs
    BY <1>14, FlowReturnType, Zenon DEF FlowReadError
  <2> QED
    BY <1>14, <2>1, <2>2, FaultType, Zenon DEF FlowReadError, TypeOK
<1>15. CASE FlowVerifyError
  <2>1. /\ misc' \in [valid : BOOLEAN, slots : AbData]
        /\ ab_data' \in AbData
    BY <1>15, ReadSlotsType, StoredType, NormalizedType, VerifiedDataType DEF FlowVerifyError
  <2> QED
    BY <1>15, <2>1, FaultType, Zenon DEF FlowVerifyError, TypeOK, PCs
<1>16. CASE RedState
  BY <1>16, ZenonT(60) DEF RedState, TypeOK, PCs
<1>17. CASE OsMarkSuccessful
  <2>1. cur_suffix \in Slot
    BY <1>17, Zenon DEF OsMarkSuccessful, BootLoaded
  <2> QED
    BY <1>17, <2>1, ReadSlotsType, MarkSuccessfulType, StoredType, Zenon DEF OsMarkSuccessful, TypeOK
<1>18. CASE OsUpdateBegin
  BY <1>18, ReadSlotsType, MarkUnbootableType, StoredType, Zenon DEF OsUpdateBegin, TypeOK
<1>19. CASE OsUpdateWrite
  <2>1. Other(cur_suffix) \in Slot
    BY <1>19 DEF OsUpdateWrite, BootLoaded, Other
  <2>2. misc' \in [valid : BOOLEAN, slots : AbData]
    BY <1>19, <2>1, ReadSlotsType, MarkActiveType, StoredType, Zenon DEF OsUpdateWrite
  <2>a. PICK k \in ImageKinds, i \in 0 .. MaxIndex, l \in LoaderKinds :
          /\ image' = [image EXCEPT ![Other(cur_suffix)] = [kind |-> k, idx |-> i]]
          /\ loader' = [loader EXCEPT ![Other(cur_suffix)] = l]
    BY <1>19, Zenon DEF OsUpdateWrite
  <2>3. image' \in [Slot -> [kind : AllKinds, idx : 0 .. MaxIndex]]
    BY <2>a, ParamAssumption, Zenon DEF TypeOK
  <2>4. loader' \in [Slot -> AllLoaders]
    BY <2>a, ParamAssumption, Zenon DEF TypeOK
  <2>5. updates' \in 0 .. MaxUpdates
    BY <1>19, ParamAssumption DEF OsUpdateWrite, TypeOK
  <2> QED
    BY <1>19, <2>2, <2>3, <2>4, <2>5, Zenon DEF OsUpdateWrite, TypeOK
<1>20. CASE OsReboot
  BY <1>20, Zenon DEF OsReboot, TypeOK, PCs
<1>21. CASE FastbootSlotGetActive
  BY <1>21, Zenon DEF FastbootSlotGetActive, TypeOK, PCs, Callers
<1>22. CASE slot_set_active
  <2>1. misc' \in [valid : BOOLEAN, slots : AbData]
    BY <1>22, ReadSlotsType, MarkActiveType, StoredType, Zenon DEF slot_set_active
  <2> QED
    BY <1>22, <2>1, ReadSlotsType, FaultType, Zenon DEF slot_set_active, TypeOK
<1>23. CASE FastbootFlash
  <2>1. image' \in [Slot -> [kind : AllKinds, idx : 0 .. MaxIndex]]
    BY <1>23, ParamAssumption DEF FastbootFlash, TypeOK
  <2>2. updates' \in 0 .. MaxUpdates
    BY <1>23, ParamAssumption DEF FastbootFlash, TypeOK
  <2> QED
    BY <1>23, <2>1, <2>2, Zenon DEF FastbootFlash, TypeOK
<1>24. CASE slot_reset
  BY <1>24, InitDataType, StoredType, Zenon DEF slot_reset, TypeOK
<1>25. CASE change_device_state
  BY <1>25, ParamAssumption DEF change_device_state, TypeOK
<1>26. CASE FastbootReboot
  BY <1>26, Zenon DEF FastbootReboot, TypeOK, PCs
<1>27. CASE reboot_if_slot_is_different
  BY <1>27, FaultType, ZenonT(60) DEF reboot_if_slot_is_different, TypeOK, PCs, Callers
<1>28. CASE LoaderReturns
  <2>1. loaded_slot \in Slot
    BY <1>28, Zenon DEF LoaderReturns, TypeOK
  <2>2. loaded_slot' \in Slot \union {NoSlot} /\ failed_slots' \subseteq Slot /\ pc' \in PCs
    BY <1>28, <2>1, TryOtherType, Zenon DEF LoaderReturns, TypeOK, PCs
  <2> QED
    BY <1>28, <2>2, FaultType, Zenon DEF LoaderReturns, TypeOK
<1> QED
  BY <1>1, <1>2, <1>3, <1>4, <1>5, <1>6, <1>7, <1>8, <1>9, <1>10, <1>11, <1>12,
     <1>13, <1>14, <1>15, <1>16, <1>17, <1>18, <1>19, <1>20, <1>21, <1>22, <1>23,
     <1>24, <1>25, <1>26, <1>27, <1>28, Zenon DEF Next, BootStep

-----------------------------------------------------------------------------
(* The other parts of the invariant *)

FlowStep == FlowVerify \/ FlowVerifyError \/ FlowRollback
ReturnStep == FlowSave \/ FlowReadError
OsStep == OsMarkSuccessful \/ OsUpdateBegin \/ OsUpdateWrite
CallStep == BootNormal \/ BootFailed \/ FastbootSlotGetActive

\* The steps that end inside a flow, at the start of the kernel or in the
\* system; every other step leaves the parts below without content.
LEMMA StepsIntoTheFlow ==
  ASSUME TypeOK, Next
  PROVE  /\ pc' \in {"rollback", "save"} => FlowStep
         /\ pc' = "flow" => CallStep \/ ReturnStep \/ reboot_if_slot_is_different
         /\ pc' \in {"compare", "start"} => ReturnStep
         /\ pc' = "os" => StartKernel \/ OsStep
<1>1. ASSUME NEW s \in Slot \union {NoSlot}, FlowReturn(s)
      PROVE  pc' \notin {"rollback", "save", "os"}
  BY <1>1, FlowReturnType, Zenon DEF PCs
<1>2. CASE ReturnStep
  <2>1. pc' \notin {"rollback", "save", "os"}
    BY <1>1, <1>2, SelectedSlotType, Zenon DEF ReturnStep, FlowSave, FlowReadError
  <2> QED
    BY <1>2, <2>1, Zenon
<1>3. CASE FlowStep
  BY <1>3, Zenon DEF FlowStep, FlowVerify, FlowVerifyError, FlowRollback
<1>4. CASE CallStep \/ StartKernel \/ OsStep
  BY <1>4, Zenon DEF CallStep, OsStep, BootNormal, BootFailed, FastbootSlotGetActive, StartKernel,
     OsMarkSuccessful, OsUpdateBegin, OsUpdateWrite
<1>5. CASE PowerOn \/ slot_init \/ LoadImageFails \/ Recover \/ PowerLoss
           \/ EnterFastboot \/ RedState \/ OsReboot
  BY <1>5, Zenon DEF PowerOn, slot_init, LoadImageFails, Recover, PowerLoss, EnterFastboot,
     RedState, OsReboot
<1>7. CASE Kfld \/ LoaderReturns
  BY <1>7, KfldType, TryOtherType, Zenon DEF LoaderReturns, TypeOK
<1>8. CASE reboot_if_slot_is_different
  BY <1>8, Zenon DEF reboot_if_slot_is_different
<1>6. CASE slot_set_active \/ FastbootFlash \/ slot_reset \/ change_device_state \/ FastbootReboot
  BY <1>6, Zenon DEF slot_set_active, FastbootFlash, slot_reset, change_device_state, FastbootReboot
<1> QED
  BY <1>2, <1>3, <1>4, <1>5, <1>6, <1>7, <1>8, Zenon
     DEF Next, BootStep, ReturnStep, FlowStep, CallStep, OsStep

LEMMA FlowDataStep ==
  ASSUME TypeOK, FlowData, Next
  PROVE  FlowData'
<1>1. CASE pc' \notin {"rollback", "save"}
  BY <1>1, Zenon DEF FlowData
<1>2. CASE FlowVerify
  <2> DEFINE n == Normalized(ReadSlots)
             ab == VerifiedData(n, Slot)
  <2>1. n \in AbData /\ ab \in AbData
    BY ReadSlotsType, NormalizedType, VerifiedDataType, Zenon
  <2>2. \A s \in Slot : slot_is_bootable(ab[s]) <=> slot_is_bootable(n[s]) /\ Accepted(s)
    BY <2>1, VerifiedDataType
  <2>3. /\ ab_data' = ab
        /\ slot_data' = {s \in Slot : slot_is_bootable(n[s]) /\ Accepted(s)}
        /\ pc' = IF SlotIndexToBoot(ab) = NoSlot THEN "save" ELSE "rollback"
    BY <1>2, Zenon DEF FlowVerify
  <2>4. slot_data' = {s \in Slot : slot_is_bootable(ab_data'[s])}
    BY <2>2, <2>3, Zenon
  <2>5. pc' = "rollback" => slot_data' # {}
    BY <2>1, <2>3, <2>4, SlotIndexType, Zenon
  <2> QED
    BY <2>4, <2>5, Zenon DEF FlowData
<1>3. CASE FlowVerifyError
  BY <1>3, Zenon DEF FlowVerifyError, FlowData
<1>4. CASE FlowRollback
  BY <1>4, Zenon DEF FlowRollback, FlowData
<1> QED
  BY <1>1, <1>2, <1>3, <1>4, StepsIntoTheFlow, Zenon DEF FlowStep

LEMMA BootLoadedStep ==
  ASSUME TypeOK, BootLoaded, Next
  PROVE  BootLoaded'
<1> USE DEF InSecondFlow
<1>1. CASE pc' \notin {"flow", "rollback", "save", "compare", "start", "os"}
  BY <1>1, Zenon DEF BootLoaded
<1>2. CASE FlowStep
  BY <1>2, Zenon DEF FlowStep, FlowVerify, FlowVerifyError, FlowRollback, BootLoaded,
     slotvars, efivars, images
<1>3. CASE CallStep
  BY <1>3, Zenon DEF CallStep, BootNormal, BootFailed, FastbootSlotGetActive, BootLoaded
<1>4. CASE StartKernel \/ OsStep
  BY <1>4, Zenon DEF StartKernel, OsStep, OsMarkSuccessful, OsUpdateBegin, OsUpdateWrite, BootLoaded,
     slotvars, efivars, images, flowvars
<1>5. ASSUME NEW s \in Slot \union {NoSlot}, FlowReturn(s),
             pc \in {"flow", "rollback", "save"}
      PROVE  BootLoaded'
  <2>1. CASE ReturnBoot(s)
    BY <1>5, <2>1, Zenon DEF ReturnBoot, BootLoaded, TypeOK
  <2>2. CASE ReturnVendorBoot(s)
    BY <1>5, <2>2, Zenon DEF ReturnVendorBoot, BootLoaded
  <2>3. CASE ReturnActive(s)
    BY <1>5, <2>3, Zenon DEF ReturnActive, BootLoaded
  <2> QED
    BY <1>5, <2>1, <2>2, <2>3, Zenon DEF FlowReturn
<1>6. CASE ReturnStep
  BY <1>5, <1>6, SelectedSlotType, Zenon DEF ReturnStep, FlowSave, FlowReadError
<1>7. CASE reboot_if_slot_is_different
  BY <1>7, Zenon DEF reboot_if_slot_is_different, BootLoaded, slotvars, images
<1> QED
  BY <1>1, <1>2, <1>3, <1>4, <1>6, <1>7, StepsIntoTheFlow, Zenon

\* A slot with data that is selected is one of the verified slots.
LEMMA SelectedHasData ==
  ASSUME TypeOK, FlowData, pc \in {"rollback", "save"}, slot_data # {}
  PROVE  SelectedSlot \in slot_data
<1>1. PICK t \in Slot : slot_is_bootable(ab_data[t])
  BY Zenon DEF FlowData
<1>2. SlotIndexToBoot(ab_data) \in Slot /\ slot_is_bootable(ab_data[SlotIndexToBoot(ab_data)])
  BY <1>1, SlotIndexType, Zenon DEF TypeOK
<1> QED
  BY <1>2, Zenon DEF FlowData, SelectedSlot

\* What the boot path accepts on a locked device verified without error.
LEMMA LockedAccepts ==
  ASSUME TypeOK, locked, BootCaller, NEW s \in Slot, Accepted(s)
  PROVE  image[s].kind \notin {Altered, "invalid"} /\ image[s].idx >= rollback
BY ParamAssumption DEF Accepted, AllowVerificationError, BootCaller, avb_slot_verify, Altered, TypeOK

LEMMA LockedStep ==
  ASSUME TypeOK, LockedData, LockedIndex, Next
  PROVE  LockedData' /\ LockedIndex'
<1>1. CASE pc' \notin {"rollback", "save"}
  BY <1>1, Zenon DEF LockedData, LockedIndex
<1>2. CASE FlowVerify
  <2>1. \A s \in slot_data' : s \in Slot /\ Accepted(s)
    BY <1>2, Zenon DEF FlowVerify
  <2>2. UNCHANGED <<locked, caller, image, rollback>>
    BY <1>2, Zenon DEF FlowVerify
  <2> QED
    BY <2>1, <2>2, LockedAccepts, Zenon DEF LockedData, LockedIndex, BootCaller, Altered
<1>3. CASE FlowVerifyError
  BY <1>3, Zenon DEF FlowVerifyError, LockedData, LockedIndex
<1>4. CASE FlowRollback
  BY <1>4, Zenon DEF FlowRollback, LockedData, LockedIndex, BootCaller, Altered
<1> QED
  BY <1>1, <1>2, <1>3, <1>4, StepsIntoTheFlow, Zenon DEF FlowStep

LEMMA LockedImagesStep ==
  ASSUME TypeOK, FlowData, LockedData, LockedImages, Next
  PROVE  LockedImages'
<1> USE DEF InSecondFlow
<1>1. CASE pc' \notin {"flow", "rollback", "save", "compare", "start"}
  BY <1>1, Zenon DEF LockedImages
<1>2. CASE FlowStep
  BY <1>2, Zenon DEF FlowStep, FlowVerify, FlowVerifyError, FlowRollback, LockedImages, images
<1>3. CASE CallStep
  BY <1>3, Zenon DEF CallStep, BootNormal, BootFailed, FastbootSlotGetActive, LockedImages
<1>4. ASSUME NEW s \in Slot \union {NoSlot}, FlowReturn(s), UNCHANGED <<image, locked>>,
             pc \in {"flow", "rollback", "save"},
             locked /\ BootCaller /\ s # NoSlot => image[s].kind \notin {Altered, "invalid"}
      PROVE  LockedImages'
  <2>1. CASE ReturnBoot(s)
    BY <1>4, <2>1, Zenon DEF ReturnBoot, LockedImages, BootCaller, Altered
  <2>2. CASE ReturnVendorBoot(s)
    BY <1>4, <2>2, Zenon DEF ReturnVendorBoot, LockedImages, BootCaller, Altered
  <2>3. CASE ReturnActive(s)
    BY <1>4, <2>3, Zenon DEF ReturnActive, LockedImages
  <2> QED
    BY <1>4, <2>1, <2>2, <2>3, Zenon DEF FlowReturn
<1>5. CASE FlowReadError
  BY <1>4, <1>5, Zenon DEF FlowReadError
<1>6. CASE FlowSave
  <2>1. locked /\ BootCaller /\ SelectedSlot # NoSlot
          => image[SelectedSlot].kind \notin {Altered, "invalid"}
    BY <1>6, SelectedHasData, Zenon DEF FlowSave, LockedData, SelectedSlot
  <2> QED
    BY <1>4, <1>6, <2>1, SelectedSlotType, Zenon DEF FlowSave
<1>7. CASE reboot_if_slot_is_different
  BY <1>7, Zenon DEF reboot_if_slot_is_different, LockedImages, persistent, images
<1> QED
  BY <1>1, <1>2, <1>3, <1>5, <1>6, <1>7, StepsIntoTheFlow, Zenon DEF ReturnStep

LEMMA ChosenSlotStep ==
  ASSUME TypeOK, FlowData, Next
  PROVE  ChosenSlot'
<1>1. CASE pc' # "compare"
  BY <1>1, Zenon DEF ChosenSlot
<1>2. ASSUME NEW s \in Slot \union {NoSlot}, FlowReturn(s), pc' = "compare"
      PROVE  s \in Slot /\ bootimage' = s
  BY <1>2, Zenon DEF FlowReturn, ReturnBoot, ReturnVendorBoot, ReturnActive
<1>3. CASE FlowReadError /\ pc' = "compare"
  BY <1>2, <1>3 DEF FlowReadError
<1>4. CASE FlowSave /\ pc' = "compare"
  <2>1. /\ misc' = Stored(DataToSave) /\ SelectedSlot \in Slot /\ bootimage' = SelectedSlot
    BY <1>2, <1>4, SelectedSlotType, SMT DEF FlowSave
  <2>2. /\ DataToSave = DecrementTries(ab_data, SelectedSlot)
        /\ SelectedSlot = SlotIndexToBoot(ab_data) /\ ab_data \in AbData
    <3>1. SelectedSlot # NoSlot
      BY <2>1
    <3> QED BY <3>1, Zenon DEF DataToSave, SelectedSlot, TypeOK
  <2>3. misc'.valid /\ misc'.slots = DecrementTries(ab_data, SelectedSlot)
    BY <2>1, <2>2, Zenon DEF Stored
  <2> QED
    BY <2>1, <2>2, <2>3, KfldAgrees, Zenon DEF ChosenSlot
<1> QED
  BY <1>1, <1>3, <1>4, StepsIntoTheFlow, Zenon DEF ReturnStep

LEMMA AcceptableHaveDataStep ==
  ASSUME TypeOK, Next
  PROVE  AcceptableHaveData'
<1>1. CASE pc' # "rollback"
  BY <1>1, Zenon DEF AcceptableHaveData
<1>2. CASE FlowVerify
  <2>1. ReadSlots' = ReadSlots /\ UNCHANGED <<image, rollback>>
    BY <1>2, Zenon DEF FlowVerify, Stored, ReadSlots
  <2>2. ASSUME NEW s \in Slot, AcceptableSlot(s)
        PROVE  slot_is_bootable(Normalized(ReadSlots)[s]) /\ Accepted(s)
    <3>1. slot_is_bootable(Normalized(ReadSlots)[s])
      BY <2>2, ReadSlotsType, NormalizedType, Zenon DEF AcceptableSlot
    <3>2. avb_slot_verify(s) = "ok"
      BY <2>2, ParamAssumption DEF AcceptableSlot, avb_slot_verify, Altered, TypeOK
    <3> QED
      BY <3>1, <3>2, Zenon DEF Accepted
  <2>3. \A s \in Slot : AcceptableSlot(s)' => AcceptableSlot(s)
    BY <2>1, Zenon DEF AcceptableSlot
  <2> QED
    BY <1>2, <2>2, <2>3, Zenon DEF FlowVerify, AcceptableHaveData
<1>3. CASE FlowVerifyError \/ FlowRollback
  BY <1>3, Zenon DEF FlowVerifyError, FlowRollback, AcceptableHaveData
<1> QED
  BY <1>1, <1>2, <1>3, StepsIntoTheFlow, Zenon DEF FlowStep

-----------------------------------------------------------------------------
(* The theorems *)

LEMMA InitIndInv == Init => IndInv
<1> SUFFICES ASSUME Init
             PROVE  IndInv
  BY Zenon
<1>1. TypeOK
  BY InitDataType, StoredType, ParamAssumption, SMTT(30)
     DEF Init, TypeOK, PCs, Callers, AllKinds, AllLoaders, Stored
<1> QED
  BY <1>1, Zenon DEF Init, IndInv, FlowData, BootLoaded, ChosenSlot, InSecondFlow, LockedData, LockedIndex,
     LockedImages, AcceptableHaveData

LEMMA StutterIndInv == IndInv /\ UNCHANGED vars => IndInv'
BY DEF vars, persistent, slotvars, efivars, flowvars, images, IndInv, TypeOK, FlowData,
   BootLoaded, ChosenSlot, InSecondFlow, LockedData, LockedIndex, LockedImages, AcceptableHaveData,
   AcceptableSlot, ReadSlots, BootCaller, Altered

\* IndInv is an invariant of the boot chain.
THEOREM Invariance == Spec => []IndInv
<1>1. IndInv /\ [Next]_vars => IndInv'
  <2> SUFFICES ASSUME IndInv, Next
               PROVE  IndInv'
    BY StutterIndInv, Zenon
  <2> USE DEF IndInv
  <2>1. TypeOK'
    BY TypeStep, Zenon
  <2>2. FlowData' /\ BootLoaded' /\ ChosenSlot'
    BY FlowDataStep, BootLoadedStep, ChosenSlotStep, Zenon
  <2>3. LockedData' /\ LockedIndex' /\ LockedImages'
    BY LockedStep, LockedImagesStep, Zenon
  <2>4. AcceptableHaveData'
    BY AcceptableHaveDataStep, Zenon
  <2> QED
    BY <2>1, <2>2, <2>3, <2>4, Zenon
<1> QED
  BY <1>1, InitIndInv, PTL DEF Spec

\* Type correctness of the boot chain.
THEOREM TypeCorrect == Spec => []TypeOK
<1>1. IndInv => TypeOK
  BY Zenon DEF IndInv
<1> QED
  BY <1>1, Invariance, PTL

\* The assertion of avb_ab_flow.c:357 never fails.
THEOREM SelectedVerified == Spec => []SelectedSlotIsVerified
<1>1. IndInv => SelectedSlotIsVerified
  BY SelectedHasData, Zenon DEF IndInv, FlowData, SelectedSlot, SelectedSlotIsVerified
<1> QED
  BY <1>1, Invariance, PTL

\* load_image on a locked device only ever sees images that were verified.
THEOREM LockedVerified == Spec => []LockedImagesVerified
<1>1. IndInv => LockedImagesVerified
  BY Zenon DEF IndInv, LockedImages, LockedImagesVerified
<1> QED
  BY <1>1, Invariance, PTL

\* A reboot for another slot makes kfld load the slot that the flow has chosen,
\* unless the flow has counted the last try of that slot.
THEOREM RebootIsNotRepeated == Spec => []RebootReachesChosenSlot
<1>1. IndInv => RebootReachesChosenSlot
  BY Zenon DEF IndInv, ChosenSlot, RebootReachesChosenSlot
<1> QED
  BY <1>1, Invariance, PTL

\* The only steps that write the stored rollback index.
LEMMA RollbackWrites ==
  ASSUME TypeOK, Next, rollback' # rollback
  PROVE  \/ /\ FlowRollback
            /\ rollback' = RollbackIndexValue
         \/ change_device_state /\ rollback' = 0
<1> USE DEF persistent
<1>1. CASE PowerOn \/ Kfld \/ slot_init \/ BootNormal \/ FlowVerify \/ FlowSave
           \/ StartKernel \/ LoadImageFails \/ BootFailed \/ Recover
  BY <1>1, Zenon DEF PowerOn, Kfld, slot_init, BootNormal, FlowVerify, FlowSave, StartKernel,
     LoadImageFails, BootFailed, Recover
<1>2. CASE PowerLoss \/ EnterFastboot \/ FlowReadError \/ FlowVerifyError \/ RedState
           \/ OsMarkSuccessful \/ OsUpdateBegin \/ OsUpdateWrite \/ OsReboot
  BY <1>2, Zenon DEF PowerLoss, EnterFastboot, FlowReadError, FlowVerifyError, RedState,
     OsMarkSuccessful, OsUpdateBegin, OsUpdateWrite, OsReboot
<1>3. CASE FastbootSlotGetActive \/ slot_set_active \/ FastbootFlash \/ slot_reset
           \/ FastbootReboot \/ reboot_if_slot_is_different \/ LoaderReturns
  BY <1>3, Zenon DEF FastbootSlotGetActive, slot_set_active, FastbootFlash, slot_reset, FastbootReboot,
     reboot_if_slot_is_different, LoaderReturns
<1>4. CASE FlowRollback
  BY <1>4, Zenon DEF FlowRollback
<1>5. CASE change_device_state
  BY <1>5, Zenon DEF change_device_state
<1> QED
  BY <1>1, <1>2, <1>3, <1>4, <1>5, Zenon DEF Next, BootStep

\* No write of the rollback index locks out a bootable slot.
THEOREM LockoutFree == Spec => NoRollbackLockout
<1> DEFINE Kept == \A s \in Slot : AcceptableSlot(s) => \/ image[s].idx >= rollback'
                                                        \/ image'[s] # image[s]
<1>1. IndInv /\ [Next]_vars => [Kept]_vars
  <2> SUFFICES ASSUME IndInv, Next, NEW s \in Slot, AcceptableSlot(s)
               PROVE  image[s].idx >= rollback'
    BY Zenon DEF vars
  <2>1. CASE rollback' = rollback
    BY <2>1, Zenon DEF AcceptableSlot
  <2>2. CASE FlowRollback /\ rollback' = RollbackIndexValue
    <3>1. s \in slot_data
      BY <2>2, Zenon DEF FlowRollback, IndInv, AcceptableHaveData
    <3>2. RollbackIndexValue <= image[s].idx /\ RollbackIndexValue \in Int
      BY <3>1, RollbackIndexIsLeast, ParamAssumption DEF IndInv, TypeOK
    <3> QED
      BY <2>2, <3>2, ParamAssumption, Zenon DEF IndInv, TypeOK
  <2>3. CASE rollback' = 0
    BY <2>3, ParamAssumption DEF IndInv, TypeOK
  <2> QED
    BY <2>1, <2>2, <2>3, RollbackWrites, Zenon DEF IndInv
<1> QED
  BY <1>1, Invariance, PTL DEF Spec, NoRollbackLockout

\* On a locked device the flows of a boot never lower the stored index.
THEOREM RollbackMonotone == Spec => BootNeverLowersRollback
<1> DEFINE Raised == locked /\ locked' /\ caller \in {"boot", "vendor_boot"}
                       => rollback' >= rollback
<1>1. IndInv /\ [Next]_vars => [Raised]_vars
  <2> SUFFICES ASSUME IndInv, Next, locked, locked', BootCaller
               PROVE  rollback' >= rollback
    BY Zenon DEF vars, BootCaller
  <2>1. CASE rollback' = rollback
    BY <2>1, ParamAssumption DEF IndInv, TypeOK
  <2>2. CASE FlowRollback /\ rollback' = RollbackIndexValue
    <3>1. slot_data # {}
      BY <2>2, Zenon DEF FlowRollback, IndInv, FlowData
    <3>2. PICK s \in slot_data : RollbackIndexValue = image[s].idx
      BY <3>1, RollbackIndexIsLeast, Zenon DEF IndInv
    <3>3. image[s].idx >= rollback
      BY <2>2, <3>2, Zenon DEF FlowRollback, IndInv, LockedIndex
    <3> QED
      BY <2>2, <3>2, <3>3, Zenon
  <2>3. CASE change_device_state
    BY <2>3, ZenonT(60) DEF change_device_state
  <2> QED
    BY <2>1, <2>2, <2>3, RollbackWrites, Zenon DEF IndInv
<1> QED
  BY <1>1, Invariance, PTL DEF Spec, BootNeverLowersRollback
-----------------------------------------------------------------------------
(* The fallback after a failed start, when disk accesses do not fail *)

NoIo == "io" \notin FaultKinds

\* Every slot but c is bootable or has priority 0.
Settled(ab, c) == \A s \in Slot : s # c => slot_is_bootable(ab[s]) \/ ab[s].priority = 0

\* The last flow of a boot left only the slot it returned with fewer tries than
\* the flow demands.
FallbackInv ==
  /\ pc \in {"rollback", "save"} => Settled(ab_data, NoSlot)
  /\ pc = "start" => misc.valid /\ Settled(misc.slots, cur_suffix)
  /\ FallbackSlotIsValid

LEMMA NoIoSteps ==
  ASSUME NoIo
  PROVE  ~Fault("io") /\ ~FlowReadError /\ ~FlowVerifyError /\ ~LoaderReturns
BY Zenon DEF NoIo, Fault, FlowReadError, FlowVerifyError, LoaderReturns

\* The steps into the states that FallbackInv and ProvenInv speak of.
LEMMA StepsElsewhere ==
  ASSUME TypeOK, Next
  PROVE  /\ pc' = "failed" => LoadImageFails
         /\ pc' = "kfld" => PowerOn
         /\ pc' = "init" => PowerOn \/ Kfld \/ LoaderReturns
         /\ pc' = "target" => slot_init
<1>1. CASE ReturnStep
  <2>1. ASSUME NEW s \in Slot \union {NoSlot}, FlowReturn(s)
        PROVE  pc' \notin {"failed", "kfld", "init", "target"}
    BY <2>1, Zenon DEF FlowReturn, ReturnBoot, ReturnVendorBoot, ReturnActive
  <2> QED BY <1>1, <2>1, SelectedSlotType, Zenon DEF ReturnStep, FlowSave, FlowReadError
<1>2. CASE FlowStep \/ CallStep \/ StartKernel \/ OsStep
  BY <1>2, Zenon DEF FlowStep, FlowVerify, FlowVerifyError, FlowRollback, CallStep, BootNormal, BootFailed,
     FastbootSlotGetActive, StartKernel, OsStep, OsMarkSuccessful, OsUpdateBegin, OsUpdateWrite
<1>3. CASE PowerOn \/ slot_init \/ LoadImageFails \/ Recover \/ PowerLoss
           \/ EnterFastboot \/ RedState \/ OsReboot \/ reboot_if_slot_is_different
  BY <1>3, Zenon DEF PowerOn, slot_init, LoadImageFails, Recover, PowerLoss, EnterFastboot,
     RedState, OsReboot, reboot_if_slot_is_different
<1>5. CASE Kfld \/ LoaderReturns
  BY <1>5, KfldType, TryOtherType, Zenon DEF LoaderReturns, TypeOK
<1>4. CASE slot_set_active \/ FastbootFlash \/ slot_reset \/ change_device_state \/ FastbootReboot
  BY <1>4, Zenon DEF slot_set_active, FastbootFlash, slot_reset, change_device_state, FastbootReboot
<1> QED
  BY <1>1, <1>2, <1>3, <1>4, <1>5, Zenon DEF Next, BootStep, ReturnStep, FlowStep, CallStep, OsStep

LEMMA VerifiedSettled ==
  ASSUME NEW ab \in AbData, NEW vs
  PROVE  Settled(VerifiedData(Normalized(ab), vs), NoSlot)
<1>1. \A s \in Slot : Normalized(ab)[s] = Unbootable \/ slot_is_bootable(Normalized(ab)[s])
  BY Zenon DEF Normalized
<1>2. \A s \in Slot : VerifiedData(Normalized(ab), vs)[s] \in {Unbootable, Normalized(ab)[s]}
  BY Zenon DEF VerifiedData
<1>3. Unbootable.priority = 0
  BY Zenon DEF Unbootable
<1> QED BY <1>1, <1>2, <1>3, Zenon DEF Settled

\* What FlowSave without a fault does.
LEMMA SavedData ==
  ASSUME TypeOK, FlowSave, ~Fault("io")
  PROVE  /\ misc' = Stored(DataToSave) /\ misc'.valid /\ misc'.slots = DataToSave
         /\ FlowReturn(SelectedSlot)
         /\ SelectedSlot \in Slot \union {NoSlot}
         /\ \A s \in Slot : s # SelectedSlot => DataToSave[s] = ab_data[s]
<1>1. misc' = Stored(DataToSave) /\ FlowReturn(SelectedSlot)
  BY Zenon DEF FlowSave
<1>2. SelectedSlot \in Slot \union {NoSlot}
  BY SelectedSlotType, Zenon
<1>3. ASSUME NEW s \in Slot, s # SelectedSlot PROVE DataToSave[s] = ab_data[s]
  <2>1. CASE SelectedSlot = NoSlot
    BY <2>1, Zenon DEF DataToSave
  <2>2. CASE SelectedSlot # NoSlot
    <3>1. DataToSave = DecrementTries(ab_data, SelectedSlot)
      BY <2>2, Zenon DEF DataToSave
    <3> QED BY <1>2, <1>3, <2>2, <3>1, Zenon DEF DecrementTries, TypeOK, AbData
  <2> QED BY <2>1, <2>2, Zenon
<1> QED BY <1>1, <1>2, <1>3, Zenon DEF Stored

\* What slot_boot_failed selects when all the slots but the failed one are settled.
LEMMA NextSlotIsValid ==
  ASSUME NEW b \in AbData, cur_suffix \in Slot, Settled(b, cur_suffix),
         NEW h, h = highest_priority_slot(slot_set_unbootable(b, cur_suffix)), h # NoSlot
  PROVE  slot_is_bootable(AfterBootFailed(b)[h])
<1> DEFINE b1 == slot_set_unbootable(b, cur_suffix)
<1>1. /\ b1 \in AbData /\ b1[cur_suffix].priority = 0
      /\ \A s \in Slot : s # cur_suffix => b1[s] = b[s]
  BY UnbootableType, Zenon DEF slot_set_unbootable, AbData, Unbootable
<1>2. h \in Slot /\ b1[h].priority # 0
  BY HighestType, Zenon DEF highest_priority_slot
<1>3. slot_is_bootable(b1[h])
  BY <1>1, <1>2, Zenon DEF Settled
<1>4. AfterBootFailed(b) = b1
  BY <1>3, Zenon DEF AfterBootFailed
<1> QED BY <1>3, <1>4, Zenon

LEMMA FallbackStep ==
  ASSUME NoIo, TypeOK, FallbackInv, [Next]_vars
  PROVE  FallbackInv'
<1>1. CASE UNCHANGED vars
  BY <1>1, Zenon DEF vars, persistent, slotvars, flowvars, FallbackInv, FallbackSlotIsValid
<1>2. CASE Next /\ pc' \notin {"rollback", "save", "start", "failed"}
  BY <1>2, Zenon DEF FallbackInv, FallbackSlotIsValid
<1>3. CASE FlowVerify
  <2>1. pc' \in {"rollback", "save"} /\ ab_data' = VerifiedData(Normalized(ReadSlots), Slot)
    BY <1>3, Zenon DEF FlowVerify
  <2>2. Settled(ab_data', NoSlot)
    BY <2>1, ReadSlotsType, VerifiedSettled, Zenon
  <2> QED BY <2>1, <2>2, Zenon DEF FallbackInv, FallbackSlotIsValid
<1>4. CASE FlowRollback
  BY <1>4, Zenon DEF FlowRollback, FallbackInv, FallbackSlotIsValid
<1>5. CASE FlowSave /\ pc' = "start"
  <2>1. /\ misc'.valid /\ misc'.slots = DataToSave /\ FlowReturn(SelectedSlot)
        /\ SelectedSlot \in Slot \union {NoSlot}
        /\ \A s \in Slot : s # SelectedSlot => DataToSave[s] = ab_data[s]
    BY <1>5, NoIoSteps, SavedData, Zenon
  <2>2. cur_suffix' = IF SelectedSlot = NoSlot THEN cur_suffix ELSE SelectedSlot
    BY <2>1, Zenon DEF FlowReturn, ReturnBoot, ReturnVendorBoot, ReturnActive
  <2>3. Settled(ab_data, NoSlot)
    BY <1>5, Zenon DEF FlowSave, FallbackInv
  <2>4. Settled(misc'.slots, cur_suffix')
    BY <2>1, <2>2, <2>3 DEF Settled
  <2> QED BY <1>5, <2>1, <2>4, Zenon DEF FallbackInv, FallbackSlotIsValid
<1>6. CASE LoadImageFails
  <2>1. pc = "start" /\ pc' = "failed" /\ slot_boot_failed(FALSE)
    BY <1>6, NoIoSteps, Zenon DEF LoadImageFails
  <2>2. ASSUME cur_suffix' # NoSlot PROVE slot_is_bootable(boot_ctrl'[cur_suffix'])
    <3>1. cur_suffix \in Slot
      BY <2>1, <2>2, Zenon DEF slot_boot_failed, slotvars, TypeOK
    <3>2. /\ boot_ctrl' = AfterBootFailed(ReadSlots)
          /\ cur_suffix' = highest_priority_slot(slot_set_unbootable(ReadSlots, cur_suffix))
      BY <2>1, <3>1 DEF slot_boot_failed
    <3>3. ReadSlots \in AbData /\ Settled(ReadSlots, cur_suffix)
      BY <2>1, ReadSlotsType, Zenon DEF FallbackInv, ReadSlots
    <3> QED BY <2>2, <3>1, <3>2, <3>3, NextSlotIsValid, Zenon
  <2> QED BY <2>1, <2>2, Zenon DEF FallbackInv, FallbackSlotIsValid
<1> QED
  BY <1>1, <1>2, <1>3, <1>4, <1>5, <1>6, NoIoSteps, StepsIntoTheFlow, StepsElsewhere, Zenon
     DEF FlowStep, ReturnStep

\* After a failed start the slot selected for the reboot can be booted, for any
\* number of power losses and of kernels that return, as long as no disk access
\* fails.
THEOREM FallbackValid == ASSUME NoIo PROVE Spec => []FallbackSlotIsValid
<1>1. Init => FallbackInv
  BY Zenon DEF Init, FallbackInv, FallbackSlotIsValid
<1>2. TypeOK /\ FallbackInv /\ [Next]_vars => FallbackInv'
  BY FallbackStep, Zenon
<1>3. FallbackInv => FallbackSlotIsValid
  BY Zenon DEF FallbackInv
<1> QED BY <1>1, <1>2, <1>3, TypeCorrect, PTL DEF Spec

-----------------------------------------------------------------------------
(* Proven slots, when nothing but power fails *)

PowerOnly == FaultKinds \subseteq {"power"}

NoneLeft(ab) == \A s \in Slot : ~slot_is_bootable(ab[s])

ProvenInv ==
  \* kfld only notes slots whose bootloader does not load, ...
  /\ pc = "kfld" => failed_slots = {}
  /\ pc \in {"init", "target"} => \A s \in failed_slots : loader[s] # "ok"
  \* ... and the cached metadata are written back as they were read.
  /\ pc = "target" => misc.valid /\ boot_ctrl = misc.slots
  \* The flow changes no slot with good images unless they are rolled back.
  /\ pc \in {"rollback", "save"} =>
       /\ misc.valid
       /\ \A s \in Slot : slot_is_bootable(misc.slots[s]) /\ image[s].kind = "good" =>
            \/ ab_data[s] = misc.slots[s]
            \/ locked /\ BootCaller /\ image[s].idx < rollback
  \* On a locked device an image is missing only when no slot is left.
  /\ pc = "save" /\ slot_data = {} => NoneLeft(ab_data)
  /\ locked /\ InSecondFlow /\ bootimage = NoSlot =>
       /\ NoneLeft(ReadSlots)
       /\ pc \in {"rollback", "save"} => NoneLeft(ab_data)
  /\ pc = "start" /\ locked /\ ImageMissing => NoneLeft(ReadSlots)

LEMMA PowerOnlySteps ==
  ASSUME PowerOnly
  PROVE  NoIo /\ ~Fault("handover")
BY Zenon DEF PowerOnly, NoIo, Fault

LEMMA NoneSelected ==
  ASSUME TypeOK, NEW ab \in AbData
  PROVE  NoneLeft(ab) <=> SlotIndexToBoot(ab) = NoSlot
BY SlotIndexType, Zenon DEF NoneLeft

\* The flow with nothing to select saves what it has.
LEMMA NoneSaved ==
  ASSUME TypeOK, NoneLeft(ab_data)
  PROVE  SelectedSlot = NoSlot /\ DataToSave = ab_data
<1>1. SlotIndexToBoot(ab_data) = NoSlot
  BY NoneSelected, Zenon DEF TypeOK
<1> QED BY <1>1, Zenon DEF SelectedSlot, DataToSave

LEMMA VerifyProven ==
  ASSUME TypeOK, ProvenInv, FlowVerify
  PROVE  ProvenInv'
<1> DEFINE n == Normalized(ReadSlots)
           ab == VerifiedData(n, Slot)
<1>0. ReadSlots \in AbData /\ n \in AbData /\ ab \in AbData
  BY ReadSlotsType, NormalizedType, VerifiedDataType, Zenon
<1>1. /\ misc' = Stored(ReadSlots) /\ ab_data' = ab /\ pc = "flow"
      /\ slot_data' = {s \in Slot : slot_is_bootable(n[s]) /\ Accepted(s)}
      /\ pc' = IF SlotIndexToBoot(ab) = NoSlot THEN "save" ELSE "rollback"
      /\ UNCHANGED <<image, rollback, locked, caller, bootimage, vendorbootimage>>
  BY Zenon DEF FlowVerify, images
<1>2. misc'.valid /\ misc'.slots = ReadSlots /\ ReadSlots' = ReadSlots
  BY <1>1, Zenon DEF Stored, ReadSlots
<1>3. \A s \in Slot : /\ slot_is_bootable(ReadSlots[s]) => n[s] = ReadSlots[s]
                      /\ slot_is_bootable(n[s]) <=> slot_is_bootable(ReadSlots[s])
  BY <1>0, NormalizedType, Zenon DEF Normalized
<1>4. ASSUME NEW s \in Slot, slot_is_bootable(ReadSlots[s]), image[s].kind = "good"
      PROVE  ab[s] = ReadSlots[s] \/ (locked /\ BootCaller /\ image[s].idx < rollback)
  <2>1. CASE Accepted(s)
    BY <1>3, <1>4, <2>1, Zenon DEF VerifiedData
  <2>2. CASE ~Accepted(s)
    BY <1>4, <2>2, ParamAssumption, Zenon
       DEF Accepted, avb_slot_verify, Altered, AllowVerificationError, BootCaller, TypeOK, Callers
  <2> QED BY <2>1, <2>2, Zenon
<1>5. \A s \in Slot : slot_is_bootable(ab[s]) => slot_is_bootable(ReadSlots[s])
  BY <1>0, <1>3, VerifiedDataType, Zenon
<1>6. pc' = "save" => NoneLeft(ab)
  BY <1>0, <1>1, NoneSelected, Zenon
<1>7. locked /\ InSecondFlow /\ bootimage = NoSlot => NoneLeft(ReadSlots) /\ NoneLeft(ab)
  BY <1>1, <1>5, Zenon DEF ProvenInv, NoneLeft, InSecondFlow
<1> HIDE DEF n, ab
<1>8. pc' \in {"rollback", "save"}
  BY <1>1, Zenon
<1>9. (locked /\ InSecondFlow /\ bootimage = NoSlot)' => locked /\ InSecondFlow /\ bootimage = NoSlot
  BY <1>1, Zenon DEF InSecondFlow
<1> QED BY <1>1, <1>2, <1>4, <1>6, <1>7, <1>8, <1>9, Zenon DEF ProvenInv, BootCaller

LEMMA RollbackProven ==
  ASSUME NoIo, TypeOK, FlowData, LockedIndex, ProvenInv, FlowRollback
  PROVE  ProvenInv'
<1>1. /\ pc = "rollback" /\ pc' = "save" /\ UNCHANGED slot_data
      /\ rollback' = IF RollbackIndexValue # 0 THEN RollbackIndexValue ELSE rollback
      /\ UNCHANGED <<misc, image, locked, caller, ab_data, bootimage, vendorbootimage>>
  BY NoIoSteps, Zenon DEF FlowRollback, images
<1>2. slot_data # {}
  BY <1>1, Zenon DEF FlowData
<1>3. rollback \in Int /\ rollback' \in Int /\ \A s \in Slot : image[s].idx \in Int
  BY <1>1, <1>2, RollbackIndexIsLeast, ParamAssumption DEF TypeOK
<1>4. locked /\ BootCaller => rollback' >= rollback
  BY <1>1, <1>2, <1>3, RollbackIndexIsLeast DEF LockedIndex
<1>5. \A s \in Slot : locked /\ BootCaller /\ image[s].idx < rollback => image[s].idx < rollback'
  BY <1>3, <1>4
<1>6. ReadSlots' = ReadSlots
  BY <1>1, Zenon DEF ReadSlots
<1> QED BY <1>1, <1>2, <1>5, <1>6, Zenon DEF ProvenInv, BootCaller, InSecondFlow

LEMMA SaveProven ==
  ASSUME NoIo, TypeOK, FlowData, LockedData, ProvenInv, FlowSave
  PROVE  ProvenInv'
<1>1. /\ misc'.valid /\ misc'.slots = DataToSave /\ FlowReturn(SelectedSlot)
      /\ SelectedSlot \in Slot \union {NoSlot}
  BY NoIoSteps, SavedData, Zenon
<1>2. ReadSlots' = DataToSave /\ pc = "save" /\ UNCHANGED <<image, locked>>
  BY <1>1, Zenon DEF ReadSlots, FlowSave
<1>3. SelectedSlot = NoSlot => NoneLeft(ReadSlots')
  <2>1. CASE slot_data = {}
    BY <1>2, <2>1, NoneSaved, Zenon DEF ProvenInv
  <2>2. CASE slot_data # {}
    BY <1>2, <2>2, SelectedHasData DEF TypeOK
  <2> QED BY <2>1, <2>2, Zenon
<1>4. locked /\ caller = "vendor_boot" /\ bootimage = NoSlot => NoneLeft(ReadSlots')
  BY <1>2, NoneSaved, Zenon DEF ProvenInv, InSecondFlow
<1>5. locked /\ caller = "boot" /\ SelectedSlot # NoSlot => image[SelectedSlot].kind # "bad_boot"
  BY <1>2, SelectedHasData, Zenon DEF SelectedSlot, LockedData, BootCaller, Altered
<1>6. CASE ReturnBoot(SelectedSlot)
  <2>1. /\ caller = "boot" /\ (locked /\ bootimage' = NoSlot => SelectedSlot = NoSlot)
        /\ pc' \in {"compare", "flow"} /\ (pc' = "flow" => bootimage' = NoSlot)
    BY <1>5, <1>6, Zenon DEF ReturnBoot
  <2> QED BY <1>2, <1>3, <2>1, Zenon DEF ProvenInv
<1>7. CASE ReturnVendorBoot(SelectedSlot)
  <2>1. /\ caller = "vendor_boot" /\ vendorbootimage' = SelectedSlot /\ bootimage' = bootimage
        /\ pc' = "start"
    BY <1>7, Zenon DEF ReturnVendorBoot
  <2> QED BY <1>2, <1>3, <1>4, <2>1, Zenon DEF ProvenInv, ImageMissing, InSecondFlow
<1>8. CASE ReturnActive(SelectedSlot)
  <2>1. pc' \in {"fastboot", "recover", "off"}
    BY <1>8, Zenon DEF ReturnActive
  <2> QED BY <2>1, Zenon DEF ProvenInv, InSecondFlow
<1> QED BY <1>1, <1>6, <1>7, <1>8, Zenon DEF FlowReturn

LEMMA ProvenStep ==
  ASSUME PowerOnly, IndInv, ProvenInv, [Next]_vars
  PROVE  ProvenInv'
<1> USE DEF IndInv
<1>0. NoIo
  BY PowerOnlySteps, Zenon
<1>1. CASE UNCHANGED vars
  BY <1>1, ZenonT(60) DEF vars, persistent, slotvars, efivars, flowvars, images, ProvenInv, InSecondFlow,
     BootCaller, ImageMissing, ReadSlots
<1>2. CASE Next /\ pc' \notin {"kfld", "init", "target", "flow", "rollback", "save", "start"}
  BY <1>2, ZenonT(60) DEF ProvenInv, InSecondFlow
<1>3. CASE PowerOn
  BY <1>3, Zenon DEF PowerOn, ProvenInv, InSecondFlow
<1>4. CASE Kfld /\ pc' = "init"
  <2>1. \A s \in failed_slots' : loader[s] # "ok"
    BY <1>0, <1>4, NoIoSteps, Zenon DEF Kfld, LoadKf, ProvenInv
  <2>2. UNCHANGED loader
    BY <1>4, Zenon DEF Kfld, persistent
  <2> QED BY <1>4, <2>1, <2>2, Zenon DEF ProvenInv, InSecondFlow
<1>5. CASE slot_init
  <2>1. /\ boot_ctrl' = ReadSlots /\ misc' = Stored(ReadSlots) /\ pc = "init" /\ pc' = "target"
        /\ UNCHANGED <<loader, failed_slots>>
    BY <1>0, <1>5, NoIoSteps, Zenon DEF slot_init, efivars
  <2> QED BY <2>1, Zenon DEF ProvenInv, InSecondFlow, Stored
<1>6. CASE CallStep
  BY <1>6, Zenon DEF CallStep, BootNormal, BootFailed, FastbootSlotGetActive, ProvenInv, InSecondFlow
<1>7. CASE FlowVerify
  BY <1>7, VerifyProven, Zenon
<1>8. CASE FlowRollback
  BY <1>0, <1>8, RollbackProven, Zenon
<1>9. CASE FlowSave
  BY <1>0, <1>9, SaveProven, Zenon
<1>10. CASE reboot_if_slot_is_different
  <2>1. bootimage # NoSlot
    BY <1>10 DEF reboot_if_slot_is_different, ChosenSlot
  <2> QED BY <1>10, <2>1, Zenon DEF reboot_if_slot_is_different, ProvenInv, InSecondFlow, images
<1> QED
  BY <1>0, <1>1, <1>2, <1>3, <1>4, <1>5, <1>6, <1>7, <1>8, <1>9, <1>10, NoIoSteps, StepsIntoTheFlow,
     StepsElsewhere, Zenon DEF FlowStep, ReturnStep

\* The steps outside of the system and of fastboot that write the metadata.
LEMMA MetadataWrites ==
  ASSUME TypeOK, Next, NoIo, pc \notin {"os", "fastboot"}
  PROVE  \/ misc' = misc \/ misc' = Stored(ReadSlots)
         \/ (BootNormal /\ FailedToLoad # {}) \/ FlowSave \/ LoadImageFails
<1> USE DEF persistent
<1>1. CASE slot_init \/ FlowVerify \/ BootNormal \/ FlowSave \/ LoadImageFails
  BY <1>1, NoIoSteps, Zenon DEF slot_init, FlowVerify, BootNormal
<1>2. CASE PowerOn \/ Kfld \/ FlowRollback \/ StartKernel \/ BootFailed \/ Recover \/ PowerLoss
           \/ EnterFastboot \/ RedState \/ reboot_if_slot_is_different
  BY <1>2, Zenon DEF PowerOn, Kfld, FlowRollback, StartKernel, BootFailed, Recover, PowerLoss,
     EnterFastboot, RedState, reboot_if_slot_is_different
<1>3. ~(OsMarkSuccessful \/ OsUpdateBegin \/ OsUpdateWrite \/ OsReboot \/ FastbootSlotGetActive
        \/ slot_set_active \/ FastbootFlash \/ slot_reset \/ change_device_state \/ FastbootReboot)
  BY Zenon DEF OsMarkSuccessful, OsUpdateBegin, OsUpdateWrite, OsReboot, FastbootSlotGetActive,
     slot_set_active, FastbootFlash, slot_reset, change_device_state, FastbootReboot
<1> QED BY <1>1, <1>2, <1>3, NoIoSteps, Zenon DEF Next, BootStep

LEMMA ProvenKept ==
  ASSUME PowerOnly, IndInv, ProvenInv, Next, pc \notin {"os", "fastboot"}, locked,
         NEW s \in Slot, ProvenSlot(s)
  PROVE  slot_is_bootable(misc'.slots[s])
<1> USE DEF IndInv
<1>0. NoIo
  BY PowerOnlySteps, Zenon
<1>1. /\ slot_is_bootable(ReadSlots[s]) /\ ReadSlots[s].successful_boot /\ loader[s] = "ok"
      /\ image[s].kind = "good" /\ image[s].idx >= rollback
  BY Zenon DEF ProvenSlot, AcceptableSlot
<1>2. misc.valid /\ ReadSlots = misc.slots
  BY <1>1, Zenon DEF ReadSlots, avb_ab_data_init, FreshSlot, TypeOK
<1>3. CASE misc' = misc \/ misc' = Stored(ReadSlots)
  BY <1>1, <1>2, <1>3 DEF Stored
<1>4. CASE BootNormal /\ FailedToLoad # {}
  <2>1. /\ pc = "target" /\ misc' = Stored(boot_ctrl')
        /\ boot_ctrl' = [t \in Slot |-> IF t \in FailedToLoad THEN Unbootable ELSE boot_ctrl[t]]
    BY <1>0, <1>4, NoIoSteps, Zenon DEF BootNormal
  <2>2. s \notin FailedToLoad /\ boot_ctrl[s] = ReadSlots[s]
    BY <1>1, <1>2, <2>1, Zenon DEF FailedToLoad, ProvenInv
  <2> QED BY <1>1, <2>1, <2>2, Zenon DEF Stored
<1>5. CASE FlowSave
  <2>1. /\ misc'.slots = DataToSave /\ pc = "save"
        /\ SelectedSlot \in Slot \union {NoSlot}
        /\ \A t \in Slot : t # SelectedSlot => DataToSave[t] = ab_data[t]
    BY <1>0, <1>5, NoIoSteps, SavedData, Zenon DEF FlowSave
  <2>2. ab_data[s] = ReadSlots[s]
    <3>1. image[s].idx \in Int /\ rollback \in Int
      BY ParamAssumption DEF TypeOK
    <3> QED BY <1>1, <1>2, <2>1, <3>1 DEF ProvenInv
  <2>3. DataToSave[s] = ab_data[s]
    BY <1>1, <2>1, <2>2, Zenon DEF DataToSave, DecrementTries
  <2> QED BY <1>1, <2>1, <2>2, <2>3, Zenon
<1>6. CASE LoadImageFails
  <2>1. pc = "start" /\ ImageMissing
    BY <1>0, <1>6, NoIoSteps, PowerOnlySteps, Zenon DEF LoadImageFails
  <2> QED BY <1>1, <2>1, Zenon DEF ProvenInv, NoneLeft
<1> QED BY <1>0, <1>3, <1>4, <1>5, <1>6, MetadataWrites, Zenon

\* However often the power fails and wherever in the boot, a locked device keeps
\* a slot that has booted successfully and still verifies.
THEOREM ProvenSlotsKept == ASSUME PowerOnly PROVE Spec => ProvenSlotKept
<1> DEFINE Keeps == \A s \in Slot : locked /\ ProvenSlot(s) /\ pc \notin {"os", "fastboot"}
                      => slot_is_bootable(misc'.slots[s])
<1>1. Init => ProvenInv
  BY Zenon DEF Init, ProvenInv, InSecondFlow
<1>2. IndInv /\ ProvenInv /\ [Next]_vars => ProvenInv'
  BY ProvenStep, Zenon
<1>3. IndInv /\ ProvenInv /\ [Next]_vars => [Keeps]_vars
  BY ProvenKept, Zenon
<1> QED BY <1>1, <1>2, <1>3, Invariance, PTL DEF Spec, ProvenSlotKept

=============================================================================
