------------------------------ MODULE BootChain ------------------------------
(***************************************************************************)
(* The A/B boot chain of one device: the slot loader (kfld.c), slot        *)
(* management (libkernelflinger/slot_avb.c), the libavb_ab flow            *)
(* (avb_ab_flow.c) as android_vb2.c and kernelflinger.c run it for "boot"  *)
(* and again for "vendor_boot", the fastboot commands that touch slots,    *)
(* and the operating system that marks slots successful or updates them.   *)
(*                                                                         *)
(* A boot is a sequence of steps, cut where persistent state is written,   *)
(* so that the device may lose power between any two writes.               *)
(***************************************************************************)
EXTENDS AbMetadata

CONSTANTS
  MaxIndex,       \* largest rollback index of an image
  MaxFaults,      \* bound on the number of faults
  FaultKinds,     \* which faults happen, a subset of AllFaults
  MaxUpdates,     \* bound on image changes (updater, fastboot flash)
  ImageKinds,     \* kinds of slot contents, a subset of AllKinds
  LoaderKinds,    \* states of a slot's bootloader partition
  UseKfld,        \* BOOTLOADER_SLOT build: kfld picks the bootloader slot
  UseFastboot     \* whether fastboot mode is ever entered

\* Contents of a slot as avb_slot_verify tells them apart: all fine, only
\* the boot or only the vendor_boot image altered, vbmeta unusable.
AllKinds == {"good", "bad_boot", "bad_vendor", "invalid"}
AllLoaders == {"ok", "broken", "missing"}
\* Power loss, a failing disk or variable access, a kernel handover that returns.
AllFaults == {"power", "io", "handover"}

ASSUME ParamAssumption == /\ MaxIndex \in Nat
                          /\ MaxFaults \in Nat /\ FaultKinds \subseteq AllFaults
                          /\ MaxUpdates \in Nat
                          /\ ImageKinds \subseteq AllKinds
                          /\ LoaderKinds \subseteq AllLoaders
                          /\ UseKfld \in BOOLEAN
                          /\ UseFastboot \in BOOLEAN

VARIABLES
  \* persistent
  misc,             \* A/B metadata: [valid, slots]
  rollback,         \* stored rollback index (one location)
  image,            \* slot -> [kind, idx]
  loader,           \* slot -> state of its bootloader partition
  locked,           \* device state: LOCKED
  \* volatile
  pc,               \* where the boot is
  loaded_slot,      \* volatile EFI variable LoadedSlot
  failed_slots,     \* volatile EFI variables LoadedSlotFailed<n>
  boot_ctrl,        \* slot_avb.c: the cached metadata
  cur_suffix,       \* slot_avb.c: the cached active slot
  caller,           \* who runs avb_ab_flow
  ab_data,          \* avb_ab_flow: working copy of the metadata
  slot_data,        \* avb_ab_flow: slots with an AvbSlotVerifyData
  bootimage,        \* slot the boot image in RAM comes from
  vendorbootimage,  \* slot the vendor_boot image in RAM comes from
  \* budgets
  faults, updates

persistent == <<misc, rollback, image, loader, locked>>
slotvars == <<boot_ctrl, cur_suffix>>
efivars == <<loaded_slot, failed_slots>>
flowvars == <<caller, ab_data, slot_data>>
images == <<bootimage, vendorbootimage>>
vars == <<persistent, pc, efivars, slotvars, flowvars, images, faults, updates>>

Callers == {"boot", "vendor_boot", "fastboot", "failed"}
PCs == {"off", "kfld", "init", "target", "flow", "rollback", "save", "compare",
        "start", "failed", "os", "fastboot", "recover", "firmware"}

TypeOK ==
  /\ misc \in [valid : BOOLEAN, slots : AbData]
  /\ rollback \in 0 .. MaxIndex
  /\ image \in [Slot -> [kind : AllKinds, idx : 0 .. MaxIndex]]
  /\ loader \in [Slot -> AllLoaders]
  /\ locked \in BOOLEAN
  /\ pc \in PCs
  /\ loaded_slot \in Slot \union {NoSlot}
  /\ failed_slots \subseteq Slot
  /\ boot_ctrl \in AbData
  /\ cur_suffix \in Slot \union {NoSlot}
  /\ caller \in Callers
  /\ ab_data \in AbData
  /\ slot_data \subseteq Slot
  /\ bootimage \in Slot \union {NoSlot}
  /\ vendorbootimage \in Slot \union {NoSlot}
  /\ faults \in 0 .. MaxFaults
  /\ updates \in 0 .. MaxUpdates

\* A factory-fresh device: both slots provisioned with good images.
Init ==
  /\ misc = [valid |-> TRUE, slots |-> avb_ab_data_init]
  /\ rollback = 0
  /\ image = [s \in Slot |-> [kind |-> "good", idx |-> 0]]
  /\ loader = [s \in Slot |-> "ok"]
  /\ locked \in BOOLEAN
  /\ pc = "off"
  /\ loaded_slot = NoSlot /\ failed_slots = {}
  /\ boot_ctrl = avb_ab_data_init /\ cur_suffix = NoSlot
  /\ caller = "boot" /\ ab_data = avb_ab_data_init /\ slot_data = {}
  /\ bootimage = NoSlot /\ vendorbootimage = NoSlot
  /\ faults = 0 /\ updates = 0

\* A step that goes wrong spends one unit of the fault budget.
Fault(k) == k \in FaultKinds /\ faults < MaxFaults /\ faults' = faults + 1
NoFault == UNCHANGED faults

\* avb_ab_data_read: invalid metadata are replaced, on disk too, by defaults.
ReadSlots == IF misc.valid THEN misc.slots ELSE avb_ab_data_init
Stored(ab) == [valid |-> TRUE, slots |-> ab]

-----------------------------------------------------------------------------
(* Power and the slot loader *)

\* Volatile EFI variables and the bootloader's RAM start afresh.
PowerOn ==
  /\ pc = "off"
  /\ pc' = IF UseKfld THEN "kfld" ELSE "init"
  /\ loaded_slot' = NoSlot /\ failed_slots' = {}
  /\ boot_ctrl' = avb_ab_data_init /\ cur_suffix' = NoSlot
  /\ caller' = "boot" /\ ab_data' = avb_ab_data_init /\ slot_data' = {}
  /\ bootimage' = NoSlot /\ vendorbootimage' = NoSlot
  /\ UNCHANGED <<persistent, faults, updates>>

PowerLoss ==
  /\ pc # "off"
  /\ Fault("power")
  /\ pc' = "off"
  /\ UNCHANGED <<persistent, efivars, slotvars, flowvars, images, updates>>

\* kfld.c efi_main after a slot s that did not start: the other one is loaded.
TryOther(s) ==
  IF loader[Other(s)] = "ok"
  THEN loaded_slot' = Other(s) /\ pc' = "init"
  ELSE pc' = "firmware" /\ UNCHANGED loaded_slot

\* The bootloader of slot s is loaded, then that of the other slot if that fails.
\* load_kf returns EFI_SUCCESS when the file is missing, so kfld then gives up
\* without trying the other slot.
LoadKf(s) ==
  \/ /\ loader[s] = "ok"
     /\ loaded_slot' = s /\ pc' = "init" /\ UNCHANGED failed_slots
  \/ /\ loader[s] = "missing"
     /\ pc' = "firmware" /\ UNCHANGED <<loaded_slot, failed_slots>>
  \/ /\ loader[s] = "broken"
     /\ failed_slots' = {s} /\ TryOther(s)

\* The slots kfld may take for the active one: it does not check the CRC.
ActiveForKfld == IF misc.valid THEN {get_active_slot(misc.slots)} ELSE Slot

\* kfld.c efi_main.  Metadata that cannot be read select slot 0; a slot whose
\* LoadedSlot cannot be set counts as failed, also the second; a failure that cannot be noted is
\* forgotten.
Kfld ==
  /\ pc = "kfld"
  /\ \/ NoFault /\ \E s \in ActiveForKfld : LoadKf(s)
     \/ Fault("io") /\ LoadKf(0)
     \/ /\ Fault("io")
        /\ \E s \in ActiveForKfld :
             \/ loader[s] = "ok" /\ failed_slots' = {s} /\ TryOther(s)
             \/ loader[s] = "broken" /\ failed_slots' = {} /\ TryOther(s)
             \/ /\ loader[s] = "broken" /\ failed_slots' = {s}
                /\ pc' = "firmware" /\ UNCHANGED loaded_slot
  /\ UNCHANGED <<persistent, slotvars, flowvars, images, updates>>

\* A bootloader that kfld started returns an error before it gets to slot_init
\* (no boot device): kfld tries the other slot unless this was it.
LoaderReturns ==
  /\ pc = "init" /\ loaded_slot # NoSlot
  /\ Fault("io")
  /\ \/ failed_slots = {} /\ failed_slots' = {loaded_slot} /\ TryOther(loaded_slot)
     \/ failed_slots # {} /\ pc' = "firmware" /\ UNCHANGED efivars
  /\ UNCHANGED <<persistent, slotvars, flowvars, images, updates>>

-----------------------------------------------------------------------------
(* kernelflinger.c efi_main up to the AVB flow *)

\* slot_init.  A read error is ignored by sync_boot_ctrl and leaves the
\* defaults that slot_init has just put in boot_ctrl.
slot_init ==
  /\ pc = "init"
  /\ \/ /\ boot_ctrl' = ReadSlots /\ misc' = Stored(ReadSlots) /\ NoFault
     \/ /\ boot_ctrl' = avb_ab_data_init /\ UNCHANGED misc /\ Fault("io")
  /\ cur_suffix' = NoSlot
  /\ pc' = "target"
  /\ UNCHANGED <<rollback, image, loader, locked, efivars, flowvars, images, updates>>

EnterFastboot ==
  /\ pc = "target"
  /\ UseFastboot
  /\ pc' = "fastboot"
  /\ UNCHANGED <<persistent, efivars, slotvars, flowvars, images, faults, updates>>

\* (mutant of FailedToLoad: every slot but the loaded one)
NotLoaded == IF loaded_slot = NoSlot THEN {} ELSE Slot \ {loaded_slot}

\* disable_slot_if_efi_loaded_slot_failed: the slots to be disabled.
FailedToLoad == IF loaded_slot = NoSlot THEN {} ELSE failed_slots \ {loaded_slot}

\* efi_main decides to boot: the slots kfld could not load are disabled in the
\* cached metadata, which are written back as a whole, and the flow for "boot"
\* starts.  The result of the write is ignored; a variable that cannot be read
\* disables no slot.
BootNormal ==
  /\ pc = "target"
  /\ \/ FailedToLoad = {} /\ UNCHANGED <<misc, slotvars>> /\ NoFault
     \/ FailedToLoad # {} /\ UNCHANGED <<misc, slotvars>> /\ Fault("io")
     \/ /\ FailedToLoad # {}
        /\ boot_ctrl' = [s \in Slot |-> IF s \in FailedToLoad
                                        THEN Unbootable ELSE boot_ctrl[s]]
        /\ cur_suffix' = NoSlot
        /\ \/ misc' = Stored(boot_ctrl') /\ NoFault
           \/ UNCHANGED misc /\ Fault("io")
  /\ pc' = "flow" /\ caller' = "boot"
  /\ UNCHANGED <<rollback, image, loader, locked, efivars, ab_data, slot_data, images, updates>>

-----------------------------------------------------------------------------
(* avb_ab_flow, cut at its writes: metadata reset, rollback index, metadata *)

\* (mutant of AllowVerificationError: the flag is always set)
AlwaysAllow == TRUE

\* android_image_load_partition_avb_ab allows verification errors on an
\* unlocked device; slot_get_active always does.
AllowVerificationError == ~locked \/ caller \in {"fastboot", "failed"}

\* The image kind that makes the requested partition fail its hash.
Altered == IF caller = "vendor_boot" THEN "bad_vendor" ELSE "bad_boot"

\* (mutant of avb_slot_verify: the stored rollback index is not compared)
VerifyIgnoringRollback(s) ==
  IF image[s].kind = "invalid" THEN "invalid"
  ELSE IF image[s].kind = Altered THEN "error" ELSE "ok"

\* avb_slot_verify, reduced to the classes avb_ab_flow switches on.
avb_slot_verify(s) ==
  IF image[s].kind = "invalid" THEN "invalid"
  ELSE IF image[s].kind = Altered \/ image[s].idx < rollback THEN "error"
  ELSE "ok"

Accepted(s) ==
  \/ avb_slot_verify(s) = "ok"
  \/ avb_slot_verify(s) = "error" /\ AllowVerificationError

\* (mutant of VerifiedData: a rejected slot is not made unbootable)
RejectedSlotsKept(ab, vs) == ab

\* The metadata after the verification loop over the slots in vs.
VerifiedData(ab, vs) ==
  [s \in Slot |-> IF s \in vs /\ slot_is_bootable(ab[s]) /\ ~Accepted(s)
                  THEN Unbootable ELSE ab[s]]

\* What the callers do with the slot of the AvbSlotVerifyData returned
\* (NoSlot for none).  After "boot" it is compared with the slot kfld loaded;
\* the result for "vendor_boot" is unchecked.
ReturnBoot(s) ==
  /\ caller = "boot"
  /\ cur_suffix' = IF s = NoSlot THEN cur_suffix ELSE s
  /\ \E img \in IF s # NoSlot /\ image[s].kind = "bad_boot" THEN {s, NoSlot} ELSE {s} :
       /\ bootimage' = img
       /\ IF img # NoSlot
          THEN pc' = "compare" /\ UNCHANGED caller
          ELSE pc' = "flow" /\ caller' = "vendor_boot"
  /\ UNCHANGED vendorbootimage

\* The bootloader reboots when the slot is not the one kfld loaded it from.  A
\* LoadedSlot that cannot be read is taken for the slot of the image.
reboot_if_slot_is_different ==
  /\ pc = "compare"
  /\ \/ /\ loaded_slot \notin {NoSlot, bootimage} /\ NoFault
        /\ pc' = "off" /\ UNCHANGED caller
     \/ /\ loaded_slot \in {NoSlot, bootimage} /\ NoFault
        /\ pc' = "flow" /\ caller' = "vendor_boot"
     \/ /\ loaded_slot \notin {NoSlot, bootimage} /\ Fault("io")
        /\ pc' = "flow" /\ caller' = "vendor_boot"
  /\ UNCHANGED <<persistent, efivars, slotvars, ab_data, slot_data, images, updates>>

ReturnVendorBoot(s) ==
  /\ caller = "vendor_boot"
  /\ cur_suffix' = IF s = NoSlot THEN cur_suffix ELSE s
  /\ vendorbootimage' = s
  /\ pc' = "start"
  /\ UNCHANGED <<bootimage, caller>>

ReturnActive(s) ==
  /\ caller \in {"fastboot", "failed"}
  /\ cur_suffix' = IF s = NoSlot THEN cur_suffix ELSE s
  /\ pc' = IF caller = "fastboot" THEN "fastboot"
           ELSE IF s = NoSlot THEN "recover" ELSE "off"
  /\ UNCHANGED <<images, caller>>

FlowReturn(s) == ReturnBoot(s) \/ ReturnVendorBoot(s) \/ ReturnActive(s)

\* The metadata cannot be read.  avb_ab_flow then compares and writes back two
\* uninitialised structures: nothing is written, or garbage, or what an earlier
\* call of the flow left on the stack.
FlowReadError ==
  /\ pc = "flow"
  /\ Fault("io")
  /\ misc' \in {misc, [misc EXCEPT !.valid = FALSE], Stored(ab_data)}
  /\ slot_data' = {}
  /\ FlowReturn(NoSlot)
  /\ UNCHANGED <<rollback, image, loader, locked, efivars, boot_ctrl, ab_data, updates>>

\* Metadata loaded (reset on disk when invalid) and normalized, bootable slots
\* verified and the slot to boot selected.
FlowVerify ==
  /\ pc = "flow"
  /\ misc' = Stored(ReadSlots)
  /\ LET n == Normalized(ReadSlots)
         ab == VerifiedData(n, Slot)
     IN  /\ ab_data' = ab
         /\ slot_data' = {s \in Slot : slot_is_bootable(n[s]) /\ Accepted(s)}
         /\ pc' = IF SlotIndexToBoot(ab) = NoSlot THEN "save" ELSE "rollback"
  /\ NoFault
  /\ UNCHANGED <<rollback, image, loader, locked, efivars, slotvars, caller, images, updates>>

\* avb_slot_verify fails on I/O or memory for slot s: the flow gives up, and
\* still saves what slot 0 became when s is 1.
FlowVerifyError ==
  /\ pc = "flow"
  /\ Fault("io")
  /\ misc' = Stored(ReadSlots)
  /\ LET n == Normalized(ReadSlots)
     IN  \E s \in Slot : /\ slot_is_bootable(n[s])
                         /\ ab_data' = VerifiedData(n, {t \in Slot : t < s})
  /\ slot_data' = {}
  /\ pc' = "save"
  /\ UNCHANGED <<rollback, image, loader, locked, efivars, slotvars, caller, images, updates>>

\* (mutant of RollbackIndexValue: the largest index)
LargestIndexValue ==
  CHOOSE v \in {image[s].idx : s \in slot_data} :
    \A s \in slot_data : v >= image[s].idx

\* The stored rollback index becomes the smallest index of the verified slots.
RollbackIndexValue ==
  CHOOSE v \in {image[s].idx : s \in slot_data} :
    \A s \in slot_data : v <= image[s].idx

FlowRollback ==
  /\ pc = "rollback"
  /\ \/ /\ rollback' = IF RollbackIndexValue # 0 THEN RollbackIndexValue ELSE rollback
        /\ NoFault /\ UNCHANGED slot_data
     \/ /\ RollbackIndexValue # 0 /\ Fault("io")
        /\ slot_data' = {} /\ UNCHANGED rollback
  /\ pc' = "save"
  /\ UNCHANGED <<misc, image, loader, locked, efivars, slotvars, caller, ab_data, images, updates>>

\* The slot returned, its try counted, the metadata saved if they changed.
SelectedSlot == IF slot_data = {} THEN NoSlot ELSE SlotIndexToBoot(ab_data)

\* (mutant of DataToSave: the rejected slots are not saved)
RejectionsNotSaved ==
  IF SelectedSlot = NoSlot THEN ReadSlots ELSE DecrementTries(ReadSlots, SelectedSlot)

DataToSave ==
  IF SelectedSlot = NoSlot THEN ab_data ELSE DecrementTries(ab_data, SelectedSlot)

FlowSave ==
  /\ pc = "save"
  /\ ab_data' = DataToSave
  /\ \/ /\ misc' = Stored(DataToSave)
        /\ NoFault
        /\ FlowReturn(SelectedSlot)
     \/ /\ DataToSave # misc.slots /\ UNCHANGED misc
        /\ Fault("io")
        /\ FlowReturn(NoSlot)
  /\ slot_data' = {}
  /\ UNCHANGED <<rollback, image, loader, locked, efivars, boot_ctrl, updates>>

-----------------------------------------------------------------------------
(* load_image and what follows when it returns *)

StartKernel ==
  /\ pc = "start"
  /\ bootimage # NoSlot /\ vendorbootimage # NoSlot
  /\ pc' = "os"
  /\ UNCHANGED <<persistent, efivars, slotvars, flowvars, images, faults, updates>>

\* boot_error in the red state: the user powers off or goes to recover mode.
RedState ==
  /\ pc = "start"
  /\ bootimage = NoSlot
  /\ pc' \in {"off", "recover"}
  /\ UNCHANGED <<persistent, efivars, slotvars, flowvars, images, faults, updates>>

\* The cached metadata after slot_boot_failed re-read them as b: the active
\* slot is disabled; select_highest_priority_slot then selects the best of the
\* others, even one it has just disabled because its tries are exhausted.
AfterBootFailed(b) ==
  LET b1 == slot_set_unbootable(b, cur_suffix)
      h == highest_priority_slot(b1)
  IN  IF h # NoSlot /\ ~slot_is_bootable(b1[h])
      THEN slot_set_unbootable(b1, h) ELSE b1

slot_boot_failed(io) ==
  IF cur_suffix = NoSlot
  THEN UNCHANGED <<misc, slotvars>>
  ELSE \E b \in {ReadSlots} \union (IF io THEN {boot_ctrl} ELSE {}) :
         /\ boot_ctrl' = AfterBootFailed(b)
         /\ cur_suffix' = highest_priority_slot(slot_set_unbootable(b, cur_suffix))
         /\ \/ misc' = Stored(AfterBootFailed(b))
            \/ io /\ misc' = misc

\* android_image_start_buffer returned: an image is missing, or the handover
\* to the kernel failed.
ImageMissing == bootimage = NoSlot \/ vendorbootimage = NoSlot

LoadImageFails ==
  /\ pc = "start"
  /\ \/ ImageMissing /\ NoFault /\ slot_boot_failed(FALSE)
     \/ ImageMissing /\ Fault("io") /\ slot_boot_failed(TRUE)
     \/ Fault("handover") /\ slot_boot_failed(FALSE)
  /\ pc' = "failed"
  /\ UNCHANGED <<rollback, image, loader, locked, efivars, flowvars, images, updates>>

\* Reboot if there is an active slot; slot_get_active runs the flow when none
\* is cached.
BootFailed ==
  /\ pc = "failed"
  /\ IF cur_suffix # NoSlot
     THEN pc' = "off" /\ UNCHANGED caller
     ELSE pc' = "flow" /\ caller' = "failed"
  /\ UNCHANGED <<persistent, efivars, slotvars, ab_data, slot_data, images, faults, updates>>

\* bootloader_recover_mode, or a manual restart out of the firmware.
Recover ==
  /\ pc \in {"recover", "firmware"}
  /\ \/ pc' = "off"
     \/ pc = "recover" /\ UseFastboot /\ pc' = "fastboot"
  /\ UNCHANGED <<persistent, efivars, slotvars, flowvars, images, faults, updates>>

-----------------------------------------------------------------------------
(* The operating system, through the metadata operations of libavb_ab *)

OsMarkSuccessful ==
  /\ pc = "os"
  /\ misc' = Stored(MarkSuccessful(ReadSlots, cur_suffix))
  /\ UNCHANGED <<rollback, image, loader, locked, pc, efivars, slotvars, flowvars, images, faults, updates>>

\* The updater works on the slot that is not running: unbootable while it is
\* written, active when it is complete.
OsUpdateBegin ==
  /\ pc = "os"
  /\ updates < MaxUpdates
  /\ misc' = Stored(MarkUnbootable(ReadSlots, Other(cur_suffix)))
  /\ UNCHANGED <<rollback, image, loader, locked, pc, efivars, slotvars, flowvars, images, faults, updates>>

OsUpdateWrite ==
  /\ pc = "os"
  /\ updates < MaxUpdates
  /\ ReadSlots[Other(cur_suffix)] = Unbootable
  /\ \E k \in ImageKinds, i \in 0 .. MaxIndex, l \in LoaderKinds :
       /\ image' = [image EXCEPT ![Other(cur_suffix)] = [kind |-> k, idx |-> i]]
       /\ loader' = [loader EXCEPT ![Other(cur_suffix)] = l]
  /\ misc' = Stored(MarkActive(ReadSlots, Other(cur_suffix)))
  /\ updates' = updates + 1
  /\ UNCHANGED <<rollback, locked, pc, efivars, slotvars, flowvars, images, faults>>

OsReboot ==
  /\ pc = "os"
  /\ pc' = "off"
  /\ UNCHANGED <<persistent, efivars, slotvars, flowvars, images, faults, updates>>

-----------------------------------------------------------------------------
(* Fastboot mode *)

\* getvar current-slot, and slot_label for a command on an unsuffixed label.
FastbootSlotGetActive ==
  /\ pc = "fastboot"
  /\ cur_suffix = NoSlot
  /\ pc' = "flow" /\ caller' = "fastboot"
  /\ UNCHANGED <<persistent, efivars, slotvars, ab_data, slot_data, images, faults, updates>>

\* slot_set_active ignores the result of avb_ab_mark_slot_active.
slot_set_active ==
  /\ pc = "fastboot"
  /\ ~locked
  /\ boot_ctrl' = ReadSlots
  /\ \E s \in Slot :
       /\ cur_suffix' = s
       /\ \/ misc' = Stored(MarkActive(ReadSlots, s)) /\ NoFault
          \/ misc' = Stored(ReadSlots) /\ Fault("io")
  /\ UNCHANGED <<rollback, image, loader, locked, pc, efivars, flowvars, images, updates>>

FastbootFlash ==
  /\ pc = "fastboot"
  /\ ~locked
  /\ updates < MaxUpdates /\ updates' = updates + 1
  /\ \E s \in Slot, k \in ImageKinds, i \in 0 .. MaxIndex :
       image' = [image EXCEPT ![s] = [kind |-> k, idx |-> i]]
  /\ UNCHANGED <<misc, rollback, loader, locked, pc, efivars, slotvars, flowvars, images, faults>>

\* flash gpt: refresh_partition_var resets the slots.
slot_reset ==
  /\ pc = "fastboot"
  /\ ~locked
  /\ boot_ctrl' = avb_ab_data_init /\ cur_suffix' = NoSlot
  /\ misc' = Stored(avb_ab_data_init)
  /\ UNCHANGED <<rollback, image, loader, locked, pc, efivars, flowvars, images, faults, updates>>

\* change_device_state, as far as the boot chain is concerned: unlocking
\* clears the stored rollback indexes.
change_device_state ==
  /\ pc = "fastboot"
  /\ locked' = ~locked
  /\ rollback' = IF locked THEN 0 ELSE rollback
  /\ UNCHANGED <<misc, image, loader, pc, efivars, slotvars, flowvars, images, faults, updates>>

FastbootReboot ==
  /\ pc = "fastboot"
  /\ pc' = "off"
  /\ UNCHANGED <<persistent, efivars, slotvars, flowvars, images, faults, updates>>

-----------------------------------------------------------------------------
BootStep ==
  \/ PowerOn \/ Kfld \/ slot_init \/ BootNormal
  \/ FlowVerify \/ FlowRollback \/ FlowSave \/ reboot_if_slot_is_different
  \/ StartKernel \/ LoadImageFails \/ BootFailed \/ Recover

Next ==
  \/ BootStep
  \/ PowerLoss \/ LoaderReturns \/ EnterFastboot
  \/ FlowReadError \/ FlowVerifyError \/ RedState
  \/ OsMarkSuccessful \/ OsUpdateBegin \/ OsUpdateWrite \/ OsReboot
  \/ FastbootSlotGetActive \/ slot_set_active \/ FastbootFlash \/ slot_reset
  \/ change_device_state \/ FastbootReboot

Spec == Init /\ [][Next]_vars

\* The bootloader and the platform under it keep running, and the operating
\* system does not stay up forever without a reboot.
FairSpec == Spec /\ WF_vars(BootStep) /\ WF_vars(OsReboot)

-----------------------------------------------------------------------------
(* Properties *)

\* avb_ab_flow.c:357 asserts slot_data[slot_index_to_boot] != NULL: whenever the
\* flow is about to return a slot, that slot was verified in this very flow.
SelectedSlotIsVerified ==
  pc = "rollback" \/ (pc = "save" /\ slot_data # {})
    => SlotIndexToBoot(ab_data) \in slot_data

\* On a locked device the images about to be started passed verification:
\* neither a stale result of an earlier flow nor the second flow for
\* vendor_boot lets an altered image through to load_image.
LockedImagesVerified ==
  pc = "start" /\ locked =>
    /\ bootimage # NoSlot => image[bootimage].kind \notin {"bad_boot", "invalid"}
    /\ vendorbootimage # NoSlot =>
         image[vendorbootimage].kind \notin {"bad_vendor", "invalid"}

\* kfld.c and avb_ab_flow choose a slot each, from the same metadata and by rules
\* of their own.  When the bootloader reboots because they differ, the metadata
\* that the flow has saved make kfld load the slot the flow has chosen, so that
\* the reboot is not repeated -- unless the flow has counted the last try of it.
RebootReachesChosenSlot ==
  pc = "compare" /\ loaded_slot \notin {NoSlot, bootimage} =>
    /\ misc.valid
    /\ slot_is_bootable(misc.slots[bootimage]) => get_active_slot(misc.slots) = bootimage

\* kernelflinger.c:1009 "Verify if kernelflinger use same slot as kfld and
\* trigger reboot if not": the slot handed to the kernel
\* (androidboot.slot_suffix is cur_suffix) is the slot kfld loaded.
StartedSlotMatchesLoader ==
  pc = "os" /\ loaded_slot # NoSlot => cur_suffix = loaded_slot

\* Raising the stored rollback index never locks out a slot that could still be
\* booted: whatever order writes and crashes come in, a bootable slot with
\* good images and an acceptable index stays acceptable.
AcceptableSlot(s) ==
  /\ slot_is_bootable(ReadSlots[s])
  /\ image[s].kind = "good"
  /\ image[s].idx >= rollback

NoRollbackLockout ==
  [][\A s \in Slot : AcceptableSlot(s) => \/ image[s].idx >= rollback'
                                          \/ image'[s] # image[s]]_vars

\* The flows of a boot on a locked device never lower the stored index.
BootNeverLowersRollback ==
  [][locked /\ locked' /\ caller \in {"boot", "vendor_boot"}
       => rollback' >= rollback]_vars

\* Losing power at any point of a boot of a locked device never costs a slot
\* that has booted successfully and still verifies: only the running system
\* and fastboot take it away.  (On an unlocked device the second flow may fall
\* back to the proven slot and slot_boot_failed then disables that one.)
ProvenSlot(s) ==
  AcceptableSlot(s) /\ ReadSlots[s].successful_boot /\ loader[s] = "ok"

ProvenSlotKept ==
  [][\A s \in Slot : locked /\ ProvenSlot(s) /\ pc \notin {"os", "fastboot"}
       => slot_is_bootable(misc'.slots[s])]_vars

\* slot.h: slot_boot_failed must "select the next valid slot with the highest
\* priority".  select_highest_priority_slot also selects a slot it has just
\* disabled; the flow normalizes the metadata on every boot, so that after a
\* failed start the slot selected for the reboot can be booted.
FallbackSlotIsValid ==
  pc = "failed" /\ cur_suffix # NoSlot => slot_is_bootable(boot_ctrl[cur_suffix])

\* A slot that never completes a boot is not retried forever: again and again
\* the slot to boot is one marked successful, or there is none left.
BootLoopEnds ==
  []<>(LET s == SlotIndexToBoot(ReadSlots)
       IN  s = NoSlot \/ ReadSlots[s].successful_boot)
=============================================================================
