--------------------------------- MODULE Tpm ---------------------------------
(***************************************************************************)
(* What the bootloader keeps in the TPM (libkernelflinger/tpm2_security.c, *)
(* for platforms where Android owns it): the seed of Trusty, and one index *)
(* with the lock state and the rollback index.  The indexes are defined    *)
(* and filled by the first boot, command by command, so that power may be  *)
(* lost between any two of them.                                           *)
(*                                                                         *)
(* The callers are efi_main and load_boot_image of kernelflinger.c, the    *)
(* device state of vars.c, get_seed of security_efi.c and the fastboot     *)
(* commands of fastboot_oem.c.  The TPM is external: an index not written  *)
(* cannot be read; read locks, and the write lock of the bootloader index, *)
(* last until the TPM restarts, the write lock of the seed for ever; with  *)
(* an owner password no index is defined or deleted.  A live boot, which   *)
(* passes the TPM by, is not in the model.                                 *)
(***************************************************************************)
EXTENDS Naturals, FiniteSets

CONSTANTS
  MaxRollback,   \* largest rollback index of an image
  MaxSeeds,      \* bound on the seeds stored
  MaxLosses,     \* bound on the power losses
  MaxErrors      \* bound on the failing TPM commands

ASSUME TpmAssumption ==
  {MaxRollback, MaxSeeds, MaxLosses, MaxErrors} \subseteq Nat

Index == {"seed", "optee", "boot"}      \* config_table

VARIABLES
  defined, written,   \* the indexes that are defined; those that were written since
  wlocked, rlocked,   \* the indexes with a write lock, with a read lock
  seed,      \* contents of the seed index
  bl,        \* contents of the bootloader index: [lock, rollback]
  owner,     \* ownerAuthSet
  build,     \* "user" or "userdebug"
  secure,    \* is_platform_secure_boot_enabled
  pc,        \* where the boot, or the command, is
  caller,    \* who runs tpm2_init or asks for a seed: "init", "storage", "command"
  failed,    \* whether tpm2_init failed in this boot
  state,     \* current_state: "unknown", "locked" or "unlocked"
  drawn,     \* seeds drawn so far
  given,     \* the seeds Trusty got since the seed index was last deleted
  seeded,    \* whether Trusty got the seed in this boot
  losses, errors

nv == <<defined, written, wlocked, rlocked>>
tpm == <<nv, seed, bl, owner>>
setup == <<build, secure>>
vars == <<defined, written, wlocked, rlocked, seed, bl, owner, build, secure, pc, caller,
          failed, state, drawn, given, seeded, losses, errors>>

\* An index of the TEE may be there or not.
Init ==
  /\ defined \in SUBSET {"optee"} /\ written = defined
  /\ wlocked = {} /\ rlocked = {}
  /\ seed = 0 /\ bl = [lock |-> "unlocked", rollback |-> 0] /\ owner = FALSE
  /\ build \in {"user", "userdebug"} /\ secure \in BOOLEAN
  /\ pc = "off" /\ caller = "init" /\ failed = FALSE /\ state = "unknown"
  /\ drawn = 0 /\ given = {} /\ seeded = FALSE
  /\ losses = 0 /\ errors = 0

----------------------------------------------------------------------------
(* TPM commands *)

Readable(i) == i \in defined /\ i \in written /\ i \notin rlocked
Writable(i) == i \in defined /\ i \notin wlocked

\* A command works when its condition holds and the TPM does not fail.
Works(cond) == cond /\ UNCHANGED errors
Fails(cond) ==
  \/ ~cond /\ UNCHANGED errors
  \/ errors < MaxErrors /\ errors' = errors + 1

\* The comparison of attributes ignores WRITTEN and WRITELOCKED, not READLOCKED.
AttributesMatch(i) == i \in defined /\ i \notin rlocked

----------------------------------------------------------------------------
(* tpm2_init *)

Goto(l) == pc' = l /\ UNCHANGED <<caller, failed, state>>

\* Back to the caller: efi_main, which goes to fastboot when the TPM failed, though not
\* when the status is EFI_NOT_FOUND; oem set-storage, which ignores the result and
\* refreshes the device state, unless the partition table cannot be read; or fuse.
Return(ok) ==
  /\ \/ /\ caller = "init" /\ pc' = "default"
        /\ failed' = failed \/ (~ok /\ failed' = TRUE)
        /\ UNCHANGED state
     \/ caller = "storage" /\ pc' = "read" /\ state' = "unknown" /\ UNCHANGED failed
     \/ caller \in {"storage", "command"} /\ pc' = "fastboot" /\ UNCHANGED <<failed, state>>
  /\ UNCHANGED caller

\* The firmware restarts the TPM: the locks that last until then are cleared.
PowerOn ==
  /\ pc = "off"
  /\ rlocked' = {} /\ wlocked' = wlocked \ {"boot"}
  /\ pc' = "boot_public" /\ caller' = "init" /\ failed' = FALSE /\ state' = "unknown"
  /\ seeded' = FALSE
  /\ UNCHANGED <<defined, written, seed, bl, owner, setup, drawn, given, losses, errors>>

\* tpm2_check_cap_permanent, then tpm2_check_bootloader_index
CheckBootloader ==
  /\ pc = "boot_public"
  /\ \/ Works("boot" \notin defined) /\ Goto("boot_define")
     \/ Works(AttributesMatch("boot")) /\ Goto("boot_version")
     \/ Fails("boot" \notin defined \/ AttributesMatch("boot")) /\ Return(FALSE)
  /\ UNCHANGED <<tpm, setup, drawn, given, seeded, losses>>

CheckVersion ==
  /\ pc = "boot_version"
  /\ \/ Works(Readable("boot")) /\ Goto("seed_public")
     \/ Fails(Readable("boot")) /\ Return(FALSE)
  /\ UNCHANGED <<tpm, setup, drawn, given, seeded, losses>>

\* tpm2_fuse_bootloader: define, write, read back
DefineBootloader ==
  /\ pc = "boot_define"
  /\ \/ /\ Works(~owner) /\ Goto("boot_write")
        /\ defined' = defined \cup {"boot"}
        /\ UNCHANGED <<written, wlocked, rlocked, seed, bl, owner>>
     \/ Fails(~owner) /\ Return(FALSE) /\ UNCHANGED tpm
  /\ UNCHANGED <<setup, drawn, given, seeded, losses>>

WriteBootloader ==
  /\ pc = "boot_write"
  /\ \/ /\ Works(Writable("boot")) /\ Goto("boot_verify")
        /\ written' = written \cup {"boot"}
        /\ bl' = [lock |-> "unlocked", rollback |-> 0]
        /\ UNCHANGED <<defined, wlocked, rlocked, seed, owner>>
     \/ Fails(Writable("boot")) /\ Return(FALSE) /\ UNCHANGED tpm
  /\ UNCHANGED <<setup, drawn, given, seeded, losses>>

VerifyBootloader ==
  /\ pc = "boot_verify"
  /\ \/ Works(Readable("boot")) /\ Goto("seed_public")
     \/ Fails(Readable("boot")) /\ Return(FALSE)
  /\ UNCHANGED <<tpm, setup, drawn, given, seeded, losses>>

\* tpm2_check_trusty_seed_index: an index that is there is taken as fused.
CheckSeed ==
  /\ pc = "seed_public"
  /\ \/ Works("seed" \notin defined) /\ Goto("seed_define")
     \/ Works(AttributesMatch("seed")) /\ Return(TRUE)
     \/ Fails("seed" \notin defined \/ AttributesMatch("seed")) /\ Return(FALSE)
  /\ UNCHANGED <<tpm, setup, drawn, given, seeded, losses>>

\* tpm2_fuse_trusty_seed: draw, define, write, lock, read back
DefineSeed ==
  /\ pc = "seed_define"
  /\ \/ /\ Works(~owner /\ "seed" \notin defined) /\ Goto("seed_write")
        /\ defined' = defined \cup {"seed"}
        /\ drawn' = drawn + 1
        /\ UNCHANGED <<written, wlocked, rlocked, seed, bl, owner>>
     \/ Fails(~owner /\ "seed" \notin defined) /\ Return(FALSE) /\ UNCHANGED <<tpm, drawn>>
  /\ UNCHANGED <<setup, given, seeded, losses>>

WriteSeed ==
  /\ pc = "seed_write"
  /\ \/ /\ Works(Writable("seed")) /\ Goto("seed_lock")
        /\ written' = written \cup {"seed"}
        /\ seed' = drawn
        /\ UNCHANGED <<defined, wlocked, rlocked, bl, owner>>
     \/ Fails(Writable("seed")) /\ Return(FALSE) /\ UNCHANGED tpm
  /\ UNCHANGED <<setup, drawn, given, seeded, losses>>

LockSeed ==
  /\ pc = "seed_lock"
  /\ \/ /\ Works("seed" \in defined) /\ Goto("seed_verify")
        /\ wlocked' = wlocked \cup {"seed"}
        /\ UNCHANGED <<defined, written, rlocked, seed, bl, owner>>
     \/ Fails("seed" \in defined) /\ Return(FALSE) /\ UNCHANGED tpm
  /\ UNCHANGED <<setup, drawn, given, seeded, losses>>

VerifySeed ==
  /\ pc = "seed_verify"
  /\ \/ Works(Readable("seed")) /\ Return(TRUE)
     \/ Fails(Readable("seed")) /\ Return(FALSE)
  /\ UNCHANGED <<tpm, setup, drawn, given, seeded, losses>>

----------------------------------------------------------------------------
(* The boot after tpm2_init *)

\* A first write of a part of an index leaves its other bytes erased (all ones).
Erased == MaxRollback + 1

\* write_device_state_tpm2, as set_current_state uses it
StateWritten(s) ==
  /\ written' = written \cup {"boot"}
  /\ bl' = [lock |-> s, rollback |-> IF "boot" \in written THEN bl.rollback ELSE Erased]
  /\ state' = s
  /\ UNCHANGED <<defined, wlocked, rlocked, seed, owner>>

\* device_need_locked: the bootloader index is not defined.
NeedLock == "boot" \notin defined

\* efi_main sets the default state of the build, and ignores the result.
DefaultState ==
  /\ pc = "default" /\ pc' = "read"
  /\ \/ /\ build = "userdebug" \/ NeedLock
        /\ \/ /\ Works(Writable("boot"))
              /\ StateWritten(IF build = "userdebug" THEN "unlocked" ELSE "locked")
           \/ Fails(Writable("boot")) /\ UNCHANGED <<tpm, state>>
     \/ build = "user" /\ Fails(NeedLock) /\ UNCHANGED <<tpm, state>>
  /\ UNCHANGED <<setup, caller, failed, drawn, given, seeded, losses>>

\* get_current_state: a state that cannot be read is the one the build assumes; with
\* no index at all it stays unknown and the device is provisioning.
GetState ==
  \/ state # "unknown" /\ UNCHANGED <<state, errors>>
  \/ state = "unknown" /\ Works(Readable("boot")) /\ state' = bl.lock
  \/ state = "unknown" /\ Works("boot" \notin defined) /\ UNCHANGED state
  \/ /\ state = "unknown" /\ Fails(Readable("boot") \/ "boot" \notin defined)
     /\ state' = IF build = "user" THEN "locked" ELSE "unlocked"

\* A user build that is provisioning stays in fastboot.  An image of the EFI partition
\* (ESP_BOOTIMAGE) is neither verified nor preceded by Trusty.
ReadState ==
  /\ pc = "read" /\ GetState
  /\ \/ pc' = "fastboot"
     \/ /\ pc' \in {"verify", "end"} /\ caller = "init" /\ ~failed
        /\ state' # "unknown" \/ build = "userdebug"
  /\ UNCHANGED <<tpm, setup, caller, failed, drawn, given, seeded, losses>>

\* read_rollback_index: an index that is not defined counts as zero.
Stored == IF "boot" \in defined THEN bl.rollback ELSE 0

\* avb_slot_verify of images with rollback index r; allow stands for
\* AVB_SLOT_VERIFY_FLAGS_ALLOW_VERIFICATION_ERROR.
Verified(r, allow) ==
  ("boot" \in defined => Readable("boot")) /\ (r < Stored => allow)

\* avb_ab_flow, r the smallest rollback index of the slots that verified: it stores r
\* when that is another value than the stored one, and not zero.
FlowWorks(r, allow) == Verified(r, allow) /\ (r \in {0, Stored} \/ Writable("boot"))
FlowStores(r) == bl' = IF r \in {0, Stored} THEN bl ELSE [bl EXCEPT !.rollback = r]

\* A flow that fails may have stored the index before the slot metadata.
FlowFails(r, allow) ==
  /\ Fails(FlowWorks(r, allow))
  /\ UNCHANGED bl \/ (FlowWorks(r, allow) /\ FlowStores(r))

\* (mutant of VerifyImage: an image that fails to verify is allowed whatever the state)
VerifyImageAnyState(r) ==
  /\ pc = "verify"
  /\ \/ Works(FlowWorks(r, TRUE)) /\ FlowStores(r) /\ Goto("trusty")
     \/ FlowFails(r, TRUE) /\ Goto("failed")
  /\ UNCHANGED <<nv, seed, owner, setup, drawn, given, seeded, losses>>

\* Verified boot of a slot, or of the recovery image, which stores nothing; an unlocked
\* device allows verification errors.
VerifyImage(r) ==
  /\ pc = "verify"
  /\ \/ Works(FlowWorks(r, state = "unlocked")) /\ FlowStores(r) /\ Goto("trusty")
     \/ Works(Verified(r, state = "unlocked")) /\ UNCHANGED bl /\ Goto("trusty")
     \/ FlowFails(r, state = "unlocked") /\ Goto("failed")
  /\ UNCHANGED <<nv, seed, owner, setup, drawn, given, seeded, losses>>

\* slot_get_active, when the active slot is not known yet: for the recovery image, after
\* an image could not be loaded, for a fastboot variable.  It runs the flow and allows
\* verification errors whatever the device state.
SlotGetActive(r) ==
  /\ pc \in {"verify", "failed", "fastboot"}
  /\ (Works(FlowWorks(r, TRUE)) /\ FlowStores(r)) \/ FlowFails(r, TRUE)
  /\ UNCHANGED <<nv, seed, owner, setup, pc, caller, failed, state, drawn, given, seeded, losses>>

\* The end of efi_main: a restart, or bootloader_recover_mode.
Recover ==
  /\ pc = "failed" /\ (Goto("off") \/ Goto("fastboot"))
  /\ UNCHANGED <<tpm, setup, drawn, given, seeded, losses, errors>>

\* (mutant of StartTrusty: a seed that could not be read is passed on as zeroes)
StartTrustyUnchecked ==
  /\ pc = "trusty" /\ Goto("end") /\ UNCHANGED seeded
  /\ \/ Works(Readable("seed")) /\ given' = given \cup {seed}
     \/ Fails(Readable("seed")) /\ given' = given \cup {0}
  /\ rlocked' = rlocked \cup ({"seed"} \cap defined)
  /\ UNCHANGED <<defined, written, wlocked, seed, bl, owner, setup, drawn, losses>>

\* start_tos_image, with tpm2_read_trusty_seed: the seed is read-locked even when it could
\* not be read, and Trusty starts only when both commands worked.  Without a memory map
\* the seed is not asked for, Trusty is not started, and yet success is returned.
StartTrusty ==
  /\ pc = "trusty"
  /\ \/ /\ Works(Readable("seed")) /\ Goto("end")
        /\ rlocked' = rlocked \cup {"seed"}
        /\ given' = given \cup {seed} /\ seeded' = TRUE
     \/ /\ Fails(Readable("seed")) /\ Goto("off")
        /\ rlocked' \in {rlocked, rlocked \cup ({"seed"} \cap defined)}
        /\ UNCHANGED <<given, seeded>>
     \/ Goto("end") /\ UNCHANGED <<rlocked, given, seeded, errors>>
  /\ UNCHANGED <<defined, written, wlocked, seed, bl, owner, setup, drawn, losses>>

\* The locks tpm2_end asks for
Locks == {<<"read", "seed">>, <<"read", "boot">>, <<"write", "boot">>}

\* (mutant of EndTpm: the bootloader index stays writable)
EndTpmWritable ==
  /\ pc = "end" /\ Goto("os")
  /\ rlocked' = rlocked \cup (defined \cap {"seed", "boot"})
  /\ UNCHANGED <<defined, written, wlocked, seed, bl, owner, setup, drawn, given, seeded, losses,
                 errors>>

\* tpm2_end: three locks whose results are ignored; then the image is started.
EndTpm ==
  /\ pc = "end" /\ Goto("os")
  /\ \E missed \in SUBSET Locks :
       /\ errors' = errors + Cardinality(missed) /\ errors' <= MaxErrors
       /\ rlocked' = rlocked \cup {i \in defined : <<"read", i>> \in Locks \ missed}
       /\ wlocked' = wlocked \cup {i \in defined : <<"write", i>> \in Locks \ missed}
  /\ UNCHANGED <<defined, written, seed, bl, owner, setup, drawn, given, seeded, losses>>

----------------------------------------------------------------------------
(* Fastboot commands *)

InFastboot == pc = "fastboot"

\* flashing lock and unlock (change_device_state); unlocking first clears the rollback
\* index, unless it cannot be read.
ChangeState(s) ==
  /\ InFastboot /\ state # s
  /\ \/ s = "locked" /\ Goto("lock") /\ UNCHANGED <<bl, errors>>
     \/ /\ s = "unlocked" /\ Works(Readable("boot") /\ Writable("boot"))
        /\ Goto("unlock") /\ bl' = [bl EXCEPT !.rollback = 0]
     \/ s = "unlocked" /\ Fails(Readable("boot")) /\ Goto("unlock") /\ UNCHANGED bl
     \/ /\ s = "unlocked" /\ Readable("boot") /\ Fails(Writable("boot"))
        /\ Goto("fastboot") /\ UNCHANGED bl
  /\ UNCHANGED <<nv, seed, owner, setup, drawn, given, seeded, losses>>

StoreState ==
  /\ pc \in {"lock", "unlock"} /\ pc' = "fastboot"
  /\ \/ /\ Works(Writable("boot"))
        /\ StateWritten(IF pc = "lock" THEN "locked" ELSE "unlocked")
     \/ Fails(Writable("boot")) /\ UNCHANGED <<tpm, state>>
  /\ UNCHANGED <<setup, caller, failed, drawn, given, seeded, losses>>

\* tpm2_delete_index
Delete(i) ==
  /\ defined' = defined \ {i} /\ written' = written \ {i}
  /\ wlocked' = wlocked \ {i} /\ rlocked' = rlocked \ {i}
  /\ given' = IF i = "seed" THEN {} ELSE given
  /\ UNCHANGED <<seed, bl, owner>>

\* oem tpm-delete-index, in every build but user
DeleteIndex(i) ==
  /\ InFastboot /\ state # "unknown" /\ build = "userdebug" /\ drawn < MaxSeeds
  /\ ~owner /\ i \in defined
  /\ Delete(i)
  /\ UNCHANGED <<setup, pc, caller, failed, state, drawn, seeded, losses, errors>>

\* tpm2_fuse_provision_seed
ProvisionSeed ==
  /\ InFastboot /\ state = "unlocked" /\ secure /\ drawn < MaxSeeds
  /\ \/ /\ Works(~owner) /\ Delete("seed")
        /\ pc' = "seed_define" /\ caller' = "command"
     \/ Fails(~owner) /\ UNCHANGED <<tpm, given, pc, caller>>
  /\ UNCHANGED <<setup, failed, state, drawn, seeded, losses>>

\* (mutant of LockOwner: the device state is not read first)
LockOwnerUnread ==
  /\ InFastboot /\ state = "unlocked" /\ ~owner
  /\ secure /\ (\A i \in Index : AttributesMatch(i))
  /\ owner' = TRUE
  /\ UNCHANGED <<nv, seed, bl, setup, pc, caller, failed, state, drawn, given, seeded, losses, errors>>

\* tpm2_fuse_lock_owner
LockOwner ==
  /\ InFastboot /\ state = "unlocked" /\ ~owner
  /\ secure /\ (\A i \in Index : AttributesMatch(i)) /\ Readable("boot")
  /\ owner' = TRUE
  /\ UNCHANGED <<nv, seed, bl, setup, pc, caller, failed, state, drawn, given, seeded, losses, errors>>

\* 'fastboot boot' on an unlocked device: the flow only has to find parameters for the
\* image, and may fail.
FastbootBoot(r) ==
  /\ InFastboot /\ state = "unlocked" /\ Goto("trusty")
  /\ (Works(FlowWorks(r, TRUE)) /\ FlowStores(r)) \/ FlowFails(r, TRUE)
  /\ UNCHANGED <<nv, seed, owner, setup, drawn, given, seeded, losses>>

\* oem set-storage runs tpm2_init again.
SetStorage ==
  /\ InFastboot /\ state # "unknown"
  /\ pc' = "boot_public" /\ caller' = "storage"
  /\ UNCHANGED <<tpm, setup, failed, state, drawn, given, seeded, losses, errors>>

Reboot ==
  /\ pc \in {"os", "fastboot"} /\ Goto("off")
  /\ UNCHANGED <<tpm, setup, drawn, given, seeded, losses, errors>>

PowerLoss ==
  /\ pc # "off" /\ losses < MaxLosses /\ losses' = losses + 1 /\ Goto("off")
  /\ UNCHANGED <<tpm, setup, drawn, given, seeded, errors>>

Next ==
  \/ PowerOn \/ CheckBootloader \/ CheckVersion
  \/ DefineBootloader \/ WriteBootloader \/ VerifyBootloader
  \/ CheckSeed \/ DefineSeed \/ WriteSeed \/ LockSeed \/ VerifySeed
  \/ DefaultState \/ ReadState
  \/ \E r \in 0 .. MaxRollback : VerifyImage(r) \/ SlotGetActive(r) \/ FastbootBoot(r)
  \/ Recover \/ StartTrusty \/ EndTpm
  \/ \E s \in {"locked", "unlocked"} : ChangeState(s)
  \/ StoreState
  \/ \E i \in Index : DeleteIndex(i)
  \/ ProvisionSeed \/ LockOwner \/ SetStorage \/ Reboot \/ PowerLoss

Spec == Init /\ [][Next]_vars

----------------------------------------------------------------------------
(* Properties *)

PCs == {"off", "boot_public", "boot_version", "boot_define", "boot_write", "boot_verify",
        "seed_public", "seed_define", "seed_write", "seed_lock", "seed_verify", "default",
        "read", "verify", "failed", "trusty", "end", "os", "fastboot", "lock", "unlock"}

\* Types of the variables; only an index that is defined has been written.
TypeOK ==
  /\ defined \subseteq Index /\ written \subseteq defined
  /\ wlocked \subseteq Index /\ rlocked \subseteq Index
  /\ seed \in Nat /\ drawn \in Nat /\ given \subseteq Nat
  /\ bl \in [lock : {"locked", "unlocked"}, rollback : 0 .. Erased]
  /\ owner \in BOOLEAN /\ secure \in BOOLEAN /\ failed \in BOOLEAN /\ seeded \in BOOLEAN
  /\ build \in {"user", "userdebug"} /\ caller \in {"init", "storage", "command"}
  /\ pc \in PCs /\ state \in {"unknown", "locked", "unlocked"}
  /\ losses \in 0 .. MaxLosses /\ errors \in 0 .. MaxErrors

\* Every start of Trusty gets the same seed until the seed index is deleted by a command:
\* power losses and TPM errors in tpm2_init, in tpm2_fuse_trusty_seed or in
\* tpm2_read_trusty_seed may keep Trusty from starting, they never give it another seed.
SeedNeverChanges == \A a, b \in given : a = b

\* An image that runs after Trusty got the seed can no longer read it, whatever failed
\* before: the read lock of tpm2_read_trusty_seed is checked.  Any other image (of the EFI
\* partition, or after a start_tos_image without a memory map) depends on tpm2_end: when
\* no TPM command failed, the indexes there are are locked for it too.
LockedForTheOs ==
  pc = "os" =>
    /\ seeded => "seed" \in rlocked
    /\ errors = 0 => /\ defined \cap {"seed", "boot"} \subseteq rlocked
                     /\ defined \cap {"boot"} \subseteq wlocked

\* tpm2_fuse_lock_owner takes the owner hierarchy, for ever, only of a device whose
\* indexes are all defined and whose lock state can be read; no later command, boot or
\* power loss takes them away.
OwnerKeepsIndexes ==
  owner => defined = Index /\ "boot" \in written

MayLower ==
  \/ state = "unlocked" \/ pc' = "unlock"
  \/ \E r \in 0 .. MaxRollback : SlotGetActive(r)

\* What the TPM holds of the rollback index goes down only on an unlocked device, by an
\* unlock, or where slot_get_active runs avb_ab_flow for the name of the slot; by no image
\* that a locked device starts, and by no tpm2_init that finds the index written, after
\* however many power losses.
RollbackHolds ==
  [][/\ bl.rollback' < bl.rollback /\ "boot" \in written
     => MayLower]_vars
=============================================================================
