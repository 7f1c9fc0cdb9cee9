---------------------------- MODULE TrustyProofs ----------------------------
(***************************************************************************)
(* Proofs about what Trusty relies on: the seed that the TPM keeps for it  *)
(* (Tpm) and the root of trust that is handed over to it (Tipc).           *)
(*                                                                         *)
(* For any number of power losses, failing TPM commands, seeds and         *)
(* rollback indexes: Trusty gets one seed, no image that runs after it can *)
(* read that seed, a locked owner hierarchy keeps every index, and no      *)
(* image a locked device starts lowers the rollback index.  For any number *)
(* of interrupted hypercalls and of failures of Trusty: the requests are      *)
(* carried out once and in order, in pages that nobody has freed.          *)
(***************************************************************************)
EXTENDS Tpm, Tipc, FiniteSetTheorems, TLAPS

-----------------------------------------------------------------------------
(* The TPM *)

\* What a step outside the last ones of a boot has to keep: a seed that was given is the
\* one the index holds, the step that writes a seed only runs on an index that was just
\* defined, and an owner hierarchy that is locked keeps the indexes.
SeedInv ==
  /\ defined \subseteq Index /\ written \subseteq defined
  /\ errors \in Nat
  /\ given # {} => "seed" \in written /\ given = {seed}
  /\ pc = "seed_write" => "seed" \notin written
  /\ OwnerKeepsIndexes

\* The inductive invariant: moreover the seed is locked once Trusty got it, and nothing
\* but the image runs after that.
IInv ==
  /\ SeedInv
  /\ seeded => "seed" \in rlocked /\ pc \in {"end", "os", "off"}
  /\ LockedForTheOs

LEMMA InitIInv == Init => IInv
BY DEF Init, IInv, SeedInv, Index, LockedForTheOs, OwnerKeepsIndexes

\* Only tpm2_end leads on to the image, and only start_tos_image gives the seed away.
LEMMA OtherPlaces ==
  ASSUME IInv, SeedInv', pc \notin {"end", "os", "off"}, UNCHANGED seeded, pc' # "os"
  PROVE  IInv'
BY Zenon DEF IInv, LockedForTheOs

\* The steps that only read the TPM, or store a rollback index.
LEMMA ReadSteps ==
  ASSUME IInv,
         \/ CheckBootloader \/ CheckVersion \/ VerifyBootloader \/ CheckSeed \/ VerifySeed
         \/ ReadState \/ Recover
         \/ \E r \in 0 .. MaxRollback : VerifyImage(r) \/ SlotGetActive(r) \/ FastbootBoot(r)
         \/ \E s \in {"locked", "unlocked"} : ChangeState(s)
         \/ SetStorage
  PROVE  IInv'
<1>1. UNCHANGED <<defined, written, seed, owner, given, seeded>>
  BY Zenon DEF CheckBootloader, CheckVersion, VerifyBootloader, CheckSeed, VerifySeed, ReadState,
     Recover, VerifyImage, SlotGetActive, FastbootBoot, ChangeState, SetStorage, nv, tpm
<1>2. errors' \in {errors, errors + 1}
  <2>1. CASE CheckBootloader \/ CheckVersion \/ VerifyBootloader \/ CheckSeed \/ VerifySeed
    BY <2>1, ZenonT(60) DEF CheckBootloader, CheckVersion, VerifyBootloader, CheckSeed, VerifySeed,
       Works, Fails
  <2>2. CASE ReadState
    BY <2>2, Zenon DEF ReadState, GetState, Works, Fails
  <2>3. CASE \E r \in 0 .. MaxRollback : VerifyImage(r) \/ SlotGetActive(r) \/ FastbootBoot(r)
    BY <2>3, Zenon DEF VerifyImage, SlotGetActive, FastbootBoot, FlowFails, Works, Fails
  <2>4. CASE \E s \in {"locked", "unlocked"} : ChangeState(s)
    BY <2>4, Zenon DEF ChangeState, Works, Fails
  <2>5. CASE SetStorage \/ Recover
    BY <2>5, Zenon DEF SetStorage, Recover
  <2> QED
    BY <2>1, <2>2, <2>3, <2>4, <2>5, Zenon
<1>3. pc \notin {"end", "os", "off"} /\ pc' \notin {"seed_write", "os"}
  BY ZenonT(60) DEF CheckBootloader, CheckVersion, VerifyBootloader, CheckSeed, VerifySeed, ReadState,
     Recover, VerifyImage, SlotGetActive, FastbootBoot, ChangeState, SetStorage, InFastboot, Goto,
     Return
<1>4. SeedInv'
  BY <1>1, <1>2, <1>3 DEF IInv, SeedInv, OwnerKeepsIndexes
<1> QED
  BY <1>1, <1>3, <1>4, OtherPlaces, Zenon

\* The steps that define, write and lock an index.
LEMMA WriteSteps ==
  ASSUME IInv,
         \/ DefineBootloader \/ WriteBootloader \/ DefineSeed \/ WriteSeed \/ LockSeed
         \/ DefaultState \/ StoreState
  PROVE  IInv'
<1>0. UNCHANGED <<seeded, owner, given>> /\ pc \notin {"end", "os", "off"} /\ pc' # "os"
  BY ZenonT(60) DEF DefineBootloader, WriteBootloader, DefineSeed, WriteSeed, LockSeed, DefaultState,
     StoreState, StateWritten, Goto, Return, tpm
<1>1. CASE DefineBootloader
  <2>1. /\ defined' \in {defined, defined \cup {"boot"}}
        /\ UNCHANGED <<written, seed>>
        /\ errors' \in Nat /\ pc' # "seed_write"
    BY <1>1 DEF IInv, SeedInv, DefineBootloader, Works, Fails, Goto, Return, nv, tpm
  <2> QED
    BY <1>0, <2>1, OtherPlaces, Zenon DEF IInv, SeedInv, OwnerKeepsIndexes, Index
<1>2. CASE WriteBootloader \/ DefaultState \/ StoreState
  <2>1. /\ written' = written \/ (written' = written \cup {"boot"} /\ "boot" \in defined)
        /\ UNCHANGED <<defined, seed>>
        /\ errors' \in Nat /\ pc' # "seed_write"
    <3>1. errors' \in {errors, errors + 1} /\ UNCHANGED <<defined, seed>> /\ pc' # "seed_write"
      BY <1>2, ZenonT(60) DEF WriteBootloader, DefaultState, StoreState, StateWritten,
         Works, Fails, Goto, Return, nv, tpm
    <3>2. written' = written \/ (written' = written \cup {"boot"} /\ "boot" \in defined)
      BY <1>2, ZenonT(60) DEF WriteBootloader, DefaultState, StoreState, StateWritten,
         Writable, Works, Fails, Goto, Return, nv, tpm
    <3>3. errors' \in Nat
      BY <3>1 DEF IInv, SeedInv
    <3> QED BY <3>1, <3>2, <3>3, Zenon
  <2> QED
    BY <1>0, <2>1, OtherPlaces, ZenonT(60) DEF IInv, SeedInv, OwnerKeepsIndexes
<1>3. CASE DefineSeed
  <2>1. /\ \/ UNCHANGED defined /\ pc' # "seed_write"
           \/ defined' = defined \cup {"seed"} /\ "seed" \notin defined
        /\ UNCHANGED <<written, seed>>
        /\ errors' \in Nat
    BY <1>3 DEF IInv, SeedInv, DefineSeed, Works, Fails, Goto, Return, nv, tpm
  <2> QED
    BY <1>0, <2>1, OtherPlaces, Zenon DEF IInv, SeedInv, OwnerKeepsIndexes, Index
<1>4. CASE WriteSeed
  <2>1. /\ written' = written \/ (written' = written \cup {"seed"} /\ "seed" \in defined)
        /\ UNCHANGED defined /\ given = {}
        /\ errors' \in Nat /\ pc' # "seed_write"
    BY <1>4 DEF IInv, SeedInv, WriteSeed, Writable, Works, Fails, Goto, Return, nv, tpm
  <2> QED
    BY <1>0, <2>1, OtherPlaces, Zenon DEF IInv, SeedInv, OwnerKeepsIndexes
<1>5. CASE LockSeed
  <2>1. /\ UNCHANGED <<defined, written, seed>>
        /\ errors' \in Nat /\ pc' # "seed_write"
    BY <1>5 DEF IInv, SeedInv, LockSeed, Works, Fails, Goto, Return, nv, tpm
  <2> QED
    BY <1>0, <2>1, OtherPlaces, Zenon DEF IInv, SeedInv, OwnerKeepsIndexes
<1> QED
  BY <1>1, <1>2, <1>3, <1>4, <1>5, Zenon

\* The commands on the indexes and on the owner.
LEMMA CommandSteps ==
  ASSUME IInv, (\E i \in Index : DeleteIndex(i)) \/ ProvisionSeed \/ LockOwner
  PROVE  IInv'
<1>0. UNCHANGED seeded /\ pc = "fastboot" /\ pc' \in {"fastboot", "seed_define"}
  BY Zenon DEF DeleteIndex, ProvisionSeed, LockOwner, InFastboot
<1>1. ASSUME NEW i \in Index, Delete(i), ~owner, errors' \in Nat
      PROVE  IInv'
  BY <1>0, <1>1, OtherPlaces, Zenon DEF Delete, IInv, SeedInv, OwnerKeepsIndexes
<1>2. CASE \E i \in Index : DeleteIndex(i)
  BY <1>1, <1>2, Zenon DEF DeleteIndex, IInv, SeedInv
<1>3. CASE ProvisionSeed
  <2>1. CASE Delete("seed") /\ ~owner /\ UNCHANGED errors
    BY <1>1, <2>1, Zenon DEF IInv, SeedInv, Index
  <2>2. CASE Fails(~owner) /\ UNCHANGED <<tpm, given>>
    <3>1. SeedInv'
      BY <1>0, <2>2 DEF Fails, nv, tpm, IInv, SeedInv, OwnerKeepsIndexes
    <3> QED
      BY <1>0, <3>1, OtherPlaces, Zenon
  <2> QED
    BY <1>3, <2>1, <2>2, Zenon DEF ProvisionSeed, Works
<1>4. CASE LockOwner
  <2>1. defined = Index /\ "boot" \in written
    BY <1>4, Zenon DEF LockOwner, AttributesMatch, Readable, IInv, SeedInv
  <2> QED
    BY <1>0, <1>4, <2>1, OtherPlaces, Zenon DEF LockOwner, nv, IInv, SeedInv, OwnerKeepsIndexes
<1> QED
  BY <1>2, <1>3, <1>4, Zenon

\* The restart of the TPM and the last steps of a boot.
LEMMA BootSteps ==
  ASSUME IInv, PowerOn \/ StartTrusty \/ EndTpm \/ Reboot \/ PowerLoss
  PROVE  IInv'
<1>1. CASE PowerOn
  BY <1>1, Zenon DEF PowerOn, IInv, SeedInv, LockedForTheOs, OwnerKeepsIndexes
<1>2. CASE StartTrusty
  <2>1. /\ UNCHANGED <<defined, written, seed, owner>> /\ errors' \in Nat
        /\ pc' \in {"end", "off"} /\ ~seeded
    BY <1>2 DEF IInv, SeedInv, StartTrusty, Works, Fails, Goto
  <2>2. \/ "seed" \in written /\ "seed" \in rlocked' /\ given' = given \cup {seed}
        \/ UNCHANGED given /\ ~seeded'
    BY <1>2, <2>1 DEF StartTrusty, Works, Readable
  <2>3. given' # {} => "seed" \in written' /\ given' = {seed'}
    BY <2>1, <2>2, Zenon DEF IInv, SeedInv
  <2>4. SeedInv'
    BY <2>1, <2>3, Zenon DEF IInv, SeedInv, OwnerKeepsIndexes
  <2> QED
    BY <2>1, <2>2, <2>4, Zenon DEF IInv, LockedForTheOs
<1>3. CASE EndTpm
  <2>1. PICK missed \in SUBSET Locks :
          /\ errors' = errors + Cardinality(missed)
          /\ rlocked' = rlocked \cup {i \in defined : <<"read", i>> \in Locks \ missed}
          /\ wlocked' = wlocked \cup {i \in defined : <<"write", i>> \in Locks \ missed}
    BY <1>3, Zenon DEF EndTpm
  <2>2. IsFiniteSet(Locks)
    <3>1. /\ IsFiniteSet({} \cup {<<"read", "seed">>})
          /\ IsFiniteSet({} \cup {<<"read", "seed">>} \cup {<<"read", "boot">>})
          /\ IsFiniteSet({} \cup {<<"read", "seed">>} \cup {<<"read", "boot">>} \cup {<<"write", "boot">>})
      BY FS_EmptySet, FS_AddElement, Zenon
    <3>2. Locks = {} \cup {<<"read", "seed">>} \cup {<<"read", "boot">>} \cup {<<"write", "boot">>}
      BY Zenon DEF Locks
    <3> QED
      BY <3>1, <3>2, Zenon
  <2>3. Cardinality(missed) \in Nat /\ (Cardinality(missed) = 0 => missed = {})
    <3>1. IsFiniteSet(missed)
      BY <2>2, FS_Subset, Zenon
    <3> QED
      BY <3>1, FS_CardinalityType, FS_EmptySet, Zenon
  <2>4. errors' \in Nat /\ (errors' = 0 => missed = {})
    BY <2>1, <2>3 DEF IInv, SeedInv
  <2>5. pc = "end" /\ pc' = "os" /\ UNCHANGED <<defined, written, seed, owner, given, seeded>>
    BY <1>3, Zenon DEF EndTpm, Goto
  <2>6. LockedForTheOs'
    <3>1. seeded' => "seed" \in rlocked'
      BY <2>1, <2>5, Zenon DEF IInv
    <3>2. ASSUME errors' = 0
          PROVE  /\ (defined \cap {"seed", "boot"})' \subseteq rlocked'
                 /\ (defined \cap {"boot"})' \subseteq wlocked'
      BY <2>1, <2>4, <2>5, <3>2, Zenon DEF Locks
    <3> QED
      BY <3>1, <3>2, Zenon DEF LockedForTheOs
  <2> QED
    BY <2>1, <2>4, <2>5, <2>6, Zenon DEF IInv, SeedInv, OwnerKeepsIndexes
<1>4. CASE Reboot \/ PowerLoss
  <2>1. pc' = "off" /\ UNCHANGED <<defined, written, rlocked, seed, owner, given, seeded, errors>>
    BY <1>4, Zenon DEF Reboot, PowerLoss, Goto, nv, tpm
  <2>2. SeedInv'
    BY <2>1, Zenon DEF IInv, SeedInv, OwnerKeepsIndexes
  <2> QED
    BY <2>1, <2>2, Zenon DEF IInv, LockedForTheOs
<1> QED
  BY <1>1, <1>2, <1>3, <1>4, Zenon

LEMMA Invariance == Spec => []IInv
<1>1. IInv /\ [Next]_vars => IInv'
  <2> SUFFICES ASSUME IInv, [Next]_vars PROVE IInv'
    BY Zenon
  <2>1. CASE Next
    BY <2>1, ReadSteps, WriteSteps, CommandSteps, BootSteps, Zenon DEF Next
  <2>2. CASE UNCHANGED vars
    BY <2>2, Zenon DEF vars, IInv, SeedInv, LockedForTheOs, OwnerKeepsIndexes
  <2> QED
    BY <2>1, <2>2, Zenon
<1> QED
  BY <1>1, InitIInv, PTL DEF Spec

\* Trusty gets one seed: whatever power losses, TPM errors and boots there are, every
\* seed tpm2_read_trusty_seed returns until the index is deleted is the same.
THEOREM OneSeed == Spec => []SeedNeverChanges
<1>1. IInv => SeedNeverChanges
  BY Zenon DEF IInv, SeedInv, SeedNeverChanges
<1> QED
  BY <1>1, Invariance, PTL

\* An image that runs after Trusty got the seed finds the seed locked; one that runs without
\* Trusty finds the indexes locked when no TPM command failed.
THEOREM OsIsLockedOut == Spec => []LockedForTheOs
<1>1. IInv => LockedForTheOs
  BY Zenon DEF IInv
<1> QED
  BY <1>1, Invariance, PTL

\* After tpm2_fuse_lock_owner every index stays defined, and the lock state written.
THEOREM OwnerLockIsFinal == Spec => []OwnerKeepsIndexes
<1>1. IInv => OwnerKeepsIndexes
  BY Zenon DEF IInv, SeedInv
<1> QED
  BY <1>1, Invariance, PTL

----------------------------------------------------------------------------
(* Types, and the rollback index *)

\* The types of what the TPM holds, of the place in the boot, and of the flags.
NvType ==
  /\ defined \subseteq Index /\ written \subseteq defined
  /\ wlocked \subseteq Index /\ rlocked \subseteq Index
  /\ seed \in Nat /\ drawn \in Nat /\ given \subseteq Nat
  /\ bl \in [lock : {"locked", "unlocked"}, rollback : 0 .. Erased]
  /\ losses \in 0 .. MaxLosses /\ errors \in 0 .. MaxErrors

BootType ==
  /\ pc \in PCs /\ caller \in {"init", "storage", "command"}
  /\ state \in {"unknown", "locked", "unlocked"} /\ build \in {"user", "userdebug"}

FlagType ==
  owner \in BOOLEAN /\ secure \in BOOLEAN /\ failed \in BOOLEAN /\ seeded \in BOOLEAN

LEMMA TypeParts ==
  /\ TypeOK <=> NvType /\ BootType /\ FlagType
  /\ TypeOK' <=> NvType' /\ BootType' /\ FlagType'
BY Zenon DEF TypeOK, NvType, BootType, FlagType

LEMMA TypeInit == Init => TypeOK
<1>1. Init => NvType
  BY TpmAssumption DEF Init, NvType, Index, Erased
<1>2. Init => BootType
  BY Zenon DEF Init, BootType, PCs
<1>3. Init => FlagType
  BY Zenon DEF Init, FlagType
<1> QED
  BY <1>1, <1>2, <1>3, TypeParts, Zenon

LEMMA FlagStep ==
  ASSUME FlagType, Next
  PROVE  FlagType'
<1>1. UNCHANGED secure
  BY ZenonT(60) DEF Next, PowerOn, CheckBootloader, CheckVersion, DefineBootloader, WriteBootloader,
     VerifyBootloader, CheckSeed, DefineSeed, WriteSeed, LockSeed, VerifySeed, DefaultState,
     ReadState, VerifyImage, SlotGetActive, FastbootBoot, Recover, StartTrusty, EndTpm,
     ChangeState, StoreState, DeleteIndex,
     ProvisionSeed, LockOwner, SetStorage, Reboot, PowerLoss, setup
<1>2. owner' = owner \/ owner' = TRUE
  BY ZenonT(60) DEF Next, PowerOn, CheckBootloader, CheckVersion, DefineBootloader, WriteBootloader,
     VerifyBootloader, CheckSeed, DefineSeed, WriteSeed, LockSeed, VerifySeed, DefaultState,
     ReadState, VerifyImage, SlotGetActive, FastbootBoot, Recover, StartTrusty, EndTpm,
     ChangeState, StoreState, DeleteIndex,
     ProvisionSeed, LockOwner, SetStorage, Reboot, PowerLoss, Delete, StateWritten, tpm
<1>4. failed' = failed \/ failed' = FALSE \/ failed' = TRUE
  BY Zenon DEF Next, PowerOn, CheckBootloader, CheckVersion, DefineBootloader, WriteBootloader,
     VerifyBootloader, CheckSeed, DefineSeed, WriteSeed, LockSeed, VerifySeed, DefaultState,
     ReadState, VerifyImage, SlotGetActive, FastbootBoot, Recover, StartTrusty, EndTpm,
     ChangeState, StoreState, DeleteIndex,
     ProvisionSeed, LockOwner, SetStorage, Reboot, PowerLoss, Goto, Return
<1>5. failed' \in BOOLEAN
  BY <1>4, Zenon DEF FlagType
<1>6. seeded' = seeded \/ seeded' = TRUE \/ seeded' = FALSE
  BY ZenonT(60) DEF Next, PowerOn, CheckBootloader, CheckVersion, DefineBootloader, WriteBootloader,
     VerifyBootloader, CheckSeed, DefineSeed, WriteSeed, LockSeed, VerifySeed, DefaultState,
     ReadState, VerifyImage, SlotGetActive, FastbootBoot, Recover, StartTrusty, EndTpm, ChangeState,
     StoreState, DeleteIndex, ProvisionSeed, LockOwner, SetStorage, Reboot, PowerLoss
<1> QED
  BY <1>1, <1>2, <1>5, <1>6, ZenonT(60) DEF FlagType

\* Where Goto and Return lead.
LEMMA PlaceType ==
  ASSUME BootType, UNCHANGED build, (\E l \in PCs : Goto(l)) \/ (\E ok : Return(ok))
  PROVE  BootType'
BY Zenon DEF BootType, Goto, Return, PCs

LEMMA BootTypeStep ==
  ASSUME NvType, BootType, Next
  PROVE  BootType'
<1>0. UNCHANGED build
  BY Zenon DEF Next, PowerOn, CheckBootloader, CheckVersion, DefineBootloader, WriteBootloader,
     VerifyBootloader, CheckSeed, DefineSeed, WriteSeed, LockSeed, VerifySeed, DefaultState,
     ReadState, VerifyImage, SlotGetActive, FastbootBoot, Recover, StartTrusty, EndTpm,
     ChangeState, StoreState, DeleteIndex,
     ProvisionSeed, LockOwner, SetStorage, Reboot, PowerLoss, setup
<1>1. CASE \/ CheckBootloader \/ CheckVersion \/ DefineBootloader \/ WriteBootloader
           \/ VerifyBootloader \/ CheckSeed \/ DefineSeed \/ WriteSeed \/ LockSeed
           \/ VerifySeed \/ StartTrusty \/ EndTpm \/ Reboot \/ PowerLoss \/ Recover
           \/ (\E r \in 0 .. MaxRollback : VerifyImage(r) \/ FastbootBoot(r))
           \/ (\E s \in {"locked", "unlocked"} : ChangeState(s))
  <2>1. (\E l \in PCs : Goto(l)) \/ (\E ok : Return(ok))
    BY <1>1, Zenon DEF CheckBootloader, CheckVersion, DefineBootloader, WriteBootloader,
       VerifyBootloader, CheckSeed, DefineSeed, WriteSeed, LockSeed, VerifySeed,
       VerifyImage, FastbootBoot, Recover, StartTrusty, EndTpm, ChangeState, Reboot, PowerLoss, PCs
  <2> QED
    BY <1>0, <2>1, PlaceType, Zenon
<1>2. CASE PowerOn \/ SetStorage \/ LockOwner \/ ProvisionSeed
  BY <1>0, <1>2, Zenon DEF PowerOn, SetStorage, LockOwner, ProvisionSeed, BootType, PCs
<1>3. CASE (\E i \in Index : DeleteIndex(i)) \/ (\E r \in 0 .. MaxRollback : SlotGetActive(r))
  BY <1>0, <1>3, Zenon DEF DeleteIndex, SlotGetActive, BootType
<1>4. CASE DefaultState \/ StoreState
  BY <1>0, <1>4, Zenon DEF DefaultState, StoreState, StateWritten, BootType, PCs
<1>5. CASE ReadState
  <2>1. bl.lock \in {"locked", "unlocked"}
    BY Zenon DEF NvType
  <2> QED
    BY <1>0, <1>5, <2>1, Zenon DEF ReadState, GetState, BootType, PCs
<1> QED
  BY <1>1, <1>2, <1>3, <1>4, <1>5, Zenon DEF Next

\* The number of failing commands stays within its bound.
LEMMA ErrorCount ==
  ASSUME NvType, NEW cond, Works(cond) \/ Fails(cond)
  PROVE  errors' \in 0 .. MaxErrors
BY TpmAssumption DEF NvType, Works, Fails

LEMMA NvStep ==
  ASSUME NvType, BootType, IInv, Next
  PROVE  NvType'
<1>1. CASE \/ CheckBootloader \/ CheckVersion \/ VerifyBootloader \/ CheckSeed \/ VerifySeed
  <2>1. errors' \in 0 .. MaxErrors
    BY <1>1, ErrorCount, Zenon DEF CheckBootloader, CheckVersion, VerifyBootloader, CheckSeed, VerifySeed
  <2> QED
    BY <1>1, <2>1, Zenon DEF CheckBootloader, CheckVersion, VerifyBootloader, CheckSeed, VerifySeed,
       NvType, tpm, nv
<1>2. CASE DefineBootloader \/ DefineSeed
  <2>1. errors' \in 0 .. MaxErrors
    BY <1>2, ErrorCount, Zenon DEF DefineBootloader, DefineSeed
  <2>2. defined' \in {defined, defined \cup {"boot"}, defined \cup {"seed"}}
    BY <1>2, Zenon DEF DefineBootloader, DefineSeed, tpm, nv
  <2>3. drawn' \in {drawn, drawn + 1}
    BY <1>2, Zenon DEF DefineBootloader, DefineSeed
  <2>4. UNCHANGED <<written, wlocked, rlocked, seed, bl, given, losses>>
    BY <1>2, Zenon DEF DefineBootloader, DefineSeed, tpm, nv
  <2> QED
    BY <2>1, <2>2, <2>3, <2>4 DEF NvType, Index
<1>3. CASE WriteBootloader \/ WriteSeed \/ LockSeed
  <2>1. errors' \in 0 .. MaxErrors
    BY <1>3, ErrorCount, Zenon DEF WriteBootloader, WriteSeed, LockSeed
  <2>2. /\ written' \subseteq defined /\ wlocked' \subseteq Index /\ seed' \in Nat
        /\ UNCHANGED <<defined, rlocked, drawn, given, losses>>
    BY <1>3, Zenon DEF WriteBootloader, WriteSeed, LockSeed, Writable, Works, NvType, Index, tpm, nv
  <2>3. bl' = bl \/ bl' = [lock |-> "unlocked", rollback |-> 0]
    BY <1>3, Zenon DEF WriteBootloader, WriteSeed, LockSeed, tpm
  <2>4. bl' \in [lock : {"locked", "unlocked"}, rollback : 0 .. Erased]
    BY <2>3, TpmAssumption DEF NvType, Erased
  <2> QED
    BY <2>1, <2>2, <2>4, Zenon DEF NvType
<1>4. CASE DefaultState \/ StoreState
  <2>1. errors' \in 0 .. MaxErrors
    BY <1>4, ErrorCount, Zenon DEF DefaultState, StoreState
  <2>2. \/ UNCHANGED <<defined, written, wlocked, rlocked, seed, bl>>
        \/ \E s \in {"locked", "unlocked"} : StateWritten(s) /\ "boot" \in defined
    BY <1>4, Zenon DEF DefaultState, StoreState, Works, Writable, tpm, nv
  <2>3. UNCHANGED <<drawn, given, losses>>
    BY <1>4, Zenon DEF DefaultState, StoreState
  <2>4. ASSUME NEW s \in {"locked", "unlocked"}, StateWritten(s), "boot" \in defined
        PROVE  NvType'
    <3>1. bl' \in [lock : {"locked", "unlocked"}, rollback : 0 .. Erased]
      BY <2>4, TpmAssumption DEF StateWritten, NvType, Erased
    <3> QED
      BY <2>1, <2>3, <2>4, <3>1, Zenon DEF StateWritten, NvType
  <2> QED
    BY <2>1, <2>2, <2>3, <2>4, Zenon DEF NvType
<1>5. CASE ReadState
  <2>1. errors' \in 0 .. MaxErrors
    BY <1>5, ErrorCount, Zenon DEF ReadState, GetState, NvType
  <2> QED
    BY <1>5, <2>1, Zenon DEF ReadState, NvType, tpm, nv
<1>6. CASE \/ \E r \in 0 .. MaxRollback : VerifyImage(r) \/ SlotGetActive(r) \/ FastbootBoot(r)
           \/ \E s \in {"locked", "unlocked"} : ChangeState(s)
  <2>1. errors' \in 0 .. MaxErrors
    BY <1>6, ErrorCount, Zenon DEF VerifyImage, SlotGetActive, FastbootBoot, FlowFails, ChangeState, NvType
  <2>2. UNCHANGED <<defined, written, wlocked, rlocked, seed, drawn, given, losses>>
    BY <1>6, Zenon DEF VerifyImage, SlotGetActive, FastbootBoot, ChangeState, nv
  <2>3. bl' = bl \/ \E r \in 0 .. MaxRollback : bl' = [bl EXCEPT !.rollback = r]
    <3>1. ASSUME NEW r \in 0 .. MaxRollback, FlowStores(r)
          PROVE  bl' = bl \/ bl' = [bl EXCEPT !.rollback = r]
      BY <3>1, Zenon DEF FlowStores
    <3>2. CASE \E r \in 0 .. MaxRollback : VerifyImage(r) \/ SlotGetActive(r) \/ FastbootBoot(r)
      BY <3>1, <3>2, Zenon DEF VerifyImage, SlotGetActive, FastbootBoot, FlowFails
    <3>3. CASE \E s \in {"locked", "unlocked"} : ChangeState(s)
      <4>1. 0 \in 0 .. MaxRollback
        BY TpmAssumption
      <4> QED
        BY <3>3, <4>1, Zenon DEF ChangeState
    <3> QED
      BY <1>6, <3>2, <3>3, Zenon
  <2>4. bl' \in [lock : {"locked", "unlocked"}, rollback : 0 .. Erased]
    BY <2>3, TpmAssumption DEF NvType, Erased
  <2> QED
    BY <2>1, <2>2, <2>4, Zenon DEF NvType
<1>7. CASE StartTrusty
  <2>1. errors' \in 0 .. MaxErrors
    BY <1>7, ErrorCount, Zenon DEF StartTrusty, NvType
  <2> QED
    BY <1>7, <2>1, Zenon DEF StartTrusty, NvType, Index
<1>8. CASE EndTpm
  <2>1. errors' \in Nat
    BY <1>8, BootSteps, Zenon DEF IInv, SeedInv
  <2>2. errors' \in 0 .. MaxErrors
    BY <1>8, <2>1, TpmAssumption DEF EndTpm
  <2>3. rlocked' \subseteq rlocked \cup defined /\ wlocked' \subseteq wlocked \cup defined
    BY <1>8, Zenon DEF EndTpm
  <2> QED
    BY <1>8, <2>2, <2>3, Zenon DEF EndTpm, NvType
<1>9. CASE (\E i \in Index : DeleteIndex(i)) \/ ProvisionSeed
  <2>1. errors' \in 0 .. MaxErrors
    BY <1>9, ErrorCount, Zenon DEF DeleteIndex, ProvisionSeed, NvType
  <2>2. (\E i \in Index : Delete(i)) \/ UNCHANGED <<defined, written, wlocked, rlocked, seed, bl, given>>
    BY <1>9, Zenon DEF DeleteIndex, ProvisionSeed, Index, tpm, nv
  <2>3. UNCHANGED <<drawn, losses>>
    BY <1>9, Zenon DEF DeleteIndex, ProvisionSeed
  <2> QED
    BY <2>1, <2>2, <2>3, Zenon DEF NvType, Delete
<1>10. CASE PowerOn \/ Recover \/ LockOwner \/ SetStorage \/ Reboot \/ PowerLoss
  <2>1. /\ wlocked' \subseteq wlocked /\ rlocked' \in {rlocked, {}}
        /\ losses' = losses \/ (losses < MaxLosses /\ losses' = losses + 1)
    BY <1>10, Zenon DEF PowerOn, Recover, LockOwner, SetStorage, Reboot, PowerLoss, tpm, nv
  <2>2. UNCHANGED <<defined, written, seed, bl, drawn, given, errors>>
    BY <1>10, Zenon DEF PowerOn, Recover, LockOwner, SetStorage, Reboot, PowerLoss, tpm, nv
  <2> QED
    BY <2>1, <2>2, TpmAssumption DEF NvType
<1> QED
  BY <1>1, <1>2, <1>3, <1>4, <1>5, <1>6, <1>7, <1>8, <1>9, <1>10, Zenon DEF Next

\* The variables keep their types, for every value of the bounds.
THEOREM TypeCorrect == Spec => []TypeOK
<1>1. TypeOK /\ IInv /\ [Next]_vars => TypeOK'
  <2> SUFFICES ASSUME TypeOK, IInv, [Next]_vars PROVE TypeOK'
    BY Zenon
  <2>1. CASE Next
    BY <2>1, TypeParts, NvStep, BootTypeStep, FlagStep, Zenon
  <2>2. CASE UNCHANGED vars
    <3>1. NvType' /\ BootType'
      BY <2>2, TypeParts, Zenon DEF vars, NvType, BootType
    <3>2. FlagType'
      BY <2>2, TypeParts, Zenon DEF vars, FlagType
    <3> QED
      BY <3>1, <3>2, TypeParts, Zenon
  <2> QED
    BY <2>1, <2>2, Zenon
<1> QED
  BY <1>1, TypeInit, Invariance, PTL DEF Spec

\* The bootloader index is filled with its first contents only when it was just defined:
\* tpm2_fuse_bootloader never runs on an index that holds a state.
FreshIndex ==
  /\ pc = "boot_define" => "boot" \notin defined
  /\ pc = "boot_write" => "boot" \notin written

LEMMA FreshStep ==
  ASSUME TypeOK, FreshIndex, [Next]_vars
  PROVE  FreshIndex'
<1>1. CASE CheckBootloader
  BY <1>1, Zenon DEF CheckBootloader, FreshIndex, Works, Goto, Return, tpm, nv, TypeOK
<1>2. CASE DefineBootloader
  BY <1>2, Zenon DEF DefineBootloader, FreshIndex, Works, Goto, Return, tpm, nv, TypeOK
<1>3. CASE Next /\ ~CheckBootloader /\ ~DefineBootloader
  <2>1. pc' \notin {"boot_define", "boot_write"}
    <3>1. CASE \/ CheckVersion \/ WriteBootloader \/ VerifyBootloader \/ CheckSeed \/ DefineSeed
               \/ WriteSeed \/ LockSeed \/ VerifySeed \/ Recover \/ StartTrusty \/ EndTpm
               \/ Reboot \/ PowerLoss
      BY <3>1, Zenon DEF CheckVersion, WriteBootloader, VerifyBootloader, CheckSeed, DefineSeed,
         WriteSeed, LockSeed, VerifySeed, Recover, StartTrusty, EndTpm, Reboot, PowerLoss, Goto,
         Return
    <3>2. CASE \/ PowerOn \/ DefaultState \/ ReadState \/ StoreState \/ ProvisionSeed
               \/ LockOwner \/ SetStorage \/ (\E i \in Index : DeleteIndex(i))
      BY <3>2, Zenon DEF PowerOn, DefaultState, ReadState, StoreState, ProvisionSeed, LockOwner,
         SetStorage, DeleteIndex, InFastboot
    <3>3. CASE \/ \E r \in 0 .. MaxRollback : VerifyImage(r) \/ SlotGetActive(r) \/ FastbootBoot(r)
               \/ \E s \in {"locked", "unlocked"} : ChangeState(s)
      BY <3>3, Zenon DEF VerifyImage, SlotGetActive, FastbootBoot, ChangeState, Goto
    <3> QED
      BY <1>3, <3>1, <3>2, <3>3, Zenon DEF Next
  <2> QED
    BY <2>1, Zenon DEF FreshIndex
<1>4. CASE UNCHANGED vars
  BY <1>4, Zenon DEF vars, FreshIndex
<1> QED
  BY <1>1, <1>2, <1>3, <1>4, Zenon

\* No image that a locked device starts lowers what the TPM holds of the rollback index,
\* tpm2_init writes it only in a new index, and a change of the lock state keeps it.
THEOREM RollbackIsKept == Spec => RollbackHolds
<1>1. Init => FreshIndex
  BY Zenon DEF Init, FreshIndex
<1>2. ASSUME TypeOK, FreshIndex, [Next]_vars, bl.rollback' < bl.rollback, "boot" \in written,
             state # "unlocked", ~\E r \in 0 .. MaxRollback : SlotGetActive(r)
      PROVE  pc' = "unlock"
  <2>1. bl.rollback \in Nat
    BY <1>2, TypeParts, TpmAssumption DEF NvType, Erased
  <2>2. bl' # bl
    BY <1>2, <2>1
  <2>3. ~WriteBootloader
    BY <1>2, Zenon DEF WriteBootloader, FreshIndex
  <2>4. ASSUME NEW s, StateWritten(s) PROVE bl.rollback' = bl.rollback
    BY <1>2, <2>4, Zenon DEF StateWritten
  <2>5. ~DefaultState /\ ~StoreState
    BY <1>2, <2>1, <2>2, <2>4 DEF DefaultState, StoreState, tpm
  <2>6. ASSUME NEW r \in 0 .. MaxRollback, VerifyImage(r) PROVE FALSE
    <3>1. FlowWorks(r, FALSE) /\ FlowStores(r)
      BY <1>2, <2>2, <2>6, Zenon DEF VerifyImage, FlowFails, Works
    <3>2. "boot" \in defined
      BY <1>2, TypeParts, Zenon DEF NvType
    <3>3. ~(r < bl.rollback) /\ bl' = [bl EXCEPT !.rollback = r]
      BY <2>2, <3>1, <3>2 DEF FlowWorks, FlowStores, Verified, Stored
    <3>4. bl.rollback' = r
      BY <1>2, <3>3, TypeParts, Zenon DEF NvType
    <3> QED
      BY <1>2, <2>1, <3>3, <3>4
  <2>7. ~\E r \in 0 .. MaxRollback : FastbootBoot(r)
    BY <1>2, Zenon DEF FastbootBoot
  <2>8. \E s \in {"locked", "unlocked"} : ChangeState(s)
    BY <1>2, <2>2, <2>3, <2>5, <2>6, <2>7, ZenonT(60) DEF Next, PowerOn, CheckBootloader, CheckVersion,
       DefineBootloader, VerifyBootloader, CheckSeed, DefineSeed, WriteSeed, LockSeed,
       VerifySeed, ReadState, Recover, StartTrusty, EndTpm, DeleteIndex, Delete, ProvisionSeed,
       LockOwner, SetStorage, Reboot, PowerLoss, tpm, vars
  <2> QED
    BY <2>2, <2>8, Zenon DEF ChangeState, Goto
<1>3. TypeOK /\ FreshIndex /\ [Next]_vars => FreshIndex'
  BY FreshStep, Zenon
<1>4. TypeOK /\ FreshIndex /\ [Next]_vars
      => [/\ bl.rollback' < bl.rollback /\ "boot" \in written
          => MayLower]_vars
  BY <1>2, Zenon DEF MayLower
<1> QED
  BY <1>1, <1>3, <1>4, TypeCorrect, PTL DEF Spec, RollbackHolds

-----------------------------------------------------------------------------
(* Hypercalls *)

Places == {"create", "connect", "wait", "send", "recv", "close", "shutdown"}

LEMMA CommandPlaces ==
  /\ DOMAIN Commands = Places
  /\ Commands["create"] = "create" /\ Commands["connect"] = "connect"
  /\ Commands["wait"] = "get_event" /\ Commands["send"] = "send"
  /\ Commands["recv"] = "recv" /\ Commands["close"] = "disconnect"
  /\ Commands["shutdown"] = "shutdown"
BY Zenon DEF Commands, Places

\* A call is only under way where the client has a command for it; it is taken
\* up by its first smc.
CallInv ==
  /\ ffa \in BOOLEAN /\ dev \in BOOLEAN /\ ql \in BOOLEAN /\ fiq \in BOOLEAN
  /\ at \in Places \cup Ends \cup {"init", "alloc"}
  /\ smc \in {"idle", "issue", "restart", "done"}
  /\ fiq => smc \in {"issue", "restart"}
  /\ smc # "idle" => /\ at \in Places /\ op = Commands[at]
                     /\ at = "shutdown" => dev
  /\ started \in {0, 1}
  /\ smc = "idle" \/ (smc = "issue" /\ ~fiq) => started = 0

\* The pages are there from their allocation to the end of the device.
BufferInv ==
  /\ at \in {"init", "alloc"} => ~ql
  /\ at \in {"init", "alloc", "create"} => ~dev
  /\ at \in Places \ {"shutdown"} => buf \in {"own", "shared"}
  /\ at = "shutdown" /\ dev => buf \in {"own", "shared"}
  /\ buf = "freed" /\ ffa => ~ql

LEMMA CallStep == CallInv /\ BufferInv /\ [TipcNext]_tipc_vars => CallInv' /\ BufferInv'
<1> SUFFICES ASSUME CallInv, BufferInv, [TipcNext]_tipc_vars
             PROVE  CallInv' /\ BufferInv'
  BY Zenon
<1> USE CommandPlaces DEF CallInv, BufferInv, Places, Ends
<1>1. CASE Exec
  BY <1>1, Zenon DEF Exec, client, trusty
<1>2. CASE SmcIssue \/ SmcRestart
  <2>1. UNCHANGED <<ffa, dev, at, op, buf>>
    BY <1>2, Zenon DEF SmcIssue, SmcRestart, client
  <2>2. /\ smc \in {"issue", "restart"}
        /\ fiq' \in BOOLEAN /\ smc' \in {"issue", "restart", "done"}
        /\ fiq' => smc' \in {"issue", "restart"}
        /\ started' \in {0, 1} /\ (smc' = "issue" => fiq')
    <3>1. CASE SmcIssue
      <4>1. smc = "issue" /\ ~fiq /\ started' = started + 1 /\ (Completes \/ Interrupted)
        BY <3>1, Zenon DEF SmcIssue
      <4>2. started' = 1 BY <4>1
      <4> QED BY <4>1, <4>2, Zenon DEF Completes, Interrupted
    <3>2. CASE SmcRestart
      <4>1. (smc = "restart" \/ fiq) /\ started' = started /\ (Completes \/ Interrupted)
        BY <3>2, Zenon DEF SmcRestart
      <4> QED BY <4>1, Zenon DEF Completes, Interrupted
    <3> QED BY <1>2, <3>1, <3>2, Zenon
  <2>3. ql' = ql \/ ql' = FALSE \/ (op = "create" /\ ql' = TRUE)
    BY <1>2, Zenon DEF SmcIssue, SmcRestart, Completes, Interrupted, Execute, trusty
  <2>4. op = "create" => at = "create"
    BY <2>2, Zenon
  <2> QED BY <2>1, <2>2, <2>3, <2>4, ZenonT(60)
<1>3. CASE Accept \/ Process \/ HangUp
  <2>1. UNCHANGED <<ffa, client, call, ql>>
    BY <1>3, Zenon DEF Accept, Process, HangUp
  <2> QED BY <2>1 DEF client, call
<1>4. CASE TrustyDevInit \/ DevAlloc
  <2>1. /\ at \in {"init", "alloc"} /\ UNCHANGED <<ffa, dev, call, trusty>>
        /\ at' \in {"alloc", "create", "shutdown", "abort"}
        /\ at' = "create" => buf' \in {"own", "shared"}
    BY <1>4, Zenon DEF TrustyDevInit, DevAlloc, Fail
  <2> QED BY <2>1, Zenon DEF call, trusty
<1>5. CASE DevCreate
  <2>1. /\ at = "create" /\ UNCHANGED <<ffa, fiq, trusty>> /\ smc = "done" /\ smc' = "idle"
        /\ started' = 0
        /\ \/ at' = "connect" /\ dev' = TRUE /\ buf' = buf
           \/ at' \in {"shutdown", "abort"} /\ dev' = dev /\ (buf' = buf \/ (ffa => ~ql))
    BY <1>5, Zenon DEF DevCreate, Done, ReclaimAndFree
  <2>2. ql' = ql /\ dev' \in BOOLEAN
    BY <2>1, Zenon DEF trusty
  <2>3. CallInv'
    BY <2>1, <2>2, Zenon
  <2>4. BufferInv'
    BY <2>1, <2>2
  <2> QED BY <2>3, <2>4, Zenon
<1>6. CASE DevShutdown
  <2>1. /\ at = "shutdown" /\ UNCHANGED <<ffa, fiq, trusty, dev>> /\ smc = "done" /\ smc' = "idle"
        /\ started' = 0 /\ at' \in {"end", "abort"} /\ (buf' = buf \/ (ffa => ~ql))
    BY <1>6, Zenon DEF DevShutdown, Done, ReclaimAndFree
  <2> QED BY <2>1, Zenon DEF trusty
<1>7. CASE ShutdownNothing
  BY <1>7, Zenon DEF ShutdownNothing, call, trusty
<1>8. CASE Connect \/ Close \/ Send
  BY <1>8 DEF Connect, Close, Send, Done, Fail, trusty
<1>9. CASE Wait
  BY <1>9, Zenon DEF Wait, WaitFails, WaitErrs, Generic, Done, Fail, trusty
<1>10. CASE Recv
  BY <1>10, Zenon DEF Recv, Response, Generic, Done, Fail, trusty
<1>11. CASE SerializeFails
  BY <1>11, Zenon DEF SerializeFails, Fail, call, trusty
<1>12. CASE UNCHANGED tipc_vars
  BY <1>12 DEF tipc_vars
<1> QED
  BY <1>1, <1>2, <1>3, <1>4, <1>5, <1>6, <1>7, <1>8, <1>9, <1>10, <1>11, <1>12, ZenonT(60)
  DEF TipcNext, Client, Stopped

\* No command is taken up twice: an interrupted call is restarted, never made
\* again, however often it is interrupted (trusty_std_call32).
THEOREM CommandsOnce == TipcSpec => []TakenUpOnce
<1>1. TipcInit => CallInv /\ BufferInv
  BY CommandPlaces, Zenon DEF TipcInit, CallInv, BufferInv, Places, Ends
<1>2. CallInv => TakenUpOnce
  BY DEF CallInv, TakenUpOnce
<1> QED BY <1>1, <1>2, CallStep, PTL DEF TipcSpec

\* The pages of the buffer are freed only when Trusty no longer uses them, and
\* no command runs in freed pages, on all error paths of trusty_ipc_dev_create
\* and trusty_ipc_dev_shutdown.
THEOREM PagesOwned == TipcSpec => []BufferOwned
<1>1. TipcInit => CallInv /\ BufferInv
  BY CommandPlaces, Zenon DEF TipcInit, CallInv, BufferInv, Places, Ends
<1>2. CallInv /\ BufferInv => BufferOwned
  BY Zenon DEF CallInv, BufferInv, BufferOwned, Places
<1> QED BY <1>1, <1>2, CallStep, PTL DEF TipcSpec

-----------------------------------------------------------------------------
(* Requests and responses *)

Names == {"version", "boot_params", "patchlevel", "attestation_ids"}

LEMMA ElementType ==
  ASSUME NEW S, NEW s \in Seq(S)
  PROVE  \A i \in 1 .. Len(s) : s[i] \in S
OBVIOUS

LEMMA RequestFacts ==
  /\ Len(Requests) = 4 /\ Requests \in Seq(Names) /\ \A i \in 1 .. 4 : Requests[i] \in Names
  /\ Requests[2] = "boot_params" /\ Requests[3] = "patchlevel"
  /\ \A i \in 1 .. 4 : Requests[i] = "boot_params" => i = 2
<1>1. Requests \in Seq(Names)
  BY DEF Requests, Names
<1>2. Len(Requests) = 4
  BY Zenon DEF Requests
<1>3. \A i \in 1 .. 4 : Requests[i] \in Names
  BY <1>1, <1>2, ElementType, Zenon
<1>4. /\ Requests[1] = "version" /\ Requests[2] = "boot_params" /\ Requests[3] = "patchlevel"
      /\ Requests[4] = "attestation_ids"
  BY DEF Requests
<1>5. \A i \in 1 .. 4 : Requests[i] = "boot_params" => i = 2
  BY <1>4
<1> QED BY <1>1, <1>2, <1>3, <1>4, <1>5, Zenon

\* Sequences of two, three or four elements.
LEMMA ShortEqual ==
  ASSUME NEW S, NEW p \in Seq(S), NEW q \in Seq(S), Len(p) = Len(q), Len(p) \in {2, 3, 4},
         p[1] = q[1], p[2] = q[2],
         Len(p) = 2 \/ p[3] = q[3], Len(p) = 2 \/ Len(p) = 3 \/ p[4] = q[4]
  PROVE  p = q
OBVIOUS

LEMMA AppendSecond ==
  ASSUME NEW w, NEW x
  PROVE  Append(<<w>>, x) = <<w, x>>
<1> DEFINE S == {w, x}
<1>1. <<w>> \in Seq(S) /\ <<w, x>> \in Seq(S) /\ x \in S
  OBVIOUS
<1>2. /\ Append(<<w>>, x) \in Seq(S) /\ Len(Append(<<w>>, x)) = 2
      /\ Append(<<w>>, x)[1] = w
      /\ Append(<<w>>, x)[2] = x
  BY <1>1
<1>3. /\ Len(<<w, x>>) = 2
      /\ <<w, x>>[1] = w
      /\ <<w, x>>[2] = x
  OBVIOUS
<1> HIDE DEF S
<1> QED BY <1>1, <1>2, <1>3, ShortEqual, Zenon

LEMMA AppendThird ==
  ASSUME NEW w, NEW x, NEW y
  PROVE  Append(<<w, x>>, y) = <<w, x, y>>
<1> DEFINE S == {w, x, y}
<1>1. <<w, x>> \in Seq(S) /\ <<w, x, y>> \in Seq(S) /\ y \in S
  OBVIOUS
<1>2. /\ Append(<<w, x>>, y) \in Seq(S) /\ Len(Append(<<w, x>>, y)) = 3
      /\ Append(<<w, x>>, y)[1] = w
      /\ Append(<<w, x>>, y)[2] = x
      /\ Append(<<w, x>>, y)[3] = y
  BY <1>1
<1>3. /\ Len(<<w, x, y>>) = 3
      /\ <<w, x, y>>[1] = w
      /\ <<w, x, y>>[2] = x
      /\ <<w, x, y>>[3] = y
  OBVIOUS
<1> HIDE DEF S
<1> QED BY <1>1, <1>2, <1>3, ShortEqual, Zenon

LEMMA AppendFourth ==
  ASSUME NEW w, NEW x, NEW y, NEW z
  PROVE  Append(<<w, x, y>>, z) = <<w, x, y, z>>
<1> DEFINE S == {w, x, y, z}
<1>1. <<w, x, y>> \in Seq(S) /\ <<w, x, y, z>> \in Seq(S) /\ z \in S
  OBVIOUS
<1>2. /\ Append(<<w, x, y>>, z) \in Seq(S) /\ Len(Append(<<w, x, y>>, z)) = 4
      /\ Append(<<w, x, y>>, z)[1] = w
      /\ Append(<<w, x, y>>, z)[2] = x
      /\ Append(<<w, x, y>>, z)[3] = y
      /\ Append(<<w, x, y>>, z)[4] = z
  BY <1>1
<1>3. /\ Len(<<w, x, y, z>>) = 4
      /\ <<w, x, y, z>>[1] = w
      /\ <<w, x, y, z>>[2] = x
      /\ <<w, x, y, z>>[3] = y
      /\ <<w, x, y, z>>[4] = z
  OBVIOUS
<1> HIDE DEF S
<1> QED BY <1>1, <1>2, <1>3, ShortEqual, Zenon

LEMMA ShortAppends ==
  /\ \A w : Append(<<>>, w) = <<w>>
  /\ \A w, x : Append(<<w>>, x) = <<w, x>>
  /\ \A w, x, y : Append(<<w, x>>, y) = <<w, x, y>>
  /\ \A w, x, y, z : Append(<<w, x, y>>, z) = <<w, x, y, z>>
<1>1. \A w : Append(<<>>, w) = <<w>>
  OBVIOUS
<1>2. \A w, x : Append(<<w>>, x) = <<w, x>>
  BY AppendSecond, Zenon
<1>3. \A w, x, y : Append(<<w, x>>, y) = <<w, x, y>>
  BY AppendThird, Zenon
<1>4. \A w, x, y, z : Append(<<w, x, y>>, z) = <<w, x, y, z>>
  BY AppendFourth, Zenon
<1> QED BY <1>1, <1>2, <1>3, <1>4, Zenon

\* What Keymaster has carried out of the first n requests: all of them, or all but
\* boot_params.
All(n) ==
  IF n = 0 THEN <<>>
  ELSE IF n = 1 THEN <<"version">>
  ELSE IF n = 2 THEN <<"version", "boot_params">>
  ELSE IF n = 3 THEN <<"version", "boot_params", "patchlevel">> ELSE Requests

Less(n) ==
  IF n = 2 THEN <<"version">>
  ELSE IF n = 3 THEN <<"version", "patchlevel">> ELSE Others

LEMMA Carried ==
  /\ All(0) = <<>> /\ All(4) = Requests /\ Less(2) = All(1) /\ Less(4) = Others
  /\ \A n \in 1 .. 4 : Append(All(n - 1), Requests[n]) = All(n)
  /\ \A n \in 3 .. 4 : Append(Less(n - 1), Requests[n]) = Less(n)
<1>1. All(0) = <<>> /\ All(4) = Requests /\ Less(2) = All(1) /\ Less(4) = Others
  BY DEF All, Less
<1>2. /\ Append(<<>>, Requests[1]) = All(1)
      /\ Append(<<"version">>, Requests[2]) = All(2)
      /\ Append(<<"version", "boot_params">>, Requests[3]) = All(3)
      /\ Append(<<"version", "boot_params", "patchlevel">>, Requests[4]) = All(4)
  <2>1. /\ All(1) = <<Requests[1]>> /\ All(2) = <<"version", Requests[2]>>
        /\ All(3) = <<"version", "boot_params", Requests[3]>>
        /\ All(4) = <<"version", "boot_params", "patchlevel", Requests[4]>>
    BY DEF All, Requests
  <2>2. Append(<<>>, Requests[1]) = All(1) /\ Append(<<"version">>, Requests[2]) = All(2)
    BY <2>1, ShortAppends, Zenon
  <2>3. Append(<<"version", "boot_params">>, Requests[3]) = All(3)
    BY <2>1, ShortAppends, Zenon
  <2>4. Append(<<"version", "boot_params", "patchlevel">>, Requests[4]) = All(4)
    <3>1. Append(<<"version", "boot_params", "patchlevel">>, Requests[4])
            = <<"version", "boot_params", "patchlevel", Requests[4]>>
      BY ShortAppends, ZenonT(60)
    <3> QED BY <2>1, <3>1, Zenon
  <2> QED BY <2>2, <2>3, <2>4, Zenon
<1>3. /\ Append(<<"version">>, Requests[3]) = Less(3)
      /\ Append(<<"version", "patchlevel">>, Requests[4]) = Less(4)
  <2>1. /\ Less(3) = <<"version", Requests[3]>>
        /\ Less(4) = <<"version", "patchlevel", Requests[4]>>
    BY DEF Less, Requests, Others
  <2> QED BY <2>1, ShortAppends, Zenon
<1>4. All(1) = <<"version">> /\ All(2) = <<"version", "boot_params">>
      /\ All(3) = <<"version", "boot_params", "patchlevel">>
      /\ Less(3) = <<"version", "patchlevel">>
  BY DEF All, Less
<1>5. \A n \in 1 .. 4 : Append(All(n - 1), Requests[n]) = All(n)
  <2>1. SUFFICES ASSUME NEW n \in 1 .. 4 PROVE Append(All(n - 1), Requests[n]) = All(n)
    BY Zenon
  <2>2. \/ n = 1 /\ n - 1 = 0
        \/ n = 2 /\ n - 1 = 1
        \/ n = 3 /\ n - 1 = 2
        \/ n = 4 /\ n - 1 = 3
    OBVIOUS
  <2> QED BY <1>1, <1>2, <1>4, <2>2, Zenon
<1>6. \A n \in 3 .. 4 : Append(Less(n - 1), Requests[n]) = Less(n)
  <2>1. SUFFICES ASSUME NEW n \in 3 .. 4 PROVE Append(Less(n - 1), Requests[n]) = Less(n)
    BY Zenon
  <2>2. (n = 3 /\ n - 1 = 2) \/ (n = 4 /\ n - 1 = 3)
    OBVIOUS
  <2> QED BY <1>1, <1>3, <1>4, <2>2, Zenon
<1> QED BY <1>1, <1>5, <1>6, Zenon

Upto(n) == set = All(n) \/ (skipped /\ n \in 2 .. 4 /\ set = Less(n))

\* Keymaster carries out one more request, or passes over boot_params.
LEMMA UptoStep ==
  /\ \A n \in 1 .. 4 : Upto(n - 1) /\ skipped' = skipped /\ set' = Append(set, Requests[n]) => Upto(n)'
  /\ \A n \in 0 .. 4 : Upto(n) /\ (skipped => skipped') /\ set' = set => Upto(n)'
  /\ Upto(1) /\ skipped' /\ set' = set => Upto(2)'
<1>1. ASSUME NEW n \in 1 .. 4, Upto(n - 1), skipped' = skipped, set' = Append(set, Requests[n])
      PROVE  Upto(n)'
  <2>1. CASE set = All(n - 1)
    BY <1>1, <2>1, Carried, Zenon DEF Upto
  <2>2. CASE skipped /\ n - 1 \in 2 .. 4 /\ set = Less(n - 1)
    <3>1. n \in 3 .. 4 /\ n \in 2 .. 4
      BY <2>2
    <3>2. skipped'
      BY <1>1, <2>2
    <3> QED BY <1>1, <2>2, <3>1, <3>2, Carried, Zenon DEF Upto
  <2> QED BY <1>1, <2>1, <2>2, Zenon DEF Upto
<1>2. \A n \in 0 .. 4 : Upto(n) /\ (skipped => skipped') /\ set' = set => Upto(n)'
  BY Zenon DEF Upto
<1>3. Upto(1) /\ skipped' /\ set' = set => Upto(2)'
  <2>1. 1 \notin 2 .. 4 /\ 2 \in 2 .. 4
    OBVIOUS
  <2> QED BY <2>1, Carried, Zenon DEF Upto
<1> QED BY <1>1, <1>2, <1>3, Zenon

\* Sequences of one and two elements.
LEMMA ShortSequences ==
  ASSUME NEW x, NEW y
  PROVE  /\ Head(<<x>>) = x /\ Tail(<<x>>) = <<>> /\ <<x>> # <<>>
         /\ Head(<<x, y>>) = x /\ Tail(<<x, y>>) = <<y>> /\ <<x, y>> # <<>>
         /\ <<>> \o <<x>> = <<x>> /\ <<>> \o <<x, y>> = <<x, y>>
         /\ Append(<<>>, x) = <<x>> /\ Append(<<x>>, y) = <<x, y>>
<1>1. <<x>> \in Seq({x, y}) /\ <<x, y>> \in Seq({x, y}) /\ <<y>> \in Seq({x, y})
  OBVIOUS
<1>2. <<>> \o <<x>> = <<x>> /\ <<>> \o <<x, y>> = <<x, y>>
  BY <1>1
<1>3. Tail(<<x>>) = <<>>
  BY <1>1
<1>4. Tail(<<x, y>>) = <<y>>
  BY <1>1
<1>5. Append(<<>>, x) = <<x>> /\ Append(<<x>>, y) = <<x, y>>
  BY ShortAppends, Zenon
<1> QED BY <1>2, <1>3, <1>4, <1>5

Reply(c, n, s, e) == [cmd |-> c, len |-> n, stop |-> s, error |-> e]

LEMMA ReplyFields ==
  ASSUME NEW c, NEW n, NEW s, NEW e
  PROVE  /\ Reply(c, n, s, e).cmd = c /\ Reply(c, n, s, e).len = n
         /\ Reply(c, n, s, e).stop = s /\ Reply(c, n, s, e).error = e
BY Zenon DEF Reply

\* What comes after it leaves the head of a sequence alone.
LEMMA HeadStays ==
  ASSUME NEW S, NEW q \in Seq(S), q # <<>>
  PROVE  /\ \A r \in Seq(S) : Head(q \o r) = Head(q) /\ q \o r # <<>>
         /\ \A x \in S : Head(Append(q, x)) = Head(q) /\ Append(q, x) # <<>>
<1>1. ASSUME NEW r \in Seq(S) PROVE Head(q \o r) = Head(q) /\ q \o r # <<>>
  OBVIOUS
<1>2. ASSUME NEW x \in S PROVE Head(Append(q, x)) = Head(q) /\ Append(q, x) # <<>>
  OBVIOUS
<1> QED BY <1>1, <1>2, Zenon

Replies == [cmd : Names, len : {1, 2}, stop : BOOLEAN, error : BOOLEAN]

SeqInv == queue \in Seq(Names) /\ frames \in Seq(Replies) /\ req \in 1 .. 4

\* Nothing is under way, and Keymaster is done with the requests before this one.
Nothing == queue = <<>> /\ frames = <<>> /\ Upto(req - 1)

\* The request is with Trusty, and nothing of its response was read.
Queued(g) == queue = <<Requests[req]>> /\ frames = <<>> /\ Upto(req - 1) /\ g = 0

\* Keymaster is done with this request: it refused it (e), or carried it out.
Settled(e) == (e /\ Upto(req - 1)) \/ (~e /\ Upto(req))

\* The response is there, with what the client still has to read in frames.
Unread(g) ==
  /\ queue = <<>>
  /\ \E e \in BOOLEAN :
       /\ Settled(e)
       /\ \/ g = 0 /\ frames = <<Reply(Requests[req], 2, TRUE, e)>>
          \/ g = 0 /\ frames = <<Reply(Requests[req], 1, FALSE, e), Reply(Requests[req], 1, TRUE, e)>>
          \/ g = 1 /\ frames = <<Reply(Requests[req], 1, TRUE, e)>>

Outstanding(g) == Queued(g) \/ Unread(g)

\* The call that reads a frame has taken it out of frames.
Taken(f, g) ==
  /\ queue = <<>>
  /\ \E e \in BOOLEAN :
       /\ Settled(e)
       /\ \/ g = 0 /\ f = Reply(Requests[req], 2, TRUE, e) /\ frames = <<>>
          \/ g = 0 /\ f = Reply(Requests[req], 1, FALSE, e)
             /\ frames = <<Reply(Requests[req], 1, TRUE, e)>>
          \/ g = 1 /\ f = Reply(Requests[req], 1, TRUE, e) /\ frames = <<>>

\* boot_params was passed over before its response was read: its frames come first,
\* and the client takes none of them for the answer to the patch level.
Stale ==
  /\ req = 3 /\ skipped
  /\ \/ frames # <<>> /\ Head(frames).cmd = "boot_params"
     \/ frames = <<>> /\ queue # <<>> /\ Head(queue) = "boot_params"

StaleSend == Stale /\ ((queue = <<>> /\ Upto(2)) \/ queue = <<"boot_params">>)

StaleTaken(f) == req = 3 /\ skipped /\ f.cmd = "boot_params"

\* Keymaster carries the requests out in order.
SetInv ==
  /\ \/ queue = <<>> /\ \E n \in 0 .. 4 : Upto(n)
     \/ \E n \in 1 .. 4 : queue = <<Requests[n]>> /\ Upto(n - 1)
     \/ queue = <<"boot_params", "patchlevel">> /\ Upto(1) /\ skipped
  /\ result = "ok" => Upto(4) /\ queue = <<>> /\ at \in {"shutdown"} \cup Ends

\* What is under way at each place of the client.
ExchangeInv ==
  /\ waiting \in {"connect", "reply"}
  /\ at \in {"init", "alloc", "create", "connect"} => Nothing
  /\ at = "wait" /\ waiting = "connect" => Nothing
  /\ at = "wait" /\ waiting = "reply" => Outstanding(got) \/ Stale
  /\ at = "send" => IF smc = "done" /\ answer.ok THEN Outstanding(0) \/ Stale
                                                 ELSE Nothing \/ StaleSend
  /\ at = "recv" => /\ waiting = "reply"
                    /\ IF smc = "done" /\ answer.ok
                       THEN Taken(answer.frame, got) \/ StaleTaken(answer.frame)
                       ELSE Outstanding(got) \/ Stale

\* What Keymaster puts in frames, and what it carries out.
LEMMA ProcessFacts ==
  ASSUME SeqInv, Process
  PROVE  /\ queue # <<>> /\ queue' = Tail(queue) /\ Head(queue) \in Names
         /\ UNCHANGED <<at, waiting, req, got, skipped, result, smc, answer>>
         /\ \E error \in BOOLEAN, split \in BOOLEAN :
              /\ set' = IF error THEN set ELSE Append(set, Head(queue))
              /\ frames' = frames \o
                   IF split THEN <<Reply(Head(queue), 1, FALSE, error), Reply(Head(queue), 1, TRUE, error)>>
                            ELSE <<Reply(Head(queue), 2, TRUE, error)>>
<1>1. queue # <<>> /\ queue' = Tail(queue)
      /\ UNCHANGED <<at, waiting, req, got, skipped, result, smc, answer>>
  BY Zenon DEF Process, client, call
<1>2. Head(queue) \in Names
  BY <1>1 DEF SeqInv
<1>3. PICK error \in BOOLEAN, split \in BOOLEAN :
        /\ set' = IF error THEN set ELSE Append(set, Head(queue))
        /\ frames' = frames \o
             IF split
             THEN <<[cmd |-> Head(queue), len |-> 1, stop |-> FALSE, error |-> error],
                    [cmd |-> Head(queue), len |-> RespLen - 1, stop |-> TRUE, error |-> error]>>
             ELSE <<[cmd |-> Head(queue), len |-> RespLen, stop |-> TRUE, error |-> error]>>
  BY Zenon DEF Process
<1>4. RespLen - 1 = 1 /\ RespLen = 2
  BY DEF RespLen
<1>5. /\ set' = IF error THEN set ELSE Append(set, Head(queue))
      /\ frames' = frames \o
           IF split THEN <<Reply(Head(queue), 1, FALSE, error), Reply(Head(queue), 1, TRUE, error)>>
                    ELSE <<Reply(Head(queue), 2, TRUE, error)>>
  BY <1>3, <1>4, Zenon DEF Reply
<1> QED BY <1>1, <1>2, <1>5, Zenon

\* A response is one frame or two.
LEMMA ReplyType ==
  ASSUME NEW c \in Names, NEW e \in BOOLEAN
  PROVE  /\ <<Reply(c, 1, FALSE, e), Reply(c, 1, TRUE, e)>> \in Seq(Replies)
         /\ <<Reply(c, 2, TRUE, e)>> \in Seq(Replies)
<1>1. /\ Reply(c, 1, FALSE, e) \in Replies /\ Reply(c, 1, TRUE, e) \in Replies
      /\ Reply(c, 2, TRUE, e) \in Replies
  BY DEF Reply, Replies
<1>2. ASSUME NEW S, NEW x \in S, NEW y \in S PROVE <<x>> \in Seq(S) /\ <<x, y>> \in Seq(S)
  OBVIOUS
<1> QED BY <1>1, <1>2, Zenon

\* What a hypercall does to the queue and the frames.
LEMMA SmcFacts ==
  ASSUME CallInv, SmcIssue \/ SmcRestart
  PROVE  /\ UNCHANGED <<at, waiting, req, got, skipped, result, set>>
         /\ smc \in {"issue", "restart"}
         /\ \/ UNCHANGED <<queue, frames>>
            \/ at = "send" /\ queue' = Append(queue, Requests[req]) /\ UNCHANGED frames
            \/ at = "recv" /\ frames # <<>> /\ frames' = Tail(frames) /\ UNCHANGED queue
<1>1. /\ UNCHANGED <<at, waiting, req, got, skipped, result, set>>
      /\ smc \in {"issue", "restart"}
  BY Zenon DEF SmcIssue, SmcRestart, CallInv, client, Completes, Interrupted, Execute, trusty
<1>2. \/ UNCHANGED <<queue, frames>>
      \/ op = "send" /\ queue' = Append(queue, Requests[req]) /\ UNCHANGED frames
      \/ op = "recv" /\ frames # <<>> /\ frames' = Tail(frames) /\ UNCHANGED queue
  BY Zenon DEF SmcIssue, SmcRestart, Completes, Interrupted, Execute, trusty
<1>3. (op = "send" => at = "send") /\ (op = "recv" => at = "recv")
  BY <1>1, CommandPlaces, Zenon DEF CallInv, Places
<1> QED BY <1>1, <1>2, <1>3, Zenon

\* The other steps leave Trusty alone; Wait and Recv go on to the next request or to none.
LEMMA OtherFacts ==
  ASSUME [TipcNext]_tipc_vars, ~Process, ~(SmcIssue \/ SmcRestart)
  PROVE  /\ UNCHANGED <<queue, frames, set>>
         /\ ~Recv /\ ~Wait => UNCHANGED <<req, skipped>>
         /\ \/ UNCHANGED <<req, skipped>>
            \/ req' = req + 1 /\ Requests[req] = "boot_params" /\ skipped'
            \/ req' = req + 1 /\ req < Len(Requests) /\ UNCHANGED skipped
<1>1. UNCHANGED <<queue, frames, set>>
  BY ZenonT(60) DEF TipcNext, Client, Exec, TrustyDevInit, DevAlloc, DevCreate, ShutdownNothing,
     DevShutdown, Connect, Wait, Close, SerializeFails, Send, Recv, Done, Accept, HangUp, Stopped,
     trusty, tipc_vars
<1>2. ~Recv /\ ~Wait => UNCHANGED <<req, skipped>>
  BY ZenonT(60) DEF TipcNext, Client, Exec, TrustyDevInit, DevAlloc, DevCreate, ShutdownNothing,
     DevShutdown, Connect, Close, SerializeFails, Send, Accept, HangUp, Stopped,
     client, tipc_vars
<1>3. CASE Recv
  BY <1>1, <1>2, <1>3, Zenon DEF Recv, Generic, Response
<1>4. CASE Wait
  BY <1>1, <1>2, <1>4, Zenon DEF Wait, WaitErrs, WaitFails, Generic
<1> QED BY <1>1, <1>2, <1>3, <1>4, Zenon

LEMMA SeqStep == SeqInv /\ CallInv /\ [TipcNext]_tipc_vars => SeqInv'
<1> SUFFICES ASSUME SeqInv, CallInv, [TipcNext]_tipc_vars PROVE SeqInv'
  BY Zenon
<1>1. CASE Process
  <2>1. PICK error \in BOOLEAN, split \in BOOLEAN :
          frames' = frames \o
            IF split THEN <<Reply(Head(queue), 1, FALSE, error), Reply(Head(queue), 1, TRUE, error)>>
                     ELSE <<Reply(Head(queue), 2, TRUE, error)>>
    BY <1>1, ProcessFacts, Zenon
  <2>2. Head(queue) \in Names /\ queue # <<>> /\ queue' = Tail(queue) /\ req' = req
    BY <1>1, ProcessFacts, Zenon
  <2>3. PICK r \in Seq(Replies) : frames' = frames \o r
    BY <2>1, <2>2, ReplyType, Zenon
  <2>4. frames' \in Seq(Replies)
    BY <2>3 DEF SeqInv
  <2>5. queue' \in Seq(Names)
    BY <2>2 DEF SeqInv
  <2> QED BY <2>2, <2>4, <2>5, Zenon DEF SeqInv
<1>2. CASE SmcIssue \/ SmcRestart
  <2>1. Requests[req] \in Names
    BY RequestFacts, Zenon DEF SeqInv
  <2>2. Append(queue, Requests[req]) \in Seq(Names)
    BY <2>1 DEF SeqInv
  <2>3. frames # <<>> => Tail(frames) \in Seq(Replies)
    BY DEF SeqInv
  <2> QED BY <1>2, <2>2, <2>3, SmcFacts, Zenon DEF SeqInv
<1>3. CASE ~Process /\ ~(SmcIssue \/ SmcRestart)
  <2>1. \/ req' = req
        \/ req' = req + 1 /\ req = 2
        \/ req' = req + 1 /\ req < 4
    BY <1>3, OtherFacts, RequestFacts, Zenon DEF SeqInv
  <2>2. req' \in 1 .. 4
    BY <2>1 DEF SeqInv
  <2> QED BY <1>3, <2>2, OtherFacts, Zenon DEF SeqInv
<1> QED BY <1>1, <1>2, <1>3, Zenon

\* boot_params waits only when the version is there.
LEMMA BootParamsQueued ==
  ASSUME SetInv, queue = <<"boot_params">>
  PROVE  Upto(1)
<1>1. <<"boot_params">> # <<>> /\ <<"boot_params">> # <<"boot_params", "patchlevel">>
  OBVIOUS
<1>2. PICK n \in 1 .. 4 : queue = <<Requests[n]>> /\ Upto(n - 1)
  BY <1>1, Zenon DEF SetInv
<1>3. Requests[n] = "boot_params"
  <2>1. ASSUME NEW x, NEW y, <<x>> = <<y>> PROVE x = y
    BY <2>1
  <2> QED BY <1>2, <2>1, Zenon
<1>4. n = 2
  BY <1>3, RequestFacts, Zenon
<1>5. 2 - 1 = 1
  OBVIOUS
<1> QED BY <1>2, <1>4, <1>5, Zenon

\* trusty_ipc_init succeeds when the answer to the last request is read.
LEMMA SuccessStep ==
  ASSUME ExchangeInv, SeqInv, [TipcNext]_tipc_vars, ~Process, ~(SmcIssue \/ SmcRestart),
         result' = "ok", result # "ok"
  PROVE  Upto(4) /\ queue = <<>> /\ at' = "shutdown"
<1>1. Recv
  BY ZenonT(60) DEF TipcNext, Client, Exec, TrustyDevInit, DevAlloc, DevCreate, ShutdownNothing,
     DevShutdown, Connect, Wait, WaitFails, WaitErrs, Generic, Close, SerializeFails, Send, Fail,
     Accept, HangUp, Stopped, client, tipc_vars
<1>2. /\ at = "recv" /\ smc = "done" /\ answer.ok /\ answer.frame.cmd = Requests[req]
      /\ ~answer.frame.error /\ req = Len(Requests) /\ at' = "shutdown"
  BY <1>1, Zenon DEF Recv, Done, Fail, Generic, Response
<1>3. req = 4 /\ req # 3
  BY <1>2, RequestFacts
<1>4. Taken(answer.frame, got)
  BY <1>2, <1>3, Zenon DEF ExchangeInv, StaleTaken
<1>5. PICK e \in BOOLEAN :
        /\ Settled(e)
        /\ \/ answer.frame = Reply(Requests[req], 2, TRUE, e)
           \/ answer.frame = Reply(Requests[req], 1, FALSE, e)
           \/ answer.frame = Reply(Requests[req], 1, TRUE, e)
  BY <1>4, Zenon DEF Taken
<1>6. answer.frame.error = e
  <2>1. /\ Reply(Requests[req], 2, TRUE, e).error = e
        /\ Reply(Requests[req], 1, FALSE, e).error = e
        /\ Reply(Requests[req], 1, TRUE, e).error = e
    BY Zenon DEF Reply
  <2> QED BY <1>5, <2>1, Zenon
<1>7. ~e
  BY <1>2, <1>6, Zenon
<1>8. Upto(4)
  BY <1>3, <1>5, <1>7, Zenon DEF Settled
<1> QED BY <1>2, <1>4, <1>8, Zenon DEF Taken

\* After trusty_ipc_init only trusty_ipc_shutdown is left.
LEMMA EndStep ==
  ASSUME at \in {"shutdown"} \cup Ends, [TipcNext]_tipc_vars, ~Process, ~(SmcIssue \/ SmcRestart)
  PROVE  at' \in {"shutdown"} \cup Ends
BY ZenonT(60) DEF TipcNext, Client, Exec, TrustyDevInit, DevAlloc, DevCreate, ShutdownNothing,
   DevShutdown, ReclaimAndFree, Connect, Wait, Close, SerializeFails, Send, Recv, Done,
   Accept, HangUp, Stopped, Ends, client, tipc_vars

LEMMA SetInvStep ==
  SetInv /\ ExchangeInv /\ SeqInv /\ CallInv /\ [TipcNext]_tipc_vars => SetInv'
<1> SUFFICES ASSUME SetInv, ExchangeInv, SeqInv, CallInv, [TipcNext]_tipc_vars
             PROVE  SetInv'
  BY Zenon
<1>1. CASE Process
  <2>1. /\ queue # <<>> /\ queue' = Tail(queue) /\ UNCHANGED <<at, skipped, result>>
        /\ set' = set \/ set' = Append(set, Head(queue))
    BY <1>1, ProcessFacts, Zenon
  <2>2. result' # "ok"
    BY <2>1, Zenon DEF SetInv
  <2>3. ASSUME NEW n \in 1 .. 4, queue = <<Requests[n]>>, Upto(n - 1)
        PROVE  queue' = <<>> /\ \E m \in 0 .. 4 : Upto(m)'
    <3>1. queue' = <<>> /\ Head(queue) = Requests[n]
      BY <2>1, <2>3, ShortSequences, Zenon
    <3>2. n - 1 \in 0 .. 4 /\ n \in 0 .. 4
      OBVIOUS
    <3>3. Upto(n - 1)' \/ Upto(n)'
      BY <2>1, <2>3, <3>1, <3>2, UptoStep, Zenon
    <3> QED BY <3>1, <3>2, <3>3, Zenon
  <2>4. ASSUME queue = <<"boot_params", "patchlevel">>, Upto(1), skipped
        PROVE  \E n \in 1 .. 4 : queue' = <<Requests[n]>> /\ Upto(n - 1)'
    <3>1. queue' = <<Requests[3]>> /\ Head(queue) = Requests[2]
      BY <2>1, <2>4, RequestFacts, ShortSequences, Zenon
    <3>2. 2 \in 1 .. 4 /\ 3 \in 1 .. 4 /\ 3 - 1 = 2 /\ 2 - 1 = 1
      OBVIOUS
    <3>3. skipped'
      BY <2>1, <2>4
    <3>4. Upto(2)'
      <4>1. CASE set' = set
        BY <2>4, <3>3, <4>1, UptoStep, Zenon
      <4>2. CASE set' = Append(set, Requests[2])
        BY <2>1, <2>4, <3>2, <4>2, UptoStep, Zenon
      <4> QED BY <2>1, <3>1, <4>1, <4>2, Zenon
    <3> QED BY <3>1, <3>2, <3>4, Zenon
  <2>5. \/ \E n \in 1 .. 4 : queue = <<Requests[n]>> /\ Upto(n - 1)
        \/ queue = <<"boot_params", "patchlevel">> /\ Upto(1) /\ skipped
    BY <2>1, Zenon DEF SetInv
  <2> QED BY <2>2, <2>3, <2>4, <2>5, Zenon DEF SetInv
<1>2. CASE SmcIssue \/ SmcRestart
  <2>1. UNCHANGED <<at, req, skipped, result, set>> /\ smc \in {"issue", "restart"}
    BY <1>2, SmcFacts, Zenon
  <2>2. CASE queue' = queue
    BY <2>1, <2>2, Zenon DEF SetInv, Upto
  <2>3. CASE at = "send" /\ queue' = Append(queue, Requests[req])
    <3>1. (Nothing \/ StaleSend) /\ req \in 1 .. 4
      BY <2>1, <2>3, Zenon DEF ExchangeInv, SeqInv
    <3>2. result' # "ok"
      BY <2>1, <2>3, Zenon DEF SetInv, Ends
    <3>3. CASE Nothing
      <4>1. queue' = <<Requests[req]>>
        BY <2>3, <3>3, ShortSequences, Zenon DEF Nothing
      <4>2. Upto(req - 1)'
        BY <2>1, <3>3 DEF Nothing, Upto
      <4>3. queue' = <<Requests[req']>> /\ req' \in 1 .. 4
        BY <2>1, <3>1, <4>1, Zenon
      <4> QED BY <3>2, <4>2, <4>3, Zenon DEF SetInv
    <3>4. CASE StaleSend
      <4>1. req = 3 /\ skipped /\ 3 \in 1 .. 4 /\ 3 - 1 = 2
        BY <3>4 DEF StaleSend, Stale
      <4>2. CASE queue = <<>> /\ Upto(2)
        <5>1. queue' = <<Requests[3]>> /\ Upto(3 - 1)'
          BY <2>1, <2>3, <4>1, <4>2, ShortSequences, Zenon DEF Upto
        <5> QED BY <3>2, <4>1, <5>1, Zenon DEF SetInv
      <4>3. CASE queue = <<"boot_params">>
        <5>1. queue' = <<"boot_params", "patchlevel">>
          BY <2>3, <4>1, <4>3, RequestFacts, ShortAppends, Zenon
        <5>2. Upto(1)
          BY <4>3, BootParamsQueued, Zenon
        <5>3. Upto(1)' /\ skipped'
          BY <2>1, <4>1, <5>2, Zenon DEF Upto
        <5> QED BY <3>2, <5>1, <5>3, Zenon DEF SetInv
      <4> QED BY <3>4, <4>2, <4>3, Zenon DEF StaleSend
    <3> QED BY <3>1, <3>3, <3>4, Zenon
  <2> QED BY <1>2, <2>2, <2>3, SmcFacts, Zenon
<1>3. CASE ~Process /\ ~(SmcIssue \/ SmcRestart)
  <2>1. UNCHANGED <<queue, set>> /\ (skipped => skipped')
    BY <1>3, OtherFacts
  <2>2. \A n \in 0 .. 4 : Upto(n) => Upto(n)'
    BY <2>1, UptoStep, Zenon
  <2>3. /\ 1 \in 0 .. 4 /\ 4 \in 0 .. 4
        /\ \A n \in 1 .. 4 : n - 1 \in 0 .. 4
    OBVIOUS
  <2>4. \/ queue' = <<>> /\ \E n \in 0 .. 4 : Upto(n)'
        \/ \E n \in 1 .. 4 : queue' = <<Requests[n]>> /\ Upto(n - 1)'
        \/ queue' = <<"boot_params", "patchlevel">> /\ Upto(1)' /\ skipped'
    BY <2>1, <2>2, <2>3, Zenon DEF SetInv
  <2>5. result' = "ok" => Upto(4)' /\ queue' = <<>> /\ at' \in {"shutdown"} \cup Ends
    <3>1. CASE result' = "ok" /\ result # "ok"
      <4>1. Upto(4) /\ queue = <<>> /\ at' = "shutdown"
        BY <1>3, <3>1, SuccessStep, Zenon
      <4> QED BY <2>1, <2>2, <2>3, <4>1, Zenon
    <3>2. CASE result = "ok"
      <4>1. Upto(4) /\ queue = <<>> /\ at \in {"shutdown"} \cup Ends
        BY <3>2, Zenon DEF SetInv
      <4>2. at' \in {"shutdown"} \cup Ends
        BY <1>3, <4>1, EndStep, Zenon
      <4> QED BY <2>1, <2>2, <2>3, <4>1, <4>2, Zenon
    <3> QED BY <3>1, <3>2, Zenon
  <2> QED BY <2>4, <2>5, Zenon DEF SetInv
<1> QED BY <1>1, <1>2, <1>3, Zenon

\* A step that leaves Trusty and the request alone leaves all of this alone.
LEMMA SameExchange ==
  ASSUME UNCHANGED <<req, skipped, queue, frames, set>>
  PROVE  /\ Nothing' <=> Nothing
         /\ Stale' <=> Stale
         /\ StaleSend' <=> StaleSend
         /\ \A g : Outstanding(g)' <=> Outstanding(g)
<1>1. \A n : Upto(n)' <=> Upto(n)
  BY DEF Upto
<1>2. /\ Upto(req - 1)' <=> Upto(req - 1)
      /\ Upto(req)' <=> Upto(req)
      /\ Upto(2)' <=> Upto(2)
  BY <1>1
<1>3. Nothing' <=> Nothing
  BY <1>2, Zenon DEF Nothing
<1>4. \A g : Queued(g)' <=> Queued(g)
  BY <1>2, Zenon DEF Queued
<1>5. \A e : Settled(e)' <=> Settled(e)
  BY <1>2, Zenon DEF Settled
<1>6. \A g : Unread(g)' <=> Unread(g)
  BY <1>5, Zenon DEF Unread
<1>7. Stale' <=> Stale
  BY DEF Stale
<1>8. StaleSend' <=> StaleSend
  BY <1>2, <1>7, Zenon DEF StaleSend
<1>9. \A g : Outstanding(g)' <=> Outstanding(g)
  BY <1>4, <1>6, Zenon DEF Outstanding
<1> QED BY <1>3, <1>7, <1>8, <1>9, Zenon

LEMMA SameTaken ==
  ASSUME UNCHANGED <<req, got, skipped, answer, queue, frames, set>>
  PROVE  /\ Taken(answer.frame, got)' <=> Taken(answer.frame, got)
         /\ StaleTaken(answer.frame)' <=> StaleTaken(answer.frame)
<1>1. \A n : Upto(n)' <=> Upto(n)
  BY DEF Upto
<1>2. (Upto(req - 1)' <=> Upto(req - 1)) /\ (Upto(req)' <=> Upto(req))
  BY <1>1
<1>3. \A e : Settled(e)' <=> Settled(e)
  BY <1>2, Zenon DEF Settled
<1>4. Taken(answer.frame, got)' <=> Taken(answer.frame, got)
  BY <1>3, Zenon DEF Taken
<1>5. StaleTaken(answer.frame)' <=> StaleTaken(answer.frame)
  BY DEF StaleTaken
<1> QED BY <1>4, <1>5, Zenon

\* What is left of boot_params stays in front.
LEMMA StaleProcess ==
  ASSUME SeqInv, Process, Stale
  PROVE  Stale'
<1>1. UNCHANGED <<req, skipped>>
  BY ProcessFacts, Zenon
<1>2. PICK error \in BOOLEAN, split \in BOOLEAN :
        frames' = frames \o
          IF split THEN <<Reply(Head(queue), 1, FALSE, error), Reply(Head(queue), 1, TRUE, error)>>
                   ELSE <<Reply(Head(queue), 2, TRUE, error)>>
  BY ProcessFacts, Zenon
<1>3. Head(queue) \in Names
  BY ProcessFacts, Zenon
<1>4. PICK r \in Seq(Replies) :
        /\ frames' = frames \o r
        /\ \/ r = <<Reply(Head(queue), 1, FALSE, error), Reply(Head(queue), 1, TRUE, error)>>
           \/ r = <<Reply(Head(queue), 2, TRUE, error)>>
  BY <1>2, <1>3, ReplyType, Zenon
<1>5. frames' # <<>> /\ Head(frames').cmd = "boot_params"
  <2>1. CASE frames # <<>> /\ Head(frames).cmd = "boot_params"
    BY <1>4, <2>1, HeadStays, Zenon DEF SeqInv
  <2>2. CASE frames = <<>> /\ Head(queue) = "boot_params"
    <3>1. frames' = r
      BY <1>4, <2>2
    <3>2. r # <<>> /\ Head(r).cmd = Head(queue)
      <4>1. CASE r = <<Reply(Head(queue), 2, TRUE, error)>>
        <5>1. r # <<>> /\ Head(r) = Reply(Head(queue), 2, TRUE, error)
          BY <4>1, ShortSequences, Zenon
        <5> QED BY <5>1 DEF Reply
      <4>2. CASE r = <<Reply(Head(queue), 1, FALSE, error), Reply(Head(queue), 1, TRUE, error)>>
        <5>1. r # <<>> /\ Head(r) = Reply(Head(queue), 1, FALSE, error)
          BY <4>2, ShortSequences, Zenon
        <5> QED BY <5>1 DEF Reply
      <4> QED BY <1>4, <4>1, <4>2, Zenon
    <3> QED BY <2>2, <3>1, <3>2, Zenon
  <2> QED BY <2>1, <2>2, Zenon DEF Stale
<1>6. req' = 3 /\ skipped'
  BY <1>1 DEF Stale
<1> QED BY <1>5, <1>6, Zenon DEF Stale

\* Trusty answers the request: what was queued is now to be read.
LEMMA ProcessStep ==
  ASSUME SetInv, ExchangeInv, SeqInv, Process
  PROVE  ExchangeInv'
<1>1. UNCHANGED <<at, waiting, req, got, skipped, smc, answer>>
  BY ProcessFacts, Zenon
<1>2. queue # <<>> /\ queue' = Tail(queue) /\ ~Nothing /\ ~Unread(got) /\ ~Unread(0)
  BY ProcessFacts, Zenon DEF Nothing, Unread
<1>3. ~Taken(answer.frame, got)
  BY <1>2, Zenon DEF Taken
<1>4. ASSUME NEW g, Queued(g) PROVE Outstanding(g)'
  <2>1. queue' = <<>> /\ Head(queue) = Requests[req]
    BY <1>2, <1>4, ShortSequences, Zenon DEF Queued
  <2>2. PICK error \in BOOLEAN, split \in BOOLEAN :
          /\ set' = IF error THEN set ELSE Append(set, Head(queue))
          /\ frames' = frames \o
               IF split THEN <<Reply(Head(queue), 1, FALSE, error), Reply(Head(queue), 1, TRUE, error)>>
                        ELSE <<Reply(Head(queue), 2, TRUE, error)>>
    BY ProcessFacts, Zenon
  <2>3. Settled(error)'
    <3>1. Upto(req - 1) /\ req \in 1 .. 4 /\ skipped' = skipped
      BY <1>1, <1>4, Zenon DEF Queued, SeqInv
    <3>2. req - 1 \in 0 .. 4
      BY <3>1
    <3>3. CASE error
      <4>1. Upto(req - 1)'
        <5>1. set' = set
          BY <2>2, <3>3, Zenon
        <5> QED BY <1>1, <3>1, <5>1 DEF Upto
      <4> QED BY <3>3, <4>1, Zenon DEF Settled
    <3>4. CASE ~error
      <4>1. set' = Append(set, Requests[req])
        BY <2>1, <2>2, <3>4, Zenon
      <4>2. \A n \in 1 .. 4 : n = req => Upto(n)'
        BY <3>1, <4>1, UptoStep, Zenon
      <4>3. Upto(req)'
        BY <1>1, <3>1, <4>2
      <4> QED BY <3>4, <4>3, Zenon DEF Settled
    <3> QED BY <3>3, <3>4, Zenon
  <2>4. frames' = IF split THEN <<Reply(Requests[req], 1, FALSE, error), Reply(Requests[req], 1, TRUE, error)>>
                           ELSE <<Reply(Requests[req], 2, TRUE, error)>>
    BY <1>4, <2>1, <2>2, ShortSequences DEF Queued
  <2>5. g = 0
    BY <1>4, Zenon DEF Queued
  <2> QED BY <1>1, <2>1, <2>3, <2>4, <2>5, Zenon DEF Outstanding, Unread
<1>5. /\ Outstanding(got) => Outstanding(got)'
      /\ Outstanding(0) => Outstanding(0)'
  BY <1>1, <1>2, <1>4, Zenon DEF Outstanding
<1>6. Stale => Stale'
  BY StaleProcess, Zenon
<1>7. ASSUME StaleSend PROVE StaleSend'
  <2>1. queue = <<"boot_params">> /\ Stale'
    BY <1>2, <1>6, <1>7, Zenon DEF StaleSend
  <2>2. queue' = <<>> /\ Head(queue) = "boot_params"
    BY <1>2, <2>1, ShortSequences, Zenon
  <2>3. Upto(1)
    BY <2>1, BootParamsQueued, Zenon
  <2>4. set' = set \/ set' = Append(set, Requests[2])
    BY <2>2, ProcessFacts, RequestFacts, Zenon
  <2>5. skipped' = skipped /\ skipped' /\ 2 \in 1 .. 4 /\ 2 - 1 = 1
    BY <1>1, <1>7 DEF StaleSend, Stale
  <2>6. Upto(2)'
    BY <2>3, <2>4, <2>5, UptoStep, Zenon
  <2> QED BY <2>1, <2>2, <2>6, Zenon DEF StaleSend
<1>8. StaleTaken(answer.frame) => StaleTaken(answer.frame)'
  BY <1>1 DEF StaleTaken
<1> QED BY <1>1, <1>2, <1>3, <1>5, <1>6, <1>7, <1>8, Zenon DEF ExchangeInv

LEMMA AnswerFields ==
  ASSUME NEW ok, NEW event, NEW frame
  PROVE  Answer(ok, event, frame).ok = ok /\ Answer(ok, event, frame).frame = frame
BY Zenon DEF Answer

\* The hypercall sends a request, reads a frame or leaves the exchange alone.
LEMMA SmcExchange ==
  ASSUME SetInv, ExchangeInv, SeqInv, CallInv, SmcIssue \/ SmcRestart
  PROVE  ExchangeInv'
<1>1. /\ UNCHANGED <<at, waiting, req, got, skipped, set>>
      /\ smc \in {"issue", "restart"}
  BY SmcFacts, Zenon
<1>2. CASE UNCHANGED <<queue, frames>> /\ (smc' = "done" => ~answer'.ok)
  BY <1>1, <1>2, SameExchange, Zenon DEF ExchangeInv
<1>3. CASE smc' = "done" /\ Execute
  <2>1. CASE at = "send"
    <3>1. (Nothing \/ StaleSend) /\ op = "send" /\ req \in 1 .. 4
      BY <1>1, <2>1, CommandPlaces, Zenon DEF ExchangeInv, CallInv, SeqInv
    <3>2. /\ answer' = Answer(chan = "open", {}, NoFrame) /\ UNCHANGED frames
          /\ queue' = IF chan = "open" THEN Append(queue, Requests[req]) ELSE queue
      BY <1>3, <3>1, Zenon DEF Execute
    <3>3. answer'.ok = (chan = "open")
      BY <3>2, AnswerFields
    <3>4. CASE chan = "open"
      <4>1. queue' = Append(queue, Requests[req])
        BY <3>2, <3>4, Zenon
      <4>2. CASE Nothing
        <5>1. queue' = <<Requests[req']>> /\ frames' = <<>>
          BY <1>1, <3>2, <4>1, <4>2, ShortSequences, Zenon DEF Nothing
        <5>2. Upto(req - 1)'
          BY <1>1, <4>2 DEF Nothing, Upto
        <5>3. Outstanding(0)'
          BY <5>1, <5>2, Zenon DEF Outstanding, Queued
        <5> QED BY <1>1, <1>3, <2>1, <3>3, <3>4, <5>3, Zenon DEF ExchangeInv
      <4>3. CASE StaleSend
        <5>1. Requests[req] \in Names
          BY <3>1, RequestFacts, Zenon
        <5>2. queue # <<>> => queue' # <<>> /\ Head(queue') = Head(queue)
          BY <4>1, <5>1, HeadStays, Zenon DEF SeqInv
        <5>3. req' = 3 /\ skipped'
          BY <1>1, <4>3 DEF StaleSend, Stale
        <5>4. Stale'
          BY <3>2, <4>3, <5>2, <5>3, Zenon DEF StaleSend, Stale
        <5> QED BY <1>1, <1>3, <2>1, <3>3, <3>4, <5>4, Zenon DEF ExchangeInv
      <4> QED BY <3>1, <4>2, <4>3, Zenon
    <3>5. CASE chan # "open"
      <4>1. UNCHANGED <<queue, frames>> /\ ~answer'.ok
        BY <3>2, <3>3, <3>5, Zenon
      <4> QED BY <1>2, <4>1, Zenon
    <3> QED BY <3>4, <3>5, Zenon
  <2>2. CASE at = "recv"
    <3>1. (Outstanding(got) \/ Stale) /\ op = "recv" /\ waiting = "reply" /\ req \in 1 .. 4
      BY <1>1, <2>2, CommandPlaces, Zenon DEF ExchangeInv, CallInv, SeqInv
    <3>2. CASE frames = <<>>
      <4>1. UNCHANGED <<queue, frames>> /\ answer' = NoAnswer
        BY <1>3, <3>1, <3>2, Zenon DEF Execute
      <4>2. ~answer'.ok
        BY <4>1, AnswerFields, Zenon DEF NoAnswer
      <4> QED BY <1>1, <1>2, <4>1, <4>2, Zenon
    <3>3. CASE frames # <<>>
      <4>1. UNCHANGED queue /\ answer' = Answer(TRUE, {}, Head(frames)) /\ frames' = Tail(frames)
        BY <1>3, <3>1, <3>3, Zenon DEF Execute
      <4>2. answer'.ok /\ answer'.frame = Head(frames)
        BY <4>1, Zenon DEF Answer
      <4>3. Unread(got) \/ Stale
        BY <3>1, <3>3, Zenon DEF Outstanding, Queued
      <4>4. ASSUME Unread(got) PROVE Taken(answer.frame, got)'
        <5>1. queue' = <<>>
          BY <4>1, <4>4, Zenon DEF Unread
        <5>2. PICK e \in BOOLEAN :
                /\ Settled(e)
                /\ \/ got = 0 /\ frames = <<Reply(Requests[req], 2, TRUE, e)>>
                   \/ got = 0 /\ frames = <<Reply(Requests[req], 1, FALSE, e), Reply(Requests[req], 1, TRUE, e)>>
                   \/ got = 1 /\ frames = <<Reply(Requests[req], 1, TRUE, e)>>
          BY <4>4, Zenon DEF Unread
        <5>3. \/ got = 0 /\ Head(frames) = Reply(Requests[req], 2, TRUE, e) /\ Tail(frames) = <<>>
              \/ got = 0 /\ Head(frames) = Reply(Requests[req], 1, FALSE, e)
                 /\ Tail(frames) = <<Reply(Requests[req], 1, TRUE, e)>>
              \/ got = 1 /\ Head(frames) = Reply(Requests[req], 1, TRUE, e) /\ Tail(frames) = <<>>
          <6>1. CASE got = 0 /\ frames = <<Reply(Requests[req], 2, TRUE, e)>>
            BY <6>1, ShortSequences, Zenon
          <6>2. CASE got = 0 /\ frames = <<Reply(Requests[req], 1, FALSE, e), Reply(Requests[req], 1, TRUE, e)>>
            BY <6>2, ShortSequences, ZenonT(60)
          <6>3. CASE got = 1 /\ frames = <<Reply(Requests[req], 1, TRUE, e)>>
            BY <6>3, ShortSequences, Zenon
          <6> QED BY <5>2, <6>1, <6>2, <6>3, Zenon
        <5>4. Settled(e)'
          BY <1>1, <5>2 DEF Settled, Upto
        <5> QED BY <1>1, <4>1, <4>2, <5>1, <5>3, <5>4, Zenon DEF Taken
      <4>5. ASSUME Stale PROVE StaleTaken(answer.frame)'
        BY <1>1, <3>3, <4>2, <4>5 DEF Stale, StaleTaken
      <4> QED BY <1>1, <1>3, <2>2, <3>1, <4>2, <4>3, <4>4, <4>5, Zenon DEF ExchangeInv
    <3> QED BY <3>2, <3>3, Zenon
  <2>3. CASE at \notin {"send", "recv"}
    <3>1. UNCHANGED <<queue, frames>>
      BY <2>3, SmcFacts, Zenon
    <3> QED BY <1>1, <2>3, <3>1, SameExchange, Zenon DEF ExchangeInv
  <2> QED BY <2>1, <2>2, <2>3, Zenon
<1>4. \/ smc' = "done" /\ Execute
      \/ UNCHANGED <<queue, frames>> /\ smc' = "done" /\ answer' = NoAnswer
      \/ UNCHANGED <<queue, frames>> /\ smc' \in {"issue", "restart"}
  BY <1>1, Zenon DEF SmcIssue, SmcRestart, Completes, Interrupted, trusty
<1>5. ~NoAnswer.ok
  BY AnswerFields, Zenon DEF NoAnswer
<1> QED BY <1>2, <1>3, <1>4, <1>5, Zenon

\* boot_params was settled, or not yet: the requests before the patch level are done.
LEMMA PassOver ==
  ASSUME UNCHANGED <<queue, frames, set>>, req = 2, req' = 3, skipped'
  PROVE  /\ \A e \in BOOLEAN : Settled(e) => Upto(2)'
         /\ Upto(2)' /\ queue = <<>> /\ frames = <<>> => Nothing'
         /\ frames # <<>> /\ Head(frames).cmd = "boot_params" /\ queue = <<>> /\ Upto(2)' => StaleSend'
         /\ frames = <<>> /\ queue = <<"boot_params">> => StaleSend'
<1>1. 2 - 1 = 1 /\ 2 \in 0 .. 4 /\ 3 - 1 = 2
  OBVIOUS
<1>2. \A e \in BOOLEAN : Settled(e) => Upto(2)'
  <2>1. ASSUME NEW e \in BOOLEAN, Settled(e) PROVE Upto(1) \/ Upto(2)
    BY <1>1, <2>1, Zenon DEF Settled
  <2> QED BY <1>1, <2>1, UptoStep, Zenon
<1>3. Upto(2)' /\ queue = <<>> /\ frames = <<>> => Nothing'
  <2>1. Upto(2)' => Upto(req - 1)'
    BY <1>1 DEF Upto
  <2> QED BY <2>1, Zenon DEF Nothing
<1>4. frames # <<>> /\ Head(frames).cmd = "boot_params" /\ queue = <<>> /\ Upto(2)' => StaleSend'
  BY Zenon DEF StaleSend, Stale
<1>5. frames = <<>> /\ queue = <<"boot_params">> => StaleSend'
  BY ShortSequences, Zenon DEF StaleSend, Stale
<1> QED BY <1>2, <1>3, <1>4, <1>5, Zenon

\* The client reads a frame: the response goes on, or it is complete and nothing
\* of it is left, or boot_params is passed over.
LEMMA RecvStep ==
  ASSUME ExchangeInv, SeqInv, Recv
  PROVE  ExchangeInv'
<1>1. /\ UNCHANGED <<queue, frames, set, waiting>>
      /\ at = "recv" /\ smc = "done" /\ smc' = "idle" /\ waiting = "reply" /\ req \in 1 .. 4
  BY Zenon DEF Recv, Done, trusty, ExchangeInv, SeqInv
<1>2. CASE at' = "shutdown"
  BY <1>1, <1>2, Zenon DEF ExchangeInv
<1>3. CASE at' # "shutdown"
  <2>1. /\ answer.ok
        /\ \/ Requests[req] = "boot_params" /\ skipped' /\ req' = req + 1 /\ at' = "send"
           \/ /\ answer.frame.cmd = Requests[req] /\ got' = got + answer.frame.len
              /\ UNCHANGED skipped
              /\ \/ ~ReadEnds(answer.frame, got') /\ at' = "wait" /\ req' = req
                 \/ /\ ReadEnds(answer.frame, got') /\ ~answer.frame.error
                    /\ req < Len(Requests) /\ req' = req + 1 /\ at' = "send"
    BY <1>3, Zenon DEF Recv, Fail, Generic, Response
  <2>2. Taken(answer.frame, got)
    <3>1. Requests[req] = "boot_params" => req = 2
      BY <1>1, RequestFacts, Zenon
    <3>2. ~StaleTaken(answer.frame)
      BY <2>1, <3>1, RequestFacts DEF StaleTaken
    <3> QED BY <1>1, <2>1, <3>2, Zenon DEF ExchangeInv
  <2>3. PICK e \in BOOLEAN :
          /\ Settled(e)
          /\ \/ got = 0 /\ answer.frame = Reply(Requests[req], 2, TRUE, e) /\ frames = <<>>
             \/ got = 0 /\ answer.frame = Reply(Requests[req], 1, FALSE, e)
                /\ frames = <<Reply(Requests[req], 1, TRUE, e)>>
             \/ got = 1 /\ answer.frame = Reply(Requests[req], 1, TRUE, e) /\ frames = <<>>
    BY <2>2, Zenon DEF Taken
  <2>4. queue = <<>>
    BY <2>2, Zenon DEF Taken
  <2>5. CASE Requests[req] = "boot_params" /\ skipped' /\ req' = req + 1 /\ at' = "send"
    <3>1. req = 2
      BY <1>1, <2>5, RequestFacts, Zenon
    <3>2. req' = 3
      BY <2>5, <3>1
    <3>3. Upto(2)'
      BY <1>1, <2>3, <2>5, <3>1, <3>2, PassOver, Zenon
    <3>4. CASE frames = <<>>
      <4>1. Nothing'
        BY <1>1, <2>4, <2>5, <3>1, <3>2, <3>3, <3>4, PassOver, Zenon
      <4> QED BY <1>1, <2>5, <4>1 DEF ExchangeInv
    <3>5. CASE frames = <<Reply(Requests[req], 1, TRUE, e)>>
      <4>1. frames # <<>> /\ Head(frames) = Reply(Requests[req], 1, TRUE, e)
        BY <3>5, ShortSequences, Zenon
      <4>2. Head(frames).cmd = "boot_params"
        BY <2>5, <4>1 DEF Reply
      <4>3. StaleSend'
        BY <1>1, <2>4, <2>5, <3>1, <3>2, <3>3, <4>1, <4>2, PassOver, Zenon
      <4> QED BY <1>1, <2>5, <4>3 DEF ExchangeInv
    <3> QED BY <2>3, <3>4, <3>5, Zenon
  <2>6. CASE /\ got' = got + answer.frame.len /\ skipped' = skipped
             /\ ~ReadEnds(answer.frame, got') /\ at' = "wait" /\ req' = req
    <3>1. answer.frame = Reply(Requests[req], 1, FALSE, e)
      <4>1. ASSUME NEW c, NEW n PROVE Reply(c, n, TRUE, e).stop
        BY DEF Reply
      <4>2. ~answer.frame.stop
        BY <2>6, Zenon DEF ReadEnds
      <4> QED BY <2>3, <4>1, <4>2, Zenon
    <3>2. answer.frame.len = 1 /\ ~answer.frame.stop
      BY <3>1 DEF Reply
    <3>3. got = 0 /\ frames = <<Reply(Requests[req], 1, TRUE, e)>>
      BY <2>3, <3>1, <3>2 DEF Reply
    <3>4. got' = 1
      BY <2>6, <3>2, <3>3
    <3>5. Settled(e)'
      BY <1>1, <2>3, <2>6 DEF Settled, Upto
    <3>6. Unread(got)'
      BY <1>1, <2>4, <2>6, <3>3, <3>4, <3>5, Zenon DEF Unread
    <3> QED BY <1>1, <2>6, <3>6, Zenon DEF ExchangeInv, Outstanding
  <2>7. CASE /\ got' = got + answer.frame.len /\ skipped' = skipped
             /\ ReadEnds(answer.frame, got') /\ ~answer.frame.error
             /\ req < Len(Requests) /\ req' = req + 1 /\ at' = "send"
    <3>1. answer.frame # Reply(Requests[req], 1, FALSE, e)
      <4>1. SUFFICES ASSUME answer.frame = Reply(Requests[req], 1, FALSE, e) PROVE FALSE
        BY Zenon
      <4>2. answer.frame.len = 1 /\ ~answer.frame.stop
        BY <4>1 DEF Reply
      <4>3. got = 0
        BY <2>3, <4>1, <4>2 DEF Reply
      <4> QED BY <2>7, <4>2, <4>3 DEF ReadEnds, RespLen
    <3>2. frames = <<>> /\ answer.frame.error = e
      <4>1. \/ answer.frame = Reply(Requests[req], 2, TRUE, e) /\ frames = <<>>
            \/ answer.frame = Reply(Requests[req], 1, TRUE, e) /\ frames = <<>>
        BY <2>3, <3>1, Zenon
      <4> QED BY <4>1 DEF Reply
    <3>3. ~e
      BY <2>7, <3>2, Zenon
    <3>4. Upto(req)
      BY <2>3, <3>3, Zenon DEF Settled
    <3>5. req' - 1 = req
      BY <1>1, <2>7
    <3>6. Upto(req - 1)'
      BY <1>1, <2>7, <3>4, <3>5 DEF Upto
    <3>7. Nothing'
      BY <1>1, <2>4, <3>2, <3>6, Zenon DEF Nothing
    <3> QED BY <1>1, <2>7, <3>7, SMTT(30) DEF ExchangeInv
  <2> QED BY <2>1, <2>5, <2>6, <2>7, Zenon
<1> QED BY <1>2, <1>3, Zenon

\* The client takes an event: an error of the channel passes over boot_params.
LEMMA WaitStep ==
  ASSUME ExchangeInv, SeqInv, Wait
  PROVE  ExchangeInv'
<1>1. /\ UNCHANGED <<got, waiting, queue, frames, set>> /\ at = "wait" /\ smc' = "idle"
      /\ waiting \in {"connect", "reply"} /\ req \in 1 .. 4
  BY Zenon DEF Wait, Done, trusty, ExchangeInv, SeqInv
<1>2. \/ /\ waiting = "reply" /\ Requests[req] = "boot_params" /\ skipped'
         /\ req' = req + 1 /\ at' = "send"
      \/ /\ UNCHANGED <<req, skipped>>
         /\ \/ at' \in {"shutdown", "close", "wait"}
            \/ at' = "send" /\ waiting = "connect"
            \/ at' = "recv" /\ waiting = "reply"
  BY <1>1, Zenon DEF Wait, WaitErrs, WaitFails, Generic, Fail
<1>3. CASE UNCHANGED <<req, skipped>> /\ \/ at' \in {"shutdown", "close", "wait"}
                                         \/ at' = "send" /\ waiting = "connect"
                                         \/ at' = "recv" /\ waiting = "reply"
  BY <1>1, <1>3, SameExchange, Zenon DEF ExchangeInv
<1>4. CASE /\ waiting = "reply" /\ Requests[req] = "boot_params" /\ skipped'
           /\ req' = req + 1 /\ at' = "send"
  <2>1. req = 2
    BY <1>1, <1>4, RequestFacts, Zenon
  <2>2. req' = 3 /\ ~Stale
    BY <1>4, <2>1 DEF Stale
  <2>3. Queued(got) \/ Unread(got)
    BY <1>1, <1>4, <2>2, Zenon DEF ExchangeInv, Outstanding
  <2>4. CASE Queued(got)
    <3>1. frames = <<>> /\ queue = <<"boot_params">>
      BY <1>4, <2>4, Zenon DEF Queued
    <3>2. StaleSend'
      BY <1>1, <1>4, <2>1, <2>2, <3>1, PassOver, Zenon
    <3> QED BY <1>1, <1>4, <3>2 DEF ExchangeInv
  <2>5. CASE Unread(got)
    <3>1. PICK e \in BOOLEAN :
            /\ Settled(e)
            /\ \/ frames = <<Reply(Requests[req], 2, TRUE, e)>>
               \/ frames = <<Reply(Requests[req], 1, FALSE, e), Reply(Requests[req], 1, TRUE, e)>>
               \/ frames = <<Reply(Requests[req], 1, TRUE, e)>>
      BY <2>5, Zenon DEF Unread
    <3>2. Upto(2)' /\ queue = <<>>
      BY <1>1, <1>4, <2>1, <2>2, <2>5, <3>1, PassOver, Zenon DEF Unread
    <3>3. /\ frames # <<>>
          /\ \/ Head(frames) = Reply(Requests[req], 2, TRUE, e)
             \/ Head(frames) = Reply(Requests[req], 1, FALSE, e)
             \/ Head(frames) = Reply(Requests[req], 1, TRUE, e)
      <4>1. CASE frames = <<Reply(Requests[req], 2, TRUE, e)>>
        BY <4>1, ShortSequences, Zenon
      <4>2. CASE frames = <<Reply(Requests[req], 1, FALSE, e), Reply(Requests[req], 1, TRUE, e)>>
        BY <4>2, ShortSequences, ZenonT(60)
      <4>3. CASE frames = <<Reply(Requests[req], 1, TRUE, e)>>
        BY <4>3, ShortSequences, Zenon
      <4> QED BY <3>1, <4>1, <4>2, <4>3, Zenon
    <3>4. Head(frames).cmd = "boot_params"
      BY <1>4, <3>3 DEF Reply
    <3>5. StaleSend'
      BY <1>1, <1>4, <2>1, <2>2, <3>2, <3>3, <3>4, PassOver, Zenon
    <3> QED BY <1>1, <1>4, <3>5 DEF ExchangeInv
  <2> QED BY <2>3, <2>4, <2>5, Zenon
<1> QED BY <1>2, <1>3, <1>4, Zenon

LEMMA ExchangeStep ==
  SetInv /\ ExchangeInv /\ SeqInv /\ CallInv /\ [TipcNext]_tipc_vars => ExchangeInv'
<1> SUFFICES ASSUME SetInv, ExchangeInv, SeqInv, CallInv, [TipcNext]_tipc_vars
             PROVE  ExchangeInv'
  BY Zenon
<1>1. CASE Process
  BY <1>1, ProcessStep, Zenon
<1>2. CASE SmcIssue \/ SmcRestart
  BY <1>2, SmcExchange, Zenon
<1>3. CASE Recv
  BY <1>3, RecvStep, Zenon
<1>4. CASE Accept \/ HangUp \/ Stopped \/ UNCHANGED tipc_vars
  <2>1. UNCHANGED <<at, waiting, req, got, skipped, smc, answer, queue, frames, set>>
    BY <1>4, Zenon DEF Accept, HangUp, Stopped, client, call, tipc_vars
  <2> QED BY <2>1, SameExchange, SameTaken, Zenon DEF ExchangeInv
<1>5. CASE Exec
  <2>1. UNCHANGED <<at, waiting, req, got, skipped, answer, queue, frames, set>> /\ smc = "idle" /\ smc' = "issue"
    BY <1>5, Zenon DEF Exec, client, trusty
  <2> QED BY <2>1, SameExchange, Zenon DEF ExchangeInv
<1>6. CASE TrustyDevInit \/ DevAlloc \/ DevCreate \/ ShutdownNothing \/ DevShutdown \/ Close
           \/ SerializeFails \/ Connect
  <2>1. /\ UNCHANGED <<req, skipped, queue, frames, set>> /\ waiting' \in {"connect", waiting}
        /\ \/ at' \in {"shutdown", "null", "abort", "end"}
           \/ /\ at \in {"init", "alloc", "create", "connect"}
              /\ \/ at' \in {"alloc", "create", "connect"}
                 \/ at' = "wait" /\ waiting' = "connect"
    BY <1>6, Zenon DEF TrustyDevInit, DevAlloc, DevCreate, ShutdownNothing, DevShutdown, Connect,
                Close, SerializeFails, Done, Fail, ReclaimAndFree, trusty
  <2> QED BY <2>1, SameExchange, Zenon DEF ExchangeInv
<1>7. CASE Wait
  BY <1>7, WaitStep, Zenon
<1>8. CASE Send
  <2>1. /\ UNCHANGED <<req, skipped, queue, frames, set>> /\ at = "send" /\ smc = "done"
        /\ \/ at' = "shutdown" /\ waiting' = waiting
           \/ answer.ok /\ at' = "wait" /\ waiting' = "reply" /\ got' = 0
    BY <1>8, Zenon DEF Send, Done, Fail, trusty
  <2> QED BY <2>1, SameExchange, Zenon DEF ExchangeInv
<1> QED BY <1>1, <1>2, <1>3, <1>4, <1>5, <1>6, <1>7, <1>8, ZenonT(60) DEF TipcNext, Client

TipcInv == CallInv /\ BufferInv /\ SeqInv /\ SetInv /\ ExchangeInv

LEMMA TipcInvariant == TipcSpec => []TipcInv
<1>1. TipcInit => TipcInv
  <2> SUFFICES ASSUME TipcInit PROVE TipcInv
    BY Zenon
  <2>1. CallInv /\ BufferInv
    BY CommandPlaces, Zenon DEF TipcInit, CallInv, BufferInv, Places, Ends
  <2>2. set = <<>> /\ queue = <<>> /\ frames = <<>> /\ req = 1 /\ result = "none"
        /\ at = "init" /\ waiting = "connect" /\ smc = "idle"
    BY Zenon DEF TipcInit
  <2>3. 1 - 1 = 0 /\ 0 \in 0 .. 4 /\ SeqInv
    BY <2>2 DEF SeqInv
  <2>4. Upto(0)
    BY <2>2, Carried, Zenon DEF Upto
  <2>5. SetInv /\ Nothing
    BY <2>2, <2>3, <2>4, Zenon DEF SetInv, Nothing
  <2>6. ExchangeInv
    BY <2>2, <2>5, Zenon DEF ExchangeInv
  <2> QED BY <2>1, <2>3, <2>5, <2>6, Zenon DEF TipcInv
<1>2. TipcInv /\ [TipcNext]_tipc_vars => TipcInv'
  BY CallStep, SeqStep, SetInvStep, ExchangeStep, Zenon DEF TipcInv
<1> QED BY <1>1, <1>2, PTL DEF TipcSpec

\* What Keymaster has carried out is the beginning of one of the two lists.
LEMMA UptoIsPrefix ==
  ASSUME NEW n \in 0 .. 4, Upto(n)
  PROVE  \E q \in {Requests, Others} : Len(set) <= Len(q) /\ \A i \in DOMAIN set : set[i] = q[i]
<1>1. CASE set = All(n)
  <2>1. Len(set) <= Len(Requests) /\ \A i \in DOMAIN set : set[i] = Requests[i]
    BY <1>1 DEF All, Requests
  <2> QED BY <2>1, Zenon
<1>2. CASE n \in 2 .. 4 /\ set = Less(n)
  <2>1. Len(set) <= Len(Others) /\ \A i \in DOMAIN set : set[i] = Others[i]
    BY <1>2 DEF Less, Others
  <2> QED BY <2>1, Zenon
<1> QED BY <1>1, <1>2, Zenon DEF Upto

\* However often hypercalls are interrupted and whatever fails, Keymaster carries
\* the requests of km_tipc_init out once each and in order, and trusty_ipc_init
\* reports success only when it has carried out all of them, or all but a
\* boot_params whose failure was taken for a root of trust that was already set.
THEOREM RequestsInOrder == TipcSpec => []Provisioned
<1>1. TipcInv => Provisioned
  <2> SUFFICES ASSUME SetInv PROVE Provisioned
    BY Zenon DEF TipcInv
  <2>1. \E n \in 0 .. 4 : Upto(n)
    <3>1. 1 \in 0 .. 4 /\ \A n \in 1 .. 4 : n - 1 \in 0 .. 4
      OBVIOUS
    <3> QED BY <3>1, Zenon DEF SetInv
  <2>2. result = "ok" => set = Requests \/ (skipped /\ set = Others)
    BY Carried, Zenon DEF SetInv, Upto
  <2> QED BY <2>1, <2>2, UptoIsPrefix, Zenon DEF Provisioned
<1> QED BY <1>1, TipcInvariant, PTL

\* When the client sends a request, the response to the one before has been read
\* to its last frame (km_read_raw_response); only a boot_params that was passed over
\* may leave something, and only the patch level is sent over it.
THEOREM ResponsesRead == TipcSpec => []InStep
<1>1. TipcInv => InStep
  <2>1. StaleSend => skipped /\ Requests[req] = "patchlevel"
    BY RequestFacts, Zenon DEF StaleSend, Stale
  <2> QED BY <2>1, Zenon DEF TipcInv, ExchangeInv, Nothing, InStep
<1> QED BY <1>1, TipcInvariant, PTL

-----------------------------------------------------------------------------
(* Types *)

\* What the invariants above do not say of the types.
RestType ==
  /\ buf \in {"none", "own", "shared", "freed"} /\ skipped \in BOOLEAN
  /\ result \in {"none", "ok", "error"}
  /\ chan \in {"none", "connecting", "open", "hup"} /\ edge \subseteq {"ready", "unblocked", "error"}

CountType ==
  got \in 0 .. RespLen /\ interrupts \in 0 .. MaxInterrupts /\ faults \in 0 .. MaxFaults

LEMMA RestStep == RestType /\ [TipcNext]_tipc_vars => RestType'
<1> SUFFICES ASSUME RestType, [TipcNext]_tipc_vars PROVE RestType'
  BY Zenon
<1>1. UNCHANGED buf \/ buf' \in {"none", "own", "shared", "freed"}
  BY ZenonT(60) DEF TipcNext, Client, Exec, SmcIssue, SmcRestart, TrustyDevInit, DevAlloc, DevCreate,
     ShutdownNothing, DevShutdown, ReclaimAndFree, Connect, Wait, Close, SerializeFails, Send,
     Recv, Accept, Process, HangUp, Stopped, client, tipc_vars
<1>2. UNCHANGED result \/ result' \in {"ok", "error"}
  BY Zenon DEF TipcNext, Client, Exec, SmcIssue, SmcRestart, TrustyDevInit, DevAlloc, DevCreate,
     ShutdownNothing, DevShutdown, Connect, Wait, WaitFails, WaitErrs, Generic, Close, SerializeFails,
     Send, Fail, Recv, Response, Accept, Process, HangUp, Stopped, client, tipc_vars
<1>3. /\ UNCHANGED chan \/ chan' \in {"none", "connecting", "open", "hup"}
      /\ edge' \in {edge, {}, edge \cup {"ready"}, edge \cup {"unblocked"}, edge \cup {"error"}}
  <2>1. CASE SmcIssue \/ SmcRestart
    BY <2>1, Zenon DEF SmcIssue, SmcRestart, Completes, Execute, Interrupted, trusty
  <2>2. CASE ~(SmcIssue \/ SmcRestart)
    BY <2>2, Zenon DEF TipcNext, Client, Exec, TrustyDevInit, DevAlloc, DevCreate, ShutdownNothing,
       DevShutdown, Connect, Wait, Close, SerializeFails, Send, Recv, Done, Accept, Process,
       HangUp, Stopped, trusty, tipc_vars
  <2> QED BY <2>1, <2>2, Zenon
<1>4. skipped' = skipped \/ skipped' = TRUE
  <2>1. CASE Process
    BY <2>1, Zenon DEF Process, client
  <2>2. CASE SmcIssue \/ SmcRestart
    BY <2>2, Zenon DEF SmcIssue, SmcRestart, client
  <2>3. CASE ~Process /\ ~(SmcIssue \/ SmcRestart)
    BY <2>3, OtherFacts
  <2> QED BY <2>1, <2>2, <2>3, Zenon
<1>5. skipped' \in BOOLEAN
  BY <1>4, Zenon DEF RestType
<1> QED BY <1>1, <1>2, <1>3, <1>5, Zenon DEF RestType

LEMMA CountStep == CountType /\ ExchangeInv /\ [TipcNext]_tipc_vars => CountType'
<1> SUFFICES ASSUME CountType, ExchangeInv, [TipcNext]_tipc_vars PROVE CountType'
  BY Zenon
<1>1. interrupts' = interrupts \/ (interrupts < MaxInterrupts /\ interrupts' = interrupts + 1)
  BY ZenonT(60) DEF TipcNext, Client, Exec, SmcIssue, SmcRestart, Completes, Interrupted, TrustyDevInit,
     DevAlloc, DevCreate, ShutdownNothing, DevShutdown, Connect, Wait, Close, SerializeFails,
     Send, Recv, Done, Accept, Process, HangUp, Stopped, tipc_vars
<1>2. faults' = faults \/ (faults < MaxFaults /\ faults' = faults + 1)
  BY Zenon DEF TipcNext, Client, Exec, SmcIssue, SmcRestart, Completes, Interrupted, TrustyDevInit,
     DevAlloc, DevCreate, ReclaimAndFree, ShutdownNothing, DevShutdown, Connect, Wait, Close,
     SerializeFails, Send, Recv, Malformed, Accept, Process, HangUp, Fault, Stopped, tipc_vars
<1>3. got' \in 0 .. RespLen
  <2>1. CASE Recv
    <3>1. CASE got' = got
      BY <3>1, Zenon DEF CountType
    <3>2. CASE got' # got
      <4>1. /\ at = "recv" /\ smc = "done" /\ answer.ok /\ got' = got + answer.frame.len
            /\ answer.frame.cmd = Requests[req]
        BY <2>1, <3>2, Zenon DEF Recv, Done
      <4>2. Taken(answer.frame, got)
        <5>1. ~StaleTaken(answer.frame)
          BY <4>1, RequestFacts DEF StaleTaken
        <5> QED BY <4>1, <5>1, Zenon DEF ExchangeInv
      <4>3. PICK e \in BOOLEAN :
              \/ got = 0 /\ answer.frame = Reply(Requests[req], 2, TRUE, e)
              \/ got = 0 /\ answer.frame = Reply(Requests[req], 1, FALSE, e)
              \/ got = 1 /\ answer.frame = Reply(Requests[req], 1, TRUE, e)
        BY <4>2, Zenon DEF Taken
      <4>4. got \in {0, 1} /\ got + answer.frame.len \in {1, 2}
        BY <4>3 DEF Reply
      <4> QED BY <4>1, <4>4, SMTT(30) DEF RespLen
    <3> QED BY <3>1, <3>2, Zenon
  <2>2. CASE Send
    BY <2>2 DEF Send, CountType, RespLen
  <2>3. CASE ~Recv /\ ~Send
    <3>1. UNCHANGED got
      BY <2>3, Zenon DEF TipcNext, Client, Exec, SmcIssue, SmcRestart, TrustyDevInit, DevAlloc, DevCreate,
         ShutdownNothing, DevShutdown, Connect, Wait, Close, SerializeFails, Accept, Process,
         HangUp, Stopped, client, tipc_vars
    <3> QED BY <3>1, Zenon DEF CountType
  <2> QED BY <2>1, <2>2, <2>3, Zenon
<1> QED BY <1>1, <1>2, <1>3, TipcAssumption DEF CountType

\* The variables keep their types; what was read of a response never exceeds the
\* buffer (resp_len of km_read_raw_response).
THEOREM TipcTypeCorrect == TipcSpec => []TipcTypeOK
<1>1. TipcInit => RestType /\ CountType
  <2>1. TipcInit => RestType
    BY Zenon DEF TipcInit, RestType
  <2>2. TipcInit => CountType
    BY TipcAssumption DEF TipcInit, CountType, RespLen
  <2> QED BY <2>1, <2>2, Zenon
<1>2. RestType /\ CountType /\ TipcInv /\ [TipcNext]_tipc_vars => RestType' /\ CountType'
  BY RestStep, CountStep, Zenon DEF TipcInv
<1>3. RestType /\ CountType /\ TipcInv => TipcTypeOK
  <2> SUFFICES ASSUME RestType, CountType, CallInv, SeqInv, ExchangeInv PROVE TipcTypeOK
    BY Zenon DEF TipcInv
  <2>1. req \in DOMAIN Requests
    BY RequestFacts DEF SeqInv
  <2> QED BY <2>1, CommandPlaces, Zenon DEF RestType, CountType, CallInv, ExchangeInv, TipcTypeOK
<1> QED BY <1>1, <1>2, <1>3, TipcInvariant, PTL DEF TipcSpec

=============================================================================
