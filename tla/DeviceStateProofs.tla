------------------------- MODULE DeviceStateProofs -------------------------
(***************************************************************************)
(* What DeviceState guarantees of private data for user builds and of the  *)
(* answers to flashing commands for any build, for any number of faults.   *)
(***************************************************************************)
EXTENDS DeviceState, TLAPS

NoPrivate == \A p \in Part : data[p] # "private"

\* The cached state claims "unlocked" only of a device that is not locked.
CacheIsSafe == current_state = UNLOCKED => oem_lock # LOCKED

\* Private data exist only on a locked device, and a system is only started
\* outside provisioning mode.
PrivateOnlyLocked == /\ oem_lock # LOCKED => NoPrivate
                     /\ provisioning_mode => NoPrivate
                     /\ pc = "os" => ~provisioning_mode

\* Progress of change_device_state: what has been erased when.
WipeProgress ==
  /\ userdata_erased => data["userdata"] # "private"
  /\ pc = "os" => ~userdata_erased
  /\ pc = "wipe_metadata" => data["userdata"] # "private"
  /\ pc \in {"reset0", "reset1"} => NoPrivate
  /\ pc = "store" /\ change.new_state = UNLOCKED => NoPrivate

\* PrivateDataNeedFreshSystem, for any build.
IndexesKept == ~NoPrivate => \A l \in Location : rollback[l] >= owner_index[l]

\* A platform on which a missing variable always means provisioning.
Distinct == LifeCycle \in {"unsupported", "other"}

\* Without unreadable variables a running boot knows the stored state, a change
\* in progress has not been answered, and OKAY is only said of a stored state.
CacheIsCurrent ==
  /\ pc # "off" => \/ current_state = oem_lock
                   \/ /\ oem_lock = "none" /\ current_state = UNLOCKED
                      /\ provisioning_mode
  /\ pc \notin {"off", "fastboot", "os"} => reply # "okay"
  /\ reply = "okay" /\ pc = "fastboot" => current_state = oem_lock

IndInv == /\ TypeOK /\ CacheIsSafe /\ PrivateOnlyLocked /\ WipeProgress
          /\ IndexesKept

\* What a read of the state returns on any build, and what it returns when it
\* succeeds on a platform that tells provisioning by the variable alone.
LEMMA ReadStateAny ==
  ASSUME NEW lock \in {"none", LOCKED, UNLOCKED},
         NEW prov \in BOOLEAN, NEW unreadable \in BOOLEAN
  PROVE  LET s == ReadState(lock, prov, unreadable)
         IN  /\ s.state \in {LOCKED, UNLOCKED} /\ s.prov \in BOOLEAN
             /\ ~unreadable /\ lock # "none" => s.state = lock /\ s.prov = prov
             /\ ~unreadable /\ lock = "none" /\ Distinct
                  => s.state = UNLOCKED /\ s.prov
<1> USE DEF LOCKED, UNLOCKED
<1>1. CASE unreadable \/ (lock = "none" /\ LifeCycle = "virtual")
  BY <1>1, Zenon DEF ReadState, Distinct
<1>2. CASE ~unreadable /\ lock = "none" /\ LifeCycle # "virtual"
  BY <1>2, StateAssumption, Zenon DEF ReadState, User, Distinct
<1>3. CASE ~unreadable /\ lock # "none"
  BY <1>3, Zenon DEF ReadState
<1> QED BY <1>1, <1>2, <1>3, Zenon

\* What a read of the state returns on a user build.
LEMMA ReadStateSafe ==
  ASSUME User,
         NEW lock \in {"none", LOCKED, UNLOCKED},
         NEW prov \in BOOLEAN, NEW unreadable \in BOOLEAN
  PROVE  LET s == ReadState(lock, prov, unreadable)
         IN  /\ s.state \in {LOCKED, UNLOCKED} /\ s.prov \in BOOLEAN
             /\ s.state = UNLOCKED => lock # LOCKED
             /\ s.prov => prov \/ lock = "none"
<1> USE DEF LOCKED, UNLOCKED
<1>1. CASE unreadable \/ (lock = "none" /\ LifeCycle = "virtual")
  BY <1>1, Zenon DEF ReadState, User
<1>2. CASE ~unreadable /\ lock = "none" /\ LifeCycle # "virtual"
  BY <1>2, StateAssumption, Zenon DEF ReadState, User
<1>3. CASE ~unreadable /\ lock # "none"
  BY <1>3, Zenon DEF ReadState, User
<1> QED BY <1>1, <1>2, <1>3, Zenon

LEMMA Start == Init => IndInv
<1> SUFFICES ASSUME Init PROVE IndInv BY Zenon
<1> USE DEF Init, LOCKED, UNLOCKED, UNKNOWN
<1>1. TypeOK
  <2>1. rollback \in Indexes /\ owner_index \in Indexes /\ faults \in 0 .. MaxFaults
    BY StateAssumption DEF Indexes
  <2>2. data \in [Part -> Content]
    BY Zenon DEF Content
  <2>3. change \in [new_state : {LOCKED, UNLOCKED}, interactive : BOOLEAN]
    BY Zenon
  <2> QED BY <2>1, <2>2, <2>3, Zenon DEF TypeOK, PCs
<1>2. NoPrivate
  BY Zenon DEF NoPrivate
<1>3. CacheIsSafe /\ PrivateOnlyLocked /\ WipeProgress
  BY <1>2, Zenon DEF CacheIsSafe, PrivateOnlyLocked, WipeProgress
<1>4. IndexesKept
  BY <1>2, Zenon DEF NoPrivate, IndexesKept
<1> QED BY <1>1, <1>3, <1>4, Zenon DEF IndInv

\* Steps that leave alone all the invariant speaks of but pc, and end in a place
\* of which it says nothing.
LEMMA QuietStep ==
  ASSUME IndInv, TypeOK',
         UNCHANGED <<stored, cached, userdata_erased, owner_index>>,
         pc' \in {"off", "fastboot", "wipe_userdata"}
  PROVE  IndInv'
BY Zenon DEF IndInv, CacheIsSafe, PrivateOnlyLocked, WipeProgress, NoPrivate,
       IndexesKept, stored, cached

\* change_device_state is entered past the wipe only in provisioning mode.
LEMMA StartStep ==
  ASSUME User, IndInv, TypeOK',
         UNCHANGED <<stored, cached, userdata_erased, owner_index>>,
         NEW new \in {LOCKED, UNLOCKED}, NEW interactive \in BOOLEAN,
         StartChange(new, interactive)
  PROVE  IndInv'
<1>1. CASE Wipes(new)
  BY <1>1, QuietStep, Zenon DEF StartChange
<1>2. CASE ~Wipes(new)
  <2>1. NoPrivate /\ NoPrivate'
    BY <1>2, Zenon DEF User, Wipes, IndInv, PrivateOnlyLocked, NoPrivate, stored
  <2>2. pc' \in {"reset0", "store"}
    BY <1>2, Zenon DEF StartChange, AfterWipe
  <2> QED
    BY <2>1, <2>2, Zenon DEF IndInv, CacheIsSafe, PrivateOnlyLocked, WipeProgress,
       NoPrivate, IndexesKept, stored, cached
<1> QED BY <1>1, <1>2, Zenon

LEMMA FaultType ==
  ASSUME TypeOK
  PROVE  /\ \A k : Fault(k) => faults' \in 0 .. MaxFaults
         /\ \A k : \A bad \in BOOLEAN : Access(k, bad) => faults' \in 0 .. MaxFaults
         /\ NoFault => faults' \in 0 .. MaxFaults
BY StateAssumption DEF TypeOK, Fault, NoFault, Access

\* What efi_main makes of the stored state on a user build.
LEMMA StartupResult ==
  ASSUME User, TypeOK,
         NEW early \in BOOLEAN, NEW badread \in BOOLEAN, NEW badwrite \in BOOLEAN
  PROVE  LET s == StartupState(early, badread, badwrite)
         IN  /\ s.lock \in {"none", LOCKED, UNLOCKED}
             /\ s.state \in {LOCKED, UNLOCKED} /\ s.prov \in BOOLEAN
             /\ oem_lock # "none" => s.lock = oem_lock
             /\ s.state = UNLOCKED => s.lock # LOCKED
             /\ s.prov => oem_lock = "none"
<1> DEFINE writes == Defaulted(oem_lock = "none" /\ ~badread) /\ ~badwrite
           first == ReadState(oem_lock, FALSE, badread)
<1>1. /\ first.state \in {LOCKED, UNLOCKED} /\ first.prov \in BOOLEAN
      /\ first.state = UNLOCKED => oem_lock # LOCKED
      /\ first.prov => oem_lock = "none"
  BY ReadStateSafe, Zenon DEF TypeOK
<1>2. CASE writes
  BY <1>1, <1>2, Zenon DEF StartupState, Defaulted, DefaultState, User, LOCKED, UNLOCKED,
     TypeOK
<1>3. CASE ~writes
  BY <1>1, <1>3, Zenon DEF StartupState, TypeOK
<1> QED BY <1>2, <1>3, Zenon

LEMMA BootResult ==
  ASSUME User, TypeOK, Boot
  PROVE  /\ oem_lock' \in {"none", LOCKED, UNLOCKED}
         /\ current_state' \in {LOCKED, UNLOCKED} /\ provisioning_mode' \in BOOLEAN
         /\ faults' \in 0 .. MaxFaults /\ pc' \in {"fastboot", "os"}
         /\ oem_lock # "none" => oem_lock' = oem_lock
         /\ current_state' = UNLOCKED => oem_lock' # LOCKED
         /\ provisioning_mode' => oem_lock = "none" /\ pc' = "fastboot"
<1>1. PICK early, badread, badwrite \in BOOLEAN :
        LET s == StartupState(early, badread, badwrite)
        IN  /\ IF badwrite THEN Fault("write") ELSE Access("read", badread)
            /\ oem_lock' = s.lock
            /\ current_state' = s.state /\ provisioning_mode' = s.prov
            /\ \/ pc' = "fastboot"
               \/ pc' = "os" /\ ~(User /\ s.prov)
  BY ZenonT(60) DEF Boot
<1>2. faults' \in 0 .. MaxFaults
  BY <1>1, FaultType, Zenon
<1>3. pc' \in {"fastboot", "os"} /\ (provisioning_mode' => pc' = "fastboot")
  BY <1>1, Zenon DEF User
<1> QED BY <1>1, <1>2, <1>3, StartupResult

\* The same on any build; where nothing is unreadable the boot knows the state.
LEMMA StartupAny ==
  ASSUME TypeOK,
         NEW early \in BOOLEAN, NEW badread \in BOOLEAN, NEW badwrite \in BOOLEAN
  PROVE  LET s == StartupState(early, badread, badwrite)
         IN  /\ s.lock \in {"none", LOCKED, UNLOCKED}
             /\ s.state \in {LOCKED, UNLOCKED} /\ s.prov \in BOOLEAN
             /\ ~badread /\ Distinct =>
                  \/ s.state = s.lock
                  \/ s.lock = "none" /\ s.state = UNLOCKED /\ s.prov
<1> DEFINE writes == Defaulted(oem_lock = "none" /\ ~badread) /\ ~badwrite
           first == ReadState(oem_lock, FALSE, badread)
<1>1. /\ first.state \in {LOCKED, UNLOCKED} /\ first.prov \in BOOLEAN
      /\ ~badread /\ oem_lock # "none" => first.state = oem_lock
      /\ ~badread /\ oem_lock = "none" /\ Distinct => first.state = UNLOCKED /\ first.prov
  BY ReadStateAny, Zenon DEF TypeOK
<1>2. CASE writes
  BY <1>1, <1>2, Zenon DEF StartupState, DefaultState, TypeOK
<1>3. CASE ~writes
  BY <1>1, <1>3, Zenon DEF StartupState, TypeOK
<1> QED BY <1>2, <1>3, Zenon

LEMMA BootAny ==
  ASSUME TypeOK, Boot
  PROVE  /\ oem_lock' \in {"none", LOCKED, UNLOCKED}
         /\ current_state' \in {LOCKED, UNLOCKED} /\ provisioning_mode' \in BOOLEAN
         /\ faults' \in 0 .. MaxFaults /\ pc' \in {"fastboot", "os"}
         /\ "read" \notin config.faults /\ Distinct =>
              \/ current_state' = oem_lock'
              \/ oem_lock' = "none" /\ current_state' = UNLOCKED /\ provisioning_mode'
<1>1. PICK early, badread, badwrite \in BOOLEAN :
        LET s == StartupState(early, badread, badwrite)
        IN  /\ ~(badread /\ badwrite)
            /\ IF badwrite THEN Fault("write") ELSE Access("read", badread)
            /\ oem_lock' = s.lock
            /\ current_state' = s.state /\ provisioning_mode' = s.prov
            /\ pc' \in {"fastboot", "os"}
  BY ZenonT(60) DEF Boot
<1>2. faults' \in 0 .. MaxFaults
  BY <1>1, FaultType, Zenon
<1>3. "read" \notin config.faults => ~badread
  BY <1>1, Zenon DEF Access, Fault
<1> QED BY <1>1, <1>2, <1>3, StartupAny, ZenonT(60)

LEMMA TypeStep == TypeOK /\ Next => TypeOK'
<1> SUFFICES ASSUME TypeOK, Next PROVE TypeOK' BY Zenon
<1>1. CASE Boot
  <2>1. /\ oem_lock' \in {"none", LOCKED, UNLOCKED}
        /\ current_state' \in {LOCKED, UNLOCKED} /\ provisioning_mode' \in BOOLEAN
        /\ faults' \in 0 .. MaxFaults /\ pc' \in {"fastboot", "os"}
    BY <1>1, BootAny, Zenon
  <2> QED BY <1>1, <2>1, Zenon DEF TypeOK, Boot, PCs
<1>2. CASE PowerLoss \/ OsReboot \/ cmd_reboot \/ cmd_oem_reprovision
  BY <1>2, FaultType, ZenonT(60) DEF TypeOK, PowerLoss, OsReboot, cmd_reboot, cmd_oem_reprovision,
     stored, cached, PCs
<1>3. CASE \E p \in Part : OsWriteData(p) \/ cmd_flash(p)
  BY <1>3, FaultType, ZenonT(60) DEF TypeOK, OsWriteData, cmd_flash, cached, Content
<1>4. CASE \E p \in Part : cmd_erase(p)
  BY <1>4, FaultType, ZenonT(60) DEF TypeOK, cmd_erase, Erase, cached, Content
<1>5. CASE \E l \in Location : OsRaiseIndex(l)
  BY <1>5, FaultType, StateAssumption DEF TypeOK, OsRaiseIndex, cached, Indexes
<1>6. CASE WipeUserdata \/ WipeMetadata
  <2>1. /\ UNCHANGED <<oem_lock, rollback, persist_byte, cached, change, owner_index>>
        /\ pc' \in PCs /\ reply' \in {"none", "okay", "fail"}
    BY <1>6, Zenon DEF TypeOK, WipeUserdata, WipeMetadata, WipeStep, WipeFailed, Answer,
       AfterWipe, PCs
  <2>2. data' \in [Part -> Content] /\ userdata_erased' \in BOOLEAN
    BY <1>6, Zenon DEF TypeOK, WipeUserdata, WipeMetadata, WipeStep, Erase, Content, Part
  <2>3. faults' \in 0 .. MaxFaults
    BY <1>6, FaultType, Zenon DEF WipeUserdata, WipeMetadata, WipeStep, Erase
  <2> QED BY <2>1, <2>2, <2>3, Zenon DEF TypeOK, cached
<1>7. CASE ResetRollback
  BY <1>7, FaultType, StateAssumption DEF TypeOK, ResetRollback, ResetStep,
     cached, Indexes, PCs, Location
<1>8. CASE StoreState
  <2> PICK bad \in BOOLEAN :
        /\ Access("write", bad)
        /\ set_current_state(change.new_state, bad)
        /\ Answer(IF bad THEN "fail" ELSE "okay")
    BY <1>8, Zenon DEF StoreState
  <2>1. faults' \in 0 .. MaxFaults
    BY FaultType, Zenon
  <2>2. /\ oem_lock' \in {"none", LOCKED, UNLOCKED}
        /\ current_state' \in {UNKNOWN, LOCKED, UNLOCKED}
        /\ reply' \in {"none", "okay", "fail"}
    BY Zenon DEF TypeOK, set_current_state, Answer
  <2> QED BY <1>8, <2>1, <2>2, Zenon DEF StoreState, TypeOK, PCs
<1>9. CASE cmd_lock \/ force_unlock \/ cmd_unlock
  <2>1. faults' \in 0 .. MaxFaults
    BY <1>9, FaultType, Zenon DEF cmd_lock, force_unlock, cmd_unlock
  <2>2. \/ Refuse("okay") \/ Refuse("fail")
        \/ \E new \in {LOCKED, UNLOCKED}, i \in BOOLEAN : StartChange(new, i)
    BY <1>9, Zenon DEF cmd_lock, force_unlock, cmd_unlock
  <2>3. UNCHANGED <<stored, cached, userdata_erased, owner_index>>
    BY <1>9, Zenon DEF cmd_lock, force_unlock, cmd_unlock
  <2>4. CASE Refuse("okay") \/ Refuse("fail")
    BY <2>1, <2>3, <2>4, Zenon DEF TypeOK, Refuse, stored, cached, PCs
  <2>5. CASE \E new \in {LOCKED, UNLOCKED}, i \in BOOLEAN : StartChange(new, i)
    BY <2>1, <2>3, <2>5 DEF TypeOK, StartChange, AfterWipe, stored, cached, PCs
  <2> QED BY <2>2, <2>4, <2>5, Zenon
<1>10. CASE cmd_oem_set_storage
  <2> PICK unreadable \in BOOLEAN :
        LET r == ReadState(oem_lock, provisioning_mode, unreadable)
        IN  /\ Access("read", unreadable)
            /\ current_state' = r.state /\ provisioning_mode' = r.prov
    BY <1>10, Zenon DEF cmd_oem_set_storage
  <2>1. faults' \in 0 .. MaxFaults
    BY FaultType, Zenon
  <2>2. current_state' \in {LOCKED, UNLOCKED} /\ provisioning_mode' \in BOOLEAN
    BY ReadStateAny, Zenon DEF TypeOK
  <2> QED BY <1>10, <2>1, <2>2, Zenon DEF TypeOK, cmd_oem_set_storage, stored
<1> QED BY <1>1, <1>2, <1>3, <1>4, <1>5, <1>6, <1>7, <1>8, <1>9, <1>10, Zenon
           DEF Next

LEMMA InvStep == User /\ IndInv /\ [Next]_vars => IndInv'
<1> SUFFICES ASSUME User, IndInv, [Next]_vars PROVE IndInv' BY Zenon
<1>0. CASE UNCHANGED vars
  BY <1>0 DEF IndInv, TypeOK, CacheIsSafe, PrivateOnlyLocked, WipeProgress,
     NoPrivate, IndexesKept, vars, stored, cached
<1> SUFFICES ASSUME Next PROVE IndInv' BY <1>0, Zenon
<1>t. TypeOK /\ TypeOK' BY TypeStep, Zenon DEF IndInv
<1> DEFINE Rest == /\ CacheIsSafe /\ PrivateOnlyLocked /\ WipeProgress
                   /\ IndexesKept
<1>r. Rest BY Zenon DEF IndInv
<1> USE DEF CacheIsSafe, PrivateOnlyLocked, WipeProgress, NoPrivate,
            IndexesKept
<1>1. CASE Boot
  <2>1. UNCHANGED <<rollback, data, owner_index>> /\ userdata_erased' = FALSE
    BY <1>1, Zenon DEF Boot
  <2> QED BY <1>1, <1>t, <1>r, <2>1, BootResult, Zenon DEF IndInv, LOCKED
<1>2. CASE PowerLoss \/ cmd_reboot
  BY <1>2, <1>t, QuietStep, Zenon DEF PowerLoss, cmd_reboot, stored, cached
<1>3. CASE OsReboot
  BY <1>3, <1>t, <1>r, Zenon DEF OsReboot, IndInv, cached
<1>4. CASE cmd_oem_reprovision
  BY <1>4, Zenon DEF cmd_oem_reprovision, User
<1>5. ASSUME NEW p \in Part, OsWriteData(p) PROVE IndInv'
  <2>1. rollback' = rollback /\ (oem_lock = LOCKED => owner_index' = rollback)
    BY <1>5, Zenon DEF OsWriteData
  <2>2. \A l \in Location : rollback[l] \in Nat
    BY <1>t, StateAssumption DEF TypeOK, Indexes
  <2>3. IndexesKept'
    <3>1. CASE oem_lock = LOCKED
      BY <2>1, <2>2, <3>1
    <3>2. CASE oem_lock # LOCKED
      BY <1>5, <1>t, <1>r, <3>2, Zenon DEF OsWriteData, TypeOK
    <3> QED BY <3>1, <3>2, Zenon
  <2>4. (CacheIsSafe /\ PrivateOnlyLocked /\ WipeProgress)'
    BY <1>5, <1>t, <1>r, Zenon DEF OsWriteData, TypeOK, cached
  <2> QED BY <1>t, <2>3, <2>4, Zenon DEF IndInv
<1>6. ASSUME NEW p \in Part, cmd_erase(p) \/ cmd_flash(p) PROVE IndInv'
  <2>1. /\ \A q \in Part : data'[q] = "private" => data[q] = "private"
        /\ userdata_erased' => data'["userdata"] # "private"
    BY <1>6, <1>t, <1>r, Zenon DEF cmd_erase, cmd_flash, Erase, TypeOK, Part
  <2>2. /\ pc = "fastboot" /\ pc' = "fastboot"
        /\ UNCHANGED <<oem_lock, rollback, cached, owner_index>>
    BY <1>6, Zenon DEF cmd_erase, cmd_flash
  <2> QED BY <1>t, <1>r, <2>1, <2>2, Zenon DEF IndInv, cached
<1>7. ASSUME NEW l \in Location, OsRaiseIndex(l) PROVE IndInv'
  BY <1>7, <1>t, <1>r, StateAssumption DEF OsRaiseIndex, IndInv, TypeOK, Indexes, cached
<1>8. CASE WipeUserdata
  <2>1. /\ \A q \in Part : data'[q] = "private" => data[q] = "private"
        /\ userdata_erased' => data'["userdata"] # "private"
        /\ pc' \in {"wipe_metadata", "fastboot"}
        /\ pc' = "wipe_metadata" => data'["userdata"] # "private"
        /\ UNCHANGED <<oem_lock, rollback, cached, change, owner_index>>
    BY <1>8, <1>t, <1>r, Zenon DEF WipeUserdata, WipeStep, WipeFailed, Erase, TypeOK, Part
  <2> QED BY <1>t, <1>r, <2>1, Zenon DEF IndInv, cached
<1>9. CASE WipeMetadata
  <2>1. /\ \A q \in Part : data'[q] = "private" => data[q] = "private"
        /\ pc' \in {"reset0", "store", "fastboot"}
        /\ pc' # "fastboot" => NoPrivate'
        /\ UNCHANGED <<oem_lock, rollback, cached, change, owner_index, userdata_erased>>
    BY <1>9, <1>t, <1>r, Zenon DEF WipeMetadata, WipeStep, WipeFailed, Erase, AfterWipe,
       TypeOK, Part
  <2> QED BY <1>t, <1>r, <2>1, Zenon DEF IndInv, cached, Part
<1>10. CASE ResetRollback
  BY <1>10, <1>t, <1>r, Zenon DEF ResetRollback, ResetStep, IndInv, cached
<1>11. CASE StoreState
  <2>1. /\ pc' = "fastboot"
        /\ UNCHANGED <<rollback, data, provisioning_mode, userdata_erased, owner_index>>
        /\ \/ UNCHANGED <<oem_lock, current_state>>
           \/ oem_lock' = change.new_state /\ current_state' = change.new_state
    BY <1>11, Zenon DEF StoreState, set_current_state
  <2>2. oem_lock' # LOCKED => NoPrivate
    BY <1>11, <1>t, <1>r, <2>1, Zenon DEF StoreState, TypeOK
  <2> QED BY <1>t, <1>r, <2>1, <2>2, Zenon DEF IndInv, LOCKED, UNLOCKED
<1>12. CASE cmd_lock \/ force_unlock \/ cmd_unlock
  <2>1. UNCHANGED <<stored, cached, userdata_erased, owner_index>>
    BY <1>12, Zenon DEF cmd_lock, force_unlock, cmd_unlock
  <2>2. \/ Refuse("okay") \/ Refuse("fail")
        \/ \E new \in {LOCKED, UNLOCKED}, i \in BOOLEAN : StartChange(new, i)
    BY <1>12, Zenon DEF cmd_lock, force_unlock, cmd_unlock
  <2> QED BY <1>t, <2>1, <2>2, QuietStep, StartStep, Zenon DEF Refuse
<1>13. CASE cmd_oem_set_storage
  <2>1. PICK unreadable \in BOOLEAN :
        LET r == ReadState(oem_lock, provisioning_mode, unreadable)
        IN  current_state' = r.state /\ provisioning_mode' = r.prov
    BY <1>13, Zenon DEF cmd_oem_set_storage
  <2>2. /\ current_state' = UNLOCKED => oem_lock # LOCKED
        /\ provisioning_mode' => provisioning_mode \/ oem_lock = "none"
    BY <1>t, <2>1, ReadStateSafe, Zenon DEF TypeOK
  <2>3. UNCHANGED <<stored, pc, userdata_erased, change, owner_index>> /\ pc = "fastboot"
    BY <1>13, Zenon DEF cmd_oem_set_storage
  <2> QED BY <1>t, <1>r, <2>2, <2>3, Zenon DEF IndInv, stored, LOCKED
<1> QED BY <1>1, <1>2, <1>3, <1>4, <1>5, <1>6, <1>7, <1>8, <1>9, <1>10, <1>11,
           <1>12, <1>13, Zenon DEF Next

\* The build does not change.
LEMMA ConfigIsConstant == [Next]_vars => config' = config
BY Zenon DEF Next, vars, Boot, PowerLoss, OsWriteData, OsRaiseIndex, OsReboot, WipeUserdata,
   WipeMetadata, WipeStep, ResetRollback, StoreState, cmd_lock, cmd_unlock,
   force_unlock, cmd_erase, cmd_flash, cmd_oem_set_storage, cmd_oem_reprovision,
   cmd_reboot

\* CacheIsCurrent is preserved where nothing is unreadable.
LEMMA CurrentStep ==
  ASSUME Distinct, "read" \notin config.faults, TypeOK, TypeOK', CacheIsCurrent,
         [Next]_vars
  PROVE  CacheIsCurrent'
<1>0. CASE UNCHANGED vars
  BY <1>0, Zenon DEF CacheIsCurrent, vars, stored, cached
<1>1. CASE Boot
  BY <1>1, BootAny, Zenon DEF CacheIsCurrent, Boot
<1>2. CASE PowerLoss \/ OsReboot \/ cmd_reboot \/ cmd_oem_reprovision
  BY <1>2, Zenon DEF CacheIsCurrent, PowerLoss, OsReboot, cmd_reboot, cmd_oem_reprovision
<1>3. CASE \E p \in Part : OsWriteData(p) \/ cmd_erase(p) \/ cmd_flash(p)
  BY <1>3 DEF CacheIsCurrent, OsWriteData, cmd_erase, cmd_flash, cached
<1>4. CASE \E l \in Location : OsRaiseIndex(l)
  BY <1>4 DEF CacheIsCurrent, OsRaiseIndex, cached
<1>5. CASE WipeUserdata \/ WipeMetadata
  <2>1. /\ pc \in {"wipe_userdata", "wipe_metadata"}
        /\ pc' \in {"fastboot", "wipe_metadata", "reset0", "store"}
        /\ UNCHANGED <<oem_lock, cached>> /\ reply' \in {reply, "fail"}
    BY <1>5, Zenon DEF WipeUserdata, WipeMetadata, WipeStep, WipeFailed, Answer, AfterWipe
  <2> QED BY <2>1, Zenon DEF CacheIsCurrent, cached
<1>6. CASE ResetRollback
  BY <1>6, Zenon DEF CacheIsCurrent, ResetRollback, ResetStep, cached
<1>7. CASE StoreState
  <2>1. /\ pc = "store" /\ pc' = "fastboot" /\ UNCHANGED provisioning_mode
        /\ \/ /\ UNCHANGED <<oem_lock, current_state>> /\ reply' \in {reply, "fail"}
           \/ oem_lock' = change.new_state /\ current_state' = change.new_state
    BY <1>7, Zenon DEF StoreState, set_current_state, Answer
  <2> QED BY <2>1, Zenon DEF CacheIsCurrent
<1>8. CASE cmd_lock \/ cmd_unlock \/ force_unlock
  <2>1. pc = "fastboot" /\ UNCHANGED <<oem_lock, cached>>
    BY <1>8, Zenon DEF cmd_lock, cmd_unlock, force_unlock, stored
  <2>2. \/ pc' = "fastboot" /\ reply' = "okay" /\ (AlreadyIn(LOCKED) \/ AlreadyIn(UNLOCKED))
        \/ pc' = "fastboot" /\ reply' = "fail"
        \/ pc' \in {"wipe_userdata", "reset0", "store"} /\ reply' = "none"
    BY <1>8, Zenon DEF cmd_lock, cmd_unlock, force_unlock, Refuse, StartChange, AfterWipe
  <2> QED BY <2>1, <2>2, Zenon DEF CacheIsCurrent, AlreadyIn, cached
<1>9. CASE cmd_oem_set_storage
  <2>1. PICK unreadable \in BOOLEAN :
          LET r == ReadState(oem_lock, provisioning_mode, unreadable)
          IN  /\ Access("read", unreadable)
              /\ current_state' = r.state /\ provisioning_mode' = r.prov
    BY <1>9, Zenon DEF cmd_oem_set_storage
  <2>2. ~unreadable
    BY <2>1, Zenon DEF Access, Fault
  <2>3. \/ oem_lock # "none" /\ current_state' = oem_lock
        \/ oem_lock = "none" /\ current_state' = UNLOCKED /\ provisioning_mode'
    BY <2>1, <2>2, ReadStateAny, ZenonT(60) DEF TypeOK
  <2>4. oem_lock = "none" => current_state # oem_lock
    BY Zenon DEF TypeOK, LOCKED, UNLOCKED, UNKNOWN
  <2> QED BY <1>9, <2>3, <2>4, Zenon DEF CacheIsCurrent, cmd_oem_set_storage, stored
<1> QED BY <1>0, <1>1, <1>2, <1>3, <1>4, <1>5, <1>6, <1>7, <1>8, <1>9, Zenon DEF Next

-----------------------------------------------------------------------------
(* Theorems *)

\* The inductive invariant holds throughout on a user build.
THEOREM Invariance == Spec => [](User => IndInv)
<1>1. [Next]_vars => (User <=> User')
  BY ConfigIsConstant, Zenon DEF User
<1> QED BY <1>1, Start, InvStep, PTL DEF Spec

\* Types of all variables, on every build.
THEOREM TypeCorrect == Spec => []TypeOK
<1>1. Init => TypeOK BY Start, Zenon DEF IndInv
<1>2. TypeOK /\ UNCHANGED vars => TypeOK'
  BY Zenon DEF TypeOK, vars, stored, cached
<1> QED BY <1>1, <1>2, TypeStep, PTL DEF Spec

\* On a user build no system is started unlocked over data written on the
\* locked device, whatever fails while change_device_state runs.
THEOREM DataStayLocked == Spec => []PrivateDataStaysLocked
<1>1. (User => IndInv) => PrivateDataStaysLocked
  BY Zenon DEF IndInv, CacheIsSafe, PrivateOnlyLocked, NoPrivate, PrivateDataStaysLocked
<1> QED BY <1>1, Invariance, PTL

\* On a user build the rollback indexes are only reset after the data they
\* protect are gone.
THEOREM DataNeedFreshSystem == Spec => []PrivateDataNeedFreshSystem
<1>1. (User => IndInv) => PrivateDataNeedFreshSystem
  BY Zenon DEF IndInv, IndexesKept, NoPrivate, PrivateDataNeedFreshSystem
<1> QED BY <1>1, Invariance, PTL

\* On every build of a platform where a missing variable always means
\* provisioning, and whatever write or power supply fails, a flashing command
\* answered OKAY left its state in the variable and in the cache.
THEOREM OkayIsStored == Distinct => (Spec => []OkayMeansStored)
<1> DEFINE Cond == "read" \notin config.faults
           Known == Cond => CacheIsCurrent
<1> SUFFICES ASSUME Distinct PROVE Spec => []OkayMeansStored BY Zenon
<1>1. Init => Known
  BY Zenon DEF Init, CacheIsCurrent
<1>2. TypeOK /\ TypeOK' /\ Known /\ [Next]_vars => Known'
  BY CurrentStep, ConfigIsConstant, Zenon
<1>3. Known => OkayMeansStored
  BY Zenon DEF CacheIsCurrent, OkayMeansStored
<1> HIDE DEF Known
<1> QED BY <1>1, <1>2, <1>3, TypeCorrect, PTL DEF Spec
=============================================================================
