---------------------------- MODULE DeviceState ----------------------------
(***************************************************************************)
(* The lock state of a device (libkernelflinger/vars.c), the commands that *)
(* change it (libfastboot/fastboot_flashing.c, fastboot_oem.c) and what it *)
(* guards: user data (flash.c) and the stored rollback indexes.            *)
(*                                                                         *)
(* change_device_state writes four kinds of persistent state one after the *)
(* other: userdata, metadata, the rollback indexes, the OEMLock variable.  *)
(* Each write is a step; power may fail and each access may fail.          *)
(***************************************************************************)
EXTENDS Integers

CONSTANTS
  Configs,      \* the builds considered, see config
  LifeCycle,    \* answer of the platform about its life cycle, see ReadState
  MaxIndex,     \* largest rollback index
  MaxFaults     \* bound on faults

ASSUME StateAssumption ==
  /\ Configs \subseteq [build : {"user", "userdebug", "eng"}, use_sbl : BOOLEAN,
                        faults : SUBSET {"power", "read", "write"}]
  /\ LifeCycle \in {"unsupported", "error", "other", "enduser", "virtual"}
  /\ MaxIndex \in Nat /\ MaxFaults \in Nat

VARIABLES
  config,           \* the build: build is "user" (USER, USERDEBUG), "userdebug"
                    \* (USERDEBUG) or "eng"; with use_sbl (USE_SBL) OEMLock is left
                    \* alone at start-up; faults are the kinds that may happen
  \* persistent
  oem_lock,         \* EFI variable OEMLock: "none", LOCKED or UNLOCKED
  rollback,         \* stored rollback index of locations 0 and 1
  data,             \* who wrote the partitions userdata and metadata last
  persist_byte,     \* last byte of "persistent" is 1: unlock allowed
  \* of one boot
  pc,
  current_state,    \* vars.c: cached device state
  provisioning_mode,
  userdata_erased,  \* flash.c: userdata was erased during this boot
  change,           \* arguments of change_device_state
  reply,            \* final answer to the last flashing command
  \* history
  owner_index,      \* rollback indexes in force when private data were written
  faults

stored == <<oem_lock, rollback, data, persist_byte>>
cached == <<current_state, provisioning_mode>>
vars == <<config, stored, pc, cached, userdata_erased, change, reply, owner_index, faults>>

LOCKED == "LOCKED"
UNLOCKED == "UNLOCKED"
UNKNOWN == "UNKNOWN_STATE"
Location == {0, 1}
Part == {"userdata", "metadata"}
\* Erased; written by the system of a locked device; of one that is not;
\* flashed by the host.
Content == {"empty", "private", "open", "flashed"}
PCs == {"off", "fastboot", "os", "wipe_userdata", "wipe_metadata",
        "reset0", "reset1", "store"}
Indexes == [Location -> 0 .. MaxIndex]

TypeOK ==
  /\ oem_lock \in {"none", LOCKED, UNLOCKED}
  /\ rollback \in Indexes /\ owner_index \in Indexes
  /\ data \in [Part -> Content]
  /\ persist_byte \in BOOLEAN
  /\ pc \in PCs
  /\ current_state \in {UNKNOWN, LOCKED, UNLOCKED}
  /\ provisioning_mode \in BOOLEAN
  /\ userdata_erased \in BOOLEAN
  /\ change \in [new_state : {LOCKED, UNLOCKED}, interactive : BOOLEAN]
  /\ reply \in {"none", "okay", "fail"}
  /\ faults \in 0 .. MaxFaults

\* A device as it leaves the factory.
Init ==
  /\ config \in Configs
  /\ oem_lock = "none"
  /\ rollback = [l \in Location |-> 0] /\ owner_index = [l \in Location |-> 0]
  /\ data = [p \in Part |-> "empty"]
  /\ persist_byte = FALSE
  /\ pc = "off"
  /\ current_state = UNKNOWN /\ provisioning_mode = FALSE
  /\ userdata_erased = FALSE
  /\ change = [new_state |-> LOCKED, interactive |-> FALSE]
  /\ reply = "none"
  /\ faults = 0

User == config.build = "user"

Fault(k) == k \in config.faults /\ faults < MaxFaults /\ faults' = faults + 1
NoFault == UNCHANGED faults

\* An access that may fail: "bad" tells whether it did.
Access(k, bad) == IF bad THEN Fault(k) ELSE NoFault

-----------------------------------------------------------------------------
(* Reading the state *)

\* (mutant of ReadState: an unreadable state counts as unlocked)
ReadStateOptimistic(lock, prov, unreadable) ==
  [state |-> IF unreadable \/ lock = "none" THEN UNLOCKED ELSE lock,
   prov |-> prov \/ (lock = "none" /\ ~unreadable)]

\* get_current_state with nothing cached: the state and the provisioning mode
\* (prov if the read does not decide it).  A missing variable means a device
\* in provisioning, depending on the life cycle protocol; on a virtual boot
\* device it counts as a read error.
ReadState(lock, prov, unreadable) ==
  LET provisioning(p) == [state |-> IF p THEN UNLOCKED ELSE LOCKED, prov |-> p]
  IN  CASE unreadable \/ (lock = "none" /\ LifeCycle = "virtual") ->
             [state |-> IF User THEN LOCKED ELSE UNLOCKED, prov |-> prov]
        [] lock = "none" /\ ~unreadable /\ LifeCycle # "virtual" ->
             provisioning(CASE LifeCycle \in {"unsupported", "other"} -> TRUE
                            [] LifeCycle = "error" -> FALSE
                            [] LifeCycle = "enduser" -> ~User)
        [] OTHER -> [state |-> lock, prov |-> prov]

\* efi_main gives OEMLock a default: unlocked on every boot of a userdebug
\* build, locked on the first boot of a user build.
Defaulted(missing) == ~config.use_sbl /\ (~User \/ missing)
DefaultState == IF User THEN LOCKED ELSE UNLOCKED

\* The stored and the cached state after that.  With early, something (an error
\* message being logged) asked for the state before the default was written.
StartupState(early, badread, badwrite) ==
  LET writes == Defaulted(oem_lock = "none" /\ ~badread) /\ ~badwrite
      lock == IF writes THEN DefaultState ELSE oem_lock
      first == ReadState(oem_lock, FALSE, badread)
      later == ReadState(lock, FALSE, badread)
  IN  [lock  |-> lock,
       state |-> CASE writes -> DefaultState
                   [] ~writes /\ early -> first.state
                   [] OTHER -> later.state,
       prov  |-> CASE early -> first.prov
                   [] ~early /\ writes -> FALSE
                   [] OTHER -> later.prov]

\* efi_main up to the boot target.  The result of the default write is ignored;
\* a user build in provisioning mode is forced into fastboot.
Boot ==
  /\ pc = "off"
  /\ \E early, badread, badwrite \in BOOLEAN :
       LET s == StartupState(early, badread, badwrite)
       IN  /\ ~(badread /\ badwrite)
           /\ badwrite => Defaulted(oem_lock = "none")
           /\ IF badwrite THEN Fault("write") ELSE Access("read", badread)
           /\ oem_lock' = s.lock
           /\ current_state' = s.state /\ provisioning_mode' = s.prov
           /\ \/ pc' = "fastboot"
              \/ pc' = "os" /\ ~(User /\ s.prov)
  /\ userdata_erased' = FALSE /\ reply' = "none"
  /\ UNCHANGED <<config, rollback, data, persist_byte, change, owner_index>>

PowerLoss ==
  /\ pc # "off" /\ Fault("power")
  /\ pc' = "off"
  /\ UNCHANGED <<config, stored, cached, userdata_erased, change, reply, owner_index>>

-----------------------------------------------------------------------------
(* The running system (external): it writes user data, its verified boot     *)
(* raises the stored indexes, it sets the persistent byte, it reboots.       *)

OsWriteData(p) ==
  /\ pc = "os"
  /\ data' = [data EXCEPT ![p] = IF oem_lock = LOCKED THEN "private"
                                 ELSE "open"]
  /\ owner_index' = IF oem_lock = LOCKED THEN rollback ELSE owner_index
  /\ UNCHANGED <<config, oem_lock, rollback, persist_byte, pc, cached, userdata_erased,
                 change, reply, faults>>

OsRaiseIndex(l) ==
  /\ pc = "os" /\ rollback[l] < MaxIndex
  /\ rollback' = [rollback EXCEPT ![l] = @ + 1]
  /\ UNCHANGED <<config, oem_lock, data, persist_byte, pc, cached, userdata_erased,
                 change, reply, owner_index, faults>>

OsReboot ==
  /\ pc = "os"
  /\ pc' = "off"
  /\ persist_byte' \in BOOLEAN
  /\ UNCHANGED <<config, oem_lock, rollback, data, cached, userdata_erased, change,
                 reply, owner_index, faults>>

-----------------------------------------------------------------------------
(* change_device_state *)

\* Data are kept in provisioning mode and by eng builds.
Wipes(new) == config.build # "eng" /\ ~provisioning_mode

AfterWipe(new) == IF new = UNLOCKED THEN "reset0" ELSE "store"

StartChange(new, interactive) ==
  /\ change' = [new_state |-> new, interactive |-> interactive]
  /\ reply' = "none"
  /\ pc' = IF Wipes(new) THEN "wipe_userdata" ELSE AfterWipe(new)

Answer(r) == reply' = IF change.interactive THEN r ELSE reply

\* The changes of erase_by_label.  userdata is erased at most once per boot of
\* a user build.
Erase(p) ==
  /\ NoFault
  /\ IF p = "userdata" /\ userdata_erased
     THEN UNCHANGED <<data, userdata_erased>>
     ELSE /\ data' = [data EXCEPT ![p] = "empty"]
          /\ userdata_erased' = IF User /\ p = "userdata" THEN TRUE
                                ELSE userdata_erased

\* (mutant of WipeFailed: any erase error is taken for a missing partition)
WipeFailedGoesOn(next) == pc' = next /\ UNCHANGED reply

WipeFailed(next) == pc' = "fastboot" /\ Answer("fail")

WipeStep(p, next) ==
  /\ \/ Erase(p) /\ pc' = next /\ UNCHANGED reply
     \/ /\ ~(p = "userdata" /\ userdata_erased)
        /\ Fault("write") /\ WipeFailed(next)
        /\ UNCHANGED <<data, userdata_erased>>
  /\ UNCHANGED <<config, oem_lock, rollback, persist_byte, cached, change, owner_index>>

WipeUserdata == pc = "wipe_userdata" /\ WipeStep("userdata", "wipe_metadata")
WipeMetadata ==
  pc = "wipe_metadata" /\ WipeStep("metadata", AfterWipe(change.new_state))

\* The index is written only if it can be read; a failing write ends the
\* command without any answer.
ResetStep(l, next) ==
  \/ /\ NoFault /\ rollback' = [rollback EXCEPT ![l] = 0] /\ pc' = next
  \/ /\ Fault("read") /\ UNCHANGED rollback /\ pc' = next
  \/ /\ Fault("write") /\ UNCHANGED rollback /\ pc' = "fastboot"

ResetRollback ==
  /\ \/ pc = "reset0" /\ ResetStep(0, "reset1")
     \/ pc = "reset1" /\ ResetStep(1, "store")
  /\ UNCHANGED <<config, oem_lock, data, persist_byte, cached, userdata_erased, change,
                 reply, owner_index>>

\* (mutant of set_current_state: the cached state changes although the
\* variable could not be written)
CacheFirst(new, bad) ==
  /\ oem_lock' = IF bad THEN oem_lock ELSE new
  /\ current_state' = new

\* set_current_state: the variable first, then the cached state.
set_current_state(new, bad) ==
  /\ oem_lock' = IF bad THEN oem_lock ELSE new
  /\ current_state' = IF bad THEN current_state ELSE new

StoreState ==
  /\ pc = "store"
  /\ \E bad \in BOOLEAN :
       /\ Access("write", bad)
       /\ set_current_state(change.new_state, bad)
       /\ Answer(IF bad THEN "fail" ELSE "okay")
  /\ pc' = "fastboot"
  /\ UNCHANGED <<config, rollback, data, persist_byte, provisioning_mode,
                 userdata_erased, change, owner_index>>

-----------------------------------------------------------------------------
(* Commands of fastboot and authenticated_action's force_unlock *)

AlreadyIn(state) == current_state = state /\ ~provisioning_mode

Refuse(r) == pc' = "fastboot" /\ reply' = r /\ UNCHANGED change

\* The prompt of a user build may be declined, outside provisioning only.
MayDecline == User /\ ~provisioning_mode

\* is_already_in_state answers OKAY from the cached state.
cmd_lock ==
  /\ pc = "fastboot" /\ NoFault
  /\ \/ AlreadyIn(LOCKED) /\ Refuse("okay")
     \/ ~AlreadyIn(LOCKED) /\ StartChange(LOCKED, TRUE)
     \/ ~AlreadyIn(LOCKED) /\ MayDecline /\ Refuse("fail")
  /\ UNCHANGED <<config, stored, cached, userdata_erased, owner_index>>

\* get_unlock_ability: provisioning, or the persistent byte when readable.
\* Only a user build enforces it; a user build also clears the memory first,
\* which may fail.
cmd_unlock ==
  /\ pc = "fastboot"
  /\ \/ AlreadyIn(UNLOCKED) /\ NoFault /\ Refuse("okay")
     \/ /\ ~AlreadyIn(UNLOCKED)
        /\ \E unreadable \in BOOLEAN :
             /\ unreadable => ~provisioning_mode
             /\ Access("read", unreadable)
             /\ LET allowed == provisioning_mode \/ (persist_byte /\ ~unreadable)
                IN  \/ (allowed \/ ~User) /\ StartChange(UNLOCKED, TRUE)
                    \/ User /\ Refuse("fail")
  /\ UNCHANGED <<config, stored, cached, userdata_erased, owner_index>>

force_unlock ==
  /\ pc = "fastboot" /\ NoFault
  /\ StartChange(UNLOCKED, FALSE)
  /\ UNCHANGED <<config, stored, cached, userdata_erased, owner_index>>

cmd_erase(p) ==
  /\ pc = "fastboot" /\ current_state = UNLOCKED
  /\ \/ Erase(p)
     \/ Fault("write") /\ UNCHANGED <<data, userdata_erased>>
  /\ UNCHANGED <<config, oem_lock, rollback, persist_byte, pc, cached, change, reply,
                 owner_index>>

cmd_flash(p) ==
  /\ pc = "fastboot" /\ current_state # LOCKED
  /\ data' = [data EXCEPT ![p] = "flashed"]
  /\ UNCHANGED <<config, oem_lock, rollback, persist_byte, pc, cached, userdata_erased,
                 change, reply, owner_index, faults>>

\* oem set-storage ends with refresh_current_state, which forgets the cached
\* state but not the provisioning mode.
cmd_oem_set_storage ==
  /\ pc = "fastboot"
  /\ \E unreadable \in BOOLEAN :
       LET s == ReadState(oem_lock, provisioning_mode, unreadable)
       IN  /\ Access("read", unreadable)
           /\ current_state' = s.state /\ provisioning_mode' = s.prov
  /\ UNCHANGED <<config, stored, pc, userdata_erased, change, reply, owner_index>>

\* Not in user builds: delete OEMLock and reboot.
cmd_oem_reprovision ==
  /\ pc = "fastboot" /\ ~User
  /\ oem_lock' = "none" /\ pc' = "off"
  /\ UNCHANGED <<config, rollback, data, persist_byte, cached, userdata_erased, change,
                 reply, owner_index, faults>>

cmd_reboot ==
  /\ pc = "fastboot" /\ pc' = "off"
  /\ UNCHANGED <<config, stored, cached, userdata_erased, change, reply, owner_index,
                 faults>>

Next ==
  \/ Boot \/ PowerLoss
  \/ \E p \in Part : OsWriteData(p) \/ cmd_erase(p) \/ cmd_flash(p)
  \/ \E l \in Location : OsRaiseIndex(l)
  \/ OsReboot
  \/ WipeUserdata \/ WipeMetadata \/ ResetRollback \/ StoreState
  \/ cmd_lock \/ cmd_unlock \/ force_unlock
  \/ cmd_oem_set_storage \/ cmd_oem_reprovision \/ cmd_reboot

Spec == Init /\ [][Next]_vars

-----------------------------------------------------------------------------
(* Properties *)

\* On a user build, user data written on a locked device are never there when a
\* system is started unlocked: change_device_state erases both partitions
\* before it stores the new state, whatever fails or is interrupted.
PrivateDataStaysLocked ==
  User /\ pc = "os" /\ current_state = UNLOCKED => \A p \in Part : data[p] # "private"

\* On a user build, as long as private data exist, no stored rollback index is below the one in
\* force when they were written: an interrupted or failing unlock may leave a
\* locked device with its indexes reset, but only after its data are gone.
PrivateDataNeedFreshSystem ==
  User /\ (\E p \in Part : data[p] = "private")
    => \A l \in Location : rollback[l] >= owner_index[l]

\* fastboot_flashing.c:181 "Device is already in the required state" and the
\* OKAY after set_current_state: a flashing command that is answered OKAY leaves
\* its state in the variable and in the cache, unless the state could not be read.
OkayMeansStored ==
  "read" \notin config.faults /\ reply = "okay" /\ pc = "fastboot" => oem_lock = current_state
=============================================================================
