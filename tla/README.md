# A verification development for kernelflinger

kernelflinger is a UEFI boot loader for Android. It runs once per boot, mostly
sequentially, but on state that outlives it: partition tables, A/B slot
metadata, rollback indexes, lock state, EFI variables. Power can fail between
any two writes, every read and write can fail, and other programs (the slot
loader, the running system, the fastboot host) read and write the same state.
This directory models the parts of it whose correctness depends on such
orderings, checks them with TLC on small instances and proves the main results
with TLAPS.

## 1. Inventory of the system

State in *italics* survives a reboot.

| Part | Source | State | Operations | What is hard |
|---|---|---|---|---|
| A/B metadata and flow | `avb/libavb_ab/avb_ab_flow.c` | *slot priority, tries, success (misc partition)*, *stored rollback index* | `avb_ab_flow`, `avb_ab_mark_slot_active/unbootable/successful`, read, write, normalise | three separate writes per flow; crash and I/O error between them; the flow runs several times in one boot |
| Slot management, AVB build | `libkernelflinger/slot_avb.c` | cached metadata, cached active suffix | `slot_init`, `slot_get_active`, `slot_set_active`, `slot_boot_failed`, `slot_reset` | the cache against the partition; ignored results |
| Slot management, legacy build | `libkernelflinger/slot.c` | *metadata*, cached suffix | the same interface, plus `slot_boot`, dm-verity flag | tries counted by `slot_boot` itself |
| Slot loader | `kfld.c` | volatile variables LoadedSlot, LoadedSlotFailed | load and start the bootloader of a slot | fallback, agreement with the later choice of the flow |
| Boot control | `kernelflinger.c`, `libkernelflinger/android_vb2.c`, `android.c` | boot state, images in RAM | choose a boot target, verify, start, recover | priority of the sources of a target; results of an earlier flow used after a later one |
| Boot reasons | `kernelflinger.c`, `libkernelflinger/vars.c` | *BCB*, *one-shot loader entry*, *fastboot sentinel*, *watchdog counter and time reference* | `check_bcb`, `check_watchdog`, ... | one-shot requests and counters against crashes; byte counters |
| Device state | `libkernelflinger/vars.c`, `libfastboot/fastboot_flashing.c`, `flash.c` | *OEMLock*, *rollback indexes*, *user data* | lock, unlock, erase user data | order of wiping and unlocking; cached state |
| Authenticated action | `libfastboot/authenticated_action.c` | nonce, its expiry | new nonce, verify token | replay, expiry, order of clearing |
| Partition table | `libkernelflinger/gpt.c` | *primary and backup GPT, MBR*, cached table | create, swap, read, refresh | two copies written one after the other; fallback to the backup |
| Bootloader update | `libfastboot/bootloader.c`, `bootmgr.c` | *ESP and its temporary partition*, *Boot#### and BootOrder variables*, static load options | flash and swap, register entries | must never leave the device without a bootloader |
| Fastboot engine | `libfastboot/fastboot.c` | protocol state, command and download buffers, pending transmissions | receive, run, reply, download, stop | transport callbacks interleaved with the polling loop |
| Transports | `libfastboot/fastboot_transport.c`, `libtransport/transport.c`, `libefitcp/tcp.c`, `libefiusb/usb.c` | connection, message framing, outstanding tokens | start, read, write, callbacks, stop | connection loss while requests are outstanding |
| ADB (crash mode) | `libadb/adb.c`, `adb_socket.c`, `sync_service.c`, `shell_service.c`, `reboot_service.c`, `reader.c` | message framing, sockets, service and reader state | CNXN, OPEN, OKAY, WRTE, CLSE; pull of partitions, memory, variables | one outstanding write per socket, close races |
| Flashing | `libfastboot/flash.c`, `sparse.c`, `fastboot_oem.c`, `hashes.c` | *partitions*, current write position | flash, sparse, erase, oem commands | bounds of chunk arithmetic |
| Verified boot library | `avb/libavb/*`, `avb/libavb_user/*`, its callers in `android_vb2.c` and `trusty_common.c` | *rollback indexes*, slot data and the buffers it owns | `avb_slot_verify`, `load_and_verify_vbmeta` (recursive), `android_image_load_partition_avb`, `load_tos_image` | one result carried through all descriptors and chained images, errors that an unlocked device passes over, fixed arrays, ownership on every error path |
| Trusty IPC | `libqltipc/ql-tipc/*` | channel state | connect, send, receive, close | event order, nested waits |
| TPM | `libkernelflinger/tpm2_security.c`, `ivshmem.c` | *NV indexes and their locks* | read, write, provision | provisioning interrupted half way |
| Storage drivers | `storage.c`, `sata.c`, `nvme.c`, `ufs.c`, `mmc.c`, `usb_storage.c`, `UsbMassBot.c` | selected device | identify, erase | I/O |
| Installer | `installer.c` | command list, transport emulation | run a batch of fastboot commands from a stick | re-uses the fastboot engine synchronously |
| Other start-up programs | `kf4abl.c`, `kf4cic.c`, `crashdump.c`, `unittest.c` | as boot control | variants of `efi_main` | |
| User interface | `ux.c`, `ui*.c`, `fastboot_ui.c`, `installer_ui.c`, `no_ui.c` | screen | prompts | I/O |
| Loaders and parsers | `libelfloader`, `libxbc`, `oemvars.c`, `acpi*.c`, `blobstore.c`, `pae.c` | none that persists | parse | data formats |
| Platform services | `trusty_efi.c`, `trusty_abl.c`, `security*.c`, `life_cycle.c`, `watchdog.c`, `libheci` | none of their own | calls to firmware and the secure side | their answers are free choices |
| Vendored code | `fatfs`, `libedk2_tpm`, `libsslsupport`, `upng.c`, `libefiusb/device_mode` | | | not this project's code |

What would make each part correct, and therefore what the modules state:

* boot chain: what is started on a locked device was verified; the slot the flow
  returns was verified in that flow; the stored rollback index does not go down
  and never locks out a slot that could still be booted; a proven slot survives
  power loss; a bad slot is not retried forever; one boot uses one slot;
* verified boot library: OK vouches for all that is handed out, a good colour for the
  image that is started, no assertion stops the boot, each buffer has one owner;
* boot reasons: a one-shot request is served at most once; the crash menu appears
  only when enough crashes justify it, and a crash loop cannot avoid it for long;
* device state: user data of a locked device are never readable on the unlocked
  one; OKAY means the state was stored;
* partition table: after a crash the table read is the old or the new one;
* bootloader update: at every moment the firmware finds a bootloader to start;
* fastboot: one final answer per command, no data taken for a command, downloads
  complete and in order, a lost connection replaced;
* ADB: frames stay in step, a pull delivers the file, sockets and readers are
  released;
* TPM: one seed for ever, locked when the system runs, however provisioning is
  interrupted;
* Trusty IPC: each command is taken up once, the requests arrive once and in
  order, shared pages are not freed under Trusty.

## 2. Modules

| Module | Models |
|---|---|
| `AbMetadata` | A/B metadata as values and the pure functions on them (`avb_ab_flow.c`, `slot_avb.c`, `kfld.c`) |
| `BootChain` | kfld, slot management, the flow for `boot` and `vendor_boot`, load and failure handling, the updater and the slot commands of fastboot, composed into one state machine |
| `AvbVerify` | one verification of a slot by libavb, with the callers for recovery and the trusted OS |
| `DeviceState`, `MCDeviceState` | lock state, provisioning mode, wiping of user data, reset of rollback indexes, and the commands that change them |
| `BootReasons`, `MCBootReasons` | `choose_boot_target` with its persistent inputs (BCB, one-shot entry, watchdog status, reboot reason) and those who write them |
| `SafeFlash` | what flashing the bootloader promises: an atomic replacement |
| `BootloaderFlash`, `MCBootloaderFlash` | the flash procedure over the two copies of the partition table and the boot options of the firmware; implements `SafeFlash` |
| `Fastboot`, `MCFastboot` | command engine, framing and the TCP and USB links, with a host |
| `Adb`, `MCAdb` | ADB messages, sockets and services, with a host |
| `Tpm` | the NV indexes of the TPM, their provisioning, locking and use |
| `Tipc` | the hand-over of the root of trust to Trusty's Keymaster |
| `BootChainProofs`, `DeviceStateProofs`, `BootReasonsProofs`, `BootloaderFlashProofs`, `TrustyProofs` (of `Tpm` and `Tipc`), `AvbVerifyProofs`, `FastbootDeviceProofs`, `FastbootProofs` | inductive invariants and theorems |

A module `MCx` gives the constants of `x` that a configuration file cannot write
down. `config` (in `DeviceState` and `BootReasons`) is a variable that is chosen once,
at the start, so that one run covers several builds.

### BootChain

A boot is cut into steps where persistent state is written, so that `PowerLoss`
may come between any two writes. `pc` names the place: `off`, `kfld`, `init`
(`slot_init`), `target` (choice of the boot target), `flow`, `rollback`, `save`
(the three writes of `avb_ab_flow`), `compare` (`reboot_if_slot_is_different`), `start`
(`load_image`), `failed` (what `efi_main` does when it returns), `os`, `fastboot`, `recover`, `firmware`.

* `misc`, `rollback`, `image`, `loader`, `locked` persist; everything else starts
  afresh at `PowerOn`.
* The magic, version and CRC of the metadata are the boolean `misc.valid`. A slot's
  contents are one of four kinds, as `avb_slot_verify` tells them apart, with a
  rollback index; one rollback index location stands for all.
* `FlowVerify` is the metadata load and the verification loop, `FlowRollback` the
  rollback write, `FlowSave` the metadata write together with what the caller does
  with the result (`ReturnBoot`, `ReturnVendorBoot`, `ReturnActive`), because no
  persistent state changes in between. `FlowReadError` is the path where
  `avb_ab_flow` works on uninitialised structures: every outcome the build can
  produce is allowed.
* Faults (`Fault(k)`) are power loss, a failing disk or variable access, and a
  kernel handover that returns; `FaultKinds` and `MaxFaults` bound them.
* `UseKfld` is the build flag `BOOTLOADER_SLOT`.
* The running system is external and limited to the metadata operations of
  libavb_ab: mark the running slot successful, make the other slot unbootable,
  write it and make it active.

### AvbVerify

`BootChain` takes the result of `avb_slot_verify` as given, one of its classes per slot;
`AvbVerify` is how that result comes about. `pc` walks through `load_and_verify_vbmeta`:
`footer`, `read`, `verify` (signature, flags, key), `rollback`, `adopt` (the buffer goes
to `slot_data`), then `descriptors`, or `load` when the image disables verification, and
`out`. `slot_verify` is the rest of `avb_slot_verify`, `returned` and `tos` are its
callers.

* `frame` holds the locals of the two calls there can be at a time: the top-level one and
  one chained image, because chained images may not chain. Looking for the top-level image
  in `boot` when there is no partition `vbmeta` is a tail call: `outer` keeps the buffer
  that its caller frees.
* What is on the disk is chosen where it is read: the outcome of a signature, key, digest
  or rollback comparison, the flags, the next descriptor. Any image and any order of
  descriptors is covered, also those no tool would write.
* `heap` holds the buffers of vbmeta images and loaded partitions, named by a counter.
  Short-lived buffers (descriptor lists, strings) are left out. The copy of the partition
  name in an image entry is not checked by the code: a failed copy is the name `null`. Of
  these names only that of the top-level image is read later, so only that copy fails in
  the model.
* The lock state `allow` is `allow_verification_error`; the colour so far is a free choice
  of `LoadPartition`, because other images were verified before.

### DeviceState

`change_device_state` is cut into its writes: `wipe_userdata`, `wipe_metadata`,
`reset0`, `reset1` (the two rollback locations), `store` (OEMLock). `Boot` is what
`efi_main` does with the state before anything is started.

* `oem_lock`, `rollback`, `data`, `persist_byte` persist. `current_state`,
  `provisioning_mode` and `userdata_erased` are the static variables of `vars.c` and
  `flash.c` and live for one boot.
* `data` says who wrote a partition last: `private` data were written by the system
  of a locked device. Erasing makes it `empty`.
* `ReadState` is the case analysis of `get_current_state` over build, life cycle of
  the platform, and a failed read.
* `owner_index` is history: the rollback indexes in force when private data were
  written.
* Commands: `flashing lock/unlock`, the unlock an authenticated action would ask for
  (`force_unlock`; nothing in the tree calls it), erase and flash of userdata,
  `oem set-storage`, `oem reprovision`, reboot.

### BootReasons

`pc` walks through `choose_boot_target`: `keys`, `watchdog`, `count`,
`clear_counter`, `clear_time`, `menu`, `inserted`, `bcb`, `bcb_oneshot`, `oneshot`,
`battery`, and then `run`.

* Targets are classes: a name that is not known and a file that is missing are both
  `unknown`, because `check_bcb` turns both into a normal boot.
* Every request carries a number. `reboot-bootloader` and `reboot-fastboot` leave the
  same number in the BCB and in LoaderEntryOneShot; `served` counts by number.
* The answers of keys, battery and charger are free choices.
* `streak` is history: the times of the crashes in a row that `check_watchdog` has
  seen since the menu. `crashed` is the true cause of the last reset, where the code
  only sees `reset_source` and `reboot_reason`.
* A crash shows as a watchdog reset source, or as one of the reboot reasons
  `kernel_panic` and `watchdog` (`CrashReasons`); `config.crashes` says which of the two
  ways the platform has.
* The build modelled is the one for UEFI firmware with a user interface.

### SafeFlash and BootloaderFlash

`BootloaderFlash` is `flash_esp`, that is `flash_efi_partition` for the EFI system
partition, step by step: `flash` (write the image to the temporary partition), `verify`, `swap` (exchange the two entries in the cached
table), `hdr1`, `ent1`, `hdr2`, `ent2` (header and entries of the primary and of the
alternate table), `mbr`, `register` (Boot#### variables and BootOrder), `exit` (erase
the temporary partition).

* The disk has two regions. A table is the region of the partition `esp`;
  header and entries are separate pieces, because the header holds the checksum of the
  entries: a table is valid when both agree and neither is `Torn`.
* `PowerLoss` may leave the piece being written old, new or torn, and the partition
  being written old, partial or new. `Boot` reads the primary table, then the
  alternate one, as `gpt.c` does; without a bootloader that loads the device is `dead`.
* `cache` is `sdisk` of `gpt.c`: it keeps the swap when the write of a table fails.
* `load_options` and `is_default` are the static array of `bootloader.c` and whether it is
  the default one. `free_load_options` keeps the default, so that the options of the next
  image flashed in the same boot are added to it. `Bare` images have no manifest,
  `Malformed` ones a manifest with a line that does not parse. `FreePool` of the default
  array, which is not from the pool, is assumed to be refused by the firmware.
* `SafeFlash` has three variables: the installed bootloader, the request under way and
  the last answer. The refinement mapping takes `Installed`, the image a boot at this
  moment would start (while the primary table is being written, the one of the old
  table).

### Fastboot

`dev` is the device: the state of the engine (`fb`, `next`, the list of buffered
answers), of the framing (`ts`), of the link (connection, receive tokens `rxq`,
transmit tokens `txq`) and of the download. `main` is the main loop of
`fastboot_start`: `run` executes the effects of a command handler one by one, `write`
is a call of `transport_write`, so that an event of the TCP link may come before,
between and after them. `host` sends commands and downloads and reads answers.

* A handler is the sequence of effects it has on the engine (`CmdFlash`,
  `CmdGetvarAll`, `CmdBoot`, `CmdSetActive`, `CmdDownload`); what it does to partitions,
  slots or lock state belongs to other modules.
* Data are short: a command is one unit, the size of a frame two, a download three, a
  receive token two, so that every read of more than a token takes several, and streams
  are cut anywhere.
* `astray`, `dangling`, `overtaken`, `twice`, `stale` are history: an event that no
  state expects, a use of the connection pointer after it was reset, data received before
  `received_len` was set back, a command with two final answers, answers still buffered
  when a USB cable is plugged in again. `Regular` says that none of the last three has
  happened: each of them puts device and host out of step for good.

### Adb

`dev` has the state of `adb_process_rx`, the sockets, the contexts of the sync
service, the one payload that waits for a transmit event (`delayed`), and whether the
memory reader is in use. `main` is the list of packets the handler of a message still
sends. Jobs of the host (a pull of the memory or of a partition, shell commands with
different output, reboot, a service there is not) run one after the other (`patient`)
or at the same time. The link may refuse the OKAY of a new socket, whose service is then
closed again. Other writes of a connected device are accepted, because the code only
returns the error, and what is sent is what the buffer held at the call, although
`usb_write` and `tcp_write` only hand it on.

### Tpm

One step per TPM command of `tpm2_init`, `tpm2_fuse_trusty_seed`,
`tpm2_read_trusty_seed`, `tpm2_end` and the callers of them in `efi_main`, `vars.c`
and `fastboot_oem.c`, so that power may fail between any two. The TPM itself is
external: `defined`, `written`, `wlocked`, `rlocked` are the attributes of the indexes.
`Goto("off")` and `PowerOn` are where locks that last until a restart end.

`VerifyImage` and `SlotGetActive` are the two ways `avb_ab_flow` is run over the stored
rollback index: for an image to start, and for the name of the active slot, where
verification errors are always allowed. `StartTrusty` is skipped for an image of the EFI
partition and does nothing when there is no memory map; `FastbootBoot` starts an image from
fastboot, `Recover` ends a boot that has nothing to start. Every TPM command may fail
(`errors`). A live boot calls neither `tpm2_init` nor the lock state of the TPM, and is
outside the model.

### Tipc

`smc` is the hypercall of `trusty_std_call32`: `Exec` puts a command in the shared
buffer, `SmcIssue` is the first call, `SmcRestart` the ones after an interruption,
`Done(p)` is where the caller takes the result. `pc` walks through
`trusty_ipc_init` (`init`, `alloc`, `create`, `connect`, `wait`, `send`, `recv`,
`close`) and `trusty_ipc_shutdown`. Trusty and its Keymaster are external and run
beside the client: `Accept`, `Process` (a response in one frame or two, perhaps an
error), `HangUp`, an event that puts the channel in error. A response may be malformed.
`skipped` says that a failure of `boot_params` was taken for a root of trust that is already
set. `SM_ERR_BUSY` is assumed to answer a call that was not taken up. Whether Trusty keeps
track of shared memory (`ffa`) depends on its API version.

## 3. Runs

| Run | Question | Answer |
|---|---|---|
| `boot_power_loss` | Can two power losses, with two updates of either quality and a broken bootloader slot, cost a locked device a proven slot, lower its stored rollback index in the course of a boot, or make it fall back to a slot that cannot be booted? Is a slot that never completes a boot given up? | no; yes, under fairness |
| `boot_faults` | With a fault of any kind, two updates, and the slot, flashing and locking commands of fastboot: can a locked device start something unverified, can a rollback write lock out a bootable slot, can the reboot for a slot kfld did not load be repeated? | no |
| `boot_mixed_slots` | Is the slot given to the kernel always the one kfld loaded? | no: finding |
| `avb_verify` | Any images, three descriptors, one failing read or allocation, locked and unlocked, recovery and trusted OS: can OK or a good colour be given to something that was not verified, can an assertion stop the boot, is a buffer freed twice or lost? | no, but for the assertion on a name that could not be copied and for the leak, both named in the properties |
| `lock_faults` | User and userdebug build, two faults: can private data meet an unlocked system or survive a reset of the rollback indexes? Does OKAY mean stored? | no; yes |
| `reasons_faults` | Is a one-shot request acted upon twice, does a watchdog counter lose its time reference, is the crash menu justified, can a crash loop avoid it? | no (only a failing access can repeat a request); no; yes; not beyond two periods |
| `flash_power_loss` | Any sequence of flashes, one power loss or one failing write of the alternate table, one failing partition or variable write: does the procedure implement `SafeFlash`, does BootOrder stay proper, what does OKAY mean? | yes, for options of different descriptions; the options of the image come first |
| `flash_table_error` | ... and when a write of the primary table fails? | no: finding |
| `fastboot_sessions` | Two commands, one disconnection, TCP and USB: do reads stay covered, streams in step, downloads intact, and is every command answered? | yes, with the exceptions named in the properties |
| `adb_transfers` | Two jobs, one fault: do pulls deliver the file, are sockets, contexts and the reader owned and returned, do jobs end? | yes, with the exceptions named in the properties |
| `tpm_provisioning` | Two power losses and two TPM errors: one seed, locked for the system, no owner lock without indexes, no lower rollback index? | yes, with the exceptions named in the properties |
| `tipc_handover` | Three interrupted hypercalls, three failures: is each command taken up once, do the requests arrive once and in order, are the pages safe, does it end? | yes, with the exception of a failed `boot_params` named in the properties |

Some properties have a condition that names the runs for which the code does not
keep them; each such condition is explained in section 5.

### Bounds

`BootChain`: priorities 15/14 and seven tries become 2/1 and at most three tries: the
code only compares priorities and tests tries against zero, and three is enough for a
boot that uses two tries (the flow runs twice) to leave one. Two indexes above zero
are enough for one image to be older than the stored index and still not zero, which
the flow skips; `boot_power_loss` has them. `boot_faults`, with its many commands, has
two tries, one index and no images without a valid signature; its four properties are
proved for all values of these constants.

`BootLoopEnds` is checked with power losses only: they end a boot anywhere, while a
failing access, of which there are finitely many, can only delay the count of tries.

`AvbVerify`: two images, two loaded partitions and two locations, so that three descriptors
fill each array and go past it (the code has 32 each); the third descriptor comes after a
chained image and a partition, or after an error of either. `acpi` is requested with the
image, so that two partitions are. Rollback indexes are below the stored one or not.
Its four properties are proved for all values of these constants.

`DeviceState`: indexes 0 and 1, because they are only set, kept or reset to 0. Two
faults allow a failed command to be repeated and to fail again.

`BootReasons`: a byte has four values (`ByteSize`), so that the limits 0 to 2 and the
largest value are all different. Where time matters the delay is 2 and the clock ends
at 5, enough for crashes in two periods and the start of a third. Two requests are
needed for one to displace another; `streak` keeps the latest `StreakCap` crashes,
which is what the longest window looks at.

`BootloaderFlash`: the number of flashes is not bounded, so that any image follows any
other in one boot. Two images are good, with one and with two options; the others have no
manifest, do not load, have a first load option that does not, more options than the code
takes, none, or a malformed line.

`Fastboot`: two commands (a download and what uses it, or a command after another),
two tokens, a download of three units in frames of any size, one disconnection.
`Adb`: a file of 4, blocks of 3 and payloads of 2, so that parts and blocks end at
different places; one or two sockets. `Tpm`: two seeds, because a second one would be
the error. `Tipc`: three interruptions cover an FIQ within a restart and the restart
after it.

### Fairness

* `BootChain!FairSpec`: weak fairness of the boot steps, because the boot loader runs
  until it hands over, and a device that is off or in recover mode is eventually
  restarted; and of `OsReboot`: without it a system that hangs keeps the slot untouched
  for ever, which no boot loader can change.
* `Fastboot!FairSpec`: weak fairness of the device together with what a host in the
  middle of a command does: events are signalled and the main loop polls; the host
  reads answers and sends the data it announced. New commands are not fair.
* `Adb!FairSpec`: the same, for the device and a host that reads its answers.
* `TipcSpec`: the client polls without pause; Trusty accepts connections and its
  Keymaster processes requests, because the hypervisor schedules them.

Faults, disconnections and the user are never fair.

## 4. Proofs

The theorems hold for every value of the constants that satisfies the named
assumptions of each module (types of the constants; for `BootChain` at least two
priorities and one try). In particular the numbers of faults, of requests and of
interruptions are arbitrary.

`BootChainProofs`: `TypeCorrect`, `SelectedVerified`, `LockedVerified`,
`RebootIsNotRepeated` (`TypeOK`, `SelectedSlotIsVerified`, `LockedImagesVerified` and
`RebootReachesChosenSlot` are invariants), `LockoutFree`, `RollbackMonotone` (the action
properties `NoRollbackLockout` and `BootNeverLowersRollback`). None of the invariants is
inductive: `IndInv` adds what one write of the flow leaves for the next. `FlowData` says
that between verification and save the slots with data are exactly the bootable ones
(needed to type the rollback value and for the selection); `BootLoaded` carries the slot
of the boot image through the second flow; `ChosenSlot` says that the slot compared with
the one of kfld is the one kfld would choose from the saved metadata: the two rules agree
on metadata the flow has normalised and saved; `LockedData`, `LockedIndex` and
`LockedImages` carry the result of verification to the start of the kernel;
`AcceptableHaveData` says that every slot the rollback write must not lock out has its
data. `FallbackValid` (`FallbackSlotIsValid`) assumes that no disk access fails (`NoIo`),
`ProvenSlotsKept` (the action property `ProvenSlotKept`) that only power fails
(`PowerOnly`). `FallbackInv`: the last flow of a boot left only the slot it returned with
fewer tries than a flow demands. `ProvenInv`: the flow, its cached metadata and the list of
slots that kfld gave up change no slot with good images. `StepsIntoTheFlow` lists the steps that can end inside a flow, so each part is
checked against those only.

`DeviceStateProofs`: `TypeCorrect`, `DataStayLocked` (`PrivateDataStaysLocked`) and
`DataNeedFreshSystem` (`PrivateDataNeedFreshSystem`). Both properties speak of user
builds: only those take an unreadable state for locked, and `eng` builds keep user
data. `TypeCorrect` is for every build. `IndInv` adds, for user builds, three things. `CacheIsSafe`: the cached state may
wrongly say locked, never wrongly unlocked (`ReadStateSafe` shows it for every outcome
of a read). `PrivateOnlyLocked`: private data exist only while OEMLock says locked and
no provisioning mode is on. `WipeProgress`: what has been erased at each step of
`change_device_state`, which is where the order of the steps enters the proof.
`OkayIsStored` (`OkayMeansStored`) is for every build of a platform where a missing
OEMLock always means provisioning (`Distinct`; section 5 has the other platforms).
`CacheIsCurrent` says that without unreadable variables a running boot knows the stored
state, and that no change in progress has been answered.

`BootReasonsProofs`: `StatusStaysReadable`, `RequestsServedOnce` and `TypeCorrect` (the
counter stays a byte; only targets that can be started are chosen). `WatchdogInv` adds
what holds between the two writes of `check_watchdog` and of `reset_watchdog_status`:
their order is the argument. `OneShotInv` says that as long as no access failed, a
request that still waits in the BCB, in the one-shot entry or between two writes has
not been served, and that the BCB no longer holds a one-shot target where the entry is
read. `MenuIsJustified` (`MenuJustified`) and `CrashesAreNoticed` (`CrashLoopBounded`)
tie the stored counter to the crashes that happened: `CrashInv` says at each step that
the counter is the number of the last crashes in a row that lie within the delay of the
first of them. The second theorem needs `Countable`: the limit is below the largest byte
(section 5).

`BootloaderFlashProofs`: `FlashingIsSafe`, the refinement `Spec => FlashIsSafe`,
`DeviceNeverBricked` and `TypeCorrect`, all under `FaultModel`: at most one damage (power loss or a
failing write of the alternate table) and no failing write of the primary table, the
case `flash_table_error` refutes. `TableInv` says which of the two tables is valid and
what it says at each write; `ContentInv` which region holds a bootloader that loads.
`PowerLossStep` is the core: whatever a cut write leaves, the table read afterwards is
the old or the new one, and while that is undecided both regions load.
`OrderAlwaysResolves` is the action property `BootOrderResolves` and needs no fault model:
`OrderInv` says that the entries registered so far are those of the first options, so that
they differ when the descriptions do, wherever the options come from.
`OkayMeansOneBootloader` (`OkayLeavesOneBootloader`) is under `FaultModel`; it makes no
assumption on the manifests. `Covered` and `Headed` say which options have their entry, and
that the entries head BootOrder, from `register` to the answer.

`TrustyProofs`, on the TPM: `OneSeed`, `OsIsLockedOut`, `OwnerLockIsFinal`. `SeedInv`: a seed that was
given is the one in the index, and the step that writes a seed only runs on an index
that has not been written; this is why a retry after a power loss cannot store a second
one. `IInv` adds that the seed is read-locked once Trusty got it, and that nothing but the
image runs after that. `RollbackIsKept` is the action property
`RollbackHolds`, from `TypeCorrect` and `FreshIndex`: `tpm2_fuse_bootloader` never fills an
index that holds a state. `MayLower` names what may lower the index: an unlocked device, an
unlock, `slot_get_active`.

`TrustyProofs`, on the hand-over: `CommandsOnce` (no command is taken up twice,
`TakenUpOnce`), `PagesOwned` (`BufferOwned`), `RequestsInOrder` (`Provisioned`),
`ResponsesRead` (`InStep`) and `TipcTypeCorrect` (what is read of a response never exceeds its buffer). `CallInv` ties the
hypercall to the place of the client, `BufferInv` the pages to the life of the device.
`ExchangeInv` says at each place what is under way: nothing; the request, queued; its
response, with exactly the frames the client has not read; or (`Stale`) a `boot_params` that
was passed over before its response was read, whose frames the client refuses as an answer
to the patch level. `SetInv` says that Keymaster has carried out a prefix of the requests,
perhaps without `boot_params` (`Upto`), and that the queue holds the next one, none, or that
`boot_params` and the patch level.

`AvbVerifyProofs`: `AvbTypeCorrect`, `AssertsNeverFail` (`AssertionsHold`),
`OkVouchesForAll` (`OkMeansVerified`) and `GoodColourVouches`
(`GoodColourMeansVerified`), for any number of descriptors, images, locations and faults.
`NameInv` is the exception of `AssertsNeverFail`: the assertion on the name of the top-level
image is only met when the copy of the name failed. `IInv` adds four things. `CallShape`: the top-level call has location 0 and no key, a
chained one another location and a key, and it only runs below an adopted top-level image;
the test of the location in a chain descriptor is what keeps the assertions. `DataShape`:
there are images exactly when the top-level one was adopted, and it is the first of them.
`ResultShape`: as long as neither active call holds an error, all that was adopted or
loaded is verified; this is why an error may be replaced by another one but not by OK, and
where `Merge` and the order of the steps enter the proof. `ColourShape`: what a colour
better than orange rests on after the return. `EveryBufferOwned` (`BuffersOwned`) has an
invariant of its own, `BufInv`: until the calls return every buffer has exactly one owner,
`slot_data`, the top-level call or the chained one, and the steps hand it on.

`FastbootProofs`, on the lemmas of `FastbootDeviceProofs`: `TypeCorrect`, `ReadsCovered` (`ReadsAreCovered`) and `NeverDangles`
(the first half of `InStep`), for any number of tokens, fragment size, length of the size
field, room for downloads, commands and disconnections. The operations of engine, framing
and link are functions on the device that call each other, so each has a lemma about its
effect (`TcpReadEffect`, `TransportWriteEffect`, `ProcessRxEffect`, ...), and those of the
actions only combine them. `Covered` ties the tokens with the stack to the counters of
`tcp.c`; `Reading` says, per state of the framing, which buffer a read is for and that it
fits in it, without which the next read could ask for nothing or for more than there is
room for. `Fit` adds what the engine needs of them: an answer to send in `TX`, a size in
`START_DOWNLOAD`. `MainOK`, `UpOK`, `HostOK` and `LogOK` say which effects can be left of a
handler, that a size announced to the host is one there is room for, that sizes in the
stream are positive, and what there is before the first command. `TokensCover` is about
the operators: the tokens of one `tcp_read` add up to the read, or to all that `MaxToken`
tokens can hold.

Sums over sequences, `Max` of a set of times and the fold over BootOrder are recursive.
What is proved about them rests on `SetInduction` (or `Least`), which draws induction from
the library's theorem on well-founded relations: the set of numbers with a property has no
least counterexample.

Model-checked only:

* the liveness properties (`BootLoopEnds`, `Served`, `ListensAgain`, `JobsEnd`,
  `Returns`): liveness under fairness is outside the prover's reach;
* `DownloadIntact`, `AnswersMatch` and the second half of `InStep`: they need an invariant
  of the whole conversation, host and stream included;
* `PayloadsFollow`, `PullIntact` and `ResourcesOwned` of `Adb`.

The type invariants are proved (`TypeCorrect` of each proof module; `BootloaderFlash`
under its fault model), so no run repeats them. `Adb`, which has no proofs, has none: each
of its invariants reads the fields of `dev` it is about.

## 5. Observations

Besides the findings in `PROJECT.json`, modelling brought up the following. Most are
behaviours of the modules; the properties they would break carry a condition or an
exception that names them.

Boot chain

* kfld (`kfld.c:169`): when the bootloader file of the active slot is missing,
  `load_kf` leaves with `EFI_SUCCESS`, so the other slot is not tried.
* `reboot_if_slot_is_different` (`kernelflinger.c:1028`, `:1039`): when LoadedSlot is
  missing, cannot be read or names no slot, the slots are not compared and the boot goes on,
  with a boot image that may come from another slot than the bootloader. Only the reboot
  itself is subject of `RebootReachesChosenSlot`.
* `slot_boot_failed` (`slot_avb.c:211`): when the metadata cannot be read again, it may
  select a slot it has just disabled. `FallbackSlotIsValid` is checked without such
  read errors.
* `slot_get_active` (`slot_avb.c:350`) always allows verification errors, although
  `avb_ab_flow.h:186` says to do so only on an unlocked device: asking a locked device
  for its active slot in fastboot may store a lower rollback index.
  `BootNeverLowersRollback` is about the flows of a boot; `RollbackHolds` names this caller.

Verified boot library

* An error other than one of verification on an unlocked device (`avb_slot_verify.c:1409`)
  returns past the label `fail`: `slot_data` and its buffers are neither handed out nor
  freed. `BuffersOwned` excepts this return.
* An error of a chained image (`avb_slot_verify.c:989`) is passed over on a locked device
  as well, unlike one of a hash descriptor: the remaining descriptors are still read. The
  result stays an error.
* The operations of `uefi_avb_ops.c` have no persistent values, so every descriptor that
  relies on a persistent digest ends in `INVALID_METADATA`.
* The copy of the partition name in an image entry (`avb_slot_verify.c:859`) is not checked.
  When it cannot be allocated for the top-level image, the comparison of that name at
  `:1415` reads behind a null pointer, where there may be anything: the assertion there may
  fail. `AssertionsHold` excepts this case.
* A top-level image that disables verification returns before its rollback index is noted
  (`avb_slot_verify.c:872`), and leaves the colour as it was.
* When the ACPI tables cannot be installed the boot is red, but the boot image has already
  been set (`android_vb2.c`).

Device state

* `flashing lock` (`fastboot_flashing.c:180`): after a failed read of OEMLock on a user
  build it answers OKAY and stores nothing. `OkayMeansStored` is stated without read
  errors.
* On a virtual boot device, or when the life cycle is that of an end user or cannot be
  read, a missing OEMLock need not mean provisioning (`vars.c:304`). A flashing command for
  the state it is taken for is answered OKAY (`fastboot_flashing.c:181`) with nothing
  stored. `OkayIsStored` is about the other platforms.
* `userdata_erased` (`flash.c:633`) is not reset when userdata is flashed: unlock, flash
  userdata and lock in one boot leaves what was flashed.

Boot reasons

* Policy of `choose_boot_target` (`kernelflinger.c:853`): the comment lists the watchdog
  first; the command line, the sentinel and the magic key are looked at before it.
* `check_watchdog` (`kernelflinger.c:405`): the delay runs from the first crash of a
  period. Crashes at minutes 0, 9, 11 and 12 show no menu, although the last three are
  close together (`doc/crashmode.md:58`). `CrashLoopBounded` is the bound that does hold.
* The counter is a byte (`kernelflinger.c:419`): with the largest limit, 255, which
  `doc/fastboot.md:349` and `fastboot_oem.c:539` allow, it wraps before it exceeds the limit and the menu is
  never shown.
* Reboot reason (`kernelflinger.c:356`, `android.c:921`): `kernel_panic` and `watchdog` count
  as crashes, and the reason is deleted when a kernel command line is built. After such a
  crash every boot that starts no kernel counts it again. `MenuJustified` is therefore stated
  for crashes that only the reset source shows.
* `reboot-fastboot` (`kernelflinger.c:919`): LoaderEntryOneShot is not cleared when a
  persistent BCB target is taken, and recovery may be started once more after the BCB is
  cleared.

Bootloader update

* `bootloader.c:236`: the loop over the load options verifies the first path every time.
* The default options stay in the static `load_options` (`bootloader.c:62`, `:260`). The
  manifest of the next image flashed in the same boot is added to them (`:167`): the default
  is registered again, before the options of the manifest, a manifest with two options is
  refused, and one with none is accepted.
* `add_load_option` (`bootloader.c:93`) copies the options there are into room for one: a
  manifest with three options is refused.
* Two options of the same description list their entry twice in BootOrder. They come from a
  manifest that has one twice, or from one that repeats the default left behind by the flash
  before. `BootOrderResolves` is about the other cases.
* `flash_bootloader`, `flash_bootloader_a` and `flash_bootloader_b` have no caller
  (`flash.c:488`): `fastboot flash bootloader` writes the partition in place (`flash.c:538`),
  without the safe procedure the comment at `bootloader.c:304` asks for.

Fastboot

* `received_len` is reset after the DATA answer was queued (`fastboot.c:1230`): over TCP
  data may be received before that, and are then counted on top of the previous download.
* `set_active` (`fastboot.c:1072`) answers FAIL and goes on to answer OKAY.
* A command with too many arguments (`fastboot.c:1225`) is never answered.
* An answer that cannot be written (`fastboot.c:674`) leaves no read in progress, so that
  the loss of the connection is not noticed.
* A host that reconnects before a reboot command was answered (`fastboot.c:1271`, `:1571`)
  meets an engine that waits for a completion that does not come.
* After a USB cable was pulled, answers still buffered are sent when it is back
  (`fastboot.c:765`), for the answers of later commands: a download may then be taken for
  complete, and its data for a command.
* Transmit tokens that are aborted complete as if their data had been sent.

ADB

* The payload of a packet waits in one place for the next transmit event (`adb.c:111`).
  Over TCP that event may be the one of an earlier packet, so that the payload goes out
  before its message (the comment at `adb.c:104` expects otherwise); with two sockets the
  second payload replaces the first. `PayloadsFollow` is stated for USB and one job at a
  time.
* A reader that cannot be opened or read (`sync_service.c:154`, `:256`) leaves the host
  without an answer; output of a shell command larger than a payload fails the socket.
* A new CNXN does not release the sockets and contexts of the previous session
  (`adb_socket.c:65`, `adb.c:157`).
* When the memory map cannot be read the memory reader stays in use (`reader.c:124`).
* `usb_write` and `tcp_write` only queue the buffer they are given, while the next packet may
  be built in it. The module sends what it held at the call.

TPM

* `efi_main` calls `tpm2_init` (`kernelflinger.c:1625`) before it asks
  `device_need_locked` (`:1633`). The index has then been written, and a user build stays
  unlocked on its first boot, although the comment at `:1640` says "set device to LOCKED
  state by default on the first boot".
* Power loss between the definition of the seed index and its first write leaves a seed
  that counts as fused and cannot be read: Trusty does not start any more.
* The owner may be locked while the seed is defined and not written
  (`fastboot_oem.c:717`).
* `tpm2_end` ignores the results of its commands; after a failure in `tpm2_init` the seed
  may stay without its write lock.
* Without a memory map `start_tos_image` returns success and has not asked for the seed,
  and an image of the EFI partition is started without it: the read lock of the seed is then
  left to `tpm2_end`. `LockedForTheOs` says so.
* The functions that pass rollback indexes to the TEE put neither slot nor index in
  their message.

Trusty IPC

* `trusty_ipc_shutdown` after a failed creation uses a NULL device (`libtipc.c:43`); the
  module ends in a state of its own there.
* The channel is never closed: `initialized` of `keymaster.c:345` is never set.
* A full queue cannot be told from an error: `check_response` maps every status to one
  code, so the wait for "unblocked" at `ipc.c:158` is not reached.
* `TRUSTY_ERR_GENERIC` and `KM_ERROR_ROOT_OF_TRUST_ALREADY_SET` are both -1. The test at
  `keymaster.c:310` therefore tolerates any failure of `boot_params` that gives -1: an error
  answer, a malformed response, a channel in error state (`ipc.c:230`). Success may then be
  reported although Keymaster never got the boot parameters, and the patch level is sent
  while frames of `boot_params` are still unread. `Provisioned` and `InStep` name this case.
* `trusty_calloc` does not clear memory, so that the error path before sharing reclaims
  an arbitrary id; `trusty_abort` is `__builtin_unreachable`.
* A response shorter than its header with the stop bit counts as a success.
* `start_trusty` does not use the result of `trusty_ipc_init` (`trusty_efi.c:391`).

Other start-up programs

* `kf4abl.c:695` tests `!use_slot()` before `slot_boot`; `slot.c:237` to `:245` has no
  `continue` for a slot it rejects; `slot.c:291` sets `is_used` although no slots were
  found.

## 6. Not modelled

* Legacy slot management (`slot.c`) and the start-up programs that use it: the AVB build
  replaces it behind the same interface.
* Authenticated action: nothing in the tree calls it. Its forced unlock is an action of
  `DeviceState`.
* Installer: it runs fastboot commands from a file, one after the other, over a transport
  that completes at once; nothing interleaves.
* Of the verified boot library: binary layouts, hashing and RSA, which are functions of
  their input; the error modes of dm-verity and preloaded partitions, which the callers
  and operations of this tree never ask for; the check of a vbmeta header and its signature,
  and the second check of the trusted OS image, are their outcomes only.
* Bootloader update: `flash_bootloader`, `flash_bootloader_a` and `_b` with their in-place
  branches and EFI_UNSUPPORTED, which nothing calls; flashing of a bootloader partition in
  place, which is a plain write.
* TPM: a live boot, which passes the TPM by; the same requests forwarded to a TEE.
* Sparse images, hashes, ELF, XBC, OEM variables, ACPI, blob store: functions from an
  input to memory or to a partition, without state that survives them. What can go wrong
  is arithmetic on fields of the input, which a test reaches.
* Storage, display and platform services: I/O and calls into firmware, whose answers are
  free choices of the modules that use them.
* Verified boot library: used through the classes of results of `avb_slot_verify`;
  parsing and cryptography are out of reach of a model checker.
* Partition table: creating and parsing a table (`gpt_create`, `gpt_fill_entries`) is
  data layout; the writes and the choice between the two copies are modelled.
* Fastboot: the values `getvar` returns, and the partition handlers of `flash.c` beyond
  the ones that concern lock state and bootloader.
* ADB: contents of shell commands; readers other than memory and partitions, which share
  their interface; writes that the link refuses, other than the OKAY of a new socket.
* Trusty IPC: serialisation of messages and the AVB client, which is never called.
* Vendored code. Most of the lines under `src/` are third-party: FAT, TPM2 and USB
  libraries, OpenSSL support, PNG, the USB device stack. They are not this project's
  code, hold no protocol of their own with the boot loader, and are modelled, where at
  all, by what their callers see. For this reason the modules cover a small share of all
  lines of the tree, and a large one of the boot loader's state machines.
