---------------------------- MODULE BootReasons ----------------------------
(***************************************************************************)
(* How kernelflinger.c chooses what to boot: choose_boot_target and the    *)
(* checks it calls (keys, watchdog counter, bootloader control block,      *)
(* LoaderEntryOneShot, battery), and those who leave requests for it: the  *)
(* running system, fastboot and the crash menu.                            *)
(*                                                                         *)
(* A boot is cut where persistent state is written.  The build is the one  *)
(* for UEFI firmware with a user interface (no USE_SBL, USE_UI).           *)
(***************************************************************************)
EXTENDS Integers, FiniteSetsExt, Sequences

CONSTANTS
  ByteSize,   \* 256 in the source: the watchdog counter is a UINT8
  Configs     \* the builds and the bounds considered, see config

\* What a request may name: NORMAL_BOOT, RECOVERY, FASTBOOT, CHARGER, a file of
\* the ESP; "unknown" is an unknown name or a missing file.
AllTargets == {"boot", "recovery", "fastboot", "charger", "file", "unknown"}

ASSUME ReasonsAssumption ==
  /\ ByteSize \in Nat \ {0, 1}
  /\ \A c \in Configs :
       /\ c.user \in BOOLEAN /\ {c.delay, c.time, c.requests, c.max_faults} \subseteq Nat
       /\ c.counter_max \subseteq 0 .. ByteSize - 1 /\ c.counter_max # {}
       /\ c.crashes \subseteq {"reset_source", "reboot_reason"}
       /\ c.targets \subseteq AllTargets /\ c.faults \subseteq {"power", "io"}

VARIABLES
  config,            \* the build and the bounds of a behaviour, read through User ... FaultKinds
  bcb,               \* command of the BCB: [kind, target, id]
  oneshot,           \* LoaderEntryOneShot: [target, id]
  wdt_counter,       \* WdtCounter, 0 when absent
  wdt_time_ref,      \* WdtTimeRef, None when absent
  wdt_counter_max,   \* WdtCounterMax
  crash_event_menu,  \* CrashEventMenu
  reboot_reason,     \* LoaderEntryRebootReason
  now,               \* the clock
  reset_source,      \* what the platform reports of the last reset
  pc,
  counter,           \* local of check_watchdog
  target,            \* what choose_boot_target returns
  chosen,            \* the request it comes from: [channel, id]
  requests,          \* history: number of requests
  served,            \* history: how often each one was acted upon, by channel
  crashed,           \* history: the last reset was a crash of the system
  streak,            \* history: times of the latest crashes in a row seen by
                     \* check_watchdog since the crash menu
  faults             \* faults so far, by kind

None == -1
requested == <<bcb, oneshot>>
wdt == <<wdt_counter, wdt_time_ref, wdt_counter_max, crash_event_menu>>
reset == <<reboot_reason, now, reset_source, crashed>>
choice == <<counter, target, chosen>>
history == <<requests, served, streak>>
vars == <<config, requested, wdt, reset, pc, choice, history, faults>>

User == config.user               \* the build flag USER
Delay == config.delay             \* WATCHDOG_DELAY
CounterMaxes == config.counter_max \* values get_watchdog_counter_max may return
Crashes == config.crashes         \* how the system may crash: with a watchdog reset source
                                  \* or with a reason in LoaderEntryRebootReason
Targets == config.targets         \* targets the system asks for
MaxTime == config.time            \* bound on the clock
MaxRequests == config.requests    \* bound on the number of requests
MaxFaults == config.max_faults    \* bound on faults
FaultKinds == config.faults       \* the faults that may happen

\* Reboot reasons that stand for a crash.
CrashReasons == {"kernel_panic", "watchdog"}

Ids == 0 .. MaxRequests
Channels == {"boot", "bootonce", "oneshot"}
NoBcb == [kind |-> "none", target |-> "boot", id |-> 0]
NoOneShot == [target |-> "none", id |-> 0]
NotRequested == [channel |-> "none", id |-> 0]

\* As many crashes as two periods of the counter can hold, and one.
StreakCap == 2 * Max(CounterMaxes) + 1

PCs == {"off", "keys", "watchdog", "count", "clear_counter", "clear_time", "menu", "inserted",
        "bcb", "bcb_oneshot", "oneshot", "battery", "run", "os", "fastboot", "reboot_target"}

\* Types of the variables (but the history streak); the watchdog counter is a byte.
TypeOK ==
  /\ bcb \in [kind : {"none", "boot", "bootonce"}, target : AllTargets, id : Ids]
  /\ oneshot \in [target : AllTargets \union {"none"}, id : Ids]
  /\ chosen \in [channel : Channels \union {"none"}, id : Ids]
  /\ requests \in Ids /\ served \in [1 .. MaxRequests -> [Channels -> 0 .. 2]]
  /\ wdt_counter \in 0 .. ByteSize - 1 /\ wdt_counter_max \in 0 .. ByteSize - 1
  /\ counter \in 0 .. ByteSize - 1
  /\ now \in Nat /\ wdt_time_ref \in Nat \union {None}
  /\ reboot_reason \in {"none", "shutdown"} \union CrashReasons
  /\ reset_source \in {"other", "watchdog"}
  /\ pc \in PCs /\ target \in (AllTargets \ {"unknown"}) \union {"power_off"}
  /\ crash_event_menu \in BOOLEAN /\ crashed \in BOOLEAN
  /\ faults \in [{"power", "io"} -> Nat]

Init ==
  /\ config \in Configs
  /\ bcb = NoBcb /\ oneshot = NoOneShot
  /\ wdt_counter = 0 /\ wdt_time_ref = None
  /\ wdt_counter_max \in CounterMaxes /\ crash_event_menu = TRUE
  /\ reboot_reason = "none" /\ now = 0 /\ reset_source = "other" /\ crashed = FALSE
  /\ pc = "off" /\ counter = 0 /\ target = "boot" /\ chosen = NotRequested
  /\ requests = 0 /\ streak = <<>>
  /\ served = [i \in 1 .. MaxRequests |-> [c \in Channels |-> 0]]
  /\ faults = [k \in {"power", "io"} |-> 0]

Fault(k) ==
  /\ k \in FaultKinds /\ faults["power"] + faults["io"] < MaxFaults
  /\ faults' = [faults EXCEPT ![k] = @ + 1]
NoFault == UNCHANGED faults

-----------------------------------------------------------------------------
(* The start of a boot *)

PowerOn ==
  /\ pc = "off" /\ pc' = "keys"
  /\ counter' = 0 /\ target' = "boot" /\ chosen' = NotRequested
  /\ UNCHANGED <<config, requested, wdt, reset, history, faults>>

PowerLoss ==
  /\ pc # "off" /\ Fault("power")
  /\ pc' = "off" /\ reset_source' = "other" /\ crashed' = FALSE
  /\ UNCHANGED <<config, requested, wdt, reboot_reason, now, choice, history>>

\* What these may return; the unit tests of the command line are left out.
check_command_line == {"boot", "fastboot"}
check_fastboot_sentinel == {"boot", "fastboot"}
check_magic_key == {"boot", "fastboot"}

\* The first of them to name a target decides.
CheckKeys ==
  /\ pc = "keys"
  /\ \E c \in check_command_line, f \in check_fastboot_sentinel, k \in check_magic_key :
       target' = CHOOSE t \in {c, f, k} : {c, f, k} # {"boot"} => t # "boot"
  /\ pc' = IF target' = "boot" THEN "watchdog" ELSE "run"
  /\ UNCHANGED <<config, requested, wdt, reset, counter, chosen, history, faults>>

-----------------------------------------------------------------------------
(* check_watchdog *)

reset_is_due_to_watchdog_or_panic ==
  reset_source = "watchdog" \/ reboot_reason \in CrashReasons

\* get_watchdog_status fails for a counter that has no time reference.
StatusReadable == wdt_counter = 0 \/ wdt_time_ref # None

\* Mutant of WatchdogPeriod: the delay is never over.
EndlessPeriod == wdt_counter

\* Mutant of WatchdogPeriod: every later crash starts a new period.
ShortPeriod == IF wdt_counter > 0 /\ now >= wdt_time_ref THEN 0 ELSE wdt_counter

\* The crashes counted in the period that is not over yet.
WatchdogPeriod ==
  IF wdt_counter > 0 /\ (now < wdt_time_ref \/ now - wdt_time_ref > Delay)
    THEN 0 ELSE wdt_counter

\* The menu is off, or the status cannot be read: nothing is done.
WatchdogSkip ==
  /\ pc = "watchdog" /\ pc' = "inserted"
  /\ \/ (~crash_event_menu \/ ~StatusReadable) /\ NoFault
     \/ Fault("io")
  /\ UNCHANGED <<config, requested, wdt, reset, choice, history>>

WatchdogNoCrash ==
  /\ pc = "watchdog" /\ crash_event_menu /\ StatusReadable
  /\ ~reset_is_due_to_watchdog_or_panic
  /\ pc' = IF wdt_counter = 0 THEN "inserted" ELSE "clear_counter"
  /\ streak' = <<>>
  /\ UNCHANGED <<config, requested, wdt, reset, choice, requests, served, faults>>

WatchdogShutdown ==
  /\ pc = "watchdog" /\ crash_event_menu /\ StatusReadable
  /\ reset_is_due_to_watchdog_or_panic /\ User /\ reboot_reason = "shutdown"
  /\ reboot_reason' = "none" /\ target' = "power_off" /\ pc' = "run"
  /\ UNCHANGED <<config, requested, wdt, now, reset_source, crashed, counter, chosen,
                 history, faults>>

Latest(s) == SubSeq(s, Max({1, Len(s) - StreakCap + 1}), Len(s))

\* A crash.  The first one of a period sets the time reference; when that fails
\* nothing else is done.
WatchdogCrash ==
  /\ pc = "watchdog" /\ crash_event_menu /\ StatusReadable
  /\ reset_is_due_to_watchdog_or_panic /\ ~(User /\ reboot_reason = "shutdown")
  /\ streak' = IF crashed THEN Latest(Append(streak, now)) ELSE <<>>
  /\ \/ /\ NoFault
        /\ wdt_time_ref' = IF WatchdogPeriod = 0 THEN now ELSE wdt_time_ref
        /\ counter' = (WatchdogPeriod + 1) % ByteSize
        /\ pc' = IF counter' <= wdt_counter_max THEN "count" ELSE "clear_counter"
     \/ /\ WatchdogPeriod = 0 /\ Fault("io")
        /\ pc' = "inserted" /\ UNCHANGED <<wdt_time_ref, counter>>
  /\ UNCHANGED <<config, requested, wdt_counter, wdt_counter_max, crash_event_menu, reset,
                 target, chosen, requests, served>>

\* set_watchdog_counter, whose failure is only logged.
SetWatchdogCounter ==
  /\ pc = "count" /\ pc' = "inserted"
  /\ \/ NoFault /\ wdt_counter' = counter
     \/ Fault("io") /\ UNCHANGED wdt_counter
  /\ UNCHANGED <<config, requested, wdt_time_ref, wdt_counter_max, crash_event_menu, reset,
                 choice, history>>

\* Mutant of ResetWatchdogStatus: the time reference is deleted first.
TimeReferenceFirst ==
  \/ /\ pc = "clear_counter"
     /\ NoFault /\ wdt_time_ref' = None /\ pc' = "clear_time"
     /\ UNCHANGED <<config, requested, wdt_counter, wdt_counter_max, crash_event_menu,
                    reset, choice, history>>
  \/ /\ pc = "clear_time"
     /\ NoFault /\ wdt_counter' = 0
     /\ pc' = IF counter = 0 THEN "inserted" ELSE "menu"
     /\ UNCHANGED <<config, requested, wdt_time_ref, wdt_counter_max, crash_event_menu,
                    reset, choice, history>>

\* reset_watchdog_status: the counter, then the time reference, which stays when
\* the counter cannot be deleted.  Only a crash (counter > 0) leads to the menu.
ResetWatchdogStatus ==
  LET done == IF counter = 0 THEN "inserted" ELSE "menu"
  IN  \/ /\ pc = "clear_counter"
         /\ \/ NoFault /\ wdt_counter' = 0 /\ pc' = "clear_time"
            \/ Fault("io") /\ UNCHANGED wdt_counter /\ pc' = done
         /\ UNCHANGED <<config, requested, wdt_time_ref, wdt_counter_max, crash_event_menu,
                        reset, choice, history>>
      \/ /\ pc = "clear_time" /\ pc' = done
         /\ \/ NoFault /\ wdt_time_ref' = None
            \/ Fault("io") /\ UNCHANGED wdt_time_ref
         /\ UNCHANGED <<config, requested, wdt_counter, wdt_counter_max, crash_event_menu,
                        reset, choice, history>>

\* ux_prompt_user_for_boot_target; an unusable screen counts as a normal boot.
CrashMenu ==
  /\ pc = "menu" /\ streak' = <<>>
  /\ \E t \in {"boot", "fastboot", "recovery", "power_off"} :
       target' = t /\ pc' = IF t = "boot" THEN "inserted" ELSE "run"
  /\ UNCHANGED <<config, requested, wdt, reset, counter, chosen, requests, served, faults>>

CheckBatteryInserted ==
  /\ pc = "inserted"
  /\ \/ pc' = "bcb" /\ UNCHANGED target
     \/ pc' = "run" /\ target' = "power_off"
  /\ UNCHANGED <<config, requested, wdt, reset, counter, chosen, history, faults>>

-----------------------------------------------------------------------------
(* Requests *)

\* The target a request stands for.
Resolved(t) == IF t = "unknown" THEN "boot" ELSE t

Serve(c, id) ==
  /\ chosen' = [channel |-> c, id |-> id]
  /\ served' = IF id = 0 THEN served
               ELSE [served EXCEPT ![id][c] = IF @ = 2 THEN 2 ELSE @ + 1]

CheckBcbUnreadable ==
  /\ pc = "bcb" /\ Fault("io") /\ pc' = "oneshot"
  /\ UNCHANGED <<config, requested, wdt, reset, choice, history>>

\* A persistent target; "boot-fastboot" is for the recovery system.
CheckBcbPersistent ==
  /\ pc = "bcb" /\ bcb.kind # "bootonce"
  /\ LET t == Resolved(bcb.target)
     IN  IF bcb.kind = "none" \/ t = "boot"
           THEN pc' = "oneshot" /\ UNCHANGED <<target, chosen, served>>
           ELSE /\ pc' = "run"
                /\ target' = IF t = "fastboot" THEN "recovery" ELSE t
                /\ Serve("boot", bcb.id)
  /\ UNCHANGED <<config, requested, wdt, reset, counter, requests, streak, faults>>

\* A one-shot target is removed from the BCB before it is used; a failure to
\* write the BCB is only logged.
CheckBcbOneShot ==
  /\ pc = "bcb" /\ bcb.kind = "bootonce"
  /\ \/ NoFault /\ bcb' = NoBcb
     \/ Fault("io") /\ UNCHANGED bcb
  /\ target' = Resolved(bcb.target)
  /\ IF target' = "boot" THEN pc' = "oneshot" /\ UNCHANGED chosen
     ELSE pc' = "bcb_oneshot" /\ chosen' = [channel |-> "bootonce", id |-> bcb.id]
  /\ UNCHANGED <<config, oneshot, wdt, reset, counter, history>>

\* Mutant of DropOneShot: LoaderEntryOneShot survives a one-shot BCB target.
OneShotKept ==
  /\ pc = "bcb_oneshot" /\ pc' = "run" /\ Serve("bootonce", chosen.id)
  /\ NoFault /\ UNCHANGED oneshot
  /\ UNCHANGED <<config, bcb, wdt, reset, counter, target, requests, streak>>

\* choose_boot_target then deletes LoaderEntryOneShot.
DropOneShot ==
  /\ pc = "bcb_oneshot" /\ pc' = "run" /\ Serve("bootonce", chosen.id)
  /\ \/ NoFault /\ oneshot' = NoOneShot
     \/ Fault("io") /\ UNCHANGED oneshot
  /\ UNCHANGED <<config, bcb, wdt, reset, counter, target, requests, streak>>

\* check_loader_entry_one_shot: read, delete (the result is ignored), use.  A
\* variable that cannot be read is deleted all the same.
CheckLoaderEntryOneShot ==
  /\ pc = "oneshot"
  /\ \/ NoFault /\ oneshot' = NoOneShot
     \/ Fault("io") /\ oneshot' \in {oneshot, NoOneShot}
  /\ \/ /\ \/ Resolved(oneshot.target) \in {"none", "boot"}
           \/ faults' # faults /\ oneshot' = NoOneShot
        /\ pc' = "battery" /\ UNCHANGED <<target, chosen, served>>
     \/ /\ Resolved(oneshot.target) \notin {"none", "boot"}
        /\ ~(faults' # faults /\ oneshot' = NoOneShot)
        /\ pc' = "run"
        /\ target' \in IF oneshot.target = "charger" THEN {"charger", "power_off"}
                       ELSE {Resolved(oneshot.target)}
        /\ Serve("oneshot", oneshot.id)
  /\ UNCHANGED <<config, bcb, wdt, reset, counter, requests, streak>>

\* check_battery and check_charge_mode.
CheckBattery ==
  /\ pc = "battery" /\ pc' = "run" /\ target' \in {"boot", "charger", "power_off"}
  /\ UNCHANGED <<config, requested, wdt, reset, counter, chosen, history, faults>>

-----------------------------------------------------------------------------
(* What the chosen target does *)

\* Any reset but a crash.
CleanReset == pc' = "off" /\ reset_source' = "other" /\ crashed' = FALSE

\* The kernel command line holds the reboot reason, which is deleted once read.
StartOs ==
  /\ pc = "run" /\ target \in {"boot", "recovery", "charger"} /\ pc' = "os"
  /\ reboot_reason' = "none"
  /\ UNCHANGED <<config, requested, wdt, now, reset_source, crashed, choice, history, faults>>

EnterFastboot ==
  /\ pc = "run" /\ target = "fastboot" /\ pc' = "fastboot"
  /\ UNCHANGED <<config, requested, wdt, reset, choice, history, faults>>

\* Power off, or an EFI binary of the ESP after which the device is rebooted.
Stop ==
  /\ pc = "run" /\ target \in {"power_off", "file"} /\ CleanReset
  /\ UNCHANGED <<config, requested, wdt, reboot_reason, now, choice, history, faults>>

\* reboot(target): the one-shot entry, without which the device halts.
RebootTo(t, id) ==
  /\ \/ NoFault /\ oneshot' = [target |-> t, id |-> id]
     \/ Fault("io") /\ UNCHANGED oneshot
  /\ CleanReset

NewRequest == requests < MaxRequests /\ requests' = requests + 1

\* fastboot's reboot, continue, reboot-recovery and "oem reboot".
cmd_reboot ==
  /\ pc = "fastboot" /\ NewRequest
  /\ \E t \in {"boot", "recovery", "fastboot"} : RebootTo(t, requests')
  /\ UNCHANGED <<config, bcb, wdt, reboot_reason, now, choice, served, streak>>

\* fastboot's reboot-bootloader and reboot-fastboot: the BCB first; when that
\* fails the one-shot entry alone is left.
WriteBcb(kind, t) ==
  /\ pc = "fastboot" /\ pc' = "reboot_target" /\ NewRequest
  /\ target' = t
  /\ \/ NoFault /\ bcb' = [kind |-> kind, target |-> "fastboot", id |-> requests']
     \/ Fault("io") /\ UNCHANGED bcb
  /\ UNCHANGED <<config, oneshot, wdt, reset, counter, chosen, served, streak>>

cmd_reboot_bootloader == WriteBcb("bootonce", "fastboot")

cmd_reboot_fastbootd == WriteBcb("boot", "recovery")

reboot_to_target ==
  /\ pc = "reboot_target" /\ RebootTo(target, requests)
  /\ UNCHANGED <<config, bcb, wdt, reboot_reason, now, choice, history>>

\* "fastboot boot": the received image is started without a reset.
cmd_boot ==
  /\ pc = "fastboot" /\ pc' = "run" /\ target' = "boot"
  /\ UNCHANGED <<config, requested, wdt, reset, counter, chosen, history, faults>>

cmd_oem_set_watchdog_counter_max ==
  /\ pc = "fastboot" /\ ~User
  /\ wdt_counter_max' \in CounterMaxes \ {wdt_counter_max}
  /\ UNCHANGED <<config, requested, wdt_counter, wdt_time_ref, crash_event_menu, reset, pc,
                 choice, history, faults>>

cmd_oem_crash_event_menu ==
  /\ pc = "fastboot" /\ crash_event_menu' = ~crash_event_menu
  /\ UNCHANGED <<config, requested, wdt_counter, wdt_time_ref, wdt_counter_max, reset, pc,
                 choice, history, faults>>

-----------------------------------------------------------------------------
(* The running system *)

\* A reboot, with a one-shot entry or without one.
OsReboot ==
  /\ pc = "os" /\ CleanReset
  /\ \/ UNCHANGED <<oneshot, requests>>
     \/ /\ NewRequest
        /\ \E t \in Targets \ {"file"} : oneshot' = [target |-> t, id |-> requests']
  /\ UNCHANGED <<config, bcb, wdt, reboot_reason, now, choice, served, streak, faults>>

\* The updater and the recovery system write and clear the BCB.
OsWriteBcb ==
  /\ pc = "os"
  /\ \/ /\ NewRequest
        /\ \E k \in {"boot", "bootonce"}, t \in Targets :
             bcb' = [kind |-> k, target |-> t, id |-> requests']
     \/ bcb # NoBcb /\ bcb' = NoBcb /\ UNCHANGED requests
  /\ UNCHANGED <<config, oneshot, wdt, reset, pc, choice, served, streak, faults>>

\* Some time later the system crashes, or hangs while it shuts down: the platform
\* reports a watchdog reset, or the system has left a reboot reason.
OsCrash ==
  /\ pc = "os" /\ pc' = "off" /\ crashed' = TRUE
  /\ now' \in now .. MaxTime
  /\ \/ /\ "reset_source" \in Crashes /\ reset_source' = "watchdog"
        /\ reboot_reason' \in {reboot_reason, "shutdown"}
     \/ /\ "reboot_reason" \in Crashes /\ reset_source' = "other"
        /\ reboot_reason' \in CrashReasons
  /\ UNCHANGED <<config, requested, wdt, choice, history, faults>>

-----------------------------------------------------------------------------
Boot == \/ PowerOn \/ CheckKeys
        \/ WatchdogSkip \/ WatchdogNoCrash \/ WatchdogShutdown \/ WatchdogCrash
        \/ SetWatchdogCounter \/ ResetWatchdogStatus \/ CrashMenu
        \/ CheckBatteryInserted
        \/ CheckBcbUnreadable \/ CheckBcbPersistent \/ CheckBcbOneShot \/ DropOneShot
        \/ CheckLoaderEntryOneShot \/ CheckBattery
        \/ StartOs \/ EnterFastboot \/ Stop \/ reboot_to_target

Command == \/ cmd_reboot \/ cmd_reboot_bootloader \/ cmd_reboot_fastbootd \/ cmd_boot
           \/ cmd_oem_set_watchdog_counter_max \/ cmd_oem_crash_event_menu

Next == Boot \/ Command \/ OsReboot \/ OsWriteBcb \/ OsCrash \/ PowerLoss

Spec == Init /\ [][Next]_vars

-----------------------------------------------------------------------------
(* Properties *)

\* Wherever power fails, a stored watchdog counter has its time reference, so
\* that get_watchdog_status never fails for good and crashes keep being counted.
WatchdogStatusReadable == StatusReadable

\* One request for a one-shot target (BCB "bootonce-", LoaderEntryOneShot, or
\* both as reboot-bootloader leaves them) is acted upon in one boot at most:
\* check_bcb and check_loader_entry_one_shot remove it before it is used, and
\* only a write that fails can bring it back.
OneShotServedOnce ==
  faults["io"] = 0 => \A i \in DOMAIN served :
    served[i]["bootonce"] + served[i]["oneshot"] <= 1

\* The crashes the crash menu is for, without faults.  (A crash that has left its
\* reason stays in LoaderEntryRebootReason until a system starts; a boot that ends
\* before counts it and the next one counts it again.)
WatchdogOnly == Crashes = {"reset_source"} /\ faults["io"] + faults["power"] = 0

\* The crash menu is shown only after more than get_watchdog_counter_max()
\* watchdog resets in a row, all within WATCHDOG_DELAY (check_watchdog).
MenuJustified ==
  WatchdogOnly /\ pc = "menu" =>
    /\ Len(streak) > wdt_counter_max
    /\ streak[Len(streak)] - streak[Len(streak) - wdt_counter_max] <= Delay

\* Crashes cannot follow each other unnoticed: among any twice the maximum plus
\* one crashes in a row that check_watchdog lets pass, the first and the last are
\* more than WATCHDOG_DELAY apart.
CrashLoopBounded ==
  WatchdogOnly /\ pc \notin {"clear_counter", "clear_time", "menu"} /\ Len(streak) = StreakCap
    => streak[StreakCap] - streak[1] > Delay
=============================================================================
