------------------------- MODULE BootReasonsProofs -------------------------
(***************************************************************************)
(* Proofs about BootReasons, for every build, byte size, delay, number of  *)
(* requests and of faults: the watchdog status, one-shot requests, and the *)
(* watchdog resets counted for the crash menu.                             *)
(***************************************************************************)
EXTENDS BootReasons, WellFoundedInduction, SequenceTheorems, TLAPS

-----------------------------------------------------------------------------
(* The watchdog status *)

\* The inductive invariant: besides, between the two writes of check_watchdog
\* the time reference is there, between those of reset_watchdog_status the
\* counter is not.  The clock never shows the time that stands for "absent".
WatchdogInv ==
  /\ now \in Nat
  /\ WatchdogStatusReadable
  /\ pc = "count" => wdt_time_ref # None
  /\ pc = "clear_time" => wdt_counter = 0

LEMMA WatchdogStep == WatchdogInv /\ [Next]_vars => WatchdogInv'
<1> SUFFICES ASSUME WatchdogInv, [Next]_vars
             PROVE  WatchdogInv'
  BY Zenon
<1> USE DEF WatchdogInv, WatchdogStatusReadable, StatusReadable
<1>1. CASE WatchdogCrash
  <2>1. now' = now /\ wdt_counter' = wdt_counter /\ pc' # "clear_time"
    BY <1>1, Zenon DEF WatchdogCrash, reset
  <2>2. CASE WatchdogPeriod = 0
    <3>1. wdt_time_ref' = now \/ (pc' = "inserted" /\ wdt_time_ref' = wdt_time_ref)
      BY <1>1, <2>2, Zenon DEF WatchdogCrash
    <3> QED BY <2>1, <3>1 DEF None
  <2>3. CASE WatchdogPeriod # 0
    <3>1. wdt_time_ref' = wdt_time_ref
      BY <1>1, <2>3, Zenon DEF WatchdogCrash
    <3>2. wdt_counter # 0
      BY <2>3, Zenon DEF WatchdogPeriod
    <3> QED BY <2>1, <3>1, <3>2, Zenon
  <2> QED BY <2>2, <2>3, Zenon
<1>2. CASE SetWatchdogCounter
  BY <1>2, Zenon DEF SetWatchdogCounter, reset
<1>3. CASE ResetWatchdogStatus
  BY <1>3, Zenon DEF ResetWatchdogStatus, reset
<1>4. CASE OsCrash
  <2>1. now' \in Nat /\ UNCHANGED wdt /\ pc' = "off"
    BY <1>4 DEF OsCrash
  <2> QED BY <2>1, Zenon DEF wdt
<1>5. CASE WatchdogNoCrash \/ WatchdogSkip \/ WatchdogShutdown
  BY <1>5, Zenon DEF WatchdogNoCrash, WatchdogSkip, WatchdogShutdown, wdt, reset
<1>6. CASE \/ PowerOn \/ CheckKeys \/ CrashMenu \/ CheckBatteryInserted
           \/ CheckBcbUnreadable \/ CheckBcbPersistent \/ CheckBcbOneShot \/ DropOneShot
           \/ CheckLoaderEntryOneShot \/ CheckBattery \/ StartOs \/ EnterFastboot \/ Stop
           \/ reboot_to_target \/ Command \/ OsReboot \/ OsWriteBcb \/ PowerLoss
  <2>1. now' = now /\ wdt_counter' = wdt_counter /\ wdt_time_ref' = wdt_time_ref
    BY <1>6, ZenonT(60) DEF PowerOn, CheckKeys, CrashMenu, CheckBatteryInserted, CheckBcbUnreadable,
         CheckBcbPersistent, CheckBcbOneShot, DropOneShot, CheckLoaderEntryOneShot,
         CheckBattery, StartOs, EnterFastboot, Stop, reboot_to_target, Command, OsReboot,
         OsWriteBcb, PowerLoss, cmd_reboot, cmd_reboot_bootloader, cmd_reboot_fastbootd,
         WriteBcb, cmd_boot, cmd_oem_set_watchdog_counter_max, cmd_oem_crash_event_menu,
         wdt, reset
  <2>2. pc' \notin {"count", "clear_time"}
    BY <1>6, Zenon DEF PowerOn, CheckKeys, CrashMenu, CheckBatteryInserted, CheckBcbUnreadable,
         CheckBcbPersistent, CheckBcbOneShot, DropOneShot, CheckLoaderEntryOneShot,
         CheckBattery, StartOs, EnterFastboot, Stop, reboot_to_target, Command, OsReboot,
         OsWriteBcb, PowerLoss, cmd_reboot, cmd_reboot_bootloader, cmd_reboot_fastbootd,
         WriteBcb, cmd_boot, cmd_oem_set_watchdog_counter_max, cmd_oem_crash_event_menu,
         CleanReset, RebootTo
  <2> QED BY <2>1, <2>2, Zenon
<1>7. CASE UNCHANGED vars
  BY <1>7, Zenon DEF vars, wdt, reset
<1> QED BY <1>1, <1>2, <1>3, <1>4, <1>5, <1>6, <1>7, Zenon DEF Next, Boot

\* Wherever power fails and whatever write fails in check_watchdog and
\* reset_watchdog_status, a stored counter has its time reference, so that
\* get_watchdog_status can be read in every boot.
THEOREM StatusStaysReadable == Spec => []WatchdogStatusReadable
<1>1. Init => WatchdogInv
  BY DEF Init, WatchdogInv, WatchdogStatusReadable, StatusReadable
<1>2. WatchdogInv => WatchdogStatusReadable
  BY Zenon DEF WatchdogInv
<1> QED BY <1>1, <1>2, WatchdogStep, PTL DEF Spec
-----------------------------------------------------------------------------
(* One-shot requests *)

\* The request i has not been acted upon by way of a one-shot channel.
Fresh(i) == served[i]["bootonce"] = 0 /\ served[i]["oneshot"] = 0

ServedType == served \in [1 .. MaxRequests -> [Channels -> 0 .. 2]]

\* The inductive invariant.  As long as no write failed, what still waits to be
\* acted upon is fresh, be it in the BCB, in LoaderEntryOneShot or between the
\* two writes of choose_boot_target or of reboot-bootloader; and where the entry
\* is read or deleted the BCB holds no one-shot target any more.
Waits(i) == i # 0 => Fresh(i)

Pending ==
  /\ pc \in {"bcb_oneshot", "oneshot"} => bcb.kind # "bootonce"
  /\ bcb.kind = "bootonce" => Waits(bcb.id)
  /\ Waits(oneshot.id)
  /\ pc = "bcb_oneshot" => Waits(chosen.id)
  /\ pc = "reboot_target" => Waits(requests)
  /\ \A i \in 1 .. MaxRequests : i > requests => Fresh(i)

OneShotType ==
  /\ config \in Configs /\ requests \in Ids
  /\ ServedType /\ faults \in [{"power", "io"} -> Nat]
  /\ bcb.id \in 0 .. requests /\ oneshot.id \in 0 .. requests
  /\ pc = "bcb_oneshot" => chosen.id \in 0 .. requests

OneShotInv ==
  /\ OneShotType
  /\ OneShotServedOnce
  /\ faults["io"] = 0 => Pending

LEMMA ConfigType == ASSUME OneShotType PROVE MaxRequests \in Nat
BY ReasonsAssumption, Zenon DEF OneShotType, MaxRequests

\* What Fault and NoFault do to the count of failed writes.
LEMMA FaultCount ==
  ASSUME OneShotType
  PROVE  /\ NoFault \/ Fault("power") \/ Fault("io")
              => faults' \in [{"power", "io"} -> Nat] /\ (faults'["io"] = 0 => faults["io"] = 0)
         /\ Fault("io") => faults'["io"] # 0
BY DEF OneShotType, NoFault, Fault

\* Serve counts one more use of the request, and of no other.
LEMMA ServeCounts ==
  ASSUME OneShotType, config' = config, NEW c \in Channels, NEW id \in 0 .. requests,
         Serve(c, id)
  PROVE  /\ ServedType'
         /\ \A i \in 1 .. MaxRequests : i # id => served'[i] = served[i]
         /\ id # 0 => /\ id \in 1 .. MaxRequests
                      /\ \A d \in Channels : d # c => served'[id][d] = served[id][d]
                      /\ served[id][c] = 0 => served'[id][c] = 1
<1>1. MaxRequests \in Nat /\ MaxRequests' = MaxRequests BY ConfigType, Zenon DEF MaxRequests
<1>2. CASE id = 0
  BY <1>1, <1>2, Zenon DEF Serve, ServedType, OneShotType
<1>3. CASE id # 0
  <2>1. id \in 1 .. MaxRequests BY <1>1, <1>3 DEF OneShotType, Ids
  <2>2. served' = [served EXCEPT ![id] =
                     [served[id] EXCEPT ![c] = IF served[id][c] = 2 THEN 2 ELSE served[id][c] + 1]]
    BY <1>3, Zenon DEF Serve
  <2>3. served[id] \in [Channels -> 0 .. 2] BY <2>1, Zenon DEF OneShotType, ServedType
  <2>4. [served[id] EXCEPT ![c] = IF served[id][c] = 2 THEN 2 ELSE served[id][c] + 1]
          \in [Channels -> 0 .. 2]
    BY <2>3
  <2> QED BY <1>1, <2>1, <2>2, <2>3, <2>4 DEF ServedType, OneShotType
<1> QED BY <1>2, <1>3, Zenon

FaultStep == NoFault \/ Fault("power") \/ Fault("io")

\* Steps that serve nothing and ask for nothing.
LEMMA QuietStep ==
  ASSUME OneShotInv, FaultStep, UNCHANGED <<config, bcb, oneshot, requests, served>>,
         pc' \notin {"bcb_oneshot", "reboot_target"},
         pc' = "oneshot" => Fault("io") \/ bcb.kind # "bootonce"
  PROVE  OneShotInv'
<1>1. /\ MaxRequests' = MaxRequests
      /\ faults' \in [{"power", "io"} -> Nat] /\ (faults'["io"] = 0 => faults["io"] = 0)
      /\ Fault("io") => faults'["io"] # 0
  BY FaultCount, Zenon DEF OneShotInv, FaultStep, MaxRequests
<1>2. OneShotType'
  BY <1>1, Zenon DEF OneShotInv, OneShotType, ServedType, Ids
<1>3. OneShotServedOnce'
  BY <1>1, Zenon DEF OneShotInv, OneShotServedOnce
<1>4. faults'["io"] = 0 => Pending'
  BY <1>1, Zenon DEF OneShotInv, Pending, Waits, Fresh
<1> QED BY <1>2, <1>3, <1>4, Zenon DEF OneShotInv

\* Steps that ask for something: a new request, or the second write of one.
LEMMA AskStep ==
  ASSUME OneShotInv, FaultStep, UNCHANGED <<config, served>>,
         NewRequest \/ requests' = requests,
         \/ bcb' = bcb
         \/ bcb' = NoBcb
         \/ NewRequest /\ bcb'.id = requests',
         \/ oneshot' = oneshot
         \/ (NewRequest \/ pc = "reboot_target") /\ oneshot'.id = requests',
         pc' \notin {"bcb_oneshot", "oneshot"}, pc' = "reboot_target" => NewRequest
  PROVE  OneShotInv'
<1>1. /\ MaxRequests' = MaxRequests /\ MaxRequests \in Nat /\ requests \in 0 .. MaxRequests
      /\ faults' \in [{"power", "io"} -> Nat] /\ (faults'["io"] = 0 => faults["io"] = 0)
  BY FaultCount, ConfigType, Zenon DEF OneShotInv, OneShotType, FaultStep, MaxRequests, Ids
<1>2. /\ requests' \in 0 .. MaxRequests /\ requests <= requests'
      /\ NewRequest => requests' = requests + 1
  BY <1>1 DEF NewRequest
<1>3. bcb'.id \in 0 .. requests' /\ oneshot'.id \in 0 .. requests'
  BY <1>1, <1>2 DEF OneShotInv, OneShotType, NoBcb
<1>4. OneShotType'
  BY <1>1, <1>2, <1>3, Zenon DEF OneShotInv, OneShotType, ServedType, Ids
<1>5. OneShotServedOnce'
  BY <1>1, Zenon DEF OneShotInv, OneShotServedOnce
<1>6. ASSUME faults'["io"] = 0 PROVE Pending'
  <2>1. Pending BY <1>1, <1>6, Zenon DEF OneShotInv
  <2>2. NewRequest => Fresh(requests')
    BY <1>1, <1>2, <2>1 DEF Pending
  <2>3. bcb'.kind = "bootonce" => Waits(bcb'.id)
    BY <2>1, <2>2 DEF Pending, Waits, NoBcb
  <2>4. Waits(oneshot'.id) /\ (pc' = "reboot_target" => Waits(requests'))
    BY <1>2, <2>1, <2>2, Zenon DEF Pending, Waits
  <2>5. \A i \in 1 .. MaxRequests : i > requests' => Fresh(i)
    BY <1>1, <1>2, <2>1 DEF Pending
  <2> QED BY <1>1, <2>3, <2>4, <2>5, Zenon DEF Pending, Waits, Fresh
<1> QED BY <1>4, <1>5, <1>6, Zenon DEF OneShotInv

\* Steps that act upon the request id, found in the channel c.
LEMMA ServeStep ==
  ASSUME OneShotInv, FaultStep, UNCHANGED <<config, bcb, requests>>,
         NEW c \in Channels, NEW id \in 0 .. requests, Serve(c, id), pc' = "run",
         oneshot' \in {oneshot, NoOneShot},
         c # "boot" /\ faults'["io"] = 0 =>
           Waits(id) /\ bcb.kind # "bootonce" /\ oneshot' = NoOneShot
  PROVE  OneShotInv'
<1>1. /\ MaxRequests' = MaxRequests /\ MaxRequests \in Nat
      /\ faults' \in [{"power", "io"} -> Nat] /\ (faults'["io"] = 0 => faults["io"] = 0)
  BY FaultCount, ConfigType, Zenon DEF OneShotInv, FaultStep, MaxRequests
<1>2. /\ ServedType'
      /\ \A i \in 1 .. MaxRequests : i # id => served'[i] = served[i]
      /\ id # 0 => /\ id \in 1 .. MaxRequests
                   /\ \A d \in Channels : d # c => served'[id][d] = served[id][d]
                   /\ served[id][c] = 0 => served'[id][c] = 1
  BY ServeCounts, Zenon DEF OneShotInv
<1>3. OneShotType'
  BY <1>1, <1>2 DEF OneShotInv, OneShotType, NoOneShot, Ids
<1>4. DOMAIN served = 1 .. MaxRequests /\ DOMAIN served' = 1 .. MaxRequests
  BY <1>1, <1>2, Zenon DEF OneShotInv, OneShotType, ServedType
<1>5. CASE c = "boot"
  <2>1. \A i \in 1 .. MaxRequests : /\ served'[i]["bootonce"] = served[i]["bootonce"]
                                    /\ served'[i]["oneshot"] = served[i]["oneshot"]
    BY <1>2, <1>5 DEF Channels
  <2>2. OneShotServedOnce'
    BY <1>1, <1>4, <2>1, Zenon DEF OneShotInv, OneShotServedOnce
  <2>3. ASSUME faults'["io"] = 0 PROVE Pending'
    <3>1. Pending BY <1>1, <2>3, Zenon DEF OneShotInv
    <3>2. \A i \in 1 .. MaxRequests : Fresh(i) => Fresh(i)'
      BY <2>1, Zenon DEF Fresh
    <3>3. bcb.id \in 0 .. MaxRequests /\ oneshot.id \in 0 .. MaxRequests
      BY <1>1 DEF OneShotInv, OneShotType, Ids
    <3> QED BY <1>1, <3>1, <3>2, <3>3 DEF Pending, Waits, NoOneShot
  <2> QED BY <1>3, <2>2, <2>3, Zenon DEF OneShotInv
<1>6. CASE c # "boot"
  <2> SUFFICES ASSUME faults'["io"] = 0
               PROVE  OneShotServedOnce' /\ Pending'
    BY <1>3, Zenon DEF OneShotInv, OneShotServedOnce
  <2>1. Pending /\ Waits(id) /\ bcb.kind # "bootonce" /\ oneshot' = NoOneShot
    BY <1>1, <1>6, Zenon DEF OneShotInv
  <2>2. \A i \in 1 .. MaxRequests : served'[i]["bootonce"] + served'[i]["oneshot"] <= 1
    <3> SUFFICES ASSUME NEW i \in 1 .. MaxRequests
                 PROVE  served'[i]["bootonce"] + served'[i]["oneshot"] <= 1
      BY Zenon
    <3>1. CASE i # id
      BY <1>1, <1>2, <1>4, <3>1, Zenon DEF OneShotInv, OneShotServedOnce
    <3>2. CASE i = id
      BY <1>2, <1>6, <2>1, <3>2 DEF Waits, Fresh, Channels
    <3> QED BY <3>1, <3>2, Zenon
  <2>3. Pending'
    <3>1. ASSUME NEW i \in 1 .. MaxRequests, i > requests PROVE Fresh(i)'
      <4>1. requests \in Nat /\ i # id
        BY <1>1, <3>1 DEF OneShotInv, OneShotType, Ids
      <4> QED BY <1>2, <2>1, <3>1, <4>1, Zenon DEF Pending, Fresh
    <3> QED BY <1>1, <2>1, <3>1, Zenon DEF Pending, Waits, NoOneShot
  <2> QED BY <1>4, <2>2, <2>3, Zenon DEF OneShotServedOnce
<1> QED BY <1>5, <1>6, Zenon

LEMMA OneShotStep == OneShotInv /\ [Next]_vars => OneShotInv'
<1> SUFFICES ASSUME OneShotInv, [Next]_vars
             PROVE  OneShotInv'
  BY Zenon
<1>1. CASE \/ PowerOn \/ CheckKeys \/ WatchdogSkip \/ WatchdogNoCrash \/ WatchdogShutdown
           \/ WatchdogCrash \/ SetWatchdogCounter \/ ResetWatchdogStatus \/ CrashMenu
           \/ CheckBatteryInserted \/ CheckBattery \/ StartOs
           \/ EnterFastboot \/ Stop \/ cmd_boot \/ cmd_oem_set_watchdog_counter_max
           \/ cmd_oem_crash_event_menu \/ OsCrash \/ PowerLoss
  <2>1. UNCHANGED <<config, bcb, oneshot, requests, served>> /\ FaultStep
    BY <1>1, ZenonT(60) DEF PowerOn, CheckKeys, WatchdogSkip, WatchdogNoCrash, WatchdogShutdown,
         WatchdogCrash, SetWatchdogCounter, ResetWatchdogStatus, CrashMenu,
         CheckBatteryInserted, CheckBattery, StartOs, EnterFastboot, Stop,
         cmd_boot, cmd_oem_set_watchdog_counter_max, cmd_oem_crash_event_menu, OsCrash,
         PowerLoss, requested, history, FaultStep, NoFault
  <2>2. pc' \notin {"bcb_oneshot", "reboot_target", "oneshot"}
    BY <1>1, Zenon DEF PowerOn, CheckKeys, WatchdogSkip, WatchdogNoCrash, WatchdogShutdown,
         WatchdogCrash, SetWatchdogCounter, ResetWatchdogStatus, CrashMenu,
         CheckBatteryInserted, CheckBattery, StartOs, EnterFastboot, Stop,
         cmd_boot, cmd_oem_set_watchdog_counter_max, cmd_oem_crash_event_menu, OsCrash,
         PowerLoss, CleanReset
  <2> QED BY <2>1, <2>2, QuietStep, Zenon
<1>2. CASE CheckBcbUnreadable
  <2>1. UNCHANGED <<config, bcb, oneshot, requests, served>> /\ Fault("io") /\ pc' = "oneshot"
    BY <1>2, Zenon DEF CheckBcbUnreadable, requested, history
  <2> QED BY <2>1, QuietStep, Zenon DEF FaultStep
<1>3. CASE CheckBcbPersistent
  <2>1. /\ UNCHANGED <<config, bcb, oneshot, requests>> /\ FaultStep /\ bcb.kind # "bootonce"
        /\ \/ pc' = "oneshot" /\ UNCHANGED served
           \/ pc' = "run" /\ Serve("boot", bcb.id)
    BY <1>3, Zenon DEF CheckBcbPersistent, requested, FaultStep, NoFault
  <2>2. bcb.id \in 0 .. requests /\ "boot" \in Channels
    BY Zenon DEF OneShotInv, OneShotType, Channels
  <2> QED BY <2>1, <2>2, QuietStep, ServeStep, Zenon
<1>4. CASE CheckBcbOneShot
  <2>1. /\ UNCHANGED <<config, oneshot, requests, served>> /\ FaultStep
        /\ bcb.kind = "bootonce" /\ pc' \in {"bcb_oneshot", "oneshot"}
        /\ bcb' = NoBcb \/ (bcb' = bcb /\ Fault("io"))
        /\ pc' = "bcb_oneshot" => chosen'.id = bcb.id
    BY <1>4 DEF CheckBcbOneShot, history, FaultStep
  <2>2. /\ MaxRequests' = MaxRequests
        /\ faults' \in [{"power", "io"} -> Nat] /\ (faults'["io"] = 0 => faults["io"] = 0)
        /\ Fault("io") => faults'["io"] # 0
    BY <2>1, FaultCount, Zenon DEF OneShotInv, FaultStep, MaxRequests
  <2>3. OneShotType'
    BY <2>1, <2>2 DEF OneShotInv, OneShotType, ServedType, Ids, NoBcb
  <2>4. OneShotServedOnce'
    BY <2>1, <2>2, Zenon DEF OneShotInv, OneShotServedOnce
  <2>5. faults'["io"] = 0 => Pending'
    BY <2>1, <2>2 DEF OneShotInv, Pending, Waits, Fresh, NoBcb
  <2> QED BY <2>3, <2>4, <2>5, Zenon DEF OneShotInv
<1>5. CASE DropOneShot
  <2>1. /\ UNCHANGED <<config, bcb, requests>> /\ FaultStep /\ pc = "bcb_oneshot"
        /\ pc' = "run" /\ Serve("bootonce", chosen.id)
        /\ oneshot' = NoOneShot \/ (oneshot' = oneshot /\ Fault("io"))
    BY <1>5, Zenon DEF DropOneShot, FaultStep
  <2>2. (faults'["io"] = 0 => faults["io"] = 0) /\ (Fault("io") => faults'["io"] # 0)
    BY <2>1, FaultCount, Zenon DEF OneShotInv, FaultStep
  <2>3. faults'["io"] = 0 => Waits(chosen.id) /\ bcb.kind # "bootonce" /\ oneshot' = NoOneShot
    BY <2>1, <2>2, Zenon DEF OneShotInv, Pending
  <2>4. chosen.id \in 0 .. requests /\ "bootonce" \in Channels
    BY <2>1, Zenon DEF OneShotInv, OneShotType, Channels
  <2> QED BY <2>1, <2>3, <2>4, ServeStep, Zenon
<1>6. CASE CheckLoaderEntryOneShot
  <2>1. /\ UNCHANGED <<config, bcb, requests>> /\ FaultStep /\ pc = "oneshot"
        /\ oneshot' = NoOneShot \/ (oneshot' = oneshot /\ Fault("io"))
        /\ \/ pc' = "battery" /\ UNCHANGED served
           \/ pc' = "run" /\ Serve("oneshot", oneshot.id)
    BY <1>6, Zenon DEF CheckLoaderEntryOneShot, FaultStep
  <2>2. /\ MaxRequests' = MaxRequests
        /\ faults' \in [{"power", "io"} -> Nat] /\ (faults'["io"] = 0 => faults["io"] = 0)
        /\ Fault("io") => faults'["io"] # 0
    BY <2>1, FaultCount, Zenon DEF OneShotInv, FaultStep, MaxRequests
  <2>3. CASE pc' = "battery" /\ UNCHANGED served
    <3>1. OneShotType'
      BY <2>1, <2>2, <2>3 DEF OneShotInv, OneShotType, ServedType, Ids, NoOneShot
    <3>2. OneShotServedOnce'
      BY <2>1, <2>2, <2>3, Zenon DEF OneShotInv, OneShotServedOnce
    <3>3. faults'["io"] = 0 => Pending'
      BY <2>1, <2>2, <2>3 DEF OneShotInv, Pending, Waits, Fresh, NoOneShot
    <3> QED BY <3>1, <3>2, <3>3, Zenon DEF OneShotInv
  <2>4. CASE pc' = "run" /\ Serve("oneshot", oneshot.id)
    <3>1. faults'["io"] = 0 => Waits(oneshot.id) /\ bcb.kind # "bootonce" /\ oneshot' = NoOneShot
      BY <2>1, <2>2, Zenon DEF OneShotInv, Pending
    <3>2. oneshot.id \in 0 .. requests /\ "oneshot" \in Channels
      BY Zenon DEF OneShotInv, OneShotType, Channels
    <3> QED BY <2>1, <2>4, <3>1, <3>2, ServeStep, Zenon
  <2> QED BY <2>1, <2>3, <2>4, Zenon
<1>7. CASE cmd_reboot \/ OsReboot
  <2>1. /\ UNCHANGED <<config, bcb, served>> /\ FaultStep /\ pc' = "off"
        /\ NewRequest \/ requests' = requests
        /\ oneshot' = oneshot \/ (NewRequest /\ oneshot'.id = requests')
    BY <1>7 DEF cmd_reboot, OsReboot, RebootTo, CleanReset, FaultStep, NoFault
  <2> QED BY <2>1, AskStep, Zenon
<1>8. CASE cmd_reboot_bootloader \/ cmd_reboot_fastbootd
  <2>1. /\ UNCHANGED <<config, oneshot, served>> /\ FaultStep /\ pc' = "reboot_target"
        /\ NewRequest /\ (bcb' = bcb \/ bcb'.id = requests')
    BY <1>8 DEF cmd_reboot_bootloader, cmd_reboot_fastbootd, WriteBcb, FaultStep
  <2> QED BY <2>1, AskStep, Zenon
<1>9. CASE reboot_to_target
  <2>1. /\ UNCHANGED <<config, bcb, served, requests>> /\ FaultStep /\ pc' = "off"
        /\ pc = "reboot_target" /\ (oneshot' = oneshot \/ oneshot'.id = requests)
    BY <1>9 DEF reboot_to_target, RebootTo, CleanReset, FaultStep, history
  <2> QED BY <2>1, AskStep, Zenon
<1>10. CASE OsWriteBcb
  <2>1. /\ UNCHANGED <<config, oneshot, served>> /\ FaultStep /\ pc' = "os"
        /\ \/ NewRequest /\ bcb'.id = requests'
           \/ requests' = requests /\ bcb' = NoBcb
    BY <1>10 DEF OsWriteBcb, FaultStep, NoFault
  <2> QED BY <2>1, AskStep, Zenon
<1>11. CASE UNCHANGED vars
  BY <1>11, Zenon DEF vars, requested, history, choice, OneShotInv, OneShotType, OneShotServedOnce,
     Pending, ServedType, Waits, Fresh, Ids, MaxRequests
<1> QED
  BY <1>1, <1>2, <1>3, <1>4, <1>5, <1>6, <1>7, <1>8, <1>9, <1>10, <1>11, Zenon DEF Next, Boot, Command

LEMMA OneShotInvariant == Spec => []OneShotInv
<1>1. Init => OneShotInv
  BY ReasonsAssumption DEF Init, OneShotInv, OneShotType, OneShotServedOnce, Pending,
     ServedType, Waits, Fresh, Ids, MaxRequests, NoBcb, NoOneShot, Channels
<1> QED BY <1>1, OneShotStep, PTL DEF Spec

\* However power fails between the writes of check_bcb, choose_boot_target and
\* the reboot commands, a one-shot request is acted upon in one boot at most,
\* unless a write fails.
THEOREM RequestsServedOnce == Spec => []OneShotServedOnce
<1>1. OneShotInv => OneShotServedOnce
  BY Zenon DEF OneShotInv
<1> QED BY <1>1, OneShotInvariant, PTL

-----------------------------------------------------------------------------
(* Types *)

\* The types by what they are about: requests, watchdog, places and flags.
RequestType ==
  /\ bcb \in [kind : {"none", "boot", "bootonce"}, target : AllTargets, id : Ids]
  /\ oneshot \in [target : AllTargets \union {"none"}, id : Ids]
  /\ chosen \in [channel : Channels \union {"none"}, id : Ids]

WatchdogType ==
  /\ wdt_counter \in 0 .. ByteSize - 1 /\ wdt_counter_max \in 0 .. ByteSize - 1
  /\ counter \in 0 .. ByteSize - 1
  /\ now \in Nat /\ wdt_time_ref \in Nat \union {None}

PlaceType ==
  /\ reboot_reason \in {"none", "shutdown"} \union CrashReasons
  /\ reset_source \in {"other", "watchdog"}
  /\ pc \in PCs /\ target \in (AllTargets \ {"unknown"}) \union {"power_off"}
  /\ pc = "reboot_target" => target \in {"fastboot", "recovery"}

FlagType == crash_event_menu \in BOOLEAN /\ crashed \in BOOLEAN

LEMMA FlagStep == FlagType /\ [Next]_vars => FlagType'
<1> SUFFICES ASSUME FlagType, [Next]_vars PROVE FlagType'
  BY Zenon
<1>1. crash_event_menu' = crash_event_menu \/ crash_event_menu' = ~crash_event_menu
  BY ZenonT(60) DEF Next, Boot, Command, PowerOn, CheckKeys, WatchdogSkip, WatchdogNoCrash, WatchdogShutdown, WatchdogCrash,
     SetWatchdogCounter, ResetWatchdogStatus, CrashMenu, CheckBatteryInserted,
     CheckBcbUnreadable, CheckBcbPersistent, CheckBcbOneShot, DropOneShot,
     CheckLoaderEntryOneShot, CheckBattery, StartOs, EnterFastboot, Stop, reboot_to_target,
     cmd_reboot, cmd_reboot_bootloader, cmd_reboot_fastbootd, WriteBcb, cmd_boot,
     cmd_oem_set_watchdog_counter_max, cmd_oem_crash_event_menu, OsReboot, OsWriteBcb,
     OsCrash, PowerLoss,
     wdt, vars
<1>2. crashed' = crashed \/ crashed' = FALSE \/ crashed' = TRUE
  BY Zenon DEF Next, Boot, Command, PowerOn, CheckKeys, WatchdogSkip, WatchdogNoCrash, WatchdogShutdown, WatchdogCrash,
     SetWatchdogCounter, ResetWatchdogStatus, CrashMenu, CheckBatteryInserted,
     CheckBcbUnreadable, CheckBcbPersistent, CheckBcbOneShot, DropOneShot,
     CheckLoaderEntryOneShot, CheckBattery, StartOs, EnterFastboot, Stop, reboot_to_target,
     cmd_reboot, cmd_reboot_bootloader, cmd_reboot_fastbootd, WriteBcb, cmd_boot,
     cmd_oem_set_watchdog_counter_max, cmd_oem_crash_event_menu, OsReboot, OsWriteBcb,
     OsCrash, PowerLoss,
     RebootTo, CleanReset, reset, vars
<1> QED BY <1>1, <1>2, ZenonT(60) DEF FlagType

LEMMA WatchdogTypeStep ==
  ASSUME WatchdogType, config \in Configs, [Next]_vars
  PROVE  WatchdogType'
<1>1. CASE WatchdogCrash
  <2>1. /\ UNCHANGED <<wdt_counter, wdt_counter_max, now>>
        /\ wdt_time_ref' \in {now, wdt_time_ref}
        /\ counter' = counter \/ counter' = (WatchdogPeriod + 1) % ByteSize
    BY <1>1, Zenon DEF WatchdogCrash, reset
  <2>2. WatchdogPeriod \in Nat
    BY ReasonsAssumption DEF WatchdogPeriod, WatchdogType
  <2>3. (WatchdogPeriod + 1) % ByteSize \in 0 .. ByteSize - 1
    BY <2>2, ReasonsAssumption
  <2> QED BY <2>1, <2>3, Zenon DEF WatchdogType
<1>2. CASE ~WatchdogCrash
  <2>1. /\ wdt_counter' \in {wdt_counter, counter, 0} /\ counter' \in {counter, 0}
        /\ wdt_time_ref' \in {wdt_time_ref, None}
    BY <1>2, ZenonT(60) DEF Next, Boot, Command, PowerOn, CheckKeys, WatchdogSkip, WatchdogNoCrash, WatchdogShutdown, WatchdogCrash,
     SetWatchdogCounter, ResetWatchdogStatus, CrashMenu, CheckBatteryInserted,
     CheckBcbUnreadable, CheckBcbPersistent, CheckBcbOneShot, DropOneShot,
     CheckLoaderEntryOneShot, CheckBattery, StartOs, EnterFastboot, Stop, reboot_to_target,
     cmd_reboot, cmd_reboot_bootloader, cmd_reboot_fastbootd, WriteBcb, cmd_boot,
     cmd_oem_set_watchdog_counter_max, cmd_oem_crash_event_menu, OsReboot, OsWriteBcb,
     OsCrash, PowerLoss,
       wdt, choice, vars
  <2>2. wdt_counter_max' = wdt_counter_max \/ wdt_counter_max' \in CounterMaxes
    BY <1>2, ZenonT(60) DEF Next, Boot, Command, PowerOn, CheckKeys, WatchdogSkip, WatchdogNoCrash, WatchdogShutdown, WatchdogCrash,
     SetWatchdogCounter, ResetWatchdogStatus, CrashMenu, CheckBatteryInserted,
     CheckBcbUnreadable, CheckBcbPersistent, CheckBcbOneShot, DropOneShot,
     CheckLoaderEntryOneShot, CheckBattery, StartOs, EnterFastboot, Stop, reboot_to_target,
     cmd_reboot, cmd_reboot_bootloader, cmd_reboot_fastbootd, WriteBcb, cmd_boot,
     cmd_oem_set_watchdog_counter_max, cmd_oem_crash_event_menu, OsReboot, OsWriteBcb,
     OsCrash, PowerLoss,
       wdt, vars
  <2>3. now' = now \/ now' \in now .. MaxTime
    BY <1>2, Zenon DEF Next, Boot, Command, PowerOn, CheckKeys, WatchdogSkip, WatchdogNoCrash, WatchdogShutdown, WatchdogCrash,
     SetWatchdogCounter, ResetWatchdogStatus, CrashMenu, CheckBatteryInserted,
     CheckBcbUnreadable, CheckBcbPersistent, CheckBcbOneShot, DropOneShot,
     CheckLoaderEntryOneShot, CheckBattery, StartOs, EnterFastboot, Stop, reboot_to_target,
     cmd_reboot, cmd_reboot_bootloader, cmd_reboot_fastbootd, WriteBcb, cmd_boot,
     cmd_oem_set_watchdog_counter_max, cmd_oem_crash_event_menu, OsReboot, OsWriteBcb,
     OsCrash, PowerLoss,
       reset, vars
  <2>4. CounterMaxes \subseteq 0 .. ByteSize - 1 /\ MaxTime \in Nat /\ 0 \in 0 .. ByteSize - 1
    BY ReasonsAssumption DEF CounterMaxes, MaxTime
  <2>5. wdt_counter' \in 0 .. ByteSize - 1 /\ counter' \in 0 .. ByteSize - 1
    BY <2>1, <2>4, Zenon DEF WatchdogType
  <2>6. wdt_counter_max' \in 0 .. ByteSize - 1
    BY <2>2, <2>4, Zenon DEF WatchdogType
  <2>7. now' \in Nat
    BY <2>3, <2>4 DEF WatchdogType
  <2>8. wdt_time_ref' \in Nat \union {None}
    BY <2>1, Zenon DEF WatchdogType
  <2> QED BY <2>5, <2>6, <2>7, <2>8, Zenon DEF WatchdogType
<1> QED BY <1>1, <1>2, Zenon

\* The target a stored request stands for can be booted.
LEMMA ResolvedType ==
  /\ \A t \in AllTargets : Resolved(t) \in AllTargets \ {"unknown"}
  /\ \A t \in AllTargets \union {"none"} :
       Resolved(t) \notin {"none", "boot"} => Resolved(t) \in AllTargets \ {"unknown"}
BY Zenon DEF Resolved, AllTargets

LEMMA PlaceStep ==
  ASSUME PlaceType, RequestType, [Next]_vars
  PROVE  PlaceType'
<1>1. /\ reboot_reason' \in {reboot_reason, "none", "shutdown"} \union CrashReasons
      /\ reset_source' \in {reset_source, "other", "watchdog"}
  BY ZenonT(60) DEF Next, Boot, Command, PowerOn, CheckKeys, WatchdogSkip, WatchdogNoCrash, WatchdogShutdown, WatchdogCrash,
     SetWatchdogCounter, ResetWatchdogStatus, CrashMenu, CheckBatteryInserted,
     CheckBcbUnreadable, CheckBcbPersistent, CheckBcbOneShot, DropOneShot,
     CheckLoaderEntryOneShot, CheckBattery, StartOs, EnterFastboot, Stop, reboot_to_target,
     cmd_reboot, cmd_reboot_bootloader, cmd_reboot_fastbootd, WriteBcb, cmd_boot,
     cmd_oem_set_watchdog_counter_max, cmd_oem_crash_event_menu, OsReboot, OsWriteBcb,
     OsCrash, PowerLoss,
     RebootTo, CleanReset, reset, vars
<1>2. pc' \in PCs /\ (pc' = "reboot_target" => pc = "reboot_target" \/ pc = "fastboot")
  BY ZenonT(60) DEF Next, Boot, Command, PowerOn, CheckKeys, WatchdogSkip, WatchdogNoCrash, WatchdogShutdown, WatchdogCrash,
     SetWatchdogCounter, ResetWatchdogStatus, CrashMenu, CheckBatteryInserted,
     CheckBcbUnreadable, CheckBcbPersistent, CheckBcbOneShot, DropOneShot,
     CheckLoaderEntryOneShot, CheckBattery, StartOs, EnterFastboot, Stop, reboot_to_target,
     cmd_reboot, cmd_reboot_bootloader, cmd_reboot_fastbootd, WriteBcb, cmd_boot,
     cmd_oem_set_watchdog_counter_max, cmd_oem_crash_event_menu, OsReboot, OsWriteBcb,
     OsCrash, PowerLoss,
     RebootTo, CleanReset, PCs, PlaceType, vars
<1>3. CASE CheckKeys
  <2>1. PICK c \in {"boot", "fastboot"}, f \in {"boot", "fastboot"}, k \in {"boot", "fastboot"} :
          target' = CHOOSE t \in {c, f, k} : {c, f, k} # {"boot"} => t # "boot"
    BY <1>3, Zenon DEF CheckKeys, check_command_line, check_fastboot_sentinel, check_magic_key
  <2>2. target' \in {c, f, k}
    <3>1. \E t \in {c, f, k} : {c, f, k} # {"boot"} => t # "boot"
      BY Zenon
    <3> QED BY <2>1, <3>1, Zenon
  <2>3. pc' # "reboot_target"
    BY <1>3, Zenon DEF CheckKeys
  <2> QED BY <1>1, <1>2, <2>2, <2>3, Zenon DEF PlaceType, AllTargets
<1>4. CASE CheckBcbPersistent \/ CheckBcbOneShot \/ CheckLoaderEntryOneShot
  <2>1. bcb.target \in AllTargets /\ oneshot.target \in AllTargets \union {"none"}
    BY Zenon DEF RequestType
  <2>2. /\ pc' # "reboot_target"
        /\ \/ target' \in {target, "recovery", "charger", "power_off", Resolved(bcb.target)}
           \/ target' = Resolved(oneshot.target) /\ Resolved(oneshot.target) \notin {"none", "boot"}
    BY <1>4, Zenon DEF CheckBcbPersistent, CheckBcbOneShot, CheckLoaderEntryOneShot
  <2>3. target' \in (AllTargets \ {"unknown"}) \union {"power_off"}
    BY <2>1, <2>2, ResolvedType, Zenon DEF PlaceType, AllTargets
  <2> QED BY <1>1, <1>2, <2>2, <2>3, Zenon DEF PlaceType
<1>5. CASE cmd_reboot_bootloader \/ cmd_reboot_fastbootd
  BY <1>1, <1>2, <1>5, Zenon DEF cmd_reboot_bootloader, cmd_reboot_fastbootd, WriteBcb, PlaceType, AllTargets
<1>6. CASE ~\/ CheckKeys \/ CheckBcbPersistent \/ CheckBcbOneShot \/ CheckLoaderEntryOneShot
            \/ cmd_reboot_bootloader \/ cmd_reboot_fastbootd
  <2>1. /\ pc' = "reboot_target" => pc = "reboot_target" /\ target' = target
        /\ target' \in {target, "boot", "fastboot", "recovery", "charger", "power_off"}
    BY <1>6, Zenon DEF Next, Boot, Command, PowerOn, WatchdogSkip, WatchdogNoCrash, WatchdogShutdown, WatchdogCrash,
     SetWatchdogCounter, ResetWatchdogStatus, CrashMenu, CheckBatteryInserted,
     CheckBcbUnreadable, DropOneShot,
     CheckBattery, StartOs, EnterFastboot, Stop, reboot_to_target,
     cmd_reboot, cmd_boot,
     cmd_oem_set_watchdog_counter_max, cmd_oem_crash_event_menu, OsReboot, OsWriteBcb,
     OsCrash, PowerLoss,
       RebootTo, CleanReset, choice, vars
  <2> QED BY <1>1, <1>2, <2>1, Zenon DEF PlaceType, AllTargets
<1> QED BY <1>3, <1>4, <1>5, <1>6, Zenon

LEMMA RequestStep ==
  ASSUME RequestType, PlaceType, OneShotInv, OneShotInv', [Next]_vars
  PROVE  RequestType'
<1>1. UNCHANGED config
  BY Zenon DEF Next, Boot, Command, PowerOn, CheckKeys, WatchdogSkip, WatchdogNoCrash, WatchdogShutdown, WatchdogCrash,
     SetWatchdogCounter, ResetWatchdogStatus, CrashMenu, CheckBatteryInserted,
     CheckBcbUnreadable, CheckBcbPersistent, CheckBcbOneShot, DropOneShot,
     CheckLoaderEntryOneShot, CheckBattery, StartOs, EnterFastboot, Stop, reboot_to_target,
     cmd_reboot, cmd_reboot_bootloader, cmd_reboot_fastbootd, WriteBcb, cmd_boot,
     cmd_oem_set_watchdog_counter_max, cmd_oem_crash_event_menu, OsReboot, OsWriteBcb,
     OsCrash, PowerLoss, vars
<1>2. Ids' = Ids /\ 0 \in Ids /\ requests' \in Ids /\ requests \in Ids
  BY <1>1, ConfigType DEF OneShotInv, OneShotType, Ids, MaxRequests
<1>3. bcb' \in [kind : {"none", "boot", "bootonce"}, target : AllTargets, id : Ids]
  <2>1. \/ bcb' = bcb \/ bcb' = NoBcb
        \/ \E k \in {"boot", "bootonce"}, t \in Targets \union {"fastboot"} :
             bcb' = [kind |-> k, target |-> t, id |-> requests']
    BY Zenon DEF Next, Boot, Command, PowerOn, CheckKeys, WatchdogSkip, WatchdogNoCrash, WatchdogShutdown, WatchdogCrash,
     SetWatchdogCounter, ResetWatchdogStatus, CrashMenu, CheckBatteryInserted,
     CheckBcbUnreadable, CheckBcbPersistent, CheckBcbOneShot, DropOneShot,
     CheckLoaderEntryOneShot, CheckBattery, StartOs, EnterFastboot, Stop, reboot_to_target,
     cmd_reboot, cmd_reboot_bootloader, cmd_reboot_fastbootd, WriteBcb, cmd_boot,
     cmd_oem_set_watchdog_counter_max, cmd_oem_crash_event_menu, OsReboot, OsWriteBcb,
     OsCrash, PowerLoss,
       requested, vars
  <2>2. Targets \subseteq AllTargets
    BY ReasonsAssumption, Zenon DEF OneShotInv, OneShotType, Targets
  <2> QED BY <1>2, <2>1, <2>2, SMTT(30) DEF RequestType, NoBcb, AllTargets
<1>4. oneshot' \in [target : AllTargets \union {"none"}, id : Ids]
  <2>1. \/ oneshot' = oneshot \/ oneshot' = NoOneShot
        \/ \E t \in Targets \union {"boot", "recovery", "fastboot"} :
             oneshot' = [target |-> t, id |-> requests']
    BY Zenon DEF Next, Boot, Command, PowerOn, CheckKeys, WatchdogSkip, WatchdogNoCrash, WatchdogShutdown, WatchdogCrash,
     SetWatchdogCounter, ResetWatchdogStatus, CrashMenu, CheckBatteryInserted,
     CheckBcbUnreadable, CheckBcbPersistent, CheckBcbOneShot, DropOneShot,
     CheckLoaderEntryOneShot, CheckBattery, StartOs, EnterFastboot, Stop, reboot_to_target,
     cmd_reboot, cmd_reboot_bootloader, cmd_reboot_fastbootd, WriteBcb, cmd_boot,
     cmd_oem_set_watchdog_counter_max, cmd_oem_crash_event_menu, OsReboot, OsWriteBcb,
     OsCrash, PowerLoss,
       RebootTo, PlaceType, requested, history, vars
  <2>2. Targets \subseteq AllTargets
    BY ReasonsAssumption, Zenon DEF OneShotInv, OneShotType, Targets
  <2> QED BY <1>2, <2>1, <2>2, SMTT(30) DEF RequestType, NoOneShot, AllTargets
<1>5. chosen' \in [channel : Channels \union {"none"}, id : Ids]
  <2>1. \/ chosen' = chosen \/ chosen' = NotRequested
        \/ \E c \in Channels, i \in {bcb.id, oneshot.id, chosen.id} :
             chosen' = [channel |-> c, id |-> i]
    BY Zenon DEF Next, Boot, Command, PowerOn, CheckKeys, WatchdogSkip, WatchdogNoCrash, WatchdogShutdown, WatchdogCrash,
     SetWatchdogCounter, ResetWatchdogStatus, CrashMenu, CheckBatteryInserted,
     CheckBcbUnreadable, CheckBcbPersistent, CheckBcbOneShot, DropOneShot,
     CheckLoaderEntryOneShot, CheckBattery, StartOs, EnterFastboot, Stop, reboot_to_target,
     cmd_reboot, cmd_reboot_bootloader, cmd_reboot_fastbootd, WriteBcb, cmd_boot,
     cmd_oem_set_watchdog_counter_max, cmd_oem_crash_event_menu, OsReboot, OsWriteBcb,
     OsCrash, PowerLoss,
       Serve, Channels, choice, vars
  <2>2. {bcb.id, oneshot.id, chosen.id} \subseteq Ids
    BY Zenon DEF RequestType
  <2> QED BY <1>2, <2>1, <2>2, SMTT(30) DEF RequestType, NotRequested
<1> QED BY <1>2, <1>3, <1>4, <1>5, Zenon DEF RequestType

\* The variables keep their types, for every build and every bound.
THEOREM TypeCorrect == Spec => []TypeOK
<1> DEFINE Types == RequestType /\ WatchdogType /\ PlaceType /\ FlagType
<1>1. Init => Types
  <2> SUFFICES ASSUME Init PROVE Types
    BY Zenon
  <2>1. 0 \in Ids /\ CounterMaxes \subseteq 0 .. ByteSize - 1 /\ 0 \in 0 .. ByteSize - 1
    BY ReasonsAssumption DEF Init, Ids, MaxRequests, CounterMaxes
  <2>2. RequestType
    BY <2>1, Zenon DEF Init, RequestType, NoBcb, NoOneShot, NotRequested, AllTargets
  <2>3. WatchdogType
    BY <2>1, Zenon DEF Init, WatchdogType
  <2>4. PlaceType
    BY Zenon DEF Init, PlaceType, PCs, AllTargets
  <2>5. FlagType
    BY Zenon DEF Init, FlagType
  <2> QED BY <2>2, <2>3, <2>4, <2>5, Zenon
<1>2. Types /\ OneShotInv /\ OneShotInv' /\ [Next]_vars => Types'
  BY RequestStep, WatchdogTypeStep, PlaceStep, FlagStep, Zenon DEF OneShotInv, OneShotType
<1>3. Types /\ OneShotInv => TypeOK
  BY Zenon DEF RequestType, WatchdogType, PlaceType, FlagType, OneShotInv, OneShotType, ServedType, TypeOK
<1> QED BY <1>1, <1>2, <1>3, OneShotInvariant, PTL DEF Spec

-----------------------------------------------------------------------------
(* Crashes in a row *)

MaxCount == Max(CounterMaxes)

\* The counter can show that there are too many: get_watchdog_counter_max() is
\* below the largest byte, at which "counter + 1" wraps to 0.
Countable == MaxCount < ByteSize - 1

\* The history of crashes is sorted and lies in the past.
StreakType ==
  /\ streak \in Seq(Nat) /\ Len(streak) <= StreakCap
  /\ \A i \in 1 .. Len(streak) : streak[i] <= now
  /\ \A i, j \in 1 .. Len(streak) : i <= j => streak[i] <= streak[j]

\* The counter c stands for the last c crashes, which lie in one period; the
\* period begins at the first of them, and later by more than the delay than any
\* crash that more than MaxCount others separate from it.
Counted(c) ==
  LET n == Len(streak)
      first == Len(streak) - c + 1
  IN  /\ c <= n /\ c <= MaxCount
      /\ c > 0 => wdt_time_ref = streak[first] /\ streak[n] - streak[first] <= Delay
      /\ Countable =>
           /\ n > 0 => c > 0
           /\ \A i \in 1 .. n : i + MaxCount < first => streak[first] - streak[i] > Delay

\* The crashes that lead to the menu.
TooMany ==
  LET n == Len(streak)
  IN  /\ counter > wdt_counter_max /\ counter <= n
      /\ streak[n] - streak[n - counter + 1] <= Delay

\* The inductive invariant, for systems that only crash by the watchdog.
CrashInv ==
  /\ StreakType
  /\ wdt_counter_max \in CounterMaxes
  /\ reset_source = "watchdog" => crashed
  /\ reboot_reason \notin CrashReasons
  /\ pc \in {"keys", "watchdog"} => counter = 0
  /\ pc = "count" => Counted(counter)
  /\ pc \in {"clear_time", "menu"} => wdt_counter = 0
  /\ pc \in {"clear_counter", "clear_time"} => (counter = 0 /\ streak = <<>>) \/ TooMany
  /\ pc = "menu" => TooMany
  /\ pc \notin {"count", "clear_counter", "clear_time", "menu"} => Counted(wdt_counter)

\* Every non-empty set of naturals has a least element; a bounded one has a
\* greatest, which is what Max chooses.
Below == {p \in Nat \X Nat : p[1] < p[2]}

LEMMA LeastNatural ==
  ASSUME NEW S, S \subseteq Nat, S # {}
  PROVE  \E x \in S : \A y \in S : x <= y
<1>1. IsWellFoundedOn(Below, Nat)
  BY NatLessThanWellFounded, Zenon DEF OpToRel, Below
<1>2. PICK x \in S : \A y \in S : ~(<<y, x>> \in Below)
  BY <1>1, WFMin, Zenon
<1>3. ASSUME NEW y \in S PROVE x <= y
  <2>1. x \in Nat /\ y \in Nat
    BY Zenon
  <2>2. y < x => <<y, x>> \in Below
    BY <2>1, Zenon DEF Below
  <2> QED BY <1>2, <2>1, <2>2
<1> QED BY <1>3, Zenon

LEMMA GreatestNatural ==
  ASSUME NEW n \in Nat, NEW S, S \subseteq 0 .. n, S # {}
  PROVE  Max(S) \in S /\ \A y \in S : Max(S) >= y
<1> DEFINE T == {k \in Nat : n - k \in S}
<1>1. T \subseteq Nat /\ T # {}
  <2>1. PICK x \in S : TRUE
    BY Zenon
  <2>2. n - x \in Nat /\ n - (n - x) = x
    OBVIOUS
  <2> QED BY <2>2, Zenon
<1>2. PICK k \in T : \A j \in T : k <= j
  BY <1>1, LeastNatural, Zenon
<1>3. ASSUME NEW y \in S PROVE n - k >= y
  <2>1. n - y \in Nat /\ n - (n - y) = y
    OBVIOUS
  <2>2. k <= n - y
    BY <1>2, <2>1, Zenon
  <2> QED BY <2>2
<1>4. n - k \in S
  BY Zenon
<1> QED BY <1>3, <1>4, Zenon DEF Max

\* The largest number of crashes a build lets pass.
LEMMA MaxCountIs ==
  ASSUME config \in Configs
  PROVE  /\ MaxCount \in Nat /\ MaxCount <= ByteSize - 1
         /\ \A m \in CounterMaxes : m \in Nat /\ m <= MaxCount
         /\ StreakCap = 2 * MaxCount + 1
         /\ Delay \in Nat /\ MaxTime \in Nat
<1>1. /\ ByteSize - 1 \in Nat /\ CounterMaxes \subseteq 0 .. ByteSize - 1
      /\ CounterMaxes # {} /\ Delay \in Nat /\ MaxTime \in Nat
  BY ReasonsAssumption DEF CounterMaxes, Delay, MaxTime
<1>2. MaxCount \in CounterMaxes /\ \A m \in CounterMaxes : MaxCount >= m
  BY <1>1, GreatestNatural, Zenon DEF MaxCount
<1>3. StreakCap = 2 * MaxCount + 1
  BY Zenon DEF StreakCap, MaxCount
<1>4. MaxCount \in 0 .. ByteSize - 1
  BY <1>1, <1>2, Zenon
<1> QED BY <1>1, <1>2, <1>3, <1>4

\* Latest drops the first entry when there is one too many.
LEMMA LatestIs ==
  ASSUME config \in Configs, NEW s \in Seq(Nat), Len(s) <= StreakCap + 1
  PROVE  Latest(s) = IF Len(s) > StreakCap THEN Tail(s) ELSE s
<1>1. StreakCap \in Nat /\ StreakCap >= 1 /\ Len(s) \in Nat
  BY MaxCountIs
<1>2. CASE Len(s) > StreakCap
  <2>1. {1, Len(s) - StreakCap + 1} = {1, 2}
    BY <1>1, <1>2
  <2>2. Max({1, 2}) = 2
    BY DEF Max
  <2>3. Latest(s) = SubSeq(s, 2, Len(s))
    BY <2>1, <2>2, Zenon DEF Latest
  <2>4. s # <<>>
    BY <1>1, <1>2
  <2> QED BY <1>2, <2>3, <2>4, TailIsSubSeq, Zenon
<1>3. CASE Len(s) <= StreakCap
  <2>1. Len(s) - StreakCap + 1 <= 1
    BY <1>1, <1>3
  <2>2. Max({1, Len(s) - StreakCap + 1}) = 1
    BY <1>1, <2>1 DEF Max
  <2>3. Latest(s) = SubSeq(s, 1, Len(s))
    BY <2>2, Zenon DEF Latest
  <2> QED BY <1>1, <1>3, <2>3
<1> QED BY <1>1, <1>2, <1>3

\* The history after one more crash at t, of which d entries fell out.
LEMMA Recorded ==
  ASSUME config \in Configs, StreakType, now \in Nat
  PROVE  LET new == Latest(Append(streak, now))
             d == IF Len(streak) = StreakCap THEN 1 ELSE 0
         IN  /\ new \in Seq(Nat) /\ Len(new) = Len(streak) + 1 - d
             /\ new[Len(new)] = now
             /\ \A i \in 1 .. Len(new) - 1 : new[i] = streak[i + d]
<1> DEFINE long == Append(streak, now)
<1>1. /\ streak \in Seq(Nat) /\ Len(streak) \in Nat /\ Len(streak) <= StreakCap
      /\ StreakCap \in Nat /\ StreakCap >= 1
  BY MaxCountIs DEF StreakType
<1>2. /\ long \in Seq(Nat) /\ Len(long) = Len(streak) + 1 /\ long[Len(streak) + 1] = now
      /\ \A i \in 1 .. Len(streak) : long[i] = streak[i]
  BY <1>1
<1> HIDE DEF long
<1>3. Latest(long) = IF Len(long) > StreakCap THEN Tail(long) ELSE long
  <2>1. Len(long) <= StreakCap + 1
    BY <1>1, <1>2
  <2> QED BY <1>2, <2>1, LatestIs, Zenon
<1>4. CASE Len(streak) = StreakCap
  <2>1. long # <<>>
    BY <1>1, <1>2
  <2>2. /\ Tail(long) \in Seq(Nat) /\ Len(Tail(long)) = Len(long) - 1
        /\ \A i \in 1 .. Len(Tail(long)) : Tail(long)[i] = long[i + 1]
    BY <1>2, <2>1, HeadTailProperties, Zenon
  <2>3. Latest(long) = Tail(long)
    BY <1>1, <1>2, <1>3, <1>4
  <2> QED BY <1>1, <1>2, <1>4, <2>2, <2>3 DEF long
<1>5. CASE Len(streak) # StreakCap
  <2>1. Latest(long) = long
    BY <1>1, <1>2, <1>3, <1>5
  <2> QED BY <1>1, <1>2, <1>5, <2>1 DEF long
<1> QED BY <1>4, <1>5, Zenon

\* check_watchdog counts a crash: the history and the counter keep in step.
LEMMA CrashCounted ==
  ASSUME config \in Configs, WatchdogType, StreakType, Counted(wdt_counter),
         wdt_counter_max \in CounterMaxes,
         UNCHANGED <<config, now, wdt_counter_max>>,
         streak' = Latest(Append(streak, now)),
         wdt_time_ref' = IF WatchdogPeriod = 0 THEN now ELSE wdt_time_ref,
         counter' = (WatchdogPeriod + 1) % ByteSize
  PROVE  /\ StreakType'
         /\ counter' <= wdt_counter_max' => Counted(counter)'
         /\ counter' > wdt_counter_max' => TooMany'
<1> DEFINE n == Len(streak)
           m == Len(streak')
           d == IF Len(streak) = StreakCap THEN 1 ELSE 0
           c == wdt_counter
           p == WatchdogPeriod
           M == MaxCount
           first == n - c + 1
<1>1. /\ M \in Nat /\ M <= ByteSize - 1 /\ StreakCap = 2 * M + 1 /\ Delay \in Nat
      /\ wdt_counter_max \in Nat /\ wdt_counter_max <= M
      /\ ByteSize \in Nat \ {0, 1}
  BY MaxCountIs, ReasonsAssumption, Zenon
<1>2. /\ MaxCount' = MaxCount /\ StreakCap' = StreakCap /\ Delay' = Delay
      /\ (Countable' <=> Countable)
  BY Zenon DEF MaxCount, StreakCap, Delay, Countable, CounterMaxes
<1>3. /\ streak \in Seq(Nat) /\ n \in Nat /\ n <= StreakCap
      /\ \A i \in 1 .. n : streak[i] \in Nat /\ streak[i] <= now
      /\ \A i, j \in 1 .. n : i <= j => streak[i] <= streak[j]
  BY DEF StreakType
<1>4. d \in {0, 1} /\ (d = 1 => n = StreakCap) /\ (d = 0 => n < StreakCap)
  BY <1>1, <1>3
<1>5. /\ streak' \in Seq(Nat) /\ m = n + 1 - d /\ streak'[m] = now
      /\ \A i \in 1 .. m - 1 : streak'[i] = streak[i + d]
  BY Recorded, Zenon DEF WatchdogType
<1>6. c \in Nat /\ c <= n /\ c <= M /\ now \in Nat
  BY DEF Counted, WatchdogType
<1>7. c > 0 => wdt_time_ref = streak[first] /\ streak[n] - streak[first] <= Delay
  BY Zenon DEF Counted
<1>8. Countable => /\ n > 0 => c > 0
                   /\ \A i \in 1 .. n : i + M < first => streak[first] - streak[i] > Delay
  BY Zenon DEF Counted
<1>9. \/ p = c /\ c > 0 /\ now - wdt_time_ref <= Delay
      \/ p = 0 /\ (c = 0 \/ now - wdt_time_ref > Delay)
  <2>1. c > 0 => first \in 1 .. n /\ streak[first] \in Nat /\ streak[first] <= now
    BY <1>3, <1>6
  <2> QED BY <1>1, <1>6, <1>7, <2>1 DEF WatchdogPeriod
<1> HIDE DEF n, m, d, c, p, M, first
<1>f. m \in Nat /\ m >= 1 /\ \A i \in 1 .. m - 1 : i + d \in 1 .. n
  BY <1>1, <1>3, <1>4, <1>5
<1>10. StreakType'
  <2>1. m \in Nat /\ m <= StreakCap
    BY <1>1, <1>3, <1>4, <1>5 DEF m
  <2>2. ASSUME NEW i \in 1 .. m PROVE streak'[i] <= now
    <3>1. CASE i = m
      BY <1>5, <1>6, <3>1
    <3>2. CASE i # m
      <4>1. i \in 1 .. m - 1
        BY <2>1, <3>2
      <4> QED BY <1>3, <1>5, <1>f, <4>1, Zenon
    <3> QED BY <3>1, <3>2, Zenon
  <2>3. ASSUME NEW i \in 1 .. m, NEW j \in 1 .. m, i <= j PROVE streak'[i] <= streak'[j]
    <3>1. CASE j = m
      BY <1>5, <2>2, <3>1, Zenon
    <3>2. CASE j # m
      <4>1. i \in 1 .. m - 1 /\ j \in 1 .. m - 1 /\ i + d <= j + d
        BY <1>4, <2>1, <2>3, <3>2
      <4> QED BY <1>3, <1>5, <1>f, <4>1, Zenon
    <3> QED BY <3>1, <3>2, Zenon
  <2> QED BY <1>2, <1>5, <2>1, <2>2, <2>3, Zenon DEF StreakType, m
<1>11. counter' = IF p + 1 = ByteSize THEN 0 ELSE p + 1
  <2>1. p \in Nat /\ p + 1 <= ByteSize
    BY <1>1, <1>6, <1>9
  <2>2. p + 1 < ByteSize => (p + 1) % ByteSize = p + 1
    BY <1>1, <2>1
  <2>3. ByteSize % ByteSize = 0
    BY <1>1
  <2> QED BY <1>1, <2>1, <2>2, <2>3 DEF p
<1> DEFINE f == m - (p + 1) + 1
\* The period's first crash, in the new history.
<1>12. /\ p + 1 <= m /\ f \in 1 .. m /\ p \in Nat /\ p <= M
       /\ wdt_time_ref' = streak'[f] /\ now - streak'[f] <= Delay
  <2>1. CASE p = 0
    <3>1. f = m /\ m >= 1 /\ m \in Nat
      BY <1>1, <1>3, <1>4, <1>5, <2>1
    <3> QED BY <1>1, <1>5, <1>6, <2>1, <3>1 DEF p
  <2>2. CASE p # 0
    <3>1. p = c /\ c > 0 /\ now - wdt_time_ref <= Delay /\ wdt_time_ref' = wdt_time_ref
      BY <1>9, <2>2, Zenon DEF p
    <3>2. f = first - d /\ f >= 1 /\ f <= m - 1 /\ f \in Int /\ m \in Nat
      BY <1>1, <1>3, <1>4, <1>5, <1>6, <3>1, SMTT(30) DEF first
    <3>3. f \in 1 .. m - 1 /\ f + d = first
      BY <1>3, <1>4, <1>6, <1>f, <3>2, SMTT(30) DEF first
    <3>4. streak'[f] = streak[first]
      BY <1>5, <3>3, Zenon
    <3>5. p + 1 <= m /\ f \in 1 .. m /\ p \in Nat /\ p <= M
      BY <1>1, <1>3, <1>4, <1>5, <1>6, <1>f, <3>1, <3>3, SMTT(30) DEF first
    <3> HIDE DEF f
    <3> QED BY <1>7, <3>1, <3>4, <3>5, Zenon
  <2> QED BY <2>1, <2>2, Zenon
<1>13. ASSUME Countable PROVE \A i \in 1 .. m : i + M < f => streak'[f] - streak'[i] > Delay
  <2> SUFFICES ASSUME NEW i \in 1 .. m, i + M < f PROVE streak'[f] - streak'[i] > Delay
    BY Zenon
  <2>1. i <= m - 1 /\ streak'[i] = streak[i + d] /\ i + d \in 1 .. n
    <3>1. i \in 1 .. m - 1
      BY <1>1, <1>f, <1>12, SMTT(30)
    <3> QED BY <1>5, <1>f, <3>1, SMTT(30)
  <2>2. CASE p = 0
    <3>1. f = m
      BY <1>f, <2>2
    <3>a. streak'[f] = now /\ n > 0
      BY <1>3, <1>5, <2>1, <3>1, SMTT(30)
    <3>2. c > 0 /\ now - wdt_time_ref > Delay
      BY <1>6, <1>8, <1>9, <1>13, <2>2, <3>a
    <3>3. first \in 1 .. n /\ i + d <= first
      BY <1>1, <1>3, <1>4, <1>5, <1>6, <1>12, <2>1, <2>2, <3>2, SMTT(30) DEF first
    <3>4. streak[i + d] <= streak[first] /\ streak[first] \in Nat /\ streak[i + d] \in Nat
      BY <1>3, <2>1, <3>3, Zenon
    <3> HIDE DEF f
    <3> QED BY <1>1, <1>6, <1>7, <2>1, <3>a, <3>2, <3>4, SMTT(30)
  <2>3. CASE p # 0
    <3>1. p = c /\ c > 0
      BY <1>9, <2>3, Zenon
    <3>2. f = first - d /\ f <= m - 1 /\ first \in 1 .. n
      BY <1>1, <1>3, <1>4, <1>5, <1>6, <3>1, SMTT(30) DEF first
    <3>3. streak'[f] = streak[first]
      BY <1>4, <1>5, <1>12, <3>2, SMTT(30)
    <3>4. i + d + M < first
      BY <1>1, <1>4, <3>2
    <3> QED BY <1>8, <1>13, <2>1, <3>3, <3>4, Zenon
  <2> QED BY <2>2, <2>3, Zenon
<1>14. ASSUME counter' <= wdt_counter_max PROVE Counted(counter)'
  <2>1. CASE p + 1 = ByteSize
    <3>1. ~Countable /\ counter' = 0
      BY <1>1, <1>11, <1>12, <2>1 DEF Countable, M
    <3> QED BY <1>1, <1>2, <1>12, <3>1, SMTT(30) DEF Counted, m, M
  <2>2. CASE p + 1 # ByteSize
    <3>1. counter' = p + 1 /\ p + 1 <= M
      BY <1>1, <1>11, <1>12, <1>14, <2>2
    <3>2. m - counter' + 1 = f
      BY <3>1, Zenon
    <3> QED BY <1>2, <1>5, <1>12, <1>13, <3>1, <3>2 DEF Counted, m, M
  <2> QED BY <2>1, <2>2, Zenon
<1>15. ASSUME counter' > wdt_counter_max PROVE TooMany'
  <2>1. counter' = p + 1
    BY <1>1, <1>11, <1>15
  <2> QED BY <1>2, <1>5, <1>12, <1>15, <2>1, Zenon DEF TooMany, m
<1> QED BY <1>10, <1>14, <1>15, Zenon

Counting == {"count", "clear_counter", "clear_time", "menu"}

\* Steps outside check_watchdog's counting.
LEMMA CrashQuiet ==
  ASSUME CrashInv, UNCHANGED <<config, streak, wdt_counter, wdt_time_ref>>,
         now \in Nat, now' \in Nat, now <= now',
         wdt_counter_max' \in CounterMaxes,
         pc \notin Counting, pc' \notin Counting,
         reset_source' = "watchdog" => crashed', reboot_reason' \notin CrashReasons,
         pc' \in {"keys", "watchdog"} => counter' = 0
  PROVE  CrashInv'
<1>1. /\ MaxCount' = MaxCount /\ StreakCap' = StreakCap /\ Delay' = Delay
      /\ CounterMaxes' = CounterMaxes /\ (Countable' <=> Countable)
  BY Zenon DEF MaxCount, StreakCap, Delay, Countable, CounterMaxes
<1>2. StreakType'
  <2>1. \A i \in 1 .. Len(streak) : streak[i] \in Nat
    BY DEF CrashInv, StreakType
  <2> QED BY <1>1, <2>1 DEF CrashInv, StreakType
<1>3. Counted(wdt_counter)'
  BY <1>1, Zenon DEF CrashInv, Counted, Counting
<1> QED BY <1>1, <1>2, <1>3, Zenon DEF CrashInv, Counting

\* The history is dropped together with the counter.
LEMMA CrashDropped ==
  ASSUME CrashInv, config \in Configs, UNCHANGED <<config, wdt_counter_max>>,
         streak' = <<>>, wdt_counter' = 0, pc' \notin Counting,
         pc' \notin {"keys", "watchdog"}, UNCHANGED <<reset_source, crashed, reboot_reason>>
  PROVE  CrashInv'
<1>1. /\ MaxCount' = MaxCount /\ StreakCap' = StreakCap /\ CounterMaxes' = CounterMaxes
      /\ MaxCount \in Nat /\ StreakCap \in Nat
  BY MaxCountIs DEF MaxCount, StreakCap, CounterMaxes
<1>2. StreakType'
  BY <1>1 DEF StreakType
<1>3. Counted(wdt_counter)'
  BY <1>1 DEF Counted
<1> QED BY <1>1, <1>2, <1>3, Zenon DEF CrashInv, Counting

LEMMA CrashStep ==
  ASSUME CrashInv, WatchdogType, WatchdogType', config \in Configs, config' = config,
         Crashes = {"reset_source"}, ~Fault("io"), ~Fault("power"), [Next]_vars
  PROVE  CrashInv'
<1>c. wdt_counter_max \in CounterMaxes /\ now \in Nat /\ now' \in Nat
  BY Zenon DEF CrashInv, WatchdogType
<1>f. /\ MaxCount' = MaxCount /\ StreakCap' = StreakCap /\ Delay' = Delay
      /\ CounterMaxes' = CounterMaxes /\ (Countable' <=> Countable)
  BY Zenon DEF MaxCount, StreakCap, Delay, Countable, CounterMaxes
<1>1. CASE WatchdogCrash
  <2>1. Counted(wdt_counter) /\ StreakType /\ (reset_source = "watchdog" => crashed)
        /\ reboot_reason \notin CrashReasons
    BY <1>1, Zenon DEF CrashInv, WatchdogCrash
  <2>2. crashed
    BY <1>1, <2>1, Zenon DEF WatchdogCrash, reset_is_due_to_watchdog_or_panic
  <2>3. /\ UNCHANGED <<config, now, wdt_counter_max, wdt_counter, reset>>
        /\ streak' = Latest(Append(streak, now))
        /\ wdt_time_ref' = IF WatchdogPeriod = 0 THEN now ELSE wdt_time_ref
        /\ counter' = (WatchdogPeriod + 1) % ByteSize
        /\ pc' = IF counter' <= wdt_counter_max THEN "count" ELSE "clear_counter"
    BY <1>1, <2>2, Zenon DEF WatchdogCrash, reset
  <2>4. /\ StreakType'
        /\ counter' <= wdt_counter_max' => Counted(counter)'
        /\ counter' > wdt_counter_max' => TooMany'
    BY <1>c, <2>1, <2>3, CrashCounted, Zenon
  <2>5. counter' <= wdt_counter_max \/ counter' > wdt_counter_max
    BY DEF WatchdogType
  <2> QED BY <1>c, <1>f, <2>1, <2>3, <2>4, <2>5, Zenon DEF CrashInv, reset
<1>2. CASE SetWatchdogCounter
  <2>1. /\ pc = "count" /\ pc' = "inserted" /\ wdt_counter' = counter
        /\ UNCHANGED <<wdt_time_ref, wdt_counter_max, reset, choice, streak>>
    BY <1>2, Zenon DEF SetWatchdogCounter, history
  <2>2. Counted(counter)
    BY <2>1, Zenon DEF CrashInv
  <2>3. Counted(wdt_counter)'
    BY <1>f, <2>1, <2>2, Zenon DEF Counted, choice
  <2>4. StreakType'
    BY <1>f, <2>1, Zenon DEF CrashInv, StreakType, reset
  <2> QED BY <1>c, <1>f, <2>1, <2>3, <2>4, Zenon DEF CrashInv, reset
<1>3. CASE ResetWatchdogStatus
  <2>1. /\ pc \in {"clear_counter", "clear_time"} /\ wdt_counter' = 0
        /\ pc = "clear_counter" => pc' = "clear_time"
        /\ pc = "clear_time" => pc' = IF counter = 0 THEN "inserted" ELSE "menu"
        /\ UNCHANGED <<wdt_counter_max, reset, counter, streak>>
    BY <1>3, Zenon DEF ResetWatchdogStatus, history, choice, CrashInv
  <2>2. (counter = 0 /\ streak = <<>>) \/ TooMany
    BY <2>1, Zenon DEF CrashInv
  <2>3. StreakType'
    BY <1>f, <2>1, Zenon DEF CrashInv, StreakType, reset
  <2>4. TooMany => TooMany' /\ counter # 0
    BY <1>f, <2>1 DEF TooMany, WatchdogType
  <2>5. CASE pc' = "inserted"
    BY <1>f, <2>1, <2>2, <2>4, <2>5, CrashDropped, Zenon DEF reset, Counting
  <2>6. CASE pc' # "inserted"
    BY <1>c, <1>f, <2>1, <2>2, <2>3, <2>4, <2>6, Zenon DEF CrashInv, reset
  <2> QED BY <2>5, <2>6, Zenon
<1>4. CASE CrashMenu
  <2>1. /\ streak' = <<>> /\ wdt_counter' = 0 /\ pc' \in {"inserted", "run"}
        /\ UNCHANGED <<wdt_counter_max, reset_source, crashed, reboot_reason>>
    BY <1>4, Zenon DEF CrashMenu, CrashInv, wdt, reset
  <2> QED BY <2>1, CrashDropped, Zenon DEF Counting
<1>5. CASE WatchdogNoCrash
  <2>1. /\ streak' = <<>> /\ pc = "watchdog" /\ counter = 0
        /\ UNCHANGED <<wdt, reset, choice>>
        /\ pc' = IF wdt_counter = 0 THEN "inserted" ELSE "clear_counter"
    BY <1>5, Zenon DEF WatchdogNoCrash, CrashInv
  <2>2. CASE wdt_counter = 0
    BY <2>1, <2>2, CrashDropped, Zenon DEF wdt, reset, Counting
  <2>3. CASE wdt_counter # 0
    <3>1. StreakType'
      BY <1>f, <2>1, MaxCountIs DEF StreakType
    <3> QED BY <1>c, <1>f, <2>1, <2>3, <3>1, Zenon DEF CrashInv, wdt, reset, choice
  <2> QED BY <2>2, <2>3, Zenon
<1>6. CASE OsCrash
  <2>1. /\ pc = "os" /\ pc' = "off" /\ crashed' = TRUE /\ now' \in now .. MaxTime
        /\ reboot_reason' \notin CrashReasons
        /\ UNCHANGED <<config, streak, wdt_counter, wdt_time_ref, wdt_counter_max>>
    BY <1>6, Zenon DEF OsCrash, CrashReasons, CrashInv, wdt, history
  <2> QED BY <1>c, <2>1, MaxCountIs, CrashQuiet DEF Counting
<1>7. CASE PowerLoss \/ CheckBcbUnreadable
  BY <1>7, Zenon DEF PowerLoss, CheckBcbUnreadable
<1>8. CASE cmd_oem_set_watchdog_counter_max
  <2>1. /\ UNCHANGED <<config, streak, wdt_counter, wdt_time_ref, reset, pc>> /\ pc = "fastboot"
        /\ wdt_counter_max' \in CounterMaxes
    BY <1>8, Zenon DEF cmd_oem_set_watchdog_counter_max, history
  <2> QED BY <1>c, <2>1, CrashQuiet DEF Counting, reset, CrashInv
<1>9. CASE PowerOn \/ CheckKeys \/ WatchdogSkip
  <2>1. /\ UNCHANGED <<config, streak, wdt, reset>> /\ pc \notin Counting /\ pc' \notin Counting
        /\ pc' \in {"keys", "watchdog"} => counter' = 0
    BY <1>9, Zenon DEF PowerOn, CheckKeys, WatchdogSkip, Counting, CrashInv, history
  <2> QED BY <1>c, <2>1, CrashQuiet, SMTT(30) DEF wdt, reset, CrashInv
<1>10. CASE \/ WatchdogShutdown \/ CheckBatteryInserted \/ CheckBcbPersistent \/ CheckBcbOneShot
            \/ DropOneShot \/ CheckLoaderEntryOneShot \/ CheckBattery \/ StartOs
            \/ EnterFastboot \/ Stop \/ reboot_to_target \/ cmd_reboot
            \/ cmd_reboot_bootloader \/ cmd_reboot_fastbootd \/ cmd_boot
            \/ cmd_oem_crash_event_menu \/ OsReboot \/ OsWriteBcb
  <2>1. /\ UNCHANGED <<config, streak, wdt_counter, wdt_time_ref, wdt_counter_max, now>>
        /\ reset_source' \in {"other", reset_source}
        /\ (reset_source' = reset_source /\ crashed' = crashed) \/ reset_source' = "other"
        /\ reboot_reason' \in {reboot_reason, "none"}
    BY <1>10, ZenonT(60) DEF WatchdogShutdown, CheckBatteryInserted, CheckBcbPersistent, CheckBcbOneShot,
       DropOneShot, CheckLoaderEntryOneShot, CheckBattery, StartOs, EnterFastboot, Stop,
       reboot_to_target, cmd_reboot, cmd_reboot_bootloader, cmd_reboot_fastbootd, cmd_boot,
       cmd_oem_crash_event_menu, OsReboot, OsWriteBcb, WriteBcb, RebootTo, CleanReset, wdt,
       reset, history
  <2>2. pc \notin Counting /\ pc' \notin Counting /\ pc' \notin {"keys", "watchdog"}
    BY <1>10, Zenon DEF WatchdogShutdown, CheckBatteryInserted, CheckBcbPersistent, CheckBcbOneShot,
       DropOneShot, CheckLoaderEntryOneShot, CheckBattery, StartOs, EnterFastboot, Stop,
       reboot_to_target, cmd_reboot, cmd_reboot_bootloader, cmd_reboot_fastbootd, cmd_boot,
       cmd_oem_crash_event_menu, OsReboot, OsWriteBcb, WriteBcb, RebootTo, CleanReset, Counting
  <2>3. (reset_source' = "watchdog" => crashed') /\ reboot_reason' \notin CrashReasons
    BY <2>1, SMTT(30) DEF CrashInv, CrashReasons
  <2> QED BY <1>c, <2>1, <2>2, <2>3, CrashQuiet, SMTT(30)
<1>11. CASE UNCHANGED vars
  BY <1>f, <1>11, ZenonT(60) DEF vars, wdt, reset, choice, history, CrashInv, StreakType, Counted, TooMany
<1> QED BY <1>1, <1>2, <1>3, <1>4, <1>5, <1>6, <1>7, <1>8, <1>9, <1>10, <1>11, ZenonT(60)
           DEF Next, Boot, Command

\* The build does not change, and a step has at most one fault.
LEMMA StepFaults == [Next]_vars => config' = config /\ FaultStep
<1> SUFFICES ASSUME [Next]_vars PROVE config' = config /\ FaultStep
  BY Zenon
<1>1. config' = config
  BY ZenonT(60) DEF Next, Boot, Command, PowerOn, CheckKeys, WatchdogSkip, WatchdogNoCrash, WatchdogShutdown, WatchdogCrash,
     SetWatchdogCounter, ResetWatchdogStatus, CrashMenu, CheckBatteryInserted,
     CheckBcbUnreadable, CheckBcbPersistent, CheckBcbOneShot, DropOneShot,
     CheckLoaderEntryOneShot, CheckBattery, StartOs, EnterFastboot, Stop, reboot_to_target,
     cmd_reboot, cmd_reboot_bootloader, cmd_reboot_fastbootd, WriteBcb, cmd_boot,
     cmd_oem_set_watchdog_counter_max, cmd_oem_crash_event_menu, OsReboot, OsWriteBcb,
     OsCrash, PowerLoss, vars
<1>2. FaultStep
  BY Zenon DEF Next, Boot, Command, PowerOn, CheckKeys, WatchdogSkip, WatchdogNoCrash, WatchdogShutdown, WatchdogCrash,
     SetWatchdogCounter, ResetWatchdogStatus, CrashMenu, CheckBatteryInserted,
     CheckBcbUnreadable, CheckBcbPersistent, CheckBcbOneShot, DropOneShot,
     CheckLoaderEntryOneShot, CheckBattery, StartOs, EnterFastboot, Stop, reboot_to_target,
     cmd_reboot, cmd_reboot_bootloader, cmd_reboot_fastbootd, WriteBcb, cmd_boot,
     cmd_oem_set_watchdog_counter_max, cmd_oem_crash_event_menu, OsReboot, OsWriteBcb,
     OsCrash, PowerLoss, RebootTo, FaultStep, NoFault, vars
<1> QED BY <1>1, <1>2, Zenon

LEMMA NoFaultYet ==
  ASSUME OneShotType, [Next]_vars, WatchdogOnly'
  PROVE  WatchdogOnly /\ ~Fault("io") /\ ~Fault("power") /\ config' = config
<1>1. config' = config /\ FaultStep
  BY StepFaults, Zenon
<1>2. /\ faults'["io"] + faults'["power"] = 0
      /\ faults \in [{"power", "io"} -> Nat]
  BY Zenon DEF WatchdogOnly, OneShotType
<1>3. ~Fault("io") /\ ~Fault("power")
  BY <1>2 DEF Fault
<1> QED BY <1>1, <1>2, <1>3, Zenon DEF FaultStep, NoFault, WatchdogOnly, Crashes

LEMMA CrashInvariant == Spec => [](OneShotType /\ WatchdogType /\ (WatchdogOnly => CrashInv))
<1> DEFINE Known == WatchdogOnly => CrashInv
<1>1. Init => Known
  <2> SUFFICES ASSUME Init PROVE CrashInv
    BY Zenon
  <2>1. MaxCount \in Nat /\ StreakCap \in Nat
    BY MaxCountIs DEF Init
  <2>2. StreakType
    BY <2>1 DEF Init, StreakType
  <2>3. Counted(wdt_counter)
    BY <2>1 DEF Init, Counted
  <2> QED BY <2>2, <2>3, Zenon DEF Init, CrashInv, CrashReasons
<1>2. OneShotInv /\ TypeOK /\ TypeOK' /\ Known /\ [Next]_vars => Known'
  <2> SUFFICES ASSUME OneShotInv, TypeOK, TypeOK', Known, [Next]_vars, WatchdogOnly'
               PROVE  CrashInv'
    BY Zenon
  <2>1. /\ OneShotType /\ config \in Configs /\ WatchdogType /\ WatchdogType'
    BY Zenon DEF OneShotInv, OneShotType, TypeOK, WatchdogType
  <2>2. WatchdogOnly /\ ~Fault("io") /\ ~Fault("power") /\ config' = config
    BY <2>1, NoFaultYet, Zenon
  <2>3. Crashes = {"reset_source"} /\ CrashInv
    BY <2>2, Zenon DEF WatchdogOnly
  <2> QED BY <2>1, <2>2, <2>3, CrashStep, Zenon
<1>3. OneShotInv /\ TypeOK => OneShotType /\ WatchdogType
  BY Zenon DEF OneShotInv, TypeOK, WatchdogType
<1> HIDE DEF Known
<1>4. Spec => []Known
  BY <1>1, <1>2, TypeCorrect, OneShotInvariant, PTL DEF Spec
<1> QED BY <1>3, <1>4, TypeCorrect, OneShotInvariant, PTL DEF Known

\* check_watchdog shows the crash menu only after more watchdog resets in a row
\* than get_watchdog_counter_max() allows, all within WATCHDOG_DELAY: whatever
\* the delay, the limits, the times of the crashes and the changes of the limit.
THEOREM MenuIsJustified == Spec => []MenuJustified
<1>1. ASSUME OneShotType, WatchdogType, WatchdogOnly => CrashInv PROVE MenuJustified
  <2> SUFFICES ASSUME WatchdogOnly, pc = "menu"
               PROVE  /\ Len(streak) > wdt_counter_max
                      /\ streak[Len(streak)] - streak[Len(streak) - wdt_counter_max] <= Delay
    BY Zenon DEF MenuJustified
  <2> DEFINE n == Len(streak)
             k == wdt_counter_max
  <2>1. TooMany /\ StreakType
    BY <1>1, Zenon DEF CrashInv
  <2>2. /\ n \in Nat /\ counter \in Nat /\ k \in Nat /\ counter > k /\ counter <= n
        /\ streak[n] - streak[n - counter + 1] <= Delay /\ Delay \in Nat
    BY <1>1, <2>1, MaxCountIs DEF TooMany, StreakType, WatchdogType, OneShotType
  <2>3. /\ n - counter + 1 \in 1 .. n /\ n - k \in 1 .. n /\ n \in 1 .. n
        /\ n - counter + 1 <= n - k
    BY <2>2
  <2>4. /\ streak[n - counter + 1] <= streak[n - k]
        /\ streak[n - counter + 1] \in Nat /\ streak[n - k] \in Nat /\ streak[n] \in Nat
    BY <2>1, <2>3 DEF StreakType
  <2> QED BY <2>2, <2>4
<1> QED BY <1>1, CrashInvariant, PTL

\* Twice the limit plus one crashes in a row that check_watchdog lets pass take
\* longer than WATCHDOG_DELAY, as long as the limit is below the largest byte.
THEOREM CrashesAreNoticed == Spec => [](Countable => CrashLoopBounded)
<1>1. ASSUME OneShotType, WatchdogType, WatchdogOnly => CrashInv, Countable PROVE CrashLoopBounded
  <2> SUFFICES ASSUME WatchdogOnly, pc \notin {"clear_counter", "clear_time", "menu"},
                      Len(streak) = StreakCap
               PROVE  streak[StreakCap] - streak[1] > Delay
    BY Zenon DEF CrashLoopBounded
  <2> DEFINE c == IF pc = "count" THEN counter ELSE wdt_counter
             n == Len(streak)
             first == n - c + 1
  <2>1. Counted(c) /\ StreakType
    BY <1>1, Zenon DEF CrashInv
  <2>2. MaxCount \in Nat /\ n = 2 * MaxCount + 1 /\ Delay \in Nat /\ c \in Nat
    BY <1>1, MaxCountIs, SMTT(30) DEF OneShotType, WatchdogType
  <2>3. /\ c <= MaxCount /\ c <= n /\ c > 0
        /\ \A i \in 1 .. n : i + MaxCount < first => streak[first] - streak[i] > Delay
    BY <1>1, <2>1, <2>2 DEF Counted
  <2> HIDE DEF c
  <2>4. first \in 1 .. n /\ 1 \in 1 .. n /\ n \in 1 .. n /\ 1 + MaxCount < first /\ first <= n
    BY <2>2, <2>3
  <2>5. /\ streak[first] - streak[1] > Delay /\ streak[first] <= streak[n]
        /\ streak[first] \in Nat /\ streak[1] \in Nat /\ streak[n] \in Nat
    BY <2>1, <2>3, <2>4 DEF StreakType
  <2> QED BY <2>2, <2>5
<1> QED BY <1>1, CrashInvariant, PTL

=============================================================================
