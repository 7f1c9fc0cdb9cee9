--------------------------- MODULE MCDeviceState ----------------------------
(* The builds model-checked: a user build, whose state may be unreadable, and  *)
(* a userdebug build for slim bootloader, which keeps its state between boots. *)
EXTENDS DeviceState

MCConfigs ==
  {[build |-> "user", use_sbl |-> FALSE, faults |-> {"power", "read", "write"}],
   [build |-> "userdebug", use_sbl |-> TRUE, faults |-> {"power", "write"}]}
=============================================================================
