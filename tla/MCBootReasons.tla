--------------------------- MODULE MCBootReasons ----------------------------
EXTENDS BootReasons

\* A user build with faults and requests of any kind; a userdebug build whose
\* system crashes at any times, with limits of 0 to 2 crashes.
MCConfigs ==
  {[user |-> TRUE, delay |-> 0, time |-> 0, counter_max |-> {1},
    crashes |-> {"reset_source", "reboot_reason"}, targets |-> {"charger", "fastboot", "unknown"},
    requests |-> 2, faults |-> {"power", "io"}, max_faults |-> 1],
   [user |-> FALSE, delay |-> 2, time |-> 5, counter_max |-> {0, 1, 2},
    crashes |-> {"reset_source"}, targets |-> {"fastboot"},
    requests |-> 1, faults |-> {}, max_faults |-> 0]}
=============================================================================
