-------------------------------- MODULE MCAdb --------------------------------
(* An instance of Adb for TLC: a pull of the memory, and any other job with it or *)
(* after it. *)
EXTENDS Adb

MCKinds == <<{"ram"}, {"ram", "part", "shell", "long", "quiet", "reboot", "unknown"}>>
=============================================================================
