---------------------------- MODULE MCFastboot ----------------------------
(* The commands of the host, for TLC: a download that fits, one that does  *)
(* not, and one command of each other shape.                               *)
EXTENDS Fastboot

Cmd(name, n) == [name |-> name, n |-> n]

MCCommands ==
  {Cmd("getvar-all", 0), Cmd("download", MaxSize), Cmd("download", MaxSize + 1),
   Cmd("flash", 0), Cmd("boot", 0), Cmd("set_active", 0), Cmd("overlong", 0)}
====
