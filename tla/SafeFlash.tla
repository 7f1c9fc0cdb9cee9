------------------------------ MODULE SafeFlash ------------------------------
(***************************************************************************)
(* What the "safe flash procedure" of libfastboot/bootloader.c promises    *)
(* the rest of the system: at any time exactly one complete, loadable      *)
(* bootloader is installed; it is replaced in one step, by the image being *)
(* flashed and only if that one loads; OKAY means it has been replaced;    *)
(* an interrupted command leaves the old or the new one.                   *)
(***************************************************************************)
CONSTANTS
  Images,       \* what the host may send
  Loads,        \* the images the firmware can load
  None

VARIABLES
  installed,    \* the bootloader that the next boot starts
  request,      \* the image of the command in progress
  answer        \* the answer to the last command

vars == <<installed, request, answer>>

Init == installed \in Loads /\ request = None /\ answer = None

Start ==
  /\ request = None
  /\ request' \in Images /\ answer' = None
  /\ UNCHANGED installed

Install ==
  /\ request \in Loads
  /\ installed' = request
  /\ UNCHANGED <<request, answer>>

Okay ==
  /\ request # None /\ installed = request
  /\ request' = None /\ answer' = "okay"
  /\ UNCHANGED installed

Fail ==
  /\ request' = None /\ answer' = "fail"
  /\ UNCHANGED installed

Interrupted ==
  /\ installed' \in {installed} \union ({request} \intersect Loads)
  /\ request' = None /\ answer' = None

Next == Start \/ Install \/ Okay \/ Fail \/ Interrupted

Spec == Init /\ [][Next]_vars
=============================================================================
