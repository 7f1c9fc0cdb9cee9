----------------------------- MODULE AbMetadata -----------------------------
(***************************************************************************)
(* The A/B slot metadata kept at offset 2048 of the misc partition         *)
(* (avb/libavb_ab/avb_ab_flow.[ch]) as values, and the pure functions on   *)
(* them.  A slot is priority, tries_remaining and successful_boot; the     *)
(* magic, version and CRC of the enclosing structure are abstracted to the *)
(* boolean "valid" of the modules that store a copy of it.  Only slots 0   *)
(* and 1 are ever used by libavb_ab: entries 2 and 3 of slot_info stay     *)
(* zero after avb_ab_data_init.                                            *)
(***************************************************************************)
EXTENDS Integers

CONSTANTS
  MaxPriority,   \* AVB_AB_MAX_PRIORITY (15 in the source)
  MaxTries       \* AVB_AB_MAX_TRIES_REMAINING (7 in the source)

ASSUME BoundsAssumption == /\ MaxPriority \in Nat /\ MaxPriority >= 2
                           /\ MaxTries \in Nat /\ MaxTries >= 1

Slot == {0, 1}
NoSlot == -1
Other(s) == 1 - s

SlotData == [priority : 0 .. MaxPriority,
             tries_remaining : 0 .. MaxTries,
             successful_boot : BOOLEAN]
AbData == [Slot -> SlotData]

slot_is_bootable(d) ==
  d.priority > 0 /\ (d.successful_boot \/ d.tries_remaining > 0)

Unbootable ==
  [priority |-> 0, tries_remaining |-> 0, successful_boot |-> FALSE]

FreshSlot(p) ==
  [priority |-> p, tries_remaining |-> MaxTries, successful_boot |-> FALSE]

slot_set_unbootable(ab, s) == [ab EXCEPT ![s] = Unbootable]

\* (mutant of Normalized: exhausted slots are left alone)
NormalizedPriorityOnly(ab) ==
  [s \in Slot |-> IF ab[s].priority > 0 THEN ab[s] ELSE Unbootable]

\* slot_normalize on both slots: priority 0, or no try left and never
\* successful, becomes the canonical unbootable value.
Normalized(ab) ==
  [s \in Slot |-> IF slot_is_bootable(ab[s]) THEN ab[s] ELSE Unbootable]

avb_ab_data_init ==
  [s \in Slot |-> FreshSlot(IF s = 0 THEN MaxPriority ELSE MaxPriority - 1)]

\* The slot avb_ab_flow boots among those bootable in ab: highest priority,
\* slot 0 on a tie, NoSlot when there is none.
SlotIndexToBoot(ab) ==
  IF slot_is_bootable(ab[0]) /\ slot_is_bootable(ab[1])
  THEN IF ab[1].priority > ab[0].priority THEN 1 ELSE 0
  ELSE IF slot_is_bootable(ab[0]) THEN 0
  ELSE IF slot_is_bootable(ab[1]) THEN 1
  ELSE NoSlot

\* (mutant of DecrementTries: forgotten)
DecrementTriesNever(ab, s) == ab

\* "... and decrement tries remaining, if applicable."
DecrementTries(ab, s) ==
  IF ~ab[s].successful_boot /\ ab[s].tries_remaining > 0
  THEN [ab EXCEPT ![s].tries_remaining = @ - 1]
  ELSE ab

\* What the metadata operations of libavb_ab write, from the metadata they
\* read: load_metadata normalizes it first.
MarkActive(ab, s) ==
  LET n == Normalized(ab)
      o == n[Other(s)]
  IN  [t \in Slot |->
         IF t = s THEN FreshSlot(MaxPriority)
         ELSE IF o.priority = MaxPriority
              THEN [o EXCEPT !.priority = MaxPriority - 1]
              ELSE o]

MarkUnbootable(ab, s) == slot_set_unbootable(Normalized(ab), s)

MarkSuccessful(ab, s) ==
  LET n == Normalized(ab)
  IN  IF slot_is_bootable(n[s])
      THEN [n EXCEPT ![s] = [priority |-> n[s].priority,
                              tries_remaining |-> 0, successful_boot |-> TRUE]]
      ELSE n

\* slot_avb.c: highest_priority_slot.
highest_priority_slot(ab) ==
  LET cur == IF ab[1].priority > ab[0].priority THEN 1 ELSE 0
  IN  IF ab[cur].priority = 0 THEN NoSlot ELSE cur

\* kfld.c: get_active_slot, which skips exhausted slots and defaults to 0.
get_active_slot(ab) ==
  LET live(s) == ab[s].successful_boot \/ ab[s].tries_remaining > 0
      rank(s) == IF live(s) THEN ab[s].priority ELSE 0
  IN  IF rank(1) > rank(0) THEN 1 ELSE 0
=============================================================================
