------------------------------ MODULE AvbVerify ------------------------------
(***************************************************************************)
(* One verification of a slot by libavb (avb_slot_verify.c) on the         *)
(* operations of uefi_avb_ops.c, for the two callers that load an image    *)
(* outside of the A/B flow: recovery (kernelflinger.c) and the trusted OS  *)
(* (trusty_common.c), through android_vb2.c.                               *)
(*                                                                         *)
(* What is on disk is chosen when it is read: the outcome of a signature   *)
(* check, a key comparison, a digest comparison or a rollback comparison,  *)
(* the flags of a header, the next descriptor.  Reads and allocations may  *)
(* fail.  The operations offer no preloaded partitions and no persistent   *)
(* values, and every caller asks for AVB_HASHTREE_ERROR_MODE_RESTART: the  *)
(* code behind those is not reachable and left out.                        *)
(***************************************************************************)
EXTENDS Integers, Sequences, FiniteSets

CONSTANTS
  UseAcpi,         \* USE_ACPI build: "acpi" is requested with the image
  MaxImages,       \* MAX_NUMBER_OF_VBMETA_IMAGES
  MaxLoaded,       \* MAX_NUMBER_OF_LOADED_PARTITIONS
  MaxLocations,    \* AVB_MAX_NUMBER_OF_ROLLBACK_INDEX_LOCATIONS
  MaxDescriptors,  \* bound on the descriptors met in one verification
  MaxFaults        \* bound on failing reads and allocations

ASSUME BoundAssumption ==
  /\ UseAcpi \in BOOLEAN
  /\ MaxImages \in Nat \ {0} /\ MaxLoaded \in Nat \ {0}
  /\ MaxLocations \in Nat \ {0}
  /\ MaxDescriptors \in Nat /\ MaxFaults \in Nat

VARIABLES
  pc,
  caller,        \* which image is loaded: "recovery" or "tos"
  allow,         \* allow_verification_error: the device is unlocked
  boot_state,    \* colour of the boot after the image is loaded
  cur,           \* the active call of load_and_verify_vbmeta
  frame,         \* its locals, for the top-level and for a chained image
  slot_data,     \* AvbSlotVerifyData
  heap,          \* buffers allocated and not yet freed
  fresh,         \* name of the next buffer
  out_data,      \* whether slot_data was handed to the caller
  verify_result, \* result of avb_slot_verify
  bootimage,     \* the loaded partition handed on, or NoImage
  status,        \* EFI status of the caller
  descriptors, faults

vars == <<pc, caller, allow, boot_state, cur, frame, slot_data, heap, fresh,
          out_data, verify_result, bootimage, status, descriptors, faults>>

Green == 0
Yellow == 1
Orange == 2
Red == 3

Fatal == {"OOM", "IO", "INVALID_METADATA", "UNSUPPORTED_VERSION"}
Bearable == {"OK", "VERIFICATION", "ROLLBACK_INDEX", "PUBLIC_KEY_REJECTED"}
Results == Fatal \union Bearable
result_should_continue(r) == r \in Bearable

Signatures == {"OK", "OK_NOT_SIGNED", "MISMATCH",
               "INVALID_VBMETA_HEADER", "UNSUPPORTED_VERSION"}
Flags == {"none", "hashtree_disabled", "verification_disabled"}
StoredIndex == 1      \* stored rollback index, of every location
Indexes == 0 .. 1     \* rollback indexes of images

NoImage == [name |-> "none", data |-> "none", buf |-> 0]
requested_partitions == <<caller>> \o IF UseAcpi THEN <<"acpi">> ELSE <<>>
Requested == {requested_partitions[i] : i \in DOMAIN requested_partitions}

\* A call of load_and_verify_vbmeta; key: an expected key was passed.
Call(name, loc, key) ==
  [name |-> name, loc |-> loc, key |-> key, ret |-> "OK", buf |-> 0, outer |-> 0,
   adopted |-> FALSE, sig |-> "OK", trusted |-> TRUE, flags |-> "none", index |-> 0]

Calls == {"main", "chain"}
Frames == [c \in Calls |-> IF c = "main" THEN Call("vbmeta", 0, FALSE)
                                         ELSE Call("chained", 1, TRUE)]

EmptyData ==
  [vbmeta_images |-> <<>>, loaded_partitions |-> <<>>, cmdline |-> "null",
   rollback_indexes |-> [l \in 0 .. MaxLocations - 1 |-> 0]]

PCs == {"start", "footer", "read", "verify", "rollback", "adopt", "load", "descriptors", "out",
        "slot_verify", "returned", "tos", "done", "assert", "assert_name"}

Names == {"vbmeta", "boot", "chained"}
CallType ==
  [name : Names, loc : Nat, key : BOOLEAN, ret : Results, buf : Nat, outer : Nat,
   adopted : BOOLEAN, sig : Signatures, trusted : BOOLEAN, flags : Flags, index : Indexes]
ImageType ==
  [name : Names \union {"null"}, loc : Nat, sig : Signatures, trusted : BOOLEAN, flags : Flags,
   index : Indexes, buf : Nat]
PartType == [name : {"recovery", "tos", "acpi"}, buf : Nat,
             data : {"matches", "differs", "unchecked"}]
DataType ==
  [vbmeta_images : Seq(ImageType), loaded_partitions : Seq(PartType),
   cmdline : {"null", "snippets", "empty", "options"},
   rollback_indexes : [0 .. MaxLocations - 1 -> Indexes]]

\* Every variable keeps to its type.
TypeOK ==
  /\ pc \in PCs
  /\ caller \in {"recovery", "tos"} /\ allow \in BOOLEAN
  /\ boot_state \in Green .. Red
  /\ cur \in Calls /\ frame \in [Calls -> CallType]
  /\ slot_data \in DataType
  /\ heap \subseteq Nat /\ fresh \in Nat
  /\ out_data \in BOOLEAN /\ verify_result \in Results
  /\ status \in {"none", "SUCCESS", "ERROR", "SECURITY_VIOLATION"}
  /\ descriptors \in Nat /\ faults \in Nat

Init ==
  /\ pc = "start"
  /\ caller \in {"recovery", "tos"}
  /\ allow \in BOOLEAN
  /\ boot_state = Green
  /\ cur = "main"
  /\ frame = Frames
  /\ slot_data = EmptyData
  /\ heap = {} /\ fresh = 1
  /\ out_data = FALSE /\ verify_result = "OK"
  /\ bootimage = NoImage /\ status = "none"
  /\ descriptors = 0 /\ faults = 0

call == frame[cur]
is_main_vbmeta == call.loc = 0

\* What the caller and the result of the whole do while images are read.
reading == <<caller, allow, boot_state, out_data, verify_result, bootimage, status>>

Outcomes == {"OK", "OOM", "IO"}
\* Anything but success spends one unit of the fault budget.
Outcome(r) == \/ r = "OK" /\ UNCHANGED faults
              \/ r # "OK" /\ faults < MaxFaults /\ faults' = faults + 1

\* "goto out" with a result.
Leave(g, r) == frame' = [frame EXCEPT ![cur] = [g EXCEPT !.ret = r]] /\ pc' = "out"
Proceed(g, where) == frame' = [frame EXCEPT ![cur] = g] /\ pc' = where
Abort == pc' = "assert" /\ UNCHANGED frame

\* Buffers that slot_data points to.
Owned == {slot_data.vbmeta_images[i].buf : i \in DOMAIN slot_data.vbmeta_images}
         \union {slot_data.loaded_partitions[i].buf : i \in DOMAIN slot_data.loaded_partitions}

\* The end of avb_slot_verify with result r: with the data handed out, with
\* the data freed ("fail"), or with neither.
Return(r, how) ==
  /\ verify_result' = r
  /\ out_data' = (how = "hand_out")
  /\ heap' = IF how = "fail" THEN heap \ Owned ELSE heap
  /\ pc' = "returned"

\* Set up the operations and the empty slot_data.
StartVerify ==
  /\ pc = "start"
  /\ \E r \in {"OK", "OOM"} :
       /\ Outcome(r)
       /\ IF r = "OK" THEN pc' = "read" /\ UNCHANGED <<verify_result, out_data, heap>>
                      ELSE Return(r, "fail")
  /\ UNCHANGED <<caller, allow, boot_state, cur, frame, slot_data, fresh, bootimage, status,
                 descriptors>>

\* Every image but the one of partition vbmeta may sit behind a footer.  The
\* name of a chained partition may not be a valid one.
ReadFooter ==
  /\ pc = "footer"
  /\ \/ \E r \in Outcomes :
          /\ Outcome(r)
          /\ IF r = "OK" THEN Proceed(call, "read") ELSE Leave(call, r)
     \/ cur = "chain" /\ Leave(call, "INVALID_METADATA") /\ UNCHANGED faults
  /\ UNCHANGED <<reading, cur, slot_data, heap, fresh, descriptors>>

\* Allocate and read a vbmeta struct; the top-level one is looked for in
\* partition boot when there is no partition vbmeta.
ReadVbmeta ==
  /\ pc = "read"
  /\ \/ Outcome("OOM") /\ Leave(call, "OOM") /\ UNCHANGED <<heap, fresh>>
     \/ /\ heap' = heap \union {fresh} /\ fresh' = fresh + 1
        /\ \/ \E r \in Outcomes :
                /\ Outcome(r)
                /\ LET g == [call EXCEPT !.buf = fresh]
                   IN IF r = "OK" THEN Proceed(g, "verify") ELSE Leave(g, r)
           \/ /\ is_main_vbmeta /\ call.name = "vbmeta"
              /\ Proceed([Call("boot", 0, FALSE) EXCEPT !.outer = fresh], "footer")
              /\ UNCHANGED faults
  /\ UNCHANGED <<reading, cur, slot_data, descriptors>>

\* An error of a descriptor or of a chained image replaces the result so far.
LastResult(ret, sub_ret) == sub_ret
Merge(ret, sub_ret) == IF sub_ret # "OK" THEN sub_ret ELSE ret

\* A result that ends the verification of an image.
Stops(r) == r # "OK" /\ (~allow \/ ~result_should_continue(r))

\* The checks of the header: avb_vbmeta_image_verify, the flags, the public
\* key.  No key comes out of an image whose signature does not verify.
header_result(sig, flags, trusted) ==
  LET flagged == ~is_main_vbmeta /\ flags # "none"
  IN CASE sig = "INVALID_VBMETA_HEADER" -> "INVALID_METADATA"
       [] sig = "UNSUPPORTED_VERSION" -> "UNSUPPORTED_VERSION"
       [] sig \in {"OK_NOT_SIGNED", "MISMATCH"} ->
            IF allow /\ flagged THEN "INVALID_METADATA" ELSE "VERIFICATION"
       [] sig = "OK" -> IF flagged THEN "INVALID_METADATA"
                        ELSE IF trusted THEN "OK" ELSE "PUBLIC_KEY_REJECTED"

VerifyVbmeta ==
  /\ pc = "verify"
  /\ \E sig \in Signatures, flags \in Flags, trusted \in BOOLEAN :
       LET r == header_result(sig, flags, trusted)
           g == [call EXCEPT !.sig = sig, !.flags = flags, !.trusted = trusted, !.ret = r]
       IN IF sig = "OK" /\ r \notin Fatal /\ call.key = is_main_vbmeta THEN Abort
          ELSE IF Stops(r) THEN Leave(call, r)
          ELSE Proceed(g, "rollback")
  /\ UNCHANGED <<reading, cur, slot_data, heap, fresh, descriptors, faults>>

\* Compare the rollback index with the stored one.
CheckRollback ==
  /\ pc = "rollback"
  /\ \E r \in {"OK", "IO"}, index \in Indexes :
       LET old == index < StoredIndex
           g == [call EXCEPT !.index = index, !.ret = IF old THEN "ROLLBACK_INDEX" ELSE @]
       IN /\ Outcome(r)
          /\ IF r # "OK" THEN Leave(call, r)
             ELSE IF old /\ ~allow THEN Leave(g, g.ret)
             ELSE Proceed(g, "adopt")
  /\ UNCHANGED <<reading, cur, slot_data, heap, fresh, descriptors>>

\* The entry of an image in slot_data; its name is a copy, whose allocation is
\* not checked.  Only the name of the top-level image is ever read.
ImageEntry(named) ==
  [name |-> IF named THEN call.name ELSE "null", loc |-> call.loc, sig |-> call.sig,
   trusted |-> call.trusted, flags |-> call.flags, index |-> call.index, buf |-> call.buf]

\* Hand the buffer over to slot_data before descriptors are read.
AdoptImage ==
  /\ pc = "adopt"
  /\ LET images == slot_data.vbmeta_images
         g == [call EXCEPT !.adopted = TRUE]
     IN IF is_main_vbmeta # (images = <<>>)
        THEN Abort /\ UNCHANGED <<slot_data, faults>>
        ELSE IF Len(images) = MaxImages
        THEN Leave(call, "OOM") /\ UNCHANGED <<slot_data, faults>>
        ELSE \E named \in BOOLEAN, r \in {"OK", "OOM"} :
               /\ (~is_main_vbmeta => named) /\ Outcome(IF named THEN r ELSE "OOM")
               /\ slot_data' = [slot_data EXCEPT !.vbmeta_images = Append(@, ImageEntry(named))]
               /\ IF call.flags = "verification_disabled" THEN r = "OK" /\ Proceed(g, "load")
                  ELSE IF r = "OK" THEN Proceed(g, "descriptors") ELSE Leave(g, r)
  /\ UNCHANGED <<reading, cur, heap, fresh, descriptors>>

\* Buffers that a successful load adds, and the entry it leaves in slot_data.
Loaded(name, data) ==
  /\ heap' = heap \union {fresh} /\ fresh' = fresh + 1
  /\ slot_data' = [slot_data EXCEPT !.loaded_partitions =
                     Append(@, [name |-> name, data |-> data, buf |-> fresh])]
NothingLoaded == UNCHANGED <<heap, fresh, slot_data>>
TooMany == Len(slot_data.loaded_partitions) = MaxLoaded

\* VERIFICATION_DISABLED: load the requested partitions, one per step,
\* without looking at them (load_requested_partitions).
LoadRequested ==
  /\ pc = "load"
  /\ LET n == Len(slot_data.loaded_partitions) + 1
     IN IF n > Len(requested_partitions)
        THEN Leave(call, call.ret) /\ NothingLoaded /\ UNCHANGED faults
        ELSE \E r \in Outcomes :
               /\ Outcome(r)
               /\ IF r # "OK" \/ TooMany
                  THEN Leave(call, IF r # "OK" THEN r ELSE "OOM") /\ NothingLoaded
                  ELSE Loaded(requested_partitions[n], "unchecked") /\ Proceed(call, "load")
  /\ UNCHANGED <<reading, cur, descriptors>>

\* The next descriptor of the image; what it is is chosen by the action.
NextDescriptor ==
  /\ pc = "descriptors"
  /\ descriptors < MaxDescriptors /\ descriptors' = descriptors + 1
  /\ UNCHANGED <<reading, cur>>

\* load_and_verify_hash_partition.  An image that differs from its digest is
\* kept; one without a usable digest, or without a free entry, is freed.
load_and_verify_hash_partition(part, data, r) ==
  CASE part \notin Requested -> "OK"
    [] part \in Requested /\ r # "OK" -> r
    [] part \in Requested /\ r = "OK" ->
         IF data = "unsupported" THEN "INVALID_METADATA"
         ELSE IF TooMany THEN "OOM"
         ELSE IF data = "differs" THEN "VERIFICATION" ELSE "OK"

HashDescriptor ==
  /\ NextDescriptor
  /\ \E part \in Requested \union {"other"}, r \in Outcomes,
        data \in {"matches", "differs", "unsupported"} :
       LET sub_ret == load_and_verify_hash_partition(part, data, r)
           kept == part \in Requested /\ result_should_continue(sub_ret)
       IN /\ (part = "other" => r = "OK") /\ Outcome(r)
          /\ IF kept THEN Loaded(part, data) ELSE NothingLoaded
          /\ IF Stops(sub_ret) THEN Leave(call, sub_ret)
             ELSE Proceed([call EXCEPT !.ret = Merge(@, sub_ret)], "descriptors")

\* A chain descriptor, allowed in the top-level image only and not for the
\* rollback location of that image.
AnyLocation(loc) == is_main_vbmeta
ChainAllowed(loc) == is_main_vbmeta /\ loc # 0

ChainDescriptor ==
  /\ pc = "descriptors"
  /\ descriptors < MaxDescriptors /\ descriptors' = descriptors + 1
  /\ \E loc \in 0 .. MaxLocations :
       IF ~ChainAllowed(loc)
       THEN Leave(call, "INVALID_METADATA") /\ UNCHANGED cur
       ELSE /\ cur' = "chain"
            /\ frame' = [frame EXCEPT !["chain"] = Call("chained", loc, TRUE)]
            /\ pc' = "footer"
  /\ UNCHANGED <<reading, slot_data, heap, fresh, faults>>

\* A snippet of the kernel command line, for one state of dm-verity or any;
\* the flags are those of the top-level image.
KernelCmdlineDescriptor ==
  /\ NextDescriptor
  /\ \E use \in {"always", "hashtree_not_disabled", "hashtree_disabled"}, r \in {"OK", "OOM"} :
       LET disabled == frame["main"].flags = "hashtree_disabled"
           apply == IF disabled THEN use # "hashtree_not_disabled"
                                ELSE use # "hashtree_disabled"
       IN /\ (~apply => r = "OK") /\ Outcome(r)
          /\ IF r = "OK" THEN Proceed(call, "descriptors") ELSE Leave(call, r)
          /\ slot_data' = IF apply /\ r = "OK"
                          THEN [slot_data EXCEPT !.cmdline = "snippets"] ELSE slot_data
  /\ UNCHANGED <<heap, fresh>>

\* Properties and hashtree descriptors with a digest need nothing done.
PlainDescriptor ==
  /\ NextDescriptor
  /\ Proceed(call, "descriptors") /\ NothingLoaded /\ UNCHANGED faults

\* A descriptor that does not validate, or a hashtree one that relies on a
\* persistent digest, for which there is no operation.
InvalidDescriptor ==
  /\ NextDescriptor
  /\ Leave(call, "INVALID_METADATA") /\ NothingLoaded /\ UNCHANGED faults

\* After the last descriptor: note the rollback index of this location.
EndDescriptors ==
  /\ pc = "descriptors"
  /\ IF call.loc >= MaxLocations
     THEN Leave(call, "INVALID_METADATA") /\ UNCHANGED slot_data
     ELSE /\ Leave(call, call.ret)
          /\ slot_data' = [slot_data EXCEPT !.rollback_indexes[call.loc] = call.index]
  /\ UNCHANGED <<reading, cur, heap, fresh, descriptors, faults>>

\* Epilogue of load_and_verify_vbmeta: free what slot_data did not adopt.  A
\* chained image returns into the loop over the descriptors of the main one.
FreedAlways == {call.outer, call.buf}
Freed == {call.outer} \union IF call.adopted THEN {} ELSE {call.buf}

Out ==
  /\ pc = "out"
  /\ heap' = heap \ Freed
  /\ IF cur = "chain"
     THEN /\ cur' = "main"
          /\ frame' = [frame EXCEPT !["main"].ret = Merge(@, call.ret),
                                    !["chain"] = Frames["chain"]]
          /\ pc' = IF result_should_continue(call.ret) THEN "descriptors" ELSE "out"
     ELSE pc' = "slot_verify" /\ UNCHANGED <<cur, frame>>
  /\ UNCHANGED <<reading, slot_data, fresh, descriptors, faults>>

\* What the code asserts of the top-level image before it reads its header again,
\* but for its name.
TopLevelAsserted ==
  LET images == slot_data.vbmeta_images
  IN images # <<>> /\ (images[1].flags = "verification_disabled" => slot_data.cmdline = "null")

\* The name that is compared with "vbmeta" and "boot"; behind a null pointer
\* there may be anything.
NamesRead ==
  LET name == slot_data.vbmeta_images[1].name
  IN IF name = "null" THEN {"vbmeta", "boot", "other"} ELSE {name}

\* The rest of avb_slot_verify: options on the command line, and the return.
\* cmdline is "empty" when no partition identifier has to be put into it.
SlotVerify ==
  /\ pc = "slot_verify"
  /\ LET ret == frame["main"].ret
         disabled == slot_data.vbmeta_images[1].flags = "verification_disabled"
     IN \/ ~allow /\ ret # "OK" /\ Return(ret, "fail") /\ UNCHANGED <<slot_data, faults>>
        \/ /\ allow /\ ~result_should_continue(ret)
           /\ Return(ret, "none") /\ UNCHANGED <<slot_data, faults>>
        \/ /\ result_should_continue(ret) /\ (allow \/ ret = "OK")
           /\ IF ~TopLevelAsserted
              THEN pc' = "assert" /\ UNCHANGED <<verify_result, out_data, heap, slot_data, faults>>
              ELSE \/ /\ ~(NamesRead \subseteq {"vbmeta", "boot"}) /\ pc' = "assert_name"
                      /\ UNCHANGED <<verify_result, out_data, heap, slot_data, faults>>
                   \/ /\ NamesRead \intersect {"vbmeta", "boot"} # {}
                      /\ \E r \in Outcomes, system \in BOOLEAN :
                           /\ Outcome(r)
                           /\ slot_data' = [slot_data EXCEPT !.cmdline =
                                              IF disabled /\ ~system THEN "empty" ELSE "options"]
                           /\ IF r = "OK" THEN Return(ret, "hand_out") ELSE Return(r, "fail")
  /\ UNCHANGED <<caller, allow, boot_state, cur, frame, fresh, bootimage, status, descriptors>>

\* The colour of a verified image does not look at the lock state.
get_avb_result_any_lock(r, state) ==
  IF r = "OK" THEN state ELSE IF allow /\ state <= Orange THEN Orange ELSE Red

\* get_avb_result, for a non-empty set of loaded partitions.
get_avb_result(r, state) ==
  IF r = "OK" THEN IF allow /\ state < Orange THEN Orange ELSE state
  ELSE IF allow /\ state <= Orange THEN Orange ELSE Red

\* android_image_load_partition_avb: colour the boot, find the image among
\* the loaded partitions (skipping entries with a wrong header), install ACPI
\* tables.  The colour given is that of the boot so far, never red for the
\* trusted OS.
LoadPartition ==
  /\ pc = "returned"
  /\ LET parts == slot_data.loaded_partitions
         Entries(name) == {i \in DOMAIN parts : parts[i].name = name}
         result == out_data /\ parts # <<>>
     IN \E i \in Entries(caller) \union {0}, acpi \in BOOLEAN, state \in Green .. Red :
          LET found == result /\ i # 0
              tables == ~UseAcpi \/ (Entries("acpi") # {} /\ acpi)
          IN /\ caller = "tos" => state < Red
             /\ bootimage' = IF found THEN parts[i] ELSE NoImage
             /\ boot_state' = IF found /\ tables THEN get_avb_result(verify_result, state)
                                                 ELSE Red
             /\ status' = IF found /\ tables THEN "SUCCESS" ELSE "ERROR"
  /\ pc' = IF caller = "tos" THEN "tos" ELSE "done"
  /\ UNCHANGED <<caller, allow, cur, frame, slot_data, heap, fresh, out_data, verify_result,
                 descriptors, faults>>

\* load_tos_image goes on to check the image against the descriptor in its own
\* footer (avb_verify_image), whatever the lock state.
load_tos_image ==
  /\ pc = "tos"
  /\ \E ok \in BOOLEAN :
       status' = IF status = "SUCCESS" /\ (boot_state = Red \/ ~ok)
                 THEN "SECURITY_VIOLATION" ELSE status
  /\ pc' = "done"
  /\ UNCHANGED <<caller, allow, boot_state, cur, frame, slot_data, heap, fresh, out_data,
                 verify_result, bootimage, descriptors, faults>>

Next ==
  \/ StartVerify
  \/ ReadFooter \/ ReadVbmeta \/ VerifyVbmeta \/ CheckRollback \/ AdoptImage
  \/ LoadRequested
  \/ HashDescriptor \/ ChainDescriptor \/ KernelCmdlineDescriptor
  \/ PlainDescriptor \/ InvalidDescriptor \/ EndDescriptors \/ Out
  \/ SlotVerify \/ LoadPartition \/ load_tos_image

Spec == Init /\ [][Next]_vars

------------------------------------------------------------------------------

\* An image that passed every check made of it.
Sound(image) == image.sig = "OK" /\ image.trusted /\ image.index >= StoredIndex
TopLevel == slot_data.vbmeta_images[1]
Disabled == TopLevel.flags = "verification_disabled"

\* A verification that reports success has checked everything it returns: each
\* vbmeta image is signed by the key expected of it and not rolled back, each
\* loaded partition matches its digest unless the top-level image disables
\* verification, and no result of an earlier image or descriptor was
\* overwritten by a later one (avb_slot_verify.c, ret and sub_ret).
OkMeansVerified ==
  pc \in {"returned", "tos", "done"} /\ verify_result = "OK" =>
    /\ out_data /\ slot_data.vbmeta_images # <<>>
    /\ \A i \in DOMAIN slot_data.vbmeta_images : Sound(slot_data.vbmeta_images[i])
    /\ ~Disabled => \A i \in DOMAIN slot_data.loaded_partitions :
                      slot_data.loaded_partitions[i].data = "matches"

\* An image is handed on with a colour better than orange only by a locked
\* device, and only when its contents match a digest of the verified chain or
\* a sound top-level image switches verification off (android_vb2.c).
GoodColourMeansVerified ==
  pc = "done" /\ status = "SUCCESS" /\ boot_state < Orange =>
    /\ ~allow
    /\ Sound(TopLevel)
    /\ bootimage.data = "matches" \/ Disabled

\* The asserts of libavb hold: a key is expected exactly of chained images, the
\* top-level image comes first and only once, and there is one, without snippets
\* if it disables verification, whenever its header is read again
\* (avb_slot_verify.c).  That it is of partition vbmeta or boot is asserted too,
\* and fails only where the copy of its name could not be allocated.
AssertionsHold ==
  /\ pc # "assert"
  /\ pc = "assert_name" => slot_data.vbmeta_images # <<>> /\ TopLevel.name = "null"

\* Buffers have one owner: those in slot_data stay allocated until it is freed
\* or handed out, and a verification returns nothing else that is allocated.
\* The exception is in the code: a fatal error on an unlocked device returns
\* past the "fail" label.
BuffersOwned ==
  /\ pc \notin {"returned", "tos", "done"} \/ out_data => Owned \subseteq heap
  /\ pc \in {"returned", "tos", "done"} /\ (~allow \/ out_data) =>
       heap = IF out_data THEN Owned ELSE {}
==============================================================================
