--------------------------- MODULE BootloaderFlash ---------------------------
(***************************************************************************)
(* Flashing the EFI system partition (flash_esp and flash_efi_partition,   *)
(* libfastboot/bootloader.c) over the partition table                      *)
(* (libkernelflinger/gpt.c) and the firmware's boot options                *)
(* (libfastboot/bootmgr.c): write the image to the temporary partition,    *)
(* check it, swap the two partitions in the table, register the load       *)
(* options, erase the temporary partition.                                 *)
(*                                                                         *)
(* The two partitions lie in the regions 1 and 2 of the disk.  A partition *)
(* table is the region of the partition "esp"; "esp2" has the other one.   *)
(* The table is on disk twice, each time as a header, which holds a        *)
(* checksum of the entries, and the entries.  Power may fail between and   *)
(* in the middle of writes, and accesses may fail.                         *)
(***************************************************************************)
EXTENDS Integers, FiniteSets, Sequences

CONSTANTS
  Images,         \* what the host may send
  Loads,          \* images that verify_image can load from the default path
  Bare,           \* images without manifest.txt
  Malformed,      \* images with a manifest.txt that has a malformed line
  Manifest,       \* image -> options of its manifest.txt (those before the
                  \*   malformed line), sequence of [desc, ok]
  OldImage,       \* the bootloader a device starts with
  MaxEntry,       \* number of the last boot option
  MaxDamages,     \* bound on faults that may damage a partition table
  MaxErrors,      \* bound on the other faults
  FaultKinds,     \* which faults happen
  None

\* Power loss, a failing write of the primary table, of the alternate table or
\* of the MBR; a failing write of a partition or of a boot option.
Damages == {"power", "primary", "alternate"}
Errors == {"part", "var"}

ASSUME FlashAssumption ==
  /\ Loads \subseteq Images /\ OldImage \in Loads
  /\ Bare \subseteq Images /\ Malformed \subseteq Images
  /\ Manifest \in [Images -> Seq([desc : STRING \ {"none"}, ok : BOOLEAN])]
  /\ MaxEntry \in Nat /\ MaxDamages \in Nat /\ MaxErrors \in Nat
  /\ FaultKinds \subseteq Damages \union Errors
  /\ None \notin Images /\ None \notin {"okay", "fail"}

Region == {1, 2}
Torn == 0                 \* a header or an entries array cut off by a power loss
Piece == Region \union {Torn}
Other(r) == 3 - r

\* Contents of a partition besides images.
Partial == "partial"
Empty == "empty"
ASSUME ContentAssumption == {Partial, Empty} \intersect Images = {}

Entry == 0 .. MaxEntry

VARIABLES
  \* persistent
  content,    \* region -> image, Partial or Empty
  primary,    \* primary partition table: [hdr, ent]
  backup,     \* alternate partition table
  options,    \* Boot#### variables: entry -> description or "none"
  order,      \* BootOrder
  \* of one boot
  cache,      \* gpt.c sdisk: the cached table, Torn if nothing is cached
  pc,
  load_options, is_default,  \* load_options, and whether it is DEFAULT_LOAD_OPTIONS
  image,      \* data of flash_efi_partition
  entries,    \* bootmgr_register_entries: entries written so far
  ret,        \* ret is not an error
  answer,     \* what the host is told
  damages, errors

disk == <<content, primary, backup>>
firmware == <<options, order>>
static == <<load_options, is_default>>
call == <<image, entries, ret>>
vars == <<disk, firmware, cache, pc, static, call, answer, damages, errors>>

PCs == {"off", "idle", "dead", "flash", "verify", "swap", "hdr1", "ent1", "hdr2",
        "ent2", "mbr", "register", "exit"}

DEFAULT_LOAD_OPTIONS == <<[desc |-> "Android-IA", ok |-> TRUE]>>

\* No boot option, one of another system, the default or one of a manifest.
Descriptions ==
  {"none", "other", "Android-IA"}
    \union UNION {{Manifest[i][k].desc : k \in 1 .. Len(Manifest[i])} : i \in Images}

\* What memory that was not initialized may hold where an entry is expected.
Uninitialized == 0 .. MaxEntry + 1

TypeOK ==
  /\ content \in [Region -> Images \union {Partial, Empty}]
  /\ primary \in [hdr : Piece, ent : Piece] /\ backup \in [hdr : Piece, ent : Piece]
  /\ options \in [Entry -> Descriptions] /\ order \in Seq(Uninitialized)
  /\ load_options \in Seq([desc : Descriptions, ok : BOOLEAN]) /\ is_default \in BOOLEAN
  /\ entries \in Seq(Entry)
  /\ cache \in Piece /\ pc \in PCs
  /\ image \in Images /\ ret \in BOOLEAN
  /\ answer \in {None, "okay", "fail"}
  /\ damages \in 0 .. MaxDamages /\ errors \in 0 .. MaxErrors

\* The firmware may already know another system.
Init ==
  /\ content = [r \in Region |-> IF r = 1 THEN OldImage ELSE Empty]
  /\ primary = [hdr |-> 1, ent |-> 1] /\ backup = [hdr |-> 1, ent |-> 1]
  /\ \/ options = [e \in Entry |-> "none"] /\ order = <<>>
     \/ options = [e \in Entry |-> IF e = 0 THEN "other" ELSE "none"] /\ order = <<0>>
  /\ cache = Torn /\ pc = "off"
  /\ load_options = <<>> /\ is_default = FALSE
  /\ image = OldImage /\ entries = <<>> /\ ret = TRUE
  /\ answer = None
  /\ damages = 0 /\ errors = 0

Fault(k) ==
  /\ k \in FaultKinds
  /\ \/ /\ k \in Damages /\ damages < MaxDamages
        /\ damages' = damages + 1 /\ UNCHANGED errors
     \/ /\ k \in Errors /\ errors < MaxErrors
        /\ errors' = errors + 1 /\ UNCHANGED damages
NoFault == UNCHANGED <<damages, errors>>

-----------------------------------------------------------------------------
(* gpt.c *)

Valid(t) == t.hdr # Torn /\ t.ent = t.hdr

\* gpt_prepare_disk and gpt_list_partition_on_disk: the primary table, or the
\* alternate one if the header or the entries of the primary one are corrupted.
ReadTable ==
  CASE Valid(primary) -> primary.hdr
    [] ~Valid(primary) /\ Valid(backup) -> backup.hdr
    [] OTHER -> Torn

\* gpt_cache_partition.
Table == IF cache # Torn THEN cache ELSE ReadTable

\* One write of gpt_write_table_to_disk.  A write that fails leaves the old
\* bytes or some of the new ones; it ends gpt_write_partition_tables, and the
\* cached table keeps the swapped entries.
WritePiece(kind, old, new, next) ==
  \/ /\ NoFault
     /\ new = cache /\ pc' = next /\ UNCHANGED ret
  \/ /\ Fault(kind)
     /\ new \in {old, Torn} /\ pc' = "register" /\ ret' = FALSE

\* (mutant of WritePrimary: both tables in one go, header by header)
WriteHeadersFirst ==
  \/ /\ pc = "hdr1" /\ NoFault /\ UNCHANGED ret
     /\ primary' = [hdr |-> cache, ent |-> primary.ent]
     /\ backup' = [hdr |-> cache, ent |-> backup.ent]
     /\ pc' = "ent1"
     /\ UNCHANGED <<content, firmware, cache, static, image, entries, answer>>
  \/ /\ pc = "ent1" /\ NoFault /\ UNCHANGED ret
     /\ primary' = [hdr |-> primary.hdr, ent |-> cache]
     /\ pc' = "hdr2"
     /\ UNCHANGED <<content, backup, firmware, cache, static, image, entries, answer>>

\* gpt_write_partition_tables: the primary table, header first, ...
WritePrimary ==
  /\ \/ /\ pc = "hdr1"
        /\ \E new \in Piece : /\ WritePiece("primary", primary.hdr, new, "ent1")
                              /\ primary' = [hdr |-> new, ent |-> primary.ent]
     \/ /\ pc = "ent1"
        /\ \E new \in Piece : /\ WritePiece("primary", primary.ent, new, "hdr2")
                              /\ primary' = [hdr |-> primary.hdr, ent |-> new]
  /\ UNCHANGED <<content, backup, firmware, cache, static, image, entries, answer>>

\* ... the alternate one, ...
WriteBackup ==
  /\ \/ /\ pc = "hdr2"
        /\ \E new \in Piece : /\ WritePiece("alternate", backup.hdr, new, "ent2")
                              /\ backup' = [hdr |-> new, ent |-> backup.ent]
     \/ /\ pc = "ent2"
        /\ \E new \in Piece : /\ WritePiece("alternate", backup.ent, new, "mbr")
                              /\ backup' = [hdr |-> backup.hdr, ent |-> new]
  /\ UNCHANGED <<content, primary, firmware, cache, static, image, entries, answer>>

\* ... the protective MBR, then gpt_refresh drops the cached table.
WriteMbr ==
  /\ pc = "mbr" /\ pc' = "register"
  /\ \/ NoFault /\ cache' = Torn /\ UNCHANGED ret
     \/ Fault("alternate") /\ ret' = FALSE /\ UNCHANGED cache
  /\ UNCHANGED <<disk, firmware, static, image, entries, answer>>

-----------------------------------------------------------------------------
(* bootloader.c *)

Reply(a) == pc' = "idle" /\ answer' = a

\* flash_esp.  It gets no further without a table.
StartFlash ==
  /\ pc = "idle"
  /\ image' \in Images
  /\ answer' = None /\ entries' = <<>> /\ ret' = TRUE
  /\ pc' = "flash" /\ cache' = Table
  /\ UNCHANGED <<disk, firmware, static, damages, errors>>

\* The region of the temporary partition.
Scratch(t) == Other(t)

\* flash_partition, then gpt_refresh.  An error of either ends the command with
\* what was written left on the partition.
FlashTmp ==
  /\ pc = "flash"
  /\ \/ /\ cache = Torn
        /\ NoFault /\ Reply("fail") /\ UNCHANGED <<content, cache>>
     \/ /\ cache # Torn /\ NoFault
        /\ content' = [content EXCEPT ![Scratch(cache)] = image]
        /\ cache' = Torn /\ pc' = "verify" /\ UNCHANGED answer
     \/ /\ cache # Torn /\ Fault("part")
        /\ \E c \in {Partial, image} :
             content' = [content EXCEPT ![Scratch(cache)] = c]
        /\ Reply("fail") /\ UNCHANGED cache
  /\ UNCHANGED <<primary, backup, firmware, static, call>>

\* read_load_options: the default without a manifest, or else the options of the
\* manifest after those that load_options already holds.
OptionsRead(i) ==
  IF i \in Bare THEN DEFAULT_LOAD_OPTIONS ELSE load_options \o Manifest[i]

\* add_load_option copies what is there into room for one, so that a third
\* option is refused.  The loop that follows verifies load_options->path, the
\* first option, every time.
OptionsOk(i) ==
  /\ i \in Bare \/ i \notin Malformed
  /\ Len(OptionsRead(i)) \in 1 .. 2 /\ OptionsRead(i)[1].ok

\* Whether load_options points to DEFAULT_LOAD_OPTIONS afterwards.
StaysDefault(i) == i \in Bare \/ (is_default /\ Manifest[i] = <<>>)

\* verify_image on the temporary partition, which ends the command at once when
\* it fails, then the load options.
VerifyTmp ==
  /\ pc = "verify"
  /\ cache' = Table
  /\ LET i == content[Other(Table)]
         loads == Table # Torn /\ i \in Loads
         ok == loads /\ OptionsOk(i)
     IN  /\ pc' = (IF ok THEN "swap" ELSE "exit") /\ ret' = ok
         /\ \/ ~loads /\ UNCHANGED static
            \/ /\ loads
               /\ load_options' = OptionsRead(i) /\ is_default' = StaysDefault(i)
  /\ UNCHANGED <<disk, firmware, image, entries, answer, damages, errors>>

\* gpt_swap_partition exchanges the two in the cached table.
SwapCached ==
  /\ pc = "swap"
  /\ cache' = Other(cache) /\ pc' = "hdr1"
  /\ UNCHANGED <<disk, firmware, static, call, answer, damages, errors>>

\* free_load_options.
FreeLoadOptions == load_options' = IF is_default THEN load_options ELSE <<>>

\* erase_by_label(tmp_part) in any case, then free_load_options.
EraseTmp ==
  /\ pc = "exit"
  /\ \/ /\ Table # Torn /\ NoFault
        /\ content' = [content EXCEPT ![Other(Table)] = Empty]
        /\ Reply(IF ret THEN "okay" ELSE "fail")
     \/ /\ Table # Torn /\ Fault("part")
        /\ content' = [content EXCEPT ![Other(Table)] = Partial]
        /\ Reply("fail")
     \/ /\ Table = Torn /\ NoFault
        /\ UNCHANGED content
        /\ Reply("fail")
  /\ cache' = Table
  /\ FreeLoadOptions
  /\ UNCHANGED <<primary, backup, firmware, is_default, call>>

-----------------------------------------------------------------------------
(* bootmgr.c *)

\* find_load_option_entry, or else find_free_entry.
EntriesFor(desc) ==
  LET known == {e \in Entry : options[e] = desc}
      free == {e \in Entry : options[e] = "none"}
  IN  IF known # {} THEN known
      ELSE {e \in free : \A f \in free : e <= f}

\* One round of the loop of bootmgr_register_entries.  The result overwrites
\* what gpt_swap_partition returned.
RegisterOption ==
  /\ pc = "register" /\ Len(entries) < Len(load_options)
  /\ cache' = Table
  /\ LET desc == load_options[Len(entries) + 1].desc
     IN  \/ /\ Table # Torn /\ NoFault
            /\ \E e \in EntriesFor(desc) :
                 /\ options' = [options EXCEPT ![e] = desc]
                 /\ entries' = Append(entries, e)
            /\ UNCHANGED <<pc, ret>>
         \/ /\ \/ (EntriesFor(desc) = {} \/ Table = Torn) /\ NoFault
               \/ EntriesFor(desc) # {} /\ Table # Torn /\ Fault("var")
            /\ pc' = "exit" /\ ret' = FALSE
            /\ UNCHANGED <<options, entries>>
  /\ UNCHANGED <<disk, order, static, image, answer>>

InEntries(e) == \E i \in 1 .. Len(entries) : entries[i] = e

\* The first n entries of BootOrder, without those just registered.
Kept[n \in 0 .. Len(order)] ==
  IF n = 0 THEN <<>>
  ELSE IF InEntries(order[n]) THEN Kept[n - 1] ELSE Append(Kept[n - 1], order[n])

\* (mutant of Reordered: new entries are added at the end)
AppendedOrder == Kept[Len(order)] \o entries

\* The new entries, then the old ones without them.
Reordered == entries \o Kept[Len(order)]

InOrder(e) == \E i \in 1 .. Len(order) : order[i] = e

\* (mutant of new_size: the entries that BootOrder already has are counted again)
UncountedSize == Len(order) + Len(entries)

\* Room for the old entries and those that are missing.
new_size == Len(order) + Cardinality({i \in 1 .. Len(entries) : ~InOrder(entries[i])})

AtHead == Len(order) >= Len(entries) /\ SubSeq(order, 1, Len(entries)) = entries

\* install_in_boot_order writes new_size entries of a buffer that was not
\* initialized, unless BootOrder starts with the new ones already.
NewOrders ==
  IF AtHead THEN {order}
  ELSE {SubSeq(Reordered \o rest, 1, new_size) :
          rest \in [1 .. new_size - Len(Reordered) -> Uninitialized]}

\* memcpy_s fails without room for the new entries.
InstallOrder ==
  /\ pc = "register" /\ Len(entries) = Len(load_options)
  /\ pc' = "exit"
  /\ \/ /\ AtHead \/ new_size >= Len(entries)
        /\ NoFault /\ order' \in NewOrders /\ ret' = TRUE
     \/ /\ ~AtHead /\ new_size < Len(entries)
        /\ NoFault /\ ret' = FALSE /\ UNCHANGED order
     \/ Fault("var") /\ ret' = FALSE /\ UNCHANGED order
  /\ UNCHANGED <<disk, options, cache, static, image, entries, answer>>

-----------------------------------------------------------------------------
(* Power *)

\* The device starts what the table calls "bootloader" (external: the
\* firmware reads the table as gpt.c does).
Boot ==
  /\ pc = "off"
  /\ pc' = IF ReadTable # Torn /\ content[ReadTable] \in Loads THEN "idle" ELSE "dead"
  /\ cache' = Torn /\ answer' = None
  /\ load_options' = <<>> /\ is_default' = FALSE
  /\ UNCHANGED <<disk, firmware, call, damages, errors>>

Reboot ==
  /\ pc = "idle" /\ pc' = "off"
  /\ UNCHANGED <<disk, firmware, cache, static, call, answer, damages, errors>>

\* What the write in progress leaves of the piece p of a table.
Cut(p, here, t) ==
  IF pc = here THEN {t[p], Torn, cache} ELSE {t[p]}

\* ... and of the partition being written or erased.
CutContent(r) ==
  CASE pc = "flash" /\ cache # Torn /\ r = Scratch(cache) -> {content[r], Partial, image}
    [] pc = "exit" /\ Table # Torn /\ r = Other(Table) -> {content[r], Partial, Empty}
    [] OTHER -> {content[r]}

PowerLoss ==
  /\ pc \notin {"off", "dead"}
  /\ Fault("power")
  /\ \E c1 \in CutContent(1), c2 \in CutContent(2) :
       content' = [r \in Region |-> IF r = 1 THEN c1 ELSE c2]
  /\ \E h \in Cut("hdr", "hdr1", primary), e \in Cut("ent", "ent1", primary) :
       primary' = [hdr |-> h, ent |-> e]
  /\ \E h \in Cut("hdr", "hdr2", backup), e \in Cut("ent", "ent2", backup) :
       backup' = [hdr |-> h, ent |-> e]
  /\ pc' = "off" /\ answer' = None
  /\ UNCHANGED <<firmware, cache, static, call>>

Next ==
  \/ Boot \/ Reboot \/ PowerLoss
  \/ StartFlash \/ FlashTmp \/ VerifyTmp \/ SwapCached
  \/ WritePrimary \/ WriteBackup \/ WriteMbr
  \/ RegisterOption \/ InstallOrder \/ EraseTmp

Spec == Init /\ [][Next]_vars

-----------------------------------------------------------------------------
(* Properties *)

\* The bootloader the device would start, were it switched off here and, in the
\* middle of the write of the primary table, its old table still readable.
Installed ==
  LET t == IF pc \in {"hdr1", "ent1"} THEN Other(cache) ELSE ReadTable
  IN  IF t = Torn THEN None ELSE content[t]

\* bootloader.c:193 'we perform a "safe flash procedure"': with at most one
\* power loss, and whatever writes fail but those of the primary table, flashing
\* replaces the bootloader in one step by an image that loads, and OKAY means
\* that it did.
Abstract == INSTANCE SafeFlash WITH
  installed <- Installed,
  request <- IF pc \in {"off", "idle", "dead"} THEN None ELSE image,
  answer <- IF pc = "off" THEN None ELSE answer

FlashIsSafe == Abstract!Spec

\* ... so that no device ends up without a bootloader.
NeverBricked == pc # "dead"

\* Every entry of BootOrder has its Boot#### variable and is there once.
OrderIsProper ==
  /\ \A i \in 1 .. Len(order) : order[i] \in Entry /\ options[order[i]] # "none"
  /\ \A i, j \in 1 .. Len(order) : i # j => order[i] # order[j]

\* No two options to register have the same description.
DistinctOptions ==
  \A j, k \in 1 .. Len(load_options) : j # k => load_options[j].desc # load_options[k].desc

\* The firmware never meets an entry of BootOrder without its Boot#### variable,
\* nor the same entry twice, whatever fails while bootmgr_register_entries runs,
\* as long as the options it is called with have different descriptions.  They
\* have not when a manifest lists one twice, or repeats the default that an image
\* without manifest left behind in the same boot.
BootOrderResolves == [][OrderIsProper /\ DistinctOptions => OrderIsProper']_vars

\* The options that an image asks for.
OwnOptions(i) == IF i \in Bare THEN DEFAULT_LOAD_OPTIONS ELSE Manifest[i]

\* bootloader.c:249 "We have to get rid of this potential second FAT32
\* partition": when a flash command succeeds the temporary partition is empty,
\* and the entries at the head of BootOrder, which are the ones just registered,
\* have all the options of the image among them.  (Those of a default that was
\* left behind come before them.)
OkayLeavesOneBootloader ==
  pc = "idle" /\ answer = "okay" =>
    /\ content[Other(ReadTable)] = Empty
    /\ AtHead
    /\ \A k \in 1 .. Len(OwnOptions(image)) :
         \E j \in 1 .. Len(entries) : options[entries[j]] = OwnOptions(image)[k].desc
=============================================================================
