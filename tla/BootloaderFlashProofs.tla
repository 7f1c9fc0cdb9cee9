----------------------- MODULE BootloaderFlashProofs -----------------------
(***************************************************************************)
(* BootloaderFlash implements SafeFlash, for any images, any number of     *)
(* flashes and of failing partition and variable writes, provided that at  *)
(* most one power loss or failing write of the alternate table happens and *)
(* that no write of the primary table fails; and BootOrder stays           *)
(* consistent whatever fails.                                              *)
(***************************************************************************)
EXTENDS BootloaderFlash, SequenceTheorems, FunctionTheorems, FiniteSetTheorems,
        WellFoundedInduction, TLAPS

FaultModel == MaxDamages <= 1 /\ "primary" \notin FaultKinds

\* The part of TypeOK that the argument needs.
DiskType ==
  /\ content \in [Region -> Images \union {Partial, Empty}]
  /\ primary \in [hdr : Piece, ent : Piece] /\ backup \in [hdr : Piece, ent : Piece]
  /\ cache \in Piece /\ pc \in PCs
  /\ image \in Images /\ ret \in BOOLEAN
  /\ answer \in {None, "okay", "fail"}
  /\ damages \in 0 .. MaxDamages

\* Where a table is being written the primary one is the first to change, and
\* the alternate one is intact until then unless it was damaged before.
TableInv ==
  /\ pc # "ent1" => ReadTable # Torn
  /\ pc \in {"swap", "hdr1", "ent1", "hdr2", "ent2", "mbr"} => cache # Torn
  /\ pc = "hdr1" => cache = Other(ReadTable)
  /\ pc = "ent1" => primary.hdr = cache
  /\ pc = "ent1" /\ damages = 0 => backup.hdr = Other(cache) /\ Valid(backup)
  /\ pc \in {"hdr2", "ent2", "mbr"} => primary.hdr = cache /\ Valid(primary)
  /\ pc = "ent2" => backup.hdr = cache
  /\ damages = 0 /\ pc # "ent1" => Valid(primary)
  /\ damages = 0 /\ pc # "ent2" => Valid(backup)
  /\ damages = 0 /\ pc \notin {"ent1", "hdr2", "ent2"} => primary.hdr = backup.hdr
  /\ pc \notin {"off", "hdr1", "ent1"} /\ cache # Torn => cache = ReadTable

\* Which region holds a bootloader that loads, and which one the new image.
ContentInv ==
  /\ pc # "dead"
  /\ pc \notin {"hdr1", "ent1"} => content[ReadTable] \in Loads
  /\ pc \in {"hdr1", "ent1"} => content[Other(cache)] \in Loads /\ content[cache] = image
  /\ pc \in {"swap", "hdr1", "ent1"} => image \in Loads
  /\ pc = "verify" => content[Other(ReadTable)] = image
  /\ pc = "swap" => content[Other(cache)] = image
  /\ pc \in {"hdr2", "ent2", "mbr", "register"} => content[ReadTable] = image
  /\ pc = "exit" /\ ret => content[ReadTable] = image

IndInv == DiskType /\ TableInv /\ ContentInv

\* Arithmetic of the two regions.
LEMMA Regions ==
  /\ Other(1) = 2 /\ Other(2) = 1
  /\ \A r \in Region : Other(r) \in Region /\ Other(r) # r /\ Other(Other(r)) = r
  /\ Torn \notin Region /\ Piece = Region \union {Torn}
BY DEF Other, Region, Torn, Piece

\* What reading the disk returns.
LEMMA ReadTableFacts ==
  ASSUME DiskType
  PROVE  /\ ReadTable \in Piece /\ Table \in Piece
         /\ Valid(primary) => ReadTable = primary.hdr
         /\ ~Valid(primary) /\ Valid(backup) => ReadTable = backup.hdr
         /\ ReadTable # Torn => Valid(primary) \/ Valid(backup)
         /\ cache # Torn => Table = cache
         /\ cache = Torn => Table = ReadTable
BY Regions, Zenon DEF DiskType, ReadTable, Table, Valid

LEMMA FaultFacts ==
  ASSUME FaultModel, DiskType
  PROVE  /\ ~Fault("primary")
         /\ Fault("part") \/ Fault("var") \/ NoFault => damages' = damages
         /\ Fault("power") \/ Fault("alternate") => damages = 0 /\ damages' = 1
         /\ \A k : Fault(k) => damages' \in 0 .. MaxDamages
         /\ NoFault => damages' \in 0 .. MaxDamages
BY FlashAssumption DEF FaultModel, DiskType, Fault, NoFault, Damages, Errors

LEMMA Start == Init => IndInv
<1> SUFFICES ASSUME Init PROVE IndInv BY Zenon
<1>1. DiskType
  <2>1. content \in [Region -> Images \union {Partial, Empty}] /\ image \in Images
    BY FlashAssumption, Zenon DEF Init
  <2>2. damages \in 0 .. MaxDamages
    BY FlashAssumption DEF Init
  <2>3. /\ primary \in [hdr : Piece, ent : Piece] /\ backup \in [hdr : Piece, ent : Piece]
        /\ cache \in Piece /\ pc \in PCs /\ answer = None
        /\ ret \in BOOLEAN
    BY Zenon DEF Init, Piece, Region, Torn, PCs
  <2> QED BY <2>1, <2>2, <2>3, Zenon DEF DiskType
<1>2. Valid(primary) /\ Valid(backup) /\ ReadTable = 1
  BY DEF Init, Valid, ReadTable, Torn
<1>3. content[1] \in Loads
  BY FlashAssumption, Zenon DEF Init, Region
<1> QED BY <1>1, <1>2, <1>3 DEF Init, IndInv, TableInv, ContentInv, Torn

\* Steps that leave the disk alone and end where the invariant says as little
\* as where they began.
LEMMA QuietStep ==
  ASSUME IndInv, DiskType', UNCHANGED disk, damages' = damages,
         pc \notin {"hdr1", "ent1", "hdr2", "ent2"},
         pc' \in {"off", "idle", "flash", "exit"},
         cache' = Torn \/ pc' = "off" \/ (pc # "off" /\ cache' \in {cache, Table}),
         pc' = "exit" /\ ret' => content[ReadTable] = image /\ image' = image
  PROVE  IndInv'
<1>1. ReadTable' = ReadTable /\ Valid(primary)' = Valid(primary)
      /\ Valid(backup)' = Valid(backup)
  BY Zenon DEF disk, ReadTable, Valid
<1>2. pc' # "off" /\ cache' # Torn => cache' = ReadTable
  BY ReadTableFacts, Regions, Zenon DEF IndInv, TableInv
<1>3. TableInv'
  BY <1>1, <1>2, Zenon DEF IndInv, TableInv, disk
<1>4. ContentInv'
  BY <1>1, Zenon DEF IndInv, ContentInv, disk
<1> QED BY <1>3, <1>4, Zenon DEF IndInv

LEMMA TypeStep == FaultModel /\ IndInv /\ Next => DiskType'
<1> SUFFICES ASSUME FaultModel, IndInv, Next PROVE DiskType' BY Zenon
<1>t. DiskType BY Zenon DEF IndInv
<1> USE <1>t, FaultFacts
<1>1. CASE Boot \/ Reboot
  BY <1>1, Regions, Zenon DEF Boot, Reboot, DiskType, disk, call, PCs
<1>2. CASE PowerLoss
  <2>1. content' \in [Region -> Images \union {Partial, Empty}]
    <3>1. \A r \in Region : CutContent(r) \subseteq Images \union {Partial, Empty}
      BY Zenon DEF CutContent, DiskType
    <3> QED BY <1>2, <3>1, Zenon DEF PowerLoss, Region
  <2>2. primary' \in [hdr : Piece, ent : Piece] /\ backup' \in [hdr : Piece, ent : Piece]
    <3>1. Cut("hdr", "hdr1", primary) \subseteq Piece /\ Cut("ent", "ent1", primary) \subseteq Piece
      BY Regions, Zenon DEF Cut, DiskType
    <3>2. Cut("hdr", "hdr2", backup) \subseteq Piece /\ Cut("ent", "ent2", backup) \subseteq Piece
      BY Regions, Zenon DEF Cut, DiskType
    <3> QED BY <1>2, <3>1, <3>2 DEF PowerLoss
  <2> QED BY <1>2, <2>1, <2>2, Zenon DEF PowerLoss, DiskType, call, PCs
<1>3. CASE StartFlash \/ VerifyTmp \/ SwapCached
  <2>1. Table \in Piece BY ReadTableFacts, Zenon
  <2>2. Other(cache) \in Piece \/ ~SwapCached
    BY Regions, Zenon DEF IndInv, TableInv, DiskType, SwapCached
  <2> QED BY <1>3, <2>1, <2>2, Zenon DEF StartFlash, VerifyTmp, SwapCached, DiskType, disk, call, PCs
<1>4. CASE FlashTmp
  <2>1. content' \in [Region -> Images \union {Partial, Empty}]
    BY <1>4, Zenon DEF FlashTmp, DiskType
  <2>2. cache' \in Piece /\ pc' \in PCs /\ answer' \in {None, "okay", "fail"}
    BY <1>4, Regions, Zenon DEF FlashTmp, DiskType, Reply, PCs
  <2>3. damages' \in 0 .. MaxDamages
    BY <1>4, Zenon DEF FlashTmp
  <2> QED BY <1>4, <2>1, <2>2, <2>3, Zenon DEF FlashTmp, DiskType, call
<1>5. CASE EraseTmp
  <2>1. content' \in [Region -> Images \union {Partial, Empty}]
    BY <1>5, Zenon DEF EraseTmp, DiskType
  <2>2. cache' \in Piece /\ pc' \in PCs /\ answer' \in {None, "okay", "fail"}
    BY <1>5, ReadTableFacts, Zenon DEF EraseTmp, Reply, PCs
  <2>3. damages' \in 0 .. MaxDamages
    BY <1>5, Zenon DEF EraseTmp
  <2> QED BY <1>5, <2>1, <2>2, <2>3, Zenon DEF EraseTmp, DiskType, call
<1>6. CASE WritePrimary \/ WriteBackup
  <2>1. /\ pc' \in PCs /\ ret' \in BOOLEAN /\ damages' \in 0 .. MaxDamages
    BY <1>6, Zenon DEF WritePrimary, WriteBackup, WritePiece, DiskType, PCs
  <2>2. primary' \in [hdr : Piece, ent : Piece] /\ backup' \in [hdr : Piece, ent : Piece]
    BY <1>6 DEF WritePrimary, WriteBackup, DiskType
  <2> QED BY <1>6, <2>1, <2>2, Zenon DEF WritePrimary, WriteBackup, DiskType
<1>7. CASE WriteMbr
  BY <1>7, Regions, ZenonT(60) DEF WriteMbr, DiskType, disk, PCs
<1>8. CASE RegisterOption \/ InstallOrder
  <2>1. Table \in Piece BY ReadTableFacts, Zenon
  <2>2. cache' \in Piece /\ pc' \in PCs /\ ret' \in BOOLEAN
    BY <1>8, <2>1, Zenon DEF RegisterOption, InstallOrder, DiskType, PCs
  <2>3. damages' \in 0 .. MaxDamages
    BY <1>8, Zenon DEF RegisterOption, InstallOrder
  <2> QED BY <1>8, <2>2, <2>3, Zenon DEF RegisterOption, InstallOrder, DiskType, disk
<1> QED BY <1>1, <1>2, <1>3, <1>4, <1>5, <1>6, <1>7, <1>8, Zenon DEF Next

\* While the device is off little is asked of the disk: a table to read, and a
\* bootloader that loads in the region it names.
LEMMA OffInv ==
  ASSUME DiskType', pc' = "off", damages' # 0, ReadTable' # Torn, content'[ReadTable'] \in Loads
  PROVE  IndInv'
<1>1. TableInv' BY Zenon DEF TableInv
<1>2. ContentInv' BY Zenon DEF ContentInv
<1> QED BY <1>1, <1>2, Zenon DEF IndInv

\* The table after a power loss is the old or the new one, and both regions hold
\* a bootloader that loads while that is undecided.
LEMMA PowerLossStep ==
  ASSUME FaultModel, IndInv, DiskType', PowerLoss
  PROVE  /\ IndInv'
         /\ content'[ReadTable'] \in {Installed} \union ({image} \intersect Loads)
         /\ pc \in {"off", "idle", "dead"} => content'[ReadTable'] = Installed
<1>t. DiskType /\ TableInv /\ ContentInv BY Zenon DEF IndInv
<1>0. damages = 0 /\ damages' = 1
  BY <1>t, FaultFacts, Zenon DEF PowerLoss
<1>d. damages' # 0 BY <1>0
<1>o. pc' = "off" BY Zenon DEF PowerLoss
<1>1. PICK h1 \in Cut("hdr", "hdr1", primary), e1 \in Cut("ent", "ent1", primary) :
        primary' = [hdr |-> h1, ent |-> e1]
  BY Zenon DEF PowerLoss
<1>2. PICK h2 \in Cut("hdr", "hdr2", backup), e2 \in Cut("ent", "ent2", backup) :
        backup' = [hdr |-> h2, ent |-> e2]
  BY Zenon DEF PowerLoss
<1>3. \A r \in Region : content'[r] \in CutContent(r)
  BY Zenon DEF PowerLoss, Region
<1>c. pc \notin {"flash", "exit"} => \A r \in Region : content'[r] = content[r]
  BY <1>3, ZenonT(60) DEF CutContent
<1>4. CASE pc \notin {"hdr1", "ent1", "hdr2", "ent2"}
  <2>1. primary' = primary /\ backup' = backup
    BY <1>t, <1>1, <1>2, <1>4, Zenon DEF Cut, DiskType
  <2>2. ReadTable' = ReadTable /\ ReadTable \in Region
    BY <1>t, <1>4, <2>1, ReadTableFacts, Regions, Zenon DEF ReadTable, Valid, TableInv
  <2>3. pc \in {"flash", "exit"} /\ Table # Torn => Table = ReadTable
    BY <1>t, <1>4, ReadTableFacts, Zenon DEF TableInv
  <2>4. CutContent(ReadTable) = {content[ReadTable]}
    BY <1>t, <2>2, <2>3, ReadTableFacts, Regions, Zenon DEF CutContent, Scratch
  <2>5. content'[ReadTable'] = content[ReadTable] /\ Installed = content[ReadTable]
    BY <1>t, <1>3, <1>4, <2>2, <2>4, Regions, ZenonT(60) DEF Installed, TableInv
  <2>6. content[ReadTable] \in Loads
    BY <1>t, <1>4, Zenon DEF ContentInv
  <2>7. IndInv'
    BY <1>d, <1>o, <2>2, <2>5, <2>6, OffInv, Regions, Zenon
  <2> QED BY <2>5, <2>7, Zenon
<1>5. CASE pc = "hdr1"
  <2>1. primary.hdr = ReadTable /\ Valid(primary) /\ Valid(backup) /\ backup.hdr = ReadTable
        /\ cache = Other(ReadTable) /\ ReadTable \in Region
    BY <1>t, <1>0, <1>5, ReadTableFacts, Regions, Zenon DEF TableInv
  <2>2. e1 = primary.ent /\ backup' = backup
    BY <1>t, <1>2, <1>5, <1>1, Zenon DEF Cut, DiskType
  <2>3. ReadTable' = ReadTable
    BY <1>t, <1>1, <1>5, <2>1, <2>2, Regions, Zenon DEF Cut, ReadTable, Valid
  <2>4. content'[ReadTable'] = content[Other(cache)] /\ Installed = content[Other(cache)]
    BY <1>c, <1>5, <2>1, <2>3, Regions, ZenonT(60) DEF Installed
  <2>5. content[Other(cache)] \in Loads
    BY <1>t, <1>5, Zenon DEF ContentInv
  <2>6. IndInv'
    BY <1>d, <1>o, <2>1, <2>3, <2>4, <2>5, OffInv, Regions, Zenon
  <2> QED BY <2>4, <2>6, Zenon
<1>6. CASE pc = "ent1"
  <2>1. primary.hdr = cache /\ Valid(backup) /\ backup.hdr = Other(cache) /\ cache \in Region
    BY <1>t, <1>0, <1>6, Regions, Zenon DEF TableInv, DiskType
  <2>2. h1 = primary.hdr /\ backup' = backup
    BY <1>t, <1>2, <1>6, <1>1, Zenon DEF Cut, DiskType
  <2>3. ReadTable' \in {cache, Other(cache)}
    BY <1>t, <1>1, <1>6, <2>1, <2>2, Regions, Zenon DEF ReadTable, Valid
  <2>4. Installed = content[Other(cache)] /\ content[cache] = image /\ image \in Loads
        /\ content[Other(cache)] \in Loads
    BY <1>t, <1>6, <2>1, Regions, Zenon DEF Installed, ContentInv
  <2>5. content'[ReadTable'] \in {content[cache], content[Other(cache)]}
    BY <1>c, <1>6, <2>1, <2>3, Regions, ZenonT(60)
  <2>6. ReadTable' # Torn BY <2>1, <2>3, Regions, Zenon
  <2>7. content'[ReadTable'] \in Loads
    BY <2>4, <2>5, Zenon
  <2>8. IndInv'
    BY <1>d, <1>o, <2>6, <2>7, OffInv, Zenon
  <2>9. pc \notin {"off", "idle", "dead"} BY <1>6, Zenon
  <2> QED BY <2>4, <2>5, <2>8, <2>9, Zenon
<1>7. CASE pc \in {"hdr2", "ent2"}
  <2>1. primary' = primary /\ Valid(primary) /\ primary.hdr = ReadTable /\ ReadTable \in Region
    BY <1>t, <1>1, <1>7, ReadTableFacts, Regions, Zenon DEF Cut, DiskType, TableInv
  <2>2. ReadTable' = ReadTable
    BY <2>1, Zenon DEF ReadTable, Valid
  <2>3. content'[ReadTable'] = content[ReadTable] /\ Installed = content[ReadTable]
    BY <1>c, <1>7, <2>1, <2>2, Regions, Zenon DEF Installed
  <2>4. content[ReadTable] \in Loads
    BY <1>t, <1>7, Zenon DEF ContentInv
  <2>5. IndInv'
    BY <1>d, <1>o, <2>1, <2>2, <2>3, <2>4, OffInv, Regions, Zenon
  <2> QED BY <2>3, <2>5, Zenon
<1> QED BY <1>4, <1>5, <1>6, <1>7, Zenon

-----------------------------------------------------------------------------
(* Every step preserves the invariant and is a step of SafeFlash, or none. *)

Request == IF pc \in {"off", "idle", "dead"} THEN None ELSE image
Answer == IF pc = "off" THEN None ELSE answer

AbstractStutter == Installed' = Installed /\ Request' = Request /\ Answer' = Answer
AbstractStep == Abstract!Next \/ AbstractStutter

LEMMA InstalledFacts ==
  ASSUME IndInv
  PROVE  /\ pc \notin {"hdr1", "ent1"} => Installed = content[ReadTable]
         /\ pc \in {"hdr1", "ent1"} => Installed = content[Other(cache)]
         /\ Installed \in Loads
BY ReadTableFacts, Regions, Zenon DEF Installed, IndInv, TableInv, ContentInv, DiskType

\* Boot, Reboot and PowerLoss.
LEMMA PowerSteps ==
  ASSUME FaultModel, IndInv, DiskType', Boot \/ Reboot \/ PowerLoss
  PROVE  IndInv' /\ AbstractStep
<1>1. CASE Boot
  <2>1. pc = "off" /\ pc' = "idle" /\ cache' = Torn /\ answer' = None /\ UNCHANGED disk
        /\ damages' = damages
    BY <1>1, Zenon DEF Boot, IndInv, TableInv, ContentInv
  <2>2. IndInv' BY <2>1, QuietStep, Zenon
  <2>3. Installed' = Installed
    BY <2>1, <2>2, InstalledFacts, Zenon DEF Installed, disk, ReadTable, Valid
  <2> QED BY <2>1, <2>2, <2>3, Zenon DEF AbstractStep, AbstractStutter, Request, Answer
<1>2. CASE Reboot
  <2>1. pc = "idle" /\ pc' = "off" /\ UNCHANGED disk /\ damages' = damages
    BY <1>2, Zenon DEF Reboot
  <2>2. IndInv' BY <2>1, QuietStep, Zenon
  <2>3. Installed' = Installed
    BY <2>1, Zenon DEF Installed, disk, ReadTable, Valid
  <2>4. Abstract!Interrupted
    BY <2>1, <2>3, Zenon DEF Abstract!Interrupted
  <2> QED BY <2>2, <2>4, Zenon DEF AbstractStep, Abstract!Next
<1>3. CASE PowerLoss
  <2>1. pc' = "off" BY <1>3, Zenon DEF PowerLoss
  <2>2. IndInv' BY <1>3, PowerLossStep, Zenon
  <2>3. Installed' = content'[ReadTable']
    BY <2>1, <2>2, Zenon DEF Installed, IndInv, TableInv
  <2>4. Abstract!Interrupted
    BY <1>3, <2>1, <2>3, PowerLossStep, Zenon DEF Abstract!Interrupted
  <2> QED BY <2>2, <2>4, Zenon DEF AbstractStep, Abstract!Next
<1> QED BY <1>1, <1>2, <1>3, Zenon

\* Up to the swap.
LEMMA FlashSteps ==
  ASSUME FaultModel, IndInv, DiskType', StartFlash \/ FlashTmp \/ VerifyTmp \/ SwapCached
  PROVE  IndInv' /\ AbstractStep
<1>t. DiskType /\ TableInv /\ ContentInv BY Zenon DEF IndInv
<1>1. CASE StartFlash
  <2>1. pc = "idle" /\ pc' = "flash" /\ cache' = Table /\ answer' = None /\ UNCHANGED disk
        /\ damages' = damages
    BY <1>1, Zenon DEF StartFlash
  <2>2. IndInv' BY <2>1, QuietStep, Zenon
  <2>3. Installed' = Installed
    BY <2>1, Zenon DEF Installed, disk, ReadTable, Valid
  <2>4. Abstract!Start
    BY <1>1, <2>1, <2>3, Zenon DEF Abstract!Start, StartFlash
  <2> QED BY <2>2, <2>4, Zenon DEF AbstractStep, Abstract!Next
<1>2. CASE FlashTmp
  <2>1. primary' = primary /\ backup' = backup /\ damages' = damages /\ pc = "flash"
        /\ image' = image
    BY <1>t, <1>2, FaultFacts, Zenon DEF FlashTmp, call
  <2>2. ReadTable' = ReadTable /\ ReadTable \in Region
    BY <1>t, <2>1, ReadTableFacts, Regions, Zenon DEF ReadTable, Valid, TableInv
  <2>3. cache # Torn => cache = ReadTable /\ Scratch(cache) = Other(ReadTable)
    BY <1>t, <2>1, Zenon DEF TableInv, Scratch
  <2>4. content'[ReadTable] = content[ReadTable]
    BY <1>t, <1>2, <2>2, <2>3, Regions, Zenon DEF FlashTmp, DiskType
  <2>5. \/ pc' = "idle" /\ answer' = "fail" /\ cache' = cache
        \/ pc' = "verify" /\ cache' = Torn /\ answer' = answer /\ content'[Other(ReadTable)] = image
    BY <1>t, <1>2, <2>2, <2>3, Regions, Zenon DEF FlashTmp, Reply, DiskType
  <2>6. TableInv'
    BY <1>t, <2>1, <2>2, <2>5, Zenon DEF TableInv, Valid
  <2>7. ContentInv'
    BY <1>t, <2>1, <2>2, <2>4, <2>5, Zenon DEF ContentInv
  <2>8. Installed' = Installed
    BY <2>1, <2>2, <2>4, <2>5, Regions, Zenon DEF Installed
  <2>9. pc' = "idle" => Abstract!Fail
    BY <2>5, <2>8, Zenon DEF Abstract!Fail
  <2>10. pc' = "verify" => AbstractStutter
    BY <2>1, <2>5, <2>8, Zenon DEF AbstractStutter, Request, Answer
  <2> QED BY <2>5, <2>6, <2>7, <2>9, <2>10, Zenon DEF IndInv, AbstractStep, Abstract!Next
<1>3. CASE VerifyTmp
  <2>1. UNCHANGED <<disk, image, answer, damages>> /\ pc = "verify" /\ cache' = Table
    BY <1>3, Zenon DEF VerifyTmp
  <2>2. ReadTable' = ReadTable /\ ReadTable \in Region /\ Table = ReadTable
    BY <1>t, <2>1, ReadTableFacts, Regions, Zenon DEF ReadTable, Valid, TableInv, disk
  <2>3. \/ pc' = "swap" /\ image \in Loads
        \/ pc' = "exit" /\ ret' = FALSE
    BY <1>t, <1>3, <2>1, <2>2, Zenon DEF VerifyTmp, ContentInv
  <2>4. TableInv'
    BY <1>t, <2>1, <2>2, <2>3, Regions, Zenon DEF TableInv, Valid, disk
  <2>5. ContentInv'
    BY <1>t, <2>1, <2>2, <2>3, Zenon DEF ContentInv, disk
  <2>6. AbstractStutter
    BY <2>1, <2>2, <2>3, Zenon DEF AbstractStutter, Installed, Request, Answer, disk
  <2> QED BY <2>4, <2>5, <2>6, Zenon DEF IndInv, AbstractStep
<1>4. CASE SwapCached
  <2>1. UNCHANGED <<disk, image, answer, damages>> /\ pc = "swap" /\ cache' = Other(cache)
        /\ pc' = "hdr1"
    BY <1>4, Zenon DEF SwapCached, call
  <2>2. ReadTable' = ReadTable /\ ReadTable \in Region /\ cache = ReadTable
    BY <1>t, <2>1, ReadTableFacts, Regions, Zenon DEF ReadTable, Valid, TableInv, disk
  <2>3. TableInv'
    BY <1>t, <2>1, <2>2, Regions, Zenon DEF TableInv, Valid, disk
  <2>4. ContentInv'
    BY <1>t, <2>1, <2>2, Regions, Zenon DEF ContentInv, disk
  <2>5. AbstractStutter
    BY <2>1, <2>2, Regions, Zenon DEF AbstractStutter, Installed, Request, Answer, disk
  <2> QED BY <2>3, <2>4, <2>5, Zenon DEF IndInv, AbstractStep
<1> QED BY <1>1, <1>2, <1>3, <1>4, Zenon

\* Writing the tables.
LEMMA TableSteps ==
  ASSUME FaultModel, IndInv, DiskType', WritePrimary \/ WriteBackup \/ WriteMbr
  PROVE  IndInv' /\ AbstractStep
<1>t. DiskType /\ TableInv /\ ContentInv BY Zenon DEF IndInv
<1>1. CASE WritePrimary /\ pc = "hdr1"
  <2>1. /\ primary' = [hdr |-> cache, ent |-> primary.ent] /\ pc' = "ent1"
        /\ damages' = damages
    BY <1>1, <1>t, FaultFacts, Zenon DEF WritePrimary, WritePiece
  <2>2. UNCHANGED <<content, backup, cache, image, answer>>
    BY <1>1, Zenon DEF WritePrimary
  <2>3. TableInv'
    BY <1>t, <1>1, <2>1, <2>2, ReadTableFacts, Regions, Zenon DEF TableInv, Valid
  <2>4. ContentInv'
    BY <1>t, <1>1, <2>1, <2>2, Zenon DEF ContentInv
  <2>5. AbstractStutter
    BY <1>1, <2>1, <2>2, Zenon DEF AbstractStutter, Installed, Request, Answer
  <2> QED BY <2>3, <2>4, <2>5, Zenon DEF IndInv, AbstractStep
<1>2. CASE WritePrimary /\ pc = "ent1"
  <2>1. /\ primary' = [hdr |-> primary.hdr, ent |-> cache] /\ pc' = "hdr2"
        /\ damages' = damages
    BY <1>2, <1>t, FaultFacts, Zenon DEF WritePrimary, WritePiece
  <2>2. UNCHANGED <<content, backup, cache, image, answer>>
    BY <1>2, Zenon DEF WritePrimary
  <2>3. ReadTable' = cache /\ Valid(primary)' /\ primary'.hdr = cache
    BY <1>t, <1>2, <2>1, Zenon DEF TableInv, ReadTable, Valid
  <2>4. TableInv'
    BY <1>t, <1>2, <2>1, <2>2, <2>3, Zenon DEF TableInv, Valid
  <2>5. ContentInv'
    BY <1>t, <1>2, <2>1, <2>2, <2>3, Zenon DEF ContentInv
  <2>6. Installed' = image /\ image \in Loads
    BY <1>t, <1>2, <2>1, <2>2, <2>3, Zenon DEF Installed, ContentInv, TableInv
  <2>7. Abstract!Install
    BY <1>2, <2>1, <2>2, <2>6, Zenon DEF Abstract!Install
  <2> QED BY <2>4, <2>5, <2>7, Zenon DEF IndInv, AbstractStep, Abstract!Next
<1>3. CASE WriteBackup
  <2>1. UNCHANGED <<content, primary, cache, image, answer>> /\ pc \in {"hdr2", "ent2"}
    BY <1>3, Zenon DEF WriteBackup
  <2>2. ReadTable' = cache /\ ReadTable = cache /\ Valid(primary)' /\ cache # Torn
    BY <1>t, <2>1, Zenon DEF TableInv, ReadTable, Valid
  <2>3. \/ /\ damages' = damages
           /\ \/ pc = "hdr2" /\ pc' = "ent2" /\ backup' = [hdr |-> cache, ent |-> backup.ent]
              \/ pc = "ent2" /\ pc' = "mbr" /\ backup' = [hdr |-> backup.hdr, ent |-> cache]
        \/ damages' = 1 /\ pc' = "register"
    BY <1>3, <1>t, FaultFacts, Zenon DEF WriteBackup, WritePiece
  <2>4. pc = "ent2" => backup.hdr = cache
    BY <1>t, Zenon DEF TableInv
  <2>5. TableInv'
    BY <1>t, <2>1, <2>2, <2>3, <2>4, SMTT(30) DEF TableInv, Valid
  <2>6. ContentInv'
    BY <1>t, <2>1, <2>2, <2>3, Zenon DEF ContentInv
  <2>7. AbstractStutter
    BY <2>1, <2>2, <2>3, Zenon DEF AbstractStutter, Installed, Request, Answer
  <2> QED BY <2>5, <2>6, <2>7, Zenon DEF IndInv, AbstractStep
<1>4. CASE WriteMbr
  <2>1. UNCHANGED <<disk, image, answer>> /\ pc = "mbr" /\ pc' = "register"
        /\ cache' \in {cache, Torn} /\ (damages' = 0 => damages = 0)
    BY <1>4, <1>t, FaultFacts, Zenon DEF WriteMbr
  <2>2. ReadTable' = ReadTable /\ cache = ReadTable
    BY <1>t, <2>1, Zenon DEF TableInv, ReadTable, Valid, disk
  <2>3. TableInv'
    BY <1>t, <2>1, <2>2, Zenon DEF TableInv, Valid, disk
  <2>4. ContentInv'
    BY <1>t, <2>1, <2>2, Zenon DEF ContentInv, disk
  <2>5. AbstractStutter
    BY <2>1, <2>2, Zenon DEF AbstractStutter, Installed, Request, Answer, disk
  <2> QED BY <2>3, <2>4, <2>5, Zenon DEF IndInv, AbstractStep
<1> QED BY <1>1, <1>2, <1>3, <1>4, Zenon DEF WritePrimary

\* Registering the load options and erasing the temporary partition.
LEMMA LastSteps ==
  ASSUME FaultModel, IndInv, DiskType', RegisterOption \/ InstallOrder \/ EraseTmp
  PROVE  IndInv' /\ AbstractStep
<1>t. DiskType /\ TableInv /\ ContentInv BY Zenon DEF IndInv
<1>1. CASE RegisterOption \/ InstallOrder
  <2>1. /\ UNCHANGED <<disk, image, answer>> /\ damages' = damages
        /\ pc = "register" /\ pc' \in {"register", "exit"} /\ cache' \in {cache, Table}
    BY <1>1, <1>t, FaultFacts, Zenon DEF RegisterOption, InstallOrder
  <2>2. ReadTable' = ReadTable /\ (cache' # Torn => cache' = ReadTable)
    BY <1>t, <2>1, ReadTableFacts, Zenon DEF TableInv, ReadTable, Valid, disk
  <2>3. TableInv'
    BY <1>t, <2>1, <2>2, Zenon DEF TableInv, Valid, disk
  <2>4. ContentInv'
    BY <1>t, <2>1, <2>2, Zenon DEF ContentInv, disk
  <2>5. AbstractStutter
    BY <2>1, <2>2, Zenon DEF AbstractStutter, Installed, Request, Answer, disk
  <2> QED BY <2>3, <2>4, <2>5, Zenon DEF IndInv, AbstractStep
<1>2. CASE EraseTmp
  <2>1. /\ primary' = primary /\ backup' = backup /\ damages' = damages
        /\ pc = "exit" /\ pc' = "idle" /\ cache' = Table /\ image' = image
    BY <1>t, <1>2, FaultFacts, Zenon DEF EraseTmp, Reply, call
  <2>2. ReadTable' = ReadTable /\ ReadTable \in Region /\ Table = ReadTable
    BY <1>t, <2>1, ReadTableFacts, Regions, Zenon DEF ReadTable, Valid, TableInv
  <2>3. content'[ReadTable] = content[ReadTable]
    BY <1>t, <1>2, <2>2, Regions, ZenonT(60) DEF EraseTmp, DiskType
  <2>4. TableInv'
    BY <1>t, <2>1, <2>2, Zenon DEF TableInv, Valid
  <2>5. ContentInv'
    BY <1>t, <2>1, <2>2, <2>3, Zenon DEF ContentInv
  <2>6. Installed' = Installed /\ Installed = content[ReadTable]
    BY <2>1, <2>2, <2>3, Regions, Zenon DEF Installed
  <2>7. answer' \in {"okay", "fail"} /\ (answer' = "okay" => ret)
    BY <1>2, Zenon DEF EraseTmp, Reply
  <2>8. answer' = "fail" => Abstract!Fail
    BY <2>1, <2>6, Zenon DEF Abstract!Fail
  <2>9. answer' = "okay" => Abstract!Okay
    BY <1>t, <2>1, <2>6, <2>7, FlashAssumption, Zenon DEF Abstract!Okay, ContentInv, DiskType
  <2> QED BY <2>4, <2>5, <2>7, <2>8, <2>9, Zenon DEF IndInv, AbstractStep, Abstract!Next
<1> QED BY <1>1, <1>2, Zenon

LEMMA Step ==
  ASSUME FaultModel, IndInv, [Next]_vars
  PROVE  IndInv' /\ [Abstract!Next]_(Abstract!vars)
<1>1. CASE UNCHANGED vars
  <2>1. IndInv'
    BY <1>1 DEF vars, disk, call, IndInv, DiskType, TableInv, ContentInv, ReadTable, Valid
  <2>2. UNCHANGED Abstract!vars
    BY <1>1, Zenon DEF vars, disk, call, Abstract!vars, Installed, ReadTable, Valid
  <2> QED BY <2>1, <2>2, Zenon
<1>2. CASE Next
  <2>1. DiskType' BY <1>2, TypeStep, Zenon
  <2>2. IndInv' /\ AbstractStep
    BY <1>2, <2>1, PowerSteps, FlashSteps, TableSteps, LastSteps, Zenon DEF Next
  <2> QED BY <2>2, Zenon DEF AbstractStep, AbstractStutter, Abstract!vars, Request, Answer
<1> QED BY <1>1, <1>2, Zenon

-----------------------------------------------------------------------------
(* Theorems *)

\* No device is left without a bootloader.
THEOREM DeviceNeverBricked == ASSUME FaultModel PROVE Spec => []NeverBricked
<1>1. IndInv /\ [Next]_vars => IndInv' BY Step, Zenon
<1>2. IndInv => NeverBricked BY Zenon DEF IndInv, ContentInv, NeverBricked
<1> QED BY <1>1, <1>2, Start, PTL DEF Spec

\* Flashing the bootloader implements the atomic replacement of SafeFlash.
THEOREM FlashingIsSafe == ASSUME FaultModel PROVE Spec => FlashIsSafe
<1>1. Init => Abstract!Init
  BY FlashAssumption DEF Init, Abstract!Init, Installed, ReadTable, Valid, Torn, Region
<1>2. IndInv /\ [Next]_vars => IndInv' /\ [Abstract!Next]_(Abstract!vars)
  BY Step, Zenon
<1> QED BY <1>1, <1>2, Start, PTL DEF Spec, FlashIsSafe, Abstract!Spec

-----------------------------------------------------------------------------
(* BootOrder *)

\* Induction on the naturals, for a set that holds 0 and every successor.
Below == {p \in Nat \X Nat : p[1] < p[2]}

LEMMA SetInduction ==
  ASSUME NEW S, 0 \in S, \A n \in Nat : n \in S => n + 1 \in S
  PROVE  Nat \subseteq S
<1> SUFFICES ASSUME Nat \ S # {} PROVE FALSE
  BY Zenon
<1>1. IsWellFoundedOn(Below, Nat)
  BY NatLessThanWellFounded, Zenon DEF OpToRel, Below
<1>2. PICK x \in Nat \ S : \A y \in Nat \ S : ~(<<y, x>> \in Below)
  BY <1>1, WFMin, Zenon
<1>3. x # 0 /\ x - 1 \in Nat
  OBVIOUS
<1>4. <<x - 1, x>> \in Below
  BY <1>3 DEF Below
<1>5. x - 1 \in S
  BY <1>2, <1>3, <1>4, Zenon
<1> QED BY <1>3, <1>5

\* The recursive definition of Kept defines a function.
KeptStep(f, n) ==
  IF n = 0 THEN <<>>
  ELSE IF InEntries(order[n]) THEN f[n - 1] ELSE Append(f[n - 1], order[n])

LEMMA KeptExists ==
  ASSUME NEW k \in Nat
  PROVE  \E f : f = [n \in 0 .. k |-> KeptStep(f, n)]
<1> DEFINE S == {j \in Nat : \E f : f = [n \in 0 .. j |-> KeptStep(f, n)]}
<1>1. 0 \in S
  <2> DEFINE f == [n \in 0 .. 0 |-> <<>>]
  <2>1. f = [n \in 0 .. 0 |-> KeptStep(f, n)]
    BY DEF KeptStep
  <2> QED BY <2>1, Zenon
<1>2. ASSUME NEW j \in Nat, j \in S PROVE j + 1 \in S
  <2>1. PICK f : f = [n \in 0 .. j |-> KeptStep(f, n)]
    BY <1>2, Zenon
  <2> DEFINE g == [n \in 0 .. j + 1 |-> IF n <= j THEN f[n] ELSE KeptStep(f, n)]
  <2>2. \A n \in 0 .. j + 1 : n # 0 => n - 1 \in 0 .. j /\ g[n - 1] = f[n - 1]
    OBVIOUS
  <2>3. \A n \in 0 .. j + 1 : KeptStep(g, n) = KeptStep(f, n)
    BY <2>2 DEF KeptStep
  <2>4. \A n \in 0 .. j + 1 : g[n] = KeptStep(f, n)
    BY <2>1
  <2> HIDE DEF g
  <2>5. g = [n \in 0 .. j + 1 |-> g[n]]
    BY Zenon DEF g
  <2>6. g = [n \in 0 .. j + 1 |-> KeptStep(g, n)]
    BY <2>3, <2>4, <2>5, Zenon
  <2> QED BY <2>6
<1> HIDE DEF S
<1>3. Nat \subseteq S
  BY <1>1, <1>2, SetInduction, Zenon
<1> QED BY <1>3, Zenon DEF S

LEMMA KeptIs ==
  ASSUME order \in Seq(Uninitialized)
  PROVE  \A n \in 0 .. Len(order) : Kept[n] = KeptStep(Kept, n)
<1>1. \E f : f = [n \in 0 .. Len(order) |-> KeptStep(f, n)]
  BY KeptExists
<1>2. Kept = CHOOSE f : f = [n \in 0 .. Len(order) |-> KeptStep(f, n)]
  BY Zenon DEF Kept, KeptStep
<1>3. Kept = [n \in 0 .. Len(order) |-> KeptStep(Kept, n)]
  BY <1>1, <1>2, Zenon
<1> HIDE DEF Kept
<1> QED BY <1>3, Zenon

Distinct(q) == \A i, j \in 1 .. Len(q) : i # j => q[i] # q[j]

\* The places among the first n of BootOrder that hold an entry just registered.
Dropped(n) == {k \in 1 .. n : InEntries(order[k])}

LEMMA DroppedFacts ==
  ASSUME NEW n \in Nat
  PROVE  /\ IsFiniteSet(Dropped(n)) /\ Cardinality(Dropped(n)) \in Nat
         /\ Cardinality(Dropped(0)) = 0
         /\ Cardinality(Dropped(n + 1)) =
              Cardinality(Dropped(n)) + (IF InEntries(order[n + 1]) THEN 1 ELSE 0)
<1>1. IsFiniteSet(1 .. n) /\ Dropped(n) \subseteq 1 .. n
  BY FS_Interval DEF Dropped
<1>2. IsFiniteSet(Dropped(n))
  BY <1>1, FS_Subset, Zenon
<1>3. Cardinality(Dropped(n)) \in Nat
  BY <1>2, FS_CardinalityType, Zenon
<1>4. Cardinality(Dropped(0)) = 0
  <2>1. 1 .. 0 = {}
    OBVIOUS
  <2>2. Dropped(0) = {}
    BY <2>1, Zenon DEF Dropped
  <2> QED BY <2>2, FS_EmptySet, Zenon
<1>5. n + 1 \notin Dropped(n) /\ 1 .. n + 1 = (1 .. n) \union {n + 1}
  BY DEF Dropped
<1>6. CASE InEntries(order[n + 1])
  <2>1. Dropped(n + 1) = Dropped(n) \union {n + 1}
    BY <1>5, <1>6, Zenon DEF Dropped
  <2>2. Cardinality(Dropped(n + 1)) = Cardinality(Dropped(n)) + 1
    BY <1>2, <1>5, <2>1, FS_AddElement, Zenon
  <2> QED BY <1>2, <1>3, <1>4, <1>6, <2>2, Zenon
<1>7. CASE ~InEntries(order[n + 1])
  <2>1. Dropped(n + 1) = Dropped(n)
    BY <1>5, <1>7, Zenon DEF Dropped
  <2>2. Cardinality(Dropped(n)) = Cardinality(Dropped(n)) + 0
    BY <1>3
  <2> QED BY <1>2, <1>3, <1>4, <1>7, <2>1, <2>2, Zenon
<1> QED BY <1>6, <1>7, Zenon

\* What the first n entries of BootOrder become.
KeptGood(n) ==
  /\ Kept[n] \in Seq(Uninitialized) /\ (Distinct(order) => Distinct(Kept[n]))
  /\ Len(Kept[n]) + Cardinality(Dropped(n)) = n
  /\ \A i \in 1 .. Len(Kept[n]) :
       ~InEntries(Kept[n][i]) /\ \E j \in 1 .. n : Kept[n][i] = order[j]

LEMMA KeptFacts ==
  ASSUME order \in Seq(Uninitialized)
  PROVE  KeptGood(Len(order))
<1> DEFINE S == {n \in Nat : n <= Len(order) => KeptGood(n)}
<1>0. Len(order) \in Nat
  OBVIOUS
<1>1. 0 \in S
  <2>1. Kept[0] = <<>>
    BY <1>0, KeptIs DEF KeptStep
  <2>2. <<>> \in Seq(Uninitialized) /\ 1 .. Len(<<>>) = {} /\ Len(<<>>) + 0 = 0
    OBVIOUS
  <2>3. Cardinality(Dropped(0)) = 0
    BY DroppedFacts
  <2>4. KeptGood(0)
    BY <2>1, <2>2, <2>3, Zenon DEF KeptGood, Distinct
  <2> QED BY <2>4, Zenon
<1>2. ASSUME NEW n \in Nat, n \in S PROVE n + 1 \in S
  <2> SUFFICES ASSUME n + 1 <= Len(order) PROVE KeptGood(n + 1)
    OBVIOUS
  <2> DEFINE old == Kept[n]
             new == Kept[n + 1]
             e == order[n + 1]
             was == Cardinality(Dropped(n))
             is == Cardinality(Dropped(n + 1))
  <2>1. n + 1 \in 1 .. Len(order) /\ n + 1 \in 0 .. Len(order) /\ (n + 1) - 1 = n
        /\ n + 1 # 0
    BY <1>0
  <2>2. new = IF InEntries(e) THEN old ELSE Append(old, e)
    BY <2>1, KeptIs, Zenon DEF KeptStep
  <2>3. /\ old \in Seq(Uninitialized) /\ (Distinct(order) => Distinct(old)) /\ e \in Uninitialized
        /\ Len(old) + was = n
        /\ \A i \in 1 .. Len(old) : ~InEntries(old[i]) /\ \E j \in 1 .. n : old[i] = order[j]
    <3>1. KeptGood(n)
      BY <1>0, <1>2, <2>1
    <3>2. e \in Uninitialized
      BY <2>1
    <3> QED BY <3>1, <3>2, Zenon DEF KeptGood
  <2>4. Distinct(order) => \A i \in 1 .. Len(old) : old[i] # e
    BY <1>0, <2>1, <2>3 DEF Distinct
  <2>c. was \in Nat /\ is = was + (IF InEntries(e) THEN 1 ELSE 0)
    BY DroppedFacts, Zenon
  <2> HIDE DEF old, new, e, was, is
  <2>5. CASE InEntries(e)
    <3>1. new = old /\ is = was + 1
      BY <2>2, <2>5, <2>c, Zenon
    <3>2. \A i \in 1 .. Len(new) : ~InEntries(new[i]) /\ \E j \in 1 .. n + 1 : new[i] = order[j]
      BY <2>3, <3>1
    <3>3. Len(new) + is = n + 1
      BY <2>3, <2>c, <3>1
    <3> QED BY <2>3, <3>1, <3>2, <3>3, Zenon DEF KeptGood, new, is
  <2>6. CASE ~InEntries(e)
    <3>1. new = Append(old, e) /\ is = was + 0
      BY <2>2, <2>6, <2>c, Zenon
    <3>2. /\ new \in Seq(Uninitialized) /\ Len(new) = Len(old) + 1 /\ new[Len(old) + 1] = e
          /\ \A i \in 1 .. Len(old) : new[i] = old[i]
          /\ Len(old) \in Nat
      BY <2>3, <3>1
    <3>3. \A i \in 1 .. Len(new) : i \in 1 .. Len(old) \/ i = Len(old) + 1
      BY <3>2
    <3>4. Distinct(order) => Distinct(new)
      <4> SUFFICES ASSUME Distinct(order),
                          NEW i \in 1 .. Len(new), NEW j \in 1 .. Len(new), i # j
                   PROVE  new[i] # new[j]
        BY Zenon DEF Distinct
      <4>1. Distinct(old) /\ \A k \in 1 .. Len(old) : old[k] # e
        BY <2>3, <2>4, Zenon
      <4> QED BY <3>2, <3>3, <4>1, ZenonT(60) DEF Distinct
    <3>5. ASSUME NEW i \in 1 .. Len(new)
          PROVE  ~InEntries(new[i]) /\ \E j \in 1 .. n + 1 : new[i] = order[j]
      <4>1. CASE i \in 1 .. Len(old)
        BY <2>3, <3>2, <4>1, SMTT(30)
      <4>2. CASE i = Len(old) + 1
        BY <2>6, <3>2, <4>2 DEF e
      <4> QED BY <3>3, <4>1, <4>2, Zenon
    <3>6. Len(new) + is = n + 1
      <4>1. was \in Nat /\ Len(old) + was = n /\ is = was + 0
        BY <2>3, <2>c, <3>1, Zenon
      <4> QED BY <3>2, <4>1
    <3> QED BY <3>2, <3>4, <3>5, <3>6, Zenon DEF KeptGood, new, is
  <2> QED BY <2>5, <2>6, Zenon
<1> HIDE DEF S
<1>3. Nat \subseteq S
  BY <1>1, <1>2, SetInduction, Zenon
<1> QED BY <1>0, <1>3 DEF S

\* The new entries, then the old ones without them: a longer BootOrder than the
\* room for it only if the same entry is in one of them twice.
LEMMA ReorderedFacts ==
  ASSUME order \in Seq(Uninitialized), entries \in Seq(Entry)
  PROVE  /\ Reordered \in Seq(Uninitialized)
         /\ Len(Reordered) + Cardinality(Dropped(Len(order))) = Len(entries) + Len(order)
         /\ Len(entries) <= Len(Reordered)
         /\ \A i \in 1 .. Len(entries) : Reordered[i] = entries[i]
         /\ \A i \in 1 .. Len(Reordered) : \/ \E j \in 1 .. Len(entries) : Reordered[i] = entries[j]
                                          \/ \E j \in 1 .. Len(order) : Reordered[i] = order[j]
         /\ Distinct(order) /\ Distinct(entries) => Distinct(Reordered)
<1> DEFINE K == Kept[Len(order)]
           a == Len(entries)
           b == Len(Kept[Len(order)])
<1>1. /\ K \in Seq(Uninitialized) /\ (Distinct(order) => Distinct(K))
      /\ b + Cardinality(Dropped(Len(order))) = Len(order)
      /\ \A i \in 1 .. Len(K) : ~InEntries(K[i]) /\ \E j \in 1 .. Len(order) : K[i] = order[j]
  BY KeptFacts, Zenon DEF KeptGood
<1>2. Reordered = entries \o K
  BY Zenon DEF Reordered
<1>b. b = Len(K)
  BY Zenon
<1>s. entries \in Seq(Uninitialized)
  <2>1. Entry \subseteq Uninitialized
    BY FlashAssumption DEF Entry, Uninitialized
  <2> QED BY <2>1
<1> HIDE DEF K, b
<1>3. /\ Reordered \in Seq(Uninitialized) /\ Len(Reordered) = a + b /\ a \in Nat /\ b \in Nat
      /\ \A i \in 1 .. a : Reordered[i] = entries[i]
      /\ \A i \in a + 1 .. a + b : Reordered[i] = K[i - a]
  BY <1>1, <1>2, <1>b, <1>s
<1>e. \A i \in 1 .. a : InEntries(entries[i])
  BY Zenon DEF InEntries
<1>c. Len(Reordered) + Cardinality(Dropped(Len(order))) = Len(entries) + Len(order)
  <2>1. Len(order) \in Nat
    OBVIOUS
  <2>2. Cardinality(Dropped(Len(order))) \in Nat
    BY <2>1, DroppedFacts, Zenon
  <2>3. /\ Len(Reordered) = Len(entries) + b /\ Len(entries) \in Nat /\ b \in Nat
        /\ b + Cardinality(Dropped(Len(order))) = Len(order)
    BY <1>1, <1>3, Zenon
  <2> QED BY <2>1, <2>2, <2>3
<1> HIDE DEF a
<1>4. ASSUME NEW i \in 1 .. Len(Reordered)
      PROVE  i \in Int /\ (i \in 1 .. a \/ (i \in a + 1 .. a + b /\ i - a \in 1 .. Len(K)))
  BY <1>3, <1>b
<1>5. ASSUME Distinct(order), Distinct(entries) PROVE Distinct(Reordered)
  <2> SUFFICES ASSUME NEW i \in 1 .. Len(Reordered), NEW j \in 1 .. Len(Reordered), i # j
               PROVE  Reordered[i] # Reordered[j]
    BY Zenon DEF Distinct
  <2>k. Distinct(K)
    BY <1>1, <1>5, Zenon
  <2>0. i \in Int /\ j \in Int
    BY <1>4, Zenon
  <2>1. CASE i \in 1 .. a /\ j \in 1 .. a
    BY <1>3, <1>5, <2>1, Zenon DEF Distinct, a
  <2>2. CASE i \in 1 .. a /\ j \in a + 1 .. a + b /\ j - a \in 1 .. Len(K)
    BY <1>1, <1>3, <1>e, <2>2, ZenonT(60)
  <2>3. CASE j \in 1 .. a /\ i \in a + 1 .. a + b /\ i - a \in 1 .. Len(K)
    BY <1>1, <1>3, <1>e, <2>3, ZenonT(60)
  <2>4. CASE /\ i \in a + 1 .. a + b /\ i - a \in 1 .. Len(K)
             /\ j \in a + 1 .. a + b /\ j - a \in 1 .. Len(K)
    <3>1. i - a # j - a
      BY <1>3, <2>0
    <3>2. Reordered[i] = K[i - a] /\ Reordered[j] = K[j - a]
      BY <1>3, <2>4, Zenon
    <3>3. K[i - a] # K[j - a]
      BY <2>k, <2>4, <3>1, Zenon DEF Distinct
    <3> QED BY <3>2, <3>3, Zenon
  <2> QED BY <1>4, <2>1, <2>2, <2>3, <2>4, Zenon
<1>6. ASSUME NEW i \in 1 .. Len(Reordered)
      PROVE  \/ \E j \in 1 .. a : Reordered[i] = entries[j]
             \/ \E j \in 1 .. Len(order) : Reordered[i] = order[j]
  <2>1. CASE i \in 1 .. a
    BY <1>3, <2>1, Zenon
  <2>2. CASE i \in a + 1 .. a + b /\ i - a \in 1 .. Len(K)
    BY <1>1, <1>3, <2>2, Zenon
  <2> QED BY <1>4, <2>1, <2>2, Zenon
<1>7. a <= Len(Reordered)
  BY <1>3
<1> QED BY <1>3, <1>5, <1>6, <1>7, <1>c, Zenon DEF a

\* The new entries that BootOrder already has, and those it has not.
Present == {i \in 1 .. Len(entries) : InOrder(entries[i])}
Missing == {i \in 1 .. Len(entries) : ~InOrder(entries[i])}

LEMMA SizeFacts ==
  ASSUME order \in Seq(Uninitialized), entries \in Seq(Entry)
  PROVE  /\ IsFiniteSet(Present) /\ Cardinality(Present) \in Nat /\ new_size \in Nat
         /\ new_size + Cardinality(Present) = Len(order) + Len(entries)
<1>1. Len(order) \in Nat /\ Len(entries) \in Nat
  OBVIOUS
<1> DEFINE I == 1 .. Len(entries)
<1>2. IsFiniteSet(I) /\ Cardinality(I) = Len(entries)
  <2>1. 1 \in Int /\ Len(entries) \in Int
    BY <1>1
  <2>2. /\ IsFiniteSet(I)
        /\ Cardinality(I) = IF 1 > Len(entries) THEN 0 ELSE Len(entries) - 1 + 1
    BY <2>1, FS_Interval, Zenon
  <2> HIDE DEF I
  <2> QED BY <1>1, <2>2
<1>3. Present \subseteq I /\ Missing = I \ Present /\ I \intersect Present = Present
  BY Zenon DEF Present, Missing
<1> HIDE DEF I
<1>4. IsFiniteSet(Present) /\ IsFiniteSet(Missing)
      /\ Cardinality(Missing) = Cardinality(I) - Cardinality(Present)
  <2>1. IsFiniteSet(I \ Present) /\ Cardinality(I \ Present) = Cardinality(I) - Cardinality(I \intersect Present)
    BY <1>2, FS_Difference, Zenon
  <2>2. IsFiniteSet(Present)
    BY <1>2, <1>3, FS_Subset, Zenon
  <2> QED BY <1>3, <2>1, <2>2, Zenon
<1>5. Cardinality(Present) \in Nat /\ Cardinality(Missing) \in Nat
  BY <1>4, FS_CardinalityType, Zenon
<1>6. new_size = Len(order) + Cardinality(Missing)
  BY Zenon DEF new_size, Missing
<1> QED BY <1>1, <1>2, <1>4, <1>5, <1>6

\* Without repetitions BootOrder has as many of the new entries as there are new
\* entries that it has, so that the room is exactly what the new order takes.
LEMMA RoomIsExact ==
  ASSUME order \in Seq(Uninitialized), entries \in Seq(Entry), Distinct(order), Distinct(entries)
  PROVE  new_size = Len(Reordered)
<1> DEFINE D == Dropped(Len(order))
           place(i) == CHOOSE k \in 1 .. Len(order) : order[k] = entries[i]
           F == [i \in Present |-> place(i)]
<1>1. \A i \in Present : place(i) \in 1 .. Len(order) /\ order[place(i)] = entries[i]
  BY Zenon DEF Present, InOrder
<1> HIDE DEF place
<1>2. \A i \in Present : i \in 1 .. Len(entries) /\ place(i) \in D
  BY <1>1, Zenon DEF Dropped, InEntries, Present
<1>3. F \in [Present -> D] /\ \A i \in Present : F[i] = place(i)
  BY <1>2, Zenon
<1> HIDE DEF F
<1>4. ASSUME NEW i \in Present, NEW j \in Present, F[i] = F[j] PROVE i = j
  <2>1. entries[i] = entries[j]
    BY <1>1, <1>3, <1>4, Zenon
  <2> QED BY <1>2, <2>1, Zenon DEF Distinct
<1>5. ASSUME NEW k \in D PROVE \E i \in Present : F[i] = k
  <2>1. PICK i \in 1 .. Len(entries) : entries[i] = order[k] /\ k \in 1 .. Len(order)
    BY <1>5, Zenon DEF Dropped, InEntries
  <2>2. i \in Present
    BY <2>1, Zenon DEF Present, InOrder
  <2>3. place(i) = k
    BY <1>1, <2>1, <2>2, Zenon DEF Distinct
  <2> QED BY <1>3, <2>2, <2>3, Zenon
<1>6. ExistsBijection(Present, D)
  <2>1. F \in Bijection(Present, D)
    BY <1>3, <1>4, <1>5, Fun_IsBij, Zenon
  <2> QED BY <2>1, Zenon DEF ExistsBijection
<1>7. Cardinality(D) = Cardinality(Present) /\ Cardinality(Present) \in Nat /\ new_size \in Nat
      /\ new_size + Cardinality(Present) = Len(order) + Len(entries)
  <2>1. IsFiniteSet(Present)
    BY SizeFacts, Zenon
  <2> QED BY <1>6, <2>1, SizeFacts, FS_Bijection, Zenon
<1>8. Len(Reordered) + Cardinality(D) = Len(entries) + Len(order) /\ Reordered \in Seq(Uninitialized)
  BY ReorderedFacts, Zenon
<1> HIDE DEF D
<1>9. Len(Reordered) \in Nat /\ Len(entries) \in Nat /\ Len(order) \in Nat
  BY <1>8
<1> QED BY <1>7, <1>8, <1>9

\* What install_in_boot_order may write.
LEMMA NewOrdersFacts ==
  ASSUME order \in Seq(Uninitialized), entries \in Seq(Entry), NEW q \in NewOrders, ~AtHead
  PROVE  /\ q \in Seq(Uninitialized) /\ Len(q) = new_size
         /\ \A i \in 1 .. new_size : i <= Len(Reordered) => q[i] = Reordered[i]
<1> DEFINE R == Reordered
           m == new_size - Len(R)
<1>1. PICK rest \in [1 .. m -> Uninitialized] : q = SubSeq(R \o rest, 1, new_size)
  BY Zenon DEF NewOrders
<1>2. R \in Seq(Uninitialized) /\ new_size \in Nat
  BY ReorderedFacts, SizeFacts, Zenon
<1> DEFINE n == new_size
<1> HIDE DEF R, n
<1>3. Len(R) \in Nat /\ n \in Nat /\ m = n - Len(R)
  BY <1>2 DEF n
<1> HIDE DEF m
<1>4. rest \in Seq(Uninitialized) /\ Len(rest) = IF m \in Nat THEN m ELSE 0
  <2>1. CASE m \in Nat
    BY <2>1
  <2>2. CASE m \notin Nat
    <3>1. 1 .. m = 1 .. 0
      BY <1>3, <2>2
    <3>2. rest \in [1 .. 0 -> Uninitialized]
      BY <3>1, Zenon
    <3>3. rest \in Seq(Uninitialized) /\ Len(rest) = 0
      BY <3>2
    <3> QED BY <2>2, <3>3, Zenon
  <2> QED BY <2>1, <2>2, Zenon
<1> DEFINE w == R \o rest
<1>5. /\ w \in Seq(Uninitialized) /\ Len(w) = Len(R) + Len(rest)
      /\ \A i \in 1 .. Len(R) : w[i] = R[i]
  <2>1. rest \in Seq(Uninitialized) /\ R \in Seq(Uninitialized)
    BY <1>2, <1>4, Zenon
  <2> QED BY <2>1
<1> HIDE DEF w
<1>6. n <= Len(w)
  BY <1>3, <1>4, <1>5
<1>7. q = SubSeq(w, 1, n)
  BY <1>1, Zenon DEF w, n
<1>8. q \in Seq(Uninitialized) /\ Len(q) = n /\ \A i \in 1 .. n : q[i] = w[i]
  BY <1>3, <1>5, <1>6, <1>7
<1>9. \A i \in 1 .. n : i <= Len(R) => q[i] = R[i]
  BY <1>3, <1>5, <1>8
<1> QED BY <1>8, <1>9, Zenon DEF n, R

-----------------------------------------------------------------------------
(* Types *)

LoadOption == [desc : Descriptions, ok : BOOLEAN]

\* The boot entries, the load options and the count of the other faults.
EntryType ==
  /\ options \in [Entry -> Descriptions] /\ order \in Seq(Uninitialized)
  /\ load_options \in Seq(LoadOption) /\ is_default \in BOOLEAN
  /\ entries \in Seq(Entry)
  /\ errors \in 0 .. MaxErrors

\* A description is what an option of a manifest, or the default, has.
LEMMA ManifestFacts ==
  ASSUME NEW i \in Images
  PROVE  /\ Manifest[i] \in Seq(LoadOption)
         /\ \A k \in 1 .. Len(Manifest[i]) : Manifest[i][k].desc # "none"
<1>1. Manifest[i] \in Seq([desc : STRING \ {"none"}, ok : BOOLEAN])
  BY FlashAssumption, Zenon
<1>2. \A k \in 1 .. Len(Manifest[i]) :
        /\ Manifest[i][k] \in [desc : STRING \ {"none"}, ok : BOOLEAN]
        /\ Manifest[i][k].desc \in Descriptions
  <2> SUFFICES ASSUME NEW k \in 1 .. Len(Manifest[i])
               PROVE  /\ Manifest[i][k] \in [desc : STRING \ {"none"}, ok : BOOLEAN]
                      /\ Manifest[i][k].desc \in Descriptions
    BY Zenon
  <2>1. Manifest[i][k] \in [desc : STRING \ {"none"}, ok : BOOLEAN]
    BY <1>1, ElementOfSeq, Zenon
  <2>2. Manifest[i][k].desc \in {Manifest[i][l].desc : l \in 1 .. Len(Manifest[i])}
    BY Zenon
  <2>3. Manifest[i][k].desc \in Descriptions
    BY <2>2, Zenon DEF Descriptions
  <2> QED BY <2>1, <2>3, Zenon
<1>3. \A k \in 1 .. Len(Manifest[i]) : Manifest[i][k] \in LoadOption /\ Manifest[i][k].desc # "none"
  BY <1>2 DEF LoadOption
<1>4. Manifest[i] \in Seq(LoadOption)
  <2>1. Len(Manifest[i]) \in Nat /\ Manifest[i] = [k \in 1 .. Len(Manifest[i]) |-> Manifest[i][k]]
    BY <1>1
  <2> QED BY <1>3, <2>1
<1> QED BY <1>3, <1>4, Zenon

LEMMA DefaultFacts ==
  /\ DEFAULT_LOAD_OPTIONS \in Seq(LoadOption) /\ Len(DEFAULT_LOAD_OPTIONS) = 1
  /\ DEFAULT_LOAD_OPTIONS[1].desc # "none"
<1>1. "Android-IA" \in Descriptions
  BY Zenon DEF Descriptions
<1> QED BY <1>1 DEF DEFAULT_LOAD_OPTIONS, LoadOption

\* What VerifyTmp does to the load options.
LEMMA VerifyLoads ==
  ASSUME VerifyTmp
  PROVE  \/ UNCHANGED <<load_options, is_default>>
         \/ LET i == content[Other(Table)]
            IN  /\ i \in Loads /\ i \in Images
                /\ load_options' = OptionsRead(i) /\ is_default' = StaysDefault(i)
BY FlashAssumption, Zenon DEF VerifyTmp, static

LEMMA OptionsReadFacts ==
  ASSUME NEW i \in Images, load_options \in Seq(LoadOption),
         \A k \in 1 .. Len(load_options) : load_options[k].desc # "none"
  PROVE  /\ OptionsRead(i) \in Seq(LoadOption)
         /\ \A k \in 1 .. Len(OptionsRead(i)) : OptionsRead(i)[k].desc # "none"
         /\ \A k \in 1 .. Len(OwnOptions(i)) : \E j \in 1 .. Len(OptionsRead(i)) :
              OptionsRead(i)[j].desc = OwnOptions(i)[k].desc
<1>1. CASE i \in Bare
  <2>1. OptionsRead(i) = DEFAULT_LOAD_OPTIONS /\ OwnOptions(i) = DEFAULT_LOAD_OPTIONS
    BY <1>1, Zenon DEF OptionsRead, OwnOptions
  <2>2. \A k \in 1 .. Len(DEFAULT_LOAD_OPTIONS) : DEFAULT_LOAD_OPTIONS[k].desc # "none"
    BY DefaultFacts
  <2> QED BY <2>1, <2>2, DefaultFacts, Zenon
<1>2. CASE i \notin Bare
  <2> DEFINE M == Manifest[i]
             q == OptionsRead(i)
  <2>1. q = load_options \o M /\ OwnOptions(i) = M
    BY <1>2, Zenon DEF OptionsRead, OwnOptions
  <2>2. M \in Seq(LoadOption) /\ \A k \in 1 .. Len(M) : M[k].desc # "none"
    BY ManifestFacts, Zenon
  <2> HIDE DEF M, q
  <2>3. /\ q \in Seq(LoadOption) /\ Len(q) = Len(load_options) + Len(M)
        /\ Len(M) \in Nat /\ Len(load_options) \in Nat
        /\ \A k \in 1 .. Len(load_options) : q[k] = load_options[k]
        /\ \A k \in 1 .. Len(M) : q[k + Len(load_options)] = M[k]
    BY <2>1, <2>2
  <2>4. ASSUME NEW k \in 1 .. Len(q) PROVE q[k].desc # "none"
    <3>1. k \in 1 .. Len(load_options) \/ \E j \in 1 .. Len(M) : k = j + Len(load_options)
      <4>1. CASE k <= Len(load_options)
        BY <2>3, <4>1
      <4>2. CASE k > Len(load_options)
        <5>1. k - Len(load_options) \in 1 .. Len(M) /\ k = (k - Len(load_options)) + Len(load_options)
          BY <2>3, <4>2
        <5> QED BY <5>1, Zenon
      <4> QED BY <2>3, <4>1, <4>2
    <3> QED BY <2>2, <2>3, <3>1, Zenon
  <2>5. ASSUME NEW k \in 1 .. Len(M) PROVE \E j \in 1 .. Len(q) : q[j].desc = M[k].desc
    <3>1. k + Len(load_options) \in 1 .. Len(q)
      BY <2>3
    <3> QED BY <2>3, <3>1, Zenon
  <2> QED BY <2>1, <2>3, <2>4, <2>5, Zenon DEF q
<1> QED BY <1>1, <1>2, Zenon

\* The entries registered so far are those of the first load options.
OrderInv ==
  /\ image \in Images /\ EntryType
  /\ \A k \in 1 .. Len(load_options) : load_options[k].desc # "none"
  /\ pc \in {"flash", "verify", "swap", "hdr1", "ent1", "hdr2", "ent2", "mbr"} => entries = <<>>
  /\ pc = "register" => /\ Len(entries) <= Len(load_options)
                        /\ \A k \in 1 .. Len(entries) : options[entries[k]] = load_options[k].desc

LEMMA RegisterFacts ==
  ASSUME OrderInv, RegisterOption, ~UNCHANGED <<options, entries>>
  PROVE  LET n == Len(entries) + 1
             d == load_options[n].desc
         IN  /\ n \in 1 .. Len(load_options) /\ d \in Descriptions /\ d # "none" /\ pc' = "register"
             /\ \E e \in Entry : /\ options[e] \in {d, "none"}
                                 /\ options' = [options EXCEPT ![e] = d]
                                 /\ entries' = Append(entries, e)
<1> DEFINE n == Len(entries) + 1
           d == load_options[n].desc
<1>1. /\ entries \in Seq(Entry) /\ load_options \in Seq(LoadOption)
      /\ Len(entries) < Len(load_options) /\ pc = "register"
  BY Zenon DEF OrderInv, EntryType, RegisterOption
<1>2. n \in 1 .. Len(load_options)
  BY <1>1
<1>3. d \in Descriptions /\ d # "none"
  <2>1. load_options[n] \in LoadOption
    BY <1>1, <1>2, ElementOfSeq, Zenon
  <2>2. load_options[n].desc \in Descriptions
    BY <2>1 DEF LoadOption
  <2> QED BY <1>2, <2>2, Zenon DEF OrderInv
<1>4. PICK e \in EntriesFor(d) :
        options' = [options EXCEPT ![e] = d] /\ entries' = Append(entries, e) /\ pc' = pc
  BY ZenonT(60) DEF RegisterOption
<1>5. e \in Entry /\ options[e] \in {d, "none"}
  BY Zenon DEF EntriesFor
<1> QED BY <1>1, <1>2, <1>3, <1>4, <1>5, Zenon

LEMMA EntryStep ==
  ASSUME OrderInv, [Next]_vars
  PROVE  EntryType'
<1>t. EntryType /\ image \in Images
  BY Zenon DEF OrderInv
<1>1. errors' \in 0 .. MaxErrors
  <2>1. errors' = errors \/ (errors < MaxErrors /\ errors' = errors + 1)
    BY Zenon DEF Next, Boot, Reboot, PowerLoss, StartFlash, FlashTmp, VerifyTmp, SwapCached,
       WritePrimary, WriteBackup, WriteMbr, WritePiece, RegisterOption, InstallOrder, EraseTmp,
       NoFault, Fault, vars
  <2> QED BY <1>t, <2>1, FlashAssumption DEF EntryType
<1>2. options' \in [Entry -> Descriptions] /\ entries' \in Seq(Entry)
  <2>1. CASE RegisterOption /\ ~UNCHANGED <<options, entries>>
    <3> DEFINE d == load_options[Len(entries) + 1].desc
    <3>1. PICK e \in Entry : /\ options' = [options EXCEPT ![e] = d]
                             /\ entries' = Append(entries, e) /\ d \in Descriptions
      BY <2>1, RegisterFacts, Zenon
    <3>2. options' \in [Entry -> Descriptions]
      BY <1>t, <3>1, Zenon DEF EntryType
    <3>3. entries' \in Seq(Entry)
      <4>1. entries \in Seq(Entry) BY <1>t, Zenon DEF EntryType
      <4> QED BY <3>1, <4>1, AppendProperties, Zenon
    <3> QED BY <3>2, <3>3, Zenon
  <2>2. CASE ~RegisterOption \/ UNCHANGED <<options, entries>>
    <3>1. UNCHANGED options /\ (UNCHANGED entries \/ entries' = <<>>)
      BY <2>2, Zenon DEF Next, Boot, Reboot, PowerLoss, StartFlash, FlashTmp, VerifyTmp, SwapCached,
         WritePrimary, WriteBackup, WriteMbr, InstallOrder, EraseTmp, firmware, call, vars
    <3> QED BY <1>t, <3>1, EmptySeq, Zenon DEF EntryType
  <2> QED BY <2>1, <2>2, Zenon
<1>3. order' \in Seq(Uninitialized)
  <2>1. order' = order \/ (order' \in NewOrders /\ ~AtHead)
    BY Zenon DEF Next, Boot, Reboot, PowerLoss, StartFlash, FlashTmp, VerifyTmp, SwapCached,
       WritePrimary, WriteBackup, WriteMbr, RegisterOption, InstallOrder, EraseTmp, NewOrders,
       firmware, vars
  <2> QED BY <1>t, <2>1, NewOrdersFacts, Zenon DEF EntryType
<1>4. load_options' \in Seq(LoadOption) /\ is_default' \in BOOLEAN
  <2>1. CASE VerifyTmp
    <3>1. \A i : StaysDefault(i) \in BOOLEAN
      BY Zenon DEF StaysDefault
    <3> QED BY <1>t, <2>1, <3>1, VerifyLoads, OptionsReadFacts, Zenon DEF EntryType, OrderInv
  <2>2. CASE ~VerifyTmp
    <3>1. load_options' \in {load_options, <<>>} /\ is_default' \in {is_default, FALSE}
      BY <2>2, Zenon DEF Next, Boot, Reboot, PowerLoss, StartFlash, FlashTmp, SwapCached,
         WritePrimary, WriteBackup, WriteMbr, RegisterOption, InstallOrder, EraseTmp,
         FreeLoadOptions, static, vars
    <3> QED BY <1>t, <3>1, EmptySeq, Zenon DEF EntryType
  <2> QED BY <2>1, <2>2, Zenon
<1> QED BY <1>1, <1>2, <1>3, <1>4, Zenon DEF EntryType

LEMMA OrderStep ==
  ASSUME OrderInv, [Next]_vars
  PROVE  OrderInv'
<1>1. EntryType'
  BY EntryStep, Zenon
<1>t. EntryType /\ image \in Images
  BY Zenon DEF OrderInv
<1>2. image' \in Images
  BY <1>t, Zenon DEF Next, Boot, Reboot, PowerLoss, StartFlash, FlashTmp, VerifyTmp, SwapCached,
     WritePrimary, WriteBackup, WriteMbr, RegisterOption, InstallOrder, EraseTmp, call, vars
<1>3. \A k \in 1 .. Len(load_options') : load_options'[k].desc # "none"
  <2>1. CASE VerifyTmp
    <3>1. load_options \in Seq(LoadOption)
          /\ \A k \in 1 .. Len(load_options) : load_options[k].desc # "none"
      BY <1>t, Zenon DEF EntryType, OrderInv
    <3>2. CASE UNCHANGED load_options
      BY <3>1, <3>2, Zenon
    <3>3. CASE ~UNCHANGED load_options
      <4>1. PICK i \in Images : load_options' = OptionsRead(i)
        BY <2>1, <3>3, VerifyLoads, Zenon
      <4>2. \A k \in 1 .. Len(OptionsRead(i)) : OptionsRead(i)[k].desc # "none"
        BY <3>1, OptionsReadFacts, Zenon
      <4> QED BY <4>1, <4>2, Zenon
    <3> QED BY <3>2, <3>3, Zenon
  <2>2. CASE ~VerifyTmp
    <3>1. load_options' \in {load_options, <<>>}
      BY <2>2, Zenon DEF Next, Boot, Reboot, PowerLoss, StartFlash, FlashTmp, SwapCached,
         WritePrimary, WriteBackup, WriteMbr, RegisterOption, InstallOrder, EraseTmp,
         FreeLoadOptions, static, vars
    <3>2. 1 .. Len(<<>>) = {}
      OBVIOUS
    <3> QED BY <3>1, <3>2, Zenon DEF OrderInv
  <2> QED BY <2>1, <2>2, Zenon
<1> DEFINE Early == {"flash", "verify", "swap", "hdr1", "ent1", "hdr2", "ent2", "mbr"}
           Matching == /\ Len(entries) <= Len(load_options)
                       /\ \A k \in 1 .. Len(entries) : options[entries[k]] = load_options[k].desc
<1>4. (pc \in Early => entries = <<>>)' /\ (pc = "register" => Matching)'
  <2>1. CASE RegisterOption
    <3>0. UNCHANGED load_options /\ pc = "register" /\ pc' \in {"register", "exit"} /\ Matching
      BY <2>1, Zenon DEF RegisterOption, static, OrderInv
    <3>1. CASE UNCHANGED <<options, entries>>
      BY <3>0, <3>1, Zenon
    <3>2. CASE ~UNCHANGED <<options, entries>>
      <4> DEFINE n == Len(entries) + 1
                 d == load_options[n].desc
      <4>1. PICK e \in Entry : /\ options[e] \in {d, "none"} /\ n \in 1 .. Len(load_options)
                               /\ options' = [options EXCEPT ![e] = d]
                               /\ entries' = Append(entries, e) /\ pc' = "register"
        BY <2>1, <3>2, RegisterFacts, Zenon
      <4>2. entries \in Seq(Entry) /\ options \in [Entry -> Descriptions]
            /\ load_options \in Seq(LoadOption)
        BY <1>t, Zenon DEF EntryType
      <4>3. /\ Len(entries') = n /\ entries'[n] = e /\ n <= Len(load_options)
            /\ \A k \in 1 .. Len(entries) : entries'[k] = entries[k] /\ entries[k] \in Entry
            /\ \A k \in 1 .. Len(entries') : k = n \/ k \in 1 .. Len(entries)
            /\ \A k \in 1 .. Len(entries) : k \in 1 .. Len(load_options)
        BY <4>1, <4>2
      <4>4. options'[e] = d /\ \A f \in Entry : f # e => options'[f] = options[f]
        BY <4>1, <4>2, Zenon
      <4>5. ASSUME NEW k \in 1 .. Len(entries')
            PROVE  options'[entries'[k]] = load_options[k].desc
        <5>1. CASE k = n
          BY <4>3, <4>4, <5>1, Zenon
        <5>2. CASE k \in 1 .. Len(entries)
          <6>1. options[entries[k]] = load_options[k].desc /\ load_options[k].desc # "none"
            BY <3>0, <4>3, <5>2, Zenon DEF OrderInv
          <6> QED BY <4>1, <4>3, <4>4, <5>2, <6>1, Zenon
        <5> QED BY <4>3, <5>1, <5>2, Zenon
      <4> QED BY <3>0, <4>1, <4>3, <4>5, Zenon
    <3> QED BY <3>1, <3>2, Zenon
  <2>2. CASE WritePrimary \/ WriteBackup \/ WriteMbr \/ FlashTmp \/ VerifyTmp \/ SwapCached
    <3>1. UNCHANGED entries /\ pc \in Early
      BY <2>2, Zenon DEF FlashTmp, VerifyTmp, SwapCached, WritePrimary, WriteBackup, WriteMbr, call
    <3>2. entries' = <<>>
      BY <3>1, Zenon DEF OrderInv
    <3>3. Matching'
      <4>1. load_options' \in Seq(LoadOption)
        BY <1>1, Zenon DEF EntryType
      <4> QED BY <3>2, <4>1
    <3> QED BY <3>2, <3>3, Zenon
  <2>3. CASE StartFlash
    BY <2>3, Zenon DEF StartFlash
  <2>4. CASE Boot \/ Reboot \/ PowerLoss \/ EraseTmp \/ InstallOrder
    BY <2>4, Zenon DEF Boot, Reboot, PowerLoss, EraseTmp, InstallOrder, Reply
  <2>5. CASE UNCHANGED vars
    BY <2>5, Zenon DEF vars, call, firmware, static, OrderInv
  <2> QED BY <2>1, <2>2, <2>3, <2>4, <2>5, Zenon DEF Next
<1> QED BY <1>1, <1>2, <1>3, <1>4, Zenon DEF OrderInv

LEMMA OrderStart == Init => OrderInv
<1> SUFFICES ASSUME Init PROVE OrderInv
  BY Zenon
<1>0. "none" \in Descriptions /\ "other" \in Descriptions
  BY Zenon DEF Descriptions
<1>1. options \in [Entry -> Descriptions]
  <2>1. CASE options = [e \in Entry |-> "none"]
    BY <1>0, <2>1, Zenon
  <2>2. CASE options = [e \in Entry |-> IF e = 0 THEN "other" ELSE "none"]
    <3>1. \A e \in Entry : (IF e = 0 THEN "other" ELSE "none") \in Descriptions
      BY <1>0, Zenon
    <3> QED BY <2>2, <3>1, Zenon
  <2> QED BY <2>1, <2>2, Zenon DEF Init
<1>2. order \in Seq(Uninitialized)
  <2>1. 0 \in Uninitialized
    BY FlashAssumption DEF Uninitialized
  <2>2. <<>> \in Seq(Uninitialized) /\ <<0>> \in Seq(Uninitialized)
    BY <2>1
  <2> QED BY <2>2, Zenon DEF Init
<1>3. load_options \in Seq(LoadOption) /\ is_default \in BOOLEAN /\ entries \in Seq(Entry)
  BY EmptySeq, Zenon DEF Init
<1>4. errors \in 0 .. MaxErrors
  BY FlashAssumption DEF Init
<1>5. EntryType
  BY <1>1, <1>2, <1>3, <1>4, Zenon DEF EntryType
<1>6. 1 .. Len(<<>>) = {}
  OBVIOUS
<1> QED BY <1>5, <1>6, FlashAssumption, Zenon DEF OrderInv, Init

\* The variables keep their types, for any images, manifests and boot entries.
THEOREM TypeCorrect == ASSUME FaultModel PROVE Spec => []TypeOK
<1>1. OrderInv /\ [Next]_vars => OrderInv'
  BY OrderStep, Zenon
<1>2. IndInv /\ OrderInv => TypeOK
  BY Zenon DEF IndInv, DiskType, OrderInv, EntryType, LoadOption, TypeOK
<1>3. IndInv /\ [Next]_vars => IndInv'
  BY Step, Zenon
<1> QED BY <1>1, <1>2, <1>3, Start, OrderStart, PTL DEF Spec

-----------------------------------------------------------------------------
(* BootOrder stays proper *)

\* Entries of different options are different.
LEMMA EntriesDistinct ==
  ASSUME DistinctOptions, OrderInv, pc = "register"
  PROVE  Distinct(entries) /\ \A k \in 1 .. Len(entries) : entries[k] \in Entry /\ options[entries[k]] # "none"
<1>1. /\ load_options \in Seq(LoadOption) /\ entries \in Seq(Entry)
      /\ Len(entries) <= Len(load_options)
  BY Zenon DEF OrderInv, EntryType
<1>2. \A k \in 1 .. Len(entries) : k \in 1 .. Len(load_options) /\ entries[k] \in Entry
  BY <1>1
<1>3. \A k \in 1 .. Len(entries) : options[entries[k]] = load_options[k].desc
                                   /\ load_options[k].desc # "none"
  BY <1>2, Zenon DEF OrderInv
<1>4. ASSUME NEW i \in 1 .. Len(entries), NEW j \in 1 .. Len(entries), i # j
      PROVE  entries[i] # entries[j]
  <2>1. load_options[i].desc # load_options[j].desc
    BY <1>2, <1>4, Zenon DEF DistinctOptions
  <2> QED BY <1>3, <2>1, Zenon
<1> QED BY <1>2, <1>3, <1>4, Zenon DEF Distinct

LEMMA ProperStep ==
  ASSUME OrderInv, [Next]_vars, OrderIsProper, DistinctOptions
  PROVE  OrderIsProper'
<1>t. order \in Seq(Uninitialized) /\ entries \in Seq(Entry) /\ options \in [Entry -> Descriptions]
  BY Zenon DEF OrderInv, EntryType
<1>1. CASE UNCHANGED firmware
  BY <1>1, Zenon DEF firmware, OrderIsProper
<1>2. CASE RegisterOption /\ ~UNCHANGED <<options, entries>>
  <2> DEFINE d == load_options[Len(entries) + 1].desc
  <2>1. PICK e \in Entry : options' = [options EXCEPT ![e] = d] /\ d # "none"
    BY <1>2, RegisterFacts, Zenon
  <2>2. UNCHANGED order
    BY <1>2, Zenon DEF RegisterOption
  <2>3. \A f \in Entry : options'[f] = IF f = e THEN d ELSE options[f]
    BY <1>t, <2>1, Zenon
  <2> QED BY <2>1, <2>2, <2>3, ZenonT(60) DEF OrderIsProper
<1>3. CASE InstallOrder /\ ~UNCHANGED order
  <2>1. UNCHANGED options /\ order' \in NewOrders /\ ~AtHead /\ pc = "register"
    BY <1>3, Zenon DEF InstallOrder, NewOrders
  <2>2. Distinct(entries) /\ \A k \in 1 .. Len(entries) : entries[k] \in Entry /\ options[entries[k]] # "none"
    BY <2>1, EntriesDistinct, Zenon
  <2>3. Distinct(order) /\ \A k \in 1 .. Len(order) : order[k] \in Entry /\ options[order[k]] # "none"
    BY Zenon DEF OrderIsProper, Distinct
  <2>4. new_size = Len(Reordered) /\ new_size \in Nat
    BY <1>t, <2>2, <2>3, RoomIsExact, SizeFacts, Zenon
  <2>5. Len(order') = Len(Reordered) /\ \A i \in 1 .. Len(Reordered) : i <= Len(Reordered) => order'[i] = Reordered[i]
    BY <1>t, <2>1, <2>4, NewOrdersFacts, Zenon
  <2>6. \A i \in 1 .. Len(Reordered) : i <= Len(Reordered)
    BY <2>4
  <2>7. Distinct(Reordered) /\ \A i \in 1 .. Len(Reordered) :
          Reordered[i] \in Entry /\ options[Reordered[i]] # "none"
    <3>1. Distinct(Reordered)
      BY <1>t, <2>2, <2>3, ReorderedFacts, Zenon
    <3>2. \A i \in 1 .. Len(Reordered) : \/ \E j \in 1 .. Len(entries) : Reordered[i] = entries[j]
                                        \/ \E j \in 1 .. Len(order) : Reordered[i] = order[j]
      BY <1>t, ReorderedFacts, Zenon
    <3> QED BY <2>2, <2>3, <3>1, <3>2, Zenon
  <2> QED BY <2>1, <2>5, <2>6, <2>7, Zenon DEF OrderIsProper, Distinct
<1> QED
  <2>1. \/ UNCHANGED firmware
        \/ RegisterOption /\ ~UNCHANGED <<options, entries>>
        \/ InstallOrder /\ ~UNCHANGED order
    BY Zenon DEF Next, Boot, Reboot, PowerLoss, StartFlash, FlashTmp, VerifyTmp, SwapCached,
       WritePrimary, WriteBackup, WriteMbr, RegisterOption, InstallOrder, EraseTmp, firmware, vars
  <2> QED BY <1>1, <1>2, <1>3, <2>1, Zenon

\* Whatever fails and however often, a BootOrder that lists only boot entries
\* that exist, and none of them twice, stays so, as long as the load options
\* in use have descriptions of their own.
THEOREM OrderAlwaysResolves == Spec => BootOrderResolves
<1>1. OrderInv /\ [Next]_vars => OrderInv'
  BY OrderStep, Zenon
<1>2. OrderInv /\ [Next]_vars => [OrderIsProper /\ DistinctOptions => OrderIsProper']_vars
  BY ProperStep, Zenon
<1> QED BY <1>1, <1>2, OrderStart, PTL DEF Spec, BootOrderResolves

-----------------------------------------------------------------------------
(* What OKAY means *)

\* The options of the image are among those to register.
Covered ==
  \A k \in 1 .. Len(OwnOptions(image)) :
    \E j \in 1 .. Len(load_options) : load_options[j].desc = OwnOptions(image)[k].desc

\* The entries at the head of BootOrder have the options of the image.
Headed ==
  /\ AtHead
  /\ \A k \in 1 .. Len(OwnOptions(image)) :
       \E j \in 1 .. Len(entries) : options[entries[j]] = OwnOptions(image)[k].desc

\* install_in_boot_order has run before a command ends well.
OkayInv ==
  /\ pc \in {"swap", "hdr1", "ent1", "hdr2", "ent2", "mbr", "register"} => Covered
  /\ pc = "exit" /\ ret => Headed
  /\ OkayLeavesOneBootloader

LEMMA InstalledFirst ==
  ASSUME OrderInv, Covered, InstallOrder, ret'
  PROVE  Headed'
<1>1. /\ order' \in NewOrders /\ (AtHead \/ new_size >= Len(entries))
      /\ UNCHANGED <<image, entries, options>> /\ Len(entries) = Len(load_options) /\ pc = "register"
  BY Zenon DEF InstallOrder
<1>2. order \in Seq(Uninitialized) /\ entries \in Seq(Entry)
  BY Zenon DEF OrderInv, EntryType
<1>3. AtHead'
  <2>1. CASE AtHead
    <3>1. order' = order
      BY <1>1, <2>1, Zenon DEF NewOrders
    <3> QED BY <1>1, <2>1, <3>1, Zenon DEF AtHead
  <2>2. CASE ~AtHead
    <3> DEFINE n == Len(entries)
               q == SubSeq(order', 1, n)
    <3>1. /\ order' \in Seq(Uninitialized) /\ Len(order') = new_size
          /\ \A i \in 1 .. new_size : i <= Len(Reordered) => order'[i] = Reordered[i]
      BY <1>1, <1>2, <2>2, NewOrdersFacts, Zenon
    <3>2. /\ Reordered \in Seq(Uninitialized) /\ n <= Len(Reordered)
          /\ \A i \in 1 .. n : Reordered[i] = entries[i]
      BY <1>2, ReorderedFacts, Zenon
    <3>3. new_size \in Nat /\ n \in Nat /\ Len(Reordered) \in Nat /\ new_size >= n
      <4>1. new_size \in Nat /\ new_size >= Len(entries)
        BY <1>1, <1>2, <2>2, SizeFacts, Zenon
      <4>2. n \in Nat /\ Len(Reordered) \in Nat
        BY <1>2, <3>2
      <4> QED BY <4>1, <4>2, Zenon
    <3>4. \A i \in 1 .. n : i \in 1 .. new_size /\ i <= Len(Reordered)
      BY <3>2, <3>3
    <3>5. \A i \in 1 .. n : order'[i] = entries[i]
      BY <3>1, <3>2, <3>4, Zenon
    <3>6. Len(order') >= n
      BY <3>1, <3>3
    <3>7. q \in Seq(Uninitialized) /\ Len(q) = n /\ \A i \in 1 .. n : q[i] = order'[i]
      <4>1. order' \in Seq(Uninitialized) /\ Len(order') >= n /\ n \in Nat
        BY <3>1, <3>3, <3>6, Zenon
      <4> HIDE DEF n
      <4> QED BY <4>1
    <3>8. q = entries
      <4>1. entries \in Seq(Uninitialized)
        <5>1. Entry \subseteq Uninitialized
          BY FlashAssumption DEF Entry, Uninitialized
        <5> QED BY <1>2, <5>1
      <4>2. \A i \in 1 .. Len(q) : q[i] = entries[i]
        BY <3>5, <3>7, Zenon
      <4> QED BY <3>7, <4>1, <4>2, SeqEqual, Zenon
    <3> QED BY <1>1, <3>6, <3>8, Zenon DEF AtHead
  <2> QED BY <2>1, <2>2, Zenon
<1>4. \A j \in 1 .. Len(load_options) : j \in 1 .. Len(entries) /\ options[entries[j]] = load_options[j].desc
  BY <1>1, Zenon DEF OrderInv
<1>5. ASSUME NEW k \in 1 .. Len(OwnOptions(image))
      PROVE  \E j \in 1 .. Len(entries) : options[entries[j]] = OwnOptions(image)[k].desc
  BY <1>4, Zenon DEF Covered
<1> QED BY <1>1, <1>3, <1>5, Zenon DEF Headed, OwnOptions

LEMMA OkayStep ==
  ASSUME FaultModel, IndInv, OrderInv, OkayInv, [Next]_vars
  PROVE  OkayInv'
<1>1. CASE InstallOrder
  <2>1. pc = "register" /\ pc' = "exit"
    BY <1>1, Zenon DEF InstallOrder
  <2>2. Covered
    BY <2>1, Zenon DEF OkayInv
  <2> QED BY <1>1, <2>1, <2>2, InstalledFirst, Zenon DEF OkayInv, OkayLeavesOneBootloader
<1>2. CASE EraseTmp
  <2>1. /\ primary' = primary /\ backup' = backup /\ pc = "exit" /\ pc' = "idle"
        /\ UNCHANGED <<image, entries, order, options>>
        /\ answer' = "okay" => /\ ret /\ Table # Torn
                              /\ content' = [content EXCEPT ![Other(Table)] = Empty]
    BY <1>2, Zenon DEF EraseTmp, Reply, call, firmware
  <2>2. ReadTable' = ReadTable
    BY <2>1, Zenon DEF ReadTable, Valid
  <2>3. Table # Torn => Table = ReadTable /\ ReadTable \in Region
    BY <2>1, ReadTableFacts, Regions, Zenon DEF IndInv, TableInv
  <2>4. answer' = "okay" => content'[Other(ReadTable')] = Empty
    BY <2>1, <2>2, <2>3, Regions, Zenon DEF IndInv, DiskType
  <2>5. answer' = "okay" => Headed'
    <3>1. Headed => Headed'
      BY <2>1, Zenon DEF Headed, AtHead, OwnOptions
    <3> QED BY <2>1, <3>1, Zenon DEF OkayInv
  <2> QED BY <2>1, <2>4, <2>5, Zenon DEF OkayInv, OkayLeavesOneBootloader, Headed
<1>3. CASE VerifyTmp
  <2>1. pc = "verify" /\ pc' \in {"swap", "exit"} /\ (pc' = "exit" => ~ret') /\ UNCHANGED image
        /\ (pc' = "swap" => load_options' = OptionsRead(content[Other(Table)])
                            /\ content[Other(Table)] \in Loads)
    BY <1>3, Zenon DEF VerifyTmp, static
  <2>2. Table = ReadTable /\ content[Other(ReadTable)] = image
    BY <2>1, ReadTableFacts, Zenon DEF IndInv, TableInv, ContentInv
  <2>3. pc' = "swap" => Covered'
    <3>1. \A k \in 1 .. Len(OwnOptions(image)) : \E j \in 1 .. Len(OptionsRead(image)) :
            OptionsRead(image)[j].desc = OwnOptions(image)[k].desc
      BY OptionsReadFacts, Zenon DEF OrderInv, EntryType
    <3>2. pc' = "swap" => load_options' = OptionsRead(image) /\ image' = image
      BY <2>1, <2>2, Zenon
    <3>3. OwnOptions(image)' = OwnOptions(image')
      BY Zenon DEF OwnOptions
    <3> QED BY <3>1, <3>2, <3>3, Zenon DEF Covered
  <2> QED BY <2>1, <2>3, Zenon DEF OkayInv, OkayLeavesOneBootloader
<1>4. CASE Next /\ ~(InstallOrder \/ EraseTmp \/ VerifyTmp)
  <2>1. ~(pc' = "exit" /\ ret')
    BY <1>4, ZenonT(60) DEF Next, Boot, Reboot, PowerLoss, StartFlash, FlashTmp, SwapCached, Reply,
       WritePrimary, WriteBackup, WriteMbr, RegisterOption, WritePiece
  <2>2. ~(pc' = "idle" /\ answer' = "okay")
    BY <1>4, FlashAssumption, ZenonT(60) DEF Next, Boot, Reboot, PowerLoss, StartFlash, FlashTmp,
       SwapCached, WritePrimary, WriteBackup, WriteMbr, WritePiece, RegisterOption, Reply
  <2>3. pc' \in {"swap", "hdr1", "ent1", "hdr2", "ent2", "mbr", "register"} =>
          /\ UNCHANGED <<image, load_options>>
          /\ pc \in {"swap", "hdr1", "ent1", "hdr2", "ent2", "mbr", "register"}
    BY <1>4, ZenonT(60) DEF Next, Boot, Reboot, PowerLoss, StartFlash, FlashTmp,
       SwapCached, WritePrimary, WriteBackup, WriteMbr, RegisterOption, Reply, static, call
  <2>4. UNCHANGED <<image, load_options>> /\ Covered => Covered'
    BY Zenon DEF Covered, OwnOptions
  <2> QED BY <2>1, <2>2, <2>3, <2>4, Zenon DEF OkayInv, OkayLeavesOneBootloader
<1>5. CASE UNCHANGED vars
  <2>1. /\ UNCHANGED <<pc, ret, image, entries, order, options, load_options, content, answer>>
        /\ ReadTable' = ReadTable
    BY <1>5, Zenon DEF vars, disk, firmware, static, call, ReadTable, Valid
  <2>2. (Covered => Covered') /\ (Headed => Headed')
    BY <2>1, Zenon DEF Covered, Headed, AtHead, OwnOptions
  <2>3. OkayLeavesOneBootloader => OkayLeavesOneBootloader'
    BY <2>1, Zenon DEF OkayLeavesOneBootloader, AtHead, OwnOptions
  <2> QED BY <2>1, <2>2, <2>3, Zenon DEF OkayInv
<1> QED BY <1>1, <1>2, <1>3, <1>4, <1>5, Zenon

\* Under at most one power loss or failing write of the alternate table and none
\* of the primary one, OKAY means that the temporary partition is empty and that
\* the entries just registered, which come first in BootOrder, have all the load
\* options of the image among them.
THEOREM OkayMeansOneBootloader ==
  ASSUME FaultModel PROVE Spec => []OkayLeavesOneBootloader
<1>1. Init => OkayInv
  BY Zenon DEF Init, OkayInv, OkayLeavesOneBootloader
<1>2. OrderInv /\ [Next]_vars => OrderInv'
  BY OrderStep, Zenon
<1>3. IndInv /\ [Next]_vars => IndInv'
  BY Step, Zenon
<1>4. IndInv /\ OrderInv /\ OkayInv /\ [Next]_vars => OkayInv'
  BY OkayStep, Zenon
<1>5. OkayInv => OkayLeavesOneBootloader
  BY Zenon DEF OkayInv
<1> QED BY <1>1, <1>2, <1>3, <1>4, <1>5, Start, OrderStart, PTL DEF Spec

=============================================================================
