-------------------------- MODULE LpstStoreProofs ---------------------------
(***************************************************************************)
(* Theorems about what is kept: the file store on the disk (LpstStore) for *)
(* any number of files, any contents and any bound on the generation, the  *)
(* settings with their snapshot, profiles and pack (Settings), and what is *)
(* updated, versioned and installed (Updates).                             *)
(***************************************************************************)
EXTENDS LpstStore, Settings, Updates, SequenceTheorems, FiniteSetTheorems, WellFoundedInduction, TLAPS

\* A header fs_persist_save builds is a header of the bounded kind.
LEMMA SavedHeaderType ==
  ASSUME TypeOK, generation < MaxGeneration
  PROVE  /\ SavedHeader \in Headers
         /\ NextGeneration = generation + 1
         /\ TargetBank \in Banks
<1>1. NextGeneration = generation + 1 /\ NextGeneration \in 0 .. MaxGeneration
  BY GenerationAssumption DEF TypeOK, NextGeneration
<1>2. TargetBank \in Banks
  BY SentinelAssumption DEF TypeOK, TargetBank, Banks
<1> QED
  BY <1>1, <1>2, CountAssumption DEF SavedHeader, Headers, TypeOK

\* Writing or losing one sector of the target bank leaves a well-formed disk.
LEMMA DiskType ==
  ASSUME TypeOK, generation < MaxGeneration, NEW s \in Sectors
  PROVE  Written(disk, s) \in Disks /\ Lost(disk, s) \in Disks
<1> DEFINE BankSet == [header : Headers, body : [Files -> Values \cup {Garbage}]]
<1>1. SavedHeader \in Headers /\ TargetBank \in Banks
  BY SavedHeaderType
<1>2. NoHeader \in Headers
  BY DataAssumption, GenerationAssumption DEF NoHeader, Headers
<1>3. disk[TargetBank] \in BankSet
  BY <1>1 DEF TypeOK, Disks
<1>4. s # 0 => s \in Files
  BY CountAssumption DEF Sectors, Files
<1>5. WithSector(disk[TargetBank], s) \in BankSet
  <2>1. CASE s = 0
    BY <2>1, <1>1, <1>3 DEF WithSector
  <2>2. CASE s # 0
    <3>1. ram[s] \in Values
      BY <2>2, <1>4 DEF TypeOK, Images
    <3> QED
      BY <2>2, <3>1, <1>3, <1>4 DEF WithSector
  <2> QED
    BY <2>1, <2>2
<1>6. WithLostSector(disk[TargetBank], s) \in BankSet
  BY <1>2, <1>3, <1>4 DEF WithLostSector
<1> QED
  BY <1>1, <1>5, <1>6 DEF TypeOK, Disks, Written, Lost

\* The disk a cut-off save leaves is well-formed.
LEMMA CutOffType ==
  ASSUME TypeOK, Writing => generation < MaxGeneration, NEW d \in CutOff
  PROVE  d \in Disks
<1>1. CASE d = disk
  BY <1>1 DEF TypeOK
<1>2. CASE Writing /\ d = Lost(disk, sector)
  BY <1>2, DiskType DEF Writing
<1> QED
  BY <1>1, <1>2 DEF CutOff

\* What the scan of a load settles on, among the banks it can read.
LEMMA BestIsNewest ==
  ASSUME NEW d \in Disks, NEW readable \in SUBSET Banks
  PROVE  LET b == BestBank(d, readable)
         IN  IF b = NoBank
               THEN \A x \in readable : ~Valid(d[x])
               ELSE /\ b \in readable
                    /\ Valid(d[b])
                    /\ \A x \in readable \ {b} : Valid(d[x]) =>
                         \/ d[x].header.generation < d[b].header.generation
                         \/ d[x].header.generation = d[b].header.generation /\ b = 1
<1>1. \A x \in Banks : d[x].header.generation \in Nat
  BY GenerationAssumption DEF Disks, Headers
<1> QED
  BY <1>1, SentinelAssumption DEF BestBank, Banks

\* A whole bank holds an image and a generation in range.
LEMMA IntactIsImage ==
  ASSUME NEW d \in Disks, NEW b \in Banks, Intact(d[b])
  PROVE  /\ d[b].body \in Images /\ d[b].body # NoImage
         /\ d[b].header.generation \in 0 .. MaxGeneration
<1>1. d[b].header.sum \in Images /\ d[b].header.generation \in 0 .. MaxGeneration
  BY DEF Disks, Headers
<1> QED
  BY <1>1, SentinelAssumption DEF Intact

\* The bank a load copies from.
LEMMA BestType ==
  ASSUME TypeOK, Best # NoBank
  PROVE  /\ Best \in Banks \ missed
         /\ Valid(disk[Best])
         /\ disk[Best].body \in Images
         /\ disk[Best].header.generation \in 0 .. MaxGeneration
<1>1. Best \in Banks \ missed /\ Valid(disk[Best])
  BY BestIsNewest DEF Best, TypeOK
<1> QED
  BY <1>1, IntactIsImage DEF Valid, TypeOK

-----------------------------------------------------------------------------
\* A save only ever runs below the bound on the generation.
SaveBounded == Saving => generation < MaxGeneration

LEMMA TypeStep == TypeOK /\ SaveBounded /\ [Next]_vars => TypeOK' /\ SaveBounded'
<1> SUFFICES ASSUME TypeOK, SaveBounded, [Next]_vars
             PROVE  TypeOK' /\ SaveBounded'
  OBVIOUS
<1> USE DEF TypeOK, SaveBounded, Saving, StoreModes, storeVars
<1>1. CASE Edit \/ EditUnmarked \/ FillDefault
  <2>1. ram' \in Images
    BY <1>1, DataAssumption DEF Edit, EditUnmarked, FillDefault, Images
  <2> QED
    BY <1>1, <2>1 DEF Edit, EditUnmarked, FillDefault
<1>2. CASE SaveBegin
  BY <1>2, CountAssumption DEF SaveBegin
<1>3. CASE WriteSector
  <2>1. disk' \in Disks
    BY <1>3, DiskType DEF WriteSector, Writing
  <2>2. sector' \in 0 .. NFiles + 1
    BY <1>3, CountAssumption DEF WriteSector, Writing, Sectors
  <2> QED
    BY <1>3, <2>1, <2>2 DEF WriteSector
<1>4. CASE WriteFails
  <2>1. disk' \in Disks
    BY <1>4, DiskType, CutOffType DEF WriteFails, Writing
  <2> QED
    BY <1>4, <2>1, CountAssumption DEF WriteFails, EndOfSave
<1>5. CASE SaveDone
  <2>1. TargetBank \in Banks /\ NextGeneration \in 0 .. MaxGeneration
    BY <1>5, SavedHeaderType, GenerationAssumption DEF SaveDone
  <2>2. mode' \in StoreModes /\ ~Saving'
    BY <1>5 DEF SaveDone, EndOfSave
  <2>3. unread' \in SUBSET Banks /\ missed' \in SUBSET Banks
    BY <1>5 DEF SaveDone
  <2>4. sector' \in 0 .. NFiles + 1 /\ generation' \in 0 .. MaxGeneration /\ active' \in Banks \cup {NoBank}
    BY <1>5, <2>1, CountAssumption DEF SaveDone
  <2> QED
    BY <1>5, <2>2, <2>3, <2>4 DEF SaveDone
<1>6. CASE Panic
  <2>1. disk' \in Disks
    BY <1>6, CutOffType DEF Panic, Writing
  <2>2. ram' \in Images
    BY <1>6 DEF Panic, Images
  <2> QED
    BY <1>6, <2>1, <2>2, CountAssumption DEF Panic
<1>7. CASE PowerCut
  <2>1. disk' \in Disks
    BY <1>7, CutOffType DEF PowerCut, Writing
  <2> QED
    BY <1>7, <2>1, CountAssumption DEF PowerCut
<1>8. CASE PowerOn
  <2>1. 0 \in 0 .. MaxGeneration /\ 0 \in 0 .. NFiles + 1 /\ {} \in SUBSET Banks /\ Banks \in SUBSET Banks
    BY CountAssumption, GenerationAssumption
  <2>2. mode' \in StoreModes /\ ~Saving'
    BY <1>8 DEF PowerOn
  <2> QED
    BY <1>8, <2>1, <2>2, DataAssumption DEF PowerOn
<1>9. CASE LoadBegin
  BY <1>9, CountAssumption DEF LoadBegin
<1>10. CASE LoadFails
  <2>1. unread' \in SUBSET Banks /\ missed' \in SUBSET Banks
    BY <1>10 DEF LoadFails
  <2>2. mode' \in StoreModes /\ ~Saving'
    BY <1>10 DEF LoadFails
  <2> QED
    BY <1>10, <2>1, <2>2 DEF LoadFails
<1>11. CASE LoadFile
  <2>1. disk[Best].body \in Images /\ sector + 1 \in Files
    BY <1>11, BestType, CountAssumption DEF LoadFile, Files
  <2>2. ram' \in Images
    BY <1>11, <2>1 DEF LoadFile, Images
  <2> QED
    BY <1>11, <2>1, <2>2, CountAssumption DEF LoadFile, Loading, Files
<1>12. CASE LoadDone
  <2>1. Best \in Banks /\ disk[Best].header.generation \in 0 .. MaxGeneration
    BY <1>12, BestType DEF LoadDone
  <2>2. unread' \in SUBSET Banks /\ missed' \in SUBSET Banks
    BY <1>12 DEF LoadDone
  <2>3. sector' \in 0 .. NFiles + 1 /\ generation' \in 0 .. MaxGeneration /\ active' \in Banks \cup {NoBank}
    BY <1>12, <2>1, CountAssumption DEF LoadDone
  <2>4. mode' \in StoreModes /\ ~Saving'
    BY <1>12 DEF LoadDone
  <2> QED
    BY <1>12, <2>2, <2>3, <2>4 DEF LoadDone
<1>13. CASE UNCHANGED vars
  BY <1>13 DEF vars
<1> QED
  BY <1>1, <1>2, <1>3, <1>4, <1>5, <1>6, <1>7, <1>8, <1>9, <1>10, <1>11, <1>12, <1>13 DEF Next

LEMMA InitType == Init => TypeOK /\ SaveBounded
<1>1. NoHeader \in Headers
    BY DataAssumption, GenerationAssumption DEF NoHeader, Headers
<1>2. BlankBank \in [header : Headers, body : [Files -> Values \cup {Garbage}]]
    BY <1>1 DEF BlankBank
<1>3. Init => disk \in Disks
    BY <1>2 DEF Init, Disks
<1>4. 0 \in 0 .. MaxGeneration /\ 0 \in 0 .. NFiles + 1
    BY CountAssumption, GenerationAssumption
<1> QED
    BY <1>3, <1>4, DataAssumption DEF Init, TypeOK, SaveBounded, Saving, StoreModes

\* The variables of the store stay in their ranges whatever fails, in a build
\* whose table exceeds the loader's limit too: the files never take over a
\* sector that was cut short.
THEOREM TypeCorrect == Spec => []TypeOK
  BY InitType, TypeStep, PTL DEF Spec

-----------------------------------------------------------------------------
(***************************************************************************)
(* Crash safety, for any table, with any transfer of the disk failing.     *)
(***************************************************************************)
\* A save never touches the active bank.
LEMMA TargetIsOther ==
  ASSUME TypeOK
  PROVE  /\ TargetBank \in Banks
         /\ active # TargetBank
         /\ active = NoBank => TargetBank = 0
         /\ active # NoBank => active \in Banks /\ Banks = {active, TargetBank}
  BY SentinelAssumption DEF TypeOK, TargetBank, Banks

\* Once a save has written a sector, its header is in the target bank.
LEMMA WrittenHeader ==
  ASSUME TypeOK, SaveProgress, Writing
  PROVE  /\ Written(disk, sector)[TargetBank].header = SavedHeader
         /\ \A b \in Banks \ {TargetBank} : Written(disk, sector)[b] = disk[b]
<1>1. TargetBank \in Banks /\ disk \in Disks
  BY TargetIsOther DEF TypeOK
<1>2. WithSector(disk[TargetBank], sector).header = SavedHeader
  <2>1. CASE sector = 0
    BY <1>1, <2>1 DEF WithSector, Disks
  <2>2. CASE sector # 0
    <3>1. disk[TargetBank].header = SavedHeader
      BY <2>2, CountAssumption DEF SaveProgress, Writing, Sectors
    <3> QED
      BY <1>1, <2>2, <3>1 DEF WithSector, Disks
  <2> QED
    BY <2>1, <2>2
<1> QED
  BY <1>1, <1>2 DEF Written, Disks

\* A sector that was cut short makes its bank fail validation: the header has
\* lost its magic, or a data sector no longer matches the checksum.
LEMMA LostIsBroken ==
  ASSUME TypeOK, Writing
  PROVE  /\ ~Intact(Lost(disk, sector)[TargetBank])
         /\ \A b \in Banks \ {TargetBank} : Lost(disk, sector)[b] = disk[b]
<1>1. TargetBank \in Banks /\ disk \in Disks
  BY TargetIsOther DEF TypeOK
<1> DEFINE bank == WithLostSector(disk[TargetBank], sector)
<1>2. ~Intact(bank)
  <2>1. CASE sector = 0
    <3>1. bank.header = NoHeader
      BY <1>1, <2>1 DEF WithLostSector, Disks
    <3> QED
      BY <3>1 DEF Intact, NoHeader
  <2>2. CASE sector # 0
    <3>1. sector \in Files
      BY <2>2, CountAssumption DEF Writing, Sectors, Files
    <3>2. bank.body[sector] = Garbage /\ bank.header = disk[TargetBank].header
      BY <1>1, <2>2, <3>1 DEF WithLostSector, Disks
    <3>3. disk[TargetBank].header.sum[sector] \in Values
      BY <1>1, <3>1 DEF Headers, Images, Disks
    <3> QED
      BY <3>2, <3>3, DataAssumption DEF Intact
  <2> QED
    BY <2>1, <2>2
<1> QED
  BY <1>1, <1>2 DEF Lost, Disks

\* What a save that is cut off leaves of the target bank.
LEMMA CutOffDisk ==
  ASSUME TypeOK, NEW d \in CutOff
  PROVE  /\ \A b \in Banks \ {TargetBank} : d[b] = disk[b]
         /\ d[TargetBank] = disk[TargetBank] \/ ~Intact(d[TargetBank])
<1>1. CASE d = disk
  BY <1>1
<1>2. CASE Writing /\ d = Lost(disk, sector)
  BY <1>2, LostIsBroken
<1> QED
  BY <1>1, <1>2 DEF CutOff

\* What a step of a save may do to the disk: only the target bank changes, and
\* it is as it was, broken, or has the header of the save under way.
TargetOnly ==
  /\ \A b \in Banks \ {TargetBank} : disk'[b] = disk[b]
  /\ \/ disk'[TargetBank] = disk[TargetBank]
     \/ ~Intact(disk'[TargetBank])
     \/ Saving /\ disk'[TargetBank].header = SavedHeader

LEMMA WrittenOrCutOff ==
  ASSUME TypeOK, SaveProgress, disk' \in CutOff \/ (Writing /\ disk' = Written(disk, sector))
  PROVE  TargetOnly
<1>1. CASE disk' \in CutOff
  BY <1>1, CutOffDisk DEF TargetOnly
<1>2. CASE Writing /\ disk' = Written(disk, sector)
  BY <1>2, WrittenHeader DEF TargetOnly, Writing
<1> QED
  BY <1>1, <1>2

LEMMA DiskUntouched == disk' = disk => TargetOnly
  BY DEF TargetOnly

\* The kernel's belief about its banks, as one predicate.
BanksKnown == ActiveBankIntact /\ ActiveBankRead /\ OtherBankOrdered

\* The header of a save under way.
LEMMA SavedFields ==
  ASSUME TypeOK, generation < MaxGeneration
  PROVE  /\ SavedHeader.generation = generation + 1 /\ SavedHeader.sum = ram
         /\ SavedHeader.magic /\ SavedHeader.count = NFiles
  BY SavedHeaderType DEF SavedHeader

LEMMA BanksKnownStep ==
  ASSUME TypeOK, TypeOK', SaveBounded, BanksKnown, TargetOnly,
         UNCHANGED <<active, generation, unread>>
  PROVE  BanksKnown'
<1>1. TargetBank' = TargetBank
  BY DEF TargetBank
<1>2. /\ TargetBank \in Banks
      /\ active # TargetBank
      /\ active = NoBank => TargetBank = 0
      /\ active # NoBank => active \in Banks
  BY TargetIsOther
<1>3. /\ active # NoBank => disk'[active] = disk[active]
      /\ active = NoBank => disk'[1] = disk[1]
  BY <1>2 DEF Banks, TargetOnly
<1>4. ActiveBankIntact' /\ ActiveBankRead'
  BY <1>3 DEF BanksKnown, ActiveBankIntact, ActiveBankRead
<1>5. /\ disk'[TargetBank] = disk[TargetBank]
      \/ ~Valid(disk'[TargetBank])
      \/ disk'[TargetBank].header.generation > generation
  BY SavedFields DEF TargetOnly, Valid, SaveBounded, TypeOK
<1>6. OtherBankOrdered'
  BY <1>1, <1>3, <1>5 DEF BanksKnown, OtherBankOrdered
<1> QED
  BY <1>4, <1>6 DEF BanksKnown

\* What is stored of the clean files stays so while no file that marks is
\* changed without s_fs_dirty being set.
LEMMA CleanStep ==
  ASSUME TypeOK, TypeOK', SaveBounded, CleanIsStored, TargetOnly,
         UNCHANGED <<active, generation, unread>>,
         Settled' /\ ~dirty' => Settled /\ ~dirty /\ \A f \in Marked : ram'[f] = ram[f]
  PROVE  CleanIsStored'
<1>1. TargetBank' = TargetBank
  BY DEF TargetBank
<1>2. active # NoBank => disk'[active] = disk[active]
  BY TargetIsOther DEF TargetOnly
<1>3. \/ disk'[TargetBank] = disk[TargetBank]
      \/ Valid(disk'[TargetBank]) => disk'[TargetBank].body = ram
  BY SavedFields DEF TargetOnly, Valid, Intact, SaveBounded, TypeOK
<1> SUFFICES ASSUME Settled', ~dirty', NEW f \in Marked
             PROVE  /\ ram'[f] = IF active = NoBank THEN Defaults[f] ELSE disk'[active].body[f]
                    /\ TargetBank \notin unread /\ NewerAttempt' => disk'[TargetBank].body[f] = ram'[f]
  BY <1>1 DEF CleanIsStored
<1>4. /\ ram[f] = IF active = NoBank THEN Defaults[f] ELSE disk[active].body[f]
      /\ TargetBank \notin unread /\ NewerAttempt => disk[TargetBank].body[f] = ram[f]
      /\ ram'[f] = ram[f]
  BY DEF CleanIsStored
<1> QED
  BY <1>1, <1>2, <1>3, <1>4 DEF NewerAttempt

\* A save that has written every sector leaves a whole bank.
LEMMA FinishedBankIsWhole ==
  ASSUME TypeOK, StoreInv, SaveDone
  PROVE  /\ Intact(disk[TargetBank])
         /\ disk[TargetBank].body = ram
         /\ disk[TargetBank].header.generation = generation + 1
         /\ disk[TargetBank].header.count = NFiles
<1>1. TargetBank \in Banks
  BY TargetIsOther
<1>2. SaveProgress /\ Saving
  BY DEF SaveDone, StoreInv, Saving, Up
<1>3. generation < MaxGeneration /\ disk[TargetBank].header = SavedHeader
  BY <1>2, CountAssumption DEF SaveDone, SaveProgress
<1>4. disk[TargetBank].body = ram
  <2>1. disk[TargetBank].body \in [Files -> Values \cup {Garbage}] /\ ram \in [Files -> Values]
    BY <1>1 DEF TypeOK, Images, Disks
  <2>2. \A f \in Files : f < sector
    BY CountAssumption DEF SaveDone, Files
  <2>3. \A f \in Files : disk[TargetBank].body[f] = ram[f]
    BY <1>2, <2>2 DEF SaveProgress
  <2> QED
    BY <2>1, <2>3
<1> QED
  BY <1>3, <1>4, SavedFields DEF Intact

\* When a save is acknowledged the bank that was active becomes the older one.
LEMMA BanksChangePlaces ==
  ASSUME TypeOK, TypeOK', SaveBounded, StoreInv, SaveDone
  PROVE  /\ active' = TargetBank /\ active' # NoBank /\ generation' = generation + 1
         /\ TargetBank' \notin unread' /\ Valid(disk[TargetBank']) =>
              disk[TargetBank'].header.generation < generation'
         /\ TargetBank' \notin unread' => ~NewerAttempt'
<1>1. /\ active' = TargetBank /\ generation' = generation + 1 /\ disk' = disk
      /\ unread' = unread \ {TargetBank}
  BY SavedHeaderType DEF SaveDone, SaveBounded
<1>2. /\ TargetBank \in Banks
      /\ active # TargetBank
      /\ active = NoBank => TargetBank = 0
      /\ active # NoBank => active \in Banks
  BY TargetIsOther
<1>3. active' # NoBank
  BY <1>1, <1>2, SentinelAssumption
<1>4. /\ active = NoBank => TargetBank' = 1
      /\ active # NoBank => TargetBank' = active
      /\ TargetBank' # TargetBank
  BY <1>1, <1>2, <1>3 DEF TargetBank, Banks
<1>5. ActiveBankIntact /\ OtherBankOrdered
  BY DEF SaveDone, StoreInv, Saving, Up
<1>6. TargetBank' \notin unread' /\ Valid(disk[TargetBank']) =>
        disk[TargetBank'].header.generation < generation'
  <2>1. CASE active = NoBank
    BY <1>1, <1>4, <1>5, <2>1 DEF OtherBankOrdered
  <2>2. CASE active # NoBank
    BY <1>1, <1>4, <1>5, <2>2 DEF ActiveBankIntact, TypeOK
  <2> QED
    BY <2>1, <2>2
<1>7. TargetBank' \notin unread' => ~NewerAttempt'
  <2>1. disk[TargetBank'].header.generation \in Nat
    BY <1>1, <1>2, <1>4 DEF TypeOK, Headers, Banks, Disks
  <2> QED
    BY <1>1, <1>6, <2>1 DEF NewerAttempt, TypeOK
<1> QED
  BY <1>1, <1>3, <1>6, <1>7

\* A load that is complete has taken the newest of the banks it could read.
LEMMA LoadEstablishes ==
  ASSUME TypeOK, TypeOK', StoreInv, LoadDone
  PROVE  /\ active' = Best /\ Best # NoBank /\ ram = disk[Best].body /\ Valid(disk[Best])
         /\ BanksKnown' /\ CleanIsStored'
         /\ TargetBank' \notin unread' => ~NewerAttempt'
<1>1. /\ active' = Best /\ generation' = disk[Best].header.generation
      /\ ram' = ram /\ disk' = disk /\ unread' = missed /\ Best # NoBank
  BY DEF LoadDone
<1>2. /\ Best \in Banks \ missed /\ Valid(disk[Best]) /\ disk[Best].body \in Images
      /\ \A x \in Banks \ missed : x # Best /\ Valid(disk[x]) =>
           \/ disk[x].header.generation < disk[Best].header.generation
           \/ disk[x].header.generation = disk[Best].header.generation /\ Best = 1
  BY <1>1, BestType, BestIsNewest DEF Best, TypeOK
<1>3. ram = disk[Best].body
  <2>1. \A f \in Files : f <= sector => ram[f] = disk[Best].body[f]
    BY DEF LoadDone, StoreInv, LoadProgress, Loading, Up
  <2>2. \A f \in Files : f <= sector
    BY CountAssumption DEF LoadDone, Files
  <2> QED
    BY <1>2, <2>1, <2>2 DEF TypeOK, Images
<1>4. TargetBank' \in Banks \ {Best}
  BY <1>1, <1>2, SentinelAssumption DEF TargetBank, Banks
<1>5. disk[TargetBank'].header.generation \in Nat /\ disk[Best].header.generation \in Nat
  BY <1>2, <1>4 DEF TypeOK, Disks, Headers
<1>6. ActiveBankIntact' /\ ActiveBankRead' /\ OtherBankOrdered'
  BY <1>1, <1>2, <1>4 DEF ActiveBankIntact, ActiveBankRead, OtherBankOrdered, Valid
<1>7. TargetBank' \notin unread' => ~NewerAttempt'
  BY <1>1, <1>2, <1>4, <1>5 DEF NewerAttempt
<1>8. CleanIsStored'
  BY <1>1, <1>3, <1>7 DEF CleanIsStored
<1> QED
  BY <1>1, <1>2, <1>3, <1>6, <1>7, <1>8 DEF BanksKnown

LEMMA StoreInvStep ==
  ASSUME TypeOK, TypeOK', SaveBounded, StoreInv, [Next]_vars
  PROVE  StoreInv'
<1> DEFINE Parts == BanksKnown /\ SaveProgress /\ LoadProgress /\ BootIsFresh /\ CleanIsStored
<1>1. StoreInv <=> (Up => Parts)
  BY DEF StoreInv, BanksKnown
<1>2. StoreInv' <=> (Up' => Parts')
  BY DEF StoreInv, BanksKnown
<1> USE DEF storeVars
<1>3. CASE Edit \/ EditUnmarked
  <2>1. /\ mode \in {"run", "room"} /\ mode' = mode /\ UNCHANGED <<active, generation, unread>>
        /\ disk' = disk
    BY <1>3 DEF Edit, EditUnmarked
  <2>2. ~dirty' => ~dirty /\ \A f \in Marked : ram'[f] = ram[f]
    BY <1>3 DEF Edit, EditUnmarked, Marked, TypeOK, Images
  <2>3. Parts
    BY <1>1, <2>1 DEF Up
  <2>4. BanksKnown'
    BY <2>1, <2>3, DiskUntouched, BanksKnownStep
  <2>5. CleanIsStored'
    BY <2>1, <2>2, <2>3, DiskUntouched, CleanStep DEF Settled
  <2> QED
    BY <1>2, <2>1, <2>4, <2>5 DEF SaveProgress, LoadProgress, BootIsFresh, Saving, Loading
<1>4. CASE FillDefault
  <2>1. Parts /\ mode = "boot" /\ mode' = "boot" /\ UNCHANGED <<active, generation, unread>> /\ disk' = disk
    BY <1>1, <1>4 DEF FillDefault, Up
  <2>2. BanksKnown'
    BY <2>1, DiskUntouched, BanksKnownStep
  <2>3. CleanIsStored'
    BY <2>1 DEF CleanIsStored, Settled
  <2>4. BootIsFresh'
    BY <1>4, <2>1 DEF FillDefault, BootIsFresh
  <2> QED
    BY <1>2, <2>1, <2>2, <2>3, <2>4 DEF SaveProgress, LoadProgress, Saving, Loading
<1>5. CASE SaveBegin
  <2>1. Parts /\ mode = "run" /\ mode' = "save" /\ UNCHANGED <<ram, dirty, active, generation, unread>> /\ disk' = disk
    BY <1>1, <1>5 DEF SaveBegin, Up
  <2>2. BanksKnown'
    BY <2>1, DiskUntouched, BanksKnownStep
  <2>3. CleanIsStored'
    BY <2>1, DiskUntouched, CleanStep DEF Settled
  <2>4. SaveProgress'
    BY <1>5, CountAssumption DEF SaveBegin, SaveProgress, Files
  <2> QED
    BY <1>2, <2>1, <2>2, <2>3, <2>4 DEF LoadProgress, BootIsFresh, Loading
<1>6. CASE WriteSector
  <2>1. Parts /\ Writing /\ Saving /\ mode' = mode /\ UNCHANGED <<ram, dirty, active, generation, unread>>
        /\ disk' = Written(disk, sector) /\ sector' = sector + 1
    BY <1>1, <1>6 DEF WriteSector, Writing, Saving, Up
  <2>2. TargetOnly
    BY <2>1, WrittenOrCutOff
  <2>3. BanksKnown'
    BY <2>1, <2>2, BanksKnownStep
  <2>4. CleanIsStored'
    BY <2>1, <2>2, CleanStep DEF Settled, Saving
  <2>5. SaveProgress'
    <3>1. TargetBank \in Banks /\ TargetBank' = TargetBank /\ SavedHeader' = SavedHeader
      BY <2>1, TargetIsOther DEF TargetBank, SavedHeader, NextGeneration
    <3>2. disk'[TargetBank].header = SavedHeader
      BY <2>1, WrittenHeader
    <3>3. \A f \in Files : f < sector + 1 => disk'[TargetBank].body[f] = ram[f]
      <4> SUFFICES ASSUME NEW f \in Files, f < sector + 1
                   PROVE  disk'[TargetBank].body[f] = ram[f]
        OBVIOUS
      <4>1. disk' = [disk EXCEPT ![TargetBank] = WithSector(disk[TargetBank], sector)]
        BY <2>1 DEF Written
      <4>2. /\ disk'[TargetBank] = WithSector(disk[TargetBank], sector)
            /\ disk[TargetBank] \in [header : Headers, body : [Files -> Values \cup {Garbage}]]
        BY <3>1, <4>1 DEF TypeOK, Disks
      <4>3. CASE f = sector
        BY <4>2, <4>3, CountAssumption DEF WithSector, Files
      <4>4. CASE f # sector
        <5>1. disk[TargetBank].body[f] = ram[f]
          BY <2>1, <4>4, CountAssumption DEF SaveProgress, Files, TypeOK
        <5> QED
          BY <4>2, <4>4, <5>1 DEF WithSector
      <4> QED
        BY <4>3, <4>4
    <3> QED
      BY <2>1, <3>1, <3>2, <3>3 DEF SaveProgress, SaveBounded
  <2> QED
    BY <1>2, <2>1, <2>3, <2>4, <2>5 DEF LoadProgress, BootIsFresh, Loading, Saving
<1>7. CASE WriteFails
  <2>1. /\ Parts /\ Writing /\ Saving /\ mode' \in {"run", "room"}
        /\ UNCHANGED <<ram, dirty, active, generation, unread>>
        /\ disk' \in CutOff \/ disk' = Written(disk, sector)
        /\ mode' = "run" => mode = "save"
    BY <1>1, <1>7 DEF WriteFails, Writing, Saving, Up, EndOfSave
  <2>2. TargetOnly
    BY <2>1, WrittenOrCutOff
  <2>3. BanksKnown'
    BY <2>1, <2>2, BanksKnownStep
  <2>4. CleanIsStored'
    BY <2>1, <2>2, CleanStep DEF Settled
  <2> QED
    BY <1>2, <2>1, <2>3, <2>4 DEF SaveProgress, LoadProgress, BootIsFresh, Loading, Saving
<1>8. CASE SaveDone
  <2>1. /\ Intact(disk[TargetBank])
        /\ disk[TargetBank].body = ram
        /\ disk[TargetBank].header.generation = generation + 1
    BY <1>8, FinishedBankIsWhole
  <2>2. /\ active' = TargetBank /\ active' # NoBank /\ generation' = generation + 1
        /\ TargetBank' \notin unread' /\ Valid(disk[TargetBank']) =>
             disk[TargetBank'].header.generation < generation'
        /\ TargetBank' \notin unread' => ~NewerAttempt'
    BY <1>8, BanksChangePlaces
  <2>3. disk' = disk /\ ram' = ram /\ mode' \in {"run", "room"} /\ unread' = unread \ {TargetBank}
    BY <1>8 DEF SaveDone, EndOfSave
  <2>4. BanksKnown'
    BY <2>1, <2>2, <2>3 DEF BanksKnown, ActiveBankIntact, ActiveBankRead, OtherBankOrdered
  <2>5. CleanIsStored'
    BY <2>1, <2>2, <2>3 DEF CleanIsStored
  <2> QED
    BY <1>2, <2>3, <2>4, <2>5 DEF SaveProgress, LoadProgress, BootIsFresh, Loading, Saving
<1>9. CASE Panic
  <2>1. /\ Parts /\ mode' \in {"panic", "room"} /\ UNCHANGED <<active, generation, unread>>
        /\ disk' \in CutOff
    BY <1>1, <1>9 DEF Panic, Up
  <2>2. TargetOnly
    BY <2>1, WrittenOrCutOff
  <2>3. BanksKnown'
    BY <2>1, <2>2, BanksKnownStep
  <2>4. CleanIsStored'
    BY <2>1 DEF CleanIsStored, Settled
  <2>5. SaveProgress'
    BY <1>9, CountAssumption DEF Panic, SaveProgress, Files, Saving
  <2> QED
    BY <1>2, <2>1, <2>3, <2>4, <2>5 DEF LoadProgress, BootIsFresh, Loading
<1>10. CASE PowerCut
  BY <1>2, <1>10 DEF PowerCut, Up
<1>11. CASE PowerOn
  <2>1. /\ mode' = "boot" /\ active' = NoBank /\ generation' = 0 /\ ~dirty' /\ unread' = Banks
        /\ 0 \in Banks /\ 1 \in Banks
    BY <1>11 DEF PowerOn, Banks
  <2>2. TargetBank' = 0
    BY <2>1 DEF TargetBank
  <2>3. BanksKnown'
    BY <2>1, <2>2 DEF BanksKnown, ActiveBankIntact, ActiveBankRead, OtherBankOrdered
  <2> QED
    BY <1>2, <2>1, <2>3 DEF SaveProgress, LoadProgress, BootIsFresh, CleanIsStored, Settled, Loading, Saving
<1>12. CASE LoadBegin
  <2>1. /\ Parts /\ UNCHANGED <<ram, dirty, active, generation, unread>> /\ disk' = disk /\ sector' = 0
        /\ \/ mode = "boot" /\ ram = Defaults /\ mode' = "restore"
           \/ mode = "run" /\ mode' = "load"
    BY <1>1, <1>12 DEF LoadBegin, Up
  <2>2. BanksKnown'
    BY <2>1, DiskUntouched, BanksKnownStep
  <2>3. CleanIsStored'
    BY <2>1, DiskUntouched, CleanStep DEF Settled
  <2>4. LoadProgress'
    BY <2>1, CountAssumption DEF LoadProgress, Files
  <2>5. BootIsFresh'
    BY <2>1 DEF BootIsFresh
  <2> QED
    BY <1>2, <2>1, <2>2, <2>3, <2>4, <2>5 DEF SaveProgress, Saving
<1>13. CASE LoadFails
  <2>1. /\ Parts /\ UNCHANGED <<ram, dirty, active, generation>> /\ disk' = disk /\ mode' = "run"
        /\ Loading /\ sector = 0
        /\ unread' = IF Best = NoBank THEN unread \cap missed ELSE unread
    BY <1>1, <1>13 DEF LoadFails, Loading, Up
  <2>2. TargetBank' = TargetBank /\ TargetBank \in Banks /\ 1 \in Banks
    BY <2>1, TargetIsOther DEF TargetBank, Banks
  <2>3. \A b \in Banks : b \in unread /\ b \notin unread' => ~Valid(disk[b])
    <3>1. Best = NoBank => \A x \in Banks \ missed : ~Valid(disk[x])
      BY BestIsNewest DEF Best, TypeOK
    <3> QED
      BY <2>1, <3>1
  <2>4. unread' \subseteq unread
    BY <2>1
  <2>5. BanksKnown'
    BY <2>1, <2>2, <2>3, <2>4 DEF BanksKnown, ActiveBankIntact, ActiveBankRead, OtherBankOrdered
  <2>6. CleanIsStored'
    <3>1. CASE mode = "load"
      BY <2>1, <2>2, <2>3, <3>1 DEF CleanIsStored, Settled, NewerAttempt
    <3>2. CASE mode = "restore"
      <4>1. active = NoBank /\ ram = Defaults /\ unread = Banks
        BY <2>1, <3>2 DEF BootIsFresh
      <4> QED
        BY <2>1, <2>2, <2>3, <4>1 DEF CleanIsStored, NewerAttempt
    <3> QED
      BY <2>1, <3>1, <3>2 DEF Loading
  <2> QED
    BY <1>2, <2>1, <2>5, <2>6 DEF SaveProgress, LoadProgress, BootIsFresh, Loading, Saving
<1>14. CASE LoadFile
  <2>1. /\ Parts /\ UNCHANGED <<dirty, active, generation, unread>> /\ disk' = disk /\ mode' = mode /\ Loading
        /\ Best' = Best /\ Best # NoBank /\ sector' = sector + 1 /\ sector < NFiles
        /\ ram' = [ram EXCEPT ![sector + 1] = disk[Best].body[sector + 1]]
    BY <1>1, <1>14 DEF LoadFile, Loading, Up, Best
  <2>2. BanksKnown'
    BY <2>1, DiskUntouched, BanksKnownStep
  <2>3. sector' # 0 /\ sector' <= NFiles /\ ~Settled'
    BY <2>1, CountAssumption DEF TypeOK, Settled, Loading
  <2>4. LoadProgress'
    <3> SUFFICES ASSUME NEW f \in Files, f <= sector + 1 PROVE ram'[f] = disk[Best].body[f]
      BY <2>1, <2>3 DEF LoadProgress
    <3>1. f = sector + 1 \/ f <= sector
      BY CountAssumption DEF TypeOK, Files
    <3> QED
      BY <2>1, <3>1 DEF LoadProgress, TypeOK, Images
  <2>5. CleanIsStored' /\ BootIsFresh'
    BY <2>1, <2>3 DEF CleanIsStored, BootIsFresh
  <2> QED
    BY <1>2, <2>1, <2>2, <2>4, <2>5 DEF SaveProgress, Saving, Loading
<1>15. CASE LoadDone
  <2>1. BanksKnown' /\ CleanIsStored' /\ mode' = "run"
    BY <1>15, LoadEstablishes DEF LoadDone
  <2> QED
    BY <1>2, <2>1 DEF SaveProgress, LoadProgress, BootIsFresh, Loading, Saving
<1>16. CASE UNCHANGED vars
  BY <1>16 DEF vars, StoreInv, ActiveBankIntact, ActiveBankRead, OtherBankOrdered, SaveProgress, LoadProgress,
               BootIsFresh, CleanIsStored, NewerAttempt, TargetBank, SavedHeader, NextGeneration, Saving,
               Loading, Settled, Best, Up
<1> QED
  BY <1>3, <1>4, <1>5, <1>6, <1>7, <1>8, <1>9, <1>10, <1>11, <1>12, <1>13, <1>14, <1>15, <1>16 DEF Next

\* The inductive invariant of the store: the active bank is whole and of the
\* generation the kernel believes, the other bank is only ever newer, older or
\* unknown, what is clean is stored, and a load or save has done what it has.
THEOREM StoreInvariant == Spec => []StoreInv
<1>1. Init => TypeOK /\ SaveBounded /\ StoreInv
  <2>1. Init => TypeOK /\ SaveBounded
    BY InitType
  <2> QED
    BY <2>1 DEF Init, StoreInv, Up
<1>2. TypeOK /\ SaveBounded /\ StoreInv /\ [Next]_vars => (TypeOK /\ SaveBounded /\ StoreInv)'
  BY TypeStep, StoreInvStep
<1> QED
  BY <1>1, <1>2, PTL DEF Spec

-----------------------------------------------------------------------------
\* What a boot restores from a disk d whose bank a is valid and of generation
\* g, and whose other bank t is broken, newer, or older: a constant fact.
LEMMA RecoverFrom ==
  ASSUME NEW d \in Disks, NEW a \in Banks \cup {NoBank}, NEW g \in Nat, NEW t,
         t = IF a = NoBank THEN 0 ELSE 1 - a,
         IF a = NoBank THEN ~Valid(d[1]) /\ g = 0
                       ELSE Valid(d[a]) /\ d[a].header.generation = g,
         Valid(d[t]) => \/ d[t].header.generation > g
                        \/ a # NoBank /\ d[t].header.generation < g
                        \/ a = 1 /\ d[t].header.generation = g
  PROVE  Recover(d) =
           IF Valid(d[t]) /\ d[t].header.generation > g THEN d[t].body
             ELSE IF a = NoBank THEN NoImage ELSE d[a].body
<1>1. d[0].header.generation \in Nat /\ d[1].header.generation \in Nat
  BY DEF Banks, Headers, Disks
<1>2. CASE a = NoBank
  BY <1>1, <1>2, SentinelAssumption DEF Recover, BestBank, Banks
<1>3. CASE a = 0
  BY <1>1, <1>3, SentinelAssumption DEF Recover, BestBank, Banks
<1>4. CASE a = 1
  BY <1>1, <1>4, SentinelAssumption DEF Recover, BestBank, Banks
<1> QED
  BY <1>2, <1>3, <1>4 DEF Banks

\* In particular from the disk of a kernel that knows its banks.
LEMMA RecoverKnown ==
  ASSUME TypeOK, BanksKnown, Known, CountRecorded
  PROVE  Recover(disk) =
           IF NewerAttempt THEN disk[TargetBank].body
             ELSE IF active = NoBank THEN NoImage ELSE disk[active].body
<1>1. active # NoBank => Valid(disk[active])
  BY DEF BanksKnown, ActiveBankIntact, Known, CountRecorded, Intact, Valid, TypeOK
<1>2. disk \in Disks /\ active \in Banks \cup {NoBank} /\ generation \in Nat
  BY GenerationAssumption DEF TypeOK
<1> QED
  BY <1>1, <1>2, RecoverFrom
     DEF BanksKnown, ActiveBankIntact, OtherBankOrdered, TargetBank, NewerAttempt, Known

\* The same of the disk a step that ends the session leaves.
LEMMA RecoverLeft ==
  ASSUME TypeOK, TypeOK', SaveBounded, BanksKnown, Known, CountRecorded, TargetOnly
  PROVE  Recover(disk') =
           IF Valid(disk'[TargetBank]) /\ disk'[TargetBank].header.generation > generation
             THEN disk'[TargetBank].body
             ELSE IF active = NoBank THEN NoImage ELSE disk[active].body
<1>1. active # NoBank => Valid(disk[active])
  BY DEF BanksKnown, ActiveBankIntact, Known, CountRecorded, Intact, Valid, TypeOK
<1>2. disk' \in Disks /\ active \in Banks \cup {NoBank} /\ generation \in Nat
  BY GenerationAssumption DEF TypeOK
<1>3. /\ active # NoBank => disk'[active] = disk[active]
      /\ active = NoBank => disk'[1] = disk[1]
  BY TargetIsOther DEF TargetOnly, Banks
<1>4. /\ disk'[TargetBank] = disk[TargetBank]
      \/ ~Valid(disk'[TargetBank])
      \/ disk'[TargetBank].header.generation > generation
  BY SavedFields DEF TargetOnly, Valid, SaveBounded, TypeOK
<1> QED
  BY <1>1, <1>2, <1>3, <1>4, RecoverFrom
     DEF BanksKnown, ActiveBankIntact, OtherBankOrdered, TargetBank, Known

\* A header keeps its count whatever becomes of the sectors of its bank.
LEMMA CountRecordedStep ==
  ASSUME TypeOK, CountRecorded, [Next]_vars
  PROVE  CountRecorded'
<1>1. ASSUME NEW s, NEW b \in Banks
      PROVE  /\ Written(disk, s)[b].header.magic => Written(disk, s)[b].header.count = NFiles
             /\ Lost(disk, s)[b].header.magic => Lost(disk, s)[b].header.count = NFiles
  <2>1. disk[b].header.magic => disk[b].header.count = NFiles
    BY <1>1 DEF CountRecorded
  <2>2. disk[b] \in [header : Headers, body : [Files -> Values \cup {Garbage}]]
    BY <1>1 DEF TypeOK, Disks
  <2>3. DOMAIN disk = Banks
    BY <1>1 DEF TypeOK, Disks
  <2>4. SavedHeader.count = NFiles /\ ~NoHeader.magic
    BY DEF SavedHeader, NoHeader
  <2>5. /\ WithSector(disk[b], s).header \in {disk[b].header, SavedHeader}
        /\ WithLostSector(disk[b], s).header \in {disk[b].header, NoHeader}
    BY <2>2 DEF WithSector, WithLostSector
  <2>6. CASE b = TargetBank
    <3>1. Written(disk, s)[b] = WithSector(disk[b], s) /\ Lost(disk, s)[b] = WithLostSector(disk[b], s)
      BY <2>3, <2>6 DEF Written, Lost
    <3> QED
      BY <2>1, <2>4, <2>5, <3>1
  <2>7. CASE b # TargetBank
    BY <2>1, <2>3, <2>7 DEF Written, Lost
  <2> QED
    BY <2>6, <2>7
<1>2. ASSUME disk' \in CutOff PROVE CountRecorded'
  BY <1>1, <1>2 DEF CountRecorded, CutOff
<1>3. ASSUME disk' = Written(disk, sector) PROVE CountRecorded'
  BY <1>1, <1>3 DEF CountRecorded
<1>4. ASSUME disk' = disk PROVE CountRecorded'
  BY <1>4 DEF CountRecorded
<1>5. CASE WriteSector \/ WriteFails \/ Panic \/ PowerCut
  BY <1>2, <1>3, <1>5 DEF WriteSector, WriteFails, Panic, PowerCut
<1>6. CASE Edit \/ EditUnmarked \/ FillDefault \/ SaveBegin \/ SaveDone \/ PowerOn \/ UNCHANGED vars
  BY <1>4, <1>6 DEF Edit, EditUnmarked, FillDefault, SaveBegin, SaveDone, PowerOn, storeVars, vars
<1>7. CASE LoadBegin \/ LoadFails \/ LoadFile \/ LoadDone
  BY <1>4, <1>7 DEF LoadBegin, LoadFails, LoadFile, LoadDone, storeVars
<1> QED
  BY <1>5, <1>6, <1>7 DEF Next

LEMMA CountIsRecorded == Spec => []CountRecorded
<1>1. Init => CountRecorded
  BY DEF Init, CountRecorded, BlankBank, NoHeader
<1> QED
  BY <1>1, TypeCorrect, CountRecordedStep, PTL DEF Spec

\* With more files than the loader accepts nothing that was ever saved comes
\* back: the theorem of the build as it is, with 54 entries against 32.
THEOREM OversizeTableNeverRestoredHolds == Spec => []OversizeTableNeverRestored
<1>1. CountRecorded => OversizeTableNeverRestored
  <2> SUFFICES ASSUME CountRecorded, NFiles > LoadCountMax PROVE Recover(disk) = NoImage
    BY DEF OversizeTableNeverRestored
  <2>1. \A b \in Banks : ~Valid(disk[b])
    BY CountAssumption DEF CountRecorded, Intact, Valid
  <2> QED
    BY <2>1 DEF Recover, BestBank, Banks
<1> QED
  BY <1>1, CountIsRecorded, PTL

LEMMA CleanIsDurable == ASSUME TypeOK, StoreInv, CountRecorded PROVE CleanMeansDurable
<1> SUFFICES ASSUME mode \in {"run", "save"}, ~dirty, NEW f \in Marked
             PROVE  /\ active # NoBank => Intact(disk[active]) /\ disk[active].body[f] = ram[f]
                    /\ Known => RestoredByBoot[f] = ram[f]
  BY DEF CleanMeansDurable
<1>1. BanksKnown /\ CleanIsStored /\ Settled
  BY DEF StoreInv, BanksKnown, Up, Settled
<1>2. /\ ram[f] = IF active = NoBank THEN Defaults[f] ELSE disk[active].body[f]
      /\ TargetBank \notin unread /\ NewerAttempt => disk[TargetBank].body[f] = ram[f]
  BY <1>1 DEF CleanIsStored
<1>3. active # NoBank => Intact(disk[active]) /\ disk[active].body[f] = ram[f]
  BY <1>1, <1>2 DEF BanksKnown, ActiveBankIntact
<1>4. ASSUME Known PROVE RestoredByBoot[f] = ram[f]
  <2>1. Recover(disk) = IF NewerAttempt THEN disk[TargetBank].body
                          ELSE IF active = NoBank THEN NoImage ELSE disk[active].body
    BY <1>1, <1>4, RecoverKnown
  <2>2. disk \in Disks /\ TargetBank \in Banks /\ (active # NoBank => active \in Banks)
    BY TargetIsOther DEF TypeOK
  <2>3. NewerAttempt => disk[TargetBank].body # NoImage
    BY <2>2, IntactIsImage DEF NewerAttempt, Valid
  <2>4. active # NoBank => disk[active].body # NoImage
    BY <1>3, <2>2, IntactIsImage
  <2> QED
    BY <1>2, <1>4, <2>1, <2>3, <2>4 DEF RestoredByBoot, Known
<1> QED
  BY <1>3, <1>4

\* A clear s_fs_dirty is the truth about every file whose writers mark it: the
\* active bank is whole and holds the file as it is, and a kernel that knows
\* its banks will find it so after a reboot at that instant.
THEOREM CleanMeansDurableHolds == Spec => []CleanMeansDurable
  BY TypeCorrect, StoreInvariant, CountIsRecorded, CleanIsDurable, PTL

LEMMA AcknowledgedStep ==
  ASSUME TypeOK, TypeOK', SaveBounded, StoreInv, StoreInv', CountRecorded, SaveDone
  PROVE  /\ Intact(disk'[active']) /\ disk'[active'].body = ram'
         /\ Known' => Recover(disk') = ram'
<1>1. /\ Intact(disk[TargetBank])
      /\ disk[TargetBank].body = ram
      /\ disk[TargetBank].header.generation = generation + 1
      /\ disk[TargetBank].header.count = NFiles
  BY FinishedBankIsWhole
<1>2. /\ active' = TargetBank /\ active' # NoBank /\ generation' = generation + 1
      /\ TargetBank' \notin unread' /\ Valid(disk[TargetBank']) =>
           disk[TargetBank'].header.generation < generation'
  BY BanksChangePlaces
<1>3. disk' = disk /\ ram' = ram
  BY DEF SaveDone
<1>4. ASSUME Known' PROVE Recover(disk') = ram'
  <2>1. Valid(disk[TargetBank]) /\ unread' = {}
    BY <1>1, <1>4 DEF Known, Valid
  <2>2. disk \in Disks /\ active' \in Banks \cup {NoBank} /\ generation' \in Nat
    BY GenerationAssumption DEF TypeOK
  <2>3. TargetBank' = 1 - active' /\ TargetBank' \in {0, 1}
    BY <1>2, <2>2 DEF TargetBank, Banks
  <2>4. /\ Valid(disk[active']) /\ disk[active'].header.generation = generation'
        /\ disk[active'].body = ram
    BY <1>1, <1>2, <2>1
  <2>5. disk[TargetBank'].header.generation \in Nat
    <3>1. \A x \in {0, 1} : disk[x].header.generation \in Nat
      BY <2>2, GenerationAssumption DEF Disks, Headers, Banks
    <3> QED
      BY <2>3, <3>1
  <2>6. ~(Valid(disk[TargetBank']) /\ disk[TargetBank'].header.generation > generation')
    BY <1>2, <2>1, <2>2, <2>5
  <2>7. Valid(disk[TargetBank']) => disk[TargetBank'].header.generation < generation'
    BY <1>2, <2>1
  <2>8. Recover(disk) = disk[active'].body
    <3> HIDE DEF Recover, Valid
    <3>1. TargetBank' = IF active' = NoBank THEN 0 ELSE 1 - active'
      BY <1>2, <2>3
    <3> QED
      BY <1>2, <2>2, <2>4, <2>6, <2>7, <3>1, RecoverFrom
  <2> QED
    BY <1>3, <2>4, <2>8
<1> QED
  BY <1>1, <1>2, <1>3, <1>4

\* A save that reports success has stored the files as they are in a whole
\* bank, which the next boot restores if the kernel knew its banks.
THEOREM AcknowledgedHolds == Spec => AcknowledgedMeansRestored
<1>1. TypeOK /\ TypeOK' /\ SaveBounded /\ StoreInv /\ StoreInv' /\ CountRecorded /\ [Next]_vars =>
        [SaveDone => /\ Intact(disk'[active']) /\ disk'[active'].body = ram'
                     /\ Known' => Recover(disk') = ram']_vars
  BY AcknowledgedStep
<1>2. Spec => []SaveBounded
  BY InitType, TypeStep, PTL DEF Spec
<1> QED
  BY <1>1, <1>2, TypeCorrect, StoreInvariant, CountIsRecorded, PTL DEF Spec, AcknowledgedMeansRestored

-----------------------------------------------------------------------------
(***************************************************************************)
(* The refinement: every step of the sector-by-sector store is a step of   *)
(* the atomic one, or a stutter.                                           *)
(***************************************************************************)
\* What a boot would restore is a whole image on the disk, and there is one if
\* a scan of some of the banks finds one.
LEMMA RecoverIsKept ==
  ASSUME NEW d \in Disks
  PROVE  /\ Recover(d) \in WholeImages(d) \cup {NoImage}
         /\ \A readable \in SUBSET Banks :
              BestBank(d, readable) # NoBank => Recover(d) \in WholeImages(d) /\ Recover(d) # NoImage
<1>1. BestBank(d, Banks) # NoBank => /\ BestBank(d, Banks) \in Banks
                                     /\ Valid(d[BestBank(d, Banks)])
  BY BestIsNewest
<1>2. BestBank(d, Banks) # NoBank => Recover(d) \in WholeImages(d) /\ Recover(d) # NoImage
  BY <1>1, IntactIsImage DEF Recover, WholeImages, Valid
<1>3. \A readable \in SUBSET Banks : BestBank(d, readable) # NoBank => BestBank(d, Banks) # NoBank
  BY SentinelAssumption DEF BestBank, Banks
<1>4. BestBank(d, Banks) = NoBank => Recover(d) = NoImage
  BY DEF Recover
<1> QED
  BY <1>2, <1>3, <1>4

\* A whole image appears on the disk only by a save, and is RAM's.
LEMMA KeptStep ==
  ASSUME TypeOK, SaveBounded, TargetOnly
  PROVE  WholeImages(disk') \subseteq WholeImages(disk) \cup {ram}
<1> SUFFICES ASSUME NEW b \in Banks, Intact(disk'[b])
             PROVE  disk'[b].body \in WholeImages(disk) \cup {ram}
  BY DEF WholeImages
<1>1. CASE disk'[b] = disk[b]
  BY <1>1 DEF WholeImages
<1>2. CASE disk'[b] # disk[b]
  <2>1. b = TargetBank /\ Saving /\ disk'[TargetBank].header = SavedHeader
    BY <1>2 DEF TargetOnly
  <2> QED
    BY <2>1, SavedFields DEF Intact, SaveBounded
<1> QED
  BY <1>1, <1>2

\* The committed image, the attempts and the phase of a kernel that does not
\* know its banks.
LEMMA Unknown ==
  ~(Up /\ Known) => CommittedImage = Recover(disk) /\ UnacknowledgedImages = {}
  BY DEF CommittedImage, UnacknowledgedImages

\* A step that leaves the kernel running on the same active bank is abstract
\* work, or groping when it does not know its banks.
LEMMA WorkStep ==
  ASSUME TypeOK, TypeOK', SaveBounded, StoreInv, Up, Up', TargetOnly,
         mode \notin {"boot", "restore"}, mode' \notin {"boot", "restore"},
         UNCHANGED <<active, generation, unread>>,
         ram' = ram \/ ~Intact(disk'[TargetBank]) \/ disk'[TargetBank] = disk[TargetBank]
  PROVE  Durable!Work \/ Durable!Grope
<1>1. TargetBank' = TargetBank /\ (active # NoBank => active \in Banks \ {TargetBank}) /\ TargetBank \in Banks
  BY TargetIsOther DEF TargetBank
<1>2. Known' = Known /\ ram' \in Images
  BY DEF Known, TypeOK
<1>3. WholeImages(disk') \subseteq WholeImages(disk) \cup {ram'}
  <2>1. CASE ram' = ram
    BY <2>1, KeptStep
  <2>2. CASE ~Intact(disk'[TargetBank]) \/ disk'[TargetBank] = disk[TargetBank]
    BY <2>2 DEF TargetOnly, WholeImages
  <2> QED
    BY <2>1, <2>2
<1>4. CASE Known
  <2>1. Phase = "known" /\ Phase' = "known"
    BY <1>2, <1>4 DEF Phase
  <2>2. CommittedImage' = CommittedImage
    BY <1>1, <1>2, <1>4 DEF CommittedImage, TargetOnly
  <2>3. NewerAttempt' => disk'[TargetBank].body = ram' \/ (NewerAttempt /\ disk'[TargetBank] = disk[TargetBank])
    BY <1>1, SavedFields DEF NewerAttempt, TargetOnly, Valid, Intact, SaveBounded
  <2>4. UnacknowledgedImages' \subseteq UnacknowledgedImages \cup {ram'}
    BY <1>1, <1>2, <1>4, <2>3 DEF UnacknowledgedImages
  <2> QED
    BY <1>2, <1>3, <2>1, <2>2, <2>4 DEF Durable!Work
<1>5. CASE ~Known
  <2>1. Phase = "blind" /\ Phase' = "blind"
    BY <1>2, <1>5 DEF Phase
  <2>2. CommittedImage' = Recover(disk') /\ UnacknowledgedImages = {} /\ UnacknowledgedImages' = {}
    BY <1>2, <1>5 DEF CommittedImage, UnacknowledgedImages
  <2>3. Recover(disk') \in WholeImages(disk') \cup {NoImage}
    BY RecoverIsKept DEF TypeOK
  <2> QED
    BY <1>2, <1>3, <2>1, <2>2, <2>3 DEF Durable!Grope
<1> QED
  BY <1>4, <1>5


\* A step that ends the session leaves a disk from which a reboot restores
\* what the abstract store says.
LEMMA CrashStep ==
  ASSUME TypeOK, TypeOK', SaveBounded, StoreInv, CountRecorded, Up, ~Up', TargetOnly,
         ~Saving => disk' = disk
  PROVE  Durable!Crash
<1>1. /\ ram' \in Images /\ disk' \in Disks /\ Phase' = "off" /\ Phase # "off"
      /\ CommittedImage' = Recover(disk') /\ UnacknowledgedImages' = {}
  BY DEF TypeOK, Phase, CommittedImage, UnacknowledgedImages
<1>2. WholeImages(disk') \subseteq WholeImages(disk) \cup {ram}
  BY KeptStep
<1>3. Recover(disk') \in WholeImages(disk') \cup {NoImage}
  BY <1>1, RecoverIsKept
<1>4. CASE mode \in {"boot", "restore"}
  <2>1. Phase = "waking" /\ ~Saving /\ ~Known
    BY <1>4 DEF Phase, Saving, StoreInv, BootIsFresh, Known, Up, Banks
  <2>2. disk' = disk /\ CommittedImage' = CommittedImage
    BY <1>1, <2>1 DEF CommittedImage
  <2> QED
    BY <1>1, <2>1, <2>2 DEF Durable!Crash
<1>5. CASE mode \notin {"boot", "restore"} /\ ~Known
  <2>1. Phase = "blind"
    BY <1>5 DEF Phase
  <2> QED
    BY <1>1, <1>2, <1>3, <2>1 DEF Durable!Crash
<1>6. CASE mode \notin {"boot", "restore"} /\ Known
  <2>1. Phase = "known"
    BY <1>6 DEF Phase
  <2>2. Recover(disk') = IF Valid(disk'[TargetBank]) /\ disk'[TargetBank].header.generation > generation
                           THEN disk'[TargetBank].body
                           ELSE CommittedImage
    BY <1>6, RecoverLeft DEF StoreInv, BanksKnown, CommittedImage
  <2>3. Recover(disk') \in UnacknowledgedImages \cup {CommittedImage}
    BY <1>6, <2>2, SavedFields DEF TargetOnly, UnacknowledgedImages, NewerAttempt, Valid, Intact, SaveBounded
  <2> QED
    BY <1>1, <1>2, <2>1, <2>3 DEF Durable!Crash
<1> QED
  BY <1>4, <1>5, <1>6


\* A load that fails: the boot ends with the defaults, and a kernel may have
\* learned that a bank it had not read holds nothing.
LEMMA LoadFailsRefines ==
  ASSUME TypeOK, TypeOK', SaveBounded, StoreInv, StoreInv', CountRecorded, CountRecorded', LoadFails
  PROVE  [Durable!Next]_Durable!vars
<1> USE DEF storeVars, Durable!Next
<1>1. /\ UNCHANGED <<ram, dirty, active, generation>> /\ disk' = disk /\ mode' = "run" /\ sector = 0
      /\ unread' = IF Best = NoBank THEN unread \cap missed ELSE unread
      /\ mode \in {"restore", "load"}
  BY DEF LoadFails, Loading
<1>2. Up /\ Up' /\ ~Saving /\ ~Saving' /\ TargetBank' = TargetBank /\ NewerAttempt' = NewerAttempt
  BY <1>1 DEF Up, Saving, TargetBank, NewerAttempt
<1>3. Known => Known' /\ unread' = unread
  BY <1>1 DEF Known
<1>4. BanksKnown /\ BanksKnown' /\ BootIsFresh
  BY <1>2 DEF StoreInv, BanksKnown
<1>5. CASE mode = "restore"
  <2>1. active = NoBank /\ unread = Banks /\ ram = Defaults /\ ~Known
    BY <1>1, <1>4, <1>5 DEF BootIsFresh, Known, Banks
  <2>2. Phase = "waking" /\ CommittedImage = Recover(disk) /\ UnacknowledgedImages = {}
    BY <1>5, <2>1, Unknown DEF Phase, Up
  <2>3. CASE Known'
    <3>1. Best = NoBank /\ missed = {}
      BY <1>1, <2>1, <2>3 DEF Known, TypeOK, Banks
    <3>2. \A x \in Banks : ~Valid(disk[x])
      BY <3>1, BestIsNewest DEF Best, TypeOK
    <3>3. Recover(disk) = NoImage
      BY <3>2 DEF Recover, BestBank, Banks
    <3>4. Phase' = "known" /\ CommittedImage' = NoImage
      BY <1>1, <1>2, <2>1, <2>3 DEF Phase, CommittedImage
    <3>5. UnacknowledgedImages' = {}
      BY <1>1, <1>2, <3>2, TargetIsOther DEF UnacknowledgedImages, NewerAttempt
    <3> QED
      BY <1>1, <2>1, <2>2, <3>3, <3>4, <3>5 DEF Durable!Woken, Durable!Restored
  <2>4. CASE ~Known'
    <3>1. Phase' = "blind" /\ CommittedImage' = Recover(disk) /\ UnacknowledgedImages' = {}
      BY <1>1, <1>2, <2>4 DEF Phase, CommittedImage, UnacknowledgedImages
    <3> QED
      BY <1>1, <2>1, <2>2, <3>1 DEF Durable!Woken
  <2> QED
    BY <2>3, <2>4
<1>6. CASE mode = "load" /\ Known
  BY <1>1, <1>2, <1>3, <1>6, DiskUntouched, WorkStep
<1>7. CASE mode = "load" /\ ~Known /\ ~Known'
  <2>1. Phase = "blind" /\ Phase' = "blind"
    BY <1>1, <1>2, <1>7 DEF Phase
  <2>2. CommittedImage' = CommittedImage /\ UnacknowledgedImages' = UnacknowledgedImages
    BY <1>1, <1>7 DEF CommittedImage, UnacknowledgedImages
  <2> QED
    BY <1>1, <2>1, <2>2 DEF Durable!vars
<1>8. CASE mode = "load" /\ ~Known /\ Known'
  <2>1. Phase = "blind" /\ Phase' = "known" /\ CommittedImage = Recover(disk)
    BY <1>1, <1>2, <1>8, Unknown DEF Phase
  <2>2. /\ CommittedImage' = IF active = NoBank THEN NoImage ELSE disk[active].body
        /\ UnacknowledgedImages' = IF NewerAttempt THEN {disk[TargetBank].body} ELSE {}
    BY <1>1, <1>2, <1>8 DEF CommittedImage, UnacknowledgedImages
  <2>3. Recover(disk) = IF NewerAttempt THEN disk[TargetBank].body
                          ELSE IF active = NoBank THEN NoImage ELSE disk[active].body
    <3>1. active # NoBank => Valid(disk[active]) /\ disk[active].header.generation = generation
      BY <1>4, <1>8 DEF BanksKnown, ActiveBankIntact, Known, CountRecorded, Intact, Valid, TypeOK
    <3>2. disk \in Disks /\ active \in Banks \cup {NoBank} /\ generation \in Nat
      BY GenerationAssumption DEF TypeOK
    <3>3. /\ active = NoBank => ~Valid(disk[1]) /\ generation = 0
          /\ Valid(disk[TargetBank]) => \/ disk[TargetBank].header.generation > generation
                                        \/ active # NoBank /\ disk[TargetBank].header.generation < generation
                                        \/ active = 1 /\ disk[TargetBank].header.generation = generation
      BY <1>1, <1>2, <1>4, <1>8 DEF BanksKnown, ActiveBankIntact, OtherBankOrdered, Known
    <3> QED
      BY <3>1, <3>2, <3>3, RecoverFrom DEF TargetBank, NewerAttempt
  <2>4. NewerAttempt => disk[TargetBank].body \in WholeImages(disk)
    BY TargetIsOther DEF NewerAttempt, Valid, WholeImages
  <2>5. active # NoBank => disk[active].body \in WholeImages(disk)
    BY <1>4, TargetIsOther DEF BanksKnown, ActiveBankIntact, WholeImages
  <2> QED
    BY <1>1, <2>1, <2>2, <2>3, <2>4, <2>5 DEF Durable!Learn
<1> QED
  BY <1>1, <1>5, <1>6, <1>7, <1>8

\* A load that is complete: RAM is one image of the disk, and the newest when
\* every bank was read.
LEMMA LoadDoneRefines ==
  ASSUME TypeOK, TypeOK', SaveBounded, StoreInv, StoreInv', CountRecorded, LoadDone
  PROVE  [Durable!Next]_Durable!vars
<1> USE DEF Durable!Next
<1>1. /\ ram' = ram /\ disk' = disk /\ mode' = "run" /\ unread' = missed /\ mode \in {"restore", "load"}
  BY DEF LoadDone, Loading
<1>2. /\ active' = Best /\ Best # NoBank /\ ram = disk[Best].body /\ Valid(disk[Best])
      /\ TargetBank' \notin unread' => ~NewerAttempt'
  BY LoadEstablishes
<1>3. Up /\ Up' /\ ~Saving'
  BY <1>1 DEF Up, Saving
<1>4. ram \in WholeImages(disk)
  BY <1>2, BestType DEF WholeImages, Valid
<1>5. Recover(disk) \in WholeImages(disk)
  BY <1>2, RecoverIsKept DEF TypeOK, Best
<1>6. missed = {} => Recover(disk) = ram /\ ram # NoImage
  <2>1. missed = {} => Best = BestBank(disk, Banks)
    BY DEF Best
  <2> QED
    BY <1>2, <1>5, <2>1, BestType, SentinelAssumption DEF Recover
<1>7. Known' => missed = {} /\ Phase' = "known" /\ CommittedImage' = ram /\ UnacknowledgedImages' = {}
  BY <1>1, <1>2, <1>3 DEF Known, Phase, CommittedImage, UnacknowledgedImages
<1>8. ~Known' => Phase' = "blind" /\ CommittedImage' = Recover(disk) /\ UnacknowledgedImages' = {}
  BY <1>1, <1>3 DEF Phase, CommittedImage, UnacknowledgedImages
<1>9. CASE ~Known
  <2>1. /\ CommittedImage = Recover(disk) /\ UnacknowledgedImages = {}
        /\ Phase = IF mode = "restore" THEN "waking" ELSE "blind"
    BY <1>1, <1>3, <1>9, Unknown DEF Phase
  <2>2. CASE Known' /\ mode = "restore"
    BY <1>1, <1>6, <1>7, <2>1, <2>2 DEF Durable!Woken, Durable!Restored
  <2>3. CASE Known' /\ mode # "restore"
    BY <1>1, <1>4, <1>6, <1>7, <2>1, <2>3 DEF Durable!Learn
  <2>4. CASE ~Known' /\ mode = "restore"
    BY <1>1, <1>4, <1>8, <2>1, <2>4 DEF Durable!Woken
  <2>5. CASE ~Known' /\ mode # "restore"
    BY <1>1, <1>8, <2>1, <2>5 DEF Durable!vars
  <2> QED
    BY <2>2, <2>3, <2>4, <2>5
<1>10. CASE Known
  <2>1. mode = "load"
    BY <1>1, <1>10 DEF StoreInv, BootIsFresh, Up, Known, Banks
  <2>2. Phase = "known"
    BY <1>3, <1>10, <2>1 DEF Phase
  <2>3. Recover(disk) \in UnacknowledgedImages \cup {CommittedImage}
    BY <1>3, <1>10, RecoverKnown DEF StoreInv, BanksKnown, UnacknowledgedImages, CommittedImage
  <2>4. CASE Known'
    BY <1>1, <1>6, <1>7, <2>2, <2>3, <2>4 DEF Durable!Reload
  <2>5. CASE ~Known'
    BY <1>1, <1>4, <1>5, <1>8, <2>2, <2>5 DEF Durable!Lose
  <2> QED
    BY <2>4, <2>5
<1> QED
  BY <1>9, <1>10

LEMMA RefinementStep ==
  ASSUME TypeOK, TypeOK', SaveBounded, StoreInv, StoreInv', CountRecorded, CountRecorded', [Next]_vars
  PROVE  [Durable!Next]_Durable!vars
<1> USE DEF storeVars, Durable!Next
<1> DEFINE Same == /\ WholeImages(disk') = WholeImages(disk) /\ Recover(disk') = Recover(disk)
<1>1. disk' = disk => Same
  OBVIOUS
<1>2. mode \in {"boot", "restore"} => ~dirty /\ active = NoBank /\ unread = Banks /\ ~Known
  BY DEF StoreInv, BootIsFresh, Up, Known, Banks
<1>3. CASE Edit \/ EditUnmarked
  <2>1. /\ mode \in {"run", "room"} /\ mode' = mode /\ UNCHANGED <<active, generation, unread>> /\ disk' = disk
    BY <1>3 DEF Edit, EditUnmarked
  <2> QED
    BY <2>1, DiskUntouched, WorkStep DEF Up
<1>4. CASE FillDefault
  <2>1. mode = "boot" /\ mode' = "boot" /\ disk' = disk /\ unread' = unread
    BY <1>4 DEF FillDefault
  <2>2. Phase = "waking" /\ Phase' = "waking" /\ ~Known /\ ~Known'
    BY <1>2, <2>1 DEF Phase, Up, Known
  <2>3. /\ CommittedImage' = CommittedImage /\ UnacknowledgedImages' = UnacknowledgedImages
        /\ ram' \in Images
    BY <2>1, <2>2 DEF CommittedImage, UnacknowledgedImages, TypeOK
  <2> QED
    BY <1>1, <2>1, <2>2, <2>3 DEF Durable!Wake
<1>5. CASE SaveBegin
  <2>1. /\ mode = "run" /\ mode' = "save" /\ UNCHANGED <<ram, active, generation, unread>> /\ disk' = disk
    BY <1>5 DEF SaveBegin
  <2> QED
    BY <2>1, DiskUntouched, WorkStep DEF Up
<1>6. CASE WriteSector
  <2>1. /\ Writing /\ mode \in {"save", "panic"} /\ mode' = mode /\ UNCHANGED <<ram, active, generation, unread>>
        /\ disk' = Written(disk, sector) /\ SaveProgress
    BY <1>6 DEF WriteSector, Writing, Saving, StoreInv, Up
  <2>2. TargetOnly
    BY <2>1, WrittenOrCutOff
  <2> QED
    BY <2>1, <2>2, WorkStep DEF Up
<1>7. CASE WriteFails
  <2>1. /\ Writing /\ Saving /\ UNCHANGED <<ram, active, generation, unread>> /\ SaveProgress
        /\ disk' \in CutOff \/ disk' = Written(disk, sector)
        /\ mode \in {"save", "panic"} /\ mode' \in {"run", "room"}
    BY <1>7 DEF WriteFails, Writing, Saving, EndOfSave, StoreInv, Up
  <2>2. TargetOnly
    BY <2>1, WrittenOrCutOff
  <2> QED
    BY <2>1, <2>2, WorkStep DEF Up
<1>8. CASE SaveDone
  <2>1. /\ Intact(disk[TargetBank])
        /\ disk[TargetBank].body = ram
    BY <1>8, FinishedBankIsWhole
  <2>2. /\ active' = TargetBank /\ active' # NoBank
        /\ TargetBank' \notin unread' => ~NewerAttempt'
    BY <1>8, BanksChangePlaces
  <2>3. /\ disk' = disk /\ ram' = ram /\ unread' = unread \ {TargetBank}
        /\ mode \in {"save", "panic"} /\ mode' \in {"run", "room"}
    BY <1>8 DEF SaveDone, EndOfSave, Saving
  <2>4. CASE Known'
    <3>1. Phase' = "known" /\ Phase \in {"known", "blind"}
      BY <2>3, <2>4 DEF Phase, Up
    <3>2. CommittedImage' = ram /\ UnacknowledgedImages' = {}
      BY <2>1, <2>2, <2>3, <2>4 DEF CommittedImage, UnacknowledgedImages, Up, Known, Saving
    <3>3. ram \in WholeImages(disk)
      BY <2>1, TargetIsOther DEF WholeImages
    <3> QED
      BY <1>1, <2>3, <3>1, <3>2, <3>3 DEF Durable!Sync
  <2>5. CASE ~Known'
    <3>1. ~Known
      BY <2>3, <2>5 DEF Known
    <3>2. Phase = "blind" /\ Phase' = "blind"
      BY <2>3, <2>5, <3>1 DEF Phase, Up
    <3>3. CommittedImage' = CommittedImage /\ UnacknowledgedImages' = UnacknowledgedImages
      BY <2>3, <2>5, <3>1 DEF CommittedImage, UnacknowledgedImages
    <3> QED
      BY <1>1, <2>3, <3>2, <3>3 DEF Durable!vars
  <2> QED
    BY <2>4, <2>5
<1>9. CASE Panic
  <2>1. /\ Up /\ mode' \in {"panic", "room"} /\ UNCHANGED <<active, generation, unread>> /\ disk' \in CutOff
        /\ SaveProgress /\ mode # "off"
    BY <1>9 DEF Panic, Up, StoreInv
  <2>2. TargetOnly /\ (disk'[TargetBank] = disk[TargetBank] \/ ~Intact(disk'[TargetBank]))
    BY <2>1, WrittenOrCutOff, CutOffDisk
  <2>3. ~Saving => disk' = disk
    BY <2>1 DEF CutOff, Writing
  <2>4. CASE mode \notin {"boot", "restore"}
    BY <2>1, <2>2, <2>4, WorkStep DEF Up
  <2>5. CASE mode \in {"boot", "restore"}
    <3>1. Phase = "waking" /\ Phase' = "blind" /\ ~Known /\ ~Known' /\ disk' = disk
      BY <1>2, <2>1, <2>3, <2>5 DEF Phase, Up, Known, Saving
    <3>2. /\ CommittedImage' = CommittedImage /\ UnacknowledgedImages' = UnacknowledgedImages
          /\ ram' \in Images
      BY <3>1 DEF CommittedImage, UnacknowledgedImages, TypeOK
    <3> QED
      BY <1>1, <3>1, <3>2 DEF Durable!PanicWaking
  <2> QED
    BY <2>4, <2>5
<1>10. CASE PowerCut
  <2>1. Up /\ ~Up' /\ disk' \in CutOff /\ SaveProgress
    BY <1>10 DEF PowerCut, Up, StoreInv
  <2>2. TargetOnly /\ (~Saving => disk' = disk)
    BY <2>1, WrittenOrCutOff DEF CutOff, Writing
  <2> QED
    BY <2>1, <2>2, CrashStep
<1>11. CASE PowerOn
  <2>1. mode = "off" /\ mode' = "boot" /\ unread' = Banks /\ disk' = disk
    BY <1>11 DEF PowerOn
  <2>2. Phase = "off" /\ Phase' = "waking" /\ ~Up /\ ~Known'
    BY <2>1 DEF Phase, Up, Known, Banks
  <2>3. /\ CommittedImage' = CommittedImage /\ UnacknowledgedImages' = UnacknowledgedImages
        /\ ram' \in Images
    BY <2>1, <2>2 DEF CommittedImage, UnacknowledgedImages, TypeOK
  <2> QED
    BY <1>1, <2>1, <2>2, <2>3 DEF Durable!PowerOn
<1>12. CASE LoadBegin
  <2>1. UNCHANGED <<ram, active, generation, unread>> /\ disk' = disk
    BY <1>12 DEF LoadBegin
  <2>2. CASE mode = "run" /\ mode' = "load"
    BY <2>1, <2>2, DiskUntouched, WorkStep DEF Up
  <2>3. CASE mode = "boot" /\ mode' = "restore"
    <3>1. Phase = "waking" /\ Phase' = "waking" /\ ~Known /\ ~Known'
      BY <1>2, <2>1, <2>3 DEF Phase, Up, Known
    <3>2. CommittedImage' = CommittedImage /\ UnacknowledgedImages' = UnacknowledgedImages
      BY <2>1, <3>1 DEF CommittedImage, UnacknowledgedImages
    <3> QED
      BY <1>1, <2>1, <3>1, <3>2 DEF Durable!vars
  <2> QED
    BY <1>12, <2>2, <2>3 DEF LoadBegin
<1>13. CASE LoadFails
  BY <1>13, LoadFailsRefines
<1>14. CASE LoadFile
  <2>1. UNCHANGED <<active, generation, unread>> /\ disk' = disk /\ mode' = mode /\ mode \in {"restore", "load"}
    BY <1>14 DEF LoadFile, Loading
  <2>2. CASE mode = "load"
    BY <2>1, <2>2, DiskUntouched, WorkStep DEF Up
  <2>3. CASE mode = "restore"
    <3>1. Phase = "waking" /\ Phase' = "waking" /\ ~Known /\ ~Known'
      BY <1>2, <2>1, <2>3 DEF Phase, Up, Known
    <3>2. /\ CommittedImage' = CommittedImage /\ UnacknowledgedImages' = UnacknowledgedImages
          /\ ram' \in Images
      BY <2>1, <3>1 DEF CommittedImage, UnacknowledgedImages, TypeOK
    <3> QED
      BY <1>1, <2>1, <3>1, <3>2 DEF Durable!Wake
  <2> QED
    BY <2>1, <2>2, <2>3
<1>15. CASE LoadDone
  BY <1>15, LoadDoneRefines
<1>16. CASE UNCHANGED vars
  <2>1. UNCHANGED <<ram, active, generation, unread, mode>> /\ disk' = disk
    BY <1>16 DEF vars
  <2>2. Phase' = Phase /\ CommittedImage' = CommittedImage /\ UnacknowledgedImages' = UnacknowledgedImages
    BY <2>1 DEF Phase, CommittedImage, UnacknowledgedImages, NewerAttempt, TargetBank, Known, Up, Saving
  <2> QED
    BY <1>1, <2>1, <2>2 DEF Durable!vars
<1> QED
  BY <1>3, <1>4, <1>5, <1>6, <1>7, <1>8, <1>9, <1>10, <1>11, <1>12, <1>13, <1>14, <1>15, <1>16 DEF Next

\* The two banks implement the atomic store, with any table and whatever fails:
\* a boot that ends has one whole image or the defaults, and a kernel that
\* knows its banks leaves the acknowledged image or a newer attempt.
THEOREM StoresAtomicallyHolds == Spec => StoresAtomically
<1>1. Init => Durable!Init
  <2>1. Init => /\ ~Up /\ Recover(disk) = NoImage /\ WholeImages(disk) = {} /\ ram \in Images
    BY DataAssumption DEF Init, Up, Recover, BestBank, Valid, Intact, BlankBank, NoHeader, Banks, WholeImages
  <2> QED
    BY <2>1 DEF Durable!Init, CommittedImage, UnacknowledgedImages, Phase
<1>2. TypeOK /\ TypeOK' /\ SaveBounded /\ StoreInv /\ StoreInv' /\ CountRecorded /\ CountRecorded'
        /\ [Next]_vars => [Durable!Next]_Durable!vars
  BY RefinementStep
<1>3. Spec => []SaveBounded
  BY InitType, TypeStep, PTL DEF Spec
<1> QED
  BY <1>1, <1>2, <1>3, TypeCorrect, StoreInvariant, CountIsRecorded, PTL DEF Spec, StoresAtomically, Durable!Spec

-----------------------------------------------------------------------------
(***************************************************************************)
(* Settings: what was kept comes back, for any profiles, themes, colours   *)
(* and names of settings profiles.                                         *)
(***************************************************************************)

\* The variables whose values no command has to be careful about.
LEMMA SightType ==
  ASSUME SettingsTypeOK
  PROVE  Sight \in Sights /\ Record \in Records /\ Keeps(Record, Sight)
<1>1. Looks(wall) \in [mode : Modes, c1 : Colors \cup {None}, c2 : Colors \cup {None}]
  BY DEF Looks, Walls, SettingsTypeOK
<1>2. Record \in Records
  BY DEF Record, Records, SettingsTypeOK
<1>3. Sight \in Sights
  BY <1>1 DEF Sight, Sights, SettingsTypeOK
<1>4. Keeps(Record, Sight)
  BY DEF Keeps, Record, Sight, SettingsTypeOK
<1> QED
  BY <1>2, <1>3, <1>4

\* What a snapshot leaves: a record of what is seen, and the names as they were.
LEMMA SnapshotKeeps ==
  ASSUME SettingsInv, Snapshot \/ UNCHANGED <<rollback, seen>>
  PROVE  /\ rollback' \in [valid : BOOLEAN, at : Records, wall : Walls]
         /\ seen' \in [ProfileNames \cup {"snapshot"} -> Sights]
         /\ \A n \in ProfileNames : seen'[n] = seen[n]
         /\ rollback'.valid => /\ Keeps(rollback'.at, seen'["snapshot"])
                               /\ Looks(rollback'.wall) = seen'["snapshot"].wall
<1>1. Sight \in Sights /\ Record \in Records /\ Keeps(Record, Sight) /\ Sight.wall = Looks(wall)
  BY SightType DEF SettingsInv, Sight
<1>2. "snapshot" \notin ProfileNames
  BY SettingsAssumption
<1>3. CASE Snapshot
  <2> HIDE DEF Sight, Record
  <2>1. seen' = [seen EXCEPT !["snapshot"] = Sight]
    BY <1>3 DEF Snapshot
  <2>2. /\ seen'["snapshot"] = Sight
        /\ \A n \in ProfileNames : seen'[n] = seen[n]
        /\ seen' \in [ProfileNames \cup {"snapshot"} -> Sights]
    BY <1>1, <1>2, <2>1 DEF SettingsInv
  <2>3. rollback' = [valid |-> TRUE, at |-> Record, wall |-> wall]
    BY <1>3 DEF Snapshot
  <2>4. wall \in Walls
    BY DEF SettingsInv, SettingsTypeOK
  <2> QED
    BY <1>1, <2>2, <2>3, <2>4
<1>4. CASE UNCHANGED <<rollback, seen>>
  BY <1>4 DEF SettingsInv, RecordsKeep, SettingsTypeOK, Looks
<1> QED
  BY <1>3, <1>4

\* A command that returns nothing promises nothing.
QuietWords == {"boot", "poll", "set", "refused", "boot set", "theme", "wallpaper", "osmod", "snapshot",
               "save", "export", "edit", "sync"}
LEMMA QuietReturns ==
  ASSUME event' \in QuietWords
  PROVE  ReturnsToSaved'
<1>1. event' \notin ProfileNames /\ event' # "rollback" /\ event' # "import"
  BY SettingsAssumption DEF QuietWords
<1> QED
  BY <1>1 DEF ReturnsToSaved

\* Where the profiles, the packs and the saved files are left, the records keep
\* what they kept.
LEMMA Frame ==
  ASSUME SettingsInv, SettingsTypeOK', ReturnsToSaved',
         files' \in FileSets, files'.pack = files.pack, saved' = saved, profiles' = profiles,
         Snapshot \/ UNCHANGED <<rollback, seen>>
  PROVE  SettingsInv'
<1>1. /\ seen' \in [ProfileNames \cup {"snapshot"} -> Sights]
      /\ \A n \in ProfileNames : seen'[n] = seen[n]
      /\ rollback'.valid => /\ Keeps(rollback'.at, seen'["snapshot"])
                            /\ Looks(rollback'.wall) = seen'["snapshot"].wall
  BY SnapshotKeeps
<1>2. \A i \in DOMAIN profiles : profiles[i].name \in ProfileNames
  <2> DEFINE Kept == [name : ProfileNames, at : Records]
  <2>1. profiles \in Seq(Kept)
    BY DEF SettingsInv, SettingsTypeOK
  <2>2. \A i \in DOMAIN profiles : profiles[i] \in Kept
    <3> HIDE DEF Kept
    <3> QED
      BY <2>1
  <2> QED
    BY <2>2
<1>3. \A i \in DOMAIN profiles :
         /\ Keeps(profiles[i].at, seen'[profiles[i].name])
         /\ \A j \in DOMAIN profiles : profiles[i].name = profiles[j].name => i = j
  BY <1>1, <1>2 DEF SettingsInv, RecordsKeep
<1>4. \A f \in {files', saved'} : f.pack.there => Keeps(f.pack.at, f.pack.sight)
  BY DEF SettingsInv, RecordsKeep
<1>5. RecordsKeep'
  BY <1>1, <1>3, <1>4 DEF RecordsKeep, Looks, Keeps
<1> QED
  BY <1>1, <1>5 DEF SettingsInv

\* The type of a state in which only some variables changed.
LEMMA CountDown ==
  ASSUME SettingsTypeOK, left > 0, left' = left - 1
  PROVE  left' \in 0..MaxCommands
<1>1. left \in 0..MaxCommands
  BY DEF SettingsTypeOK
<1>2. MaxCommands \in Nat
  BY SettingsAssumption
<1> QED
  BY <1>1, <1>2

\* Boot texts and desktops as they go into files.
LEMMA FilesTyped ==
  ASSUME NEW f \in FileSets
  PROVE  /\ \A p \in Profiles : LET g == [f EXCEPT !.boot = [word |-> p, newline |-> TRUE]]
                               IN  g \in FileSets /\ g.pack = f.pack /\ g.picture = f.picture
         /\ \A w \in Walls : Persisted(w, f) \in FileSets /\ Persisted(w, f).pack = f.pack
                             /\ Persisted(w, f).picture = f.picture
         /\ ReloadedFiles(f) \in FileSets /\ ReloadedFiles(f).pack = f.pack
         /\ SettingsTypeOK => Reloaded(f) \in Walls
         /\ \A w, now \in Walls : Shown(w, now, f) \in Walls
<1> DEFINE PackSet == Packs
<1>f. f \in [boot : BootText, wall : Walls \cup {Empty}, picture : BOOLEAN, pack : PackSet]
  BY DEF FileSets
<1>s. FileSets = [boot : BootText, wall : Walls \cup {Empty}, picture : BOOLEAN, pack : PackSet]
  BY DEF FileSets
<1> HIDE DEF PackSet
<1>g. Grid \in Walls
  BY SettingsAssumption DEF Grid, Walls
<1>1. \A p \in Profiles : [word |-> p, newline |-> TRUE] \in BootText
  BY DEF BootText
<1>2. \A p \in Profiles : LET g == [f EXCEPT !.boot = [word |-> p, newline |-> TRUE]]
                          IN  g \in FileSets /\ g.pack = f.pack /\ g.picture = f.picture
  BY <1>f, <1>s, <1>1
<1>3. \A w \in Walls : LET g == [f EXCEPT !.wall = w]
                       IN  g \in FileSets /\ g.pack = f.pack /\ g.picture = f.picture
  BY <1>f, <1>s
<1>4. \A w \in Walls : Persisted(w, f) \in FileSets /\ Persisted(w, f).pack = f.pack
                      /\ Persisted(w, f).picture = f.picture
  BY <1>3, <1>f DEF Persisted
<1>5. ReloadedFiles(f) \in FileSets /\ ReloadedFiles(f).pack = f.pack
  BY <1>3, <1>g DEF ReloadedFiles
<1>6. \A w, now \in Walls : Shown(w, now, f) \in Walls
  BY DEF Shown
<1>7. SettingsTypeOK => Reloaded(f) \in Walls
  BY <1>6, <1>g, <1>f DEF Reloaded, SettingsTypeOK
<1> QED
  BY <1>2, <1>4, <1>5, <1>6, <1>7

\* Every desktop a command asks for is one.
LEMMA DesktopType ==
  ASSUME SettingsTypeOK, NEW m \in Modes, NEW c1 \in Colors, NEW c2 \in Colors
  PROVE  Desktop(m, c1, c2) \in Walls /\ Desktop(m, c1, c2).mode = m
BY DEF Desktop, Walls, SettingsTypeOK

\* A step that returns nothing and leaves the profiles, the packs and the saved
\* files: only the types of what it sets are left to show.
LEMMA QuietStep ==
  ASSUME SettingsInv, event' \in QuietWords,
         simple' \in [Simple -> BOOLEAN], boot' \in Profiles, theme' \in Themes, custom' \in BOOLEAN,
         wall' \in Walls, other' \in BOOLEAN, awake' \in [enabled : BOOLEAN, done : BOOLEAN],
         loader' \in 0..3, bootAwake' \in BOOLEAN, left' \in 0..MaxCommands,
         files' \in FileSets, files'.pack = files.pack, saved' = saved, profiles' = profiles,
         Snapshot \/ UNCHANGED <<rollback, seen>>
  PROVE  SettingsInv'
<1>1. rollback' \in [valid : BOOLEAN, at : Records, wall : Walls]
  BY SnapshotKeeps
<1>2. \A f \in {files', saved'} : f.boot \in BootText /\ f.wall \in Walls \cup {Empty} /\ f.picture \in BOOLEAN
  BY DEF SettingsInv, FileSets
<1>3. profiles' \in Seq([name : ProfileNames, at : Records]) /\ Len(profiles') <= ProfileMax
  BY DEF SettingsInv, SettingsTypeOK
<1>4. SettingsTypeOK'
  BY <1>1, <1>2, <1>3 DEF SettingsTypeOK, BootText, Walls, Empty, Records
<1>5. ReturnsToSaved'
  BY QuietReturns
<1> QED
  BY <1>4, <1>5, Frame

\* The settings one by one, with or without a snapshot, the desktop and a file
\* edited: what is kept stays what it was.
LEMMA SettingStep ==
  ASSUME SettingsInv,
         \/ \E s \in Simple, on, cfgsh \in BOOLEAN : SetSimple(s, on, cfgsh)
         \/ \E on, cfgsh \in BOOLEAN : SetOther(on, cfgsh)
         \/ RefusedSetting
         \/ \E p \in Profiles, cfgsh \in BOOLEAN : CmdBootprof(p, cfgsh)
         \/ \E cfgsh \in BOOLEAN : CmdAwakeOff(cfgsh)
         \/ \E t \in Themes, cfgsh \in BOOLEAN : CmdTheme(t, cfgsh)
         \/ CmdCustomTheme
         \/ CmdOsmod
  PROVE  SettingsInv'
<1> USE DEF Command
<1>t. SettingsTypeOK /\ files \in FileSets
  BY DEF SettingsInv
<1>b. \A p \in Profiles : SetBoot(p, files) => boot' = p /\ files' \in FileSets /\ files'.pack = files.pack
  BY <1>t, FilesTyped DEF SetBoot
<1>c. left' = left - 1 /\ left > 0 => left' \in 0..MaxCommands
  BY <1>t, CountDown
<1>n. "normal" \in Profiles /\ "awakening" \in Profiles
  BY SettingsAssumption
<1>m. \A cfgsh \in BOOLEAN : MaybeCfgsh(cfgsh) => Snapshot \/ UNCHANGED <<rollback, seen>>
  BY DEF MaybeCfgsh
<1> DEFINE Quiet == /\ event' \in QuietWords /\ left' = left - 1 /\ left > 0
                    /\ Snapshot \/ UNCHANGED <<rollback, seen>>
                    /\ UNCHANGED <<saved, profiles, loading>>
           Typed == /\ simple' \in [Simple -> BOOLEAN] /\ boot' \in Profiles /\ theme' \in Themes
                    /\ custom' \in BOOLEAN /\ wall' \in Walls /\ other' \in BOOLEAN
                    /\ awake' \in [enabled : BOOLEAN, done : BOOLEAN]
                    /\ files' \in FileSets /\ files'.pack = files.pack
<1>q. Quiet /\ Typed => SettingsInv'
  <2> SUFFICES ASSUME Quiet, Typed PROVE SettingsInv'
    OBVIOUS
  <2>1. loader' \in 0..3 /\ bootAwake' \in BOOLEAN
    BY <1>t DEF loading, SettingsTypeOK
  <2> QED
    BY <1>c, <2>1, QuietStep
<1>u. /\ simple \in [Simple -> BOOLEAN] /\ boot \in Profiles /\ theme \in Themes
      /\ custom \in BOOLEAN /\ wall \in Walls /\ other \in BOOLEAN
      /\ awake \in [enabled : BOOLEAN, done : BOOLEAN]
  BY <1>t DEF SettingsTypeOK
<1>1. CASE \E s \in Simple, on, cfgsh \in BOOLEAN : SetSimple(s, on, cfgsh)
  BY <1>1, <1>q, <1>u, <1>t, <1>m DEF SetSimple, QuietWords, loading
<1>2. CASE \E on, cfgsh \in BOOLEAN : SetOther(on, cfgsh)
  BY <1>2, <1>q, <1>u, <1>t, <1>m DEF SetOther, QuietWords, loading
<1>3. CASE RefusedSetting
  BY <1>3, <1>q, <1>u, <1>t DEF RefusedSetting, QuietWords, loading, settings
<1>4. CASE \E p \in Profiles, cfgsh \in BOOLEAN : CmdBootprof(p, cfgsh)
  BY <1>4, <1>q, <1>u, <1>t, <1>m, <1>b DEF CmdBootprof, QuietWords, loading
<1>5. CASE \E cfgsh \in BOOLEAN : CmdAwakeOff(cfgsh)
  <2>1. PICK cfgsh \in BOOLEAN : CmdAwakeOff(cfgsh)
    BY <1>5
  <2>2. Quiet
    BY <2>1, <1>m DEF CmdAwakeOff, QuietWords, loading
  <2>3. boot' \in Profiles /\ files' \in FileSets /\ files'.pack = files.pack
    BY <2>1, <1>b, <1>n DEF CmdAwakeOff
  <2>4. awake' \in [enabled : BOOLEAN, done : BOOLEAN] /\ UNCHANGED <<simple, theme, custom, wall, other>>
    BY <2>1 DEF CmdAwakeOff, AwakeEnable
  <2> QED
    BY <2>2, <2>3, <2>4, <1>q, <1>u
<1>6. CASE \E t \in Themes, cfgsh \in BOOLEAN : CmdTheme(t, cfgsh)
  BY <1>6, <1>q, <1>u, <1>t, <1>m DEF CmdTheme, QuietWords, loading
<1>7. CASE CmdCustomTheme
  BY <1>7, <1>q, <1>u, <1>t DEF CmdCustomTheme, QuietWords, loading
<1>8. CASE CmdOsmod
  <2>1. PICK p \in OsmodProfiles : OsmodApply(p)
    BY <1>8 DEF CmdOsmod
  <2>2. Quiet
    BY <2>1 DEF OsmodApply, QuietWords, loading
  <2>3. awake' \in [enabled : BOOLEAN, done : BOOLEAN]
    BY <2>1, <1>u DEF OsmodApply, AwakeEnable
  <2>4. p.boot \in Profiles \cup {None} /\ p.other \in BOOLEAN /\ p.awake \in {None, "on", "off"}
    BY DEF OsmodProfiles
  <2> DEFINE name == CASE p.awake = "on"  -> "awakening"
                       [] p.awake = "off" -> "normal"
                       [] OTHER           -> p.boot
  <2>5. name \in Profiles \/ name = None
    BY <2>4, <1>n DEF None
  <2>6. IF name = None THEN UNCHANGED <<boot, files>> ELSE SetBoot(name, files)
    BY <2>1 DEF OsmodApply
  <2>7. boot' \in Profiles /\ files' \in FileSets /\ files'.pack = files.pack
    <3> HIDE DEF name
    <3> QED
      BY <2>5, <2>6, <1>b, <1>u, <1>t
  <2>8. UNCHANGED <<simple, theme, custom, wall>> /\ other' = p.other
    BY <2>1 DEF OsmodApply
  <2> QED
    BY <2>2, <2>3, <2>4, <2>7, <2>8, <1>q, <1>u
<1> QED
  BY <1>1, <1>2, <1>3, <1>4, <1>5, <1>6, <1>7, <1>8

\* The desktop, the snapshot, the files and the background loader.
LEMMA FileStep ==
  ASSUME SettingsInv,
         \/ \E m \in Modes, c1, c2 \in Colors : CmdWallpaper(m, c1, c2)
         \/ CmdWallpaperReload
         \/ CmdSnapshot
         \/ \E text \in BootText : EditBootText(text)
         \/ DeletePicture
         \/ Poll
  PROVE  SettingsInv'
<1> USE DEF Command
<1>t. SettingsTypeOK /\ files \in FileSets
  BY DEF SettingsInv
<1>c. left' = left - 1 /\ left > 0 => left' \in 0..MaxCommands
  BY <1>t, CountDown
<1>u. /\ simple \in [Simple -> BOOLEAN] /\ boot \in Profiles /\ theme \in Themes
      /\ custom \in BOOLEAN /\ wall \in Walls /\ other \in BOOLEAN
      /\ awake \in [enabled : BOOLEAN, done : BOOLEAN]
      /\ loader \in 0..3 /\ bootAwake \in BOOLEAN /\ left \in 0..MaxCommands
  BY <1>t DEF SettingsTypeOK
<1>1. CASE \E m \in Modes, c1, c2 \in Colors : CmdWallpaper(m, c1, c2)
  <2>1. PICK m \in Modes, c1 \in Colors, c2 \in Colors : CmdWallpaper(m, c1, c2)
    BY <1>1
  <2> DEFINE w == Desktop(m, c1, c2)
  <2>2. w \in Walls
    BY <1>t, DesktopType
  <2>3. /\ event' = "wallpaper" /\ left > 0 /\ left' = left - 1 /\ Snapshot
        /\ wall' = Shown(w, wall, files) /\ files' = Persisted(w, files)
        /\ UNCHANGED <<simple, boot, theme, custom, other, awake, loader, bootAwake, saved, profiles>>
    BY <2>1 DEF CmdWallpaper, loading
  <2> HIDE DEF w
  <2>4. wall' \in Walls /\ files' \in FileSets /\ files'.pack = files.pack
    BY <2>2, <2>3, <1>t, <1>u, FilesTyped
  <2>5. event' \in QuietWords
    BY <2>3 DEF QuietWords
  <2> QED
    BY <2>3, <2>4, <2>5, <1>c, <1>u, QuietStep
<1>2. CASE CmdWallpaperReload
  <2>1. /\ event' = "wallpaper" /\ left > 0 /\ left' = left - 1
        /\ wall' = Reloaded(files) /\ files' = ReloadedFiles(files)
        /\ UNCHANGED <<simple, boot, theme, custom, other, awake, loader, bootAwake, saved, rollback, profiles, seen>>
    BY <1>2 DEF CmdWallpaperReload, loading
  <2>2. wall' \in Walls /\ files' \in FileSets /\ files'.pack = files.pack
    BY <2>1, <1>t, FilesTyped
  <2>3. event' \in QuietWords
    BY <2>1 DEF QuietWords
  <2> QED
    BY <2>1, <2>2, <2>3, <1>c, <1>u, QuietStep
<1>3. CASE CmdSnapshot
  <2>1. /\ event' \in QuietWords /\ left > 0 /\ left' = left - 1 /\ Snapshot
        /\ UNCHANGED <<simple, boot, theme, custom, wall, other, awake, loader, bootAwake, files, saved, profiles>>
    BY <1>3 DEF CmdSnapshot, loading, settings, QuietWords
  <2> QED
    BY <2>1, <1>c, <1>t, <1>u, QuietStep
<1>4. CASE \E text \in BootText : EditBootText(text)
  <2>1. PICK text \in BootText : EditBootText(text)
    BY <1>4
  <2>2. /\ event' \in QuietWords /\ left > 0 /\ left' = left - 1
        /\ files' = [files EXCEPT !.boot = text]
        /\ UNCHANGED <<simple, boot, theme, custom, wall, other, awake, loader, bootAwake, saved, rollback, profiles, seen>>
    BY <2>1 DEF EditBootText, loading, settings, QuietWords
  <2>3. files' \in FileSets /\ files'.pack = files.pack
    BY <2>2, <1>t DEF FileSets
  <2> QED
    BY <2>2, <2>3, <1>c, <1>u, QuietStep
<1>5. CASE DeletePicture
  <2>1. /\ event' \in QuietWords /\ left > 0 /\ left' = left - 1
        /\ files' = [files EXCEPT !.picture = FALSE]
        /\ UNCHANGED <<simple, boot, theme, custom, wall, other, awake, loader, bootAwake, saved, rollback, profiles, seen>>
    BY <1>5 DEF DeletePicture, loading, settings, QuietWords
  <2>2. files' \in FileSets /\ files'.pack = files.pack
    BY <2>1, <1>t DEF FileSets
  <2> QED
    BY <2>1, <2>2, <1>c, <1>u, QuietStep
<1>6. CASE Poll
  <2>1. /\ event' \in QuietWords /\ loader < 3 /\ loader' = loader + 1
        /\ awake' = [awake EXCEPT !.done = (loader = 2)]
        /\ UNCHANGED <<simple, boot, theme, custom, wall, other, bootAwake, files, saved, rollback, profiles, seen, left>>
    BY <1>6 DEF Poll, QuietWords
  <2>2. loader' \in 0..3
    BY <2>1, <1>u
  <2>3. awake' \in [enabled : BOOLEAN, done : BOOLEAN]
    BY <2>1, <1>u
  <2> QED
    BY <2>1, <2>2, <2>3, <1>t, <1>u, QuietStep
<1> QED
  BY <1>1, <1>2, <1>3, <1>4, <1>5, <1>6

\* What a rollback, a profile and a pack set alike is what the record says.
LEMMA ReturnKeeps ==
  ASSUME SettingsTypeOK, NEW f \in FileSets, NEW r \in Records, NEW s \in Sights,
         Return(r, f), Keeps(r, s)
  PROVE  /\ simple' = s.simple /\ boot' = s.boot /\ awake'.enabled = s.awake
         /\ (~custom' /\ s.theme # "custom") => theme' = s.theme
         /\ simple' \in [Simple -> BOOLEAN] /\ boot' \in Profiles /\ theme' \in Themes
         /\ custom' \in BOOLEAN /\ other' \in BOOLEAN
         /\ awake' \in [enabled : BOOLEAN, done : BOOLEAN]
         /\ files' \in FileSets /\ files'.pack = f.pack /\ files'.picture = f.picture
<1>1. /\ simple' = r.simple /\ boot' = r.boot /\ awake' = [enabled |-> r.awake, done |-> FALSE]
      /\ theme' = r.theme /\ custom' = custom /\ other' = other
      /\ files' = [f EXCEPT !.boot = [word |-> r.boot, newline |-> TRUE]]
  BY DEF Return, SetBoot, AwakeEnable
<1>2. r.simple \in [Simple -> BOOLEAN] /\ r.boot \in Profiles /\ r.theme \in Themes /\ r.awake \in BOOLEAN
  BY DEF Records
<1>3. files' \in FileSets /\ files'.pack = f.pack /\ files'.picture = f.picture
  BY <1>1, <1>2, FilesTyped
<1>4. /\ simple' = s.simple /\ boot' = s.boot /\ awake'.enabled = s.awake
      /\ (~custom' /\ s.theme # "custom") => theme' = s.theme
  BY <1>1 DEF Keeps
<1> QED
  BY <1>1, <1>2, <1>3, <1>4 DEF SettingsTypeOK

\* The desktop of a snapshot looks as it did, or its picture is gone.
LEMMA DesktopReturns ==
  ASSUME SettingsTypeOK, NEW w \in Walls, NEW f, NEW d, d = Desktop(w.mode, w.c1, w.c2)
  PROVE  /\ d \in Walls
         /\ Shown(d, wall, f) \in Walls
         /\ \/ Looks(Shown(d, wall, f)) = Looks(w)
            \/ Looks(w).mode \in Pictures /\ ~f.picture
<1>1. w.mode \in Modes /\ w.c1 \in Colors /\ w.c2 \in Colors
  BY DEF Walls
<1>2. d \in Walls /\ d.mode = w.mode
  BY <1>1, DesktopType
<1>3. Looks(d) = Looks(w)
  BY DEF Desktop, Looks
<1>4. Looks(w).mode = w.mode
  BY DEF Looks
<1>5. wall \in Walls
  BY DEF SettingsTypeOK
<1> QED
  BY <1>2, <1>3, <1>4, <1>5 DEF Shown, CanShow

\* A rollback brings back what the last snapshot saw.
LEMMA RollbackStep ==
  ASSUME SettingsInv, RollbackApply
  PROVE  SettingsInv'
<1> DEFINE r == rollback.wall
           w == Desktop(r.mode, r.c1, r.c2)
           s == seen["snapshot"]
<1>1. /\ event' = "rollback" /\ left > 0 /\ left' = left - 1 /\ rollback.valid
      /\ Return(rollback.at, Persisted(w, files))
      /\ wall' = Shown(w, wall, files)
      /\ UNCHANGED <<loader, bootAwake, saved, rollback, profiles, seen>>
  BY DEF RollbackApply, Command, loading
<1>2. SettingsTypeOK /\ files \in FileSets /\ rollback.at \in Records /\ r \in Walls /\ s \in Sights
  BY DEF SettingsInv, SettingsTypeOK
<1>3. Keeps(rollback.at, s) /\ Looks(r) = s.wall
  BY <1>1 DEF SettingsInv, RecordsKeep
<1>4. w \in Walls /\ wall' \in Walls /\ (Looks(wall') = Looks(r) \/ (Looks(r).mode \in Pictures /\ ~files.picture))
  BY <1>1, <1>2, DesktopReturns
<1> HIDE DEF w, s
<1>5. /\ Persisted(w, files) \in FileSets /\ Persisted(w, files).pack = files.pack
      /\ Persisted(w, files).picture = files.picture
  BY <1>2, <1>4, FilesTyped
<1>6. /\ simple' = s.simple /\ boot' = s.boot /\ awake'.enabled = s.awake
      /\ (~custom' /\ s.theme # "custom") => theme' = s.theme
      /\ simple' \in [Simple -> BOOLEAN] /\ boot' \in Profiles /\ theme' \in Themes
      /\ custom' \in BOOLEAN /\ other' \in BOOLEAN
      /\ awake' \in [enabled : BOOLEAN, done : BOOLEAN]
      /\ files' \in FileSets /\ files'.pack = files.pack /\ files'.picture = files.picture
  BY <1>1, <1>2, <1>3, <1>5, ReturnKeeps
<1>7. ReturnsToSaved'
  <2>1. "rollback" \notin ProfileNames
    BY SettingsAssumption
  <2>2. seen'["snapshot"] = s
    BY <1>1 DEF s
  <2>3. Looks(wall') = s.wall \/ (s.wall.mode \in Pictures /\ ~files'.picture)
    BY <1>3, <1>4, <1>6
  <2>4. Returned(seen["snapshot"])'
    BY <1>6, <2>2 DEF Returned
  <2>5. (Looks(wall) = seen["snapshot"].wall \/ PictureGone(seen["snapshot"].wall))'
    BY <2>2, <2>3 DEF PictureGone, Pictures, Looks
  <2>6. event' \notin ProfileNames /\ event' # "import"
    BY <1>1, <2>1
  <2> QED
    BY <2>4, <2>5, <2>6 DEF ReturnsToSaved
<1>8. SettingsTypeOK'
  <2>1. \A f \in {files', saved'} : f.boot \in BootText /\ f.wall \in Walls \cup {Empty} /\ f.picture \in BOOLEAN
    BY <1>1, <1>6 DEF SettingsInv, FileSets
  <2>2. left' \in 0..MaxCommands
    BY <1>1, <1>2, CountDown
  <2> QED
    BY <1>1, <1>2, <1>4, <1>6, <2>1, <2>2 DEF SettingsTypeOK, BootText, Walls, Empty, Records
<1> QED
  BY <1>1, <1>6, <1>7, <1>8, Frame

\* The load of a profile brings back what was seen at the last save of its name.
LEMMA LoadStep ==
  ASSUME SettingsInv, NEW n \in ProfileNames, ProfileLoad(n)
  PROVE  SettingsInv'
<1>1. PICK i \in DOMAIN profiles : profiles[i].name = n /\ Return(profiles[i].at, files)
  BY DEF ProfileLoad
<1>2. /\ event' = n /\ left > 0 /\ left' = left - 1
      /\ UNCHANGED <<wall, loader, bootAwake, saved, rollback, profiles, seen>>
  BY DEF ProfileLoad, Command, loading
<1>3. SettingsTypeOK /\ files \in FileSets /\ seen[n] \in Sights
  BY DEF SettingsInv
<1>4. profiles[i].at \in Records
  <2> DEFINE Kept == [name : ProfileNames, at : Records]
  <2>1. profiles \in Seq(Kept)
    BY <1>3 DEF SettingsTypeOK
  <2>2. profiles[i] \in Kept
    <3> HIDE DEF Kept
    <3> QED
      BY <2>1, <1>1
  <2> QED
    BY <2>2
<1>5. Keeps(profiles[i].at, seen[n])
  BY <1>1 DEF SettingsInv, RecordsKeep
<1>6. /\ Returned(seen[n])'
      /\ simple' \in [Simple -> BOOLEAN] /\ boot' \in Profiles /\ theme' \in Themes
      /\ custom' \in BOOLEAN /\ other' \in BOOLEAN
      /\ awake' \in [enabled : BOOLEAN, done : BOOLEAN]
      /\ files' \in FileSets /\ files'.pack = files.pack /\ files'.picture = files.picture
  <2>1. PICK r \in Records : r = profiles[i].at
    BY <1>4
  <2>2. PICK s \in Sights : s = seen[n]
    BY <1>3
  <2>3. Keeps(r, s) /\ Return(r, files)
    BY <1>1, <1>5, <2>1, <2>2
  <2>4. /\ simple' = s.simple /\ boot' = s.boot /\ awake'.enabled = s.awake
        /\ (~custom' /\ s.theme # "custom") => theme' = s.theme
        /\ simple' \in [Simple -> BOOLEAN] /\ boot' \in Profiles /\ theme' \in Themes
        /\ custom' \in BOOLEAN /\ other' \in BOOLEAN
        /\ awake' \in [enabled : BOOLEAN, done : BOOLEAN]
        /\ files' \in FileSets /\ files'.pack = files.pack /\ files'.picture = files.picture
    BY <2>3, <1>3, ReturnKeeps
  <2>5. seen'[n] = s
    BY <1>2, <2>2
  <2> QED
    BY <2>4, <2>5 DEF Returned
<1>7. ReturnsToSaved'
  <2>1. n # "rollback" /\ n # "import"
    BY SettingsAssumption
  <2> QED
    BY <1>2, <1>6, <2>1 DEF ReturnsToSaved
<1>8. SettingsTypeOK'
  <2>1. \A f \in {files', saved'} : f.boot \in BootText /\ f.wall \in Walls \cup {Empty} /\ f.picture \in BOOLEAN
    BY <1>2, <1>6 DEF SettingsInv, FileSets
  <2>2. left' \in 0..MaxCommands
    BY <1>2, <1>3, CountDown
  <2> QED
    BY <1>2, <1>3, <1>6, <2>1, <2>2 DEF SettingsTypeOK, BootText, Walls, Empty, Records
<1> QED
  BY <1>2, <1>6, <1>7, <1>8, Frame

\* The profiles after a save: one slot of that name, the others as they were or
\* one of them overwritten.
LEMMA SavedProfiles ==
  ASSUME SettingsInv, NEW n \in ProfileNames, ProfileSave(n)
  PROVE  /\ profiles' \in Seq([name : ProfileNames, at : Records]) /\ Len(profiles') <= ProfileMax
         /\ \A i \in DOMAIN profiles' :
              \/ profiles'[i] = [name |-> n, at |-> Record]
              \/ i \in DOMAIN profiles /\ profiles'[i] = profiles[i] /\ profiles[i].name # n
         /\ \A i, j \in DOMAIN profiles' : profiles'[i].name = profiles'[j].name => i = j
<1> DEFINE Kept == [name : ProfileNames, at : Records]
           p == [name |-> n, at |-> Record]
           same == {i \in DOMAIN profiles : profiles[i].name = n}
           k == Slot(n)
<1>1. profiles \in Seq(Kept) /\ Len(profiles) <= ProfileMax /\ SettingsTypeOK
  BY DEF SettingsInv, SettingsTypeOK
<1>2. p \in Kept /\ p.name = n
  BY <1>1, SightType
<1>3. profiles' = IF k > Len(profiles) THEN Append(profiles, p) ELSE [profiles EXCEPT ![k] = p]
  BY DEF ProfileSave
<1>4. \A i, j \in DOMAIN profiles : profiles[i].name = profiles[j].name => i = j
  BY DEF SettingsInv, RecordsKeep
<1>5. ProfileMax \in Nat \ {0}
  BY SettingsAssumption
<1>6. \/ k \in DOMAIN profiles /\ same = {k}
      \/ same = {} /\ k = Len(profiles) + 1 /\ Len(profiles) < ProfileMax
      \/ same = {} /\ k = 1 /\ k \in DOMAIN profiles
  <2>1. CASE same = {}
    <3>1. k = IF Len(profiles) < ProfileMax THEN Len(profiles) + 1 ELSE 1
      BY <2>1 DEF Slot
    <3>2. Len(profiles) \in Nat /\ DOMAIN profiles = 1..Len(profiles)
      BY <1>1
    <3>3. CASE Len(profiles) < ProfileMax
      BY <2>1, <3>1, <3>3
    <3>4. CASE ~(Len(profiles) < ProfileMax)
      BY <2>1, <3>1, <3>2, <3>4, <1>1, <1>5
    <3> QED
      BY <3>3, <3>4
  <2>2. CASE same # {}
    <3>1. PICK i \in same : TRUE
      BY <2>2
    <3>2. same = {i}
      BY <3>1, <1>4
    <3>3. i \in Nat
      BY <1>1, <3>1
    <3>4. k = CHOOSE x \in same : \A j \in same : x <= j
      BY <2>2 DEF Slot
    <3>5. k = i
      <4> HIDE DEF same, k
      <4>1. \A j \in same : i <= j
        BY <3>2, <3>3
      <4>2. k \in same
        BY <3>1, <3>4, <4>1
      <4> QED
        BY <3>2, <4>2
    <3> QED
      BY <3>1, <3>2, <3>5
  <2> QED
    BY <2>1, <2>2
<1>7. \A i \in DOMAIN profiles : profiles[i] \in Kept
  <2> HIDE DEF Kept
  <2> QED
    BY <1>1
<1>8. DOMAIN profiles = 1..Len(profiles) /\ Len(profiles) \in Nat
  BY <1>1
<1>9. CASE k \in DOMAIN profiles /\ (same = {k} \/ same = {})
  <2> HIDE DEF Kept, p, k
  <2>a. k \in 1..Len(profiles) /\ Len(profiles) \in Nat
    BY <1>8, <1>9
  <2>b. ~(k > Len(profiles))
    BY <2>a
  <2>1. profiles' = [profiles EXCEPT ![k] = p]
    BY <1>3, <2>b, Zenon
  <2>c. [profiles EXCEPT ![k] = p] \in Seq(Kept) /\ Len([profiles EXCEPT ![k] = p]) = Len(profiles)
    BY <1>1, <1>2, <2>a, ExceptSeq
  <2>2. profiles' \in Seq(Kept) /\ Len(profiles') = Len(profiles) /\ DOMAIN profiles' = DOMAIN profiles
    BY <2>1, <2>c, <1>1
  <2>3. \A i \in DOMAIN profiles' : profiles'[i] = IF i = k THEN p ELSE profiles[i]
    BY <2>1, <2>2, <1>8
  <2>4. \A i \in DOMAIN profiles : i # k => profiles[i].name # n
    BY <1>9
  <2>5. \A i, j \in DOMAIN profiles' : profiles'[i].name = profiles'[j].name => i = j
    BY <2>2, <2>3, <2>4, <1>2, <1>4
  <2>6. \A i \in DOMAIN profiles' :
          \/ profiles'[i] = p
          \/ i \in DOMAIN profiles /\ profiles'[i] = profiles[i] /\ profiles[i].name # n
    BY <2>2, <2>3, <2>4
  <2> QED
    BY <2>2, <2>5, <2>6, <1>1 DEF Kept, p
<1>10. CASE same = {} /\ k = Len(profiles) + 1 /\ Len(profiles) < ProfileMax
  <2> HIDE DEF Kept, p, k
  <2>a. k > Len(profiles)
    BY <1>8, <1>10
  <2>1. profiles' = Append(profiles, p)
    BY <1>3, <2>a, Zenon
  <2>2. profiles' \in Seq(Kept) /\ Len(profiles') = Len(profiles) + 1 /\ DOMAIN profiles' = 1..(Len(profiles) + 1)
    BY <2>1, <1>1, <1>2
  <2>3. \A i \in DOMAIN profiles' : profiles'[i] = IF i = Len(profiles) + 1 THEN p ELSE profiles[i]
    BY <2>1, <2>2, <1>1, <1>2
  <2>4. \A i \in DOMAIN profiles : profiles[i].name # n
    BY <1>10
  <2>5. \A i, j \in DOMAIN profiles' : profiles'[i].name = profiles'[j].name => i = j
    BY <2>2, <2>3, <2>4, <1>2, <1>4, <1>8
  <2>6. \A i \in DOMAIN profiles' :
          \/ profiles'[i] = p
          \/ i \in DOMAIN profiles /\ profiles'[i] = profiles[i] /\ profiles[i].name # n
    BY <2>2, <2>3, <2>4, <1>8
  <2> QED
    BY <2>2, <2>5, <2>6, <1>1, <1>5, <1>8, <1>10 DEF Kept, p
<1> QED
  BY <1>6, <1>9, <1>10

\* A save of a profile: its record is what is seen now.
LEMMA SaveStep ==
  ASSUME SettingsInv, NEW n \in ProfileNames, ProfileSave(n)
  PROVE  SettingsInv'
<1>1. /\ event' = "save" /\ left > 0 /\ left' = left - 1
      /\ seen' = [seen EXCEPT ![n] = Sight]
      /\ UNCHANGED <<simple, boot, theme, custom, wall, other, awake, loader, bootAwake, files, saved, rollback>>
  BY DEF ProfileSave, Command, loading, settings
<1>2. Sight \in Sights /\ Record \in Records /\ Keeps(Record, Sight) /\ SettingsTypeOK
  BY SightType DEF SettingsInv
<1>3. "snapshot" \notin ProfileNames
  BY SettingsAssumption
<1>4. /\ seen' \in [ProfileNames \cup {"snapshot"} -> Sights]
      /\ seen'[n] = Sight /\ \A m \in ProfileNames \cup {"snapshot"} : m # n => seen'[m] = seen[m]
  BY <1>1, <1>2 DEF SettingsInv
<1>5. left' \in 0..MaxCommands
  BY <1>1, <1>2, CountDown
<1>6. SettingsTypeOK'
  BY <1>1, <1>2, <1>5, SavedProfiles DEF SettingsTypeOK, BootText, Walls, Empty, Records
<1>7. ReturnsToSaved'
  BY <1>1, QuietReturns DEF QuietWords
<1>8. \A i \in DOMAIN profiles' : Keeps(profiles'[i].at, seen'[profiles'[i].name])
  <2> SUFFICES ASSUME NEW i \in DOMAIN profiles' PROVE Keeps(profiles'[i].at, seen'[profiles'[i].name])
    OBVIOUS
  <2>1. CASE profiles'[i] = [name |-> n, at |-> Record]
    BY <2>1, <1>2, <1>4
  <2>2. CASE i \in DOMAIN profiles /\ profiles'[i] = profiles[i] /\ profiles[i].name # n
    <3>1. profiles[i].name \in ProfileNames
      <4> DEFINE Kept == [name : ProfileNames, at : Records]
      <4>1. profiles \in Seq(Kept)
        BY <1>2 DEF SettingsTypeOK
      <4>2. profiles[i] \in Kept
        <5> HIDE DEF Kept
        <5> QED
          BY <4>1, <2>2
      <4> QED
        BY <4>2
    <3>2. Keeps(profiles[i].at, seen[profiles[i].name])
      BY <2>2 DEF SettingsInv, RecordsKeep
    <3> QED
      BY <2>2, <3>1, <3>2, <1>4
  <2> QED
    BY <2>1, <2>2, SavedProfiles
<1>9. rollback'.valid => /\ Keeps(rollback'.at, seen'["snapshot"])
                         /\ Looks(rollback'.wall) = seen'["snapshot"].wall
  BY <1>1, <1>3, <1>4 DEF SettingsInv, RecordsKeep
<1>10. \A f \in {files', saved'} : f.pack.there => Keeps(f.pack.at, f.pack.sight)
  BY <1>1 DEF SettingsInv, RecordsKeep
<1>11. RecordsKeep'
  BY <1>8, <1>9, <1>10, SavedProfiles DEF RecordsKeep, Looks, Keeps
<1> QED
  BY <1>1, <1>4, <1>6, <1>7, <1>11 DEF SettingsInv

\* An export puts what is seen now into the pack, an import returns it and
\* takes a snapshot first; a save of the files keeps the pack with them.
LEMMA ExportStep ==
  ASSUME SettingsInv, NEW full \in BOOLEAN, Export(full)
  PROVE  SettingsInv'
<1> DEFINE pk == [there |-> TRUE, whole |-> ~full, at |-> Record, sight |-> Sight,
                  boot  |-> files.boot, wall |-> PackedFile(files.wall, full)]
<1>1. /\ event' = "export" /\ left > 0 /\ left' = left - 1
      /\ files' = [files EXCEPT !.pack = pk]
      /\ UNCHANGED <<simple, boot, theme, custom, wall, other, awake, loader, bootAwake, saved, rollback, profiles, seen>>
  BY DEF Export, Command, loading, settings
<1>2. Sight \in Sights /\ Record \in Records /\ Keeps(Record, Sight) /\ SettingsTypeOK /\ files \in FileSets
  BY SightType DEF SettingsInv
<1>3. files.boot \in BootText /\ PackedFile(files.wall, full) \in Walls \cup {Empty}
  BY <1>2 DEF FileSets, PackedFile
<1>4. pk \in Packs /\ pk.there /\ pk.at = Record /\ pk.sight = Sight
  BY <1>2, <1>3 DEF Packs
<1>5. files' \in FileSets /\ files'.pack = pk
  <2> HIDE DEF pk
  <2> QED
    BY <1>1, <1>2, <1>4 DEF FileSets
<1> HIDE DEF pk
<1>6. left' \in 0..MaxCommands
  BY <1>1, <1>2, CountDown
<1>7. SettingsTypeOK'
  <2>1. \A f \in {files', saved'} : f.boot \in BootText /\ f.wall \in Walls \cup {Empty} /\ f.picture \in BOOLEAN
    BY <1>1, <1>5 DEF SettingsInv, FileSets
  <2> QED
    BY <1>1, <1>2, <1>6, <2>1 DEF SettingsTypeOK, BootText, Walls, Empty, Records
<1>8. ReturnsToSaved'
  BY <1>1, QuietReturns DEF QuietWords
<1>9. \A f \in {files', saved'} : f.pack.there => Keeps(f.pack.at, f.pack.sight)
  BY <1>1, <1>2, <1>4, <1>5 DEF SettingsInv, RecordsKeep
<1>10. RecordsKeep'
  BY <1>1, <1>9 DEF SettingsInv, RecordsKeep, Looks, Keeps
<1> QED
  BY <1>1, <1>5, <1>7, <1>8, <1>10 DEF SettingsInv

LEMMA ImportStep ==
  ASSUME SettingsInv, Import
  PROVE  SettingsInv'
<1>1. PICK r : r = files.pack.at
  OBVIOUS
<1>2. PICK s : s = files.pack.sight
  OBVIOUS
<1>3. PICK f : f = [files EXCEPT !.boot = files.pack.boot, !.wall = files.pack.wall]
  OBVIOUS
<1>4. /\ event' = "import" /\ left > 0 /\ left' = left - 1 /\ files.pack.there /\ Snapshot
      /\ simple' = r.simple /\ boot' = r.boot /\ awake' = [enabled |-> r.awake, done |-> FALSE] /\ theme' = r.theme
      /\ wall' = Reloaded(f) /\ files' = ReloadedFiles(f)
      /\ UNCHANGED <<custom, other, loader, bootAwake, saved, profiles>>
  BY <1>1, <1>3 DEF Import, ImportRuntime, ImportFiles, AwakeEnable, Command, loading
<1>5. SettingsTypeOK /\ files \in FileSets /\ files.pack \in Packs
  BY DEF SettingsInv, FileSets
<1>6. /\ r \in Records /\ s \in Sights /\ files.pack.boot \in BootText
      /\ files.pack.wall \in Walls \cup {Empty}
  <2>1. files.pack # [there |-> FALSE]
    BY <1>4
  <2>2. files.pack \in [there : {TRUE}, whole : BOOLEAN, at : Records, sight : Sights, boot : BootText,
                       wall : Walls \cup {Empty}]
    <3> DEFINE Whole == [there : {TRUE}, whole : BOOLEAN, at : Records, sight : Sights, boot : BootText,
                         wall : Walls \cup {Empty}]
    <3>1. Packs = {[there |-> FALSE]} \cup Whole
      BY DEF Packs
    <3> HIDE DEF Whole
    <3> QED
      BY <2>1, <3>1, <1>5 DEF Whole
  <2> QED
    BY <1>1, <1>2, <2>2
<1>7. Keeps(r, s)
  BY <1>1, <1>2, <1>4 DEF SettingsInv, RecordsKeep
<1>8. f \in FileSets /\ f.pack = files.pack
  <2> DEFINE PackSet == Packs
  <2>1. files \in [boot : BootText, wall : Walls \cup {Empty}, picture : BOOLEAN, pack : PackSet]
    BY <1>5 DEF FileSets
  <2>2. f \in [boot : BootText, wall : Walls \cup {Empty}, picture : BOOLEAN, pack : PackSet] /\ f.pack = files.pack
    <3> HIDE DEF PackSet
    <3> QED
      BY <1>3, <1>6, <2>1
  <2> QED
    BY <2>2 DEF FileSets
<1>9. files' \in FileSets /\ files'.pack = files.pack /\ wall' \in Walls
  BY <1>4, <1>5, <1>8, FilesTyped
<1>10. r.simple \in [Simple -> BOOLEAN] /\ r.boot \in Profiles /\ r.theme \in Themes /\ r.awake \in BOOLEAN
  BY <1>6 DEF Records
<1>11. left' \in 0..MaxCommands
  BY <1>4, <1>5, CountDown
<1>12. rollback' \in [valid : BOOLEAN, at : Records, wall : Walls]
  BY <1>4, SnapshotKeeps
<1>13. SettingsTypeOK'
  <2>1. \A g \in {files', saved'} : g.boot \in BootText /\ g.wall \in Walls \cup {Empty} /\ g.picture \in BOOLEAN
    BY <1>4, <1>9 DEF SettingsInv, FileSets
  <2> QED
    BY <1>4, <1>5, <1>9, <1>10, <1>11, <1>12, <2>1 DEF SettingsTypeOK, BootText, Walls, Empty, Records
<1>14. ReturnsToSaved'
  <2>1. event' \notin ProfileNames /\ event' # "rollback"
    BY <1>4, SettingsAssumption
  <2>2. /\ simple' = s.simple /\ boot' = s.boot /\ awake'.enabled = s.awake
        /\ s.theme # "custom" => theme' = s.theme
    BY <1>4, <1>7 DEF Keeps
  <2>3. files'.pack.sight = s
    BY <1>2, <1>9
  <2>4. Returned(files.pack.sight)'
    BY <2>2, <2>3 DEF Returned
  <2> QED
    BY <2>1, <2>4 DEF ReturnsToSaved
<1> QED
  BY <1>4, <1>9, <1>13, <1>14, Frame

LEMMA SyncStep ==
  ASSUME SettingsInv, SaveFiles
  PROVE  SettingsInv'
<1>1. /\ event' = "sync" /\ left > 0 /\ left' = left - 1 /\ saved' = files
      /\ UNCHANGED <<simple, boot, theme, custom, wall, other, awake, loader, bootAwake, files, rollback, profiles, seen>>
  BY DEF SaveFiles, Command, loading, settings
<1>2. SettingsTypeOK /\ files \in FileSets
  BY DEF SettingsInv
<1>3. left' \in 0..MaxCommands
  BY <1>1, <1>2, CountDown
<1>4. SettingsTypeOK'
  BY <1>1, <1>2, <1>3 DEF SettingsTypeOK, BootText, Walls, Empty, Records
<1>5. ReturnsToSaved'
  BY <1>1, QuietReturns DEF QuietWords
<1>6. RecordsKeep'
  BY <1>1 DEF SettingsInv, RecordsKeep, Looks, Keeps
<1> QED
  BY <1>1, <1>2, <1>4, <1>5, <1>6 DEF SettingsInv

\* A boot forgets the snapshot and the profiles and takes the files that were saved.
LEMMA BootStep ==
  ASSUME SettingsInv, BootSettings
  PROVE  SettingsInv'
<1> DEFINE p == LoadedBoot(saved.boot)
<1>1. /\ event' = "boot" /\ left > 0 /\ left' = left - 1
      /\ files' = saved /\ saved' = saved /\ seen' = seen
      /\ boot' = p /\ bootAwake' = (p = "awakening")
      /\ awake' = [enabled |-> p = "awakening", done |-> FALSE]
      /\ simple' = [s \in Simple |-> s = "priority" /\ p = "dev"]
      /\ wall' = Grid /\ theme' = Theme0 /\ custom' = FALSE /\ other' = FALSE
      /\ loader' = 0 /\ rollback' = NoSnapshot /\ profiles' = <<>>
  BY DEF BootSettings, Command, AwakeEnable
<1>2. SettingsTypeOK /\ saved \in FileSets /\ Grid \in Walls /\ Theme0 \in Themes /\ "normal" \in Profiles
  BY SettingsAssumption DEF SettingsInv, Grid, Walls
<1>3. p \in Profiles
  BY <1>2 DEF LoadedBoot, ApplyProfile
<1>4. left' \in 0..MaxCommands
  BY <1>1, <1>2, CountDown
<1>5. NoSnapshot \in [valid : BOOLEAN, at : Records, wall : Walls] /\ ~NoSnapshot.valid
  BY <1>2 DEF NoSnapshot, Default, Records
<1>6. <<>> \in Seq([name : ProfileNames, at : Records]) /\ Len(<<>>) = 0 /\ DOMAIN <<>> = {}
  OBVIOUS
<1>7. ProfileMax \in Nat
  BY SettingsAssumption
<1> HIDE DEF p
<1>8. simple' \in [Simple -> BOOLEAN]
  BY <1>1
<1>9. /\ boot' \in Profiles /\ bootAwake' \in BOOLEAN /\ awake' \in [enabled : BOOLEAN, done : BOOLEAN]
      /\ wall' \in Walls /\ theme' \in Themes /\ custom' \in BOOLEAN /\ other' \in BOOLEAN /\ loader' \in 0..3
  <2>1. boot' \in Profiles /\ wall' \in Walls /\ theme' \in Themes /\ loader' \in 0..3
    BY <1>1, <1>2, <1>3
  <2>2. bootAwake' \in BOOLEAN /\ custom' \in BOOLEAN /\ other' \in BOOLEAN
    BY <1>1
  <2>3. (p = "awakening") \in BOOLEAN
    OBVIOUS
  <2>4. awake' \in [enabled : BOOLEAN, done : BOOLEAN]
    BY <1>1, <2>3
  <2> QED
    BY <2>1, <2>2, <2>4
<1>10. profiles' \in Seq([name : ProfileNames, at : Records]) /\ Len(profiles') <= ProfileMax /\ DOMAIN profiles' = {}
  BY <1>1, <1>6, <1>7
<1>11. \A f \in {files', saved'} : f.boot \in BootText /\ f.wall \in Walls \cup {Empty} /\ f.picture \in BOOLEAN
  BY <1>1 DEF SettingsInv, FileSets
<1>12. SettingsTypeOK'
  BY <1>1, <1>4, <1>5, <1>8, <1>9, <1>10, <1>11 DEF SettingsTypeOK, BootText, Walls, Empty, Records
<1>13. ReturnsToSaved'
  BY <1>1, QuietReturns DEF QuietWords
<1>14. ~rollback'.valid
  BY <1>1, <1>5
<1>15. RecordsKeep'
  BY <1>1, <1>10, <1>14 DEF SettingsInv, RecordsKeep, Looks, Keeps
<1> QED
  BY <1>1, <1>12, <1>13, <1>15 DEF SettingsInv

LEMMA SettingsInitInv == SettingsInit => SettingsInv
<1> SUFFICES ASSUME SettingsInit PROVE SettingsInv
  OBVIOUS
<1> USE DEF SettingsInit
<1>1. Grid \in Walls /\ Theme0 \in Themes /\ "normal" \in Profiles /\ ProfileMax \in Nat /\ MaxCommands \in Nat
  BY SettingsAssumption DEF Grid, Walls
<1>2. Factory \in FileSets /\ ~Factory.pack.there
  BY <1>1 DEF Factory, FileSets, BootText, Packs
<1>3. NoSnapshot \in [valid : BOOLEAN, at : Records, wall : Walls] /\ ~NoSnapshot.valid
  BY <1>1 DEF NoSnapshot, Default, Records
<1>4. <<>> \in Seq([name : ProfileNames, at : Records]) /\ Len(<<>>) = 0 /\ DOMAIN <<>> = {}
  OBVIOUS
<1>5. \A f \in {files, saved} : f.boot \in BootText /\ f.wall \in Walls \cup {Empty} /\ f.picture \in BOOLEAN
  BY <1>2 DEF FileSets
<1>6. SettingsTypeOK
  <2>1. /\ simple \in [Simple -> BOOLEAN] /\ awake \in [enabled : BOOLEAN, done : BOOLEAN]
        /\ custom \in BOOLEAN /\ other \in BOOLEAN /\ bootAwake \in BOOLEAN
    OBVIOUS
  <2>2. /\ boot \in Profiles /\ theme \in Themes /\ wall \in Walls /\ loader \in 0..3
        /\ left \in 0..MaxCommands
    BY <1>1
  <2>3. /\ rollback \in [valid : BOOLEAN, at : Records, wall : Walls]
        /\ profiles \in Seq([name : ProfileNames, at : Records]) /\ Len(profiles) <= ProfileMax
    BY <1>1, <1>3, <1>4
  <2> HIDE DEF SettingsInit
  <2> QED
    BY <2>1, <2>2, <2>3, <1>5 DEF SettingsTypeOK
<1>7. Sight \in Sights
  BY <1>6, SightType
<1>8. seen \in [ProfileNames \cup {"snapshot"} -> Sights]
  BY <1>7
<1>9. RecordsKeep
  BY <1>2, <1>3, <1>4 DEF RecordsKeep
<1>10. ReturnsToSaved
  BY SettingsAssumption DEF ReturnsToSaved
<1> QED
  BY <1>2, <1>6, <1>8, <1>9, <1>10 DEF SettingsInv

LEMMA SettingsStep == SettingsInv /\ [SettingsNext]_settingsVars => SettingsInv'
<1> SUFFICES ASSUME SettingsInv, [SettingsNext]_settingsVars PROVE SettingsInv'
  OBVIOUS
<1>1. CASE UNCHANGED settingsVars
  BY <1>1 DEF settingsVars, SettingsInv, SettingsTypeOK, RecordsKeep, ReturnsToSaved, Returned, PictureGone, Looks, Keeps
<1>2. CASE SettingsNext
  <2>1. CASE CmdCfgprof
    BY <2>1, SaveStep, LoadStep DEF CmdCfgprof
  <2>2. CASE CmdRollback
    BY <2>2, FileStep, RollbackStep DEF CmdRollback
  <2>3. CASE CmdStatepack
    BY <2>3, ExportStep, ImportStep DEF CmdStatepack
  <2>4. CASE SaveFiles \/ BootSettings
    BY <2>4, SyncStep, BootStep
  <2> QED
    BY <1>2, <2>1, <2>2, <2>3, <2>4, SettingStep, FileStep DEF SettingsNext
<1> QED
  BY <1>1, <1>2

\* The settings, the records kept of them and the files are of their kinds in
\* every reachable state, whatever commands are given (lardkit.c, bootprof.c).
THEOREM SettingsTypeCorrect == SettingsSpec => []SettingsTypeOK
<1>1. SettingsInv => SettingsTypeOK
  BY DEF SettingsInv
<1> QED
  BY <1>1, SettingsInitInv, SettingsStep, PTL DEF SettingsSpec

\* A rollback, the load of a profile and the import of a whole pack bring back
\* what was there when they were made, whatever was set, loaded, imported or
\* booted between (lardkit_rollback_apply, cfg_profile_apply,
\* lardkit_statepack_import).
THEOREM ReturnsToSavedHolds == SettingsSpec => []ReturnsToSaved
<1>1. SettingsInv => ReturnsToSaved
  BY DEF SettingsInv
<1> QED
  BY <1>1, SettingsInitInv, SettingsStep, PTL DEF SettingsSpec
(***************************************************************************)
(* Updates: what is updated is in use, versions are what was added, and    *)
(* the installer spares the saved files, for any files, limits and disk.   *)
(***************************************************************************)

\* A set of numbers up to n that is not empty has a largest.
LEMMA Largest ==
  ASSUME NEW n \in Nat, NEW S \in SUBSET (1 .. n), S # {}
  PROVE  \E m \in S : \A l \in S : l <= m
<1> DEFINE T == {k .. n : k \in S}
<1>1. IsFiniteSet(1 .. n)
  BY FS_Interval
<1>2. T \subseteq FiniteSubsetsOf(1 .. n) /\ T # {}
  <2>1. ASSUME NEW k \in S PROVE k .. n \in FiniteSubsetsOf(1 .. n)
    <3>1. k .. n \subseteq 1 .. n
      OBVIOUS
    <3> QED
      BY <3>1, <1>1, FS_Subset DEF FiniteSubsetsOf
  <2> QED
    BY <2>1
<1>3. IsWellFoundedOn(StrictSubsetOrdering(1 .. n), FiniteSubsetsOf(1 .. n))
  BY <1>1, FS_StrictSubsetOrderingWellFounded
<1>4. PICK x \in T : \A y \in T : ~ (<<y, x>> \in StrictSubsetOrdering(1 .. n))
  <2> HIDE DEF T
  <2> QED
    BY <1>2, <1>3, WFMin
<1>5. PICK m \in S : x = m .. n
  BY <1>4
<1>6. ASSUME NEW l \in S, l > m PROVE FALSE
  <2>1. l .. n \in T /\ l .. n \subseteq m .. n /\ m \in m .. n /\ m \notin l .. n
    BY <1>6
  <2>2. <<l .. n, m .. n>> \in StrictSubsetOrdering(1 .. n)
    BY <2>1 DEF StrictSubsetOrdering
  <2> QED
    BY <1>4, <1>5, <2>1, <2>2
<1> QED
  BY <1>6

\* What is in the store stays at its place when more is put behind it, and what
\* is put there is found.
LEMMA StoreGrows ==
  ASSUME NEW store \in Seq(STRING), NEW c \in Seq(STRING), NEW at \in Nat, NEW size \in Nat,
         at + size <= Len(store)
  PROVE  /\ SubSeq(store \o c, at + 1, at + size) = SubSeq(store, at + 1, at + size)
         /\ at + size <= Len(store \o c)
<1>1. Len(store) \in Nat /\ Len(c) \in Nat /\ Len(store \o c) = Len(store) + Len(c)
  BY LenProperties, ConcatProperties
<1>2. CASE size = 0
  BY <1>1, <1>2, SubSeqEmpty
<1>3. CASE size # 0
  BY <1>1, <1>3, SubSeqOfConcat1
<1> QED
  BY <1>2, <1>3

LEMMA StoredIsFound ==
  ASSUME NEW store \in Seq(STRING), NEW c \in Seq(STRING)
  PROVE  /\ SubSeq(store \o c, Len(store) + 1, Len(store) + Len(c)) = c
         /\ Len(store \o c) = Len(store) + Len(c)
<1>1. Len(store) \in Nat /\ Len(c) \in Nat /\ Len(store \o c) = Len(store) + Len(c)
  BY LenProperties, ConcatProperties
<1>2. CASE c = <<>>
  BY <1>1, <1>2, SubSeqEmpty
<1>3. CASE c # <<>>
  <2>1. Len(c) > 0
    BY <1>1, <1>3, EmptySeq
  <2>2. SubSeq(store \o c, Len(store) + 1, Len(store) + Len(c)) = SubSeq(c, 1, Len(c))
    BY <1>1, <2>1, SubSeqOfConcat2
  <2> QED
    BY <1>1, <2>2, SubSeqFull
<1> QED
  BY <1>2, <1>3

LEMMA FilesOfGrows ==
  ASSUME NEW store \in Seq(STRING), NEW c \in Seq(STRING), NEW refs \in Seq(Refs), NEW held,
         FilesOf(store, refs, held)
  PROVE  FilesOf(store \o c, refs, held)
<1>1. ASSUME NEW i \in DOMAIN refs
      PROVE  /\ refs[i].at + refs[i].size <= Len(store \o c)
             /\ SubSeq(store \o c, refs[i].at + 1, refs[i].at + refs[i].size) = held[refs[i].name]
  <2>1. refs[i] \in Refs
    BY LenProperties, ElementOfSeq
  <2>2. PICK at \in Nat, size \in Nat : at = refs[i].at /\ size = refs[i].size
    BY <2>1 DEF Refs
  <2>3. at + size <= Len(store) /\ SubSeq(store, at + 1, at + size) = held[refs[i].name]
    BY <2>2 DEF FilesOf
  <2> QED
    BY <2>2, <2>3, StoreGrows, SMTT(30)
<1> QED
  BY <1>1 DEF FilesOf

\* The files of a list with one put in: a new entry, or the one of its name.
PutFile(held, n, c) == [x \in DOMAIN held \cup {n} |-> IF x = n THEN c ELSE held[x]]
PutRef(refs, ref) == [i \in DOMAIN refs |-> IF refs[i].name = ref.name THEN ref ELSE refs[i]]

LEMMA NewRefFound ==
  ASSUME NEW store \in Seq(STRING), NEW c \in Seq(STRING), NEW refs \in Seq(Refs), NEW held,
         FilesOf(store, refs, held), NEW ref \in Refs,
         ref.at = Len(store), ref.size = Len(c), \A i \in DOMAIN refs : refs[i].name # ref.name
  PROVE  Append(refs, ref) \in Seq(Refs) /\ FilesOf(store \o c, Append(refs, ref), PutFile(held, ref.name, c))
<1> DEFINE t == Append(refs, ref)
           l == Len(refs)
           g == PutFile(held, ref.name, c)
           s == store \o c
<1>1. /\ t \in Seq(Refs) /\ DOMAIN t = 1 .. (l + 1) /\ DOMAIN refs = 1 .. l /\ l \in Nat
      /\ t[l + 1] = ref /\ \A i \in 1 .. l : t[i] = refs[i]
  BY LenProperties, AppendProperties
<1>2. FilesOf(s, refs, held)
  BY FilesOfGrows
<1>3. DOMAIN g = DOMAIN held \cup {ref.name} /\ g[ref.name] = c /\ \A x \in DOMAIN held : x # ref.name => g[x] = held[x]
  BY DEF PutFile
<1>4. \A i \in DOMAIN t : i = l + 1 \/ i \in DOMAIN refs
  BY <1>1
<1>5. ref.at + ref.size <= Len(s) /\ SubSeq(s, ref.at + 1, ref.at + ref.size) = c
  <2>1. Len(s) = Len(store) + Len(c) /\ Len(store) \in Nat /\ Len(c) \in Nat
    BY StoredIsFound, LenProperties
  <2> QED
    BY <2>1, StoredIsFound
<1> HIDE DEF t, l, g, s
<1>6. ASSUME NEW i \in DOMAIN t, NEW j \in DOMAIN t, t[i].name = t[j].name
      PROVE  i = j
  <2>1. CASE i = l + 1
    BY <1>1, <1>4, <1>6, <2>1
  <2>2. CASE i \in DOMAIN refs /\ j \in DOMAIN refs
    BY <1>1, <1>2, <1>6, <2>2 DEF FilesOf
  <2> QED
    BY <1>1, <1>4, <1>6, <2>1, <2>2
<1>7. DOMAIN g = {t[i].name : i \in DOMAIN t}
  <2>1. DOMAIN held = {refs[i].name : i \in DOMAIN refs}
    BY <1>2 DEF FilesOf
  <2>2. l + 1 \in DOMAIN t /\ \A i \in DOMAIN refs : i \in DOMAIN t /\ t[i] = refs[i]
    BY <1>1
  <2> QED
    BY <1>1, <1>3, <1>4, <2>1, <2>2
<1>8. ASSUME NEW i \in DOMAIN t
      PROVE  t[i].at + t[i].size <= Len(s) /\ SubSeq(s, t[i].at + 1, t[i].at + t[i].size) = g[t[i].name]
  <2>1. CASE i = l + 1
    BY <1>1, <1>3, <1>5, <2>1
  <2>2. CASE i \in DOMAIN refs
    <3>1. t[i] = refs[i] /\ refs[i].name # ref.name /\ refs[i].name \in DOMAIN held
      BY <1>1, <1>2, <2>2 DEF FilesOf
    <3>2. /\ refs[i].at + refs[i].size <= Len(s)
          /\ SubSeq(s, refs[i].at + 1, refs[i].at + refs[i].size) = held[refs[i].name]
      BY <1>1, <1>2, <2>2 DEF FilesOf
    <3>3. g[refs[i].name] = held[refs[i].name]
      BY <1>3, <2>2, <3>1
    <3> QED
      BY <3>1, <3>2, <3>3
  <2> QED
    BY <1>4, <2>1, <2>2
<1>9. FilesOf(s, t, g)
  BY <1>6, <1>7, <1>8 DEF FilesOf
<1> QED
  BY <1>1, <1>9 DEF t, g, s

LEMMA OldRefReplaced ==
  ASSUME NEW store \in Seq(STRING), NEW c \in Seq(STRING), NEW refs \in Seq(Refs), NEW held,
         FilesOf(store, refs, held), NEW ref \in Refs,
         ref.at = Len(store), ref.size = Len(c), \E i \in DOMAIN refs : refs[i].name = ref.name
  PROVE  PutRef(refs, ref) \in Seq(Refs) /\ FilesOf(store \o c, PutRef(refs, ref), PutFile(held, ref.name, c))
<1> DEFINE t == PutRef(refs, ref)
           g == PutFile(held, ref.name, c)
           s == store \o c
<1>1. /\ t \in Seq(Refs) /\ DOMAIN t = DOMAIN refs
      /\ \A i \in DOMAIN refs : t[i] = IF refs[i].name = ref.name THEN ref ELSE refs[i]
  <2>1. refs \in [1 .. Len(refs) -> Refs] /\ DOMAIN refs = 1 .. Len(refs) /\ Len(refs) \in Nat
    BY LenProperties
  <2>2. t \in [1 .. Len(refs) -> Refs]
    BY <2>1 DEF PutRef
  <2>3. t \in Seq(Refs)
    BY <2>1, <2>2, SeqDef
  <2> QED
    BY <2>1, <2>3 DEF PutRef
<1>2. FilesOf(s, refs, held)
  BY FilesOfGrows
<1>3. DOMAIN g = DOMAIN held \cup {ref.name} /\ g[ref.name] = c /\ \A x \in DOMAIN held : x # ref.name => g[x] = held[x]
  BY DEF PutFile
<1>4. \A i \in DOMAIN refs : t[i].name = refs[i].name
  BY <1>1
<1>5. ref.at + ref.size <= Len(s) /\ SubSeq(s, ref.at + 1, ref.at + ref.size) = c
  <2>1. Len(s) = Len(store) + Len(c) /\ Len(store) \in Nat /\ Len(c) \in Nat
    BY StoredIsFound, LenProperties
  <2> QED
    BY <2>1, StoredIsFound
<1> HIDE DEF t, g, s
<1>6. DOMAIN held = {refs[i].name : i \in DOMAIN refs} /\ ref.name \in DOMAIN held
  BY <1>2 DEF FilesOf
<1>7. DOMAIN g = {t[i].name : i \in DOMAIN t}
  BY <1>1, <1>3, <1>4, <1>6
<1>8. \A i, j \in DOMAIN t : t[i].name = t[j].name => i = j
  BY <1>1, <1>2, <1>4 DEF FilesOf
<1>9. ASSUME NEW i \in DOMAIN t
      PROVE  t[i].at + t[i].size <= Len(s) /\ SubSeq(s, t[i].at + 1, t[i].at + t[i].size) = g[t[i].name]
  <2>1. CASE refs[i].name = ref.name
    BY <1>1, <1>3, <1>5, <2>1
  <2>2. CASE refs[i].name # ref.name
    <3>1. t[i] = refs[i] /\ refs[i].name \in DOMAIN held
      BY <1>1, <1>6, <2>2
    <3>2. /\ refs[i].at + refs[i].size <= Len(s)
          /\ SubSeq(s, refs[i].at + 1, refs[i].at + refs[i].size) = held[refs[i].name]
      BY <1>1, <1>2, <2>2 DEF FilesOf
    <3>3. g[refs[i].name] = held[refs[i].name]
      BY <1>3, <2>2, <3>1
    <3> QED
      BY <3>1, <3>2, <3>3
  <2> QED
    BY <2>1, <2>2
<1>10. FilesOf(s, t, g)
  BY <1>7, <1>8, <1>9 DEF FilesOf
<1> QED
  BY <1>1, <1>10 DEF t, g, s

\* A version is found in the latest commit that has its name.
LEMMA CheckoutFinds ==
  ASSUME vcs.commits \in Seq(Seq(Refs)), VersionsFound
  PROVE  /\ VersionsAreKept
         /\ \A i \in DOMAIN vcs.commits, n \in SystemFiles :
              \/ Checkout(i, n) = {}
              \/ \E m \in DOMAIN vcs.commits :
                   n \in DOMAIN history.commits[m] /\ Checkout(i, n) = {history.commits[m][n]}
<1>1. /\ Len(vcs.commits) = Len(history.commits)
      /\ \A k \in DOMAIN vcs.commits : FilesOf(vcs.store, vcs.commits[k], history.commits[k])
      /\ FilesOf(vcs.store, vcs.stage, history.stage)
  BY DEF VersionsFound
<1>2. DOMAIN vcs.commits = 1 .. Len(vcs.commits) /\ Len(vcs.commits) \in Nat
  BY LenProperties
<1>3. ASSUME NEW i \in DOMAIN vcs.commits, NEW n \in SystemFiles
      PROVE  /\ LET having == {k \in 1 .. i : n \in DOMAIN history.commits[k]}
                    latest == CHOOSE k \in having : \A l \in having : l <= k
                IN Checkout(i, n) = IF having = {} THEN {} ELSE {history.commits[latest][n]}
             /\ \/ Checkout(i, n) = {}
                \/ \E m \in DOMAIN vcs.commits :
                     n \in DOMAIN history.commits[m] /\ Checkout(i, n) = {history.commits[m][n]}
  <2> DEFINE Has(k) == \E f \in DOMAIN vcs.commits[k] : vcs.commits[k][f].name = n
             from == {k \in 1 .. i : Has(k) /\ \A l \in k + 1 .. i : ~Has(l)}
             having == {k \in 1 .. i : n \in DOMAIN history.commits[k]}
             latest == CHOOSE k \in having : \A l \in having : l <= k
  <2>1. i \in Nat /\ \A k \in 1 .. i : k \in DOMAIN vcs.commits /\ k \in Nat
    BY <1>2
  <2>2. ASSUME NEW k \in 1 .. i PROVE Has(k) <=> n \in DOMAIN history.commits[k]
    <3>1. FilesOf(vcs.store, vcs.commits[k], history.commits[k])
      BY <1>1, <2>1
    <3>2. DOMAIN history.commits[k] = {vcs.commits[k][f].name : f \in DOMAIN vcs.commits[k]}
      BY <3>1 DEF FilesOf
    <3> QED
      BY <3>2, SMTT(30)
  <2>3. \A k \in 1 .. i : k \in having <=> Has(k)
    BY <2>2
  <2>4. CASE having = {}
    <3>1. from = {}
      BY <2>3, <2>4, ZenonT(30)
    <3>2. Checkout(i, n) = {}
      BY <3>1, ZenonT(30) DEF Checkout
    <3> QED
      BY <2>4, <3>2
  <2>5. CASE having # {}
    <3>1. having \in SUBSET (1 .. i)
      OBVIOUS
    <3>2. PICK m \in having : \A l \in having : l <= m
      <4> HIDE DEF having
      <4> QED
        BY <2>1, <2>5, <3>1, Largest
    <3>3. m \in 1 .. i /\ Has(m)
      BY <2>3
    <3>4. latest = m
      <4>1. \A k \in having : (\A l \in having : l <= k) => k = m
        BY <2>1, <3>1, <3>2
      <4> HIDE DEF having
      <4> QED
        BY <3>2, <4>1
    <3>5. from = {m}
      <4>1. ASSUME NEW k \in from PROVE k = m
        <5>1. k \in having /\ k <= m /\ k \in 1 .. i
          BY <2>3, <3>2
        <5>2. m \notin k + 1 .. i
          BY <3>3
        <5> QED
          BY <2>1, <3>3, <5>1, <5>2
      <4>2. ASSUME NEW l \in m + 1 .. i, Has(l) PROVE FALSE
        <5>1. l \in 1 .. i /\ l > m
          BY <2>1, <3>3
        <5>2. l <= m
          BY <2>3, <3>2, <4>2, <5>1
        <5> QED
          BY <2>1, <3>3, <5>1, <5>2
      <4>3. m \in from
        BY <3>3, <4>2
      <4> HIDE DEF from
      <4> QED
        BY <4>1, <4>3
    <3>6. PICK refs : refs = vcs.commits[m]
      OBVIOUS
    <3>7. FilesOf(vcs.store, refs, history.commits[m]) /\ m \in DOMAIN vcs.commits
      BY <1>1, <2>1, <3>3, <3>6
    <3>8. PICK f \in DOMAIN refs : refs[f].name = n
      BY <3>3, <3>6
    <3>9. PICK r : r = CHOOSE g \in Range(refs) : g.name = n
      OBVIOUS
    <3>10. r = refs[f]
      <4>1. refs[f] \in Range(refs) /\ \A g \in Range(refs) : g.name = n => g = refs[f]
        BY <3>7, <3>8 DEF Range, FilesOf
      <4> QED
        BY <3>8, <3>9, <4>1
    <3>11. (CHOOSE k \in from : TRUE) = m
      <4> HIDE DEF from
      <4> QED
        BY <3>5
    <3>12. Checkout(i, n) = {SubSeq(vcs.store, r.at + 1, r.at + r.size)}
      <4>1. Checkout(i, n) = IF from = {} THEN {} ELSE
              {SubSeq(vcs.store, (CHOOSE g \in Range(vcs.commits[CHOOSE k \in from : TRUE]) : g.name = n).at + 1,
                      (CHOOSE g \in Range(vcs.commits[CHOOSE k \in from : TRUE]) : g.name = n).at
                      + (CHOOSE g \in Range(vcs.commits[CHOOSE k \in from : TRUE]) : g.name = n).size)}
        BY DEF Checkout
      <4> HIDE DEF from
      <4> QED
        BY <3>5, <3>6, <3>9, <3>11, <4>1
    <3>13. SubSeq(vcs.store, r.at + 1, r.at + r.size) = history.commits[m][n]
      BY <3>7, <3>8, <3>10 DEF FilesOf
    <3>14. Checkout(i, n) = IF having = {} THEN {} ELSE {history.commits[latest][n]}
      <4> HIDE DEF having, latest
      <4> QED
        BY <2>5, <3>4, <3>12, <3>13
    <3>15. /\ m \in DOMAIN vcs.commits /\ n \in DOMAIN history.commits[m]
           /\ Checkout(i, n) = {history.commits[m][n]}
      BY <2>1, <2>2, <3>3, <3>12, <3>13
    <3> QED
      BY <3>14, <3>15
  <2> QED
    BY <2>4, <2>5
<1>4. ASSUME NEW f \in Range(vcs.stage)
      PROVE  SubSeq(vcs.store, f.at + 1, f.at + f.size) = history.stage[f.name]
  <2>1. PICK i \in DOMAIN vcs.stage : f = vcs.stage[i]
    BY DEF Range
  <2> QED
    BY <1>1, <2>1 DEF FilesOf
<1> QED
  BY <1>1, <1>3, <1>4 DEF VersionsAreKept

\* A sequence with one more at its end.
LEMMA OneMore ==
  ASSUME NEW s, s \in Seq(Range(s)), NEW x
  PROVE  /\ Append(s, x) \in Seq(Range(Append(s, x))) /\ Len(Append(s, x)) = Len(s) + 1
         /\ DOMAIN Append(s, x) = 1 .. (Len(s) + 1) /\ DOMAIN s = 1 .. Len(s) /\ Len(s) \in Nat
         /\ Append(s, x)[Len(s) + 1] = x /\ \A i \in 1 .. Len(s) : Append(s, x)[i] = s[i]
<1> DEFINE S == Range(s) \cup {x}
           t == Append(s, x)
<1>1. s \in Seq(S) /\ x \in S
  BY SeqMonotonic
<1> HIDE DEF S
<1>2. /\ t \in Seq(S) /\ Len(t) = Len(s) + 1 /\ t[Len(s) + 1] = x /\ \A i \in 1 .. Len(s) : t[i] = s[i]
      /\ DOMAIN s = 1 .. Len(s) /\ Len(s) \in Nat
  BY <1>1, AppendProperties, LenProperties
<1>3. t \in [1 .. Len(t) -> S] /\ DOMAIN t = 1 .. Len(t)
  BY <1>2, LenProperties
<1> HIDE DEF t
<1>4. t \in [1 .. Len(t) -> Range(t)]
  BY <1>3 DEF Range
<1>5. t \in Seq(Range(t))
  BY <1>2, <1>4, SeqDef
<1> QED
  BY <1>2, <1>3, <1>5 DEF t

\* The version store with new contents.
LEMMA VersionsBecome ==
  ASSUME NEW store \in Seq(STRING), NEW stage \in Seq(Refs), NEW commits \in Seq(Seq(Refs)),
         NEW restored \in Seq(STRING), NEW hs, NEW hc, hc \in Seq(Range(hc)),
         vcs' = [store |-> store, stage |-> stage, commits |-> commits, restored |-> restored],
         history' = [stage |-> hs, commits |-> hc],
         IsFiles(hs), \A k \in DOMAIN hc : IsFiles(hc[k]), Len(commits) = Len(hc),
         FilesOf(store, stage, hs), \A k \in DOMAIN commits : FilesOf(store, commits[k], hc[k])
  PROVE  VersionsTypeOK' /\ VersionsFound'
<1>1. /\ vcs'.store = store /\ vcs'.stage = stage /\ vcs'.commits = commits /\ vcs'.restored = restored
      /\ history'.stage = hs /\ history'.commits = hc
  OBVIOUS
<1>2. vcs' \in [store : Seq(STRING), stage : Seq(Refs), commits : Seq(Seq(Refs)), restored : Seq(STRING)]
  <2> DEFINE A == Seq(STRING)
             B == Seq(Refs)
             C == Seq(Seq(Refs))
  <2>1. store \in A /\ stage \in B /\ commits \in C /\ restored \in A
    OBVIOUS
  <2> HIDE DEF A, B, C
  <2>2. vcs' \in [store : A, stage : B, commits : C, restored : A]
    BY <2>1
  <2> QED
    BY <2>2 DEF A, B, C
<1>3. VersionsTypeOK'
  BY <1>1, <1>2 DEF VersionsTypeOK, IsFiles
<1>4. VersionsFound'
  BY <1>1, SMTT(30) DEF VersionsFound, FilesOf
<1> QED
  BY <1>3, <1>4

\* What the version store is made of.
LEMMA VersionsAre ==
  ASSUME VersionsTypeOK, VersionsFound
  PROVE  /\ vcs.store \in Seq(STRING) /\ vcs.stage \in Seq(Refs) /\ vcs.commits \in Seq(Seq(Refs))
         /\ vcs.restored \in Seq(STRING)
         /\ vcs = [store |-> vcs.store, stage |-> vcs.stage, commits |-> vcs.commits, restored |-> vcs.restored]
         /\ history = [stage |-> history.stage, commits |-> history.commits]
         /\ IsFiles(history.stage) /\ history.commits \in Seq(Range(history.commits))
         /\ \A k \in DOMAIN history.commits : IsFiles(history.commits[k])
         /\ Len(vcs.commits) = Len(history.commits) /\ FilesOf(vcs.store, vcs.stage, history.stage)
         /\ \A k \in DOMAIN vcs.commits : FilesOf(vcs.store, vcs.commits[k], history.commits[k])
         /\ DOMAIN vcs.commits = 1 .. Len(vcs.commits) /\ DOMAIN history.commits = 1 .. Len(vcs.commits)
         /\ \A k \in DOMAIN vcs.commits : vcs.commits[k] \in Seq(Refs)
<1>1. vcs \in [store : Seq(STRING), stage : Seq(Refs), commits : Seq(Seq(Refs)), restored : Seq(STRING)]
  BY DEF VersionsTypeOK
<1>2. /\ vcs.store \in Seq(STRING) /\ vcs.stage \in Seq(Refs) /\ vcs.commits \in Seq(Seq(Refs))
      /\ vcs.restored \in Seq(STRING)
  BY <1>1
<1>3. vcs = [store |-> vcs.store, stage |-> vcs.stage, commits |-> vcs.commits, restored |-> vcs.restored]
  BY <1>1
<1>4. history.commits \in Seq(Range(history.commits)) /\ Len(vcs.commits) = Len(history.commits)
  BY DEF VersionsTypeOK, VersionsFound
<1>5. DOMAIN vcs.commits = 1 .. Len(vcs.commits) /\ DOMAIN history.commits = 1 .. Len(history.commits)
  BY <1>2, <1>4, LenProperties
<1>6. \A k \in DOMAIN vcs.commits : vcs.commits[k] \in Seq(Refs)
  BY <1>2, <1>5, ElementOfSeq
<1> QED
  BY <1>2, <1>3, <1>4, <1>5, <1>6 DEF VersionsTypeOK, VersionsFound

LEMMA PutIsFiles ==
  ASSUME NEW t, IsFiles(t), NEW n \in SystemFiles, NEW c \in Seq(STRING)
  PROVE  /\ IsFiles(PutFile(t, n, c)) /\ PutFile(t, n, c)[n] = c
         /\ DOMAIN PutFile(t, n, c) = DOMAIN t \cup {n}
BY DEF IsFiles, PutFile

LEMMA AddStep ==
  ASSUME VersionsTypeOK, VersionsFound, NEW n \in SystemFiles, NEW c \in Texts, Add(n, c)
  PROVE  VersionsTypeOK' /\ VersionsFound'
<1>1. c \in Seq(STRING)
  BY UpdatesAssumption
<1> DEFINE ref == [name |-> n, at |-> Len(vcs.store), size |-> Len(c)]
<1>2. ref \in Refs /\ ref.name = n /\ ref.at = Len(vcs.store) /\ ref.size = Len(c)
  BY <1>1, VersionsAre, LenProperties DEF Refs
<1>3. CASE UNCHANGED <<vcs, history>>
  BY <1>3 DEF VersionsTypeOK, VersionsFound
<1>4. CASE /\ vcs' = [vcs EXCEPT !.store = @ \o c,
                                 !.stage = IF Staged(n) = {} THEN Append(@, ref)
                                           ELSE [i \in DOMAIN @ |-> IF @[i].name = n THEN ref ELSE @[i]]]
           /\ history' = [history EXCEPT !.stage = [x \in DOMAIN @ \cup {n} |-> IF x = n THEN c ELSE @[x]]]
  <2>1. PICK stage : stage = IF Staged(n) = {} THEN Append(vcs.stage, ref) ELSE PutRef(vcs.stage, ref)
    OBVIOUS
  <2>2. PICK store : store = vcs.store \o c
    OBVIOUS
  <2>3. PICK hs : hs = PutFile(history.stage, n, c)
    OBVIOUS
  <2>4. vcs' = [store |-> store, stage |-> stage, commits |-> vcs.commits, restored |-> vcs.restored]
    <3>1. vcs' = [vcs EXCEPT !.store = store, !.stage = stage]
      BY <1>2, <1>4, <2>1, <2>2 DEF PutRef
    <3> HIDE DEF ref
    <3> QED
      BY <3>1, VersionsAre
  <2>5. history' = [stage |-> hs, commits |-> history.commits]
    <3>1. history' = [history EXCEPT !.stage = hs]
      BY <1>4, <2>3 DEF PutFile
    <3> HIDE DEF ref
    <3> QED
      BY <3>1, VersionsAre
  <2>6. stage \in Seq(Refs) /\ FilesOf(store, stage, hs)
    <3> HIDE DEF ref
    <3>1. CASE Staged(n) = {}
      <4>1. \A i \in DOMAIN vcs.stage : vcs.stage[i].name # ref.name
        BY <1>2, <3>1 DEF Staged
      <4> QED
        BY <1>1, <1>2, <2>1, <2>2, <2>3, <3>1, <4>1, VersionsAre, NewRefFound
    <3>2. CASE Staged(n) # {}
      <4>1. \E i \in DOMAIN vcs.stage : vcs.stage[i].name = ref.name
        BY <1>2, <3>2 DEF Staged
      <4> QED
        BY <1>1, <1>2, <2>1, <2>2, <2>3, <3>2, <4>1, VersionsAre, OldRefReplaced
    <3> QED
      BY <3>1, <3>2
  <2>7. store \in Seq(STRING) /\ IsFiles(hs)
    BY <1>1, <2>2, <2>3, VersionsAre, ConcatProperties, PutIsFiles
  <2>8. \A k \in DOMAIN vcs.commits : FilesOf(store, vcs.commits[k], history.commits[k])
    BY <1>1, <2>2, VersionsAre, FilesOfGrows
  <2> QED
    BY <2>4, <2>5, <2>6, <2>7, <2>8, VersionsAre, VersionsBecome
<1> QED
  BY <1>3, <1>4 DEF Add

LEMMA CommitStep ==
  ASSUME VersionsTypeOK, VersionsFound, Commit
  PROVE  VersionsTypeOK' /\ VersionsFound'
<1>1. CASE UNCHANGED <<vcs, history>>
  BY <1>1 DEF VersionsTypeOK, VersionsFound
<1>2. CASE /\ vcs' = [vcs EXCEPT !.commits = Append(@, vcs.stage), !.stage = <<>>]
           /\ history' = [stage |-> <<>>, commits |-> Append(history.commits, history.stage)]
  <2>1. PICK commits : commits = Append(vcs.commits, vcs.stage)
    OBVIOUS
  <2>2. PICK hc : hc = Append(history.commits, history.stage)
    OBVIOUS
  <2>3. PICK n \in Nat : n = Len(vcs.commits)
    BY VersionsAre, LenProperties
  <2>4. vcs' = [store |-> vcs.store, stage |-> <<>>, commits |-> commits, restored |-> vcs.restored]
    <3>1. vcs' = [vcs EXCEPT !.commits = commits, !.stage = <<>>]
      BY <1>2, <2>1
    <3> QED
      BY <3>1, VersionsAre
  <2>5. history' = [stage |-> <<>>, commits |-> hc]
    BY <1>2, <2>2
  <2>6. /\ commits \in Seq(Seq(Refs)) /\ Len(commits) = n + 1 /\ commits[n + 1] = vcs.stage
        /\ \A k \in 1 .. n : commits[k] = vcs.commits[k]
    <3>1. PICK S : S = Seq(Refs)
      OBVIOUS
    <3>2. vcs.commits \in Seq(S) /\ vcs.stage \in S
      BY <3>1, VersionsAre
    <3>3. /\ commits \in Seq(S) /\ Len(commits) = n + 1 /\ commits[n + 1] = vcs.stage
          /\ \A k \in 1 .. n : commits[k] = vcs.commits[k]
      BY <2>1, <2>3, <3>2, AppendProperties
    <3> QED
      BY <3>1, <3>3
  <2>7. /\ hc \in Seq(Range(hc)) /\ Len(hc) = n + 1 /\ DOMAIN hc = 1 .. (n + 1) /\ hc[n + 1] = history.stage
        /\ \A k \in 1 .. n : hc[k] = history.commits[k]
    BY <2>2, <2>3, VersionsAre, OneMore
  <2>8. DOMAIN commits = 1 .. (n + 1)
    BY <2>6, LenProperties
  <2>9. \A k \in 1 .. (n + 1) : k = n + 1 \/ k \in 1 .. n
    BY <2>3
  <2>10. \A k \in DOMAIN commits : FilesOf(vcs.store, commits[k], hc[k])
    BY <2>3, <2>6, <2>7, <2>8, <2>9, VersionsAre
  <2>11. \A k \in DOMAIN hc : IsFiles(hc[k])
    BY <2>3, <2>7, <2>9, VersionsAre
  <2>12. <<>> \in Seq(Refs) /\ IsFiles(<<>>) /\ FilesOf(vcs.store, <<>>, <<>>)
    <3>1. DOMAIN <<>> = {}
      OBVIOUS
    <3>2. <<>> \in Seq(Refs)
      BY EmptySeq
    <3>3. IsFiles(<<>>)
      BY <3>1 DEF IsFiles
    <3>4. FilesOf(vcs.store, <<>>, <<>>)
      BY <3>1 DEF FilesOf
    <3> QED
      BY <3>2, <3>3, <3>4
  <2>13. PICK e : e = <<>>
    OBVIOUS
  <2>14. /\ vcs' = [store |-> vcs.store, stage |-> e, commits |-> commits, restored |-> vcs.restored]
         /\ history' = [stage |-> e, commits |-> hc]
    BY <2>4, <2>5, <2>13
  <2>15. /\ vcs.store \in Seq(STRING) /\ e \in Seq(Refs) /\ commits \in Seq(Seq(Refs)) /\ vcs.restored \in Seq(STRING)
         /\ hc \in Seq(Range(hc)) /\ Len(commits) = Len(hc) /\ IsFiles(e) /\ FilesOf(vcs.store, e, e)
    BY <2>6, <2>7, <2>12, <2>13, VersionsAre
  <2> QED
    BY <2>10, <2>11, <2>14, <2>15, VersionsBecome
<1> QED
  BY <1>1, <1>2 DEF Commit


LEMMA InitRepoStep ==
  ASSUME VersionsTypeOK, VersionsFound, InitRepo
  PROVE  VersionsTypeOK' /\ VersionsFound'
<1>1. PICK e : e = <<>>
  OBVIOUS
<1>2. DOMAIN e = {} /\ Len(e) = 0 /\ e \in Seq(STRING) /\ e \in Seq(Refs) /\ e \in Seq(Seq(Refs)) /\ e \in Seq(Range(e))
  BY <1>1, EmptySeq
<1>3. IsFiles(e) /\ FilesOf(e, e, e)
  BY <1>2 DEF IsFiles, FilesOf
<1>4. /\ vcs' = [store |-> e, stage |-> e, commits |-> e, restored |-> vcs.restored]
      /\ history' = [stage |-> e, commits |-> e]
  <2>1. vcs' = [vcs EXCEPT !.store = e, !.stage = e, !.commits = e] /\ history' = [stage |-> e, commits |-> e]
    BY <1>1 DEF InitRepo
  <2> QED
    BY <2>1, VersionsAre
<1> QED
  BY <1>2, <1>3, <1>4, VersionsAre, VersionsBecome

LEMMA ShowStep ==
  ASSUME VersionsTypeOK, VersionsFound, NEW i, NEW n \in SystemFiles, Show(i, n)
  PROVE  VersionsTypeOK' /\ VersionsFound'
<1> DEFINE found == IF i \in DOMAIN vcs.commits THEN Checkout(i, n) ELSE {}
<1>1. PICK c : c = CHOOSE x \in found \cup {vcs.restored} : found \subseteq {x}
  OBVIOUS
<1>2. found = {} \/ \E x \in Seq(STRING) : found = {x}
  <2>1. CASE i \in DOMAIN vcs.commits
    <3>1. \/ Checkout(i, n) = {}
          \/ \E m \in DOMAIN vcs.commits : n \in DOMAIN history.commits[m] /\ Checkout(i, n) = {history.commits[m][n]}
      BY <2>1, VersionsAre, CheckoutFinds
    <3>2. ASSUME NEW m \in DOMAIN vcs.commits, n \in DOMAIN history.commits[m]
          PROVE  history.commits[m][n] \in Seq(STRING)
      BY <3>2, VersionsAre DEF IsFiles
    <3> QED
      BY <2>1, <3>1, <3>2
  <2> QED
    BY <2>1
<1> HIDE DEF found
<1>3. c \in Seq(STRING)
  <2>1. vcs.restored \in Seq(STRING)
    BY VersionsAre
  <2>2. \E x \in found \cup {vcs.restored} : found \subseteq {x}
    BY <1>2
  <2>3. c \in found \cup {vcs.restored}
    BY <1>1, <2>2
  <2> QED
    BY <1>2, <2>1, <2>3
<1>4. /\ vcs' = [store |-> vcs.store, stage |-> vcs.stage, commits |-> vcs.commits, restored |-> c]
      /\ history' = [stage |-> history.stage, commits |-> history.commits]
  <2>1. vcs' = [vcs EXCEPT !.restored = c] /\ history' = history
    BY <1>1 DEF Show, found
  <2> QED
    BY <2>1, VersionsAre
<1> QED
  BY <1>3, <1>4, VersionsAre, VersionsBecome

\* What a file reads as is one content, and only a file of the system has one.
LEMMA ContentIs ==
  ASSUME NEW t, IsFiles(t), NEW n
  PROVE  /\ Content(t, n) \in Seq(STRING)
         /\ n \in DOMAIN t => Content(t, n) = t[n] /\ Read(t, n) = {t[n]}
         /\ Read(t, n) # {} => Read(t, n) = {Content(t, n)} /\ n \in SystemFiles
         /\ Content(t, n) # <<>> => Read(t, n) # {} /\ n \in SystemFiles
<1>1. PICK e : e = <<>>
  OBVIOUS
<1>2. e \in Seq(STRING)
  BY <1>1, EmptySeq
<1>3. PICK found : found = Read(t, n)
  OBVIOUS
<1>4. Content(t, n) = CHOOSE c \in found \cup {e} : found \subseteq {c}
  BY <1>1, <1>3 DEF Content
<1>5. CASE found = {}
  <2>1. Content(t, n) = e
    BY <1>4, <1>5
  <2>2. n \notin DOMAIN t
    BY <1>3, <1>5 DEF Read
  <2> QED
    BY <1>1, <1>2, <1>3, <1>5, <2>1, <2>2
<1>6. CASE found # {}
  <2>1. PICK x \in Seq(STRING) : found = {x} /\ n \in SystemFiles /\ (n \in DOMAIN t => x = t[n])
    <3>1. CASE n \in DOMAIN t
      BY <1>3, <3>1 DEF Read, IsFiles
    <3>2. CASE n \notin DOMAIN t
      BY <1>3, <1>6, <3>2, UpdatesAssumption DEF Read, SystemFiles
    <3> QED
      BY <3>1, <3>2
  <2>2. Content(t, n) = x
    BY <1>4, <2>1
  <2> QED
    BY <1>3, <2>1, <2>2
<1> QED
  BY <1>5, <1>6

\* What an update goes through.
Going(a, l, d, z) == [slots |-> a, live |-> l, drivers |-> d, r |-> z]
Loaded == [name : SystemFiles, code : Seq(STRING)]

LEMMA ScanIsLoaded ==
  ASSUME NEW t, IsFiles(t), NEW scope
  PROVE  Scan(t, scope) \in SUBSET Loaded
<1>1. ASSUME NEW n \in SystemFiles
      PROVE  [name |-> n, code |-> Content(t, n)] \in Loaded
  BY ContentIs DEF Loaded
<1> QED
  BY <1>1 DEF Scan

LEMMA LoadedIsLive ==
  ASSUME NEW l \in Lives, NEW inUse \in [Single \cup Scanned -> SUBSET Loaded]
  PROVE  /\ [l EXCEPT !.inUse = inUse] \in Lives /\ [l EXCEPT !.inUse = inUse].file = l.file
         /\ [l EXCEPT !.inUse = inUse].inUse = inUse
<1>1. PICK S : S = [Single \cup Scanned -> SUBSET Loaded]
  OBVIOUS
<1>2. Lives = [file : Recordable, auto : BOOLEAN, failures : Nat, inUse : S]
  BY <1>1 DEF Lives, Loaded
<1> QED
  BY <1>1, <1>2

LEMMA LiveFields ==
  ASSUME NEW l \in Lives
  PROVE  /\ l.file \in Recordable /\ l.failures \in Nat /\ l.auto \in BOOLEAN
         /\ l.inUse \in [Single \cup Scanned -> SUBSET Loaded]
<1>1. PICK S : S = [Single \cup Scanned -> SUBSET Loaded]
  OBVIOUS
<1>2. Lives = [file : Recordable, auto : BOOLEAN, failures : Nat, inUse : S]
  BY <1>1 DEF Lives, Loaded
<1> QED
  BY <1>1, <1>2

LEMMA RecordedIs ==
  ASSUME NEW a, NEW l \in Lives, NEW d, NEW z, NEW n \in Recordable, NEW r \in Int
  PROVE  \E m \in Lives : Recorded(Going(a, l, d, z), n, r) = Going(a, m, d, r) /\ m.file = n /\ m.inUse = l.inUse
<1>1. PICK k : k = IF r < 0 THEN l.failures + 1 ELSE l.failures
  OBVIOUS
<1>2. k \in Nat
  BY <1>1, LiveFields
<1>3. PICK m : m = [l EXCEPT !.file = n, !.failures = k]
  OBVIOUS
<1>4. m \in Lives /\ m.file = n /\ m.inUse = l.inUse
  <2>1. PICK S : S = [Single \cup Scanned -> SUBSET Loaded]
    OBVIOUS
  <2>2. Lives = [file : Recordable, auto : BOOLEAN, failures : Nat, inUse : S]
    BY <2>1 DEF Lives, Loaded
  <2> QED
    BY <1>2, <1>3, <2>2
<1>5. Recorded(Going(a, l, d, z), n, r) = Going(a, m, d, r)
  <2>1. PICK s : s = Going(a, l, d, z)
    OBVIOUS
  <2>2. s.live = l /\ s = [slots |-> a, live |-> l, drivers |-> d, r |-> z]
    BY <2>1 DEF Going
  <2>3. Recorded(s, n, r) = [s EXCEPT !.live.file = n, !.live.failures = k, !.r = r]
    BY <1>1, <2>2 DEF Recorded
  <2>4. Recorded(s, n, r) = [s EXCEPT !.live = m, !.r = r]
    BY <1>3, <2>2, <2>3
  <2>5. PICK y : y = r
    OBVIOUS
  <2>6. PICK u : u = Recorded(s, n, r)
    OBVIOUS
  <2>7. u = [s EXCEPT !.live = m, !.r = y]
    BY <2>4, <2>5, <2>6
  <2>8. u = Going(a, m, d, y)
    BY <2>1, <2>7 DEF Going
  <2> QED
    BY <2>1, <2>5, <2>6, <2>8
<1> QED
  BY <1>4, <1>5

\* What is loaded is loaded from the file last recorded, or from all files.
Loads(a, l, d, z, scope, m, e, y) ==
  /\ Reloads(Going(a, l, d, z), scope) = Going(a, m, e, y)
  /\ m \in Lives /\ y \in Int
  /\ m.file = IF scope = "file" THEN "" ELSE l.file
  /\ y = 0 /\ scope \in Single /\ l.file # "" => m.inUse[scope] = {[name |-> l.file, code |-> Content(a, l.file)]}
  /\ scope \in Scanned => m.inUse[scope] = Scan(a, scope)

LEMMA ReloadsLoads ==
  ASSUME NEW a, IsFiles(a), NEW l \in Lives, NEW d, NEW z \in Int, NEW scope
  PROVE  \E m, e, y : Loads(a, l, d, z, scope, m, e, y)
<1>1. PICK s : s = Going(a, l, d, z)
  OBVIOUS
<1>2. PICK file : file = IF l.file = "" THEN DefaultFile(scope) ELSE l.file
  OBVIOUS
<1>3. PICK c : c = Content(a, file)
  OBVIOUS
<1>4. s.slots = a /\ s.live = l /\ s.drivers = d /\ s.r = z /\ s = [slots |-> a, live |-> l, drivers |-> d, r |-> z]
  BY <1>1 DEF Going
<1>5. l.file \in Recordable /\ l.inUse \in [Single \cup Scanned -> SUBSET Loaded]
  BY LiveFields
<1>6. Reloads(s, scope) =
        IF scope \in Single
        THEN IF c = <<>> \/ c[1] = "bad" THEN [s EXCEPT !.r = -1]
             ELSE [s EXCEPT !.live.inUse[scope] = {[name |-> file, code |-> c]}, !.r = 0]
        ELSE IF scope \in Scanned THEN [s EXCEPT !.live.inUse[scope] = Scan(a, scope), !.r = 0]
        ELSE IF scope = "drivers" THEN [s EXCEPT !.drivers = DrflLoadAll(a), !.r = 0]
        ELSE IF scope = "file" THEN [s EXCEPT !.live.file = "", !.r = 0]
        ELSE [s EXCEPT !.live.inUse = [x \in DOMAIN @ |-> IF x \in Scanned THEN Scan(a, x) ELSE @[x]],
                       !.drivers = DrflLoadAll(a), !.r = 0]
  BY <1>2, <1>3, <1>4 DEF Reloads
<1>7. /\ "file" \notin Single \cup Scanned /\ "drivers" \notin Single \cup Scanned
      /\ scope \in Single => scope \notin Scanned
  BY DEF Single, Scanned
<1>8. CASE scope \in Single
  <2>1. CASE c = <<>> \/ c[1] = "bad"
    <3>1. Reloads(s, scope) = Going(a, l, d, -1)
      <4>1. Reloads(s, scope) = [s EXCEPT !.r = -1]
        BY <1>6, <1>8, <2>1
      <4> QED
        BY <1>4, <4>1 DEF Going
    <3>2. Loads(a, l, d, z, scope, l, d, -1)
      <4>1. -1 \in Int /\ -1 # 0 /\ scope # "file" /\ scope \notin Scanned
        BY <1>7, <1>8
      <4> QED
        BY <1>1, <3>1, <4>1, Zenon DEF Loads
    <3> QED
      BY <3>2
  <2>2. CASE ~ (c = <<>> \/ c[1] = "bad")
    <3>1. PICK x : x = {[name |-> file, code |-> c]}
      OBVIOUS
    <3>2. x \in SUBSET Loaded
      <4>1. file \in SystemFiles /\ c \in Seq(STRING)
        BY <1>3, <2>2, ContentIs
      <4> QED
        BY <3>1, <4>1 DEF Loaded
    <3>3. PICK inUse : inUse = [l.inUse EXCEPT ![scope] = x]
      OBVIOUS
    <3>4. inUse \in [Single \cup Scanned -> SUBSET Loaded] /\ inUse[scope] = x
      BY <1>5, <1>8, <3>2, <3>3
    <3>5. PICK m : m = [l EXCEPT !.inUse = inUse]
      OBVIOUS
    <3>6. Reloads(s, scope) = Going(a, m, d, 0)
      <4>1. Reloads(s, scope) = [s EXCEPT !.live.inUse[scope] = x, !.r = 0]
        BY <1>6, <1>8, <2>2, <3>1
      <4>2. Reloads(s, scope) = [s EXCEPT !.live = m, !.r = 0]
        BY <1>4, <3>3, <3>5, <4>1
      <4> QED
        BY <1>4, <4>2 DEF Going
    <3>7. m \in Lives /\ m.file = l.file /\ m.inUse = inUse
      BY <3>4, <3>5, LoadedIsLive
    <3>8. l.file # "" => m.inUse[scope] = {[name |-> l.file, code |-> Content(a, l.file)]}
      BY <1>2, <1>3, <3>1, <3>4, <3>7
    <3>9. Loads(a, l, d, z, scope, m, d, 0)
      <4>1. 0 \in Int /\ scope # "file" /\ scope \notin Scanned
        BY <1>7, <1>8
      <4> QED
        BY <1>1, <3>6, <3>7, <3>8, <4>1, Zenon DEF Loads
    <3> QED
      BY <3>9
  <2> QED
    BY <2>1, <2>2
<1>9. CASE scope \in Scanned
  <2>1. PICK x : x = Scan(a, scope)
    OBVIOUS
  <2>2. PICK inUse : inUse = [l.inUse EXCEPT ![scope] = x]
    OBVIOUS
  <2>3. inUse \in [Single \cup Scanned -> SUBSET Loaded] /\ inUse[scope] = x
    <3>1. x \in SUBSET Loaded
      BY <2>1, ScanIsLoaded
    <3> QED
      BY <1>5, <1>9, <2>2, <3>1
  <2>4. PICK m : m = [l EXCEPT !.inUse = inUse]
    OBVIOUS
  <2>5. Reloads(s, scope) = Going(a, m, d, 0)
    <3>1. Reloads(s, scope) = [s EXCEPT !.live.inUse[scope] = x, !.r = 0]
      BY <1>6, <1>7, <1>9, <2>1
    <3>2. Reloads(s, scope) = [s EXCEPT !.live = m, !.r = 0]
      BY <1>4, <2>2, <2>4, <3>1
    <3> QED
      BY <1>4, <3>2 DEF Going
  <2>6. m \in Lives /\ m.file = l.file /\ m.inUse = inUse
    BY <2>3, <2>4, LoadedIsLive
  <2>7. scope # "file" /\ scope \notin Single
    BY <1>7, <1>9
  <2>8. Loads(a, l, d, z, scope, m, d, 0)
    <3>1. 0 \in Int
      OBVIOUS
    <3> QED
      BY <1>1, <2>1, <2>3, <2>5, <2>6, <2>7, <3>1, Zenon DEF Loads
  <2> QED
    BY <2>8
<1>10. CASE scope \notin Single \cup Scanned /\ scope = "drivers"
  <2>1. PICK e : e = DrflLoadAll(a)
    OBVIOUS
  <2>2. Reloads(s, scope) = Going(a, l, e, 0)
    <3>1. Reloads(s, scope) = [s EXCEPT !.drivers = e, !.r = 0]
      BY <1>6, <1>10, <2>1
    <3> QED
      BY <1>4, <3>1 DEF Going
  <2>3. Loads(a, l, d, z, scope, l, e, 0)
    <3>1. 0 \in Int /\ scope # "file" /\ scope \notin Single /\ scope \notin Scanned
      BY <1>10
    <3> QED
      BY <1>1, <2>2, <3>1, Zenon DEF Loads
  <2> QED
    BY <2>3
<1>11. CASE scope \notin Single \cup Scanned /\ scope = "file"
  <2>1. PICK m : m = [l EXCEPT !.file = ""]
    OBVIOUS
  <2>2. Reloads(s, scope) = Going(a, m, d, 0)
    <3>1. Reloads(s, scope) = [s EXCEPT !.live.file = "", !.r = 0]
      BY <1>6, <1>11
    <3>2. Reloads(s, scope) = [s EXCEPT !.live = m, !.r = 0]
      BY <1>4, <2>1, <3>1
    <3> QED
      BY <1>4, <3>2 DEF Going
  <2>3. m \in Lives /\ m.file = ""
    <3>1. PICK S : S = [Single \cup Scanned -> SUBSET Loaded]
      OBVIOUS
    <3>2. Lives = [file : Recordable, auto : BOOLEAN, failures : Nat, inUse : S]
      BY <3>1 DEF Lives, Loaded
    <3>3. PICK e : e = ""
      OBVIOUS
    <3>4. e \in Recordable /\ m = [l EXCEPT !.file = e]
      BY <2>1, <3>3 DEF Recordable
    <3>5. m \in Lives /\ m.file = e
      BY <3>2, <3>4
    <3> QED
      BY <3>3, <3>5
  <2>4. Loads(a, l, d, z, scope, m, d, 0)
    <3>1. 0 \in Int /\ scope = "file" /\ scope \notin Single /\ scope \notin Scanned
      BY <1>11
    <3> QED
      BY <1>1, <2>2, <2>3, <3>1, Zenon DEF Loads
  <2> QED
    BY <2>4
<1>12. CASE scope \notin Single \cup Scanned /\ scope \notin {"drivers", "file"}
  <2>1. PICK inUse : inUse = [x \in DOMAIN l.inUse |-> IF x \in Scanned THEN Scan(a, x) ELSE l.inUse[x]]
    OBVIOUS
  <2>2. inUse \in [Single \cup Scanned -> SUBSET Loaded]
    <3>1. ASSUME NEW x \in Single \cup Scanned PROVE Scan(a, x) \in SUBSET Loaded
      BY ScanIsLoaded
    <3> QED
      BY <1>5, <2>1, <3>1
  <2>3. PICK m : m = [l EXCEPT !.inUse = inUse]
    OBVIOUS
  <2>4. PICK e : e = DrflLoadAll(a)
    OBVIOUS
  <2>5. Reloads(s, scope) = Going(a, m, e, 0)
    <3>1. Reloads(s, scope) =
            [s EXCEPT !.live.inUse = [x \in DOMAIN @ |-> IF x \in Scanned THEN Scan(a, x) ELSE @[x]],
                      !.drivers = e, !.r = 0]
      BY <1>6, <1>12, <2>4
    <3>2. Reloads(s, scope) = [s EXCEPT !.live = m, !.drivers = e, !.r = 0]
      BY <1>4, <2>1, <2>3, <3>1
    <3> QED
      BY <1>4, <3>2 DEF Going
  <2>6. m \in Lives /\ m.file = l.file
    BY <2>2, <2>3, LoadedIsLive
  <2>7. Loads(a, l, d, z, scope, m, e, 0)
    <3>1. 0 \in Int /\ scope # "file" /\ scope \notin Single /\ scope \notin Scanned
      BY <1>12
    <3> QED
      BY <1>1, <2>5, <2>6, <3>1, Zenon DEF Loads
  <2> QED
    BY <2>7
<1> QED
  BY <1>8, <1>9, <1>10, <1>11, <1>12

\* A file that was applied is in use where files of its name are used.
InUse(t, l, n) ==
  LET scope == ScopeOf[n]
      it == [name |-> n, code |-> Content(t, n)]
  IN /\ scope \in Single => l.inUse[scope] = {it}
     /\ scope \in Scanned => it \in l.inUse[scope] \/ it.code = <<>>

LEMMA LoadsIsInUse ==
  ASSUME NEW t, IsFiles(t), NEW n \in SystemFiles, n \in DOMAIN t, NEW l \in Lives, l.file = n,
         NEW d, NEW z, NEW m, NEW e, NEW y, Loads(t, l, d, z, ScopeOf[n], m, e, y), y = 0
  PROVE  InUse(t, m, n)
<1>1. PICK scope : scope = ScopeOf[n]
  OBVIOUS
<1>2. PICK it : it = [name |-> n, code |-> Content(t, n)]
  OBVIOUS
<1>3. n # ""
  BY UpdatesAssumption DEF SystemFiles
<1>4. scope \in Single => m.inUse[scope] = {it}
  BY <1>1, <1>2, <1>3, Zenon DEF Loads
<1>5. ASSUME scope \in Scanned, it.code # <<>> PROVE it \in m.inUse[scope]
  <2>1. m.inUse[scope] = Scan(t, scope)
    BY <1>1, <1>5, Zenon DEF Loads
  <2>2. Read(t, n) = {t[n]} /\ Content(t, n) = t[n] /\ t[n] # <<>>
    <3>1. Read(t, n) = {t[n]} /\ Content(t, n) = t[n]
      BY ContentIs
    <3> QED
      BY <1>2, <1>5, <3>1
  <2>3. Read(t, n) \notin {{}, {<<>>}}
    BY <2>2
  <2> QED
    BY <1>1, <1>2, <2>1, <2>3 DEF Scan
<1> QED
  BY <1>1, <1>2, <1>4, <1>5 DEF InUse

Applies(a, l, d, n, text, append, reload, b, m, e, y) ==
  /\ ApplyText(Going(a, l, d, 0), n, text, append, reload) = Going(b, m, e, y)
  /\ IsFiles(b) /\ m \in Lives
  /\ y = 0 /\ reload => InUse(b, m, n)

LEMMA ApplyTextApplies ==
  ASSUME NEW a, IsFiles(a), NEW l \in Lives, NEW d, NEW n \in SystemFiles, NEW text \in Seq(STRING),
         NEW append \in BOOLEAN, NEW reload \in BOOLEAN
  PROVE  \E b, m, e, y : Applies(a, l, d, n, text, append, reload, b, m, e, y)
<1>1. PICK empty : empty = <<>>
  OBVIOUS
<1>2. PICK b1 : b1 = IF n \in DOMAIN a THEN a ELSE PutFile(a, n, empty)
  OBVIOUS
<1>3. PICK seed : seed = IF append /\ n \notin DOMAIN a THEN Content(a, n) ELSE empty
  OBVIOUS
<1>4. PICK base : base = IF append THEN IF n \in DOMAIN a THEN a[n] ELSE seed ELSE empty
  OBVIOUS
<1>5. PICK b2 : b2 = [b1 EXCEPT ![n] = IF append THEN base ELSE @]
  OBVIOUS
<1>6. PICK b3 : b3 = [b1 EXCEPT ![n] = base \o text]
  OBVIOUS
<1>7. empty \in Seq(STRING) /\ seed \in Seq(STRING) /\ base \in Seq(STRING) /\ base \o text \in Seq(STRING)
  <2>1. empty \in Seq(STRING)
    BY <1>1, EmptySeq
  <2>2. Content(a, n) \in Seq(STRING) /\ (n \in DOMAIN a => a[n] \in Seq(STRING))
    BY ContentIs DEF IsFiles
  <2>3. base \in Seq(STRING)
    BY <1>3, <1>4, <2>1, <2>2
  <2> QED
    BY <1>3, <2>1, <2>2, <2>3, ConcatProperties
<1>8. IsFiles(b1) /\ n \in DOMAIN b1
  <2>1. CASE n \in DOMAIN a
    BY <1>2, <2>1
  <2>2. CASE n \notin DOMAIN a
    <3>1. b1 = PutFile(a, n, empty)
      BY <1>2, <2>2
    <3> QED
      BY <1>7, <3>1 DEF IsFiles, PutFile
  <2> QED
    BY <2>1, <2>2
<1>9. IsFiles(b2) /\ IsFiles(b3) /\ n \in DOMAIN b3
  BY <1>5, <1>6, <1>7, <1>8 DEF IsFiles
<1>10. n \in Recordable
  BY DEF Recordable
<1>11. PICK s : s = Going(a, l, d, 0)
  OBVIOUS
<1>12. PICK made : made = Going(b1, l, d, 0)
  OBVIOUS
<1>13. PICK seeded : seeded = Going(b2, l, d, 0)
  OBVIOUS
<1>14. PICK put : put = Going(b3, l, d, 0)
  OBVIOUS
<1>15. PICK w : w = Recorded(put, n, 0)
  OBVIOUS
<1>16. PICK scope : scope = ScopeOf[n]
  OBVIOUS
<1>17. PICK r : r = Reloads(w, scope)
  OBVIOUS
<1>18. ApplyText(s, n, text, append, reload) =
         IF n \notin DOMAIN a /\ Cardinality(DOMAIN a) >= SlotMax THEN Recorded(s, n, -3)
         ELSE IF Len(seed) > SlotCap THEN Recorded(made, n, -4)
         ELSE IF Len(base \o text) > SlotCap THEN Recorded(seeded, n, -5)
         ELSE IF reload THEN IF scope = "file" THEN r ELSE Recorded(r, r.live.file, r.r)
         ELSE w
  <2>1. s.slots = a /\ s = [slots |-> a, live |-> l, drivers |-> d, r |-> 0]
    BY <1>11 DEF Going
  <2>2. made = IF n \in DOMAIN s.slots THEN s
               ELSE [s EXCEPT !.slots = [x \in DOMAIN @ \cup {n} |-> IF x = n THEN <<>> ELSE @[x]]]
    <3>1. CASE n \in DOMAIN a
      BY <1>2, <1>11, <1>12, <2>1, <3>1
    <3>2. CASE n \notin DOMAIN a
      <4>1. PICK u : u = [s EXCEPT !.slots = [x \in DOMAIN @ \cup {n} |-> IF x = n THEN <<>> ELSE @[x]]]
        OBVIOUS
      <4>2. u = [s EXCEPT !.slots = b1]
        BY <1>1, <1>2, <2>1, <3>2, <4>1 DEF PutFile
      <4>3. u = made
        BY <1>11, <1>12, <4>2 DEF Going
      <4> QED
        BY <2>1, <3>2, <4>1, <4>3
    <3> QED
      BY <3>1, <3>2
  <2>3. made.slots = b1 /\ made = [slots |-> b1, live |-> l, drivers |-> d, r |-> 0]
    BY <1>12 DEF Going
  <2>4. seeded = [made EXCEPT !.slots[n] = IF append THEN base ELSE @]
    <3>1. PICK u : u = [made EXCEPT !.slots[n] = IF append THEN base ELSE @]
      OBVIOUS
    <3>2. u = [made EXCEPT !.slots = b2]
      BY <1>5, <2>3, <3>1
    <3>3. u = seeded
      BY <1>12, <1>13, <3>2 DEF Going
    <3> QED
      BY <3>1, <3>3
  <2>5. put = [made EXCEPT !.slots[n] = base \o text]
    <3>1. PICK u : u = [made EXCEPT !.slots[n] = base \o text]
      OBVIOUS
    <3>2. u = [made EXCEPT !.slots = b3]
      BY <1>6, <2>3, <3>1
    <3>3. u = put
      BY <1>12, <1>14, <3>2 DEF Going
    <3> QED
      BY <3>1, <3>3
  <2>6. /\ seed = IF append /\ ~ (n \in DOMAIN s.slots) THEN Content(s.slots, n) ELSE <<>>
        /\ base = IF append THEN IF n \in DOMAIN s.slots THEN s.slots[n] ELSE seed ELSE <<>>
    BY <1>1, <1>3, <1>4, <2>1
  <2> QED
    BY <1>15, <1>16, <1>17, <2>1, <2>2, <2>4, <2>5, <2>6 DEF ApplyText
<1>19. ASSUME NEW u, IsFiles(u), NEW y \in Int, y # 0,
              ApplyText(s, n, text, append, reload) = Recorded(Going(u, l, d, 0), n, y)
       PROVE  \E b, m, e, x : Applies(a, l, d, n, text, append, reload, b, m, e, x)
  <2>1. PICK m \in Lives : Recorded(Going(u, l, d, 0), n, y) = Going(u, m, d, y)
    BY <1>10, RecordedIs
  <2>2. Applies(a, l, d, n, text, append, reload, u, m, d, y)
    BY <1>11, <1>19, <2>1, Zenon DEF Applies
  <2> QED
    BY <2>2
<1>20. PICK k \in Lives : w = Going(b3, k, d, 0) /\ k.file = n
  BY <1>10, <1>14, <1>15, RecordedIs
<1>21. PICK m, e, y : Loads(b3, k, d, 0, scope, m, e, y)
  <2>1. 0 \in Int
    OBVIOUS
  <2> QED
    BY <1>9, <2>1, ReloadsLoads, Zenon
<1>22. r = Going(b3, m, e, y) /\ m \in Lives /\ y \in Int
  BY <1>17, <1>20, <1>21, Zenon DEF Loads
<1>23. y = 0 => InUse(b3, m, n)
  BY <1>9, <1>16, <1>20, <1>21, LoadsIsInUse
<1>24. CASE /\ ~ (n \notin DOMAIN a /\ Cardinality(DOMAIN a) >= SlotMax) /\ ~ (Len(seed) > SlotCap)
            /\ ~ (Len(base \o text) > SlotCap)
  <2>1. CASE ~ reload
    <3>1. ApplyText(s, n, text, append, reload) = w
      BY <1>18, <1>24, <2>1
    <3>2. Applies(a, l, d, n, text, append, reload, b3, k, d, 0)
      BY <1>9, <1>11, <1>20, <2>1, <3>1, Zenon DEF Applies
    <3> QED
      BY <3>2
  <2>2. CASE reload /\ scope = "file"
    <3>1. ApplyText(s, n, text, append, reload) = r
      BY <1>18, <1>24, <2>2
    <3>2. Applies(a, l, d, n, text, append, reload, b3, m, e, y)
      BY <1>9, <1>11, <1>22, <1>23, <3>1, Zenon DEF Applies
    <3> QED
      BY <3>2
  <2>3. CASE reload /\ scope # "file"
    <3>1. m.file = n
      BY <1>20, <1>21, <2>3, Zenon DEF Loads
    <3>2. r.live = m /\ r.r = y
      BY <1>22 DEF Going
    <3>3. PICK q \in Lives : Recorded(Going(b3, m, e, y), n, y) = Going(b3, q, e, y) /\ q.inUse = m.inUse
      BY <1>10, <1>22, RecordedIs
    <3>4. ApplyText(s, n, text, append, reload) = Going(b3, q, e, y)
      BY <1>18, <1>22, <1>24, <2>3, <3>1, <3>2, <3>3
    <3>5. y = 0 => InUse(b3, q, n)
      BY <1>23, <3>3 DEF InUse
    <3>6. Applies(a, l, d, n, text, append, reload, b3, q, e, y)
      BY <1>9, <1>11, <3>4, <3>5, Zenon DEF Applies
    <3> QED
      BY <3>6
  <2> QED
    BY <2>1, <2>2, <2>3
<1>25. CASE n \notin DOMAIN a /\ Cardinality(DOMAIN a) >= SlotMax
  <2>1. ApplyText(s, n, text, append, reload) = Recorded(Going(a, l, d, 0), n, -3)
    BY <1>11, <1>18, <1>25
  <2> QED
    BY <1>19, <2>1
<1>26. CASE ~ (n \notin DOMAIN a /\ Cardinality(DOMAIN a) >= SlotMax) /\ Len(seed) > SlotCap
  <2>1. ApplyText(s, n, text, append, reload) = Recorded(Going(b1, l, d, 0), n, -4)
    BY <1>12, <1>18, <1>26
  <2> QED
    BY <1>8, <1>19, <2>1
<1>27. CASE /\ ~ (n \notin DOMAIN a /\ Cardinality(DOMAIN a) >= SlotMax) /\ ~ (Len(seed) > SlotCap)
            /\ Len(base \o text) > SlotCap
  <2>1. ApplyText(s, n, text, append, reload) = Recorded(Going(b2, l, d, 0), n, -5)
    BY <1>13, <1>18, <1>27
  <2> QED
    BY <1>9, <1>19, <2>1
<1> QED
  BY <1>24, <1>25, <1>26, <1>27

LEMMA LiveBecomes ==
  ASSUME UpdatesInv, IsFiles(slots'), live' \in Lives, Counted, UNCHANGED <<vcs, history, sectors>>,
         NEW what \in Done \ {"installed"}, NEW n \in Recordable, did' = [what |-> what, name |-> n],
         what = "applied" => InUse(slots', live', n)
  PROVE  UpdatesInv'
<1>1. did' \in [what : Done, name : Recordable] /\ did'.what = what /\ did'.name = n
  OBVIOUS
<1>2. used' \in 0 .. MaxSteps
  <2>1. used \in 0 .. MaxSteps /\ MaxSteps \in Nat /\ used < MaxSteps /\ used' = used + 1
    BY UpdatesAssumption DEF UpdatesInv, UpdatesTypeOK, Counted
  <2> QED
    BY <2>1
<1>3. VersionsTypeOK' /\ VersionsFound'
  BY DEF UpdatesInv, UpdatesTypeOK, VersionsTypeOK, VersionsFound
<1>4. IsFiles(slots)'
  BY DEF IsFiles
<1>5. UpdatesTypeOK'
  BY <1>1, <1>2, <1>3, <1>4 DEF UpdatesInv, UpdatesTypeOK, Lives
<1>6. AppliedIsInUse'
  BY <1>1 DEF AppliedIsInUse, InUse
<1>7. InstallSparesStore'
  BY <1>1 DEF UpdatesInv, InstallSparesStore
<1> QED
  BY <1>3, <1>5, <1>6, <1>7 DEF UpdatesInv

\* What a step of an update leaves.
LEMMA GoingBecomes ==
  ASSUME NEW b, NEW m, NEW e, NEW y, Becomes(Going(b, m, e, y))
  PROVE  slots' = b /\ live' = m /\ drivers' = e
BY DEF Becomes, Going

LEMMA ApplyStep ==
  ASSUME UpdatesInv, NEW n \in SystemFiles, NEW text \in Seq(STRING), NEW append \in BOOLEAN, NEW reload \in BOOLEAN,
         Counted, UNCHANGED <<vcs, history, sectors>>,
         NEW s, s = ApplyText(Sys, n, text, append, reload), Becomes(s),
         did' = [what |-> IF s.r # 0 THEN "refused" ELSE IF reload THEN "applied" ELSE "wrote", name |-> n]
  PROVE  UpdatesInv'
<1>1. IsFiles(slots) /\ live \in Lives /\ Sys = Going(slots, live, drivers, 0)
  BY DEF UpdatesInv, UpdatesTypeOK, Sys, Going
<1>2. PICK b, m, e, y : Applies(slots, live, drivers, n, text, append, reload, b, m, e, y)
  <2>1. CASE append /\ reload
    <3>1. append = TRUE /\ reload = TRUE /\ TRUE \in BOOLEAN
      BY <2>1
    <3>2. \E b, m, e, y : Applies(slots, live, drivers, n, text, TRUE, TRUE, b, m, e, y)
      BY <1>1, <3>1, ApplyTextApplies
    <3> QED
      BY <3>1, <3>2
  <2>2. CASE append /\ ~ reload
    <3>1. append = TRUE /\ reload = FALSE /\ TRUE \in BOOLEAN /\ FALSE \in BOOLEAN
      BY <2>2
    <3>2. \E b, m, e, y : Applies(slots, live, drivers, n, text, TRUE, FALSE, b, m, e, y)
      BY <1>1, <3>1, ApplyTextApplies
    <3> QED
      BY <3>1, <3>2
  <2>3. CASE ~ append /\ reload
    <3>1. append = FALSE /\ reload = TRUE /\ TRUE \in BOOLEAN /\ FALSE \in BOOLEAN
      BY <2>3
    <3>2. \E b, m, e, y : Applies(slots, live, drivers, n, text, FALSE, TRUE, b, m, e, y)
      BY <1>1, <3>1, ApplyTextApplies
    <3> QED
      BY <3>1, <3>2
  <2>4. CASE ~ append /\ ~ reload
    <3>1. append = FALSE /\ reload = FALSE /\ FALSE \in BOOLEAN
      BY <2>4
    <3>2. \E b, m, e, y : Applies(slots, live, drivers, n, text, FALSE, FALSE, b, m, e, y)
      BY <1>1, <3>1, ApplyTextApplies
    <3> QED
      BY <3>1, <3>2
  <2> QED
    BY <2>1, <2>2, <2>3, <2>4
<1>3. s = Going(b, m, e, y) /\ IsFiles(b) /\ m \in Lives /\ (y = 0 /\ reload => InUse(b, m, n))
  BY <1>1, <1>2, Zenon DEF Applies
<1>4. slots' = b /\ live' = m
  BY <1>3, GoingBecomes
<1>5. s.r = y
  BY <1>3 DEF Going
<1>6. PICK what : what = IF y # 0 THEN "refused" ELSE IF reload THEN "applied" ELSE "wrote"
  OBVIOUS
<1>7. /\ what \in Done \ {"installed"} /\ n \in Recordable /\ did' = [what |-> what, name |-> n]
      /\ what = "applied" => y = 0 /\ reload
  <2>1. what \in Done \ {"installed"}
    BY <1>6 DEF Done
  <2>2. did' = [what |-> what, name |-> n]
    BY <1>5, <1>6
  <2>3. what = "applied" => y = 0 /\ reload
    BY <1>6
  <2>4. n \in Recordable
    BY DEF Recordable
  <2> QED
    BY <2>1, <2>2, <2>3, <2>4
<1>8. what = "applied" => InUse(slots', live', n)
  BY <1>3, <1>4, <1>7
<1> QED
  BY <1>3, <1>4, <1>7, <1>8, LiveBecomes

LEMMA ApplyFromStep ==
  ASSUME UpdatesInv, NEW src \in SystemFiles, NEW n \in SystemFiles, ApplyFrom(src, n)
  PROVE  UpdatesInv'
<1>1. IsFiles(slots) /\ live \in Lives /\ Sys = Going(slots, live, drivers, 0)
  BY DEF UpdatesInv, UpdatesTypeOK, Sys, Going
<1>2. PICK s : s = IF Read(slots, src) = {} THEN Recorded(Sys, n, -1)
                   ELSE IF Len(Content(slots, src)) >= PayloadMax THEN Recorded(Sys, n, -2)
                   ELSE ApplyText(Sys, n, Content(slots, src), FALSE, TRUE)
  OBVIOUS
<1>3. /\ Counted /\ UNCHANGED <<vcs, history, sectors>> /\ Becomes(s)
      /\ did' = [what |-> IF s.r # 0 THEN "refused" ELSE "applied", name |-> n]
  BY <1>2 DEF ApplyFrom
<1>4. n \in Recordable
  BY DEF Recordable
<1>5. ASSUME NEW y \in Int, y # 0, s = Recorded(Sys, n, y)
      PROVE  UpdatesInv'
  <2>1. PICK m \in Lives : s = Going(slots, m, drivers, y)
    BY <1>1, <1>4, <1>5, RecordedIs
  <2>2. slots' = slots /\ live' = m
    BY <1>3, <2>1, GoingBecomes
  <2>3. s.r = y
    BY <2>1 DEF Going
  <2>4. PICK what : what = "refused"
    OBVIOUS
  <2>5. what \in Done \ {"installed"} /\ did' = [what |-> what, name |-> n] /\ what # "applied"
    BY <1>3, <1>5, <2>3, <2>4 DEF Done
  <2>6. IsFiles(slots')
    BY <1>1, <2>2
  <2> QED
    BY <1>3, <1>4, <2>2, <2>5, <2>6, LiveBecomes
<1>6. CASE Read(slots, src) = {}
  <2>1. s = Recorded(Sys, n, -1)
    BY <1>2, <1>6
  <2> QED
    BY <1>5, <2>1
<1>7. CASE Read(slots, src) # {} /\ Len(Content(slots, src)) >= PayloadMax
  <2>1. s = Recorded(Sys, n, -2)
    BY <1>2, <1>7
  <2> QED
    BY <1>5, <2>1
<1>8. CASE Read(slots, src) # {} /\ ~ (Len(Content(slots, src)) >= PayloadMax)
  <2>1. PICK text \in Seq(STRING) : text = Content(slots, src)
    BY <1>1, ContentIs
  <2>2. s = ApplyText(Sys, n, text, FALSE, TRUE)
    BY <1>2, <1>8, <2>1
  <2>3. did' = [what |-> IF s.r # 0 THEN "refused" ELSE IF TRUE THEN "applied" ELSE "wrote", name |-> n]
    BY <1>3
  <2>4. FALSE \in BOOLEAN /\ TRUE \in BOOLEAN
    OBVIOUS
  <2> QED
    BY <1>3, <2>2, <2>3, <2>4, ApplyStep
<1> QED
  BY <1>6, <1>7, <1>8

LEMMA ReloadStep ==
  ASSUME UpdatesInv, NEW scope, Reload(scope)
  PROVE  UpdatesInv'
<1>1. IsFiles(slots) /\ live \in Lives /\ Sys = Going(slots, live, drivers, 0) /\ 0 \in Int
  BY DEF UpdatesInv, UpdatesTypeOK, Sys, Going
<1>2. PICK r : r = Reloads(Sys, scope)
  OBVIOUS
<1>3. PICK s : s = IF scope = "file" THEN r ELSE Recorded(r, r.live.file, r.r)
  OBVIOUS
<1>4. /\ Counted /\ UNCHANGED <<vcs, history, sectors>> /\ Becomes(s)
      /\ did' = [what |-> "reloaded", name |-> ""]
  BY <1>2, <1>3 DEF Reload
<1>5. PICK m, e, y : Loads(slots, live, drivers, 0, scope, m, e, y)
  BY <1>1, ReloadsLoads, Zenon
<1>6. r = Going(slots, m, e, y) /\ m \in Lives /\ y \in Int
  BY <1>1, <1>2, <1>5, Zenon DEF Loads
<1>7. \E q \in Lives : s = Going(slots, q, e, y)
  <2>1. CASE scope = "file"
    BY <1>3, <1>6, <2>1
  <2>2. CASE scope # "file"
    <3>1. r.live = m /\ r.r = y
      BY <1>6 DEF Going
    <3>2. m.file \in Recordable
      BY <1>6, LiveFields
    <3>3. PICK q \in Lives : Recorded(Going(slots, m, e, y), m.file, y) = Going(slots, q, e, y)
      BY <1>6, <3>2, RecordedIs
    <3> QED
      BY <1>3, <1>6, <2>2, <3>1, <3>3
  <2> QED
    BY <2>1, <2>2
<1>8. PICK q \in Lives : slots' = slots /\ live' = q
  BY <1>4, <1>7, GoingBecomes
<1>9. PICK what, n : what = "reloaded" /\ n = ""
  OBVIOUS
<1>10. /\ what \in Done \ {"installed"} /\ n \in Recordable /\ what # "applied"
       /\ did' = [what |-> what, name |-> n]
  BY <1>4, <1>9 DEF Done, Recordable
<1>11. IsFiles(slots')
  BY <1>1, <1>8
<1> QED
  BY <1>4, <1>8, <1>10, <1>11, LiveBecomes

LEMMA DriversStep ==
  ASSUME UpdatesInv, Counted, UNCHANGED <<slots, live, vcs, history, sectors>>,
         NEW n \in Recordable, did' = [what |-> "drivers", name |-> n]
  PROVE  UpdatesInv'
<1>1. PICK what : what = "drivers"
  OBVIOUS
<1>2. what \in Done \ {"installed"} /\ what # "applied" /\ did' = [what |-> what, name |-> n]
  BY <1>1 DEF Done
<1>3. IsFiles(slots') /\ live' \in Lives
  BY DEF UpdatesInv, UpdatesTypeOK
<1> QED
  BY <1>2, <1>3, LiveBecomes

LEMMA SetAutoStep ==
  ASSUME UpdatesInv, NEW on \in BOOLEAN, SetAuto(on)
  PROVE  UpdatesInv'
<1>1. PICK S : S = [Single \cup Scanned -> SUBSET Loaded]
  OBVIOUS
<1>2. Lives = [file : Recordable, auto : BOOLEAN, failures : Nat, inUse : S]
  BY <1>1 DEF Lives, Loaded
<1>3. PICK what, n, file : what = "auto" /\ n = "" /\ file = "auto"
  OBVIOUS
<1>4. /\ what \in Done \ {"installed"} /\ n \in Recordable /\ file \in Recordable /\ what # "applied"
      /\ did' = [what |-> what, name |-> n]
  BY <1>3 DEF SetAuto, Done, Recordable
<1>5. PICK l \in Lives : l = live
  BY DEF UpdatesInv, UpdatesTypeOK
<1>6. PICK m : m = [l EXCEPT !.auto = on, !.file = file]
  OBVIOUS
<1>7. live' = m /\ Counted /\ UNCHANGED <<slots, vcs, history, sectors>>
  BY <1>3, <1>5, <1>6 DEF SetAuto
<1>8. m \in Lives
  BY <1>2, <1>4, <1>6
<1>9. IsFiles(slots')
  BY <1>7 DEF UpdatesInv, UpdatesTypeOK
<1> QED
  BY <1>4, <1>7, <1>8, <1>9, LiveBecomes

LEMMA LiveSteps ==
  ASSUME UpdatesInv, LiveNext
  PROVE  UpdatesInv'
<1>1. ASSUME NEW n \in SystemFiles, NEW text \in Texts, NEW append \in BOOLEAN, NEW reload \in BOOLEAN,
             Apply(n, text, append, reload)
      PROVE  UpdatesInv'
  <2>1. PICK s : s = ApplyText(Sys, n, text, append, reload)
    OBVIOUS
  <2>2. /\ Counted /\ UNCHANGED <<vcs, history, sectors>> /\ Becomes(s)
        /\ did' = [what |-> IF s.r # 0 THEN "refused" ELSE IF reload THEN "applied" ELSE "wrote", name |-> n]
    BY <1>1, <2>1 DEF Apply
  <2>3. text \in Seq(STRING)
    BY UpdatesAssumption
  <2> QED
    BY <2>1, <2>2, <2>3, ApplyStep
<1>2. ASSUME NEW src \in SystemFiles, NEW n \in SystemFiles, ApplyFrom(src, n)
      PROVE  UpdatesInv'
  BY <1>2, ApplyFromStep
<1>3. ASSUME NEW scope, Reload(scope)
      PROVE  UpdatesInv'
  BY <1>3, ReloadStep
<1>4. ASSUME NEW on \in BOOLEAN, SetAuto(on)
      PROVE  UpdatesInv'
  BY <1>4, SetAutoStep
<1>5. CASE DriversReload
  <2>1. PICK n : n = ""
    OBVIOUS
  <2>2. n \in Recordable /\ did' = [what |-> "drivers", name |-> n]
    BY <1>5, <2>1 DEF DriversReload, Recordable
  <2>3. Counted /\ UNCHANGED <<slots, live, vcs, history, sectors>>
    BY <1>5 DEF DriversReload
  <2> QED
    BY <2>2, <2>3, DriversStep
<1>6. ASSUME NEW n \in SystemFiles, DriversLoad(n)
      PROVE  UpdatesInv'
  <2>1. n \in Recordable /\ did' = [what |-> "drivers", name |-> n]
    BY <1>6 DEF DriversLoad, Recordable
  <2>2. Counted /\ UNCHANGED <<slots, live, vcs, history, sectors>>
    BY <1>6 DEF DriversLoad
  <2> QED
    BY <2>1, <2>2, DriversStep
<1> QED
  BY <1>1, <1>2, <1>3, <1>4, <1>5, <1>6 DEF LiveNext

LEMMA VersionSteps ==
  ASSUME UpdatesInv, VcsNext
  PROVE  UpdatesInv'
<1>1. VersionsTypeOK /\ VersionsFound
  BY DEF UpdatesInv, UpdatesTypeOK
<1>2. ASSUME NEW what \in Done \ {"applied", "installed"}, NEW n \in Recordable, did' = [what |-> what, name |-> n],
             VersionsTypeOK', VersionsFound', Counted, UNCHANGED <<slots, live, drivers, sectors>>
      PROVE  UpdatesInv'
  <2>1. did' \in [what : Done, name : Recordable] /\ did'.what = what
    BY <1>2
  <2>2. used' \in 0 .. MaxSteps
    <3>1. used \in 0 .. MaxSteps /\ MaxSteps \in Nat /\ used < MaxSteps /\ used' = used + 1
      BY <1>2, UpdatesAssumption DEF UpdatesInv, UpdatesTypeOK, Counted
    <3> QED
      BY <3>1
  <2>3. IsFiles(slots)' /\ live' \in Lives /\ sectors' \in [1 .. StoreLba + 1 -> {"old", "new", "saved"}]
    BY <1>2 DEF UpdatesInv, UpdatesTypeOK, IsFiles
  <2>4. UpdatesTypeOK'
    BY <1>2, <2>1, <2>2, <2>3 DEF UpdatesTypeOK, Lives
  <2>5. AppliedIsInUse'
    BY <1>2, <2>1 DEF AppliedIsInUse
  <2>6. InstallSparesStore'
    BY <1>2, <2>1 DEF UpdatesInv, InstallSparesStore
  <2> QED
    BY <1>2, <2>4, <2>5, <2>6 DEF UpdatesInv
<1>3. ASSUME NEW n \in SystemFiles, NEW c \in Texts, Add(n, c)
      PROVE  UpdatesInv'
  <2>1. VersionsTypeOK' /\ VersionsFound'
    BY <1>1, <1>3, AddStep
  <2>2. PICK what : what = "added"
    OBVIOUS
  <2>3. what \in Done \ {"applied", "installed"} /\ n \in Recordable /\ did' = [what |-> what, name |-> n]
    BY <1>3, <2>2 DEF Add, Done, Recordable
  <2>4. Counted /\ UNCHANGED <<slots, live, drivers, sectors>>
    BY <1>3 DEF Add
  <2> QED
    BY <1>2, <2>1, <2>3, <2>4
<1>4. CASE Commit
  <2>1. VersionsTypeOK' /\ VersionsFound'
    BY <1>1, <1>4, CommitStep
  <2>2. PICK what, n : what = "committed" /\ n = ""
    OBVIOUS
  <2>3. what \in Done \ {"applied", "installed"} /\ n \in Recordable /\ did' = [what |-> what, name |-> n]
    BY <1>4, <2>2 DEF Commit, Done, Recordable
  <2>4. Counted /\ UNCHANGED <<slots, live, drivers, sectors>>
    BY <1>4 DEF Commit
  <2> QED
    BY <1>2, <2>1, <2>3, <2>4
<1>5. CASE InitRepo
  <2>1. VersionsTypeOK' /\ VersionsFound'
    BY <1>1, <1>5, InitRepoStep
  <2>2. PICK what, n : what = "init" /\ n = ""
    OBVIOUS
  <2>3. what \in Done \ {"applied", "installed"} /\ n \in Recordable /\ did' = [what |-> what, name |-> n]
    BY <1>5, <2>2 DEF InitRepo, Done, Recordable
  <2>4. Counted /\ UNCHANGED <<slots, live, drivers, sectors>>
    BY <1>5 DEF InitRepo
  <2> QED
    BY <1>2, <2>1, <2>3, <2>4
<1>6. ASSUME NEW i, NEW n \in SystemFiles, Show(i, n)
      PROVE  UpdatesInv'
  <2>1. VersionsTypeOK' /\ VersionsFound'
    BY <1>1, <1>6, ShowStep
  <2>2. PICK what : what = "shown"
    OBVIOUS
  <2>3. what \in Done \ {"applied", "installed"} /\ n \in Recordable /\ did' = [what |-> what, name |-> n]
    BY <1>6, <2>2 DEF Show, Done, Recordable
  <2>4. Counted /\ UNCHANGED <<slots, live, drivers, sectors>>
    BY <1>6 DEF Show
  <2> QED
    BY <1>2, <2>1, <2>3, <2>4
<1> QED
  BY <1>3, <1>4, <1>5, <1>6 DEF VcsNext

LEMMA DiskSteps ==
  ASSUME UpdatesInv, DiskNext
  PROVE  UpdatesInv'
<1>1. PICK size, bad : size \in KernelSizes /\ Install(size, bad)
  BY DEF DiskNext
<1>2. PICK total : total = 1 + Stage2 + size
  OBVIOUS
<1>3. size \in Nat /\ Stage2 \in Nat /\ StoreLba \in Nat /\ total \in Nat
  <2>1. size \in Nat /\ Stage2 \in Nat /\ StoreLba \in Nat
    BY <1>1, UpdatesAssumption
  <2> QED
    BY <1>2, <2>1
<1>4. bad \in 1 .. total + 1 /\ Counted /\ UNCHANGED <<slots, live, drivers, vcs, history>>
  BY <1>1, <1>2 DEF Install
<1>5. PICK what, n : n = "" /\ what = IF size = 0 \/ total > StoreLba \/ bad <= total THEN "refused" ELSE "installed"
  OBVIOUS
<1>6. did' = [what |-> what, name |-> n] /\ what \in Done /\ n \in Recordable /\ what # "applied"
  <2>1. did' = [what |-> what, name |-> n]
    BY <1>1, <1>2, <1>5 DEF Install
  <2>2. what \in {"refused", "installed"}
    BY <1>5
  <2> QED
    BY <1>5, <2>1, <2>2 DEF Done, Recordable
<1>7. did' \in [what : Done, name : Recordable] /\ did'.what = what
  BY <1>6
<1>8. used' \in 0 .. MaxSteps
  <2>1. used \in 0 .. MaxSteps /\ MaxSteps \in Nat /\ used < MaxSteps /\ used' = used + 1
    BY <1>4, UpdatesAssumption DEF UpdatesInv, UpdatesTypeOK, Counted
  <2> QED
    BY <2>1
<1>9. sectors \in [1 .. StoreLba + 1 -> {"old", "new", "saved"}] /\ sectors[StoreLba + 1] = "saved"
  BY DEF UpdatesInv, UpdatesTypeOK, InstallSparesStore
<1>10. /\ sectors' \in [1 .. StoreLba + 1 -> {"old", "new", "saved"}] /\ sectors'[StoreLba + 1] = "saved"
       /\ what = "installed" => \A i \in 1 .. total : sectors'[i] = "new"
  <2>1. CASE size = 0 \/ total > StoreLba
    <3>1. sectors' = sectors
      BY <1>1, <1>2, <2>1 DEF Install
    <3>2. what # "installed"
      BY <1>5, <2>1
    <3> QED
      BY <1>9, <3>1, <3>2
  <2>2. CASE ~ (size = 0 \/ total > StoreLba)
    <3>1. sectors' = [i \in DOMAIN sectors |-> IF i < bad /\ i <= total THEN "new" ELSE sectors[i]]
      BY <1>1, <1>2, <2>2 DEF Install
    <3>2. DOMAIN sectors = 1 .. StoreLba + 1
      BY <1>9
    <3>3. \A i \in 1 .. StoreLba + 1 : sectors'[i] = IF i < bad /\ i <= total THEN "new" ELSE sectors[i]
      BY <3>1, <3>2
    <3>4. sectors' \in [1 .. StoreLba + 1 -> {"old", "new", "saved"}]
      BY <1>9, <3>1, <3>2
    <3>5. total <= StoreLba
      BY <1>3, <2>2
    <3>6. sectors'[StoreLba + 1] = "saved"
      <4>1. StoreLba + 1 \in 1 .. StoreLba + 1 /\ ~ (StoreLba + 1 <= total)
        BY <1>3, <3>5
      <4> QED
        BY <1>9, <3>3, <4>1
    <3>7. ASSUME what = "installed", NEW i \in 1 .. total PROVE sectors'[i] = "new"
      <4>1. bad > total
        <5>1. ~ (bad <= total)
          BY <1>5, <3>7
        <5> QED
          BY <1>3, <1>4, <5>1
      <4>2. i \in 1 .. StoreLba + 1 /\ i < bad /\ i <= total
        BY <1>3, <1>4, <3>5, <4>1
      <4> QED
        BY <3>3, <4>2
    <3> QED
      BY <3>4, <3>6, <3>7
  <2> QED
    BY <2>1, <2>2
<1>11. VersionsTypeOK' /\ VersionsFound'
  BY <1>4 DEF UpdatesInv, UpdatesTypeOK, VersionsTypeOK, VersionsFound
<1>12. UpdatesTypeOK'
  BY <1>4, <1>7, <1>8, <1>10, <1>11 DEF UpdatesInv, UpdatesTypeOK, Lives, IsFiles
<1>13. AppliedIsInUse'
  BY <1>6, <1>7 DEF AppliedIsInUse
<1>14. InstallSparesStore'
  BY <1>1, <1>2, <1>7, <1>10 DEF InstallSparesStore
<1> QED
  BY <1>11, <1>12, <1>13, <1>14 DEF UpdatesInv

LEMMA UpdatesStart ==
  ASSUME UpdatesInit
  PROVE  UpdatesInv
<1>1. PICK e : e = <<>>
  OBVIOUS
<1>2. DOMAIN e = {} /\ Len(e) = 0 /\ e \in Seq(STRING) /\ e \in Seq(Refs) /\ e \in Seq(Seq(Refs)) /\ e \in Seq(Range(e))
  BY <1>1, EmptySeq
<1>3. IsFiles(e) /\ FilesOf(e, e, e)
  BY <1>2 DEF IsFiles, FilesOf
<1>4. vcs = [store |-> e, stage |-> e, commits |-> e, restored |-> e] /\ history = [stage |-> e, commits |-> e]
  BY <1>1 DEF UpdatesInit, VcsInit
<1>5. VersionsTypeOK
  BY <1>2, <1>3, <1>4 DEF VersionsTypeOK
<1>6. VersionsFound
  BY <1>2, <1>3, <1>4 DEF VersionsFound
<1>7. live \in Lives
  <2>1. PICK S : S = [Single \cup Scanned -> SUBSET Loaded]
    OBVIOUS
  <2>2. Lives = [file : Recordable, auto : BOOLEAN, failures : Nat, inUse : S]
    BY <2>1 DEF Lives, Loaded
  <2>3. PICK inUse : inUse = [x \in Single \cup Scanned |-> {}]
    OBVIOUS
  <2>4. inUse \in S
    BY <2>1, <2>3
  <2>5. live = [file |-> "", auto |-> FALSE, failures |-> 0, inUse |-> inUse]
    BY <2>3 DEF UpdatesInit, LiveInit
  <2>6. "" \in Recordable
    BY DEF Recordable
  <2> QED
    BY <2>2, <2>4, <2>5, <2>6
<1>8. IsFiles(slots)
  BY <1>1, <1>3 DEF UpdatesInit, LiveInit
<1>9. sectors \in [1 .. StoreLba + 1 -> {"old", "new", "saved"}] /\ sectors[StoreLba + 1] = "saved"
  <2>1. StoreLba \in Nat
    BY UpdatesAssumption
  <2>2. sectors = [i \in 1 .. StoreLba + 1 |-> IF i <= StoreLba THEN "old" ELSE "saved"]
    BY DEF UpdatesInit, DiskInit
  <2>3. StoreLba + 1 \in 1 .. StoreLba + 1 /\ ~ (StoreLba + 1 <= StoreLba)
    BY <2>1
  <2> QED
    BY <2>2, <2>3
<1>10. did = [what |-> "boot", name |-> ""] /\ used = 0 /\ MaxSteps \in Nat
  BY UpdatesAssumption DEF UpdatesInit
<1>11. did \in [what : Done, name : Recordable] /\ did.what = "boot" /\ used \in 0 .. MaxSteps
  <2>1. PICK what, n : what = "boot" /\ n = ""
    OBVIOUS
  <2>2. did = [what |-> what, name |-> n] /\ what \in Done /\ n \in Recordable
    BY <1>10, <2>1 DEF Done, Recordable
  <2>3. did \in [what : Done, name : Recordable] /\ did.what = what
    BY <2>2
  <2> QED
    <3>1. used \in 0 .. MaxSteps
      <4>1. MaxSteps \in Nat
        BY UpdatesAssumption
      <4>2. used = 0
        BY DEF UpdatesInit
      <4> QED
        BY <4>1, <4>2
    <3> QED
      BY <2>1, <2>3, <3>1
<1>12. UpdatesTypeOK
  BY <1>5, <1>7, <1>8, <1>9, <1>11 DEF UpdatesTypeOK
<1>13. AppliedIsInUse /\ InstallSparesStore
  BY <1>9, <1>11 DEF AppliedIsInUse, InstallSparesStore
<1> QED
  BY <1>6, <1>12, <1>13 DEF UpdatesInv

LEMMA UpdatesInvHolds == UpdatesSpec => []UpdatesInv
<1>1. UpdatesInit => UpdatesInv
  BY UpdatesStart
<1>2. UpdatesInv /\ [UpdatesNext]_updateVars => UpdatesInv'
  <2> SUFFICES ASSUME UpdatesInv, [UpdatesNext]_updateVars PROVE UpdatesInv'
    OBVIOUS
  <2>1. CASE LiveNext
    BY <2>1, LiveSteps
  <2>2. CASE VcsNext
    BY <2>2, VersionSteps
  <2>3. CASE DiskNext
    BY <2>3, DiskSteps
  <2>4. CASE UNCHANGED updateVars
    BY <2>4 DEF updateVars, UpdatesInv, UpdatesTypeOK, VersionsTypeOK, IsFiles, AppliedIsInUse, VersionsFound,
                InstallSparesStore
  <2> QED
    BY <2>1, <2>2, <2>3, <2>4 DEF UpdatesNext
<1> QED
  BY <1>1, <1>2, PTL DEF UpdatesSpec

\* The files, what is in use, the version store and the disk hold what they are
\* declared to hold, after any updates, versions and installing.
THEOREM UpdatesTypeCorrect == UpdatesSpec => []UpdatesTypeOK
<1>1. UpdatesInv => UpdatesTypeOK
  BY DEF UpdatesInv
<1> QED
  BY <1>1, UpdatesInvHolds, PTL

\* An update that succeeds is in use, a version that is shown is the one that
\* was added, and installing leaves the saved files alone (liveupdate.c, lvcs.c,
\* installer.c), for any files, texts, limits and kernels.
THEOREM UpdatesAreKeptHolds == UpdatesSpec => []UpdatesAreKept
<1>1. UpdatesInv => UpdatesAreKept
  <2> SUFFICES ASSUME UpdatesInv PROVE UpdatesAreKept
    OBVIOUS
  <2>1. VersionsTypeOK /\ VersionsFound
    BY DEF UpdatesInv, UpdatesTypeOK
  <2>2. vcs.commits \in Seq(Seq(Refs))
    BY <2>1, VersionsAre
  <2>3. VersionsAreKept
    BY <2>1, <2>2, CheckoutFinds
  <2> QED
    BY <2>3 DEF UpdatesInv, UpdatesAreKept
<1> QED
  BY <1>1, UpdatesInvHolds, PTL
=============================================================================
