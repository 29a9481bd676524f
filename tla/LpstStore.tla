----------------------------- MODULE LpstStore ------------------------------
(***************************************************************************)
(* The LPST store of src/os/kernel/fs.c on the ATA disk of storage.c: two  *)
(* banks at a fixed place of the boot disk, written alternately, one 512   *)
(* byte sector at a time, and read back at boot or by fsload.  The kernel  *)
(* is single-threaded, so nothing edits the files while fs_persist_save or *)
(* fs_persist_load runs; what may come between two of their steps is a     *)
(* power cut, a failing transfer, or a CPU exception whose panic handler   *)
(* starts a save of its own.  Exceptions are caught from kernel64.c:607,   *)
(* before fs_init fills the files at line 618: such a save may find any    *)
(* mixture of compiled, default and loaded files in RAM.                   *)
(*                                                                         *)
(* The header occupies sector 0 of the model's bank; sector i holds the    *)
(* table entry and data of file i.  The FNV hash is taken to be injective: *)
(* the checksum field is the image it was computed from.                   *)
(***************************************************************************)
EXTENDS Naturals

CONSTANTS
  NFiles,         \* writable_count(): 54 in this build
  LoadCountMax,   \* the largest count lpst_validate_bank accepts: 32
  Values,         \* contents of one file
  Garbage,        \* what a sector holds that was cut short, or never written
  Compiled,       \* contents the kernel is linked with
  Defaults,       \* contents after fs_init has filled the built-in defaults
  Fitting,        \* the images whose data fits the LPST_BANK_BYTES of a bank
  CrashLog,       \* the file a panic appends to
  Unmarked,       \* the files some code writes without setting s_fs_dirty
  GenModulus,     \* 2^32: generations are uint32_t
  MaxGeneration,  \* bound: no save begins at this generation
  NoImage,        \* no bank validates
  NoBank          \* s_persist_active_bank = 0xFFFFFFFF

Files == 1 .. NFiles
Sectors == 0 .. NFiles
Images == [Files -> Values]
Banks == {0, 1}
Marked == Files \ Unmarked

ASSUME CountAssumption == NFiles \in Nat \ {0} /\ LoadCountMax \in Nat
ASSUME DataAssumption ==
  /\ Garbage \notin Values
  /\ Compiled \in Images
  /\ Defaults \in Images
  /\ Fitting \subseteq Images
  /\ CrashLog \in Files
  /\ Unmarked \subseteq Files
ASSUME GenerationAssumption ==
  /\ GenModulus \in Nat
  /\ MaxGeneration \in Nat
  /\ MaxGeneration < GenModulus
ASSUME SentinelAssumption == NoImage \notin Images /\ NoBank \notin Banks

VARIABLES
  ram,         \* contents of the writable files
  dirty,       \* s_fs_dirty
  active,      \* s_persist_active_bank
  generation,  \* s_persist_generation
  disk,        \* the two banks
  mode,        \* what the kernel is doing, see StoreModes
  sector,      \* progress of the loop of fs_persist_save or fs_persist_load
  missed,      \* banks the scan of the load under way could not read
  unread       \* history: banks this session has neither read nor saved

storeVars == <<ram, dirty, active, generation, disk>>
vars == <<ram, dirty, active, generation, disk, mode, sector, missed, unread>>

StoreModes == {"off",       \* no power
               "boot",      \* fs_init fills the files
               "restore",   \* fs_persist_load at the end of fs_init
               "run",       \* shell and GUI
               "load",      \* fs_persist_load at run time
               "save",      \* fs_persist_save
               "panic",     \* fs_persist_save of a panic
               "room"}      \* the panic room, or halted, after that save

Headers == [magic : BOOLEAN, generation : 0 .. MaxGeneration, count : Nat, sum : Images]

NoHeader == [magic |-> FALSE, generation |-> 0, count |-> 0, sum |-> Defaults]

\* What the place of the store on a disk can hold.
Disks == [Banks -> [header : Headers, body : [Files -> Values \cup {Garbage}]]]

BlankBank == [header |-> NoHeader, body |-> [f \in Files |-> Garbage]]

-----------------------------------------------------------------------------
\* Magic and checksum: the image is whole.
Intact(bank) == bank.header.magic /\ bank.header.sum = bank.body

\* lpst_validate_bank: magic, count limit, checksum of everything but the header.
Valid(bank) == Intact(bank) /\ bank.header.count <= LoadCountMax

\* A bug to catch: the scan stops at the first bank that validates.
FirstValidBank(d, readable) ==
  IF 0 \in readable /\ Valid(d[0]) THEN 0
    ELSE IF 1 \in readable /\ Valid(d[1]) THEN 1 ELSE NoBank

\* The scan of fs_persist_load: the later bank wins a tie.
BestBank(d, readable) ==
  LET ok(b) == b \in readable /\ Valid(d[b])
  IN  IF ok(1) /\ (ok(0) => d[1].header.generation >= d[0].header.generation)
        THEN 1
        ELSE IF ok(0) THEN 0 ELSE NoBank

\* What a boot restores when every sector can be read.
Recover(d) ==
  LET b == BestBank(d, Banks) IN IF b = NoBank THEN NoImage ELSE d[b].body

\* A bug to catch: the save overwrites the bank it was loaded from.
OverwrittenBank == IF active = NoBank THEN 0 ELSE active

TargetBank == IF active = NoBank THEN 0 ELSE 1 - active

\* A bug to catch: the generation does not advance.
SameGeneration == generation

\* uint32_t increment; 0 is skipped.
NextGeneration == IF generation + 1 = GenModulus THEN 1 ELSE generation + 1

SavedHeader ==
  [magic |-> TRUE, generation |-> NextGeneration, count |-> NFiles, sum |-> ram]

\* A bank after one sector of it has been given its new contents, or lost.
WithSector(bank, s) ==
  IF s = 0 THEN [bank EXCEPT !.header = SavedHeader]
           ELSE [bank EXCEPT !.body[s] = ram[s]]

WithLostSector(bank, s) ==
  IF s = 0 THEN [bank EXCEPT !.header = NoHeader]
           ELSE [bank EXCEPT !.body[s] = Garbage]

Written(d, s) == [d EXCEPT ![TargetBank] = WithSector(@, s)]
Lost(d, s) == [d EXCEPT ![TargetBank] = WithLostSector(@, s)]

Saving == mode \in {"save", "panic"}
Writing == Saving /\ sector \in Sectors
Loading == mode \in {"restore", "load"}
Up == mode # "off"

\* The disk when the save under way is cut off: the sector being transferred
\* is untouched or lost (a completed transfer is WriteSector).
CutOff == {disk} \cup (IF Writing THEN {Lost(disk, sector)} ELSE {})

-----------------------------------------------------------------------------
Init ==
  /\ ram = Compiled
  /\ dirty = FALSE
  /\ active = NoBank
  /\ generation = 0
  /\ disk = [b \in Banks |-> BlankBank]
  /\ mode = "off"
  /\ sector = 0
  /\ missed = {}
  /\ unread = Banks

\* The kernel is loaded with its files as linked and its statics as compiled.
PowerOn ==
  /\ mode = "off"
  /\ mode' = "boot"
  /\ ram' = Compiled
  /\ dirty' = FALSE
  /\ active' = NoBank
  /\ generation' = 0
  /\ sector' = 0
  /\ missed' = {}
  /\ unread' = Banks
  /\ UNCHANGED disk

\* fs_init gives one file its default contents.
FillDefault ==
  /\ mode = "boot"
  /\ \E f \in Files : ram' = [ram EXCEPT ![f] = Defaults[f]]
  /\ UNCHANGED <<dirty, active, generation, disk, mode, sector, missed, unread>>

\* fs_write, fs_append and the users of fs_mark_dirty; in the panic room the
\* capsule and the rollback.
Edit ==
  /\ mode \in {"run", "room"}
  /\ \E f \in Files, v \in Values : ram' = [ram EXCEPT ![f] = v]
  /\ dirty' = TRUE
  /\ UNCHANGED <<active, generation, disk, mode, sector, missed, unread>>

\* lar_extract_password with a wrong password: the file is filled, and the
\* return comes before s_fs_dirty is set.
EditUnmarked ==
  /\ mode = "run"
  /\ \E f \in Unmarked, v \in Values : ram' = [ram EXCEPT ![f] = v]
  /\ UNCHANGED <<dirty, active, generation, disk, mode, sector, missed, unread>>

\* fs_persist_save up to its write loop.  An image that does not fit a bank
\* returns -3 here and nothing changes.
SaveBegin ==
  /\ mode = "run"
  /\ generation < MaxGeneration
  /\ ram \in Fitting
  /\ mode' = "save"
  /\ sector' = 0
  /\ UNCHANGED <<storeVars, missed, unread>>

\* One storage_write_sector that succeeds.
WriteSector ==
  /\ Writing
  /\ disk' = Written(disk, sector)
  /\ sector' = sector + 1
  /\ UNCHANGED <<ram, dirty, active, generation, mode, missed, unread>>

EndOfSave == IF mode = "panic" THEN "room" ELSE "run"

\* A bug to catch: s_fs_dirty is cleared when the save fails too.
WriteFailsClean ==
  /\ Writing
  /\ disk' \in CutOff
  /\ dirty' = FALSE
  /\ mode' = EndOfSave
  /\ sector' = 0
  /\ UNCHANGED <<ram, active, generation, missed, unread>>

\* One that reports failure (-4): before the transfer, in it, or after it
\* when only the cache flush timed out.
WriteFails ==
  /\ Writing
  /\ disk' \in CutOff \cup {Written(disk, sector)}
  /\ mode' = EndOfSave
  /\ sector' = 0
  /\ UNCHANGED <<ram, dirty, active, generation, missed, unread>>

\* The loop is over: the save is acknowledged.
SaveDone ==
  /\ Saving
  /\ sector = NFiles + 1
  /\ dirty' = FALSE
  /\ active' = TargetBank
  /\ generation' = NextGeneration
  /\ mode' = EndOfSave
  /\ sector' = 0
  /\ unread' = unread \ {TargetBank}
  /\ UNCHANGED <<ram, disk, missed>>

\* A CPU exception at any point, of the boot, a load, a save, the save of a
\* panic or the panic room too: panic records it in the crash log and calls
\* fs_persist_save with RAM as it is; when that returns the kernel is in the
\* panic room, from which only another power-on leads.
Panic ==
  /\ Up
  /\ generation < MaxGeneration
  /\ \E v \in Values : ram' = [ram EXCEPT ![CrashLog] = v]
  /\ dirty' = TRUE
  /\ disk' \in CutOff
  /\ sector' = 0
  /\ mode' = IF ram' \in Fitting THEN "panic" ELSE "room"
  /\ missed' = {}
  /\ UNCHANGED <<active, generation, unread>>

PowerCut ==
  /\ Up
  /\ disk' \in CutOff
  /\ mode' = "off"
  /\ sector' = 0
  /\ missed' = {}
  /\ UNCHANGED <<ram, dirty, active, generation, unread>>

\* fs_persist_load, at the end of fs_init or for fsload and lfsdoctor repair:
\* the scan, which passes over a bank it cannot read.
LoadBegin ==
  /\ \/ mode = "boot" /\ ram = Defaults /\ mode' = "restore"
     \/ mode = "run" /\ mode' = "load"
  /\ missed' \in SUBSET Banks
  /\ sector' = 0
  /\ UNCHANGED <<storeVars, unread>>

\* The bank the scan settled on.
Best == BestBank(disk, Banks \ missed)

\* No bank validates, or the second reading of the best one fails.  The boot
\* ignores the return code and goes on with the defaults.
LoadFails ==
  /\ Loading
  /\ sector = 0
  /\ unread' = IF Best = NoBank THEN unread \cap missed ELSE unread
  /\ mode' = "run"
  /\ missed' = {}
  /\ UNCHANGED <<storeVars, sector>>

\* The next entry of the best bank is copied into its file.
LoadFile ==
  /\ Loading
  /\ Best # NoBank
  /\ sector < NFiles
  /\ ram' = [ram EXCEPT ![sector + 1] = disk[Best].body[sector + 1]]
  /\ sector' = sector + 1
  /\ UNCHANGED <<dirty, active, generation, disk, mode, missed, unread>>

\* All entries are: the bank becomes the active one.
LoadDone ==
  /\ Loading
  /\ Best # NoBank
  /\ sector = NFiles
  /\ dirty' = FALSE
  /\ active' = Best
  /\ generation' = disk[Best].header.generation
  /\ mode' = "run"
  /\ sector' = 0
  /\ missed' = {}
  /\ unread' = missed
  /\ UNCHANGED <<ram, disk>>

Next ==
  \/ PowerOn
  \/ FillDefault
  \/ Edit
  \/ EditUnmarked
  \/ SaveBegin
  \/ WriteSector
  \/ WriteFails
  \/ SaveDone
  \/ Panic
  \/ PowerCut
  \/ LoadBegin
  \/ LoadFails
  \/ LoadFile
  \/ LoadDone

Spec == Init /\ [][Next]_vars

-----------------------------------------------------------------------------
\* What a reboot would put into RAM.
RestoredByBoot ==
  IF Recover(disk) = NoImage THEN Defaults ELSE Recover(disk)

\* The kernel knows the order of its two banks: it has read each of them, or
\* saved into it, since it was started, and a boot accepts its tables.  A read
\* fault at boot or a panic before the end of the restore leaves it without.
Known == unread = {} /\ NFiles <= LoadCountMax

\* The store's variables stay in their ranges, and RAM is an image and never
\* one with a lost sector in it.
TypeOK ==
  /\ ram \in Images
  /\ dirty \in BOOLEAN
  /\ active \in Banks \cup {NoBank}
  /\ generation \in 0 .. MaxGeneration
  /\ disk \in Disks
  /\ mode \in StoreModes
  /\ sector \in 0 .. NFiles + 1
  /\ missed \in SUBSET Banks
  /\ unread \in SUBSET Banks

\* While s_fs_dirty is clear, every file whose writers mark it stands in the
\* active bank as it is in RAM, in a bank whose checksum is right; and when the
\* kernel knows its banks, a reboot at that instant restores it as it is:
\* neither a failed save or load nor the order of the banks makes a "clean"
\* status a lie.
CleanMeansDurable ==
  mode \in {"run", "save"} /\ ~dirty =>
    \A f \in Marked :
      /\ active # NoBank => Intact(disk[active]) /\ disk[active].body[f] = ram[f]
      /\ Known => RestoredByBoot[f] = ram[f]

NewerAttempt ==
  Valid(disk[TargetBank]) /\ disk[TargetBank].header.generation > generation

\* The images that stand whole on a disk.
WholeImages(d) == {d[b].body : b \in {x \in Banks : Intact(d[x])}}

\* Where the newest image is for a kernel that knows its banks: in the active
\* one, or in the other when a save that never reported success was in fact
\* written whole.
CommittedImage ==
  IF ~(Up /\ Known) THEN Recover(disk)
  ELSE IF active = NoBank THEN NoImage ELSE disk[active].body

UnacknowledgedImages ==
  IF ~(Up /\ Known) THEN {}
  ELSE (IF Saving THEN {ram} ELSE {})
       \cup (IF NewerAttempt THEN {disk[TargetBank].body} ELSE {})

Phase ==
  IF ~Up THEN "off"
  ELSE IF mode \in {"boot", "restore"} THEN "waking"
  ELSE IF Known THEN "known" ELSE "blind"

Durable == INSTANCE DurableStore WITH
             kept <- WholeImages(disk),
             committed <- CommittedImage,
             attempts <- UnacknowledgedImages,
             phase <- Phase

\* The two banks, written one sector at a time, implement a store that changes
\* atomically: through power cuts, failed transfers and a panic in the middle
\* of a boot, a load or a save, every boot that ends takes one whole image from
\* the disk or the defaults, and a kernel that knows its banks leaves the
\* acknowledged image or a newer attempt for the next boot.
StoresAtomically == Durable!Spec

\* A save that reports success has written one whole bank with the files as
\* they are; and when the kernel knows its banks, the next boot that can read
\* them takes this one: no bank of an earlier session wins over it.
AcknowledgedMeansRestored ==
  [][SaveDone =>
       /\ Intact(disk'[active']) /\ disk'[active'].body = ram'
       /\ Known' => Recover(disk') = ram']_vars

\* Every header on the disk was built by fs_persist_save for this table.
CountRecorded ==
  \A b \in Banks : disk[b].header.magic => disk[b].header.count = NFiles

\* When the table has more entries than lpst_validate_bank accepts, as in this
\* build (54 against 32), no sequence of saves, crashes and reboots ever leaves
\* a bank on the disk that a boot would restore.
OversizeTableNeverRestored == NFiles > LoadCountMax => Recover(disk) = NoImage

-----------------------------------------------------------------------------
(***************************************************************************)
(* The inductive invariant behind the properties.                          *)
(***************************************************************************)
\* The active bank is whole and has the generation the kernel believes.
ActiveBankIntact ==
  IF active = NoBank
    THEN generation = 0
    ELSE Intact(disk[active]) /\ disk[active].header.generation = generation

\* The other bank, once the kernel has read it or saved into it, is never
\* mistaken for the active one when it is whole; and without an active bank,
\* bank 1, which only a second save writes, has nothing to restore.
OtherBankOrdered ==
  /\ TargetBank \notin unread /\ Valid(disk[TargetBank]) =>
       \/ disk[TargetBank].header.generation > generation
       \/ active # NoBank /\ disk[TargetBank].header.generation < generation
       \/ active = 1 /\ disk[TargetBank].header.generation = generation
  /\ active = NoBank /\ 1 \notin unread => ~Valid(disk[1])

\* The active bank was read or saved.
ActiveBankRead == active # NoBank => active \notin unread

\* The sectors the save under way has written are those of its image.
SaveProgress ==
  Saving =>
    /\ generation < MaxGeneration
    /\ sector > 0 => disk[TargetBank].header = SavedHeader
    /\ \A f \in Files : f < sector => disk[TargetBank].body[f] = ram[f]

\* A load has a bank to copy from, and has copied its first entries.
LoadProgress ==
  Loading =>
    /\ sector > 0 => Best # NoBank
    /\ sector <= NFiles
    /\ \A f \in Files : f <= sector => ram[f] = disk[Best].body[f]

\* A kernel that boots has no bank yet, and begins the restore with defaults.
BootIsFresh ==
  mode \in {"boot", "restore"} =>
    /\ ~dirty /\ active = NoBank /\ unread = Banks
    /\ mode = "restore" /\ sector = 0 => ram = Defaults

\* What s_fs_dirty speaks of: RAM before the first entry is loaded over it.
Settled == mode \in {"run", "save"} \/ (mode = "load" /\ sector = 0)

\* A clean file is in the active bank, and in a newer unacknowledged one.
CleanIsStored ==
  Settled /\ ~dirty =>
    \A f \in Marked :
      /\ ram[f] = IF active = NoBank THEN Defaults[f] ELSE disk[active].body[f]
      /\ TargetBank \notin unread /\ NewerAttempt => disk[TargetBank].body[f] = ram[f]

StoreInv == Up => /\ ActiveBankIntact
                  /\ ActiveBankRead
                  /\ OtherBankOrdered
                  /\ SaveProgress
                  /\ LoadProgress
                  /\ BootIsFresh
                  /\ CleanIsStored
=============================================================================
