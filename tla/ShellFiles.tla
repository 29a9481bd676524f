----------------------------- MODULE ShellFiles ------------------------------
(***************************************************************************)
(* What the file commands of the shell and of its DOS mode do with a file  *)
(* of one name in many places, src/os/kernel/lsh.c: the writable table     *)
(* (R:), the built-in files it covers (X:), the media stores, and all of   *)
(* them at once (_:).                                                      *)
(*                                                                         *)
(* The places are as other modules show them: the table keeps one text for *)
(* a name (FileNames), a store reads as written (Media), and the records   *)
(* of hidden and deleted files come back as they were (DeleteOverlay).     *)
(* Names are in lower case; the log of dosmode.lardd and the labels of     *)
(* directories are left out.                                               *)
(***************************************************************************)
EXTENDS Naturals, Sequences, FiniteSets, Functions

CONSTANTS
  PathNames,
  Chars,       \* characters, the end of a line among them
  Built,       \* the built-in files: name -> text
  FreeSlots,   \* the slots rxrslot0.dat to rxrslot3.dat: 4
  SlotCap,     \* RXR_SLOT_CAP
  Stores,      \* the media drives, in the order the merged drive looks: Y, Z, A
  StoreMax,    \* MEDIAFS_MAX_FILES
  StoreCap,    \* MEDIAFS_FILE_CAP
  HiddenMax,   \* FS_HIDDEN_READONLY_MAX
  DeletedMax,  \* FS_DELETED_READONLY_MAX
  Words,       \* what a user types
  MaxCommands  \* bound: the commands of a run

\* "all" is the drive _:, which merges the others.
Drives == {"R", "X", "all"} \cup Range(Stores)
Paths == [d : Drives, n : PathNames]

ASSUME ShellFilesAssumption ==
  /\ "lf" \in Chars /\ Words \subseteq Seq(Chars)
  /\ DOMAIN Built \subseteq PathNames /\ Built \in [DOMAIN Built -> Seq(Chars)]
  /\ Stores \in Seq(Range(Stores)) /\ Range(Stores) \cap {"R", "X", "all"} = {}
  /\ {FreeSlots, SlotCap, StoreMax, StoreCap, HiddenMax, DeletedMax, MaxCommands} \subseteq Nat
  /\ \A w \in Words : Len(w) + 1 <= SlotCap

VARIABLES
  ram,     \* the writable table: name -> text
  media,   \* per store, name -> text
  over,    \* [hidden, deleted]: the built-in files that are out of sight
  locked,  \* lardsec_locked()
  saved,   \* ram and over as the LPST store has them
  bled,    \* history: the names that a bleed deleted everywhere and saved, and
           \* that no command has given to a file since
  told,    \* history: "refused", "done" if the last command said that it wrote
           \* and its destination reads so, "lied" if it reads otherwise
  left     \* the commands a run may still give

drivesVars == <<ram, media, over, locked, saved, bled, told, left>>

\* ---------------------------- the three places ----------------------------

\* Readers return the set of the text they find, which is empty for no file.
In(f, n) == IF n \in DOMAIN f THEN {f[n]} ELSE {}
Put(f, n, t) == [m \in DOMAIN f \cup {n} |-> IF m = n THEN t ELSE f[m]]
Out(f, n) == [m \in DOMAIN f \ {n} |-> f[m]]

\* fs_open_readonly and fs_open: a writable file covers a built-in one.
OpenReadonly(n) == IF n \in over.hidden \cup over.deleted THEN {} ELSE In(Built, n)
Open(n) == IF n \in DOMAIN ram THEN In(ram, n) ELSE OpenReadonly(n)

\* mediafs_read
ReadMedia(d, n) == IF locked THEN {} ELSE In(media[d], n)

\* What comes before the first text is empty, and what comes after it is not read.
First(texts) == UNION {texts[i] : i \in {k \in DOMAIN texts : \A j \in 1 .. (k - 1) : texts[j] = {}}}

\* lsh_read_merged
ReadMerged(n) == First(<<Open(n)>> \o [i \in DOMAIN Stores |-> ReadMedia(Stores[i], n)])

\* lsh_read_drive_data_ex, of the commands `type` and `copy`
Read(p) ==
  IF p.d = "all" THEN ReadMerged(p.n)
  ELSE IF p.d \in Range(Stores) THEN ReadMedia(p.d, p.n)
  ELSE Open(p.n)

\* dos_read_data_arg: R: holds writable files only.
DosRead(p) == IF p.d = "R" THEN In(ram, p.n) ELSE Read(p)

\* fs_open_or_create_writable: a new name takes a free slot, which it keeps.
MayOpen(n) == n \in DOMAIN ram \/ Cardinality(DOMAIN ram) < FreeSlots
OpenedOrMade(n) == IF n \in DOMAIN ram THEN ram ELSE Put(ram, n, <<>>)

\* mediafs_write into store s; a text that does not fit leaves the entry.
Enters(s, n) == ~locked /\ (n \in DOMAIN s \/ Cardinality(DOMAIN s) < StoreMax)
Start(s, n, append) == IF append /\ n \in DOMAIN s THEN s[n] ELSE <<>>
Stored(s, n, t, append) ==
  IF ~Enters(s, n) THEN s
  ELSE IF Len(Start(s, n, append) \o t) > StoreCap THEN Put(s, n, Start(s, n, TRUE))
  ELSE Put(s, n, Start(s, n, append) \o t)
MayStore(s, n, t, append) == Enters(s, n) /\ Len(Start(s, n, append) \o t) <= StoreCap

\* ------------------------------- commands ---------------------------------

ToMedia(p) == p.d \in Range(Stores)

\* A command that reports success: p reads as t.
Said(ok, p, t) == told' = IF ~ok THEN "refused" ELSE IF Read(p)' = {t} THEN "done" ELSE "lied"
Done == told' = "done"

\* The names a command gives to a file, or brings back, are no longer bled.
Given(ns) == bled' = bled \ ns
OthersStay == UNCHANGED <<over, locked, saved>>

ToStore(p, t, append) ==
  /\ media' = [media EXCEPT ![p.d] = Stored(@, p.n, t, append)]
  /\ Given({p.n}) /\ UNCHANGED ram /\ OthersStay
  /\ Said(MayStore(media[p.d], p.n, t, append), p, Start(media[p.d], p.n, append) \o t)

\* What goes to _: goes to the table (drive_write_target).
ToTable(p, t, table) ==
  /\ ram' = table /\ Given({p.n}) /\ UNCHANGED media /\ OthersStay
  /\ Said(TRUE, p, t)

Refused(table) ==
  /\ ram' = table /\ told' = "refused"
  /\ Given(DOMAIN table \ DOMAIN ram) /\ UNCHANGED media /\ OthersStay

\* cmd_copy: the destination in the table must be there.
Copy(p, q) ==
  \E t \in Read(p) :
    IF ToMedia(q) THEN ToStore(q, t, FALSE)
    ELSE IF q.n \in DOMAIN ram /\ Len(t) <= SlotCap THEN ToTable(q, t, Put(ram, q.n, t))
    ELSE Refused(ram)

\* dos_copy: or is created, and stays when the text does not fit.
DosCopy(p, q) ==
  \E t \in DosRead(p) :
    IF ToMedia(q) THEN ToStore(q, t, FALSE)
    ELSE IF ~MayOpen(q.n) THEN Refused(ram)
    ELSE IF Len(t) <= SlotCap THEN ToTable(q, t, Put(ram, q.n, t))
    ELSE Refused(OpenedOrMade(q.n))

\* A line is written, and its end by a second write that may not fit.
Line(w) == IF w = <<>> THEN <<>> ELSE w \o <<"lf">>
LineToStore(p, w, append) ==
  LET s == media[p.d]
      first == Stored(s, p.n, w, append)
      t == Start(s, p.n, append) \o w
  IN IF ~MayStore(s, p.n, w, append) \/ w = <<>> \/ Len(t) = StoreCap
     THEN ToStore(p, w, append)
     ELSE /\ media' = [media EXCEPT ![p.d] = Stored(first, p.n, <<"lf">>, TRUE)]
          /\ Given({p.n}) /\ UNCHANGED ram /\ OthersStay
          /\ Said(TRUE, p, t \o <<"lf">>)

\* cmd_write_like: `write`
CmdWrite(p, w) ==
  IF ToMedia(p) THEN LineToStore(p, w, FALSE)
  ELSE IF MayOpen(p.n) THEN ToTable(p, Line(w), Put(ram, p.n, Line(w)))
  ELSE Refused(ram)

\* A bug to catch: what it covers is not copied into a new file.
CoverNothing(n) == {<<>>}
\* `append` makes a new file of the built-in one it covers.
Cover(n) ==
  IF n \in DOMAIN ram THEN {ram[n]}
  ELSE IF OpenReadonly(n) = {} THEN {<<>>}
  ELSE {t \in OpenReadonly(n) : Len(t) <= SlotCap}

\* cmd_write_like: `append`.  A built-in file that is too large leaves the new
\* file empty, a line that is too long leaves it the copy.
AppendTo(p, w) ==
  IF ToMedia(p) THEN LineToStore(p, w, TRUE)
  ELSE IF ~MayOpen(p.n) THEN Refused(ram)
  ELSE IF Cover(p.n) = {} THEN Refused(OpenedOrMade(p.n))
  ELSE \E t \in Cover(p.n) :
         IF Len(t \o Line(w)) <= SlotCap
         THEN \E u \in First(<<Open(p.n), {<<>>}>>) :
                ToTable(p, u \o Line(w), Put(ram, p.n, t \o Line(w)))
         ELSE Refused(Put(ram, p.n, t))

\* media write, media append, media delete: no end of line.
MediaWrite(d, n, w, append) == ToStore([d |-> d, n |-> n], w, append)
MediaDelete(d, n) ==
  /\ ~locked /\ n \in DOMAIN media[d]
  /\ media' = [media EXCEPT ![d] = Out(@, n)]
  /\ Done
  /\ UNCHANGED <<ram, over, locked, saved, bled>>

\* cmd_rename_file: the slot takes the new name.
CmdRename(n, m) ==
  IF n \notin DOMAIN ram \/ (m # n /\ m \in DOMAIN ram) THEN Refused(ram)
  ELSE ToTable([d |-> "R", n |-> m], ram[n], Put(Out(ram, n), m, ram[n]))

\* dos_rename: the text moves.  Its source goes when it is in the store it moves
\* to (also when it is the destination: RenameKeeps below), or, when it moves to
\* the table, whatever is at that name in the table or the store it was read from.
DosRename(p, q) ==
  \E t \in DosRead(p) :
    IF ToMedia(q) THEN
      LET s == Stored(media[q.d], q.n, t, FALSE)
          ok == MayStore(media[q.d], q.n, t, FALSE)
      IN /\ media' = [media EXCEPT ![q.d] = IF ok /\ p.d = q.d THEN Out(s, p.n) ELSE s]
         /\ Given({q.n}) /\ UNCHANGED ram /\ OthersStay
         /\ IF ok /\ p = q THEN Done ELSE Said(ok, q, t)
    ELSE IF q.n \notin DOMAIN ram \/ Len(t) > SlotCap THEN Refused(ram)
    ELSE /\ ram' = IF p.n \in DOMAIN ram /\ p.n # q.n THEN Put(Put(ram, q.n, t), p.n, <<>>)
                   ELSE Put(ram, q.n, t)
         /\ media' = IF ToMedia(p) THEN [media EXCEPT ![p.d] = Out(@, p.n)] ELSE media
         /\ Given({q.n}) /\ OthersStay
         /\ Said(TRUE, q, t)

\* ----------------------- hiding, deleting, bringing back -------------------

\* fs_delete_readonly: what was hidden is shown first, even if no record is free.
MayErase(n) == n \in DOMAIN Built /\ (n \in over.deleted \/ Cardinality(over.deleted) < DeletedMax)
Erased(n) ==
  IF n \notin DOMAIN Built THEN over
  ELSE [hidden |-> over.hidden \ {n}, deleted |-> IF MayErase(n) THEN over.deleted \cup {n} ELSE over.deleted]

Emptied(n) == IF n \in DOMAIN ram THEN Put(ram, n, <<>>) ELSE ram

\* dos_delete of a path that is on no medium; -f erases the built-in file too.
Delete(n, force) ==
  /\ ram' = Emptied(n)
  /\ over' = IF force THEN Erased(n) ELSE over
  /\ told' = IF n \in DOMAIN ram \/ (force /\ MayErase(n)) THEN "done" ELSE "refused"
  /\ UNCHANGED <<media, locked, saved, bled>>

\* A bug to catch: the store is saved before the files are deleted.
BleedSavedEarly(ns, ds, n, ok) ==
  /\ ram' = IF "R" \in ds THEN Emptied(n) ELSE ram
  /\ over' = IF "X" \in ds THEN Erased(n) ELSE over
  /\ media' = [d \in DOMAIN media |-> IF d \in ds /\ ~locked THEN Out(media[d], n) ELSE media[d]]
  /\ saved' = IF ok THEN [ram |-> ram, over |-> over] ELSE saved
  /\ bled' = IF ok THEN bled \cup ns ELSE bled
  /\ UNCHANGED locked
\* cmd_bleed: the file is deleted in each of the places ds, and what is left is
\* saved, which may fail.
BleedPlaces(ns, ds, n, ok) ==
  /\ ram' = IF "R" \in ds THEN Emptied(n) ELSE ram
  /\ over' = IF "X" \in ds THEN Erased(n) ELSE over
  /\ media' = [d \in DOMAIN media |-> IF d \in ds /\ ~locked THEN Out(media[d], n) ELSE media[d]]
  /\ saved' = IF ok THEN [ram |-> ram', over |-> over'] ELSE saved
  /\ bled' = IF ok THEN bled \cup ns ELSE bled
  /\ UNCHANGED locked

\* The drive of the path chooses the places: all for _: or none, the table and
\* the built-in file for X:.  A bleed that deleted nothing saves nothing.
Bleed(p) ==
  LET ds == CASE p.d = "all" -> {"R", "X"} \cup Range(Stores)
              [] p.d = "X" -> {"R", "X"}
              [] OTHER -> {p.d}
      hits == \/ "R" \in ds /\ p.n \in DOMAIN ram
              \/ "X" \in ds /\ MayErase(p.n)
              \/ \E d \in ds \cap Range(Stores) : ReadMedia(d, p.n) # {}
      everywhere == /\ p.d = "all" /\ ~locked
                    /\ p.n \in DOMAIN Built => MayErase(p.n)
  IN /\ \E ok \in {hits, FALSE} : BleedPlaces(IF everywhere THEN {p.n} ELSE {}, ds, p.n, ok)
     /\ told' = IF hits THEN "done" ELSE "refused"

Hide(n) ==
  /\ n \in DOMAIN Built \ over.deleted
  /\ n \in over.hidden \/ Cardinality(over.hidden) < HiddenMax
  /\ over' = [over EXCEPT !.hidden = @ \cup {n}]
  /\ Done
  /\ UNCHANGED <<ram, media, locked, saved, bled>>

Shows(o, ns) ==
  /\ over' = o /\ Given(ns)
  /\ Done
  /\ UNCHANGED <<ram, media, locked, saved>>

\* dos_restore; tomb drop and del -t; tomb clear
Restore(n) == n \in DOMAIN Built \ over.deleted /\ Shows([over EXCEPT !.hidden = @ \ {n}], {n})
Drop(n) == Shows([hidden |-> over.hidden \ {n}, deleted |-> over.deleted \ {n}], {n})
Clear == Shows([hidden |-> {}, deleted |-> {}], PathNames)

\* ------------------------- storage, locks, restarts ------------------------

\* cmd_fssave
SaveAll ==
  /\ saved' = [ram |-> ram, over |-> over] /\ Done
  /\ UNCHANGED <<ram, media, over, locked, bled>>

\* cmd_fsload, and a boot, which opens LardSec: both take what was saved, as in a
\* build whose file table fits the loader (LpstStore).
LoadSaved(boots) ==
  /\ ram' = saved.ram /\ over' = saved.over
  /\ locked' = (locked /\ ~boots)
  /\ Done
  /\ UNCHANGED <<media, saved, bled>>

\* secure lock, secure unlock
Turn ==
  /\ locked' = ~locked /\ Done
  /\ UNCHANGED <<ram, media, over, saved, bled>>

NothingYet == [n \in {} |-> <<>>]
DrivesInit ==
  /\ ram = NothingYet
  /\ media = [d \in Range(Stores) |-> NothingYet]
  /\ over = [hidden |-> {}, deleted |-> {}]
  /\ locked = FALSE
  /\ saved = [ram |-> ram, over |-> over]
  /\ bled = {}
  /\ told = "done"
  /\ left = MaxCommands

Command ==
  \/ \E p, q \in Paths : Copy(p, q) \/ DosCopy(p, q) \/ DosRename(p, q)
  \/ \E p \in Paths :
       \/ \E w \in Words : CmdWrite(p, w) \/ AppendTo(p, w)
       \/ Bleed(p)
  \/ \E n, m \in PathNames : CmdRename(n, m)
  \/ \E n \in PathNames :
       \/ \E force \in BOOLEAN : Delete(n, force)
       \/ Hide(n) \/ Restore(n) \/ Drop(n)
       \/ \E d \in Range(Stores) :
            \/ \E w \in Words, append \in BOOLEAN : MediaWrite(d, n, w, append)
            \/ MediaDelete(d, n)
  \/ Clear
  \/ SaveAll
  \/ \E boots \in BOOLEAN : LoadSaved(boots)
  \/ Turn

DrivesNext == left > 0 /\ left' = left - 1 /\ Command

DrivesSpec == DrivesInit /\ [][DrivesNext]_drivesVars

\* A table of files with room for `most` of them, of `cap` characters each.
TableFits(f, most, cap) ==
  /\ DOMAIN f \subseteq PathNames /\ IsFiniteSet(DOMAIN f) /\ Cardinality(DOMAIN f) <= most
  /\ f \in [DOMAIN f -> Seq(Chars)] /\ \A n \in DOMAIN f : Len(f[n]) <= cap
\* What is hidden and what is deleted, each in a table of its own.
OutOfSight(o) ==
  /\ o \in [hidden : SUBSET DOMAIN Built, deleted : SUBSET DOMAIN Built] /\ o.hidden \cap o.deleted = {}
  /\ IsFiniteSet(o.hidden) /\ Cardinality(o.hidden) <= HiddenMax
  /\ IsFiniteSet(o.deleted) /\ Cardinality(o.deleted) <= DeletedMax

DrivesTypeOK ==
  /\ TableFits(ram, FreeSlots, SlotCap) /\ OutOfSight(over)
  /\ media = [d \in Range(Stores) |-> media[d]] /\ \A d \in Range(Stores) : TableFits(media[d], StoreMax, StoreCap)
  /\ saved = [ram |-> saved.ram, over |-> saved.over]
  /\ TableFits(saved.ram, FreeSlots, SlotCap) /\ OutOfSight(saved.over)
  /\ locked \in BOOLEAN /\ bled \in SUBSET PathNames /\ told \in {"refused", "done", "lied"} /\ left \in Nat

\* What a command said it wrote, appended to, copied or moved, its destination
\* reads as, on the drive that was named: no file of that name on another drive,
\* and no built-in file that was covered, comes between.
SaidIsDone == told # "lied"

\* A file that `bleed` deleted on all drives and then saved stays gone, on every
\* drive and after any boot, until a command gives the name to a file again.
BledStaysGone == \A n \in bled, d \in Drives : Read([d |-> d, n |-> n]) \subseteq {<<>>}

\* The file commands keep their word: what they wrote and what they took away.
FilesAreAsSaid == SaidIsDone /\ BledStaysGone

\* What the messages say and the code does not do.
\* "append: seed/default file too large for user overlay." and "COPY: destination
\* too small.": a command that refuses leaves all as it was.
RefusedChangesNothing ==
  [][told' = "refused" => \A p \in Paths : Read(p)' = Read(p)]_drivesVars

\* "Renamed by moving data into media store": the text is there afterwards.
RenameKeeps ==
  [][\A p \in Paths : ToMedia(p) /\ DosRename(p, p) /\ told' = "done" => Read(p)' = Read(p)]_drivesVars
=============================================================================
