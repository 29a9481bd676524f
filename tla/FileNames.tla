------------------------------ MODULE FileNames ------------------------------
(***************************************************************************)
(* The table of writable files, src/os/kernel/fs.c: every file is a slot   *)
(* of fixed capacity compiled into the kernel, whose name may change.  A   *)
(* file is created by renaming an empty "rxrslot" slot.  The LPST store    *)
(* keeps the names and contents and a boot puts them back in the slots,    *)
(* by name if it can and by position if not.  How the store itself gets    *)
(* them to the disk is module LpstStore.                                   *)
(***************************************************************************)
EXTENDS Naturals, FiniteSets

CONSTANTS
  Slots,     \* the writable table, 0 .. writable_count() - 1
  Names,     \* names a user may give
  SlotNames, \* those of them that begin with "rxrslot"
  Home,      \* the name a slot is compiled with
  Cap,       \* the capacity of a slot
  Data,      \* what a file may hold
  Size,      \* the size of it
  Nothing,   \* the content of an empty file
  Default    \* what a fixed file is compiled with

ASSUME SlotsAssumption == Slots = 0 .. Cardinality(Slots) - 1 /\ IsFiniteSet(Slots)
ASSUME NamesAssumption ==
  /\ SlotNames \subseteq Names
  /\ Home \in [Slots -> Names]
  /\ \A i, j \in Slots : i # j => Home[i] # Home[j]
ASSUME DataAssumption ==
  /\ Nothing \in Data /\ Default \in Data
  /\ Size \in [Data -> Nat] /\ \A c \in Data : Size[c] = 0 <=> c = Nothing
  /\ Cap \in [Slots -> Nat]
  /\ \A i \in Slots : Home[i] \notin SlotNames => Size[Default] <= Cap[i]

Fits(c, i) == Size[c] <= Cap[i]

\* The slots that hold user files from the start: all but the empty "rxrslot"s.
Fixed == {i \in Slots : Home[i] \notin SlotNames}

NoImage == [name |-> Home, content |-> [i \in Slots |-> Nothing], valid |-> FALSE]
Idle == Cardinality(Slots)

VARIABLES
  name,     \* the name of every slot
  content,  \* what every slot holds
  image,    \* what the store holds
  next,     \* the entry of the image fs_persist_load looks at; Idle between loads
  drifted,  \* history variable: has a fixed slot been renamed, or a slot been
            \* given a name that begins with "rxrslot" by a user?
  booted    \* history variable: is the table what the last boot made of the image?

vars == <<name, content, image, next, drifted, booted>>

-----------------------------------------------------------------------------
\* fs_open_writable
Named(n) == {i \in Slots : name[i] = n}

\* A bug to catch: a renamed slot counts as free while it is empty.
IsFreeWhenEmpty(i) == content[i] = Nothing /\ Home[i] \in SlotNames

\* fs_is_empty_rxr_slot
IsFree(i) == content[i] = Nothing /\ name[i] \in SlotNames

\* fs_find_empty_rxr_slot
FirstFree == {i \in Slots : IsFree(i) /\ \A j \in Slots : IsFree(j) => i <= j}

Initial(i) == IF i \in Fixed THEN Default ELSE Nothing

\* The kernel image: fs_init before it loads the store.
Fresh ==
  /\ name = Home
  /\ content = [i \in Slots |-> Initial(i)]

Init ==
  /\ Fresh
  /\ image = NoImage
  /\ next = Idle
  /\ drifted = FALSE
  /\ booted = FALSE

Running == next = Idle

\* fs_open_or_create_writable for a name that no file has.
Create(n) ==
  /\ Running
  /\ Named(n) = {}
  /\ \E i \in FirstFree : name' = [name EXCEPT ![i] = n]
  /\ drifted' = (drifted \/ n \in SlotNames)
  /\ booted' = FALSE
  /\ UNCHANGED <<content, image, next>>

\* fs_write of a whole file; DEL and BLEED write nothing.
Write(i, c) ==
  /\ Running
  /\ Fits(c, i)
  /\ content' = [content EXCEPT ![i] = c]
  /\ booted' = FALSE
  /\ UNCHANGED <<name, image, next, drifted>>

\* A bug to catch: the new name is not looked up.
RenameBlindly(i, n) ==
  /\ Running
  /\ name' = [name EXCEPT ![i] = n]
  /\ drifted' = (drifted \/ i \in Fixed \/ n \in SlotNames)
  /\ booted' = FALSE
  /\ UNCHANGED <<content, image, next>>

\* fs_rename_writable
Rename(i, n) ==
  /\ Running
  /\ Named(n) = {}
  /\ name' = [name EXCEPT ![i] = n]
  /\ drifted' = (drifted \/ i \in Fixed \/ n \in SlotNames)
  /\ booted' = FALSE
  /\ UNCHANGED <<content, image, next>>

\* fs_persist_save, which refuses (-3) while a file is larger than its slot.
Save ==
  /\ Running
  /\ \A i \in Slots : Fits(content[i], i)
  /\ image' = [name |-> name, content |-> content, valid |-> TRUE]
  /\ booted' = FALSE
  /\ UNCHANGED <<name, content, next, drifted>>

\* A reset: fs_init starts from the kernel image and loads the store.  A load
\* that a reset interrupts starts over.
Boot ==
  /\ name' = Home
  /\ content' = [i \in Slots |-> Initial(i)]
  /\ next' = IF image.valid THEN 0 ELSE Idle
  /\ booted' = image.valid
  /\ UNCHANGED <<image, drifted>>

\* "fsload": the same entries into the table as it is.
Load ==
  /\ Running /\ image.valid
  /\ next' = 0
  /\ booted' = FALSE
  /\ UNCHANGED <<name, content, image, drifted>>

\* A bug to catch: entries go to the slot of their position.
TargetByPosition(n, k) == {k}

\* lpst_find_writable_for_entry
Target(n, k) == IF Named(n) # {} THEN Named(n) ELSE {k}

\* A bug to catch: the capacities are not compared.
SameCapacityAny(i, k) == TRUE

SameCapacity(i, k) == Cap[i] = Cap[k]

\* One round of the loop of fs_persist_load.  The name is taken over only by a
\* slot that is free.
LoadEntry ==
  LET n == image.name[next]
  IN  /\ ~Running
      /\ \E i \in Target(n, next) :
           IF ~SameCapacity(i, next) THEN UNCHANGED <<name, content>>
           ELSE /\ name' = IF Named(n) = {} /\ IsFree(i) THEN [name EXCEPT ![i] = n] ELSE name
                /\ content' = [content EXCEPT ![i] = image.content[next]]
      /\ next' = next + 1
      /\ UNCHANGED <<image, drifted, booted>>

Edit ==
  \/ \E n \in Names : Create(n)
  \/ \E i \in Slots, c \in Data : Write(i, c)
  \/ \E i \in Slots, n \in Names : Rename(i, n)

Next == Edit \/ Save \/ Boot \/ Load \/ LoadEntry

Spec == Init /\ [][Next]_vars

-----------------------------------------------------------------------------
\* The table as the user sees it: files by name, free slots left out.
Files == {<<name[i], content[i]>> : i \in {j \in Slots : ~IsFree(j)}}
SavedFiles ==
  {<<image.name[i], image.content[i]>> :
     i \in {j \in Slots : image.content[j] # Nothing \/ image.name[j] \notin SlotNames}}

\* Every slot has a name and a content, and the image was such a table.
TypeOK ==
  /\ name \in [Slots -> Names] /\ content \in [Slots -> Data]
  /\ image \in [name : [Slots -> Names], content : [Slots -> Data], valid : BOOLEAN]
  /\ next \in 0 .. Idle
  /\ drifted \in BOOLEAN /\ booted \in BOOLEAN

\* No file of the table or of the image is larger than its slot, whatever is
\* written, renamed, saved and loaded back into slots of other capacities.
SizesFit == \A i \in Slots : Fits(content[i], i) /\ Fits(image.content[i], i)

\* No two files have one name: fs_open_writable, which takes the first slot with
\* a name, finds every file.
NamesUnique == \A i, j \in Slots : name[i] = name[j] => i = j

\* A boot gives back the files of the image, each under its name, unless a
\* fixed slot was renamed or a name that begins with "rxrslot" was given away.
BootRestores == booted /\ Running /\ ~drifted => Files = SavedFiles

\* RELEASES.lardd:80: "Prevents fixed writable slots from being renamed by
\* persisted entries, protecting monitors.lardd ... from slot-order drift": what
\* a boot finds under the name of a fixed slot is what was saved under it.
FixedFilesKeepTheirs ==
  booted /\ Running =>
    \A i \in Fixed, k \in Slots :
      image.name[k] = Home[i] => \A j \in Named(Home[i]) : content[j] = image.content[k]
=============================================================================

