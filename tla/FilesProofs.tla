----------------------------- MODULE FilesProofs -----------------------------
(***************************************************************************)
(* The table of writable files and the bundles installed in it, for every  *)
(* number, naming and capacity of the slots and every set of bundles: no   *)
(* two files have one name, none is larger than its slot, a boot gives     *)
(* back what was saved, and an install is whole or harmless and can be     *)
(* undone.  Then the file commands on many drives, for every set of        *)
(* stores, names and texts: a command that says it wrote has written, and  *)
(* what is bled from every drive stays away.                               *)
(***************************************************************************)
EXTENDS Rxr, ShellFiles, FiniteSetTheorems, TLAPS

\* An index of a slot is a number below Idle, and the entry a load looks at is
\* the index of a slot.
LEMMA SlotIndices ==
  /\ Idle \in Nat
  /\ \A k \in 0 .. Idle : k # Idle => k \in Slots
<1>1. Idle \in Nat
  BY SlotsAssumption, FS_CardinalityType DEF Idle
<1>2. Slots = 0 .. Idle - 1
  BY SlotsAssumption DEF Idle
<1> QED
  BY <1>1, <1>2

\* The slot an entry is loaded into, and the one a new file gets, are slots.
LEMMA TargetsAreSlots ==
  /\ \A n, k : k \in Slots => Target(n, k) \subseteq Slots
  /\ FirstFree \subseteq Slots
BY DEF Target, Named, FirstFree

LEMMA TypeOKInit == Init => TypeOK
<1> SUFFICES ASSUME Init PROVE TypeOK
  OBVIOUS
<1>1. content \in [Slots -> Data]
  BY DataAssumption DEF Init, Fresh, Initial
<1>2. name \in [Slots -> Names]
  BY NamesAssumption DEF Init, Fresh
<1>3. image \in [name : [Slots -> Names], content : [Slots -> Data], valid : BOOLEAN]
  BY NamesAssumption, DataAssumption DEF Init, NoImage
<1>4. next \in 0 .. Idle
  BY SlotIndices DEF Init
<1> QED
  BY <1>1, <1>2, <1>3, <1>4 DEF Init, TypeOK

LEMMA TypeOKStep == TypeOK /\ [Next]_vars => TypeOK'
<1> SUFFICES ASSUME TypeOK, [Next]_vars PROVE TypeOK'
  OBVIOUS
<1> USE DEF TypeOK
<1>1. ASSUME NEW n \in Names, Create(n) PROVE TypeOK'
  BY <1>1, TargetsAreSlots DEF Create
<1>2. ASSUME NEW i \in Slots, NEW c \in Data, Write(i, c) PROVE TypeOK'
  BY <1>2 DEF Write
<1>3. ASSUME NEW i \in Slots, NEW n \in Names, Rename(i, n) PROVE TypeOK'
  BY <1>3 DEF Rename
<1>4. CASE Save
  BY <1>4 DEF Save
<1>5. CASE Boot
  <2>1. content' \in [Slots -> Data]
    BY <1>5, DataAssumption DEF Boot, Initial
  <2>2. name' \in [Slots -> Names]
    BY <1>5, NamesAssumption DEF Boot
  <2>3. next' \in 0 .. Idle
    BY <1>5, SlotIndices DEF Boot
  <2> QED
    BY <1>5, <2>1, <2>2, <2>3 DEF Boot
<1>6. CASE Load
  <2>1. next' \in 0 .. Idle
    BY <1>6, SlotIndices DEF Load
  <2>2. UNCHANGED <<name, content, image, drifted>> /\ booted' = FALSE
    BY <1>6 DEF Load
  <2> QED
    BY <2>1, <2>2
<1>7. CASE LoadEntry
  <2>1. next \in Slots
    BY <1>7, SlotIndices DEF LoadEntry, Running
  <2>2. next' \in 0 .. Idle
    BY <1>7, SlotIndices DEF LoadEntry, Running
  <2>3. image.name[next] \in Names /\ image.content[next] \in Data
    BY <2>1
  <2>4. PICK i \in Target(image.name[next], next) :
          IF ~SameCapacity(i, next) THEN UNCHANGED <<name, content>>
          ELSE /\ name' = IF Named(image.name[next]) = {} /\ IsFree(i)
                            THEN [name EXCEPT ![i] = image.name[next]] ELSE name
               /\ content' = [content EXCEPT ![i] = image.content[next]]
    BY <1>7 DEF LoadEntry
  <2>5. name' \in [Slots -> Names] /\ content' \in [Slots -> Data]
    BY <2>3, <2>4
  <2> QED
    BY <1>7, <2>2, <2>5 DEF LoadEntry
<1>8. CASE UNCHANGED vars
  BY <1>8 DEF vars
<1> QED
  BY <1>1, <1>2, <1>3, <1>4, <1>5, <1>6, <1>7, <1>8 DEF Next, Edit

\* A table has names for all its slots, and contents, after every step.
THEOREM Typing == Spec => []TypeOK
  BY TypeOKInit, TypeOKStep, PTL DEF Spec

\* A name that no file has may be given to any one slot.
LEMMA NewNameIsUnique ==
  ASSUME TypeOK, NamesUnique, NEW n, NEW i \in Slots, Named(n) = {},
         name' = [name EXCEPT ![i] = n]
  PROVE  NamesUnique'
BY DEF TypeOK, NamesUnique, Named

LEMMA NamesUniqueStep == TypeOK /\ NamesUnique /\ [Next]_vars => NamesUnique'
<1> SUFFICES ASSUME TypeOK, NamesUnique, [Next]_vars PROVE NamesUnique'
  OBVIOUS
<1>1. ASSUME NEW n \in Names, Create(n) PROVE NamesUnique'
  <2>1. PICK i \in FirstFree : name' = [name EXCEPT ![i] = n]
    BY <1>1 DEF Create
  <2> QED
    BY <1>1, <2>1, TargetsAreSlots, NewNameIsUnique DEF Create
<1>2. ASSUME NEW i \in Slots, NEW n \in Names, Rename(i, n) PROVE NamesUnique'
  BY <1>2, NewNameIsUnique DEF Rename
<1>3. CASE Boot
  BY <1>3, NamesAssumption DEF Boot, NamesUnique
<1>4. CASE LoadEntry
  <2>1. next \in Slots
    BY <1>4, SlotIndices DEF LoadEntry, Running, TypeOK
  <2>2. PICK i \in Target(image.name[next], next) :
          \/ name' = name
          \/ Named(image.name[next]) = {} /\ name' = [name EXCEPT ![i] = image.name[next]]
    BY <1>4 DEF LoadEntry
  <2>3. i \in Slots
    BY <2>1, TargetsAreSlots
  <2>4. CASE name' = name
    BY <2>4 DEF NamesUnique
  <2>5. CASE Named(image.name[next]) = {} /\ name' = [name EXCEPT ![i] = image.name[next]]
    BY <2>3, <2>5, NewNameIsUnique
  <2> QED
    BY <2>2, <2>4, <2>5
<1>5. ASSUME UNCHANGED name PROVE NamesUnique'
  BY <1>5 DEF NamesUnique
<1>6. ASSUME NEW i \in Slots, NEW c \in Data, Write(i, c) PROVE NamesUnique'
  BY <1>5, <1>6 DEF Write
<1>7. CASE Save \/ Load \/ UNCHANGED vars
  BY <1>5, <1>7 DEF Save, Load, vars
<1> QED
  BY <1>1, <1>2, <1>3, <1>4, <1>6, <1>7 DEF Next, Edit

\* Whatever is created, renamed, saved and loaded, fs_open_writable, which takes
\* the first slot with a name, finds every file.
THEOREM UniqueNames == Spec => []NamesUnique
<1>1. Init => NamesUnique
  BY NamesAssumption DEF Init, Fresh, NamesUnique
<1> QED
  BY <1>1, NamesUniqueStep, Typing, PTL DEF Spec

\* No file is ever larger than its slot, so fs_persist_save is never refused for
\* that: only the undo of a bundle, which is not an action here, leaves such one.
THEOREM FilesFitSlots == Spec => []SizesFit
<1>1. Init => SizesFit
  <2> SUFFICES ASSUME Init, NEW i \in Slots PROVE Fits(content[i], i) /\ Fits(image.content[i], i)
    BY DEF SizesFit
  <2>1. Fits(Nothing, i)
    BY DataAssumption DEF Fits
  <2>2. i \in Fixed => Fits(Default, i)
    BY DataAssumption DEF Fits, Fixed
  <2> QED
    BY <2>1, <2>2 DEF Init, Fresh, Initial, NoImage
<1>2. TypeOK /\ SizesFit /\ [Next]_vars => SizesFit'
  <2> SUFFICES ASSUME TypeOK, SizesFit, [Next]_vars, NEW j \in Slots
               PROVE  Fits(content'[j], j) /\ Fits(image'.content[j], j)
    BY DEF SizesFit, Fits
  <2> USE DEF TypeOK, SizesFit
  <2>1. ASSUME NEW i \in Slots, NEW c \in Data, Write(i, c)
        PROVE  Fits(content'[j], j) /\ Fits(image'.content[j], j)
    BY <2>1 DEF Write
  <2>2. ASSUME Save PROVE Fits(content'[j], j) /\ Fits(image'.content[j], j)
    BY <2>2 DEF Save
  <2>3. ASSUME Boot PROVE Fits(content'[j], j) /\ Fits(image'.content[j], j)
    <3>1. Fits(Nothing, j)
      BY DataAssumption DEF Fits
    <3>2. j \in Fixed => Fits(Default, j)
      BY DataAssumption DEF Fits, Fixed
    <3> QED
      BY <2>3, <3>1, <3>2 DEF Boot, Initial
  <2>4. ASSUME LoadEntry PROVE Fits(content'[j], j) /\ Fits(image'.content[j], j)
    <3>1. next \in Slots
      BY <2>4, SlotIndices DEF LoadEntry, Running
    <3>2. PICK i \in Target(image.name[next], next) :
            \/ content' = content
            \/ SameCapacity(i, next) /\ content' = [content EXCEPT ![i] = image.content[next]]
      BY <2>4 DEF LoadEntry
    <3>3. i \in Slots
      BY <3>1, TargetsAreSlots
    <3>4. SameCapacity(i, next) => Fits(image.content[next], i)
      BY <3>1, <3>3 DEF SameCapacity, Fits
    <3>5. Fits(content'[j], j)
      BY <3>2, <3>3, <3>4
    <3> QED
      BY <2>4, <3>5 DEF LoadEntry
  <2>5. ASSUME UNCHANGED <<content, image>>
        PROVE  Fits(content'[j], j) /\ Fits(image'.content[j], j)
    BY <2>5
  <2>6. ASSUME NEW n \in Names, Create(n) PROVE UNCHANGED <<content, image>>
    BY <2>6 DEF Create
  <2>7. ASSUME NEW i \in Slots, NEW n \in Names, Rename(i, n) PROVE UNCHANGED <<content, image>>
    BY <2>7 DEF Rename
  <2>8. ASSUME Load \/ UNCHANGED vars PROVE UNCHANGED <<content, image>>
    BY <2>8 DEF Load, vars
  <2> QED
    BY <2>1, <2>2, <2>3, <2>4, <2>5, <2>6, <2>7, <2>8 DEF Next, Edit
<1> QED
  BY <1>1, <1>2, Typing, PTL DEF Spec

-----------------------------------------------------------------------------
(***************************************************************************)
(* A boot.  That the table holds the files of the image once it is loaded  *)
(* is not inductive: LoadedSoFar says it of the entries already looked at, *)
(* and of the others that they are as compiled.  An entry finds the slot   *)
(* of its position because names are unique in the image as well, and      *)
(* because fixed slots keep their names (Settled).                         *)
(***************************************************************************)

Settled(table) == \A i \in Slots : table[i] = Home[i] \/ (i \notin Fixed /\ table[i] \notin SlotNames)

\* What a load has made of the slots before the entry it looks at, and what the
\* kernel image has in the others.
LoadedSoFar ==
  \A i \in Slots : IF i < next THEN name[i] = image.name[i] /\ content[i] = image.content[i]
                              ELSE name[i] = Home[i] /\ content[i] = Initial(i)

BootInv ==
  /\ \A i, j \in Slots : image.name[i] = image.name[j] => i = j
  /\ ~drifted => Settled(name) /\ Settled(image.name)
  /\ booted /\ ~drifted => LoadedSoFar

\* A free slot may take a name that is not a slot's, a new file that name.
LEMMA SettledAfter ==
  ASSUME TypeOK, Settled(name), NEW i \in Slots, NEW n, i \notin Fixed,
         n = Home[i] \/ n \notin SlotNames, name' = [name EXCEPT ![i] = n]
  PROVE  Settled(name')
BY DEF TypeOK, Settled

\* Before a fixed slot is renamed, a slot with the name of a free one is no
\* fixed one.
LEMMA FreeIsNotFixed ==
  ASSUME TypeOK, Settled(name), NEW i \in Slots, IsFree(i)
  PROVE  i \notin Fixed
BY DEF Settled, Fixed, IsFree

\* Slots are numbers.
LEMMA SlotsAreNumbers == /\ Slots \subseteq Nat /\ \A i \in Slots : i < Idle /\ ~(i < i) /\ ~(i < 0)
<1>1. Slots = 0 .. Idle - 1 /\ Idle \in Nat
  BY SlotIndices, SlotsAssumption DEF Idle
<1> QED
  BY <1>1

\* In a boot every entry is for the slot of its position, which takes its name.
LEMMA LoadTakesOver ==
  ASSUME TypeOK, NamesUnique, BootInv, booted, ~drifted, LoadEntry
  PROVE  /\ next \in Slots
         /\ name' = [name EXCEPT ![next] = image.name[next]]
         /\ content' = [content EXCEPT ![next] = image.content[next]]
<1> DEFINE n == image.name[next]
<1>1. next \in Slots
  BY SlotIndices DEF LoadEntry, Running, TypeOK
<1>2. \A i \in Slots : i < next => name[i] = image.name[i] /\ content[i] = image.content[i]
  BY DEF BootInv, LoadedSoFar
<1>3. \A i \in Slots : ~(i < next) => name[i] = Home[i] /\ content[i] = Initial(i)
  BY DEF BootInv, LoadedSoFar
<1>4. name[next] = Home[next] /\ content[next] = Initial(next)
  <2>1. ~(next < next)
    BY <1>1, SlotsAreNumbers
  <2> QED
    BY <1>1, <1>3, <2>1
<1>5. n = Home[next] \/ (next \notin Fixed /\ n \notin SlotNames)
  BY <1>1 DEF BootInv, Settled
<1>6. CASE n = Home[next]
  <2>1. Named(n) = {next}
    BY <1>1, <1>4, <1>6 DEF Named, NamesUnique
  <2>2. Target(n, next) = {next}
    BY <2>1 DEF Target
  <2>3. name' = name /\ content' = [content EXCEPT ![next] = image.content[next]]
    BY <2>1, <2>2 DEF LoadEntry, SameCapacity
  <2>4. name = [name EXCEPT ![next] = n]
    BY <1>1, <1>4, <1>6 DEF TypeOK
  <2> QED
    BY <1>1, <2>3, <2>4
<1>7. CASE next \notin Fixed /\ n \notin SlotNames
  <2>1. ASSUME NEW i \in Slots, name[i] = n PROVE FALSE
    <3>1. CASE i < next
      <4>1. i = next
        BY <1>1, <1>2, <2>1, <3>1 DEF BootInv
      <4> QED
        BY <3>1, <4>1, <1>1, SlotsAreNumbers
    <3>2. CASE ~(i < next)
      <4>1. i \in Fixed
        BY <1>3, <1>7, <2>1, <3>2 DEF Fixed
      <4>2. image.name[i] = Home[i] /\ name[i] = Home[i]
        BY <1>3, <3>2, <4>1 DEF BootInv, Settled
      <4>3. i = next
        BY <1>1, <2>1, <4>2 DEF BootInv
      <4> QED
        BY <1>7, <4>1, <4>3
    <3> QED
      BY <3>1, <3>2
  <2>2. Named(n) = {} /\ Target(n, next) = {next}
    BY <2>1 DEF Named, Target
  <2>3. IsFree(next)
    BY <1>1, <1>4, <1>7 DEF IsFree, Initial, Fixed
  <2> QED
    BY <1>1, <2>2, <2>3 DEF LoadEntry, SameCapacity
<1> QED
  BY <1>5, <1>6, <1>7

LEMMA BootInvInductive == TypeOK /\ NamesUnique /\ BootInv /\ [Next]_vars => BootInv'
<1> SUFFICES ASSUME TypeOK, NamesUnique, BootInv, [Next]_vars PROVE BootInv'
  OBVIOUS
<1>1. ASSUME NEW n \in Names, Create(n) PROVE BootInv'
  <2>1. PICK i \in FirstFree : name' = [name EXCEPT ![i] = n]
    BY <1>1 DEF Create
  <2>2. i \in Slots /\ IsFree(i)
    BY <2>1 DEF FirstFree
  <2>3. ~drifted' => Settled(name')
    BY <1>1, <2>1, <2>2, SettledAfter, FreeIsNotFixed DEF Create, BootInv
  <2> QED
    BY <1>1, <2>3 DEF Create, BootInv, Settled
<1>2. ASSUME NEW i \in Slots, NEW c \in Data, Write(i, c) PROVE BootInv'
  BY <1>2 DEF Write, BootInv, Settled
<1>3. ASSUME NEW i \in Slots, NEW n \in Names, Rename(i, n) PROVE BootInv'
  <2>1. ~drifted' => Settled(name')
    BY <1>3, SettledAfter DEF Rename, BootInv
  <2> QED
    BY <1>3, <2>1 DEF Rename, BootInv, Settled
<1>4. CASE Save
  BY <1>4 DEF Save, BootInv, NamesUnique, Settled
<1>5. CASE Boot
  <2>1. Settled(name')
    BY <1>5, NamesAssumption DEF Boot, Settled
  <2>2. booted' => LoadedSoFar'
    <3>1. booted' => next' = 0
      BY <1>5 DEF Boot
    <3>2. \A i \in Slots : ~(i < 0)
      BY SlotsAreNumbers
    <3>3. \A i \in Slots : name'[i] = Home[i] /\ content'[i] = Initial(i)
      BY <1>5 DEF Boot
    <3> QED
      BY <3>1, <3>2, <3>3 DEF LoadedSoFar, Initial
  <2> QED
    BY <1>5, <2>1, <2>2 DEF Boot, BootInv, Settled
<1>6. CASE Load
  BY <1>6 DEF Load, BootInv, Settled
<1>7. CASE LoadEntry
  <2>1. UNCHANGED <<image, drifted, booted>>
    BY <1>7 DEF LoadEntry
  <2>2. next \in Slots
    BY <1>7, SlotIndices DEF LoadEntry, Running, TypeOK
  <2>3. ASSUME ~drifted PROVE Settled(name')
    <3>1. PICK i \in Target(image.name[next], next) :
            \/ name' = name
            \/ /\ Named(image.name[next]) = {} /\ IsFree(i)
               /\ name' = [name EXCEPT ![i] = image.name[next]]
      BY <1>7 DEF LoadEntry
    <3>2. CASE name' = name
      BY <2>3, <3>2 DEF BootInv
    <3>3. CASE /\ Named(image.name[next]) = {} /\ IsFree(i)
               /\ name' = [name EXCEPT ![i] = image.name[next]]
      <4>1. i = next
        BY <3>1, <3>3 DEF Target
      <4>2. image.name[next] = Home[next] \/ image.name[next] \notin SlotNames
        BY <2>2, <2>3 DEF BootInv, Settled
      <4>3. i \notin Fixed
        BY <2>2, <2>3, <3>3, <4>1, FreeIsNotFixed DEF BootInv
      <4> QED
        BY <2>2, <2>3, <3>3, <4>1, <4>2, <4>3, SettledAfter DEF BootInv
    <3> QED
      BY <3>1, <3>2, <3>3
  <2>4. ASSUME booted, ~drifted PROVE LoadedSoFar'
    <3>1. /\ name' = [name EXCEPT ![next] = image.name[next]]
          /\ content' = [content EXCEPT ![next] = image.content[next]]
      BY <1>7, <2>4, LoadTakesOver
    <3>2. next' = next + 1 /\ image' = image
      BY <1>7 DEF LoadEntry
    <3>3. ASSUME NEW i \in Slots
          PROVE  IF i < next' THEN name'[i] = image.name[i] /\ content'[i] = image.content[i]
                 ELSE name'[i] = Home[i] /\ content'[i] = Initial(i)
      <4>1. i \in Nat /\ next \in Nat /\ (i < next + 1 <=> i < next \/ i = next)
        BY <2>2, SlotsAreNumbers
      <4>2. CASE i = next
        BY <2>2, <3>1, <3>2, <4>1, <4>2 DEF TypeOK
      <4>3. CASE i # next
        BY <2>4, <3>1, <3>2, <4>1, <4>3 DEF TypeOK, BootInv, LoadedSoFar
      <4> QED
        BY <4>2, <4>3
    <3> QED
      BY <3>2, <3>3 DEF LoadedSoFar, Initial
  <2> QED
    BY <2>1, <2>3, <2>4 DEF BootInv, Settled
<1>8. CASE UNCHANGED vars
  BY <1>8 DEF vars, BootInv, Settled, LoadedSoFar, Initial
<1> QED
  BY <1>1, <1>2, <1>3, <1>4, <1>5, <1>6, <1>7, <1>8 DEF Next, Edit

LEMMA BootInvHolds == Spec => []BootInv
<1>1. Init => BootInv
  BY NamesAssumption DEF Init, Fresh, NoImage, BootInv, Settled
<1> QED
  BY <1>1, BootInvInductive, Typing, UniqueNames, PTL DEF Spec

\* A boot gives back the files of the image, each under its name and in the slot
\* it was saved from, for any number of slots and any sequence of commands,
\* unless a fixed slot was renamed or a slot's name given to a file.
THEOREM BootRestoresHolds == Spec => []BootRestores
<1>1. TypeOK /\ BootInv => BootRestores
  <2> SUFFICES ASSUME TypeOK, BootInv, booted, Running, ~drifted PROVE Files = SavedFiles
    BY DEF BootRestores
  <2>1. \A i \in Slots : i < next
    BY SlotIndices, SlotsAreNumbers DEF Running
  <2>2. \A i \in Slots : name[i] = image.name[i] /\ content[i] = image.content[i]
    BY <2>1 DEF BootInv, LoadedSoFar
  <2> QED
    BY <2>2 DEF Files, SavedFiles, IsFree
<1> QED
  BY <1>1, BootInvHolds, Typing, PTL

-----------------------------------------------------------------------------
(***************************************************************************)
(* Bundles.  Between installs the table changes as it does without them,   *)
(* which is what the lemmas above are cited for.                           *)
(***************************************************************************)

LEMMA EditIsNext == Edit \/ Boot => [Next]_vars
  BY DEF Next

\* The new file gets the first free slot, of which there is one at most.
LEMMA Obtaining ==
  ASSUME TypeOK, NEW n \in Names, Obtain(n)
  PROVE  \/ Named(n) # {} /\ name' = name
         \/ Named(n) = {} /\ FirstFree = {} /\ name' = name
         \/ Named(n) = {} /\ \E i \in FirstFree : FirstFree = {i} /\ name' = [name EXCEPT ![i] = n]
<1>1. CASE Named(n) # {}
  BY <1>1 DEF Obtain
<1>2. CASE Named(n) = {} /\ FirstFree = {}
  BY <1>2 DEF Obtain, TypeOK
<1>3. CASE Named(n) = {} /\ FirstFree # {}
  <2>1. PICK i \in FirstFree : TRUE
    BY <1>3
  <2>2. FirstFree = {i}
    <3>1. ASSUME NEW j \in FirstFree PROVE j = i
      <4>1. i \in Nat /\ j \in Nat /\ i <= j /\ j <= i
        BY <2>1, SlotsAreNumbers DEF FirstFree
      <4> QED
        BY <4>1
    <3> QED
      BY <2>1, <3>1
  <2>3. name' = [name EXCEPT ![i] = n]
    BY <1>3, <2>2 DEF Obtain, TypeOK
  <2> QED
    BY <1>3, <2>2, <2>3
<1> QED
  BY <1>1, <1>2, <1>3

\* What obtaining a slot does to the names, whichever way it goes.
LEMMA ObtainedNames ==
  ASSUME TypeOK, NamesUnique, NEW n \in Names, Obtain(n)
  PROVE  name' \in [Slots -> Names] /\ NamesUnique' /\ Obtained(n) \subseteq Slots
<1>1. Obtained(n) \subseteq Slots
  BY TargetsAreSlots DEF Obtained, Named
<1>2. CASE name' = name
  BY <1>1, <1>2 DEF TypeOK, NamesUnique
<1>3. ASSUME NEW i \in FirstFree, Named(n) = {}, name' = [name EXCEPT ![i] = n]
      PROVE  name' \in [Slots -> Names] /\ NamesUnique'
  BY <1>3, TargetsAreSlots, NewNameIsUnique DEF TypeOK
<1> QED
  BY <1>1, <1>2, <1>3, Obtaining

LEMMA ElementOf ==
  ASSUME NEW S, NEW s \in Seq(S), NEW k \in DOMAIN s
  PROVE  s[k] \in S
OBVIOUS

LEMMA BundleFile ==
  ASSUME RxrTypeOK, phase \in {"capture", "write"}
  PROVE  /\ at \in 1 .. Len(bundle.files) /\ Len(bundle.files) \in Nat
         /\ bundle.files[at] \in [name : Names, content : Data]
         /\ bundle.files[at].name \in Names /\ bundle.files[at].content \in Data
<1>1. at \in DOMAIN bundle.files /\ bundle.files \in Seq([name : Names, content : Data])
  BY DEF RxrTypeOK, BundleFiles
<1>2. bundle.files[at] \in [name : Names, content : Data]
  BY <1>1, ElementOf
<1> QED
  BY <1>1, <1>2 DEF BundleFiles

LEMMA KeptFile ==
  ASSUME RxrTypeOK, NEW j \in DOMAIN undo.files
  PROVE  /\ undo.files[j] \in Kept
         /\ undo.files[j].name \in Names /\ undo.files[j].content \in Data
         /\ undo.files[j].created \in BOOLEAN
<1>1. undo.files[j] \in Kept
  BY DEF RxrTypeOK
<1> QED
  BY <1>1 DEF Kept

\* Where a round leaves the loops.
LEMMA AdvanceTypes ==
  ASSUME RxrTypeOK, phase \in {"capture", "write"}, Advance
  PROVE  /\ phase' \in {"none", "capture", "write"}
         /\ bundle' = bundle
         /\ phase' \in {"capture", "write"} => at' \in DOMAIN bundle.files
BY BundleFile DEF Advance, RxrTypeOK, BundleFiles

LEMMA NoUndoIsTyped ==
  /\ NoUndo.files \in Seq(Kept) /\ NoUndo.used \in 0 .. UndoBytes /\ Len(NoUndo.files) <= UndoFiles
  /\ NoBundle \in [files : BundleFiles, ends : Nat]
<1>1. <<>> \in Seq(Kept) /\ Len(<<>>) = 0 /\ <<>> \in BundleFiles
  BY DEF BundleFiles
<1>2. NoUndo.files = <<>> /\ NoUndo.used = 0
  BY DEF NoUndo
<1> QED
  BY <1>1, <1>2, BundlesAssumption DEF NoBundle

LEMMA KeepTypes ==
  ASSUME RxrTypeOK, NEW n \in Names, NEW c \in Data, NEW b \in BOOLEAN, HasRoom(c), Keep(n, c, b)
  PROVE  undo'.files \in Seq(Kept) /\ undo'.used \in 0 .. UndoBytes /\ Len(undo'.files) <= UndoFiles
<1> DEFINE f == [name |-> n, content |-> c, created |-> b]
<1>1. undo'.files = Append(undo.files, f) /\ undo'.used = undo.used + Size[c]
  BY DEF Keep
<1>2. f \in Kept
  BY DEF Kept
<1>3. Append(undo.files, f) \in Seq(Kept) /\ Len(Append(undo.files, f)) = Len(undo.files) + 1
  BY <1>2 DEF RxrTypeOK
<1>4. Len(undo.files) \in Nat /\ Len(undo.files) < UndoFiles /\ Size[c] <= UndoBytes - undo.used
  BY DEF RxrTypeOK, HasRoom
<1>5. Size[c] \in Nat /\ UndoBytes \in Nat /\ UndoFiles \in Nat /\ undo.used \in 0 .. UndoBytes
  BY DataAssumption, BundlesAssumption DEF RxrTypeOK
<1>6. Len(undo.files) + 1 <= UndoFiles
  BY <1>4, <1>5
<1>7. undo.used + Size[c] \in 0 .. UndoBytes
  BY <1>4, <1>5
<1> QED
  BY <1>1, <1>3, <1>6, <1>7

\* What a round of an install has to leave for the types to hold.
LEMMA RoundTypes ==
  ASSUME RxrTypeOK, TypeOK',
         phase' \in {"none", "capture", "write"}, bundle' = bundle,
         phase' \in {"capture", "write"} => at' \in DOMAIN bundle.files,
         undo'.files \in Seq(Kept), undo'.used \in 0 .. UndoBytes, Len(undo'.files) <= UndoFiles
  PROVE  RxrTypeOK'
<1>1. bundle' \in [files : BundleFiles, ends : Nat]
  BY DEF RxrTypeOK
<1>2. phase' # "undo" /\ phase' \in {"none", "capture", "write", "undo"}
  OBVIOUS
<1>3. phase' \in {"capture", "write"} => at' \in DOMAIN bundle'.files
  OBVIOUS
<1> QED
  BY <1>1, <1>2, <1>3 DEF RxrTypeOK

LEMMA RxrTypesStep == RxrTypeOK /\ NamesUnique /\ [RxrNext]_<<vars, rxrVars>> => RxrTypeOK' /\ NamesUnique'
<1> SUFFICES ASSUME RxrTypeOK, NamesUnique, [RxrNext]_<<vars, rxrVars>> PROVE RxrTypeOK' /\ NamesUnique'
  OBVIOUS
<1>0. TypeOK
  BY DEF RxrTypeOK
<1>1. ASSUME NEW b \in Bundles, Begin(b) PROVE RxrTypeOK' /\ NamesUnique'
  <2>1. vars' = vars
    BY <1>1 DEF Begin, vars
  <2>2. TypeOK' /\ NamesUnique'
    BY <1>0, <2>1, TypeOKStep, NamesUniqueStep
  <2>3. b \in [files : BundleFiles, ends : Nat] /\ b.ends <= Len(b.files) /\ b.ends > 0
    BY <1>1, BundlesAssumption DEF Begin, Verifies
  <2>4. 1 \in DOMAIN b.files
    BY <2>3 DEF BundleFiles
  <2> QED
    BY <1>1, <2>2, <2>3, <2>4, NoUndoIsTyped DEF Begin, RxrTypeOK
<1>2. CASE CaptureFile
  <2> DEFINE n == bundle.files[at].name
  <2>1. n \in Names /\ phase = "capture" /\ Obtain(n)
    BY <1>2, BundleFile DEF CaptureFile
  <2>2. name' \in [Slots -> Names] /\ NamesUnique' /\ Obtained(n) \subseteq Slots
    BY <1>0, <2>1, ObtainedNames
  <2>3. TypeOK'
    BY <1>0, <1>2, <2>2 DEF CaptureFile, TypeOK
  <2>4. CASE Fail
    <3>1. phase' = "none" /\ undo' = NoUndo /\ bundle' = bundle
      BY <2>4 DEF Fail
    <3> QED
      BY <2>2, <2>3, <3>1, NoUndoIsTyped, RoundTypes
  <2>5. CASE Advance /\ UNCHANGED undo
    <3>1. undo' = undo
      BY <2>5
    <3>2. /\ phase' \in {"none", "capture", "write"} /\ bundle' = bundle
          /\ phase' \in {"capture", "write"} => at' \in DOMAIN bundle.files
      BY <2>1, <2>5, AdvanceTypes
    <3> QED
      BY <2>2, <2>3, <3>1, <3>2, RoundTypes DEF RxrTypeOK
  <2>6. ASSUME NEW i \in Obtained(n), HasRoom(content[i]), Keep(n, content[i], Named(n) = {}), Advance
        PROVE  RxrTypeOK' /\ NamesUnique'
    <3>1. content[i] \in Data
      BY <1>0, <2>2 DEF TypeOK
    <3>2. undo'.files \in Seq(Kept) /\ undo'.used \in 0 .. UndoBytes /\ Len(undo'.files) <= UndoFiles
      BY <2>1, <2>6, <3>1, KeepTypes
    <3>3. /\ phase' \in {"none", "capture", "write"} /\ bundle' = bundle
          /\ phase' \in {"capture", "write"} => at' \in DOMAIN bundle.files
      BY <2>1, <2>6, AdvanceTypes
    <3> QED
      BY <2>2, <2>3, <3>2, <3>3, RoundTypes
  <2> QED
    BY <1>2, <2>4, <2>5, <2>6 DEF CaptureFile
<1>3. CASE WriteFile
  <2> DEFINE f == bundle.files[at]
  <2>1. f.name \in Names /\ f.content \in Data /\ phase = "write" /\ Obtain(f.name)
    BY <1>3, BundleFile DEF WriteFile
  <2>2. name' \in [Slots -> Names] /\ NamesUnique'
    BY <1>0, <2>1, ObtainedNames
  <2>3. TypeOK'
    BY <1>0, <1>3, <2>1, <2>2 DEF WriteFile, TypeOK
  <2>4. CASE Fail
    <3>1. phase' = "none" /\ undo' = NoUndo /\ bundle' = bundle
      BY <2>4 DEF Fail
    <3> QED
      BY <2>2, <2>3, <3>1, NoUndoIsTyped, RoundTypes
  <2>5. CASE Advance /\ UNCHANGED undo
    <3>1. undo' = undo
      BY <2>5
    <3>2. /\ phase' \in {"none", "capture", "write"} /\ bundle' = bundle
          /\ phase' \in {"capture", "write"} => at' \in DOMAIN bundle.files
      BY <2>1, <2>5, AdvanceTypes
    <3> QED
      BY <2>2, <2>3, <3>1, <3>2, RoundTypes DEF RxrTypeOK
  <2> QED
    BY <1>3, <2>4, <2>5 DEF WriteFile
<1>4. CASE BeginUndo
  <2>1. vars' = vars /\ bundle' = bundle /\ undo' = undo
    BY <1>4 DEF BeginUndo, vars
  <2>2. TypeOK' /\ NamesUnique'
    BY <1>0, <2>1, TypeOKStep, NamesUniqueStep
  <2>3. 1 \in DOMAIN undo.files
    BY <1>4 DEF BeginUndo, RxrTypeOK
  <2> QED
    BY <1>4, <2>1, <2>2, <2>3 DEF BeginUndo, RxrTypeOK
<1>5. CASE UndoFile
  <2> DEFINE u == undo.files[at]
  <2>1. at \in DOMAIN undo.files /\ phase = "undo"
    BY <1>5 DEF UndoFile, RxrTypeOK
  <2>2. u.name \in Names /\ u.content \in Data
    BY <2>1, KeptFile
  <2>3. name' \in [Slots -> Names] /\ NamesUnique'
    <3>1. CASE name' = name
      BY <1>0, <3>1 DEF TypeOK, NamesUnique
    <3>2. ASSUME NEW i \in Named(u.name), NEW k \in FirstMissing, name' = [name EXCEPT ![i] = SlotName[k]]
          PROVE  name' \in [Slots -> Names] /\ NamesUnique'
      <4>1. i \in Slots /\ k \in DOMAIN SlotName /\ Named(SlotName[k]) = {}
        BY <3>2 DEF Named, FirstMissing, MissingSlotNames
      <4>2. SlotName[k] \in Names
        BY <4>1, BundleSlotsAssumption, NamesAssumption
      <4> QED
        BY <1>0, <3>2, <4>1, <4>2, NewNameIsUnique DEF TypeOK
    <3> QED
      BY <1>5, <3>1, <3>2 DEF UndoFile
  <2>4. TypeOK'
    BY <1>0, <1>5, <2>2, <2>3 DEF UndoFile, TypeOK
  <2>5. CASE at < Len(undo.files)
    <3>1. at' = at + 1 /\ UNCHANGED <<phase, undo, bundle>>
      BY <1>5, <2>5 DEF UndoFile
    <3>2. at + 1 \in DOMAIN undo.files
      BY <2>1, <2>5 DEF RxrTypeOK
    <3> QED
      BY <2>1, <2>3, <2>4, <3>1, <3>2 DEF RxrTypeOK
  <2>6. CASE ~(at < Len(undo.files))
    <3>1. phase' = "none" /\ undo' = NoUndo /\ bundle' = bundle
      BY <1>5, <2>6 DEF UndoFile
    <3> QED
      BY <2>3, <2>4, <3>1, NoUndoIsTyped DEF RxrTypeOK
  <2> QED
    BY <2>5, <2>6
<1>6. CASE Others
  <2>1. TypeOK' /\ NamesUnique'
    BY <1>0, <1>6, EditIsNext, TypeOKStep, NamesUniqueStep DEF Others
  <2> QED
    BY <1>6, <2>1 DEF Others, RxrTypeOK
<1>7. CASE Reset
  <2>1. TypeOK' /\ NamesUnique'
    BY <1>0, <1>7, EditIsNext, TypeOKStep, NamesUniqueStep DEF Reset
  <2> QED
    BY <1>7, <2>1, NoUndoIsTyped DEF Reset, RxrTypeOK
<1>8. CASE UNCHANGED <<vars, rxrVars>>
  <2>1. TypeOK' /\ NamesUnique'
    BY <1>0, <1>8, TypeOKStep, NamesUniqueStep
  <2> QED
    BY <1>8, <2>1 DEF rxrVars, RxrTypeOK
<1> QED
  BY <1>1, <1>2, <1>3, <1>4, <1>5, <1>6, <1>7, <1>8 DEF RxrNext, Install, UndoLast

LEMMA RxrTypesInit == RxrInit => RxrTypeOK /\ NamesUnique
<1> SUFFICES ASSUME RxrInit PROVE RxrTypeOK /\ NamesUnique
  OBVIOUS
<1>1. TypeOK
  BY TypeOKInit DEF RxrInit
<1>2. NamesUnique
  BY NamesAssumption DEF RxrInit, Init, Fresh, NamesUnique
<1> QED
  BY <1>1, <1>2, NoUndoIsTyped DEF RxrInit, RxrTypeOK

\* An install and an undo of any bundle and any record of the right form never
\* look behind the end of either, and leave no two files with one name.
THEOREM RxrTyping == RxrSpec => [](RxrTypeOK /\ NamesUnique)
  BY RxrTypesInit, RxrTypesStep, PTL DEF RxrSpec

-----------------------------------------------------------------------------
(***************************************************************************)
(* That an install is whole or harmless is not inductive.  InstallInv      *)
(* follows what the two loops of rxr_install have done so far: the record  *)
(* and the files it does not name are together what there was              *)
(* (RecordTells), every slot a file may get has room for it (RoomForAll),  *)
(* and from the second loop on every file of the bundle has a slot and is  *)
(* in the record (AllCaptured).  The undo of a new file needs a name of a  *)
(* slot that no file has: there are as many of those names as there are    *)
(* slots for new files, because the fixed slots keep their own.            *)
(***************************************************************************)

\* The record tells what there was: each file at most once, none with the name
\* of a slot, and a new one as the empty slot it was.
RecordTells ==
  /\ \A i \in Slots : ~IsFree(i) /\ ~Captured(name[i]) => <<name[i], content[i]>> \in before
  /\ \A j \in DOMAIN undo.files :
       /\ undo.files[j].name \notin SlotNames
       /\ IF undo.files[j].created THEN undo.files[j].content = Nothing
          ELSE <<undo.files[j].name, undo.files[j].content>> \in before
  /\ \A f \in before :
       \/ \E i \in Slots : ~IsFree(i) /\ ~Captured(name[i]) /\ f = <<name[i], content[i]>>
       \/ \E j \in DOMAIN undo.files :
            ~undo.files[j].created /\ f = <<undo.files[j].name, undo.files[j].content>>

NameOf(k) == bundle.files[k].name
ContentOf(k) == bundle.files[k].content

\* The first loop: the files passed have slots and are in the record, which has
\* them as they are, and the others will have room in any slot they may get.
CapturedBefore(m) ==
  \A k \in DOMAIN bundle.files : k < m => Named(NameOf(k)) # {} /\ Captured(NameOf(k))

KeptAsTheyAre ==
  \A j \in DOMAIN undo.files :
    /\ Named(undo.files[j].name) # {}
    /\ \A i \in Named(undo.files[j].name) : content[i] = undo.files[j].content

RoomForAll ==
  \A k \in DOMAIN bundle.files, i \in Slots :
    i \in Named(NameOf(k)) \/ (Named(NameOf(k)) = {} /\ IsFree(i)) => Fits(ContentOf(k), i)

CaptureInv == CapturedBefore(at) /\ KeptAsTheyAre /\ RoomForAll

\* Every file of the bundle has a slot, which has been captured, and every file
\* of the record still has one.
AllCaptured ==
  /\ \A k \in DOMAIN bundle.files : Named(NameOf(k)) # {} /\ Captured(NameOf(k))
  /\ \A j \in DOMAIN undo.files : Named(undo.files[j].name) # {}

\* The last of the files before m with its name is what is in the slot.
WrittenBefore(m) ==
  \A k \in DOMAIN bundle.files :
    k < m /\ (\A l \in DOMAIN bundle.files : l < m /\ NameOf(l) = NameOf(k) => l <= k)
      => \E i \in Slots : name[i] = NameOf(k) /\ content[i] = ContentOf(k)

WriteInv ==
  /\ AllCaptured
  /\ \A k \in DOMAIN bundle.files : \A i \in Named(NameOf(k)) : Fits(ContentOf(k), i)
  /\ WrittenBefore(at)

\* The loop of the undo: a new file that was passed is gone, another is as it
\* was, and those to come are still there.
UndoneBefore(m) ==
  \A j \in DOMAIN undo.files :
    IF j < m /\ undo.files[j].created THEN Named(undo.files[j].name) = {}
    ELSE /\ Named(undo.files[j].name) # {}
         /\ j < m => \A i \in Named(undo.files[j].name) : content[i] = undo.files[j].content

FixedKeepNames == ~drifted => \A i \in Fixed : name[i] = Home[i]

RecordNames ==
  /\ \A j, l \in DOMAIN undo.files : undo.files[j].name = undo.files[l].name => j = l
  /\ ~drifted => \A j \in DOMAIN undo.files, i \in Fixed :
                   undo.files[j].created => undo.files[j].name # Home[i]

OutcomeFits ==
  /\ phase \in {"capture", "write"} => outcome = "none"
  /\ outcome \in {"failed", "undone"} => phase = "none" /\ undo.files = <<>>

Progress ==
  Ordinary /\ ~drifted =>
    /\ phase = "capture" => RecordTells /\ CaptureInv
    /\ phase = "write" => RecordTells /\ WriteInv
    /\ outcome = "installed" /\ phase = "none" =>
         RecordTells /\ AllCaptured /\ WrittenBefore(Len(bundle.files) + 1)
    /\ outcome = "installed" /\ phase = "undo" => RecordTells /\ UndoneBefore(at)
    /\ FailedInstallKeepsFiles
    /\ UndoRestores

InstallInv == FixedKeepNames /\ RecordNames /\ OutcomeFits /\ Progress

\* What obtaining a slot does to each slot, whichever way it goes.
LEMMA ObtainedSlot ==
  ASSUME TypeOK, NamesUnique, NEW n \in Names, Obtain(n)
  PROVE  /\ name' \in [Slots -> Names] /\ NamesUnique'
         /\ \A i \in Slots : name'[i] # name[i] => name'[i] = n /\ IsFree(i) /\ Named(n) = {}
         /\ \A i \in Obtained(n) : /\ i \in Slots /\ name'[i] = n
                                   /\ IF Named(n) = {} THEN IsFree(i) ELSE name[i] = n
         /\ Named(n) # {} => name' = name
<1>1. name' \in [Slots -> Names] /\ NamesUnique' /\ Obtained(n) \subseteq Slots
  BY ObtainedNames
<1>2. CASE Named(n) # {}
  <2>1. name' = name /\ Obtained(n) = Named(n)
    BY <1>2, Obtaining DEF Obtained
  <2> QED
    BY <1>1, <1>2, <2>1 DEF Named
<1>3. CASE Named(n) = {} /\ FirstFree = {}
  <2>1. name' = name /\ Obtained(n) = {}
    BY <1>3, Obtaining DEF Obtained
  <2> QED
    BY <1>1, <1>3, <2>1
<1>4. ASSUME Named(n) = {}, NEW f \in FirstFree, FirstFree = {f}, name' = [name EXCEPT ![f] = n]
      PROVE  /\ \A i \in Slots : name'[i] # name[i] => name'[i] = n /\ IsFree(i) /\ Named(n) = {}
             /\ \A i \in Obtained(n) : name'[i] = n /\ IsFree(i)
  <2>1. Obtained(n) = {f} /\ f \in Slots /\ IsFree(f)
    BY <1>4 DEF Obtained, FirstFree
  <2>2. name'[f] = n /\ \A i \in Slots : i # f => name'[i] = name[i]
    BY <1>4, <2>1 DEF TypeOK
  <2> QED
    BY <1>4, <2>1, <2>2
<1> QED
  BY <1>1, <1>2, <1>3, <1>4, Obtaining

\* The record with one more file.
LEMMA KeptFacts ==
  ASSUME RxrTypeOK, NEW n \in Names, NEW c \in Data, NEW b \in BOOLEAN, Keep(n, c, b)
  PROVE  \E m :
           /\ m \notin DOMAIN undo.files /\ DOMAIN undo'.files = DOMAIN undo.files \cup {m}
           /\ \A j \in DOMAIN undo.files : undo'.files[j] = undo.files[j]
           /\ undo'.files[m].name = n /\ undo'.files[m].content = c /\ (undo'.files[m].created <=> b)
           /\ \A x : Captured(x)' <=> Captured(x) \/ x = n
<1> DEFINE u == [name |-> n, content |-> c, created |-> b]
           m == Len(undo.files) + 1
<1>1. undo'.files = Append(undo.files, u) /\ undo.files \in Seq(Kept) /\ u \in Kept
  BY DEF Keep, RxrTypeOK, Kept
<1>2. /\ m \notin DOMAIN undo.files /\ DOMAIN undo'.files = DOMAIN undo.files \cup {m}
      /\ \A j \in DOMAIN undo.files : undo'.files[j] = undo.files[j]
      /\ undo'.files[m] = u
  BY <1>1
<1>3. \A x : Captured(x)' <=> Captured(x) \/ x = n
  BY <1>2 DEF Captured
<1> HIDE DEF m
<1> QED
  BY <1>2, <1>3

\* In an undo, a file that was new is no fixed one.
LEMMA UndoneSlots ==
  ASSUME RxrTypeOK, NamesUnique, UndoFile
  PROVE  /\ at \in DOMAIN undo.files
         /\ \A i \in Slots : name'[i] # name[i] =>
              /\ undo.files[at].created /\ name[i] = undo.files[at].name
              /\ undo.files[at].content = Nothing
<1> DEFINE u == undo.files[at]
<1>1. at \in DOMAIN undo.files
  BY DEF UndoFile, RxrTypeOK
<1>2. u.content \in Data
  BY <1>1, KeptFile
<1>3. CASE name' = name
  BY <1>1, <1>3
<1>4. ASSUME u.created, Size[u.content] = 0, NEW i \in Named(u.name), NEW k \in FirstMissing,
             name' = [name EXCEPT ![i] = SlotName[k]]
      PROVE  \A j \in Slots : name'[j] # name[j] => name[j] = u.name /\ u.content = Nothing
  <2>1. u.content = Nothing
    BY <1>2, <1>4, DataAssumption
  <2>2. i \in Slots /\ name[i] = u.name
    BY <1>4 DEF Named
  <2>3. \A j \in Slots : j # i => name'[j] = name[j]
    BY <1>4, <2>2 DEF RxrTypeOK, TypeOK
  <2> QED
    BY <2>1, <2>2, <2>3
<1> QED
  BY <1>1, <1>3, <1>4 DEF UndoFile

LEMMA FixedKeepNamesStep ==
  ASSUME RxrTypeOK, NamesUnique, FixedKeepNames, RecordNames, [RxrNext]_<<vars, rxrVars>>
  PROVE  FixedKeepNames'
<1>0. TypeOK
  BY DEF RxrTypeOK
<1> SUFFICES ASSUME ~drifted', NEW i \in Fixed PROVE name'[i] = Home[i]
  BY DEF FixedKeepNames, Fixed
<1>1. i \in Slots /\ Home[i] \notin SlotNames
  BY DEF Fixed
<1>2. ASSUME ~drifted, name'[i] # name[i] => IsFree(i) PROVE name'[i] = Home[i]
  BY <1>1, <1>2 DEF FixedKeepNames, IsFree
<1>3. ASSUME NEW b \in Bundles, Begin(b) PROVE name'[i] = Home[i]
  BY <1>2, <1>3 DEF Begin, vars
<1>4. CASE CaptureFile
  <2>1. /\ bundle.files[at].name \in Names /\ Obtain(bundle.files[at].name)
        /\ drifted' = (drifted \/ Drifts(bundle.files[at].name))
    BY <1>4, BundleFile DEF CaptureFile
  <2> QED
    BY <1>0, <1>1, <1>2, <2>1, ObtainedSlot
<1>5. CASE WriteFile
  <2>1. /\ bundle.files[at].name \in Names /\ Obtain(bundle.files[at].name)
        /\ drifted' = (drifted \/ Drifts(bundle.files[at].name))
    BY <1>5, BundleFile DEF WriteFile
  <2> QED
    BY <1>0, <1>1, <1>2, <2>1, ObtainedSlot
<1>6. CASE BeginUndo
  BY <1>2, <1>6 DEF BeginUndo, vars
<1>7. CASE UndoFile
  <2>1. drifted' = drifted
    BY <1>7 DEF UndoFile
  <2>2. name[i] = Home[i]
    BY <2>1 DEF FixedKeepNames
  <2> QED
    BY <1>1, <1>7, <2>1, <2>2, UndoneSlots DEF RecordNames
<1>8. CASE Others
  <2>1. ASSUME NEW n \in Names, Create(n) PROVE name'[i] = Home[i]
    <3>1. PICK f \in FirstFree : name' = [name EXCEPT ![f] = n]
      BY <2>1 DEF Create
    <3>2. f \in Slots /\ IsFree(f)
      BY <3>1 DEF FirstFree
    <3>3. name'[i] # name[i] => IsFree(i)
      BY <1>0, <1>1, <3>1, <3>2 DEF TypeOK
    <3> QED
      BY <1>2, <2>1, <3>3 DEF Create
  <2>2. ASSUME NEW j \in Slots, NEW c \in Data, Write(j, c) PROVE name'[i] = Home[i]
    BY <1>2, <2>2 DEF Write
  <2>3. ASSUME NEW j \in Slots, NEW n \in Names, Rename(j, n) PROVE name'[i] = Home[i]
    <3>1. ~drifted /\ j \notin Fixed
      BY <2>3 DEF Rename
    <3>2. name'[i] = name[i]
      BY <1>0, <1>1, <2>3, <3>1 DEF Rename, TypeOK
    <3> QED
      BY <1>2, <3>1, <3>2
  <2> QED
    BY <1>8, <2>1, <2>2, <2>3 DEF Others, Edit
<1>9. CASE Reset
  BY <1>1, <1>9 DEF Reset, Boot
<1>10. CASE UNCHANGED <<vars, rxrVars>>
  BY <1>2, <1>10 DEF vars
<1> QED
  BY <1>3, <1>4, <1>5, <1>6, <1>7, <1>8, <1>9, <1>10 DEF RxrNext, Install, UndoLast

LEMMA RecordNamesStep ==
  ASSUME RxrTypeOK, NamesUnique, FixedKeepNames, RecordNames, [RxrNext]_<<vars, rxrVars>>
  PROVE  RecordNames'
<1>0. TypeOK
  BY DEF RxrTypeOK
<1>1. CASE undo' = NoUndo
  BY <1>1 DEF NoUndo, RecordNames
<1>2. ASSUME undo' = undo, drifted => drifted' PROVE RecordNames'
  BY <1>2 DEF RecordNames, Fixed
<1>3. ASSUME CaptureFile PROVE RecordNames'
  <2> DEFINE n == bundle.files[at].name
  <2>1. /\ n \in Names /\ Obtain(n) /\ drifted' = (drifted \/ Drifts(n))
    BY <1>3, BundleFile DEF CaptureFile
  <2>2. CASE Fail
    BY <1>1, <2>2 DEF Fail
  <2>3. CASE UNCHANGED undo
    BY <1>2, <2>1, <2>3
  <2>4. ASSUME NEW i \in Obtained(n), ~Captured(n), Keep(n, content[i], Named(n) = {}) PROVE RecordNames'
    <3>1. content[i] \in Data
      BY <1>0, <2>1, ObtainedSlot DEF TypeOK
    <3> DEFINE isNew == Named(n) = {}
    <3>2. isNew \in BOOLEAN /\ Keep(n, content[i], isNew)
      BY <2>4
    <3> HIDE DEF isNew
    <3>3. PICK m :
           /\ m \notin DOMAIN undo.files /\ DOMAIN undo'.files = DOMAIN undo.files \cup {m}
           /\ \A j \in DOMAIN undo.files : undo'.files[j] = undo.files[j]
           /\ undo'.files[m].name = n /\ (undo'.files[m].created <=> isNew)
      BY <2>1, <3>1, <3>2, KeptFacts
    <3>4. ~drifted' /\ isNew => \A f \in Fixed : n # Home[f]
      BY <2>1 DEF FixedKeepNames, Fixed, Named, isNew
    <3>5. \A j \in DOMAIN undo.files : undo.files[j].name # n
      BY <2>4 DEF Captured
    <3>6. \A j, l \in DOMAIN undo'.files : undo'.files[j].name = undo'.files[l].name => j = l
      BY <3>3, <3>5 DEF RecordNames
    <3>7. ASSUME ~drifted', NEW j \in DOMAIN undo'.files, NEW f \in Fixed, undo'.files[j].created
          PROVE  undo'.files[j].name # Home[f]
      <4>1. ~drifted
        BY <2>1, <3>7
      <4>2. CASE j = m
        BY <3>3, <3>4, <3>7, <4>2
      <4>3. CASE j \in DOMAIN undo.files
        BY <3>3, <3>7, <4>1, <4>3 DEF RecordNames
      <4> QED
        BY <3>3, <4>2, <4>3
    <3> QED
      BY <3>6, <3>7 DEF RecordNames, Fixed
  <2> QED
    BY <1>3, <2>2, <2>3, <2>4 DEF CaptureFile
<1>4. CASE WriteFile
  <2>1. undo' = NoUndo \/ (undo' = undo /\ (drifted => drifted'))
    BY <1>4 DEF WriteFile, Fail
  <2> QED
    BY <1>1, <1>2, <2>1
<1>5. CASE UndoFile
  BY <1>1, <1>2, <1>5 DEF UndoFile
<1>6. CASE Others
  <2>1. undo' = undo
    BY <1>6 DEF Others
  <2>2. drifted => drifted'
    BY <1>6 DEF Others, Edit, Create, Write, Rename
  <2> QED
    BY <1>2, <2>1, <2>2
<1>7. ASSUME NEW b \in Bundles, Begin(b) PROVE RecordNames'
  BY <1>1, <1>7 DEF Begin
<1>8. CASE BeginUndo
  BY <1>2, <1>8 DEF BeginUndo, vars
<1>9. CASE Reset
  BY <1>1, <1>9 DEF Reset
<1>10. CASE UNCHANGED <<vars, rxrVars>>
  BY <1>2, <1>10 DEF vars, rxrVars
<1> QED
  BY <1>3, <1>4, <1>5, <1>6, <1>7, <1>8, <1>9, <1>10 DEF RxrNext, Install, UndoLast

LEMMA OutcomeFitsStep ==
  ASSUME RxrTypeOK, OutcomeFits, [RxrNext]_<<vars, rxrVars>>
  PROVE  OutcomeFits'
<1>1. ASSUME NEW b \in Bundles, Begin(b) PROVE OutcomeFits'
  BY <1>1 DEF Begin, OutcomeFits
<1>2. CASE Advance /\ phase \in {"capture", "write"}
  BY <1>2 DEF Advance, OutcomeFits
<1>3. CASE Fail
  BY <1>3 DEF Fail, OutcomeFits, NoUndo
<1>4. CASE BeginUndo
  BY <1>4 DEF BeginUndo, OutcomeFits, RxrTypeOK
<1>5. CASE UndoFile
  BY <1>5 DEF UndoFile, OutcomeFits, NoUndo
<1>6. CASE Others
  BY <1>6 DEF Others, OutcomeFits
<1>7. CASE Reset
  BY <1>7 DEF Reset, OutcomeFits
<1>8. CASE UNCHANGED <<vars, rxrVars>>
  BY <1>8 DEF rxrVars, OutcomeFits
<1>9. CASE CaptureFile
  BY <1>2, <1>3, <1>9 DEF CaptureFile
<1>10. CASE WriteFile
  BY <1>2, <1>3, <1>10 DEF WriteFile
<1> QED
  BY <1>1, <1>4, <1>5, <1>6, <1>7, <1>8, <1>9, <1>10 DEF RxrNext, Install, UndoLast

\* A file that is in the table under its name is not a free slot.
LEMMA NamedIsNotFree ==
  ASSUME NEW i \in Slots, name[i] \notin SlotNames
  PROVE  ~IsFree(i)
BY DEF IsFree

\* An install that gives up in its first loop has changed no file.
LEMMA GivingUp ==
  ASSUME RxrTypeOK, RecordTells, KeptAsTheyAre, NEW n, n \notin SlotNames, content' = content,
         \A i \in Slots : name'[i] # name[i] => name'[i] = n /\ IsFree(i)
  PROVE  before \subseteq Files' /\ \A f \in Files' \ before : f[2] = Nothing
<1>1. ASSUME NEW i \in Slots, ~IsFree(i) PROVE <<name[i], content[i]>> \in Files'
  BY <1>1 DEF Files, IsFree
<1>2. ASSUME NEW j \in DOMAIN undo.files, NEW i \in Named(undo.files[j].name)
      PROVE  /\ i \in Slots /\ ~IsFree(i)
             /\ name[i] = undo.files[j].name /\ content[i] = undo.files[j].content
  BY <1>2, NamedIsNotFree DEF RecordTells, KeptAsTheyAre, Named
<1>3. ASSUME NEW f \in before PROVE f \in Files'
  <2>1. CASE \E i \in Slots : ~IsFree(i) /\ f = <<name[i], content[i]>>
    BY <1>1, <2>1
  <2>2. ASSUME NEW j \in DOMAIN undo.files, f = <<undo.files[j].name, undo.files[j].content>>
        PROVE  f \in Files'
    <3>1. PICK i \in Named(undo.files[j].name) : TRUE
      BY DEF KeptAsTheyAre
    <3> QED
      BY <1>1, <1>2, <2>2, <3>1
  <2> QED
    BY <2>1, <2>2 DEF RecordTells
<1>4. ASSUME NEW f \in Files', f \notin before PROVE f[2] = Nothing
  <2>1. PICK i \in Slots : f = <<name'[i], content[i]>> /\ ~IsFree(i)'
    BY <1>4 DEF Files
  <2>2. CASE name'[i] # name[i]
    BY <2>1, <2>2 DEF IsFree
  <2>3. CASE name'[i] = name[i]
    <3>1. ~IsFree(i) /\ f = <<name[i], content[i]>>
      BY <2>1, <2>3 DEF IsFree
    <3>2. Captured(name[i])
      BY <1>4, <3>1 DEF RecordTells
    <3>3. PICK j \in DOMAIN undo.files : undo.files[j].name = name[i]
      BY <3>2 DEF Captured
    <3>4. content[i] = undo.files[j].content
      BY <3>3 DEF KeptAsTheyAre, Named
    <3>5. content[i] = Nothing
      BY <1>4, <3>1, <3>3, <3>4 DEF RecordTells
    <3> QED
      BY <3>1, <3>5
  <2> QED
    BY <2>2, <2>3
<1> QED
  BY <1>3, <1>4

\* A file that is kept is what has to be there again, and the table still is.
LEMMA Capturing ==
  ASSUME RxrTypeOK, NamesUnique, RecordTells, CaptureInv, phase = "capture", Ordinary,
         NEW n \in Names, n = NameOf(at), Obtain(n),
         NEW i \in Obtained(n), ~Captured(n), NEW isNew \in BOOLEAN, isNew <=> Named(n) = {},
         Keep(n, content[i], isNew),
         content' = content, before' = before, bundle' = bundle
  PROVE  /\ RecordTells' /\ KeptAsTheyAre' /\ RoomForAll'
         /\ \A k \in DOMAIN bundle.files, x \in Names :
              k < at + 1 /\ x = NameOf(k) => Named(x)' # {} /\ Captured(x)'
<1>0. TypeOK
  BY DEF RxrTypeOK
<1>1. n \notin SlotNames /\ at \in DOMAIN bundle.files
  BY DEF Ordinary, RxrTypeOK, NameOf
<1>2. /\ name' \in [Slots -> Names] /\ NamesUnique'
      /\ \A s \in Slots : name'[s] # name[s] => name'[s] = n /\ IsFree(s) /\ Named(n) = {}
      /\ i \in Slots /\ name'[i] = n /\ (isNew => IsFree(i)) /\ (~isNew => name[i] = n)
  BY <1>0, ObtainedSlot
<1>3. content[i] \in Data
  BY <1>0, <1>2 DEF TypeOK
<1>4. PICK m :
        /\ m \notin DOMAIN undo.files /\ DOMAIN undo'.files = DOMAIN undo.files \cup {m}
        /\ \A j \in DOMAIN undo.files : undo'.files[j] = undo.files[j]
        /\ undo'.files[m].name = n /\ undo'.files[m].content = content[i]
        /\ (undo'.files[m].created <=> isNew)
        /\ \A x : Captured(x)' <=> Captured(x) \/ x = n
  BY <1>3, KeptFacts
\* a slot that has a name of the table keeps it
<1>5. \A s \in Slots : ~IsFree(s) \/ name[s] \notin SlotNames => name'[s] = name[s]
  BY <1>2 DEF IsFree
<1>6. \A s \in Slots : name'[s] = name[s] => (IsFree(s)' <=> IsFree(s))
  BY DEF IsFree
<1>7. RecordTells'
  <2>1. ASSUME NEW s \in Slots, ~IsFree(s)', ~Captured(name[s])' PROVE <<name'[s], content'[s]>> \in before'
    <3>1. name'[s] # n /\ ~Captured(name'[s])
      BY <1>4, <2>1 DEF Captured
    <3>2. name'[s] = name[s] /\ ~IsFree(s) /\ ~Captured(name[s])
      BY <1>2, <1>6, <2>1, <3>1
    <3> QED
      BY <3>2 DEF RecordTells
  <2>2. ~isNew => <<n, content[i]>> \in before
    <3> SUFFICES ASSUME ~isNew PROVE <<n, content[i]>> \in before
      OBVIOUS
    <3>1. name[i] = n /\ ~IsFree(i)
      BY <1>1, <1>2, NamedIsNotFree
    <3> QED
      BY <1>2, <3>1 DEF RecordTells
  <2>3. isNew => content[i] = Nothing
    BY <1>2 DEF IsFree
  <2>4. ASSUME NEW j \in DOMAIN undo'.files
        PROVE  /\ undo'.files[j].name \notin SlotNames
               /\ IF undo'.files[j].created THEN undo'.files[j].content = Nothing
                  ELSE <<undo'.files[j].name, undo'.files[j].content>> \in before'
    <3>1. CASE j = m
      BY <1>1, <1>4, <2>2, <2>3, <3>1
    <3>2. CASE j \in DOMAIN undo.files
      BY <1>4, <3>2 DEF RecordTells
    <3> QED
      BY <1>4, <3>1, <3>2
  <2>5. ASSUME NEW f \in before'
        PROVE  \/ \E s \in Slots : ~IsFree(s)' /\ ~Captured(name[s])' /\ f = <<name'[s], content'[s]>>
               \/ \E j \in DOMAIN undo'.files :
                    ~undo'.files[j].created /\ f = <<undo'.files[j].name, undo'.files[j].content>>
    <3>1. ASSUME NEW s \in Slots, ~IsFree(s), ~Captured(name[s]), f = <<name[s], content[s]>>, name[s] # n
          PROVE  \E t \in Slots : ~IsFree(t)' /\ ~Captured(name[t])' /\ f = <<name'[t], content'[t]>>
      <4>1. name'[s] = name[s] /\ ~IsFree(s)' /\ ~Captured(name[s])'
        BY <1>4, <1>5, <1>6, <3>1 DEF Captured
      <4> QED
        BY <3>1, <4>1
    <3>2. ASSUME NEW s \in Slots, f = <<name[s], content[s]>>, name[s] = n
          PROVE  m \in DOMAIN undo'.files /\ ~undo'.files[m].created
                 /\ f = <<undo'.files[m].name, undo'.files[m].content>>
      <4>1. ~isNew /\ name[i] = n
        BY <1>2, <3>2 DEF Named
      <4>2. s = i
        BY <1>2, <3>2, <4>1 DEF NamesUnique
      <4> QED
        BY <1>4, <3>2, <4>1, <4>2
    <3>3. ASSUME NEW j \in DOMAIN undo.files, ~undo.files[j].created,
                 f = <<undo.files[j].name, undo.files[j].content>>
          PROVE  j \in DOMAIN undo'.files /\ ~undo'.files[j].created
                 /\ f = <<undo'.files[j].name, undo'.files[j].content>>
      BY <1>4, <3>3
    <3>4. \/ \E s \in Slots : ~IsFree(s) /\ ~Captured(name[s]) /\ f = <<name[s], content[s]>>
          \/ \E j \in DOMAIN undo.files :
               ~undo.files[j].created /\ f = <<undo.files[j].name, undo.files[j].content>>
      BY <2>5 DEF RecordTells
    <3> QED
      BY <3>1, <3>2, <3>3, <3>4
  <2> QED
    BY <2>1, <2>4, <2>5 DEF RecordTells
<1>8. KeptAsTheyAre'
  <2> SUFFICES ASSUME NEW j \in DOMAIN undo'.files, NEW x, x = undo'.files[j].name
               PROVE  Named(x)' # {} /\ \A s \in Named(x)' : content'[s] = undo'.files[j].content
    BY DEF KeptAsTheyAre
  <2>1. CASE j = m
    <3>1. i \in Named(x)'
      BY <1>2, <1>4, <2>1 DEF Named
    <3>2. \A s \in Named(x)' : s = i
      BY <1>2, <1>4, <2>1 DEF Named, NamesUnique
    <3> QED
      BY <1>4, <2>1, <3>1, <3>2
  <2>2. CASE j \in DOMAIN undo.files
    <3>1. x = undo.files[j].name /\ x \notin SlotNames /\ x # n
      BY <1>4, <2>2 DEF RecordTells, Captured
    <3>2. Named(x) # {} /\ \A s \in Named(x) : content[s] = undo.files[j].content
      BY <2>2, <3>1 DEF CaptureInv, KeptAsTheyAre
    <3>3. \A s \in Named(x) : s \in Named(x)'
      BY <1>5, <3>1 DEF Named
    <3>4. \A s \in Named(x)' : s \in Named(x)
      BY <1>2, <3>1 DEF Named
    <3> QED
      BY <1>4, <2>2, <3>2, <3>3, <3>4
  <2> QED
    BY <1>4, <2>1, <2>2
<1>9. RoomForAll'
  <2> SUFFICES ASSUME NEW k \in DOMAIN bundle.files, NEW s \in Slots, NEW x, x = NameOf(k),
                      s \in Named(x)' \/ (Named(x)' = {} /\ IsFree(s)')
               PROVE  Fits(ContentOf(k), s)
    BY DEF RoomForAll, Fits, NameOf, ContentOf
  <2>1. x \notin SlotNames
    BY DEF Ordinary, NameOf
  <2>2. CASE name'[s] # name[s]
    BY <1>1, <1>2, <2>1, <2>2 DEF CaptureInv, RoomForAll, Named, IsFree
  <2>3. CASE name'[s] = name[s] /\ s \in Named(x)'
    BY <2>3 DEF CaptureInv, RoomForAll, Named
  <2>4. CASE name'[s] = name[s] /\ Named(x)' = {} /\ IsFree(s)'
    <3>1. Named(x) = {}
      BY <1>5, <2>1, <2>4 DEF Named
    <3> QED
      BY <1>6, <2>4, <3>1 DEF CaptureInv, RoomForAll
  <2> QED
    BY <2>2, <2>3, <2>4
<1>10. ASSUME NEW k \in DOMAIN bundle.files, NEW x \in Names, k < at + 1, x = NameOf(k)
       PROVE  Named(x)' # {} /\ Captured(x)'
  <2>1. CASE k = at
    BY <1>2, <1>4, <1>10, <2>1 DEF Named
  <2>2. CASE k < at
    <3>1. x \notin SlotNames /\ Named(x) # {} /\ Captured(x)
      BY <1>10, <2>2 DEF Ordinary, CaptureInv, CapturedBefore, NameOf
    <3>2. \A s \in Named(x) : s \in Named(x)'
      BY <1>5, <3>1 DEF Named
    <3> QED
      BY <1>4, <3>1, <3>2
  <2>3. k = at \/ k < at
    BY <1>1, <1>10 DEF RxrTypeOK, BundleFiles
  <2> QED
    BY <2>1, <2>2, <2>3
<1> QED
  BY <1>7, <1>8, <1>9, <1>10

\* What the first loop leaves to the next round, or to the second loop.
LEMMA AfterCapturing ==
  ASSUME RxrTypeOK, phase = "capture", Ordinary, Advance,
         RecordTells', KeptAsTheyAre', RoomForAll',
         \A k \in DOMAIN bundle.files, x \in Names :
           k < at + 1 /\ x = NameOf(k) => Named(x)' # {} /\ Captured(x)'
  PROVE  Progress'
<1>1. /\ at \in DOMAIN bundle.files /\ bundle' = bundle /\ before' = before
      /\ DOMAIN bundle.files = 1 .. Len(bundle.files) /\ Len(bundle.files) \in Nat
  BY DEF RxrTypeOK, BundleFiles, Advance
<1>2. outcome' = "none"
  BY DEF Advance
<1>3. \A k \in DOMAIN bundle.files : NameOf(k) \in Names
  <2> SUFFICES ASSUME NEW k \in DOMAIN bundle.files PROVE bundle.files[k].name \in Names
    BY DEF NameOf
  <2>1. bundle.files[k] \in [name : Names, content : Data]
    BY ElementOf DEF RxrTypeOK, BundleFiles
  <2> QED
    BY <2>1
<1>4. ASSUME NEW k \in DOMAIN bundle.files, NEW x, x = NameOf(k), k < at + 1
      PROVE  Named(x)' # {} /\ Captured(x)'
  BY <1>3, <1>4
<1>5. CASE at < Len(bundle.files)
  <2>1. phase' = "capture" /\ at' = at + 1
    BY <1>5 DEF Advance
  <2>2. CapturedBefore(at)'
    BY <1>1, <1>4, <2>1 DEF CapturedBefore, NameOf
  <2> QED
    BY <1>2, <2>1, <2>2 DEF Progress, CaptureInv, FailedInstallKeepsFiles, UndoRestores
<1>6. CASE ~(at < Len(bundle.files))
  <2>1. phase' = "write" /\ at' = 1 /\ at = Len(bundle.files)
    BY <1>1, <1>6 DEF Advance
  <2>2. \A k \in DOMAIN bundle.files : k < at + 1 /\ ~(k < 1)
    BY <1>1, <2>1
  <2>3. AllCaptured'
    BY <1>1, <1>4, <2>2 DEF AllCaptured, KeptAsTheyAre, NameOf
  <2>4. (\A k \in DOMAIN bundle.files : \A i \in Named(NameOf(k)) : Fits(ContentOf(k), i))'
    BY DEF RoomForAll, Named
  <2>5. WrittenBefore(at)'
    BY <1>1, <2>1, <2>2 DEF WrittenBefore
  <2> QED
    BY <1>2, <2>1, <2>3, <2>4, <2>5 DEF Progress, WriteInv, FailedInstallKeepsFiles, UndoRestores
<1> QED
  BY <1>5, <1>6

LEMMA CaptureProgress == RxrTypeOK /\ NamesUnique /\ InstallInv /\ CaptureFile => Progress'
<1> SUFFICES ASSUME RxrTypeOK, NamesUnique, InstallInv, CaptureFile, Ordinary', ~drifted'
             PROVE  Progress'
  BY DEF Progress
<1> DEFINE n == NameOf(at)
<1>1. /\ bundle' = bundle /\ before' = before /\ content' = content
      /\ ~drifted /\ phase = "capture"
  BY DEF CaptureFile, Fail, Advance
<1>2. Ordinary /\ RecordTells /\ CaptureInv
  BY <1>1 DEF Ordinary, InstallInv, Progress
<1>3. n \in Names /\ Obtain(n) /\ at \in DOMAIN bundle.files /\ n \notin SlotNames
  BY <1>1, <1>2, BundleFile DEF CaptureFile, NameOf, Ordinary, RxrTypeOK
<1>4. /\ \A s \in Slots : name'[s] # name[s] => name'[s] = n /\ IsFree(s) /\ Named(n) = {}
      /\ Named(n) # {} => name' = name
  BY <1>3, ObtainedSlot DEF RxrTypeOK
<1>5. CASE Fail
  <2>1. before' \subseteq Files' /\ \A f \in Files' \ before' : f[2] = Nothing
    BY <1>1, <1>2, <1>3, <1>4, GivingUp DEF CaptureInv
  <2>2. phase' = "none" /\ outcome' = "failed"
    BY <1>5 DEF Fail
  <2> QED
    BY <2>1, <2>2 DEF Progress, FailedInstallKeepsFiles, UndoRestores
<1>6. ASSUME Captured(n), Advance, UNCHANGED undo PROVE Progress'
  <2>1. PICK j \in DOMAIN undo.files : undo.files[j].name = n
    BY <1>6 DEF Captured
  <2>2. Named(n) # {} /\ name' = name
    BY <1>2, <1>4, <2>1 DEF CaptureInv, KeptAsTheyAre
  <2>3. undo' = undo
    BY <1>6
  <2>4. RecordTells'
    BY <1>1, <1>2, <2>2, <2>3 DEF RecordTells, IsFree, Captured
  <2>5. KeptAsTheyAre' /\ RoomForAll'
    BY <1>1, <1>2, <2>2, <2>3 DEF CaptureInv, KeptAsTheyAre, RoomForAll, Named, IsFree, Fits, NameOf, ContentOf
  <2>6. ASSUME NEW k \in DOMAIN bundle.files, NEW x \in Names, k < at + 1, x = NameOf(k)
        PROVE  Named(x)' # {} /\ Captured(x)'
    <3>1. Named(x)' = Named(x) /\ (Captured(x)' <=> Captured(x))
      BY <2>2, <2>3 DEF Named, Captured
    <3>2. k = at \/ k < at
      BY <1>3, <2>6 DEF RxrTypeOK, BundleFiles
    <3> QED
      BY <1>2, <1>6, <2>2, <2>6, <3>1, <3>2 DEF CaptureInv, CapturedBefore
  <2> QED
    BY <1>1, <1>2, <1>6, <2>4, <2>5, <2>6, AfterCapturing
<1>7. ASSUME NEW i \in Obtained(n), ~Captured(n), Keep(n, content[i], Named(n) = {}), Advance
      PROVE  Progress'
  <2> DEFINE isNew == Named(n) = {}
  <2>1. isNew \in BOOLEAN /\ (isNew <=> Named(n) = {}) /\ Keep(n, content[i], isNew)
    BY <1>7
  <2> HIDE DEF isNew, n
  <2>2. n = NameOf(at)
    BY DEF n
  <2>3. /\ RecordTells' /\ KeptAsTheyAre' /\ RoomForAll'
        /\ \A k \in DOMAIN bundle.files, x \in Names :
             k < at + 1 /\ x = NameOf(k) => Named(x)' # {} /\ Captured(x)'
    BY <1>1, <1>2, <1>3, <1>7, <2>1, <2>2, Capturing
  <2> QED
    BY <1>1, <1>2, <1>7, <2>3, AfterCapturing
<1> QED
  BY <1>5, <1>6, <1>7 DEF CaptureFile, NameOf

\* A bundle that rxr_verify passes has room in any free slot for each new file.
LEMMA BeginProgress ==
  ASSUME RxrTypeOK, NamesUnique, InstallInv, NEW b \in Bundles, Begin(b)
  PROVE  Progress'
<1> SUFFICES ASSUME Ordinary', ~drifted' PROVE Progress'
  BY DEF Progress
<1>1. /\ bundle' = b /\ before' = Files /\ phase' = "capture" /\ at' = 1 /\ undo' = NoUndo
      /\ outcome' = "none" /\ Verifies(b)
      /\ name' = name /\ content' = content /\ ~drifted
  BY DEF Begin, vars
<1>2. DOMAIN undo'.files = {}
  BY <1>1 DEF NoUndo
<1>3. /\ b.ends = Len(b.files) /\ DOMAIN b.files = 1 .. b.ends /\ b.ends \in Nat
      /\ \A k \in DOMAIN b.files : ~(k < 1)
  BY <1>1, BundlesAssumption DEF Ordinary, BundleFiles
<1>4. RecordTells'
  BY <1>1, <1>2 DEF RecordTells, Files, Captured, IsFree
<1>5. CapturedBefore(at)' /\ KeptAsTheyAre'
  BY <1>1, <1>2, <1>3 DEF CapturedBefore, KeptAsTheyAre
<1>6. RoomForAll'
  <2> SUFFICES ASSUME NEW k \in DOMAIN b.files, NEW i \in Slots, NEW n, n = b.files[k].name,
                      NEW c, c = b.files[k].content,
                      i \in Named(n) \/ (Named(n) = {} /\ IsFree(i))
               PROVE  Size[c] <= Cap[i]
    BY <1>1 DEF RoomForAll, NameOf, ContentOf, Fits, Named, IsFree
  <2>1. Size[c] <= CapacityFor(n) /\ (Named(n) # {} \/ FirstFree # {})
    BY <1>1, <1>3 DEF Verifies
  <2>2. CASE i \in Named(n)
    <3>1. Named(n) = {i}
      BY <2>2 DEF Named, NamesUnique
    <3>2. CapacityFor(n) = Cap[i]
      BY <3>1 DEF CapacityFor
    <3> QED
      BY <2>1, <3>2
  <2>3. CASE Named(n) = {} /\ IsFree(i)
    <3>1. PICK f \in FirstFree : CapacityFor(n) = Cap[f]
      BY <2>1, <2>3 DEF CapacityFor
    <3>2. f \in Slots /\ IsFree(f)
      BY <3>1 DEF FirstFree
    <3>3. i \notin Fixed /\ f \notin Fixed
      BY <1>1, <2>3, <3>2 DEF InstallInv, FixedKeepNames, Fixed, IsFree
    <3>4. Cap[i] = Cap[f]
      BY <3>2, <3>3, BundleSlotsAssumption
    <3> QED
      BY <2>1, <3>1, <3>4
  <2> QED
    BY <2>2, <2>3
<1> QED
  BY <1>1, <1>4, <1>5, <1>6 DEF Progress, CaptureInv, FailedInstallKeepsFiles, UndoRestores

\* Every write of the second loop goes to the slot the first one found.
LEMMA WriteProgress == RxrTypeOK /\ NamesUnique /\ InstallInv /\ WriteFile => Progress'
<1> SUFFICES ASSUME RxrTypeOK, NamesUnique, InstallInv, WriteFile, Ordinary', ~drifted'
             PROVE  Progress'
  BY DEF Progress
<1> DEFINE n == NameOf(at)
<1>1. /\ bundle' = bundle /\ before' = before /\ ~drifted /\ phase = "write"
  BY DEF WriteFile, Fail, Advance
<1>2. Ordinary /\ RecordTells /\ WriteInv
  BY <1>1 DEF Ordinary, InstallInv, Progress
<1>3. /\ n \in Names /\ Obtain(n) /\ at \in DOMAIN bundle.files /\ n \notin SlotNames
      /\ at \in 1 .. Len(bundle.files) /\ Len(bundle.files) \in Nat
      /\ DOMAIN bundle.files = 1 .. Len(bundle.files)
  BY <1>1, <1>2, BundleFile DEF WriteFile, NameOf, Ordinary, RxrTypeOK, BundleFiles
<1>4. Named(n) # {} /\ Captured(n) /\ \A i \in Named(n) : Fits(ContentOf(at), i)
  BY <1>2, <1>3 DEF WriteInv, AllCaptured
<1>5. PICK i \in Slots : name[i] = n /\ Named(n) = {i} /\ Obtained(n) = {i}
  BY <1>4 DEF Named, NamesUnique, Obtained
<1>6. name' = name
  BY <1>3, <1>4, ObtainedSlot DEF RxrTypeOK
<1>7. /\ content' = [s \in Slots |-> IF s = i THEN ContentOf(at) ELSE content[s]]
      /\ Advance /\ undo' = undo
  BY <1>4, <1>5 DEF WriteFile, NameOf, ContentOf
<1>8. \A s \in Slots : s # i => content'[s] = content[s] /\ name[s] # n
  BY <1>5, <1>7 DEF NamesUnique
<1>9. \A s \in Slots : IsFree(s)' <=> IsFree(s)
  BY <1>3, <1>5, <1>6, <1>8 DEF IsFree
<1>10. RecordTells'
  <2>1. \A x : Captured(x)' <=> Captured(x)
    BY <1>7 DEF Captured
  <2>2. Captured(name[i])
    BY <1>4, <1>5
  <2>3. \A s \in Slots : ~Captured(name[s]) => s # i /\ content'[s] = content[s]
    BY <1>8, <2>2
  <2>4. \A s \in Slots : Captured(name[s])' <=> Captured(name[s])
    BY <1>6, <1>7 DEF Captured
  <2>5. ASSUME NEW s \in Slots, ~IsFree(s)', ~Captured(name[s])'
        PROVE  <<name'[s], content'[s]>> \in before'
    BY <1>1, <1>2, <1>6, <1>9, <2>3, <2>4, <2>5 DEF RecordTells
  <2>6. ASSUME NEW f \in before'
        PROVE  \/ \E s \in Slots : ~IsFree(s)' /\ ~Captured(name[s])' /\ f = <<name'[s], content'[s]>>
               \/ \E j \in DOMAIN undo.files :
                    ~undo.files[j].created /\ f = <<undo.files[j].name, undo.files[j].content>>
    <3>1. ASSUME NEW s \in Slots, ~IsFree(s), ~Captured(name[s]), f = <<name[s], content[s]>>
          PROVE  ~IsFree(s)' /\ ~Captured(name[s])' /\ f = <<name'[s], content'[s]>>
      BY <1>6, <1>9, <2>3, <2>4, <3>1
    <3> QED
      BY <1>1, <1>2, <3>1 DEF RecordTells
  <2> QED
    BY <1>1, <1>2, <1>7, <2>5, <2>6 DEF RecordTells
<1>11. AllCaptured'
  BY <1>1, <1>2, <1>6, <1>7 DEF WriteInv, AllCaptured, Named, Captured, NameOf
<1>12. (\A k \in DOMAIN bundle.files : \A s \in Named(NameOf(k)) : Fits(ContentOf(k), s))'
  BY <1>1, <1>2, <1>6 DEF WriteInv, Named, NameOf, ContentOf, Fits
\* the file just written, and those before it that have another name
<1>13. ASSUME NEW k \in DOMAIN bundle.files, k < at + 1,
              \A l \in DOMAIN bundle.files : l < at + 1 /\ NameOf(l) = NameOf(k) => l <= k
       PROVE  \E s \in Slots : name'[s] = NameOf(k) /\ content'[s] = ContentOf(k)
  <2>1. at < at + 1 /\ (k = at \/ k < at) /\ \A l \in DOMAIN bundle.files : l < at => l < at + 1
    BY <1>3, <1>13
  <2>2. CASE NameOf(k) = n
    <3>1. at <= k
      BY <1>3, <1>13, <2>1, <2>2
    <3>2. k = at
      BY <1>3, <2>1, <3>1
    <3> QED
      BY <1>5, <1>6, <1>7, <3>2
  <2>3. CASE NameOf(k) # n
    <3>1. k < at
      BY <2>1, <2>3
    <3>2. PICK s \in Slots : name[s] = NameOf(k) /\ content[s] = ContentOf(k)
      BY <1>2, <1>13, <2>1, <3>1 DEF WriteInv, WrittenBefore
    <3>3. s # i
      BY <1>5, <2>3, <3>2
    <3> QED
      BY <1>6, <1>8, <3>2, <3>3
  <2> QED
    BY <2>2, <2>3
<1>14. CASE at < Len(bundle.files)
  <2>1. phase' = "write" /\ at' = at + 1 /\ outcome' = "none"
    BY <1>1, <1>3, <1>7, <1>14 DEF Advance
  <2>2. WrittenBefore(at)'
    BY <1>1, <1>13, <2>1 DEF WrittenBefore, NameOf, ContentOf
  <2> QED
    BY <1>10, <1>11, <1>12, <2>1, <2>2 DEF Progress, WriteInv, FailedInstallKeepsFiles, UndoRestores
<1>15. CASE ~(at < Len(bundle.files))
  <2>1. phase' = "none" /\ outcome' = "installed" /\ at = Len(bundle.files)
    BY <1>1, <1>3, <1>7, <1>15 DEF Advance
  <2>2. WrittenBefore(Len(bundle.files) + 1)'
    BY <1>1, <1>13, <2>1 DEF WrittenBefore, NameOf, ContentOf
  <2> QED
    BY <1>10, <1>11, <2>1, <2>2 DEF Progress, FailedInstallKeepsFiles, UndoRestores
<1> QED
  BY <1>14, <1>15

LEMMA BeginUndoProgress == RxrTypeOK /\ InstallInv /\ BeginUndo => Progress'
<1> SUFFICES ASSUME RxrTypeOK, InstallInv, BeginUndo, Ordinary', ~drifted'
             PROVE  Progress'
  BY DEF Progress
<1>1. /\ UNCHANGED <<name, content, drifted, bundle, undo, before, outcome>>
      /\ phase = "none" /\ phase' = "undo" /\ at' = 1 /\ undo.files # <<>>
  BY DEF BeginUndo, vars
<1>2. outcome \notin {"failed", "undone"}
  BY <1>1 DEF InstallInv, OutcomeFits
<1>3. CASE outcome = "installed"
  <2>1. RecordTells /\ AllCaptured
    BY <1>1, <1>3 DEF InstallInv, Progress, Ordinary
  <2>2. RecordTells'
    BY <1>1, <2>1 DEF RecordTells, IsFree, Captured
  <2>3. \A j \in DOMAIN undo.files : ~(j < 1)
    BY DEF RxrTypeOK
  <2>4. UndoneBefore(at)'
    BY <1>1, <2>1, <2>3 DEF UndoneBefore, AllCaptured, Named
  <2> QED
    BY <1>1, <1>2, <2>2, <2>4 DEF Progress, FailedInstallKeepsFiles, UndoRestores
<1> QED
  BY <1>1, <1>2, <1>3 DEF Progress, FailedInstallKeepsFiles, UndoRestores

\* As long as the fixed slots keep their names, a slot that has the name of a new
\* file has left one of the names of slots to nobody.
LEMMA AMissingName ==
  ASSUME TypeOK, NamesUnique, FixedKeepNames, ~drifted,
         NEW i \in Slots, i \notin Fixed, name[i] \notin SlotNames
  PROVE  MissingSlotNames # {}
<1> SUFFICES ASSUME MissingSlotNames = {} PROVE FALSE
  OBVIOUS
<1> DEFINE S == Slots \ Fixed
           f == [j \in S |-> CHOOSE s \in S : name[s] = Home[j]]
<1>1. ASSUME NEW j \in S PROVE \E s \in S : name[s] = Home[j]
  <2>1. PICK k \in DOMAIN SlotName : SlotName[k] = Home[j]
    BY BundleSlotsAssumption
  <2>2. PICK s \in Slots : name[s] = Home[j]
    BY <2>1 DEF MissingSlotNames, Named
  <2>3. s \notin Fixed
    <3>1. ASSUME s \in Fixed PROVE s = j
      BY <2>2, <3>1, NamesAssumption DEF FixedKeepNames
    <3> QED
      BY <3>1
  <2> QED
    BY <2>2, <2>3
<1>2. \A j \in S : f[j] \in S /\ name[f[j]] = Home[j]
  BY <1>1
<1>3. f \in [S -> S]
  BY <1>2
<1> HIDE DEF f
<1>4. \A j, l \in S : f[j] = f[l] => j = l
  BY <1>2, NamesAssumption
<1>5. f \in Injection(S, S)
  BY <1>3, <1>4 DEF Injection, IsInjective
<1>6. IsFiniteSet(S)
  BY SlotsAssumption, FS_Subset
<1>7. f \in Surjection(S, S)
  BY <1>5, <1>6, FS_Injection
<1>8. PICK j \in S : f[j] = i
  BY <1>7 DEF Surjection
<1>9. name[i] = Home[j] /\ Home[j] \in SlotNames
  BY <1>2, <1>8 DEF Fixed
<1> QED
  BY <1>9

\* One round of the undo of an install: the file is as it was, or gone.
LEMMA UndoRound ==
  ASSUME RxrTypeOK, NamesUnique, FixedKeepNames, RecordNames, RecordTells, UndoneBefore(at),
         UndoFile, ~drifted
  PROVE  \E i \in Slots :
           /\ name[i] = undo.files[at].name
           /\ content'[i] = undo.files[at].content
           /\ IF undo.files[at].created THEN name'[i] \in SlotNames ELSE name'[i] = name[i]
           /\ \A s \in Slots : s # i => name'[s] = name[s] /\ content'[s] = content[s]
<1> DEFINE u == undo.files[at]
<1>1. at \in DOMAIN undo.files /\ ~(at < at)
  BY DEF UndoFile, RxrTypeOK
<1>2. PICK i \in Slots : name[i] = u.name /\ Named(u.name) = {i}
  BY <1>1 DEF UndoneBefore, Named, NamesUnique
<1>3. /\ content'[i] = u.content
      /\ \A s \in Slots : s # i => content'[s] = content[s]
  BY <1>2 DEF UndoFile
<1>4. CASE ~u.created
  BY <1>2, <1>3, <1>4 DEF UndoFile
<1>5. CASE u.created
  <2>1. u.content = Nothing /\ u.name \notin SlotNames
    BY <1>1, <1>5 DEF RecordTells
  <2>2. i \notin Fixed
    BY <1>1, <1>2, <1>5 DEF FixedKeepNames, RecordNames
  <2>3. MissingSlotNames # {}
    BY <1>2, <2>1, <2>2, AMissingName DEF RxrTypeOK
  <2>4. Size[u.content] = 0
    BY <2>1, DataAssumption
  <2>5. PICK k \in FirstMissing : name' = [name EXCEPT ![i] = SlotName[k]]
    BY <1>2, <1>5, <2>3, <2>4 DEF UndoFile
  <2>6. SlotName[k] \in SlotNames
    BY BundleSlotsAssumption DEF FirstMissing, MissingSlotNames
  <2>7. name'[i] \in SlotNames /\ \A s \in Slots : s # i => name'[s] = name[s]
    BY <2>5, <2>6 DEF RxrTypeOK, TypeOK
  <2> QED
    BY <1>2, <1>3, <1>5, <2>7
<1> QED
  BY <1>4, <1>5

LEMMA UndoProgress == RxrTypeOK /\ NamesUnique /\ InstallInv /\ UndoFile => Progress'
<1> SUFFICES ASSUME RxrTypeOK, NamesUnique, InstallInv, UndoFile, Ordinary', ~drifted'
             PROVE  Progress'
  BY DEF Progress
<1> DEFINE u == undo.files[at]
<1>1. phase = "undo" /\ ~drifted /\ bundle' = bundle /\ before' = before /\ Ordinary
  BY DEF UndoFile, Ordinary
<1>2. CASE outcome # "installed"
  <2>1. outcome' \notin {"installed", "failed", "undone"}
    BY <1>1, <1>2 DEF UndoFile, InstallInv, OutcomeFits
  <2>2. phase' \in {"none", "undo"}
    BY <1>1 DEF UndoFile
  <2> QED
    BY <2>1, <2>2 DEF Progress, FailedInstallKeepsFiles, UndoRestores
<1>3. CASE outcome = "installed"
  <2>1. RecordTells /\ UndoneBefore(at)
    BY <1>1, <1>3 DEF InstallInv, Progress
  <2>2. at \in DOMAIN undo.files /\ u.name \notin SlotNames /\ (u.created => u.content = Nothing)
    BY <1>1, <2>1 DEF RecordTells, RxrTypeOK
  <2>3. PICK i \in Slots :
           /\ name[i] = u.name /\ content'[i] = u.content
           /\ IF u.created THEN name'[i] \in SlotNames ELSE name'[i] = name[i]
           /\ \A s \in Slots : s # i => name'[s] = name[s] /\ content'[s] = content[s]
    BY <1>1, <2>1, UndoRound DEF InstallInv
  <2>4. \A s \in Slots : s # i => name[s] # u.name /\ (IsFree(s)' <=> IsFree(s))
    BY <2>3 DEF NamesUnique, IsFree
  <2>5. Captured(name[i])
    BY <2>2, <2>3 DEF Captured
  <2>6. u.created => IsFree(i)'
    BY <2>2, <2>3 DEF IsFree
  \* what no record names is as it was
  <2>7. ASSUME NEW s \in Slots, ~IsFree(s)', ~Captured(name'[s]) PROVE <<name'[s], content'[s]>> \in before
    <3>1. s # i
      BY <2>3, <2>5, <2>6, <2>7
    <3> QED
      BY <2>1, <2>3, <2>4, <2>7, <3>1 DEF RecordTells
  <2>8. ASSUME NEW s \in Slots, ~IsFree(s), ~Captured(name[s])
        PROVE  ~IsFree(s)' /\ ~Captured(name'[s]) /\ name'[s] = name[s] /\ content'[s] = content[s]
    BY <2>3, <2>4, <2>5, <2>8
  <2>9. ASSUME NEW j \in DOMAIN undo.files, NEW x, x = undo.files[j].name
        PROVE  IF j < at + 1 /\ undo.files[j].created THEN Named(x)' = {}
               ELSE /\ Named(x)' # {}
                    /\ j < at + 1 => \A s \in Named(x)' : content'[s] = undo.files[j].content
    <3>1. x \notin SlotNames
      BY <2>1, <2>9 DEF RecordTells
    <3>2. CASE j = at
      <4>1. j < at + 1
        BY <2>2, <3>2 DEF RxrTypeOK
      <4>2. \A s \in Named(x)' : s = i
        BY <2>3, <2>4, <2>9, <3>2 DEF Named
      <4>3. u.created => Named(x)' = {}
        BY <2>3, <2>9, <3>1, <4>2 DEF Named
      <4>4. ~u.created => i \in Named(x)'
        BY <2>3, <2>9, <3>2 DEF Named
      <4> QED
        BY <2>3, <3>2, <4>1, <4>2, <4>3, <4>4
    <3>3. CASE j # at
      <4>1. x # u.name
        BY <2>2, <2>9, <3>3 DEF InstallInv, RecordNames
      <4>2. \A s \in Slots : name'[s] = x <=> name[s] = x
        BY <2>2, <2>3, <3>1, <4>1
      <4>3. Named(x)' = Named(x) /\ i \notin Named(x)
        BY <2>3, <4>1, <4>2 DEF Named
      <4>4. \A s \in Named(x) : content'[s] = content[s]
        BY <2>3, <4>3 DEF Named
      <4>5. j < at + 1 <=> j < at
        BY <2>2, <3>3 DEF RxrTypeOK
      <4> QED
        BY <2>1, <2>9, <4>3, <4>4, <4>5 DEF UndoneBefore
    <3> QED
      BY <3>2, <3>3
  <2>10. CASE at < Len(undo.files)
    <3>1. undo' = undo /\ at' = at + 1 /\ phase' = "undo" /\ outcome' = "installed"
      BY <1>1, <1>3, <2>10 DEF UndoFile
    <3>2. UndoneBefore(at)'
      BY <2>9, <3>1 DEF UndoneBefore
    <3>3. \A s \in Slots : Captured(name[s])' <=> Captured(name'[s])
      BY <3>1 DEF Captured
    <3>4. ASSUME NEW f \in before'
          PROVE  \/ \E s \in Slots : ~IsFree(s)' /\ ~Captured(name[s])' /\ f = <<name'[s], content'[s]>>
                 \/ \E j \in DOMAIN undo.files :
                      ~undo.files[j].created /\ f = <<undo.files[j].name, undo.files[j].content>>
      <4>1. ASSUME NEW s \in Slots, ~IsFree(s), ~Captured(name[s]), f = <<name[s], content[s]>>
            PROVE  ~IsFree(s)' /\ ~Captured(name[s])' /\ f = <<name'[s], content'[s]>>
        BY <2>8, <3>3, <4>1
      <4> QED
        BY <1>1, <2>1, <4>1 DEF RecordTells
    <3>5. RecordTells'
      BY <1>1, <2>1, <2>7, <3>1, <3>3, <3>4 DEF RecordTells
    <3> QED
      BY <3>1, <3>2, <3>5 DEF Progress, FailedInstallKeepsFiles, UndoRestores
  <2>11. CASE ~(at < Len(undo.files))
    <3>1. phase' = "none" /\ outcome' = "undone"
      BY <1>3, <2>11 DEF UndoFile
    <3>2. \A j \in DOMAIN undo.files : j < at + 1
      BY <2>2, <2>11 DEF RxrTypeOK
    <3>3. ASSUME NEW f \in Files' PROVE f \in before
      <4>1. PICK s \in Slots : ~IsFree(s)' /\ f = <<name'[s], content'[s]>>
        BY DEF Files
      <4>2. ASSUME NEW j \in DOMAIN undo.files, undo.files[j].name = name'[s] PROVE f \in before
        <5>1. ~undo.files[j].created /\ content'[s] = undo.files[j].content
          <6>1. PICK y : y = undo.files[j].name
            OBVIOUS
          <6>2. s \in Named(y)' /\ Named(y)' # {}
            BY <4>2, <6>1 DEF Named
          <6> QED
            BY <2>9, <3>2, <6>1, <6>2
        <5> QED
          BY <2>1, <4>1, <4>2, <5>1 DEF RecordTells
      <4> QED
        BY <2>7, <4>1, <4>2 DEF Captured
    <3>4. ASSUME NEW f \in before PROVE f \in Files'
      <4>1. ASSUME NEW s \in Slots, ~IsFree(s), ~Captured(name[s]), f = <<name[s], content[s]>>
            PROVE  f \in Files'
        BY <2>8, <4>1 DEF Files
      <4>2. ASSUME NEW j \in DOMAIN undo.files, ~undo.files[j].created,
                   f = <<undo.files[j].name, undo.files[j].content>>
            PROVE  f \in Files'
        <5>1. PICK y : y = undo.files[j].name
          OBVIOUS
        <5>2. PICK s \in Named(y)' : content'[s] = undo.files[j].content
          BY <2>9, <3>2, <4>2, <5>1
        <5>3. s \in Slots /\ name'[s] = y /\ y \notin SlotNames
          BY <2>1, <5>1 DEF Named, RecordTells
        <5>4. ~IsFree(s)'
          BY <5>3 DEF IsFree
        <5> QED
          BY <4>2, <5>1, <5>2, <5>3, <5>4 DEF Files
      <4> QED
        BY <2>1, <4>1, <4>2 DEF RecordTells
    <3> QED
      BY <1>1, <3>1, <3>3, <3>4 DEF Progress, FailedInstallKeepsFiles, UndoRestores
  <2> QED
    BY <2>10, <2>11
<1> QED
  BY <1>2, <1>3

LEMMA InstallInvStep == RxrTypeOK /\ NamesUnique /\ InstallInv /\ [RxrNext]_<<vars, rxrVars>> => InstallInv'
<1> SUFFICES ASSUME RxrTypeOK, NamesUnique, InstallInv, [RxrNext]_<<vars, rxrVars>> PROVE InstallInv'
  OBVIOUS
<1>1. FixedKeepNames' /\ RecordNames' /\ OutcomeFits'
  BY FixedKeepNamesStep, RecordNamesStep, OutcomeFitsStep DEF InstallInv
<1>2. ASSUME phase' = "none", outcome' = "none" PROVE Progress'
  BY <1>2 DEF Progress, FailedInstallKeepsFiles, UndoRestores
<1>3. ASSUME Others PROVE Progress'
  BY <1>2, <1>3 DEF Others
<1>4. ASSUME Reset PROVE Progress'
  BY <1>2, <1>4 DEF Reset
<1>5. ASSUME UNCHANGED <<vars, rxrVars>> PROVE Progress'
  <2>1. /\ name' = name /\ content' = content /\ drifted' = drifted /\ phase' = phase /\ bundle' = bundle
        /\ at' = at /\ undo' = undo /\ before' = before /\ outcome' = outcome
    BY <1>5 DEF vars, rxrVars
  <2> QED
    BY <2>1 DEF InstallInv, Progress, Ordinary, RecordTells, CaptureInv, CapturedBefore, KeptAsTheyAre,
                RoomForAll, AllCaptured, WrittenBefore, WriteInv, UndoneBefore, FailedInstallKeepsFiles,
                UndoRestores, Files, IsFree, Captured, Named, NameOf, ContentOf, Fits
<1>6. Progress'
  BY <1>3, <1>4, <1>5, BeginProgress, CaptureProgress, WriteProgress, BeginUndoProgress, UndoProgress
     DEF RxrNext, Install, UndoLast
<1> QED
  BY <1>1, <1>6 DEF InstallInv

LEMMA InstallInvInit == RxrInit => InstallInv
<1> SUFFICES ASSUME RxrInit PROVE InstallInv
  OBVIOUS
<1>1. FixedKeepNames
  BY DEF RxrInit, Init, Fresh, FixedKeepNames, Fixed
<1>2. RecordNames /\ OutcomeFits
  BY DEF RxrInit, NoUndo, RecordNames, OutcomeFits
<1>3. Progress
  BY DEF RxrInit, Progress, FailedInstallKeepsFiles, UndoRestores
<1> QED
  BY <1>1, <1>2, <1>3 DEF InstallInv

\* An install of any bundle of any length writes all its files or changes none,
\* and an undo right after it gives back the files there were and the slots that
\* were free, whatever else is done to the table between installs: provided that
\* the bundle ends where it says and names no free slot, and that no fixed slot
\* was renamed and no slot's name given away before.
THEOREM InstallIsAtomicHolds == RxrSpec => []InstallIsAtomic
<1>1. RxrTypeOK /\ InstallInv => InstallIsAtomic
  <2> SUFFICES ASSUME RxrTypeOK, InstallInv, Ordinary, ~drifted
               PROVE  InstalledWhole /\ FailedInstallKeepsFiles /\ UndoRestores
    BY DEF InstallIsAtomic
  <2>1. ASSUME outcome = "installed", phase = "none" PROVE WrittenBefore(Len(bundle.files) + 1)
    BY <2>1 DEF InstallInv, Progress
  <2>2. \A k \in DOMAIN bundle.files : k < Len(bundle.files) + 1
    BY DEF RxrTypeOK, BundleFiles
  <2>3. InstalledWhole
    BY <2>1, <2>2 DEF InstalledWhole, WrittenBefore, NameOf, ContentOf
  <2> QED
    BY <2>3 DEF InstallInv, Progress
<1> QED
  BY <1>1, InstallInvInit, InstallInvStep, RxrTyping, PTL DEF RxrSpec

\* ------------------ the file commands and the places they reach ------------

\* What a table says after a file was written into it, and after one left it.
LEMMA PutDomain ==
  ASSUME NEW f, NEW n, NEW t
  PROVE  DOMAIN Put(f, n, t) = DOMAIN f \cup {n}
BY DEF Put

LEMMA PutTells ==
  ASSUME NEW f, NEW n, NEW t
  PROVE  In(Put(f, n, t), n) = {t}
BY DEF Put, In

LEMMA PutLeaves ==
  ASSUME NEW f, NEW n, NEW t, NEW m, m # n
  PROVE  In(Put(f, n, t), m) = In(f, m)
BY DEF Put, In

LEMMA OutDomain ==
  ASSUME NEW f, NEW n
  PROVE  DOMAIN Out(f, n) = DOMAIN f \ {n}
BY DEF Out

LEMMA OutLeaves ==
  ASSUME NEW f, NEW n, NEW m, m # n
  PROVE  In(Out(f, n), m) = In(f, m)
BY DEF Out, In

\* A table still fits with a file written that has an entry or finds room for
\* one, and with a file less.
LEMMA PutFits ==
  ASSUME NEW f, NEW most \in Nat, NEW cap \in Nat, NEW n \in PathNames, NEW t \in Seq(Chars),
         TableFits(f, most, cap), Len(t) <= cap, n \in DOMAIN f \/ Cardinality(DOMAIN f) < most
  PROVE  TableFits(Put(f, n, t), most, cap)
<1> DEFINE D == DOMAIN f
           g == Put(f, n, t)
<1>1. D \subseteq PathNames /\ IsFiniteSet(D) /\ Cardinality(D) <= most /\ Cardinality(D) \in Nat
  BY FS_CardinalityType DEF TableFits
<1>2. IsFiniteSet(D \cup {n}) /\ Cardinality(D \cup {n}) = IF n \in D THEN Cardinality(D) ELSE Cardinality(D) + 1
  BY <1>1, FS_AddElement, Zenon
<1>3. Cardinality(D \cup {n}) <= most
  BY <1>1, <1>2
<1>4. DOMAIN g = D \cup {n}
  BY PutDomain
<1>5. g \in [D \cup {n} -> Seq(Chars)] /\ \A m \in D \cup {n} : Len(g[m]) <= cap
  BY DEF Put, TableFits
<1> QED
  BY <1>1, <1>2, <1>3, <1>4, <1>5 DEF TableFits

LEMMA OutFits ==
  ASSUME NEW f, NEW most \in Nat, NEW cap \in Nat, NEW n, TableFits(f, most, cap)
  PROVE  /\ TableFits(Out(f, n), most, cap)
         /\ n \in DOMAIN f => Cardinality(DOMAIN Out(f, n)) < most
<1> DEFINE D == DOMAIN f
           g == Out(f, n)
<1>1. D \subseteq PathNames /\ IsFiniteSet(D) /\ Cardinality(D) <= most /\ Cardinality(D) \in Nat
  BY FS_CardinalityType DEF TableFits
<1>2. IsFiniteSet(D \ {n}) /\ Cardinality(D \ {n}) = IF n \in D THEN Cardinality(D) - 1 ELSE Cardinality(D)
  BY <1>1, FS_RemoveElement, Zenon
<1>4. DOMAIN g = D \ {n}
  BY OutDomain
<1>5. g \in [D \ {n} -> Seq(Chars)] /\ \A m \in D \ {n} : Len(g[m]) <= cap
  BY DEF Out, TableFits
<1> QED
  BY <1>1, <1>2, <1>4, <1>5 DEF TableFits

LEMMA EmptyFits ==
  ASSUME NEW most \in Nat, NEW cap \in Nat
  PROVE  TableFits([n \in {} |-> <<>>], most, cap)
BY FS_EmptySet DEF TableFits

\* What a table holds is a text that fits it.
LEMMA HeldFits ==
  ASSUME NEW f, NEW most, NEW cap, NEW n, NEW t \in In(f, n), TableFits(f, most, cap)
  PROVE  n \in DOMAIN f /\ t = f[n] /\ t \in Seq(Chars) /\ Len(t) <= cap
BY DEF In, TableFits

\* The merged drive reads the first place that has the file.
LEMMA FirstOf ==
  ASSUME NEW m \in Nat, NEW a, NEW s, s = [i \in 1 .. m |-> s[i]]
  PROVE  /\ a # {} => First(<<a>> \o s) = a
         /\ a = {} /\ (\A i \in 1 .. m : s[i] = {}) => First(<<a>> \o s) = {}
         /\ \A t \in First(<<a>> \o s) : t \in a \/ \E i \in 1 .. m : t \in s[i]
<1> DEFINE S == {s[i] : i \in 1 .. m}
<1> PICK q : q = <<a>> \o s
  OBVIOUS
<1>1. s \in [1 .. m -> S] /\ DOMAIN s = 1 .. m
  BY Zenon
<1> HIDE DEF S
<1>5. s \in Seq(S) /\ Len(s) = m /\ <<a>> \in Seq({a})
  BY <1>1
<1>2. DOMAIN q = 1 .. m + 1 /\ q[1] = a /\ \A i \in 2 .. m + 1 : q[i] = s[i - 1]
  BY <1>5
<1>3. ASSUME a # {} PROVE First(q) = a
  <2>1. 1 \in DOMAIN q /\ \A j \in 1 .. (1 - 1) : q[j] = {}
    BY <1>2
  <2>2. ASSUME NEW i \in DOMAIN q, \A j \in 1 .. (i - 1) : q[j] = {} PROVE i = 1
    <3>1. i \in 1 .. m + 1
      BY <1>2
    <3>2. ASSUME i # 1 PROVE FALSE
      <4>1. 1 \in 1 .. (i - 1)
        BY <3>1, <3>2
      <4> QED
        BY <4>1, <2>2, <1>2, <1>3
    <3> QED
      BY <3>2
  <2>3. {k \in DOMAIN q : \A j \in 1 .. (k - 1) : q[j] = {}} = {1}
    BY <2>1, <2>2
  <2>4. First(q) = UNION {q[i] : i \in {1}}
    BY <2>3, Zenon DEF First
  <2> QED
    BY <2>4, <1>2
<1>4. ASSUME a = {}, \A i \in 1 .. m : s[i] = {} PROVE First(q) = {}
  <2>1. \A i \in DOMAIN q : q[i] = {}
    BY <1>2, <1>4
  <2>2. \A t : t \notin First(q)
    BY <2>1 DEF First
  <2> QED
    BY <2>2
<1>6. ASSUME NEW t \in First(q) PROVE t \in a \/ \E i \in 1 .. m : t \in s[i]
  <2> PICK i \in DOMAIN q : t \in q[i]
    BY DEF First
  <2> QED
    BY <1>2
<1> QED
  BY <1>3, <1>4, <1>6

\* A name that no table and no built-in file answers for, now and after a boot,
\* and no store: what a bleed leaves of it.
GoneFrom(r, o, n) == In(r, n) \subseteq {<<>>} /\ (n \in DOMAIN Built => n \in o.deleted)
StaysGone(n) ==
  /\ GoneFrom(ram, over, n)
  /\ GoneFrom(saved.ram, saved.over, n)
  /\ \A d \in Range(Stores) : n \notin DOMAIN media[d]
BledAreGone == \A n \in bled : StaysGone(n)

DrivesInv == DrivesTypeOK /\ BledAreGone /\ SaidIsDone

LEMMA StoresAreDrives ==
  /\ Stores \in Seq(Range(Stores)) /\ DOMAIN Stores = 1 .. Len(Stores) /\ Len(Stores) \in Nat
  /\ \A i \in DOMAIN Stores : Stores[i] \in Range(Stores)
  /\ "R" \notin Range(Stores) /\ "X" \notin Range(Stores) /\ "all" \notin Range(Stores)
<1>1. Stores \in Seq(Range(Stores)) /\ Range(Stores) \cap {"R", "X", "all"} = {}
  BY ShellFilesAssumption, Zenon
<1> PICK R : R = Range(Stores)
  OBVIOUS
<1>2. DOMAIN Stores = 1 .. Len(Stores) /\ Len(Stores) \in Nat /\ \A i \in DOMAIN Stores : Stores[i] \in R
  BY <1>1
<1> QED
  BY <1>1, <1>2, Zenon

\* A text in the table is what its name reads as, on every drive but the media.
LEMMA TableReads ==
  ASSUME NEW p \in Paths, ~ToMedia(p), NEW t, In(ram', p.n) = {t}
  PROVE  Read(p)' = {t}
<1>1. Open(p.n)' = {t}
  BY DEF Open, In
<1>2. ReadMerged(p.n)' = {t}
  <2> PICK s : s = [i \in DOMAIN Stores |-> ReadMedia(Stores[i], p.n)']
    OBVIOUS
  <2> PICK m \in Nat : m = Len(Stores)
    BY StoresAreDrives
  <2>1. s = [i \in 1 .. m |-> s[i]]
    BY StoresAreDrives, Zenon
  <2> PICK a : a = {t}
    OBVIOUS
  <2>2. a # {} => First(<<a>> \o s) = a
    BY ONLY <2>1, FirstOf, m \in Nat
  <2> QED
    <3>1. a # {} /\ First(<<a>> \o s) = a
      BY <2>2
    <3>2. ReadMerged(p.n)' = First(<<a>> \o s)
      BY <1>1, Zenon DEF ReadMerged
    <3> QED
      BY <3>1, <3>2
<1> QED
  BY <1>1, <1>2 DEF Read, ToMedia

LEMMA StoreReads ==
  ASSUME NEW p \in Paths, ToMedia(p), NEW t, ~locked', In(media'[p.d], p.n) = {t}
  PROVE  Read(p)' = {t}
<1>1. p.d # "all" /\ p.d \in Range(Stores)
  BY StoresAreDrives, Zenon DEF ToMedia
<1>2. Read(p)' = ReadMedia(p.d, p.n)'
  BY <1>1, Zenon DEF Read
<1> QED
  BY <1>2 DEF ReadMedia

LEMMA SaidSo ==
  ASSUME NEW ok, NEW p, NEW t, Said(ok, p, t), ok => Read(p)' = {t}
  PROVE  told' \in {"refused", "done"}
BY DEF Said

\* A step that gives the table another content and leaves the rest alone keeps
\* the types, and keeps gone what it does not give to a file.
LEMMA TableKeeps ==
  ASSUME DrivesTypeOK, BledAreGone, left' \in Nat, told' \in {"refused", "done"},
         TableFits(ram', FreeSlots, SlotCap), UNCHANGED media, OthersStay,
         bled' \subseteq bled, \A m \in bled' : In(ram', m) \subseteq {<<>>}
  PROVE  DrivesInv'
<1>1. DrivesTypeOK'
  BY DEF DrivesTypeOK, OthersStay
<1>2. BledAreGone'
  BY DEF BledAreGone, StaysGone, GoneFrom, OthersStay
<1> QED
  BY <1>1, <1>2 DEF DrivesInv, SaidIsDone

LEMMA ToTableKeeps ==
  ASSUME DrivesTypeOK, BledAreGone, left' \in Nat,
         NEW p \in Paths, ~ToMedia(p), NEW t, NEW table, ToTable(p, t, table),
         TableFits(table, FreeSlots, SlotCap), In(table, p.n) = {t},
         \A m \in bled \ {p.n} : In(table, m) \subseteq {<<>>}
  PROVE  DrivesInv'
<1>1. Read(p)' = {t}
  BY TableReads DEF ToTable
<1>2. told' \in {"refused", "done"}
  BY <1>1, SaidSo DEF ToTable
<1> QED
  BY <1>2, TableKeeps DEF ToTable, Given

LEMMA RefusedKeeps ==
  ASSUME DrivesTypeOK, BledAreGone, left' \in Nat,
         NEW table, Refused(table), TableFits(table, FreeSlots, SlotCap),
         \A m \in bled \ (DOMAIN table \ DOMAIN ram) : In(table, m) \subseteq {<<>>}
  PROVE  DrivesInv'
BY TableKeeps DEF Refused, Given

\* A step that gives one store another content.
LEMMA StoreKeeps ==
  ASSUME DrivesTypeOK, BledAreGone, left' \in Nat, told' \in {"refused", "done"},
         NEW d \in Range(Stores), NEW store, media' = [media EXCEPT ![d] = store],
         TableFits(store, StoreMax, StoreCap), UNCHANGED ram, OthersStay,
         bled' \subseteq bled, \A m \in bled' : m \in DOMAIN store => m \in DOMAIN media[d]
  PROVE  DrivesInv'
<1>1. media' = [e \in Range(Stores) |-> IF e = d THEN store ELSE media[e]]
  BY DEF DrivesTypeOK
<1>2. DrivesTypeOK'
  BY <1>1 DEF DrivesTypeOK, OthersStay
<1>3. BledAreGone'
  BY <1>1 DEF BledAreGone, StaysGone, GoneFrom, OthersStay
<1> QED
  BY <1>2, <1>3 DEF DrivesInv, SaidIsDone

\* What a drive reads as is a text.
LEMMA ReadsAreTexts ==
  ASSUME DrivesTypeOK, NEW p \in Paths, NEW t \in DosRead(p)
  PROVE  t \in Seq(Chars)
<1>1. ASSUME NEW u, u \in Open(p.n) \/ u \in In(ram, p.n) PROVE u \in Seq(Chars)
  <2>1. CASE u \in In(ram, p.n)
    BY <2>1, HeldFits DEF DrivesTypeOK
  <2>2. CASE u \in In(Built, p.n)
    BY <2>2, ShellFilesAssumption DEF In
  <2> QED
    BY <1>1, <2>1, <2>2 DEF Open, OpenReadonly
<1>2. ASSUME NEW d \in Range(Stores), NEW u \in ReadMedia(d, p.n) PROVE u \in Seq(Chars)
  <2>1. u \in In(media[d], p.n) /\ TableFits(media[d], StoreMax, StoreCap)
    BY <1>2 DEF ReadMedia, DrivesTypeOK
  <2> QED
    BY <2>1, HeldFits
<1>3. ASSUME NEW u \in ReadMerged(p.n) PROVE u \in Seq(Chars)
  <2> PICK s : s = [i \in DOMAIN Stores |-> ReadMedia(Stores[i], p.n)]
    OBVIOUS
  <2> PICK m \in Nat : m = Len(Stores)
    BY StoresAreDrives
  <2> PICK a : a = Open(p.n)
    OBVIOUS
  <2>1. s = [i \in 1 .. m |-> s[i]]
    BY StoresAreDrives, Zenon
  <2>2. \A v \in First(<<a>> \o s) : v \in a \/ \E i \in 1 .. m : v \in s[i]
    BY ONLY <2>1, FirstOf, m \in Nat
  <2>3. u \in First(<<a>> \o s)
    BY <1>3, Zenon DEF ReadMerged
  <2>4. u \in a \/ \E i \in 1 .. m : u \in s[i]
    BY <2>2, <2>3
  <2> QED
    BY <2>4, <1>1, <1>2, StoresAreDrives
<1> QED
  BY <1>1, <1>2, <1>3 DEF DosRead, Read

\* What a write leaves in a store fits it, and says what was there and the text
\* when it may be stored.
StoresWell(s, n, t, append) ==
  /\ TableFits(Stored(s, n, t, append), StoreMax, StoreCap)
  /\ DOMAIN Stored(s, n, t, append) \subseteq DOMAIN s \cup {n}
  /\ Start(s, n, append) \in Seq(Chars) /\ (Start(s, n, append) \o t) \in Seq(Chars)
  /\ MayStore(s, n, t, append)
       => ~locked /\ Stored(s, n, t, append) = Put(s, n, Start(s, n, append) \o t)

LEMMA StoredFits ==
  ASSUME NEW s, NEW n \in PathNames, NEW t \in Seq(Chars), NEW append,
         TableFits(s, StoreMax, StoreCap)
  PROVE  StoresWell(s, n, t, append)
<1> USE DEF TableFits
<1>1. \A b : Start(s, n, b) \in Seq(Chars) /\ Len(Start(s, n, b)) <= StoreCap
  BY ShellFilesAssumption DEF Start
<1>2. Start(s, n, append) \o t \in Seq(Chars) /\ Len(Start(s, n, append) \o t) \in Nat
  BY <1>1
<1> HIDE DEF TableFits
<1> PICK u : u = Start(s, n, append) \o t
  OBVIOUS
<1> PICK v : v = Start(s, n, TRUE)
  OBVIOUS
<1>3. StoreMax \in Nat /\ StoreCap \in Nat
  BY ShellFilesAssumption
<1>4. v \in Seq(Chars) /\ Len(v) <= StoreCap /\ u \in Seq(Chars) /\ Len(u) \in Nat
  BY <1>1, <1>2
<1>5. /\ Start(s, n, append) \in Seq(Chars)
      /\ MayStore(s, n, t, append) <=> Enters(s, n) /\ Len(u) <= StoreCap
      /\ Stored(s, n, t, append) = IF ~Enters(s, n) THEN s
                                   ELSE IF Len(u) > StoreCap THEN Put(s, n, v) ELSE Put(s, n, u)
  BY <1>1, Zenon DEF MayStore, Stored
<1>6. Enters(s, n) => ~locked /\ (n \in DOMAIN s \/ Cardinality(DOMAIN s) < StoreMax)
  BY DEF Enters
<1>7. /\ Enters(s, n) => TableFits(Put(s, n, v), StoreMax, StoreCap)
      /\ Enters(s, n) /\ Len(u) <= StoreCap => TableFits(Put(s, n, u), StoreMax, StoreCap)
  BY <1>3, <1>4, <1>6, PutFits
<1>8. Len(u) > StoreCap <=> ~(Len(u) <= StoreCap)
  BY <1>3, <1>4
<1>9. DOMAIN Put(s, n, u) = DOMAIN s \cup {n} /\ DOMAIN Put(s, n, v) = DOMAIN s \cup {n}
  BY PutDomain
<1> PICK store : store = Stored(s, n, t, append)
  OBVIOUS
<1>10. TableFits(store, StoreMax, StoreCap)
  BY <1>5, <1>7, <1>8, Zenon
<1>11. DOMAIN store \subseteq DOMAIN s \cup {n}
  BY <1>5, <1>9
<1>12. MayStore(s, n, t, append) => ~locked /\ store = Put(s, n, u)
  BY <1>5, <1>6, <1>8, Zenon
<1> QED
  BY <1>4, <1>5, <1>10, <1>11, <1>12, Zenon DEF StoresWell

LEMMA ToStoreKeeps ==
  ASSUME DrivesTypeOK, BledAreGone, left' \in Nat,
         NEW p \in Paths, ToMedia(p), NEW t \in Seq(Chars), NEW append, ToStore(p, t, append)
  PROVE  DrivesInv'
<1>1. p.d \in Range(Stores) /\ p.n \in PathNames
  BY DEF ToMedia, Paths
<1> PICK s : s = media[p.d]
  OBVIOUS
<1> PICK store : store = Stored(s, p.n, t, append)
  OBVIOUS
<1> PICK u : u = Start(s, p.n, append) \o t
  OBVIOUS
<1>2. TableFits(s, StoreMax, StoreCap)
  BY <1>1 DEF DrivesTypeOK
<1>3. /\ TableFits(store, StoreMax, StoreCap) /\ DOMAIN store \subseteq DOMAIN s \cup {p.n}
      /\ MayStore(s, p.n, t, append) => ~locked /\ store = Put(s, p.n, u)
  <2>1. StoresWell(s, p.n, t, append)
    BY <1>1, <1>2, StoredFits
  <2> QED
    BY <2>1, Zenon DEF StoresWell
<1>4. media' = [media EXCEPT ![p.d] = store] /\ media'[p.d] = store
  BY <1>1 DEF ToStore, DrivesTypeOK
<1>5. MayStore(s, p.n, t, append) => Read(p)' = {u}
  <2> SUFFICES ASSUME MayStore(s, p.n, t, append) PROVE Read(p)' = {u}
    OBVIOUS
  <2>1. ~locked' /\ In(media'[p.d], p.n) = {u}
    <3>1. ~locked' /\ media'[p.d] = Put(s, p.n, u)
      BY <1>3, <1>4 DEF ToStore, OthersStay
    <3> QED
      <4>1. In(Put(s, p.n, u), p.n) = {u}
        BY ONLY PutTells
      <4>2. In(Put(s, p.n, u), p.n) = In(media'[p.d], p.n)
        BY <3>1
      <4> QED
        BY <3>1, <4>1, <4>2
  <2> QED
    BY <2>1, StoreReads
<1>6. told' \in {"refused", "done"}
  <2>1. Said(MayStore(s, p.n, t, append), p, u)
    BY Zenon DEF ToStore
  <2> QED
    BY <2>1, <1>5, SaidSo
<1> QED
  BY <1>1, <1>3, <1>4, <1>6, StoreKeeps DEF ToStore, Given

\* What the inductive invariant says of the table and of what is bled.
LEMMA TableFacts ==
  ASSUME DrivesTypeOK, BledAreGone
  PROVE  /\ TableFits(ram, FreeSlots, SlotCap) /\ FreeSlots \in Nat /\ SlotCap \in Nat
         /\ \A m \in bled : m \in PathNames /\ In(ram, m) \subseteq {<<>>}
BY ShellFilesAssumption DEF DrivesTypeOK, BledAreGone, StaysGone, GoneFrom

\* A file written into the table, where it has an entry or finds room.
LEMMA FileWritten ==
  ASSUME DrivesTypeOK, BledAreGone, left' \in Nat,
         NEW p \in Paths, ~ToMedia(p), NEW t \in Seq(Chars), Len(t) <= SlotCap, MayOpen(p.n),
         NEW u, u = t, ToTable(p, u, Put(ram, p.n, t))
  PROVE  DrivesInv'
<1>1. p.n \in PathNames
  BY DEF Paths
<1> PICK table : table = Put(ram, p.n, t)
  OBVIOUS
<1>2. TableFits(table, FreeSlots, SlotCap)
  BY <1>1, TableFacts, PutFits DEF MayOpen
<1>3. In(table, p.n) = {t}
  BY ONLY PutTells, table = Put(ram, p.n, t)
<1>4. ASSUME NEW m \in bled \ {p.n} PROVE In(table, m) \subseteq {<<>>}
  <2>1. In(table, m) = In(ram, m)
    BY ONLY <1>4, PutLeaves, table = Put(ram, p.n, t)
  <2> QED
    BY <2>1, TableFacts
<1> QED
  BY <1>2, <1>3, <1>4, ToTableKeeps

\* A name given a slot although the command then refuses.
LEMMA RefusedAfterPut ==
  ASSUME DrivesTypeOK, BledAreGone, left' \in Nat,
         NEW n \in PathNames, NEW t \in Seq(Chars), Len(t) <= SlotCap, n \notin DOMAIN ram, MayOpen(n),
         Refused(Put(ram, n, t))
  PROVE  DrivesInv'
<1> PICK table : table = Put(ram, n, t)
  OBVIOUS
<1>1. TableFits(table, FreeSlots, SlotCap)
  BY TableFacts, PutFits DEF MayOpen
<1>2. DOMAIN table = DOMAIN ram \cup {n}
  BY ONLY PutDomain, table = Put(ram, n, t)
<1>3. ASSUME NEW m \in bled \ (DOMAIN table \ DOMAIN ram) PROVE In(table, m) \subseteq {<<>>}
  <2>1. m # n
    BY <1>2
  <2>2. In(table, m) = In(ram, m)
    BY ONLY <2>1, PutLeaves, table = Put(ram, n, t)
  <2> QED
    BY <2>2, TableFacts
<1> QED
  BY <1>1, <1>3, RefusedKeeps

LEMMA RefusedAsItWas ==
  ASSUME DrivesTypeOK, BledAreGone, left' \in Nat, Refused(ram)
  PROVE  DrivesInv'
BY TableFacts, RefusedKeeps

LEMMA RefusedMade ==
  ASSUME DrivesTypeOK, BledAreGone, left' \in Nat, NEW n \in PathNames, MayOpen(n), Refused(OpenedOrMade(n))
  PROVE  DrivesInv'
<1>1. CASE n \in DOMAIN ram
  BY <1>1, RefusedAsItWas DEF OpenedOrMade
<1>2. CASE n \notin DOMAIN ram
  <2>1. <<>> \in Seq(Chars) /\ Len(<<>>) <= SlotCap
    BY TableFacts
  <2>2. Refused(Put(ram, n, <<>>))
    BY <1>2, Zenon DEF OpenedOrMade
  <2> QED
    BY <1>2, <2>1, <2>2, RefusedAfterPut
<1> QED
  BY <1>1, <1>2

LEMMA CopyKeeps ==
  ASSUME DrivesTypeOK, BledAreGone, left' \in Nat, NEW p \in Paths, NEW q \in Paths, Copy(p, q)
  PROVE  DrivesInv'
<1> PICK t \in Read(p) :
      IF ToMedia(q) THEN ToStore(q, t, FALSE)
      ELSE IF q.n \in DOMAIN ram /\ Len(t) <= SlotCap THEN ToTable(q, t, Put(ram, q.n, t))
      ELSE Refused(ram)
  BY Zenon DEF Copy
<1>1. t \in Seq(Chars)
  <2>1. CASE t \in DosRead(p)
    BY <2>1, ReadsAreTexts
  <2>2. CASE p.d = "R"
    <3>1. t \in Open(p.n)
      BY <2>2, StoresAreDrives DEF Read
    <3> PICK r : r = [d |-> "X", n |-> p.n]
      OBVIOUS
    <3>2. r \in Paths /\ r.d = "X" /\ r.n = p.n
      BY DEF Paths, Drives
    <3>3. t \in DosRead(r)
      BY <3>1, <3>2, StoresAreDrives DEF DosRead, Read
    <3> QED
      BY <3>2, <3>3, ReadsAreTexts
  <2> QED
    BY <2>1, <2>2 DEF DosRead
<1>2. CASE ToMedia(q)
  BY <1>1, <1>2, ToStoreKeeps
<1>3. CASE ~ToMedia(q) /\ q.n \in DOMAIN ram /\ Len(t) <= SlotCap
  BY <1>1, <1>3, FileWritten DEF MayOpen
<1>4. CASE ~ToMedia(q) /\ ~(q.n \in DOMAIN ram /\ Len(t) <= SlotCap)
  BY <1>4, RefusedAsItWas
<1> QED
  BY <1>2, <1>3, <1>4

LEMMA DosCopyKeeps ==
  ASSUME DrivesTypeOK, BledAreGone, left' \in Nat, NEW p \in Paths, NEW q \in Paths, DosCopy(p, q)
  PROVE  DrivesInv'
<1> PICK t \in DosRead(p) :
      IF ToMedia(q) THEN ToStore(q, t, FALSE)
      ELSE IF ~MayOpen(q.n) THEN Refused(ram)
      ELSE IF Len(t) <= SlotCap THEN ToTable(q, t, Put(ram, q.n, t))
      ELSE Refused(OpenedOrMade(q.n))
  BY Zenon DEF DosCopy
<1>1. t \in Seq(Chars) /\ q.n \in PathNames
  BY ReadsAreTexts DEF Paths
<1>2. CASE ToMedia(q)
  BY <1>1, <1>2, ToStoreKeeps
<1>3. CASE ~ToMedia(q) /\ ~MayOpen(q.n)
  BY <1>3, RefusedAsItWas
<1>4. CASE ~ToMedia(q) /\ MayOpen(q.n) /\ Len(t) <= SlotCap
  BY <1>1, <1>4, FileWritten
<1>5. CASE ~ToMedia(q) /\ MayOpen(q.n) /\ ~(Len(t) <= SlotCap)
  BY <1>1, <1>5, RefusedMade
<1> QED
  BY <1>2, <1>3, <1>4, <1>5

\* A typed line, and its end.
LEMMA LinesFit ==
  ASSUME NEW w \in Words
  PROVE  w \in Seq(Chars) /\ Line(w) \in Seq(Chars) /\ Len(Line(w)) <= SlotCap /\ <<"lf">> \in Seq(Chars)
<1>1. w \in Seq(Chars) /\ "lf" \in Chars /\ Len(w) + 1 <= SlotCap /\ SlotCap \in Nat
  BY ShellFilesAssumption
<1>2. <<"lf">> \in Seq(Chars) /\ w \o <<"lf">> \in Seq(Chars) /\ Len(w \o <<"lf">>) = Len(w) + 1
  BY <1>1
<1> QED
  BY <1>1, <1>2 DEF Line

LEMMA LineToStoreKeeps ==
  ASSUME DrivesTypeOK, BledAreGone, left' \in Nat,
         NEW p \in Paths, ToMedia(p), NEW w \in Words, NEW append \in BOOLEAN, LineToStore(p, w, append)
  PROVE  DrivesInv'
<1> PICK s : s = media[p.d]
  OBVIOUS
<1> PICK first : first = Stored(s, p.n, w, append)
  OBVIOUS
<1> PICK t : t = Start(s, p.n, append) \o w
  OBVIOUS
<1>1. \/ ToStore(p, w, append)
      \/ /\ MayStore(s, p.n, w, append) /\ Len(t) # StoreCap
         /\ media' = [media EXCEPT ![p.d] = Stored(first, p.n, <<"lf">>, TRUE)]
         /\ Given({p.n}) /\ UNCHANGED ram /\ OthersStay
         /\ Said(TRUE, p, t \o <<"lf">>)
  BY Zenon DEF LineToStore
<1>2. CASE ToStore(p, w, append)
  BY <1>2, LinesFit, ToStoreKeeps
<1>3. CASE ~ToStore(p, w, append)
  <2> PICK u : u = t \o <<"lf">>
    OBVIOUS
  <2> PICK store : store = Stored(first, p.n, <<"lf">>, TRUE)
    OBVIOUS
  <2>1. /\ MayStore(s, p.n, w, append) /\ Len(t) # StoreCap
        /\ media' = [media EXCEPT ![p.d] = store]
        /\ Given({p.n}) /\ UNCHANGED ram /\ OthersStay
        /\ Said(TRUE, p, u)
    BY <1>1, <1>3, Zenon
  <2>2. p.d \in Range(Stores) /\ p.n \in PathNames /\ TableFits(s, StoreMax, StoreCap)
    BY DEF ToMedia, Paths, DrivesTypeOK
  <2>3. StoresWell(s, p.n, w, append)
    BY <2>2, LinesFit, StoredFits
  <2>4. TableFits(first, StoreMax, StoreCap) /\ DOMAIN first \subseteq DOMAIN s \cup {p.n}
    BY <2>3, Zenon DEF StoresWell
  <2>5. ~locked /\ first = Put(s, p.n, t) /\ t \in Seq(Chars)
    BY <2>1, <2>3, Zenon DEF StoresWell
  <2>6. p.n \in DOMAIN first
    BY ONLY <2>5 DEF Put
  <2>7. first[p.n] = t
    BY ONLY <2>5 DEF Put
  <2>8. Start(first, p.n, TRUE) = t /\ Enters(first, p.n)
    BY <2>5, <2>6, <2>7, Zenon DEF Start, Enters
  <2>9. Len(t) <= StoreCap
    <3>1. Len(Start(s, p.n, append) \o w) <= StoreCap
      BY <2>1, Zenon DEF MayStore
    <3> QED
      BY <3>1
  <2>10. Len(u) <= StoreCap
    <3>1. Len(t) \in Nat /\ StoreCap \in Nat /\ Len(t) < StoreCap
      <4>1. Len(t) \in Nat
        BY ONLY <2>5
      <4>2. StoreCap \in Nat
        BY ShellFilesAssumption
      <4> QED
        BY <4>1, <4>2, <2>1, <2>9
    <3>2. Len(u) = Len(t) + 1
      BY ONLY <2>5, LinesFit, w \in Words, u = t \o <<"lf">>
    <3> QED
      BY <3>1, <3>2
  <2>11. MayStore(first, p.n, <<"lf">>, TRUE)
    BY <2>8, <2>10, Zenon DEF MayStore
  <2>12. StoresWell(first, p.n, <<"lf">>, TRUE)
    BY <2>2, <2>4, LinesFit, StoredFits
  <2>13. TableFits(store, StoreMax, StoreCap) /\ DOMAIN store \subseteq DOMAIN first \cup {p.n}
    BY <2>12, Zenon DEF StoresWell
  <2>14. store = Put(first, p.n, u)
    BY <2>8, <2>11, <2>12, Zenon DEF StoresWell
  <2>15. In(store, p.n) = {u}
    BY ONLY <2>14, PutTells
  <2>16. media'[p.d] = store
    BY <2>1, <2>2 DEF DrivesTypeOK
  <2>17. Read(p)' = {u}
    BY <2>1, <2>5, <2>15, <2>16, StoreReads DEF OthersStay
  <2>18. told' \in {"refused", "done"}
    BY <2>1, <2>17, SaidSo
  <2> QED
    BY <2>1, <2>2, <2>4, <2>13, <2>18, StoreKeeps DEF Given
<1> QED
  BY <1>2, <1>3

LEMMA CmdWriteKeeps ==
  ASSUME DrivesTypeOK, BledAreGone, left' \in Nat, NEW p \in Paths, NEW w \in Words, CmdWrite(p, w)
  PROVE  DrivesInv'
<1>1. CASE ToMedia(p)
  BY <1>1, LineToStoreKeeps DEF CmdWrite
<1>2. CASE ~ToMedia(p) /\ MayOpen(p.n)
  BY <1>2, LinesFit, FileWritten DEF CmdWrite
<1>3. CASE ~ToMedia(p) /\ ~MayOpen(p.n)
  BY <1>3, RefusedAsItWas DEF CmdWrite
<1> QED
  BY <1>1, <1>2, <1>3

\* What append puts under the line is what the name reads as, or nothing.
LEMMA CoveredIsRead ==
  ASSUME DrivesTypeOK, BledAreGone, NEW n \in PathNames, NEW t \in Cover(n), NEW u \in First(<<Open(n), {<<>>}>>)
  PROVE  u = t /\ t \in Seq(Chars) /\ Len(t) <= SlotCap /\ (n \in DOMAIN ram => t = ram[n])
<1> PICK a : a = Open(n)
  OBVIOUS
<1>1. /\ a # {} => u \in a
      /\ a = {} => u = <<>>
  <2>1. PICK i \in DOMAIN <<a, {<<>>}>> : u \in <<a, {<<>>}>>[i] /\ \A j \in 1 .. (i - 1) : <<a, {<<>>}>>[j] = {}
    BY DEF First
  <2>2. i = 1 \/ i = 2
    BY <2>1
  <2> QED
    BY <2>1, <2>2
<1>2. CASE n \in DOMAIN ram
  <2>1. a = {ram[n]} /\ t = ram[n]
    BY <1>2 DEF Open, In, Cover
  <2>2. t \in In(ram, n)
    BY <1>2, <2>1 DEF In
  <2> QED
    BY <1>1, <2>1, <2>2, TableFacts, HeldFits
<1>3. CASE n \notin DOMAIN ram /\ OpenReadonly(n) = {}
  BY <1>1, <1>3, TableFacts DEF Open, Cover
<1>4. CASE n \notin DOMAIN ram /\ OpenReadonly(n) # {}
  <2>1. n \in DOMAIN Built /\ OpenReadonly(n) = {Built[n]}
    BY <1>4 DEF OpenReadonly, In
  <2>2. t = Built[n] /\ Len(t) <= SlotCap /\ a = {Built[n]}
    BY <1>4, <2>1 DEF Open, Cover
  <2>3. Built[n] \in Seq(Chars)
    BY <2>1, ShellFilesAssumption
  <2> QED
    BY <1>1, <1>4, <2>2, <2>3
<1> QED
  BY <1>2, <1>3, <1>4

LEMMA AppendToKeeps ==
  ASSUME DrivesTypeOK, BledAreGone, left' \in Nat, NEW p \in Paths, NEW w \in Words, AppendTo(p, w)
  PROVE  DrivesInv'
<1>0. p.n \in PathNames
  BY DEF Paths
<1>1. CASE ToMedia(p)
  BY <1>1, LineToStoreKeeps DEF AppendTo
<1>2. CASE ~ToMedia(p) /\ ~MayOpen(p.n)
  BY <1>2, RefusedAsItWas DEF AppendTo
<1>3. CASE ~ToMedia(p) /\ MayOpen(p.n) /\ Cover(p.n) = {}
  BY <1>0, <1>3, RefusedMade DEF AppendTo
<1>4. CASE ~ToMedia(p) /\ MayOpen(p.n) /\ Cover(p.n) # {}
  <2> PICK t \in Cover(p.n) :
        IF Len(t \o Line(w)) <= SlotCap
        THEN \E u \in First(<<Open(p.n), {<<>>}>>) : ToTable(p, u \o Line(w), Put(ram, p.n, t \o Line(w)))
        ELSE Refused(Put(ram, p.n, t))
    BY <1>4, Zenon DEF AppendTo
  <2>1. First(<<Open(p.n), {<<>>}>>) # {}
    <3> PICK a : a = Open(p.n)
      OBVIOUS
    <3>1. IF a = {} THEN <<>> \in First(<<a, {<<>>}>>) ELSE a \subseteq First(<<a, {<<>>}>>)
      BY DEF First
    <3> QED
      BY <3>1
  <2> PICK v \in First(<<Open(p.n), {<<>>}>>) : TRUE
    BY <2>1
  <2>2. t \in Seq(Chars) /\ Len(t) <= SlotCap /\ (p.n \in DOMAIN ram => t = ram[p.n])
    BY <1>0, CoveredIsRead
  <2> PICK x : x = t \o Line(w)
    OBVIOUS
  <2>3. CASE Len(x) <= SlotCap
    <3> PICK u \in First(<<Open(p.n), {<<>>}>>) : ToTable(p, u \o Line(w), Put(ram, p.n, x))
      BY <2>3, Zenon
    <3>1. u = t
      BY <1>0, CoveredIsRead
    <3>2. x \in Seq(Chars)
      BY ONLY <2>2, LinesFit, w \in Words, x = t \o Line(w)
    <3>3. ToTable(p, x, Put(ram, p.n, x))
      BY <3>1, Zenon
    <3> QED
      BY <1>4, <2>3, <3>2, <3>3, FileWritten
  <2>4. CASE ~(Len(x) <= SlotCap)
    <3>1. Refused(Put(ram, p.n, t))
      BY <2>4, Zenon
    <3>2. CASE p.n \notin DOMAIN ram
      BY <1>0, <1>4, <2>2, <3>1, <3>2, RefusedAfterPut
    <3>3. CASE p.n \in DOMAIN ram
      <4>1. TableFits(ram, FreeSlots, SlotCap)
        BY TableFacts
      <4>2. Put(ram, p.n, t) = ram
        BY <2>2, <3>3, <4>1 DEF Put, TableFits
      <4> QED
        BY <3>1, <4>2, RefusedAsItWas
    <3> QED
      BY <3>2, <3>3
  <2> QED
    BY <2>3, <2>4
<1> QED
  BY <1>1, <1>2, <1>3, <1>4

LEMMA MediaWriteKeeps ==
  ASSUME DrivesTypeOK, BledAreGone, left' \in Nat, NEW d \in Range(Stores), NEW n \in PathNames,
         NEW w \in Words, NEW append \in BOOLEAN, MediaWrite(d, n, w, append)
  PROVE  DrivesInv'
<1> PICK p : p = [d |-> d, n |-> n]
  OBVIOUS
<1>1. p \in Paths /\ ToMedia(p)
  BY DEF Paths, Drives, ToMedia
<1>2. ToStore(p, w, append)
  BY Zenon DEF MediaWrite
<1> QED
  BY <1>1, <1>2, LinesFit, ToStoreKeeps

LEMMA StoreFacts ==
  ASSUME DrivesTypeOK, NEW d \in Range(Stores)
  PROVE  TableFits(media[d], StoreMax, StoreCap) /\ StoreMax \in Nat /\ StoreCap \in Nat
BY ShellFilesAssumption DEF DrivesTypeOK

LEMMA MediaDeleteKeeps ==
  ASSUME DrivesTypeOK, BledAreGone, left' \in Nat, NEW d \in Range(Stores), NEW n \in PathNames, MediaDelete(d, n)
  PROVE  DrivesInv'
<1> PICK s : s = media[d]
  OBVIOUS
<1> PICK store : store = Out(s, n)
  OBVIOUS
<1>1. media' = [media EXCEPT ![d] = store]
  BY DEF MediaDelete
<1>2. TableFits(store, StoreMax, StoreCap)
  BY StoreFacts, OutFits
<1>3. DOMAIN store \subseteq DOMAIN s
  BY OutDomain
<1> QED
  BY <1>1, <1>2, <1>3, StoreKeeps DEF MediaDelete, Done, OthersStay

LEMMA CmdRenameKeeps ==
  ASSUME DrivesTypeOK, BledAreGone, left' \in Nat, NEW n \in PathNames, NEW m \in PathNames, CmdRename(n, m)
  PROVE  DrivesInv'
<1>1. CASE n \notin DOMAIN ram \/ (m # n /\ m \in DOMAIN ram)
  BY <1>1, RefusedAsItWas DEF CmdRename
<1>2. CASE ~(n \notin DOMAIN ram \/ (m # n /\ m \in DOMAIN ram))
  <2> PICK p : p = [d |-> "R", n |-> m]
    OBVIOUS
  <2>1. p \in Paths /\ ~ToMedia(p) /\ p.n = m
    BY StoresAreDrives DEF Paths, Drives, ToMedia
  <2> PICK t : t = ram[n]
    OBVIOUS
  <2>2. t \in Seq(Chars) /\ Len(t) <= SlotCap
    BY <1>2, TableFacts DEF TableFits
  <2> PICK kept : kept = Out(ram, n)
    OBVIOUS
  <2>3. TableFits(kept, FreeSlots, SlotCap) /\ Cardinality(DOMAIN kept) < FreeSlots
    BY <1>2, TableFacts, OutFits
  <2> PICK table : table = Put(kept, m, t)
    OBVIOUS
  <2>4. TableFits(table, FreeSlots, SlotCap)
    BY <2>2, <2>3, TableFacts, PutFits
  <2>5. In(table, m) = {t}
    BY ONLY PutTells, table = Put(kept, m, t)
  <2>6. ASSUME NEW k \in bled \ {m} PROVE In(table, k) \subseteq {<<>>}
    <3>1. In(table, k) = In(kept, k)
      BY ONLY <2>6, PutLeaves, table = Put(kept, m, t)
    <3>2. In(kept, k) \subseteq In(ram, k)
      BY DEF In, Out
    <3> QED
      BY <3>1, <3>2, TableFacts
  <2>7. ToTable(p, t, table)
    BY <1>2, Zenon DEF CmdRename
  <2> QED
    BY <2>1, <2>4, <2>5, <2>6, <2>7, ToTableKeeps
<1> QED
  BY <1>1, <1>2

\* A step after which the table and each store fit, and no name that is still
\* bled came into one of them.
LEMMA PlacesKeep ==
  ASSUME DrivesTypeOK, BledAreGone, left' \in Nat, told' \in {"refused", "done"},
         TableFits(ram', FreeSlots, SlotCap), \A m \in bled' : In(ram', m) \subseteq {<<>>},
         media' = [d \in Range(Stores) |-> media'[d]],
         \A d \in Range(Stores) :
           /\ TableFits(media'[d], StoreMax, StoreCap)
           /\ \A m \in bled' : m \in DOMAIN media'[d] => m \in DOMAIN media[d],
         OthersStay, bled' \subseteq bled
  PROVE  DrivesInv'
<1>1. DrivesTypeOK'
  BY DEF DrivesTypeOK, OthersStay
<1>2. BledAreGone'
  BY DEF BledAreGone, StaysGone, GoneFrom, OthersStay
<1> QED
  BY <1>1, <1>2 DEF DrivesInv, SaidIsDone

\* A text that moves into a store.
LEMMA MovedToStore ==
  ASSUME DrivesTypeOK, BledAreGone, left' \in Nat, NEW p \in Paths, NEW q \in Paths, ToMedia(q),
         NEW t \in Seq(Chars), NEW s, s = Stored(media[q.d], q.n, t, FALSE),
         NEW ok, ok = MayStore(media[q.d], q.n, t, FALSE),
         media' = [media EXCEPT ![q.d] = IF ok /\ p.d = q.d THEN Out(s, p.n) ELSE s],
         Given({q.n}), UNCHANGED ram, OthersStay,
         IF ok /\ p = q THEN Done ELSE Said(ok, q, t)
  PROVE  DrivesInv'
<1> PICK old : old = media[q.d]
  OBVIOUS
<1> PICK store : store = IF ok /\ p.d = q.d THEN Out(s, p.n) ELSE s
  OBVIOUS
<1>1. q.d \in Range(Stores) /\ q.n \in PathNames
  BY DEF ToMedia, Paths
<1>2. TableFits(old, StoreMax, StoreCap) /\ StoreMax \in Nat /\ StoreCap \in Nat
  BY <1>1, StoreFacts
<1>3. StoresWell(old, q.n, t, FALSE)
  BY <1>1, <1>2, StoredFits
<1>4. TableFits(s, StoreMax, StoreCap) /\ DOMAIN s \subseteq DOMAIN old \cup {q.n}
  BY <1>3, Zenon DEF StoresWell
<1>5. Start(old, q.n, FALSE) \o t = t
  BY DEF Start
<1>6. ok => ~locked /\ s = Put(old, q.n, t)
  BY <1>3, <1>5, Zenon DEF StoresWell
<1>7. TableFits(Out(s, p.n), StoreMax, StoreCap) /\ DOMAIN Out(s, p.n) \subseteq DOMAIN s
  <2>1. TableFits(Out(s, p.n), StoreMax, StoreCap)
    BY <1>2, <1>4, OutFits
  <2> QED
    BY <2>1, OutDomain
<1>8. TableFits(store, StoreMax, StoreCap) /\ DOMAIN store \subseteq DOMAIN old \cup {q.n}
  BY <1>4, <1>7
<1>9. media' = [media EXCEPT ![q.d] = store] /\ media'[q.d] = store
  BY <1>1 DEF DrivesTypeOK
<1>10. told' \in {"refused", "done"}
  <2>1. CASE ok /\ p = q
    BY <2>1 DEF Done
  <2>2. CASE ~(ok /\ p = q)
    <3>1. Said(ok, q, t)
      BY <2>2
    <3>2. ASSUME ok PROVE Read(q)' = {t}
      <4>1. In(s, q.n) = {t}
        BY ONLY <1>6, <3>2, PutTells
      <4>2. In(store, q.n) = {t}
        <5>1. CASE p.d = q.d
          <6>1. p.n # q.n
            <7>1. p # q
              BY <2>2, <3>2
            <7> QED
              BY ONLY <5>1, <7>1, p \in Paths, q \in Paths DEF Paths
          <6>2. In(Out(s, p.n), q.n) = In(s, q.n)
            BY ONLY <6>1, OutLeaves
          <6> QED
            BY <4>1, <5>1, <6>2, <3>2
        <5>2. CASE p.d # q.d
          BY <4>1, <5>2
        <5> QED
          BY <5>1, <5>2
      <4>3. ~locked' /\ In(media'[q.d], q.n) = {t}
        BY <1>6, <1>9, <3>2, <4>2 DEF OthersStay
      <4> QED
        BY <4>3, StoreReads
    <3> QED
      BY <3>1, <3>2, SaidSo
  <2> QED
    BY <2>1, <2>2
<1> QED
  BY <1>1, <1>8, <1>9, <1>10, StoreKeeps DEF Given

\* A text that moves into the table.
LEMMA MovedToTable ==
  ASSUME DrivesTypeOK, BledAreGone, left' \in Nat, NEW p \in Paths, NEW q \in Paths, ~ToMedia(q),
         NEW t \in Seq(Chars), q.n \in DOMAIN ram, Len(t) <= SlotCap,
         ram' = IF p.n \in DOMAIN ram /\ p.n # q.n THEN Put(Put(ram, q.n, t), p.n, <<>>) ELSE Put(ram, q.n, t),
         media' = IF ToMedia(p) THEN [media EXCEPT ![p.d] = Out(@, p.n)] ELSE media,
         Given({q.n}), OthersStay, Said(TRUE, q, t)
  PROVE  DrivesInv'
<1> PICK put : put = Put(ram, q.n, t)
  OBVIOUS
<1> PICK emptied : emptied = Put(put, p.n, <<>>)
  OBVIOUS
<1>1. p.n \in PathNames /\ q.n \in PathNames
  BY DEF Paths
<1>2. ram' = IF p.n \in DOMAIN ram /\ p.n # q.n THEN emptied ELSE put
  BY Zenon
<1>3. TableFits(put, FreeSlots, SlotCap)
  BY <1>1, TableFacts, PutFits
<1>4. DOMAIN put = DOMAIN ram \cup {q.n}
  BY ONLY PutDomain, put = Put(ram, q.n, t)
<1>5. p.n \in DOMAIN ram => TableFits(emptied, FreeSlots, SlotCap)
  <2>1. <<>> \in Seq(Chars) /\ Len(<<>>) <= SlotCap
    BY TableFacts
  <2> QED
    BY <2>1, <1>1, <1>3, <1>4, TableFacts, PutFits
<1>6. In(put, q.n) = {t}
  BY ONLY PutTells, put = Put(ram, q.n, t)
<1>7. ASSUME NEW m, m # q.n PROVE In(put, m) = In(ram, m)
  BY ONLY <1>7, PutLeaves, put = Put(ram, q.n, t)
<1>8. ASSUME NEW m, m # p.n PROVE In(emptied, m) = In(put, m)
  BY ONLY <1>8, PutLeaves, emptied = Put(put, p.n, <<>>)
<1>9. In(emptied, p.n) = {<<>>}
  BY ONLY PutTells, emptied = Put(put, p.n, <<>>)
<1>10. TableFits(ram', FreeSlots, SlotCap)
  BY <1>2, <1>3, <1>5
<1>11. In(ram', q.n) = {t}
  BY <1>2, <1>6, <1>8
<1>12. ASSUME NEW m \in bled' PROVE m \in bled /\ m # q.n /\ In(ram', m) \subseteq {<<>>}
  <2>1. m \in bled /\ m # q.n
    BY <1>12 DEF Given
  <2>2. In(put, m) \subseteq {<<>>}
    BY <2>1, <1>7, TableFacts
  <2>3. In(emptied, m) \subseteq {<<>>}
    BY <2>2, <1>8, <1>9
  <2> QED
    BY <1>2, <2>1, <2>2, <2>3
<1>13. told' \in {"refused", "done"}
  BY <1>11, TableReads, SaidSo
<1>14. /\ media' = [d \in Range(Stores) |-> media'[d]]
       /\ \A d \in Range(Stores) : media'[d] = media[d] \/ media'[d] = Out(media[d], p.n)
  BY DEF DrivesTypeOK, ToMedia
<1>15. ASSUME NEW d \in Range(Stores)
       PROVE  TableFits(media'[d], StoreMax, StoreCap) /\ DOMAIN media'[d] \subseteq DOMAIN media[d]
  <2>1. TableFits(Out(media[d], p.n), StoreMax, StoreCap)
    BY StoreFacts, OutFits
  <2>2. DOMAIN Out(media[d], p.n) \subseteq DOMAIN media[d]
    BY OutDomain
  <2> QED
    BY <1>14, <2>1, <2>2, StoreFacts
<1> QED
  BY <1>10, <1>12, <1>13, <1>14, <1>15, PlacesKeep

LEMMA DosRenameKeeps ==
  ASSUME DrivesTypeOK, BledAreGone, left' \in Nat, NEW p \in Paths, NEW q \in Paths, DosRename(p, q)
  PROVE  DrivesInv'
<1>1. CASE ToMedia(q)
  <2> PICK t \in DosRead(p) :
        LET s == Stored(media[q.d], q.n, t, FALSE)
            ok == MayStore(media[q.d], q.n, t, FALSE)
        IN /\ media' = [media EXCEPT ![q.d] = IF ok /\ p.d = q.d THEN Out(s, p.n) ELSE s]
           /\ Given({q.n}) /\ UNCHANGED ram /\ OthersStay
           /\ IF ok /\ p = q THEN Done ELSE Said(ok, q, t)
    BY <1>1, Zenon DEF DosRename
  <2>1. t \in Seq(Chars)
    BY ReadsAreTexts
  <2> QED
    BY <1>1, <2>1, MovedToStore
<1>2. CASE ~ToMedia(q)
  <2> PICK t \in DosRead(p) :
        IF q.n \notin DOMAIN ram \/ Len(t) > SlotCap THEN Refused(ram)
        ELSE /\ ram' = IF p.n \in DOMAIN ram /\ p.n # q.n THEN Put(Put(ram, q.n, t), p.n, <<>>)
                       ELSE Put(ram, q.n, t)
             /\ media' = IF ToMedia(p) THEN [media EXCEPT ![p.d] = Out(@, p.n)] ELSE media
             /\ Given({q.n}) /\ OthersStay
             /\ Said(TRUE, q, t)
    BY <1>2, Zenon DEF DosRename
  <2>1. t \in Seq(Chars)
    BY ReadsAreTexts
  <2>2. CASE q.n \notin DOMAIN ram \/ Len(t) > SlotCap
    BY <2>2, RefusedAsItWas
  <2>3. CASE ~(q.n \notin DOMAIN ram \/ Len(t) > SlotCap)
    <3>1. q.n \in DOMAIN ram /\ Len(t) <= SlotCap
      <4>1. Len(t) \in Nat
        BY ONLY <2>1
      <4> QED
        BY <2>3, <4>1, TableFacts
    <3> QED
      BY <1>2, <2>1, <2>3, <3>1, MovedToTable
  <2> QED
    BY <2>2, <2>3
<1> QED
  BY <1>1, <1>2

\* What hiding and deleting leave of the built-in files.
LEMMA ErasedKeepsOrder ==
  ASSUME DrivesTypeOK, NEW n
  PROVE  /\ OutOfSight(Erased(n)) /\ over.deleted \subseteq Erased(n).deleted
         /\ n \in DOMAIN Built /\ MayErase(n) => n \in Erased(n).deleted
<1> PICK D : D = DOMAIN Built
  OBVIOUS
<1> PICK h : h = over.hidden \ {n}
  OBVIOUS
<1> PICK e : e = IF MayErase(n) THEN over.deleted \cup {n} ELSE over.deleted
  OBVIOUS
<1>1. /\ OutOfSight(over) /\ DeletedMax \in Nat /\ HiddenMax \in Nat
      /\ over.hidden \subseteq D /\ over.deleted \subseteq D /\ over.hidden \cap over.deleted = {}
      /\ IsFiniteSet(over.hidden) /\ Cardinality(over.hidden) <= HiddenMax
      /\ IsFiniteSet(over.deleted) /\ Cardinality(over.deleted) <= DeletedMax
  BY ShellFilesAssumption DEF DrivesTypeOK, OutOfSight
<1>2. CASE n \notin D
  BY <1>1, <1>2 DEF Erased
<1>3. CASE n \in D
  <2>1. Erased(n) = [hidden |-> h, deleted |-> e]
    BY <1>3, Zenon DEF Erased
  <2>2. IsFiniteSet(h) /\ Cardinality(h) <= HiddenMax
    <3>1. Cardinality(over.hidden) \in Nat
      BY <1>1, FS_CardinalityType
    <3>2. IsFiniteSet(h) /\ Cardinality(h) = IF n \in over.hidden THEN Cardinality(over.hidden) - 1 ELSE Cardinality(over.hidden)
      BY <1>1, FS_RemoveElement, Zenon
    <3> QED
      BY <1>1, <3>1, <3>2
  <2>3. IsFiniteSet(e) /\ Cardinality(e) <= DeletedMax
    <3>1. Cardinality(over.deleted) \in Nat
      BY <1>1, FS_CardinalityType
    <3>2. CASE MayErase(n)
      <4>1. IsFiniteSet(e) /\ Cardinality(e) = IF n \in over.deleted THEN Cardinality(over.deleted) ELSE Cardinality(over.deleted) + 1
        BY <1>1, <3>2, FS_AddElement, Zenon
      <4>2. n \in over.deleted \/ Cardinality(over.deleted) < DeletedMax
        BY <3>2 DEF MayErase
      <4> QED
        BY <1>1, <3>1, <4>1, <4>2
    <3>3. CASE ~MayErase(n)
      BY <1>1, <3>3
    <3> QED
      BY <3>2, <3>3
  <2>4. h \subseteq D /\ e \subseteq D /\ h \cap e = {} /\ over.deleted \subseteq e /\ (MayErase(n) => n \in e)
    BY <1>1, <1>3
  <2> QED
    BY <2>1, <2>2, <2>3, <2>4 DEF OutOfSight
<1> QED
  BY <1>2, <1>3

LEMMA EmptiedFits ==
  ASSUME DrivesTypeOK, NEW n
  PROVE  /\ TableFits(Emptied(n), FreeSlots, SlotCap)
         /\ In(Emptied(n), n) \subseteq {<<>>}
         /\ \A m : In(Emptied(n), m) \subseteq In(ram, m) \cup {<<>>}
<1>1. TableFits(ram, FreeSlots, SlotCap) /\ FreeSlots \in Nat /\ SlotCap \in Nat
  BY ShellFilesAssumption DEF DrivesTypeOK
<1>2. CASE n \in DOMAIN ram
  <2> PICK put : put = Put(ram, n, <<>>)
    OBVIOUS
  <2>1. Emptied(n) = put
    BY <1>2, Zenon DEF Emptied
  <2>2. n \in PathNames
    BY <1>1, <1>2 DEF TableFits
  <2>3. <<>> \in Seq(Chars) /\ Len(<<>>) <= SlotCap
    BY <1>1
  <2>4. TableFits(put, FreeSlots, SlotCap)
    BY <1>1, <1>2, <2>2, <2>3, PutFits
  <2>5. In(put, n) = {<<>>}
    BY ONLY PutTells, put = Put(ram, n, <<>>)
  <2>6. ASSUME NEW m, m # n PROVE In(put, m) = In(ram, m)
    BY ONLY <2>6, PutLeaves, put = Put(ram, n, <<>>)
  <2>7. \A m : In(put, m) \subseteq In(ram, m) \cup {<<>>}
    BY <2>5, <2>6
  <2> QED
    BY <2>1, <2>4, <2>5, <2>7, Zenon
<1>3. CASE n \notin DOMAIN ram
  <2>1. Emptied(n) = ram
    BY <1>3, Zenon DEF Emptied
  <2>2. In(ram, n) = {}
    BY <1>3 DEF In
  <2> QED
    BY <1>1, <2>1, <2>2
<1> QED
  BY <1>2, <1>3

\* A name that is gone stays gone where the table empties a file and the records
\* of deleted files only grow.
LEMMA StaysGoneThere ==
  ASSUME NEW r, NEW o, NEW s, NEW x, NEW m, GoneFrom(r, o, m),
         In(s, m) \subseteq In(r, m) \cup {<<>>}, o.deleted \subseteq x.deleted
  PROVE  GoneFrom(s, x, m)
BY DEF GoneFrom

LEMMA DeleteKeeps ==
  ASSUME DrivesTypeOK, BledAreGone, left' \in Nat, NEW n \in PathNames, NEW force \in BOOLEAN, Delete(n, force)
  PROVE  DrivesInv'
<1>1. TableFits(ram', FreeSlots, SlotCap) /\ \A m : In(ram', m) \subseteq In(ram, m) \cup {<<>>}
  BY EmptiedFits DEF Delete
<1>2. OutOfSight(over') /\ over.deleted \subseteq over'.deleted
  BY ErasedKeepsOrder DEF Delete, DrivesTypeOK
<1>3. DrivesTypeOK'
  BY <1>1, <1>2 DEF Delete, DrivesTypeOK
<1>4. ASSUME NEW m \in bled PROVE StaysGone(m)'
  <2>1. GoneFrom(ram, over, m) /\ GoneFrom(saved.ram, saved.over, m) /\ \A d \in Range(Stores) : m \notin DOMAIN media[d]
    BY DEF BledAreGone, StaysGone
  <2>2. GoneFrom(ram', over', m)
    BY <1>1, <1>2, <2>1, StaysGoneThere
  <2> QED
    BY <2>1, <2>2 DEF StaysGone, Delete
<1> QED
  BY <1>3, <1>4 DEF DrivesInv, BledAreGone, SaidIsDone, Delete

LEMMA BleedKeeps ==
  ASSUME DrivesTypeOK, BledAreGone, left' \in Nat, NEW p \in Paths, Bleed(p)
  PROVE  DrivesInv'
<1> PICK n \in PathNames : n = p.n
  BY DEF Paths
<1> PICK ds : ds = CASE p.d = "all" -> {"R", "X"} \cup Range(Stores)
                     [] p.d = "X" -> {"R", "X"}
                     [] OTHER -> {p.d}
  OBVIOUS
<1> PICK ns : ns = IF p.d = "all" /\ ~locked /\ (n \in DOMAIN Built => MayErase(n)) THEN {n} ELSE {}
  OBVIOUS
<1>1. PICK ok : BleedPlaces(ns, ds, n, ok)
  BY Zenon DEF Bleed
<1>2. told' \in {"refused", "done"}
  BY DEF Bleed
<1>3. /\ TableFits(ram', FreeSlots, SlotCap) /\ \A m : In(ram', m) \subseteq In(ram, m) \cup {<<>>}
      /\ "R" \in ds => In(ram', n) \subseteq {<<>>}
  BY <1>1, EmptiedFits DEF BleedPlaces, DrivesTypeOK
<1>4. /\ OutOfSight(over') /\ over.deleted \subseteq over'.deleted
      /\ "X" \in ds /\ n \in DOMAIN Built /\ MayErase(n) => n \in over'.deleted
  BY <1>1, ErasedKeepsOrder DEF BleedPlaces, DrivesTypeOK
<1>5. media' = [d \in Range(Stores) |-> IF d \in ds /\ ~locked THEN Out(media[d], n) ELSE media[d]]
  BY <1>1 DEF BleedPlaces, DrivesTypeOK
<1>6. ASSUME NEW d \in Range(Stores)
      PROVE  /\ TableFits(media'[d], StoreMax, StoreCap) /\ DOMAIN media'[d] \subseteq DOMAIN media[d]
             /\ d \in ds /\ ~locked => n \notin DOMAIN media'[d]
  <2>1. TableFits(Out(media[d], n), StoreMax, StoreCap)
    BY StoreFacts, OutFits
  <2>2. DOMAIN Out(media[d], n) = DOMAIN media[d] \ {n}
    BY OutDomain
  <2> QED
    BY <1>5, <2>1, <2>2, StoreFacts
<1>7. saved' = saved \/ (saved' = [ram |-> ram', over |-> over'])
  BY <1>1 DEF BleedPlaces
<1>8. bled' = bled \/ (bled' = bled \cup ns /\ saved' = [ram |-> ram', over |-> over'])
  BY <1>1 DEF BleedPlaces
<1>9. DrivesTypeOK'
  <2>1. ns \subseteq PathNames
    OBVIOUS
  <2>2. bled' \in SUBSET PathNames /\ locked' \in BOOLEAN
    BY <1>1, <1>8, <2>1 DEF DrivesTypeOK, BleedPlaces
  <2>3. /\ media' = [d \in Range(Stores) |-> media'[d]]
        /\ \A d \in Range(Stores) : TableFits(media'[d], StoreMax, StoreCap)
    BY <1>5, <1>6
  <2>4. /\ saved' = [ram |-> saved'.ram, over |-> saved'.over]
        /\ TableFits(saved'.ram, FreeSlots, SlotCap) /\ OutOfSight(saved'.over)
    BY <1>3, <1>4, <1>7 DEF DrivesTypeOK
  <2> QED
    BY <1>2, <1>3, <1>4, <2>2, <2>3, <2>4 DEF DrivesTypeOK
<1>10. ASSUME NEW m \in bled PROVE StaysGone(m)'
  <2>1. GoneFrom(ram, over, m) /\ GoneFrom(saved.ram, saved.over, m) /\ \A d \in Range(Stores) : m \notin DOMAIN media[d]
    BY DEF BledAreGone, StaysGone
  <2>2. GoneFrom(ram', over', m)
    BY <1>3, <1>4, <2>1, StaysGoneThere
  <2>3. GoneFrom(saved'.ram, saved'.over, m)
    BY <1>7, <2>1, <2>2
  <2>4. \A d \in Range(Stores) : m \notin DOMAIN media'[d]
    BY <1>6, <2>1
  <2> QED
    BY <2>2, <2>3, <2>4 DEF StaysGone
<1>11. ASSUME n \in ns, saved' = [ram |-> ram', over |-> over'] PROVE StaysGone(n)'
  <2>1. p.d = "all" /\ ~locked /\ (n \in DOMAIN Built => MayErase(n))
    BY <1>11
  <2>2. ds = {"R", "X"} \cup Range(Stores)
    BY <2>1, Zenon
  <2>3. GoneFrom(ram', over', n)
    BY <1>3, <1>4, <2>1, <2>2 DEF GoneFrom
  <2>4. GoneFrom(saved'.ram, saved'.over, n)
    BY <1>11, <2>3
  <2>5. \A d \in Range(Stores) : n \notin DOMAIN media'[d]
    BY <1>6, <2>1, <2>2
  <2> QED
    BY <2>3, <2>4, <2>5 DEF StaysGone
<1>12. BledAreGone'
  <2> SUFFICES ASSUME NEW m \in bled' PROVE StaysGone(m)'
    BY DEF BledAreGone
  <2>1. CASE m \in bled
    BY <2>1, <1>10
  <2>2. CASE m \notin bled
    BY <2>2, <1>8, <1>11
  <2> QED
    BY <2>1, <2>2
<1> QED
  BY <1>2, <1>9, <1>12 DEF DrivesInv, SaidIsDone

\* A step that changes what is out of sight, of names it gives back if at all.
LEMMA SightKeeps ==
  ASSUME DrivesTypeOK, BledAreGone, left' \in Nat, told' = "done",
         OutOfSight(over'), bled' \subseteq bled, \A m \in bled' : m \in over.deleted => m \in over'.deleted,
         UNCHANGED <<ram, media, locked, saved>>
  PROVE  DrivesInv'
<1>1. DrivesTypeOK'
  BY DEF DrivesTypeOK
<1>2. BledAreGone'
  BY DEF BledAreGone, StaysGone, GoneFrom
<1> QED
  BY <1>1, <1>2 DEF DrivesInv, SaidIsDone

LEMMA SightFacts ==
  ASSUME DrivesTypeOK
  PROVE  /\ OutOfSight(over) /\ over = [hidden |-> over.hidden, deleted |-> over.deleted]
         /\ over.hidden \subseteq DOMAIN Built /\ over.deleted \subseteq DOMAIN Built
         /\ over.hidden \cap over.deleted = {} /\ DeletedMax \in Nat /\ HiddenMax \in Nat
         /\ IsFiniteSet(over.hidden) /\ Cardinality(over.hidden) <= HiddenMax /\ Cardinality(over.hidden) \in Nat
         /\ IsFiniteSet(over.deleted) /\ Cardinality(over.deleted) <= DeletedMax /\ Cardinality(over.deleted) \in Nat
BY ShellFilesAssumption, FS_CardinalityType DEF DrivesTypeOK, OutOfSight

\* Fewer names out of sight fit where more did.
LEMMA LessOutOfSight ==
  ASSUME DrivesTypeOK, NEW h, NEW e, h \subseteq over.hidden, e \subseteq over.deleted
  PROVE  OutOfSight([hidden |-> h, deleted |-> e])
<1>1. IsFiniteSet(h) /\ Cardinality(h) <= Cardinality(over.hidden) /\ Cardinality(h) \in Nat
  BY SightFacts, FS_Subset, FS_CardinalityType
<1>2. IsFiniteSet(e) /\ Cardinality(e) <= Cardinality(over.deleted) /\ Cardinality(e) \in Nat
  BY SightFacts, FS_Subset, FS_CardinalityType
<1>3. Cardinality(h) <= HiddenMax /\ Cardinality(e) <= DeletedMax
  BY <1>1, <1>2, SightFacts
<1> PICK D : D = DOMAIN Built
  OBVIOUS
<1>4. h \subseteq D /\ e \subseteq D /\ h \cap e = {}
  BY SightFacts
<1> QED
  BY <1>1, <1>2, <1>3, <1>4 DEF OutOfSight

LEMMA HideKeeps ==
  ASSUME DrivesTypeOK, BledAreGone, left' \in Nat, NEW n \in PathNames, Hide(n)
  PROVE  DrivesInv'
<1> PICK h : h = over.hidden \cup {n}
  OBVIOUS
<1> PICK e : e = over.deleted
  OBVIOUS
<1>1. over' = [hidden |-> h, deleted |-> e]
  BY SightFacts DEF Hide
<1>2. n \in DOMAIN Built \ over.deleted /\ (n \in over.hidden \/ Cardinality(over.hidden) < HiddenMax)
  BY DEF Hide
<1>3. IsFiniteSet(h) /\ Cardinality(h) <= HiddenMax
  <2>1. IsFiniteSet(h) /\ Cardinality(h) = IF n \in over.hidden THEN Cardinality(over.hidden) ELSE Cardinality(over.hidden) + 1
    BY SightFacts, FS_AddElement, Zenon
  <2> QED
    BY <1>2, <2>1, SightFacts
<1> PICK D : D = DOMAIN Built
  OBVIOUS
<1>4. h \subseteq D /\ e \subseteq D /\ h \cap e = {}
  BY <1>2, SightFacts
<1>5. OutOfSight(over')
  BY <1>1, <1>3, <1>4, SightFacts DEF OutOfSight
<1> QED
  BY <1>1, <1>5, SightKeeps DEF Hide, Done

LEMMA ShowsKeeps ==
  ASSUME DrivesTypeOK, BledAreGone, left' \in Nat, NEW h, NEW e, NEW ns,
         h \subseteq over.hidden, e \subseteq over.deleted, over.deleted \cap bled \subseteq e \cup ns,
         Shows([hidden |-> h, deleted |-> e], ns)
  PROVE  DrivesInv'
<1>1. over' = [hidden |-> h, deleted |-> e] /\ OutOfSight(over') /\ over'.deleted = e
  BY LessOutOfSight DEF Shows
<1>2. bled' \subseteq bled /\ \A m \in bled' : m \in over.deleted => m \in over'.deleted
  BY <1>1 DEF Shows, Given
<1> QED
  BY <1>1, <1>2, SightKeeps DEF Shows, Done

LEMMA RestoreKeeps ==
  ASSUME DrivesTypeOK, BledAreGone, left' \in Nat, NEW n \in PathNames, Restore(n)
  PROVE  DrivesInv'
<1> PICK h : h = over.hidden \ {n}
  OBVIOUS
<1> PICK e : e = over.deleted
  OBVIOUS
<1>1. Shows([hidden |-> h, deleted |-> e], {n})
  <2>1. [over EXCEPT !.hidden = over.hidden \ {n}] = [hidden |-> h, deleted |-> e]
    BY SightFacts
  <2> QED
    BY <2>1, Zenon DEF Restore
<1> QED
  BY <1>1, ShowsKeeps

LEMMA DropKeeps ==
  ASSUME DrivesTypeOK, BledAreGone, left' \in Nat, NEW n \in PathNames, Drop(n)
  PROVE  DrivesInv'
BY ShowsKeeps DEF Drop

LEMMA ClearKeeps ==
  ASSUME DrivesTypeOK, BledAreGone, left' \in Nat, Clear
  PROVE  DrivesInv'
<1>1. \A m \in bled : m \in PathNames
  BY TableFacts
<1> QED
  BY <1>1, ShowsKeeps DEF Clear

\* What is kept is as it is now, what is loaded as it was saved.
LEMMA SaveAllKeeps ==
  ASSUME DrivesTypeOK, BledAreGone, left' \in Nat, SaveAll
  PROVE  DrivesInv'
<1>1. DrivesTypeOK'
  BY DEF DrivesTypeOK, SaveAll, Done
<1>2. BledAreGone'
  BY DEF BledAreGone, StaysGone, GoneFrom, SaveAll
<1> QED
  BY <1>1, <1>2 DEF DrivesInv, SaidIsDone, SaveAll, Done

LEMMA LoadSavedKeeps ==
  ASSUME DrivesTypeOK, BledAreGone, left' \in Nat, NEW boots \in BOOLEAN, LoadSaved(boots)
  PROVE  DrivesInv'
<1>1. DrivesTypeOK'
  <2>1. locked' \in BOOLEAN
    BY Zenon DEF LoadSaved
  <2> QED
    BY <2>1 DEF DrivesTypeOK, LoadSaved, Done
<1>2. BledAreGone'
  BY DEF BledAreGone, StaysGone, GoneFrom, LoadSaved
<1> QED
  BY <1>1, <1>2 DEF DrivesInv, SaidIsDone, LoadSaved, Done

LEMMA TurnKeeps ==
  ASSUME DrivesTypeOK, BledAreGone, left' \in Nat, Turn
  PROVE  DrivesInv'
<1>1. DrivesTypeOK'
  <2>1. locked' \in BOOLEAN
    BY Zenon DEF Turn
  <2> QED
    BY <2>1 DEF DrivesTypeOK, Turn, Done
<1>2. BledAreGone'
  BY DEF BledAreGone, StaysGone, GoneFrom, Turn
<1> QED
  BY <1>1, <1>2 DEF DrivesInv, SaidIsDone, Turn, Done

LEMMA DrivesInvInit == DrivesInit => DrivesInv
<1> SUFFICES ASSUME DrivesInit PROVE DrivesInv
  OBVIOUS
<1>1. TableFits(NothingYet, FreeSlots, SlotCap) /\ TableFits(NothingYet, StoreMax, StoreCap)
  BY EmptyFits, ShellFilesAssumption DEF NothingYet
<1>2. OutOfSight(over)
  <2>1. IsFiniteSet({}) /\ Cardinality({}) = 0
    BY FS_EmptySet
  <2> QED
    BY <2>1, ShellFilesAssumption DEF DrivesInit, OutOfSight
<1>3. DrivesTypeOK
  BY <1>1, <1>2, ShellFilesAssumption DEF DrivesInit, DrivesTypeOK
<1> QED
  BY <1>3 DEF DrivesInv, DrivesInit, BledAreGone, SaidIsDone

LEMMA DrivesInvStep == DrivesInv /\ [DrivesNext]_drivesVars => DrivesInv'
<1> SUFFICES ASSUME DrivesInv, [DrivesNext]_drivesVars PROVE DrivesInv'
  OBVIOUS
<1>1. CASE UNCHANGED drivesVars
  BY <1>1 DEF drivesVars, DrivesInv, DrivesTypeOK, BledAreGone, StaysGone, GoneFrom, SaidIsDone
<1>2. CASE DrivesNext
  <2>1. DrivesTypeOK /\ BledAreGone /\ left' \in Nat
    BY <1>2 DEF DrivesNext, DrivesInv, DrivesTypeOK
  <2>2. ASSUME NEW p \in Paths, NEW q \in Paths, Copy(p, q) \/ DosCopy(p, q) \/ DosRename(p, q) PROVE DrivesInv'
    BY <2>1, <2>2, CopyKeeps, DosCopyKeeps, DosRenameKeeps
  <2>3. ASSUME NEW p \in Paths, NEW w \in Words, CmdWrite(p, w) \/ AppendTo(p, w) PROVE DrivesInv'
    BY <2>1, <2>3, CmdWriteKeeps, AppendToKeeps
  <2>4. ASSUME NEW p \in Paths, Bleed(p) PROVE DrivesInv'
    BY <2>1, <2>4, BleedKeeps
  <2>5. ASSUME NEW n \in PathNames, NEW m \in PathNames, CmdRename(n, m) PROVE DrivesInv'
    BY <2>1, <2>5, CmdRenameKeeps
  <2>6. ASSUME NEW n \in PathNames, NEW force \in BOOLEAN, Delete(n, force) PROVE DrivesInv'
    BY <2>1, <2>6, DeleteKeeps
  <2>7. ASSUME NEW n \in PathNames, Hide(n) \/ Restore(n) \/ Drop(n) PROVE DrivesInv'
    BY <2>1, <2>7, HideKeeps, RestoreKeeps, DropKeeps
  <2>8. ASSUME NEW n \in PathNames, NEW d \in Range(Stores), NEW w \in Words, NEW append \in BOOLEAN,
               MediaWrite(d, n, w, append)
        PROVE  DrivesInv'
    BY <2>1, <2>8, MediaWriteKeeps
  <2>9. ASSUME NEW n \in PathNames, NEW d \in Range(Stores), MediaDelete(d, n) PROVE DrivesInv'
    BY <2>1, <2>9, MediaDeleteKeeps
  <2>10. CASE Clear \/ SaveAll \/ Turn
    BY <2>1, <2>10, ClearKeeps, SaveAllKeeps, TurnKeeps
  <2>11. ASSUME NEW boots \in BOOLEAN, LoadSaved(boots) PROVE DrivesInv'
    BY <2>1, <2>11, LoadSavedKeeps
  <2>12. Command
    BY <1>2 DEF DrivesNext
  <2> QED
    BY <2>2, <2>3, <2>4, <2>5, <2>6, <2>7, <2>8, <2>9, <2>10, <2>11, <2>12, Zenon DEF Command
<1> QED
  BY <1>1, <1>2

LEMMA DrivesInvHolds == DrivesSpec => []DrivesInv
BY DrivesInvInit, DrivesInvStep, PTL DEF DrivesSpec

\* The table of files, each store and the two tables of what is out of sight keep
\* to their room and hold names and texts, now and as they were saved, whatever
\* commands run: fs_open_or_create_writable, mediafs_write, fs_hide_readonly and
\* fs_delete_readonly.
THEOREM DrivesTypeCorrect == DrivesSpec => []DrivesTypeOK
<1>1. DrivesInv => DrivesTypeOK
  BY DEF DrivesInv
<1> QED
  BY <1>1, DrivesInvHolds, PTL

\* What is bled everywhere reads as nothing on every drive.
LEMMA GoneReadsAsNothing ==
  ASSUME NEW n, StaysGone(n), NEW d \in Drives
  PROVE  Read([d |-> d, n |-> n]) \subseteq {<<>>}
<1>1. Open(n) \subseteq {<<>>}
  BY DEF StaysGone, GoneFrom, Open, OpenReadonly, In
<1>2. \A e \in Range(Stores) : ReadMedia(e, n) = {}
  BY DEF StaysGone, ReadMedia, In
<1>3. ReadMerged(n) \subseteq {<<>>}
  <2> PICK s : s = [i \in DOMAIN Stores |-> ReadMedia(Stores[i], n)]
    OBVIOUS
  <2> PICK m \in Nat : m = Len(Stores)
    BY StoresAreDrives
  <2> PICK a : a = Open(n)
    OBVIOUS
  <2>1. s = [i \in 1 .. m |-> s[i]]
    BY StoresAreDrives, Zenon
  <2>2. \A v \in First(<<a>> \o s) : v \in a \/ \E i \in 1 .. m : v \in s[i]
    BY ONLY <2>1, FirstOf, m \in Nat
  <2>3. \A i \in 1 .. m : s[i] = {}
    BY <1>2, StoresAreDrives
  <2>4. ReadMerged(n) = First(<<a>> \o s)
    BY Zenon DEF ReadMerged
  <2> QED
    BY <1>1, <2>2, <2>3, <2>4
<1> PICK p : p = [d |-> d, n |-> n]
  OBVIOUS
<1>4. p.d = d /\ p.n = n
  OBVIOUS
<1>5. Read(p) \subseteq {<<>>}
  BY <1>1, <1>2, <1>3, <1>4 DEF Read
<1> QED
  BY <1>5

\* What write, append, copy, rename and their twins in DOS mode say they wrote, the
\* destination reads as; and what a bleed took from every drive and saved stays
\* away, for any stores, names, texts and capacities.
THEOREM FilesAreAsSaidHolds == DrivesSpec => []FilesAreAsSaid
<1>1. DrivesInv => FilesAreAsSaid
  BY GoneReadsAsNothing DEF DrivesInv, FilesAreAsSaid, BledAreGone, BledStaysGone
<1> QED
  BY <1>1, DrivesInvHolds, PTL
=============================================================================
