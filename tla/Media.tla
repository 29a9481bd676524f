-------------------------------- MODULE Media ---------------------------------
(***************************************************************************)
(* The small file stores of mediafs.c on the floppy, auxiliary and USB     *)
(* areas of the disk, and LardSec (lardsec.c), which seals what they write *)
(* with a key and error-correcting records.                                *)
(*                                                                         *)
(* A store is loaded once, when the kernel boots, and with LardSec as it   *)
(* is at boot: unlocked, with the key of the kernel and storage records on.*)
(* A change writes the store through, sector by sector; the power may go   *)
(* or a sector fail on the way, and bits of the disk may flip.  What a slot*)
(* holds is a sequence; Garbage is what no file put there.                 *)
(***************************************************************************)
EXTENDS Integers, Sequences, FiniteSets, SequencesExt, SequenceTheorems, FiniteSetTheorems, TLAPS

CONSTANTS
  Drives, Names, Texts,
  MaxFiles,   \* MEDIAFS_MAX_FILES, the slots of a store
  FileCap,    \* MEDIAFS_FILE_CAP
  Keys, BootKey,
  FaultMax,   \* bound on the faults of a run: bits that flip, sectors, power, boots without a drive
  TurnMax     \* bound on the LardSec commands of a run

ASSUME MediaAssumption ==
  /\ BootKey \in Keys
  /\ MaxFiles \in Nat \ {0} /\ FileCap \in Nat
  /\ FaultMax \in Nat /\ TurnMax \in Nat
  /\ \A t \in Texts : t \in Seq(Range(t))

VARIABLES
  disk,    \* per drive, the image on the disk
  mem,     \* per drive, dev->files and the slots of dev->image
  stored,  \* per drive: dev->persistent
  sec,     \* LardSec: s_enabled, s_locked, the key, the ECC switches
  want,    \* history: per drive, what the files should hold
  kept,    \* history: the same, when the image was last written to its end
  faults,  \* the faults so far
  turns    \* the LardSec commands so far

vars == <<disk, mem, stored, sec, want, kept, faults, turns>>

Garbage == <<"?">>
Free == [m \in 1..MaxFiles |-> <<>>]
NoFiles == [files |-> <<>>, slots |-> Free]
Nothing == [n \in {} |-> <<>>]
Blank == [kind |-> "blank", mem |-> NoFiles, key |-> BootKey, ecc |-> FALSE, flips |-> 0, whole |-> TRUE]

AtBoot == [enabled |-> TRUE, locked |-> FALSE, key |-> BootKey, discarded |-> FALSE,
           ecc |-> TRUE, ram |-> FALSE, storage |-> TRUE]

\* ------------------------------- a store ----------------------------------

Place(m, n) == SelectInSeq(m.files, LAMBDA f : f.name = n)
\* The first f.size bytes of the slot, which may hold fewer after a torn image.
Read(m, f) ==
  LET slot == m.slots[f.slot]
  IN IF f.size = 0 THEN <<>>
     ELSE IF slot = Garbage \/ Len(slot) < f.size THEN Garbage
     ELSE SubSeq(slot, 1, f.size)

\* The entry a write uses: one of that name, or a new one in the next slot.
Entered(m, n) ==
  IF Place(m, n) > 0 THEN m
  ELSE [m EXCEPT !.files = Append(@, [name |-> n, slot |-> Len(@) + 1, size |-> 0])]

\* mediafs_write: a text that does not fit leaves the new entry, empty.
Refuses(m, n) == Place(m, n) = 0 /\ Len(m.files) >= MaxFiles
Start(m, n, append) == IF append THEN Entered(m, n).files[Place(Entered(m, n), n)].size ELSE 0
Fits(m, n, t, append) == Start(m, n, append) + Len(t) <= FileCap

Written(m, n, t, append) ==
  LET e == Entered(m, n)
      i == Place(e, n)
      slot == e.files[i].slot
      old == IF append THEN Read(e, e.files[i]) ELSE <<>>
  IN [files |-> [e.files EXCEPT ![i].size = Start(m, n, append) + Len(t)],
      slots |-> [e.slots EXCEPT ![slot] = IF old = Garbage THEN Garbage ELSE old \o t]]

\* A bug to catch: the entries move up and their bytes stay.
RemovedEntry(m, i) == [m EXCEPT !.files = [j \in 1..(Len(@) - 1) |-> IF j < i THEN @[j] ELSE [@[j + 1] EXCEPT !.slot = j]]]
\* mediafs_delete: the files after it move up by one slot.
Removed(m, i) ==
  [files |-> [j \in 1..(Len(m.files) - 1) |->
                IF j < i THEN m.files[j] ELSE [m.files[j + 1] EXCEPT !.slot = j]],
   slots |-> [j \in 1..MaxFiles |->
                IF j < i THEN m.slots[j]
                ELSE IF j < Len(m.files) THEN Read(m, m.files[j + 1]) ELSE <<>>]]

\* -------------------------------- LardSec ---------------------------------

\* lardsec_seal_media_image: what a sync of m writes.
Image(m, s) ==
  [kind |-> IF s.enabled THEN "sealed" ELSE "plain", mem |-> m, key |-> s.key,
   ecc |-> s.enabled /\ s.ecc /\ s.storage, flips |-> 0, whole |-> TRUE]

\* lardsec_open_media_image at boot: one flipped bit is put right, more are not.
Opens(img) ==
  img.key = BootKey /\ img.whole /\ img.flips <= (IF img.ecc THEN 1 ELSE 0)

\* A store whose image cannot be opened is mounted without files.
Loaded(img) ==
  CASE img.kind = "blank" -> NoFiles
    [] img.kind = "plain" -> img.mem
    [] img.kind = "sealed" ->
         IF Opens(img) THEN img.mem ELSE [files |-> <<>>, slots |-> [m \in 1..MaxFiles |-> Garbage]]

\* What the first k slots of a new image leave, when no more is written.  The
\* header went first; the slots after it are those of the image before.
Torn(new, old, k) ==
  [new EXCEPT !.whole = FALSE,
              !.mem.slots = [j \in 1..MaxFiles |->
                               IF j <= k THEN @[j]
                               ELSE IF old.kind = "sealed" THEN Garbage ELSE old.mem.slots[j]]]

\* ------------------------------ loading, syncing ---------------------------

Contents(m) == [n \in {m.files[i].name : i \in DOMAIN m.files} |-> Read(m, m.files[Place(m, n)])]

\* The image is what a sync left, as far as a boot can tell.
Good(img) ==
  CASE img.kind = "blank" -> TRUE
    [] img.kind = "plain" -> img.whole /\ img.flips = 0
    [] img.kind = "sealed" -> Opens(img)

\* lardsec_init and mediafs_init; a drive in `bad` cannot be read.
Boot(dsk, kp, bad) ==
  /\ disk' = dsk /\ kept' = kp
  /\ mem' = [d \in Drives |-> IF d \in bad THEN NoFiles ELSE Loaded(dsk[d])]
  /\ stored' = [d \in Drives |-> d \notin bad]
  /\ sec' = AtBoot
  /\ want' = [d \in Drives |-> IF d \in bad THEN Nothing
                               ELSE IF Good(dsk[d]) THEN kp[d] ELSE Contents(Loaded(dsk[d]))]

\* The drives ds are synced with LardSec as s and memory as m: every one to its
\* end, or one of them torn by a sector that fails, or by the power.  LardSec is
\* left as t.
Synced(ds, m, s, t, w) ==
  LET on == {d \in ds : stored[d]}
      done(ok) == [d \in Drives |-> IF d \in ok THEN Image(m[d], s) ELSE disk[d]]
      now(ok) == [d \in Drives |-> IF d \in ok THEN w[d] ELSE kept[d]]
      after(dsk, kp) == disk' = dsk /\ kept' = kp /\ mem' = m /\ sec' = t /\ want' = w /\ UNCHANGED stored
  IN \/ after(done(on), now(on)) /\ UNCHANGED faults
     \/ /\ faults < FaultMax /\ faults' = faults + 1
        /\ \E d \in on, k \in 0..(MaxFiles - 1) :
             LET torn == Torn(Image(m[d], s), disk[d], k)
             IN \/ after([done(on) EXCEPT ![d] = torn], now(on \ {d}))
                \/ Boot([disk EXCEPT ![d] = torn], kept, {})

\* --------------------------------- commands --------------------------------

Changed(d, m, w) ==
  Synced({d}, [mem EXCEPT ![d] = m], sec, sec, [want EXCEPT ![d] = w]) /\ UNCHANGED turns

\* What should be kept, w, with the bytes of one file.
Filed(w, n, bytes) == [x \in DOMAIN w \cup {n} |-> IF x = n THEN bytes ELSE w[x]]

Write(d, n, t, append) ==
  /\ ~sec.locked /\ ~Refuses(mem[d], n)
  /\ IF Fits(mem[d], n, t, append)
     THEN LET old == IF append /\ n \in DOMAIN want[d] THEN want[d][n] ELSE <<>>
              new == IF old = Garbage THEN Garbage ELSE old \o t
          IN Changed(d, Written(mem[d], n, t, append), Filed(want[d], n, new))
     ELSE /\ mem' = [mem EXCEPT ![d] = Entered(@, n)]
          /\ UNCHANGED <<disk, stored, sec, want, kept, faults, turns>>

Delete(d, n) ==
  /\ ~sec.locked /\ Place(mem[d], n) > 0
  /\ Changed(d, Removed(mem[d], Place(mem[d], n)), [x \in DOMAIN want[d] \ {n} |-> want[d][x]])

Format(d) == ~sec.locked /\ Changed(d, NoFiles, Nothing)
Sync(d) == ~sec.locked /\ stored[d] /\ Changed(d, mem[d], want[d])

\* A LardSec command leaves LardSec as t.
Turned == turns < TurnMax /\ turns' = turns + 1
Set(t) == Turned /\ sec' = t /\ UNCHANGED <<disk, mem, stored, want, kept, faults>>

\* lardsec_sync_all and aux_sync_media, with LardSec as s: every store, or none
\* when it is locked.
SyncAll(s, t) == IF s.locked THEN Set(t) ELSE Turned /\ Synced(Drives, mem, s, t, want)

On == Set([sec EXCEPT !.enabled = TRUE])
Off == LET s == [sec EXCEPT !.enabled = FALSE, !.locked = FALSE] IN SyncAll(s, s)
Seal == LET s == [sec EXCEPT !.enabled = TRUE] IN SyncAll(s, s)
\* secure lock and auxkernel_lockdown: the stores are sealed, then locked.
Lock == LET s == [sec EXCEPT !.enabled = TRUE] IN SyncAll(s, [s EXCEPT !.locked = TRUE])
\* auxkernel_discard_keys: a lockdown, and the key is gone.
Discard ==
  LET s == [sec EXCEPT !.enabled = TRUE]
  IN SyncAll(s, [s EXCEPT !.locked = TRUE, !.key = "none", !.discarded = TRUE])
Unlock(key) == ~sec.discarded /\ key = sec.key /\ Set([sec EXCEPT !.locked = FALSE])
Regen(key) == Set([sec EXCEPT !.key = key, !.locked = FALSE, !.discarded = FALSE])

\* lardsec_set_ecc and its two: one switched on switches on what it needs.
SetEcc(on) == Set([sec EXCEPT !.ecc = on, !.storage = @ \/ (on /\ ~sec.ram)])
SetRam(on) == Set([sec EXCEPT !.ram = on, !.ecc = @ \/ on])
SetStorage(on) == Set([sec EXCEPT !.storage = on, !.ecc = @ \/ on])

\* -------------------------------- the world --------------------------------

\* A bit of a block flips: a plain image keeps it, in the slot it hit.
Flip(d) ==
  /\ disk[d].kind # "blank" /\ faults < FaultMax /\ faults' = faults + 1
  /\ \E k \in 1..MaxFiles :
       disk' = [disk EXCEPT ![d].flips = @ + 1,
                            ![d].mem.slots[k] = IF disk[d].kind = "plain" THEN Garbage ELSE @]
  /\ UNCHANGED <<mem, stored, sec, want, kept, turns>>

Reboot ==
  \E bad \in {{}} \cup {{d} : d \in Drives} :
    /\ faults + Cardinality(bad) <= FaultMax /\ faults' = faults + Cardinality(bad)
    /\ Boot(disk, kept, bad) /\ UNCHANGED turns

Init ==
  /\ disk = [d \in Drives |-> Blank]
  /\ mem = [d \in Drives |-> NoFiles]
  /\ stored = [d \in Drives |-> TRUE]
  /\ sec = AtBoot
  /\ want = [d \in Drives |-> Nothing] /\ kept = want
  /\ faults = 0 /\ turns = 0

Next ==
  \/ \E d \in Drives :
       \/ \E n \in Names :
            \/ \E t \in Texts, append \in BOOLEAN : Write(d, n, t, append)
            \/ Delete(d, n)
       \/ Format(d)
       \/ Sync(d)
       \/ Flip(d)
  \/ On \/ Off \/ Seal \/ Lock \/ Discard
  \/ \E key \in Keys : Unlock(key) \/ Regen(key)
  \/ \E on \in BOOLEAN : SetEcc(on) \/ SetRam(on) \/ SetStorage(on)
  \/ Reboot

Spec == Init /\ [][Next]_vars

TypeOK ==
  \A d \in Drives :
    /\ Len(mem[d].files) <= MaxFiles
    /\ \A i \in DOMAIN mem[d].files : mem[d].files[i].slot = i /\ mem[d].files[i].size <= FileCap
    /\ disk[d].flips <= faults

\* A store m holds the files of w, and perhaps more, which are empty.
Agrees(m, w) ==
  LET got == Contents(m)
  IN /\ DOMAIN w \subseteq DOMAIN got
     /\ \A n \in DOMAIN got : got[n] = IF n \in DOMAIN w THEN w[n] ELSE <<>>

\* A file reads as what was written to it, whatever was written, deleted or
\* moved up around it, and after a boot as it was when its store was last
\* written to the end, if the image has not been torn, damaged beyond the
\* records, or sealed with another key.  A file more is one a refused write
\* left, and it is empty.
ReadsAsWritten == \A d \in Drives : Agrees(mem[d], want[d])

\* ------------------------- the inductive invariant -------------------------

Bytes == {"?"} \cup UNION {Range(t) : t \in Texts}
Entries == [name : Names, slot : 1..MaxFiles, size : 0..FileCap]
\* A store: the entry of a slot says so, and no two have one name.
Mems ==
  {m \in [files : Seq(Entries), slots : [1..MaxFiles -> Seq(Bytes)]] :
     /\ Len(m.files) <= MaxFiles
     /\ \A i \in 1..Len(m.files) : m.files[i].slot = i
     /\ \A i, j \in 1..Len(m.files) : m.files[i].name = m.files[j].name => i = j}
Secrets == Keys \cup {"none"}
Images ==
  [kind : {"blank", "plain", "sealed"}, mem : Mems, key : Secrets, ecc : BOOLEAN,
   flips : Nat, whole : BOOLEAN]
LardSecs ==
  [enabled : BOOLEAN, locked : BOOLEAN, key : Secrets, discarded : BOOLEAN,
   ecc : BOOLEAN, ram : BOOLEAN, storage : BOOLEAN]

Typed ==
  /\ disk \in [Drives -> Images] /\ mem \in [Drives -> Mems]
  /\ stored \in [Drives -> BOOLEAN] /\ sec \in LardSecs
  /\ want = [d \in Drives |-> want[d]] /\ kept = [d \in Drives |-> kept[d]]
  /\ faults \in Nat
  /\ \A d \in Drives : disk[d].flips <= faults

\* An image that a boot takes for good loads what was kept in it.
LoadsAsKept == \A d \in Drives : Good(disk[d]) => Agrees(Loaded(disk[d]), kept[d])

MediaInv == Typed /\ ReadsAsWritten /\ LoadsAsKept

-----------------------------------------------------------------------------
(* Proofs. *)

LEMMA MemFields ==
  ASSUME NEW m \in Mems
  PROVE  /\ m = [files |-> m.files, slots |-> m.slots]
         /\ m.files \in Seq(Entries) /\ m.slots \in [1..MaxFiles -> Seq(Bytes)]
         /\ Len(m.files) \in 0..MaxFiles /\ DOMAIN m.files = 1..Len(m.files)
         /\ \A i \in 1..Len(m.files) :
              /\ m.files[i] \in Entries
              /\ m.files[i].name \in Names /\ m.files[i].slot = i
              /\ m.files[i].size \in Nat /\ m.files[i].size <= FileCap
              /\ i \in 1..MaxFiles /\ m.slots[i] \in Seq(Bytes)
         /\ \A i, j \in 1..Len(m.files) : m.files[i].name = m.files[j].name => i = j
<1>1. /\ m = [files |-> m.files, slots |-> m.slots]
      /\ m.files \in Seq(Entries) /\ m.slots \in [1..MaxFiles -> Seq(Bytes)]
      /\ Len(m.files) <= MaxFiles
      /\ \A i \in 1..Len(m.files) : m.files[i].slot = i
      /\ \A i, j \in 1..Len(m.files) : m.files[i].name = m.files[j].name => i = j
  BY DEF Mems
<1>2. Len(m.files) \in Nat /\ DOMAIN m.files = 1..Len(m.files)
      /\ \A i \in 1..Len(m.files) : m.files[i] \in Entries
  BY <1>1, LenProperties, ElementOfSeq
<1>3. ASSUME NEW i \in 1..Len(m.files)
      PROVE  /\ m.files[i].name \in Names
             /\ m.files[i].size \in Nat /\ m.files[i].size <= FileCap
             /\ i \in 1..MaxFiles /\ m.slots[i] \in Seq(Bytes)
  BY <1>1, <1>2, MediaAssumption, SMTT(30) DEF Entries
<1> QED
  BY <1>1, <1>2, <1>3, MediaAssumption

\* The place of a name is the one entry that has it.
LEMMA PlaceIs ==
  ASSUME NEW m \in Mems, NEW n
  PROVE  /\ \A i \in 1..Len(m.files) : m.files[i].name = n => Place(m, n) = i
         /\ (\A i \in 1..Len(m.files) : m.files[i].name # n) => Place(m, n) = 0
         /\ Place(m, n) \in 0..Len(m.files)
         /\ Place(m, n) > 0 => m.files[Place(m, n)].name = n
<1> DEFINE I == {i \in 1..Len(m.files) : m.files[i].name = n}
<1>1. Place(m, n) = IF I # {} THEN Min(I) ELSE 0
  BY DEF Place, SelectInSeq
<1>2. Len(m.files) \in Nat
  BY MemFields
<1>3. ASSUME NEW i \in 1..Len(m.files), m.files[i].name = n PROVE Place(m, n) = i
  <2>1. I = {i}
    BY <1>3, MemFields
  <2>2. Min(I) = i
    BY <2>1, <1>2 DEF Min
  <2> QED
    BY <1>1, <2>1, <2>2
<1>4. (\A i \in 1..Len(m.files) : m.files[i].name # n) => Place(m, n) = 0
  BY <1>1
<1> QED
  BY <1>2, <1>3, <1>4

LEMMA GarbageType == Garbage \in Seq(Bytes) /\ Len(Garbage) = 1 /\ Garbage # <<>>
<1>1. "?" \in Bytes
  BY DEF Bytes
<1> QED
  BY <1>1 DEF Garbage

\* What a file of size z reads from the bytes of its slot.
ReadFrom(slot, z) ==
  IF z = 0 THEN <<>>
  ELSE IF slot = Garbage \/ Len(slot) < z THEN Garbage
  ELSE SubSeq(slot, 1, z)

LEMMA ReadIs ==
  ASSUME NEW m, NEW f
  PROVE  Read(m, f) = ReadFrom(m.slots[f.slot], f.size)
  BY DEF Read, ReadFrom

LEMMA ReadFromType ==
  ASSUME NEW s \in Seq(Bytes), NEW z \in Nat
  PROVE  /\ ReadFrom(s, z) \in Seq(Bytes)
         /\ ReadFrom(s, z) = <<>> <=> z = 0
         /\ ReadFrom(s, z) # Garbage => Len(ReadFrom(s, z)) = z
         /\ ReadFrom(ReadFrom(s, z), z) = ReadFrom(s, z)
         /\ ReadFrom(s, 0) = <<>>
<1> DEFINE r == ReadFrom(s, z)
<1>0. Garbage \in Seq(Bytes) /\ Len(Garbage) = 1 /\ Garbage # <<>> /\ <<>> \in Seq(Bytes) /\ Len(<<>>) = 0
  BY GarbageType, EmptySeq
<1>1. CASE z = 0
  BY <1>0, <1>1 DEF ReadFrom
<1>2. CASE z # 0 /\ (s = Garbage \/ Len(s) < z)
  BY <1>0, <1>2 DEF ReadFrom
<1>3. CASE z # 0 /\ s # Garbage /\ ~(Len(s) < z)
  <2>1. Len(s) \in Nat /\ z \in 1..Len(s)
    BY <1>3, LenProperties
  <2>2. r = SubSeq(s, 1, z)
    BY <1>3 DEF ReadFrom
  <2>3. \A i \in 1..z : s[i] \in Bytes
    BY <2>1, ElementOfSeq
  <2>4. r \in Seq(Bytes) /\ Len(r) = z
    BY <2>1, <2>2, <2>3, SubSeqProperties
  <2>5. r # <<>>
    BY <2>4, <2>1, <1>0
  <2>6. SubSeq(r, 1, z) = r
    BY <2>4, SubSeqFull
  <2> HIDE DEF r
  <2>7. ReadFrom(r, z) = r
    BY <2>1, <2>4, <2>6, <1>3 DEF ReadFrom
  <2> USE DEF r
  <2> QED
    BY <2>4, <2>5, <2>7, <1>3 DEF ReadFrom
<1> QED
  BY <1>1, <1>2, <1>3

\* A store and its files, entry by entry.
LEMMA AgreesAt ==
  ASSUME NEW m \in Mems, NEW w
  PROVE  Agrees(m, w) <=>
           /\ \A n \in DOMAIN w : Place(m, n) > 0
           /\ \A i \in 1..Len(m.files) :
                LET n == m.files[i].name
                IN ReadFrom(m.slots[i], m.files[i].size) = IF n \in DOMAIN w THEN w[n] ELSE <<>>
<1> DEFINE N == {m.files[i].name : i \in DOMAIN m.files}
           got == Contents(m)
<1>1. DOMAIN m.files = 1..Len(m.files) /\ \A i \in 1..Len(m.files) : m.files[i].slot = i
  BY MemFields
<1>2. DOMAIN got = N /\ \A i \in 1..Len(m.files) : got[m.files[i].name] = ReadFrom(m.slots[i], m.files[i].size)
  <2>1. DOMAIN got = N
    BY DEF Contents
  <2>2. ASSUME NEW i \in 1..Len(m.files)
        PROVE  got[m.files[i].name] = ReadFrom(m.slots[i], m.files[i].size)
    <3>1. Place(m, m.files[i].name) = i
      BY PlaceIs
    <3>2. m.files[i].name \in N
      BY <1>1
    <3>3. got[m.files[i].name] = Read(m, m.files[Place(m, m.files[i].name)])
      BY <3>2 DEF Contents
    <3> QED
      BY <3>1, <3>3, <1>1, ReadIs
  <2> QED
    BY <2>1, <2>2
<1>3. \A n : n \in N <=> Place(m, n) > 0
  <2>1. ASSUME NEW n, n \in N PROVE Place(m, n) > 0
    <3>1. PICK i \in 1..Len(m.files) : n = m.files[i].name
      BY <1>1, <2>1
    <3> QED
      BY <3>1, PlaceIs, MemFields
  <2>2. ASSUME NEW n, Place(m, n) > 0 PROVE n \in N
    <3>1. Place(m, n) \in 1..Len(m.files) /\ m.files[Place(m, n)].name = n
      BY <2>2, PlaceIs, MemFields
    <3> QED
      BY <3>1, <1>1
  <2> QED
    BY <2>1, <2>2
<1> HIDE DEF got
<1>4. Agrees(m, w) <=> /\ DOMAIN w \subseteq N
                       /\ \A n \in N : got[n] = IF n \in DOMAIN w THEN w[n] ELSE <<>>
  BY <1>2 DEF Agrees, got
<1>5. (\A n \in N : got[n] = IF n \in DOMAIN w THEN w[n] ELSE <<>>)
      <=> \A i \in 1..Len(m.files) : got[m.files[i].name] = IF m.files[i].name \in DOMAIN w THEN w[m.files[i].name] ELSE <<>>
  BY <1>1
<1> QED
  BY <1>2, <1>3, <1>4, <1>5

LEMMA NoFilesAgree == NoFiles \in Mems /\ Agrees(NoFiles, Nothing)
<1>1. /\ NoFiles.files = <<>> /\ NoFiles.slots = Free
      /\ NoFiles = [files |-> NoFiles.files, slots |-> NoFiles.slots]
  BY DEF NoFiles
<1>2. <<>> \in Seq(Entries) /\ Len(<<>>) = 0
  BY EmptySeq
<1>3. Free \in [1..MaxFiles -> Seq(Bytes)]
  BY EmptySeq DEF Free
<1>4. NoFiles \in Mems
  <2>1. NoFiles \in [files : Seq(Entries), slots : [1..MaxFiles -> Seq(Bytes)]]
    BY <1>1, <1>2, <1>3
  <2> QED
    BY <2>1, <1>1, <1>2, MediaAssumption DEF Mems
<1>5. DOMAIN Nothing = {}
  BY DEF Nothing
<1> QED
  BY <1>1, <1>2, <1>4, <1>5, AgreesAt

\* A store agrees with what is read from it.
LEMMA AgreesWithContents ==
  ASSUME NEW m
  PROVE  Agrees(m, Contents(m))
  BY DEF Agrees

LEMMA EnteredAgrees ==
  ASSUME NEW m \in Mems, NEW n \in Names, ~Refuses(m, n), NEW w, Agrees(m, w)
  PROVE  LET e == Entered(m, n)
         IN /\ e \in Mems /\ Agrees(e, w)
            /\ Place(e, n) \in 1..Len(e.files) /\ e.files[Place(e, n)].name = n
            /\ Place(m, n) = 0 => e.files[Place(e, n)].size = 0
<1> DEFINE e == Entered(m, n)
           new == [name |-> n, slot |-> Len(m.files) + 1, size |-> 0]
           l == Len(m.files)
<1>1. CASE Place(m, n) > 0
  <2>1. e = m
    BY <1>1 DEF Entered
  <2> QED
    BY <1>1, <2>1, PlaceIs, MemFields
<1>2. CASE ~(Place(m, n) > 0)
  <2>1. Place(m, n) = 0 /\ l \in Nat /\ l < MaxFiles
    BY <1>2, PlaceIs, MemFields, MediaAssumption DEF Refuses
  <2>2. new \in Entries
    BY <2>1, MediaAssumption DEF Entries
  <2>3. e = [files |-> Append(m.files, new), slots |-> m.slots]
    <3>1. e = [m EXCEPT !.files = Append(m.files, new)]
      BY <1>2 DEF Entered
    <3>2. m \in [files : Seq(Entries), slots : [1..MaxFiles -> Seq(Bytes)]]
      BY DEF Mems
    <3> QED
      BY <3>1, <3>2
  <2>4. /\ e.files \in Seq(Entries) /\ Len(e.files) = l + 1
        /\ \A i \in 1..l : e.files[i] = m.files[i]
        /\ e.files[l + 1] = new /\ e.slots = m.slots
    BY <2>1, <2>2, <2>3, MemFields
  <2>5. \A i \in 1..l : m.files[i].name # n
    BY <2>1, PlaceIs, MemFields
  <2>6. e \in Mems
    <3>1. \A i \in 1..l + 1 : i \in 1..l \/ i = l + 1
      BY <2>1
    <3>2. \A i \in 1..Len(e.files) : e.files[i].slot = i
      BY <2>4, <3>1, MemFields
    <3>3. \A i, j \in 1..Len(e.files) : e.files[i].name = e.files[j].name => i = j
      BY <2>4, <2>5, <3>1, MemFields
    <3>4. e \in [files : Seq(Entries), slots : [1..MaxFiles -> Seq(Bytes)]]
      BY <2>3, <2>4, MemFields
    <3>5. Len(e.files) <= MaxFiles
      BY <2>1, <2>4, MediaAssumption
    <3> QED
      BY <3>2, <3>3, <3>4, <3>5 DEF Mems
  <2>7. Place(e, n) = l + 1 /\ l + 1 \in 1..Len(e.files) /\ e.files[l + 1].name = n /\ e.files[l + 1].size = 0
    <3>1. l + 1 \in 1..Len(e.files) /\ e.files[l + 1].name = n /\ e.files[l + 1].size = 0
      BY <2>1, <2>4
    <3> QED
      BY <3>1, <2>6, PlaceIs
  <2>8. Agrees(e, w)
    <3>1. /\ \A x \in DOMAIN w : Place(m, x) > 0
          /\ \A i \in 1..l :
               ReadFrom(m.slots[i], m.files[i].size)
                 = IF m.files[i].name \in DOMAIN w THEN w[m.files[i].name] ELSE <<>>
      BY AgreesAt
    <3>2. n \notin DOMAIN w
      BY <3>1, <1>2
    <3>3. ASSUME NEW x \in DOMAIN w PROVE Place(e, x) > 0
      <4>1. Place(m, x) \in 1..l /\ m.files[Place(m, x)].name = x
        BY <3>1, <3>3, PlaceIs, MemFields
      <4>2. Place(m, x) \in 1..Len(e.files) /\ e.files[Place(m, x)].name = x
        BY <4>1, <2>1, <2>4
      <4> QED
        BY <4>2, <4>1, <2>1, <2>6, PlaceIs
    <3>4. ASSUME NEW i \in 1..Len(e.files)
          PROVE  ReadFrom(e.slots[i], e.files[i].size)
                   = IF e.files[i].name \in DOMAIN w THEN w[e.files[i].name] ELSE <<>>
      <4>1. CASE i \in 1..l
        BY <4>1, <2>4, <3>1
      <4>2. CASE i = l + 1
        <5>1. ReadFrom(e.slots[i], 0) = <<>>
          BY DEF ReadFrom
        <5> QED
          BY <4>2, <5>1, <2>7, <3>2
      <4> QED
        BY <4>1, <4>2, <2>1, <2>4
    <3> QED
      BY <3>3, <3>4, <2>6, AgreesAt
  <2> QED
    BY <2>1, <2>6, <2>7, <2>8
<1> QED
  BY <1>1, <1>2

\* What a write leaves in the entry of a name, and in its slot.
LEMMA WrittenAgrees ==
  ASSUME NEW m \in Mems, NEW n \in Names, NEW t \in Texts, NEW append \in BOOLEAN,
         ~Refuses(m, n), Fits(m, n, t, append), NEW w, Agrees(m, w),
         NEW old, old = (IF append /\ n \in DOMAIN w THEN w[n] ELSE <<>>),
         NEW new, new = (IF old = Garbage THEN Garbage ELSE old \o t)
  PROVE  /\ Written(m, n, t, append) \in Mems
         /\ Agrees(Written(m, n, t, append), Filed(w, n, new))
<1> DEFINE e == Entered(m, n)
           i == Place(e, n)
           was == IF append THEN Read(e, e.files[i]) ELSE <<>>
           put == IF was = Garbage THEN Garbage ELSE was \o t
           z == Start(m, n, append) + Len(t)
           h == Written(m, n, t, append)
           v == Filed(w, n, new)
<1>1. /\ e \in Mems /\ Agrees(e, w) /\ i \in 1..Len(e.files) /\ e.files[i].name = n
  BY EnteredAgrees
<1>2. t \in Seq(Bytes) /\ Len(t) \in Nat
  <2>1. t \in Seq(Range(t)) /\ Range(t) \subseteq Bytes
    BY MediaAssumption DEF Bytes
  <2> QED
    BY <2>1, SeqMonotonic, LenProperties
<1>3. /\ e.files[i].slot = i /\ e.files[i].size \in Nat /\ e.files[i] \in Entries
      /\ i \in 1..MaxFiles /\ e.slots[i] \in Seq(Bytes)
  BY <1>1, MemFields
<1>4. /\ was \in Seq(Bytes) /\ was = old
      /\ Start(m, n, append) \in Nat /\ (was # Garbage => Len(was) = Start(m, n, append))
      /\ (was = Garbage => Start(m, n, append) > 0)
  <2>1. CASE append
    <3>1. was = ReadFrom(e.slots[i], e.files[i].size) /\ Start(m, n, append) = e.files[i].size
      BY <2>1, <1>3, ReadIs DEF Start
    <3>2. was = old
      BY <2>1, <3>1, <1>1, AgreesAt
    <3> HIDE DEF was, e, i
    <3>3. /\ was \in Seq(Bytes)
          /\ was = <<>> <=> e.files[i].size = 0
          /\ was # Garbage => Len(was) = e.files[i].size
      <4> DEFINE s == e.slots[i]
                 y == e.files[i].size
      <4>1. s \in Seq(Bytes) /\ y \in Nat /\ was = ReadFrom(s, y)
        BY <3>1, <1>3
      <4> HIDE DEF s, y
      <4>2. /\ ReadFrom(s, y) \in Seq(Bytes)
            /\ ReadFrom(s, y) = <<>> <=> y = 0
            /\ ReadFrom(s, y) # Garbage => Len(ReadFrom(s, y)) = y
        BY <4>1, ReadFromType
      <4> QED
        BY <4>1, <4>2 DEF y
    <3>4. was = Garbage => e.files[i].size > 0
      BY <3>3, <1>3, GarbageType
    <3> QED
      BY <3>1, <3>2, <3>3, <3>4, <1>3
  <2>2. CASE ~append
    <3>1. was = <<>> /\ old = <<>> /\ Start(m, n, append) = 0
      BY <2>2 DEF Start
    <3> HIDE DEF was
    <3> QED
      BY <3>1, EmptySeq, GarbageType
  <2> QED
    BY <2>1, <2>2
<1>5. z \in 0..FileCap
  BY <1>2, <1>4, MediaAssumption DEF Fits
<1> HIDE DEF was
<1>6. put \in Seq(Bytes) /\ put = new
  BY <1>2, <1>4, GarbageType, ConcatProperties
<1>7. ReadFrom(put, z) = new
  <2>1. CASE was = Garbage
    <3>1. put = Garbage /\ z # 0
      BY <2>1, <1>2, <1>4
    <3> QED
      BY <3>1, <1>6 DEF ReadFrom
  <2>2. CASE was # Garbage
    <3>1. put = was \o t /\ Len(put) = z
      BY <2>2, <1>2, <1>4, ConcatProperties, ZenonT(60)
    <3>2. put = <<>> \/ z # 0
      BY <3>1, <1>6, EmptySeq
    <3>3. z = 0 => put = <<>>
      BY <3>1, <3>2
    <3>4. SubSeq(put, 1, z) = put
      BY <3>1, <1>6, SubSeqFull
    <3> HIDE DEF put, z
    <3>5. ReadFrom(put, z) = put
      BY <3>1, <3>3, <3>4, <1>5 DEF ReadFrom
    <3> QED
      BY <3>5, <1>6
  <2> QED
    BY <2>1, <2>2
<1>8. h = [files |-> [e.files EXCEPT ![i] = [e.files[i] EXCEPT !.size = z]],
           slots |-> [e.slots EXCEPT ![i] = put]]
  BY <1>3 DEF Written, was
<1> HIDE DEF put, z, h, e, i
<1>9. /\ h.files \in Seq(Entries) /\ Len(h.files) = Len(e.files)
      /\ h.slots \in [1..MaxFiles -> Seq(Bytes)]
      /\ h = [files |-> h.files, slots |-> h.slots]
      /\ h.files[i].size = z /\ h.slots[i] = put
      /\ \A j \in 1..Len(e.files) : /\ h.files[j].name = e.files[j].name
                                    /\ h.files[j].slot = e.files[j].slot
                                    /\ j # i => h.files[j] = e.files[j] /\ h.slots[j] = e.slots[j]
  <2> DEFINE u == [e.files[i] EXCEPT !.size = z]
  <2>1. u \in Entries /\ u.name = e.files[i].name /\ u.slot = e.files[i].slot /\ u.size = z
    BY <1>3, <1>5 DEF Entries
  <2> HIDE DEF u
  <2>2. h.files = [e.files EXCEPT ![i] = u] /\ h.slots = [e.slots EXCEPT ![i] = put]
        /\ h = [files |-> h.files, slots |-> h.slots]
    BY <1>8 DEF u
  <2>3. e.files \in Seq(Entries) /\ e.slots \in [1..MaxFiles -> Seq(Bytes)]
    BY <1>1, MemFields
  <2>4. /\ h.files \in Seq(Entries) /\ Len(h.files) = Len(e.files)
        /\ \A j \in 1..Len(e.files) : h.files[j] = IF j = i THEN u ELSE e.files[j]
    BY <2>1, <2>2, <2>3, <1>1, ExceptSeq
  <2>5. /\ h.slots \in [1..MaxFiles -> Seq(Bytes)] /\ h.slots[i] = put
        /\ \A j \in 1..MaxFiles : j # i => h.slots[j] = e.slots[j]
    BY <2>2, <2>3, <1>3, <1>6, ZenonT(60)
  <2>6. \A j \in 1..Len(e.files) : j \in 1..MaxFiles
    BY <1>1, MemFields
  <2> QED
    BY <2>1, <2>2, <2>4, <2>5, <2>6, <1>1
<1>10. h \in Mems
  <2>1. h \in [files : Seq(Entries), slots : [1..MaxFiles -> Seq(Bytes)]]
    BY <1>9
  <2> QED
    BY <2>1, <1>9, <1>1, MemFields DEF Mems
<1>11. Agrees(h, v)
  <2>1. DOMAIN v = DOMAIN w \cup {n} /\ v[n] = new
        /\ \A x \in DOMAIN w : x # n => v[x] = w[x]
    BY DEF Filed
  <2> HIDE DEF v
  <2>2. ASSUME NEW x \in DOMAIN v PROVE Place(h, x) > 0
    <3>1. CASE x = n
      <4>1. i \in 1..Len(h.files) /\ h.files[i].name = x /\ i \in Nat /\ i > 0
        BY <3>1, <1>1, <1>9, MemFields
      <4> QED
        BY <4>1, <1>10, PlaceIs
    <3>2. CASE x # n
      <4>1. Place(e, x) > 0
        BY <3>2, <2>1, <2>2, <1>1, AgreesAt
      <4>2. Place(e, x) \in 1..Len(e.files) /\ e.files[Place(e, x)].name = x
        BY <4>1, <1>1, PlaceIs, MemFields
      <4> QED
        BY <4>2, <1>9, <1>10, PlaceIs, MemFields
    <3> QED
      BY <3>1, <3>2
  <2>3. ASSUME NEW j \in 1..Len(h.files)
        PROVE  ReadFrom(h.slots[j], h.files[j].size)
                 = IF h.files[j].name \in DOMAIN v THEN v[h.files[j].name] ELSE <<>>
    <3>1. CASE j = i
      BY <3>1, <1>1, <1>6, <1>7, <1>9, <2>1
    <3>2. CASE j # i
      <4>1. e.files[j].name # n
        BY <3>2, <1>1, <1>9, MemFields
      <4>2. ReadFrom(e.slots[j], e.files[j].size)
              = IF e.files[j].name \in DOMAIN w THEN w[e.files[j].name] ELSE <<>>
        BY <1>1, <1>9, AgreesAt
      <4> QED
        BY <3>2, <4>1, <4>2, <1>9, <2>1
    <3> QED
      BY <3>1, <3>2
  <2> QED
    BY <2>2, <2>3, <1>10, AgreesAt
<1> QED
  BY <1>10, <1>11 DEF h

LEMMA ImageFields ==
  ASSUME NEW g \in Images
  PROVE  /\ g.kind \in {"blank", "plain", "sealed"} /\ g.mem \in Mems
         /\ g.flips \in Nat /\ g.whole \in BOOLEAN /\ g.ecc \in BOOLEAN /\ g.key \in Secrets
  BY DEF Images

LEMMA LoadedType ==
  ASSUME NEW g \in Images
  PROVE  Loaded(g) \in Mems
<1> DEFINE unread == [files |-> <<>>, slots |-> [j \in 1..MaxFiles |-> Garbage]]
<1>1. unread \in Mems
  <2>1. <<>> \in Seq(Entries) /\ Len(<<>>) = 0 /\ [j \in 1..MaxFiles |-> Garbage] \in [1..MaxFiles -> Seq(Bytes)]
    BY EmptySeq, GarbageType
  <2> QED
    BY <2>1, MediaAssumption DEF Mems
<1>2. g.kind \in {"blank", "plain", "sealed"} /\ g.mem \in Mems
  BY ImageFields
<1>3. NoFiles \in Mems
  BY NoFilesAgree
<1> HIDE DEF unread
<1>4. Loaded(g) = NoFiles \/ Loaded(g) = g.mem \/ Loaded(g) = unread
  BY <1>2 DEF Loaded, unread
<1> QED
  BY <1>1, <1>2, <1>3, <1>4

\* A sync leaves an image that loads as what was synced, if it opens.
LEMMA ImageLoads ==
  ASSUME NEW m \in Mems, NEW s \in LardSecs
  PROVE  /\ Image(m, s) \in Images /\ Image(m, s).flips = 0
         /\ Image(m, s).mem = m /\ Image(m, s).kind \in {"plain", "sealed"}
         /\ Good(Image(m, s)) => Loaded(Image(m, s)) = m
<1> DEFINE g == Image(m, s)
<1>1. g \in Images /\ g.flips = 0 /\ g.mem = m /\ g.kind \in {"plain", "sealed"}
  BY DEF Image, Images, LardSecs
<1> HIDE DEF g
<1>2. Good(g) => Loaded(g) = m
  BY <1>1 DEF Good, Loaded
<1> QED
  BY <1>1, <1>2 DEF g

LEMMA TornIsBad ==
  ASSUME NEW m \in Mems, NEW s \in LardSecs, NEW old \in Images, NEW k \in 0..(MaxFiles - 1)
  PROVE  LET g == Torn(Image(m, s), old, k)
         IN g \in Images /\ g.flips = 0 /\ ~Good(g)
<1> DEFINE new == Image(m, s)
           g == Torn(new, old, k)
           left == [j \in 1..MaxFiles |->
                      IF j <= k THEN m.slots[j]
                      ELSE IF old.kind = "sealed" THEN Garbage ELSE old.mem.slots[j]]
           n == [m EXCEPT !.slots = left]
<1>1. new \in Images /\ new.flips = 0 /\ new.mem = m /\ new.kind \in {"plain", "sealed"}
  BY ImageLoads
<1>2. old.mem \in Mems
  BY ImageFields
<1>3. left \in [1..MaxFiles -> Seq(Bytes)]
  <2>1. m.slots \in [1..MaxFiles -> Seq(Bytes)] /\ old.mem.slots \in [1..MaxFiles -> Seq(Bytes)]
    BY <1>2, MemFields
  <2> QED
    BY <2>1, GarbageType
<1> HIDE DEF left
<1>4. n \in [files : Seq(Entries), slots : [1..MaxFiles -> Seq(Bytes)]] /\ n.files = m.files
  BY <1>3 DEF Mems
<1>5. n \in Mems
  BY <1>4 DEF Mems
<1>6. g = [new EXCEPT !.whole = FALSE, !.mem = n]
  <2> HIDE DEF new
  <2>1. g = [new EXCEPT !.whole = FALSE, !.mem = [new.mem EXCEPT !.slots =
               [j \in 1..MaxFiles |->
                  IF j <= k THEN new.mem.slots[j]
                  ELSE IF old.kind = "sealed" THEN Garbage ELSE old.mem.slots[j]]]]
    BY <1>1 DEF Torn, Images
  <2> QED
    BY <2>1, <1>1 DEF left
<1> HIDE DEF new, n, g
<1>7. g \in Images /\ g.kind = new.kind /\ g.whole = FALSE /\ g.flips = 0
  BY <1>1, <1>5, <1>6 DEF Images
<1>8. ~Good(g)
  BY <1>1, <1>7 DEF Good, Opens
<1> QED
  BY <1>7, <1>8 DEF new, g

\* A boot finds in a good image what was kept, and else what it can read.
LEMMA BootKeeps ==
  ASSUME MediaInv, NEW dsk \in [Drives -> Images], NEW kp, NEW bad,
         kp = [d \in Drives |-> kp[d]],
         \A d \in Drives : dsk[d].flips <= faults',
         \A d \in Drives : Good(dsk[d]) => Agrees(Loaded(dsk[d]), kp[d]),
         faults' \in Nat, Boot(dsk, kp, bad)
  PROVE  MediaInv'
<1>1. /\ disk' = dsk /\ kept' = kp /\ sec' = AtBoot
      /\ mem' = [d \in Drives |-> IF d \in bad THEN NoFiles ELSE Loaded(dsk[d])]
      /\ stored' = [d \in Drives |-> d \notin bad]
      /\ want' = [d \in Drives |-> IF d \in bad THEN Nothing
                                   ELSE IF Good(dsk[d]) THEN kp[d] ELSE Contents(Loaded(dsk[d]))]
  BY DEF Boot
<1>2. ASSUME NEW d \in Drives PROVE mem'[d] \in Mems /\ Agrees(mem'[d], want'[d])
  <2>1. CASE d \in bad
    BY <1>1, <2>1, NoFilesAgree
  <2>2. CASE d \notin bad /\ Good(dsk[d])
    BY <1>1, <2>2, LoadedType
  <2>3. CASE d \notin bad /\ ~Good(dsk[d])
    BY <1>1, <2>3, LoadedType, AgreesWithContents
  <2> QED
    BY <2>1, <2>2, <2>3
<1>3. AtBoot \in LardSecs
  BY MediaAssumption DEF AtBoot, LardSecs, Secrets
<1>4. Typed'
  <2>1. mem' \in [Drives -> Mems] /\ stored' \in [Drives -> BOOLEAN]
    BY <1>1, <1>2
  <2>2. want' = [d \in Drives |-> want'[d]]
    BY <1>1
  <2> QED
    BY <1>1, <1>3, <2>1, <2>2 DEF Typed
<1>5. ReadsAsWritten'
  BY <1>2 DEF ReadsAsWritten
<1>6. LoadsAsKept'
  BY <1>1 DEF LoadsAsKept
<1> QED
  BY <1>4, <1>5, <1>6 DEF MediaInv

\* A sync, whole or torn, keeps the invariant for whatever was in memory.
LEMMA SyncedKeeps ==
  ASSUME MediaInv, NEW ds \in SUBSET Drives, NEW m \in [Drives -> Mems],
         NEW s \in LardSecs, NEW t \in LardSecs,
         NEW w, w = [d \in Drives |-> w[d]],
         \A d \in Drives : Agrees(m[d], w[d]),
         Synced(ds, m, s, t, w)
  PROVE  MediaInv'
<1> DEFINE on == {d \in ds : stored[d]}
           done(ok) == [d \in Drives |-> IF d \in ok THEN Image(m[d], s) ELSE disk[d]]
           now(ok) == [d \in Drives |-> IF d \in ok THEN w[d] ELSE kept[d]]
           torn(d, k) == Torn(Image(m[d], s), disk[d], k)
           after(dsk, kp) == disk' = dsk /\ kept' = kp /\ mem' = m /\ sec' = t /\ want' = w /\ UNCHANGED stored
<1>0. /\ disk \in [Drives -> Images] /\ stored \in [Drives -> BOOLEAN] /\ faults \in Nat
      /\ kept = [d \in Drives |-> kept[d]] /\ \A d \in Drives : disk[d].flips <= faults
      /\ \A d \in Drives : Good(disk[d]) => Agrees(Loaded(disk[d]), kept[d])
  BY DEF MediaInv, Typed, LoadsAsKept
<1>1. ASSUME NEW ok \in SUBSET Drives
      PROVE  /\ done(ok) \in [Drives -> Images] /\ now(ok) = [d \in Drives |-> now(ok)[d]]
             /\ \A d \in Drives : done(ok)[d].flips <= faults
             /\ \A d \in Drives : Good(done(ok)[d]) => Agrees(Loaded(done(ok)[d]), now(ok)[d])
  <2>1. ASSUME NEW d \in Drives
        PROVE  /\ done(ok)[d] \in Images /\ done(ok)[d].flips <= faults
               /\ Good(done(ok)[d]) => Agrees(Loaded(done(ok)[d]), now(ok)[d])
    <3>1. m[d] \in Mems /\ disk[d] \in Images
      BY <1>0
    <3>2. CASE d \in ok
      BY <1>0, <3>1, <3>2, ImageLoads
    <3>3. CASE d \notin ok
      BY <1>0, <3>1, <3>3
    <3> QED
      BY <3>2, <3>3
  <2> QED
    BY <2>1
<1>2. ASSUME NEW dsk, NEW kp, after(dsk, kp), faults' \in Nat, faults' >= faults,
             dsk \in [Drives -> Images], kp = [d \in Drives |-> kp[d]],
             \A d \in Drives : dsk[d].flips <= faults,
             \A d \in Drives : Good(dsk[d]) => Agrees(Loaded(dsk[d]), kp[d])
      PROVE  MediaInv'
  <2>1. \A d \in Drives : dsk[d].flips <= faults'
    BY <1>0, <1>2 DEF Images
  <2>2. Typed'
    BY <1>0, <1>2, <2>1 DEF Typed
  <2>3. ReadsAsWritten'
    BY <1>2 DEF ReadsAsWritten
  <2>4. LoadsAsKept'
    BY <1>2 DEF LoadsAsKept
  <2> QED
    BY <2>2, <2>3, <2>4 DEF MediaInv
<1>3. ASSUME NEW d \in on, NEW k \in 0..(MaxFiles - 1), NEW dsk \in [Drives -> Images], NEW kp,
             kp = [x \in Drives |-> kp[x]],
             \A x \in Drives : dsk[x].flips <= faults,
             \A x \in Drives : x # d => (Good(dsk[x]) => Agrees(Loaded(dsk[x]), kp[x]))
      PROVE  LET new == [dsk EXCEPT ![d] = torn(d, k)]
             IN /\ new \in [Drives -> Images] /\ \A x \in Drives : new[x].flips <= faults
                /\ \A x \in Drives : Good(new[x]) => Agrees(Loaded(new[x]), kp[x])
  <2>1. torn(d, k) \in Images /\ torn(d, k).flips = 0 /\ ~Good(torn(d, k)) /\ d \in Drives
    BY <1>0, TornIsBad
  <2> HIDE DEF torn
  <2> QED
    BY <1>0, <1>3, <2>1
<1>4. CASE after(done(on), now(on)) /\ UNCHANGED faults
  <2> DEFINE dsk == done(on)
             kp == now(on)
  <2>1. on \in SUBSET Drives
    OBVIOUS
  <2> HIDE DEF on
  <2>2. /\ dsk \in [Drives -> Images] /\ kp = [d \in Drives |-> kp[d]]
        /\ \A d \in Drives : dsk[d].flips <= faults
        /\ \A d \in Drives : Good(dsk[d]) => Agrees(Loaded(dsk[d]), kp[d])
    BY <1>1, <2>1
  <2>3. after(dsk, kp) /\ faults' \in Nat /\ faults' >= faults
    BY <1>0, <1>4
  <2> HIDE DEF dsk, kp
  <2> QED
    BY <1>2, <2>2, <2>3
<1>5. ASSUME faults' = faults + 1, NEW d \in on, NEW k \in 0..(MaxFiles - 1),
             after([done(on) EXCEPT ![d] = torn(d, k)], now(on \ {d}))
      PROVE  MediaInv'
  <2>1. \A x \in Drives : x # d => (Good(done(on)[x]) => Agrees(Loaded(done(on)[x]), now(on \ {d})[x]))
    <3>1. ASSUME NEW x \in Drives, x # d PROVE now(on \ {d})[x] = now(on)[x]
      BY <3>1
    <3> QED
      BY <3>1, <1>1
  <2> DEFINE all == done(on)
             kp == now(on \ {d})
             new == [all EXCEPT ![d] = torn(d, k)]
  <2>2. on \in SUBSET Drives /\ on \ {d} \in SUBSET Drives
    OBVIOUS
  <2>3. /\ all \in [Drives -> Images] /\ kp = [x \in Drives |-> kp[x]]
        /\ \A x \in Drives : all[x].flips <= faults
    BY <1>1, <2>2
  <2>4. /\ new \in [Drives -> Images] /\ \A x \in Drives : new[x].flips <= faults
        /\ \A x \in Drives : Good(new[x]) => Agrees(Loaded(new[x]), kp[x])
    <3> HIDE DEF all, kp, torn, on
    <3> QED
      BY <1>3, <2>1, <2>3 DEF all, kp
  <2>5. after(new, kp) /\ faults' \in Nat /\ faults' >= faults
    BY <1>0, <1>5
  <2> HIDE DEF new, kp, all
  <2> QED
    BY <1>2, <2>3, <2>4, <2>5
<1>6. ASSUME faults' = faults + 1, NEW d \in on, NEW k \in 0..(MaxFiles - 1),
             Boot([disk EXCEPT ![d] = torn(d, k)], kept, {})
      PROVE  MediaInv'
  <2> DEFINE new == [disk EXCEPT ![d] = torn(d, k)]
  <2>1. /\ new \in [Drives -> Images] /\ \A x \in Drives : new[x].flips <= faults
        /\ \A x \in Drives : Good(new[x]) => Agrees(Loaded(new[x]), kept[x])
    BY <1>0, <1>3
  <2>2. Boot(new, kept, {})
    BY <1>6
  <2> HIDE DEF new
  <2>3. \A x \in Drives : new[x].flips <= faults'
    BY <1>0, <1>6, <2>1 DEF Images
  <2>4. faults' \in Nat
    BY <1>0, <1>6
  <2> QED
    BY <1>0, <2>1, <2>2, <2>3, <2>4, BootKeeps
<1> QED
  BY <1>4, <1>5, <1>6 DEF Synced

\* A deleted file is gone, and those after it read, one slot down, as before.
LEMMA RemovedAgrees ==
  ASSUME NEW m \in Mems, NEW n, Place(m, n) > 0, NEW w, Agrees(m, w)
  PROVE  /\ Removed(m, Place(m, n)) \in Mems
         /\ Agrees(Removed(m, Place(m, n)), [x \in DOMAIN w \ {n} |-> w[x]])
<1> DEFINE i == Place(m, n)
           l == Len(m.files)
           h == Removed(m, i)
           v == [x \in DOMAIN w \ {n} |-> w[x]]
           \* the entry that comes to stand at j
           from(j) == IF j < i THEN j ELSE j + 1
<1>1. /\ i \in 1..l /\ m.files[i].name = n /\ l \in Nat /\ l <= MaxFiles /\ MaxFiles \in Nat
      /\ m.files \in Seq(Entries) /\ m.slots \in [1..MaxFiles -> Seq(Bytes)]
  BY PlaceIs, MemFields, MediaAssumption
<1>2. /\ h.files = [j \in 1..(l - 1) |-> IF j < i THEN m.files[j] ELSE [m.files[j + 1] EXCEPT !.slot = j]]
      /\ h.slots = [j \in 1..MaxFiles |->
                      IF j < i THEN m.slots[j]
                      ELSE IF j < l THEN Read(m, m.files[j + 1]) ELSE <<>>]
      /\ h = [files |-> h.files, slots |-> h.slots]
  BY DEF Removed
<1> HIDE DEF h, i
<1>3. ASSUME NEW j \in 1..(l - 1)
      PROVE  /\ from(j) \in 1..l /\ from(j) # i /\ h.files[j] \in Entries
             /\ h.files[j].name = m.files[from(j)].name
             /\ h.files[j].size = m.files[from(j)].size
             /\ h.files[j].slot = j
             /\ ReadFrom(h.slots[j], h.files[j].size) = ReadFrom(m.slots[from(j)], m.files[from(j)].size)
  <2>1. from(j) \in 1..l /\ from(j) # i /\ j \in 1..MaxFiles /\ j < l
    BY <1>1
  <2>2. /\ m.files[from(j)] \in Entries /\ m.files[from(j)].slot = from(j)
        /\ m.slots[from(j)] \in Seq(Bytes) /\ m.files[from(j)].size \in Nat
    BY <2>1, MemFields
  <2>3. CASE j < i
    <3>1. h.files[j] = m.files[j] /\ h.slots[j] = m.slots[j] /\ from(j) = j
      BY <2>1, <2>3, <1>2
    <3> QED
      BY <2>1, <2>2, <3>1
  <2>4. CASE ~(j < i)
    <3>1. /\ h.files[j] = [m.files[j + 1] EXCEPT !.slot = j]
          /\ h.slots[j] = Read(m, m.files[j + 1]) /\ from(j) = j + 1
      BY <2>1, <2>4, <1>2
    <3>2. /\ h.files[j] \in Entries /\ h.files[j].name = m.files[j + 1].name
          /\ h.files[j].size = m.files[j + 1].size /\ h.files[j].slot = j
      BY <2>1, <2>2, <3>1 DEF Entries
    <3>3. h.slots[j] = ReadFrom(m.slots[j + 1], m.files[j + 1].size)
      BY <2>2, <3>1, ReadIs
    <3>4. m.slots[j + 1] \in Seq(Bytes) /\ m.files[j + 1].size \in Nat
      BY <2>2, <3>1
    <3>5. ReadFrom(h.slots[j], h.files[j].size) = ReadFrom(m.slots[j + 1], m.files[j + 1].size)
      BY <3>2, <3>3, <3>4, ReadFromType
    <3> QED
      BY <2>1, <3>1, <3>2, <3>5
  <2> QED
    BY <2>3, <2>4
<1>4. h.files \in Seq(Entries) /\ Len(h.files) = l - 1
  <2>1. DOMAIN h.files = 1..(l - 1) /\ h.files \in [1..(l - 1) -> Entries]
    BY <1>2, <1>3
  <2>2. l - 1 \in Nat
    BY <1>1
  <2> QED
    BY <2>1, <2>2
<1>5. h.slots \in [1..MaxFiles -> Seq(Bytes)]
  <2>1. ASSUME NEW j \in 1..MaxFiles PROVE h.slots[j] \in Seq(Bytes)
    <3>1. CASE j < i
      BY <3>1, <1>1, <1>2
    <3>2. CASE ~(j < i) /\ j < l
      <4>1. j + 1 \in 1..l
        BY <3>2, <1>1
      <4>2. m.files[j + 1].slot = j + 1 /\ m.slots[j + 1] \in Seq(Bytes) /\ m.files[j + 1].size \in Nat
        BY <4>1, MemFields
      <4>3. h.slots[j] = Read(m, m.files[j + 1])
        BY <3>2, <1>2
      <4> QED
        BY <4>2, <4>3, ReadIs, ReadFromType
    <3>3. CASE ~(j < i) /\ ~(j < l)
      BY <3>3, <1>2, EmptySeq
    <3> QED
      BY <3>1, <3>2, <3>3
  <2> QED
    BY <2>1, <1>2
<1>6. h \in Mems
  <2>1. h \in [files : Seq(Entries), slots : [1..MaxFiles -> Seq(Bytes)]]
    BY <1>2, <1>4, <1>5
  <2>2. ASSUME NEW j \in 1..(l - 1), NEW k \in 1..(l - 1), h.files[j].name = h.files[k].name PROVE j = k
    <3>1. from(j) = from(k)
      BY <2>2, <1>3, MemFields, SMTT(30)
    <3> QED
      BY <3>1, <1>1
  <2>3. Len(h.files) <= MaxFiles /\ \A j \in 1..Len(h.files) : h.files[j].slot = j
    BY <1>1, <1>3, <1>4
  <2>4. \A j, k \in 1..Len(h.files) : h.files[j].name = h.files[k].name => j = k
    BY <2>2, <1>4
  <2> QED
    BY <2>1, <2>3, <2>4 DEF Mems
<1>7. Agrees(h, v)
  <2>1. DOMAIN v = DOMAIN w \ {n} /\ \A x \in DOMAIN v : v[x] = w[x]
    OBVIOUS
  <2> HIDE DEF v
  <2>2. ASSUME NEW x \in DOMAIN v PROVE Place(h, x) > 0
    <3> DEFINE k == Place(m, x)
               j == IF k < i THEN k ELSE k - 1
    <3>1. k \in 1..l /\ m.files[k].name = x /\ x # n
      BY <2>1, <2>2, AgreesAt, PlaceIs, MemFields
    <3>2. k # i
      BY <3>1, <1>1
    <3> HIDE DEF k
    <3>3. j \in 1..(l - 1) /\ from(j) = k /\ j > 0
      BY <3>1, <3>2, <1>1
    <3>4. h.files[j].name = x
      BY <3>1, <3>3, <1>3
    <3> QED
      BY <3>3, <3>4, <1>4, <1>6, PlaceIs
  <2>3. ASSUME NEW j \in 1..Len(h.files)
        PROVE  ReadFrom(h.slots[j], h.files[j].size)
                 = IF h.files[j].name \in DOMAIN v THEN v[h.files[j].name] ELSE <<>>
    <3> DEFINE k == from(j)
    <3>1. /\ k \in 1..l /\ k # i /\ h.files[j].name = m.files[k].name
          /\ ReadFrom(h.slots[j], h.files[j].size) = ReadFrom(m.slots[k], m.files[k].size)
      BY <1>3, <1>4
    <3> HIDE DEF k
    <3>2. m.files[k].name # n
      BY <3>1, <1>1, MemFields
    <3>3. ReadFrom(m.slots[k], m.files[k].size)
            = IF m.files[k].name \in DOMAIN w THEN w[m.files[k].name] ELSE <<>>
      BY <3>1, AgreesAt
    <3> QED
      BY <3>1, <3>2, <3>3, <2>1
  <2> QED
    BY <2>2, <2>3, <1>6, AgreesAt
<1> QED
  BY <1>6, <1>7 DEF h, i

LEMMA ChangedKeeps ==
  ASSUME MediaInv, NEW d \in Drives, NEW m \in Mems, NEW w, Agrees(m, w), Changed(d, m, w)
  PROVE  MediaInv'
<1> DEFINE M == [mem EXCEPT ![d] = m]
           W == [want EXCEPT ![d] = w]
<1>1. /\ mem \in [Drives -> Mems] /\ want = [x \in Drives |-> want[x]] /\ sec \in LardSecs
      /\ \A x \in Drives : Agrees(mem[x], want[x])
  BY DEF MediaInv, Typed, ReadsAsWritten
<1>2. M \in [Drives -> Mems]
  BY <1>1
<1>3. W = [x \in Drives |-> W[x]] /\ \A x \in Drives : W[x] = IF x = d THEN w ELSE want[x]
  BY <1>1
<1>4. \A x \in Drives : Agrees(M[x], W[x])
  BY <1>1, <1>3
<1>5. Synced({d}, M, sec, sec, W) /\ {d} \in SUBSET Drives
  BY DEF Changed
<1> HIDE DEF M, W
<1> QED
  BY <1>1, <1>2, <1>3, <1>4, <1>5, SyncedKeeps

LEMMA WriteKeeps ==
  ASSUME MediaInv, NEW d \in Drives, NEW n \in Names, NEW t \in Texts, NEW append \in BOOLEAN,
         Write(d, n, t, append)
  PROVE  MediaInv'
<1>1. /\ mem \in [Drives -> Mems] /\ mem[d] \in Mems /\ Agrees(mem[d], want[d])
      /\ ~Refuses(mem[d], n)
  BY DEF MediaInv, Typed, ReadsAsWritten, Write
<1>2. CASE Fits(mem[d], n, t, append)
  <2> DEFINE old == IF append /\ n \in DOMAIN want[d] THEN want[d][n] ELSE <<>>
             new == IF old = Garbage THEN Garbage ELSE old \o t
             w == Filed(want[d], n, new)
  <2>1. Changed(d, Written(mem[d], n, t, append), w)
    BY <1>2 DEF Write
  <2>2. Written(mem[d], n, t, append) \in Mems /\ Agrees(Written(mem[d], n, t, append), w)
    <3>1. /\ old = (IF append /\ n \in DOMAIN want[d] THEN want[d][n] ELSE <<>>)
          /\ new = (IF old = Garbage THEN Garbage ELSE old \o t)
      OBVIOUS
    <3> HIDE DEF old, new
    <3> QED
      BY <3>1, <1>1, <1>2, WrittenAgrees
  <2> HIDE DEF w
  <2> QED
    BY <2>1, <2>2, ChangedKeeps
<1>3. CASE ~Fits(mem[d], n, t, append)
  <2>1. /\ mem' = [mem EXCEPT ![d] = Entered(mem[d], n)]
        /\ UNCHANGED <<disk, stored, sec, want, kept, faults, turns>>
    BY <1>3 DEF Write
  <2>2. Entered(mem[d], n) \in Mems /\ Agrees(Entered(mem[d], n), want[d])
    BY <1>1, EnteredAgrees
  <2>3. Typed'
    BY <1>1, <2>1, <2>2 DEF MediaInv, Typed
  <2>4. ReadsAsWritten'
    BY <1>1, <2>1, <2>2 DEF MediaInv, ReadsAsWritten
  <2>5. LoadsAsKept'
    BY <2>1 DEF MediaInv, LoadsAsKept
  <2> QED
    BY <2>3, <2>4, <2>5 DEF MediaInv
<1> QED
  BY <1>2, <1>3

LEMMA FileCommandsKeep ==
  ASSUME MediaInv, NEW d \in Drives,
         (\E n \in Names : Delete(d, n)) \/ Format(d) \/ Sync(d)
  PROVE  MediaInv'
<1>1. mem[d] \in Mems /\ Agrees(mem[d], want[d])
  BY DEF MediaInv, Typed, ReadsAsWritten
<1>2. ASSUME NEW n \in Names, Delete(d, n) PROVE MediaInv'
  <2> DEFINE m == Removed(mem[d], Place(mem[d], n))
             w == [x \in DOMAIN want[d] \ {n} |-> want[d][x]]
  <2>1. Changed(d, m, w) /\ Place(mem[d], n) > 0
    BY <1>2 DEF Delete
  <2>2. m \in Mems /\ Agrees(m, w)
    BY <1>1, <2>1, RemovedAgrees
  <2> HIDE DEF m, w
  <2> QED
    BY <2>1, <2>2, ChangedKeeps
<1>3. CASE Format(d)
  BY <1>3, NoFilesAgree, ChangedKeeps DEF Format
<1>4. CASE Sync(d)
  BY <1>1, <1>4, ChangedKeeps DEF Sync
<1> QED
  BY <1>2, <1>3, <1>4

LEMMA SetKeeps ==
  ASSUME MediaInv, NEW t \in LardSecs, Set(t)
  PROVE  MediaInv'
<1>1. sec' = t /\ UNCHANGED <<disk, mem, stored, want, kept, faults>>
  BY DEF Set
<1> QED
  BY <1>1 DEF MediaInv, Typed, ReadsAsWritten, LoadsAsKept

LEMMA SyncAllKeeps ==
  ASSUME MediaInv, NEW s \in LardSecs, NEW t \in LardSecs, SyncAll(s, t)
  PROVE  MediaInv'
<1>1. /\ mem \in [Drives -> Mems] /\ want = [x \in Drives |-> want[x]]
      /\ \A x \in Drives : Agrees(mem[x], want[x])
  BY DEF MediaInv, Typed, ReadsAsWritten
<1>2. CASE s.locked
  BY <1>2, SetKeeps DEF SyncAll
<1>3. CASE ~s.locked
  BY <1>1, <1>3, SyncedKeeps DEF SyncAll
<1> QED
  BY <1>2, <1>3

LEMMA LardSecKeeps ==
  ASSUME MediaInv,
         \/ On \/ Off \/ Seal \/ Lock \/ Discard
         \/ \E key \in Keys : Unlock(key) \/ Regen(key)
         \/ \E on \in BOOLEAN : SetEcc(on) \/ SetRam(on) \/ SetStorage(on)
  PROVE  MediaInv'
<1>1. sec \in LardSecs
  BY DEF MediaInv, Typed
<1> DEFINE open == [sec EXCEPT !.enabled = TRUE]
           off == [sec EXCEPT !.enabled = FALSE, !.locked = FALSE]
<1>2. open \in LardSecs /\ off \in LardSecs
  BY <1>1 DEF LardSecs
<1>3. CASE On
  BY <1>2, <1>3, SetKeeps DEF On
<1>4. CASE Off
  <2>1. SyncAll(off, off)
    BY <1>4 DEF Off
  <2> HIDE DEF off
  <2> QED
    BY <1>2, <2>1, SyncAllKeeps
<1>5. CASE Seal
  <2>1. SyncAll(open, open)
    BY <1>5 DEF Seal
  <2> HIDE DEF open
  <2> QED
    BY <1>2, <2>1, SyncAllKeeps
<1>6. CASE Lock
  <2> DEFINE t == [open EXCEPT !.locked = TRUE]
  <2>1. SyncAll(open, t)
    BY <1>6 DEF Lock
  <2>2. t \in LardSecs
    BY <1>1 DEF LardSecs
  <2> HIDE DEF open, t
  <2> QED
    BY <1>2, <2>1, <2>2, SyncAllKeeps
<1>7. CASE Discard
  <2> DEFINE t == [open EXCEPT !.locked = TRUE, !.key = "none", !.discarded = TRUE]
  <2>1. SyncAll(open, t)
    BY <1>7 DEF Discard
  <2>2. t \in LardSecs
    BY <1>1 DEF LardSecs, Secrets
  <2> HIDE DEF open, t
  <2> QED
    BY <1>2, <2>1, <2>2, SyncAllKeeps
<1>8. ASSUME NEW key \in Keys, Unlock(key) \/ Regen(key) PROVE MediaInv'
  <2>1. /\ [sec EXCEPT !.locked = FALSE] \in LardSecs
        /\ [sec EXCEPT !.key = key, !.locked = FALSE, !.discarded = FALSE] \in LardSecs
    BY <1>1 DEF LardSecs, Secrets
  <2> QED
    BY <1>8, <2>1, SetKeeps DEF Unlock, Regen
<1>9. ASSUME NEW on \in BOOLEAN, SetEcc(on) \/ SetRam(on) \/ SetStorage(on) PROVE MediaInv'
  <2> DEFINE t1 == [sec EXCEPT !.ecc = on, !.storage = sec.storage \/ (on /\ ~sec.ram)]
             t2 == [sec EXCEPT !.ram = on, !.ecc = sec.ecc \/ on]
             t3 == [sec EXCEPT !.storage = on, !.ecc = sec.ecc \/ on]
  <2>1. Set(t1) \/ Set(t2) \/ Set(t3)
    BY <1>9 DEF SetEcc, SetRam, SetStorage
  <2>2. t1 \in LardSecs /\ t2 \in LardSecs /\ t3 \in LardSecs
    BY <1>1, <1>9 DEF LardSecs
  <2> HIDE DEF t1, t2, t3
  <2> QED
    BY <2>1, <2>2, SetKeeps
<1> QED
  BY <1>3, <1>4, <1>5, <1>6, <1>7, <1>8, <1>9

LEMMA FlipKeeps ==
  ASSUME MediaInv, NEW d \in Drives, Flip(d)
  PROVE  MediaInv'
<1>1. /\ disk \in [Drives -> Images] /\ faults \in Nat
      /\ \A x \in Drives : disk[x].flips <= faults
      /\ \A x \in Drives : Good(disk[x]) => Agrees(Loaded(disk[x]), kept[x])
  BY DEF MediaInv, Typed, LoadsAsKept
<1>2. PICK k \in 1..MaxFiles :
        disk' = [disk EXCEPT ![d].flips = @ + 1,
                             ![d].mem.slots[k] = IF disk[d].kind = "plain" THEN Garbage ELSE @]
  BY DEF Flip
<1> DEFINE g == disk[d]
           left == [g.mem.slots EXCEPT ![k] = IF g.kind = "plain" THEN Garbage ELSE g.mem.slots[k]]
           n == [g.mem EXCEPT !.slots = left]
           h == [g EXCEPT !.flips = g.flips + 1, !.mem = n]
<1>3. g \in Images /\ g.mem \in Mems /\ g.flips \in Nat /\ g.kind # "blank"
  BY <1>1, ImageFields DEF Flip
<1>4. left \in [1..MaxFiles -> Seq(Bytes)] /\ (g.kind # "plain" => left = g.mem.slots)
  <2>1. g.mem.slots \in [1..MaxFiles -> Seq(Bytes)]
    BY <1>3, MemFields
  <2> HIDE DEF g
  <2> QED
    BY <2>1, GarbageType
<1>5. n \in Mems /\ (g.kind # "plain" => n = g.mem)
  <2> HIDE DEF left, g
  <2>1. g.mem \in [files : Seq(Entries), slots : [1..MaxFiles -> Seq(Bytes)]]
    BY <1>3 DEF Mems
  <2>2. n \in [files : Seq(Entries), slots : [1..MaxFiles -> Seq(Bytes)]] /\ n.files = g.mem.files
    BY <1>4, <2>1
  <2>3. n \in Mems
    BY <1>3, <2>2 DEF Mems
  <2> QED
    BY <2>1, <2>3, <1>4
<1>6. disk' = [disk EXCEPT ![d] = h]
  BY <1>1, <1>2, <1>3
<1> HIDE DEF n
<1>7. /\ h \in Images /\ h.flips = g.flips + 1 /\ h.kind = g.kind
      /\ h.whole = g.whole /\ h.ecc = g.ecc /\ h.key = g.key /\ h.mem = n
  <2> HIDE DEF g
  <2>1. g.flips + 1 \in Nat
    BY <1>3
  <2> DEFINE f == g.flips + 1
  <2> HIDE DEF f
  <2>2. f \in Nat => [g EXCEPT !.flips = f, !.mem = n] \in Images
    BY <1>3, <1>5 DEF Images
  <2>3. h.flips = g.flips + 1 /\ h.kind = g.kind
        /\ h.whole = g.whole /\ h.ecc = g.ecc /\ h.key = g.key /\ h.mem = n
    BY <1>3 DEF Images
  <2> QED
    BY <2>1, <2>2, <2>3 DEF f
<1>8. Good(h) => Good(g) /\ Loaded(h) = Loaded(g)
  <2> HIDE DEF g, h
  <2>1. g.kind \in {"plain", "sealed"}
    BY <1>3, ImageFields
  <2>2. CASE g.kind = "plain"
    <3>1. h.flips # 0
      BY <1>3, <1>7
    <3> QED
      BY <2>2, <3>1, <1>7 DEF Good
  <2>3. CASE g.kind = "sealed"
    <3>1. Good(h) => Opens(h)
      BY <2>3, <1>7 DEF Good
    <3>2. (h.flips <= (IF h.ecc THEN 1 ELSE 0)) => (g.flips <= (IF g.ecc THEN 1 ELSE 0))
      <4>1. CASE g.ecc
        BY <4>1, <1>3, <1>7
      <4>2. CASE ~g.ecc
        BY <4>2, <1>3, <1>7
      <4> QED
        BY <4>1, <4>2
    <3>3. Opens(h) => Opens(g)
      BY <3>2, <1>7 DEF Opens
    <3>4. Opens(h) => Loaded(h) = g.mem /\ Loaded(g) = g.mem
      BY <3>3, <2>3, <1>5, <1>7 DEF Loaded
    <3>5. Opens(g) => Good(g)
      BY <2>3 DEF Good
    <3> QED
      BY <3>1, <3>3, <3>4, <3>5
  <2> QED
    BY <2>1, <2>2, <2>3
<1> HIDE DEF h
<1>9. faults' = faults + 1 /\ UNCHANGED <<mem, stored, sec, want, kept, turns>>
  BY DEF Flip
<1>10. Typed'
  <2>1. disk' \in [Drives -> Images]
    BY <1>1, <1>6, <1>7
  <2>2. ASSUME NEW x \in Drives PROVE disk'[x].flips <= faults'
    <3>1. disk[x].flips \in Nat /\ disk[x].flips <= faults
      BY <1>1, ImageFields
    <3>2. x = d => disk'[x].flips = disk[x].flips + 1
      BY <1>1, <1>6, <1>7
    <3>3. x # d => disk'[x].flips = disk[x].flips
      BY <1>1, <1>6
    <3> QED
      BY <3>1, <3>2, <3>3, <1>1, <1>9
  <2> QED
    BY <1>9, <2>1, <2>2 DEF MediaInv, Typed
<1>11. LoadsAsKept'
  BY <1>1, <1>6, <1>8, <1>9 DEF LoadsAsKept
<1>12. ReadsAsWritten'
  BY <1>9 DEF MediaInv, ReadsAsWritten
<1> QED
  BY <1>10, <1>11, <1>12 DEF MediaInv

LEMMA RebootKeeps == MediaInv /\ Reboot => MediaInv'
<1> SUFFICES ASSUME MediaInv, Reboot PROVE MediaInv'
  OBVIOUS
<1>1. PICK bad \in {{}} \cup {{d} : d \in Drives} :
        faults' = faults + Cardinality(bad) /\ Boot(disk, kept, bad)
  BY DEF Reboot
<1>2. Cardinality(bad) \in Nat
  BY FS_EmptySet, FS_Singleton
<1>3. /\ disk \in [Drives -> Images] /\ faults \in Nat /\ kept = [d \in Drives |-> kept[d]]
      /\ \A x \in Drives : disk[x].flips <= faults
      /\ \A x \in Drives : Good(disk[x]) => Agrees(Loaded(disk[x]), kept[x])
  BY DEF MediaInv, Typed, LoadsAsKept
<1>4. faults' \in Nat /\ \A x \in Drives : disk[x].flips <= faults'
  <2>1. \A x \in Drives : disk[x].flips \in Nat
    BY <1>3, ImageFields
  <2> QED
    BY <1>1, <1>2, <1>3, <2>1
<1> QED
  BY <1>1, <1>3, <1>4, BootKeeps

\* --------------------------------- the system ------------------------------

LEMMA MediaStart == Init => MediaInv
<1> SUFFICES ASSUME Init PROVE MediaInv
  OBVIOUS
<1>1. /\ disk = [d \in Drives |-> Blank] /\ mem = [d \in Drives |-> NoFiles]
      /\ stored = [d \in Drives |-> TRUE] /\ sec = AtBoot
      /\ want = [d \in Drives |-> Nothing] /\ kept = want /\ faults = 0
  BY DEF Init
<1>2. Blank \in Images /\ Blank.flips = 0 /\ Loaded(Blank) = NoFiles
  BY NoFilesAgree, MediaAssumption DEF Blank, Images, Secrets, Loaded
<1>3. AtBoot \in LardSecs
  BY MediaAssumption DEF AtBoot, LardSecs, Secrets
<1>4. Typed
  BY <1>1, <1>2, <1>3, NoFilesAgree DEF Typed
<1>5. ReadsAsWritten /\ LoadsAsKept
  BY <1>1, <1>2, NoFilesAgree DEF ReadsAsWritten, LoadsAsKept
<1> QED
  BY <1>4, <1>5 DEF MediaInv

LEMMA MediaStep == MediaInv /\ [Next]_vars => MediaInv'
<1>1. MediaInv /\ UNCHANGED vars => MediaInv'
  BY DEF MediaInv, Typed, ReadsAsWritten, LoadsAsKept, vars
<1>2. MediaInv /\ Next => MediaInv'
  BY WriteKeeps, FileCommandsKeep, LardSecKeeps, FlipKeeps, RebootKeeps DEF Next
<1> QED
  BY <1>1, <1>2

LEMMA MediaHolds == Spec => []MediaInv
  BY MediaStart, MediaStep, PTL DEF Spec

\* Whatever is written, deleted, synced, torn, flipped, locked or sealed with
\* another key, on any number of drives: a file reads as what was written to it
\* (mediafs_read, mediafs_sync, lardsec_open_media_image).
THEOREM ReadsAsWrittenHolds == Spec => []ReadsAsWritten
<1>1. MediaInv => ReadsAsWritten
  BY DEF MediaInv
<1> QED
  BY <1>1, MediaHolds, PTL

\* Entries stay in their slots and the tables within their limits, however many
\* drives, files and faults there are (mediafs_write, mediafs_delete).
THEOREM MediaTypeCorrect == Spec => []TypeOK
<1>1. MediaInv => TypeOK
  <2> SUFFICES ASSUME MediaInv, NEW d \in Drives
               PROVE  /\ Len(mem[d].files) <= MaxFiles
                      /\ \A i \in DOMAIN mem[d].files :
                           mem[d].files[i].slot = i /\ mem[d].files[i].size <= FileCap
                      /\ disk[d].flips <= faults
    BY DEF TypeOK
  <2> DEFINE m == mem[d]
  <2>1. m \in Mems /\ disk[d].flips <= faults
    BY DEF MediaInv, Typed
  <2>2. ASSUME NEW x \in Mems
        PROVE  /\ Len(x.files) <= MaxFiles
               /\ \A i \in DOMAIN x.files : x.files[i].slot = i /\ x.files[i].size <= FileCap
    BY MemFields, MediaAssumption
  <2> QED
    BY <2>1, <2>2
<1> QED
  BY <1>1, MediaHolds, PTL

=============================================================================
