--------------------------------- MODULE Rxr ---------------------------------
(***************************************************************************)
(* Installing application bundles, src/os/kernel/rxr.c, on the table of    *)
(* writable files: a first pass names a slot for every file of the bundle  *)
(* and keeps what the file held, a second one writes, and "rxr undo" puts  *)
(* back what was kept.  The code runs each through without a break; the    *)
(* model takes one step per file.  What the lines of a bundle look like,   *)
(* and the aliases, which map every name to itself, are left out.          *)
(* rxr_verify stops at the line END of a bundle and the loops of           *)
(* rxr_install do not: `ends` of a bundle is how many files come before.   *)
(***************************************************************************)
EXTENDS FileNames, Sequences

CONSTANTS
  Bundles,    \* the bundles a user may install: a sequence of files, and its END
  ReadOnly,   \* the names of the visible built-in files
  SlotName,   \* rxr_slot_name: the names an undone slot may get, in order
  UndoFiles,  \* RXR_UNDO_MAX_FILES: 8
  UndoBytes   \* RXR_UNDO_BYTES_MAX: 8192

BundleFiles == Seq([name : Names, content : Data])

ASSUME BundlesAssumption ==
  /\ Bundles \subseteq [files : BundleFiles, ends : Nat]
  /\ \A b \in Bundles : b.ends <= Len(b.files)
  /\ ReadOnly \subseteq Names
  /\ UndoFiles \in Nat /\ UndoBytes \in Nat

\* fs.c:568-575 and rxr_slot_name: the slots for bundles are of one capacity, and
\* undo knows the name each was compiled with.
ASSUME BundleSlotsAssumption ==
  /\ SlotName \in Seq(SlotNames)
  /\ \A i \in Slots \ Fixed : \E k \in DOMAIN SlotName : SlotName[k] = Home[i]
  /\ \A i, j \in Slots \ Fixed : Cap[i] = Cap[j]

VARIABLES
  phase,    \* what rxr_install or rxr_undo_last is doing
  bundle,   \* with which bundle
  at,       \* and which file of it, or of the undo record
  undo,     \* s_rxr_undo
  before,   \* history variable: the files when the last install began
  outcome   \* history variable: how the last install or undo ended, if nothing
            \* has happened since

rxrVars == <<phase, bundle, at, undo, before, outcome>>

-----------------------------------------------------------------------------
Kept == [name : Names, content : Data, created : BOOLEAN]

NoUndo == [files |-> <<>>, used |-> 0]
NoBundle == [files |-> <<>>, ends |-> 0]

RxrInit ==
  /\ Init
  /\ phase = "none" /\ bundle = NoBundle /\ at = 1
  /\ undo = NoUndo
  /\ before = {} /\ outcome = "none"

\* A bug to catch: a new file is taken to fit the largest slot.
CapacityForAny(n) == Cap[CHOOSE i \in Slots : \A j \in Slots : Cap[j] <= Cap[i]]

\* fs_writable_capacity_for, with 0 for a name that cannot be had
CapacityFor(n) ==
  LET taken == IF Named(n) # {} THEN Named(n) ELSE FirstFree
  IN  IF taken = {} THEN 0 ELSE Cap[CHOOSE i \in taken : TRUE]

\* rxr_verify: every file could be had by itself, and there are slots for the
\* new ones, among which a file that covers a built-in one is not counted.
Verifies(b) ==
  /\ b.ends > 0
  /\ \A k \in 1 .. b.ends :
       /\ Named(b.files[k].name) # {} \/ FirstFree # {}
       /\ Size[b.files[k].content] <= CapacityFor(b.files[k].name)
  /\ Cardinality({k \in 1 .. b.ends : Named(b.files[k].name) = {} /\ b.files[k].name \notin ReadOnly})
       <= Cardinality({i \in Slots : IsFree(i)})

Begin(b) ==
  /\ Running /\ phase = "none"
  /\ Verifies(b)
  /\ phase' = "capture" /\ bundle' = b /\ at' = 1
  /\ undo' = NoUndo
  /\ before' = Files /\ outcome' = "none"
  /\ UNCHANGED vars

Captured(n) == \E k \in DOMAIN undo.files : undo.files[k].name = n

HasRoom(c) == Len(undo.files) < UndoFiles /\ Size[c] <= UndoBytes - undo.used

\* A bug to catch: whether the file is new is asked when it has a slot already.
KeepAsOld(n, c, isNew) ==
  undo' = [files |-> Append(undo.files, [name |-> n, content |-> c, created |-> FALSE]),
           used |-> undo.used + Size[c]]

Keep(n, c, isNew) ==
  undo' = [files |-> Append(undo.files, [name |-> n, content |-> c, created |-> isNew]),
           used |-> undo.used + Size[c]]

Fail ==
  /\ phase' = "none" /\ undo' = NoUndo /\ outcome' = "failed"
  /\ UNCHANGED <<bundle, at, before>>

\* A bug to catch: the last file of a bundle is left out.
AdvanceShort ==
  /\ IF at + 1 < Len(bundle.files) THEN phase' = phase /\ at' = at + 1
     ELSE phase' = (IF phase = "capture" THEN "write" ELSE "none") /\ at' = 1
  /\ outcome' = IF phase = "write" /\ at + 1 >= Len(bundle.files) THEN "installed" ELSE "none"
  /\ UNCHANGED <<bundle, before>>

Advance ==
  /\ IF at < Len(bundle.files) THEN phase' = phase /\ at' = at + 1
     ELSE phase' = (IF phase = "capture" THEN "write" ELSE "none") /\ at' = 1
  /\ outcome' = IF phase = "write" /\ at = Len(bundle.files) THEN "installed" ELSE "none"
  /\ UNCHANGED <<bundle, before>>

\* The slot fs_open_or_create_writable answers with.
Obtained(n) == IF Named(n) # {} THEN Named(n) ELSE FirstFree
Obtain(n) == name' = IF Named(n) # {} THEN name
                     ELSE [i \in Slots |-> IF i \in FirstFree THEN n ELSE name[i]]

Drifts(n) == Named(n) = {} /\ n \in SlotNames

\* A round of the first loop of rxr_install.  When it cannot keep what the file
\* held it gives up, and the slots it has named stay named.
CaptureFile ==
  LET n == bundle.files[at].name
  IN  /\ phase = "capture"
      /\ Obtain(n)
      /\ IF Obtained(n) = {} THEN Fail
         ELSE \E i \in Obtained(n) :
                \/ Captured(n) /\ Advance /\ UNCHANGED undo
                \/ ~Captured(n) /\ ~HasRoom(content[i]) /\ Fail
                \/ /\ ~Captured(n) /\ HasRoom(content[i])
                   /\ Keep(n, content[i], Named(n) = {})
                   /\ Advance
      /\ booted' = FALSE /\ drifted' = (drifted \/ Drifts(n))
      /\ UNCHANGED <<content, image, next>>

\* A round of the second loop.
WriteFile ==
  LET f == bundle.files[at]
  IN  /\ phase = "write"
      /\ Obtain(f.name)
      /\ IF \E i \in Obtained(f.name) : Fits(f.content, i)
           THEN /\ content' = [i \in Slots |-> IF i \in Obtained(f.name) THEN f.content ELSE content[i]]
                /\ Advance /\ UNCHANGED undo
           ELSE Fail /\ UNCHANGED content
      /\ booted' = FALSE /\ drifted' = (drifted \/ Drifts(f.name))
      /\ UNCHANGED <<image, next>>

\* rxr_undo_last
BeginUndo ==
  /\ Running /\ phase = "none"
  /\ undo.files # <<>>
  /\ phase' = "undo" /\ at' = 1
  /\ UNCHANGED <<vars, bundle, undo, before, outcome>>

MissingSlotNames == {k \in DOMAIN SlotName : Named(SlotName[k]) = {}}

\* release_created_slot: the first of its names that no file has.
FirstMissing == {k \in MissingSlotNames : \A l \in MissingSlotNames : k <= l}

\* A round of the loop of rxr_undo_last, which passes over a file that is gone.
\* What is kept may be too large for the slot that has the name now: fs_write
\* then writes a part of it, but the file is given its size.
UndoFile ==
  LET u == undo.files[at]
  IN  /\ phase = "undo"
      /\ content' = [i \in Slots |-> IF i \in Named(u.name) THEN u.content ELSE content[i]]
      /\ IF Named(u.name) # {} /\ u.created /\ Size[u.content] = 0 /\ MissingSlotNames # {}
           THEN \E i \in Named(u.name), k \in FirstMissing : name' = [name EXCEPT ![i] = SlotName[k]]
           ELSE UNCHANGED name
      /\ IF at < Len(undo.files) THEN at' = at + 1 /\ UNCHANGED <<phase, undo, outcome>>
         ELSE /\ at' = 1 /\ phase' = "none" /\ undo' = NoUndo
              /\ outcome' = IF outcome = "installed" THEN "undone" ELSE "none"
      /\ booted' = FALSE
      /\ UNCHANGED <<image, next, drifted, bundle, before>>

\* Everything else that happens to the table while the system runs.  Saves and
\* loads are left to FileNames.
Others ==
  /\ phase = "none"
  /\ Edit
  /\ outcome' = "none"
  /\ UNCHANGED <<phase, bundle, at, undo, before>>

\* A reset, in the middle of an install too.
Reset ==
  /\ Boot
  /\ phase' = "none" /\ bundle' = NoBundle /\ at' = 1 /\ undo' = NoUndo
  /\ before' = {} /\ outcome' = "none"

Install == (\E b \in Bundles : Begin(b)) \/ CaptureFile \/ WriteFile
UndoLast == BeginUndo \/ UndoFile

RxrNext == Install \/ UndoLast \/ Others \/ Reset

RxrSpec == RxrInit /\ [][RxrNext]_<<vars, rxrVars>>

-----------------------------------------------------------------------------
\* The record that undo works from never outgrows its arrays, and a step never
\* looks at a file behind the end of it or of the bundle.
RxrTypeOK ==
  /\ TypeOK
  /\ phase \in {"none", "capture", "write", "undo"}
  /\ bundle \in [files : BundleFiles, ends : Nat]
  /\ undo.files \in Seq(Kept) /\ undo.used \in 0 .. UndoBytes
  /\ Len(undo.files) <= UndoFiles
  /\ phase = "undo" => at \in DOMAIN undo.files
  /\ phase \in {"capture", "write"} => at \in DOMAIN bundle.files

\* A bundle that is installed is there whole, each file with what the bundle
\* holds last under its name.
InstalledWhole ==
  outcome = "installed" /\ phase = "none" =>
    \A k \in DOMAIN bundle.files :
      (\A l \in DOMAIN bundle.files : bundle.files[l].name = bundle.files[k].name => l <= k)
        => \E i \in Slots : name[i] = bundle.files[k].name /\ content[i] = bundle.files[k].content

\* An install that gives up has changed no file; at most it has made empty ones.
FailedInstallKeepsFiles ==
  outcome = "failed" => before \subseteq Files /\ \A f \in Files \ before : f[2] = Nothing

\* README.md:770, "rxr undo last": right after an install it gives back the
\* files that were there, under their names, and the slots that were free.
UndoRestores == outcome = "undone" => Files = before

\* A bundle that ends where it says, and names none of the slots that are free.
Ordinary ==
  /\ bundle.ends = Len(bundle.files)
  /\ \A k \in DOMAIN bundle.files : bundle.files[k].name \notin SlotNames

\* An install of an ordinary bundle writes all its files or none, and an undo
\* right after it gives back what there was, unless a fixed slot was renamed
\* or a slot's name given away before.
InstallIsAtomic ==
  Ordinary /\ ~drifted => InstalledWhole /\ FailedInstallKeepsFiles /\ UndoRestores

\* LSH.md:124: "rxr verify" checks "installable files, and RXR writable slots
\* before install": what install finds out later has changed no file.
VerifiedBeforeInstall == FailedInstallKeepsFiles

\* fs.c:3170, "if (!w || w->size > w->cap ...) return -3": a file larger than its
\* slot is a table that fs_persist_save refuses to save, so none is left by what
\* users do.
NoneTooLarge == phase = "none" => \A i \in Slots : Fits(content[i], i)
=============================================================================
