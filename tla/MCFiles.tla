------------------------------- MODULE MCFiles -------------------------------
(***************************************************************************)
(* The files of fs.c: the writable table with its saves and boots          *)
(* (FileNames), bundles installed in it (Rxr), and, on their own, the      *)
(* built-in files that are hidden or deleted (DeleteOverlay) and archives, *)
(* packages and programs that come in one file (Archives).  `part` says    *)
(* which of them a behaviour explores while the others rest.               *)
(***************************************************************************)
EXTENDS Rxr, TLC

VARIABLES tables, log, saved, strayed, part,
          files, dirty, packUndo, vms, disk, scrambled, made, last, steps

\* A fixed slot with room for more than the two that are for bundles.
MCSlots == 0 .. 2
MCHome == (0 :> "notes") @@ (1 :> "rxrslot0") @@ (2 :> "rxrslot1")
MCCap == (0 :> 2) @@ (1 :> 1) @@ (2 :> 1)
MCNames == {"notes", "rxrslot0", "rxrslot1", "mine"}
MCSlotNames == {"rxrslot0", "rxrslot1"}
MCSlotName == <<"rxrslot0", "rxrslot1">>
MCData == {"none", "old", "new"}
MCSize == ("none" :> 0) @@ ("old" :> 2) @@ ("new" :> 1)

\* Bundles of a file that covers a built-in one, alone and twice; of one with
\* the name of a slot; of more files than the undo record has room for; of one
\* that fits the large slot only; and with that behind the line END.
F(n) == [name |-> n, content |-> "new"]
Large(n) == [name |-> n, content |-> "old"]
Whole(fs) == [files |-> fs, ends |-> Len(fs)]
MCBundles == {Whole(<<F("mine")>>), Whole(<<F("mine"), F("mine")>>), Whole(<<F("rxrslot1"), F("mine")>>),
              Whole(<<F("mine"), F("rxrslot1"), F("notes")>>), Whole(<<F("notes"), Large("mine")>>),
              [files |-> <<F("notes"), Large("mine")>>, ends |-> 1]}

Overlay == INSTANCE DeleteOverlay WITH
                BuiltIn <- {"shell", "guide"}, HiddenMax <- 1, DeletedMax <- 1, LogMax <- 3

T(c) == [t |-> "text", c |-> c]
L(k, n) == [t |-> "line", k |-> k, n |-> n]
E(n, offset, size) ==
  [t |-> "entry", name |-> n, method |-> 0, offset |-> offset, packed |-> size, unpacked |-> size]

\* An archive of two members and one with a directory that is too short; a
\* package with a file twice, a line FILE within a file and a file behind its
\* end; a program with an instruction that fails.
MCGiven ==
  [bundle |-> <<[t |-> "lar", count |-> 2, dir |-> 2], E("n", 3, 1), E("m", 4, 2), T("a"), T("b"), T("a")>>,
   torn |-> <<[t |-> "lar", count |-> 2, dir |-> 1], E("n", 2, 1), T("a")>>,
   pack |-> <<L("LPACK 1", ""), L("FILE", "notes"), T("a"), L("ENDFILE", ""), L("FILE", "notes"),
              L("FILE", "x"), L("ENDFILE", ""), L("END", ""), L("FILE", "x"), T("b"), T("a")>>,
   vm |-> <<L("LHA 1", ""), L("NAME", "m"), L("CODE", ""), T("bad"), L("END", "")>>]

Packs == INSTANCE Archives WITH
           Given <- MCGiven, Caps <- [lar_extract |-> 4, lha |-> 1, notes |-> 4], Spare <- {"x"}, SpareMax <- 1,
           Words <- {<<T("a")>>, <<T("b"), T("bad"), T("a")>>}, Members <- {"m", "bad"}, Passwords <- {"", "p", "q"},
           UndoFiles <- 2, UndoCells <- 3, VmMax <- 2, ProgramMax <- 2, MaxSteps <- 3, undo <- packUndo

ASSUME Overlay!OverlayAssumption /\ Packs!ArchivesAssumption

overlayVars == <<tables, log, saved, strayed>>
packVars == <<files, dirty, packUndo, vms, disk, scrambled, made, last, steps>>

MCInit ==
  /\ RxrInit /\ Overlay!Init /\ Packs!Init
  /\ part \in {"names", "bundles", "overlay", "archives"}

MCNext ==
  /\ UNCHANGED part
  /\ \/ part = "names" /\ Next /\ UNCHANGED <<rxrVars, overlayVars, packVars>>
     \/ part = "bundles" /\ RxrNext /\ UNCHANGED <<overlayVars, packVars>>
     \/ part = "overlay" /\ Overlay!Next /\ UNCHANGED <<vars, rxrVars, packVars>>
     \/ part = "archives" /\ Packs!Next /\ UNCHANGED <<vars, rxrVars, overlayVars>>

MCSpec == MCInit /\ [][MCNext]_<<vars, rxrVars, overlayVars, packVars, part>>

LogTellsTables == Overlay!LogTellsTables
DeletedStaysDeleted == Overlay!DeletedStaysDeleted

\* An archive opens for its password, a package that was refused has changed
\* nothing and one that was not can be undone, a machine keeps its name.
ArchivesAreSound == part = "archives" => Packs!ArchivesAreSound

\* What the documentation says and the code does not do.
RefusedExtractKeeps == Packs!RefusedExtractKeeps
InstalledIsVerified == Packs!InstalledIsVerified
CountIsFiles == Packs!CountIsFiles
SealedInPlaceOpens == Packs!SealedInPlaceOpens
=============================================================================
