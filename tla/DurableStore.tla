---------------------------- MODULE DurableStore ----------------------------
(***************************************************************************)
(* What LardOS promises of its non-volatile store.  A boot restores one    *)
(* whole image that stands on the disk, or the defaults.  A kernel that    *)
(* knows what stands there leaves for the next boot the image it last      *)
(* saved or loaded, or one a save tried to write since.  A kernel that was *)
(* not able to read the disk, or that failed before it had, promises only  *)
(* that whatever stands there is a whole image.                            *)
(* LpstStore is shown to implement it.                                     *)
(***************************************************************************)
CONSTANTS
  Images,     \* possible contents of all writable files together
  Defaults,   \* the contents fs_init gives them before any restore
  NoImage     \* nothing to restore

VARIABLES
  ram,        \* the files as the kernel sees them
  kept,       \* the images that stand whole on the disk
  committed,  \* the image last acknowledged, or what a boot would restore
  attempts,   \* images that saves begun since then may have left behind
  phase       \* "off", "waking", "blind" or "known"

vars == <<ram, kept, committed, attempts, phase>>

Init ==
  /\ ram \in Images
  /\ kept = {}
  /\ committed = NoImage
  /\ attempts = {}
  /\ phase = "off"

Restored(image) == IF image = NoImage THEN Defaults ELSE image

PowerOn ==
  /\ phase = "off" /\ phase' = "waking"
  /\ ram' \in Images
  /\ UNCHANGED <<kept, committed, attempts>>

\* The files are filled and loaded one by one.
Wake ==
  /\ phase = "waking"
  /\ ram' \in Images
  /\ UNCHANGED <<kept, committed, attempts, phase>>

\* The boot is over: RAM is what the disk had to give, or what could be read
\* of it.
Woken ==
  /\ phase = "waking"
  /\ \/ phase' = "known" /\ ram = Restored(committed)
     \/ phase' = "blind" /\ ram \in kept \cup {Defaults}
  /\ UNCHANGED <<ram, kept, committed, attempts>>

\* Edits, a save that begins, fails, or destroys an earlier attempt, a load
\* under way: none of them changes what is committed.
Work ==
  /\ phase = "known"
  /\ ram' \in Images
  /\ kept' \subseteq kept \cup {ram'}
  /\ attempts' \subseteq attempts \cup {ram'}
  /\ UNCHANGED <<committed, phase>>

\* The same of a kernel that does not know: any image may be overwritten, but
\* only by a whole one.
Grope ==
  /\ phase = "blind"
  /\ ram' \in Images
  /\ kept' \subseteq kept \cup {ram'}
  /\ committed' \in kept' \cup {NoImage}
  /\ UNCHANGED <<attempts, phase>>

\* A save reports success.
Sync ==
  /\ phase \in {"known", "blind"} /\ phase' = "known"
  /\ ram \in kept
  /\ committed' = ram
  /\ attempts' = {}
  /\ UNCHANGED <<ram, kept>>

\* A load at run time is complete.
Reload ==
  /\ phase = "known"
  /\ ram \in attempts \cup {committed}
  /\ committed' = ram
  /\ attempts' = {}
  /\ UNCHANGED <<ram, kept, phase>>

\* A load that could not read one of the banks takes the other.
Lose ==
  /\ phase = "known" /\ phase' = "blind"
  /\ ram \in kept
  /\ committed' \in kept
  /\ attempts' = {}
  /\ UNCHANGED <<ram, kept>>

\* A load finds out what the disk has.
Learn ==
  /\ phase = "blind" /\ phase' = "known"
  /\ attempts' \subseteq kept
  /\ committed' \in kept \cup {NoImage}
  /\ committed \in attempts' \cup {committed'}
  /\ UNCHANGED <<ram, kept>>

\* A panic before the boot is over saves RAM as it is.
PanicWaking ==
  /\ phase = "waking" /\ phase' = "blind"
  /\ ram' \in Images
  /\ UNCHANGED <<kept, committed, attempts>>

\* Power is lost: the disk settles the question of which attempt, if any, took
\* effect.  What RAM held no longer matters.
Crash ==
  /\ phase # "off" /\ phase' = "off"
  /\ ram' \in Images
  /\ \/ phase = "waking" /\ UNCHANGED <<kept, committed>>
     \/ phase = "blind" /\ kept' \subseteq kept \cup {ram} /\ committed' \in kept' \cup {NoImage}
     \/ phase = "known" /\ kept' \subseteq kept \cup {ram} /\ committed' \in attempts \cup {committed}
  /\ attempts' = {}

Next == \/ PowerOn \/ Wake \/ Woken \/ Work \/ Grope \/ Sync \/ Reload \/ Lose \/ Learn
        \/ PanicWaking \/ Crash

Spec == Init /\ [][Next]_vars
=============================================================================
