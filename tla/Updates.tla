------------------------------- MODULE Updates -------------------------------
(***************************************************************************)
(* How new code and old versions of files get into the running system:     *)
(* live updates (liveupdate.c), which write a file and load it where it is *)
(* used; the table of drivers (drfl.c); versions of files (lvcs.c), kept   *)
(* in one append-only store; and the installer (installer.c), which writes *)
(* the running image to a disk that also holds the store of saved files.   *)
(* A file's content is a sequence of cells.                                *)
(***************************************************************************)
EXTENDS Integers, Sequences, SequencesExt, FiniteSets

CONSTANTS
  Names,      \* the names of files, in the order fs_list reports them
  ScopeOf,    \* auto_scope_for: what uses a file of that name
  Seeds,      \* the files that are built in: name -> content
  SlotMax,    \* empty slots a writable file can be made of
  SlotCap,    \* RXR_SLOT_CAP
  PayloadMax, \* LIVEUPDATE_PAYLOAD_MAX
  Texts,      \* what the user writes; a text that begins "bad" does not parse
  DriverMax,  \* DRFL_MAX_ENTRIES
  StageMax, CommitMax, StoreCap, FileMax, \* LVCS_MAX_STAGE, _COMMITS, _STORE_CAP, _FILE_SIZE
  Stage2, StoreLba, KernelSizes, \* sectors: the second stage, where LPST begins, the kernel
  MaxSteps    \* bound: steps of a behaviour

ASSUME UpdatesAssumption ==
  /\ {SlotMax, SlotCap, PayloadMax, DriverMax, StageMax, CommitMax, StoreCap, FileMax, Stage2, StoreLba,
      MaxSteps} \subseteq Nat
  /\ KernelSizes \subseteq Nat /\ DOMAIN Seeds \subseteq Range(Names) /\ DOMAIN ScopeOf = Range(Names)
  /\ Range(Names) \subseteq STRING \ {""} /\ Texts \subseteq Seq(STRING)
  /\ Seeds \in [DOMAIN Seeds -> Seq(STRING)]

VARIABLES
  slots,     \* the writable files: name -> content
  live,    \* s_live, and what every scope has loaded
  drivers, \* s_entries
  vcs,     \* s_store, s_stage, s_commits, and vcs_restore.txt
  history, \* ghost: the files of every commit, as they were when they were added
  sectors, \* the disk: what every sector holds
  did,     \* ghost: what the last step did
  used     \* steps so far
updateVars == <<slots, live, drivers, vcs, history, sectors, did, used>>

SystemFiles == Range(Names)

\* fs_open: a writable file, or the built-in one of that name ({}: none)
Read(r, n) == IF n \in DOMAIN r THEN {r[n]} ELSE IF n \in DOMAIN Seeds THEN {Seeds[n]} ELSE {}
Content(r, n) == CHOOSE c \in Read(r, n) \cup {<<>>} : Read(r, n) \subseteq {c}

\* ---------------------------------- drivers ----------------------------------

\* drfl_load_text, drfl_load_binary_v1: a file that does not parse leaves no
\* entry, also when it is found out half way.
DrflLoad(t, r, n) ==
  LET c == Content(r, n) IN
  IF c = <<>> \/ Len(t) >= DriverMax \/ c[1] = "bad" THEN t ELSE Append(t, [name |-> n, code |-> c])

\* match_suffix compares the whole name behind the last slash.
MatchSuffix(n) == n = ".drfl"

\* drfl_load_all
DrflLoadAll(r) == FoldLeft(LAMBDA t, n : IF MatchSuffix(n) THEN DrflLoad(t, r, n) ELSE t, <<>>, Names)

\* -------------------------------- live update --------------------------------

\* What a scope that reads all its files has read: kmo_reload, sysrxe_reload,
\* rxe_reload.
Scan(r, scope) == {[name |-> n, code |-> Content(r, n)] :
                     n \in {x \in SystemFiles : ScopeOf[x] = scope /\ Read(r, x) \notin {{}, {<<>>}}}}

\* A file that is loaded on its own and the file it is by default.
DefaultFile(scope) == IF scope = "fstwt" THEN "fstwt.fstwts" ELSE IF scope = "wallpaper" THEN "wallpaper.lardd" ELSE ""
Single == {"fstwt", "ltheme", "lguilib", "wallpaper"}
Scanned == {"kmo", "sysrxe", "rxe"}

\* A bug to catch: a single file is loaded from its default name.
ReloadsDefault(s, scope) ==
  LET c == Content(s.slots, DefaultFile(scope)) IN
  IF scope \in Single
  THEN IF c = <<>> \/ c[1] = "bad" THEN [s EXCEPT !.r = -1]
       ELSE [s EXCEPT !.live.inUse[scope] = {[name |-> DefaultFile(scope), code |-> c]}, !.r = 0]
  ELSE IF scope \in Scanned THEN [s EXCEPT !.live.inUse[scope] = Scan(s.slots, scope), !.r = 0]
  ELSE IF scope = "drivers" THEN [s EXCEPT !.drivers = DrflLoadAll(s.slots), !.r = 0]
  ELSE IF scope = "file" THEN [s EXCEPT !.live.file = "", !.r = 0]
  ELSE [s EXCEPT !.live.inUse = [x \in DOMAIN @ |-> IF x \in Scanned THEN Scan(s.slots, x) ELSE @[x]],
                 !.drivers = DrflLoadAll(s.slots), !.r = 0]

\* liveupdate_reload: everything that reads all its files, a single file by
\* the name last recorded, or nothing.
Reloads(s, scope) ==
  LET name == IF s.live.file = "" THEN DefaultFile(scope) ELSE s.live.file
      c == Content(s.slots, name)
  IN IF scope \in Single
     THEN IF c = <<>> \/ c[1] = "bad" THEN [s EXCEPT !.r = -1]
          ELSE [s EXCEPT !.live.inUse[scope] = {[name |-> name, code |-> c]}, !.r = 0]
     ELSE IF scope \in Scanned THEN [s EXCEPT !.live.inUse[scope] = Scan(s.slots, scope), !.r = 0]
     ELSE IF scope = "drivers" THEN [s EXCEPT !.drivers = DrflLoadAll(s.slots), !.r = 0]
     ELSE IF scope = "file" THEN [s EXCEPT !.live.file = "", !.r = 0]
     ELSE [s EXCEPT !.live.inUse = [x \in DOMAIN @ |-> IF x \in Scanned THEN Scan(s.slots, x) ELSE @[x]],
                    !.drivers = DrflLoadAll(s.slots), !.r = 0]

\* record_result
Recorded(s, n, r) == [s EXCEPT !.live.file = n, !.live.failures = IF r < 0 THEN @ + 1 ELSE @, !.r = r]

\* liveupdate_apply_text: a file that is not writable gets an empty slot of its
\* name first, whatever comes after.
ApplyText(s, n, text, append, reload) ==
  LET had == n \in DOMAIN s.slots
      full == ~had /\ Cardinality(DOMAIN s.slots) >= SlotMax
      made == IF had THEN s ELSE [s EXCEPT !.slots = [x \in DOMAIN @ \cup {n} |-> IF x = n THEN <<>> ELSE @[x]]]
      seed == IF append /\ ~had THEN Content(s.slots, n) ELSE <<>>
      base == IF append THEN IF had THEN s.slots[n] ELSE seed ELSE <<>>
      seeded == [made EXCEPT !.slots[n] = IF append THEN base ELSE @]
      written == Recorded([made EXCEPT !.slots[n] = base \o text], n, 0)
  IN IF full THEN Recorded(s, n, -3)
     ELSE IF Len(seed) > SlotCap THEN Recorded(made, n, -4)
     ELSE IF Len(base \o text) > SlotCap THEN Recorded(seeded, n, -5)
     ELSE IF reload THEN LET r == Reloads(written, ScopeOf[n])
                         IN IF ScopeOf[n] = "file" THEN r ELSE Recorded(r, r.live.file, r.r)
     ELSE written

Sys == [slots |-> slots, live |-> live, drivers |-> drivers, r |-> 0]
Becomes(s) == slots' = s.slots /\ live' = s.live /\ drivers' = s.drivers
Counted == used < MaxSteps /\ used' = used + 1

\* liveupdate file, apply and append
Apply(n, text, append, reload) ==
  LET s == ApplyText(Sys, n, text, append, reload) IN
  /\ Counted /\ Becomes(s)
  /\ did' = [what |-> IF s.r # 0 THEN "refused" ELSE IF reload THEN "applied" ELSE "wrote", name |-> n]
  /\ UNCHANGED <<vcs, history, sectors>>

\* liveupdate from
ApplyFrom(src, n) ==
  LET s == IF Read(slots, src) = {} THEN Recorded(Sys, n, -1)
           ELSE IF Len(Content(slots, src)) >= PayloadMax THEN Recorded(Sys, n, -2)
           ELSE ApplyText(Sys, n, Content(slots, src), FALSE, TRUE)
  IN /\ Counted /\ Becomes(s)
     /\ did' = [what |-> IF s.r # 0 THEN "refused" ELSE "applied", name |-> n]
     /\ UNCHANGED <<vcs, history, sectors>>

\* liveupdate reload
Reload(scope) ==
  LET r == Reloads(Sys, scope)
      s == IF scope = "file" THEN r ELSE Recorded(r, r.live.file, r.r)
  IN /\ Counted /\ Becomes(s)
     /\ did' = [what |-> "reloaded", name |-> ""] /\ UNCHANGED <<vcs, history, sectors>>

\* liveupdate_set_auto, which nothing asks for
SetAuto(on) ==
  /\ Counted /\ live' = [live EXCEPT !.auto = on, !.file = "auto"]
  /\ did' = [what |-> "auto", name |-> ""] /\ UNCHANGED <<slots, drivers, vcs, history, sectors>>

\* drivers reload, drivers load file.drfl
DriversReload ==
  /\ Counted /\ drivers' = DrflLoadAll(slots)
  /\ did' = [what |-> "drivers", name |-> ""] /\ UNCHANGED <<slots, live, vcs, history, sectors>>
DriversLoad(n) ==
  /\ Counted /\ drivers' = DrflLoad(drivers, slots, n)
  /\ did' = [what |-> "drivers", name |-> n] /\ UNCHANGED <<slots, live, vcs, history, sectors>>

LiveInit ==
  /\ slots = <<>> /\ drivers = <<>>
  /\ live = [file |-> "", auto |-> FALSE, failures |-> 0, inUse |-> [x \in Single \cup Scanned |-> {}]]

LiveNext ==
  \/ \E n \in SystemFiles, text \in Texts, append, reload \in BOOLEAN : (append => reload) /\ Apply(n, text, append, reload)
  \/ \E src, n \in SystemFiles : ApplyFrom(src, n)
  \/ \E scope \in Range(ScopeOf) \cup {"all"} : Reload(scope)
  \/ \E on \in BOOLEAN : SetAuto(on)
  \/ DriversReload
  \/ \E n \in SystemFiles : DriversLoad(n)

\* ---------------------------------- versions ----------------------------------

\* find_stage: the place of a name among the staged ({}: not staged)
Staged(n) == {i \in DOMAIN vcs.stage : vcs.stage[i].name = n}

\* lvcs_add: the bytes go behind all others, then the entry is made or replaced.
Add(n, c) ==
  LET ref == [name |-> n, at |-> Len(vcs.store), size |-> Len(c)] IN
  /\ Counted
  /\ IF (Staged(n) = {} /\ Len(vcs.stage) >= StageMax) \/ Len(c) > FileMax \/ Len(c) > StoreCap - Len(vcs.store)
     THEN UNCHANGED <<vcs, history>>
     ELSE /\ vcs' = [vcs EXCEPT !.store = @ \o c,
                                !.stage = IF Staged(n) = {} THEN Append(@, ref)
                                          ELSE [i \in DOMAIN @ |-> IF @[i].name = n THEN ref ELSE @[i]]]
          /\ history' = [history EXCEPT !.stage = [x \in DOMAIN @ \cup {n} |-> IF x = n THEN c ELSE @[x]]]
  /\ did' = [what |-> "added", name |-> n] /\ UNCHANGED <<slots, live, drivers, sectors>>

\* lvcs_commit: a full list keeps what is staged.
Commit ==
  /\ Counted
  /\ IF vcs.stage = <<>> \/ Len(vcs.commits) >= CommitMax THEN UNCHANGED <<vcs, history>>
     ELSE /\ vcs' = [vcs EXCEPT !.commits = Append(@, vcs.stage), !.stage = <<>>]
          /\ history' = [stage |-> <<>>, commits |-> Append(history.commits, history.stage)]
  /\ did' = [what |-> "committed", name |-> ""] /\ UNCHANGED <<slots, live, drivers, sectors>>

\* lvcs_init
InitRepo ==
  /\ Counted /\ vcs' = [vcs EXCEPT !.store = <<>>, !.stage = <<>>, !.commits = <<>>]
  /\ history' = [stage |-> <<>>, commits |-> <<>>]
  /\ did' = [what |-> "init", name |-> ""] /\ UNCHANGED <<slots, live, drivers, sectors>>

\* lvcs_checkout: the name is looked for from commit i backwards.
Checkout(i, n) ==
  LET Has(k) == \E f \in DOMAIN vcs.commits[k] : vcs.commits[k][f].name = n
      from == {k \in 1 .. i : Has(k) /\ \A l \in k + 1 .. i : ~Has(l)}
      ref == CHOOSE f \in Range(vcs.commits[CHOOSE k \in from : TRUE]) : f.name = n
  IN IF from = {} THEN {} ELSE {SubSeq(vcs.store, ref.at + 1, ref.at + ref.size)}

\* vcsshow: into vcs_restore.txt, which has room for every file.
Show(i, n) ==
  LET found == IF i \in DOMAIN vcs.commits THEN Checkout(i, n) ELSE {} IN
  /\ Counted /\ vcs' = [vcs EXCEPT !.restored = CHOOSE c \in found \cup {@} : found \subseteq {c}]
  /\ did' = [what |-> "shown", name |-> n] /\ UNCHANGED <<slots, live, drivers, history, sectors>>

VcsInit == vcs = [store |-> <<>>, stage |-> <<>>, commits |-> <<>>, restored |-> <<>>] /\ history = [stage |-> <<>>, commits |-> <<>>]
VcsNext ==
  \/ \E n \in SystemFiles, c \in Texts : Add(n, c)
  \/ Commit
  \/ InitRepo
  \/ \E i \in 1 .. CommitMax, n \in SystemFiles : Show(i, n)

\* ---------------------------------- installer ---------------------------------

\* lard_install_hdd_ssd: stage 1, stage 2 and the kernel, sector by sector up to
\* the one the disk refuses (the one after the last: none).
Install(size, bad) ==
  LET total == 1 + Stage2 + size IN
  /\ Counted /\ bad \in 1 .. total + 1
  /\ sectors' = IF size = 0 \/ total > StoreLba THEN sectors
                ELSE [i \in DOMAIN sectors |-> IF i < bad /\ i <= total THEN "new" ELSE sectors[i]]
  /\ did' = [what |-> IF size = 0 \/ total > StoreLba \/ bad <= total THEN "refused" ELSE "installed", name |-> ""]
  /\ UNCHANGED <<slots, live, drivers, vcs, history>>

DiskInit == sectors = [i \in 1 .. StoreLba + 1 |-> IF i <= StoreLba THEN "old" ELSE "saved"]
DiskNext == \E size \in KernelSizes : \E bad \in 1 .. 2 + Stage2 + size : Install(size, bad)

UpdatesInit == LiveInit /\ VcsInit /\ DiskInit /\ did = [what |-> "boot", name |-> ""] /\ used = 0
UpdatesNext == LiveNext \/ VcsNext \/ DiskNext
UpdatesSpec == UpdatesInit /\ [][UpdatesNext]_updateVars

\* -------------------------------- properties ---------------------------------

\* An update that reports success is in use: the text that was written is what
\* its scope has loaded, whatever was loaded, written or recorded before.
AppliedIsInUse ==
  did.what = "applied" =>
    LET scope == ScopeOf[did.name]
        it == [name |-> did.name, code |-> Content(slots, did.name)]
    IN /\ scope \in Single => live.inUse[scope] = {it}
       /\ scope \in Scanned => it \in live.inUse[scope] \/ it.code = <<>>

\* A version that is shown is what was added under that name before the latest
\* commit up to the one that was asked for, after any adding, refusing and
\* starting again; and what is staged is what was added last.
VersionsAreKept ==
  /\ Len(vcs.commits) = Len(history.commits)
  /\ \A i \in DOMAIN vcs.commits, n \in SystemFiles :
       LET having == {k \in 1 .. i : n \in DOMAIN history.commits[k]}
           latest == CHOOSE k \in having : \A l \in having : l <= k
       IN Checkout(i, n) = IF having = {} THEN {} ELSE {history.commits[latest][n]}
  /\ \A f \in Range(vcs.stage) : SubSeq(vcs.store, f.at + 1, f.at + f.size) = history.stage[f.name]

\* The installer leaves the saved files alone, and is done only when every
\* sector up to the end of the kernel is new.
InstallSparesStore ==
  /\ sectors[StoreLba + 1] = "saved"
  /\ did.what = "installed" => \E size \in KernelSizes : \A i \in 1 .. 1 + Stage2 + size : sectors[i] = "new"

\* An update that succeeds is in use, a version that is shown is what was added,
\* and installing leaves the saved files alone (liveupdate.c, lvcs.c,
\* installer.c).
UpdatesAreKept == AppliedIsInUse /\ VersionsAreKept /\ InstallSparesStore

\* ---------------------------- inductive invariant ----------------------------

\* Files by name, and the entries that say where a file is in the store.
IsFiles(t) == DOMAIN t \subseteq SystemFiles /\ t \in [DOMAIN t -> Seq(STRING)]
Refs == [name : SystemFiles, at : Nat, size : Nat]

\* What is recorded as updated last, and what is known of what is in use.
Recordable == SystemFiles \cup {"", "auto"}
Lives == [file : Recordable, auto : BOOLEAN, failures : Nat,
          inUse : [Single \cup Scanned -> SUBSET [name : SystemFiles, code : Seq(STRING)]]]
Done == {"boot", "refused", "applied", "wrote", "reloaded", "auto", "drivers", "added", "committed", "init", "shown",
         "installed"}

VersionsTypeOK ==
  /\ vcs \in [store : Seq(STRING), stage : Seq(Refs), commits : Seq(Seq(Refs)), restored : Seq(STRING)]
  /\ history = [stage |-> history.stage, commits |-> history.commits]
  /\ IsFiles(history.stage) /\ history.commits \in Seq(Range(history.commits))
  /\ \A k \in DOMAIN history.commits : IsFiles(history.commits[k])

\* drivers is what DrflLoadAll folds together, and nothing here depends on it.
UpdatesTypeOK ==
  /\ IsFiles(slots) /\ live \in Lives /\ VersionsTypeOK
  /\ sectors \in [1 .. StoreLba + 1 -> {"old", "new", "saved"}]
  /\ did \in [what : Done, name : Recordable] /\ used \in 0 .. MaxSteps

\* The entries of a list are of different names, the names of the files they
\* stand for, and each finds its file in the store.
FilesOf(store, refs, files) ==
  /\ \A i, j \in DOMAIN refs : refs[i].name = refs[j].name => i = j
  /\ DOMAIN files = {refs[i].name : i \in DOMAIN refs}
  /\ \A i \in DOMAIN refs :
       LET f == refs[i] IN f.at + f.size <= Len(store) /\ SubSeq(store, f.at + 1, f.at + f.size) = files[f.name]

VersionsFound ==
  /\ FilesOf(vcs.store, vcs.stage, history.stage)
  /\ Len(vcs.commits) = Len(history.commits)
  /\ \A k \in DOMAIN vcs.commits : FilesOf(vcs.store, vcs.commits[k], history.commits[k])

UpdatesInv == UpdatesTypeOK /\ AppliedIsInUse /\ VersionsFound /\ InstallSparesStore

\* What the documentation says and the code does not do.
\* os/README.md:392: "so the user can update OS-owned files while the original
\* path remains recoverable": a refused update leaves what is read of a file.
RefusedChangesNothing ==
  [][did'.what = "refused" => \A n \in SystemFiles : Read(slots', n) = Read(slots, n)]_updateVars
\* drivers/README.md:30: "Run `drivers reload`." to load the installed drivers.
DriversAreLoaded ==
  did = [what |-> "drivers", name |-> ""] =>
    \A n \in SystemFiles : ScopeOf[n] = "drivers" /\ Content(slots, n) \notin {<<>>, <<"bad">>} =>
      \E i \in DOMAIN drivers : drivers[i].name = n
=============================================================================
