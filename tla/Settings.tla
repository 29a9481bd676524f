------------------------------ MODULE Settings ------------------------------
(***************************************************************************)
(* The settings of the system and the four ways to keep them: the boot     *)
(* profile in bootprof.txt (bootprof.c), the one rollback snapshot, the    *)
(* named profiles and the exported state pack (lardkit.c), and the saved   *)
(* file store.  With them the background loader of the awakening profile   *)
(* (awake.c, awakening_background_poll of kernel64.c), the desktop picture *)
(* (gui.c) and the commands of lsh.c and osmod.c that change settings.  A  *)
(* boot restores what was saved: a build whose file table fits the loader  *)
(* (LpstStore).                                                            *)
(***************************************************************************)
EXTENDS Naturals, Sequences

CONSTANTS
    Simple,        \* the settings with two values: buddy, http, priority
    Profiles,      \* names of boot profiles that bootprof.c knows
    Themes,        \* indices of the built-in themes; the first is the default
    Colors,        \* colours of the desktop
    Modes,         \* kinds of desktop: grid, plain, bmp, ...
    ProfileNames,         \* names a user gives to settings profiles
    ProfileMax,    \* LARDKIT_CFGPROF_MAX
    Theme0, Color0, \* what a boot starts from
    MaxCommands    \* bound: commands the user gives

ASSUME SettingsAssumption ==
    /\ {"normal", "awakening"} \subseteq Profiles
    /\ Theme0 \in Themes /\ Color0 \in Colors
    /\ "grid" \in Modes
    /\ ProfileMax \in Nat \ {0}
    /\ MaxCommands \in Nat
    /\ ProfileNames \cap {"boot", "poll", "set", "refused", "boot set", "theme", "wallpaper", "osmod",
                        "snapshot", "rollback", "save", "export", "import", "edit", "sync"} = {}

VARIABLES
    simple,     \* lassist, gui_http_method and taskprio default: on or off
    boot,       \* s_bootprof.name
    theme,      \* s_lardkit.active_theme
    custom,     \* s_lardkit.custom_theme_active
    wall,       \* g_wallpaper_mode, _color1, _color2, _file
    other,      \* what only osmod and cfgsh set: aa, lsb, vblank, sound, ...
    awake,      \* s_awake: enabled, done
    loader,     \* s_awake_background_phase
    bootAwake,  \* s_boot_awakening_mode
    files,      \* bootprof.txt, wallpaper.lardd, a picture, state.lcfg
    saved,       \* the files as they were saved last
    rollback,   \* s_lardkit.rollback
    profiles,   \* s_lardkit.cfgprof
    seen,       \* what the user saw at the last snapshot and save of each name
    event,      \* the last command, the name of the profile if one was loaded
    left        \* commands left, see MaxCommands

settings == <<simple, boot, theme, custom, wall, other, awake>>
loading == <<loader, bootAwake>>
settingsVars == <<simple, boot, theme, custom, wall, other, awake, loader, bootAwake,
          files, saved, rollback, profiles, seen, event, left>>

-----------------------------------------------------------------------------
None    == "none"
Pictures == {"bmp", "lrec"}                    \* modes that need a file
Grid     == [mode |-> "grid", c1 |-> Color0, c2 |-> Color0]
Walls    == [mode : Modes, c1 : Colors, c2 : Colors]
Empty    == [mode |-> None, c1 |-> Color0, c2 |-> Color0]   \* an empty wallpaper.lardd

\* The text of bootprof.txt: a word, and whether a newline follows it.
BootText == [word : Profiles \cup {""}, newline : BOOLEAN]

\* What a snapshot, a profile and a pack record (cfg_profile_from_current).
Record == [simple |-> simple, boot |-> boot, awake |-> awake.enabled, theme |-> theme]
Default == [simple |-> [s \in Simple |-> FALSE], boot |-> "normal",
            awake |-> FALSE, theme |-> Theme0]
Records == [simple : [Simple -> BOOLEAN], boot : Profiles, awake : BOOLEAN,
            theme : Themes]

SettingsTypeOK ==
    /\ simple \in [Simple -> BOOLEAN]
    /\ boot \in Profiles /\ theme \in Themes /\ custom \in BOOLEAN
    /\ wall \in Walls /\ other \in BOOLEAN
    /\ awake \in [enabled : BOOLEAN, done : BOOLEAN]
    /\ loader \in 0..3 /\ bootAwake \in BOOLEAN
    /\ \A f \in {files, saved} :
         /\ f.boot \in BootText
         /\ f.wall \in Walls \cup {Empty}
         /\ f.picture \in BOOLEAN
    /\ rollback \in [valid : BOOLEAN, at : Records, wall : Walls]
    /\ profiles \in Seq([name : ProfileNames, at : Records]) /\ Len(profiles) <= ProfileMax
    /\ left \in 0..MaxCommands

-----------------------------------------------------------------------------
(* The parts a command is made of *)

\* bootprof_set: the flags at once, the file with a newline after the name.
SetBoot(p, f) == /\ boot' = p
                 /\ files' = [f EXCEPT !.boot = [word |-> p, newline |-> TRUE]]

\* apply_profile on what bootprof_load read: the whole text is compared.
ApplyProfile(word) == IF word \in Profiles THEN word ELSE "normal"
LoadedBoot(text) == IF text.newline THEN "normal" ELSE ApplyProfile(text.word)

\* awake_enable: starts over, whatever the loader has done.
AwakeEnable(on) == [enabled |-> on, done |-> FALSE]

\* gui_wallpaper_set_state and gui_wallpaper_write_config: a picture must
\* load; what is set is written to wallpaper.lardd.
CanShow(w, f)    == w.mode \in Pictures => f.picture
Persisted(w, f)  == IF CanShow(w, f) THEN [f EXCEPT !.wall = w] ELSE f
Shown(w, now, f) == IF CanShow(w, f) THEN w ELSE now

\* gui_wallpaper_set_color, _set_pattern, _set_bmp and _set_lrec: a plain
\* colour leaves the second colour, a picture leaves both.
Desktop(mode, c1, c2) ==
    [mode |-> mode,
     c1   |-> IF mode \in Pictures THEN wall.c1 ELSE c1,
     c2   |-> IF mode \in Pictures \cup {"plain"} THEN wall.c2 ELSE c2]

\* gui_wallpaper_reload: an empty wallpaper.lardd resets, and writes it.
Reloaded(f) == IF f.wall = Empty THEN Grid ELSE Shown(f.wall, wall, f)
ReloadedFiles(f) == IF f.wall = Empty THEN [f EXCEPT !.wall = Grid] ELSE f

\* What the user sees of them.
Looks(w) == [mode |-> w.mode,
             c1   |-> IF w.mode \in Pictures THEN None ELSE w.c1,
             c2   |-> IF w.mode \in Pictures \cup {"plain"} THEN None ELSE w.c2]
Sight == [simple |-> simple, boot |-> boot, awake |-> awake.enabled,
          theme |-> IF custom THEN "custom" ELSE theme, wall |-> Looks(wall)]

\* lardkit_snapshot
NoSnapshot == [valid |-> FALSE, at |-> Default, wall |-> Grid]
Snapshot == /\ rollback' = [valid |-> TRUE, at |-> Record, wall |-> wall]
            /\ seen' = [seen EXCEPT !["snapshot"] = Sight]

Command(name) == left > 0 /\ left' = left - 1 /\ event' = name

-----------------------------------------------------------------------------
(* Settings one by one: lsh commands, and cfgsh, which first takes a       *)
(* snapshot, even when it then refuses the value.                          *)

MaybeCfgsh(cfgsh) == IF cfgsh THEN Snapshot ELSE UNCHANGED <<rollback, seen>>

\* buddy, http, priority: cmd_buddy and the same words of cfgsh_apply
SetSimple(s, on, cfgsh) ==
    /\ Command("set")
    /\ simple' = [simple EXCEPT ![s] = on]
    /\ MaybeCfgsh(cfgsh)
    /\ UNCHANGED <<boot, theme, custom, wall, other, awake, loading, files,
                   saved, profiles>>

\* A setting no snapshot holds: aa, brightness, lsb, vblank, sound, ...
SetOther(on, cfgsh) ==
    /\ Command("set")
    /\ other' = on
    /\ MaybeCfgsh(cfgsh)
    /\ UNCHANGED <<simple, boot, theme, custom, wall, awake, loading, files,
                   saved, profiles>>

\* cfgsh with a value its setting does not know
RefusedSetting ==
    /\ Command("refused")
    /\ Snapshot
    /\ UNCHANGED <<settings, loading, files, saved, profiles>>

\* bootprof set NAME, cfgsh boot NAME; awake on is bootprof set awakening
CmdBootprof(p, cfgsh) ==
    /\ Command("boot set")
    /\ SetBoot(p, files)
    /\ MaybeCfgsh(cfgsh)
    /\ UNCHANGED <<simple, theme, custom, wall, other, awake, loading, saved,
                   profiles>>

\* awake off: the normal profile, and the loader of this boot stops
CmdAwakeOff(cfgsh) ==
    /\ Command("boot set")
    /\ SetBoot("normal", files)
    /\ awake' = AwakeEnable(FALSE)
    /\ MaybeCfgsh(cfgsh)
    /\ UNCHANGED <<simple, theme, custom, wall, other, loading, saved,
                   profiles>>

\* ltheme use: a built-in name, else a LTHEME file
CmdTheme(t, cfgsh) ==
    /\ Command("theme")
    /\ theme' = t /\ custom' = FALSE
    /\ MaybeCfgsh(cfgsh)
    /\ UNCHANGED <<simple, boot, wall, other, awake, loading, files, saved,
                   profiles>>
CmdCustomTheme ==
    /\ Command("theme")
    /\ custom' = TRUE
    /\ UNCHANGED <<simple, boot, theme, wall, other, awake, loading, files,
                   saved, rollback, profiles, seen>>

\* wallpaper color, pattern, bmp, lrec, reset
CmdWallpaper(mode, c1, c2) ==
    LET w == Desktop(mode, c1, c2) IN
    /\ Command("wallpaper")
    /\ Snapshot
    /\ wall' = Shown(w, wall, files)
    /\ files' = Persisted(w, files)
    /\ UNCHANGED <<simple, boot, theme, custom, other, awake, loading, saved,
                   profiles>>

\* wallpaper reload
CmdWallpaperReload ==
    /\ Command("wallpaper")
    /\ wall' = Reloaded(files)
    /\ files' = ReloadedFiles(files)
    /\ UNCHANGED <<simple, boot, theme, custom, other, awake, loading, saved,
                   rollback, profiles, seen>>

\* osmod apply FILE: BOOT, then AWAKE, which wins, then the others.
\* p.boot and p.awake may be unset.
OsmodProfiles == [boot : Profiles \cup {None}, awake : {None, "on", "off"}, other : BOOLEAN]
OsmodApply(p) ==
    /\ Command("osmod")
    /\ Snapshot
    /\ LET name == CASE p.awake = "on"  -> "awakening"
                     [] p.awake = "off" -> "normal"
                     [] OTHER           -> p.boot
       IN  IF name = None THEN UNCHANGED <<boot, files>> ELSE SetBoot(name, files)
    /\ awake' = IF p.awake = "off" THEN AwakeEnable(FALSE) ELSE awake
    /\ other' = p.other
    /\ UNCHANGED <<simple, theme, custom, wall, loading, saved, profiles>>

-----------------------------------------------------------------------------
(* Keeping and returning *)

\* rollback snap
CmdSnapshot ==
    /\ Command("snapshot")
    /\ Snapshot
    /\ UNCHANGED <<settings, loading, files, saved, profiles>>

\* The settings of a record that are set the same way by a rollback, by a
\* profile and by a pack: lassist_enable, gui_http_set_method,
\* taskprio_set_default, bootprof_set, awake_enable and active_theme.
Return(r, f) ==
    /\ simple' = r.simple
    /\ SetBoot(r.boot, f)
    /\ awake' = AwakeEnable(r.awake)
    /\ theme' = r.theme
    /\ UNCHANGED <<custom, other>>

\* lardkit_rollback_apply
RollbackApply ==
    /\ Command("rollback")
    /\ rollback.valid
    /\ LET r == rollback.wall
           w == Desktop(r.mode, r.c1, r.c2)
       IN  /\ Return(rollback.at, Persisted(w, files))
           /\ wall' = Shown(w, wall, files)
    /\ UNCHANGED <<loading, saved, rollback, profiles, seen>>

\* lardkit_cfgprof_save: the slot of that name, else the first free slot,
\* else slot 0.
\* A bug to catch: the slot is searched for a free place only.
FreeSlot(n) == IF Len(profiles) < ProfileMax THEN Len(profiles) + 1 ELSE 1
Slot(n) ==
    LET same == {i \in DOMAIN profiles : profiles[i].name = n} IN
    IF same # {} THEN CHOOSE i \in same : \A j \in same : i <= j
    ELSE IF Len(profiles) < ProfileMax THEN Len(profiles) + 1 ELSE 1
ProfileSave(n) ==
    LET p == [name |-> n, at |-> Record] IN
    /\ Command("save")
    /\ profiles' = IF Slot(n) > Len(profiles) THEN Append(profiles, p)
                   ELSE [profiles EXCEPT ![Slot(n)] = p]
    /\ seen' = [seen EXCEPT ![n] = Sight]
    /\ UNCHANGED <<settings, loading, files, saved, rollback>>

\* lardkit_cfgprof_load: the first slot of that name.  The desktop is in no
\* profile.
ProfileLoad(n) ==
    /\ Command(n)
    /\ \E i \in DOMAIN profiles :
         /\ profiles[i].name = n
         /\ \A j \in 1..(i - 1) : profiles[j].name # n
         /\ Return(profiles[i].at, files)
    /\ UNCHANGED <<wall, loading, saved, rollback, profiles, seen>>

\* lardkit_statepack_export: the runtime lines, then every writable file.
\* A state.lcfg that fills up keeps what went in and loses a file's bytes.
PackedFile(text, full) == IF full THEN Empty ELSE text
Export(full) ==
    /\ Command("export")
    /\ files' = [files EXCEPT !.pack =
                   [there |-> TRUE, whole |-> ~full, at |-> Record, sight |-> Sight,
                    boot  |-> files.boot, wall |-> PackedFile(files.wall, full)]]
    /\ UNCHANGED <<settings, loading, saved, rollback, profiles, seen>>

\* lardkit_statepack_import: a snapshot, the runtime lines in their order,
\* the files of the pack over those in memory, the surfaces reloaded.
ImportRuntime(r) ==
    /\ simple' = r.simple
    /\ boot' = r.boot
    /\ awake' = AwakeEnable(r.awake)
    /\ theme' = r.theme
ImportFiles(p) ==
    LET f == [files EXCEPT !.boot = p.boot, !.wall = p.wall]
    IN  wall' = Reloaded(f) /\ files' = ReloadedFiles(f)
Import ==
    /\ Command("import")
    /\ files.pack.there
    /\ Snapshot
    /\ ImportRuntime(files.pack.at)
    /\ ImportFiles(files.pack)
    /\ UNCHANGED <<custom, other, loading, saved, profiles>>

\* The commands cfgprof, rollback and state
CmdCfgprof   == \E n \in ProfileNames : ProfileSave(n) \/ ProfileLoad(n)
CmdRollback  == CmdSnapshot \/ RollbackApply
CmdStatepack == Import \/ \E full \in BOOLEAN : Export(full)
CmdOsmod     == \E p \in OsmodProfiles : OsmodApply(p)

-----------------------------------------------------------------------------
(* Files, boots and the background loader *)

\* bootprof.txt and the picture, changed as files
EditBootText(text) ==
    /\ Command("edit")
    /\ files' = [files EXCEPT !.boot = text]
    /\ UNCHANGED <<settings, loading, saved, rollback, profiles, seen>>
DeletePicture ==
    /\ Command("edit")
    /\ files.picture
    /\ files' = [files EXCEPT !.picture = FALSE]
    /\ UNCHANGED <<settings, loading, saved, rollback, profiles, seen>>

SaveFiles ==
    /\ Command("sync")
    /\ saved' = files
    /\ UNCHANGED <<settings, loading, files, rollback, profiles, seen>>

\* kmain: the desktop is set up before the files are there, the profile
\* after; awake_enable and the priority follow it.
BootSettings ==
    LET p == LoadedBoot(saved.boot) IN
    /\ Command("boot")
    /\ files' = saved
    /\ boot' = p
    /\ bootAwake' = (p = "awakening")
    /\ awake' = AwakeEnable(p = "awakening")
    /\ simple' = [s \in Simple |-> s = "priority" /\ p = "dev"]
    /\ wall' = Grid
    /\ theme' = Theme0 /\ custom' = FALSE /\ other' = FALSE
    /\ loader' = 0
    /\ rollback' = NoSnapshot /\ profiles' = <<>>
    /\ UNCHANGED <<saved, seen>>

\* A bug to catch: the phase of the languages is not left.
StuckPoll ==
    /\ bootAwake /\ awake.enabled /\ ~awake.done
    /\ loader < 3
    /\ loader' = IF loader = 1 THEN 1 ELSE loader + 1
    /\ awake' = [awake EXCEPT !.done = (loader = 2)]
    /\ event' = "poll"
    /\ UNCHANGED <<simple, boot, theme, custom, wall, other, bootAwake, files,
                   saved, rollback, profiles, seen, left>>
\* awakening_background_poll, once in every turn of the main loop: drivers,
\* languages, network, and the end.
Poll ==
    /\ bootAwake /\ awake.enabled /\ ~awake.done
    /\ loader < 3
    /\ loader' = loader + 1
    /\ awake' = [awake EXCEPT !.done = (loader = 2)]
    /\ event' = "poll"
    /\ UNCHANGED <<simple, boot, theme, custom, wall, other, bootAwake, files,
                   saved, rollback, profiles, seen, left>>

-----------------------------------------------------------------------------
Factory == [boot |-> [word |-> "", newline |-> FALSE], wall |-> Grid,
            picture |-> TRUE, pack |-> [there |-> FALSE]]
SettingsInit ==
    /\ simple = [s \in Simple |-> FALSE] /\ boot = "normal"
    /\ theme = Theme0 /\ custom = FALSE /\ wall = Grid /\ other = FALSE
    /\ awake = [enabled |-> FALSE, done |-> FALSE]
    /\ loader = 0 /\ bootAwake = FALSE
    /\ files = Factory /\ saved = Factory
    /\ rollback = NoSnapshot /\ profiles = <<>>
    /\ seen = [n \in ProfileNames \cup {"snapshot"} |-> Sight]
    /\ event = "boot" /\ left = MaxCommands

SettingsNext ==
    \/ \E s \in Simple, on, cfgsh \in BOOLEAN : SetSimple(s, on, cfgsh)
    \/ \E on, cfgsh \in BOOLEAN : SetOther(on, cfgsh)
    \/ RefusedSetting
    \/ \E p \in Profiles, cfgsh \in BOOLEAN : CmdBootprof(p, cfgsh)
    \/ \E cfgsh \in BOOLEAN : CmdAwakeOff(cfgsh)
    \/ \E t \in Themes, cfgsh \in BOOLEAN : CmdTheme(t, cfgsh)
    \/ CmdCustomTheme
    \/ \E m \in Modes, c1, c2 \in Colors : CmdWallpaper(m, c1, c2)
    \/ CmdWallpaperReload
    \/ CmdOsmod
    \/ CmdCfgprof
    \/ CmdRollback
    \/ CmdStatepack
    \/ \E text \in BootText : EditBootText(text)
    \/ DeletePicture
    \/ SaveFiles
    \/ BootSettings
    \/ Poll

-----------------------------------------------------------------------------
SettingsSpec == SettingsInit /\ [][SettingsNext]_settingsVars /\ WF_settingsVars(Poll)

Returned(s) == /\ simple = s.simple /\ boot = s.boot /\ awake.enabled = s.awake
               /\ (~custom /\ s.theme # "custom") => theme = s.theme
PictureGone(w) == w.mode \in Pictures /\ ~files.picture

\* What was kept comes back, whatever was set, loaded or imported between: a
\* rollback brings back what the user saw at the last snapshot, the load of a
\* profile what was there when a profile of that name was saved last, and the
\* import of a whole pack what was there at its export.  Not the theme, when
\* a theme of a file was or is shown, and not a desktop whose picture is gone
\* (lardkit_rollback_apply, cfg_profile_apply, lardkit_statepack_import).
ReturnsToSaved ==
    /\ event = "rollback" =>
         /\ Returned(seen["snapshot"])
         /\ Looks(wall) = seen["snapshot"].wall \/ PictureGone(seen["snapshot"].wall)
    /\ event \in ProfileNames => Returned(seen[event])
    /\ (event = "import" /\ files.pack.whole) => Returned(files.pack.sight)

\* In the awakening profile the background loader reaches its last phase, or
\* the user turns it off (awakening_background_poll).
LoaderFinishes == (bootAwake /\ awake.enabled) ~> (loader = 3 \/ ~awake.enabled)

\* README.md: "bootprof controls boot profiles stored in bootprof.txt": a boot
\* takes the profile whose name the file holds.
BootFollowsFile ==
    event = "boot" =>
        boot = IF files.boot.word \in Profiles THEN files.boot.word ELSE "normal"

\* README.md: wallpaper.lardd is "the editable config" of the desktop: a boot
\* shows the desktop that the saved file describes.
WallpaperReturns ==
    event = "boot" => \/ files.wall = Empty \/ PictureGone(files.wall)
                      \/ Looks(wall) = Looks(files.wall)

\* README.md: the loader of the awakening profile finishes "quietly in the
\* background": where it is enabled it is done in the end.
AwakeFinishes == (bootAwake /\ awake.enabled) ~> (awake.done \/ ~awake.enabled)

\* README.md names the theme among what a rollback restores.
ThemeReturns == event = "rollback" => Sight.theme = seen["snapshot"].theme

-----------------------------------------------------------------------------
(* The inductive invariant *)

Sights == [simple : [Simple -> BOOLEAN], boot : Profiles, awake : BOOLEAN, theme : Themes \cup {"custom"},
           wall : [mode : Modes, c1 : Colors \cup {None}, c2 : Colors \cup {None}]]
Packs == {[there |-> FALSE]} \cup
         [there : {TRUE}, whole : BOOLEAN, at : Records, sight : Sights, boot : BootText, wall : Walls \cup {Empty}]
FileSets == [boot : BootText, wall : Walls \cup {Empty}, picture : BOOLEAN, pack : Packs]

\* A record brings back what the user saw, but for a theme of a file.
Keeps(r, s) ==
    /\ r.simple = s.simple /\ r.boot = s.boot /\ r.awake = s.awake
    /\ s.theme # "custom" => r.theme = s.theme

\* The snapshot, every profile and the packs in memory and on disk keep what was
\* seen when they were made, and a name has one profile.
RecordsKeep ==
    /\ rollback.valid => /\ Keeps(rollback.at, seen["snapshot"])
                         /\ Looks(rollback.wall) = seen["snapshot"].wall
    /\ \A i \in DOMAIN profiles :
         /\ Keeps(profiles[i].at, seen[profiles[i].name])
         /\ \A j \in DOMAIN profiles : profiles[i].name = profiles[j].name => i = j
    /\ \A f \in {files, saved} : f.pack.there => Keeps(f.pack.at, f.pack.sight)

SettingsInv ==
    /\ SettingsTypeOK /\ RecordsKeep /\ ReturnsToSaved
    /\ files \in FileSets /\ saved \in FileSets
    /\ seen \in [ProfileNames \cup {"snapshot"} -> Sights]
=============================================================================
