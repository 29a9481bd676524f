# LardOS in TLA+

LardOS is an x86-64 operating system in C (`src/os`): a boot loader, one kernel
binary that holds every driver, service and tool, and a shell and window system
on top. This directory models the parts of it whose correctness depends on the
order of events, model-checks them on small instances with TLC, and proves the
most important results for every size with TLAPS.

## 1. How the system runs

There is one kernel thread. `kmain` (`kernel64.c`) initialises the parts and then
loops for ever: it pumps the mouse, polls the keyboard, takes a submitted page
address, calls `gui_tick` (which takes one queued shell task through
`lsh_poll_background`), `awakening_background_poll`, `oslink_poll` and
`lconnect_poll`. Nothing is preemptive, so a C function is atomic unless

* it talks to something outside: another machine, a disk, a card, a clock, the
  power switch;
* it polls the network or the keyboard itself and so runs others' work inside its own
  (every wait loop of `net.c` does);
* a CPU exception strikes: `panic.c` then runs `crashlog.c`, which starts a save of
  the file store, possibly inside a save, a load or the boot that is under way;
* it runs a line of the shell, a module or a program, which may call it again;
* a self test of `post.c` or `lardkit.c` works on the live state of a part.

What is hard about LardOS is therefore not threads. It is power cuts and failing
sectors, peers and a network that loses, doubles and reorders, rings and tables of
fixed size that fill up, counters that wrap, records and indexes that are used after
what they describe has changed, settings kept in several places, and long sequences
of user commands that reach a state nobody tried. The models are about these.

## 2. Inventory

State, operations and promises of the parts, the ones not modelled included.
"Modelled" means that every operation that changes the part's state is an action.

| Part | Source | State | What makes it correct | Status |
|---|---|---|---|---|
| LPST store | `fs.c`, `storage.c`, `crashlog.c`, `panic.c` | two banks on the boot disk, active bank, generation, dirty flag | a boot restores one whole image; a kernel that has read its banks loses no save that reported success | modelled |
| Writable file table | `fs.c` | slots of fixed capacity with changeable names | names stay unique, sizes fit, a boot gives the files back | modelled |
| RXR bundles | `rxr.c` | undo record | an install is whole or harmless, undo restores | modelled |
| Hidden and deleted files | `fs.c` | two name tables, a log file | the log always tells the tables | modelled |
| File commands, DOS mode | `lsh.c` | drives, overlays, locks | what a command says it wrote is there, what was bled stays gone | modelled |
| Media stores, LardSec | `mediafs.c`, `lardsec.c` | one image per area, keys, records | read back as written, unless torn, damaged beyond repair or sealed with another key | modelled |
| Archives, packages | `lar.c`, `lpack.c`, `lha.c` | the files, an undo record, a disk of the extractor, registered machines | an archive opens for its password, a refused package changes nothing, an undo gives back what there was | modelled |
| Settings | `bootprof.c`, `awake.c`, `lardkit.c`, `osmod.c` | settings, rollback point, profiles, pack, files | what was kept comes back | modelled |
| Reports | `lardkit.c`, `post.c` | rings, journal, baseline, notes | what is on record happened, what got worse is told | modelled |
| Updates | `liveupdate.c`, `lvcs.c`, `drfl.c`, `installer.c` | overlays, versions, drivers, disk layout | what succeeded is in use, a version is what was added | modelled |
| Task priorities | `taskprio.c` | task queue, audit ring | level order, order within a level, urgent tasks run | modelled |
| Shell | `lsh.c`, `kmo.c` | modes, pipe, nested lines, modules | the shell between two lines is in no pipe, mode of one command or nested line | in part: the commands of other parts are in their modules |
| Line editor, clips | `lsh.c`, `megaclip.c` | buffer, slots, pins, their document | whole lines change, the latest clip is pulled, pins come back | modelled |
| UDP reception | `net.c` | card ring, two pending slots | every poller gets its datagrams once and in order | modelled |
| Network set-up | `net.c`, `kernel64.c`, `lconnect.c` | address, gateway, name server and their copies | what is in use was granted by one server; a request reaches the host it names | modelled |
| TCP client, HTTP answers | `net.c` | one connection, the locals of the loops | the buffer holds a beginning of the answer, once and in order; a request ends | in part: no text of requests |
| TLS client | `lard_tls.c`, `net.c` | handshake, record counters, chain | the secret goes to the named host only; both ends agree on what was said | in part: keys are names, ciphers lock and open |
| OSLink | `oslink.c` | inbox ring, peer table, local bus | inbox is a counted queue; answers do not breed answers | modelled |
| LardConnect | `lconnect.c` | switches, share mask, leases, peers, log | nothing is shared that the user did not allow | in part: no files or clip contents |
| Kernel heap, collector | `mem.c`, `gc.c` | block lists, root table | blocks tile the heap; exactly what no root reaches is freed | modelled |
| Windows, desktop, dock, Hangul | `gui.c` | rectangles, stack, items, the input line | windows stay reachable, keys go to the top window, indexes follow their items | in part: no contents of windows |
| Screen | `gui.c` | what was drawn last, dirty rectangle, monitors | the screen shows what is remembered of it | modelled |
| BOSL | `bosl_asm.c`, `bosl_vm.c`, `bosl_jit.c` | image, stacks, registers | no operand is executed, a run ends, native code agrees | modelled |
| Applications in files | `sysrxe.c`, `gui.c` | two tables, launchers, games, scripts | tables hold the files, games are fair, expressions mean what they say | modelled |
| User programs | `lardx_load.c`, `lcontainer.c`, `syscall.c`, `ldll.c`, `lipc.c`, `usermode.c` | containers, rights, descriptors, libraries, keys, ports | a program has its container's rights and no longer than it runs; ports keep order | in part: no drawing and time calls, no address checks |
| Devices | `rtc.c`, `lardtime.c`, `lsound.c`, `bluetooth.c`, `ps2.c`, `rtl8139.c` | clock, settings files, device table, decoder, receive ring | dates go on, settings return, packets are whole and in order | in part |
| Boot code, interrupt and page tables, other processors, PCI, other interpreters, drawing and decoders, scripts, C library, demos, host tools | many | | | not modelled (section 8) |

`PROJECT.json` lists every source file under its part, and under "hazards" the
forty places where the code is most exposed to one of the difficulties above.

### How the parts interact

* The shell and `OsLink` put tasks in `TaskPrio`; `gui_tick` takes them out. An EXEC
  message from a peer becomes a task.
* `OsLink` and `Lconnect` share one card and the two pending slots of `UdpDemux`; a TCP
  receive reads the same card and drops what is not for its connection, and so does
  every question of `NetSetup`. All of them stand on the ring of `Devices`.
* `HttpBody` consumes the stream that `Tcp` puts in the caller's buffer: what
  `PrefixDelivered` says of the one is assumed by the other; `Tls` replaces the stream
  by records.
* `FileNames` is what `LpstStore` stores: a save is one action in `FileNames` and a step
  per sector in `LpstStore`; a load is a step per entry in both, in `LpstStore` after a
  scan that may fail to read a bank.
* `Rxr` extends `FileNames`: it creates, writes and renames files of its table.
  `DeleteOverlay` keeps its log in such a file; `ShellFiles`, `Settings`, `Reports`,
  `Updates`, `Editor`, `Sysrxe` and `Devices` each write some of these files and read
  them back, and take of the table only what it promises.
* `UserMode` and `BoslVm` share the message ports; a machine is run by the shell.
* `Sysrxe` fills the launchers that `Desktop` holds, and runs lines of `Shell`.
* `Present` repaints what `Windows`, `WindowRects` and `Desktop` change.
* The collector takes its blocks from the heap and needs of it that they are disjoint.

## 3. Modules

| Module | Models | State and actions against the code |
|---|---|---|
| `DurableStore` | what the store promises | `ram`, the whole images `kept` on disk, the image `committed`, the `attempts` since, the `phase` of the kernel; an abstract specification |
| `LpstStore` | the two banks | `disk` with a header and sectors per bank. `PowerOn` and `FillDefault` are the boot up to `fs_persist_load`; `LoadBegin`, `LoadFile`, `LoadDone`, `LoadFails` that function, at boot and later, with banks the scan cannot read (`missed`); `SaveBegin`, `WriteSector`, `WriteFails`, `SaveDone` are `fs_persist_save`, a step per sector. `Edit` marks the table dirty, `EditUnmarked` is the writer that does not. `Panic` strikes at any step, those of a panic's own save and of the panic room after it included; so does `PowerCut`. The sector in transfer is lost or untouched. The history variable `unread` is the banks this session has neither read nor saved |
| `FileNames` | the slot table | `name`, `content` are the `FsWritableFile`s; a load is one step per entry (`LoadEntry`), everything else is one call |
| `Rxr` | bundles on that table | `undo` is `s_rxr_undo`; `CaptureFile`, `WriteFile`, `UndoFile` are one round each of the loops of `rxr_install` and `rxr_undo_last` |
| `Archives` | archives, packages, programs for LHA | `files` as sequences of cells, `packUndo` is the record of `lpack.c`, `disk` what the desktop extracts to; an action per command |
| `DeleteOverlay` | the tombstones | `tables` are the two arrays, `log` the records of `fsdelete.lardd`, `Replayed` is `fs_apply_delete_log` |
| `ShellFiles` | one name on many drives | `ram`, `media`, `over` (overlay records), `saved`; an action per file command and its DOS twin; a boot replays the log |
| `Media` | floppy, AUX and USB stores under LardSec | the medium as sectors with a mirror and records; a sync is one step per sector, cut or failing anywhere |
| `Settings` | four ways to keep settings | the live values, `files`, `saved`, `rollback`, `profiles`; an action per command; `Poll` is `awakening_background_poll` |
| `Reports` | rings, journal, baseline, doctor | a ring per kind as the arrays and counts of `lardkit.c`; the self test is a sequence of steps on the live state, the kit's own test among them |
| `Updates` | live updates, drivers, versions, installer | `slots` of the overlay, `live` what is in use, the append-only store of `lvcs.c`, the sectors of the disk |
| `TaskPrio` | `taskprio.c` | `tasks` is the array, `history*` the audit ring; one action per call |
| `UdpDemux` | UDP reception | `card`, `pending`; `TakePending`, `ReadCard` are the rounds of `net_udp_recv`, `MainLoop` and `ShellPoll` its callers |
| `NetSetup` | DHCP, ARP, DNS, redirects | `stack` and the `copies` others keep of it, `rx` the frames on the way; a question and the rounds of its wait loop are steps |
| `Tcp` | the TCP client, a peer, a bad network | `snd_nxt`, `snd_una`, `rcv_nxt` and the locals of the loops; `ConnectRound`, `ReceiveSegment`, `ReceiveNothing`, `CloseRound` are one turn each of their loops; `Peer...` is another machine |
| `HttpBody` | the decoder of both request functions | `dec` holds the locals of the loop; `Receive` is one buffer through it, `Decode` one character |
| `Tls` | handshake, chain, records, the HTTPS request | the client's phase, counters and transcript; a server of any configuration; records cut and joined, and one fault in them |
| `OsLink`, `Lconnect` | several machines each | inbox, peers, switches per machine and a set of packets under way; `Poll` handles one packet |
| `Mem`, `Gc` | heap and collector | `blocks` maps the address of a header to its size and flag; `Coalesced` is the walk of `coalesce` as what it leaves; blocks, words, roots, `GcRun` is mark and sweep |
| `WindowRects` | where windows lie | one axis; drag, resize, fullscreen, previews, monitors; `gui_clamp_window` |
| `Windows` | which program is on top | `stack`, the working buffers and the saved view of each program |
| `Desktop` | items of desktop and dock | two tables and the index that is dragged or selected |
| `Hangul` | composing syllables | the cells of the line, cursor, jamo of the open syllable |
| `Present` | the screen | `front` is the frame buffer, `snap` the snapshot, `Dirty` is `gui_dirty_compute` |
| `Shell` | `lsh_exec` | `todo` is the call stack of what is being executed: a step pops one item |
| `Editor` | `lemamd`, clips, pins | the buffer as characters, so that a cut in a line shows; the document of the pins |
| `BoslVm` | assembler, interpreter, JIT | cells of the image, both stacks, the step budget; the native code is a second machine on the same image |
| `Sysrxe` | applications in files | two tables that a reload fills anew, games, `Eval` of C expressions, nested runs |
| `UserMode` | ring 3 programs | `prog` (who runs with which rights), `fds` on the shared `slot`, `libs` on the shared `base`, `keys`, `ports` |
| `Devices` | small devices | a section per device; the ghosts `events`, `heard`, `made`, `came`, `frames` hold what should have been logged, heard or handed on |

`LpstStoreProofs` (for `LpstStore`, `Settings` and `Updates`), `FilesProofs` (for `FileNames`,
`Rxr` and `ShellFiles`), `MainLoopProofs` (for `TaskPrio`, `UdpDemux`, `Shell`, `UserMode` and `Present`) and
`NetworkProofs` (for `OsLink`, `Tcp` and `NetSetup`) hold theorems; those of `Lconnect`, `Mem`, `Media`
and `WindowRects` stand behind the specification in the module. `MC...` modules
instantiate for TLC. They put several components side by side that share no state: a
variable `part` is chosen in the initial state and only that component moves, so one run
explores the union of the instances and not their product. A component that is proved
about is the one such a module EXTENDS, the others are instances with variables of their
own. Their `ASSUME`s check the assumptions of the instances.

Definitions headed "A bug to catch" are variants of the definition below them with a
plausible mistake. No specification uses them. `PROJECT.json` pairs one with each
property of a run; a few more are there for the conjuncts of a property that is a
conjunction, and can be put in place of the original by hand.

## 4. Runs

Properties that a run checks together, because they are conjuncts of one promise, have a
name of their own in the MC module; it lists them.

| Run | Bounds | What it shows |
|---|---|---|
| `lpst_store` | 2 files of 2 contents, one of them with a writer that does not mark it, generations to 3 of 5; rings of 2, a journal of 2, 4 checks, 3 commands, a kit that fails at its beginning, in the middle or at its end; 5 files with 2 overlay slots, 2 commits, 4 steps | Whatever sector writes, failing reads and writes, power cuts and panics during boot, load and save come together: every boot takes one whole image or the defaults, a clean file is in the active bank as it is in RAM, and a kernel that has read or saved both banks (`Known`) leaves its last acknowledged image, or a newer attempt, to the next boot. So the store implements `DurableStore`. `ReportsAreTrue`: what is on record happened (`RecordsAreKept`), worse checks are told (`RegressionsAreTold`), a repair leaves files alone (`RepairKeepsFiles`). `UpdatesAreKept`: `AppliedIsInUse`, `VersionsAreKept`, `InstallSparesStore` |
| `main_loop` | 3 levels and 2 tasks; 2 levels with ids that wrap; 4 datagrams, a card ring of 2, some too big; 3, some empty | `TasksInOrder`: level order and order within a level, and the audit ring is the last grants of level 10. `DeliveredInOrder`: each poller has its own, once and in order. `WaitingIsServed`: urgent tasks run, no datagram stays put aside, empty ones change no order that is promised |
| `network` | 2 machines, inbox of 2, 2 sends, 1 duplicate; 2 requests of 2 segments, 1 fault; 5 bodies in 3 framings; 22 chains, 28 servers, 3 ways to cut records, 1 fault | The inbox is a queue with counted losses; a request delivers a beginning of its own answer and acknowledges only that (`AnswerIsKept`); a body is decoded without its framing; exchanges and requests end (`WaitsEnd`); the secret goes only to a key vouched for under the name, and both ends count the same records (`SessionIsSafe`) |
| `tcp_whole` (violation) | the same | A request can return 0 with part of the answer though nothing was lost |
| `https` (violation) | the same | Every HTTPS request fails when it is sent: the count `lard_tls_write` returns is taken for an error |
| `lconnect` | a lender with 3 commands, a borrower with 1, 1 duplicate; 2 DHCP servers, 2 jobs, 1 doubled frame | Input needs confirmation; grants give only what is shared; exchanges end. `SetupIsOurs`: address and gateway come from one server that granted them, requests go to the host they name |
| `memory` | a heap of 208 bytes, sizes around the header size; 3 blocks of 2 words, 2 variables, 2 roots | `HeapIsSound`: the blocks tile the heap, what is held has a block of its own, one pair of free neighbours at most is unmerged. `CollectsExactly`: `gc_run` frees what no root reaches and nothing else, and the roots are those registered. `WalkIsCoalesced`, an assumption that TLC evaluates, compares `Coalesced` with the loop of the code on every row of up to six blocks |
| `files` | 3 slots of 2 capacities, 4 names, 3 contents; bundles of up to 3 files, undo room of 2; 2 built-in files, tables of 1, log of 3; 2 archives, a package and a program, 3 commands, 2 machines, an undo of 2 files and 3 cells | Boots restore; an install of an ordinary bundle is whole or harmless and its undo restores (`InstallIsAtomic`); the log tells the tables, a deleted file stays deleted. `ArchivesAreSound`: what was sealed opens for its password, a refused package changes nothing, one that was installed can be undone, a machine keeps its name |
| `desktop` | 2 windows on 2 monitors; 3 programs; items of 2 and 3; 2 consonants and 2 vowels on a line of 8; every day of 3 years; 5 steps of clock, sound, Bluetooth; 4 of the user at keyboard and mouse; a ring of 4 units | Windows are reachable; `DesktopIsKept`: the top window has the keys, the dragged item is the pressed one, the dock has a program once; no final consonant is lost. `DevicesAreSound`: a conjunct per device |
| `programs` | sources of 5 kinds of lines up to 6 cells; images of up to 4 instructions; a screen of 4 by 6 and 3 inputs; 3 program files in 6 versions, 4 steps; all expressions of 2 numbers with up to 7 operators; 2 containers, 2 descriptors, 5 steps | Every run ends. `MachineIsSound`: no operand is executed and native code leaves what the machine leaves. `ScreenIsTrue`: the screen is as it is remembered and a moved pointer is drawn. `AppsAreSound`: tables and games; expressions are worth what they mean. `ProgramsAreConfined`: rights, descriptors, ports and keys |
| `shell` | 28 lines, modules that call themselves, depth 1; files of 5 characters; 3 clips, 2 pins; 2 names on 3 drives, 4 commands | The shell between lines is clean and nests only so deep (`LinesEndClean`); `ClipsAreKept`; only whole lines change; a command did what it says and what was bled stays gone (`FilesAreAsSaid`) |
| `stores` | 1 store of 2 files with slots of 1, texts of 1 and 2, 2 keys, 2 faults, 2 power-ups; 4 commands on settings, 3 profile names for 2 places | What was written is read back (`ReadsAsWritten`); what was kept comes back by rollback, profile, pack and boot (`ReturnsToSaved`); the background loader ends |

Why the bounds are enough. Each table, ring and counter has a bound in the model just
above the smallest at which it can be empty, partly full, full and wrapped: an inbox
of 2 overwrites, an audit ring of 2 goes round twice, a generation goes through three
saves so that each bank is target twice, a log of 3 records is rewritten, the card's
ring goes round once. More files, machines or levels add no new comparison to the code:
it compares two generations, two scores, two names at a time. The sizes of the heap are
those at which a remainder is just large enough, or just too small, to be split off. The
days of the calendar part are every day of a year before, in and after a leap year.
The step bounds of `Updates`, `Sysrxe`, `UserMode`, `Devices`, `Present` and `ShellFiles`
(`MaxSteps`, `MaxCommands`, `MaxInputs`) are the weakest point: they let every pair of commands meet,
with one or two before to set the scene, and no more. What does not depend on smallness
is proved (section 6).

`CHECK_DEADLOCK FALSE` stands where what users and others may do is bounded, and a system
in which nobody has anything left to do may stop: `MCNetwork.cfg`, `MCTcpWhole.cfg`,
`MCHttps.cfg` (requests, sends, sessions that are over), `MCLconnect.cfg` (commands, jobs),
`MCLpstStore.cfg` (commands, steps), `MCFiles.cfg` (commands on archives),
`MCPrograms.cfg` (programs that have ended, steps), `MCShell.cfg` (commands) and
`MCStores.cfg` (power-ups, commands). In the other runs deadlock is checked; in `desktop`
the bounded parts end in a step of the MC module that changes nothing.

### What the documentation says and the code does not do

The MC modules, and `Hangul`, `Desktop` and others that need no instance, end with
statements of the documentation that the code violates. Two have runs (`tcp_whole`,
`https`). The others are checked by a copy of the configuration with this one property,
TLC finds each of them violated, and `PROJECT.json` gives the passage and the reason
under "findings":

| Configuration | Statements |
|---|---|
| `MCLpstStore.cfg` | `NotesStay`, `JournalIsOrdered`, `RepairRefreshes`, `RefusedChangesNothing`, `DriversAreLoaded` |
| `MCLconnect.cfg` | `AnswersAreOwn`, `CopiesAgree`, `PlainStaysOnItsPort` |
| `MCFiles.cfg` | `FixedFilesKeepTheirs`, `NoneTooLarge`, `VerifiedBeforeInstall`, `RefusedExtractKeeps`, `InstalledIsVerified`, `CountIsFiles`, `SealedInPlaceOpens` |
| `MCMainLoop.cfg` | `TruncatedOnce`; `DeliveredInOrder` with `LogWraps = TRUE` and `SeqModulus = 4` |
| `MCDesktop.cfg` | `LineFollowsApp`, `DropMovesTheItem`, `KeysAreKept`, `DateIsReal`, `ReadingIsNotAhead`, `EveryLineCounts`, `RefusedIsSilent`, `NamesAreKept`, `DiscoverableMeansOn`, `ReportIsCurrent`, `KeysAreDecoded`, `MouseSizeAgrees`, `FramesGoOn` |
| `MCPrograms.cfg` | `JitFollowsImage`, `KitIsOwn`, `ShownIsTheirs`, `LaunchersAreTheirs`, `ReadsItsFile`, `SymbolsAreOwn`, `HandlesAreFreed`, `NothingIsStale`; `WindowFitsMonitors` with `MaxInputs = 5` |
| `MCShell.cfg` | `SecondHasInput`, `ModuleIsStillThere`, `RefusedChangesNothing`, `RenameKeeps` |
| `MCStores.cfg` | `BootFollowsFile`, `WallpaperReturns`, `ThemeReturns`, `AwakeFinishes` (with 5 commands) |

`NoKeyReaches` of `UserMode` is the other way round: it holds, and says that no key ever
reaches a user program, against the comment of `syscall_key_push`. `MonitorsAgree` of
`Present` holds too. The history of task grants is in order over a wrap of its
sequence number only when the length of the ring divides the numbers there are, which
32 does not divide 2^32 - 1: the last entry of the `MCMainLoop.cfg` row.

## 5. Fairness

* `OsLink`, `Lconnect`: weak fairness of each machine's `Poll`: the main loop polls for
  ever (`kernel64.c`). No fairness of users or of the network, which may lose everything.
* `TaskPrio`: weak fairness of `Dequeue`: `gui_tick` calls it each turn. It is what
  `UrgentRuns` needs; nothing is claimed for tasks below the top level, which the code
  may starve since the age counts for less than one level.
* `UdpDemux`: weak fairness of the steps of a receive that has begun, strong fairness of
  the main loop's turn, because a shell command may come before it any number of times,
  but each ends.
* `Tcp`: weak fairness of the client's rounds (each is one turn of a loop of the only
  thread) and of a peer that receives, sends and repeats. The peer's part is an assumption:
  a silent peer makes the receive loop endless (section 7). `RequestEnds` makes one
  exception, `goneForGood`: a segment was lost that neither side sends again, which the
  code does for all but the last segment of a request.
* `BoslVm`: weak fairness of `Start` and `Step`, the loop of `bosl_run`; `EveryRunEnds`
  rests on the step budget alone.
* `Settings`: weak fairness of `Poll`, which the main loop calls each turn.
* The file, window, shell and device models claim safety only: a user need not act.

## 6. Proofs

TLAPS checks, for every value of the constants that satisfies the named assumptions:

* **LpstStoreProofs.** The theorems have no hypothesis beside the assumptions on the
  constants: table size, read faults and the place of a panic are whatever they are.
  `StoreInv` is the inductive invariant, in seven parts. The active bank is whole, of the
  generation the kernel believes (`ActiveBankIntact`), and was read or saved
  (`ActiveBankRead`); the other one, once it was read or saved, is torn, or its generation
  tells it from the active one (`OtherBankOrdered`). A save has written the sectors of its
  image (`SaveProgress`), a load has a bank and has copied its first entries
  (`LoadProgress`), a boot begins with neither bank (`BootIsFresh`). A clean file is in
  the active bank, and in a newer attempt beside it (`CleanIsStored`). `TypeOK` alone says
  nothing of the disk, and "a boot restores the last save" alone is not inductive: a step of a
  later save needs to know that it writes to the bank that is not the recovery point.
  From it follow `CleanMeansDurable`, `AcknowledgedMeansRestored` and that every step is a
  step or a stutter of `DurableStore`.
  What these say of the next boot they say of a kernel that knows its banks, `Known`: it has
  read or saved each of them since power-on, and its table is within the loader's limit. The
  condition is not for convenience: without it the statements are false of the code
  (section 7), and what is left then is stated beside it and proved as well: clean files
  are in the active bank, an acknowledged save is whole in its bank, every boot ends with
  one whole image or the defaults. In this build, 54 files against a limit of 32, no kernel
  knows its banks; `OversizeTableNeverRestoredHolds` proves that nothing is ever restored.
  Of the settings: `ReturnsToSaved`, for any profiles, themes, colours, names and number of
  profile slots. It says what is there after a return; `SettingsInv` adds what makes it so
  (`RecordsKeep`): the snapshot, each profile and the packs in memory and on disk hold what
  was seen when they were made (`Keeps`), whatever was set since, and a name has one slot,
  which is why the first slot found is the last one saved. Four lemmas carry the steps:
  a snapshot keeps what is seen, `Return` brings a record back, the desktop of a snapshot
  looks as it did or its picture is gone, and a command that returns nothing leaves the
  records alone (`QuietStep`), which disposes of all but seven of the commands.
  Of updates and versions: `UpdatesAreKept`, for any files, texts, limits and kernels. Its
  part about versions is not inductive: that a version that is shown is the one added says
  nothing of those not asked for yet. `VersionsFound` says of the staged list and of every
  commit that its entries are of different names and that each finds its bytes in the
  append-only store, which `StoreGrows` and `StoredIsFound` keep when more is put behind.
  That the latest commit with a name exists, where `lvcs_checkout` looks backwards, is the
  lemma `Largest`; it rests on the well-foundedness of strict subsets, so that no
  induction over numbers is needed. The part about updates holds by what a step does:
  `ReloadsLoads` says what a reload of any scope leaves in use, and `ApplyTextApplies` that
  the name recorded last, which a reload reads, is the name just written.
* **FilesProofs.** Of the table: names stay unique, sizes fit as long as no bundle is
  undone, and `BootRestores`. Uniqueness is inductive on its own because every new name is
  looked up first; sizes need the image included, since a load brings it back. For a boot,
  `BootInv` says after every entry which slots are loaded so far, that the others are as
  compiled, and that fixed slots keep their names and spare ones never have those of
  others (`Settled`), so that an entry finds the slot of its position.
  Of bundles: `InstallIsAtomic`, for any table, bundles and limits of the undo record. The
  invariant `InstallInv` follows the two loops of `rxr_install`: the undo record and the
  files it does not name are together what there was, from the second loop on every file of
  the bundle has a slot, room in it and a record, and the undo goes through the record
  without taking a slot name somebody has. That there is a free name for each new file it
  removes is a counting argument: as many slots as names, and the fixed slots keep theirs.
  The first attempt failed: the property is false for a bundle that names a free slot and
  for one with files behind its line END (section 7). It is stated, and proved, for
  the others (`Ordinary`) and as long as no fixed slot was renamed.
  Of the file commands: `FilesAreAsSaid`, for any names, texts, stores and capacities. That
  a bled name stays away is not inductive: it also has to be gone from what was
  saved, or a boot brings it back, and `BledStaysGone` says nothing of the copy on the LPST
  store nor of media that are locked. `BledAreGone` does. `FirstOf` says that the
  merged drive reads the table before the media, so that a file in the table is what
  its name reads as (`TableReads`), and that a name that is in no place reads as nothing.
  Every command comes down to a step that changes the table, one store, or what is out of
  sight (`TableKeeps`, `StoreKeeps`, `SightKeeps`); `CoveredIsRead` is why `append` to a
  covered file keeps its word, `LineToStoreKeeps` why two writes to a store do.
* **MainLoopProofs.** `HighestLevelFirst` follows from the cap of the age below the score
  of one level; `FifoWithinLevel` rests on `EarlierWaitedLonger`: of two tasks of one
  level and no change since, the one queued first has waited at least as long.
  `AuditInv` is the argument about the audit ring: entry i of the last grants is at the
  oldest place plus i, modulo the ring, for every length of it. It ends where the sequence
  number wraps, which `LogWraps` excludes. `TasksInOrderHolds` joins them to what
  the run checks.
  `DeliveredInOrder` of the receive path needs to know why two slots that anybody may fill
  do not mix the order up: the two pollers never both have something in them, and the first
  slot is not free while the second holds what a later poll will take (`Orderly`). This is
  so only if a poll looks as often as there are slots. The two rounds of
  `oslink_poll` and three of `lconnect_poll` are just enough for the two slots; the proof
  showed that this matters, and `UdpAssumption` states it.
  `LinesEndClean` of the shell is a statement about the kernel's stack: `ShellInv` says that
  the depth `kmo.c` counts and the level of magic are the number of commands of that kind
  which are open on it (`NestingIsCounted`), and that output goes to a pipe, or input comes
  from one, only while the second half or the end of one is still to come (`PipesAreOpen`).
  `PushOne`, `PushTwo` and `PopStack` say what each step does to these numbers;
  `SegmentEffects` that every command does one of five things to the stack. The lines typed,
  the modules and the modes are whatever they are. An earlier version bounded the length of the
  stack; that is not inductive, and not true of a line that nests `lsh` or `dos run` by
  being typed so, nor of modules that run each other by `kmo run`, which passes no guard.
  `ProgramsAreConfined` of user mode joins five statements that no single one carries.
  `RightsInv` adds that the rights a running program will give back are those of the shell,
  which is what makes their return inductive, and that the container it runs in exists
  (no command removes one while a program runs). That a name is one container's follows from
  the lookup before the first free slot is taken (`First`). `FilesInv` says that each name a
  descriptor or a library holds is lawful: behind it is a file of its kind. One static record per kind
  is enough for that, whatever is opened later (`SlotTaken`), and is not enough for more: `ReadsItsFile`
  is false. The port rings and the key queue are one argument about a ring, `Keeps`: what
  went in is what came out followed by what waits from the head on. `KeepsPuts` and
  `KeepsTakes` carry it over a step; a port counts its messages, the key queue, which
  leaves one place empty, finds the count as the distance of its ends (`Between`).
  `ScreenIsTrue` of the screen is an argument about what is not repainted. Outside the dirty
  rectangle there was neither the window nor the pointer, because where the snapshot says they
  were is inside it (`OutsideIsClear`), and neither is there now, for the same reason of where they
  are; inside it the picture decides (`PictureTells`). That needs no statement of what commands do,
  only that every rectangle lies on the screen, which is the type invariant, and the longer
  half: `gui_clamp_window` and the centring of a moved window must fit whatever monitors a
  command or a file of the user's asks for (`ClampedFits`, `CentredRect`, `ParsedIsASet`),
  and no monitor is ever empty (`MonitorsFit`, from the division of a length into bands).
* **NetworkProofs.** Of OSLink: the ring invariant of the inbox (head, tail and count agree;
  read, waiting and dropped messages are all there were), and that the peer table has no
  doubles. Of the TCP client `AnswerIsKept`: whatever the network loses, doubles and reorders, the
  buffer holds a beginning of the answer to the request that is made, and no more is
  acknowledged. `TcpInv` says of each segment on the way, old ones included, that what it
  carries belongs at its number, that the numbers of two connections do not meet, and that
  no acknowledgement on the way exceeds what arrived. The last is why a peer never believes
  more than is there. Of the network set-up `SetupIsOurs`, for any servers, stations, names,
  records and redirects. `SetupInv` adds to it what each wait stands for: an ARP wait that may
  set the gateway's card is for the gateway of the configuration in force (`WaitsAreSane`), a
  grant under way comes from a server that was asked (`AcksAreOwn`), and without late or
  doubled answers at most one answer of the name service is under way or in the card and it
  is to the question that waits (`AnswersArePunctual`), which is all that ties an answer to a
  name, since no id does. What all questions have in common is one lemma, `AskedStep`: they
  differ in the task they leave, `Asking`, and leave configuration and gateway alone.
* **Lconnect.** Input resources are shared only while armed; a machine that never
  confirmed never names them. Inductive with the masks of the packets under way, since a
  machine acts on what another once sent. `InputIsGuardedHolds` and `GrantsAreSharedHolds`
  are the checked properties, the second an action property: each grant was asked for and
  is of what the giver shares. `LogIsLatestHolds` is the ring argument for any length.
* **Mem.** `HeapIsSound` for heaps of every size and all sizes asked for up to
  2^32 - 16 (above, `align_up` wraps to 0). That one pair of free neighbours at most stays
  unmerged is inductive, and needs that pairs alternate: `coalesce` merges the first of a
  row with the second and the third with the fourth (`MergesAlternate`), so a pair it leaves
  comes from two that were there, the second of which is gone (`PairsLeft`); a freed block
  joins at most two neighbours and one pair there was, so two pairs would need four joins
  out of three. Which block of its row a block is, is the number of those that lead up to it
  (`Lead`); that keeps recursion over the list out of the proof.
* **Media.** `ReadsAsWritten`, for any stores, names, texts, keys and capacities, texts that
  fit no slot among them. `MediaInv` says of every store in memory and on disk that entry i
  has slot i and no name twice, that it holds what `want` says, and of every
  image what it was when it was last written to the end (`LoadsAsKept`), under the key it was
  sealed with. The lemmas are about the byte moves of `mediafs_delete`: what is left in a slot
  behind the bytes of its file is not part of a file, before and after files move up by one.
  While it was proved an assumption turned out to be too strong: that texts fit. They need not,
  `lsh.c:9925` copies between drives of different slot sizes, and the write is then
  refused with an empty file left behind; the run now has such a text.
* **WindowRects.** `WindowsInside` for any screen, monitors, windows and smallest
  size. The strengthening is that what a gesture, a preview or a restored rectangle holds
  are integers at all: whatever they are, `gui_clamp_window` brings them onto the screen.

Model-checked only:

* all liveness and the refinements under fairness: the prover has no fairness;
* that `Coalesced` is what the loop of `coalesce` leaves, for rows of more than six blocks:
  it is an induction over data;
* modules whose core is a recursive operator or a fold over data: `Gc`, `HttpBody`,
  `DeleteOverlay`, `Archives`, `Sysrxe`, `Devices`, `Hangul`, `BoslVm`;
* `Tls`, `Windows`, `Desktop`, `Editor` and `Reports`, whose
  invariants are stated and checked but not proved.

## 7. What the code does that a reader may not expect

The findings of `PROJECT.json` name all of it with its lines. The ones that shape a model:

* Exceptions are caught from `kernel64.c:607`, before `fs_init` at line 618. A panic between
  the two, or inside the load, saves RAM as it is (`crashlog.c:94`): with no active bank
  the save goes to bank 0 as generation 1, over the newest image if that is where it was,
  and a whole bank 1 of a higher generation wins over the save that was acknowledged.
* A read that fails while the boot scans the banks has the same outcome (`fs.c:3155`): the
  kernel goes on with the older image, or the defaults, and its next save may overwrite or
  lose to the bank it did not see. `Known` of `LpstStore` excludes both, and only for what
  is said of the next boot.
* `larx` with a wrong password rewrites `lar_extract.txt` and does not mark the table
  dirty (`lar.c:238`): that file is the one `CleanMeansDurable` does not speak of
  (`Unmarked`).
* The loader's limit of 32 entries (`fs.c:2445`) makes every statement about boots in
  `FileNames` one about a build with a smaller table, or a larger limit.
* A failed "del -f" of a hidden file shows it again without recording it
  (`fs.c:2550-2559`, `2661-2670`); `LogTellsTables` makes the one exception.
* A paused task of level 10 is passed over; `ARCHITECTURE.md:411-412` reads as if urgent
  tasks always ran.
* `gc_add_root` ignores a 65th root; `gc.h:13` says a root is kept. `wanted` of `Gc` are
  the roots that were taken.
* The panic capsule is written after the save a panic makes and is not in it.
* Generations of the store and of the audit ring are compared without regard to a wrap.
* `rxr_verify` stops at the line END and the loops of `rxr_install` do not (`rxr.c:355`): a
  file behind it that is too large is found after others were overwritten. A bundle
  may also name a slot that is free, which its undo then takes for an old file. `Ordinary`
  excludes both.
* A failing capture in `rxr_install` leaves the slots it has named behind, empty and
  without an undo record (`rxr.c:432`).
* `oslink_selftest` sends on the local bus and reads the oldest message of the live inbox,
  so it fails on a correct build when one waits; `post.c:297` reports that as a defect.
* Of the segments of a request only the last is ever sent again, once, and neither a SYN-ACK's
  ACK nor the FIN is; a peer that acknowledged and then says nothing keeps
  the receive loop of `net_http_request_once` going for ever, since it has no limit.
* A RST or FIN is taken whatever its number, one of an earlier connection included: every
  connection has the same local port, because the initial number moves by `0x1000`.
* A chunked body ends after its first chunk (`net.c:1671-1688`). `BodyIsDecoded` promises
  one chunk.
* All DNS questions have one id and one port; an answer to a question that was given up is
  taken for the next. `RequestsReachTheNamed` is stated for answers that come in time.
* A calendar year's leap day counts before the year begins (`lardtime.c:289`), so dates are
  wrong in leap years; `CalendarGoesOn` says what still holds.
* `FsFile` pointers are one static record per table: a second open replaces the first
  (`fs.c:2994`).
* Keys are pushed by the main loop, which stands still while a user program runs.

## 8. Not modelled, and why

* Boot sectors, mode switches, descriptor, interrupt and page tables: straight-line code
  that runs once before any state a property could relate exists.
* Other processors: `smp.c` parks them and they are given no work.
* The package disk and inflate (`lfs.c`, `lard_inflate.c`), pictures, documents, fonts,
  drawing, printing: pure decoding and pixels, the matter of unit tests over data.
* The other interpreters (`gasm_vm.c`, `lafillo_vm.c`, `os_vm.c`, `lil.c`, `lml.c`,
  `kr_basic.c`, `larsh.c`, `bosla.c`): small loops of the shape `BoslVm` models.
* Ciphers, hashes and number arithmetic of `lard_tls.c`: a model takes them as ideal.
* PCI configuration, VMM reports, module talk, the Shrine subsystem, C library, demos,
  host tools and generated tables: no state of their own that outlives a call.
* Datagrams of OSLink that are cut or of a foreign format: `oslink_poll` counts and drops them
  (`oslink.c:315-317`), and nothing else changes.
* Wording of reports and of help, which is most of `lsh.c` and `gui.c` by lines.

## 9. Plan

What is left, most useful first:

1. Theorems: the order of windows in `Windows` and the index of `Desktop`; that the log of
   `DeleteOverlay` tells the tables.
2. The composition of `FileNames` with one of the modules that save settings through it,
   so that a full table and a failed save meet what was set.
3. `gasm_vm.c` and `larsh.c` beside `BoslVm` and `Shell`.
