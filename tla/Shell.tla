------------------------------- MODULE Shell --------------------------------
(***************************************************************************)
(* How lsh.c runs a line: the background mark, the pipe, the modes that    *)
(* take a command before the shell does (settings, DOS), the commands that *)
(* run another command (lsh, magic, dos run) and those of .kmo files, whose*)
(* message is a line for lsh_exec again (kmo.c).  `todo` is the call stack *)
(* of that recursion: what is still to be done, the next first.            *)
(*                                                                         *)
(* A command is a record with its `op`, a line one or two commands with a  *)
(* pipe between and perhaps an & at the end.  What a command prints is left*)
(* out; where it would go is `redirect`.                                   *)
(***************************************************************************)
EXTENDS Integers, Sequences, FiniteSets

CONSTANTS
  Lines,       \* the lines a user may type
  KmoFiles,    \* names of .kmo files, in the order they are listed
  Seeds,       \* which of them are built in, and the module each describes
  Kept, Loose, \* settings a rollback brings back, and the others
  Values,
  KmoMax,      \* KMO_MAX_MODULES
  DepthMax,    \* how deep kmo_run_command may nest
  QueueMax     \* TASKPRIO_MAX_TASKS

ASSUME ShellAssumption ==
  /\ KmoFiles \in Seq(STRING)
  /\ DOMAIN Seeds \subseteq {KmoFiles[i] : i \in DOMAIN KmoFiles}
  /\ Kept \cap Loose = {}
  /\ KmoMax \in Nat /\ DepthMax \in Nat /\ QueueMax \in Nat

VARIABLES
  mode,      \* s_cfgsh_mode, s_dos_mode, s_in_sum_mode, s_sandbox_mode
  drive,
  settings, snapshot,
  seeds, user, kmos,   \* built-in files not deleted, writable ones, the loaded modules
  queue,     \* commands put aside with &
  redirect, hasInput, magic, depth,
  todo

shellVars == <<mode, drive, settings, snapshot, seeds, user, kmos, queue,
          redirect, hasInput, magic, depth, todo>>

shared == <<seeds, user, kmos>>
config == <<settings, snapshot>>
flags == <<redirect, hasInput, magic, depth>>

Empty == [empty |-> TRUE]     \* a file of no bytes
Absent == [absent |-> TRUE]

\* ------------------------------- .kmo files -------------------------------

\* What a file holds: a writable one covers a built-in one of its name.
Holding(usr, sds, f) ==
  IF f \in DOMAIN usr THEN usr[f] ELSE IF f \in sds THEN Seeds[f] ELSE Absent

\* kmo_reload: the writable files first, then the built-in ones not covered.
Reloaded(usr, sds) ==
  LET parsed(fs) == [i \in DOMAIN fs |-> [file |-> fs[i], module |-> Holding(usr, sds, fs[i])]]
      own == SelectSeq(KmoFiles, LAMBDA f : f \in DOMAIN usr /\ usr[f] # Empty)
      builtIn == SelectSeq(KmoFiles, LAMBDA f : f \notin DOMAIN usr /\ f \in sds)
      all == parsed(own \o builtIn)
  IN SubSeq(all, 1, IF Len(all) > KmoMax THEN KmoMax ELSE Len(all))

\* kmo_find and kmo_find_command load the files when none is loaded.
Found == IF kmos = <<>> THEN Reloaded(user, seeds) ELSE kmos

WriteKmo(f, m) ==
  /\ user' = [g \in DOMAIN user \cup {f} |-> IF g = f THEN m ELSE user[g]]
  /\ kmos' = Reloaded(user', seeds)
  /\ UNCHANGED seeds

\* kmo_create, kmo_create_command: not over a file that holds something of its own.
KmoCreate(f, m) ==
  IF f \in DOMAIN user /\ user[f] # Empty THEN UNCHANGED shared ELSE WriteKmo(f, m)

\* kmo_set_field: of a file that can be parsed, built in or not.
KmoSet(f, m) ==
  IF Holding(user, seeds, f) \in {Empty, Absent} THEN UNCHANGED shared ELSE WriteKmo(f, m)

\* A writable file is emptied, and still covers a built-in one of its name.
KmoDelete(f) ==
  IF f \in DOMAIN user THEN WriteKmo(f, Empty)
  ELSE /\ seeds' = seeds \ {f}
       /\ kmos' = IF f \in seeds THEN Reloaded(user, seeds') ELSE kmos
       /\ UNCHANGED user

\* kmo load file.kmo: once, and only while there is room.
KmoLoad(f) ==
  /\ kmos' = IF Len(kmos) >= KmoMax \/ (\E i \in DOMAIN kmos : kmos[i].file = f)
                \/ Holding(user, seeds, f) \in {Empty, Absent}
             THEN kmos
             ELSE Append(kmos, [file |-> f, module |-> Holding(user, seeds, f)])
  /\ UNCHANGED <<seeds, user>>

\* -------------------------- settings and rollback -------------------------

Saved == [valid |-> TRUE, values |-> [s \in Kept |-> settings[s]]]

\* cfgsh_apply takes a snapshot before it looks whether it knows the setting.
Apply(cmd) ==
  CASE cmd.op = "set" ->
         /\ snapshot' = Saved
         /\ settings' = IF cmd.setting \in Kept \cup Loose
                        THEN [settings EXCEPT ![cmd.setting] = cmd.value] ELSE settings
         /\ UNCHANGED mode
    [] cmd.op = "rollback" ->
         /\ settings' = [s \in DOMAIN settings |->
                           IF s \in Kept /\ snapshot.valid THEN snapshot.values[s] ELSE settings[s]]
         /\ UNCHANGED <<mode, snapshot>>
    [] cmd.op \in {"sum", "sandbox"} ->
         /\ snapshot' = Saved
         /\ mode' = [mode EXCEPT ![cmd.op] = cmd.on]
         /\ UNCHANGED settings
    [] OTHER ->
         /\ snapshot' = IF "hasArgs" \in DOMAIN cmd THEN Saved ELSE snapshot
         /\ UNCHANGED <<mode, settings>>

\* ------------------------------ the call stack -----------------------------

Do(what, cmd) == [do |-> what, cmd |-> cmd]
Rest == Tail(todo)

Push(items) == todo' = items \o Rest

\* lsh_exec_impl: without a pipe both flags are cleared, whoever set them.
ExecLine(line) ==
  /\ hasInput' = FALSE
  /\ redirect' = (Len(line.cmds) = 2)
  /\ Push(IF Len(line.cmds) = 1 THEN <<Do("segment", line.cmds[1])>>
          ELSE <<Do("segment", line.cmds[1]), Do("second", line.cmds[2])>>)
  /\ UNCHANGED <<magic, depth, queue>>

\* lsh_exec: a line with & is put aside, if there is room.
Exec(line) ==
  IF line.back
  THEN /\ queue' = IF Len(queue) < QueueMax THEN Append(queue, line) ELSE queue
       /\ todo' = Rest
       /\ UNCHANGED flags
  ELSE ExecLine(line)

\* Between the two halves of a pipe: what the first printed is the input now.
Second(cmd) ==
  /\ redirect' = FALSE /\ hasInput' = TRUE
  /\ Push(<<Do("segment", cmd), Do("pipeEnd", cmd)>>)
  /\ UNCHANGED <<magic, depth>>

PipeEnd == hasInput' = FALSE /\ todo' = Rest /\ UNCHANGED <<redirect, magic, depth>>

\* Shell commands the DOS mode has of its own, none of them with an effect here.
DosKnown == {"plain", "set", "cls"}

\* A command that can do harm, which magic runs only when forced.
RawControl == {"sum", "exitsum", "bye"}

\* cmd_magic: a command name it can guess, run with one level of magic more.
RunMagic(cmd) ==
  IF magic > 0 \/ cmd.pick = "none" \/ (cmd.inner.op \in RawControl /\ ~cmd.force)
  THEN todo' = Rest /\ UNCHANGED flags
  ELSE /\ magic' = magic + 1
       /\ Push(<<Do("segment", cmd.inner), Do("magicEnd", cmd)>>)
       /\ UNCHANGED <<redirect, hasInput, depth>>

\* kmo_run_command: the module is looked up once and used again after its line.
Bound(name) ==
  {i \in DOMAIN Found : Found[i].module.command = name}

\* A bug to catch: the guard returns after the depth is counted.
RunBoundLeaking(name) ==
  LET at == CHOOSE i \in Bound(name) : \A j \in Bound(name) : i <= j IN
  IF Bound(name) = {} THEN todo' = Rest /\ UNCHANGED flags
  ELSE IF depth > DepthMax THEN depth' = depth + 1 /\ todo' = Rest /\ UNCHANGED <<redirect, hasInput, magic>>
  ELSE IF ~Found[at].module.raw THEN todo' = Rest /\ UNCHANGED flags
  ELSE /\ depth' = depth + 1
       /\ Push(<<Do("line", Found[at].module.line), Do("kmoEnd", at)>>)
       /\ UNCHANGED <<redirect, hasInput, magic>>

RunBound(name) ==
  LET at == CHOOSE i \in Bound(name) : \A j \in Bound(name) : i <= j IN
  IF Bound(name) = {} \/ depth > DepthMax \/ ~Found[at].module.raw
  THEN todo' = Rest /\ UNCHANGED flags
  ELSE /\ depth' = depth + 1
       /\ Push(<<Do("line", Found[at].module.line), Do("kmoEnd", at)>>)
       /\ UNCHANGED <<redirect, hasInput, magic>>

KmoEnd == depth' = depth - 1 /\ todo' = Rest /\ UNCHANGED <<redirect, hasInput, magic>>

\* kmo_run: the same for a module by its file, without the guard and the count.
KmoRun(f) ==
  LET at == {i \in DOMAIN Found : Found[i].file = f} IN
  /\ IF at = {} \/ ~Found[CHOOSE i \in at : TRUE].module.raw THEN todo' = Rest
     ELSE Push(<<Do("line", Found[CHOOSE i \in at : TRUE].module.line)>>)
  /\ UNCHANGED flags

\* ------------------------------ the commands -------------------------------

Return == todo' = Rest

\* In the settings mode every command is a setting, but for those that leave it.
InCfg(cmd) ==
  /\ Return /\ UNCHANGED <<flags, shared, drive>>
  /\ CASE cmd.op \in {"exit", "exitcfg"} -> mode' = [mode EXCEPT !.cfg = FALSE] /\ UNCHANGED config
       [] cmd.op = "cfgsh" -> mode' = [mode EXCEPT !.cfg = cmd.on] /\ UNCHANGED config
       [] OTHER -> Apply(cmd)

\* dos_dispatch: lsh leaves the mode for one command and comes back to what it was.
DosDispatch(cmd) ==
  /\ UNCHANGED <<config, shared>>
  /\ CASE cmd.op = "lsh" ->
            /\ mode' = [mode EXCEPT !.dos = FALSE]
            /\ Push(<<Do("segment", cmd.inner), Do("dosBack", mode.dos)>>)
            /\ UNCHANGED <<flags, drive>>
       [] cmd.op \in {"exit", "dos"} ->
            /\ mode' = [mode EXCEPT !.dos = IF cmd.op = "exit" THEN FALSE ELSE cmd.on]
            /\ Return /\ UNCHANGED <<flags, drive>>
       [] cmd.op = "drive" -> drive' = cmd.letter /\ Return /\ UNCHANGED <<flags, mode>>
       [] OTHER -> Return /\ UNCHANGED <<flags, mode, drive>>

DosBack(was) == mode' = [mode EXCEPT !.dos = was] /\ Return

\* The commands that switch a mode, a drive or a setting and end at once.
Switch(cmd) ==
  /\ Return /\ UNCHANGED <<flags, shared, snapshot>>
  /\ CASE cmd.op \in {"sum", "sandbox", "dos"} ->
            mode' = [mode EXCEPT ![cmd.op] = cmd.on] /\ UNCHANGED <<drive, settings>>
       [] cmd.op = "exitcfg" -> mode' = [mode EXCEPT !.cfg = FALSE] /\ UNCHANGED <<drive, settings>>
       [] cmd.op = "cfgsh" -> mode' = [mode EXCEPT !.cfg = cmd.on] /\ UNCHANGED <<drive, settings>>
       [] cmd.op = "drive" -> drive' = cmd.letter /\ UNCHANGED <<mode, settings>>
       [] cmd.op = "set" -> /\ settings' = IF cmd.setting \in Kept \cup Loose
                                           THEN [settings EXCEPT ![cmd.setting] = cmd.value] ELSE settings
                            /\ UNCHANGED <<mode, drive>>
       [] OTHER -> UNCHANGED <<mode, drive, settings>>

KmoCommand(cmd) ==
  /\ Return /\ UNCHANGED <<flags, mode, drive, config>>
  /\ CASE cmd.op = "kmoCreate" -> KmoCreate(cmd.file, cmd.module)
       [] cmd.op = "kmoSet" -> KmoSet(cmd.file, cmd.module)
       [] cmd.op = "kmoDelete" -> KmoDelete(cmd.file)
       [] cmd.op = "kmoLoad" -> KmoLoad(cmd.file)
       [] cmd.op = "kmoReload" -> kmos' = Reloaded(user, seeds) /\ UNCHANGED <<seeds, user>>

\* Looking a module up may load them all.
Searched == kmos' = Found /\ UNCHANGED <<seeds, user, mode, drive, config>>

Native(cmd) ==
  CASE cmd.op = "magic" -> RunMagic(cmd) /\ UNCHANGED <<mode, drive, config, shared>>
    [] cmd.op = "dosRun" -> DosDispatch(cmd.inner)
    [] cmd.op = "rollback" -> Apply(cmd) /\ Return /\ UNCHANGED <<flags, drive, shared>>
    [] cmd.op \in {"kmoCreate", "kmoSet", "kmoDelete", "kmoLoad", "kmoReload"} -> KmoCommand(cmd)
    [] cmd.op = "kmoRun" -> KmoRun(cmd.file) /\ Searched
    [] cmd.op = "bound" -> RunBound(cmd.name) /\ Searched
    [] OTHER -> Switch(cmd)

\* parse_and_run: the settings mode first, then DOS, then the shell's own.
Segment(cmd) ==
  /\ UNCHANGED queue
  /\ IF mode.cfg THEN InCfg(cmd) ELSE IF mode.dos THEN DosDispatch(cmd) ELSE Native(cmd)

\* ------------------------------- the system --------------------------------

\* lsh_init.
ShellInit ==
  /\ mode = [m \in {"cfg", "dos", "sum", "sandbox"} |-> FALSE] /\ drive = "X"
  /\ settings = [s \in Kept \cup Loose |-> CHOOSE v \in Values : TRUE]
  /\ snapshot = [valid |-> FALSE, values |-> [s \in Kept |-> CHOOSE v \in Values : TRUE]]
  /\ seeds = DOMAIN Seeds /\ user = [f \in {} |-> Empty] /\ kmos = Reloaded(user, seeds)
  /\ queue = <<>> /\ todo = <<>>
  /\ redirect = FALSE /\ hasInput = FALSE /\ magic = 0 /\ depth = 0

quiet == <<mode, drive, config, shared>>

\* The user presses Enter.
TypeLine ==
  /\ todo = <<>>
  /\ \E line \in Lines : todo' = <<Do("line", line)>>
  /\ UNCHANGED <<quiet, flags, queue>>

\* lsh_poll_background: a command put aside runs in the mode there is now.
PollBackground ==
  /\ todo = <<>> /\ queue # <<>>
  /\ todo' = <<Do("impl", Head(queue))>> /\ queue' = Tail(queue)
  /\ UNCHANGED <<quiet, flags>>

Step ==
  /\ todo # <<>>
  /\ LET next == Head(todo) IN
     CASE next.do = "line" -> Exec(next.cmd) /\ UNCHANGED quiet
       [] next.do = "impl" -> ExecLine(next.cmd) /\ UNCHANGED quiet
       [] next.do = "segment" -> Segment(next.cmd)
       [] next.do = "second" -> Second(next.cmd) /\ UNCHANGED <<quiet, queue>>
       [] next.do = "pipeEnd" -> PipeEnd /\ UNCHANGED <<quiet, queue>>
       [] next.do = "magicEnd" -> /\ magic' = magic - 1 /\ todo' = Rest
                                  /\ UNCHANGED <<quiet, queue, redirect, hasInput, depth>>
       [] next.do = "dosBack" -> DosBack(next.cmd) /\ UNCHANGED <<flags, queue, drive, config, shared>>
       [] next.do = "kmoEnd" -> KmoEnd /\ UNCHANGED <<quiet, queue>>

ShellNext == TypeLine \/ PollBackground \/ Step

ShellSpec == ShellInit /\ [][ShellNext]_shellVars

\* ------------------------------- properties --------------------------------

ShellTypeOK ==
  /\ mode \in [{"cfg", "dos", "sum", "sandbox"} -> BOOLEAN]
  /\ settings \in [Kept \cup Loose -> Values]
  /\ Len(kmos) <= KmoMax /\ Len(queue) <= QueueMax
  /\ magic \in 0 .. 1 /\ depth \in 0 .. DepthMax + 1

\* Nothing of a line outlives it: when the shell waits for the next one, output
\* goes to the screen, no command has input, and the levels of magic and of module
\* commands are counted back, whatever ran inside what (a pipe in a module's
\* line, a module's command under magic, the guard that stops it).
IdleIsClean == todo = <<>> => ~redirect /\ ~hasInput /\ magic = 0 /\ depth = 0

\* The commands of a kind that were begun and have not ended.
Opened(s, end) == Cardinality({i \in DOMAIN s : s[i].do = end})

\* The counters are what is open: a module's line may run the module's own command,
\* also twice with a pipe, also under magic, and the guard of kmo_run_command stops
\* it when the kernel's stack holds DepthMax + 1 of them; magic runs no magic.  (A
\* module that runs itself with kmo run passes no guard.)
NestingIsCounted ==
  /\ depth = Opened(todo, "kmoEnd") /\ depth <= DepthMax + 1
  /\ magic = Opened(todo, "magicEnd") /\ magic <= 1

\* Between two lines the shell is in no pipe, redirection or magic command, and
\* lines that execute lines nest only so deep.
LinesEndClean == IdleIsClean /\ NestingIsCounted

\* In the second half of a pipe there is input (the comment at s_pipe_has_input):
\* until its end is reached nothing it runs takes that away.
SecondHasInput ==
  \A i \in DOMAIN todo : todo[i].do = "pipeEnd" /\ (\A j \in 1 .. i - 1 : todo[j].do # "second") => hasInput

\* After a module's line the reply and the journal name the module that was run.
ModuleIsStillThere == [][\A i \in DOMAIN todo : todo[i].do = "kmoEnd" =>
                            /\ todo[i].cmd \in DOMAIN kmos'
                            /\ kmos'[todo[i].cmd] = kmos[todo[i].cmd]]_shellVars

\* ------------------------- the inductive invariant -------------------------

Doings == {"line", "impl", "segment", "second", "pipeEnd", "magicEnd", "dosBack", "kmoEnd"}

\* Output goes to a pipe while its second half is to come, and there is input
\* while the end of a pipe is to come.
PipesAreOpen ==
  /\ redirect => Opened(todo, "second") > 0
  /\ hasInput => Opened(todo, "pipeEnd") > 0

IsStack(s) ==
  /\ Len(s) \in Nat /\ s = [i \in 1 .. Len(s) |-> s[i]]
  /\ \A i \in DOMAIN s : s[i].do \in Doings

ShellInv == IsStack(todo) /\ NestingIsCounted /\ PipesAreOpen
=============================================================================
