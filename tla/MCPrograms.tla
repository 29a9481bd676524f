----------------------------- MODULE MCPrograms ------------------------------
(***************************************************************************)
(* What the user runs and sees: programs for the stack machine of          *)
(* bosl_vm.c, assembled, loaded and run, or translated to native code      *)
(* (BoslVm), the applications in files with their games, scripts and       *)
(* expressions (Sysrxe), the programs of user mode and what they ask of    *)
(* the kernel (UserMode), and the screen the desktop is painted on         *)
(* (Present).  `part` says which a behaviour explores while others rest.   *)
(***************************************************************************)
EXTENDS UserMode, Present, SequencesExt, FiniteSets

VARIABLES phase, code, labels, fixups, consts, m, entry, jit,
          files, apps, window, views, told, tree,
          part

Number(n) == [t |-> "i32", n |-> n]

\* ------------------------- lines for the assembler --------------------------

Op(op) == [kind |-> "plain", op |-> op, arg |-> Number(0)]
To(op) == [kind |-> "jump", op |-> op, name |-> "a"]
MCLines == {[kind |-> "label", name |-> "a"], To("jz"), To("call"), Op("ret"), Op("pushi")}

Vm == INSTANCE BoslVm WITH
           Lines <- MCLines, Word <- 2, CodeCap <- 6, LabelMax <- 1, FixupMax <- 2,
           ConstMax <- 1, StackMax <- 2, RetMax <- 1, StepLimit <- 5, Answers <- {0, 1},
           Images <- {}, DivMax <- 0, JitCap <- 0

\* --------------------------- code for the translator -------------------------

One(op) == <<[op |-> op, arg |-> Number(0)]>>
Push(n) == <<[op |-> "pushi", arg |-> Number(n)], [op |-> "operand", arg |-> Number(0)]>>
Chunks == {Push(1), Push(2)} \cup {One(op) : op \in {"sub", "div", "dup", "swap", "shl", "over", "lt", "print"}}
Halted(n) == {FlattenSeq(p) \o One("halt") : p \in [1 .. n -> Chunks]}
MCImages == Halted(3) \cup {Push(1) \o p : p \in Halted(3)}

Jit == INSTANCE BoslVm WITH
           Images <- MCImages, DivMax <- 2, JitCap <- 5,
           Lines <- {}, Word <- 1, CodeCap <- 9, LabelMax <- 2, FixupMax <- 2,
           ConstMax <- 1, StackMax <- 3, RetMax <- 1, StepLimit <- 6, Answers <- {0}

\* -------------------------------- the screen --------------------------------

\* Two places windows overlap the dock, the bar and each other at.
MCPlaces == {Rect(0, 1, 2, 2), Rect(2, 1, 2, 4)}
MCSpots == {<<0, 0>>, <<3, 3>>, <<1, 4>>}
MCStore == Rect(3, 5, 1, 1)

\* ------------------------ the applications in files ------------------------

Line(key, val) == [key |-> key, val |-> val]
Magic == Line("magic", 0)
Say(w) == Line("code", [do |-> "say", w |-> w, kind |-> "sys", at |-> 0, file |-> ""])
Lsh(do, k, i) == Line("code", [do |-> do, w |-> "", kind |-> k, at |-> i, file |-> ""])

\* Games with a board of their own and with the built-in one, and programs
\* that run other programs and that fill the tables anew.
MCVersions == [
  gone |-> <<>>,
  bad |-> <<Say("text")>>,
  small |-> <<Magic, Line("row", <<"@", "G">>), Line("desktop", FALSE)>>,
  game |-> <<Magic, Line("type", "game")>>,
  calls |-> <<Magic, Line("lang", "C"), Say("a"), Lsh("run", "rxe", 1), Say("b")>>,
  reloads |-> <<Magic, Line("lang", "C"), Line("ui", "x"), Lsh("reload", "sys", 0), Say("a")>>]

MCFirst == {[p |-> "reloads", q |-> "gone", r |-> "game"], [p |-> "small", q |-> "calls", r |-> "calls"],
            [p |-> "small", q |-> "game", r |-> "reloads"]}

Apps == INSTANCE Sysrxe WITH
            FileOrder <- <<"q", "r", "p">>, KindOf <- [p |-> "sys", q |-> "sys", r |-> "rxe"],
            Versions <- MCVersions, AppMax <- 2, UiMax <- 2, ItemMax <- 2, BoardMax <- 4,
            FallbackRows <- <<<<"#", "#", "#", "#">>, <<"#", "@", ".", "G">>, <<"#", "#", "#">>>>,
            MaxDepth <- 2, MaxMoves <- 3, MaxSteps <- 4

\* All expressions of two numbers with up to seven operators.
MCLeaves == {Apps!Leaf(2), Apps!Leaf(7)}
MCTrees == Apps!Over(MCLeaves \cup Apps!Over(MCLeaves))

\* ----------------------- user mode and its system calls -----------------------

\* Files of each kind, two of them libraries; programs that start and that do not.
MCPlace == [a |-> "ram", b |-> "ram", lib |-> "lfs", other |-> "lfs", c |-> "rom"]
MCStarts == [c |-> 0, a |-> -7]
MCProfiles == [sealed |-> {}, dev |-> {"FS", "LDLL", "LAFILLO"}, ipc |-> {"FS", "LIPC"}]
MCDefaults == <<<<"sealed", {}>>>>

ASSUME Vm!BoslAssumption /\ Jit!BoslAssumption /\ Apps!SysrxeAssumption

vmVars == <<phase, code, labels, fixups, consts, m>>
paintVars == <<desktop, front, snap, due>>
appVars == <<files, apps, window, views, told>>

\* The parts a behaviour does not explore rest.
RestScreen == Win.rect = Rect(0, 1, 2, 2)
RestVm ==
  /\ phase = "none" /\ code = 0 /\ labels = 0 /\ fixups = 0 /\ consts = 0 /\ m = [rc |-> "none"]
  /\ entry = 0 /\ jit = "none"
RestApps == files = 0 /\ apps = 0 /\ window = 0 /\ views = 0 /\ told = "none"

MCInit ==
  /\ UserInit /\ ScreenInit
  /\ \/ part = "vm" /\ Vm!Init /\ entry = 0 /\ jit = "none" /\ RestScreen /\ RestApps /\ tree = 0
     \/ part = "jit" /\ Jit!JitInit /\ RestScreen /\ RestApps /\ tree = 0
     \/ part = "screen" /\ RestVm /\ RestApps /\ tree = 0
     \/ part = "apps" /\ files \in MCFirst /\ Apps!Init /\ RestVm /\ RestScreen /\ tree = 0
     \/ part = "sums" /\ tree \in MCTrees /\ RestVm /\ RestScreen /\ RestApps
     \/ part = "user" /\ RestVm /\ RestScreen /\ RestApps /\ tree = 0

MCNext ==
  /\ UNCHANGED <<part, tree>>
  /\ \/ part = "vm" /\ Vm!Next /\ UNCHANGED <<userVars, entry, jit, screenVars, appVars>>
     \/ part = "jit" /\ Jit!JitNext /\ UNCHANGED <<userVars, screenVars, appVars>>
     \/ part = "screen" /\ ScreenNext /\ UNCHANGED <<userVars, vmVars, entry, jit, appVars>>
     \/ part = "apps" /\ Apps!Next /\ UNCHANGED <<userVars, vmVars, entry, jit, paintVars>>
     \/ part = "user" /\ UserNext /\ UNCHANGED <<vmVars, entry, jit, screenVars, appVars>>

MCSpec ==
  /\ MCInit /\ [][MCNext]_<<vmVars, entry, jit, screenVars, appVars, userVars, tree, part>>
  /\ WF_vmVars(part = "vm" /\ Vm!Start)
  /\ WF_vmVars(part = "vm" /\ Vm!Step)

EveryRunEnds == part = "vm" => Vm!EveryRunEnds

\* No cut operand is executed as an instruction, and native code leaves what the
\* machine leaves.
MachineIsSound ==
  /\ part = "vm" => Vm!NoOperandIsExecuted
  /\ part = "jit" => Jit!JitMatches

\* The tables hold the program files and the launchers show them; no game is
\* lost to its board or won without a move; an expression in C is worth what it
\* means.
AppsAreSound ==
  /\ part = "apps" => Apps!AppsAreFiles /\ Apps!GameIsFair
  /\ part = "sums" => Apps!ExpressionMeans(tree)

\* What the documentation says and the code does not do: a run of its own.
JitFollowsImage == part = "jit" => Jit!JitFollowsImage
KitIsOwn == part = "apps" => Apps!KitIsOwn
ShownIsTheirs == part = "apps" => Apps!ShownIsTheirs
LaunchersAreTheirs == part = "apps" => Apps!LaunchersAreTheirs
=============================================================================
