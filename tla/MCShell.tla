------------------------------- MODULE MCShell -------------------------------
(***************************************************************************)
(* The shell (Shell), and what one of its commands works on by itself: a   *)
(* text file in the line editor and the clip board (Editor), once with the *)
(* editor's commands and once with copies and pins, and the commands that  *)
(* move files between the drives (ShellFiles).  `part` says which of them  *)
(* a behaviour explores while the others rest.                             *)
(***************************************************************************)
EXTENDS Shell, ShellFiles, TLC

VARIABLES file, cursor, conf, slots, clipMode, seq, pins, doc, latest, part

\* ------------------------------- the shell ---------------------------------

Cmd(op) == [op |-> op]
ByName(n) == [op |-> "bound", name |-> n, hasArgs |-> TRUE]
On(op, b) == [op |-> op, on |-> b, hasArgs |-> TRUE]
Kmo(op, f) == [op |-> op, file |-> f, hasArgs |-> TRUE]
SetTo(s, v) == [op |-> "set", setting |-> s, value |-> v, hasArgs |-> TRUE]
Within(op, c) == [op |-> op, inner |-> c, hasArgs |-> TRUE]
Magic(c, f) == [op |-> "magic", pick |-> "one", inner |-> c, force |-> f, hasArgs |-> TRUE]

Single(c) == [cmds |-> <<c>>, back |-> FALSE]
Pipe(c, d) == [cmds |-> <<c, d>>, back |-> FALSE]
Behind(c) == [cmds |-> <<c>>, back |-> TRUE]

\* A module that calls itself twice, and one that says something.
Self == [command |-> "again", raw |-> TRUE, line |-> Pipe(ByName("again"), ByName("again"))]
Talk == [command |-> "talk", raw |-> FALSE, line |-> Single(Cmd("plain"))]

MCKmoFiles == <<"user0", "gui">>
MCSeeds == ("gui" :> Talk)
MCLines ==
  {Single(c) : c \in {
     Cmd("plain"), Cmd("exit"), Cmd("rollback"), [op |-> "drive", letter |-> "Y"],
     On("cfgsh", TRUE), On("dos", TRUE), On("sum", TRUE),
     SetTo("theme", 1), SetTo("nosuch", 1), ByName("talk"), ByName("again"),
     Within("lsh", On("dos", FALSE)), Within("lsh", Magic(ByName("again"), FALSE)),
     Within("dosRun", Within("lsh", Cmd("plain"))),
     Magic(On("sum", TRUE), FALSE), Magic(ByName("again"), FALSE), Magic(Magic(Cmd("plain"), TRUE), TRUE),
     Kmo("kmoCreate", "user0") @@ [module |-> Self], Kmo("kmoSet", "gui") @@ [module |-> Self],
     Kmo("kmoDelete", "gui"), Kmo("kmoDelete", "user0"), [op |-> "kmoReload", hasArgs |-> TRUE],
     Kmo("kmoLoad", "user0"), Kmo("kmoRun", "gui")}}
  \cup {Pipe(ByName("again"), Cmd("plain")), Pipe(Cmd("plain"), ByName("again")),
        Behind(ByName("again")), Behind(SetTo("theme", 1))}

\* --------------------------- the editor, the clips --------------------------

A == <<"a">>
MCCommands ==
  {[op |-> "i", word |-> A], [op |-> "a", word |-> <<"b">>],
   [op |-> "dd", count |-> 1], [op |-> "dd", count |-> 2], [op |-> "dd", count |-> 15],
   [op |-> "r", line |-> 0, word |-> A], [op |-> "r", line |-> 3, word |-> A],
   [op |-> "s", old |-> A, new |-> <<>>], [op |-> "s", old |-> A, new |-> <<"b">>],
   [op |-> "p", slot |-> 0], [op |-> "p", slot |-> 2],
   [op |-> "goto", line |-> 2], [op |-> "new"], [op |-> "yy", count |-> 1], [op |-> "mode"],
   [op |-> "macro", name |-> "m", command |-> [op |-> "runmacro", name |-> "m"]],
   [op |-> "macro", name |-> "m", command |-> [op |-> "dd", count |-> 1]],
   [op |-> "runmacro", name |-> "m"]}

Ed == INSTANCE Editor WITH
           Commands <- MCCommands, Words <- {}, Blobs <- {}, FirstTexts <- {<<"a", "lf", "b">>},
           FileMax <- 5, BufMax <- 6, ClipMax <- 2, WordSize <- 16, Slots <- 1, Pins <- 0,
           DocMax <- 0, LineHead <- 2, ConfMax <- 1, DepthMax <- 1, SeqMax <- 1, mode <- clipMode

Clips == INSTANCE Editor WITH
           Commands <- {}, Words <- {A, <<" ", "b">>}, Blobs <- {<<"a", "lf">>}, FirstTexts <- {<<>>},
           FileMax <- 5, BufMax <- 6, ClipMax <- 2, WordSize <- 16, Slots <- 3, Pins <- 2,
           DocMax <- 7, LineHead <- 2, ConfMax <- 1, DepthMax <- 1, SeqMax <- 4, mode <- clipMode

\* -------------------------- files on many drives ---------------------------

MCBuilt == ("n" :> <<"x">>) @@ ("big" :> <<"x", "x", "x">>)
MCStores == <<"Z">>
MCWords == {A}

ASSUME Ed!EditorAssumption /\ Clips!EditorAssumption

editorVars == <<file, cursor, conf, slots, clipMode, seq, pins, doc, latest>>

MCInit ==
  /\ ShellInit /\ DrivesInit
  /\ \/ part \in {"shell", "editor", "files"} /\ Ed!Init
     \/ part = "clips" /\ Clips!Init

MCNext ==
  /\ UNCHANGED part
  /\ \/ part = "shell" /\ ShellNext /\ UNCHANGED <<editorVars, drivesVars>>
     \/ part = "editor" /\ Ed!Next /\ UNCHANGED <<shellVars, drivesVars>>
     \/ part = "clips" /\ Clips!Next /\ UNCHANGED <<shellVars, drivesVars>>
     \/ part = "files" /\ DrivesNext /\ UNCHANGED <<shellVars, editorVars>>

MCSpec == MCInit /\ [][MCNext]_<<shellVars, editorVars, drivesVars, part>>

\* The clip pulled is the one taken last, and pins come back from their document.
ClipsAreKept ==
  /\ part = "editor" => Ed!LatestIsLatest
  /\ part = "clips" => Clips!LatestIsLatest /\ Clips!PinsSurvive

\* What the line editor changes are whole lines.
EditsLines == Ed!EditsLines
=============================================================================
