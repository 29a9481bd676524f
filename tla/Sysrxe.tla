------------------------------- MODULE Sysrxe --------------------------------
(***************************************************************************)
(* The applications in files (sysrxe.c): two tables of programs read from  *)
(* .sysrxe and .rxe files, their games and scripts, the launchers that     *)
(* show them on the desktop (gui_reload_sysrxe_apps) and the commands      *)
(* sysrxe and rxe of the shell.                                            *)
(*                                                                         *)
(* An application is known by its place in its table, so everything that   *)
(* keeps a place - a launcher, an open window, the pointer a running       *)
(* program was started with, the cursor into its source - means another    *)
(* application once the table was filled anew.  A program prints into one  *)
(* static buffer, and the lines of it that begin with APPKIT change the    *)
(* widgets of the program when it has ended; `by` is a ghost that names    *)
(* the file whose program printed a line.                                  *)
(***************************************************************************)
EXTENDS Integers, Sequences, SequencesExt, FiniteSetsExt

CONSTANTS
  FileOrder,  \* the files, in the order fs_list reports them
  KindOf,     \* the suffix of a file: "sys" or "rxe"
  Versions,   \* what may be written in a file: version -> lines ("gone": no such file)
  AppMax,     \* SYSRXE_MAX_APPS, RXE_MAX_APPS
  UiMax,      \* SYSRXE_UI_MAX_WIDGETS
  ItemMax,    \* GUI_DESKTOP_ITEM_MAX, less the launchers that are built in
  BoardMax,   \* SYSRXE_GAME_MAX_W, SYSRXE_GAME_MAX_H
  FallbackRows, \* the board of a game without rows
  MaxDepth,   \* bound: programs that run programs (the code has none)
  MaxMoves,   \* bound: counted moves of a game
  MaxSteps    \* bound: steps of a behaviour

SysrxeAssumption ==
  /\ {AppMax, UiMax, ItemMax, MaxDepth, MaxMoves, MaxSteps} \subseteq Nat /\ BoardMax \in Nat \ {0, 1, 2}
  /\ "gone" \in DOMAIN Versions /\ \A i \in 1 .. Len(FileOrder) : KindOf[FileOrder[i]] \in {"sys", "rxe"}

VARIABLES
  files,  \* the version written in each file
  apps,   \* s_apps and s_rxe_apps with their counts, the launchers, the buffer
  window, \* the application of the window on top: [kind, at], at = 0 for none
  views,  \* g_app_views: the file whose text the window of each place shows
  told,   \* ghost: what the last step was
  steps   \* steps so far
vars == <<files, apps, window, views, told, steps>>

Kinds == {"sys", "rxe"}
Files == Range(FileOrder)

\* -------------------------- reading a program file --------------------------

\* defaults_for
DefaultsFor(file) ==
  [file |-> file, type |-> "text", lang |-> "LSH", ui |-> <<>>, code |-> <<>>, desktop |-> TRUE,
   rows |-> <<>>, w |-> 0, h |-> 0, start |-> <<1, 1>>, goal |-> <<-1, -1>>,
   at |-> <<1, 1>>, moves |-> 0, won |-> FALSE, wins |-> 0]

\* The slot of a table after memset.
Empty == [DefaultsFor("") EXCEPT !.lang = "none", !.desktop = FALSE,
                                 !.start = <<0, 0>>, !.goal = <<0, 0>>, !.at = <<0, 0>>]

\* parse_ui_widget: one more widget, unless there are as many as fit
ParseUiWidget(a, w, by) ==
  IF Len(a.ui) >= UiMax THEN a ELSE [a EXCEPT !.ui = Append(@, [w |-> w, by |-> by])]

\* parse_game_row: a start mark is remembered and becomes floor, the last
\* goal mark is the goal.
ParseGameRow(a, cells) ==
  LET y == Len(a.rows)
      row == SubSeq(cells, 1, IF Len(cells) < BoardMax THEN Len(cells) ELSE BoardMax)
      starts == {x \in DOMAIN row : row[x] = "@"}
      goals == {x \in DOMAIN row : row[x] = "G"}
      s == IF starts = {} THEN a.start ELSE <<Max(starts) - 1, y>>
  IN IF y >= BoardMax THEN a
     ELSE [a EXCEPT !.rows = Append(@, [x \in DOMAIN row |-> IF row[x] = "@" THEN "." ELSE row[x]]),
                    !.start = s, !.at = IF starts = {} THEN @ ELSE s,
                    !.goal = IF goals = {} THEN @ ELSE <<Max(goals) - 1, y>>,
                    !.w = IF @ < Len(row) THEN Len(row) ELSE @]

\* parse_line: what a line says, applied to the application read so far
ParseLine(a, l) ==
  CASE l.key = "ui" -> ParseUiWidget(a, l.val, a.file)
    [] l.key = "type" -> [a EXCEPT !.type = l.val]
    [] l.key = "board" -> [a EXCEPT !.w = IF l.val[1] > BoardMax THEN BoardMax ELSE l.val[1],
                                    !.h = IF l.val[2] > BoardMax THEN BoardMax ELSE l.val[2]]
    [] l.key = "start" -> [a EXCEPT !.start = l.val, !.at = l.val]
    [] l.key = "goal" -> [a EXCEPT !.goal = l.val]
    [] l.key = "row" -> ParseGameRow([a EXCEPT !.type = "game"], l.val)
    [] l.key = "lang" -> [a EXCEPT !.lang = l.val]
    [] l.key = "code" -> [a EXCEPT !.code = Append(@, l.val)]
    [] l.key = "desktop" -> [a EXCEPT !.desktop = l.val]
    [] OTHER -> a

OnBoard(a, p) == p[1] \in 0 .. a.w - 1 /\ p[2] \in 0 .. a.h - 1
Cell(a, p) == a.rows[p[2] + 1][p[1] + 1]

\* normalize_game: the built-in board for a game without rows ...
WithRows(a) == IF a.rows = <<>> THEN FoldLeft(ParseGameRow, a, FallbackRows) ELSE a

\* ... at least three by three ...
Least(n) == IF n < 3 THEN 3 ELSE n
Sized(a) ==
  [a EXCEPT !.w = Least(IF @ = 0 THEN BoardMax ELSE @),
            !.h = Least(IF @ = 0 \/ @ > Len(a.rows) THEN Len(a.rows) ELSE @)]

\* ... missing cells filled with wall on the first and last row ...
Filled(a) ==
  [a EXCEPT !.rows = [y \in 1 .. a.h |-> [x \in 1 .. a.w |->
     IF y <= Len(a.rows) /\ x <= Len(a.rows[y]) THEN a.rows[y][x] ELSE IF y \in {1, a.h} THEN "#" ELSE "."]]]

\* ... and a start off the board or in a wall is moved to (1,1), which nothing
\* looks at; a goal off the board to the corner inside the wall.
Started(a) ==
  IF OnBoard(a, a.start) /\ Cell(a, a.start) # "#" THEN [a EXCEPT !.at = a.start]
  ELSE [a EXCEPT !.start = <<1, 1>>, !.at = <<1, 1>>]
Ended(a) ==
  IF OnBoard(a, a.goal) THEN a
  ELSE [a EXCEPT !.goal = <<a.w - 2, a.h - 2>>, !.rows[a.h - 1][a.w - 1] = "G"]

NormalizeGame(a) == IF a.type = "game" THEN Ended(Started(Filled(Sized(WithRows(a))))) ELSE a

\* parse_rxe_text
HasMagic(lines) == \E i \in DOMAIN lines : lines[i].key = "magic"
ParseRxeText(file, lines) == NormalizeGame(FoldLeft(ParseLine, DefaultsFor(file), lines))

\* -------------------------------- the tables --------------------------------

Slots(m, k) == {i \in 1 .. AppMax : i <= m.count[k]}
Reset(m, k) == [m EXCEPT !.slot[k] = [i \in 1 .. AppMax |-> Empty], !.count[k] = 0]

\* sysrxe_load_file and rxe_load_file
LoadFile(m, file) ==
  LET k == KindOf[file] IN
  IF m.count[k] >= AppMax THEN m
  ELSE IF \E i \in Slots(m, k) : m.slot[k][i].file = file THEN m
  ELSE IF files[file] = "gone" \/ ~HasMagic(Versions[files[file]]) THEN m
  ELSE [m EXCEPT !.slot[k][m.count[k] + 1] = ParseRxeText(file, Versions[files[file]]), !.count[k] = @ + 1]

\* sysrxe_reload and rxe_reload
Reload(m, k) == FoldLeft(LoadFile, Reset(m, k), SelectSeq(FileOrder, LAMBDA f : KindOf[f] = k))

\* gui_item_from_app: the launcher of an application shows what its slot holds
Launcher(m, k, i) == [kind |-> k, at |-> i, shows |-> m.slot[k][i].file]

\* gui_reload_sysrxe_apps, for the applications of one table that have none
Missing(m, k) ==
  SelectSeq([i \in 1 .. m.count[k] |-> i],
            LAMBDA i : m.slot[k][i].desktop
                         /\ ~\E n \in DOMAIN m.items : m.items[n].kind = k /\ m.items[n].at = i)
FirstItems(all) == SubSeq(all, 1, IF Len(all) < ItemMax THEN Len(all) ELSE ItemMax)
AddLaunchers(m, k) ==
  [m EXCEPT !.items = FirstItems(@ \o FoldLeft(LAMBDA new, i : Append(new, Launcher(m, k, i)), <<>>, Missing(m, k)))]

\* The launchers whose place is still taken show what is there now.
ShowAgain(m) ==
  [m EXCEPT !.items = [n \in DOMAIN @ |-> LET it == @[n] IN
                         IF it.at \in Slots(m, it.kind) THEN Launcher(m, it.kind, it.at) ELSE it]]

\* A bug to catch: the launchers that are there keep what they showed.
ReloadAppsOnly(m) == FoldLeft(AddLaunchers, FoldLeft(Reload, m, <<"sys", "rxe">>), <<"sys", "rxe">>)

\* gui_reload_sysrxe_apps: both tables are filled anew, the launchers that are
\* there show what is there now, and the new ones are added.
ReloadApps(m) == FoldLeft(AddLaunchers, ShowAgain(FoldLeft(Reload, m, <<"sys", "rxe">>)), <<"sys", "rxe">>)

\* ---------------------------------- games -----------------------------------

\* sysrxe_game_dir: the words, and any word that begins like one
Dirs == [up |-> <<0, -1>>, down |-> <<0, 1>>, left |-> <<-1, 0>>, right |-> <<1, 0>>]

\* A bug to catch: a new game does not forget that the last one was won.
GameKeepsWon(a, input) ==
  LET to == <<a.at[1] + Dirs[input][1], a.at[2] + Dirs[input][2]>> IN
  IF input = "reset" THEN [a EXCEPT !.at = a.start, !.moves = 0]
  ELSE IF input \notin DOMAIN Dirs THEN a
  ELSE IF ~OnBoard(a, to) \/ Cell(a, to) = "#" THEN a
  ELSE LET win == to = a.goal /\ ~a.won
       IN [a EXCEPT !.at = to, !.moves = @ + 1, !.won = @ \/ win, !.wins = IF win THEN @ + 1 ELSE @]

\* sysrxe_game_run: one word of input
GameRun(a, input) ==
  LET to == <<a.at[1] + Dirs[input][1], a.at[2] + Dirs[input][2]>> IN
  IF input = "reset" THEN [a EXCEPT !.at = a.start, !.moves = 0, !.won = FALSE]
  ELSE IF input \notin DOMAIN Dirs THEN a
  ELSE IF ~OnBoard(a, to) \/ Cell(a, to) = "#" THEN a
  ELSE LET win == to = a.goal /\ ~a.won
       IN [a EXCEPT !.at = to, !.moves = @ + 1, !.won = @ \/ win, !.wins = IF win THEN @ + 1 ELSE @]

\* ------------------------------- the programs -------------------------------

\* app_out_append at `pos` of the static buffer: what a program inside wrote
\* since is still there below pos, and ends the text if it is shorter.
Put(m, pos, lines) ==
  IF pos > Len(m.raw) THEN m ELSE [m EXCEPT !.raw = SubSeq(@, 1, pos) \o lines]

\* appkit_apply_line: does the line change the application, and how
IsKit(l) == l.w # "text"
ApplyLine(a, l) ==
  IF ~IsKit(l) THEN a ELSE IF l.w = "clear" THEN [a EXCEPT !.ui = <<>>] ELSE ParseUiWidget(a, l.w, l.by)

\* appkit_apply_script: the APPKIT lines of the buffer change the slot the
\* program was started from, the others are what the caller sees.
ApplyScript(m, k, i) ==
  [m EXCEPT !.slot[k][i] = FoldLeft(ApplyLine, @, m.raw),
            !.out = SelectSeq(m.raw, LAMBDA l : ~IsKit(l))]

Fill(m, k) == IF m.count[k] = 0 THEN Reload(m, k) ELSE m
Reported(m) == [m EXCEPT !.out = <<[w |-> "text", by |-> "shell"]>>]
PutOut(m, pos) == Put(m, pos, m.out)

RECURSIVE Run(_, _, _, _, _), Shell(_, _, _), Statements(_, _, _, _, _, _),
          Statement(_, _, _, _), Then(_, _, _, _, _, _), Language(_, _, _, _)

\* The commands sysrxe and rxe of the shell (cmd_sysrxe, cmd_rxe): `run` and
\* `list` fill an empty table, `run` shows what the program printed.
Shell(m, c, d) ==
  CASE c.do = "reload" -> Reported(ReloadApps(m))
    [] c.do = "load" -> Reported(LoadFile(m, c.file))
    [] c.do = "list" -> Reported(Fill(m, c.kind))
    [] c.do = "run" -> Run(Fill(m, c.kind), c.kind, c.at, "none", d)

\* capp_run from statement pc: print, appkit and lsh calls.  The source is
\* read from the slot, whatever a command put there meanwhile.
Statement(m, st, by, d) ==
  IF st.do = "say" THEN [m EXCEPT !.out = <<[w |-> st.w, by |-> by]>>] ELSE Shell(m, st, d)
Then(m, k, i, pc, pos, d) == Statements(PutOut(m, pos), k, i, pc, pos + Len(m.out), d)
Statements(m, k, i, pc, pos, d) ==
  IF pc > Len(m.slot[k][i].code) THEN m
  ELSE Then(Statement(m, m.slot[k][i].code[pc], m.slot[k][i].file, d), k, i, pc + 1, pos, d)

\* sysrxe_run, rxe_run and app_run_language
Language(m, k, i, d) ==
  IF m.slot[k][i].lang = "LSH" THEN PutOut(Shell(m, m.slot[k][i].code[1], d), 0)
  ELSE Statements(m, k, i, 1, 0, d)
Run(m, k, i, input, d) ==
  IF i \notin Slots(m, k) \/ d = 0 THEN [m EXCEPT !.out = <<>>]
  ELSE LET a == m.slot[k][i] IN
       IF a.type = "game"
       THEN [m EXCEPT !.slot[k][i] = GameRun(a, input), !.out = <<[w |-> "text", by |-> a.file]>>]
       ELSE IF a.code = <<>> THEN [m EXCEPT !.out = <<[w |-> "text", by |-> a.file]>>]
       ELSE ApplyScript(Language([m EXCEPT !.raw = <<>>], k, i, d - 1), k, i)

\* -------------------------------- the desktop --------------------------------

\* gui_desktop_init_model
Init ==
  /\ files \in [Files -> DOMAIN Versions]
  /\ apps = ReloadApps([slot |-> [k \in Kinds |-> [i \in 1 .. AppMax |-> Empty]],
                        count |-> [k \in Kinds |-> 0], items |-> <<>>, raw |-> <<>>, out |-> <<>>])
  /\ window = [kind |-> "sys", at |-> 0]
  /\ views = [k \in Kinds |-> [i \in 1 .. AppMax |-> ""]]
  /\ told = "reload" /\ steps = 0

Counted == steps < MaxSteps /\ steps' = steps + 1

\* An editor or a command writes or deletes a program file; nothing tells the
\* tables of it.
WriteFile(f, v) ==
  /\ Counted /\ files[f] # v
  /\ files' = [files EXCEPT ![f] = v] /\ told' = "file"
  /\ UNCHANGED <<apps, window, views>>

\* The user types a command of the shell.
Command(c) ==
  /\ Counted
  /\ apps' = [Shell(apps, c, MaxDepth) EXCEPT !.raw = <<>>, !.out = <<>>]
  /\ told' = c.do /\ UNCHANGED <<files, window, views>>

Text(k, i) == IF i \in Slots(apps, k) THEN apps.slot[k][i].file ELSE views[k][i]

\* gui_select_app by a launcher: a place that was opened before shows what it
\* showed then, a new one shows the first page of its application.
Open(n) ==
  /\ Counted
  /\ LET it == apps.items[n] IN
     /\ window' = [kind |-> it.kind, at |-> it.at]
     /\ views' = [views EXCEPT ![it.kind][it.at] = IF @ = "" THEN Text(it.kind, it.at) ELSE @]
  /\ told' = "open" /\ UNCHANGED <<files, apps>>

\* gui_run_sysrxe_input, gui_run_sysrxe_current
Input(word) ==
  LET k == window.kind
      i == window.at
      r == Run(apps, k, i, word, MaxDepth)
  IN /\ Counted /\ i \in Slots(apps, k)
     /\ apps.slot[k][i].moves < MaxMoves \/ word = "reset"
     /\ apps' = [r EXCEPT !.raw = <<>>, !.out = <<>>]
     /\ views' = [views EXCEPT ![k][i] = apps.slot[k][i].file]
     /\ told' = "input" /\ UNCHANGED <<files, window>>

\* The words of a game, and any other text.
Words == DOMAIN Dirs \cup {"reset", "none"}
Commands ==
  LET c == [do : {"reload"}, kind : {"sys"}, at : {0}, file : {""}]
  IN c \cup [do : {"load"}, kind : {"sys"}, at : {0}, file : Files]
       \cup [do : {"list"}, kind : Kinds, at : {0}, file : {""}]
       \cup [do : {"run"}, kind : Kinds, at : 1 .. AppMax, file : {""}]

Next ==
  \/ \E f \in Files, v \in DOMAIN Versions : WriteFile(f, v)
  \/ \E c \in Commands : Command(c)
  \/ \E n \in DOMAIN apps.items : Open(n)
  \/ \E word \in Words : Input(word)

Spec == Init /\ [][Next]_vars

\* ----------------------------- the expressions -------------------------------

(* The arithmetic of a program in C (c_factor, c_term, c_expr): recursive  *)
(* descent over the text, here over its tokens; each returns the value and *)
(* the place after what it read.                                           *)

Token(t, n) == [t |-> t, n |-> n]
TokenAt(e, p) == IF p <= Len(e) THEN e[p].t ELSE "end"

\* C divides towards zero; a division by zero leaves the dividend.
Quotient(a, b) ==
  LET Abs(x) == IF x < 0 THEN -x ELSE x
      q == Abs(a) \div Abs(b)
  IN IF (a < 0) = (b < 0) THEN q ELSE -q
Divide(a, b) == IF b = 0 THEN a ELSE Quotient(a, b)
Remainder(a, b) == IF b = 0 THEN a ELSE a - b * Quotient(a, b)

RECURSIVE CExpr(_, _), CMoreTerms(_, _, _), CTerm(_, _), CMoreFactors(_, _, _), CFactor(_, _)

\* A bug to catch: what follows a minus is read to the end of the text first.
CRightFirst(e, p, v) ==
  LET r == CExpr(e, p + 1) IN
  CASE TokenAt(e, p) = "+" -> CMoreTerms(e, r.p, v + r.v)
    [] TokenAt(e, p) = "-" -> CMoreTerms(e, r.p, v - r.v)
    [] OTHER -> [v |-> v, p |-> p]

CFactor(e, p) ==
  LET neg == TokenAt(e, p) = "-"
      q == IF neg THEN p + 1 ELSE p
      Signed(v) == IF neg THEN -v ELSE v
      inner == CExpr(e, q + 1)
  IN CASE TokenAt(e, q) = "(" -> [v |-> Signed(inner.v), p |-> IF TokenAt(e, inner.p) = ")" THEN inner.p + 1 ELSE inner.p]
       [] TokenAt(e, q) = "n" -> [v |-> Signed(e[q].n), p |-> q + 1]
       [] OTHER -> [v |-> 0, p |-> q]

CMoreFactors(e, p, v) ==
  LET r == CFactor(e, p + 1) IN
  CASE TokenAt(e, p) = "*" -> CMoreFactors(e, r.p, v * r.v)
    [] TokenAt(e, p) = "/" -> CMoreFactors(e, r.p, Divide(v, r.v))
    [] TokenAt(e, p) = "%" -> CMoreFactors(e, r.p, Remainder(v, r.v))
    [] OTHER -> [v |-> v, p |-> p]

CTerm(e, p) == LET f == CFactor(e, p) IN CMoreFactors(e, f.p, f.v)

CMoreTerms(e, p, v) ==
  LET r == CTerm(e, p + 1) IN
  CASE TokenAt(e, p) = "+" -> CMoreTerms(e, r.p, v + r.v)
    [] TokenAt(e, p) = "-" -> CMoreTerms(e, r.p, v - r.v)
    [] OTHER -> [v |-> v, p |-> p]

CExpr(e, p) == LET t == CTerm(e, p) IN CMoreTerms(e, t.p, t.v)

\* What an expression means: a tree of <<operator, left, right>> and the text
\* C needs for it, with parentheses only where precedence asks for them.
Leaf(n) == [op |-> "n", n |-> n, sub |-> <<>>]
Tree(op, x, y) == [op |-> op, n |-> 0, sub |-> <<x, y>>]
Minus(x) == [op |-> "neg", n |-> 0, sub |-> <<x>>]
Strength(t) == CASE t.op \in {"+", "-"} -> 1 [] t.op \in {"*", "/", "%"} -> 2 [] t.op = "neg" -> 3 [] OTHER -> 4

RECURSIVE Meaning(_), Written(_)
Meaning(t) ==
  CASE t.op = "n" -> t.n
    [] t.op = "neg" -> -Meaning(t.sub[1])
    [] t.op = "+" -> Meaning(t.sub[1]) + Meaning(t.sub[2])
    [] t.op = "-" -> Meaning(t.sub[1]) - Meaning(t.sub[2])
    [] t.op = "*" -> Meaning(t.sub[1]) * Meaning(t.sub[2])
    [] t.op = "/" -> Divide(Meaning(t.sub[1]), Meaning(t.sub[2]))
    [] t.op = "%" -> Remainder(Meaning(t.sub[1]), Meaning(t.sub[2]))
Written(t) ==
  LET Wrapped(x, least) == IF Strength(x) >= least THEN Written(x)
                           ELSE <<Token("(", 0)>> \o Written(x) \o <<Token(")", 0)>>
  IN CASE t.op = "n" -> <<Token("n", t.n)>>
       [] t.op = "neg" -> <<Token("-", 0)>> \o Wrapped(t.sub[1], 4)
       [] OTHER -> Wrapped(t.sub[1], Strength(t)) \o <<Token(t.op, 0)>> \o Wrapped(t.sub[2], Strength(t) + 1)

\* The trees over some numbers, and over some trees.
Over(S) == {Tree(op, x, y) : op \in {"+", "-", "*", "/", "%"}, x \in S, y \in S} \cup {Minus(x) : x \in S}

\* -------------------------------- properties ---------------------------------

\* The player of every game stays on the board, is never moved into a wall,
\* and has won exactly when a move since the last reset led to the goal: the
\* board of a file may have any shape (normalize_game, sysrxe_game_run).
GameIsFair ==
  \A k \in Kinds : \A i \in Slots(apps, k) : LET a == apps.slot[k][i] IN
    a.type = "game" =>
      /\ OnBoard(a, a.at) /\ OnBoard(a, a.goal)
      /\ a.moves > 0 /\ a.at # a.start => Cell(a, a.at) # "#"
      /\ a.won => a.moves > 0 /\ a.wins > 0
      /\ a.at = a.goal /\ a.moves > 0 => a.won

\* No file is in a table twice, whatever was loaded, reloaded and run in
\* between, also by programs; and after `reload` the tables hold the program
\* files in the order of the file list, every launcher of a place that is
\* taken shows what is there, and every application that asks for one has one
\* while there is room (sysrxe_load_file, gui_reload_sysrxe_apps).
AppsAreFiles ==
  /\ \A k \in Kinds : \A i, j \in Slots(apps, k) : apps.slot[k][i].file = apps.slot[k][j].file => i = j
  /\ told = "reload" =>
       /\ \A k \in Kinds :
            LET good == SelectSeq(FileOrder, LAMBDA f : KindOf[f] = k /\ HasMagic(Versions[files[f]]))
            IN [i \in 1 .. apps.count[k] |-> apps.slot[k][i].file] = SubSeq(good, 1, apps.count[k])
                 /\ (apps.count[k] = AppMax \/ apps.count[k] = Len(good))
       /\ \A n \in DOMAIN apps.items : LET it == apps.items[n] IN
            it.at \in Slots(apps, it.kind) => it.shows = apps.slot[it.kind][it.at].file
       /\ \A k \in Kinds : \A i \in Slots(apps, k) :
            apps.slot[k][i].desktop /\ Len(apps.items) < ItemMax =>
              \E n \in DOMAIN apps.items : apps.items[n].kind = k /\ apps.items[n].at = i

\* A program's text in C means what C means by it, for the trees of T
\* (c_expr, c_term, c_factor).
ExpressionMeans(t) == LET e == Written(t) IN CExpr(e, 1) = [v |-> Meaning(t), p |-> Len(e) + 1]

\* What the code does not keep, each with a run of its own: a program that
\* reloads the tables, or runs another program, gives its widgets to another
\* application; a window shows the text of the file it was opened with when
\* its place means another application; a launcher shows an application that
\* is not the one a later `load` put in its place.
KitIsOwn == \A k \in Kinds : \A i \in Slots(apps, k) : \A w \in Range(apps.slot[k][i].ui) : w.by = apps.slot[k][i].file
ShownIsTheirs ==
  LET i == window.at IN
  i \in Slots(apps, window.kind) => views[window.kind][i] \in {"", apps.slot[window.kind][i].file}
LaunchersAreTheirs ==
  \A n \in DOMAIN apps.items : LET it == apps.items[n] IN
    it.at \in Slots(apps, it.kind) => it.shows = apps.slot[it.kind][it.at].file

=============================================================================
