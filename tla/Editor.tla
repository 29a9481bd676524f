-------------------------------- MODULE Editor --------------------------------
(***************************************************************************)
(* The line editor lemamd of lsh.c, which edits a file by commands, the    *)
(* clips it takes lines to and from (megaclip.c), and the pinned clips     *)
(* that live in the document megaclip.lardd.                               *)
(*                                                                         *)
(* A text is a sequence of characters, LF one of them; a position is the   *)
(* number of characters before it, as in the code.  Kinds, labels and      *)
(* counters of clips are left out, and so are views, which only print.     *)
(***************************************************************************)
EXTENDS Integers, Sequences, FiniteSets, SequencesExt

CONSTANTS
  Commands,   \* what may be typed after lemamd
  Words,      \* texts without LF that may be copied or pinned from the shell
  Blobs,      \* what files that may be copied hold
  FirstTexts, \* what the file may hold at first
  FileMax,    \* the room of the file
  BufMax,     \* LEMAMD_BUF_CAP
  ClipMax,    \* MEGACLIP_DATA_MAX
  WordSize,   \* 2^32: the width of a line number
  Slots,      \* MEGACLIP_SLOTS
  Pins,       \* MEGACLIP_PIN_SLOTS
  DocMax,     \* MEGACLIP_DOC_CAP less the fixed text
  LineHead,       \* what a line of the document takes beside its data
  ConfMax,    \* LEMAMD_CAP, in entries
  DepthMax,   \* how deep a macro may nest: 3
  SeqMax      \* bound on the clips taken

EditorAssumption ==
  /\ {FileMax, BufMax, ClipMax, DocMax, ConfMax, DepthMax, SeqMax} \subseteq Nat
  /\ Slots \in Nat \ {0} /\ Pins \in Nat /\ LineHead \in Nat \ {0}
  /\ WordSize > BufMax + 1

VARIABLES
  file, cursor,  \* the file's text, s_lemamd_cursor
  conf,          \* lemamd.lardd: macros, and lines that say the mode
  slots, mode, seq,
  pins, doc,     \* s_pins, and the lines of megaclip.lardd that were written
  latest         \* history: the text of the last clip taken since a clear

vars == <<file, cursor, conf, slots, mode, seq, pins, doc, latest>>
clips == <<slots, mode, seq, latest>>
pinned == <<pins, doc>>

LF == "lf"
Space == " "
Free == [free |-> TRUE]
Upto(s, n) == SubSeq(s, 1, IF Len(s) < n THEN Len(s) ELSE n)

\* ---------------------------------- clips ---------------------------------

Used(k) == slots[k] # Free
Clip(data) == [seq |-> seq + 1, data |-> Upto(data, ClipMax)]

Oldest == CHOOSE k \in 1..Slots : Used(k) /\ \A i \in 1..Slots : Used(i) => slots[k].seq <= slots[i].seq
\* A bug to catch: the first slot is taken for the newest clip.
FirstUsed == CHOOSE k \in 1..Slots : Used(k) /\ \A i \in 1..(k - 1) : ~Used(i)
Newest == CHOOSE k \in 1..Slots : Used(k) /\ \A i \in 1..Slots : Used(i) => slots[i].seq <= slots[k].seq

\* The empty slot with the least number, or else the oldest clip's.
Replaced ==
  IF \A k \in 1..Slots : Used(k) THEN Oldest
  ELSE CHOOSE k \in 1..Slots : ~Used(k) /\ \A i \in 1..(k - 1) : Used(i)

Push(data) ==
  /\ seq < SeqMax
  /\ slots' = CASE mode = "stack" -> <<Clip(data)>> \o SubSeq(slots, 1, Slots - 1)
                [] mode = "single" -> [k \in 1..Slots |-> IF k = 1 THEN Clip(data) ELSE Free]
                [] mode = "order" -> [slots EXCEPT ![Replaced] = Clip(data)]
  /\ seq' = seq + 1
  /\ latest' = [data |-> Upto(data, ClipMax)]
  /\ UNCHANGED mode

\* megaclip_pull: slot n as the mode shows them, 0 if there is none.
InOrder == SetToSortSeq({k \in 1..Slots : Used(k)}, LAMBDA i, j : slots[i].seq < slots[j].seq)
View(n) ==
  CASE mode = "single" -> IF n = 1 /\ Used(1) THEN 1 ELSE 0
    [] mode = "order" -> IF n \in DOMAIN InOrder THEN InOrder[n] ELSE 0
    [] mode = "stack" -> IF n \in 1..Slots /\ Used(n) THEN n ELSE 0

\* Which slot a command without (0) or with a number means; megaclip_pull_latest.
Wanted(n) == IF n > 0 THEN View(n) ELSE IF \E k \in 1..Slots : Used(k) THEN Newest ELSE 0

SetMode(m) == mode' = m /\ UNCHANGED <<file, cursor, conf, slots, seq, latest, pinned>>
Copy(w) == Push(w) /\ UNCHANGED <<file, cursor, conf, pinned>>
Clear ==
  /\ slots' = [k \in 1..Slots |-> Free]
  /\ latest' = Free
  /\ UNCHANGED <<file, cursor, conf, mode, seq, pinned>>

\* ------------------------------- pinned clips ------------------------------

\* pin_data_plain_safe: nothing but printable characters.
Plain(data) == LF \notin ToSet(data)

\* A bug to catch: the data of a pin is always written as it is.
PlainLine(k, data, room) ==
  [pin |-> k, hex |-> FALSE, data |-> Upto(SelectSeq(data, LAMBDA c : c # LF), IF room < LineHead THEN 0 ELSE room - LineHead)]

\* A line of the document in the room that is left; a pair of digits is whole.
PinLine(k, data, room) ==
  LET left == IF room < LineHead THEN 0 ELSE room - LineHead
  IN [pin |-> k, hex |-> ~Plain(data),
      data |-> Upto(data, IF Plain(data) THEN left ELSE left \div 2)]

Size(data) == LineHead + (IF Plain(data) THEN 1 ELSE 2) * Len(data)

\* megaclip_save_pins_doc: what does not fit is left out, and nothing fails.
Saved(ps) ==
  LET add(acc, k) ==
        IF ps[k] = Free \/ acc.room = 0 THEN acc
        ELSE [room |-> IF Size(ps[k].data) < acc.room THEN acc.room - Size(ps[k].data) ELSE 0,
              lines |-> Append(acc.lines, PinLine(k, ps[k].data, acc.room))]
  IN FoldLeft(add, [room |-> DocMax, lines |-> <<>>], [k \in 1..Pins |-> k]).lines

\* load_pin_line takes the spaces around the data of a plain line away.
Trimmed(data) ==
  LET ink == {i \in DOMAIN data : data[i] # Space}
  IN IF ink = {} THEN <<>>
     ELSE SubSeq(data, CHOOSE i \in ink : \A j \in ink : i <= j,
                       CHOOSE i \in ink : \A j \in ink : j <= i)

Loaded(lines) ==
  [k \in 1..Pins |->
     IF \E i \in DOMAIN lines : lines[i].pin = k
     THEN LET ln == lines[CHOOSE i \in DOMAIN lines : lines[i].pin = k]
          IN [data |-> IF ln.hex THEN ln.data ELSE Trimmed(ln.data)]
     ELSE Free]

SetPins(ps) ==
  /\ pins' = ps
  /\ doc' = Saved(ps)
  /\ UNCHANGED <<file, cursor, conf, clips>>

PinSet(k, w) == SetPins([pins EXCEPT ![k] = [data |-> Upto(w, ClipMax)]])
PinFrom(k, n) == Wanted(n) > 0 /\ SetPins([pins EXCEPT ![k] = [data |-> slots[Wanted(n)].data]])
PinClear(k) == SetPins([pins EXCEPT ![k] = Free])
PinReload == pins' = Loaded(doc) /\ UNCHANGED <<file, cursor, conf, clips, doc>>

\* ------------------------------ lines of a text ----------------------------

Ends(b) == {i \in DOMAIN b : b[i] = LF}
LineCount(b) == IF b = <<>> THEN 0 ELSE 1 + Cardinality(Ends(b) \ {Len(b)})

LineStart(b, n) ==
  IF n <= 1 THEN 0
  ELSE IF Cardinality(Ends(b)) < n - 1 THEN Len(b)
  ELSE CHOOSE i \in Ends(b) : Cardinality({j \in Ends(b) : j <= i}) = n - 1

ClampCursor(c, b) ==
  IF c = 0 THEN 1 ELSE IF b # <<>> /\ c > LineCount(b) THEN LineCount(b) ELSE c

HasLine(b, n, count) == count > 0 /\ n \in 1..LineCount(b)
From(b, n) == LineStart(b, n)
To(b, n, count) ==
  LET to == LineStart(b, (n + count) % WordSize)
  IN IF to < From(b, n) THEN Len(b) ELSE to
Sliced(b, n, count) == SubSeq(b, From(b, n) + 1, To(b, n, count))
Cut(b, n, count) == SubSeq(b, 1, From(b, n)) \o SubSeq(b, To(b, n, count) + 1, Len(b))

\* What lemamd_insert_bytes is given: the position, and a LF before or after.
Put(b, pos, t, before, after) ==
  SubSeq(b, 1, pos) \o (IF before THEN <<LF>> ELSE <<>>) \o t
    \o (IF after THEN <<LF>> ELSE <<>>) \o SubSeq(b, pos + 1, Len(b))

\* A bug to catch: a line is put after a last one that has no LF.
NeverUnended(b, pos) == FALSE
Unended(b, pos) == pos = Len(b) /\ b # <<>> /\ Last(b) # LF

InsertLine(b, n, w) == Put(b, LineStart(b, n), w, FALSE, TRUE)
AppendLine(b, n, w) ==
  LET pos == LineStart(b, n + 1) IN Put(b, pos, w, Unended(b, pos), TRUE)

Matches(b, i, old) == i + Len(old) - 1 <= Len(b) /\ SubSeq(b, i, i + Len(old) - 1) = old
Substituted(b, old, new) ==
  LET from[i \in 1..(Len(b) + Len(old))] ==
        IF i > Len(b) THEN <<>>
        ELSE IF Matches(b, i, old) THEN new \o from[i + Len(old)]
        ELSE <<b[i]>> \o from[i + 1]
  IN from[1]

\* ------------------------------- lemamd edits ------------------------------

\* The edit of `c` with the cursor at k: whether it can be done, the text, the
\* cursor it leaves behind, done or not.
Edited(c, b, k) ==
  CASE c.op = "i" -> [ok |-> TRUE, text |-> InsertLine(b, k, c.word), cursor |-> k]
    [] c.op = "a" -> [ok |-> TRUE, text |-> AppendLine(b, k, c.word), cursor |-> k + 1]
    [] c.op = "dd" ->
         IF HasLine(b, k, c.count)
         THEN [ok |-> TRUE, text |-> Cut(b, k, c.count), cursor |-> ClampCursor(k, Cut(b, k, c.count))]
         ELSE [ok |-> FALSE, text |-> b, cursor |-> k]
    [] c.op = "r" ->
         LET n == IF c.line = 0 THEN k ELSE c.line
         IN IF HasLine(b, n, 1)
            THEN [ok |-> TRUE, text |-> Put(Cut(b, n, 1), From(b, n), c.word, FALSE, TRUE), cursor |-> n]
            ELSE [ok |-> TRUE, text |-> AppendLine(b, LineCount(b) + 1, c.word), cursor |-> n]
    [] c.op = "s" -> [ok |-> TRUE, text |-> Substituted(b, c.old, c.new), cursor |-> k]
    [] c.op = "p" ->
         IF Wanted(c.slot) > 0
         THEN LET t == slots[Wanted(c.slot)].data
                  pos == LineStart(b, k + 1)
              IN [ok |-> TRUE, cursor |-> k + 1,
                  text |-> Put(b, pos, t, Unended(b, pos), t = <<>> \/ Last(t) # LF)]
         ELSE [ok |-> FALSE, text |-> b, cursor |-> k]

Edits == {"i", "a", "dd", "r", "s", "p"}

\* Too long for the buffer: nothing is done, but a replace has moved the cursor.
Fitting(r, c, b, k) ==
  IF Len(r.text) + 1 <= BufMax THEN r
  ELSE [ok |-> FALSE, text |-> b,
        cursor |-> IF c.op = "r" /\ ~HasLine(b, IF c.line = 0 THEN k ELSE c.line, 1)
                   THEN LineCount(b) + 1 ELSE k]

Edit(c) ==
  /\ Len(file) + 1 <= BufMax
  /\ LET k == ClampCursor(cursor, file)
         r == Fitting(Edited(c, file, k), c, file, k)
         written == r.ok /\ Len(r.text) <= FileMax
     IN /\ file' = IF written THEN r.text ELSE file
        /\ cursor' = IF written THEN ClampCursor(r.cursor, r.text) ELSE r.cursor
        /\ IF c.op = "dd" /\ r.ok THEN Push(Sliced(file, k, c.count)) ELSE UNCHANGED clips
  /\ UNCHANGED <<conf, pinned>>

Goto(n) ==
  /\ cursor' = IF Len(file) + 1 <= BufMax THEN ClampCursor(n, file) ELSE n
  /\ UNCHANGED <<file, conf, clips, pinned>>

New == file' = <<>> /\ cursor' = 1 /\ UNCHANGED <<conf, clips, pinned>>

\* The cursor is not brought back to the text first.
Yank(count) ==
  LET n == IF count = 0 THEN 1 ELSE count
  IN /\ Len(file) + 1 <= BufMax /\ HasLine(file, cursor, n)
     /\ Push(Sliced(file, cursor, n))
     /\ UNCHANGED <<file, cursor, conf, pinned>>

\* lemamd_config_append, lemamd_macro_append: while there is room, to the end.
Note(entry) ==
  /\ Len(conf) < ConfMax
  /\ conf' = Append(conf, entry)
  /\ UNCHANGED <<file, cursor, clips, pinned>>

Nothing == [op |-> "nothing"]
\* lemamd_macro_find: the last line with the name.
Macro(name) ==
  LET at == {i \in DOMAIN conf : conf[i].name = name}
  IN IF at = {} THEN Nothing ELSE conf[CHOOSE i \in at : \A j \in at : j <= i].command

\* A macro is one command, which may be a macro again.
Meant(c) ==
  LET step(d, depth) ==
        IF d.op # "runmacro" THEN d
        ELSE IF depth > DepthMax THEN Nothing ELSE Macro(d.name)
  IN FoldLeft(step, c, [i \in 1..(DepthMax + 2) |-> i - 1])

Do(c) ==
  \/ c.op \in Edits /\ Edit(c)
  \/ c.op = "goto" /\ Goto(c.line)
  \/ c.op = "new" /\ New
  \/ c.op = "yy" /\ Yank(c.count)
  \/ c.op = "mode" /\ Note([name |-> "", command |-> Nothing])
  \/ c.op = "macro" /\ Note([name |-> c.name, command |-> c.command])

Lemamd(c) == Do(Meant(c))

Init ==
  /\ file \in FirstTexts
  /\ cursor = 1
  /\ conf = <<>>
  /\ slots = [k \in 1..Slots |-> Free]
  /\ mode = "stack"
  /\ seq = 0
  /\ pins = [k \in 1..Pins |-> Free]
  /\ doc = <<>>
  /\ latest = Free

\* cmd_pinclip, and the same subcommands of cmd_megaclip
CmdPinclip ==
  \/ \E k \in 1..Pins :
       \/ \E w \in Words : PinSet(k, w)
       \/ \E n \in 0..Slots : PinFrom(k, n)
       \/ PinClear(k)
  \/ PinReload

\* cmd_megaclip
CmdMegaclip ==
  \/ \E m \in {"stack", "single", "order"} : SetMode(m)
  \/ \E w \in Words \cup Blobs : Copy(w)
  \/ Clear
  \/ CmdPinclip

Next ==
  \/ \E c \in Commands : Lemamd(c)
  \/ CmdMegaclip

Spec == Init /\ [][Next]_vars

TypeOK ==
  /\ Len(file) <= FileMax /\ cursor \in Nat
  /\ Len(slots) = Slots /\ seq \in 0..SeqMax /\ mode \in {"stack", "single", "order"}
  /\ DOMAIN pins = 1..Pins /\ Len(doc) <= Pins

\* Whatever the modes were, a paste without a number gives what was copied last,
\* until the clips are cleared.
LatestIsLatest ==
  IF latest = Free THEN \A k \in 1..Slots : ~Used(k)
  ELSE Wanted(0) > 0 /\ slots[Wanted(0)].data = latest.data

\* A pin that the document has room for, and that has no space at either end,
\* comes back from the document as it was.
FitsDoc == FoldLeft(LAMBDA n, k : n + (IF pins[k] = Free THEN 0 ELSE Size(pins[k].data)),
                    0, [k \in 1..Pins |-> k]) <= DocMax
PinsSurvive ==
  FitsDoc => \A k \in 1..Pins :
               pins[k] # Free /\ (Plain(pins[k].data) => Trimmed(pins[k].data) = pins[k].data)
                 => Loaded(doc)[k] = pins[k]

\* ------------------------- what the edits mean, by lines --------------------

LinesOf(b) ==
  [n \in 1..LineCount(b) |->
     SelectSeq(SubSeq(b, LineStart(b, n) + 1, LineStart(b, n + 1)), LAMBDA ch : ch # LF)]

\* The lines after an edit; a slot without an end of line is ended.
ByLine(c, L, k) ==
  LET n == IF c.op = "r" /\ c.line > 0 THEN c.line ELSE k
      at == IF n > Len(L) THEN Len(L) ELSE n
      before(i) == SubSeq(L, 1, i)
      after(i) == SubSeq(L, i + 1, Len(L))
  IN CASE c.op = "i" -> before(IF L = <<>> THEN 0 ELSE at - 1) \o <<c.word>> \o after(IF L = <<>> THEN 0 ELSE at - 1)
       [] c.op = "a" -> before(at) \o <<c.word>> \o after(at)
       [] c.op = "dd" -> before(k - 1) \o after(k + c.count - 1)
       [] c.op = "r" -> IF n \in DOMAIN L THEN [L EXCEPT ![n] = c.word] ELSE Append(L, c.word)
       [] c.op = "p" -> LET t == slots[Wanted(c.slot)].data
                        IN before(at) \o LinesOf(IF t = <<>> \/ Last(t) # LF THEN Append(t, LF) ELSE t) \o after(at)

\* An edit that changes the file changes its lines as it says: it takes or puts
\* whole lines and joins none, whether the last line has an end or not.
EditsLines ==
  [][\A c \in Commands :
       /\ file' # file
       /\ c.op \in Edits \ {"s"}
       /\ c.op = "dd" => cursor + c.count < WordSize
       /\ Edit(c)
       => LinesOf(file') = ByLine(c, LinesOf(file), ClampCursor(cursor, file))]_vars
=============================================================================
