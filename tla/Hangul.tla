------------------------------- MODULE Hangul -------------------------------
(***************************************************************************)
(* The Hangul input of gui.c: each letter key adds a jamo to the syllable  *)
(* before the cursor, or takes its last consonant away for the next one.   *)
(*                                                                         *)
(* A cell is a character of the line: a syllable of an initial l, a vowel v*)
(* and a final t (0: none), a jamo alone (l or v is -1) or a plain letter, *)
(* which one being left out.                                               *)
(* The numbers are those of the tables of gui.c.  A cell of Hangul has     *)
(* three bytes in the buffer.                                              *)
(***************************************************************************)
EXTENDS Integers, SequencesExt

CONSTANTS
  Initials, Vowels,   \* the keys typed: numbers of hangul_key_l, hangul_key_v
  Cap                 \* sizeof(g.tb)

None == -1
Cell(l, v, t) == [l |-> l, v |-> v, t |-> t, plain |-> FALSE]
Letter == [l |-> None, v |-> None, t |-> 0, plain |-> TRUE]

VARIABLES
  text, cur,      \* the line being edited, and the cells before its cursor
  input,          \* g.hangul_input
  active,         \* g.hangul_active
  jamo,           \* g.hangul_l, g.hangul_v, g.hangul_t as a cell
  at              \* g.hangul_start: the cell being composed

vars == <<text, cur, input, active, jamo, at>>

Bytes(s) == FoldLeft(LAMBDA n, c : n + (IF c.plain THEN 1 ELSE 3), 0, s)

\* hangul_l_to_t, hangul_t_to_l, hangul_combine_v and hangul_combine_t.
LToT == <<1, 2, 4, 7, 0, 8, 16, 17, 0, 19, 20, 21, 22, 0, 23, 24, 25, 26, 27>>
TToL == <<0, 1, 9, 2, 12, 18, 3, 5, 0, 6, 7, 9, 16, 17, 18, 6, 7, 9, 9, 10, 11, 12, 14, 15, 16, 17, 18>>
VPairs == {<<8, 0, 9>>, <<8, 1, 10>>, <<8, 20, 11>>, <<13, 4, 14>>, <<13, 5, 15>>, <<13, 20, 16>>, <<18, 20, 19>>}
TPairs == {<<1, 19, 3>>, <<4, 22, 5>>, <<4, 27, 6>>, <<8, 1, 9>>, <<8, 16, 10>>, <<8, 17, 11>>,
           <<8, 19, 12>>, <<8, 25, 13>>, <<8, 26, 14>>, <<8, 27, 15>>, <<17, 19, 18>>}
Combined(pairs, a, b) ==
  IF \E p \in pairs : p[1] = a /\ p[2] = b
    THEN (CHOOSE p \in pairs : p[1] = a /\ p[2] = b)[3] ELSE None

\* A bug to catch: the whole final is given away.
SplitAll(t) == [stays |-> 0, goes |-> TToL[t]]

\* hangul_split_t: what stays of the final, and the initial it gives away.
Split(t) ==
  IF \E p \in TPairs : p[3] = t
    THEN LET p == CHOOSE q \in TPairs : q[3] = t IN [stays |-> p[1], goes |-> TToL[p[2]]]
    ELSE [stays |-> 0, goes |-> TToL[t]]

-----------------------------------------------------------------------------
(* The buffer. *)

Fits(cell) == Bytes(text) + Bytes(<<cell>>) < Cap

\* gui_edit_insert_bytes at the cursor.
Inserted(s, c, cell) == InsertAt(s, c + 1, cell)

Cleared == active' = FALSE /\ jamo' = Cell(None, None, 0) /\ at' = 0

\* A key that could not be taken as Hangul goes in as the letter it is.
AsLetter ==
  /\ IF Fits(Letter) THEN text' = Inserted(text, cur, Letter) /\ cur' = cur + 1
                     ELSE UNCHANGED <<text, cur>>
  /\ Cleared

\* gui_hangul_replace_active, the syllable still before the cursor or not.
Compose(cell, continues) ==
  IF continues
    THEN text' = [text EXCEPT ![at] = cell] /\ jamo' = cell /\ active' = TRUE /\ UNCHANGED <<cur, at>>
  ELSE IF Fits(cell)
    THEN /\ text' = Inserted(text, cur, cell) /\ cur' = cur + 1
         /\ jamo' = cell /\ active' = TRUE /\ at' = cur'
  ELSE AsLetter

\* The syllable is left as soon as the cursor is not right after it.
Continues == active /\ at = cur /\ cur <= Len(text)

TypeInitial(l) ==
  LET t == LToT[l + 1]
      whole == Continues /\ jamo.l >= 0 /\ jamo.v >= 0 /\ t > 0
      final == IF jamo.t = 0 THEN t ELSE Combined(TPairs, jamo.t, t)
  IN  IF whole /\ final > 0
        THEN Compose([jamo EXCEPT !.t = final], TRUE)
        ELSE Compose(Cell(l, None, 0), FALSE)

\* The final of the syllable becomes the initial of the next one.  The first
\* half is done before there is known to be room for the second.
SplitBy(v) ==
  LET split == Split(jamo.t)
      kept  == [jamo EXCEPT !.t = split.stays]
      next  == Cell(split.goes, v, 0)
  IN  IF Fits(next)
        THEN /\ text' = Inserted([text EXCEPT ![at] = kept], cur, next) /\ cur' = cur + 1
             /\ jamo' = next /\ at' = at + 1 /\ active' = TRUE
        ELSE Compose(Cell(None, v, 0), TRUE)

TypeVowel(v) ==
  LET both == Combined(VPairs, jamo.v, v)
  IN  IF Continues /\ jamo.l >= 0 /\ jamo.v < 0 THEN Compose([jamo EXCEPT !.v = v], TRUE)
      ELSE IF Continues /\ jamo.l >= 0 /\ jamo.t = 0 /\ both >= 0
        THEN Compose([jamo EXCEPT !.v = both], TRUE)
      ELSE IF Continues /\ jamo.l >= 0 /\ jamo.t > 0 THEN SplitBy(v)
      ELSE IF Continues /\ jamo.l < 0 /\ both >= 0 THEN Compose([jamo EXCEPT !.v = both], TRUE)
      ELSE Compose(Cell(None, v, 0), Continues /\ jamo.l >= 0)

TypeKey(l, v) ==
  /\ IF ~input THEN AsLetter ELSE IF l >= 0 THEN TypeInitial(l) ELSE TypeVowel(v)
  /\ UNCHANGED input

-----------------------------------------------------------------------------
(* Other keys: all of them leave the syllable as it is. *)

Backspace ==
  /\ cur > 0 /\ text' = RemoveAt(text, cur) /\ cur' = cur - 1 /\ Cleared /\ UNCHANGED input

Delete ==
  /\ text' = IF cur < Len(text) THEN RemoveAt(text, cur + 1) ELSE text
  /\ Cleared /\ UNCHANGED <<cur, input>>

MoveTo(c) == c # cur /\ cur' = c /\ Cleared /\ UNCHANGED <<text, input>>

\* gui_hangul_input_toggle, Ctrl+H
Toggle == input' = ~input /\ Cleared /\ UNCHANGED <<text, cur>>

Keys == {<<l, None>> : l \in Initials} \cup {<<None, v>> : v \in Vowels}

Init ==
  /\ text = <<>> /\ cur = 0 /\ input = FALSE
  /\ active = FALSE /\ jamo = Cell(None, None, 0) /\ at = 0

Next ==
  \/ \E k \in Keys : TypeKey(k[1], k[2])
  \/ Backspace \/ Delete \/ Toggle
  \/ \E c \in 0 .. Len(text) : MoveTo(c)

Spec == Init /\ [][Next]_vars

-----------------------------------------------------------------------------
\* A syllable taken apart: the keys that spell it.
Parts(pairs, a) ==
  IF \E p \in pairs : p[3] = a
    THEN LET p == CHOOSE q \in pairs : q[3] = a IN <<p[1], p[2]>> ELSE <<a>>
Spell(cell) ==
  (IF cell.plain THEN << <<None, None>> >> ELSE <<>>)
  \o (IF cell.l >= 0 THEN << <<cell.l, None>> >> ELSE <<>>)
  \o (IF cell.v >= 0 THEN [i \in DOMAIN Parts(VPairs, cell.v) |-> <<None, Parts(VPairs, cell.v)[i]>>] ELSE <<>>)
  \o (IF cell.t > 0 THEN [i \in DOMAIN Parts(TPairs, cell.t) |-> <<TToL[Parts(TPairs, cell.t)[i]], None>>] ELSE <<>>)
Spelling(s) == FoldLeft(LAMBDA k, c : k \o Spell(c), <<>>, s)

\* The cursor is in the line, and what is composed is the cell before it.
TypeOK ==
  /\ cur \in 0 .. Len(text) /\ Bytes(text) < Cap /\ input \in BOOLEAN
  /\ active => at \in 1 .. Len(text) /\ text[at] = jamo

\* What a key should do: it adds itself at the cursor and nothing else changes.
AddsItself(k) ==
  Spelling(text') = Spelling(SubSeq(text, 1, cur)) \o <<k>> \o Spelling(SubSeq(text, cur + 1, Len(text)))

\* os/README.md:94-97 announces a 2-beolsik input: however jamo are joined and
\* split, the line spells the keys that were typed, as long as there is room.
KeysAreKept ==
  [][\A k \in Keys : TypeKey(k[1], k[2]) /\ input /\ Bytes(text) + 3 < Cap => AddsItself(k)]_vars

\* A vowel after a syllable without final that does not combine with its vowel:
\* the one case in which the syllable is replaced.
Replaces(k) ==
  k[2] >= 0 /\ Continues /\ jamo.l >= 0 /\ jamo.v >= 0 /\ jamo.t = 0 /\ Combined(VPairs, jamo.v, k[2]) < 0

\* Otherwise the line spells the keys: consonants that become finals, pairs of
\* them, and finals that go on to the next syllable, wherever the cursor has been.
FinalsAreKept ==
  [][\A k \in Keys :
       TypeKey(k[1], k[2]) /\ input /\ ~Replaces(k) /\ Bytes(text) + 3 < Cap => AddsItself(k)]_vars
=============================================================================
