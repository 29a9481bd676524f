------------------------------- MODULE Archives --------------------------------
(***************************************************************************)
(* What comes in one file: LAR archives (lar.c), LardPack packages         *)
(* (lpack.c) and programs for the machines of LHA (lha.c), with the        *)
(* commands lar, lpack and lha of lsh.c and the extractor of the desktop.  *)
(*                                                                         *)
(* A file is a sequence of cells.  The head of an archive, an entry of its *)
(* directory with the name, and the head of a protected member are a cell  *)
(* each, as is a line of a package or program and a byte of anything else. *)
(* The key stream is a term: Xor with the same key at the same place gives *)
(* the cell back, with another it gives a cell nobody wrote, so the CRC of *)
(* lar.c is the cells themselves.                                          *)
(***************************************************************************)
EXTENDS Integers, Sequences, SequencesExt, FiniteSets, FiniteSetsExt

CONSTANTS
  Given,      \* the files that are there and read-only: name -> cells
  Caps,       \* the writable files: name -> cells that fit
  Spare,      \* the names a spare slot may get
  SpareMax,   \* the spare slots
  Words,      \* what users write into files
  Members,    \* names of members; "" and "bad" are none
  Passwords,  \* passwords; "" is none
  UndoFiles,  \* LPACK_UNDO_MAX_FILES
  UndoCells,  \* LPACK_UNDO_BYTES_MAX
  VmMax,      \* LHA_VM_MAX
  ProgramMax, \* LHA_PROGRAM_MAX, in lines
  MaxSteps    \* bound: commands of a behaviour

Extracted == "lar_extract"
Report == "lha"

ArchivesAssumption ==
  /\ {Extracted, Report} \subseteq DOMAIN Caps /\ Spare \cap (DOMAIN Caps \cup DOMAIN Given) = {}
  /\ DOMAIN Caps \cap DOMAIN Given = {}
  /\ {SpareMax, UndoFiles, UndoCells, VmMax, ProgramMax, MaxSteps} \subseteq Nat

VARIABLES
  files,    \* the writable files: name -> cells
  dirty,    \* s_fs_dirty
  undo,     \* s_lpack_undo, saved a sequence of [name, data]
  vms,      \* s_lha_slots
  \* ghosts
  disk,     \* the files when they were last saved
  scrambled, \* a refused extraction has written since
  made,     \* the protected archives as they were acknowledged
  last,     \* the last command: [did, before], before the files it found
  steps
vars == <<files, dirty, undo, vms, disk, scrambled, made, last, steps>>

Text(c) == [t |-> "text", c |-> c]
SpareCap == 6
CapOf(n) == IF n \in DOMAIN Caps THEN Caps[n] ELSE SpareCap

\* lsh_read_drive_data, lsh_doc_data_from_arg
There == DOMAIN files \cup DOMAIN Given
DataOf(n) == IF n \in DOMAIN files THEN files[n] ELSE Given[n]

\* fs_open_or_create_writable
CanHave(n) == n \in DOMAIN files \/ (n \in Spare /\ Cardinality(DOMAIN files \ DOMAIN Caps) < SpareMax)
WithFile(fs, n) == IF n \in DOMAIN fs THEN fs ELSE [m \in DOMAIN fs \cup {n} |-> IF m = n THEN <<>> ELSE fs[m]]

\* fs_write from the start of the file
Fit(n, data) == SubSeq(data, 1, IF Len(data) < CapOf(n) THEN Len(data) ELSE CapOf(n))
Put(fs, n, data) == [fs EXCEPT ![n] = Fit(n, data)]

Counted(did) == steps < MaxSteps /\ steps' = steps + 1 /\ last' = [did |-> did, before |-> files]

\* What was made stays as long as its file does.
Standing(fs) == {a \in made : a.file \in DOMAIN fs /\ fs[a.file] = files[a.file]}

-----------------------------------------------------------------------------
(* Archives *)

LarHead(count, dir) == [t |-> "lar", count |-> count, dir |-> dir]
Entry(name, method, offset, packed, unpacked) ==
  [t |-> "entry", name |-> name, method |-> method, offset |-> offset, packed |-> packed, unpacked |-> unpacked]

\* pass_stream_byte: one cell under the key stream
Xor(c, key, at) ==
  IF c.t = "xor" /\ c.key = key /\ c.at = at THEN c.c ELSE [t |-> "xor", c |-> c, key |-> key, at |-> at]
\* pass_key, with the salt that stands in the member
Key(password, name, salt) == <<password, name, salt>>

\* validate_header
ValidHeader(d) == d # <<>> /\ d[1].t = "lar" /\ 1 + d[1].dir <= Len(d)

\* What is wrong with the i-th entry of the directory: it ends before it, has
\* no name, or points behind the end of the file.
BadEntry(d, i) ==
  \/ i > d[1].dir \/ d[1 + i].name = ""
  \/ d[1 + i].offset > Len(d) \/ d[1 + i].packed > Len(d) - d[1 + i].offset

\* lar_list: every entry is sound and they are the directory
Lists(d) == ValidHeader(d) /\ d[1].count = d[1].dir /\ \A i \in 1 .. d[1].count : ~BadEntry(d, i)

Refused == [ok |-> FALSE, wrote |-> <<>>]
Scrambled(cells) == [ok |-> FALSE, wrote |-> cells]
Took(cells) == [ok |-> TRUE, wrote |-> cells]

Stored(d, e, room) ==
  IF e.packed # e.unpacked \/ room < e.unpacked THEN Refused
  ELSE Took(SubSeq(d, e.offset + 1, e.offset + e.unpacked))

\* A protected member: its cells are under the key before their CRC is looked
\* at, and in the caller's buffer already.
Opened(d, e, password) ==
  [j \in 1 .. e.unpacked |-> Xor(d[e.offset + 1 + j], Key(password, e.name, d[e.offset + 1].salt), j)]

\* A bug to catch: the CRC is not looked at.
ProtectedUnchecked(d, e, password, room) ==
  IF password = "" \/ e.packed # e.unpacked + 1 \/ d[e.offset + 1].t # "lp1" \/ room < e.unpacked THEN Refused
  ELSE Took(Opened(d, e, password))

Protected(d, e, password, room) ==
  IF password = "" \/ e.packed # e.unpacked + 1 \/ d[e.offset + 1].t # "lp1" \/ room < e.unpacked THEN Refused
  ELSE IF Opened(d, e, password) = d[e.offset + 1].crc THEN Took(Opened(d, e, password))
  ELSE Scrambled(Opened(d, e, password))

\* lar_extract_password: the first entry with the name, if all before it are
\* sound.  Reading is ahead of writing, so the buffer may be the archive's.
Extract(d, name, password, room) ==
  LET at == {i \in 1 .. d[1].count : BadEntry(d, i) \/ d[1 + i].name = name}
      e == d[1 + Min(at)]
  IN CASE ~ValidHeader(d) -> Refused
       [] at = {} -> Refused
       [] BadEntry(d, Min(at)) -> Refused
       [] e.method = 0 -> Stored(d, e, room)
       [] e.method = 1 -> Protected(d, e, password, room)
       [] OTHER -> Refused

\* cmd_larx, gui_lar_extract_selected (which has no password): a refused
\* extraction may have written over the text that stays in the file.
Larx(archive, name, password) ==
  LET r == Extract(DataOf(archive), name, password, CapOf(Extracted) - 1)
      old == files[Extracted]
      over == [i \in DOMAIN old |-> IF i <= Len(r.wrote) THEN r.wrote[i] ELSE old[i]]
      now == [files EXCEPT ![Extracted] = IF r.ok THEN r.wrote ELSE over]
  IN /\ archive \in There /\ DataOf(archive) # <<>>
     /\ Counted(IF r.ok THEN "extracted" ELSE "refused")
     /\ files' = now /\ made' = Standing(now)
     /\ dirty' = (dirty \/ r.ok) /\ scrambled' = (scrambled \/ (now # files /\ ~r.ok))
     /\ UNCHANGED <<undo, vms, disk>>

\* lar_create_single with a password over the buffer b, whose first cells are
\* the payload when the source is the destination: head and entry are written
\* before the CRC is taken, and the cells go three places on.
Sealed(b, src, name, password, inPlace) ==
  LET n == Len(src)
      head == <<LarHead(1, 1), Entry(name, 1, 2, n + 1, n)>>
      payload == IF inPlace THEN SubSeq(head \o SubSeq(src, 3, n), 1, n) ELSE src
      key == Key(password, name, <<name, payload>>)
      empty == head \o <<[t |-> "lp1", salt |-> <<name, payload>>, crc |-> payload]>>
      Next(buf, j) == Append(buf, Xor(IF inPlace THEN buf[j] ELSE src[j], key, j))
  IN FoldLeft(Next, empty, [j \in 1 .. n |-> j])

\* cmd_larpass
Larpass(out, name, src, password) ==
  LET fits == 3 + Len(DataOf(src)) <= CapOf(out) /\ name # "bad"
      archive == Sealed(DataOf(out), DataOf(src), name, password, src = out)
      now == IF fits THEN [WithFile(files, out) EXCEPT ![out] = archive] ELSE WithFile(files, out)
  IN /\ name # "" /\ password # "" /\ src \in There /\ CanHave(out)
     /\ Counted(IF fits THEN "sealed" ELSE "refused")
     /\ files' = now
     /\ made' = Standing(now) \cup
          IF fits THEN {[file |-> out, name |-> name, password |-> password, data |-> DataOf(src), own |-> src = out]} ELSE {}
     /\ dirty' = (dirty \/ now # files)
     /\ UNCHANGED <<undo, vms, disk, scrambled>>

-----------------------------------------------------------------------------
(* Packages *)

\* A line of a package or of a program: what it begins with, and the name.
Line(k, n) == [t |-> "line", k |-> k, n |-> n]
IsLine(c, k) == c.t = "line" /\ c.k = k

\* valid_pack
ValidPack(d) == d # <<>> /\ IsLine(d[1], "LPACK 1")

\* lpack_file_count counts every line FILE, also those inside of files.
CountFiles(d) == Cardinality({i \in DOMAIN d : IsLine(d[i], "FILE")})

\* The loop of lpack_verify (which stops at END) and those of lpack_install
\* (which do not): the files with the cells between FILE and ENDFILE.
Between(d, stops) ==
  LET Step(acc, i) ==
        CASE acc.over -> acc
          [] acc.open > 0 /\ IsLine(d[i], "ENDFILE") ->
               [acc EXCEPT !.open = 0, !.blocks = Append(@, [n |-> d[acc.open].n, data |-> SubSeq(d, acc.open + 1, i - 1)])]
          [] acc.open = 0 /\ IsLine(d[i], "FILE") -> [acc EXCEPT !.open = i]
          [] acc.open = 0 /\ IsLine(d[i], "END") /\ stops -> [acc EXCEPT !.over = TRUE]
          [] OTHER -> acc
  IN FoldLeft(Step, [over |-> FALSE, open |-> 0, blocks |-> <<>>], [i \in DOMAIN d |-> i])

\* lpack_verify: no file without a name or an end, and at least one
Verifies(d) ==
  /\ ValidPack(d)
  /\ LET v == Between(d, TRUE) IN v.open = 0 /\ v.blocks # <<>> /\ \A i \in DOMAIN v.blocks : v.blocks[i].n # ""

\* The blocks an install goes through: one that does not end before the
\* package does has all but the last line.
Blocks(d) ==
  LET v == Between(d, FALSE)
      tail == SubSeq(d, v.open + 1, Len(d) - 1)
  IN IF v.open = 0 THEN v.blocks ELSE Append(v.blocks, [n |-> d[v.open].n, data |-> tail])
Targets(d) == SelectSeq(Blocks(d), LAMBDA b : b.n \in DOMAIN files)

NoUndo == [ready |-> FALSE, full |-> FALSE, saved |-> <<>>]
UsedCells(u) == FoldLeft(LAMBDA n, s : n + Len(s.data), 0, u.saved)
IsFull(u, b) == Len(u.saved) >= UndoFiles \/ Len(files[b.n]) > UndoCells - UsedCells(u)
Keep(u, b) == [u EXCEPT !.ready = TRUE, !.saved = Append(@, [name |-> b.n, data |-> files[b.n]])]

\* undo_capture, and the end of the loop when the record is full
Capture(u, b) ==
  IF u.full \/ \E i \in DOMAIN u.saved : u.saved[i].name = b.n THEN u
  ELSE IF IsFull(u, b) THEN [u EXCEPT !.full = TRUE] ELSE Keep(u, b)
Captured(d) == FoldLeft(Capture, NoUndo, Targets(d))

\* lpack_install: verified, kept, then written; it gives up while it keeps and
\* writes nothing then.
Install(package) ==
  LET d == DataOf(package)
      now == FoldLeft(LAMBDA fs, b : Put(fs, b.n, b.data), files, Targets(d))
  IN /\ package \in There /\ \A i \in DOMAIN Targets(d) : Targets(d)[i].n # package
     /\ IF ~Verifies(d) THEN Counted("refused") /\ UNCHANGED <<files, dirty, undo, made>>
        ELSE IF Captured(d).full THEN Counted("refused") /\ undo' = NoUndo /\ UNCHANGED <<files, dirty, made>>
        ELSE /\ Counted("installed")
             /\ files' = now /\ made' = Standing(now) /\ undo' = Captured(d)
             /\ dirty' = (dirty \/ Targets(d) # <<>>)
     /\ UNCHANGED <<vms, disk, scrambled>>

\* lpack_undo_last
Undo ==
  LET found == SelectSeq(undo.saved, LAMBDA s : s.name \in DOMAIN files)
      now == FoldLeft(LAMBDA fs, s : Put(fs, s.name, s.data), files, found)
  IN /\ undo.ready
     /\ Counted(IF last.did = "installed" THEN "undone" ELSE "undo")
     /\ files' = now /\ made' = Standing(now) /\ undo' = NoUndo
     /\ dirty' = (dirty \/ found # <<>>)
     /\ UNCHANGED <<vms, disk, scrambled>>

-----------------------------------------------------------------------------
(* Machines *)

NoVm == [used |-> FALSE, name |-> "", program |-> <<>>, runs |-> 0, failures |-> 0, rc |-> 0]

\* lha_extract_program: what a file says, "big" for a program that is too long
Read(d, fallback) ==
  LET Step(a, c) ==
        CASE a.over \/ a.big -> a
          [] a.in /\ IsLine(c, "END") -> [a EXCEPT !.over = TRUE]
          [] a.in -> IF Len(a.code) >= ProgramMax THEN [a EXCEPT !.big = TRUE] ELSE [a EXCEPT !.code = Append(@, c)]
          [] IsLine(c, "LHA 1") -> [a EXCEPT !.header = TRUE]
          [] IsLine(c, "NAME") -> [a EXCEPT !.name = IF c.n = "" THEN "lha-vm" ELSE c.n]
          [] IsLine(c, "ENGINE") -> [a EXCEPT !.engine = c.n = "osvm"]
          [] IsLine(c, "CODE") -> [a EXCEPT !.in = TRUE]
          [] OTHER -> a
  IN FoldLeft(Step, [over |-> FALSE, big |-> FALSE, header |-> FALSE, engine |-> TRUE, in |-> FALSE,
                     name |-> fallback, code |-> <<>>], d)
Runnable(p) == ~p.big /\ p.header /\ p.engine /\ p.code # <<>>

\* lha_slot_by_name and lha_free_slot; 0 for none
SlotFor(name) ==
  LET own == {i \in 1 .. VmMax : vms[i].used /\ vms[i].name = name}
      free == {i \in 1 .. VmMax : ~vms[i].used}
  IN CASE own # {} -> Min(own) [] free # {} -> Min(free) [] OTHER -> 0

\* lha_create: a machine that is there keeps its counts.
Created(i, name, program) ==
  [vms[i] EXCEPT !.used = TRUE, !.name = name, !.program = program, !.rc = 0]

\* os_vm_asm_eval, as far as its callers see: a bad instruction is an error.
Result(program) == IF Text("bad") \in ToSet(program) THEN -1 ELSE 0
Ran(v) ==
  [v EXCEPT !.runs = @ + 1, !.rc = Result(v.program), !.failures = IF Result(v.program) # 0 THEN @ + 1 ELSE @]

\* lha_write_report
Reported(name, rc) == [files EXCEPT ![Report] = <<[t |-> "report", name |-> name, rc |-> rc]>>]

Written(now) == files' = now /\ made' = Standing(now) /\ dirty' = TRUE

\* cmd_lha create; lha_make_inline_source cuts what does not fit.
Create(name, text) ==
  LET i == SlotFor(name)
      program == SubSeq(text, 1, IF Len(text) < ProgramMax THEN Len(text) ELSE ProgramMax)
  IN
  /\ IF i = 0 THEN Counted("refused") /\ UNCHANGED <<vms, files, made, dirty>>
     ELSE /\ Counted("created") /\ vms' = [vms EXCEPT ![i] = Created(i, name, program)]
          /\ Written(Reported(name, 0))
  /\ UNCHANGED <<undo, disk, scrambled>>

\* cmd_lha_run_path: made from its file, then run
RunFile(file) ==
  LET p == Read(DataOf(file), file)
      i == SlotFor(p.name)
      v == Ran(Created(i, p.name, p.code))
  IN /\ file \in There
     /\ IF ~Runnable(p) \/ i = 0 THEN Counted("refused") /\ UNCHANGED <<vms, files, made, dirty>>
        ELSE Counted("ran") /\ vms' = [vms EXCEPT ![i] = v] /\ Written(Reported(v.name, v.rc))
     /\ UNCHANGED <<undo, disk, scrambled>>

\* lha_clear
Clear ==
  /\ Counted("cleared") /\ vms' = [i \in 1 .. VmMax |-> NoVm]
  /\ UNCHANGED <<files, dirty, undo, disk, scrambled, made>>

-----------------------------------------------------------------------------
\* An editor writes a file, a command saves them all.
Edit(n, data) ==
  /\ CanHave(n) /\ Counted("edited")
  /\ LET now == Put(WithFile(files, n), n, data) IN Written(now)
  /\ UNCHANGED <<undo, vms, disk, scrambled>>
Save ==
  /\ dirty /\ Counted("saved")
  /\ dirty' = FALSE /\ disk' = files /\ scrambled' = FALSE
  /\ UNCHANGED <<files, undo, vms, made>>

Init ==
  /\ files = [n \in DOMAIN Caps |-> <<Text("old")>>]
  /\ dirty = FALSE /\ disk = files /\ scrambled = FALSE /\ made = {}
  /\ undo = NoUndo /\ vms = [i \in 1 .. VmMax |-> NoVm]
  /\ last = [did |-> "boot", before |-> files] /\ steps = 0

Next ==
  \/ \E archive \in There, name \in Members, password \in Passwords : Larx(archive, name, password)
  \/ \E out \in DOMAIN Caps \cup Spare, name \in Members, src \in There, password \in Passwords :
       Larpass(out, name, src, password)
  \/ \E package \in There : Install(package)
  \/ Undo
  \/ \E name \in Members \ {""}, text \in Words : Create(name, text)
  \/ \E file \in There : RunFile(file)
  \/ Clear
  \/ \E n \in DOMAIN Caps \cup Spare, data \in Words : Edit(n, data)
  \/ Save

-----------------------------------------------------------------------------
(* Properties *)

\* A protected archive that was made of another file gives its member back for
\* its password, and with any other refuses it, as long as the file is as it
\* was left (larpass, larx).
SealedOpens ==
  \A a \in made : ~a.own =>
    /\ Lists(files[a.file])
    /\ \A password \in Passwords :
         LET r == Extract(files[a.file], a.name, password, Len(a.data))
         IN r.ok <=> (password = a.password \/ (a.data = <<>> /\ password # ""))
    /\ Extract(files[a.file], a.name, a.password, Len(a.data)) = Took(a.data)

\* An install that is refused has changed no file, and `lpack undo` right
\* after one that was not gives back what was there, whatever the package said
\* and however often it named a file.
PacksUndo ==
  /\ last.did = "refused" /\ ~scrambled => \A n \in DOMAIN last.before : files[n] = last.before[n]
  /\ last.did = "installed" /\ undo.ready =>
       \A n \in DOMAIN last.before :
         IF \E i \in DOMAIN undo.saved : undo.saved[i].name = n
         THEN \E i \in DOMAIN undo.saved : undo.saved[i] = [name |-> n, data |-> last.before[n]]
                /\ \A j \in DOMAIN undo.saved : undo.saved[j].name = n => i = j
         ELSE files[n] = last.before[n]

\* Files that are not marked for saving are as they were saved, but for what
\* refused extractions wrote.
UnmarkedIsSaved == ~dirty /\ ~scrambled => files = disk

\* A machine is known by its name: no two have the same, and what it says of
\* its runs agrees.
MachinesAreOwn ==
  \A i, j \in 1 .. VmMax :
    /\ vms[i].used /\ vms[j].used /\ vms[i].name = vms[j].name => i = j
    /\ vms[i].failures <= vms[i].runs /\ (vms[i].rc # 0 => vms[i].failures > 0)

ArchivesAreSound == SealedOpens /\ PacksUndo /\ UnmarkedIsSaved /\ MachinesAreOwn

\* What the documentation says and the code does not do.
\* README.md: a member needs its password "before their contents are written to
\* lar_extract.txt": a refused extraction leaves the file.
RefusedExtractKeeps == last.did = "refused" => \A n \in DOMAIN last.before : files[n] = last.before[n]
\* LSH.md: "lpack verify checks package structure before install": what is
\* installed is what was verified.
InstalledIsVerified ==
  \A package \in There :
    Verifies(DataOf(package)) => Blocks(DataOf(package)) = Between(DataOf(package), TRUE).blocks
\* lpack info: "N files".
CountIsFiles ==
  \A package \in There : Verifies(DataOf(package)) => CountFiles(DataOf(package)) = Len(Blocks(DataOf(package)))
\* "larpass: wrote password-protected": also when the source is the archive.
SealedInPlaceOpens ==
  \A a \in made : Extract(files[a.file], a.name, a.password, Len(a.data)) = Took(a.data)
================================================================================
