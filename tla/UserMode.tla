------------------------------ MODULE UserMode -------------------------------
(***************************************************************************)
(* User programs: how one is loaded and started with the rights of its     *)
(* container (lardx_load.c, lcontainer.c), what it may ask of the kernel   *)
(* through int 0x80 (syscall.c, ldll.c) and the message ports it shares    *)
(* with the programs of the stack machine (lipc.c).  The main loop stands  *)
(* still while a program runs.  A file is its name; what its bytes are     *)
(* matters only for which file they are of.  A fault of a program stops    *)
(* the machine and is left out, as are the calls that only compute         *)
(* (hashes, base64, time) or draw.                                         *)
(***************************************************************************)
EXTENDS Integers, Sequences, Functions

CONSTANTS
  Place,      \* file -> "ram" (writable), "rom" (compiled in) or "lfs" (image)
  Libs,       \* files that are libraries
  Programs,   \* file -> what lardx_run says of its headers, 0 if it starts
  Profiles,   \* profile -> its capabilities
  Defaults,   \* the containers of lcontainer_init: <<name, capabilities>>
  BoxNames,   \* names of containers
  BoxMax, FdMax, HandleMax, KeyMax, Depth, PayloadMax,
  Messages,   \* lengths of messages
  PortIds, Keys,
  MaxSteps    \* bound: steps of a behaviour

Files == DOMAIN Place
All == {"FS", "LDLL", "GUI", "KEYS", "LIPC", "LAFILLO"}
None == "none"

ASSUME UserAssumption ==
  /\ Libs \subseteq Files /\ DOMAIN Programs \subseteq Files /\ None \notin Files
  /\ Range(Place) \subseteq {"ram", "rom", "lfs"}
  /\ \A p \in DOMAIN Profiles : Profiles[p] \subseteq All
  /\ {BoxMax, FdMax, HandleMax, KeyMax, Depth, PayloadMax, MaxSteps} \subseteq Nat \ {0}
  /\ Defaults \in Seq(BoxNames \X SUBSET All) /\ Len(Defaults) <= BoxMax
  /\ \A i, j \in DOMAIN Defaults : Defaults[i][1] = Defaults[j][1] => i = j
  /\ Messages \subseteq Nat

VARIABLES
  boxes,   \* s_lc_used, s_lc_name, s_lc_caps, s_lc_runs
  active,  \* s_active, 0 for none
  sandbox, \* s_sandbox_mode
  caps,    \* s_caps
  prog,    \* what runs: in a "box" and which, "sandbox" or "plain", or none; and old_caps
  fds,     \* s_fds: what is opened, and how far it is read
  slot,    \* g_ram_result and g_lfs_result, which every fs_open fills anew
  libs,    \* ldll_handles
  base,    \* the library at USER_LDLL_BASE
  keys,    \* s_key_queue with its head and tail
  ports,   \* s_ports
  opened,  \* ghost: what the program opened as each descriptor and library
  typed,   \* ghost: keys since the program started or the queue was emptied
  sent, taken, \* ghost: what went into and what came out of each port
  said,    \* ghost: what the last call gave the program
  used     \* steps so far
boxVars == <<boxes, active, sandbox>>
callVars == <<fds, slot, libs, base, opened>>
portVars == <<ports, sent, taken>>
userVars == <<boxVars, caps, prog, callVars, keys, typed, portVars, said, used>>

Free == used < MaxSteps /\ used' = used + 1

\* --------------------------------- containers --------------------------------

NoBox == [used |-> FALSE, name |-> None, caps |-> {}, runs |-> 0]
\* find_container
Box(name) == {i \in 1 .. BoxMax : boxes[i].used /\ boxes[i].name = name}

\* lcontainer_has_active
HasActive == active # 0 /\ boxes[active].used

\* lcontainer_create: a name once, in the first free slot.
Create(name, profile) ==
  /\ Free /\ prog.as = None
  /\ LET free == {i \in 1 .. BoxMax : ~boxes[i].used}
         first == CHOOSE i \in free : \A j \in free : i <= j
     IN IF Box(name) # {} \/ free = {} THEN UNCHANGED boxes
        ELSE boxes' = [boxes EXCEPT ![first] = [used |-> TRUE, name |-> name, caps |-> Profiles[profile], runs |-> 0]]
  /\ said' = <<>> /\ UNCHANGED <<active, sandbox, caps, prog, callVars, keys, typed, portVars>>

\* lcontainer_remove
RemoveBox(name) ==
  /\ Free /\ prog.as = None
  /\ boxes' = [i \in 1 .. BoxMax |-> IF i \in Box(name) THEN NoBox ELSE boxes[i]]
  /\ active' = IF active \in Box(name) THEN 0 ELSE active
  /\ said' = <<>> /\ UNCHANGED <<sandbox, caps, prog, callVars, keys, typed, portVars>>

\* lcontainer_use, lcontainer_exit and the sandbox command
Use(name) ==
  /\ Free /\ prog.as = None /\ Box(name) # {} /\ active' \in Box(name)
  /\ said' = <<>> /\ UNCHANGED <<boxes, sandbox, caps, prog, callVars, keys, typed, portVars>>
Leave ==
  /\ Free /\ prog.as = None /\ active' = 0
  /\ said' = <<>> /\ UNCHANGED <<boxes, sandbox, caps, prog, callVars, keys, typed, portVars>>
SetSandbox(on) ==
  /\ Free /\ prog.as = None /\ sandbox' = on
  /\ said' = <<>> /\ UNCHANGED <<boxes, active, caps, prog, callVars, keys, typed, portVars>>

\* ---------------------------------- running ----------------------------------

\* A bug to catch: the rights come back only behind a program that started.
StartKeeping(as, box, rights, file) ==
  LET none == [fd |-> [i \in 1 .. FdMax |-> None], lib |-> opened.lib] IN
  /\ slot' = [slot EXCEPT ![Place[file]] = file] /\ caps' = rights
  /\ IF Programs[file] # 0 THEN UNCHANGED <<prog, fds, keys, typed, opened>>
     ELSE /\ prog' = [as |-> as, box |-> box, old |-> caps] /\ opened' = none
          /\ fds' = [i \in 1 .. FdMax |-> [of |-> None, off |-> 0]] /\ keys' = [keys EXCEPT !.head = 1, !.tail = 1]
          /\ typed' = <<>>

\* lardx_run with the rights of lcontainer_run or lardx_run_sandbox: what is
\* refused gives the rights back at once, and a program that starts finds no
\* descriptor and no key.
Start(as, box, rights, file) ==
  LET none == [fd |-> [i \in 1 .. FdMax |-> None], lib |-> opened.lib] IN
  /\ slot' = [slot EXCEPT ![Place[file]] = file]
  /\ IF Programs[file] # 0 THEN UNCHANGED <<caps, prog, fds, keys, typed, opened>>
     ELSE /\ caps' = rights /\ prog' = [as |-> as, box |-> box, old |-> caps] /\ opened' = none
          /\ fds' = [i \in 1 .. FdMax |-> [of |-> None, off |-> 0]] /\ keys' = [keys EXCEPT !.head = 1, !.tail = 1]
          /\ typed' = <<>>

\* cmd_run: the sandbox goes before the active container.
Run(file) ==
  /\ Free /\ prog.as = None
  /\ IF sandbox THEN Start("sandbox", 0, {}, file)
     ELSE IF HasActive THEN Start("box", active, boxes[active].caps, file)
     ELSE Start("plain", 0, caps, file)
  /\ said' = <<>> /\ UNCHANGED <<boxVars, libs, base, portVars>>

\* cmd_lcnt_run
RunIn(name, file) ==
  /\ Free /\ prog.as = None
  /\ \E i \in Box(name) : Start("box", i, boxes[i].caps, file)
  /\ said' = <<>> /\ UNCHANGED <<boxVars, libs, base, portVars>>

\* SYS_EXIT, and what lcontainer_run and lardx_run_sandbox do behind it.
Exit ==
  /\ Free /\ prog.as # None /\ prog' = [as |-> None, box |-> 0, old |-> All] /\ caps' = prog.old
  /\ boxes' = IF prog.as = "box" THEN [boxes EXCEPT ![prog.box].runs = @ + 1] ELSE boxes
  /\ said' = <<>> /\ UNCHANGED <<active, sandbox, callVars, keys, typed, portVars>>

\* usermode_run of the User tab: the sample program loads the library, finds
\* puts, calls it, and closes the library; in its sandbox it may not, and with
\* all handles in use ldll_load gives up behind its fs_open.
Sample(library, boxed) ==
  /\ Free /\ prog.as = None
  /\ slot' = IF boxed THEN slot ELSE [slot EXCEPT ![Place[library]] = library]
  /\ base' = IF boxed \/ \A h \in 1 .. HandleMax : libs[h].used THEN base ELSE library
  /\ said' = <<>> /\ UNCHANGED <<boxVars, caps, prog, fds, libs, opened, keys, typed, portVars>>

\* -------------------------------- system calls -------------------------------

\* cap_blocks: with all rights nothing is refused.
Blocked(need) == caps # All /\ need \notin caps

\* The FsFile an entry points to is that of the last file opened of its kind,
\* but for the files that are compiled in.
Behind(ref) == IF Place[ref] = "rom" THEN ref ELSE slot[Place[ref]]

\* SYS_OPEN: the first free entry.
Open(file) ==
  LET free == {i \in 1 .. FdMax : fds[i].of = None}
      first == CHOOSE i \in free : \A j \in free : i <= j
  IN /\ Free /\ prog.as # None /\ ~Blocked("FS") /\ free # {}
     /\ slot' = [slot EXCEPT ![Place[file]] = file]
     /\ fds' = [fds EXCEPT ![first] = [of |-> file, off |-> 0]]
     /\ opened' = [opened EXCEPT !.fd[first] = file]
     /\ said' = <<>> /\ UNCHANGED <<boxVars, caps, prog, libs, base, keys, typed, portVars>>

\* SYS_READ of one unit: of which file it comes, and from where.
Read(i) ==
  /\ Free /\ prog.as # None /\ ~Blocked("FS") /\ fds[i].of # None
  /\ said' = <<"read", i, Behind(fds[i].of), fds[i].off>>
  /\ fds' = [fds EXCEPT ![i].off = @ + 1]
  /\ UNCHANGED <<boxVars, caps, prog, slot, libs, base, opened, keys, typed, portVars>>

\* SYS_CLOSE, which every program may call
Close(i) ==
  /\ Free /\ prog.as # None
  /\ fds' = [fds EXCEPT ![i].of = None] /\ opened' = [opened EXCEPT !.fd[i] = None]
  /\ said' = <<>> /\ UNCHANGED <<boxVars, caps, prog, slot, libs, base, keys, typed, portVars>>

\* ldll_load: every library goes to the same place.
LoadLib(file) ==
  LET free == {h \in 1 .. HandleMax : ~libs[h].used}
      first == CHOOSE h \in free : \A k \in free : h <= k
  IN /\ Free /\ prog.as # None /\ ~Blocked("LDLL")
     /\ slot' = [slot EXCEPT ![Place[file]] = file]
     /\ IF file \notin Libs \/ free = {} THEN UNCHANGED <<libs, base, opened>> /\ said' = <<"load", -1>>
        ELSE /\ libs' = [libs EXCEPT ![first] = [used |-> TRUE, of |-> file]] /\ base' = file
             /\ opened' = [opened EXCEPT !.lib[first] = file] /\ said' = <<"load", first>>
     /\ UNCHANGED <<boxVars, caps, prog, fds, keys, typed, portVars>>

\* ldll_sym: the table of the file behind the handle, in what lies at the base.
Sym(h) ==
  /\ Free /\ prog.as # None /\ ~Blocked("LDLL") /\ libs[h].used
  /\ said' = <<"sym", h, Behind(libs[h].of), base>>
  /\ UNCHANGED <<boxVars, caps, prog, callVars, keys, typed, portVars>>
CloseLib(h) ==
  /\ Free /\ prog.as # None /\ ~Blocked("LDLL")
  /\ libs' = [libs EXCEPT ![h].used = FALSE] /\ opened' = [opened EXCEPT !.lib[h] = None]
  /\ said' = <<>> /\ UNCHANGED <<boxVars, caps, prog, fds, slot, base, keys, typed, portVars>>

\* syscall_key_push, by the main loop: a full queue drops the key.
PushKey(k) ==
  LET next == (keys.tail % KeyMax) + 1 IN
  /\ Free /\ prog.as = None
  /\ IF next = keys.head THEN UNCHANGED <<keys, typed>>
     ELSE keys' = [keys EXCEPT !.q[keys.tail] = k, !.tail = next] /\ typed' = Append(typed, k)
  /\ said' = <<>> /\ UNCHANGED <<boxVars, caps, prog, callVars, portVars>>

Pressed == (keys.tail - keys.head) % KeyMax

\* SYS_GET_KEY; SYS_POLL_KEY tells whether there is one.
GetKey ==
  /\ Free /\ prog.as # None /\ ~Blocked("KEYS")
  /\ IF Pressed = 0 THEN UNCHANGED <<keys, typed>> /\ said' = <<"key", None>>
     ELSE /\ said' = <<"key", keys.q[keys.head]>>
          /\ keys' = [keys EXCEPT !.head = (@ % KeyMax) + 1] /\ typed' = Tail(typed)
  /\ UNCHANGED <<boxVars, caps, prog, callVars, portVars>>

\* ---------------------------------- messages ---------------------------------

\* Who may use a port: a program with the right, or one of the stack machine,
\* which runs while no other does.
MayTalk == prog.as = None \/ ~Blocked("LIPC")

\* lipc_send
Send(p, len) ==
  LET c == ports[p] IN
  /\ Free /\ MayTalk
  /\ IF len = 0 \/ len > PayloadMax \/ c.count >= Depth THEN UNCHANGED <<ports, sent>>
     ELSE LET msg == [n |-> Len(sent[p]), len |-> len]
          IN  /\ ports' = [ports EXCEPT ![p] = [c EXCEPT !.q[c.tail + 1] = msg,
                                                 !.tail = (c.tail + 1) % Depth, !.count = c.count + 1]]
              /\ sent' = [sent EXCEPT ![p] = Append(@, msg)]
  /\ said' = <<>> /\ UNCHANGED <<boxVars, caps, prog, callVars, keys, typed, taken>>

\* lipc_recv: a message that does not fit stays.
Recv(p, cap) ==
  LET c == ports[p] IN
  /\ Free /\ MayTalk
  /\ IF cap = 0 \/ c.count = 0 \/ c.q[c.head + 1].len > cap THEN UNCHANGED <<ports, taken>>
     ELSE /\ ports' = [ports EXCEPT ![p] = [c EXCEPT !.head = (c.head + 1) % Depth, !.count = c.count - 1]]
          /\ taken' = [taken EXCEPT ![p] = Append(@, c.q[c.head + 1])]
  /\ said' = <<>> /\ UNCHANGED <<boxVars, caps, prog, callVars, keys, typed, sent>>

\* ------------------------------------ all ------------------------------------

UserInit ==
  /\ boxes = [i \in 1 .. BoxMax |-> IF i > Len(Defaults) THEN NoBox
                 ELSE [used |-> TRUE, name |-> Defaults[i][1], caps |-> Defaults[i][2], runs |-> 0]]
  /\ active = 0 /\ sandbox = FALSE /\ caps = All /\ prog = [as |-> None, box |-> 0, old |-> All]
  /\ fds = [i \in 1 .. FdMax |-> [of |-> None, off |-> 0]] /\ slot = [k \in Range(Place) |-> None]
  /\ libs = [h \in 1 .. HandleMax |-> [used |-> FALSE, of |-> None]] /\ base = None
  /\ keys = [q |-> [i \in 1 .. KeyMax |-> None], head |-> 1, tail |-> 1] /\ typed = <<>>
  /\ opened = [fd |-> [i \in 1 .. FdMax |-> None], lib |-> [h \in 1 .. HandleMax |-> None]]
  /\ ports = [p \in PortIds |-> [q |-> [i \in 1 .. Depth |-> [n |-> 0, len |-> 0]], head |-> 0, tail |-> 0, count |-> 0]]
  /\ sent = [p \in PortIds |-> <<>>] /\ taken = [p \in PortIds |-> <<>>]
  /\ said = <<>> /\ used = 0

BoxNext ==
  \/ \E name \in BoxNames : (\E profile \in DOMAIN Profiles : Create(name, profile)) \/ RemoveBox(name) \/ Use(name)
  \/ Leave
  \/ \E on \in BOOLEAN : SetSandbox(on)
  \/ \E file \in DOMAIN Programs : Run(file) \/ \E name \in BoxNames : RunIn(name, file)
  \/ \E library \in Libs, boxed \in BOOLEAN : Sample(library, boxed)
CallNext ==
  \/ Exit
  \/ \E file \in Files : Open(file) \/ LoadLib(file)
  \/ \E i \in 1 .. FdMax : Read(i) \/ Close(i)
  \/ \E h \in 1 .. HandleMax : Sym(h) \/ CloseLib(h)
  \/ \E k \in Keys : PushKey(k)
  \/ GetKey
PortNext == \E p \in PortIds, len \in Messages \cup {0} : Send(p, len) \/ Recv(p, len)
UserNext == BoxNext \/ CallNext \/ PortNext
UserSpec == UserInit /\ [][UserNext]_userVars

\* -------------------------------- properties ---------------------------------

\* What is there: the types the proofs start from.
Contents == Files \cup {None}
Message == [n : Nat, len : Nat]
Boxes == [used : BOOLEAN, name : BoxNames \cup {None}, caps : SUBSET All, runs : Nat]
Running == [as : {None, "box", "sandbox", "plain"}, box : 0 .. BoxMax, old : SUBSET All]
Port == [q : [1 .. Depth -> Message], head : 0 .. Depth - 1, tail : 0 .. Depth - 1, count : 0 .. Depth]
UserTypeOK ==
  /\ boxes \in [1 .. BoxMax -> Boxes]
  /\ active \in 0 .. BoxMax /\ sandbox \in BOOLEAN /\ caps \in SUBSET All
  /\ prog \in Running
  /\ fds \in [1 .. FdMax -> [of : Contents, off : Nat]] /\ slot \in [Range(Place) -> Contents]
  /\ libs \in [1 .. HandleMax -> [used : BOOLEAN, of : Contents]] /\ base \in Contents
  /\ opened \in [fd : [1 .. FdMax -> Contents], lib : [1 .. HandleMax -> Contents]]
  /\ keys \in [q : [1 .. KeyMax -> Keys \cup {None}], head : 1 .. KeyMax, tail : 1 .. KeyMax]
  /\ typed \in Seq(Keys \cup {None})
  /\ ports \in [PortIds -> Port] /\ sent \in [PortIds -> Seq(Message)] /\ taken \in [PortIds -> Seq(Message)]
  /\ used \in Nat

\* A program has the rights of its container or none in the sandbox; before and
\* behind it, also behind one that was refused, the shell has all of them.
RightsAreGivenBack ==
  IF prog.as = None THEN caps = All
  ELSE IF prog.as = "sandbox" THEN caps = {}
  ELSE IF prog.as = "plain" THEN caps = All
  ELSE prog.box # 0 /\ boxes[prog.box].used /\ caps = boxes[prog.box].caps

\* The active container is one that exists, and a name is one container's.
BoxesAreSound ==
  /\ active # 0 => boxes[active].used
  /\ \A i, j \in 1 .. BoxMax : boxes[i].used /\ boxes[j].used /\ boxes[i].name = boxes[j].name => i = j

\* A name of a file, or none, behind which there is a file of its kind.
Lawful(ref) == ref # None => Behind(ref) \in Files /\ Place[Behind(ref)] = Place[ref]

\* A program without the right to files has no descriptor, whatever the program
\* before it left open; and what a descriptor or a library stands for is a file
\* that is there and of the kind that was opened, if not always the one.
DescriptorsAreLawful ==
  /\ prog.as # None /\ Blocked("FS") => \A i \in 1 .. FdMax : fds[i].of = None
  /\ \A i \in 1 .. FdMax : Lawful(fds[i].of)
  /\ \A h \in 1 .. HandleMax : Lawful(libs[h].of)

\* What waits in a ring, from its head on.
Ring(q, head, count, size) == [k \in 1 .. count |-> q[1 + ((head + k - 1) % size)]]

\* What comes out of a port went in, in order and once, and the rest waits,
\* whichever programs of either kind take turns at it.
PortsAreFifo ==
  \A p \in PortIds : LET c == ports[p] IN sent[p] = taken[p] \o Ring(c.q, c.head, c.count, Depth)

\* Keys come out as they were typed.
KeysAreInOrder == typed = Ring(keys.q, keys.head - 1, Pressed, KeyMax)

\* A program is held to its rights and files, and what waits in a queue comes in order.
ProgramsAreConfined ==
  RightsAreGivenBack /\ BoxesAreSound /\ DescriptorsAreLawful /\ PortsAreFifo /\ KeysAreInOrder

\* What the comments say and the code does not do.
\* RELEASES.lardd:535: "Apps ... can open rxr/name through ... user-mode
\* SYS_OPEN": a descriptor reads the file it was opened for.
ReadsItsFile == said # <<>> /\ said[1] = "read" => said[3] = opened.fd[said[2]]
\* ldll.h:30: "get symbol address": a symbol is one of the library the handle
\* stands for.
SymbolsAreOwn == said # <<>> /\ said[1] = "sym" => said[3] = opened.lib[said[2]] /\ said[4] = opened.lib[said[2]]
\* ldll.h:27: "return handle (1..N)": a program has N of them, whatever programs
\* before it held.
HandlesAreFreed == prog.as = None => \A h \in 1 .. HandleMax : ~libs[h].used
\* This one holds, against syscall.h:51 "Push key for user program SYS_GET_KEY":
\* no key ever reaches a program.
NoKeyReaches == said # <<>> /\ said[1] = "key" => said[2] = None
=============================================================================
