-------------------------------- MODULE BoslVm --------------------------------
(***************************************************************************)
(* BOSL programs: bosl_asm.c turns the lines of a source into an image, and*)
(* the interpreter of bosl_vm.c runs it within a budget of steps.          *)
(*                                                                         *)
(* A cell of the code is a byte: an opcode, which carries its operand here,*)
(* or one of the bytes the operand takes.  Values have a type and a small  *)
(* number.  What memory, ports, the clock and the message ports answer is  *)
(* any of Answers; what reaches the console is left out.                   *)
(*                                                                         *)
(* bosl_jit.c runs an image whose code is whitelisted instructions on      *)
(* 32-bit numbers as native code, and gives any other to the interpreter.  *)
(* JitNext runs the same image both ways, to set them side by side.        *)
(***************************************************************************)
EXTENDS Integers, SequencesExt

CONSTANTS
  Lines,        \* source lines: a label, a jump to one, or an instruction
  Word,         \* bytes of an operand of 32 bits
  CodeCap,      \* CODE_CAP
  LabelMax,     \* MAX_LABELS
  FixupMax,     \* MAX_FIXUPS
  ConstMax,     \* MAX_CONST
  StackMax,     \* STACK_MAX
  RetMax,       \* BOSL_RET_STACK
  StepLimit,    \* vmmon_budget(VMMON_BOSL)
  Answers,      \* numbers the outside may give
  Images,       \* code of the images that are run both ways, operands and all
  DivMax,       \* BOSL_JIT_DIV0_MAX
  JitCap        \* instructions g_jit_buf has room for

BoslAssumption ==
  /\ {Word, CodeCap, LabelMax, FixupMax, ConstMax, StackMax, RetMax, StepLimit} \subseteq Nat \ {0}
  /\ Answers \subseteq Int /\ Answers # {}

VARIABLES
  phase,        \* "source", then "image", then "run", or "refused"
  code,         \* the cells emitted
  labels,       \* name and pc of each label
  fixups,       \* name and place of each jump to be patched
  consts,       \* constants[]: what the pool holds
  m,            \* the machine: pc, stack, rets, steps and what it returned
  entry,        \* the entry of an image that is run both ways
  jit           \* its native code: where it is, sp, the slots, rdi and the result

vars == <<phase, code, labels, fixups, consts, m>>
jitVars == <<vars, entry, jit>>

Value(t, n) == [t |-> t, n |-> n]
I32(n) == Value("i32", n)
Operand == [op |-> "operand", arg |-> I32(0)]

Jumps == {"jmp", "jz", "jnz", "call"}
OperandSize(op) ==
  IF op \in Jumps \cup {"pushi", "pushk", "pushc", "pushk64"} THEN Word
  ELSE IF op = "pushi64" THEN 2 * Word ELSE IF op = "pick" THEN 1 ELSE 0

-----------------------------------------------------------------------------
(* bosl_asm.c *)

\* EMIT and emit_u32: what does not fit is dropped without a word.
Emitted(c, cell) == IF Len(c) < CodeCap THEN Append(c, cell) ELSE c
Padded(c, n) == IF Len(c) + n <= CodeCap THEN c \o [i \in 1 .. n |-> Operand] ELSE c
Instruction(c, op, arg) ==
  LET opened == Emitted(c, [op |-> op, arg |-> arg])
  IN  IF op = "pushi64" THEN Padded(Padded(opened, Word), Word) ELSE Padded(opened, OperandSize(op))

Refuse == phase' = "refused" /\ UNCHANGED <<code, labels, fixups, consts, m>>

\* A line that is a label: known already, or one too many, ends it all.
Label(name) ==
  IF (\E l \in labels : l.name = name) \/ Cardinality(labels) >= LabelMax THEN Refuse
  ELSE /\ labels' = labels \cup {[name |-> name, pc |-> Len(code)]}
       /\ UNCHANGED <<phase, code, fixups, consts, m>>

JumpTo(op, name) ==
  IF Len(fixups) >= FixupMax THEN Refuse
  ELSE /\ fixups' = Append(fixups, [name |-> name, at |-> Len(Emitted(code, Operand))])
       /\ code' = Instruction(code, op, I32(0))
       /\ UNCHANGED <<phase, labels, consts, m>>

\* intern_str, intern_int and intern_i64: equal constants share a place.
Plain(op, arg) ==
  LET pooled == IF op \in {"pushk", "pushk64", "pushc"} THEN consts \cup {arg} ELSE consts
  IN  IF Cardinality(pooled) > ConstMax THEN Refuse
      ELSE consts' = pooled /\ code' = Instruction(code, op, arg) /\ UNCHANGED <<phase, labels, fixups, m>>

AssembleLine(line) ==
  /\ phase = "source"
  /\ \/ line.kind = "label" /\ Label(line.name)
     \/ line.kind = "jump" /\ JumpTo(line.op, line.name)
     \/ line.kind = "plain" /\ Plain(line.op, line.arg)

\* build_image: the operand goes where the opcode was just before.
Patched(c, f) ==
  LET target == CHOOSE l \in labels : l.name = f.name
  IN  IF f.at + Word <= Len(c) THEN [c EXCEPT ![f.at].arg = I32(target.pc)] ELSE c

BuildImage ==
  /\ phase = "source"
  /\ IF \A i \in DOMAIN fixups : \E l \in labels : l.name = fixups[i].name
       THEN phase' = "image" /\ code' = FoldLeft(Patched, code, fixups) /\ UNCHANGED <<labels, fixups, consts, m>>
       ELSE Refuse

-----------------------------------------------------------------------------
(* bosl_vm.c: what one instruction may do.  A machine that has ended keeps  *)
(* what it returned: 0 (ok), 11 (budget), 12 (past) or 13 (fault).           *)

Fresh(e) == [pc |-> e, stack |-> <<>>, rets |-> <<>>, steps |-> 0, rc |-> "runs"]
Fails(s) == {[s EXCEPT !.rc = "fault"]}

\* Whether the stack ends in values of these kinds, the top one last.
Fits(v, kind) == kind = "any" \/ v.t = kind \/ (kind = "int" /\ v.t # "str")
Ends(s, kinds) ==
  /\ Len(s.stack) >= Len(kinds)
  /\ \A i \in DOMAIN kinds : Fits(s.stack[Len(s.stack) - Len(kinds) + i], kinds[i])
Peek(s, i) == s.stack[Len(s.stack) + 1 - i]
Below(s, n) == SubSeq(s.stack, 1, Len(s.stack) - n)
Full(s) == Len(s.stack) >= StackMax

\* Takes values of these kinds and leaves one of several rows of others.
Turns(s, kinds, rows) ==
  IF Ends(s, kinds) THEN {[s EXCEPT !.stack = Below(s, Len(kinds)) \o row] : row \in rows} ELSE Fails(s)

\* The same, refused on a full stack even when it would not grow.
TurnsIfRoom(s, kinds, rows) == IF Full(s) THEN Fails(s) ELSE Turns(s, kinds, rows)

Binary == {"add", "sub", "mul", "div", "mod", "min", "max", "and", "or", "shl", "udiv", "umod"}
Compare == {"eq", "ne", "lt", "le", "gt", "ge"}
Flag(b) == IF b THEN 1 ELSE 0
Abs(n) == IF n < 0 THEN -n ELSE n
Quotient(a, b) == IF (a >= 0) = (b > 0) THEN Abs(a) \div Abs(b) ELSE -(Abs(a) \div Abs(b))

Apply(op, a, b) ==
  CASE op = "add" -> a + b [] op = "sub" -> a - b [] op = "mul" -> a * b
    [] op \in {"div", "udiv"} -> Quotient(a, b)
    [] op \in {"mod", "umod"} -> a - b * Quotient(a, b)
    [] op = "min" -> IF a < b THEN a ELSE b [] op = "max" -> IF a < b THEN b ELSE a
    [] op = "and" -> Flag(a # 0 /\ b # 0) [] op = "or" -> Flag(a # 0 \/ b # 0)
    [] op = "shl" -> a * 2 ^ b
    [] op = "eq" -> Flag(a = b) [] op = "ne" -> Flag(a # b) [] op = "lt" -> Flag(a < b)
    [] op = "le" -> Flag(a <= b) [] op = "gt" -> Flag(a > b) [] op = "ge" -> Flag(a >= b)

\* Two numbers of any width; the result is as wide as the wider.
TwoNumbers(s, op) ==
  IF ~Ends(s, <<"int", "int">>) \/ (op \in {"div", "mod", "udiv", "umod"} /\ Peek(s, 1).n = 0) THEN Fails(s)
  ELSE LET a == Peek(s, 2)  b == Peek(s, 1)
           t == IF op \notin Compare /\ "i64" \in {a.t, b.t} THEN "i64" ELSE "i32"
       IN  Turns(s, <<"int", "int">>, {<<Value(t, Apply(op, a.n, b.n))>>})

Unary == {"neg", "abs", "sgn", "inc", "dec"}
Changed(op, n) ==
  CASE op = "neg" -> -n [] op = "abs" -> Abs(n) [] op = "sgn" -> Flag(n > 0) - Flag(n < 0)
    [] op = "inc" -> n + 1 [] op = "dec" -> n - 1

OneNumber(s, op) ==
  IF Ends(s, <<"int">>) THEN Turns(s, <<"int">>, {<<[Peek(s, 1) EXCEPT !.n = Changed(op, @)]>>}) ELSE Fails(s)

\* Rearrangements of the top of the stack: which of the values taken, counted
\* from the deepest, stand there afterwards.
Shuffles ==
  [dup |-> [takes |-> 1, leaves |-> <<1, 1>>], drop |-> [takes |-> 1, leaves |-> <<>>],
   swap |-> [takes |-> 2, leaves |-> <<2, 1>>], over |-> [takes |-> 2, leaves |-> <<1, 2, 1>>],
   rot |-> [takes |-> 3, leaves |-> <<2, 3, 1>>], nip |-> [takes |-> 2, leaves |-> <<2>>],
   tuck |-> [takes |-> 2, leaves |-> <<2, 1, 2>>], dup2 |-> [takes |-> 2, leaves |-> <<1, 2, 1, 2>>],
   drop2 |-> [takes |-> 2, leaves |-> <<>>], swap2 |-> [takes |-> 4, leaves |-> <<3, 4, 1, 2>>]]

Shuffle(s, op) ==
  LET f == Shuffles[op]
      taken == SubSeq(s.stack, Len(s.stack) - f.takes + 1, Len(s.stack))
      grown == Len(s.stack) - f.takes + Len(f.leaves)
  IN  IF Len(s.stack) < f.takes \/ (grown > Len(s.stack) /\ grown > StackMax) THEN Fails(s)
      ELSE Turns(s, [i \in 1 .. f.takes |-> "any"], {[i \in DOMAIN f.leaves |-> taken[f.leaves[i]]]})

Pick(s, depth) ==
  IF Full(s) \/ depth + 1 > Len(s.stack) THEN Fails(s)
  ELSE Turns(s, <<>>, {<<Peek(s, depth + 1)>>})

QDup(s) ==
  IF Full(s) \/ ~Ends(s, <<"int">>) THEN Fails(s)
  ELSE Turns(s, <<>>, {IF Peek(s, 1).n # 0 THEN <<Peek(s, 1)>> ELSE <<>>})

\* The number on top is the one looked for, then the lower bound, then the upper.
Within(s) ==
  IF ~Ends(s, <<"int", "int", "int">>) THEN Fails(s)
  ELSE Turns(s, <<"int", "int", "int">>,
             {<<I32(Flag(Peek(s, 2).n <= Peek(s, 1).n /\ Peek(s, 1).n < Peek(s, 3).n))>>})

Convert(s, from, to) ==
  IF Full(s) \/ ~Ends(s, <<from>>) THEN Fails(s) ELSE Turns(s, <<from>>, {<<Value(to, Peek(s, 1).n)>>})

Unknown(t) == {<<Value(t, n)>> : n \in Answers}

\* Memory at address 0 is refused.
Peeked(s, t) ==
  IF Ends(s, <<"int">>) /\ Peek(s, 1).n = 0 THEN Fails(s) ELSE TurnsIfRoom(s, <<"int">>, Unknown(t))
Poked(s) ==
  IF Ends(s, <<"int", "int">>) /\ Peek(s, 2).n = 0 THEN Fails(s) ELSE Turns(s, <<"int", "int">>, {<<>>})

\* The operand of a jump is read before the condition is looked at.
Branch(s, op, dst) ==
  IF ~Ends(s, <<"int">>) THEN Fails(s)
  ELSE {[s EXCEPT !.stack = Below(s, 1), !.pc = IF (op = "jz") = (Peek(s, 1).n = 0) THEN dst ELSE @]}

\* A bug to catch: the call returns to its own operand.
CallUnread(s, dst) ==
  IF Len(s.rets) >= RetMax THEN Fails(s) ELSE {[s EXCEPT !.rets = Append(@, s.pc - Word), !.pc = dst]}

Call(s, dst) ==
  IF Len(s.rets) >= RetMax THEN Fails(s) ELSE {[s EXCEPT !.rets = Append(@, s.pc), !.pc = dst]}
Return(s) ==
  IF s.rets = <<>> THEN Fails(s) ELSE {[s EXCEPT !.pc = Last(s.rets), !.rets = Front(@)]}

\* The switch of bosl_vm_run_impl; pc is past the operand.
Execute(s, op, arg) ==
  CASE op \in {"pushi", "pushk", "pushi64", "pushk64", "pushc"} -> TurnsIfRoom(s, <<>>, {<<arg>>})
    [] op = "rand" -> TurnsIfRoom(s, <<>>, Unknown("i32"))
    [] op = "time" -> TurnsIfRoom(s, <<>>, Unknown("i64"))
    [] op = "depth" -> TurnsIfRoom(s, <<>>, {<<I32(Len(s.stack))>>})
    [] op \in Binary \cup Compare -> TwoNumbers(s, op)
    [] op \in Unary -> OneNumber(s, op)
    [] op \in DOMAIN Shuffles -> Shuffle(s, op)
    [] op = "pick" -> Pick(s, arg.n)
    [] op = "qdup" -> QDup(s)
    [] op = "within" -> Within(s)
    [] op = "i32toi64" -> Convert(s, "i32", "i64")
    [] op = "i64toi32" -> Convert(s, "i64", "i32")
    [] op \in {"print", "printn"} -> Turns(s, <<"any">>, {<<>>})
    [] op = "emit" -> Turns(s, <<"int">>, {<<>>})
    [] op = "lafillop" -> Turns(s, <<"str">>, {<<>>})
    [] op = "slen" -> Turns(s, <<"str">>, Unknown("i32"))
    [] op \in {"peek", "peek64"} -> Peeked(s, IF op = "peek" THEN "i32" ELSE "i64")
    [] op = "in" -> TurnsIfRoom(s, <<"int">>, Unknown("i32"))
    [] op = "poke" -> Poked(s)
    [] op = "out" -> Turns(s, <<"int", "int">>, {<<>>})
    [] op \in {"memcpy", "memset"} -> Fails(s) \cup Turns(s, <<"int", "int", "int">>, {<<>>})
    [] op \in {"lipc_send", "lipc_recv"} -> Turns(s, <<"int", "int", "int">>, Unknown("i32"))
    [] op = "lipc_pending" -> Turns(s, <<"int">>, Unknown("i32"))
    [] op = "lipc_send_str" -> Turns(s, <<"int", "str">>, Unknown("i32"))
    [] op = "jmp" -> {[s EXCEPT !.pc = arg.n]}
    [] op \in {"jz", "jnz"} -> Branch(s, op, arg.n)
    [] op = "call" -> Call(s, arg.n)
    [] op = "ret" -> Return(s)
    [] op \in {"nop", "cli", "sti", "fence"} -> {s}
    [] op = "halt" -> {[s EXCEPT !.rc = "ok"]}
    [] op = "operand" -> {[s EXCEPT !.rc = "strayed"]}

\* A bug to catch: steps are not counted.
UncountedSteps(c, s) ==
  IF s.pc >= Len(c) THEN {[s EXCEPT !.rc = "past"]}
  ELSE LET cell == c[s.pc + 1]
           past == s.pc + 1 + OperandSize(cell.op)
       IN  IF past > Len(c) THEN Fails(s) ELSE Execute([s EXCEPT !.pc = past], cell.op, cell.arg)

\* One turn of the loop.
OneStep(c, s) ==
  IF s.steps >= StepLimit THEN {[s EXCEPT !.rc = "budget"]}
  ELSE IF s.pc >= Len(c) THEN {[s EXCEPT !.rc = "past"]}
  ELSE LET cell == c[s.pc + 1]
           past == s.pc + 1 + OperandSize(cell.op)
           read == [s EXCEPT !.pc = past, !.steps = @ + 1]
       IN  IF past > Len(c) THEN Fails(s) ELSE Execute(read, cell.op, cell.arg)

-----------------------------------------------------------------------------
Init == phase = "source" /\ code = <<>> /\ labels = {} /\ fixups = <<>> /\ consts = {} /\ m = Fresh(0)

\* An image without code is refused (entry 0 lies past it).
Start ==
  /\ phase = "image"
  /\ IF code = <<>> THEN phase' = "refused" ELSE phase' = "run"
  /\ UNCHANGED <<code, labels, fixups, consts, m>>

Step ==
  /\ phase = "run" /\ m.rc = "runs"
  /\ m' \in OneStep(code, m)
  /\ UNCHANGED <<phase, code, labels, fixups, consts>>

\* cleanup, and the next source.
Again ==
  /\ phase = "refused" \/ (phase = "run" /\ m.rc # "runs")
  /\ phase' = "source" /\ code' = <<>> /\ labels' = {} /\ fixups' = <<>> /\ consts' = {} /\ m' = Fresh(0)

Next == (\E line \in Lines : AssembleLine(line)) \/ BuildImage \/ Start \/ Step \/ Again

Spec == Init /\ [][Next /\ UNCHANGED <<entry, jit>>]_jitVars /\ WF_vars(Start) /\ WF_vars(Step)

-----------------------------------------------------------------------------
\* The code and the stacks keep within their arrays.
TypeOK ==
  /\ phase \in {"source", "image", "run", "refused"}
  /\ Len(code) <= CodeCap /\ Len(fixups) <= FixupMax /\ Cardinality(labels) <= LabelMax
  /\ Len(m.stack) <= StackMax /\ Len(m.rets) <= RetMax /\ m.steps <= StepLimit

\* Wherever jumps, calls and returns lead, and whatever was dropped at the end
\* of a full code buffer, no byte of an operand is taken for an instruction.
NoOperandIsExecuted == m.rc # "strayed"

\* Every program that was started ends, loops included.
EveryRunEnds == phase = "image" ~> phase = "refused" \/ m.rc # "runs"

-----------------------------------------------------------------------------
(* bosl_jit.c.  Native code keeps its context in rdi and its stack pointer  *)
(* in ecx and calls C helpers for shifts and prints, which may use both.    *)

Shifts == {"shl"}
Divisions == {"div", "mod"}
JitOps == {"pushi", "pushk", "neg", "dup", "drop", "swap", "over", "print", "halt", "operand"}
            \cup {"add", "sub", "mul", "and", "or"} \cup Divisions \cup Shifts \cup Compare

\* uses_only_int_ops looks at all of the code, also past a halt.
Translates(c) ==
  /\ \A i \in DOMAIN c : c[i].op \in JitOps
  /\ Cardinality({i \in DOMAIN c : c[i].op \in Divisions}) <= DivMax
  /\ Cardinality({i \in DOMAIN c : c[i].op # "operand"}) <= JitCap
  /\ \A i \in DOMAIN c : c[i].op # "operand" => i + OperandSize(c[i].op) <= Len(c)

-----------------------------------------------------------------------------
(* One emitted instruction.  Slots count from 1, so the top is slot sp.     *)
(* Outside the slots, and once rdi is lost, anything may happen: "wild".    *)

Wild(j) == [j EXCEPT !.rc = "wild"]
Set(j, slot, n) == [j EXCEPT !.slots[slot] = n, !.sp = slot]

Push(j, n) == IF j.sp + 1 \in DOMAIN j.slots THEN Set(j, j.sp + 1, n) ELSE Wild(j)

\* A bug to catch: the operands are taken the other way round.
EmitSwapped(j, op) ==
  IF j.sp < 2 THEN Wild(j)
  ELSE IF op \in Divisions /\ j.slots[j.sp] = 0 THEN [j EXCEPT !.rc = "fault"]
  ELSE Set(j, j.sp - 1, Apply(op, j.slots[j.sp], j.slots[j.sp - 1]))

\* emit_binop_addsubmul, emit_binop_bitwise, emit_cmp_setcc and emit_divmod,
\* whose zero check leaves through the shared epilogue with 14.
EmitBinary(j, op) ==
  IF j.sp < 2 THEN Wild(j)
  ELSE IF op \in Divisions /\ j.slots[j.sp] = 0 THEN [j EXCEPT !.rc = "fault"]
  ELSE Set(j, j.sp - 1, Apply(op, j.slots[j.sp - 1], j.slots[j.sp]))

\* emit_shift_call: the helper shifts by cl, so that ecx holds the count when
\* the result is stored at ecx and ecx counted up.
EmitShift(j, op) ==
  IF j.sp < 2 \/ j.slots[j.sp] + 1 \notin DOMAIN j.slots THEN Wild(j)
  ELSE Set(j, j.slots[j.sp] + 1, Apply(op, j.slots[j.sp - 1], j.slots[j.sp]))

Emit(j, op, arg) ==
  CASE op \in {"pushi", "pushk"} -> Push(j, arg.n)
    [] op = "dup" -> IF j.sp < 1 THEN Wild(j) ELSE Push(j, j.slots[j.sp])
    [] op = "over" -> IF j.sp < 2 THEN Wild(j) ELSE Push(j, j.slots[j.sp - 1])
    [] op = "drop" -> IF j.sp < 1 THEN Wild(j) ELSE [j EXCEPT !.sp = @ - 1]
    [] op = "swap" ->
         IF j.sp < 2 THEN Wild(j)
         ELSE [j EXCEPT !.slots[j.sp] = j.slots[j.sp - 1], !.slots[j.sp - 1] = j.slots[j.sp]]
    [] op = "neg" -> IF j.sp < 1 THEN Wild(j) ELSE Set(j, j.sp, -j.slots[j.sp])
    [] op \in Shifts -> EmitShift(j, op)
    [] op \in Binary \cup Compare -> EmitBinary(j, op)
    [] op = "print" -> IF j.sp < 1 THEN Wild(j) ELSE [j EXCEPT !.sp = @ - 1, !.rdi = "lost"]
    [] op = "halt" -> [j EXCEPT !.rc = "ok"]

\* The end without a halt runs on into the error epilogue, if there is one.
PastTheEnd(j) ==
  IF \E i \in DOMAIN code : code[i].op \in Divisions THEN [j EXCEPT !.rc = "fault"] ELSE Wild(j)

JitStep ==
  /\ jit.rc = "runs"
  /\ jit' = IF jit.rdi = "lost" THEN Wild(jit)
            ELSE IF jit.at > Len(code) THEN PastTheEnd(jit)
            ELSE LET cell == code[jit.at]
                 IN  Emit([jit EXCEPT !.at = @ + 1 + OperandSize(cell.op)], cell.op, cell.arg)
  /\ UNCHANGED <<vars, entry>>

-----------------------------------------------------------------------------
\* bosl_vm_run_jit_io begins at the first instruction, whatever the entry is.
JitInit ==
  /\ phase = "run" /\ labels = {} /\ fixups = <<>> /\ consts = {}
  /\ code \in Images
  /\ entry \in {i - 1 : i \in {k \in DOMAIN code : code[k].op # "operand"}} /\ m = Fresh(entry)
  /\ \E junk \in Answers :
       jit = [at |-> 1, sp |-> 0, slots |-> [i \in 1 .. StackMax |-> junk], rdi |-> "context",
              rc |-> IF Translates(code) THEN "runs" ELSE "interpreter"]

\* They share nothing: the interpreter goes first.
JitNext == (m.rc # "runs" /\ JitStep) \/ (Step /\ UNCHANGED <<entry, jit>>)

-----------------------------------------------------------------------------
\* The native code ends like the interpreter, with the same numbers.
SameEnd ==
  jit.rc = "ok" /\ [i \in 1 .. jit.sp |-> jit.slots[i]] = [i \in DOMAIN m.stack |-> m.stack[i].n]

BothEnded == m.rc = "ok" /\ jit.rc \notin {"runs", "interpreter"}

\* Whatever the native code leaves out - checks of the stack, of types, of the
\* number of steps - a program from its first instruction on that the interpreter
\* completes ends the same in native code, if it calls no helper.
JitMatches ==
  BothEnded /\ entry = 0 /\ (\A i \in DOMAIN code : code[i].op \notin Shifts \cup {"print"}) => SameEnd

\* include/bosl_vm.h:30 says that the JIT compiler translates the program and
\* executes it, or falls back: also the shifts and prints, from the entry on.
JitFollowsImage == BothEnded => SameEnd
=============================================================================
