--------------------------------- MODULE Gc ---------------------------------
(***************************************************************************)
(* The collector of src/os/kernel/gc.c: conservative mark and sweep over   *)
(* blocks taken from kmalloc.  A block has a few words; a word is whatever *)
(* the program or an earlier owner of the memory left there, and counts as *)
(* a pointer when it looks like one.  The kernel has one thread: a program *)
(* allocates, stores pointers, registers its variables as roots and calls  *)
(* gc_run at some point.                                                   *)
(*                                                                         *)
(* A block is identified by its address; a freed address may be given out  *)
(* again.  Left out: pointers into the middle of a block, which find_block *)
(* maps to the block.                                                      *)
(***************************************************************************)
EXTENDS Naturals, Sequences, FiniteSets, SequencesExt

CONSTANTS
  Addresses,  \* where kmalloc can put a block
  WordCount,  \* words in a block
  Vars,       \* the pointer variables of the programs
  MaxRoots,   \* g_roots has 64 entries
  Null

Words == 1 .. WordCount
Values == Addresses \cup {Null}

GcAssumption == Null \notin Addresses /\ WordCount \in Nat /\ MaxRoots \in Nat

VARIABLES
  list,    \* the blocks from g_head, newest first
  memory,  \* the words at each address, in a block or not
  value,   \* the value of each variable
  roots,   \* g_roots
  wanted   \* history: the variables for which gc_add_root was called, and not
           \* gc_remove_root since

vars == <<list, memory, value, roots, wanted>>

-----------------------------------------------------------------------------
Blocks == Range(list)

\* mark(b): the words of a block in order, each followed before the next.
RECURSIVE MarkWords(_, _, _)
MarkWords(b, w, marked) ==
  IF w > WordCount THEN marked
  ELSE LET other == memory[b][w]
       IN  MarkWords(b, w + 1,
                     IF other \in Blocks \ marked THEN MarkWords(other, 1, marked \cup {other})
                                                  ELSE marked)

\* A bug to catch: the words of a block are not looked at.
MarkRootsShallow(marked) == marked \cup ({value[roots[i]] : i \in DOMAIN roots} \cap Blocks)

\* mark_phase: the roots in their order.
RECURSIVE MarkFrom(_, _)
MarkFrom(i, marked) ==
  IF i > Len(roots) THEN marked
  ELSE LET b == value[roots[i]]
       IN  MarkFrom(i + 1, IF b \in Blocks \ marked THEN MarkWords(b, 1, marked \cup {b}) ELSE marked)
MarkRoots(marked) == MarkFrom(1, marked)

\* gc_add_root: a table that is full takes no more and says nothing.
WithRoot(v) ==
  IF Len(roots) >= MaxRoots \/ v \in Range(roots) THEN roots ELSE Append(roots, v)

\* A bug to catch: the table is cut and the last root lost.
WithoutLast(v) == SubSeq(roots, 1, Len(roots) - 1)

\* gc_remove_root: the last root takes the place of the one removed.
Without(v) ==
  LET i == CHOOSE i \in DOMAIN roots : roots[i] = v
  IN  SubSeq([roots EXCEPT ![i] = roots[Len(roots)]], 1, Len(roots) - 1)

-----------------------------------------------------------------------------
\* What a pointer can be followed to, by the definition of reachability.
RECURSIVE Closure(_)
Closure(s) ==
  LET next == s \cup ({memory[b][w] : b \in s, w \in Words} \cap Blocks)
  IN  IF next = s THEN s ELSE Closure(next)

Reachable(vs) == Closure({value[v] : v \in vs} \cap Blocks)

\* gc_init; the heap's memory holds anything.
Init ==
  /\ list = <<>>
  /\ memory = [a \in Addresses |-> [w \in Words |-> Null]]
  /\ value = [v \in Vars |-> Null]
  /\ roots = <<>>
  /\ wanted = {}

\* v = gc_alloc(size): the words are those the memory had.
GcAlloc ==
  \E v \in Vars, a \in Addresses \ Blocks :
    /\ list' = <<a>> \o list
    /\ value' = [value EXCEPT ![v] = a]
    /\ UNCHANGED <<memory, roots, wanted>>

\* v = u, v = *u or v = 0
Assign ==
  \E v \in Vars :
    /\ \/ \E u \in Vars : value' = [value EXCEPT ![v] = value[u]]
       \/ \E u \in Vars, w \in Words :
            /\ value[u] \in Blocks
            /\ memory[value[u]][w] \in Blocks \cup {Null}
            /\ value' = [value EXCEPT ![v] = memory[value[u]][w]]
       \/ value' = [value EXCEPT ![v] = Null]
    /\ UNCHANGED <<list, memory, roots, wanted>>

\* *v = u
Store ==
  \E v \in Vars, w \in Words, u \in Vars :
    /\ value[v] \in Blocks
    /\ memory' = [memory EXCEPT ![value[v]][w] = value[u]]
    /\ UNCHANGED <<list, value, roots, wanted>>

GcAddRoot ==
  \E v \in Vars :
    /\ roots' = WithRoot(v)
    /\ wanted' = wanted \cup {v}
    /\ UNCHANGED <<list, memory, value>>

GcRemoveRoot ==
  \E v \in wanted :
    /\ roots' = IF v \in Range(roots) THEN Without(v) ELSE roots
    /\ wanted' = wanted \ {v}
    /\ UNCHANGED <<list, memory, value>>

\* gc_run.  A program does not use a variable it did not register after it.
GcRun ==
  LET marked == MarkRoots({})
  IN  /\ list # <<>>
      /\ list' = SelectSeq(list, LAMBDA b : b \in marked)
      /\ value' = [v \in Vars |-> IF v \in wanted THEN value[v] ELSE Null]
      /\ UNCHANGED <<memory, roots, wanted>>

Next == GcAlloc \/ Assign \/ Store \/ GcAddRoot \/ GcRemoveRoot \/ GcRun

Spec == Init /\ [][Next]_vars

-----------------------------------------------------------------------------
\* The list has every block once, and so has the table every root.
TypeOK ==
  /\ list \in Seq(Addresses) /\ IsInjective(list)
  /\ memory \in [Addresses -> [Words -> Values]]
  /\ value \in [Vars -> Values]
  /\ roots \in Seq(Vars) /\ IsInjective(roots) /\ Len(roots) <= MaxRoots

\* The roots that gc_run looks at are those that were registered and not
\* removed, whatever was removed before, as long as the table was never full.
RootsAreRegistered ==
  Cardinality(Vars) <= MaxRoots => Range(roots) = wanted

\* gc_run frees exactly what cannot be reached from a root, cycles included,
\* by the definition of reachability and not by the order of the marking.
ExactStep ==
  list' # list /\ Len(list') <= Len(list) =>
    Range(list') = Reachable(Range(roots))
CollectsExactly == [][ExactStep]_vars
=============================================================================
