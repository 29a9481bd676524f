------------------------------ MODULE MCMemory ------------------------------
(***************************************************************************)
(* The kernel's memory: the heap (Mem) and the collector (Gc), each on its *)
(* own while the other rests; `part` says which.  The collector only needs *)
(* of the heap that the blocks it is given are disjoint and in use, which  *)
(* is HeapIsSound of Mem.                                                  *)
(***************************************************************************)
EXTENDS Mem, Sequences, TLC

CONSTANTS Addresses, Vars, Null

VARIABLES list, memory, value, roots, wanted, part

Collector == INSTANCE Gc WITH WordCount <- 2, MaxRoots <- 2

ASSUME Collector!GcAssumption

\* coalesce as the loop it is: the list of headers, the first of which is looked
\* at.  What it makes of up to six blocks in a row is what Coalesced says.
ListedBlocks == [addr : Nat, size : Nat, free : {0, 1}]
Walk[hs \in Seq(ListedBlocks)] ==
  IF Len(hs) <= 1 THEN hs
  ELSE IF hs[1].free = 1 /\ hs[2].free = 1 /\ hs[1].addr + HeaderSize + hs[1].size = hs[2].addr
    THEN <<[hs[1] EXCEPT !.size = @ + HeaderSize + hs[2].size]>> \o Walk[SubSeq(hs, 3, Len(hs))]
    ELSE <<hs[1]>> \o Walk[Tail(hs)]

InARow(flags) == [a \in {20 * k : k \in DOMAIN flags} |-> [size |-> 8, free |-> flags[a \div 20]]]
Listed(hs) == [a \in {hs[i].addr : i \in DOMAIN hs} |->
                 LET i == CHOOSE j \in DOMAIN hs : hs[j].addr = a
                 IN  [size |-> hs[i].size, free |-> hs[i].free]]

ASSUME WalkIsCoalesced ==
  \A n \in 1 .. 6 : \A flags \in [1 .. n -> {0, 1}] :
    LET headers == [k \in 1 .. n |-> [addr |-> 20 * k, size |-> 8, free |-> flags[k]]]
    IN  Coalesced(InARow(flags)) = Listed(Walk[headers])

gcVars == <<list, memory, value, roots, wanted>>

MCInit == Init /\ Collector!Init /\ part \in {"heap", "collector"}

MCNext ==
  /\ UNCHANGED part
  /\ \/ part = "heap" /\ Next /\ UNCHANGED gcVars
     \/ part = "collector" /\ Collector!Next /\ UNCHANGED vars

MCSpec == MCInit /\ [][MCNext]_<<vars, gcVars, part>>

MCSymmetry == Permutations(Addresses) \cup Permutations(Vars)

\* gc_run frees what no root reaches and nothing else, and the roots are those
\* that were registered.
CollectsExactly == Collector!CollectsExactly /\ [](Collector!TypeOK /\ Collector!RootsAreRegistered)
=============================================================================
