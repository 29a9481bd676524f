-------------------------------- MODULE Mem ---------------------------------
(***************************************************************************)
(* The kernel heap, src/os/kernel/mem.c: a list of blocks in address       *)
(* order, first fit, split on allocation and merged on kfree.  A block is  *)
(* its header, at an address, with the size of the payload and the free    *)
(* flag; the `next` of a header is the header with the next higher address.*)
(* Pointers and sizes are uint32_t: sums are taken modulo Word where they  *)
(* could reach it.  Callers only free what kmalloc gave them and once,     *)
(* which is what kfree relies on.                                          *)
(***************************************************************************)
EXTENDS Integers, FiniteSets, FiniteSetTheorems, TLAPS

CONSTANTS
  Word,       \* 2^32
  HeapStart,  \* g_heap_start, aligned
  HeapSize,   \* HEAP_DEFAULT_SIZE
  Requests,   \* sizes callers ask for
  MaxLive     \* bound: pointers held at a time

HeaderSize == 12
Alignment == 16
HeapEnd == HeapStart + HeapSize

ASSUME HeapAssumption ==
  /\ HeapStart \in Nat \ {0} /\ HeapSize \in Nat /\ HeapSize > HeaderSize
  /\ Word \in Nat /\ HeapEnd < Word
\* kmalloc(2^32 - 15) and above would be rounded up to nothing.
ASSUME RequestAssumption == Requests \subseteq Nat /\ \A size \in Requests : size <= Word - Alignment
ASSUME BoundAssumption == MaxLive \in Nat

VARIABLES
  blocks,  \* the headers from g_free_list on: addresses to [size, free]
  live     \* what the callers hold: a set of [ptr, size]

vars == <<blocks, live>>

Headers == [size : Nat, free : {0, 1}]

-----------------------------------------------------------------------------
\* align_up(v, ALIGNMENT)
AlignUp(v) == LET w == (v + (Alignment - 1)) % Word IN w - (w % Alignment)

EndOf(bs, a) == a + HeaderSize + bs[a].size

\* A bug to catch: the remainder is cut off without counting its header.
SplitNoHeader(bs, a, want) ==
  LET new == AlignUp(a + HeaderSize + want)
      end == EndOf(bs, a)
  IN  IF bs[a].size < want + HeaderSize + Alignment
        THEN bs
        ELSE [x \in DOMAIN bs \cup {new} |->
                IF x = new THEN [size |-> end - new, free |-> 1]
                ELSE IF x = a THEN [bs[x] EXCEPT !.size = new - a - HeaderSize]
                ELSE bs[x]]

\* split_block: the block keeps what it is asked for, and a remainder with room
\* for a header and some payload becomes a block of its own.
Split(bs, a, want) ==
  LET new == AlignUp(a + HeaderSize + want)
      end == EndOf(bs, a)
  IN  IF \/ bs[a].size < want + HeaderSize + Alignment
         \/ new >= end
         \/ new + HeaderSize > end
        THEN bs
        ELSE [x \in DOMAIN bs \cup {new} |->
                IF x = new THEN [size |-> end - (new + HeaderSize), free |-> 1]
                ELSE IF x = a THEN [bs[x] EXCEPT !.size = new - a - HeaderSize]
                ELSE bs[x]]

\* h->free = f
Marked(bs, a, f) == [bs EXCEPT ![a].free = f]

\* The `next` of a header.
IsNext(bs, a, n) == n \in DOMAIN bs /\ a < n /\ \A x \in DOMAIN bs : a < x => n <= x

\* Two neighbours that coalesce would merge, if it looked at the first.
Joins(bs, a) ==
  /\ bs[a].free = 1
  /\ LET n == EndOf(bs, a) IN IsNext(bs, a, n) /\ bs[n].free = 1

\* The blocks that lead up to one, each joining the next.
Lead(bs, a) == {x \in DOMAIN bs : x < a /\ \A y \in DOMAIN bs : x <= y /\ y < a => Joins(bs, y)}

\* coalesce merges a block with its neighbour and goes on behind the two: of
\* blocks that lead up to each other it takes the first with the second, the
\* third with the fourth, and so on.
Merging(bs) == {a \in DOMAIN bs : Joins(bs, a) /\ Cardinality(Lead(bs, a)) % 2 = 0}
Gone(bs) == {EndOf(bs, a) : a \in Merging(bs)}

Coalesced(bs) ==
  [a \in DOMAIN bs \ Gone(bs) |->
     IF a \in Merging(bs) THEN [bs[a] EXCEPT !.size = @ + HeaderSize + bs[EndOf(bs, a)].size]
                          ELSE bs[a]]

\* The blocks with room enough, and the one the search of kmalloc stops at.
Fits(want) == {a \in DOMAIN blocks : blocks[a].free = 1 /\ blocks[a].size >= want}
FirstFit(a, want) == a \in Fits(want) /\ \A b \in Fits(want) : a <= b

-----------------------------------------------------------------------------
\* mem_init
Init ==
  /\ blocks = [a \in {HeapStart} |-> [size |-> HeapSize - HeaderSize, free |-> 1]]
  /\ live = {}

\* kmalloc; 0 bytes, or more than any free block has, is a null pointer.
Kmalloc ==
  \E size \in Requests, a \in DOMAIN blocks :
    LET want == AlignUp(size)
    IN  /\ Cardinality(live) < MaxLive
        /\ size # 0
        /\ FirstFit(a, want)
        /\ blocks' = Marked(Split(blocks, a, want), a, 0)
        /\ live' = live \cup {[ptr |-> a + HeaderSize, size |-> size]}

\* kfree of a pointer that is held
Kfree ==
  \E p \in live :
    /\ blocks' = Coalesced(Marked(blocks, p.ptr - HeaderSize, 1))
    /\ live' = live \ {p}

Next == Kmalloc \/ Kfree

Spec == Init /\ [][Next]_vars

-----------------------------------------------------------------------------
\* Headers are where blocks start, and callers hold what they asked for.
TypeOK ==
  /\ DOMAIN blocks \subseteq HeapStart .. HeapEnd
  /\ blocks \in [DOMAIN blocks -> Headers]
  /\ live \subseteq [ptr : Nat, size : Requests]

\* Whatever was split and merged, the blocks still fill the heap from end to
\* end: no byte is in two blocks or in none.
Tiles(bs) ==
  /\ HeapStart \in DOMAIN bs
  /\ \A a \in DOMAIN bs : EndOf(bs, a) \in DOMAIN bs \cup {HeapEnd}
  /\ \A a \in DOMAIN bs : a # HeapStart => \E b \in DOMAIN bs : EndOf(bs, b) = a
  /\ \A a, b \in DOMAIN bs : a < b => EndOf(bs, a) <= b

\* Each pointer that is held has a block of its own, in use, with room for what
\* was asked for, and a block that is in use is one somebody holds.
LiveBlocksInUse ==
  /\ \A p \in live :
       /\ p.ptr - HeaderSize \in DOMAIN blocks
       /\ blocks[p.ptr - HeaderSize].free = 0
       /\ blocks[p.ptr - HeaderSize].size >= p.size
  /\ \A p, q \in live : p.ptr = q.ptr => p = q
  /\ \A a \in DOMAIN blocks : blocks[a].free = 0 => \E p \in live : p.ptr = a + HeaderSize

\* In the whole heap there is at most one pair of free neighbours, although the
\* walk goes on behind a merged block (the comment at mem.c:90 means to "merge
\* multiple in a row").
OnePairUnmerged == \A a, b \in DOMAIN blocks : Joins(blocks, a) /\ Joins(blocks, b) => a = b

\* The list of blocks is sound: every byte is in one block, every pointer that
\* is held has a block of its own, and free ones are merged but for one pair.
HeapIsSound == Tiles(blocks) /\ LiveBlocksInUse /\ OnePairUnmerged
-----------------------------------------------------------------------------
(***************************************************************************)
(* The heap is sound, for every heap and every size that is asked for.     *)
(***************************************************************************)
Heaps == UNION {[D -> Headers] : D \in SUBSET (HeapStart .. HeapEnd)}

LEMMA HeapType ==
  ASSUME NEW bs \in Heaps
  PROVE  /\ DOMAIN bs \subseteq HeapStart .. HeapEnd /\ bs \in [DOMAIN bs -> Headers]
         /\ IsFiniteSet(DOMAIN bs)
         /\ \A a \in DOMAIN bs : /\ a \in Nat /\ bs[a].size \in Nat /\ bs[a].free \in {0, 1}
                                 /\ EndOf(bs, a) \in Nat /\ EndOf(bs, a) > a
<1>1. PICK D \in SUBSET (HeapStart .. HeapEnd) : bs \in [D -> Headers]
  BY DEF Heaps
<1>2. DOMAIN bs = D
  BY <1>1
<1>3. HeapStart \in Nat /\ HeapEnd \in Nat
  BY HeapAssumption DEF HeapEnd
<1>4. IsFiniteSet(HeapStart .. HeapEnd)
  BY <1>3, FS_Interval
<1>5. IsFiniteSet(DOMAIN bs)
  BY <1>2, <1>4, FS_Subset
<1>6. ASSUME NEW a \in DOMAIN bs
      PROVE  /\ a \in Nat /\ bs[a].size \in Nat /\ bs[a].free \in {0, 1}
             /\ EndOf(bs, a) \in Nat /\ EndOf(bs, a) > a
  BY <1>1, <1>2, <1>3 DEF Headers, EndOf, HeaderSize
<1> QED
  BY <1>1, <1>2, <1>5, <1>6

\* A block that joins its neighbour: the two are free, and the one ends where the
\* other begins.
LEMMA JoinsNext ==
  ASSUME NEW bs \in Heaps, Tiles(bs), NEW a \in DOMAIN bs
  PROVE  Joins(bs, a) <=> bs[a].free = 1 /\ EndOf(bs, a) \in DOMAIN bs /\ bs[EndOf(bs, a)].free = 1
<1>1. EndOf(bs, a) \in DOMAIN bs => IsNext(bs, a, EndOf(bs, a))
  BY HeapType DEF IsNext, Tiles
<1> QED
  BY <1>1 DEF Joins, IsNext

\* No two blocks end at the same place.
LEMMA EndsApart ==
  ASSUME NEW bs \in Heaps, Tiles(bs), NEW a \in DOMAIN bs, NEW b \in DOMAIN bs, EndOf(bs, a) = EndOf(bs, b)
  PROVE  a = b
<1>1. a \in Nat /\ b \in Nat /\ EndOf(bs, a) > a /\ EndOf(bs, b) > b
  BY HeapType
<1>2. (a < b => EndOf(bs, a) <= b) /\ (b < a => EndOf(bs, b) <= a)
  BY DEF Tiles
<1>3. EndOf(bs, a) \in Nat
  BY HeapType
<1> QED
  BY <1>1, <1>2, <1>3

\* The neighbour of a block that joins has one more block leading up to it.
LEMMA LeadGrows ==
  ASSUME NEW bs \in Heaps, Tiles(bs), NEW a \in DOMAIN bs, Joins(bs, a)
  PROVE  /\ EndOf(bs, a) \in DOMAIN bs
         /\ Cardinality(Lead(bs, a)) \in Nat
         /\ Cardinality(Lead(bs, EndOf(bs, a))) = Cardinality(Lead(bs, a)) + 1
<1> DEFINE n == EndOf(bs, a)
<1>1. n \in DOMAIN bs /\ a < n /\ a \in Nat /\ n \in Nat /\ \A x \in DOMAIN bs : x \in Nat
  BY JoinsNext, HeapType
<1>2. \A x \in DOMAIN bs : x < n <=> x = a \/ x < a
  <2> TAKE x \in DOMAIN bs
  <2>1. a < x => n <= x
    BY DEF Tiles
  <2> HIDE DEF n
  <2> QED
    BY <1>1, <2>1
<1>3. Lead(bs, n) = Lead(bs, a) \cup {a}
  <2>1. a \in Lead(bs, n)
    BY <1>1, <1>2 DEF Lead
  <2>2. \A x \in DOMAIN bs : x # a => (x \in Lead(bs, n) <=> x \in Lead(bs, a))
    BY <1>1, <1>2 DEF Lead
  <2>3. Lead(bs, n) \subseteq DOMAIN bs /\ Lead(bs, a) \subseteq DOMAIN bs
    BY DEF Lead
  <2> QED
    BY <2>1, <2>2, <2>3
<1>4. a \notin Lead(bs, a)
  BY <1>1 DEF Lead
<1>5. IsFiniteSet(Lead(bs, a))
  BY HeapType, FS_Subset DEF Lead
<1>6. Cardinality(Lead(bs, a)) \in Nat /\ Cardinality(Lead(bs, a) \cup {a}) = Cardinality(Lead(bs, a)) + 1
  BY <1>4, <1>5, FS_CardinalityType, FS_AddElement
<1> QED
  BY <1>1, <1>3, <1>6

\* Who is merged away is not itself merged with the next, and of two blocks that
\* join, either the first is merged with the second or with the one before.
LEMMA MergesAlternate ==
  ASSUME NEW bs \in Heaps, Tiles(bs), NEW a \in DOMAIN bs, Joins(bs, a)
  PROVE  EndOf(bs, a) \in DOMAIN bs /\ (a \in Merging(bs) => EndOf(bs, a) \notin Merging(bs))
<1>1. PICK k \in Nat : /\ k = Cardinality(Lead(bs, a)) /\ k + 1 = Cardinality(Lead(bs, EndOf(bs, a)))
                       /\ EndOf(bs, a) \in DOMAIN bs
  BY LeadGrows
<1>2. k % 2 = 0 => (k + 1) % 2 # 0
  OBVIOUS
<1> QED
  BY <1>1, <1>2 DEF Merging

LEMMA UnmergedIsGone ==
  ASSUME NEW bs \in Heaps, Tiles(bs), NEW a \in DOMAIN bs, Joins(bs, a), a \notin Merging(bs)
  PROVE  a \in Gone(bs)
<1>1. PICK k \in Nat : k = Cardinality(Lead(bs, a)) /\ k % 2 # 0
  BY LeadGrows DEF Merging
<1>2. Lead(bs, a) # {}
  BY <1>1, FS_EmptySet
<1>3. PICK x \in DOMAIN bs : x < a /\ \A y \in DOMAIN bs : x <= y /\ y < a => Joins(bs, y)
  BY <1>2 DEF Lead
<1>4. /\ a # HeapStart
      /\ \A y \in DOMAIN bs : y \in Nat
  BY <1>3, HeapType, HeapAssumption DEF HeapEnd
<1>5. PICK p \in DOMAIN bs : EndOf(bs, p) = a
  BY <1>4 DEF Tiles
<1>6. p < a /\ x <= p
  BY <1>3, <1>4, <1>5, HeapType DEF Tiles
<1>7. Joins(bs, p)
  BY <1>3, <1>6
<1>8. PICK l \in Nat : l = Cardinality(Lead(bs, p)) /\ k = l + 1
  BY <1>1, <1>5, <1>7, LeadGrows
<1>9. l % 2 = 0
  BY <1>1, <1>8
<1> QED
  BY <1>5, <1>7, <1>8, <1>9 DEF Merging, Gone
\* Merging pairs of neighbours leaves the heap tiled, with one pair at most where
\* there were three joins at most, and touches no block that is in use.
LEMMA CoalescedParts ==
  ASSUME NEW bs \in Heaps, Tiles(bs)
  PROVE  /\ Coalesced(bs) \in Heaps
         /\ DOMAIN Coalesced(bs) = DOMAIN bs \ Gone(bs)
         /\ \A a \in DOMAIN bs \ Gone(bs) :
              IF a \in Merging(bs)
                THEN /\ bs[a].free = 1 /\ Coalesced(bs)[a].free = 1
                     /\ EndOf(bs, a) \in DOMAIN bs
                     /\ EndOf(Coalesced(bs), a) = EndOf(bs, EndOf(bs, a))
                ELSE Coalesced(bs)[a] = bs[a] /\ EndOf(Coalesced(bs), a) = EndOf(bs, a)
<1> DEFINE cs == Coalesced(bs)
<1>1. DOMAIN cs = DOMAIN bs \ Gone(bs) /\ DOMAIN bs \ Gone(bs) \in SUBSET (HeapStart .. HeapEnd)
  BY HeapType DEF Coalesced
<1>2. ASSUME NEW a \in DOMAIN bs \ Gone(bs), a \in Merging(bs)
      PROVE  /\ bs[a].free = 1 /\ cs[a].free = 1 /\ EndOf(bs, a) \in DOMAIN bs /\ cs[a] \in Headers
             /\ EndOf(cs, a) = EndOf(bs, EndOf(bs, a))
  <2>1. bs[a].free = 1 /\ EndOf(bs, a) \in DOMAIN bs
    BY <1>2, JoinsNext DEF Merging
  <2>2. bs[a] \in Headers /\ bs[a].size \in Nat /\ a \in Nat /\ bs[EndOf(bs, a)].size \in Nat
    BY <2>1, HeapType
  <2>3. cs[a] = [bs[a] EXCEPT !.size = @ + HeaderSize + bs[EndOf(bs, a)].size]
    BY <1>2 DEF Coalesced
  <2>4. cs[a] \in Headers /\ cs[a].free = 1 /\ cs[a].size = bs[a].size + HeaderSize + bs[EndOf(bs, a)].size
    BY <2>1, <2>2, <2>3 DEF Headers, HeaderSize
  <2>5. EndOf(cs, a) = EndOf(bs, EndOf(bs, a))
    BY <2>2, <2>4 DEF EndOf, HeaderSize
  <2> QED
    BY <2>1, <2>4, <2>5
<1>3. ASSUME NEW a \in DOMAIN bs \ Gone(bs), a \notin Merging(bs)
      PROVE  cs[a] = bs[a] /\ EndOf(cs, a) = EndOf(bs, a) /\ cs[a] \in Headers
  BY <1>3, HeapType DEF Coalesced, EndOf
<1>4. cs \in [DOMAIN bs \ Gone(bs) -> Headers]
  <2>1. \A a \in DOMAIN bs \ Gone(bs) : cs[a] \in Headers
    BY <1>2, <1>3
  <2> QED
    BY <1>1, <2>1 DEF Coalesced
<1> HIDE DEF cs
<1>5. cs \in Heaps
  BY <1>1, <1>4 DEF Heaps
<1> QED
  BY <1>1, <1>2, <1>3, <1>5 DEF cs

LEMMA CoalescedTiles ==
  ASSUME NEW bs \in Heaps, Tiles(bs)
  PROVE  Tiles(Coalesced(bs))
<1> DEFINE cs == Coalesced(bs)
           D == DOMAIN bs
<1>1. /\ DOMAIN cs = D \ Gone(bs)
      /\ \A a \in D \ Gone(bs) :
           IF a \in Merging(bs) THEN EndOf(bs, a) \in D /\ EndOf(cs, a) = EndOf(bs, EndOf(bs, a))
                                ELSE EndOf(cs, a) = EndOf(bs, a)
  BY CoalescedParts
<1> HIDE DEF cs
<1>2. /\ HeapStart \in Nat /\ HeapEnd \in Nat
      /\ \A a \in D : a \in Nat /\ a >= HeapStart /\ EndOf(bs, a) \in Nat /\ EndOf(bs, a) > a
  BY HeapType, HeapAssumption DEF HeapEnd
<1>3. \A a \in Merging(bs) : a \in D /\ Joins(bs, a) /\ EndOf(bs, a) \in D /\ EndOf(bs, a) \notin Merging(bs)
  BY MergesAlternate DEF Merging
<1>4. \A g : g \in Gone(bs) <=> \E a \in Merging(bs) : EndOf(bs, a) = g
  BY DEF Gone
<1>5. \A a \in Merging(bs) : a \notin Gone(bs)
  BY <1>3, <1>4
<1>6. \A a, b \in D : EndOf(bs, a) = EndOf(bs, b) => a = b
  BY EndsApart
<1>7. HeapStart \in DOMAIN cs
  <2>1. HeapStart \notin Gone(bs)
    BY <1>2, <1>3, <1>4
  <2> QED
    BY <1>1, <2>1 DEF Tiles
<1>8. ASSUME NEW a \in DOMAIN cs PROVE EndOf(cs, a) \in DOMAIN cs \cup {HeapEnd}
  <2>1. CASE a \in Merging(bs)
    <3>1. EndOf(bs, a) \in D /\ EndOf(bs, a) \notin Merging(bs) /\ EndOf(cs, a) = EndOf(bs, EndOf(bs, a))
      BY <1>1, <1>3, <2>1
    <3>2. EndOf(cs, a) \notin Gone(bs)
      BY <1>3, <1>4, <1>6, <3>1
    <3>3. EndOf(cs, a) \in D \cup {HeapEnd}
      BY <3>1 DEF Tiles
    <3> QED
      BY <1>1, <3>2, <3>3
  <2>2. CASE a \notin Merging(bs)
    <3>1. a \in D /\ EndOf(cs, a) = EndOf(bs, a)
      BY <1>1, <2>2
    <3>2. EndOf(cs, a) \notin Gone(bs)
      BY <1>3, <1>4, <1>6, <2>2, <3>1
    <3>3. EndOf(cs, a) \in D \cup {HeapEnd}
      BY <3>1 DEF Tiles
    <3> QED
      BY <1>1, <3>2, <3>3
  <2> QED
    BY <2>1, <2>2
<1>9. ASSUME NEW a \in DOMAIN cs, a # HeapStart PROVE \E b \in DOMAIN cs : EndOf(cs, b) = a
  <2>1. PICK b \in D : EndOf(bs, b) = a
    BY <1>1, <1>9 DEF Tiles
  <2>2. b \notin Merging(bs)
    BY <1>1, <1>4, <2>1
  <2>3. CASE b \notin Gone(bs)
    BY <1>1, <2>1, <2>2, <2>3
  <2>4. CASE b \in Gone(bs)
    <3>1. PICK p \in Merging(bs) : EndOf(bs, p) = b
      BY <1>4, <2>4
    <3>2. p \in DOMAIN cs /\ EndOf(cs, p) = a
      BY <1>1, <1>3, <1>5, <2>1, <3>1
    <3> QED
      BY <3>2
  <2> QED
    BY <2>3, <2>4
<1>10. ASSUME NEW a \in DOMAIN cs, NEW b \in DOMAIN cs, a < b PROVE EndOf(cs, a) <= b
  <2>1. a \in D /\ b \in D /\ EndOf(bs, a) <= b
    BY <1>1, <1>10 DEF Tiles
  <2>2. CASE a \in Merging(bs)
    <3>1. EndOf(bs, a) \in D /\ EndOf(bs, a) # b /\ EndOf(cs, a) = EndOf(bs, EndOf(bs, a))
      BY <1>1, <1>4, <2>2
    <3>2. EndOf(bs, a) < b
      BY <1>2, <2>1, <3>1
    <3> QED
      BY <2>1, <3>1, <3>2 DEF Tiles
  <2>3. CASE a \notin Merging(bs)
    BY <1>1, <2>1, <2>3
  <2> QED
    BY <2>2, <2>3
<1>11. Tiles(cs)
  BY <1>7, <1>8, <1>9, <1>10 DEF Tiles
<1> QED
  BY <1>11 DEF cs

\* A pair that is left comes from three blocks that joined, the first two of which
\* are now one.
LEMMA PairsLeft ==
  ASSUME NEW bs \in Heaps, Tiles(bs), NEW a \in DOMAIN Coalesced(bs), Joins(Coalesced(bs), a)
  PROVE  /\ a \in DOMAIN bs /\ a \notin Gone(bs) /\ Joins(bs, a)
         /\ EndOf(bs, a) \in DOMAIN bs /\ EndOf(bs, a) \in Gone(bs) /\ Joins(bs, EndOf(bs, a))
<1> DEFINE cs == Coalesced(bs)
           n == EndOf(cs, a)
<1>1. cs \in Heaps /\ Tiles(cs)
  BY CoalescedParts, CoalescedTiles
<1>2. cs[a].free = 1 /\ n \in DOMAIN cs /\ cs[n].free = 1
  BY <1>1, JoinsNext
<1>3. a \in DOMAIN bs /\ a \notin Gone(bs) /\ n \in DOMAIN bs /\ bs[n].free = 1
  BY <1>2, CoalescedParts
<1>4. CASE a \in Merging(bs)
  <2>1. Joins(bs, a) /\ EndOf(bs, a) \in DOMAIN bs /\ EndOf(bs, a) \in Gone(bs) /\ n = EndOf(bs, EndOf(bs, a))
    BY <1>3, <1>4, CoalescedParts DEF Merging, Gone
  <2>2. bs[EndOf(bs, a)].free = 1
    BY <1>3, <2>1, JoinsNext
  <2>3. Joins(bs, EndOf(bs, a))
    BY <1>3, <2>1, <2>2, JoinsNext
  <2> QED
    BY <1>3, <2>1, <2>3
<1>5. CASE a \notin Merging(bs)
  <2>1. bs[a].free = 1 /\ n = EndOf(bs, a)
    BY <1>2, <1>3, <1>5, CoalescedParts
  <2>2. Joins(bs, a)
    BY <1>3, <2>1, JoinsNext
  <2> QED
    BY <1>3, <1>5, <2>2, UnmergedIsGone
<1> QED
  BY <1>4, <1>5
\* align_up gives at least what it is asked for, as long as the sum fits.
LEMMA AlignedUp ==
  ASSUME NEW v \in Nat, v + Alignment - 1 < Word
  PROVE  AlignUp(v) \in Nat /\ AlignUp(v) >= v
<1> DEFINE s == v + (Alignment - 1)
<1>1. s \in Nat /\ s < Word /\ Word \in Nat /\ s = v + 15
  BY HeapAssumption DEF Alignment
<1> HIDE DEF s
<1>2. PICK w \in Nat : w = Word
  BY <1>1
<1>3. s % w = s
  BY <1>1, <1>2, SMT
<1>4. AlignUp(v) = s - (s % 16)
  BY <1>2, <1>3 DEF AlignUp, Alignment, s
<1>5. s % 16 \in 0 .. 15
  BY <1>1
<1> QED
  BY <1>1, <1>4, <1>5

\* A block of bs is two in ss, the second of which starts at new and is free.
IsCut(bs, ss, a, want, new) ==
  /\ a < new /\ new < EndOf(bs, a) /\ new \notin DOMAIN bs /\ new \in HeapStart .. HeapEnd
  /\ DOMAIN ss = DOMAIN bs \cup {new}
  /\ ss \in [DOMAIN bs \cup {new} -> Headers]
  /\ EndOf(ss, a) = new
  /\ ss[a].size >= want /\ ss[a].free = bs[a].free
  /\ EndOf(ss, new) = EndOf(bs, a) /\ ss[new].free = 1
  /\ \A x \in DOMAIN bs : x # a => ss[x] = bs[x]

\* What split_block makes of a block: the block, or the block and a remainder that
\* is free and lies behind it.
LEMMA SplitParts ==
  ASSUME NEW bs \in Heaps, Tiles(bs), NEW a \in DOMAIN bs, NEW want \in Nat, bs[a].size >= want
  PROVE  \/ Split(bs, a, want) = bs
         \/ \E new \in Nat : IsCut(bs, Split(bs, a, want), a, want, new)
<1> DEFINE new == AlignUp(a + HeaderSize + want)
           end == EndOf(bs, a)
           ss == Split(bs, a, want)
<1>1. /\ a \in Nat /\ bs[a].size \in Nat /\ end = a + 12 + bs[a].size /\ end \in Nat
      /\ HeapStart \in Nat /\ HeapEnd \in Nat /\ Word \in Nat /\ HeapEnd < Word
      /\ HeapStart <= a /\ end <= HeapEnd /\ HeaderSize = 12
  <2>1. /\ a \in HeapStart .. HeapEnd /\ end \in DOMAIN bs \cup {HeapEnd}
        /\ DOMAIN bs \subseteq HeapStart .. HeapEnd
    BY HeapType DEF Tiles
  <2> QED
    BY <2>1, HeapType, HeapAssumption DEF HeapEnd, EndOf, HeaderSize
<1>2. CASE \/ bs[a].size < want + HeaderSize + Alignment
           \/ new >= end
           \/ new + HeaderSize > end
  BY <1>2 DEF Split
<1>3. CASE /\ bs[a].size >= want + HeaderSize + Alignment
           /\ new < end /\ new + HeaderSize <= end
  <2>1. new \in Nat /\ new >= a + 12 + want
    <3>1. a + HeaderSize + want \in Nat /\ (a + HeaderSize + want) + Alignment - 1 < Word
      BY <1>1, <1>3 DEF HeaderSize, Alignment
    <3> QED
      BY <1>1, <3>1, AlignedUp
  <2>2. ss = [x \in DOMAIN bs \cup {new} |->
                IF x = new THEN [size |-> end - (new + HeaderSize), free |-> 1]
                ELSE IF x = a THEN [bs[x] EXCEPT !.size = new - a - HeaderSize]
                ELSE bs[x]]
    <3>1. ~(\/ bs[a].size < want + HeaderSize + Alignment
            \/ new >= end
            \/ new + HeaderSize > end)
      BY <1>1, <1>3, <2>1 DEF HeaderSize, Alignment
    <3> QED
      BY <3>1 DEF Split
  <2> HIDE DEF new, end, ss
  <2>3. /\ a < new /\ new < end /\ new \in HeapStart .. HeapEnd
        /\ end - (new + HeaderSize) \in Nat /\ new - a - HeaderSize \in Nat /\ new - a - HeaderSize >= want
    BY <1>1, <1>3, <2>1
  <2>4. new \notin DOMAIN bs
    BY <1>1, <2>1, <2>3 DEF Tiles, end
  <2>5. /\ ss[new] = [size |-> end - (new + HeaderSize), free |-> 1]
        /\ ss[a] = [bs[a] EXCEPT !.size = new - a - HeaderSize]
        /\ \A x \in DOMAIN bs : x # a => ss[x] = bs[x]
        /\ DOMAIN ss = DOMAIN bs \cup {new}
    BY <2>2, <2>4
  <2>6. bs[a] \in Headers /\ \A x \in DOMAIN bs : bs[x] \in Headers
    BY HeapType
  <2>7. /\ ss[new] \in Headers /\ ss[new].size = end - (new + HeaderSize) /\ ss[new].free = 1
        /\ ss[a] \in Headers /\ ss[a].size = new - a - HeaderSize /\ ss[a].free = bs[a].free
    BY <2>3, <2>5, <2>6 DEF Headers
  <2>8. \A x \in DOMAIN bs \cup {new} : ss[x] \in Headers
    BY <2>5, <2>6, <2>7
  <2>9. ss \in [DOMAIN bs \cup {new} -> Headers]
    BY <2>2, <2>8
  <2>10. EndOf(ss, a) = new /\ EndOf(ss, new) = end
    BY <1>1, <2>1, <2>7 DEF EndOf
  <2> QED
    BY <2>1, <2>3, <2>4, <2>5, <2>7, <2>9, <2>10 DEF ss, end, IsCut
<1>4. CASE bs[a].size >= want + HeaderSize + Alignment
  <2>1. new \in Nat
    <3>1. a + HeaderSize + want \in Nat /\ (a + HeaderSize + want) + Alignment - 1 < Word
      BY <1>1, <1>4 DEF HeaderSize, Alignment
    <3> QED
      BY <3>1, AlignedUp
  <2> HIDE DEF new, end
  <2>2. (new >= end \/ new + HeaderSize > end) \/ (new < end /\ new + HeaderSize <= end)
    BY <1>1, <2>1
  <2>3. CASE new >= end \/ new + HeaderSize > end
    BY <1>2, <2>3
  <2>4. CASE new < end /\ new + HeaderSize <= end
    BY <1>3, <1>4, <2>4
  <2> QED
    BY <2>2, <2>3, <2>4
<1>5. bs[a].size >= want + HeaderSize + Alignment \/ bs[a].size < want + HeaderSize + Alignment
  BY <1>1 DEF Alignment
<1> QED
  BY <1>2, <1>4, <1>5

\* A block that is free or has become used leaves the tiling as it is.
LEMMA MarkedTiles ==
  ASSUME NEW bs \in Heaps, NEW a \in DOMAIN bs, NEW f \in {0, 1}
  PROVE  /\ Marked(bs, a, f) \in Heaps /\ DOMAIN Marked(bs, a, f) = DOMAIN bs
         /\ \A x \in DOMAIN bs : EndOf(Marked(bs, a, f), x) = EndOf(bs, x)
         /\ Marked(bs, a, f)[a].free = f /\ Marked(bs, a, f)[a].size = bs[a].size
         /\ \A x \in DOMAIN bs : x # a => Marked(bs, a, f)[x] = bs[x]
         /\ Tiles(bs) => Tiles(Marked(bs, a, f))
<1> DEFINE fs == Marked(bs, a, f)
<1>1. /\ DOMAIN fs = DOMAIN bs /\ DOMAIN bs \in SUBSET (HeapStart .. HeapEnd)
      /\ fs[a] = [bs[a] EXCEPT !.free = f]
      /\ \A x \in DOMAIN bs : x # a => fs[x] = bs[x]
  BY HeapType DEF Marked
<1>2. \A x \in DOMAIN bs : bs[x] \in Headers
  BY HeapType
<1>3. fs[a] \in Headers /\ fs[a].size = bs[a].size /\ fs[a].free = f
  <2>1. bs[a] \in Headers
    BY <1>2
  <2> QED
    BY <1>1, <2>1 DEF Headers
<1> HIDE DEF fs
<1>4. \A x \in DOMAIN bs : fs[x] \in Headers /\ fs[x].size = bs[x].size
  BY <1>1, <1>2, <1>3
<1>5. fs \in Heaps
  <2>1. fs \in [DOMAIN bs -> Headers]
    BY <1>1, <1>4 DEF fs, Marked
  <2> QED
    BY <1>1, <2>1 DEF Heaps
<1>6. \A x \in DOMAIN bs : EndOf(fs, x) = EndOf(bs, x)
  BY <1>4 DEF EndOf
<1>7. Tiles(bs) => Tiles(fs)
  BY <1>1, <1>6 DEF Tiles
<1> QED
  BY <1>1, <1>3, <1>5, <1>6, <1>7 DEF fs
\* Splitting a block that is then used: the heap stays tiled, and no new pair of
\* free neighbours comes about.
LEMMA AllocatedTiles ==
  ASSUME NEW bs \in Heaps, Tiles(bs), NEW a \in DOMAIN bs, NEW want \in Nat,
         bs[a].size >= want, bs[a].free = 1
  PROVE  LET us == Marked(Split(bs, a, want), a, 0)
         IN  /\ us \in Heaps /\ Tiles(us)
             /\ DOMAIN bs \subseteq DOMAIN us
             /\ us[a].free = 0 /\ us[a].size >= want
             /\ \A x \in DOMAIN bs : x # a => us[x] = bs[x]
             /\ \A x \in DOMAIN us : x \notin DOMAIN bs => us[x].free = 1
             /\ \A x \in DOMAIN us :
                  Joins(us, x) => (IF x \in DOMAIN bs THEN Joins(bs, x) ELSE Joins(bs, a)) /\ x # a
             /\ \A x, y \in DOMAIN us : x \notin DOMAIN bs /\ y \notin DOMAIN bs => x = y
<1> DEFINE ss == Split(bs, a, want)
           us == Marked(ss, a, 0)
           D == DOMAIN bs
<1>0. /\ HeapStart \in Nat /\ HeapEnd \in Nat
      /\ \A x \in D : /\ x \in Nat /\ x >= HeapStart /\ bs[x].size \in Nat
                      /\ EndOf(bs, x) \in Nat /\ EndOf(bs, x) > x
  BY HeapType, HeapAssumption DEF HeapEnd
<1>1. CASE ss = bs
  <2>1. /\ us \in Heaps /\ Tiles(us) /\ DOMAIN us = D
        /\ \A x \in D : EndOf(us, x) = EndOf(bs, x)
        /\ us[a].free = 0 /\ us[a].size = bs[a].size
        /\ \A x \in D : x # a => us[x] = bs[x]
    BY <1>1, MarkedTiles
  <2> HIDE DEF us
  <2>3. ASSUME NEW x \in D, Joins(us, x) PROVE Joins(bs, x) /\ x # a
    <3>1. us[x].free = 1 /\ EndOf(us, x) \in D /\ us[EndOf(us, x)].free = 1
      BY <2>1, <2>3, JoinsNext
    <3>2. x # a /\ bs[x].free = 1 /\ EndOf(bs, x) \in D /\ bs[EndOf(bs, x)].free = 1
      BY <2>1, <3>1
    <3> QED
      BY <3>2, JoinsNext
  <2>4. us[a].free = 0 /\ us[a].size >= want
    BY <2>1
  <2> QED
    BY <2>1, <2>3, <2>4 DEF us, ss
<1>2. CASE \E new \in Nat : IsCut(bs, ss, a, want, new)
  <2> HIDE DEF ss
  <2>1. PICK new \in Nat : IsCut(bs, ss, a, want, new)
    BY <1>2
  <2>2. \A x \in D : EndOf(ss, x) = IF x = a THEN new ELSE EndOf(bs, x)
    BY <2>1 DEF EndOf, IsCut
  <2>3. ss \in Heaps
    <3>1. D \cup {new} \in SUBSET (HeapStart .. HeapEnd)
      BY <2>1, HeapType DEF IsCut
    <3> QED
      BY <2>1, <3>1 DEF Heaps, IsCut
  <2>4. Tiles(ss)
    <3>1. HeapStart \in DOMAIN ss
      BY <2>1 DEF Tiles, IsCut
    <3>2. ASSUME NEW x \in DOMAIN ss PROVE EndOf(ss, x) \in DOMAIN ss \cup {HeapEnd}
      BY <2>1, <2>2 DEF Tiles, IsCut
    <3>3. ASSUME NEW x \in DOMAIN ss, x # HeapStart PROVE \E y \in DOMAIN ss : EndOf(ss, y) = x
      <4>1. CASE x = new
        BY <2>1, <4>1 DEF IsCut
      <4>2. CASE x \in D
        <5>1. PICK y \in D : EndOf(bs, y) = x
          BY <3>3, <4>2 DEF Tiles
        <5> QED
          BY <2>1, <2>2, <5>1 DEF IsCut
      <4> QED
        BY <2>1, <4>1, <4>2 DEF IsCut
    <3>4. ASSUME NEW x \in DOMAIN ss, NEW y \in DOMAIN ss, x < y PROVE EndOf(ss, x) <= y
      <4>1. CASE x = new
        <5>1. y \in D /\ a < y
          BY <1>0, <2>1, <3>4, <4>1 DEF IsCut
        <5> QED
          BY <2>1, <4>1, <5>1 DEF Tiles, IsCut
      <4>2. CASE x = a
        <5>1. y = new \/ (y \in D /\ EndOf(bs, a) <= y)
          BY <2>1, <3>4, <4>2 DEF Tiles, IsCut
        <5> QED
          BY <1>0, <2>1, <2>2, <4>2, <5>1 DEF IsCut
      <4>3. CASE x # new /\ x # a
        <5>1. x \in D /\ EndOf(ss, x) = EndOf(bs, x)
          BY <2>1, <2>2, <4>3 DEF IsCut
        <5>2. CASE y \in D
          BY <3>4, <5>1, <5>2 DEF Tiles
        <5>3. CASE y = new
          <6>1. x < a
            <7>1. a < x => EndOf(bs, a) <= x
              BY <5>1 DEF Tiles
            <7> QED
              BY <1>0, <2>1, <3>4, <4>3, <5>1, <5>3, <7>1 DEF IsCut
          <6>2. EndOf(bs, x) <= a
            BY <5>1, <6>1 DEF Tiles
          <6> QED
            BY <1>0, <2>1, <5>1, <5>3, <6>2 DEF IsCut
        <5> QED
          BY <2>1, <5>2, <5>3 DEF IsCut
      <4> QED
        BY <4>1, <4>2, <4>3
    <3> QED
      BY <3>1, <3>2, <3>3, <3>4 DEF Tiles
  <2>5. /\ us \in Heaps /\ Tiles(us) /\ DOMAIN us = D \cup {new}
        /\ \A x \in D \cup {new} : EndOf(us, x) = EndOf(ss, x)
        /\ us[a].free = 0 /\ us[a].size = ss[a].size
        /\ \A x \in D \cup {new} : x # a => us[x] = ss[x]
    <3>1. DOMAIN ss = D \cup {new} /\ a \in DOMAIN ss
      BY <2>1 DEF IsCut
    <3>2. /\ us \in Heaps /\ Tiles(us) /\ DOMAIN us = DOMAIN ss
          /\ \A x \in DOMAIN ss : EndOf(us, x) = EndOf(ss, x)
          /\ us[a].free = 0 /\ us[a].size = ss[a].size
          /\ \A x \in DOMAIN ss : x # a => us[x] = ss[x]
      BY <2>3, <2>4, <3>1, MarkedTiles
    <3> QED
      BY <3>1, <3>2
  <2>6. \A x \in D : x # a => us[x] = bs[x]
    BY <2>1, <2>5 DEF IsCut
  <2> HIDE DEF us
  <2>7. ASSUME NEW x \in DOMAIN us, Joins(us, x)
        PROVE  (IF x \in D THEN Joins(bs, x) ELSE Joins(bs, a)) /\ x # a
    <3>1. us[x].free = 1 /\ EndOf(us, x) \in D \cup {new} /\ us[EndOf(us, x)].free = 1
      BY <2>5, <2>7, JoinsNext
    <3>2. x # a /\ EndOf(us, x) # a
      BY <2>5, <3>1
    <3>3. CASE x = new
      <4>1. EndOf(us, x) = EndOf(bs, a) /\ EndOf(bs, a) # new
        BY <1>0, <2>1, <2>5, <3>3 DEF IsCut
      <4>2. EndOf(bs, a) \in D /\ bs[EndOf(bs, a)].free = 1
        BY <2>6, <3>1, <3>2, <4>1
      <4>3. Joins(bs, a)
        BY <4>2, JoinsNext
      <4> QED
        BY <2>1, <3>2, <3>3, <4>3 DEF IsCut
    <3>4. CASE x \in D
      <4>1. EndOf(us, x) = EndOf(bs, x) /\ bs[x].free = 1
        BY <2>2, <2>5, <2>6, <3>1, <3>2, <3>4
      <4>2. EndOf(bs, x) # new
        <5>1. EndOf(bs, x) \in D \cup {HeapEnd} /\ EndOf(bs, a) \in D \cup {HeapEnd}
          BY <3>4 DEF Tiles
        <5>2. EndOf(bs, a) <= HeapEnd
          BY <1>0, <5>1, HeapType
        <5> QED
          BY <1>0, <2>1, <5>1, <5>2 DEF IsCut
      <4>3. EndOf(bs, x) \in D /\ bs[EndOf(bs, x)].free = 1
        BY <2>6, <3>1, <3>2, <4>1, <4>2
      <4>4. Joins(bs, x)
        BY <3>4, <4>1, <4>3, JoinsNext
      <4> QED
        BY <3>2, <3>4, <4>4
    <3> QED
      BY <2>5, <3>3, <3>4
  <2>8. us[a].free = 0 /\ us[a].size >= want
    BY <2>1, <2>5 DEF IsCut
  <2>9. \A x \in DOMAIN us : x \notin D => x = new
    BY <2>5
  <2>10. us[new].free = 1
    BY <2>1, <2>5 DEF IsCut
  <2> QED
    BY <2>5, <2>6, <2>7, <2>8, <2>9, <2>10 DEF us, ss
<1>3. ss = bs \/ \E new \in Nat : IsCut(bs, ss, a, want, new)
  BY SplitParts
<1> QED
  BY <1>1, <1>2, <1>3

\* The inductive invariant is what HeapIsSound says of the tiling, of the pointers
\* and of the pairs, with the type of the list.
HeapInv == blocks \in Heaps /\ TypeOK /\ HeapIsSound

LEMMA HeapInvInit == Init => HeapInv
<1> SUFFICES ASSUME Init PROVE HeapInv
  OBVIOUS
<1>1. /\ HeapStart \in Nat /\ HeapEnd \in Nat /\ HeapStart < HeapEnd /\ HeapSize - HeaderSize \in Nat
      /\ HeapEnd = HeapStart + HeaderSize + (HeapSize - HeaderSize)
  BY HeapAssumption DEF HeapEnd, HeaderSize
<1>2. /\ DOMAIN blocks = {HeapStart} /\ blocks[HeapStart] = [size |-> HeapSize - HeaderSize, free |-> 1]
      /\ blocks \in [{HeapStart} -> Headers] /\ live = {}
  BY <1>1 DEF Init, Headers
<1>3. blocks \in Heaps /\ DOMAIN blocks \subseteq HeapStart .. HeapEnd
  <2>1. {HeapStart} \in SUBSET (HeapStart .. HeapEnd)
    BY <1>1
  <2> QED
    BY <1>2, <2>1 DEF Heaps
<1>4. EndOf(blocks, HeapStart) = HeapEnd
  BY <1>1, <1>2 DEF EndOf
<1>5. Tiles(blocks)
  BY <1>1, <1>2, <1>4 DEF Tiles
<1>6. LiveBlocksInUse
  BY <1>2 DEF LiveBlocksInUse
<1>7. OnePairUnmerged
  BY <1>2 DEF OnePairUnmerged
<1>8. TypeOK
  BY <1>2, <1>3 DEF TypeOK
<1> QED
  BY <1>3, <1>5, <1>6, <1>7, <1>8 DEF HeapInv, HeapIsSound

LEMMA KmallocKeepsHeap == HeapInv /\ Kmalloc => HeapInv'
<1> SUFFICES ASSUME HeapInv, Kmalloc PROVE HeapInv'
  OBVIOUS
<1> DEFINE D == DOMAIN blocks
<1>1. blocks \in Heaps /\ Tiles(blocks) /\ TypeOK /\ LiveBlocksInUse /\ OnePairUnmerged
  BY DEF HeapInv, HeapIsSound
<1>2. PICK size \in Requests, a \in D :
        /\ a \in Fits(AlignUp(size))
        /\ blocks' = Marked(Split(blocks, a, AlignUp(size)), a, 0)
        /\ live' = live \cup {[ptr |-> a + HeaderSize, size |-> size]}
  BY DEF Kmalloc, FirstFit
<1> DEFINE want == AlignUp(size)
           p == [ptr |-> a + HeaderSize, size |-> size]
<1>3. want \in Nat /\ want >= size /\ size \in Nat
  <2>1. size \in Nat /\ size + Alignment - 1 < Word
    BY RequestAssumption, HeapAssumption DEF Alignment
  <2> QED
    BY <2>1, AlignedUp
<1>4. blocks[a].free = 1 /\ blocks[a].size >= want
  BY <1>2 DEF Fits
<1> HIDE DEF want
<1>5. /\ blocks' \in Heaps /\ Tiles(blocks')
      /\ D \subseteq DOMAIN blocks'
      /\ blocks'[a].free = 0 /\ blocks'[a].size >= want
      /\ \A x \in D : x # a => blocks'[x] = blocks[x]
      /\ \A x \in DOMAIN blocks' : x \notin D => blocks'[x].free = 1
      /\ \A x \in DOMAIN blocks' :
           Joins(blocks', x) => (IF x \in D THEN Joins(blocks, x) ELSE Joins(blocks, a)) /\ x # a
      /\ \A x, y \in DOMAIN blocks' : x \notin D /\ y \notin D => x = y
  BY <1>1, <1>2, <1>3, <1>4, AllocatedTiles DEF want
<1>6. a \in Nat /\ \A x \in D : x \in Nat
  BY <1>1, HeapType
<1>7. p.ptr = a + HeaderSize /\ p.ptr - HeaderSize = a /\ p.size = size /\ p \in [ptr : Nat, size : Requests]
  BY <1>6 DEF HeaderSize
<1> HIDE DEF p
<1>8. live' = live \cup {p}
  BY <1>2 DEF p
<1>9. \A q \in live : q.ptr \in Nat /\ q.ptr - HeaderSize \in D /\ q.ptr - HeaderSize # a
  BY <1>1, <1>4 DEF TypeOK, LiveBlocksInUse
<1>10. TypeOK'
  <2>1. DOMAIN blocks' \subseteq HeapStart .. HeapEnd /\ blocks' \in [DOMAIN blocks' -> Headers]
    BY <1>5, HeapType
  <2>2. live' \subseteq [ptr : Nat, size : Requests]
    BY <1>1, <1>7, <1>8 DEF TypeOK
  <2> QED
    BY <2>1, <2>2 DEF TypeOK
<1>11. LiveBlocksInUse'
  <2>1. ASSUME NEW q \in live'
        PROVE  /\ q.ptr - HeaderSize \in DOMAIN blocks'
               /\ blocks'[q.ptr - HeaderSize].free = 0
               /\ blocks'[q.ptr - HeaderSize].size >= q.size
    <3>1. CASE q \in live
      BY <1>1, <1>5, <1>9, <3>1 DEF LiveBlocksInUse
    <3>2. CASE q = p
      <4>1. blocks'[a].size \in Nat
        BY <1>5, HeapType
      <4> QED
        BY <1>2, <1>3, <1>5, <1>7, <3>2, <4>1
    <3> QED
      BY <1>8, <3>1, <3>2
  <2>2. ASSUME NEW q \in live', NEW r \in live', q.ptr = r.ptr PROVE q = r
    BY <1>1, <1>7, <1>8, <1>9, <2>2 DEF LiveBlocksInUse
  <2>3. ASSUME NEW x \in DOMAIN blocks', blocks'[x].free = 0 PROVE \E q \in live' : q.ptr = x + HeaderSize
    <3>1. x \in D
      BY <1>5, <2>3
    <3>2. CASE x = a
      BY <1>7, <1>8, <3>2
    <3>3. CASE x # a
      <4>1. blocks[x].free = 0
        BY <1>5, <2>3, <3>1, <3>3
      <4> QED
        BY <1>1, <1>8, <3>1, <4>1 DEF LiveBlocksInUse
    <3> QED
      BY <3>2, <3>3
  <2> QED
    BY <2>1, <2>2, <2>3 DEF LiveBlocksInUse
<1>12. OnePairUnmerged'
  <2> SUFFICES ASSUME NEW x \in DOMAIN blocks', NEW y \in DOMAIN blocks', Joins(blocks', x), Joins(blocks', y)
               PROVE  x = y
    BY DEF OnePairUnmerged
  <2>1. x # a /\ y # a
    BY <1>5
  <2>2. CASE x \in D /\ y \in D
    BY <1>1, <1>5, <2>2 DEF OnePairUnmerged
  <2>3. CASE x \in D /\ y \notin D
    BY <1>1, <1>2, <1>5, <2>1, <2>3 DEF OnePairUnmerged
  <2>4. CASE x \notin D /\ y \in D
    BY <1>1, <1>2, <1>5, <2>1, <2>4 DEF OnePairUnmerged
  <2>5. CASE x \notin D /\ y \notin D
    BY <1>5, <2>5
  <2> QED
    BY <2>2, <2>3, <2>4, <2>5
<1> QED
  BY <1>5, <1>10, <1>11, <1>12 DEF HeapInv, HeapIsSound

LEMMA KfreeKeepsHeap == HeapInv /\ Kfree => HeapInv'
<1> SUFFICES ASSUME HeapInv, Kfree PROVE HeapInv'
  OBVIOUS
<1> DEFINE D == DOMAIN blocks
<1>1. blocks \in Heaps /\ Tiles(blocks) /\ TypeOK /\ LiveBlocksInUse /\ OnePairUnmerged
  BY DEF HeapInv, HeapIsSound
<1>2. PICK p \in live : /\ blocks' = Coalesced(Marked(blocks, p.ptr - HeaderSize, 1))
                        /\ live' = live \ {p}
  BY DEF Kfree
<1> DEFINE x == p.ptr - HeaderSize
           bs == Marked(blocks, x, 1)
<1>3. /\ p.ptr \in Nat /\ x \in D /\ x = p.ptr - 12 /\ \A q \in live : q.ptr \in Nat
      /\ \A a \in D : a \in Nat
  BY <1>1, HeapType DEF TypeOK, LiveBlocksInUse, HeaderSize
<1> HIDE DEF x
<1>4. /\ bs \in Heaps /\ Tiles(bs) /\ DOMAIN bs = D
      /\ \A a \in D : EndOf(bs, a) = EndOf(blocks, a)
      /\ bs[x].free = 1
      /\ \A a \in D : a # x => bs[a] = blocks[a]
  BY <1>1, <1>3, MarkedTiles
<1> HIDE DEF bs
<1>5. /\ blocks' \in Heaps /\ Tiles(blocks')
      /\ DOMAIN blocks' = D \ Gone(bs)
      /\ \A a \in D \ Gone(bs) :
           IF a \in Merging(bs) THEN bs[a].free = 1 /\ blocks'[a].free = 1
                                ELSE blocks'[a] = bs[a]
  <2>1. blocks' = Coalesced(bs)
    BY <1>2 DEF bs, x
  <2> QED
    BY <1>4, <2>1, CoalescedParts, CoalescedTiles
\* What is merged is free.
<1>6. (\A g \in Gone(bs) : bs[g].free = 1) /\ \A m \in Merging(bs) : bs[m].free = 1
  BY <1>4, JoinsNext DEF Gone, Merging
<1>7. TypeOK'
  <2>1. DOMAIN blocks' \subseteq HeapStart .. HeapEnd /\ blocks' \in [DOMAIN blocks' -> Headers]
    BY <1>5, HeapType
  <2> QED
    BY <1>1, <1>2, <2>1 DEF TypeOK
<1>8. LiveBlocksInUse'
  <2>1. ASSUME NEW q \in live'
        PROVE  /\ q.ptr - HeaderSize \in DOMAIN blocks'
               /\ blocks'[q.ptr - HeaderSize].free = 0
               /\ blocks'[q.ptr - HeaderSize].size >= q.size
    <3> DEFINE a == q.ptr - HeaderSize
    <3>1. a \in D /\ blocks[a].free = 0 /\ blocks[a].size >= q.size /\ q.ptr # p.ptr
      BY <1>1, <1>2 DEF LiveBlocksInUse
    <3>2. a # x
      BY <1>2, <1>3, <3>1 DEF HeaderSize
    <3> HIDE DEF a
    <3>3. bs[a] = blocks[a] /\ a \notin Gone(bs) /\ a \notin Merging(bs)
      BY <1>4, <1>6, <3>1, <3>2
    <3>4. a \in DOMAIN blocks' /\ blocks'[a] = blocks[a]
      BY <1>5, <3>1, <3>3
    <3> QED
      BY <3>1, <3>4 DEF a
  <2>2. \A q, r \in live' : q.ptr = r.ptr => q = r
    BY <1>1, <1>2 DEF LiveBlocksInUse
  <2>3. ASSUME NEW a \in DOMAIN blocks', blocks'[a].free = 0 PROVE \E q \in live' : q.ptr = a + HeaderSize
    <3>1. a \in D /\ a \notin Gone(bs) /\ a \notin Merging(bs) /\ bs[a].free = 0
      BY <1>5, <2>3
    <3>2. a # x /\ blocks[a].free = 0
      BY <1>4, <3>1
    <3>3. PICK q \in live : q.ptr = a + HeaderSize
      BY <1>1, <3>1, <3>2 DEF LiveBlocksInUse
    <3>4. q # p
      BY <1>3, <3>1, <3>2, <3>3 DEF HeaderSize
    <3> QED
      BY <1>2, <3>3, <3>4
  <2> QED
    BY <2>1, <2>2, <2>3 DEF LiveBlocksInUse
\* The block that is freed joins at most two, and one pair there was.  Two pairs
\* that are left would come from four.
<1>9. \A a \in D : Joins(bs, a) => a = x \/ EndOf(bs, a) = x \/ Joins(blocks, a)
  <2> SUFFICES ASSUME NEW a \in D, Joins(bs, a), a # x, EndOf(bs, a) # x PROVE Joins(blocks, a)
    OBVIOUS
  <2>1. bs[a].free = 1 /\ EndOf(bs, a) \in D /\ bs[EndOf(bs, a)].free = 1
    BY <1>4, JoinsNext
  <2>2. blocks[a].free = 1 /\ EndOf(blocks, a) \in D /\ blocks[EndOf(blocks, a)].free = 1
    BY <1>4, <2>1
  <2> QED
    BY <1>1, <2>2, JoinsNext
<1>10. OnePairUnmerged'
  <2> SUFFICES ASSUME NEW a \in DOMAIN blocks', NEW b \in DOMAIN blocks',
                      Joins(blocks', a), Joins(blocks', b), a # b
               PROVE  FALSE
    BY DEF OnePairUnmerged
  <2> DEFINE m == EndOf(bs, a)
             n == EndOf(bs, b)
  <2>1. blocks' = Coalesced(bs)
    BY <1>2 DEF bs, x
  <2>2. /\ a \in D /\ a \notin Gone(bs) /\ Joins(bs, a) /\ m \in D /\ m \in Gone(bs) /\ Joins(bs, m)
        /\ b \in D /\ b \notin Gone(bs) /\ Joins(bs, b) /\ n \in D /\ n \in Gone(bs) /\ Joins(bs, n)
    BY <1>4, <2>1, PairsLeft
  <2>3. a # m /\ a # n /\ b # m /\ b # n
    BY <2>2
  <2>4. m # n
    BY <1>4, <2>2, EndsApart
  <2>5. EndOf(bs, a) # EndOf(bs, m) /\ EndOf(bs, a) # EndOf(bs, n) /\ EndOf(bs, b) # EndOf(bs, m)
        /\ EndOf(bs, b) # EndOf(bs, n) /\ EndOf(bs, m) # EndOf(bs, n)
    BY <1>4, <2>2, <2>3, <2>4, EndsApart
  <2> HIDE DEF m, n
  <2>6. \A c, d \in D : Joins(blocks, c) /\ Joins(blocks, d) => c = d
    BY <1>1 DEF OnePairUnmerged
  <2>7. /\ a = x \/ EndOf(bs, a) = x \/ Joins(blocks, a)
        /\ b = x \/ EndOf(bs, b) = x \/ Joins(blocks, b)
        /\ m = x \/ EndOf(bs, m) = x \/ Joins(blocks, m)
        /\ n = x \/ EndOf(bs, n) = x \/ Joins(blocks, n)
    BY <1>9, <2>2
  <2>8. EndOf(bs, a) # EndOf(bs, b)
    BY <2>4 DEF m, n
  <2> QED
    BY <2>2, <2>3, <2>4, <2>5, <2>6, <2>7, <2>8, Zenon
<1> QED
  BY <1>5, <1>7, <1>8, <1>10 DEF HeapInv, HeapIsSound

LEMMA HeapInvHolds == Spec => []HeapInv
<1>1. HeapInv /\ UNCHANGED vars => HeapInv'
  <2> SUFFICES ASSUME HeapInv, UNCHANGED vars PROVE HeapInv'
    OBVIOUS
  <2> USE DEF vars
  <2>1. (blocks \in Heaps)'
    BY DEF HeapInv
  <2>2. TypeOK'
    BY DEF HeapInv, TypeOK
  <2>3. LiveBlocksInUse' /\ Tiles(blocks)' /\ OnePairUnmerged'
    BY DEF HeapInv, HeapIsSound, LiveBlocksInUse, OnePairUnmerged
  <2> QED
    BY <2>1, <2>2, <2>3 DEF HeapInv, HeapIsSound
<1>2. HeapInv /\ [Next]_vars => HeapInv'
  BY <1>1, KmallocKeepsHeap, KfreeKeepsHeap DEF Next
<1> QED
  BY <1>2, HeapInvInit, PTL DEF Spec

\* The headers of the heap (mem.c) lie in it and have a size and a flag, and what
\* the callers hold is what kmalloc gave them.
THEOREM HeapTyping == Spec => []TypeOK
<1>1. HeapInv => TypeOK
  BY DEF HeapInv
<1> QED
  BY <1>1, HeapInvHolds, PTL

\* Whatever is allocated and freed in whatever order, in a heap of any size: no
\* byte is in two blocks or in none, every pointer that is held has a block of its
\* own with room for what was asked for, and one pair of free neighbours at most is
\* left unmerged (kmalloc, kfree and coalesce of mem.c).
THEOREM HeapIsSoundHolds == Spec => []HeapIsSound
<1>1. HeapInv => HeapIsSound
  BY DEF HeapInv
<1> QED
  BY <1>1, HeapInvHolds, PTL
=============================================================================
