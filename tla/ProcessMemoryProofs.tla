-------------------------- MODULE ProcessMemoryProofs --------------------------
(***************************************************************************)
(* Proofs about the block heap, for every pool, every slack and every      *)
(* request size, and about the memory of processes that runs on it, for    *)
(* every heap, every set of processes and every bound: what programs hold  *)
(* are allocations of that heap; and the kernel's list of a program's      *)
(* allocations and its page tables say what the program holds, as long as  *)
(* the program frees and reallocates what it was given and nothing else.   *)
(***************************************************************************)
EXTENDS ProcessMemory, FiniteSetTheorems, TLAPS

-----------------------------------------------------------------------------
(* The block heap: the inductive invariant *)

\* The last block of the pool that belongs to b, where walks from b stop.
LastBlock(b) == IF b + live[b] <= Total THEN b + live[b] - 1 ELSE Total - 1

\* Regions stay inside the modelled memory.
InBlocks == \A b \in Allocations : b + live[b] <= Total + Slack

IInv ==
    /\ TypeOK
    /\ InBlocks
    /\ NoOverlap
    /\ TableMatchesLive

-----------------------------------------------------------------------------
(* Lemmas about the table *)

\* A walk along HAS_NEXT marks ends in the one block that has its chain
\* behind it and either no mark or the end of the pool.
LEMMA ChainEndIs ==
    ASSUME NEW t, NEW s \in Pool, NEW e \in s .. Total - 1,
           \A i \in s .. e - 1 : HAS_NEXT \in t[i],
           e = Total - 1 \/ HAS_NEXT \notin t[e]
    PROVE  ChainEnd(t, s) = e
<1> DEFINE P(x) == /\ \A i \in s .. x - 1 : HAS_NEXT \in t[i]
                   /\ x = Total - 1 \/ HAS_NEXT \notin t[x]
<1>1. P(e)
  OBVIOUS
<1>2. ASSUME NEW x \in s .. Total - 1, P(x)
      PROVE  x = e
  <2>1. CASE x < e
    <3>1. x \in s .. e - 1 /\ x # Total - 1
      BY <2>1, HeapAssumption DEF Pool
    <3>2. QED
      BY <3>1, <1>2
  <2>2. CASE x > e
    <3>1. e \in s .. x - 1 /\ e # Total - 1
      BY <2>2, HeapAssumption DEF Pool
    <3>2. QED
      BY <3>1, <1>2
  <2>3. QED
    BY <2>1, <2>2, HeapAssumption DEF Pool
<1>3. QED
  BY <1>1, <1>2 DEF ChainEnd

\* Following the marks from a live allocation leads to its last block.
LEMMA ChainOfLive ==
    ASSUME IInv, NEW b \in Allocations
    PROVE  /\ LastBlock(b) \in b .. Total - 1
           /\ ChainEnd(table, b) = LastBlock(b)
<1> USE HeapAssumption DEF Allocations, Pool
<1>1. /\ b \in Pool /\ live[b] \in Nat /\ live[b] > 0
  BY DEF IInv, TypeOK
<1>2. LastBlock(b) \in b .. Total - 1 /\ LastBlock(b) \in Region(b)
  BY <1>1 DEF LastBlock, Region, Span
<1>3. \A i \in b .. LastBlock(b) - 1 : i \in Region(b) /\ i # b + live[b] - 1
  BY <1>1 DEF LastBlock, Region, Span
<1>4. \A i \in b .. LastBlock(b) - 1 : HAS_NEXT \in table[i]
  BY <1>3 DEF IInv, TableMatchesLive, Marked
<1>5. LastBlock(b) = Total - 1 \/ HAS_NEXT \notin table[LastBlock(b)]
  BY <1>1, <1>2 DEF IInv, TableMatchesLive, Marked, LastBlock
<1>6. QED
  BY <1>2, <1>4, <1>5, ChainEndIs

\* Counting an allocation's blocks counts what it has inside the pool.
LEMMA CountOfLive ==
    ASSUME IInv, NEW b \in Allocations
    PROVE  heap_allocation_block_count(b) = LastBlock(b) - b + 1
<1> USE HeapAssumption DEF Allocations, Pool
<1>1. LastBlock(b) \in b .. Total - 1 /\ ChainEnd(table, b) = LastBlock(b)
  BY ChainOfLive
<1>2. b \in Pool /\ live[b] \in Nat /\ live[b] > 0
  BY DEF IInv, TypeOK
<1>3. \A i \in b .. LastBlock(b) : i \in Region(b)
  BY <1>2 DEF LastBlock, Region, Span
<1>4. \A i \in b .. LastBlock(b) : TAKEN \in table[i]
  BY <1>3 DEF IInv, TableMatchesLive, Marked
<1>5. {i \in b .. ChainEnd(table, b) : TAKEN \in table[i]} = b .. LastBlock(b)
  BY <1>1, <1>4
<1>6. Cardinality(b .. LastBlock(b)) = LastBlock(b) - b + 1
  BY <1>1, <1>2, FS_Interval
<1>7. QED
  BY <1>5, <1>6 DEF heap_allocation_block_count

LEMMA WrapType ==
    ASSUME NEW k \in Int
    PROVE  Wrap(k) \in 0 .. Word - 1
BY HeapAssumption DEF Wrap

\* Every block of a live region is a block of the model, marked taken, and no
\* other caller's.
LEMMA LiveBlocks ==
    ASSUME IInv, NEW b \in Allocations, NEW i \in Region(b)
    PROVE  /\ b \in Pool /\ live[b] \in Nat \ {0}
           /\ i \in Int /\ b <= i /\ i < b + live[b]
           /\ i \in Blocks
           /\ TAKEN \in table[i]
           /\ \A c \in Allocations : i \in Region(c) => c = b
<1> USE HeapAssumption
<1>1. /\ b \in Pool /\ live[b] \in Nat \ {0}
      /\ i \in Int /\ b <= i /\ i < b + live[b]
  BY DEF IInv, TypeOK, Allocations, Region, Span, Pool
<1>2. i \in Blocks
  BY <1>1 DEF IInv, InBlocks, Pool, Blocks
<1>3. TAKEN \in table[i]
  BY DEF IInv, TableMatchesLive, Marked
<1>4. \A c \in Allocations : i \in Region(c) => c = b
  BY DEF IInv, NoOverlap
<1>5. QED
  BY <1>1, <1>2, <1>3, <1>4

-----------------------------------------------------------------------------
(* Every step preserves the invariant *)

LEMMA InitInv == Init => IInv
<1> SUFFICES ASSUME Init PROVE IInv
  OBVIOUS
<1> USE HeapAssumption
<1>1. TypeOK
  <2>1. table \in [Blocks -> Entry]
    BY DEF Init, Blocks, Pool, Entry, FREE, TAKEN
  <2>2. used \in 0 .. Word - 1 /\ free \in 0 .. Word - 1
    BY WrapType DEF Init
  <2>3. QED
    BY <2>1, <2>2 DEF Init, TypeOK, Pool
<1>2. Allocations = {}
  BY DEF Init, Allocations
<1>3. \A i \in Pool : table[i] = FREE
  BY DEF Init, Pool, Blocks
<1>4. QED
  BY <1>1, <1>2, <1>3 DEF IInv, InBlocks, NoOverlap, TableMatchesLive

LEMMA MallocInv ==
    ASSUME IInv, NEW n \in 0 .. MaxRequest, heap_malloc(n)
    PROVE  IInv'
<1> USE HeapAssumption
<1>1. CASE UNCHANGED <<table, used, free, live>> /\ ret' = NULL
  BY <1>1 DEF IInv, TypeOK, InBlocks, NoOverlap, TableMatchesLive, Marked,
              Allocations, Region, Span
<1>2. ASSUME NEW s \in Pool,
             heap_get_start_block(s, n),
             table' = heap_mark_blocks_taken(table, s, n),
             live' = [live EXCEPT ![s] = n],
             ret' = s,
             Count(n)
      PROVE  IInv'
  <2>0. /\ n \in Nat \ {0} /\ s \in Pool /\ s + n <= Total
        /\ \A i \in Span(s, n) : i \in Pool /\ TAKEN \notin table[i]
    BY <1>2 DEF heap_get_start_block, FreeRun, Span, Pool
  <2>1. \A c \in Allocations : Region(c) \cap Span(s, n) = {}
    BY <2>0, LiveBlocks
  <2>2. s \notin Allocations
    <3>1. s \in Span(s, n)
      BY <2>0 DEF Span, Pool
    <3>2. s \in Allocations => s \in Region(s)
      BY DEF Region, Span, Allocations, Pool, IInv, TypeOK
    <3>3. QED
      BY <2>1, <3>1, <3>2
  <2>3. /\ Allocations' = Allocations \cup {s}
        /\ Region(s)' = Span(s, n)
        /\ live'[s] = n
        /\ \A c \in Allocations : live'[c] = live[c] /\ Region(c)' = Region(c)
    BY <1>2, <2>0, <2>2 DEF Allocations, Region, Span, IInv, TypeOK, Pool
  <2>4. /\ \A i \in Blocks \ Span(s, n) : table'[i] = table[i]
        /\ \A i \in Span(s, n) :
              /\ TAKEN \in table'[i]
              /\ IS_FIRST \in table'[i] <=> i = s
              /\ HAS_NEXT \in table'[i] <=> i # s + n - 1
    BY <1>2, <2>0
       DEF heap_mark_blocks_taken, TAKEN, IS_FIRST, HAS_NEXT, Pool, Blocks
  <2>5. TypeOK'
    <3>1. table' \in [Blocks -> Entry]
      BY <1>2 DEF heap_mark_blocks_taken, Entry, IInv, TypeOK
    <3>2. used' \in 0 .. Word - 1 /\ free' \in 0 .. Word - 1
      BY <1>2, WrapType DEF Count, IInv, TypeOK
    <3>3. QED
      BY <1>2, <2>0, <3>1, <3>2 DEF IInv, TypeOK
  <2>6. InBlocks'
    <3>1. s + n <= Total + Slack
      BY <2>0 DEF Pool
    <3>2. QED
      BY <2>3, <3>1 DEF InBlocks, IInv
  <2>7. NoOverlap'
    BY <2>1, <2>3 DEF NoOverlap, IInv
  <2>8. TableMatchesLive'
    <3>1. ASSUME NEW i \in Pool
          PROVE  (table[i] # FREE <=> \E b \in Allocations : i \in Region(b))'
      <4>1. CASE i \in Span(s, n)
        BY <4>1, <2>3, <2>4 DEF FREE
      <4>2. CASE i \notin Span(s, n)
        BY <4>2, <2>3, <2>4 DEF IInv, TableMatchesLive, Pool, Blocks
      <4>3. QED
        BY <4>1, <4>2
    <3>2. ASSUME NEW b \in Allocations', NEW i \in Region(b)'
          PROVE  Marked(b, i)'
      <4>1. CASE b = s
        BY <4>1, <3>2, <2>3, <2>4 DEF Marked
      <4>2. CASE b # s
        <5>1. b \in Allocations /\ i \in Region(b) /\ i \in Blocks \ Span(s, n)
          BY <4>2, <3>2, <2>1, <2>3, LiveBlocks
        <5>2. table'[i] = table[i] /\ live'[b] = live[b]
          BY <5>1, <2>3, <2>4
        <5>3. QED
          BY <5>1, <5>2 DEF IInv, TableMatchesLive, Marked
      <4>3. QED
        BY <4>1, <4>2
    <3>3. QED
      BY <3>1, <3>2 DEF TableMatchesLive
  <2>9. QED
    BY <2>5, <2>6, <2>7, <2>8 DEF IInv
<1>3. QED
  BY <1>1, <1>2 DEF heap_malloc

LEMMA FreeInv ==
    ASSUME IInv, NEW b \in Allocations, heap_free(b)
    PROVE  IInv'
<1> USE HeapAssumption
<1>0. /\ LastBlock(b) \in b .. Total - 1
      /\ ChainEnd(table, b) = LastBlock(b)
      /\ b \in Pool /\ live[b] \in Nat /\ live[b] > 0
  BY ChainOfLive DEF IInv, TypeOK, Allocations
<1>1. \A i \in Blocks :
         table'[i] = IF i \in b .. LastBlock(b) THEN FREE ELSE table[i]
  BY <1>0 DEF heap_free, heap_mark_blocks_free
<1>2. \A i \in Pool : i \in b .. LastBlock(b) <=> i \in Region(b)
  BY <1>0 DEF LastBlock, Region, Span, Pool
<1>3. /\ Allocations' = Allocations \ {b}
      /\ \A c \in Allocations \ {b} :
            live'[c] = live[c] /\ Region(c)' = Region(c)
  BY <1>0 DEF heap_free, Allocations, Region, Span, IInv, TypeOK, Pool
<1>4. \A c \in Allocations \ {b} : \A i \in Region(c) :
         i \in Blocks /\ table'[i] = table[i]
  BY <1>0, <1>1, <1>2, LiveBlocks DEF Pool
<1>5. TypeOK'
  <2>1. table' \in [Blocks -> Entry]
    BY <1>0 DEF heap_free, heap_mark_blocks_free, Entry, FREE, IInv, TypeOK
  <2>2. used' \in 0 .. Word - 1 /\ free' \in 0 .. Word - 1
    <3>1. ChainEnd(table, b) - b + 1 \in Int /\ used \in Int /\ free \in Int
      BY <1>0 DEF IInv, TypeOK, Pool
    <3>2. QED
      BY <3>1, WrapType DEF heap_free, Count
  <2>3. QED
    BY <2>1, <2>2 DEF heap_free, IInv, TypeOK
<1>6. InBlocks'
  BY <1>3 DEF InBlocks, IInv
<1>7. NoOverlap'
  BY <1>3 DEF NoOverlap, IInv
<1>8. TableMatchesLive'
  <2>1. ASSUME NEW i \in Pool
        PROVE  (table[i] # FREE <=> \E c \in Allocations : i \in Region(c))'
    <3>1. i \in Blocks
      BY DEF Pool, Blocks
    <3>2. CASE i \in Region(b)
      <4>1. table'[i] = FREE
        BY <1>1, <1>2, <3>1, <3>2
      <4>2. \A c \in Allocations \ {b} : i \notin Region(c)
        BY <3>2, LiveBlocks
      <4>3. QED
        BY <4>1, <4>2, <1>3
    <3>3. CASE i \notin Region(b)
      <4>1. table'[i] = table[i]
        BY <1>1, <1>2, <3>1, <3>3
      <4>2. QED
        BY <4>1, <3>3, <1>3 DEF IInv, TableMatchesLive
    <3>4. QED
      BY <3>2, <3>3
  <2>2. ASSUME NEW c \in Allocations', NEW i \in Region(c)'
        PROVE  Marked(c, i)'
    BY <1>3, <1>4 DEF IInv, TableMatchesLive, Marked
  <2>3. QED
    BY <2>1, <2>2 DEF TableMatchesLive
<1>9. QED
  BY <1>5, <1>6, <1>7, <1>8 DEF IInv

\* Asking for the size an allocation has gives up at most the part of it
\* that lies past the pool.
LEMMA SameInv ==
    ASSUME IInv, NEW b \in Allocations, NEW n \in 1 .. MaxRequest,
           ReallocSame(b, n)
    PROVE  IInv'
<1> USE HeapAssumption
<1>0. /\ LastBlock(b) \in b .. Total - 1
      /\ n = LastBlock(b) - b + 1
      /\ b \in Pool /\ live[b] \in Nat /\ live[b] > 0 /\ n \in Nat \ {0}
  BY ChainOfLive, CountOfLive DEF IInv, TypeOK, Allocations, ReallocSame
<1>1. n <= live[b] /\ b + n <= Total
  BY <1>0 DEF LastBlock, Pool
<1>2. /\ Allocations' = Allocations
      /\ live'[b] = n /\ Region(b)' = Span(b, n)
      /\ \A c \in Allocations \ {b} :
            live'[c] = live[c] /\ Region(c)' = Region(c)
  BY <1>0 DEF ReallocSame, Allocations, Region, Span, IInv, TypeOK, Pool
<1>3. \A i \in Pool : i \in Span(b, n) <=> i \in Region(b)
  BY <1>0, <1>1 DEF LastBlock, Region, Span, Pool
<1>4. Span(b, n) \subseteq Pool /\ Span(b, n) \subseteq Region(b)
  BY <1>0, <1>1 DEF Region, Span, Pool
<1>5. TypeOK'
  BY <1>0 DEF ReallocSame, IInv, TypeOK
<1>6. InBlocks'
  <2>1. b + n <= Total + Slack
    BY <1>0, <1>1 DEF Pool
  <2>2. QED
    BY <2>1, <1>2 DEF InBlocks, IInv
<1>7. NoOverlap'
  BY <1>2, <1>4 DEF NoOverlap, IInv
<1>8. TableMatchesLive'
  <2>1. ASSUME NEW i \in Pool
        PROVE  (table[i] # FREE <=> \E c \in Allocations : i \in Region(c))'
    BY <1>2, <1>3 DEF ReallocSame, IInv, TableMatchesLive
  <2>2. ASSUME NEW c \in Allocations', NEW i \in Region(c)'
        PROVE  Marked(c, i)'
    <3>1. CASE c = b
      <4>1. Marked(b, i) /\ i \in Pool /\ i \in Span(b, n)
        BY <3>1, <2>2, <1>2, <1>4 DEF IInv, TableMatchesLive
      <4>2. i # b + n - 1 => i # b + live[b] - 1
        BY <4>1, <1>0, <1>1 DEF Span, Pool
      <4>3. i = b + n - 1 /\ i < Total - 1 => i = b + live[b] - 1
        BY <1>0 DEF LastBlock, Pool
      <4>4. QED
        BY <3>1, <4>1, <4>2, <4>3, <1>2 DEF ReallocSame, Marked
    <3>2. CASE c # b
      BY <3>2, <1>2 DEF ReallocSame, IInv, TableMatchesLive, Marked
    <3>3. QED
      BY <3>1, <3>2
  <2>3. QED
    BY <2>1, <2>2 DEF TableMatchesLive
<1>9. QED
  BY <1>5, <1>6, <1>7, <1>8 DEF IInv

LEMMA OutOfMemoryInv ==
    ASSUME IInv, NEW b \in Allocations, NEW n \in 1 .. MaxRequest,
           ReallocOutOfMemory(b, n)
    PROVE  IInv'
BY DEF ReallocOutOfMemory, IInv, TypeOK, InBlocks, NoOverlap,
       TableMatchesLive, Marked, Allocations, Region, Span

LEMMA ShrinkInv ==
    ASSUME IInv, NEW b \in Allocations, NEW n \in 1 .. MaxRequest,
           ReallocShrink(b, n)
    PROVE  IInv'
<1> USE HeapAssumption
<1> DEFINE tail == b + n
<1>0. /\ LastBlock(b) \in b .. Total - 1
      /\ heap_allocation_block_count(b) = LastBlock(b) - b + 1
      /\ ChainEnd(table, b) = LastBlock(b)
      /\ b \in Pool /\ live[b] \in Nat /\ live[b] > 0 /\ n \in Nat \ {0}
      /\ tail \in Pool /\ b < tail /\ tail <= LastBlock(b)
  <2>1. /\ LastBlock(b) \in b .. Total - 1
        /\ heap_allocation_block_count(b) = LastBlock(b) - b + 1
        /\ ChainEnd(table, b) = LastBlock(b)
    BY ChainOfLive, CountOfLive
  <2>2. b \in Pool /\ live[b] \in Nat /\ live[b] > 0 /\ n \in Nat \ {0}
    BY DEF IInv, TypeOK, Allocations
  <2>3. n < LastBlock(b) - b + 1
    BY <2>1 DEF ReallocShrink
  <2>4. QED
    BY <2>1, <2>2, <2>3 DEF Pool
<1>1. \A i \in b .. LastBlock(b) : i \in Region(b)
  BY <1>0 DEF LastBlock, Region, Span, Pool
<1>2. ChainEnd(table, tail) = LastBlock(b)
  <2>1. \A i \in b .. LastBlock(b) - 1 : i \in Region(b) /\ i # b + live[b] - 1
    BY <1>0 DEF LastBlock, Region, Span, Pool
  <2>2. \A i \in tail .. LastBlock(b) - 1 : HAS_NEXT \in table[i]
    <3>1. \A i \in tail .. LastBlock(b) - 1 : i \in b .. LastBlock(b) - 1
      BY <1>0 DEF Pool
    <3>2. QED
      BY <2>1, <3>1 DEF IInv, TableMatchesLive, Marked
  <2>3. LastBlock(b) = Total - 1 \/ HAS_NEXT \notin table[LastBlock(b)]
    BY <1>0, <1>1 DEF IInv, TableMatchesLive, Marked, LastBlock, Pool
  <2>4. LastBlock(b) \in tail .. Total - 1
    BY <1>0 DEF Pool
  <2>5. QED
    BY <1>0, <2>2, <2>3, <2>4, ChainEndIs
<1>3. \A i \in Blocks :
         table'[i] = IF i = tail - 1 THEN table[i] \ {HAS_NEXT}
                     ELSE IF i \in tail .. LastBlock(b) THEN FREE ELSE table[i]
  <2> DEFINE marked == heap_mark_blocks_free(table, tail)
  <2>1. marked = [i \in Blocks |->
                    IF i \in tail .. LastBlock(b) THEN FREE ELSE table[i]]
    BY <1>2 DEF heap_mark_blocks_free
  <2>2. table' = [marked EXCEPT ![tail - 1] = @ \ {HAS_NEXT}]
    BY DEF ReallocShrink
  <2>3. tail - 1 \notin tail .. LastBlock(b)
    BY <1>0 DEF Pool
  <2> HIDE DEF marked, tail
  <2>4. QED
    BY <2>1, <2>2, <2>3
<1>4. /\ Allocations' = Allocations
      /\ live'[b] = n /\ Region(b)' = Span(b, n)
      /\ \A c \in Allocations \ {b} :
            live'[c] = live[c] /\ Region(c)' = Region(c)
  BY <1>0 DEF ReallocShrink, Allocations, Region, Span, IInv, TypeOK, Pool
<1>5. \A i \in Pool : i \in Region(b) <=> i \in Span(b, n) \cup tail .. LastBlock(b)
  BY <1>0 DEF LastBlock, Region, Span, Pool
<1>6. Span(b, n) \subseteq Pool /\ Span(b, n) \subseteq Region(b)
  BY <1>0, <1>5 DEF Span, Pool
<1>7. \A c \in Allocations \ {b} : \A i \in Region(c) :
         i \in Blocks /\ i # tail - 1 /\ table'[i] = table[i]
  <2> SUFFICES ASSUME NEW c \in Allocations \ {b}, NEW i \in Region(c)
               PROVE  i \in Blocks /\ i # tail - 1 /\ table'[i] = table[i]
    OBVIOUS
  <2>1. i \in Blocks /\ i \notin Region(b)
    BY LiveBlocks
  <2>2. tail - 1 \in b .. LastBlock(b) /\ tail .. LastBlock(b) \subseteq b .. LastBlock(b)
    BY <1>0 DEF Pool
  <2>2a. i # tail - 1 /\ i \notin tail .. LastBlock(b)
    BY <2>1, <2>2, <1>1
  <2>3. QED
    BY <2>1, <2>2a, <1>3
<1>8. TypeOK'
  <2>1. table' \in [Blocks -> Entry]
    BY DEF ReallocShrink, heap_mark_blocks_free, Entry, FREE, IInv, TypeOK
  <2>2. used' \in 0 .. Word - 1 /\ free' \in 0 .. Word - 1
    <3>1. /\ ChainEnd(table, tail) - tail + 1 \in Int
          /\ heap_allocation_block_count(b) - n \in Int
          /\ used \in Int /\ free \in Int
      BY <1>0, <1>2 DEF IInv, TypeOK, Pool
    <3>2. QED
      BY <3>1, WrapType DEF ReallocShrink, Count
  <2>3. QED
    BY <1>0, <2>1, <2>2 DEF ReallocShrink, IInv, TypeOK
<1>9. InBlocks'
  <2>1. b + n <= Total + Slack
    BY <1>0 DEF Pool
  <2>2. QED
    BY <2>1, <1>4 DEF InBlocks, IInv
<1>10. NoOverlap'
  BY <1>4, <1>6 DEF NoOverlap, IInv
<1>11. TableMatchesLive'
  <2>1. ASSUME NEW i \in Pool
        PROVE  (table[i] # FREE <=> \E c \in Allocations : i \in Region(c))'
    <3>0. i \in Blocks
      BY DEF Pool, Blocks
    <3>1. CASE i \in Span(b, n)
      <4>0. i \in Region(b)
        BY <3>1, <1>6
      <4>1. TAKEN \in table[i] /\ i \notin tail .. LastBlock(b)
        <5>1. TAKEN \in table[i]
          BY <4>0, LiveBlocks
        <5>2. i \in Int /\ i < tail
          BY <3>1, <1>0 DEF Span
        <5>3. QED
          BY <5>1, <5>2, <1>0
      <4>2. TAKEN \in table'[i]
        BY <3>0, <4>1, <1>3 DEF TAKEN, HAS_NEXT
      <4>3. QED
        BY <3>1, <4>2, <1>4 DEF FREE
    <3>2. CASE i \in tail .. LastBlock(b)
      <4>1. i # tail - 1 /\ i \in Region(b) /\ i \notin Span(b, n)
        BY <3>2, <1>0, <1>1 DEF Span, Pool
      <4>2. table'[i] = FREE
        BY <3>0, <3>2, <4>1, <1>3
      <4>3. \A c \in Allocations \ {b} : i \notin Region(c)
        BY <4>1, LiveBlocks
      <4>4. QED
        BY <4>1, <4>2, <4>3, <1>4
    <3>3. CASE i \notin Span(b, n) /\ i \notin tail .. LastBlock(b)
      <4>1. i \notin Region(b) /\ i # tail - 1
        BY <3>3, <1>0, <1>5 DEF Span, Pool
      <4>2. table'[i] = table[i]
        BY <3>0, <3>3, <4>1, <1>3
      <4>3. QED
        BY <3>3, <4>1, <4>2, <1>4 DEF IInv, TableMatchesLive
    <3>4. QED
      BY <3>1, <3>2, <3>3
  <2>2. ASSUME NEW c \in Allocations', NEW i \in Region(c)'
        PROVE  Marked(c, i)'
    <3>1. CASE c = b
      <4>1. Marked(b, i) /\ i \in Pool /\ i \in Blocks /\ i \in b .. tail - 1
        BY <3>1, <2>2, <1>0, <1>4, <1>6 DEF IInv, TableMatchesLive, Span, Pool, Blocks
      <4>2. CASE i = tail - 1
        <5>1. table'[i] = table[i] \ {HAS_NEXT}
          BY <4>1, <4>2, <1>3
        <5>2. i = b + n - 1
          BY <4>2, <1>0 DEF Pool
        <5>3. QED
          BY <3>1, <4>1, <5>1, <5>2, <1>4 DEF Marked, TAKEN, HAS_NEXT, IS_FIRST
      <4>3. CASE i # tail - 1
        <5>1. i \notin tail .. LastBlock(b) /\ i # b + n - 1
          BY <4>1, <4>3, <1>0 DEF Pool
        <5>2. table'[i] = table[i]
          BY <4>1, <4>3, <5>1, <1>3
        <5>3. i # b + live[b] - 1
          BY <4>1, <4>3, <1>0 DEF LastBlock, Pool
        <5>4. QED
          BY <3>1, <4>1, <5>1, <5>2, <5>3, <1>4 DEF Marked
      <4>4. QED
        BY <4>2, <4>3
    <3>2. CASE c # b
      BY <3>2, <1>4, <1>7 DEF IInv, TableMatchesLive, Marked
    <3>3. QED
      BY <3>1, <3>2
  <2>3. QED
    BY <2>1, <2>2 DEF TableMatchesLive
<1>12. QED
  BY <1>8, <1>9, <1>10, <1>11 DEF IInv

LEMMA ExtendInv ==
    ASSUME IInv, NEW b \in Allocations, NEW n \in 1 .. MaxRequest,
           ReallocExtend(b, n)
    PROVE  IInv'
<1> USE HeapAssumption
<1> DEFINE count == heap_allocation_block_count(b)
           new   == b + count .. b + n - 1
<1>0. /\ b \in Pool /\ live[b] \in Nat /\ live[b] > 0 /\ n \in Nat \ {0}
      /\ count = LastBlock(b) - b + 1
      /\ LastBlock(b) \in b .. Total - 1
  BY ChainOfLive, CountOfLive DEF IInv, TypeOK, Allocations
<1>1. /\ count < n /\ b + n - 1 < Total + Slack
      /\ \A i \in new : TAKEN \notin table[i]
  BY DEF ReallocExtend, CanExtend, heap_is_block_range_free
\* The last block of b's chain is its last block: past it lies no block of b.
<1>2. b + live[b] <= Total
  <2> SUFFICES ASSUME b + live[b] > Total PROVE FALSE
    BY <1>0 DEF Pool
  <2>1. Total \in Region(b) /\ Total \in new
    BY <1>0, <1>1 DEF LastBlock, Region, Span, Pool
  <2>2. QED
    BY <2>1, <1>1, LiveBlocks
<1>3. live[b] = count /\ LastBlock(b) = b + count - 1 /\ count \in Nat \ {0}
  BY <1>0, <1>2 DEF LastBlock, Pool
<1>4. new \subseteq Blocks /\ b + count - 1 \in Pool /\ b + count - 1 \notin new
  BY <1>0, <1>1, <1>3 DEF Pool, Blocks
<1>5. \A c \in Allocations : Region(c) \cap new = {}
  BY <1>1, LiveBlocks
<1>6. \A i \in Blocks :
         /\ i = b + count - 1 => table'[i] = table[i] \cup {HAS_NEXT}
         /\ i \in new /\ i # b + n - 1 => table'[i] = {TAKEN, HAS_NEXT}
         /\ i \in new /\ i = b + n - 1 => table'[i] = {TAKEN}
         /\ i \notin new /\ i # b + count - 1 => table'[i] = table[i]
  <2> DEFINE edit(i) == CASE i = b + count - 1 -> table[i] \cup {HAS_NEXT}
                          [] i = b + n - 1 -> {TAKEN}
                          [] i \in new /\ i # b + n - 1 -> {TAKEN, HAS_NEXT}
                          [] OTHER -> table[i]
  <2>1. table' = [i \in Blocks |-> edit(i)]
    BY DEF ReallocExtend, Extension
  <2>2. b + n - 1 \in new
    BY <1>0, <1>1, <1>3 DEF Pool
  <2>3. QED
    BY <2>1, <2>2, <1>4
<1>7. /\ Allocations' = Allocations
      /\ live'[b] = n /\ Region(b)' = Span(b, n)
      /\ \A c \in Allocations \ {b} :
            live'[c] = live[c] /\ Region(c)' = Region(c)
  BY <1>0 DEF ReallocExtend, Allocations, Region, Span, IInv, TypeOK, Pool
<1>8. \A i \in Int : i \in Span(b, n) <=> i \in Region(b) \/ i \in new
  BY <1>0, <1>1, <1>3 DEF Region, Span, Pool
<1>9. \A c \in Allocations \ {b} : \A i \in Region(c) :
         i \in Blocks /\ i \notin new /\ table'[i] = table[i]
  <2> SUFFICES ASSUME NEW c \in Allocations \ {b}, NEW i \in Region(c)
               PROVE  i \in Blocks /\ i \notin new /\ table'[i] = table[i]
    OBVIOUS
  <2>1. i \in Blocks /\ i \notin Region(b) /\ i \notin new
    BY <1>5, LiveBlocks
  <2>2. b + count - 1 \in Region(b)
    BY <1>0, <1>3 DEF Region, Span, Pool
  <2>3. QED
    BY <2>1, <2>2, <1>6
<1>10. TypeOK'
  <2>1. table' \in [Blocks -> Entry]
    <3>1. ASSUME NEW i \in Blocks PROVE table'[i] \in Entry
      BY <1>6 DEF IInv, TypeOK, Entry, TAKEN, HAS_NEXT, IS_FIRST
    <3>2. QED
      BY <3>1 DEF ReallocExtend
  <2>2. used' \in 0 .. Word - 1 /\ free' \in 0 .. Word - 1
    <3>1. n - count \in Int /\ used \in Int /\ free \in Int
      BY <1>0, <1>3 DEF IInv, TypeOK
    <3>2. QED
      BY <3>1, WrapType DEF ReallocExtend, Count
  <2>3. QED
    BY <1>0, <2>1, <2>2 DEF ReallocExtend, IInv, TypeOK
<1>11. InBlocks'
  <2>1. b + n <= Total + Slack
    BY <1>0, <1>1 DEF Pool
  <2>2. QED
    BY <2>1, <1>7 DEF InBlocks, IInv
<1>12. NoOverlap'
  <2>1. \A c \in Allocations \ {b} : Region(c) \cap Span(b, n) = {}
    <3> SUFFICES ASSUME NEW c \in Allocations \ {b}, NEW i \in Region(c)
                 PROVE  i \notin Span(b, n)
      OBVIOUS
    <3>1. i \in Int /\ i \notin Region(b) /\ i \notin new
      BY <1>9, LiveBlocks
    <3>2. QED
      BY <3>1, <1>8
  <2>2. QED
    BY <2>1, <1>7 DEF NoOverlap, IInv
<1>13. TableMatchesLive'
  <2>1. ASSUME NEW i \in Pool
        PROVE  (table[i] # FREE <=> \E c \in Allocations : i \in Region(c))'
    <3>0. i \in Blocks /\ i \in Int
      BY DEF Pool, Blocks
    <3>1. CASE i \in new \/ i = b + count - 1
      <4>1. table'[i] # FREE
        BY <3>0, <3>1, <1>6 DEF FREE
      <4>2. i \in Span(b, n)
        BY <3>1, <1>0, <1>1, <1>3 DEF Span, Pool
      <4>3. QED
        BY <4>1, <4>2, <1>7
    <3>2. CASE i \notin new /\ i # b + count - 1
      <4>1. table'[i] = table[i]
        BY <3>0, <3>2, <1>6
      <4>2. i \in Region(b) <=> i \in Span(b, n)
        BY <3>0, <3>2, <1>8
      <4>3. QED
        BY <4>1, <4>2, <1>7 DEF IInv, TableMatchesLive
    <3>3. QED
      BY <3>1, <3>2
  <2>2. ASSUME NEW c \in Allocations', NEW i \in Region(c)'
        PROVE  Marked(c, i)'
    <3>1. CASE c # b
      BY <3>1, <2>2, <1>7, <1>9 DEF IInv, TableMatchesLive, Marked
    <3>2. CASE c = b /\ i \in new
      <4>1. i \in Blocks /\ i # b
        BY <3>2, <1>0, <1>3, <1>4 DEF Pool
      <4>2. IS_FIRST \notin table'[i] /\ TAKEN \in table'[i]
        BY <3>2, <4>1, <1>4, <1>6 DEF TAKEN, HAS_NEXT, IS_FIRST
      <4>3. HAS_NEXT \in table'[i] <=> i # b + n - 1
        BY <3>2, <4>1, <1>4, <1>6 DEF TAKEN, HAS_NEXT
      <4>4. QED
        BY <3>2, <4>1, <4>2, <4>3, <1>7 DEF Marked
    <3>3. CASE c = b /\ i \notin new
      <4>1. i \in Region(b)
        BY <3>3, <2>2, <1>7, <1>8 DEF Span
      <4>2. Marked(b, i) /\ i \in Blocks
        BY <4>1, LiveBlocks DEF IInv, TableMatchesLive
      <4>3. i # b + n - 1
        BY <4>1, <1>0, <1>1, <1>3 DEF Region, Span, Pool
      <4>4. HAS_NEXT \in table'[i]
        BY <4>2, <3>3, <1>3, <1>6 DEF Marked
      <4>5. /\ TAKEN \in table'[i]
            /\ IS_FIRST \in table'[i] <=> IS_FIRST \in table[i]
        BY <4>2, <3>3, <1>6 DEF Marked, TAKEN, HAS_NEXT, IS_FIRST
      <4>6. QED
        BY <3>3, <4>2, <4>3, <4>4, <4>5, <1>7 DEF Marked
    <3>4. QED
      BY <3>1, <3>2, <3>3
  <2>3. QED
    BY <2>1, <2>2 DEF TableMatchesLive
<1>14. QED
  BY <1>10, <1>11, <1>12, <1>13 DEF IInv

\* The region a first-fit search returns is clear of every live region, and
\* marking it leaves the chain of a live allocation as it was.
LEMMA StartBlockClear ==
    ASSUME IInv, NEW n \in Nat, NEW s \in Pool, heap_get_start_block(s, n)
    PROVE  /\ n > 0 /\ s + n <= Total
           /\ Span(s, n) \subseteq Pool /\ s \in Span(s, n)
           /\ s \notin Allocations
           /\ \A c \in Allocations : Region(c) \cap Span(s, n) = {}
<1> USE HeapAssumption
<1>1. /\ n > 0 /\ s + n <= Total
      /\ \A i \in Span(s, n) : i \in Pool /\ TAKEN \notin table[i]
  BY DEF heap_get_start_block, FreeRun, Span, Pool
<1>2. \A c \in Allocations : Region(c) \cap Span(s, n) = {}
  BY <1>1, LiveBlocks
<1>3. s \in Span(s, n)
  BY <1>1 DEF Span, Pool
<1>4. s \in Allocations => s \in Region(s)
  BY DEF Region, Span, Allocations, Pool, IInv, TypeOK
<1>5. QED
  BY <1>1, <1>2, <1>3, <1>4

LEMMA ChainAfterMark ==
    ASSUME IInv, NEW n \in Nat, NEW s \in Pool, heap_get_start_block(s, n),
           NEW b \in Allocations
    PROVE  ChainEnd(heap_mark_blocks_taken(table, s, n), b) = LastBlock(b)
<1> USE HeapAssumption
<1> DEFINE taken == heap_mark_blocks_taken(table, s, n)
<1>0. /\ b \in Pool /\ live[b] \in Nat /\ live[b] > 0
      /\ LastBlock(b) \in b .. Total - 1
  BY ChainOfLive DEF IInv, TypeOK, Allocations
<1>1. \A i \in Region(b) : taken[i] = table[i]
  <2> SUFFICES ASSUME NEW i \in Region(b) PROVE taken[i] = table[i]
    OBVIOUS
  <2>1. i \in Blocks /\ i \notin Span(s, n)
    BY LiveBlocks, StartBlockClear
  <2>2. QED
    BY <2>1 DEF heap_mark_blocks_taken
<1>2. \A i \in b .. LastBlock(b) - 1 : i \in Region(b) /\ i # b + live[b] - 1
  BY <1>0 DEF LastBlock, Region, Span, Pool
<1>3. \A i \in b .. LastBlock(b) - 1 : HAS_NEXT \in taken[i]
  <2> HIDE DEF taken
  <2>1. QED
    BY <1>1, <1>2 DEF IInv, TableMatchesLive, Marked
<1>4. LastBlock(b) \in Region(b)
  BY <1>0 DEF LastBlock, Region, Span, Pool
<1>5. LastBlock(b) = Total - 1 \/ HAS_NEXT \notin taken[LastBlock(b)]
  <2> HIDE DEF taken
  <2>1. QED
    BY <1>0, <1>1, <1>4 DEF IInv, TableMatchesLive, Marked, LastBlock
<1> HIDE DEF taken
<1>6. ChainEnd(taken, b) = LastBlock(b)
  BY <1>0, <1>3, <1>5, ChainEndIs
<1>7. QED
  BY <1>6 DEF taken

LEMMA MoveInv ==
    ASSUME IInv, NEW b \in Allocations, NEW n \in 1 .. MaxRequest,
           ReallocMove(b, n)
    PROVE  IInv'
<1> USE HeapAssumption
<1> PICK s \in Pool :
        LET taken == heap_mark_blocks_taken(table, s, n)
        IN  /\ heap_get_start_block(s, n)
            /\ table' = heap_mark_blocks_free(taken, b)
            /\ live' = [live EXCEPT ![b] = 0, ![s] = n]
            /\ ret' = s
            /\ Count(n - (ChainEnd(taken, b) - b + 1))
  BY DEF ReallocMove
<1> DEFINE taken == heap_mark_blocks_taken(table, s, n)
<1>0. /\ b \in Pool /\ live[b] \in Nat /\ live[b] > 0 /\ n \in Nat \ {0}
      /\ LastBlock(b) \in b .. Total - 1
  BY ChainOfLive DEF IInv, TypeOK, Allocations
<1>1. /\ s + n <= Total /\ Span(s, n) \subseteq Pool /\ s \in Span(s, n)
      /\ s \notin Allocations
      /\ \A c \in Allocations : Region(c) \cap Span(s, n) = {}
  BY <1>0, StartBlockClear
<1>2. ChainEnd(taken, b) = LastBlock(b)
  BY <1>0, ChainAfterMark
<1>3. \A i \in Pool : i \in b .. LastBlock(b) <=> i \in Region(b)
  BY <1>0 DEF LastBlock, Region, Span, Pool
<1>4. b # s /\ Span(s, n) \cap b .. LastBlock(b) = {}
  BY <1>1, <1>3
<1>5. \A i \in Blocks :
         /\ i \in b .. LastBlock(b) => table'[i] = FREE
         /\ i \in Span(s, n) =>
               /\ TAKEN \in table'[i]
               /\ IS_FIRST \in table'[i] <=> i = s
               /\ HAS_NEXT \in table'[i] <=> i # s + n - 1
         /\ i \notin Span(s, n) \cup b .. LastBlock(b) => table'[i] = table[i]
  <2>1. table' = [i \in Blocks |->
                     IF i \in b .. LastBlock(b) THEN FREE ELSE taken[i]]
    BY <1>2 DEF heap_mark_blocks_free
  <2>2. \A i \in Blocks :
           /\ i \in Span(s, n) =>
                 /\ TAKEN \in taken[i]
                 /\ IS_FIRST \in taken[i] <=> i = s
                 /\ HAS_NEXT \in taken[i] <=> i # s + n - 1
           /\ i \notin Span(s, n) => taken[i] = table[i]
    BY DEF heap_mark_blocks_taken, TAKEN, IS_FIRST, HAS_NEXT
  <2> HIDE DEF taken
  <2>3. QED
    BY <2>1, <2>2, <1>4
<1>6. /\ Allocations' = (Allocations \ {b}) \cup {s}
      /\ live'[s] = n /\ Region(s)' = Span(s, n)
      /\ \A c \in Allocations \ {b} :
            live'[c] = live[c] /\ Region(c)' = Region(c)
  BY <1>0, <1>1, <1>4, SMTT(30) DEF Allocations, Region, Span, IInv, TypeOK, Pool
<1>7. \A c \in Allocations \ {b} : \A i \in Region(c) :
         i \in Blocks /\ i \notin Span(s, n) /\ table'[i] = table[i]
  <2> SUFFICES ASSUME NEW c \in Allocations \ {b}, NEW i \in Region(c)
               PROVE  i \in Blocks /\ i \notin Span(s, n) /\ table'[i] = table[i]
    OBVIOUS
  <2>1. i \in Blocks /\ i \notin Region(b) /\ i \notin Span(s, n)
    BY <1>1, LiveBlocks
  <2>2. i \notin b .. LastBlock(b)
    BY <2>1, <1>0, <1>3 DEF Pool
  <2>3. QED
    BY <2>1, <2>2, <1>5
<1>8. TypeOK'
  <2>1. table' \in [Blocks -> Entry]
    BY DEF heap_mark_blocks_free, heap_mark_blocks_taken, Entry, FREE,
           IInv, TypeOK
  <2>2. used' \in 0 .. Word - 1 /\ free' \in 0 .. Word - 1
    <3>1. /\ n - (ChainEnd(taken, b) - b + 1) \in Int
          /\ used \in Int /\ free \in Int
      BY <1>0, <1>2 DEF IInv, TypeOK, Pool
    <3>2. QED
      BY <3>1, WrapType DEF Count
  <2>3. QED
    BY <1>0, <2>1, <2>2 DEF IInv, TypeOK
<1>9. InBlocks'
  <2>1. s + n <= Total + Slack
    BY <1>0, <1>1 DEF Pool
  <2>2. QED
    BY <2>1, <1>6 DEF InBlocks, IInv
<1>10. NoOverlap'
  BY <1>1, <1>6 DEF NoOverlap, IInv
<1>11. TableMatchesLive'
  <2>1. ASSUME NEW i \in Pool
        PROVE  (table[i] # FREE <=> \E c \in Allocations : i \in Region(c))'
    <3>0. i \in Blocks
      BY DEF Pool, Blocks
    <3>1. CASE i \in Span(s, n)
      BY <3>0, <3>1, <1>5, <1>6 DEF FREE
    <3>2. CASE i \in b .. LastBlock(b)
      <4>1. table'[i] = FREE /\ i \in Region(b) /\ i \notin Span(s, n)
        BY <3>0, <3>2, <1>3, <1>4, <1>5
      <4>2. \A c \in Allocations \ {b} : i \notin Region(c)
        BY <4>1, LiveBlocks
      <4>3. QED
        BY <4>1, <4>2, <1>6
    <3>3. CASE i \notin Span(s, n) /\ i \notin b .. LastBlock(b)
      <4>1. table'[i] = table[i] /\ i \notin Region(b)
        BY <3>0, <3>3, <1>3, <1>5
      <4>2. QED
        BY <3>3, <4>1, <1>6 DEF IInv, TableMatchesLive
    <3>4. QED
      BY <3>1, <3>2, <3>3
  <2>2. ASSUME NEW c \in Allocations', NEW i \in Region(c)'
        PROVE  Marked(c, i)'
    <3>1. CASE c = s
      <4>1. i \in Span(s, n) /\ i \in Blocks
        BY <3>1, <2>2, <1>1, <1>6 DEF Pool, Blocks
      <4>2. QED
        BY <3>1, <4>1, <1>5, <1>6 DEF Marked
    <3>2. CASE c # s
      <4>1. c \in Allocations \ {b} /\ i \in Region(c)
        BY <3>2, <2>2, <1>6
      <4>2. table'[i] = table[i] /\ live'[c] = live[c] /\ Marked(c, i)
        BY <4>1, <1>6, <1>7 DEF IInv, TableMatchesLive
      <4>3. QED
        BY <4>2 DEF Marked
    <3>3. QED
      BY <3>1, <3>2
  <2>3. QED
    BY <2>1, <2>2 DEF TableMatchesLive
<1>12. QED
  BY <1>8, <1>9, <1>10, <1>11 DEF IInv

LEMMA StepInv == IInv /\ [Next]_vars => IInv'
<1> SUFFICES ASSUME IInv, [Next]_vars PROVE IInv'
  OBVIOUS
<1>1. ASSUME NEW n \in 0 .. MaxRequest, heap_malloc(n) PROVE IInv'
  BY <1>1, MallocInv
<1>2. ASSUME NEW b \in Allocations, heap_free(b) PROVE IInv'
  BY <1>2, FreeInv
<1>3. ASSUME NEW b \in Allocations, NEW n \in 1 .. MaxRequest,
             heap_realloc(b, n)
      PROVE  IInv'
  BY <1>3, SameInv, ShrinkInv, ExtendInv, MoveInv, OutOfMemoryInv
     DEF heap_realloc
<1>4. CASE UNCHANGED vars
  BY <1>4 DEF vars, IInv, TypeOK, InBlocks, NoOverlap, TableMatchesLive,
              Marked, Allocations, Region, Span
<1>5. QED
  BY <1>1, <1>2, <1>3, <1>4 DEF Next

-----------------------------------------------------------------------------
(* The theorems *)

LEMMA Inductive == Spec => []IInv
BY InitInv, StepInv, PTL DEF Spec

\* heap.c keeps its state in range whatever is asked of it: entries hold the
\* three marks, counters stay size_t, callers own regions that start in the
\* pool.
THEOREM HeapTypes == Spec => []TypeOK
<1>1. IInv => TypeOK
  BY DEF IInv
<1>2. QED
  BY <1>1, Inductive, PTL

\* heap_malloc and heap_realloc never give two callers the same block.
THEOREM HeapNoOverlap == Spec => []NoOverlap
<1>1. IInv => NoOverlap
  BY DEF IInv
<1>2. QED
  BY <1>1, Inductive, PTL

\* The chain of marks heap_free and heap_realloc follow from an address covers
\* that caller's blocks and no others, and no taken block is left ownerless.
THEOREM HeapTableMatchesLive == Spec => []TableMatchesLive
<1>1. IInv => TableMatchesLive
  BY DEF IInv
<1>2. QED
  BY <1>1, Inductive, PTL

-----------------------------------------------------------------------------
(* The counters *)

\* The blocks that are in use.
TakenBlocks == {i \in Pool : TAKEN \in table[i]}

LEMMA PoolSubset ==
    ASSUME NEW S \in SUBSET Pool
    PROVE  IsFiniteSet(S) /\ Cardinality(S) \in Nat /\ Cardinality(S) <= Total
<1>1. IsFiniteSet(Pool) /\ Cardinality(Pool) = Total
  BY HeapAssumption, FS_Interval DEF Pool
<1>2. IsFiniteSet(S) /\ Cardinality(S) <= Cardinality(Pool)
  BY <1>1, FS_Subset
<1>3. Cardinality(S) \in Nat
  BY <1>2, FS_CardinalityType
<1> QED
  BY <1>1, <1>2, <1>3

LEMMA BlocksAdded ==
    ASSUME NEW S \in SUBSET Pool, NEW T \in SUBSET Pool, S \cap T = {}
    PROVE  Cardinality(S \cup T) = Cardinality(S) + Cardinality(T)
<1>1. IsFiniteSet(S) /\ IsFiniteSet(T) /\ Cardinality(S) \in Nat /\ Cardinality(T) \in Nat
  BY PoolSubset
<1>2. Cardinality(S \cup T) = Cardinality(S) + Cardinality(T) - Cardinality(S \cap T)
  BY <1>1, FS_Union
<1>3. Cardinality(S \cap T) = 0
  BY FS_EmptySet
<1> QED
  BY <1>1, <1>2, <1>3

LEMMA BlocksRemoved ==
    ASSUME NEW S \in SUBSET Pool, NEW T \in SUBSET S
    PROVE  Cardinality(S \ T) = Cardinality(S) - Cardinality(T)
<1>1. IsFiniteSet(S)
  BY PoolSubset
<1>2. Cardinality(S \ T) = Cardinality(S) - Cardinality(S \cap T)
  BY <1>1, FS_Difference
<1>3. S \cap T = T
  OBVIOUS
<1> QED
  BY <1>2, <1>3

\* A run of n blocks of the pool.
LEMMA RunHas ==
    ASSUME NEW s \in Pool, NEW n \in Nat, n > 0, s + n <= Total
    PROVE  /\ s .. s + n - 1 \in SUBSET Pool
           /\ Cardinality(s .. s + n - 1) = n
<1>1. s \in Nat /\ s + n - 1 \in Int /\ Total \in Nat
  BY HeapAssumption DEF Pool
<1>2. Cardinality(s .. s + n - 1) = IF s > s + n - 1 THEN 0 ELSE (s + n - 1) - s + 1
  BY <1>1, FS_Interval
<1> QED
  BY <1>1, <1>2 DEF Pool

LEMMA NoWrap ==
    ASSUME Total < Word, NEW k \in Nat, k <= Total
    PROVE  Wrap(k) = k
<1>1. Word \in Nat /\ Total \in Nat
  BY HeapAssumption
<1> QED
  BY <1>1 DEF Wrap

\* A call that counts as many blocks as it takes keeps an exact count exact.
LEMMA CountKeepsExact ==
    ASSUME Total < Word, CountersExact, NEW d \in Int, Count(d),
           Cardinality(TakenBlocks') = Cardinality(TakenBlocks) + d
    PROVE  CountersExact'
<1>1. TakenBlocks' \in SUBSET Pool
  BY DEF TakenBlocks
<1>2. Cardinality(TakenBlocks') \in Nat /\ Cardinality(TakenBlocks') <= Total
  BY <1>1, PoolSubset
<1>3. used = Cardinality(TakenBlocks)
  BY DEF CountersExact, TakenBlocks
<1>4. used' = Wrap(Cardinality(TakenBlocks'))
  BY <1>3 DEF Count
<1>5. used' = Cardinality(TakenBlocks')
  BY <1>2, <1>4, NoWrap
<1> QED
  BY <1>5 DEF CountersExact, TakenBlocks

LEMMA MallocExact ==
    ASSUME IInv, Total < Word, CountersExact, NEW n \in 0 .. MaxRequest, heap_malloc(n)
    PROVE  CountersExact'
<1>1. CASE UNCHANGED <<table, used, free, live>>
  BY <1>1 DEF CountersExact
<1>2. ASSUME NEW s \in Pool, heap_get_start_block(s, n),
             table' = heap_mark_blocks_taken(table, s, n), Count(n)
      PROVE  CountersExact'
  <2>1. /\ n \in Nat /\ n > 0 /\ s + n <= Total
        /\ \A i \in s .. s + n - 1 : TAKEN \notin table[i]
    BY <1>2, HeapAssumption DEF heap_get_start_block, FreeRun, Span
  <2>2. PICK T : T = s .. s + n - 1
    OBVIOUS
  <2>3. T \in SUBSET Pool /\ Cardinality(T) = n
    BY <2>1, <2>2, RunHas
  <2>4. \A i \in Pool : TAKEN \in table'[i] <=> i \in T \/ TAKEN \in table[i]
    <3>1. \A i \in Pool : i \in Blocks
      BY HeapAssumption DEF Pool, Blocks
    <3> QED
      BY <1>2, <2>2, <3>1 DEF heap_mark_blocks_taken, Span
  <2>5. TakenBlocks' = TakenBlocks \cup T
    BY <2>3, <2>4 DEF TakenBlocks
  <2>6. TakenBlocks \in SUBSET Pool /\ TakenBlocks \cap T = {}
    BY <2>1, <2>2 DEF TakenBlocks
  <2>7. Cardinality(TakenBlocks') = Cardinality(TakenBlocks) + n
    BY <2>3, <2>5, <2>6, BlocksAdded
  <2> QED
    BY <1>2, <2>1, <2>7, CountKeepsExact
<1> QED
  BY <1>1, <1>2 DEF heap_malloc

\* An allocation inside the pool: its blocks are all its chain has.
LEMMA WholeInPool ==
    ASSUME IInv, NEW b \in Allocations, live[b] + b <= Total
    PROVE  /\ b \in Pool /\ live[b] \in Nat /\ live[b] > 0
           /\ LastBlock(b) = b + live[b] - 1
           /\ ChainEnd(table, b) = b + live[b] - 1
           /\ heap_allocation_block_count(b) = live[b]
           /\ b .. b + live[b] - 1 \in SUBSET TakenBlocks
           /\ Cardinality(b .. b + live[b] - 1) = live[b]
<1>1. b \in Pool /\ live[b] \in Nat /\ live[b] > 0
  BY DEF IInv, TypeOK, Allocations
<1>2. LastBlock(b) = b + live[b] - 1
  BY <1>1, HeapAssumption DEF LastBlock, Pool
<1>3. ChainEnd(table, b) = LastBlock(b)
  BY ChainOfLive
<1>4. heap_allocation_block_count(b) = LastBlock(b) - b + 1
  BY CountOfLive
<1>5. heap_allocation_block_count(b) = live[b]
  BY <1>1, <1>2, <1>4 DEF Pool
<1>6. b + live[b] <= Total
  BY <1>1, HeapAssumption DEF Pool
<1>7. /\ b .. b + live[b] - 1 \in SUBSET Pool
      /\ Cardinality(b .. b + live[b] - 1) = live[b]
  BY <1>1, <1>6, RunHas
<1>8. \A i \in b .. b + live[b] - 1 : TAKEN \in table[i]
  BY LiveBlocks DEF Region, Span
<1> QED
  BY <1>1, <1>2, <1>3, <1>5, <1>7, <1>8 DEF TakenBlocks

LEMMA FreeExact ==
    ASSUME IInv, Total < Word, CountersExact, NEW b \in Allocations, heap_free(b),
           live[b] + b <= Total
    PROVE  CountersExact'
<1>1. /\ b \in Pool /\ live[b] \in Nat /\ live[b] > 0
      /\ ChainEnd(table, b) = b + live[b] - 1
  BY WholeInPool
<1>2. PICK T : T = b .. b + live[b] - 1
  OBVIOUS
<1>3. T \in SUBSET TakenBlocks /\ Cardinality(T) = live[b]
  BY <1>2, WholeInPool
<1>4. \A i \in Pool : TAKEN \in table'[i] <=> i \notin T /\ TAKEN \in table[i]
  <2>1. \A i \in Pool : i \in Blocks
    BY HeapAssumption DEF Pool, Blocks
  <2> QED
    BY <1>1, <1>2, <2>1 DEF heap_free, heap_mark_blocks_free, FREE
<1>5. TakenBlocks' = TakenBlocks \ T
  BY <1>4 DEF TakenBlocks
<1>6. TakenBlocks \in SUBSET Pool
  BY DEF TakenBlocks
<1>7. Cardinality(TakenBlocks') = Cardinality(TakenBlocks) - live[b]
  BY <1>3, <1>5, <1>6, BlocksRemoved
<1>8. Count(-live[b])
  <2>1. ChainEnd(table, b) - b + 1 = live[b]
    BY <1>1 DEF Pool
  <2> QED
    BY <2>1 DEF heap_free
<1>9. Cardinality(TakenBlocks) \in Nat
  BY <1>6, PoolSubset
<1>10. /\ -live[b] \in Int
       /\ Cardinality(TakenBlocks') = Cardinality(TakenBlocks) + (-live[b])
  BY <1>1, <1>7, <1>9
<1> QED
  BY <1>8, <1>10, CountKeepsExact

LEMMA ExtendExact ==
    ASSUME IInv, Total < Word, CountersExact, NEW b \in Allocations,
           NEW n \in 1 .. MaxRequest, ReallocExtend(b, n),
           live[b] + b <= Total, n + b <= Total
    PROVE  CountersExact'
<1>1. /\ b \in Pool /\ live[b] \in Nat /\ live[b] > 0 /\ n \in Nat
      /\ heap_allocation_block_count(b) = live[b]
      /\ b .. b + live[b] - 1 \in SUBSET TakenBlocks
  BY WholeInPool, HeapAssumption
<1>2. live[b] < n
  BY <1>1 DEF ReallocExtend
<1>3. PICK s \in Pool : s = b + live[b]
  BY <1>1, <1>2, HeapAssumption DEF Pool
<1>4. PICK m \in Nat : m = n - live[b] /\ m > 0
  BY <1>1, <1>2
<1>5. s + m <= Total /\ s + m - 1 = b + n - 1
  BY <1>1, <1>3, <1>4, HeapAssumption DEF Pool
<1>6. PICK T : T = s .. s + m - 1
  OBVIOUS
<1>7. T \in SUBSET Pool /\ Cardinality(T) = m
  BY <1>3, <1>4, <1>5, <1>6, RunHas
<1>8. \A i \in T : TAKEN \notin table[i]
  BY <1>1, <1>3, <1>5, <1>6 DEF ReallocExtend, CanExtend, heap_is_block_range_free
<1>9. \A i \in Blocks :
        table'[i] = CASE i = b + live[b] - 1 -> table[i] \cup {HAS_NEXT}
                      [] i = b + n - 1 -> {TAKEN}
                      [] i \in T /\ i # b + n - 1 -> {TAKEN, HAS_NEXT}
                      [] OTHER -> table[i]
  <2>1. Extension(b, n) = T
    BY <1>1, <1>3, <1>5, <1>6 DEF Extension
  <2> QED
    BY <1>1, <2>1 DEF ReallocExtend
<1>10. b + n - 1 \in T
  <2>1. s \in Int /\ s + m - 1 \in s .. s + m - 1
    BY <1>4 DEF Pool
  <2> QED
    BY <1>5, <1>6, <2>1
<1>11. /\ TAKEN \in table[b + live[b] - 1] /\ b + live[b] - 1 # b + n - 1
       /\ b + live[b] - 1 \notin T
  <2>1. b + live[b] - 1 \in b .. b + live[b] - 1
    BY <1>1 DEF Pool
  <2>2. TAKEN \in table[b + live[b] - 1]
    BY <1>1, <2>1 DEF TakenBlocks
  <2>3. PICK l \in Nat : l = live[b]
    BY <1>1
  <2>4. b \in Int /\ s \in Int /\ l < n /\ s = b + l
    BY <1>1, <1>2, <1>3, <2>3 DEF Pool
  <2>5. b + l - 1 < s /\ b + l - 1 # b + n - 1
    BY <1>1, <2>4
  <2>6. b + l - 1 \notin s .. s + m - 1
    BY <2>4, <2>5
  <2> QED
    BY <1>6, <2>2, <2>3, <2>5, <2>6
<1>12. \A i \in Pool : TAKEN \in table'[i] <=> i \in T \/ TAKEN \in table[i]
  <2> SUFFICES ASSUME NEW i \in Pool
               PROVE  TAKEN \in table'[i] <=> i \in T \/ TAKEN \in table[i]
    OBVIOUS
  <2>1. i \in Blocks
    BY HeapAssumption DEF Pool, Blocks
  <2>2. CASE i = b + live[b] - 1
    <3>1. i # b + n - 1 /\ i \notin T
      BY <1>11, <2>2
    <3>2. table'[i] = table[i] \cup {HAS_NEXT}
      BY <1>9, <2>1, <2>2, <3>1
    <3> QED
      BY <1>11, <2>2, <3>2
  <2>3. CASE i \in T
    <3>1. table'[i] = {TAKEN} \/ table'[i] = {TAKEN, HAS_NEXT}
      BY <1>9, <1>11, <2>1, <2>3
    <3> QED
      BY <2>3, <3>1
  <2>4. CASE i # b + live[b] - 1 /\ i \notin T
    BY <1>9, <1>10, <2>1, <2>4
  <2> QED
    BY <2>2, <2>3, <2>4
<1>13. TakenBlocks' = TakenBlocks \cup T
  BY <1>7, <1>12 DEF TakenBlocks
<1>14. TakenBlocks \in SUBSET Pool /\ TakenBlocks \cap T = {}
  BY <1>8 DEF TakenBlocks
<1>15. Cardinality(TakenBlocks') = Cardinality(TakenBlocks) + m
  BY <1>7, <1>13, <1>14, BlocksAdded
<1>16. Count(m)
  BY <1>1, <1>4 DEF ReallocExtend
<1> QED
  BY <1>15, <1>16, CountKeepsExact

LEMMA MoveExact ==
    ASSUME IInv, Total < Word, CountersExact, NEW b \in Allocations,
           NEW n \in 1 .. MaxRequest, ReallocMove(b, n), live[b] + b <= Total
    PROVE  CountersExact'
<1>1. /\ b \in Pool /\ live[b] \in Nat /\ live[b] > 0 /\ n \in Nat
      /\ LastBlock(b) = b + live[b] - 1
  BY WholeInPool, HeapAssumption
<1>2. PICK s \in Pool :
        LET taken == heap_mark_blocks_taken(table, s, n)
        IN  /\ heap_get_start_block(s, n)
            /\ table' = heap_mark_blocks_free(taken, b)
            /\ Count(n - (ChainEnd(taken, b) - b + 1))
  BY DEF ReallocMove
<1>3. PICK taken : taken = heap_mark_blocks_taken(table, s, n)
  OBVIOUS
<1>4. ChainEnd(taken, b) = b + live[b] - 1
  BY <1>1, <1>2, <1>3, ChainAfterMark
<1>5. /\ n > 0 /\ s + n <= Total
      /\ \A i \in s .. s + n - 1 : TAKEN \notin table[i]
  BY <1>1, <1>2 DEF heap_get_start_block, FreeRun, Span
<1>6. PICK S : S = s .. s + n - 1
  OBVIOUS
<1>7. PICK T : T = b .. b + live[b] - 1
  OBVIOUS
<1>8. S \in SUBSET Pool /\ Cardinality(S) = n
  BY <1>1, <1>5, <1>6, RunHas
<1>9. T \in SUBSET TakenBlocks /\ Cardinality(T) = live[b]
  BY <1>7, WholeInPool
<1>10. TakenBlocks \in SUBSET Pool /\ TakenBlocks \cap S = {}
  BY <1>5, <1>6 DEF TakenBlocks
<1>11. \A i \in Pool : TAKEN \in table'[i] <=> i \notin T /\ (i \in S \/ TAKEN \in table[i])
  <2>1. \A i \in Pool : i \in Blocks
    BY HeapAssumption DEF Pool, Blocks
  <2>2. \A i \in Pool : TAKEN \in taken[i] <=> i \in S \/ TAKEN \in table[i]
    BY <1>3, <1>6, <2>1 DEF heap_mark_blocks_taken, Span
  <2>3. table' = heap_mark_blocks_free(taken, b)
    BY <1>2, <1>3
  <2>4. \A i \in Pool : table'[i] = IF i \in T THEN FREE ELSE taken[i]
    BY <1>4, <1>7, <2>1, <2>3 DEF heap_mark_blocks_free
  <2> QED
    BY <2>2, <2>4 DEF FREE
<1>12. TakenBlocks' = (TakenBlocks \cup S) \ T
  BY <1>8, <1>11 DEF TakenBlocks
<1>13. Cardinality(TakenBlocks \cup S) = Cardinality(TakenBlocks) + n
  BY <1>8, <1>10, BlocksAdded
<1>14. Cardinality(TakenBlocks') = Cardinality(TakenBlocks \cup S) - live[b]
  <2>1. TakenBlocks \cup S \in SUBSET Pool /\ T \in SUBSET (TakenBlocks \cup S)
    BY <1>8, <1>9, <1>10
  <2> QED
    BY <1>9, <1>12, <2>1, BlocksRemoved
<1>15. Count(n - live[b])
  <2>1. ChainEnd(taken, b) - b + 1 = live[b]
    BY <1>1, <1>4 DEF Pool
  <2> QED
    BY <1>2, <1>3, <2>1
<1>16. Cardinality(TakenBlocks) \in Nat
  BY <1>10, PoolSubset
<1>17. /\ n - live[b] \in Int
       /\ Cardinality(TakenBlocks') = Cardinality(TakenBlocks) + (n - live[b])
  BY <1>1, <1>13, <1>14, <1>16
<1> QED
  BY <1>15, <1>17, CountKeepsExact

\* heap_free, heap_malloc and heap_realloc (heap.c) count what they do: only a
\* realloc to fewer blocks, which counts what it frees twice, and an allocation
\* over the table's end make exact counters wrong.  A size_t counts all blocks.
THEOREM HeapDriftsOnlyByShrinkOrOverrun ==
    ASSUME Total < Word
    PROVE  Spec => DriftOnlyByShrinkOrOverrun
<1> DEFINE Shrinks  == \E b \in Allocations : 0 < live'[b] /\ live'[b] < live[b]
           Overruns == \E b \in Pool : live[b] + b > Total \/ live'[b] + b > Total
<1>1. ASSUME IInv, [Next]_vars, CountersExact, ~CountersExact'
      PROVE  Shrinks \/ Overruns
  <2> SUFFICES ASSUME ~Overruns PROVE Shrinks
    OBVIOUS
  <2>1. \A b \in Pool : live[b] + b \in Int /\ live[b] + b <= Total
    BY <1>1, HeapAssumption DEF IInv, TypeOK, Pool
  <2>2. ASSUME NEW n \in 0 .. MaxRequest, heap_malloc(n) PROVE FALSE
    BY <1>1, <2>2, MallocExact
  <2>3. ASSUME NEW b \in Allocations, heap_free(b) PROVE FALSE
    <3>1. live[b] + b <= Total
      BY <2>1 DEF Allocations
    <3> QED
      BY <1>1, <2>3, <3>1, FreeExact
  <2>4. ASSUME NEW b \in Allocations, NEW n \in 1 .. MaxRequest, heap_realloc(b, n)
        PROVE  Shrinks
    <3>1. live[b] + b <= Total
      BY <2>1 DEF Allocations
    <3>2. /\ b \in Pool /\ live[b] \in Nat /\ live[b] > 0
          /\ heap_allocation_block_count(b) = live[b]
      BY <1>1, <3>1, WholeInPool
    <3>3. CASE ReallocSame(b, n) \/ ReallocOutOfMemory(b, n)
      BY <1>1, <3>3 DEF ReallocSame, ReallocOutOfMemory, CountersExact
    <3>4. CASE ReallocShrink(b, n)
      <4>1. live'[b] = n /\ 0 < n /\ n < live[b]
        BY <1>1, <3>2, <3>4, HeapAssumption DEF ReallocShrink, IInv, TypeOK
      <4> QED
        BY <4>1
    <3>5. CASE ReallocExtend(b, n)
      <4>1. live'[b] = n
        BY <1>1, <3>2, <3>5 DEF ReallocExtend, IInv, TypeOK
      <4>2. n + b <= Total
        BY <3>2, <4>1, HeapAssumption DEF Pool
      <4> QED
        BY <1>1, <3>1, <3>5, <4>2, ExtendExact
    <3>6. CASE ReallocMove(b, n)
      BY <1>1, <3>1, <3>6, MoveExact
    <3> QED
      BY <2>4, <3>3, <3>4, <3>5, <3>6 DEF heap_realloc
  <2>5. CASE UNCHANGED vars
    BY <1>1, <2>5 DEF vars, CountersExact
  <2> QED
    BY <1>1, <2>2, <2>3, <2>4, <2>5 DEF Next
<1> QED
  BY <1>1, Inductive, PTL DEF Spec, DriftOnlyByShrinkOrOverrun

-----------------------------------------------------------------------------
(* Refinement *)

LEMMA OwnedIs ==
    ASSUME IInv
    PROVE  /\ Pool \subseteq Blocks /\ Blocks = 0 .. (Total + Slack) - 1
           /\ \A b \in Blocks : Owned[b] \in Nat
           /\ \A b \in Blocks : Owned[b] > 0 <=> b \in Allocations
           /\ \A b \in Allocations : Owned[b] = live[b]
BY HeapAssumption DEF Owned, Pool, Blocks, Allocations, IInv, TypeOK

\* A region that no other live region meets is clear in the abstract pool.
LEMMA ClearIfApart ==
    ASSUME IInv, NEW b \in Blocks, NEW n \in Nat \ {0}, NEW mine,
           b + n <= Total + Slack,
           \A c \in Allocations \ mine : Region(c) \cap Span(b, n) = {}
    PROVE  Allocator!Clear(b, n, mine)
<1> SUFFICES ASSUME NEW c \in Blocks \ mine
             PROVE  Span(b, n) \cap Span(c, Owned[c]) = {}
  BY OwnedIs, SMTT(30) DEF Allocator!Clear, Allocator!Span, Allocator!PoolBlocks, Span
<1>1. CASE c \in Allocations
  BY <1>1, OwnedIs DEF Region
<1>2. CASE c \notin Allocations
  <2>1. Owned[c] = 0
    BY <1>2, OwnedIs
  <2>2. Span(c, Owned[c]) = {}
    BY <2>1, HeapAssumption DEF Blocks, Span
  <2>3. QED
    BY <2>2
<1>3. QED
  BY <1>1, <1>2

LEMMA InitRefines == Init => Allocator!Init
BY HeapAssumption DEF Init, Allocator!Init, Allocator!PoolBlocks, Owned, Blocks

LEMMA MallocRefines ==
    ASSUME IInv, NEW n \in 0 .. MaxRequest, heap_malloc(n)
    PROVE  Allocator!Next \/ UNCHANGED Owned
<1> USE HeapAssumption
<1>1. CASE UNCHANGED <<table, used, free, live>> /\ ret' = NULL
  BY <1>1 DEF Owned
<1>2. ASSUME NEW s \in Pool, heap_get_start_block(s, n),
             live' = [live EXCEPT ![s] = n]
      PROVE  Allocator!Next
  <2>1. /\ n \in Nat \ {0} /\ s + n <= Total /\ s \in Blocks
        /\ \A c \in Allocations : Region(c) \cap Span(s, n) = {}
    BY <1>2, StartBlockClear, OwnedIs
  <2>2. Allocator!Clear(s, n, {})
    <3>1. n \in Nat \ {0} /\ s + n <= Total + Slack
      BY <2>1 DEF Pool
    <3>2. \A c \in Allocations \ {} : Region(c) \cap Span(s, n) = {}
      BY <2>1
    <3>3. QED
      BY <2>1, <3>1, <3>2, ClearIfApart
  <2>3. Owned' = [Owned EXCEPT ![s] = n]
    BY <1>2 DEF Owned, IInv, TypeOK
  <2>4. n \in 1 .. Total + Slack
    BY <2>1 DEF Pool
  <2>5. QED
    BY <2>1, <2>2, <2>3, <2>4, OwnedIs
       DEF Allocator!Next, Allocator!Allocate, Allocator!PoolBlocks
<1>3. QED
  BY <1>1, <1>2 DEF heap_malloc

LEMMA FreeRefines ==
    ASSUME IInv, NEW b \in Allocations, heap_free(b)
    PROVE  Allocator!Next
<1>1. b \in Blocks /\ b \in Pool /\ Owned[b] > 0
  BY OwnedIs DEF Allocations
<1>2. Owned' = [Owned EXCEPT ![b] = 0]
  BY <1>1 DEF heap_free, Owned, IInv, TypeOK
<1>3. QED
  BY <1>1, <1>2, OwnedIs
     DEF Allocator!Next, Allocator!Release, Allocator!PoolBlocks

\* Realloc without a new address: the same size, smaller, or grown in place.
LEMMA ResizeRefines ==
    ASSUME IInv, IInv', NEW b \in Allocations, NEW n \in 1 .. MaxRequest,
           live' = [live EXCEPT ![b] = n]
    PROVE  Allocator!Next
<1> USE HeapAssumption
<1>1. b \in Blocks /\ b \in Pool /\ Owned[b] > 0 /\ n \in Nat \ {0}
  BY OwnedIs DEF Allocations
<1>2. /\ b \in Allocations' /\ Region(b)' = Span(b, n) /\ live'[b] = n
      /\ \A c \in Allocations \ {b} :
            c \in Allocations' /\ Region(c)' = Region(c)
  BY <1>1 DEF Allocations, Region, Span, IInv, TypeOK
<1>3. b + n <= Total + Slack
  BY <1>2 DEF IInv, InBlocks
<1>4. \A c \in Allocations \ {b} : Region(c) \cap Span(b, n) = {}
  BY <1>2 DEF IInv, NoOverlap
<1>5. Allocator!Clear(b, n, {b})
  BY <1>1, <1>3, <1>4, ClearIfApart
<1>6. Owned' = [Owned EXCEPT ![b] = n]
  BY <1>1 DEF Owned, IInv, TypeOK
<1>7. n \in 1 .. Total + Slack
  BY <1>1, <1>3 DEF Pool
<1>8. QED
  BY <1>1, <1>5, <1>6, <1>7, OwnedIs
     DEF Allocator!Next, Allocator!Resize, Allocator!PoolBlocks

LEMMA MoveRefines ==
    ASSUME IInv, NEW b \in Allocations, NEW n \in 1 .. MaxRequest,
           ReallocMove(b, n)
    PROVE  Allocator!Next
<1> USE HeapAssumption
<1>1. PICK s \in Pool : /\ heap_get_start_block(s, n)
                        /\ live' = [live EXCEPT ![b] = 0, ![s] = n]
  BY DEF ReallocMove
<1>2. /\ n \in Nat \ {0} /\ s + n <= Total /\ s \in Blocks
      /\ \A c \in Allocations : Region(c) \cap Span(s, n) = {}
  BY <1>1, StartBlockClear, OwnedIs
<1>3. b \in Blocks /\ b \in Pool /\ Owned[b] > 0
  BY OwnedIs DEF Allocations
<1>4. Allocator!Clear(s, n, {})
  <2>1. n \in Nat \ {0} /\ s + n <= Total + Slack
    BY <1>2 DEF Pool
  <2>2. \A c \in Allocations \ {} : Region(c) \cap Span(s, n) = {}
    BY <1>2
  <2>3. QED
    BY <1>2, <2>1, <2>2, ClearIfApart
<1>5. Owned' = [Owned EXCEPT ![b] = 0, ![s] = n]
  BY <1>1, <1>3 DEF Owned, IInv, TypeOK
<1>6. n \in 1 .. Total + Slack
  BY <1>2 DEF Pool
<1>7. QED
  BY <1>2, <1>3, <1>4, <1>5, <1>6, OwnedIs
     DEF Allocator!Next, Allocator!Move, Allocator!PoolBlocks

\* heap.c implements the block allocator: whatever sequence of calls is made,
\* each one is an allocation, a release, a resize or a move of the abstract
\* pool, or changes nothing of it.
THEOREM HeapImplementsAllocator == Spec => AllocatorSpec
<1>1. ASSUME IInv, IInv', [Next]_vars
      PROVE  [Allocator!Next]_Owned
  <2>1. ASSUME NEW n \in 0 .. MaxRequest, heap_malloc(n)
        PROVE  [Allocator!Next]_Owned
    BY <1>1, <2>1, MallocRefines
  <2>2. ASSUME NEW b \in Allocations, heap_free(b)
        PROVE  [Allocator!Next]_Owned
    BY <1>1, <2>2, FreeRefines
  <2>3. ASSUME NEW b \in Allocations, NEW n \in 1 .. MaxRequest,
               heap_realloc(b, n)
        PROVE  [Allocator!Next]_Owned
    <3>1. CASE live' = [live EXCEPT ![b] = n]
      BY <1>1, <3>1, ResizeRefines
    <3>2. CASE ReallocMove(b, n)
      BY <1>1, <3>2, MoveRefines
    <3>3. CASE ReallocOutOfMemory(b, n)
      BY <3>3 DEF ReallocOutOfMemory, Owned
    <3>4. QED
      BY <2>3, <3>1, <3>2, <3>3
         DEF heap_realloc, ReallocSame, ReallocShrink, ReallocExtend
  <2>4. CASE UNCHANGED vars
    BY <2>4 DEF vars, Owned
  <2>5. QED
    BY <1>1, <2>1, <2>2, <2>3, <2>4 DEF Next
<1>2. QED
  BY <1>1, InitRefines, Inductive, PTL DEF Spec, AllocatorSpec, Allocator!Spec

-----------------------------------------------------------------------------
(* The memory of processes: the inductive invariant *)

\* h is an allocation of the heap that was made for p.
OwnedBy(p, h) ==
    /\ h.ptr \in Pool
    /\ live[h.ptr] = h.size /\ h.size > 0
    /\ owner[h.ptr] = p

HInv ==
    /\ \A b \in Pool : live[b] <= MaxRequest
    /\ owner \in [Pool -> Processes \cup {KERNEL, NOBODY}]
    /\ held = [p \in Owners |-> held[p]]
    /\ \A h \in held[KERNEL] : h.ptr \in Pool /\ h.size \in 1 .. MaxRequest
    /\ \A p \in Owners \ crossed : \A h \in held[p] : OwnedBy(p, h)

MInv == IInv /\ HInv

-----------------------------------------------------------------------------
(* What the heap's calls do to their callers *)

LEMMA MallocEffect ==
    ASSUME IInv, NEW n \in 0 .. MaxRequest, heap_malloc(n)
    PROVE  \/ ret' = NULL /\ live' = live
           \/ \E s \in Pool : /\ ret' = s /\ n > 0 /\ live[s] = 0
                              /\ live' = [live EXCEPT ![s] = n]
<1>1. CASE ret' = NULL /\ live' = live
  BY <1>1
<1>2. CASE \E s \in Pool : /\ heap_get_start_block(s, n)
                           /\ live' = [live EXCEPT ![s] = n] /\ ret' = s
  <2>1. PICK s \in Pool : /\ heap_get_start_block(s, n)
                          /\ live' = [live EXCEPT ![s] = n] /\ ret' = s
    BY <1>2
  <2>2. n \in Nat
    BY HeapAssumption
  <2>3. n > 0 /\ s \notin Allocations
    BY <2>1, <2>2, StartBlockClear
  <2>4. live[s] = 0
    BY <2>3 DEF Allocations, IInv, TypeOK
  <2>5. QED
    BY <2>1, <2>3, <2>4
<1>3. QED
  BY <1>1, <1>2 DEF heap_malloc

LEMMA ReallocEffect ==
    ASSUME IInv, NEW b \in Allocations, NEW n \in 1 .. MaxRequest, heap_realloc(b, n)
    PROVE  \/ ret' = NULL /\ live' = live
           \/ ret' = b /\ live' = [live EXCEPT ![b] = n]
           \/ \E s \in Pool : /\ ret' = s /\ s # b /\ live[s] = 0
                              /\ live' = [live EXCEPT ![b] = 0, ![s] = n]
<1>1. CASE ReallocSame(b, n) \/ ReallocShrink(b, n) \/ ReallocExtend(b, n)
  BY <1>1 DEF ReallocSame, ReallocShrink, ReallocExtend
<1>2. CASE ReallocMove(b, n)
  <2>1. PICK s \in Pool : /\ heap_get_start_block(s, n) /\ ret' = s
                          /\ live' = [live EXCEPT ![b] = 0, ![s] = n]
    BY <1>2 DEF ReallocMove
  <2>2. n \in Nat
    BY HeapAssumption
  <2>3. s \notin Allocations
    BY <2>1, <2>2, StartBlockClear
  <2>4. live[s] = 0 /\ s # b
    BY <2>3 DEF Allocations, IInv, TypeOK
  <2>5. QED
    BY <2>1, <2>4
<1>3. CASE ReallocOutOfMemory(b, n)
  BY <1>3 DEF ReallocOutOfMemory
<1>4. QED
  BY <1>1, <1>2, <1>3 DEF heap_realloc

LEMMA NullIsNoBlock == NULL \notin Pool
BY HeapAssumption DEF NULL, Pool

-----------------------------------------------------------------------------
(* Every step of the memory of processes is a step of the heap, or none *)

LEMMA StepOfHeap == MInv /\ [MemoryNext]_allVars => [Next]_vars
<1> SUFFICES ASSUME MInv, [MemoryNext]_allVars PROVE [Next]_vars
  OBVIOUS
<1> USE HeapAssumption
<1>1. ASSUME NEW p \in Processes, NEW n \in 0 .. MaxRequest, process_malloc(p, n)
      PROVE  Next
  BY <1>1 DEF process_malloc, Next
<1>2. ASSUME NEW p \in Processes, NEW ptr \in Pool, NEW b \in Pool,
             NEW n \in 1 .. MaxRequest, process_realloc(p, ptr, b, n)
      PROVE  Next
  BY <1>2 DEF process_realloc, Reallocatable, Next
<1>2a. ASSUME NEW p \in Processes, NEW ptr \in Pool \cup {OUTSIDE},
              NEW n \in 0 .. MaxRequest, process_realloc_anew(p, ptr, n)
       PROVE  Next
  BY <1>2a DEF process_realloc_anew, Next
<1>3. ASSUME NEW p \in Processes, NEW ptr \in Pool, NEW b \in Pool,
             process_realloc_to_zero(p, ptr, b)
      PROVE  Next
  BY <1>3 DEF process_realloc_to_zero, Reallocatable, Next
<1>4. ASSUME NEW p \in Processes, NEW pixels \in held[KERNEL],
             process_map_into_userspace(p, pixels)
      PROVE  Next
  <2>1. pixels.size \in 0 .. MaxRequest
    BY DEF MInv, HInv
  <2>2. heap_malloc(pixels.size)
    BY <1>4 DEF process_map_into_userspace
  <2>3. QED
    BY <2>1, <2>2 DEF Next
<1>5. ASSUME NEW n \in 1 .. MaxRequest, kmalloc(n)
      PROVE  Next
  BY <1>5 DEF kmalloc, Next
<1>6. ASSUME NEW h \in held[KERNEL], NEW n \in 1 .. MaxRequest, krealloc(h.ptr, n)
      PROVE  Next
  BY <1>6 DEF krealloc, Next
<1>7. ASSUME NEW p \in Processes, NEW b \in Pool, process_free(p, b)
      PROVE  UNCHANGED vars
  BY <1>7 DEF process_free
<1>8. ASSUME NEW p \in Processes, process_terminate(p)
      PROVE  UNCHANGED vars
  BY <1>8 DEF process_terminate
<1>9. ASSUME NEW p \in Processes, NEW ptr \in Pool \cup {OUTSIDE},
             process_realloc_astray(p, ptr)
      PROVE  UNCHANGED vars
  BY <1>9 DEF process_realloc_astray
<1>10. ASSUME NEW h \in held[KERNEL], krealloc_astray(h.ptr)
       PROVE  UNCHANGED vars
  BY <1>10 DEF krealloc_astray
<1>11. CASE UNCHANGED allVars
  BY <1>11 DEF allVars
<1>12. QED
  BY <1>1, <1>2, <1>2a, <1>3, <1>4, <1>5, <1>6, <1>7, <1>8, <1>9, <1>10, <1>11
     DEF MemoryNext

-----------------------------------------------------------------------------
(* What is held stays its holder's, as long as nobody crosses it.  q is who a *)
(* call is made for: a process or the kernel.                                 *)

\* Block s is given to q, who may not come to hear of it, and holds H besides.
LEMMA GivenKeeps ==
    ASSUME MInv, NEW q \in Owners, NEW s \in Pool, NEW n \in 1 .. MaxRequest,
           NEW H \in SUBSET held[q],
           live[s] = 0, live' = [live EXCEPT ![s] = n],
           owner' = [owner EXCEPT ![s] = q], crossed' = crossed,
           \/ held' = held
           \/ held' = [held EXCEPT ![q] = H \cup {[ptr |-> s, size |-> n]}]
    PROVE  HInv'
<1> USE HeapAssumption DEF Owners
<1>1. live \in [Pool -> Nat] /\ live'[s] = n /\ owner'[s] = q
  BY DEF MInv, HInv, IInv, TypeOK
<1>2. \A b \in Pool : live'[b] <= MaxRequest
  BY <1>1 DEF MInv, HInv
<1>3. owner' \in [Pool -> Processes \cup {KERNEL, NOBODY}]
  BY DEF MInv, HInv
<1>4. held' = [p \in Owners |-> held'[p]]
  BY DEF MInv, HInv
<1>5. ASSUME NEW p \in Owners \ crossed, NEW h \in held[p]
      PROVE  OwnedBy(p, h)'
  <2>1. OwnedBy(p, h)
    BY <1>5 DEF MInv, HInv
  <2>2. h.ptr # s
    BY <2>1 DEF OwnedBy
  <2>3. live'[h.ptr] = live[h.ptr] /\ owner'[h.ptr] = owner[h.ptr]
    BY <2>1, <2>2, <1>1 DEF OwnedBy, MInv, HInv
  <2>4. QED
    BY <2>1, <2>3 DEF OwnedBy
<1>6. OwnedBy(q, [ptr |-> s, size |-> n])'
  BY <1>1 DEF OwnedBy
<1>7. ASSUME NEW p \in Owners, NEW h \in held'[p]
      PROVE  h \in held[p] \/ (p = q /\ h = [ptr |-> s, size |-> n])
  <2>1. CASE held' = held
    BY <2>1, <1>7
  <2>2. CASE held' = [held EXCEPT ![q] = H \cup {[ptr |-> s, size |-> n]}]
    <3>1. q \in DOMAIN held /\ p \in DOMAIN held
      BY DEF MInv, HInv
    <3>2. held'[q] = H \cup {[ptr |-> s, size |-> n]}
      BY <3>1, <2>2
    <3>3. p # q => held'[p] = held[p]
      BY <3>1, <2>2
    <3>4. QED
      BY <1>7, <3>2, <3>3
  <2>3. QED
    BY <2>1, <2>2
<1>8. ASSUME NEW p \in Owners \ crossed', NEW h \in held'[p]
      PROVE  OwnedBy(p, h)'
  <2>1. CASE h \in held[p]
    BY <2>1, <1>5
  <2>2. CASE p = q /\ h = [ptr |-> s, size |-> n]
    BY <2>2, <1>6 DEF OwnedBy
  <2>3. QED
    BY <1>7, <2>1, <2>2
<1>9. ASSUME NEW h \in held'[KERNEL]
      PROVE  h.ptr \in Pool /\ h.size \in 1 .. MaxRequest
  BY <1>7 DEF MInv, HInv
<1>10. QED
  BY <1>2, <1>3, <1>4, <1>8, <1>9 DEF HInv

\* Who is not crossed by q's realloc of ptr is not the one b was made for, or
\* it is q, whose allocation ptr is.
LEMMA NotCrossed ==
    ASSUME MInv, NEW q \in Owners, NEW ptr, NEW b \in Pool, Crosses(q, ptr, b),
           NEW p \in Owners, p \notin crossed'
    PROVE  /\ p \notin crossed
           /\ p # owner[b] \/ (p = q /\ ptr = b)
           /\ p = q => ptr = b /\ owner[b] = q
<1>1. CASE IsItsOwn(q, ptr, b)
  BY <1>1 DEF Crosses, IsItsOwn
<1>2. CASE ~IsItsOwn(q, ptr, b)
  BY <1>2 DEF Crosses
<1>3. QED
  BY <1>1, <1>2

\* The allocation at b, which q knows at ptr, becomes one of n blocks at s, which
\* is b or was free.
LEMMA MovedKeeps ==
    ASSUME MInv, NEW q \in Owners, NEW ptr, NEW b \in Pool, NEW s \in Pool,
           NEW n \in 1 .. MaxRequest, s = b \/ live[s] = 0,
           live' = [live EXCEPT ![b] = 0, ![s] = n],
           owner' = [owner EXCEPT ![b] = NOBODY, ![s] = owner[b]],
           held' = [held EXCEPT ![q] = HeldWithout(q, ptr) \cup {[ptr |-> s, size |-> n]}],
           Crosses(q, ptr, b)
    PROVE  HInv'
<1> USE HeapAssumption DEF Owners
<1>1. /\ live \in [Pool -> Nat] /\ live'[s] = n
      /\ owner \in [Pool -> Processes \cup {KERNEL, NOBODY}] /\ owner'[s] = owner[b]
  BY DEF MInv, HInv, IInv, TypeOK
<1>2. \A c \in Pool : live'[c] <= MaxRequest
  BY <1>1 DEF MInv, HInv
<1>3. owner' \in [Pool -> Processes \cup {KERNEL, NOBODY}]
  BY <1>1
<1>4. held' = [p \in Owners |-> held'[p]]
  BY DEF MInv, HInv
<1>5. ASSUME NEW p \in Owners, p \notin crossed', NEW h \in held[p], p # q \/ h.ptr # ptr
      PROVE  OwnedBy(p, h)'
  <2>1. /\ p \notin crossed
        /\ p # owner[b] \/ (p = q /\ ptr = b)
    BY <1>5, NotCrossed
  <2>2. OwnedBy(p, h)
    BY <1>5, <2>1 DEF MInv, HInv
  <2>3. h.ptr # b /\ h.ptr # s
    BY <2>1, <2>2, <1>5 DEF OwnedBy
  <2>4. live'[h.ptr] = live[h.ptr] /\ owner'[h.ptr] = owner[h.ptr]
    BY <2>2, <2>3, <1>1 DEF OwnedBy
  <2>5. QED
    BY <2>2, <2>4 DEF OwnedBy
<1>6. q \notin crossed' => OwnedBy(q, [ptr |-> s, size |-> n])'
  <2>1. q \notin crossed' => owner[b] = q
    BY NotCrossed
  <2>2. QED
    BY <2>1, <1>1 DEF OwnedBy
<1>7. ASSUME NEW p \in Owners, NEW h \in held'[p]
      PROVE  \/ h \in held[p] /\ (p # q \/ h.ptr # ptr)
             \/ p = q /\ h = [ptr |-> s, size |-> n]
  <2>1. q \in DOMAIN held /\ p \in DOMAIN held
    BY DEF MInv, HInv
  <2>2. held'[q] = HeldWithout(q, ptr) \cup {[ptr |-> s, size |-> n]}
    BY <2>1
  <2>3. p # q => held'[p] = held[p]
    BY <2>1
  <2>4. QED
    BY <1>7, <2>2, <2>3 DEF HeldWithout
<1>8. ASSUME NEW p \in Owners \ crossed', NEW h \in held'[p]
      PROVE  OwnedBy(p, h)'
  <2>1. CASE h \in held[p] /\ (p # q \/ h.ptr # ptr)
    BY <2>1, <1>5
  <2>2. CASE p = q /\ h = [ptr |-> s, size |-> n]
    BY <2>2, <1>6 DEF OwnedBy
  <2>3. QED
    BY <1>7, <2>1, <2>2
<1>9. ASSUME NEW h \in held'[KERNEL]
      PROVE  h.ptr \in Pool /\ h.size \in 1 .. MaxRequest
  <2>1. CASE h \in held[KERNEL]
    BY <2>1 DEF MInv, HInv
  <2>2. CASE h = [ptr |-> s, size |-> n]
    BY <2>2
  <2>3. KERNEL \in Owners
    OBVIOUS
  <2>4. QED
    BY <1>7, <2>1, <2>2, <2>3
<1>10. QED
  BY <1>2, <1>3, <1>4, <1>8, <1>9 DEF HInv

\* p gives back what it has at ptr: the heap takes the allocation b, or keeps all.
LEMMA GivenBackKeeps ==
    ASSUME MInv, NEW p \in Processes, NEW ptr, NEW b \in Pool,
           held' = [held EXCEPT ![p] = HeldWithout(p, ptr)],
           \/ live' = live /\ owner' = owner /\ crossed' = crossed
           \/ /\ live' = [live EXCEPT ![b] = 0] /\ owner' = [owner EXCEPT ![b] = NOBODY]
              /\ Crosses(p, ptr, b)
    PROVE  HInv'
<1> USE HeapAssumption, MemoryAssumption DEF Owners
<1>1. /\ live \in [Pool -> Nat]
      /\ owner \in [Pool -> Processes \cup {KERNEL, NOBODY}]
  BY DEF MInv, HInv, IInv, TypeOK
<1>2. \A c \in Pool : live'[c] <= MaxRequest
  BY <1>1 DEF MInv, HInv
<1>3. owner' \in [Pool -> Processes \cup {KERNEL, NOBODY}]
  BY <1>1
<1>4. held' = [q \in Owners |-> held'[q]]
  BY DEF MInv, HInv
<1>5. ASSUME NEW q \in Owners, NEW h \in held'[q]
      PROVE  h \in held[q] /\ (q = p => h.ptr # ptr)
  BY <1>5 DEF MInv, HInv, HeldWithout
<1>6. ASSUME NEW q \in Owners, q \notin crossed', NEW h \in held'[q]
      PROVE  OwnedBy(q, h)'
  <2>1. h \in held[q] /\ (q = p => h.ptr # ptr)
    BY <1>5, <1>6
  <2>2. CASE live' = live /\ owner' = owner /\ crossed' = crossed
    BY <2>1, <2>2, <1>6 DEF OwnedBy, MInv, HInv
  <2>3. CASE /\ live' = [live EXCEPT ![b] = 0] /\ owner' = [owner EXCEPT ![b] = NOBODY]
             /\ Crosses(p, ptr, b)
    <3>1. /\ q \notin crossed
          /\ q # owner[b] \/ (q = p /\ ptr = b)
      BY <1>6, <2>3, NotCrossed
    <3>2. OwnedBy(q, h)
      BY <2>1, <3>1 DEF MInv, HInv
    <3>3. h.ptr # b
      BY <2>1, <3>1, <3>2 DEF OwnedBy
    <3>4. live'[h.ptr] = live[h.ptr] /\ owner'[h.ptr] = owner[h.ptr]
      BY <2>3, <3>2, <3>3, <1>1 DEF OwnedBy
    <3>5. QED
      BY <3>2, <3>4 DEF OwnedBy
  <2>4. QED
    BY <2>2, <2>3
<1>7. ASSUME NEW h \in held'[KERNEL]
      PROVE  h.ptr \in Pool /\ h.size \in 1 .. MaxRequest
  BY <1>5 DEF MInv, HInv
<1>8. QED
  BY <1>2, <1>3, <1>4, <1>6, <1>7 DEF HInv

-----------------------------------------------------------------------------
(* The invariant holds *)

LEMMA MInitInv == MemoryInit => MInv
<1>1. MemoryInit => IInv
  BY InitInv DEF MemoryInit
<1>2. MemoryInit => HInv
  BY HeapAssumption DEF MemoryInit, Init, HInv, Owners
<1>3. QED
  BY <1>1, <1>2 DEF MInv

\* What of the heap nobody looks at does not matter.
LEMMA HeldAsBefore ==
    ASSUME MInv, live' = live, owner' = owner, held' = held, crossed' = crossed
    PROVE  HInv'
BY DEF MInv, HInv, OwnedBy

\* The calls that have the heap give p new memory of n blocks, and leave it H.
LEMMA NewMemoryKeeps ==
    ASSUME MInv, NEW p \in Owners, NEW n \in 0 .. MaxRequest, heap_malloc(n),
           NEW H \in SUBSET held[p], crossed' = crossed,
           \/ ret' = NULL /\ owner' = owner /\ held' = held
           \/ /\ ret' # NULL /\ Owns(p)
              /\ \/ held' = held
                 \/ held' = [held EXCEPT ![p] = H \cup {[ptr |-> ret', size |-> n]}]
    PROVE  HInv'
<1> USE HeapAssumption
<1>1. CASE ret' = NULL /\ live' = live
  BY <1>1, HeldAsBefore
<1>2. CASE \E s \in Pool : /\ ret' = s /\ n > 0 /\ live[s] = 0
                           /\ live' = [live EXCEPT ![s] = n]
  <2>1. PICK s \in Pool : /\ ret' = s /\ n > 0 /\ live[s] = 0
                          /\ live' = [live EXCEPT ![s] = n]
    BY <1>2
  <2>2. n \in 1 .. MaxRequest /\ ret' # NULL
    BY <2>1, NullIsNoBlock
  <2>3. owner' = [owner EXCEPT ![s] = p]
    BY <2>1, <2>2 DEF Owns
  <2>4. QED
    BY <2>1, <2>2, <2>3, GivenKeeps
<1>3. QED
  BY <1>1, <1>2, MallocEffect DEF MInv

\* The calls that have the heap resize the allocation at b, which q knows at ptr.
LEMMA ResizedKeeps ==
    ASSUME MInv, NEW q \in Owners, NEW ptr, NEW b \in Allocations,
           NEW n \in 1 .. MaxRequest, heap_realloc(b, n),
           \/ ret' = NULL /\ owner' = owner /\ held' = held /\ crossed' = crossed
           \/ /\ ret' # NULL /\ Resized(b) /\ Crosses(q, ptr, b)
              /\ held' = [held EXCEPT ![q] = HeldWithout(q, ptr)
                                             \cup {[ptr |-> ret', size |-> n]}]
    PROVE  HInv'
<1> USE HeapAssumption
<1>1. b \in Pool /\ live[b] \in Nat
  BY DEF Allocations, MInv, IInv, TypeOK
<1>2. CASE ret' = NULL /\ live' = live
  BY <1>2, HeldAsBefore
<1>3. CASE ret' = b /\ live' = [live EXCEPT ![b] = n]
  <2>1. live' = [live EXCEPT ![b] = 0, ![b] = n] /\ ret' # NULL
    BY <1>1, <1>3, NullIsNoBlock DEF MInv, IInv, TypeOK
  <2>2. owner' = [owner EXCEPT ![b] = NOBODY, ![b] = owner[b]]
    BY <1>3, <2>1 DEF Resized
  <2>3. QED
    BY <1>1, <1>3, <2>1, <2>2, MovedKeeps
<1>4. CASE \E s \in Pool : /\ ret' = s /\ s # b /\ live[s] = 0
                           /\ live' = [live EXCEPT ![b] = 0, ![s] = n]
  <2>1. PICK s \in Pool : /\ ret' = s /\ s # b /\ live[s] = 0
                          /\ live' = [live EXCEPT ![b] = 0, ![s] = n]
    BY <1>4
  <2>2. owner' = [owner EXCEPT ![b] = NOBODY, ![s] = owner[b]] /\ ret' # NULL
    BY <2>1, NullIsNoBlock DEF Resized
  <2>3. QED
    BY <1>1, <2>1, <2>2, MovedKeeps
<1>5. QED
  BY <1>2, <1>3, <1>4, ReallocEffect DEF MInv

LEMMA MStepInv == MInv /\ [MemoryNext]_allVars => MInv'
<1> SUFFICES ASSUME MInv, [MemoryNext]_allVars PROVE MInv'
  OBVIOUS
<1> USE HeapAssumption, MemoryAssumption DEF Owners
<1>1. IInv'
  BY StepOfHeap, StepInv DEF MInv
<1>2. ASSUME NEW p \in Processes, NEW n \in 0 .. MaxRequest, process_malloc(p, n)
      PROVE  HInv'
  <2>1. /\ crossed' = crossed
        /\ \/ ret' = NULL /\ owner' = owner /\ held' = held
           \/ /\ ret' # NULL /\ Owns(p)
              /\ \/ held' = held
                 \/ held' = [held EXCEPT ![p] = held[p] \cup {[ptr |-> ret', size |-> n]}]
    BY <1>2 DEF process_malloc, NoEntry, ghosts
  <2>2. heap_malloc(n)
    BY <1>2 DEF process_malloc
  <2>3. QED
    BY <2>1, <2>2, NewMemoryKeeps
<1>2a. ASSUME NEW p \in Processes, NEW ptr \in Pool \cup {OUTSIDE},
              NEW n \in 0 .. MaxRequest, process_realloc_anew(p, ptr, n)
       PROVE  HInv'
  <2>1. HeldWithout(p, ptr) \in SUBSET held[p]
    BY DEF HeldWithout
  <2>2. /\ crossed' = crossed
        /\ \/ ret' = NULL /\ owner' = owner /\ held' = held
           \/ /\ ret' # NULL /\ Owns(p)
              /\ held' = [held EXCEPT ![p] = HeldWithout(p, ptr)
                                             \cup {[ptr |-> ret', size |-> n]}]
    BY <1>2a DEF process_realloc_anew
  <2>3. heap_malloc(n)
    BY <1>2a DEF process_realloc_anew
  <2>4. QED
    BY <2>1, <2>2, <2>3, NewMemoryKeeps
<1>3. ASSUME NEW p \in Processes, NEW ptr \in Pool, NEW b \in Pool,
             NEW n \in 1 .. MaxRequest, process_realloc(p, ptr, b, n)
      PROVE  HInv'
  <2>1. b \in Allocations /\ heap_realloc(b, n)
    BY <1>3 DEF process_realloc, Reallocatable
  <2>2. \/ ret' = NULL /\ owner' = owner /\ held' = held /\ crossed' = crossed
        \/ /\ ret' # NULL /\ Resized(b) /\ Crosses(p, ptr, b)
           /\ held' = [held EXCEPT ![p] = HeldWithout(p, ptr)
                                          \cup {[ptr |-> ret', size |-> n]}]
    BY <1>3 DEF process_realloc
  <2>3. QED
    BY <2>1, <2>2, ResizedKeeps
<1>4. ASSUME NEW p \in Processes, NEW ptr \in Pool, NEW b \in Pool,
             process_realloc_to_zero(p, ptr, b)
      PROVE  HInv'
  <2>1. /\ live' = [live EXCEPT ![b] = 0] /\ owner' = [owner EXCEPT ![b] = NOBODY]
        /\ held' = [held EXCEPT ![p] = HeldWithout(p, ptr)]
        /\ Crosses(p, ptr, b)
    BY <1>4 DEF process_realloc_to_zero, heap_free
  <2>2. QED
    BY <2>1, GivenBackKeeps
<1>5. ASSUME NEW p \in Processes, NEW b \in Pool, process_free(p, b)
      PROVE  HInv'
  <2>1. /\ live' = live /\ owner' = owner /\ crossed' = crossed
        /\ held' = [held EXCEPT ![p] = HeldWithout(p, b)]
    BY <1>5 DEF process_free, vars
  <2>2. QED
    BY <2>1, GivenBackKeeps
<1>6. ASSUME NEW p \in Processes, NEW pixels \in held[KERNEL],
             process_map_into_userspace(p, pixels)
      PROVE  HInv'
  <2>1. /\ crossed' = crossed
        /\ \/ ret' = NULL /\ owner' = owner /\ held' = held
           \/ ret' # NULL /\ Owns(p) /\ held' = held
    BY <1>6 DEF process_map_into_userspace, NoEntry, ghosts
  <2>2. /\ pixels.size \in 0 .. MaxRequest /\ heap_malloc(pixels.size)
        /\ held[p] \in SUBSET held[p]
    BY <1>6 DEF process_map_into_userspace, MInv, HInv
  <2>3. QED
    BY <2>1, <2>2, NewMemoryKeeps
<1>7. ASSUME NEW p \in Processes, process_terminate(p)
      PROVE  HInv'
  <2>1. /\ live' = live /\ owner' = owner /\ crossed' = crossed
        /\ held' = [held EXCEPT ![p] = {}]
    BY <1>7 DEF process_terminate, vars
  <2>2. \A q \in Owners : held'[q] \subseteq held[q]
    BY <2>1 DEF MInv, HInv
  <2>3. held' = [q \in Owners |-> held'[q]]
    BY <2>1 DEF MInv, HInv
  <2>4. QED
    BY <2>1, <2>2, <2>3 DEF MInv, HInv, OwnedBy
<1>8. ASSUME NEW n \in 1 .. MaxRequest, kmalloc(n)
      PROVE  HInv'
  <2>1. /\ crossed' = crossed
        /\ \/ ret' = NULL /\ owner' = owner /\ held' = held
           \/ /\ ret' # NULL /\ Owns(KERNEL)
              /\ held' = [held EXCEPT ![KERNEL] = held[KERNEL]
                                                  \cup {[ptr |-> ret', size |-> n]}]
    BY <1>8 DEF kmalloc
  <2>2. heap_malloc(n) /\ n \in 0 .. MaxRequest
    BY <1>8 DEF kmalloc
  <2>3. QED
    BY <2>1, <2>2, NewMemoryKeeps
<1>9. ASSUME NEW h \in held[KERNEL], NEW n \in 1 .. MaxRequest, krealloc(h.ptr, n)
      PROVE  HInv'
  <2>1. h.ptr \in Allocations /\ heap_realloc(h.ptr, n)
    BY <1>9 DEF krealloc
  <2>2. \/ ret' = NULL /\ owner' = owner /\ held' = held /\ crossed' = crossed
        \/ /\ ret' # NULL /\ Resized(h.ptr) /\ Crosses(KERNEL, h.ptr, h.ptr)
           /\ held' = [held EXCEPT ![KERNEL] = HeldWithout(KERNEL, h.ptr)
                                               \cup {[ptr |-> ret', size |-> n]}]
    BY <1>9 DEF krealloc
  <2>3. QED
    BY <2>1, <2>2, ResizedKeeps
<1>10. ASSUME NEW p \in Processes, NEW ptr \in Pool \cup {OUTSIDE},
              process_realloc_astray(p, ptr)
       PROVE  HInv'
  BY <1>10, HeldAsBefore DEF process_realloc_astray, vars
<1>11. ASSUME NEW h \in held[KERNEL], krealloc_astray(h.ptr)
       PROVE  HInv'
  BY <1>11, HeldAsBefore DEF krealloc_astray, vars
<1>12. ASSUME UNCHANGED allVars
       PROVE  HInv'
  BY <1>12, HeldAsBefore DEF allVars, vars
<1>13. HInv'
  BY <1>2, <1>2a, <1>3, <1>4, <1>5, <1>6, <1>7, <1>8, <1>9, <1>10, <1>11, <1>12
     DEF MemoryNext
<1>14. QED
  BY <1>1, <1>13 DEF MInv

LEMMA MInductive == MemorySpec => []MInv
BY MInitInv, MStepInv, PTL DEF MemorySpec

-----------------------------------------------------------------------------
(* The theorems *)

\* Everything the kernel and its processes do with memory is use of the heap:
\* all that is proved of heap.c above holds here.
THEOREM MemoryUsesHeap == MemorySpec => Spec
<1>1. MemoryInit => Init
  BY DEF MemoryInit
<1>2. QED
  BY <1>1, MInductive, StepOfHeap, PTL DEF MemorySpec, Spec

\* process_malloc and process_realloc never tell a program that it has memory
\* that another program, or the kernel, has too: what one holds was allocated for
\* it and is as long as it was told.  Whatever programs do, only two lose that:
\* the one that reallocates what is not its own, and the one whose it was.
THEOREM MemoryHeldIsOwned == MemorySpec => []HeldIsOwned
<1>1. MInv => HeldIsOwned
  BY DEF MInv, HInv, IInv, OwnedBy, HeldIsOwned
<1>2. QED
  BY <1>1, MInductive, PTL


-----------------------------------------------------------------------------
(* Lists and pages: the inductive invariant *)

Entries == [ptr : Pool \cup {NULL}, size : Nat]
Identity(v) == [phys |-> v, user |-> TRUE]

\* No address is listed twice, ...
Distinct(list) ==
    \A i, j \in DOMAIN list : list[i].ptr = list[j].ptr /\ list[i].ptr # NULL => i = j

\* ... all of what is held is listed, ...
Lists(list, H) == \A h \in H : \E i \in DOMAIN list : list[i] = h

\* ... and nothing else is.
ListsOnly(list, H) == \A i \in DOMAIN list : list[i].ptr # NULL => list[i] \in H

Mapped(pages, H) == \A h \in H : \A v \in Span(h.ptr, h.size) : pages[v] = Identity(v)

\* Pixels of a window are listed and not held, and their mapping may lead any
\* page elsewhere.
ListInv(p) ==
    /\ Distinct(mem[p].allocations)
    /\ Lists(mem[p].allocations, held[p])
    /\ p \notin framed => /\ ListsOnly(mem[p].allocations, held[p])
                          /\ Mapped(mem[p].pages, held[p])
    /\ \A i \in DOMAIN mem[p].allocations :
          mem[p].allocations[i].ptr # NULL => OwnedBy(p, mem[p].allocations[i])

ListsAreLists ==
    /\ alive \subseteq Processes
    /\ DOMAIN mem = Processes
    /\ \A p \in Processes : mem[p].allocations \in Seq(Entries)

LInv == ListsAreLists /\ \A p \in Orderly : ListInv(p)

PInv == MInv /\ LInv

-----------------------------------------------------------------------------
(* Lists *)

\* A set of indices that is not empty has a least one.
LEMMA LeastIndex ==
    ASSUME NEW S, S \subseteq Nat, S # {}
    PROVE  \E x \in S : \A y \in S : x <= y
<1>1. PICK x \in S : \A y \in S : ~ (<<y, x>> \in OpToRel(<, Nat))
  BY NatLessThanWellFounded, WFMin
<1>2. \A y \in S : ~ (y < x)
  BY <1>1 DEF OpToRel
<1>3. QED
  BY <1>2

\* The search of an address in a list finds it if it is there.
LEMMA IndexFound ==
    ASSUME NEW m, m.allocations \in Seq(Entries), NEW ptr
    PROVE  \/ /\ IndexOf(m, ptr) = 0
              /\ \A i \in DOMAIN m.allocations : m.allocations[i].ptr # ptr
           \/ /\ IndexOf(m, ptr) \in DOMAIN m.allocations
              /\ m.allocations[IndexOf(m, ptr)].ptr = ptr
<1> DEFINE I == {i \in 1 .. Len(m.allocations) : m.allocations[i].ptr = ptr}
<1>1. IndexOf(m, ptr) = IF I # {} THEN Min(I) ELSE 0
  BY DEF IndexOf, SelectInSeq
<1>2. DOMAIN m.allocations = 1 .. Len(m.allocations) /\ I \subseteq Nat
  OBVIOUS
<1>3. CASE I = {}
  BY <1>1, <1>2, <1>3
<1>4. CASE I # {}
  <2>1. \E x \in I : \A y \in I : x <= y
    BY <1>2, <1>4, LeastIndex
  <2>2. Min(I) \in I
    BY <2>1 DEF Min
  <2>3. QED
    BY <1>1, <1>2, <1>4, <2>2
<1>5. QED
  BY <1>3, <1>4

\* Where the next allocation goes: after the last entry or over an empty one.
LEMMA FreeIndex ==
    ASSUME NEW m, m.allocations \in Seq(Entries)
    PROVE  LET i == process_find_free_allocation_index(m)
           IN  /\ i \in 1 .. Len(m.allocations) + 1
               /\ i \in DOMAIN m.allocations => m.allocations[i].ptr = NULL
<1>1. DOMAIN m.allocations = 1 .. Len(m.allocations) /\ Len(m.allocations) \in Nat
  OBVIOUS
<1>2. QED
  BY <1>1, IndexFound DEF process_find_free_allocation_index

\* The list t is s with "a" at i.
Put(t, s, i, a) ==
    /\ t \in Seq(Entries)
    /\ DOMAIN t = DOMAIN s \cup {i}
    /\ t[i] = a
    /\ \A k \in DOMAIN s \ {i} : t[k] = s[k]

LEMMA OverwriteEffect ==
    ASSUME NEW m, m.allocations \in Seq(Entries), NEW a \in Entries,
           NEW i \in 1 .. Len(m.allocations) + 1
    PROVE  Put(Overwritten(m, i, a), m.allocations, i, a)
<1> USE DEF Put
<1> DEFINE s == m.allocations
<1>1. s \in Seq(Entries) /\ Len(s) \in Nat /\ DOMAIN s = 1 .. Len(s)
  OBVIOUS
<1>2. CASE i > Len(s)
  <2>1. i = Len(s) + 1 /\ Overwritten(m, i, a) = Append(s, a)
    BY <1>1, <1>2 DEF Overwritten
  <2>2. /\ Append(s, a) \in Seq(Entries)
        /\ Len(Append(s, a)) = Len(s) + 1
        /\ Append(s, a)[Len(s) + 1] = a
        /\ \A k \in 1 .. Len(s) : Append(s, a)[k] = s[k]
    BY <1>1
  <2>3. DOMAIN Append(s, a) = 1 .. Len(s) + 1
    BY <2>2
  <2>4. 1 .. Len(s) + 1 = 1 .. Len(s) \cup {Len(s) + 1}
    BY <1>1
  <2>5. QED
    BY <1>1, <2>1, <2>2, <2>3, <2>4
<1>3. CASE ~(i > Len(s))
  <2>1. i \in 1 .. Len(s) /\ Overwritten(m, i, a) = [s EXCEPT ![i] = a]
    BY <1>1, <1>3 DEF Overwritten, ReplaceAt
  <2>2. QED
    BY <1>1, <2>1
<1>4. QED
  BY <1>2, <1>3

\* The allocation "a" may be listed at i, over an entry with the address "old" or
\* where there is none: its own address is listed nowhere else.
Fits(m, i, a, old) ==
    /\ m.allocations \in Seq(Entries) /\ a \in Entries
    /\ i \in 1 .. Len(m.allocations) + 1
    /\ i \in DOMAIN m.allocations => m.allocations[i].ptr = old
    /\ \A k \in DOMAIN m.allocations \ {i} :
          /\ m.allocations[k].ptr # a.ptr
          /\ m.allocations[k].ptr = NULL \/ m.allocations[k].ptr # old

Without(H, old) == {h \in H : h.ptr # old}

LEMMA OverwriteFits ==
    ASSUME NEW m, NEW i, NEW a, NEW old, Fits(m, i, a, old)
    PROVE  Put(Overwritten(m, i, a), m.allocations, i, a)
BY OverwriteEffect DEF Fits

\* An entry that is made or written over: what was held under the old address
\* is so no more, and the new one is held, if the program is told.
LEMMA OverwriteLists ==
    ASSUME NEW m, NEW i, NEW a, NEW old, NEW H, Fits(m, i, a, old),
           Distinct(m.allocations), Lists(m.allocations, H)
    PROVE  /\ Distinct(Overwritten(m, i, a))
           /\ Lists(Overwritten(m, i, a), Without(H, old) \cup {a})
           /\ (\A h \in H : h.ptr # old) => Lists(Overwritten(m, i, a), H)
           /\ ListsOnly(m.allocations, H) =>
                 ListsOnly(Overwritten(m, i, a), Without(H, old) \cup {a})
<1> DEFINE s == m.allocations
           t == Overwritten(m, i, a)
<1>1. Put(t, s, i, a)
  BY OverwriteFits
<1>2. /\ i \in DOMAIN s => s[i].ptr = old
      /\ \A k \in DOMAIN s \ {i} : /\ s[k].ptr # a.ptr
                                   /\ s[k].ptr = NULL \/ s[k].ptr # old
  BY DEF Fits
<1>3. Distinct(s) /\ Lists(s, H)
  OBVIOUS
<1> HIDE DEF s, t
<1>4. /\ DOMAIN t = DOMAIN s \cup {i} /\ t[i] = a
      /\ \A k \in DOMAIN s \ {i} : t[k] = s[k]
  BY <1>1 DEF Put
<1>5. Distinct(t)
  BY <1>4, <1>2, <1>3 DEF Distinct
<1>6. Lists(t, Without(H, old))
  <2>1. ASSUME NEW h \in H, h.ptr # old
        PROVE  \E k \in DOMAIN t : t[k] = h
    <3>1. PICK k \in DOMAIN s : s[k] = h
      BY <1>3 DEF Lists
    <3>2. k # i
      BY <1>2, <2>1, <3>1
    <3>3. QED
      BY <1>4, <3>1, <3>2
  <2>2. QED
    BY <2>1 DEF Lists, Without
<1>7. Lists(t, Without(H, old) \cup {a})
  BY <1>4, <1>6 DEF Lists
<1>8. (\A h \in H : h.ptr # old) => Lists(t, H)
  BY <1>6 DEF Lists, Without
<1>9. ListsOnly(s, H) => ListsOnly(t, Without(H, old) \cup {a})
  BY <1>4, <1>2 DEF ListsOnly, Without
<1>10. QED
  BY <1>5, <1>7, <1>8, <1>9 DEF s, t

-----------------------------------------------------------------------------
(* Pages *)

\* Mapping pages to themselves for the program leaves what is mapped so.
LEMMA MapKeepsMapped ==
    ASSUME NEW pages, NEW H, NEW ptr \in Pool, NEW n \in Nat, Mapped(pages, H),
           \A h \in H : Span(h.ptr, h.size) \subseteq Blocks,
           Span(ptr, n) \subseteq Blocks,
           NEW G, \A h \in G : h \in H \/ h = [ptr |-> ptr, size |-> n]
    PROVE  Mapped(paging_map_range(pages, ptr, ptr, n, TRUE), G)
<1> DEFINE new == paging_map_range(pages, ptr, ptr, n, TRUE)
<1>1. \A v \in Span(ptr, n) : new[v] = Identity(v)
  <2>1. \A v \in Span(ptr, n) : ptr + (v - ptr) = v
    BY HeapAssumption DEF Pool, Span
  <2>2. QED
    BY <2>1 DEF paging_map_range, Identity
<1>2. \A v \in Blocks \ Span(ptr, n) : new[v] = pages[v]
  BY DEF paging_map_range
<1> HIDE DEF new
<1>3. ASSUME NEW h \in G, NEW v \in Span(h.ptr, h.size)
      PROVE  new[v] = Identity(v)
  <2>1. CASE h \in H
    BY <1>1, <1>2, <2>1 DEF Mapped
  <2>2. CASE h = [ptr |-> ptr, size |-> n]
    BY <1>1, <2>2
  <2>3. QED
    BY <2>1, <2>2
<1>4. QED
  BY <1>3 DEF Mapped, new

\* Taking pages from the program leaves what does not meet them.
LEMMA UnmapKeepsMapped ==
    ASSUME NEW pages, NEW H, NEW ptr, NEW n, Mapped(pages, H),
           \A h \in H : /\ Span(h.ptr, h.size) \subseteq Blocks
                        /\ Span(h.ptr, h.size) \cap Span(ptr, n) = {}
    PROVE  Mapped(paging_map_range(pages, ptr, ptr, n, FALSE), H)
<1>1. \A v \in Blocks \ Span(ptr, n) :
        paging_map_range(pages, ptr, ptr, n, FALSE)[v] = pages[v]
  BY DEF paging_map_range
<1>2. QED
  BY <1>1 DEF Mapped

-----------------------------------------------------------------------------
(* What the calls leave to the others *)

\* A step changes the heap where q's memory was or nothing was.
TouchesOnly(q) ==
    \A c \in Pool : \/ live'[c] = live[c] /\ owner'[c] = owner[c]
                    \/ owner[c] = q \/ live[c] = 0

LEMMA OthersKeepTheirs ==
    ASSUME MInv, NEW q, TouchesOnly(q), NEW p, p # q, NEW h, OwnedBy(p, h)
    PROVE  OwnedBy(p, h)'
<1>1. h.ptr \in Pool /\ live[h.ptr] = h.size /\ h.size > 0 /\ owner[h.ptr] = p
  BY DEF OwnedBy
<1>2. live[h.ptr] # 0
  BY <1>1
<1>3. live'[h.ptr] = live[h.ptr] /\ owner'[h.ptr] = owner[h.ptr]
  BY <1>1, <1>2 DEF TouchesOnly
<1>4. QED
  BY <1>1, <1>3 DEF OwnedBy

LEMMA OthersStay ==
    ASSUME PInv, NEW q, TouchesOnly(q), NEW p \in Orderly, p # q,
           mem'[p] = mem[p], held'[p] = held[p], p \in framed' <=> p \in framed
    PROVE  ListInv(p)'
<1>1. ListInv(p)
  BY DEF PInv, LInv
<1>2. \A i \in DOMAIN mem[p].allocations :
        mem[p].allocations[i].ptr # NULL => OwnedBy(p, mem[p].allocations[i])'
  BY <1>1, OthersKeepTheirs DEF ListInv, PInv
<1>3. QED
  BY <1>1, <1>2 DEF ListInv, OwnedBy

LEMMA NoMemoryTouched ==
    ASSUME NEW q, live' = live, owner' = owner
    PROVE  TouchesOnly(q)
BY DEF TouchesOnly

\* Memory that was free is touched by any call, whoever it is given to.
LEMMA GivenTouches ==
    ASSUME MInv, NEW q, NEW s \in Pool, live[s] = 0, NEW n, NEW x,
           live' = [live EXCEPT ![s] = n], owner' = [owner EXCEPT ![s] = x]
    PROVE  TouchesOnly(q)
BY DEF TouchesOnly, MInv, HInv, IInv, TypeOK

LEMMA MovedTouches ==
    ASSUME MInv, NEW q, NEW b \in Pool, NEW s \in Pool, NEW n, owner[b] = q,
           s = b \/ live[s] = 0,
           live' = [live EXCEPT ![b] = 0, ![s] = n],
           owner' = [owner EXCEPT ![b] = NOBODY, ![s] = q]
    PROVE  TouchesOnly(q)
BY DEF TouchesOnly, MInv, HInv, IInv, TypeOK

LEMMA TakenBackTouches ==
    ASSUME MInv, NEW q, NEW b \in Pool, owner[b] = q,
           live' = [live EXCEPT ![b] = 0], owner' = [owner EXCEPT ![b] = NOBODY]
    PROVE  TouchesOnly(q)
BY DEF TouchesOnly, MInv, HInv, IInv, TypeOK

\* The outcomes of heap_malloc for q and of heap_realloc of q's, in one form each.
LEMMA NewMemory ==
    ASSUME MInv, NEW q, NEW n \in 0 .. MaxRequest, heap_malloc(n)
    PROVE  /\ ret' = NULL => live' = live
           /\ ret' # NULL => /\ ret' \in Pool /\ n > 0 /\ live[ret'] = 0
                            /\ live' = [live EXCEPT ![ret'] = n]
<1>1. CASE ret' = NULL /\ live' = live
  BY <1>1
<1>2. CASE \E s \in Pool : /\ ret' = s /\ n > 0 /\ live[s] = 0
                           /\ live' = [live EXCEPT ![s] = n]
  BY <1>2, NullIsNoBlock
<1>3. QED
  BY <1>1, <1>2, MallocEffect DEF MInv

LEMMA MovedMemory ==
    ASSUME MInv, NEW b \in Allocations, NEW n \in 1 .. MaxRequest, heap_realloc(b, n)
    PROVE  \/ ret' = NULL /\ live' = live
           \/ \E s \in Pool : /\ ret' = s /\ s # NULL
                              /\ s = b \/ live[s] = 0
                              /\ live' = [live EXCEPT ![b] = 0, ![s] = n]
<1>1. b \in Pool /\ live \in [Pool -> Nat]
  BY DEF Allocations, MInv, IInv, TypeOK
<1>2. CASE ret' = b /\ live' = [live EXCEPT ![b] = n]
  <2>1. live' = [live EXCEPT ![b] = 0, ![b] = n]
    BY <1>1, <1>2
  <2>2. QED
    BY <1>1, <1>2, <2>1, NullIsNoBlock
<1>3. CASE \E s \in Pool : /\ ret' = s /\ s # b /\ live[s] = 0
                           /\ live' = [live EXCEPT ![b] = 0, ![s] = n]
  BY <1>3, NullIsNoBlock
<1>4. QED
  BY <1>2, <1>3, ReallocEffect DEF MInv

-----------------------------------------------------------------------------
(* What a call leaves of its own process's list *)

\* h will be p's after the step.
WillOwn(p, h) ==
    /\ h.ptr \in Pool
    /\ live'[h.ptr] = h.size /\ h.size > 0
    /\ owner'[h.ptr] = p

\* What is owned lies in the memory that the pages are about.
LEMMA OwnedInBlocks ==
    ASSUME IInv, NEW p, NEW h, OwnedBy(p, h)
    PROVE  /\ h.ptr \in Pool /\ h.ptr # NULL /\ h.size \in Nat
           /\ Span(h.ptr, h.size) \subseteq Blocks
<1>1. h.ptr \in Allocations /\ live[h.ptr] = h.size /\ h.size \in Nat
  BY DEF OwnedBy, Allocations, IInv, TypeOK
<1>2. h.ptr + h.size <= Total + Slack
  BY <1>1 DEF IInv, InBlocks
<1>3. h.ptr \in Pool
  BY DEF OwnedBy
<1>4. QED
  BY <1>1, <1>2, <1>3, HeapAssumption, NullIsNoBlock DEF Span, Blocks, Pool

\* The allocation "a" takes the place of the one at old, or of an empty or a new
\* entry (old is NULL then), and the program is told, or it is one of a window's
\* pixels.
Puts(q, i, a, old, pages) ==
    /\ Fits(mem[q], i, a, old)
    /\ Span(a.ptr, a.size) \subseteq Blocks
    /\ WillOwn(q, a)
    /\ \A k \in DOMAIN mem[q].allocations \ {i} :
          mem[q].allocations[k].ptr # NULL => WillOwn(q, mem[q].allocations[k])
    /\ mem'[q] = [allocations |-> Overwritten(mem[q], i, a), pages |-> pages]
    /\ \/ /\ held'[q] = Without(held[q], old) \cup {a}
          /\ framed' = framed
          /\ pages = paging_map_range(mem[q].pages, a.ptr, a.ptr, a.size, TRUE)
       \/ held'[q] = held[q] /\ old = NULL /\ q \in framed'

LEMMA PutKeeps ==
    ASSUME PInv, NEW q \in Orderly, NEW i, NEW a, NEW old, NEW pages,
           Puts(q, i, a, old, pages)
    PROVE  ListInv(q)'
<1> DEFINE m == mem[q]
           new == Overwritten(m, i, a)
<1>1. Fits(m, i, a, old)
  BY DEF Puts
<1>2. ListInv(q) /\ q \in Processes
  BY DEF PInv, LInv, ListsAreLists, Orderly
<1>3. /\ Distinct(m.allocations) /\ Lists(m.allocations, held[q])
      /\ q \notin framed => ListsOnly(m.allocations, held[q]) /\ Mapped(m.pages, held[q])
  BY <1>2 DEF ListInv
<1>4. \A h \in held[q] : h.ptr # NULL /\ Span(h.ptr, h.size) \subseteq Blocks
  <2>1. IInv /\ \A h \in held[q] : OwnedBy(q, h)
    BY <1>2 DEF PInv, MInv, HInv, Orderly, Owners
  <2>2. QED
    BY <2>1, OwnedInBlocks
<1>5. Put(new, m.allocations, i, a)
  BY <1>1, OverwriteFits
<1>6. /\ Distinct(new)
      /\ Lists(new, Without(held[q], old) \cup {a})
      /\ (\A h \in held[q] : h.ptr # old) => Lists(new, held[q])
      /\ ListsOnly(m.allocations, held[q]) =>
            ListsOnly(new, Without(held[q], old) \cup {a})
  BY <1>1, <1>3, OverwriteLists
<1>7. mem'[q].allocations = new /\ mem'[q].pages = pages
  BY DEF Puts
<1> HIDE DEF new
<1>8. \A k \in DOMAIN new : new[k].ptr # NULL => WillOwn(q, new[k])
  BY <1>5 DEF Put, Puts
<1>9. \A k \in DOMAIN mem'[q].allocations :
         mem'[q].allocations[k].ptr # NULL => OwnedBy(q, mem[q].allocations[k])'
  BY <1>7, <1>8 DEF WillOwn, OwnedBy
<1>10. CASE /\ held'[q] = Without(held[q], old) \cup {a}
            /\ framed' = framed
            /\ pages = paging_map_range(m.pages, a.ptr, a.ptr, a.size, TRUE)
  <2>1. /\ a.ptr \in Pool /\ a.size \in Nat /\ a = [ptr |-> a.ptr, size |-> a.size]
        /\ Span(a.ptr, a.size) \subseteq Blocks
    BY DEF Puts, Fits, Entries, WillOwn
  <2>2. \A h \in held'[q] : h \in held[q] \/ h = [ptr |-> a.ptr, size |-> a.size]
    BY <1>10, <2>1 DEF Without
  <2>3. Mapped(m.pages, held[q]) => Mapped(pages, held'[q])
    BY <1>4, <1>10, <2>1, <2>2, MapKeepsMapped
  <2>4. QED
    BY <1>3, <1>6, <1>7, <1>9, <1>10, <2>3 DEF ListInv
<1>11. CASE held'[q] = held[q] /\ old = NULL /\ q \in framed'
  BY <1>4, <1>6, <1>7, <1>9, <1>11 DEF ListInv
<1>12. QED
  BY <1>10, <1>11 DEF Puts

-----------------------------------------------------------------------------
(* The steps *)

\* A call made for q, or the kernel, leaves the others as they were, and the heap
\* but for what was o's, who is q or is crossed.
CallOf(q, o) ==
    /\ TouchesOnly(o) /\ o \in {q} \cup crossed'
    /\ alive' \subseteq alive /\ careless \subseteq careless' /\ crossed \subseteq crossed'
    /\ \A p \in Processes \ {q} : /\ mem'[p] = mem[p] /\ held'[p] = held[p]
                                  /\ p \in framed' <=> p \in framed

LEMMA CallKeeps ==
    ASSUME PInv, NEW q, NEW o, CallOf(q, o), ListsAreLists',
           q \in Orderly' => ListInv(q)'
    PROVE  LInv'
<1>1. ASSUME NEW p \in Orderly', p # q
      PROVE  ListInv(p)'
  <2>1. p \in Orderly /\ p \in Processes \ {q} /\ p # o /\ TouchesOnly(o)
    BY <1>1 DEF CallOf, PInv, LInv, ListsAreLists, Orderly
  <2>2. mem'[p] = mem[p] /\ held'[p] = held[p] /\ (p \in framed' <=> p \in framed)
    BY <2>1 DEF CallOf
  <2>3. QED
    BY <1>1, <2>1, <2>2, OthersStay
<1>2. QED
  BY <1>1 DEF LInv

\* Nothing is listed or taken off a list.
LEMMA NothingListed ==
    ASSUME PInv, NEW o, TouchesOnly(o), o \in {KERNEL} \cup crossed',
           alive' = alive, mem' = mem, \A p \in Processes : held'[p] = held[p],
           careless' = careless, framed' = framed, crossed \subseteq crossed'
    PROVE  LInv'
<1>1. CallOf(KERNEL, o)
  BY DEF CallOf
<1>2. ListsAreLists'
  BY DEF PInv, LInv, ListsAreLists
<1>3. KERNEL \notin Orderly'
  BY MemoryAssumption DEF PInv, LInv, ListsAreLists, Orderly
<1>4. QED
  BY <1>1, <1>2, <1>3, CallKeeps

LEMMA ListsStayLists ==
    ASSUME ListsAreLists, NEW q \in Processes, NEW m, m.allocations \in Seq(Entries),
           mem' = [mem EXCEPT ![q] = m], alive' \subseteq alive
    PROVE  ListsAreLists'
BY DEF ListsAreLists

LEMMA OverwriteIsList ==
    ASSUME NEW m, m.allocations \in Seq(Entries), NEW a \in Entries,
           NEW i \in 1 .. Len(m.allocations) + 1
    PROVE  Overwritten(m, i, a) \in Seq(Entries)
BY OverwriteEffect DEF Put

\* What a program has after a step lies in the memory that the pages are about.
LEMMA WillOwnInBlocks ==
    ASSUME IInv', NEW q, NEW a, WillOwn(q, a)
    PROVE  Span(a.ptr, a.size) \subseteq Blocks
<1>1. live' \in [Pool -> Nat] /\ a.ptr \in Pool /\ live'[a.ptr] = a.size /\ a.size > 0
  BY DEF WillOwn, IInv, TypeOK
<1>2. a.size \in Nat /\ a.ptr + a.size <= Total + Slack
  BY <1>1 DEF IInv, InBlocks, Allocations
<1>3. QED
  BY <1>1, <1>2, HeapAssumption DEF Span, Blocks, Pool

\* q is given n blocks at s, which go to the first empty entry, or to a new one.
Gives(q, s, n, i, a, pages) ==
    /\ s \in Pool /\ n \in 1 .. MaxRequest /\ live[s] = 0
    /\ live' = [live EXCEPT ![s] = n] /\ owner' = [owner EXCEPT ![s] = q]
    /\ alive' = alive /\ careless' = careless /\ crossed' = crossed
    /\ i = process_find_free_allocation_index(mem[q])
    /\ a = [ptr |-> s, size |-> n]
    /\ mem' = [mem EXCEPT ![q] = [allocations |-> Overwritten(mem[q], i, a),
                                  pages       |-> pages]]
    /\ \/ /\ held' = [held EXCEPT ![q] = held[q] \cup {a}] /\ framed' = framed
          /\ pages = paging_map_range(mem[q].pages, s, s, n, TRUE)
       \/ held' = held /\ framed' = framed \cup {q}

LEMMA GivenStep ==
    ASSUME PInv, MInv', NEW q \in alive, NEW s, NEW n, NEW i, NEW a, NEW pages,
           Gives(q, s, n, i, a, pages)
    PROVE  LInv'
<1> USE DEF Gives
<1> USE HeapAssumption
<1>1. /\ q \in Processes /\ ListsAreLists /\ MInv
      /\ mem[q].allocations \in Seq(Entries) /\ DOMAIN mem = Processes
      /\ DOMAIN held = Owners /\ live \in [Pool -> Nat] /\ DOMAIN owner = Pool
      /\ q \in Owners
  BY DEF PInv, LInv, ListsAreLists, MInv, HInv, IInv, TypeOK, Owners
<1>2. /\ i \in 1 .. Len(mem[q].allocations) + 1
      /\ i \in DOMAIN mem[q].allocations => mem[q].allocations[i].ptr = NULL
  BY <1>1, FreeIndex
<1>3. a \in Entries /\ a.ptr = s /\ a.size = n
  BY DEF Entries
<1>4. CallOf(q, q)
  <2>1. TouchesOnly(q)
    BY <1>1, GivenTouches
  <2>2. \A p \in Processes \ {q} : /\ mem'[p] = mem[p] /\ held'[p] = held[p]
                                   /\ p \in framed' <=> p \in framed
    BY <1>1 DEF Owners
  <2>3. QED
    BY <2>1, <2>2 DEF CallOf
<1>5. ListsAreLists'
  <2>1. Overwritten(mem[q], i, a) \in Seq(Entries)
    BY <1>1, <1>2, <1>3, OverwriteIsList
  <2>2. QED
    BY <1>1, <2>1, ListsStayLists
<1>6. ASSUME q \in Orderly'
      PROVE  ListInv(q)'
  <2>1. ListInv(q) /\ q \in Orderly
    BY <1>6 DEF PInv, LInv, Orderly
  <2>2. ASSUME NEW k \in DOMAIN mem[q].allocations, mem[q].allocations[k].ptr # NULL
        PROVE  mem[q].allocations[k].ptr # s /\ WillOwn(q, mem[q].allocations[k])
    <3>1. OwnedBy(q, mem[q].allocations[k])
      BY <2>1, <2>2 DEF ListInv
    <3>2. mem[q].allocations[k].ptr # s
      BY <3>1 DEF OwnedBy
    <3>3. QED
      BY <1>1, <3>1, <3>2 DEF OwnedBy, WillOwn
  <2>3. Fits(mem[q], i, a, NULL)
    BY <1>1, <1>2, <1>3, <2>2, NullIsNoBlock DEF Fits
  <2>4. WillOwn(q, a)
    BY <1>1, <1>3 DEF WillOwn
  <2>5. Span(a.ptr, a.size) \subseteq Blocks
    BY <2>4, WillOwnInBlocks DEF MInv
  <2>6. mem'[q] = [allocations |-> Overwritten(mem[q], i, a), pages |-> pages]
    BY <1>1
  <2>7. \/ /\ held'[q] = Without(held[q], NULL) \cup {a}
           /\ framed' = framed
           /\ pages = paging_map_range(mem[q].pages, a.ptr, a.ptr, a.size, TRUE)
        \/ held'[q] = held[q] /\ q \in framed'
    <3>1. Without(held[q], NULL) = held[q]
      BY <1>1, <2>1, NullIsNoBlock DEF MInv, HInv, OwnedBy, Without, Orderly
    <3>2. QED
      BY <1>1, <1>3, <3>1
  <2>8. Puts(q, i, a, NULL, pages)
    BY <2>2, <2>3, <2>4, <2>5, <2>6, <2>7 DEF Puts
  <2>9. QED
    BY <2>1, <2>8, PutKeeps
<1>7. QED
  BY <1>4, <1>5, <1>6, CallKeeps

\* An allocation that is held and is reallocated keeps its entry.
LEMMA HeldIsListed ==
    ASSUME PInv, NEW q \in Orderly, NEW h \in held[q]
    PROVE  /\ process_allocation_exists(mem[q], h.ptr) = IndexOf(mem[q], h.ptr)
           /\ IndexOf(mem[q], h.ptr) \in DOMAIN mem[q].allocations
           /\ mem[q].allocations[IndexOf(mem[q], h.ptr)] = h
           /\ \A k \in DOMAIN mem[q].allocations :
                 mem[q].allocations[k].ptr = h.ptr => k = IndexOf(mem[q], h.ptr)
<1>1. q \in Processes /\ mem[q].allocations \in Seq(Entries) /\ ListInv(q)
  BY DEF PInv, LInv, ListsAreLists, Orderly
<1>2. h.ptr # NULL
  <2>1. OwnedBy(q, h)
    BY <1>1 DEF PInv, MInv, HInv, Orderly, Owners
  <2>2. QED
    BY <2>1, NullIsNoBlock DEF OwnedBy
<1>3. PICK k \in DOMAIN mem[q].allocations : mem[q].allocations[k] = h
  BY <1>1 DEF ListInv, Lists
<1>4. /\ IndexOf(mem[q], h.ptr) \in DOMAIN mem[q].allocations
      /\ mem[q].allocations[IndexOf(mem[q], h.ptr)].ptr = h.ptr
  BY <1>1, <1>3, IndexFound
<1>5. \A j \in DOMAIN mem[q].allocations :
         mem[q].allocations[j].ptr = h.ptr => j = IndexOf(mem[q], h.ptr)
  BY <1>1, <1>2, <1>4 DEF ListInv, Distinct
<1>6. IndexOf(mem[q], h.ptr) = k
  BY <1>3, <1>5
<1>7. IndexOf(mem[q], h.ptr) # 0
  BY <1>1, <1>4
<1>8. QED
  BY <1>3, <1>4, <1>5, <1>6, <1>7 DEF process_allocation_exists

\* The allocation at b, which q knows at ptr, moves to s or stays there with
\* another size; a program that does not hold ptr turns careless.
Moves(q, ptr, b, s, n, i, a, pages) ==
    /\ b \in Pool /\ s \in Pool /\ n \in 1 .. MaxRequest
    /\ s = b \/ live[s] = 0
    /\ mem[q].allocations # <<>>
    /\ live' = [live EXCEPT ![b] = 0, ![s] = n]
    /\ owner' = [owner EXCEPT ![b] = NOBODY, ![s] = owner[b]]
    /\ Crosses(q, ptr, b)
    /\ alive' = alive /\ framed' = framed
    /\ i = process_allocation_exists(mem[q], ptr)
    /\ a = [ptr |-> s, size |-> n]
    /\ pages = paging_map_range(mem[q].pages, s, s, n, TRUE)
    /\ mem' = [mem EXCEPT ![q] = [allocations |-> Overwritten(mem[q], i, a),
                                  pages       |-> pages]]
    /\ held' = [held EXCEPT ![q] = HeldWithout(q, ptr) \cup {a}]
    /\ \/ careless' = careless /\ \E h \in held[q] : h.ptr = ptr
       \/ careless' = careless \cup {q}

LEMMA MovedStep ==
    ASSUME PInv, MInv', NEW q \in alive, NEW ptr, NEW b, NEW s, NEW n, NEW i, NEW a,
           NEW pages, Moves(q, ptr, b, s, n, i, a, pages)
    PROVE  LInv'
<1> USE DEF Moves
<1> USE HeapAssumption
<1>1. /\ q \in Processes /\ ListsAreLists /\ MInv
      /\ mem[q].allocations \in Seq(Entries) /\ DOMAIN mem = Processes
      /\ DOMAIN held = Owners /\ live \in [Pool -> Nat] /\ DOMAIN owner = Pool
      /\ q \in Owners
  BY DEF PInv, LInv, ListsAreLists, MInv, HInv, IInv, TypeOK, Owners
<1>2. i \in 1 .. Len(mem[q].allocations) + 1
  <2>1. /\ Len(mem[q].allocations) \in Nat /\ Len(mem[q].allocations) > 0
        /\ DOMAIN mem[q].allocations = 1 .. Len(mem[q].allocations)
    BY <1>1
  <2>2. IndexOf(mem[q], ptr) = 0 \/ IndexOf(mem[q], ptr) \in DOMAIN mem[q].allocations
    BY <1>1, IndexFound
  <2>3. QED
    BY <2>1, <2>2 DEF process_allocation_exists
<1>3. a \in Entries /\ a.ptr = s /\ a.size = n
  BY DEF Entries
<1>4. CallOf(q, owner[b])
  <2>1. TouchesOnly(owner[b])
    BY <1>1, MovedTouches
  <2>2. \A p \in Processes \ {q} : /\ mem'[p] = mem[p] /\ held'[p] = held[p]
                                   /\ p \in framed' <=> p \in framed
    BY <1>1 DEF Owners
  <2>3. /\ careless \subseteq careless' /\ crossed \subseteq crossed'
        /\ owner[b] \in {q} \cup crossed'
    BY DEF Crosses, IsItsOwn
  <2>4. QED
    BY <2>1, <2>2, <2>3 DEF CallOf
<1>5. ListsAreLists'
  <2>1. Overwritten(mem[q], i, a) \in Seq(Entries)
    BY <1>1, <1>2, <1>3, OverwriteIsList
  <2>2. QED
    BY <1>1, <2>1, ListsStayLists
<1>6. ASSUME q \in Orderly'
      PROVE  ListInv(q)'
  <2>0. b = ptr /\ owner[b] = q /\ q \notin crossed
    <3>1. q \notin crossed'
      BY <1>6 DEF Orderly
    <3>2. QED
      BY <1>1, <3>1, NotCrossed
  <2>1. PICK h \in held[q] : h.ptr = b
    BY <1>6, <2>0 DEF Orderly
  <2>2. ListInv(q) /\ q \in Orderly
    BY <1>6, <2>0, <2>1 DEF PInv, LInv, Orderly
  <2>3. /\ i \in DOMAIN mem[q].allocations /\ mem[q].allocations[i].ptr = b
        /\ \A k \in DOMAIN mem[q].allocations \ {i} : mem[q].allocations[k].ptr # b
    BY <2>0, <2>1, <2>2, HeldIsListed
  <2>4. ASSUME NEW k \in DOMAIN mem[q].allocations \ {i}, mem[q].allocations[k].ptr # NULL
        PROVE  mem[q].allocations[k].ptr # s /\ WillOwn(q, mem[q].allocations[k])
    <3>1. OwnedBy(q, mem[q].allocations[k]) /\ mem[q].allocations[k].ptr # b
      BY <2>2, <2>3, <2>4 DEF ListInv
    <3>2. mem[q].allocations[k].ptr # s
      BY <3>1 DEF OwnedBy
    <3>3. QED
      BY <1>1, <2>0, <3>1, <3>2 DEF OwnedBy, WillOwn
  <2>5. Fits(mem[q], i, a, b)
    BY <1>1, <1>2, <1>3, <2>3, <2>4, NullIsNoBlock DEF Fits
  <2>6. WillOwn(q, a)
    BY <1>1, <1>3, <2>0 DEF WillOwn
  <2>7. Span(a.ptr, a.size) \subseteq Blocks
    BY <2>6, WillOwnInBlocks DEF MInv
  <2>8. /\ mem'[q] = [allocations |-> Overwritten(mem[q], i, a), pages |-> pages]
        /\ held'[q] = Without(held[q], b) \cup {a}
    BY <1>1, <2>0 DEF HeldWithout, Without
  <2>9. Puts(q, i, a, b, pages)
    BY <1>3, <2>4, <2>5, <2>6, <2>7, <2>8 DEF Puts
  <2>10. QED
    BY <2>2, <2>9, PutKeeps
<1>7. QED
  BY <1>4, <1>5, <1>6, CallKeeps

\* q is given n blocks at s for an address ptr that leads out of the pool; a program
\* that does not hold ptr turns careless.
Renews(q, ptr, s, n, i, a, pages) ==
    /\ s \in Pool /\ n \in 1 .. MaxRequest /\ live[s] = 0
    /\ mem[q].allocations # <<>>
    /\ live' = [live EXCEPT ![s] = n] /\ owner' = [owner EXCEPT ![s] = q]
    /\ alive' = alive /\ framed' = framed /\ crossed' = crossed
    /\ i = process_allocation_exists(mem[q], ptr)
    /\ a = [ptr |-> s, size |-> n]
    /\ pages = paging_map_range(mem[q].pages, s, s, n, TRUE)
    /\ mem' = [mem EXCEPT ![q] = [allocations |-> Overwritten(mem[q], i, a),
                                  pages       |-> pages]]
    /\ held' = [held EXCEPT ![q] = HeldWithout(q, ptr) \cup {a}]
    /\ \/ careless' = careless /\ \E h \in held[q] : h.ptr = ptr
       \/ careless' = careless \cup {q}

LEMMA RenewedStep ==
    ASSUME PInv, MInv', NEW q \in alive, NEW ptr, NEW s, NEW n, NEW i, NEW a,
           NEW pages, Renews(q, ptr, s, n, i, a, pages)
    PROVE  LInv'
<1> USE DEF Renews
<1> USE HeapAssumption
<1>1. /\ q \in Processes /\ ListsAreLists /\ MInv
      /\ mem[q].allocations \in Seq(Entries) /\ DOMAIN mem = Processes
      /\ DOMAIN held = Owners /\ live \in [Pool -> Nat] /\ DOMAIN owner = Pool
      /\ q \in Owners
  BY DEF PInv, LInv, ListsAreLists, MInv, HInv, IInv, TypeOK, Owners
<1>2. i \in 1 .. Len(mem[q].allocations) + 1
  <2>1. /\ Len(mem[q].allocations) \in Nat /\ Len(mem[q].allocations) > 0
        /\ DOMAIN mem[q].allocations = 1 .. Len(mem[q].allocations)
    BY <1>1
  <2>2. IndexOf(mem[q], ptr) = 0 \/ IndexOf(mem[q], ptr) \in DOMAIN mem[q].allocations
    BY <1>1, IndexFound
  <2>3. QED
    BY <2>1, <2>2 DEF process_allocation_exists
<1>3. a \in Entries /\ a.ptr = s /\ a.size = n
  BY DEF Entries
<1>4. CallOf(q, q)
  <2>1. TouchesOnly(q)
    BY <1>1, GivenTouches
  <2>2. \A p \in Processes \ {q} : /\ mem'[p] = mem[p] /\ held'[p] = held[p]
                                   /\ p \in framed' <=> p \in framed
    BY <1>1 DEF Owners
  <2>3. QED
    BY <2>1, <2>2 DEF CallOf
<1>5. ListsAreLists'
  <2>1. Overwritten(mem[q], i, a) \in Seq(Entries)
    BY <1>1, <1>2, <1>3, OverwriteIsList
  <2>2. QED
    BY <1>1, <2>1, ListsStayLists
<1>6. ASSUME q \in Orderly'
      PROVE  ListInv(q)'
  <2>1. PICK h \in held[q] : h.ptr = ptr
    BY <1>6 DEF Orderly
  <2>2. ListInv(q) /\ q \in Orderly
    BY <1>6, <2>1 DEF PInv, LInv, Orderly
  <2>3. /\ i \in DOMAIN mem[q].allocations /\ mem[q].allocations[i].ptr = ptr
        /\ \A k \in DOMAIN mem[q].allocations \ {i} : mem[q].allocations[k].ptr # ptr
    BY <2>1, <2>2, HeldIsListed
  <2>4. ASSUME NEW k \in DOMAIN mem[q].allocations, mem[q].allocations[k].ptr # NULL
        PROVE  mem[q].allocations[k].ptr # s /\ WillOwn(q, mem[q].allocations[k])
    <3>1. OwnedBy(q, mem[q].allocations[k])
      BY <2>2, <2>4 DEF ListInv
    <3>2. mem[q].allocations[k].ptr # s
      BY <3>1 DEF OwnedBy
    <3>3. QED
      BY <1>1, <3>1, <3>2 DEF OwnedBy, WillOwn
  <2>5. Fits(mem[q], i, a, ptr)
    BY <1>1, <1>2, <1>3, <2>3, <2>4, NullIsNoBlock DEF Fits
  <2>6. WillOwn(q, a)
    BY <1>1, <1>3 DEF WillOwn
  <2>7. Span(a.ptr, a.size) \subseteq Blocks
    BY <2>6, WillOwnInBlocks DEF MInv
  <2>8. /\ mem'[q] = [allocations |-> Overwritten(mem[q], i, a), pages |-> pages]
        /\ held'[q] = Without(held[q], ptr) \cup {a}
    BY <1>1 DEF HeldWithout, Without
  <2>9. Puts(q, i, a, ptr, pages)
    BY <1>3, <2>4, <2>5, <2>6, <2>7, <2>8 DEF Puts
  <2>10. QED
    BY <2>2, <2>9, PutKeeps
<1>7. QED
  BY <1>4, <1>5, <1>6, CallKeeps

\* The memory at b goes back to the heap and stays listed: q turns careless.
LEMMA TakenBackStep ==
    ASSUME PInv, NEW q \in alive, NEW ptr, NEW b \in Pool, Crosses(q, ptr, b),
           live' = [live EXCEPT ![b] = 0], owner' = [owner EXCEPT ![b] = NOBODY],
           alive' = alive, mem' = mem, framed' = framed,
           held' = [held EXCEPT ![q] = HeldWithout(q, ptr)],
           careless' = careless \cup {q}
    PROVE  LInv'
<1>1. ListsAreLists' /\ q \in Processes /\ DOMAIN held = Owners
  BY DEF PInv, LInv, ListsAreLists, MInv, HInv
<1>2. TouchesOnly(owner[b])
  BY TakenBackTouches DEF PInv
<1>3. crossed \subseteq crossed' /\ owner[b] \in {q} \cup crossed'
  BY DEF Crosses, IsItsOwn
<1>4. CallOf(q, owner[b])
  BY <1>1, <1>2, <1>3 DEF CallOf, Owners
<1>5. q \notin Orderly'
  BY DEF Orderly
<1>6. QED
  BY <1>1, <1>4, <1>5, CallKeeps

\* q has ended.
LEMMA EndedStep ==
    ASSUME PInv, NEW q \in Processes, live' = live, owner' = owner,
           alive' = alive \ {q}, mem' = [mem EXCEPT ![q] = Fresh],
           held' = [held EXCEPT ![q] = {}], careless' = careless, framed' = framed,
           crossed' = crossed
    PROVE  LInv'
<1>1. DOMAIN mem = Processes /\ DOMAIN held = Owners /\ ListsAreLists
  BY DEF PInv, LInv, ListsAreLists, MInv, HInv
<1>2. TouchesOnly(q)
  BY NoMemoryTouched
<1>3. CallOf(q, q)
  BY <1>1, <1>2 DEF CallOf, Owners
<1>4. Fresh.allocations \in Seq(Entries)
  BY DEF Fresh
<1>5. ListsAreLists'
  BY <1>1, <1>4, ListsStayLists
<1>6. q \notin Orderly'
  BY DEF Orderly
<1>7. QED
  BY <1>3, <1>5, <1>6, CallKeeps

LEMMA FreedIsList ==
    ASSUME NEW m, m.allocations \in Seq(Entries), NEW ptr
    PROVE  Freed(m, ptr).allocations \in Seq(Entries)
<1>1. CASE IndexOf(m, ptr) = 0
  BY <1>1 DEF Freed
<1>2. CASE IndexOf(m, ptr) # 0
  <2> DEFINE s == m.allocations
  <2>1. Freed(m, ptr).allocations =
           [k \in DOMAIN s |-> IF s[k].ptr = ptr THEN EMPTY ELSE s[k]]
    BY <1>2 DEF Freed
  <2>2. /\ Len(s) \in Nat /\ DOMAIN s = 1 .. Len(s)
        /\ \A k \in 1 .. Len(s) : s[k] \in Entries
    OBVIOUS
  <2>3. EMPTY \in Entries
    BY DEF EMPTY, Entries
  <2> HIDE DEF s
  <2>4. [k \in DOMAIN s |-> IF s[k].ptr = ptr THEN EMPTY ELSE s[k]] \in Seq(Entries)
    BY <2>2, <2>3
  <2>5. QED
    BY <2>1, <2>4
<1>3. QED
  BY <1>1, <1>2

LEMMA EmptyHasNoAddress == EMPTY.ptr = NULL
BY DEF EMPTY

\* q frees what it holds.
LEMMA FreedStep ==
    ASSUME PInv, NEW q \in alive, NEW h \in held[q],
           live' = live, owner' = owner, alive' = alive,
           mem' = [mem EXCEPT ![q] = Freed(mem[q], h.ptr)],
           held' = [held EXCEPT ![q] = HeldWithout(q, h.ptr)],
           careless' = careless, framed' = framed, crossed' = crossed
    PROVE  LInv'
<1>1. /\ q \in Processes /\ ListsAreLists /\ IInv
      /\ mem[q].allocations \in Seq(Entries) /\ DOMAIN mem = Processes
      /\ DOMAIN held = Owners
  BY DEF PInv, LInv, ListsAreLists, MInv, HInv
<1>2. CallOf(q, q)
  BY <1>1, NoMemoryTouched DEF CallOf, Owners
<1>3. ListsAreLists'
  <2>1. Freed(mem[q], h.ptr).allocations \in Seq(Entries)
    BY <1>1, FreedIsList
  <2>2. QED
    BY <1>1, <2>1, ListsStayLists
<1>4. ASSUME q \in Orderly'
      PROVE  ListInv(q)'
  <2>1. q \in Orderly /\ ListInv(q)
    BY <1>4 DEF PInv, LInv, Orderly
  <2>2. PICK s, i, t, new :
           /\ s = mem[q].allocations /\ i = IndexOf(mem[q], h.ptr)
           /\ t = mem'[q].allocations /\ new = mem'[q].pages
    OBVIOUS
  <2>3. /\ i \in DOMAIN s /\ s[i] = h
        /\ \A k \in DOMAIN s : s[k].ptr = h.ptr => k = i
    BY <2>1, <2>2, HeldIsListed
  <2>4. /\ DOMAIN t = DOMAIN s
        /\ \A k \in DOMAIN s : t[k] = IF s[k].ptr = h.ptr THEN EMPTY ELSE s[k]
        /\ new = paging_map_range(mem[q].pages, h.ptr, h.ptr, h.size, FALSE)
    <3>1. i # 0 /\ mem'[q] = Freed(mem[q], h.ptr)
      BY <1>1, <2>2, <2>3
    <3>2. IndexOf(mem[q], h.ptr) # 0
      BY <2>2, <3>1
    <3>3. /\ Freed(mem[q], h.ptr).allocations =
                [k \in DOMAIN mem[q].allocations |->
                   IF mem[q].allocations[k].ptr = h.ptr THEN EMPTY ELSE mem[q].allocations[k]]
          /\ Freed(mem[q], h.ptr).pages =
                paging_map_range(mem[q].pages, h.ptr, h.ptr,
                                 mem[q].allocations[IndexOf(mem[q], h.ptr)].size, FALSE)
      BY <3>2 DEF Freed
    <3>4. /\ t = [k \in DOMAIN s |-> IF s[k].ptr = h.ptr THEN EMPTY ELSE s[k]]
          /\ new = paging_map_range(mem[q].pages, h.ptr, h.ptr, s[i].size, FALSE)
      BY <2>2, <3>1, <3>3
    <3>5. QED
      BY <2>3, <3>4
  <2>5. /\ Distinct(s) /\ Lists(s, held[q])
        /\ \A k \in DOMAIN s : s[k].ptr # NULL => OwnedBy(q, s[k])
    BY <2>1, <2>2 DEF ListInv
  <2>6. held'[q] = Without(held[q], h.ptr)
    BY <1>1 DEF HeldWithout, Without, Owners
  <2>7. Distinct(t)
    BY <2>4, <2>5, EmptyHasNoAddress DEF Distinct
  <2>8. Lists(t, held'[q])
    BY <2>4, <2>5, <2>6 DEF Lists, Without
  <2>9. \A k \in DOMAIN t : t[k].ptr # NULL => OwnedBy(q, t[k])
    BY <2>4, <2>5, EmptyHasNoAddress
  <2>10. q \notin framed => ListsOnly(t, held'[q])
    BY <2>1, <2>2, <2>4, <2>6, EmptyHasNoAddress DEF ListInv, ListsOnly, Without
  <2>11. q \notin framed => Mapped(new, held'[q])
    <3>1. ASSUME NEW g \in held'[q]
          PROVE  /\ Span(g.ptr, g.size) \subseteq Blocks
                 /\ Span(g.ptr, g.size) \cap Span(h.ptr, h.size) = {}
      <4>1. g \in held[q] /\ g.ptr # h.ptr
        BY <2>6 DEF Without
      <4>2. OwnedBy(q, g) /\ OwnedBy(q, h)
        BY <1>1, <2>1, <4>1 DEF PInv, MInv, HInv, Orderly, Owners
      <4>3. /\ g.ptr \in Allocations /\ h.ptr \in Allocations
            /\ Region(g.ptr) = Span(g.ptr, g.size) /\ Region(h.ptr) = Span(h.ptr, h.size)
        BY <4>2 DEF OwnedBy, Allocations, Region
      <4>4. QED
        BY <1>1, <4>1, <4>2, <4>3, OwnedInBlocks DEF IInv, NoOverlap
    <3>2. q \notin framed => Mapped(mem[q].pages, held'[q])
      BY <2>1, <2>6 DEF ListInv, Mapped, Without
    <3>3. QED
      BY <2>4, <3>1, <3>2, UnmapKeepsMapped
  <2>12. QED
    BY <2>2, <2>7, <2>8, <2>9, <2>10, <2>11 DEF ListInv, OwnedBy
<1>5. QED
  BY <1>2, <1>3, <1>4, CallKeeps

-----------------------------------------------------------------------------
(* Lists and pages: the invariant holds *)

LEMMA PInitInv == MemoryInit => PInv
<1>1. MemoryInit => ListsAreLists
  <2>1. Fresh.allocations \in Seq(Entries)
    BY DEF Fresh
  <2>2. QED
    BY <2>1 DEF MemoryInit, ListsAreLists
<1>2. MemoryInit => \A p \in Processes : ListInv(p)
  BY DEF MemoryInit, Fresh, ListInv, Distinct, Lists, ListsOnly, Mapped, Owners
<1>3. MemoryInit => alive \subseteq Processes
  BY DEF MemoryInit
<1>4. QED
  BY <1>1, <1>2, <1>3, MInitInv DEF PInv, LInv, Orderly

\* The calls that give q new memory.
LEMMA NewMemoryStep ==
    ASSUME PInv, MInv', NEW q \in alive, NEW n \in 0 .. MaxRequest, heap_malloc(n),
           alive' = alive, careless' = careless, crossed' = crossed, NEW pages,
           \/ ret' = NULL /\ UNCHANGED <<mem, ghosts, owner>>
           \/ ret' # NULL /\ NoEntry(q)
           \/ /\ ret' # NULL /\ Owns(q)
              /\ mem' = [mem EXCEPT ![q] =
                          [allocations |-> Overwritten(mem[q],
                                             process_find_free_allocation_index(mem[q]),
                                             [ptr |-> ret', size |-> n]),
                           pages       |-> pages]]
              /\ \/ /\ held' = [held EXCEPT ![q] = held[q] \cup {[ptr |-> ret', size |-> n]}]
                    /\ framed' = framed
                    /\ pages = paging_map_range(mem[q].pages, ret', ret', n, TRUE)
                 \/ held' = held /\ framed' = framed \cup {q}
    PROVE  LInv'
<1>1. MInv
  BY DEF PInv
<1>2. CASE ret' = NULL /\ UNCHANGED <<mem, ghosts, owner>>
  <2>1. live' = live
    BY <1>1, <1>2, NewMemory
  <2>2. TouchesOnly(KERNEL)
    BY <1>2, <2>1, NoMemoryTouched
  <2>3. QED
    BY <1>2, <2>2, NothingListed DEF ghosts
<1>3. ASSUME ret' # NULL
      PROVE  /\ ret' \in Pool /\ n \in 1 .. MaxRequest /\ live[ret'] = 0
             /\ live' = [live EXCEPT ![ret'] = n]
  BY <1>1, <1>3, NewMemory, HeapAssumption
<1>4. CASE ret' # NULL /\ NoEntry(q)
  <2>1. owner' = [owner EXCEPT ![ret'] = q] /\ UNCHANGED <<mem, ghosts>>
    BY <1>4 DEF NoEntry, Owns
  <2>2. TouchesOnly(KERNEL)
    BY <1>1, <1>3, <1>4, <2>1, GivenTouches
  <2>3. QED
    BY <2>1, <2>2, NothingListed DEF ghosts
<1>5. ASSUME ret' # NULL, Owns(q),
             mem' = [mem EXCEPT ![q] =
                      [allocations |-> Overwritten(mem[q],
                                         process_find_free_allocation_index(mem[q]),
                                         [ptr |-> ret', size |-> n]),
                       pages       |-> pages]],
             \/ /\ held' = [held EXCEPT ![q] = held[q] \cup {[ptr |-> ret', size |-> n]}]
                /\ framed' = framed
                /\ pages = paging_map_range(mem[q].pages, ret', ret', n, TRUE)
             \/ held' = held /\ framed' = framed \cup {q}
      PROVE  LInv'
  <2>1. PICK s, i, a : /\ s = ret' /\ i = process_find_free_allocation_index(mem[q])
                       /\ a = [ptr |-> s, size |-> n]
    OBVIOUS
  <2>2. /\ s \in Pool /\ n \in 1 .. MaxRequest /\ live[s] = 0
        /\ live' = [live EXCEPT ![s] = n] /\ owner' = [owner EXCEPT ![s] = q]
    BY <1>3, <1>5, <2>1 DEF Owns
  <2>3. /\ mem' = [mem EXCEPT ![q] = [allocations |-> Overwritten(mem[q], i, a),
                                      pages       |-> pages]]
        /\ \/ /\ held' = [held EXCEPT ![q] = held[q] \cup {a}] /\ framed' = framed
              /\ pages = paging_map_range(mem[q].pages, s, s, n, TRUE)
           \/ held' = held /\ framed' = framed \cup {q}
    BY <1>5, <2>1
  <2>4. QED
    <3>1. Gives(q, s, n, i, a, pages)
      BY <2>1, <2>2, <2>3 DEF Gives
    <3>2. QED
      BY <3>1, GivenStep
<1>6. QED
  BY <1>2, <1>4, <1>5

LEMMA ReallocStep ==
    ASSUME PInv, MInv', NEW q \in Processes, NEW ptr \in Pool, NEW b \in Pool,
           NEW n \in 1 .. MaxRequest, process_realloc(q, ptr, b, n)
    PROVE  LInv'
<1>1. /\ MInv /\ q \in alive /\ b \in Allocations
      /\ mem[q].allocations # <<>> /\ heap_realloc(b, n)
      /\ alive' = alive /\ framed' = framed
  BY DEF PInv, process_realloc, Reallocatable
<1>2. CASE ret' = NULL
  <2>1. live' = live /\ UNCHANGED <<mem, held, careless, crossed, owner>>
    <3>1. live' = live
      BY <1>1, <1>2, MovedMemory
    <3>2. QED
      BY <1>2, <3>1 DEF process_realloc
  <2>2. TouchesOnly(KERNEL)
    BY <2>1, NoMemoryTouched
  <2>3. QED
    BY <1>1, <2>1, <2>2, NothingListed
<1>3. CASE ret' # NULL
  <2>1. PICK s \in Pool : /\ ret' = s
                          /\ s = b \/ live[s] = 0
                          /\ live' = [live EXCEPT ![b] = 0, ![s] = n]
    BY <1>1, <1>3, MovedMemory
  <2>2. PICK i, a, pages :
           /\ i = process_allocation_exists(mem[q], ptr)
           /\ a = [ptr |-> s, size |-> n]
           /\ pages = paging_map_range(mem[q].pages, s, s, n, TRUE)
    OBVIOUS
  <2>3. /\ mem' = [mem EXCEPT ![q] = process_allocation_set_map(mem[q], i, s, n)]
        /\ held' = [held EXCEPT ![q] = HeldWithout(q, ptr) \cup {a}]
        /\ owner' = [owner EXCEPT ![b] = NOBODY, ![s] = owner[b]]
        /\ Crosses(q, ptr, b)
    BY <1>3, <2>1, <2>2 DEF process_realloc, Resized
  <2>4. mem' = [mem EXCEPT ![q] = [allocations |-> Overwritten(mem[q], i, a),
                                   pages       |-> pages]]
    BY <2>2, <2>3 DEF process_allocation_set_map
  <2>5. \/ careless' = careless /\ \E h \in held[q] : h.ptr = ptr
        \/ careless' = careless \cup {q}
    BY <1>3 DEF process_realloc, Passed
  <2>6. Moves(q, ptr, b, s, n, i, a, pages)
    BY <1>1, <2>1, <2>2, <2>3, <2>4, <2>5 DEF Moves
  <2>7. QED
    BY <1>1, <2>6, MovedStep
<1>4. QED
  BY <1>2, <1>3

LEMMA AnewStep ==
    ASSUME PInv, MInv', NEW q \in Processes, NEW ptr, NEW n \in 0 .. MaxRequest,
           process_realloc_anew(q, ptr, n)
    PROVE  LInv'
<1>1. /\ MInv /\ q \in alive /\ mem[q].allocations # <<>> /\ heap_malloc(n)
      /\ alive' = alive /\ framed' = framed /\ crossed' = crossed
  BY DEF PInv, process_realloc_anew
<1>2. CASE ret' = NULL
  <2>1. UNCHANGED <<mem, held, careless, owner>>
    BY <1>2 DEF process_realloc_anew
  <2>2. live' = live
    BY <1>1, <1>2, NewMemory
  <2>3. TouchesOnly(KERNEL)
    BY <2>1, <2>2, NoMemoryTouched
  <2>4. QED
    BY <1>1, <2>1, <2>3, NothingListed
<1>3. CASE ret' # NULL
  <2>1. PICK s, i, a, pages :
           /\ s = ret'
           /\ i = process_allocation_exists(mem[q], ptr)
           /\ a = [ptr |-> s, size |-> n]
           /\ pages = paging_map_range(mem[q].pages, s, s, n, TRUE)
    OBVIOUS
  <2>2. /\ s \in Pool /\ n \in 1 .. MaxRequest /\ live[s] = 0
        /\ live' = [live EXCEPT ![s] = n]
    BY <1>1, <1>3, <2>1, NewMemory, HeapAssumption
  <2>3. /\ mem' = [mem EXCEPT ![q] = process_allocation_set_map(mem[q], i, s, n)]
        /\ held' = [held EXCEPT ![q] = HeldWithout(q, ptr) \cup {a}]
        /\ owner' = [owner EXCEPT ![s] = q]
    BY <1>3, <2>1 DEF process_realloc_anew, Owns
  <2>4. mem' = [mem EXCEPT ![q] = [allocations |-> Overwritten(mem[q], i, a),
                                   pages       |-> pages]]
    BY <2>1, <2>3 DEF process_allocation_set_map
  <2>5. \/ careless' = careless /\ \E h \in held[q] : h.ptr = ptr
        \/ careless' = careless \cup {q}
    BY <1>3 DEF process_realloc_anew, Passed
  <2>6. Renews(q, ptr, s, n, i, a, pages)
    BY <1>1, <2>1, <2>2, <2>3, <2>4, <2>5 DEF Renews
  <2>7. QED
    BY <1>1, <2>6, RenewedStep
<1>4. QED
  BY <1>2, <1>3

LEMMA KernelMoves ==
    ASSUME PInv, NEW h \in held[KERNEL], NEW n \in 1 .. MaxRequest, krealloc(h.ptr, n)
    PROVE  LInv'
<1>1. /\ MInv /\ DOMAIN held = Owners /\ h.ptr \in Pool
      /\ h.ptr \in Allocations /\ heap_realloc(h.ptr, n)
      /\ UNCHANGED <<alive, mem, careless, framed>>
  BY DEF krealloc, PInv, MInv, HInv
<1>2. CASE ret' = NULL
  <2>1. live' = live /\ UNCHANGED <<held, crossed, owner>>
    <3>1. live' = live
      BY <1>1, <1>2, MovedMemory
    <3>2. QED
      BY <1>2, <3>1 DEF krealloc
  <2>2. TouchesOnly(KERNEL)
    BY <2>1, NoMemoryTouched
  <2>3. QED
    BY <1>1, <2>1, <2>2, NothingListed
<1>3. CASE ret' # NULL
  <2>1. PICK b, s \in Pool : /\ b = h.ptr /\ ret' = s
                             /\ s = b \/ live[s] = 0
                             /\ live' = [live EXCEPT ![b] = 0, ![s] = n]
    BY <1>1, <1>3, MovedMemory
  <2>2. /\ owner' = [owner EXCEPT ![b] = NOBODY, ![s] = owner[b]]
        /\ Crosses(KERNEL, b, b)
        /\ held' = [held EXCEPT ![KERNEL] = HeldWithout(KERNEL, b)
                                            \cup {[ptr |-> s, size |-> n]}]
    BY <1>3, <2>1 DEF krealloc, Resized
  <2>3. TouchesOnly(owner[b])
    BY <1>1, <2>1, <2>2, MovedTouches
  <2>4. crossed \subseteq crossed' /\ owner[b] \in {KERNEL} \cup crossed'
    BY <2>2 DEF Crosses, IsItsOwn
  <2>5. \A p \in Processes : held'[p] = held[p]
    BY <1>1, <2>2, MemoryAssumption DEF Owners
  <2>6. QED
    BY <1>1, <2>3, <2>4, <2>5, NothingListed
<1>4. QED
  BY <1>2, <1>3

LEMMA LStepInv == PInv /\ MInv' /\ [MemoryNext]_allVars => LInv'
<1> SUFFICES ASSUME PInv, MInv', [MemoryNext]_allVars PROVE LInv'
  OBVIOUS
<1> USE HeapAssumption, MemoryAssumption
<1>0. MInv
  BY DEF PInv
<1>1. ASSUME NEW p \in Processes, NEW n \in 0 .. MaxRequest, process_malloc(p, n)
      PROVE  LInv'
  <2>1. PICK pages : pages = paging_map_range(mem[p].pages, ret', ret', n, TRUE)
    OBVIOUS
  <2>2. \/ ret' = NULL /\ UNCHANGED <<mem, ghosts, owner>>
        \/ ret' # NULL /\ NoEntry(p)
        \/ /\ ret' # NULL /\ Owns(p)
           /\ mem' = [mem EXCEPT ![p] =
                       [allocations |-> Overwritten(mem[p],
                                          process_find_free_allocation_index(mem[p]),
                                          [ptr |-> ret', size |-> n]),
                        pages       |-> pages]]
           /\ held' = [held EXCEPT ![p] = held[p] \cup {[ptr |-> ret', size |-> n]}]
           /\ framed' = framed
    BY <1>1, <2>1 DEF process_malloc, process_allocation_set_map
  <2>3. /\ p \in alive /\ heap_malloc(n) /\ alive' = alive /\ careless' = careless
        /\ crossed' = crossed
    BY <1>1 DEF process_malloc, NoEntry, ghosts
  <2>4. QED
    BY <2>1, <2>2, <2>3, NewMemoryStep
<1>2. ASSUME NEW p \in Processes, NEW pixels \in held[KERNEL],
             process_map_into_userspace(p, pixels)
      PROVE  LInv'
  <2>1. PICK n, pages :
           /\ n = pixels.size
           /\ pages = paging_map_range(
                         paging_map_range(mem[p].pages, ret', ret', pixels.size, TRUE),
                         ret', pixels.ptr, pixels.size * PageSize, TRUE)
    OBVIOUS
  <2>2. n \in 0 .. MaxRequest
    BY <1>0, <2>1 DEF MInv, HInv
  <2>3. \/ ret' = NULL /\ UNCHANGED <<mem, ghosts, owner>>
        \/ ret' # NULL /\ NoEntry(p)
        \/ /\ ret' # NULL /\ Owns(p)
           /\ mem' = [mem EXCEPT ![p] =
                       [allocations |-> Overwritten(mem[p],
                                          process_find_free_allocation_index(mem[p]),
                                          [ptr |-> ret', size |-> n]),
                        pages       |-> pages]]
           /\ held' = held /\ framed' = framed \cup {p}
    BY <1>2, <2>1 DEF process_map_into_userspace, process_allocation_set_map
  <2>4. /\ p \in alive /\ heap_malloc(n) /\ alive' = alive /\ careless' = careless
        /\ crossed' = crossed
    BY <1>2, <2>1 DEF process_map_into_userspace, NoEntry, ghosts
  <2>5. QED
    BY <2>2, <2>3, <2>4, NewMemoryStep
<1>3. ASSUME NEW p \in Processes, NEW ptr \in Pool, NEW b \in Pool,
             NEW n \in 1 .. MaxRequest, process_realloc(p, ptr, b, n)
      PROVE  LInv'
  BY <1>3, ReallocStep
<1>3a. ASSUME NEW p \in Processes, NEW ptr \in Pool \cup {OUTSIDE},
              NEW n \in 0 .. MaxRequest, process_realloc_anew(p, ptr, n)
       PROVE  LInv'
  BY <1>3a, AnewStep
<1>4. ASSUME NEW p \in Processes, NEW ptr \in Pool, NEW b \in Pool,
             process_realloc_to_zero(p, ptr, b)
      PROVE  LInv'
  <2>1. /\ p \in alive /\ alive' = alive /\ mem' = mem /\ framed' = framed
        /\ live' = [live EXCEPT ![b] = 0] /\ owner' = [owner EXCEPT ![b] = NOBODY]
        /\ held' = [held EXCEPT ![p] = HeldWithout(p, ptr)]
        /\ careless' = careless \cup {p} /\ Crosses(p, ptr, b)
    BY <1>4 DEF process_realloc_to_zero, Reallocatable, heap_free, Turns
  <2>2. QED
    BY <2>1, TakenBackStep
<1>5. ASSUME NEW p \in Processes, NEW b \in Pool, process_free(p, b)
      PROVE  LInv'
  <2>1. PICK h \in held[p] : h.ptr = b
    BY <1>5 DEF process_free
  <2>2. /\ p \in alive /\ live' = live /\ owner' = owner /\ alive' = alive
        /\ mem' = [mem EXCEPT ![p] = Freed(mem[p], b)]
        /\ held' = [held EXCEPT ![p] = HeldWithout(p, b)]
        /\ careless' = careless /\ framed' = framed /\ crossed' = crossed
    BY <1>5 DEF process_free, vars
  <2>3. QED
    BY <2>1, <2>2, FreedStep
<1>6. ASSUME NEW p \in Processes, process_terminate(p)
      PROVE  LInv'
  <2>1. /\ live' = live /\ owner' = owner /\ alive' = alive \ {p}
        /\ mem' = [mem EXCEPT ![p] = Fresh] /\ held' = [held EXCEPT ![p] = {}]
        /\ careless' = careless /\ framed' = framed /\ crossed' = crossed
    BY <1>6 DEF process_terminate, vars
  <2>2. QED
    BY <2>1, EndedStep
<1>7. ASSUME NEW n \in 1 .. MaxRequest, kmalloc(n)
      PROVE  LInv'
  <2>1. /\ heap_malloc(n) /\ n \in 0 .. MaxRequest
        /\ UNCHANGED <<alive, mem, careless, framed, crossed>>
        /\ IF ret' = NULL THEN owner' = owner
                          ELSE owner' = [owner EXCEPT ![ret'] = KERNEL]
    BY <1>7 DEF kmalloc, Owns
  <2>2. \A p \in Processes : held'[p] = held[p]
    BY <1>0, <1>7 DEF kmalloc, MInv, HInv, Owners
  <2>3. TouchesOnly(KERNEL)
    BY <1>0, <2>1, NewMemory, NoMemoryTouched, GivenTouches
  <2>4. QED
    BY <2>1, <2>2, <2>3, NothingListed
<1>8. ASSUME NEW h \in held[KERNEL], NEW n \in 1 .. MaxRequest, krealloc(h.ptr, n)
      PROVE  LInv'
  BY <1>8, KernelMoves
<1>9. ASSUME UNCHANGED <<vars, alive, mem, held, careless, framed, crossed, owner>>
      PROVE  LInv'
  <2>1. live' = live /\ TouchesOnly(KERNEL)
    BY <1>9, NoMemoryTouched DEF vars
  <2>2. QED
    BY <1>9, <2>1, NothingListed
<1>10. ASSUME NEW p \in Processes, NEW ptr \in Pool \cup {OUTSIDE},
              process_realloc_astray(p, ptr)
       PROVE  LInv'
  BY <1>9, <1>10 DEF process_realloc_astray
<1>11. ASSUME NEW h \in held[KERNEL], krealloc_astray(h.ptr)
       PROVE  LInv'
  BY <1>9, <1>11 DEF krealloc_astray
<1>12. CASE UNCHANGED allVars
  BY <1>9, <1>12 DEF allVars
<1>13. QED
  BY <1>1, <1>2, <1>3, <1>3a, <1>4, <1>5, <1>6, <1>7, <1>8, <1>10, <1>11, <1>12
     DEF MemoryNext

LEMMA PInductive == MemorySpec => []PInv
<1>1. PInv /\ [MemoryNext]_allVars => PInv'
  BY MStepInv, LStepInv DEF PInv
<1>2. QED
  BY <1>1, PInitInv, PTL DEF MemorySpec

-----------------------------------------------------------------------------
(* Pages that are not the program's *)

\* A page p can use now it could use before, or it is in p's memory now, or in
\* memory p has taken; and memory is no longer p's only where the heap's
\* allocation has changed.
KeepsToOwn(p, v) ==
    /\ alive' \subseteq alive
    /\ \/ mem'[p].pages[v].user => mem[p].pages[v].user
       \/ \E b \in Pool : /\ live'[b] > 0 /\ owner'[b] = p
                          /\ v \in Span(b, live'[b])
       \/ HasTaken(p, v)
    /\ \A b \in Allocations : owner[b] = p /\ live'[b] = live[b] => owner'[b] = p

LEMMA ForeignWasOwn ==
    ASSUME NEW p, NEW v, KeepsToOwn(p, v), Foreign(p, v)', ~Foreign(p, v)
    PROVE  \/ /\ mem[p].pages[v].user
              /\ \E b \in Allocations : v \in Region(b) /\ owner[b] = p /\ live'[b] # live[b]
           \/ HasTaken(p, v)
<1> SUFFICES ASSUME ~HasTaken(p, v)
             PROVE  /\ mem[p].pages[v].user
                    /\ \E b \in Allocations :
                          v \in Region(b) /\ owner[b] = p /\ live'[b] # live[b]
  OBVIOUS
<1>1. /\ p \in alive'
      /\ mem'[p].pages[v].user
      /\ \A b \in Pool : live'[b] > 0 /\ owner'[b] = p => v \notin Span(b, live'[b])
  BY DEF Foreign, Allocations, Region
<1>2. p \in alive /\ mem[p].pages[v].user
  BY <1>1 DEF KeepsToOwn
<1>3. PICK b \in Allocations : owner[b] = p /\ v \in Region(b)
  BY <1>2 DEF Foreign
<1>4. b \in Pool /\ live[b] > 0 /\ v \in Span(b, live[b])
  BY <1>3 DEF Allocations, Region
<1>5. live'[b] # live[b]
  BY <1>1, <1>3, <1>4 DEF KeepsToOwn
<1>6. QED
  BY <1>2, <1>3, <1>5

LEMMA PagesKept ==
    ASSUME NEW p, NEW v, NEW q, TouchesOnly(q), p # q, alive' \subseteq alive,
           mem'[p] = mem[p]
    PROVE  KeepsToOwn(p, v)
BY DEF KeepsToOwn, TouchesOnly, Allocations

\* The pages of p's new memory are mapped.
LEMMA PagesMapped ==
    ASSUME NEW p, NEW v \in Blocks, NEW s \in Pool, NEW n \in Nat, n > 0,
           mem'[p].pages = paging_map_range(mem[p].pages, s, s, n, TRUE),
           live'[s] = n, owner'[s] = p, alive' \subseteq alive,
           \A b \in Allocations : owner[b] = p /\ live'[b] = live[b] => owner'[b] = p
    PROVE  KeepsToOwn(p, v)
<1>1. CASE v \in Span(s, n)
  BY <1>1 DEF KeepsToOwn
<1>2. CASE v \notin Span(s, n)
  <2>1. mem'[p].pages[v] = mem[p].pages[v]
    BY <1>2 DEF paging_map_range
  <2>2. QED
    BY <2>1 DEF KeepsToOwn
<1>3. QED
  BY <1>1, <1>2

\* What q's call does to q's own pages, before what it does to the others'.
LEMMA NewMemoryKeepsToOwn ==
    ASSUME MInv, DOMAIN mem = Processes, NEW p \in Processes, NEW v \in Blocks,
           NEW q \in Processes, NEW n \in 0 .. MaxRequest, heap_malloc(n),
           alive' = alive, NEW m,
           \/ ret' = NULL /\ UNCHANGED <<mem, ghosts, owner>>
           \/ ret' # NULL /\ NoEntry(q)
           \/ /\ ret' # NULL /\ Owns(q)
              /\ mem' = [mem EXCEPT ![q] = m]
              /\ p = q => m.pages = paging_map_range(mem[q].pages, ret', ret', n, TRUE)
    PROVE  KeepsToOwn(p, v)
<1> USE HeapAssumption, MemoryAssumption
<1>1. p # KERNEL /\ DOMAIN owner = Pool /\ live \in [Pool -> Nat]
  BY DEF MInv, HInv, IInv, TypeOK
<1>2. CASE ret' = NULL
  <2>1. live' = live
    BY <1>2, NewMemory
  <2>2. UNCHANGED <<mem, owner>>
    BY <1>2
  <2>3. TouchesOnly(KERNEL)
    BY <2>1, <2>2, NoMemoryTouched
  <2>4. QED
    BY <1>1, <2>2, <2>3, PagesKept
<1>3. CASE ret' # NULL
  <2>1. PICK s \in Pool : /\ s = ret' /\ live[s] = 0
                          /\ live' = [live EXCEPT ![s] = n]
    BY <1>3, NewMemory
  <2>2. n > 0
    BY <1>3, NewMemory
  <2>3. owner' = [owner EXCEPT ![s] = q]
    BY <1>3, <2>1 DEF NoEntry, Owns
  <2>4. TouchesOnly(KERNEL)
    BY <2>1, <2>3, GivenTouches
  <2>5. CASE mem'[p] = mem[p]
    BY <1>1, <2>4, <2>5, PagesKept
  <2>6. CASE mem'[p] # mem[p]
    <3>1. mem' = [mem EXCEPT ![q] = m] /\ p = q
      BY <1>3, <2>6 DEF NoEntry
    <3>2. mem'[p].pages = paging_map_range(mem[p].pages, s, s, n, TRUE)
      BY <1>3, <2>1, <2>6, <3>1 DEF NoEntry
    <3>3. \A b \in Allocations : owner[b] = p => owner'[b] = p
      BY <1>1, <2>3, <3>1 DEF Allocations
    <3>4. live'[s] = n /\ owner'[s] = p /\ n \in Nat
      BY <1>1, <2>1, <2>3, <3>1
    <3>5. QED
      BY <2>2, <3>2, <3>3, <3>4, PagesMapped
  <2>7. QED
    BY <2>5, <2>6
<1>4. QED
  BY <1>2, <1>3

\* What realloc leaves as long as it was is still whose it was.
LEMMA SameSizeSameOwner ==
    ASSUME MInv, NEW b \in Allocations, NEW n \in 1 .. MaxRequest, heap_realloc(b, n),
           ret' = NULL => owner' = owner, ret' # NULL => Resized(b)
    PROVE  \A c \in Allocations : live'[c] = live[c] => owner'[c] = owner[c]
<1>1. b \in Pool /\ live[b] > 0 /\ DOMAIN owner = Pool /\ live \in [Pool -> Nat]
  BY DEF MInv, HInv, IInv, TypeOK, Allocations
<1>2. ASSUME NEW s \in Pool, ret' = s, s # NULL, s = b \/ live[s] = 0,
             live' = [live EXCEPT ![b] = 0, ![s] = n],
             NEW c \in Allocations, live'[c] = live[c]
      PROVE  owner'[c] = owner[c]
  <2>1. owner' = [owner EXCEPT ![b] = NOBODY, ![s] = owner[b]]
    BY <1>2 DEF Resized
  <2>2. c \in Pool /\ live[c] > 0
    BY DEF Allocations
  <2>3. c # b \/ s = b
    BY <1>1, <1>2, <2>2
  <2>4. c # s \/ s = b
    BY <1>1, <1>2, <2>2
  <2>5. QED
    BY <1>1, <2>1, <2>2, <2>3, <2>4
<1>3. QED
  BY <1>2, MovedMemory

LEMMA ReallocKeepsToOwn ==
    ASSUME MInv, DOMAIN mem = Processes, NEW p \in Processes, NEW v \in Blocks,
           NEW q \in Processes, NEW ptr \in Pool, NEW b \in Pool,
           NEW n \in 1 .. MaxRequest, process_realloc(q, ptr, b, n)
    PROVE  KeepsToOwn(p, v)
<1> USE HeapAssumption, MemoryAssumption
<1>1. b \in Allocations /\ heap_realloc(b, n) /\ alive' = alive
  BY DEF process_realloc, Reallocatable
<1>2. /\ DOMAIN owner = Pool /\ DOMAIN held = Owners /\ live \in [Pool -> Nat]
      /\ n \in Nat /\ n > 0
  BY DEF MInv, HInv, IInv, TypeOK
<1>3. \A c \in Allocations : owner[c] = p /\ live'[c] = live[c] => owner'[c] = p
  <2>1. /\ ret' = NULL => owner' = owner
        /\ ret' # NULL => Resized(b)
    BY DEF process_realloc
  <2>2. QED
    BY <1>1, <2>1, SameSizeSameOwner
<1>4. CASE mem'[p] = mem[p]
  BY <1>1, <1>3, <1>4 DEF KeepsToOwn
<1>5. CASE mem'[p] # mem[p]
  <2>1. ret' # NULL
    BY <1>5 DEF process_realloc
  <2>2. PICK s \in Pool : /\ ret' = s
                          /\ s = b \/ live[s] = 0
                          /\ live' = [live EXCEPT ![b] = 0, ![s] = n]
    BY <1>1, <2>1, MovedMemory
  <2>3. /\ mem' = [mem EXCEPT ![q] = process_allocation_set_map(mem[q],
                      process_allocation_exists(mem[q], ptr), s, n)]
        /\ owner' = [owner EXCEPT ![b] = NOBODY, ![s] = owner[b]]
        /\ held' = [held EXCEPT ![q] = HeldWithout(q, ptr) \cup {[ptr |-> s, size |-> n]}]
        /\ Crosses(q, ptr, b)
    <3>1. /\ mem' = [mem EXCEPT ![q] = process_allocation_set_map(mem[q],
                        process_allocation_exists(mem[q], ptr), ret', n)]
          /\ held' = [held EXCEPT ![q] = HeldWithout(q, ptr) \cup {[ptr |-> ret', size |-> n]}]
          /\ Resized(b) /\ Crosses(q, ptr, b)
      BY <2>1 DEF process_realloc
    <3>2. QED
      BY <2>2, <3>1 DEF Resized
  <2>4. p = q
    BY <1>5, <2>3
  <2>5. mem'[p].pages = paging_map_range(mem[p].pages, s, s, n, TRUE)
    BY <2>3, <2>4 DEF process_allocation_set_map
  <2>6. live'[s] = n /\ owner'[s] = owner[b]
    BY <1>2, <2>2, <2>3
  <2>7. CASE owner[b] = p
    BY <1>1, <1>2, <1>3, <2>5, <2>6, <2>7, PagesMapped
  <2>8. CASE owner[b] # p
    <3>1. CASE v \in Span(s, n)
      <4>1. [ptr |-> s, size |-> n] \in held'[p]
        BY <1>2, <2>3, <2>4 DEF Owners
      <4>2. p \in crossed'
        BY <2>3, <2>4, <2>8 DEF Crosses, IsItsOwn
      <4>3. HasTaken(p, v)
        BY <2>6, <2>8, <3>1, <4>1, <4>2 DEF HasTaken
      <4>4. QED
        BY <1>1, <1>3, <4>3 DEF KeepsToOwn
    <3>2. CASE v \notin Span(s, n)
      <4>1. mem'[p].pages[v] = mem[p].pages[v]
        BY <2>5, <3>2 DEF paging_map_range
      <4>2. QED
        BY <1>1, <1>3, <4>1 DEF KeepsToOwn
    <3>3. QED
      BY <3>1, <3>2
  <2>9. QED
    BY <2>7, <2>8
<1>6. QED
  BY <1>4, <1>5

\* Pages are only taken from p.
LEMMA PagesTaken ==
    ASSUME NEW p, NEW v, alive' \subseteq alive, owner' = owner,
           mem'[p].pages[v].user => mem[p].pages[v].user
    PROVE  KeepsToOwn(p, v)
BY DEF KeepsToOwn

LEMMA UnmapTakes ==
    ASSUME NEW pages, NEW v \in Blocks, NEW ptr, NEW n,
           paging_map_range(pages, ptr, ptr, n, FALSE)[v].user
    PROVE  pages[v].user
BY DEF paging_map_range

LEMMA FreedTakes ==
    ASSUME NEW m, NEW v \in Blocks, NEW ptr, Freed(m, ptr).pages[v].user
    PROVE  m.pages[v].user
<1>1. CASE IndexOf(m, ptr) = 0
  BY <1>1 DEF Freed
<1>2. CASE IndexOf(m, ptr) # 0
  <2>1. Freed(m, ptr).pages =
          paging_map_range(m.pages, ptr, ptr, m.allocations[IndexOf(m, ptr)].size, FALSE)
    BY <1>2 DEF Freed
  <2>2. QED
    BY <2>1, UnmapTakes
<1>3. QED
  BY <1>1, <1>2

LEMMA StepKeepsToOwn ==
    ASSUME PInv, MemoryNext, NEW p \in Processes \ framed', NEW v \in Blocks
    PROVE  KeepsToOwn(p, v)
<1> USE HeapAssumption, MemoryAssumption
<1>0. /\ MInv /\ DOMAIN mem = Processes /\ p \in Processes /\ p # KERNEL
      /\ live \in [Pool -> Nat]
  BY DEF PInv, LInv, ListsAreLists, MInv, IInv, TypeOK
<1>1. ASSUME NEW q \in Processes, NEW n \in 0 .. MaxRequest, process_malloc(q, n)
      PROVE  KeepsToOwn(p, v)
  <2>1. PICK m : m = process_allocation_set_map(mem[q],
                        process_find_free_allocation_index(mem[q]), ret', n)
    OBVIOUS
  <2>2. m.pages = paging_map_range(mem[q].pages, ret', ret', n, TRUE)
    BY <2>1 DEF process_allocation_set_map
  <2>3. /\ heap_malloc(n) /\ alive' = alive
        /\ \/ ret' = NULL /\ UNCHANGED <<mem, ghosts, owner>>
           \/ ret' # NULL /\ NoEntry(q)
           \/ ret' # NULL /\ Owns(q) /\ mem' = [mem EXCEPT ![q] = m]
    BY <1>1, <2>1 DEF process_malloc
  <2>4. QED
    BY <1>0, <2>2, <2>3, NewMemoryKeepsToOwn
<1>2. ASSUME NEW q \in Processes, NEW pixels \in held[KERNEL],
             process_map_into_userspace(q, pixels)
      PROVE  KeepsToOwn(p, v)
  <2>1. PICK n, m :
           /\ n = pixels.size
           /\ m = [allocations |-> process_allocation_set_map(mem[q],
                          process_find_free_allocation_index(mem[q]), ret', n).allocations,
                   pages |-> paging_map_range(process_allocation_set_map(mem[q],
                          process_find_free_allocation_index(mem[q]), ret', n).pages,
                                              ret', pixels.ptr, n * PageSize, TRUE)]
    OBVIOUS
  <2>2. n \in 0 .. MaxRequest
    BY <1>0, <2>1 DEF MInv, HInv
  <2>3. /\ heap_malloc(n) /\ alive' = alive
        /\ \/ ret' = NULL /\ UNCHANGED <<mem, ghosts, owner>>
           \/ ret' # NULL /\ NoEntry(q)
           \/ /\ ret' # NULL /\ Owns(q) /\ mem' = [mem EXCEPT ![q] = m]
              /\ framed' = framed \cup {q}
    BY <1>2, <2>1 DEF process_map_into_userspace
  <2>4. p = q => ~ (ret' # NULL /\ Owns(q) /\ framed' = framed \cup {q})
    OBVIOUS
  <2>5. \/ ret' = NULL /\ UNCHANGED <<mem, ghosts, owner>>
        \/ ret' # NULL /\ NoEntry(q)
        \/ ret' # NULL /\ Owns(q) /\ mem' = [mem EXCEPT ![q] = m] /\ p # q
    BY <2>3, <2>4
  <2>6. QED
    BY <1>0, <2>2, <2>3, <2>5, NewMemoryKeepsToOwn
<1>3. ASSUME NEW q \in Processes, NEW ptr \in Pool, NEW b \in Pool,
             NEW n \in 1 .. MaxRequest, process_realloc(q, ptr, b, n)
      PROVE  KeepsToOwn(p, v)
  BY <1>0, <1>3, ReallocKeepsToOwn
<1>3a. ASSUME NEW q \in Processes, NEW ptr \in Pool \cup {OUTSIDE},
              NEW n \in 0 .. MaxRequest, process_realloc_anew(q, ptr, n)
       PROVE  KeepsToOwn(p, v)
  <2>1. /\ heap_malloc(n) /\ alive' = alive
        /\ ret' = NULL => UNCHANGED <<mem, owner>>
        /\ ret' # NULL => Owns(q)
    BY <1>3a DEF process_realloc_anew
  <2>2. CASE ret' = NULL
    <3>1. live' = live
      BY <1>0, <2>1, <2>2, NewMemory
    <3>2. UNCHANGED <<mem, owner>>
      BY <2>1, <2>2
    <3>3. TouchesOnly(KERNEL)
      BY <3>1, <3>2, NoMemoryTouched
    <3>4. QED
      BY <1>0, <2>1, <3>2, <3>3, PagesKept
  <2>3. CASE ret' # NULL
    <3>1. PICK m : m = process_allocation_set_map(mem[q],
                          process_allocation_exists(mem[q], ptr), ret', n)
      OBVIOUS
    <3>2. m.pages = paging_map_range(mem[q].pages, ret', ret', n, TRUE)
      BY <3>1 DEF process_allocation_set_map
    <3>3. Owns(q) /\ mem' = [mem EXCEPT ![q] = m]
      BY <1>3a, <2>3, <3>1 DEF process_realloc_anew
    <3>4. QED
      BY <1>0, <2>1, <2>3, <3>2, <3>3, NewMemoryKeepsToOwn
  <2>4. QED
    BY <2>2, <2>3
<1>4. ASSUME NEW q \in Processes, NEW ptr \in Pool, NEW b \in Pool,
             process_realloc_to_zero(q, ptr, b)
      PROVE  KeepsToOwn(p, v)
  <2>1. /\ alive' = alive /\ mem' = mem
        /\ live' = [live EXCEPT ![b] = 0] /\ owner' = [owner EXCEPT ![b] = NOBODY]
    BY <1>4 DEF process_realloc_to_zero, heap_free
  <2>2. \A c \in Allocations : owner[c] = p /\ live'[c] = live[c] => owner'[c] = p
    BY <1>0, <2>1 DEF Allocations, MInv, HInv
  <2>3. QED
    BY <2>1, <2>2 DEF KeepsToOwn
<1>5. ASSUME NEW q \in Processes, NEW b \in Pool, process_free(q, b)
      PROVE  KeepsToOwn(p, v)
  <2>1. /\ owner' = owner /\ alive' = alive
        /\ mem' = [mem EXCEPT ![q] = Freed(mem[q], b)]
    BY <1>5 DEF process_free
  <2>2. mem'[p].pages[v].user => mem[p].pages[v].user
    BY <1>0, <2>1, FreedTakes
  <2>3. QED
    BY <2>1, <2>2, PagesTaken
<1>6. ASSUME NEW q \in Processes, process_terminate(q)
      PROVE  KeepsToOwn(p, v)
  <2>1. owner' = owner /\ alive' \subseteq alive /\ mem' = [mem EXCEPT ![q] = Fresh]
    BY <1>6 DEF process_terminate
  <2>2. ~ Fresh.pages[v].user
    BY DEF Fresh
  <2>3. mem'[p].pages[v].user => mem[p].pages[v].user
    BY <1>0, <2>1, <2>2
  <2>4. QED
    BY <2>1, <2>3, PagesTaken
<1>7. ASSUME NEW n \in 1 .. MaxRequest, kmalloc(n)
      PROVE  KeepsToOwn(p, v)
  <2>1. /\ heap_malloc(n) /\ n \in 0 .. MaxRequest /\ alive' = alive /\ mem' = mem
        /\ IF ret' = NULL THEN owner' = owner
                          ELSE owner' = [owner EXCEPT ![ret'] = KERNEL]
    BY <1>7 DEF kmalloc, Owns
  <2>2. TouchesOnly(KERNEL)
    BY <1>0, <2>1, NewMemory, NoMemoryTouched, GivenTouches
  <2>3. QED
    BY <1>0, <2>1, <2>2, PagesKept
<1>8. ASSUME NEW h \in held[KERNEL], NEW n \in 1 .. MaxRequest, krealloc(h.ptr, n)
      PROVE  KeepsToOwn(p, v)
  <2>1. /\ alive' = alive /\ mem' = mem /\ h.ptr \in Allocations /\ heap_realloc(h.ptr, n)
        /\ ret' = NULL => owner' = owner
        /\ ret' # NULL => Resized(h.ptr)
    BY <1>8 DEF krealloc
  <2>2. \A c \in Allocations : owner[c] = p /\ live'[c] = live[c] => owner'[c] = p
    BY <1>0, <2>1, SameSizeSameOwner
  <2>3. QED
    BY <2>1, <2>2 DEF KeepsToOwn
<1>9. ASSUME NEW q \in Processes, NEW ptr \in Pool \cup {OUTSIDE},
            process_realloc_astray(q, ptr)
      PROVE  KeepsToOwn(p, v)
  BY <1>9, PagesTaken DEF process_realloc_astray
<1>10. ASSUME NEW h \in held[KERNEL], krealloc_astray(h.ptr)
       PROVE  KeepsToOwn(p, v)
  BY <1>10, PagesTaken DEF krealloc_astray
<1>11. QED
  BY <1>1, <1>2, <1>3, <1>3a, <1>4, <1>5, <1>6, <1>7, <1>8, <1>9, <1>10 DEF MemoryNext

-----------------------------------------------------------------------------
(* Lists and pages: the theorems *)

\* process_malloc, process_realloc and process_free between them never take the
\* pages of one allocation away with those of another: a program that uses them
\* as it should can use every page of what it holds.
THEOREM MemoryHeldIsMapped == MemorySpec => []HeldIsMapped
<1>1. PInv => HeldIsMapped
  BY DEF PInv, LInv, ListInv, Mapped, Identity, HeldIsMapped
<1>2. QED
  BY <1>1, PInductive, PTL

\* The list that process_validate_memory_or_terminate checks addresses against says
\* what the program holds: no program is ended for passing a buffer of its own,
\* none gets by with an address it was never given.
THEOREM MemoryCheckAcceptsTheHeld == MemorySpec => []CheckAcceptsTheHeld
<1>1. ASSUME PInv, NEW p \in Orderly, NEW addr \in Blocks
      PROVE  LET fits == \E h \in held[p] : addr \in h.ptr .. h.ptr + h.size
             IN  /\ fits => Passes(mem[p], addr)
                 /\ Passes(mem[p], addr) /\ p \notin framed => fits
  <2>1. ListInv(p) /\ p \in Processes
    BY <1>1 DEF PInv, LInv, ListsAreLists, Orderly
  <2>2. ASSUME NEW h \in held[p], addr \in h.ptr .. h.ptr + h.size
        PROVE  Passes(mem[p], addr)
    <3>1. PICK i \in DOMAIN mem[p].allocations : mem[p].allocations[i] = h
      BY <2>1 DEF ListInv, Lists
    <3>2. h.ptr # NULL
      <4>1. OwnedBy(p, h)
        BY <1>1, <2>1, <2>2 DEF PInv, MInv, HInv, Orderly, Owners
      <4>2. QED
        BY <4>1, NullIsNoBlock DEF OwnedBy
    <3>3. QED
      BY <2>2, <3>1, <3>2 DEF Passes
  <2>3. ASSUME Passes(mem[p], addr), p \notin framed
        PROVE  \E h \in held[p] : addr \in h.ptr .. h.ptr + h.size
    <3>1. PICK i \in DOMAIN mem[p].allocations :
             /\ mem[p].allocations[i].ptr # NULL
             /\ addr \in mem[p].allocations[i].ptr
                         .. mem[p].allocations[i].ptr + mem[p].allocations[i].size
      BY <2>3 DEF Passes
    <3>2. mem[p].allocations[i] \in held[p]
      BY <2>1, <2>3, <3>1 DEF ListInv, ListsOnly
    <3>3. QED
      BY <3>1, <3>2
  <2>4. QED
    BY <2>2, <2>3
<1>2. PInv => CheckAcceptsTheHeld
  BY <1>1 DEF CheckAcceptsTheHeld
<1>3. QED
  BY <1>2, PInductive, PTL

\* malloc, realloc, free and the end of a process never open a page to a program
\* but its own memory: it gets at a page that is not its own only where a realloc
\* has moved, cut or freed the allocation of its own the page was in, or within
\* an allocation that it has taken itself by reallocating what is not its own.
THEOREM MemoryForeignPagesWereOwn == MemorySpec => ForeignPagesWereOwn
<1>1. ASSUME PInv, MemoryNext
      PROVE  \A p \in Processes \ framed' : \A v \in Pool :
                Foreign(p, v)' /\ ~Foreign(p, v) =>
                   \/ /\ mem[p].pages[v].user
                      /\ \E b \in Allocations :
                            v \in Region(b) /\ owner[b] = p /\ live'[b] # live[b]
                   \/ HasTaken(p, v)
  <2>1. Pool \subseteq Blocks
    BY HeapAssumption DEF Pool, Blocks
  <2>2. QED
    BY <1>1, <2>1, StepKeepsToOwn, ForeignWasOwn
<1>2. QED
  BY <1>1, PInductive, PTL DEF MemorySpec, ForeignPagesWereOwn
=============================================================================
