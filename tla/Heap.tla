-------------------------------- MODULE Heap --------------------------------
(***************************************************************************)
(* The kernel's block heap, memory/heap/heap.c.                            *)
(*                                                                         *)
(* The heap keeps one byte per 4096-byte block: free, or taken with two    *)
(* marks, "first block of an allocation" and "the allocation goes on in    *)
(* the next block".  An allocation is found again from its address alone,  *)
(* by following the chain of HAS_NEXT marks, so the table is the only      *)
(* memory the heap has of who owns what.  "live" is the callers' side of   *)
(* that: it records what each caller was told it owns, and nothing in the  *)
(* heap reads it.                                                          *)
(*                                                                         *)
(* Addresses are block numbers and sizes are numbers of blocks: every size *)
(* is rounded up to blocks first (heap_align_value_to_upper).  A call is   *)
(* one step: the heap is only entered from the kernel, which runs with     *)
(* interrupts off.  A call's address is NULL or a live allocation's.       *)
(***************************************************************************)
EXTENDS Integers, FiniteSets

CONSTANTS
    Total,        \* table->total: blocks in the pool
    Slack,        \* bytes modelled after the table's last entry
    MaxRequest,   \* largest request, in blocks
    Word          \* a size_t counts modulo Word

ASSUME HeapAssumption ==
    /\ Total \in Nat \ {0}
    /\ Slack \in Nat
    /\ MaxRequest \in Nat
    /\ Word \in Nat \ {0}

VARIABLES
    table,        \* heap->table->entries, and the bytes that follow them
    used,         \* heap->used_blocks
    free,         \* heap->free_blocks
    live,         \* live[b]: blocks a caller was given at b (0: none)
    ret           \* the address the last call returned

vars == <<table, used, free, live, ret>>

-----------------------------------------------------------------------------
(* The table *)

TAKEN    == "TAKEN"       \* HEAP_BLOCK_TABLE_ENTRY_TAKEN
HAS_NEXT == "HAS_NEXT"    \* HEAP_BLOCK_HAS_NEXT
IS_FIRST == "IS_FIRST"    \* HEAP_BLOCK_IS_FIRST
FREE     == {}            \* HEAP_BLOCK_TABLE_ENTRY_FREE: no bit set

Entry  == SUBSET {TAKEN, HAS_NEXT, IS_FIRST}
Pool   == 0 .. Total - 1
Blocks == 0 .. Total + Slack - 1
NULL   == -1

Span(b, n) == b .. b + n - 1
Region(b)  == Span(b, live[b])
Allocations == {b \in Pool : live[b] > 0}

\* Mutant of FreeRun: a taken block does not end the run that is being counted.
FreeRun_Counting(s, n) ==
    /\ TAKEN \notin table[s]
    /\ Cardinality({i \in s .. Total - 1 : TAKEN \notin table[i]}) >= n

\* n free blocks of the pool start at s.
FreeRun(s, n) ==
    /\ s + n <= Total
    /\ \A i \in Span(s, n) : TAKEN \notin table[i]

\* heap_get_start_block stops in the first free run that is long enough; a
\* request for no block never gets one.
heap_get_start_block(s, n) ==
    /\ n > 0
    /\ FreeRun(s, n)
    /\ \A r \in 0 .. s - 1 : ~FreeRun(r, n)

NoStartBlock(n) == \A s \in Pool : ~heap_get_start_block(s, n)

\* Mutant of heap_mark_blocks_taken: the last block too is marked HAS_NEXT.
heap_mark_blocks_taken_NoEnd(t, s, n) ==
    [i \in Blocks |->
        IF i \in Span(s, n)
        THEN {TAKEN, HAS_NEXT} \cup (IF i = s THEN {IS_FIRST} ELSE {})
        ELSE t[i]]

heap_mark_blocks_taken(t, s, n) ==
    [i \in Blocks |->
        IF i \in Span(s, n)
        THEN {TAKEN} \cup (IF i = s THEN {IS_FIRST} ELSE {})
                     \cup (IF i # s + n - 1 THEN {HAS_NEXT} ELSE {})
        ELSE t[i]]

\* The last block of the chain through s: the first one without HAS_NEXT, or
\* the pool's last, where every walk over the table stops.
ChainEnd(t, s) ==
    CHOOSE e \in s .. Total - 1 :
        /\ \A i \in s .. e - 1 : HAS_NEXT \in t[i]
        /\ e = Total - 1 \/ HAS_NEXT \notin t[e]

heap_mark_blocks_free(t, s) ==
    [i \in Blocks |-> IF i \in s .. ChainEnd(t, s) THEN FREE ELSE t[i]]

heap_allocation_block_count(b) ==
    Cardinality({i \in b .. ChainEnd(table, b) : TAKEN \in table[i]})

\* Mutant of heap_is_block_range_free: the last block is not looked at.
heap_is_block_range_free_OffByOne(s, e) ==
    /\ e < Total + Slack
    /\ \A i \in s .. e - 1 : TAKEN \notin table[i]

\* heap_is_block_range_free does not compare its range with table->total: past
\* the last entry it reads whatever the memory after the table holds.
heap_is_block_range_free(s, e) ==
    /\ e < Total + Slack
    /\ \A i \in s .. e : TAKEN \notin table[i]

-----------------------------------------------------------------------------
(* The calls.  A size_t counter wraps. *)

Wrap(n) == n % Word

\* The counters after n blocks were taken (n < 0: given back).
Count(n) ==
    /\ used' = Wrap(used + n)
    /\ free' = Wrap(free - n)

\* heap_create clears the table's entries, not the bytes after them, which
\* hold whatever the memory held.
Init ==
    /\ \E junk \in [Total .. Total + Slack - 1 -> {FREE, {TAKEN}}] :
          table = [i \in Blocks |-> IF i \in Pool THEN FREE ELSE junk[i]]
    /\ used = 0
    /\ free = Wrap(Total)
    /\ live = [b \in Pool |-> 0]
    /\ ret = NULL

\* heap_malloc, and heap_realloc of NULL.
heap_malloc(n) ==
    \/ \E s \in Pool :
          /\ heap_get_start_block(s, n)
          /\ table' = heap_mark_blocks_taken(table, s, n)
          /\ live' = [live EXCEPT ![s] = n]
          /\ ret' = s
          /\ Count(n)
    \/ /\ NoStartBlock(n)
       /\ ret' = NULL
       /\ UNCHANGED <<table, used, free, live>>

\* Mutant of heap_free: the first block of the allocation is not counted.
heap_free_CountsOneLess(b) ==
    /\ table' = heap_mark_blocks_free(table, b)
    /\ live' = [live EXCEPT ![b] = 0]
    /\ ret' = NULL
    /\ Count(-(ChainEnd(table, b) - b))

\* heap_free, and heap_realloc to size 0.
heap_free(b) ==
    /\ table' = heap_mark_blocks_free(table, b)
    /\ live' = [live EXCEPT ![b] = 0]
    /\ ret' = NULL
    /\ Count(-(ChainEnd(table, b) - b + 1))

ReallocSame(b, n) ==
    /\ heap_allocation_block_count(b) = n
    /\ live' = [live EXCEPT ![b] = n]
    /\ ret' = b
    /\ UNCHANGED <<table, used, free>>

\* The blocks after the n-th are freed, which counts them, and are counted a
\* second time under "Adjust the counts".
ReallocShrink(b, n) ==
    LET tail   == b + n
        freed  == ChainEnd(table, tail) - tail + 1
        count  == heap_allocation_block_count(b)
        marked == heap_mark_blocks_free(table, tail)
    IN  /\ n > 0
        /\ count > n
        /\ table' = [marked EXCEPT ![tail - 1] = @ \ {HAS_NEXT}]
        /\ live' = [live EXCEPT ![b] = n]
        /\ ret' = b
        /\ Count(-(freed + (count - n)))

\* The blocks that growing b from its present count to n blocks would add.
Extension(b, n) == b + heap_allocation_block_count(b) .. b + n - 1

CanExtend(b, n) ==
    heap_is_block_range_free(b + heap_allocation_block_count(b), b + n - 1)

ReallocExtend(b, n) ==
    LET count == heap_allocation_block_count(b)
    IN  /\ n > count
        /\ CanExtend(b, n)
        /\ table' = [i \in Blocks |->
              CASE i = b + count - 1 -> table[i] \cup {HAS_NEXT}
                [] i = b + n - 1 -> {TAKEN}
                [] i \in Extension(b, n) /\ i # b + n - 1 -> {TAKEN, HAS_NEXT}
                [] OTHER -> table[i]]
        /\ live' = [live EXCEPT ![b] = n]
        /\ ret' = b
        /\ Count(n - count)

\* A new allocation, the old one copied into it and freed.
ReallocMove(b, n) ==
    \E s \in Pool :
        LET taken == heap_mark_blocks_taken(table, s, n)
        IN  /\ n > heap_allocation_block_count(b)
            /\ ~CanExtend(b, n)
            /\ heap_get_start_block(s, n)
            /\ table' = heap_mark_blocks_free(taken, b)
            /\ live' = [live EXCEPT ![b] = 0, ![s] = n]
            /\ ret' = s
            /\ Count(n - (ChainEnd(taken, b) - b + 1))

ReallocOutOfMemory(b, n) ==
    /\ n > heap_allocation_block_count(b)
    /\ ~CanExtend(b, n)
    /\ NoStartBlock(n)
    /\ ret' = NULL
    /\ UNCHANGED <<table, used, free, live>>

heap_realloc(b, n) ==
    \/ ReallocSame(b, n)
    \/ ReallocShrink(b, n)
    \/ ReallocExtend(b, n)
    \/ ReallocMove(b, n)
    \/ ReallocOutOfMemory(b, n)

Next ==
    \/ \E n \in 0 .. MaxRequest : heap_malloc(n)
    \/ \E b \in Allocations :
          \/ heap_free(b)
          \/ \E n \in 1 .. MaxRequest : heap_realloc(b, n)

Spec == Init /\ [][Next]_vars

-----------------------------------------------------------------------------
(* Properties *)

TypeOK ==
    /\ table \in [Blocks -> Entry]
    /\ used \in 0 .. Word - 1
    /\ free \in 0 .. Word - 1
    /\ live \in [Pool -> Nat]
    /\ ret \in Pool \cup {NULL}

\* No block is given to two callers: the regions malloc and realloc handed out
\* and did not take back are disjoint, those that run past the pool included.
NoOverlap ==
    \A b, c \in Allocations : b # c => Region(b) \cap Region(c) = {}

\* Block i of the region at b carries the marks the walks over it rely on.
\* Past the pool's last block no walk goes.
Marked(b, i) ==
    /\ TAKEN \in table[i]
    /\ i \in Pool => (IS_FIRST \in table[i] <=> i = b)
    /\ i # b + live[b] - 1 => HAS_NEXT \in table[i]
    /\ i = b + live[b] - 1 /\ i < Total - 1 => HAS_NEXT \notin table[i]

\* The table and the callers agree.  A block of the pool is marked taken
\* exactly when a caller owns it (no block leaks when an allocation is
\* shrunk, moved or freed, none is given away while in use), and the chain that
\* starts at an allocation ends where the allocation does.
TableMatchesLive ==
    /\ \A i \in Pool : table[i] # FREE <=> \E b \in Allocations : i \in Region(b)
    /\ \A b \in Allocations : \A i \in Region(b) : Marked(b, i)

\* used_blocks counts the blocks that are in use: shrinking counts those it frees
\* twice, so this alone is no invariant.
CountersExact == used = Cardinality({i \in Pool : TAKEN \in table[i]})

\* Only giving back the tail of an allocation, or an allocation that runs past
\* the pool, makes the counters leave the truth: every other call keeps an
\* exact count exact.
DriftOnlyByShrinkOrOverrun ==
    [][CountersExact /\ ~CountersExact' =>
          \/ \E b \in Allocations : 0 < live'[b] /\ live'[b] < live[b]
          \/ \E b \in Pool : live[b] + b > Total \/ live'[b] + b > Total]_vars

\* The heap is a block allocator.  The pool it allocates from is the one its
\* code confines itself to, which has the Slack bytes past its end.
Owned == [b \in Blocks |-> IF b \in Pool THEN live[b] ELSE 0]

Allocator == INSTANCE BlockPool WITH PoolSize <- Total + Slack, owned <- Owned

AllocatorSpec == Allocator!Spec
=============================================================================
