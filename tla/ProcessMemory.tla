----------------------------- MODULE ProcessMemory -----------------------------
(***************************************************************************)
(* The memory of processes: malloc, realloc, free and the mapping of a     *)
(* window's pixels (task/process.c, isr80h/heap.c) over the kernel's heap  *)
(* (module Heap) and each process's page tables (memory/paging/paging.c).  *)
(*                                                                         *)
(* Heap blocks and pages have the same size and processes see their memory *)
(* at its physical address, so a page is named by its block.  "held" is    *)
(* the callers' side, what each was given and has not given back: the      *)
(* kernel keeps no such thing, it has a list of allocations per process,   *)
(* the page tables, and the heap's table.                                  *)
(*                                                                         *)
(* process_realloc refuses no address: a program that passes what it does  *)
(* not hold is "careless", and when the heap's allocation there was made   *)
(* for another, both are "crossed".  Outside the heap it is given new      *)
(* memory.  A block that no allocation starts at makes the heap mark those *)
(* of others, or of nobody: it is then "astray", and the model goes no     *)
(* further.  Addresses are those of pages.                                 *)
(*                                                                         *)
(* kfree does nothing, so of the heap's calls only realloc gives blocks    *)
(* back.  The block the list itself takes (with room for 170 entries) is   *)
(* left out, but not that there may be none.                               *)
(***************************************************************************)
EXTENDS Heap, Sequences, SequencesExt

CONSTANTS
    Processes,     \* the processes that run
    KERNEL,        \* owns what the kernel allocates for itself
    NOBODY,        \* owns the free blocks
    PageSize,      \* bytes in a page
    MaxWild,       \* bound: calls by which a program turns careless or maps pixels
    MaxKernel,     \* bound: allocations the kernel has for itself
    MaxEntries     \* bound: entries in a process's list of allocations

ASSUME MemoryAssumption ==
    /\ KERNEL \notin Processes /\ NOBODY \notin Processes /\ KERNEL # NOBODY
    /\ PageSize \in Nat \ {0} /\ MaxWild \in Nat /\ MaxKernel \in Nat /\ MaxEntries \in Nat

VARIABLES
    alive,         \* the processes that have not ended
    mem,           \* per process: its allocations and its pages
    held,          \* what each program was given and has not given back
    careless,      \* programs that have reallocated to size 0, or what they do not hold
    framed,        \* processes that have a window's pixels mapped
    crossed,       \* who has reallocated another's memory, and whose it was
    astray,        \* the heap was given an address at which it has no allocation
    owner          \* for whom the block at an allocation's start was allocated

ghosts == <<held, careless, framed, crossed, astray>>
allVars == <<vars, alive, mem, held, careless, framed, crossed, astray, owner>>

\* Who has memory of the heap.
Owners == Processes \cup {KERNEL}

EMPTY == [ptr |-> NULL, size |-> 0]

-----------------------------------------------------------------------------
(* A process's allocations and pages *)

\* The pages from virt on, "count" of them, lead to those from phys on.
paging_map_range(pages, virt, phys, count, user) ==
    [v \in Blocks |->
        IF v \in Span(virt, count)
        THEN [phys |-> phys + (v - virt), user |-> user]
        ELSE pages[v]]

IndexOf(m, ptr) == SelectInSeq(m.allocations, LAMBDA a : a.ptr = ptr)

\* process_find_free_allocation_index: the first empty entry, or a new one.
process_find_free_allocation_index(m) ==
    IF IndexOf(m, NULL) # 0 THEN IndexOf(m, NULL) ELSE Len(m.allocations) + 1

\* Mutant of process_allocation_exists: the index is not handed back.
process_allocation_exists_NoIndex(m, ptr) == 1

\* process_allocation_exists, in a list that is not empty: a pointer that is not
\* in it is not refused, and the index stays that of the first entry.
process_allocation_exists(m, ptr) ==
    IF IndexOf(m, ptr) # 0 THEN IndexOf(m, ptr) ELSE 1

Overwritten(m, i, a) ==
    IF i > Len(m.allocations) THEN Append(m.allocations, a) ELSE ReplaceAt(m.allocations, i, a)

\* Mutants of process_allocation_set_map: the end is rounded down; the page
\* after the last is taken along.
process_allocation_set_map_Short(m, i, ptr, n) ==
    [allocations |-> Overwritten(m, i, [ptr |-> ptr, size |-> n]),
     pages       |-> paging_map_range(m.pages, ptr, ptr, n - 1, TRUE)]

process_allocation_set_map_Long(m, i, ptr, n) ==
    [allocations |-> Overwritten(m, i, [ptr |-> ptr, size |-> n]),
     pages       |-> paging_map_range(m.pages, ptr, ptr, n + 1, TRUE)]

\* process_allocation_set_map, after the vector_push of a new entry.
process_allocation_set_map(m, i, ptr, n) ==
    [allocations |-> Overwritten(m, i, [ptr |-> ptr, size |-> n]),
     pages       |-> paging_map_range(m.pages, ptr, ptr, n, TRUE)]

\* process_free: the first entry with that address says what to unmap, every
\* entry with it is emptied, and kfree keeps the blocks.
Freed(m, ptr) ==
    IF IndexOf(m, ptr) = 0 THEN m
    ELSE [allocations |-> [i \in DOMAIN m.allocations |->
                             IF m.allocations[i].ptr = ptr THEN EMPTY ELSE m.allocations[i]],
          pages |-> paging_map_range(m.pages, ptr, ptr,
                                     m.allocations[IndexOf(m, ptr)].size, FALSE)]

\* process_get_allocation_by_addr finds an entry for the address, its end being
\* inside; total_bytes_left, computed from the end's address, never runs out.
Passes(m, addr) ==
    \E i \in DOMAIN m.allocations :
        LET a == m.allocations[i]
        IN  a.ptr # NULL /\ addr \in a.ptr .. a.ptr + a.size

-----------------------------------------------------------------------------
(* The calls *)

\* A list with no allocation, and the kernel's identity mapping, which programs
\* may not use.
Fresh == [allocations |-> <<>>,
          pages       |-> [v \in Blocks |-> [phys |-> v, user |-> FALSE]]]

MemoryInit ==
    /\ Init
    /\ alive = Processes
    /\ mem = [p \in Processes |-> Fresh]
    /\ held = [p \in Owners |-> {}]
    /\ careless = {} /\ framed = {} /\ crossed = {}
    /\ astray = FALSE
    /\ owner = [b \in Pool |-> NOBODY]

HasRoom(p) == process_find_free_allocation_index(mem[p]) <= MaxEntries

\* The block the heap has just given out is p's.
Owns(p) == owner' = [owner EXCEPT ![ret'] = p]

\* kzalloc has taken the last block and the list, still without memory of its
\* own, cannot have its first entry: kfree keeps the blocks.
NoEntry(p) ==
    /\ mem[p].allocations = <<>>
    /\ \A i \in Pool : table'[i] # FREE
    /\ Owns(p)
    /\ UNCHANGED <<mem, ghosts>>

process_malloc(p, n) ==
    /\ p \in alive /\ HasRoom(p)
    /\ heap_malloc(n)
    /\ UNCHANGED alive
    /\ \/ /\ ret' = NULL
          /\ UNCHANGED <<mem, ghosts, owner>>
       \/ /\ ret' # NULL
          /\ NoEntry(p)
       \/ /\ ret' # NULL
          /\ mem' = [mem EXCEPT ![p] = process_allocation_set_map(@,
                        process_find_free_allocation_index(@), ret', n)]
          /\ held' = [held EXCEPT ![p] = @ \cup {[ptr |-> ret', size |-> n]}]
          /\ Owns(p)
          /\ UNCHANGED <<careless, framed, crossed, astray>>

\* What p still holds when it has passed ptr to realloc.
HeldWithout(p, ptr) == {h \in held[p] : h.ptr # ptr}

\* The bound on what the properties except.
MayTurn == Cardinality(careless) + Cardinality(framed) < MaxWild

Turns(p) == MayTurn /\ careless' = careless \cup {p}

\* p has passed ptr: if it does not hold it, it turns careless.
Passed(p, ptr) ==
    LET holds == \E h \in held[p] : h.ptr = ptr
    IN  /\ holds \/ MayTurn
        /\ careless' = IF holds THEN careless ELSE careless \cup {p}

\* The block that p's page at ptr leads to: the page is ptr's own, unless a
\* mapping of pixels has led it elsewhere.
BlockAt(p, ptr) == mem[p].pages[ptr].phys

\* The caller's own allocation at ptr is at b.
IsItsOwn(p, ptr, b) == b = ptr /\ owner[b] = p

Crosses(p, ptr, b) ==
    crossed' = IF IsItsOwn(p, ptr, b) THEN crossed ELSE crossed \cup {p, owner[b]}

\* process_realloc comes to krealloc with the block b, at which the heap has an
\* allocation: nothing asks for whom.
Reallocatable(p, ptr, b) ==
    /\ p \in alive
    /\ mem[p].allocations # <<>>
    /\ b = BlockAt(p, ptr)
    /\ b \in Allocations

\* What the heap made of q's allocation at b is still q's.
Resized(b) == owner' = [owner EXCEPT ![b] = NOBODY, ![ret'] = owner[b]]

process_realloc(p, ptr, b, n) ==
    /\ Reallocatable(p, ptr, b)
    /\ heap_realloc(b, n)
    /\ UNCHANGED <<alive, framed, astray>>
    /\ IF ret' = NULL THEN UNCHANGED <<mem, held, careless, crossed, owner>>
       ELSE /\ mem' = [mem EXCEPT ![p] = process_allocation_set_map(@,
                          process_allocation_exists(@, ptr), ret', n)]
            /\ held' = [held EXCEPT ![p] = HeldWithout(p, ptr) \cup {[ptr |-> ret', size |-> n]}]
            /\ Resized(b)
            /\ Crosses(p, ptr, b)
            /\ Passed(p, ptr)

\* process_realloc to size 0: the heap takes the blocks back, and process_realloc
\* takes its NULL for a failure.
process_realloc_to_zero(p, ptr, b) ==
    /\ Reallocatable(p, ptr, b)
    /\ heap_free(b)
    /\ held' = [held EXCEPT ![p] = HeldWithout(p, ptr)]
    /\ owner' = [owner EXCEPT ![b] = NOBODY]
    /\ Crosses(p, ptr, b)
    /\ Turns(p)
    /\ UNCHANGED <<alive, mem, framed, astray>>

\* Any address but those of the pool: the program's own image, the kernel's.
OUTSIDE == Total + Slack

\* krealloc comes to an address in no heap, and allocates (multiheap_realloc).
process_realloc_anew(p, ptr, n) ==
    /\ p \in alive
    /\ mem[p].allocations # <<>>
    /\ ptr \in Pool => BlockAt(p, ptr) \notin Pool
    /\ heap_malloc(n)
    /\ UNCHANGED <<alive, framed, crossed, astray>>
    /\ IF ret' = NULL THEN UNCHANGED <<mem, held, careless, owner>>
       ELSE /\ mem' = [mem EXCEPT ![p] = process_allocation_set_map(@,
                          process_allocation_exists(@, ptr), ret', n)]
            /\ held' = [held EXCEPT ![p] = HeldWithout(p, ptr) \cup {[ptr |-> ret', size |-> n]}]
            /\ Owns(p)
            /\ Passed(p, ptr)

\* The page leads into an allocation or to a free block; multiheap_realloc takes
\* an address far above the heap for one of it.
process_realloc_astray(p, ptr) ==
    /\ p \in alive
    /\ mem[p].allocations # <<>>
    /\ ptr \in Pool => BlockAt(p, ptr) \in Pool \ Allocations
    /\ astray' = TRUE
    /\ UNCHANGED <<vars, alive, mem, held, careless, framed, crossed, owner>>

process_free(p, ptr) ==
    /\ p \in alive
    /\ \E h \in held[p] : h.ptr = ptr
    /\ mem' = [mem EXCEPT ![p] = Freed(@, ptr)]
    /\ held' = [held EXCEPT ![p] = HeldWithout(p, ptr)]
    /\ UNCHANGED <<vars, alive, careless, framed, crossed, astray, owner>>

\* process_map_graphics_framebuffer_pixels_into_userspace of pixels that the
\* kernel holds: memory for the process, mapped away at once.  paging_map_range
\* counts pages and is given bytes.
process_map_into_userspace(p, pixels) ==
    /\ p \in alive /\ HasRoom(p) /\ MayTurn
    /\ heap_malloc(pixels.size)
    /\ UNCHANGED alive
    /\ \/ /\ ret' = NULL
          /\ UNCHANGED <<mem, ghosts, owner>>
       \/ /\ ret' # NULL
          /\ NoEntry(p)
       \/ /\ ret' # NULL
          /\ LET m == process_allocation_set_map(mem[p],
                          process_find_free_allocation_index(mem[p]), ret', pixels.size)
             IN  mem' = [mem EXCEPT ![p] =
                            [allocations |-> m.allocations,
                             pages |-> paging_map_range(m.pages, ret', pixels.ptr,
                                                        pixels.size * PageSize, TRUE)]]
          /\ framed' = framed \cup {p}
          /\ Owns(p)
          /\ UNCHANGED <<held, careless, crossed, astray>>

\* process_terminate: each allocation is freed, after which nobody uses the list or
\* the page tables.  kfree keeps the blocks: nobody will have them again.
process_terminate(p) ==
    /\ p \in alive
    /\ alive' = alive \ {p}
    /\ mem' = [mem EXCEPT ![p] = Fresh]
    /\ held' = [held EXCEPT ![p] = {}]
    /\ UNCHANGED <<vars, careless, framed, crossed, astray, owner>>

\* kmalloc for the kernel's own use, and krealloc of it (lib/vector/vector.c).
kmalloc(n) ==
    /\ Cardinality(held[KERNEL]) < MaxKernel
    /\ heap_malloc(n)
    /\ IF ret' = NULL THEN UNCHANGED <<held, owner>>
       ELSE /\ held' = [held EXCEPT ![KERNEL] = @ \cup {[ptr |-> ret', size |-> n]}]
            /\ Owns(KERNEL)
    /\ UNCHANGED <<alive, mem, careless, framed, crossed, astray>>

krealloc(b, n) ==
    /\ b \in Allocations
    /\ heap_realloc(b, n)
    /\ IF ret' = NULL THEN UNCHANGED <<held, crossed, owner>>
       ELSE /\ held' = [held EXCEPT ![KERNEL] = HeldWithout(KERNEL, b)
                                                 \cup {[ptr |-> ret', size |-> n]}]
            /\ Resized(b)
            /\ Crosses(KERNEL, b, b)
    /\ UNCHANGED <<alive, mem, careless, framed, astray>>

\* The kernel has lost the memory to a program that reallocated it.
krealloc_astray(b) ==
    /\ b \notin Allocations
    /\ astray' = TRUE
    /\ UNCHANGED <<vars, alive, mem, held, careless, framed, crossed, owner>>

MemoryNext ==
    /\ ~astray
    /\ \/ \E p \in Processes :
             \/ process_terminate(p)
             \/ \E n \in 0 .. MaxRequest : process_malloc(p, n)
             \/ \E pixels \in held[KERNEL] : process_map_into_userspace(p, pixels)
             \/ \E ptr \in Pool \cup {OUTSIDE} :
                   \/ process_realloc_astray(p, ptr)
                   \/ \E n \in 0 .. MaxRequest : process_realloc_anew(p, ptr, n)
             \/ \E ptr \in Pool :
                   \/ process_free(p, ptr)
                   \/ \E b \in Pool :
                         \/ process_realloc_to_zero(p, ptr, b)
                         \/ \E n \in 1 .. MaxRequest : process_realloc(p, ptr, b, n)
       \/ \E n \in 1 .. MaxRequest : kmalloc(n)
       \/ \E h \in held[KERNEL] :
             \/ krealloc_astray(h.ptr)
             \/ \E n \in 1 .. MaxRequest : krealloc(h.ptr, n)

\* The processes are alike: the order in which they come does not matter.
Alike == Permutations(Processes)

\* What a state is to TLC: no step and no property looks at what the heap returned
\* last, with Word = 1 its counters stay 0, and astray is where the model stops.
WithoutReturn ==
    IF astray THEN <<astray>>
    ELSE <<table, live, alive, mem, held, careless, framed, crossed, owner>>

\* Bound: once a program is careless a block is spare, and a program that has
\* crossed has a list of one entry.
FewOnceCareless ==
    /\ careless # {} => Cardinality(Allocations) < Total
    /\ \A p \in crossed \cap Processes : Len(mem[p].allocations) < MaxEntries

MemorySpec == MemoryInit /\ [][MemoryNext]_allVars

-----------------------------------------------------------------------------
(* Properties *)

Mem ==
    [allocations : Seq([ptr : Pool \cup {NULL}, size : Nat]),
     pages       : [Blocks -> [phys : Nat, user : BOOLEAN]]]

\* An empty entry, the one a later allocation takes over, is empty throughout.
MemoryTypeOK ==
    /\ alive \subseteq Processes
    /\ mem \in [Processes -> Mem]
    /\ owner \in [Pool -> Processes \cup {KERNEL, NOBODY}]
    /\ \A p \in Processes : \A i \in DOMAIN mem[p].allocations :
          mem[p].allocations[i].ptr = NULL => mem[p].allocations[i] = EMPTY

\* What a program or the kernel holds is an allocation of the heap made for it, as
\* long as it was told, and no block is in two allocations: whatever programs do,
\* until realloc is given what is not the caller's.  Then those who cross may
\* lose theirs, and nobody else.
HeldIsOwned ==
    /\ \A p \in Owners \ crossed : \A h \in held[p] : live[h.ptr] = h.size /\ owner[h.ptr] = p
    /\ NoOverlap

\* Whose list and pages say what it holds: it uses malloc, realloc and free as it
\* should, and no other reallocates what it holds.
Orderly == alive \ (careless \cup crossed)

\* Such a program can use every page of what it holds, at its own address, if it
\* has no pixels mapped: a call for one allocation never takes the pages of
\* another away.
HeldIsMapped ==
    \A p \in Orderly \ framed : \A h \in held[p] :
        \A v \in Span(h.ptr, h.size) : mem[p].pages[v] = [phys |-> v, user |-> TRUE]

\* The check the other system calls make of an address accepts, from such a
\* program, all of what it holds and nothing else but the byte after it: no
\* program is ended for passing a buffer of its own.
CheckAcceptsTheHeld ==
    \A p \in Orderly : \A addr \in Blocks :
        LET fits == \E h \in held[p] : addr \in h.ptr .. h.ptr + h.size
        IN  /\ fits => Passes(mem[p], addr)
            /\ Passes(mem[p], addr) /\ p \notin framed => fits

\* A page a program can use that is not its own: another's, the kernel's, free.
Foreign(p, v) ==
    /\ p \in alive
    /\ mem[p].pages[v].user
    /\ ~ \E b \in Allocations : owner[b] = p /\ v \in Region(b)

\* p has, by realloc of what was not its own, an allocation of another's with v.
HasTaken(p, v) ==
    \E b \in Pool :
        /\ owner'[b] # p /\ v \in Span(b, live'[b])
        /\ [ptr |-> b, size |-> live'[b]] \in held'[p]
        /\ p \in crossed'

\* A program gets at a page that is not its own only where a realloc, its own or
\* one that crosses it, has just moved, cut or freed the allocation the page was
\* in, whose pages stay mapped; within an allocation that it has itself taken by
\* realloc; or by having a window's pixels mapped, which maps too much.
ForeignPagesWereOwn ==
    [][\A p \in Processes \ framed' : \A v \in Pool :
          Foreign(p, v)' /\ ~Foreign(p, v) =>
              \/ /\ mem[p].pages[v].user
                 /\ \E b \in Allocations : v \in Region(b) /\ owner[b] = p /\ live'[b] # live[b]
              \/ HasTaken(p, v)]_allVars
=============================================================================
