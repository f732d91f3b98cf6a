---------------------------- MODULE KernelMemory ----------------------------
(***************************************************************************)
(* The memory the kernel gives itself while it boots: where kheap_init     *)
(* puts the heap and its table (memory/heap/kheap.c, multiheap.c), and the *)
(* page tables made out of its blocks (memory/paging/paging.c).            *)
(*                                                                         *)
(* Addresses are numbers; a page is the number of one, and a block of the  *)
(* heap has the size of a page.  kfree does nothing, so that blocks are    *)
(* handed out in order.  Page tables have Radix entries and four levels: a *)
(* descriptor knows its tables, as pairs of a level and a place, and the   *)
(* entries of the last level.  With no memory a table is taken to lie at   *)
(* address 0, and from there on anything may happen: "wild".               *)
(***************************************************************************)
EXTENDS Integers, Sequences, SequencesExt, FiniteSets

CONSTANTS
    PageSize,        \* PAGING_PAGE_SIZE, PEACHOS_HEAP_BLOCK_SIZE
    Radix,           \* PAGING_TOTAL_ENTRIES_PER_TABLE
    TableAddress,    \* PEACHOS_MINIMAL_HEAP_TABLE_ADDRESS
    HeapAddress,     \* PEACHOS_MINIMAL_HEAP_ADDRESS
    MinimumSize,     \* PEACHOS_HEAP_MINIMUM_SIZE_BYTES
    LowMemory,       \* the megabyte that is mapped in any case
    BootMapped,      \* what the tables in kernel.asm map, a gigabyte
    KERNEL,          \* the owner of kernel_paging_desc
    Processes,       \* those that may be loaded
    ProgramPage,     \* PEACHOS_PROGRAM_VIRTUAL_ADDRESS
    StackBlocks      \* of the stack that interrupts use

ASSUME KernelMemoryAssumption ==
    /\ {PageSize, Radix, ProgramPage} \subseteq Nat \ {0} /\ PageSize >= 4
    /\ {TableAddress, HeapAddress, MinimumSize, LowMemory, BootMapped, StackBlocks} \subseteq Nat
    /\ TableAddress % PageSize = 0 /\ HeapAddress % PageSize = 0
    /\ LowMemory % PageSize = 0 /\ PageSize <= LowMemory
    /\ (ProgramPage + 1) * PageSize <= TableAddress     \* programs lie below the heap
    /\ TableAddress + 4 * PageSize <= MinimumSize
    /\ KERNEL \notin Processes

VARIABLES
    heap,      \* kernel_minimal_heap and the place of its table
    heaps,     \* the heaps of kernel_multiheap, in the order of its list
    taken,     \* blocks of the heap that have been handed out
    descs,     \* per owner: its paging_desc, NoDesc before it is made
    screen,    \* the pages of the framebuffer, and those that lead to it
    guard,     \* the page beneath the interrupts' stack
    copied,    \* per owner: the pages strings were copied through
    wild       \* whether the kernel wrote where nothing was given to it

memoryVars == <<heap, heaps, taken, descs, screen, guard, copied, wild>>

PRESENT   == "PRESENT"      \* PAGING_IS_PRESENT
WRITEABLE == "WRITEABLE"    \* PAGING_IS_WRITEABLE
ALL       == "ALL"          \* PAGING_ACCESS_FROM_ALL

Owners == Processes \cup {KERNEL}
NoDesc == [tables |-> {}, leaf |-> <<>>, mapped |-> FALSE]
NoHeap == [table |-> 0, entries |-> 0, saddr |-> 0, eaddr |-> 0]

Page(address) == address \div PageSize
PagesOf(start, end) == Page(start) .. Page(end) - 1
HeapPages == PagesOf(heap.saddr, heap.eaddr)

MemoryInit ==
    /\ heap = NoHeap /\ heaps = <<>> /\ taken = 0
    /\ descs = [o \in Owners |-> NoDesc]
    /\ screen = [real |-> {}, seen |-> {}] /\ guard = {}
    /\ copied = [o \in Owners |-> {}]
    /\ wild = FALSE

-----------------------------------------------------------------------------
(* The heap *)

paging_align_address(a) == IF a % PageSize = 0 THEN a ELSE a + PageSize - (a % PageSize)
paging_align_to_lower_page(a) == a - (a % PageSize)

\* Mutant of Layout: the heap ends where the region does, in the middle of a page.
Layout_PastTheEnd(region) ==
    LET table  == IF region.base < TableAddress THEN TableAddress ELSE region.base
        end    == region.base + region.length
        blocks == (end - table) \div PageSize
        data   == end - table - blocks
        saddr  == paging_align_address(table + data \div PageSize)
        eaddr  == paging_align_address(end)
    IN  [table |-> table, saddr |-> saddr, eaddr |-> eaddr,
         entries |-> (eaddr - saddr) \div PageSize]

\* kheap_init: the table is placed first, with one byte for each block of what is
\* left after a table for the whole region; the heap begins at the next page.
Layout(region) ==
    LET table  == IF region.base < TableAddress THEN TableAddress ELSE region.base
        end    == region.base + region.length
        blocks == (end - table) \div PageSize
        data   == end - table - blocks
        saddr  == paging_align_address(table + data \div PageSize)
        eaddr  == paging_align_to_lower_page(end)
    IN  [table |-> table, saddr |-> saddr, eaddr |-> eaddr,
         entries |-> (eaddr - saddr) \div PageSize]

\* kheap_get_allowable_memory_region_for_minimal_heap: the index, 0 if none.
MinimalRegion(map) ==
    SelectInSeq(map, LAMBDA r : r.type = 1 /\ r.length > MinimumSize)

\* heap_create: the table must have an entry for every block.
heap_create(saddr, eaddr, total) ==
    /\ saddr % PageSize = 0 /\ eaddr % PageSize = 0
    /\ total = (eaddr - saddr) \div PageSize

\* The rest of kheap_init offers the other regions to multiheap_add, which makes
\* a table for each that has no entries.
Bounds(region) ==
    LET base == paging_align_address(region.base)
    IN  [saddr |-> IF base < HeapAddress THEN HeapAddress ELSE base,
         eaddr |-> paging_align_to_lower_page(region.base + region.length)]

Offered(map, used) ==
    {i \in DOMAIN map : /\ i # used /\ map[i].type = 1
                        /\ Bounds(map[i]).saddr < Bounds(map[i]).eaddr}

multiheap_add(map, used) ==
    LET accepted(i) == heap_create(Bounds(map[i]).saddr, Bounds(map[i]).eaddr, 0)
    IN  SetToSeq({Bounds(map[i]) : i \in {j \in Offered(map, used) : accepted(j)}})

\* The tables of kernel.asm map the first n blocks of the heap h.
Reached(h, n) == h.saddr + n * PageSize <= BootMapped

\* Blocks kheap_init and the kmalloc of kernel_main write: they keep three, and what a
\* heap that is refused takes is given back, but for the first when there is no other.
Written(map, used) == IF Offered(map, used) = {} THEN 3 ELSE 4

\* kheap_init, and the kmalloc of kernel_main, which does not look at its result.
\* Table and blocks are written while only the first gigabyte is mapped.
kheap_init(map) ==
    LET used == MinimalRegion(map)
        h    == Layout(map[used])
        n    == Written(map, used)
    IN  /\ used # 0
        /\ IF h.table + h.entries > BootMapped \/ n > h.entries \/ ~Reached(h, n)
           THEN wild' = TRUE /\ UNCHANGED <<heap, heaps, taken>>
           ELSE /\ heap' = h
                /\ heaps' = <<[saddr |-> h.saddr, eaddr |-> h.eaddr]>>
                            \o multiheap_add(map, used)
                /\ taken' = 3
                /\ UNCHANGED wild
        /\ UNCHANGED <<descs, screen, guard, copied>>

Fits(n) == taken + n <= heap.entries

\* The page of the n-th block from now, counted from 0.
Block(n) == Page(heap.saddr) + taken + n

\* kmalloc and kzalloc, of whole blocks: there is one heap to look in.
kzalloc(n) == Fits(n) /\ taken' = taken + n

-----------------------------------------------------------------------------
(* Page tables *)

\* The tables of levels 3, 2 and 1 that an address goes through.
Walk(v) == {<<3, v \div (Radix * Radix * Radix)>>, <<2, v \div (Radix * Radix)>>,
            <<1, v \div Radix>>}

\* paging_map of every page of "to", to where it leads; paging_map_range and
\* paging_map_to call it for pages that follow each other.
paging_map(d, to, flags) ==
    [d EXCEPT !.tables = @ \cup UNION {Walk(v) : v \in DOMAIN to},
              !.leaf = [v \in DOMAIN @ \cup DOMAIN to |->
                            IF v \in DOMAIN to THEN [phys |-> to[v], flags |-> flags]
                            ELSE @[v]]]

Same(pages) == [p \in pages |-> p]

\* The pages that paging_map_e820_memory_regions maps, each to itself.
RamPages(map) ==
    PagesOf(0, LowMemory) \cup
    UNION {PagesOf(paging_align_address(map[i].base),
                   paging_align_to_lower_page(map[i].base + map[i].length)) :
           i \in {j \in DOMAIN map : map[j].type = 1}}

\* A descriptor of o after "d", with the blocks its new tables and n more take.
Rebuilt(o, d, n) ==
    LET blocks == Cardinality(d.tables \ descs[o].tables) + n
    IN  /\ wild' = ~Fits(blocks)
        /\ taken' = IF Fits(blocks) THEN taken + blocks ELSE heap.entries
        /\ descs' = [descs EXCEPT ![o] = d]

\* paging_get: a directory whose first entry is empty is taken for empty.
paging_get(d, v) ==
    /\ Walk(v) \subseteq d.tables
    /\ <<2, (v \div (Radix * Radix * Radix)) * Radix>> \in d.tables
    /\ <<1, (v \div (Radix * Radix)) * Radix>> \in d.tables

\* paging_desc_new of the kernel, and the tables of the memory: they are cleared
\* and filled while only the first gigabyte is mapped.  Of its two blocks only the
\* first is looked at.
paging_desc_new(o, map) ==
    LET d == paging_map(NoDesc, Same(RamPages(map)), {PRESENT, WRITEABLE})
    IN  /\ descs[o] = NoDesc
        /\ Fits(1)
        /\ IF Reached(heap, taken + 2 + Cardinality(d.tables))
           THEN Rebuilt(o, [d EXCEPT !.mapped = TRUE], 2)
           ELSE wild' = TRUE /\ UNCHANGED <<taken, descs>>
        /\ UNCHANGED <<heap, heaps, screen, guard, copied>>

\* graphics_setup: two buffers as large as the framebuffer; the addresses of the
\* first are made to lead to the framebuffer, unless it ends within a page.
graphics_setup(framebuffer) ==
    LET n    == Page(paging_align_address(framebuffer.size))
        real == PagesOf(framebuffer.base, framebuffer.base + framebuffer.size)
        seen == Block(0) .. Block(n - 1)
    IN  IF ~Fits(2 * n) THEN wild' = TRUE /\ UNCHANGED <<taken, descs, screen>>
        ELSE IF framebuffer.size % PageSize # 0
        THEN taken' = taken + 2 * n /\ UNCHANGED <<descs, screen, wild>>
        ELSE /\ Rebuilt(KERNEL, paging_map(descs[KERNEL],
                            [v \in seen |-> Page(framebuffer.base) + v - Block(0)],
                            {PRESENT, WRITEABLE}), 2 * n)
             /\ screen' = [real |-> real, seen |-> seen]

\* The stack for interrupts, whose lowest page kernel_main unmaps.
TssStack ==
    /\ IF Fits(StackBlocks)
       THEN /\ Rebuilt(KERNEL, paging_map(descs[KERNEL], Same({Block(0)}), {}), StackBlocks)
            /\ guard' = {Block(0)}
       ELSE \* the first page of memory is unmapped, and the stack ends beneath it
            wild' = TRUE /\ UNCHANGED <<taken, descs, guard>>
    /\ UNCHANGED <<heap, heaps, screen, copied>>

\* process_load_for_slot and process_map_memory: the program and its stack, blocks
\* of the kernel's, at the addresses programs are linked for; that of the top table
\* is not looked at.
process_load(q, map) ==
    LET ram  == paging_map(NoDesc, Same(RamPages(map)), {PRESENT, WRITEABLE})
        prog == paging_map(ram, [v \in {ProgramPage, ProgramPage - 1} |->
                                    IF v = ProgramPage THEN Block(0) ELSE Block(1)],
                           {PRESENT, WRITEABLE, ALL})
    IN  /\ descs[q] = NoDesc
        /\ Fits(3)
        /\ Rebuilt(q, [prog EXCEPT !.mapped = TRUE], 4)
        /\ UNCHANGED <<heap, heaps, screen, guard, copied>>

\* Mutant of Restored: the old entry is read after it was replaced.
Restored_Late(d, v) == paging_map(d, Same({v}), {PRESENT, WRITEABLE, ALL})

\* The end of copy_string_from_task: the page it lent to the task gets its old
\* address back, and as its flags the bits of the old entry laid over each other.
Restored(d, v) ==
    paging_map(d, [p \in {v} |-> d.leaf[v].phys], IF d.leaf[v].flags = {} THEN {} ELSE {PRESENT})

\* copy_string_from_task, with a buffer that kfree does not take back.
copy_string_from_task(q) ==
    LET v == Block(0)
    IN  /\ descs[q].mapped
        /\ kzalloc(1)
        /\ IF paging_get(descs[KERNEL], v) /\ paging_get(descs[q], v)
           THEN /\ descs' = [descs EXCEPT ![q] = Restored(@, v)]
                /\ UNCHANGED wild
           ELSE wild' = TRUE /\ UNCHANGED descs
        /\ copied' = [copied EXCEPT ![q] = @ \cup {v}]
        /\ UNCHANGED <<heap, heaps, screen, guard>>

-----------------------------------------------------------------------------
(* Properties *)

\* The heap and its table lie in one region of usable memory, above what the
\* kernel and its loader use; the table ends where the heap begins, but for its
\* last entry, which may be the heap's first byte.  There is only this heap: the
\* other regions are refused (kheap.c kheap_init, multiheap.c multiheap_add).
HeapIsRam(map) ==
    heap # NoHeap =>
        /\ \E i \in DOMAIN map :
              /\ map[i].type = 1
              /\ map[i].base <= heap.table /\ heap.eaddr <= map[i].base + map[i].length
        /\ TableAddress <= heap.table /\ heap.saddr < heap.eaddr
        /\ heap.saddr % PageSize = 0 /\ heap.eaddr % PageSize = 0
        /\ heap.table + heap.entries <= heap.saddr + 1
        /\ heaps = <<[saddr |-> heap.saddr, eaddr |-> heap.eaddr]>>
        /\ taken <= heap.entries

\* Every page of the heap is found in every descriptor, leads to itself and can
\* be written, but for those that show the framebuffer, the guard page (both in
\* the kernel's descriptor alone) and those a string was copied through.  It is
\* sure to be found by paging_get in the first directory only (paging.c paging_map,
\* paging_map_e820_memory_regions; task.c copy_string_from_task).
HeapIsMapped ==
    ~wild => \A o \in Owners : descs[o].mapped =>
        \A p \in HeapPages :
            /\ p \in DOMAIN descs[o].leaf
            /\ p < Radix * Radix => paging_get(descs[o], p)
            /\ LET e == descs[o].leaf[p]
               IN  IF o = KERNEL /\ p \in screen.seen THEN e.phys \in screen.real
                   ELSE IF o = KERNEL /\ p \in guard THEN e.flags = {}
                   ELSE /\ e.phys = p /\ PRESENT \in e.flags /\ ALL \notin e.flags
                        /\ WRITEABLE \in e.flags \/ p \in copied[o]
=============================================================================
