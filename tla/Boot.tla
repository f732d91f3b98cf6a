-------------------------------- MODULE Boot --------------------------------
(***************************************************************************)
(* The start of the system (kernel.c): after the loader, kernel_main sets  *)
(* up the heap, the page tables, the screen, the devices, the disks and    *)
(* the fonts, then the stack for interrupts and the first program, one     *)
(* after the other on one processor; most results are not looked at.  Then *)
(* programs run.                                                           *)
(*                                                                         *)
(* The machine is chosen once.  The kernel may stop (panic), wait for a    *)
(* disk for ever (spinning), or write where nothing was given to it (wild);*)
(* it is not followed any further then.  Of what the drivers and a process *)
(* take besides pages and tables, no memory is counted.                    *)
(***************************************************************************)
EXTENDS KernelMemory, DiskSearch, Loader

CONSTANTS
    Machines,      \* [memory, kernel, framebuffer, functions, drives] of the machines
    MaxStrings     \* bound: strings copied from a program

ASSUME BootAssumption ==
    /\ KernelLocation \in Nat /\ MapLocation \in Nat
    /\ MapLocation + PageSize <= TableAddress
    /\ \A m \in Machines :
          /\ m.memory \in Seq([base : Nat, length : Nat, type : {CONVENTIONAL, RESERVED}])
          /\ m.kernel \in Nat /\ KernelLocation + m.kernel <= TableAddress
          /\ m.framebuffer \in [base : Nat, size : Nat]

VARIABLES machine, stage

vars == <<memoryVars, pciVars, diskVars, loaderVars, machine, stage>>

PANIC == "PANIC"
RUNNING == "RUNNING"
RETURNED == "RETURNED"

Init ==
    /\ machine \in Machines
    /\ stage = "SetupMemoryMaps"
    /\ LoaderInit /\ MemoryInit /\ PciInit(machine.functions) /\ DiskInit

\* A call of kernel_main: "from" is done, and "to" comes next.
Step(from, to) == stage = from /\ ~wild /\ stage' = to /\ UNCHANGED machine

devices == <<pciVars, diskVars, loaderVars>>
kernelState == <<memoryVars, pciVars, diskVars>>

\* The drive of the first disk.
Drive == IF disks = <<>> THEN NoDrive ELSE machine.drives[disks[1].at]

ListMemory ==
    /\ Step("SetupMemoryMaps", "LoadKernel")
    /\ SetupMemoryMaps(machine.memory, PageSize) /\ UNCHANGED kernelState

\* The list cannot be made; the loader goes on, and the kernel with what it finds.
NoList ==
    /\ Step("SetupMemoryMaps", "LoadKernel")
    /\ ~Available(machine.memory, Interval(MapLocation, PageSize))
    /\ wild' = TRUE
    /\ UNCHANGED <<heap, heaps, taken, descs, screen, guard, copied, devices>>

StartKernel ==
    /\ Step("LoadKernel", "kheap_init")
    /\ LoadKernel(machine.memory, machine.kernel) /\ UNCHANGED kernelState

\* The firmware gets the processor back.
NoKernel ==
    /\ ~Available(machine.memory, Interval(KernelLocation, machine.kernel))
    /\ Step("LoadKernel", RETURNED)
    /\ UNCHANGED <<memoryVars, devices>>

\* e820_entry, of a map with no region that is large enough
NoRoom ==
    /\ MinimalRegion(ram) = 0
    /\ Step("kheap_init", PANIC)
    /\ UNCHANGED <<memoryVars, devices>>

SetUpHeap ==
    /\ Step("kheap_init", "paging")
    /\ kheap_init(ram) /\ UNCHANGED devices

\* paging_desc_new fails only if the heap gives nothing.
NoTables ==
    /\ ~Fits(1) /\ Step("paging", PANIC)
    /\ UNCHANGED <<memoryVars, devices>>

\* With paging_switch, and kheap_post_paging, which finds no heap to give virtual
\* memory to.
SetUpPaging ==
    /\ Step("paging", "graphics")
    /\ paging_desc_new(KERNEL, ram) /\ UNCHANGED devices

SetUpGraphics ==
    /\ Step("graphics", "pci_init")
    /\ graphics_setup(machine.framebuffer)
    /\ UNCHANGED <<heap, heaps, guard, copied, devices>>

StartScan ==
    /\ Step("pci_init", "pci_scan_bus")
    /\ pci_init /\ UNCHANGED <<memoryVars, diskVars, loaderVars>>

\* Each device takes a block; without one the kernel stops.
Scan ==
    /\ stage = "pci_scan_bus" /\ ~wild /\ Busy
    /\ \/ Present /\ kzalloc(1) /\ UNCHANGED stage
       \/ (Absent \/ Return) /\ UNCHANGED <<taken, stage>>
       \/ /\ Slot \in DOMAIN config /\ ~Fits(1) /\ stage' = PANIC
          /\ UNCHANGED <<taken, found, frames>>
    /\ UNCHANGED <<heap, heaps, descs, screen, guard, copied, wild, config, diskVars, loaderVars, machine>>

ScanDone ==
    /\ ~Busy /\ Step("pci_scan_bus", "disk_search_and_init")
    /\ UNCHANGED <<memoryVars, devices>>

SearchDisks ==
    /\ stage = "disk_search_and_init"
    /\ \/ disk_driver_system_init
       \/ MountPata
       \/ PassOver
       \/ MountNvme(machine.drives[found[Device].at].alive)
    /\ UNCHANGED <<memoryVars, found, frames, loaderVars, machine, stage>>

ReadPartitions ==
    /\ stage = "disk_search_and_init"
    /\ gpt_init(Drive) \/ gpt_mount_partitions(Drive)
    /\ UNCHANGED <<memoryVars, found, frames, loaderVars, machine, stage>>

\* The kernel's files are there: the fonts and the shell.
HasFiles == primary # 0 /\ disks[primary].volume.files

\* font_system_init, and the rest of the graphics and of the input
LoadFonts ==
    /\ Searched(Drive)
    /\ Step("disk_search_and_init", IF HasFiles THEN "tss" ELSE PANIC)
    /\ UNCHANGED <<memoryVars, devices>>

SetUpTss ==
    /\ Step("tss", "shell")
    /\ TssStack /\ UNCHANGED devices

\* process_load_switch("@:/shell.elf") and task_run_first_ever_task
LoadShell ==
    \E q \in Processes :
        /\ Step("shell", RUNNING)
        /\ process_load(q, ram) /\ UNCHANGED devices

NoShell ==
    /\ ~Fits(3) /\ Step("shell", PANIC)
    /\ UNCHANGED <<memoryVars, devices>>

\* A program loads another, or hands a string to the kernel.
RunProgram ==
    /\ stage = RUNNING /\ ~wild
    /\ \/ \E q \in Processes : process_load(q, ram)
       \/ \E q \in Processes :
             Cardinality(copied[q]) < MaxStrings /\ copy_string_from_task(q)
    /\ UNCHANGED <<devices, machine, stage>>

Over == wild \/ spinning \/ stage \in {RETURNED, PANIC, RUNNING}

Next ==
    \/ ListMemory \/ NoList \/ StartKernel \/ NoKernel
    \/ NoRoom \/ SetUpHeap \/ NoTables \/ SetUpPaging \/ SetUpGraphics
    \/ StartScan \/ Scan \/ ScanDone \/ SearchDisks \/ ReadPartitions
    \/ LoadFonts \/ SetUpTss \/ LoadShell \/ NoShell \/ RunProgram

\* kernel_main runs on: nothing but itself takes the processor from it.
Spec == Init /\ [][Next]_vars /\ WF_vars(Next)

-----------------------------------------------------------------------------
(* Properties *)

\* The heap lies in usable memory, and leaves the kernel's image and the list of the
\* regions alone (PeachOS.c, kheap_init).
HeapIsUsable ==
    /\ HeapIsRam(ram)
    /\ heap # NoHeap => \A i \in used : Disjoint(i, [from |-> heap.table, to |-> heap.eaddr])

\* No region of memory is longer than 64 GB, when a page has 4096 bytes.
Short(r) == r.length <= PageSize * PageSize * PageSize
RegionsAreShort == \A m \in Machines : \A k \in 1 .. Len(m.memory) : Short(m.memory[k])

\* The functions are set up as firmware does it: one of every slot that has any has
\* the number 0 and says whether there are more; at most one bridge leads to a bus;
\* what leads into the range of a bridge is that bridge or on a bus in that range; and
\* the upper half of a wide register follows it.
HeaderFields == {"class", "multi", "bars", "bridge", "secondary", "subordinate", "cmd"}

Wired(fn) ==
    /\ DOMAIN fn \subseteq Nat \X (0 .. Slots - 1) \X (0 .. Funcs - 1)
    /\ \A a \in DOMAIN fn :
          /\ DOMAIN fn[a] = HeaderFields
          /\ fn[a].secondary \in Nat /\ fn[a].subordinate \in Nat
          /\ fn[a].class = NVME => ~fn[a].bridge
          /\ fn[a].bars \in [1 .. 6 -> {IO, MEM, MEM64, HIGH, NONE}]
          /\ \A i \in 2 .. 6 : fn[a].bars[i] = HIGH <=> fn[a].bars[i - 1] = MEM64
          /\ a[3] # 0 => <<a[1], a[2], 0>> \in DOMAIN fn /\ fn[<<a[1], a[2], 0>>].multi
          /\ Leads(fn[a]) => \A b \in DOMAIN fn :
                /\ Leads(fn[b]) /\ fn[b].secondary = fn[a].secondary => b = a
                /\ Leads(fn[b]) /\ fn[b].secondary \in fn[a].secondary .. fn[a].subordinate
                      => b = a \/ b[1] \in fn[a].secondary .. fn[a].subordinate

MachinesAreWired == \A m \in Machines : Wired(m.functions)

\* Blocks the boot takes before paging_switch: of the heap's own and of the kernel's
\* tables.  Then both buffers, the devices, the stack for interrupts, the shell and
\* its tables.
Tables(pages) == Cardinality(UNION {Walk(v) : v \in pages})
NeededFirst(m) == 3 + 2 + Tables(RamPages(Entries(m.memory)))
Needed(m) ==
    LET regions == Entries(m.memory)
    IN  NeededFirst(m) + 2 * Page(paging_align_address(m.framebuffer.size))
        + Cardinality({a \in DOMAIN m.functions : a[1] \in Buses}) + StackBlocks
        + 4 + Tables(RamPages(regions) \cup {ProgramPage, ProgramPage - 1})

\* A drive that starts the system: the last volume with the kernel's name, before
\* the first entry that cannot be read, has the kernel's files.
Bootable(drive) ==
    LET readable == {i \in DOMAIN drive.entries :
                        \A j \in 1 .. i : drive.entries[j] # UNREADABLE}
        system   == {i \in readable : drive.entries[i] # UNUSED
                                      /\ drive.entries[i].label = PEACH}
    IN  /\ drive.attached /\ drive.gpt /\ drive.alive
        /\ \E i \in system : drive.entries[i].files /\ \A j \in system : j <= i

\* Every drive starts the system, where a PATA controller hides the others.
GoodDrives(m) ==
    LET here(class) == {a \in DOMAIN m.functions : a[1] \in Buses /\ m.functions[a].class = class}
    IN  IF here(PATA) # {} THEN Bootable(m.drives[<<>>])
        ELSE here(NVME) # {} /\ \A a \in here(NVME) : Bootable(m.drives[a])

\* There is a place for the list and the image, and a region with enough blocks; its
\* table and what is written before paging_switch lie in the first gigabyte.
GoodMemory(m) ==
    LET regions == Entries(m.memory)
        list    == Interval(MapLocation, PageSize)
        image   == Interval(KernelLocation, m.kernel)
        i       == MinimalRegion(regions)
    IN  /\ Available(m.memory, list) /\ Available(m.memory, image) /\ Disjoint(list, image)
        /\ i # 0
        /\ LET h == Layout(regions[i])
           IN  /\ h.table + h.entries <= BootMapped /\ Reached(h, NeededFirst(m))
               /\ Needed(m) <= h.entries

\* A machine with enough memory, with the heap's table and the first page tables within
\* the gigabyte that kernel.asm maps, and with the system on its drives gets to the
\* shell, whatever else it has: other regions of memory, any screen, bridges,
\* unreadable and foreign partitions, controllers without a system behind the first
\* (kernel.c kernel_main, where nearly every result is dropped).
BootSucceeds ==
    stage = "SetupMemoryMaps" /\ GoodMemory(machine) /\ GoodDrives(machine)
        ~> stage = RUNNING /\ ~wild

\* Whatever the machine is, the boot comes to an end, if only that of waiting for
\* a drive or of a panic.
BootEnds == <>Over
=============================================================================
