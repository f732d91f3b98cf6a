# PeachOS 64-bit: a verification development

TLA+ models of PeachOS (`src/PeachOS64Bit/`): the kernel, the loader that starts it and
the libraries its programs are linked with; the TLC configurations that check them on
small instances; and proofs, checked by TLAPS, of what matters most for every size.
File names below are relative to `src/PeachOS64Bit/src/`.

Contents: [the system](#the-system) · [modules](#modules) · [what the runs
show](#what-the-runs-show) · [what is proved](#what-is-proved) · [where the code
departs from what it says](#where-the-code-departs-from-what-it-says) · [what is not
modelled](#what-is-not-modelled) · [plan](#plan)

To check: `tlc -config MCHeap.cfg Heap` and so on (one configuration per run, see the
table); `tlapm BootProofs.tla` and so on for each `*Proofs.tla`.

## The system

PeachOS is a single-processor kernel.  It is entered by the timer, by devices
(keyboard, mouse) and by system calls (`int 0x80`), and runs with interrupts disabled
from entry to return: kernel code is never interrupted by kernel code.  What makes it
hard is therefore not locking but **order**: programs, devices and time enter it in any
order, each entry leaves state for the next, and the entry points call far into each
other (a system call that finds a bad pointer ends its own process, which closes its
windows, which moves the keyboard focus).  Two actors do run beside it: the disk
controller, and time.

`kfree` is empty (`memory/heap/kheap.c:205`), which decides much of what follows: memory
the kernel frees is never given out again, so that a dangling pointer still finds the
old contents, and no freed address comes back as a new object.

| Component | State | Operations | With whom | Hard parts |
|---|---|---|---|---|
| Block heap (`memory/heap/heap.c`) | a byte per block (taken/free, first, has-next), two counters | malloc, zalloc, free, realloc | under multiheap | runs of free blocks, realloc's five outcomes, unsigned counters |
| Multiheap, kernel heap (`multiheap.c`, `kheap.c`) | list of heaps, a paging heap for each | boot from the e820 map, kmalloc, krealloc, kpalloc | heaps, paging | where table and heap lie; errors of the boot ignored |
| Paging (`memory/paging/paging.c`) | four levels of tables per process | map, map range, map to, get | all of process memory | missing levels, units (bytes, pages) |
| Vector (`lib/vector/`, `../programs/containerlib/`) | elements, capacity | push, overwrite, at, pop, grow, reorder | everything | bounds, growth that fails |
| Tasks (`task/task.c`, `task.asm`) | doubly linked list, current task, registers, wake-up time | new, free, next, sleep, save | idt, processes | stale links, ended tasks, everyone asleep |
| Processes (`task/process.c`) | table, current process; per process allocations, files, windows, events, keys | load, terminate, switch, malloc/realloc/free, print | nearly all | termination in the middle of a call |
| Disk streamer (`disk/streamer.c`, `disk.c`) | sector cache (three levels of buckets, a ring), position | seek, read | disk drivers, FAT16 | boundaries, device errors, stale cache |
| NVMe (`disk/drivers/nvme.c`) | admin and I/O queue pairs, phases | mount, read, write | the controller, concurrently | time-outs, late completions, wrapping |
| PATA, GPT, driver registry (`disk/drivers/pata.c`, `gpt.c`, `driver.c`) | registers; partitions; a list | read; mount partitions | PCI, disks | a drive that is not there, one bad partition among good ones |
| FAT16, files (`fs/`) | descriptors, per-file position | open, read, seek, stat, close | streamer, processes, ELF loader | descriptor limit, error paths, cluster chains |
| Keyboard (`keyboard/`) | a ring of keys per process, caps lock | push, pop, interrupt | processes, windows | overrun, who has the focus |
| Mouse (`mouse/`) | packet bytes, position, buttons | interrupt, move, click | windows | lost bytes of a packet |
| Windows (`graphics/window.c`) | window list, focus, the window being moved | create, close, focus, move, click | mouse, keyboard, processes, graphics | two handlers per click, dangling focus |
| Window events (`task/process.c`) | per process one vector and a counter | push, pop | windows, guilib | events that overwrite each other |
| Graphics (`graphics/graphics.c`) | tree of rectangles with pixels and transparency keys | create, free, reorder, move, redraw a region | windows, mouse | recursion over parts that overlap, unsigned coordinates |
| Terminal, fonts, images (`graphics/`) | cursor, glyphs | print, draw | windows | rendering |
| Interrupts (`idt/`) | tables, saved frame | dispatch | tasks, system calls | which registers are saved |
| System calls (`isr80h/`) | table of commands | dispatch | all the above | pointers of programs |
| PCI (`io/pci.c`) | list of devices with their registers | scan, enable | disk drivers | recursion through bridges |
| Boot (`kernel.c`, `src/PeachOS.c` of the loader) | the machine's memory map | the loader, then `kernel_main` | memory, PCI, disks, processes | results nobody looks at |
| Time, ELF, system tables | filled once | — | — | — |
| Programs (`../programs/`) | `guilib`: elements, a stack of events, focus; each program its own | call the kernel | windows, events | events that push events, buffers that are reallocated |

What makes each correct, in a line:

* **Heap**: no block has two owners; the table says exactly which allocation each block
  belongs to; a failed call changes nothing.
* **Process memory**: what a program holds is its own and mapped, the kernel's check of
  its pointers accepts it, and it cannot reach anything else.
* **Scheduler**: the list holds exactly the live tasks; each resumes with its own
  registers; all get the processor again and again; none after it has ended.
* **Disk streamer**: what is read is what the disk holds, inside the partition.
* **NVMe**: each completion is taken once, for the command it is for.
* **Windows, input**: no window outlives its process; the click goes to the window on
  top; keys and events reach the focused process once and in order.
* **Files**: a handle is of one open descriptor and one process; what is read is what the
  chain of clusters holds; a path opens the item it names.
* **Graphics**: the tree is one; what is on the screen is what the tree says; a click
  reaches what is seen there.
* **Boot**: the heap lies in memory that is usable and mapped; every device and every
  disk that is there is found; the shell runs if the machine can run it.
* **Programs**: the text is what was typed, the window shows it, and the handling of
  events comes to an end.

## Modules

`PROJECT.json` maps every definition to the lines it stands for.  Definitions have the
code's names where they are functions of the code; a definition named `X_Something`
after a function `X` is a *mutant*: `X` with a plausible bug, which the property named
in `PROJECT.json` catches.

### `BlockPool`, `Heap` — the block allocator

`BlockPool` is the abstract allocator: a set of disjoint regions, with `Allocate`,
`Release`, `Resize` and `Move`.  `Heap` is `memory/heap/heap.c`: `table` is the byte per
block, `used` and `free` the counters (modulo `Word`, the width of `size_t`), `ret` the
address returned, `live` what the callers were given.  `heap_malloc`, `heap_free` and
`heap_realloc` are the calls; the latter is the disjunction of its five outcomes.
Blocks are numbered from 0; sizes are in blocks, after rounding.  The check that lets an
allocation grow in place has no upper bound (`heap.c:355`), so it reads entries past the
table; the model gives it `Slack` such bytes, read as whatever they hold.

### `ProcessMemory` — malloc, realloc and free of programs

EXTENDS `Heap` and composes it with the list of allocations and the page tables of each
process (`task/process.c`, `isr80h/heap.c`, `memory/paging/paging.c`).  `mem[p]` is what
the kernel keeps (allocations in the order of the vector, pages with what they lead to
and whether a program may use them); `held[p]` is what program `p` was given and has not
given back, `owner` for whom the block at an allocation's start was made.  A page and a
block have the same size and programs see memory at its physical address, so one number
names both.

`process_realloc` refuses no pointer (`process.c:500`): whatever block the caller's page
leads to goes to `krealloc`, whoever it was made for.  The model follows it into each
case.  Where the heap has an allocation, it moves, cuts, grows or frees it and gives it to
the caller; if it was another's, caller and owner are `crossed`.  In no heap, the caller
gets new memory (`process_realloc_anew`; `OUTSIDE` stands for all such addresses).  Inside
an allocation or in a free block, the heap marks blocks that were never the caller's;
`astray` says so, and the model stops there.  The program that does any of this, or
reallocates to size 0 (the kernel frees the blocks and keeps the entry), is `careless`; a
process is `framed` once it has a window's pixels mapped (`process_map_into_userspace`
passes bytes where pages are counted).  Each property says which of these it excepts.

Abstractions: sizes in blocks, so the length part of the pointer check is left out;
addresses are those of pages; the list's own memory appears only as `NoEntry`, the case
that there is none; page-table pages are not counted.  A page of a program's image leads
to a block of the kernel's like the block's own address, and is not told apart from it.

### `Scheduler` — tasks and the process table

`task/task.c`, the table of `task/process.c`, and the entries that move them: `Tick`
(timer), system calls that sleep, exit, load, or pass a pointer that is not the
program's (which terminates it in the middle of the call, and the call goes on in the
place of the next task), `Poll` (the kernel's loop while no task is awake), `Wake` (time
passes).  `saved[t]` says whose registers are in `t`'s; `cpu` is whose program runs, or
that the kernel polls or has panicked; `faulted` holds, for the properties only, the
processes that were terminated in the middle of a call.  A process has one task, so one
value is both.  `MiddleExits` and `BadPointers` select what programs do, so that a
property that holds can be told apart from the one bug that breaks it.  The next process
to be created is always the same one of those to come: which name it gets makes no
difference, and `EveryTaskRuns` is about all of them.

### `DiskStream` — cached reads

`disk/streamer.c` and the bounds check of `disk/disk.c`.  A byte is a pair (sector,
offset); the cache's three levels are one function from a slot, computed as the code
computes it, to what the slot holds; `ring` is the queue of buckets to free.  A
call sets up `read`; a turn of its loop is one of `CacheFound`, `ReadBlock`,
`ReadBlockFails` and `CacheOutOfMemory`: the device and the allocator may fail at any
sector.

### `Nvme` — driver and controller

`nvme_io_submit_and_poll` in three actions (`Submit`, `TakeAnswer`, `TimeOut`) beside a
controller that fetches commands and completes them in any order (`Fetch`, `Complete`,
external).  Commands and completions are numbered in the model only; the code gives all
commands the identifier 0.  `Init` is the end of a successful mount.  The admin queues
are driven by the same code.  All callers read one sector at a time, so a read is one
command, and the limit of two pages per command is out of reach.  The poll is compiled
without optimisation (`Makefile`), so each turn reads memory.

### `Windows` — the desktop

`graphics/window.c`, the clicks and moves of `mouse/mouse.c`, the handlers of
`kernel.c`, and the part of `task/process.c` that owns windows.  One record `ws` holds
all the window state, and the handlers are operators from one record to the next, in the
order the code calls them: a click runs the title bar's handler (close, start moving)
and then `window_click_handler`.  `sent` is what a step gave to processes.

### `KeyRing`, `ProcessInput` — keys and events of a process

`KeyRing` is the ring of keys (`keyboard/keyboard.c`), `ProcessInput` the ring and the
window events of one process (`task/process.c`).  `typed` and `pending` are what was
pushed and not popped, in order: the queues the code is meant to implement.

### `List`, `Vector` — the vector

`Vector` is `lib/vector/vector.c`, which `../programs/containerlib/src/vector.c` copies:
`memory` is the block, `t_elems` and `tm_elems` its counts, `loop` the two counters of
the bubble sort while it runs, exchange by exchange.  An allocation may fail, and
`vector_resize` then overwrites its only pointer: `block = "lost"` until a later one
succeeds.  `List` says what each call promises; `Contents` maps one to the other.

### `Fat16`, `Files` — volumes, descriptors, handles

`Fat16` has no state: a volume is a record (the table of clusters, the items of the
root, the items each cluster reads as), and the functions of `fs/fat/fat16.c` are
operators on it.  `Files` is `fs/file.c` over such volumes, the handles each process
keeps (`task/process.c`), the system calls on them, and the ELF loader as a client.  A
byte of a file is the place it comes from, so that a read from the wrong cluster shows.

### `GraphicsTree` — rectangles on the screen

`graphics/graphics.c` and what `graphics/window.c` does to it.  `tree` holds a
`graphics_info` each; the recursion of a redraw is a recursive function from a region to
the sequence of (place, pixel) it writes, later ones on top.  Coordinates are
`uint32_t` and the arguments `size_t`, so they wrap at two different places (`Word`,
`Big`).  A pixel is told apart by whether it has the colour of a transparency key.

### `Loader`, `KernelMemory`, `Pci`, `DiskSearch`, `Boot` — the start

`Loader` is the UEFI application (the firmware's memory map, the kernel's image at its
address).  `KernelMemory` is where `kheap_init` puts heap and table and how page tables
are made out of its blocks.  Two things make it `wild`, where the model stops: an
allocation that fails inside a mapping (the code goes on with table address 0), and
anything written beyond the first gigabyte, all that `kernel.asm` maps, before
`paging_switch`: the heap's table, the blocks of `kheap_init` (`Written`), the first page
tables (`Reached`).  `Pci` is the scan of
the buses, its recursion a stack of frames.  `DiskSearch` extends it with the registry of
drivers, the disks each makes, and the partitions of the first.  `Boot` composes them in
the order of `kernel_main`, whose steps are the stages of one program; a machine is
chosen at the start.

### `Gui`, `Textfield`, `Calculator`, `Userland` — a program and its library

`Gui` is `../programs/guilib` (elements, the stack of events, focus, redraws),
`Textfield` its text fields, buttons and list areas, `Calculator`
`../programs/calculator/calculator.c`.  All run in one thread, so the state is one
record and the library's functions are operators from a record to a record.  `Userland`
steps through a program: one call that makes an element, one redraw, one window event
taken, one event of an element handled.  Three programs are followed: the calculator,
the test of the list area (`../programs/blank`), and a form that gives a text field the
focus; no program in the repository does that, so the form is a client written for the
model and is marked external.  Two texts end the calculator: one with more digits than
`number_str` has room for (`Overruns`: the stack is overwritten), and the least int
divided by -1 (`Traps`); what the program does after either is not followed (`wild`).

Any push of an event may find no memory for its copy, and the library tells nobody
(`event.c:290`).  A call is therefore modelled with all its pushes, of which any set is
taken away again (`Pushes`, `Without`): no handler looks at the stack, so those that are
left are the same.  `lost` holds the kinds of lost events that a property must know of;
`before` is what the user has entered apart from the press or key under way, and is what
counts when one of its events is lost.  The enlargement of the stack (`Overfills`) and of
a text field's buffer (`gui_element_textfield_realloc_fails`) may fail too; the program
then uses a null pointer and is `wild`.  Left out: that a stack once enlarged stays so,
which only lets it fail again where the code would not.
`expect` is what a user who reads the buttons and the text would make of each press and
key, `Value` of an expression; it is computed without the loop of `calculator_equals`.

### Two components in one run

`MCStorage`, `MCInput` and `MCUserland` put two modules side by side: `part`, chosen at
the start, says which of the two a behaviour is about, and the other stands still.  They
say no more than two separate runs would; the streamer and the driver below it, the
windows and the process that gets their events, the programs and their containers are
joined because they are read together.

## What the runs show

| Run | Module, configuration | Bounds | Shows |
|---|---|---|---|
| `heap` | `Heap`, `MCHeap.cfg` | 5 blocks, 1 past the table, requests up to 6, counters modulo 8 | `TableMatchesLive`, `DriftOnlyByShrinkOrOverrun`, and that `Heap` implements `BlockPool` (`AllocatorSpec`) |
| `process_memory` | `ProcessMemory`, `MCProcessMemory.cfg` | 2 processes, 4 blocks, requests up to 2, one kernel allocation at a time, 2 list entries, one careless or framed process, which reallocates any page or `OUTSIDE`, with a block to spare | `HeldIsOwned`, `HeldIsMapped`, `CheckAcceptsTheHeld`, `ForeignPagesWereOwn` |
| `scheduler` | `Scheduler`, `MCScheduler.cfg` | 4 tasks, bad pointers, only the first or the last task of the list ends | `ListHoldsTheLive`, `FocusExists`, `EndedNeverRuns`, `RegistersAreOwn`, and under fairness `EveryTaskRuns` |
| `scheduler_ended` | `Scheduler`, `SchedulerEnded.cfg` | 3 tasks, any may end | violated: `EndedNeverRuns` |
| `storage` | `MCStorage`, `MCStorage.cfg` | sectors of 3 bytes, a partition of 3 of 12 sectors across two buckets, a ring of 2; queues of 3, 7 commands, 2 in work | `StaysInPartition`, `ReadIsExact`; `CompletionsOnceInOrder`, `CommandsOnceInOrder`, `AnswerIsOwn` |
| `input` | `MCInput`, `MCInput.cfg` | 2 processes, 3 windows (one without a title bar), 2 places; a ring of 3, 2 characters, 5 keys waiting | `WindowsAreOwned`, `FocusMovesKeys`; `KeysInOrder` |
| `windows_topmost` | `Windows`, `WindowsTopmost.cfg` | the same windows | violated: `ClickedIsTopmost` |
| `process_events` | `ProcessInput`, `ProcessEvents.cfg` | 2 events, 3 pending | violated: `EventsInOrder` |
| `files` | `MCFiles`, `MCFiles.cfg` | 2 processes, 3 descriptors, 2 volumes of 2-byte clusters, one of them worn | `DescriptorsAreHeld`, `ReadIsTheFile`, `OpensThePath` |
| `graphics` | `MCGraphicsTree`, `MCGraphicsTree.cfg` | 3 graphics on a screen of 3 × 2, words of 4 and 6 bits, one graphic with transparency | `TreeIsSound`, `RegionShowsTheTree`, `ClickHitsTheTopmost`, `WindowsLeaveNoTrace` |
| `boot` | `MCBoot`, `MCBoot.cfg` | 117 machines; pages of 16 bytes, tables of 8 entries; 3 buses of 2 slots and 2 functions | `HeapIsUsable`, `HeapIsMapped`, `DevicesFound`, `DisksAreReachable`; under fairness `BootSucceeds`, `BootEnds` |
| `user_programs` | `MCUserland`, `MCUserland.cfg` | 3 programs, 5 of the calculator's 16 buttons with its display, a click beside them, the form's field and image, 5 rows of the list area's column, 2 keys, text buffers of 4, int of 6 bits, any events lost; vectors of 4 elements out of 3 | `TextIsWhatWasEntered`, `WindowIsCurrent`, `SelectionIsTold`, `PixelsStayInBuffer`, under fairness `EventsDrain`; that `Vector` implements `List` (`ListSpec`), `ReorderSorts` |

**Why the bounds are enough.**  *Heap*: five blocks hold two allocations with a gap on
each side and between them, the least that tells first fit, growth in place, moving and
failing apart; requests of 6 exceed the pool; a counter modulo 8 wraps.
*Process memory*: with four blocks a neighbour can force a realloc to move and the old
blocks can go to the other process; two list entries make the search for a free one and
the reuse of an emptied one happen.  Two processes and the kernel are all the owners a
page can move between; processes are interchangeable (`SYMMETRY Alike`), and states that
differ only in the value last returned are one, as are those in which the heap is
`astray` (`VIEW WithoutReturn`), since no guard and no property reads what it leaves out.
Once a program is careless the run goes on only from states with a free block, and once it
has crossed another from those with one entry in its list (`CONSTRAINT FewOnceCareless`):
the steps that cross, and those of the others after it, are all there.  *Scheduler*: four tasks are a first, a last and two middle
ones, so both links of a middle neighbour occur.  *Storage*: the read of up to four
bytes crosses one sector boundary and can reach a third sector; the ring of two comes
round; seven commands turn a queue of three twice, so both phases are met again, and
three time-outs overfill the submission queue.  *Input*: three windows give an order
with a middle one; two places make overlap and its absence; five keys on a ring of three
overrun it and go on.  *Files*: three descriptors are an ordinary one, one that another
process holds, and the last one, which is special (`file.c:112`); the volumes have files
of one cluster and of several, directories in one run and in two, deleted items, a chain
through cluster 0xFF7 and clusters that cannot be read.  What the last call answered is
left out of the state (`VIEW`): only the two action properties read it.  *Graphics*: two
windows that overlap, or one with a title bar; regions inside, across and outside;
`Small` keeps the pixels with a key to one graphic, which is where transparency is told
from its absence.  *Boot*: each machine differs from an ordinary one in one respect (the
map of memory, the framebuffer, the buses, the drives, the kernel's size), some in two;
regions end below the first gigabyte, straddle it before, among and after the page tables,
and lie beyond it.
*Programs*: a text of four cells overflows within a few presses and is reallocated, an
int of six bits overflows, the list area is clicked in and below its items.

**Deadlock.**  It is checked except where the system really stops: `Scheduler` (a panic
halts the kernel: `ExitPanics`), `ProcessMemory` (it stops when the heap is `astray`),
`Nvme` (nobody need read again once `MaxCommands` have
been sent; a poll itself always ends), `Files` (a panic in `fopen`), `GraphicsTree`
(every graphic of the run is used up), `Boot` (it ends), `Userland` (a program may
return).

**Fairness.**  `Scheduler`: weak fairness of `Tick`: the timer is programmed once
and keeps firing while a program runs, interrupts being enabled in user mode; of
`Wake(t)`: time passes, and a sleep has a deadline; of `Poll`: it is a loop of the
kernel itself.  Nothing is assumed of programs: they need not sleep, exit or load.
`EveryTaskRuns` says every live process gets the processor again and again; it is worth
checking because the search for the next task gives up at the end of the list
(`task.c:339`) and starts from the head only at the next entry.
`Boot`: weak fairness of `Next`: there is one processor and nothing to take it from
`kernel_main`.  `Userland`: the task of the program gets the processor again and again,
which is what `EveryTaskRuns` shows; it is written as `[]<>Stopped \/ []<><<TRUE>>_v`,
the same as weak fairness of `Next`, whose steps are possible until the program ends.

**Named exceptions in properties that hold.**
`ReadIsExact` excepts a read of less than a sector that crosses a sector boundary
(`streamer.c:284`) and bytes of a sector that could not be read.  `KeysInOrder` ends at
the first overrun of the ring.  The heap's counters are what is used and free up to the
drift that `DriftOnlyByShrinkOrOverrun` confines to two causes.  `AnswerIsOwn` ends at
the first time-out, `CommandsOnceInOrder` at as many time-outs as the queue has room
for.  `HeldIsOwned` is about programs that neither reallocate another's memory nor have
theirs reallocated; `HeldIsMapped` and `CheckAcceptsTheHeld` also leave out the careless,
and the first the framed.  `ForeignPagesWereOwn` says by what causes a program gets at a
page that is not its own.  `EndedNeverRuns`, `RegistersAreOwn` and `EveryTaskRuns` except a program that runs
on after its termination in the middle of a call (`faulted`).  `DescriptorsAreHeld`
excepts the last descriptor number, which is handed out and cannot be closed.
`ReadIsTheFile` excepts chains that lead to cluster 0xFF7, taken for a bad one;
`OpensThePath` directories with deleted items or not in one run, whose last items are
not found.  `ClickHitsTheTopmost` excepts, for the place it tells, a graphic that starts
before its parent; `WindowsLeaveNoTrace` what reaches outside its parent or the screen,
and the move of a window that is transparent somewhere.  `HeapIsUsable` lets the table's
last entry be the heap's first byte (`kheap.c:97`); `HeapIsMapped` excepts the
framebuffer, the guard page and strings copied from programs.  `BootSucceeds` is about
machines with one region of memory large enough, whose table and first blocks lie in the
first gigabyte, and, where there is a PATA controller, a drive behind it that starts the
system.  `TextIsWhatWasEntered` excepts the text that runs on into recycled memory after
its buffer was enlarged, and takes a press or key that lost an event for one that was not
made; `WindowIsCurrent` excepts a text that was cleared, and the focus from the loss of its
events to the next redraw; `SelectionIsTold` a selection whose event was lost.

## What is proved

| Theorem (module) | Property | For all |
|---|---|---|
| `HeapTypes`, `HeapNoOverlap`, `HeapTableMatchesLive` (`ProcessMemoryProofs`) | `TypeOK`, `NoOverlap`, `TableMatchesLive` | pool, slack and request sizes, counter widths |
| `HeapDriftsOnlyByShrinkOrOverrun` (`ProcessMemoryProofs`) | `DriftOnlyByShrinkOrOverrun`, when `Total < Word` | the same |
| `HeapImplementsAllocator` (`ProcessMemoryProofs`) | `AllocatorSpec` | the same |
| `MemoryUsesHeap` (`ProcessMemoryProofs`) | `MemorySpec => Spec` of `Heap` | processes, pools, bounds |
| `MemoryHeldIsOwned` (`ProcessMemoryProofs`) | `HeldIsOwned` | the same |
| `MemoryHeldIsMapped`, `MemoryCheckAcceptsTheHeld`, `MemoryForeignPagesWereOwn` (`ProcessMemoryProofs`) | the same without `Memory` | the same |
| `FilesDescriptorsAreHeld` (`FilesGraphicsProofs`) | `DescriptorsAreHeld` | descriptors, processes |
| `TreeStaysSound` (`FilesGraphicsProofs`) | `TreeIsSound` | graphics, screens, places, sizes and targets, widths of integers |
| `SchedulerFocusExists` (`SchedulerProofs`) | `FocusExists` | processes, tasks, all that programs do |
| `SchedulerListHoldsTheLive`, `SchedulerEndedNeverRuns`, `SchedulerRegistersAreOwn` (`SchedulerProofs`) | the same without `Scheduler`, when `~MiddleExits` | processes, tasks |
| `StreamStaysInPartition` (`StorageProofs`) | `StaysInPartition` | partitions, sector and cache sizes |
| `StreamReadIsExact` (`StorageProofs`) | `ReadIsExact`, when `PlacesAreDistinct` | the same, and positions and lengths |
| `NvmeCompletionsOnceInOrder`, `NvmeCommandsOnceInOrder`, `NvmeAnswerIsOwn`, `NvmeTypes` (`StorageProofs`) | the same without `Nvme`; `TypeOK` | queue sizes above 1, any number of commands |
| `InputKeysInOrder`, `InputTypes` (`InputProofs`) | `KeysInOrder`, `TypeOK` | ring sizes, characters, events |
| `InputWindowsAreOwned`, `InputFocusMovesKeys` (`InputProofs`) | `WindowsAreOwned`, `FocusMovesKeys` | processes, windows, places, numbers of clicks |
| `BootHeapIsMapped` (`BootProofs`) | `HeapIsMapped` | machines, sizes of pages and tables, processes, strings |
| `BootHeapIsUsable` (`BootProofs`) | `HeapIsUsable`, when `RegionsAreShort` | the same |
| `BootDevicesFound`, `BootDisksAreReachable` (`BootProofs`) | `DevicesFound`, `DisksAreReachable`, when `MachinesAreWired` | machines, slots and functions, bridges, drives and their entries |
| `UiAlways` (`UserlandProofs`) | `UiInv`, which the next four rest on | fonts, widths of the window, buffer sizes, elements clicked, keys, recycled memory |
| `TextEntered` (`UserlandProofs`) | `TextIsWhatWasEntered` | the same, and every width of int |
| `NothingStaleShown`, `EverySelectionTold`, `NoPixelOutside` (`UserlandProofs`) | `WindowIsCurrent`, `SelectionIsTold`, `PixelsStayInBuffer` | the same |
| `TextEvaluates` (`GuiProofs`) | `calculator_result` of the parsed text is `Value` of the text, when no division traps | texts of digits and operators, widths of int |
| `VectorIsSound`, `VectorIsList`, `VectorIsSorted` (`UserlandProofs`) | `VectorInv`, `ListSpec`, `ReorderSorts` | elements, growth, reserve, numbers of elements |

All rest on the modules' named assumptions (sizes are natural numbers, special
values differ from ordinary ones) and, where the table says so, on one condition more.
`~MiddleExits` is the condition under which the properties hold at all: let a task end
with neighbours on both sides and the run `scheduler_ended` shows one of them broken.
`Total < Word` says that a `size_t` can count the pool's blocks.
`PlacesAreDistinct` says that the streams' positions stay within 2^32 bytes of the start
of the device: beyond, `diskstreamer_cache_find`, which takes an `int`, looks for two
sectors in one place.  `RegionsAreShort` says that no region of memory is longer than
the cube of a page's size, 64 GB: `kheap_init` leaves the table a byte for each page of
what remains once a byte for each page is taken off, and in a region beyond that more
than the table's last entry may lie in the heap (`kheap.c:97`).  `MachinesAreWired` says
how firmware has set up the buses before the kernel starts: function 0 of a slot exists
if another does and says so, one bridge leads to a bus, the range of a bridge holds the
buses of all bridges that lead into it, and the upper half of a 64-bit register is told
by the lower.  The code counts on it: a bus that two bridges led to would be gone through
twice, and `pci_enable_upstream_path` opens the bridges a device was found through, not
those whose ranges hold its bus.  `MCBoot` has TLC evaluate both conditions for the
machines of the run.  `BootAssumption` and
`KernelMemoryAssumption` hold of the constants in `config.h`: what the loader gives away
and what programs are linked for lies below the heap's table, and the least region with a
heap reaches far enough beyond it; of the kernel's file, that it is no longer than the
15 MB up to there.  `CalculatorAssumption` and `TextfieldAssumption` hold of `int`, of the
window of 400 pixels and of a text field's 128 characters; `ResultFits` says that the
result of an expression, which `itoa` writes into 12 characters, is shorter than those
128, so that a result is never cut.

* **Heap.**  `IInv == TypeOK /\ InBlocks /\ NoOverlap /\ TableMatchesLive`.
  `NoOverlap` alone is not inductive: whether blocks are free is decided from the table,
  so the table must be known to agree with the callers' view, and an allocation that has
  grown past the table must still be known to be within the bytes that exist
  (`InBlocks`).  Each outcome of `heap_realloc` has its own lemma.  The refinement uses
  `IInv`: each step is a step of `BlockPool` or leaves its variables alone.
  `HeapDriftsOnlyByShrinkOrOverrun` counts, call by call, the blocks that are marked and
  unmarked; with exact counters below `Word`, no count wraps.
* **Process memory.**  Every action is a call of `Heap`'s or leaves its variables alone,
  hence `MemoryUsesHeap`, and `IInv` of the heap holds here too.  `MInv == IInv /\ HInv`
  adds that whatever one who is not crossed holds is a live allocation of that size, made
  for it; the effect of malloc and realloc on `live` is stated once each (`MallocEffect`,
  `ReallocEffect`) and used by all callers.  A realloc touches only what was made for the
  caller or for one who is crossed by it, so nobody else's is touched (`NotCrossed`).
* **Lists and pages.**  `PInv == MInv /\ LInv`: for each program that is `Orderly` (it has
  passed realloc nothing but what it holds, and no size 0, and nobody has reallocated its
  memory), its list has no address twice, lists all it holds, each with its
  size, and each entry is memory the heap has given to it; and, unless pixels were mapped
  into it, lists nothing else, and all the pages of what it holds lead to themselves.
  Neither property is inductive without the others: that the entry with a freed address
  has the right size needs that no address is listed twice, that taking its pages away
  leaves the other allocations theirs needs `NoOverlap`, and that a new allocation's
  address is in no entry needs that what is listed is live.  `PutKeeps` is the common
  part of malloc, realloc and the mapping of pixels, `CallOf(q, o)` what a call of `q`'s
  that the heap does to `o`'s memory leaves of the others'.  `ForeignPagesWereOwn` needs none of this but `MInv`: each call is
  shown to keep to its program's own memory (`KeepsToOwn`).
* **Files.**  `FInv` adds to the property the shapes of the table and of the handles: an
  open descriptor is told from a free one by its drive, so it stays open when only its
  position moves.  A new descriptor has the least free number, which is in no handle,
  because every handle is of an open one.
* **Scheduler.**  `TableInv` (the process table names no process twice and nothing but
  tasks, and the process with the focus is in it) is enough for `FocusExists`.  That the
  list is the live tasks needs more, since the code leaves stale pointers behind: ended
  tasks keep theirs, and the first task's `prev` is whatever it was.  `ListInv` therefore
  speaks of a *chain*, a numbering of the live tasks from head to tail along `next` whose
  `prev` agrees from the second on (`Chained`); of the other pointers it says only that
  they are of tasks that have been created (`Links`), which is what keeps a new task from
  being somebody's neighbour already.  `Registers` and `Runs` leave the one case open in
  which a program that was terminated in the middle of its own call goes on.  A task at
  an end of the list leaves a chain, and so does a task appended; each is a lemma about
  chains alone.  `Path`, which walks the list, is a recursive function: that it visits
  the chain in order is shown by the least step at which it would not (`LeastNumber`).
* **Disk stream.**  `DInv` adds to `StaysInPartition` that the places of a read are
  counts: a round never takes more than is left (`AmountIsCount`), so the sectors of a
  read are looked up from its first one on, each against the bounds before the cache is
  filled.  `ReadIsExact` is about the end of a read, so `RInv` says what holds at every
  round (`Good`): the stream stands where what has been copied ends, in the sector the
  loop is at; what is left, when it is less than a sector, lies in one; the bytes so far
  are the disk's unless a sector of the read is lost.  It also needs that a place in the
  cache holds the zeros or the bytes of the one sector whose place it is (`CacheIsDisk`),
  and so that no two sectors have one place (`SlotsAreOwn`): quotients and remainders by
  the sizes of three levels of buckets, taken apart from the top.
* **NVMe.**  The queue of completions is described without a queue: a cell has the
  controller's phase below the controller's place and the other phase above, the
  driver's phase is the controller's exactly when its head has not been overtaken by a
  turn, and the distance between the two places is the number of completions not taken
  (`CompletionShape`).  That gives the first theorem with no assumption on time-outs.
  The other two need counting: every command is taken, given up or polled for, and every
  fetched one is worked on or posted, so the commands not fetched are at most one more
  than the time-outs, and no submission overtakes the controller while those are few.
* **Keys.**  `KInv`: until the overrun the ring holds the keys typed and not read, oldest
  at the head, and no other (`Holds`).
* **Windows.**  `Owning` says that the window list and the screen's children hold the
  windows with a handler, once each, and so do the windows of the running processes taken
  together.  It holds between calls only: inside a creation, or while the windows of a
  process that ends are closed one after another, the window list is ahead of or behind
  the processes', so `Sys(s, V, S)` keeps the two sets apart, `V` of the screen and `S` of
  the processes, and each step of such a call moves one of them.  The process is out of
  the table before its windows are closed, so the vector the loop goes by stays as it is
  while the handlers of each closing look among the running processes; that the loop
  closes them all is shown by the least round at which it would not
  (`Rounds`).  `FocusMovesKeys` follows, since the window a click focuses has one process.
* **Boot.**  `BInv == HeapInv /\ DescInv /\ MapInv`.  `HeapInv` describes the heap by
  `Lies`, what can be said of `Layout` for every region that is long enough: the three
  blocks of `kernel_main` fit, and the table ends at the heap (`LayoutLies`, of quotients
  by the size of a page); and that no second heap is ever accepted (`NoOtherHeap`).
  `HeapIsMapped` is not inductive by itself.  That a page handed out for one purpose is
  not yet in use for another needs the order of the boot: the framebuffer is shown by
  blocks below those still to be handed out, so the guard page is none of them
  (`DescInv`).  That `paging_get` finds a page needs the tables on the way to each
  (`Built`), and that it finds the first entry of each directory, that page 0 is always
  mapped.  A page that a string was copied through keeps its address only because it led
  to itself before (`RestoredShows`), and a program's own pages hide none of the heap's
  because programs lie below it (`ProgramIsLow`).  `RebuiltTakes`, `SpaceKeeps` and
  `TakingKeeps` are the common parts of all steps.
* **Devices and disks.**  `BusInv` says of the search, with `Scanned`, that a function on
  a bus that has been entered either is in the list or is ahead of the frame of its bus
  (`Complete`), that none in the list is ahead of one (`Passed`, so nothing is found
  twice), and that the frames are of different buses, each with the bridge that leads to
  it (`Stacked`).  The bus behind a bridge is new when the bridge is found, since no other
  leads there (`BusIsNew`).  At the end, the buses entered are closed under bridges and
  each has a way from bus 0 in the list, where a parent comes before its children, so
  they are `Buses`, the least closed set (`OpenedAreBuses`).  `DisksInv` adds the way to
  each NVMe disk: going up from the device, each parent is a bridge to be opened or lies
  on a bus in its range, and the list is as long as any way up, so
  `Upstream` reaches all (`UpstreamHas`); what the device needs is what its registers are
  (`NeedsTheKinds`); and later devices only add to the commands (`ReachGrows`).  The
  recursive functions of both are shown to exist by the least number they are not
  defined for.
* **Programs.**  `UiInv` says what there is after so many calls of `main`: the program's
  elements, each where and with the handler `main` gave it, the field and the list of the
  right elements (`Laid`); until the first redraw also that nothing has happened yet
  (`Making`); that events are for elements that exist and that a child stands right after
  its root and has no child itself (`IsUi`), so an event is passed on at most once; and,
  from these, that each handler finds the data it counts on (`Wired`).
  `PixelsStayInBuffer` follows, since an element lies in its root.  The other three each
  need to say what holds while events wait, and then what is left when some of a call's
  pushes are lost (`WaitsLeft`, `TellingLeft`, `EnteringLeft`, `FormLeft`).  *The window* (`CurrentInv`): unless
  a redraw is owed, it shows text and selection as they are, and the focus too or else an
  event waits for the first root, whose handler will ask for the redraw, or was lost; that a marked
  child is drawn needs that its root's mark is never cleared.  *The selection*
  (`TellingInv`): at most one event waits, a click, or the selection the list area has
  made of it, which carries the index it has just set; a lost click changes nothing.  *The calculator*
  (`EnteringInv`): the text is what was entered but for one press that waits, on the
  button it hit, and without that press it is `before`.  That it hit one, the one the user sees, is geometry: seventeen boxes in
  rows and columns that depend on the window's width, no two of which share so much as an
  edge (`BoxesApart`, `ClickOnBox`), for the test for a hit counts the pixel after the
  last.  What the press then does is `PressShows`, button by button, with `TextEvaluates`
  for the equals sign: after k characters the loop's `left` is the value of what stands
  before the last operator, and `number` what stands after it.  *The form*
  (`FormEnteringInv`): only focus events wait, except for the newest event, which is
  handled next, so no key can overtake a change of the focus; a key goes where the focus
  was when it was taken.  Texts are compared with buffers by `Stored`: the buffer
  begins with the text, and what follows is zeros but for recycled memory beyond the
  first 128 characters.
* **Graphics.**  `Good(t, E)` is said of a tree and not of the state, because one step of
  `GraphicsNext` is several calls and each leaves something undone for the next: the
  records are of the type (`TreeShape`); who holds whom agrees from both sides, each
  starts where its parent's place and its own put it but for those in `E`, and every set
  of graphics has one whose parent is outside (`Family`); and the children of each are in
  order, each once (`Rows`).  `TreeInv` is `Good(tree, {})`.  A graphic just made or given
  another z index is out of order among its parent's children (`GoodBut`), and
  `ReorderedRow` puts it back; one that was given another place is in `E`, and
  `RecalculateKeeps` takes it out.  That needs that all below it are reached, that nothing
  else is, and that the recursion has an answer: as no graphic is around itself, one that
  has no place yet but whose parent has is settled next (`AllSettled`).  A free passes
  over every second child, so what it reaches is any set of graphics below the window;
  the rest are still sound, with a parent that is gone (`FreeKeeps`).
* **Vector.**  `VectorInv` is inductive as it stands: counts fit the block, a lost block
  holds nothing known, the sort's counters stay inside.  Under it each call is a step of
  `List` on `Contents`, whether the block moved or not, and an exchange of the sort one
  of neighbours.  `SortInv` adds what the sort has reached: the last `i` elements are in
  their places, and the greatest of this pass is at `j`; at its end that is `Sorted`.

**Only model-checked**: `ReadIsTheFile` and `OpensThePath` of `Files` and
`RegionShowsTheTree`, `ClickHitsTheTopmost` and `WindowsLeaveNoTrace` of `GraphicsTree`,
which are about what recursion over chains of clusters, directories and parts of the
screen computes; and all liveness (`EveryTaskRuns`, `BootSucceeds`, `BootEnds`,
`EventsDrain`). The provers do not handle liveness under fairness, `ENABLED`, or
induction over recursive definitions. Where a proof above needed a recursive function it
is shown to exist by the least number at which it is not defined.

## Where the code departs from what it says

Three runs are counterexamples, each against a comment of the code (`findings`):

1. **Ended tasks run again** (`task.c:106`).  `prev` links are not kept when a neighbour
   ends; a task ended after that is unlinked from a task that no longer exists, stays on
   the list and is run.
2. **A click goes to the older of two overlapping windows** (`window.c:143`): the list
   is sorted by a z-index that nothing sets.
3. **Of two window events the first is lost and the second given twice**
   (`process.c:323`): the index of the next event is never moved.

Others met while modelling are in `hazards` or are exceptions above.  Among them: a
sector that could not be read stays in the cache as zeros (`streamer.c:203`); a program
terminated for a bad pointer goes on to the end of its system call, on the next task's
pages (`process.c:1217`); realloc leaves the pages of what it moved or cut mapped
(`process.c:514`); pixels are mapped 4096 times too far (`process.c:1402`); the
length a system call asks for is never too much (`process.c:1187`); after an NVMe
time-out every answer is one command late (`nvme.c:481`); the heap's counters are
adjusted twice by a shrink (`heap.c:346`); a failed `fopen` of a mounted volume closes
its error code as if it were a pointer (`fs/file.c`); a second region of memory is never
used (`multiheap.c:258`); a realloc of any address is not refused, and
moves or frees what it belongs to, whoever that is (`process.c:500`, `multiheap.c:181`);
page tables are made before the memory they lie in is mapped, if that is above the first
gigabyte (`kernel.c:145`); an event that finds no memory is dropped without a word
(`../programs/guilib/src/gui/event.c:290`), and a text that cannot be enlarged is written
through NULL (`textfield.c:276`); a list area finds the item under a click by the window's
coordinates instead of its own (`listarea.c:231`); a vector that cannot be enlarged forgets
its elements (`lib/vector/vector.c`).

## What is not modelled

Every component is listed in `PROJECT.json` with its status.  Left out on purpose:

* rendering: glyphs, images, the terminal, colours other than transparency;
* byte and string functions, the parsing of boot sectors, ELF headers and short names,
  the scan code table: sequential functions over bytes;
* the calibration of the time stamp counter, the tables of segments and interrupts, the
  words PATA transfers, the bytes of a mouse packet: constants or device input;
* the list of user pointers, the dispatch of system calls, the wrappers programs call
  them through, and the shell;
* the registers r8 to r15, which are neither saved nor restored (`idt/idt.asm:42`): the
  model's registers are one value per task;
* sizes near 2^64 (`heap.c:320`), offsets of 2 GB and more (`streamer.c:161`), the length
  part of the check of a pointer (`process.c:1187`): the models count blocks and sectors;
* running out of kernel memory is modelled where a component handles it (`DiskStream`,
  `ProcessMemory`, `Vector`, `Files`, `KernelMemory`), not inside `window_create`
  (`window.c:688`), and not as the end of all memory that a `kfree` that does nothing
  leads to (`kheap.c:207`);
* the window that `process_print` writes to (`process.c:294`).

## Plan

Done: `Heap` (implements `BlockPool`), `Scheduler`, `DiskStream`, `Windows`,
`ProcessInput`, `ProcessMemory`, `Nvme`, `Vector` (implements `List`), `Fat16` and
`Files`, `GraphicsTree`, the boot (`Loader`, `KernelMemory`, `Pci`, `DiskSearch`,
`Boot`), the programs (`Gui`, `Textfield`, `Calculator`, `Userland`), with the proofs
above.

What is left, in order of what it is worth:

1. **`ContextSwitch`** (`idt.asm`, `task.asm`, `idt.c`): registers by name, which are
   saved and restored on each path; extends `RegistersAreOwn`.
2. The admin commands and failing mounts of `Nvme` by step; byte lengths in
   `ProcessMemory`'s check of pointers; the second pass over paging heaps, once a second
   heap can exist.
3. **`Mouse`** (PS/2 packets with lost bytes) and **`Terminal`** (cursor, wrapping).
4. The headers of ELF files as an algorithm over bounded inputs.

Theorems worth proving next: `ClickHitsTheTopmost` (on `TreeStaysSound`),
`WindowsLeaveNoTrace`, `OpensThePath`.
