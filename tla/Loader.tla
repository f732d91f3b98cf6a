------------------------------- MODULE Loader -------------------------------
(***************************************************************************)
(* The UEFI application that starts the kernel (src/PeachOS.c): it writes  *)
(* down the memory the firmware calls free, reads the kernel's file, moves *)
(* it to its address and jumps there.                                      *)
(*                                                                         *)
(* The firmware knows regions of memory, free or not.  "used" is what the  *)
(* kernel finds in its place: its image and the list of the regions.       *)
(***************************************************************************)
EXTENDS Naturals, Sequences

CONSTANTS
    KernelLocation,    \* PEACHOS_KERNEL_LOCATION
    MapLocation        \* PEACHOS_MEMORY_MAP_TOTAL_ENTRIES_LOCATION, of one page

VARIABLES
    ram,     \* the e820 entries
    used     \* intervals of memory, as [from, to)

loaderVars == <<ram, used>>

CONVENTIONAL == "CONVENTIONAL"    \* EfiConventionalMemory
RESERVED == "RESERVED"

LoaderInit == ram = <<>> /\ used = {}

Interval(from, length) == [from |-> from, to |-> from + length]
Disjoint(i, j) == i.to <= j.from \/ j.to <= i.from

\* AllocatePages at an address: all of it is free and not given away before.
Available(memory, wanted) ==
    /\ \E k \in DOMAIN memory :
          /\ memory[k].type = CONVENTIONAL
          /\ memory[k].base <= wanted.from /\ wanted.to <= memory[k].base + memory[k].length
    /\ \A i \in used : Disjoint(i, wanted)

\* An entry of type 1 is "usable memory".
Usable(r) == [base |-> r.base, length |-> r.length, type |-> 1]

WithRegion(list, r) == IF r.type = CONVENTIONAL THEN Append(list, Usable(r)) ELSE list

\* The free regions, one after the other.
Entries(memory) ==
    LET listed[k \in 0 .. Len(memory)] ==
            IF k = 0 THEN <<>> ELSE WithRegion(listed[k - 1], memory[k])
    IN  listed[Len(memory)]

\* SetupMemoryMaps: with no place for the list nothing is written, and the kernel
\* finds what lies there; UefiMain does not look at the result.
SetupMemoryMaps(memory, page) ==
    LET list == Interval(MapLocation, page)
    IN  /\ Available(memory, list)
        /\ ram' = Entries(memory)
        /\ used' = used \cup {list}

\* The rest of UefiMain, with the file read: the image needs its own place.
LoadKernel(memory, size) ==
    /\ Available(memory, Interval(KernelLocation, size))
    /\ used' = used \cup {Interval(KernelLocation, size)}
    /\ UNCHANGED ram
=============================================================================
