------------------------------- MODULE MCBoot -------------------------------
(* Machines that differ from an ordinary one in one respect each, and a few in two. *)
EXTENDS Boot

Free(base, length) == [base |-> base, length |-> length, type |-> CONVENTIONAL]
Taken(base, length) == [base |-> base, length |-> length, type |-> RESERVED]

\* Pages of 16 bytes: the image may begin at page 1, the list lies in page 3, the
\* table may begin at page 4, and the heap needs 8 pages.
MainRegion(end) == Free(16, end - 16)

Maps == {
    <<MainRegion(1211), Taken(1300, 80)>>,                    \* ends within a page
    <<Free(0, 10), Free(16, 50), Taken(66, 34), Free(100, 1105)>>,  \* holes
    <<MainRegion(624), Free(1024, 640)>>,                     \* a second one; little memory
    <<MainRegion(1248)>>,                                     \* the table meets the heap
    <<Free(0, 10), Free(16, 90)>>,                            \* none is large enough
    <<Free(0, 10), Free(16, 60), Free(2048, 1216)>>,          \* beyond the first tables
    <<Free(0, 10), Free(16, 60), Free(1600, 1216)>>,          \* only the end is beyond
    <<Free(0, 10), Free(16, 60), Free(1820, 1216)>>,          \* page tables are beyond
    <<Free(16, 60), Free(1024, 100), Free(1920, 1216)>>,      \* the fourth block is
    <<Free(0, 10), Free(16, 60), Free(1960, 1216)>>,          \* all but a block and the table
    <<Free(0, 10), Free(16, 60), Free(1152, 800)>>,           \* not from a directory's start
    <<Free(16, 129)>>,                                        \* next to nothing
    <<Free(0, 129)>>,                                         \* no more than the heap's own blocks
    <<Free(16, 40), Free(60, 1140)>>,                         \* no place for the list
    <<Taken(16, 10), Free(26, 1140)>>}                        \* no place for the image
    \cup {<<MainRegion(16 * p)>> : p \in 14 .. 45}            \* too little, by little

Usual == <<Free(0, 10), MainRegion(1216)>>

Framebuffers == {[base |-> 4096, size |-> 48], [base |-> 4096, size |-> 41],
                 [base |-> 4096, size |-> 256]}
Screen == [base |-> 4096, size |-> 48]

Function(class, multi, bars) ==
    [class |-> class, multi |-> multi, bars |-> bars, bridge |-> FALSE,
     secondary |-> 0, subordinate |-> 0, cmd |-> {}]
Bridge(secondary, subordinate) ==
    [class |-> "BRIDGE", multi |-> FALSE, bars |-> [i \in 1 .. 6 |-> NONE], bridge |-> TRUE,
     secondary |-> secondary, subordinate |-> subordinate, cmd |-> {MEM}]

NvmeBars == <<MEM64, HIGH, NONE, NONE, NONE, IO>>
Controller == Function(NVME, FALSE, NvmeBars)
Display == Function("DISPLAY", FALSE, <<MEM, NONE, MEM64, HIGH, NONE, NONE>>)
Ide == Function(PATA, FALSE, <<IO, IO, IO, IO, IO, NONE>>)

\* Bus, slot, function.
Topologies == {
    <<0, 0, 0>> :> Display @@ <<0, 1, 0>> :> Controller,
    <<0, 0, 0>> :> Display @@ <<0, 1, 0>> :> Bridge(1, 2) @@ <<1, 0, 0>> :> Bridge(2, 2)
        @@ <<1, 1, 0>> :> Display @@ <<2, 1, 0>> :> Controller,
    <<0, 0, 0>> :> Bridge(1, 1) @@ <<0, 1, 0>> :> Bridge(2, 2) @@ <<1, 0, 0>> :> Controller
        @@ <<2, 0, 0>> :> Controller,
    <<0, 0, 0>> :> Function("HOST", TRUE, [i \in 1 .. 6 |-> NONE])
        @@ <<0, 0, 1>> :> Ide @@ <<0, 1, 0>> :> Controller,
    <<0, 1, 0>> :> Bridge(0, 0) @@ <<0, 0, 0>> :> Controller @@ <<1, 0, 0>> :> Controller,
    <<0, 0, 0>> :> Display}
OneNvme == <<0, 0, 0>> :> Display @@ <<0, 1, 0>> :> Controller
WithIde == <<0, 0, 0>> :> Function("HOST", TRUE, [i \in 1 .. 6 |-> NONE])
           @@ <<0, 0, 1>> :> Ide @@ <<0, 1, 0>> :> Controller

Volume(label, files) == [label |-> label, files |-> files]
Drives(entries) == [attached |-> TRUE, gpt |-> TRUE, entries |-> entries, alive |-> TRUE]
System == Drives(<<UNUSED, Volume("OTHER", FALSE), Volume(PEACH, TRUE), UNUSED>>)
AllDrives == {
    System,
    [System EXCEPT !.alive = FALSE],
    [System EXCEPT !.gpt = FALSE],
    [System EXCEPT !.attached = FALSE],
    Drives(<<Volume(PEACH, TRUE), UNREADABLE, Volume(PEACH, FALSE)>>),
    Drives(<<UNUSED, UNREADABLE, Volume(PEACH, TRUE)>>),
    Drives(<<Volume(PEACH, TRUE), Volume(PEACH, FALSE)>>),
    Drives(<<Volume("OTHER", TRUE)>>)}

Addresses == {<<>>} \cup {<<b, s, f>> : b \in 0 .. 2, s \in 0 .. 1, f \in 0 .. 1}
Machine(memory, framebuffer, functions, drives) ==
    [memory |-> memory, kernel |-> 20, framebuffer |-> framebuffer,
     functions |-> functions, drives |-> drives]
All(drive) == [a \in Addresses |-> drive]

MachineSet ==
    {Machine(m, Screen, OneNvme, All(System)) : m \in Maps}
    \cup {Machine(Usual, f, OneNvme, All(System)) : f \in Framebuffers}
    \cup {Machine(Usual, Screen, t, All(System)) : t \in Topologies}
    \cup {Machine(Usual, Screen, t, All(d)) : t \in {OneNvme, WithIde}, d \in AllDrives}
    \cup {Machine(Usual, Screen, t, [All(System) EXCEPT ![<<1, 0, 0>>] = d]) :
             t \in Topologies, d \in AllDrives}
    \cup {[Machine(m, Screen, OneNvme, All(System)) EXCEPT !.kernel = k] :
             m \in {Usual, <<Free(0, 64), Free(64, 1150)>>},
             k \in {16, 32, 40}}

\* The theorems about Boot that need it apply to these machines.
ASSUME MachinesAssumption == RegionsAreShort /\ MachinesAreWired
=============================================================================
