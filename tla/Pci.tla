-------------------------------- MODULE Pci --------------------------------
(***************************************************************************)
(* Finding the devices of the machine (io/pci.c): every function of every  *)
(* bus that bridges lead to is looked at once; a driver that takes a       *)
(* device opens the way for its transfers, through the bridges above it.   *)
(*                                                                         *)
(* A function is named by its bus, slot and number.  Of its header there   *)
(* is the class, whether the slot has more functions, the kinds of its     *)
(* base address registers, the bits of its command register and, for a     *)
(* bridge, the buses behind it.  The recursion of pci_scan_bus is a stack  *)
(* of frames, the deepest last.                                            *)
(***************************************************************************)
EXTENDS Naturals, Sequences, SequencesExt, FiniteSets

CONSTANTS
    Slots,    \* of a bus: 32
    Funcs     \* of a slot that has several: 8

ASSUME PciAssumption == Slots \in Nat \ {0} /\ Funcs \in Nat \ {0}

VARIABLES
    config,    \* what answers on the buses: header and command, by function
    found,     \* pci_device_vector
    frames     \* of pci_scan_bus: bus, the function it looks at next, parent

pciVars == <<config, found, frames>>

IO == "IO"         \* I/O space: the bit of a command, the kind of a register
MEM == "MEM"       \* memory space
BME == "BME"       \* bus mastering
MEM64 == "MEM64"   \* a 64-bit register, with
HIGH == "HIGH"     \*   its upper half behind it
NONE == "NONE"

PciInit(functions) == config = functions /\ found = <<>> /\ frames = <<>>

Frame(bus, parent) == [bus |-> bus, slot |-> 0, func |-> 0, parent |-> parent]

\* pci_init
pci_init == frames' = <<Frame(0, 0)>> /\ found' = <<>> /\ UNCHANGED config

\* The function after the one a frame is at: a slot without a function 0 is
\* passed over, and one whose header does not say more has no more than that.
Following(f) ==
    LET at0  == <<f.bus, f.slot, 0>>
        last == IF at0 \in DOMAIN config /\ config[at0].multi THEN Funcs - 1 ELSE 0
    IN  IF f.func < last THEN [f EXCEPT !.func = @ + 1]
        ELSE [f EXCEPT !.slot = @ + 1, !.func = 0]

\* pci_size_bars: what is written down of the registers.  The upper half of a
\* 64-bit one is no register of its own; a bridge has two registers.
Bars(header) ==
    LET count == IF header.bridge THEN 2 ELSE 6
        wide[i \in 1 .. count] ==
            /\ header.bars[i] = MEM64 /\ i < count
            /\ i > 1 => ~wide[i - 1]
    IN  [i \in 1 .. count |->
            [type |-> IF header.bars[i] = IO THEN IO ELSE MEM,
             size |-> header.bars[i] # NONE /\ (i > 1 => ~wide[i - 1]),
             ext  |-> i > 1 /\ wide[i - 1]]]

Leads(header) == header.bridge /\ header.secondary # 0
                 /\ header.secondary <= header.subordinate

Busy == frames # <<>>
Slot == <<Last(frames).bus, Last(frames).slot, Last(frames).func>>

\* Mutant of Present: the parent of what is found is the bridge found last.
Present_LastBridge ==
    LET h == config[Slot]
        bridges == {i \in DOMAIN found : found[i].bridge}
        last == IF bridges = {} THEN 0 ELSE CHOOSE i \in bridges : \A j \in bridges : j <= i
    IN  /\ Busy /\ Slot \in DOMAIN config
        /\ found' = Append(found, [at |-> Slot, class |-> h.class, bars |-> Bars(h),
                                   bridge |-> h.bridge, parent |-> last])
        /\ frames' = Append(Front(frames), Following(Last(frames)))
                     \o (IF Leads(h) THEN <<Frame(h.secondary, Len(found) + 1)>> ELSE <<>>)

\* A function that answers is written down.  While its registers are measured its
\* command is off, and as it was after that; behind a bridge it goes on at once.
Present ==
    LET h == config[Slot]
    IN  /\ Busy /\ Slot \in DOMAIN config
        /\ found' = Append(found, [at |-> Slot, class |-> h.class, bars |-> Bars(h),
                                   bridge |-> h.bridge, parent |-> Last(frames).parent])
        /\ frames' = Append(Front(frames), Following(Last(frames)))
                     \o (IF Leads(h) THEN <<Frame(h.secondary, Len(found) + 1)>> ELSE <<>>)

\* Nothing answers (the vendor reads as ones): the next one.
Absent ==
    /\ Busy /\ Last(frames).slot < Slots /\ Slot \notin DOMAIN config
    /\ frames' = Append(Front(frames), Following(Last(frames)))
    /\ UNCHANGED found

\* The bus is done, and so the bridge that leads to it.
Return ==
    /\ Busy /\ Last(frames).slot = Slots
    /\ frames' = Front(frames)
    /\ UNCHANGED found

\* The record of a device's bridge, of that one's, and so on.
Upstream(d) ==
    LET up[n \in 0 .. Len(found)] ==
            IF n = 0 THEN {found[d].parent} \ {0}
            ELSE up[n - 1] \cup ({found[i].parent : i \in up[n - 1]} \ {0})
    IN  up[Len(found)]

\* Which spaces a device answers in.
Needs(d) == {found[d].bars[i].type :
                i \in {j \in DOMAIN found[d].bars :
                          found[d].bars[j].size /\ ~found[d].bars[j].ext}}

\* Mutant of pci_enable_bus_master: the first bridge is forgotten.
pci_enable_bus_master_NotUp(d) ==
    LET opened == {found[i].at : i \in {d} \cup (Upstream(d) \ {found[d].parent})}
    IN  [a \in DOMAIN config |->
            IF a \in opened THEN [config[a] EXCEPT !.cmd = @ \cup {BME} \cup Needs(d)]
            ELSE config[a]]

\* pci_enable_bus_master and pci_enable_upstream_path
pci_enable_bus_master(d) ==
    LET opened == {found[i].at : i \in {d} \cup Upstream(d)}
    IN  [a \in DOMAIN config |->
            IF a \in opened THEN [config[a] EXCEPT !.cmd = @ \cup {BME} \cup Needs(d)]
            ELSE config[a]]

-----------------------------------------------------------------------------
(* Properties *)

\* The buses that bridges lead to, from bus 0: the smallest set that has it and,
\* with the bus of a bridge, the one behind it.
Buses ==
    LET behind(S) == {config[a].secondary :
                        a \in {x \in DOMAIN config : x[1] \in S /\ Leads(config[x])}}
        all == {0} \cup {config[a].secondary : a \in DOMAIN config}
    IN  {b \in all : \A S \in SUBSET all : 0 \in S /\ behind(S) \subseteq S => b \in S}

\* When the search is over, every function on a bus that can be reached has been
\* written down, once, with the bridge that leads to its bus as its parent (io/pci.c
\* pci_scan_bus: the recursion goes on in the loop it was called from).
DevicesFound ==
    found # <<>> /\ ~Busy =>
        /\ Len(found) = Cardinality({found[i].at : i \in DOMAIN found})
        /\ {found[i].at : i \in DOMAIN found} = {a \in DOMAIN config : a[1] \in Buses}
        /\ \A i \in DOMAIN found :
              IF found[i].parent = 0 THEN found[i].at[1] = 0
              ELSE LET bridge == found[found[i].parent].at
                   IN  Leads(config[bridge]) /\ config[bridge].secondary = found[i].at[1]

\* Transfers of device d pass: it and each bridge on the way master the bus, and
\* all of them answer where the device's registers are (pci_enable_bus_master).
PathOpen(d) ==
    LET way == {a \in DOMAIN config :
                  Leads(config[a]) /\ found[d].at[1] \in config[a].secondary .. config[a].subordinate}
    IN  \A a \in way \cup {found[d].at} :
           /\ BME \in config[a].cmd
           /\ \A i \in DOMAIN config[found[d].at].bars :
                 LET kind == config[found[d].at].bars[i]
                 IN  kind \in {IO, MEM, MEM64} =>
                        (IF kind = IO THEN IO ELSE MEM) \in config[a].cmd
=============================================================================
