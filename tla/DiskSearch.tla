----------------------------- MODULE DiskSearch -----------------------------
(***************************************************************************)
(* How the kernel comes to its disks (disk/driver.c, disk/disk.c,          *)
(* disk/drivers/pata.c and nvme.c, disk/gpt.c): the drivers are            *)
(* registered, each makes a disk of what it finds among the devices, the   *)
(* first disk is looked through for partitions, and the volume with the    *)
(* kernel's name becomes the one that "@:" stands for.                     *)
(*                                                                         *)
(* A drive holds the entries of its partition table, and whether it has    *)
(* one.  An entry is unused, unreadable, or a volume with its label and    *)
(* with the kernel's files or without.  A controller that does not become  *)
(* ready leaves its disk behind, and reading that disk tells nothing.      *)
(***************************************************************************)
EXTENDS Pci

CONSTANTS
    PEACH,     \* PEACHOS_KERNEL_FILESYSTEM_NAME
    UNUSED, UNREADABLE

VARIABLES
    drivers,      \* disk_driver_vec
    asked,        \* devices and drivers that mount_all has been through
    disks,        \* disk_vector
    entry,        \* of the partition table, gpt_mount_partitions reads it next
    primary,      \* primary_fs_disk
    spinning      \* pata_disk_read_sector waits for a drive that is not there

diskVars == <<drivers, asked, disks, entry, primary, spinning>>

PATA == "PATA"
NVME == "NVME"
REAL == "REAL"             \* PEACHOS_DISK_TYPE_REAL
PARTITION == "PARTITION"   \* PEACHOS_DISK_TYPE_PARTITION

NoDrive == [attached |-> FALSE, gpt |-> FALSE, entries |-> <<>>, alive |-> TRUE]

DiskInit ==
    /\ drivers = <<>> /\ asked = 0 /\ disks = <<>>
    /\ entry = 0 /\ primary = 0 /\ spinning = FALSE

\* disk_driver_system_init: neither driver's own start can fail.
disk_driver_system_init ==
    /\ drivers = <<>>
    /\ drivers' = <<PATA, NVME>>
    /\ UNCHANGED <<config, asked, disks, entry, primary, spinning>>

\* disk_create_new: a disk of hardware is its own hardware disk, and only such a
\* one has others.
disk_create_new(driver, type, hardware, at, volume) ==
    LET id == Len(disks) + 1
        hw == IF type = REAL THEN id ELSE hardware
    IN  IF (type = REAL) = (hardware = 0) /\ (type = REAL \/ disks[hw].type = REAL)
        THEN disks' = Append(disks, [driver |-> driver, type |-> type, hardware |-> hw,
                                     at |-> at, volume |-> volume])
        ELSE UNCHANGED disks

\* pata_driver_mount: that there is a controller is enough.
MountPata ==
    /\ drivers # <<>> /\ asked = 0
    /\ asked' = 1
    /\ IF \E i \in DOMAIN found : found[i].class = PATA
       THEN disk_create_new(PATA, REAL, 0, <<>>, UNUSED)
       ELSE UNCHANGED disks
    /\ UNCHANGED <<config, drivers, entry, primary, spinning>>

\* nvme_disk_driver_mount looks at one device after the other.
Device == asked
MountingNvme == drivers # <<>> /\ asked \in 1 .. Len(found)

PassOver ==
    /\ MountingNvme /\ found[Device].class # NVME
    /\ asked' = asked + 1
    /\ UNCHANGED <<config, drivers, disks, entry, primary, spinning>>

\* nvme_disk_driver_mount_for_device: the disk is made before the controller is
\* reset.  The first controller that does not get ready ends the search.
MountNvme(alive) ==
    /\ MountingNvme /\ found[Device].class = NVME
    /\ config' = pci_enable_bus_master(Device)
    /\ disk_create_new(NVME, REAL, 0, found[Device].at, UNUSED)
    /\ asked' = IF alive THEN asked + 1 ELSE Len(found) + 1
    /\ UNCHANGED <<drivers, entry, primary, spinning>>

Mounted == drivers # <<>> /\ asked = Len(found) + 1

\* gpt_init over "drive", the first disk's: the wait for a PATA drive that is not
\* there has no end.  What a controller that is not ready answers is no header.
gpt_init(drive) ==
    /\ Mounted /\ entry = 0 /\ ~spinning
    /\ IF disks = <<>> THEN UNCHANGED spinning /\ entry' = 1
       ELSE /\ spinning' = (disks[1].driver = PATA /\ ~drive.attached)
            /\ entry' = IF drive.gpt /\ drive.alive THEN 1 ELSE Len(drive.entries) + 1
    /\ UNCHANGED <<config, drivers, asked, disks, primary>>

\* Mutant of gpt_mount_partitions: an entry that is not used ends the table.
gpt_mount_partitions_Stops(drive) ==
    /\ entry \in 1 .. Len(drive.entries) /\ ~spinning
    /\ LET e == drive.entries[entry]
       IN  IF e \in {UNREADABLE, UNUSED}
           THEN entry' = Len(drive.entries) + 1 /\ UNCHANGED <<disks, primary>>
           ELSE /\ entry' = entry + 1
                /\ disk_create_new(disks[1].driver, PARTITION, 1, disks[1].at, e)
                /\ primary' = IF e.label = PEACH THEN Len(disks) + 1 ELSE primary
    /\ UNCHANGED <<config, drivers, asked, spinning>>

\* Mutant of gpt_mount_partitions: what cannot be read is read again.
gpt_mount_partitions_Retries(drive) ==
    /\ entry \in 1 .. Len(drive.entries) /\ ~spinning
    /\ LET e == drive.entries[entry]
       IN  IF e = UNREADABLE THEN UNCHANGED <<entry, disks, primary>>
           ELSE IF e = UNUSED THEN entry' = entry + 1 /\ UNCHANGED <<disks, primary>>
           ELSE /\ entry' = entry + 1
                /\ disk_create_new(disks[1].driver, PARTITION, 1, disks[1].at, e)
                /\ primary' = IF e.label = PEACH THEN Len(disks) + 1 ELSE primary
    /\ UNCHANGED <<config, drivers, asked, spinning>>

\* gpt_mount_partitions, an entry at a time: an unused one is passed over, one that
\* cannot be read ends it.  disk_filesystem_mount takes the last volume that has
\* the kernel's name; one without a file system stays a disk.
gpt_mount_partitions(drive) ==
    /\ entry \in 1 .. Len(drive.entries) /\ ~spinning
    /\ LET e == drive.entries[entry]
       IN  IF e = UNREADABLE
           THEN entry' = Len(drive.entries) + 1 /\ UNCHANGED <<disks, primary>>
           ELSE IF e = UNUSED THEN entry' = entry + 1 /\ UNCHANGED <<disks, primary>>
           ELSE /\ entry' = entry + 1
                /\ disk_create_new(disks[1].driver, PARTITION, 1, disks[1].at, e)
                /\ primary' = IF e.label = PEACH THEN Len(disks) + 1 ELSE primary
    /\ UNCHANGED <<config, drivers, asked, spinning>>

Searched(drive) == entry > Len(drive.entries) /\ ~spinning

-----------------------------------------------------------------------------
(* Properties *)

\* Every disk stands for hardware that can be read: its hardware disk is a real
\* one, of the same driver and at the same device, and for an NVMe disk the way
\* through the bridges is open (disk_create_new, pci_enable_bus_master).  The
\* primary volume is one of the first disk's, and bears the kernel's name.
DisksAreReachable ==
    /\ \A i \in DOMAIN disks :
          LET hw == disks[disks[i].hardware]
          IN  /\ hw.type = REAL /\ hw.driver = disks[i].driver /\ hw.at = disks[i].at
              /\ disks[i].type = REAL => disks[i].hardware = i
              /\ hw.driver = NVME =>
                    \E d \in DOMAIN found : found[d].at = hw.at /\ PathOpen(d)
    /\ primary # 0 => /\ disks[primary].type = PARTITION
                      /\ disks[primary].hardware = 1
                      /\ disks[primary].volume.label = PEACH
=============================================================================
