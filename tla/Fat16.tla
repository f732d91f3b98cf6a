------------------------------- MODULE Fat16 -------------------------------
(***************************************************************************)
(* A mounted FAT16 volume, read only: how a path becomes a directory item  *)
(* and how a position in a file becomes a place on the disk.  There is no  *)
(* state: a volume is a record                                             *)
(*                                                                         *)
(*   fat      the table: cluster -> next cluster or mark                   *)
(*   root     the items of the root directory's region                     *)
(*   entries  cluster -> the directory items its bytes read as             *)
(*                                                                         *)
(* An item is a record of name, dir (the directory attribute), first       *)
(* cluster and size; its name may be one of the two marks.  A byte of a    *)
(* file is the place it is read from, <<cluster, offset>>.                 *)
(***************************************************************************)
EXTENDS Integers, Sequences, FiniteSets

CONSTANTS
    ClusterBytes,    \* sectors_per_cluster * sector_size
    ClusterEntries   \* the directory items that fit in a cluster

ASSUME ClustersHoldSomething ==
    ClusterBytes \in Nat \ {0} /\ ClusterEntries \in Nat \ {0}

\* status.h, as the functions return them.
ALL_OK      == 0
EIO         == -1
EINVARG     == -2
EUNIMP      == -7
EOUTOFRANGE == -10

\* The first byte of a name: deleted (0xE5) and no more items (0x00).
DELETED  == "deleted"
END_MARK == "end"

\* What a lookup that finds nothing returns.
MISSING == [name |-> END_MARK, dir |-> FALSE, first |-> 0, size |-> 0]

-----------------------------------------------------------------------------
(* The chains of clusters *)

END_OF_CHAIN == 65528            \* 0xFFF8
RESERVED     == 65520 .. 65526   \* 0xFFF0 to 0xFFF6
BAD_SECTOR   == 4087             \* PEACHOS_FAT16_BAD_SECTOR, 0xFF7

\* fat16_get_fat_entry, as a uint16_t: the -1 of a failed read ends a chain.
fat16_get_fat_entry(volume, cluster) ==
    IF cluster \in DOMAIN volume.fat THEN volume.fat[cluster] ELSE 65535

\* A round of the loop of fat16_get_cluster_for_offset.
NextCluster(volume, cluster) ==
    LET entry == fat16_get_fat_entry(volume, cluster)
    IN  CASE entry >= END_OF_CHAIN -> EOUTOFRANGE
          [] entry \in RESERVED \cup {BAD_SECTOR, 0} -> EIO
          [] OTHER -> entry

\* Mutant of fat16_get_cluster_for_offset: the last byte of a cluster is
\* already looked for in the next one.
fat16_get_cluster_for_offset_Early(volume, first, offset, size) ==
    LET after[n \in 0 .. ((offset + 1) \div size)] ==
            IF n = 0 THEN first
            ELSE LET before == after[n - 1]
                 IN  IF before < 0 THEN before ELSE NextCluster(volume, before)
    IN  after[(offset + 1) \div size]

\* The cluster of the offset in a chain whose clusters hold size units each.
fat16_get_cluster_for_offset(volume, first, offset, size) ==
    LET after[n \in 0 .. (offset \div size)] ==
            IF n = 0 THEN first
            ELSE LET before == after[n - 1]
                 IN  IF before < 0 THEN before ELSE NextCluster(volume, before)
    IN  after[offset \div size]

Smaller(a, b) == IF a < b THEN a ELSE b

\* fat16_read_internal: the read goes on a cluster at a time; the first piece
\* that fails ends it, and what was read before it stays in the buffer.
fat16_read_internal(volume, first, offset, total, size) ==
    LET from[at \in Nat, left \in Nat] ==
            LET cluster == fat16_get_cluster_for_offset(volume, first, at, size)
                part    == Smaller(size - (at % size), left)
            IN  CASE left = 0 -> [res |-> ALL_OK, got |-> <<>>]
                  [] left > 0 /\ cluster < 0 -> [res |-> cluster, got |-> <<>>]
                  [] left > 0 /\ cluster >= 0 /\ cluster \notin DOMAIN volume.entries ->
                        [res |-> EIO, got |-> <<>>]
                  [] OTHER ->
                        LET rest == from[at + part, left - part]
                        IN  [rest EXCEPT !.got =
                                [k \in 1 .. part |-> <<cluster, (at % size) + k - 1>>] \o @]
        all == from[offset, total]
    IN  [all EXCEPT !.res = IF @ < 0 THEN @ ELSE Len(all.got)]

-----------------------------------------------------------------------------
(* Directories *)

\* fat16_get_total_items_for_directory: the items up to the end mark, the
\* deleted ones left out; the stream runs over the disk from sector to sector.
fat16_get_total_items_for_directory(raw) ==
    LET ends == {i \in DOMAIN raw : raw[i].name = END_MARK}
        end  == CHOOSE i \in ends : \A j \in ends : i <= j
    IN  IF ends = {} THEN EIO
        ELSE Cardinality({i \in 1 .. end - 1 : raw[i].name # DELETED})

\* The items that follow each other on the disk from a cluster on.
OnDiskFrom(volume, cluster) ==
    LET top == CHOOSE c \in DOMAIN volume.entries :
                    \A d \in DOMAIN volume.entries : d <= c
        run[c \in Nat] ==
            IF c \notin DOMAIN volume.entries \/ c > top THEN <<>>
            ELSE volume.entries[c] \o run[c + 1]
    IN  run[cluster]

\* fat16_get_root_directory: the region is read whole, the count goes on into
\* the clusters behind it when the region has no end mark.
fat16_get_root_directory(volume) ==
    [total |-> fat16_get_total_items_for_directory(volume.root \o OnDiskFrom(volume, 2)),
     items |-> volume.root]

\* fat16_load_fat_directory: as many items as were counted are read along the
\* chain.  What it frees on the way out it still returns: kfree keeps it.
fat16_load_fat_directory(volume, item) ==
    LET total == fat16_get_total_items_for_directory(OnDiskFrom(volume, item.first))
        read  == fat16_read_internal(volume, item.first, 0,
                                     IF total > 0 THEN total ELSE 0, ClusterEntries)
    IN  [total |-> total,
         items |-> [k \in DOMAIN read.got |->
                        volume.entries[read.got[k][1]][read.got[k][2] + 1]]]

\* Mutant of fat16_find_item_in_directory: the first item is not looked at.
fat16_find_item_in_directory_FromOne(directory, name) ==
    LET hits == {i \in DOMAIN directory.items :
                    i > 1 /\ i <= directory.total /\ directory.items[i].name = name}
    IN  IF hits = {} THEN MISSING
        ELSE directory.items[CHOOSE i \in hits : \A j \in hits : j <= i]

\* fat16_find_item_in_directory: the last of the first total items, deleted
\* ones among them, that has the name.
fat16_find_item_in_directory(directory, name) ==
    LET hits == {i \in DOMAIN directory.items :
                    i <= directory.total /\ directory.items[i].name = name}
    IN  IF hits = {} THEN MISSING
        ELSE directory.items[CHOOSE i \in hits : \A j \in hits : j <= i]

\* fat16_get_directory_entry: part after part of the path.  A part that is
\* missing, or is not a directory and is not the last, leaves nothing.
fat16_get_directory_entry(volume, parts) ==
    LET at[n \in 1 .. Len(parts)] ==
            IF n = 1
            THEN fat16_find_item_in_directory(fat16_get_root_directory(volume), parts[1])
            ELSE IF ~at[n - 1].dir THEN MISSING
            ELSE fat16_find_item_in_directory(
                    fat16_load_fat_directory(volume, at[n - 1]), parts[n])
    IN  at[Len(parts)]

-----------------------------------------------------------------------------
(* What the format says: the reference the functions are checked against *)

\* The clusters of the chain that starts at a cluster, in order.
Chain(volume, first) ==
    LET chain[n \in 0 .. Cardinality(DOMAIN volume.fat)] ==
            IF n = 0 THEN <<first>>
            ELSE LET before == chain[n - 1]
                     next   == volume.fat[before[Len(before)]]
                 IN  IF Len(before) = n /\ next \in DOMAIN volume.fat
                     THEN Append(before, next) ELSE before
    IN  chain[Cardinality(DOMAIN volume.fat)]

\* The bytes of the clusters of a chain.
Bytes(volume, first) ==
    LET chain == Chain(volume, first)
    IN  [k \in 1 .. Len(chain) * ClusterBytes |->
            <<chain[1 + ((k - 1) \div ClusterBytes)], (k - 1) % ClusterBytes>>]

\* The items of a directory, given what its region or its chain holds.
Listed(raw) ==
    {raw[i] : i \in {j \in DOMAIN raw :
        /\ raw[j].name # DELETED
        /\ \A k \in 1 .. j : raw[k].name # END_MARK}}

InChain(volume, first) ==
    LET chain == Chain(volume, first)
    IN  [k \in 1 .. Len(chain) * ClusterEntries |->
            volume.entries[chain[1 + ((k - 1) \div ClusterEntries)]]
                          [1 + ((k - 1) % ClusterEntries)]]

\* The items that a path names, part by part.
ItemsAt(volume, parts) ==
    LET at[n \in 1 .. Len(parts)] ==
            {item \in IF n = 1 THEN Listed(volume.root)
                      ELSE UNION {Listed(InChain(volume, d.first)) :
                                    d \in {e \in at[n - 1] : e.dir}} :
                item.name = parts[n]}
    IN  at[Len(parts)]

\* No directory of the volume holds a deleted item.
NothingDeleted(volume) ==
    /\ \A i \in DOMAIN volume.root : volume.root[i].name # DELETED
    /\ \A c \in DOMAIN volume.entries :
        \A i \in DOMAIN volume.entries[c] : volume.entries[c][i].name # DELETED

\* The directories of the volume go on in the cluster that follows.
InOneRun(volume) ==
    \A item \in Listed(volume.root) \cup
            UNION {Listed(volume.entries[c]) : c \in DOMAIN volume.entries} :
        item.dir =>
            LET chain == Chain(volume, item.first)
            IN  \A k \in 1 .. Len(chain) - 1 : chain[k + 1] = chain[k] + 1
=============================================================================
