----------------------------- MODULE DiskStream -----------------------------
(***************************************************************************)
(* Reading a disk through a stream (disk/streamer.c): the loop over the    *)
(* sectors of a read, the sector cache behind it, the ring that is to keep *)
(* the cache small, and the bounds of the partition (disk/disk.c).         *)
(*                                                                         *)
(* A byte of the disk is <<s, o>>: offset o of sector s of the device.     *)
(* kfree gives nothing back (memory/heap/kheap.c), so a bucket of the      *)
(* cache that was freed keeps its sectors and goes on being used.          *)
(* The file system has several streams on one disk; each seeks before it   *)
(* reads, so one stream that seeks anywhere stands for all.  Nothing runs  *)
(* beside a read: a step is one round of its loop.                         *)
(***************************************************************************)
EXTENDS Integers, Sequences, FiniteSets

CONSTANTS
    SectorSize,      \* bytes in a sector
    BufferSize,      \* DISK_STREAMER_MAX_CACHE_SECTOR_SIZE
    BucketSectors,   \* DISK_STREAM_LEVEL3_SECTORS_ARRAY_SIZE
    Buckets,         \* DISK_STREAM_BUCKET_ARRAY_SIZE
    RingSize,        \* DISK_STREAM_CACHE_ROUNDROBIN_MAX
    IntMax,          \* the largest int
    DeviceSectors,   \* sectors of the device
    StartLba, EndLba,\* disk->starting_lba, disk->ending_lba
    MaxPos,          \* largest position a caller seeks to
    MaxTotal,        \* largest number of bytes a caller reads at once
    CrossingReads,   \* callers may read less than a sector across a boundary
    Failures         \* the device and the allocator may fail

ASSUME DiskStreamAssumption ==
    /\ SectorSize \in Nat \ {0} /\ BufferSize \in Nat /\ SectorSize <= BufferSize
    /\ BucketSectors \in Nat \ {0} /\ Buckets \in Nat \ {0}
    /\ RingSize \in Nat \ {0} /\ IntMax \in Nat /\ DeviceSectors \in Nat
    /\ StartLba \in Nat /\ EndLba \in Nat
    /\ MaxPos \in Nat /\ MaxTotal \in Nat
    /\ CrossingReads \in BOOLEAN /\ Failures \in BOOLEAN

VARIABLES
    cache,           \* cache[slot]: the sector in it, ZEROED or ABSENT
    ring, ringPos,   \* mem_roundrobin: the buckets queued, where the next goes
    count,           \* level3->roundrobin_count
    freed,           \* the buckets that have been freed
    pos,             \* stream->pos
    read,            \* the call of diskstreamer_read under way, or the last one
    got              \* the bytes it has copied out

streamVars == <<cache, ring, ringPos, count, freed, pos, read, got>>

ABSENT == -2         \* no buffer for the sector
ZEROED == -1         \* a buffer as kzalloc returned it
EMPTY  == <<>>       \* an empty slot of the ring
ZERO   == "ZERO"     \* a byte kzalloc cleared
JUNK   == "JUNK"     \* a byte past the end of a buffer

-----------------------------------------------------------------------------
(* The place of a sector in the cache *)

\* disk_real_offset, of sector i of the partition.
disk_real_offset(i) == (StartLba + i) * SectorSize

\* diskstreamer_cache_find takes the offset as an int.
AsInt(n) == ((n + IntMax + 1) % (2 * (IntMax + 1))) - (IntMax + 1)

Level3Size == BucketSectors * SectorSize
Level2Size == Level3Size * Buckets
Level1Size == Level2Size * Buckets

\* The level 3 bucket of an offset.
BucketOf(p) ==
    << p \div Level1Size,
       (p % Level1Size) \div Level2Size,
       ((p % Level1Size) % Level2Size) \div Level3Size >>

\* Mutant of IndexInBucket: divided by the size of the bucket.
IndexInBucket_OfBucket(p) ==
    (((p % Level1Size) % Level2Size) % Level3Size) \div Level3Size

IndexInBucket(p) == (((p % Level1Size) % Level2Size) % Level3Size) \div SectorSize

Bucket(i) == BucketOf(AsInt(disk_real_offset(i)))
Slot(i)   == <<Bucket(i), IndexInBucket(AsInt(disk_real_offset(i)))>>

\* The sectors of the partition that a read within the bounds can touch.
Sectors == 0 .. (MaxPos + MaxTotal + SectorSize - 1) \div SectorSize

\* The arrays have no negative elements.
Indexable(i) == AsInt(disk_real_offset(i)) >= 0

BucketsUsed == {Bucket(i) : i \in {j \in Sectors : Indexable(j)}}
Slots       == {Slot(i) : i \in {j \in Sectors : Indexable(j)}}

-----------------------------------------------------------------------------
(* The disk *)

\* Mutant of InPartition: where the block ends is not looked at.
InPartition_StartOnly(i) ==
    StartLba # 0 /\ EndLba # 0 => StartLba + i <= EndLba

\* disk_read_block lets a read of sector i through.
InPartition(i) ==
    StartLba # 0 /\ EndLba # 0 => StartLba + i + 1 <= EndLba

OnDevice(i) == StartLba + i < DeviceSectors

\* The byte at an offset of a buffer that holds c.
ByteOf(c, o) ==
    CASE o >= BufferSize -> JUNK
      [] o < BufferSize /\ (o >= SectorSize \/ c = ZEROED) -> ZERO
      [] OTHER -> <<c, o>>

\* What the disk has at position p of the partition.
DiskByte(p) == <<StartLba + p \div SectorSize, p % SectorSize>>

-----------------------------------------------------------------------------
(* The calls *)

Idle == read.sector > read.last

StreamInit ==
    /\ cache = [s \in Slots |-> ABSENT]
    /\ ring = [k \in 0 .. RingSize - 1 |-> EMPTY]
    /\ ringPos = 0
    /\ count = [b \in BucketsUsed |-> 0]
    /\ freed = {}
    /\ pos = 0
    /\ read = [from |-> 0, total |-> 0, left |-> 0, sector |-> 0, last |-> -1,
               res |-> "OK"]
    /\ got = <<>>

diskstreamer_seek(p) ==
    /\ Idle
    /\ pos' = p
    /\ UNCHANGED <<cache, ring, ringPos, count, freed, read, got>>

\* A read of less than a sector from p reaches into the next one.
Crossing(p, n) == n < SectorSize /\ (p % SectorSize) + n > SectorSize

\* diskstreamer_read up to its loop.  The loop takes the sector of the first
\* byte to the sector that follows the last byte's: one more than it needs.
diskstreamer_read(n) ==
    /\ Idle
    /\ Crossing(pos, n) => CrossingReads
    /\ read' = [from |-> pos, total |-> n, left |-> n,
                sector |-> pos \div SectorSize,
                last |-> (pos + n + SectorSize - 1) \div SectorSize,
                res |-> "OK"]
    /\ got' = <<>>
    /\ UNCHANGED <<cache, ring, ringPos, count, freed, pos>>

\* The bytes a round of the loop copies.
Amount == IF read.left < SectorSize THEN read.left
          ELSE SectorSize - (pos % SectorSize)

\* The bytes are copied from a buffer that holds c; the next sector is next.
CopyFrom(c) ==
    /\ got' = got \o [k \in 1 .. Amount |-> ByteOf(c, (pos % SectorSize) + k - 1)]
    /\ pos' = pos + Amount
    /\ read' = [read EXCEPT !.left = @ - Amount, !.sector = @ + 1]

\* The read ends with an error.
Fail(error) ==
    /\ read' = [read EXCEPT !.res = error, !.last = read.sector - 1]
    /\ UNCHANGED <<pos, got>>

\* diskstreamer_cache_round_robin_add: the bucket takes the place of the oldest
\* in the ring, which is freed when the ring does not name it again.
diskstreamer_cache_round_robin_add(b) ==
    LET old  == ring[ringPos]
        left == [count EXCEPT ![old] = @ - 1]
    IN  /\ count' = IF old = EMPTY THEN [count EXCEPT ![b] = @ + 1]
                    ELSE [left EXCEPT ![b] = @ + 1]
        /\ freed' = IF old # EMPTY /\ left[old] = 0 THEN freed \cup {old} ELSE freed
        /\ ring' = [ring EXCEPT ![ringPos] = b]
        /\ ringPos' = (ringPos + 1) % RingSize

InLoop == ~Idle /\ Indexable(read.sector)

\* diskstreamer_cache_find returns CACHE_FOUND.
CacheFound ==
    /\ InLoop
    /\ cache[Slot(read.sector)] # ABSENT
    /\ CopyFrom(cache[Slot(read.sector)])
    /\ UNCHANGED <<cache, ring, ringPos, count, freed>>

\* NEW_CACHE_ENTRY: the buffer is in the cache before the disk is read into it.
NewCacheEntry(content) ==
    /\ InLoop
    /\ cache[Slot(read.sector)] = ABSENT
    /\ cache' = [cache EXCEPT ![Slot(read.sector)] = content]
    /\ diskstreamer_cache_round_robin_add(Bucket(read.sector))

ReadBlock ==
    /\ InPartition(read.sector)
    /\ OnDevice(read.sector)
    /\ NewCacheEntry(StartLba + read.sector)
    /\ CopyFrom(StartLba + read.sector)

ReadBlockFails ==
    /\ Failures \/ ~InPartition(read.sector) \/ ~OnDevice(read.sector)
    /\ NewCacheEntry(ZEROED)
    /\ Fail("EIO")

\* There is no memory for a bucket or a buffer.
CacheOutOfMemory ==
    /\ Failures
    /\ InLoop
    /\ cache[Slot(read.sector)] = ABSENT
    /\ Fail("ENOMEM")
    /\ UNCHANGED <<cache, ring, ringPos, count, freed>>

StreamNext ==
    \/ \E p \in 0 .. MaxPos : diskstreamer_seek(p)
    \/ \E n \in 0 .. MaxTotal : pos + n <= MaxPos + MaxTotal /\ diskstreamer_read(n)
    \/ CacheFound
    \/ ReadBlock
    \/ ReadBlockFails
    \/ CacheOutOfMemory

StreamSpec == StreamInit /\ [][StreamNext]_streamVars

-----------------------------------------------------------------------------
(* Properties *)

\* No sector of another partition gets into the cache, whatever is read.
StaysInPartition ==
    StartLba # 0 /\ EndLba # 0 =>
        \A s \in Slots : cache[s] \in {ABSENT, ZEROED} \cup StartLba .. EndLba - 1

Touched == read.from \div SectorSize .. (read.from + read.total - 1) \div SectorSize

\* A read that reports success has copied what is on the disk, from where the
\* stream stood and as much as was asked for.  Two exceptions: a read of less
\* than a sector that crosses into the next one, and a sector that could not
\* be read once, whose buffer stays in the cache.
ReadIsExact ==
    Idle /\ read.res = "OK" /\ read.last >= 0 =>
        \/ Crossing(read.from, read.total)
        \/ \E i \in Touched : cache[Slot(i)] = ZEROED
        \/ got = [k \in 1 .. read.total |-> DiskByte(read.from + k - 1)]
=============================================================================
