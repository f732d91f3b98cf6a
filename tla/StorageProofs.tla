---------------------------- MODULE StorageProofs ----------------------------
(***************************************************************************)
(* Proofs about modules DiskStream and Nvme.                               *)
(*                                                                         *)
(* For every size of sectors, buckets, ring and device, and every          *)
(* partition: a read, wherever it starts and whatever fails on the way,    *)
(* brings no other sector into the cache than one of the partition; and a  *)
(* read that reports success has copied what the disk holds, as far as the *)
(* streams stay within 2^32 bytes.                                         *)
(*                                                                         *)
(* For every size of the queues and every number of commands: commands are *)
(* carried out and answered once, in order, each with its own answer.  The *)
(* inductive invariant IInv has four parts: the type invariant, the shape  *)
(* of the completion queue, the counting of commands, and the shape of the *)
(* submission queue.  The first two need no assumption on time-outs.  The  *)
(* others hold while fewer calls have timed out than the queue has room    *)
(* for: until then no command overtakes the controller.                    *)
(***************************************************************************)
EXTENDS DiskStream, Nvme, FiniteSetTheorems, TLAPS

(***************************************************************************)
(* The disk stream                                                         *)
(***************************************************************************)

-----------------------------------------------------------------------------
(* Division *)

LEMMA QuotientIsCount ==
    ASSUME NEW n \in Nat, NEW d \in Nat \ {0}
    PROVE  n \div d \in Nat /\ n % d \in 0 .. d - 1
  OBVIOUS

LEMMA DivisionParts ==
    ASSUME NEW n \in Nat, NEW d \in Nat \ {0}
    PROVE  n = d * (n \div d) + (n % d)
  OBVIOUS

\* No multiple of d but 0 is less than d.
LEMMA ProductIsLarge ==
    ASSUME NEW d \in Nat \ {0}, NEW m \in Nat \ {0}
    PROVE  d * m >= d
  <1>1. m - 1 \in Nat
    OBVIOUS
  <1>2. d * (m - 1) \in Nat
    BY <1>1
  <1>3. d * m = d * (m - 1) + d
    OBVIOUS
  <1> QED
    BY <1>2, <1>3

LEMMA SameQuotient ==
    ASSUME NEW d \in Nat \ {0}, NEW q \in Nat, NEW a \in Nat,
           NEW r \in 0 .. d - 1, NEW b \in 0 .. d - 1, d * q + r = d * a + b
    PROVE  q = a /\ r = b
  <1>1. ~ (q > a)
    <2>1. SUFFICES ASSUME q > a PROVE FALSE
      OBVIOUS
    <2>2. q - a \in Nat \ {0} /\ d * (q - a) = d * q - d * a
      BY <2>1
    <2>3. d * (q - a) >= d
      BY <2>2, ProductIsLarge
    <2> QED
      BY <2>2, <2>3
  <1>2. ~ (q < a)
    <2>1. SUFFICES ASSUME q < a PROVE FALSE
      OBVIOUS
    <2>2. a - q \in Nat \ {0} /\ d * (a - q) = d * a - d * q
      BY <2>1
    <2>3. d * (a - q) >= d
      BY <2>2, ProductIsLarge
    <2> QED
      BY <2>2, <2>3
  <1> QED
    BY <1>1, <1>2

LEMMA DivisionIsUnique ==
    ASSUME NEW d \in Nat \ {0}, NEW q \in Nat, NEW r \in 0 .. d - 1
    PROVE  (d * q + r) \div d = q /\ (d * q + r) % d = r
  <1>1. PICK n \in Nat : n = d * q + r
    OBVIOUS
  <1>2. n = d * (n \div d) + (n % d) /\ n \div d \in Nat /\ n % d \in 0 .. d - 1
    BY DivisionParts, QuotientIsCount
  <1>3. PICK a \in Nat : a = n \div d
    BY <1>2
  <1>4. PICK b \in 0 .. d - 1 : b = n % d
    BY <1>2
  <1>5. d * q + r = d * a + b
    BY <1>1, <1>2, <1>3, <1>4
  <1>6. q = a /\ r = b
    BY <1>5, SameQuotient
  <1> QED
    BY <1>1, <1>3, <1>4, <1>6

\* What a conversion to int leaves as it was, or makes negative.
LEMMA Signed ==
    ASSUME NEW M \in Nat, NEW n \in 0 .. 2 * M + 1,
           ((n + M + 1) % (2 * (M + 1))) - (M + 1) >= 0
    PROVE  ((n + M + 1) % (2 * (M + 1))) - (M + 1) = n
  <1>1. 2 * (M + 1) \in Nat \ {0}
    OBVIOUS
  <1>2. CASE n <= M
    <2>1. n + M + 1 \in 0 .. 2 * (M + 1) - 1 /\ n + M + 1 = 2 * (M + 1) * 0 + (n + M + 1)
      BY <1>2
    <2>2. (n + M + 1) % (2 * (M + 1)) = n + M + 1
      BY <1>1, <2>1, DivisionIsUnique
    <2> QED
      BY <2>2
  <1>3. CASE n > M
    <2>1. n - M - 1 \in 0 .. 2 * (M + 1) - 1 /\ n + M + 1 = 2 * (M + 1) * 1 + (n - M - 1)
      BY <1>3
    <2>2. (n + M + 1) % (2 * (M + 1)) = n - M - 1
      BY <1>1, <2>1, DivisionIsUnique, SMTT(30)
    <2> QED
      BY <2>2
  <1> QED
    BY <1>2, <1>3

LEMMA DivMonotone ==
    ASSUME NEW d \in Nat \ {0}, NEW m \in Nat, NEW n \in Nat, m <= n
    PROVE  m \div d <= n \div d
  <1>1. /\ m = d * (m \div d) + (m % d) /\ m \div d \in Nat /\ m % d \in 0 .. d - 1
        /\ n = d * (n \div d) + (n % d) /\ n \div d \in Nat /\ n % d \in 0 .. d - 1
    BY DivisionParts, QuotientIsCount
  <1>2. PICK a \in Nat : a = m \div d
    BY <1>1
  <1>3. PICK b \in Nat : b = n \div d
    BY <1>1
  <1>4. ~ (a > b)
    <2>1. SUFFICES ASSUME a > b PROVE FALSE
      OBVIOUS
    <2>2. a - b \in Nat \ {0} /\ d * (a - b) = d * a - d * b
      BY <2>1
    <2>3. d * (a - b) >= d
      BY <2>2, ProductIsLarge
    <2> QED
      BY <1>1, <1>2, <1>3, <2>2, <2>3
  <1> QED
    BY <1>2, <1>3, <1>4

LEMMA SameQuotientRest ==
    ASSUME NEW m \in Nat, NEW n \in Nat, NEW d \in Nat, NEW a \in Nat,
           NEW r \in Nat, NEW s \in Nat, m = d * a + r, n = d * a + s
    PROVE  m - n = r - s
  <1>1. PICK p \in Nat : p = d * a
    OBVIOUS
  <1> QED
    BY <1>1

LEMMA Divided ==
    ASSUME NEW n \in Nat, NEW d \in Nat \ {0}
    PROVE  \E r \in 0 .. d - 1 : r = n % d /\ n = d * (n \div d) + r
  BY DivisionParts, QuotientIsCount

\* Two offsets have the same place in the cache.
SamePlace(p, q, S, L1, L2, L3) ==
    /\ p \div L1 = q \div L1
    /\ (p % L1) \div L2 = (q % L1) \div L2
    /\ ((p % L1) % L2) \div L3 = ((q % L1) % L2) \div L3
    /\ (((p % L1) % L2) % L3) \div S = (((q % L1) % L2) % L3) \div S

\* Two sectors, at x and y, with the same place are one.
LEMMA PlacesDiffer ==
    ASSUME NEW S \in Nat \ {0}, NEW L1 \in Nat \ {0}, NEW L2 \in Nat \ {0}, NEW L3 \in Nat \ {0},
           NEW x \in Nat, NEW y \in Nat, NEW p \in Nat, NEW q \in Nat,
           p = S * x, q = S * y, SamePlace(p, q, S, L1, L2, L3)
    PROVE  x = y
  <1>1. PICK p1 \in 0 .. L1 - 1 : p1 = p % L1 /\ p = L1 * (p \div L1) + p1
    BY Divided
  <1>2. PICK q1 \in 0 .. L1 - 1 : q1 = q % L1 /\ q = L1 * (q \div L1) + q1
    BY Divided
  <1>3. p1 \in Nat /\ q1 \in Nat
    OBVIOUS
  <1>4. PICK p2 \in 0 .. L2 - 1 : p2 = p1 % L2 /\ p1 = L2 * (p1 \div L2) + p2
    BY <1>3, Divided
  <1>5. PICK q2 \in 0 .. L2 - 1 : q2 = q1 % L2 /\ q1 = L2 * (q1 \div L2) + q2
    BY <1>3, Divided
  <1>6. p2 \in Nat /\ q2 \in Nat
    OBVIOUS
  <1>7. PICK p3 \in 0 .. L3 - 1 : p3 = p2 % L3 /\ p2 = L3 * (p2 \div L3) + p3
    BY <1>6, Divided
  <1>8. PICK q3 \in 0 .. L3 - 1 : q3 = q2 % L3 /\ q2 = L3 * (q2 \div L3) + q3
    BY <1>6, Divided
  <1>9. p3 \in Nat /\ q3 \in Nat
    OBVIOUS
  <1>10. PICK p4 \in 0 .. S - 1 : p3 = S * (p3 \div S) + p4
    BY <1>9, Divided
  <1>11. PICK q4 \in 0 .. S - 1 : q3 = S * (q3 \div S) + q4
    BY <1>9, Divided
  <1>12. /\ p \div L1 = q \div L1 /\ p1 \div L2 = q1 \div L2
         /\ p2 \div L3 = q2 \div L3 /\ p3 \div S = q3 \div S
    BY <1>1, <1>2, <1>4, <1>5, <1>7, <1>8 DEF SamePlace
  <1>13. p4 \in Nat /\ q4 \in Nat
    OBVIOUS
  <1>14. p3 - q3 = p4 - q4
    <2>1. PICK a \in Nat : a = p3 \div S
      BY <1>3, <1>6, <1>9, QuotientIsCount
    <2>2. p3 = S * a + p4 /\ q3 = S * a + q4
      BY <1>10, <1>11, <1>12, <2>1
    <2> QED
      BY <1>3, <1>6, <1>9, <1>13, <2>2, SameQuotientRest
  <1>15. p2 - q2 = p3 - q3
    <2>1. PICK a \in Nat : a = p2 \div L3
      BY <1>3, <1>6, <1>9, QuotientIsCount
    <2>2. p2 = L3 * a + p3 /\ q2 = L3 * a + q3
      BY <1>7, <1>8, <1>12, <2>1
    <2> QED
      BY <1>3, <1>6, <1>9, <1>13, <2>2, SameQuotientRest
  <1>16. p1 - q1 = p2 - q2
    <2>1. PICK a \in Nat : a = p1 \div L2
      BY <1>3, <1>6, <1>9, QuotientIsCount
    <2>2. p1 = L2 * a + p2 /\ q1 = L2 * a + q2
      BY <1>4, <1>5, <1>12, <2>1
    <2> QED
      BY <1>3, <1>6, <1>9, <1>13, <2>2, SameQuotientRest
  <1>17. p - q = p1 - q1
    <2>1. PICK a \in Nat : a = p \div L1
      BY <1>3, <1>6, <1>9, QuotientIsCount
    <2>2. p = L1 * a + p1 /\ q = L1 * a + q1
      BY <1>1, <1>2, <1>12, <2>1
    <2> QED
      BY <1>3, <1>6, <1>9, <1>13, <2>2, SameQuotientRest
  <1>18. p + q4 = q + p4
    BY <1>3, <1>6, <1>9, <1>13, <1>14, <1>15, <1>16, <1>17
  <1>19. S * x + q4 = S * y + p4
    BY <1>18
  <1> QED
    BY <1>19, SameQuotient

-----------------------------------------------------------------------------
(* The inductive invariant *)

\* The stream and its read count bytes and sectors from 0.  What is left of a
\* read never falls below nothing: a round takes what is left, or at most a
\* sector of it.
PlacesAreCounts ==
    /\ pos \in Nat
    /\ read.sector \in Nat /\ read.left \in Nat
    /\ \E a, b, c, d, e, f : read = [from |-> a, total |-> b, left |-> c,
                                     sector |-> d, last |-> e, res |-> f]

DInv == DOMAIN cache = Slots /\ StaysInPartition /\ PlacesAreCounts

-----------------------------------------------------------------------------
(* Lemmas *)

\* A round moves on by no more than what is left.
LEMMA AmountIsCount ==
    ASSUME DInv
    PROVE  Amount \in 0 .. read.left
  <1>1. pos % SectorSize \in 0 .. SectorSize - 1
    BY QuotientIsCount, DiskStreamAssumption DEF DInv, PlacesAreCounts
  <1>2. read.left \in Nat /\ SectorSize \in Nat \ {0}
    BY DiskStreamAssumption DEF DInv, PlacesAreCounts
  <1> QED
    BY <1>1, <1>2 DEF Amount

\* Copying keeps the places counts.
LEMMA CopyKeeps ==
    ASSUME DInv, NEW c, CopyFrom(c)
    PROVE  PlacesAreCounts'
  <1>1. Amount \in 0 .. read.left
    BY AmountIsCount
  <1>2. PICK a, b, l, d, e, f : read = [from |-> a, total |-> b, left |-> l,
                                        sector |-> d, last |-> e, res |-> f]
    BY DEF DInv, PlacesAreCounts
  <1>3. l \in Nat /\ d \in Nat /\ pos \in Nat /\ read.left = l
    BY <1>2 DEF DInv, PlacesAreCounts
  <1>4. read' = [from |-> a, total |-> b, left |-> l - Amount, sector |-> d + 1,
                 last |-> e, res |-> f]
    BY <1>2 DEF CopyFrom
  <1>5. pos' = pos + Amount
    BY DEF CopyFrom
  <1>6. l - Amount \in Nat /\ d + 1 \in Nat /\ pos' \in Nat
    BY <1>1, <1>3, <1>5
  <1> QED
    BY <1>4, <1>6 DEF PlacesAreCounts

LEMMA FailKeeps ==
    ASSUME DInv, NEW error, Fail(error)
    PROVE  PlacesAreCounts'
  <1>1. PICK a, b, l, d, e, f : read = [from |-> a, total |-> b, left |-> l,
                                        sector |-> d, last |-> e, res |-> f]
    BY DEF DInv, PlacesAreCounts
  <1>2. read' = [from |-> a, total |-> b, left |-> l, sector |-> d,
                 last |-> read.sector - 1, res |-> error]
    BY <1>1 DEF Fail
  <1>3. l \in Nat /\ d \in Nat /\ pos' \in Nat
    BY <1>1 DEF DInv, PlacesAreCounts, Fail
  <1> QED
    BY <1>2, <1>3 DEF PlacesAreCounts

\* What a new entry of the cache holds is zeros or a sector of the partition.
LEMMA EntryKeeps ==
    ASSUME DInv, NEW c, NewCacheEntry(c),
           StartLba # 0 /\ EndLba # 0 => c \in {ZEROED} \cup StartLba .. EndLba - 1
    PROVE  DOMAIN cache' = Slots /\ StaysInPartition'
  <1> DEFINE slot == Slot(read.sector)
  <1>1. cache' = [cache EXCEPT ![slot] = c]
    BY DEF NewCacheEntry
  <1> HIDE DEF slot
  <1>2. DOMAIN cache' = Slots
    BY <1>1 DEF DInv
  <1>3. \A s \in Slots : cache'[s] = cache[s] \/ cache'[s] = c
    BY <1>1 DEF DInv
  <1> QED
    BY <1>2, <1>3 DEF DInv, StaysInPartition

-----------------------------------------------------------------------------
(* The invariant holds at first and is kept *)

LEMMA StreamInitInv == StreamInit => DInv
  <1> SUFFICES ASSUME StreamInit PROVE DInv
    OBVIOUS
  <1>1. DOMAIN cache = Slots /\ StaysInPartition
    BY DEF StreamInit, StaysInPartition
  <1>2. PlacesAreCounts
    BY DEF StreamInit, PlacesAreCounts
  <1> QED
    BY <1>1, <1>2 DEF DInv

LEMMA StreamNextInv == DInv /\ [StreamNext]_streamVars => DInv'
  <1> SUFFICES ASSUME DInv, [StreamNext]_streamVars PROVE DInv'
    OBVIOUS
  <1>1. ASSUME NEW p \in 0 .. MaxPos, diskstreamer_seek(p) PROVE DInv'
    <2>1. pos' \in Nat /\ UNCHANGED <<cache, read>>
      BY <1>1, DiskStreamAssumption DEF diskstreamer_seek
    <2>2. PlacesAreCounts'
      BY <2>1 DEF DInv, PlacesAreCounts
    <2> QED
      BY <2>1, <2>2 DEF DInv, StaysInPartition
  <1>2. ASSUME NEW n \in 0 .. MaxTotal, diskstreamer_read(n) PROVE DInv'
    <2>1. n \in Nat /\ pos \in Nat
      BY DiskStreamAssumption DEF DInv, PlacesAreCounts
    <2>2. pos \div SectorSize \in Nat
      BY <2>1, QuotientIsCount, DiskStreamAssumption
    <2>3. PlacesAreCounts'
      BY <1>2, <2>1, <2>2 DEF diskstreamer_read, PlacesAreCounts
    <2>4. UNCHANGED cache
      BY <1>2 DEF diskstreamer_read
    <2> QED
      BY <2>3, <2>4 DEF DInv, StaysInPartition
  <1>3. ASSUME CacheFound PROVE DInv'
    <2>1. PlacesAreCounts'
      BY <1>3, CopyKeeps DEF CacheFound
    <2>2. UNCHANGED cache
      BY <1>3 DEF CacheFound
    <2> QED
      BY <2>1, <2>2 DEF DInv, StaysInPartition
  <1>4. ASSUME ReadBlock PROVE DInv'
    <2>1. PlacesAreCounts'
      BY <1>4, CopyKeeps DEF ReadBlock
    <2>2. read.sector \in Nat /\ StartLba \in Nat /\ EndLba \in Nat
      BY DiskStreamAssumption DEF DInv, PlacesAreCounts
    <2>3. StartLba # 0 /\ EndLba # 0 =>
            StartLba + read.sector \in StartLba .. EndLba - 1
      BY <1>4, <2>2 DEF ReadBlock, InPartition
    <2>4. DOMAIN cache' = Slots /\ StaysInPartition'
      BY <1>4, <2>3, EntryKeeps DEF ReadBlock
    <2> QED
      BY <2>1, <2>4 DEF DInv
  <1>5. ASSUME ReadBlockFails PROVE DInv'
    <2>1. PlacesAreCounts'
      BY <1>5, FailKeeps DEF ReadBlockFails
    <2>2. DOMAIN cache' = Slots /\ StaysInPartition'
      BY <1>5, EntryKeeps DEF ReadBlockFails
    <2> QED
      BY <2>1, <2>2 DEF DInv
  <1>6. ASSUME CacheOutOfMemory PROVE DInv'
    <2>1. PlacesAreCounts'
      BY <1>6, FailKeeps DEF CacheOutOfMemory
    <2>2. UNCHANGED cache
      BY <1>6 DEF CacheOutOfMemory
    <2> QED
      BY <2>1, <2>2 DEF DInv, StaysInPartition
  <1>7. ASSUME UNCHANGED streamVars PROVE DInv'
    BY <1>7 DEF streamVars, DInv, StaysInPartition, PlacesAreCounts
  <1> QED
    BY <1>1, <1>2, <1>3, <1>4, <1>5, <1>6, <1>7 DEF StreamNext

-----------------------------------------------------------------------------
(* Theorems *)

\* A stream of a partition (disk/streamer.c over disk_read_block) keeps nothing
\* of another partition in its cache, though its loop asks for a sector more
\* than the read needs, at the partition's end as well.
THEOREM StreamStaysInPartition == StreamSpec => []StaysInPartition
  <1>1. DInv => StaysInPartition
    BY DEF DInv
  <1> QED
    BY StreamInitInv, StreamNextInv, <1>1, PTL DEF StreamSpec

-----------------------------------------------------------------------------
(* Every sector has a place of its own in the cache *)

LastSector == (MaxPos + MaxTotal + SectorSize - 1) \div SectorSize

\* What the streams read lies within 2^32 bytes of the device's start.  Beyond,
\* two sectors share a place: diskstreamer_cache_find takes an int.
PlacesAreDistinct == disk_real_offset(LastSector) <= 2 * IntMax + 1

LEMMA LastSectorIsCount == LastSector \in Nat /\ Sectors = 0 .. LastSector
  <1>1. MaxPos + MaxTotal + SectorSize - 1 \in Nat
    BY DiskStreamAssumption
  <1> QED
    BY <1>1, QuotientIsCount, DiskStreamAssumption DEF LastSector, Sectors

LEMMA ProductGrows ==
    ASSUME NEW a \in Nat, NEW b \in Nat, NEW c \in Nat, a <= b
    PROVE  c * a <= c * b
  <1>1. b - a \in Nat /\ c * (b - a) \in Nat
    OBVIOUS
  <1>2. c * b = c * a + c * (b - a)
    OBVIOUS
  <1> QED
    BY <1>1, <1>2

LEMMA OffsetAsInt ==
    ASSUME PlacesAreDistinct, NEW i \in Sectors, Indexable(i)
    PROVE  /\ AsInt(disk_real_offset(i)) = disk_real_offset(i)
           /\ disk_real_offset(i) \in Nat
           /\ disk_real_offset(i) = SectorSize * (StartLba + i)
  <1>1. i \in Nat /\ LastSector \in Nat /\ i <= LastSector
    BY LastSectorIsCount
  <1>2. StartLba \in Nat /\ SectorSize \in Nat /\ IntMax \in Nat
    BY DiskStreamAssumption
  <1>3. /\ disk_real_offset(i) = SectorSize * (StartLba + i)
        /\ disk_real_offset(LastSector) = SectorSize * (StartLba + LastSector)
    BY <1>1, <1>2 DEF disk_real_offset
  <1>4. SectorSize * (StartLba + i) <= SectorSize * (StartLba + LastSector)
    BY <1>1, <1>2, ProductGrows
  <1>5. SectorSize * (StartLba + i) \in Nat /\ SectorSize * (StartLba + LastSector) \in Nat
    BY <1>1, <1>2
  <1>6. PICK n \in 0 .. 2 * IntMax + 1 : n = disk_real_offset(i)
    BY <1>2, <1>3, <1>4, <1>5 DEF PlacesAreDistinct
  <1>7. AsInt(n) >= 0
    BY <1>6 DEF Indexable
  <1>8. AsInt(n) = n
    BY <1>2, <1>7, Signed DEF AsInt
  <1> QED
    BY <1>2, <1>3, <1>5, <1>6, <1>8

LEMMA LevelsArePositive ==
    /\ SectorSize \in Nat \ {0} /\ Level1Size \in Nat \ {0}
    /\ Level2Size \in Nat \ {0} /\ Level3Size \in Nat \ {0}
  <1>1. \A m, n \in Nat \ {0} : m * n \in Nat \ {0}
    OBVIOUS
  <1>2. SectorSize \in Nat \ {0} /\ BucketSectors \in Nat \ {0} /\ Buckets \in Nat \ {0}
    BY DiskStreamAssumption
  <1>3. Level3Size \in Nat \ {0}
    BY <1>1, <1>2 DEF Level3Size
  <1>4. Level2Size \in Nat \ {0}
    BY <1>1, <1>2, <1>3 DEF Level2Size
  <1>5. Level1Size \in Nat \ {0}
    BY <1>1, <1>2, <1>4 DEF Level1Size
  <1> QED
    BY <1>2, <1>3, <1>4, <1>5

LEMMA SlotsAreOwn ==
    ASSUME PlacesAreDistinct, NEW i \in Sectors, NEW j \in Sectors,
           Indexable(i), Indexable(j), Slot(i) = Slot(j)
    PROVE  i = j
  <1>1. i \in Nat /\ j \in Nat /\ StartLba \in Nat
    BY LastSectorIsCount, DiskStreamAssumption
  <1>2. PICK p \in Nat : /\ p = AsInt(disk_real_offset(i))
                         /\ p = SectorSize * (StartLba + i)
    BY OffsetAsInt
  <1>3. PICK q \in Nat : /\ q = AsInt(disk_real_offset(j))
                         /\ q = SectorSize * (StartLba + j)
    BY OffsetAsInt
  <1>4. BucketOf(p) = BucketOf(q) /\ IndexInBucket(p) = IndexInBucket(q)
    BY <1>2, <1>3 DEF Slot, Bucket
  <1>5. SamePlace(p, q, SectorSize, Level1Size, Level2Size, Level3Size)
    BY <1>4 DEF SamePlace, BucketOf, IndexInBucket
  <1>6. PICK x \in Nat : x = StartLba + i
    BY <1>1
  <1>7. PICK y \in Nat : y = StartLba + j
    BY <1>1
  <1>8. p = SectorSize * x /\ q = SectorSize * y
    BY <1>2, <1>3, <1>6, <1>7
  <1>9. x = y
    BY <1>5, <1>8, LevelsArePositive, PlacesDiffer
  <1> QED
    BY <1>1, <1>6, <1>7, <1>9

-----------------------------------------------------------------------------
(* What a read has copied *)

\* The read's from, total, left, sector, last and res, the position p and the
\* bytes g, over the cache c.  Until its end a read stands where what it has
\* copied ends, in the sector its loop is at; what is left of it when that is
\* less than a sector lies within one; and the bytes are the disk's, unless one
\* of the sectors could not be read.
End(a, b) == (a + b + SectorSize - 1) \div SectorSize
TouchedBy(a, b) == a \div SectorSize .. (a + b - 1) \div SectorSize
Bytes(a, n) == [k \in 1 .. n |-> DiskByte(a + k - 1)]
Lost(a, b, c) == \E i \in TouchedBy(a, b) : Slot(i) \in Slots /\ c[Slot(i)] = ZEROED
Grown(a, b, l, g, c) == Lost(a, b, c) \/ g = Bytes(a, b - l)
Whole(a, b, e, f) == f = "OK" /\ e >= 0 /\ ~Crossing(a, b)

Bounded(a, b, l, e) == l <= b /\ a + b <= MaxPos + MaxTotal /\ e <= End(a, b)

OnTheWay(a, b, l, d, e, p) ==
    /\ e = End(a, b)
    /\ l > 0 => /\ d <= e /\ d = p \div SectorSize
                /\ l < SectorSize => (p % SectorSize) + l <= SectorSize

Good(a, b, l, d, e, f, p, g, c) ==
    /\ Bounded(a, b, l, e)
    /\ d <= e => p = a + (b - l)
    /\ Whole(a, b, e, f) => /\ OnTheWay(a, b, l, d, e, p)
                            /\ Grown(a, b, l, g, c)

CacheIsDisk ==
    \A i \in Sectors : Indexable(i) => cache[Slot(i)] \in {ABSENT, ZEROED, StartLba + i}

ReadIsGood ==
    \E a, b, l, d \in Nat, e \in Int : \E f :
        /\ read = [from |-> a, total |-> b, left |-> l, sector |-> d, last |-> e, res |-> f]
        /\ Good(a, b, l, d, e, f, pos, got, cache)

RInv == DInv /\ CacheIsDisk /\ ReadIsGood

AmountOf(l, p) == IF l < SectorSize THEN l ELSE SectorSize - (p % SectorSize)

LEMMA PlaceInSector ==
    ASSUME NEW p \in Nat
    PROVE  /\ p \div SectorSize \in Nat /\ p % SectorSize \in 0 .. SectorSize - 1
           /\ p = SectorSize * (p \div SectorSize) + (p % SectorSize)
           /\ SectorSize \in Nat \ {0}
  BY QuotientIsCount, DivisionParts, DiskStreamAssumption

LEMMA AmountBounds ==
    ASSUME NEW l \in Nat, NEW p \in Nat
    PROVE  AmountOf(l, p) \in 0 .. l
  <1>1. PICK r \in 0 .. SectorSize - 1 : r = p % SectorSize
    BY PlaceInSector
  <1>2. SectorSize \in Nat \ {0}
    BY DiskStreamAssumption
  <1> QED
    BY <1>1, <1>2 DEF AmountOf

\* The bytes from a buffer that holds the sector at p are the disk's.
LEMMA SectorBytes ==
    ASSUME NEW p \in Nat, NEW k \in Nat, (p % SectorSize) + k < SectorSize
    PROVE  ByteOf(StartLba + (p \div SectorSize), (p % SectorSize) + k) = DiskByte(p + k)
  <1>1. PICK d \in Nat : d = p \div SectorSize
    BY PlaceInSector
  <1>2. PICK r \in 0 .. SectorSize - 1 : r = p % SectorSize
    BY PlaceInSector
  <1>3. p = SectorSize * d + r /\ SectorSize \in Nat \ {0}
    BY <1>1, <1>2, PlaceInSector
  <1>4. PICK o \in 0 .. SectorSize - 1 : o = r + k
    BY <1>2, <1>3
  <1>5. p + k = SectorSize * d + o
    BY <1>3, <1>4
  <1>6. (p + k) \div SectorSize = d /\ (p + k) % SectorSize = o
    BY <1>3, <1>5, DivisionIsUnique
  <1>7. DiskByte(p + k) = <<StartLba + d, o>>
    BY <1>6 DEF DiskByte
  <1>8. /\ o \in Nat /\ o < SectorSize /\ SectorSize <= BufferSize /\ BufferSize \in Nat
        /\ StartLba + d # ZEROED
    BY <1>3, <1>4, DiskStreamAssumption DEF ZEROED
  <1>9. o < BufferSize /\ ~(o >= BufferSize) /\ ~(o >= SectorSize)
    BY <1>3, <1>8
  <1>10. ByteOf(StartLba + d, o) = <<StartLba + d, o>>
    BY <1>8, <1>9 DEF ByteOf
  <1> QED
    BY <1>1, <1>2, <1>4, <1>7, <1>10

\* u is g, of m elements, followed by h, of n.
Joins(u, g, h, m, n) ==
    /\ \A k \in 1 .. m : u[k] = g[k]
    /\ \A k \in 1 .. n : u[m + k] = h[k]

LEMMA Concatenated ==
    ASSUME NEW S, NEW m \in Nat, NEW n \in Nat, NEW g \in [1 .. m -> S], NEW h \in [1 .. n -> S],
           NEW u \in [1 .. m + n -> S], Joins(u, g, h, m, n)
    PROVE  g \o h = u
  <1>1. g \in Seq(S) /\ h \in Seq(S) /\ u \in Seq(S)
    OBVIOUS
  <1>2. Len(g) = m /\ Len(h) = n /\ Len(u) = m + n
    <2>1. DOMAIN g = 1 .. m /\ DOMAIN h = 1 .. n /\ DOMAIN u = 1 .. m + n
      OBVIOUS
    <2> QED
      BY <1>1, <2>1
  <1>3. g \o h \in Seq(S) /\ Len(g \o h) = m + n
    BY <1>1, <1>2
  <1>4. ASSUME NEW k \in 1 .. m + n PROVE (g \o h)[k] = u[k]
    <2>1. CASE k <= m
      BY <1>1, <1>2, <2>1 DEF Joins
    <2>2. CASE k > m
      <3>1. PICK i \in 1 .. n : k = m + i
        <4>1. k - m \in 1 .. n /\ k = m + (k - m)
          BY <2>2
        <4> QED
          BY <4>1
      <3>2. (g \o h)[k] = h[k - m] /\ k - m = i
        BY <1>1, <1>2, <3>1
      <3>3. u[m + i] = h[i]
        BY DEF Joins
      <3> QED
        BY <3>1, <3>2, <3>3
    <2> QED
      BY <2>1, <2>2
  <1>5. PICK v \in Seq(S) : v = g \o h
    BY <1>3
  <1>6. Len(v) = Len(u) /\ \A k \in 1 .. Len(u) : v[k] = u[k]
    BY <1>2, <1>3, <1>4, <1>5
  <1>7. v = u
    BY <1>1, <1>6
  <1> QED
    BY <1>5, <1>7

DiskBytes == {DiskByte(x) : x \in Nat}

LEMMA BytesAre ==
    ASSUME NEW a \in Nat, NEW n \in Nat
    PROVE  /\ Bytes(a, n) \in [1 .. n -> DiskBytes]
           /\ \A k \in 1 .. n : Bytes(a, n)[k] = DiskByte(a + k - 1)
  <1>1. \A k \in 1 .. n : a + k - 1 \in Nat
    OBVIOUS
  <1>2. \A k \in 1 .. n : DiskByte(a + k - 1) \in DiskBytes
    BY <1>1 DEF DiskBytes
  <1> QED
    BY <1>2 DEF Bytes

LEMMA BytesGrow ==
    ASSUME NEW a \in Nat, NEW m \in Nat, NEW n \in Nat
    PROVE  Bytes(a, m) \o Bytes(a + m, n) = Bytes(a, m + n)
  <1>1. a + m \in Nat /\ m + n \in Nat
    OBVIOUS
  <1>2. PICK g \in [1 .. m -> DiskBytes] :
            g = Bytes(a, m) /\ \A k \in 1 .. m : g[k] = DiskByte(a + k - 1)
    BY BytesAre
  <1>3. PICK h \in [1 .. n -> DiskBytes] :
            h = Bytes(a + m, n) /\ \A k \in 1 .. n : h[k] = DiskByte(a + m + k - 1)
    BY <1>1, BytesAre
  <1>4. PICK u \in [1 .. m + n -> DiskBytes] :
            u = Bytes(a, m + n) /\ \A k \in 1 .. m + n : u[k] = DiskByte(a + k - 1)
    BY <1>1, BytesAre
  <1>5. ASSUME NEW k \in 1 .. m PROVE u[k] = g[k]
    BY <1>2, <1>4
  <1>6. ASSUME NEW k \in 1 .. n PROVE u[m + k] = h[k]
    <2>1. m + k \in 1 .. m + n /\ a + (m + k) - 1 = a + m + k - 1
      OBVIOUS
    <2>2. u[m + k] = DiskByte(a + (m + k) - 1)
      BY <1>4, <2>1
    <2> QED
      BY <1>3, <2>1, <2>2
  <1>7. Joins(u, g, h, m, n)
    BY <1>5, <1>6 DEF Joins
  <1>8. g \o h = u
    BY <1>7, Concatenated
  <1> QED
    BY <1>2, <1>3, <1>4, <1>8

\* The bytes of a round, from a buffer that holds x.
Copied(x, p, n) == [k \in 1 .. n |-> ByteOf(x, (p % SectorSize) + k - 1)]

\* The bytes of the sector at p, up to its end at most, are the disk's.
LEMMA CopiedFromDisk ==
    ASSUME NEW p \in Nat, NEW n \in Nat, n > 0 => (p % SectorSize) + n <= SectorSize
    PROVE  Copied(StartLba + (p \div SectorSize), p, n) = Bytes(p, n)
  <1> DEFINE x == StartLba + (p \div SectorSize)
  <1>1. PICK r \in 0 .. SectorSize - 1 : r = p % SectorSize
    BY PlaceInSector
  <1>2. SectorSize \in Nat \ {0}
    BY DiskStreamAssumption
  <1>3. ASSUME NEW k \in 1 .. n
        PROVE  ByteOf(x, (p % SectorSize) + k - 1) = DiskByte(p + k - 1)
    <2>1. PICK j \in Nat : j = k - 1
      OBVIOUS
    <2>2. r + j < SectorSize
      BY <1>1, <1>2, <2>1
    <2>3. (p % SectorSize) + j < SectorSize
      BY <1>1, <2>2
    <2>4. ByteOf(x, (p % SectorSize) + j) = DiskByte(p + j)
      BY <2>3, SectorBytes
    <2>5. r + j = r + k - 1 /\ p + j = p + k - 1
      BY <1>1, <1>2, <2>1
    <2> QED
      BY <1>1, <2>4, <2>5
  <1> QED
    BY <1>3 DEF Copied, Bytes

\* A round over sector d with a buffer that holds x, which leaves cache c2.
RoundOver(d, x, c, c2) ==
    /\ x \in {ZEROED, StartLba + d}
    /\ x = ZEROED => Slot(d) \in Slots /\ c2[Slot(d)] = ZEROED
    /\ \A s \in Slots : c[s] = ZEROED => c2[s] = ZEROED

IsAmount(n, l, p) == n = AmountOf(l, p)
StandsAt(p, a, b, l) == l <= b /\ p = a + (b - l)

\* A round that does not end a read ends at the end of its sector.
LEMMA RoundPlaces ==
    ASSUME NEW a \in Nat, NEW b \in Nat, NEW l \in Nat, NEW d \in Nat, NEW e \in Int,
           NEW p \in Nat, OnTheWay(a, b, l, d, e, p), StandsAt(p, a, b, l),
           NEW n \in Nat, IsAmount(n, l, p)
    PROVE  OnTheWay(a, b, l - n, d + 1, e, p + n)
  <1>1. e = End(a, b) /\ l <= b /\ p = a + (b - l)
    BY DEF OnTheWay, StandsAt
  <1>2. SectorSize \in Nat \ {0}
    BY DiskStreamAssumption
  <1>3. CASE l - n > 0
    <2>1. l >= SectorSize /\ n = SectorSize - (p % SectorSize)
      BY <1>2, <1>3 DEF IsAmount, AmountOf
    <2>2. l > 0
      BY <1>2, <2>1
    <2>3. d = p \div SectorSize
      BY <2>2 DEF OnTheWay
    <2>4. p = SectorSize * d + (p % SectorSize) /\ p % SectorSize \in 0 .. SectorSize - 1
      BY <2>3, PlaceInSector
    <2>5. PICK r \in 0 .. SectorSize - 1 : r = p % SectorSize
      BY <2>4
    <2>6. p + n = SectorSize * (d + 1) + 0
      BY <1>2, <2>1, <2>4, <2>5
    <2>7. (p + n) \div SectorSize = d + 1 /\ (p + n) % SectorSize = 0
      <3>1. PICK q \in Nat : q = d + 1
        OBVIOUS
      <3>2. 0 \in 0 .. SectorSize - 1 /\ p + n = SectorSize * q + 0
        BY <1>2, <2>6, <3>1
      <3>3. (SectorSize * q + 0) \div SectorSize = q /\ (SectorSize * q + 0) % SectorSize = 0
        BY <1>2, <3>2, DivisionIsUnique
      <3> QED
        BY <3>1, <3>2, <3>3
    <2>8. d + 1 <= e
      <3>1. PICK u \in Nat : u = p + n
        OBVIOUS
      <3>2. PICK v \in Nat : v = a + b + SectorSize - 1
        BY <1>2
      <3>3. u <= v
        BY <1>1, <1>2, <1>3, <3>1, <3>2
      <3>4. u \div SectorSize <= v \div SectorSize
        BY <1>2, <3>3, DivMonotone
      <3> QED
        BY <1>1, <2>7, <3>1, <3>2, <3>4 DEF End
    <2>9. l - n < SectorSize => ((p + n) % SectorSize) + (l - n) <= SectorSize
      BY <1>2, <2>7
    <2> QED
      BY <1>1, <2>7, <2>8, <2>9 DEF OnTheWay
  <1> QED
    BY <1>1, <1>3 DEF OnTheWay

\* The sector a read stands in is one it touches.
LEMMA PlaceIsTouched ==
    ASSUME NEW a \in Nat, NEW b \in Nat, NEW l \in Nat, l > 0, l <= b,
           NEW p \in Nat, p = a + (b - l)
    PROVE  p \div SectorSize \in TouchedBy(a, b)
  <1>1. SectorSize \in Nat \ {0}
    BY DiskStreamAssumption
  <1>2. PICK z \in Nat : z = a + b - 1
    OBVIOUS
  <1>3. a <= p /\ p <= z
    BY <1>2
  <1>4. a \div SectorSize <= p \div SectorSize /\ p \div SectorSize <= z \div SectorSize
    BY <1>1, <1>3, DivMonotone
  <1>5. /\ a \div SectorSize \in Nat /\ p \div SectorSize \in Nat
        /\ z \div SectorSize \in Nat
    BY <1>1, QuotientIsCount
  <1> QED
    BY <1>2, <1>4, <1>5 DEF TouchedBy

\* What a round copies makes the bytes of the disk longer, unless the sector is
\* one that could not be read.
LEMMA RoundBytes ==
    ASSUME NEW a \in Nat, NEW b \in Nat, NEW l \in Nat, NEW d \in Nat, NEW e \in Int,
           NEW p \in Nat, OnTheWay(a, b, l, d, e, p), StandsAt(p, a, b, l),
           NEW c, NEW c2, NEW x, RoundOver(d, x, c, c2),
           NEW n \in Nat, IsAmount(n, l, p), NEW g, Grown(a, b, l, g, c)
    PROVE  Grown(a, b, l - n, g \o Copied(x, p, n), c2)
  <1>1. CASE Lost(a, b, c)
    BY <1>1 DEF Grown, Lost, RoundOver
  <1>2. CASE g = Bytes(a, b - l)
    <2>1. SectorSize \in Nat \ {0}
      BY DiskStreamAssumption
    <2>2. n \in 0 .. l
      BY AmountBounds DEF IsAmount
    <2>0. l <= b /\ p = a + (b - l)
      BY DEF StandsAt
    <2>3. CASE l > 0 /\ x = ZEROED
      <3>1. d = p \div SectorSize
        BY <2>3 DEF OnTheWay
      <3>2. d \in TouchedBy(a, b)
        BY <2>3, <2>0, <3>1, PlaceIsTouched
      <3> QED
        BY <2>3, <3>2 DEF Grown, Lost, RoundOver
    <2>4. CASE ~ (l > 0 /\ x = ZEROED)
      <3>1. Copied(x, p, n) = Bytes(p, n)
        <4>1. CASE l > 0
          <5>1. d = p \div SectorSize /\ x = StartLba + d
            BY <2>4, <4>1 DEF OnTheWay, RoundOver
          <5>2. PICK r \in 0 .. SectorSize - 1 : r = p % SectorSize
            BY PlaceInSector
          <5>3. (p % SectorSize) + n <= SectorSize
            <6>1. CASE l < SectorSize
              <7>1. n = l /\ (p % SectorSize) + l <= SectorSize
                BY <4>1, <6>1 DEF OnTheWay, IsAmount, AmountOf
              <7> QED
                BY <7>1
            <6>2. CASE ~ (l < SectorSize)
              <7>1. n = SectorSize - r
                BY <5>2, <6>2 DEF IsAmount, AmountOf
              <7> QED
                BY <2>1, <5>2, <7>1
            <6> QED
              BY <6>1, <6>2
          <5>4. Copied(StartLba + (p \div SectorSize), p, n) = Bytes(p, n)
            BY <5>3, CopiedFromDisk
          <5> QED
            BY <5>1, <5>4
        <4>2. CASE l = 0
          <5>1. n = 0
            BY <2>2, <4>2
          <5> QED
            BY <5>1 DEF Copied, Bytes
        <4> QED
          BY <4>1, <4>2
      <3>2. PICK m \in Nat : m = b - l
        BY <2>0
      <3>3. p = a + m /\ b - (l - n) = m + n
        BY <2>0, <2>2, <3>2
      <3>4. Bytes(a, m) \o Bytes(a + m, n) = Bytes(a, m + n)
        BY BytesGrow, ZenonT(30)
      <3> QED
        BY <1>2, <3>1, <3>2, <3>3, <3>4 DEF Grown
    <2> QED
      BY <2>3, <2>4
  <1> QED
    BY <1>1, <1>2 DEF Grown

LEMMA Round ==
    ASSUME NEW a \in Nat, NEW b \in Nat, NEW l \in Nat, NEW d \in Nat, NEW e \in Int, NEW f,
           NEW p \in Nat, NEW g, NEW c, NEW c2, NEW x,
           Good(a, b, l, d, e, f, p, g, c), d <= e, RoundOver(d, x, c, c2),
           NEW n \in Nat, IsAmount(n, l, p)
    PROVE  /\ l - n \in Nat
           /\ Good(a, b, l - n, d + 1, e, f, p + n, g \o Copied(x, p, n), c2)
  <1>1. n \in 0 .. l
    BY AmountBounds DEF IsAmount
  <1>2. Bounded(a, b, l, e) /\ p = a + (b - l) /\ l <= b /\ StandsAt(p, a, b, l)
    BY DEF Good, Bounded, StandsAt
  <1>3. Bounded(a, b, l - n, e)
    BY <1>1, <1>2 DEF Bounded
  <1>4. p + n = a + (b - (l - n))
    BY <1>1, <1>2
  <1>5. ASSUME Whole(a, b, e, f)
        PROVE  /\ OnTheWay(a, b, l - n, d + 1, e, p + n)
               /\ Grown(a, b, l - n, g \o Copied(x, p, n), c2)
    <2>1. OnTheWay(a, b, l, d, e, p) /\ Grown(a, b, l, g, c)
      BY <1>5 DEF Good, Grown
    <2>2. OnTheWay(a, b, l - n, d + 1, e, p + n)
      BY <1>2, <2>1, RoundPlaces
    <2>3. Grown(a, b, l - n, g \o Copied(x, p, n), c2)
      BY <1>2, <2>1, RoundBytes
    <2> QED
      BY <2>2, <2>3
  <1>6. l - n \in Nat
    BY <1>1
  <1> QED
    BY <1>6, <1>3, <1>4, <1>5, Zenon DEF Good, Grown

-----------------------------------------------------------------------------
(* The steps keep what a read has copied *)

LEMMA SectorIsCounted ==
    ASSUME NEW a \in Nat, NEW b \in Nat, NEW l \in Nat, NEW d \in Nat, NEW e \in Int,
           Bounded(a, b, l, e), d <= e
    PROVE  d \in Sectors
  <1>1. SectorSize \in Nat \ {0} /\ MaxPos \in Nat /\ MaxTotal \in Nat
    BY DiskStreamAssumption
  <1>2. PICK u \in Nat : u = a + b + SectorSize - 1
    BY <1>1
  <1>3. PICK v \in Nat : v = MaxPos + MaxTotal + SectorSize - 1
    BY <1>1
  <1>4. u <= v
    BY <1>1, <1>2, <1>3 DEF Bounded
  <1>5. u \div SectorSize <= v \div SectorSize
    BY <1>1, <1>4, DivMonotone
  <1>6. e <= LastSector
    <2>1. /\ u \div SectorSize = End(a, b) /\ v \div SectorSize = LastSector
          /\ End(a, b) \in Nat /\ LastSector \in Nat
      BY <1>1, <1>2, <1>3, QuotientIsCount DEF End, LastSector
    <2> QED
      BY <1>5, <2>1 DEF Bounded
  <1> QED
    BY <1>6, LastSectorIsCount

\* Where the loop of a read is, a sector that may have a place in the cache.
LEMMA LoopIsAtASector ==
    ASSUME RInv, ~Idle
    PROVE  read.sector \in Sectors
  <1>0. PICK a, b, l, d \in Nat, e \in Int : \E f :
            /\ read = [from |-> a, total |-> b, left |-> l, sector |-> d, last |-> e,
                       res |-> f]
            /\ Good(a, b, l, d, e, f, pos, got, cache)
    BY DEF RInv, ReadIsGood
  <1>1. PICK f :
            /\ read = [from |-> a, total |-> b, left |-> l, sector |-> d, last |-> e,
                       res |-> f]
            /\ Good(a, b, l, d, e, f, pos, got, cache)
    BY <1>0
  <1>2. read.sector = d /\ d <= e
    BY <1>1 DEF Idle
  <1>3. Bounded(a, b, l, e)
    BY <1>1 DEF Good
  <1> QED
    BY <1>2, <1>3, SectorIsCounted

LEMMA CopyIsGood ==
    ASSUME RInv, NEW x, CopyFrom(x), ~Idle, NEW c2, c2 = cache',
           RoundOver(read.sector, x, cache, c2)
    PROVE  ReadIsGood'
  <1>0. PICK a, b, l, d \in Nat, e \in Int : \E f :
            /\ read = [from |-> a, total |-> b, left |-> l, sector |-> d, last |-> e,
                       res |-> f]
            /\ Good(a, b, l, d, e, f, pos, got, cache)
    BY DEF RInv, ReadIsGood
  <1>1. PICK f :
            /\ read = [from |-> a, total |-> b, left |-> l, sector |-> d, last |-> e,
                       res |-> f]
            /\ Good(a, b, l, d, e, f, pos, got, cache)
    BY <1>0
  <1>2. pos \in Nat
    BY DEF RInv, DInv, PlacesAreCounts
  <1>3. PICK n \in Nat : IsAmount(n, l, pos) /\ n = Amount
    <2>1. AmountOf(l, pos) \in Nat
      BY <1>2, AmountBounds
    <2>2. Amount = AmountOf(l, pos)
      BY <1>1 DEF Amount, AmountOf
    <2> QED
      BY <2>1, <2>2 DEF IsAmount
  <1>4. read.sector = d /\ d <= e
    BY <1>1 DEF Idle
  <1>5. read' = [from |-> a, total |-> b, left |-> l - n, sector |-> d + 1, last |-> e,
                 res |-> f]
    BY <1>1, <1>3 DEF CopyFrom
  <1>6. pos' = pos + n /\ got' = got \o Copied(x, pos, n)
    BY <1>3 DEF CopyFrom, Copied
  <1>7. RoundOver(d, x, cache, c2)
    BY <1>4
  <1>8. /\ l - n \in Nat
        /\ Good(a, b, l - n, d + 1, e, f, pos + n, got \o Copied(x, pos, n), c2)
    <2>1. IsAmount(n, l, pos) /\ Good(a, b, l, d, e, f, pos, got, cache) /\ d <= e
      BY <1>1, <1>3, <1>4
    <2> QED
      BY <1>2, <1>7, <2>1, Round
  <1>9. Good(a, b, l - n, d + 1, e, f, pos', got', cache')
    BY <1>6, <1>8
  <1>10. d + 1 \in Nat
    OBVIOUS
  <1> QED
    BY <1>5, <1>8, <1>9, <1>10 DEF ReadIsGood

LEMMA FailIsGood ==
    ASSUME RInv, NEW error, error # "OK", Fail(error), ~Idle
    PROVE  ReadIsGood'
  <1>0. PICK a, b, l, d \in Nat, e \in Int : \E f :
            /\ read = [from |-> a, total |-> b, left |-> l, sector |-> d, last |-> e,
                       res |-> f]
            /\ Good(a, b, l, d, e, f, pos, got, cache)
    BY DEF RInv, ReadIsGood
  <1>1. PICK f :
            /\ read = [from |-> a, total |-> b, left |-> l, sector |-> d, last |-> e,
                       res |-> f]
            /\ Good(a, b, l, d, e, f, pos, got, cache)
    BY <1>0
  <1>2. read.sector = d /\ d <= e
    BY <1>1 DEF Idle
  <1>3. read' = [from |-> a, total |-> b, left |-> l, sector |-> d, last |-> d - 1,
                 res |-> error]
    BY <1>1, <1>2 DEF Fail
  <1>4. Bounded(a, b, l, d - 1)
    <2>1. Bounded(a, b, l, e)
      BY <1>1 DEF Good
    <2>2. SectorSize \in Nat \ {0} /\ a + b + SectorSize - 1 \in Nat
      BY DiskStreamAssumption
    <2>3. End(a, b) \in Nat
      BY <2>2, QuotientIsCount DEF End
    <2> QED
      BY <1>2, <2>1, <2>3 DEF Bounded
  <1>5. d - 1 \in Int /\ ~(d <= d - 1)
    OBVIOUS
  <1>6. Good(a, b, l, d, d - 1, error, pos', got', cache')
    BY <1>4, <1>5 DEF Good, Whole
  <1> QED
    BY <1>3, <1>5, <1>6 DEF ReadIsGood

LEMMA EntryIsDisk ==
    ASSUME PlacesAreDistinct, RInv, NEW x, x \in {ZEROED, StartLba + read.sector},
           NewCacheEntry(x)
    PROVE  /\ ~Idle /\ CacheIsDisk'
           /\ \E c2 : c2 = cache' /\ RoundOver(read.sector, x, cache, c2)
  <1>1. ~Idle /\ Indexable(read.sector) /\ cache[Slot(read.sector)] = ABSENT
    BY DEF NewCacheEntry, InLoop
  <1>2. PICK d \in Sectors : d = read.sector
    BY <1>1, LoopIsAtASector
  <1>3. Slot(d) \in Slots /\ Indexable(d)
    BY <1>1, <1>2 DEF Slots
  <1>4. DOMAIN cache = Slots
    BY DEF RInv, DInv
  <1>5. PICK c2 : c2 = cache' /\ c2 = [cache EXCEPT ![Slot(d)] = x]
    BY <1>2 DEF NewCacheEntry
  <1>6. c2[Slot(d)] = x /\ \A s \in Slots : s # Slot(d) => c2[s] = cache[s]
    BY <1>3, <1>4, <1>5
  <1>7. ASSUME NEW i \in Sectors, Indexable(i)
        PROVE  cache'[Slot(i)] \in {ABSENT, ZEROED, StartLba + i}
    <2>1. Slot(i) \in Slots
      BY <1>7 DEF Slots
    <2>2. CASE Slot(i) = Slot(d)
      <3>1. i = d
        BY <1>3, <1>7, <2>2, SlotsAreOwn
      <3> QED
        BY <1>2, <1>5, <1>6, <3>1
    <2>3. CASE Slot(i) # Slot(d)
      <3>1. cache'[Slot(i)] = cache[Slot(i)]
        BY <1>5, <1>6, <2>1, <2>3
      <3> QED
        BY <1>7, <3>1 DEF RInv, CacheIsDisk
    <2> QED
      BY <2>2, <2>3
  <1>8. RoundOver(d, x, cache, c2)
    <2>1. \A s \in Slots : cache[s] = ZEROED => c2[s] = ZEROED
      BY <1>1, <1>2, <1>6 DEF ABSENT, ZEROED
    <2> QED
      BY <1>2, <1>3, <1>6, <2>1 DEF RoundOver
  <1> QED
    BY <1>1, <1>2, <1>5, <1>7, <1>8 DEF CacheIsDisk

LEMMA SeekIsGood ==
    ASSUME RInv, NEW p \in 0 .. MaxPos, diskstreamer_seek(p)
    PROVE  CacheIsDisk' /\ ReadIsGood'
  <1>0. PICK a, b, l, d \in Nat, e \in Int : \E f :
            /\ read = [from |-> a, total |-> b, left |-> l, sector |-> d, last |-> e,
                       res |-> f]
            /\ Good(a, b, l, d, e, f, pos, got, cache)
    BY DEF RInv, ReadIsGood
  <1>1. PICK f :
            /\ read = [from |-> a, total |-> b, left |-> l, sector |-> d, last |-> e,
                       res |-> f]
            /\ Good(a, b, l, d, e, f, pos, got, cache)
    BY <1>0
  <1>2. ~(d <= e)
    BY <1>1 DEF diskstreamer_seek, Idle
  <1>3. Good(a, b, l, d, e, f, p, got, cache)
    BY <1>1, <1>2 DEF Good, OnTheWay
  <1>4. pos' = p /\ UNCHANGED <<cache, read, got>>
    BY DEF diskstreamer_seek
  <1>5. ReadIsGood'
    BY <1>1, <1>3, <1>4 DEF ReadIsGood
  <1> QED
    BY <1>4, <1>5 DEF RInv, CacheIsDisk

LEMMA ReadStartsGood ==
    ASSUME RInv, NEW n \in 0 .. MaxTotal, pos + n <= MaxPos + MaxTotal, diskstreamer_read(n)
    PROVE  CacheIsDisk' /\ ReadIsGood'
  <1>1. PICK a \in Nat : a = pos
    BY DEF RInv, DInv, PlacesAreCounts
  <1>2. n \in Nat /\ SectorSize \in Nat \ {0}
    BY DiskStreamAssumption
  <1>3. PICK d \in Nat : d = a \div SectorSize
    BY PlaceInSector
  <1>4. PICK e \in Nat : e = End(a, n)
    <2>1. a + n + SectorSize - 1 \in Nat
      BY <1>2
    <2> QED
      BY <1>2, <2>1, QuotientIsCount DEF End
  <1>5. d <= e
    <2>1. PICK v \in Nat : v = a + n + SectorSize - 1
      BY <1>2
    <2>2. a <= v
      BY <1>2, <2>1
    <2>3. a \div SectorSize <= v \div SectorSize
      BY <1>2, <2>2, DivMonotone
    <2> QED
      BY <1>3, <1>4, <2>1, <2>3 DEF End
  <1>6. /\ read' = [from |-> a, total |-> n, left |-> n, sector |-> d, last |-> e,
                    res |-> "OK"]
        /\ UNCHANGED <<cache, pos>> /\ got' = <<>>
    BY <1>1, <1>3, <1>4 DEF diskstreamer_read, End
  <1>7. Bounded(a, n, n, e)
    BY <1>1, <1>2, <1>4 DEF Bounded
  <1>8. a = a + (n - n)
    BY <1>2
  <1>9. ~Crossing(a, n) => OnTheWay(a, n, n, d, e, a)
    <2>1. PICK r \in 0 .. SectorSize - 1 : r = a % SectorSize
      BY PlaceInSector
    <2>2. ~Crossing(a, n) /\ n < SectorSize => (a % SectorSize) + n <= SectorSize
      BY <1>2, <2>1 DEF Crossing
    <2> QED
      BY <1>3, <1>4, <1>5, <2>2 DEF OnTheWay
  <1>10. <<>> = Bytes(a, n - n)
    <2>1. n - n = 0
      BY <1>2
    <2>2. <<>> = Bytes(a, 0)
      BY DEF Bytes
    <2> QED
      BY <2>1, <2>2
  <1>11. Good(a, n, n, d, e, "OK", a, <<>>, cache)
    BY <1>7, <1>8, <1>9, <1>10 DEF Good, Whole, Grown
  <1>12. Good(a, n, n, d, e, "OK", pos', got', cache')
    BY <1>1, <1>6, <1>11
  <1>13. ReadIsGood'
    <2>1. e \in Int
      OBVIOUS
    <2> QED
      BY <1>2, <1>6, <1>12, <2>1 DEF ReadIsGood
  <1> QED
    BY <1>6, <1>13 DEF RInv, CacheIsDisk

LEMMA FoundIsGood ==
    ASSUME RInv, CacheFound
    PROVE  CacheIsDisk' /\ ReadIsGood'
  <1>1. ~Idle /\ Indexable(read.sector) /\ cache[Slot(read.sector)] # ABSENT
    BY DEF CacheFound, InLoop
  <1>2. PICK d \in Sectors : d = read.sector
    BY <1>1, LoopIsAtASector
  <1>3. Slot(d) \in Slots
    BY <1>1, <1>2 DEF Slots
  <1>4. PICK x : x = cache[Slot(d)]
    OBVIOUS
  <1>5. x \in {ZEROED, StartLba + d}
    BY <1>1, <1>2, <1>4 DEF RInv, CacheIsDisk
  <1>6. RoundOver(read.sector, x, cache, cache)
    BY <1>2, <1>3, <1>4, <1>5 DEF RoundOver
  <1>7. CopyFrom(x) /\ cache = cache'
    BY <1>2, <1>4 DEF CacheFound
  <1>8. ReadIsGood'
    BY <1>1, <1>6, <1>7, CopyIsGood
  <1> QED
    BY <1>7, <1>8 DEF RInv, CacheIsDisk

LEMMA StreamInitGood == StreamInit => RInv
  <1> SUFFICES ASSUME StreamInit PROVE RInv
    OBVIOUS
  <1>1. CacheIsDisk
    BY DEF StreamInit, CacheIsDisk, Slots
  <1>2. Good(0, 0, 0, 0, -1, "OK", pos, got, cache)
    <2>1. Bounded(0, 0, 0, -1)
      <3>1. 0 + 0 + SectorSize - 1 \in Nat /\ SectorSize \in Nat \ {0}
        BY DiskStreamAssumption
      <3>2. End(0, 0) \in Nat
        BY <3>1, QuotientIsCount DEF End
      <3> QED
        BY <3>2, DiskStreamAssumption DEF Bounded
    <2> QED
      BY <2>1 DEF Good, Whole
  <1>3. read = [from |-> 0, total |-> 0, left |-> 0, sector |-> 0, last |-> -1, res |-> "OK"]
    BY DEF StreamInit
  <1>4. ReadIsGood
    <2>1. 0 \in Nat /\ -1 \in Int
      OBVIOUS
    <2> QED
      BY <1>2, <1>3, <2>1 DEF ReadIsGood
  <1> QED
    BY <1>1, <1>4, StreamInitInv DEF RInv

LEMMA StreamNextGood ==
    ASSUME PlacesAreDistinct
    PROVE  RInv /\ [StreamNext]_streamVars => RInv'
  <1> SUFFICES ASSUME RInv, [StreamNext]_streamVars PROVE CacheIsDisk' /\ ReadIsGood'
    BY StreamNextInv DEF RInv
  <1>1. CASE \E p \in 0 .. MaxPos : diskstreamer_seek(p)
    BY <1>1, SeekIsGood
  <1>2. CASE \E n \in 0 .. MaxTotal : pos + n <= MaxPos + MaxTotal /\ diskstreamer_read(n)
    BY <1>2, ReadStartsGood
  <1>3. CASE CacheFound
    BY <1>3, FoundIsGood
  <1>4. ASSUME ReadBlock PROVE CacheIsDisk' /\ ReadIsGood'
    <2>1. PICK x : x = StartLba + read.sector /\ NewCacheEntry(x) /\ CopyFrom(x)
      BY <1>4 DEF ReadBlock
    <2>2. PICK c2 : c2 = cache' /\ RoundOver(read.sector, x, cache, c2)
      BY <2>1, EntryIsDisk
    <2>3. ~Idle /\ CacheIsDisk'
      BY <2>1, EntryIsDisk
    <2> QED
      BY <2>1, <2>2, <2>3, CopyIsGood
  <1>5. ASSUME ReadBlockFails PROVE CacheIsDisk' /\ ReadIsGood'
    <2>1. NewCacheEntry(ZEROED) /\ Fail("EIO")
      BY <1>5 DEF ReadBlockFails
    <2>2. ~Idle /\ CacheIsDisk'
      BY <2>1, EntryIsDisk
    <2> QED
      BY <2>1, <2>2, FailIsGood
  <1>6. ASSUME CacheOutOfMemory PROVE CacheIsDisk' /\ ReadIsGood'
    <2>1. ~Idle /\ Fail("ENOMEM") /\ UNCHANGED cache
      BY <1>6 DEF CacheOutOfMemory, InLoop
    <2> QED
      BY <2>1, FailIsGood DEF RInv, CacheIsDisk
  <1>7. CASE UNCHANGED streamVars
    BY <1>7 DEF streamVars, RInv, CacheIsDisk, ReadIsGood
  <1> QED
    BY <1>1, <1>2, <1>3, <1>4, <1>5, <1>6, <1>7 DEF StreamNext

LEMMA GoodIsExact == RInv => ReadIsExact
  <1> SUFFICES ASSUME RInv, Idle, read.res = "OK", read.last >= 0,
                      ~Crossing(read.from, read.total)
               PROVE  \/ \E i \in Touched : cache[Slot(i)] = ZEROED
                      \/ got = [k \in 1 .. read.total |-> DiskByte(read.from + k - 1)]
    BY DEF ReadIsExact
  <1>0. PICK a, b, l, d \in Nat, e \in Int : \E f :
            /\ read = [from |-> a, total |-> b, left |-> l, sector |-> d, last |-> e,
                       res |-> f]
            /\ Good(a, b, l, d, e, f, pos, got, cache)
    BY DEF RInv, ReadIsGood
  <1>1. PICK f :
            /\ read = [from |-> a, total |-> b, left |-> l, sector |-> d, last |-> e,
                       res |-> f]
            /\ Good(a, b, l, d, e, f, pos, got, cache)
    BY <1>0
  <1>2. Whole(a, b, e, f) /\ ~(d <= e)
    BY <1>1 DEF Whole, Idle
  <1>3. OnTheWay(a, b, l, d, e, pos) /\ Grown(a, b, l, got, cache)
    BY <1>1, <1>2 DEF Good
  <1>4. l = 0
    BY <1>2, <1>3 DEF OnTheWay
  <1>5. b - l = b
    BY <1>4
  <1>6. Lost(a, b, cache) \/ got = Bytes(a, b)
    BY <1>3, <1>5 DEF Grown
  <1>7. Touched = TouchedBy(a, b)
    BY <1>1 DEF Touched, TouchedBy
  <1>8. read.from = a /\ read.total = b
    BY <1>1
  <1> QED
    BY <1>6, <1>7, <1>8 DEF Lost, Bytes

\* A read through a stream (disk/streamer.c) that reports success, wherever it
\* starts and however long it is, and whatever was read, cached, queued and
\* freed before, has copied what is on the disk: unless it is short and crosses
\* a sector's end, or one of its sectors once could not be read.
THEOREM StreamReadIsExact ==
    ASSUME PlacesAreDistinct
    PROVE  StreamSpec => []ReadIsExact
  <1>1. RInv /\ [StreamNext]_streamVars => RInv'
    BY StreamNextGood
  <1> QED
    BY StreamInitGood, <1>1, GoodIsExact, PTL DEF StreamSpec
-----------------------------------------------------------------------------
(***************************************************************************)
(* The queues of the NVMe driver                                           *)
(***************************************************************************)

-----------------------------------------------------------------------------
(* The inductive invariant *)

Unread == posted - taken

\* The controller's place is ahead of the driver's by the completions not taken,
\* which carry their numbers; a cell has the phase of the controller's turn below
\* its place and of the turn before from there on.
CompletionShape ==
    /\ Unread \in 0 .. Size - 1
    /\ cqTail = After(head, Unread)
    /\ \A c \in Cells : cq[c].phase = IF c < cqTail THEN cqPhase ELSE 1 - cqPhase
    /\ phase = IF head <= cqTail THEN cqPhase ELSE 1 - cqPhase
    /\ \A i \in 0 .. Unread - 1 : cq[After(head, i)].nr = taken + 1 + i

\* Each command sent is answered, given up, or being polled for.
Accounted == taken + timeouts = sent - (IF stage = POLLING THEN 1 ELSE 0)

\* Each command fetched is worked on or completed.
WorkCounted ==
    /\ IsFiniteSet(work)
    /\ work \subseteq 1 .. fetched
    /\ posted + Cardinality(work) = fetched

\* Before the first time-out the one command under way is the last one sent.
OwnAnswer ==
    timeouts = 0 =>
        /\ work \subseteq {sent}
        /\ \A i \in 0 .. Unread - 1 :
              /\ cq[After(head, i)].of = sent
              /\ cq[After(head, i)].status = 0 => sent \in done
        /\ stage = IDLE /\ result = OK => sent \in done

SubmissionShape ==
    FewTimeouts =>
        /\ WorkCounted
        /\ sent - fetched \in 0 .. Size - 1
        /\ tail = After(sqHead, sent - fetched)
        /\ \A i \in 0 .. sent - fetched - 1 : sq[After(sqHead, i)] = fetched + 1 + i

IInv == TypeOK /\ CompletionShape /\ Accounted /\ SubmissionShape /\ OwnAnswer

-----------------------------------------------------------------------------
(* The invariant holds at first and is kept *)

LEMMA NvmeInitInv == Init => IInv
  <1> SUFFICES ASSUME Init PROVE IInv
    OBVIOUS
  <1> USE NvmeAssumption
  <1>1. TypeOK
    BY DEF Init, TypeOK, Cells, NONE, OK, EIO, ETIMEOUT, IDLE, POLLING
  <1>2. CompletionShape
    BY DEF Init, CompletionShape, Unread, Cells, After
  <1>3. Accounted
    BY DEF Init, Accounted, IDLE, POLLING
  <1>4. SubmissionShape
    <2>1. IsFiniteSet({}) /\ Cardinality({}) = 0
      BY FS_EmptySet
    <2>2. WorkCounted
      BY <2>1 DEF Init, WorkCounted
    <2> QED
      BY <2>2 DEF Init, SubmissionShape, After
  <1>5. OwnAnswer
    BY DEF Init, OwnAnswer, Unread, OK, NONE
  <1> QED
    BY <1>1, <1>2, <1>3, <1>4, <1>5 DEF IInv

\* The numbers a step compares are integers.
LEMMA NvmeNumbers ==
    ASSUME TypeOK
    PROVE  /\ sent \in Nat /\ taken \in Nat /\ posted \in Nat /\ fetched \in Nat
           /\ timeouts \in Nat /\ head \in 0 .. Size - 1 /\ cqTail \in 0 .. Size - 1
           /\ tail \in 0 .. Size - 1 /\ sqHead \in 0 .. Size - 1
           /\ phase \in {0, 1} /\ cqPhase \in {0, 1} /\ Size \in Nat /\ Size > 1
  BY NvmeAssumption DEF TypeOK, Cells

\* The phase at the head tells whether there is a completion to take.
LEMMA NvmePhaseTells ==
    ASSUME TypeOK, CompletionShape
    PROVE  /\ Answered <=> Unread # 0
           /\ Unread # 0 => cq[head].nr = taken + 1
  <1>n. /\ taken \in Nat /\ posted \in Nat /\ head \in 0 .. Size - 1
        /\ cqPhase \in {0, 1} /\ Size \in Nat /\ Size > 1 /\ head \in Cells
    BY NvmeNumbers DEF TypeOK
  <1>1. /\ cq[head].phase = IF head < cqTail THEN cqPhase ELSE 1 - cqPhase
        /\ phase = IF head <= cqTail THEN cqPhase ELSE 1 - cqPhase
    BY <1>n DEF CompletionShape
  <1>2. Unread \in 0 .. Size - 1 /\ cqTail = After(head, Unread)
    BY DEF CompletionShape
  <1>3. head = cqTail <=> Unread = 0
    BY <1>2, <1>n DEF After
  <1>4. Answered <=> head # cqTail
    BY <1>1, <1>2, <1>n DEF Answered, After
  <1>5. Unread # 0 => cq[head].nr = taken + 1
    <2> SUFFICES ASSUME Unread # 0 PROVE cq[head].nr = taken + 1
      OBVIOUS
    <2>1. 0 \in 0 .. Unread - 1 /\ After(head, 0) = head
      BY <1>2, <1>n DEF After
    <2>2. cq[After(head, 0)].nr = taken + 1 + 0
      BY <2>1 DEF CompletionShape
    <2> QED
      BY <2>1, <2>2, <1>n
  <1> QED
    BY <1>3, <1>4, <1>5

\* Every step keeps the type invariant.
LEMMA NvmeStepTypes == TypeOK /\ [Next]_vars => TypeOK'
  <1> SUFFICES ASSUME TypeOK, [Next]_vars PROVE TypeOK'
    OBVIOUS
  <1>n. Size \in Nat /\ Size > 1
    BY NvmeAssumption
  <1>a. \A c \in Cells : After(c, 1) \in Cells
    BY NvmeAssumption DEF After, Cells
  <1>1. CASE Submit
    BY <1>1, <1>a DEF Submit, TypeOK, controller
  <1>2. CASE TakeAnswer
    <2>1. Flipped \in {0, 1}
      BY DEF Flipped, TypeOK
    <2>2. head' \in Cells /\ taken' \in Nat /\ stage' = IDLE
      BY <1>2, <1>a DEF TakeAnswer, TypeOK
    <2>3. result' \in {OK, EIO}
      BY <1>2 DEF TakeAnswer
    <2> QED
      BY <1>2, <2>1, <2>2, <2>3 DEF TakeAnswer, TypeOK, controller
  <1>3. CASE TimeOut
    BY <1>3 DEF TimeOut, TypeOK, controller, ETIMEOUT
  <1>4. CASE Fetch
    BY <1>4, <1>a DEF Fetch, TypeOK, driver
  <1>5. CASE \E c \in work, status \in {0, 1} : Complete(c, status)
    <2> PICK c \in work, status \in {0, 1} : Complete(c, status)
      BY <1>5
    <2>1. c \in Nat
      BY DEF TypeOK
    <2>2. [phase |-> cqPhase, status |-> status, of |-> c, nr |-> posted + 1]
             \in [phase : {0, 1}, status : {0, 1}, of : Nat, nr : Nat]
      BY <2>1 DEF TypeOK
    <2>3. cq' \in [Cells -> [phase : {0, 1}, status : {0, 1}, of : Nat, nr : Nat]]
      BY <2>2 DEF Complete, TypeOK
    <2>4. cqTail' \in Cells /\ cqPhase' \in {0, 1} /\ posted' \in Nat
      BY <1>a DEF Complete, TypeOK
    <2>5. work' \subseteq Nat /\ done' \subseteq Nat
      BY <2>1 DEF Complete, TypeOK
    <2> QED
      BY <2>3, <2>4, <2>5 DEF Complete, TypeOK, driver
  <1>6. CASE UNCHANGED vars
    BY <1>6 DEF vars, driver, controller, TypeOK
  <1> QED
    BY <1>1, <1>2, <1>3, <1>4, <1>5, <1>6 DEF Next

\* The shape of the completion queue is kept: only the driver's taking of an answer
\* and the controller's posting of one touch it.
LEMMA NvmeStepCompletion ==
    TypeOK /\ CompletionShape /\ [Next]_vars => CompletionShape'
  <1> SUFFICES ASSUME TypeOK, CompletionShape, [Next]_vars PROVE CompletionShape'
    OBVIOUS
  <1>n. /\ taken \in Nat /\ posted \in Nat
        /\ head \in 0 .. Size - 1 /\ cqTail \in 0 .. Size - 1
        /\ phase \in {0, 1} /\ cqPhase \in {0, 1} /\ Size \in Nat /\ Size > 1
    BY NvmeNumbers
  <1>h. head \in Cells /\ cqTail \in Cells
    BY DEF TypeOK
  <1>1. CASE UNCHANGED <<cq, head, phase, taken, cqTail, cqPhase, posted>>
    BY <1>1 DEF CompletionShape, Unread, Cells, After
  <1>2. CASE TakeAnswer
    <2>u. /\ head' = After(head, 1) /\ taken' = taken + 1 /\ phase' = Flipped
          /\ cq' = cq /\ cqTail' = cqTail /\ cqPhase' = cqPhase /\ posted' = posted
      BY <1>2 DEF TakeAnswer, controller
    <2>1. Unread # 0
      BY <1>2, NvmePhaseTells DEF TakeAnswer
    <2>2. Unread' = Unread - 1 /\ Unread \in 1 .. Size - 1
      BY <2>1, <2>u, <1>n DEF Unread, CompletionShape
    <2>3. cqTail' = After(head', Unread')
      <3>1. After(After(head, 1), Unread - 1) = After(head, Unread)
        BY <2>2, <1>n DEF After
      <3> QED
        BY <3>1, <2>2, <2>u DEF CompletionShape
    <2>4. phase' = IF head' <= cqTail' THEN cqPhase' ELSE 1 - cqPhase'
      <3>1. cqTail = IF head + Unread >= Size THEN head + Unread - Size ELSE head + Unread
        BY DEF CompletionShape, After
      <3>2. phase = IF head <= cqTail THEN cqPhase ELSE 1 - cqPhase
        BY DEF CompletionShape
      <3>3. head' = IF head + 1 >= Size THEN 0 ELSE head + 1
        BY <2>u, <1>n DEF After
      <3>4. phase' = IF head + 1 >= Size THEN 1 - phase ELSE phase
        BY <2>u DEF Flipped
      <3> QED
        BY <3>1, <3>2, <3>3, <3>4, <2>2, <2>u, <1>n
    <2>5. \A i \in 0 .. Unread' - 1 : cq'[After(head', i)].nr = taken' + 1 + i
      <3> SUFFICES ASSUME NEW i \in 0 .. Unread' - 1
                   PROVE  cq'[After(head', i)].nr = taken' + 1 + i
        OBVIOUS
      <3>1. i + 1 \in 0 .. Unread - 1 /\ i \in 0 .. Size - 1
        BY <2>2, <1>n
      <3>2. After(head', i) = After(head, i + 1)
        BY <3>1, <2>u, <1>n DEF After
      <3>3. cq[After(head, i + 1)].nr = taken + 1 + (i + 1)
        BY <3>1 DEF CompletionShape
      <3> QED
        BY <3>1, <3>2, <3>3, <2>u, <1>n
    <2>6. \A c \in Cells : cq'[c].phase = IF c < cqTail' THEN cqPhase' ELSE 1 - cqPhase'
      BY <2>u DEF CompletionShape
    <2>7. Unread' \in 0 .. Size - 1
      BY <2>2, <1>n
    <2> QED
      BY <2>3, <2>4, <2>5, <2>6, <2>7 DEF CompletionShape
  <1>3. CASE \E c \in work, status \in {0, 1} : Complete(c, status)
    <2> PICK c \in work, status \in {0, 1} : Complete(c, status)
      BY <1>3
    <2> DEFINE entry == [phase |-> cqPhase, status |-> status, of |-> c, nr |-> posted + 1]
    <2>u. /\ cq' = [cq EXCEPT ![cqTail] = entry]
          /\ cqTail' = After(cqTail, 1)
          /\ cqPhase' = IF cqTail + 1 >= Size THEN 1 - cqPhase ELSE cqPhase
          /\ posted' = posted + 1
          /\ head' = head /\ phase' = phase /\ taken' = taken
          /\ After(cqTail, 1) # head
      BY DEF Complete, driver
    <2>q. /\ cq'[cqTail] = entry
          /\ \A d \in Cells : d # cqTail => cq'[d] = cq[d]
      BY <2>u, <1>h DEF TypeOK
    <2>t. cqTail = After(head, Unread) /\ Unread \in 0 .. Size - 1
      BY DEF CompletionShape
    <2>1. Unread' = Unread + 1 /\ Unread' \in 0 .. Size - 1
      <3>1. Unread # Size - 1
        BY <2>u, <2>t, <1>n DEF After
      <3> QED
        BY <3>1, <2>u, <2>t, <1>n DEF Unread
    <2>2. cqTail' = After(head', Unread')
      BY <2>1, <2>t, <2>u, <1>n DEF After
    <2>3. ASSUME NEW d \in Cells
          PROVE  cq'[d].phase = IF d < cqTail' THEN cqPhase' ELSE 1 - cqPhase'
      <3>1. cq[d].phase = IF d < cqTail THEN cqPhase ELSE 1 - cqPhase
        BY DEF CompletionShape
      <3>2. cq'[d].phase = IF d = cqTail THEN cqPhase ELSE cq[d].phase
        BY <2>q
      <3>3. d \in 0 .. Size - 1
        BY DEF Cells
      <3>4. cqTail' = IF cqTail + 1 >= Size THEN 0 ELSE cqTail + 1
        BY <2>u, <1>n DEF After
      <3> QED
        BY <3>1, <3>2, <3>3, <3>4, <2>u, <1>n
    <2>4. phase' = IF head' <= cqTail' THEN cqPhase' ELSE 1 - cqPhase'
      <3>1. phase = IF head <= cqTail THEN cqPhase ELSE 1 - cqPhase
        BY DEF CompletionShape
      <3>2. cqTail' = IF cqTail + 1 >= Size THEN 0 ELSE cqTail + 1
        BY <2>u, <1>n DEF After
      <3> QED
        BY <3>1, <3>2, <2>u, <1>n
    <2>5. ASSUME NEW i \in 0 .. Unread' - 1
          PROVE  cq'[After(head', i)].nr = taken' + 1 + i
      <3>1. i \in 0 .. Unread
        BY <2>1, <2>t, <1>n
      <3>2. CASE i = Unread
        <4>1. cq'[After(head, i)].nr = posted + 1
          BY <3>2, <2>t, <2>q
        <4>2. posted + 1 = taken + 1 + i
          BY <3>2, <1>n DEF Unread
        <4> QED
          BY <4>1, <4>2, <2>u
      <3>3. CASE i # Unread
        <4>1. i \in 0 .. Unread - 1
          BY <3>1, <3>3, <2>t, <1>n
        <4>2. After(head, i) \in Cells /\ After(head, i) # cqTail
          BY <4>1, <2>t, <1>n DEF After, Cells
        <4>3. cq[After(head, i)].nr = taken + 1 + i
          BY <4>1 DEF CompletionShape
        <4> QED
          BY <4>2, <4>3, <2>q, <2>u
      <3> QED
        BY <3>2, <3>3
    <2> QED
      BY <2>1, <2>2, <2>3, <2>4, <2>5 DEF CompletionShape
  <1> QED
    BY <1>1, <1>2, <1>3
       DEF Next, Submit, TimeOut, Fetch, vars, driver, controller

\* Each command is accounted for.
LEMMA NvmeStepAccounted == TypeOK /\ Accounted /\ [Next]_vars => Accounted'
  BY NvmeNumbers
     DEF Accounted, Next, Submit, TakeAnswer, TimeOut, Fetch, Complete,
         vars, driver, controller, IDLE, POLLING

\* While few calls have timed out, a command not fetched yet is at most one more
\* than the calls that have.
LEMMA NvmeFewUnfetched ==
    ASSUME TypeOK, CompletionShape, Accounted, SubmissionShape, FewTimeouts
    PROVE  /\ Cardinality(work) \in Nat
           /\ taken <= posted /\ posted <= fetched
           /\ stage = IDLE => sent - fetched <= timeouts /\ sent - posted <= timeouts
           /\ sent - fetched <= timeouts + 1
  <1>1. Cardinality(work) \in Nat
    BY FS_CardinalityType DEF SubmissionShape, WorkCounted
  <1>2. posted + Cardinality(work) = fetched /\ posted - taken >= 0
    BY NvmeNumbers DEF SubmissionShape, WorkCounted, CompletionShape, Unread
  <1>3. taken + timeouts = sent - (IF stage = POLLING THEN 1 ELSE 0)
    BY DEF Accounted
  <1> QED
    BY <1>1, <1>2, <1>3, NvmeNumbers DEF IDLE, POLLING

\* The shape of the submission queue is kept.
LEMMA NvmeStepSubmission ==
    TypeOK /\ CompletionShape /\ Accounted /\ SubmissionShape /\ [Next]_vars
      => SubmissionShape'
  <1> SUFFICES ASSUME TypeOK, CompletionShape, Accounted, SubmissionShape, [Next]_vars,
                      FewTimeouts'
               PROVE  (/\ WorkCounted
                       /\ sent - fetched \in 0 .. Size - 1
                       /\ tail = After(sqHead, sent - fetched)
                       /\ \A i \in 0 .. sent - fetched - 1 :
                             sq[After(sqHead, i)] = fetched + 1 + i)'
    BY DEF SubmissionShape
  <1>n. /\ sent \in Nat /\ fetched \in Nat /\ timeouts \in Nat /\ posted \in Nat
        /\ tail \in 0 .. Size - 1 /\ sqHead \in 0 .. Size - 1 /\ Size \in Nat /\ Size > 1
    BY NvmeNumbers
  <1>f. FewTimeouts
    BY <1>n DEF FewTimeouts, Next, Submit, TakeAnswer, TimeOut, Fetch, Complete,
                vars, driver, controller
  <1>s. /\ WorkCounted
        /\ sent - fetched \in 0 .. Size - 1
        /\ tail = After(sqHead, sent - fetched)
        /\ \A i \in 0 .. sent - fetched - 1 : sq[After(sqHead, i)] = fetched + 1 + i
    BY <1>f DEF SubmissionShape
  <1>t. timeouts <= Size - 2
    BY <1>f, <1>n DEF FewTimeouts
  <1>1. CASE Submit
    <2>u. /\ sq' = [sq EXCEPT ![tail] = sent + 1] /\ tail' = After(tail, 1)
          /\ sent' = sent + 1 /\ fetched' = fetched /\ sqHead' = sqHead
          /\ work' = work /\ posted' = posted /\ stage = IDLE
      BY <1>1 DEF Submit, controller
    <2>1. sent - fetched \in 0 .. Size - 2
      BY <1>f, <1>t, <1>s, <1>n, <2>u, NvmeFewUnfetched
    <2>2. tail' = After(sqHead', sent' - fetched')
      <3>1. After(After(sqHead, sent - fetched), 1) = After(sqHead, sent - fetched + 1)
        BY <2>1, <1>n DEF After
      <3>2. sent' - fetched' = sent - fetched + 1
        BY <2>u, <1>n
      <3> QED
        BY <3>1, <3>2, <2>u, <1>s
    <2>3. ASSUME NEW i \in 0 .. sent' - fetched' - 1
          PROVE  sq'[After(sqHead', i)] = fetched' + 1 + i
      <3>1. i \in 0 .. sent - fetched
        BY <2>u, <2>1, <1>n
      <3>2. CASE i = sent - fetched
        <4>1. After(sqHead, i) = tail /\ tail \in Cells
          BY <3>2, <1>s DEF TypeOK
        <4>2. sq'[tail] = sent + 1
          BY <4>1, <2>u DEF TypeOK
        <4> QED
          BY <4>1, <4>2, <3>2, <2>u, <1>n
      <3>3. CASE i # sent - fetched
        <4>1. i \in 0 .. sent - fetched - 1
          BY <3>1, <3>3, <2>1, <1>n
        <4>2. After(sqHead, i) \in Cells /\ After(sqHead, i) # After(sqHead, sent - fetched)
          BY <4>1, <2>1, <1>n DEF After, Cells
        <4>3. sq'[After(sqHead, i)] = sq[After(sqHead, i)]
          BY <4>2, <2>u, <1>s DEF TypeOK
        <4> QED
          BY <4>1, <4>3, <1>s, <2>u
      <3> QED
        BY <3>2, <3>3
    <2>4. WorkCounted'
      BY <1>s, <2>u DEF WorkCounted
    <2>5. sent' - fetched' \in 0 .. Size - 1
      BY <2>1, <2>u, <1>n
    <2> QED
      BY <2>2, <2>3, <2>4, <2>5
  <1>2. CASE Fetch
    <2>u. /\ work' = work \cup {sq[sqHead]} /\ fetched' = sq[sqHead]
          /\ sqHead' = After(sqHead, 1) /\ sqHead # tail
          /\ sq' = sq /\ tail' = tail /\ sent' = sent /\ posted' = posted
      BY <1>2 DEF Fetch, driver
    <2>1. sent - fetched \in 1 .. Size - 1
      BY <2>u, <1>s, <1>n DEF After
    <2>2. sq[sqHead] = fetched + 1
      <3>1. 0 \in 0 .. sent - fetched - 1 /\ After(sqHead, 0) = sqHead
        BY <2>1, <1>n DEF After
      <3> QED
        BY <3>1, <1>s, <1>n
    <2>3. sent' - fetched' = sent - fetched - 1 /\ sent' - fetched' \in 0 .. Size - 1
      BY <2>1, <2>2, <2>u, <1>n
    <2>4. tail' = After(sqHead', sent' - fetched')
      <3>1. After(After(sqHead, 1), sent - fetched - 1) = After(sqHead, sent - fetched)
        BY <2>1, <1>n DEF After
      <3> QED
        BY <3>1, <2>3, <2>u, <1>s
    <2>5. ASSUME NEW i \in 0 .. sent' - fetched' - 1
          PROVE  sq'[After(sqHead', i)] = fetched' + 1 + i
      <3>1. i + 1 \in 0 .. sent - fetched - 1 /\ i \in Nat
        BY <2>3, <2>1, <1>n
      <3>2. After(sqHead', i) = After(sqHead, i + 1)
        BY <3>1, <2>1, <2>u, <1>n DEF After
      <3>3. sq[After(sqHead, i + 1)] = fetched + 1 + (i + 1)
        BY <3>1, <1>s
      <3> QED
        BY <3>1, <3>2, <3>3, <2>u, <2>2, <1>n
    <2>6. WorkCounted'
      <3>1. fetched + 1 \notin work /\ IsFiniteSet(work)
        BY <1>s, <1>n DEF WorkCounted
      <3>2. /\ IsFiniteSet(work \cup {fetched + 1})
            /\ Cardinality(work \cup {fetched + 1}) = Cardinality(work) + 1
        BY <3>1, FS_AddElement
      <3>3. Cardinality(work) \in Nat /\ posted + Cardinality(work) = fetched
        BY <1>s, <3>1, FS_CardinalityType DEF WorkCounted
      <3>4. work' \subseteq 1 .. fetched'
        BY <1>s, <2>u, <2>2, <1>n DEF WorkCounted
      <3>5. IsFiniteSet(work') /\ Cardinality(work') = Cardinality(work) + 1
        BY <3>2, <2>u, <2>2
      <3>6. posted' + Cardinality(work') = fetched'
        BY <3>3, <3>5, <2>u, <2>2, <1>n
      <3> QED
        BY <3>4, <3>5, <3>6 DEF WorkCounted
    <2> QED
      BY <2>3, <2>4, <2>5, <2>6
  <1>3. CASE \E c \in work, status \in {0, 1} : Complete(c, status)
    <2> PICK c \in work, status \in {0, 1} : Complete(c, status)
      BY <1>3
    <2>u. /\ work' = work \ {c} /\ posted' = posted + 1 /\ fetched' = fetched
          /\ sqHead' = sqHead /\ sq' = sq /\ tail' = tail /\ sent' = sent
      BY DEF Complete, driver
    <2>1. /\ IsFiniteSet(work \ {c})
          /\ Cardinality(work \ {c}) = Cardinality(work) - 1
      BY <1>s, FS_RemoveElement DEF WorkCounted
    <2>2. Cardinality(work) \in Nat
      BY <1>s, FS_CardinalityType DEF WorkCounted
    <2>3. posted' + Cardinality(work') = fetched'
      BY <1>s, <2>u, <2>1, <2>2, <1>n DEF WorkCounted
    <2>4. WorkCounted'
      BY <1>s, <2>u, <2>1, <2>3 DEF WorkCounted
    <2> QED
      BY <2>4, <2>u, <1>s
  <1>4. CASE UNCHANGED <<sq, tail, sent, sqHead, fetched, work, posted>>
    BY <1>4, <1>s DEF WorkCounted, After
  <1> QED
    BY <1>1, <1>2, <1>3, <1>4
       DEF Next, TakeAnswer, TimeOut, vars, driver, controller

\* Until the first time-out the answer is the own command's.
LEMMA NvmeStepOwn == IInv /\ [Next]_vars => OwnAnswer'
  <1> SUFFICES ASSUME IInv, [Next]_vars, timeouts' = 0
               PROVE  (/\ work \subseteq {sent}
                       /\ \A i \in 0 .. Unread - 1 :
                             /\ cq[After(head, i)].of = sent
                             /\ cq[After(head, i)].status = 0 => sent \in done
                       /\ stage = IDLE /\ result = OK => sent \in done)'
    BY DEF OwnAnswer
  <1>p. TypeOK /\ CompletionShape /\ Accounted /\ SubmissionShape /\ OwnAnswer
    BY DEF IInv
  <1>n. /\ sent \in Nat /\ taken \in Nat /\ fetched \in Nat /\ posted \in Nat
        /\ timeouts \in Nat /\ head \in 0 .. Size - 1 /\ sqHead \in 0 .. Size - 1
        /\ Size \in Nat /\ Size > 1
    BY <1>p, NvmeNumbers
  <1>0. timeouts = 0
    BY <1>n DEF Next, Submit, TakeAnswer, TimeOut, Fetch, Complete,
                vars, driver, controller
  <1>f. FewTimeouts
    BY <1>0, <1>n DEF FewTimeouts
  <1>s. /\ WorkCounted
        /\ sent - fetched \in 0 .. Size - 1
        /\ tail = After(sqHead, sent - fetched)
        /\ \A i \in 0 .. sent - fetched - 1 : sq[After(sqHead, i)] = fetched + 1 + i
    BY <1>p, <1>f DEF SubmissionShape
  <1>o. /\ work \subseteq {sent}
        /\ \A i \in 0 .. Unread - 1 :
              /\ cq[After(head, i)].of = sent
              /\ cq[After(head, i)].status = 0 => sent \in done
        /\ stage = IDLE /\ result = OK => sent \in done
    BY <1>p, <1>0 DEF OwnAnswer
  <1>u. Unread \in 0 .. Size - 1
    BY <1>p DEF CompletionShape
  <1>1. CASE Submit
    <2>1. sent - posted <= 0 /\ sent - fetched <= 0 /\ taken <= posted /\ posted <= fetched
      BY <1>p, <1>f, <1>0, <1>1, <1>n, NvmeFewUnfetched DEF Submit
    <2>2. taken = sent
      BY <1>p, <1>0, <1>1, <1>n DEF Accounted, Submit, IDLE, POLLING
    <2>3. posted = sent /\ fetched = sent /\ Unread = 0
      BY <2>1, <2>2, <1>s, <1>n, NvmeFewUnfetched DEF Unread
    <2>4. work = {}
      <3>1. IsFiniteSet(work) /\ Cardinality(work) \in Nat
        BY <1>s, FS_CardinalityType DEF WorkCounted
      <3>2. Cardinality(work) = 0
        BY <3>1, <2>3, <1>s, <1>n DEF WorkCounted
      <3> QED
        BY <3>1, <3>2, FS_EmptySet
    <2>5. work' = {} /\ Unread' = 0 /\ stage' # IDLE
      BY <1>1, <2>3, <2>4 DEF Submit, controller, Unread, IDLE, POLLING
    <2> QED
      BY <2>5
  <1>2. CASE TakeAnswer
    <2>u. /\ head' = After(head, 1) /\ taken' = taken + 1
          /\ cq' = cq /\ posted' = posted /\ sent' = sent /\ done' = done /\ work' = work
          /\ result' = IF cq[head].status = 0 THEN OK ELSE EIO
      BY <1>2 DEF TakeAnswer, controller
    <2>1. Unread \in 1 .. Size - 1 /\ Unread' = Unread - 1
      <3>1. Unread # 0
        BY <1>p, <1>2, NvmePhaseTells DEF TakeAnswer
      <3> QED
        BY <3>1, <1>u, <2>u, <1>n DEF Unread
    <2>2. cq[head].of = sent /\ (cq[head].status = 0 => sent \in done)
      <3>1. 0 \in 0 .. Unread - 1 /\ After(head, 0) = head
        BY <2>1, <1>n DEF After
      <3> QED
        BY <3>1, <1>o
    <2>3. ASSUME NEW i \in 0 .. Unread' - 1
          PROVE  /\ cq'[After(head', i)].of = sent'
                 /\ cq'[After(head', i)].status = 0 => sent' \in done'
      <3>1. i + 1 \in 0 .. Unread - 1 /\ i \in Nat
        BY <2>1, <1>n
      <3>2. After(head', i) = After(head, i + 1)
        BY <3>1, <2>1, <2>u, <1>n DEF After
      <3> QED
        BY <3>1, <3>2, <1>o, <2>u
    <2>4. result' = OK => sent' \in done'
      BY <2>2, <2>u DEF OK, EIO
    <2> QED
      BY <2>3, <2>4, <2>u, <1>o
  <1>3. CASE TimeOut
    BY <1>3, <1>0 DEF TimeOut
  <1>4. CASE Fetch
    <2>u. /\ work' = work \cup {sq[sqHead]} /\ sqHead # tail
          /\ cq' = cq /\ head' = head /\ taken' = taken /\ posted' = posted
          /\ sent' = sent /\ done' = done /\ stage' = stage /\ result' = result
      BY <1>4 DEF Fetch, driver
    <2>1. sent - fetched >= 1
      BY <2>u, <1>s, <1>n DEF After
    <2>2. sent - fetched <= 1
      BY <1>p, <1>f, <1>0, <1>n, NvmeFewUnfetched
    <2>3. sq[sqHead] = sent
      <3>1. 0 \in 0 .. sent - fetched - 1 /\ After(sqHead, 0) = sqHead
        BY <2>1, <1>n DEF After
      <3> QED
        BY <3>1, <2>1, <2>2, <1>s, <1>n
    <2> QED
      BY <2>3, <2>u, <1>o DEF Unread
  <1>5. CASE \E c \in work, status \in {0, 1} : Complete(c, status)
    <2> PICK c \in work, status \in {0, 1} : Complete(c, status)
      BY <1>5
    <2> DEFINE entry == [phase |-> cqPhase, status |-> status, of |-> c, nr |-> posted + 1]
    <2>u. /\ cq' = [cq EXCEPT ![cqTail] = entry]
          /\ posted' = posted + 1 /\ work' = work \ {c}
          /\ done' = IF status = 0 THEN done \cup {c} ELSE done
          /\ head' = head /\ taken' = taken /\ sent' = sent
          /\ stage' = stage /\ result' = result
      BY DEF Complete, driver
    <2>c. c = sent
      BY <1>o
    <2>1. Unread' = Unread + 1 /\ cqTail = After(head, Unread) /\ cqTail \in Cells
      BY <2>u, <1>n, <1>p DEF Unread, CompletionShape, TypeOK
    <2>2. ASSUME NEW i \in 0 .. Unread' - 1
          PROVE  /\ cq'[After(head', i)].of = sent'
                 /\ cq'[After(head', i)].status = 0 => sent' \in done'
      <3>1. i \in 0 .. Unread
        BY <2>1, <1>u, <1>n
      <3>2. CASE i = Unread
        <4>1. cq'[After(head, i)] = entry
          BY <3>2, <2>1, <2>u, <1>p DEF TypeOK
        <4> QED
          BY <4>1, <2>c, <2>u
      <3>3. CASE i # Unread
        <4>1. i \in 0 .. Unread - 1
          BY <3>1, <3>3, <1>u, <1>n
        <4>2. After(head, i) \in Cells /\ After(head, i) # After(head, Unread)
          BY <4>1, <1>u, <1>n DEF After, Cells
        <4>3. cq'[After(head, i)] = cq[After(head, i)]
          BY <4>2, <2>1, <2>u, <1>p DEF TypeOK
        <4> QED
          BY <4>1, <4>3, <1>o, <2>u
      <3> QED
        BY <3>2, <3>3
    <2> QED
      BY <2>2, <2>u, <1>o
  <1>6. CASE UNCHANGED vars
    BY <1>6, <1>o DEF vars, driver, controller, Unread
  <1> QED
    BY <1>1, <1>2, <1>3, <1>4, <1>5, <1>6 DEF Next

LEMMA NvmeInductive == IInv /\ [Next]_vars => IInv'
  <1> SUFFICES ASSUME IInv, [Next]_vars PROVE IInv'
    OBVIOUS
  <1> QED
    BY NvmeStepTypes, NvmeStepCompletion, NvmeStepAccounted, NvmeStepSubmission,
       NvmeStepOwn
       DEF IInv

\* The invariant holds throughout, whatever controller and caller do.
THEOREM NvmeInvariant == Spec => []IInv
  BY NvmeInitInv, NvmeInductive, PTL DEF Spec

-----------------------------------------------------------------------------
(* What it gives *)

\* The queues keep their shape: tails, heads and phases stay in range.
THEOREM NvmeTypes == Spec => []TypeOK
  <1>1. IInv => TypeOK
    BY DEF IInv
  <1> QED
    BY <1>1, NvmeInvariant, PTL

\* The poll of nvme_io_submit_and_poll takes every completion once and in order, at
\* every turn of the queue and after any number of time-outs.
THEOREM NvmeCompletionsOnceInOrder == Spec => []CompletionsOnceInOrder
  <1>1. IInv => CompletionsOnceInOrder
    BY NvmePhaseTells, NvmeNumbers
       DEF IInv, CompletionsOnceInOrder, CompletionShape, Unread
  <1> QED
    BY <1>1, NvmeInvariant, PTL

\* nvme_io_submit_and_poll overwrites no command the controller has not fetched, as
\* long as fewer calls than the queue has room for have timed out.
THEOREM NvmeCommandsOnceInOrder == Spec => []CommandsOnceInOrder
  <1>1. IInv => CommandsOnceInOrder
    BY DEF IInv, SubmissionShape, CommandsOnceInOrder
  <1> QED
    BY <1>1, NvmeInvariant, PTL

\* Until a call times out, nvme_disk_driver_read returns 0 only with the data of the
\* sector that was asked for.
THEOREM NvmeAnswerIsOwn == Spec => []AnswerIsOwn
  <1>1. IInv => AnswerIsOwn
    BY DEF IInv, OwnAnswer, AnswerIsOwn
  <1> QED
    BY <1>1, NvmeInvariant, PTL
=============================================================================
