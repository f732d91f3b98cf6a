------------------------------ MODULE BootProofs ------------------------------
(***************************************************************************)
(* Proofs about module Boot, for every machine, every size of pages and of *)
(* page tables, and every number of processes: where the kernel's heap     *)
(* lies, and that every address space the kernel makes, however often      *)
(* programs are started and strings are copied from them, leads to it;     *)
(* then, for every arrangement of buses, that all devices are found and    *)
(* that the way to every disk is open.                                     *)
(***************************************************************************)
EXTENDS Boot, FiniteSetTheorems, WellFoundedInduction, TLAPS

-----------------------------------------------------------------------------
(* Division *)

LEMMA QuotientIsCount ==
    ASSUME NEW n \in Nat, NEW d \in Nat \ {0}
    PROVE  n \div d \in Nat /\ n % d \in 0 .. d - 1
  OBVIOUS

LEMMA DivisionParts ==
    ASSUME NEW n \in Nat, NEW d \in Nat \ {0}
    PROVE  n = d * (n \div d) + (n % d)
  OBVIOUS

\* No multiple of d but 0 is less than d.
LEMMA ProductIsLarge ==
    ASSUME NEW d \in Nat \ {0}, NEW m \in Nat \ {0}
    PROVE  d * m >= d
  <1>1. m - 1 \in Nat
    OBVIOUS
  <1>2. d * (m - 1) \in Nat
    BY <1>1
  <1>3. d * m = d * (m - 1) + d
    OBVIOUS
  <1> QED
    BY <1>2, <1>3

LEMMA SameQuotient ==
    ASSUME NEW d \in Nat \ {0}, NEW q \in Nat, NEW a \in Nat,
           NEW r \in 0 .. d - 1, NEW b \in 0 .. d - 1, d * q + r = d * a + b
    PROVE  q = a /\ r = b
  <1>1. ~ (q > a)
    <2>1. SUFFICES ASSUME q > a PROVE FALSE
      OBVIOUS
    <2>2. q - a \in Nat \ {0} /\ d * (q - a) = d * q - d * a
      BY <2>1
    <2>3. d * (q - a) >= d
      BY <2>2, ProductIsLarge
    <2> QED
      BY <2>2, <2>3
  <1>2. ~ (q < a)
    <2>1. SUFFICES ASSUME q < a PROVE FALSE
      OBVIOUS
    <2>2. a - q \in Nat \ {0} /\ d * (a - q) = d * a - d * q
      BY <2>1
    <2>3. d * (a - q) >= d
      BY <2>2, ProductIsLarge
    <2> QED
      BY <2>2, <2>3
  <1> QED
    BY <1>1, <1>2

LEMMA DivisionIsUnique ==
    ASSUME NEW d \in Nat \ {0}, NEW q \in Nat, NEW r \in 0 .. d - 1
    PROVE  (d * q + r) \div d = q /\ (d * q + r) % d = r
  <1>1. PICK n \in Nat : n = d * q + r
    OBVIOUS
  <1>2. n = d * (n \div d) + (n % d) /\ n \div d \in Nat /\ n % d \in 0 .. d - 1
    BY DivisionParts, QuotientIsCount
  <1>3. PICK a \in Nat : a = n \div d
    BY <1>2
  <1>4. PICK b \in 0 .. d - 1 : b = n % d
    BY <1>2
  <1>5. d * q + r = d * a + b
    BY <1>1, <1>2, <1>3, <1>4
  <1>6. q = a /\ r = b
    BY <1>5, SameQuotient
  <1> QED
    BY <1>1, <1>3, <1>4, <1>6

LEMMA DivMonotone ==
    ASSUME NEW d \in Nat \ {0}, NEW m \in Nat, NEW n \in Nat, m <= n
    PROVE  m \div d <= n \div d
  <1>1. /\ m = d * (m \div d) + (m % d) /\ m \div d \in Nat /\ m % d \in 0 .. d - 1
        /\ n = d * (n \div d) + (n % d) /\ n \div d \in Nat /\ n % d \in 0 .. d - 1
    BY DivisionParts, QuotientIsCount
  <1>2. PICK a \in Nat : a = m \div d
    BY <1>1
  <1>3. PICK b \in Nat : b = n \div d
    BY <1>1
  <1>4. ~ (a > b)
    <2>1. SUFFICES ASSUME a > b PROVE FALSE
      OBVIOUS
    <2>2. a - b \in Nat \ {0} /\ d * (a - b) = d * a - d * b
      BY <2>1
    <2>3. d * (a - b) >= d
      BY <2>2, ProductIsLarge
    <2> QED
      BY <1>1, <1>2, <1>3, <2>2, <2>3
  <1> QED
    BY <1>2, <1>3, <1>4

-----------------------------------------------------------------------------
(* Pages *)

Whole(a) == a \in Nat /\ a % PageSize = 0

LEMMA PageSizeIsCount == PageSize \in Nat \ {0} /\ PageSize >= 4
  BY KernelMemoryAssumption

LEMMA WholePages ==
    ASSUME NEW a, Whole(a)
    PROVE  Page(a) \in Nat /\ a = PageSize * Page(a)
  <1>1. a \in Nat /\ a % PageSize = 0
    BY DEF Whole
  <1>2. a = PageSize * (a \div PageSize) + (a % PageSize) /\ a \div PageSize \in Nat
    BY <1>1, PageSizeIsCount, DivisionParts, QuotientIsCount
  <1>3. PICK q \in Nat : q = a \div PageSize
    BY <1>2
  <1>4. PageSize * q \in Nat
    BY <1>3, PageSizeIsCount
  <1> QED
    BY <1>1, <1>2, <1>3, <1>4 DEF Page

LEMMA PagesAreWhole ==
    ASSUME NEW q \in Nat
    PROVE  Whole(PageSize * q) /\ Page(PageSize * q) = q
  <1>1. PageSize * q + 0 = PageSize * q /\ PageSize * q \in Nat
    BY PageSizeIsCount
  <1>2. 0 \in 0 .. PageSize - 1
    BY PageSizeIsCount
  <1>3. (PageSize * q + 0) \div PageSize = q /\ (PageSize * q + 0) % PageSize = 0
    BY <1>2, PageSizeIsCount, DivisionIsUnique
  <1> QED
    BY <1>1, <1>3 DEF Whole, Page

\* Whole addresses and their pages have the same order.
LEMMA WholeOrder ==
    ASSUME NEW a, NEW b, Whole(a), Whole(b)
    PROVE  /\ a < b => a + PageSize <= b
           /\ a <= b <=> Page(a) <= Page(b)
  <1>1. PICK p \in Nat : p = Page(a) /\ a = PageSize * p
    BY WholePages
  <1>2. PICK q \in Nat : q = Page(b) /\ b = PageSize * q
    BY WholePages
  <1>3. ASSUME NEW m \in Nat, NEW n \in Nat, m < n
        PROVE  PageSize * m + PageSize <= PageSize * n
    <2>1. n - m \in Nat \ {0} /\ PageSize * (n - m) = PageSize * n - PageSize * m
      BY <1>3, PageSizeIsCount
    <2> QED
      BY <2>1, PageSizeIsCount, ProductIsLarge
  <1>4. PageSize * p \in Nat /\ PageSize * q \in Nat
    BY PageSizeIsCount
  <1>5. p < q \/ q < p \/ p = q
    OBVIOUS
  <1>6. p < q => a + PageSize <= b
    BY <1>1, <1>2, <1>3
  <1>7. q < p => b + PageSize <= a
    BY <1>1, <1>2, <1>3
  <1> QED
    BY <1>1, <1>2, <1>4, <1>5, <1>6, <1>7, PageSizeIsCount

LEMMA AlignDown ==
    ASSUME NEW a \in Nat
    PROVE  /\ Whole(paging_align_to_lower_page(a))
           /\ paging_align_to_lower_page(a) <= a
           /\ a < paging_align_to_lower_page(a) + PageSize
           /\ Page(paging_align_to_lower_page(a)) = Page(a)
  <1>1. PICK q \in Nat : q = a \div PageSize
    BY PageSizeIsCount, QuotientIsCount
  <1>2. PICK r \in 0 .. PageSize - 1 : r = a % PageSize
    BY PageSizeIsCount, QuotientIsCount
  <1>3. a = PageSize * q + r
    BY <1>1, <1>2, PageSizeIsCount, DivisionParts
  <1>4. PageSize * q \in Nat
    BY PageSizeIsCount
  <1>5. paging_align_to_lower_page(a) = PageSize * q
    BY <1>2, <1>3, <1>4 DEF paging_align_to_lower_page
  <1>6. Whole(PageSize * q) /\ Page(PageSize * q) = q
    BY PagesAreWhole
  <1> QED
    BY <1>1, <1>3, <1>4, <1>5, <1>6, PageSizeIsCount DEF Page

LEMMA AlignUp ==
    ASSUME NEW a \in Nat
    PROVE  /\ Whole(paging_align_address(a))
           /\ a <= paging_align_address(a)
           /\ paging_align_address(a) < a + PageSize
  <1>1. PICK q \in Nat : q = a \div PageSize
    BY PageSizeIsCount, QuotientIsCount
  <1>2. PICK r \in 0 .. PageSize - 1 : r = a % PageSize
    BY PageSizeIsCount, QuotientIsCount
  <1>3. a = PageSize * q + r
    BY <1>1, <1>2, PageSizeIsCount, DivisionParts
  <1>4. PageSize * q \in Nat /\ PageSize * (q + 1) = PageSize * q + PageSize
    BY PageSizeIsCount
  <1>5. CASE r = 0
    BY <1>2, <1>5, PageSizeIsCount DEF paging_align_address, Whole
  <1>6. CASE r # 0
    <2>1. paging_align_address(a) = PageSize * (q + 1)
      BY <1>2, <1>3, <1>4, <1>6, PageSizeIsCount DEF paging_align_address
    <2>2. Whole(PageSize * (q + 1))
      BY PagesAreWhole
    <2> QED
      BY <1>2, <1>3, <1>4, <1>6, <2>1, <2>2, PageSizeIsCount
  <1> QED
    BY <1>5, <1>6

\* A whole address is its own alignment, and no other lies nearer to an address
\* than its alignments.
LEMMA AlignNearest ==
    ASSUME NEW a \in Nat, NEW b, Whole(b)
    PROVE  /\ a <= b => paging_align_address(a) <= b
           /\ b <= a => b <= paging_align_to_lower_page(a)
  <1>1. PICK u : u = paging_align_address(a) /\ Whole(u) /\ a <= u /\ u < a + PageSize
    BY AlignUp
  <1>2. PICK l : l = paging_align_to_lower_page(a) /\ Whole(l) /\ l <= a /\ a < l + PageSize
    BY AlignDown
  <1>3. b < u => b + PageSize <= u
    BY <1>1, WholeOrder
  <1>4. l < b => l + PageSize <= b
    BY <1>2, WholeOrder
  <1>5. b \in Nat /\ u \in Nat /\ l \in Nat
    BY <1>1, <1>2 DEF Whole
  <1> QED
    BY <1>1, <1>2, <1>3, <1>4, <1>5, PageSizeIsCount

-----------------------------------------------------------------------------
(* Where the heap and its table are put *)

\* A larger factor makes a larger product.
LEMMA ProductOrder ==
    ASSUME NEW a \in Nat, NEW b \in Nat, NEW c \in Nat, a <= b
    PROVE  a * c \in Nat /\ c * a = a * c /\ a * c <= b * c
  <1>1. b - a \in Nat
    OBVIOUS
  <1>2. (b - a) * c \in Nat
    BY <1>1
  <1>3. b * c = a * c + (b - a) * c
    BY <1>1
  <1> QED
    BY <1>2, <1>3

LEMMA Quotient ==
    ASSUME NEW n \in Nat
    PROVE  \E q \in Nat : /\ q = n \div PageSize /\ PageSize * q \in Nat
                         /\ q <= n /\ PageSize * q <= n /\ n < PageSize * q + PageSize
  <1>1. /\ n \div PageSize \in Nat /\ n % PageSize \in 0 .. PageSize - 1
        /\ n = PageSize * (n \div PageSize) + (n % PageSize)
    BY PageSizeIsCount, QuotientIsCount, DivisionParts
  <1>2. PICK q \in Nat : q = n \div PageSize
    BY <1>1
  <1>3. PICK j \in 0 .. PageSize - 1 : j = n % PageSize
    BY <1>1
  <1>4. PICK y \in Nat : y = PageSize * q
    BY PageSizeIsCount
  <1>5. n = y + j
    BY <1>1, <1>2, <1>3, <1>4
  <1>6. 1 * q <= PageSize * q
    BY PageSizeIsCount, ProductOrder
  <1>7. q <= y
    BY <1>4, <1>6
  <1>8. PageSize * q \in Nat /\ q <= n /\ PageSize * q <= n /\ n < PageSize * q + PageSize
    BY <1>3, <1>4, <1>5, <1>7, PageSizeIsCount
  <1> QED
    BY <1>2, <1>8

\* Of n bytes the table gets d, for the blocks in what a table for all of it leaves;
\* with what is lost to alignment, x bytes lie before the blocks, of which there are m.
Split(n, k, d, x, m) ==
    /\ PageSize * k <= n /\ n < PageSize * k + PageSize
    /\ PageSize * d <= n - k /\ n - k < PageSize * d + PageSize
    /\ d <= x /\ x < d + PageSize
    /\ PageSize * m <= n - x /\ n - x < PageSize * m + PageSize

LEMMA ThreeBlocks ==
    ASSUME NEW n \in Nat, NEW k \in Nat, NEW d \in Nat, NEW x \in Nat, NEW m \in Nat,
           Split(n, k, d, x, m),
           \/ n > 6 * PageSize
           \/ n > 4 * PageSize /\ (d <= PageSize => x <= PageSize)
                               /\ PageSize * m = PageSize * k - x
    PROVE  m >= 3
  <1>1. PICK P \in Nat : P = PageSize /\ P >= 4
    BY PageSizeIsCount
  <1>2. /\ P * k \in Nat /\ P * k <= n /\ n < P * k + P
        /\ P * d \in Nat /\ P * d <= n - k /\ n - k < P * d + P
        /\ d <= x /\ x < d + P
        /\ P * m \in Nat /\ P * m <= n - x /\ n - x < P * m + P
    BY <1>1 DEF Split
  <1> SUFFICES ASSUME m <= 2 PROVE FALSE
    OBVIOUS
  <1>3. P * m <= 2 * P
    BY <1>1, ProductOrder
  <1>4. 4 * d <= P * d /\ (P - 1) * k \in Nat /\ 3 * k <= (P - 1) * k /\ P * k = (P - 1) * k + k
    <2>1. P - 1 \in Nat /\ 3 <= P - 1
      BY <1>1
    <2>2. 4 * d <= P * d
      BY <1>1, ProductOrder
    <2>3. 3 * k <= (P - 1) * k /\ (P - 1) * k \in Nat
      BY <2>1, ProductOrder
    <2> QED
      BY <1>1, <2>2, <2>3
  <1>5. CASE n > 6 * P
    BY <1>1, <1>2, <1>3, <1>4, <1>5
  <1>6. CASE n > 4 * P /\ (d <= P => x <= P) /\ P * m = P * k - x
    <2>1. k >= 4
      <3>1. ASSUME k <= 3 PROVE FALSE
        <4>1. P * k <= 3 * P
          BY <1>1, <3>1, ProductOrder
        <4> QED
          BY <1>1, <1>2, <1>6, <4>1
      <3> QED
        BY <3>1
    <2>2. 4 * P <= P * k
      BY <1>1, <2>1, ProductOrder
    <2>3. CASE d <= P
      BY <1>1, <1>3, <1>6, <2>2, <2>3
    <2>4. CASE d > P
      <3>1. d <= k
        <4>1. ASSUME k + 1 <= d PROVE FALSE
          <5>1. (k + 1) * P <= d * P /\ (k + 1) * P = P * k + P /\ d * P = P * d
            BY <1>1, <4>1, ProductOrder
          <5> QED
            BY <1>2, <5>1
        <4> QED
          BY <4>1
      <3> QED
        BY <1>1, <1>2, <1>3, <1>4, <1>6, <2>4, <3>1
    <2> QED
      BY <1>1, <2>3, <2>4
  <1> QED
    BY <1>1, <1>5, <1>6

LEMMA TableReachesHeap ==
    ASSUME NEW n \in Nat, NEW k \in Nat, NEW d \in Nat, NEW x \in Nat, NEW m \in Nat,
           Split(n, k, d, x, m), n <= PageSize * PageSize * PageSize
    PROVE  m <= x + 1
  <1>1. PICK P \in Nat : P = PageSize /\ P >= 4
    BY PageSizeIsCount
  <1>2. /\ P * k \in Nat /\ P * k <= n
        /\ P * d \in Nat /\ n - k < P * d + P
        /\ d <= x /\ P * m <= n - x
    BY <1>1 DEF Split
  <1> SUFFICES ASSUME x + 2 <= m PROVE FALSE
    OBVIOUS
  <1>3. P * x \in Nat /\ P * x + 2 * P <= P * m
    <2>1. (x + 2) * P <= m * P /\ (x + 2) * P = P * x + 2 * P /\ m * P = P * m
      BY <1>1, ProductOrder
    <2> QED
      BY <1>1, <2>1
  <1>4. P * d <= P * x
    BY <1>1, <1>2, ProductOrder
  <1>5. d + P + 1 <= k
    BY <1>1, <1>2, <1>3, <1>4
  <1>6. P * d + P * P + P <= P * k
    <2>1. (d + P + 1) * P <= k * P /\ (d + P + 1) * P = P * d + P * P + P /\ k * P = P * k
      BY <1>1, <1>5, ProductOrder
    <2> QED
      BY <1>1, <2>1
  <1>7. P * P \in Nat /\ P * P + 1 <= k
    BY <1>1, <1>2, <1>6
  <1>8. P * P * P + P <= P * k
    <2>1. (P * P + 1) * P <= k * P /\ (P * P + 1) * P = P * P * P + P /\ k * P = P * k
      BY <1>1, <1>7, ProductOrder
    <2> QED
      BY <2>1
  <1> QED
    BY <1>1, <1>2, <1>8

Region == [base : Nat, length : Nat, type : {1}]

\* A heap as kheap_init makes it, in region r.
Lies(h, r) ==
    /\ r.base <= h.table /\ h.eaddr <= r.base + r.length
    /\ h.table \in Nat /\ TableAddress <= h.table /\ h.table <= h.saddr
    /\ Whole(h.saddr) /\ Whole(h.eaddr) /\ h.saddr < h.eaddr
    /\ h.entries \in Nat /\ 3 <= h.entries
    /\ PageSize * h.entries = h.eaddr - h.saddr
    /\ Short(r) => h.table + h.entries <= h.saddr + 1

IsTable(t, r) == t = IF r.base < TableAddress THEN TableAddress ELSE r.base

HasRoom(t, r, z) ==
    /\ t \in Nat /\ r.base <= t /\ TableAddress <= t
    /\ z \in Nat /\ t <= z /\ z - t <= r.length
    /\ z - t > 4 * PageSize
    /\ Whole(t) \/ z - t > 6 * PageSize

\* The place of the table, the end, and how much is between them.
LEMMA HeapHasRoom ==
    ASSUME NEW r \in Region, r.length > MinimumSize, NEW t, IsTable(t, r)
    PROVE  HasRoom(t, r, r.base + r.length)
  <1>1. PICK b \in Nat : b = r.base
    BY DEF Region
  <1>2. PICK l \in Nat : l = r.length /\ l > MinimumSize
    BY DEF Region
  <1>3. /\ TableAddress \in Nat /\ MinimumSize \in Nat /\ TableAddress % PageSize = 0
        /\ TableAddress + 4 * PageSize <= MinimumSize
    BY KernelMemoryAssumption
  <1>4. 2 * PageSize <= TableAddress
    <2>1. ProgramPage \in Nat \ {0} /\ (ProgramPage + 1) * PageSize <= TableAddress
      BY KernelMemoryAssumption
    <2>2. ProgramPage + 1 \in Nat /\ 2 <= ProgramPage + 1
      BY <2>1
    <2>3. 2 * PageSize <= (ProgramPage + 1) * PageSize
         /\ 2 * PageSize \in Nat /\ (ProgramPage + 1) * PageSize \in Nat
      BY <2>2, PageSizeIsCount, ProductOrder
    <2> QED
      BY <1>3, <2>1, <2>3
  <1>5. PageSize \in Nat
    BY PageSizeIsCount
  <1>6. CASE b < TableAddress
    <2>1. t = TableAddress
      BY <1>1, <1>6 DEF IsTable
    <2> QED
      BY <1>1, <1>2, <1>3, <1>5, <1>6, <2>1 DEF Whole, HasRoom
  <1>7. CASE ~ (b < TableAddress)
    <2>1. t = b
      BY <1>1, <1>7 DEF IsTable
    <2> QED
      BY <1>1, <1>2, <1>3, <1>4, <1>5, <1>7, <2>1 DEF HasRoom
  <1> QED
    BY <1>6, <1>7

LEMMA LayoutLies ==
    ASSUME NEW r \in Region, r.length > MinimumSize
    PROVE  Lies(Layout(r), r)
  <1> DEFINE table  == IF r.base < TableAddress THEN TableAddress ELSE r.base
             end    == r.base + r.length
             blocks == (end - table) \div PageSize
             data   == end - table - blocks
             saddr  == paging_align_address(table + data \div PageSize)
             eaddr  == paging_align_to_lower_page(end)
  <1>1. Layout(r) = [table |-> table, saddr |-> saddr, eaddr |-> eaddr,
                     entries |-> (eaddr - saddr) \div PageSize]
    BY DEF Layout
  <1>2. PICK t \in Nat : /\ t = table /\ r.base <= t /\ TableAddress <= t
                         /\ end \in Nat /\ t <= end /\ end - t <= r.length
                         /\ end - t > 4 * PageSize
                         /\ Whole(t) \/ end - t > 6 * PageSize
    <2>1. PICK t : t = table /\ IsTable(t, r)
      BY DEF IsTable
    <2>2. HasRoom(t, r, end)
      BY <2>1, HeapHasRoom
    <2> QED
      BY <2>1, <2>2 DEF HasRoom
  <1>3. PICK z \in Nat : z = end
    BY <1>2
  <1>4. PICK n \in Nat : n = z - t
    BY <1>2, <1>3
  <1>5. PICK k \in Nat : /\ k = n \div PageSize /\ PageSize * k \in Nat /\ k <= n
                         /\ PageSize * k <= n /\ n < PageSize * k + PageSize
    BY Quotient
  <1>6. PICK d \in Nat : /\ d = (n - k) \div PageSize
                         /\ PageSize * d <= n - k /\ n - k < PageSize * d + PageSize
                         /\ PageSize * d \in Nat
    <2>1. PICK a \in Nat : a = n - k
      BY <1>5
    <2>2. PICK d \in Nat : /\ d = a \div PageSize /\ PageSize * d \in Nat
                           /\ PageSize * d <= a /\ a < PageSize * d + PageSize
      BY Quotient
    <2> QED
      BY <2>1, <2>2
  <1>7. blocks = k /\ data = n - k /\ data \div PageSize = d
    BY <1>2, <1>3, <1>4, <1>5, <1>6
  <1>8. PICK s \in Nat : /\ s = saddr /\ Whole(s) /\ t + d <= s /\ s < t + d + PageSize
                         /\ \A b \in Nat : Whole(b) /\ t + d <= b => s <= b
    <2>1. saddr = paging_align_address(t + d)
      BY <1>2, <1>7
    <2>2. t + d \in Nat
      OBVIOUS
    <2>3. paging_align_address(t + d) \in Nat
      BY <2>2, AlignUp DEF Whole
    <2>4. PICK s \in Nat : s = paging_align_address(t + d)
      BY <2>3
    <2> QED
      BY <2>1, <2>2, <2>4, AlignUp, AlignNearest
  <1>9. PICK e \in Nat : /\ e = eaddr /\ Whole(e) /\ e <= z /\ z < e + PageSize
                         /\ Page(e) = Page(z)
    <2>1. eaddr = paging_align_to_lower_page(z)
      BY <1>3
    <2>2. paging_align_to_lower_page(z) \in Nat
      BY AlignDown DEF Whole
    <2>3. PICK e \in Nat : e = paging_align_to_lower_page(z)
      BY <2>2
    <2> QED
      BY <2>1, <2>3, AlignDown
  <1>10. s - t \in Nat /\ PageSize \in Nat /\ PageSize >= 4
    BY <1>8, PageSizeIsCount
  <1>11. d <= n /\ s <= e
    <2>1. 4 * d <= PageSize * d
      BY PageSizeIsCount, ProductOrder
    <2> QED
      BY <1>2, <1>3, <1>4, <1>5, <1>6, <1>8, <1>9, <1>10, <2>1
  <1>12. PICK m \in Nat : m = (e - s) \div PageSize /\ PageSize * m = e - s
    <2>1. PICK p \in Nat : p = Page(s) /\ s = PageSize * p
      BY <1>8, WholePages
    <2>2. PICK q \in Nat : q = Page(e) /\ e = PageSize * q
      BY <1>9, WholePages
    <2>3. p <= q
      BY <1>8, <1>9, <1>11, <2>1, <2>2, WholeOrder
    <2>4. PICK m \in Nat : m = q - p
      BY <2>3
    <2>5. PageSize * m = e - s
      <3>1. PageSize * (q - p) = PageSize * q - PageSize * p
        BY <1>10
      <3> QED
        BY <2>1, <2>2, <2>4, <3>1
    <2> QED
      BY <2>5, PagesAreWhole DEF Page
  <1>13. Split(n, k, d, s - t, m)
    BY <1>3, <1>4, <1>5, <1>6, <1>8, <1>9, <1>10, <1>12 DEF Split
  <1>14. \/ n > 6 * PageSize
         \/ n > 4 * PageSize /\ (d <= PageSize => s - t <= PageSize)
                             /\ PageSize * m = PageSize * k - (s - t)
    <2>1. CASE n > 6 * PageSize
      BY <2>1
    <2>2. CASE Whole(t)
      <3>1. PICK p \in Nat : p = Page(t) /\ t = PageSize * p
        BY <2>2, WholePages
      <3>2. e = PageSize * (p + k) /\ PageSize * (p + k) = PageSize * p + PageSize * k
        <4>1. PICK j \in 0 .. PageSize - 1 : j = n - PageSize * k
          BY <1>5, <1>10
        <4>2. z = PageSize * (p + k) + j
          <5>1. PageSize * (p + k) = PageSize * p + PageSize * k
            BY <1>10
          <5>2. PICK y \in Nat : y = PageSize * k
            BY <1>5
          <5> QED
            BY <1>2, <1>3, <1>4, <3>1, <4>1, <5>1, <5>2
        <4>3. Page(z) = p + k
          BY <4>2, PageSizeIsCount, DivisionIsUnique DEF Page
        <4>4. e = PageSize * Page(e)
          BY <1>9, WholePages
        <4> QED
          BY <1>9, <1>10, <4>3, <4>4
      <3>3. Whole(t + PageSize) /\ t + PageSize \in Nat
        <4>1. t + PageSize = PageSize * (p + 1) /\ p + 1 \in Nat
          BY <1>10, <3>1
        <4> QED
          BY <4>1, PagesAreWhole DEF Whole
      <3>4. d <= PageSize => s <= t + PageSize
        BY <1>8, <1>10, <3>3
      <3>5. PageSize * m = PageSize * k - (s - t)
        <4>1. PICK y \in Nat : y = PageSize * k
          BY <1>5
        <4>2. e = t + y
          BY <3>1, <3>2, <4>1
        <4>3. e - s = y - (s - t)
          BY <1>8, <4>2
        <4> QED
          BY <1>12, <4>1, <4>3
      <3> QED
        BY <1>2, <1>3, <1>4, <1>8, <1>10, <3>4, <3>5
    <2> QED
      BY <1>2, <1>3, <1>4, <2>1, <2>2
  <1>15. m >= 3
    BY <1>10, <1>13, <1>14, ThreeBlocks
  <1>16. Short(r) => t + m <= s + 1
    <2>1. ASSUME Short(r) PROVE n <= PageSize * PageSize * PageSize
      <3>1. PICK l \in Nat : l = r.length
        BY DEF Region
      <3>2. PageSize * PageSize * PageSize \in Nat
        BY <1>10
      <3> QED
        BY <1>2, <1>3, <1>4, <2>1, <3>1, <3>2 DEF Short
    <2>2. Short(r) => m <= s - t + 1
      BY <1>10, <1>13, <2>1, TableReachesHeap
    <2> QED
      BY <1>10, <2>2
  <1>17. s < e
    <2>1. 3 * PageSize <= m * PageSize /\ m * PageSize = PageSize * m
      BY <1>10, <1>15, ProductOrder
    <2> QED
      BY <1>10, <1>12, <2>1
  <1>18. PICK h : h = Layout(r) /\ h.table = t /\ h.saddr = s /\ h.eaddr = e /\ h.entries = m
    <2>1. table = t /\ saddr = s /\ eaddr = e
      BY <1>2, <1>8, <1>9
    <2> HIDE DEF table, end, blocks, data, saddr, eaddr
    <2>2. Layout(r) = [table |-> t, saddr |-> s, eaddr |-> e, entries |-> (e - s) \div PageSize]
      BY <1>1, <2>1, Zenon
    <2>3. Layout(r) = [table |-> t, saddr |-> s, eaddr |-> e, entries |-> m]
      BY <1>12, <2>2, Zenon
    <2>4. PICK h : h = [table |-> t, saddr |-> s, eaddr |-> e, entries |-> m]
      OBVIOUS
    <2> QED
      BY <2>3, <2>4
  <1>19. Lies(h, r)
    BY <1>2, <1>3, <1>8, <1>9, <1>12, <1>15, <1>16, <1>17, <1>18 DEF Lies
  <1> QED
    BY <1>18, <1>19

-----------------------------------------------------------------------------
(* The regions *)

LEMMA LeastNumber ==
    ASSUME NEW S, S \subseteq Nat, S # {}
    PROVE  \E x \in S : \A y \in S : x <= y
  <1>1. PICK x \in S : \A y \in S : ~ (<<y, x>> \in OpToRel(<, Nat))
    BY NatLessThanWellFounded, WFMin
  <1>2. \A y \in S : ~ (y < x)
    BY <1>1 DEF OpToRel
  <1> QED
    BY <1>2

LEMMA MinimalRegionIsOne ==
    ASSUME NEW map \in Seq(Region), MinimalRegion(map) # 0
    PROVE  /\ MinimalRegion(map) \in DOMAIN map
           /\ map[MinimalRegion(map)].length > MinimumSize
  <1> DEFINE I == {i \in 1 .. Len(map) : map[i].type = 1 /\ map[i].length > MinimumSize}
  <1>1. MinimalRegion(map) = IF I # {} THEN Min(I) ELSE 0
    BY DEF MinimalRegion, SelectInSeq
  <1>2. I # {} /\ I \subseteq Nat
    BY <1>1
  <1>3. PICK m \in I : \A j \in I : m <= j
    BY <1>2, LeastNumber
  <1>4. Min(I) \in I
    <2>1. Min(I) = CHOOSE x \in I : \A y \in I : x <= y
      BY DEF Min
    <2> QED
      BY <1>3, <2>1
  <1>5. I \subseteq DOMAIN map /\ \A i \in I : map[i].length > MinimumSize
    OBVIOUS
  <1> QED
    BY <1>1, <1>2, <1>4, <1>5

\* A heap with a table of no entries is refused, as it has no room for a block.
LEMMA NoOtherHeap ==
    ASSUME NEW map \in Seq(Region), NEW used_
    PROVE  multiheap_add(map, used_) = <<>>
  <1> DEFINE accepted(i) == heap_create(Bounds(map[i]).saddr, Bounds(map[i]).eaddr, 0)
             S == {Bounds(map[i]) : i \in {j \in Offered(map, used_) : accepted(j)}}
  <1>1. ASSUME NEW i \in Offered(map, used_), accepted(i) PROVE FALSE
    <2>1. i \in DOMAIN map /\ map[i] \in Region /\ Bounds(map[i]).saddr < Bounds(map[i]).eaddr
      BY DEF Offered
    <2>2. PICK s : s = Bounds(map[i]).saddr
      OBVIOUS
    <2>3. PICK e : e = Bounds(map[i]).eaddr
      OBVIOUS
    <2>4. s \in Nat
      <3>1. paging_align_address(map[i].base) \in Nat
        BY <2>1, AlignUp DEF Region, Whole
      <3>2. HeapAddress \in Nat
        BY KernelMemoryAssumption
      <3> QED
        BY <2>2, <3>1, <3>2 DEF Bounds
    <2>5. e \in Nat
      <3>1. map[i].base + map[i].length \in Nat
        BY <2>1 DEF Region
      <3> QED
        BY <2>3, <3>1, AlignDown DEF Bounds, Whole
    <2>6. s < e /\ s % PageSize = 0 /\ e % PageSize = 0 /\ 0 = (e - s) \div PageSize
      BY <1>1, <2>1, <2>2, <2>3 DEF heap_create
    <2>7. s + PageSize <= e
      BY <2>4, <2>5, <2>6, WholeOrder DEF Whole
    <2>8. PICK n \in Nat : n = e - s
      BY <2>4, <2>5, <2>6
    <2>9. n < PageSize * 0 + PageSize
      BY <2>6, <2>8, Quotient
    <2> QED
      BY <2>4, <2>5, <2>7, <2>8, <2>9, PageSizeIsCount
  <1>2. S = {}
    BY <1>1
  <1>3. multiheap_add(map, used_) = SetToSeq({})
    BY <1>2 DEF multiheap_add
  <1>4. Cardinality({}) = 0
    BY FS_EmptySet
  <1>5. SetToSeq({}) = CHOOSE f \in [1 .. 0 -> {}] : IsInjective(f)
    BY <1>4 DEF SetToSeq
  <1>6. \A f \in [1 .. 0 -> {}] : f = <<>>
    OBVIOUS
  <1>7. <<>> \in [1 .. 0 -> {}] /\ IsInjective(<<>>)
    BY DEF IsInjective
  <1>8. SetToSeq({}) = <<>>
    BY <1>5, <1>6, <1>7
  <1> QED
    BY <1>3, <1>8

\* f is what is listed after each of the first n regions of the firmware.
Listing(f, memory, n) ==
    f = [k \in 0 .. n |-> IF k = 0 THEN <<>> ELSE WithRegion(f[k - 1], memory[k])]

LEMMA ListingExists ==
    ASSUME NEW memory, NEW n \in Nat
    PROVE  \E f : Listing(f, memory, n)
  <1> DEFINE Lacking == {j \in Nat : ~ \E f : Listing(f, memory, j)}
  <1>1. 0 \notin Lacking
    <2>1. Listing([k \in 0 .. 0 |-> <<>>], memory, 0)
      BY DEF Listing
    <2> QED
      BY <2>1
  <1>2. ASSUME NEW j \in Lacking, \A y \in Lacking : j <= y
        PROVE  FALSE
    <2>1. j \in Nat /\ j # 0 /\ j - 1 \in Nat /\ j - 1 \notin Lacking
      BY <1>1, <1>2
    <2>2. PICK f : Listing(f, memory, j - 1)
      BY <2>1
    <2> DEFINE g == [i \in 0 .. j |-> IF i = j THEN WithRegion(f[j - 1], memory[j]) ELSE f[i]]
    <2>3. \A i \in 0 .. j - 1 : g[i] = f[i]
      BY <2>1
    <2>4. \A i \in 0 .. j - 1 : f[i] = IF i = 0 THEN <<>> ELSE WithRegion(f[i - 1], memory[i])
      BY <2>1, <2>2 DEF Listing
    <2>5. \A i \in 0 .. j : g[i] = IF i = 0 THEN <<>> ELSE WithRegion(g[i - 1], memory[i])
      BY <2>1, <2>3, <2>4
    <2>6. Listing(g, memory, j)
      BY <2>5 DEF Listing
    <2> QED
      BY <2>6
  <1>3. Lacking = {}
    BY <1>2, LeastNumber
  <1> QED
    BY <1>3

LEMMA LoopLists ==
    ASSUME NEW memory, NEW n \in Nat, n = Len(memory)
    PROVE  \E f : Listing(f, memory, n) /\ Entries(memory) = f[n]
  <1> DEFINE f == CHOOSE f : Listing(f, memory, n)
  <1>1. Listing(f, memory, n)
    BY ListingExists
  <1>2. Entries(memory) = f[n]
    BY DEF Entries, Listing
  <1> QED
    BY <1>1, <1>2

\* What the kernel gets is made of the firmware's regions.
LEMMA EntriesAreUsable ==
    ASSUME NEW memory, NEW n \in Nat, n = Len(memory),
           NEW R, \A k \in 1 .. n : Usable(memory[k]) \in R
    PROVE  Entries(memory) \in Seq(R)
  <1>1. PICK f : Listing(f, memory, n) /\ Entries(memory) = f[n]
    BY LoopLists
  <1>3. f[0] = <<>> /\ \A k \in 1 .. n : f[k] = WithRegion(f[k - 1], memory[k])
    BY <1>1 DEF Listing
  <1> DEFINE Wrong == {k \in 0 .. n : f[k] \notin Seq(R)}
  <1>4. 0 \notin Wrong
    <2>1. <<>> \in Seq(R)
      OBVIOUS
    <2>2. f[0] \in Seq(R)
      BY <1>3, <2>1
    <2> QED
      BY <2>2
  <1>5. ASSUME NEW j \in Wrong, \A y \in Wrong : j <= y
        PROVE  FALSE
    <2>1. j \in 1 .. n /\ j - 1 \in 0 .. n /\ j - 1 < j
      BY <1>4, <1>5
    <2>2. f[j - 1] \in Seq(R)
      BY <1>5, <2>1
    <2>3. PICK g \in Seq(R) : g = f[j - 1]
      BY <2>2
    <2>4. PICK u \in R : u = Usable(memory[j])
      BY <2>1
    <2>5. g \in Seq(R) /\ Append(g, u) \in Seq(R)
      OBVIOUS
    <2>6. f[j] = g \/ f[j] = Append(g, u)
      BY <1>3, <2>1, <2>3, <2>4 DEF WithRegion
    <2> QED
      BY <1>5, <2>5, <2>6
  <1>6. Wrong \subseteq Nat
    OBVIOUS
  <1>7. Wrong = {}
    BY <1>5, <1>6, LeastNumber
  <1> QED
    BY <1>1, <1>7

LEMMA ElementOf ==
    ASSUME NEW S, NEW q \in Seq(S), NEW k \in 1 .. Len(q)
    PROVE  q[k] \in S
  OBVIOUS

LEMMA EntriesAreRegions ==
    ASSUME NEW memory \in Seq([base : Nat, length : Nat, type : {CONVENTIONAL, RESERVED}])
    PROVE  /\ Entries(memory) \in Seq(Region)
           /\ (\A k \in 1 .. Len(memory) : Short(memory[k])) =>
                \A i \in DOMAIN Entries(memory) : Short(Entries(memory)[i])
  <1>1. PICK n \in Nat : n = Len(memory)
    OBVIOUS
  <1>2. ASSUME NEW k \in 1 .. n
        PROVE  Usable(memory[k]) \in Region
    <2>1. memory[k] \in [base : Nat, length : Nat, type : {CONVENTIONAL, RESERVED}]
      BY <1>1, ElementOf
    <2> QED
      BY <2>1 DEF Usable, Region
  <1>3. Entries(memory) \in Seq(Region)
    BY <1>1, <1>2, EntriesAreUsable
  <1>4. ASSUME \A k \in 1 .. Len(memory) : Short(memory[k])
        PROVE  \A i \in DOMAIN Entries(memory) : Short(Entries(memory)[i])
    <2> DEFINE R == {r \in Region : Short(r)}
    <2>1. ASSUME NEW k \in 1 .. n
          PROVE  Usable(memory[k]) \in R
      <3>1. Usable(memory[k]).length = memory[k].length
        BY DEF Usable
      <3> QED
        BY <1>1, <1>2, <1>4, <3>1 DEF Short
    <2> HIDE DEF R
    <2>2. Entries(memory) \in Seq(R)
      BY <1>1, <2>1, EntriesAreUsable
    <2>3. PICK e \in Seq(R) : e = Entries(memory)
      BY <2>2
    <2>4. \A i \in DOMAIN e : e[i] \in R
      OBVIOUS
    <2> QED
      BY <2>3, <2>4 DEF R
  <1> QED
    BY <1>3, <1>4

-----------------------------------------------------------------------------
(* The inductive invariant *)

BeforeHeap == {"SetupMemoryMaps", "LoadKernel", "kheap_init"}
BeforeTables == BeforeHeap \cup {"paging"}
BeforeScreen == BeforeTables \cup {"graphics"}
BeforeGuard == BeforeScreen \cup {"pci_init", "pci_scan_bus", "disk_search_and_init", "tss"}

\* What the loader leaves, and the heap that kheap_init made of it.
HeapInv ==
    /\ machine \in Machines
    /\ ram \in Seq(Region)
    /\ RegionsAreShort => \A i \in DOMAIN ram : Short(ram[i])
    /\ \A i \in used : i.to \in Nat /\ i.to <= TableAddress
    /\ \/ heap = NoHeap
       \/ /\ \E i \in DOMAIN ram : Lies(heap, ram[i])
          /\ heaps = <<[saddr |-> heap.saddr, eaddr |-> heap.eaddr]>>
    /\ taken \in Nat /\ taken <= heap.entries
    /\ stage \in BeforeHeap => heap = NoHeap

DescFields == {"tables", "leaf", "mapped"}

\* The tables on the way to every page that is mapped are there.
Built(d) ==
    /\ DOMAIN d = DescFields
    /\ IsFiniteSet(d.tables)
    /\ \A v \in DOMAIN d.leaf : Walk(v) \subseteq d.tables

\* The framebuffer is shown by pages handed out before the guard page.
DescInv ==
    /\ descs = [o \in Owners |-> descs[o]]
    /\ \A o \in Owners : Built(descs[o])
    /\ copied = [o \in Owners |-> copied[o]]
    /\ stage \in BeforeTables => \A o \in Owners : descs[o] = NoDesc
    /\ stage \in BeforeScreen => screen.seen = {}
    /\ stage \in BeforeGuard => guard = {}
    /\ ~wild => \A p \in screen.seen : p \in Int /\ p < Page(heap.saddr) + taken

\* The entry e of page p in the address space of o.
EntryIs(o, p, e, scr, g, lent) ==
    IF o = KERNEL /\ p \in scr.seen THEN e.phys \in scr.real
    ELSE IF o = KERNEL /\ p \in g THEN e.flags = {}
    ELSE /\ e.phys = p /\ PRESENT \in e.flags /\ ALL \notin e.flags
         /\ WRITEABLE \in e.flags \/ p \in lent

Shows(o, l, memory, pages, scr, g, lent) ==
    /\ memory \subseteq DOMAIN l
    /\ \A p \in pages : EntryIs(o, p, l[p], scr, g, lent)

\* Every address space that is made leads to all memory, and to the heap's pages
\* as it should.
MapInv ==
    ~wild => \A o \in Owners : descs[o].mapped =>
                Shows(o, descs[o].leaf, RamPages(ram), HeapPages, screen, guard, copied[o])

BInv == HeapInv /\ DescInv /\ MapInv

-----------------------------------------------------------------------------
(* Finite sets of pages and of tables *)

LEMMA FiniteImage ==
    ASSUME NEW S, IsFiniteSet(S), NEW f, f = [x \in S |-> f[x]]
    PROVE  IsFiniteSet({f[x] : x \in S})
  <1> DEFINE T == {f[x] : x \in S}
  <1>1. f \in Surjection(S, T)
    BY DEF Surjection
  <1> QED
    BY <1>1, FS_Surjection

LEMMA WalksAreFinite ==
    ASSUME NEW D, IsFiniteSet(D)
    PROVE  IsFiniteSet(UNION {Walk(v) : v \in D})
  <1> DEFINE f == [v \in D |-> Walk(v)]
  <1>1. {f[v] : v \in D} = {Walk(v) : v \in D}
    OBVIOUS
  <1>2. IsFiniteSet({f[v] : v \in D})
    <2>1. PICK g : g = f
      OBVIOUS
    <2>2. g = [v \in D |-> g[v]]
      BY <2>1
    <2> QED
      BY <2>1, <2>2, FiniteImage
  <1>3. ASSUME NEW v \in D PROVE IsFiniteSet(Walk(v))
    <2>1. PICK a, b, c : Walk(v) = {a, b, c}
      BY DEF Walk
    <2>2. IsFiniteSet({a}) /\ IsFiniteSet({a} \cup {b}) /\ IsFiniteSet({a} \cup {b} \cup {c})
      BY FS_Singleton, FS_AddElement
    <2>3. {a, b, c} = {a} \cup {b} \cup {c}
      OBVIOUS
    <2> QED
      BY <2>1, <2>2, <2>3
  <1>4. \A T \in {Walk(v) : v \in D} : IsFiniteSet(T)
    BY <1>3
  <1> QED
    BY <1>1, <1>2, <1>4, FS_UNION

LEMMA PagesOfIsFinite ==
    ASSUME NEW a \in Nat, NEW b \in Nat
    PROVE  IsFiniteSet(PagesOf(a, b))
  <1>1. Page(a) \in Nat /\ Page(b) \in Nat
    BY PageSizeIsCount, QuotientIsCount DEF Page
  <1> QED
    BY <1>1, FS_Interval DEF PagesOf

\* The pages of one region.
RegionPages(r) == PagesOf(paging_align_address(r.base),
                          paging_align_to_lower_page(r.base + r.length))

LEMMA RamPagesAreFinite ==
    ASSUME NEW map \in Seq(Region)
    PROVE  IsFiniteSet(RamPages(map))
  <1> DEFINE I == {j \in DOMAIN map : map[j].type = 1}
             f == [i \in I |-> RegionPages(map[i])]
  <1>1. IsFiniteSet(I)
    <2>1. DOMAIN map = 1 .. Len(map) /\ Len(map) \in Nat
      OBVIOUS
    <2>2. IsFiniteSet(1 .. Len(map))
      BY <2>1, FS_Interval
    <2>3. I \in SUBSET (1 .. Len(map))
      BY <2>1
    <2> QED
      BY <2>2, <2>3, FS_Subset
  <1>2. IsFiniteSet({f[i] : i \in I})
    <2>1. PICK J : J = I /\ IsFiniteSet(J)
      BY <1>1
    <2>2. PICK g : g = [i \in J |-> RegionPages(map[i])]
      OBVIOUS
    <2>3. g = [i \in J |-> g[i]]
      BY <2>2
    <2>4. IsFiniteSet({g[i] : i \in J})
      BY <2>1, <2>3, FiniteImage
    <2>5. {g[i] : i \in J} = {f[i] : i \in I}
      BY <2>1, <2>2
    <2> QED
      BY <2>4, <2>5
  <1>3. ASSUME NEW i \in I PROVE IsFiniteSet(f[i])
    <2>1. map[i] \in Region
      BY ElementOf
    <2>2. PICK a \in Nat : a = paging_align_address(map[i].base)
      BY <2>1, AlignUp DEF Region, Whole
    <2>3. PICK b \in Nat : b = paging_align_to_lower_page(map[i].base + map[i].length)
      <3>1. map[i].base + map[i].length \in Nat
        BY <2>1 DEF Region
      <3> QED
        BY <3>1, AlignDown DEF Whole
    <2>4. f[i] = PagesOf(a, b)
      BY <2>2, <2>3 DEF RegionPages
    <2> QED
      BY <2>4, PagesOfIsFinite
  <1>4. IsFiniteSet(UNION {f[i] : i \in I})
    BY <1>2, <1>3, FS_UNION
  <1>5. IsFiniteSet(PagesOf(0, LowMemory))
    BY PagesOfIsFinite, KernelMemoryAssumption
  <1>6. RamPages(map) = PagesOf(0, LowMemory) \cup UNION {f[i] : i \in I}
    BY DEF RamPages, RegionPages
  <1>7. PICK A : A = PagesOf(0, LowMemory) /\ IsFiniteSet(A)
    BY <1>5
  <1>8. PICK B : B = UNION {f[i] : i \in I} /\ IsFiniteSet(B)
    BY <1>4
  <1>9. IsFiniteSet(A \cup B)
    BY <1>7, <1>8, FS_Union
  <1> QED
    BY <1>6, <1>7, <1>8, <1>9

\* A page of one region, or the first of all, is one of memory.
LEMMA RamPagesContain ==
    ASSUME NEW map \in Seq(Region)
    PROVE  /\ 0 \in RamPages(map)
           /\ \A i \in DOMAIN map : RegionPages(map[i]) \subseteq RamPages(map)
  <1>1. 0 \in RamPages(map)
    <2>1. Whole(LowMemory) /\ PageSize <= LowMemory
      BY KernelMemoryAssumption DEF Whole
    <2>2. Whole(PageSize * 1) /\ Page(PageSize * 1) = 1 /\ PageSize * 1 = PageSize
      BY PagesAreWhole, PageSizeIsCount
    <2>3. Whole(PageSize * 0) /\ Page(PageSize * 0) = 0 /\ PageSize * 0 = 0
      BY PagesAreWhole, PageSizeIsCount
    <2>4. 1 <= Page(LowMemory) /\ Page(LowMemory) \in Nat
      BY <2>1, <2>2, WholeOrder, WholePages
    <2>5. 0 \in PagesOf(0, LowMemory)
      BY <2>3, <2>4 DEF PagesOf
    <2> QED
      BY <2>5 DEF RamPages
  <1>2. ASSUME NEW i \in DOMAIN map
        PROVE  RegionPages(map[i]) \subseteq RamPages(map)
    <2>1. map[i] \in Region
      BY ElementOf
    <2>2. map[i].type = 1
      BY <2>1 DEF Region
    <2> QED
      BY <2>2 DEF RamPages, RegionPages
  <1> QED
    BY <1>1, <1>2

-----------------------------------------------------------------------------
(* What the heap keeps *)

LEMMA HeapIsCounted ==
    ASSUME HeapInv
    PROVE  /\ heap.entries \in Nat /\ Page(heap.saddr) \in Nat
           /\ Whole(heap.saddr) /\ Whole(heap.eaddr)
           /\ Page(heap.eaddr) = Page(heap.saddr) + heap.entries
           /\ HeapPages = Page(heap.saddr) .. Page(heap.saddr) + heap.entries - 1
           /\ heap = NoHeap => heap.entries = 0
  <1>1. CASE heap = NoHeap
    <2>1. Whole(PageSize * 0) /\ Page(PageSize * 0) = 0 /\ PageSize * 0 = 0
      BY PagesAreWhole, PageSizeIsCount
    <2>2. heap.entries = 0 /\ heap.saddr = 0 /\ heap.eaddr = 0
      BY <1>1 DEF NoHeap
    <2> QED
      BY <2>1, <2>2 DEF HeapPages, PagesOf
  <1>2. CASE heap # NoHeap
    <2>1. PICK i \in DOMAIN ram : Lies(heap, ram[i])
      BY <1>2 DEF HeapInv
    <2>2. PICK s \in Nat : s = heap.saddr /\ Whole(s)
      BY <2>1 DEF Lies, Whole
    <2>3. PICK e \in Nat : e = heap.eaddr /\ Whole(e)
      BY <2>1 DEF Lies, Whole
    <2>4. PICK n \in Nat : n = heap.entries /\ PageSize * n = e - s /\ 3 <= n
      BY <2>1, <2>2, <2>3 DEF Lies
    <2>5. PICK p \in Nat : p = Page(s) /\ s = PageSize * p
      BY <2>2, WholePages
    <2>6. Page(e) = p + n
      <3>1. PageSize * (p + n) = PageSize * p + PageSize * n /\ p + n \in Nat
        BY PageSizeIsCount
      <3>2. e = PageSize * (p + n)
        BY <2>4, <2>5, <3>1, PageSizeIsCount
      <3> QED
        BY <3>1, <3>2, PagesAreWhole
    <2> QED
      <3>1. HeapPages = Page(s) .. Page(e) - 1
        BY <2>2, <2>3 DEF HeapPages, PagesOf
      <3>2. HeapPages = p .. p + n - 1
        <4>1. PICK b \in Int : b = Page(e) - 1 /\ b = p + n - 1
          BY <2>6
        <4>2. HeapPages = p .. b
          BY <2>5, <3>1, <4>1
        <4> QED
          BY <4>1, <4>2
      <3> QED
        BY <1>2, <2>2, <2>3, <2>4, <2>5, <2>6, <3>2
  <1> QED
    BY <1>1, <1>2

\* All pages of the heap are mapped as memory.
LEMMA HeapIsInRam ==
    ASSUME HeapInv
    PROVE  HeapPages \subseteq RamPages(ram)
  <1>1. CASE heap = NoHeap
    <2>1. HeapPages = {}
      BY <1>1, HeapIsCounted
    <2> QED
      BY <2>1
  <1>2. CASE heap # NoHeap
    <2>1. PICK i \in DOMAIN ram : Lies(heap, ram[i])
      BY <1>2 DEF HeapInv
    <2>2. ram \in Seq(Region)
      BY DEF HeapInv
    <2>3. PICK r \in Region : r = ram[i]
      BY <2>2, ElementOf
    <2>4. PICK a \in Nat : a = r.base
      BY DEF Region
    <2>5. PICK z \in Nat : z = r.base + r.length
      BY DEF Region
    <2>6. /\ a <= heap.table /\ heap.table \in Nat /\ heap.table <= heap.saddr
          /\ heap.eaddr <= z /\ Whole(heap.saddr) /\ Whole(heap.eaddr)
      BY <2>1, <2>3, <2>4, <2>5 DEF Lies
    <2>7. PICK s \in Nat : s = heap.saddr /\ Whole(s) /\ a <= s
      BY <2>6 DEF Whole
    <2>8. PICK e \in Nat : e = heap.eaddr /\ Whole(e) /\ e <= z
      BY <2>6 DEF Whole
    <2>9. PICK u : u = paging_align_address(a) /\ Whole(u) /\ u <= s
      BY <2>7, AlignUp, AlignNearest
    <2>10. PICK l : l = paging_align_to_lower_page(z) /\ Whole(l) /\ e <= l
      BY <2>8, AlignDown, AlignNearest
    <2>11. /\ Page(u) <= Page(s) /\ Page(e) <= Page(l)
           /\ Page(u) \in Nat /\ Page(s) \in Nat /\ Page(e) \in Nat /\ Page(l) \in Nat
      BY <2>7, <2>8, <2>9, <2>10, WholeOrder, WholePages
    <2>12. RegionPages(r) = Page(u) .. Page(l) - 1
      BY <2>4, <2>5, <2>9, <2>10 DEF RegionPages, PagesOf
    <2>13. HeapPages = Page(s) .. Page(e) - 1
      BY <2>7, <2>8 DEF HeapPages, PagesOf
    <2>14. HeapPages \subseteq RegionPages(r)
      BY <2>11, <2>12, <2>13
    <2> QED
      BY <2>2, <2>3, <2>14, RamPagesContain
  <1> QED
    BY <1>1, <1>2

-----------------------------------------------------------------------------
(* Address spaces *)

\* The entries l after the pages of "to" are mapped over them.
Mapped(l, to, f) ==
    [v \in DOMAIN l \cup DOMAIN to |->
        IF v \in DOMAIN to THEN [phys |-> to[v], flags |-> f] ELSE l[v]]

Walks(D) == UNION {Walk(v) : v \in D}

LEMMA MapsOver ==
    ASSUME NEW d, Built(d), NEW to, IsFiniteSet(DOMAIN to), NEW f
    PROVE  /\ Built(paging_map(d, to, f))
           /\ paging_map(d, to, f).leaf = Mapped(d.leaf, to, f)
           /\ paging_map(d, to, f).mapped = d.mapped
  <1>1. PICK l : l = Mapped(d.leaf, to, f)
    OBVIOUS
  <1>2. PICK W : W = Walks(DOMAIN to) /\ IsFiniteSet(W)
    BY WalksAreFinite DEF Walks
  <1>3. PICK t : t = d.tables /\ IsFiniteSet(t \cup W)
    BY <1>2, FS_Union DEF Built
  <1>4. PICK n : n = [d EXCEPT !.tables = t \cup W, !.leaf = l]
    OBVIOUS
  <1>5. paging_map(d, to, f) = n
    BY <1>1, <1>2, <1>3, <1>4 DEF paging_map, Mapped, Walks
  <1>6. DOMAIN d = DescFields
    BY DEF Built
  <1>7. DOMAIN n = DescFields /\ n.tables = t \cup W /\ n.leaf = l /\ n.mapped = d.mapped
    BY <1>4, <1>6 DEF DescFields
  <1>8. DOMAIN l = DOMAIN d.leaf \cup DOMAIN to
    BY <1>1 DEF Mapped
  <1>9. \A v \in DOMAIN to : Walk(v) \subseteq W
    BY <1>2 DEF Walks
  <1>10. \A v \in DOMAIN l : Walk(v) \subseteq t \cup W
    BY <1>3, <1>8, <1>9 DEF Built
  <1>11. Built(n)
    BY <1>3, <1>7, <1>10 DEF Built
  <1> QED
    BY <1>1, <1>5, <1>7, <1>11

LEMMA MarkedIsBuilt ==
    ASSUME NEW d, Built(d)
    PROVE  /\ Built([d EXCEPT !.mapped = TRUE])
           /\ [d EXCEPT !.mapped = TRUE].leaf = d.leaf
  <1>1. PICK n : n = [d EXCEPT !.mapped = TRUE]
    OBVIOUS
  <1>2. DOMAIN d = DescFields
    BY DEF Built
  <1>3. DOMAIN n = DescFields /\ n.tables = d.tables /\ n.leaf = d.leaf
    BY <1>1, <1>2 DEF DescFields
  <1>4. Built(n)
    BY <1>3 DEF Built
  <1> QED
    BY <1>1, <1>3, <1>4

LEMMA NothingIsBuilt == Built(NoDesc) /\ DOMAIN NoDesc.leaf = {} /\ ~NoDesc.mapped
  <1>1. DOMAIN <<>> = {}
    OBVIOUS
  <1>2. DOMAIN NoDesc = DescFields /\ NoDesc.tables = {} /\ NoDesc.leaf = <<>> /\ NoDesc.mapped = FALSE
    BY DEF NoDesc, DescFields
  <1> QED
    BY <1>1, <1>2, FS_EmptySet DEF Built

\* What is handed out for the tables of an address space and n blocks besides.
LEMMA RebuiltTakes ==
    ASSUME HeapInv, NEW o, NEW d, Built(d), NEW n \in Nat, Rebuilt(o, d, n)
    PROVE  /\ taken' \in Nat /\ taken' <= heap.entries
           /\ ~wild' => taken + n <= taken'
           /\ descs' = [descs EXCEPT ![o] = d]
  <1>1. IsFiniteSet(d.tables)
    BY DEF Built
  <1>3. PICK c \in Nat : c = Cardinality(d.tables \ descs[o].tables)
    <2>1. PICK S : S = d.tables \ descs[o].tables
      OBVIOUS
    <2>2. IsFiniteSet(S)
      BY <1>1, <2>1, FS_Difference
    <2> QED
      BY <2>1, <2>2, FS_CardinalityType
  <1>4. heap.entries \in Nat /\ taken \in Nat
    BY HeapIsCounted DEF HeapInv
  <1>5. PICK e \in Nat : e = heap.entries
    BY <1>4
  <1>6. PICK b \in Nat : b = c + n
    OBVIOUS
  <1>7. /\ taken' = IF taken + b <= e THEN taken + b ELSE e
        /\ descs' = [descs EXCEPT ![o] = d]
        /\ ~wild' => taken + b <= e
    <2>1. ~wild' => Fits(Cardinality(d.tables \ descs[o].tables) + n)
      BY Zenon DEF Rebuilt
    <2>2. ~wild' => taken + b <= e
      BY <1>3, <1>5, <1>6, <2>1 DEF Fits
    <2> QED
      BY <1>3, <1>5, <1>6, <2>2 DEF Rebuilt, Fits
  <1>8. CASE taken + b <= e
    BY <1>4, <1>5, <1>6, <1>7, <1>8
  <1>9. CASE ~(taken + b <= e)
    BY <1>5, <1>7, <1>9
  <1> QED
    BY <1>8, <1>9

-----------------------------------------------------------------------------
(* Steps of the boot *)

\* A step that hands out blocks, and no more.
LEMMA TakingKeeps ==
    ASSUME BInv, UNCHANGED <<heap, heaps, descs, screen, guard, copied, loaderVars, machine>>,
           taken' \in Nat, taken <= taken', taken' <= heap.entries,
           wild => wild',
           stage' \in BeforeHeap => stage \in BeforeHeap,
           stage' \in BeforeTables => stage \in BeforeTables,
           stage' \in BeforeScreen => stage \in BeforeScreen,
           stage' \in BeforeGuard => stage \in BeforeGuard
    PROVE  BInv'
  <1>1. ram' = ram /\ used' = used
    BY DEF loaderVars
  <1>2. HeapInv'
    BY <1>1 DEF BInv, HeapInv
  <1>3. Page(heap.saddr) \in Nat /\ taken \in Nat
    BY HeapIsCounted DEF BInv, HeapInv
  <1>4. DescInv'
    <2>1. ASSUME ~wild', NEW p \in screen.seen
          PROVE  p \in Int /\ p < Page(heap.saddr) + taken'
      BY <1>3, <2>1 DEF BInv, DescInv
    <2> QED
      BY <2>1 DEF BInv, DescInv
  <1>5. MapInv'
    BY <1>1 DEF BInv, MapInv, Shows, HeapPages
  <1> QED
    BY <1>2, <1>4, <1>5 DEF BInv

\* A step that gives o the address space d.
LEMMA SpaceKeeps ==
    ASSUME BInv, ~wild, UNCHANGED <<heap, heaps, loaderVars, machine>>,
           taken' \in Nat, taken' <= heap.entries,
           NEW o \in Owners, NEW d, Built(d), descs' = [descs EXCEPT ![o] = d],
           copied' = [q \in Owners |-> copied'[q]],
           \A q \in Owners : q # o => copied'[q] = copied[q],
           o # KERNEL => screen' = screen /\ guard' = guard,
           stage' \notin BeforeTables,
           stage' \in BeforeScreen => screen'.seen = {},
           stage' \in BeforeGuard => guard' = {},
           ~wild' => \A p \in screen'.seen : p \in Int /\ p < Page(heap.saddr) + taken',
           ~wild' /\ d.mapped => Shows(o, d.leaf, RamPages(ram), HeapPages, screen', guard', copied'[o])
    PROVE  BInv'
  <1>1. ram' = ram /\ used' = used
    BY DEF loaderVars
  <1>2. BeforeHeap \subseteq BeforeTables
    BY DEF BeforeTables
  <1>3. HeapInv'
    BY <1>1, <1>2 DEF BInv, HeapInv
  <1>4. descs = [q \in Owners |-> descs[q]] /\ \A q \in Owners : Built(descs[q])
    BY DEF BInv, DescInv
  <1>5. /\ descs' = [q \in Owners |-> descs'[q]] /\ descs'[o] = d
        /\ \A q \in Owners : q # o => descs'[q] = descs[q]
    BY <1>4
  <1>6. \A q \in Owners : Built(descs'[q])
    BY <1>4, <1>5
  <1>7. DescInv'
    BY <1>5, <1>6 DEF DescInv
  <1>8. HeapPages' = HeapPages
    BY DEF HeapPages
  <1>9. MapInv'
    <2>1. SUFFICES ASSUME ~wild', NEW q \in Owners, descs'[q].mapped
                   PROVE  Shows(q, descs'[q].leaf, RamPages(ram), HeapPages,
                                screen', guard', copied'[q])
      BY <1>1, <1>8 DEF MapInv
    <2>2. CASE q = o
      BY <1>5, <2>1, <2>2
    <2>3. CASE q # o
      <3>1. descs'[q] = descs[q] /\ copied'[q] = copied[q]
        BY <1>5, <2>3
      <3>2. Shows(q, descs[q].leaf, RamPages(ram), HeapPages, screen, guard, copied[q])
        BY <2>1, <3>1 DEF BInv, MapInv
      <3>3. q = KERNEL => screen' = screen /\ guard' = guard
        BY <2>3
      <3>4. \A p : EntryIs(q, p, descs[q].leaf[p], screen, guard, copied[q]) =>
                   EntryIs(q, p, descs[q].leaf[p], screen', guard', copied[q])
        BY <3>3 DEF EntryIs
      <3> QED
        BY <3>1, <3>2, <3>4 DEF Shows
    <2> QED
      BY <2>2, <2>3
  <1> QED
    BY <1>3, <1>7, <1>9 DEF BInv

\* An address space of all memory.
LEMMA MemorySpace ==
    ASSUME BInv, NEW d,
           d = paging_map(NoDesc, Same(RamPages(ram)), {PRESENT, WRITEABLE})
    PROVE  /\ Built(d) /\ Built([d EXCEPT !.mapped = TRUE])
           /\ [d EXCEPT !.mapped = TRUE].leaf = d.leaf
           /\ \A o, g, lent, scr : (o = KERNEL => scr.seen = {} /\ g = {}) =>
                Shows(o, d.leaf, RamPages(ram), HeapPages, scr, g, lent)
  <1>1. PICK M : M = RamPages(ram) /\ IsFiniteSet(M) /\ HeapPages \subseteq M
    BY RamPagesAreFinite, HeapIsInRam DEF BInv, HeapInv
  <1>2. PICK to : to = Same(M) /\ DOMAIN to = M /\ \A p \in M : to[p] = p
    <2>1. DOMAIN Same(M) = M /\ \A p \in M : Same(M)[p] = p
      BY DEF Same
    <2> QED
      BY <2>1
  <1>3. PICK F : F = {PRESENT, WRITEABLE}
    OBVIOUS
  <1>4. Built(d) /\ d.leaf = Mapped(NoDesc.leaf, to, F)
    BY <1>1, <1>2, <1>3, MapsOver, NothingIsBuilt
  <1>5. PRESENT \in F /\ WRITEABLE \in F /\ ALL \notin F
    BY <1>3 DEF PRESENT, WRITEABLE, ALL
  <1>6. DOMAIN d.leaf = M /\ \A p \in M : d.leaf[p] = [phys |-> p, flags |-> F]
    BY <1>2, <1>4, NothingIsBuilt DEF Mapped
  <1>7. \A p \in M : d.leaf[p].phys = p /\ d.leaf[p].flags = F
    <2>1. ASSUME NEW p \in M
          PROVE  d.leaf[p].phys = p /\ d.leaf[p].flags = F
      <3>1. PICK x : x = d.leaf[p] /\ x = [phys |-> p, flags |-> F]
        BY <1>6
      <3> QED
        BY <3>1
    <2> QED
      BY <2>1
  <1>8. ASSUME NEW o, NEW g, NEW lent, NEW scr, o = KERNEL => scr.seen = {} /\ g = {}
        PROVE  Shows(o, d.leaf, M, HeapPages, scr, g, lent)
    BY <1>1, <1>5, <1>6, <1>7, <1>8 DEF Shows, EntryIs
  <1> QED
    BY <1>1, <1>4, <1>8, MarkedIsBuilt

LEMMA SetUpPagingKeeps ==
    ASSUME BInv, SetUpPaging
    PROVE  BInv'
  <1>1. stage = "paging" /\ ~wild /\ stage' = "graphics" /\ machine' = machine
        /\ UNCHANGED loaderVars
    BY DEF SetUpPaging, Step, devices
  <1>2. PICK e : e = paging_map(NoDesc, Same(RamPages(ram)), {PRESENT, WRITEABLE})
    OBVIOUS
  <1>3. PICK d : d = [e EXCEPT !.mapped = TRUE]
    OBVIOUS
  <1>4. /\ Rebuilt(KERNEL, d, 2) \/ (wild' = TRUE /\ UNCHANGED <<taken, descs>>)
        /\ UNCHANGED <<heap, heaps, screen, guard, copied>>
    BY <1>2, <1>3, Zenon DEF SetUpPaging, paging_desc_new
  <1>5. KERNEL \in Owners
    BY DEF Owners
  <1>6. stage \in BeforeScreen /\ stage \in BeforeGuard
    BY <1>1 DEF BeforeGuard, BeforeScreen, BeforeTables
  <1>7. screen.seen = {} /\ guard = {} /\ copied = [o \in Owners |-> copied[o]]
    BY <1>6 DEF BInv, DescInv
  <1>8. Built(d) /\ Shows(KERNEL, d.leaf, RamPages(ram), HeapPages, screen, guard, copied[KERNEL])
    BY <1>2, <1>3, <1>7, MemorySpace
  <1>9. CASE Rebuilt(KERNEL, d, 2)
    <2>1. /\ taken' \in Nat /\ taken' <= heap.entries
          /\ descs' = [descs EXCEPT ![KERNEL] = d]
      BY <1>8, <1>9, RebuiltTakes DEF BInv
    <2>2. stage' \notin BeforeTables
      BY <1>1 DEF BeforeTables, BeforeHeap
    <2> QED
      BY <1>1, <1>4, <1>5, <1>7, <1>8, <2>1, <2>2, SpaceKeeps
  <1>10. CASE wild' = TRUE /\ UNCHANGED <<taken, descs>>
    <2>1. taken \in Nat /\ taken <= taken /\ taken <= heap.entries
      BY HeapIsCounted DEF BInv, HeapInv
    <2>2. stage' \notin BeforeHeap /\ stage' \notin BeforeTables
      BY <1>1 DEF BeforeTables, BeforeHeap
    <2> QED
      BY <1>1, <1>4, <1>6, <1>10, <2>1, <2>2, TakingKeeps
  <1> QED
    BY <1>4, <1>9, <1>10

\* A program lies below the heap.
LEMMA ProgramIsLow ==
    ASSUME HeapInv
    PROVE  ProgramPage \notin HeapPages /\ ProgramPage - 1 \notin HeapPages
  <1>1. CASE heap = NoHeap
    <2>1. HeapPages = {}
      BY <1>1, HeapIsCounted
    <2> QED
      BY <2>1
  <1>2. CASE heap # NoHeap
    <2>1. PICK i \in DOMAIN ram : Lies(heap, ram[i])
      BY <1>2 DEF HeapInv
    <2>2. PICK q \in Nat : q = ProgramPage + 1 /\ q * PageSize <= TableAddress
      BY KernelMemoryAssumption
    <2>3. ProgramPage \in Nat /\ TableAddress \in Nat
      BY KernelMemoryAssumption
    <2>4. PageSize * q \in Nat /\ PageSize * q = q * PageSize
      BY PageSizeIsCount
    <2>5. Whole(PageSize * q) /\ Page(PageSize * q) = q
      BY PagesAreWhole
    <2>6. PICK s \in Nat : s = heap.saddr /\ Whole(s) /\ TableAddress <= s
      BY <2>1, <2>3 DEF Lies, Whole
    <2>7. q <= Page(s) /\ Page(s) \in Nat
      BY <2>2, <2>3, <2>4, <2>5, <2>6, WholeOrder, WholePages
    <2>8. \A p \in HeapPages : Page(s) <= p
      BY <2>6, HeapIsCounted
    <2> QED
      BY <2>2, <2>3, <2>7, <2>8
  <1> QED
    BY <1>1, <1>2

\* In RUNNING and at the shell, a process gets an address space of its own.
LEMMA LoadKeeps ==
    ASSUME BInv, ~wild, NEW q \in Processes, process_load(q, ram),
           UNCHANGED <<loaderVars, machine>>, stage' = "RUNNING"
    PROVE  BInv'
  <1>1. PICK e : e = paging_map(NoDesc, Same(RamPages(ram)), {PRESENT, WRITEABLE})
    OBVIOUS
  <1>2. PICK to : to = [v \in {ProgramPage, ProgramPage - 1} |->
                            IF v = ProgramPage THEN Block(0) ELSE Block(1)]
    OBVIOUS
  <1>3. PICK F : F = {PRESENT, WRITEABLE, ALL}
    OBVIOUS
  <1>4. PICK c : c = paging_map(e, to, F)
    OBVIOUS
  <1>5. PICK d : d = [c EXCEPT !.mapped = TRUE]
    OBVIOUS
  <1>6. Rebuilt(q, d, 4) /\ UNCHANGED <<heap, heaps, screen, guard, copied>>
    BY <1>1, <1>2, <1>3, <1>4, <1>5 DEF process_load
  <1>7. q \in Owners /\ q # KERNEL
    BY KernelMemoryAssumption DEF Owners
  <1>8. Built(e) /\ Shows(q, e.leaf, RamPages(ram), HeapPages, screen, guard, copied[q])
    BY <1>1, <1>7, MemorySpace
  <1>9. DOMAIN to = {ProgramPage, ProgramPage - 1}
    BY <1>2
  <1>10. IsFiniteSet(DOMAIN to)
    <2>1. PICK a, b : a = ProgramPage /\ b = ProgramPage - 1
      OBVIOUS
    <2>2. DOMAIN to = {a} \cup {b}
      BY <1>9, <2>1
    <2>3. IsFiniteSet({a}) /\ IsFiniteSet({a} \cup {b})
      BY FS_Singleton, FS_AddElement
    <2> QED
      BY <2>2, <2>3
  <1>11. Built(d) /\ d.leaf = Mapped(e.leaf, to, F)
    BY <1>4, <1>5, <1>8, <1>10, MapsOver, MarkedIsBuilt
  <1>12. \A p \in HeapPages : p \notin DOMAIN to
    BY <1>9, ProgramIsLow DEF BInv
  <1>13. HeapPages \subseteq DOMAIN e.leaf
    BY <1>8, HeapIsInRam DEF BInv, Shows
  <1>14. Shows(q, d.leaf, RamPages(ram), HeapPages, screen, guard, copied[q])
    <2>1. PICK l : l = d.leaf /\ l = Mapped(e.leaf, to, F)
      BY <1>11
    <2>2. DOMAIN e.leaf \subseteq DOMAIN l
      BY <2>1 DEF Mapped
    <2>3. \A p \in HeapPages : l[p] = e.leaf[p]
      BY <1>12, <1>13, <2>1 DEF Mapped
    <2> QED
      BY <1>8, <2>1, <2>2, <2>3 DEF Shows
  <1>15. /\ taken' \in Nat /\ taken' <= heap.entries
         /\ ~wild' => taken + 4 <= taken'
         /\ descs' = [descs EXCEPT ![q] = d]
    BY <1>6, <1>11, RebuiltTakes DEF BInv
  <1>16. stage' \notin BeforeTables /\ stage' \notin BeforeScreen /\ stage' \notin BeforeGuard
    BY DEF BeforeTables, BeforeHeap, BeforeScreen, BeforeGuard
  <1>17. copied = [o \in Owners |-> copied[o]]
    BY DEF BInv, DescInv
  <1>18. ~wild' => \A p \in screen'.seen : p \in Int /\ p < Page(heap.saddr) + taken'
    <2>1. Page(heap.saddr) \in Nat /\ taken \in Nat
      BY HeapIsCounted DEF BInv, HeapInv
    <2>2. \A p \in screen.seen : p \in Int /\ p < Page(heap.saddr) + taken
      BY DEF BInv, DescInv
    <2>3. screen' = screen
      BY <1>6
    <2>4. ASSUME ~wild', NEW p \in screen.seen
          PROVE  p \in Int /\ p < Page(heap.saddr) + taken'
      <3>1. taken + 4 <= taken' /\ taken' \in Nat
        BY <1>15, <2>4
      <3>2. p \in Int /\ p < Page(heap.saddr) + taken
        BY <2>2, <2>4
      <3> QED
        BY <2>1, <3>1, <3>2
    <2> QED
      BY <2>3, <2>4
  <1>19. /\ copied' = [o \in Owners |-> copied'[o]] /\ \A o \in Owners : copied'[o] = copied[o]
         /\ Shows(q, d.leaf, RamPages(ram), HeapPages, screen', guard', copied'[q])
    BY <1>6, <1>14, <1>17
  <1>20. UNCHANGED <<heap, heaps, loaderVars, machine>> /\ screen' = screen /\ guard' = guard
    BY <1>6
  <1>21. Built(d) /\ descs' = [descs EXCEPT ![q] = d] /\ taken' \in Nat /\ taken' <= heap.entries
    BY <1>11, <1>15
  <1> QED
    BY <1>7, <1>16, <1>18, <1>19, <1>20, <1>21, SpaceKeeps

BeforePci ==
    /\ stage = "graphics" /\ stage' = "pci_init" /\ machine' = machine
    /\ UNCHANGED <<heap, heaps, guard, copied, loaderVars>>

\* The addresses of the first buffer, and the framebuffer's pages they lead to.
ShowsScreen(fb, n, to) ==
    /\ fb.size % PageSize = 0
    /\ n = Page(fb.size)
    /\ to = [v \in Block(0) .. Block(n - 1) |-> Page(fb.base) + v - Block(0)]
    /\ Rebuilt(KERNEL, paging_map(descs[KERNEL], to, {PRESENT, WRITEABLE}), 2 * n)
    /\ screen' = [real |-> PagesOf(fb.base, fb.base + fb.size),
                  seen |-> Block(0) .. Block(n - 1)]

LEMMA ScreenKeeps ==
    ASSUME BInv, ~wild, BeforePci, NEW fb \in [base : Nat, size : Nat], NEW n, NEW to,
           ShowsScreen(fb, n, to)
    PROVE  BInv'
  <1>1. PICK b \in Nat : b = Block(0) /\ b = Page(heap.saddr) + taken
    <2>1. Page(heap.saddr) \in Nat /\ taken \in Nat
      BY HeapIsCounted DEF BInv, HeapInv
    <2> QED
      BY <2>1 DEF Block
  <1>2. n \in Nat /\ fb.size = PageSize * n /\ fb.base \in Nat
    <2>1. PICK z \in Nat : z = fb.size
      OBVIOUS
    <2>2. Whole(z) /\ n = Page(z)
      BY <2>1 DEF Whole, ShowsScreen
    <2> QED
      BY <2>1, <2>2, WholePages
  <1>3. Block(n - 1) = b + n - 1
    <2>1. Page(heap.saddr) \in Nat /\ taken \in Nat
      BY HeapIsCounted DEF BInv, HeapInv
    <2> QED
      BY <1>1, <1>2, <2>1 DEF Block
  <1>4. PICK S : S = b .. b + n - 1 /\ S = Block(0) .. Block(n - 1)
    BY <1>1, <1>3
  <1>5. PICK p \in Nat : p = Page(fb.base)
    BY <1>2, PageSizeIsCount, QuotientIsCount DEF Page
  <1>6. PagesOf(fb.base, fb.base + fb.size) = p .. p + n - 1
    <2>1. PICK r \in 0 .. PageSize - 1 : r = fb.base % PageSize
      BY <1>2, PageSizeIsCount, QuotientIsCount
    <2>2. fb.base = PageSize * p + r
      BY <1>2, <1>5, <2>1, PageSizeIsCount, DivisionParts DEF Page
    <2>3. PageSize * (p + n) = PageSize * p + PageSize * n /\ p + n \in Nat
      BY <1>2, PageSizeIsCount
    <2>4. PageSize * p \in Nat /\ PageSize * n \in Nat /\ PageSize * (p + n) \in Nat
      BY <1>2, <2>3, PageSizeIsCount
    <2>5. fb.base + fb.size = PageSize * (p + n) + r
      BY <1>2, <2>2, <2>3, <2>4
    <2>6. Page(fb.base + fb.size) = p + n
      BY <2>3, <2>5, PageSizeIsCount, DivisionIsUnique DEF Page
    <2>7. PICK y \in Nat : y = Page(fb.base + fb.size) /\ y = p + n
      BY <2>3, <2>6
    <2>8. y - 1 = p + n - 1
      BY <1>2, <1>5, <2>7
    <2> QED
      BY <1>5, <2>7, <2>8 DEF PagesOf
  <1>7. DOMAIN to = S /\ \A v \in S : to[v] = p + v - b
    BY <1>1, <1>4, <1>5 DEF ShowsScreen
  <1>8. IsFiniteSet(DOMAIN to)
    BY <1>2, <1>4, <1>7, FS_Interval
  <1>9. PICK F : F = {PRESENT, WRITEABLE}
    OBVIOUS
  <1>10. PICK k : k = descs[KERNEL] /\ Built(k) /\ KERNEL \in Owners
    BY DEF BInv, DescInv, Owners
  <1>11. PICK d : d = paging_map(k, to, F)
    OBVIOUS
  <1>12. Built(d) /\ d.mapped = k.mapped
    BY <1>8, <1>10, <1>11, MapsOver
  <1>13. PICK l : l = d.leaf /\ l = Mapped(k.leaf, to, F)
    BY <1>8, <1>10, <1>11, MapsOver
  <1>14. Rebuilt(KERNEL, d, 2 * n) /\ 2 * n \in Nat
    <2>1. 2 * n \in Nat
      BY <1>2
    <2>2. Rebuilt(KERNEL, paging_map(descs[KERNEL], to, {PRESENT, WRITEABLE}), 2 * n)
      BY DEF ShowsScreen
    <2>3. d = paging_map(descs[KERNEL], to, {PRESENT, WRITEABLE})
      BY <1>9, <1>10, <1>11
    <2>4. Rebuilt(KERNEL, d, 2 * n)
      BY <2>2, <2>3
    <2> QED
      BY <2>1, <2>4
  <1>15. /\ taken' \in Nat /\ taken' <= heap.entries
         /\ ~wild' => taken + 2 * n <= taken'
    BY <1>12, <1>14, RebuiltTakes DEF BInv
  <1>16. descs' = [descs EXCEPT ![KERNEL] = d]
    BY <1>12, <1>14, RebuiltTakes DEF BInv
  <1>17. screen'.seen = S /\ screen'.real = p .. p + n - 1
    BY <1>4, <1>6 DEF ShowsScreen
  <1>18. stage' \notin BeforeTables /\ stage' \notin BeforeScreen
    BY DEF BeforeTables, BeforeHeap, BeforeScreen, BeforePci
  <1>19. guard = {} /\ screen.seen = {} /\ guard' = {}
    <2>1. stage \in BeforeScreen /\ stage \in BeforeGuard
      BY DEF BeforeScreen, BeforeGuard, BeforePci
    <2> QED
      BY <2>1 DEF BInv, DescInv, BeforePci
  <1>20. ~wild' => \A v \in screen'.seen : v \in Int /\ v < Page(heap.saddr) + taken'
    <2>1. Page(heap.saddr) \in Nat /\ taken \in Nat
      BY HeapIsCounted DEF BInv, HeapInv
    <2>2. ASSUME ~wild', NEW v \in S
          PROVE  v \in Int /\ v < Page(heap.saddr) + taken'
      <3>1. taken + 2 * n <= taken' /\ taken' \in Nat
        BY <1>15, <2>2
      <3>2. v \in Int /\ v <= b + n - 1
        BY <1>2, <1>4
      <3> QED
        BY <1>1, <1>2, <2>1, <3>1, <3>2
    <2> QED
      BY <1>17, <2>2
  <1>21. k.mapped => Shows(KERNEL, l, RamPages(ram), HeapPages, screen', guard', copied'[KERNEL])
    <2>1. SUFFICES ASSUME k.mapped
                   PROVE  Shows(KERNEL, l, RamPages(ram), HeapPages, screen', {}, copied[KERNEL])
      BY <1>19 DEF BeforePci
    <2>2. Shows(KERNEL, k.leaf, RamPages(ram), HeapPages, screen, {}, copied[KERNEL])
      BY <1>10, <1>19, <2>1 DEF BInv, MapInv
    <2>3. DOMAIN l = DOMAIN k.leaf \cup S
      BY <1>7, <1>13 DEF Mapped
    <2>4. ASSUME NEW v \in HeapPages
          PROVE  EntryIs(KERNEL, v, l[v], screen', {}, copied[KERNEL])
      <3>1. CASE v \in S
        <4>1. PICK x : x = l[v] /\ x = [phys |-> to[v], flags |-> F]
          BY <1>7, <1>13, <3>1 DEF Mapped
        <4>2. x.phys = p + v - b
          BY <1>7, <3>1, <4>1
        <4>3. x.phys \in p .. p + n - 1
          BY <1>2, <1>4, <3>1, <4>2
        <4> QED
          BY <1>17, <3>1, <4>1, <4>3 DEF EntryIs
      <3>2. CASE v \notin S
        <4>1. v \in DOMAIN k.leaf
          BY <2>2, HeapIsInRam DEF BInv, Shows
        <4>2. l[v] = k.leaf[v]
          BY <1>7, <1>13, <3>2, <4>1 DEF Mapped
        <4>3. EntryIs(KERNEL, v, k.leaf[v], screen, {}, copied[KERNEL])
          BY <2>2 DEF Shows
        <4> QED
          BY <1>17, <1>19, <3>2, <4>2, <4>3 DEF EntryIs
      <3> QED
        BY <3>1, <3>2
    <2> QED
      BY <2>2, <2>3, <2>4 DEF Shows
  <1>22. copied' = [o \in Owners |-> copied'[o]] /\ \A o \in Owners : copied'[o] = copied[o]
    BY DEF BInv, DescInv, BeforePci
  <1>23. UNCHANGED <<heap, heaps, loaderVars, machine>>
    BY DEF BeforePci
  <1>24. taken' \in Nat /\ taken' <= heap.entries
    BY <1>15
  <1>25. d.mapped => Shows(KERNEL, d.leaf, RamPages(ram), HeapPages, screen', guard', copied'[KERNEL])
    BY <1>12, <1>13, <1>21
  <1> QED
    BY <1>10, <1>12, <1>16, <1>18, <1>19, <1>20, <1>22, <1>23, <1>24, <1>25, SpaceKeeps

LEMMA SetUpGraphicsKeeps ==
    ASSUME BInv, SetUpGraphics
    PROVE  BInv'
  <1>1. BeforePci /\ ~wild
    BY DEF SetUpGraphics, Step, devices, BeforePci
  <1>2. PICK fb \in [base : Nat, size : Nat] : fb = machine.framebuffer
    BY BootAssumption DEF BInv, HeapInv
  <1>3. PICK n \in Nat : n = Page(paging_align_address(fb.size))
    <2>1. fb.size \in Nat
      OBVIOUS
    <2> QED
      BY <2>1, AlignUp, WholePages
  <1>4. taken \in Nat /\ heap.entries \in Nat /\ taken <= heap.entries
    BY HeapIsCounted DEF BInv, HeapInv
  <1>5. /\ stage' \notin BeforeHeap /\ stage' \notin BeforeTables
        /\ stage' \in BeforeScreen => stage \in BeforeScreen
        /\ stage' \in BeforeGuard => stage \in BeforeGuard
    BY <1>1 DEF BeforePci, BeforeHeap, BeforeTables, BeforeScreen, BeforeGuard
  <1>6. UNCHANGED <<heap, heaps, guard, copied, loaderVars, machine>>
    BY <1>1 DEF BeforePci
  <1>7. graphics_setup(fb)
    BY <1>2 DEF SetUpGraphics
  <1>8. CASE ~Fits(2 * n)
    <2>1. wild' = TRUE /\ UNCHANGED <<taken, descs, screen>>
      BY <1>3, <1>7, <1>8 DEF graphics_setup
    <2> QED
      BY <1>4, <1>5, <1>6, <2>1, TakingKeeps
  <1>9. CASE Fits(2 * n) /\ fb.size % PageSize # 0
    <2>1. taken' = taken + 2 * n /\ UNCHANGED <<descs, screen, wild>>
      BY <1>3, <1>7, <1>9 DEF graphics_setup
    <2>2. taken' \in Nat /\ taken <= taken' /\ taken' <= heap.entries
      BY <1>4, <1>9, <2>1 DEF Fits
    <2>3. wild => wild'
      BY <1>1
    <2> QED
      BY <1>5, <1>6, <2>1, <2>2, <2>3, TakingKeeps
  <1>10. CASE Fits(2 * n) /\ fb.size % PageSize = 0
    <2>1. n = Page(fb.size)
      BY <1>3, <1>10 DEF paging_align_address
    <2>2. PICK to : to = [v \in Block(0) .. Block(n - 1) |-> Page(fb.base) + v - Block(0)]
      OBVIOUS
    <2>3. Rebuilt(KERNEL, paging_map(descs[KERNEL], to, {PRESENT, WRITEABLE}), 2 * n)
      BY <1>3, <1>7, <1>10, <2>2 DEF graphics_setup
    <2>4. screen' = [real |-> PagesOf(fb.base, fb.base + fb.size),
                     seen |-> Block(0) .. Block(n - 1)]
      BY <1>3, <1>7, <1>10 DEF graphics_setup
    <2>5. ShowsScreen(fb, n, to)
      BY <1>10, <2>1, <2>2, <2>3, <2>4 DEF ShowsScreen
    <2> QED
      BY <1>1, <2>5, ScreenKeeps
  <1> QED
    BY <1>8, <1>9, <1>10

\* The page beneath the stack for interrupts was handed out after the screen's.
LEMMA GuardKeeps ==
    ASSUME BInv, ~wild, Fits(StackBlocks), NEW to, to = Same({Block(0)}),
           stage' \notin BeforeTables, stage' \notin BeforeScreen, stage' \notin BeforeGuard,
           Rebuilt(KERNEL, paging_map(descs[KERNEL], to, {}), StackBlocks),
           guard' = {Block(0)}, stage \in BeforeGuard,
           UNCHANGED <<heap, heaps, screen, copied, loaderVars, machine>>
    PROVE  BInv'
  <1>1. PICK b \in Nat : b = Block(0) /\ b = Page(heap.saddr) + taken
    <2>1. Page(heap.saddr) \in Nat /\ taken \in Nat
      BY HeapIsCounted DEF BInv, HeapInv
    <2> QED
      BY <2>1 DEF Block
  <1>2. DOMAIN to = {b} /\ to[b] = b
    BY <1>1 DEF Same
  <1>3. IsFiniteSet(DOMAIN to)
    BY <1>2, FS_Singleton
  <1>4. PICK k : k = descs[KERNEL] /\ Built(k) /\ KERNEL \in Owners
    BY DEF BInv, DescInv, Owners
  <1>5. PICK F : F = {}
    OBVIOUS
  <1>6. PICK d : d = paging_map(k, to, F)
    OBVIOUS
  <1>7. Built(d) /\ d.mapped = k.mapped
    BY <1>3, <1>4, <1>6, MapsOver
  <1>8. PICK l : l = d.leaf /\ l = Mapped(k.leaf, to, F)
    BY <1>3, <1>4, <1>6, MapsOver
  <1>9. Rebuilt(KERNEL, d, StackBlocks) /\ StackBlocks \in Nat
    BY <1>4, <1>5, <1>6, KernelMemoryAssumption
  <1>10. /\ taken' \in Nat /\ taken' <= heap.entries
         /\ ~wild' => taken + StackBlocks <= taken'
         /\ descs' = [descs EXCEPT ![KERNEL] = d]
    BY <1>7, <1>9, RebuiltTakes DEF BInv
  <1>11. b \notin screen.seen
    BY <1>1 DEF BInv, DescInv
  <1>12. ~wild' => \A v \in screen'.seen : v \in Int /\ v < Page(heap.saddr) + taken'
    <2>1. Page(heap.saddr) \in Nat /\ taken \in Nat
      BY HeapIsCounted DEF BInv, HeapInv
    <2>2. ASSUME ~wild', NEW v \in screen.seen
          PROVE  v \in Int /\ v < Page(heap.saddr) + taken'
      <3>1. taken + StackBlocks <= taken' /\ taken' \in Nat
        BY <1>10, <2>2
      <3>2. v \in Int /\ v < Page(heap.saddr) + taken
        BY DEF BInv, DescInv
      <3> QED
        BY <1>9, <2>1, <3>1, <3>2
    <2> QED
      BY <2>2
  <1>13. guard = {}
    BY DEF BInv, DescInv
  <1>14. k.mapped => Shows(KERNEL, l, RamPages(ram), HeapPages, screen', guard', copied'[KERNEL])
    <2>1. SUFFICES ASSUME k.mapped
                   PROVE  Shows(KERNEL, l, RamPages(ram), HeapPages, screen, {b}, copied[KERNEL])
      BY <1>1
    <2>2. Shows(KERNEL, k.leaf, RamPages(ram), HeapPages, screen, {}, copied[KERNEL])
      BY <1>4, <1>13, <2>1 DEF BInv, MapInv
    <2>3. DOMAIN l = DOMAIN k.leaf \cup {b}
      BY <1>2, <1>8 DEF Mapped
    <2>4. ASSUME NEW v \in HeapPages
          PROVE  EntryIs(KERNEL, v, l[v], screen, {b}, copied[KERNEL])
      <3>1. CASE v = b
        <4>1. PICK x : x = l[v] /\ x = [phys |-> to[v], flags |-> F]
          BY <1>2, <1>8, <3>1 DEF Mapped
        <4>2. x.flags = {}
          BY <1>5, <4>1
        <4> QED
          BY <1>11, <3>1, <4>1, <4>2 DEF EntryIs
      <3>2. CASE v # b
        <4>1. v \in DOMAIN k.leaf
          BY <2>2, HeapIsInRam DEF BInv, Shows
        <4>2. l[v] = k.leaf[v]
          BY <1>2, <1>8, <3>2, <4>1 DEF Mapped
        <4>3. EntryIs(KERNEL, v, k.leaf[v], screen, {}, copied[KERNEL])
          BY <2>2 DEF Shows
        <4> QED
          BY <3>2, <4>2, <4>3 DEF EntryIs
      <3> QED
        BY <3>1, <3>2
    <2> QED
      BY <2>2, <2>3, <2>4 DEF Shows
  <1>15. copied' = [o \in Owners |-> copied'[o]] /\ \A o \in Owners : copied'[o] = copied[o]
    BY DEF BInv, DescInv
  <1>16. d.mapped => Shows(KERNEL, d.leaf, RamPages(ram), HeapPages, screen', guard', copied'[KERNEL])
    BY <1>7, <1>8, <1>14
  <1> QED
    BY <1>4, <1>7, <1>10, <1>12, <1>15, <1>16, SpaceKeeps

LEMMA SetUpTssKeeps ==
    ASSUME BInv, SetUpTss
    PROVE  BInv'
  <1>1. /\ stage = "tss" /\ ~wild /\ stage' = "shell"
        /\ UNCHANGED <<heap, heaps, screen, copied, loaderVars, machine>>
    BY DEF SetUpTss, TssStack, Step, devices
  <1>2. /\ stage' \notin BeforeHeap /\ stage' \notin BeforeTables
        /\ stage' \notin BeforeScreen /\ stage' \notin BeforeGuard
        /\ stage \in BeforeGuard
    BY <1>1 DEF BeforeHeap, BeforeTables, BeforeScreen, BeforeGuard
  <1>3. CASE Fits(StackBlocks)
    <2>1. PICK to : to = Same({Block(0)})
      OBVIOUS
    <2>2. Rebuilt(KERNEL, paging_map(descs[KERNEL], to, {}), StackBlocks) /\ guard' = {Block(0)}
      BY <1>3, <2>1 DEF SetUpTss, TssStack
    <2> QED
      BY <1>1, <1>2, <1>3, <2>1, <2>2, GuardKeeps
  <1>4. CASE ~Fits(StackBlocks)
    <2>1. wild' = TRUE /\ UNCHANGED <<taken, descs, guard>>
      BY <1>4 DEF SetUpTss, TssStack
    <2>2. taken \in Nat /\ taken <= taken /\ taken <= heap.entries
      BY HeapIsCounted DEF BInv, HeapInv
    <2> QED
      BY <1>1, <1>2, <2>1, <2>2, TakingKeeps
  <1> QED
    BY <1>3, <1>4

\* A page that a string was copied through leads to itself again, read-only.
LEMMA RestoredShows ==
    ASSUME BInv, ~wild, NEW q \in Processes, descs[q].mapped,
           NEW v, v \in HeapPages, NEW d, d = Restored(descs[q], v),
           NEW lent, lent = copied[q] \cup {v}
    PROVE  Built(d) /\ Shows(q, d.leaf, RamPages(ram), HeapPages, screen, guard, lent)
  <1>1. q \in Owners /\ q # KERNEL
    BY KernelMemoryAssumption DEF Owners
  <1>2. PICK k : k = descs[q] /\ Built(k)
    BY <1>1 DEF BInv, DescInv
  <1>3. Shows(q, k.leaf, RamPages(ram), HeapPages, screen, guard, copied[q])
    BY <1>1, <1>2 DEF BInv, MapInv
  <1>4. k.leaf[v].phys = v /\ PRESENT \in k.leaf[v].flags
    BY <1>1, <1>3 DEF Shows, EntryIs
  <1>5. PICK to : to = [p \in {v} |-> k.leaf[v].phys]
    OBVIOUS
  <1>6. PICK F : F = IF k.leaf[v].flags = {} THEN {} ELSE {PRESENT}
    OBVIOUS
  <1>7. d = paging_map(k, to, F)
    BY <1>2, <1>5, <1>6 DEF Restored
  <1>8. DOMAIN to = {v} /\ to[v] = v
    BY <1>4, <1>5
  <1>9. F = {PRESENT}
    BY <1>4, <1>6
  <1>10. IsFiniteSet(DOMAIN to)
    BY <1>8, FS_Singleton
  <1>11. Built(d)
    BY <1>2, <1>7, <1>10, MapsOver
  <1>12. PICK l : l = d.leaf /\ l = Mapped(k.leaf, to, F)
    BY <1>2, <1>7, <1>10, MapsOver
  <1>13. DOMAIN l = DOMAIN k.leaf \cup {v}
    BY <1>8, <1>12 DEF Mapped
  <1>14. ASSUME NEW p \in HeapPages
         PROVE  EntryIs(q, p, l[p], screen, guard, lent)
    <2>1. CASE p = v
      <3>1. PICK x : x = l[p] /\ x = [phys |-> to[p], flags |-> F]
        BY <1>8, <1>12, <2>1 DEF Mapped
      <3>2. x.phys = p /\ x.flags = {PRESENT}
        BY <1>8, <1>9, <2>1, <3>1
      <3>3. ALL # PRESENT
        BY DEF ALL, PRESENT
      <3> QED
        BY <1>1, <2>1, <3>1, <3>2, <3>3 DEF EntryIs
    <2>2. CASE p # v
      <3>1. p \in DOMAIN k.leaf
        BY <1>3, HeapIsInRam DEF BInv, Shows
      <3>2. l[p] = k.leaf[p]
        BY <1>8, <1>12, <2>2, <3>1 DEF Mapped
      <3>3. EntryIs(q, p, k.leaf[p], screen, guard, copied[q])
        BY <1>3 DEF Shows
      <3> QED
        BY <1>1, <3>2, <3>3 DEF EntryIs
    <2> QED
      BY <2>1, <2>2
  <1>15. Shows(q, l, RamPages(ram), HeapPages, screen, guard, lent)
    BY <1>3, <1>13, <1>14 DEF Shows
  <1> QED
    BY <1>11, <1>12, <1>15

LEMMA CopyKeeps ==
    ASSUME BInv, ~wild, NEW q \in Processes, copy_string_from_task(q),
           UNCHANGED <<loaderVars, machine>>, stage' = "RUNNING"
    PROVE  BInv'
  <1>1. PICK b \in Nat : b = Block(0) /\ b = Page(heap.saddr) + taken
    <2>1. Page(heap.saddr) \in Nat /\ taken \in Nat
      BY HeapIsCounted DEF BInv, HeapInv
    <2> QED
      BY <2>1 DEF Block
  <1>2. /\ descs[q].mapped /\ Fits(1) /\ taken' = taken + 1
        /\ copied' = [copied EXCEPT ![q] = @ \cup {b}]
        /\ UNCHANGED <<heap, heaps, screen, guard>>
        /\ \/ descs' = [descs EXCEPT ![q] = Restored(@, b)] /\ UNCHANGED wild
           \/ wild' = TRUE /\ UNCHANGED descs
    <2>1. /\ descs[q].mapped /\ Fits(1) /\ taken' = taken + 1
          /\ copied' = [copied EXCEPT ![q] = @ \cup {b}]
          /\ UNCHANGED <<heap, heaps, screen, guard>>
      BY <1>1 DEF copy_string_from_task, kzalloc
    <2>2. \/ descs' = [descs EXCEPT ![q] = Restored(@, b)] /\ UNCHANGED wild
          \/ wild' = TRUE /\ UNCHANGED descs
      BY <1>1, Zenon DEF copy_string_from_task
    <2> QED
      BY <2>1, <2>2
  <1>3. /\ taken \in Nat /\ heap.entries \in Nat /\ Page(heap.saddr) \in Nat
        /\ taken' \in Nat /\ taken' = taken + 1 /\ taken' <= heap.entries
    BY <1>2, HeapIsCounted DEF BInv, HeapInv, Fits
  <1>4. b \in HeapPages
    BY <1>1, <1>3, HeapIsCounted DEF BInv
  <1>5. q \in Owners /\ q # KERNEL
    BY KernelMemoryAssumption DEF Owners
  <1>6. PICK lent : lent = copied[q] \cup {b}
    OBVIOUS
  <1>7. /\ copied' = [o \in Owners |-> copied'[o]] /\ copied'[q] = lent
        /\ \A o \in Owners : o # q => copied'[o] = copied[o]
    <2>1. copied = [o \in Owners |-> copied[o]]
      BY DEF BInv, DescInv
    <2> QED
      BY <1>2, <1>5, <1>6, <2>1
  <1>8. stage' \notin BeforeTables /\ stage' \notin BeforeScreen /\ stage' \notin BeforeGuard
    BY DEF BeforeTables, BeforeHeap, BeforeScreen, BeforeGuard
  <1>9. \A p \in screen'.seen : p \in Int /\ p < Page(heap.saddr) + taken'
    <2>1. ASSUME NEW p \in screen.seen
          PROVE  p \in Int /\ p < Page(heap.saddr) + taken'
      <3>1. p \in Int /\ p < Page(heap.saddr) + taken
        BY DEF BInv, DescInv
      <3> QED
        BY <1>3, <3>1
    <2> QED
      BY <1>2, <2>1
  <1>10. UNCHANGED <<heap, heaps, loaderVars, machine>> /\ screen' = screen /\ guard' = guard
    BY <1>2
  <1>11. CASE descs' = [descs EXCEPT ![q] = Restored(@, b)]
    <2>1. PICK d : d = Restored(descs[q], b)
      OBVIOUS
    <2>2. Built(d) /\ Shows(q, d.leaf, RamPages(ram), HeapPages, screen, guard, lent)
      BY <1>2, <1>4, <1>6, <2>1, RestoredShows
    <2>3. Shows(q, d.leaf, RamPages(ram), HeapPages, screen', guard', copied'[q])
      BY <1>7, <1>10, <2>2
    <2>4. descs' = [descs EXCEPT ![q] = d]
      BY <1>11, <2>1
    <2> QED
      BY <1>3, <1>5, <1>7, <1>8, <1>9, <1>10, <2>2, <2>3, <2>4, SpaceKeeps
  <1>12. CASE wild' = TRUE /\ UNCHANGED descs
    <2>1. PICK d : d = descs[q]
      OBVIOUS
    <2>2. Built(d) /\ descs' = [descs EXCEPT ![q] = d]
      BY <1>5, <1>12, <2>1 DEF BInv, DescInv
    <2> QED
      BY <1>3, <1>5, <1>7, <1>8, <1>9, <1>10, <1>12, <2>2, SpaceKeeps
  <1> QED
    BY <1>2, <1>11, <1>12

\* Before there is a heap: the loader, and kheap_init.
LEMMA NothingIsMapped ==
    ASSUME BInv, stage \in BeforeTables
    PROVE  /\ \A o \in Owners : descs[o] = NoDesc /\ ~descs[o].mapped
           /\ screen.seen = {} /\ guard = {}
  <1>1. stage \in BeforeScreen /\ stage \in BeforeGuard
    BY DEF BeforeScreen, BeforeGuard
  <1> QED
    BY <1>1, NothingIsBuilt DEF BInv, DescInv

LEMMA LoaderKeeps ==
    ASSUME BInv, stage \in BeforeHeap, stage' \in BeforeHeap,
           UNCHANGED <<heap, heaps, taken, descs, screen, guard, copied, wild, machine>>,
           ram' \in Seq(Region),
           RegionsAreShort => \A i \in DOMAIN ram' : Short(ram'[i]),
           \A i \in used' : i.to \in Nat /\ i.to <= TableAddress
    PROVE  BInv'
  <1>1. stage \in BeforeTables
    BY DEF BeforeTables
  <1>2. HeapInv'
    BY DEF BInv, HeapInv
  <1>3. DescInv'
    BY <1>1, NothingIsMapped DEF BInv, DescInv
  <1>4. MapInv'
    BY <1>1, NothingIsMapped DEF MapInv
  <1> QED
    BY <1>2, <1>3, <1>4 DEF BInv

LEMMA ListMemoryKeeps ==
    ASSUME BInv, ListMemory
    PROVE  BInv'
  <1>1. /\ stage = "SetupMemoryMaps" /\ stage' = "LoadKernel"
        /\ UNCHANGED <<heap, heaps, taken, descs, screen, guard, copied, wild, machine>>
    BY DEF ListMemory, Step, kernelState, memoryVars
  <1>2. stage \in BeforeHeap /\ stage' \in BeforeHeap
    BY <1>1 DEF BeforeHeap
  <1>3. PICK memory : memory = machine.memory /\ machine \in Machines
    BY DEF BInv, HeapInv
  <1>4. memory \in Seq([base : Nat, length : Nat, type : {CONVENTIONAL, RESERVED}])
    BY <1>3, BootAssumption
  <1>5. ram' = Entries(memory) /\ used' = used \cup {Interval(MapLocation, PageSize)}
    BY <1>3 DEF ListMemory, SetupMemoryMaps
  <1>6. ram' \in Seq(Region)
    BY <1>4, <1>5, EntriesAreRegions
  <1>7. RegionsAreShort => \A i \in DOMAIN ram' : Short(ram'[i])
    <2>1. RegionsAreShort => \A k \in 1 .. Len(memory) : Short(memory[k])
      BY <1>3 DEF RegionsAreShort
    <2>2. RegionsAreShort => \A i \in DOMAIN Entries(memory) : Short(Entries(memory)[i])
      BY <1>4, <2>1, EntriesAreRegions
    <2> QED
      BY <1>5, <2>2
  <1>8. PICK list : /\ list = Interval(MapLocation, PageSize)
                    /\ list.to \in Nat /\ list.to <= TableAddress
    <2>1. PICK t \in Nat : t = MapLocation + PageSize /\ t <= TableAddress
      BY BootAssumption, PageSizeIsCount
    <2>2. Interval(MapLocation, PageSize).to = t
      BY <2>1 DEF Interval
    <2> QED
      BY <2>1, <2>2
  <1>9. \A i \in used' : i.to \in Nat /\ i.to <= TableAddress
    BY <1>5, <1>8 DEF BInv, HeapInv
  <1> QED
    BY <1>1, <1>2, <1>6, <1>7, <1>9, LoaderKeeps

LEMMA StartKernelKeeps ==
    ASSUME BInv, StartKernel
    PROVE  BInv'
  <1>1. /\ stage = "LoadKernel" /\ stage' = "kheap_init" /\ ram' = ram
        /\ UNCHANGED <<heap, heaps, taken, descs, screen, guard, copied, wild, machine>>
    BY DEF StartKernel, Step, kernelState, memoryVars, LoadKernel
  <1>2. stage \in BeforeHeap /\ stage' \in BeforeHeap
    BY <1>1 DEF BeforeHeap
  <1>3. PICK image : /\ image = Interval(KernelLocation, machine.kernel)
                     /\ image.to \in Nat /\ image.to <= TableAddress
    <2>1. machine \in Machines
      BY DEF BInv, HeapInv
    <2>2. PICK t \in Nat : t = KernelLocation + machine.kernel /\ t <= TableAddress
      BY <2>1, BootAssumption
    <2>3. Interval(KernelLocation, machine.kernel).to = t
      BY <2>2 DEF Interval
    <2> QED
      BY <2>2, <2>3
  <1>4. \A i \in used' : i.to \in Nat /\ i.to <= TableAddress
    BY <1>3 DEF BInv, HeapInv, StartKernel, LoadKernel
  <1>5. ram' \in Seq(Region) /\ (RegionsAreShort => \A i \in DOMAIN ram' : Short(ram'[i]))
    BY <1>1 DEF BInv, HeapInv
  <1> QED
    BY <1>1, <1>2, <1>4, <1>5, LoaderKeeps

LEMMA SetUpHeapKeeps ==
    ASSUME BInv, SetUpHeap
    PROVE  BInv'
  <1>1. /\ stage = "kheap_init" /\ stage' = "paging" /\ ~wild
        /\ UNCHANGED <<descs, screen, guard, copied, loaderVars, machine>>
    BY DEF SetUpHeap, Step, devices, kheap_init
  <1>2. stage \in BeforeHeap /\ stage \in BeforeTables /\ stage' \notin BeforeHeap
        /\ stage \in BeforeScreen /\ stage \in BeforeGuard
    BY <1>1 DEF BeforeHeap, BeforeTables, BeforeScreen, BeforeGuard
  <1>3. ram' = ram /\ used' = used
    BY <1>1 DEF loaderVars
  <1>4. PICK u : u = MinimalRegion(ram)
    OBVIOUS
  <1>5. ram \in Seq(Region)
    BY DEF BInv, HeapInv
  <1>6. u \in DOMAIN ram /\ ram[u].length > MinimumSize
    BY <1>4, <1>5, MinimalRegionIsOne DEF SetUpHeap, kheap_init
  <1>7. PICK h : h = Layout(ram[u])
    OBVIOUS
  <1>8. Lies(h, ram[u])
    BY <1>5, <1>6, <1>7, ElementOf, LayoutLies
  <1>9. multiheap_add(ram, u) = <<>>
    BY <1>5, NoOtherHeap
  <1>10. \/ wild' = TRUE /\ UNCHANGED <<heap, heaps, taken>>
         \/ /\ heap' = h /\ taken' = 3 /\ UNCHANGED wild
            /\ heaps' = <<[saddr |-> h.saddr, eaddr |-> h.eaddr]>> \o <<>>
    BY <1>4, <1>7, <1>9, Zenon DEF SetUpHeap, kheap_init
  <1>11. CASE wild' = TRUE /\ UNCHANGED <<heap, heaps, taken>>
    <2>1. taken \in Nat /\ taken <= taken /\ taken <= heap.entries
      BY HeapIsCounted DEF BInv, HeapInv
    <2> QED
      BY <1>1, <1>2, <1>11, <2>1, TakingKeeps
  <1>12. CASE /\ heap' = h /\ taken' = 3 /\ UNCHANGED wild
              /\ heaps' = <<[saddr |-> h.saddr, eaddr |-> h.eaddr]>> \o <<>>
    <2>1. heaps' = <<[saddr |-> heap'.saddr, eaddr |-> heap'.eaddr]>>
      <3>1. PICK x : x = [saddr |-> h.saddr, eaddr |-> h.eaddr]
        OBVIOUS
      <3>2. <<x>> \o <<>> = <<x>>
        OBVIOUS
      <3> QED
        BY <1>12, <3>1, <3>2
    <2>2. \E i \in DOMAIN ram' : Lies(heap', ram'[i])
      BY <1>3, <1>6, <1>8, <1>12
    <2>3. taken' \in Nat /\ taken' <= heap'.entries
      BY <1>8, <1>12 DEF Lies
    <2>4. HeapInv'
      BY <1>1, <1>2, <1>3, <2>1, <2>2, <2>3 DEF BInv, HeapInv
    <2>5. DescInv'
      BY <1>1, <1>2, NothingIsMapped DEF BInv, DescInv
    <2>6. MapInv'
      BY <1>1, <1>2, NothingIsMapped DEF MapInv
    <2> QED
      BY <2>4, <2>5, <2>6 DEF BInv
  <1> QED
    BY <1>10, <1>11, <1>12

LEMMA NoListKeeps ==
    ASSUME BInv, NoList
    PROVE  BInv'
  <1>1. /\ stage = "SetupMemoryMaps" /\ wild' = TRUE
        /\ UNCHANGED <<heap, heaps, taken, descs, screen, guard, copied, loaderVars, machine>>
    BY DEF NoList, Step, devices
  <1>2. stage \in BeforeHeap /\ stage \in BeforeTables
        /\ stage \in BeforeScreen /\ stage \in BeforeGuard
    BY <1>1 DEF BeforeHeap, BeforeTables, BeforeScreen, BeforeGuard
  <1>3. taken \in Nat /\ taken <= taken /\ taken <= heap.entries
    BY HeapIsCounted DEF BInv, HeapInv
  <1> QED
    BY <1>1, <1>2, <1>3, TakingKeeps

\* The devices, the disks and the fonts; the kernel stops, or returns.
Scanning == {"pci_init", "pci_scan_bus", "disk_search_and_init", "tss"}

Onwards ==
    \/ stage' = stage
    \/ stage' \in {PANIC, RETURNED}
    \/ stage \in Scanning /\ stage' \in Scanning

LEMMA OnwardsIsForward ==
    ASSUME Onwards
    PROVE  /\ stage' \in BeforeHeap => stage \in BeforeHeap
           /\ stage' \in BeforeTables => stage \in BeforeTables
           /\ stage' \in BeforeScreen => stage \in BeforeScreen
           /\ stage' \in BeforeGuard => stage \in BeforeGuard
  BY DEF Onwards, Scanning, PANIC, RETURNED, BeforeHeap, BeforeTables, BeforeScreen, BeforeGuard

LEMMA QuietKeeps ==
    ASSUME BInv, Onwards, UNCHANGED <<memoryVars, loaderVars, machine>>
    PROVE  BInv'
  <1>1. UNCHANGED <<heap, heaps, taken, descs, screen, guard, copied, wild, loaderVars, machine>>
    BY DEF memoryVars
  <1>2. taken \in Nat /\ taken <= taken /\ taken <= heap.entries
    BY HeapIsCounted DEF BInv, HeapInv
  <1> QED
    BY <1>1, <1>2, OnwardsIsForward, TakingKeeps

LEMMA ScanKeeps ==
    ASSUME BInv, Scan
    PROVE  BInv'
  <1>1. /\ stage = "pci_scan_bus"
        /\ UNCHANGED <<heap, heaps, descs, screen, guard, copied, wild, loaderVars, machine>>
    BY DEF Scan
  <1>2. Onwards
    BY DEF Scan, Onwards
  <1>3. taken \in Nat /\ heap.entries \in Nat /\ taken <= heap.entries
    BY HeapIsCounted DEF BInv, HeapInv
  <1>4. taken' = taken \/ (taken' = taken + 1 /\ taken + 1 <= heap.entries)
    BY DEF Scan, kzalloc, Fits
  <1>5. taken' \in Nat /\ taken <= taken' /\ taken' <= heap.entries
    BY <1>3, <1>4
  <1> QED
    BY <1>1, <1>2, <1>5, OnwardsIsForward, TakingKeeps

LEMMA BInvInit ==
    ASSUME Init
    PROVE  BInv
  <1>1. /\ machine \in Machines /\ ram = <<>> /\ used = {} /\ heap = NoHeap /\ taken = 0
        /\ descs = [o \in Owners |-> NoDesc] /\ copied = [o \in Owners |-> {}]
        /\ screen = [real |-> {}, seen |-> {}] /\ guard = {}
    BY DEF Init, LoaderInit, MemoryInit
  <1>2. <<>> \in Seq(Region) /\ DOMAIN <<>> = {}
    OBVIOUS
  <1>3. NoHeap.entries = 0
    BY DEF NoHeap
  <1>4. HeapInv
    BY <1>1, <1>2, <1>3 DEF HeapInv
  <1>5. DescInv
    BY <1>1, NothingIsBuilt DEF DescInv
  <1>6. MapInv
    BY <1>1, NothingIsBuilt DEF MapInv
  <1> QED
    BY <1>4, <1>5, <1>6 DEF BInv

LEMMA BInvStep ==
    ASSUME BInv, [Next]_vars
    PROVE  BInv'
  <1>1. CASE ListMemory
    BY <1>1, ListMemoryKeeps
  <1>2. CASE NoList
    BY <1>2, NoListKeeps
  <1>3. CASE StartKernel
    BY <1>3, StartKernelKeeps
  <1>4. CASE SetUpHeap
    BY <1>4, SetUpHeapKeeps
  <1>5. CASE SetUpPaging
    BY <1>5, SetUpPagingKeeps
  <1>6. CASE SetUpGraphics
    BY <1>6, SetUpGraphicsKeeps
  <1>7. CASE Scan
    BY <1>7, ScanKeeps
  <1>8. CASE SetUpTss
    BY <1>8, SetUpTssKeeps
  <1>9. CASE LoadShell
    <2>1. PICK q \in Processes : Step("shell", RUNNING) /\ process_load(q, ram) /\ UNCHANGED devices
      BY <1>9 DEF LoadShell
    <2>2. ~wild /\ stage' = "RUNNING" /\ UNCHANGED <<loaderVars, machine>>
      BY <2>1 DEF Step, RUNNING, devices
    <2> QED
      BY <2>1, <2>2, LoadKeeps
  <1>10. CASE RunProgram
    <2>1. ~wild /\ stage' = "RUNNING" /\ UNCHANGED <<loaderVars, machine>>
      BY <1>10 DEF RunProgram, RUNNING, devices
    <2>2. PICK q \in Processes : process_load(q, ram) \/ copy_string_from_task(q)
      BY <1>10 DEF RunProgram
    <2> QED
      BY <2>1, <2>2, LoadKeeps, CopyKeeps
  <1>11. CASE NoKernel \/ NoRoom \/ NoTables \/ NoShell
    <2>1. Onwards /\ UNCHANGED <<memoryVars, loaderVars, machine>>
      BY <1>11 DEF NoKernel, NoRoom, NoTables, NoShell, Step, devices, Onwards
    <2> QED
      BY <2>1, QuietKeeps
  <1>12. CASE StartScan \/ ScanDone \/ LoadFonts
    <2>1. UNCHANGED <<memoryVars, loaderVars, machine>>
      BY <1>12 DEF StartScan, ScanDone, LoadFonts, Step, devices
    <2>2. /\ stage \in {"pci_init", "pci_scan_bus", "disk_search_and_init"}
          /\ stage' \in {"pci_scan_bus", "disk_search_and_init", "tss", PANIC}
      BY <1>12 DEF StartScan, ScanDone, LoadFonts, Step
    <2>3. Onwards
      BY <2>2 DEF Onwards, Scanning
    <2> QED
      BY <2>1, <2>3, QuietKeeps
  <1>13. CASE SearchDisks \/ ReadPartitions
    <2>1. Onwards /\ UNCHANGED <<memoryVars, loaderVars, machine>>
      BY <1>13 DEF SearchDisks, ReadPartitions, Onwards
    <2> QED
      BY <2>1, QuietKeeps
  <1>14. CASE UNCHANGED vars
    <2>1. Onwards /\ UNCHANGED <<memoryVars, loaderVars, machine>>
      BY <1>14 DEF vars, Onwards
    <2> QED
      BY <2>1, QuietKeeps
  <1> QED
    BY <1>1, <1>2, <1>3, <1>4, <1>5, <1>6, <1>7, <1>8, <1>9, <1>10, <1>11, <1>12, <1>13, <1>14
    DEF Next

THEOREM BootInductive == Spec => []BInv
  <1>1. Init => BInv
    BY BInvInit
  <1>2. BInv /\ [Next]_vars => BInv'
    BY BInvStep
  <1> QED
    BY <1>1, <1>2, PTL DEF Spec

-----------------------------------------------------------------------------
(* What follows *)

\* In the first directory, the entries that paging_get looks at are those of page 0.
LEMMA FirstDirectoryIsFound ==
    ASSUME NEW d, Built(d), NEW p \in Nat, p < Radix * Radix, {0, p} \subseteq DOMAIN d.leaf
    PROVE  paging_get(d, p)
  <1>1. Radix \in Nat \ {0}
    BY KernelMemoryAssumption
  <1>2. PICK r \in Nat \ {0} : r = Radix * Radix
    BY <1>1
  <1>3. PICK c \in Nat \ {0} : c = Radix * Radix * Radix /\ r <= c
    <2>1. 1 * r \in Nat /\ 1 * r <= Radix * r
      BY <1>1, <1>2, ProductOrder
    <2>2. Radix * r = Radix * Radix * Radix
      BY <1>1, <1>2
    <2> QED
      BY <1>1, <1>2, <2>1, <2>2
  <1>4. p < c
    BY <1>2, <1>3
  <1>5. \A e \in Nat \ {0}, n \in Nat : n < e => n \div e = 0
    <2>1. ASSUME NEW e \in Nat \ {0}, NEW n \in Nat, n < e
          PROVE  n \div e = 0
      <3>1. n = e * 0 + n /\ n \in 0 .. e - 1
        BY <2>1
      <3> QED
        BY <3>1, DivisionIsUnique
    <2> QED
      BY <2>1
  <1>6. p \div c = 0 /\ p \div r = 0 /\ 0 \div r = 0 /\ 0 \div Radix = 0
    BY <1>1, <1>2, <1>4, <1>5
  <1>7. 0 * Radix = 0
    BY <1>1
  <1>8. <<2, 0 \div r>> \in Walk(0) /\ <<1, 0 \div Radix>> \in Walk(0)
    BY <1>2 DEF Walk
  <1>9. Walk(0) \subseteq d.tables /\ Walk(p) \subseteq d.tables
    BY DEF Built
  <1>10. <<2, 0>> \in d.tables /\ <<1, 0>> \in d.tables
    BY <1>6, <1>8, <1>9
  <1>11. (p \div (Radix * Radix * Radix)) * Radix = 0
    BY <1>3, <1>6, <1>7
  <1>12. (p \div (Radix * Radix)) * Radix = 0
    BY <1>2, <1>6, <1>7
  <1> QED
    BY <1>9, <1>10, <1>11, <1>12 DEF paging_get

\* Every page of the heap, in every address space that is made before or after it
\* was handed out, leads to itself and can be found, but for the three uses of its
\* pages the kernel makes (paging.c paging_map, paging_map_e820_memory_regions;
\* task.c copy_string_from_task; graphics.c graphics_setup).
THEOREM BootHeapIsMapped == Spec => []HeapIsMapped
  <1>1. BInv => HeapIsMapped
    <2>1. SUFFICES ASSUME BInv, ~wild, NEW o \in Owners, descs[o].mapped, NEW p \in HeapPages
                   PROVE  /\ p \in DOMAIN descs[o].leaf
                          /\ p < Radix * Radix => paging_get(descs[o], p)
                          /\ EntryIs(o, p, descs[o].leaf[p], screen, guard, copied[o])
      BY DEF HeapIsMapped, EntryIs
    <2>2. PICK d : d = descs[o] /\ Built(d)
      BY <2>1 DEF BInv, DescInv
    <2>3. Shows(o, d.leaf, RamPages(ram), HeapPages, screen, guard, copied[o])
      BY <2>1, <2>2 DEF BInv, MapInv
    <2>4. p \in DOMAIN d.leaf /\ 0 \in DOMAIN d.leaf
      <3>1. ram \in Seq(Region) /\ HeapInv
        BY <2>1 DEF BInv, HeapInv
      <3> QED
        BY <2>3, <3>1, HeapIsInRam, RamPagesContain DEF Shows
    <2>5. p \in Nat
      BY <2>1, HeapIsCounted DEF BInv
    <2>6. p < Radix * Radix => paging_get(d, p)
      BY <2>2, <2>4, <2>5, FirstDirectoryIsFound
    <2>7. EntryIs(o, p, d.leaf[p], screen, guard, copied[o])
      BY <2>3 DEF Shows
    <2> QED
      BY <2>2, <2>4, <2>6, <2>7
  <1> QED
    BY <1>1, BootInductive, PTL

\* The heap with its table is made of one region of usable memory, keeps clear of
\* the kernel's image and of the list of the regions, and its table ends where it
\* begins, but for the last entry.  The regions have at most PageSize^3 bytes, which
\* is 64 GB: kheap_init leaves the table a page's share of the region less a byte for
\* each block, and in a larger region more than the last entry may lie in the heap.
THEOREM BootHeapIsUsable ==
    ASSUME RegionsAreShort
    PROVE  Spec => []HeapIsUsable
  <1>1. BInv => HeapIsUsable
    <2>1. SUFFICES ASSUME BInv, heap # NoHeap
                   PROVE  /\ HeapIsRam(ram)
                          /\ \A i \in used : Disjoint(i, [from |-> heap.table, to |-> heap.eaddr])
      BY DEF HeapIsUsable, HeapIsRam
    <2>2. PICK i \in DOMAIN ram : Lies(heap, ram[i])
      BY <2>1 DEF BInv, HeapInv
    <2>3. PICK r \in Region : r = ram[i] /\ Short(r)
      <3>1. ram \in Seq(Region) /\ Short(ram[i])
        BY <2>1, <2>2 DEF BInv, HeapInv
      <3>2. ram[i] \in Region
        BY <3>1, ElementOf
      <3> QED
        BY <3>1, <3>2
    <2>4. r.type = 1
      BY DEF Region
    <2>5. /\ r.base <= heap.table /\ heap.eaddr <= r.base + r.length
          /\ heap.table \in Nat /\ TableAddress <= heap.table /\ heap.saddr < heap.eaddr
          /\ heap.saddr % PageSize = 0 /\ heap.eaddr % PageSize = 0
          /\ heap.table + heap.entries <= heap.saddr + 1
      BY <2>2, <2>3 DEF Lies, Whole
    <2>6. /\ heaps = <<[saddr |-> heap.saddr, eaddr |-> heap.eaddr]>>
          /\ taken <= heap.entries
      BY <2>1 DEF BInv, HeapInv
    <2>7. HeapIsRam(ram)
      BY <2>3, <2>4, <2>5, <2>6 DEF HeapIsRam
    <2>8. ASSUME NEW j \in used
          PROVE  Disjoint(j, [from |-> heap.table, to |-> heap.eaddr])
      <3>1. j.to \in Nat /\ j.to <= TableAddress /\ TableAddress \in Nat
        BY <2>1, KernelMemoryAssumption DEF BInv, HeapInv
      <3>2. j.to <= heap.table
        BY <2>5, <3>1
      <3> QED
        BY <3>2 DEF Disjoint
    <2> QED
      BY <2>7, <2>8
  <1> QED
    BY <1>1, BootInductive, PTL

-----------------------------------------------------------------------------
(* Devices and disks: the inductive invariant *)

\* The device p of fd is what leads to bus b: nothing to the first one.
LeadsTo(fn, fd, p, b) ==
    IF p = 0 THEN b = 0
    ELSE p \in 1 .. Len(fd) /\ Leads(fn[fd[p].at]) /\ fn[fd[p].at].secondary = b

\* A bus that has been entered.
Opened(fn, fd, b) == \E p \in 0 .. Len(fd) : LeadsTo(fn, fd, p, b)

\* The frame f has yet to look at a.
Ahead(a, f) == a[2] > f.slot \/ (a[2] = f.slot /\ a[3] >= f.func)

Recorded(fn, fd) ==
    \A i \in 1 .. Len(fd) :
        /\ fd[i].at \in DOMAIN fn
        /\ fd[i].class = fn[fd[i].at].class /\ fd[i].bars = Bars(fn[fd[i].at])
        /\ fd[i].parent \in 0 .. i - 1
        /\ LeadsTo(fn, fd, fd[i].parent, fd[i].at[1])

FoundOnce(fd) == \A i, j \in 1 .. Len(fd) : fd[i].at = fd[j].at => i = j

FrameType == [bus : Nat, slot : 0 .. Slots, func : 0 .. Funcs - 1, parent : Nat]

\* A bridge was looked at before the bus behind it was entered.
Stacked(fn, fd, fr) ==
    /\ fr \in Seq(FrameType)
    /\ \A k \in 1 .. Len(fr) : LeadsTo(fn, fd, fr[k].parent, fr[k].bus)
    /\ \A j, k \in 1 .. Len(fr) : fr[j].bus = fr[k].bus => j = k

\* What is on a bus that was entered has been found, or is ahead.
Complete(fn, fd, fr) ==
    \A a \in DOMAIN fn : Opened(fn, fd, a[1]) =>
        \/ \E i \in 1 .. Len(fd) : fd[i].at = a
        \/ \E k \in 1 .. Len(fr) : fr[k].bus = a[1] /\ Ahead(a, fr[k])

Passed(fd, fr) ==
    \A i \in 1 .. Len(fd), k \in 1 .. Len(fr) :
        fr[k].bus = fd[i].at[1] => ~Ahead(fd[i].at, fr[k])

Scanned(fn, fd, fr) ==
    /\ \E S : fd \in Seq(S)
    /\ Recorded(fn, fd) /\ FoundOnce(fd) /\ Stacked(fn, fd, fr)
    /\ Complete(fn, fd, fr) /\ Passed(fd, fr)

\* Only command registers change.
SameWiring(c, fn) ==
    /\ DOMAIN c = DOMAIN fn
    /\ \A a \in DOMAIN fn :
          /\ DOMAIN c[a] = HeaderFields
          /\ c[a].class = fn[a].class /\ c[a].multi = fn[a].multi /\ c[a].bars = fn[a].bars
          /\ c[a].bridge = fn[a].bridge /\ c[a].secondary = fn[a].secondary
          /\ c[a].subordinate = fn[a].subordinate

BeforeSearch == {"SetupMemoryMaps", "LoadKernel", "kheap_init", "paging", "graphics",
                 "pci_init", "pci_scan_bus"}

\* PathOpen, of these headers and these records.
Reach(c, fd, d) ==
    LET at  == fd[d].at
        way == {a \in DOMAIN c : Leads(c[a]) /\ at[1] \in c[a].secondary .. c[a].subordinate}
    IN  \A a \in way \cup {at} :
           /\ BME \in c[a].cmd
           /\ \A i \in DOMAIN c[at].bars :
                 LET kind == c[at].bars[i]
                 IN  kind \in {IO, MEM, MEM64} => (IF kind = IO THEN IO ELSE MEM) \in c[a].cmd

\* The entry i of the list of disks, and the way to it.
DiskOk(c, fd, ds, i) ==
    LET h == ds[i].hardware
    IN  /\ h \in 1 .. Len(ds) /\ ds[h].type = REAL
        /\ ds[h].driver = ds[i].driver /\ ds[h].at = ds[i].at
        /\ ds[i].type = REAL => h = i
        /\ ds[h].driver = NVME => \E d \in 1 .. Len(fd) : fd[d].at = ds[h].at /\ Reach(c, fd, d)

\* What is known of the disks in the list ds, whose first one is of hardware.
DisksOk(c, fd, ds) ==
    /\ \E S : ds \in Seq(S)
    /\ ds # <<>> => ds[1].type = REAL
    /\ \A i \in 1 .. Len(ds) : DiskOk(c, fd, ds, i)

\* The primary volume, of the first disk, has the kernel's name.
PrimaryOk(ds, p) ==
    p # 0 => /\ p \in 1 .. Len(ds) /\ ds[p].type = PARTITION
             /\ ds[p].hardware = 1 /\ ds[p].volume.label = PEACH

BusInv ==
    /\ machine \in Machines
    /\ SameWiring(config, machine.functions)
    /\ \/ found = <<>> /\ frames = <<>>
       \/ Scanned(machine.functions, found, frames)

DisksInv ==
    /\ stage \in BeforeSearch => disks = <<>>
    /\ DisksOk(config, found, disks)
    /\ PrimaryOk(disks, primary)

-----------------------------------------------------------------------------
(* The scan of the buses *)

\* The list p is q with e added.
Longer(p, q, e) == p = Append(q, e)

LEMMA AppendIs ==
    ASSUME NEW q, NEW e, NEW S, q \in Seq(S), NEW p, Longer(p, q, e)
    PROVE  /\ \E T : p \in Seq(T)
           /\ Len(q) \in Nat /\ Len(p) = Len(q) + 1
           /\ \A i \in 1 .. Len(q) : p[i] = q[i]
           /\ p[Len(q) + 1] = e
  <1>2. PICK T : T = S \cup {e}
    OBVIOUS
  <1>3. q \in Seq(T) /\ e \in T
    BY <1>2
  <1>4. PICK a : a = Append(q, e)
    OBVIOUS
  <1>5. a \in Seq(T) /\ Len(a) = Len(q) + 1 /\ a[Len(q) + 1] = e
        /\ Len(q) \in Nat /\ \A i \in 1 .. Len(q) : a[i] = q[i]
    BY <1>3, <1>4
  <1> QED
    BY <1>4, <1>5 DEF Longer

\* The frames after the last one has become x.
Turned(fr, g, x) ==
    /\ g \in Seq(FrameType) /\ Len(g) = Len(fr) /\ Len(fr) \in Nat \ {0}
    /\ g[Len(fr)] = x
    /\ \A k \in 1 .. Len(fr) - 1 : g[k] = fr[k]

LEMMA LastIsTurned ==
    ASSUME NEW fr \in Seq(FrameType), fr # <<>>, NEW x \in FrameType
    PROVE  /\ Last(fr) = fr[Len(fr)] /\ Last(fr) \in FrameType
           /\ Turned(fr, Append(Front(fr), x), x)
  <1>1. PICK n \in Nat \ {0} : n = Len(fr)
    OBVIOUS
  <1>2. PICK q : q = Front(fr)
    OBVIOUS
  <1>3. q \in Seq(FrameType) /\ Len(q) = n - 1 /\ \A k \in 1 .. n - 1 : q[k] = fr[k]
    BY <1>1, <1>2 DEF Front
  <1>4. Last(fr) = fr[Len(fr)] /\ Last(fr) \in FrameType
    BY <1>1 DEF Last
  <1>5. PICK g : g = Append(q, x)
    OBVIOUS
  <1>6. g \in Seq(FrameType) /\ Len(g) = n /\ g[n] = x /\ \A k \in 1 .. n - 1 : g[k] = fr[k]
    BY <1>1, <1>3, <1>5
  <1> QED
    BY <1>1, <1>2, <1>4, <1>5, <1>6 DEF Turned

\* The function a frame is at is passed, and nothing else that is there.
LEMMA FollowingPasses ==
    ASSUME NEW fn, Wired(fn), SameWiring(config, fn), NEW f \in FrameType, f.slot < Slots
    PROVE  /\ Following(f) \in FrameType
           /\ Following(f).bus = f.bus /\ Following(f).parent = f.parent
           /\ ~Ahead(<<f.bus, f.slot, f.func>>, Following(f))
           /\ \A a \in DOMAIN fn : a[1] = f.bus =>
                (Ahead(a, f) <=> a = <<f.bus, f.slot, f.func>> \/ Ahead(a, Following(f)))
  <1>1. Slots \in Nat \ {0} /\ Funcs \in Nat \ {0}
    BY PciAssumption
  <1>2. /\ f.bus \in Nat /\ f.slot \in Nat /\ f.func \in Nat /\ f.parent \in Nat
        /\ f.func <= Funcs - 1
        /\ DOMAIN f = {"bus", "slot", "func", "parent"}
    BY <1>1 DEF FrameType
  <1>3. PICK at0 : at0 = <<f.bus, f.slot, 0>>
    OBVIOUS
  <1>4. PICK last : last = IF at0 \in DOMAIN config /\ config[at0].multi THEN Funcs - 1 ELSE 0
    OBVIOUS
  <1>5. last \in Nat /\ last <= Funcs - 1
    BY <1>1, <1>4
  <1>6. Following(f) = IF f.func < last THEN [f EXCEPT !.func = @ + 1]
                       ELSE [f EXCEPT !.slot = @ + 1, !.func = 0]
    BY <1>3, <1>4 DEF Following
  <1>7. ASSUME NEW a \in DOMAIN fn, a[1] = f.bus, a[2] = f.slot, a[3] > f.func
        PROVE  f.func < last
    <2>1. a \in Nat \X (0 .. Slots - 1) \X (0 .. Funcs - 1)
      BY DEF Wired
    <2>2. a[3] \in 0 .. Funcs - 1 /\ a[3] # 0
      BY <1>2, <1>7, <2>1
    <2>3. at0 \in DOMAIN fn /\ fn[at0].multi
      BY <1>3, <1>7, <2>2 DEF Wired
    <2>4. at0 \in DOMAIN config /\ config[at0].multi
      BY <2>3 DEF SameWiring
    <2>5. last = Funcs - 1
      BY <1>4, <2>4
    <2>6. PICK k \in Nat : k = a[3] /\ k <= Funcs - 1
      BY <1>1, <2>2
    <2> QED
      BY <1>1, <1>2, <1>7, <2>5, <2>6
  <1>8. \A a \in DOMAIN fn : /\ a = <<a[1], a[2], a[3]>>
                             /\ a[2] \in Nat /\ a[3] \in Nat
    BY <1>1 DEF Wired
  <1>9. CASE f.func < last
    <2>1. PICK h : h = [f EXCEPT !.func = @ + 1] /\ h = Following(f)
      BY <1>6, <1>9
    <2>2. h \in FrameType /\ h.bus = f.bus /\ h.parent = f.parent /\ h.slot = f.slot
          /\ h.func = f.func + 1
      BY <1>1, <1>2, <1>5, <1>9, <2>1 DEF FrameType
    <2>3. ~Ahead(<<f.bus, f.slot, f.func>>, h)
      BY <1>2, <2>2 DEF Ahead
    <2>4. ASSUME NEW a \in DOMAIN fn, a[1] = f.bus
          PROVE  Ahead(a, f) <=> a = <<f.bus, f.slot, f.func>> \/ Ahead(a, h)
      BY <1>2, <1>8, <2>2, <2>4 DEF Ahead
    <2> QED
      BY <2>1, <2>2, <2>3, <2>4
  <1>10. CASE ~(f.func < last)
    <2>1. PICK h : h = [f EXCEPT !.slot = @ + 1, !.func = 0] /\ h = Following(f)
      BY <1>6, <1>10
    <2>2. h.bus = f.bus /\ h.parent = f.parent /\ h.slot = f.slot + 1 /\ h.func = 0
      BY <1>2, <2>1
    <2>0. h \in FrameType
      <3>1. h = [bus |-> f.bus, slot |-> f.slot + 1, func |-> 0, parent |-> f.parent]
        BY <1>2, <2>1
      <3>2. f.slot + 1 \in 0 .. Slots /\ 0 \in 0 .. Funcs - 1
        BY <1>1, <1>2
      <3> QED
        BY <1>2, <3>1, <3>2 DEF FrameType
    <2>3. ~Ahead(<<f.bus, f.slot, f.func>>, h)
      BY <1>2, <2>2 DEF Ahead
    <2>4. ASSUME NEW a \in DOMAIN fn, a[1] = f.bus
          PROVE  Ahead(a, f) <=> a = <<f.bus, f.slot, f.func>> \/ Ahead(a, h)
      <3>1. ~(a[2] = f.slot /\ a[3] > f.func)
        BY <1>7, <1>10, <2>4
      <3> QED
        BY <1>2, <1>8, <2>2, <2>4, <3>1 DEF Ahead
    <2> QED
      BY <2>0, <2>1, <2>2, <2>3, <2>4
  <1> QED
    BY <1>9, <1>10

\* What is told of the functions by their place in a machine.
LEMMA WiredPlaces ==
    ASSUME NEW fn, Wired(fn), NEW a \in DOMAIN fn
    PROVE  /\ a = <<a[1], a[2], a[3]>> /\ a[1] \in Nat /\ a[2] \in Nat /\ a[3] \in Nat
           /\ a[2] < Slots /\ a[3] < Funcs
  <1>1. Slots \in Nat \ {0} /\ Funcs \in Nat \ {0}
    BY PciAssumption
  <1> QED
    BY <1>1 DEF Wired

\* What is looked at now.
At(f) == <<f.bus, f.slot, f.func>>

\* The bus behind what is looked at now was not entered before.
LEMMA BusIsNew ==
    ASSUME NEW fn, Wired(fn), NEW fd, NEW fr, fr # <<>>, Scanned(fn, fd, fr),
           At(fr[Len(fr)]) \in DOMAIN fn
    PROVE  /\ \A i \in 1 .. Len(fd) : fd[i].at # At(fr[Len(fr)])
           /\ Leads(fn[At(fr[Len(fr)])]) =>
                ~Opened(fn, fd, fn[At(fr[Len(fr)])].secondary)
  <1>1. fr \in Seq(FrameType)
    BY DEF Scanned, Stacked
  <1>2. PICK n \in Nat \ {0} : n = Len(fr)
    BY <1>1
  <1>3. PICK f \in FrameType : f = fr[n]
    BY <1>1, <1>2
  <1>4. f.bus \in Nat /\ f.slot \in Nat /\ f.func \in Nat
    BY PciAssumption DEF FrameType
  <1>5. PICK at : at = At(f)
    OBVIOUS
  <1>6. at[1] = f.bus /\ at[2] = f.slot /\ at[3] = f.func
    BY <1>5 DEF At
  <1>7. Ahead(at, f)
    BY <1>4, <1>6 DEF Ahead
  <1>8. ASSUME NEW i \in 1 .. Len(fd) PROVE fd[i].at # at
    <2>1. fr[n].bus = fd[i].at[1] => ~Ahead(fd[i].at, fr[n])
      BY <1>2 DEF Scanned, Passed
    <2> QED
      BY <1>3, <1>6, <1>7, <2>1
  <1>9. ASSUME Leads(fn[at]), Opened(fn, fd, fn[at].secondary) PROVE FALSE
    <2>1. PICK p \in 0 .. Len(fd) : LeadsTo(fn, fd, p, fn[at].secondary)
      BY <1>9 DEF Opened
    <2>2. p # 0
      BY <1>9, <2>1 DEF LeadsTo, Leads
    <2>3. p \in 1 .. Len(fd) /\ Leads(fn[fd[p].at])
          /\ fn[fd[p].at].secondary = fn[at].secondary
      BY <2>1, <2>2 DEF LeadsTo
    <2>4. fd[p].at \in DOMAIN fn
      BY <2>3 DEF Scanned, Recorded
    <2>5. at \in DOMAIN fn
      BY <1>2, <1>3, <1>5
    <2>6. fd[p].at = at
      BY <1>9, <2>3, <2>4, <2>5 DEF Wired
    <2> QED
      BY <1>8, <2>3, <2>6
  <1> QED
    BY <1>2, <1>3, <1>5, <1>8, <1>9

\* Nothing is there: the search goes on behind it.
LEMMA AbsentKeeps ==
    ASSUME NEW fn, Wired(fn), SameWiring(config, fn), NEW fd, NEW fr, fr # <<>>,
           Scanned(fn, fd, fr), At(fr[Len(fr)]) \notin DOMAIN fn, fr[Len(fr)].slot < Slots,
           NEW g, Turned(fr, g, Following(fr[Len(fr)]))
    PROVE  Scanned(fn, fd, g)
  <1>1. fr \in Seq(FrameType)
    BY DEF Scanned, Stacked
  <1>2. PICK n \in Nat \ {0} : n = Len(fr)
    BY <1>1
  <1>3. PICK f \in FrameType : f = fr[n]
    BY <1>1, <1>2
  <1>4. PICK e : e = Following(f)
    OBVIOUS
  <1>5. /\ e \in FrameType /\ e.bus = f.bus /\ e.parent = f.parent
        /\ \A a \in DOMAIN fn : a[1] = f.bus => (Ahead(a, f) <=> a = At(f) \/ Ahead(a, e))
    BY <1>2, <1>3, <1>4, FollowingPasses DEF At
  <1>6. \A a \in DOMAIN fn : a[1] = f.bus => (Ahead(a, f) <=> Ahead(a, e))
    BY <1>2, <1>3, <1>5
  <1>7. g \in Seq(FrameType) /\ Len(g) = n /\ g[n] = e /\ \A k \in 1 .. n - 1 : g[k] = fr[k]
    BY <1>2, <1>3, <1>4 DEF Turned
  <1>8. \A k \in 1 .. n : /\ g[k].bus = fr[k].bus /\ g[k].parent = fr[k].parent
                          /\ \A a \in DOMAIN fn : a[1] = fr[k].bus =>
                               (Ahead(a, fr[k]) <=> Ahead(a, g[k]))
    <2>1. SUFFICES ASSUME NEW k \in 1 .. n
                   PROVE  /\ g[k].bus = fr[k].bus /\ g[k].parent = fr[k].parent
                          /\ \A a \in DOMAIN fn : a[1] = fr[k].bus =>
                               (Ahead(a, fr[k]) <=> Ahead(a, g[k]))
      OBVIOUS
    <2>2. CASE k = n
      BY <1>3, <1>5, <1>6, <1>7, <2>2
    <2>3. CASE k # n
      <3>1. g[k] = fr[k]
        BY <1>7, <2>3
      <3> QED
        BY <3>1
    <2> QED
      BY <2>2, <2>3
  <1>9. Stacked(fn, fd, g)
    BY <1>2, <1>7, <1>8 DEF Scanned, Stacked
  <1>10. Complete(fn, fd, g)
    BY <1>2, <1>7, <1>8 DEF Scanned, Complete
  <1>11. Passed(fd, g)
    <2>1. SUFFICES ASSUME NEW i \in 1 .. Len(fd), NEW k \in 1 .. n, g[k].bus = fd[i].at[1]
                   PROVE  ~Ahead(fd[i].at, g[k])
      BY <1>7 DEF Passed
    <2>2. fd[i].at \in DOMAIN fn
      BY DEF Scanned, Recorded
    <2>3. ~Ahead(fd[i].at, fr[k])
      BY <1>2, <1>8, <2>1 DEF Scanned, Passed
    <2> QED
      BY <1>8, <2>1, <2>2, <2>3
  <1> QED
    BY <1>9, <1>10, <1>11 DEF Scanned

\* The bus is done.
LEMMA ReturnKeeps ==
    ASSUME NEW fn, Wired(fn), NEW fd, NEW fr, fr # <<>>, Scanned(fn, fd, fr),
           fr[Len(fr)].slot = Slots
    PROVE  Scanned(fn, fd, Front(fr))
  <1>1. fr \in Seq(FrameType)
    BY DEF Scanned, Stacked
  <1>2. PICK n \in Nat \ {0} : n = Len(fr)
    BY <1>1
  <1>3. PICK g : g = Front(fr)
    OBVIOUS
  <1>4. g \in Seq(FrameType) /\ Len(g) = n - 1 /\ \A k \in 1 .. n - 1 : g[k] = fr[k]
    BY <1>1, <1>2, <1>3 DEF Front
  <1>5. Stacked(fn, fd, g)
    <2>1. \A k \in 1 .. Len(g) : k \in 1 .. Len(fr) /\ g[k].bus = fr[k].bus
                                /\ g[k].parent = fr[k].parent
      BY <1>2, <1>4
    <2> QED
      BY <1>4, <2>1 DEF Scanned, Stacked
  <1>6. \A a \in DOMAIN fn : ~Ahead(a, fr[n])
    <2>1. SUFFICES ASSUME NEW a \in DOMAIN fn PROVE ~Ahead(a, fr[n])
      OBVIOUS
    <2> QED
      BY <1>2, WiredPlaces, PciAssumption DEF Ahead
  <1>7. Complete(fn, fd, g)
    <2>1. SUFFICES ASSUME NEW a \in DOMAIN fn, Opened(fn, fd, a[1]),
                          ~ \E i \in 1 .. Len(fd) : fd[i].at = a
                   PROVE  \E k \in 1 .. Len(g) : g[k].bus = a[1] /\ Ahead(a, g[k])
      BY DEF Complete
    <2>2. PICK k \in 1 .. n : fr[k].bus = a[1] /\ Ahead(a, fr[k])
      BY <1>2, <2>1 DEF Scanned, Complete
    <2>3. k # n
      BY <1>6, <2>2
    <2> QED
      BY <1>4, <2>2, <2>3
  <1>8. Passed(fd, g)
    BY <1>2, <1>4 DEF Scanned, Passed
  <1> QED
    BY <1>3, <1>5, <1>7, <1>8 DEF Scanned

\* The first frame is that of bus 0, which nothing leads to.
LEMMA StartKeeps ==
    ASSUME NEW fn, Wired(fn)
    PROVE  Scanned(fn, <<>>, <<Frame(0, 0)>>)
  <1>1. Slots \in Nat \ {0} /\ Funcs \in Nat \ {0}
    BY PciAssumption
  <1>2. PICK f : f = Frame(0, 0)
    OBVIOUS
  <1>3. f \in FrameType /\ f.bus = 0 /\ f.slot = 0 /\ f.func = 0 /\ f.parent = 0
    BY <1>1, <1>2 DEF Frame, FrameType
  <1>4. PICK fr : fr = <<f>>
    OBVIOUS
  <1>5. fr \in Seq(FrameType) /\ Len(fr) = 1 /\ fr[1] = f
    BY <1>3, <1>4
  <1>6. PICK fd : fd = <<>>
    OBVIOUS
  <1>7. fd \in Seq(Nat) /\ Len(fd) = 0
    BY <1>6
  <1>8. Recorded(fn, fd) /\ FoundOnce(fd) /\ Passed(fd, fr)
    BY <1>7 DEF Recorded, FoundOnce, Passed
  <1>9. Stacked(fn, fd, fr)
    <2>1. LeadsTo(fn, fd, 0, 0)
      BY DEF LeadsTo
    <2> QED
      BY <1>3, <1>5, <2>1 DEF Stacked
  <1>10. Complete(fn, fd, fr)
    <2>1. SUFFICES ASSUME NEW a \in DOMAIN fn, Opened(fn, fd, a[1])
                   PROVE  fr[1].bus = a[1] /\ Ahead(a, fr[1])
      BY <1>5 DEF Complete
    <2>2. LeadsTo(fn, fd, 0, a[1])
      BY <1>7, <2>1 DEF Opened
    <2>3. a[1] = 0
      BY <2>2 DEF LeadsTo
    <2>4. a[2] \in Nat /\ a[3] \in Nat
      BY WiredPlaces
    <2> QED
      BY <1>3, <1>5, <2>3, <2>4 DEF Ahead
  <1> QED
    BY <1>2, <1>4, <1>6, <1>7, <1>8, <1>9, <1>10 DEF Scanned

\* The record of what h, the header at the place at, says.
RecordOf(rec, at, h, parent) ==
    /\ rec.at = at /\ rec.class = h.class /\ rec.bars = Bars(h) /\ rec.parent = parent

\* The frames after what was looked at is found to be h, and written down as n.
Deeper(g, e, h, n) == IF Leads(h) THEN e = Append(g, Frame(h.secondary, n)) ELSE e = g

\* Something is there: it is written down, and the search goes on behind it.
LEMMA PresentKeeps ==
    ASSUME NEW fn, Wired(fn), SameWiring(config, fn), NEW fd, NEW fr, fr # <<>>,
           Scanned(fn, fd, fr), NEW at \in DOMAIN fn, at = At(fr[Len(fr)]),
           NEW rec, RecordOf(rec, at, fn[at], fr[Len(fr)].parent),
           NEW fd1, Longer(fd1, fd, rec),
           NEW g, Turned(fr, g, Following(fr[Len(fr)])),
           NEW e, Deeper(g, e, fn[at], Len(fd) + 1)
    PROVE  Scanned(fn, fd1, e)
  <1>1. fr \in Seq(FrameType)
    BY DEF Scanned, Stacked
  <1>2. PICK n \in Nat \ {0} : n = Len(fr)
    BY <1>1
  <1>3. PICK f \in FrameType : f = fr[n]
    BY <1>1, <1>2
  <1>4. f.bus \in Nat /\ f.slot \in Nat /\ f.func \in Nat /\ f.slot <= Slots
    BY PciAssumption DEF FrameType
  <1>5. at[1] = f.bus /\ at[2] = f.slot /\ at[3] = f.func /\ at = At(f)
    BY <1>2, <1>3 DEF At
  <1>6. at[2] < Slots
    BY WiredPlaces
  <1>7. PICK m \in Nat : m = Len(fd)
    <2>1. PICK S : fd \in Seq(S)
      BY DEF Scanned
    <2> QED
      BY <2>1
  <1>8. /\ \E S : fd1 \in Seq(S)
        /\ Len(fd1) = m + 1 /\ \A i \in 1 .. m : fd1[i] = fd[i]
        /\ fd1[m + 1] = rec
    <2>1. PICK X : fd \in Seq(X)
      BY DEF Scanned
    <2>3. Longer(fd1, fd, rec)
      OBVIOUS
    <2>2. /\ \E T : fd1 \in Seq(T)
          /\ Len(fd1) = Len(fd) + 1
          /\ \A i \in 1 .. Len(fd) : fd1[i] = fd[i]
          /\ fd1[Len(fd) + 1] = rec
      BY ONLY <2>1, <2>3, AppendIs
    <2> QED
      BY <1>7, <2>2
  <1>9. PICK x : x = Following(f)
    OBVIOUS
  <1>10. /\ x \in FrameType /\ x.bus = f.bus /\ x.parent = f.parent
         /\ ~Ahead(at, x)
         /\ \A a \in DOMAIN fn : a[1] = f.bus => (Ahead(a, f) <=> a = at \/ Ahead(a, x))
    BY <1>5, <1>6, <1>9, FollowingPasses DEF At
  <1>11. g \in Seq(FrameType) /\ Len(g) = n /\ g[n] = x /\ \A k \in 1 .. n - 1 : g[k] = fr[k]
    BY <1>2, <1>3, <1>9 DEF Turned
  <1>12. /\ \A i \in 1 .. m : fd[i].at # at
         /\ Leads(fn[at]) => ~Opened(fn, fd, fn[at].secondary)
    BY <1>7, BusIsNew
  \* What led to a bus still does, and only what is new leads to others.
  <1>13. \A p \in 0 .. m : \A b : LeadsTo(fn, fd1, p, b) <=> LeadsTo(fn, fd, p, b)
    BY <1>7, <1>8 DEF LeadsTo
  <1>14. \A b : LeadsTo(fn, fd1, m + 1, b) <=> Leads(fn[at]) /\ fn[at].secondary = b
    BY <1>7, <1>8 DEF LeadsTo, RecordOf
  <1>15. \A k \in 1 .. n : LeadsTo(fn, fd, fr[k].parent, fr[k].bus)
                           /\ fr[k].parent \in 0 .. m
    BY <1>2, <1>7 DEF Scanned, Stacked, LeadsTo
  <1>16. Recorded(fn, fd1)
    <2>1. ASSUME NEW i \in 1 .. m
          PROVE  /\ fd1[i].at \in DOMAIN fn
                 /\ fd1[i].class = fn[fd1[i].at].class /\ fd1[i].bars = Bars(fn[fd1[i].at])
                 /\ fd1[i].parent \in 0 .. i - 1
                 /\ LeadsTo(fn, fd1, fd1[i].parent, fd1[i].at[1])
      <3>1. PICK r : r = fd[i] /\ r = fd1[i]
        BY <1>8
      <3>2. /\ r.at \in DOMAIN fn
            /\ r.class = fn[r.at].class /\ r.bars = Bars(fn[r.at])
            /\ r.parent \in 0 .. i - 1
            /\ LeadsTo(fn, fd, r.parent, r.at[1])
        BY <1>7, <3>1 DEF Scanned, Recorded
      <3>3. r.parent \in 0 .. m
        BY <3>2
      <3> QED
        BY <1>13, <3>1, <3>2, <3>3
    <2>2. /\ rec.at \in DOMAIN fn
          /\ rec.class = fn[rec.at].class /\ rec.bars = Bars(fn[rec.at])
      BY DEF RecordOf
    <2>3. /\ rec.parent \in 0 .. m
          /\ LeadsTo(fn, fd1, rec.parent, rec.at[1])
      BY <1>2, <1>3, <1>5, <1>13, <1>15 DEF RecordOf
    <2>4. \A i \in 1 .. m + 1 : i \in 1 .. m \/ (i = m + 1 /\ fd1[i] = rec /\ i - 1 = m)
      BY <1>8
    <2> QED
      BY <1>8, <2>1, <2>2, <2>3, <2>4 DEF Recorded
  <1>17. FoundOnce(fd1)
    <2>1. \A i, j \in 1 .. m : fd[i].at = fd[j].at => i = j
      BY <1>7 DEF Scanned, FoundOnce
    <2>2. rec.at = at
      BY DEF RecordOf
    <2> QED
      BY <1>8, <1>12, <2>1, <2>2 DEF FoundOnce
  <1> DEFINE new == Frame(fn[at].secondary, m + 1)
  <1>18. /\ \A k \in 1 .. n : e[k] = g[k]
         /\ e \in Seq(FrameType) /\ Len(e) \in {n, n + 1}
         /\ Len(e) = n + 1 => Leads(fn[at]) /\ e[n + 1] = new
         /\ Leads(fn[at]) => Len(e) = n + 1
         /\ new.bus = fn[at].secondary /\ new.parent = m + 1 /\ new.slot = 0 /\ new.func = 0
    <2>1. new \in FrameType
      <3>1. Slots \in Nat \ {0} /\ Funcs \in Nat \ {0}
        BY PciAssumption
      <3>2. fn[at].secondary \in Nat
        BY DEF Wired
      <3>3. 0 \in 0 .. Slots /\ 0 \in 0 .. Funcs - 1 /\ m + 1 \in Nat
        BY <3>1
      <3> QED
        BY <3>2, <3>3 DEF Frame, FrameType
    <2>2. new.bus = fn[at].secondary /\ new.parent = m + 1 /\ new.slot = 0 /\ new.func = 0
      BY DEF Frame
    <2>3. CASE Leads(fn[at])
      <3>1. PICK y \in FrameType : y = new
        BY <2>1
      <3>2. e = Append(g, y)
        BY <1>7, <2>3, <3>1 DEF Deeper
      <3>3. e \in Seq(FrameType) /\ Len(e) = n + 1 /\ e[n + 1] = y
            /\ \A k \in 1 .. n : e[k] = g[k]
        BY <1>11, <3>2
      <3> QED
        BY <2>2, <2>3, <3>1, <3>3
    <2>4. CASE ~Leads(fn[at])
      BY <1>11, <2>2, <2>4 DEF Deeper
    <2> QED
      BY <2>3, <2>4
  <1> HIDE DEF new
  <1>19. \A k \in 1 .. n : e[k].bus = fr[k].bus /\ e[k].parent = fr[k].parent
    <2>1. \A k \in 1 .. n : e[k] = IF k = n THEN x ELSE fr[k]
      BY <1>11, <1>18
    <2> QED
      BY <1>3, <1>10, <2>1
  \* Nothing known so far is on the new bus.
  <1>20. \A b : Opened(fn, fd, b) /\ Leads(fn[at]) => b # fn[at].secondary
    BY <1>12
  <1>21. \A k \in 1 .. n : Opened(fn, fd, fr[k].bus)
    BY <1>7, <1>15 DEF Opened
  <1>22. Stacked(fn, fd1, e)
    <2>1. ASSUME NEW k \in 1 .. Len(e) PROVE LeadsTo(fn, fd1, e[k].parent, e[k].bus)
      <3>1. CASE k \in 1 .. n
        BY <1>13, <1>15, <1>19, <3>1
      <3>2. CASE k = n + 1
        BY <1>14, <1>18, <3>2
      <3> QED
        BY <1>18, <2>1, <3>1, <3>2
    <2>2. \A j, k \in 1 .. n : e[j].bus = e[k].bus => j = k
      BY <1>2, <1>19 DEF Scanned, Stacked
    <2>3. \A k \in 1 .. n : Leads(fn[at]) => e[k].bus # new.bus
      BY <1>18, <1>19, <1>20, <1>21
    <2>4. \A j, k \in 1 .. Len(e) : e[j].bus = e[k].bus => j = k
      BY <1>18, <2>2, <2>3
    <2> QED
      BY <1>18, <2>1, <2>4 DEF Stacked
  <1>23. Complete(fn, fd1, e)
    <2>1. SUFFICES ASSUME NEW a \in DOMAIN fn, Opened(fn, fd1, a[1]),
                          ~ \E i \in 1 .. m + 1 : fd1[i].at = a
                   PROVE  \E k \in 1 .. Len(e) : e[k].bus = a[1] /\ Ahead(a, e[k])
      BY <1>8 DEF Complete
    <2>2. PICK p \in 0 .. m + 1 : LeadsTo(fn, fd1, p, a[1])
      BY <1>8, <2>1 DEF Opened
    <2>3. CASE p = m + 1
      <3>1. Leads(fn[at]) /\ a[1] = fn[at].secondary
        BY <1>14, <2>2, <2>3
      <3>2. a[2] \in Nat /\ a[3] \in Nat
        BY WiredPlaces
      <3>3. Ahead(a, new)
        BY <1>18, <3>2 DEF Ahead
      <3> QED
        BY <1>18, <3>1, <3>3
    <2>4. CASE p # m + 1
      <3>1. LeadsTo(fn, fd, p, a[1]) /\ p \in 0 .. m
        BY <1>13, <2>2, <2>4
      <3>2. Opened(fn, fd, a[1])
        BY <1>7, <3>1 DEF Opened
      <3>3. ~ \E i \in 1 .. m : fd[i].at = a
        BY <1>8, <2>1
      <3>4. a # at
        BY <1>8, <2>1 DEF RecordOf
      <3>5. PICK k \in 1 .. n : fr[k].bus = a[1] /\ Ahead(a, fr[k])
        BY <1>2, <1>7, <3>2, <3>3 DEF Scanned, Complete
      <3>6. Ahead(a, e[k])
        <4>1. CASE k = n
          BY <1>3, <1>10, <1>11, <1>18, <3>4, <3>5, <4>1
        <4>2. CASE k # n
          <5>1. e[k] = fr[k]
            BY <1>11, <1>18, <4>2
          <5> QED
            BY <3>5, <5>1
        <4> QED
          BY <4>1, <4>2
      <3>7. k \in 1 .. Len(e) /\ e[k].bus = a[1]
        BY <1>18, <1>19, <3>5
      <3> QED
        BY <3>6, <3>7
    <2> QED
      BY <2>3, <2>4
  <1>24. Passed(fd1, e)
    <2>1. SUFFICES ASSUME NEW i \in 1 .. m + 1, NEW k \in 1 .. Len(e),
                          e[k].bus = fd1[i].at[1], Ahead(fd1[i].at, e[k])
                   PROVE  FALSE
      BY <1>8 DEF Passed
    <2>2. PICK y : y = fd1[i].at
      OBVIOUS
    <2>3. Opened(fn, fd, y[1]) /\ y \in DOMAIN fn
      <3>1. CASE i = m + 1
        <4>1. y = at
          BY <1>8, <2>2, <3>1 DEF RecordOf
        <4> QED
          BY <1>3, <1>5, <1>21, <4>1
      <3>2. CASE i # m + 1
        <4>1. i \in 1 .. m /\ y = fd[i].at
          BY <1>8, <2>2, <3>2
        <4>2. LeadsTo(fn, fd, fd[i].parent, y[1]) /\ fd[i].parent \in 0 .. i - 1
              /\ y \in DOMAIN fn
          BY <1>7, <4>1 DEF Scanned, Recorded
        <4> QED
          BY <1>7, <4>1, <4>2 DEF Opened
      <3> QED
        BY <3>1, <3>2
    <2>4. k \in 1 .. n
      <3>1. Leads(fn[at]) => y[1] # fn[at].secondary
        BY <1>20, <2>3
      <3>2. k # n + 1
        <4>1. SUFFICES ASSUME k = n + 1 PROVE FALSE
          OBVIOUS
        <4>2. Leads(fn[at]) /\ e[k] = new
          BY <1>18, <4>1
        <4> QED
          BY <1>18, <2>1, <2>2, <3>1, <4>2
      <3> QED
        BY <1>18, <3>2
    <2>5. fr[k].bus = y[1]
      BY <1>19, <2>1, <2>2, <2>4
    <2>6. CASE i = m + 1
      <3>1. y = at
        BY <1>8, <2>2, <2>6 DEF RecordOf
      <3>2. k = n
        BY <1>2, <1>3, <1>5, <2>4, <2>5, <3>1 DEF Scanned, Stacked
      <3>3. Ahead(at, x)
        BY <1>11, <1>18, <2>1, <2>2, <2>4, <3>1, <3>2
      <3> QED
        BY <1>10, <3>3
    <2>7. CASE i # m + 1
      <3>1. i \in 1 .. m /\ y = fd[i].at
        BY <1>8, <2>2, <2>7
      <3>2. ~Ahead(y, fr[k])
        BY <1>2, <1>7, <2>4, <2>5, <3>1 DEF Scanned, Passed
      <3>3. CASE k = n
        <4>1. Ahead(y, x) /\ y[1] = f.bus
          BY <1>3, <1>11, <1>18, <2>1, <2>2, <2>4, <2>5, <3>3
        <4>2. Ahead(y, f)
          BY <1>10, <2>3, <4>1
        <4> QED
          BY <1>3, <3>2, <3>3, <4>2
      <3>4. CASE k # n
        <4>1. e[k] = fr[k]
          BY <1>11, <1>18, <2>4, <3>4
        <4> QED
          BY <2>1, <2>2, <3>2, <4>1
      <3> QED
        BY <3>3, <3>4
    <2> QED
      BY <2>6, <2>7
  <1> QED
    BY <1>8, <1>16, <1>17, <1>22, <1>23, <1>24 DEF Scanned

LEMMA SameHeader ==
    ASSUME NEW g, NEW h, g.bridge = h.bridge, g.bars = h.bars,
           g.secondary = h.secondary, g.subordinate = h.subordinate
    PROVE  Bars(g) = Bars(h) /\ (Leads(g) <=> Leads(h))
  BY DEF Bars, Leads

\* pci_enable_bus_master changes commands only.
LEMMA WiringIsKept ==
    ASSUME NEW fn, SameWiring(config, fn), NEW d
    PROVE  SameWiring(pci_enable_bus_master(d), fn)
  <1> DEFINE opened == {found[i].at : i \in {d} \cup Upstream(d)}
             c == pci_enable_bus_master(d)
  <1>1. c = [a \in DOMAIN config |->
               IF a \in opened THEN [config[a] EXCEPT !.cmd = @ \cup {BME} \cup Needs(d)]
               ELSE config[a]]
    BY DEF pci_enable_bus_master
  <1> HIDE DEF opened, c
  <1>2. DOMAIN c = DOMAIN fn
    BY <1>1 DEF SameWiring
  <1>3. ASSUME NEW a \in DOMAIN fn
        PROVE  /\ DOMAIN c[a] = HeaderFields
               /\ c[a].class = fn[a].class /\ c[a].multi = fn[a].multi /\ c[a].bars = fn[a].bars
               /\ c[a].bridge = fn[a].bridge /\ c[a].secondary = fn[a].secondary
               /\ c[a].subordinate = fn[a].subordinate
    <2>1. PICK h : h = config[a]
      OBVIOUS
    <2>2. /\ DOMAIN h = HeaderFields
          /\ h.class = fn[a].class /\ h.multi = fn[a].multi /\ h.bars = fn[a].bars
          /\ h.bridge = fn[a].bridge /\ h.secondary = fn[a].secondary
          /\ h.subordinate = fn[a].subordinate
      BY <2>1 DEF SameWiring
    <2>3. c[a] = [h EXCEPT !.cmd = @ \cup {BME} \cup Needs(d)] \/ c[a] = h
      BY <1>1, <2>1 DEF SameWiring
    <2> QED
      BY <2>2, <2>3 DEF HeaderFields
  <1>4. SameWiring(c, fn)
    BY <1>2, <1>3 DEF SameWiring
  <1> QED
    BY <1>4 DEF c

LEMMA BusInvInit == MachinesAreWired => (Init => BusInv)
  <1>1. SUFFICES ASSUME MachinesAreWired, Init PROVE BusInv
    OBVIOUS
  <1>2. machine \in Machines /\ config = machine.functions /\ found = <<>> /\ frames = <<>>
    BY <1>1 DEF Init, PciInit
  <1>3. Wired(machine.functions)
    BY <1>1, <1>2 DEF MachinesAreWired
  <1>4. SameWiring(config, machine.functions)
    BY <1>2, <1>3 DEF Wired, SameWiring
  <1> QED
    BY <1>2, <1>4 DEF BusInv

LEMMA BusQuietKeeps ==
    ASSUME BusInv, UNCHANGED <<found, frames, machine>>,
           config' = config \/ \E d : config' = pci_enable_bus_master(d)
    PROVE  BusInv'
  <1>1. SameWiring(config, machine.functions)
    BY DEF BusInv
  <1>2. SameWiring(config', machine.functions)
    BY <1>1, WiringIsKept
  <1> QED
    BY <1>2 DEF BusInv

LEMMA StartScanKeeps ==
    ASSUME BusInv, MachinesAreWired, StartScan
    PROVE  BusInv'
  <1>1. /\ frames' = <<Frame(0, 0)>> /\ found' = <<>>
        /\ UNCHANGED config /\ UNCHANGED machine
    BY DEF StartScan, pci_init, Step
  <1>2. Wired(machine.functions)
    BY DEF BusInv, MachinesAreWired
  <1>3. Scanned(machine.functions, <<>>, <<Frame(0, 0)>>)
    BY <1>2, StartKeeps
  <1>4. Scanned(machine.functions, found', frames')
    BY <1>1, <1>3
  <1> QED
    BY <1>1, <1>4 DEF BusInv

LEMMA BusScanKeeps ==
    ASSUME BusInv, MachinesAreWired, Scan
    PROVE  BusInv'
  <1>1. /\ Busy /\ UNCHANGED config /\ UNCHANGED machine
        /\ \/ Present \/ Absent \/ Return
           \/ UNCHANGED <<found, frames>>
    BY DEF Scan
  <1>2. PICK fn : fn = machine.functions /\ Wired(fn)
    BY DEF BusInv, MachinesAreWired
  <1>3. SameWiring(config, fn) /\ frames # <<>> /\ Scanned(fn, found, frames)
    BY <1>1, <1>2 DEF BusInv, Busy
  <1>4. frames \in Seq(FrameType)
    BY <1>3 DEF Scanned, Stacked
  <1>5. PICK f \in FrameType : f = frames[Len(frames)] /\ f = Last(frames)
    <2>1. PICK n \in Nat \ {0} : n = Len(frames)
      BY <1>3, <1>4
    <2> QED
      BY <1>4, <2>1 DEF Last
  <1>6. Slot = At(f)
    BY <1>5 DEF Slot, At
  <1>7. DOMAIN config = DOMAIN fn
    BY <1>3 DEF SameWiring
  <1>8. f.slot < Slots =>
           Following(f) \in FrameType /\ Turned(frames, Append(Front(frames), Following(f)), Following(f))
    <2>1. SUFFICES ASSUME f.slot < Slots
                   PROVE  /\ Following(f) \in FrameType
                          /\ Turned(frames, Append(Front(frames), Following(f)), Following(f))
      OBVIOUS
    <2>2. Following(f) \in FrameType
      BY <1>2, <1>3, <2>1, FollowingPasses
    <2> QED
      BY <1>3, <1>4, <2>2, LastIsTurned
  <1>9. CASE Present
    <2> DEFINE h == config[Slot]
               rec == [at |-> Slot, class |-> h.class, bars |-> Bars(h),
                       bridge |-> h.bridge, parent |-> Last(frames).parent]
               g == Append(Front(frames), Following(Last(frames)))
    <2>1. /\ Slot \in DOMAIN config
          /\ found' = Append(found, rec)
          /\ frames' = g \o (IF Leads(h) THEN <<Frame(h.secondary, Len(found) + 1)>> ELSE <<>>)
      BY <1>9 DEF Present
    <2>2. PICK at \in DOMAIN fn : at = At(f) /\ at = Slot
      BY <1>6, <1>7, <2>1
    <2>3. /\ h.class = fn[at].class /\ Bars(h) = Bars(fn[at])
          /\ h.secondary = fn[at].secondary /\ (Leads(h) <=> Leads(fn[at]))
      <3>1. /\ h.class = fn[at].class /\ h.bars = fn[at].bars /\ h.bridge = fn[at].bridge
            /\ h.secondary = fn[at].secondary /\ h.subordinate = fn[at].subordinate
        BY <1>3, <2>2 DEF SameWiring
      <3> QED
        BY <3>1, SameHeader
    <2>4. RecordOf(rec, at, fn[at], f.parent)
      BY <1>5, <2>2, <2>3 DEF RecordOf
    <2>5. f.slot < Slots
      <3>1. at[2] < Slots
        BY <1>2, WiredPlaces
      <3> QED
        BY <2>2, <3>1 DEF At
    <2>6. Turned(frames, g, Following(f))
      BY <1>5, <1>8, <2>5
    <2>7. Deeper(g, frames', fn[at], Len(found) + 1)
      <3>1. g \in Seq(FrameType)
        BY <2>6 DEF Turned
      <3>2. CASE Leads(fn[at])
        <4>1. PICK y : y = Frame(fn[at].secondary, Len(found) + 1)
          OBVIOUS
        <4>2. frames' = g \o <<y>>
          BY <2>1, <2>3, <3>2, <4>1
        <4>3. g \o <<y>> = Append(g, y)
          <5>1. PICK T : T = FrameType \cup {y}
            OBVIOUS
          <5>2. PICK q \in Seq(FrameType) : q = g
            BY <3>1
          <5>3. q \in Seq(T) /\ y \in T
            BY <5>1
          <5>4. q \o <<y>> = Append(q, y)
            BY <5>3
          <5> QED
            BY <5>2, <5>4
        <4> QED
          BY <3>2, <4>1, <4>2, <4>3 DEF Deeper
      <3>3. CASE ~Leads(fn[at])
        <4>1. PICK q : q = g /\ q \in Seq(FrameType)
          BY <3>1
        <4>2. q \o <<>> = q
          BY <4>1
        <4>3. frames' = g
          BY <2>1, <2>3, <3>3, <4>1, <4>2
        <4> QED
          BY <3>3, <4>3 DEF Deeper
      <3> QED
        BY <3>2, <3>3
    <2> HIDE DEF h, rec, g
    <2>8. Longer(found', found, rec)
      BY <2>1 DEF Longer
    <2>9. Scanned(fn, found', frames')
      BY <1>2, <1>3, <1>5, <2>2, <2>4, <2>6, <2>7, <2>8, PresentKeeps
    <2> QED
      BY <1>1, <1>2, <1>3, <2>9 DEF BusInv
  <1>10. CASE Absent
    <2>1. /\ f.slot < Slots /\ At(f) \notin DOMAIN fn
          /\ frames' = Append(Front(frames), Following(f)) /\ found' = found
      BY <1>5, <1>6, <1>7, <1>10 DEF Absent
    <2>2. Turned(frames, frames', Following(f))
      BY <1>8, <2>1
    <2>3. Scanned(fn, found, frames')
      BY <1>2, <1>3, <1>5, <2>1, <2>2, AbsentKeeps
    <2> QED
      BY <1>1, <1>2, <1>3, <2>1, <2>3 DEF BusInv
  <1>11. CASE Return
    <2>1. f.slot = Slots /\ frames' = Front(frames) /\ found' = found
      BY <1>5, <1>11 DEF Return
    <2>2. Scanned(fn, found, Front(frames))
      BY <1>2, <1>3, <1>5, <2>1, ReturnKeeps
    <2> QED
      BY <1>1, <1>2, <1>3, <2>1, <2>2 DEF BusInv
  <1>12. CASE UNCHANGED <<found, frames>>
    BY <1>1, <1>12 DEF BusInv
  <1> QED
    BY <1>1, <1>9, <1>10, <1>11, <1>12

LEMMA BusInvStep ==
    ASSUME MachinesAreWired
    PROVE  BusInv /\ [Next]_vars => BusInv'
  <1>1. SUFFICES ASSUME BusInv, [Next]_vars PROVE BusInv'
    OBVIOUS
  <1>2. CASE StartScan
    BY <1>1, <1>2, StartScanKeeps
  <1>3. CASE Scan
    BY <1>1, <1>3, BusScanKeeps
  <1>4. CASE SearchDisks
    <2>1. UNCHANGED <<found, frames, machine>>
      BY <1>4 DEF SearchDisks
    <2>2. config' = config \/ config' = pci_enable_bus_master(Device)
      BY <1>4 DEF SearchDisks, disk_driver_system_init, MountPata, PassOver, MountNvme
    <2> QED
      BY <1>1, <2>1, <2>2, BusQuietKeeps
  <1>5. CASE ReadPartitions
    <2>1. UNCHANGED <<config, found, frames, machine>>
      BY <1>5 DEF ReadPartitions, gpt_init, gpt_mount_partitions
    <2> QED
      BY <1>1, <2>1, BusQuietKeeps
  <1>6. CASE RunProgram
    <2>1. UNCHANGED <<config, found, frames, machine>>
      BY <1>6 DEF RunProgram, devices, pciVars
    <2> QED
      BY <1>1, <2>1, BusQuietKeeps
  <1>7. CASE \/ ListMemory \/ NoList \/ StartKernel \/ NoKernel
             \/ NoRoom \/ SetUpHeap \/ NoTables \/ SetUpPaging \/ SetUpGraphics
             \/ ScanDone \/ LoadFonts \/ SetUpTss \/ LoadShell \/ NoShell
    <2>1. UNCHANGED <<config, found, frames, machine>>
      BY <1>7 DEF ListMemory, NoList, StartKernel, NoKernel, NoRoom, SetUpHeap, NoTables,
         SetUpPaging, SetUpGraphics, ScanDone, LoadFonts, SetUpTss, LoadShell, NoShell,
         Step, devices, kernelState, pciVars
    <2> QED
      BY <1>1, <2>1, BusQuietKeeps
  <1>8. CASE UNCHANGED vars
    <2>1. UNCHANGED <<config, found, frames, machine>>
      BY <1>8 DEF vars, pciVars
    <2> QED
      BY <1>1, <2>1, BusQuietKeeps
  <1> QED
    BY <1>1, <1>2, <1>3, <1>4, <1>5, <1>6, <1>7, <1>8 DEF Next

\* The invariant of the search of the buses.
THEOREM BootBusInductive ==
    ASSUME MachinesAreWired
    PROVE  Spec => []BusInv
  <1>1. Init => BusInv
    BY BusInvInit
  <1>2. BusInv /\ [Next]_vars => BusInv'
    BY BusInvStep
  <1> QED
    BY <1>1, <1>2, PTL DEF Spec

\* The buses that bridges lead to.
Behind(fn, S) == {fn[a].secondary : a \in {x \in DOMAIN fn : x[1] \in S /\ Leads(fn[x])}}

LEMMA BusesAre ==
    ASSUME NEW fn, SameWiring(config, fn), NEW b
    PROVE  b \in Buses <=>
             LET all == {0} \cup {fn[a].secondary : a \in DOMAIN fn}
             IN  b \in all /\ \A S \in SUBSET all : 0 \in S /\ Behind(fn, S) \subseteq S => b \in S
  <1> DEFINE all == {0} \cup {fn[a].secondary : a \in DOMAIN fn}
             all0 == {0} \cup {config[a].secondary : a \in DOMAIN config}
  <1>1. DOMAIN config = DOMAIN fn
        /\ \A a \in DOMAIN fn : config[a].secondary = fn[a].secondary
                               /\ (Leads(config[a]) <=> Leads(fn[a]))
    BY DEF SameWiring, Leads
  <1>2. all0 = all
    BY <1>1
  <1>3. \A S : Behind(config, S) = Behind(fn, S)
    BY <1>1 DEF Behind
  <1>4. b \in Buses <=>
          b \in all0 /\ \A S \in SUBSET all0 : 0 \in S /\ Behind(config, S) \subseteq S => b \in S
    BY DEF Buses, Behind
  <1> QED
    BY <1>2, <1>3, <1>4

\* The buses that were entered when the search is over are those.
LEMMA OpenedAreBuses ==
    ASSUME NEW fn, Wired(fn), SameWiring(config, fn), NEW fd, Scanned(fn, fd, <<>>), NEW b
    PROVE  b \in Buses <=> Opened(fn, fd, b)
  <1> DEFINE all == {0} \cup {fn[a].secondary : a \in DOMAIN fn}
             opened == {x \in all : Opened(fn, fd, x)}
  <1>1. PICK m \in Nat : m = Len(fd)
    <2>1. PICK S : fd \in Seq(S)
      BY DEF Scanned
    <2> QED
      BY <2>1
  <1>2. \A i \in 1 .. m : /\ fd[i].at \in DOMAIN fn /\ fd[i].parent \in 0 .. i - 1
                          /\ LeadsTo(fn, fd, fd[i].parent, fd[i].at[1])
    BY <1>1 DEF Scanned, Recorded
  <1>3. \A a \in DOMAIN fn : Opened(fn, fd, a[1]) => \E i \in 1 .. m : fd[i].at = a
    <2>1. Len(<<>>) = 0
      OBVIOUS
    <2> QED
      BY <1>1, <2>1 DEF Scanned, Complete
  <1>4. \A x : Opened(fn, fd, x) => x \in all
    <2>1. ASSUME NEW x, NEW p \in 0 .. m, LeadsTo(fn, fd, p, x) PROVE x \in all
      <3>1. CASE p = 0
        BY <2>1, <3>1 DEF LeadsTo
      <3>2. CASE p # 0
        BY <1>1, <1>2, <2>1, <3>2 DEF LeadsTo
      <3> QED
        BY <3>1, <3>2
    <2> QED
      BY <1>1, <2>1 DEF Opened
  <1>5. 0 \in opened
    <2>1. LeadsTo(fn, fd, 0, 0) /\ 0 \in 0 .. Len(fd)
      BY <1>1 DEF LeadsTo
    <2> QED
      BY <2>1 DEF Opened
  <1>6. Behind(fn, opened) \subseteq opened
    <2>1. SUFFICES ASSUME NEW a \in DOMAIN fn, Opened(fn, fd, a[1]), Leads(fn[a])
                   PROVE  Opened(fn, fd, fn[a].secondary)
      BY <1>4 DEF Behind
    <2>2. PICK i \in 1 .. m : fd[i].at = a
      BY <1>3, <2>1
    <2>3. i # 0 /\ i \in 0 .. Len(fd) /\ LeadsTo(fn, fd, i, fn[a].secondary)
      BY <1>1, <2>1, <2>2 DEF LeadsTo
    <2> QED
      BY <2>3 DEF Opened
  <1>7. ASSUME b \in Buses PROVE Opened(fn, fd, b)
    <2>1. \A S \in SUBSET all : 0 \in S /\ Behind(fn, S) \subseteq S => b \in S
      BY <1>7, BusesAre
    <2>2. opened \in SUBSET all
      OBVIOUS
    <2> HIDE DEF all, opened
    <2>3. b \in opened
      BY <1>5, <1>6, <2>1, <2>2
    <2> QED
      BY <2>3 DEF opened
  <1>8. ASSUME Opened(fn, fd, b) PROVE b \in Buses
    <2>1. SUFFICES ASSUME NEW S \in SUBSET all, 0 \in S, Behind(fn, S) \subseteq S
                   PROVE  b \in S
      BY <1>4, <1>8, BusesAre
    \* Of the devices that lead to a bus outside S, the first is itself behind one.
    <2> DEFINE Outside == {p \in 1 .. m : Leads(fn[fd[p].at]) /\ fn[fd[p].at].secondary \notin S}
    <2>2. Outside = {}
      <3>1. SUFFICES ASSUME Outside # {} PROVE FALSE
        OBVIOUS
      <3>2. PICK p \in Outside : \A q \in Outside : p <= q
        <4>1. Outside \subseteq Nat
          OBVIOUS
        <4> HIDE DEF Outside
        <4> QED
          BY <3>1, <4>1, LeastNumber
      <3>3. p \in 1 .. m /\ Leads(fn[fd[p].at]) /\ fn[fd[p].at].secondary \notin S
        OBVIOUS
      <3>4. PICK q : q = fd[p].parent /\ q \in 0 .. p - 1 /\ LeadsTo(fn, fd, q, fd[p].at[1])
                     /\ fd[p].at \in DOMAIN fn
        BY <1>2, <3>3
      <3>5. fd[p].at[1] \notin S
        BY <2>1, <3>3, <3>4 DEF Behind
      <3>6. q # 0 /\ Leads(fn[fd[q].at]) /\ fn[fd[q].at].secondary \notin S
        BY <2>1, <3>4, <3>5 DEF LeadsTo
      <3>7. q \in Outside /\ ~ (p <= q)
        BY <3>3, <3>4, <3>6
      <3> QED
        BY <3>2, <3>7
    <2>3. PICK p \in 0 .. m : LeadsTo(fn, fd, p, b)
      BY <1>1, <1>8 DEF Opened
    <2>4. CASE p = 0
      BY <2>1, <2>3, <2>4 DEF LeadsTo
    <2>5. CASE p # 0
      BY <1>1, <2>2, <2>3, <2>5 DEF LeadsTo
    <2> QED
      BY <2>4, <2>5
  <1> QED
    BY <1>7, <1>8

LEMMA CountedOnce ==
    ASSUME NEW f, NEW m \in Nat, f = [i \in 1 .. m |-> f[i]],
           \A i, j \in 1 .. m : f[i] = f[j] => i = j
    PROVE  Cardinality({f[i] : i \in 1 .. m}) = m
  <1> DEFINE T == {f[i] : i \in 1 .. m}
  <1>1. f \in Bijection(1 .. m, T)
    BY DEF Bijection, Injection, Surjection, IsInjective
  <1> QED
    BY <1>1, FS_CountingElements DEF ExistsBijection

\* Once the search is over, every function on a bus that can be reached has been
\* written down, once, with the bridge that leads to its bus as its parent (io/pci.c
\* pci_scan_bus, pci_init).
THEOREM BootDevicesFound ==
    ASSUME MachinesAreWired
    PROVE  Spec => []DevicesFound
  <1>1. BusInv => DevicesFound
    <2>1. SUFFICES ASSUME BusInv, found # <<>>, ~Busy
                   PROVE  /\ Len(found) = Cardinality({found[i].at : i \in DOMAIN found})
                          /\ {found[i].at : i \in DOMAIN found}
                                = {a \in DOMAIN config : a[1] \in Buses}
                          /\ \A i \in DOMAIN found :
                                IF found[i].parent = 0 THEN found[i].at[1] = 0
                                ELSE LET bridge == found[found[i].parent].at
                                     IN  /\ Leads(config[bridge])
                                         /\ config[bridge].secondary = found[i].at[1]
      BY DEF DevicesFound
    <2>2. PICK fn : fn = machine.functions /\ Wired(fn)
      BY <2>1 DEF BusInv, MachinesAreWired
    <2>3. SameWiring(config, fn) /\ Scanned(fn, found, <<>>)
      BY <2>1, <2>2 DEF BusInv, Busy
    <2>4. PICK m \in Nat : m = Len(found) /\ DOMAIN found = 1 .. m
      <3>1. PICK S : found \in Seq(S)
        BY <2>3 DEF Scanned
      <3> QED
        BY <3>1
    <2>5. \A i \in 1 .. m : /\ found[i].at \in DOMAIN fn /\ found[i].parent \in 0 .. i - 1
                            /\ LeadsTo(fn, found, found[i].parent, found[i].at[1])
      BY <2>3, <2>4 DEF Scanned, Recorded
    <2>6. DOMAIN config = DOMAIN fn
          /\ \A a \in DOMAIN fn : config[a].secondary = fn[a].secondary
                                 /\ (Leads(config[a]) <=> Leads(fn[a]))
      BY <2>3 DEF SameWiring, Leads
    <2>7. Len(found) = Cardinality({found[i].at : i \in DOMAIN found})
      <3> DEFINE f == [i \in 1 .. m |-> found[i].at]
      <3>1. \A i, j \in 1 .. m : f[i] = f[j] => i = j
        BY <2>3, <2>4 DEF Scanned, FoundOnce
      <3>2. {f[i] : i \in 1 .. m} = {found[i].at : i \in DOMAIN found}
        BY <2>4
      <3>3. f = [i \in 1 .. m |-> f[i]]
        OBVIOUS
      <3> HIDE DEF f
      <3>4. Cardinality({f[i] : i \in 1 .. m}) = m
        BY <3>1, <3>3, CountedOnce
      <3> QED
        BY <2>4, <3>2, <3>4
    <2>8. ASSUME NEW i \in 1 .. m PROVE found[i].at[1] \in Buses
      <3>1. Opened(fn, found, found[i].at[1])
        BY <2>4, <2>5 DEF Opened
      <3> QED
        BY <2>2, <2>3, <3>1, OpenedAreBuses
    <2>9. ASSUME NEW a \in DOMAIN fn, a[1] \in Buses PROVE \E i \in 1 .. m : found[i].at = a
      <3>1. Opened(fn, found, a[1])
        BY <2>2, <2>3, <2>9, OpenedAreBuses
      <3>2. Len(<<>>) = 0
        OBVIOUS
      <3> QED
        BY <2>3, <2>4, <3>1, <3>2 DEF Scanned, Complete
    <2>10. {found[i].at : i \in DOMAIN found} = {a \in DOMAIN config : a[1] \in Buses}
      BY <2>4, <2>5, <2>6, <2>8, <2>9
    <2>11. ASSUME NEW i \in 1 .. m
           PROVE  IF found[i].parent = 0 THEN found[i].at[1] = 0
                  ELSE LET bridge == found[found[i].parent].at
                       IN  /\ Leads(config[bridge])
                           /\ config[bridge].secondary = found[i].at[1]
      BY <2>4, <2>5, <2>6 DEF LeadsTo
    <2> QED
      BY <2>4, <2>7, <2>10, <2>11
  <1> QED
    BY <1>1, BootBusInductive, PTL

-----------------------------------------------------------------------------
(* The way to a device *)

\* w tells which of the six registers are the lower half of a wide one.
WideIs(w, header) ==
    w = [i \in 1 .. 6 |-> /\ header.bars[i] = MEM64 /\ i < 6
                          /\ i > 1 => ~w[i - 1]]

LEMMA WideExists ==
    ASSUME NEW h, h.bars \in [1 .. 6 -> {IO, MEM, MEM64, HIGH, NONE}],
           \A i \in 2 .. 6 : h.bars[i] = HIGH <=> h.bars[i - 1] = MEM64
    PROVE  \E w : WideIs(w, h)
  <1> DEFINE w == [i \in 1 .. 6 |-> h.bars[i] = MEM64 /\ i < 6]
  <1>1. ASSUME NEW i \in 1 .. 6
        PROVE  w[i] <=> /\ h.bars[i] = MEM64 /\ i < 6
                        /\ i > 1 => ~w[i - 1]
    <2>3. w[i] <=> h.bars[i] = MEM64 /\ i < 6
      OBVIOUS
    <2>1. CASE i = 1
      <3>1. ~ (i > 1)
        BY <2>1
      <3> QED
        BY <2>3, <3>1
    <2>2. CASE i # 1
      <3>1. i \in 2 .. 6 /\ i - 1 \in 1 .. 6
        BY <2>2
      <3>2. h.bars[i] = MEM64 => h.bars[i - 1] # MEM64
        BY <3>1 DEF MEM64, HIGH
      <3>3. w[i - 1] => h.bars[i - 1] = MEM64
        BY <3>1
      <3> QED
        BY <3>2, <3>3
    <2> QED
      BY <2>1, <2>2
  <1>2. w = [i \in 1 .. 6 |-> /\ h.bars[i] = MEM64 /\ i < 6
                              /\ i > 1 => ~w[i - 1]]
    BY <1>1
  <1> QED
    BY <1>2 DEF WideIs

\* A device that is no bridge needs the spaces its registers are of.
LEMMA NeedsTheKinds ==
    ASSUME NEW h, h.bars \in [1 .. 6 -> {IO, MEM, MEM64, HIGH, NONE}], ~h.bridge,
           \A i \in 2 .. 6 : h.bars[i] = HIGH <=> h.bars[i - 1] = MEM64,
           NEW d, found[d].bars = Bars(h),
           NEW i \in 1 .. 6, h.bars[i] \in {IO, MEM, MEM64}
    PROVE  (IF h.bars[i] = IO THEN IO ELSE MEM) \in Needs(d)
  <1> DEFINE w == CHOOSE w : WideIs(w, h)
  <1>1. WideIs(w, h)
    BY WideExists
  <1>2. Bars(h) = [j \in 1 .. 6 |-> [type |-> IF h.bars[j] = IO THEN IO ELSE MEM,
                                     size |-> h.bars[j] # NONE /\ (j > 1 => ~w[j - 1]),
                                     ext  |-> j > 1 /\ w[j - 1]]]
    BY SMTT(40) DEF Bars, WideIs
  <1> HIDE DEF w
  <1>3. i > 1 => ~w[i - 1]
    <2>1. SUFFICES ASSUME i > 1, w[i - 1] PROVE FALSE
      OBVIOUS
    <2>2. i \in 2 .. 6 /\ i - 1 \in 1 .. 6
      BY <2>1
    <2>3. h.bars[i - 1] = MEM64
      BY <1>1, <2>1, <2>2 DEF WideIs
    <2>4. h.bars[i] = HIGH
      BY <2>2, <2>3
    <2> QED
      BY <2>4 DEF IO, MEM, MEM64, HIGH
  <1>4. h.bars[i] # NONE
    BY DEF IO, MEM, MEM64, NONE
  <1>5. PICK r : r = Bars(h)[i]
    OBVIOUS
  <1>6. r.type = (IF h.bars[i] = IO THEN IO ELSE MEM) /\ r.size /\ ~r.ext
    <2>1. r = [type |-> IF h.bars[i] = IO THEN IO ELSE MEM,
               size |-> h.bars[i] # NONE /\ (i > 1 => ~w[i - 1]),
               ext  |-> i > 1 /\ w[i - 1]]
      BY <1>2, <1>5
    <2>2. /\ r.type = (IF h.bars[i] = IO THEN IO ELSE MEM)
          /\ r.size = (h.bars[i] # NONE /\ (i > 1 => ~w[i - 1]))
          /\ r.ext = (i > 1 /\ w[i - 1])
      BY <2>1
    <2>3. r.size
      BY <1>3, <1>4, <2>2, Zenon
    <2>4. ~r.ext
      BY <1>3, <2>2, Zenon
    <2> QED
      BY <2>2, <2>3, <2>4
  <1>7. i \in DOMAIN found[d].bars
    BY <1>2
  <1> QED
    BY <1>5, <1>6, <1>7 DEF Needs

\* u is what is above device d, as far as n steps up, for each n.
ClimbIs(u, fd, d, m) ==
    u = [n \in 0 .. m |->
            IF n = 0 THEN {fd[d].parent} \ {0}
            ELSE u[n - 1] \cup ({fd[i].parent : i \in u[n - 1]} \ {0})]

LEMMA ClimbExists ==
    ASSUME NEW fd, NEW d, NEW m \in Nat
    PROVE  \E u : ClimbIs(u, fd, d, m)
  <1> DEFINE Lacking == {j \in Nat : ~ \E u : ClimbIs(u, fd, d, j)}
             start == {fd[d].parent} \ {0}
             Up(S) == S \cup ({fd[i].parent : i \in S} \ {0})
  <1>1. 0 \notin Lacking
    <2>1. ClimbIs([n \in 0 .. 0 |-> start], fd, d, 0)
      BY DEF ClimbIs
    <2> QED
      BY <2>1
  <1>2. ASSUME NEW j \in Lacking, \A y \in Lacking : j <= y
        PROVE  FALSE
    <2>1. j \in Nat /\ j # 0 /\ j - 1 \in Nat /\ j - 1 \notin Lacking
      BY <1>1, <1>2
    <2>2. PICK u : ClimbIs(u, fd, d, j - 1)
      BY <2>1
    <2> DEFINE g == [n \in 0 .. j |-> IF n = j THEN Up(u[j - 1]) ELSE u[n]]
    <2>3. \A n \in 0 .. j - 1 : g[n] = u[n]
      BY <2>1
    <2>4. \A n \in 0 .. j - 1 : u[n] = IF n = 0 THEN start ELSE Up(u[n - 1])
      BY <2>1, <2>2 DEF ClimbIs
    <2>5. \A n \in 0 .. j : g[n] = IF n = 0 THEN start ELSE Up(g[n - 1])
      <3> HIDE DEF start, Up
      <3> QED
        BY <2>1, <2>3, <2>4
    <2>6. g = [n \in 0 .. j |-> IF n = 0 THEN start ELSE Up(g[n - 1])]
      <3>1. g = [n \in 0 .. j |-> g[n]]
        OBVIOUS
      <3> HIDE DEF start, Up, g
      <3> QED
        BY <2>5, <3>1
    <2>7. ClimbIs(g, fd, d, j)
      BY <2>6 DEF ClimbIs
    <2> QED
      BY <2>7
  <1>3. Lacking = {}
    <2>1. Lacking \subseteq Nat
      OBVIOUS
    <2> HIDE DEF Lacking
    <2> QED
      BY <1>2, <2>1, LeastNumber
  <1> QED
    BY <1>3

\* The range of the header h holds bus b.
Holds(h, b) == Leads(h) /\ b \in h.secondary .. h.subordinate

\* Every bridge whose range holds the bus of a device is above it.
LEMMA UpstreamHas ==
    ASSUME NEW fn, Wired(fn), NEW fr, Scanned(fn, found, fr), NEW d \in 1 .. Len(found),
           NEW a \in DOMAIN fn, Holds(fn[a], found[d].at[1])
    PROVE  \E i \in Upstream(d) : i \in 1 .. Len(found) /\ found[i].at = a
  <1>1. PICK m \in Nat : m = Len(found)
    <2>1. PICK S : found \in Seq(S)
      BY DEF Scanned
    <2> QED
      BY <2>1
  <1>2. ASSUME NEW i \in 1 .. m, Holds(fn[a], found[i].at[1])
        PROVE  /\ found[i].parent \in 1 .. i - 1
               /\ \/ found[found[i].parent].at = a
                  \/ Holds(fn[a], found[found[i].parent].at[1])
    <2>1. PICK p : p = found[i].parent
      OBVIOUS
    <2>2. p \in 0 .. i - 1 /\ LeadsTo(fn, found, p, found[i].at[1])
      BY <1>1, <2>1 DEF Scanned, Recorded
    <2>3. fn[a].secondary \in Nat /\ fn[a].subordinate \in Nat
      BY DEF Wired
    <2>4. p # 0
      <3>1. SUFFICES ASSUME p = 0 PROVE FALSE
        OBVIOUS
      <3>2. found[i].at[1] = 0
        BY <2>2, <3>1 DEF LeadsTo
      <3> QED
        BY <1>2, <2>3, <3>2 DEF Holds, Leads
    <2>5. p \in 1 .. m /\ p \in 1 .. i - 1
      BY <2>2, <2>4
    <2>6. PICK b \in DOMAIN fn : b = found[p].at
      BY <1>1, <2>5 DEF Scanned, Recorded
    <2>7. Leads(fn[b]) /\ fn[b].secondary = found[i].at[1]
      BY <2>2, <2>4, <2>6 DEF LeadsTo
    <2>8. b = a \/ b[1] \in fn[a].secondary .. fn[a].subordinate
      BY <1>2, <2>7 DEF Holds, Wired
    <2> QED
      BY <1>2, <2>1, <2>5, <2>6, <2>8 DEF Holds
  <1> DEFINE u == CHOOSE u : ClimbIs(u, found, d, m)
  <1>3. ClimbIs(u, found, d, m)
    BY ClimbExists
  <1>4. Upstream(d) = u[m]
    BY <1>1 DEF Upstream, ClimbIs
  <1> HIDE DEF u
  <1>5. u[0] = {found[d].parent} \ {0}
        /\ \A n \in 1 .. m : u[n] = u[n - 1] \cup ({found[i].parent : i \in u[n - 1]} \ {0})
    <2>1. \A n \in 0 .. m : u[n] = IF n = 0 THEN {found[d].parent} \ {0}
                                   ELSE u[n - 1] \cup ({found[i].parent : i \in u[n - 1]} \ {0})
      BY <1>3 DEF ClimbIs
    <2>2. 0 \in 0 .. m /\ \A n \in 1 .. m : n \in 0 .. m /\ n # 0
      OBVIOUS
    <2>3. u[0] = {found[d].parent} \ {0}
      BY <2>1, <2>2
    <2>4. ASSUME NEW n \in 1 .. m
          PROVE  u[n] = u[n - 1] \cup ({found[i].parent : i \in u[n - 1]} \ {0})
      <3> HIDE <2>3
      <3> QED
        BY <2>1, <2>2
    <2> QED
      BY <2>3, <2>4
  <1> DEFINE Above(i, n) == i \in u[n] /\ i \in 1 .. m /\ found[i].at = a
             Under(i, n) == i \in u[n] /\ i \in 1 .. m /\ i + n <= m - 1
                            /\ Holds(fn[a], found[i].at[1])
             Lacking == {n \in 0 .. m : ~ \E i : Above(i, n) \/ Under(i, n)}
  <1>6. 0 \notin Lacking
    <2>1. PICK p : p = found[d].parent
      OBVIOUS
    <2>2. p \in 1 .. d - 1 /\ (found[p].at = a \/ Holds(fn[a], found[p].at[1]))
      BY <1>1, <1>2, <2>1
    <2>3. p \in u[0] /\ p \in 1 .. m /\ p + 0 <= m - 1
      BY <1>1, <1>5, <2>1, <2>2
    <2>4. Above(p, 0) \/ Under(p, 0)
      BY <2>2, <2>3
    <2> QED
      BY <2>4
  <1>7. ASSUME NEW n \in Lacking, \A y \in Lacking : n <= y PROVE FALSE
    <2>0. n \in 0 .. m
      BY <1>7
    <2>1. n \in 1 .. m /\ n - 1 \in 0 .. m /\ n - 1 \notin Lacking
      <3> HIDE DEF Lacking
      <3>1. n # 0
        BY <1>6, <1>7
      <3>2. n - 1 \in 0 .. m /\ ~ (n <= n - 1)
        BY <2>0, <3>1
      <3> QED
        BY <1>7, <2>0, <3>1, <3>2
    <2>2. PICK i : Above(i, n - 1) \/ Under(i, n - 1)
      BY <2>1
    <2>3. u[n] = u[n - 1] \cup ({found[j].parent : j \in u[n - 1]} \ {0})
      BY <1>5, <2>1
    <2>4. CASE Above(i, n - 1)
      <3>1. Above(i, n)
        BY <2>3, <2>4
      <3> QED
        BY <1>7, <3>1
    <2>5. CASE Under(i, n - 1)
      <3>1. PICK p : p = found[i].parent
        OBVIOUS
      <3>2. p \in 1 .. i - 1 /\ (found[p].at = a \/ Holds(fn[a], found[p].at[1]))
        BY <1>2, <2>5, <3>1
      <3>3. p \in u[n]
        BY <2>3, <2>5, <3>1, <3>2
      <3>4. p \in 1 .. m /\ p + n <= m - 1
        BY <2>1, <2>5, <3>2
      <3>5. Above(p, n) \/ Under(p, n)
        BY <3>2, <3>3, <3>4
      <3> QED
        BY <1>7, <3>5
    <2> QED
      BY <2>2, <2>4, <2>5
  <1>8. Lacking = {}
    <2>1. Lacking \subseteq Nat
      OBVIOUS
    <2> HIDE DEF Lacking
    <2> QED
      BY <1>7, <2>1, LeastNumber
  <1>9. PICK i : Above(i, m) \/ Under(i, m)
    BY <1>8
  <1>10. ~Under(i, m)
    OBVIOUS
  <1> QED
    BY <1>1, <1>4, <1>9, <1>10

\* Once a device of a controller masters the bus, its way is open.
LEMMA MasteredIsOpen ==
    ASSUME NEW fn, Wired(fn), SameWiring(config, fn), NEW fr, Scanned(fn, found, fr),
           NEW d \in 1 .. Len(found), found[d].class = NVME
    PROVE  Reach(pci_enable_bus_master(d), found, d)
  <1> DEFINE opened == {found[i].at : i \in {d} \cup Upstream(d)}
             c == pci_enable_bus_master(d)
  <1>1. c = [a \in DOMAIN config |->
               IF a \in opened THEN [config[a] EXCEPT !.cmd = @ \cup {BME} \cup Needs(d)]
               ELSE config[a]]
    BY DEF pci_enable_bus_master
  <1>2. \A i \in Upstream(d) : found[i].at \in opened
    OBVIOUS
  <1>3. found[d].at \in opened
    OBVIOUS
  <1> HIDE DEF opened, c
  <1>4. SameWiring(c, fn)
    BY WiringIsKept DEF c
  <1>5. PICK at \in DOMAIN fn : /\ at = found[d].at
                               /\ fn[at].class = NVME /\ found[d].bars = Bars(fn[at])
    BY DEF Scanned, Recorded
  <1>6. ~fn[at].bridge /\ fn[at].bars \in [1 .. 6 -> {IO, MEM, MEM64, HIGH, NONE}]
        /\ \A i \in 2 .. 6 : fn[at].bars[i] = HIGH <=> fn[at].bars[i - 1] = MEM64
    BY <1>5 DEF Wired
  <1>7. \A i \in 1 .. 6 : fn[at].bars[i] \in {IO, MEM, MEM64} =>
           (IF fn[at].bars[i] = IO THEN IO ELSE MEM) \in Needs(d)
    BY <1>5, <1>6, NeedsTheKinds
  <1>8. ASSUME NEW a \in DOMAIN fn, a \in opened
        PROVE  BME \in c[a].cmd /\ Needs(d) \subseteq c[a].cmd
    <2>1. PICK h : h = config[a] /\ DOMAIN h = HeaderFields
      BY DEF SameWiring
    <2>2. c[a] = [h EXCEPT !.cmd = @ \cup {BME} \cup Needs(d)]
      BY <1>1, <1>8, <2>1 DEF SameWiring
    <2>3. c[a].cmd = h.cmd \cup {BME} \cup Needs(d)
      BY <2>1, <2>2 DEF HeaderFields
    <2> QED
      BY <2>3
  <1>9. ASSUME NEW a \in DOMAIN c,
               a = at \/ (Leads(c[a]) /\ at[1] \in c[a].secondary .. c[a].subordinate)
        PROVE  a \in DOMAIN fn /\ a \in opened
    <2>1. a \in DOMAIN fn
      BY <1>4 DEF SameWiring
    <2>2. CASE a = at
      BY <1>3, <1>5, <2>1, <2>2
    <2>3. CASE Leads(c[a]) /\ at[1] \in c[a].secondary .. c[a].subordinate
      <3>1. Holds(fn[a], at[1])
        BY <1>4, <2>1, <2>3 DEF Holds, Leads, SameWiring
      <3>2. \E i \in Upstream(d) : i \in 1 .. Len(found) /\ found[i].at = a
        BY <1>5, <2>1, <3>1, UpstreamHas
      <3> QED
        BY <1>2, <2>1, <3>2
    <2> QED
      BY <1>9, <2>2, <2>3
  <1>10. at \in DOMAIN c /\ c[at].bars = fn[at].bars /\ DOMAIN c[at].bars = 1 .. 6
    BY <1>4, <1>6 DEF SameWiring
  <1>11. Reach(c, found, d)
    <2>1. SUFFICES ASSUME NEW a \in DOMAIN c,
                          a = at \/ (Leads(c[a]) /\ at[1] \in c[a].secondary .. c[a].subordinate)
                   PROVE  /\ BME \in c[a].cmd
                          /\ \A i \in 1 .. 6 : fn[at].bars[i] \in {IO, MEM, MEM64} =>
                                (IF fn[at].bars[i] = IO THEN IO ELSE MEM) \in c[a].cmd
      BY <1>5, <1>10 DEF Reach
    <2>2. BME \in c[a].cmd /\ Needs(d) \subseteq c[a].cmd
      BY <1>8, <1>9, <2>1
    <2> QED
      BY <1>7, <2>2
  <1> QED
    BY <1>11 DEF c

-----------------------------------------------------------------------------
(* The disks *)

\* A way that is open stays so while commands only gain.
LEMMA ReachGrows ==
    ASSUME NEW fn, NEW c, SameWiring(c, fn), NEW c1, SameWiring(c1, fn),
           \A a \in DOMAIN fn : c[a].cmd \subseteq c1[a].cmd,
           NEW fd, NEW d, fd[d].at \in DOMAIN fn, Reach(c, fd, d)
    PROVE  Reach(c1, fd, d)
  <1>1. PICK at \in DOMAIN fn : at = fd[d].at
    OBVIOUS
  <1>2. /\ DOMAIN c = DOMAIN fn /\ DOMAIN c1 = DOMAIN fn
        /\ \A a \in DOMAIN fn : /\ c[a].bars = c1[a].bars /\ (Leads(c[a]) <=> Leads(c1[a]))
                               /\ c[a].secondary = c1[a].secondary
                               /\ c[a].subordinate = c1[a].subordinate
    BY DEF SameWiring, Leads
  <1>3. ASSUME NEW a \in DOMAIN fn,
               a = at \/ (Leads(c1[a]) /\ at[1] \in c1[a].secondary .. c1[a].subordinate)
        PROVE  /\ BME \in c1[a].cmd
               /\ \A i \in DOMAIN c1[at].bars :
                     c1[at].bars[i] \in {IO, MEM, MEM64} =>
                        (IF c1[at].bars[i] = IO THEN IO ELSE MEM) \in c1[a].cmd
    <2>1. a = at \/ (Leads(c[a]) /\ at[1] \in c[a].secondary .. c[a].subordinate)
      BY <1>2, <1>3
    <2>2. /\ BME \in c[a].cmd
          /\ \A i \in DOMAIN c[at].bars :
                c[at].bars[i] \in {IO, MEM, MEM64} =>
                   (IF c[at].bars[i] = IO THEN IO ELSE MEM) \in c[a].cmd
      BY <1>1, <1>2, <2>1 DEF Reach
    <2>3. c[at].bars = c1[at].bars /\ c[a].cmd \subseteq c1[a].cmd
      BY <1>2
    <2> QED
      BY <2>2, <2>3
  <1> QED
    BY <1>1, <1>2, <1>3 DEF Reach

LEMMA DisksStayOk ==
    ASSUME NEW fn, NEW c, SameWiring(c, fn), NEW c1, SameWiring(c1, fn),
           \A a \in DOMAIN fn : c[a].cmd \subseteq c1[a].cmd,
           NEW fd, Recorded(fn, fd), NEW ds, DisksOk(c, fd, ds)
    PROVE  DisksOk(c1, fd, ds)
  <1>1. ASSUME NEW i \in 1 .. Len(ds) PROVE DiskOk(c1, fd, ds, i)
    <2>1. DiskOk(c, fd, ds, i)
      BY DEF DisksOk
    <2>2. \A d \in 1 .. Len(fd) : Reach(c, fd, d) => Reach(c1, fd, d)
      BY ReachGrows DEF Recorded
    <2> QED
      BY <2>1, <2>2 DEF DiskOk
  <1> QED
    BY <1>1 DEF DisksOk

\* The entry that disk_create_new makes, of hardware or on the first disk.
NewDisk(c, fd, ds, r) ==
    \/ /\ r.type = REAL /\ r.hardware = Len(ds) + 1
       /\ r.driver = NVME => \E d \in 1 .. Len(fd) : fd[d].at = r.at /\ Reach(c, fd, d)
    \/ /\ r.type = PARTITION /\ r.hardware = 1 /\ ds # <<>>
       /\ r.driver = ds[1].driver /\ r.at = ds[1].at

LEMMA NewDiskIsOk ==
    ASSUME NEW c, NEW fd, NEW ds, DisksOk(c, fd, ds), NEW r, NewDisk(c, fd, ds, r),
           NEW ds1, Longer(ds1, ds, r)
    PROVE  DisksOk(c, fd, ds1) /\ Len(ds) \in Nat /\ Len(ds1) = Len(ds) + 1
           /\ ds1[Len(ds) + 1] = r /\ \A i \in 1 .. Len(ds) : ds1[i] = ds[i]
  <1>1. PICK n \in Nat : n = Len(ds) /\ (ds # <<>> => n > 0) /\ (ds = <<>> => n = 0)
    <2>1. PICK X : ds \in Seq(X)
      BY DEF DisksOk
    <2> QED
      BY <2>1
  <1>2. /\ \E T : ds1 \in Seq(T)
        /\ Len(ds1) = n + 1
        /\ \A i \in 1 .. n : ds1[i] = ds[i]
        /\ ds1[n + 1] = r
    <2>1. PICK X : ds \in Seq(X)
      BY DEF DisksOk
    <2>2. Longer(ds1, ds, r)
      OBVIOUS
    <2>3. /\ \E T : ds1 \in Seq(T)
          /\ Len(ds1) = Len(ds) + 1
          /\ \A i \in 1 .. Len(ds) : ds1[i] = ds[i]
          /\ ds1[Len(ds) + 1] = r
      BY ONLY <2>1, <2>2, AppendIs
    <2> QED
      BY <1>1, <2>3
  <1>3. ASSUME NEW i \in 1 .. n PROVE DiskOk(c, fd, ds1, i)
    <2>1. DiskOk(c, fd, ds, i)
      BY <1>1 DEF DisksOk
    <2>2. PICK h : h = ds[i].hardware
      OBVIOUS
    <2>3. h \in 1 .. n /\ h \in 1 .. n + 1
      BY <1>1, <2>1, <2>2 DEF DiskOk
    <2>4. ds1[i] = ds[i] /\ ds1[h] = ds[h]
      BY <1>2, <2>3
    <2> QED
      BY <1>2, <2>1, <2>2, <2>3, <2>4 DEF DiskOk
  <1>4. DiskOk(c, fd, ds1, n + 1)
    <2>1. CASE r.type = REAL
      <3>1. /\ r.hardware = n + 1
            /\ r.driver = NVME => \E d \in 1 .. Len(fd) : fd[d].at = r.at /\ Reach(c, fd, d)
        BY <1>1, <2>1 DEF NewDisk, REAL, PARTITION
      <3> QED
        BY <1>2, <2>1, <3>1 DEF DiskOk
    <2>2. CASE r.type # REAL
      <3>1. /\ r.hardware = 1 /\ ds # <<>>
            /\ r.driver = ds[1].driver /\ r.at = ds[1].at
        BY <2>2 DEF NewDisk
      <3>2. 1 \in 1 .. n /\ 1 \in 1 .. n + 1 /\ ds1[1] = ds[1] /\ ds[1].type = REAL
        BY <1>1, <1>2, <3>1 DEF DisksOk
      <3>3. DiskOk(c, fd, ds, 1)
        BY <1>1, <3>2 DEF DisksOk
      <3>4. ds[1].driver = NVME =>
              \E d \in 1 .. Len(fd) : fd[d].at = ds[1].at /\ Reach(c, fd, d)
        BY <3>2, <3>3 DEF DiskOk
      <3> QED
        BY <1>2, <2>2, <3>1, <3>2, <3>4 DEF DiskOk
    <2> QED
      BY <2>1, <2>2
  <1>5. ds1[1].type = REAL
    <2>1. CASE n = 0
      <3>1. ds1[1] = r /\ ds = <<>>
        BY <1>1, <1>2, <2>1
      <3> QED
        BY <3>1 DEF NewDisk
    <2>2. CASE n # 0
      BY <1>1, <1>2, <2>2 DEF DisksOk
    <2> QED
      BY <2>1, <2>2
  <1>6. \A i \in 1 .. n + 1 : i \in 1 .. n \/ i = n + 1
    OBVIOUS
  <1>7. DisksOk(c, fd, ds1)
    BY <1>2, <1>3, <1>4, <1>5, <1>6 DEF DisksOk
  <1> QED
    BY <1>1, <1>2, <1>7

LEMMA MakesReal ==
    ASSUME NEW driver, NEW at, NEW volume, disk_create_new(driver, REAL, 0, at, volume)
    PROVE  \E r : /\ Longer(disks', disks, r)
                 /\ r.type = REAL /\ r.hardware = Len(disks) + 1
                 /\ r.driver = driver /\ r.at = at
  <1> DEFINE r == [driver |-> driver, type |-> REAL, hardware |-> Len(disks) + 1,
                   at |-> at, volume |-> volume]
  <1>1. (REAL = REAL) = (0 = 0)
    OBVIOUS
  <1>2. disks' = Append(disks, r)
    BY <1>1 DEF disk_create_new
  <1>3. /\ r.type = REAL /\ r.hardware = Len(disks) + 1
        /\ r.driver = driver /\ r.at = at
    OBVIOUS
  <1> HIDE DEF r
  <1> QED
    BY <1>2, <1>3 DEF Longer

LEMMA MakesPartition ==
    ASSUME NEW driver, NEW at, NEW volume, disk_create_new(driver, PARTITION, 1, at, volume),
           disks[1].type = REAL
    PROVE  \E r : /\ Longer(disks', disks, r)
                 /\ r.type = PARTITION /\ r.hardware = 1
                 /\ r.driver = driver /\ r.at = at /\ r.volume = volume
  <1> DEFINE r == [driver |-> driver, type |-> PARTITION, hardware |-> 1,
                   at |-> at, volume |-> volume]
  <1>1. (PARTITION = REAL) = (1 = 0) /\ PARTITION # REAL
    BY DEF PARTITION, REAL
  <1>2. disks' = Append(disks, r)
    BY <1>1 DEF disk_create_new
  <1>3. /\ r.type = PARTITION /\ r.hardware = 1
        /\ r.driver = driver /\ r.at = at /\ r.volume = volume
    OBVIOUS
  <1> HIDE DEF r
  <1> QED
    BY <1>2, <1>3 DEF Longer

\* The devices that were found, where there are any.
LEMMA FoundIsScanned ==
    ASSUME BusInv, MachinesAreWired
    PROVE  /\ Wired(machine.functions) /\ SameWiring(config, machine.functions)
           /\ Recorded(machine.functions, found)
           /\ Len(found) > 0 => Scanned(machine.functions, found, frames)
  <1>1. Wired(machine.functions) /\ SameWiring(config, machine.functions)
    BY DEF BusInv, MachinesAreWired
  <1>2. CASE found = <<>>
    <2>1. PICK fd : fd = found
      OBVIOUS
    <2>2. Len(fd) = 0
      BY <1>2, <2>1
    <2> QED
      BY <1>1, <2>1, <2>2 DEF Recorded
  <1>3. CASE found # <<>>
    <2>1. Scanned(machine.functions, found, frames)
      BY <1>3 DEF BusInv
    <2> QED
      BY <1>1, <2>1 DEF Scanned
  <1> QED
    BY <1>2, <1>3

\* A disk more leaves the primary volume what it is.
LEMMA PrimaryStays ==
    ASSUME NEW ds, NEW ds1, NEW p, PrimaryOk(ds, p), Len(ds) \in Nat,
           Len(ds1) = Len(ds) + 1, \A i \in 1 .. Len(ds) : ds1[i] = ds[i]
    PROVE  PrimaryOk(ds1, p)
  BY DEF PrimaryOk

LEMMA SearchDisksKeeps ==
    ASSUME BusInv, MachinesAreWired, DisksInv, SearchDisks
    PROVE  DisksInv'
  <1>1. /\ stage = "disk_search_and_init" /\ UNCHANGED <<found, frames, machine, stage>>
        /\ \/ disk_driver_system_init
           \/ MountPata
           \/ PassOver
           \/ MountNvme(machine.drives[found[Device].at].alive)
    BY DEF SearchDisks
  <1>2. primary' = primary
    BY <1>1 DEF disk_driver_system_init, MountPata, PassOver, MountNvme
  <1>3. stage' \notin BeforeSearch
    BY <1>1 DEF BeforeSearch
  <1>4. DisksOk(config, found, disks) /\ PrimaryOk(disks, primary)
    BY DEF DisksInv
  <1>5. CASE UNCHANGED <<config, disks>>
    BY <1>1, <1>2, <1>3, <1>4, <1>5 DEF DisksInv
  <1>6. CASE config' = config /\ disk_create_new(PATA, REAL, 0, <<>>, UNUSED)
    <2>1. PICK r : /\ Longer(disks', disks, r)
                   /\ r.type = REAL /\ r.hardware = Len(disks) + 1 /\ r.driver = PATA
      BY <1>6, MakesReal
    <2>2. NewDisk(config, found, disks, r)
      BY <2>1 DEF NewDisk, PATA, NVME
    <2>3. DisksOk(config, found, disks') /\ PrimaryOk(disks', primary)
      BY <1>4, <2>1, <2>2, NewDiskIsOk, PrimaryStays
    <2> QED
      BY <1>1, <1>2, <1>3, <1>6, <2>3 DEF DisksInv
  <1>7. CASE MountNvme(machine.drives[found[Device].at].alive)
    <2>1. /\ Device \in 1 .. Len(found) /\ found[Device].class = NVME
          /\ config' = pci_enable_bus_master(Device)
          /\ disk_create_new(NVME, REAL, 0, found[Device].at, UNUSED)
      BY <1>7 DEF MountNvme, MountingNvme, Device
    <2>2. PICK fn : fn = machine.functions
      OBVIOUS
    <2>3. Wired(fn) /\ SameWiring(config, fn) /\ Recorded(fn, found)
          /\ (Len(found) > 0 => Scanned(fn, found, frames))
      BY <2>2, FoundIsScanned
    <2>4. Len(found) > 0
      <3>1. PICK n : n = Len(found)
        OBVIOUS
      <3>2. PICK d : d = Device /\ d \in 1 .. n
        BY <2>1, <3>1
      <3>3. n \in Nat
        <4>1. CASE found = <<>>
          <5>1. Len(<<>>) = 0
            OBVIOUS
          <5> QED
            BY <3>1, <4>1, <5>1
        <4>2. CASE found # <<>>
          <5>1. Scanned(fn, found, frames)
            BY <2>2, <4>2 DEF BusInv
          <5>2. PICK S : found \in Seq(S)
            BY <5>1 DEF Scanned
          <5> QED
            BY <3>1, <5>2
        <4> QED
          BY <4>1, <4>2
      <3> QED
        BY <3>1, <3>2, <3>3
    <2>5. Reach(config', found, Device)
      BY <2>1, <2>3, <2>4, MasteredIsOpen
    <2>6. SameWiring(config', fn)
      BY <2>1, <2>3, WiringIsKept
    <2>7. \A a \in DOMAIN fn : config[a].cmd \subseteq config'[a].cmd
      <3>1. SUFFICES ASSUME NEW a \in DOMAIN fn PROVE config[a].cmd \subseteq config'[a].cmd
        OBVIOUS
      <3>2. PICK h : h = config[a] /\ DOMAIN h = HeaderFields /\ a \in DOMAIN config
        BY <2>3 DEF SameWiring
      <3>3. \/ config'[a] = [h EXCEPT !.cmd = @ \cup {BME} \cup Needs(Device)]
            \/ config'[a] = h
        BY <2>1, <3>2 DEF pci_enable_bus_master
      <3>4. h.cmd \subseteq config'[a].cmd
        BY <3>2, <3>3 DEF HeaderFields
      <3> QED
        BY <3>2, <3>4
    <2>8. DisksOk(config', found, disks)
      BY <1>4, <2>3, <2>6, <2>7, DisksStayOk
    <2>9. PICK r : /\ Longer(disks', disks, r)
                   /\ r.type = REAL /\ r.hardware = Len(disks) + 1 /\ r.driver = NVME
                   /\ r.at = found[Device].at
      BY <2>1, MakesReal
    <2>10. NewDisk(config', found, disks, r)
      BY <2>1, <2>5, <2>9 DEF NewDisk
    <2>11. DisksOk(config', found, disks') /\ PrimaryOk(disks', primary)
      BY <1>4, <2>8, <2>9, <2>10, NewDiskIsOk, PrimaryStays
    <2> QED
      BY <1>1, <1>2, <1>3, <2>11 DEF DisksInv
  <1>8. \/ UNCHANGED <<config, disks>>
        \/ config' = config /\ disk_create_new(PATA, REAL, 0, <<>>, UNUSED)
        \/ MountNvme(machine.drives[found[Device].at].alive)
    BY <1>1 DEF disk_driver_system_init, MountPata, PassOver
  <1> QED
    BY <1>5, <1>6, <1>7, <1>8

LEMMA ReadPartitionsKeeps ==
    ASSUME DisksInv, ReadPartitions
    PROVE  DisksInv'
  <1>1. /\ stage = "disk_search_and_init" /\ UNCHANGED <<config, found, frames, machine, stage>>
        /\ gpt_init(Drive) \/ gpt_mount_partitions(Drive)
    BY DEF ReadPartitions, gpt_init, gpt_mount_partitions
  <1>2. stage' \notin BeforeSearch
    BY <1>1 DEF BeforeSearch
  <1>3. DisksOk(config, found, disks) /\ PrimaryOk(disks, primary)
    BY DEF DisksInv
  <1>4. CASE UNCHANGED <<disks, primary>>
    BY <1>1, <1>2, <1>3, <1>4 DEF DisksInv
  <1>5. CASE gpt_mount_partitions(Drive) /\ ~UNCHANGED <<disks, primary>>
    <2>1. disks # <<>>
      <3>1. SUFFICES ASSUME disks = <<>> PROVE FALSE
        OBVIOUS
      <3>2. Drive = NoDrive /\ Len(NoDrive.entries) = 0
        BY <3>1 DEF Drive, NoDrive
      <3> QED
        BY <1>5, <3>2 DEF gpt_mount_partitions
    <2>2. PICK e : e = Drive.entries[entry]
      OBVIOUS
    <2>3. /\ disk_create_new(disks[1].driver, PARTITION, 1, disks[1].at, e)
          /\ primary' = IF e.label = PEACH THEN Len(disks) + 1 ELSE primary
      BY <1>5, <2>2 DEF gpt_mount_partitions
    <2>4. disks[1].type = REAL
      BY <1>3, <2>1 DEF DisksOk
    <2>5. PICK r : /\ Longer(disks', disks, r)
                   /\ r.type = PARTITION /\ r.hardware = 1
                   /\ r.driver = disks[1].driver /\ r.at = disks[1].at /\ r.volume = e
      BY <2>3, <2>4, MakesPartition
    <2>6. NewDisk(config, found, disks, r)
      BY <2>1, <2>5 DEF NewDisk
    <2>7. /\ DisksOk(config, found, disks')
          /\ Len(disks) \in Nat /\ Len(disks') = Len(disks) + 1
          /\ disks'[Len(disks) + 1] = r
          /\ \A i \in 1 .. Len(disks) : disks'[i] = disks[i]
      BY <1>3, <2>5, <2>6, NewDiskIsOk
    <2>8. PrimaryOk(disks', primary')
      <3>1. CASE e.label = PEACH
        <4>1. primary' = Len(disks) + 1 /\ r.volume.label = PEACH
          BY <2>3, <2>5, <3>1
        <4>2. Len(disks) + 1 \in 1 .. Len(disks')
          BY <2>7
        <4> QED
          BY <2>5, <2>7, <4>1, <4>2 DEF PrimaryOk
      <3>2. CASE e.label # PEACH
        BY <1>3, <2>3, <2>7, <3>2, PrimaryStays
      <3> QED
        BY <3>1, <3>2
    <2> QED
      BY <1>1, <1>2, <2>7, <2>8 DEF DisksInv
  <1>6. gpt_init(Drive) => UNCHANGED <<disks, primary>>
    BY DEF gpt_init
  <1> QED
    BY <1>1, <1>4, <1>5, <1>6

LEMMA DisksInvInit == Init => DisksInv
  <1>1. SUFFICES ASSUME Init PROVE DisksInv
    OBVIOUS
  <1>2. disks = <<>> /\ primary = 0
    BY <1>1 DEF Init, DiskInit
  <1>3. PICK ds : ds = disks
    OBVIOUS
  <1>4. ds \in Seq(Nat) /\ Len(ds) = 0
    BY <1>2, <1>3
  <1>5. DisksOk(config, found, ds)
    BY <1>2, <1>3, <1>4 DEF DisksOk
  <1>6. PrimaryOk(disks, primary)
    BY <1>2 DEF PrimaryOk
  <1> QED
    BY <1>2, <1>3, <1>5, <1>6 DEF DisksInv

\* No call but those of the search changes the disks, and none before it the devices.
LEMMA DisksQuietKeeps ==
    ASSUME DisksInv, UNCHANGED <<disks, primary>>,
           stage' \in BeforeSearch => stage \in BeforeSearch,
           UNCHANGED <<config, found>> \/ stage \in BeforeSearch
    PROVE  DisksInv'
  <1>1. CASE UNCHANGED <<config, found>>
    BY <1>1 DEF DisksInv
  <1>2. CASE stage \in BeforeSearch
    <2>1. disks = <<>>
      BY <1>2 DEF DisksInv
    <2>2. PICK ds : ds = disks
      OBVIOUS
    <2>3. ds \in Seq(Nat) /\ Len(ds) = 0
      BY <2>1, <2>2
    <2>4. DisksOk(config', found', ds)
      BY <2>1, <2>2, <2>3 DEF DisksOk
    <2>5. PrimaryOk(disks, primary)
      BY DEF DisksInv
    <2> QED
      BY <2>1, <2>2, <2>4, <2>5 DEF DisksInv
  <1> QED
    BY <1>1, <1>2

LEMMA DisksInvStep ==
    ASSUME MachinesAreWired
    PROVE  BusInv /\ DisksInv /\ [Next]_vars => DisksInv'
  <1>1. SUFFICES ASSUME BusInv, DisksInv, [Next]_vars PROVE DisksInv'
    OBVIOUS
  <1>2. CASE SearchDisks
    BY <1>1, <1>2, SearchDisksKeeps
  <1>3. CASE ReadPartitions
    BY <1>1, <1>3, ReadPartitionsKeeps
  <1>4. CASE StartScan \/ Scan
    <2>1. UNCHANGED <<disks, primary>> /\ stage \in BeforeSearch
      BY <1>4 DEF StartScan, Scan, Step, diskVars, BeforeSearch
    <2> QED
      BY <1>1, <2>1, DisksQuietKeeps
  <1>5. CASE RunProgram \/ UNCHANGED vars
    <2>1. UNCHANGED <<disks, primary, config, found, stage>>
      BY <1>5 DEF RunProgram, vars, devices, pciVars, diskVars
    <2> QED
      BY <1>1, <2>1, DisksQuietKeeps
  <1>6. CASE \/ ListMemory \/ NoList \/ StartKernel \/ NoKernel
             \/ NoRoom \/ SetUpHeap \/ NoTables \/ SetUpPaging \/ SetUpGraphics
    <2>1. UNCHANGED <<disks, primary, config, found>> /\ stage \in BeforeSearch
      BY <1>6 DEF ListMemory, NoList, StartKernel, NoKernel, NoRoom, SetUpHeap, NoTables,
         SetUpPaging, SetUpGraphics, Step, devices, kernelState, pciVars, diskVars, BeforeSearch
    <2> QED
      BY <1>1, <2>1, DisksQuietKeeps
  <1>7. CASE ScanDone \/ LoadFonts \/ SetUpTss \/ LoadShell \/ NoShell
    <2>1. UNCHANGED <<disks, primary, config, found>>
      BY <1>7 DEF ScanDone, LoadFonts, SetUpTss, LoadShell, NoShell, Step, devices,
         pciVars, diskVars
    <2>2. stage' \notin BeforeSearch
      BY <1>7 DEF ScanDone, LoadFonts, SetUpTss, LoadShell, NoShell, Step, BeforeSearch,
         PANIC, RUNNING
    <2> QED
      BY <1>1, <2>1, <2>2, DisksQuietKeeps
  <1> QED
    BY <1>1, <1>2, <1>3, <1>4, <1>5, <1>6, <1>7 DEF Next

\* Every disk, of hardware or a partition, stands for hardware that can be read, to
\* which the bridges are open, and the primary volume is one of the first disk's that
\* has the kernel's name (disk/disk.c disk_create_new, disk/drivers/nvme.c, io/pci.c
\* pci_enable_bus_master).
THEOREM BootDisksAreReachable ==
    ASSUME MachinesAreWired
    PROVE  Spec => []DisksAreReachable
  <1>1. Init => DisksInv
    BY DisksInvInit
  <1>2. BusInv /\ DisksInv /\ [Next]_vars => DisksInv'
    BY DisksInvStep
  <1>3. Spec => []DisksInv
    BY <1>1, <1>2, BootBusInductive, PTL DEF Spec
  <1>4. BusInv /\ DisksInv => DisksAreReachable
    <2>1. SUFFICES ASSUME BusInv, DisksInv PROVE DisksAreReachable
      OBVIOUS
    <2>2. DisksOk(config, found, disks) /\ PrimaryOk(disks, primary)
      BY <2>1 DEF DisksInv
    <2>3. DOMAIN disks = 1 .. Len(disks)
      <3>1. PICK S : disks \in Seq(S)
        BY <2>2 DEF DisksOk
      <3> QED
        BY <3>1
    <2>4. \A d \in 1 .. Len(found) : Reach(config, found, d) => PathOpen(d) /\ d \in DOMAIN found
      <3>1. \A d : Reach(config, found, d) => PathOpen(d)
        BY DEF Reach, PathOpen
      <3>2. PICK S : found \in Seq(S)
        <4>1. found = <<>> => found \in Seq(Nat)
          OBVIOUS
        <4> QED
          BY <2>1, <4>1 DEF BusInv, Scanned
      <3> QED
        BY <3>1, <3>2
    <2>5. ASSUME NEW i \in DOMAIN disks
          PROVE  LET hw == disks[disks[i].hardware]
                 IN  /\ hw.type = REAL /\ hw.driver = disks[i].driver /\ hw.at = disks[i].at
                     /\ disks[i].type = REAL => disks[i].hardware = i
                     /\ hw.driver = NVME =>
                           \E d \in DOMAIN found : found[d].at = hw.at /\ PathOpen(d)
      <3>1. DiskOk(config, found, disks, i)
        BY <2>2, <2>3 DEF DisksOk
      <3> QED
        BY <2>4, <3>1 DEF DiskOk
    <2> QED
      BY <2>2, <2>5 DEF PrimaryOk, DisksAreReachable
  <1> QED
    BY <1>3, <1>4, BootBusInductive, PTL

=============================================================================
