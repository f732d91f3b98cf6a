----------------------------- MODULE InputProofs -----------------------------
(***************************************************************************)
(* Proofs about modules Windows and ProcessInput: whatever is clicked,     *)
(* opened and ended, every window is one running process's and the keys    *)
(* follow the focus; and a process gets its keys in the order they were    *)
(* typed.  For any processes, windows and places, and every ring.          *)
(***************************************************************************)
EXTENDS Windows, ProcessInput, FiniteSetTheorems, WellFoundedInduction, TLAPS

-----------------------------------------------------------------------------
(* The least of some numbers *)

LEMMA LeastNumber ==
    ASSUME NEW S, S \subseteq Nat, S # {}
    PROVE  \E x \in S : \A y \in S : x <= y
<1>1. PICK x \in S : \A y \in S : ~ (<<y, x>> \in OpToRel(<, Nat))
  BY NatLessThanWellFounded, WFMin
<1>2. \A y \in S : ~ (y < x)
  BY <1>1 DEF OpToRel
<1>3. QED
  BY <1>2

-----------------------------------------------------------------------------
(* Lists of windows *)

\* The window list, the screen's children and a process's windows: q lists the
\* windows of V, each once.
Lists(q, V) ==
    /\ q \in Seq(WindowSet)
    /\ \A i, j \in 1 .. Len(q) : q[i] = q[j] => i = j
    /\ V = {q[i] : i \in 1 .. Len(q)}

LEMMA ListsMembers ==
    ASSUME NEW q, NEW V, Lists(q, V)
    PROVE  V \subseteq WindowSet /\ \A w : Contains(q, w) <=> w \in V
  BY DEF Lists, Contains

LEMMA EmptyLists == Lists(<<>>, {})
  BY DEF Lists

LEMMA AppendLists ==
    ASSUME NEW q, NEW V, Lists(q, V), NEW w \in WindowSet, w \notin V
    PROVE  Lists(Append(q, w), V \cup {w})
  <1>1. /\ q \in Seq(WindowSet) /\ Len(q) \in Nat
        /\ \A i, j \in 1 .. Len(q) : q[i] = q[j] => i = j
        /\ V = {q[i] : i \in 1 .. Len(q)}
    BY DEF Lists
  <1>2. PICK r \in Seq(WindowSet) : r = Append(q, w)
    <2>1. Append(q, w) \in Seq(WindowSet)
      BY <1>1
    <2> QED
      BY <2>1
  <1>3. /\ Len(r) = Len(q) + 1 /\ r[Len(q) + 1] = w
        /\ \A i \in 1 .. Len(q) : r[i] = q[i] /\ r[i] \in V
    BY <1>1, <1>2
  <1>4. ASSUME NEW i \in 1 .. Len(r), NEW j \in 1 .. Len(r), r[i] = r[j] PROVE i = j
    BY <1>1, <1>3, <1>4
  <1>5. V \cup {w} = {r[i] : i \in 1 .. Len(r)}
    <2>1. V \cup {w} \subseteq {r[i] : i \in 1 .. Len(r)}
      BY <1>1, <1>3
    <2>2. \A i \in 1 .. Len(r) : r[i] \in V \cup {w}
      BY <1>1, <1>3
    <2> QED
      BY <2>1, <2>2
  <1> QED
    BY <1>2, <1>4, <1>5 DEF Lists

LEMMA Joined ==
    ASSUME NEW a \in Seq(WindowSet), NEW b \in Seq(WindowSet)
    PROVE  \E c \in Seq(WindowSet) :
              /\ c = a \o b /\ Len(c) = Len(a) + Len(b)
              /\ \A i \in 1 .. Len(a) : c[i] = a[i]
              /\ \A i \in 1 .. Len(b) : c[Len(a) + i] = b[i]
  <1>1. a \o b \in Seq(WindowSet) /\ Len(a \o b) = Len(a) + Len(b)
    OBVIOUS
  <1>2. \A i \in 1 .. Len(a) : (a \o b)[i] = a[i]
    OBVIOUS
  <1>3. \A i \in 1 .. Len(b) : (a \o b)[Len(a) + i] = b[i]
    OBVIOUS
  <1> QED
    BY <1>1, <1>2, <1>3

\* r is q without its n-th element.
Without(r, q, n) ==
    /\ r \in Seq(WindowSet) /\ Len(r) = Len(q) - 1
    /\ \A i \in 1 .. Len(q) - 1 : r[i] = IF i < n THEN q[i] ELSE q[i + 1]

LEMMA WithoutNth ==
    ASSUME NEW q \in Seq(WindowSet), NEW n \in 1 .. Len(q)
    PROVE  Without(RemoveAt(q, n), q, n)
  <1>1. n - 1 \in Nat /\ n + 1 \in Nat /\ Len(q) \in Nat
    OBVIOUS
  <1>2. PICK a \in Seq(WindowSet) : /\ a = SubSeq(q, 1, n - 1) /\ Len(a) = n - 1
                                    /\ \A i \in 1 .. n - 1 : a[i] = q[i]
    <2>1. SubSeq(q, 1, n - 1) \in Seq(WindowSet) /\ Len(SubSeq(q, 1, n - 1)) = n - 1
      OBVIOUS
    <2>2. \A i \in 1 .. n - 1 : SubSeq(q, 1, n - 1)[i] = q[i]
      OBVIOUS
    <2> QED
      BY <2>1, <2>2
  <1>3. PICK b \in Seq(WindowSet) : /\ b = SubSeq(q, n + 1, Len(q)) /\ Len(b) = Len(q) - n
                                    /\ \A i \in 1 .. Len(q) - n : b[i] = q[n + i]
    <2>1. SubSeq(q, n + 1, Len(q)) \in Seq(WindowSet)
          /\ Len(SubSeq(q, n + 1, Len(q))) = Len(q) - n
      OBVIOUS
    <2>2. \A i \in 1 .. Len(q) - n : SubSeq(q, n + 1, Len(q))[i] = q[n + i]
      OBVIOUS
    <2> QED
      BY <2>1, <2>2
  <1>4. PICK c \in Seq(WindowSet) : /\ c = a \o b /\ Len(c) = Len(a) + Len(b)
                                    /\ \A i \in 1 .. Len(a) : c[i] = a[i]
                                    /\ \A i \in 1 .. Len(b) : c[Len(a) + i] = b[i]
    BY Joined
  <1>5. RemoveAt(q, n) = c
    BY <1>2, <1>3, <1>4 DEF RemoveAt
  <1>6. /\ Len(a) = n - 1 /\ Len(b) = Len(q) - n /\ Len(c) = Len(a) + Len(b)
        /\ \A i \in 1 .. n - 1 : a[i] = q[i]
        /\ \A i \in 1 .. Len(q) - n : b[i] = q[n + i]
        /\ \A i \in 1 .. Len(a) : c[i] = a[i]
        /\ \A i \in 1 .. Len(b) : c[Len(a) + i] = b[i]
    BY <1>2, <1>3, <1>4
  <1>7. ASSUME NEW i \in 1 .. Len(q) - 1
        PROVE  c[i] = IF i < n THEN q[i] ELSE q[i + 1]
    <2>1. CASE i < n
      <3>1. i \in 1 .. n - 1
        BY <1>1, <2>1
      <3>2. c[i] = a[i] /\ a[i] = q[i]
        BY <1>6, <3>1
      <3> QED
        BY <2>1, <3>2
    <2>2. CASE i >= n
      <3>1. PICK k \in 1 .. Len(q) - n : k = i - (n - 1)
        BY <1>1, <2>2
      <3>2. i = (n - 1) + k /\ n + k = i + 1
        BY <3>1
      <3>3. k \in 1 .. Len(b) /\ i = Len(a) + k
        BY <1>6, <3>2
      <3>4. c[Len(a) + k] = b[k] /\ b[k] = q[n + k]
        BY <1>6, <3>3
      <3>5. c[i] = b[k] /\ b[k] = q[i + 1]
        BY <3>2, <3>3, <3>4
      <3> QED
        BY <2>2, <3>5
    <2> QED
      BY <2>1, <2>2
  <1>8. Len(c) = Len(q) - 1
    BY <1>1, <1>6
  <1>9. Without(c, q, n)
    BY <1>7, <1>8 DEF Without
  <1> QED
    BY <1>5, <1>9

\* The same of functions: r is q, of m elements, without the n-th.
Shifted(r, q, m, n) ==
    /\ \A i \in 1 .. m - 1 : i < n => r[i] = q[i]
    /\ \A i \in 1 .. m - 1 : i >= n => r[i] = q[i + 1]

Once(q, m) == \A i, j \in 1 .. m : q[i] = q[j] => i = j

LEMMA ShiftedOnce ==
    ASSUME NEW m \in Nat, NEW n \in 1 .. m, NEW q, NEW r, Shifted(r, q, m, n), Once(q, m)
    PROVE  /\ Once(r, m - 1)
           /\ \A i \in 1 .. m - 1 : \E j \in 1 .. m : r[i] = q[j] /\ j # n
           /\ \A j \in 1 .. m : j # n => \E i \in 1 .. m - 1 : r[i] = q[j]
  <1>1. \A i \in 1 .. m - 1 : i \in 1 .. m /\ i + 1 \in 1 .. m
    OBVIOUS
  <1>2. ASSUME NEW i \in 1 .. m - 1
        PROVE  \E k \in 1 .. m : r[i] = q[k] /\ k = (IF i < n THEN i ELSE i + 1)
    <2>1. CASE i < n
      BY <1>1, <2>1 DEF Shifted
    <2>2. CASE i >= n
      BY <1>1, <2>2 DEF Shifted
    <2> QED
      BY <2>1, <2>2
  <1>3. ASSUME NEW i \in 1 .. m - 1, NEW j \in 1 .. m - 1, r[i] = r[j]
        PROVE  i = j
    <2>1. PICK k \in 1 .. m : r[i] = q[k] /\ k = (IF i < n THEN i ELSE i + 1)
      BY <1>2
    <2>2. PICK l \in 1 .. m : r[j] = q[l] /\ l = (IF j < n THEN j ELSE j + 1)
      BY <1>2
    <2>3. k = l
      BY <1>3, <2>1, <2>2 DEF Once
    <2> QED
      BY <2>1, <2>2, <2>3
  <1>4. ASSUME NEW i \in 1 .. m - 1 PROVE \E j \in 1 .. m : r[i] = q[j] /\ j # n
    <2>1. PICK k \in 1 .. m : r[i] = q[k] /\ k = (IF i < n THEN i ELSE i + 1)
      BY <1>2
    <2>2. k # n
      BY <2>1
    <2> QED
      BY <2>1, <2>2
  <1>5. ASSUME NEW j \in 1 .. m, j # n PROVE \E i \in 1 .. m - 1 : r[i] = q[j]
    <2>1. CASE j < n
      <3>1. j \in 1 .. m - 1
        BY <2>1
      <3> QED
        BY <2>1, <3>1 DEF Shifted
    <2>2. CASE j > n
      <3>1. PICK i \in 1 .. m - 1 : i + 1 = j /\ i >= n
        <4>1. j - 1 \in 1 .. m - 1 /\ (j - 1) + 1 = j /\ j - 1 >= n
          BY <2>2
        <4> QED
          BY <4>1
      <3> QED
        BY <3>1 DEF Shifted
    <2> QED
      BY <1>5, <2>1, <2>2
  <1> QED
    BY <1>3, <1>4, <1>5 DEF Once

LEMMA FirstIndex ==
    ASSUME NEW q \in Seq(WindowSet), NEW w, Contains(q, w)
    PROVE  /\ SelectInSeq(q, LAMBDA v : v = w) \in 1 .. Len(q)
           /\ q[SelectInSeq(q, LAMBDA v : v = w)] = w
  <1> DEFINE I == {i \in 1 .. Len(q) : q[i] = w}
  <1>1. I # {} /\ I \subseteq Nat
    BY DEF Contains
  <1>2. PICK m \in I : \A j \in I : m <= j
    BY <1>1, LeastNumber
  <1>3. Min(I) \in I
    <2>1. Min(I) = CHOOSE x \in I : \A y \in I : x <= y
      BY DEF Min
    <2> QED
      BY <1>2, <2>1
  <1>4. SelectInSeq(q, LAMBDA v : v = w) = Min(I)
    BY <1>1 DEF SelectInSeq
  <1> QED
    BY <1>3, <1>4

LEMMA RemoveLists ==
    ASSUME NEW q, NEW V, Lists(q, V), NEW w
    PROVE  Lists(RemoveFirst(q, w), V \ {w})
  <1>1. /\ q \in Seq(WindowSet) /\ Len(q) \in Nat
        /\ \A i, j \in 1 .. Len(q) : q[i] = q[j] => i = j
        /\ V = {q[i] : i \in 1 .. Len(q)}
    BY DEF Lists
  <1>2. CASE ~ Contains(q, w)
    <2>1. RemoveFirst(q, w) = q
      BY <1>2 DEF RemoveFirst, Contains
    <2>2. V \ {w} = V
      BY <1>1, <1>2 DEF Contains
    <2> QED
      BY <2>1, <2>2
  <1>3. CASE Contains(q, w)
    <2>1. PICK n \in 1 .. Len(q) : n = SelectInSeq(q, LAMBDA v : v = w) /\ q[n] = w
      BY <1>1, <1>3, FirstIndex
    <2>2. PICK r : r = RemoveAt(q, n) /\ Without(r, q, n)
      BY <1>1, WithoutNth
    <2>3. RemoveFirst(q, w) = r
      BY <1>3, <2>1, <2>2 DEF RemoveFirst, Contains
    <2>4. r \in Seq(WindowSet) /\ Len(r) = Len(q) - 1 /\ Shifted(r, q, Len(q), n)
      BY <1>1, <2>2 DEF Without, Shifted
    <2>5. PICK m \in Nat : m = Len(q)
      BY <1>1
    <2>6. /\ Once(r, m - 1)
          /\ \A i \in 1 .. m - 1 : \E k \in 1 .. m : r[i] = q[k] /\ k # n
          /\ \A k \in 1 .. m : k # n => \E i \in 1 .. m - 1 : r[i] = q[k]
      <3>1. Shifted(r, q, m, n) /\ Once(q, m) /\ n \in 1 .. m
        BY <1>1, <2>4, <2>5 DEF Once
      <3> QED
        BY <3>1, ShiftedOnce
    <2>7. V \ {w} = {r[i] : i \in 1 .. m - 1}
      <3>1. \A k \in 1 .. m : q[k] \in V /\ (q[k] = w => k = n)
        BY <1>1, <2>1, <2>5
      <3>2. \A v \in V : \E k \in 1 .. m : v = q[k]
        BY <1>1, <2>5
      <3>3. ASSUME NEW v \in V \ {w} PROVE \E i \in 1 .. m - 1 : v = r[i]
        BY <2>1, <2>6, <3>2, ZenonT(30)
      <3>4. ASSUME NEW i \in 1 .. m - 1 PROVE r[i] \in V \ {w}
        <4>1. PICK k \in 1 .. m : r[i] = q[k] /\ k # n
          BY <2>6
        <4> QED
          BY <3>1, <4>1
      <3> QED
        BY <3>3, <3>4
    <2> QED
      <3>1. Lists(r, V \ {w})
        BY <2>4, <2>5, <2>6, <2>7 DEF Lists, Once
      <3> QED
        BY <2>3, <3>1
  <1> QED
    BY <1>2, <1>3

\* Whichever window of a list a search finds is one of the list.
LEMMA FoundIsListed ==
    ASSUME NEW q, NEW V, Lists(q, V), NEW places, NEW pl
    PROVE  FirstAt(q, places, pl) \in V \cup {NIL}
  <1> DEFINE I == {i \in 1 .. Len(q) : places[q[i]] = pl}
             n == SelectInSeq(q, LAMBDA w : places[w] = pl)
  <1>1. q \in Seq(WindowSet) /\ Len(q) \in Nat /\ V = {q[i] : i \in 1 .. Len(q)}
    BY DEF Lists
  <1>2. n = IF I # {} THEN Min(I) ELSE 0
    BY DEF SelectInSeq
  <1>3. CASE I = {}
    BY <1>2, <1>3 DEF FirstAt
  <1>4. CASE I # {}
    <2>1. I \subseteq Nat
      BY <1>1
    <2>2. PICK m \in I : \A j \in I : m <= j
      BY <1>4, <2>1, LeastNumber
    <2>3. Min(I) \in I
      BY <2>2 DEF Min
    <2>4. n \in 1 .. Len(q) /\ n # 0
      BY <1>1, <1>2, <1>4, <2>3
    <2> HIDE DEF n
    <2>5. q[n] \in V
      BY <1>1, <2>4
    <2>6. FirstAt(q, places, pl) = q[n]
      BY <2>4 DEF FirstAt, n
    <2> QED
      BY <2>5, <2>6
  <1> QED
    BY <1>3, <1>4

LEMMA ListsLength ==
    ASSUME NEW q, NEW V, Lists(q, V)
    PROVE  Len(q) = Cardinality(V)
  <1>1. /\ q \in Seq(WindowSet) /\ Len(q) \in Nat
        /\ \A i, j \in 1 .. Len(q) : q[i] = q[j] => i = j
        /\ V = {q[i] : i \in 1 .. Len(q)}
    BY DEF Lists
  <1>2. IsFiniteSet(1 .. Len(q)) /\ Cardinality(1 .. Len(q)) = Len(q)
    <2>1. PICK n \in Nat : n = Len(q)
      BY <1>1
    <2>2. 1 \in Int /\ n \in Int /\ (IF 1 > n THEN 0 ELSE n - 1 + 1) = n
      OBVIOUS
    <2>3. IsFiniteSet(1 .. n) /\ Cardinality(1 .. n) = n
      BY <2>2, FS_Interval
    <2> QED
      BY <2>1, <2>3
  <1>3. q \in Bijection(1 .. Len(q), V)
    <2>1. q \in [1 .. Len(q) -> V]
      BY <1>1
    <2>2. q \in Injection(1 .. Len(q), V)
      BY <1>1, <2>1 DEF Injection, IsInjective
    <2>3. q \in Surjection(1 .. Len(q), V)
      BY <1>1, <2>1 DEF Surjection
    <2> QED
      BY <2>2, <2>3 DEF Bijection
  <1>4. ExistsBijection(1 .. Len(q), V)
    BY <1>3 DEF ExistsBijection
  <1> QED
    BY <1>2, <1>4, FS_Bijection

-----------------------------------------------------------------------------
(* Whose the windows are *)

Of(q) == {q[i] : i \in 1 .. Len(q)}

\* The windows of S are the processes' al, by their lists wi, each one's once.
Owned(al, wi, S) ==
    /\ \A p \in al : Lists(wi[p], Of(wi[p])) /\ Of(wi[p]) \subseteq S
    /\ \A w \in S : \E p \in al : w \in Of(wi[p])
    /\ \A p, q \in al : \A w : w \in Of(wi[p]) /\ w \in Of(wi[q]) => p = q

LEMMA ListsOf ==
    ASSUME NEW q, NEW V, Lists(q, V) PROVE V = Of(q)
  BY DEF Lists, Of

\* p's list is another one, of W; the others' are as they were.
Changed(al, wi, wi2, p, W) ==
    /\ Lists(wi2[p], W)
    /\ \A q \in al : q # p => wi2[q] = wi[q]

LEMMA OwnedChanged ==
    ASSUME NEW al, NEW wi, NEW S, Owned(al, wi, S), NEW p \in al, NEW wi2, NEW W, NEW T,
           Changed(al, wi, wi2, p, W), W \subseteq T,
           \A q \in al : q # p => Of(wi[q]) \subseteq T /\ Of(wi[q]) \cap W = {},
           T \subseteq W \cup (S \ Of(wi[p]))
    PROVE  Owned(al, wi2, T)
  <1>1. W = Of(wi2[p]) /\ Lists(wi2[p], Of(wi2[p]))
    BY ListsOf DEF Changed
  <1>2. \A q \in al : q # p => wi2[q] = wi[q]
    BY DEF Changed
  <1>3. \A q \in al : Lists(wi2[q], Of(wi2[q])) /\ Of(wi2[q]) \subseteq T
    BY <1>1, <1>2 DEF Owned
  <1>4. ASSUME NEW w \in T PROVE \E q \in al : w \in Of(wi2[q])
    <2>1. CASE w \in W
      BY <1>1, <2>1
    <2>2. CASE w \in S \ Of(wi[p])
      BY <1>2, <2>2 DEF Owned
    <2> QED
      BY <2>1, <2>2
  <1>5. ASSUME NEW q \in al, NEW r \in al, NEW w, w \in Of(wi2[q]), w \in Of(wi2[r])
        PROVE  q = r
    <2>1. CASE q = p \/ r = p
      BY <1>1, <1>2, <1>5, <2>1
    <2>2. CASE q # p /\ r # p
      BY <1>2, <1>5, <2>2 DEF Owned
    <2> QED
      BY <2>1, <2>2
  <1> QED
    BY <1>3, <1>4, <1>5 DEF Owned

LEMMA OwnedAppend ==
    ASSUME NEW al, NEW wi, NEW S, Owned(al, wi, S), NEW p \in al,
           NEW w \in WindowSet, w \notin S, NEW wi2, wi2[p] = Append(wi[p], w),
           \A q \in al : q # p => wi2[q] = wi[q]
    PROVE  Owned(al, wi2, S \cup {w})
  <1> DEFINE W == Of(wi[p]) \cup {w}
  <1>1. Lists(wi[p], Of(wi[p])) /\ w \notin Of(wi[p])
    BY DEF Owned
  <1>2. Lists(wi2[p], W)
    BY <1>1, AppendLists
  <1>3. Changed(al, wi, wi2, p, W)
    BY <1>2 DEF Changed
  <1>4. W \subseteq S \cup {w} /\ S \cup {w} \subseteq W \cup (S \ Of(wi[p]))
    BY DEF Owned
  <1>5. \A q \in al : q # p => Of(wi[q]) \subseteq S \cup {w} /\ Of(wi[q]) \cap W = {}
    BY DEF Owned
  <1> QED
    BY <1>3, <1>4, <1>5, OwnedChanged

LEMMA OwnedRemove ==
    ASSUME NEW al, NEW wi, NEW S, Owned(al, wi, S), NEW p \in al,
           NEW w \in Of(wi[p]), NEW wi2, wi2[p] = RemoveFirst(wi[p], w),
           \A q \in al : q # p => wi2[q] = wi[q]
    PROVE  Owned(al, wi2, S \ {w})
  <1> DEFINE W == Of(wi[p]) \ {w}
  <1>1. Lists(wi[p], Of(wi[p]))
    BY DEF Owned
  <1>2. Lists(wi2[p], W)
    BY <1>1, RemoveLists
  <1>3. Changed(al, wi, wi2, p, W)
    BY <1>2 DEF Changed
  <1>4. W \subseteq S \ {w} /\ S \ {w} \subseteq W \cup (S \ Of(wi[p]))
    BY DEF Owned
  <1>5. \A q \in al : q # p => Of(wi[q]) \subseteq S \ {w} /\ Of(wi[q]) \cap W = {}
    BY DEF Owned
  <1> QED
    BY <1>3, <1>4, <1>5, OwnedChanged

LEMMA OwnedUnlinked ==
    ASSUME NEW al, NEW wi, NEW S, Owned(al, wi, S), NEW p \in al
    PROVE  Owned(al \ {p}, wi, S \ Of(wi[p]))
  BY DEF Owned

LEMMA OwnedStarted ==
    ASSUME NEW al, NEW wi, NEW S, Owned(al, wi, S), NEW p, wi[p] = <<>>
    PROVE  Owned(al \cup {p}, wi, S)
  <1>1. Lists(wi[p], {}) /\ Of(wi[p]) = {}
    BY EmptyLists, ListsOf
  <1> QED
    BY <1>1 DEF Owned

LEMMA OwnerFound ==
    ASSUME NEW s, NEW S, Owned(s.alive, s.windows, S), s.alive \subseteq Processes, NEW w
    PROVE  /\ w \in S => OwnerOf(s, w) \in s.alive /\ w \in Of(s.windows[OwnerOf(s, w)])
           /\ w \notin S => OwnerOf(s, w) = NIL
  <1> DEFINE owners == {p \in s.alive : Contains(s.windows[p], w)}
  <1>1. owners = {p \in s.alive : w \in Of(s.windows[p])}
    BY ListsMembers DEF Owned
  <1>2. OwnerOf(s, w) = IF owners = {} THEN NIL ELSE CHOOSE p \in owners : TRUE
    BY DEF OwnerOf
  <1>3. CASE w \in S
    <2>1. owners # {}
      BY <1>1, <1>3 DEF Owned
    <2>2. OwnerOf(s, w) \in owners
      BY <1>2, <2>1
    <2> QED
      BY <1>1, <1>3, <2>2
  <1>4. CASE w \notin S
    <2>1. owners = {}
      BY <1>1, <1>4 DEF Owned
    <2> QED
      BY <1>2, <1>4, <2>1
  <1> QED
    BY <1>3, <1>4

-----------------------------------------------------------------------------
(* The handlers *)

Fields == {"windows_vector", "children", "place", "focused", "moving", "created",
           "handled", "alive", "current", "windows", "started", "sent"}

\* The window list and the screen's children are the windows of V; the
\* processes' are those of S, which all have a handler.
Sys(s, V, S) ==
    /\ DOMAIN s = Fields
    /\ Lists(s.windows_vector, V) /\ Lists(s.children, V)
    /\ s.alive \subseteq Processes /\ DOMAIN s.windows = Processes
    /\ Owned(s.alive, s.windows, S)
    /\ S \subseteq s.handled

\* A handler that leaves the windows and whose they are alone; but for their
\* order on the screen.
Kept(s, t) ==
    /\ DOMAIN t = Fields
    /\ t.windows_vector = s.windows_vector /\ t.created = s.created
    /\ t.handled = s.handled /\ t.alive = s.alive /\ t.windows = s.windows
    /\ t.started = s.started

Stays(s, t) == Kept(s, t) /\ t.children = s.children /\ t.focused = s.focused

LEMMA SysKept ==
    ASSUME NEW s, NEW t, NEW V, NEW S, Sys(s, V, S), Kept(s, t), Lists(t.children, V)
    PROVE  Sys(t, V, S)
  BY DEF Sys, Kept

LEMMA SysStays ==
    ASSUME NEW s, NEW t, NEW V, NEW S, Sys(s, V, S), Stays(s, t)
    PROVE  Sys(t, V, S)
  BY DEF Sys, Kept, Stays

LEMMA SendStays ==
    ASSUME NEW s, DOMAIN s = Fields, NEW p, NEW type, NEW w
    PROVE  Stays(s, Send(s, p, type, w)) /\ Send(s, p, type, w).current = s.current
  BY DEF Send, Stays, Kept, Fields

\* What a process's handler does with an event other than the closing of a
\* window.
LEMMA HandlerStays ==
    ASSUME NEW s, DOMAIN s = Fields, NEW w, NEW type, type # "WINDOW_CLOSE", NEW queued
    PROVE  /\ Stays(s, process_window_event_handler(s, w, type, queued))
           /\ type = "FOCUS" /\ OwnerOf(s, w) # NIL =>
                process_window_event_handler(s, w, type, queued).current = OwnerOf(s, w)
  <1> DEFINE p == OwnerOf(s, w)
             t == IF queued THEN Send(s, p, type, w) ELSE s
             u == [t EXCEPT !.current = p]
             r == process_window_event_handler(s, w, type, queued)
  <1>1. Stays(s, s)
    BY DEF Stays, Kept
  <1>2. Stays(s, t)
    <2>1. CASE queued
      BY <2>1, SendStays
    <2>2. CASE ~queued
      BY <1>1, <2>2
    <2> QED
      BY <2>1, <2>2
  <1>3. r = IF p = NIL THEN s ELSE IF type = "FOCUS" THEN u ELSE t
    BY DEF process_window_event_handler
  <1> HIDE DEF p, t, r
  <1>4. Stays(s, u) /\ u.current = p
    BY <1>2 DEF Stays, Kept, Fields
  <1> HIDE DEF u
  <1> QED
    BY <1>1, <1>2, <1>3, <1>4 DEF p, r

LEMMA PushStays ==
    ASSUME NEW s, DOMAIN s = Fields, NEW w, NEW type, type # "WINDOW_CLOSE", NEW queued
    PROVE  /\ Stays(s, window_event_push(s, w, type, queued))
           /\ type = "FOCUS" /\ w \in s.handled /\ OwnerOf(s, w) # NIL =>
                window_event_push(s, w, type, queued).current = OwnerOf(s, w)
  <1>1. Stays(s, s)
    BY DEF Stays, Kept
  <1>2. CASE w \in s.handled
    <2>1. window_event_push(s, w, type, queued)
            = process_window_event_handler(s, w, type, queued)
      BY <1>2 DEF window_event_push
    <2> QED
      BY <2>1, HandlerStays
  <1>3. CASE w \notin s.handled
    <2>1. window_event_push(s, w, type, queued) = s
      BY <1>3 DEF window_event_push
    <2> QED
      BY <1>1, <1>3, <2>1
  <1> QED
    BY <1>2, <1>3

LEMMA BringKeeps ==
    ASSUME NEW s, DOMAIN s = Fields, NEW V, Lists(s.children, V), NEW w
    PROVE  /\ Kept(s, window_bring_to_top(s, w))
           /\ Lists(window_bring_to_top(s, w).children, V)
           /\ window_bring_to_top(s, w).focused = s.focused
  <1> DEFINE c == IF Contains(s.children, w)
                  THEN Append(RemoveFirst(s.children, w), w) ELSE s.children
             t == [s EXCEPT !.children = c]
  <1>1. Lists(c, V)
    <2>1. CASE Contains(s.children, w)
      <3>1. w \in V /\ w \in WindowSet
        BY <2>1, ListsMembers
      <3>2. Lists(RemoveFirst(s.children, w), V \ {w})
        BY RemoveLists
      <3>3. Lists(Append(RemoveFirst(s.children, w), w), (V \ {w}) \cup {w})
        BY <3>1, <3>2, AppendLists
      <3>4. (V \ {w}) \cup {w} = V
        BY <3>1
      <3> QED
        BY <2>1, <3>3, <3>4
    <2>2. CASE ~Contains(s.children, w)
      BY <2>2
    <2> QED
      BY <2>1, <2>2
  <1>2. window_bring_to_top(s, w) = t
    BY DEF window_bring_to_top
  <1> HIDE DEF c
  <1>3. Kept(s, t) /\ t.children = c /\ t.focused = s.focused
    BY DEF Kept, Fields
  <1> QED
    BY <1>1, <1>2, <1>3

\* The focus moves, and with it, if the window is a process's, the current
\* process.
LEMMA FocusKeeps ==
    ASSUME NEW s, NEW V, NEW S, Sys(s, V, S), NEW w
    PROVE  \E t : /\ t = window_focus(s, w)
                  /\ Kept(s, t) /\ Lists(t.children, V) /\ t.focused = w
                  /\ s.focused # w /\ w \in S =>
                        t.current \in s.alive /\ w \in Of(s.windows[t.current])
  <1>1. CASE s.focused = w
    <2>1. window_focus(s, w) = s
      BY <1>1 DEF window_focus
    <2>2. Kept(s, s)
      BY DEF Kept, Sys
    <2> QED
      BY <1>1, <2>1, <2>2 DEF Sys
  <1>2. CASE s.focused # w
    <2>1. PICK a : a = [s EXCEPT !.focused = w]
      OBVIOUS
    <2>2. PICK b : b = IF s.focused # NIL /\ s.focused \notin Borderless
                       THEN window_event_push(a, s.focused, "LOST_FOCUS", TRUE) ELSE a
      OBVIOUS
    <2>3. PICK c : c = window_bring_to_top(b, w)
      OBVIOUS
    <2>4. PICK t : t = window_event_push(c, w, "FOCUS", TRUE)
      OBVIOUS
    <2>5. t = window_focus(s, w)
      BY <1>2, <2>1, <2>2, <2>3, <2>4 DEF window_focus
    <2>6. Kept(s, a) /\ a.children = s.children /\ a.focused = w
      BY <2>1 DEF Sys, Kept, Fields
    <2>7. Stays(a, b)
      <3>1. Stays(a, a)
        BY <2>6 DEF Stays, Kept
      <3>2. Stays(a, window_event_push(a, s.focused, "LOST_FOCUS", TRUE))
        BY <2>6, PushStays DEF Kept
      <3> QED
        BY <2>2, <3>1, <3>2
    <2>8. Kept(s, b) /\ b.children = s.children /\ b.focused = w
      BY <2>6, <2>7 DEF Kept, Stays
    <2>9. Kept(b, c) /\ Lists(c.children, V) /\ c.focused = w
      BY <2>3, <2>8, BringKeeps DEF Kept, Sys
    <2>10. Kept(s, c)
      BY <2>8, <2>9 DEF Kept
    <2>11. /\ Stays(c, t)
           /\ w \in c.handled /\ OwnerOf(c, w) # NIL => t.current = OwnerOf(c, w)
      BY <2>4, <2>10, PushStays DEF Kept
    <2>12. Kept(s, t) /\ Lists(t.children, V) /\ t.focused = w
      BY <2>9, <2>10, <2>11 DEF Kept, Stays
    <2>13. ASSUME w \in S PROVE t.current \in s.alive /\ w \in Of(s.windows[t.current])
      <3>1. /\ w \in c.handled /\ Owned(c.alive, c.windows, S) /\ c.alive = s.alive
            /\ c.windows = s.windows /\ c.alive \subseteq Processes
        BY <2>10, <2>13 DEF Kept, Sys
      <3>2. OwnerOf(c, w) \in c.alive /\ w \in Of(c.windows[OwnerOf(c, w)])
        BY <2>13, <3>1, OwnerFound
      <3>3. OwnerOf(c, w) # NIL
        BY <3>1, <3>2, WindowsAssumption
      <3> QED
        BY <2>11, <3>1, <3>2, <3>3
    <2> QED
      BY <2>5, <2>12, <2>13
  <1> QED
    BY <1>1, <1>2

\* A window closes: if it was a process's, it is no longer.
Closed(s, t, w) ==
    /\ t.handled = s.handled \ {w} /\ t.created = s.created /\ t.alive = s.alive
    /\ t.started = s.started /\ t.focused = s.focused
    /\ \A q \in Processes \ s.alive : t.windows[q] = s.windows[q]

\* w is no process's any more, and nothing else has changed.
GivenUp(s, u, S, w) ==
    /\ DOMAIN u = Fields /\ DOMAIN u.windows = Processes
    /\ u.windows_vector = s.windows_vector /\ u.children = s.children
    /\ u.handled = s.handled /\ u.created = s.created /\ u.alive = s.alive
    /\ u.started = s.started /\ u.focused = s.focused
    /\ Owned(u.alive, u.windows, S \ {w})
    /\ \A q \in Processes \ s.alive : u.windows[q] = s.windows[q]

LEMMA CloseEvent ==
    ASSUME NEW s, NEW V, NEW S, Sys(s, V, S), NEW w
    PROVE  GivenUp(s, window_event_push(s, w, "WINDOW_CLOSE", TRUE), S, w)
  <1>1. PICK u : u = window_event_push(s, w, "WINDOW_CLOSE", TRUE)
    OBVIOUS
  <1>2. CASE w \notin S
    <2>1. OwnerOf(s, w) = NIL
      BY <1>2, OwnerFound DEF Sys
    <2>2. u = s
      BY <1>1, <2>1 DEF window_event_push, process_window_event_handler
    <2>3. S \ {w} = S
      BY <1>2
    <2> QED
      BY <1>1, <2>2, <2>3 DEF Sys, GivenUp
  <1>3. CASE w \in S
    <2>1. PICK p : p = OwnerOf(s, w)
      OBVIOUS
    <2>2. p \in s.alive /\ w \in Of(s.windows[p]) /\ p \in Processes
      BY <1>3, <2>1, OwnerFound DEF Sys
    <2>3. p # NIL /\ w \in s.handled
      BY <1>3, <2>2, WindowsAssumption DEF Sys
    <2>4. PICK t : t = Send(s, p, "WINDOW_CLOSE", w)
      OBVIOUS
    <2>5. Stays(s, t)
      BY <2>4, SendStays DEF Sys
    <2>6. u = [t EXCEPT !.windows[p] = RemoveFirst(@, w)]
      <3>1. u = process_window_event_handler(s, w, "WINDOW_CLOSE", TRUE)
        BY <1>1, <2>3 DEF window_event_push
      <3> QED
        BY <2>1, <2>3, <2>4, <3>1 DEF process_window_event_handler
    <2>7. /\ DOMAIN u = Fields
          /\ u.windows = [s.windows EXCEPT ![p] = RemoveFirst(@, w)]
          /\ u.windows_vector = s.windows_vector /\ u.children = s.children
          /\ u.handled = s.handled /\ u.created = s.created /\ u.alive = s.alive
          /\ u.started = s.started /\ u.focused = s.focused
      BY <2>5, <2>6 DEF Stays, Kept, Fields
    <2>8. /\ DOMAIN u.windows = Processes
          /\ u.windows[p] = RemoveFirst(s.windows[p], w)
          /\ \A q \in Processes : q # p => u.windows[q] = s.windows[q]
      BY <2>2, <2>7 DEF Sys
    <2>9. Owned(s.alive, u.windows, S \ {w})
      <3>1. \A q \in s.alive : q # p => u.windows[q] = s.windows[q]
        BY <2>8 DEF Sys
      <3>2. Owned(s.alive, s.windows, S)
        BY DEF Sys
      <3>3. u.windows[p] = RemoveFirst(s.windows[p], w)
        BY <2>8
      <3> QED
        BY <2>2, <3>1, <3>2, <3>3, OwnedRemove
    <2>10. \A q \in Processes \ s.alive : u.windows[q] = s.windows[q]
      BY <2>2, <2>8
    <2> QED
      BY <1>1, <2>7, <2>8, <2>9, <2>10 DEF GivenUp
  <1> QED
    BY <1>2, <1>3

LEMMA CloseKeeps ==
    ASSUME NEW s, NEW V, NEW S, Sys(s, V, S), NEW w
    PROVE  Sys(window_close(s, w), V \ {w}, S \ {w}) /\ Closed(s, window_close(s, w), w)
  <1>0. PICK u : u = window_event_push(s, w, "WINDOW_CLOSE", TRUE) /\ GivenUp(s, u, S, w)
    BY CloseEvent
  <1>1. /\ DOMAIN u = Fields /\ DOMAIN u.windows = Processes
        /\ u.windows_vector = s.windows_vector /\ u.children = s.children
        /\ u.handled = s.handled /\ u.created = s.created /\ u.alive = s.alive
        /\ u.started = s.started /\ u.focused = s.focused
        /\ Owned(u.alive, u.windows, S \ {w})
        /\ \A q \in Processes \ s.alive : u.windows[q] = s.windows[q]
    BY <1>0 DEF GivenUp
  <1>2. PICK t : t = window_close(s, w)
    OBVIOUS
  <1>3. t = [u EXCEPT !.handled = @ \ {w},
                      !.windows_vector = RemoveFirst(@, w),
                      !.children = RemoveFirst(@, w)]
    BY <1>0, <1>2 DEF window_close, window_free
  <1>4. /\ DOMAIN t = Fields /\ t.windows = u.windows
        /\ t.windows_vector = RemoveFirst(s.windows_vector, w)
        /\ t.children = RemoveFirst(s.children, w)
        /\ t.handled = s.handled \ {w} /\ t.created = s.created /\ t.alive = s.alive
        /\ t.started = s.started /\ t.focused = s.focused
    BY <1>1, <1>3 DEF Fields
  <1>5. Lists(t.windows_vector, V \ {w}) /\ Lists(t.children, V \ {w})
    BY <1>4, RemoveLists DEF Sys
  <1>6. Sys(t, V \ {w}, S \ {w})
    BY <1>1, <1>4, <1>5 DEF Sys
  <1>7. Closed(s, t, w)
    BY <1>1, <1>4 DEF Closed
  <1> QED
    BY <1>2, <1>6, <1>7

\* A window is created, and closed again if its process has no memory for it.
LEMMA CreateKeeps ==
    ASSUME NEW s, NEW S, Sys(s, S, S), s.handled = S, S \subseteq s.created,
           NEW p \in s.alive, NEW w \in WindowSet, w \notin s.created, NEW memory \in BOOLEAN
    PROVE  \E t, T : /\ t = process_window_create(s, p, w, memory)
                     /\ Sys(t, T, T) /\ t.handled = T /\ T \subseteq t.created
                     /\ t.alive = s.alive /\ t.started = s.started
                     /\ t.focused = w
                     /\ \A q \in Processes \ s.alive : t.windows[q] = s.windows[q]
  <1>1. PICK a : a = [s EXCEPT !.created = @ \cup {w}, !.place[w] = Centre,
                               !.windows_vector = Append(@, w),
                               !.children = Append(@, w)]
    OBVIOUS
  <1>2. w \notin S
    OBVIOUS
  <1>3. /\ DOMAIN a = Fields /\ a.created = s.created \cup {w}
        /\ a.windows_vector = Append(s.windows_vector, w)
        /\ a.children = Append(s.children, w)
        /\ a.handled = s.handled /\ a.alive = s.alive /\ a.windows = s.windows
        /\ a.started = s.started
    BY <1>1 DEF Sys, Fields
  <1>4. Lists(a.windows_vector, S \cup {w}) /\ Lists(a.children, S \cup {w})
    BY <1>2, <1>3, AppendLists DEF Sys
  <1>5. Sys(a, S \cup {w}, S)
    BY <1>3, <1>4 DEF Sys
  <1>6. PICK b : /\ b = window_focus(a, w) /\ Kept(a, b)
                 /\ Lists(b.children, S \cup {w}) /\ b.focused = w
    BY <1>5, FocusKeeps
  <1>7. b = window_create(s, w)
    BY <1>1, <1>6 DEF window_create
  <1>8. Sys(b, S \cup {w}, S)
    BY <1>5, <1>6, SysKept
  <1>9. /\ DOMAIN b = Fields /\ b.handled = S /\ b.created = s.created \cup {w}
        /\ b.alive = s.alive /\ b.windows = s.windows /\ b.started = s.started
    BY <1>3, <1>6 DEF Kept
  <1>10. CASE memory
    <2>1. PICK t : t = [b EXCEPT !.handled = @ \cup {w}, !.windows[p] = Append(@, w)]
      OBVIOUS
    <2>2. t = process_window_create(s, p, w, memory)
      BY <1>7, <1>10, <2>1 DEF process_window_create
    <2>3. /\ DOMAIN t = Fields /\ t.handled = S \cup {w}
          /\ t.created = s.created \cup {w} /\ t.alive = s.alive /\ t.started = s.started
          /\ t.focused = w /\ t.windows_vector = b.windows_vector
          /\ t.children = b.children
          /\ t.windows = [s.windows EXCEPT ![p] = Append(@, w)]
      BY <1>6, <1>9, <2>1 DEF Fields
    <2>4. p \in Processes /\ DOMAIN s.windows = Processes /\ Owned(s.alive, s.windows, S)
      BY DEF Sys
    <2>5. /\ DOMAIN t.windows = Processes /\ t.windows[p] = Append(s.windows[p], w)
          /\ \A q \in Processes : q # p => t.windows[q] = s.windows[q]
      BY <2>3, <2>4
    <2>6. Owned(s.alive, t.windows, S \cup {w})
      <3>1. \A q \in s.alive : q # p => t.windows[q] = s.windows[q]
        BY <2>5 DEF Sys
      <3> QED
        BY <1>2, <2>4, <2>5, <3>1, OwnedAppend
    <2>7. Sys(t, S \cup {w}, S \cup {w})
      BY <1>8, <2>3, <2>5, <2>6 DEF Sys
    <2>8. S \cup {w} \subseteq t.created
      BY <2>3
    <2> QED
      <3>1. \A q \in Processes \ s.alive : t.windows[q] = s.windows[q]
        BY <2>5
      <3>2. t.alive = s.alive /\ t.started = s.started /\ t.focused = w
        BY <2>3
      <3>3. t.handled = S \cup {w}
        BY <2>3
      <3> QED
        BY <2>2, <2>7, <2>8, <3>1, <3>2, <3>3, Zenon
  <1>11. CASE ~memory
    <2>1. PICK t : t = window_close(b, w)
      OBVIOUS
    <2>2. t = process_window_create(s, p, w, memory)
      BY <1>7, <1>11, <2>1 DEF process_window_create
    <2>3. (S \cup {w}) \ {w} = S /\ S \ {w} = S
      BY <1>2
    <2>4. Sys(t, S, S) /\ Closed(b, t, w)
      BY <1>8, <2>1, <2>3, CloseKeeps
    <2>5. /\ t.handled = S /\ S \subseteq t.created /\ t.alive = s.alive
          /\ t.started = s.started /\ t.focused = w
          /\ \A q \in Processes \ s.alive : t.windows[q] = s.windows[q]
      BY <1>6, <1>9, <2>3, <2>4 DEF Closed
    <2> QED
      BY <2>2, <2>4, <2>5
  <1> QED
    BY <1>10, <1>11

-----------------------------------------------------------------------------
(* The windows of a process that ends *)

\* f is the window system after each of the first n rounds of the loop.
Rounds(f, s, p, n) ==
    f = [i \in 0 .. n |-> IF i = 0 THEN s ELSE CloseNth(f[i - 1], p, i)]

LEMMA RoundsExist ==
    ASSUME NEW s, NEW p, NEW n \in Nat
    PROVE  \E f : Rounds(f, s, p, n)
  <1> DEFINE Lacking == {j \in Nat : ~ \E f : Rounds(f, s, p, j)}
  <1>1. 0 \notin Lacking
    <2>1. Rounds([i \in 0 .. 0 |-> s], s, p, 0)
      BY DEF Rounds
    <2> QED
      BY <2>1
  <1>2. ASSUME NEW j \in Lacking, \A y \in Lacking : j <= y
        PROVE  FALSE
    <2>1. j \in Nat /\ j # 0 /\ j - 1 \in Nat /\ j - 1 \notin Lacking
      BY <1>1, <1>2
    <2>2. PICK f : Rounds(f, s, p, j - 1)
      BY <2>1
    <2> DEFINE g == [i \in 0 .. j |-> IF i = j THEN CloseNth(f[j - 1], p, j) ELSE f[i]]
    <2>3. \A i \in 0 .. j - 1 : g[i] = f[i]
      BY <2>1
    <2>4. \A i \in 0 .. j - 1 : f[i] = IF i = 0 THEN s ELSE CloseNth(f[i - 1], p, i)
      BY <2>1, <2>2 DEF Rounds
    <2>5. \A i \in 0 .. j : g[i] = IF i = 0 THEN s ELSE CloseNth(g[i - 1], p, i)
      BY <2>1, <2>3, <2>4
    <2>6. Rounds(g, s, p, j)
      BY <2>5 DEF Rounds
    <2> QED
      BY <2>6
  <1>3. Lacking = {}
    BY <1>2, LeastNumber
  <1> QED
    BY <1>3

LEMMA LoopRounds ==
    ASSUME NEW s, NEW p, NEW n \in Nat, n = Len(s.windows[p])
    PROVE  \E f : Rounds(f, s, p, n) /\ process_close_windows(s, p) = f[n]
  <1> DEFINE f == CHOOSE f : Rounds(f, s, p, n)
  <1>1. Rounds(f, s, p, n)
    BY RoundsExist
  <1>2. process_close_windows(s, p) = f[n]
    BY DEF process_close_windows, Rounds
  <1> QED
    BY <1>1, <1>2

\* After n rounds the first n windows of p, which no process has, are closed.
AfterRounds(t, s, p, V, S, n) ==
    /\ Sys(t, V \ {s.windows[p][k] : k \in 1 .. n}, S)
    /\ t.handled = V \ {s.windows[p][k] : k \in 1 .. n}
    /\ t.created = s.created /\ t.alive = s.alive /\ t.started = s.started
    /\ t.focused = s.focused
    /\ \A q \in Processes \ s.alive : t.windows[q] = s.windows[q]

LEMMA RoundKeeps ==
    ASSUME NEW s, NEW V, NEW S, NEW p \in Processes \ s.alive,
           NEW n \in Nat, n + 1 \in DOMAIN s.windows[p],
           s.windows[p][n + 1] \notin S,
           NEW t, AfterRounds(t, s, p, V, S, n)
    PROVE  AfterRounds(CloseNth(t, p, n + 1), s, p, V, S, n + 1)
  <1>1. PICK w : w = s.windows[p][n + 1] /\ w \notin S
    OBVIOUS
  <1>2. PICK U : U = V \ {s.windows[p][k] : k \in 1 .. n}
    OBVIOUS
  <1>3. U \ {w} = V \ {s.windows[p][k] : k \in 1 .. n + 1}
    <2>1. \A k \in 1 .. n + 1 : k \in 1 .. n \/ k = n + 1
      OBVIOUS
    <2>2. n + 1 \in 1 .. n + 1 /\ \A k \in 1 .. n : k \in 1 .. n + 1
      OBVIOUS
    <2> QED
      BY <1>1, <1>2, <2>1, <2>2
  <1>4. t.windows[p] = s.windows[p]
    BY DEF AfterRounds
  <1>5. PICK r : r = CloseNth(t, p, n + 1) /\ r = window_close(t, w)
    BY <1>1, <1>4 DEF CloseNth
  <1>6. Sys(t, U, S) /\ t.handled = U
    BY <1>2 DEF AfterRounds
  <1>7. S \ {w} = S
    BY <1>1
  <1>8. Sys(r, U \ {w}, S) /\ Closed(t, r, w)
    BY <1>5, <1>6, <1>7, CloseKeeps
  <1>9. /\ r.handled = U \ {w} /\ r.created = s.created /\ r.alive = s.alive
        /\ r.started = s.started /\ r.focused = s.focused
        /\ \A q \in Processes \ s.alive : r.windows[q] = s.windows[q]
    BY <1>6, <1>8 DEF Closed, AfterRounds
  <1> QED
    BY <1>3, <1>5, <1>8, <1>9 DEF AfterRounds

LEMMA CloseAllKeeps ==
    ASSUME NEW s, NEW V, NEW S, Sys(s, V, S), s.handled = V,
           NEW p \in Processes \ s.alive, Lists(s.windows[p], V \ S), S \subseteq V
    PROVE  \E t : /\ t = process_close_windows(s, p)
                  /\ Sys(t, S, S) /\ t.handled = S
                  /\ t.created = s.created /\ t.alive = s.alive
                  /\ t.started = s.started /\ t.focused = s.focused
                  /\ \A q \in Processes \ s.alive : t.windows[q] = s.windows[q]
  <1>1. PICK n \in Nat : n = Len(s.windows[p])
    BY DEF Lists
  <1>2. PICK f : Rounds(f, s, p, n) /\ process_close_windows(s, p) = f[n]
    BY <1>1, LoopRounds
  <1>3. /\ \A i \in 1 .. n : i \in DOMAIN s.windows[p] /\ s.windows[p][i] \notin S
        /\ {s.windows[p][k] : k \in 1 .. n} = V \ S
    BY <1>1 DEF Lists
  <1>4. f[0] = s /\ \A i \in 1 .. n : f[i] = CloseNth(f[i - 1], p, i)
    BY <1>2 DEF Rounds
  <1> DEFINE Wrong == {i \in 0 .. n : ~ AfterRounds(f[i], s, p, V, S, i)}
  <1>5. 0 \notin Wrong
    <2>1. V \ {s.windows[p][k] : k \in 1 .. 0} = V
      OBVIOUS
    <2> QED
      BY <1>4, <2>1 DEF AfterRounds
  <1>6. ASSUME NEW j \in Wrong, \A y \in Wrong : j <= y
        PROVE  FALSE
    <2>1. PICK m \in Nat : m + 1 = j
      <3>1. j # 0 /\ j - 1 \in Nat /\ (j - 1) + 1 = j
        BY <1>5, <1>6
      <3> QED
        BY <3>1
    <2>2. j \in 1 .. n /\ m \in 0 .. n /\ m < j
      BY <1>6, <2>1
    <2>3. m \notin Wrong
      BY <1>6, <2>2
    <2>4. AfterRounds(f[m], s, p, V, S, m)
      BY <2>2, <2>3
    <2>5. f[j] = CloseNth(f[m], p, m + 1)
      <3>1. j - 1 = m
        BY <2>1
      <3> QED
        BY <1>4, <2>1, <2>2, <3>1
    <2>6. m + 1 \in DOMAIN s.windows[p] /\ s.windows[p][m + 1] \notin S
      BY <1>3, <2>1, <2>2
    <2>7. AfterRounds(f[j], s, p, V, S, m + 1)
      BY <2>4, <2>5, <2>6, RoundKeeps
    <2> QED
      BY <1>6, <2>1, <2>7
  <1>7. Wrong \subseteq Nat
    OBVIOUS
  <1>8. Wrong = {}
    BY <1>6, <1>7, LeastNumber
  <1>9. AfterRounds(f[n], s, p, V, S, n)
    BY <1>8
  <1>10. V \ (V \ S) = S
    OBVIOUS
  <1> QED
    BY <1>2, <1>3, <1>9, <1>10, ZenonT(30) DEF AfterRounds

-----------------------------------------------------------------------------
(* The invariant *)

\* The window list, the screen's children, the windows with a handler and the
\* windows of the processes that run are the same; a process that has not
\* started has none.
Owning(s) ==
    /\ Sys(s, s.handled, s.handled)
    /\ s.handled \subseteq s.created
    /\ s.alive \subseteq s.started
    /\ \A p \in Processes \ s.started : s.windows[p] = <<>>

\* A step between such states that starts and ends no process.
Beside(s, t) ==
    /\ Sys(t, t.handled, t.handled) /\ t.handled \subseteq t.created
    /\ t.alive = s.alive /\ t.started = s.started
    /\ \A q \in Processes \ s.alive : t.windows[q] = s.windows[q]

LEMMA OwningBeside ==
    ASSUME NEW s, Owning(s), NEW t, Beside(s, t) PROVE Owning(t)
  BY DEF Owning, Beside

LEMMA KeptBeside ==
    ASSUME NEW s, Owning(s), NEW t, Kept(s, t), Lists(t.children, s.handled)
    PROVE  Beside(s, t)
  <1>1. Sys(t, s.handled, s.handled)
    BY SysKept DEF Owning
  <1> QED
    BY <1>1 DEF Owning, Beside, Kept

LEMMA StaysBeside ==
    ASSUME NEW s, Owning(s), NEW t, Stays(s, t) PROVE Beside(s, t)
  BY KeptBeside DEF Owning, Sys, Stays

LEMMA BesideBeside ==
    ASSUME NEW s, NEW t, NEW u, Beside(s, t), Beside(t, u) PROVE Beside(s, u)
  BY DEF Beside

LEMMA CloseBeside ==
    ASSUME NEW s, Owning(s), NEW w
    PROVE  Beside(s, window_close(s, w)) /\ window_close(s, w).focused = s.focused
  <1>1. PICK t : t = window_close(s, w)
    OBVIOUS
  <1>2. Sys(t, s.handled \ {w}, s.handled \ {w}) /\ Closed(s, t, w)
    BY <1>1, CloseKeeps DEF Owning
  <1>3. Beside(s, t) /\ t.focused = s.focused
    BY <1>2 DEF Owning, Closed, Beside
  <1> QED
    BY <1>1, <1>3

LEMMA EntryOwning ==
    ASSUME Owning(ws)
    PROVE  \E s : /\ s = Entry /\ Owning(s) /\ Stays(ws, s) /\ s.moving = ws.moving
                  /\ s.current = ws.current
  <1>1. PICK s : s = Entry
    OBVIOUS
  <1>2. Stays(ws, s) /\ s.moving = ws.moving /\ s.current = ws.current
    BY <1>1 DEF Entry, Owning, Sys, Stays, Kept, Fields
  <1>3. Owning(s)
    BY <1>2, StaysBeside, OwningBeside
  <1> QED
    BY <1>1, <1>2, <1>3

-----------------------------------------------------------------------------
(* A click *)

LEMMA GraphicsClickBeside ==
    ASSUME NEW s, Owning(s), NEW pl, NEW part
    PROVE  \E t : /\ t = graphics_mouse_click_handler(s, pl, part)
                  /\ Beside(s, t) /\ t.focused = s.focused
  <1>1. PICK w : w = FirstAt(Reverse(s.children), s.place, pl)
    OBVIOUS
  <1>2. PICK m : m = [s EXCEPT !.moving = IF @ = w THEN NIL ELSE w]
    OBVIOUS
  <1>3. PICK c : c = window_close(s, w)
    OBVIOUS
  <1>4. Beside(s, s)
    BY DEF Owning, Beside
  <1>5. Stays(s, m)
    <2>1. DOMAIN s = Fields
      BY DEF Owning, Sys
    <2> QED
      BY <1>2, <2>1 DEF Stays, Kept, Fields
  <1>6. Beside(s, m) /\ m.focused = s.focused
    BY <1>5, StaysBeside DEF Stays
  <1>7. Beside(s, c) /\ c.focused = s.focused
    BY <1>3, CloseBeside
  <1>8. graphics_mouse_click_handler(s, pl, part) \in {s, m, c}
    BY <1>1, <1>2, <1>3 DEF graphics_mouse_click_handler, window_title_bar_clicked
  <1> QED
    BY <1>4, <1>6, <1>7, <1>8

\* The window that has the focus then is one of the current process.
FocusIsCurrents(s, t) ==
    \A w : s.focused # w /\ t.focused = w => Contains(t.windows[t.current], w)

LEMMA WindowClickBeside ==
    ASSUME NEW s, Owning(s), NEW pl, NEW part
    PROVE  \E t : /\ t = window_click_handler(s, pl, part)
                  /\ Beside(s, t) /\ FocusIsCurrents(s, t)
  <1>1. PICK w : w = window_get_at_position(s, pl)
    OBVIOUS
  <1>2. PICK t : t = window_click_handler(s, pl, part)
    OBVIOUS
  <1>3. CASE w = NIL
    <2>1. t = s
      BY <1>1, <1>2, <1>3 DEF window_click_handler
    <2>2. Beside(s, s) /\ FocusIsCurrents(s, s)
      BY DEF Owning, Beside, FocusIsCurrents
    <2> QED
      BY <1>2, <2>1, <2>2
  <1>4. CASE w # NIL
    <2>1. w \in s.handled
      <3>1. Lists(s.windows_vector, s.handled)
        BY DEF Owning, Sys
      <3> QED
        BY <1>1, <1>4, <3>1, FoundIsListed DEF window_get_at_position
    <2>2. PICK queued : queued = (part = "body" \/ w \in Borderless)
      OBVIOUS
    <2>3. PICK e : e = window_event_push(s, w, "MOUSE_CLICK", queued)
      OBVIOUS
    <2>4. t = window_focus(e, w)
      BY <1>1, <1>2, <1>4, <2>2, <2>3 DEF window_click_handler
    <2>5. Stays(s, e)
      BY <2>3, PushStays DEF Owning, Sys
    <2>6. Beside(s, e) /\ Owning(e)
      BY <2>5, StaysBeside, OwningBeside
    <2>7. e.handled = s.handled /\ e.focused = s.focused
      BY <2>5 DEF Stays, Kept
    <2>8. PICK u : /\ u = window_focus(e, w)
                   /\ Kept(e, u) /\ Lists(u.children, e.handled) /\ u.focused = w
                   /\ e.focused # w /\ w \in e.handled =>
                         u.current \in e.alive /\ w \in Of(e.windows[u.current])
      BY <2>6, FocusKeeps DEF Owning
    <2>9. u = t
      BY <2>4, <2>8
    <2>10. Beside(e, u)
      BY <2>6, <2>8, KeptBeside
    <2>11. Beside(s, u)
      BY <2>6, <2>10, BesideBeside
    <2>12. ASSUME s.focused # w PROVE Contains(u.windows[u.current], w)
      <3>1. u.current \in e.alive /\ w \in Of(e.windows[u.current]) /\ u.windows = e.windows
        BY <2>1, <2>7, <2>8, <2>12 DEF Kept
      <3>2. Lists(e.windows[u.current], Of(e.windows[u.current]))
        BY <2>6, <3>1 DEF Owning, Sys, Owned
      <3> QED
        BY <3>1, <3>2, ListsMembers
    <2>13. FocusIsCurrents(s, u)
      BY <2>8, <2>12 DEF FocusIsCurrents
    <2> QED
      BY <1>2, <2>9, <2>11, <2>13
  <1> QED
    BY <1>3, <1>4

-----------------------------------------------------------------------------
(* The steps *)

\* A step that leaves the focus, gives it to a window it creates, or gives it
\* to one of the process that is then current.
FocusStep ==
    \A w \in WindowSet :
        ws.focused # w /\ ws'.focused = w /\ w \in ws.created =>
            Contains(ws'.windows[ws'.current], w)

LEMMA StartKeeps ==
    ASSUME Owning(ws), NEW p \in Processes, Start(p)
    PROVE  Owning(ws') /\ ws'.focused = ws.focused
  <1>1. PICK s : s = Entry /\ Owning(s) /\ Stays(ws, s)
    BY EntryOwning
  <1>2. PICK t : t = ws'
    OBVIOUS
  <1>3. p \notin s.started
    BY <1>1 DEF Start, Stays, Kept
  <1>4. t = [s EXCEPT !.started = @ \cup {p}, !.alive = @ \cup {p}, !.current = p]
    BY <1>1, <1>2 DEF Start
  <1>5. /\ DOMAIN t = Fields /\ t.started = s.started \cup {p} /\ t.alive = s.alive \cup {p}
        /\ t.windows_vector = s.windows_vector /\ t.children = s.children
        /\ t.windows = s.windows /\ t.handled = s.handled /\ t.created = s.created
        /\ t.focused = s.focused
    BY <1>1, <1>4 DEF Owning, Sys, Fields
  <1>6. Owned(s.alive \cup {p}, s.windows, s.handled)
    BY <1>1, <1>3, OwnedStarted DEF Owning, Sys
  <1>7. Sys(t, t.handled, t.handled)
    BY <1>1, <1>5, <1>6 DEF Owning, Sys
  <1>8. Owning(t)
    BY <1>1, <1>5, <1>7 DEF Owning
  <1> QED
    BY <1>1, <1>2, <1>5, <1>8 DEF Stays

LEMMA TerminateKeeps ==
    ASSUME Owning(ws), NEW p \in Processes, process_terminate(p)
    PROVE  Owning(ws') /\ ws'.focused = ws.focused
  <1>1. PICK s : s = Entry /\ Owning(s) /\ Stays(ws, s)
    BY EntryOwning
  <1>2. PICK q : ws' = process_close_windows(Unlinked(s, p, q), p)
    BY <1>1 DEF process_terminate
  <1>3. p \in s.alive
    BY <1>1 DEF process_terminate, Stays, Kept
  <1>4. PICK u : u = Unlinked(s, p, q)
    OBVIOUS
  <1>5. /\ DOMAIN u = Fields /\ u.alive = s.alive \ {p} /\ u.started = s.started
        /\ u.windows_vector = s.windows_vector /\ u.children = s.children
        /\ u.windows = s.windows /\ u.handled = s.handled /\ u.created = s.created
        /\ u.focused = s.focused
    BY <1>1, <1>4 DEF Unlinked, Owning, Sys, Fields
  <1>6. PICK S : S = s.handled \ Of(s.windows[p])
    OBVIOUS
  <1>7. Owned(u.alive, u.windows, S)
    BY <1>1, <1>3, <1>5, <1>6, OwnedUnlinked DEF Owning, Sys
  <1>8. Sys(u, s.handled, S)
    BY <1>1, <1>5, <1>6, <1>7 DEF Owning, Sys
  <1>9. Lists(s.windows[p], Of(s.windows[p])) /\ Of(s.windows[p]) \subseteq s.handled
    BY <1>1, <1>3 DEF Owning, Sys, Owned
  <1>10. /\ Lists(u.windows[p], s.handled \ S) /\ S \subseteq s.handled
         /\ u.handled = s.handled /\ p \in Processes \ u.alive
    <2>1. s.handled \ S = Of(s.windows[p])
      BY <1>6, <1>9
    <2> QED
      BY <1>5, <1>6, <1>9, <2>1
  <1>11. PICK t : /\ t = process_close_windows(u, p)
                  /\ Sys(t, S, S) /\ t.handled = S
                  /\ t.created = u.created /\ t.alive = u.alive
                  /\ t.started = u.started /\ t.focused = u.focused
                  /\ \A r \in Processes \ u.alive : t.windows[r] = u.windows[r]
    <2>1. PICK V : V = s.handled
      OBVIOUS
    <2>2. /\ Sys(u, V, S) /\ u.handled = V /\ p \in Processes \ u.alive
          /\ Lists(u.windows[p], V \ S) /\ S \subseteq V
      BY <1>8, <1>10, <2>1
    <2>3. \E t : /\ t = process_close_windows(u, p)
                 /\ Sys(t, S, S) /\ t.handled = S
                 /\ t.created = u.created /\ t.alive = u.alive
                 /\ t.started = u.started /\ t.focused = u.focused
                 /\ \A r \in Processes \ u.alive : t.windows[r] = u.windows[r]
      BY <2>2, CloseAllKeeps, ZenonT(40)
    <2> QED
      BY <2>3
  <1>12. Owning(t)
    BY <1>1, <1>5, <1>10, <1>11 DEF Owning
  <1> QED
    BY <1>1, <1>2, <1>4, <1>5, <1>11, <1>12 DEF Stays

LEMMA CreateOwns ==
    ASSUME Owning(ws), NEW p \in Processes, NEW w \in WindowSet, Create(p, w)
    PROVE  Owning(ws') /\ FocusStep
  <1>1. PICK s : s = Entry /\ Owning(s) /\ Stays(ws, s)
    BY EntryOwning
  <1>2. PICK memory \in BOOLEAN : ws' = process_window_create(s, p, w, memory)
    BY <1>1 DEF Create
  <1>3. p \in s.alive /\ w \notin s.created /\ w \notin ws.created
    BY <1>1 DEF Create, Stays, Kept
  <1>4. PICK t, T : /\ t = process_window_create(s, p, w, memory)
                    /\ Sys(t, T, T) /\ t.handled = T /\ T \subseteq t.created
                    /\ t.alive = s.alive /\ t.started = s.started
                    /\ t.focused = w
                    /\ \A q \in Processes \ s.alive : t.windows[q] = s.windows[q]
    BY <1>1, <1>3, CreateKeeps DEF Owning
  <1>5. Beside(s, t)
    BY <1>4 DEF Beside
  <1>6. Owning(t)
    BY <1>1, <1>5, OwningBeside
  <1> QED
    BY <1>2, <1>3, <1>4, <1>6 DEF FocusStep

LEMMA ClickKeeps ==
    ASSUME Owning(ws), NEW pl, NEW part, Click(pl, part)
    PROVE  Owning(ws') /\ FocusStep
  <1>1. PICK s : s = Entry /\ Owning(s) /\ Stays(ws, s)
    BY EntryOwning
  <1>2. PICK g : /\ g = graphics_mouse_click_handler(s, pl, part)
                 /\ Beside(s, g) /\ g.focused = s.focused
    BY <1>1, GraphicsClickBeside
  <1>3. Owning(g)
    BY <1>1, <1>2, OwningBeside
  <1>4. PICK t : /\ t = window_click_handler(g, pl, part)
                 /\ Beside(g, t) /\ FocusIsCurrents(g, t)
    BY <1>3, WindowClickBeside
  <1>5. ws' = t
    BY <1>1, <1>2, <1>4 DEF Click
  <1>6. Owning(t)
    BY <1>3, <1>4, OwningBeside
  <1> QED
    BY <1>1, <1>2, <1>4, <1>5, <1>6 DEF FocusStep, FocusIsCurrents, Stays

LEMMA MoveKeeps ==
    ASSUME Owning(ws), NEW pl, Move(pl)
    PROVE  Owning(ws') /\ ws'.focused = ws.focused
  <1>1. PICK s : s = Entry /\ Owning(s) /\ Stays(ws, s) /\ s.moving = ws.moving
    BY EntryOwning
  <1>2. PICK m : m = [s EXCEPT !.place[s.moving] = pl]
    OBVIOUS
  <1>3. Stays(s, m)
    <2>1. DOMAIN s = Fields
      BY <1>1 DEF Owning, Sys
    <2> QED
      BY <1>2, <2>1 DEF Stays, Kept, Fields
  <1>4. Owning(m)
    BY <1>1, <1>3, StaysBeside, OwningBeside
  <1>5. PICK t : t = window_bring_to_top(m, s.moving)
    OBVIOUS
  <1>6. Kept(m, t) /\ Lists(t.children, m.handled) /\ t.focused = m.focused
    BY <1>4, <1>5, BringKeeps DEF Owning, Sys
  <1>7. Owning(t)
    BY <1>4, <1>6, KeptBeside, OwningBeside
  <1>8. ws' = t
    BY <1>1, <1>2, <1>5 DEF Move
  <1> QED
    BY <1>1, <1>3, <1>6, <1>7, <1>8 DEF Stays

LEMMA KeyKeeps ==
    ASSUME Owning(ws), KeyPressed
    PROVE  Owning(ws') /\ ws'.focused = ws.focused
  <1>1. PICK s : s = Entry /\ Owning(s) /\ Stays(ws, s)
    BY EntryOwning
  <1>2. PICK k : k = Send(s, ws.current, "KEY", NIL)
    OBVIOUS
  <1>3. Stays(s, k)
    BY <1>1, <1>2, SendStays DEF Owning, Sys
  <1>4. Owning(k)
    BY <1>1, <1>3, StaysBeside, OwningBeside
  <1>5. PICK t : t = window_event_push(k, ws.focused, "KEY_PRESS", TRUE)
    OBVIOUS
  <1>6. Stays(k, t)
    BY <1>4, <1>5, PushStays DEF Owning, Sys
  <1>7. Owning(t)
    BY <1>4, <1>6, StaysBeside, OwningBeside
  <1>8. ws' = k \/ ws' = t
    BY <1>1, <1>2, <1>5 DEF KeyPressed
  <1> QED
    BY <1>1, <1>3, <1>4, <1>6, <1>7, <1>8 DEF Stays

LEMMA WindowsStep ==
    ASSUME Owning(ws), [WindowsNext]_ws
    PROVE  Owning(ws') /\ FocusStep
  <1>1. ASSUME ws'.focused = ws.focused PROVE FocusStep
    BY <1>1 DEF FocusStep
  <1>2. CASE \E p \in Processes : Start(p)
    BY <1>1, <1>2, StartKeeps
  <1>3. CASE \E p \in Processes : process_terminate(p)
    BY <1>1, <1>3, TerminateKeeps
  <1>4. CASE \E p \in Processes, w \in WindowSet : Create(p, w)
    BY <1>4, CreateOwns
  <1>5. CASE \E pl \in Places : Move(pl)
    BY <1>1, <1>5, MoveKeeps
  <1>6. CASE \E pl \in Places, part \in Parts : Click(pl, part)
    BY <1>6, ClickKeeps
  <1>7. CASE KeyPressed
    BY <1>1, <1>7, KeyKeeps
  <1>8. CASE UNCHANGED ws
    BY <1>1, <1>8
  <1> QED
    BY <1>2, <1>3, <1>4, <1>5, <1>6, <1>7, <1>8 DEF WindowsNext

LEMMA WindowsStart == WindowsInit => Owning(ws)
  <1> SUFFICES ASSUME WindowsInit PROVE Owning(ws)
    OBVIOUS
  <1>1. PICK p \in Processes :
            /\ DOMAIN ws = Fields
            /\ ws.windows_vector = <<>> /\ ws.children = <<>> /\ ws.handled = {}
            /\ ws.created = {} /\ ws.alive = {p} /\ ws.started = {p}
            /\ ws.windows = [q \in Processes |-> <<>>]
    BY DEF WindowsInit, Fields
  <1>2. \A q \in Processes : Lists(ws.windows[q], {}) /\ Of(ws.windows[q]) = {}
    BY <1>1, EmptyLists, ListsOf
  <1>3. Owned(ws.alive, ws.windows, {})
    BY <1>1, <1>2 DEF Owned
  <1>4. Sys(ws, {}, {})
    BY <1>1, <1>3, EmptyLists DEF Sys
  <1> QED
    BY <1>1, <1>4 DEF Owning

LEMMA OwningIsOwned == Owning(ws) => WindowsAreOwned
  <1> SUFFICES ASSUME Owning(ws) PROVE WindowsAreOwned
    OBVIOUS
  <1> DEFINE H == ws.handled
             Open == ToSet(ws.windows_vector)
  <1>1. /\ Lists(ws.windows_vector, H) /\ Lists(ws.children, H)
        /\ Owned(ws.alive, ws.windows, H)
    BY DEF Owning, Sys
  <1>2. ASSUME NEW q, NEW V, Lists(q, V) PROVE ToSet(q) = V
    BY <1>2 DEF Lists, ToSet
  <1>3. Open = H /\ ToSet(ws.children) = Open
    BY <1>1, <1>2
  <1>4. Len(ws.children) = Cardinality(Open) /\ Len(ws.windows_vector) = Cardinality(Open)
    BY <1>1, <1>3, ListsLength
  <1>5. ASSUME NEW w \in H
        PROVE  Cardinality({p \in ws.alive : Contains(ws.windows[p], w)}) = 1
    <2>1. PICK p \in ws.alive : w \in Of(ws.windows[p])
      BY <1>1 DEF Owned
    <2>2. \A q \in ws.alive : Contains(ws.windows[q], w) <=> w \in Of(ws.windows[q])
      BY <1>1, ListsMembers DEF Owned
    <2>3. {q \in ws.alive : Contains(ws.windows[q], w)} = {p}
      BY <1>1, <2>1, <2>2 DEF Owned
    <2> QED
      BY <2>3, FS_Singleton
  <1>6. ASSUME NEW p \in ws.alive
        PROVE  /\ ToSet(ws.windows[p]) \subseteq H
               /\ Len(ws.windows[p]) = Cardinality(ToSet(ws.windows[p]))
    <2>1. Lists(ws.windows[p], Of(ws.windows[p])) /\ Of(ws.windows[p]) \subseteq H
      BY <1>1 DEF Owned
    <2>2. ToSet(ws.windows[p]) = Of(ws.windows[p])
      BY <1>2, <2>1
    <2> QED
      BY <2>1, <2>2, ListsLength
  <1> QED
    BY <1>3, <1>4, <1>5, <1>6 DEF WindowsAreOwned

-----------------------------------------------------------------------------
(* Theorems about windows *)

\* Whatever is clicked, moved, closed, started and terminated, in whatever
\* order, and whichever creation of a window runs out of memory: the window
\* list, the screen and the processes agree on the windows there are, and each
\* is one running process's (graphics/window.c, task/process.c).
THEOREM InputWindowsAreOwned == WindowsSpec => []WindowsAreOwned
  <1>1. Owning(ws) /\ [WindowsNext]_ws => Owning(ws')
    BY WindowsStep
  <1>2. Owning(ws)' <=> Owning(ws')
    OBVIOUS
  <1> QED
    BY WindowsStart, <1>1, <1>2, OwningIsOwned, PTL DEF WindowsSpec

\* The window a click gives the focus is one of the process that gets the keys
\* from then on (window_focus and process_window_event_handler).
THEOREM InputFocusMovesKeys == WindowsSpec => FocusMovesKeys
  <1>1. Owning(ws) /\ [WindowsNext]_ws => Owning(ws') /\ [FocusStep]_ws
    BY WindowsStep
  <1>2. Owning(ws)' <=> Owning(ws')
    OBVIOUS
  <1> QED
    BY WindowsStart, <1>1, <1>2, PTL DEF WindowsSpec, FocusMovesKeys, FocusStep

-----------------------------------------------------------------------------
(* Keys *)

\* Going round by at most the size stays in the ring.
LEMMA AfterInCells ==
    ASSUME NEW h \in Cells, NEW i \in 0 .. RingSize PROVE After(h, i) \in Cells
BY KeyRingAssumption DEF Cells, After

\* Going round by less than the size meets each cell once.
LEMMA AfterInjective ==
    ASSUME NEW h \in Cells, NEW i \in Cells, NEW j \in Cells, After(h, i) = After(h, j)
    PROVE  i = j
BY KeyRingAssumption DEF Cells, After

\* One step after i steps, or before them, is i + 1 steps.
LEMMA AfterNext ==
    ASSUME NEW h \in Cells, NEW i \in Cells
    PROVE  /\ After(After(h, i), 1) = After(h, i + 1)
           /\ After(After(h, 1), i) = IF i + 1 = RingSize THEN h ELSE After(h, i + 1)
BY KeyRingAssumption DEF Cells, After

\* n - 1 steps after the first are n steps.
LEMMA AfterFirst ==
    ASSUME NEW h \in Cells, NEW n \in 1 .. RingSize
    PROVE  After(After(h, 1), n - 1) = After(h, n)
BY KeyRingAssumption DEF Cells, After

\* No step, or a whole round, leads back.
LEMMA AfterRound == ASSUME NEW h \in Cells
                    PROVE  After(h, 0) = h /\ After(h, RingSize) = h
BY KeyRingAssumption DEF Cells, After

\* The operations keep the ring's type.
LEMMA RingTypes ==
    ASSUME NEW r \in Rings
    PROVE  /\ EmptyRing \in Rings
           /\ \A c \in Chars : Pushed(r, c) \in Rings
           /\ Popped(r) \in Rings
<1> RingSize \in Nat \ {0}
  BY KeyRingAssumption
<1>1. 0 \in Cells /\ 1 \in 0 .. RingSize
  BY DEF Cells
<1>2. r.head \in Cells /\ r.tail \in Cells /\ r.buffer \in [Cells -> Chars \cup {ZERO}]
  BY DEF Rings
<1>3. After(r.head, 1) \in Cells /\ After(r.tail, 1) \in Cells
  BY <1>1, <1>2, AfterInCells
<1>4. EmptyRing \in Rings
  BY <1>1 DEF EmptyRing, Rings
<1>5. ASSUME NEW c \in Chars PROVE Pushed(r, c) \in Rings
  BY <1>2, <1>3 DEF Pushed, Rings
<1>6. Popped(r) \in Rings
  BY <1>2, <1>3 DEF Popped, Rings
<1> QED
  BY <1>4, <1>5, <1>6

\* keyboard_push on a ring that is not full: the key is the last to come out.
LEMMA PushedHolds ==
    ASSUME NEW r \in Rings, NEW q \in Seq(Chars), NEW c \in Chars,
           Holds(r, q), Len(q) < RingSize
    PROVE  Holds(Pushed(r, c), Append(q, c))
<1> DEFINE s == Pushed(r, c)
<1> DEFINE p == Append(q, c)
<1>a. RingSize \in Nat \ {0} /\ Len(q) \in Cells
  BY KeyRingAssumption DEF Cells
<1>1. r.head \in Cells /\ r.tail \in Cells /\ r.buffer \in [Cells -> Chars \cup {ZERO}]
  BY DEF Rings
<1>2. r.tail = After(r.head, Len(q))
  BY DEF Holds
<1>3. /\ s.head = r.head /\ s.tail = After(r.tail, 1)
      /\ s.buffer = [r.buffer EXCEPT ![r.tail] = c]
  BY <1>1 DEF Pushed, Rings
<1>4. Len(p) = Len(q) + 1 /\ \A i \in 0 .. Len(q) : p[i + 1] = IF i < Len(q) THEN q[i + 1] ELSE c
  BY <1>a
<1>5. Len(p) <= RingSize
  BY <1>4, <1>a
<1>6. s.tail = After(s.head, Len(p))
  BY <1>1, <1>2, <1>3, <1>4, <1>a, AfterNext
<1>7. ASSUME NEW i \in Cells
      PROVE  s.buffer[After(s.head, i)] = IF i < Len(p) THEN p[i + 1] ELSE ZERO
  <2>1. After(r.head, i) \in Cells
    <3>1. i \in 0 .. RingSize
      BY <1>a DEF Cells
    <3> QED
      BY <3>1, <1>1, AfterInCells
  <2>2. r.buffer[After(r.head, i)] = IF i < Len(q) THEN q[i + 1] ELSE ZERO
    BY DEF Holds
  <2>3. CASE i = Len(q)
    <3>1. s.buffer[After(s.head, i)] = c
      BY <2>3, <1>1, <1>2, <1>3
    <3>2. i < Len(p) /\ p[i + 1] = c
      BY <2>3, <1>4, <1>a DEF Cells
    <3> QED
      BY <3>1, <3>2
  <2>4. CASE i # Len(q)
    <3>1. After(r.head, i) # r.tail
      BY <2>4, <1>1, <1>2, <1>a, AfterInjective
    <3>2. s.buffer[After(s.head, i)] = r.buffer[After(r.head, i)]
      BY <3>1, <2>1, <1>1, <1>3
    <3>3. (i < Len(p)) = (i < Len(q)) /\ (i < Len(q) => p[i + 1] = q[i + 1])
      BY <2>4, <1>4, <1>a DEF Cells
    <3> QED
      BY <3>2, <3>3, <2>2
  <2> QED
    BY <2>3, <2>4
<1> QED
  BY <1>5, <1>6, <1>7 DEF Holds

\* keyboard_pop: the key that comes out is the oldest, and the others follow.
LEMMA PoppedHolds ==
    ASSUME NEW r \in Rings, NEW q \in Seq(Chars), Holds(r, q), NextKey(r) # ZERO
    PROVE  q # <<>> /\ NextKey(r) = Head(q) /\ Holds(Popped(r), Tail(q))
<1> DEFINE s == Popped(r)
<1>a. RingSize \in Nat \ {0} /\ 0 \in Cells /\ RingSize - 1 \in Cells
  BY KeyRingAssumption DEF Cells
<1>1. r.head \in Cells /\ r.tail \in Cells /\ r.buffer \in [Cells -> Chars \cup {ZERO}]
  BY DEF Rings
<1>2. NextKey(r) = IF 0 < Len(q) THEN q[1] ELSE ZERO
  <2>1. r.buffer[After(r.head, 0)] = IF 0 < Len(q) THEN q[0 + 1] ELSE ZERO
    BY <1>a DEF Holds
  <2> QED
    BY <2>1, <1>1, AfterRound DEF NextKey
<1>3. q # <<>> /\ NextKey(r) = Head(q) /\ Len(q) > 0 /\ Len(q) <= RingSize
  BY <1>2 DEF Holds
<1>4. Len(Tail(q)) = Len(q) - 1 /\ \A i \in 1 .. Len(q) - 1 : Tail(q)[i] = q[i + 1]
  BY <1>3
<1>5. /\ s.head = After(r.head, 1) /\ s.tail = r.tail
      /\ s.buffer = [r.buffer EXCEPT ![r.head] = ZERO]
  BY <1>1 DEF Popped, Rings
<1>6. s.tail = After(s.head, Len(Tail(q)))
  <2>1. r.tail = After(r.head, Len(q))
    BY DEF Holds
  <2>2. After(After(r.head, 1), Len(q) - 1) = After(r.head, Len(q))
    <3>1. Len(q) \in 1 .. RingSize
      BY <1>3, <1>a
    <3> QED
      BY <3>1, <1>1, AfterFirst
  <2> QED
    BY <2>1, <2>2, <1>4, <1>5
<1>7. ASSUME NEW i \in Cells
      PROVE  s.buffer[After(s.head, i)] = IF i < Len(Tail(q)) THEN Tail(q)[i + 1] ELSE ZERO
  <2>1. CASE i = RingSize - 1
    <3>1. After(s.head, i) = r.head
      <4>1. i + 1 = RingSize
        BY <2>1, <1>a
      <4> QED
        BY <4>1, <1>1, <1>5, AfterNext
    <3>2. s.buffer[After(s.head, i)] = ZERO
      BY <3>1, <1>1, <1>5
    <3>3. ~(i < Len(Tail(q)))
      BY <2>1, <1>3, <1>4, <1>a
    <3> QED
      BY <3>2, <3>3
  <2>2. CASE i # RingSize - 1
    <3>1. i + 1 \in Cells /\ i + 1 # 0
      BY <2>2, <1>a DEF Cells
    <3>2. After(s.head, i) = After(r.head, i + 1)
      BY <2>2, <3>1, <1>1, <1>5, <1>a, AfterNext DEF Cells
    <3>3. After(r.head, i + 1) # r.head /\ After(r.head, i + 1) \in Cells
      BY <3>1, <1>1, <1>a DEF Cells, After
    <3>4. s.buffer[After(s.head, i)] = r.buffer[After(r.head, i + 1)]
      BY <3>2, <3>3, <1>1, <1>5
    <3>5. r.buffer[After(r.head, i + 1)] = IF i + 1 < Len(q) THEN q[i + 2] ELSE ZERO
      <4>1. r.buffer[After(r.head, i + 1)] = IF i + 1 < Len(q) THEN q[(i + 1) + 1] ELSE ZERO
        BY <3>1 DEF Holds
      <4>2. (i + 1) + 1 = i + 2
        BY DEF Cells
      <4> QED
        BY <4>1, <4>2
    <3>6. (i + 1 < Len(q)) = (i < Len(Tail(q)))
      BY <1>3, <1>4 DEF Cells
    <3>7. i < Len(Tail(q)) => Tail(q)[i + 1] = q[i + 2]
      BY <1>3, <1>4 DEF Cells
    <3> QED
      BY <3>4, <3>5, <3>6, <3>7
  <2> QED
    BY <2>1, <2>2
<1>8. Len(Tail(q)) <= RingSize
  BY <1>3, <1>4, <1>a
<1> QED
  BY <1>3, <1>6, <1>7, <1>8 DEF Holds

-----------------------------------------------------------------------------

\* The invariant: the type of what the keys' part reads, and KeysInOrder.
KInv == ring \in Rings /\ typed \in Seq(Chars) /\ overrun \in BOOLEAN /\ KeysInOrder

\* A new process has no key waiting and an empty ring.
LEMMA InitKInv == Init => KInv
<1> SUFFICES ASSUME Init PROVE KInv
  OBVIOUS
<1>a. RingSize \in Nat \ {0} /\ 0 \in Cells
  BY KeyRingAssumption DEF Cells
<1>1. ring = EmptyRing /\ typed = <<>> /\ overrun = FALSE
  BY DEF Init
<1>2. EmptyRing \in Rings
  BY <1>a DEF EmptyRing, Rings
<1>3. \A i \in Cells : After(0, i) \in Cells
  BY <1>a, AfterInCells DEF Cells
<1>4. Holds(EmptyRing, <<>>)
  BY <1>a, <1>3, AfterRound DEF Holds, EmptyRing
<1>5. typed \in Seq(Chars) /\ overrun \in BOOLEAN
  <2>1. typed \in Seq(Chars)
    BY <1>1
  <2>2. overrun \in BOOLEAN
    BY <1>1
  <2> QED
    BY <2>1, <2>2
<1>6. KeysInOrder
  BY <1>1, <1>4 DEF KeysInOrder
<1> QED
  BY <1>1, <1>2, <1>5, <1>6 DEF KInv

\* Every step keeps it: a push on a full ring sets overrun, and a pop that finds
\* a key takes the oldest.
LEMMA NextKInv == KInv /\ [Next]_vars => KInv'
<1> SUFFICES ASSUME KInv, [Next]_vars PROVE KInv'
  OBVIOUS
<1> USE DEF KInv
<1>a. RingSize \in Nat \ {0}
  BY KeyRingAssumption
<1>1. ASSUME NEW c \in Chars, keyboard_push(c) PROVE KInv'
  <2>1. ring' = Pushed(ring, c) /\ typed' = Append(typed, c)
    BY <1>1 DEF keyboard_push
  <2>2. overrun' = (overrun \/ Len(typed) >= RingSize)
    BY <1>1 DEF keyboard_push
  <2>3. ring' \in Rings /\ typed' \in Seq(Chars) /\ overrun' \in BOOLEAN
    <3>1. ring' \in Rings
      BY <2>1, RingTypes
    <3>2. typed' \in Seq(Chars)
      BY <2>1
    <3>3. overrun' \in BOOLEAN
      BY <2>2
    <3> QED
      BY <3>1, <3>2, <3>3
  <2>4. ASSUME ~overrun' PROVE Holds(ring', typed')
    <3>1. ~overrun /\ Len(typed) < RingSize
      <4>1. ~(overrun \/ Len(typed) >= RingSize)
        BY <2>2, <2>4
      <4>2. ~overrun /\ ~(Len(typed) >= RingSize)
        BY <4>1
      <4>3. Len(typed) \in Nat
        OBVIOUS
      <4> QED
        BY <4>2, <4>3, <1>a
    <3> QED
      BY <3>1, <2>1, PushedHolds DEF KeysInOrder
  <2> QED
    BY <2>3, <2>4 DEF KeysInOrder
<1>2. ASSUME keyboard_pop PROVE KInv'
  <2>1. NextKey(ring) # ZERO /\ ring' = Popped(ring) /\ overrun' = overrun
    BY <1>2 DEF keyboard_pop
  <2>2. typed' = IF typed = <<>> THEN <<>> ELSE Tail(typed)
    BY <1>2 DEF keyboard_pop
  <2>3. ring' \in Rings /\ typed' \in Seq(Chars) /\ overrun' \in BOOLEAN
    BY <2>1, <2>2, RingTypes
  <2>4. ASSUME ~overrun' PROVE Holds(ring', typed')
    BY <2>1, <2>2, <2>4, PoppedHolds DEF KeysInOrder
  <2> QED
    BY <2>3, <2>4 DEF KeysInOrder
<1>3. CASE KeysStay
  BY <1>3 DEF KeysStay, KeysInOrder
<1>4. ASSUME NEW e \in Events, process_push_window_event(e) PROVE KInv'
  BY <1>4, <1>3 DEF process_push_window_event
<1>5. CASE process_pop_window_event
  BY <1>5, <1>3 DEF process_pop_window_event
<1>6. CASE UNCHANGED vars
  BY <1>6, <1>3 DEF vars, KeysStay
<1> QED
  BY <1>1, <1>2, <1>4, <1>5, <1>6 DEF Next

\* keyboard_push and keyboard_pop are a queue for every size of the ring, every
\* set of keys and every order of calls, until a key is pushed on a full ring.
THEOREM InputKeysInOrder == Spec => []KeysInOrder
<1>1. KInv => KeysInOrder
  BY DEF KInv
<1> QED
  BY <1>1, InitKInv, NextKInv, PTL DEF Spec

\* The count of a process's events is a natural number, so it is never taken
\* below zero.
THEOREM InputTypes == Spec => []TypeOK
<1> DEFINE EInv == slot \in Events \cup {NULL} /\ total_unpopped \in Nat
<1>1. Init => EInv
  BY DEF Init
<1>2. EInv /\ [Next]_vars => EInv'
  BY DEF Next, vars, keyboard_push, keyboard_pop, process_push_window_event,
         process_pop_window_event, EventsStay
<1>3. KInv /\ EInv => TypeOK
  BY DEF KInv, TypeOK
<1> QED
  BY <1>1, <1>2, <1>3, InitKInv, NextKInv, PTL DEF Spec
=============================================================================
