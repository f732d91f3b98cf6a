--------------------------- MODULE SchedulerProofs ---------------------------
(***************************************************************************)
(* Proofs about module Scheduler, for every number of tasks: the list the  *)
(* scheduler walks and the process table name the same processes, and      *)
(* nobody runs with another's registers.  That the list stays whole is     *)
(* proved where no task ends with neighbours on both sides: where one      *)
(* does, it is false.                                                      *)
(***************************************************************************)
EXTENDS Scheduler, FiniteSetTheorems, WellFoundedInduction, TLAPS

-----------------------------------------------------------------------------
(* Walks along next pointers *)

LEMMA LeastNumber ==
    ASSUME NEW S, S \subseteq Nat, S # {}
    PROVE  \E x \in S : \A y \in S : x <= y
<1>1. PICK x \in S : \A y \in S : ~ (<<y, x>> \in OpToRel(<, Nat))
  BY NatLessThanWellFounded, WFMin
<1>2. \A y \in S : ~ (y < x)
  BY <1>1 DEF OpToRel
<1>3. QED
  BY <1>2

\* p is the walk from start along n up to its k-th step.
Walk(p, start, n, k) ==
    p = [i \in 0 .. k |->
            IF i = 0 THEN start ELSE IF p[i - 1] = NULL THEN NULL ELSE n[p[i - 1]]]

LEMMA WalkExists ==
    ASSUME NEW start, NEW n, NEW k \in Nat
    PROVE  \E p : Walk(p, start, n, k)
<1> DEFINE Lacking == {j \in Nat : ~ \E p : Walk(p, start, n, j)}
<1>1. 0 \notin Lacking
  <2>1. Walk([i \in 0 .. 0 |-> start], start, n, 0)
    BY DEF Walk
  <2>2. QED
    BY <2>1
<1>2. ASSUME NEW j \in Lacking, \A y \in Lacking : j <= y
      PROVE  FALSE
  <2>1. j \in Nat /\ j # 0 /\ j - 1 \in Nat /\ j - 1 \notin Lacking
    BY <1>1, <1>2
  <2>2. PICK p : Walk(p, start, n, j - 1)
    BY <2>1
  <2> DEFINE q == [i \in 0 .. j |->
                     IF i = j THEN IF p[j - 1] = NULL THEN NULL ELSE n[p[j - 1]] ELSE p[i]]
  <2>3. \A i \in 0 .. j - 1 : q[i] = p[i]
    BY <2>1
  <2>4. \A i \in 0 .. j - 1 : p[i] = IF i = 0 THEN start
                                   ELSE IF p[i - 1] = NULL THEN NULL ELSE n[p[i - 1]]
    BY <2>1, <2>2 DEF Walk
  <2>5. \A i \in 0 .. j : q[i] = IF i = 0 THEN start
                               ELSE IF q[i - 1] = NULL THEN NULL ELSE n[q[i - 1]]
    BY <2>1, <2>3, <2>4
  <2>6. Walk(q, start, n, j)
    BY <2>5 DEF Walk
  <2>7. QED
    BY <2>6
<1>3. Lacking = {}
  BY <1>2, LeastNumber
<1>4. QED
  BY <1>3

LEMMA PathWalks ==
    ASSUME NEW start, NEW n
    PROVE  /\ DOMAIN Path(start, n) = 0 .. Cardinality(Tasks)
           /\ Path(start, n)[0] = start
           /\ \A i \in 1 .. Cardinality(Tasks) :
                 Path(start, n)[i] = IF Path(start, n)[i - 1] = NULL THEN NULL
                                     ELSE n[Path(start, n)[i - 1]]
<1>1. Cardinality(Tasks) \in Nat
  BY SchedulerAssumption, FS_CardinalityType
<1>2. \E p : Walk(p, start, n, Cardinality(Tasks))
  BY <1>1, WalkExists
<1>3. Path(start, n) = CHOOSE p : Walk(p, start, n, Cardinality(Tasks))
  BY DEF Path, Walk
<1>4. Walk(Path(start, n), start, n, Cardinality(Tasks))
  BY <1>2, <1>3
<1>5. QED
  BY <1>1, <1>4 DEF Walk

\* A walk that starts among S and whose steps stay among S never leaves S.
LEMMA PathStays ==
    ASSUME NEW start, NEW n, NEW S, start \in S \cup {NULL},
           \A x \in S : n[x] \in S \cup {NULL}
    PROVE  \A i \in 0 .. Cardinality(Tasks) : Path(start, n)[i] \in S \cup {NULL}
<1> DEFINE Astray == {i \in 0 .. Cardinality(Tasks) : Path(start, n)[i] \notin S \cup {NULL}}
<1>1. Cardinality(Tasks) \in Nat
  BY SchedulerAssumption, FS_CardinalityType
<1>2. ASSUME NEW j \in Astray, \A y \in Astray : j <= y
      PROVE  FALSE
  <2> DEFINE path == Path(start, n)
  <2>1. j # 0
    BY <1>2, PathWalks
  <2>2. j - 1 \in 0 .. Cardinality(Tasks) /\ j \in 1 .. Cardinality(Tasks) /\ j - 1 \notin Astray
    BY <1>1, <1>2, <2>1
  <2>3. path[j - 1] \in S \cup {NULL}
    BY <2>2
  <2>4. path[j] = IF path[j - 1] = NULL THEN NULL ELSE n[path[j - 1]]
    BY <2>2, PathWalks
  <2>5. path[j] \notin S \cup {NULL}
    BY <1>2
  <2>6. QED
    BY <2>3, <2>4, <2>5
<1>3. Astray \subseteq Nat
  BY <1>1
<1>4. Astray = {}
  BY <1>2, <1>3, LeastNumber
<1>5. QED
  BY <1>4

-----------------------------------------------------------------------------
(* The list as a chain *)

\* L is the list from h to t along nx, its prev pointers are right except the
\* first one's, which may be that of a task long gone, and it holds A.
Chain(m, L, h, t, nx, pv, A) ==
    /\ \A i, j \in 1 .. m : L[i] = L[j] => i = j
    /\ A = {L[i] : i \in 1 .. m}
    /\ h = L[1] /\ t = L[m] /\ nx[L[m]] = NULL
    /\ \A i \in 1 .. m - 1 : nx[L[i]] = L[i + 1] /\ pv[L[i + 1]] = L[i]
    /\ pv[L[1]] \notin A

Chained(h, t, nx, pv, A) ==
    \E m \in Nat \ {0} : \E L \in [1 .. m -> Tasks] : Chain(m, L, h, t, nx, pv, A)

LEMMA ChainEnds ==
    ASSUME NEW h, NEW t, NEW nx, NEW pv, NEW A, Chained(h, t, nx, pv, A)
    PROVE  /\ A \subseteq Tasks /\ h \in A /\ t \in A
           /\ nx[t] = NULL /\ pv[h] \notin A
           /\ \A x \in A : nx[x] \in A \cup {NULL}
<1>0. PICK m \in Nat \ {0} : \E L \in [1 .. m -> Tasks] : Chain(m, L, h, t, nx, pv, A)
  BY DEF Chained
<1>1. PICK L \in [1 .. m -> Tasks] : Chain(m, L, h, t, nx, pv, A)
  BY <1>0
<1>2. 1 \in 1 .. m /\ m \in 1 .. m
  OBVIOUS
<1>3. A \subseteq Tasks /\ h \in A /\ t \in A /\ nx[t] = NULL /\ pv[h] \notin A
  <2>1. A = {L[i] : i \in 1 .. m} /\ h = L[1] /\ t = L[m]
    BY <1>1 DEF Chain
  <2>2. A \subseteq Tasks /\ h \in A /\ t \in A
    BY <1>2, <2>1
  <2>3. nx[t] = NULL /\ pv[h] \notin A
    BY <1>1 DEF Chain
  <2>4. QED
    BY <2>2, <2>3
<1>4. ASSUME NEW x \in A
      PROVE  nx[x] \in A \cup {NULL}
  <2>1. PICK i \in 1 .. m : x = L[i]
    BY <1>1 DEF Chain
  <2>2. CASE i = m
    BY <1>1, <2>1, <2>2 DEF Chain
  <2>3. CASE i # m
    <3>1. i \in 1 .. m - 1 /\ i + 1 \in 1 .. m
      BY <2>3
    <3>2. QED
      BY <1>1, <2>1, <3>1 DEF Chain
  <2>4. QED
    BY <2>2, <2>3
<1>5. QED
  BY <1>3, <1>4

\* No task is on the list twice, so the list is no longer than there are tasks.
LEMMA ChainIsShort ==
    ASSUME NEW m \in Nat \ {0}, NEW L \in [1 .. m -> Tasks],
           \A i, j \in 1 .. m : L[i] = L[j] => i = j
    PROVE  m <= Cardinality(Tasks)
<1>1. IsFiniteSet(1 .. m) /\ Cardinality(1 .. m) = m
  BY FS_Interval
<1>2. IsFiniteSet(Tasks) /\ Cardinality(Tasks) \in Nat
  BY SchedulerAssumption, FS_CardinalityType
<1>3. ~ (Cardinality(Tasks) < Cardinality(1 .. m))
  BY <1>1, <1>2, FS_PigeonHole
<1>4. QED
  BY <1>1, <1>2, <1>3

\* The walk from the first task meets the list in order, and then NULL.
LEMMA ChainIsWalked ==
    ASSUME NEW m \in Nat \ {0}, NEW L \in [1 .. m -> Tasks],
           NEW h, NEW t, NEW nx, NEW pv, NEW A, Chain(m, L, h, t, nx, pv, A)
    PROVE  \A i \in 0 .. Cardinality(Tasks) :
              Path(h, nx)[i] = IF i < m THEN L[i + 1] ELSE NULL
<1> DEFINE path == Path(h, nx)
           Wrong == {i \in 0 .. Cardinality(Tasks) :
                        path[i] # IF i < m THEN L[i + 1] ELSE NULL}
<1>1. Cardinality(Tasks) \in Nat
  BY SchedulerAssumption, FS_CardinalityType
<1>2. ASSUME NEW k \in Wrong, \A y \in Wrong : k <= y
      PROVE  FALSE
  <2>1. k # 0
    BY <1>2, PathWalks DEF Chain
  <2>2. k - 1 \in 0 .. Cardinality(Tasks) /\ k \in 1 .. Cardinality(Tasks) /\ k - 1 \notin Wrong
    BY <1>1, <1>2, <2>1
  <2>3. path[k] = IF path[k - 1] = NULL THEN NULL ELSE nx[path[k - 1]]
    BY <2>2, PathWalks
  <2>4. path[k - 1] = IF k - 1 < m THEN L[k] ELSE NULL
    BY <1>1, <2>2
  <2>5. CASE k < m
    <3>1. k \in 1 .. m - 1
      BY <2>2, <2>5
    <3>2. L[k] \in Tasks /\ nx[L[k]] = L[k + 1] /\ path[k - 1] = L[k]
      BY <2>4, <3>1 DEF Chain
    <3>3. path[k] = L[k + 1]
      BY <2>3, <3>2, SchedulerAssumption
    <3>4. QED
      BY <2>5, <3>3
  <2>6. CASE k = m
    <3>1. L[m] \in Tasks /\ nx[L[m]] = NULL /\ path[k - 1] = L[m]
      BY <2>4, <2>6 DEF Chain
    <3>2. path[k] = NULL
      BY <2>3, <3>1, SchedulerAssumption
    <3>3. QED
      BY <2>6, <3>2
  <2>7. CASE k > m
    <3>1. path[k] = NULL
      BY <2>2, <2>3, <2>4, <2>7
    <3>2. QED
      BY <2>7, <3>1
  <2>8. QED
    BY <2>2, <2>5, <2>6, <2>7
<1>3. Wrong \subseteq Nat
  BY <1>1
<1>4. Wrong = {}
  BY <1>2, <1>3, LeastNumber
<1>5. QED
  BY <1>4

\* So the walk meets exactly the tasks of the list.
LEMMA ChainIsList ==
    ASSUME NEW h, NEW t, NEW nx, NEW pv, NEW A, Chained(h, t, nx, pv, A)
    PROVE  {Path(h, nx)[i] : i \in 0 .. Cardinality(Tasks)} \ {NULL} = A
<1>0. PICK m \in Nat \ {0} : \E L \in [1 .. m -> Tasks] : Chain(m, L, h, t, nx, pv, A)
  BY DEF Chained
<1>1. PICK L \in [1 .. m -> Tasks] : Chain(m, L, h, t, nx, pv, A)
  BY <1>0
<1>2. m <= Cardinality(Tasks)
  BY <1>1, ChainIsShort DEF Chain
<1>3. Cardinality(Tasks) \in Nat
  BY SchedulerAssumption, FS_CardinalityType
<1> DEFINE path == Path(h, nx)
<1>4. \A i \in 0 .. Cardinality(Tasks) : path[i] = IF i < m THEN L[i + 1] ELSE NULL
  BY <1>1, ChainIsWalked
<1> HIDE DEF path
<1>5. ASSUME NEW x \in A
      PROVE  x # NULL /\ \E i \in 0 .. Cardinality(Tasks) : path[i] = x
  <2>1. PICK j \in 1 .. m : x = L[j]
    BY <1>1 DEF Chain
  <2>2. j - 1 \in 0 .. Cardinality(Tasks) /\ j - 1 < m
    BY <1>2, <1>3
  <2>3. path[j - 1] = L[j]
    BY <1>4, <2>2
  <2>4. QED
    BY <2>1, <2>2, <2>3, SchedulerAssumption
<1>6. ASSUME NEW i \in 0 .. Cardinality(Tasks), path[i] # NULL
      PROVE  path[i] \in A
  <2>1. i < m /\ path[i] = L[i + 1]
    BY <1>4, <1>6
  <2>2. i + 1 \in 1 .. m
    BY <2>1
  <2>3. QED
    BY <1>1, <2>1, <2>2 DEF Chain
<1>7. {path[i] : i \in 0 .. Cardinality(Tasks)} \ {NULL} = A
  BY <1>5, <1>6
<1>8. QED
  BY <1>7 DEF path

\* task_new: the list with p behind its last task.
LEMMA ChainAppend ==
    ASSUME NEW h, NEW t, NEW nx \in [Tasks -> Tasks \cup {NULL}],
           NEW pv \in [Tasks -> Tasks \cup {NULL}], NEW A,
           Chained(h, t, nx, pv, A),
           NEW p \in Tasks, p \notin A, nx[p] = NULL, pv[h] # p
    PROVE  Chained(h, p, [nx EXCEPT ![t] = p], [pv EXCEPT ![p] = t], A \cup {p})
<1>0. PICK m \in Nat \ {0} : \E L \in [1 .. m -> Tasks] : Chain(m, L, h, t, nx, pv, A)
  BY DEF Chained
<1>1. PICK L \in [1 .. m -> Tasks] : Chain(m, L, h, t, nx, pv, A)
  BY <1>0
<1> DEFINE M == [i \in 1 .. m + 1 |-> IF i = m + 1 THEN p ELSE L[i]]
           nx2 == [nx EXCEPT ![t] = p]
           pv2 == [pv EXCEPT ![p] = t]
<1>2. M \in [1 .. m + 1 -> Tasks] /\ m + 1 \in Nat \ {0}
  OBVIOUS
<1>3. M[m + 1] = p /\ \A i \in 1 .. m : M[i] = L[i] /\ L[i] \in A /\ L[i] \in Tasks /\ i # m + 1
  BY <1>1 DEF Chain
<1>4. 1 \in 1 .. m /\ m \in 1 .. m /\ L[m] = t /\ L[1] = h
  BY <1>1 DEF Chain
<1> HIDE DEF M
<1>5. ASSUME NEW i \in 1 .. m + 1, NEW j \in 1 .. m + 1, M[i] = M[j]
      PROVE  i = j
  <2>1. i \in 1 .. m \/ i = m + 1
    OBVIOUS
  <2>2. j \in 1 .. m \/ j = m + 1
    OBVIOUS
  <2>3. CASE i \in 1 .. m /\ j \in 1 .. m
    BY <1>1, <1>3, <1>5, <2>3 DEF Chain
  <2>4. QED
    BY <1>3, <1>5, <2>1, <2>2, <2>3
<1>6. A \cup {p} = {M[i] : i \in 1 .. m + 1}
  <2>1. A = {L[i] : i \in 1 .. m}
    BY <1>1 DEF Chain
  <2>2. \A x \in A : \E i \in 1 .. m + 1 : x = M[i]
    BY <1>3, <2>1
  <2>3. m + 1 \in 1 .. m + 1
    OBVIOUS
  <2>4. ASSUME NEW i \in 1 .. m + 1
        PROVE  M[i] \in A \cup {p}
    <3>1. i \in 1 .. m \/ i = m + 1
      OBVIOUS
    <3>2. QED
      BY <1>3, <3>1
  <2>5. QED
    BY <1>3, <2>2, <2>3, <2>4
<1>7. ASSUME NEW i \in 1 .. m
      PROVE  nx2[M[i]] = M[i + 1] /\ pv2[M[i + 1]] = M[i]
  <2>1. CASE i = m
    <3>1. t \in Tasks /\ nx2[t] = p /\ pv2[p] = t
      BY <1>3, <1>4
    <3>2. M[i] = t /\ M[i + 1] = p
      BY <1>3, <1>4, <2>1
    <3>3. QED
      BY <3>1, <3>2
  <2>2. CASE i # m
    <3>1. i \in 1 .. m - 1 /\ i + 1 \in 1 .. m
      BY <2>2
    <3>2. nx[L[i]] = L[i + 1] /\ pv[L[i + 1]] = L[i]
      BY <1>1, <3>1 DEF Chain
    <3>3. L[i] # t /\ L[i + 1] # p
      BY <1>1, <1>3, <1>4, <2>2, <3>1 DEF Chain
    <3>4. nx2[L[i]] = L[i + 1] /\ pv2[L[i + 1]] = L[i]
      BY <1>3, <3>1, <3>2, <3>3
    <3>5. QED
      BY <1>3, <3>1, <3>4
  <2>3. QED
    BY <2>1, <2>2
<1>8. M[1] = h /\ pv2[h] = pv[h] /\ pv[h] \notin A /\ h # p /\ t # p
  <2>1. M[1] = h /\ h # p /\ h \in Tasks /\ t # p
    BY <1>3, <1>4
  <2>2. pv[h] \notin A
    BY <1>1, <1>4 DEF Chain
  <2>3. QED
    BY <2>1, <2>2
<1>9. nx2[p] = NULL
  BY <1>8
<1>10. (m + 1) - 1 = m
  OBVIOUS
<1>11. Chain(m + 1, M, h, p, nx2, pv2, A \cup {p})
  BY <1>3, <1>5, <1>6, <1>7, <1>8, <1>9, <1>10 DEF Chain
<1>12. QED
  BY <1>2, <1>11 DEF Chained

\* task_list_remove of the first task.
LEMMA ChainWithoutFirst ==
    ASSUME NEW h, NEW t, NEW nx, NEW pv, NEW A, NEW n2,
           Chained(h, t, nx, pv, A), h # t, \A x \in A : n2[x] = nx[x]
    PROVE  Chained(nx[h], t, n2, pv, A \ {h})
<1>0. PICK m \in Nat \ {0} : \E L \in [1 .. m -> Tasks] : Chain(m, L, h, t, nx, pv, A)
  BY DEF Chained
<1>1. PICK L \in [1 .. m -> Tasks] : Chain(m, L, h, t, nx, pv, A)
  BY <1>0
<1>2. m # 1 /\ m - 1 \in Nat \ {0}
  BY <1>1 DEF Chain
<1> DEFINE M == [i \in 1 .. m - 1 |-> L[i + 1]]
<1>3. \A i \in 1 .. m - 1 : i + 1 \in 1 .. m /\ i \in 1 .. m /\ M[i] = L[i + 1]
  OBVIOUS
<1>4. M \in [1 .. m - 1 -> Tasks]
  BY <1>3
<1> HIDE DEF M
<1>5. \A i \in 1 .. m : L[i] \in A
  BY <1>1 DEF Chain
<1>6. \A i, j \in 1 .. m - 1 : M[i] = M[j] => i = j
  <2>1. \A i, j \in 1 .. m - 1 : L[i + 1] = L[j + 1] => i + 1 = j + 1
    BY <1>1, <1>3 DEF Chain
  <2>2. QED
    BY <1>3, <2>1
<1>7. A \ {h} = {M[i] : i \in 1 .. m - 1}
  <2>1. A = {L[i] : i \in 1 .. m} /\ h = L[1] /\ \A i, j \in 1 .. m : L[i] = L[j] => i = j
    BY <1>1 DEF Chain
  <2>2. 1 \in 1 .. m
    OBVIOUS
  <2>3. ASSUME NEW x \in A \ {h}
        PROVE  \E i \in 1 .. m - 1 : x = M[i]
    <3>1. PICK j \in 1 .. m : x = L[j]
      BY <2>1
    <3>2. j # 1
      BY <2>1, <3>1
    <3>3. j - 1 \in 1 .. m - 1 /\ (j - 1) + 1 = j
      BY <3>2
    <3>4. QED
      BY <1>3, <3>1, <3>3
  <2>4. ASSUME NEW i \in 1 .. m - 1
        PROVE  M[i] \in A \ {h}
    <3>1. i + 1 \in 1 .. m /\ i + 1 # 1 /\ M[i] = L[i + 1]
      BY <1>3
    <3>2. QED
      BY <1>5, <2>1, <2>2, <3>1
  <2>5. QED
    BY <2>3, <2>4
<1>8. ASSUME NEW i \in 1 .. (m - 1) - 1
      PROVE  n2[M[i]] = M[i + 1] /\ pv[M[i + 1]] = M[i]
  <2>1. i \in 1 .. m - 1 /\ i + 1 \in 1 .. m - 1
    BY <1>2
  <2>2. nx[L[i + 1]] = L[(i + 1) + 1] /\ pv[L[(i + 1) + 1]] = L[i + 1]
    BY <1>1, <2>1 DEF Chain
  <2>3. L[i + 1] \in A
    BY <1>3, <1>5, <2>1
  <2>4. QED
    BY <1>3, <2>1, <2>2, <2>3
<1>9. M[1] = nx[h] /\ M[m - 1] = t /\ n2[t] = NULL /\ pv[M[1]] = h
  <2>1. 1 \in 1 .. m - 1 /\ m - 1 \in 1 .. m - 1 /\ (m - 1) + 1 = m /\ m \in 1 .. m
    BY <1>2
  <2>2. L[1] = h /\ L[m] = t /\ nx[L[1]] = L[1 + 1] /\ pv[L[1 + 1]] = L[1] /\ nx[L[m]] = NULL
    BY <1>1, <2>1 DEF Chain
  <2>3. t \in A
    BY <1>5, <2>1, <2>2
  <2>4. QED
    BY <1>3, <2>1, <2>2, <2>3
<1>10. Chain(m - 1, M, nx[h], t, n2, pv, A \ {h})
  BY <1>6, <1>7, <1>8, <1>9 DEF Chain
<1>11. QED
  BY <1>2, <1>4, <1>10 DEF Chained

\* task_list_remove of the last task.
LEMMA ChainWithoutLast ==
    ASSUME NEW h, NEW t, NEW nx \in [Tasks -> Tasks \cup {NULL}], NEW pv, NEW A,
           Chained(h, t, nx, pv, A), h # t
    PROVE  /\ pv[t] \in A \ {t}
           /\ Chained(h, pv[t], [nx EXCEPT ![pv[t]] = NULL], pv, A \ {t})
<1>0. PICK m \in Nat \ {0} : \E L \in [1 .. m -> Tasks] : Chain(m, L, h, t, nx, pv, A)
  BY DEF Chained
<1>1. PICK L \in [1 .. m -> Tasks] : Chain(m, L, h, t, nx, pv, A)
  BY <1>0
<1>2. m # 1 /\ m - 1 \in Nat \ {0}
  BY <1>1 DEF Chain
<1> DEFINE M == [i \in 1 .. m - 1 |-> L[i]]
           n2 == [nx EXCEPT ![pv[t]] = NULL]
<1>3. \A i \in 1 .. m - 1 : i + 1 \in 1 .. m /\ i \in 1 .. m /\ M[i] = L[i] /\ i # m
  OBVIOUS
<1>4. M \in [1 .. m - 1 -> Tasks]
  BY <1>3
<1> HIDE DEF M
<1>5. \A i \in 1 .. m : L[i] \in A /\ L[i] \in Tasks
  BY <1>1 DEF Chain
<1>6. \A i, j \in 1 .. m - 1 : M[i] = M[j] => i = j
  BY <1>1, <1>3 DEF Chain
<1>7. 1 \in 1 .. m - 1 /\ m - 1 \in 1 .. m - 1 /\ (m - 1) + 1 = m /\ m \in 1 .. m
  BY <1>2
<1>8. L[1] = h /\ L[m] = t /\ pv[t] = L[m - 1]
  BY <1>1, <1>7 DEF Chain
<1>9. A \ {t} = {M[i] : i \in 1 .. m - 1}
  <2>1. A = {L[i] : i \in 1 .. m} /\ \A i, j \in 1 .. m : L[i] = L[j] => i = j
    BY <1>1 DEF Chain
  <2>2. ASSUME NEW x \in A \ {t}
        PROVE  \E i \in 1 .. m - 1 : x = M[i]
    <3>1. PICK j \in 1 .. m : x = L[j]
      BY <2>1
    <3>2. j # m
      BY <1>8, <3>1
    <3>3. j \in 1 .. m - 1
      BY <3>2
    <3>4. QED
      BY <1>3, <3>1, <3>3
  <2>3. ASSUME NEW i \in 1 .. m - 1
        PROVE  M[i] \in A \ {t}
    BY <1>3, <1>5, <1>7, <1>8, <2>1
  <2>4. QED
    BY <2>2, <2>3
<1>10. pv[t] \in A \ {t} /\ pv[t] \in Tasks /\ M[m - 1] = pv[t] /\ M[1] = h
  BY <1>3, <1>5, <1>7, <1>8, <1>9
<1>11. n2[pv[t]] = NULL
  BY <1>10
<1>12. ASSUME NEW i \in 1 .. (m - 1) - 1
       PROVE  n2[M[i]] = M[i + 1] /\ pv[M[i + 1]] = M[i]
  <2>1. i \in 1 .. m - 1 /\ i + 1 \in 1 .. m - 1 /\ i # m - 1
    BY <1>2
  <2>2. nx[L[i]] = L[i + 1] /\ pv[L[i + 1]] = L[i]
    BY <1>1, <2>1 DEF Chain
  <2>3. M[i] # pv[t]
    BY <1>6, <1>7, <1>10, <2>1
  <2>4. L[i] \in Tasks /\ M[i] = L[i] /\ M[i + 1] = L[i + 1]
    BY <1>3, <1>5, <2>1
  <2>5. n2[M[i]] = nx[M[i]]
    BY <2>3, <2>4
  <2>6. QED
    BY <2>2, <2>4, <2>5
<1>13. pv[M[1]] \notin A \ {t}
  BY <1>1, <1>8, <1>10 DEF Chain
<1> HIDE DEF n2
<1>14. Chain(m - 1, M, h, pv[t], n2, pv, A \ {t})
  BY <1>6, <1>9, <1>10, <1>11, <1>12, <1>13 DEF Chain
<1>15. QED
  BY <1>2, <1>4, <1>10, <1>14 DEF Chained, n2

\* The search finds a task it can walk to, or none.
LEMMA NextAwake ==
    ASSUME NEW c, NEW h, NEW n, NEW sleepers, NEW S,
           c \in S, h \in S \cup {NULL}, \A x \in S : n[x] \in S \cup {NULL}
    PROVE  task_get_next_non_sleeping_task(c, h, n, sleepers) \in S \cup {NULL}
<1> DEFINE start == IF c # NULL /\ n[c] # NULL THEN n[c] ELSE h
           path  == Path(start, n)
           stops == {i \in DOMAIN path : path[i] = NULL \/ path[i] \notin sleepers}
           first == CHOOSE i \in stops : \A j \in stops : i <= j
<1>1. start \in S \cup {NULL}
  OBVIOUS
<1>2. \A i \in 0 .. Cardinality(Tasks) : path[i] \in S \cup {NULL}
  <2> HIDE DEF start
  <2>1. QED
    BY <1>1, PathStays
<1>3. DOMAIN path = 0 .. Cardinality(Tasks)
  BY PathWalks
<1>4. Cardinality(Tasks) \in Nat
  BY SchedulerAssumption, FS_CardinalityType
<1>5. ASSUME stops # {}
      PROVE  path[first] \in S \cup {NULL}
  <2>1. stops \subseteq Nat
    BY <1>3, <1>4
  <2>2. \E i \in stops : \A j \in stops : i <= j
    <3> HIDE DEF stops
    <3>1. QED
      BY <1>5, <2>1, LeastNumber
  <2>3. first \in stops
    <3> HIDE DEF stops
    <3>1. QED
      BY <2>2
  <2>4. first \in 0 .. Cardinality(Tasks)
    BY <1>3, <2>3
  <2>5. QED
    BY <1>2, <2>4
<1>6. task_get_next_non_sleeping_task(c, h, n, sleepers)
        = IF stops = {} THEN NULL ELSE path[first]
  BY DEF task_get_next_non_sleeping_task
<1>7. QED
  BY <1>5, <1>6

-----------------------------------------------------------------------------
(* The process table *)

Members(s) == {t \in Tasks : \E i \in DOMAIN s : s[i] = t}

\* A table of processes, each in one slot.
Table(s) ==
    /\ s \in Seq(Tasks \cup {NULL})
    /\ \A i, j \in DOMAIN s : s[i] = s[j] /\ i # j => s[i] = NULL

Holds(s, A) == Table(s) /\ Members(s) = A

LEMMA AliveIsMembers == Alive = Members(slots)
BY DEF Alive, Members

LEMMA LeastIndex ==
    ASSUME NEW S, S \subseteq Nat, S # {}
    PROVE  (CHOOSE i \in S : \A j \in S : i <= j) \in S
BY LeastNumber

\* process_unlink: the table without p.
LEMMA SlotFreed ==
    ASSUME NEW s, Table(s), NEW p
    PROVE  Holds([i \in DOMAIN s |-> IF s[i] = p THEN NULL ELSE s[i]], Members(s) \ {p})
<1> DEFINE s2 == [i \in DOMAIN s |-> IF s[i] = p THEN NULL ELSE s[i]]
<1>1. s \in Seq(Tasks \cup {NULL}) /\ DOMAIN s = 1 .. Len(s) /\ Len(s) \in Nat
  BY DEF Table
<1>2. \A i \in DOMAIN s : s[i] \in Tasks \cup {NULL}
  BY <1>1
<1>3. s2 \in [1 .. Len(s) -> Tasks \cup {NULL}]
  BY <1>1, <1>2
<1>4. s2 \in Seq(Tasks \cup {NULL})
  BY <1>1, <1>3
<1>5. DOMAIN s2 = DOMAIN s /\ \A i \in DOMAIN s : s2[i] = IF s[i] = p THEN NULL ELSE s[i]
  OBVIOUS
<1> HIDE DEF s2
<1>6. \A i, j \in DOMAIN s2 : s2[i] = s2[j] /\ i # j => s2[i] = NULL
  BY <1>5 DEF Table
<1>7. Members(s2) = Members(s) \ {p}
  BY <1>5, SchedulerAssumption DEF Members
<1>8. QED
  BY <1>4, <1>6, <1>7 DEF Holds, Table, s2

\* process_unlink of the last process.
LEMMA SlotsCleared ==
    ASSUME NEW s, Table(s)
    PROVE  Table([i \in DOMAIN s |-> NULL])
<1> DEFINE s2 == [i \in DOMAIN s |-> NULL]
<1>1. DOMAIN s = 1 .. Len(s) /\ Len(s) \in Nat
  BY DEF Table
<1>2. s2 \in [1 .. Len(s) -> Tasks \cup {NULL}]
  BY <1>1
<1>3. s2 \in Seq(Tasks \cup {NULL})
  BY <1>1, <1>2
<1>4. \A i \in DOMAIN s2 : s2[i] = NULL
  OBVIOUS
<1>5. QED
  BY <1>3, <1>4 DEF Table

LEMMA SlotReused ==
    ASSUME NEW s, Table(s), NEW i \in DOMAIN s, s[i] = NULL,
           NEW p \in Tasks \cup {NULL}, p \notin Members(s)
    PROVE  Holds([s EXCEPT ![i] = p], (Members(s) \cup {p}) \ {NULL})
<1> DEFINE s2 == [s EXCEPT ![i] = p]
<1>1. s \in Seq(Tasks \cup {NULL}) /\ DOMAIN s = 1 .. Len(s) /\ Len(s) \in Nat
  BY DEF Table
<1>2. s2 \in Seq(Tasks \cup {NULL})
  BY <1>1
<1>3. DOMAIN s2 = DOMAIN s /\ s2[i] = p /\ \A j \in DOMAIN s : j # i => s2[j] = s[j]
  BY <1>1
<1> HIDE DEF s2
<1>4. \A j, k \in DOMAIN s2 : s2[j] = s2[k] /\ j # k => s2[j] = NULL
  <2>1. \A j \in DOMAIN s : s[j] = p => p = NULL
    BY DEF Members
  <2>2. QED
    BY <1>3, <2>1 DEF Table
<1>5. Members(s2) = (Members(s) \cup {p}) \ {NULL}
  BY <1>3, SchedulerAssumption DEF Members
<1>6. QED
  BY <1>2, <1>4, <1>5 DEF Holds, Table, s2

LEMMA SlotMade ==
    ASSUME NEW s, Table(s), NEW p \in Tasks \cup {NULL}, p \notin Members(s)
    PROVE  Holds(Append(s, p), (Members(s) \cup {p}) \ {NULL})
<1> DEFINE s2 == Append(s, p)
           i  == Len(s) + 1
<1>1. s \in Seq(Tasks \cup {NULL}) /\ DOMAIN s = 1 .. Len(s) /\ Len(s) \in Nat
  BY DEF Table
<1>2. s2 \in Seq(Tasks \cup {NULL}) /\ DOMAIN s2 = 1 .. i
  BY <1>1
<1>3. s2[i] = p /\ \A j \in DOMAIN s : s2[j] = s[j]
  BY <1>1
<1>4. DOMAIN s2 = DOMAIN s \cup {i} /\ i \notin DOMAIN s
  BY <1>1, <1>2
<1> HIDE DEF s2, i
<1>5. \A j, k \in DOMAIN s2 : s2[j] = s2[k] /\ j # k => s2[j] = NULL
  <2>1. \A j \in DOMAIN s : s[j] = p => p = NULL
    BY DEF Members
  <2>2. QED
    BY <1>3, <1>4, <2>1 DEF Table
<1>6. Members(s2) = (Members(s) \cup {p}) \ {NULL}
  BY <1>3, <1>4, SchedulerAssumption DEF Members
<1>7. QED
  BY <1>2, <1>5, <1>6 DEF Holds, Table, s2

\* process_get_free_slot: a process gets a slot of its own.
LEMMA SlotIsTaken ==
    ASSUME Table(slots), NEW p \in Tasks \cup {NULL}, p \notin Alive
    PROVE  Holds(SlotTaken(p), (Alive \cup {p}) \ {NULL})
<1>1. slots \in Seq(Tasks \cup {NULL}) /\ DOMAIN slots = 1 .. Len(slots) /\ Len(slots) \in Nat
  BY DEF Table
<1>2. CASE FreeSlots = {}
  <2>1. process_get_free_slot > Len(slots)
    BY <1>1, <1>2 DEF process_get_free_slot
  <2>2. SlotTaken(p) = Append(slots, p)
    BY <2>1 DEF SlotTaken
  <2>3. QED
    BY <2>2, AliveIsMembers, SlotMade
<1>3. CASE FreeSlots # {}
  <2>1. process_get_free_slot \in FreeSlots
    <3>1. FreeSlots \subseteq Nat
      BY <1>1 DEF FreeSlots
    <3>2. (CHOOSE i \in FreeSlots : \A j \in FreeSlots : i <= j) \in FreeSlots
      BY <1>3, <3>1, LeastIndex
    <3>3. QED
      BY <1>3, <3>2 DEF process_get_free_slot
  <2>2. process_get_free_slot \in DOMAIN slots /\ slots[process_get_free_slot] = NULL
    BY <2>1 DEF FreeSlots
  <2>3. ~ (process_get_free_slot > Len(slots))
    BY <1>1, <2>2
  <2>4. SlotTaken(p) = [slots EXCEPT ![process_get_free_slot] = p]
    BY <2>3 DEF SlotTaken
  <2>5. PICK i \in DOMAIN slots : i = process_get_free_slot /\ slots[i] = NULL
    BY <2>2
  <2>6. Holds([slots EXCEPT ![i] = p], (Members(slots) \cup {p}) \ {NULL})
    BY <2>5, AliveIsMembers, SlotReused
  <2>7. QED
    BY <2>4, <2>5, <2>6, AliveIsMembers
<1>4. QED
  BY <1>2, <1>3

\* process_switch_to_any finds a process if there is one.
LEMMA FirstProcessExists ==
    ASSUME NEW s, Table(s), Members(s) # {}
    PROVE  FirstProcess(s) \in Members(s)
<1> DEFINE used == {i \in DOMAIN s : s[i] # NULL}
           first == CHOOSE i \in used : \A j \in used : i <= j
<1>1. DOMAIN s \subseteq Nat /\ \A i \in DOMAIN s : s[i] \in Tasks \cup {NULL}
  BY DEF Table
<1>2. used # {} /\ used \subseteq Nat
  BY <1>1, SchedulerAssumption DEF Members
<1>3. first \in used
  <2> HIDE DEF used
  <2>1. QED
    BY <1>2, LeastIndex
<1>4. s[first] \in Members(s)
  BY <1>1, <1>3 DEF Members
<1>5. QED
  BY <1>4 DEF FirstProcess

-----------------------------------------------------------------------------
(* The current process exists *)

\* Inductive for all constants: a click, a load and an exit each leave the
\* table's own entries and a current process that is among them.
TableInv ==
    /\ Table(slots)
    /\ cpu # Halted => focus \in Alive

LEMMA PollingIsNotHalted == Polling # Halted
<1>1. SUFFICES ASSUME Polling = Halted
               PROVE  FALSE
  OBVIOUS
<1>2. {NULL, Polling, Halted} = {NULL} \cup {Polling}
  BY <1>1
<1>3. IsFiniteSet({NULL}) /\ Cardinality({NULL}) = 1
  BY FS_Singleton
<1>4. Cardinality({NULL} \cup {Polling}) \in {1, 2}
  BY <1>3, FS_AddElement
<1>5. QED
  BY <1>2, <1>4, SchedulerAssumption

LEMMA AliveIsFinite == IsFiniteSet(Alive)
BY SchedulerAssumption, FS_Subset DEF Alive

\* The end of one of several processes leaves one to be the current one.
LEMMA OthersRemain ==
    ASSUME NEW p, ~LastProcess, Alive # {}
    PROVE  Alive \ {p} # {}
<1>1. SUFFICES ASSUME Alive \ {p} = {}
               PROVE  FALSE
  OBVIOUS
<1>2. Alive = {p}
  BY <1>1
<1>3. Cardinality({p}) = 1
  BY FS_Singleton
<1>4. QED
  BY <1>2, <1>3 DEF LastProcess

\* process_unlink.
LEMMA Unlinked ==
    ASSUME TableInv, cpu # Halted, NEW p, ~LastProcess, process_unlink(p)
    PROVE  Holds(slots', Alive \ {p}) /\ focus' \in Alive \ {p}
<1>1. Holds(slots', Alive \ {p})
  BY SlotFreed, AliveIsMembers DEF process_unlink, TableInv
<1>2. focus \in Alive /\ Alive \ {p} # {}
  BY OthersRemain DEF TableInv
<1>3. CASE focus = p
  <2>1. FirstProcess(slots') \in Members(slots')
    BY <1>1, <1>2, FirstProcessExists DEF Holds
  <2>2. QED
    BY <1>1, <1>3, <2>1 DEF process_unlink, Holds
<1>4. CASE focus # p
  BY <1>1, <1>2, <1>4 DEF process_unlink
<1>5. QED
  BY <1>1, <1>3, <1>4

\* process_load_switch.
LEMMA Loaded ==
    ASSUME TableInv, NEW t \in Tasks, process_load_switch(t)
    PROVE  Holds(slots', Alive \cup {t}) /\ focus' \in Alive \cup {t}
<1>1. t \notin Alive /\ t # NULL /\ NULL \notin Alive
  BY SchedulerAssumption DEF process_load_switch, Unborn, Alive
<1>2. Holds(slots', (Alive \cup {t}) \ {NULL})
  BY <1>1, SlotIsTaken DEF process_load_switch, TableInv
<1>3. (Alive \cup {t}) \ {NULL} = Alive \cup {t}
  BY <1>1
<1>4. QED
  BY <1>2, <1>3 DEF process_load_switch

\* A table that holds A makes A the processes alive after the step.
LEMMA AliveAfter ==
    ASSUME NEW A, Holds(slots', A)
    PROVE  Table(slots') /\ Alive' = A
BY DEF Holds, Alive, Members

LEMMA TableAfter ==
    ASSUME NEW A, Holds(slots', A), focus' \in A
    PROVE  TableInv'
<1>1. Table(slots') /\ Alive' = A
  BY AliveAfter
<1>2. Table(slots)'
  BY <1>1 DEF Table
<1>3. QED
  BY <1>1, <1>2 DEF TableInv

LEMMA TableStep ==
    ASSUME TableInv, [Next]_vars
    PROVE  TableInv'
<1>1. ASSUME UNCHANGED slots, cpu # Halted, focus' \in Alive
      PROVE  TableInv'
  BY <1>1 DEF TableInv, Table, Alive
<1>2. InUserMode => cpu # Halted
  BY SchedulerAssumption DEF InUserMode
<1>3. CASE Tick \/ Sleep
  BY <1>1, <1>2, <1>3 DEF Tick, Sleep, TableInv
<1>4. CASE Poll
  BY <1>1, <1>4, PollingIsNotHalted DEF Poll, TableInv
<1>5. CASE DeviceInterrupt
  BY <1>1, <1>2, <1>5 DEF DeviceInterrupt
<1>6. CASE Exit \/ FaultingCall
  <2>1. InUserMode /\ ~LastProcess /\ process_unlink(current)
    BY <1>6 DEF Exit, FaultingCall, process_terminate
  <2>2. QED
    BY <1>2, <2>1, Unlinked, TableAfter
<1>7. CASE ExitPanics
  <2>1. Table(slots')
    BY <1>7, SlotsCleared DEF ExitPanics, TableInv
  <2>2. cpu' = Halted
    BY <1>7 DEF ExitPanics
  <2>3. QED
    BY <2>1, <2>2 DEF TableInv, Table
<1>8. CASE LoadFails
  <2>1. NULL \notin Alive /\ NULL \in Tasks \cup {NULL}
    BY SchedulerAssumption DEF Alive
  <2>2. Holds(slots', Alive)
    <3>1. Holds(slots', (Alive \cup {NULL}) \ {NULL})
      BY <1>8, <2>1, SlotIsTaken DEF LoadFails, TableInv
    <3>2. (Alive \cup {NULL}) \ {NULL} = Alive
      BY <2>1
    <3>3. QED
      BY <3>1, <3>2
  <2>3. focus' \in Alive
    BY <1>2, <1>8 DEF LoadFails, TableInv
  <2>4. QED
    BY <2>2, <2>3, TableAfter
<1>9. ASSUME NEW t \in Tasks, Wake(t) \/ Load(t) \/ LoadWithoutArguments(t)
      PROVE  TableInv'
  <2>1. CASE Wake(t)
    BY <2>1 DEF Wake, TableInv, Table, Alive
  <2>2. CASE Load(t) \/ LoadWithoutArguments(t)
    <3>1. process_load_switch(t)
      BY <2>2 DEF Load, LoadWithoutArguments
    <3>2. QED
      BY <3>1, Loaded, TableAfter
  <2>3. QED
    BY <1>9, <2>1, <2>2
<1>10. CASE UNCHANGED vars
  BY <1>10 DEF vars, TableInv, Table, Alive
<1>11. QED
  BY <1>3, <1>4, <1>5, <1>6, <1>7, <1>8, <1>9, <1>10 DEF Next

LEMMA TableInit ==
    ASSUME Init
    PROVE  Holds(slots, {CHOOSE u \in Tasks : TRUE}) /\ focus \in Alive
<1> DEFINE t == CHOOSE u \in Tasks : TRUE
<1>1. t \in Tasks
  BY SchedulerAssumption
<1> HIDE DEF t
<1>2. slots = <<t>> /\ focus = t
  BY DEF Init, t
<1>3. Table(slots)
  BY <1>1, <1>2 DEF Table
<1>4. Members(slots) = {t}
  BY <1>1, <1>2 DEF Members
<1>5. QED
  BY <1>2, <1>3, <1>4, AliveIsMembers DEF Holds, t

\* The current process, which keys and exits go by, exists until the kernel
\* panics: process_unlink always finds one to take the place of the one that
\* ends, and a process that is loaded is in the table before it is current.
THEOREM SchedulerFocusExists == Spec => []FocusExists
<1>1. Init => TableInv
  BY TableInit DEF TableInv, Holds
<1>2. TableInv /\ [Next]_vars => TableInv'
  BY TableStep
<1>3. TableInv => FocusExists
  BY DEF TableInv, FocusExists
<1>4. QED
  BY <1>1, <1>2, <1>3, PTL DEF Spec

-----------------------------------------------------------------------------
(* The list, the registers and the processor *)

\* What the tasks among A will resume with.
Registers(sv, ended, A) ==
    /\ sv \in [Tasks -> Tasks \cup {NULL}]
    /\ ended \subseteq Tasks
    /\ \A t \in A : sv[t] \in {t} \cup ended

\* A task not created yet is nobody's predecessor and has no successor; one
\* that has ended may keep both pointers, and be named by them.
Links(nx, pv, sv) ==
    /\ nx \in [Tasks -> Tasks \cup {NULL}]
    /\ pv \in [Tasks -> Tasks \cup {NULL}]
    /\ \A t \in Tasks : pv[t] # NULL => sv[pv[t]] # NULL
    /\ \A t \in Tasks : sv[t] = NULL => nx[t] = NULL

\* Whose program the processor executes while task c is current.
Runs(c, x, ended) == x \in Tasks => x \in {c} \cup ended

ListInv ==
    /\ TableInv
    /\ Registers(saved, faulted, Alive)
    /\ Links(nxt, prv, saved)
    /\ Runs(current, cpu, faulted)
    /\ cpu # Halted => current \in Alive /\ Chained(head, tail, nxt, prv, Alive)

LEMMA UserModeIsNotHalted == InUserMode => cpu # Halted
BY SchedulerAssumption DEF InUserMode

\* interrupt_handler saves the registers of the program that runs.
LEMMA SavesItsOwn ==
    ASSUME ListInv, InUserMode
    PROVE  Registers(SavedState, faulted, Alive) /\ Links(nxt, prv, SavedState)
<1>1. cpu \in Tasks /\ current \in Tasks /\ cpu \in {current} \cup faulted /\ cpu # NULL
  BY UserModeIsNotHalted, SchedulerAssumption DEF ListInv, Runs, InUserMode, Alive
<1>2. /\ saved \in [Tasks -> Tasks \cup {NULL}] /\ faulted \subseteq Tasks
      /\ \A t \in Alive : saved[t] \in {t} \cup faulted
  BY DEF ListInv, Registers
<1>3. Alive \subseteq Tasks
  BY DEF Alive
<1>4. /\ SavedState \in [Tasks -> Tasks \cup {NULL}]
      /\ \A t \in Tasks : SavedState[t] = IF t = current THEN cpu ELSE saved[t]
  BY <1>1, <1>2 DEF SavedState
<1>5. Registers(SavedState, faulted, Alive)
  BY <1>1, <1>2, <1>3, <1>4 DEF Registers
<1>6. \A t \in Tasks : SavedState[t] = NULL => saved[t] = NULL
  BY <1>1, <1>4
<1>7. Links(nxt, prv, saved)
  BY DEF ListInv
<1>8. Links(nxt, prv, SavedState)
  BY <1>6, <1>7 DEF Links
<1>9. QED
  BY <1>5, <1>8

\* task_next runs one of the tasks on the list, with that task's registers, or
\* none.
LEMMA RunsOneOf ==
    ASSUME NEW c, NEW sleepers, NEW registers, NEW A, NEW ended,
           task_next(c, sleepers, registers), c \in A,
           Chained(head', tail', nxt', prv', A), Registers(registers, ended, A)
    PROVE  current' \in A /\ Runs(current', cpu', ended)
<1> DEFINE t == task_get_next_non_sleeping_task(c, head', nxt', sleepers)
<1>1. A \subseteq Tasks /\ head' \in A /\ \A x \in A : nxt'[x] \in A \cup {NULL}
  BY ChainEnds
<1>2. t \in A \cup {NULL}
  BY <1>1, NextAwake
<1>3. IF t = NULL THEN current' = c /\ cpu' = Polling
      ELSE current' = t /\ cpu' = registers[t]
  BY DEF task_next
<1> HIDE DEF t
<1>4. CASE t = NULL
  BY <1>3, <1>4, SchedulerAssumption DEF Runs
<1>5. CASE t # NULL
  <2>1. t \in A /\ registers[t] \in {t} \cup ended
    BY <1>2, <1>5 DEF Registers
  <2>2. QED
    BY <1>3, <1>5, <2>1 DEF Runs
<1>6. QED
  BY <1>4, <1>5

\* Fewer are alive, more have ended in the middle of a call.
LEMMA RegistersOfFewer ==
    ASSUME NEW sv, NEW ended, NEW A, Registers(sv, ended, A),
           NEW B \in SUBSET A, NEW more \in SUBSET Tasks, ended \subseteq more
    PROVE  Registers(sv, more, B)
BY DEF Registers

\* A step that leaves all parts right leaves the invariant.
LEMMA ListAfter ==
    ASSUME NEW A, TableInv', Alive' = A,
           Registers(saved', faulted', A), Links(nxt', prv', saved'),
           Runs(current', cpu', faulted'),
           cpu' # Halted => current' \in A /\ Chained(head', tail', nxt', prv', A)
    PROVE  ListInv'
<1>1. Registers(saved, faulted, Alive)'
  BY DEF Registers
<1>2. Links(nxt, prv, saved)'
  BY DEF Links
<1>3. Runs(current, cpu, faulted)'
  BY DEF Runs
<1>4. (cpu # Halted => current \in Alive /\ Chained(head, tail, nxt, prv, Alive))'
  BY DEF Chained, Chain
<1>5. QED
  BY <1>1, <1>2, <1>3, <1>4 DEF ListInv

LEMMA TickKeepsList ==
    ASSUME ListInv, TableInv', Tick \/ Sleep
    PROVE  ListInv'
<1>1. /\ InUserMode /\ saved' = SavedState
      /\ UNCHANGED <<head, tail, nxt, prv, slots, faulted>>
      /\ \E sleepers : task_next(current, sleepers, saved')
  BY DEF Tick, Sleep
<1>2. PICK sleepers : task_next(current, sleepers, saved')
  BY <1>1
<1>3. Alive' = Alive
  BY <1>1 DEF Alive
<1>4. Registers(saved', faulted', Alive) /\ Links(nxt', prv', saved')
  BY <1>1, SavesItsOwn
<1>5. current \in Alive /\ Chained(head', tail', nxt', prv', Alive)
  BY <1>1, UserModeIsNotHalted DEF ListInv
<1>6. current' \in Alive /\ Runs(current', cpu', faulted')
  BY <1>2, <1>4, <1>5, RunsOneOf
<1>7. QED
  BY <1>3, <1>4, <1>5, <1>6, ListAfter

LEMMA PollKeepsList ==
    ASSUME ListInv, TableInv', Poll
    PROVE  ListInv'
<1>1. /\ UNCHANGED <<head, tail, nxt, prv, saved, slots, faulted>>
      /\ task_next(current, asleep, saved)
      /\ cpu # Halted
  BY PollingIsNotHalted DEF Poll
<1>2. Alive' = Alive
  BY <1>1 DEF Alive
<1>3. Registers(saved, faulted', Alive) /\ Links(nxt', prv', saved')
  BY <1>1 DEF ListInv
<1>4. current \in Alive /\ Chained(head', tail', nxt', prv', Alive)
  BY <1>1 DEF ListInv
<1>5. current' \in Alive /\ Runs(current', cpu', faulted')
  BY <1>1, <1>3, <1>4, RunsOneOf
<1>6. QED
  BY <1>1, <1>2, <1>3, <1>4, <1>5, ListAfter

\* A device interrupt, or a load that fails: the same program goes on.
LEMMA GoingOnKeepsList ==
    ASSUME ListInv, TableInv', Alive' = Alive, InUserMode, saved' = SavedState,
           UNCHANGED <<head, tail, nxt, prv, current, cpu, faulted>>
    PROVE  ListInv'
<1>1. Registers(saved', faulted', Alive) /\ Links(nxt', prv', saved')
  BY SavesItsOwn
<1>2. current' \in Alive /\ Chained(head', tail', nxt', prv', Alive)
  BY UserModeIsNotHalted DEF ListInv
<1>3. Runs(current', cpu', faulted')
  BY DEF ListInv
<1>4. QED
  BY <1>1, <1>2, <1>3, ListAfter

\* A task that wakes, or nothing at all.
LEMMA IdleKeepsList ==
    ASSUME ListInv, TableInv',
           UNCHANGED <<head, tail, nxt, prv, current, saved, slots, cpu, faulted>>
    PROVE  ListInv'
<1>1. Alive' = Alive
  BY DEF Alive
<1>2. /\ Registers(saved', faulted', Alive) /\ Links(nxt', prv', saved')
      /\ Runs(current', cpu', faulted')
  BY DEF ListInv
<1>3. cpu' # Halted => current' \in Alive /\ Chained(head', tail', nxt', prv', Alive)
  BY DEF ListInv
<1>4. QED
  BY <1>1, <1>2, <1>3, ListAfter

LEMMA PanicKeepsList ==
    ASSUME ListInv, TableInv', ExitPanics
    PROVE  ListInv'
<1>1. /\ InUserMode /\ saved' = SavedState /\ cpu' = Halted
      /\ UNCHANGED <<nxt, prv, faulted>>
      /\ slots' = [i \in DOMAIN slots |-> NULL]
  BY DEF ExitPanics
<1>2. Alive' = {}
  BY <1>1, SchedulerAssumption DEF Alive
<1>3. Registers(saved', faulted', Alive) /\ Links(nxt', prv', saved')
  BY <1>1, SavesItsOwn
<1>4. Registers(saved', faulted', {})
  BY <1>3 DEF Registers
<1>5. Runs(current', cpu', faulted')
  BY <1>1, SchedulerAssumption DEF Runs
<1>6. QED
  BY <1>1, <1>2, <1>3, <1>4, <1>5, ListAfter

\* Load and LoadWithoutArguments: a new task behind the last one.
LEMMA LoadKeepsList ==
    ASSUME ListInv, TableInv', NEW t \in Tasks, InUserMode, process_load_switch(t),
           saved' = [SavedState EXCEPT ![t] = t], UNCHANGED faulted,
           \/ current' = t /\ cpu' = t
           \/ UNCHANGED <<current, cpu>>
    PROVE  ListInv'
<1> DEFINE A == Alive \cup {t}
<1>1. /\ t \notin Alive /\ saved[t] = NULL /\ t # NULL
      /\ TableInv /\ task_new(t)
  BY SchedulerAssumption DEF process_load_switch, Unborn, ListInv
<1>2. Alive' = A
  <2>1. Holds(slots', A)
    BY <1>1, Loaded
  <2>2. QED
    BY <2>1, AliveAfter
<1>3. /\ current \in Alive /\ Chained(head, tail, nxt, prv, Alive)
      /\ Runs(current, cpu, faulted) /\ Links(nxt, prv, saved)
      /\ faulted \subseteq Tasks
  BY UserModeIsNotHalted DEF ListInv, Registers
<1>4. Registers(SavedState, faulted, Alive) /\ Links(nxt, prv, SavedState)
  BY SavesItsOwn
<1>5. /\ Alive \subseteq Tasks /\ head \in Alive /\ tail \in Alive
      /\ head # NULL
  BY <1>3, ChainEnds, SchedulerAssumption
<1>6. nxt[t] = NULL /\ prv[head] # t
  BY <1>1, <1>3, <1>5 DEF Links
<1>7. nxt \in [Tasks -> Tasks \cup {NULL}] /\ prv \in [Tasks -> Tasks \cup {NULL}]
  BY <1>3 DEF Links
<1>8. /\ nxt' = [nxt EXCEPT ![tail] = t]
      /\ prv' = [prv EXCEPT ![t] = tail]
      /\ tail' = t /\ head' = head
  BY <1>1, <1>5 DEF task_new
<1>9. Chained(head', tail', nxt', prv', A)
  <2>1. Chained(head, t, [nxt EXCEPT ![tail] = t], [prv EXCEPT ![t] = tail], A)
    BY <1>1, <1>3, <1>6, <1>7, ChainAppend
  <2>2. QED
    BY <1>8, <2>1
<1>10. /\ SavedState \in [Tasks -> Tasks \cup {NULL}]
       /\ \A x \in Alive : SavedState[x] \in {x} \cup faulted
  BY <1>4 DEF Registers
<1>11. /\ saved' \in [Tasks -> Tasks \cup {NULL}]
       /\ \A x \in Tasks : saved'[x] = IF x = t THEN t ELSE SavedState[x]
  BY <1>10
<1>12. Registers(saved', faulted', A)
  BY <1>3, <1>5, <1>10, <1>11 DEF Registers
<1>13. saved'[tail] # NULL /\ \A x \in Tasks : SavedState[x] # NULL => saved'[x] # NULL
  BY <1>1, <1>3, <1>5, <1>10, <1>11, SchedulerAssumption
<1>14. Links(nxt', prv', saved')
  <2>1. nxt' \in [Tasks -> Tasks \cup {NULL}] /\ prv' \in [Tasks -> Tasks \cup {NULL}]
    BY <1>5, <1>7, <1>8
  <2>2. ASSUME NEW x \in Tasks, prv'[x] # NULL
        PROVE  saved'[prv'[x]] # NULL
    <3>1. CASE x = t
      BY <1>7, <1>8, <1>13, <3>1
    <3>2. CASE x # t
      <4>1. prv'[x] = prv[x] /\ prv[x] \in Tasks
        BY <1>7, <1>8, <2>2, <3>2
      <4>2. SavedState[prv[x]] # NULL
        BY <1>4, <2>2, <4>1 DEF Links
      <4>3. QED
        BY <1>13, <4>1, <4>2
    <3>3. QED
      BY <3>1, <3>2
  <2>3. ASSUME NEW x \in Tasks, saved'[x] = NULL
        PROVE  nxt'[x] = NULL
    <3>1. x # tail /\ SavedState[x] = NULL
      BY <1>13, <2>3
    <3>2. nxt[x] = NULL
      BY <1>4, <3>1 DEF Links
    <3>3. QED
      BY <1>7, <1>8, <3>1, <3>2
  <2>4. QED
    BY <2>1, <2>2, <2>3 DEF Links
<1>15. Runs(current', cpu', faulted')
  BY <1>3 DEF Runs
<1>16. current' \in A
  BY <1>3
<1>17. QED
  BY <1>2, <1>9, <1>12, <1>14, <1>15, <1>16, ListAfter

-----------------------------------------------------------------------------
(* The end of a task *)

LEMMA OnlyOneOnList ==
    ASSUME NEW h, NEW nx, NEW pv, NEW A, Chained(h, h, nx, pv, A)
    PROVE  A = {h}
<1>0. PICK m \in Nat \ {0} : \E L \in [1 .. m -> Tasks] : Chain(m, L, h, h, nx, pv, A)
  BY DEF Chained
<1>1. PICK L \in [1 .. m -> Tasks] : Chain(m, L, h, h, nx, pv, A)
  BY <1>0
<1>2. 1 \in 1 .. m /\ m \in 1 .. m
  OBVIOUS
<1>3. L[1] = h /\ L[m] = h /\ A = {L[i] : i \in 1 .. m} /\ m = 1
  BY <1>1, <1>2 DEF Chain
<1>4. \A i \in 1 .. m : L[i] = h
  BY <1>3
<1>5. QED
  BY <1>2, <1>3, <1>4

\* What task_list_remove does at an end of a list of several: d was its first
\* or its last task.
LEMMA ListWithout ==
    ASSUME NEW d, d \in Tasks, task_list_remove(d), d \in {head, tail}, head # tail,
           Links(nxt, prv, saved), Chained(head, tail, nxt, prv, Alive)
    PROVE  /\ Chained(head', tail', nxt', prv', Alive \ {d})
           /\ task_get_next(d) \in Alive \ {d}
<1>1. nxt \in [Tasks -> Tasks \cup {NULL}] /\ prv \in [Tasks -> Tasks \cup {NULL}]
  BY DEF Links
<1>2. /\ Alive \subseteq Tasks /\ head \in Alive /\ tail \in Alive
      /\ nxt[tail] = NULL /\ prv[head] \notin Alive
  BY ChainEnds
<1>3. /\ nxt' = IF prv[d] # NULL THEN [nxt EXCEPT ![prv[d]] = nxt[d]] ELSE nxt
      /\ head' = IF d = head THEN nxt[d] ELSE head
      /\ tail' = IF d = tail THEN prv[d] ELSE tail
      /\ prv' = prv
  BY DEF task_list_remove
<1>4. CASE d = head
  <2>1. \A x \in Alive : nxt'[x] = nxt[x]
    BY <1>1, <1>2, <1>3, <1>4
  <2>2. head' = nxt[head] /\ tail' = tail
    BY <1>3, <1>4
  <2>3. Chained(nxt[head], tail, nxt', prv, Alive \ {head})
    BY <2>1, ChainWithoutFirst
  <2>4. nxt[head] \in Alive \ {head}
    BY <2>3, ChainEnds
  <2>5. nxt'[d] = nxt[head] /\ nxt[head] # NULL
    BY <1>2, <1>4, <2>1, <2>4, SchedulerAssumption
  <2>6. task_get_next(d) = nxt[head]
    BY <2>5 DEF task_get_next
  <2>7. QED
    BY <1>3, <1>4, <2>2, <2>3, <2>4, <2>6
<1>5. CASE d = tail
  <2>1. /\ prv[tail] \in Alive \ {tail}
        /\ Chained(head, prv[tail], [nxt EXCEPT ![prv[tail]] = NULL], prv, Alive \ {tail})
    BY <1>1, ChainWithoutLast
  <2>2. head' = head /\ tail' = prv[tail]
    BY <1>3, <1>5
  <2>3. nxt' = [nxt EXCEPT ![prv[tail]] = NULL]
    BY <1>2, <1>3, <1>5, <2>1, SchedulerAssumption
  <2>4. nxt'[d] = NULL
    BY <1>1, <1>2, <1>5, <2>1, <2>3
  <2>5. task_get_next(d) = head
    BY <2>2, <2>4 DEF task_get_next
  <2>6. QED
    BY <1>2, <1>3, <1>5, <2>1, <2>2, <2>3, <2>5
<1>6. QED
  BY <1>4, <1>5

\* The pointers task_list_remove changes are not those of a task to come.
LEMMA LinksWithout ==
    ASSUME NEW d, d \in Tasks, task_list_remove(d), NEW sv, Links(nxt, prv, sv)
    PROVE  Links(nxt', prv', sv)
<1>1. /\ nxt' = IF prv[d] # NULL THEN [nxt EXCEPT ![prv[d]] = nxt[d]] ELSE nxt
      /\ prv' = prv
  BY DEF task_list_remove
<1>2. /\ nxt \in [Tasks -> Tasks \cup {NULL}] /\ prv \in [Tasks -> Tasks \cup {NULL}]
      /\ \A t \in Tasks : prv[t] # NULL => sv[prv[t]] # NULL
      /\ \A t \in Tasks : sv[t] = NULL => nxt[t] = NULL
  BY DEF Links
<1>3. nxt' \in [Tasks -> Tasks \cup {NULL}]
  BY <1>1, <1>2
<1>4. \A t \in Tasks : sv[t] = NULL => nxt'[t] = NULL
  BY <1>1, <1>2
<1>5. QED
  BY <1>1, <1>2, <1>3, <1>4 DEF Links

\* process_terminate of the running program's process.
LEMMA TerminateKeepsList ==
    ASSUME ListInv, ~MiddleExits, InUserMode, MayExit, ~LastProcess, process_terminate,
           saved' = SavedState
    PROVE  /\ Alive' = Alive \ {current}
           /\ Chained(head', tail', nxt', prv', Alive \ {current})
           /\ task_get_next(current) \in Alive \ {current}
           /\ Links(nxt', prv', saved')
           /\ Registers(saved', faulted, Alive \ {current})
<1>1. /\ cpu # Halted /\ TableInv /\ current \in Alive
      /\ Chained(head, tail, nxt, prv, Alive) /\ Links(nxt, prv, saved)
      /\ faulted \subseteq Tasks
  BY UserModeIsNotHalted DEF ListInv, Registers
<1>2. current \in Tasks
  BY <1>1 DEF Alive
<1>3. process_unlink(current) /\ task_list_remove(current)
  BY DEF process_terminate
<1>4. Alive' = Alive \ {current}
  <2>1. Holds(slots', Alive \ {current})
    BY <1>1, <1>3, Unlinked
  <2>2. QED
    BY <2>1, AliveAfter
<1>5. head # tail
  <2>1. SUFFICES ASSUME head = tail
                 PROVE  FALSE
    OBVIOUS
  <2>2. Alive = {head}
    BY <1>1, <2>1, OnlyOneOnList
  <2>3. Cardinality({head}) = 1
    BY FS_Singleton
  <2>4. QED
    BY <2>2, <2>3 DEF LastProcess
<1>6. current \in {head, tail}
  BY DEF MayExit
<1>7. /\ Chained(head', tail', nxt', prv', Alive \ {current})
      /\ task_get_next(current) \in Alive \ {current}
  BY <1>1, <1>2, <1>3, <1>5, <1>6, ListWithout
<1>8. Registers(SavedState, faulted, Alive) /\ Links(nxt, prv, SavedState)
  BY SavesItsOwn
<1>9. Links(nxt', prv', SavedState)
  BY <1>2, <1>3, <1>8, LinksWithout
<1>10. Registers(SavedState, faulted, Alive \ {current})
  BY <1>1, <1>8, RegistersOfFewer
<1>11. QED
  BY <1>4, <1>7, <1>9, <1>10

LEMMA ExitKeepsList ==
    ASSUME ListInv, TableInv', ~MiddleExits, Exit
    PROVE  ListInv'
<1> DEFINE A == Alive \ {current}
<1>1. /\ InUserMode /\ MayExit /\ ~LastProcess /\ process_terminate
      /\ saved' = SavedState /\ faulted' = faulted
      /\ task_next(task_get_next(current), asleep, saved')
  BY DEF Exit
<1>2. /\ Alive' = A /\ Chained(head', tail', nxt', prv', A)
      /\ task_get_next(current) \in A
      /\ Links(nxt', prv', saved') /\ Registers(saved', faulted', A)
  BY <1>1, TerminateKeepsList
<1>3. current' \in A /\ Runs(current', cpu', faulted')
  BY <1>1, <1>2, RunsOneOf
<1>4. QED
  BY <1>2, <1>3, ListAfter

LEMMA FaultKeepsList ==
    ASSUME ListInv, TableInv', ~MiddleExits, FaultingCall
    PROVE  ListInv'
<1> DEFINE A == Alive \ {current}
<1>1. /\ InUserMode /\ MayExit /\ ~LastProcess /\ process_terminate
      /\ saved' = SavedState /\ faulted' = faulted \cup {current}
      /\ current' = task_get_next(current) /\ cpu' = cpu
  BY DEF FaultingCall
<1>2. /\ Alive' = A /\ Chained(head', tail', nxt', prv', A)
      /\ task_get_next(current) \in A
      /\ Links(nxt', prv', saved') /\ Registers(saved', faulted, A)
  BY <1>1, TerminateKeepsList
<1>3. /\ Runs(current, cpu, faulted) /\ current \in Tasks /\ faulted \subseteq Tasks
  BY <1>1, UserModeIsNotHalted DEF ListInv, Registers, Alive
<1>4. Registers(saved', faulted', A)
  BY <1>1, <1>2, <1>3, RegistersOfFewer
<1>5. Runs(current', cpu', faulted')
  BY <1>1, <1>3 DEF Runs
<1>6. QED
  BY <1>1, <1>2, <1>4, <1>5, ListAfter

-----------------------------------------------------------------------------
(* What the scheduler keeps to *)

LEMMA ListInit == Init => ListInv
<1>1. SUFFICES ASSUME Init
               PROVE  ListInv
  OBVIOUS
<1> DEFINE t == CHOOSE u \in Tasks : TRUE
<1>2. t \in Tasks
  BY SchedulerAssumption
<1>3. TableInv /\ Alive = {t}
  <2>1. Holds(slots, {t}) /\ focus \in Alive
    BY <1>1, TableInit
  <2>2. QED
    BY <2>1, AliveIsMembers DEF TableInv, Holds
<1>4. /\ head = t /\ tail = t /\ current = t /\ cpu = t /\ faulted = {}
      /\ nxt = [u \in Tasks |-> NULL] /\ prv = [u \in Tasks |-> NULL]
      /\ saved = [u \in Tasks |-> IF u = t THEN t ELSE NULL]
  BY <1>1, Zenon DEF Init
<1> HIDE DEF t
<1>5. Registers(saved, faulted, Alive) /\ Runs(current, cpu, faulted)
  BY <1>2, <1>3, <1>4 DEF Registers, Runs
<1>6. Links(nxt, prv, saved)
  BY <1>2, <1>4 DEF Links
<1>7. Chained(head, tail, nxt, prv, Alive)
  <2> DEFINE L == [i \in 1 .. 1 |-> t]
  <2>1. L \in [1 .. 1 -> Tasks] /\ L[1] = t /\ 1 - 1 = 0 /\ 1 .. 0 = {}
    BY <1>2
  <2>2. \A i \in 1 .. 1 : i = 1 /\ L[i] = t
    OBVIOUS
  <2>3. Alive = {L[i] : i \in 1 .. 1}
    BY <1>3
  <2>4. nxt[t] = NULL /\ prv[t] = NULL /\ NULL \notin Alive
    BY <1>2, <1>3, <1>4, SchedulerAssumption
  <2> HIDE DEF L
  <2>5. Chain(1, L, head, tail, nxt, prv, Alive)
    BY <1>4, <2>1, <2>2, <2>3, <2>4 DEF Chain
  <2>6. 1 \in Nat \ {0}
    OBVIOUS
  <2>7. QED
    BY <2>1, <2>5, <2>6 DEF Chained
<1>8. QED
  BY <1>3, <1>4, <1>5, <1>6, <1>7 DEF ListInv

LEMMA ListStep ==
    ASSUME ListInv, ~MiddleExits, [Next]_vars
    PROVE  ListInv'
<1>1. TableInv'
  BY TableStep DEF ListInv
<1>2. CASE Tick \/ Sleep
  BY <1>1, <1>2, TickKeepsList
<1>3. CASE Poll
  BY <1>1, <1>3, PollKeepsList
<1>4. CASE DeviceInterrupt
  <2>1. Alive' = Alive
    BY <1>4 DEF DeviceInterrupt, Alive
  <2>2. QED
    BY <1>1, <1>4, <2>1, GoingOnKeepsList DEF DeviceInterrupt
<1>5. CASE LoadFails
  <2>1. NULL \notin Alive /\ NULL \in Tasks \cup {NULL} /\ TableInv
    BY SchedulerAssumption DEF Alive, ListInv
  <2>2. Holds(slots', (Alive \cup {NULL}) \ {NULL})
    BY <1>5, <2>1, SlotIsTaken DEF LoadFails, TableInv
  <2>3. Alive' = Alive
    BY <2>1, <2>2, AliveAfter
  <2>4. QED
    BY <1>1, <1>5, <2>3, GoingOnKeepsList DEF LoadFails
<1>6. CASE Exit
  BY <1>1, <1>6, ExitKeepsList
<1>7. CASE FaultingCall
  BY <1>1, <1>7, FaultKeepsList
<1>8. CASE ExitPanics
  BY <1>1, <1>8, PanicKeepsList
<1>9. ASSUME NEW t \in Tasks, Wake(t)
      PROVE  ListInv'
  BY <1>1, <1>9, IdleKeepsList DEF Wake
<1>10. ASSUME NEW t \in Tasks, Load(t) \/ LoadWithoutArguments(t)
       PROVE  ListInv'
  <2>1. /\ InUserMode /\ process_load_switch(t) /\ faulted' = faulted
        /\ saved' = [SavedState EXCEPT ![t] = t]
    BY <1>10 DEF Load, LoadWithoutArguments
  <2>2. SavedState \in [Tasks -> Tasks \cup {NULL}]
    BY <2>1, SavesItsOwn DEF Registers
  <2>3. saved'[t] = t
    BY <2>1, <2>2
  <2>4. \/ current' = t /\ cpu' = t
        \/ UNCHANGED <<current, cpu>>
    BY <1>10, <2>3 DEF Load, LoadWithoutArguments
  <2>5. QED
    BY <1>1, <2>1, <2>4, LoadKeepsList
<1>11. CASE UNCHANGED vars
  BY <1>1, <1>11, IdleKeepsList DEF vars
<1>12. QED
  BY <1>2, <1>3, <1>4, <1>5, <1>6, <1>7, <1>8, <1>9, <1>10, <1>11 DEF Next

LEMMA ListAlways ==
    ASSUME ~MiddleExits
    PROVE  Spec => []ListInv
<1>1. Init => ListInv
  BY ListInit
<1>2. ListInv /\ [Next]_vars => ListInv'
  BY ListStep
<1>3. QED
  BY <1>1, <1>2, PTL DEF Spec

\* Where tasks end only at an end of the list, the list the scheduler walks
\* holds exactly the processes of the table, each in one slot, through every
\* load, exit and switch.
THEOREM SchedulerListHoldsTheLive ==
    ASSUME ~MiddleExits
    PROVE  Spec => []ListHoldsTheLive
<1>1. ASSUME ListInv
      PROVE  ListHoldsTheLive
  <2>1. SUFFICES ASSUME cpu # Halted
                 PROVE  /\ OnList = Alive
                        /\ tail \in OnList /\ nxt[tail] = NULL
                        /\ \A i, j \in DOMAIN slots :
                              slots[i] = slots[j] /\ i # j => slots[i] = NULL
    BY DEF ListHoldsTheLive
  <2>2. Chained(head, tail, nxt, prv, Alive)
    BY <1>1, <2>1 DEF ListInv
  <2>3. OnList = Alive
    BY <2>2, ChainIsList DEF OnList
  <2>4. tail \in Alive /\ nxt[tail] = NULL
    BY <2>2, ChainEnds
  <2>5. \A i, j \in DOMAIN slots : slots[i] = slots[j] /\ i # j => slots[i] = NULL
    BY <1>1 DEF ListInv, TableInv, Table
  <2>6. QED
    BY <2>3, <2>4, <2>5
<1>2. QED
  BY <1>1, ListAlways, PTL

\* There, no task that has ended runs again, except as the program that was
\* terminated in the middle of its own call.
THEOREM SchedulerEndedNeverRuns ==
    ASSUME ~MiddleExits
    PROVE  Spec => []EndedNeverRuns
<1>1. ListInv => EndedNeverRuns
  BY UserModeIsNotHalted DEF ListInv, EndedNeverRuns, Runs, InUserMode
<1>2. QED
  BY <1>1, ListAlways, PTL

\* There, the processor executes the current task's program, and every task
\* will resume with the registers it was interrupted with.
THEOREM SchedulerRegistersAreOwn ==
    ASSUME ~MiddleExits
    PROVE  Spec => []RegistersAreOwn
<1>1. ListInv => RegistersAreOwn
  BY DEF ListInv, RegistersAreOwn, Runs, Registers, InUserMode
<1>2. QED
  BY <1>1, ListAlways, PTL
=============================================================================
