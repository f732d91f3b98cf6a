------------------------ MODULE FilesGraphicsProofs ------------------------
(***************************************************************************)
(* Proofs about modules Files and GraphicsTree, one after the other: they  *)
(* share no state and only one lemma.                                      *)
(*                                                                         *)
(* Files, for every number of processes, descriptors, volumes and          *)
(* requests: the table of descriptors and the handles of the processes     *)
(* agree.  What a call reads of a volume plays no part in it.              *)
(*                                                                         *)
(* GraphicsTree, for every set of graphics and of places, sizes and        *)
(* targets, every size of the screen and every width of the integers: the  *)
(* graphics that are not freed stay trees.  The invariant, Good, is        *)
(* TreeIsSound in parts that the steps treat apart: the shape of the       *)
(* records, the family (who holds whom, and where it lies) and the rows    *)
(* (the order of each graphic's children).  Between its calls a step       *)
(* breaks one part for one graphic: Good(t, {g}) leaves out the place of   *)
(* g, and GoodBut its place in the order.                                  *)
(***************************************************************************)
EXTENDS Files, GraphicsTree, WellFoundedInduction, TLAPS

-----------------------------------------------------------------------------
(* Both *)

\* A set of numbers that is not empty has a least one.
LEMMA LeastNumber ==
    ASSUME NEW S, S \subseteq Nat, S # {}
    PROVE  \E x \in S : \A y \in S : x <= y
  <1>1. PICK x \in S : \A y \in S : ~ (<<y, x>> \in OpToRel(<, Nat))
    BY NatLessThanWellFounded, WFMin
  <1>2. \A y \in S : ~ (y < x)
    BY <1>1 DEF OpToRel
  <1> QED
    BY <1>2

-----------------------------------------------------------------------------
(* Descriptors: the inductive invariant *)

\* A record with the fields of a descriptor, whatever they hold.
IsDescriptor(d) == \E v, i, n : d = [drive |-> v, item |-> i, pos |-> n]

\* An open descriptor is told from a free one by its drive, so that it stays
\* open when its position moves.
TableShape ==
    /\ DOMAIN file_descriptors = Numbers
    /\ \A fd \in Numbers :
          /\ IsDescriptor(file_descriptors[fd])
          /\ file_descriptors[fd] # Free => file_descriptors[fd].drive # NoDrive

HandleShape == file_handles \in [Processes -> SUBSET Numbers]

FInv == TableShape /\ HandleShape /\ DescriptorsAreHeld

-----------------------------------------------------------------------------
(* Descriptors: what the operators give, and the steps *)

\* file_new_descriptor gives a free number.
LEMMA NewDescriptorIsFree ==
    ASSUME FreeNumbers # {}
    PROVE  /\ file_new_descriptor \in Numbers
           /\ file_descriptors[file_new_descriptor] = Free
  <1>1. FreeNumbers \subseteq Nat
    BY DescriptorsAssumption DEF FreeNumbers, Numbers
  <1>2. \E fd \in FreeNumbers : \A other \in FreeNumbers : fd <= other
    BY <1>1, LeastNumber
  <1>3. file_new_descriptor \in FreeNumbers
    BY <1>2 DEF file_new_descriptor
  <1> QED
    BY <1>3 DEF FreeNumbers

\* What fopen makes is an open descriptor.
LEMMA OpenedIsOpen ==
    ASSUME NEW request, NEW item, ~Refused(request)
    PROVE  /\ IsDescriptor(Opened(request, item))
           /\ Opened(request, item).drive # NoDrive
           /\ Opened(request, item) # Free
  <1>1. DriveOf(request) # NoDrive
    BY DrivesAssumption DEF Refused
  <1> QED
    BY <1>1 DEF IsDescriptor, Opened, Free

\* A descriptor that moves keeps its drive.
LEMMA MovedStaysOpen ==
    ASSUME NEW d, NEW n, IsDescriptor(d)
    PROVE  /\ IsDescriptor([d EXCEPT !.pos = n])
           /\ [d EXCEPT !.pos = n].drive = d.drive
  <1>1. PICK v, i, m : d = [drive |-> v, item |-> i, pos |-> m]
    BY DEF IsDescriptor
  <1>2. [d EXCEPT !.pos = n] = [drive |-> v, item |-> i, pos |-> n]
    BY <1>1
  <1> QED
    BY <1>1, <1>2, ZenonT(30) DEF IsDescriptor

-----------------------------------------------------------------------------
(* The steps, by what they do to the table and the handles *)

\* Only a position moves: process_fread, process_fseek.
LEMMA MovePreserves ==
    ASSUME FInv, NEW fd \in Numbers, NEW n, file_descriptors[fd] # Free,
           file_descriptors' = [file_descriptors EXCEPT ![fd].pos = n],
           UNCHANGED file_handles
    PROVE  FInv'
  <1> DEFINE moved == [file_descriptors[fd] EXCEPT !.pos = n]
  <1>1. file_descriptors' = [file_descriptors EXCEPT ![fd] = moved]
    OBVIOUS
  <1>2. IsDescriptor(moved) /\ moved.drive # NoDrive /\ moved # Free
    <2>1. moved.drive # NoDrive
      BY MovedStaysOpen DEF FInv, TableShape
    <2> QED
      BY <2>1, MovedStaysOpen DEF FInv, TableShape, Free
  <1> HIDE DEF moved
  <1>3. TableShape'
    BY <1>1, <1>2 DEF FInv, TableShape
  <1>4. HandleShape'
    BY DEF FInv, HandleShape
  <1>5. \A k \in Numbers : file_descriptors'[k] = Free <=> file_descriptors[k] = Free
    BY <1>1, <1>2 DEF FInv, TableShape
  <1>6. DescriptorsAreHeld'
    BY <1>5 DEF FInv, HandleShape, DescriptorsAreHeld
  <1> QED
    BY <1>3, <1>4, <1>6 DEF FInv

\* A free number becomes open, and a process has it or it is the last one:
\* process_fopen, OpenWithoutHandle, elf_load.
LEMMA OpenPreserves ==
    ASSUME FInv, NEW fd \in Numbers, file_descriptors[fd] = Free,
           NEW d, IsDescriptor(d), d.drive # NoDrive, d # Free,
           file_descriptors' = [file_descriptors EXCEPT ![fd] = d],
           \/ \E p \in Processes :
                 file_handles' = [file_handles EXCEPT ![p] = @ \cup {fd}]
           \/ fd = MaxDescriptors /\ UNCHANGED file_handles
    PROVE  FInv'
  <1>1. TableShape'
    BY DEF FInv, TableShape
  <1>2. HandleShape'
    BY DEF FInv, HandleShape
  <1>3. \A p \in Processes : fd \notin file_handles[p]
    BY DEF FInv, DescriptorsAreHeld
  <1>4. /\ \A p \in Processes : file_handles'[p] \subseteq file_handles[p] \cup {fd}
        /\ \A p \in Processes : file_handles[p] \subseteq file_handles'[p]
        /\ \A p, q \in Processes :
              fd \in file_handles'[p] /\ fd \in file_handles'[q] => p = q
        /\ fd # MaxDescriptors => \E p \in Processes : fd \in file_handles'[p]
    BY <1>3 DEF FInv, HandleShape
  <1>5. /\ file_descriptors'[fd] # Free
        /\ \A k \in Numbers \ {fd} : file_descriptors'[k] = file_descriptors[k]
    BY DEF FInv, TableShape
  <1>6. DescriptorsAreHeld'
    <2>1. \A p \in Processes : \A k \in file_handles'[p] : file_descriptors'[k] # Free
      BY <1>2, <1>4, <1>5 DEF FInv, HandleShape, DescriptorsAreHeld
    <2>2. \A p, q \in Processes : p # q => file_handles'[p] \cap file_handles'[q] = {}
      BY <1>4 DEF FInv, DescriptorsAreHeld
    <2>3. \A k \in Numbers \ {MaxDescriptors} :
            file_descriptors'[k] # Free => \E p \in Processes : k \in file_handles'[p]
      BY <1>4, <1>5 DEF FInv, DescriptorsAreHeld
    <2> QED
      BY <2>1, <2>2, <2>3 DEF DescriptorsAreHeld
  <1> QED
    BY <1>1, <1>2, <1>6 DEF FInv

\* A process gives up some of its handles and their descriptors are closed, but
\* for the last number: process_fclose, process_terminate.
LEMMA ClosePreserves ==
    ASSUME FInv, NEW p \in Processes, NEW fds \in SUBSET file_handles[p],
           file_descriptors' = Closed(fds),
           file_handles' = [file_handles EXCEPT ![p] = @ \ fds]
    PROVE  FInv'
  <1>1. IsDescriptor(Free)
    BY DEF IsDescriptor, Free
  <1>2. /\ DOMAIN file_descriptors' = Numbers
        /\ \A k \in Numbers : file_descriptors'[k] \in {Free, file_descriptors[k]}
        /\ \A k \in Numbers \ fds : file_descriptors'[k] = file_descriptors[k]
        /\ \A k \in fds \ {MaxDescriptors} : file_descriptors'[k] = Free
    <2>1. fds \subseteq Numbers
      BY DEF FInv, HandleShape
    <2>2. \A k \in fds \ {MaxDescriptors} : Reachable(k) \/ file_descriptors[k] = Free
      BY <2>1, DescriptorsAssumption DEF Reachable, Numbers
    <2> QED
      BY <2>1, <2>2 DEF Closed
  <1>3. TableShape'
    BY <1>1, <1>2 DEF FInv, TableShape
  <1>4. HandleShape'
    BY DEF FInv, HandleShape
  <1>5. /\ \A q \in Processes : file_handles'[q] \subseteq file_handles[q]
        /\ \A q \in Processes : q # p => file_handles'[q] = file_handles[q]
        /\ file_handles'[p] = file_handles[p] \ fds
    BY DEF FInv, HandleShape
  <1>6. DescriptorsAreHeld'
    <2>1. \A q \in Processes : \A k \in file_handles'[q] : file_descriptors'[k] # Free
      <3> SUFFICES ASSUME NEW q \in Processes, NEW k \in file_handles'[q]
                   PROVE  file_descriptors'[k] # Free
        OBVIOUS
      <3>1. k \in Numbers /\ k \in file_handles[q] /\ file_descriptors[k] # Free
        BY <1>5 DEF FInv, HandleShape, DescriptorsAreHeld
      <3>2. k \notin fds
        BY <1>5, <3>1 DEF FInv, DescriptorsAreHeld
      <3> QED
        BY <1>2, <3>1, <3>2
    <2>2. \A q, r \in Processes : q # r => file_handles'[q] \cap file_handles'[r] = {}
      BY <1>5 DEF FInv, DescriptorsAreHeld
    <2>3. \A k \in Numbers \ {MaxDescriptors} :
            file_descriptors'[k] # Free => \E q \in Processes : k \in file_handles'[q]
      <3> SUFFICES ASSUME NEW k \in Numbers \ {MaxDescriptors},
                          file_descriptors'[k] # Free
                   PROVE  \E q \in Processes : k \in file_handles'[q]
        OBVIOUS
      <3>1. k \notin fds /\ file_descriptors[k] # Free
        BY <1>2
      <3>2. PICK q \in Processes : k \in file_handles[q]
        BY <3>1 DEF FInv, DescriptorsAreHeld
      <3> QED
        BY <1>5, <3>1, <3>2
    <2> QED
      BY <2>1, <2>2, <2>3 DEF DescriptorsAreHeld
  <1> QED
    BY <1>3, <1>4, <1>6 DEF FInv

\* The table and the handles stay: all other calls.
LEMMA StayPreserves ==
    ASSUME FInv, UNCHANGED <<file_descriptors, file_handles>>
    PROVE  FInv'
  BY DEF FInv, TableShape, HandleShape, DescriptorsAreHeld

\* process_terminate closes all that the process holds.
LEMMA TerminatePreserves ==
    ASSUME FInv, NEW p \in Processes, process_terminate(p)
    PROVE  FInv'
  <1>1. file_handles' = [file_handles EXCEPT ![p] = @ \ file_handles[p]]
    BY DEF process_terminate, FInv, HandleShape
  <1> QED
    BY <1>1, ClosePreserves DEF process_terminate

-----------------------------------------------------------------------------
(* The invariant holds at first and is kept *)

LEMMA FilesInitInv == Init => FInv
  <1> SUFFICES ASSUME Init PROVE FInv
    OBVIOUS
  <1>1. IsDescriptor(Free)
    BY DEF IsDescriptor, Free
  <1>2. TableShape
    BY <1>1 DEF Init, TableShape
  <1>3. HandleShape
    BY DEF Init, HandleShape
  <1>4. DescriptorsAreHeld
    BY DEF Init, DescriptorsAreHeld
  <1> QED
    BY <1>2, <1>3, <1>4 DEF FInv

LEMMA FilesNextInv == FInv /\ [Next]_vars => FInv'
  <1> SUFFICES ASSUME FInv, [Next]_vars PROVE FInv'
    OBVIOUS
  <1>1. ASSUME NEW request \in Requests, OpenRefused(request) PROVE FInv'
    BY <1>1, StayPreserves DEF OpenRefused, Returns
  <1>2. ASSUME NEW p \in Processes, NEW request \in Requests, process_fopen(p, request)
        PROVE  FInv'
    BY <1>2, NewDescriptorIsFree, OpenedIsOpen, OpenPreserves DEF process_fopen
  <1>3. ASSUME NEW p \in Processes, NEW request \in Requests,
               OpenWithoutHandle(p, request)
        PROVE  FInv'
    <2>1. CASE file_new_descriptor < MaxDescriptors
      BY <1>3, <2>1, StayPreserves DEF OpenWithoutHandle
    <2>2. CASE ~(file_new_descriptor < MaxDescriptors)
      <3>1. file_new_descriptor = MaxDescriptors
        BY <1>3, <2>2, NewDescriptorIsFree, DescriptorsAssumption
           DEF OpenWithoutHandle, Numbers
      <3>2. file_descriptors' = [file_descriptors EXCEPT
                ![MaxDescriptors] = Opened(request, Lookup[request])]
        BY <1>3, <2>2 DEF OpenWithoutHandle
      <3>3. ~Refused(request) /\ FreeNumbers # {} /\ UNCHANGED file_handles
        BY <1>3 DEF OpenWithoutHandle
      <3> QED
        BY <3>1, <3>2, <3>3, NewDescriptorIsFree, OpenedIsOpen, OpenPreserves
    <2> QED
      BY <2>1, <2>2
  <1>4. ASSUME NEW request \in Requests, NEW fault \in BOOLEAN,
               OpenPanics(request, fault)
        PROVE  FInv'
    BY <1>4, StayPreserves DEF OpenPanics, Panic
  <1>5. ASSUME NEW request \in Requests, NEW fault \in BOOLEAN, elf_load(request, fault)
        PROVE  FInv'
    <2>1. CASE file_new_descriptor = MaxDescriptors
      <3>1. file_descriptors' = [file_descriptors EXCEPT
                ![MaxDescriptors] = Opened(request, Lookup[request])]
        BY <1>5, <2>1 DEF elf_load
      <3> QED
        BY <1>5, <2>1, <3>1, NewDescriptorIsFree, OpenedIsOpen, OpenPreserves
           DEF elf_load
    <2>2. CASE file_new_descriptor # MaxDescriptors
      BY <1>5, <2>2, StayPreserves DEF elf_load
    <2> QED
      BY <2>1, <2>2
  <1>6. ASSUME NEW p \in Processes, process_terminate(p) PROVE FInv'
    BY <1>6, TerminatePreserves
  <1>7. ASSUME NEW p \in Processes, NEW fd \in Numbers, NEW size \in Sizes,
               NEW nmemb \in Counts, NEW owned \in BOOLEAN, NEW fault \in BOOLEAN,
               process_fread(p, fd, size, nmemb, owned, fault)
        PROVE  FInv'
    <2>1. CASE fd \notin file_handles[p] \/ (owned /\ (size = 0 \/ nmemb = 0 \/ ~Reachable(fd)))
      BY <1>7, <2>1, StayPreserves DEF process_fread, Returns
    <2>2. CASE fd \in file_handles[p] /\ ~owned
      BY <1>7, <2>2, <1>6 DEF process_fread
    <2>3. CASE /\ fd \in file_handles[p] /\ owned
               /\ ~(size = 0 \/ nmemb = 0 \/ ~Reachable(fd))
      <3>1. file_descriptors[fd] # Free
        BY <2>3 DEF Reachable
      <3>2. /\ UNCHANGED file_handles
            /\ \E n : file_descriptors' = [file_descriptors EXCEPT ![fd].pos = n]
        BY <1>7, <2>3 DEF process_fread
      <3> QED
        BY <3>1, <3>2, MovePreserves
    <2> QED
      BY <2>1, <2>2, <2>3
  <1>8. ASSUME NEW p \in Processes, NEW fd \in Numbers, NEW offset, NEW whence,
               process_fseek(p, fd, offset, whence)
        PROVE  FInv'
    <2>1. CASE fd \notin file_handles[p] \/ ~Reachable(fd)
      BY <1>8, <2>1, StayPreserves DEF process_fseek, Returns
    <2>2. CASE fd \in file_handles[p] /\ Reachable(fd)
      BY <1>8, <2>2, MovePreserves DEF process_fseek, Reachable
    <2> QED
      BY <2>1, <2>2
  <1>9. ASSUME NEW p \in Processes, NEW fd \in Numbers, NEW owned \in BOOLEAN,
               process_fstat(p, fd, owned)
        PROVE  FInv'
    BY <1>6, <1>9, StayPreserves DEF process_fstat, Returns
  <1>10. ASSUME NEW p \in Processes, NEW fd \in Numbers, process_fclose(p, fd)
         PROVE  FInv'
    <2>1. CASE fd \notin file_handles[p]
      BY <1>10, <2>1, StayPreserves DEF process_fclose, Returns
    <2>2. CASE fd \in file_handles[p]
      BY <1>10, <2>2, ClosePreserves DEF process_fclose
    <2> QED
      BY <2>1, <2>2
  <1>11. CASE UNCHANGED vars
    BY <1>11, StayPreserves DEF vars
  <1> QED
    BY <1>1, <1>2, <1>3, <1>4, <1>5, <1>6, <1>7, <1>8, <1>9, <1>10, <1>11 DEF Next

-----------------------------------------------------------------------------
(* Descriptors: the theorem *)

\* The table of fs/file.c and the handles of task/process.c agree: a handle is
\* of an open descriptor and of one process, and an open descriptor other than
\* the last is held, whatever is opened, read, refused and closed, and however
\* processes end.
THEOREM FilesDescriptorsAreHeld == Spec => []DescriptorsAreHeld
  <1>1. FInv => DescriptorsAreHeld
    BY DEF FInv
  <1> QED
    BY FilesInitInv, FilesNextInv, <1>1, PTL DEF Spec

-----------------------------------------------------------------------------
(* Graphics: rows, the sequences of children *)

\* f is, for each n, the part of the first n of s that is in S.
Filters(f, s, S) ==
    f = [n \in 0 .. Len(s) |->
            IF n = 0 THEN <<>>
            ELSE IF s[n] \in S THEN Append(f[n - 1], s[n]) ELSE f[n - 1]]

\* f says so up to n.
FiltersTo(f, s, S, n) ==
    \A m \in 0 .. n :
        f[m] = IF m = 0 THEN <<>>
               ELSE IF s[m] \in S THEN Append(f[m - 1], s[m]) ELSE f[m - 1]

\* The recursion of Only has a function that does as it says: the least length
\* up to which there is none would be one more than another.
LEMMA FilterExists ==
    ASSUME NEW s \in Seq(Ids), NEW S
    PROVE  \E f : Filters(f, s, S)
<1> DEFINE Lacking == {n \in 0 .. Len(s) : ~ \E f : FiltersTo(f, s, S, n)}
<1>1. 0 \notin Lacking
  <2>1. FiltersTo([m \in 0 .. 0 |-> <<>>], s, S, 0)
    BY DEF FiltersTo
  <2> QED
    BY <2>1
<1>2. ASSUME NEW n \in Lacking, \A y \in Lacking : n <= y
      PROVE  FALSE
  <2>1. n \in Nat /\ n # 0 /\ n - 1 \in 0 .. Len(s) /\ n - 1 \notin Lacking
    BY <1>1, <1>2
  <2>2. PICK f : FiltersTo(f, s, S, n - 1)
    BY <2>1
  <2> DEFINE g == [m \in 0 .. n |->
                     IF m = n THEN IF s[n] \in S THEN Append(f[n - 1], s[n]) ELSE f[n - 1]
                     ELSE f[m]]
  <2>3. \A m \in 0 .. n - 1 : g[m] = f[m] /\ m \in 0 .. n
    BY <2>1
  <2>4. g[n] = IF s[n] \in S THEN Append(f[n - 1], s[n]) ELSE f[n - 1]
    BY <2>1
  <2>5. n - 1 \in 0 .. n - 1 /\ \A m \in 0 .. n : m # n => m \in 0 .. n - 1
    BY <2>1
  <2> HIDE DEF g
  <2>6. ASSUME NEW m \in 0 .. n
        PROVE  g[m] = IF m = 0 THEN <<>>
                      ELSE IF s[m] \in S THEN Append(g[m - 1], s[m]) ELSE g[m - 1]
    <3>1. CASE m = n
      BY <2>1, <2>3, <2>4, <2>5, <3>1
    <3>2. CASE m # n
      <4>1. m \in 0 .. n - 1 /\ (m # 0 => m - 1 \in 0 .. n - 1)
        BY <2>1, <3>2
      <4>2. f[m] = IF m = 0 THEN <<>>
                   ELSE IF s[m] \in S THEN Append(f[m - 1], s[m]) ELSE f[m - 1]
        BY <2>2, <4>1 DEF FiltersTo
      <4> QED
        BY <2>3, <4>1, <4>2
    <3> QED
      BY <3>1, <3>2
  <2>7. FiltersTo(g, s, S, n)
    BY <2>6 DEF FiltersTo
  <2> QED
    BY <2>7
<1>3. Lacking = {}
  <2>1. Lacking \subseteq Nat
    OBVIOUS
  <2> QED
    BY <1>2, <2>1, LeastNumber
<1>4. PICK f : FiltersTo(f, s, S, Len(s))
  <2>1. Len(s) \in 0 .. Len(s)
    OBVIOUS
  <2>2. Len(s) \notin Lacking
    BY <1>3
  <2> QED
    BY <2>1, <2>2
<1> DEFINE g == [n \in 0 .. Len(s) |-> f[n]]
<1>5. \A n \in 0 .. Len(s) : g[n] = f[n] /\ (n # 0 => n - 1 \in 0 .. Len(s))
  OBVIOUS
<1>6. \A n \in 0 .. Len(s) :
        g[n] = IF n = 0 THEN <<>>
               ELSE IF s[n] \in S THEN Append(g[n - 1], s[n]) ELSE g[n - 1]
  <2> HIDE DEF g
  <2> SUFFICES ASSUME NEW n \in 0 .. Len(s)
               PROVE  g[n] = IF n = 0 THEN <<>>
                             ELSE IF s[n] \in S THEN Append(g[n - 1], s[n]) ELSE g[n - 1]
    OBVIOUS
  <2>1. f[n] = IF n = 0 THEN <<>>
               ELSE IF s[n] \in S THEN Append(f[n - 1], s[n]) ELSE f[n - 1]
    BY <1>4 DEF FiltersTo
  <2> QED
    BY <1>5, <2>1
<1>7. g = [n \in 0 .. Len(s) |-> g[n]]
  OBVIOUS
<1>8. Filters(g, s, S)
  <2> HIDE DEF g
  <2> QED
    BY <1>6, <1>7 DEF Filters
<1> QED
  BY <1>8

\* What the recursive function of Only gives, by what it is on each prefix.
LEMMA OnlyFilters ==
    ASSUME NEW s \in Seq(Ids), NEW S
    PROVE  \E f : Filters(f, s, S) /\ Only(s, S) = f[Len(s)]
<1> DEFINE f == CHOOSE f : Filters(f, s, S)
<1>1. Filters(f, s, S)
  BY FilterExists
<1>2. Only(s, S) = f[Len(s)]
  BY DEF Only, Filters
<1> QED
  BY <1>1, <1>2

\* r is what of the first n of s is in S; at says where in s it is.
PartAt(r, s, S, n, at) ==
    /\ r \in Seq(Ids) /\ at \in [1 .. Len(r) -> 1 .. n]
    /\ \A k \in 1 .. Len(r) : r[k] = s[at[k]] /\ s[at[k]] \in S
    /\ \A j, k \in 1 .. Len(r) : j < k => at[j] < at[k]
    /\ \A i \in 1 .. n : s[i] \in S => \E k \in 1 .. Len(r) : at[k] = i

PartOf(r, s, S, n) == \E at : PartAt(r, s, S, n, at)

LEMMA PartSkips ==
    ASSUME NEW s \in Seq(Ids), NEW S, NEW n \in Nat, n + 1 <= Len(s), NEW r,
           PartOf(r, s, S, n), s[n + 1] \notin S
    PROVE  PartOf(r, s, S, n + 1)
<1>1. PICK at : PartAt(r, s, S, n, at)
  BY DEF PartOf
<1>2. PartAt(r, s, S, n + 1, at)
  <2>1. \A k \in 1 .. Len(r) : at[k] \in 1 .. n + 1
    BY <1>1 DEF PartAt
  <2>2. at \in [1 .. Len(r) -> 1 .. n + 1]
    BY <1>1, <2>1 DEF PartAt
  <2>3. \A i \in 1 .. n + 1 : i \in 1 .. n \/ i = n + 1
    OBVIOUS
  <2> QED
    BY <1>1, <2>2, <2>3 DEF PartAt
<1> QED
  BY <1>2 DEF PartOf

LEMMA PartTakes ==
    ASSUME NEW s \in Seq(Ids), NEW S, NEW n \in Nat, n + 1 <= Len(s), NEW r,
           PartOf(r, s, S, n), s[n + 1] \in S
    PROVE  PartOf(Append(r, s[n + 1]), s, S, n + 1)
<1>1. PICK at : PartAt(r, s, S, n, at)
  BY DEF PartOf
<1>2. PICK l \in Nat : l = Len(r)
  BY <1>1 DEF PartAt
<1>3. PICK e \in Ids : e = s[n + 1]
  <2>1. n + 1 \in 1 .. Len(s)
    OBVIOUS
  <2> QED
    BY <2>1
<1>4. PICK q \in Seq(Ids) : q = Append(r, e)
  <2>1. Append(r, e) \in Seq(Ids)
    BY <1>1 DEF PartAt
  <2> QED
    BY <2>1
<1>5. Len(q) = l + 1 /\ q[l + 1] = e /\ \A k \in 1 .. l : q[k] = r[k]
  BY <1>1, <1>2, <1>4 DEF PartAt
<1>6. \A k \in 1 .. l + 1 : k \in 1 .. l \/ k = l + 1
  OBVIOUS
<1> DEFINE to == [k \in 1 .. l + 1 |-> IF k = l + 1 THEN n + 1 ELSE at[k]]
<1>7. to[l + 1] = n + 1 /\ \A k \in 1 .. l : to[k] = at[k] /\ at[k] \in 1 .. n
  BY <1>1, <1>2 DEF PartAt
<1>8. to \in [1 .. l + 1 -> 1 .. n + 1]
  <2>1. ASSUME NEW k \in 1 .. l + 1 PROVE to[k] \in 1 .. n + 1
    <3> HIDE DEF to
    <3>1. CASE k = l + 1
      BY <1>7, <3>1
    <3>2. CASE k \in 1 .. l
      <4>1. to[k] = at[k] /\ at[k] \in 1 .. n
        BY <1>7, <3>2
      <4> QED
        BY <4>1
    <3> QED
      BY <1>6, <3>1, <3>2
  <2> QED
    BY <2>1
<1> HIDE DEF to
<1>9. \A k \in 1 .. l + 1 : q[k] = s[to[k]] /\ s[to[k]] \in S
  BY <1>1, <1>2, <1>3, <1>5, <1>6, <1>7 DEF PartAt
<1>10. \A j, k \in 1 .. l + 1 : j < k => to[j] < to[k]
  <2> SUFFICES ASSUME NEW j \in 1 .. l + 1, NEW k \in 1 .. l + 1, j < k
               PROVE  to[j] < to[k]
    OBVIOUS
  <2>1. j \in 1 .. l
    OBVIOUS
  <2>2. CASE k = l + 1
    BY <1>7, <2>1, <2>2
  <2>3. CASE k \in 1 .. l
    BY <1>1, <1>2, <1>7, <2>1, <2>3 DEF PartAt
  <2> QED
    BY <1>6, <2>2, <2>3
<1>11. \A i \in 1 .. n + 1 : s[i] \in S => \E k \in 1 .. l + 1 : to[k] = i
  <2> SUFFICES ASSUME NEW i \in 1 .. n + 1, s[i] \in S
               PROVE  \E k \in 1 .. l + 1 : to[k] = i
    OBVIOUS
  <2>1. CASE i = n + 1
    BY <1>7, <2>1
  <2>2. CASE i \in 1 .. n
    <3>1. PICK k \in 1 .. l : at[k] = i
      BY <1>1, <1>2, <2>2 DEF PartAt
    <3> QED
      BY <1>7, <3>1
  <2> QED
    BY <2>1, <2>2
<1>12. PartAt(q, s, S, n + 1, to)
  BY <1>5, <1>8, <1>9, <1>10, <1>11 DEF PartAt
<1> QED
  BY <1>3, <1>4, <1>12 DEF PartOf

LEMMA OnlyIsPart ==
    ASSUME NEW s \in Seq(Ids), NEW S
    PROVE  PartOf(Only(s, S), s, S, Len(s))
<1>1. PICK f : Filters(f, s, S) /\ Only(s, S) = f[Len(s)]
  BY OnlyFilters
<1>2. \A n \in 0 .. Len(s) :
        f[n] = IF n = 0 THEN <<>>
               ELSE IF s[n] \in S THEN Append(f[n - 1], s[n]) ELSE f[n - 1]
  BY <1>1 DEF Filters
<1> DEFINE Wrong == {n \in 0 .. Len(s) : ~PartOf(f[n], s, S, n)}
<1>3. 0 \notin Wrong
  <2>1. <<>> \in Seq(Ids) /\ Len(<<>>) = 0
    OBVIOUS
  <2>2. PartAt(<<>>, s, S, 0, [k \in 1 .. 0 |-> k])
    BY <2>1 DEF PartAt
  <2>3. f[0] = <<>>
    BY <1>2
  <2> QED
    BY <2>2, <2>3 DEF PartOf
<1>4. ASSUME NEW n \in Wrong, \A y \in Wrong : n <= y
      PROVE  FALSE
  <2>1. n \in 0 .. Len(s) /\ n # 0
    BY <1>3
  <2>2. PICK m \in Nat : n = m + 1 /\ m = n - 1
    BY <2>1
  <2>3. m \in 0 .. Len(s) /\ m + 1 <= Len(s) /\ m \notin Wrong
    BY <1>4, <2>1, <2>2
  <2>4. PartOf(f[m], s, S, m)
    BY <2>3
  <2>5. f[m + 1] = IF s[m + 1] \in S THEN Append(f[m], s[m + 1]) ELSE f[m]
    BY <1>2, <2>1, <2>2
  <2>6. PartOf(f[m + 1], s, S, m + 1)
    BY <2>3, <2>4, <2>5, PartSkips, PartTakes
  <2> QED
    BY <1>4, <2>2, <2>6
<1>5. Wrong = {}
  <2>1. Wrong \subseteq Nat
    OBVIOUS
  <2> QED
    BY <1>4, <2>1, LeastNumber
<1> QED
  BY <1>1, <1>5

\* s lists graphics, each once, in the order of their z indices in t.
Once(s) == s \in Seq(Ids) /\ \A i, j \in 1 .. Len(s) : s[i] = s[j] => i = j

InOrder(t, s) ==
    \A i, j \in 1 .. Len(s) : i < j => t[s[i]].z_index <= t[s[j]].z_index

Row(t, s) == Once(s) /\ InOrder(t, s)

\* All but g are in order.
RowBut(t, s, g) ==
    /\ Once(s)
    /\ \A i, j \in 1 .. Len(s) :
          i < j /\ s[i] # g /\ s[j] # g => t[s[i]].z_index <= t[s[j]].z_index

\* The members of a list of graphics.
LEMMA Members ==
    ASSUME NEW s \in Seq(Ids)
    PROVE  /\ ToSet(s) = {s[i] : i \in 1 .. Len(s)} /\ ToSet(s) \subseteq Ids
           /\ DOMAIN s = 1 .. Len(s) /\ Len(s) \in Nat
BY DEF ToSet

LEMMA OnlyRow ==
    ASSUME NEW t, NEW s \in Seq(Ids), Once(s), NEW S,
           \A i, j \in 1 .. Len(s) :
              i < j /\ s[i] \in S /\ s[j] \in S => t[s[i]].z_index <= t[s[j]].z_index
    PROVE  Row(t, Only(s, S)) /\ ToSet(Only(s, S)) = ToSet(s) \cap S
<1>1. PICK r : r = Only(s, S)
  OBVIOUS
<1>2. PICK at : PartAt(r, s, S, Len(s), at)
  BY <1>1, OnlyIsPart DEF PartOf
<1>3. /\ r \in Seq(Ids) /\ Len(r) \in Nat /\ Len(s) \in Nat
      /\ \A k \in 1 .. Len(r) : at[k] \in 1 .. Len(s) /\ r[k] = s[at[k]] /\ r[k] \in S
      /\ \A j, k \in 1 .. Len(r) : j < k => at[j] < at[k]
      /\ \A i \in 1 .. Len(s) : s[i] \in S => \E k \in 1 .. Len(r) : at[k] = i
  BY <1>2 DEF PartAt
<1>4. Once(r)
  <2> SUFFICES ASSUME NEW i \in 1 .. Len(r), NEW j \in 1 .. Len(r), r[i] = r[j]
               PROVE  i = j
    BY <1>3 DEF Once
  <2>1. PICK k \in 1 .. Len(s), l \in 1 .. Len(s) : k = at[i] /\ l = at[j]
    BY <1>3
  <2>2. r[i] = s[k] /\ r[j] = s[l]
    BY <1>3, <2>1
  <2>3. k = l
    BY <2>2 DEF Once
  <2>4. (i < j => k < l) /\ (j < i => l < k)
    BY <1>3, <2>1
  <2> QED
    BY <1>3, <2>3, <2>4
<1>5. InOrder(t, r)
  <2> SUFFICES ASSUME NEW i \in 1 .. Len(r), NEW j \in 1 .. Len(r), i < j
               PROVE  t[r[i]].z_index <= t[r[j]].z_index
    BY DEF InOrder
  <2>1. at[i] \in 1 .. Len(s) /\ at[j] \in 1 .. Len(s) /\ at[i] < at[j]
    BY <1>3
  <2>2. r[i] = s[at[i]] /\ r[j] = s[at[j]] /\ r[i] \in S /\ r[j] \in S
    BY <1>3
  <2> QED
    BY <2>1, <2>2
<1>6. ToSet(r) = ToSet(s) \cap S
  <2>1. ToSet(r) = {r[k] : k \in 1 .. Len(r)} /\ ToSet(s) = {s[k] : k \in 1 .. Len(s)}
    BY <1>3, Members
  <2>2. ASSUME NEW k \in 1 .. Len(r)
        PROVE  r[k] \in {s[i] : i \in 1 .. Len(s)} \cap S
    <3>1. at[k] \in 1 .. Len(s) /\ r[k] = s[at[k]] /\ r[k] \in S
      BY <1>3
    <3> QED
      BY <3>1
  <2>3. ASSUME NEW i \in 1 .. Len(s), s[i] \in S
        PROVE  s[i] \in {r[k] : k \in 1 .. Len(r)}
    <3>1. PICK k \in 1 .. Len(r) : at[k] = i
      BY <1>3, <2>3
    <3>2. r[k] = s[i]
      BY <1>3, <3>1
    <3> QED
      BY <3>2
  <2> QED
    BY <2>1, <2>2, <2>3
<1> QED
  BY <1>1, <1>4, <1>5, <1>6 DEF Row

LEMMA OnlyOfRow ==
    ASSUME NEW t, NEW s \in Seq(Ids), Row(t, s), NEW S
    PROVE  Row(t, Only(s, S)) /\ ToSet(Only(s, S)) = ToSet(s) \cap S
<1>1. Once(s)
  BY DEF Row
<1>2. \A i, j \in 1 .. Len(s) :
        i < j /\ s[i] \in S /\ s[j] \in S => t[s[i]].z_index <= t[s[j]].z_index
  BY DEF Row, InOrder
<1> QED
  BY <1>1, <1>2, OnlyRow

\* What a lists comes before what b lists.
Before(t, a, b) ==
    \A u \in ToSet(a), v \in ToSet(b) : u # v /\ t[u].z_index <= t[v].z_index

\* Two rows, one before the other, are a row.
LEMMA JoinRows ==
    ASSUME NEW t, NEW a, NEW b, Row(t, a), Row(t, b), Before(t, a, b)
    PROVE  Row(t, a \o b) /\ ToSet(a \o b) = ToSet(a) \cup ToSet(b)
<1>1. a \in Seq(Ids) /\ b \in Seq(Ids)
  BY DEF Row, Once
<1>2. PICK m \in Nat, n \in Nat : m = Len(a) /\ n = Len(b)
  BY <1>1
<1>3. PICK r \in Seq(Ids) :
        /\ r = a \o b /\ Len(r) = m + n
        /\ \A i \in 1 .. m : r[i] = a[i]
        /\ \A i \in 1 .. n : r[m + i] = b[i]
  <2>1. a \o b \in Seq(Ids) /\ Len(a \o b) = m + n
    BY <1>1, <1>2
  <2>2. \A i \in 1 .. m : (a \o b)[i] = a[i]
    BY <1>1, <1>2
  <2>3. \A i \in 1 .. n : (a \o b)[m + i] = b[i]
    BY <1>1, <1>2
  <2> QED
    BY <2>1, <2>2, <2>3
<1>4. /\ \A i \in 1 .. m : r[i] \in ToSet(a)
      /\ \A i \in 1 .. n : r[m + i] \in ToSet(b)
  BY <1>1, <1>2, <1>3, Members
<1>5. \A k \in 1 .. m + n : k \in 1 .. m \/ \E i \in 1 .. n : k = m + i
  <2> SUFFICES ASSUME NEW k \in 1 .. m + n, k \notin 1 .. m
               PROVE  \E i \in 1 .. n : k = m + i
    OBVIOUS
  <2>1. k - m \in 1 .. n /\ k = m + (k - m)
    OBVIOUS
  <2> QED
    BY <2>1
<1>6. ASSUME NEW i \in 1 .. m + n, NEW j \in 1 .. m + n, i < j
      PROVE  r[i] # r[j] /\ t[r[i]].z_index <= t[r[j]].z_index
  <2>1. CASE j \in 1 .. m
    <3>1. i \in 1 .. m
      BY <1>6, <2>1
    <3> QED
      BY <1>2, <1>3, <1>6, <2>1, <3>1 DEF Row, Once, InOrder
  <2>2. CASE i \in 1 .. m /\ j \notin 1 .. m
    <3>1. PICK k \in 1 .. n : j = m + k
      BY <1>5, <2>2
    <3>2. r[i] \in ToSet(a) /\ r[j] \in ToSet(b)
      BY <1>4, <2>2, <3>1
    <3> QED
      BY <3>2 DEF Before
  <2>3. CASE i \notin 1 .. m
    <3>1. PICK k \in 1 .. n : i = m + k
      BY <1>5, <2>3
    <3>2. PICK l \in 1 .. n : j = m + l
      BY <1>5, <1>6, <2>3
    <3>3. k < l
      BY <1>6, <3>1, <3>2
    <3>4. b[k] # b[l] /\ t[b[k]].z_index <= t[b[l]].z_index
      BY <1>2, <3>3 DEF Row, Once, InOrder
    <3> QED
      BY <1>3, <3>1, <3>2, <3>4
  <2> QED
    BY <2>1, <2>2, <2>3
<1>7. Once(r)
  <2> SUFFICES ASSUME NEW i \in 1 .. m + n, NEW j \in 1 .. m + n, r[i] = r[j], i # j
               PROVE  FALSE
    BY <1>3 DEF Once
  <2>1. i < j \/ j < i
    OBVIOUS
  <2>2. r[i] # r[j]
    BY <1>6, <2>1
  <2> QED
    BY <2>2
<1>8. InOrder(t, r)
  <2> SUFFICES ASSUME NEW i \in 1 .. m + n, NEW j \in 1 .. m + n, i < j
               PROVE  t[r[i]].z_index <= t[r[j]].z_index
    BY <1>3 DEF InOrder
  <2> QED
    BY <1>6
<1>9. ToSet(r) = ToSet(a) \cup ToSet(b)
  <2>1. /\ ToSet(r) = {r[k] : k \in 1 .. m + n}
        /\ ToSet(a) = {a[k] : k \in 1 .. m} /\ ToSet(b) = {b[k] : k \in 1 .. n}
    BY <1>1, <1>2, <1>3, Members
  <2>2. \A k \in 1 .. m + n : r[k] \in ToSet(a) \cup ToSet(b)
    BY <1>4, <1>5
  <2>3. /\ \A k \in 1 .. m : k \in 1 .. m + n
        /\ \A k \in 1 .. n : m + k \in 1 .. m + n
    OBVIOUS
  <2>4. \A k \in 1 .. m : a[k] \in {r[i] : i \in 1 .. m + n}
    BY <1>3, <2>3
  <2>5. \A k \in 1 .. n : b[k] \in {r[i] : i \in 1 .. m + n}
    BY <1>3, <2>3
  <2> QED
    BY <2>1, <2>2, <2>4, <2>5
<1> QED
  BY <1>3, <1>7, <1>8, <1>9 DEF Row

\* What graphics_reorder makes of a row in which only g is out of order.
LEMMA ReorderedRow ==
    ASSUME NEW t, NEW g, NEW s, RowBut(t, s, g), t[g].z_index \in Nat,
           \A c \in ToSet(s) : t[c].z_index \in Nat
    PROVE  Row(t, Reordered(t, g, s)) /\ ToSet(Reordered(t, g, s)) = ToSet(s)
<1>1. s \in Seq(Ids) /\ Once(s)
  BY DEF RowBut, Once
<1>2. PICK z \in Nat : z = t[g].z_index
  OBVIOUS
<1>3. PICK A, B, C : /\ A = {c \in ToSet(s) : t[c].z_index < z}
                     /\ B = {c \in ToSet(s) : t[c].z_index = z}
                     /\ C = {c \in ToSet(s) : t[c].z_index > z}
  OBVIOUS
<1>4. PICK a, b, c : a = Only(s, A) /\ b = Only(s, B) /\ c = Only(s, C)
  OBVIOUS
<1>5. Reordered(t, g, s) = (a \o b) \o c
  <2>1. Reordered(t, g, s) = a \o b \o c
    BY <1>2, <1>3, <1>4 DEF Reordered
  <2> QED
    BY <2>1
<1>6. Row(t, a) /\ ToSet(a) = ToSet(s) \cap A
  <2>1. g \notin A
    BY <1>2, <1>3
  <2>2. \A i, j \in 1 .. Len(s) :
          i < j /\ s[i] \in A /\ s[j] \in A => t[s[i]].z_index <= t[s[j]].z_index
    BY <2>1 DEF RowBut
  <2> QED
    BY <1>1, <1>4, <2>2, OnlyRow
<1>7. Row(t, b) /\ ToSet(b) = ToSet(s) \cap B
  <2>1. \A i, j \in 1 .. Len(s) :
          i < j /\ s[i] \in B /\ s[j] \in B => t[s[i]].z_index <= t[s[j]].z_index
    BY <1>3
  <2> QED
    BY <1>1, <1>4, <2>1, OnlyRow
<1>8. Row(t, c) /\ ToSet(c) = ToSet(s) \cap C
  <2>1. g \notin C
    BY <1>2, <1>3
  <2>2. \A i, j \in 1 .. Len(s) :
          i < j /\ s[i] \in C /\ s[j] \in C => t[s[i]].z_index <= t[s[j]].z_index
    BY <2>1 DEF RowBut
  <2> QED
    BY <1>1, <1>4, <2>2, OnlyRow
<1>9. Row(t, a \o b) /\ ToSet(a \o b) = ToSet(a) \cup ToSet(b)
  <2>1. ASSUME NEW u \in ToSet(a), NEW v \in ToSet(b)
        PROVE  u # v /\ t[u].z_index <= t[v].z_index
    <3>1. u \in A /\ v \in B /\ u \in ToSet(s)
      BY <1>6, <1>7
    <3>2. t[u].z_index \in Nat
      BY <3>1
    <3> QED
      BY <1>2, <1>3, <3>1, <3>2
  <2>2. Before(t, a, b)
    BY <2>1 DEF Before
  <2> QED
    BY <1>6, <1>7, <2>2, JoinRows
<1>10. Row(t, (a \o b) \o c) /\ ToSet((a \o b) \o c) = ToSet(a \o b) \cup ToSet(c)
  <2>1. ASSUME NEW u \in ToSet(a \o b), NEW v \in ToSet(c)
        PROVE  u # v /\ t[u].z_index <= t[v].z_index
    <3>1. u \in A \cup B /\ v \in C
      BY <1>6, <1>7, <1>8, <1>9
    <3>2. t[u].z_index \in Nat /\ t[v].z_index \in Nat
      <4>1. u \in ToSet(s) /\ v \in ToSet(s)
        BY <1>3, <3>1
      <4> QED
        BY <4>1
    <3>3. t[u].z_index <= z /\ t[v].z_index > z
      BY <1>2, <1>3, <3>1, <3>2
    <3> QED
      BY <1>2, <3>2, <3>3
  <2>2. Before(t, a \o b, c)
    BY <2>1 DEF Before
  <2> QED
    BY <1>8, <1>9, <2>2, JoinRows
<1>11. ToSet(s) = A \cup B \cup C
  <2>1. \A n \in Nat : n < z \/ n = z \/ n > z
    BY <1>2
  <2> QED
    BY <1>3, <2>1
<1> QED
  BY <1>3, <1>5, <1>6, <1>7, <1>8, <1>9, <1>10, <1>11

-----------------------------------------------------------------------------
(* Graphics: the inductive invariant *)

TreeShape(t) ==
    /\ t \in [Ids -> Graphic \cup {NULL}]
    /\ t[Screen] # NULL /\ t[Screen].parent = NULL
    /\ \A g \in Ids : t[g] # NULL /\ t[g].parent # NULL => t[t[g].parent] # NULL

\* c lies where its parent's place and its own put it.
Placed(t, g, c) ==
    /\ t[c].starting_x = uint32(t[g].starting_x + t[c].x)
    /\ t[c].starting_y = uint32(t[g].starting_y + t[c].y)

\* Sound but for the order of the children and the places of those in E.
Family(t, E) ==
    /\ Screen \in LiveIn(t)
    /\ \A g \in LiveIn(t) : \A c \in ToSet(t[g].children) :
          c \in LiveIn(t) /\ t[c].parent = g /\ (c \notin E => Placed(t, g, c))
    /\ \A c \in LiveIn(t) :
          t[c].parent \in LiveIn(t) => c \in ToSet(t[t[c].parent].children)
    /\ \A S \in SUBSET LiveIn(t) : S # {} => \E g \in S : t[g].parent \notin S

Rows(t) == \A g \in LiveIn(t) : Row(t, t[g].children)

Good(t, E) == TreeShape(t) /\ Family(t, E) /\ Rows(t)

TreeInv == Good(tree, {})

LEMMA InGraphic ==
    ASSUME NEW t, TreeShape(t), NEW g \in Ids, t[g] # NULL
    PROVE  /\ t[g] \in Graphic
           /\ t[g].children \in Seq(Ids) /\ t[g].z_index \in Nat
           /\ t[g].parent \in Ids \cup {NULL}
           /\ t[g].x \in Nat /\ t[g].y \in Nat
           /\ t[g].starting_x \in Nat /\ t[g].starting_y \in Nat
           /\ t[g].freed \in BOOLEAN
<1>1. t[g] \in Graphic
  BY DEF TreeShape
<1> QED
  BY <1>1 DEF Graphic

LEMMA LiveIs ==
    ASSUME NEW t, NEW g
    PROVE  g \in LiveIn(t) <=> g \in Ids /\ t[g] # NULL /\ ~t[g].freed
BY DEF LiveIn

\* The inductive invariant is at least what the run checks.
LEMMA GoodIsSound ==
    ASSUME NEW t, Good(t, {})
    PROVE  Sound(t)
<1>1. TreeShape(t) /\ Family(t, {}) /\ Rows(t)
  BY DEF Good
<1>2. ASSUME NEW g \in LiveIn(t)
      PROVE  LET children == t[g].children
             IN  /\ IsInjective(children)
                 /\ \A i \in DOMAIN children :
                       LET c == children[i]
                       IN  /\ c \in LiveIn(t) /\ t[c].parent = g
                           /\ t[c].starting_x = uint32(t[g].starting_x + t[c].x)
                           /\ t[c].starting_y = uint32(t[g].starting_y + t[c].y)
                           /\ \A j \in i + 1 .. Len(children) :
                                 t[c].z_index <= t[children[j]].z_index
                 /\ t[g].parent \in LiveIn(t) => g \in ToSet(t[t[g].parent].children)
  <2>1. PICK s \in Seq(Ids) : s = t[g].children
    BY <1>1, LiveIs, InGraphic
  <2>2. /\ DOMAIN s = 1 .. Len(s) /\ Len(s) \in Nat
        /\ ToSet(s) = {s[i] : i \in 1 .. Len(s)}
    BY Members
  <2>3. Once(s) /\ InOrder(t, s)
    BY <1>1, <2>1 DEF Rows, Row
  <2>4. IsInjective(s)
    BY <2>2, <2>3 DEF IsInjective, Once
  <2>5. ASSUME NEW i \in 1 .. Len(s)
        PROVE  /\ s[i] \in LiveIn(t) /\ t[s[i]].parent = g
               /\ t[s[i]].starting_x = uint32(t[g].starting_x + t[s[i]].x)
               /\ t[s[i]].starting_y = uint32(t[g].starting_y + t[s[i]].y)
    BY <1>1, <2>1, <2>2 DEF Family, Placed
  <2>6. ASSUME NEW i \in 1 .. Len(s), NEW j \in i + 1 .. Len(s)
        PROVE  t[s[i]].z_index <= t[s[j]].z_index
    <3>1. j \in 1 .. Len(s) /\ i < j
      BY <2>2
    <3> QED
      BY <2>3, <3>1 DEF InOrder
  <2>7. t[g].parent \in LiveIn(t) => g \in ToSet(t[t[g].parent].children)
    BY <1>1 DEF Family
  <2> QED
    BY <2>1, <2>2, <2>4, <2>5, <2>6, <2>7
<1> QED
  BY <1>1, <1>2 DEF Sound, Family

-----------------------------------------------------------------------------
(* Graphics: what leaves a tree as it is *)

\* The fields that say where a graphic belongs and lies.
SamePlace(e, r) ==
    /\ e.parent = r.parent /\ e.freed = r.freed /\ e.x = r.x /\ e.y = r.y
    /\ e.starting_x = r.starting_x /\ e.starting_y = r.starting_y

\* The same graphics at the same places with the same children, in any order.
SameFamily(u, t) ==
    \A h \in Ids :
        /\ u[h] = NULL <=> t[h] = NULL
        /\ t[h] # NULL => /\ SamePlace(u[h], t[h])
                          /\ ToSet(u[h].children) = ToSet(t[h].children)

LEMMA FamilyKept ==
    ASSUME NEW t, NEW u, NEW E, TreeShape(t), Family(t, E),
           u \in [Ids -> Graphic \cup {NULL}], SameFamily(u, t)
    PROVE  TreeShape(u) /\ Family(u, E) /\ LiveIn(u) = LiveIn(t)
<1>1. \A h \in Ids : t[h] # NULL =>
        /\ u[h] # NULL /\ u[h].parent = t[h].parent /\ u[h].freed = t[h].freed
        /\ u[h].x = t[h].x /\ u[h].y = t[h].y
        /\ u[h].starting_x = t[h].starting_x /\ u[h].starting_y = t[h].starting_y
        /\ ToSet(u[h].children) = ToSet(t[h].children)
  BY DEF SameFamily, SamePlace
<1>2. \A h \in Ids : u[h] # NULL => t[h] # NULL
  BY DEF SameFamily
<1>3. LiveIn(u) = LiveIn(t)
  BY <1>1, <1>2 DEF LiveIn
<1>4. \A h \in LiveIn(t) : h \in Ids /\ t[h] # NULL
  BY LiveIs
<1>5. TreeShape(u)
  <2>0. u[Screen] # NULL /\ u[Screen].parent = NULL
    BY <1>1 DEF TreeShape, Ids
  <2> SUFFICES ASSUME NEW h \in Ids, u[h] # NULL, u[h].parent # NULL
               PROVE  u[u[h].parent] # NULL
    BY <2>0 DEF TreeShape
  <2>1. t[h] # NULL /\ t[h].parent = u[h].parent
    BY <1>1, <1>2
  <2>2. t[t[h].parent] # NULL /\ t[h].parent \in Ids
    BY <2>1, InGraphic DEF TreeShape
  <2> QED
    BY <1>1, <2>1, <2>2
<1>6. ASSUME NEW g \in LiveIn(t), NEW c \in ToSet(u[g].children)
      PROVE  c \in LiveIn(t) /\ u[c].parent = g /\ (c \notin E => Placed(u, g, c))
  <2>1. c \in ToSet(t[g].children)
    BY <1>1, <1>4
  <2>2. c \in LiveIn(t) /\ t[c].parent = g /\ (c \notin E => Placed(t, g, c))
    BY <2>1 DEF Family
  <2> QED
    BY <1>1, <1>4, <2>2 DEF Placed
<1>7. ASSUME NEW c \in LiveIn(t), u[c].parent \in LiveIn(t)
      PROVE  c \in ToSet(u[u[c].parent].children)
  <2>1. t[c].parent = u[c].parent
    BY <1>1, <1>4
  <2>2. c \in ToSet(t[t[c].parent].children)
    BY <1>7, <2>1 DEF Family
  <2> QED
    BY <1>1, <1>4, <1>7, <2>1, <2>2
<1>8. ASSUME NEW S \in SUBSET LiveIn(t), S # {}
      PROVE  \E g \in S : u[g].parent \notin S
  <2>1. PICK g \in S : t[g].parent \notin S
    BY <1>8 DEF Family
  <2> QED
    BY <1>1, <1>4, <2>1
<1>9. Family(u, E)
  BY <1>3, <1>6, <1>7, <1>8 DEF Family
<1> QED
  BY <1>3, <1>5, <1>9

\* A row that keeps its graphics and their z indices.
LEMMA RowKept ==
    ASSUME NEW t, NEW u, NEW s, Row(t, s),
           \A c \in ToSet(s) : u[c].z_index = t[c].z_index
    PROVE  Row(u, s)
<1>1. s \in Seq(Ids)
  BY DEF Row, Once
<1>2. \A i \in 1 .. Len(s) : s[i] \in ToSet(s)
  BY <1>1, Members
<1> QED
  BY <1>2 DEF Row, InOrder

-----------------------------------------------------------------------------
(* Graphics: one graphic changed *)

LEMMA ZSet ==
    ASSUME NEW r \in Graphic, NEW z \in Nat, NEW e, e = [r EXCEPT !.z_index = z]
    PROVE  e \in Graphic /\ SamePlace(e, r) /\ e.children = r.children /\ e.z_index = z
BY DEF Graphic, SamePlace

LEMMA ChildrenSet ==
    ASSUME NEW r \in Graphic, NEW s \in Seq(Ids), NEW e, e = [r EXCEPT !.children = s]
    PROVE  e \in Graphic /\ SamePlace(e, r) /\ e.children = s /\ e.z_index = r.z_index
BY DEF Graphic, SamePlace

\* u is t with nothing but the z index of g changed, and the order of the
\* children of its parent p.
Reorders(u, t, g, p, z) ==
    /\ u \in [Ids -> Graphic \cup {NULL}] /\ SameFamily(u, t)
    /\ \A h \in Ids : t[h] # NULL =>
          /\ h # p => u[h].children = t[h].children
          /\ u[h].z_index = IF h = g THEN z ELSE t[h].z_index
    /\ Row(u, u[p].children)

LEMMA SetZReorders ==
    ASSUME NEW t, TreeShape(t), NEW g \in Ids, t[g] # NULL, NEW p \in Ids, t[p] # NULL,
           t[g].parent = p, p # g, RowBut(t, t[p].children, g),
           \A c \in ToSet(t[p].children) : t[c] # NULL, NEW z \in Nat
    PROVE  Reorders(graphics_set_z_index(t, g, z), t, g, p, z)
<1>1. PICK e : e = [t[g] EXCEPT !.z_index = z]
  OBVIOUS
<1>2. e \in Graphic /\ SamePlace(e, t[g]) /\ e.children = t[g].children /\ e.z_index = z
  BY <1>1, InGraphic, ZSet
<1>3. PICK v : v = [t EXCEPT ![g] = e]
  OBVIOUS
<1>4. v \in [Ids -> Graphic \cup {NULL}] /\ v[g] = e /\ \A h \in Ids : h # g => v[h] = t[h]
  BY <1>2, <1>3 DEF TreeShape
<1>5. v = [t EXCEPT ![g].z_index = z]
  BY <1>1, <1>3
<1>6. PICK s \in Seq(Ids) : s = t[p].children
  BY InGraphic
<1>7. PICK r : r = Reordered(v, g, s)
  OBVIOUS
<1>8. PICK u : u = graphics_set_z_index(t, g, z)
  OBVIOUS
<1>9. u = [v EXCEPT ![p].children = r]
  BY <1>4, <1>5, <1>6, <1>7, <1>8 DEF graphics_set_z_index
<1>10. \A c \in Ids : t[c] # NULL => v[c].z_index = IF c = g THEN z ELSE t[c].z_index
  BY <1>2, <1>4
<1>11. \A c \in ToSet(s) : c \in Ids /\ t[c] # NULL
  BY <1>6, Members
<1>12. RowBut(v, s, g)
  <2>1. \A i \in 1 .. Len(s) : s[i] \in ToSet(s)
    BY <1>6, Members
  <2> QED
    BY <1>6, <1>10, <1>11, <2>1 DEF RowBut
<1>13. Row(v, r) /\ ToSet(r) = ToSet(s)
  <2>1. \A c \in ToSet(s) : v[c].z_index \in Nat
    BY <1>10, <1>11, InGraphic
  <2>2. v[g].z_index \in Nat
    BY <1>10
  <2> QED
    BY <1>7, <1>12, <2>1, <2>2, ReorderedRow
<1>14. PICK d : d = [t[p] EXCEPT !.children = r]
  OBVIOUS
<1>15. d \in Graphic /\ SamePlace(d, t[p]) /\ d.children = r /\ d.z_index = t[p].z_index
  <2>1. r \in Seq(Ids)
    BY <1>13 DEF Row, Once
  <2> QED
    BY <1>14, <2>1, InGraphic, ChildrenSet
<1>16. u = [v EXCEPT ![p] = d]
  BY <1>4, <1>9, <1>14
<1>17. /\ u \in [Ids -> Graphic \cup {NULL}] /\ u[p] = d /\ u[g] = e
       /\ \A h \in Ids : h # p /\ h # g => u[h] = t[h]
  BY <1>4, <1>15, <1>16
<1>18. e # NULL /\ d # NULL
  BY <1>2, <1>15, NullAssumption
<1>19. SameFamily(u, t)
  <2>1. \A h \in Ids : SamePlace(t[h], t[h])
    BY DEF SamePlace
  <2> QED
    BY <1>2, <1>6, <1>13, <1>15, <1>17, <1>18, <2>1 DEF SameFamily
<1>20. \A h \in Ids : t[h] # NULL =>
          /\ h # p => u[h].children = t[h].children
          /\ u[h].z_index = IF h = g THEN z ELSE t[h].z_index
  BY <1>2, <1>15, <1>17
<1>21. Row(u, u[p].children)
  <2>1. \A c \in ToSet(r) : u[c].z_index = v[c].z_index
    BY <1>10, <1>11, <1>13, <1>20
  <2> QED
    BY <1>13, <1>15, <1>17, <2>1, RowKept
<1> QED
  BY <1>8, <1>17, <1>19, <1>20, <1>21 DEF Reorders

\* Good, but g may be out of order among the children of its parent p.
GoodBut(t, E, g, p) ==
    /\ TreeShape(t) /\ Family(t, E)
    /\ g \in LiveIn(t) /\ p \in LiveIn(t) /\ t[g].parent = p /\ p # g
    /\ \A h \in LiveIn(t) : h # p => Row(t, t[h].children)
    /\ RowBut(t, t[p].children, g)

LEMMA RowIsRowBut ==
    ASSUME NEW t, NEW s, NEW g, Row(t, s)
    PROVE  RowBut(t, s, g)
BY DEF Row, RowBut, InOrder

\* None is its own parent.
LEMMA NotItsParent ==
    ASSUME NEW t, NEW E, Family(t, E), NEW g \in LiveIn(t)
    PROVE  t[g].parent # g
<1>1. {g} \in SUBSET LiveIn(t) /\ {g} # {}
  OBVIOUS
<1>2. PICK h \in {g} : t[h].parent \notin {g}
  BY <1>1 DEF Family
<1> QED
  BY <1>2

LEMMA GoodIsGoodBut ==
    ASSUME NEW t, NEW E, Good(t, E), NEW g \in LiveIn(t), t[g].parent \in LiveIn(t)
    PROVE  GoodBut(t, E, g, t[g].parent)
<1>1. TreeShape(t) /\ Family(t, E) /\ Rows(t)
  BY DEF Good
<1>2. RowBut(t, t[t[g].parent].children, g)
  BY <1>1, RowIsRowBut DEF Rows
<1> QED
  BY <1>1, <1>2, NotItsParent DEF GoodBut, Rows

\* What graphics_set_z_index makes of such a tree.
LEMMA SetZKeeps ==
    ASSUME NEW t, NEW E, NEW g, NEW p, GoodBut(t, E, g, p), NEW z \in Nat
    PROVE  \E u : /\ u = graphics_set_z_index(t, g, z)
                  /\ Good(u, E) /\ SameFamily(u, t) /\ LiveIn(u) = LiveIn(t)
<1>1. PICK u : u = graphics_set_z_index(t, g, z)
  OBVIOUS
<1>2. /\ TreeShape(t) /\ Family(t, E)
      /\ g \in LiveIn(t) /\ p \in LiveIn(t) /\ t[g].parent = p /\ p # g
      /\ \A h \in LiveIn(t) : h # p => Row(t, t[h].children)
      /\ RowBut(t, t[p].children, g)
  BY DEF GoodBut
<1>3. g \in Ids /\ t[g] # NULL /\ p \in Ids /\ t[p] # NULL
  BY <1>2, LiveIs
<1>4. \A c \in ToSet(t[p].children) : t[c] # NULL
  BY <1>2, LiveIs DEF Family
<1>5. Reorders(u, t, g, p, z)
  BY <1>1, <1>2, <1>3, <1>4, SetZReorders
<1>6. /\ u \in [Ids -> Graphic \cup {NULL}] /\ SameFamily(u, t) /\ Row(u, u[p].children)
      /\ \A h \in Ids : t[h] # NULL =>
            /\ h # p => u[h].children = t[h].children
            /\ u[h].z_index = IF h = g THEN z ELSE t[h].z_index
  BY <1>5 DEF Reorders
<1>7. TreeShape(u) /\ Family(u, E) /\ LiveIn(u) = LiveIn(t)
  BY <1>2, <1>6, FamilyKept
<1>8. ASSUME NEW h \in LiveIn(t)
      PROVE  Row(u, u[h].children)
  <2>1. CASE h = p
    BY <1>6, <2>1
  <2>2. CASE h # p
    <3>1. h \in Ids /\ t[h] # NULL
      BY LiveIs
    <3>2. u[h].children = t[h].children
      BY <1>6, <2>2, <3>1
    <3>3. \A c \in ToSet(t[h].children) : c \in Ids /\ t[c] # NULL /\ c # g
      BY <1>2, <2>2, LiveIs DEF Family
    <3>4. \A c \in ToSet(t[h].children) : u[c].z_index = t[c].z_index
      BY <1>6, <3>3
    <3>5. Row(t, t[h].children)
      BY <1>2, <2>2
    <3> QED
      BY <3>2, <3>4, <3>5, RowKept
  <2> QED
    BY <2>1, <2>2
<1>9. Rows(u)
  BY <1>7, <1>8 DEF Rows
<1> QED
  BY <1>1, <1>6, <1>7, <1>9 DEF Good

-----------------------------------------------------------------------------
(* Graphics: coordinates that wrap *)

LEMMA ModShift ==
    ASSUME NEW m \in Nat \ {0}, NEW x \in Int, NEW q \in Int
    PROVE  (x + m * q) % m = x % m
<1>1. PICK y : y = x + m * q
  OBVIOUS
<1>2. y \in Int /\ m * q \in Int
  BY <1>1
<1>3. PICK a, b, r, w : a = x \div m /\ b = y \div m /\ r = x % m /\ w = y % m
  OBVIOUS
<1>4. /\ a \in Int /\ b \in Int /\ r \in 0..m - 1 /\ w \in 0..m - 1
      /\ x = m * a + r /\ y = m * b + w
  BY <1>2, <1>3
<1>5. PICK d : d = a + q - b
  OBVIOUS
<1>6. d \in Int /\ m * d = w - r
  <2>1. m * d = m * a + m * q - m * b
    BY <1>4, <1>5
  <2>2. m * a \in Int /\ m * b \in Int
    BY <1>4
  <2> QED
    BY <1>1, <1>2, <1>4, <1>5, <2>1, <2>2
<1>7. d = 0
  <2>1. ASSUME d >= 1 PROVE FALSE
    <3>1. m * (d - 1) >= 0
      BY <1>6, <2>1
    <3>2. m * (d - 1) = m * d - m
      BY <1>6
    <3> QED
      BY <1>4, <1>6, <3>1, <3>2
  <2>2. ASSUME d <= -1 PROVE FALSE
    <3>1. m * (-d - 1) >= 0
      BY <1>6, <2>2
    <3>2. m * (-d - 1) = -(m * d) - m
      BY <1>6
    <3> QED
      BY <1>4, <1>6, <3>1, <3>2
  <2> QED
    BY <1>6, <2>1, <2>2
<1>8. w = r
  <2>1. m * d = 0
    BY <1>7
  <2> QED
    BY <1>4, <1>6, <2>1
<1> QED
  BY <1>1, <1>3, <1>8

LEMMA Wraps ==
    ASSUME NEW a \in Nat, NEW x \in Nat
    PROVE  /\ uint32(x) \in Nat
           /\ uint32(a + x) \in Nat /\ uint32(a + x) = uint32(a + uint32(x))
<1>1. PICK m : m = Word
  OBVIOUS
<1>2. m \in Nat \ {0}
  BY <1>1, GraphicsAssumption
<1>3. PICK q, r : q = x \div m /\ r = x % m
  OBVIOUS
<1>4. q \in Int /\ r \in Nat /\ x = m * q + r
  BY <1>2, <1>3
<1>5. m * q \in Int
  BY <1>2, <1>4
<1>6. PICK b \in Int : b = a + r
  BY <1>4
<1>7. a + x = b + m * q
  BY <1>4, <1>5, <1>6
<1>8. (b + m * q) % m = b % m /\ b % m \in Nat
  <2>1. m \in Nat \ {0} /\ b \in Int /\ q \in Int
    BY <1>2, <1>4, <1>6
  <2>2. (b + m * q) % m = b % m
    BY ONLY <2>1, ModShift
  <2>3. b % m \in Nat
    BY ONLY <2>1
  <2> QED
    BY <2>2, <2>3
<1>9. uint32(x) = r /\ uint32(a + x) = (a + x) % m /\ uint32(a + r) = b % m
  BY <1>1, <1>3, <1>6 DEF uint32
<1> QED
  BY ONLY <1>4, <1>7, <1>8, <1>9

-----------------------------------------------------------------------------
(* Graphics: bringing to the top *)

\* window_bring_to_top leaves the tree good.
LEMMA BringKeeps ==
    ASSUME NEW t, NEW E, Good(t, E), NEW g \in LiveIn(t), t[g].parent = Screen
    PROVE  \E u : /\ u = window_bring_to_top(t, g)
                  /\ Good(u, E) /\ SameFamily(u, t) /\ LiveIn(u) = LiveIn(t)
<1>1. TreeShape(t) /\ Family(t, E) /\ Screen \in LiveIn(t)
  BY DEF Good, Family
<1>2. PICK s \in Seq(Ids) : s = t[Screen].children
  BY <1>1, LiveIs, InGraphic
<1>3. g \in ToSet(s)
  BY <1>1, <1>2 DEF Family
<1>4. Len(s) \in 1 .. Len(s)
  <2>1. ToSet(s) = {s[i] : i \in 1 .. Len(s)} /\ Len(s) \in Nat
    BY Members
  <2> QED
    BY <1>3, <2>1
<1>5. Last(s) \in ToSet(s)
  BY <1>4, Members DEF Last
<1>6. PICK c : c = Last(s) /\ c \in LiveIn(t)
  BY <1>1, <1>2, <1>5 DEF Family
<1>7. PICK z \in Nat : z = t[c].z_index + 1
  <2>1. t[c].z_index \in Nat
    BY <1>1, <1>6, LiveIs, InGraphic
  <2> QED
    BY <2>1
<1>8. window_bring_to_top(t, g) = graphics_set_z_index(t, g, z)
  BY <1>2, <1>6, <1>7 DEF window_bring_to_top
<1>9. GoodBut(t, E, g, Screen)
  BY <1>1, GoodIsGoodBut
<1> QED
  BY <1>8, <1>9, SetZKeeps

-----------------------------------------------------------------------------
(* Graphics: creating *)

\* Nothing holds what is not created.
LEMMA NotHeld ==
    ASSUME NEW t, NEW E, Family(t, E), NEW g \in Ids, t[g] = NULL, NEW h \in LiveIn(t)
    PROVE  g \notin ToSet(t[h].children)
BY LiveIs DEF Family

LEMMA AppendOnce ==
    ASSUME NEW t, NEW u, NEW s, Row(t, s), NEW g \in Ids, g \notin ToSet(s),
           \A c \in ToSet(s) : u[c].z_index = t[c].z_index
    PROVE  RowBut(u, Append(s, g), g) /\ ToSet(Append(s, g)) = ToSet(s) \cup {g}
<1>1. s \in Seq(Ids) /\ \A i, j \in 1 .. Len(s) : s[i] = s[j] => i = j
  BY DEF Row, Once
<1>2. PICK n \in Nat : n = Len(s)
  BY <1>1
<1>3. PICK r \in Seq(Ids) : r = Append(s, g)
  <2>1. Append(s, g) \in Seq(Ids)
    BY <1>1
  <2> QED
    BY <2>1
<1>4. Len(r) = n + 1 /\ r[n + 1] = g /\ \A i \in 1 .. n : r[i] = s[i]
  BY <1>1, <1>2, <1>3
<1>5. \A i \in 1 .. n + 1 : i \in 1 .. n \/ i = n + 1
  OBVIOUS
<1>6. \A i \in 1 .. n : s[i] \in ToSet(s) /\ s[i] # g
  BY <1>1, <1>2, Members
<1>7. Once(r)
  <2> SUFFICES ASSUME NEW i \in 1 .. n + 1, NEW j \in 1 .. n + 1, r[i] = r[j]
               PROVE  i = j
    BY <1>4 DEF Once
  <2> QED
    BY <1>1, <1>2, <1>4, <1>5, <1>6
<1>8. ASSUME NEW i \in 1 .. n + 1, NEW j \in 1 .. n + 1, i < j, r[i] # g, r[j] # g
      PROVE  u[r[i]].z_index <= u[r[j]].z_index
  <2>1. i \in 1 .. n /\ j \in 1 .. n
    BY <1>4, <1>5, <1>8
  <2>2. t[s[i]].z_index <= t[s[j]].z_index
    BY <1>2, <1>8, <2>1 DEF Row, InOrder
  <2> QED
    BY <1>4, <1>6, <2>1, <2>2
<1>9. RowBut(u, r, g)
  BY <1>4, <1>7, <1>8 DEF RowBut
<1>10. ToSet(r) = ToSet(s) \cup {g}
  <2>1. ToSet(r) = {r[i] : i \in 1 .. n + 1} /\ ToSet(s) = {s[i] : i \in 1 .. n}
    BY <1>1, <1>2, <1>4, Members
  <2>2. \A i \in 1 .. n + 1 : r[i] \in ToSet(s) \cup {g}
    BY <1>4, <1>5, <1>6
  <2>3. \A i \in 1 .. n : i \in 1 .. n + 1
    OBVIOUS
  <2>4. \A i \in 1 .. n : s[i] \in {r[j] : j \in 1 .. n + 1}
    BY <1>4, <2>3
  <2>5. n + 1 \in 1 .. n + 1 /\ g = r[n + 1]
    BY <1>4
  <2> QED
    BY <2>1, <2>2, <2>4, <2>5
<1> QED
  BY <1>3, <1>9, <1>10

\* What graphics_info_create_relative allocates.
NewGraphic(t, p, x, y, width, height) ==
    [parent |-> p, children |-> <<>>, x |-> uint32(x), y |-> uint32(y),
     starting_x |-> uint32(t[p].starting_x + x),
     starting_y |-> uint32(t[p].starting_y + y),
     width |-> width, height |-> height, z_index |-> 0,
     keyed |-> FALSE, click |-> FALSE, framed |-> FALSE, freed |-> FALSE,
     holes |-> IF p = Screen THEN {} ELSE CopiedHoles(t, p, x, y, width, height)]

NewOf(c, t, p) ==
    /\ c \in Graphic /\ c # NULL
    /\ c.parent = p /\ c.children = <<>> /\ c.freed = FALSE
    /\ c.starting_x = uint32(t[p].starting_x + c.x)
    /\ c.starting_y = uint32(t[p].starting_y + c.y)

LEMMA NewIs ==
    ASSUME NEW t, TreeShape(t), NEW p \in Ids, t[p] # NULL,
           NEW x \in Nat, NEW y \in Nat, NEW width \in Nat, NEW height \in Nat,
           NEW c, c = NewGraphic(t, p, x, y, width, height)
    PROVE  NewOf(c, t, p)
<1>1. t[p].starting_x \in Nat /\ t[p].starting_y \in Nat
  BY InGraphic
<1>2. /\ uint32(x) \in Nat /\ uint32(y) \in Nat
      /\ uint32(t[p].starting_x + x) \in Nat /\ uint32(t[p].starting_y + y) \in Nat
  BY <1>1, Wraps
<1>3. PICK H : H = IF p = Screen THEN {} ELSE CopiedHoles(t, p, x, y, width, height)
  OBVIOUS
<1>4. H \in SUBSET (Int \X Int)
  BY <1>3 DEF CopiedHoles
<1>5. <<>> \in Seq(Ids)
  OBVIOUS
<1>6. c \in Graphic
  <2>1. c = [parent |-> p, children |-> <<>>, x |-> uint32(x), y |-> uint32(y),
             starting_x |-> uint32(t[p].starting_x + x),
             starting_y |-> uint32(t[p].starting_y + y),
             width |-> width, height |-> height, z_index |-> 0,
             keyed |-> FALSE, click |-> FALSE, framed |-> FALSE, freed |-> FALSE,
             holes |-> H]
    BY <1>3 DEF NewGraphic
  <2> QED
    BY <1>2, <1>4, <1>5, <2>1 DEF Graphic
<1>7. c.parent = p /\ c.children = <<>> /\ c.freed = FALSE /\ c.x = uint32(x)
      /\ c.y = uint32(y) /\ c.starting_x = uint32(t[p].starting_x + x)
      /\ c.starting_y = uint32(t[p].starting_y + y)
  BY DEF NewGraphic
<1>8. /\ uint32(t[p].starting_x + x) = uint32(t[p].starting_x + uint32(x))
      /\ uint32(t[p].starting_y + y) = uint32(t[p].starting_y + uint32(y))
  BY <1>1, Wraps
<1>9. c # NULL
  BY <1>6, NullAssumption
<1> QED
  BY <1>6, <1>7, <1>8, <1>9 DEF NewOf

\* v is t with a new graphic g, the last of the children of p.
Adds(v, t, g, p) ==
    /\ v \in [Ids -> Graphic \cup {NULL}]
    /\ t[g] = NULL /\ v[g] # NULL /\ v[g].parent = p /\ v[g].children = <<>>
    /\ v[g].freed = FALSE /\ Placed(v, p, g)
    /\ v[p] # NULL /\ SamePlace(v[p], t[p]) /\ v[p].z_index = t[p].z_index
    /\ v[p].children = Append(t[p].children, g)
    /\ \A h \in Ids : h # g /\ h # p => v[h] = t[h]

\* u is what is made of it when g is put in its place.
Inserts(u, t, g, p) ==
    \E v : Adds(v, t, g, p) /\ u = graphics_set_z_index(v, g, Len(v[p].children))

LEMMA CreateAdds ==
    ASSUME NEW t, TreeShape(t), NEW p \in Ids, t[p] # NULL, NEW g \in Ids, t[g] = NULL,
           NEW x \in Nat, NEW y \in Nat, NEW width \in Nat, NEW height \in Nat
    PROVE  Inserts(graphics_info_create_relative(t, p, g, x, y, width, height), t, g, p)
<1>0. TreeShape(t) /\ p \in Ids /\ t[p] # NULL
  OBVIOUS
<1>1. PICK c : c = NewGraphic(t, p, x, y, width, height)
  OBVIOUS
<1>2. /\ c \in Graphic /\ c # NULL
      /\ c.parent = p /\ c.children = <<>> /\ c.freed = FALSE
      /\ c.starting_x = uint32(t[p].starting_x + c.x)
      /\ c.starting_y = uint32(t[p].starting_y + c.y)
  <2>1. NewOf(c, t, p)
    BY <1>1, NewIs
  <2> QED
    BY <2>1 DEF NewOf
<1>3. PICK s \in Seq(Ids) : s = Append(t[p].children, g)
  <2>1. PICK q \in Seq(Ids) : q = t[p].children
    BY InGraphic
  <2>2. Append(q, g) \in Seq(Ids)
    OBVIOUS
  <2> QED
    BY <2>1, <2>2
<1>4. PICK d : d = [t[p] EXCEPT !.children = s]
  OBVIOUS
<1>5. /\ d \in Graphic /\ SamePlace(d, t[p]) /\ d.children = s
      /\ d.z_index = t[p].z_index /\ d # NULL
  BY <1>4, InGraphic, ChildrenSet, NullAssumption
<1>6. p # g
  OBVIOUS
<1>7. PICK v : v = [[t EXCEPT ![g] = c] EXCEPT ![p] = d]
  OBVIOUS
<1>8. /\ v \in [Ids -> Graphic \cup {NULL}] /\ v[g] = c /\ v[p] = d
      /\ \A h \in Ids : h # g /\ h # p => v[h] = t[h]
  BY <1>2, <1>5, <1>6, <1>7 DEF TreeShape
<1>9. v = [t EXCEPT ![g] = c, ![p].children = Append(@, g)]
  BY <1>3, <1>4, <1>6, <1>7 DEF TreeShape
<1>10. Placed(v, p, g)
  <2>1. v[p].starting_x = t[p].starting_x /\ v[p].starting_y = t[p].starting_y
    BY <1>5, <1>8 DEF SamePlace
  <2> QED
    BY <1>2, <1>8, <2>1 DEF Placed
<1>11. Adds(v, t, g, p)
  BY <1>2, <1>3, <1>5, <1>8, <1>10 DEF Adds
<1>12. v = [t EXCEPT
              ![g] = [parent |-> p, children |-> <<>>, x |-> uint32(x), y |-> uint32(y),
                      starting_x |-> uint32(t[p].starting_x + x),
                      starting_y |-> uint32(t[p].starting_y + y),
                      width |-> width, height |-> height, z_index |-> 0,
                      keyed |-> FALSE, click |-> FALSE, framed |-> FALSE, freed |-> FALSE,
                      holes |-> IF p = Screen THEN {}
                                ELSE CopiedHoles(t, p, x, y, width, height)],
              ![p].children = Append(@, g)]
  BY <1>1, <1>9 DEF NewGraphic
<1>13. graphics_info_create_relative(t, p, g, x, y, width, height)
         = graphics_set_z_index(v, g, Len(v[p].children))
  BY ONLY <1>12 DEF graphics_info_create_relative
<1> QED
  BY <1>11, <1>13 DEF Inserts

LEMMA AddsKeeps ==
    ASSUME NEW t, Good(t, {}), NEW p \in LiveIn(t), NEW g \in Ids, NEW v, Adds(v, t, g, p)
    PROVE  GoodBut(v, {}, g, p) /\ LiveIn(v) = LiveIn(t) \cup {g}
<1>1. TreeShape(t) /\ Family(t, {}) /\ Rows(t)
  BY DEF Good
<1>2. p \in Ids /\ t[p] # NULL /\ ~t[p].freed /\ t[g] = NULL /\ p # g
  BY LiveIs DEF Adds
<1>3. /\ v \in [Ids -> Graphic \cup {NULL}]
      /\ v[g] # NULL /\ v[g].parent = p /\ v[g].children = <<>> /\ ~v[g].freed
      /\ Placed(v, p, g) /\ v[p].children = Append(t[p].children, g)
  BY DEF Adds
<1>4. \A h \in Ids : h # g =>
        /\ v[h] = NULL <=> t[h] = NULL
        /\ t[h] # NULL =>
              /\ v[h].parent = t[h].parent /\ v[h].freed = t[h].freed
              /\ v[h].x = t[h].x /\ v[h].y = t[h].y
              /\ v[h].starting_x = t[h].starting_x /\ v[h].starting_y = t[h].starting_y
              /\ v[h].z_index = t[h].z_index
  BY <1>2 DEF Adds, SamePlace
<1>5. \A h \in Ids : h # g /\ h # p => v[h].children = t[h].children
  BY DEF Adds
<1>6. LiveIn(v) = LiveIn(t) \cup {g}
  BY <1>2, <1>3, <1>4 DEF LiveIn
<1>7. \A h \in LiveIn(t) : h \in Ids /\ t[h] # NULL /\ h # g
  BY <1>2, LiveIs
<1>8. Row(t, t[p].children)
  BY <1>1 DEF Rows
<1>9. g \notin ToSet(t[p].children)
  BY <1>1, <1>2, NotHeld
<1>10. \A h \in LiveIn(t) : \A c \in ToSet(t[h].children) : c \in LiveIn(t)
  BY <1>1 DEF Family
<1>11. RowBut(v, v[p].children, g) /\ ToSet(v[p].children) = ToSet(t[p].children) \cup {g}
  <2>1. \A c \in ToSet(t[p].children) : v[c].z_index = t[c].z_index
    BY <1>4, <1>7, <1>10
  <2> QED
    BY <1>3, <1>8, <1>9, <2>1, AppendOnce
<1>12. TreeShape(v)
  <2>0. v[Screen] # NULL /\ v[Screen].parent = NULL
    BY <1>1, <1>2, <1>4 DEF TreeShape, Ids
  <2> SUFFICES ASSUME NEW h \in Ids, v[h] # NULL, v[h].parent # NULL
               PROVE  v[v[h].parent] # NULL
    BY <1>3, <2>0 DEF TreeShape
  <2>1. CASE h = g
    BY <1>2, <1>3, <1>4, <2>1
  <2>2. CASE h # g
    <3>1. t[h] # NULL /\ t[h].parent = v[h].parent
      BY <1>4, <2>2
    <3>2. t[h].parent \in Ids /\ t[t[h].parent] # NULL
      BY <1>1, <3>1, InGraphic DEF TreeShape
    <3> QED
      BY <1>2, <1>4, <3>1, <3>2
  <2> QED
    BY <2>1, <2>2
<1>13. ASSUME NEW h \in LiveIn(v), NEW c \in ToSet(v[h].children)
       PROVE  c \in LiveIn(v) /\ v[c].parent = h /\ Placed(v, h, c)
  <2>1. CASE h = g
    <3>1. ToSet(v[h].children) = {}
      BY <1>3, <2>1 DEF ToSet
    <3> QED
      BY <3>1
  <2>2. CASE h = p /\ c = g
    BY <1>3, <1>6, <2>2
  <2>3. CASE h # g /\ ~(h = p /\ c = g)
    <3>1. h \in LiveIn(t) /\ c \in ToSet(t[h].children)
      BY <1>5, <1>6, <1>7, <1>11, <2>3
    <3>2. c \in LiveIn(t) /\ t[c].parent = h /\ Placed(t, h, c)
      BY <1>1, <3>1 DEF Family
    <3> QED
      BY <1>4, <1>6, <1>7, <3>1, <3>2 DEF Placed
  <2> QED
    BY <2>1, <2>2, <2>3
<1>14. ASSUME NEW c \in LiveIn(v), v[c].parent \in LiveIn(v)
       PROVE  c \in ToSet(v[v[c].parent].children)
  <2>1. CASE c = g
    BY <1>3, <1>11, <2>1
  <2>2. CASE c # g
    <3>1. c \in LiveIn(t) /\ t[c].parent = v[c].parent
      BY <1>4, <1>6, <1>7, <2>2
    <3>2. t[c].parent # g
      <4>1. c \in Ids /\ t[c] # NULL
        BY <1>7, <3>1
      <4>2. t[c].parent # NULL => t[t[c].parent] # NULL
        BY <1>1, <4>1 DEF TreeShape
      <4>3. t[c].parent # NULL
        BY <1>14, <1>6, <1>7, <3>1, GraphicsAssumption DEF LiveIn, Ids
      <4> QED
        BY <1>2, <4>2, <4>3
    <3>3. t[c].parent \in LiveIn(t)
      BY <1>6, <1>14, <3>1, <3>2
    <3>4. c \in ToSet(t[t[c].parent].children)
      BY <1>1, <3>1, <3>3 DEF Family
    <3>5. ToSet(t[t[c].parent].children) \subseteq ToSet(v[t[c].parent].children)
      BY <1>5, <1>7, <1>11, <3>3
    <3> QED
      BY <3>1, <3>4, <3>5
  <2> QED
    BY <2>1, <2>2
<1>15. ASSUME NEW S \in SUBSET LiveIn(v), S # {}
       PROVE  \E h \in S : v[h].parent \notin S
  <2>1. CASE S = {g}
    BY <1>2, <1>3, <2>1
  <2>2. CASE S # {g}
    <3>1. S \ {g} \in SUBSET LiveIn(t) /\ S \ {g} # {}
      BY <1>6, <1>15, <2>2
    <3>2. PICK h \in S \ {g} : t[h].parent \notin S \ {g}
      BY <1>1, <3>1 DEF Family
    <3>3. h \in LiveIn(t) /\ h \in Ids /\ t[h] # NULL
      BY <1>7, <3>1, <3>2
    <3>4. t[h].parent # g
      <4>1. t[h].parent # NULL => t[t[h].parent] # NULL
        BY <1>1, <3>3 DEF TreeShape
      <4>2. g # NULL
        BY GraphicsAssumption DEF Ids
      <4> QED
        BY <1>2, <4>1, <4>2
    <3> QED
      BY <1>4, <3>2, <3>3, <3>4
  <2> QED
    BY <2>1, <2>2
<1>16. Screen \in LiveIn(v)
  BY <1>1, <1>6 DEF Family
<1>17. Family(v, {})
  BY <1>13, <1>14, <1>15, <1>16 DEF Family
<1>18. ASSUME NEW h \in LiveIn(v), h # p
       PROVE  Row(v, v[h].children)
  <2>1. CASE h = g
    <3>1. <<>> \in Seq(Ids) /\ Len(<<>>) = 0
      OBVIOUS
    <3>2. Row(v, <<>>)
      BY <3>1 DEF Row, Once, InOrder
    <3> QED
      BY <1>3, <2>1, <3>2
  <2>2. CASE h # g
    <3>1. h \in LiveIn(t) /\ v[h].children = t[h].children
      BY <1>5, <1>6, <1>7, <1>18, <2>2
    <3>2. \A c \in ToSet(t[h].children) : v[c].z_index = t[c].z_index
      BY <1>4, <1>7, <1>10, <3>1
    <3> QED
      BY <1>1, <3>1, <3>2, RowKept DEF Rows
  <2> QED
    BY <2>1, <2>2
<1> QED
  BY <1>2, <1>3, <1>6, <1>11, <1>12, <1>17, <1>18 DEF GoodBut

\* What is there stays, and g is new.
IsCreated(u, t, g, p) ==
    /\ u[g] # NULL /\ u[g].parent = p
    /\ LiveIn(u) = LiveIn(t) \cup {g}
    /\ \A h \in Ids : h # g =>
          /\ u[h] = NULL <=> t[h] = NULL
          /\ t[h] # NULL => u[h].parent = t[h].parent

\* graphics_info_create_relative leaves it good, with one graphic more.
LEMMA CreateKeeps ==
    ASSUME NEW t, Good(t, {}), NEW p \in LiveIn(t), NEW g \in Ids, t[g] = NULL,
           NEW x \in Nat, NEW y \in Nat, NEW width \in Nat, NEW height \in Nat
    PROVE  \E u : /\ u = graphics_info_create_relative(t, p, g, x, y, width, height)
                  /\ Good(u, {}) /\ IsCreated(u, t, g, p)
<1>1. TreeShape(t) /\ p \in Ids /\ t[p] # NULL
  BY LiveIs DEF Good
<1>2. PICK v : /\ Adds(v, t, g, p)
               /\ graphics_info_create_relative(t, p, g, x, y, width, height)
                  = graphics_set_z_index(v, g, Len(v[p].children))
  <2>1. Inserts(graphics_info_create_relative(t, p, g, x, y, width, height), t, g, p)
    BY <1>1, CreateAdds
  <2> QED
    BY <2>1 DEF Inserts
<1>3. GoodBut(v, {}, g, p) /\ LiveIn(v) = LiveIn(t) \cup {g}
  BY <1>2, AddsKeeps
<1>4. PICK n \in Nat : n = Len(v[p].children)
  <2>1. v[p].children \in Seq(Ids)
    BY <1>3 DEF GoodBut, RowBut, Once
  <2> QED
    BY <2>1
<1>5. PICK u : /\ u = graphics_set_z_index(v, g, n)
               /\ Good(u, {}) /\ SameFamily(u, v) /\ LiveIn(u) = LiveIn(v)
  BY <1>3, <1>4, SetZKeeps
<1>6. IsCreated(u, t, g, p)
  <2>1. \A h \in Ids : /\ u[h] = NULL <=> v[h] = NULL
                       /\ v[h] # NULL => u[h].parent = v[h].parent
    BY <1>5 DEF SameFamily, SamePlace
  <2>2. /\ v[g] # NULL /\ v[g].parent = p /\ p # g
        /\ v[p] # NULL /\ v[p].parent = t[p].parent
        /\ \A h \in Ids : h # g /\ h # p => v[h] = t[h]
    BY <1>1, <1>2 DEF Adds, SamePlace
  <2>3. \A h \in Ids : h # g =>
          /\ u[h] = NULL <=> t[h] = NULL
          /\ t[h] # NULL => u[h].parent = t[h].parent
    BY <1>1, <2>1, <2>2
  <2> QED
    BY <1>3, <1>5, <2>1, <2>2, <2>3 DEF IsCreated
<1> QED
  BY <1>2, <1>4, <1>5, <1>6

-----------------------------------------------------------------------------
(* Graphics: drawing, and moving alone *)

\* u is t as far as the tree goes.
SameTree(u, t) ==
    \A h \in Ids :
        /\ u[h] = NULL <=> t[h] = NULL
        /\ t[h] # NULL => /\ SamePlace(u[h], t[h]) /\ u[h].children = t[h].children
                          /\ u[h].z_index = t[h].z_index

LEMMA SameTreeKeeps ==
    ASSUME NEW t, NEW E, Good(t, E), NEW u \in [Ids -> Graphic \cup {NULL}], SameTree(u, t)
    PROVE  Good(u, E) /\ SameFamily(u, t) /\ LiveIn(u) = LiveIn(t)
<1>1. TreeShape(t) /\ Family(t, E) /\ Rows(t)
  BY DEF Good
<1>2. SameFamily(u, t)
  BY DEF SameTree, SameFamily
<1>3. TreeShape(u) /\ Family(u, E) /\ LiveIn(u) = LiveIn(t)
  BY <1>1, <1>2, FamilyKept
<1>4. ASSUME NEW h \in LiveIn(t) PROVE Row(u, u[h].children)
  <2>1. u[h].children = t[h].children
    BY LiveIs DEF SameTree
  <2>2. \A c \in ToSet(t[h].children) : c \in Ids /\ t[c] # NULL
    BY <1>1, LiveIs DEF Family
  <2>3. \A c \in ToSet(t[h].children) : u[c].z_index = t[c].z_index
    BY <2>2 DEF SameTree
  <2> QED
    BY <1>1, <2>1, <2>3, RowKept DEF Rows
<1> QED
  BY <1>2, <1>3, <1>4 DEF Good, Rows

\* One graphic is changed in nothing that the tree is made of.
IsSetTo(u, t, g, e) == u = [t EXCEPT ![g] = e]

LEMMA OneChanged ==
    ASSUME NEW t, NEW E, Good(t, E), NEW g \in Ids, t[g] # NULL, NEW e \in Graphic,
           SamePlace(e, t[g]), e.children = t[g].children, e.z_index = t[g].z_index,
           NEW u, IsSetTo(u, t, g, e)
    PROVE  Good(u, E) /\ SameFamily(u, t) /\ LiveIn(u) = LiveIn(t)
<1>1. t \in [Ids -> Graphic \cup {NULL}]
  BY DEF Good, TreeShape
<1>2. /\ u \in [Ids -> Graphic \cup {NULL}] /\ u[g] = e
      /\ \A h \in Ids : h # g => u[h] = t[h]
  BY <1>1 DEF IsSetTo
<1>3. e # NULL
  BY NullAssumption
<1>4. SameTree(u, t)
  BY <1>2, <1>3 DEF SameTree, SamePlace
<1> QED
  BY <1>2, <1>4, SameTreeKeeps

LEMMA HolesSet ==
    ASSUME NEW r \in Graphic, NEW s \in SUBSET (Int \X Int), NEW e,
           e = [r EXCEPT !.holes = s]
    PROVE  /\ e \in Graphic /\ SamePlace(e, r)
           /\ e.children = r.children /\ e.z_index = r.z_index
BY DEF Graphic, SamePlace

LEMMA KeyedSet ==
    ASSUME NEW r \in Graphic, NEW b \in BOOLEAN, NEW e, e = [r EXCEPT !.keyed = b]
    PROVE  /\ e \in Graphic /\ SamePlace(e, r)
           /\ e.children = r.children /\ e.z_index = r.z_index
BY DEF Graphic, SamePlace

LEMMA FramedSet ==
    ASSUME NEW r \in Graphic, NEW e, e = [r EXCEPT !.framed = TRUE]
    PROVE  /\ e \in Graphic /\ SamePlace(e, r)
           /\ e.children = r.children /\ e.z_index = r.z_index
BY DEF Graphic, SamePlace

LEMMA ClickSet ==
    ASSUME NEW r \in Graphic, NEW e, e = [r EXCEPT !.click = TRUE]
    PROVE  /\ e \in Graphic /\ SamePlace(e, r)
           /\ e.children = r.children /\ e.z_index = r.z_index
BY DEF Graphic, SamePlace

PutAt(r, a, b) == [r EXCEPT !.x = a, !.y = b]

\* Nothing else is changed.
IsPutAt(e, r) ==
    /\ e.parent = r.parent /\ e.freed = r.freed
    /\ e.starting_x = r.starting_x /\ e.starting_y = r.starting_y
    /\ e.children = r.children /\ e.z_index = r.z_index

LEMMA PutIs ==
    ASSUME NEW r \in Graphic, NEW a \in Nat, NEW b \in Nat
    PROVE  PutAt(r, a, b) \in Graphic /\ IsPutAt(PutAt(r, a, b), r)
BY DEF Graphic, PutAt, IsPutAt

StartAt(r, a, b) == [r EXCEPT !.starting_x = a, !.starting_y = b]

IsStartAt(e, r, a, b) ==
    /\ e.parent = r.parent /\ e.freed = r.freed /\ e.x = r.x /\ e.y = r.y
    /\ e.starting_x = a /\ e.starting_y = b
    /\ e.children = r.children /\ e.z_index = r.z_index

LEMMA StartIs ==
    ASSUME NEW r \in Graphic, NEW a \in Nat, NEW b \in Nat
    PROVE  StartAt(r, a, b) \in Graphic /\ IsStartAt(StartAt(r, a, b), r, a, b)
BY DEF Graphic, StartAt, IsStartAt

LeftWith(r, b, s) == [r EXCEPT !.freed = b, !.children = s]

IsLeftWith(e, r, b, s) ==
    /\ e.parent = r.parent /\ e.freed = b /\ e.x = r.x /\ e.y = r.y
    /\ e.starting_x = r.starting_x /\ e.starting_y = r.starting_y
    /\ e.children = s /\ e.z_index = r.z_index

LEMMA LeftIs ==
    ASSUME NEW r \in Graphic, NEW b \in BOOLEAN, NEW s \in Seq(Ids)
    PROVE  LeftWith(r, b, s) \in Graphic /\ IsLeftWith(LeftWith(r, b, s), r, b, s)
BY DEF Graphic, LeftWith, IsLeftWith

IsMovedTo(u, t, g, a, b) == u = [t EXCEPT ![g].x = a, ![g].y = b]

SameParents(u, t) == \A h \in LiveIn(t) : u[h].parent = t[h].parent

\* A window that is given another place is all that is out of place.
LEMMA MoveAlone ==
    ASSUME NEW t, Good(t, {}), NEW g \in LiveIn(t), NEW a \in Nat, NEW b \in Nat,
           NEW u, IsMovedTo(u, t, g, a, b)
    PROVE  Good(u, {g}) /\ LiveIn(u) = LiveIn(t) /\ SameParents(u, t)
<1>1. TreeShape(t) /\ Family(t, {}) /\ Rows(t) /\ g \in Ids /\ t[g] # NULL
  BY LiveIs DEF Good
<1>2. PICK e : e = PutAt(t[g], a, b)
  OBVIOUS
<1>3. e \in Graphic /\ IsPutAt(e, t[g]) /\ e # NULL
  <2>1. t[g] \in Graphic
    BY <1>1, InGraphic
  <2> QED
    BY <1>2, <2>1, PutIs, NullAssumption
<1>4. u = [t EXCEPT ![g] = e]
  BY <1>1, <1>2 DEF TreeShape, PutAt, IsMovedTo
<1>5. /\ u \in [Ids -> Graphic \cup {NULL}] /\ u[g] = e
      /\ \A h \in Ids : h # g => u[h] = t[h]
  BY <1>1, <1>3, <1>4 DEF TreeShape
<1>6. \A h \in Ids :
        /\ u[h] = NULL <=> t[h] = NULL
        /\ t[h] # NULL =>
              /\ u[h].parent = t[h].parent /\ u[h].freed = t[h].freed
              /\ u[h].starting_x = t[h].starting_x /\ u[h].starting_y = t[h].starting_y
              /\ u[h].children = t[h].children /\ u[h].z_index = t[h].z_index
              /\ h # g => u[h].x = t[h].x /\ u[h].y = t[h].y
  <2> SUFFICES ASSUME NEW h \in Ids
               PROVE  /\ u[h] = NULL <=> t[h] = NULL
                      /\ t[h] # NULL =>
                            /\ u[h].parent = t[h].parent /\ u[h].freed = t[h].freed
                            /\ u[h].starting_x = t[h].starting_x
                            /\ u[h].starting_y = t[h].starting_y
                            /\ u[h].children = t[h].children
                            /\ u[h].z_index = t[h].z_index
                            /\ h # g => u[h].x = t[h].x /\ u[h].y = t[h].y
    OBVIOUS
  <2>1. CASE h = g
    BY <1>1, <1>3, <1>5, <2>1 DEF IsPutAt
  <2>2. CASE h # g
    BY <1>5, <2>2
  <2> QED
    BY <2>1, <2>2
<1>7. LiveIn(u) = LiveIn(t)
  <2>1. \A h \in Ids : /\ u[h] = NULL <=> t[h] = NULL
                       /\ t[h] # NULL => u[h].freed = t[h].freed
    BY <1>6
  <2>2. \A h \in Ids : u[h] # NULL /\ ~u[h].freed <=> t[h] # NULL /\ ~t[h].freed
    BY <2>1
  <2> QED
    BY <2>2 DEF LiveIn
<1>8. TreeShape(u)
  <2>1. u[Screen] # NULL /\ u[Screen].parent = NULL
    BY <1>1, <1>6 DEF TreeShape, Ids
  <2>2. ASSUME NEW h \in Ids, u[h] # NULL, u[h].parent # NULL
        PROVE  u[u[h].parent] # NULL
    <3>1. t[h] # NULL /\ u[h].parent = t[h].parent
      BY <1>6, <2>2
    <3>2. t[h].parent \in Ids /\ t[t[h].parent] # NULL
      BY <1>1, <2>2, <3>1, InGraphic DEF TreeShape
    <3> QED
      BY <1>6, <3>1, <3>2
  <2> QED
    BY <1>5, <2>1, <2>2 DEF TreeShape
<1>9. \A h \in LiveIn(t) :
        /\ h \in Ids /\ t[h] # NULL /\ u[h].parent = t[h].parent
        /\ u[h].children = t[h].children /\ u[h].z_index = t[h].z_index
  <2> SUFFICES ASSUME NEW h \in LiveIn(t)
               PROVE  /\ h \in Ids /\ t[h] # NULL /\ u[h].parent = t[h].parent
                      /\ u[h].children = t[h].children /\ u[h].z_index = t[h].z_index
    OBVIOUS
  <2>1. h \in Ids /\ t[h] # NULL
    BY LiveIs
  <2> QED
    BY <1>6, <2>1
<1>10. ASSUME NEW h \in LiveIn(t), NEW c \in ToSet(u[h].children)
       PROVE  c \in LiveIn(t) /\ u[c].parent = h /\ (c # g => Placed(u, h, c))
  <2>1. c \in ToSet(t[h].children)
    BY <1>6, <1>9
  <2>2. c \in LiveIn(t) /\ t[c].parent = h /\ Placed(t, h, c)
    BY <1>1, <2>1 DEF Family
  <2> QED
    BY <1>6, <1>9, <2>2 DEF Placed
<1>11. ASSUME NEW c \in LiveIn(t), u[c].parent \in LiveIn(t)
       PROVE  c \in ToSet(u[u[c].parent].children)
  <2>1. u[c].parent = t[c].parent
    BY <1>6, <1>9
  <2>2. c \in ToSet(t[t[c].parent].children)
    BY <1>1, <1>11, <2>1 DEF Family
  <2> QED
    BY <1>9, <1>11, <2>1, <2>2
<1>12. ASSUME NEW S \in SUBSET LiveIn(t), S # {}
       PROVE  \E h \in S : u[h].parent \notin S
  <2>1. PICK h \in S : t[h].parent \notin S
    BY <1>1, <1>12 DEF Family
  <2> QED
    BY <1>9, <2>1
<1>13. Family(u, {g})
  <2>1. Screen \in LiveIn(t)
    BY <1>1 DEF Family
  <2> QED
    BY <1>7, <1>10, <1>11, <1>12, <2>1 DEF Family
<1>14. ASSUME NEW h \in LiveIn(t) PROVE Row(u, u[h].children)
  <2>1. \A c \in ToSet(t[h].children) : c \in LiveIn(t)
    BY <1>1 DEF Family
  <2>2. \A c \in ToSet(t[h].children) : u[c].z_index = t[c].z_index
    BY <1>9, <2>1
  <2>3. Row(t, t[h].children)
    BY <1>1 DEF Rows
  <2>4. Row(u, t[h].children)
    BY <2>2, <2>3, RowKept
  <2> QED
    BY <1>9, <2>4
<1>15. SameParents(u, t)
  BY <1>9 DEF SameParents
<1> QED
  BY <1>7, <1>8, <1>13, <1>14, <1>15 DEF Good, Rows

-----------------------------------------------------------------------------
(* Graphics: what a recursion over the children reaches *)

LEMMA ReachedStays ==
    ASSUME NEW g, NEW next, NEW S \in SUBSET Ids, g \in S,
           \A c \in S : next[c] \subseteq S
    PROVE  Reached(g, next) \subseteq S
BY DEF Reached

LEMMA ReachedStarts ==
    ASSUME NEW g \in Ids, NEW next
    PROVE  g \in Reached(g, next) /\ Reached(g, next) \in SUBSET Ids
BY DEF Reached

LEMMA ReachedGoesOn ==
    ASSUME NEW g \in Ids, NEW next, NEW c \in Reached(g, next), next[c] \subseteq Ids
    PROVE  next[c] \subseteq Reached(g, next)
<1> SUFFICES ASSUME NEW h \in next[c], NEW S \in SUBSET Ids, g \in S,
                    \A d \in S : next[d] \subseteq S
             PROVE  h \in S
  BY DEF Reached
<1>1. c \in S
  BY DEF Reached
<1> QED
  BY <1>1

\* The screen is nobody's.
LEMMA KidsAreLive ==
    ASSUME NEW t, NEW E, Good(t, E), NEW c \in LiveIn(t)
    PROVE  \A d \in ToSet(t[c].children) :
              d \in LiveIn(t) \ {Screen} /\ t[d].parent = c
<1>1. c \in Ids /\ c # NULL
  BY LiveIs, GraphicsAssumption DEF Ids
<1>2. t[Screen].parent = NULL
  BY DEF Good, TreeShape
<1> QED
  BY <1>1, <1>2 DEF Good, Family

-----------------------------------------------------------------------------
(* Graphics: freeing *)

LEMMA FreedAreLive ==
    ASSUME NEW t, NEW E, Good(t, E), NEW g \in LiveIn(t), g # Screen
    PROVE  FreedWith(t, g) \subseteq LiveIn(t) \ {Screen}
<1> DEFINE next == [c \in Ids |-> IF t[c] = NULL THEN {}
                        ELSE {t[c].children[i] : i \in {j \in DOMAIN t[c].children : j % 2 = 1}}]
           S == LiveIn(t) \ {Screen}
<1>1. S \in SUBSET Ids /\ g \in S
  BY LiveIs DEF LiveIn
<1>2. ASSUME NEW c \in S PROVE next[c] \subseteq S
  <2>1. c \in Ids /\ t[c] # NULL /\ c \in LiveIn(t)
    BY LiveIs
  <2>2. next[c] = {t[c].children[i] : i \in {j \in DOMAIN t[c].children : j % 2 = 1}}
    BY <2>1
  <2>3. next[c] \subseteq ToSet(t[c].children)
    BY <2>2 DEF ToSet
  <2> QED
    BY <2>1, <2>3, KidsAreLive
<1>3. FreedWith(t, g) = Reached(g, next)
  BY DEF FreedWith
<1> HIDE DEF next, S
<1>4. Reached(g, next) \subseteq S
  BY <1>1, <1>2, ReachedStays
<1> QED
  BY <1>3, <1>4 DEF S

\* What the freeing of the graphics in F leaves.
Frees(u, t, F) ==
    /\ u \in [Ids -> Graphic \cup {NULL}]
    /\ \A h \in Ids : u[h] = NULL <=> t[h] = NULL
    /\ \A h \in Ids : t[h] # NULL =>
          IsLeftWith(u[h], t[h], t[h].freed \/ h \in F, Only(t[h].children, Ids \ F))

LEMMA FreeFrees ==
    ASSUME NEW t, TreeShape(t), NEW g
    PROVE  Frees(graphics_info_free(t, g), t, FreedWith(t, g))
<1>1. PICK F, u : F = FreedWith(t, g) /\ u = graphics_info_free(t, g)
  OBVIOUS
<1>2. u = [h \in Ids |-> IF t[h] = NULL THEN NULL
                         ELSE LeftWith(t[h], t[h].freed \/ h \in F, Only(t[h].children, Ids \ F))]
  BY <1>1 DEF graphics_info_free, LeftWith
<1>3. ASSUME NEW h \in Ids, t[h] # NULL
      PROVE  /\ u[h] \in Graphic
             /\ IsLeftWith(u[h], t[h], t[h].freed \/ h \in F, Only(t[h].children, Ids \ F))
  <2>1. PICK b \in BOOLEAN : b = (t[h].freed \/ h \in F)
    OBVIOUS
  <2>2. PICK s \in Seq(Ids) : s = Only(t[h].children, Ids \ F)
    <3>1. t[h].children \in Seq(Ids)
      BY <1>3, InGraphic
    <3> QED
      BY <3>1, OnlyIsPart DEF PartOf, PartAt
  <2>3. u[h] = LeftWith(t[h], b, s)
    BY <1>2, <1>3, <2>1, <2>2
  <2>4. t[h] \in Graphic
    BY <1>3, InGraphic
  <2>5. LeftWith(t[h], b, s) \in Graphic /\ IsLeftWith(LeftWith(t[h], b, s), t[h], b, s)
    BY <2>4, LeftIs
  <2> QED
    BY <2>1, <2>2, <2>3, <2>5
<1>4. \A h \in Ids : t[h] = NULL => u[h] = NULL
  BY <1>2
<1>5. u \in [Ids -> Graphic \cup {NULL}]
  <2>1. u = [h \in Ids |-> u[h]]
    BY <1>2
  <2>2. \A h \in Ids : u[h] \in Graphic \cup {NULL}
    BY <1>3, <1>4
  <2> QED
    BY <2>1, <2>2
<1>6. \A h \in Ids : u[h] = NULL <=> t[h] = NULL
  BY <1>3, <1>4, NullAssumption
<1> QED
  BY <1>1, <1>3, <1>5, <1>6 DEF Frees

\* graphics_info_free leaves it good: what is not freed has lost nothing else.
LEMMA FreeKeeps ==
    ASSUME NEW t, NEW E, Good(t, E), NEW g \in LiveIn(t), g # Screen
    PROVE  Good(graphics_info_free(t, g), E)
<1>1. TreeShape(t) /\ Family(t, E) /\ Rows(t)
  BY DEF Good
<1>2. PICK F, u : F = FreedWith(t, g) /\ u = graphics_info_free(t, g)
  OBVIOUS
<1>3. Frees(u, t, F) /\ F \subseteq LiveIn(t) \ {Screen}
  BY <1>1, <1>2, FreeFrees, FreedAreLive
<1>4. u \in [Ids -> Graphic \cup {NULL}] /\ \A h \in Ids : u[h] = NULL <=> t[h] = NULL
  BY <1>3 DEF Frees
<1>5. ASSUME NEW h \in Ids, t[h] # NULL
      PROVE  /\ u[h].parent = t[h].parent /\ (u[h].freed <=> t[h].freed \/ h \in F)
             /\ u[h].x = t[h].x /\ u[h].y = t[h].y
             /\ u[h].starting_x = t[h].starting_x /\ u[h].starting_y = t[h].starting_y
             /\ u[h].z_index = t[h].z_index
             /\ u[h].children = Only(t[h].children, Ids \ F)
  BY <1>3, <1>5 DEF Frees, IsLeftWith
<1>6. LiveIn(u) = LiveIn(t) \ F
  BY <1>4, <1>5 DEF LiveIn
<1>7. TreeShape(u)
  <2>1. u[Screen] # NULL /\ u[Screen].parent = NULL
    BY <1>1, <1>4, <1>5 DEF TreeShape, Ids
  <2>2. ASSUME NEW h \in Ids, u[h] # NULL, u[h].parent # NULL
        PROVE  u[u[h].parent] # NULL
    <3>1. t[h] # NULL /\ u[h].parent = t[h].parent
      BY <1>4, <1>5, <2>2
    <3>2. t[h].parent \in Ids /\ t[t[h].parent] # NULL
      BY <1>1, <2>2, <3>1, InGraphic DEF TreeShape
    <3> QED
      BY <1>4, <3>1, <3>2
  <2> QED
    BY <1>4, <2>1, <2>2 DEF TreeShape
<1>8. ASSUME NEW h \in LiveIn(t)
      PROVE  /\ Row(u, u[h].children)
             /\ ToSet(u[h].children) = ToSet(t[h].children) \ F
  <2>1. h \in Ids /\ t[h] # NULL
    BY LiveIs
  <2>2. PICK s \in Seq(Ids) : s = t[h].children
    BY <1>1, <2>1, InGraphic
  <2>3. Row(t, s)
    BY <1>1, <2>2 DEF Rows
  <2>4. PICK r : r = Only(s, Ids \ F)
    OBVIOUS
  <2>5. Row(t, r) /\ ToSet(r) = ToSet(s) \cap (Ids \ F)
    BY <2>3, <2>4, OnlyOfRow
  <2>6. ToSet(s) \subseteq Ids
    BY Members
  <2>7. ToSet(r) = ToSet(s) \ F
    BY <2>5, <2>6
  <2>8. \A c \in ToSet(r) : c \in Ids /\ t[c] # NULL
    BY <1>1, <2>2, <2>7, LiveIs DEF Family
  <2>9. \A c \in ToSet(r) : u[c].z_index = t[c].z_index
    BY <1>5, <2>8
  <2>10. Row(u, r)
    BY <2>5, <2>9, RowKept
  <2>11. u[h].children = r
    BY <1>5, <2>1, <2>2, <2>4
  <2> QED
    BY <2>2, <2>7, <2>10, <2>11
<1>9. \A h \in LiveIn(t) : h \in Ids /\ t[h] # NULL
  BY LiveIs
<1>10. ASSUME NEW h \in LiveIn(u), NEW c \in ToSet(u[h].children)
       PROVE  c \in LiveIn(u) /\ u[c].parent = h /\ (c \notin E => Placed(u, h, c))
  <2>1. h \in LiveIn(t) /\ c \in ToSet(t[h].children) /\ c \notin F
    BY <1>6, <1>8
  <2>2. c \in LiveIn(t) /\ t[c].parent = h /\ (c \notin E => Placed(t, h, c))
    BY <1>1, <2>1 DEF Family
  <2>3. u[c].parent = t[c].parent
    BY <1>5, <1>9, <2>2
  <2>4. Placed(t, h, c) => Placed(u, h, c)
    BY <1>5, <1>9, <2>1, <2>2 DEF Placed
  <2> QED
    BY <1>6, <2>1, <2>2, <2>3, <2>4
<1>11. ASSUME NEW c \in LiveIn(u), u[c].parent \in LiveIn(u)
       PROVE  c \in ToSet(u[u[c].parent].children)
  <2>1. c \in LiveIn(t) /\ c \notin F /\ u[c].parent = t[c].parent
    BY <1>5, <1>6, <1>9
  <2>2. t[c].parent \in LiveIn(t)
    BY <1>6, <1>11, <2>1
  <2>3. c \in ToSet(t[t[c].parent].children)
    BY <1>1, <2>1, <2>2 DEF Family
  <2> QED
    BY <1>8, <2>1, <2>2, <2>3
<1>12. ASSUME NEW S \in SUBSET LiveIn(u), S # {}
       PROVE  \E h \in S : u[h].parent \notin S
  <2>1. S \in SUBSET LiveIn(t)
    BY <1>6
  <2>2. PICK h \in S : t[h].parent \notin S
    BY <1>1, <1>12, <2>1 DEF Family
  <2>3. u[h].parent = t[h].parent
    BY <1>5, <1>9, <2>1, <2>2
  <2> QED
    BY <2>2, <2>3
<1>13. Family(u, E)
  <2>1. Screen \in LiveIn(u)
    BY <1>1, <1>3, <1>6 DEF Family
  <2> QED
    BY <1>10, <1>11, <1>12, <2>1 DEF Family
<1>14. Rows(u)
  BY <1>6, <1>8 DEF Rows
<1> QED
  BY <1>2, <1>7, <1>13, <1>14 DEF Good

-----------------------------------------------------------------------------
(* Graphics: recalculating *)

\* Where h starts when its parent starts at at.
StartsAt(t, h, at) == <<uint32(t[h].x + at[1]), uint32(t[h].y + at[2])>>

Stays(t, h) == IF t[h] = NULL THEN <<>> ELSE <<t[h].starting_x, t[h].starting_y>>

\* f is where all graphics start after those in B are recalculated.
Starts(f, t, B) ==
    f = [h \in Ids |-> IF h \notin B THEN Stays(t, h) ELSE StartsAt(t, h, f[t[h].parent])]

\* The graphics in B come after their parents.
Rooted(t, B) ==
    /\ B \subseteq Ids /\ \A h \in B : t[h] # NULL /\ t[h].parent \in Ids
    /\ \A S \in SUBSET B : S # {} => \E h \in S : t[h].parent \notin S

ParentStart(f, t, B, h) == IF t[h].parent \in B THEN f[t[h].parent] ELSE Stays(t, t[h].parent)

\* f is right for those in D, which holds the parents it needs.
Settles(f, t, B, D) ==
    /\ D \subseteq B
    /\ \A h \in D : /\ t[h].parent \in B => t[h].parent \in D
                    /\ f[h] = StartsAt(t, h, ParentStart(f, t, B, h))

LEMMA SettledOnce ==
    ASSUME NEW t, NEW B, Rooted(t, B), NEW D, NEW f, Settles(f, t, B, D),
           NEW C, NEW e, Settles(e, t, B, C)
    PROVE  \A h \in D \cap C : f[h] = e[h]
<1> DEFINE S == {h \in D \cap C : f[h] # e[h]}
<1>1. SUFFICES ASSUME S # {} PROVE FALSE
  OBVIOUS
<1>2. S \in SUBSET B
  BY DEF Settles
<1>3. PICK h \in S : t[h].parent \notin S
  BY <1>1, <1>2 DEF Rooted
<1>4. h \in D /\ h \in C /\ f[h] # e[h]
  BY <1>3
<1>5. ParentStart(f, t, B, h) = ParentStart(e, t, B, h)
  <2>1. CASE t[h].parent \in B
    <3>1. t[h].parent \in D \cap C
      BY <1>4, <2>1 DEF Settles
    <3>2. f[t[h].parent] = e[t[h].parent]
      BY <1>3, <3>1
    <3> QED
      BY <2>1, <3>2 DEF ParentStart
  <2>2. CASE t[h].parent \notin B
    BY <2>2 DEF ParentStart
  <2> QED
    BY <2>1, <2>2
<1>6. f[h] = e[h]
  BY <1>4, <1>5 DEF Settles
<1> QED
  BY <1>4, <1>6

LEMMA AllSettled ==
    ASSUME NEW t, NEW B, Rooted(t, B)
    PROVE  \A h \in B : \E D, f : h \in D /\ Settles(f, t, B, D)
<1> DEFINE S == {h \in B : ~ \E D, f : h \in D /\ Settles(f, t, B, D)}
<1>1. SUFFICES ASSUME S # {} PROVE FALSE
  OBVIOUS
<1>2. PICK h \in S : t[h].parent \notin S
  BY <1>1 DEF Rooted
<1>3. PICK p : p = t[h].parent
  OBVIOUS
<1>4. t[h].parent # h /\ p # h /\ h \in B
  BY <1>2, <1>3
<1>5. CASE p \notin B
  <2> DEFINE f == [d \in {h} |-> StartsAt(t, h, Stays(t, p))]
  <2>1. f[h] = StartsAt(t, h, Stays(t, p))
    OBVIOUS
  <2> HIDE DEF f
  <2>2. Settles(f, t, B, {h})
    BY <1>3, <1>4, <1>5, <2>1 DEF Settles, ParentStart
  <2> QED
    BY <1>2, <2>2
<1>6. CASE p \in B
  <2>1. PICK D, e : p \in D /\ Settles(e, t, B, D)
    BY <1>2, <1>3, <1>6
  <2>2. h \notin D /\ D \subseteq B
    BY <1>2, <2>1 DEF Settles
  <2> DEFINE f == [d \in D \cup {h} |-> IF d = h THEN StartsAt(t, h, e[p]) ELSE e[d]]
  <2>3. f[h] = StartsAt(t, h, e[p]) /\ \A d \in D : f[d] = e[d]
    BY <2>2
  <2> HIDE DEF f
  <2>4. ASSUME NEW d \in D
        PROVE  /\ t[d].parent \in B => t[d].parent \in D
               /\ f[d] = StartsAt(t, d, ParentStart(f, t, B, d))
    <3>1. /\ t[d].parent \in B => t[d].parent \in D
          /\ e[d] = StartsAt(t, d, ParentStart(e, t, B, d))
      BY <2>1 DEF Settles
    <3>2. ParentStart(f, t, B, d) = ParentStart(e, t, B, d)
      BY <2>3, <3>1 DEF ParentStart
    <3> QED
      BY <2>3, <3>1, <3>2
  <2>5. f[h] = StartsAt(t, h, ParentStart(f, t, B, h))
    BY <1>3, <1>6, <2>1, <2>3 DEF ParentStart
  <2>6. Settles(f, t, B, D \cup {h})
    BY <1>3, <1>4, <2>1, <2>2, <2>4, <2>5 DEF Settles
  <2> QED
    BY <1>2, <2>6
<1> QED
  BY <1>5, <1>6

\* graphics_info_recalculate has a function to find, as no graphic is around
\* itself: one that has no place yet, but whose parent has, is settled next.
LEMMA StartsExists ==
    ASSUME NEW t, NEW B, Rooted(t, B)
    PROVE  \E f : Starts(f, t, B)
<1> DEFINE D(h) == CHOOSE D : \E f : h \in D /\ Settles(f, t, B, D)
           s(h) == CHOOSE f : h \in D(h) /\ Settles(f, t, B, D(h))
           f == [h \in Ids |-> IF h \notin B THEN Stays(t, h) ELSE s(h)[h]]
<1>1. \A h \in B : h \in D(h) /\ Settles(s(h), t, B, D(h))
  BY AllSettled
<1>2. B \subseteq Ids
  BY DEF Rooted
<1>3. /\ \A h \in B : f[h] = s(h)[h]
      /\ \A h \in Ids : h \notin B => f[h] = Stays(t, h)
  BY <1>2
<1>4. f = [h \in Ids |-> f[h]]
  OBVIOUS
<1> HIDE DEF f, D, s
<1>5. ASSUME NEW h \in B
      PROVE  f[h] = StartsAt(t, h, f[t[h].parent])
  <2>1. PICK p \in Ids : p = t[h].parent
    BY DEF Rooted
  <2>2. s(h)[h] = StartsAt(t, h, ParentStart(s(h), t, B, h))
    BY <1>1 DEF Settles
  <2>3. ParentStart(s(h), t, B, h) = f[p]
    <3>1. CASE p \notin B
      BY <1>3, <2>1, <3>1 DEF ParentStart
    <3>2. CASE p \in B
      <4>1. p \in D(h) \cap D(p)
        BY <1>1, <2>1, <3>2 DEF Settles
      <4>2. s(h)[p] = s(p)[p]
        BY <1>1, <3>2, <4>1, SettledOnce
      <4> QED
        BY <1>3, <2>1, <3>2, <4>2 DEF ParentStart
    <3> QED
      BY <3>1, <3>2
  <2> QED
    BY <1>3, <2>1, <2>2, <2>3
<1>6. f = [h \in Ids |-> IF h \notin B THEN Stays(t, h) ELSE StartsAt(t, h, f[t[h].parent])]
  BY <1>3, <1>4, <1>5
<1> QED
  BY <1>6 DEF Starts

LEMMA StartsAreNumbers ==
    ASSUME NEW t, TreeShape(t), NEW B, Rooted(t, B), NEW f, Starts(f, t, B)
    PROVE  \A h \in B : /\ f[h][1] \in Nat /\ f[h][2] \in Nat
                        /\ f[t[h].parent][1] \in Nat /\ f[t[h].parent][2] \in Nat
<1>1. B \subseteq Ids
  BY DEF Rooted
<1>2. /\ \A h \in B : f[h] = StartsAt(t, h, f[t[h].parent])
      /\ \A h \in Ids : h \notin B => f[h] = Stays(t, h)
  BY <1>1 DEF Starts
<1>3. ASSUME NEW h \in B
      PROVE  t[h].parent \in Ids /\ t[t[h].parent] # NULL /\ t[h].x \in Nat /\ t[h].y \in Nat
  <2>1. h \in Ids /\ t[h] # NULL /\ t[h].parent \in Ids
    BY DEF Rooted
  <2>2. t[h].parent # NULL
    BY <2>1, GraphicsAssumption DEF Ids
  <2> QED
    BY <2>1, <2>2, InGraphic DEF TreeShape
<1>4. ASSUME NEW h \in Ids, t[h] # NULL, h \notin B
      PROVE  f[h][1] \in Nat /\ f[h][2] \in Nat
  <2>1. f[h] = <<t[h].starting_x, t[h].starting_y>>
    BY <1>2, <1>4 DEF Stays
  <2> QED
    BY <1>4, <2>1, InGraphic
<1> DEFINE S == {h \in B : ~(f[h][1] \in Nat /\ f[h][2] \in Nat)}
<1>5. ASSUME NEW h \in B, t[h].parent \notin S
      PROVE  /\ f[h][1] \in Nat /\ f[h][2] \in Nat
             /\ f[t[h].parent][1] \in Nat /\ f[t[h].parent][2] \in Nat
  <2>1. PICK a, b : a = f[t[h].parent][1] /\ b = f[t[h].parent][2]
    OBVIOUS
  <2>2. a \in Nat /\ b \in Nat
    BY <1>3, <1>4, <1>5, <2>1
  <2>3. f[h] = <<uint32(t[h].x + a), uint32(t[h].y + b)>>
    BY <1>2, <2>1 DEF StartsAt
  <2>4. uint32(t[h].x + a) \in Nat /\ uint32(t[h].y + b) \in Nat
    BY <1>3, <2>2, Wraps
  <2> QED
    BY <2>1, <2>2, <2>3, <2>4
<1>6. S = {}
  <2> SUFFICES ASSUME S # {} PROVE FALSE
    OBVIOUS
  <2>1. PICK h \in S : t[h].parent \notin S
    BY DEF Rooted
  <2> QED
    BY <1>5, <2>1
<1> QED
  BY <1>5, <1>6

\* u is t with those in B recalculated.
Recalculates(u, t, B) ==
    \E f : /\ Starts(f, t, B)
           /\ u = [h \in Ids |-> IF h \notin B THEN t[h] ELSE StartAt(t[h], f[h][1], f[h][2])]

LEMMA RecalculateIs ==
    ASSUME NEW t, NEW g, Rooted(t, Below(t, g))
    PROVE  Recalculates(graphics_info_recalculate(t, g), t, Below(t, g))
<1>1. PICK B : B = Below(t, g)
  OBVIOUS
<1> DEFINE f == CHOOSE f : Starts(f, t, B)
<1>2. Starts(f, t, B)
  BY <1>1, StartsExists
<1>3. graphics_info_recalculate(t, g)
        = [h \in Ids |-> IF h \notin B THEN t[h] ELSE StartAt(t[h], f[h][1], f[h][2])]
  BY <1>1 DEF graphics_info_recalculate, Starts, Stays, StartsAt, StartAt
<1> QED
  BY <1>1, <1>2, <1>3 DEF Recalculates

\* What graphics_info_recalculate goes through: g, and with each graphic its
\* children.
LEMMA BelowIs ==
    ASSUME NEW t, NEW E, Good(t, E), NEW g \in LiveIn(t), t[g].parent = Screen
    PROVE  /\ Rooted(t, Below(t, g)) /\ g \in Below(t, g)
           /\ Below(t, g) \subseteq LiveIn(t)
           /\ \A c \in Below(t, g) : ToSet(t[c].children) \subseteq Below(t, g)
<1> DEFINE next == [c \in Ids |-> IF t[c] = NULL THEN {} ELSE ToSet(t[c].children)]
<1>1. PICK B : B = Below(t, g) /\ B = Reached(g, next)
  BY DEF Below
<1>2. \A c \in LiveIn(t) : c \in Ids /\ t[c] # NULL /\ next[c] = ToSet(t[c].children)
  BY LiveIs
<1> HIDE DEF next
<1>3. \A c \in LiveIn(t) : \A d \in next[c] : d \in LiveIn(t) \ {Screen} /\ t[d].parent = c
  BY <1>2, KidsAreLive
<1>4. g \in LiveIn(t) \ {Screen} /\ LiveIn(t) \subseteq Ids /\ Screen \in LiveIn(t)
  <2>1. t[Screen].parent = NULL /\ NULL # Screen
    BY GraphicsAssumption DEF Good, TreeShape
  <2> QED
    BY <2>1 DEF LiveIn, Good, Family
<1>5. B \subseteq LiveIn(t) \ {Screen}
  <2>1. \A c \in LiveIn(t) \ {Screen} : next[c] \subseteq LiveIn(t) \ {Screen}
    BY <1>3
  <2>2. LiveIn(t) \ {Screen} \in SUBSET Ids
    BY <1>4
  <2> QED
    BY <1>1, <1>4, <2>1, <2>2, ReachedStays
<1>6. g \in B
  BY <1>1, <1>4, ReachedStarts
<1>7. ASSUME NEW c \in B PROVE next[c] \subseteq B
  <2>1. next[c] \subseteq Ids
    BY <1>3, <1>4, <1>5
  <2>2. c \in Reached(g, next) /\ g \in Ids
    BY <1>1, <1>4
  <2>3. next[c] \subseteq Reached(g, next)
    BY <2>1, <2>2, ReachedGoesOn
  <2> QED
    BY <1>1, <2>3
<1> DEFINE S == {c \in B : t[c].parent \in Ids}
<1>8. B \subseteq S
  <2>1. \A c \in S : next[c] \subseteq S
    BY <1>3, <1>4, <1>5, <1>7
  <2>2. S \in SUBSET Ids /\ g \in S
    BY <1>4, <1>5, <1>6
  <2> HIDE DEF S
  <2> QED
    BY <1>1, <2>1, <2>2, ReachedStays
<1>9. Rooted(t, B)
  <2>1. \A h \in B : h \in Ids /\ t[h] # NULL /\ t[h].parent \in Ids
    BY <1>2, <1>5, <1>8
  <2>2. ASSUME NEW A \in SUBSET B, A # {} PROVE \E h \in A : t[h].parent \notin A
    <3>1. A \in SUBSET LiveIn(t)
      BY <1>5
    <3> QED
      BY <2>2, <3>1 DEF Good, Family
  <2> QED
    BY <2>1, <2>2 DEF Rooted
<1> QED
  BY <1>1, <1>2, <1>5, <1>6, <1>7, <1>9

\* Whatever was wrong with the place of g is put right.
LEMMA RecalculateKeeps ==
    ASSUME NEW t, NEW g \in LiveIn(t), Good(t, {g}), t[g].parent = Screen
    PROVE  Good(graphics_info_recalculate(t, g), {})
<1>1. TreeShape(t) /\ Family(t, {g}) /\ Rows(t)
  BY DEF Good
<1>2. PICK B, u : B = Below(t, g) /\ u = graphics_info_recalculate(t, g)
  OBVIOUS
<1>3. /\ Rooted(t, B) /\ g \in B /\ B \subseteq LiveIn(t)
      /\ \A c \in B : ToSet(t[c].children) \subseteq B
  BY <1>2, BelowIs
<1>4. PICK f : /\ Starts(f, t, B)
               /\ u = [h \in Ids |-> IF h \notin B THEN t[h]
                                     ELSE StartAt(t[h], f[h][1], f[h][2])]
  <2>1. Recalculates(u, t, B)
    BY <1>2, <1>3, RecalculateIs
  <2> QED
    BY <2>1 DEF Recalculates
<1>5. \A h \in Ids : h \notin B => u[h] = t[h]
  BY <1>4
<1>6. \A h \in B : h \in Ids /\ t[h] # NULL /\ t[h].parent \in Ids
  BY <1>3 DEF Rooted
<1>7. ASSUME NEW h \in B
      PROVE  u[h] \in Graphic /\ u[h] # NULL /\ IsStartAt(u[h], t[h], f[h][1], f[h][2])
  <2>1. f[h][1] \in Nat /\ f[h][2] \in Nat
    BY <1>1, <1>3, <1>4, StartsAreNumbers
  <2>2. t[h] \in Graphic /\ h \in Ids
    BY <1>1, <1>6, InGraphic
  <2>3. u[h] = StartAt(t[h], f[h][1], f[h][2])
    BY <1>4, <2>2
  <2> QED
    BY <2>1, <2>2, <2>3, StartIs, NullAssumption
<1>8. ASSUME NEW h \in Ids
      PROVE  /\ u[h] = NULL <=> t[h] = NULL
             /\ t[h] # NULL =>
                  /\ u[h].parent = t[h].parent /\ u[h].freed = t[h].freed
                  /\ u[h].x = t[h].x /\ u[h].y = t[h].y
                  /\ u[h].children = t[h].children /\ u[h].z_index = t[h].z_index
  <2>1. CASE h \in B
    BY <1>6, <1>7, <2>1 DEF IsStartAt
  <2>2. CASE h \notin B
    BY <1>5, <2>2
  <2> QED
    BY <2>1, <2>2
<1>9. u \in [Ids -> Graphic \cup {NULL}]
  <2>1. u = [h \in Ids |-> u[h]]
    BY <1>4
  <2>2. \A h \in Ids : t[h] \in Graphic \cup {NULL}
    BY <1>1 DEF TreeShape
  <2>3. \A h \in Ids : u[h] \in Graphic \cup {NULL}
    BY <1>5, <1>7, <2>2
  <2> QED
    BY <2>1, <2>3
<1>10. LiveIn(u) = LiveIn(t)
  <2>1. \A h \in Ids : u[h] # NULL /\ ~u[h].freed <=> t[h] # NULL /\ ~t[h].freed
    BY <1>8
  <2> QED
    BY <2>1 DEF LiveIn
<1>11. ASSUME NEW h \in LiveIn(t)
       PROVE  /\ h \in Ids /\ t[h] # NULL /\ u[h].parent = t[h].parent
              /\ u[h].x = t[h].x /\ u[h].y = t[h].y
              /\ u[h].children = t[h].children /\ u[h].z_index = t[h].z_index
  <2>1. h \in Ids /\ t[h] # NULL
    BY LiveIs
  <2> QED
    BY <1>8, <2>1
<1>12. TreeShape(u)
  <2>1. u[Screen] # NULL /\ u[Screen].parent = NULL
    BY <1>1, <1>8 DEF TreeShape, Ids
  <2>2. ASSUME NEW h \in Ids, u[h] # NULL, u[h].parent # NULL
        PROVE  u[u[h].parent] # NULL
    <3>1. t[h] # NULL /\ u[h].parent = t[h].parent
      BY <1>8, <2>2
    <3>2. t[h].parent \in Ids /\ t[t[h].parent] # NULL
      BY <1>1, <2>2, <3>1, InGraphic DEF TreeShape
    <3> QED
      BY <1>8, <3>1, <3>2
  <2> QED
    BY <1>9, <2>1, <2>2 DEF TreeShape
<1>13. ASSUME NEW c \in B
       PROVE  Placed(u, t[c].parent, c)
  <2>1. PICK h \in Ids : h = t[c].parent
    BY <1>6
  <2>2. t[h] # NULL
    BY <1>1, <1>6, <2>1, GraphicsAssumption DEF TreeShape, Ids
  <2>3. PICK a \in Nat, b \in Nat : a = f[h][1] /\ b = f[h][2]
    BY <1>1, <1>3, <1>4, <2>1, StartsAreNumbers
  <2>4. u[h].starting_x = a /\ u[h].starting_y = b
    <3>1. CASE h \in B
      BY <1>7, <2>3, <3>1 DEF IsStartAt
    <3>2. CASE h \notin B
      <4>1. f[h] = <<t[h].starting_x, t[h].starting_y>>
        BY <1>4, <2>2, <3>2 DEF Starts, Stays
      <4> QED
        BY <1>5, <2>3, <3>2, <4>1
    <3> QED
      BY <3>1, <3>2
  <2>5. f[c] = <<uint32(t[c].x + a), uint32(t[c].y + b)>>
    BY <1>4, <1>6, <2>1, <2>3 DEF Starts, StartsAt
  <2>6. PICK x \in Nat, y \in Nat : x = t[c].x /\ y = t[c].y
    BY <1>1, <1>6, InGraphic
  <2>7. x + a = a + x /\ y + b = b + y
    OBVIOUS
  <2>8. u[c].starting_x = uint32(a + x) /\ u[c].starting_y = uint32(b + y)
    BY <1>7, <2>5, <2>6, <2>7 DEF IsStartAt
  <2>9. u[c].x = x /\ u[c].y = y
    BY <1>6, <1>8, <2>6
  <2> QED
    BY <2>1, <2>4, <2>8, <2>9 DEF Placed
<1>14. ASSUME NEW h \in LiveIn(t), NEW c \in ToSet(u[h].children)
       PROVE  c \in LiveIn(t) /\ u[c].parent = h /\ Placed(u, h, c)
  <2>1. c \in ToSet(t[h].children)
    BY <1>11
  <2>2. c \in LiveIn(t) /\ t[c].parent = h /\ (c # g => Placed(t, h, c))
    BY <1>1, <2>1 DEF Family
  <2>3. CASE c \in B
    BY <1>11, <1>13, <2>2, <2>3
  <2>4. CASE c \notin B
    <3>1. h \notin B /\ c # g
      BY <1>3, <2>1, <2>4
    <3>2. u[h] = t[h] /\ u[c] = t[c]
      BY <1>5, <1>11, <2>2, <2>4, <3>1
    <3> QED
      BY <2>2, <3>1, <3>2 DEF Placed
  <2> QED
    BY <2>3, <2>4
<1>15. ASSUME NEW c \in LiveIn(t), u[c].parent \in LiveIn(t)
       PROVE  c \in ToSet(u[u[c].parent].children)
  <2>1. u[c].parent = t[c].parent
    BY <1>11
  <2>2. c \in ToSet(t[t[c].parent].children)
    BY <1>1, <1>15, <2>1 DEF Family
  <2> QED
    BY <1>11, <1>15, <2>1, <2>2
<1>16. ASSUME NEW S \in SUBSET LiveIn(t), S # {}
       PROVE  \E h \in S : u[h].parent \notin S
  <2>1. PICK h \in S : t[h].parent \notin S
    BY <1>1, <1>16 DEF Family
  <2> QED
    BY <1>11, <2>1
<1>17. Family(u, {})
  <2>1. Screen \in LiveIn(t)
    BY <1>1 DEF Family
  <2> QED
    BY <1>10, <1>14, <1>15, <1>16, <2>1 DEF Family
<1>18. ASSUME NEW h \in LiveIn(t) PROVE Row(u, u[h].children)
  <2>1. \A c \in ToSet(t[h].children) : c \in LiveIn(t)
    BY <1>1 DEF Family
  <2>2. \A c \in ToSet(t[h].children) : u[c].z_index = t[c].z_index
    BY <1>11, <2>1
  <2>3. Row(t, t[h].children)
    BY <1>1 DEF Rows
  <2>4. Row(u, t[h].children)
    BY <2>2, <2>3, RowKept
  <2> QED
    BY <1>11, <2>4
<1> QED
  BY <1>2, <1>10, <1>12, <1>17, <1>18 DEF Good, Rows

-----------------------------------------------------------------------------
(* Graphics: the steps, and the theorem *)

LEMMA WindowsAreLive ==
    ASSUME TreeInv, NEW g \in Windows
    PROVE  g \in LiveIn(tree) /\ g # Screen /\ tree[g].parent = Screen /\ g \in Ids
<1>1. Good(tree, {}) /\ Screen \in LiveIn(tree)
  BY DEF TreeInv, Good, Family
<1>2. PICK s \in Seq(Ids) : s = tree[Screen].children
  BY <1>1, LiveIs, InGraphic DEF Good
<1>3. g \in ToSet(s)
  <2>1. \E i \in 1 .. Len(s) : s[i] = g
    BY <1>2 DEF Windows, Contains
  <2> QED
    BY <2>1, Members
<1>4. g \in LiveIn(tree) \ {Screen} /\ tree[g].parent = Screen
  BY <1>1, <1>2, <1>3, KidsAreLive
<1> QED
  BY <1>4, LiveIs

\* The graphic that is made, and the tree with it.
IsMade(u, t, g, p) == Good(u, {}) /\ IsCreated(u, t, g, p)

LEMMA MakeKeeps ==
    ASSUME NEW t, Good(t, {}), NEW p \in LiveIn(t), NEW g \in Ids, t[g] = NULL,
           NEW x \in Nat, NEW y \in Nat, NEW width \in Nat, NEW height \in Nat
    PROVE  IsMade(graphics_info_create_relative(t, p, g, x, y, width, height), t, g, p)
<1>1. PICK u : /\ u = graphics_info_create_relative(t, p, g, x, y, width, height)
               /\ Good(u, {}) /\ IsCreated(u, t, g, p)
  BY CreateKeeps
<1> QED
  BY <1>1 DEF IsMade

LEMMA CreateStep ==
    ASSUME TreeInv, NEW g \in Graphics, NEW parent \in Graphics,
           NEW spot \in Spots, NEW size \in Extents, tree[g] = NULL, parent \in Live,
           tree' = graphics_info_create_relative(tree, parent, g, spot[1], spot[2],
                                                 size[1], size[2])
    PROVE  TreeInv'
<1>1. /\ spot[1] \in Nat /\ spot[2] \in Nat /\ size[1] \in Nat /\ size[2] \in Nat
      /\ g \in Ids /\ parent \in LiveIn(tree) /\ Good(tree, {})
  BY GraphicsAssumption DEF Ids, Live, TreeInv
<1>2. tree[g] = NULL
  OBVIOUS
<1>3. IsMade(graphics_info_create_relative(tree, parent, g, spot[1], spot[2],
                                           size[1], size[2]), tree, g, parent)
  BY ONLY <1>1, <1>2, MakeKeeps
<1> QED
  BY <1>3 DEF TreeInv, IsMade

LEMMA DrawStep ==
    ASSUME TreeInv, NEW g \in Live, NEW b \in Brushes, NEW key \in BOOLEAN,
           graphics_draw_rect(g, b[1], b[2], b[3], b[4], key)
    PROVE  TreeInv'
<1>1. g \in Ids /\ tree[g] # NULL /\ Good(tree, {}) /\ tree[g] \in Graphic
  BY LiveIs, InGraphic DEF Live, TreeInv, Good
<1>2. PICK drawn : drawn = {p \in (b[1] .. b[1] + b[3] - 1) \X (b[2] .. b[2] + b[4] - 1) :
                              p[1] < tree[g].width /\ p[2] < tree[g].height}
  OBVIOUS
<1>3. drawn \in SUBSET (Int \X Int)
  <2>1. b[1] \in Nat /\ b[2] \in Nat /\ b[3] \in Nat /\ b[4] \in Nat
    BY GraphicsAssumption
  <2> QED
    BY <1>2, <2>1
<1>4. PICK holes : holes = IF key THEN tree[g].holes \cup drawn ELSE tree[g].holes \ drawn
  OBVIOUS
<1>5. holes \in SUBSET (Int \X Int)
  <2>1. tree[g].holes \in SUBSET (Int \X Int)
    BY <1>1 DEF Graphic
  <2> QED
    BY <1>3, <1>4, <2>1
<1>6. tree' = [tree EXCEPT ![g].holes = IF key THEN @ \cup drawn ELSE @ \ drawn]
  BY <1>2 DEF graphics_draw_rect
<1>7. PICK e : e = [tree[g] EXCEPT !.holes = holes]
  OBVIOUS
<1>8. /\ e \in Graphic /\ SamePlace(e, tree[g])
      /\ e.children = tree[g].children /\ e.z_index = tree[g].z_index
  BY <1>1, <1>5, <1>7, HolesSet, SMTT(30)
<1>9. tree' = [tree EXCEPT ![g] = e]
  BY <1>1, <1>4, <1>6, <1>7 DEF Good, TreeShape
<1>10. Good(tree', {})
  BY <1>1, <1>8, <1>9, OneChanged DEF IsSetTo
<1> QED
  BY <1>10 DEF TreeInv

LEMMA KeyStep ==
    ASSUME TreeInv, NEW g \in Live, NEW keyed \in BOOLEAN,
           graphics_transparency_key_set(g, keyed)
    PROVE  TreeInv'
<1>1. g \in Ids /\ tree[g] # NULL /\ Good(tree, {}) /\ tree[g] \in Graphic
  BY LiveIs, InGraphic DEF Live, TreeInv, Good
<1>2. PICK e : e = [tree[g] EXCEPT !.keyed = keyed]
  OBVIOUS
<1>3. /\ e \in Graphic /\ SamePlace(e, tree[g])
      /\ e.children = tree[g].children /\ e.z_index = tree[g].z_index
  BY <1>1, <1>2, KeyedSet
<1>4. tree' = [tree EXCEPT ![g] = e]
  BY <1>1, <1>2 DEF graphics_transparency_key_set, Good, TreeShape
<1>5. Good(tree', {})
  BY <1>1, <1>3, <1>4, OneChanged DEF IsSetTo
<1> QED
  BY <1>5 DEF TreeInv

LEMMA TopKeeps ==
    ASSUME NEW t, Good(t, {}), NEW g \in LiveIn(t), t[g].parent = Screen, NEW z \in Nat
    PROVE  Good(window_bring_to_top(graphics_set_z_index(t, g, z), g), {})
<1>1. GoodBut(t, {}, g, Screen)
  <2>1. Screen \in LiveIn(t)
    BY DEF Good, Family
  <2> QED
    BY <2>1, GoodIsGoodBut
<1>2. PICK u : /\ u = graphics_set_z_index(t, g, z)
               /\ Good(u, {}) /\ SameFamily(u, t) /\ LiveIn(u) = LiveIn(t)
  BY <1>1, SetZKeeps
<1>3. g \in LiveIn(u) /\ u[g].parent = Screen
  BY <1>2, LiveIs DEF SameFamily, SamePlace
<1> QED
  BY <1>2, <1>3, BringKeeps

LEMMA WindowCreateStep ==
    ASSUME TreeInv, NEW g \in Graphics, NEW spot \in Spots, NEW size \in Extents,
           tree[g] = NULL, window_create(g, spot, size)
    PROVE  TreeInv'
<1>1. /\ spot[1] \in Nat /\ spot[2] \in Nat /\ size[1] \in Nat /\ size[2] \in Nat
      /\ g \in Ids /\ Screen \in LiveIn(tree) /\ Good(tree, {})
  BY GraphicsAssumption DEF Ids, TreeInv, Good, Family
<1>2. PICK u : /\ u = graphics_info_create_relative(tree, Screen, g, spot[1], spot[2],
                                                    size[1], size[2])
               /\ Good(u, {}) /\ IsCreated(u, tree, g, Screen)
  <2>1. tree[g] = NULL
    OBVIOUS
  <2>2. IsMade(graphics_info_create_relative(tree, Screen, g, spot[1], spot[2],
                                             size[1], size[2]), tree, g, Screen)
    BY ONLY <1>1, <2>1, MakeKeeps
  <2> QED
    BY <2>2 DEF IsMade
<1>3. g \in LiveIn(u) /\ u[g].parent = Screen
  BY <1>2 DEF IsCreated
<1>4. tree' = window_bring_to_top(graphics_set_z_index(u, g, 2), g)
  BY <1>2 DEF window_create
<1>5. Good(tree', {})
  BY <1>2, <1>3, <1>4, TopKeeps
<1> QED
  BY <1>5 DEF TreeInv

LEMMA CreateFramedStep ==
    ASSUME TreeInv, NEW g \in Graphics, NEW title \in Graphics \ {g},
           NEW spot \in Spots, NEW size \in Extents,
           tree[g] = NULL, tree[title] = NULL, CreateFramed(g, title, spot, size)
    PROVE  TreeInv'
<1>1. /\ spot[1] \in Nat /\ spot[2] \in Nat /\ size[1] \in Nat /\ size[2] \in Nat
      /\ g \in Ids /\ title \in Ids /\ title # g /\ Screen \in LiveIn(tree) /\ Good(tree, {})
      /\ TitleHeight \in Nat /\ FrameParts + 1 \in Nat
  BY GraphicsAssumption DEF Ids, TreeInv, Good, Family
<1>2. PICK t : /\ t = graphics_info_create_relative(tree, Screen, g, spot[1], spot[2],
                                                    size[1], size[2])
               /\ Good(t, {}) /\ IsCreated(t, tree, g, Screen)
  <2>1. tree[g] = NULL
    OBVIOUS
  <2>2. IsMade(graphics_info_create_relative(tree, Screen, g, spot[1], spot[2],
                                             size[1], size[2]), tree, g, Screen)
    BY ONLY <1>1, <2>1, MakeKeeps
  <2> QED
    BY <2>2 DEF IsMade
<1>3. g \in LiveIn(t) /\ t[g].parent = Screen /\ t[title] = NULL
  BY <1>1, <1>2 DEF IsCreated
<1>4. PICK u : /\ u = graphics_info_create_relative(t, g, title, 0, 0, size[1], TitleHeight)
               /\ Good(u, {}) /\ IsCreated(u, t, title, g)
  <2>1. 0 \in Nat
    OBVIOUS
  <2>2. IsMade(graphics_info_create_relative(t, g, title, 0, 0, size[1], TitleHeight),
               t, title, g)
    BY ONLY <1>1, <1>2, <1>3, <2>1, MakeKeeps
  <2> QED
    BY <2>2 DEF IsMade
<1>5. /\ g \in LiveIn(u) /\ u[g].parent = Screen /\ u[title] # NULL /\ u[g] # NULL
      /\ u \in [Ids -> Graphic \cup {NULL}] /\ u[g] \in Graphic /\ u[title] \in Graphic
  <2>1. g \in LiveIn(u) /\ u[title] # NULL /\ u[g].parent = t[g].parent
    BY <1>1, <1>3, <1>4, LiveIs DEF IsCreated
  <2> QED
    BY <1>1, <1>3, <1>4, <2>1, LiveIs, InGraphic DEF Good, TreeShape
<1>6. PICK d : d = [u[g] EXCEPT !.framed = TRUE]
  OBVIOUS
<1>7. /\ d \in Graphic /\ SamePlace(d, u[g])
      /\ d.children = u[g].children /\ d.z_index = u[g].z_index
  BY <1>5, <1>6, FramedSet
<1>8. PICK v : v = [u EXCEPT ![g] = d]
  OBVIOUS
<1>9. Good(v, {}) /\ SameFamily(v, u) /\ LiveIn(v) = LiveIn(u)
  BY <1>1, <1>4, <1>5, <1>7, <1>8, OneChanged DEF IsSetTo
<1>10. v[title] = u[title] /\ v[g].parent = Screen
  BY <1>1, <1>5, <1>7, <1>8 DEF SamePlace
<1>11. PICK e : e = [v[title] EXCEPT !.click = TRUE]
  OBVIOUS
<1>12. /\ e \in Graphic /\ SamePlace(e, v[title])
       /\ e.children = v[title].children /\ e.z_index = v[title].z_index
  BY <1>5, <1>10, <1>11, ClickSet
<1>13. PICK w : w = [v EXCEPT ![title] = e]
  OBVIOUS
<1>14. Good(w, {}) /\ SameFamily(w, v) /\ LiveIn(w) = LiveIn(v)
  <2>1. title \in Ids /\ v[title] # NULL
    BY <1>1, <1>5, <1>10
  <2>2. IsSetTo(w, v, title, e)
    BY <1>13 DEF IsSetTo
  <2> QED
    BY ONLY <2>1, <2>2, <1>9, <1>12, OneChanged
<1>15. g \in LiveIn(w) /\ w[g].parent = Screen
  BY <1>1, <1>5, <1>8, <1>9, <1>10, <1>13, <1>14
<1>16. w = [u EXCEPT ![g].framed = TRUE, ![title].click = TRUE]
  BY <1>1, <1>5, <1>6, <1>8, <1>11, <1>13
<1>17. tree' = window_bring_to_top(graphics_set_z_index(w, g, FrameParts + 1), g)
  BY <1>2, <1>4, <1>16 DEF CreateFramed
<1>18. Good(tree', {})
  BY <1>1, <1>14, <1>15, <1>17, TopKeeps
<1> QED
  BY <1>18 DEF TreeInv

LEMMA FocusStep ==
    ASSUME TreeInv, NEW g \in Windows, window_focus(g)
    PROVE  TreeInv'
<1>1. g \in LiveIn(tree) /\ tree[g].parent = Screen /\ Good(tree, {})
  BY WindowsAreLive DEF TreeInv
<1>2. PICK u : u = window_bring_to_top(tree, g) /\ Good(u, {})
  BY <1>1, BringKeeps
<1>3. tree' = u
  BY <1>2 DEF window_focus
<1> QED
  BY <1>2, <1>3 DEF TreeInv

LEMMA CloseStep ==
    ASSUME TreeInv, NEW g \in Windows, window_close(g)
    PROVE  TreeInv'
<1>1. g \in LiveIn(tree) /\ g # Screen /\ Good(tree, {})
  BY WindowsAreLive DEF TreeInv
<1>2. tree' = graphics_info_free(tree, g)
  BY DEF window_close
<1>3. Good(tree', {})
  BY <1>1, <1>2, FreeKeeps
<1> QED
  BY <1>3 DEF TreeInv

LEMMA ClampedIsInt ==
    ASSUME NEW at \in Int, NEW length \in Int, NEW edge \in Int
    PROVE  uint32(Clamped(size_t(at), length, edge)) \in Nat
<1>1. Word \in Nat \ {0} /\ Big \in Nat \ {0}
  BY GraphicsAssumption
<1>2. \A n \in Int : size_t(n) \in Int /\ uint32(n) \in Nat
  BY <1>1 DEF size_t, uint32
<1>3. size_t(at) \in Int /\ size_t(edge - length - 1) \in Int
  BY <1>2
<1>4. Clamped(size_t(at), length, edge) \in Int
  BY <1>3 DEF Clamped
<1> QED
  BY <1>2, <1>4

LEMMA MoveStep ==
    ASSUME TreeInv, NEW g \in Windows, NEW target \in Targets,
           window_position_set(g, target[1], target[2])
    PROVE  TreeInv'
<1>1. /\ g \in LiveIn(tree) /\ g \in Ids /\ tree[g].parent = Screen /\ Good(tree, {})
      /\ target[1] \in Int /\ target[2] \in Int
  BY WindowsAreLive, GraphicsAssumption DEF TreeInv
<1>2. PICK l, m : /\ l = tree[g].width - IF tree[g].framed THEN FrameWidth ELSE 0
                  /\ m = tree[g].height - IF tree[g].framed THEN FrameHeight ELSE 0
  OBVIOUS
<1>3. l \in Int /\ m \in Int
  <2>1. tree[g] \in Graphic
    BY <1>1, LiveIs, InGraphic DEF Good
  <2>2. tree[g].width \in Nat /\ tree[g].height \in Nat
    BY <2>1 DEF Graphic
  <2> QED
    BY <1>2, <2>2, GraphicsAssumption
<1>4. PICK a, b : /\ a = uint32(Clamped(size_t(target[1]), l, ScreenWidth))
                  /\ b = uint32(Clamped(size_t(target[2]), m, ScreenHeight))
  OBVIOUS
<1>5. a \in Nat /\ b \in Nat
  <2>1. ScreenWidth \in Int /\ ScreenHeight \in Int
    BY GraphicsAssumption
  <2>2. a \in Nat
    BY ONLY <1>1, <1>3, <1>4, <2>1, ClampedIsInt
  <2>3. b \in Nat
    BY ONLY <1>1, <1>3, <1>4, <2>1, ClampedIsInt
  <2> QED
    BY <2>2, <2>3
<1>6. tree' = graphics_info_recalculate(
                window_bring_to_top([tree EXCEPT ![g].x = a, ![g].y = b], g), g)
  BY <1>2, <1>4 DEF window_position_set
<1>7. PICK t : t = [tree EXCEPT ![g].x = a, ![g].y = b]
  OBVIOUS
<1>8. Good(t, {g}) /\ LiveIn(t) = LiveIn(tree) /\ SameParents(t, tree)
  <2>1. IsMovedTo(t, tree, g, a, b)
    BY <1>7 DEF IsMovedTo
  <2> QED
    BY ONLY <2>1, <1>1, <1>5, MoveAlone
<1>9. g \in LiveIn(t) /\ t[g].parent = Screen
  BY <1>1, <1>8 DEF SameParents
<1>10. PICK u : /\ u = window_bring_to_top(t, g)
                /\ Good(u, {g}) /\ SameFamily(u, t) /\ LiveIn(u) = LiveIn(t)
  BY <1>8, <1>9, BringKeeps
<1>11. g \in LiveIn(u) /\ u[g].parent = Screen
  BY <1>9, <1>10, LiveIs DEF SameFamily, SamePlace
<1>12. Good(graphics_info_recalculate(u, g), {})
  BY <1>10, <1>11, RecalculateKeeps
<1>13. tree' = graphics_info_recalculate(u, g)
  BY <1>6, <1>7, <1>10
<1>14. Good(tree', {})
  BY <1>12, <1>13
<1> QED
  BY <1>14 DEF TreeInv

LEMMA GraphicsStep == TreeInv /\ [GraphicsNext]_graphicsVars => TreeInv'
<1> SUFFICES ASSUME TreeInv, [GraphicsNext]_graphicsVars PROVE TreeInv'
  OBVIOUS
<1>1. CASE Drawing
  BY <1>1, CreateStep, DrawStep, KeyStep DEF Drawing
<1>2. ASSUME NEW g \in Graphics, NEW spot \in Spots, NEW size \in Extents, tree[g] = NULL,
             \/ window_create(g, spot, size)
             \/ \E title \in Graphics \ {g} :
                  tree[title] = NULL /\ CreateFramed(g, title, spot, size)
      PROVE  TreeInv'
  BY <1>2, WindowCreateStep, CreateFramedStep
<1>3. ASSUME NEW g \in Windows,
             \/ window_focus(g) \/ window_close(g)
             \/ \E target \in Targets : window_position_set(g, target[1], target[2])
      PROVE  TreeInv'
  BY <1>3, FocusStep, CloseStep, MoveStep
<1>4. CASE UNCHANGED graphicsVars
  BY <1>4 DEF TreeInv, graphicsVars
<1> QED
  BY <1>1, <1>2, <1>3, <1>4 DEF GraphicsNext

LEMMA GraphicsStart == GraphicsInit => TreeInv
<1> SUFFICES ASSUME GraphicsInit PROVE TreeInv
  OBVIOUS
<1>1. PICK c : c = [parent |-> NULL, children |-> <<>>, x |-> 0, y |-> 0,
                    starting_x |-> 0, starting_y |-> 0,
                    width |-> ScreenWidth, height |-> ScreenHeight, z_index |-> 0,
                    keyed |-> FALSE, holes |-> {}, click |-> FALSE,
                    framed |-> FALSE, freed |-> FALSE]
  OBVIOUS
<1>2. c \in Graphic /\ c # NULL
  <2>1. <<>> \in Seq(Ids) /\ ScreenWidth \in Nat /\ ScreenHeight \in Nat
    BY GraphicsAssumption
  <2>2. c \in Graphic
    BY <1>1, <2>1 DEF Graphic
  <2> QED
    BY <2>2, NullAssumption
<1>3. c.parent = NULL /\ c.children = <<>> /\ c.freed = FALSE
  BY <1>1
<1>4. tree = [g \in Ids |-> IF g # Screen THEN NULL ELSE c]
  BY <1>1 DEF GraphicsInit
<1>5. Screen \in Ids /\ tree[Screen] = c /\ \A g \in Ids : g # Screen => tree[g] = NULL
  BY <1>4 DEF Ids
<1>6. TreeShape(tree)
  BY <1>2, <1>3, <1>4, <1>5 DEF TreeShape
<1>7. LiveIn(tree) = {Screen}
  BY <1>2, <1>3, <1>5 DEF LiveIn
<1>8. <<>> \in Seq(Ids) /\ Len(<<>>) = 0 /\ ToSet(<<>>) = {}
  BY DEF ToSet
<1>9. Rows(tree)
  <2>1. Row(tree, <<>>)
    BY <1>8 DEF Row, Once, InOrder
  <2> QED
    BY <1>3, <1>5, <1>7, <2>1 DEF Rows
<1>10. Family(tree, {})
  <2>1. NULL # Screen
    BY GraphicsAssumption
  <2>2. \A S \in SUBSET {Screen} : S # {} => \E g \in S : tree[g].parent \notin S
    BY <1>3, <1>5, <2>1
  <2> QED
    BY <1>3, <1>5, <1>7, <1>8, <2>1, <2>2 DEF Family
<1> QED
  BY <1>6, <1>9, <1>10 DEF TreeInv, Good

\* The graphics that are not freed stay trees whatever windows are made, drawn in,
\* moved, brought to the top and closed (graphics/graphics.c, window.c): each is
\* held once, by its parent, at the place the two give, in the order of the z
\* indices; none is lost, although graphics_info_children_free passes over every
\* second child, and none comes to be around itself.
THEOREM TreeStaysSound == GraphicsSpec => []TreeIsSound
<1>1. TreeInv => TreeIsSound
  BY GoodIsSound DEF TreeInv, TreeIsSound
<1> QED
  BY <1>1, GraphicsStart, GraphicsStep, PTL DEF GraphicsSpec

=============================================================================
