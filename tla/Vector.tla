------------------------------- MODULE Vector -------------------------------
(***************************************************************************)
(* lib/vector/vector.c, which programs/containerlib/src/vector.c copies    *)
(* with the C library's allocator: an array that grows.  memory has        *)
(* tm_elems cells, the first t_elems of which are elements.  An allocation *)
(* may fail; vector_resize then stores the NULL it got over the only       *)
(* pointer to the old block, and leaves tm_elems as it was, so that later  *)
(* calls read and write from address 0 up: what the cells hold is unknown  *)
(* (Unwritten) and so is what is written to them, until a resize succeeds. *)
(* Reordering is a bubble sort and is followed exchange by exchange.       *)
(***************************************************************************)
EXTENDS Integers, Sequences

CONSTANTS Element,      \* what elements hold, ordered as numbers
          Unwritten,    \* what a cell nobody wrote holds
          Reserved,     \* elements reserved on top at each resize
          MaxElems,     \* bound on the elements
          Grown         \* how much vector_grow adds

ASSUME VectorAssumption ==
    /\ Element \subseteq Int /\ Unwritten \notin Int
    /\ Reserved \in Nat /\ MaxElems \in Nat
    /\ Grown \subseteq Nat

VARIABLES memory, t_elems, tm_elems, block,
          loop          \* the pair of the bubble sort's next comparison

vectorVars == <<memory, t_elems, tm_elems, block, loop>>

NotSorting == [i |-> -1, j |-> -1]

Cells(n) == [k \in 0..n - 1 |-> Unwritten]

Cell(k) == IF k \in DOMAIN memory THEN memory[k] ELSE Unwritten
Contents == [k \in 1..t_elems |-> Cell(k - 1)]

-----------------------------------------------------------------------------
\* vector_new: nothing is allocated yet.
VectorInit == /\ t_elems = 0 /\ tm_elems = 0 /\ memory = Cells(0)
              /\ block = "held" /\ loop = NotSorting

\* vector_resize finds room for n more elements.
HasRoom(n) == tm_elems > t_elems + n

\* vector_resize moves the elements to a block with room for n more.
Moved(n) ==
    /\ ~HasRoom(n)
    /\ tm_elems' = Reserved + t_elems + n
    /\ memory' = [k \in 0..Reserved + t_elems + n - 1 |-> Cell(k)]
    /\ block' = "held"

Written(m, k, x) == IF block = "lost" THEN m ELSE [m EXCEPT ![k] = x]

AtRest == loop = NotSorting

vector_push(x) ==
    /\ AtRest /\ t_elems < MaxElems
    /\ \/ /\ HasRoom(1)
          /\ memory' = Written(memory, t_elems, x)
          /\ UNCHANGED <<tm_elems, block>>
       \/ /\ ~HasRoom(1)
          /\ tm_elems' = Reserved + t_elems + 1
          /\ memory' = [k \in 0..Reserved + t_elems |->
                           IF k = t_elems THEN x ELSE Cell(k)]
          /\ block' = "held"
    /\ t_elems' = t_elems + 1
    /\ UNCHANGED loop

\* The elements that are added are not written.
vector_grow(n) ==
    /\ AtRest /\ t_elems + n <= MaxElems
    /\ \/ HasRoom(n) /\ UNCHANGED <<memory, tm_elems, block>>
       \/ Moved(n)
    /\ t_elems' = t_elems + n
    /\ UNCHANGED loop

\* A push or a grow without memory for the resize.
ResizeFails(n) ==
    /\ AtRest /\ ~HasRoom(n) /\ t_elems + n <= MaxElems
    /\ block' = "lost" /\ memory' = Cells(tm_elems)
    /\ UNCHANGED <<t_elems, tm_elems, loop>>

vector_pop ==
    /\ AtRest /\ t_elems > 0
    /\ t_elems' = t_elems - 1
    /\ UNCHANGED <<memory, tm_elems, block, loop>>

\* The cell of the first element that holds x.
Holds(x, p) == p \in 0..t_elems - 1 /\ Cell(p) = x /\ \A k \in 0..p - 1 : Cell(k) # x

\* Mutant of vector_pop_element: the last element moved is forgotten.
vector_pop_element_Short(x) ==
    /\ AtRest
    /\ \E p \in 0..t_elems - 1 :
          /\ Holds(x, p)
          /\ memory' = IF p = t_elems - 1 THEN memory
                       ELSE [k \in DOMAIN memory |->
                               IF k \in p..t_elems - 3 THEN Cell(k + 1) ELSE memory[k]]
    /\ t_elems' = t_elems - 1
    /\ UNCHANGED <<tm_elems, block, loop>>

(* The last element is popped, any other is written over by those behind   *)
(* it.  Without memory for the comparison nothing happens.                 *)
vector_pop_element(x) ==
    /\ AtRest
    /\ \E p \in 0..t_elems - 1 :
          /\ Holds(x, p)
          /\ memory' = IF p = t_elems - 1 THEN memory
                       ELSE [k \in DOMAIN memory |->
                               IF k \in p..t_elems - 2 THEN Cell(k + 1) ELSE memory[k]]
    /\ t_elems' = t_elems - 1
    /\ UNCHANGED <<tm_elems, block, loop>>

vector_overwrite(k, x) ==
    /\ AtRest /\ k \in 0..t_elems - 1
    /\ memory' = Written(memory, k, x)
    /\ UNCHANGED <<t_elems, tm_elems, block, loop>>

-----------------------------------------------------------------------------
(* vector_reorder *)

ReorderStarts ==
    /\ AtRest /\ t_elems >= 2
    /\ loop' = [i |-> 0, j |-> 0]
    /\ UNCHANGED <<memory, t_elems, tm_elems, block>>

\* Mutant of After: a pass ends one pair early.
After_Early(at) ==
    IF at.j + 2 < t_elems - at.i - 1 THEN [i |-> at.i, j |-> at.j + 1]
    ELSE IF at.i + 1 < t_elems - 1 THEN [i |-> at.i + 1, j |-> 0]
    ELSE NotSorting

\* The next pair: the last of a pass is behind the elements already placed.
After(at) ==
    IF at.j + 1 < t_elems - at.i - 1 THEN [i |-> at.i, j |-> at.j + 1]
    ELSE IF at.i + 1 < t_elems - 1 THEN [i |-> at.i + 1, j |-> 0]
    ELSE NotSorting

\* What the reorder function says of an unknown element is unknown.
MayExchange(a, b) == IF Unwritten \in {a, b} THEN a # b ELSE a > b
MayKeep(a, b) == Unwritten \notin {a, b} => a <= b

Compare ==
    /\ ~AtRest
    /\ \/ /\ MayExchange(Cell(loop.j), Cell(loop.j + 1))
          /\ memory' = Written(Written(memory, loop.j, Cell(loop.j + 1)),
                               loop.j + 1, Cell(loop.j))
       \/ MayKeep(Cell(loop.j), Cell(loop.j + 1)) /\ UNCHANGED memory
    /\ loop' = After(loop)
    /\ UNCHANGED <<t_elems, tm_elems, block>>

VectorNext ==
    \/ \E x \in Element : vector_push(x) \/ vector_pop_element(x)
    \/ \E n \in Grown : vector_grow(n)
    \/ \E n \in Grown \cup {1} : ResizeFails(n)
    \/ vector_pop
    \/ \E k \in 0..t_elems - 1, x \in Element : vector_overwrite(k, x)
    \/ ReorderStarts \/ Compare

VectorSpec == VectorInit /\ [][VectorNext]_vectorVars

-----------------------------------------------------------------------------
(* Properties *)

\* The elements lie in the block; a lost one holds nothing that is known.
VectorInv ==
    /\ tm_elems \in Nat /\ t_elems \in 0..tm_elems
    /\ memory \in [0..tm_elems - 1 -> Element \cup {Unwritten}]
    /\ block \in {"held", "lost"}
    /\ block = "lost" => \A k \in 0..tm_elems - 1 : memory[k] = Unwritten
    /\ \/ loop = NotSorting
       \/ loop \in [i : Nat, j : Nat] /\ loop.j + 1 < t_elems

(* While it sorts: the last loop.i elements are in their places, and the   *)
(* greatest of the others seen in this pass is the one at loop.j.          *)
Known == \A k \in 0..t_elems - 1 : Cell(k) # Unwritten

SortInv ==
    ~AtRest =>
        /\ loop.j + 1 < t_elems - loop.i
        /\ Known =>
              /\ \A k \in 0..loop.j - 1 : Cell(k) <= Cell(loop.j)
              /\ \A k \in t_elems - loop.i..t_elems - 1 :
                    \A m \in 0..k - 1 : Cell(m) <= Cell(k)

(* The vector is a list: every call does to the elements what its comment  *)
(* says, whether the block was moved or not, and nothing but a failed      *)
(* allocation loses one.                                                   *)
L == INSTANCE List WITH list <- Contents, Value <- Element, Junk <- Unwritten
ListSpec == L!Spec

\* When vector_reorder returns, elements that are known are in order.
Sorted == \A k \in 1..t_elems - 1 : Contents[k] <= Contents[k + 1]

ReorderSorts == [][(~AtRest /\ AtRest' /\ Known') => Sorted']_vectorVars

=============================================================================
