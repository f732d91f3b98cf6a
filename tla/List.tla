-------------------------------- MODULE List --------------------------------
(***************************************************************************)
(* What the vector of lib/vector/vector.h promises: a list.  An element is *)
(* a value, or Junk where the vector was grown and nothing was written.  A *)
(* failed allocation loses the list: it keeps its length and what it holds *)
(* is unknown, until an allocation succeeds again.                         *)
(***************************************************************************)
EXTENDS Integers, Sequences

CONSTANTS Value, Junk,
          Grown         \* how much a list may be grown at once

VARIABLES list, block

vars == <<list, block>>

Unknown(n) == [k \in 1..n |-> Junk]

Init == list = <<>> /\ block = "held"

\* The list holds x from now on, unless it is lost.
Kept(x) == IF block = "lost" THEN Junk ELSE x

Push(x) == list' = Append(list, Kept(x)) /\ block' = block

\* A push that found the memory again: what was lost stays unknown.
PushAgain(x) == block' = "held" /\ list' = Append(list, x)

\* The new elements hold what the memory held: nobody writes them.
Grow(n) == /\ \E fresh \in [1..n -> Value \cup {Junk}] : list' = list \o fresh
           /\ block' \in {block, "held"}

Pop == /\ list # <<>> /\ block' = block
       /\ list' = [k \in 1..Len(list) - 1 |-> list[k]]

\* The first element equal to x goes; those behind it move up.
PopElement(x) ==
    \E p \in 1..Len(list) :
       /\ list[p] = x /\ \A k \in 1..p - 1 : list[k] # x
       /\ list' = [k \in 1..Len(list) - 1 |-> IF k < p THEN list[k] ELSE list[k + 1]]
       /\ block' = block

Overwrite(p, x) == list' = [list EXCEPT ![p] = Kept(x)] /\ block' = block

\* Reordering exchanges neighbours.
Exchange(p) ==
    /\ list[p] # list[p + 1] /\ block' = block
    /\ list' = [list EXCEPT ![p] = Kept(list[p + 1]), ![p + 1] = Kept(list[p])]

Lose == list' = Unknown(Len(list)) /\ block' = "lost"

Next == \/ \E x \in Value : Push(x) \/ PushAgain(x) \/ PopElement(x)
        \/ \E n \in Grown : Grow(n)
        \/ Pop \/ Lose
        \/ \E p \in 1..Len(list), x \in Value : Overwrite(p, x)
        \/ \E p \in 1..Len(list) - 1 : Exchange(p)

Spec == Init /\ [][Next]_vars
=============================================================================
