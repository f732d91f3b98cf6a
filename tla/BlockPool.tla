----------------------------- MODULE BlockPool -----------------------------
(***************************************************************************)
(* What a block allocator promises its callers, with no table, no counters *)
(* and no search: a pool of equal blocks, of which each caller owns whole  *)
(* regions of consecutive blocks.  A region is handed out only where       *)
(* nobody else owns a block, may be resized in place only into blocks      *)
(* nobody owns, and moves only to a region clear of every region in use,   *)
(* the moving one included (its contents are copied before it goes).       *)
(***************************************************************************)
EXTENDS Integers

CONSTANT PoolSize           \* blocks an allocation may lie in, a natural number

VARIABLE owned              \* owned[b]: length of the region at b, 0 if none

PoolBlocks == 0 .. PoolSize - 1

\* The blocks of the region that starts at b when its length is n.
Span(b, n) == b .. b + n - 1

\* No block of n blocks at b lies in a region other than those of "mine".
Clear(b, n, mine) ==
    /\ n > 0
    /\ b + n <= PoolSize
    /\ \A c \in PoolBlocks \ mine : Span(b, n) \cap Span(c, owned[c]) = {}

Init == owned = [b \in PoolBlocks |-> 0]

Allocate(b, n) ==
    /\ Clear(b, n, {})
    /\ owned' = [owned EXCEPT ![b] = n]

Release(b) ==
    /\ owned[b] > 0
    /\ owned' = [owned EXCEPT ![b] = 0]

Resize(b, n) ==
    /\ owned[b] > 0
    /\ Clear(b, n, {b})
    /\ owned' = [owned EXCEPT ![b] = n]

Move(b, c, n) ==
    /\ owned[b] > 0
    /\ Clear(c, n, {})
    /\ owned' = [owned EXCEPT ![b] = 0, ![c] = n]

Next ==
    \E b \in PoolBlocks :
        \/ Release(b)
        \/ \E n \in 1 .. PoolSize : Allocate(b, n) \/ Resize(b, n)
        \/ \E n \in 1 .. PoolSize, c \in PoolBlocks : Move(b, c, n)

Spec == Init /\ [][Next]_owned
=============================================================================
