-------------------------------- MODULE KeyRing --------------------------------
(***************************************************************************)
(* struct keyboard_buffer (task/process.h) and what keyboard/keyboard.c    *)
(* does with it: a ring of RingSize characters in which 0 marks a free     *)
(* cell.  head and tail count for ever in the code and are only used       *)
(* modulo the size; here they are kept modulo the size, which is the same  *)
(* up to the 2^31st key.                                                   *)
(***************************************************************************)
EXTENDS Integers, Sequences

CONSTANTS
    RingSize,      \* PEACHOS_KEYBOARD_BUFFER_SIZE
    Chars,         \* the characters a key can give
    ZERO           \* the character 0

ASSUME KeyRingAssumption ==
    /\ RingSize \in Nat \ {0}
    /\ ZERO \notin Chars

Cells == 0 .. RingSize - 1

\* The cell i places after cell c.
After(c, i) == IF c + i >= RingSize THEN c + i - RingSize ELSE c + i

Rings == [buffer : [Cells -> Chars \cup {ZERO}], head : Cells, tail : Cells]

\* process_init clears the whole process.
EmptyRing == [buffer |-> [c \in Cells |-> ZERO], head |-> 0, tail |-> 0]

\* keyboard_push stores the key whether or not the cell is free.
Pushed(r, c) == [r EXCEPT !.buffer[r.tail] = c, !.tail = After(@, 1)]

\* What keyboard_pop returns.
NextKey(r) == r.buffer[r.head]

\* keyboard_pop: on a free cell nothing changes.
Popped(r) ==
    IF NextKey(r) = ZERO THEN r
    ELSE [r EXCEPT !.buffer[r.head] = ZERO, !.head = After(@, 1)]

\* The ring holds the keys of sequence q, oldest at the head, and no other.
Holds(r, q) ==
    /\ Len(q) <= RingSize
    /\ r.tail = After(r.head, Len(q))
    /\ \A i \in Cells :
          r.buffer[After(r.head, i)] = IF i < Len(q) THEN q[i + 1] ELSE ZERO
=============================================================================
