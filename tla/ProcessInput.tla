------------------------------ MODULE ProcessInput ------------------------------
(***************************************************************************)
(* What reaches one process and what it takes: its keys                    *)
(* (keyboard/keyboard.c) and its window events (task/process.c).  Module   *)
(* Windows says when the kernel gives it one; here it may at any moment.   *)
(***************************************************************************)
EXTENDS Integers, Sequences, KeyRing

CONSTANTS
    Events,        \* the window events there are
    NULL,          \* an element of the event vector that was never written
    MaxTyped,      \* bound: keys waiting
    MaxPending     \* bound: events waiting

VARIABLES
    ring,          \* process->keyboard
    typed,         \* the keys pushed and not popped, oldest first
    overrun,       \* a key has been pushed onto a cell that was not free
    slot,          \* the one element of window_events.vector in use
    total_unpopped,
    pending        \* the events pushed and not popped, oldest first

vars == <<ring, typed, overrun, slot, total_unpopped, pending>>

KeysStay == UNCHANGED <<ring, typed, overrun>>
EventsStay == UNCHANGED <<slot, total_unpopped, pending>>

\* process_init.
Init ==
    /\ ring = EmptyRing /\ typed = <<>> /\ overrun = FALSE
    /\ slot = NULL /\ total_unpopped = 0 /\ pending = <<>>

\* keyboard_push, the process being the current one.
keyboard_push(c) ==
    /\ Len(typed) < MaxTyped
    /\ ring' = Pushed(ring, c)
    /\ typed' = Append(typed, c)
    /\ overrun' = (overrun \/ Len(typed) >= RingSize)
    /\ EventsStay

\* Mutant of keyboard_pop: the key stays in its cell.
keyboard_pop_KeepsKey ==
    /\ NextKey(ring) # ZERO
    /\ ring' = [ring EXCEPT !.head = After(@, 1)]
    /\ typed' = IF typed = <<>> THEN <<>> ELSE Tail(typed)
    /\ UNCHANGED overrun
    /\ EventsStay

\* keyboard_pop, the process running.  After an overrun the ring may hold fewer
\* keys than were typed, or give none though it holds some.
keyboard_pop ==
    /\ NextKey(ring) # ZERO
    /\ ring' = Popped(ring)
    /\ typed' = IF typed = <<>> THEN <<>> ELSE Tail(typed)
    /\ UNCHANGED overrun
    /\ EventsStay

\* process_push_window_event: the index is never moved, so every event goes to
\* the same element of the vector.
process_push_window_event(e) ==
    /\ Len(pending) < MaxPending
    /\ slot' = e
    /\ total_unpopped' = total_unpopped + 1
    /\ pending' = Append(pending, e)
    /\ KeysStay

\* process_pop_window_event.
process_pop_window_event ==
    /\ total_unpopped > 0
    /\ total_unpopped' = total_unpopped - 1
    /\ pending' = Tail(pending)
    /\ UNCHANGED slot
    /\ KeysStay

Next ==
    \/ \E c \in Chars : keyboard_push(c)
    \/ keyboard_pop
    \/ \E e \in Events : process_push_window_event(e)
    \/ process_pop_window_event

Spec == Init /\ [][Next]_vars

-----------------------------------------------------------------------------
(* Properties *)

TypeOK ==
    /\ ring \in Rings
    /\ overrun \in BOOLEAN
    /\ slot \in Events \cup {NULL}
    /\ total_unpopped \in Nat

\* As long as a process never had more keys waiting than its ring has cells, the
\* ring holds exactly those, in the order they were typed: none is lost,
\* doubled or out of turn, and a free cell at the head means that none waits.
KeysInOrder == ~overrun => Holds(ring, typed)

\* The next event the process gets is the oldest it has not had.
EventsInOrder == total_unpopped > 0 => slot = Head(pending)
=============================================================================
