-------------------------------- MODULE Windows --------------------------------
(***************************************************************************)
(* Windows, focus, and where a key or a click goes: graphics/window.c, the *)
(* click path of graphics/graphics.c, and the windows of a process         *)
(* (task/process.c).                                                       *)
(*                                                                         *)
(* The kernel runs with interrupts off, so an interrupt or a system call   *)
(* is one step.  The handlers it calls one after the other are operators   *)
(* from one state of the window system to the next.  What a step gives a   *)
(* process, a key or a window event, is in "sent"; what a process makes of *)
(* it is module ProcessInput's.  Pixels are left out: two windows either   *)
(* lie at the same place or do not meet, and z indices are kept as the     *)
(* order they give the screen's children.  The mouse's own window, which   *)
(* every search ignores, stands as NIL.  kfree gives nothing back, so a   *)
(* window's address is never used a second time.                           *)
(***************************************************************************)
EXTENDS Integers, Sequences, SequencesExt, FiniteSets

CONSTANTS
    Processes,     \* the processes that can be created in a run
    WindowSet,     \* the windows that can be created in a run
    Borderless,    \* those created with WINDOW_FLAG_BORDERLESS
    Places,        \* where a window can lie on the screen
    Centre,        \* where it is created
    NIL           \* the null pointer

ASSUME WindowsAssumption ==
    /\ Borderless \subseteq WindowSet /\ Centre \in Places
    /\ NIL \notin WindowSet \cup Processes

VARIABLE ws        \* the window system and the processes' windows: see WindowsInit

Parts == {"body", "title", "close"}

\* The window, among those of sequence s that lie at pl, that comes first.
FirstAt(s, places, pl) ==
    LET i == SelectInSeq(s, LAMBDA w : places[w] = pl)
    IN  IF i = 0 THEN NIL ELSE s[i]

-----------------------------------------------------------------------------
(* Events *)

\* process_push_window_event, and keyboard_push's part in a process.
Send(s, p, type, w) == [s EXCEPT !.sent = Append(@, [to |-> p, type |-> type, win |-> w])]

\* process_get_from_kernel_window, NIL if no process has the window.
OwnerOf(s, w) ==
    LET owners == {p \in s.alive : Contains(s.windows[p], w)}
    IN  IF owners = {} THEN NIL ELSE CHOOSE p \in owners : TRUE

\* process_window_event_handler.  A click outside the window's body is not for
\* the program; mouse moves are never queued.
process_window_event_handler(s, w, type, queued) ==
    LET p == OwnerOf(s, w)
        t == IF queued THEN Send(s, p, type, w) ELSE s
    IN  IF p = NIL THEN s
        ELSE CASE type = "FOCUS"        -> [t EXCEPT !.current = p]
               [] type = "WINDOW_CLOSE" -> [t EXCEPT !.windows[p] = RemoveFirst(@, w)]
               [] OTHER                 -> t

\* window_event_push: window_event_handler, which does nothing, and the
\* process's handler if it has been registered.
window_event_push(s, w, type, queued) ==
    IF w \in s.handled THEN process_window_event_handler(s, w, type, queued) ELSE s

-----------------------------------------------------------------------------
(* Windows *)

\* window_bring_to_top.  The graphics of a window that was closed are no longer
\* among the screen's children.
window_bring_to_top(s, w) ==
    [s EXCEPT !.children =
        IF Contains(@, w) THEN Append(RemoveFirst(@, w), w) ELSE @]

\* Mutant of window_focus: the window is told nothing.
window_focus_Silent(s, w) ==
    IF s.focused = w THEN s
    ELSE window_bring_to_top([s EXCEPT !.focused = w], w)

\* window_focus and window_unfocus.
window_focus(s, w) ==
    LET a == [s EXCEPT !.focused = w]
        b == IF s.focused # NIL /\ s.focused \notin Borderless
             THEN window_event_push(a, s.focused, "LOST_FOCUS", TRUE) ELSE a
    IN  IF s.focused = w THEN s
        ELSE window_event_push(window_bring_to_top(b, w), w, "FOCUS", TRUE)

\* window_free: focused_window and window_moving are left as they are.
window_free(s, w) ==
    [s EXCEPT !.handled = @ \ {w},
              !.windows_vector = RemoveFirst(@, w),
              !.children = RemoveFirst(@, w)]

window_close(s, w) ==
    window_free(window_event_push(s, w, "WINDOW_CLOSE", TRUE), w)

\* window_create: the focus is given before the process is known to the window.
window_create(s, w) ==
    window_focus([s EXCEPT !.created = @ \cup {w},
                           !.place[w] = Centre,
                           !.windows_vector = Append(@, w),
                           !.children = Append(@, w)], w)

\* process_window_create; memory: process_malloc gives the program its copy.
process_window_create(s, p, w, memory) ==
    LET t == window_create(s, w)
    IN  IF memory THEN [t EXCEPT !.handled = @ \cup {w},
                                 !.windows[p] = Append(@, w)]
        ELSE window_close(t, w)

\* window_title_bar_clicked.
window_title_bar_clicked(s, w, part) ==
    IF part = "close" THEN window_close(s, w)
    ELSE [s EXCEPT !.moving = IF @ = w THEN NIL ELSE w]

\* graphics_mouse_click_handler: of the graphics under the mouse, the topmost,
\* and of those only a title bar has a handler.
graphics_mouse_click_handler(s, pl, part) ==
    LET w == FirstAt(Reverse(s.children), s.place, pl)
    IN  IF w = NIL \/ w \in Borderless \/ part = "body" THEN s
        ELSE window_title_bar_clicked(s, w, part)

\* window_get_at_position: windows_vector stays in the order of creation, as no
\* window's own zindex is ever set.
window_get_at_position(s, pl) == FirstAt(s.windows_vector, s.place, pl)

\* window_click_handler.
window_click_handler(s, pl, part) ==
    LET w == window_get_at_position(s, pl)
    IN  IF w = NIL THEN s
        ELSE window_focus(
                window_event_push(s, w, "MOUSE_CLICK",
                                  part = "body" \/ w \in Borderless), w)

\* A round of process_close_windows: the vector may have changed under the loop.
CloseNth(s, p, i) ==
    IF i \in DOMAIN s.windows[p] THEN window_close(s, s.windows[p][i]) ELSE s

\* process_close_windows.
process_close_windows(s, p) ==
    LET total_windows == Len(s.windows[p])
        closed[i \in 0 .. total_windows] ==
            IF i = 0 THEN s ELSE CloseNth(closed[i - 1], p, i)
    IN  closed[total_windows]

\* process_unlink; q: the process process_switch_to_any finds.
Unlinked(s, p, q) ==
    [s EXCEPT !.alive = @ \ {p},
              !.current = IF @ = p THEN q ELSE @]

-----------------------------------------------------------------------------
(* The steps *)

\* The first program runs, no window is open, and the mouse's window, NIL
\* here, has the focus.
WindowsInit ==
    \E p \in Processes :
          ws = [windows_vector |-> <<>>,     \* windows_vector
                children       |-> <<>>,     \* the screen's children, top last
                place          |-> [w \in WindowSet |-> Centre],
                focused        |-> NIL,     \* focused_window
                moving         |-> NIL,     \* window_moving
                created        |-> {},
                handled        |-> {},       \* process_window_event_handler is registered
                alive          |-> {p},      \* process_vector
                current        |-> p,        \* current_process
                windows        |-> [q \in Processes |-> <<>>],   \* process->windows
                started        |-> {p},      \* every process so far
                sent           |-> <<>>]     \* what the last step gave processes

\* The window system as a step finds it, before it has sent anything.
Entry == [ws EXCEPT !.sent = <<>>]

\* process_load_switch.
Start(p) ==
    /\ p \notin ws.started
    /\ ws' = [Entry EXCEPT !.started = @ \cup {p}, !.alive = @ \cup {p}, !.current = p]

\* Mutant of process_terminate: the process is unlinked after its windows are
\* closed.
process_terminate_UnlinksLast(p) ==
    /\ p \in ws.alive
    /\ \E q \in ws.alive \ {p} : ws' = Unlinked(process_close_windows(Entry, p), p, q)

\* process_terminate.
process_terminate(p) ==
    /\ p \in ws.alive
    /\ \E q \in ws.alive \ {p} : ws' = process_close_windows(Unlinked(Entry, p, q), p)

\* isr80h_command16_window_create.
Create(p, w) ==
    /\ p \in ws.alive /\ w \notin ws.created
    /\ \E memory \in BOOLEAN : ws' = process_window_create(Entry, p, w, memory)

\* mouse_click: the handlers in the order they were registered at boot.
Click(pl, part) ==
    ws' = window_click_handler(graphics_mouse_click_handler(Entry, pl, part), pl, part)

\* window_screen_mouse_move_handler.
Move(pl) ==
    /\ ws.moving # NIL
    /\ ws' = window_bring_to_top([Entry EXCEPT !.place[ws.moving] = pl], ws.moving)

\* keyboard_push: the key goes to the current process, and the focused window is
\* told.
KeyPressed ==
    LET s == Send(Entry, ws.current, "KEY", NIL) IN
    ws' = IF ws.focused = NIL THEN s ELSE window_event_push(s, ws.focused, "KEY_PRESS", TRUE)

WindowsNext ==
    \/ \E p \in Processes :
          \/ Start(p)
          \/ process_terminate(p)
          \/ \E w \in WindowSet : Create(p, w)
    \/ \E pl \in Places : Move(pl) \/ \E part \in Parts : Click(pl, part)
    \/ KeyPressed

WindowsSpec == WindowsInit /\ [][WindowsNext]_ws

-----------------------------------------------------------------------------
(* Properties *)

\* Every window on the screen belongs to exactly one process that runs, lists
\* it once and hears of it, and the screen, the window system and the processes
\* agree on which windows there are: a process that ends leaves none behind.
WindowsAreOwned ==
    LET Open == ToSet(ws.windows_vector) IN
    /\ ToSet(ws.children) = Open /\ Open = ws.handled
    /\ Len(ws.children) = Cardinality(Open) /\ Len(ws.windows_vector) = Cardinality(Open)
    /\ \A w \in Open : Cardinality({p \in ws.alive : Contains(ws.windows[p], w)}) = 1
    /\ \A p \in ws.alive :
          /\ ToSet(ws.windows[p]) \subseteq Open
          /\ Len(ws.windows[p]) = Cardinality(ToSet(ws.windows[p]))

\* A click that moves the focus to a window moves the keys to its process: the
\* two ways a key takes to a program then lead to the same one.
FocusMovesKeys ==
    [][\A w \in WindowSet :
          ws.focused # w /\ ws'.focused = w /\ w \in ws.created =>
              Contains(ws'.windows[ws'.current], w)]_ws

\* The window a click gives the focus is the one the user sees there.
ClickedIsTopmost ==
    [][\A w \in ws.created \ {ws.focused} :
          ws'.focused = w /\ ws'.windows_vector = ws.windows_vector =>
              w = FirstAt(Reverse(ws.children), ws.place, ws.place[w])]_ws
=============================================================================
