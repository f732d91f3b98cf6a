-------------------------------- MODULE Gui --------------------------------
(***************************************************************************)
(* The GUI library the user programs are linked with (programs/guilib):    *)
(* gui.c, event.c, element.c and property.c.  A program has one gui bound  *)
(* to its window: a tree of elements, a stack of events not yet handled,   *)
(* the focused element and the flag that asks for a redraw.  Everything    *)
(* runs in one thread, so the state is one record s and the library's      *)
(* functions are operators from a record to a record; Userland.tla steps   *)
(* through them.                                                           *)
(*                                                                         *)
(* An element is its place in s.elements (0 is NULL).  A root is an        *)
(* element without a parent; a child's place in its parent's vector is its *)
(* order of creation.  Nothing the programs do frees an element.           *)
(***************************************************************************)
EXTENDS Integers, Sequences, SequencesExt, FiniteSets

NULL == 0

GuiEvent(type) == [type |-> type, element |-> NULL, x |-> 0, y |-> 0, value |-> 0]

Click(x, y) == [GuiEvent("CLICKED") EXCEPT !.x = x, !.y = y]
KeyStroke(key) == [GuiEvent("KEYSTROKE") EXCEPT !.value = key]
Selected(index) == [GuiEvent("LISTAREA_ITEM_SELECTED") EXCEPT !.value = index]

gui_bind_to_window ==
    [elements |-> <<>>, events |-> <<>>, focused |-> NULL, must_draw |-> TRUE]

-----------------------------------------------------------------------------
(* The tree *)

Children(s, i) == {c \in 1..Len(s.elements) : s.elements[c].parent = i}
Roots(s) == Children(s, NULL)

\* The vectors of roots and of children go by the order of creation.
InOrder(S) ==
    [k \in 1..Cardinality(S) |->
        CHOOSE i \in S : Cardinality({j \in S : j <= i}) = k]

gui_element_root(s, i) ==
    LET up[e \in 1..Len(s.elements)] ==
            IF s.elements[e].parent = NULL THEN e ELSE up[s.elements[e].parent]
    IN up[i]

\* Mutant: the library is not told of the mark.
gui_element_mark_for_redraw_Untold(s, i) == [s EXCEPT !.elements[i].redraw = TRUE]

gui_element_mark_for_redraw(s, i) ==
    [s EXCEPT !.elements[i].redraw = TRUE, !.must_draw = TRUE]

(* A root has graphics of its own below the window's; a child draws into   *)
(* its root's pixels and lies where its parent lies.                       *)
gui_element_create(s, parent, x, y, width, height, handler, id) ==
    LET element == [parent |-> parent, id |-> id, handler |-> handler,
                    x |-> x, y |-> y, rel_root_x |-> 0, rel_root_y |-> 0,
                    width |-> width, height |-> height,
                    real_width |-> width, real_height |-> height,
                    properties |-> <<>>, redraw |-> FALSE]
        p == s.elements[parent]
        placed == IF parent = NULL THEN element
                  ELSE [element EXCEPT !.x = p.x + x, !.y = p.y + y,
                          !.rel_root_x = p.rel_root_x + x,
                          !.rel_root_y = p.rel_root_y + y,
                          !.real_width = p.real_width,
                          !.real_height = p.real_height]
    IN gui_element_mark_for_redraw([s EXCEPT !.elements = Append(@, placed)],
                                   Len(s.elements) + 1)

(* The right and the lower edge count as inside. *)
gui_element_exists_in_position(element, x, y) ==
    /\ x >= 0 /\ y >= 0
    /\ x \in element.x..element.x + element.width
    /\ y \in element.y..element.y + element.height

\* Mutant: the window's coordinates of a child instead of its root's.
gui_element_draw_pixel_InWindow(element, x, y) ==
    IF element.parent = NULL THEN y * element.real_width + x
    ELSE (y + element.y) * element.real_width + (x + element.x)

(* Where the point (x, y) of an element lies in the pixels of its root. *)
gui_element_draw_pixel(element, x, y) ==
    IF element.parent = NULL THEN y * element.real_width + x
    ELSE (y + element.rel_root_y) * element.real_width + (x + element.rel_root_x)

-----------------------------------------------------------------------------
(* Events.  An event is cloned onto the top of the stack for every element *)
(* it is for.                                                              *)

Push(s, targets, event) ==
    [s EXCEPT !.events =
        @ \o [k \in 1..Len(targets) |-> [event EXCEPT !.element = targets[k]]]]

gui_element_event_push(s, i, event) == Push(s, <<i>>, event)

(* A push whose clone finds no memory gives up and says nothing, and so    *)
(* does the first push of all when the stack finds none.  Push is every    *)
(* push with memory; since no handler looks at the stack, what has none is *)
(* taken away from what a call, begun on the stack q, has pushed.          *)
Pushes(t, q) == Len(q) + 1..Len(t.events)

\* t without the pushes that found no memory.
Without(t, q, gone) ==
    LET kept == InOrder(Pushes(t, q) \ gone)
    IN [t EXCEPT !.events = q \o [k \in 1..Len(kept) |-> t.events[kept[k]]]]

(* The stack has room for four events before it is enlarged.  Should that  *)
(* fail it has no memory left, but events still: the next one is read from *)
(* NULL.  (That it stays as large as it became is left out.)               *)
StackRoom == 4
Overfills(q, t) == Len(q) <= StackRoom /\ Len(t.events) > StackRoom

(* The event for the roots among targets, in the order of the roots. *)
gui_event_push(s, event, targets) ==
    Push(s, InOrder(Roots(s) \cap targets), event)

\* Mutant: the parent is told as well.
gui_event_propergate_through_children_AndUp(s, event) ==
    Push(s, InOrder((Children(s, event.element)
                     \cup {s.elements[event.element].parent}) \ {NULL}), event)

gui_event_propergate_through_children(s, event) ==
    Push(s, InOrder(Children(s, event.element)), event)

gui_event_should_continue_propergating_childern(res) ==
    res \in {"IGNORED", "ERROR", "PROCESSED_CONTINUE_WITH_CHILDREN"}

\* Mutant: the listeners hear of clicks only.
gui_event_push_to_properties_ClicksOnly(s, event) ==
    IF s.elements[event.element].properties # <<>> /\ event.type = "CLICKED"
    THEN [s EXCEPT !.printed = event.value] ELSE s

(* A property with an event listener reports the selections of its element.*)
gui_event_push_to_properties(s, event) ==
    IF s.elements[event.element].properties # <<>>
       /\ event.type = "LISTAREA_ITEM_SELECTED"
    THEN [s EXCEPT !.printed = event.value] ELSE s

(* The children get the event when the handler's answer allows it. *)
gui_element_call_event_handlers(handled, event) ==
    IF gui_event_should_continue_propergating_childern(handled.res)
    THEN gui_event_propergate_through_children(handled.s, event) ELSE handled.s

(* gui_element_property_has compares the listeners of each attached        *)
(* property with themselves: any property stands for every other.          *)
gui_element_property_has(s, i, property) == s.elements[i].properties # <<>>

gui_element_property_attach(s, i, property) ==
    IF gui_element_property_has(s, i, property) THEN s
    ELSE [s EXCEPT !.elements[i].properties = Append(@, property)]

-----------------------------------------------------------------------------
(* Focus *)

gui_unfocus_element(s) ==
    IF s.focused = NULL THEN s
    ELSE gui_event_push([s EXCEPT !.focused = NULL], GuiEvent("UNFOCUSED"),
                        1..Len(s.elements))

gui_focus_on_element(s, i) ==
    LET unfocused == gui_unfocus_element(s)
    IN IF unfocused.focused = i THEN unfocused
       ELSE gui_event_push([unfocused EXCEPT !.focused = i], GuiEvent("FOCUSED"),
                           1..Len(s.elements))

(* The handler an element has until another one is set. *)
gui_element_event_handler(s, event) ==
    [res |-> "IGNORED",
     s |-> IF event.type = "CLICKED" /\ s.focused # event.element
           THEN gui_focus_on_element(s, event.element) ELSE s]

-----------------------------------------------------------------------------
(* A window event of the kernel becomes events of elements: a click goes   *)
(* to every root it lies in, a key to the focused element, the rest to     *)
(* nobody.                                                                 *)
gui_process_event_mouse_click(s, event) ==
    gui_event_push(s, Click(event.x, event.y),
        {i \in 1..Len(s.elements) :
            gui_element_exists_in_position(s.elements[i], event.x, event.y)})

gui_process_event_keypress(s, event) ==
    IF s.focused = NULL THEN s
    ELSE gui_element_event_push(s, s.focused, KeyStroke(event.key))

gui_process_event(s, event) ==
    CASE event.type = "MOUSE_CLICK" -> gui_process_event_mouse_click(s, event)
      [] event.type = "KEY_PRESS" -> gui_process_event_keypress(s, event)
      [] event.type \in {"FOCUS", "LOST_FOCUS", "MOUSE_MOVE", "WINDOW_CLOSE"} -> s

(* gui_redraw draws the roots that are marked, each with all its children. *)
(* No mark is ever taken back.                                             *)
gui_redraw(s) ==
    {i \in 1..Len(s.elements) : s.elements[gui_element_root(s, i)].redraw}

=============================================================================
