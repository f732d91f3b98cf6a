------------------------------ MODULE Userland ------------------------------
(***************************************************************************)
(* A program with a window: it makes its elements and then calls           *)
(* gui_process for ever, while the kernel's window events arrive.  Three   *)
(* programs are followed: the calculator, the list area test               *)
(* (programs/blank) and a form, a client of the library that focuses a     *)
(* text field of its own and shows an image beside it; the calculator's    *)
(* handlers never focus anything, so that the form is what exercises the   *)
(* keys and the focus.                                                     *)
(*                                                                         *)
(* One step is one call that makes an element, one redraw, one window      *)
(* event taken, or one event of an element handled.  The kernel's queue of *)
(* window events (ProcessInput) is read at one place only: what the call   *)
(* finds there is the user's choice at that moment.                        *)
(***************************************************************************)
EXTENDS Calculator

CONSTANTS Programs,       \* the programs followed
          Pressed,        \* the ids of the calculator's elements the user clicks
          ListRows,       \* where in the list area's column the user clicks
          Keys,           \* the keys the user types
          Junk,           \* what recycled memory may hold
          FormMax         \* the longest text of the form

ASSUME UserlandAssumption ==
    /\ Programs \subseteq {"calculator", "blank", "form"}
    /\ Keys \subseteq Nat \ {NUL} /\ Junk \in Nat /\ ListRows \subseteq Int
    /\ FormMax \in Nat \ {0}

VARIABLES program,        \* which program runs
          pc,             \* where it is
          calls,          \* the calls of its main done
          s,              \* the library's and the program's own data
          shown,          \* what the window shows
          expect,         \* the text a reader of the window expects
          typing,         \* the form's field is where the user's keys belong
          before,         \* both as they are should the last entry be lost
          lost            \* the kinds of events that were lost

vars == <<program, pc, calls, s, shown, expect, typing, before, lost>>
ghosts == <<shown, expect, typing, before, lost>>

-----------------------------------------------------------------------------
(* The programs *)

blank_main(t, k) ==
    CASE k = 1 -> gui_element_listarea_create(t, NULL, 10, 10, 100, 200, -1)
      [] k \in {2, 3} -> gui_element_listarea_list_add(t, k)
      [] k = 4 -> gui_element_property_attach(t, t.list.element, "blank")
      [] k = 5 -> gui_element_property_attach(t, t.list.element, "example")

form_main(t, k) ==
    CASE k = 1 -> gui_element_textfield_create(t, NULL, 10, 10, 80, 50, RESULT_TEXTFIELD)
      [] k = 2 -> gui_element_text_field_max_characters_set(t, FormMax)
      [] k = 3 -> gui_element_image_create(t, NULL, 100, 10, 50, 50, 2000)
      [] k = 4 -> gui_focus_on_element(t, t.field.element)

TotalCalls == [calculator |-> 17, blank |-> 5, form |-> 4]

main(t, k) ==
    CASE program = "calculator" -> calculator_main(t, k)
      [] program = "blank" -> blank_main(t, k)
      [] program = "form" -> form_main(t, k)

event_handler(t, event) ==
    LET handler == t.elements[event.element].handler
    IN CASE handler = "plane" -> gui_element_plane_event_handler(t, event)
         [] handler = "textfield" -> gui_element_textfield_event_handler(t, event)
         [] handler = "listarea" -> gui_element_listarea_event_handler(t, event)
         [] handler = "digit" -> numerical_button_event_handler(t, event)
         [] handler = "operation" -> mathimatical_operation_button_event_handler(t, event)
         [] handler = "delete" -> calculator_delete_button_event_handler(t, event)
         [] handler = "default" -> gui_element_event_handler(t, event)

Start(recycled) ==
    LET gui == gui_bind_to_window
    IN [elements |-> gui.elements, events |-> gui.events, focused |-> gui.focused,
        must_draw |-> gui.must_draw,
        field |-> [element |-> NULL], list |-> [element |-> NULL],
        printed |-> NoItem, wild |-> FALSE, recycled |-> recycled]

Init == /\ program \in Programs /\ pc = "main" /\ calls = 0
        /\ \E recycled \in {NUL, Junk} : s = Start(recycled)
        /\ shown = [text |-> <<>>, selected |-> NoItem, focused |-> NULL]
        /\ expect = <<>> /\ typing = TRUE /\ before = [text |-> <<>>, typing |-> TRUE]
        /\ lost = {}

\* What a point of the window shows: the id of the root drawn there.
At(x, y) == {s.elements[r].id : r \in {r \in 1..Len(s.elements) :
    /\ s.elements[r].parent = NULL
    /\ x \in s.elements[r].x..s.elements[r].x + s.elements[r].width - 1
    /\ y \in s.elements[r].y..s.elements[r].y + s.elements[r].height - 1}}

-----------------------------------------------------------------------------
(* What the user may expect of the text, from what was pressed and typed   *)
(* alone: the value of a text is that of its last operator, applied to the *)
(* value of what is left of it and to the number right of it.              *)

Number(digits) ==
    LET number[k \in 0..Len(digits)] ==
            IF k = 0 THEN 0 ELSE 10 * number[k - 1] + (digits[k] - 48)
    IN Wrap(number[Len(digits)])

Apply(op, left, right) ==
    CASE op = 43 -> Wrap(left + right)
      [] op = 45 -> Wrap(left - right)
      [] op = 42 -> Wrap(left * right)
      [] op = 47 -> IF right = 0 THEN 0
                    ELSE IF (left < 0) # (right < 0) THEN -(Abs(left) \div Abs(right))
                    ELSE Abs(left) \div Abs(right)

Value(text) ==
    LET value[k \in 0..Len(text)] ==
            LET last == SelectLastInSubSeq(text, 1, k, LAMBDA c : c \in Operator)
                number == Number(SubSeq(text, last + 1, k))
            IN IF last = 0 THEN number ELSE Apply(text[last], value[last - 1], number)
    IN value[Len(text)]

Added(text, c, room) == IF Len(text) < room THEN Append(text, c) ELSE text

DisplayRoom == TEXTFIELD_DEFAULT_BUFFER_SIZE - 1

AfterPress(text, id) ==
    CASE id \in 0..9 -> Added(text, 48 + id, DisplayRoom)
      [] id \in DOMAIN OperatorOf -> Added(text, OperatorOf[id], DisplayRoom)
      [] id = BUTTON_EQUALS -> itoa(Value(text))
      [] id = BUTTON_DELETE -> <<>>
      [] id = RESULT_TEXTFIELD -> text

AfterKey(text, key) ==
    IF key # GUI_KEY_BACKSPACE THEN Added(text, key, FormMax - 1)
    ELSE IF text = <<>> THEN text ELSE Front(text)

Expect(event) ==
    CASE event.type = "MOUSE_CLICK" ->
            /\ expect' = IF program = "calculator" /\ At(event.x, event.y) # {}
                         THEN AfterPress(expect, CHOOSE id \in At(event.x, event.y) : TRUE)
                         ELSE expect
            /\ typing' = (typing /\ ~(program = "form"
                                       /\ ImageId \in At(event.x, event.y)))
      [] event.type = "KEY_PRESS" ->
            /\ expect' = IF program = "form" /\ typing
                         THEN AfterKey(expect, event.key) ELSE expect
            /\ UNCHANGED typing
      [] event.type = "MOUSE_MOVE" -> UNCHANGED <<expect, typing>>

-----------------------------------------------------------------------------
(* Events that are lost *)

Kinds(t, S) == {t.events[k].type : k \in S}

\* What the user does, and what else the properties tell apart.
Entry == {"CLICKED", "KEYSTROKE"}
Noted == {"FOCUSED", "UNFOCUSED", "LISTAREA_ITEM_SELECTED"}

(* A call, begun on the stack q, does t; the pushes in gone are lost.  The *)
(* loss is noted until a redraw, or a selection that is told of.           *)
Pushed(t, q, gone) ==
    /\ s' = Without(t, q, gone)
    /\ lost' = (Kinds(t, gone) \cap Noted)
               \cup (lost \ (Kinds(t, Pushes(t, q) \ gone) \cap {"LISTAREA_ITEM_SELECTED"}))

EntryLost(t, gone) == Kinds(t, gone) \cap Entry # {}

-----------------------------------------------------------------------------
(* Making the window *)

Call == pc = "main" /\ calls < TotalCalls[program]

MakeOne ==
    /\ Call
    /\ \E made \in {main(s, calls + 1)} :
          \E gone \in SUBSET Pushes(made, s.events) : Pushed(made, s.events, gone)
    /\ calls' = calls + 1
    /\ UNCHANGED <<program, pc, shown, expect, typing, before>>

(* No memory or no graphics: main gives up.  A list area that fails half   *)
(* way is freed by a function that reads the data it does not have; an     *)
(* element whose vectors failed is used all the same.                      *)
MakeFails ==
    /\ Call
    /\ program = "blank" => calls = 0
    /\ program = "form" => calls \in {0, 2}
    /\ pc' \in {"left", "wild"}
    /\ UNCHANGED <<program, calls, s, ghosts>>

\* The list area test goes on without an item or a property.
AddFails ==
    /\ Call /\ program = "blank" /\ calls > 0
    /\ calls' = calls + 1
    /\ UNCHANGED <<program, pc, s, ghosts>>

Ready ==
    /\ pc = "main" /\ calls = TotalCalls[program]
    /\ pc' = "redraw"
    /\ UNCHANGED <<program, calls, s, ghosts>>

-----------------------------------------------------------------------------
(* The user: a click on an element, beside every element or in the list, a *)
(* key, a move of the mouse.                                               *)

UserClicks ==
    {[type |-> "MOUSE_CLICK", x |-> 0, y |-> 0]}
    \cup (IF program = "blank"
          THEN {[type |-> "MOUSE_CLICK", x |-> 20, y |-> y] : y \in ListRows}
          ELSE {LET e == s.elements[r]
                IN [type |-> "MOUSE_CLICK",
                    x |-> IF e.id % 2 = 0 THEN e.x ELSE e.x + e.width - 1,
                    y |-> IF e.id % 2 = 0 THEN e.y + e.height - 1 ELSE e.y] :
                  r \in {r \in 1..Len(s.elements) :
                            /\ s.elements[r].parent = NULL
                            /\ program = "calculator" => s.elements[r].id \in Pressed}})

UserInputs ==
    {[type |-> "MOUSE_MOVE"]} \cup UserClicks
    \cup (IF program = "form" THEN {[type |-> "KEY_PRESS", key |-> k] : k \in Keys} ELSE {})

-----------------------------------------------------------------------------
(* gui_process *)

gui_redraw_if_required ==
    /\ pc = "redraw" /\ pc' = "get"
    /\ s' = [s EXCEPT !.must_draw = FALSE]
    /\ shown' =
          IF ~s.must_draw THEN shown
          ELSE LET drawn == gui_redraw(s)
               IN [text |-> IF s.field.element \in drawn
                            THEN gui_element_textfield_text(s) ELSE shown.text,
                   selected |-> IF s.list.element \in drawn
                                THEN s.list.selected_index ELSE shown.selected,
                   focused |-> IF drawn # {} THEN s.focused ELSE shown.focused]
    /\ lost' = IF s.must_draw THEN lost \ {"FOCUSED", "UNFOCUSED"} ELSE lost
    /\ UNCHANGED <<program, calls, expect, typing, before>>

\* The kernel's queue is empty: gui_process returns and is called again.
NoEvent ==
    /\ pc = "get" /\ pc' = "redraw"
    /\ UNCHANGED <<program, calls, s, ghosts>>

Pending(t) == IF t.events = <<>> THEN "get" ELSE "process"

gui_process_events ==
    /\ pc = "get"
    /\ \E event \in UserInputs :
          \E taken \in {gui_process_event(s, event)} :
             \E gone \in SUBSET Pushes(taken, s.events) :
                /\ Pushed(taken, s.events, gone)
                /\ IF EntryLost(taken, gone) THEN UNCHANGED <<expect, typing>>
                   ELSE Expect(event)
                /\ \/ pc' = Pending(s')
                   \/ Overfills(s.events, s') /\ pc' = "wild"
    /\ before' = IF s'.events = <<>> THEN [text |-> expect', typing |-> typing']
                 ELSE [text |-> expect, typing |-> typing]
    /\ UNCHANGED <<program, calls, shown>>

(* The newest event is handled first: by the properties of its element,    *)
(* then by its handler.                                                    *)
gui_element_events_process ==
    /\ pc = "process" /\ s.events # <<>>
    /\ \E event \in {Last(s.events)}, popped \in {[s EXCEPT !.events = Front(@)]} :
          \E told \in {gui_event_push_to_properties(popped, event)} :
             \E handled \in {event_handler(told, event)} :
                \E done \in {gui_element_call_event_handlers(handled, event)} :
                   \E gone \in SUBSET Pushes(done, popped.events) :
                      /\ Pushed(done, popped.events, gone)
                      /\ expect' = IF EntryLost(done, gone) THEN before.text ELSE expect
                      /\ typing' = IF EntryLost(done, gone) THEN before.typing ELSE typing
                      /\ \/ pc' = IF done.wild THEN "wild" ELSE Pending(s')
                         \/ /\ \/ Overfills(popped.events, s')
                               \/ gui_element_textfield_realloc_fails(s, done)
                            /\ pc' = "wild"
    /\ before' = IF s'.events = <<>> THEN [text |-> expect', typing |-> typing'] ELSE before
    /\ UNCHANGED <<program, calls, shown>>

Next == \/ MakeOne \/ MakeFails \/ AddFails \/ Ready
        \/ gui_redraw_if_required \/ NoEvent \/ gui_process_events
        \/ gui_element_events_process

(* The program's task is scheduled again and again: weak fairness of Next, *)
(* whose steps, where they change anything, change pc, calls or s, and can *)
(* be taken as long as the program has not ended.  It is written out, for  *)
(* TLC would evaluate ENABLED Next through every handler.                  *)
Fairness == []<>(pc \in {"left", "wild"}) \/ []<><<TRUE>>_<<pc, calls, s>>

Spec == Init /\ [][Next]_vars /\ Fairness

-----------------------------------------------------------------------------
(* Properties *)

Idle == pc \in {"redraw", "get"} /\ s.events = <<>>

(* The text is what the presses and keys taken so far make of it: every    *)
(* press reached its button once, in order, or, when an event it became    *)
(* found no memory on its way, did nothing at all; and the result of an    *)
(* expression is that of its operators from left to right.  Only a text    *)
(* whose buffer was enlarged over recycled memory may run on after it,     *)
(* for put_char ends a text by the zeros calloc left.                      *)
TextIsWhatWasEntered ==
    Idle /\ program # "blank" =>
        \/ gui_element_textfield_text(s) = expect
        \/ /\ s.recycled # NUL
           /\ Len(s.field.text) > TEXTFIELD_DEFAULT_BUFFER_SIZE
           /\ IsPrefix(expect, gui_element_textfield_text(s))

(* When no redraw is owed the window shows the text, the selected item and *)
(* the focus as they are; except that a text that was cleared stays on the *)
(* screen until something else asks for a redraw, and so does the focus    *)
(* when the events that tell of its last change were lost.  It takes a     *)
(* child's mark to reach the screen through its root, whose own mark is    *)
(* never cleared.                                                          *)
WindowIsCurrent ==
    Idle /\ ~s.must_draw =>
        /\ program # "blank" => \/ shown.text = gui_element_textfield_text(s)
                               \/ gui_element_textfield_text(s) = <<>>
        /\ program = "blank" => shown.selected = s.list.selected_index
        /\ lost \cap {"FOCUSED", "UNFOCUSED"} = {} => shown.focused = s.focused

(* A listener hears of every selection: it has printed the index that is   *)
(* selected as soon as the events of the click are handled; unless the     *)
(* event of that selection was lost.                                       *)
SelectionIsTold ==
    Idle /\ program = "blank" /\ s.elements[s.list.element].properties # <<>> =>
        s.printed = s.list.selected_index \/ "LISTAREA_ITEM_SELECTED" \in lost

(* No element draws past the pixels of its root. *)
PixelsStayInBuffer ==
    \A i \in 1..Len(s.elements) :
        LET e == s.elements[i]
        IN gui_element_draw_pixel(e, e.width - 1, e.height - 1)
              < e.real_width * e.real_height

(* The events of a window event come to an end: no handler feeds itself    *)
(* for ever.                                                               *)
EventsDrain == pc = "process" ~> pc \in {"get", "wild"}

=============================================================================
