----------------------------- MODULE Textfield -----------------------------
(***************************************************************************)
(* The elements of the GUI library the programs use: the plane, the text   *)
(* field, the button, the list area and the image                          *)
(* (programs/guilib/src/gui/plane.c, textfield.c, button.c, listarea.c,    *)
(* image_element.c).  A text field is s.field: its element, its buffer of  *)
(* character codes, the index the next one goes to, the length it may      *)
(* reach.  current_len is left out: 0 at first, it is compared as the      *)
(* unsigned 0 - 1 and stays 0 for ever.  A list area is s.list.            *)
(***************************************************************************)
EXTENDS Gui

CONSTANTS TEXTFIELD_DEFAULT_BUFFER_SIZE,
          CharHeight                \* bits_height_per_character of the font

ASSUME TextfieldAssumption ==
    /\ TEXTFIELD_DEFAULT_BUFFER_SIZE \in Nat \ {0, 1}
    /\ CharHeight \in Nat \ {0}

NUL == 0
GUI_KEY_BACKSPACE == 8

\* The buffer as a C string.
CString(text) ==
    LET end == SelectInSeq(text, LAMBDA c : c = NUL)
    IN IF end = 0 THEN text ELSE SubSeq(text, 1, end - 1)

gui_element_textfield_text(s) == CString(s.field.text)

Blanks(n, c) == [k \in 1..n |-> c]

-----------------------------------------------------------------------------
(* The plane: the background of the others.  It replaces the default       *)
(* handler, so that a click does not focus it.                             *)
gui_element_plane_create(s, parent, x, y, width, height, id) ==
    gui_element_create(s, parent, x, y, width, height, "plane", id)

gui_element_plane_event_handler(s, event) ==
    [res |-> "PROCESSED_CONTINUE_WITH_CHILDREN",
     s |-> IF event.type \in {"FOCUSED", "UNFOCUSED"}
           THEN gui_element_mark_for_redraw(s, event.element) ELSE s]

\* A root plane with an element of the given kind that covers it.
Covered(s, parent, x, y, width, height, handler, id) ==
    LET plane == gui_element_plane_create(s, parent, x, y, width, height, id)
    IN gui_element_create(plane, Len(plane.elements), 0, 0, width, height, handler, id)

gui_element_button_create(s, parent, x, y, width, height, handler, id) ==
    Covered(s, parent, x, y, width, height, handler, id)

\* Neither the parent nor the id that is passed in is used.
ImageId == 0
gui_element_image_create(s, parent, x, y, width, height, id) ==
    gui_element_create(s, NULL, x, y, width, height, "default", ImageId)

-----------------------------------------------------------------------------
(* The text field *)

\* Once more, the parent that is passed in is not used.
gui_element_textfield_create(s, parent, x, y, width, height, id) ==
    LET made == Covered(s, NULL, x, y, width, height, "textfield", id)
    IN [made EXCEPT !.field =
          [element |-> Len(made.elements), index |-> 0, read_only |-> FALSE,
           max_allowed_len |-> TEXTFIELD_DEFAULT_BUFFER_SIZE,
           text |-> Blanks(TEXTFIELD_DEFAULT_BUFFER_SIZE, NUL)]]

gui_element_text_field_max_characters_set(s, max) ==
    [s EXCEPT !.field.max_allowed_len = max]

\* What realloc adds holds what the allocator's memory held before.
gui_element_textfield_realloc_text(s, new_size) ==
    gui_element_mark_for_redraw(
        [s EXCEPT !.field.text = @ \o Blanks(new_size - Len(@), s.recycled)],
        s.field.element)

(* realloc's result is not looked at: should it be NULL, put_char writes   *)
(* through it.  It is called wherever a step, from s to t, leaves the      *)
(* buffer longer.                                                          *)
gui_element_textfield_realloc_fails(s, t) ==
    s.field.element # NULL /\ Len(t.field.text) > Len(s.field.text)

gui_element_textfield_put_char(s, c) ==
    LET roomy == IF s.field.index >= Len(s.field.text) - 1
                 THEN gui_element_textfield_realloc_text(s,
                         Len(s.field.text) + TEXTFIELD_DEFAULT_BUFFER_SIZE)
                 ELSE s
    IN IF s.field.index >= s.field.max_allowed_len - 1 THEN s
       ELSE gui_element_mark_for_redraw(
               [roomy EXCEPT !.field.text[s.field.index + 1] = c,
                             !.field.index = @ + 1], s.field.element)

\* Clearing does not ask for a redraw.
gui_element_textfield_clear(s) ==
    [s EXCEPT !.field.index = 0, !.field.text = Blanks(Len(@), NUL)]

gui_element_textfield_text_set(s, text) ==
    LET put[k \in 0..Len(text)] ==
            IF k = 0 THEN gui_element_textfield_clear(s)
            ELSE gui_element_textfield_put_char(put[k - 1], text[k])
    IN put[Len(text)]

gui_element_textfield_backspace(s) ==
    IF s.field.index = 0 THEN s
    ELSE gui_element_mark_for_redraw(
            [s EXCEPT !.field.text[s.field.index] = NUL, !.field.index = @ - 1],
            s.field.element)

gui_element_textfield_event_handler(s, event) ==
    IF event.type # "KEYSTROKE" \/ s.field.read_only
    THEN [res |-> "IGNORED", s |-> s]
    ELSE [res |-> "PROCESSED_CONTINUE_WITH_CHILDREN",
          s |-> IF event.value = GUI_KEY_BACKSPACE
                THEN gui_element_textfield_backspace(s)
                ELSE gui_element_textfield_put_char(s, event.value)]

-----------------------------------------------------------------------------
(* The list area *)

NoItem == -1
gui_element_listarea_height_per_element == CharHeight + 3

gui_element_listarea_create(s, parent, x, y, width, height, id) ==
    LET made == Covered(s, parent, x, y, width, height, "listarea", id)
    IN [made EXCEPT !.list = [element |-> Len(made.elements), items |-> <<>>,
                              selected_index |-> NoItem]]

gui_element_listarea_list_add(s, title) ==
    [s EXCEPT !.list.items = Append(@, title)]

\* A negative index, compared unsigned, is out of range too.
gui_element_listarea_select(s, index) ==
    IF index \notin 0..Len(s.list.items) - 1 THEN s
    ELSE gui_element_event_push(
            gui_element_mark_for_redraw([s EXCEPT !.list.selected_index = index],
                                        s.list.element),
            s.list.element, Selected(index))

\* The click's y is that of the window.
gui_element_listarea_event_handler_click(s, event) ==
    gui_element_listarea_select(s, event.y \div gui_element_listarea_height_per_element)

gui_element_listarea_event_handler(s, event) ==
    [res |-> "PROCESSED_CONTINUE_WITH_CHILDREN",
     s |-> IF event.type = "CLICKED"
           THEN gui_element_listarea_event_handler_click(s, event) ELSE s]

=============================================================================
