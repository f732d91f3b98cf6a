---------------------------- MODULE Calculator ----------------------------
(***************************************************************************)
(* programs/calculator/calculator.c: the layout of its window, what its    *)
(* buttons do to the text field, and the evaluation of the text.           *)
(* Characters are their ASCII codes.                                       *)
(***************************************************************************)
EXTENDS Textfield

CONSTANTS INT_MAX,      \* the greatest int; the least is -INT_MAX - 1
          NumberRoom,   \* sizeof(number_str) in calculator_equals
          WindowWidth   \* main_win->width

ASSUME CalculatorAssumption ==
    /\ INT_MAX \in Nat /\ INT_MAX > 9
    /\ NumberRoom \in Nat \ {0}
    /\ WindowWidth \in Nat /\ WindowWidth > 100

Wrap(n) == ((n + INT_MAX + 1) % (2 * (INT_MAX + 1))) - INT_MAX - 1

Digit == 48..57
Operator == {43, 45, 42, 47}            \* + - * /
Minus == 45

-----------------------------------------------------------------------------
(* stdlib.c: atoi skips what is no digit, the sign included. *)
atoi(str) ==
    LET result[k \in 0..Len(str)] ==
            IF k = 0 THEN 0
            ELSE IF str[k] \in Digit THEN Wrap(result[k - 1] * 10 + (str[k] - 48))
            ELSE result[k - 1]
    IN result[Len(str)]

Abs(n) == IF n < 0 THEN -n ELSE n
Sign(n) == IF n < 0 THEN -1 ELSE 1

itoa(n) ==
    LET digits[m \in 0..Abs(n)] ==
            IF m < 10 THEN <<48 + m>> ELSE Append(digits[m \div 10], 48 + (m % 10))
    IN (IF n < 0 THEN <<Minus>> ELSE <<>>) \o digits[Abs(n)]

\* itoa writes into text[12], far shorter than the buffer of a text field.
ASSUME ResultFits ==
    \A n \in -INT_MAX - 1..INT_MAX : Len(itoa(n)) < TEXTFIELD_DEFAULT_BUFFER_SIZE

calculator_do_math(left, right, op) ==
    CASE op = 43 -> Wrap(left + right)
      [] op = 45 -> Wrap(left - right)
      [] op = 42 -> Wrap(left * right)
      [] op = 47 -> IF right = 0 THEN 0
                    ELSE Sign(left) * Sign(right) * (Abs(left) \div Abs(right))

\* Mutant: the left number is not replaced by the result so far.
calculator_equals_step_KeepsLeft(p, c) ==
    IF c \notin Operator THEN [p EXCEPT !.number = Append(@, c)]
    ELSE [parse_state |-> "RIGHT_NUMBER", number |-> <<>>, current_op |-> c,
          left |-> IF p.parse_state = "RIGHT_NUMBER" THEN p.left ELSE atoi(p.number)]

\* One turn of the loop over the text.
calculator_equals_step(p, c) ==
    IF c \notin Operator THEN [p EXCEPT !.number = Append(@, c)]
    ELSE [parse_state |-> "RIGHT_NUMBER", number |-> <<>>, current_op |-> c,
          left |-> IF p.parse_state = "RIGHT_NUMBER"
                   THEN calculator_do_math(p.left, atoi(p.number), p.current_op)
                   ELSE atoi(p.number)]

\* The state of the loop after each number of its turns.
Parsed(text) ==
    LET parsed[k \in 0..Len(text)] ==
            IF k = 0
            THEN [parse_state |-> "LEFT_NUMBER", number |-> <<>>, current_op |-> NUL,
                  left |-> 0]
            ELSE calculator_equals_step(parsed[k - 1], text[k])
    IN parsed

calculator_result(p) ==
    IF p.current_op # NUL
    THEN calculator_do_math(p.left, atoi(p.number), p.current_op)
    ELSE atoi(p.number)

\* number_str has no room for the number and its terminator.
Overruns(text, parsed) == \E k \in 1..Len(text) :
    Len(parsed[k].number) >= NumberRoom

\* The least int divided by -1: the division traps.
Traps(text, parsed) == \E k \in 1..Len(text) :
    /\ k = Len(text) \/ text[k + 1] \in Operator
    /\ parsed[k].current_op = 47 /\ parsed[k].left = -INT_MAX - 1
    /\ atoi(parsed[k].number) = -1

(* With an overrun the stack is written or read past the array and the     *)
(* program is in an unknown state; a trap ends it.                         *)
calculator_equals(s) ==
    LET text == gui_element_textfield_text(s)
        parsed == Parsed(text)
    IN IF Overruns(text, parsed) \/ Traps(text, parsed) THEN [s EXCEPT !.wild = TRUE]
       ELSE gui_element_textfield_text_set(s, itoa(calculator_result(parsed[Len(text)])))

-----------------------------------------------------------------------------
(* The handlers of the buttons *)

BUTTON_DIVIDE == 1001
BUTTON_MULTIPLY == 1002
BUTTON_ADD == 1003
BUTTON_SUBTRACT == 1004
BUTTON_EQUALS == 1005
BUTTON_DELETE == 1006
RESULT_TEXTFIELD == 1000

OperatorOf == [id \in {BUTTON_DIVIDE, BUTTON_MULTIPLY, BUTTON_ADD, BUTTON_SUBTRACT} |->
                  CASE id = BUTTON_DIVIDE -> 47 [] id = BUTTON_MULTIPLY -> 42
                    [] id = BUTTON_ADD -> 43 [] id = BUTTON_SUBTRACT -> 45]

calculator_reset(s) == gui_element_textfield_text_set(s, <<>>)

OnClick(event, ignored, clicked) ==
    IF event.type # "CLICKED" THEN [res |-> "IGNORED", s |-> ignored]
    ELSE [res |-> "PROCESSED_CONTINUE_WITH_CHILDREN", s |-> clicked]

numerical_button_event_handler(s, event) ==
    OnClick(event, s, gui_element_textfield_put_char(s,
                         Head(itoa(s.elements[event.element].id))))

mathimatical_operation_button_event_handler(s, event) ==
    LET id == s.elements[event.element].id
    IN OnClick(event, s, IF id = BUTTON_EQUALS THEN calculator_equals(s)
                         ELSE gui_element_textfield_put_char(s, OperatorOf[id]))

calculator_delete_button_event_handler(s, event) ==
    OnClick(event, s, calculator_reset(s))

-----------------------------------------------------------------------------
(* The window, in the order main makes it: the text field, three columns   *)
(* of digits with the delete button in the last row, a row of operations.  *)
padding == 10
button_height == 50
button_ids == <<7, 8, 9, 4, 5, 6, 1, 2, 3, 0>>
operations == <<BUTTON_ADD, BUTTON_SUBTRACT, BUTTON_MULTIPLY, BUTTON_DIVIDE,
                BUTTON_EQUALS>>

btn_y_start == padding + 50 + padding
number_button_width == (WindowWidth - padding * 4) \div 3
operations_button_width == (WindowWidth - padding * 6) \div 5

Row(row) == btn_y_start + row * (button_height + padding)

NumberButton(row, col, handler, id) ==
    [x |-> padding + col * (number_button_width + padding), y |-> Row(row),
     width |-> number_button_width, handler |-> handler, id |-> id]

OperationButton(col, id) ==
    [x |-> padding + col * (operations_button_width + padding), y |-> Row(4),
     width |-> operations_button_width, handler |-> "operation", id |-> id]

Buttons ==
    [k \in 1..10 |-> NumberButton((k - 1) \div 3, (k - 1) % 3, "digit", button_ids[k])]
    \o <<NumberButton(3, 1, "delete", BUTTON_DELETE)>>
    \o [k \in 1..5 |-> OperationButton(k - 1, operations[k])]

\* The k-th call of main that makes something in the window.
calculator_main(s, k) ==
    IF k = 1
    THEN gui_element_textfield_create(s, NULL, padding, padding,
            WindowWidth - 2 * padding, 50, RESULT_TEXTFIELD)
    ELSE LET b == Buttons[k - 1]
         IN gui_element_button_create(s, NULL, b.x, b.y, b.width, button_height,
                                      b.handler, b.id)

=============================================================================
