--------------------------- MODULE UserlandProofs ---------------------------
(***************************************************************************)
(* The programs with a window, for every font, width of the window, list   *)
(* of keys and buffer size; and the vector they keep their data in.        *)
(***************************************************************************)
EXTENDS GuiProofs, Vector

-----------------------------------------------------------------------------
(* The calls of main *)

\* What making an element leaves as it was.
ButMaking(t, u) ==
    /\ u.must_draw = TRUE /\ u.events = t.events /\ u.focused = t.focused
    /\ u.printed = t.printed /\ u.wild = t.wild /\ u.recycled = t.recycled

Pair(t, u, x, y, width, height, handler, id) ==
    LET n == Len(t.elements)
    IN  /\ Len(u.elements) = n + 2
        /\ \A i \in 1..n : u.elements[i] = t.elements[i]
        /\ u.elements[n + 1] = Root(x, y, width, height, "plane", id)
        /\ u.elements[n + 2] = Cover(n + 1, x, y, width, height, handler, id)

LEMMA CoveredIs ==
    ASSUME NEW t, IsUi(t), NEW x \in Nat, NEW y \in Nat, NEW width \in Nat \ {0},
           NEW height \in Nat \ {0}, NEW handler \in Handlers, NEW id \in Int
    PROVE  LET u == Covered(t, NULL, x, y, width, height, handler, id)
           IN  /\ IsUi(u) /\ ButMaking(t, u) /\ u.field = t.field /\ u.list = t.list
               /\ Pair(t, u, x, y, width, height, handler, id)
<1>1. PICK n : n = Len(t.elements)
  OBVIOUS
<1>2. t.elements \in Seq(ElementType) /\ n \in Nat
  BY <1>1 DEF IsUi, UiType
<1>3. PICK plane : plane = gui_element_create(t, NULL, x, y, width, height, "plane", id)
  OBVIOUS
<1>4. PICK a : a = Root(x, y, width, height, "plane", id)
  OBVIOUS
<1>5. IsUi(plane) /\ Longer(t, plane, a) /\ a \in ElementType
  <2>1. "plane" \in Handlers
    BY DEF Handlers
  <2> QED
    BY <1>3, <1>4, <2>1, RootMade
<1>6. /\ Len(plane.elements) = n + 1 /\ plane.elements[n + 1] = a
      /\ \A i \in 1..n : plane.elements[i] = t.elements[i]
      /\ plane.elements \in Seq(ElementType)
  BY <1>1, <1>2, <1>5, AppendIs DEF Longer
<1>7. a.x = x /\ a.y = y /\ a.width = width /\ a.height = height /\ a.parent = NULL
  BY <1>4 DEF Root
<1>8. PICK u : u = gui_element_create(plane, n + 1, 0, 0, width, height, handler, id)
  OBVIOUS
<1>9. PICK b : b = Cover(n + 1, x, y, width, height, handler, id)
  OBVIOUS
<1>10. IsUi(u) /\ Longer(plane, u, b) /\ b \in ElementType
  <2>1. PICK i : i = n + 1
    OBVIOUS
  <2>2. i \in Nat \ {0} /\ i = Len(plane.elements) /\ a = plane.elements[i]
    BY <1>2, <1>6, <2>1
  <2>3. LET v == gui_element_create(plane, i, 0, 0, a.width, a.height, handler, id)
            e == Cover(i, a.x, a.y, a.width, a.height, handler, id)
        IN  IsUi(v) /\ Longer(plane, v, e) /\ e \in ElementType
    BY <1>5, <1>7, <2>2, CoverMade
  <2> QED
    BY <1>7, <1>8, <1>9, <2>1, <2>3
<1>11. /\ Len(u.elements) = n + 2 /\ u.elements[n + 2] = b
       /\ \A i \in 1..n + 1 : u.elements[i] = plane.elements[i]
  <2>1. n + 1 + 1 = n + 2
    BY <1>2
  <2> QED
    BY <1>6, <1>10, <2>1, AppendIs DEF Longer
<1>12. Pair(t, u, x, y, width, height, handler, id)
  <2>1. n + 1 \in 1..n + 1 /\ \A i \in 1..n : i \in 1..n + 1
    BY <1>2
  <2>2. u.elements[n + 1] = a /\ \A i \in 1..n : u.elements[i] = t.elements[i]
    BY <1>6, <1>11, <2>1
  <2> QED
    BY <1>1, <1>4, <1>9, <1>11, <2>2 DEF Pair
<1>13. u = Covered(t, NULL, x, y, width, height, handler, id)
  BY <1>3, <1>6, <1>8 DEF Covered, gui_element_plane_create
<1> QED
  BY <1>5, <1>10, <1>12, <1>13 DEF Longer, ButMaking

LEMMA FieldMade ==
    ASSUME NEW t, IsUi(t), NEW f \in MadeField, f.element \in 1..Len(t.elements),
           f.index < Len(f.text)
    PROVE  LET u == [t EXCEPT !.field = f]
           IN  /\ IsUi(u) /\ ButField(t, u) /\ u.field = f /\ u.must_draw = t.must_draw
               /\ u.wild = t.wild /\ u.recycled = t.recycled
<1>1. PICK u : u = [t EXCEPT !.field = f]
  OBVIOUS
<1>2. t \in UiType /\ f \in FieldType
  BY DEF IsUi, FieldType, MadeField
<1>3. /\ u \in UiType /\ ButField(t, u) /\ u.field = f /\ u.must_draw = t.must_draw
      /\ u.wild = t.wild /\ u.recycled = t.recycled
  BY ONLY <1>1, <1>2 DEF UiType, ButField
<1>4. f.element \in 0..Len(t.elements)
  OBVIOUS
<1>5. IsUi(u)
  BY <1>3, <1>4 DEF IsUi, ButField
<1> QED
  BY <1>1, <1>3, <1>5

LEMMA ListMade ==
    ASSUME NEW t, IsUi(t), NEW l \in ListType, l.element \in 1..Len(t.elements)
    PROVE  LET u == [t EXCEPT !.list = l]
           IN  /\ IsUi(u) /\ u.elements = t.elements /\ u.events = t.events
               /\ u.focused = t.focused /\ u.must_draw = t.must_draw /\ u.field = t.field
               /\ u.printed = t.printed /\ u.wild = t.wild /\ u.recycled = t.recycled
               /\ u.list = l
<1>1. PICK u : u = [t EXCEPT !.list = l]
  OBVIOUS
<1>2. t \in UiType
  BY DEF IsUi
<1>3. /\ u \in UiType /\ u.elements = t.elements /\ u.events = t.events
      /\ u.focused = t.focused /\ u.must_draw = t.must_draw /\ u.field = t.field
      /\ u.printed = t.printed /\ u.wild = t.wild /\ u.recycled = t.recycled
      /\ u.list = l
  BY ONLY <1>1, <1>2, l \in ListType DEF UiType
<1>4. l.element \in 0..Len(t.elements)
  OBVIOUS
<1>5. IsUi(u)
  BY <1>3, <1>4 DEF IsUi
<1> QED
  BY <1>1, <1>3, <1>5

LEMMA TextfieldMade ==
    ASSUME NEW t, IsUi(t), NEW x \in Nat, NEW y \in Nat, NEW width \in Nat \ {0},
           NEW height \in Nat \ {0}, NEW id \in Int
    PROVE  LET u == gui_element_textfield_create(t, NULL, x, y, width, height, id)
           IN  /\ IsUi(u) /\ ButMaking(t, u) /\ u.list = t.list
               /\ u.field \in MadeField /\ u.field.element = Len(t.elements) + 2
               /\ u.field.max_allowed_len = TEXTFIELD_DEFAULT_BUFFER_SIZE
               /\ Stored(u.field, <<>>, u.recycled)
               /\ Len(u.field.text) = TEXTFIELD_DEFAULT_BUFFER_SIZE
               /\ Pair(t, u, x, y, width, height, "textfield", id)
<1>1. PICK n : n = Len(t.elements)
  OBVIOUS
<1>2. n \in Nat
  BY <1>1 DEF IsUi, UiType
<1>3. PICK v : v = Covered(t, NULL, x, y, width, height, "textfield", id)
  OBVIOUS
<1>4. /\ IsUi(v) /\ ButMaking(t, v) /\ v.field = t.field /\ v.list = t.list
      /\ Pair(t, v, x, y, width, height, "textfield", id)
  <2>1. PICK handler \in Handlers : handler = "textfield"
    BY DEF Handlers
  <2>2. LET w == Covered(t, NULL, x, y, width, height, handler, id)
        IN  /\ IsUi(w) /\ ButMaking(t, w) /\ w.field = t.field /\ w.list = t.list
            /\ Pair(t, w, x, y, width, height, handler, id)
    BY CoveredIs
  <2> QED
    BY <1>3, <2>1, <2>2
<1>5. Len(v.elements) = n + 2
  BY <1>1, <1>4 DEF Pair
<1>6. PICK text : text = Blanks(TEXTFIELD_DEFAULT_BUFFER_SIZE, NUL)
  OBVIOUS
<1>7. /\ text \in Seq(Nat) /\ Len(text) = TEXTFIELD_DEFAULT_BUFFER_SIZE
      /\ \A k \in 1..Len(text) : text[k] = NUL
  <2>1. TEXTFIELD_DEFAULT_BUFFER_SIZE \in Nat /\ NUL \in Nat
    BY TextfieldAssumption DEF NUL
  <2> QED
    BY <1>6, <2>1 DEF Blanks
<1>8. PICK f : f = [element |-> n + 2, index |-> 0, read_only |-> FALSE,
                    max_allowed_len |-> TEXTFIELD_DEFAULT_BUFFER_SIZE, text |-> text]
  OBVIOUS
<1>9. f \in MadeField
  <2>1. n + 2 \in Nat \ {NULL} /\ TEXTFIELD_DEFAULT_BUFFER_SIZE \in Nat \ {0}
    BY <1>2, TextfieldAssumption DEF NULL
  <2> QED
    BY ONLY <1>7, <1>8, <2>1 DEF MadeField
<1>10. PICK u : u = [v EXCEPT !.field = f]
  OBVIOUS
<1>11. /\ f.element = n + 2 /\ f.index = 0 /\ f.text = text
       /\ f.max_allowed_len = TEXTFIELD_DEFAULT_BUFFER_SIZE
  BY <1>8
<1>12. /\ IsUi(u) /\ ButField(v, u) /\ u.field = f /\ u.must_draw = v.must_draw
       /\ u.wild = v.wild /\ u.recycled = v.recycled
  <2>1. f.element \in 1..Len(v.elements) /\ f.index < Len(f.text)
    BY <1>2, <1>5, <1>7, <1>11, TextfieldAssumption
  <2> QED
    BY <1>4, <1>9, <1>10, <2>1, FieldMade
<1>13. u = gui_element_textfield_create(t, NULL, x, y, width, height, id)
  BY <1>3, <1>5, <1>6, <1>8, <1>10 DEF gui_element_textfield_create
<1>14. Stored(f, <<>>, u.recycled)
  <2>1. <<>> \in Seq(Nat \ {NUL}) /\ Len(<<>>) = 0 /\ \A k \in 1..0 : FALSE
    OBVIOUS
  <2>2. \A k \in 0 + 1..Len(text) : text[k] = NUL
    BY <1>7
  <2>3. Len(text) >= TEXTFIELD_DEFAULT_BUFFER_SIZE
    BY <1>7, TextfieldAssumption
  <2> QED
    BY <1>11, <2>1, <2>2, <2>3 DEF Stored
<1>15. Pair(t, u, x, y, width, height, "textfield", id)
  BY <1>4, <1>12 DEF Pair, ButField
<1> QED
  BY <1>1, <1>4, <1>7, <1>9, <1>11, <1>12, <1>13, <1>14, <1>15 DEF ButMaking, ButField

LEMMA ListMadeIs ==
    ASSUME NEW t, IsUi(t), NEW x \in Nat, NEW y \in Nat, NEW width \in Nat \ {0},
           NEW height \in Nat \ {0}, NEW id \in Int
    PROVE  LET u == gui_element_listarea_create(t, NULL, x, y, width, height, id)
           IN  /\ IsUi(u) /\ ButMaking(t, u) /\ u.field = t.field
               /\ u.list.element = Len(t.elements) + 2
               /\ u.list.selected_index = NoItem
               /\ Pair(t, u, x, y, width, height, "listarea", id)
<1>1. PICK n : n = Len(t.elements)
  OBVIOUS
<1>2. n \in Nat
  BY <1>1 DEF IsUi, UiType
<1>3. PICK v : v = Covered(t, NULL, x, y, width, height, "listarea", id)
  OBVIOUS
<1>4. /\ IsUi(v) /\ ButMaking(t, v) /\ v.field = t.field /\ v.list = t.list
      /\ Pair(t, v, x, y, width, height, "listarea", id)
  <2>1. PICK handler \in Handlers : handler = "listarea"
    BY DEF Handlers
  <2>2. LET w == Covered(t, NULL, x, y, width, height, handler, id)
        IN  /\ IsUi(w) /\ ButMaking(t, w) /\ w.field = t.field /\ w.list = t.list
            /\ Pair(t, w, x, y, width, height, handler, id)
    BY CoveredIs
  <2> QED
    BY <1>3, <2>1, <2>2
<1>5. Len(v.elements) = n + 2
  BY <1>1, <1>4 DEF Pair
<1>6. PICK l : l = [element |-> n + 2, items |-> <<>>, selected_index |-> NoItem]
  OBVIOUS
<1>7. l \in ListType /\ l.element = n + 2 /\ l.selected_index = NoItem
  <2>1. n + 2 \in Nat \ {NULL} /\ <<>> \in Seq(Nat) /\ NoItem \in Int
    BY <1>2 DEF NULL, NoItem
  <2>2. l \in [element : Nat \ {NULL}, items : Seq(Nat), selected_index : Int]
    BY ONLY <1>6, <2>1
  <2> QED
    BY <1>6, <2>2 DEF ListType
<1>8. PICK u : u = [v EXCEPT !.list = l]
  OBVIOUS
<1>9. /\ IsUi(u) /\ u.elements = v.elements /\ u.events = v.events
      /\ u.focused = v.focused /\ u.must_draw = v.must_draw /\ u.field = v.field
      /\ u.printed = v.printed /\ u.wild = v.wild /\ u.recycled = v.recycled
      /\ u.list = l
  <2>1. l.element \in 1..Len(v.elements)
    BY <1>2, <1>5, <1>7
  <2> QED
    BY <1>4, <1>7, <1>8, <2>1, ListMade
<1>10. u = gui_element_listarea_create(t, NULL, x, y, width, height, id)
  BY <1>3, <1>5, <1>6, <1>8 DEF gui_element_listarea_create
<1>11. Pair(t, u, x, y, width, height, "listarea", id)
  BY <1>4, <1>9 DEF Pair
<1> QED
  BY <1>1, <1>4, <1>7, <1>9, <1>10, <1>11 DEF ButMaking

-----------------------------------------------------------------------------
(* The calculator's window *)

Box(k) ==
    IF k = 1
    THEN [x |-> padding, y |-> padding, width |-> WindowWidth - 2 * padding,
          handler |-> "textfield", id |-> RESULT_TEXTFIELD]
    ELSE Buttons[k - 1]

BoxType == [x : Nat, y : Nat, width : Nat \ {0},
            handler : {"textfield", "digit", "operation", "delete"}, id : Int]

LEMMA ListOf ==
    ASSUME NEW D, NEW n \in Nat, NEW f \in [1..n -> D]
    PROVE  f \in Seq(D) /\ Len(f) = n
OBVIOUS

LEMMA ConcatIs ==
    ASSUME NEW D, NEW p \in Seq(D), NEW q \in Seq(D)
    PROVE  /\ p \o q \in Seq(D) /\ Len(p \o q) = Len(p) + Len(q)
           /\ \A k \in 1..Len(p) : (p \o q)[k] = p[k]
           /\ \A k \in Len(p) + 1..Len(p) + Len(q) : (p \o q)[k] = q[k - Len(p)]
OBVIOUS

LEMMA ButtonAt ==
    /\ \A k \in 1..10 : Buttons[k] = NumberButton((k - 1) \div 3, (k - 1) % 3,
                                                  "digit", button_ids[k])
    /\ Buttons[11] = NumberButton(3, 1, "delete", BUTTON_DELETE)
    /\ \A k \in 12..16 : Buttons[k] = OperationButton(k - 12, operations[k - 11])
<1>1. PICK a : a = [k \in 1..10 |-> NumberButton((k - 1) \div 3, (k - 1) % 3,
                                                 "digit", button_ids[k])]
  OBVIOUS
<1>2. PICK b : b = NumberButton(3, 1, "delete", BUTTON_DELETE)
  OBVIOUS
<1>3. PICK c : c = [k \in 1..5 |-> OperationButton(k - 1, operations[k])]
  OBVIOUS
<1>4. PICK d : d = a \o <<b>>
  OBVIOUS
<1>5. PICK D : (\A k \in 1..10 : a[k] \in D) /\ b \in D /\ (\A k \in 1..5 : c[k] \in D)
  <2>1. \A k \in 1..10 : a[k] \in {a[i] : i \in 1..10} \cup {b} \cup {c[i] : i \in 1..5}
    OBVIOUS
  <2>2. \A k \in 1..5 : c[k] \in {a[i] : i \in 1..10} \cup {b} \cup {c[i] : i \in 1..5}
    OBVIOUS
  <2> QED
    BY <2>1, <2>2
<1>6. a \in Seq(D) /\ Len(a) = 10 /\ <<b>> \in Seq(D) /\ c \in Seq(D) /\ Len(c) = 5
  <2>1. a \in [1..10 -> D] /\ c \in [1..5 -> D]
    BY <1>1, <1>3, <1>5
  <2>2. PICK n, m : n = 10 /\ m = 5
    OBVIOUS
  <2>3. a \in Seq(D) /\ Len(a) = 10
    <3>1. n \in Nat /\ a \in [1..n -> D]
      BY <2>1, <2>2
    <3>2. a \in Seq(D) /\ Len(a) = n
      BY ONLY <3>1, ListOf
    <3> QED
      BY <2>2, <3>2
  <2>4. c \in Seq(D) /\ Len(c) = 5
    <3>1. m \in Nat /\ c \in [1..m -> D]
      BY <2>1, <2>2
    <3>2. c \in Seq(D) /\ Len(c) = m
      BY ONLY <3>1, ListOf
    <3> QED
      BY <2>2, <3>2
  <2>5. <<b>> \in Seq(D)
    BY <1>5
  <2> QED
    BY <2>3, <2>4, <2>5
<1>7. /\ d \in Seq(D) /\ Len(d) = 11 /\ (\A k \in 1..10 : d[k] = a[k]) /\ d[11] = b
  <2>1. Len(<<b>>) = 1 /\ <<b>>[1] = b
    OBVIOUS
  <2>2. /\ a \o <<b>> \in Seq(D) /\ Len(a \o <<b>>) = Len(a) + Len(<<b>>)
        /\ \A k \in 1..Len(a) : (a \o <<b>>)[k] = a[k]
        /\ \A k \in Len(a) + 1..Len(a) + Len(<<b>>) : (a \o <<b>>)[k] = <<b>>[k - Len(a)]
    BY <1>6, ConcatIs
  <2>3. 11 \in 10 + 1..10 + 1 /\ 11 - 10 = 1 /\ 10 + 1 = 11
    OBVIOUS
  <2> QED
    BY ONLY <1>4, <1>6, <2>1, <2>2, <2>3
<1>8. Buttons = d \o c
  BY <1>1, <1>2, <1>3, <1>4 DEF Buttons
<1>9. /\ \A k \in 1..11 : Buttons[k] = d[k]
      /\ \A k \in 12..16 : Buttons[k] = c[k - 11]
  <2>1. /\ \A k \in 1..Len(d) : (d \o c)[k] = d[k]
        /\ \A k \in Len(d) + 1..Len(d) + Len(c) : (d \o c)[k] = c[k - Len(d)]
    <3>1. d \in Seq(D) /\ c \in Seq(D)
      BY <1>6, <1>7
    <3> QED
      BY ONLY <3>1, ConcatIs
  <2>2. 11 + 1 = 12 /\ 11 + 5 = 16
    OBVIOUS
  <2> QED
    BY ONLY <1>6, <1>7, <1>8, <2>1, <2>2
<1>10. \A k \in 1..10 : Buttons[k] = a[k]
  BY <1>7, <1>9, SMTT(30)
<1>11. \A k \in 12..16 : k - 11 \in 1..5 /\ (k - 11) - 1 = k - 12
  OBVIOUS
<1> QED
  BY <1>1, <1>2, <1>3, <1>7, <1>9, <1>10, <1>11

\* The columns lie between the margins.
LEMMA Widths ==
    /\ number_button_width \in Nat /\ number_button_width >= 20
    /\ 3 * number_button_width <= WindowWidth - 40
    /\ operations_button_width \in Nat /\ operations_button_width >= 8
    /\ 5 * operations_button_width <= WindowWidth - 60
<1>1. WindowWidth \in Nat /\ WindowWidth > 100
  BY CalculatorAssumption
<1>2. number_button_width = (WindowWidth - 40) \div 3
  BY DEF number_button_width, padding
<1>3. operations_button_width = (WindowWidth - 60) \div 5
  BY DEF operations_button_width, padding
<1> QED
  BY <1>1, <1>2, <1>3

LEMMA Rows == ASSUME NEW r \in Nat PROVE Row(r) = 70 + 60 * r /\ Row(r) \in Nat
BY DEF Row, btn_y_start, padding, button_height

LEMMA DigitButton ==
    ASSUME NEW k \in 1..10
    PROVE  /\ (k - 1) \div 3 \in 0..3 /\ (k - 1) % 3 \in 0..2 /\ button_ids[k] \in 0..9
           /\ k - 1 = 3 * ((k - 1) \div 3) + ((k - 1) % 3)
<1>1. k \in {1, 2, 3, 4, 5, 6, 7, 8, 9, 10}
  OBVIOUS
<1>2. button_ids[k] \in 0..9
  BY <1>1 DEF button_ids
<1>3. PICK j : j = k - 1
  OBVIOUS
<1>4. j \in 0..9
  BY <1>3
<1>5. j \div 3 \in 0..3 /\ j % 3 \in 0..2 /\ j = 3 * (j \div 3) + (j % 3)
  <2>1. j = 3 * (j \div 3) + (j % 3)
    BY ONLY <1>4
  <2>2. j % 3 \in 0..2
    BY ONLY <1>4
  <2>3. j \div 3 \in 0..3
    BY ONLY <1>4
  <2> QED
    BY <2>1, <2>2, <2>3
<1> QED
  BY <1>2, <1>3, <1>5

LEMMA NumberBox ==
    ASSUME NEW row \in Nat, NEW col \in Nat, NEW handler, NEW id
    PROVE  LET b == NumberButton(row, col, handler, id)
           IN  /\ b.x = 10 + col * (number_button_width + 10) /\ b.y = 70 + 60 * row
               /\ b.width = number_button_width /\ b.handler = handler /\ b.id = id
               /\ b = [x |-> b.x, y |-> b.y, width |-> b.width,
                       handler |-> b.handler, id |-> b.id]
<1>1. Row(row) = 70 + 60 * row
  BY Rows
<1> QED
  BY <1>1 DEF NumberButton, padding

LEMMA OperationBox ==
    ASSUME NEW col \in Nat, NEW id
    PROVE  LET b == OperationButton(col, id)
           IN  /\ b.x = 10 + col * (operations_button_width + 10) /\ b.y = 310
               /\ b.width = operations_button_width /\ b.handler = "operation" /\ b.id = id
               /\ b = [x |-> b.x, y |-> b.y, width |-> b.width,
                       handler |-> b.handler, id |-> b.id]
<1>1. Row(4) = 310
  BY Rows
<1> QED
  BY <1>1 DEF OperationButton, padding

LEMMA BoxIs ==
    ASSUME NEW k \in 1..17
    PROVE  /\ Box(k) \in BoxType
           /\ Box(k).handler = "textfield" <=> k = 1
           /\ Box(k).handler = "digit" => Box(k).id \in 0..9
           /\ Box(k).handler = "operation" => Box(k).id \in DOMAIN OperatorOf \cup {BUTTON_EQUALS}
           /\ Box(k).handler = "delete" => Box(k).id = BUTTON_DELETE
           /\ k = 1 => Box(k).id = RESULT_TEXTFIELD
<1>1. PICK b : b = Box(k)
  OBVIOUS
<1>2. CASE k = 1
  <2>1. b = [x |-> 10, y |-> 10, width |-> WindowWidth - 20, handler |-> "textfield",
             id |-> RESULT_TEXTFIELD]
    BY <1>1, <1>2 DEF Box, padding
  <2>2. WindowWidth - 20 \in Nat \ {0} /\ RESULT_TEXTFIELD \in Int /\ 10 \in Nat
    BY CalculatorAssumption DEF RESULT_TEXTFIELD
  <2>3. b \in BoxType
    BY ONLY <2>1, <2>2 DEF BoxType
  <2> QED
    BY <1>1, <1>2, <2>1, <2>3
<1>3. CASE k \in 2..11
  <2>1. PICK j \in 1..10 : j = k - 1
    BY <1>3
  <2>2. PICK row, col, id : row = (j - 1) \div 3 /\ col = (j - 1) % 3 /\ id = button_ids[j]
    OBVIOUS
  <2>3. row \in 0..3 /\ col \in 0..2 /\ id \in 0..9
    BY <2>2, DigitButton
  <2>4. b = NumberButton(row, col, "digit", id)
    <3>1. Buttons[j] = NumberButton((j - 1) \div 3, (j - 1) % 3, "digit", button_ids[j])
      BY ButtonAt
    <3> QED
      BY <1>1, <1>3, <2>1, <2>2, <3>1 DEF Box
  <2>5. PICK x, y, w : /\ x = 10 + col * (number_button_width + 10) /\ y = 70 + 60 * row
                       /\ w = number_button_width
    OBVIOUS
  <2>6. x \in Nat /\ y \in Nat /\ w \in Nat \ {0} /\ id \in Int
    <3>1. col = 0 \/ col = 1 \/ col = 2
      BY <2>3
    <3> QED
      BY <2>3, <2>5, <3>1, Widths
  <2>7. b = [x |-> x, y |-> y, width |-> w, handler |-> "digit", id |-> id]
    <3>1. row \in Nat /\ col \in Nat
      BY <2>3
    <3> QED
      BY <2>4, <2>5, <3>1, NumberBox
  <2>8. b \in BoxType
    BY ONLY <2>6, <2>7 DEF BoxType
  <2> QED
    BY <1>1, <1>3, <2>3, <2>7, <2>8
<1>4. CASE k = 12
  <2>1. b = NumberButton(3, 1, "delete", BUTTON_DELETE)
    BY <1>1, <1>4, ButtonAt DEF Box
  <2>2. PICK x, y, w, id : /\ x = 10 + 1 * (number_button_width + 10) /\ y = 70 + 60 * 3
                           /\ w = number_button_width /\ id = BUTTON_DELETE
    OBVIOUS
  <2>3. x \in Nat /\ y \in Nat /\ w \in Nat \ {0} /\ id \in Int
    BY <2>2, Widths DEF BUTTON_DELETE
  <2>4. b = [x |-> x, y |-> y, width |-> w, handler |-> "delete", id |-> id]
    <3>1. PICK row \in Nat, col \in Nat : row = 3 /\ col = 1
      OBVIOUS
    <3>2. LET c == NumberButton(row, col, "delete", BUTTON_DELETE)
          IN  /\ c.x = 10 + col * (number_button_width + 10) /\ c.y = 70 + 60 * row
              /\ c.width = number_button_width /\ c.handler = "delete" /\ c.id = BUTTON_DELETE
              /\ c = [x |-> c.x, y |-> c.y, width |-> c.width,
                      handler |-> c.handler, id |-> c.id]
      BY NumberBox
    <3> QED
      BY <2>1, <2>2, <3>1, <3>2
  <2>5. b \in BoxType
    BY ONLY <2>3, <2>4 DEF BoxType
  <2> QED
    BY <1>1, <1>4, <2>2, <2>4, <2>5
<1>5. CASE k \in 13..17
  <2>1. PICK col, id : col \in 0..4 /\ col = k - 13 /\ id = operations[k - 12]
    BY <1>5
  <2>2. id \in {BUTTON_ADD, BUTTON_SUBTRACT, BUTTON_MULTIPLY, BUTTON_DIVIDE, BUTTON_EQUALS}
    <3>1. k - 12 \in {1, 2, 3, 4, 5}
      BY <1>5
    <3> QED
      BY <2>1, <3>1 DEF operations
  <2>3. b = OperationButton(col, id)
    <3>1. k - 1 \in 12..16 /\ k - 1 - 12 = k - 13 /\ k - 1 - 11 = k - 12 /\ k # 1
      BY <1>5
    <3>2. Buttons[k - 1] = OperationButton(k - 1 - 12, operations[k - 1 - 11])
      BY <3>1, ButtonAt
    <3> QED
      BY <1>1, <2>1, <3>1, <3>2 DEF Box
  <2>4. PICK x, y, w : /\ x = 10 + col * (operations_button_width + 10) /\ y = 310
                       /\ w = operations_button_width
    OBVIOUS
  <2>5. x \in Nat /\ y \in Nat /\ w \in Nat \ {0} /\ id \in Int
    <3>1. col = 0 \/ col = 1 \/ col = 2 \/ col = 3 \/ col = 4
      BY <2>1
    <3>2. id \in Int
      BY <2>2 DEF BUTTON_ADD, BUTTON_SUBTRACT, BUTTON_MULTIPLY, BUTTON_DIVIDE, BUTTON_EQUALS
    <3>3. x \in Nat
      BY <2>4, <3>1, Widths
    <3> QED
      BY <2>4, <3>2, <3>3, Widths
  <2>6. b = [x |-> x, y |-> y, width |-> w, handler |-> "operation", id |-> id]
    <3>1. col \in Nat
      BY <2>1
    <3> QED
      BY <2>3, <2>4, <3>1, OperationBox
  <2>7. b \in BoxType
    BY ONLY <2>5, <2>6 DEF BoxType
  <2>8. id \in DOMAIN OperatorOf \cup {BUTTON_EQUALS}
    BY <2>2 DEF OperatorOf
  <2> QED
    BY <1>1, <1>5, <2>6, <2>7, <2>8
<1> QED
  BY <1>2, <1>3, <1>4, <1>5

-----------------------------------------------------------------------------
(* What main has made after some of its calls *)

BoxLaid(q, k) ==
    LET b == Box(k)
    IN  /\ q[2 * k - 1] = Root(b.x, b.y, b.width, 50, "plane", b.id)
        /\ q[2 * k] = Cover(2 * k - 1, b.x, b.y, b.width, 50, b.handler, b.id)

CalculatorLaid(t, n) ==
    /\ Len(t.elements) = 2 * n
    /\ \A k \in 1..n : BoxLaid(t.elements, k)
    /\ t.list.element = NULL
    /\ n = 0 => t.field.element = NULL
    /\ n > 0 => /\ t.field.element = 2
                /\ t.field.max_allowed_len = TEXTFIELD_DEFAULT_BUFFER_SIZE

FieldRoot == Root(10, 10, 80, 50, "plane", RESULT_TEXTFIELD)
FieldCover == Cover(1, 10, 10, 80, 50, "textfield", RESULT_TEXTFIELD)
ImageRoot == Root(100, 10, 50, 50, "default", ImageId)

FormLaid(t, n) ==
    /\ n = 0 => t.elements = <<>> /\ t.field.element = NULL
    /\ n \in {1, 2} => Len(t.elements) = 2
    /\ n \in {3, 4} => Len(t.elements) = 3 /\ t.elements[3] = ImageRoot
    /\ n > 0 => /\ t.elements[1] = FieldRoot /\ t.elements[2] = FieldCover
                /\ t.field.element = 2
    /\ n > 1 => t.field.max_allowed_len = FormMax
    /\ t.list.element = NULL

BlankLaid(t, n) ==
    /\ n = 0 => t.elements = <<>> /\ t.list.element = NULL
    /\ n > 0 => /\ Len(t.elements) = 2 /\ t.list.element = 2
                /\ t.elements[1].parent = NULL /\ t.elements[2].parent = 1
                /\ t.elements[1].handler = "plane" /\ t.elements[2].handler = "listarea"
    /\ t.field.element = NULL

Laid(p, n, t) ==
    /\ p = "calculator" => CalculatorLaid(t, n)
    /\ p = "form" => FormLaid(t, n)
    /\ p = "blank" => BlankLaid(t, n)

LEMMA LaidIsWired ==
    ASSUME NEW p \in {"calculator", "form", "blank"}, NEW n \in Nat, n <= TotalCalls[p],
           NEW t, IsUi(t), Laid(p, n, t)
    PROVE  Wired(t)
<1> SUFFICES ASSUME NEW i \in 1..Len(t.elements) PROVE WiredTo(t, i)
  BY DEF Wired
<1>1. Len(t.elements) \in Nat
  BY DEF IsUi, UiType
<1>2. CASE p = "calculator"
  <2>1. CalculatorLaid(t, n) /\ n \in 0..17
    BY <1>2 DEF Laid, TotalCalls
  <2>2. PICK k \in 1..n : i = 2 * k - 1 \/ i = 2 * k
    <3>1. i <= 2 * n
      BY <1>1, <2>1 DEF CalculatorLaid
    <3>2. PICK k : k = IF i % 2 = 0 THEN i \div 2 ELSE (i + 1) \div 2
      OBVIOUS
    <3>3. k \in 1..n /\ (i = 2 * k - 1 \/ i = 2 * k)
      BY <2>1, <3>1, <3>2
    <3> QED
      BY <3>3
  <2>3. PICK b : b = Box(k)
    OBVIOUS
  <2>4. /\ t.elements[2 * k - 1] = Root(b.x, b.y, b.width, 50, "plane", b.id)
        /\ t.elements[2 * k] = Cover(2 * k - 1, b.x, b.y, b.width, 50, b.handler, b.id)
    BY <2>1, <2>3 DEF CalculatorLaid, BoxLaid
  <2>5. k \in 1..17
    BY <2>1
  <2>6. /\ b.handler \in {"textfield", "digit", "operation", "delete"}
        /\ b.handler = "digit" => b.id \in 0..9
        /\ b.handler = "operation" => b.id \in DOMAIN OperatorOf \cup {BUTTON_EQUALS}
    <3>1. b \in BoxType
      BY <2>3, <2>5, BoxIs
    <3> QED
      BY <2>3, <2>5, <3>1, BoxIs DEF BoxType
  <2>7. t.field.element = 2 /\ t.field.max_allowed_len > 1
    BY <2>1, TextfieldAssumption DEF CalculatorLaid
  <2>8. CASE i = 2 * k - 1
    <3>1. t.elements[i].handler = "plane"
      BY <2>4, <2>8 DEF Root
    <3> QED
      BY <3>1 DEF WiredTo
  <2>9. CASE i = 2 * k
    <3>1. t.elements[i].handler = b.handler /\ t.elements[i].id = b.id
      BY <2>4, <2>9 DEF Cover
    <3> QED
      BY <2>6, <2>7, <3>1 DEF WiredTo, NULL
  <2> QED
    BY <2>2, <2>8, <2>9
<1>3. CASE p = "form"
  <2>1. FormLaid(t, n) /\ n \in 0..4
    BY <1>3 DEF Laid, TotalCalls
  <2>2. n # 0
    BY <2>1 DEF FormLaid
  <2>3. /\ t.elements[1].handler = "plane" /\ t.elements[2].handler = "textfield"
        /\ t.field.element = 2
    BY <2>1, <2>2 DEF FormLaid, FieldRoot, FieldCover, Root, Cover
  <2>4. i = 1 \/ i = 2 \/ (i = 3 /\ t.elements[3].handler = "default")
    <3>1. n \in {1, 2} \/ n \in {3, 4}
      BY <2>1, <2>2
    <3>2. CASE n \in {1, 2}
      <4>1. Len(t.elements) = 2
        BY <2>1, <3>2 DEF FormLaid
      <4> QED
        BY ONLY <4>1, i \in 1..Len(t.elements)
    <3>3. CASE n \in {3, 4}
      <4>1. Len(t.elements) = 3 /\ t.elements[3].handler = "default"
        BY <2>1, <3>3 DEF FormLaid, ImageRoot, Root
      <4> QED
        BY ONLY <4>1, i \in 1..Len(t.elements)
    <3> QED
      BY <3>1, <3>2, <3>3
  <2> QED
    BY <2>3, <2>4 DEF WiredTo, NULL
<1>4. CASE p = "blank"
  <2>1. BlankLaid(t, n)
    BY <1>4 DEF Laid
  <2>2. n # 0
    BY <2>1 DEF BlankLaid
  <2>3. i = 1 \/ i = 2
    <3>1. Len(t.elements) = 2
      BY <2>1, <2>2 DEF BlankLaid
    <3> QED
      BY ONLY <3>1, i \in 1..Len(t.elements)
  <2> QED
    BY <2>1, <2>2, <2>3 DEF WiredTo, BlankLaid
<1> QED
  BY <1>2, <1>3, <1>4

\* The state of main between two of its calls.
Making(p, n, t) ==
    /\ IsUi(t) /\ Laid(p, n, t)
    /\ t.must_draw = TRUE /\ t.printed = NoItem /\ t.wild = FALSE
    /\ ~(p = "form" /\ n = 4) => t.events = <<>> /\ t.focused = NULL
    /\ p = "form" /\ n = 4 => IsFocusing(t.events) /\ t.focused = 2
    /\ p = "blank" /\ n > 0 => t.list.selected_index = NoItem
    /\ p # "blank" /\ n > 0 => t.field \in MadeField /\ Stored(t.field, <<>>, t.recycled)
    /\ p = "calculator" /\ n > 0 => Len(t.field.text) = TEXTFIELD_DEFAULT_BUFFER_SIZE

LEMMA NothingMade ==
    ASSUME NEW p \in {"calculator", "form", "blank"}, NEW recycled \in Nat
    PROVE  Making(p, 0, Start(recycled)) /\ Start(recycled).recycled = recycled
<1>1. PICK t : t = Start(recycled)
  OBVIOUS
<1>2. /\ t.elements = <<>> /\ t.events = <<>> /\ t.focused = NULL /\ t.must_draw = TRUE
      /\ t.field = [element |-> NULL] /\ t.list = [element |-> NULL]
      /\ t.printed = NoItem /\ t.wild = FALSE /\ t.recycled = recycled
  BY <1>1 DEF Start, gui_bind_to_window
<1>3. t \in UiType
  <2>1. /\ <<>> \in Seq(ElementType) /\ <<>> \in Seq(EventType) /\ NULL \in Nat
        /\ NoItem \in Int
    BY DEF NULL, NoItem
  <2>2. [element |-> NULL] \in FieldType /\ [element |-> NULL] \in ListType
    BY DEF FieldType, ListType
  <2> QED
    BY <1>1, <2>1, <2>2 DEF Start, gui_bind_to_window, UiType
<1>4. IsUi(t)
  <2>1. Len(<<>>) = 0 /\ NULL \in 0..0 /\ \A k \in 1..0 : FALSE
    BY DEF NULL
  <2>2. t.field.element = NULL /\ t.list.element = NULL
    BY <1>2
  <2> QED
    BY <1>2, <1>3, <2>1, <2>2 DEF IsUi, Tree, EventsFor
<1>5. Laid(p, 0, t)
  <2>1. Len(<<>>) = 0 /\ (\A k \in 1..0 : FALSE) /\ 2 * 0 = 0
    OBVIOUS
  <2>2. t.field.element = NULL /\ t.list.element = NULL
    BY <1>2
  <2> QED
    BY <1>2, <2>1, <2>2 DEF Laid, CalculatorLaid, FormLaid, BlankLaid
<1> QED
  BY <1>1, <1>2, <1>4, <1>5 DEF Making

LEMMA PairIsBox ==
    ASSUME NEW t, NEW u, NEW n \in Nat, n + 1 \in 1..17, CalculatorLaid(t, n),
           NEW b, b = Box(n + 1),
           Pair(t, u, b.x, b.y, b.width, 50, b.handler, b.id)
    PROVE  Len(u.elements) = 2 * (n + 1) /\ \A k \in 1..n + 1 : BoxLaid(u.elements, k)
<1>1. Len(t.elements) = 2 * n /\ \A k \in 1..n : BoxLaid(t.elements, k)
  BY DEF CalculatorLaid
<1>2. /\ Len(u.elements) = 2 * n + 2
      /\ \A i \in 1..2 * n : u.elements[i] = t.elements[i]
      /\ u.elements[2 * n + 1] = Root(b.x, b.y, b.width, 50, "plane", b.id)
      /\ u.elements[2 * n + 2] = Cover(2 * n + 1, b.x, b.y, b.width, 50, b.handler, b.id)
  BY <1>1 DEF Pair
<1>3. 2 * (n + 1) = 2 * n + 2 /\ 2 * (n + 1) - 1 = 2 * n + 1
  OBVIOUS
<1>4. BoxLaid(u.elements, n + 1)
  BY <1>2, <1>3 DEF BoxLaid
<1>5. ASSUME NEW k \in 1..n PROVE BoxLaid(u.elements, k)
  <2>1. 2 * k - 1 \in 1..2 * n /\ 2 * k \in 1..2 * n
    OBVIOUS
  <2>2. u.elements[2 * k - 1] = t.elements[2 * k - 1] /\ u.elements[2 * k] = t.elements[2 * k]
    BY <1>2, <2>1
  <2>3. BoxLaid(t.elements, k)
    BY <1>1
  <2> QED
    BY <2>2, <2>3 DEF BoxLaid
<1>6. \A k \in 1..n + 1 : k \in 1..n \/ k = n + 1
  OBVIOUS
<1> QED
  BY <1>2, <1>3, <1>4, <1>5, <1>6

LEMMA CalculatorMakes ==
    ASSUME NEW n \in 0..16, NEW t, Making("calculator", n, t)
    PROVE  LET u == calculator_main(t, n + 1)
           IN  Making("calculator", n + 1, u) /\ u.recycled = t.recycled
<1>1. PICK u, b : u = calculator_main(t, n + 1) /\ b = Box(n + 1)
  OBVIOUS
<1>2. /\ IsUi(t) /\ CalculatorLaid(t, n) /\ t.must_draw = TRUE /\ t.printed = NoItem
      /\ t.wild = FALSE /\ t.events = <<>> /\ t.focused = NULL
      /\ n > 0 => t.field \in MadeField /\ Stored(t.field, <<>>, t.recycled)
      /\ n > 0 => Len(t.field.text) = TEXTFIELD_DEFAULT_BUFFER_SIZE
  BY DEF Making, Laid
<1>3. n \in Nat /\ n + 1 \in 1..17
  OBVIOUS
<1>4. /\ b \in BoxType /\ b.handler = "textfield" <=> n + 1 = 1
  BY <1>1, <1>3, BoxIs
<1>5. /\ b.x \in Nat /\ b.y \in Nat /\ b.width \in Nat \ {0} /\ b.id \in Int
      /\ b.handler \in Handlers
  BY <1>1, <1>3, BoxIs DEF BoxType, Handlers
<1>6. Len(t.elements) = 2 * n /\ t.list.element = NULL
  BY <1>2 DEF CalculatorLaid
<1>7. CASE n = 0
  <2>1. /\ b.x = 10 /\ b.y = 10 /\ b.width = WindowWidth - 20
        /\ b.id = RESULT_TEXTFIELD /\ b.handler = "textfield"
    BY <1>1, <1>7 DEF Box, padding
  <2>2. u = gui_element_textfield_create(t, NULL, b.x, b.y, b.width, 50, b.id)
    BY <1>1, <1>7, <2>1 DEF calculator_main, padding
  <2>3. LET v == gui_element_textfield_create(t, NULL, b.x, b.y, b.width, 50, b.id)
        IN  /\ IsUi(v) /\ ButMaking(t, v) /\ v.list = t.list
            /\ v.field \in MadeField /\ v.field.element = Len(t.elements) + 2
            /\ v.field.max_allowed_len = TEXTFIELD_DEFAULT_BUFFER_SIZE
            /\ Stored(v.field, <<>>, v.recycled)
            /\ Len(v.field.text) = TEXTFIELD_DEFAULT_BUFFER_SIZE
            /\ Pair(t, v, b.x, b.y, b.width, 50, "textfield", b.id)
    <3>1. PICK x, y, w, h, id : /\ x = b.x /\ y = b.y /\ w = b.width /\ id = b.id /\ h = 50
      OBVIOUS
    <3>2. x \in Nat /\ y \in Nat /\ w \in Nat \ {0} /\ h \in Nat \ {0} /\ id \in Int
      BY <1>5, <3>1
    <3>3. LET v == gui_element_textfield_create(t, NULL, x, y, w, h, id)
          IN  /\ IsUi(v) /\ ButMaking(t, v) /\ v.list = t.list
              /\ v.field \in MadeField /\ v.field.element = Len(t.elements) + 2
              /\ v.field.max_allowed_len = TEXTFIELD_DEFAULT_BUFFER_SIZE
              /\ Stored(v.field, <<>>, v.recycled)
              /\ Len(v.field.text) = TEXTFIELD_DEFAULT_BUFFER_SIZE
              /\ Pair(t, v, x, y, w, h, "textfield", id)
      BY <1>2, <3>2, TextfieldMade
    <3> QED
      BY <3>1, <3>3
  <2>4. /\ IsUi(u) /\ ButMaking(t, u) /\ u.list = t.list
        /\ u.field \in MadeField /\ u.field.element = 2
        /\ u.field.max_allowed_len = TEXTFIELD_DEFAULT_BUFFER_SIZE
        /\ Stored(u.field, <<>>, u.recycled)
        /\ Len(u.field.text) = TEXTFIELD_DEFAULT_BUFFER_SIZE
        /\ Pair(t, u, b.x, b.y, b.width, 50, b.handler, b.id)
    BY <1>6, <1>7, <2>1, <2>2, <2>3
  <2>5. CalculatorLaid(u, n + 1)
    <3>1. Len(u.elements) = 2 * (n + 1) /\ \A k \in 1..n + 1 : BoxLaid(u.elements, k)
      BY <1>1, <1>2, <1>3, <2>4, PairIsBox
    <3> QED
      BY <1>3, <1>6, <2>4, <3>1 DEF CalculatorLaid
  <2> QED
    BY <1>1, <1>2, <2>4, <2>5 DEF Making, Laid, ButMaking
<1>8. CASE n > 0
  <2>1. u = Covered(t, NULL, b.x, b.y, b.width, 50, b.handler, b.id)
    <3>1. n + 1 # 1
      BY <1>8
    <3> QED
      BY <1>1, <3>1 DEF calculator_main, Box, gui_element_button_create, button_height
  <2>2. LET v == Covered(t, NULL, b.x, b.y, b.width, 50, b.handler, b.id)
        IN  /\ IsUi(v) /\ ButMaking(t, v) /\ v.field = t.field /\ v.list = t.list
            /\ Pair(t, v, b.x, b.y, b.width, 50, b.handler, b.id)
    <3>1. PICK x, y, w, h, handler, id :
             x = b.x /\ y = b.y /\ w = b.width /\ id = b.id /\ h = 50 /\ handler = b.handler
      OBVIOUS
    <3>2. /\ x \in Nat /\ y \in Nat /\ w \in Nat \ {0} /\ h \in Nat \ {0} /\ id \in Int
          /\ handler \in Handlers
      BY <1>5, <3>1
    <3>3. LET v == Covered(t, NULL, x, y, w, h, handler, id)
          IN  /\ IsUi(v) /\ ButMaking(t, v) /\ v.field = t.field /\ v.list = t.list
              /\ Pair(t, v, x, y, w, h, handler, id)
      BY <1>2, <3>2, CoveredIs
    <3> QED
      BY <3>1, <3>3
  <2>3. /\ IsUi(u) /\ ButMaking(t, u) /\ u.field = t.field /\ u.list = t.list
        /\ Pair(t, u, b.x, b.y, b.width, 50, b.handler, b.id)
    BY <2>1, <2>2
  <2>4. CalculatorLaid(u, n + 1)
    <3>1. Len(u.elements) = 2 * (n + 1) /\ \A k \in 1..n + 1 : BoxLaid(u.elements, k)
      BY <1>1, <1>2, <1>3, <2>3, PairIsBox
    <3>2. t.field.element = 2 /\ t.field.max_allowed_len = TEXTFIELD_DEFAULT_BUFFER_SIZE
      BY <1>2, <1>8 DEF CalculatorLaid
    <3> QED
      BY <1>3, <1>6, <2>3, <3>1, <3>2 DEF CalculatorLaid
  <2> QED
    BY <1>1, <1>2, <1>8, <2>3, <2>4 DEF Making, Laid, ButMaking
<1> QED
  BY <1>7, <1>8

LEMMA FormFieldMade ==
    ASSUME NEW t, Making("form", 0, t)
    PROVE  LET u == form_main(t, 1) IN Making("form", 1, u) /\ u.recycled = t.recycled
<1>1. /\ IsUi(t) /\ FormLaid(t, 0) /\ t.printed = NoItem
      /\ t.wild = FALSE /\ t.events = <<>> /\ t.focused = NULL
  BY DEF Making, Laid
<1>2. PICK u : u = form_main(t, 1)
  OBVIOUS
<1>3. PICK x, y, w, h, id : x = 10 /\ y = 10 /\ w = 80 /\ h = 50 /\ id = RESULT_TEXTFIELD
  OBVIOUS
<1>4. x \in Nat /\ y \in Nat /\ w \in Nat \ {0} /\ h \in Nat \ {0} /\ id \in Int
  BY <1>3 DEF RESULT_TEXTFIELD
<1>5. u = gui_element_textfield_create(t, NULL, x, y, w, h, id)
  BY <1>2, <1>3 DEF form_main
<1>6. LET v == gui_element_textfield_create(t, NULL, x, y, w, h, id)
      IN  /\ IsUi(v) /\ ButMaking(t, v) /\ v.list = t.list
          /\ v.field \in MadeField /\ v.field.element = Len(t.elements) + 2
          /\ v.field.max_allowed_len = TEXTFIELD_DEFAULT_BUFFER_SIZE
          /\ Stored(v.field, <<>>, v.recycled)
          /\ Len(v.field.text) = TEXTFIELD_DEFAULT_BUFFER_SIZE
          /\ Pair(t, v, x, y, w, h, "textfield", id)
  BY <1>1, <1>4, TextfieldMade
<1>7. t.elements = <<>> /\ Len(t.elements) = 0 /\ t.list.element = NULL
  BY <1>1 DEF FormLaid
<1>8. /\ IsUi(u) /\ ButMaking(t, u) /\ u.list = t.list
      /\ u.field \in MadeField /\ u.field.element = 2
      /\ Stored(u.field, <<>>, u.recycled)
      /\ Pair(t, u, x, y, w, h, "textfield", id)
  BY <1>5, <1>6, <1>7
<1>9. /\ Len(u.elements) = 2 /\ u.elements[1] = Root(x, y, w, h, "plane", id)
      /\ u.elements[2] = Cover(1, x, y, w, h, "textfield", id)
  BY <1>7, <1>8 DEF Pair
<1>10. FormLaid(u, 1)
  BY <1>3, <1>7, <1>8, <1>9 DEF FormLaid, FieldRoot, FieldCover
<1> QED
  BY <1>1, <1>2, <1>8, <1>10 DEF Making, Laid, ButMaking

LEMMA FormRoomSet ==
    ASSUME NEW t, Making("form", 1, t)
    PROVE  LET u == form_main(t, 2) IN Making("form", 2, u) /\ u.recycled = t.recycled
<1>1. /\ IsUi(t) /\ FormLaid(t, 1) /\ t.printed = NoItem /\ t.must_draw = TRUE
      /\ t.wild = FALSE /\ t.events = <<>> /\ t.focused = NULL
      /\ t.field \in MadeField /\ Stored(t.field, <<>>, t.recycled)
  BY DEF Making, Laid
<1>2. PICK u : u = form_main(t, 2)
  OBVIOUS
<1>3. PICK f, g : f = t.field /\ g = [f EXCEPT !.max_allowed_len = FormMax]
  OBVIOUS
<1>4. FormMax \in Nat \ {0} /\ f \in MadeField
  BY <1>1, <1>3, UserlandAssumption
<1>5. /\ g \in MadeField /\ g.element = f.element /\ g.index = f.index
      /\ g.text = f.text /\ g.max_allowed_len = FormMax
  BY ONLY <1>3, <1>4 DEF MadeField
<1>6. u = [t EXCEPT !.field = g]
  <2>1. t \in UiType
    BY <1>1 DEF IsUi
  <2> QED
    BY ONLY <1>2, <1>3, <2>1 DEF form_main, gui_element_text_field_max_characters_set, UiType
<1>7. f.element = 2 /\ Len(t.elements) = 2 /\ f.index < Len(f.text)
  BY <1>1, <1>3 DEF FormLaid, IsUi, NULL
<1>8. /\ IsUi(u) /\ ButField(t, u) /\ u.field = g /\ u.must_draw = t.must_draw
      /\ u.wild = t.wild /\ u.recycled = t.recycled
  <2>1. g.element \in 1..Len(t.elements) /\ g.index < Len(g.text)
    BY <1>5, <1>7
  <2> QED
    BY <1>1, <1>5, <1>6, <2>1, FieldMade
<1>9. FormLaid(u, 2)
  BY <1>1, <1>5, <1>7, <1>8 DEF FormLaid, ButField
<1>10. Stored(g, <<>>, t.recycled)
  BY <1>1, <1>3, <1>5 DEF Stored
<1> QED
  BY <1>1, <1>2, <1>5, <1>8, <1>9, <1>10 DEF Making, Laid, ButField

LEMMA FormImageMade ==
    ASSUME NEW t, Making("form", 2, t)
    PROVE  LET u == form_main(t, 3) IN Making("form", 3, u) /\ u.recycled = t.recycled
<1>1. /\ IsUi(t) /\ FormLaid(t, 2) /\ t.printed = NoItem
      /\ t.wild = FALSE /\ t.events = <<>> /\ t.focused = NULL
      /\ t.field \in MadeField /\ Stored(t.field, <<>>, t.recycled)
  BY DEF Making, Laid
<1>2. PICK u : u = form_main(t, 3)
  OBVIOUS
<1>3. PICK x, y, w, h, id, handler : /\ x = 100 /\ y = 10 /\ w = 50 /\ h = 50 /\ id = ImageId
                                     /\ handler = "default"
  OBVIOUS
<1>4. /\ x \in Nat /\ y \in Nat /\ w \in Nat \ {0} /\ h \in Nat \ {0} /\ id \in Int
      /\ handler \in Handlers
  BY <1>3 DEF ImageId, Handlers
<1>5. u = gui_element_create(t, NULL, x, y, w, h, handler, id)
  BY <1>2, <1>3 DEF form_main, gui_element_image_create
<1>6. PICK e : e = Root(x, y, w, h, handler, id)
  OBVIOUS
<1>7. LET v == gui_element_create(t, NULL, x, y, w, h, handler, id)
          d == Root(x, y, w, h, handler, id)
      IN  IsUi(v) /\ Longer(t, v, d) /\ d \in ElementType
  BY <1>1, <1>4, RootMade
<1>8. IsUi(u) /\ Longer(t, u, e) /\ e \in ElementType /\ e = ImageRoot
  BY <1>3, <1>5, <1>6, <1>7 DEF ImageRoot
<1>9. t.elements \in Seq(ElementType) /\ Len(t.elements) = 2
  BY <1>1 DEF IsUi, UiType, FormLaid
<1>10. /\ Len(u.elements) = 3 /\ u.elements[3] = e
       /\ u.elements[1] = t.elements[1] /\ u.elements[2] = t.elements[2]
  <2>1. PICK p : p = Append(t.elements, e)
    OBVIOUS
  <2>2. /\ Len(p) = 2 + 1 /\ p[2 + 1] = e
        /\ \A i \in 1..2 : p[i] = t.elements[i]
    BY <1>8, <1>9, <2>1, AppendIs
  <2>3. u.elements = p /\ 1 \in 1..2 /\ 2 \in 1..2 /\ 2 + 1 = 3
    BY <1>8, <2>1 DEF Longer
  <2> QED
    BY ONLY <2>2, <2>3
<1>11. FormLaid(u, 3)
  BY <1>1, <1>8, <1>10 DEF FormLaid, Longer
<1> QED
  BY <1>1, <1>2, <1>8, <1>11 DEF Making, Laid, Longer

LEMMA FormFocused ==
    ASSUME NEW t, Making("form", 3, t)
    PROVE  LET u == form_main(t, 4) IN Making("form", 4, u) /\ u.recycled = t.recycled
<1>1. /\ IsUi(t) /\ FormLaid(t, 3) /\ t.printed = NoItem /\ t.must_draw = TRUE
      /\ t.wild = FALSE /\ t.events = <<>>
      /\ t.field \in MadeField /\ Stored(t.field, <<>>, t.recycled)
  BY DEF Making, Laid
<1>2. PICK u, i : u = form_main(t, 4) /\ i = t.field.element
  OBVIOUS
<1>3. i = 2 /\ Len(t.elements) = 3
  BY <1>1, <1>2 DEF FormLaid
<1>4. u = gui_focus_on_element(t, i)
  BY <1>2 DEF form_main
<1>5. i \in 1..Len(t.elements)
  BY <1>3
<1>6. /\ IsUi(u) /\ ButFocus(t, u) /\ u.focused = i
      /\ \E q : ForRoots(t, q) /\ u.events = t.events \o q
  <2>1. LET v == gui_focus_on_element(t, i)
        IN  /\ IsUi(v) /\ ButFocus(t, v) /\ v.focused = i
            /\ \E q : ForRoots(t, q) /\ v.events = t.events \o q
    BY <1>1, <1>5, FocusKeeps
  <2> QED
    BY <1>4, <2>1
<1>7. PICK q : ForRoots(t, q) /\ u.events = t.events \o q
  BY <1>6
<1>8. u.events = q
  BY <1>1, <1>7 DEF ForRoots, IsFocusing
<1>9. IsFocusing(u.events)
  BY <1>7, <1>8 DEF ForRoots
<1>10. FormLaid(u, 4)
  BY <1>1, <1>6 DEF FormLaid, ButFocus
<1> QED
  BY <1>1, <1>2, <1>3, <1>6, <1>9, <1>10 DEF Making, Laid, ButFocus

LEMMA FormMakes ==
    ASSUME NEW n \in 0..3, NEW t, Making("form", n, t)
    PROVE  LET u == form_main(t, n + 1)
           IN  Making("form", n + 1, u) /\ u.recycled = t.recycled
<1>1. n = 0 \/ n = 1 \/ n = 2 \/ n = 3
  OBVIOUS
<1>2. 0 + 1 = 1 /\ 1 + 1 = 2 /\ 2 + 1 = 3 /\ 3 + 1 = 4
  OBVIOUS
<1> QED
  BY <1>1, <1>2, FormFieldMade, FormRoomSet, FormImageMade, FormFocused

LEMMA BlankListMade ==
    ASSUME NEW t, Making("blank", 0, t)
    PROVE  LET u == blank_main(t, 1) IN Making("blank", 1, u) /\ u.recycled = t.recycled
<1>1. /\ IsUi(t) /\ BlankLaid(t, 0) /\ t.printed = NoItem
      /\ t.wild = FALSE /\ t.events = <<>> /\ t.focused = NULL
  BY DEF Making, Laid
<1>2. PICK u : u = blank_main(t, 1)
  OBVIOUS
<1>3. PICK x, y, w, h, id : x = 10 /\ y = 10 /\ w = 100 /\ h = 200 /\ id = -1
  OBVIOUS
<1>4. x \in Nat /\ y \in Nat /\ w \in Nat \ {0} /\ h \in Nat \ {0} /\ id \in Int
  BY <1>3
<1>5. u = gui_element_listarea_create(t, NULL, x, y, w, h, id)
  BY <1>2, <1>3 DEF blank_main
<1>6. LET v == gui_element_listarea_create(t, NULL, x, y, w, h, id)
      IN  /\ IsUi(v) /\ ButMaking(t, v) /\ v.field = t.field
          /\ v.list.element = Len(t.elements) + 2
          /\ v.list.selected_index = NoItem
          /\ Pair(t, v, x, y, w, h, "listarea", id)
  BY <1>1, <1>4, ListMadeIs
<1>7. t.elements = <<>> /\ Len(t.elements) = 0 /\ t.field.element = NULL
  BY <1>1 DEF BlankLaid
<1>8. /\ IsUi(u) /\ ButMaking(t, u) /\ u.field = t.field
      /\ u.list.element = 2 /\ u.list.selected_index = NoItem
      /\ Pair(t, u, x, y, w, h, "listarea", id)
  BY <1>5, <1>6, <1>7
<1>9. /\ Len(u.elements) = 2 /\ u.elements[1] = Root(x, y, w, h, "plane", id)
      /\ u.elements[2] = Cover(1, x, y, w, h, "listarea", id)
  BY <1>7, <1>8 DEF Pair
<1>10. /\ u.elements[1].parent = NULL /\ u.elements[1].handler = "plane"
       /\ u.elements[2].parent = 1 /\ u.elements[2].handler = "listarea"
  BY <1>9 DEF Root, Cover
<1>11. BlankLaid(u, 1)
  BY <1>7, <1>8, <1>9, <1>10 DEF BlankLaid
<1> QED
  BY <1>1, <1>2, <1>8, <1>11 DEF Making, Laid, ButMaking

\* An item that is not added, or a property that is not attached.
LEMMA BlankGoesOn ==
    ASSUME NEW n \in 1..4, NEW t, Making("blank", n, t)
    PROVE  Making("blank", n + 1, t)
<1>1. BlankLaid(t, n)
  BY DEF Making, Laid
<1>2. BlankLaid(t, n + 1)
  BY <1>1 DEF BlankLaid
<1> QED
  BY <1>2 DEF Making, Laid

LEMMA BlankItemAdded ==
    ASSUME NEW n \in 1..4, NEW t, Making("blank", n, t), NEW title \in Nat
    PROVE  LET u == gui_element_listarea_list_add(t, title)
           IN  Making("blank", n, u) /\ u.recycled = t.recycled
<1>1. /\ IsUi(t) /\ BlankLaid(t, n) /\ t.list.selected_index = NoItem
  BY DEF Making, Laid
<1>2. PICK u, l : u = gui_element_listarea_list_add(t, title) /\ l = t.list
  OBVIOUS
<1>3. l.element = 2
  BY <1>1, <1>2 DEF BlankLaid
<1>4. l \in [element : Nat \ {NULL}, items : Seq(Nat), selected_index : Int]
  BY <1>1, <1>2, <1>3 DEF IsUi, UiType, ListType, NULL
<1>5. PICK items : items = Append(l.items, title)
  OBVIOUS
<1>6. items \in Seq(Nat)
  BY <1>4, <1>5
<1>7. PICK m : m = [l EXCEPT !.items = items]
  OBVIOUS
<1>8. /\ m \in [element : Nat \ {NULL}, items : Seq(Nat), selected_index : Int]
      /\ m.element = l.element /\ m.selected_index = l.selected_index
  BY ONLY <1>4, <1>6, <1>7
<1>9. u = [t EXCEPT !.list = m]
  <2>1. t \in UiType
    BY <1>1 DEF IsUi
  <2> QED
    BY ONLY <1>2, <1>5, <1>7, <2>1 DEF gui_element_listarea_list_add, UiType
<1>10. /\ IsUi(u) /\ u.elements = t.elements /\ u.events = t.events
       /\ u.focused = t.focused /\ u.must_draw = t.must_draw /\ u.field = t.field
       /\ u.printed = t.printed /\ u.wild = t.wild /\ u.recycled = t.recycled
       /\ u.list = m
  <2>1. m \in ListType
    BY <1>8 DEF ListType
  <2>2. m.element = t.list.element
    BY <1>2, <1>8
  <2> QED
    BY <1>1, <1>9, <2>1, <2>2, NewList
<1>11. BlankLaid(u, n)
  BY <1>1, <1>2, <1>8, <1>10 DEF BlankLaid
<1> QED
  BY <1>1, <1>2, <1>8, <1>10, <1>11 DEF Making, Laid

LEMMA CellOf ==
    ASSUME NEW D, NEW q \in Seq(D), NEW i, NEW c \in D
    PROVE  /\ [q EXCEPT ![i] = c] \in Seq(D) /\ Len([q EXCEPT ![i] = c]) = Len(q)
           /\ \A k \in 1..Len(q) : [q EXCEPT ![i] = c][k] = IF k = i THEN c ELSE q[k]
<1>1. q \in [1..Len(q) -> D] /\ Len(q) \in Nat
  OBVIOUS
<1>2. [q EXCEPT ![i] = c] \in [1..Len(q) -> D]
  BY <1>1
<1> QED
  BY <1>1, <1>2

LEMMA BlankPropertyAttached ==
    ASSUME NEW n \in 1..4, NEW t, Making("blank", n, t), NEW property \in Properties
    PROVE  LET u == gui_element_property_attach(t, t.list.element, property)
           IN  Making("blank", n, u) /\ u.recycled = t.recycled
<1>1. IsUi(t) /\ BlankLaid(t, n)
  BY DEF Making, Laid
<1>2. PICK u : u = gui_element_property_attach(t, t.list.element, property)
  OBVIOUS
<1>3. t.list.element = 2 /\ Len(t.elements) = 2
  BY <1>1 DEF BlankLaid
<1>4. CASE u = t
  BY <1>2, <1>4
<1>5. CASE u # t
  <2>1. PICK q, e, properties : /\ q = t.elements /\ e = q[2]
                                /\ properties = Append(e.properties, property)
    OBVIOUS
  <2>2. q \in Seq(ElementType) /\ e \in ElementType /\ Len(q) = 2
    <3>1. q \in Seq(ElementType) /\ Len(q) = 2
      BY <1>1, <1>3, <2>1 DEF IsUi, UiType
    <3> QED
      BY ONLY <2>1, <3>1
  <2>3. properties \in Seq(Properties)
    <3>1. e.properties \in Seq(Properties)
      BY <2>2 DEF ElementType
    <3> QED
      BY <2>1, <3>1
  <2>4. PICK d : d = [e EXCEPT !.properties = properties]
    OBVIOUS
  <2>5. /\ d \in ElementType /\ d.parent = e.parent /\ d.handler = e.handler /\ d.id = e.id
        /\ d.rel_root_x = e.rel_root_x /\ d.rel_root_y = e.rel_root_y
        /\ d.real_width = e.real_width /\ d.real_height = e.real_height
        /\ d.width = e.width /\ d.height = e.height
    BY ONLY <2>2, <2>3, <2>4 DEF ElementType
  <2>6. PICK r : r = [q EXCEPT ![2] = d]
    OBVIOUS
  <2>7. r \in Seq(ElementType) /\ Len(r) = 2 /\ r[1] = q[1] /\ r[2] = d
    <3>1. PICK D : D = ElementType
      OBVIOUS
    <3>2. q \in Seq(D) /\ Len(q) = 2 /\ d \in D
      BY <2>2, <2>5, <3>1
    <3>3. PICK i : i = 2
      OBVIOUS
    <3>4. r = [q EXCEPT ![i] = d]
      BY <2>6, <3>3
    <3>5. r \in Seq(D) /\ Len(r) = Len(q) /\ \A k \in 1..Len(q) : r[k] = IF k = i THEN d ELSE q[k]
      BY ONLY <3>2, <3>4, CellOf
    <3>6. 1 \in 1..2 /\ 2 \in 1..2 /\ 1 # 2
      OBVIOUS
    <3> QED
      BY ONLY <3>1, <3>2, <3>3, <3>5, <3>6
  <2>8. u = [t EXCEPT !.elements = r]
    <3>1. u = [t EXCEPT !.elements[2].properties = Append(@, property)]
      BY <1>2, <1>3, <1>5 DEF gui_element_property_attach
    <3>2. t \in UiType
      BY <1>1 DEF IsUi
    <3>3. u = [t EXCEPT !.elements = [q EXCEPT ![2] =
                    [e EXCEPT !.properties = Append(e.properties, property)]]]
      BY ONLY <2>1, <2>2, <3>1, <3>2 DEF UiType, ElementType
    <3> QED
      BY <2>1, <2>4, <2>6, <3>3
  <2>9. /\ u \in UiType /\ u.elements = r /\ u.events = t.events
        /\ u.focused = t.focused /\ u.must_draw = t.must_draw /\ u.field = t.field
        /\ u.list = t.list
        /\ u.printed = t.printed /\ u.wild = t.wild /\ u.recycled = t.recycled
    <3>1. t \in UiType
      BY <1>1 DEF IsUi
    <3> QED
      BY ONLY <2>7, <2>8, <3>1 DEF UiType
  <2>10. Tree(r)
    <3>1. Stands(q, 1) /\ Stands(q, 2)
      BY <1>1, <2>1, <2>2 DEF IsUi, Tree
    <3>2. Stands(r, 1)
      BY <2>7, <3>1 DEF Stands
    <3>3. Stands(r, 2)
      BY <2>1, <2>5, <2>7, <3>1 DEF Stands
    <3>4. \A i \in 1..Len(r) : i = 1 \/ i = 2
      BY <2>7
    <3> QED
      BY <3>2, <3>3, <3>4 DEF Tree
  <2>11. IsUi(u)
    BY <1>1, <1>3, <2>7, <2>9, <2>10 DEF IsUi
  <2>12. BlankLaid(u, n)
    BY <1>1, <2>1, <2>5, <2>7, <2>9 DEF BlankLaid
  <2> QED
    BY <1>2, <2>9, <2>11, <2>12 DEF Making, Laid
<1> QED
  BY <1>4, <1>5

LEMMA BlankMakes ==
    ASSUME NEW n \in 0..4, NEW t, Making("blank", n, t)
    PROVE  LET u == blank_main(t, n + 1)
           IN  Making("blank", n + 1, u) /\ u.recycled = t.recycled
<1>1. PICK u : u = blank_main(t, n + 1)
  OBVIOUS
<1>2. CASE n = 0
  BY <1>1, <1>2, BlankListMade
<1>3. CASE n \in 1..4
  <2>1. CASE n + 1 \in {2, 3}
    <3>1. PICK title \in Nat : title = n + 1
      OBVIOUS
    <3>2. u = gui_element_listarea_list_add(t, title)
      BY <1>1, <1>3, <2>1, <3>1 DEF blank_main
    <3>3. Making("blank", n, u) /\ u.recycled = t.recycled
      <4>1. LET v == gui_element_listarea_list_add(t, title)
            IN  Making("blank", n, v) /\ v.recycled = t.recycled
        BY <1>3, BlankItemAdded
      <4> QED
        BY <3>2, <4>1
    <3>4. Making("blank", n + 1, u)
      BY <1>3, <3>3, BlankGoesOn
    <3> QED
      BY <1>1, <3>3, <3>4
  <2>2. CASE n + 1 \in {4, 5}
    <3>1. PICK property \in Properties : u = gui_element_property_attach(t, t.list.element, property)
      <4>1. \/ u = gui_element_property_attach(t, t.list.element, "blank")
            \/ u = gui_element_property_attach(t, t.list.element, "example")
        BY <1>1, <1>3, <2>2 DEF blank_main
      <4>2. "blank" \in Properties /\ "example" \in Properties
        BY DEF Properties
      <4>3. CASE u = gui_element_property_attach(t, t.list.element, "blank")
        BY <4>2, <4>3
      <4>4. CASE u = gui_element_property_attach(t, t.list.element, "example")
        BY <4>2, <4>4
      <4> QED
        BY <4>1, <4>3, <4>4
    <3>2. Making("blank", n, u) /\ u.recycled = t.recycled
      <4>1. LET v == gui_element_property_attach(t, t.list.element, property)
            IN  Making("blank", n, v) /\ v.recycled = t.recycled
        BY <1>3, BlankPropertyAttached
      <4> QED
        BY <3>1, <4>1
    <3>3. Making("blank", n + 1, u)
      BY <1>3, <3>2, BlankGoesOn
    <3> QED
      BY <1>1, <3>2, <3>3
  <2> QED
    BY <1>3, <2>1, <2>2
<1> QED
  BY <1>2, <1>3

-----------------------------------------------------------------------------
(* One event handled *)

Heard(t) == gui_event_push_to_properties([t EXCEPT !.events = Front(@)], Last(t.events))

Dispatched(t) ==
    gui_element_call_event_handlers(event_handler(Heard(t), Last(t.events)), Last(t.events))

LEMMA FrontIs ==
    ASSUME NEW D, NEW q \in Seq(D), q # <<>>
    PROVE  /\ Front(q) \in Seq(D) /\ Last(q) \in D /\ Len(Front(q)) = Len(q) - 1
           /\ Len(q) >= 1 /\ Last(q) = q[Len(q)]
           /\ \A k \in 1..Len(q) - 1 : Front(q)[k] = q[k]
<1>1. Len(q) \in Nat \ {0}
  BY EmptySeq
<1>2. Front(q) = SubSeq(q, 1, Len(q) - 1) /\ Last(q) = q[Len(q)]
  BY DEF Front, Last
<1>3. PICK n : n = Len(q) - 1
  OBVIOUS
<1>4. n \in Nat /\ n <= Len(q)
  BY <1>1, <1>3
<1>5. SubSeq(q, 1, n) \in Seq(D) /\ Len(SubSeq(q, 1, n)) = n
  BY <1>4
<1>6. \A k \in 1..n : SubSeq(q, 1, n)[k] = q[k]
  BY <1>4
<1> QED
  BY <1>1, <1>2, <1>3, <1>5, <1>6

LEMMA HeardIs ==
    ASSUME NEW t, IsUi(t), t.events # <<>>
    PROVE  LET v == Heard(t)
               event == Last(t.events)
           IN  /\ IsUi(v) /\ v.elements = t.elements /\ v.focused = t.focused
               /\ v.must_draw = t.must_draw /\ v.field = t.field /\ v.list = t.list
               /\ v.wild = t.wild /\ v.recycled = t.recycled
               /\ v.events = Front(t.events)
               /\ event \in EventType /\ event.element \in 1..Len(t.elements)
               /\ v.printed = IF t.elements[event.element].properties # <<>>
                                 /\ event.type = "LISTAREA_ITEM_SELECTED"
                              THEN event.value ELSE t.printed
<1>1. PICK q, event, v : q = Front(t.events) /\ event = Last(t.events) /\ v = Heard(t)
  OBVIOUS
<1>2. t.events \in Seq(EventType) /\ EventsFor(t.events, Len(t.elements)) /\ t \in UiType
  BY DEF IsUi, UiType
<1>3. /\ q \in Seq(EventType) /\ event \in EventType /\ Len(q) = Len(t.events) - 1
      /\ Len(t.events) >= 1 /\ event = t.events[Len(t.events)]
      /\ \A k \in 1..Len(t.events) - 1 : q[k] = t.events[k]
  BY <1>1, <1>2, FrontIs
<1>4. Len(t.events) \in Nat
  BY <1>2
<1>5. EventsFor(q, Len(t.elements)) /\ event.element \in 1..Len(t.elements)
  BY <1>2, <1>3, <1>4 DEF EventsFor
<1>6. PICK w : w = [t EXCEPT !.events = q]
  OBVIOUS
<1>7. IsUi(w) /\ ButEvents(t, w) /\ w.events = q
  <2>1. LET u == [t EXCEPT !.events = q] IN IsUi(u) /\ ButEvents(t, u) /\ u.events = q
    BY <1>3, <1>5, NewEvents
  <2> QED
    BY <1>6, <2>1
<1>8. v = IF t.elements[event.element].properties # <<>>
             /\ event.type = "LISTAREA_ITEM_SELECTED"
          THEN [w EXCEPT !.printed = event.value] ELSE w
  BY <1>1, <1>6, <1>7 DEF Heard, gui_event_push_to_properties, ButEvents
<1>9. PICK n, p : n = event.value /\ p = [w EXCEPT !.printed = n]
  OBVIOUS
<1>10. n \in Int /\ w \in UiType
  BY <1>3, <1>7, <1>9 DEF EventType, IsUi
<1>11. /\ p \in UiType /\ p.elements = w.elements /\ p.focused = w.focused
       /\ p.must_draw = w.must_draw /\ p.field = w.field /\ p.list = w.list
       /\ p.wild = w.wild /\ p.recycled = w.recycled /\ p.events = w.events /\ p.printed = n
  BY ONLY <1>9, <1>10 DEF UiType
<1>12. IsUi(p)
  BY <1>7, <1>11 DEF IsUi
<1>13. CASE t.elements[event.element].properties # <<>>
            /\ event.type = "LISTAREA_ITEM_SELECTED"
  <2>1. v = p
    BY <1>8, <1>9, <1>13
  <2> QED
    BY <1>1, <1>3, <1>5, <1>7, <1>9, <1>11, <1>12, <1>13, <2>1 DEF ButEvents
<1>14. CASE ~(t.elements[event.element].properties # <<>>
              /\ event.type = "LISTAREA_ITEM_SELECTED")
  <2>1. v = w
    BY <1>8, <1>14
  <2> QED
    BY <1>1, <1>3, <1>5, <1>7, <1>14, <2>1 DEF ButEvents
<1> QED
  BY <1>13, <1>14

\* The event waits that a root must redraw for.
Waits(q, i) == \E k \in 1..Len(q) : q[k].element = i /\ q[k].type \in {"FOCUSED", "UNFOCUSED"}

LEMMA WaitsOn ==
    ASSUME NEW p \in Seq(EventType), NEW q \in Seq(EventType), NEW i
    PROVE  Waits(p, i) \/ Waits(q, i) => Waits(p \o q, i)
<1>1. /\ Len(p \o q) = Len(p) + Len(q) /\ Len(p) \in Nat /\ Len(q) \in Nat
      /\ \A k \in 1..Len(p) : (p \o q)[k] = p[k]
      /\ \A k \in Len(p) + 1..Len(p) + Len(q) : (p \o q)[k] = q[k - Len(p)]
  BY ConcatIs
<1>2. CASE Waits(p, i)
  <2>1. PICK k \in 1..Len(p) : p[k].element = i /\ p[k].type \in {"FOCUSED", "UNFOCUSED"}
    BY <1>2 DEF Waits
  <2>2. k \in 1..Len(p \o q) /\ (p \o q)[k] = p[k]
    BY <1>1
  <2> QED
    BY <2>1, <2>2 DEF Waits
<1>3. CASE Waits(q, i)
  <2>1. PICK k \in 1..Len(q) : q[k].element = i /\ q[k].type \in {"FOCUSED", "UNFOCUSED"}
    BY <1>3 DEF Waits
  <2>2. /\ k + Len(p) \in 1..Len(p \o q) /\ k + Len(p) \in Len(p) + 1..Len(p) + Len(q)
        /\ k + Len(p) - Len(p) = k
    BY <1>1
  <2>3. (p \o q)[k + Len(p)] = q[k]
    BY <1>1, <2>2
  <2> QED
    BY <2>1, <2>2, <2>3 DEF Waits
<1> QED
  BY <1>2, <1>3

\* What handling the event leaves to be redrawn, and what it asks to be redrawn.
Redraws(t, u) ==
    \/ u.must_draw = TRUE
    \/ /\ u.must_draw = t.must_draw /\ u.list = t.list
       /\ u.field = t.field
          \/ (t.field.element # NULL /\ CString(u.field.text) = <<>>)
       /\ u.focused = t.focused \/ \A i \in Roots(t) : Waits(u.events, i)

LEMMA DispatchIs ==
    ASSUME NEW t, IsUi(t), Wired(t), t.events # <<>>,
           NEW v, v = Heard(t), NEW event, event = Last(t.events)
    PROVE  LET u == Dispatched(t)
           IN  /\ Keeps(v, u) /\ Redraws(v, u)
               /\ t.elements[event.element].handler = "plane"
                  /\ event.type \in {"FOCUSED", "UNFOCUSED"} => u.must_draw = TRUE
               /\ u.wild = event_handler(v, event).s.wild
<1>1. /\ IsUi(v) /\ v.elements = t.elements /\ v.focused = t.focused
      /\ v.must_draw = t.must_draw /\ v.field = t.field /\ v.list = t.list
      /\ event \in EventType /\ event.element \in 1..Len(t.elements)
  BY HeardIs
<1>2. Wired(v)
  BY <1>1 DEF Wired, WiredTo
<1>3. PICK h, w, u : h = event_handler(v, event) /\ w = h.s /\ u = Dispatched(t)
  OBVIOUS
<1>4. /\ h.res \in {"IGNORED", "PROCESSED_CONTINUE_WITH_CHILDREN"}
      /\ Keeps(v, w) /\ Owes(v, w)
      /\ t.elements[event.element].handler = "plane"
         /\ event.type \in {"FOCUSED", "UNFOCUSED"} => w.must_draw = TRUE
  <2>1. event.element \in 1..Len(v.elements)
    BY <1>1
  <2>2. LET handled == event_handler(v, event)
        IN  /\ handled.res \in {"IGNORED", "PROCESSED_CONTINUE_WITH_CHILDREN"}
            /\ Keeps(v, handled.s) /\ Owes(v, handled.s)
            /\ v.elements[event.element].handler = "plane"
               /\ event.type \in {"FOCUSED", "UNFOCUSED"} => handled.s.must_draw = TRUE
    BY <1>1, <1>2, <2>1, HandlerIs
  <2> QED
    BY <1>1, <1>3, <2>2
<1>5. PICK targets : targets = InOrder(Children(w, event.element))
  OBVIOUS
<1>6. u = Push(w, targets, event)
  BY <1>3, <1>4, <1>5
     DEF Dispatched, gui_element_call_event_handlers,
         gui_event_should_continue_propergating_childern, gui_event_propergate_through_children
<1>7. IsUi(w) /\ w.elements = v.elements /\ event.element \in 1..Len(w.elements)
  BY <1>1, <1>4 DEF Keeps
<1>8. targets \in Seq(1..Len(w.elements))
  <2>1. Len(w.elements) \in Nat
    BY <1>7 DEF IsUi, UiType
  <2>2. Children(w, event.element) \in SUBSET (1..Len(w.elements))
    BY DEF Children
  <2> QED
    BY <1>5, <2>1, <2>2, ElementsInOrder
<1>9. PICK sent : sent = Sent(targets, event)
  OBVIOUS
<1>10. IsUi(u) /\ ButEvents(w, u) /\ u.events = w.events \o sent /\ sent \in Seq(EventType)
  <2>1. LET x == Push(w, targets, event)
        IN  /\ IsUi(x) /\ ButEvents(w, x)
            /\ x.events = w.events \o Sent(targets, event)
    BY <1>1, <1>7, <1>8, PushKeeps
  <2>2. Len(w.elements) \in Nat
    BY <1>7 DEF IsUi, UiType
  <2>3. sent \in Seq(EventType)
    BY <1>1, <1>8, <1>9, <2>2, SentFor
  <2> QED
    BY <1>6, <1>9, <2>1, <2>3
<1>11. Keeps(v, u)
  <2>1. PICK q \in Seq(EventType) : w.events = v.events \o q
    BY <1>4 DEF Keeps
  <2>2. v.events \in Seq(EventType)
    BY <1>1 DEF IsUi, UiType
  <2>3. q \o sent \in Seq(EventType) /\ u.events = v.events \o (q \o sent)
    <3>1. sent \in Seq(EventType)
      BY <1>10
    <3>2. (v.events \o q) \o sent = v.events \o (q \o sent)
      BY ONLY <2>1, <2>2, <3>1, EventsAssociate
    <3>3. q \o sent \in Seq(EventType)
      BY ONLY <2>1, <3>1, ConcatProperties
    <3> QED
      BY ONLY <1>10, <2>1, <3>2, <3>3, Zenon
  <2> QED
    BY <1>4, <1>10, <2>3 DEF Keeps, ButEvents
<1>12. Redraws(v, u)
  <2>1. CASE w.must_draw = TRUE
    BY <1>10, <2>1 DEF Redraws, ButEvents
  <2>2. CASE w.must_draw # TRUE
    <3>1. /\ w.must_draw = v.must_draw /\ w.list = v.list
          /\ w.field = v.field
             \/ (v.field.element # NULL /\ CString(w.field.text) = <<>>)
          /\ \/ w.focused = v.focused
             \/ \E q : ForRoots(v, q) /\ w.events = v.events \o q
      BY <1>4, <2>2 DEF Owes
    <3>2. u.focused = v.focused \/ \A i \in Roots(v) : Waits(u.events, i)
      <4>1. CASE w.focused = v.focused
        BY <1>10, <4>1 DEF ButEvents
      <4>2. CASE w.focused # v.focused
        <5>1. PICK q : ForRoots(v, q) /\ w.events = v.events \o q
          BY <3>1, <4>2
        <5>2. q \in Seq(EventType) /\ v.events \in Seq(EventType)
          BY <1>1, <5>1 DEF ForRoots, IsFocusing, IsUi, UiType
        <5>3. ASSUME NEW i \in Roots(v) PROVE Waits(u.events, i)
          <6>1. Waits(q, i)
            BY <5>1, <5>3 DEF ForRoots, IsFocusing, Waits
          <6>2. Waits(w.events, i) /\ w.events \in Seq(EventType)
            BY <5>1, <5>2, <6>1, WaitsOn
          <6> QED
            BY <1>10, <6>2, WaitsOn
        <5> QED
          BY <5>3
      <4> QED
        BY <4>1, <4>2
    <3> QED
      BY <1>10, <3>1, <3>2 DEF Redraws, ButEvents
  <2> QED
    BY <2>1, <2>2
<1> QED
  BY <1>3, <1>4, <1>10, <1>11, <1>12 DEF ButEvents

-----------------------------------------------------------------------------
(* A window event taken *)

LEMMA InputIs ==
    ASSUME IsUi(s), NEW event \in UserInputs
    PROVE  \/ event.type = "MOUSE_MOVE"
           \/ /\ event.type = "MOUSE_CLICK" /\ event.x \in Int /\ event.y \in Int
           \/ /\ event.type = "KEY_PRESS" /\ event.key \in Keys /\ program = "form"
<1>1. CASE event = [type |-> "MOUSE_MOVE"]
  BY <1>1
<1>2. CASE event \in UserClicks
  <2>1. CASE event = [type |-> "MOUSE_CLICK", x |-> 0, y |-> 0]
    BY <2>1
  <2>2. CASE \E y \in ListRows : event = [type |-> "MOUSE_CLICK", x |-> 20, y |-> y]
    <3>1. PICK y \in ListRows : event = [type |-> "MOUSE_CLICK", x |-> 20, y |-> y]
      BY <2>2
    <3>2. y \in Int
      BY UserlandAssumption
    <3> QED
      BY <3>1, <3>2
  <2>3. CASE \E r \in 1..Len(s.elements) :
                LET e == s.elements[r]
                IN event = [type |-> "MOUSE_CLICK",
                            x |-> IF e.id % 2 = 0 THEN e.x ELSE e.x + e.width - 1,
                            y |-> IF e.id % 2 = 0 THEN e.y + e.height - 1 ELSE e.y]
    <3>1. PICK r \in 1..Len(s.elements) :
                LET e == s.elements[r]
                IN event = [type |-> "MOUSE_CLICK",
                            x |-> IF e.id % 2 = 0 THEN e.x ELSE e.x + e.width - 1,
                            y |-> IF e.id % 2 = 0 THEN e.y + e.height - 1 ELSE e.y]
      BY <2>3
    <3>2. PICK e, even : e = s.elements[r] /\ even = (e.id % 2 = 0)
      OBVIOUS
    <3>3. e.x \in Int /\ e.y \in Int /\ e.width \in Int /\ e.height \in Int
      <4>1. e \in ElementType
        BY <3>2 DEF IsUi, UiType
      <4> QED
        BY ONLY <4>1 DEF ElementType
    <3>4. PICK x, y : /\ x = IF e.id % 2 = 0 THEN e.x ELSE e.x + e.width - 1
                      /\ y = IF e.id % 2 = 0 THEN e.y + e.height - 1 ELSE e.y
      OBVIOUS
    <3>5. x \in Int /\ y \in Int
      BY <3>3, <3>4
    <3>6. event = [type |-> "MOUSE_CLICK", x |-> x, y |-> y]
      BY <3>1, <3>2, <3>4
    <3> QED
      BY <3>5, <3>6
  <2> QED
    BY <1>2, <2>1, <2>2, <2>3 DEF UserClicks
<1>3. CASE program = "form" /\ \E k \in Keys : event = [type |-> "KEY_PRESS", key |-> k]
  BY <1>3
<1> QED
  BY <1>1, <1>2, <1>3 DEF UserInputs

LEMMA TakenIs ==
    ASSUME NEW t, IsUi(t), NEW event,
           \/ event.type = "MOUSE_MOVE"
           \/ event.type = "MOUSE_CLICK" /\ event.x \in Int /\ event.y \in Int
           \/ event.type = "KEY_PRESS" /\ event.key \in Nat
    PROVE  LET u == gui_process_event(t, event)
           IN  /\ IsUi(u) /\ ButEvents(t, u)
               /\ \E q \in Seq(EventType) : u.events = t.events \o q
               /\ event.type = "MOUSE_MOVE" => u.events = t.events
               /\ event.type = "MOUSE_CLICK" =>
                     u.events = t.events \o Sent(InOrder(Roots(t) \cap
                        {i \in 1..Len(t.elements) : gui_element_exists_in_position(
                             t.elements[i], event.x, event.y)}), Click(event.x, event.y))
               /\ event.type = "KEY_PRESS" =>
                     u.events = IF t.focused = NULL THEN t.events
                                ELSE t.events \o Sent(<<t.focused>>, KeyStroke(event.key))
<1>1. PICK u : u = gui_process_event(t, event)
  OBVIOUS
<1>2. t.events \in Seq(EventType) /\ <<>> \in Seq(EventType) /\ t.events = t.events \o <<>>
      /\ Len(t.elements) \in Nat
  BY DEF IsUi, UiType
<1>3. CASE event.type = "MOUSE_MOVE"
  <2>1. u = t
    BY <1>1, <1>3 DEF gui_process_event
  <2> QED
    BY <1>1, <1>2, <1>3, <2>1 DEF ButEvents
<1>4. CASE event.type = "MOUSE_CLICK"
  <2>1. PICK e, S : /\ e = Click(event.x, event.y)
                    /\ S = {i \in 1..Len(t.elements) : gui_element_exists_in_position(
                                 t.elements[i], event.x, event.y)}
    OBVIOUS
  <2>2. e \in EventType
    <3>1. event.x \in Int /\ event.y \in Int
      BY <1>4
    <3>2. "CLICKED" \in EventKinds /\ 0 \in Nat
      BY DEF EventKinds
    <3> QED
      BY <2>1, <3>1, <3>2, EventIsTyped
  <2>3. u = gui_event_push(t, e, S)
    BY <1>1, <1>4, <2>1 DEF gui_process_event, gui_process_event_mouse_click
  <2>4. /\ IsUi(u) /\ ButEvents(t, u)
        /\ u.events = t.events \o Sent(InOrder(Roots(t) \cap S), e)
    <3>1. LET v == gui_event_push(t, e, S)
          IN  /\ IsUi(v) /\ ButEvents(t, v)
              /\ v.events = t.events \o Sent(InOrder(Roots(t) \cap S), e)
      BY <2>2, PushToRoots
    <3> QED
      BY <2>3, <3>1
  <2>5. Sent(InOrder(Roots(t) \cap S), e) \in Seq(EventType)
    <3>1. Roots(t) \cap S \in SUBSET (1..Len(t.elements))
      BY <2>1
    <3>2. InOrder(Roots(t) \cap S) \in Seq(1..Len(t.elements))
      BY <1>2, <3>1, ElementsInOrder
    <3> QED
      BY <1>2, <2>2, <3>2, SentFor
  <2> QED
    BY <1>1, <1>4, <2>1, <2>4, <2>5
<1>5. CASE event.type = "KEY_PRESS"
  <2>1. CASE t.focused = NULL
    <3>1. u = t
      BY <1>1, <1>5, <2>1 DEF gui_process_event, gui_process_event_keypress
    <3> QED
      BY <1>1, <1>2, <1>5, <2>1, <3>1 DEF ButEvents
  <2>2. CASE t.focused # NULL
    <3>1. PICK e, targets : e = KeyStroke(event.key) /\ targets = <<t.focused>>
      OBVIOUS
    <3>2. e \in EventType
      <4>1. event.key \in Nat
        BY <1>5
      <4>2. "CLICKED" \in EventKinds /\ 0 \in Int
        BY DEF EventKinds
      <4> QED
        BY <3>1, <4>1, <4>2, EventIsTyped
    <3>3. targets \in Seq(1..Len(t.elements))
      <4>1. t.focused \in 1..Len(t.elements)
        BY <1>2, <2>2 DEF IsUi, NULL
      <4> QED
        BY <3>1, <4>1
    <3>4. u = Push(t, targets, e)
      BY <1>1, <1>5, <2>2, <3>1
         DEF gui_process_event, gui_process_event_keypress, gui_element_event_push
    <3>5. IsUi(u) /\ ButEvents(t, u) /\ u.events = t.events \o Sent(targets, e)
      <4>1. LET v == Push(t, targets, e)
            IN  IsUi(v) /\ ButEvents(t, v) /\ v.events = t.events \o Sent(targets, e)
        BY <3>2, <3>3, PushKeeps
      <4> QED
        BY <3>4, <4>1
    <3>6. Sent(targets, e) \in Seq(EventType)
      BY <1>2, <3>2, <3>3, SentFor
    <3> QED
      BY <1>1, <1>5, <2>2, <3>1, <3>5, <3>6
  <2> QED
    BY <2>1, <2>2
<1> QED
  BY <1>3, <1>4, <1>5

-----------------------------------------------------------------------------
(* Every state of a program *)

Running == pc \in {"redraw", "get", "process"}

UiInv ==
    /\ program \in {"calculator", "form", "blank"}
    /\ calls \in 0..TotalCalls[program]
    /\ pc \in {"main", "redraw", "get", "process", "left", "wild"}
    /\ IsUi(s) /\ Laid(program, calls, s)
    /\ pc = "main" => Making(program, calls, s)
    /\ Running => calls = TotalCalls[program]
    /\ pc = "process" => s.events # <<>>

LEMMA CallsAre == \A p \in {"calculator", "form", "blank"} : TotalCalls[p] \in Nat /\ TotalCalls[p] > 0
BY DEF TotalCalls

LEMMA UiInit == Init => UiInv
<1> SUFFICES ASSUME Init PROVE UiInv
  OBVIOUS
<1>1. program \in {"calculator", "form", "blank"} /\ pc = "main" /\ calls = 0
  BY UserlandAssumption DEF Init
<1>2. PICK recycled \in Nat : s = Start(recycled)
  BY UserlandAssumption DEF Init, NUL
<1>3. Making(program, 0, s)
  BY <1>1, <1>2, NothingMade
<1> QED
  BY <1>1, <1>3, CallsAre DEF UiInv, Making, Running

LEMMA LaidAgain ==
    ASSUME NEW p, NEW n \in Nat, NEW t, Laid(p, n, t), NEW u, u.elements = t.elements,
           u.list.element = t.list.element, u.field.element = t.field.element,
           t.field.element # NULL => u.field.max_allowed_len = t.field.max_allowed_len
    PROVE  Laid(p, n, u)
<1>1. CalculatorLaid(t, n) => CalculatorLaid(u, n)
  <2>1. t.field.element = 2 => u.field.max_allowed_len = t.field.max_allowed_len
    BY DEF NULL
  <2> QED
    BY <2>1 DEF CalculatorLaid
<1>2. FormLaid(t, n) => FormLaid(u, n)
  <2>1. t.field.element = 2 => u.field.max_allowed_len = t.field.max_allowed_len
    BY DEF NULL
  <2>2. n > 1 => n > 0
    OBVIOUS
  <2> QED
    BY <2>1, <2>2 DEF FormLaid
<1>3. BlankLaid(t, n) => BlankLaid(u, n)
  BY DEF BlankLaid
<1> QED
  BY <1>1, <1>2, <1>3 DEF Laid

LEMMA KeptIsLaid ==
    ASSUME NEW p, NEW n \in Nat, NEW t, Laid(p, n, t), NEW u, Keeps(t, u)
    PROVE  Laid(p, n, u)
BY LaidAgain DEF Keeps

\* What is left of the pushes of a call.
Left(t, q, gone, p) ==
    /\ \A k \in 1..Len(p) : \E j \in Pushes(t, q) \ gone : p[k] = t.events[j]
    /\ \A j \in Pushes(t, q) \ gone : \E k \in 1..Len(p) : p[k] = t.events[j]
    /\ Pushes(t, q) \ gone = {} => p = <<>>
    /\ \A j : Pushes(t, q) \ gone = {j} => p = <<t.events[j]>>

LEMMA WithoutIs ==
    ASSUME NEW t, IsUi(t), NEW q \in Seq(EventType), NEW r \in Seq(EventType),
           t.events = q \o r, NEW gone \in SUBSET Pushes(t, q),
           NEW u, u = Without(t, q, gone)
    PROVE  /\ IsUi(u) /\ ButEvents(t, u)
           /\ \E p \in Seq(EventType) : Left(t, q, gone, p) /\ u.events = q \o p
<1>1. PICK n, m, S, kept, old : /\ n = Len(t.elements) /\ m = Len(t.events)
                                /\ S = Pushes(t, q) \ gone /\ kept = InOrder(S)
                                /\ old = t.events
  OBVIOUS
<1>2. old \in Seq(EventType) /\ EventsFor(old, n) /\ n \in Nat /\ m \in Nat
  BY <1>1 DEF IsUi, UiType
<1>3. /\ Len(q) \in Nat /\ m = Len(q) + Len(r) /\ Len(r) \in Nat
      /\ \A k \in 1..Len(q) : old[k] = q[k]
  BY <1>1, ConcatIs
<1>4. S \in SUBSET (1..m) /\ S \subseteq Nat
  BY <1>1, <1>3 DEF Pushes
<1>5. IsFiniteSet(S)
  <2>1. IsFiniteSet(1..m)
    BY <1>2, FS_Interval
  <2> QED
    BY <1>4, <2>1, FS_Subset
<1>6. kept \in Seq(S)
  BY <1>1, <1>4, <1>5, InOrderLists
<1>7. PICK p : p = [k \in 1..Len(kept) |-> old[kept[k]]]
  OBVIOUS
<1>8. \A k \in 1..Len(kept) : kept[k] \in S /\ p[k] = old[kept[k]]
  BY <1>6, <1>7
<1>9. p \in Seq(EventType) /\ Len(p) = Len(kept)
  <2>1. \A j \in S : old[j] \in EventType
    BY <1>1, <1>2, <1>4
  <2>2. p \in [1..Len(kept) -> EventType] /\ Len(kept) \in Nat
    BY <1>6, <1>7, <1>8, <2>1
  <2> QED
    BY <2>2
<1>10. EventsFor(p, n) /\ EventsFor(q, n)
  <2>1. \A j \in 1..m : old[j].element \in 1..n
    BY <1>1, <1>2 DEF EventsFor
  <2>2. \A k \in 1..Len(p) : p[k].element \in 1..n
    BY <1>4, <1>8, <1>9, <2>1
  <2>3. \A k \in 1..Len(q) : k \in 1..m
    BY <1>3
  <2>4. \A k \in 1..Len(q) : q[k].element \in 1..n
    BY <1>3, <2>1, <2>3
  <2> QED
    BY <2>2, <2>4 DEF EventsFor
<1>11. u = [t EXCEPT !.events = q \o p]
  BY <1>1, <1>7 DEF Without
<1>12. IsUi(u) /\ ButEvents(t, u) /\ u.events = q \o p
  <2>1. q \o p \in Seq(EventType)
    BY ONLY q \in Seq(EventType), <1>9, ConcatIs
  <2>2. EventsFor(q \o p, n)
    BY ONLY q \in Seq(EventType), <1>9, <1>10 DEF EventsFor
  <2> QED
    BY <1>1, <1>11, <2>1, <2>2, NewEvents
<1>13. Left(t, q, gone, p)
  <2>1. \A k \in 1..Len(p) : \E j \in S : p[k] = old[j]
    BY <1>8, <1>9
  <2>2. ASSUME NEW j \in S PROVE \E k \in 1..Len(p) : p[k] = old[j]
    <3>1. PICK k \in 1..Len(kept) : kept[k] = j
      BY <1>1, <1>2, <1>4, InOrderHasAll
    <3> QED
      BY <1>8, <1>9, <3>1
  <2>3. ASSUME S = {} PROVE p = <<>>
    <3>1. kept = <<>>
      BY <1>1, <2>3, InOrderEmpty
    <3> QED
      BY <1>7, <3>1
  <2>4. ASSUME NEW j, S = {j} PROVE p = <<old[j]>>
    <3>1. j \in Nat
      BY <1>4, <2>4
    <3>2. kept = <<j>>
      BY <1>1, <2>4, <3>1, InOrderOne
    <3> QED
      BY <1>7, <3>2
  <2> QED
    BY <1>1, <2>1, <2>2, <2>3, <2>4 DEF Left
<1> QED
  BY <1>9, <1>12, <1>13

\* A call that pushes nothing, or one event.
LEMMA WithoutNone ==
    ASSUME NEW t, IsUi(t), NEW q \in Seq(EventType), t.events = q,
           NEW gone \in SUBSET Pushes(t, q), NEW u, u = Without(t, q, gone)
    PROVE  /\ IsUi(u) /\ ButEvents(t, u) /\ u.events = q
           /\ gone = {} /\ Pushes(t, q) = {}
<1>1. Pushes(t, q) = {} /\ gone = {}
  <2>1. Len(q) \in Nat /\ Len(q) + 1..Len(q) = {}
    OBVIOUS
  <2> QED
    BY <2>1 DEF Pushes
<1>2. PICK r \in Seq(EventType) : r = <<>>
  <2>1. <<>> \in Seq(EventType)
    OBVIOUS
  <2> QED
    BY <2>1
<1>3. t.events = q \o r
  BY <1>2
<1>4. PICK p \in Seq(EventType) : Left(t, q, gone, p) /\ u.events = q \o p
  BY ONLY IsUi(t), q \in Seq(EventType), r \in Seq(EventType), <1>3,
          gone \in SUBSET Pushes(t, q), u = Without(t, q, gone), WithoutIs
<1>5. p = <<>>
  BY <1>1, <1>4 DEF Left
<1>6. IsUi(u) /\ ButEvents(t, u)
  BY <1>3, WithoutIs
<1> QED
  BY <1>1, <1>4, <1>5, <1>6

OneLeft(t, q, e, gone, u) ==
    \/ /\ gone = {} /\ u.events = t.events
       /\ Kinds(t, gone) = {} /\ Kinds(t, Pushes(t, q) \ gone) = {e.type}
    \/ /\ gone # {} /\ u.events = q
       /\ Kinds(t, gone) = {e.type} /\ Kinds(t, Pushes(t, q) \ gone) = {}

LEMMA WithoutOne ==
    ASSUME NEW t, IsUi(t), NEW q \in Seq(EventType), NEW e \in EventType,
           t.events = q \o <<e>>, NEW gone \in SUBSET Pushes(t, q),
           NEW u, u = Without(t, q, gone)
    PROVE  IsUi(u) /\ ButEvents(t, u) /\ OneLeft(t, q, e, gone, u)
<1>0. PICK n : n = Len(q) + 1
  OBVIOUS
<1>1. PICK r \in Seq(EventType) : r = <<e>>
  <2>1. <<e>> \in Seq(EventType)
    OBVIOUS
  <2> QED
    BY <2>1
<1>2. t.events = q \o r /\ Len(r) = 1 /\ r[1] = e
  BY <1>1
<1>3. Len(t.events) = n /\ t.events[n] = e /\ n \in Nat /\ n = Len(q) + 1
  <2>1. /\ Len(q \o r) = Len(q) + Len(r)
        /\ \A k \in Len(q) + 1..Len(q) + Len(r) : (q \o r)[k] = r[k - Len(q)]
    BY ConcatIs
  <2>2. n - Len(q) = 1 /\ n \in Len(q) + 1..Len(q) + Len(r)
    BY <1>0, <1>1, <1>2
  <2> QED
    BY <1>0, <1>1, <1>2, <2>1, <2>2
<1>4. Pushes(t, q) = {n}
  BY <1>3 DEF Pushes
<1>5. IsUi(u) /\ ButEvents(t, u)
  BY <1>2, WithoutIs
<1>6. PICK p \in Seq(EventType) : Left(t, q, gone, p) /\ u.events = q \o p
  BY <1>2, WithoutIs
<1>7. gone = {} \/ gone = {n}
  BY <1>4
<1>8. CASE gone = {}
  <2>1. p = r
    BY <1>1, <1>3, <1>4, <1>6, <1>8 DEF Left
  <2>2. Kinds(t, gone) = {} /\ Kinds(t, Pushes(t, q) \ gone) = {e.type}
    BY <1>3, <1>4, <1>8 DEF Kinds
  <2> QED
    BY <1>2, <1>5, <1>6, <1>8, <2>1, <2>2 DEF OneLeft
<1>9. CASE gone = {n}
  <2>1. p = <<>>
    BY <1>4, <1>6, <1>9 DEF Left
  <2>2. Kinds(t, gone) = {e.type} /\ Kinds(t, Pushes(t, q) \ gone) = {}
    BY <1>3, <1>4, <1>9 DEF Kinds
  <2>3. u.events = q /\ gone # {}
    BY <1>6, <1>9, <2>1
  <2> QED
    BY ONLY <1>5, <2>2, <2>3 DEF OneLeft
<1> QED
  BY <1>7, <1>8, <1>9

\* Which of the events of a call of main find no memory makes no difference to it.
LEMMA MadeWithout ==
    ASSUME NEW p, NEW n \in Nat, NEW t, Making(p, n, t),
           NEW gone \in SUBSET Pushes(t, <<>>), NEW u, u = Without(t, <<>>, gone)
    PROVE  Making(p, n, u) /\ u.recycled = t.recycled
<1>1. IsUi(t) /\ Laid(p, n, t)
  BY DEF Making
<1>2. PICK q \in Seq(EventType), r \in Seq(EventType) : q = <<>> /\ r = t.events
  <2>1. <<>> \in Seq(EventType) /\ t.events \in Seq(EventType)
    BY <1>1 DEF IsUi, UiType
  <2> QED
    BY <2>1
<1>3. /\ t.events = q \o r /\ Len(q) = 0
      /\ gone \in SUBSET Pushes(t, q) /\ u = Without(t, q, gone)
  BY <1>2
<1>4. IsUi(u) /\ ButEvents(t, u)
  BY ONLY <1>1, q \in Seq(EventType), r \in Seq(EventType), <1>3, WithoutIs
<1>5. PICK l \in Seq(EventType) : Left(t, q, gone, l) /\ u.events = q \o l
  BY ONLY <1>1, q \in Seq(EventType), r \in Seq(EventType), <1>3, WithoutIs
<1>6. u.events = l
  BY <1>2, <1>5
<1>7. t.events = <<>> => u.events = <<>>
  <2>1. ASSUME t.events = <<>> PROVE l = <<>>
    <3>1. Pushes(t, q) = {}
      <4>1. Len(<<>>) = 0 /\ 0 + 1..0 = {}
        OBVIOUS
      <4> QED
        BY <1>2, <2>1, <4>1 DEF Pushes
    <3> QED
      BY <1>5, <3>1 DEF Left
  <2> QED
    BY <1>6, <2>1
<1>8. IsFocusing(t.events) => IsFocusing(u.events)
  <2>1. ASSUME IsFocusing(t.events) PROVE IsFocusing(l)
    <3>1. \A j \in Pushes(t, q) : j \in 1..Len(t.events)
      BY <1>2, <1>3 DEF Pushes
    <3>2. \A k \in 1..Len(l) : l[k].type \in {"FOCUSED", "UNFOCUSED"}
      BY <1>5, <2>1, <3>1 DEF Left, IsFocusing
    <3> QED
      BY <3>2 DEF IsFocusing
  <2> QED
    BY <1>6, <2>1
<1>9. Laid(p, n, u)
  BY <1>1, <1>4, LaidAgain DEF ButEvents
<1> QED
  BY <1>4, <1>7, <1>8, <1>9 DEF Making, ButEvents

LEMMA MakeOneIs ==
    ASSUME UiInv, MakeOne
    PROVE  Making(program, calls', s') /\ s'.recycled = s.recycled
<1>1. /\ program \in {"calculator", "form", "blank"} /\ calls \in Nat
      /\ calls < TotalCalls[program] /\ Making(program, calls, s) /\ calls' = calls + 1
  BY CallsAre DEF UiInv, MakeOne, Call
<1>0. PICK made, gone : /\ made = main(s, calls + 1) /\ gone \in SUBSET Pushes(made, s.events)
                        /\ s' = Without(made, s.events, gone)
  BY DEF MakeOne, Pushed
<1>5. ASSUME Making(program, calls + 1, made), made.recycled = s.recycled
      PROVE  Making(program, calls', s') /\ s'.recycled = s.recycled
  <2>1. s.events = <<>>
    <3>1. ~(program = "form" /\ calls = 4)
      BY <1>1 DEF TotalCalls
    <3> QED
      BY <1>1, <3>1 DEF Making
  <2>2. PICK n \in Nat : n = calls + 1
    BY <1>1
  <2>3. /\ gone \in SUBSET Pushes(made, <<>>) /\ s' = Without(made, <<>>, gone)
        /\ Making(program, n, made)
    BY <1>0, <1>5, <2>1, <2>2
  <2>4. Making(program, n, s') /\ s'.recycled = made.recycled
    BY ONLY <2>3, n \in Nat, MadeWithout
  <2> QED
    BY <1>1, <1>5, <2>2, <2>4
<1>2. CASE program = "calculator"
  <2>1. calls \in 0..16
    BY <1>1, <1>2 DEF TotalCalls
  <2>2. made = calculator_main(s, calls + 1)
    BY <1>0, <1>2 DEF main
  <2> QED
    BY <1>1, <1>2, <1>5, <2>1, <2>2, CalculatorMakes
<1>3. CASE program = "form"
  <2>1. calls \in 0..3
    BY <1>1, <1>3 DEF TotalCalls
  <2>2. made = form_main(s, calls + 1)
    BY <1>0, <1>3 DEF main
  <2> QED
    BY <1>1, <1>3, <1>5, <2>1, <2>2, FormMakes
<1>4. CASE program = "blank"
  <2>1. calls \in 0..4
    BY <1>1, <1>4 DEF TotalCalls
  <2>2. made = blank_main(s, calls + 1)
    BY <1>0, <1>4 DEF main
  <2> QED
    BY <1>1, <1>4, <1>5, <2>1, <2>2, BlankMakes
<1> QED
  BY <1>1, <1>2, <1>3, <1>4

\* One round of gui_process changes no element.
LEMMA RedrawnIs ==
    ASSUME NEW t, IsUi(t)
    PROVE  LET u == [t EXCEPT !.must_draw = FALSE]
           IN  /\ IsUi(u) /\ ButField(t, u) /\ u.field = t.field /\ u.must_draw = FALSE
               /\ u.wild = t.wild /\ u.recycled = t.recycled
<1>1. PICK u : u = [t EXCEPT !.must_draw = FALSE]
  OBVIOUS
<1>2. t \in UiType
  BY DEF IsUi
<1>3. /\ u \in UiType /\ ButField(t, u) /\ u.field = t.field /\ u.must_draw = FALSE
      /\ u.wild = t.wild /\ u.recycled = t.recycled
  BY ONLY <1>1, <1>2 DEF UiType, ButField
<1>4. IsUi(u)
  BY <1>3 DEF IsUi, ButField
<1> QED
  BY <1>1, <1>3, <1>4

\* The event is taken, and the pushes in gone find no memory.
TakenAs(event, taken, gone) ==
    /\ taken = gui_process_event(s, event) /\ gone \in SUBSET Pushes(taken, s.events)
    /\ Pushed(taken, s.events, gone)
    /\ IF EntryLost(taken, gone) THEN UNCHANGED <<expect, typing>> ELSE Expect(event)
    /\ \/ event.type = "MOUSE_MOVE"
       \/ event.type = "MOUSE_CLICK" /\ event.x \in Int /\ event.y \in Int
       \/ event.type = "KEY_PRESS" /\ event.key \in Nat /\ program = "form"

LEMMA EventTaken ==
    ASSUME UiInv, gui_process_events
    PROVE  \E event \in UserInputs : \E taken, gone : TakenAs(event, taken, gone)
<1>1. PICK event, taken, gone :
           /\ event \in UserInputs
           /\ taken = gui_process_event(s, event) /\ gone \in SUBSET Pushes(taken, s.events)
           /\ Pushed(taken, s.events, gone)
           /\ IF EntryLost(taken, gone) THEN UNCHANGED <<expect, typing>> ELSE Expect(event)
  BY DEF gui_process_events
<1>2. \/ event.type = "MOUSE_MOVE"
      \/ event.type = "MOUSE_CLICK" /\ event.x \in Int /\ event.y \in Int
      \/ event.type = "KEY_PRESS" /\ event.key \in Keys /\ program = "form"
  BY <1>1, InputIs DEF UiInv
<1>3. \A k \in Keys : k \in Nat
  BY UserlandAssumption
<1> QED
  BY <1>1, <1>2, <1>3 DEF TakenAs

LEMMA TakenKeeps ==
    ASSUME IsUi(s), NEW event, NEW taken, NEW gone, TakenAs(event, taken, gone)
    PROVE  /\ IsUi(taken) /\ ButEvents(s, taken)
           /\ IsUi(s') /\ ButEvents(taken, s') /\ ButEvents(s, s')
           /\ \E p \in Seq(EventType) :
                 Left(taken, s.events, gone, p) /\ s'.events = s.events \o p
<1>1. PICK q, u : q = s.events /\ u = s'
  OBVIOUS
<1>2. /\ q \in Seq(EventType) /\ gone \in SUBSET Pushes(taken, q)
      /\ u = Without(taken, q, gone)
  BY <1>1 DEF TakenAs, Pushed, IsUi, UiType
<1>3. /\ IsUi(taken) /\ ButEvents(s, taken)
      /\ \E r \in Seq(EventType) : taken.events = q \o r
  BY <1>1, TakenIs DEF TakenAs
<1>4. PICK r \in Seq(EventType) : taken.events = q \o r
  BY <1>3
<1>5. IsUi(u) /\ ButEvents(taken, u)
  BY ONLY <1>2, <1>3, <1>4, r \in Seq(EventType), WithoutIs
<1>6. PICK p \in Seq(EventType) : Left(taken, q, gone, p) /\ u.events = q \o p
  <2>1. IsUi(taken) /\ taken.events = q \o r
    BY <1>3, <1>4
  <2> QED
    BY ONLY <1>2, <2>1, r \in Seq(EventType), WithoutIs
<1>7. ButEvents(s, u)
  BY ONLY <1>3, <1>5 DEF ButEvents
<1> QED
  BY ONLY <1>1, <1>3, <1>5, <1>6, <1>7, p \in Seq(EventType)

\* The newest event is handled, and the pushes in gone find no memory.
HandledAs(done, gone) ==
    /\ done = Dispatched(s) /\ gone \in SUBSET Pushes(done, Front(s.events))
    /\ Pushed(done, Front(s.events), gone)
    /\ expect' = IF EntryLost(done, gone) THEN before.text ELSE expect
    /\ typing' = IF EntryLost(done, gone) THEN before.typing ELSE typing
    /\ pc' # "wild" => ~done.wild

LEMMA EventHandled ==
    ASSUME UiInv, gui_element_events_process
    PROVE  /\ s.events # <<>> /\ IsUi(s) /\ Wired(s) /\ Keeps(Heard(s), Dispatched(s))
           /\ \E done, gone : HandledAs(done, gone)
<1>1. /\ IsUi(s) /\ Laid(program, calls, s) /\ s.events # <<>>
      /\ program \in {"calculator", "form", "blank"} /\ calls \in Nat
      /\ calls <= TotalCalls[program]
  BY CallsAre DEF UiInv, gui_element_events_process
<1>2. Wired(s)
  BY <1>1, LaidIsWired
<1>3. \E done, gone : HandledAs(done, gone)
  <2>1. PICK popped : popped = [s EXCEPT !.events = Front(@)]
    OBVIOUS
  <2>2. popped.events = Front(s.events)
    BY <1>1, <2>1 DEF IsUi, UiType
  <2>3. PICK done, gone :
           /\ done = Dispatched(s) /\ gone \in SUBSET Pushes(done, popped.events)
           /\ Pushed(done, popped.events, gone)
           /\ expect' = IF EntryLost(done, gone) THEN before.text ELSE expect
           /\ typing' = IF EntryLost(done, gone) THEN before.typing ELSE typing
           /\ pc' # "wild" => ~done.wild
    BY <2>1 DEF gui_element_events_process, Dispatched, Heard
  <2> QED
    BY <2>2, <2>3 DEF HandledAs
<1>4. Keeps(Heard(s), Dispatched(s))
  <2>1. PICK v, event : v = Heard(s) /\ event = Last(s.events)
    OBVIOUS
  <2>2. Keeps(v, Dispatched(s))
    BY <1>1, <1>2, <2>1, DispatchIs
  <2> QED
    BY <2>1, <2>2
<1> QED
  BY <1>1, <1>2, <1>3, <1>4

LEMMA HandledKeeps ==
    ASSUME IsUi(s), s.events # <<>>, NEW done, NEW gone, HandledAs(done, gone),
           Keeps(Heard(s), done)
    PROVE  /\ IsUi(s') /\ ButEvents(done, s')
           /\ \E r \in Seq(EventType) : done.events = Front(s.events) \o r
           /\ \E p \in Seq(EventType) :
                 Left(done, Front(s.events), gone, p) /\ s'.events = Front(s.events) \o p
<1>1. PICK q, u, v : q = Front(s.events) /\ u = s' /\ v = Heard(s)
  OBVIOUS
<1>2. /\ q \in Seq(EventType) /\ gone \in SUBSET Pushes(done, q)
      /\ u = Without(done, q, gone)
  BY <1>1, FrontIs DEF HandledAs, Pushed, IsUi, UiType
<1>3. v.events = q
  BY <1>1, HeardIs
<1>4. IsUi(done) /\ \E r \in Seq(EventType) : done.events = q \o r
  BY <1>1, <1>3 DEF Keeps
<1>5. PICK r \in Seq(EventType) : done.events = q \o r
  BY <1>4
<1>6. IsUi(u) /\ ButEvents(done, u)
  BY ONLY <1>2, <1>4, <1>5, r \in Seq(EventType), WithoutIs
<1>7. PICK p \in Seq(EventType) : Left(done, q, gone, p) /\ u.events = q \o p
  <2>1. IsUi(done) /\ done.events = q \o r
    BY <1>4, <1>5
  <2> QED
    BY ONLY <1>2, <2>1, r \in Seq(EventType), WithoutIs
<1> QED
  BY ONLY <1>1, <1>4, <1>6, <1>7, p \in Seq(EventType)

LEMMA UiNext == UiInv /\ [Next]_vars => UiInv'
<1> SUFFICES ASSUME UiInv, [Next]_vars PROVE UiInv'
  OBVIOUS
<1>1. /\ program \in {"calculator", "form", "blank"} /\ calls \in 0..TotalCalls[program]
      /\ IsUi(s) /\ Laid(program, calls, s) /\ TotalCalls[program] \in Nat
      /\ calls \in Nat
  BY CallsAre DEF UiInv
<1>2. CASE MakeOne
  <2>1. Making(program, calls', s')
    BY <1>2, MakeOneIs
  <2>2. program' = program /\ pc = "main" /\ pc' = "main" /\ calls' \in 0..TotalCalls[program]
    BY <1>1, <1>2 DEF MakeOne, Call
  <2> QED
    BY <1>1, <2>1, <2>2 DEF UiInv, Making, Running
<1>3. CASE MakeFails
  BY <1>1, <1>3 DEF MakeFails, UiInv, Running
<1>4. CASE AddFails
  <2>1. /\ program = "blank" /\ calls \in 1..4 /\ calls' = calls + 1 /\ s' = s
        /\ program' = program /\ pc = "main" /\ pc' = "main" /\ Making("blank", calls, s)
    BY <1>1, <1>4 DEF AddFails, Call, TotalCalls, UiInv
  <2>2. Making("blank", calls + 1, s)
    BY <2>1, BlankGoesOn
  <2>3. calls + 1 \in 0..TotalCalls["blank"]
    BY <2>1 DEF TotalCalls
  <2> QED
    BY <2>1, <2>2, <2>3 DEF UiInv, Making, Running
<1>5. CASE Ready
  BY <1>1, <1>5 DEF Ready, UiInv, Running
<1>6. CASE gui_redraw_if_required
  <2>1. /\ pc = "redraw" /\ pc' = "get" /\ s' = [s EXCEPT !.must_draw = FALSE]
        /\ program' = program /\ calls' = calls
    BY <1>6 DEF gui_redraw_if_required
  <2>2. IsUi(s') /\ ButField(s, s') /\ s'.field = s.field
    BY <1>1, <2>1, RedrawnIs
  <2>3. Laid(program, calls, s')
    BY <1>1, <2>2, LaidAgain DEF ButField
  <2> QED
    BY <1>1, <2>1, <2>2, <2>3 DEF UiInv, Running
<1>7. CASE NoEvent
  BY <1>1, <1>7 DEF NoEvent, UiInv, Running
<1>8. CASE gui_process_events
  <2>1. /\ pc = "get" /\ pc' \in {Pending(s'), "wild"}
        /\ program' = program /\ calls' = calls
    BY <1>8 DEF gui_process_events
  <2>2. PICK event, taken, gone : event \in UserInputs /\ TakenAs(event, taken, gone)
    BY <1>8, EventTaken
  <2>3. IsUi(s') /\ ButEvents(s, s')
    BY <1>1, <2>2, TakenKeeps
  <2>4. Laid(program, calls, s')
    BY <1>1, <2>3, LaidAgain DEF ButEvents
  <2> QED
    BY <1>1, <2>1, <2>3, <2>4 DEF UiInv, Running, Pending
<1>9. CASE gui_element_events_process
  <2>1. /\ pc = "process" /\ pc' \in {Pending(s'), "wild"}
        /\ program' = program /\ calls' = calls
    BY <1>9 DEF gui_element_events_process
  <2>2. PICK done, gone : HandledAs(done, gone)
    BY <1>9, EventHandled
  <2>3. PICK v : v = Heard(s)
    OBVIOUS
  <2>4. s.events # <<>> /\ Keeps(v, done) /\ v = Heard(s)
    BY <1>9, <2>2, <2>3, EventHandled DEF HandledAs
  <2>5. IsUi(s') /\ ButEvents(done, s')
    BY <1>1, <2>2, <2>4, HandledKeeps
  <2>6. Laid(program, calls, s')
    <3>1. v.elements = s.elements /\ v.field = s.field /\ v.list = s.list
      BY <1>1, <2>4, HeardIs
    <3>2. Laid(program, calls, v)
      BY <1>1, <3>1, LaidAgain
    <3>3. Laid(program, calls, done)
      BY ONLY <1>1, <2>4, <3>2, KeptIsLaid
    <3> QED
      BY <1>1, <2>5, <3>3, LaidAgain DEF ButEvents
  <2> QED
    BY <1>1, <2>1, <2>5, <2>6 DEF UiInv, Running, Pending
<1>10. CASE UNCHANGED vars
  BY <1>10 DEF vars, UiInv, Running
<1> QED
  BY <1>2, <1>3, <1>4, <1>5, <1>6, <1>7, <1>8, <1>9, <1>10 DEF Next

(* The library's data keep their shape, and the program's elements are     *)
(* those its main has made so far, where and for what it made them:        *)
(* whatever the user does and whichever calls of main fail.                *)
THEOREM UiAlways == Spec => []UiInv
<1>1. Init => UiInv
  BY UiInit
<1>2. UiInv /\ [Next]_vars => UiInv'
  BY UiNext
<1> QED
  BY <1>1, <1>2, PTL DEF Spec

-----------------------------------------------------------------------------
(* Drawing *)

LEMMA LastPixel ==
    ASSUME NEW w \in Nat \ {0}, NEW h \in Nat \ {0}
    PROVE  (h - 1) * w + (w - 1) < w * h
<1>1. (h - 1) * w = h * w - w
  OBVIOUS
<1>2. h * w = w * h /\ w * h \in Nat
  OBVIOUS
<1> QED
  BY <1>1, <1>2

(* No element draws past the pixels of its root, in any program with any   *)
(* width of the window: an element is as large as its root, and lies at    *)
(* its root's origin.                                                      *)
THEOREM NoPixelOutside == Spec => []PixelsStayInBuffer
<1>1. UiInv => PixelsStayInBuffer
  <2> SUFFICES ASSUME UiInv, NEW i \in 1..Len(s.elements)
               PROVE  gui_element_draw_pixel(s.elements[i], s.elements[i].width - 1,
                                             s.elements[i].height - 1)
                        < s.elements[i].real_width * s.elements[i].real_height
    BY DEF PixelsStayInBuffer
  <2>1. PICK e : e = s.elements[i]
    OBVIOUS
  <2>2. e \in ElementType /\ Stands(s.elements, i)
    BY <2>1 DEF UiInv, IsUi, UiType, Tree
  <2>3. PICK w, h : w = e.width /\ h = e.height
    OBVIOUS
  <2>4. w \in Nat \ {0} /\ h \in Nat \ {0}
    BY <2>2, <2>3 DEF ElementType
  <2>5. e.real_width = w /\ e.real_height = h /\ e.rel_root_x = 0 /\ e.rel_root_y = 0
    BY <2>1, <2>2, <2>3 DEF Stands
  <2>6. gui_element_draw_pixel(e, w - 1, h - 1) = (h - 1) * w + (w - 1)
    <3>1. h - 1 + 0 = h - 1 /\ w - 1 + 0 = w - 1
      BY <2>4
    <3> QED
      BY <2>5, <3>1 DEF gui_element_draw_pixel
  <2>7. (h - 1) * w + (w - 1) < w * h
    BY <2>4, LastPixel
  <2> QED
    BY <2>1, <2>3, <2>5, <2>6, <2>7
<1> QED
  BY <1>1, UiAlways, PTL

-----------------------------------------------------------------------------
(* What the window shows *)

LEMMA RootIs ==
    ASSUME NEW t, IsUi(t), NEW i \in 1..Len(t.elements)
    PROVE  gui_element_root(t, i) \in 1..Len(t.elements)
<1>1. PICK q, n : q = t.elements /\ n = Len(q)
  OBVIOUS
<1>2. n \in Nat /\ i \in 1..n
  BY <1>1 DEF IsUi, UiType
<1>3. \A e \in 1..n : q[e].parent # NULL => e - 1 \in 1..n /\ q[e].parent = e - 1
                                            /\ q[e - 1].parent = NULL
  <2> TAKE e \in 1..n
  <2>1. Stands(q, e)
    BY <1>1 DEF IsUi, Tree
  <2> QED
    BY <1>2, <2>1 DEF Stands
<1> DEFINE IsUp(f) == f = [e \in 1..n |-> IF q[e].parent = NULL THEN e ELSE f[q[e].parent]]
           up == CHOOSE f : IsUp(f)
<1>4. IsUp(up)
  <2>1. PICK f : f = [e \in 1..n |-> IF q[e].parent = NULL THEN e ELSE e - 1]
    OBVIOUS
  <2>2. \A e \in 1..n : q[e].parent # NULL => f[q[e].parent] = e - 1
    BY <1>3, <2>1
  <2>3. f = [e \in 1..n |-> IF q[e].parent = NULL THEN e ELSE f[q[e].parent]]
    BY <2>1, <2>2
  <2>4. \E g : IsUp(g)
    BY <2>3
  <2> HIDE DEF IsUp
  <2> QED
    BY <2>4
<1>5. gui_element_root(t, i) = up[i]
  BY <1>1 DEF gui_element_root
<1> HIDE DEF up
<1>6. up[i] \in 1..n
  <2>1. CASE q[i].parent = NULL
    BY <1>2, <1>4, <2>1
  <2>2. CASE q[i].parent # NULL
    <3>1. i - 1 \in 1..n /\ q[i].parent = i - 1 /\ q[i - 1].parent = NULL
      BY <1>2, <1>3, <2>2
    <3>2. up[i - 1] = i - 1
      BY <1>4, <3>1
    <3>3. up[i] = up[i - 1]
      BY <1>2, <1>4, <2>2, <3>1
    <3> QED
      BY <3>1, <3>2, <3>3
  <2> QED
    BY <2>1, <2>2
<1> QED
  BY <1>1, <1>5, <1>6

\* Every mark stays, so that a redraw draws everything.
LEMMA DrawnIs ==
    ASSUME NEW t, IsUi(t)
    PROVE  gui_redraw(t) = 1..Len(t.elements)
<1>1. ASSUME NEW i \in 1..Len(t.elements)
      PROVE  t.elements[gui_element_root(t, i)].redraw
  <2>1. PICK r \in 1..Len(t.elements) : r = gui_element_root(t, i)
    BY RootIs
  <2>2. t.elements[r] \in ElementType
    BY DEF IsUi, UiType
  <2>3. t.elements[r].redraw = TRUE
    BY <2>2 DEF ElementType
  <2> QED
    BY <2>1, <2>3
<1> QED
  BY <1>1 DEF gui_redraw

LEMMA FirstIsPlane ==
    ASSUME NEW p \in {"calculator", "form", "blank"}, NEW t, IsUi(t),
           Laid(p, TotalCalls[p], t)
    PROVE  /\ 1 \in 1..Len(t.elements) /\ 2 \in 1..Len(t.elements)
           /\ t.elements[1].parent = NULL /\ t.elements[1].handler = "plane"
           /\ p # "blank" => t.field.element = 2
           /\ p = "blank" => t.list.element = 2
<1>1. CASE p = "calculator"
  <2>1. CalculatorLaid(t, 17)
    BY <1>1 DEF Laid, TotalCalls
  <2>2. Len(t.elements) = 34 /\ BoxLaid(t.elements, 1) /\ t.field.element = 2
    BY <2>1 DEF CalculatorLaid
  <2>3. t.elements[1].parent = NULL /\ t.elements[1].handler = "plane"
    <3>1. 2 * 1 - 1 = 1
      OBVIOUS
    <3> QED
      BY <2>2, <3>1 DEF BoxLaid, Root
  <2> QED
    BY <1>1, <2>2, <2>3
<1>2. CASE p = "form"
  <2>1. FormLaid(t, 4)
    BY <1>2 DEF Laid, TotalCalls
  <2>2. Len(t.elements) = 3 /\ t.elements[1] = FieldRoot /\ t.field.element = 2
    BY <2>1 DEF FormLaid
  <2>3. t.elements[1].parent = NULL /\ t.elements[1].handler = "plane"
    BY <2>2 DEF FieldRoot, Root
  <2> QED
    BY <1>2, <2>2, <2>3
<1>3. CASE p = "blank"
  <2>1. BlankLaid(t, 5)
    BY <1>3 DEF Laid, TotalCalls
  <2>2. /\ Len(t.elements) = 2 /\ t.elements[1].parent = NULL
        /\ t.elements[1].handler = "plane" /\ t.list.element = 2
    BY <2>1 DEF BlankLaid
  <2> QED
    BY <1>3, <2>2
<1> QED
  BY <1>1, <1>2, <1>3

FocusKinds == {"FOCUSED", "UNFOCUSED"}

(* While no redraw is owed the window shows the state, but for a text that *)
(* was cleared and a focus whose events are still to be handled or lost.   *)
Current(sh, t, l) ==
    /\ program # "blank" => sh.text = CString(t.field.text) \/ CString(t.field.text) = <<>>
    /\ program = "blank" => sh.selected = t.list.selected_index
    /\ sh.focused = t.focused \/ Waits(t.events, 1) \/ l \cap FocusKinds # {}

CurrentInv == Running /\ ~s.must_draw => Current(shown, s, lost)

\* An event that waits is still there after the call, or it is noted as lost.
LEMMA WaitsLeft ==
    ASSUME NEW t, NEW q \in Seq(EventType), NEW r \in Seq(EventType), t.events = q \o r,
           NEW gone \in SUBSET Pushes(t, q), NEW p \in Seq(EventType), Left(t, q, gone, p),
           NEW i, Waits(t.events, i)
    PROVE  Waits(q \o p, i) \/ Kinds(t, gone) \cap FocusKinds # {}
<1>1. PICK k \in 1..Len(t.events) :
           t.events[k].element = i /\ t.events[k].type \in FocusKinds
  BY DEF Waits, FocusKinds
<1>2. /\ Len(t.events) = Len(q) + Len(r) /\ Len(q) \in Nat /\ Len(r) \in Nat
      /\ \A j \in 1..Len(q) : t.events[j] = q[j]
  BY ConcatIs
<1>3. CASE k \in 1..Len(q)
  <2>1. Waits(q, i)
    BY <1>1, <1>2, <1>3 DEF Waits, FocusKinds
  <2> QED
    BY <2>1, WaitsOn
<1>4. CASE k \in gone
  BY <1>1, <1>4 DEF Kinds
<1>5. CASE k \in Pushes(t, q) \ gone
  <2>1. PICK j \in 1..Len(p) : p[j] = t.events[k]
    BY <1>5 DEF Left
  <2>2. Waits(p, i)
    BY <1>1, <2>1 DEF Waits, FocusKinds
  <2> QED
    BY <2>2, WaitsOn
<1>6. k \in 1..Len(q) \/ k \in Pushes(t, q)
  BY <1>2 DEF Pushes
<1> QED
  BY <1>3, <1>4, <1>5, <1>6

\* What is noted of the focus stays noted, until a redraw.
LEMMA FocusNoted ==
    ASSUME NEW t, NEW q, NEW gone, Pushed(t, q, gone),
           lost \cap FocusKinds # {} \/ Kinds(t, gone) \cap FocusKinds # {}
    PROVE  lost' \cap FocusKinds # {}
BY DEF Pushed, FocusKinds, Noted

LEMMA CurrentInit == Init => CurrentInv
BY DEF Init, CurrentInv, Running

LEMMA RedrawShows ==
    ASSUME UiInv, CurrentInv, gui_redraw_if_required
    PROVE  Current(shown', s', lost')
<1>1. /\ IsUi(s) /\ Laid(program, TotalCalls[program], s) /\ Running
      /\ program \in {"calculator", "form", "blank"}
  BY DEF UiInv, gui_redraw_if_required, Running
<1>2. IsUi(s') /\ ButField(s, s') /\ s'.field = s.field
  BY <1>1, RedrawnIs DEF gui_redraw_if_required
<1>3. CASE ~s.must_draw
  <2>1. shown' = shown /\ lost' = lost
    BY <1>3 DEF gui_redraw_if_required
  <2> QED
    BY <1>1, <1>2, <1>3, <2>1 DEF CurrentInv, Current, ButField
<1>4. CASE s.must_draw
  <2>1. PICK drawn : drawn = gui_redraw(s)
    OBVIOUS
  <2>2. /\ 1 \in drawn /\ 2 \in drawn
        /\ program # "blank" => s.field.element \in drawn
        /\ program = "blank" => s.list.element \in drawn
    BY <1>1, <2>1, DrawnIs, FirstIsPlane
  <2>3. shown' = [text |-> IF s.field.element \in drawn
                           THEN gui_element_textfield_text(s) ELSE shown.text,
                  selected |-> IF s.list.element \in drawn
                               THEN s.list.selected_index ELSE shown.selected,
                  focused |-> IF drawn # {} THEN s.focused ELSE shown.focused]
    BY <1>4, <2>1 DEF gui_redraw_if_required
  <2>4. /\ program # "blank" => shown'.text = CString(s.field.text)
        /\ program = "blank" => shown'.selected = s.list.selected_index
        /\ shown'.focused = s.focused
    BY <2>2, <2>3 DEF gui_element_textfield_text
  <2> QED
    BY <1>2, <2>4 DEF Current, ButField
<1> QED
  BY <1>3, <1>4

LEMMA HandlingShows ==
    ASSUME UiInv, CurrentInv, gui_element_events_process, ~s'.must_draw
    PROVE  Current(shown', s', lost')
<1>1. /\ IsUi(s) /\ Laid(program, TotalCalls[program], s) /\ Running
      /\ program \in {"calculator", "form", "blank"}
  BY DEF UiInv, gui_element_events_process, Running
<1>0. PICK u, gone : HandledAs(u, gone)
  BY EventHandled
<1>2. PICK t, v, event : t = s /\ v = Heard(s) /\ event = Last(s.events)
  OBVIOUS
<1>3. t.events # <<>> /\ IsUi(t) /\ Wired(t) /\ u = Dispatched(t) /\ Keeps(v, u)
  BY <1>0, <1>2, EventHandled DEF HandledAs
<1>a. /\ ButEvents(u, s')
      /\ \E r \in Seq(EventType) : u.events = Front(s.events) \o r
      /\ \E p \in Seq(EventType) :
            Left(u, Front(s.events), gone, p) /\ s'.events = Front(s.events) \o p
  BY <1>0, <1>2, <1>3, HandledKeeps
<1>4. /\ Redraws(v, u)
      /\ t.elements[event.element].handler = "plane"
         /\ event.type \in {"FOCUSED", "UNFOCUSED"} => u.must_draw = TRUE
  BY <1>2, <1>3, DispatchIs
<1>5. /\ IsUi(v) /\ v.elements = t.elements /\ v.focused = t.focused
      /\ v.must_draw = t.must_draw /\ v.field = t.field /\ v.list = t.list
      /\ v.events = Front(t.events)
  BY <1>2, <1>3, HeardIs
<1>6. u.must_draw \in BOOLEAN /\ u.must_draw # TRUE
  BY <1>2, <1>3, <1>a DEF Keeps, IsUi, UiType, ButEvents
<1>7. /\ u.must_draw = v.must_draw /\ u.list = v.list
      /\ u.field = v.field \/ CString(u.field.text) = <<>>
      /\ u.focused = v.focused \/ \A i \in Roots(v) : Waits(u.events, i)
  BY <1>4, <1>6 DEF Redraws
<1>8. Current(shown, t, lost) /\ shown' = shown /\ program' = program
  BY <1>1, <1>2, <1>5, <1>6, <1>7 DEF CurrentInv, gui_element_events_process
<1>9. /\ 1 \in 1..Len(t.elements) /\ t.elements[1].parent = NULL
      /\ t.elements[1].handler = "plane"
  BY <1>1, <1>2, FirstIsPlane
<1>10. shown.focused = u.focused \/ Waits(u.events, 1) \/ lost \cap FocusKinds # {}
  <2>1. CASE u.focused # v.focused
    <3>1. 1 \in Roots(v)
      BY <1>5, <1>9 DEF Roots, Children
    <3> QED
      BY <1>7, <2>1, <3>1
  <2>2. CASE u.focused = v.focused /\ Waits(t.events, 1)
    <3>1. t.events \in Seq(EventType) /\ Len(t.events) \in Nat
      BY <1>3 DEF IsUi, UiType
    <3>2. PICK k \in 1..Len(t.events) :
             t.events[k].element = 1 /\ t.events[k].type \in {"FOCUSED", "UNFOCUSED"}
      BY <2>2 DEF Waits
    <3>3. /\ Front(t.events) \in Seq(EventType) /\ Len(Front(t.events)) = Len(t.events) - 1
          /\ Last(t.events) = t.events[Len(t.events)]
          /\ \A j \in 1..Len(t.events) - 1 : Front(t.events)[j] = t.events[j]
      BY <1>3, <3>1, FrontIs
    <3>4. k # Len(t.events)
      BY <1>2, <1>4, <1>6, <1>9, <3>2, <3>3
    <3>5. Waits(v.events, 1)
      <4>1. k \in 1..Len(t.events) - 1
        BY <3>1, <3>2, <3>4
      <4> QED
        BY <1>5, <3>2, <3>3, <4>1 DEF Waits
    <3>6. PICK q \in Seq(EventType) : u.events = v.events \o q
      BY <1>3 DEF Keeps
    <3> QED
      BY <1>5, <3>3, <3>5, <3>6, WaitsOn
  <2>3. CASE u.focused = v.focused /\ ~Waits(t.events, 1)
    BY <1>5, <1>8, <2>3 DEF Current
  <2> QED
    BY <2>1, <2>2, <2>3
<1>11. /\ program # "blank" => shown.text = CString(u.field.text) \/ CString(u.field.text) = <<>>
       /\ program = "blank" => shown.selected = u.list.selected_index
  BY <1>5, <1>7, <1>8 DEF Current
<1>12. Waits(u.events, 1) => Waits(s'.events, 1) \/ Kinds(u, gone) \cap FocusKinds # {}
  <2>1. PICK q : q = Front(s.events)
    OBVIOUS
  <2>2. PICK r \in Seq(EventType) : u.events = q \o r
    BY <1>a, <2>1
  <2>3. PICK p \in Seq(EventType) : Left(u, q, gone, p) /\ s'.events = q \o p
    BY <1>a, <2>1
  <2>4. q \in Seq(EventType) /\ gone \in SUBSET Pushes(u, q)
    BY <1>0, <1>2, <1>3, <2>1, FrontIs DEF HandledAs, IsUi, UiType
  <2> QED
    BY <2>2, <2>3, <2>4, WaitsLeft
<1>13. lost \cap FocusKinds # {} \/ Kinds(u, gone) \cap FocusKinds # {} =>
           lost' \cap FocusKinds # {}
  BY <1>0, FocusNoted DEF HandledAs
<1>14. s'.focused = u.focused /\ s'.field = u.field /\ s'.list = u.list
  BY <1>a DEF ButEvents
<1> QED
  BY <1>8, <1>10, <1>11, <1>12, <1>13, <1>14 DEF Current

LEMMA CurrentNext == UiInv /\ CurrentInv /\ [Next]_vars => CurrentInv'
<1> SUFFICES ASSUME UiInv, CurrentInv, [Next]_vars PROVE CurrentInv'
  OBVIOUS
<1>1. CASE MakeOne \/ MakeFails \/ AddFails
  BY <1>1 DEF MakeOne, MakeFails, AddFails, Call, CurrentInv, Running
<1>2. CASE Ready
  <2>1. s.must_draw = TRUE /\ s' = s
    BY <1>2 DEF Ready, UiInv, Making
  <2> QED
    BY <2>1 DEF CurrentInv
<1>3. CASE gui_redraw_if_required
  <2>1. program' = program
    BY <1>3 DEF gui_redraw_if_required
  <2> QED
    BY <1>3, <2>1, RedrawShows DEF CurrentInv, Current
<1>4. CASE NoEvent
  BY <1>4 DEF NoEvent, CurrentInv, Current, Running, ghosts
<1>5. CASE gui_process_events
  <2>1. pc = "get" /\ program' = program /\ shown' = shown
    BY <1>5 DEF gui_process_events
  <2>2. PICK event, taken, gone : event \in UserInputs /\ TakenAs(event, taken, gone)
    BY <1>5, EventTaken
  <2>3. IsUi(s)
    BY DEF UiInv
  <2>4. ButEvents(s, s') /\ \E q \in Seq(EventType) : s'.events = s.events \o q
    BY <2>2, <2>3, TakenKeeps
  <2>6. lost \cap FocusKinds # {} => lost' \cap FocusKinds # {}
    BY <2>2, FocusNoted DEF TakenAs
  <2>5. Waits(s.events, 1) => Waits(s'.events, 1)
    <3>1. s.events \in Seq(EventType)
      BY <2>3 DEF IsUi, UiType
    <3> QED
      BY <2>4, <3>1, WaitsOn
  <2> QED
    BY <2>1, <2>4, <2>5, <2>6 DEF CurrentInv, Current, Running, ButEvents
<1>6. CASE gui_element_events_process
  <2>1. program' = program
    BY <1>6 DEF gui_element_events_process
  <2> QED
    BY <1>6, <2>1, HandlingShows DEF CurrentInv, Current
<1>7. CASE UNCHANGED vars
  BY <1>7 DEF vars, CurrentInv, Current, Running
<1> QED
  BY <1>1, <1>2, <1>3, <1>4, <1>5, <1>6, <1>7 DEF Next

(* When no redraw is owed the window shows what the program holds: the     *)
(* text, unless it was cleared, the selected item and, unless the events   *)
(* that tell of its change found no memory (event.c:290), the focus.       *)
THEOREM NothingStaleShown == Spec => []WindowIsCurrent
<1>1. Init => CurrentInv
  BY CurrentInit
<1>2. UiInv /\ CurrentInv /\ [Next]_vars => CurrentInv'
  BY CurrentNext
<1>3. CurrentInv => WindowIsCurrent
  <2> SUFFICES ASSUME CurrentInv, Idle, ~s.must_draw
               PROVE  Current(shown, s, lost) /\ ~Waits(s.events, 1)
    BY DEF WindowIsCurrent, Current, gui_element_textfield_text, FocusKinds
  <2>1. Running /\ s.events = <<>>
    BY DEF Idle, Running
  <2>2. ~Waits(<<>>, 1)
    <3>1. Len(<<>>) = 0 /\ \A k \in 1..0 : FALSE
      OBVIOUS
    <3> QED
      BY <3>1 DEF Waits
  <2> QED
    BY <2>1, <2>2 DEF CurrentInv
<1> QED
  BY <1>1, <1>2, <1>3, UiAlways, PTL DEF Spec

-----------------------------------------------------------------------------
(* The selection *)

Told(t, l) == t.elements[2].properties # <<>> =>
    t.printed = t.list.selected_index \/ "LISTAREA_ITEM_SELECTED" \in l

\* The only event of the list area test, if there is one.
Telling(t, l) ==
    \/ t.events = <<>> /\ Told(t, l)
    \/ \E e \in EventType : t.events = <<e>> /\ e.type = "CLICKED" /\ Told(t, l)
    \/ \E e \in EventType : /\ t.events = <<e>> /\ e.type = "LISTAREA_ITEM_SELECTED"
                            /\ e.element = 2 /\ e.value = t.list.selected_index

TellingInv == program = "blank" /\ Running =>
    Telling(s, lost) /\ (pc # "process" => s.events = <<>>)

\* A click that is lost changes nothing; the loss of a selection is noted.
LEMMA TellingLeft ==
    ASSUME NEW u, IsUi(u), Telling(u, lost), NEW gone \in SUBSET Pushes(u, <<>>),
           Pushed(u, <<>>, gone)
    PROVE  Telling(s', lost')
<1>1. PICK q \in Seq(EventType) : q = <<>>
  <2>1. <<>> \in Seq(EventType)
    OBVIOUS
  <2> QED
    BY <2>1
<1>2. PICK v, l : v = s' /\ l = lost'
  OBVIOUS
<1>3. /\ gone \in SUBSET Pushes(u, q) /\ v = Without(u, q, gone)
      /\ l = (Kinds(u, gone) \cap Noted)
               \cup (lost \ (Kinds(u, Pushes(u, q) \ gone) \cap {"LISTAREA_ITEM_SELECTED"}))
  BY <1>1, <1>2 DEF Pushed
<1>4. CASE u.events = <<>> /\ Told(u, lost)
  <2>1. ButEvents(u, v) /\ v.events = q /\ gone = {} /\ Pushes(u, q) = {}
    <3>1. u.events = q
      BY <1>1, <1>4
    <3> QED
      BY ONLY <1>3, <3>1, IsUi(u), q \in Seq(EventType), WithoutNone
  <2>2. l = lost
    BY <1>3, <2>1 DEF Kinds
  <2>3. v.events = <<>> /\ Told(v, l)
    BY <1>1, <1>4, <2>1, <2>2 DEF Told, ButEvents
  <2> QED
    BY <1>2, <2>3 DEF Telling
<1>5. ASSUME NEW e \in EventType, u.events = <<e>>
      PROVE  /\ ButEvents(u, v)
             /\ \/ v.events = <<e>> /\ Kinds(u, gone) = {}
                   /\ Kinds(u, Pushes(u, q) \ gone) = {e.type}
                \/ v.events = <<>> /\ Kinds(u, gone) = {e.type}
                   /\ Kinds(u, Pushes(u, q) \ gone) = {}
  <2>1. u.events = q \o <<e>>
    <3>1. <<>> \o <<e>> = <<e>>
      OBVIOUS
    <3> QED
      BY <1>1, <1>5, <3>1
  <2>2. /\ IsUi(v) /\ ButEvents(u, v)
        /\ \/ /\ gone = {} /\ v.events = u.events
              /\ Kinds(u, gone) = {} /\ Kinds(u, Pushes(u, q) \ gone) = {e.type}
           \/ /\ gone # {} /\ v.events = q
              /\ Kinds(u, gone) = {e.type} /\ Kinds(u, Pushes(u, q) \ gone) = {}
    <3>1. gone \in SUBSET Pushes(u, q) /\ v = Without(u, q, gone)
      BY <1>3
    <3>2. IsUi(v) /\ ButEvents(u, v)
      BY ONLY <2>1, <3>1, IsUi(u), q \in Seq(EventType), e \in EventType, WithoutOne
    <3>3. OneLeft(u, q, e, gone, v)
      BY ONLY <2>1, <3>1, IsUi(u), q \in Seq(EventType), e \in EventType, WithoutOne
    <3> QED
      BY <3>2, <3>3 DEF OneLeft
  <2> QED
    BY ONLY <1>1, <1>5, <2>2
<1>6. ASSUME NEW e \in EventType, u.events = <<e>>, e.type = "CLICKED", Told(u, lost)
      PROVE  Telling(v, l)
  <2>1. PICK kept : kept = Kinds(u, Pushes(u, q) \ gone)
    OBVIOUS
  <2>2. /\ ButEvents(u, v) /\ v.events \in {<<e>>, <<>>}
        /\ kept \subseteq {"CLICKED"}
    BY <1>5, <1>6, <2>1
  <2>3. "LISTAREA_ITEM_SELECTED" \in lost => "LISTAREA_ITEM_SELECTED" \in l
    BY <1>3, <2>1, <2>2
  <2>4. Told(v, l)
    BY <1>6, <2>2, <2>3 DEF Told, ButEvents
  <2> QED
    BY <1>6, <2>2, <2>4 DEF Telling
<1>7. ASSUME NEW e \in EventType, u.events = <<e>>, e.type = "LISTAREA_ITEM_SELECTED",
             e.element = 2, e.value = u.list.selected_index
      PROVE  Telling(v, l)
  <2>1. ButEvents(u, v) /\ (v.events = <<e>> \/ v.events = <<>>)
    BY <1>5, <1>7
  <2>2. CASE v.events = <<e>>
    BY <1>7, <2>1, <2>2 DEF Telling, ButEvents
  <2>3. CASE v.events = <<>>
    <3>1. Kinds(u, gone) = {e.type}
      <4>1. <<e>> # <<>>
        OBVIOUS
      <4> QED
        BY <1>5, <1>7, <2>3, <4>1
    <3>2. "LISTAREA_ITEM_SELECTED" \in l
      BY <1>3, <1>7, <3>1 DEF Noted
    <3> QED
      BY <2>3, <3>2 DEF Telling, Told
  <2> QED
    BY <2>1, <2>2, <2>3
<1> QED
  BY <1>2, <1>4, <1>6, <1>7 DEF Telling

LEMMA OneSent ==
    ASSUME NEW S, S \subseteq {1} \/ S \subseteq {2}, NEW event \in EventType
    PROVE  LET q == <<>> \o Sent(InOrder(S), event)
           IN  q = <<>> \/ \E e \in EventType : q = <<e>> /\ e.type = event.type
<1>1. S = {} \/ S = {1} \/ S = {2}
  OBVIOUS
<1>2. CASE S = {}
  <2>1. Sent(InOrder(S), event) = <<>>
    BY <1>2, InOrderEmpty, SentToNone
  <2> QED
    BY <2>1
<1>3. ASSUME NEW i \in Nat, S = {i}
      PROVE  \E e \in EventType : <<>> \o Sent(InOrder(S), event) = <<e>> /\ e.type = event.type
  <2>1. InOrder(S) = <<i>>
    BY <1>3, InOrderOne
  <2>2. PICK e : e = [event EXCEPT !.element = i]
    OBVIOUS
  <2>3. e \in EventType /\ e.type = event.type
    BY ONLY <2>2, event \in EventType, i \in Nat DEF EventType
  <2>4. Sent(InOrder(S), event) = <<e>>
    BY <2>1, <2>2, SentToOne
  <2>5. <<>> \o <<e>> = <<e>>
    OBVIOUS
  <2> QED
    BY <2>3, <2>4, <2>5
<1> QED
  BY <1>1, <1>2, <1>3

LEMMA OneIsNone ==
    ASSUME NEW e \in EventType
    PROVE  /\ <<e>> # <<>> /\ Last(<<e>>) = e /\ Front(<<e>>) = <<>>
<1>1. <<e>> \in Seq(EventType) /\ <<e>> # <<>> /\ Len(<<e>>) = 1 /\ <<e>>[1] = e
  OBVIOUS
<1>2. /\ Front(<<e>>) \in Seq(EventType) /\ Last(<<e>>) = <<e>>[Len(<<e>>)]
      /\ Len(Front(<<e>>)) = Len(<<e>>) - 1
  BY <1>1, FrontIs
<1>3. Len(Front(<<e>>)) = 0
  BY <1>1, <1>2
<1> QED
  BY <1>1, <1>2, <1>3, EmptySeq

\* The plane and the list area answer, and pass the click on to the children.
LEMMA BlankDispatched ==
    ASSUME NEW t, NEW l, IsUi(t), BlankLaid(t, 5), Telling(t, l),
           t.events # <<>>
    PROVE  Telling(Dispatched(t), l) /\ Dispatched(t).wild = t.wild
<1>1. PICK e \in EventType : /\ t.events = <<e>>
                             /\ \/ e.type = "CLICKED" /\ Told(t, l)
                                \/ /\ e.type = "LISTAREA_ITEM_SELECTED"
                                   /\ e.element = 2 /\ e.value = t.list.selected_index
  BY DEF Telling
<1>2. Last(t.events) = e /\ Front(t.events) = <<>>
  BY <1>1, OneIsNone
<1>3. PICK v, u, h : v = Heard(t) /\ u = Dispatched(t) /\ h = event_handler(v, e)
  OBVIOUS
<1>4. /\ IsUi(v) /\ v.elements = t.elements /\ v.list = t.list /\ v.wild = t.wild
      /\ v.events = <<>> /\ e.element \in 1..Len(t.elements)
      /\ v.printed = IF t.elements[e.element].properties # <<>>
                        /\ e.type = "LISTAREA_ITEM_SELECTED"
                     THEN e.value ELSE t.printed
  BY <1>2, <1>3, HeardIs
<1>5. Told(v, l)
  <2>1. CASE e.type = "CLICKED"
    BY <1>1, <1>4, <2>1 DEF Told
  <2>2. CASE e.type = "LISTAREA_ITEM_SELECTED"
    BY <1>1, <1>4, <2>2 DEF Told
  <2> QED
    BY <1>1, <2>1, <2>2
<1>6. /\ Len(t.elements) = 2 /\ t.list.element = 2
      /\ t.elements[1].handler = "plane" /\ t.elements[2].handler = "listarea"
  BY DEF BlankLaid
<1>7. e.element = 1 \/ e.element = 2
  BY <1>4, <1>6
<1>8. ASSUME NEW w, IsUi(w), w.elements = t.elements, NEW x, x = Push(w, InOrder(Children(w, e.element)), e)
      PROVE  /\ IsUi(x) /\ ButEvents(w, x)
             /\ x.events = w.events \o Sent(InOrder(Children(w, e.element)), e)
             /\ Children(w, e.element) \subseteq {2}
             /\ e.element = 2 => Children(w, e.element) = {}
  <2>1. e.element \in 1..Len(w.elements) /\ Len(w.elements) = 2
    BY <1>4, <1>6, <1>8
  <2>2. /\ Children(w, e.element) \in SUBSET (1..Len(w.elements))
        /\ Children(w, e.element) = {} \/ (Children(w, e.element) = {e.element + 1}
                                            /\ e.element < Len(w.elements))
        /\ e.element = Len(w.elements) => Children(w, e.element) = {}
    BY <1>8, <2>1, ChildrenAre
  <2>3. PICK targets : targets = InOrder(Children(w, e.element))
    OBVIOUS
  <2>4. targets \in Seq(1..Len(w.elements))
    <3>1. PICK n \in Nat : n = Len(w.elements)
      BY <2>1
    <3> QED
      BY <2>2, <2>3, <3>1, ElementsInOrder
  <2>5. LET y == Push(w, targets, e)
        IN  IsUi(y) /\ ButEvents(w, y) /\ y.events = w.events \o Sent(targets, e)
    BY <1>8, <2>4, PushKeeps
  <2> QED
    BY <1>7, <1>8, <2>1, <2>2, <2>3, <2>5
<1>9. ASSUME h.res = "PROCESSED_CONTINUE_WITH_CHILDREN"
      PROVE  u = Push(h.s, InOrder(Children(h.s, e.element)), e)
  BY <1>2, <1>3, <1>9 DEF Dispatched, gui_element_call_event_handlers,
         gui_event_should_continue_propergating_childern, gui_event_propergate_through_children
<1>10. CASE ~(e.element = 2 /\ e.type = "CLICKED")
  <2>1. h = [res |-> "PROCESSED_CONTINUE_WITH_CHILDREN", s |-> v]
    <3>1. CASE e.element = 1
      BY <1>1, <1>3, <1>4, <1>6, <3>1 DEF event_handler, gui_element_plane_event_handler
    <3>2. CASE e.element = 2
      BY <1>1, <1>3, <1>4, <1>6, <1>10, <3>2 DEF event_handler, gui_element_listarea_event_handler
    <3> QED
      BY <1>7, <3>1, <3>2
  <2>2. u = Push(v, InOrder(Children(v, e.element)), e)
    BY <1>9, <2>1
  <2>3. /\ IsUi(u) /\ ButEvents(v, u)
        /\ u.events = v.events \o Sent(InOrder(Children(v, e.element)), e)
        /\ Children(v, e.element) \subseteq {2}
        /\ e.element = 2 => Children(v, e.element) = {}
    BY <1>4, <1>8, <2>2
  <2>4. Told(u, l) /\ u.wild = t.wild
    BY <1>4, <1>5, <2>3 DEF Told, ButEvents
  <2>5. CASE e.type = "CLICKED"
    <3>1. u.events = <<>> \/ \E d \in EventType : u.events = <<d>> /\ d.type = e.type
      <4>1. PICK S : S = Children(v, e.element)
        OBVIOUS
      <4>2. /\ S \subseteq {2} /\ v.events = <<>>
            /\ u.events = v.events \o Sent(InOrder(S), e)
        BY <1>4, <2>3, <4>1
      <4> QED
        <5>1. LET q == <<>> \o Sent(InOrder(S), e)
              IN  q = <<>> \/ \E d \in EventType : q = <<d>> /\ d.type = e.type
          BY ONLY <4>2, e \in EventType, OneSent
        <5> QED
          BY <4>2, <5>1
    <3> QED
      BY <1>3, <2>4, <2>5, <3>1 DEF Telling
  <2>6. CASE e.type # "CLICKED"
    <3>1. u.events = <<>>
      <4>1. Children(v, e.element) = {}
        BY <1>1, <2>3, <2>6
      <4>2. Sent(InOrder({}), e) = <<>>
        BY InOrderEmpty, SentToNone
      <4> QED
        BY <1>4, <2>3, <4>1, <4>2
    <3> QED
      BY <1>3, <2>4, <3>1 DEF Telling
  <2> QED
    BY <2>5, <2>6
<1>11. CASE e.element = 2 /\ e.type = "CLICKED"
  <2>1. PICK index : index = e.y \div gui_element_listarea_height_per_element
    OBVIOUS
  <2>2. index \in Int
    <3>1. e.y \in Int
      BY DEF EventType
    <3>2. gui_element_listarea_height_per_element \in Nat \ {0}
      BY TextfieldAssumption DEF gui_element_listarea_height_per_element
    <3> QED
      BY <2>1, <3>1, <3>2
  <2>3. PICK w : w = gui_element_listarea_select(v, index)
    OBVIOUS
  <2>4. h = [res |-> "PROCESSED_CONTINUE_WITH_CHILDREN", s |-> w]
    BY <1>3, <1>4, <1>6, <1>11, <2>1, <2>3
       DEF event_handler, gui_element_listarea_event_handler,
           gui_element_listarea_event_handler_click
  <2>5. \/ w = v
        \/ /\ Keeps(v, w) /\ w.wild = v.wild /\ w.list.selected_index = index
           /\ \E d \in EventType : /\ w.events = v.events \o <<d>>
                                   /\ d.type = "LISTAREA_ITEM_SELECTED"
                                   /\ d.element = v.list.element /\ d.value = index
    <3>1. v.list.element # NULL
      BY <1>4, <1>6 DEF NULL
    <3>2. LET y == gui_element_listarea_select(v, index)
          IN  \/ y = v
              \/ /\ Keeps(v, y) /\ y.must_draw = TRUE /\ y.focused = v.focused
                 /\ y.field = v.field /\ y.wild = v.wild
                 /\ y.list.selected_index = index
                 /\ \E d \in EventType : /\ y.events = v.events \o <<d>>
                                         /\ d.type = "LISTAREA_ITEM_SELECTED"
                                         /\ d.element = v.list.element /\ d.value = index
      BY <1>4, <2>2, <3>1, SelectIs
    <3> QED
      BY <2>3, <3>2
  <2>6. IsUi(w) /\ w.elements = t.elements /\ w.wild = t.wild
    BY <1>4, <2>5 DEF Keeps
  <2>7. u = Push(w, InOrder(Children(w, e.element)), e)
    BY <1>9, <2>4
  <2>8. ButEvents(w, u) /\ u.events = w.events \o Sent(InOrder({}), e)
    BY <1>8, <1>11, <2>6, <2>7
  <2>9. u.events = w.events
    <3>1. Sent(InOrder({}), e) = <<>> /\ w.events \in Seq(EventType)
      BY <2>6, InOrderEmpty, SentToNone DEF IsUi, UiType
    <3> QED
      BY <2>8, <3>1
  <2>10. CASE w = v
    BY <1>3, <1>4, <1>5, <2>6, <2>8, <2>9, <2>10 DEF Telling, Told, ButEvents
  <2>11. CASE w # v
    <3>1. PICK d \in EventType : /\ w.events = v.events \o <<d>>
                                 /\ d.type = "LISTAREA_ITEM_SELECTED"
                                 /\ d.element = v.list.element /\ d.value = index
                                 /\ w.list.selected_index = index
      BY <2>5, <2>11
    <3>2. w.events = <<d>>
      BY <1>4, <3>1
    <3> QED
      BY <1>3, <1>4, <1>6, <2>6, <2>8, <2>9, <3>1, <3>2, ZenonT(30) DEF Telling, ButEvents
  <2> QED
    BY <2>10, <2>11
<1> QED
  BY <1>10, <1>11

LEMMA TellingInit == Init => TellingInv
BY DEF Init, TellingInv, Running

LEMMA TellingNext == UiInv /\ TellingInv /\ [Next]_vars => TellingInv'
<1> SUFFICES ASSUME UiInv, TellingInv, [Next]_vars PROVE TellingInv'
  OBVIOUS
<1>1. CASE MakeOne \/ MakeFails \/ AddFails
  BY <1>1 DEF MakeOne, MakeFails, AddFails, Call, TellingInv, Running
<1>2. CASE Ready
  <2>1. SUFFICES ASSUME program = "blank" PROVE Telling(s, lost) /\ s.events = <<>>
    BY <1>2 DEF Ready, ghosts, TellingInv, Running, Telling, Told
  <2>2. Making("blank", calls, s) /\ calls = 5
    BY <1>2, <2>1 DEF Ready, UiInv, TotalCalls
  <2>3. s.events = <<>> /\ s.printed = NoItem /\ s.list.selected_index = NoItem
    BY <2>2 DEF Making
  <2> QED
    BY <2>3 DEF Telling, Told
<1>3. CASE gui_redraw_if_required
  <2>1. /\ pc = "redraw" /\ pc' = "get" /\ s' = [s EXCEPT !.must_draw = FALSE]
        /\ program' = program
        /\ "LISTAREA_ITEM_SELECTED" \in lost => "LISTAREA_ITEM_SELECTED" \in lost'
    BY <1>3 DEF gui_redraw_if_required
  <2>2. IsUi(s)
    BY DEF UiInv
  <2>3. ButField(s, s')
    BY <2>1, <2>2, RedrawnIs
  <2> QED
    BY <2>1, <2>3 DEF TellingInv, Running, Telling, Told, ButField
<1>4. CASE NoEvent
  BY <1>4 DEF NoEvent, ghosts, TellingInv, Running, Telling, Told
<1>5. CASE gui_process_events
  <2>1. pc = "get" /\ pc' \in {Pending(s'), "wild"} /\ program' = program
    BY <1>5 DEF gui_process_events
  <2>2. SUFFICES ASSUME program = "blank" PROVE Telling(s', lost')
    BY <2>1 DEF TellingInv, Pending, Running, Telling, Told
  <2>3. PICK event, u, gone : event \in UserInputs /\ TakenAs(event, u, gone)
    BY <1>5, EventTaken
  <2>4. IsUi(s) /\ Telling(s, lost) /\ s.events = <<>> /\ BlankLaid(s, 5)
    BY <2>1, <2>2 DEF UiInv, TellingInv, Running, Laid, TotalCalls
  <2>5. PICK t : t = s
    OBVIOUS
  <2>6. u = gui_process_event(t, event) /\ IsUi(u)
    BY <2>3, <2>4, <2>5, TakenKeeps DEF TakenAs
  <2>7. \/ event.type = "MOUSE_MOVE"
        \/ event.type = "MOUSE_CLICK" /\ event.x \in Int /\ event.y \in Int
    BY <2>2, <2>3 DEF TakenAs
  <2>13. SUFFICES Telling(u, lost)
    BY <2>3, <2>4, <2>6, TellingLeft DEF TakenAs
  <2>8. PICK S : S = Roots(t) \cap {i \in 1..Len(t.elements) : gui_element_exists_in_position(
                                        t.elements[i], event.x, event.y)}
    OBVIOUS
  <2>9. /\ ButEvents(t, u)
        /\ event.type = "MOUSE_MOVE" => u.events = t.events
        /\ event.type = "MOUSE_CLICK" =>
              u.events = t.events \o Sent(InOrder(S), Click(event.x, event.y))
    <3>1. LET v == gui_process_event(t, event)
          IN  /\ ButEvents(t, v)
              /\ event.type = "MOUSE_MOVE" => v.events = t.events
              /\ event.type = "MOUSE_CLICK" =>
                    v.events = t.events \o Sent(InOrder(Roots(t) \cap
                      {i \in 1..Len(t.elements) : gui_element_exists_in_position(
                         t.elements[i], event.x, event.y)}), Click(event.x, event.y))
      <4>1. /\ IsUi(t)
            /\ \/ event.type = "MOUSE_MOVE"
               \/ event.type = "MOUSE_CLICK" /\ event.x \in Int /\ event.y \in Int
               \/ event.type = "KEY_PRESS" /\ event.key \in Nat
        BY <2>4, <2>5, <2>7
      <4> QED
        BY ONLY <4>1, TakenIs
    <3> QED
      BY <2>6, <2>8, <3>1
  <2>10. Told(u, lost)
    <3>1. Told(t, lost)
      <4>1. \A e \in EventType : <<e>> # <<>>
        OBVIOUS
      <4> QED
        BY <2>4, <2>5, <4>1 DEF Telling
    <3> QED
      BY <2>9, <3>1 DEF Told, ButEvents
  <2>11. CASE event.type = "MOUSE_MOVE"
    BY <2>4, <2>5, <2>9, <2>10, <2>11 DEF Telling
  <2>12. CASE event.type = "MOUSE_CLICK" /\ event.x \in Int /\ event.y \in Int
    <3>1. Roots(t) \subseteq {1}
      <4>1. Len(t.elements) = 2 /\ t.elements[2].parent = 1
        BY <2>4, <2>5 DEF BlankLaid
      <4> QED
        BY <4>1 DEF Roots, Children, NULL
    <3>2. PICK e : e = Click(event.x, event.y)
      OBVIOUS
    <3>3. e \in EventType /\ e.type = "CLICKED"
      <4>1. "CLICKED" \in EventKinds /\ 0 \in Nat
        BY DEF EventKinds
      <4> QED
        BY <2>12, <3>2, <4>1, EventIsTyped
    <3>4. u.events = <<>> \/ \E d \in EventType : u.events = <<d>> /\ d.type = e.type
      <4>1. S \subseteq {1} \/ S \subseteq {2}
        BY <2>8, <3>1
      <4>2. u.events = t.events \o Sent(InOrder(S), e)
        BY <2>9, <2>12, <3>2
      <4>3. IsUi(t) /\ t.events = <<>>
        BY <2>4, <2>5
      <4> QED
        <5>1. LET q == <<>> \o Sent(InOrder(S), e)
              IN  q = <<>> \/ \E d \in EventType : q = <<d>> /\ d.type = e.type
          BY ONLY <3>3, <4>1, OneSent
        <5> QED
          BY <4>2, <4>3, <5>1
    <3> QED
      BY <2>5, <2>10, <3>3, <3>4 DEF Telling
  <2> QED
    BY <2>7, <2>11, <2>12
<1>6. CASE gui_element_events_process
  <2>1. /\ pc = "process" /\ pc' \in {Pending(s'), "wild"}
        /\ program' = program /\ s.events # <<>> /\ Keeps(Heard(s), Dispatched(s))
    BY <1>6, EventHandled DEF gui_element_events_process
  <2>2. SUFFICES ASSUME program = "blank" PROVE Telling(s', lost')
    BY <2>1 DEF TellingInv, Pending, Running, Telling, Told
  <2>3. IsUi(s) /\ Telling(s, lost) /\ BlankLaid(s, 5)
    BY <2>1, <2>2 DEF UiInv, TellingInv, Running, Laid, TotalCalls
  <2>4. Telling(Dispatched(s), lost)
    BY <2>1, <2>3, BlankDispatched
  <2>5. PICK done, gone : HandledAs(done, gone)
    BY <1>6, EventHandled
  <2>6. IsUi(done) /\ Telling(done, lost)
    BY <2>1, <2>4, <2>5 DEF HandledAs, Keeps
  <2>7. Front(s.events) = <<>>
    BY <2>1, <2>3, OneIsNone DEF Telling
  <2> QED
    BY <2>5, <2>6, <2>7, TellingLeft DEF HandledAs
<1>7. CASE UNCHANGED vars
  BY <1>7 DEF vars, TellingInv, Running, Telling, Told
<1> QED
  BY <1>1, <1>2, <1>3, <1>4, <1>5, <1>6, <1>7 DEF Next

(* The listener of the list area has printed the index that is selected    *)
(* whenever the events of the click are handled, unless the event that     *)
(* tells of it found no memory (event.c:290), for every font height, row   *)
(* that is clicked and number of items.                                    *)
THEOREM EverySelectionTold == Spec => []SelectionIsTold
<1>1. Init => TellingInv
  BY TellingInit
<1>2. UiInv /\ TellingInv /\ [Next]_vars => TellingInv'
  BY TellingNext
<1>3. UiInv /\ TellingInv => SelectionIsTold
  <2> SUFFICES ASSUME UiInv, TellingInv, Idle, program = "blank"
               PROVE  s.elements[s.list.element].properties # <<>> =>
                            \/ s.printed = s.list.selected_index
                            \/ "LISTAREA_ITEM_SELECTED" \in lost
    BY DEF SelectionIsTold
  <2>1. Running /\ s.events = <<>> /\ calls = 5
    BY DEF Idle, Running, UiInv, TotalCalls
  <2>2. s.list.element = 2
    BY <2>1 DEF UiInv, Laid, BlankLaid
  <2>3. Told(s, lost)
    <3>1. \A e \in EventType : <<e>> # <<>>
      OBVIOUS
    <3> QED
      BY <2>1, <3>1 DEF TellingInv, Telling
  <2> QED
    BY <2>2, <2>3 DEF Told
<1> QED
  BY <1>1, <1>2, <1>3, UiAlways, PTL DEF Spec

-----------------------------------------------------------------------------
(* The text *)

\* Where an event goes once its handler, which leaves w, has answered.
Passed(t, e, w, u) ==
    /\ IsUi(w) /\ w.elements = t.elements /\ w.recycled = t.recycled
    /\ ButEvents(w, u) /\ w.events \in Seq(EventType)
    /\ Children(t, e.element) = {} => u.events = w.events
    /\ \A c \in 1..Len(t.elements) : Children(t, e.element) = {c} =>
          u.events = w.events \o <<[e EXCEPT !.element = c]>>

\* An event is passed on to the child of its element, if there is one.
LEMMA DispatchedTo ==
    ASSUME NEW t, IsUi(t), Wired(t), t.events # <<>>,
           NEW e, e = Last(t.events),
           NEW w, w = event_handler(Heard(t), e).s, NEW u, u = Dispatched(t)
    PROVE  Passed(t, e, w, u)
<1>1. PICK v : v = Heard(t)
  OBVIOUS
<1>2. /\ IsUi(v) /\ v.elements = t.elements /\ v.recycled = t.recycled
      /\ v.field = t.field /\ v.list = t.list
      /\ e \in EventType /\ e.element \in 1..Len(t.elements)
  BY <1>1, HeardIs
<1>3. PICK h : h = event_handler(v, e)
  OBVIOUS
<1>4. h.res \in {"IGNORED", "PROCESSED_CONTINUE_WITH_CHILDREN"} /\ Keeps(v, h.s)
  <2>1. Wired(v) /\ e.element \in 1..Len(v.elements)
    BY <1>2 DEF Wired, WiredTo
  <2>2. LET handled == event_handler(v, e)
        IN  /\ handled.res \in {"IGNORED", "PROCESSED_CONTINUE_WITH_CHILDREN"}
            /\ Keeps(v, handled.s) /\ Owes(v, handled.s)
            /\ v.elements[e.element].handler = "plane"
               /\ e.type \in {"FOCUSED", "UNFOCUSED"} => handled.s.must_draw = TRUE
    BY <1>2, <2>1, HandlerIs
  <2> QED
    BY <1>3, <2>2
<1>5. IsUi(w) /\ w.elements = t.elements /\ w.recycled = t.recycled
  BY <1>1, <1>2, <1>3, <1>4 DEF Keeps
<1>6. PICK n \in Nat : n = Len(t.elements)
  BY DEF IsUi, UiType
<1>14. PICK C : C = Children(t, e.element)
  OBVIOUS
<1>7. C \in SUBSET (1..n) /\ Children(w, e.element) = C
  BY <1>5, <1>6, <1>14 DEF Children
<1>8. u = Push(w, InOrder(C), e)
  BY <1>1, <1>3, <1>4, <1>7
     DEF Dispatched, gui_element_call_event_handlers,
         gui_event_should_continue_propergating_childern, gui_event_propergate_through_children
<1>9. InOrder(C) \in Seq(1..Len(w.elements))
  BY <1>5, <1>6, <1>7, ElementsInOrder
<1>10. ButEvents(w, u) /\ u.events = w.events \o Sent(InOrder(C), e)
  <2>1. LET x == Push(w, InOrder(C), e)
        IN  ButEvents(w, x) /\ x.events = w.events \o Sent(InOrder(C), e)
    BY <1>2, <1>5, <1>9, PushKeeps
  <2> QED
    BY <1>8, <2>1
<1>11. w.events \in Seq(EventType)
  BY <1>5 DEF IsUi, UiType
<1>12. ASSUME C = {} PROVE u.events = w.events
  <2>1. Sent(InOrder(C), e) = <<>>
    BY <1>12, InOrderEmpty, SentToNone
  <2> QED
    BY <1>10, <1>11, <2>1
<1>13. ASSUME NEW c \in 1..Len(t.elements), C = {c}
       PROVE  u.events = w.events \o <<[e EXCEPT !.element = c]>>
  <2>1. c \in Nat
    BY <1>6
  <2>2. InOrder(C) = <<c>>
    BY <1>13, <2>1, InOrderOne
  <2>3. Sent(<<c>>, e) = <<[e EXCEPT !.element = c]>>
    BY <1>2, <2>1, SentToOne
  <2> QED
    BY <1>10, <2>2, <2>3
<1> QED
  BY <1>5, <1>10, <1>11, <1>12, <1>13, <1>14 DEF Passed

\* A copy of an event for another element.
LEMMA EventFor ==
    ASSUME NEW e \in EventType, NEW i \in Nat
    PROVE  LET d == [e EXCEPT !.element = i]
           IN  /\ d \in EventType /\ d.element = i /\ d.type = e.type /\ d.value = e.value
BY DEF EventType

-----------------------------------------------------------------------------
(* A click hits one button of the calculator *)

\* The number buttons of a row, and the operations, lie side by side.
LEMMA BoxPlace ==
    ASSUME NEW k \in 1..17
    PROVE  /\ Box(k).x \in Nat /\ Box(k).y \in Nat /\ Box(k).width \in Nat \ {0}
           /\ Box(k).x >= 10 /\ Box(k).y >= 10
           /\ k = 1 => Box(k).y = 10
           /\ k \in 2..12 =>
                 \E row \in 0..3, col \in 0..2 :
                    /\ k - 2 = 3 * row + col
                    /\ Box(k).x = 10 + col * (number_button_width + 10)
                    /\ Box(k).y = 70 + 60 * row /\ Box(k).width = number_button_width
           /\ k \in 13..17 =>
                 /\ Box(k).x = 10 + (k - 13) * (operations_button_width + 10)
                 /\ Box(k).y = 310 /\ Box(k).width = operations_button_width
<1>1. Box(k) \in BoxType
  BY BoxIs
<1>2. Box(k).x \in Nat /\ Box(k).y \in Nat /\ Box(k).width \in Nat \ {0}
  BY <1>1 DEF BoxType
<1>3. CASE k = 1
  BY <1>2, <1>3 DEF Box, padding
<1>4. CASE k \in 2..11
  <2>1. PICK j \in 1..10 : j = k - 1
    BY <1>4
  <2>2. PICK row, col : row = (j - 1) \div 3 /\ col = (j - 1) % 3
    OBVIOUS
  <2>3. row \in 0..3 /\ col \in 0..2 /\ j - 1 = 3 * row + col
    BY <2>1, <2>2, DigitButton
  <2>4. Box(k) = NumberButton(row, col, "digit", button_ids[j])
    BY <1>4, <2>1, <2>2, ButtonAt DEF Box
  <2>5. /\ Box(k).x = 10 + col * (number_button_width + 10) /\ Box(k).y = 70 + 60 * row
        /\ Box(k).width = number_button_width
    <3>1. row \in Nat /\ col \in Nat
      BY <2>3
    <3> QED
      BY <2>4, <3>1, NumberBox
  <2>6. Box(k).x >= 10
    <3>1. PICK w \in Nat : w = number_button_width
      BY Widths
    <3> QED
      BY <2>3, <2>5, <3>1
  <2>7. \E r \in 0..3, c \in 0..2 :
            /\ k - 2 = 3 * r + c
            /\ Box(k).x = 10 + c * (number_button_width + 10)
            /\ Box(k).y = 70 + 60 * r /\ Box(k).width = number_button_width
    <3>1. k - 2 = 3 * row + col
      BY <1>4, <2>1, <2>3
    <3> QED
      BY <2>3, <2>5, <3>1
  <2>8. Box(k).y >= 10
    BY <2>3, <2>5
  <2> QED
    BY <1>2, <1>4, <2>6, <2>7, <2>8, SMTT(30)
<1>5. CASE k = 12
  <2>1. Box(k) = NumberButton(3, 1, "delete", BUTTON_DELETE)
    BY <1>5, ButtonAt DEF Box
  <2>2. /\ Box(k).x = 10 + 1 * (number_button_width + 10) /\ Box(k).y = 70 + 60 * 3
        /\ Box(k).width = number_button_width
    BY <2>1, NumberBox
  <2>3. Box(k).x >= 10
    BY <2>2, Widths
  <2>4. \E r \in 0..3, c \in 0..2 :
            /\ k - 2 = 3 * r + c
            /\ Box(k).x = 10 + c * (number_button_width + 10)
            /\ Box(k).y = 70 + 60 * r /\ Box(k).width = number_button_width
    <3>1. k - 2 = 3 * 3 + 1 /\ 3 \in 0..3 /\ 1 \in 0..2
      BY <1>5
    <3> QED
      BY <2>2, <3>1
  <2>5. Box(k).y >= 10
    BY <2>2
  <2> QED
    BY <1>2, <1>5, <2>3, <2>4, <2>5, SMTT(30)
<1>6. CASE k \in 13..17
  <2>1. PICK j \in 12..16 : j = k - 1
    BY <1>6
  <2>2. PICK col \in 0..4 : col = j - 12 /\ col = k - 13
    BY <2>1
  <2>3. Box(k) = OperationButton(col, operations[j - 11])
    BY <1>6, <2>1, <2>2, ButtonAt DEF Box
  <2>4. /\ Box(k).x = 10 + col * (operations_button_width + 10) /\ Box(k).y = 310
        /\ Box(k).width = operations_button_width
    <3>1. PICK id : id = operations[j - 11]
      OBVIOUS
    <3>2. col \in Nat
      OBVIOUS
    <3>3. LET b == OperationButton(col, id)
          IN  /\ b.x = 10 + col * (operations_button_width + 10) /\ b.y = 310
              /\ b.width = operations_button_width
      BY <3>2, OperationBox
    <3> QED
      BY <2>3, <3>1, <3>3
  <2>5. Box(k).x >= 10
    <3>1. PICK w \in Nat : w = operations_button_width
      BY Widths
    <3> QED
      BY <2>2, <2>4, <3>1
  <2>6. Box(k).x = 10 + (k - 13) * (operations_button_width + 10)
    BY <2>2, <2>4
  <2>7. Box(k).y >= 10
    BY <2>4
  <2>8. k # 1 /\ k \notin 2..12
    BY <1>6
  <2> QED
    BY ONLY <1>2, <1>6, <2>4, <2>5, <2>6, <2>7, <2>8
<1> QED
  BY <1>3, <1>4, <1>5, <1>6

\* One column of buttons ends before the next begins.
LEMMA Columns ==
    ASSUME NEW a \in 0..4, NEW b \in 0..4, a < b, NEW w \in Nat
    PROVE  10 + a * (w + 10) + w < 10 + b * (w + 10)
<1> DEFINE Times(n) == CASE n = 0 -> 0 [] n = 1 -> w + 10 [] n = 2 -> 2 * w + 20
                         [] n = 3 -> 3 * w + 30 [] n = 4 -> 4 * w + 40
<1>1. ASSUME NEW n \in 0..4 PROVE n * (w + 10) = Times(n)
  <2>1. CASE n = 0
    BY <2>1
  <2>2. CASE n = 1
    BY <2>2
  <2>3. CASE n = 2
    BY <2>3
  <2>4. CASE n = 3
    BY <2>4
  <2>5. CASE n = 4
    BY <2>5
  <2> QED
    BY <2>1, <2>2, <2>3, <2>4, <2>5
<1>2. 10 + Times(a) + w < 10 + Times(b)
  OBVIOUS
<1> QED
  BY <1>1, <1>2

\* Two boxes do not even share an edge.
Apart(a, b) ==
    \/ a.y + 50 < b.y \/ b.y + 50 < a.y
    \/ a.x + a.width < b.x \/ b.x + b.width < a.x

\* No two boxes of the calculator touch.
LEMMA BoxesApart ==
    ASSUME NEW j \in 1..17, NEW k \in 1..17, j < k
    PROVE  Apart(Box(j), Box(k))
<1>1. /\ Box(j).y \in Nat /\ Box(k).y \in Nat
      /\ k \in 2..17 /\ (k \in 2..12 \/ k \in 13..17)
  BY BoxPlace
<1>2. CASE j = 1
  <2>1. Box(j).y = 10
    BY <1>2, BoxPlace
  <2>2. Box(k).y >= 70
    <3>1. CASE k \in 2..12
      BY <3>1, BoxPlace
    <3>2. CASE k \in 13..17
      BY <3>2, BoxPlace
    <3> QED
      BY <1>1, <3>1, <3>2
  <2> QED
    BY <1>1, <2>1, <2>2 DEF Apart
<1>3. CASE j \in 2..12 /\ k \in 2..12
  <2>1. PICK w \in Nat : w = number_button_width
    BY Widths
  <2>2. PICK r1 \in 0..3, c1 \in 0..2 :
              /\ j - 2 = 3 * r1 + c1
              /\ Box(j).x = 10 + c1 * (w + 10)
              /\ Box(j).y = 70 + 60 * r1 /\ Box(j).width = w
    BY <1>3, <2>1, BoxPlace
  <2>3. PICK r2 \in 0..3, c2 \in 0..2 :
              /\ k - 2 = 3 * r2 + c2
              /\ Box(k).x = 10 + c2 * (w + 10)
              /\ Box(k).y = 70 + 60 * r2 /\ Box(k).width = w
    BY <1>3, <2>1, BoxPlace
  <2>4. CASE r1 # r2
    <3>1. r1 < r2
      BY <2>2, <2>3, <2>4
    <3> QED
      BY <2>2, <2>3, <3>1 DEF Apart
  <2>5. CASE r1 = r2
    <3>1. c1 < c2
      BY <2>2, <2>3, <2>5
    <3>2. 10 + c1 * (w + 10) + w < 10 + c2 * (w + 10)
      BY <3>1, Columns
    <3> QED
      BY <2>2, <2>3, <3>2 DEF Apart
  <2> QED
    BY <2>4, <2>5
<1>4. CASE j \in 2..12 /\ k \in 13..17
  <2>1. Box(j).y <= 250
    BY <1>4, BoxPlace
  <2>2. Box(k).y = 310
    BY <1>4, BoxPlace
  <2> QED
    BY <1>1, <2>1, <2>2 DEF Apart
<1>5. CASE j \in 13..17 /\ k \in 13..17
  <2>1. PICK w \in Nat : w = operations_button_width
    BY Widths
  <2>2. PICK c1 \in 0..4, c2 \in 0..4 : c1 = j - 13 /\ c2 = k - 13
    BY <1>5
  <2>3. /\ Box(j).x = 10 + c1 * (w + 10) /\ Box(j).width = w
        /\ Box(k).x = 10 + c2 * (w + 10)
    BY <1>5, <2>1, <2>2, BoxPlace
  <2>4. c1 < c2
    BY <2>2
  <2> QED
    BY <2>3, <2>4, Columns DEF Apart
<1> QED
  BY <1>1, <1>2, <1>3, <1>4, <1>5

\* The roots that a click is for and those that are shown where it went.
HitAt(t, x, y) == Roots(t) \cap {i \in 1..Len(t.elements) :
    gui_element_exists_in_position(t.elements[i], x, y)}
ShownAt(t, x, y) == {r \in 1..Len(t.elements) :
    /\ t.elements[r].parent = NULL
    /\ x \in t.elements[r].x..t.elements[r].x + t.elements[r].width - 1
    /\ y \in t.elements[r].y..t.elements[r].y + t.elements[r].height - 1}

\* The point lies on the k-th box.
On(k, x, y) ==
    /\ x \in Box(k).x..Box(k).x + Box(k).width - 1
    /\ y \in Box(k).y..Box(k).y + 49

RootOf(t, i, j) ==
    /\ i = 2 * j - 1
    /\ t.elements[i].x = Box(j).x /\ t.elements[i].y = Box(j).y
    /\ t.elements[i].width = Box(j).width /\ t.elements[i].height = 50
    /\ t.elements[i].id = Box(j).id

\* The roots of the calculator are its boxes.
LEMMA RootIsBox ==
    ASSUME NEW t, CalculatorLaid(t, 17), NEW i \in 1..Len(t.elements),
           t.elements[i].parent = NULL
    PROVE  \E j \in 1..17 : RootOf(t, i, j)
<1>1. Len(t.elements) = 34 /\ i \in 1..34
  BY DEF CalculatorLaid
<1>2. PICK j \in 1..17 : i = 2 * j - 1 \/ i = 2 * j
  BY <1>1
<1>3. BoxLaid(t.elements, j)
  BY DEF CalculatorLaid
<1>4. i # 2 * j
  <2>1. t.elements[2 * j].parent = 2 * j - 1
    BY <1>3 DEF BoxLaid, Cover
  <2> QED
    BY <2>1 DEF NULL
<1>5. i = 2 * j - 1
  BY <1>2, <1>4
<1>6. PICK x, y, w, id : x = Box(j).x /\ y = Box(j).y /\ w = Box(j).width /\ id = Box(j).id
  OBVIOUS
<1>7. t.elements[i] = Root(x, y, w, 50, "plane", id)
  BY <1>3, <1>5, <1>6 DEF BoxLaid
<1> QED
  BY <1>2, <1>5, <1>6, <1>7 DEF Root, RootOf

\* Each box has its root, before its cover.
LEMMA BoxIsRoot ==
    ASSUME NEW t, CalculatorLaid(t, 17), NEW k \in 1..17
    PROVE  /\ 2 * k - 1 \in 1..Len(t.elements) /\ 2 * k \in 1..Len(t.elements)
           /\ t.elements[2 * k - 1].parent = NULL
           /\ t.elements[2 * k - 1].x = Box(k).x /\ t.elements[2 * k - 1].y = Box(k).y
           /\ t.elements[2 * k - 1].width = Box(k).width
           /\ t.elements[2 * k - 1].height = 50
           /\ t.elements[2 * k - 1].handler = "plane"
           /\ t.elements[2 * k - 1].id = Box(k).id
           /\ t.elements[2 * k].parent = 2 * k - 1
           /\ t.elements[2 * k].handler = Box(k).handler
           /\ t.elements[2 * k].id = Box(k).id
<1>1. Len(t.elements) = 34 /\ BoxLaid(t.elements, k)
  BY DEF CalculatorLaid
<1>2. 2 * k - 1 \in 1..34 /\ 2 * k \in 1..34
  OBVIOUS
<1> QED
  BY <1>1, <1>2 DEF BoxLaid, Root, Cover

\* A point on one box is not even at the edge of another.
LEMMA ApartFrom ==
    ASSUME NEW j \in 1..17, NEW k \in 1..17, j # k, NEW x \in Int, NEW y \in Int, On(k, x, y)
    PROVE  ~(x \in Box(j).x..Box(j).x + Box(j).width /\ y \in Box(j).y..Box(j).y + 50)
<1>1. /\ Box(j).x \in Nat /\ Box(j).y \in Nat /\ Box(j).width \in Nat
      /\ Box(k).x \in Nat /\ Box(k).y \in Nat /\ Box(k).width \in Nat
  BY BoxPlace
<1>2. Apart(Box(j), Box(k)) \/ Apart(Box(k), Box(j))
  <2>1. j < k \/ k < j
    OBVIOUS
  <2> QED
    BY <2>1, BoxesApart
<1> QED
  BY <1>1, <1>2 DEF Apart, On

\* A click at (x, y) is for the root r and no other.
OnlyHit(t, x, y, r) == HitAt(t, x, y) = {r} /\ ShownAt(t, x, y) = {r}

\* A click on a box is for its root and for no other.
LEMMA ClickOnBox ==
    ASSUME NEW t, CalculatorLaid(t, 17), NEW k \in 1..17,
           NEW x \in Int, NEW y \in Int, On(k, x, y), NEW r, r = 2 * k - 1
    PROVE  OnlyHit(t, x, y, r)
<1>1. /\ r \in 1..Len(t.elements) /\ t.elements[r].parent = NULL
      /\ t.elements[r].x = Box(k).x /\ t.elements[r].y = Box(k).y
      /\ t.elements[r].width = Box(k).width /\ t.elements[r].height = 50
  BY BoxIsRoot
<1>2. Box(k).x \in Nat /\ Box(k).y \in Nat /\ Box(k).width \in Nat
  BY BoxPlace
<1>3. /\ x >= 0 /\ y >= 0 /\ x \in Box(k).x..Box(k).x + Box(k).width
      /\ y \in Box(k).y..Box(k).y + 50 /\ 50 - 1 = 49
  BY <1>2 DEF On
<1>4. r \in HitAt(t, x, y)
  BY <1>1, <1>3 DEF HitAt, Roots, Children, gui_element_exists_in_position
<1>5. r \in ShownAt(t, x, y)
  <2>1. Box(k).y + 50 - 1 = Box(k).y + 49
    BY <1>2
  <2> QED
    BY <1>1, <2>1 DEF ShownAt, On
<1>6. ASSUME NEW i \in 1..Len(t.elements), t.elements[i].parent = NULL,
             x \in t.elements[i].x..t.elements[i].x + t.elements[i].width,
             y \in t.elements[i].y..t.elements[i].y + t.elements[i].height
      PROVE  i = r
  <2>1. PICK j \in 1..17 : RootOf(t, i, j)
    BY <1>6, RootIsBox
  <2>2. j = k
    BY <1>6, <2>1, ApartFrom DEF RootOf
  <2> QED
    BY <2>1, <2>2 DEF RootOf
<1>7. HitAt(t, x, y) \subseteq {r}
  BY <1>6 DEF HitAt, Roots, Children, gui_element_exists_in_position
<1>8. ShownAt(t, x, y) \subseteq {r}
  <2>1. ASSUME NEW i \in ShownAt(t, x, y) PROVE i = r
    <3>1. /\ i \in 1..Len(t.elements) /\ t.elements[i].parent = NULL
          /\ x \in t.elements[i].x..t.elements[i].x + t.elements[i].width - 1
          /\ y \in t.elements[i].y..t.elements[i].y + t.elements[i].height - 1
      BY DEF ShownAt
    <3>2. PICK j \in 1..17 : RootOf(t, i, j)
      BY <3>1, RootIsBox
    <3>3. Box(j).x \in Nat /\ Box(j).y \in Nat /\ Box(j).width \in Nat
      BY BoxPlace
    <3>4. /\ x \in t.elements[i].x..t.elements[i].x + t.elements[i].width
          /\ y \in t.elements[i].y..t.elements[i].y + t.elements[i].height
      <4>1. PICK a \in Nat, b \in Nat, w \in Nat :
                a = Box(j).x /\ b = Box(j).y /\ w = Box(j).width
        BY <3>3
      <4>2. x \in a..a + w - 1 /\ y \in b..b + 50 - 1
        BY <3>1, <3>2, <4>1 DEF RootOf
      <4>3. x \in a..a + w /\ y \in b..b + 50
        BY <4>2
      <4> QED
        BY <3>2, <4>1, <4>3 DEF RootOf
    <3> QED
      BY <1>6, <3>1, <3>4
  <2> QED
    BY <2>1
<1> QED
  BY <1>4, <1>5, <1>7, <1>8 DEF OnlyHit

\* A click in the corner of the window is for no element.
LEMMA ClickBeside ==
    ASSUME NEW t, CalculatorLaid(t, 17)
    PROVE  HitAt(t, 0, 0) = {} /\ ShownAt(t, 0, 0) = {}
<1>1. ASSUME NEW i \in 1..Len(t.elements), t.elements[i].parent = NULL
      PROVE  t.elements[i].x \in Nat /\ t.elements[i].x >= 10
  <2>1. PICK j \in 1..17 : t.elements[i].x = Box(j).x
    BY <1>1, RootIsBox DEF RootOf
  <2> QED
    BY <2>1, BoxPlace
<1>2. \A i \in 1..Len(t.elements) :
        t.elements[i].parent = NULL =>
           /\ 0 \notin t.elements[i].x..t.elements[i].x + t.elements[i].width
           /\ 0 \notin t.elements[i].x..t.elements[i].x + t.elements[i].width - 1
  BY <1>1
<1>3. HitAt(t, 0, 0) = {}
  BY <1>2 DEF HitAt, Roots, Children, gui_element_exists_in_position
<1>4. ShownAt(t, 0, 0) = {}
  BY <1>2 DEF ShownAt
<1> QED
  BY <1>3, <1>4

\* A click at a corner of a root is on its box.
LEMMA CornerIsOn ==
    ASSUME NEW t, CalculatorLaid(t, 17), NEW r \in 1..Len(t.elements),
           t.elements[r].parent = NULL, NEW right, NEW low, NEW x, NEW y,
           x = IF right THEN t.elements[r].x + t.elements[r].width - 1 ELSE t.elements[r].x,
           y = IF low THEN t.elements[r].y + t.elements[r].height - 1 ELSE t.elements[r].y
    PROVE  x \in Int /\ y \in Int /\ \E k \in 1..17 : On(k, x, y)
<1>1. PICK k \in 1..17 : RootOf(t, r, k)
  BY RootIsBox
<1>2. Box(k).x \in Nat /\ Box(k).y \in Nat /\ Box(k).width \in Nat \ {0}
  BY BoxPlace
<1>3. PICK a \in Nat, b \in Nat, w \in Nat \ {0} :
            a = Box(k).x /\ b = Box(k).y /\ w = Box(k).width
  BY <1>2
<1>4. x = IF right THEN a + w - 1 ELSE a
  BY <1>1, <1>3 DEF RootOf
<1>5. y = IF low THEN b + 50 - 1 ELSE b
  BY <1>1, <1>3 DEF RootOf
<1>6. x \in Int /\ x \in a..a + w - 1
  BY ONLY <1>3, <1>4
<1>7. y \in Int /\ y \in b..b + 49
  BY ONLY <1>3, <1>5
<1>8. On(k, x, y)
  BY <1>3, <1>6, <1>7 DEF On
<1> QED
  BY <1>1, <1>6, <1>7, <1>8

\* What the user of the calculator does.
LEMMA CalculatorInput ==
    ASSUME IsUi(s), program = "calculator", CalculatorLaid(s, 17), NEW event \in UserInputs
    PROVE  \/ event.type = "MOUSE_MOVE"
           \/ /\ event.type = "MOUSE_CLICK" /\ event.x \in Int /\ event.y \in Int
              /\ \/ event.x = 0 /\ event.y = 0
                 \/ \E k \in 1..17 : On(k, event.x, event.y)
<1>1. CASE event = [type |-> "MOUSE_MOVE"]
  BY <1>1
<1>2. CASE event \in UserClicks
  <2>1. CASE event = [type |-> "MOUSE_CLICK", x |-> 0, y |-> 0]
    BY <2>1
  <2>2. CASE \E r \in {r \in 1..Len(s.elements) :
                          /\ s.elements[r].parent = NULL
                          /\ program = "calculator" => s.elements[r].id \in Pressed} :
                LET e == s.elements[r]
                IN event = [type |-> "MOUSE_CLICK",
                            x |-> IF e.id % 2 = 0 THEN e.x ELSE e.x + e.width - 1,
                            y |-> IF e.id % 2 = 0 THEN e.y + e.height - 1 ELSE e.y]
    <3>1. PICK t : t = s /\ CalculatorLaid(t, 17)
      OBVIOUS
    <3>2. PICK r \in 1..Len(t.elements) :
                /\ t.elements[r].parent = NULL
                /\ LET e == t.elements[r]
                   IN event = [type |-> "MOUSE_CLICK",
                               x |-> IF e.id % 2 = 0 THEN e.x ELSE e.x + e.width - 1,
                               y |-> IF e.id % 2 = 0 THEN e.y + e.height - 1 ELSE e.y]
      BY <2>2, <3>1
    <3>3. PICK low, right : low = (t.elements[r].id % 2 = 0) /\ right = ~low
      OBVIOUS
    <3>4. PICK x, y :
             /\ x = IF right THEN t.elements[r].x + t.elements[r].width - 1 ELSE t.elements[r].x
             /\ y = IF low THEN t.elements[r].y + t.elements[r].height - 1 ELSE t.elements[r].y
      OBVIOUS
    <3>5. event = [type |-> "MOUSE_CLICK", x |-> x, y |-> y]
      BY <3>2, <3>3, <3>4
    <3>6. x \in Int /\ y \in Int /\ \E k \in 1..17 : On(k, x, y)
      <4>1. r \in 1..Len(t.elements) /\ t.elements[r].parent = NULL
        BY <3>2
      <4> QED
        BY <3>1, <3>4, <4>1, CornerIsOn
    <3> QED
      BY <3>5, <3>6
  <2> QED
    BY <1>2, <2>1, <2>2 DEF UserClicks
<1> QED
  BY <1>1, <1>2 DEF UserInputs

-----------------------------------------------------------------------------
(* What a press does to the text *)

Display(t, str) ==
    /\ str \in Seq(Symbols) /\ Stored(t.field, str, t.recycled)
    /\ Len(t.field.text) = TEXTFIELD_DEFAULT_BUFFER_SIZE

\* A text of the calculator's symbols stays one.
LEMMA AddedIs ==
    ASSUME NEW str \in Seq(Symbols), NEW c \in Symbols, NEW room
    PROVE  Added(str, c, room) \in Seq(Symbols)
BY AppendIs DEF Added

\* A character is added where the calculator has room for it.
LEMMA PutShows ==
    ASSUME NEW t, IsUi(t), t.field.element # NULL,
           t.field.max_allowed_len = TEXTFIELD_DEFAULT_BUFFER_SIZE,
           NEW str, Display(t, str), NEW c \in Symbols
    PROVE  LET u == gui_element_textfield_put_char(t, c)
           IN  Display(u, Added(str, c, DisplayRoom)) /\ u.events = t.events
<1>1. PICK u : u = gui_element_textfield_put_char(t, c)
  OBVIOUS
<1>2. c \in Nat /\ c \in Nat \ {NUL}
  BY SymbolsAre
<1>3. ButField(t, u)
  BY <1>1, <1>2, PutCharIs
<1>4. Stored(t.field, str, t.recycled) /\ str \in Seq(Symbols)
      /\ Len(t.field.text) = TEXTFIELD_DEFAULT_BUFFER_SIZE
  BY DEF Display
<1>5. Stored(u.field, Added(str, c, t.field.max_allowed_len - 1), t.recycled)
  BY <1>1, <1>2, <1>4, PutCharStores
<1>6. Len(u.field.text) = Len(t.field.text)
  <2>1. t.field.max_allowed_len <= Len(t.field.text)
    BY <1>4, TextfieldAssumption
  <2> QED
    BY <1>1, <1>2, <2>1, PutInPlace
<1>7. Added(str, c, DisplayRoom) \in Seq(Symbols)
  BY <1>4, AddedIs
<1>8. u.recycled = t.recycled /\ u.events = t.events
  BY <1>3 DEF ButField
<1>9. Display(u, Added(str, c, DisplayRoom))
  BY <1>4, <1>5, <1>6, <1>7, <1>8 DEF Display, DisplayRoom
<1> QED
  BY <1>1, <1>8, <1>9

\* The part of a text up to its length is the whole text.
LEMMA WholePart ==
    ASSUME NEW D, NEW q \in Seq(D)
    PROVE  SubSeq(q, 1, Len(q)) = q
<1>1. PICK p : p = SubSeq(q, 1, Len(q))
  OBVIOUS
<1>2. Len(q) \in Nat
  OBVIOUS
<1>3. p \in Seq(D) /\ Len(p) = Len(q) /\ \A k \in 1..Len(q) : p[k] = q[k]
  BY <1>1, <1>2, FirstOf
<1> QED
  BY <1>1, <1>3

\* The text that is shown is the text that is stored.
LEMMA DisplayIsShown ==
    ASSUME NEW t, IsUi(t), t.field.element # NULL, NEW str, Display(t, str)
    PROVE  gui_element_textfield_text(t) = str
<1>1. PICK f, junk : f = t.field /\ junk = t.recycled
  OBVIOUS
<1>2. /\ f.text \in Seq(Nat) /\ f.index \in Nat /\ f.index < Len(f.text)
  BY <1>1, FieldIs
<1>3. junk \in Nat
  BY <1>1 DEF IsUi, UiType
<1>4. Stored(f, str, junk) /\ Len(f.text) = TEXTFIELD_DEFAULT_BUFFER_SIZE
  BY <1>1 DEF Display
<1>5. \/ CString(f.text) = str
      \/ /\ junk # NUL /\ Len(f.text) > TEXTFIELD_DEFAULT_BUFFER_SIZE
         /\ IsPrefix(str, CString(f.text))
  BY <1>2, <1>3, <1>4, StoredIsShown
<1>6. ~(Len(f.text) > TEXTFIELD_DEFAULT_BUFFER_SIZE)
  BY <1>4, TextfieldAssumption
<1> QED
  BY <1>1, <1>5, <1>6 DEF gui_element_textfield_text

\* The equals button replaces the text by its value, or the program is lost.
LEMMA EqualsShows ==
    ASSUME NEW t, IsUi(t), t.field.element # NULL,
           t.field.max_allowed_len = TEXTFIELD_DEFAULT_BUFFER_SIZE,
           NEW str, Display(t, str)
    PROVE  LET u == calculator_equals(t)
           IN  u.wild = TRUE \/ (Display(u, itoa(Value(str))) /\ u.events = t.events)
<1>1. PICK u : u = calculator_equals(t)
  OBVIOUS
<1>2. PICK parsed : parsed = Parsed(str)
  OBVIOUS
<1>3. PICK result : result = calculator_result(parsed[Len(str)])
  OBVIOUS
<1>4. gui_element_textfield_text(t) = str
  BY DisplayIsShown
<1>5. /\ itoa(result) \in Texts
      /\ Overruns(str, parsed) \/ Traps(str, parsed) => u = [t EXCEPT !.wild = TRUE]
      /\ ~(Overruns(str, parsed) \/ Traps(str, parsed))
         => PutUpTo(t, itoa(result), Len(itoa(result)), u)
  <2>1. LET text == gui_element_textfield_text(t)
            made == Parsed(text)
            shownText == itoa(calculator_result(made[Len(text)]))
        IN  /\ shownText \in Texts
            /\ Overruns(text, made) \/ Traps(text, made)
               => calculator_equals(t) = [t EXCEPT !.wild = TRUE]
            /\ ~(Overruns(text, made) \/ Traps(text, made))
               => PutUpTo(t, shownText, Len(shownText), calculator_equals(t))
    BY EqualsIs
  <2> QED
    BY <1>1, <1>2, <1>3, <1>4, <2>1
<1>6. CASE Overruns(str, parsed) \/ Traps(str, parsed)
  <2>1. LET v == [t EXCEPT !.wild = TRUE]
        IN  /\ IsUi(v) /\ v.elements = t.elements /\ v.events = t.events
            /\ v.focused = t.focused /\ v.must_draw = t.must_draw /\ v.field = t.field
            /\ v.list = t.list /\ v.printed = t.printed /\ v.recycled = t.recycled
            /\ v.wild = TRUE
    BY WildIs
  <2> QED
    BY <1>1, <1>5, <1>6, <2>1
<1>7. CASE ~(Overruns(str, parsed) \/ Traps(str, parsed))
  <2>1. str \in Seq(Symbols)
    BY DEF Display
  <2>2. result = Value(str) /\ result \in Ints
    <3>1. ~Traps(str, Parsed(str))
      BY <1>2, <1>7
    <3>2. LET made == calculator_result(Parsed(str)[Len(str)])
          IN  made = Value(str) /\ made \in Ints
      BY <2>1, <3>1, TextEvaluates
    <3> QED
      BY <1>2, <1>3, <3>2
  <2>3. PICK text : text = itoa(result)
    OBVIOUS
  <2>4. /\ text \in Seq(Symbols) /\ text \in Seq(Nat \ {NUL})
        /\ Len(text) < TEXTFIELD_DEFAULT_BUFFER_SIZE
    <3>1. text \in Seq(Symbols)
      BY <1>5, <2>3 DEF Texts
    <3>2. Len(text) < TEXTFIELD_DEFAULT_BUFFER_SIZE
      BY <2>2, <2>3, ResultFits DEF Ints
    <3> QED
      BY <3>1, <3>2, SymbolsAre
  <2>5. PutUpTo(t, text, Len(text), u)
    BY <1>5, <1>7, <2>3
  <2>6. ButField(t, u)
    BY <2>5 DEF PutUpTo
  <2>7. Len(t.field.text) = TEXTFIELD_DEFAULT_BUFFER_SIZE
    BY DEF Display
  <2>8. /\ t.field.max_allowed_len <= Len(t.field.text)
        /\ Len(t.field.text) >= TEXTFIELD_DEFAULT_BUFFER_SIZE
    BY <2>7, TextfieldAssumption
  <2>9. Len(u.field.text) = TEXTFIELD_DEFAULT_BUFFER_SIZE
    BY <2>5, <2>7, <2>8 DEF PutUpTo
  <2>10. Stored(u.field, SubSeq(text, 1, Len(text)), t.recycled)
    BY <2>4, <2>5, <2>8 DEF PutUpTo
  <2>11. SubSeq(text, 1, Len(text)) = text
    BY <2>4, WholePart
  <2>12. u.recycled = t.recycled /\ u.events = t.events
    BY <2>6 DEF ButField
  <2>13. Display(u, text)
    BY <2>4, <2>9, <2>10, <2>11, <2>12 DEF Display
  <2> QED
    BY <1>1, <2>2, <2>3, <2>12, <2>13
<1> QED
  BY <1>6, <1>7

\* The reset button leaves the empty text.
LEMMA ResetShows ==
    ASSUME NEW t, IsUi(t), t.field.element # NULL, NEW str, Display(t, str)
    PROVE  LET u == calculator_reset(t) IN Display(u, <<>>) /\ u.events = t.events
<1>1. PICK u : u = calculator_reset(t)
  OBVIOUS
<1>2. u = gui_element_textfield_clear(t)
  BY <1>1, ResetOwes
<1>3. /\ ButField(t, u) /\ u.field.text = Blanks(Len(t.field.text), NUL)
  BY <1>2, ClearKeeps
<1>4. Len(t.field.text) = TEXTFIELD_DEFAULT_BUFFER_SIZE
  BY DEF Display
<1>5. Len(t.field.text) \in Nat /\ Len(t.field.text) >= TEXTFIELD_DEFAULT_BUFFER_SIZE
  BY <1>4, TextfieldAssumption
<1>6. Len(u.field.text) = TEXTFIELD_DEFAULT_BUFFER_SIZE
  BY <1>3, <1>4, <1>5, BlanksAre DEF NUL
<1>7. Stored(u.field, <<>>, t.recycled)
  BY <1>2, <1>5, ClearStores
<1>8. u.recycled = t.recycled /\ u.events = t.events
  BY <1>3 DEF ButField
<1>9. <<>> \in Seq(Symbols)
  OBVIOUS
<1>10. Display(u, <<>>)
  BY <1>6, <1>7, <1>8, <1>9 DEF Display
<1> QED
  BY <1>1, <1>8, <1>10

-----------------------------------------------------------------------------
(* The buttons of the calculator *)

OneOf(k) ==
    \/ Box(k).handler = "textfield" /\ Box(k).id = RESULT_TEXTFIELD
    \/ Box(k).handler = "digit" /\ Box(k).id \in 0..9
    \/ Box(k).handler = "operation" /\ Box(k).id \in DOMAIN OperatorOf
    \/ Box(k).handler = "operation" /\ Box(k).id = BUTTON_EQUALS
    \/ Box(k).handler = "delete" /\ Box(k).id = BUTTON_DELETE

\* A box is the display, a digit, an operator, the equals or the delete button.
LEMMA BoxIsOneOf == ASSUME NEW k \in 1..17 PROVE OneOf(k)
<1>1. PICK h, id : h = Box(k).handler /\ id = Box(k).id
  OBVIOUS
<1>2. h \in {"textfield", "digit", "operation", "delete"}
  BY <1>1, BoxIs DEF BoxType
<1>3. /\ h = "textfield" <=> k = 1
      /\ h = "digit" => id \in 0..9
      /\ h = "operation" => id \in DOMAIN OperatorOf \cup {BUTTON_EQUALS}
      /\ h = "delete" => id = BUTTON_DELETE
      /\ k = 1 => id = RESULT_TEXTFIELD
  BY <1>1, BoxIs
<1> QED
  BY <1>1, <1>2, <1>3 DEF OneOf

\* The names of the buttons are apart.
LEMMA PressIs ==
    ASSUME NEW str, NEW id
    PROVE  /\ id \in 0..9 => AfterPress(str, id) = Added(str, 48 + id, DisplayRoom)
           /\ id \in DOMAIN OperatorOf =>
                 AfterPress(str, id) = Added(str, OperatorOf[id], DisplayRoom)
           /\ id = BUTTON_EQUALS => AfterPress(str, id) = itoa(Value(str))
           /\ id = BUTTON_DELETE => AfterPress(str, id) = <<>>
           /\ id = RESULT_TEXTFIELD => AfterPress(str, id) = str
<1>1. DOMAIN OperatorOf = {1001, 1002, 1003, 1004}
  BY DEF OperatorOf, BUTTON_DIVIDE, BUTTON_MULTIPLY, BUTTON_ADD, BUTTON_SUBTRACT
<1>2. BUTTON_EQUALS = 1005 /\ BUTTON_DELETE = 1006 /\ RESULT_TEXTFIELD = 1000
  BY DEF BUTTON_EQUALS, BUTTON_DELETE, RESULT_TEXTFIELD
<1>3. CASE id \in 0..9
  <2>1. /\ id \notin DOMAIN OperatorOf /\ id # BUTTON_EQUALS /\ id # BUTTON_DELETE
        /\ id # RESULT_TEXTFIELD
    BY <1>1, <1>2, <1>3
  <2> QED
    BY ONLY <1>3, <2>1 DEF AfterPress
<1>4. CASE id \in DOMAIN OperatorOf
  <2>1. id \notin 0..9 /\ id # BUTTON_EQUALS /\ id # BUTTON_DELETE /\ id # RESULT_TEXTFIELD
    BY <1>1, <1>2, <1>4
  <2> QED
    BY ONLY <1>4, <2>1 DEF AfterPress
<1>5. CASE id = BUTTON_EQUALS
  <2>1. /\ id \notin DOMAIN OperatorOf /\ id \notin 0..9 /\ id # BUTTON_DELETE
        /\ id # RESULT_TEXTFIELD
    BY <1>1, <1>2, <1>5
  <2> QED
    BY ONLY <1>5, <2>1 DEF AfterPress
<1>6. CASE id = BUTTON_DELETE
  <2>1. /\ id \notin DOMAIN OperatorOf /\ id \notin 0..9 /\ id # BUTTON_EQUALS
        /\ id # RESULT_TEXTFIELD
    BY <1>1, <1>2, <1>6
  <2> QED
    BY ONLY <1>6, <2>1 DEF AfterPress
<1>7. CASE id = RESULT_TEXTFIELD
  <2>1. /\ id \notin DOMAIN OperatorOf /\ id \notin 0..9 /\ id # BUTTON_EQUALS
        /\ id # BUTTON_DELETE
    BY <1>1, <1>2, <1>7
  <2> QED
    BY ONLY <1>7, <2>1 DEF AfterPress
<1> QED
  BY <1>3, <1>4, <1>5, <1>6, <1>7

\* The handler of a box does to the text what the user expects of the press.
LEMMA PressShows ==
    ASSUME NEW t, IsUi(t), CalculatorLaid(t, 17), NEW str, Display(t, str),
           NEW e \in EventType, e.type = "CLICKED", NEW k \in 1..17, e.element = 2 * k
    PROVE  LET u == event_handler(t, e).s
           IN  u.wild = TRUE \/ (Display(u, AfterPress(str, Box(k).id)) /\ u.events = t.events)
<1>1. PICK id, u : id = Box(k).id /\ u = event_handler(t, e).s
  OBVIOUS
<1>2. t.elements[e.element].handler = Box(k).handler /\ t.elements[e.element].id = id
  <2>1. t.elements[2 * k].handler = Box(k).handler /\ t.elements[2 * k].id = Box(k).id
    BY BoxIsRoot
  <2> QED
    BY <1>1, <2>1
<1>3. /\ t.field.element = 2 /\ t.field.element # NULL
      /\ t.field.max_allowed_len = TEXTFIELD_DEFAULT_BUFFER_SIZE
  BY DEF CalculatorLaid, NULL
<1>4. str \in Seq(Symbols)
  BY DEF Display
<1>5. CASE Box(k).handler = "textfield" /\ id = RESULT_TEXTFIELD
  <2>1. u = t
    BY <1>1, <1>2, <1>5 DEF event_handler, gui_element_textfield_event_handler
  <2>2. AfterPress(str, id) = str
    BY <1>5, PressIs
  <2> QED
    BY <1>1, <2>1, <2>2
<1>6. CASE Box(k).handler = "digit" /\ id \in 0..9
  <2>1. u = gui_element_textfield_put_char(t, Head(itoa(id)))
    BY <1>1, <1>2, <1>6 DEF event_handler, numerical_button_event_handler, OnClick
  <2>2. Head(itoa(id)) = 48 + id /\ 48 + id \in Symbols
    <3>1. id \in Int
      BY <1>6
    <3>2. itoa(id) = <<48 + id>>
      BY <1>6, <3>1, ItoaIs
    <3> QED
      BY <1>6, <3>2, SymbolsAre
  <2>3. PICK c \in Symbols : c = 48 + id
    BY <2>2
  <2>4. LET v == gui_element_textfield_put_char(t, c)
        IN  Display(v, Added(str, c, DisplayRoom)) /\ v.events = t.events
    BY <1>3, PutShows
  <2>5. AfterPress(str, id) = Added(str, 48 + id, DisplayRoom)
    BY <1>6, PressIs
  <2> QED
    BY <1>1, <2>1, <2>2, <2>3, <2>4, <2>5
<1>7. CASE Box(k).handler = "operation" /\ id \in DOMAIN OperatorOf
  <2>1. id # BUTTON_EQUALS /\ OperatorOf[id] \in Operator
    BY <1>7, OperatorsOf
  <2>2. u = gui_element_textfield_put_char(t, OperatorOf[id])
    BY <1>1, <1>2, <1>7, <2>1
       DEF event_handler, mathimatical_operation_button_event_handler, OnClick
  <2>3. PICK c \in Symbols : c = OperatorOf[id]
    BY <2>1 DEF Symbols
  <2>4. LET v == gui_element_textfield_put_char(t, c)
        IN  Display(v, Added(str, c, DisplayRoom)) /\ v.events = t.events
    BY <1>3, PutShows
  <2>5. AfterPress(str, id) = Added(str, OperatorOf[id], DisplayRoom)
    BY <1>7, PressIs
  <2> QED
    BY <1>1, <2>2, <2>3, <2>4, <2>5
<1>8. CASE Box(k).handler = "operation" /\ id = BUTTON_EQUALS
  <2>1. u = calculator_equals(t)
    BY <1>1, <1>2, <1>8
       DEF event_handler, mathimatical_operation_button_event_handler, OnClick
  <2>2. LET v == calculator_equals(t)
        IN  v.wild = TRUE \/ (Display(v, itoa(Value(str))) /\ v.events = t.events)
    BY <1>3, EqualsShows
  <2>3. AfterPress(str, id) = itoa(Value(str))
    BY <1>8, PressIs
  <2> QED
    BY <1>1, <2>1, <2>2, <2>3
<1>9. CASE Box(k).handler = "delete" /\ id = BUTTON_DELETE
  <2>1. u = calculator_reset(t)
    BY <1>1, <1>2, <1>9 DEF event_handler, calculator_delete_button_event_handler, OnClick
  <2>2. LET v == calculator_reset(t) IN Display(v, <<>>) /\ v.events = t.events
    BY <1>3, ResetShows
  <2>3. AfterPress(str, id) = <<>>
    BY <1>9, PressIs
  <2> QED
    BY <1>1, <2>1, <2>2, <2>3
<1> QED
  BY <1>1, <1>5, <1>6, <1>7, <1>8, <1>9, BoxIsOneOf DEF OneOf

(* What is still to be handled accounts for what the text is not yet; were *)
(* it lost, the text would stay what it was before.                        *)
Entering(t, expected, old) ==
    \E str \in Seq(Symbols) :
        /\ Display(t, str)
        /\ \/ t.events = <<>> /\ expected = str
           \/ \E e \in EventType :
                 /\ t.events = <<e>> /\ e.type = "CLICKED" /\ old = str
                 /\ expected = AfterPress(str, t.elements[e.element].id)

\* A press that is lost leaves the account as it was before the press.
LEMMA EnteringLeft ==
    ASSUME NEW u, IsUi(u), NEW expected, NEW old, Entering(u, expected, old),
           NEW gone \in SUBSET Pushes(u, <<>>), NEW v, v = Without(u, <<>>, gone),
           NEW known, known = IF EntryLost(u, gone) THEN old ELSE expected,
           NEW new, v.events # <<>> => new = old
    PROVE  Entering(v, known, new)
<1>1. PICK str \in Seq(Symbols) :
          /\ Display(u, str)
          /\ \/ u.events = <<>> /\ expected = str
             \/ \E e \in EventType :
                   /\ u.events = <<e>> /\ e.type = "CLICKED" /\ old = str
                   /\ expected = AfterPress(str, u.elements[e.element].id)
  BY DEF Entering
<1>2. PICK q \in Seq(EventType) : q = <<>>
  <2>1. <<>> \in Seq(EventType)
    OBVIOUS
  <2> QED
    BY <2>1
<1>3. gone \in SUBSET Pushes(u, q) /\ v = Without(u, q, gone)
  BY <1>2
<1>4. CASE u.events = <<>> /\ expected = str
  <2>1. ButEvents(u, v) /\ v.events = q /\ gone = {}
    <3>1. u.events = q
      BY <1>2, <1>4
    <3> QED
      BY ONLY <1>3, <3>1, IsUi(u), q \in Seq(EventType), WithoutNone
  <2>2. known = str
    BY <1>4, <2>1 DEF EntryLost, Kinds
  <2>3. Display(v, str)
    BY <1>1, <2>1 DEF Display, ButEvents
  <2> QED
    BY <1>2, <2>1, <2>2, <2>3 DEF Entering
<1>5. ASSUME NEW e \in EventType, u.events = <<e>>, e.type = "CLICKED", old = str,
             expected = AfterPress(str, u.elements[e.element].id)
      PROVE  Entering(v, known, new)
  <2>1. u.events = q \o <<e>>
    <3>1. <<>> \o <<e>> = <<e>>
      OBVIOUS
    <3> QED
      BY <1>2, <1>5, <3>1
  <2>2. IsUi(v) /\ ButEvents(u, v) /\ OneLeft(u, q, e, gone, v)
    BY ONLY <1>3, <2>1, IsUi(u), q \in Seq(EventType), e \in EventType, WithoutOne
  <2>3. Display(v, str) /\ v.elements = u.elements
    BY <1>1, <2>2 DEF Display, ButEvents
  <2>4. CASE v.events = u.events /\ Kinds(u, gone) = {}
    <3>1. known = expected /\ v.events = <<e>> /\ <<e>> # <<>>
      BY <1>5, <2>4 DEF EntryLost
    <3> QED
      BY <1>5, <2>3, <3>1 DEF Entering
  <2>5. CASE v.events = q /\ Kinds(u, gone) = {e.type}
    <3>1. known = str
      BY <1>5, <2>5 DEF EntryLost, Entry
    <3> QED
      BY <1>2, <2>3, <2>5, <3>1 DEF Entering
  <2> QED
    BY <2>2, <2>4, <2>5 DEF OneLeft
<1> QED
  BY <1>1, <1>4, <1>5

\* Handling one event of the calculator keeps the account.
LEMMA CalculatorDispatched ==
    ASSUME NEW t, IsUi(t), CalculatorLaid(t, 17), NEW expected, NEW old,
           Entering(t, expected, old), t.events # <<>>, NEW u, u = Dispatched(t)
    PROVE  /\ u.wild = TRUE \/ Entering(u, expected, old)
           /\ Front(t.events) = <<>>
<1>1. PICK str \in Seq(Symbols) :
            /\ Display(t, str)
            /\ \E e \in EventType :
                 /\ t.events = <<e>> /\ e.type = "CLICKED" /\ old = str
                 /\ expected = AfterPress(str, t.elements[e.element].id)
  BY DEF Entering
<1>2. PICK e \in EventType : /\ t.events = <<e>> /\ e.type = "CLICKED" /\ old = str
                             /\ expected = AfterPress(str, t.elements[e.element].id)
  BY <1>1
<1>3. Last(t.events) = e /\ Front(t.events) = <<>>
  BY <1>2, OneIsNone
<1>4. PICK v : v = Heard(t)
  OBVIOUS
<1>5. /\ IsUi(v) /\ v.elements = t.elements /\ v.field = t.field /\ v.list = t.list
      /\ v.recycled = t.recycled /\ v.events = <<>>
      /\ e.element \in 1..Len(t.elements)
  BY <1>3, <1>4, HeardIs
<1>6. CalculatorLaid(v, 17) /\ Display(v, str)
  BY <1>1, <1>5 DEF CalculatorLaid, Display
<1>7. PICK k \in 1..17 : e.element = 2 * k - 1 \/ e.element = 2 * k
  <2>1. Len(t.elements) = 34
    BY DEF CalculatorLaid
  <2>2. PICK n \in 1..34 : n = e.element
    BY <1>5, <2>1
  <2>3. PICK j \in 1..17 : n = 2 * j - 1 \/ n = 2 * j
    OBVIOUS
  <2> QED
    BY <2>2, <2>3
<1>8. /\ 2 * k - 1 \in 1..Len(t.elements) /\ 2 * k \in 1..Len(t.elements)
      /\ t.elements[2 * k - 1].handler = "plane" /\ t.elements[2 * k - 1].id = Box(k).id
      /\ t.elements[2 * k].parent = 2 * k - 1 /\ t.elements[2 * k].id = Box(k).id
  BY BoxIsRoot
<1>9. Wired(t)
  <2>1. Laid("calculator", 17, t)
    BY DEF Laid
  <2> QED
    BY <2>1, LaidIsWired DEF TotalCalls
<1>10. PICK w : w = event_handler(v, e).s
  OBVIOUS
<1>11. /\ IsUi(w) /\ w.elements = t.elements /\ w.recycled = t.recycled
       /\ ButEvents(w, u) /\ w.events \in Seq(EventType)
       /\ Children(t, e.element) = {} => u.events = w.events
       /\ \A c \in 1..Len(t.elements) : Children(t, e.element) = {c} =>
             u.events = w.events \o <<[e EXCEPT !.element = c]>>
  <2>1. e = Last(t.events) /\ w = event_handler(Heard(t), e).s
    BY <1>3, <1>4, <1>10
  <2>2. Passed(t, e, w, u)
    BY <1>9, <2>1, DispatchedTo
  <2> QED
    BY <2>2 DEF Passed
<1>12. expected = AfterPress(str, Box(k).id)
  BY <1>2, <1>7, <1>8
<1>13. CASE e.element = 2 * k - 1
  <2>1. w = v
    <3>1. v.elements[e.element].handler = "plane"
      BY <1>5, <1>8, <1>13
    <3> QED
      BY <1>2, <1>10, <3>1 DEF event_handler, gui_element_plane_event_handler
  <2>2. Children(t, e.element) = {2 * k}
    <3>1. Children(t, e.element) = {} \/ Children(t, e.element) = {e.element + 1}
      BY <1>5, ChildrenAre
    <3>2. 2 * k \in Children(t, e.element)
      BY <1>8, <1>13 DEF Children
    <3> QED
      BY <3>1, <3>2
  <2>3. PICK d : d = [e EXCEPT !.element = 2 * k]
    OBVIOUS
  <2>4. d \in EventType /\ d.element = 2 * k /\ d.type = "CLICKED"
    <3>1. PICK i \in Nat : i = 2 * k
      OBVIOUS
    <3>2. LET f == [e EXCEPT !.element = i]
          IN  f \in EventType /\ f.element = i /\ f.type = e.type /\ f.value = e.value
      BY EventFor
    <3> QED
      BY <1>2, <2>3, <3>1, <3>2
  <2>5. u.events = <<d>>
    <3>1. u.events = <<>> \o <<d>>
      BY <1>5, <1>8, <1>11, <2>1, <2>2, <2>3
    <3>2. <<>> \o <<d>> = <<d>>
      OBVIOUS
    <3> QED
      BY <3>1, <3>2
  <2>6. Display(u, str) /\ u.elements = t.elements
    BY <1>5, <1>6, <1>11, <2>1 DEF Display, ButEvents
  <2>7. expected = AfterPress(str, u.elements[d.element].id)
    BY <1>8, <1>12, <2>4, <2>6
  <2> QED
    BY <1>2, <1>3, <2>4, <2>5, <2>6, <2>7 DEF Entering
<1>14. CASE e.element = 2 * k
  <2>1. Children(t, e.element) = {}
    <3>1. t.elements[e.element].parent # NULL
      BY <1>8, <1>14 DEF NULL
    <3> QED
      BY <1>5, <3>1, ChildrenAre
  <2>2. u.events = w.events
    BY <1>11, <2>1
  <2>3. w.wild = TRUE \/ (Display(w, expected) /\ w.events = <<>>)
    <3>1. LET x == event_handler(v, e).s
          IN  \/ x.wild = TRUE
              \/ Display(x, AfterPress(str, Box(k).id)) /\ x.events = v.events
      BY <1>2, <1>5, <1>6, <1>14, PressShows
    <3> QED
      BY <1>5, <1>10, <1>12, <3>1
  <2>4. u.wild = w.wild /\ u.field = w.field /\ u.recycled = w.recycled
    BY <1>11 DEF ButEvents
  <2>5. CASE w.wild = TRUE
    BY <1>3, <2>4, <2>5
  <2>6. CASE Display(w, expected) /\ w.events = <<>>
    <3>1. Display(u, expected) /\ u.events = <<>> /\ expected \in Seq(Symbols)
      BY <2>2, <2>4, <2>6 DEF Display
    <3> QED
      BY <1>3, <3>1 DEF Entering
  <2> QED
    BY <1>3, <2>3, <2>5, <2>6
<1> QED
  BY <1>7, <1>13, <1>14

-----------------------------------------------------------------------------
(* The text of the calculator *)

\* The calculator's text is its presses', but for the one that waits.
EnteringInv == program = "calculator" =>
    /\ pc = "main" => expect = <<>>
    /\ Running => /\ Entering(s, expect, before.text)
                  /\ pc # "process" => s.events = <<>>

\* The account is of the elements, the field and the events alone.
LEMMA EnteringAgain ==
    ASSUME NEW t, NEW expected, NEW old, Entering(t, expected, old), NEW u,
           u.elements = t.elements, u.field = t.field, u.recycled = t.recycled,
           u.events = t.events
    PROVE  Entering(u, expected, old)
<1>1. PICK str \in Seq(Symbols) :
          /\ Display(t, str)
          /\ \/ t.events = <<>> /\ expected = str
             \/ \E e \in EventType :
                   /\ t.events = <<e>> /\ e.type = "CLICKED" /\ old = str
                   /\ expected = AfterPress(str, t.elements[e.element].id)
  BY DEF Entering
<1>2. Display(u, str)
  BY <1>1 DEF Display
<1> QED
  BY <1>1, <1>2 DEF Entering

\* The elements the user sees at a point.
LEMMA AtIs == ASSUME NEW x, NEW y PROVE At(x, y) = {s.elements[r].id : r \in ShownAt(s, x, y)}
BY DEF At, ShownAt

\* A click as the library passes it on, t before and u after.
ClickSent(t, x, y, u) ==
    /\ ButEvents(t, u)
    /\ HitAt(t, x, y) = {} => u.events = t.events
    /\ \A r \in 1..Len(t.elements) : HitAt(t, x, y) = {r} =>
          \E e \in EventType : /\ u.events = t.events \o <<e>>
                               /\ e.type = "CLICKED" /\ e.element = r

\* A click is passed on to the root it hits, once.
LEMMA ClickTaken ==
    ASSUME NEW t, IsUi(t), NEW event, event.type = "MOUSE_CLICK",
           event.x \in Int, event.y \in Int, NEW u, u = gui_process_event(t, event)
    PROVE  ClickSent(t, event.x, event.y, u)
<1>1. LET v == gui_process_event(t, event)
      IN  /\ IsUi(v) /\ ButEvents(t, v)
          /\ \E q \in Seq(EventType) : v.events = t.events \o q
          /\ event.type = "MOUSE_MOVE" => v.events = t.events
          /\ event.type = "MOUSE_CLICK" =>
                v.events = t.events \o Sent(InOrder(Roots(t) \cap
                   {i \in 1..Len(t.elements) : gui_element_exists_in_position(
                        t.elements[i], event.x, event.y)}), Click(event.x, event.y))
          /\ event.type = "KEY_PRESS" =>
                v.events = IF t.focused = NULL THEN t.events
                           ELSE t.events \o Sent(<<t.focused>>, KeyStroke(event.key))
  BY TakenIs
<1>2. ButEvents(t, u) /\ u.events = t.events \o Sent(InOrder(HitAt(t, event.x, event.y)),
                                                     Click(event.x, event.y))
  BY <1>1 DEF HitAt
<1>3. t.events \in Seq(EventType) /\ Len(t.elements) \in Nat
  BY DEF IsUi, UiType
<1>4. ASSUME HitAt(t, event.x, event.y) = {} PROVE u.events = t.events
  <2>1. InOrder({}) = <<>> /\ Sent(<<>>, Click(event.x, event.y)) = <<>>
    BY InOrderEmpty, SentToNone
  <2>2. u.events = t.events \o <<>>
    BY <1>2, <1>4, <2>1
  <2> QED
    BY ONLY <1>3, <2>2
<1>5. ASSUME NEW r \in 1..Len(t.elements), HitAt(t, event.x, event.y) = {r}
      PROVE  \E e \in EventType : /\ u.events = t.events \o <<e>>
                                  /\ e.type = "CLICKED" /\ e.element = r
  <2>1. PICK c : c = Click(event.x, event.y)
    OBVIOUS
  <2>2. c \in EventType /\ c.type = "CLICKED"
    <3>1. "CLICKED" \in EventKinds /\ 0 \in Nat
      BY DEF EventKinds
    <3> QED
      BY <2>1, <3>1, EventIsTyped
  <2>3. PICK i \in Nat : i = r
    BY <1>3
  <2>4. InOrder({i}) = <<i>> /\ Sent(<<i>>, c) = <<[c EXCEPT !.element = i]>>
    BY <2>2, InOrderOne, SentToOne
  <2>5. PICK d : d = [c EXCEPT !.element = i]
    OBVIOUS
  <2>6. d \in EventType /\ d.element = i /\ d.type = "CLICKED"
    <3>1. LET f == [c EXCEPT !.element = i]
          IN  f \in EventType /\ f.element = i /\ f.type = c.type /\ f.value = c.value
      BY <2>2, EventFor
    <3> QED
      BY <2>2, <2>5, <3>1
  <2>7. u.events = t.events \o <<d>>
    BY <1>2, <1>5, <2>1, <2>3, <2>4, <2>5
  <2> QED
    BY <2>3, <2>6, <2>7
<1> QED
  BY <1>2, <1>4, <1>5 DEF ClickSent

\* Taking a window event keeps the calculator's account.
LEMMA CalculatorTaken ==
    ASSUME UiInv, EnteringInv, program = "calculator", gui_process_events
    PROVE  Entering(s', expect', before'.text)
<1>1. /\ pc = "get" /\ Running /\ calls = 17 /\ CalculatorLaid(s, 17) /\ IsUi(s)
  BY DEF gui_process_events, Running, UiInv, Laid, TotalCalls
<1>2. Entering(s, expect, before.text) /\ s.events = <<>>
  BY <1>1 DEF EnteringInv
<1>3. PICK str \in Seq(Symbols) : Display(s, str) /\ expect = str
  <2>1. \A e : <<e>> # <<>>
    OBVIOUS
  <2> QED
    BY <1>2, <2>1 DEF Entering
<1>4. PICK event, u, gone : event \in UserInputs /\ TakenAs(event, u, gone)
  BY EventTaken
<1>5. \/ event.type = "MOUSE_MOVE"
      \/ /\ event.type = "MOUSE_CLICK" /\ event.x \in Int /\ event.y \in Int
         /\ \/ event.x = 0 /\ event.y = 0
            \/ \E k \in 1..17 : On(k, event.x, event.y)
  BY <1>1, <1>4, CalculatorInput
<1>8. PICK expected :
          /\ expect' = IF EntryLost(u, gone) THEN expect ELSE expected
          /\ event.type = "MOUSE_MOVE" => expected = expect
          /\ event.type = "MOUSE_CLICK" =>
                expected = IF At(event.x, event.y) # {}
                           THEN AfterPress(expect, CHOOSE id \in At(event.x, event.y) : TRUE)
                           ELSE expect
  <2>1. CASE EntryLost(u, gone)
    <3>1. expect' = expect
      BY <1>4, <2>1 DEF TakenAs
    <3> QED
      BY <1>5, <2>1, <3>1
  <2>2. CASE ~EntryLost(u, gone)
    <3>1. Expect(event)
      BY <1>4, <2>2 DEF TakenAs
    <3>2. CASE event.type = "MOUSE_MOVE"
      <4>1. expect' = expect
        BY <3>1, <3>2 DEF Expect
      <4> QED
        BY <2>2, <3>2, <4>1
    <3>3. CASE event.type = "MOUSE_CLICK"
      <4>1. expect' = IF At(event.x, event.y) # {}
                      THEN AfterPress(expect, CHOOSE id \in At(event.x, event.y) : TRUE)
                      ELSE expect
        BY <3>1, <3>3 DEF Expect
      <4> QED
        BY <2>2, <3>3, <4>1
    <3> QED
      BY <1>5, <3>2, <3>3
  <2> QED
    BY <2>1, <2>2
<1>9. SUFFICES Entering(u, expected, expect)
  <2>1. PICK v, known, new : v = s' /\ known = expect' /\ new = before'.text
    OBVIOUS
  <2>2. IsUi(u)
    BY <1>1, <1>4, TakenKeeps
  <2>3. /\ gone \in SUBSET Pushes(u, <<>>) /\ v = Without(u, <<>>, gone)
        /\ known = IF EntryLost(u, gone) THEN expect ELSE expected
        /\ v.events # <<>> => new = expect
    BY <1>2, <1>4, <1>8, <2>1 DEF TakenAs, Pushed, gui_process_events
  <2>4. Entering(u, expected, expect) => Entering(v, known, new)
    BY ONLY <2>2, <2>3, EnteringLeft
  <2> QED
    BY <2>1, <2>4
<1>6. CASE event.type = "MOUSE_MOVE"
  <2>1. ButEvents(s, u) /\ u.events = s.events
    <3>1. LET v == gui_process_event(s, event)
          IN  /\ IsUi(v) /\ ButEvents(s, v)
              /\ \E q \in Seq(EventType) : v.events = s.events \o q
              /\ event.type = "MOUSE_MOVE" => v.events = s.events
              /\ event.type = "MOUSE_CLICK" =>
                    v.events = s.events \o Sent(InOrder(Roots(s) \cap
                       {i \in 1..Len(s.elements) : gui_element_exists_in_position(
                            s.elements[i], event.x, event.y)}), Click(event.x, event.y))
              /\ event.type = "KEY_PRESS" =>
                    v.events = IF s.focused = NULL THEN s.events
                               ELSE s.events \o Sent(<<s.focused>>, KeyStroke(event.key))
      BY <1>1, <1>6, TakenIs
    <3> QED
      BY <1>4, <1>6, <3>1 DEF TakenAs
  <2>2. expected = str
    BY <1>3, <1>6, <1>8
  <2>3. Display(u, str)
    BY <1>3, <2>1 DEF Display, ButEvents
  <2> QED
    BY <1>2, <2>1, <2>2, <2>3 DEF Entering
<1>7. CASE event.type = "MOUSE_CLICK" /\ event.x \in Int /\ event.y \in Int
  <2>1. PICK x, y : x = event.x /\ y = event.y
    OBVIOUS
  <2>2. /\ ButEvents(s, u)
        /\ HitAt(s, x, y) = {} => u.events = s.events
        /\ \A r \in 1..Len(s.elements) : HitAt(s, x, y) = {r} =>
              \E e \in EventType : /\ u.events = s.events \o <<e>>
                                   /\ e.type = "CLICKED" /\ e.element = r
    <3>1. u = gui_process_event(s, event)
      BY <1>4 DEF TakenAs
    <3>2. ClickSent(s, x, y, u)
      BY <1>1, <1>7, <2>1, <3>1, ClickTaken
    <3> QED
      BY <3>2 DEF ClickSent
  <2>3. expected = IF At(x, y) # {} THEN AfterPress(expect, CHOOSE id \in At(x, y) : TRUE)
                   ELSE expect
    BY <1>7, <1>8, <2>1
  <2>4. CASE x = 0 /\ y = 0
    <3>1. HitAt(s, x, y) = {} /\ ShownAt(s, x, y) = {}
      BY <1>1, <2>4, ClickBeside
    <3>2. At(x, y) = {}
      <4>1. At(x, y) = {s.elements[r].id : r \in ShownAt(s, x, y)}
        BY AtIs
      <4> QED
        BY <3>1, <4>1
    <3>3. Display(u, str)
      BY <1>3, <2>2 DEF Display, ButEvents
    <3> QED
      BY <1>2, <1>3, <2>2, <2>3, <3>1, <3>2, <3>3 DEF Entering
  <2>5. CASE \E k \in 1..17 : On(k, x, y)
    <3>1. PICK k \in 1..17 : On(k, x, y)
      BY <2>5
    <3>2. PICK r : r = 2 * k - 1
      OBVIOUS
    <3>3. HitAt(s, x, y) = {r} /\ ShownAt(s, x, y) = {r}
      <4>1. x \in Int /\ y \in Int
        BY <1>7, <2>1
      <4>2. OnlyHit(s, x, y, r)
        BY <1>1, <3>1, <3>2, <4>1, ClickOnBox
      <4> QED
        BY <4>2 DEF OnlyHit
    <3>4. r \in 1..Len(s.elements)
      BY <1>1, <3>2, BoxIsRoot
    <3>5. PICK id : id = s.elements[r].id
      OBVIOUS
    <3>6. At(x, y) = {id}
      <4>1. At(x, y) = {s.elements[i].id : i \in ShownAt(s, x, y)}
        BY AtIs
      <4> QED
        BY <3>3, <3>5, <4>1
    <3>7. expected = AfterPress(str, id)
      <4>1. {id} # {} /\ (CHOOSE i \in {id} : TRUE) = id
        OBVIOUS
      <4> QED
        BY <1>3, <2>3, <3>6, <4>1
    <3>8. PICK e \in EventType : /\ u.events = s.events \o <<e>>
                                 /\ e.type = "CLICKED" /\ e.element = r
      BY <2>2, <3>3, <3>4
    <3>9. u.events = <<e>>
      <4>1. <<>> \o <<e>> = <<e>>
        OBVIOUS
      <4> QED
        BY <1>2, <3>8, <4>1
    <3>10. Display(u, str) /\ u.elements = s.elements
      BY <1>3, <2>2 DEF Display, ButEvents
    <3>11. expected = AfterPress(str, u.elements[e.element].id)
      BY <3>5, <3>7, <3>8, <3>10
    <3> QED
      BY <1>3, <3>8, <3>9, <3>10, <3>11 DEF Entering
  <2> QED
    BY <1>5, <1>7, <2>1, <2>4, <2>5
<1> QED
  BY <1>5, <1>6, <1>7

LEMMA EnteringInit == Init => EnteringInv
BY DEF Init, EnteringInv, Running

LEMMA EnteringNext == UiInv /\ EnteringInv /\ [Next]_vars => EnteringInv'
<1> SUFFICES ASSUME UiInv, EnteringInv, [Next]_vars, program = "calculator",
                    program' = program
             PROVE  EnteringInv'
  <2>1. [Next]_vars => program' = program
    BY DEF Next, vars, MakeOne, MakeFails, AddFails, Ready, gui_redraw_if_required, NoEvent,
           gui_process_events, gui_element_events_process
  <2> QED
    BY <2>1 DEF EnteringInv
<1>1. CASE MakeOne \/ MakeFails
  BY <1>1 DEF MakeOne, MakeFails, Call, EnteringInv, Running, ghosts
<1>2. CASE AddFails
  BY <1>2 DEF AddFails
<1>3. CASE Ready
  <2>1. /\ pc = "main" /\ calls = 17 /\ s' = s /\ expect' = expect /\ pc' = "redraw"
        /\ expect = <<>>
    BY <1>3 DEF Ready, ghosts, EnteringInv, TotalCalls
  <2>2. Making("calculator", 17, s)
    BY <2>1 DEF UiInv
  <2>3. /\ Stored(s.field, <<>>, s.recycled) /\ s.events = <<>>
        /\ Len(s.field.text) = TEXTFIELD_DEFAULT_BUFFER_SIZE
    BY <2>2 DEF Making
  <2>4. <<>> \in Seq(Symbols)
    OBVIOUS
  <2>5. Entering(s, <<>>, before.text) /\ before' = before
    BY <1>3, <2>3, <2>4 DEF Entering, Display, Ready, ghosts
  <2> QED
    BY <2>1, <2>3, <2>5 DEF EnteringInv
<1>4. CASE gui_redraw_if_required
  <2>1. /\ Running /\ pc # "process" /\ s' = [s EXCEPT !.must_draw = FALSE]
        /\ expect' = expect /\ before' = before
    BY <1>4 DEF gui_redraw_if_required, Running
  <2>2. IsUi(s) /\ Entering(s, expect, before.text) /\ s.events = <<>>
    BY <2>1 DEF UiInv, EnteringInv
  <2>3. ButField(s, s') /\ s'.field = s.field
    <3>1. LET u == [s EXCEPT !.must_draw = FALSE]
          IN  /\ IsUi(u) /\ ButField(s, u) /\ u.field = s.field /\ u.must_draw = FALSE
              /\ u.wild = s.wild /\ u.recycled = s.recycled
      BY <2>2, RedrawnIs
    <3> QED
      BY <2>1, <3>1
  <2>4. Entering(s', expect, before.text) /\ s'.events = <<>>
    BY <2>2, <2>3, EnteringAgain DEF ButField
  <2>5. pc' = "get"
    BY <1>4 DEF gui_redraw_if_required
  <2> QED
    BY <2>1, <2>4, <2>5 DEF EnteringInv
<1>5. CASE NoEvent
  BY <1>5 DEF NoEvent, EnteringInv, Running, ghosts
<1>6. CASE gui_process_events
  <2>1. Entering(s', expect', before'.text)
    BY <1>6, CalculatorTaken
  <2>2. pc' \in {IF s'.events = <<>> THEN "get" ELSE "process", "wild"}
    BY <1>6 DEF gui_process_events, Pending
  <2> QED
    BY <2>1, <2>2 DEF EnteringInv, Running
<1>7. CASE gui_element_events_process
  <2>1. /\ pc = "process" /\ (s'.events # <<>> => before' = before)
        /\ pc' \in {IF s'.events = <<>> THEN "get" ELSE "process", "wild"}
    BY <1>7 DEF gui_element_events_process, Pending
  <2>2. IsUi(s) /\ CalculatorLaid(s, 17) /\ Entering(s, expect, before.text)
    BY <2>1 DEF UiInv, EnteringInv, Running, Laid, TotalCalls
  <2>3. PICK done, gone : /\ s.events # <<>> /\ done = Dispatched(s) /\ Keeps(Heard(s), done)
                          /\ gone \in SUBSET Pushes(done, Front(s.events))
                          /\ s' = Without(done, Front(s.events), gone)
                          /\ expect' = IF EntryLost(done, gone) THEN before.text ELSE expect
                          /\ pc' # "wild" => ~done.wild
    BY <1>7, EventHandled DEF HandledAs, Pushed
  <2>4. /\ done.wild = TRUE \/ Entering(done, expect, before.text)
        /\ Front(s.events) = <<>>
    BY <2>2, <2>3, CalculatorDispatched
  <2>5. CASE pc' = "wild"
    BY <2>5 DEF EnteringInv, Running
  <2>6. CASE pc' # "wild"
    <3>1. PICK v, known, new : v = s' /\ known = expect' /\ new = before'.text
      OBVIOUS
    <3>2. IsUi(done) /\ Entering(done, expect, before.text)
      BY <2>3, <2>4, <2>6 DEF Keeps
    <3>3. /\ gone \in SUBSET Pushes(done, <<>>) /\ v = Without(done, <<>>, gone)
          /\ known = IF EntryLost(done, gone) THEN before.text ELSE expect
          /\ v.events # <<>> => new = before.text
      BY <2>1, <2>3, <2>4, <3>1
    <3>4. Entering(v, known, new)
      BY ONLY <3>2, <3>3, EnteringLeft
    <3> QED
      BY <2>1, <2>6, <3>1, <3>4 DEF EnteringInv, Running
  <2> QED
    BY <2>5, <2>6
<1>8. CASE UNCHANGED vars
  BY <1>8 DEF vars, EnteringInv, Running
<1> QED
  BY <1>1, <1>2, <1>3, <1>4, <1>5, <1>6, <1>7, <1>8 DEF Next

-----------------------------------------------------------------------------
(* The text of the form *)

(* What the form's text and focus are, and the event that is handled next: *)
(* were it lost, they would stay what they were before it.                 *)
Handling(t, e, str, expected, typed, old) ==
    /\ old.text = str /\ old.typing = (t.focused = 2)
    /\ \/ /\ e.type = "CLICKED" /\ e.element \in {1, 2} /\ expected = str
          /\ typed = (t.focused = 2)
       \/ e.type = "CLICKED" /\ e.element = 3 /\ expected = str /\ typed = FALSE
       \/ /\ e.type = "KEYSTROKE" /\ e.element = t.focused /\ e.value # NUL
          /\ typed = (t.focused = 2)
          /\ expected = IF typed THEN AfterKey(str, e.value) ELSE str

Settled(t, str, expected, typed) ==
    IsFocusing(t.events) /\ expected = str /\ typed = (t.focused = 2)

Entered(t, str, expected, typed, old) ==
    \/ Settled(t, str, expected, typed)
    \/ \E q \in Seq(EventType), e \in EventType :
          /\ IsFocusing(q) /\ t.events = q \o <<e>>
          /\ Handling(t, e, str, expected, typed, old)

FormEntering(t, expected, typed, old) ==
    /\ t.focused \in {2, 3}
    /\ \E str : Stored(t.field, str, t.recycled) /\ Entered(t, str, expected, typed, old)

\* The account after a call begun on the stack q, before any of its events is lost.
FormPushed(t, q, expected, typed, old) ==
    /\ t.focused \in {2, 3}
    /\ \E str : /\ Stored(t.field, str, t.recycled)
               /\ \/ Settled(t, str, expected, typed)
                  \/ \E e \in EventType : /\ t.events = q \o <<e>>
                                          /\ Handling(t, e, str, expected, typed, old)

\* The elements of the form once main has made them.
LEMMA FormIs ==
    ASSUME NEW t, IsUi(t), FormLaid(t, 4)
    PROVE  /\ Len(t.elements) = 3 /\ t.list.element = NULL
           /\ t.elements[1].parent = NULL /\ t.elements[1].handler = "plane"
           /\ t.elements[2].parent = 1 /\ t.elements[2].handler = "textfield"
           /\ t.elements[3].parent = NULL /\ t.elements[3].handler = "default"
           /\ t.field.element = 2 /\ t.field.element # NULL
           /\ t.field.max_allowed_len = FormMax /\ t.field.read_only = FALSE
           /\ Children(t, 1) = {2} /\ Children(t, 2) = {} /\ Children(t, 3) = {}
           /\ Wired(t)
<1>1. /\ Len(t.elements) = 3 /\ t.list.element = NULL
      /\ t.elements[1].parent = NULL /\ t.elements[1].handler = "plane"
      /\ t.elements[2].parent = 1 /\ t.elements[2].handler = "textfield"
      /\ t.elements[3].parent = NULL /\ t.elements[3].handler = "default"
      /\ t.field.element = 2 /\ t.field.element # NULL
      /\ t.field.max_allowed_len = FormMax
  BY DEF FormLaid, FieldRoot, FieldCover, ImageRoot, Root, Cover, NULL
<1>2. t.field.read_only = FALSE
  BY <1>1, FieldIs
<1>3. Children(t, 1) = {2}
  <2>1. Children(t, 1) = {} \/ Children(t, 1) = {1 + 1}
    BY <1>1, ChildrenAre
  <2>2. 2 \in Children(t, 1)
    BY <1>1 DEF Children
  <2> QED
    BY <2>1, <2>2
<1>4. Children(t, 2) = {}
  BY <1>1, ChildrenAre DEF NULL
<1>5. Children(t, 3) = {}
  BY <1>1, ChildrenAre, SMTT(30)
<1>6. Wired(t)
  <2>1. Laid("form", 4, t)
    BY DEF Laid
  <2> QED
    BY <2>1, LaidIsWired DEF TotalCalls
<1> QED
  BY <1>1, <1>2, <1>3, <1>4, <1>5, <1>6

\* A key on the form's field does what the user expects of it.
LEMMA KeyShows ==
    ASSUME NEW t, IsUi(t), FormLaid(t, 4), NEW str, Stored(t.field, str, t.recycled),
           NEW e \in EventType, e.type = "KEYSTROKE", e.value # NUL
    PROVE  LET u == gui_element_textfield_event_handler(t, e).s
           IN  ButField(t, u) /\ Stored(u.field, AfterKey(str, e.value), t.recycled)
<1>1. PICK u : u = gui_element_textfield_event_handler(t, e).s
  OBVIOUS
<1>2. /\ t.field.element # NULL /\ t.field.max_allowed_len = FormMax
      /\ t.field.read_only = FALSE
  BY FormIs
<1>3. PICK c \in Nat \ {NUL} : c = e.value
  BY DEF EventType
<1>4. CASE c = GUI_KEY_BACKSPACE
  <2>1. u = gui_element_textfield_backspace(t)
    BY <1>1, <1>2, <1>3, <1>4 DEF gui_element_textfield_event_handler
  <2>2. ButField(t, u)
    BY <1>2, <2>1, BackspaceIs
  <2>3. Stored(u.field, IF str = <<>> THEN str ELSE Front(str), t.recycled)
    BY <1>2, <2>1, BackspaceStores
  <2>4. AfterKey(str, c) = IF str = <<>> THEN str ELSE Front(str)
    BY <1>4 DEF AfterKey
  <2> QED
    BY <1>1, <1>3, <2>2, <2>3, <2>4
<1>5. CASE c # GUI_KEY_BACKSPACE
  <2>1. u = gui_element_textfield_put_char(t, c)
    BY <1>1, <1>2, <1>3, <1>5 DEF gui_element_textfield_event_handler
  <2>2. ButField(t, u)
    BY <1>2, <2>1, PutCharIs
  <2>3. Stored(u.field, Added(str, c, t.field.max_allowed_len - 1), t.recycled)
    BY <1>2, <2>1, PutCharStores
  <2>4. AfterKey(str, c) = Added(str, c, FormMax - 1)
    BY <1>5 DEF AfterKey
  <2> QED
    BY <1>1, <1>2, <1>3, <2>2, <2>3, <2>4
<1> QED
  BY <1>4, <1>5

\* Taking a focus event away leaves focus events.
LEMMA FrontOfFocusing ==
    ASSUME NEW q, IsFocusing(q), q # <<>>
    PROVE  IsFocusing(Front(q)) /\ Last(q).type \in {"FOCUSED", "UNFOCUSED"}
<1>1. q \in Seq(EventType) /\ \A k \in 1..Len(q) : q[k].type \in {"FOCUSED", "UNFOCUSED"}
  BY DEF IsFocusing
<1>2. /\ Front(q) \in Seq(EventType) /\ Len(Front(q)) = Len(q) - 1
      /\ Len(q) >= 1 /\ Last(q) = q[Len(q)]
      /\ \A k \in 1..Len(q) - 1 : Front(q)[k] = q[k]
  BY <1>1, FrontIs
<1>3. PICK n \in Nat \ {0} : n = Len(q)
  BY <1>1, <1>2
<1>4. \A k \in 1..n - 1 : k \in 1..n
  OBVIOUS
<1>5. n \in 1..n
  BY <1>3
<1> QED
  BY <1>1, <1>2, <1>3, <1>4, <1>5 DEF IsFocusing

\* Two changes of the focus, one after the other.
LEMMA FocusingTwice ==
    ASSUME NEW q, IsFocusing(q), NEW r, IsFocusing(r)
    PROVE  IsFocusing(q \o r)
<1>1. /\ q \in Seq(EventType) /\ \A k \in 1..Len(q) : q[k].type \in {"FOCUSED", "UNFOCUSED"}
      /\ r \in Seq(EventType) /\ \A k \in 1..Len(r) : r[k].type \in {"FOCUSED", "UNFOCUSED"}
  BY DEF IsFocusing
<1>2. /\ q \o r \in Seq(EventType) /\ Len(q \o r) = Len(q) + Len(r)
      /\ \A k \in 1..Len(q) : (q \o r)[k] = q[k]
      /\ \A k \in Len(q) + 1..Len(q) + Len(r) : (q \o r)[k] = r[k - Len(q)]
  BY <1>1, ConcatIs
<1>3. PICK m \in Nat, n \in Nat : m = Len(q) /\ n = Len(r)
  BY <1>1
<1>4. \A k \in 1..m + n : k \in 1..m \/ (k \in m + 1..m + n /\ k - m \in 1..n)
  OBVIOUS
<1> QED
  BY <1>1, <1>2, <1>3, <1>4 DEF IsFocusing

\* One more focus event.
LEMMA FocusingAgain ==
    ASSUME NEW q, IsFocusing(q), NEW e \in EventType, e.type \in {"FOCUSED", "UNFOCUSED"}
    PROVE  IsFocusing(q \o <<e>>)
<1>1. PICK r : r = <<e>>
  OBVIOUS
<1>2. r \in Seq(EventType) /\ Len(r) = 1 /\ r[1] = e
  BY <1>1
<1>3. IsFocusing(r)
  BY <1>2 DEF IsFocusing
<1> QED
  BY <1>1, <1>3, FocusingTwice

\* The newest event is the last one, the others are the front.
LEMMA FrontOfLonger ==
    ASSUME NEW q \in Seq(EventType), NEW e \in EventType
    PROVE  Front(q \o <<e>>) = q /\ Last(q \o <<e>>) = e /\ q \o <<e>> # <<>>
<1>1. PICK r : r = q \o <<e>>
  OBVIOUS
<1>2. r \in Seq(EventType) /\ Len(r) = Len(q) + 1 /\ r[Len(q) + 1] = e
      /\ \A k \in 1..Len(q) : r[k] = q[k]
  <2>1. r = Append(q, e)
    BY <1>1
  <2> QED
    BY <2>1, AppendIs
<1>3. r # <<>>
  BY <1>2
<1>4. /\ Front(r) \in Seq(EventType) /\ Len(Front(r)) = Len(r) - 1 /\ Last(r) = r[Len(r)]
      /\ \A k \in 1..Len(r) - 1 : Front(r)[k] = r[k]
  BY <1>2, <1>3, FrontIs
<1>5. PICK n \in Nat : n = Len(q)
  OBVIOUS
<1>6. Len(r) - 1 = n /\ Len(r) = n + 1
  BY <1>2, <1>5
<1>7. Last(r) = e
  BY <1>2, <1>4, <1>5, <1>6
<1>8. Len(Front(r)) = Len(q) /\ \A k \in 1..Len(q) : Front(r)[k] = q[k]
  BY <1>2, <1>4, <1>5, <1>6
<1>9. Front(r) = q
  BY ONLY <1>4, <1>8, q \in Seq(EventType)
<1> QED
  BY <1>1, <1>3, <1>7, <1>9

\* Where only focus events wait, the text is what was entered.
LEMMA SettledAfter ==
    ASSUME NEW w, NEW u, ButEvents(w, u), w.focused \in {2, 3},
           NEW str, Stored(w.field, str, w.recycled), IsFocusing(u.events),
           NEW expected, expected = str, NEW typed, typed = (w.focused = 2),
           NEW q, NEW old
    PROVE  FormEntering(u, expected, typed, old) /\ FormPushed(u, q, expected, typed, old)
<1>1. u.focused = w.focused /\ u.field = w.field /\ u.recycled = w.recycled
  BY DEF ButEvents
<1>2. Settled(u, str, expected, typed)
  BY <1>1 DEF Settled
<1>3. Entered(u, str, expected, typed, old)
  BY <1>2 DEF Entered
<1> QED
  BY <1>1, <1>2, <1>3 DEF FormEntering, FormPushed

(* Focus events that are lost leave the account as it is, a press or a key *)
(* that is lost leaves it as it was before it.                             *)
LEMMA FormLeft ==
    ASSUME NEW u, IsUi(u), NEW q, IsFocusing(q), NEW r \in Seq(EventType), u.events = q \o r,
           NEW expected, NEW typed, NEW old, FormPushed(u, q, expected, typed, old),
           NEW gone \in SUBSET Pushes(u, q), NEW v, v = Without(u, q, gone),
           NEW known, known = IF EntryLost(u, gone) THEN old.text ELSE expected,
           NEW used, used = IF EntryLost(u, gone) THEN old.typing ELSE typed,
           NEW new, v.events # <<>> => new = old
    PROVE  FormEntering(v, known, used, new)
<1>1. PICK str : /\ Stored(u.field, str, u.recycled)
                 /\ \/ Settled(u, str, expected, typed)
                    \/ \E e \in EventType : /\ u.events = q \o <<e>>
                                            /\ Handling(u, e, str, expected, typed, old)
  BY DEF FormPushed
<1>2. q \in Seq(EventType) /\ u.focused \in {2, 3}
  BY DEF IsFocusing, FormPushed
<1>3. IsUi(v) /\ ButEvents(u, v)
  BY <1>2, WithoutIs
<1>4. PICK p \in Seq(EventType) : Left(u, q, gone, p) /\ v.events = q \o p
  BY <1>2, WithoutIs
<1>5. CASE Settled(u, str, expected, typed)
  <2>1. /\ u.events \in Seq(EventType)
        /\ \A k \in 1..Len(u.events) : u.events[k].type \in {"FOCUSED", "UNFOCUSED"}
    BY <1>5 DEF Settled, IsFocusing
  <2>2. \A k \in Pushes(u, q) : u.events[k].type \in {"FOCUSED", "UNFOCUSED"}
    <3>1. PICK m \in Nat, n \in Nat : m = Len(q) /\ n = Len(u.events)
      BY <1>2, <2>1
    <3>2. \A k \in m + 1..n : k \in 1..n
      OBVIOUS
    <3> QED
      BY <2>1, <3>1, <3>2 DEF Pushes
  <2>3. IsFocusing(p)
    <3>1. \A k \in 1..Len(p) : \E j \in Pushes(u, q) \ gone : p[k] = u.events[j]
      BY <1>4 DEF Left
    <3>2. \A k \in 1..Len(p) : p[k].type \in {"FOCUSED", "UNFOCUSED"}
      BY <2>2, <3>1
    <3> QED
      BY <3>2 DEF IsFocusing
  <2>4. IsFocusing(v.events)
    BY <1>4, <2>3, FocusingTwice
  <2>5. ~EntryLost(u, gone)
    BY <2>2 DEF EntryLost, Kinds, Entry
  <2>6. known = str /\ used = (u.focused = 2)
    BY <1>5, <2>5 DEF Settled
  <2> QED
    BY <1>1, <1>2, <1>3, <2>4, <2>6, SettledAfter
<1>6. ASSUME NEW e \in EventType, u.events = q \o <<e>>,
             Handling(u, e, str, expected, typed, old)
      PROVE  FormEntering(v, known, used, new)
  <2>1. OneLeft(u, q, e, gone, v)
    BY ONLY <1>2, <1>6, IsUi(u), e \in EventType, gone \in SUBSET Pushes(u, q),
            v = Without(u, q, gone), WithoutOne
  <2>2. CASE v.events = u.events /\ Kinds(u, gone) = {}
    <3>1. ~EntryLost(u, gone)
      BY <2>2 DEF EntryLost
    <3>2. known = expected /\ used = typed
      BY <3>1
    <3>3. v.events # <<>>
      BY <1>2, <1>6, <2>2, FrontOfLonger
    <3>4. v.focused = u.focused /\ v.field = u.field /\ v.recycled = u.recycled
      BY <1>3 DEF ButEvents
    <3>5. Handling(v, e, str, known, used, new)
      BY <1>6, <3>2, <3>3, <3>4 DEF Handling
    <3>6. Entered(v, str, known, used, new)
      BY <1>2, <1>6, <2>2, <3>5 DEF Entered
    <3> QED
      BY <1>1, <1>2, <3>4, <3>6 DEF FormEntering
  <2>3. CASE v.events = q /\ Kinds(u, gone) = {e.type}
    <3>1. e.type \in Entry
      BY <1>6 DEF Handling, Entry
    <3>2. EntryLost(u, gone)
      BY <2>3, <3>1 DEF EntryLost
    <3>3. known = str /\ used = (u.focused = 2)
      BY <1>6, <3>2 DEF Handling
    <3>4. IsFocusing(v.events)
      BY <2>3
    <3> QED
      BY <1>1, <1>2, <1>3, <3>3, <3>4, SettledAfter
  <2> QED
    BY <2>1, <2>2, <2>3 DEF OneLeft
<1> QED
  BY <1>1, <1>5, <1>6

\* Handling one event of the form keeps the account, until an event is lost.
LEMMA FormDispatched ==
    ASSUME NEW t, IsUi(t), FormLaid(t, 4), NEW expected, NEW typed, NEW old,
           FormEntering(t, expected, typed, old), t.events # <<>>, NEW u, u = Dispatched(t)
    PROVE  /\ FormPushed(u, Front(t.events), expected, typed, old)
           /\ IsFocusing(Front(t.events))
<1>1. /\ Len(t.elements) = 3
      /\ t.elements[1].handler = "plane" /\ t.elements[2].handler = "textfield"
      /\ t.elements[3].handler = "default"
      /\ Children(t, 1) = {2} /\ Children(t, 2) = {} /\ Children(t, 3) = {}
      /\ Wired(t)
  BY FormIs
<1>2. PICK str : Stored(t.field, str, t.recycled) /\ Entered(t, str, expected, typed, old)
  BY DEF FormEntering
<1>3. PICK e, q, v : e = Last(t.events) /\ q = Front(t.events) /\ v = Heard(t)
  OBVIOUS
<1>4. /\ IsUi(v) /\ v.elements = t.elements /\ v.focused = t.focused /\ v.field = t.field
      /\ v.list = t.list /\ v.recycled = t.recycled /\ v.events = q
      /\ e \in EventType /\ e.element \in 1..Len(t.elements)
  BY <1>3, HeardIs
<1>5. t.focused \in {2, 3} /\ e.element \in {1, 2, 3}
  BY <1>1, <1>4 DEF FormEntering
<1>6. FormLaid(v, 4) /\ Stored(v.field, str, v.recycled)
  BY <1>2, <1>4 DEF FormLaid
<1>7. PICK w : w = event_handler(v, e).s
  OBVIOUS
<1>8. Passed(t, e, w, u)
  <2>1. w = event_handler(Heard(t), e).s
    BY <1>3, <1>7
  <2> QED
    BY <1>1, <1>3, <2>1, DispatchedTo
<1>9. /\ ButEvents(w, u) /\ w.events \in Seq(EventType)
      /\ Children(t, e.element) = {} => u.events = w.events
      /\ \A c \in 1..Len(t.elements) : Children(t, e.element) = {c} =>
            u.events = w.events \o <<[e EXCEPT !.element = c]>>
  BY <1>8 DEF Passed
<1>10. /\ IsFocusing(q)
       /\ \/ /\ e.type \in {"FOCUSED", "UNFOCUSED"}
             /\ expected = str /\ typed = (t.focused = 2)
          \/ Handling(t, e, str, expected, typed, old)
  <2>1. CASE Settled(t, str, expected, typed)
    BY <1>3, <2>1, FrontOfFocusing DEF Settled
  <2>2. CASE \E p \in Seq(EventType), d \in EventType :
                /\ IsFocusing(p) /\ t.events = p \o <<d>>
                /\ Handling(t, d, str, expected, typed, old)
    <3>1. PICK p \in Seq(EventType), d \in EventType :
                /\ IsFocusing(p) /\ t.events = p \o <<d>>
                /\ Handling(t, d, str, expected, typed, old)
      BY <2>2
    <3>2. q = p /\ e = d
      BY <1>3, <3>1, FrontOfLonger
    <3> QED
      BY <3>1, <3>2
  <2> QED
    BY <1>2, <2>1, <2>2 DEF Entered
<1>15. SUFFICES FormPushed(u, q, expected, typed, old)
  BY <1>3, <1>10
<1>11. ASSUME w = v, u.events = q, expected = str, typed = (t.focused = 2)
       PROVE  FormPushed(u, q, expected, typed, old)
  BY <1>4, <1>5, <1>6, <1>9, <1>10, <1>11, SettledAfter
<1>12. CASE e.element = 1
  <2>1. PICK d : d = [e EXCEPT !.element = 2]
    OBVIOUS
  <2>2. d \in EventType /\ d.element = 2 /\ d.type = e.type
    <3>1. PICK i \in Nat : i = 2
      OBVIOUS
    <3>2. LET f == [e EXCEPT !.element = i]
          IN  f \in EventType /\ f.element = i /\ f.type = e.type /\ f.value = e.value
      BY <1>4, EventFor
    <3> QED
      BY <2>1, <3>1, <3>2
  <2>3. u.events = w.events \o <<d>>
    <3>1. Children(t, e.element) = {2} /\ 2 \in 1..Len(t.elements)
      BY <1>1, <1>12
    <3> QED
      BY <1>9, <2>1, <3>1
  <2>4. /\ w.events = q /\ w.focused = t.focused /\ w.field = t.field
        /\ w.recycled = t.recycled
    <3>1. w = IF e.type \in {"FOCUSED", "UNFOCUSED"}
              THEN gui_element_mark_for_redraw(v, e.element) ELSE v
      BY <1>1, <1>4, <1>7, <1>12 DEF event_handler, gui_element_plane_event_handler
    <3>2. CASE w = v
      BY <1>4, <3>2
    <3>3. CASE w = gui_element_mark_for_redraw(v, e.element)
      <4>1. w = [v EXCEPT !.must_draw = TRUE]
        BY <1>4, <3>3, MarkIs
      <4>2. LET x == [v EXCEPT !.must_draw = TRUE]
            IN  IsUi(x) /\ ButField(v, x) /\ x.must_draw = TRUE /\ x.field = v.field
        BY <1>4, MarkedIsUi
      <4> QED
        BY <1>4, <4>1, <4>2 DEF ButField
    <3> QED
      BY <3>1, <3>2, <3>3
  <2>5. u.focused = t.focused /\ u.field = t.field /\ u.recycled = t.recycled
    BY <1>9, <2>4 DEF ButEvents
  <2>6. CASE e.type \in {"FOCUSED", "UNFOCUSED"}
    <3>1. expected = str /\ typed = (t.focused = 2)
      BY <1>10, <2>6 DEF Handling
    <3>2. IsFocusing(u.events)
      BY <1>10, <2>2, <2>3, <2>4, <2>6, FocusingAgain
    <3>3. Settled(u, str, expected, typed)
      BY <2>5, <3>1, <3>2 DEF Settled
    <3> QED
      BY <1>2, <1>5, <2>5, <3>3 DEF FormPushed
  <2>7. CASE e.type = "CLICKED"
    <3>1. expected = str /\ typed = (t.focused = 2)
      BY <1>10, <1>12, <2>7 DEF Handling
    <3>2. old.text = str /\ old.typing = (t.focused = 2)
      BY <1>10, <2>7 DEF Handling
    <3>3. Handling(u, d, str, expected, typed, old)
      BY <2>2, <2>5, <2>7, <3>1, <3>2 DEF Handling
    <3>4. u.events = q \o <<d>>
      BY <2>3, <2>4
    <3> QED
      BY <1>2, <1>5, <2>2, <2>5, <3>3, <3>4 DEF FormPushed
  <2>8. e.type \in {"FOCUSED", "UNFOCUSED"} \/ e.type = "CLICKED"
    BY <1>5, <1>10, <1>12 DEF Handling
  <2> QED
    BY <2>6, <2>7, <2>8
<1>13. CASE e.element = 2
  <2>1. w = gui_element_textfield_event_handler(v, e).s
    BY <1>1, <1>4, <1>7, <1>13 DEF event_handler
  <2>2. u.events = w.events
    BY <1>1, <1>9, <1>13
  <2>3. CASE e.type # "KEYSTROKE"
    <3>1. w = v
      BY <2>1, <2>3 DEF gui_element_textfield_event_handler
    <3>2. expected = str /\ typed = (t.focused = 2)
      BY <1>10, <1>13, <2>3 DEF Handling
    <3> QED
      BY <1>4, <1>11, <2>2, <3>1, <3>2
  <2>4. CASE e.type = "KEYSTROKE"
    <3>1. /\ t.focused = 2 /\ e.value # NUL /\ typed = TRUE
          /\ expected = AfterKey(str, e.value)
      BY <1>10, <1>13, <2>4 DEF Handling
    <3>2. ButField(v, w) /\ Stored(w.field, expected, v.recycled)
      <4>1. LET x == gui_element_textfield_event_handler(v, e).s
            IN  ButField(v, x) /\ Stored(x.field, AfterKey(str, e.value), v.recycled)
        BY <1>4, <1>6, <2>4, <3>1, KeyShows
      <4> QED
        BY <2>1, <3>1, <4>1
    <3>3. w.focused = 2 /\ w.events = q /\ w.recycled = v.recycled
      BY <1>4, <3>1, <3>2 DEF ButField
    <3>4. typed = (w.focused = 2) /\ w.focused \in {2, 3} /\ IsFocusing(u.events)
      BY <1>10, <2>2, <3>1, <3>3
    <3>5. Stored(w.field, expected, w.recycled)
      BY <3>2, <3>3
    <3> QED
      BY <1>9, <3>4, <3>5, SettledAfter
  <2> QED
    BY <2>3, <2>4
<1>14. CASE e.element = 3
  <2>1. w = IF e.type = "CLICKED" /\ v.focused # e.element
            THEN gui_focus_on_element(v, e.element) ELSE v
    BY <1>1, <1>4, <1>7, <1>14 DEF event_handler, gui_element_event_handler
  <2>2. u.events = w.events
    BY <1>1, <1>9, <1>14
  <2>0. ASSUME e.type = "KEYSTROKE" PROVE expected = str
    <3>1. t.focused = 3 /\ typed = (t.focused = 2)
      BY <1>10, <1>14, <2>0 DEF Handling
    <3>2. typed = FALSE
      <4>1. (t.focused = 2) = FALSE
        BY <3>1
      <4> QED
        BY <3>1, <4>1
    <3> QED
      BY <1>10, <2>0, <3>1, <3>2 DEF Handling
  <2>3. expected = str
    BY <1>10, <1>14, <2>0 DEF Handling
  <2>4. CASE w = v /\ (e.type # "CLICKED" \/ v.focused = 3)
    <3>1. typed = (t.focused = 2)
      <4>1. CASE e.type # "CLICKED"
        BY <1>10, <1>14, <4>1 DEF Handling
      <4>2. CASE e.type = "CLICKED"
        <5>1. typed = FALSE
          BY <1>10, <1>14, <4>2 DEF Handling
        <5>2. (t.focused = 2) = FALSE
          BY <1>4, <2>4, <4>2
        <5> QED
          BY <5>1, <5>2
      <4> QED
        BY <4>1, <4>2
    <3> QED
      BY <1>4, <1>11, <2>2, <2>3, <2>4, <3>1
  <2>5. CASE w = gui_focus_on_element(v, 3) /\ e.type = "CLICKED"
    <3>1. LET x == gui_focus_on_element(v, 3)
          IN  /\ IsUi(x) /\ ButFocus(v, x) /\ x.focused = 3
              /\ \E r : ForRoots(v, r) /\ x.events = v.events \o r
      <4>1. PICK i \in 1..Len(v.elements) : i = 3
        BY <1>1, <1>4
      <4>2. LET x == gui_focus_on_element(v, i)
            IN  /\ IsUi(x) /\ ButFocus(v, x) /\ x.focused = i
                /\ \E r : ForRoots(v, r) /\ x.events = v.events \o r
        BY <1>4, FocusKeeps
      <4> QED
        BY <4>1, <4>2
    <3>2. ButFocus(v, w) /\ w.focused = 3
      BY <2>5, <3>1
    <3>3. PICK r : ForRoots(v, r) /\ w.events = v.events \o r
      BY <2>5, <3>1
    <3>4. IsFocusing(u.events)
      BY <1>4, <1>10, <2>2, <3>3, FocusingTwice DEF ForRoots
    <3>5. typed = FALSE
      BY <1>10, <1>14, <2>5 DEF Handling
    <3>6. Stored(w.field, str, w.recycled)
      BY <1>6, <3>2 DEF ButFocus
    <3>7. typed = (w.focused = 2) /\ w.focused \in {2, 3}
      <4>1. (w.focused = 2) = FALSE
        BY <3>2
      <4> QED
        BY <3>2, <3>5, <4>1
    <3> QED
      BY <1>9, <2>3, <3>4, <3>6, <3>7, SettledAfter
  <2> QED
    BY <1>14, <2>1, <2>4, <2>5
<1> QED
  BY <1>5, <1>12, <1>13, <1>14

\* What the user of the form does: a click beside, on the field or on the image, or a key.
LEMMA FormInput ==
    ASSUME IsUi(s), program = "form", FormLaid(s, 4), NEW event \in UserInputs
    PROVE  \/ event.type = "MOUSE_MOVE"
           \/ event.type = "KEY_PRESS" /\ event.key \in Nat \ {NUL}
           \/ /\ event.type = "MOUSE_CLICK"
              /\ \/ event.x = 0 /\ event.y = 0
                 \/ event.x = 10 /\ event.y = 59
                 \/ event.x = 100 /\ event.y = 59
<1>1. CASE event = [type |-> "MOUSE_MOVE"]
  BY <1>1
<1>2. CASE event \in {[type |-> "KEY_PRESS", key |-> k] : k \in Keys}
  BY <1>2, UserlandAssumption
<1>3. CASE event \in UserClicks
  <2>1. CASE event = [type |-> "MOUSE_CLICK", x |-> 0, y |-> 0]
    BY <2>1
  <2>2. CASE \E r \in {r \in 1..Len(s.elements) :
                          /\ s.elements[r].parent = NULL
                          /\ program = "calculator" => s.elements[r].id \in Pressed} :
                LET e == s.elements[r]
                IN event = [type |-> "MOUSE_CLICK",
                            x |-> IF e.id % 2 = 0 THEN e.x ELSE e.x + e.width - 1,
                            y |-> IF e.id % 2 = 0 THEN e.y + e.height - 1 ELSE e.y]
    <3>1. PICK t : t = s /\ FormLaid(t, 4)
      OBVIOUS
    <3>2. PICK r \in 1..Len(t.elements) :
                LET e == t.elements[r]
                IN  /\ t.elements[r].parent = NULL
                    /\ event = [type |-> "MOUSE_CLICK",
                                x |-> IF e.id % 2 = 0 THEN e.x ELSE e.x + e.width - 1,
                                y |-> IF e.id % 2 = 0 THEN e.y + e.height - 1 ELSE e.y]
      BY <2>2, <3>1
    <3>8. PICK e : e = t.elements[r]
      OBVIOUS
    <3>3. r = 1 \/ r = 3
      BY <3>1, <3>2 DEF FormLaid, FieldCover, Cover, NULL
    <3>4. e = FieldRoot \/ e = ImageRoot
      BY <3>1, <3>3, <3>8 DEF FormLaid
    <3>5. \/ e.id = 1000 /\ e.x = 10 /\ e.y = 10 /\ e.height = 50
          \/ e.id = 0 /\ e.x = 100 /\ e.y = 10 /\ e.height = 50
      BY <3>4 DEF FieldRoot, ImageRoot, Root, RESULT_TEXTFIELD, ImageId
    <3>6. e.id % 2 = 0
      <4>1. 1000 % 2 = 0 /\ 0 % 2 = 0
        OBVIOUS
      <4> QED
        BY <3>5, <4>1
    <3>7. event = [type |-> "MOUSE_CLICK", x |-> e.x, y |-> e.y + e.height - 1]
      BY <3>2, <3>6, <3>8
    <3> QED
      BY <3>5, <3>7
  <2> QED
    BY <1>3, <2>1, <2>2 DEF UserClicks
<1> QED
  BY <1>1, <1>2, <1>3 DEF UserInputs

\* What the clicks of the form's user hit.
LEMMA FormHit ==
    ASSUME NEW t, IsUi(t), FormLaid(t, 4)
    PROVE  /\ HitAt(t, 0, 0) = {} /\ ShownAt(t, 0, 0) = {}
           /\ OnlyHit(t, 10, 59, 1) /\ OnlyHit(t, 100, 59, 3)
<1>1. /\ Len(t.elements) = 3
      /\ t.elements[1].parent = NULL /\ t.elements[2].parent # NULL
      /\ t.elements[3].parent = NULL
  BY FormIs DEF NULL
<1>2. /\ t.elements[1].x = 10 /\ t.elements[1].y = 10
      /\ t.elements[1].width = 80 /\ t.elements[1].height = 50
      /\ t.elements[3].x = 100 /\ t.elements[3].y = 10
      /\ t.elements[3].width = 50 /\ t.elements[3].height = 50
  BY DEF FormLaid, FieldRoot, ImageRoot, Root
<1>3. \A i \in 1..3 : i = 1 \/ i = 2 \/ i = 3
  OBVIOUS
<1>4. \A x \in Nat, y \in Nat :
         /\ HitAt(t, x, y) = {i \in {1, 3} :
               /\ x \in t.elements[i].x..t.elements[i].x + t.elements[i].width
               /\ y \in t.elements[i].y..t.elements[i].y + t.elements[i].height}
         /\ ShownAt(t, x, y) = {i \in {1, 3} :
               /\ x \in t.elements[i].x..t.elements[i].x + t.elements[i].width - 1
               /\ y \in t.elements[i].y..t.elements[i].y + t.elements[i].height - 1}
  BY <1>1, <1>3 DEF HitAt, ShownAt, Roots, Children, gui_element_exists_in_position
<1>5. HitAt(t, 0, 0) = {} /\ ShownAt(t, 0, 0) = {}
  <2>1. PICK x \in Nat, y \in Nat : x = 0 /\ y = 0
    OBVIOUS
  <2>2. \A i \in {1, 3} : /\ x \notin t.elements[i].x..t.elements[i].x + t.elements[i].width
                          /\ x \notin t.elements[i].x..t.elements[i].x + t.elements[i].width - 1
    BY <1>2, <2>1
  <2>3. HitAt(t, x, y) = {} /\ ShownAt(t, x, y) = {}
    BY <1>4, <2>2
  <2> QED
    BY <2>1, <2>3
<1>6. OnlyHit(t, 10, 59, 1)
  <2>1. PICK x \in Nat, y \in Nat : x = 10 /\ y = 59
    OBVIOUS
  <2>2. /\ x \in t.elements[1].x..t.elements[1].x + t.elements[1].width
        /\ x \in t.elements[1].x..t.elements[1].x + t.elements[1].width - 1
        /\ y \in t.elements[1].y..t.elements[1].y + t.elements[1].height
        /\ y \in t.elements[1].y..t.elements[1].y + t.elements[1].height - 1
        /\ x \notin t.elements[3].x..t.elements[3].x + t.elements[3].width
        /\ x \notin t.elements[3].x..t.elements[3].x + t.elements[3].width - 1
    BY <1>2, <2>1
  <2>3. HitAt(t, x, y) = {1} /\ ShownAt(t, x, y) = {1}
    BY <1>4, <2>2
  <2> QED
    BY <2>1, <2>3 DEF OnlyHit
<1>7. OnlyHit(t, 100, 59, 3)
  <2>1. PICK x \in Nat, y \in Nat : x = 100 /\ y = 59
    OBVIOUS
  <2>2. /\ x \in t.elements[3].x..t.elements[3].x + t.elements[3].width
        /\ x \in t.elements[3].x..t.elements[3].x + t.elements[3].width - 1
        /\ y \in t.elements[3].y..t.elements[3].y + t.elements[3].height
        /\ y \in t.elements[3].y..t.elements[3].y + t.elements[3].height - 1
        /\ x \notin t.elements[1].x..t.elements[1].x + t.elements[1].width
        /\ x \notin t.elements[1].x..t.elements[1].x + t.elements[1].width - 1
    BY <1>2, <2>1
  <2>3. HitAt(t, x, y) = {3} /\ ShownAt(t, x, y) = {3}
    BY <1>4, <2>2
  <2> QED
    BY <2>1, <2>3 DEF OnlyHit
<1> QED
  BY <1>5, <1>6, <1>7

\* The form's text is its keys', but for the newest event.
FormEnteringInv == program = "form" =>
    /\ pc = "main" => expect = <<>> /\ typing = TRUE
    /\ Running => /\ FormEntering(s, expect, typing, before)
                  /\ pc # "process" => IsFocusing(s.events)

\* The account is of the focus, the field and the events alone.
LEMMA FormEnteringAgain ==
    ASSUME NEW t, NEW expected, NEW typed, NEW old, FormEntering(t, expected, typed, old),
           NEW u, u.focused = t.focused, u.field = t.field, u.recycled = t.recycled,
           u.events = t.events
    PROVE  FormEntering(u, expected, typed, old)
<1>1. PICK str : Stored(t.field, str, t.recycled) /\ Entered(t, str, expected, typed, old)
  BY DEF FormEntering
<1>2. ASSUME NEW e, Handling(t, e, str, expected, typed, old)
      PROVE  Handling(u, e, str, expected, typed, old)
  BY <1>2 DEF Handling
<1>3. Settled(t, str, expected, typed) => Settled(u, str, expected, typed)
  BY DEF Settled
<1>4. Entered(u, str, expected, typed, old)
  BY <1>1, <1>2, <1>3 DEF Entered
<1> QED
  BY <1>1, <1>4 DEF FormEntering

\* With nothing but focus events waiting the text is what was entered.
LEMMA SettledIs ==
    ASSUME NEW t, NEW str, NEW expected, NEW typed, NEW old,
           Entered(t, str, expected, typed, old), IsFocusing(t.events)
    PROVE  expected = str /\ typed = (t.focused = 2)
<1>1. ASSUME NEW q \in Seq(EventType), NEW e \in EventType, t.events = q \o <<e>>,
             Handling(t, e, str, expected, typed, old)
      PROVE  FALSE
  <2>1. t.events # <<>> /\ Last(t.events) = e
    BY <1>1, FrontOfLonger
  <2>2. e.type \in {"FOCUSED", "UNFOCUSED"}
    BY <2>1, FrontOfFocusing
  <2> QED
    BY <1>1, <2>2 DEF Handling
<1> QED
  BY <1>1 DEF Entered, Settled

\* What the form's text and focus should become by a window event that is not lost.
Wanted(event, expected, typed) ==
    /\ event.type = "MOUSE_MOVE" => expected = expect /\ typed = typing
    /\ event.type = "KEY_PRESS" =>
          /\ expected = IF typing THEN AfterKey(expect, event.key) ELSE expect
          /\ typed = typing
    /\ event.type = "MOUSE_CLICK" =>
          /\ expected = expect
          /\ typed = (typing /\ ~(ImageId \in At(event.x, event.y)))

\* Taking a window event keeps the form's account.
LEMMA FormTaken ==
    ASSUME UiInv, FormEnteringInv, program = "form", gui_process_events
    PROVE  FormEntering(s', expect', typing', before')
<1>1. /\ pc = "get" /\ Running /\ FormLaid(s, 4) /\ IsUi(s)
  BY DEF gui_process_events, Running, UiInv, Laid, TotalCalls
<1>2. /\ s.focused \in {2, 3} /\ IsFocusing(s.events)
      /\ FormEntering(s, expect, typing, before)
  BY <1>1 DEF FormEnteringInv, FormEntering
<1>3. PICK str : Stored(s.field, str, s.recycled) /\ Entered(s, str, expect, typing, before)
  BY <1>2 DEF FormEntering
<1>4. expect = str /\ typing = (s.focused = 2)
  BY <1>2, <1>3, SettledIs
<1>5. PICK event, u, gone : event \in UserInputs /\ TakenAs(event, u, gone)
  BY EventTaken
<1>6. \/ event.type = "MOUSE_MOVE"
      \/ event.type = "KEY_PRESS" /\ event.key \in Nat \ {NUL}
      \/ /\ event.type = "MOUSE_CLICK"
         /\ \/ event.x = 0 /\ event.y = 0
            \/ event.x = 10 /\ event.y = 59
            \/ event.x = 100 /\ event.y = 59
  BY <1>1, <1>5, FormInput
<1>7. PICK expected, typed :
          /\ Wanted(event, expected, typed)
          /\ expect' = IF EntryLost(u, gone) THEN expect ELSE expected
          /\ typing' = IF EntryLost(u, gone) THEN typing ELSE typed
  <2>1. CASE EntryLost(u, gone)
    <3>1. expect' = expect /\ typing' = typing
      BY <1>5, <2>1 DEF TakenAs
    <3>2. \E expected, typed : Wanted(event, expected, typed)
      <4>1. CASE event.type = "MOUSE_MOVE"
        <5>1. Wanted(event, expect, typing)
          BY <4>1 DEF Wanted
        <5> QED
          BY <5>1
      <4>2. CASE event.type = "KEY_PRESS"
        <5>1. Wanted(event, IF typing THEN AfterKey(expect, event.key) ELSE expect, typing)
          BY <4>2 DEF Wanted
        <5> QED
          BY <5>1
      <4>3. CASE event.type = "MOUSE_CLICK"
        <5>1. Wanted(event, expect, typing /\ ~(ImageId \in At(event.x, event.y)))
          BY <4>3 DEF Wanted
        <5> QED
          BY <5>1
      <4> QED
        BY <1>6, <4>1, <4>2, <4>3
    <3> QED
      BY <2>1, <3>1, <3>2
  <2>2. CASE ~EntryLost(u, gone)
    <3>1. Expect(event)
      BY <1>5, <2>2 DEF TakenAs
    <3>2. Wanted(event, expect', typing')
      <4>1. CASE event.type = "MOUSE_MOVE"
        BY <3>1, <4>1 DEF Expect, Wanted
      <4>2. CASE event.type = "KEY_PRESS"
        BY <3>1, <4>2 DEF Expect, Wanted
      <4>3. CASE event.type = "MOUSE_CLICK"
        BY <3>1, <4>3 DEF Expect, Wanted
      <4> QED
        BY <1>6, <4>1, <4>2, <4>3
    <3> QED
      BY <2>2, <3>2
  <2> QED
    BY <2>1, <2>2
<1>8. PICK q, old : q = s.events /\ old = [text |-> expect, typing |-> typing]
  OBVIOUS
<1>16. old.text = str /\ old.typing = (s.focused = 2)
  BY <1>4, <1>8
<1>15. SUFFICES FormPushed(u, q, expected, typed, old)
  <2>1. PICK v, known, used, new :
            v = s' /\ known = expect' /\ used = typing' /\ new = before'
    OBVIOUS
  <2>2. IsUi(u) /\ \E r \in Seq(EventType) : u.events = q \o r
    <3>1. /\ u = gui_process_event(s, event)
          /\ \/ event.type = "MOUSE_MOVE"
             \/ event.type = "MOUSE_CLICK" /\ event.x \in Int /\ event.y \in Int
             \/ event.type = "KEY_PRESS" /\ event.key \in Nat /\ program = "form"
      BY <1>5 DEF TakenAs
    <3> QED
      BY <1>1, <1>8, <3>1, TakenIs
  <2>3. PICK r \in Seq(EventType) : u.events = q \o r
    BY <2>2
  <2>4. /\ IsFocusing(q) /\ gone \in SUBSET Pushes(u, q) /\ v = Without(u, q, gone)
        /\ known = IF EntryLost(u, gone) THEN old.text ELSE expected
        /\ used = IF EntryLost(u, gone) THEN old.typing ELSE typed
        /\ v.events # <<>> => new = old
    BY <1>2, <1>5, <1>7, <1>8, <2>1 DEF TakenAs, Pushed, gui_process_events
  <2>5. FormPushed(u, q, expected, typed, old) => FormEntering(v, known, used, new)
    BY ONLY <2>2, <2>3, <2>4, FormLeft
  <2> QED
    BY <2>1, <2>5
<1>9. ASSUME ButEvents(s, u), NEW e \in EventType, u.events = s.events \o <<e>>,
             Handling(s, e, str, expected, typed, old)
      PROVE  FormPushed(u, q, expected, typed, old)
  <2>1. u.focused = s.focused /\ u.field = s.field /\ u.recycled = s.recycled
    BY <1>9 DEF ButEvents
  <2>2. Handling(u, e, str, expected, typed, old)
    BY <1>9, <2>1 DEF Handling
  <2>3. u.events = q \o <<e>> /\ Stored(u.field, str, u.recycled) /\ u.focused \in {2, 3}
    BY <1>2, <1>3, <1>8, <1>9, <2>1
  <2> QED
    BY <2>2, <2>3 DEF FormPushed
<1>10. ASSUME ButEvents(s, u), u.events = s.events, expected = expect, typed = typing
       PROVE  FormPushed(u, q, expected, typed, old)
  <2>1. IsFocusing(u.events) /\ expected = str /\ typed = (s.focused = 2)
    BY <1>2, <1>4, <1>10
  <2> QED
    BY <1>2, <1>3, <1>10, <2>1, SettledAfter
<1>11. CASE event.type = "MOUSE_MOVE"
  <2>1. ButEvents(s, u) /\ u.events = s.events
    <3>1. LET v == gui_process_event(s, event)
          IN  /\ IsUi(v) /\ ButEvents(s, v)
              /\ \E p \in Seq(EventType) : v.events = s.events \o p
              /\ event.type = "MOUSE_MOVE" => v.events = s.events
              /\ event.type = "MOUSE_CLICK" =>
                    v.events = s.events \o Sent(InOrder(Roots(s) \cap
                       {i \in 1..Len(s.elements) : gui_element_exists_in_position(
                            s.elements[i], event.x, event.y)}), Click(event.x, event.y))
              /\ event.type = "KEY_PRESS" =>
                    v.events = IF s.focused = NULL THEN s.events
                               ELSE s.events \o Sent(<<s.focused>>, KeyStroke(event.key))
      BY <1>1, <1>11, TakenIs
    <3> QED
      BY <1>5, <1>11, <3>1 DEF TakenAs
  <2>2. expected = expect /\ typed = typing
    BY <1>7, <1>11 DEF Wanted
  <2> QED
    BY <1>10, <2>1, <2>2
<1>12. CASE event.type = "KEY_PRESS" /\ event.key \in Nat \ {NUL}
  <2>1. ButEvents(s, u) /\ u.events = s.events \o Sent(<<s.focused>>, KeyStroke(event.key))
    <3>1. LET v == gui_process_event(s, event)
          IN  /\ IsUi(v) /\ ButEvents(s, v)
              /\ \E p \in Seq(EventType) : v.events = s.events \o p
              /\ event.type = "MOUSE_MOVE" => v.events = s.events
              /\ event.type = "MOUSE_CLICK" =>
                    v.events = s.events \o Sent(InOrder(Roots(s) \cap
                       {i \in 1..Len(s.elements) : gui_element_exists_in_position(
                            s.elements[i], event.x, event.y)}), Click(event.x, event.y))
              /\ event.type = "KEY_PRESS" =>
                    v.events = IF s.focused = NULL THEN s.events
                               ELSE s.events \o Sent(<<s.focused>>, KeyStroke(event.key))
      BY <1>1, <1>12, TakenIs
    <3>2. s.focused # NULL
      BY <1>2 DEF NULL
    <3> QED
      BY <1>5, <1>12, <3>1, <3>2 DEF TakenAs
  <2>0. PICK i \in Nat : i = s.focused
    BY <1>2
  <2>2. PICK c : c = KeyStroke(event.key)
    OBVIOUS
  <2>3. c \in EventType /\ c.type = "KEYSTROKE" /\ c.value = event.key
    <3>1. "KEYSTROKE" \in EventKinds /\ 0 \in Int /\ event.key \in Nat
      BY <1>12 DEF EventKinds
    <3> QED
      BY <2>2, <3>1, EventIsTyped
  <2>4. PICK d : d = [c EXCEPT !.element = i]
    OBVIOUS
  <2>5. d \in EventType /\ d.element = i /\ d.type = "KEYSTROKE" /\ d.value = event.key
    <3>1. LET f == [c EXCEPT !.element = i]
          IN  f \in EventType /\ f.element = i /\ f.type = c.type /\ f.value = c.value
      BY <2>3, EventFor
    <3> QED
      BY <2>3, <2>4, <3>1
  <2>6. u.events = s.events \o <<d>>
    BY <2>0, <2>1, <2>2, <2>3, <2>4, SentToOne
  <2>7. expected = (IF typing THEN AfterKey(expect, event.key) ELSE expect) /\ typed = typing
    BY <1>7, <1>12 DEF Wanted
  <2>8. Handling(s, d, str, expected, typed, old)
    <3>1. d.type = "KEYSTROKE" /\ d.element = s.focused /\ d.value # NUL
      BY <1>12, <2>0, <2>5
    <3>2. typed = (s.focused = 2)
      BY <1>4, <2>7
    <3>3. expected = IF typed THEN AfterKey(str, d.value) ELSE str
      BY <1>4, <2>5, <2>7
    <3> QED
      BY <1>16, <3>1, <3>2, <3>3 DEF Handling
  <2> QED
    BY <1>9, <2>1, <2>5, <2>6, <2>8
<1>13. CASE event.type = "MOUSE_CLICK"
  <2>1. PICK x \in Int, y \in Int : x = event.x /\ y = event.y
    BY <1>6, <1>13
  <2>2. ClickSent(s, x, y, u)
    <3>1. u = gui_process_event(s, event)
      BY <1>5 DEF TakenAs
    <3> QED
      BY <1>1, <1>13, <2>1, <3>1, ClickTaken
  <2>3. /\ ButEvents(s, u)
        /\ HitAt(s, x, y) = {} => u.events = s.events
        /\ \A r \in 1..Len(s.elements) : HitAt(s, x, y) = {r} =>
              \E e \in EventType : /\ u.events = s.events \o <<e>>
                                   /\ e.type = "CLICKED" /\ e.element = r
    BY <2>2 DEF ClickSent
  <2>4. /\ expected = expect
        /\ typed = (typing /\ ~(ImageId \in At(x, y)))
    BY <1>7, <1>13, <2>1 DEF Wanted
  <2>5. At(x, y) = {s.elements[r].id : r \in ShownAt(s, x, y)}
    BY AtIs
  <2>6. /\ s.elements[1].id = 1000 /\ s.elements[3].id = 0 /\ ImageId = 0
        /\ 1 \in 1..Len(s.elements) /\ 3 \in 1..Len(s.elements)
    BY <1>1 DEF FormLaid, FieldRoot, ImageRoot, Root, RESULT_TEXTFIELD, ImageId
  <2>7. CASE x = 0 /\ y = 0
    <3>1. HitAt(s, x, y) = {} /\ ShownAt(s, x, y) = {}
      BY <1>1, <2>7, FormHit
    <3>2. ~(ImageId \in At(x, y))
      BY <2>5, <3>1
    <3>3. typed = typing
      BY <1>4, <2>4, <3>2
    <3> QED
      BY <1>10, <2>3, <2>4, <3>1, <3>3
  <2>8. CASE x = 10 /\ y = 59
    <3>1. HitAt(s, x, y) = {1} /\ ShownAt(s, x, y) = {1}
      BY <1>1, <2>8, FormHit DEF OnlyHit
    <3>2. ~(ImageId \in At(x, y))
      BY <2>5, <2>6, <3>1
    <3>3. typed = typing
      BY <1>4, <2>4, <3>2
    <3>4. PICK e \in EventType : /\ u.events = s.events \o <<e>>
                                 /\ e.type = "CLICKED" /\ e.element = 1
      <4>1. PICK r \in 1..Len(s.elements) : r = 1
        BY <2>6
      <4>2. HitAt(s, x, y) = {r}
        BY <3>1, <4>1
      <4>3. \E e \in EventType : /\ u.events = s.events \o <<e>>
                                /\ e.type = "CLICKED" /\ e.element = r
        BY <2>3, <4>2
      <4> QED
        BY <4>1, <4>3
    <3>5. Handling(s, e, str, expected, typed, old)
      BY <1>4, <1>16, <2>4, <3>3, <3>4 DEF Handling
    <3> QED
      BY <1>9, <2>3, <3>4, <3>5
  <2>9. CASE x = 100 /\ y = 59
    <3>1. HitAt(s, x, y) = {3} /\ ShownAt(s, x, y) = {3}
      BY <1>1, <2>9, FormHit DEF OnlyHit
    <3>2. ImageId \in At(x, y)
      BY <2>5, <2>6, <3>1
    <3>3. typed = FALSE
      BY <2>4, <3>2
    <3>4. PICK e \in EventType : /\ u.events = s.events \o <<e>>
                                 /\ e.type = "CLICKED" /\ e.element = 3
      <4>1. PICK r \in 1..Len(s.elements) : r = 3
        BY <2>6
      <4>2. HitAt(s, x, y) = {r}
        BY <3>1, <4>1
      <4>3. \E e \in EventType : /\ u.events = s.events \o <<e>>
                                /\ e.type = "CLICKED" /\ e.element = r
        BY <2>3, <4>2
      <4> QED
        BY <4>1, <4>3
    <3>5. Handling(s, e, str, expected, typed, old)
      BY <1>4, <1>16, <2>4, <3>3, <3>4 DEF Handling
    <3> QED
      BY <1>9, <2>3, <3>4, <3>5
  <2> QED
    BY <1>6, <1>13, <2>1, <2>7, <2>8, <2>9
<1> QED
  BY <1>6, <1>11, <1>12, <1>13

LEMMA FormEnteringInit == Init => FormEnteringInv
BY DEF Init, FormEnteringInv, Running

LEMMA FormEnteringNext == UiInv /\ FormEnteringInv /\ [Next]_vars => FormEnteringInv'
<1> SUFFICES ASSUME UiInv, FormEnteringInv, [Next]_vars, program = "form",
                    program' = program
             PROVE  FormEnteringInv'
  <2>1. [Next]_vars => program' = program
    BY DEF Next, vars, MakeOne, MakeFails, AddFails, Ready, gui_redraw_if_required, NoEvent,
           gui_process_events, gui_element_events_process
  <2> QED
    BY <2>1 DEF FormEnteringInv
<1>1. CASE MakeOne \/ MakeFails
  BY <1>1 DEF MakeOne, MakeFails, Call, FormEnteringInv, Running, ghosts
<1>2. CASE AddFails
  BY <1>2 DEF AddFails
<1>3. CASE Ready
  <2>1. /\ pc = "main" /\ calls = 4 /\ s' = s /\ expect' = expect /\ typing' = typing
        /\ pc' = "redraw" /\ expect = <<>> /\ typing = TRUE /\ before' = before
    BY <1>3 DEF Ready, FormEnteringInv, TotalCalls, ghosts
  <2>2. Making("form", 4, s)
    BY <2>1 DEF UiInv
  <2>3. s.focused = 2 /\ Stored(s.field, <<>>, s.recycled)
    BY <2>2 DEF Making
  <2>4. IsFocusing(s.events)
    BY <2>2 DEF Making
  <2>5. (s.focused = 2) = TRUE
    BY <2>3
  <2>6. Settled(s, <<>>, expect, typing)
    BY <2>1, <2>4, <2>5 DEF Settled
  <2>7. FormEntering(s, expect, typing, before)
    BY <2>3, <2>6 DEF FormEntering, Entered
  <2> QED
    BY <2>1, <2>4, <2>7 DEF FormEnteringInv
<1>4. CASE gui_redraw_if_required
  <2>1. /\ Running /\ pc # "process" /\ s' = [s EXCEPT !.must_draw = FALSE]
        /\ expect' = expect /\ typing' = typing /\ before' = before
    BY <1>4 DEF gui_redraw_if_required, Running
  <2>2. IsUi(s) /\ FormEntering(s, expect, typing, before) /\ IsFocusing(s.events)
    BY <2>1 DEF UiInv, FormEnteringInv
  <2>3. ButField(s, s') /\ s'.field = s.field
    <3>1. LET u == [s EXCEPT !.must_draw = FALSE]
          IN  /\ IsUi(u) /\ ButField(s, u) /\ u.field = s.field /\ u.must_draw = FALSE
              /\ u.wild = s.wild /\ u.recycled = s.recycled
      BY <2>2, RedrawnIs
    <3> QED
      BY <2>1, <3>1
  <2>4. s'.events = s.events /\ s'.focused = s.focused /\ s'.recycled = s.recycled
    BY <2>3 DEF ButField
  <2>5. FormEntering(s', expect, typing, before)
    BY <2>2, <2>3, <2>4, FormEnteringAgain
  <2>6. pc' = "get"
    BY <1>4 DEF gui_redraw_if_required
  <2> QED
    BY <2>1, <2>2, <2>4, <2>5, <2>6 DEF FormEnteringInv
<1>5. CASE NoEvent
  BY <1>5 DEF NoEvent, FormEnteringInv, Running, ghosts
<1>6. CASE gui_process_events
  <2>1. FormEntering(s', expect', typing', before')
    BY <1>6, FormTaken
  <2>2. pc' \in {IF s'.events = <<>> THEN "get" ELSE "process", "wild"}
    BY <1>6 DEF gui_process_events, Pending
  <2>3. IsFocusing(<<>>)
    BY DEF IsFocusing
  <2> QED
    BY <2>1, <2>2, <2>3 DEF FormEnteringInv, Running
<1>7. CASE gui_element_events_process
  <2>1. /\ pc = "process" /\ (s'.events # <<>> => before' = before)
        /\ pc' \in {IF s'.events = <<>> THEN "get" ELSE "process", "wild"}
    BY <1>7 DEF gui_element_events_process, Pending
  <2>2. IsUi(s) /\ FormLaid(s, 4) /\ FormEntering(s, expect, typing, before)
    BY <2>1 DEF UiInv, FormEnteringInv, Running, Laid, TotalCalls
  <2>3. PICK done, gone : /\ s.events # <<>> /\ Keeps(Heard(s), done)
                          /\ HandledAs(done, gone)
    BY <1>7, EventHandled DEF HandledAs
  <2>4. PICK q, v, known, used, new :
            /\ q = Front(s.events) /\ v = s' /\ known = expect' /\ used = typing'
            /\ new = before'
    OBVIOUS
  <2>5. FormPushed(done, q, expect, typing, before) /\ IsFocusing(q)
    BY <2>2, <2>3, <2>4, FormDispatched DEF HandledAs
  <2>6. IsUi(done) /\ \E r \in Seq(EventType) : done.events = q \o r
    BY <2>2, <2>3, <2>4, HandledKeeps DEF Keeps
  <2>7. PICK r \in Seq(EventType) : done.events = q \o r
    BY <2>6
  <2>8. /\ gone \in SUBSET Pushes(done, q) /\ v = Without(done, q, gone)
        /\ known = IF EntryLost(done, gone) THEN before.text ELSE expect
        /\ used = IF EntryLost(done, gone) THEN before.typing ELSE typing
        /\ v.events # <<>> => new = before
    BY <2>1, <2>3, <2>4 DEF HandledAs, Pushed
  <2>9. FormEntering(v, known, used, new)
    BY ONLY <2>5, <2>6, <2>7, <2>8, FormLeft
  <2>10. IsFocusing(<<>>)
    BY DEF IsFocusing
  <2> QED
    BY <2>1, <2>4, <2>9, <2>10 DEF FormEnteringInv, Running
<1>8. CASE UNCHANGED vars
  BY <1>8 DEF vars, FormEnteringInv, Running
<1> QED
  BY <1>1, <1>2, <1>3, <1>4, <1>5, <1>6, <1>7, <1>8 DEF Next

(* At rest the calculator and the form show what the presses and keys      *)
(* taken so far make of the text, but for those whose event found no       *)
(* memory (event.c:289-291) and which did nothing at all: for every screen,*)
(* font, set of buttons pressed, keys, events lost and memory recycled.    *)
THEOREM TextEntered == Spec => []TextIsWhatWasEntered
<1>1. Init => EnteringInv /\ FormEnteringInv
  BY EnteringInit, FormEnteringInit
<1>2. UiInv /\ EnteringInv /\ FormEnteringInv /\ [Next]_vars
      => EnteringInv' /\ FormEnteringInv'
  BY EnteringNext, FormEnteringNext
<1>3. UiInv /\ EnteringInv /\ FormEnteringInv => TextIsWhatWasEntered
  <2> SUFFICES ASSUME UiInv, EnteringInv, FormEnteringInv, Idle, program # "blank"
               PROVE  \/ gui_element_textfield_text(s) = expect
                      \/ /\ s.recycled # NUL
                         /\ Len(s.field.text) > TEXTFIELD_DEFAULT_BUFFER_SIZE
                         /\ IsPrefix(expect, gui_element_textfield_text(s))
    BY DEF TextIsWhatWasEntered
  <2>1. /\ Running /\ pc # "process" /\ s.events = <<>> /\ IsUi(s)
        /\ program \in {"calculator", "form"} /\ Laid(program, TotalCalls[program], s)
    BY DEF Idle, Running, UiInv
  <2>2. CASE program = "calculator"
    <3>1. CalculatorLaid(s, 17) /\ Entering(s, expect, before.text)
      BY <2>1, <2>2 DEF Laid, TotalCalls, EnteringInv
    <3>2. PICK str \in Seq(Symbols) : Display(s, str) /\ expect = str
      <4>1. \A e : <<e>> # <<>>
        OBVIOUS
      <4> QED
        BY <2>1, <3>1, <4>1 DEF Entering
    <3>3. s.field.element # NULL
      BY <3>1 DEF CalculatorLaid, NULL
    <3> QED
      BY <2>1, <3>2, <3>3, DisplayIsShown
  <2>3. CASE program = "form"
    <3>1. /\ FormLaid(s, 4) /\ FormEntering(s, expect, typing, before)
          /\ IsFocusing(s.events)
      BY <2>1, <2>3 DEF Laid, TotalCalls, FormEnteringInv
    <3>2. PICK str : /\ Stored(s.field, str, s.recycled)
                     /\ Entered(s, str, expect, typing, before)
      BY <3>1 DEF FormEntering
    <3>3. expect = str
      BY <3>1, <3>2, SettledIs
    <3>4. s.field.element # NULL
      BY <2>1, <3>1, FormIs
    <3>5. PICK f, junk : f = s.field /\ junk = s.recycled
      OBVIOUS
    <3>6. f.text \in Seq(Nat) /\ f.index \in Nat /\ f.index < Len(f.text) /\ junk \in Nat
      <4>1. s.recycled \in Nat
        BY <2>1 DEF IsUi, UiType
      <4> QED
        BY <2>1, <3>4, <3>5, <4>1, FieldIs
    <3>7. \/ CString(f.text) = str
          \/ /\ junk # NUL /\ Len(f.text) > TEXTFIELD_DEFAULT_BUFFER_SIZE
             /\ IsPrefix(str, CString(f.text))
      BY <3>2, <3>5, <3>6, StoredIsShown
    <3> QED
      BY <3>3, <3>5, <3>7 DEF gui_element_textfield_text
  <2> QED
    BY <2>1, <2>2, <2>3
<1> QED
  BY <1>1, <1>2, <1>3, UiAlways, PTL DEF Spec

-----------------------------------------------------------------------------
(* The vector of the container library, for every set of elements, every   *)
(* reservation and every bound: its elements lie in its block, it is a     *)
(* list, and its sort sorts.                                               *)

Cell_ == Element \cup {Unwritten}

LEMMA CellType == VectorInv => \A k : Cell(k) \in Cell_
<1> SUFFICES ASSUME VectorInv, NEW k PROVE Cell(k) \in Cell_
    OBVIOUS
<1>1. CASE k \in DOMAIN memory
    BY <1>1 DEF VectorInv, Cell, Cell_
<1>2. CASE k \notin DOMAIN memory
    BY <1>2 DEF Cell, Cell_
<1> QED BY <1>1, <1>2

(* The type invariant holds of an empty vector.                            *)
LEMMA InvInit == VectorInit => VectorInv
BY DEF VectorInit, VectorInv, Cells

LEMMA InvNext == VectorInv /\ [VectorNext]_vectorVars => VectorInv'
<1> SUFFICES ASSUME VectorInv, [VectorNext]_vectorVars PROVE VectorInv'
    OBVIOUS
<1> USE VectorAssumption DEF VectorInv, NotSorting, AtRest
<1>c. \A k : Cell(k) \in Cell_
    BY CellType
<1>1. ASSUME NEW x \in Element, vector_push(x) PROVE VectorInv'
    <2>1. CASE HasRoom(1)
        <3>1. memory' = Written(memory, t_elems, x) /\ tm_elems' = tm_elems /\ block' = block
            BY <1>1, <2>1 DEF vector_push
        <3>2. t_elems' = t_elems + 1 /\ loop' = loop
            BY <1>1 DEF vector_push
        <3> QED BY <2>1, <3>1, <3>2, <1>1 DEF HasRoom, Written, vector_push
    <2>2. CASE ~HasRoom(1)
        <3>1. /\ tm_elems' = Reserved + t_elems + 1 /\ block' = "held"
              /\ memory' = [k \in 0..Reserved + t_elems |->
                              IF k = t_elems THEN x ELSE Cell(k)]
            BY <1>1, <2>2 DEF vector_push
        <3>2. t_elems' = t_elems + 1 /\ loop' = loop
            BY <1>1 DEF vector_push
        <3>3. memory' \in [0..tm_elems' - 1 -> Element \cup {Unwritten}]
            BY <3>1, <1>c DEF Cell_
        <3> QED BY <3>1, <3>2, <3>3, <1>1 DEF vector_push
    <2> QED BY <2>1, <2>2
<1>2. ASSUME NEW n \in Grown, vector_grow(n) PROVE VectorInv'
    <2>0. n \in Nat /\ t_elems' = t_elems + n /\ loop' = loop
        BY <1>2 DEF vector_grow
    <2>1. CASE HasRoom(n) /\ UNCHANGED <<memory, tm_elems, block>>
        BY <1>2, <2>0, <2>1 DEF HasRoom, vector_grow
    <2>2. CASE Moved(n)
        <3>1. /\ tm_elems' = Reserved + t_elems + n /\ block' = "held"
              /\ memory' = [k \in 0..Reserved + t_elems + n - 1 |-> Cell(k)]
            BY <2>2 DEF Moved
        <3>2. memory' \in [0..tm_elems' - 1 -> Element \cup {Unwritten}]
            BY <3>1, <1>c DEF Cell_
        <3> QED BY <2>0, <3>1, <3>2, <1>2 DEF vector_grow
    <2> QED BY <1>2, <2>1, <2>2 DEF vector_grow
<1>3. ASSUME NEW n \in Grown \cup {1}, ResizeFails(n) PROVE VectorInv'
    BY <1>3 DEF ResizeFails, Cells
<1>4. CASE vector_pop
    BY <1>4 DEF vector_pop
<1>5. ASSUME NEW x \in Element, vector_pop_element(x) PROVE VectorInv'
    <2>1. /\ t_elems' = t_elems - 1 /\ loop' = loop /\ loop = NotSorting
          /\ tm_elems' = tm_elems /\ block' = block
        BY <1>5 DEF vector_pop_element
    <2>2. PICK p \in 0..t_elems - 1 :
              /\ Cell(p) = x
              /\ memory' = IF p = t_elems - 1 THEN memory
                           ELSE [k \in DOMAIN memory |->
                                  IF k \in p..t_elems - 2 THEN Cell(k + 1) ELSE memory[k]]
        BY <1>5 DEF vector_pop_element, Holds
    <2>3. memory' \in [0..tm_elems - 1 -> Element \cup {Unwritten}]
        BY <2>2, <1>c DEF Cell_
    <2>4. block = "held"
        BY <2>2 DEF Cell
    <2>5. t_elems - 1 \in 0..tm_elems
        OBVIOUS
    <2> QED BY <2>1, <2>3, <2>4, <2>5
<1>6. ASSUME NEW k \in 0..t_elems - 1, NEW x \in Element, vector_overwrite(k, x)
      PROVE  VectorInv'
    BY <1>6 DEF vector_overwrite, Written
<1>7. CASE ReorderStarts
    BY <1>7 DEF ReorderStarts
<1>8. CASE Compare
    <2>1. t_elems' = t_elems /\ tm_elems' = tm_elems /\ block' = block /\ loop' = After(loop)
        BY <1>8 DEF Compare
    <2>2. loop \in [i : Nat, j : Nat] /\ loop.j + 1 < t_elems
        BY <1>8 DEF Compare
    <2>3. \/ loop' = NotSorting
          \/ loop' \in [i : Nat, j : Nat] /\ loop'.j + 1 < t_elems
        BY <2>1, <2>2 DEF After
    <2>4. memory' \in [0..tm_elems - 1 -> Element \cup {Unwritten}]
        BY <1>8, <1>c, <2>2 DEF Compare, Written, Cell_
    <2>5. block = "lost" => memory' = memory
        BY <1>8 DEF Compare, Written
    <2> QED BY <2>1, <2>3, <2>4, <2>5
<1>9. CASE UNCHANGED vectorVars
    BY <1>9 DEF vectorVars
<1> QED BY <1>1, <1>2, <1>3, <1>4, <1>5, <1>6, <1>7, <1>8, <1>9 DEF VectorNext

(* The elements of a vector lie in its block, after any calls with any     *)
(* allocations failing.                                                    *)
THEOREM VectorIsSound == VectorSpec => []VectorInv
BY InvInit, InvNext, PTL DEF VectorSpec

-----------------------------------------------------------------------------
(* The vector as a list *)

(* The contents are a sequence of as many cells as there are elements.     *)
LEMMA ContentsType ==
    VectorInv => /\ Contents \in Seq(Cell_) /\ Len(Contents) = t_elems
                 /\ \A k \in 1..t_elems : Contents[k] = Cell(k - 1)
<1> SUFFICES ASSUME VectorInv
             PROVE  /\ Contents \in Seq(Cell_) /\ Len(Contents) = t_elems
                    /\ \A k \in 1..t_elems : Contents[k] = Cell(k - 1)
    OBVIOUS
<1>1. t_elems \in Nat /\ \A k : Cell(k) \in Cell_
    BY CellType DEF VectorInv
<1>2. Contents = [k \in 1..t_elems |-> Cell(k - 1)]
    BY DEF Contents
<1> HIDE DEF Contents
<1>3. Contents \in [1..t_elems -> Cell_]
    BY <1>1, <1>2
<1> QED BY <1>1, <1>2, <1>3

LEMMA ContentsTypePrime ==
    ASSUME VectorInv'
    PROVE  /\ Contents' \in Seq(Cell_) /\ Len(Contents') = t_elems'
           /\ \A k \in 1..t_elems' : Contents'[k] = (Cell(k - 1))'
<1> SUFFICES (/\ Contents \in Seq(Cell_) /\ Len(Contents) = t_elems
              /\ \A k \in 1..t_elems : Contents[k] = Cell(k - 1))'
    OBVIOUS
<1> QED BY ContentsType, PTL

(* A cell of an element is a cell of the block.                            *)
LEMMA CellIs == VectorInv => \A k \in 0..tm_elems - 1 : Cell(k) = memory[k]
BY DEF VectorInv, Cell

LEMMA CellIsPrime ==
    ASSUME VectorInv'
    PROVE  \A k \in 0..tm_elems' - 1 : (Cell(k))' = memory'[k]
<1> SUFFICES (\A k \in 0..tm_elems - 1 : Cell(k) = memory[k])'
    OBVIOUS
<1> QED BY CellIs, PTL

LEMMA Below ==
    \A n \in Nat, m \in Nat : n <= m =>
        \A k \in 1..n : k \in Int /\ k - 1 \in 0..n - 1 /\ k - 1 \in 0..m - 1
OBVIOUS

LEMMA Within ==
    \A t \in Nat, n \in Nat, m \in Nat : t + n <= m =>
        \A k \in 1..n : t + k - 1 \in 0..m - 1
OBVIOUS

(* To know the contents it is enough to know their cells.                  *)
LEMMA ContentsAre ==
    ASSUME VectorInv', NEW c \in Seq(Cell_), Len(c) = t_elems',
           \A k \in 0..t_elems' - 1 : memory'[k] = c[k + 1]
    PROVE  Contents' = c
<1>1. /\ Contents' \in Seq(Cell_) /\ Len(Contents') = t_elems'
      /\ \A k \in 1..t_elems' : Contents'[k] = (Cell(k - 1))'
    BY ContentsTypePrime
<1>2. t_elems' \in Nat /\ tm_elems' \in Nat /\ t_elems' <= tm_elems'
    BY DEF VectorInv
<1>3. ASSUME NEW k \in 1..t_elems' PROVE Contents'[k] = c[k]
    <2>1. k \in Int /\ k - 1 \in 0..tm_elems' - 1 /\ k - 1 \in 0..t_elems' - 1
        BY <1>2, Below
    <2>2. Contents'[k] = memory'[k - 1]
        BY <1>1, <1>2, <2>1, CellIsPrime
    <2>3. k - 1 + 1 = k
        BY <2>1
    <2>4. memory'[k - 1] = c[k - 1 + 1]
        BY <2>1
    <2> QED BY <2>2, <2>3, <2>4
<1> HIDE DEF Contents
<1> QED BY <1>1, <1>3, SeqEqual

LEMMA PushIsPush ==
    ASSUME VectorInv, VectorInv', NEW x \in Element, vector_push(x)
    PROVE  L!Push(x) \/ L!PushAgain(x)
<1>1. /\ t_elems \in Nat /\ tm_elems \in Nat /\ t_elems <= tm_elems
      /\ memory \in [0..tm_elems - 1 -> Cell_] /\ t_elems' = t_elems + 1
      /\ x \in Cell_ /\ Unwritten \in Cell_
    BY DEF VectorInv, vector_push, Cell_
<1>2. /\ Contents \in Seq(Cell_) /\ Len(Contents) = t_elems
      /\ \A k \in 1..t_elems : Contents[k] = Cell(k - 1)
    BY ContentsType
<1>3. \A k \in 0..tm_elems - 1 : Cell(k) = memory[k]
    BY CellIs
<1> HIDE DEF Contents
<1>4. CASE HasRoom(1)
    <2>1. memory' = Written(memory, t_elems, x) /\ block' = block
        BY <1>4 DEF vector_push
    <2>2. t_elems < tm_elems
        BY <1>1, <1>4 DEF HasRoom
    <2> DEFINE c == Append(Contents, L!Kept(x))
    <2>3. L!Kept(x) \in Cell_
        BY <1>1 DEF L!Kept
    <2>4. /\ c \in Seq(Cell_) /\ Len(c) = t_elems'
          /\ \A k \in 1..t_elems : c[k] = Contents[k]
          /\ c[t_elems + 1] = L!Kept(x)
        BY <1>1, <1>2, <2>3, AppendProperties
    <2> HIDE DEF c
    <2>5. ASSUME NEW k \in 0..t_elems' - 1 PROVE memory'[k] = c[k + 1]
        <3>1. CASE k = t_elems
            <4>1. CASE block = "lost"
                BY <1>1, <2>1, <2>2, <2>4, <3>1, <4>1 DEF Written, L!Kept, VectorInv
            <4>2. CASE block # "lost"
                BY <1>1, <2>1, <2>2, <2>4, <3>1, <4>2 DEF Written, L!Kept
            <4> QED BY <4>1, <4>2
        <3>2. CASE k \in 0..t_elems - 1
            <4>1. memory'[k] = memory[k] /\ memory[k] = Cell(k)
                BY <1>1, <1>3, <2>1, <3>2 DEF Written
            <4>2. c[k + 1] = Contents[k + 1] /\ Contents[k + 1] = Cell(k + 1 - 1)
                BY <1>1, <1>2, <2>4, <3>2
            <4>3. k + 1 - 1 = k
                BY <3>2
            <4> QED BY <4>1, <4>2, <4>3
        <3> QED BY <1>1, <3>1, <3>2
    <2>6. Contents' = c
        BY <2>4, <2>5, ContentsAre
    <2> QED BY <2>1, <2>6 DEF L!Push, c
<1>5. CASE ~HasRoom(1)
    <2>1. /\ tm_elems' = Reserved + t_elems + 1 /\ block' = "held"
          /\ memory' = [k \in 0..Reserved + t_elems |->
                          IF k = t_elems THEN x ELSE Cell(k)]
        BY <1>5 DEF vector_push
    <2> DEFINE c == Append(Contents, x)
    <2>4. /\ c \in Seq(Cell_) /\ Len(c) = t_elems'
          /\ \A k \in 1..t_elems : c[k] = Contents[k]
          /\ c[t_elems + 1] = x
        BY <1>1, <1>2, AppendProperties
    <2> HIDE DEF c
    <2>5. ASSUME NEW k \in 0..t_elems' - 1 PROVE memory'[k] = c[k + 1]
        <3>0. k \in 0..Reserved + t_elems
            BY <1>1, VectorAssumption
        <3>1. CASE k = t_elems
            BY <2>1, <2>4, <3>0, <3>1
        <3>2. CASE k \in 0..t_elems - 1
            <4>1. memory'[k] = Cell(k)
                BY <1>1, <2>1, <3>0, <3>2
            <4>2. c[k + 1] = Contents[k + 1] /\ Contents[k + 1] = Cell(k + 1 - 1)
                BY <1>1, <1>2, <2>4, <3>2
            <4>3. k + 1 - 1 = k
                BY <3>2
            <4> QED BY <4>1, <4>2, <4>3
        <3> QED BY <1>1, <3>1, <3>2
    <2>6. Contents' = c
        BY <2>4, <2>5, ContentsAre
    <2> QED BY <2>1, <2>6 DEF L!PushAgain, c
<1> QED BY <1>4, <1>5

LEMMA GrowIsGrow ==
    ASSUME VectorInv, VectorInv', NEW n \in Grown, vector_grow(n)
    PROVE  L!Grow(n)
<1>1. /\ t_elems \in Nat /\ tm_elems \in Nat /\ t_elems <= tm_elems /\ n \in Nat
      /\ t_elems' = t_elems + n /\ tm_elems' \in Nat /\ t_elems' <= tm_elems'
    <2>1. n \in Nat /\ t_elems' = t_elems + n
        BY VectorAssumption DEF vector_grow
    <2>2. t_elems \in Nat /\ tm_elems \in Nat /\ t_elems <= tm_elems
        BY DEF VectorInv
    <2>3. tm_elems' \in Nat /\ t_elems' <= tm_elems'
        BY DEF VectorInv
    <2> QED BY <2>1, <2>2, <2>3
<1>1a. memory' \in [0..tm_elems' - 1 -> Cell_]
    BY DEF VectorInv, Cell_
<1>2. /\ Contents \in Seq(Cell_) /\ Len(Contents) = t_elems
      /\ \A k \in 1..t_elems : Contents[k] = Cell(k - 1)
    BY ContentsType
<1>3. \A k \in 0..tm_elems - 1 : Cell(k) = memory[k]
    BY CellIs
<1>4. /\ block' \in {block, "held"}
      /\ \A k \in 0..t_elems - 1 : memory'[k] = Cell(k)
    <2>1. CASE HasRoom(n) /\ UNCHANGED <<memory, tm_elems, block>>
        BY <1>1, <1>3, <2>1
    <2>2. CASE Moved(n)
        <3>1. /\ block' = "held"
              /\ memory' = [k \in 0..Reserved + t_elems + n - 1 |-> Cell(k)]
            BY <2>2 DEF Moved
        <3>2. \A k \in 0..t_elems - 1 : k \in 0..Reserved + t_elems + n - 1
            BY <1>1, VectorAssumption
        <3> QED BY <3>1, <3>2
    <2> QED BY <2>1, <2>2 DEF vector_grow
<1> HIDE DEF Contents
<1> DEFINE fresh == [k \in 1..n |-> memory'[t_elems + k - 1]]
           c == Contents \o fresh
<1>5. fresh \in [1..n -> Cell_] /\ fresh \in Seq(Cell_) /\ Len(fresh) = n
    <2>1. \A k \in 1..n : t_elems + k - 1 \in 0..tm_elems' - 1
        <3>1. t_elems + n <= tm_elems'
            BY <1>1
        <3> QED BY <1>1, <3>1, Within
    <2>2. \A k \in 1..n : memory'[t_elems + k - 1] \in Cell_
        BY <1>1a, <2>1
    <2>3. fresh \in [1..n -> Cell_]
        BY <2>2
    <2> QED BY <1>1, <2>3
<1>6. \A k \in 1..n : fresh[k] = memory'[t_elems + k - 1]
    OBVIOUS
<1> HIDE DEF fresh
<1>7. /\ c \in Seq(Cell_) /\ Len(c) = t_elems'
      /\ \A k \in 1..t_elems + n :
            c[k] = IF k <= t_elems THEN Contents[k] ELSE fresh[k - t_elems]
    BY <1>1, <1>2, <1>5, ConcatProperties
<1> HIDE DEF c
<1>7a. \A k \in 1..t_elems + n : ~(k <= t_elems) => c[k] = fresh[k - t_elems]
    BY <1>7
<1>8. ASSUME NEW k \in 0..t_elems' - 1 PROVE memory'[k] = c[k + 1]
    <2>1. CASE k < t_elems
        <3>1. c[k + 1] = Contents[k + 1] /\ Contents[k + 1] = Cell(k + 1 - 1)
            BY <1>1, <1>2, <1>7, <2>1
        <3>2. k + 1 - 1 = k /\ k \in 0..t_elems - 1
            BY <1>1, <2>1
        <3> QED BY <1>4, <3>1, <3>2
    <2>2. CASE k >= t_elems
        <3>1. k + 1 - t_elems \in 1..n /\ t_elems + (k + 1 - t_elems) - 1 = k
            <4>1. k \in 0..t_elems + n - 1
                BY <1>1
            <4> QED BY <1>1, <2>2, <4>1
        <3>2. c[k + 1] = fresh[k + 1 - t_elems]
            <4>1. k \in 0..t_elems + n - 1
                BY <1>1
            <4>2. k + 1 \in 1..t_elems + n /\ ~(k + 1 <= t_elems)
                BY <1>1, <2>2, <4>1
            <4> QED BY <1>1, <1>7a, <4>1, <4>2
        <3> QED BY <1>6, <3>1, <3>2
    <2> QED BY <1>1, <2>1, <2>2
<1>9. Contents' = Contents \o fresh
    BY <1>7, <1>8, ContentsAre DEF c
<1>10. fresh \in [1..n -> Element \cup {Unwritten}]
    BY <1>5 DEF Cell_
<1> QED BY <1>4, <1>9, <1>10 DEF L!Grow

LEMMA FailureIsLoss ==
    ASSUME VectorInv, VectorInv', NEW n \in Grown \cup {1}, ResizeFails(n)
    PROVE  L!Lose
<1>1. /\ t_elems \in Nat /\ tm_elems \in Nat /\ t_elems <= tm_elems
      /\ t_elems' = t_elems /\ block' = "lost" /\ memory' = Cells(tm_elems)
    BY DEF VectorInv, ResizeFails
<1>2. Len(Contents) = t_elems
    BY ContentsType
<1> HIDE DEF Contents
<1> DEFINE c == L!Unknown(Len(Contents))
<1>3. c = [k \in 1..t_elems |-> Unwritten]
    BY <1>2 DEF L!Unknown
<1> HIDE DEF c
<1>4. c \in Seq(Cell_) /\ Len(c) = t_elems'
    BY <1>1, <1>3 DEF Cell_
<1>5. \A k \in 0..t_elems' - 1 : memory'[k] = c[k + 1]
    BY <1>1, <1>3 DEF Cells
<1>6. Contents' = c
    BY <1>4, <1>5, ContentsAre
<1> QED BY <1>1, <1>6 DEF L!Lose, c

LEMMA PopIsPop ==
    ASSUME VectorInv, VectorInv', vector_pop
    PROVE  L!Pop
<1>1. /\ t_elems \in Nat /\ tm_elems \in Nat /\ t_elems <= tm_elems /\ t_elems > 0
      /\ t_elems' = t_elems - 1 /\ block' = block /\ memory' = memory
    BY DEF VectorInv, vector_pop
<1>2. /\ Contents \in Seq(Cell_) /\ Len(Contents) = t_elems
      /\ \A k \in 1..t_elems : Contents[k] = Cell(k - 1)
    BY ContentsType
<1>3. \A k \in 0..tm_elems - 1 : Cell(k) = memory[k]
    BY CellIs
<1> HIDE DEF Contents
<1> DEFINE c == [k \in 1..Len(Contents) - 1 |-> Contents[k]]
<1>4. c \in Seq(Cell_) /\ Len(c) = t_elems'
    BY <1>1, <1>2
<1>5. ASSUME NEW k \in 0..t_elems' - 1 PROVE memory'[k] = c[k + 1]
    <2>1. c[k + 1] = Contents[k + 1] /\ Contents[k + 1] = Cell(k + 1 - 1)
        BY <1>1, <1>2
    <2>2. k + 1 - 1 = k /\ k \in 0..tm_elems - 1
        BY <1>1
    <2> QED BY <1>1, <1>3, <2>1, <2>2
<1> HIDE DEF c
<1>6. Contents' = c
    BY <1>4, <1>5, ContentsAre
<1>7. Contents # <<>>
    BY <1>1, <1>2
<1> QED BY <1>1, <1>6, <1>7 DEF L!Pop, c

LEMMA PopElementIsPopElement ==
    ASSUME VectorInv, VectorInv', NEW x \in Element, vector_pop_element(x)
    PROVE  L!PopElement(x)
<1>1. /\ t_elems \in Nat /\ tm_elems \in Nat /\ t_elems <= tm_elems
      /\ t_elems' = t_elems - 1 /\ block' = block
      /\ DOMAIN memory = 0..tm_elems - 1
    BY DEF VectorInv, vector_pop_element
<1>2. /\ Contents \in Seq(Cell_) /\ Len(Contents) = t_elems
      /\ \A k \in 1..t_elems : Contents[k] = Cell(k - 1)
    BY ContentsType
<1>3. \A k \in 0..tm_elems - 1 : Cell(k) = memory[k]
    BY CellIs
<1>4. PICK p \in 0..t_elems - 1 :
          /\ Cell(p) = x /\ \A k \in 0..p - 1 : Cell(k) # x
          /\ memory' = IF p = t_elems - 1 THEN memory
                       ELSE [k \in DOMAIN memory |->
                               IF k \in p..t_elems - 2 THEN Cell(k + 1) ELSE memory[k]]
    BY DEF vector_pop_element, Holds
<1> HIDE DEF Contents
<1> DEFINE q == p + 1
           c == [k \in 1..Len(Contents) - 1 |->
                    IF k < q THEN Contents[k] ELSE Contents[k + 1]]
<1>5. c \in Seq(Cell_) /\ Len(c) = t_elems'
    BY <1>1, <1>2
<1>6. ASSUME NEW k \in 0..t_elems' - 1 PROVE memory'[k] = c[k + 1]
    <2>1. k \in 0..tm_elems - 1 /\ k + 1 \in 0..tm_elems - 1 /\ k \in 0..t_elems - 2
        BY <1>1
    <2>2. CASE k < p
        <3>1. c[k + 1] = Contents[k + 1] /\ Contents[k + 1] = Cell(k + 1 - 1)
            BY <1>1, <1>2, <2>1, <2>2
        <3>2. k + 1 - 1 = k /\ memory'[k] = memory[k]
            BY <1>1, <1>4, <2>1, <2>2
        <3> QED BY <1>3, <2>1, <3>1, <3>2
    <2>3. CASE k >= p
        <3>1. c[k + 1] = Contents[k + 1 + 1] /\ Contents[k + 1 + 1] = Cell(k + 1 + 1 - 1)
            BY <1>1, <1>2, <2>1, <2>3
        <3>2. p # t_elems - 1 /\ k \in p..t_elems - 2
            BY <1>1, <2>1, <2>3
        <3>3. memory'[k] = Cell(k + 1)
            BY <1>1, <1>4, <2>1, <3>2
        <3>4. k + 1 + 1 - 1 = k + 1
            BY <2>1
        <3> QED BY <3>1, <3>3, <3>4
    <2> QED BY <1>1, <2>2, <2>3
<1>7. q \in 1..t_elems /\ Contents[q] = Cell(p)
    <2>1. q \in 1..t_elems /\ q - 1 = p
        BY <1>1
    <2> QED BY <1>2, <2>1
<1>8. \A k \in 1..q - 1 : Contents[k] # x
    <2> SUFFICES ASSUME NEW k \in 1..q - 1 PROVE Contents[k] # x
        OBVIOUS
    <2>1. k \in 1..t_elems /\ k - 1 \in 0..p - 1
        BY <1>1
    <2> QED BY <1>2, <1>4, <2>1
<1>9. Contents' = [k \in 1..Len(Contents) - 1 |->
                      IF k < q THEN Contents[k] ELSE Contents[k + 1]]
    <2> HIDE DEF c
    <2>1. Contents' = c
        BY <1>5, <1>6, ContentsAre
    <2> QED BY <2>1 DEF c
<1> HIDE DEF q
<1> QED BY <1>1, <1>2, <1>4, <1>7, <1>8, <1>9 DEF L!PopElement

LEMMA OverwriteIsOverwrite ==
    ASSUME VectorInv, VectorInv', NEW p \in 0..t_elems - 1, NEW x \in Element,
           vector_overwrite(p, x)
    PROVE  p + 1 \in 1..Len(Contents) /\ L!Overwrite(p + 1, x)
<1>1. /\ t_elems \in Nat /\ tm_elems \in Nat /\ t_elems <= tm_elems
      /\ t_elems' = t_elems /\ block' = block /\ memory' = Written(memory, p, x)
      /\ DOMAIN memory = 0..tm_elems - 1 /\ x \in Cell_ /\ Unwritten \in Cell_
    BY DEF VectorInv, vector_overwrite, Cell_
<1>2. /\ Contents \in Seq(Cell_) /\ Len(Contents) = t_elems
      /\ \A k \in 1..t_elems : Contents[k] = Cell(k - 1)
    BY ContentsType
<1>3. \A k \in 0..tm_elems - 1 : Cell(k) = memory[k]
    BY CellIs
<1>3a. block = "lost" => \A k \in 0..tm_elems - 1 : memory[k] = Unwritten
    BY DEF VectorInv
<1> HIDE DEF Contents
<1> DEFINE c == [Contents EXCEPT ![p + 1] = L!Kept(x)]
<1>4. c \in Seq(Cell_) /\ Len(c) = t_elems'
    BY <1>1, <1>2 DEF L!Kept
<1>5. ASSUME NEW k \in 0..t_elems' - 1 PROVE memory'[k] = c[k + 1]
    <2>1. k \in 0..tm_elems - 1 /\ k + 1 \in 1..t_elems /\ k + 1 - 1 = k
        BY <1>1
    <2>2. Contents[k + 1] = memory[k]
        BY <1>2, <1>3, <2>1
    <2>3. c[k + 1] = IF k = p THEN L!Kept(x) ELSE Contents[k + 1]
        BY <1>1, <1>2, <2>1
    <2>4. CASE block = "lost"
        BY <1>1, <1>3a, <2>1, <2>2, <2>3, <2>4 DEF Written, L!Kept
    <2>5. CASE block # "lost"
        BY <1>1, <2>1, <2>2, <2>3, <2>5 DEF Written, L!Kept
    <2> QED BY <2>4, <2>5
<1> HIDE DEF c
<1>6. Contents' = c
    BY <1>4, <1>5, ContentsAre
<1>7. p + 1 \in 1..Len(Contents)
    BY <1>1, <1>2
<1> QED BY <1>1, <1>6, <1>7 DEF L!Overwrite, c

LEMMA CompareIsExchange ==
    ASSUME VectorInv, VectorInv', Compare
    PROVE  \/ UNCHANGED <<Contents, block>>
           \/ \E p \in 1..Len(Contents) - 1 : L!Exchange(p)
<1>1. /\ t_elems \in Nat /\ tm_elems \in Nat /\ t_elems <= tm_elems
      /\ t_elems' = t_elems /\ block' = block
      /\ DOMAIN memory = 0..tm_elems - 1
      /\ loop.j \in Nat /\ loop.j + 1 < t_elems /\ Unwritten \in Cell_
    BY DEF VectorInv, Compare, Cell_, AtRest
<1>2. /\ Contents \in Seq(Cell_) /\ Len(Contents) = t_elems
      /\ \A k \in 1..t_elems : Contents[k] = Cell(k - 1)
    BY ContentsType
<1>3. \A k \in 0..tm_elems - 1 : Cell(k) = memory[k]
    BY CellIs
<1>3a. block = "lost" => \A k \in 0..tm_elems - 1 : memory[k] = Unwritten
    BY DEF VectorInv
<1>3b. \A k : Cell(k) \in Cell_
    BY CellType
<1>3c. PICK j \in Nat : j = loop.j
    BY <1>1
<1>3d. j + 1 < t_elems
    BY <1>1, <1>3c
<1> DEFINE a == Cell(j)
           b == Cell(j + 1)
<1> HIDE DEF Contents
<1>4. Contents[j + 1] = a /\ Contents[j + 2] = b
    <2>1. j + 1 \in 1..t_elems /\ j + 2 \in 1..t_elems
          /\ j + 1 - 1 = j /\ j + 2 - 1 = j + 1
        BY <1>1, <1>3d
    <2>2. Contents[j + 1] = Cell(j + 1 - 1) /\ Contents[j + 2] = Cell(j + 2 - 1)
        BY <1>2, <2>1
    <2> QED BY <2>1, <2>2
<1>5. CASE UNCHANGED memory
    <2>1. \A k \in 0..t_elems' - 1 : memory'[k] = Contents[k + 1]
        <3> SUFFICES ASSUME NEW k \in 0..t_elems' - 1 PROVE memory'[k] = Contents[k + 1]
            OBVIOUS
        <3>1. k \in 0..tm_elems - 1 /\ k + 1 \in 1..t_elems /\ k + 1 - 1 = k
            BY <1>1
        <3> QED BY <1>2, <1>3, <1>5, <3>1
    <2>2. Contents' = Contents
        BY <1>1, <1>2, <2>1, ContentsAre
    <2> QED BY <1>1, <2>2
<1>6. CASE /\ MayExchange(a, b)
           /\ memory' = Written(Written(memory, j, b), j + 1, a)
    <2> DEFINE p == j + 1
               c == [Contents EXCEPT ![p] = L!Kept(Contents[p + 1]),
                                     ![p + 1] = L!Kept(Contents[p])]
    <2>0. p + 1 = j + 2 /\ p \in 1..Len(Contents) - 1
        BY <1>1, <1>2, <1>3d
    <2>1. c \in Seq(Cell_) /\ Len(c) = t_elems'
        <3> DEFINE x == L!Kept(Contents[p + 1])
                   y == L!Kept(Contents[p])
        <3>1. x \in Cell_ /\ y \in Cell_
            BY <1>1, <1>3b, <1>4, <2>0 DEF L!Kept
        <3>2. c = [[Contents EXCEPT ![p] = x] EXCEPT ![p + 1] = y]
            OBVIOUS
        <3> HIDE DEF c, x, y
        <3>3. c \in Seq(Cell_) /\ Len(c) = Len(Contents)
            <4> DEFINE d == [Contents EXCEPT ![p] = x]
            <4>1. d \in Seq(Cell_) /\ Len(d) = Len(Contents)
                <5>1. p \in 1..Len(Contents)
                    BY <1>1, <1>2, <2>0
                <5> HIDE DEF p, x
                <5> QED BY <1>2, <3>1, <5>1, ExceptSeq
            <4>2. c = [d EXCEPT ![p + 1] = y]
                BY <3>2
            <4>3. p + 1 \in 1..Len(d)
                BY <1>1, <1>2, <2>0, <4>1
            <4> HIDE DEF d, p
            <4> QED BY <3>1, <4>1, <4>2, <4>3, ExceptSeq
        <3> QED BY <1>1, <1>2, <3>3
    <2>2. ASSUME NEW k \in 0..t_elems' - 1 PROVE memory'[k] = c[k + 1]
        <3>1. k \in 0..tm_elems - 1 /\ k + 1 \in 1..t_elems /\ k + 1 - 1 = k
            BY <1>1
        <3>2. Contents[k + 1] = memory[k]
            BY <1>2, <1>3, <3>1
        <3>3. c[k + 1] = IF k = j + 1 THEN L!Kept(a)
                         ELSE IF k = j THEN L!Kept(b) ELSE Contents[k + 1]
            <4> DEFINE x == L!Kept(Contents[p + 1])
                       y == L!Kept(Contents[p])
            <4>1. c = [[Contents EXCEPT ![j + 1] = x] EXCEPT ![j + 2] = y]
                BY <2>0
            <4>2. DOMAIN Contents = 1..t_elems
                BY <1>2
            <4>3. x = L!Kept(b) /\ y = L!Kept(a)
                BY <1>4, <2>0
            <4> HIDE DEF c, x, y
            <4>4. c[k + 1] = IF k + 1 = j + 2 THEN y
                             ELSE IF k + 1 = j + 1 THEN x ELSE Contents[k + 1]
                BY <3>1, <4>1, <4>2
            <4> QED BY <1>1, <3>1, <4>3, <4>4
        <3>4. CASE block = "lost"
            BY <1>1, <1>3a, <1>6, <3>1, <3>2, <3>3, <3>4 DEF Written, L!Kept
        <3>5. CASE block # "lost"
            <4>1. memory' = [[memory EXCEPT ![j] = b] EXCEPT ![j + 1] = a]
                BY <1>6, <3>5 DEF Written
            <4>2. memory'[k] = IF k = j + 1 THEN a ELSE IF k = j THEN b ELSE memory[k]
                <5> HIDE DEF a, b
                <5> QED BY <1>1, <3>1, <4>1
            <4> QED BY <3>2, <3>3, <3>5, <4>2 DEF L!Kept
        <3> QED BY <3>4, <3>5
    <2>3. Contents' = c
        <3> HIDE DEF c
        <3> QED BY <2>1, <2>2, ContentsAre
    <2>4. a # b
        <3>1. CASE Unwritten \in {a, b}
            BY <1>6, <3>1 DEF MayExchange
        <3>2. CASE Unwritten \notin {a, b}
            <4>1. a \in Int /\ b \in Int /\ a > b
                <5> HIDE DEF a, b
                <5>1. a \in Cell_ /\ b \in Cell_
                    BY <1>3b DEF a, b
                <5> QED BY <1>6, <3>2, <5>1, VectorAssumption DEF MayExchange, Cell_
            <4> QED BY <4>1
        <3> QED BY <3>1, <3>2
    <2>5. Contents[p] # Contents[p + 1]
        BY <1>4, <2>0, <2>4
    <2> HIDE DEF p
    <2>6. L!Exchange(p)
        BY <1>1, <2>3, <2>5 DEF L!Exchange
    <2> QED BY <2>0, <2>6
<1> QED BY <1>3c, <1>5, <1>6 DEF Compare

(* Every call of the vector is the call of the list, or changes nothing.   *)
LEMMA StepIsListStep ==
    ASSUME VectorInv, VectorInv', [VectorNext]_vectorVars
    PROVE  [L!Next]_(L!vars)
<1> USE DEF L!Next, L!vars
<1>1. ASSUME NEW x \in Element, vector_push(x) PROVE L!Next
    BY <1>1, PushIsPush
<1>2. ASSUME NEW n \in Grown, vector_grow(n) PROVE L!Next
    BY <1>2, GrowIsGrow
<1>3. ASSUME NEW n \in Grown \cup {1}, ResizeFails(n) PROVE L!Next
    BY <1>3, FailureIsLoss
<1>4. CASE vector_pop
    BY <1>4, PopIsPop
<1>5. ASSUME NEW x \in Element, vector_pop_element(x) PROVE L!Next
    BY <1>5, PopElementIsPopElement
<1>6. ASSUME NEW p \in 0..t_elems - 1, NEW x \in Element, vector_overwrite(p, x)
      PROVE  L!Next
    BY <1>6, OverwriteIsOverwrite
<1>7. CASE ReorderStarts
    BY <1>7 DEF ReorderStarts, Contents, Cell
<1>8. CASE Compare
    BY <1>8, CompareIsExchange
<1>9. CASE UNCHANGED vectorVars
    BY <1>9 DEF vectorVars, Contents, Cell
<1> QED BY <1>1, <1>2, <1>3, <1>4, <1>5, <1>6, <1>7, <1>8, <1>9 DEF VectorNext

(* The vector implements the list, whatever allocations fail: each call    *)
(* does to the elements what vector.h says of it.                          *)
THEOREM VectorIsList == VectorSpec => ListSpec
<1>1. VectorInit => L!Init
    BY DEF VectorInit, L!Init, Contents
<1>2. VectorInv /\ VectorInv' /\ [VectorNext]_vectorVars => [L!Next]_(L!vars)
    BY StepIsListStep
<1> QED BY <1>1, <1>2, VectorIsSound, PTL DEF VectorSpec, ListSpec, L!Spec

-----------------------------------------------------------------------------
(* The sort *)

(* What a comparison of known elements leaves: the two cells in order and  *)
(* the others as they were.                                                *)
LEMMA CompareOrders ==
    ASSUME VectorInv, VectorInv', Compare, Known', NEW j \in Nat, j = loop.j
    PROVE  /\ Known
           /\ \A k \in 0..t_elems - 1 : Cell(k) \in Int /\ (Cell(k))' \in Int
           /\ (Cell(j))' <= (Cell(j + 1))'
           /\ \/ (Cell(j))' = Cell(j) /\ (Cell(j + 1))' = Cell(j + 1)
              \/ (Cell(j))' = Cell(j + 1) /\ (Cell(j + 1))' = Cell(j)
           /\ \A k \in 0..t_elems - 1 : k \notin {j, j + 1} => (Cell(k))' = Cell(k)
<1>1. /\ t_elems \in Nat /\ tm_elems \in Nat /\ t_elems <= tm_elems
      /\ t_elems' = t_elems /\ tm_elems' = tm_elems
      /\ DOMAIN memory = 0..tm_elems - 1
      /\ j + 1 < t_elems
    BY DEF VectorInv, Compare, AtRest
<1>3. /\ \A k \in 0..tm_elems - 1 : Cell(k) = memory[k]
      /\ \A k \in 0..tm_elems - 1 : (Cell(k))' = memory'[k]
    BY <1>1, CellIs, CellIsPrime
<1>4. \A k \in 0..t_elems - 1 : memory'[k] # Unwritten
    BY <1>1, <1>3 DEF Known
<1>5. \A k \in 0..t_elems - 1 : memory[k] \in Cell_ /\ memory'[k] \in Cell_
    BY <1>1 DEF VectorInv, Cell_
<1> DEFINE a == memory[j]
           b == memory[j + 1]
<1>6. j \in 0..t_elems - 1 /\ j + 1 \in 0..t_elems - 1 /\ j # j + 1
      /\ j \in 0..tm_elems - 1 /\ j + 1 \in 0..tm_elems - 1
    BY <1>1
<1>7. Cell(j) = a /\ Cell(j + 1) = b
    BY <1>3, <1>6
<1>8. CASE /\ MayExchange(a, b)
           /\ memory' = Written(Written(memory, j, b), j + 1, a)
    <2>1. block # "lost"
        <3> SUFFICES ASSUME block = "lost" PROVE FALSE
            OBVIOUS
        <3>1. memory'[j] = Unwritten
            BY <1>6, <1>8 DEF Written, VectorInv
        <3> QED BY <1>4, <1>6, <3>1
    <2>2. memory' = [[memory EXCEPT ![j] = b] EXCEPT ![j + 1] = a]
        BY <1>8, <2>1 DEF Written
    <2>3. memory'[j] = b /\ memory'[j + 1] = a
          /\ \A k \in 0..t_elems - 1 : k \notin {j, j + 1} => memory'[k] = memory[k]
        <3> HIDE DEF a, b
        <3> QED BY <1>1, <1>6, <2>2, SMTT(30)
    <2>4. \A k \in 0..t_elems - 1 : memory[k] # Unwritten
        BY <1>4, <1>6, <2>3
    <2>5. \A k \in 0..t_elems - 1 : memory[k] \in Int /\ memory'[k] \in Int
        BY <1>4, <1>5, <2>4, VectorAssumption DEF Cell_
    <2>6. b <= a
        BY <1>6, <1>8, <2>4, <2>5 DEF MayExchange
    <2>7. \A k \in 0..t_elems - 1 : k \in 0..tm_elems - 1
        BY <1>1
    <2> QED BY <1>1, <1>3, <1>6, <1>7, <2>3, <2>4, <2>5, <2>6, <2>7, ZenonT(30) DEF Known
<1>9. CASE MayKeep(a, b) /\ UNCHANGED memory
    <2>4. \A k \in 0..t_elems - 1 : memory[k] # Unwritten
        BY <1>4, <1>9
    <2>5. \A k \in 0..t_elems - 1 : memory[k] \in Int /\ memory'[k] \in Int
        BY <1>4, <1>5, <2>4, VectorAssumption DEF Cell_
    <2>6. a <= b
        BY <1>6, <1>9, <2>4, <2>5 DEF MayKeep
    <2>7. \A k \in 0..t_elems - 1 : k \in 0..tm_elems - 1
        BY <1>1
    <2> QED BY <1>1, <1>3, <1>6, <1>7, <1>9, <2>4, <2>5, <2>6, <2>7 DEF Known
<1> QED BY <1>7, <1>8, <1>9 DEF Compare

LEMMA Inside ==
    \A i \in Nat, j \in Nat, t \in Nat : j + 1 < t - i =>
        /\ j \in 0..t - 1 /\ j + 1 \in 0..t - 1
        /\ \A k \in 0..j : /\ k \in 0..t - 1
                          /\ k # j => k \in 0..j - 1 /\ k \notin {j, j + 1}
        /\ \A k \in t - i..t - 1 :
              /\ k \in 0..t - 1 /\ k \notin {j, j + 1}
              /\ j \in 0..k - 1 /\ j + 1 \in 0..k - 1
              /\ \A m \in 0..k - 1 : m \in 0..t - 1
OBVIOUS

(* A comparison of cells j and j + 1 hands the greatest element of the     *)
(* pass on, and leaves the last i elements placed.                         *)
LEMMA PassKeepsOrder ==
    ASSUME NEW i \in Nat, NEW j \in Nat, NEW t \in Nat, j + 1 < t - i,
           NEW old \in [0..t - 1 -> Int], NEW new \in [0..t - 1 -> Int],
           new[j] <= new[j + 1],
           \/ new[j] = old[j] /\ new[j + 1] = old[j + 1]
           \/ new[j] = old[j + 1] /\ new[j + 1] = old[j],
           \A k \in 0..t - 1 : k \notin {j, j + 1} => new[k] = old[k],
           \A k \in 0..j - 1 : old[k] <= old[j],
           \A k \in t - i..t - 1 : \A m \in 0..k - 1 : old[m] <= old[k]
    PROVE  /\ \A k \in 0..j : new[k] <= new[j + 1]
           /\ \A k \in t - i..t - 1 : \A m \in 0..k - 1 : new[m] <= new[k]
<1>1. j \in 0..t - 1 /\ j + 1 \in 0..t - 1
    BY Inside
<1>2. old[j] \in Int /\ old[j + 1] \in Int /\ new[j] \in Int /\ new[j + 1] \in Int
    BY <1>1
<1>3. ASSUME NEW k \in 0..j PROVE new[k] <= new[j + 1]
    <2>1. CASE k = j
        BY <2>1
    <2>2. CASE k # j
        <3>1. k \in 0..j - 1 /\ k \in 0..t - 1 /\ k \notin {j, j + 1}
            BY <2>2, Inside
        <3>2. new[k] = old[k] /\ old[k] <= old[j] /\ new[k] \in Int
            BY <3>1
        <3>3. old[j] <= new[j + 1]
            BY <1>2
        <3> QED BY <1>2, <3>2, <3>3
    <2> QED BY <2>1, <2>2
<1>4. ASSUME NEW k \in t - i..t - 1, NEW m \in 0..k - 1 PROVE new[m] <= new[k]
    <2>1. k \in 0..t - 1 /\ k \notin {j, j + 1} /\ m \in 0..t - 1
        BY Inside
    <2>2. j \in 0..k - 1 /\ j + 1 \in 0..k - 1
        BY Inside
    <2>3. old[m] <= old[k] /\ old[j] <= old[k] /\ old[j + 1] <= old[k]
        BY <2>2
    <2>4. new[k] = old[k]
        BY <2>1
    <2>5. CASE m \in {j, j + 1}
        BY <2>3, <2>4, <2>5
    <2>6. CASE m \notin {j, j + 1}
        BY <2>1, <2>3, <2>4, <2>6
    <2> QED BY <2>5, <2>6
<1> QED BY <1>3, <1>4

(* After the comparison the greatest element seen in the pass is the one   *)
(* at loop.j + 1, and the placed elements are still placed.                *)
LEMMA CompareKeepsOrder ==
    ASSUME VectorInv, VectorInv', SortInv, Compare, Known',
           NEW i \in Nat, NEW j \in Nat, NEW t \in Nat
    PROVE  i = loop.i /\ j = loop.j /\ t = t_elems =>
              /\ \A k \in 0..j : (Cell(k))' <= (Cell(j + 1))'
              /\ \A k \in t - i..t - 1 : \A m \in 0..k - 1 : (Cell(m))' <= (Cell(k))'
<1>1. ASSUME i = loop.i, j = loop.j, t = t_elems
      PROVE  /\ \A k \in 0..j : (Cell(k))' <= (Cell(j + 1))'
             /\ \A k \in t - i..t - 1 : \A m \in 0..k - 1 : (Cell(m))' <= (Cell(k))'
    <2>1. j + 1 < t - i
        BY <1>1 DEF Compare, SortInv
    <2>2. PICK old \in [0..t - 1 -> Int] : \A k \in 0..t - 1 : old[k] = Cell(k)
        <3>1. [k \in 0..t - 1 |-> Cell(k)] \in [0..t - 1 -> Int]
            BY <1>1, CompareOrders
        <3> QED BY <3>1
    <2>3. PICK new \in [0..t - 1 -> Int] : \A k \in 0..t - 1 : new[k] = (Cell(k))'
        <3>1. [k \in 0..t - 1 |-> (Cell(k))'] \in [0..t - 1 -> Int]
            BY <1>1, CompareOrders
        <3> QED BY <3>1
    <2>4. j \in 0..t - 1 /\ j + 1 \in 0..t - 1
        BY <2>1, Inside
    <2>5. /\ new[j] <= new[j + 1]
          /\ \/ new[j] = old[j] /\ new[j + 1] = old[j + 1]
             \/ new[j] = old[j + 1] /\ new[j + 1] = old[j]
          /\ \A k \in 0..t - 1 : k \notin {j, j + 1} => new[k] = old[k]
        <3>1. /\ (Cell(j))' <= (Cell(j + 1))'
              /\ \/ (Cell(j))' = Cell(j) /\ (Cell(j + 1))' = Cell(j + 1)
                 \/ (Cell(j))' = Cell(j + 1) /\ (Cell(j + 1))' = Cell(j)
              /\ \A k \in 0..t - 1 : k \notin {j, j + 1} => (Cell(k))' = Cell(k)
            BY <1>1, CompareOrders
        <3> QED BY <2>2, <2>3, <2>4, <3>1
    <2>6. /\ \A k \in 0..j - 1 : Cell(k) <= Cell(j)
          /\ \A k \in t - i..t - 1 : \A m \in 0..k - 1 : Cell(m) <= Cell(k)
        <3>1. Known
            BY <1>1, CompareOrders
        <3> QED BY <1>1, <3>1 DEF SortInv, Compare
    <2>7. /\ \A k \in 0..j : k \in 0..t - 1
          /\ \A k \in 0..j - 1 : k \in 0..j
          /\ \A k \in t - i..t - 1 : k \in 0..t - 1 /\ \A m \in 0..k - 1 : m \in 0..t - 1
        BY <2>1, Inside
    <2>8. \A k \in 0..j - 1 : old[k] <= old[j]
        BY <2>2, <2>4, <2>6, <2>7
    <2>9. \A k \in t - i..t - 1 : \A m \in 0..k - 1 : old[m] <= old[k]
        BY <2>2, <2>6, <2>7
    <2>10. /\ \A k \in 0..j : new[k] <= new[j + 1]
           /\ \A k \in t - i..t - 1 : \A m \in 0..k - 1 : new[m] <= new[k]
        BY <2>1, <2>5, <2>8, <2>9, PassKeepsOrder
    <2>11. \A k \in 0..j : (Cell(k))' <= (Cell(j + 1))'
        BY <2>3, <2>4, <2>7, <2>10
    <2>12. \A k \in t - i..t - 1 : \A m \in 0..k - 1 : (Cell(m))' <= (Cell(k))'
        BY <2>3, <2>7, <2>10
    <2> QED BY <2>11, <2>12
<1> QED BY <1>1

(* What the sort has put in order stays in order, comparison after         *)
(* comparison and pass after pass.                                         *)
LEMMA SortStep ==
    ASSUME VectorInv, VectorInv', SortInv, [VectorNext]_vectorVars
    PROVE  SortInv'
<1>1. CASE Compare
    <2>1. PICK i \in Nat, j \in Nat, t \in Nat : i = loop.i /\ j = loop.j /\ t = t_elems
        BY <1>1 DEF VectorInv, Compare, AtRest
    <2>2. j + 1 < t - i /\ t_elems' = t /\ loop' = After(loop)
        BY <1>1, <2>1 DEF Compare, SortInv
    <2>3. CASE loop' = [i |-> i, j |-> j + 1] /\ j + 2 < t - i
        <3>1. loop'.i = i /\ loop'.j = j + 1 /\ 0..(j + 1) - 1 = 0..j
            BY <2>3
        <3>2. loop'.j + 1 < t_elems' - loop'.i
            BY <2>2, <2>3, <3>1
        <3>3. Known' => /\ \A k \in 0..j : (Cell(k))' <= (Cell(j + 1))'
                        /\ \A k \in t - i..t - 1 :
                              \A m \in 0..k - 1 : (Cell(m))' <= (Cell(k))'
            BY <1>1, <2>1, CompareKeepsOrder
        <3>4. Known' => \A k \in 0..loop'.j - 1 : (Cell(k))' <= Cell(loop.j)'
            BY <3>1, <3>3
        <3>5. Known' => \A k \in t_elems' - loop'.i..t_elems' - 1 :
                           \A m \in 0..k - 1 : (Cell(m))' <= (Cell(k))'
            BY <2>2, <3>1, <3>3
        <3> QED BY <3>2, <3>4, <3>5 DEF SortInv
    <2>4. CASE loop' = [i |-> i + 1, j |-> 0] /\ j + 2 = t - i /\ i + 1 < t - 1
        <3>1. loop'.i = i + 1 /\ loop'.j = 0 /\ 0..0 - 1 = {}
            BY <2>4
        <3>2. loop'.j + 1 < t_elems' - loop'.i
            BY <2>2, <2>4, <3>1
        <3>3. ASSUME Known', NEW k \in t - (i + 1)..t - 1, NEW m \in 0..k - 1
              PROVE  (Cell(m))' <= (Cell(k))'
            <4>1. /\ \A n \in 0..j : (Cell(n))' <= (Cell(j + 1))'
                  /\ \A n \in t - i..t - 1 : \A l \in 0..n - 1 : (Cell(l))' <= (Cell(n))'
                BY <1>1, <2>1, <3>3, CompareKeepsOrder
            <4>2. CASE k \in t - i..t - 1
                BY <4>1, <4>2
            <4>3. CASE k \notin t - i..t - 1
                <5>1. k = j + 1 /\ m \in 0..j
                    BY <2>4, <4>3
                <5> QED BY <4>1, <5>1
            <4> QED BY <4>2, <4>3
        <3>4. Known' => \A k \in 0..loop'.j - 1 : (Cell(k))' <= Cell(loop.j)'
            BY <3>1
        <3>5. Known' => \A k \in t_elems' - loop'.i..t_elems' - 1 :
                           \A m \in 0..k - 1 : (Cell(m))' <= (Cell(k))'
            BY <2>2, <3>1, <3>3
        <3> QED BY <3>2, <3>4, <3>5 DEF SortInv
    <2>5. CASE loop' = NotSorting
        BY <2>5 DEF SortInv, AtRest
    <2>6. j + 1 < t - i - 1 => j + 2 < t - i
        BY <2>1
    <2>7. ~(j + 1 < t - i - 1) => j + 2 = t - i
        BY <2>2
    <2>8. \/ loop' = [i |-> i, j |-> j + 1] /\ j + 1 < t - i - 1
          \/ loop' = [i |-> i + 1, j |-> 0] /\ ~(j + 1 < t - i - 1) /\ i + 1 < t - 1
          \/ loop' = NotSorting
        BY <2>1, <2>2 DEF After
    <2> QED BY <2>3, <2>4, <2>5, <2>6, <2>7, <2>8
<1>2. CASE ReorderStarts
    <2>1. loop' = [i |-> 0, j |-> 0] /\ t_elems' = t_elems /\ t_elems >= 2
        BY <1>2 DEF ReorderStarts
    <2>2. t_elems \in Nat
        BY DEF VectorInv
    <2>3. loop'.j = 0 /\ loop'.i = 0 /\ 0..0 - 1 = {} /\ t_elems - 0..t_elems - 1 = {}
        BY <2>1, <2>2
    <2> QED BY <2>1, <2>2, <2>3 DEF SortInv
<1>3. CASE AtRest /\ AtRest'
    BY <1>3 DEF SortInv
<1>4. CASE UNCHANGED vectorVars
    BY <1>4 DEF vectorVars, SortInv, AtRest, Known, Cell
<1>5. VectorNext => Compare \/ ReorderStarts \/ (AtRest /\ AtRest')
    BY DEF VectorNext, vector_push, vector_pop_element, vector_grow, ResizeFails,
           vector_pop, vector_overwrite, AtRest
<1> QED BY <1>1, <1>2, <1>3, <1>4, <1>5

LEMMA SortHolds == VectorSpec => []SortInv
<1>1. VectorInit => SortInv
    BY DEF VectorInit, SortInv, AtRest
<1>2. VectorInv /\ VectorInv' /\ SortInv /\ [VectorNext]_vectorVars => SortInv'
    BY SortStep
<1> QED BY <1>1, <1>2, VectorIsSound, PTL DEF VectorSpec

(* The comparison that ends the last pass leaves every element placed.     *)
LEMMA LastCompareSorts ==
    ASSUME VectorInv, VectorInv', SortInv, [VectorNext]_vectorVars
    PROVE  ~AtRest /\ AtRest' /\ Known' => Sorted'
<1> SUFFICES ASSUME ~AtRest, AtRest', Known' PROVE Sorted'
    OBVIOUS
<1>1. Compare
    BY DEF VectorNext, vector_push, vector_pop_element, vector_grow, ResizeFails,
           vector_pop, vector_overwrite, ReorderStarts, vectorVars, AtRest
<1>2. PICK i \in Nat, j \in Nat, t \in Nat : i = loop.i /\ j = loop.j /\ t = t_elems
    BY <1>1 DEF VectorInv, Compare, AtRest
<1>3. j + 1 < t - i /\ t_elems' = t /\ After(loop) = NotSorting
    BY <1>1, <1>2 DEF Compare, SortInv, AtRest
<1>4. ~(j + 1 < t - i - 1) /\ ~(i + 1 < t - 1)
    <2>1. [i |-> i, j |-> j + 1] # NotSorting /\ [i |-> i + 1, j |-> 0] # NotSorting
        <3>1. [i |-> i, j |-> j + 1].i # NotSorting.i
            BY DEF NotSorting
        <3>2. [i |-> i + 1, j |-> 0].i # NotSorting.i
            BY DEF NotSorting
        <3> QED BY <3>1, <3>2
    <2>2. After(loop) = IF j + 1 < t - i - 1 THEN [i |-> i, j |-> j + 1]
                        ELSE IF i + 1 < t - 1 THEN [i |-> i + 1, j |-> 0]
                        ELSE NotSorting
        BY <1>2 DEF After
    <2> QED BY <1>3, <2>1, <2>2
<1>5. /\ \A k \in 0..j : (Cell(k))' <= (Cell(j + 1))'
      /\ \A k \in t - i..t - 1 : \A m \in 0..k - 1 : (Cell(m))' <= (Cell(k))'
    BY <1>1, <1>2, CompareKeepsOrder
<1>6. ASSUME NEW k \in 1..t - 1 PROVE (Cell(k - 1))' <= (Cell(k))'
    <2>1. CASE k \in t - i..t - 1
        <3>1. k - 1 \in 0..k - 1
            OBVIOUS
        <3> QED BY <1>5, <2>1, <3>1
    <2>2. CASE k \notin t - i..t - 1
        <3>1. k = j + 1 /\ k - 1 \in 0..j
            BY <1>3, <1>4, <2>2
        <3> QED BY <1>5, <3>1
    <2> QED BY <2>1, <2>2
<1>7. \A k \in 1..t : Contents'[k] = (Cell(k - 1))'
    BY <1>3, ContentsTypePrime
<1>8. ASSUME NEW k \in 1..t - 1 PROVE Contents'[k] <= Contents'[k + 1]
    <2>1. k \in 1..t /\ k + 1 \in 1..t /\ k + 1 - 1 = k
        OBVIOUS
    <2>2. Contents'[k] = (Cell(k - 1))' /\ Contents'[k + 1] = (Cell(k + 1 - 1))'
        BY <1>7, <2>1
    <2> HIDE DEF Contents
    <2> QED BY <1>6, <2>1, <2>2
<1> HIDE DEF Contents
<1> QED BY <1>3, <1>8 DEF Sorted

(* vector_reorder sorts: the elements that are known when it returns are   *)
(* in order.                                                               *)
THEOREM VectorIsSorted == VectorSpec => ReorderSorts
<1>1. VectorInv /\ VectorInv' /\ SortInv /\ [VectorNext]_vectorVars
         => [(~AtRest /\ AtRest' /\ Known') => Sorted']_vectorVars
    BY LastCompareSorts
<1> QED BY <1>1, VectorIsSound, SortHolds, PTL DEF VectorSpec, ReorderSorts
=============================================================================
