----------------------------- MODULE GuiProofs -----------------------------
(***************************************************************************)
(* Proofs about the library of the programs with a window: its elements,   *)
(* events and focus, the text field, the list area, and the calculator's   *)
(* arithmetic.                                                             *)
(***************************************************************************)
EXTENDS Userland, FiniteSetTheorems, SequenceTheorems, WellFoundedInduction, TLAPS

-----------------------------------------------------------------------------
(* The least of some numbers, and sets of numbers in order *)

LEMMA LeastNumber ==
    ASSUME NEW S, S \subseteq Nat, S # {}
    PROVE  \E x \in S : \A y \in S : x <= y
<1>1. PICK x \in S : \A y \in S : ~ (<<y, x>> \in OpToRel(<, Nat))
  BY NatLessThanWellFounded, WFMin
<1>2. \A y \in S : ~ (y < x)
  BY <1>1 DEF OpToRel
<1> QED
  BY <1>2

UpTo(S, i) == {j \in S : j <= i}

LEMMA RanksDiffer ==
    ASSUME NEW S, S \subseteq Nat, IsFiniteSet(S), NEW i \in S, NEW j \in S, i < j
    PROVE  Cardinality(UpTo(S, i)) # Cardinality(UpTo(S, j))
<1>1. \A x \in S : x \in Nat
  OBVIOUS
<1>2. UpTo(S, i) \in SUBSET UpTo(S, j)
  <2>1. ASSUME NEW x \in S, x <= i PROVE x <= j
    BY <1>1, <2>1
  <2> QED
    BY <2>1 DEF UpTo
<1>3. j \in UpTo(S, j) /\ j \notin UpTo(S, i)
  BY <1>1 DEF UpTo
<1>4. IsFiniteSet(UpTo(S, j))
  BY FS_Subset DEF UpTo
<1> QED
  BY <1>2, <1>3, <1>4, FS_Subset

\* There is one number of each rank.
LEMMA EachRank ==
    ASSUME NEW S, S \subseteq Nat, IsFiniteSet(S), NEW k \in 1..Cardinality(S)
    PROVE  \E i \in S : Cardinality(UpTo(S, i)) = k
<1> DEFINE n == Cardinality(S)
           rank == [i \in S |-> Cardinality(UpTo(S, i))]
<1>1. n \in Nat
  BY FS_CardinalityType
<1>2. ASSUME NEW i \in S
      PROVE  /\ UpTo(S, i) \in SUBSET S /\ IsFiniteSet(UpTo(S, i))
             /\ Cardinality(UpTo(S, i)) \in 1..n
  <2>1. UpTo(S, i) \in SUBSET S /\ i \in UpTo(S, i)
    BY DEF UpTo
  <2>2. IsFiniteSet(UpTo(S, i)) /\ Cardinality(UpTo(S, i)) <= n
    BY <2>1, FS_Subset
  <2>3. Cardinality(UpTo(S, i)) \in Nat /\ Cardinality(UpTo(S, i)) # 0
    BY <2>1, <2>2, FS_CardinalityType, FS_EmptySet
  <2> QED
    BY <1>1, <2>1, <2>2, <2>3
<1>3. rank \in [S -> 1..n]
  BY <1>2
<1>4. ASSUME NEW i \in S, NEW j \in S, i < j PROVE rank[i] # rank[j]
  BY <1>4, RanksDiffer
<1>5. rank \in Injection(S, 1..n)
  <2>1. \A i, j \in S : rank[i] = rank[j] => i = j
    <3>1. \A i \in S : i \in Nat
      OBVIOUS
    <3> QED
      BY <1>4, <3>1
  <2> QED
    BY <1>3, <2>1 DEF Injection, IsInjective
<1>6. IsFiniteSet(1..n) /\ Cardinality(1..n) = n
  BY <1>1, FS_Interval
<1>7. rank \in Surjection(S, 1..n)
  BY <1>5, <1>6, FS_Injection
<1> QED
  BY <1>7 DEF Surjection

LEMMA InOrderLists ==
    ASSUME NEW S, S \subseteq Nat, IsFiniteSet(S)
    PROVE  InOrder(S) \in Seq(S)
<1>1. Cardinality(S) \in Nat
  BY FS_CardinalityType
<1>2. \A k \in 1..Cardinality(S) : InOrder(S)[k] \in S
  <2> TAKE k \in 1..Cardinality(S)
  <2>1. \E i \in S : Cardinality({j \in S : j <= i}) = k
    BY EachRank DEF UpTo
  <2>2. InOrder(S)[k] = CHOOSE i \in S : Cardinality({j \in S : j <= i}) = k
    BY DEF InOrder
  <2> QED
    BY <2>1, <2>2
<1>3. InOrder(S) \in [1..Cardinality(S) -> S]
  BY <1>2 DEF InOrder
<1> QED
  BY <1>1, <1>3

LEMMA InOrderHasAll ==
    ASSUME NEW n \in Nat, NEW S \in SUBSET (1..n), NEW i \in S
    PROVE  \E k \in 1..Len(InOrder(S)) : InOrder(S)[k] = i
<1>1. IsFiniteSet(1..n)
  BY FS_Interval
<1>2. IsFiniteSet(S) /\ IsFiniteSet(UpTo(S, i)) /\ Cardinality(UpTo(S, i)) <= Cardinality(S)
  BY <1>1, FS_Subset DEF UpTo
<1>3. Cardinality(UpTo(S, i)) \in Nat /\ Cardinality(UpTo(S, i)) # 0
  <2>1. i \in UpTo(S, i)
    BY DEF UpTo
  <2> QED
    BY <1>2, <2>1, FS_CardinalityType, FS_EmptySet
<1> DEFINE k == Cardinality(UpTo(S, i))
<1>4. k \in 1..Cardinality(S) /\ Cardinality(S) \in Nat
  BY <1>2, <1>3, FS_CardinalityType
<1>5. InOrder(S)[k] = CHOOSE j \in S : Cardinality(UpTo(S, j)) = k
  BY <1>4 DEF InOrder, UpTo
<1>6. PICK j \in S : InOrder(S)[k] = j /\ Cardinality(UpTo(S, j)) = k
  BY <1>5
<1>7. j = i
  <2>1. ASSUME NEW a \in S, NEW b \in S, a < b
        PROVE  Cardinality(UpTo(S, a)) # Cardinality(UpTo(S, b))
    <3>1. S \subseteq Nat
      OBVIOUS
    <3> QED
      BY <1>2, <2>1, <3>1, RanksDiffer
  <2> QED
    BY <1>6, <2>1
<1>8. Len(InOrder(S)) = Cardinality(S)
  BY <1>4 DEF InOrder
<1> QED
  BY <1>4, <1>6, <1>7, <1>8

LEMMA InOrderEmpty == InOrder({}) = <<>>
<1>1. Cardinality({}) = 0
  BY FS_EmptySet
<1> QED
  BY <1>1 DEF InOrder

LEMMA InOrderOne == ASSUME NEW i \in Nat PROVE InOrder({i}) = <<i>>
<1>1. IsFiniteSet({i}) /\ Cardinality({i}) = 1
  BY FS_Singleton
<1>2. InOrder({i}) \in Seq({i})
  BY <1>1, InOrderLists
<1>3. Len(InOrder({i})) = 1
  BY <1>1 DEF InOrder
<1>4. InOrder({i})[1] = i
  BY <1>2, <1>3
<1> QED
  BY <1>2, <1>3, <1>4

-----------------------------------------------------------------------------
(* The library's data *)

Handlers == {"plane", "textfield", "listarea", "digit", "operation", "delete", "default"}

Properties == {"blank", "example"}

ElementType ==
    [parent : Nat, id : Int, handler : Handlers, x : Nat, y : Nat,
     rel_root_x : Nat, rel_root_y : Nat, width : Nat \ {0}, height : Nat \ {0},
     real_width : Nat, real_height : Nat, properties : Seq(Properties), redraw : {TRUE}]

EventKinds == {"CLICKED", "KEYSTROKE", "LISTAREA_ITEM_SELECTED", "FOCUSED", "UNFOCUSED"}
EventType == [type : EventKinds, element : Nat, x : Int, y : Int, value : Nat]

\* An element is a root, or covers the root before it and draws into its pixels.
Stands(q, i) ==
    /\ q[i].rel_root_x = 0 /\ q[i].rel_root_y = 0
    /\ q[i].real_width = q[i].width /\ q[i].real_height = q[i].height
    /\ q[i].parent # NULL => i > 1 /\ q[i].parent = i - 1 /\ q[i - 1].parent = NULL

Tree(q) == \A i \in 1..Len(q) : Stands(q, i)

\* Before it is made and after.
FieldType ==
    [element : {NULL}]
    \cup [element : Nat \ {NULL}, index : Nat, read_only : {FALSE},
          max_allowed_len : Nat \ {0}, text : Seq(Nat)]
ListType ==
    [element : {NULL}]
    \cup [element : Nat \ {NULL}, items : Seq(Nat), selected_index : Int]

UiType ==
    [elements : Seq(ElementType), events : Seq(EventType), focused : Nat,
     must_draw : BOOLEAN, field : FieldType, list : ListType,
     printed : Int, wild : BOOLEAN, recycled : Nat]

EventsFor(q, n) == \A k \in 1..Len(q) : q[k].element \in 1..n

IsUi(t) ==
    /\ t \in UiType
    /\ Tree(t.elements)
    /\ EventsFor(t.events, Len(t.elements))
    /\ t.focused \in 0..Len(t.elements)
    /\ t.field.element \in 0..Len(t.elements)
    /\ t.field.element # NULL => t.field.index < Len(t.field.text)
    /\ t.list.element \in 0..Len(t.elements)

\* What a push of events leaves as it was, and what a change of the field does.
ButEvents(t, u) ==
    /\ u.elements = t.elements /\ u.focused = t.focused /\ u.must_draw = t.must_draw
    /\ u.field = t.field /\ u.list = t.list /\ u.printed = t.printed
    /\ u.wild = t.wild /\ u.recycled = t.recycled

ButField(t, u) ==
    /\ u.elements = t.elements /\ u.events = t.events /\ u.focused = t.focused
    /\ u.list = t.list /\ u.printed = t.printed
    /\ u.wild = t.wild /\ u.recycled = t.recycled

\* Every element has been marked since it was made.
LEMMA MarkIs ==
    ASSUME NEW t, IsUi(t), NEW i \in 1..Len(t.elements)
    PROVE  gui_element_mark_for_redraw(t, i) = [t EXCEPT !.must_draw = TRUE]
<1>1. t \in UiType /\ t.elements \in Seq(ElementType)
  BY DEF IsUi, UiType
<1>2. t.elements[i] \in ElementType
  BY <1>1
<1>3. [t.elements[i] EXCEPT !.redraw = TRUE] = t.elements[i]
  BY <1>2 DEF ElementType
<1>4. [t.elements EXCEPT ![i].redraw = TRUE] = t.elements
  <2>1. PICK q \in Seq(ElementType) : q = t.elements
    BY <1>1
  <2>2. q \in [1..Len(q) -> ElementType] /\ i \in 1..Len(q)
    BY <2>1
  <2>3. [q EXCEPT ![i].redraw = TRUE] = [q EXCEPT ![i] = q[i]]
    BY <1>3, <2>1
  <2>4. [q EXCEPT ![i] = q[i]] = q
    BY <2>2
  <2> QED
    BY <2>1, <2>3, <2>4
<1>5. [t EXCEPT !.elements[i].redraw = TRUE, !.must_draw = TRUE] = [t EXCEPT !.must_draw = TRUE]
  BY <1>1, <1>4 DEF UiType
<1> QED
  BY <1>5 DEF gui_element_mark_for_redraw

LEMMA MarkedIsUi ==
    ASSUME NEW t, IsUi(t)
    PROVE  LET u == [t EXCEPT !.must_draw = TRUE]
           IN  IsUi(u) /\ ButField(t, u) /\ u.must_draw = TRUE /\ u.field = t.field
<1> DEFINE u == [t EXCEPT !.must_draw = TRUE]
<1>1. t \in UiType
  BY DEF IsUi
<1>2. /\ u.must_draw = TRUE /\ u \in UiType
      /\ u.elements = t.elements /\ u.events = t.events /\ u.focused = t.focused
      /\ u.field = t.field /\ u.list = t.list /\ u.printed = t.printed
      /\ u.wild = t.wild /\ u.recycled = t.recycled
  BY ONLY <1>1 DEF UiType
<1> HIDE DEF u
<1>4. IsUi(u)
  BY <1>2 DEF IsUi
<1> QED
  BY <1>2, <1>4 DEF u, ButField

-----------------------------------------------------------------------------
(* Events *)

LEMMA NewEvents ==
    ASSUME NEW t, IsUi(t), NEW q \in Seq(EventType), EventsFor(q, Len(t.elements))
    PROVE  LET u == [t EXCEPT !.events = q]
           IN  IsUi(u) /\ ButEvents(t, u) /\ u.events = q
<1> DEFINE u == [t EXCEPT !.events = q]
<1>1. t \in UiType
  BY DEF IsUi
<1>2. u \in UiType /\ ButEvents(t, u) /\ u.events = q
  BY ONLY <1>1, q \in Seq(EventType) DEF UiType, ButEvents
<1> HIDE DEF u
<1>4. IsUi(u)
  BY <1>2 DEF IsUi, ButEvents
<1> QED
  BY <1>2, <1>4 DEF u

Sent(targets, event) == [k \in 1..Len(targets) |-> [event EXCEPT !.element = targets[k]]]

LEMMA SentFor ==
    ASSUME NEW n \in Nat, NEW targets \in Seq(1..n), NEW event \in EventType
    PROVE  /\ Sent(targets, event) \in Seq(EventType)
           /\ EventsFor(Sent(targets, event), n)
           /\ Len(Sent(targets, event)) = Len(targets)
           /\ \A k \in 1..Len(targets) :
                  /\ Sent(targets, event)[k].type = event.type
                  /\ Sent(targets, event)[k].element = targets[k]
                  /\ Sent(targets, event)[k].value = event.value
<1>1. \A k \in 1..Len(targets) :
        LET e == [event EXCEPT !.element = targets[k]]
        IN  /\ e \in EventType /\ e.element = targets[k] /\ targets[k] \in 1..n
            /\ e.type = event.type /\ e.value = event.value
  <2>1. ASSUME NEW i \in Nat, NEW e, e = [event EXCEPT !.element = i]
        PROVE  /\ e \in EventType /\ e.element = i
               /\ e.type = event.type /\ e.value = event.value
    BY ONLY <2>1, event \in EventType DEF EventType
  <2>2. \A k \in 1..Len(targets) : targets[k] \in 1..n /\ targets[k] \in Nat
    OBVIOUS
  <2> QED
    BY <2>1, <2>2
<1>2. Len(targets) \in Nat
  OBVIOUS
<1>3. Sent(targets, event) \in [1..Len(targets) -> EventType]
  BY <1>1 DEF Sent
<1>4. Sent(targets, event) \in Seq(EventType) /\ Len(Sent(targets, event)) = Len(targets)
  BY <1>2, <1>3
<1>5. \A k \in 1..Len(targets) :
        Sent(targets, event)[k] = [event EXCEPT !.element = targets[k]]
  BY DEF Sent
<1> QED
  BY <1>1, <1>4, <1>5 DEF EventsFor

LEMMA PushKeeps ==
    ASSUME NEW t, IsUi(t), NEW targets \in Seq(1..Len(t.elements)), NEW event \in EventType
    PROVE  LET u == Push(t, targets, event)
           IN  /\ IsUi(u) /\ ButEvents(t, u)
               /\ u.events = t.events \o Sent(targets, event)
<1> DEFINE n == Len(t.elements)
           q == t.events \o Sent(targets, event)
<1>1. t.events \in Seq(EventType) /\ EventsFor(t.events, n) /\ n \in Nat
  BY DEF IsUi, UiType
<1>2. Sent(targets, event) \in Seq(EventType) /\ EventsFor(Sent(targets, event), n)
  BY <1>1, SentFor
<1>3. q \in Seq(EventType)
  BY ONLY <1>1, <1>2, ConcatProperties
<1>4. EventsFor(q, n)
  <2>1. PICK a, b : a = t.events /\ b = Sent(targets, event)
    OBVIOUS
  <2>2. a \in Seq(EventType) /\ b \in Seq(EventType) /\ EventsFor(a, n) /\ EventsFor(b, n)
    BY <1>1, <1>2, <2>1
  <2>3. EventsFor(a \o b, n)
    BY ONLY <2>2 DEF EventsFor
  <2> QED
    BY <2>1, <2>3
<1>5. Push(t, targets, event) = [t EXCEPT !.events = q]
  BY DEF Push, Sent
<1> QED
  BY <1>3, <1>4, <1>5, NewEvents

LEMMA SentToNone == ASSUME NEW event PROVE Sent(<<>>, event) = <<>>
BY DEF Sent

LEMMA SentToOne ==
    ASSUME NEW event \in EventType, NEW i \in Nat
    PROVE  Sent(<<i>>, event) = <<[event EXCEPT !.element = i]>>
BY DEF Sent

LEMMA ElementsInOrder ==
    ASSUME NEW n \in Nat, NEW S \in SUBSET (1..n)
    PROVE  InOrder(S) \in Seq(1..n)
<1>1. IsFiniteSet(1..n)
  BY FS_Interval
<1>2. IsFiniteSet(S)
  BY <1>1, FS_Subset
<1>3. S \subseteq Nat
  OBVIOUS
<1>4. InOrder(S) \in Seq(S)
  BY <1>2, <1>3, InOrderLists
<1>5. ASSUME NEW q \in Seq(S) PROVE q \in Seq(1..n)
  <2>1. \A k \in 1..Len(q) : q[k] \in S
    OBVIOUS
  <2>2. \A i \in S : i \in 1..n
    OBVIOUS
  <2>3. q \in [1..Len(q) -> S] /\ Len(q) \in Nat
    OBVIOUS
  <2>4. q \in [1..Len(q) -> 1..n] /\ Len(q) \in Nat
    BY <2>2, <2>3
  <2> QED
    BY <2>4
<1> QED
  BY <1>4, <1>5

\* An element has one child or none: the one that covers it.
LEMMA ChildrenAre ==
    ASSUME NEW t, IsUi(t), NEW i \in 1..Len(t.elements)
    PROVE  /\ Children(t, i) \in SUBSET (1..Len(t.elements))
           /\ Children(t, i) = {} \/ (Children(t, i) = {i + 1} /\ i < Len(t.elements))
           /\ i = Len(t.elements) => Children(t, i) = {}
           /\ t.elements[i].parent # NULL => Children(t, i) = {}
<1>1. t.elements \in Seq(ElementType) /\ Len(t.elements) \in Nat
  BY DEF IsUi, UiType
<1>2. \A c \in Children(t, i) : c = i + 1 /\ t.elements[i].parent = NULL
  <2>1. ASSUME NEW c \in Children(t, i)
        PROVE  c = i + 1 /\ t.elements[i].parent = NULL
    <3>1. c \in 1..Len(t.elements) /\ t.elements[c].parent = i /\ i # NULL
      BY DEF Children, NULL
    <3>2. Stands(t.elements, c)
      BY <3>1 DEF IsUi, Tree
    <3>3. i = c - 1 /\ t.elements[c - 1].parent = NULL
      BY <3>1, <3>2 DEF Stands
    <3> QED
      BY <3>1, <3>3
  <2> QED
    BY <2>1
<1>3. Children(t, i) \in SUBSET (1..Len(t.elements))
  BY DEF Children
<1> QED
  BY <1>1, <1>2, <1>3

LEMMA EventIsTyped ==
    ASSUME NEW type \in EventKinds, NEW x \in Int, NEW y \in Int, NEW n \in Nat
    PROVE  /\ GuiEvent(type) \in EventType /\ GuiEvent(type).type = type
           /\ Click(x, y) \in EventType /\ Click(x, y).type = "CLICKED"
           /\ KeyStroke(n) \in EventType /\ KeyStroke(n).type = "KEYSTROKE"
           /\ KeyStroke(n).value = n
           /\ Selected(n) \in EventType /\ Selected(n).type = "LISTAREA_ITEM_SELECTED"
           /\ Selected(n).value = n
<1>1. \A k \in EventKinds : GuiEvent(k) \in EventType /\ GuiEvent(k).type = k
  BY DEF GuiEvent, EventType, NULL
<1>2. \A k \in EventKinds : \A v \in Nat :
        LET e == [GuiEvent(k) EXCEPT !.value = v]
        IN  e \in EventType /\ e.type = k /\ e.value = v
  BY DEF GuiEvent, EventType, NULL
<1>3. \A k \in EventKinds :
        LET e == [GuiEvent(k) EXCEPT !.x = x, !.y = y] IN e \in EventType /\ e.type = k
  <2>1. ASSUME NEW e \in EventType
        PROVE  /\ [e EXCEPT !.x = x, !.y = y] \in EventType
               /\ [e EXCEPT !.x = x, !.y = y].type = e.type
    BY DEF EventType
  <2> QED
    BY <1>1, <2>1
<1>4. {"CLICKED", "KEYSTROKE", "LISTAREA_ITEM_SELECTED"} \subseteq EventKinds
  BY DEF EventKinds
<1>5. Click(x, y) \in EventType /\ Click(x, y).type = "CLICKED"
  BY <1>3, <1>4 DEF Click
<1>6. KeyStroke(n) \in EventType /\ KeyStroke(n).type = "KEYSTROKE" /\ KeyStroke(n).value = n
  BY <1>2, <1>4 DEF KeyStroke
<1>7. /\ Selected(n) \in EventType /\ Selected(n).type = "LISTAREA_ITEM_SELECTED"
      /\ Selected(n).value = n
  BY <1>2, <1>4 DEF Selected
<1> QED
  BY <1>1, <1>5, <1>6, <1>7

LEMMA PushToRoots ==
    ASSUME NEW t, IsUi(t), NEW event \in EventType, NEW targets
    PROVE  LET u == gui_event_push(t, event, targets)
           IN  /\ IsUi(u) /\ ButEvents(t, u)
               /\ u.events = t.events \o Sent(InOrder(Roots(t) \cap targets), event)
<1>1. Len(t.elements) \in Nat
  BY DEF IsUi, UiType
<1>2. Roots(t) \cap targets \in SUBSET (1..Len(t.elements))
  BY DEF Roots, Children
<1>3. InOrder(Roots(t) \cap targets) \in Seq(1..Len(t.elements))
  BY <1>1, <1>2, ElementsInOrder
<1> QED
  BY <1>3, PushKeeps DEF gui_event_push

\* The events of a change of the focus.
IsFocusing(q) ==
    q \in Seq(EventType) /\ \A k \in 1..Len(q) : q[k].type \in {"FOCUSED", "UNFOCUSED"}

\* What the events of a change of the focus are for: all the roots.
ForRoots(t, q) ==
    IsFocusing(q) /\ \A i \in Roots(t) : \E k \in 1..Len(q) : q[k].element = i

LEMMA FocusingSent ==
    ASSUME NEW n \in Nat, NEW S \in SUBSET (1..n), NEW type \in {"FOCUSED", "UNFOCUSED"}
    PROVE  LET q == Sent(InOrder(S), GuiEvent(type))
           IN  /\ IsFocusing(q)
               /\ \A i \in S : \E k \in 1..Len(q) : q[k].element = i
<1>1. PICK event \in EventType : event = GuiEvent(type) /\ event.type = type
  <2>1. type \in EventKinds
    BY DEF EventKinds
  <2> QED
    BY <2>1, EventIsTyped
<1>2. PICK targets \in Seq(1..n) : targets = InOrder(S)
  BY ElementsInOrder
<1>3. PICK q : q = Sent(targets, event)
  OBVIOUS
<1>4. /\ q \in Seq(EventType) /\ Len(q) = Len(targets)
      /\ \A k \in 1..Len(targets) : q[k].type = type /\ q[k].element = targets[k]
  <2>1. /\ Sent(targets, event) \in Seq(EventType)
        /\ Len(Sent(targets, event)) = Len(targets)
        /\ \A k \in 1..Len(targets) :
              /\ Sent(targets, event)[k].type = event.type
              /\ Sent(targets, event)[k].element = targets[k]
    BY ONLY n \in Nat, targets \in Seq(1..n), event \in EventType, SentFor
  <2> QED
    BY ONLY <1>1, <1>3, <2>1
<1>5. IsFocusing(q)
  BY <1>4 DEF IsFocusing
<1>6. \A i \in S : \E k \in 1..Len(targets) : targets[k] = i
  BY <1>2, InOrderHasAll
<1> QED
  BY <1>1, <1>2, <1>3, <1>4, <1>5, <1>6, SMTT(30)

LEMMA FocusingToRoots ==
    ASSUME NEW t, IsUi(t), NEW type \in {"FOCUSED", "UNFOCUSED"}
    PROVE  LET u == gui_event_push(t, GuiEvent(type), 1..Len(t.elements))
           IN  /\ IsUi(u) /\ ButEvents(t, u)
               /\ \E q : ForRoots(t, q) /\ u.events = t.events \o q
<1> DEFINE n == Len(t.elements)
           q == Sent(InOrder(Roots(t)), GuiEvent(type))
<1>1. GuiEvent(type) \in EventType
  <2>1. type \in EventKinds
    BY DEF EventKinds
  <2> QED
    BY <2>1, EventIsTyped
<1>2. n \in Nat /\ Roots(t) \in SUBSET (1..n) /\ Roots(t) \cap (1..n) = Roots(t)
  BY DEF IsUi, UiType, Roots, Children
<1>3. ForRoots(t, q)
  BY <1>2, FocusingSent DEF ForRoots
<1>4. LET u == gui_event_push(t, GuiEvent(type), 1..n)
      IN  IsUi(u) /\ ButEvents(t, u) /\ u.events = t.events \o q
  BY <1>1, <1>2, PushToRoots
<1> HIDE DEF q
<1> QED
  BY <1>3, <1>4

-----------------------------------------------------------------------------
(* The focus *)

ButFocus(t, u) ==
    /\ u.elements = t.elements /\ u.must_draw = t.must_draw
    /\ u.field = t.field /\ u.list = t.list /\ u.printed = t.printed
    /\ u.wild = t.wild /\ u.recycled = t.recycled

LEMMA NewFocus ==
    ASSUME NEW t, IsUi(t), NEW i \in 0..Len(t.elements)
    PROVE  LET u == [t EXCEPT !.focused = i]
           IN  IsUi(u) /\ ButFocus(t, u) /\ u.focused = i /\ u.events = t.events
<1> DEFINE u == [t EXCEPT !.focused = i]
<1>1. t \in UiType /\ i \in Nat
  BY DEF IsUi, UiType
<1>2. u \in UiType /\ ButFocus(t, u) /\ u.focused = i /\ u.events = t.events
  BY ONLY <1>1 DEF UiType, ButFocus
<1> HIDE DEF u
<1>3. IsUi(u)
  BY <1>2 DEF IsUi, ButFocus
<1> QED
  BY <1>2, <1>3 DEF u

LEMMA ForRootsTwice ==
    ASSUME NEW t, NEW q, NEW r, IsFocusing(q), ForRoots(t, r)
    PROVE  ForRoots(t, q \o r)
<1>1. /\ q \in Seq(EventType) /\ r \in Seq(EventType)
      /\ \A k \in 1..Len(q) : q[k].type \in {"FOCUSED", "UNFOCUSED"}
      /\ \A k \in 1..Len(r) : r[k].type \in {"FOCUSED", "UNFOCUSED"}
  BY DEF IsFocusing, ForRoots
<1>2. IsFocusing(q \o r)
  BY <1>1 DEF IsFocusing
<1>3. ASSUME NEW i \in Roots(t)
      PROVE  \E k \in 1..Len(q \o r) : (q \o r)[k].element = i
  <2>1. PICK k \in 1..Len(r) : r[k].element = i
    BY DEF ForRoots
  <2>2. Len(q) + k \in 1..Len(q \o r) /\ (q \o r)[Len(q) + k] = r[k]
    BY <1>1
  <2> QED
    BY <2>1, <2>2
<1> QED
  BY <1>2, <1>3 DEF ForRoots

LEMMA EventsAssociate ==
    ASSUME NEW a \in Seq(EventType), NEW b \in Seq(EventType), NEW c \in Seq(EventType)
    PROVE  (a \o b) \o c = a \o (b \o c)
BY ConcatAssociative

LEMMA FocusKeeps ==
    ASSUME NEW t, IsUi(t), NEW i \in 1..Len(t.elements)
    PROVE  LET u == gui_focus_on_element(t, i)
           IN  /\ IsUi(u) /\ ButFocus(t, u) /\ u.focused = i
               /\ \E q : ForRoots(t, q) /\ u.events = t.events \o q
<1> DEFINE v == gui_unfocus_element(t)
           w == [v EXCEPT !.focused = i]
<1>0. Len(t.elements) \in Nat /\ t.events \in Seq(EventType)
  BY DEF IsUi, UiType
<1>1. /\ IsUi(v) /\ ButFocus(t, v) /\ v.focused = NULL
      /\ \E q : IsFocusing(q) /\ v.events = t.events \o q
  <2>1. CASE t.focused = NULL
    <3>1. v = t /\ IsFocusing(<<>>) /\ t.events = t.events \o <<>>
      BY <1>0, <2>1 DEF gui_unfocus_element, IsFocusing
    <3> QED
      BY <2>1, <3>1 DEF ButFocus
  <2>2. CASE t.focused # NULL
    <3>1. PICK x : x = [t EXCEPT !.focused = NULL]
      OBVIOUS
    <3>2. IsUi(x) /\ ButFocus(t, x) /\ x.focused = NULL /\ x.events = t.events
      <4>1. NULL \in 0..Len(t.elements)
        BY <1>0 DEF NULL
      <4> QED
        BY <3>1, <4>1, NewFocus
    <3>3. v = gui_event_push(x, GuiEvent("UNFOCUSED"), 1..Len(x.elements))
      BY <2>2, <3>1, <3>2 DEF gui_unfocus_element, ButFocus
    <3>4. /\ IsUi(v) /\ ButEvents(x, v)
          /\ \E q : IsFocusing(q) /\ v.events = x.events \o q
      <4>1. LET y == gui_event_push(x, GuiEvent("UNFOCUSED"), 1..Len(x.elements))
            IN  /\ IsUi(y) /\ ButEvents(x, y)
                /\ \E q : ForRoots(x, q) /\ y.events = x.events \o q
        BY <3>2, FocusingToRoots
      <4>2. \A q : ForRoots(x, q) => IsFocusing(q)
        BY DEF ForRoots
      <4> QED
        BY ONLY <3>3, <4>1, <4>2
    <3> QED
      BY <3>2, <3>4 DEF ButFocus, ButEvents
  <2> QED
    BY <2>1, <2>2
<1> HIDE DEF v
<1>2. /\ IsUi(w) /\ ButFocus(v, w) /\ w.focused = i /\ w.events = v.events
  <2>1. i \in 0..Len(v.elements)
    BY <1>0, <1>1 DEF ButFocus
  <2> QED
    BY <1>1, <2>1, NewFocus
<1>3. gui_focus_on_element(t, i) = gui_event_push(w, GuiEvent("FOCUSED"), 1..Len(w.elements))
  BY <1>0, <1>1, <1>2 DEF gui_focus_on_element, v, ButFocus, NULL
<1> HIDE DEF w
<1>4. PICK u : u = gui_focus_on_element(t, i)
  OBVIOUS
<1>5. /\ IsUi(u) /\ ButEvents(w, u)
      /\ \E r : ForRoots(w, r) /\ u.events = w.events \o r
  BY <1>2, <1>3, <1>4, FocusingToRoots
<1>6. PICK q, r : /\ IsFocusing(q) /\ v.events = t.events \o q
                  /\ ForRoots(w, r) /\ u.events = w.events \o r
  BY <1>1, <1>5
<1>7. ForRoots(t, r)
  BY <1>1, <1>2, <1>6 DEF ForRoots, Roots, Children, ButFocus
<1>8. q \in Seq(EventType) /\ r \in Seq(EventType)
  BY <1>6 DEF IsFocusing, ForRoots
<1>9. u.events = t.events \o (q \o r)
  <2>1. u.events = (t.events \o q) \o r
    BY <1>2, <1>6
  <2> QED
    BY <1>0, <1>8, <2>1, EventsAssociate
<1> QED
  BY <1>1, <1>2, <1>4, <1>5, <1>6, <1>7, <1>9, ForRootsTwice DEF ButFocus, ButEvents

-----------------------------------------------------------------------------
(* The text field *)

LEMMA NewField ==
    ASSUME NEW t, IsUi(t), NEW f \in FieldType, f.element = t.field.element,
           f.element # NULL => f.index < Len(f.text)
    PROVE  LET u == [t EXCEPT !.field = f]
           IN  IsUi(u) /\ ButField(t, u) /\ u.field = f /\ u.must_draw = t.must_draw
<1> DEFINE u == [t EXCEPT !.field = f]
<1>1. t \in UiType
  BY DEF IsUi
<1>2. u \in UiType /\ ButField(t, u) /\ u.field = f /\ u.must_draw = t.must_draw
  BY ONLY <1>1, f \in FieldType DEF UiType, ButField
<1> HIDE DEF u
<1>3. IsUi(u)
  BY <1>2 DEF IsUi, ButField
<1> QED
  BY <1>2, <1>3 DEF u

RoomText(t) ==
    IF t.field.index >= Len(t.field.text) - 1
    THEN t.field.text \o Blanks(TEXTFIELD_DEFAULT_BUFFER_SIZE, t.recycled)
    ELSE t.field.text

PutField(t, c) ==
    [t.field EXCEPT !.text = [RoomText(t) EXCEPT ![t.field.index + 1] = c],
                    !.index = @ + 1]

LEMMA FieldIs ==
    ASSUME NEW t, IsUi(t), t.field.element # NULL
    PROVE  /\ t.field.text \in Seq(Nat) /\ Len(t.field.text) \in Nat \ {0}
           /\ t.field.index \in Nat /\ t.field.max_allowed_len \in Nat \ {0}
           /\ t.field.index < Len(t.field.text) /\ t.field.read_only = FALSE
           /\ t.field.element \in 1..Len(t.elements)
           /\ t.field \in [element : Nat \ {NULL}, index : Nat, read_only : {FALSE},
                           max_allowed_len : Nat \ {0}, text : Seq(Nat)]
<1>1. t.field \in FieldType /\ Len(t.elements) \in Nat
  BY DEF IsUi, UiType
<1>2. t.field \in [element : Nat \ {NULL}, index : Nat, read_only : {FALSE},
                   max_allowed_len : Nat \ {0}, text : Seq(Nat)]
  BY <1>1 DEF FieldType
<1>3. t.field.index < Len(t.field.text) /\ t.field.element \in 0..Len(t.elements)
  BY DEF IsUi
<1>4. t.field.element \in 1..Len(t.elements)
  BY <1>1, <1>3 DEF NULL
<1>5. t.field.text \in Seq(Nat) /\ t.field.index \in Nat
  BY <1>2
<1>6. t.field.max_allowed_len \in Nat \ {0} /\ t.field.read_only = FALSE
  BY <1>2
<1>7. Len(t.field.text) \in Nat
  BY <1>5
<1>8. Len(t.field.text) \in Nat \ {0}
  BY <1>3, <1>5, <1>7
<1> QED
  BY <1>2, <1>3, <1>4, <1>5, <1>6, <1>8

LEMMA BlanksAre ==
    ASSUME NEW n \in Nat, NEW c \in Nat
    PROVE  /\ Blanks(n, c) \in Seq(Nat) /\ Len(Blanks(n, c)) = n
           /\ \A k \in 1..n : Blanks(n, c)[k] = c
BY DEF Blanks

LEMMA RoomIs ==
    ASSUME NEW t, IsUi(t), t.field.element # NULL
    PROVE  /\ RoomText(t) \in Seq(Nat) /\ t.field.index + 1 < Len(RoomText(t))
           /\ Len(RoomText(t)) >= Len(t.field.text)
           /\ \A k \in 1..Len(t.field.text) : RoomText(t)[k] = t.field.text[k]
           /\ \A k \in Len(t.field.text) + 1..Len(RoomText(t)) : RoomText(t)[k] = t.recycled
<1> DEFINE B == TEXTFIELD_DEFAULT_BUFFER_SIZE
<1>1. B \in Nat /\ B >= 2 /\ t.recycled \in Nat
  BY TextfieldAssumption DEF IsUi, UiType
<1>2. PICK q : q = t.field.text
  OBVIOUS
<1>3. q \in Seq(Nat) /\ Len(q) \in Nat \ {0} /\ t.field.index \in Nat /\ t.field.index < Len(q)
  BY <1>2, FieldIs
<1>4. PICK b : b = Blanks(B, t.recycled)
  OBVIOUS
<1>5. b \in Seq(Nat) /\ Len(b) = B /\ \A k \in 1..B : b[k] = t.recycled
  BY <1>1, <1>4, BlanksAre
<1>6. CASE t.field.index >= Len(q) - 1
  <2>1. RoomText(t) = q \o b
    BY <1>2, <1>4, <1>6 DEF RoomText
  <2>2. /\ q \o b \in Seq(Nat) /\ Len(q \o b) = Len(q) + B
        /\ \A k \in 1..Len(q) : (q \o b)[k] = q[k]
        /\ \A k \in Len(q) + 1..Len(q) + B : (q \o b)[k] = b[k - Len(q)]
    <3>1. /\ q \o b \in Seq(Nat) /\ Len(q \o b) = Len(q) + Len(b)
          /\ \A k \in 1..Len(q) + Len(b) :
                (q \o b)[k] = IF k <= Len(q) THEN q[k] ELSE b[k - Len(q)]
      BY <1>3, <1>5, ConcatProperties
    <3> QED
      BY <1>1, <1>3, <1>5, <3>1
  <2>3. \A k \in Len(q) + 1..Len(q) + B : k - Len(q) \in 1..B
    BY <1>1, <1>3
  <2>4. \A k \in Len(q) + 1..Len(q) + B : (q \o b)[k] = t.recycled
    BY <1>5, <2>2, <2>3
  <2>5. t.field.index + 1 < Len(q) + B /\ Len(q) + B >= Len(q)
    BY <1>1, <1>3
  <2> HIDE DEF B
  <2>6. PICK r : r = q \o b
    OBVIOUS
  <2>7. /\ RoomText(t) = r /\ r \in Seq(Nat) /\ Len(r) = Len(q) + B
        /\ \A k \in 1..Len(q) : r[k] = q[k]
        /\ \A k \in Len(q) + 1..Len(q) + B : r[k] = t.recycled
    BY <2>1, <2>2, <2>4, <2>6
  <2> QED
    BY <1>2, <2>5, <2>7
<1>7. CASE ~(t.field.index >= Len(q) - 1)
  <2>1. RoomText(t) = q
    BY <1>2, <1>7 DEF RoomText
  <2> QED
    BY <1>2, <1>3, <1>7, <2>1
<1> QED
  BY <1>6, <1>7

LEMMA CellSet ==
    ASSUME NEW q \in Seq(Nat), NEW i, NEW c \in Nat
    PROVE  /\ [q EXCEPT ![i] = c] \in Seq(Nat) /\ Len([q EXCEPT ![i] = c]) = Len(q)
           /\ \A k \in 1..Len(q) : [q EXCEPT ![i] = c][k] = IF k = i THEN c ELSE q[k]
<1>1. q \in [1..Len(q) -> Nat] /\ Len(q) \in Nat
  OBVIOUS
<1>2. [q EXCEPT ![i] = c] \in [1..Len(q) -> Nat]
  BY <1>1
<1> QED
  BY <1>1, <1>2

LEMMA PutFieldIs ==
    ASSUME NEW t, IsUi(t), t.field.element # NULL, NEW c \in Nat
    PROVE  /\ PutField(t, c) \in FieldType /\ PutField(t, c).element = t.field.element
           /\ PutField(t, c).max_allowed_len = t.field.max_allowed_len
           /\ PutField(t, c).index = t.field.index + 1
           /\ PutField(t, c).text = [RoomText(t) EXCEPT ![t.field.index + 1] = c]
           /\ PutField(t, c).text \in Seq(Nat)
           /\ Len(PutField(t, c).text) = Len(RoomText(t))
           /\ PutField(t, c).index < Len(PutField(t, c).text)
<1> DEFINE q == [RoomText(t) EXCEPT ![t.field.index + 1] = c]
<1>1. q \in Seq(Nat) /\ Len(q) = Len(RoomText(t))
  <2>1. RoomText(t) \in Seq(Nat)
    BY RoomIs
  <2> QED
    BY <2>1, CellSet
<1>2. PutField(t, c) = [t.field EXCEPT !.text = q, !.index = @ + 1]
  BY DEF PutField
<1> HIDE DEF q
<1>3. t.field \in [element : Nat \ {NULL}, index : Nat, read_only : {FALSE},
                   max_allowed_len : Nat \ {0}, text : Seq(Nat)]
  BY FieldIs
<1>4. /\ PutField(t, c) \in FieldType /\ PutField(t, c).element = t.field.element
      /\ PutField(t, c).max_allowed_len = t.field.max_allowed_len
      /\ PutField(t, c).index = t.field.index + 1
      /\ PutField(t, c).text = q
  <2>1. PICK f : f = t.field
    OBVIOUS
  <2>2. f \in [element : Nat \ {NULL}, index : Nat, read_only : {FALSE},
               max_allowed_len : Nat \ {0}, text : Seq(Nat)]
    BY <1>3, <2>1
  <2>3. PICK g : g = [f EXCEPT !.text = q, !.index = @ + 1]
    OBVIOUS
  <2>4. /\ g \in [element : Nat \ {NULL}, index : Nat, read_only : {FALSE},
                  max_allowed_len : Nat \ {0}, text : Seq(Nat)]
        /\ g.element = f.element /\ g.max_allowed_len = f.max_allowed_len
        /\ g.index = f.index + 1 /\ g.text = q
    <3>1. f.index + 1 \in Nat /\ q \in Seq(Nat)
      BY <1>1, <2>2
    <3>2. PICK j : j = f.index + 1
      OBVIOUS
    <3>3. g = [f EXCEPT !.text = q, !.index = j]
      BY <2>3, <3>2
    <3> QED
      BY ONLY <3>1, <3>2, <3>3, <2>2
  <2> QED
    BY <1>2, <2>1, <2>3, <2>4 DEF FieldType
<1>5. t.field.index + 1 < Len(RoomText(t))
  BY RoomIs
<1> QED
  BY <1>1, <1>4, <1>5 DEF q

\* What changes a field and asks for a redraw.
LEMMA DrawnField ==
    ASSUME NEW t, IsUi(t), NEW f \in FieldType, f.element = t.field.element,
           f.element # NULL, f.index < Len(f.text)
    PROVE  LET u == gui_element_mark_for_redraw([t EXCEPT !.field = f], t.field.element)
           IN  IsUi(u) /\ ButField(t, u) /\ u.field = f /\ u.must_draw = TRUE
<1>1. PICK v : v = [t EXCEPT !.field = f]
  OBVIOUS
<1>2. IsUi(v) /\ ButField(t, v) /\ v.field = f
  BY <1>1, NewField
<1>3. t.field.element \in 1..Len(v.elements)
  BY <1>2, FieldIs DEF ButField
<1>4. PICK u : u = [v EXCEPT !.must_draw = TRUE]
  OBVIOUS
<1>5. IsUi(u) /\ ButField(v, u) /\ u.must_draw = TRUE /\ u.field = v.field
  BY <1>2, <1>4, MarkedIsUi
<1>6. u = gui_element_mark_for_redraw(v, t.field.element)
  BY <1>2, <1>3, <1>4, MarkIs
<1> QED
  BY <1>1, <1>2, <1>5, <1>6 DEF ButField

LEMMA PutKeeps ==
    ASSUME NEW t, IsUi(t), t.field.element # NULL, NEW c \in Nat,
           t.field.index < t.field.max_allowed_len - 1
    PROVE  LET u == gui_element_textfield_put_char(t, c)
           IN  /\ IsUi(u) /\ ButField(t, u) /\ u.must_draw = TRUE
               /\ u.field = PutField(t, c)
<1>1. t \in UiType /\ t.field \in [element : Nat \ {NULL}, index : Nat, read_only : {FALSE},
                   max_allowed_len : Nat \ {0}, text : Seq(Nat)]
  BY FieldIs DEF IsUi
<1>2. ~(t.field.index >= t.field.max_allowed_len - 1)
  <2>1. t.field.index \in Nat /\ t.field.max_allowed_len \in Nat
    BY FieldIs
  <2> QED
    BY <2>1
<1> DEFINE grown == gui_element_textfield_realloc_text(t,
                        Len(t.field.text) + TEXTFIELD_DEFAULT_BUFFER_SIZE)
           f == [t.field EXCEPT !.text = RoomText(t)]
<1>3. PICK roomy : roomy = IF t.field.index >= Len(t.field.text) - 1 THEN grown ELSE t
  OBVIOUS
<1>4. f \in FieldType /\ f.element = t.field.element /\ f.text = RoomText(t)
      /\ f.index = t.field.index
  BY <1>1, RoomIs DEF FieldType
<1>5. IsUi(roomy) /\ ButField(t, roomy) /\ roomy.field = f
  <2>1. CASE t.field.index >= Len(t.field.text) - 1
    <3>1. [t EXCEPT !.field.text = RoomText(t)] = [t EXCEPT !.field = f]
      BY <1>1 DEF UiType
    <3>2. TEXTFIELD_DEFAULT_BUFFER_SIZE \in Nat /\ Len(t.field.text) \in Nat
      BY TextfieldAssumption, FieldIs
    <3>5. roomy = gui_element_mark_for_redraw([t EXCEPT !.field = f], t.field.element)
      <4>1. grown = gui_element_mark_for_redraw([t EXCEPT !.field.text = RoomText(t)],
                                                t.field.element)
        <5>1. PICK n : n = Len(t.field.text) + TEXTFIELD_DEFAULT_BUFFER_SIZE
          OBVIOUS
        <5>2. t.field.text \o Blanks(n - Len(t.field.text), t.recycled) = RoomText(t)
          <6>1. n - Len(t.field.text) = TEXTFIELD_DEFAULT_BUFFER_SIZE
            BY <3>2, <5>1
          <6>2. PICK j : j = n - Len(t.field.text)
            OBVIOUS
          <6>3. t.field.text \o Blanks(j, t.recycled) = RoomText(t)
            BY <2>1, <6>1, <6>2 DEF RoomText
          <6> QED
            BY <6>2, <6>3, Zenon
        <5>3. grown = gui_element_textfield_realloc_text(t, n)
          BY <5>1
        <5> HIDE DEF grown
        <5> QED
          BY <5>2, <5>3, Zenon DEF gui_element_textfield_realloc_text
      <4> QED
        BY <1>3, <2>1, <3>1, <4>1
    <3>6. f.index < Len(f.text)
      <4>1. t.field.index + 1 < Len(RoomText(t)) /\ RoomText(t) \in Seq(Nat)
        BY RoomIs
      <4>2. t.field.index \in Nat
        BY FieldIs
      <4>3. Len(RoomText(t)) \in Nat
        BY <4>1
      <4> QED
        BY <1>4, <4>1, <4>2, <4>3
    <3> HIDE DEF f
    <3> QED
      BY <1>4, <3>5, <3>6, DrawnField
  <2>2. CASE ~(t.field.index >= Len(t.field.text) - 1)
    <3>1. RoomText(t) = t.field.text /\ roomy = t
      BY <1>3, <2>2 DEF RoomText
    <3>2. f = t.field
      BY <1>1, <3>1
    <3> QED
      BY <3>1, <3>2 DEF ButField
  <2> QED
    BY <2>1, <2>2
<1>6. [roomy EXCEPT !.field.text[t.field.index + 1] = c, !.field.index = @ + 1]
        = [roomy EXCEPT !.field = PutField(t, c)]
  <2>1. [f EXCEPT !.text[t.field.index + 1] = c, !.index = @ + 1] = PutField(t, c)
    BY <1>1, <1>4 DEF PutField
  <2>2. roomy \in UiType
    BY <1>5 DEF IsUi
  <2> HIDE DEF f
  <2> QED
    BY <1>4, <1>5, <2>1, <2>2 DEF UiType
<1>7. gui_element_textfield_put_char(t, c)
        = gui_element_mark_for_redraw([roomy EXCEPT !.field = PutField(t, c)], t.field.element)
  BY <1>2, <1>3, <1>6 DEF gui_element_textfield_put_char
<1>8. /\ PutField(t, c) \in FieldType /\ PutField(t, c).element = roomy.field.element
      /\ PutField(t, c).element # NULL /\ PutField(t, c).index < Len(PutField(t, c).text)
      /\ roomy.field.element = t.field.element
  BY <1>4, <1>5, PutFieldIs
<1>9. PICK g : g = PutField(t, c)
  OBVIOUS
<1>10. PICK u : u = gui_element_mark_for_redraw([roomy EXCEPT !.field = g], roomy.field.element)
  OBVIOUS
<1>11. IsUi(u) /\ ButField(roomy, u) /\ u.field = g /\ u.must_draw = TRUE
  BY <1>5, <1>8, <1>9, <1>10, DrawnField
<1>12. u = gui_element_textfield_put_char(t, c)
  BY <1>7, <1>8, <1>9, <1>10
<1> QED
  BY <1>5, <1>9, <1>11, <1>12 DEF ButField

LEMMA NoRoom ==
    ASSUME NEW t, NEW c, t.field.index >= t.field.max_allowed_len - 1
    PROVE  gui_element_textfield_put_char(t, c) = t
BY DEF gui_element_textfield_put_char

-----------------------------------------------------------------------------
(* Loops *)

LEMMA CountUp ==
    ASSUME NEW n \in Nat, NEW S, 0 \in S, \A k \in 0..n - 1 : k \in S => k + 1 \in S
    PROVE  \A k \in 0..n : k \in S
<1> DEFINE Rest == {k \in 0..n : k \notin S}
<1>1. SUFFICES Rest = {}
  OBVIOUS
<1>2. SUFFICES ASSUME Rest # {} PROVE FALSE
  OBVIOUS
<1>3. Rest \subseteq Nat
  OBVIOUS
<1>4. PICK k \in Rest : \A j \in Rest : k <= j
  BY <1>2, <1>3, LeastNumber
<1>5. k # 0 /\ k - 1 \in 0..n - 1 /\ ~(k <= k - 1)
  BY <1>4
<1>6. k - 1 \in S
  BY <1>4, <1>5
<1>7. k - 1 + 1 \in S
  BY <1>5, <1>6
<1> QED
  BY <1>4, <1>5, <1>7

\* A loop of n turns over values of D.
Loop(f, n, base, step) == f = [k \in 0..n |-> IF k = 0 THEN base ELSE step[k][f[k - 1]]]

LEMMA LoopExists ==
    ASSUME NEW n \in Nat, NEW D, NEW base \in D, NEW step \in [1..n -> [D -> D]]
    PROVE  \E f : Loop(f, n, base, step) /\ f \in [0..n -> D]
<1> DEFINE S == {m \in 0..n : \E f : Loop(f, m, base, step) /\ f \in [0..m -> D]}
<1>1. 0 \in S
  <2> DEFINE f == [k \in 0..0 |-> base]
  <2>1. Loop(f, 0, base, step) /\ f \in [0..0 -> D]
    BY DEF Loop
  <2> QED
    BY <2>1
<1>2. ASSUME NEW m \in 0..n - 1, m \in S PROVE m + 1 \in S
  <2>1. PICK f : Loop(f, m, base, step) /\ f \in [0..m -> D]
    BY <1>2
  <2> DEFINE g == [k \in 0..m + 1 |-> IF k = m + 1 THEN step[m + 1][f[m]] ELSE f[k]]
  <2>2. m + 1 \in 1..n /\ m \in 0..m
    BY <1>2
  <2>3. step[m + 1][f[m]] \in D
    BY <2>1, <2>2
  <2>4. \A k \in 0..m : g[k] = f[k]
    OBVIOUS
  <2>5. g \in [0..m + 1 -> D]
    <3>1. \A k \in 0..m + 1 : k = m + 1 \/ k \in 0..m
      OBVIOUS
    <3> QED
      BY <2>1, <2>3, <3>1
  <2>6. \A k \in 0..m + 1 : g[k] = IF k = 0 THEN base ELSE step[k][g[k - 1]]
    <3>1. \A k \in 0..m : f[k] = IF k = 0 THEN base ELSE step[k][f[k - 1]]
      BY <2>1 DEF Loop
    <3>2. \A k \in 0..m + 1 : k # m + 1 => k \in 0..m /\ (k # 0 => k - 1 \in 0..m)
      OBVIOUS
    <3>3. g[m + 1] = step[m + 1][f[m]] /\ m + 1 # 0 /\ m + 1 - 1 = m
      OBVIOUS
    <3> HIDE DEF g
    <3> QED
      BY <2>2, <2>4, <3>1, <3>2, <3>3
  <2>7. Loop(g, m + 1, base, step)
    <3>1. g = [k \in 0..m + 1 |-> g[k]]
      OBVIOUS
    <3> HIDE DEF g
    <3> QED
      BY <2>6, <3>1 DEF Loop
  <2> QED
    BY <2>5, <2>7
<1>3. n \in S
  <2> HIDE DEF S
  <2>1. \A k \in 0..n - 1 : k \in S => k + 1 \in S
    BY <1>2
  <2>2. \A k \in 0..n : k \in S
    BY <1>1, <2>1, CountUp
  <2> QED
    BY <2>2
<1> QED
  BY <1>3

-----------------------------------------------------------------------------
(* What the text field holds *)

MadeField == [element : Nat \ {NULL}, index : Nat, read_only : {FALSE},
              max_allowed_len : Nat \ {0}, text : Seq(Nat)]

\* The text, and behind it zeros or, in what realloc added, recycled memory.
Stored(f, str, junk) ==
    /\ str \in Seq(Nat \ {NUL}) /\ f.index = Len(str)
    /\ Len(f.text) >= TEXTFIELD_DEFAULT_BUFFER_SIZE
    /\ \A k \in 1..Len(str) : f.text[k] = str[k]
    /\ \A k \in Len(str) + 1..Len(f.text) :
          f.text[k] = NUL \/ (f.text[k] = junk /\ k > TEXTFIELD_DEFAULT_BUFFER_SIZE)

LEMMA ClearKeeps ==
    ASSUME NEW t, IsUi(t), t.field.element # NULL
    PROVE  LET u == gui_element_textfield_clear(t)
           IN  /\ IsUi(u) /\ ButField(t, u) /\ u.must_draw = t.must_draw
               /\ u.field.element = t.field.element
               /\ u.field.max_allowed_len = t.field.max_allowed_len
               /\ u.field.index = 0 /\ u.field.text = Blanks(Len(t.field.text), NUL)
<1>1. PICK f : f = t.field
  OBVIOUS
<1>2. f \in MadeField /\ Len(f.text) \in Nat \ {0}
  BY <1>1, FieldIs DEF MadeField
<1>3. PICK q : q = Blanks(Len(f.text), NUL)
  OBVIOUS
<1>4. q \in Seq(Nat) /\ Len(q) = Len(f.text)
  BY <1>2, <1>3, BlanksAre DEF NUL
<1>5. PICK g : g = [f EXCEPT !.index = 0, !.text = q]
  OBVIOUS
<1>6. /\ g \in MadeField /\ g.element = f.element /\ g.index = 0 /\ g.text = q
      /\ g.max_allowed_len = f.max_allowed_len
  BY ONLY <1>2, <1>4, <1>5 DEF MadeField
<1>7. gui_element_textfield_clear(t) = [t EXCEPT !.field = g]
  <2>1. t \in UiType
    BY DEF IsUi
  <2>2. gui_element_textfield_clear(t) = [t EXCEPT !.field.index = 0, !.field.text = q]
    BY <1>1, <1>3 DEF gui_element_textfield_clear
  <2> QED
    BY ONLY <1>1, <1>5, <2>1, <2>2 DEF UiType
<1>8. g \in FieldType /\ g.index < Len(g.text)
  <2>1. g \in FieldType
    BY <1>6 DEF FieldType, MadeField
  <2>2. Len(q) \in Nat \ {0}
    BY <1>2, <1>4
  <2> QED
    BY <1>6, <2>1, <2>2
<1> QED
  BY <1>1, <1>3, <1>6, <1>7, <1>8, NewField

LEMMA ClearStores ==
    ASSUME NEW t, IsUi(t), t.field.element # NULL,
           Len(t.field.text) >= TEXTFIELD_DEFAULT_BUFFER_SIZE
    PROVE  Stored(gui_element_textfield_clear(t).field, <<>>, t.recycled)
<1>1. Len(t.field.text) \in Nat
  BY FieldIs
<1>2. PICK f : f = gui_element_textfield_clear(t).field
  OBVIOUS
<1>3. f.index = 0 /\ f.text = Blanks(Len(t.field.text), NUL)
  BY <1>2, ClearKeeps
<1>4. Len(f.text) = Len(t.field.text) /\ \A k \in 1..Len(f.text) : f.text[k] = NUL
  <2>1. PICK n \in Nat : n = Len(t.field.text)
    BY <1>1
  <2>2. NUL \in Nat
    BY DEF NUL
  <2>3. PICK q : q = f.text /\ q = Blanks(n, NUL)
    BY <1>3, <2>1
  <2>4. Len(q) = n /\ \A k \in 1..n : q[k] = NUL
    BY <2>1, <2>3 DEF Blanks
  <2> QED
    BY <2>1, <2>3, <2>4
<1> QED
  BY <1>2, <1>3, <1>4 DEF Stored

LEMMA PutStores ==
    ASSUME NEW t, IsUi(t), t.field.element # NULL, NEW c \in Nat \ {NUL},
           NEW str, Stored(t.field, str, t.recycled)
    PROVE  Stored(PutField(t, c), Append(str, c), t.recycled)
<1> DEFINE B == TEXTFIELD_DEFAULT_BUFFER_SIZE
           n == Len(str)
<1>1. B \in Nat /\ n \in Nat /\ str \in Seq(Nat \ {NUL}) /\ t.field.index = n
  BY TextfieldAssumption DEF Stored
<1>2. PICK q, r : q = t.field.text /\ r = RoomText(t)
  OBVIOUS
<1>3. /\ q \in Seq(Nat) /\ r \in Seq(Nat) /\ Len(r) >= Len(q) /\ Len(q) \in Nat
      /\ n + 1 < Len(r) /\ Len(r) \in Nat
      /\ \A k \in 1..Len(q) : r[k] = q[k]
      /\ \A k \in Len(q) + 1..Len(r) : r[k] = t.recycled
  <2>1. q \in Seq(Nat) /\ Len(q) \in Nat
    BY <1>2, FieldIs
  <2>2. /\ RoomText(t) \in Seq(Nat) /\ t.field.index + 1 < Len(RoomText(t))
        /\ Len(RoomText(t)) >= Len(t.field.text)
        /\ \A k \in 1..Len(t.field.text) : RoomText(t)[k] = t.field.text[k]
        /\ \A k \in Len(t.field.text) + 1..Len(RoomText(t)) : RoomText(t)[k] = t.recycled
    BY RoomIs
  <2>3. r \in Seq(Nat) /\ Len(r) \in Nat
    BY <1>2, <2>2
  <2> QED
    BY <1>1, <1>2, <2>1, <2>2, <2>3
<1>4. PICK p : p = [r EXCEPT ![n + 1] = c]
  OBVIOUS
<1>5. Len(p) = Len(r) /\ \A k \in 1..Len(r) : p[k] = IF k = n + 1 THEN c ELSE r[k]
  BY <1>3, <1>4, CellSet
<1>6. PutField(t, c).text = p /\ PutField(t, c).index = n + 1
  <2>1. c \in Nat
    OBVIOUS
  <2>2. /\ PutField(t, c).index = t.field.index + 1
        /\ PutField(t, c).text = [RoomText(t) EXCEPT ![t.field.index + 1] = c]
    BY <2>1, PutFieldIs
  <2> QED
    BY <1>1, <1>2, <1>4, <2>2
<1>7. PICK w : w = Append(str, c)
  OBVIOUS
<1>8. w \in Seq(Nat \ {NUL}) /\ Len(w) = n + 1 /\ w[n + 1] = c /\ \A k \in 1..n : w[k] = str[k]
  BY <1>1, <1>7
<1>9. n < Len(q) /\ Len(q) >= B
  BY <1>1, <1>2, FieldIs DEF Stored
<1>10. \A k \in 1..n + 1 : p[k] = w[k]
  <2>1. \A k \in 1..n : q[k] = str[k]
    BY <1>2 DEF Stored
  <2> QED
    <3>1. \A k \in 1..n + 1 : k = n + 1 \/ k \in 1..n
      BY <1>1
    <3>2. \A k \in 1..n : k \in 1..Len(q) /\ k \in 1..Len(r) /\ k # n + 1
      <4> HIDE DEF n, B
      <4>1. n \in Nat /\ n < Len(q) /\ Len(q) \in Nat /\ Len(r) \in Nat /\ Len(q) <= Len(r)
        BY <1>1, <1>3, <1>9
      <4> QED
        BY <4>1
    <3>3. n + 1 \in 1..Len(r)
      BY <1>1, <1>3
    <3> HIDE DEF n
    <3> QED
      BY <1>3, <1>5, <1>8, <2>1, <3>1, <3>2, <3>3
<1>11. \A k \in n + 2..Len(p) : p[k] = NUL \/ (p[k] = t.recycled /\ k > B)
  <2>1. \A k \in n + 1..Len(q) : q[k] = NUL \/ (q[k] = t.recycled /\ k > B)
    BY <1>2 DEF Stored
  <2>2. ASSUME NEW k \in n + 2..Len(p) PROVE p[k] = NUL \/ (p[k] = t.recycled /\ k > B)
    <3>1. k \in 1..Len(r) /\ k # n + 1 /\ p[k] = r[k]
      BY <1>1, <1>3, <1>5
    <3>2. CASE k <= Len(q)
      <4>1. k \in 1..Len(q) /\ k \in n + 1..Len(q)
        BY <1>1, <1>3, <3>1, <3>2
      <4> QED
        BY <1>3, <2>1, <3>1, <4>1
    <3>3. CASE ~(k <= Len(q))
      <4>1. k \in Len(q) + 1..Len(r) /\ k > B
        <5> HIDE DEF n, B
        <5>1. k \in Int /\ k <= Len(r) /\ Len(q) \in Nat /\ Len(r) \in Nat
          BY <1>3, <3>1
        <5> QED
          BY <1>1, <1>9, <3>3, <5>1
      <4> QED
        BY <1>3, <3>1, <4>1
    <3> QED
      BY <3>2, <3>3
  <2> QED
    BY <2>2
<1>12. Len(p) >= B
  BY <1>1, <1>3, <1>5, <1>9
<1> QED
  BY <1>1, <1>6, <1>7, <1>8, <1>10, <1>11, <1>12 DEF Stored

\* One character more, if there is room.
LEMMA PutCharIs ==
    ASSUME NEW t, IsUi(t), t.field.element # NULL, NEW c \in Nat
    PROVE  LET u == gui_element_textfield_put_char(t, c)
           IN  /\ IsUi(u) /\ ButField(t, u)
               /\ u.field.element = t.field.element
               /\ u.field.max_allowed_len = t.field.max_allowed_len
               /\ u = t \/ u.must_draw = TRUE
               /\ t.field.index < t.field.max_allowed_len - 1 => u.must_draw = TRUE
<1>1. PICK u : u = gui_element_textfield_put_char(t, c)
  OBVIOUS
<1>2. t.field.index \in Nat /\ t.field.max_allowed_len \in Nat
  BY FieldIs
<1>3. CASE t.field.index < t.field.max_allowed_len - 1
  <2>1. /\ IsUi(u) /\ ButField(t, u) /\ u.must_draw = TRUE /\ u.field = PutField(t, c)
    BY <1>1, <1>3, PutKeeps
  <2>2. /\ PutField(t, c).element = t.field.element
        /\ PutField(t, c).max_allowed_len = t.field.max_allowed_len
    BY PutFieldIs
  <2> QED
    BY <1>1, <2>1, <2>2
<1>4. CASE t.field.index >= t.field.max_allowed_len - 1
  <2>1. u = t
    BY <1>1, <1>4, NoRoom
  <2>2. ~(t.field.index < t.field.max_allowed_len - 1)
    BY <1>2, <1>4
  <2> QED
    BY <1>1, <2>1, <2>2 DEF ButField
<1>5. \/ t.field.index < t.field.max_allowed_len - 1
      \/ t.field.index >= t.field.max_allowed_len - 1
  BY <1>2
<1> QED
  BY <1>3, <1>4, <1>5, Zenon

LEMMA PutCharStores ==
    ASSUME NEW t, IsUi(t), t.field.element # NULL, NEW c \in Nat \ {NUL},
           NEW str, Stored(t.field, str, t.recycled)
    PROVE  Stored(gui_element_textfield_put_char(t, c).field,
                  Added(str, c, t.field.max_allowed_len - 1), t.recycled)
<1>1. PICK u : u = gui_element_textfield_put_char(t, c)
  OBVIOUS
<1>2. t.field.index \in Nat /\ t.field.max_allowed_len \in Nat /\ t.field.index = Len(str)
  BY FieldIs DEF Stored
<1>3. CASE t.field.index < t.field.max_allowed_len - 1
  <2>1. u.field = PutField(t, c)
    BY <1>1, <1>3, PutKeeps
  <2>2. Added(str, c, t.field.max_allowed_len - 1) = Append(str, c)
    BY <1>2, <1>3 DEF Added
  <2> QED
    BY <1>1, <2>1, <2>2, PutStores
<1>4. CASE t.field.index >= t.field.max_allowed_len - 1
  <2>1. u = t
    BY <1>1, <1>4, NoRoom
  <2>2. ~(t.field.index < t.field.max_allowed_len - 1)
    BY <1>2, <1>4
  <2>3. Added(str, c, t.field.max_allowed_len - 1) = str
    BY <1>2, <2>2 DEF Added
  <2> QED
    BY <1>1, <2>1, <2>3
<1> QED
  BY <1>2, <1>3, <1>4

LEMMA AppendIs ==
    ASSUME NEW D, NEW q \in Seq(D), NEW e \in D
    PROVE  /\ Append(q, e) \in Seq(D) /\ Len(Append(q, e)) = Len(q) + 1
           /\ Append(q, e)[Len(q) + 1] = e
           /\ \A i \in 1..Len(q) : Append(q, e)[i] = q[i]
OBVIOUS

LEMMA FirstOf ==
    ASSUME NEW D, NEW q \in Seq(D), NEW n \in Nat, n <= Len(q)
    PROVE  /\ SubSeq(q, 1, n) \in Seq(D) /\ Len(SubSeq(q, 1, n)) = n
           /\ \A k \in 1..n : SubSeq(q, 1, n)[k] = q[k]
OBVIOUS

LEMMA PartOf ==
    ASSUME NEW D, NEW q \in Seq(D), NEW l \in Nat, NEW n \in Nat, l <= n, n <= Len(q)
    PROVE  /\ SubSeq(q, l + 1, n) \in Seq(D) /\ Len(SubSeq(q, l + 1, n)) = n - l
           /\ \A k \in 1..n - l : SubSeq(q, l + 1, n)[k] = q[l + k]
OBVIOUS

LEMMA LongerPrefix ==
    ASSUME NEW D, NEW q \in Seq(D), NEW k \in 0..Len(q) - 1
    PROVE  /\ SubSeq(q, 1, k + 1) = Append(SubSeq(q, 1, k), q[k + 1])
           /\ SubSeq(q, 1, k) \in Seq(D) /\ Len(SubSeq(q, 1, k)) = k
<1>1. PICK a, b : a = SubSeq(q, 1, k) /\ b = SubSeq(q, 1, k + 1)
  OBVIOUS
<1>2. /\ a \in Seq(D) /\ Len(a) = k /\ \A i \in 1..k : a[i] = q[i]
      /\ b \in Seq(D) /\ Len(b) = k + 1 /\ \A i \in 1..k + 1 : b[i] = q[i]
  BY <1>1
<1>3. q[k + 1] \in D
  OBVIOUS
<1>4. PICK c : c = Append(a, q[k + 1])
  OBVIOUS
<1>5. c \in Seq(D) /\ Len(c) = k + 1 /\ c[k + 1] = q[k + 1] /\ \A i \in 1..k : c[i] = a[i]
  BY <1>2, <1>3, <1>4
<1>6. \A i \in 1..k + 1 : b[i] = c[i]
  <2>1. \A i \in 1..k + 1 : i = k + 1 \/ i \in 1..k
    OBVIOUS
  <2> QED
    BY <1>2, <1>5, <2>1
<1>7. b = c
  BY <1>2, <1>5, <1>6
<1> QED
  BY <1>1, <1>2, <1>4, <1>7

\* The buffer is not enlarged below the length a text may reach.
LEMMA PutInPlace ==
    ASSUME NEW t, IsUi(t), t.field.element # NULL, NEW c \in Nat,
           t.field.max_allowed_len <= Len(t.field.text)
    PROVE  Len(gui_element_textfield_put_char(t, c).field.text) = Len(t.field.text)
<1> DEFINE max == t.field.max_allowed_len
           u == gui_element_textfield_put_char(t, c)
<1>1. t.field.index \in Nat /\ max \in Nat /\ Len(t.field.text) \in Nat
  BY FieldIs
<1>2. CASE t.field.index < max - 1
  <2>1. RoomText(t) = t.field.text
    BY <1>1, <1>2 DEF RoomText
  <2>2. u.field = PutField(t, c)
    BY <1>2, PutKeeps
  <2>3. Len(PutField(t, c).text) = Len(RoomText(t))
    BY PutFieldIs
  <2> QED
    BY ONLY <2>1, <2>2, <2>3
<1>3. CASE t.field.index >= max - 1
  BY <1>3, NoRoom
<1> QED
  BY <1>1, <1>2, <1>3

\* What has been written after k characters of a text.
PutUpTo(t, text, k, u) ==
    /\ IsUi(u) /\ ButField(t, u)
    /\ u.field.element = t.field.element
    /\ u.field.max_allowed_len = t.field.max_allowed_len
    /\ k # 0 /\ t.field.max_allowed_len > 1 => u.must_draw = TRUE
    /\ k = 0 => u = gui_element_textfield_clear(t)
    /\ t.field.max_allowed_len <= Len(t.field.text) => Len(u.field.text) = Len(t.field.text)
    /\ /\ text \in Seq(Nat \ {NUL}) /\ Len(text) < t.field.max_allowed_len
       /\ Len(t.field.text) >= TEXTFIELD_DEFAULT_BUFFER_SIZE
       => Stored(u.field, SubSeq(text, 1, k), t.recycled)

LEMMA WriteOne ==
    ASSUME NEW t, IsUi(t), t.field.element # NULL, NEW text \in Seq(Nat),
           NEW k \in 0..Len(text) - 1, NEW u, PutUpTo(t, text, k, u)
    PROVE  PutUpTo(t, text, k + 1, gui_element_textfield_put_char(u, text[k + 1]))
<1>1. PICK c \in Nat : c = text[k + 1]
  OBVIOUS
<1>2. PICK v : v = gui_element_textfield_put_char(u, c)
  OBVIOUS
<1>3. PICK m : m = t.field.max_allowed_len
  OBVIOUS
<1>4. /\ IsUi(u) /\ ButField(t, u) /\ u.field.element = t.field.element
      /\ u.field.max_allowed_len = m /\ u.recycled = t.recycled
  BY <1>3 DEF PutUpTo, ButField
<1>5. m \in Nat /\ k \in Nat /\ Len(text) \in Nat /\ k + 1 # 0
  <2>1. m \in Nat
    BY <1>3, FieldIs
  <2> QED
    BY <2>1
<1>6. /\ IsUi(v) /\ ButField(u, v) /\ v.field.element = u.field.element
      /\ v.field.max_allowed_len = m
      /\ v = u \/ v.must_draw = TRUE
      /\ u.field.index < m - 1 => v.must_draw = TRUE
  BY <1>2, <1>4, PutCharIs
<1>7. ButField(t, v)
  BY <1>4, <1>6 DEF ButField
<1>8. ASSUME m > 1 PROVE v.must_draw = TRUE
  <2>1. CASE k = 0
    <3>1. u.field.index = 0
      BY <2>1, ClearKeeps DEF PutUpTo
    <3> QED
      BY <1>5, <1>6, <1>8, <3>1
  <2>2. CASE k # 0
    BY <1>3, <1>6, <1>8, <2>2 DEF PutUpTo
  <2> QED
    BY <2>1, <2>2
<1>9. ASSUME text \in Seq(Nat \ {NUL}), Len(text) < m,
             Len(t.field.text) >= TEXTFIELD_DEFAULT_BUFFER_SIZE
      PROVE  Stored(v.field, SubSeq(text, 1, k + 1), t.recycled)
  <2>1. PICK p : p = SubSeq(text, 1, k)
    OBVIOUS
  <2>2. Stored(u.field, p, t.recycled)
    BY <1>3, <1>9, <2>1 DEF PutUpTo
  <2>3. Len(p) = k /\ SubSeq(text, 1, k + 1) = Append(p, c)
    BY <1>1, <2>1, LongerPrefix
  <2>4. c \in Nat \ {NUL}
    BY <1>1, <1>9
  <2>5. Stored(v.field, Added(p, c, m - 1), t.recycled)
    BY <1>2, <1>4, <2>2, <2>4, PutCharStores
  <2>6. k < m - 1
    BY <1>5, <1>9
  <2>7. Added(p, c, m - 1) = Append(p, c)
    BY <2>3, <2>6 DEF Added
  <2> QED
    BY <2>3, <2>5, <2>7
<1>10. ASSUME m <= Len(t.field.text) PROVE Len(v.field.text) = Len(t.field.text)
  <2>1. Len(u.field.text) = Len(t.field.text)
    BY <1>3, <1>10 DEF PutUpTo
  <2>2. u.field.max_allowed_len <= Len(u.field.text) /\ u.field.element # NULL
    BY <1>4, <1>10, <2>1
  <2>3. Len(v.field.text) = Len(u.field.text)
    BY <1>2, <1>4, <2>2, PutInPlace
  <2> QED
    BY <2>1, <2>3
<1> QED
  BY <1>1, <1>2, <1>3, <1>4, <1>5, <1>6, <1>7, <1>8, <1>9, <1>10 DEF PutUpTo

LEMMA WriteNone ==
    ASSUME NEW t, IsUi(t), t.field.element # NULL, NEW text \in Seq(Nat)
    PROVE  PutUpTo(t, text, 0, gui_element_textfield_clear(t))
<1>1. PICK u : u = gui_element_textfield_clear(t)
  OBVIOUS
<1>2. SubSeq(text, 1, 0) = <<>>
  OBVIOUS
<1>3. Len(u.field.text) = Len(t.field.text)
  <2>1. u.field.text = Blanks(Len(t.field.text), NUL)
    BY <1>1, ClearKeeps
  <2>2. Len(t.field.text) \in Nat /\ NUL \in Nat
    BY FieldIs DEF NUL
  <2> QED
    BY <2>1, <2>2, BlanksAre
<1> QED
  BY <1>1, <1>2, <1>3, ClearKeeps, ClearStores DEF PutUpTo

LEMMA TextSetIs ==
    ASSUME NEW t, IsUi(t), t.field.element # NULL, NEW text \in Seq(Nat)
    PROVE  PutUpTo(t, text, Len(text), gui_element_textfield_text_set(t, text))
<1> DEFINE n == Len(text)
           clear == gui_element_textfield_clear(t)
           D == {clear} \cup {u \in UiType : IsUi(u) /\ u.field.element # NULL}
           step == [k \in 1..n |->
                       [u \in D |-> gui_element_textfield_put_char(u, text[k])]]
           put == CHOOSE put : put = [k \in 0..Len(text) |->
                     IF k = 0 THEN gui_element_textfield_clear(t)
                     ELSE gui_element_textfield_put_char(put[k - 1], text[k])]
<1>1. n \in Nat /\ \A k \in 1..n : text[k] \in Nat
  OBVIOUS
<1>2. IsUi(clear) /\ clear.field.element # NULL
  BY ClearKeeps
<1>3. step \in [1..n -> [D -> D]]
  <2>1. ASSUME NEW k \in 1..n, NEW u \in D
        PROVE  gui_element_textfield_put_char(u, text[k]) \in D
    <3>1. IsUi(u) /\ u.field.element # NULL
      BY <1>2
    <3>2. PICK v : v = gui_element_textfield_put_char(u, text[k])
      OBVIOUS
    <3>3. IsUi(v) /\ v.field.element # NULL
      BY <1>1, <3>1, <3>2, PutCharIs
    <3>4. v \in UiType
      BY <3>3 DEF IsUi
    <3> QED
      BY <3>2, <3>3, <3>4
  <2> HIDE DEF D
  <2> QED
    BY <2>1
<1>4. PICK f : Loop(f, n, clear, step) /\ f \in [0..n -> D]
  <2>1. clear \in D
    OBVIOUS
  <2> HIDE DEF D, clear, step, n
  <2> QED
    BY <1>1, <1>3, <2>1, LoopExists
<1>5. f = [k \in 0..n |-> IF k = 0 THEN clear
                         ELSE gui_element_textfield_put_char(f[k - 1], text[k])]
  <2>1. f = [k \in 0..n |-> IF k = 0 THEN clear ELSE step[k][f[k - 1]]]
    BY <1>4 DEF Loop
  <2>2. ASSUME NEW k \in 0..n, k # 0
        PROVE  step[k][f[k - 1]] = gui_element_textfield_put_char(f[k - 1], text[k])
    <3>1. k \in 1..n /\ k - 1 \in 0..n
      BY <1>1, <2>2
    <3>2. f[k - 1] \in D
      BY <1>4, <3>1
    <3> HIDE DEF D
    <3> QED
      BY <3>1, <3>2
  <2> HIDE DEF clear, step, n
  <2> QED
    BY <2>1, <2>2
<1>6. put = [k \in 0..n |-> IF k = 0 THEN clear
                           ELSE gui_element_textfield_put_char(put[k - 1], text[k])]
  BY <1>5
<1>7. gui_element_textfield_text_set(t, text) = put[n]
  BY DEF gui_element_textfield_text_set
<1> DEFINE S == {k \in 0..n : PutUpTo(t, text, k, put[k])}
<1> HIDE DEF put
<1>8. 0 \in S
  BY <1>1, <1>6, WriteNone
<1>9. ASSUME NEW k \in 0..n - 1, k \in S PROVE k + 1 \in S
  <2>1. k + 1 \in 0..n /\ k + 1 # 0 /\ k + 1 - 1 = k
    BY <1>1
  <2>2. put[k + 1] = gui_element_textfield_put_char(put[k], text[k + 1])
    BY <1>6, <2>1
  <2>3. PutUpTo(t, text, k + 1, put[k + 1])
    BY <1>9, <2>2, WriteOne
  <2> QED
    BY <2>1, <2>3
<1>10. n \in S
  <2> HIDE DEF S, n
  <2>1. \A k \in 0..n - 1 : k \in S => k + 1 \in S
    BY <1>9
  <2>2. \A k \in 0..n : k \in S
    BY <1>1, <1>8, <2>1, CountUp
  <2> QED
    BY <1>1, <2>2
<1> QED
  BY <1>7, <1>10

LEMMA BackspaceIs ==
    ASSUME NEW t, IsUi(t), t.field.element # NULL
    PROVE  LET u == gui_element_textfield_backspace(t)
           IN  /\ IsUi(u) /\ ButField(t, u)
               /\ u.field.element = t.field.element
               /\ u.field.max_allowed_len = t.field.max_allowed_len
               /\ u = t \/ u.must_draw = TRUE
               /\ t.field.index = 0 => u = t
               /\ t.field.index # 0 =>
                     /\ u.field.index = t.field.index - 1
                     /\ u.field.text = [t.field.text EXCEPT ![t.field.index] = NUL]
<1>1. PICK u : u = gui_element_textfield_backspace(t)
  OBVIOUS
<1>2. CASE t.field.index = 0
  BY <1>2 DEF gui_element_textfield_backspace, ButField
<1>3. CASE t.field.index # 0
  <2>1. PICK f : f = t.field
    OBVIOUS
  <2>2. f \in MadeField /\ Len(f.text) \in Nat \ {0} /\ f.index < Len(f.text)
    BY <2>1, FieldIs DEF MadeField
  <2>3. f.index \in Nat /\ f.text \in Seq(Nat) /\ f.index - 1 \in Nat
    <3>1. f.index \in Nat /\ f.text \in Seq(Nat) /\ f.index # 0
      BY <1>3, <2>1, FieldIs
    <3> QED
      BY <3>1
  <2>4. PICK q, j : q = [f.text EXCEPT ![f.index] = NUL] /\ j = f.index - 1
    OBVIOUS
  <2>5. q \in Seq(Nat) /\ Len(q) = Len(f.text) /\ j \in Nat
    <3>1. NUL \in Nat
      BY DEF NUL
    <3> QED
      BY <2>3, <2>4, <3>1, CellSet
  <2>6. PICK g : g = [f EXCEPT !.text = q, !.index = j]
    OBVIOUS
  <2>7. /\ g \in MadeField /\ g.element = f.element /\ g.index = j /\ g.text = q
        /\ g.max_allowed_len = f.max_allowed_len
    BY ONLY <2>2, <2>5, <2>6 DEF MadeField
  <2>8. u = gui_element_mark_for_redraw([t EXCEPT !.field = g], t.field.element)
    <3>1. t \in UiType
      BY DEF IsUi
    <3>2. [t EXCEPT !.field.text[t.field.index] = NUL, !.field.index = @ - 1]
            = [t EXCEPT !.field = g]
      BY ONLY <2>1, <2>4, <2>6, <3>1 DEF UiType
    <3> QED
      BY <1>1, <1>3, <3>2 DEF gui_element_textfield_backspace
  <2>9. g \in FieldType /\ g.index < Len(g.text)
    <3>1. g \in FieldType
      BY <2>7 DEF FieldType, MadeField
    <3> QED
      BY <2>2, <2>3, <2>4, <2>5, <2>7, <3>1
  <2>10. IsUi(u) /\ ButField(t, u) /\ u.field = g /\ u.must_draw = TRUE
    BY <2>1, <2>7, <2>8, <2>9, DrawnField
  <2> QED
    BY <1>1, <1>3, <2>1, <2>4, <2>7, <2>10
<1> QED
  BY <1>2, <1>3

LEMMA BackspaceStores ==
    ASSUME NEW t, IsUi(t), t.field.element # NULL, NEW str, Stored(t.field, str, t.recycled)
    PROVE  Stored(gui_element_textfield_backspace(t).field,
                  IF str = <<>> THEN str ELSE Front(str), t.recycled)
<1>1. PICK u : u = gui_element_textfield_backspace(t)
  OBVIOUS
<1>2. PICK n : n = Len(str)
  OBVIOUS
<1>3. n \in Nat /\ str \in Seq(Nat \ {NUL}) /\ t.field.index = n
  BY <1>2 DEF Stored
<1>4. CASE n = 0
  <2>1. str = <<>> /\ u = t
    <3>1. str = <<>>
      BY <1>2, <1>3, <1>4, EmptySeq
    <3>2. t.field.index = 0
      BY <1>3, <1>4
    <3> QED
      BY <1>1, <3>1, <3>2, BackspaceIs
  <2> QED
    BY <1>1, <2>1
<1>5. CASE n # 0
  <2>1. PICK q, p : q = t.field.text /\ p = [q EXCEPT ![n] = NUL]
    OBVIOUS
  <2>2. u.field.index = n - 1 /\ u.field.text = p
    BY <1>1, <1>3, <1>5, <2>1, BackspaceIs
  <2>3. q \in Seq(Nat) /\ NUL \in Nat
    BY <2>1, FieldIs DEF NUL
  <2>4. Len(p) = Len(q) /\ \A k \in 1..Len(q) : p[k] = IF k = n THEN NUL ELSE q[k]
    BY <2>1, <2>3, CellSet
  <2>5. /\ Len(q) >= TEXTFIELD_DEFAULT_BUFFER_SIZE /\ n < Len(q) /\ Len(q) \in Nat
        /\ \A k \in 1..n : q[k] = str[k]
        /\ \A k \in n + 1..Len(q) :
              q[k] = NUL \/ (q[k] = t.recycled /\ k > TEXTFIELD_DEFAULT_BUFFER_SIZE)
    <3>1. n < Len(q) /\ Len(q) \in Nat
      BY <1>3, <2>1, <2>3, FieldIs
    <3> QED
      BY <1>2, <2>1, <3>1 DEF Stored
  <2>6. PICK w : w = Front(str)
    OBVIOUS
  <2>7. w \in Seq(Nat \ {NUL}) /\ Len(w) = n - 1 /\ \A k \in 1..n - 1 : w[k] = str[k]
    BY <1>2, <1>3, <1>5, <2>6 DEF Front
  <2>8. \A k \in 1..n - 1 : p[k] = w[k]
    <3>1. \A k \in 1..n - 1 : k \in 1..n /\ k \in 1..Len(q) /\ k # n
      BY <1>3, <2>5
    <3> QED
      BY <2>4, <2>5, <2>7, <3>1
  <2>9. \A k \in n..Len(p) :
           p[k] = NUL \/ (p[k] = t.recycled /\ k > TEXTFIELD_DEFAULT_BUFFER_SIZE)
    <3>1. \A k \in n..Len(q) : k \in 1..Len(q) /\ (k = n \/ k \in n + 1..Len(q))
      BY <1>3, <1>5, <2>5
    <3> QED
      BY <2>4, <2>5, <3>1
  <2>10. str # <<>> /\ n - 1 + 1 = n
    BY <1>2, <1>3, <1>5
  <2> QED
    BY <1>1, <2>2, <2>4, <2>5, <2>6, <2>7, <2>8, <2>9, <2>10 DEF Stored
<1> QED
  BY <1>4, <1>5

\* The C string of a stored text runs on after it through recycled memory only.
LEMMA StoredIsShown ==
    ASSUME NEW f, f.text \in Seq(Nat), f.index \in Nat, f.index < Len(f.text),
           NEW str, NEW junk \in Nat, Stored(f, str, junk)
    PROVE  \/ CString(f.text) = str
           \/ /\ junk # NUL /\ Len(f.text) > TEXTFIELD_DEFAULT_BUFFER_SIZE
              /\ IsPrefix(str, CString(f.text))
<1>1. PICK q, n : q = f.text /\ n = Len(str)
  OBVIOUS
<1>2. /\ q \in Seq(Nat) /\ n \in Nat /\ n < Len(q) /\ str \in Seq(Nat \ {NUL})
      /\ \A k \in 1..n : q[k] = str[k] /\ str[k] # NUL
      /\ \A k \in n + 1..Len(q) :
            q[k] = NUL \/ (q[k] = junk /\ k > TEXTFIELD_DEFAULT_BUFFER_SIZE)
  BY <1>1 DEF Stored
<1> DEFINE I == {k \in 1..Len(q) : q[k] = NUL}
           end == SelectInSeq(q, LAMBDA c : c = NUL)
<1>3. end = IF I # {} THEN CHOOSE x \in I : \A y \in I : x =< y ELSE 0
  BY DEF SelectInSeq, Min
<1>4. CString(q) = IF end = 0 THEN q ELSE SubSeq(q, 1, end - 1)
  BY DEF CString
<1>5. \A k \in I : k \in Nat /\ k > n /\ k <= Len(q)
  <2>1. ASSUME NEW k \in I PROVE k \in Nat /\ k > n /\ k <= Len(q)
    <3>1. k \in Nat /\ k >= 1 /\ k <= Len(q) /\ q[k] = NUL
      OBVIOUS
    <3>2. k \notin 1..n
      BY <1>2, <3>1
    <3> QED
      BY <1>2, <3>1, <3>2
  <2> QED
    BY <2>1
<1>6. /\ I = {} => end = 0
      /\ I # {} => end \in I /\ \A y \in I : end <= y
  <2>1. CASE I # {}
    <3>1. I \subseteq Nat
      OBVIOUS
    <3>2. \E x \in I : \A y \in I : x <= y
      BY <2>1, <3>1, LeastNumber
    <3> QED
      BY <1>3, <2>1, <3>2
  <2> QED
    BY <1>3, <2>1
<1> HIDE DEF end
<1>7. CASE n + 1 \in I
  <2>1. end = n + 1
    <3> HIDE DEF I
    <3>1. end \in I /\ end <= n + 1
      BY <1>6, <1>7
    <3>2. end \in Nat /\ end > n
      BY <1>5, <3>1
    <3> QED
      BY <1>2, <3>1, <3>2
  <2>2. CString(q) = SubSeq(q, 1, n)
    BY <1>2, <1>4, <2>1
  <2>3. SubSeq(q, 1, n) = str
    <3>1. PICK p : p = SubSeq(q, 1, n)
      OBVIOUS
    <3>2. p \in Seq(Nat) /\ Len(p) = n /\ \A k \in 1..n : p[k] = q[k]
      BY <1>2, <3>1, FirstOf
    <3> QED
      BY <1>1, <1>2, <3>1, <3>2
  <2> QED
    BY <1>1, <2>2, <2>3
<1>8. CASE n + 1 \notin I
  <2>1. n + 1 \in 1..Len(q) /\ n + 1 \in n + 1..Len(q)
    BY <1>2
  <2>2. q[n + 1] # NUL
    BY <1>8, <2>1
  <2>3. junk # NUL /\ n + 1 > TEXTFIELD_DEFAULT_BUFFER_SIZE
    BY <1>2, <2>1, <2>2
  <2>4. Len(q) > TEXTFIELD_DEFAULT_BUFFER_SIZE
    BY <1>2, <2>3, TextfieldAssumption
  <2>5. PICK c, m : c = CString(q) /\ m = Len(c)
    OBVIOUS
  <2>6. c \in Seq(Nat) /\ m >= n /\ \A k \in 1..n : c[k] = q[k]
    <3>1. CASE I = {}
      BY <1>2, <1>4, <1>6, <2>5, <3>1
    <3>2. CASE I # {}
      <4>1. end \in Nat /\ end > n /\ end <= Len(q) /\ end # 0
        <5> HIDE DEF I
        <5>1. end \in I
          BY <1>6, <3>2
        <5>2. end \in Nat /\ end > n /\ end <= Len(q)
          BY <1>5, <5>1
        <5> QED
          BY <1>2, <5>2
      <4>2. c = SubSeq(q, 1, end - 1)
        BY <1>4, <2>5, <4>1
      <4>3. c \in Seq(Nat) /\ Len(c) = end - 1 /\ \A k \in 1..end - 1 : c[k] = q[k]
        <5>1. PICK m1 \in Nat : m1 = end - 1 /\ m1 <= Len(q)
          BY <1>2, <4>1
        <5> QED
          BY <1>2, <4>2, <5>1, FirstOf
      <4> QED
        BY <1>2, <2>5, <4>1, <4>3
    <3> QED
      BY <3>1, <3>2
  <2>7. SubSeq(str, 1, n) = SubSeq(c, 1, n)
    <3>1. PICK a, b : a = SubSeq(str, 1, n) /\ b = SubSeq(c, 1, n)
      OBVIOUS
    <3>2. a \in Seq(Nat \ {NUL}) /\ Len(a) = n /\ \A k \in 1..n : a[k] = str[k]
      <4>1. n <= Len(str)
        BY <1>1, <1>2
      <4> QED
        BY <1>2, <3>1, <4>1, FirstOf
    <3>3. b \in Seq(Nat) /\ Len(b) = n /\ \A k \in 1..n : b[k] = c[k]
      BY <1>2, <2>5, <2>6, <3>1, FirstOf
    <3> QED
      BY <1>2, <2>6, <3>1, <3>2, <3>3
  <2> QED
    BY <1>1, <2>3, <2>4, <2>5, <2>6, <2>7 DEF IsPrefix
<1> QED
  BY <1>7, <1>8

-----------------------------------------------------------------------------
(* Numbers as text *)

DigitsOf(digits, top) == digits = [m \in 0..top |->
    IF m < 10 THEN <<48 + m>> ELSE Append(digits[m \div 10], 48 + (m % 10))]

Symbols == Digit \cup Operator
Texts == {q \in Seq(Symbols) : q # <<>>}

LEMMA SymbolsAre ==
    /\ Symbols \subseteq Nat \ {NUL} /\ Minus \in Symbols
    /\ \A m \in 0..9 : 48 + m \in Symbols
    /\ \A m \in Nat : 48 + (m % 10) \in Symbols
    /\ \A q \in Seq(Symbols) : q \in Seq(Nat \ {NUL})
<1>1. /\ Symbols \subseteq Nat \ {NUL} /\ Minus \in Symbols
      /\ \A m \in 0..9 : 48 + m \in Symbols
  BY DEF Symbols, Digit, Operator, NUL, Minus
<1>2. \A m \in Nat : m % 10 \in 0..9
  OBVIOUS
<1>3. ASSUME NEW q \in Seq(Symbols) PROVE q \in Seq(Nat \ {NUL})
  <2>1. q \in [1..Len(q) -> Symbols] /\ Len(q) \in Nat
    OBVIOUS
  <2>2. q \in [1..Len(q) -> Nat \ {NUL}]
    BY <1>1, <2>1
  <2> QED
    BY <2>1, <2>2
<1> QED
  BY <1>1, <1>2, <1>3

LEMMA LongerText ==
    ASSUME NEW q \in Seq(Symbols), NEW c \in Symbols
    PROVE  Append(q, c) \in Texts
<1>1. Append(q, c) \in Seq(Symbols) /\ Len(Append(q, c)) = Len(q) + 1
  OBVIOUS
<1>2. Append(q, c) # <<>>
  <2>1. Len(q) \in Nat
    OBVIOUS
  <2> QED
    BY <1>1, <2>1, EmptySeq
<1> QED
  BY <1>1, <1>2 DEF Texts

LEMMA DigitsExist ==
    ASSUME NEW n \in Nat
    PROVE  \E digits : DigitsOf(digits, n) /\ digits \in [0..n -> Texts]
<1> DEFINE S == {j \in 0..n : \E f : DigitsOf(f, j) /\ f \in [0..j -> Texts]}
<1>0. \A m \in Nat : (m < 10 => 48 + m \in Symbols) /\ 48 + (m % 10) \in Symbols
  BY SymbolsAre
<1>1. 0 \in S
  <2> DEFINE f == [m \in 0..0 |-> <<48 + m>>]
  <2>1. DigitsOf(f, 0)
    BY DEF DigitsOf
  <2>2. f \in [0..0 -> Texts]
    BY <1>0 DEF Texts
  <2> QED
    BY <2>1, <2>2
<1>2. ASSUME NEW j \in 0..n - 1, j \in S PROVE j + 1 \in S
  <2>1. PICK f : DigitsOf(f, j) /\ f \in [0..j -> Texts]
    BY <1>2
  <2>2. PICK k : k = j + 1
    OBVIOUS
  <2>3. k \in 0..n /\ j \in Nat /\ k \in Nat /\ k # 0
    BY <2>2
  <2> DEFINE last == IF k < 10 THEN <<48 + k>> ELSE Append(f[k \div 10], 48 + (k % 10))
             g == [m \in 0..k |-> IF m = k THEN last ELSE f[m]]
  <2>4. \A m \in 0..k : m = k \/ m \in 0..j
    BY <2>2, <2>3
  <2>5. \A m \in 0..j : m \in 0..k /\ m # k
    BY <2>2, <2>3
  <2>6. k >= 10 => k \div 10 \in 0..j
    BY <2>2, <2>3
  <2>7. last \in Texts
    <3>1. CASE k < 10
      BY <1>0, <2>3, <3>1 DEF Texts
    <3>2. CASE ~(k < 10)
      <4>1. f[k \div 10] \in Seq(Symbols)
        BY <2>1, <2>3, <2>6, <3>2 DEF Texts
      <4>2. PICK q \in Seq(Symbols) : q = f[k \div 10]
        BY <4>1
      <4>3. PICK c \in Symbols : c = 48 + (k % 10)
        BY <1>0, <2>3
      <4>4. last = Append(q, c)
        BY <3>2, <4>2, <4>3
      <4> QED
        BY <4>4, LongerText
    <3> QED
      BY <3>1, <3>2
  <2>8. g \in [0..k -> Texts]
    <3> HIDE DEF last
    <3> QED
      BY <2>1, <2>4, <2>7
  <2>9. \A m \in 0..j : g[m] = f[m]
    <3> HIDE DEF last
    <3> QED
      BY <2>5
  <2>10. g[k] = last
    <3> HIDE DEF last
    <3> QED
      BY <2>3
  <2>11. \A m \in 0..j : f[m] = IF m < 10 THEN <<48 + m>>
                                ELSE Append(f[m \div 10], 48 + (m % 10))
    BY <2>1 DEF DigitsOf
  <2>12. \A m \in 0..j : m >= 10 => m \div 10 \in 0..j
    BY <2>3
  <2>13. g = [m \in 0..k |-> g[m]]
    OBVIOUS
  <2> HIDE DEF g
  <2>14. \A m \in 0..k : g[m] = IF m < 10 THEN <<48 + m>>
                                ELSE Append(g[m \div 10], 48 + (m % 10))
    <3>1. ASSUME NEW m \in 0..j
          PROVE  g[m] = IF m < 10 THEN <<48 + m>> ELSE Append(g[m \div 10], 48 + (m % 10))
      <4>1. m >= 10 \/ m < 10
        BY <2>3
      <4>2. m >= 10 => g[m \div 10] = f[m \div 10]
        BY <2>9, <2>12
      <4> QED
        BY <2>9, <2>11, <4>1, <4>2
    <3>2. g[k] = IF k < 10 THEN <<48 + k>> ELSE Append(g[k \div 10], 48 + (k % 10))
      <4>1. k >= 10 \/ k < 10
        BY <2>3
      <4>2. k >= 10 => g[k \div 10] = f[k \div 10]
        BY <2>6, <2>9
      <4> QED
        BY <2>10, <4>1, <4>2
    <3> QED
      BY <2>4, <3>1, <3>2
  <2>15. DigitsOf(g, k)
    BY <2>13, <2>14 DEF DigitsOf
  <2> QED
    BY <2>2, <2>3, <2>8, <2>15
<1>3. n \in S
  <2> HIDE DEF S
  <2>1. \A k \in 0..n - 1 : k \in S => k + 1 \in S
    BY <1>2
  <2>2. \A k \in 0..n : k \in S
    BY <1>1, <2>1, CountUp
  <2> QED
    BY <2>2
<1> QED
  BY <1>3

LEMMA DigitsAre ==
    ASSUME NEW n \in Nat, NEW f, DigitsOf(f, n)
    PROVE  \A m \in 0..n : f[m] \in Texts
<1> DEFINE Rest == {m \in 0..n : f[m] \notin Texts}
<1>1. SUFFICES ASSUME Rest # {} PROVE FALSE
  OBVIOUS
<1>2. Rest \subseteq Nat
  OBVIOUS
<1>3. PICK k \in Rest : \A j \in Rest : k <= j
  BY <1>1, <1>2, LeastNumber
<1>4. /\ k \in 0..n /\ k \in Nat
      /\ (k < 10 => 48 + k \in Symbols) /\ 48 + (k % 10) \in Symbols
  BY SymbolsAre, SMTT(30)
<1>5. f[k] = IF k < 10 THEN <<48 + k>> ELSE Append(f[k \div 10], 48 + (k % 10))
  BY <1>4 DEF DigitsOf
<1>6. CASE k < 10
  <2>1. f[k] = <<48 + k>>
    BY <1>5, <1>6
  <2>2. f[k] \in Texts
    BY <1>4, <1>6, <2>1 DEF Texts
  <2> QED
    BY <2>2
<1>7. CASE ~(k < 10)
  <2>1. PICK m : m = k \div 10
    OBVIOUS
  <2>2. m \in 0..n /\ ~(k <= m)
    BY <1>4, <1>7, <2>1
  <2>3. f[m] \in Texts
    BY <1>3, <2>2
  <2>4. PICK q \in Seq(Symbols) : q = f[m]
    BY <2>3 DEF Texts
  <2>5. PICK c \in Symbols : c = 48 + (k % 10)
    BY <1>4
  <2>6. f[k] = Append(q, c)
    BY <1>5, <1>7, <2>1, <2>4, <2>5
  <2> QED
    BY <2>6, LongerText
<1> QED
  BY <1>6, <1>7

LEMMA ItoaIs ==
    ASSUME NEW n \in Int
    PROVE  /\ itoa(n) \in Texts
           /\ n \in 0..9 => itoa(n) = <<48 + n>>
<1>1. PICK a \in Nat : a = Abs(n)
  BY DEF Abs
<1> DEFINE digits == CHOOSE digits : digits = [m \in 0..Abs(n) |->
                        IF m < 10 THEN <<48 + m>>
                        ELSE Append(digits[m \div 10], 48 + (m % 10))]
<1>2. DigitsOf(digits, a)
  BY <1>1, DigitsExist DEF DigitsOf
<1>3. itoa(n) = (IF n < 0 THEN <<Minus>> ELSE <<>>) \o digits[a]
  BY <1>1 DEF itoa
<1> HIDE DEF digits
<1>4. PICK q \in Texts : q = digits[a]
  BY <1>2, DigitsAre
<1>5. PICK p : p = IF n < 0 THEN <<Minus>> ELSE <<>>
  OBVIOUS
<1>6. p \in Seq(Symbols)
  <2>1. Minus \in Symbols
    BY SymbolsAre
  <2> QED
    <3>1. <<>> \in Seq(Symbols) /\ <<Minus>> \in Seq(Symbols)
      BY <2>1
    <3> QED
      BY <1>5, <3>1
<1>7. p \o q \in Texts
  <2>1. q \in Seq(Symbols) /\ q # <<>>
    BY DEF Texts
  <2>2. p \o q \in Seq(Symbols) /\ Len(p \o q) = Len(p) + Len(q)
    BY <1>6, <2>1, ConcatProperties
  <2>3. Len(q) \in Nat \ {0} /\ Len(p) \in Nat
    BY <1>6, <2>1, EmptySeq
  <2>4. p \o q # <<>>
    BY <2>2, <2>3
  <2> QED
    BY <2>2, <2>4 DEF Texts
<1>8. ASSUME n \in 0..9 PROVE itoa(n) = <<48 + n>>
  <2>1. a = n /\ p = <<>>
    BY <1>1, <1>5, <1>8 DEF Abs
  <2>2. a \in 0..a /\ a < 10
    BY <1>8, <2>1
  <2>3. digits[a] = <<48 + a>>
    BY <1>2, <2>2 DEF DigitsOf
  <2> QED
    <3>1. itoa(n) = <<>> \o digits[a]
      BY <1>3, <1>5, <2>1
    <3>2. <<>> \o <<48 + a>> = <<48 + a>>
      BY <1>1
    <3> QED
      BY <2>1, <2>3, <3>1, <3>2
<1> QED
  BY <1>3, <1>4, <1>5, <1>7, <1>8

-----------------------------------------------------------------------------
(* The calculator's arithmetic *)

Ints == -INT_MAX - 1..INT_MAX

LEMMA WrapIs ==
    ASSUME NEW n \in Int
    PROVE  /\ Wrap(n) \in Ints /\ Wrap(n) \in Int
           /\ n \in Ints => Wrap(n) = n
<1> DEFINE M == 2 * (INT_MAX + 1)
           a == n + INT_MAX + 1
<1>1. INT_MAX \in Nat /\ M \in Nat \ {0} /\ a \in Int
  BY CalculatorAssumption
<1>2. a % M \in 0..M - 1
  BY <1>1
<1>3. a \in 0..M - 1 => a % M = a
  BY <1>1
<1>4. Wrap(n) = (a % M) - INT_MAX - 1
  BY DEF Wrap
<1>5. n \in Ints => a \in 0..M - 1
  BY <1>1 DEF Ints
<1> QED
  <2>1. PICK r : r = a % M
    OBVIOUS
  <2>2. Wrap(n) = r - INT_MAX - 1 /\ r \in 0..2 * (INT_MAX + 1) - 1
    BY <1>2, <1>4, <2>1
  <2>3. Wrap(n) \in Ints /\ Wrap(n) \in Int
    BY <1>1, <2>2 DEF Ints
  <2>4. n \in Ints => Wrap(n) = n
    BY <1>1, <1>3, <1>5, <2>1, <2>2
  <2> QED
    BY <2>3, <2>4

LEMMA QuotientIs ==
    ASSUME NEW left \in Ints, NEW right \in Ints, right # 0
    PROVE  /\ Abs(left) \div Abs(right) \in Nat
           /\ Abs(left) \div Abs(right) <= Abs(left)
           /\ Abs(right) # 1 => Abs(left) \div Abs(right) <= INT_MAX
<1>1. PICK a, b : a = Abs(left) /\ b = Abs(right)
  OBVIOUS
<1>2. a \in Nat /\ b \in Nat \ {0} /\ a <= INT_MAX + 1 /\ INT_MAX \in Nat
  BY <1>1, CalculatorAssumption DEF Ints, Abs
<1>3. PICK q : q = a \div b
  OBVIOUS
<1>4. q \in Int /\ b * q <= a /\ a < b * q + b
  BY <1>2, <1>3
<1>5. q >= 0
  <2>1. ASSUME q < 0 PROVE FALSE
    <3>1. q + 1 <= 0
      BY <1>4, <2>1
    <3>2. b * (q + 1) <= 0
      BY <1>2, <1>4, <3>1
    <3>3. b * (q + 1) = b * q + b
      BY <1>2, <1>4
    <3> QED
      BY <1>2, <1>4, <3>2, <3>3
  <2> QED
    BY <1>4, <2>1
<1>6. q <= b * q /\ (b # 1 => 2 * q <= b * q)
  <2>1. b - 1 >= 0 /\ (b # 1 => b - 2 >= 0)
    BY <1>2
  <2>2. (b - 1) * q >= 0 /\ (b # 1 => (b - 2) * q >= 0)
    BY <1>2, <1>4, <1>5, <2>1
  <2>3. (b - 1) * q = b * q - q /\ (b - 2) * q = b * q - 2 * q
    BY <1>2, <1>4
  <2> QED
    BY <1>2, <1>4, <2>2, <2>3
<1>7. q <= a /\ (b # 1 => 2 * q <= INT_MAX + 1)
  <2>1. PICK p : p = b * q
    OBVIOUS
  <2>2. p \in Int
    BY <1>2, <1>4, <2>1
  <2> QED
    BY <1>2, <1>4, <1>6, <2>1, <2>2
<1> QED
  <2>1. b # 1 => q <= INT_MAX
    BY <1>2, <1>4, <1>7, CalculatorAssumption
  <2> QED
    BY <1>1, <1>3, <1>4, <1>5, <1>7, <2>1

\* A computation that does not trap, and the value of the operator.
LEMMA MathIs ==
    ASSUME NEW left \in Ints, NEW right \in Ints, NEW op \in Operator
    PROVE  /\ calculator_do_math(left, right, op) \in Int
           /\ calculator_do_math(left, right, op) = Apply(op, left, right)
           /\ ~(op = 47 /\ left = -INT_MAX - 1 /\ right = -1)
              => calculator_do_math(left, right, op) \in Ints
<1>0. INT_MAX \in Nat /\ left \in Int /\ right \in Int
  BY CalculatorAssumption DEF Ints
<1>1. CASE op = 43
  <2>1. calculator_do_math(left, right, op) = Wrap(left + right)
    BY <1>1 DEF calculator_do_math
  <2>2. Apply(op, left, right) = Wrap(left + right)
    BY <1>1 DEF Apply
  <2> QED
    BY <1>0, <2>1, <2>2, WrapIs
<1>2. CASE op = 45
  <2>1. calculator_do_math(left, right, op) = Wrap(left - right)
    BY <1>2 DEF calculator_do_math
  <2>2. Apply(op, left, right) = Wrap(left - right)
    BY <1>2 DEF Apply
  <2> QED
    BY <1>0, <2>1, <2>2, WrapIs
<1>3. CASE op = 42
  <2>1. calculator_do_math(left, right, op) = Wrap(left * right)
    BY <1>3 DEF calculator_do_math
  <2>2. Apply(op, left, right) = Wrap(left * right)
    BY <1>3 DEF Apply
  <2>3. left * right \in Int
    BY <1>0
  <2> QED
    BY <2>1, <2>2, <2>3, WrapIs
<1>4. CASE op = 47
  <2>1. PICK q : q = Abs(left) \div Abs(right)
    OBVIOUS
  <2>2. calculator_do_math(left, right, op)
          = IF right = 0 THEN 0 ELSE Sign(left) * Sign(right) * q
    BY <1>4, <2>1 DEF calculator_do_math
  <2>3. Apply(op, left, right)
          = IF right = 0 THEN 0 ELSE IF (left < 0) # (right < 0) THEN -q ELSE q
    BY <1>4, <2>1 DEF Apply
  <2>4. CASE right = 0
    BY <1>0, <2>2, <2>3, <2>4 DEF Ints
  <2>5. CASE right # 0
    <3>1. /\ q \in Nat /\ q <= Abs(left) /\ (Abs(right) # 1 => q <= INT_MAX)
      BY <2>1, <2>5, QuotientIs
    <3>2. Sign(left) * Sign(right) * q
            = IF (left < 0) # (right < 0) THEN -q ELSE q
      BY <1>0, <3>1 DEF Sign
    <3>3. calculator_do_math(left, right, op)
            = IF (left < 0) # (right < 0) THEN -q ELSE q
      BY <2>2, <2>5, <3>2
    <3>4. PICK r : r = calculator_do_math(left, right, op)
      OBVIOUS
    <3>5. r \in Int /\ (r = q \/ r = -q) /\ r = Apply(op, left, right)
      BY <2>3, <2>5, <3>1, <3>3, <3>4
    <3>6. ASSUME ~(left = -INT_MAX - 1 /\ right = -1) PROVE r \in Ints
      <4>1. q <= INT_MAX + 1
        BY <1>0, <3>1 DEF Abs, Ints
      <4>2. CASE q <= INT_MAX
        BY <1>0, <3>1, <3>5, <4>2 DEF Ints
      <4>3. CASE q = INT_MAX + 1
        <5>1. left = -INT_MAX - 1 /\ Abs(right) = 1
          <6>1. Abs(left) >= INT_MAX + 1
            BY <1>0, <3>1, <4>3 DEF Abs
          <6>2. left = -INT_MAX - 1
            BY <1>0, <6>1 DEF Abs, Ints
          <6>3. Abs(right) = 1
            BY <1>0, <3>1, <4>3
          <6> QED
            BY <6>2, <6>3
        <5>2. right = 1
          BY <1>0, <3>6, <5>1 DEF Abs
        <5>3. r = -q
          BY <1>0, <3>3, <3>4, <5>1, <5>2
        <5> QED
          BY <1>0, <4>3, <5>3 DEF Ints
      <4> QED
        BY <1>0, <3>1, <4>1, <4>2, <4>3
    <3> QED
      BY <1>4, <3>4, <3>5, <3>6
  <2> QED
    BY <2>4, <2>5
<1> QED
  BY <1>1, <1>2, <1>3, <1>4 DEF Operator

LEMMA ModShift ==
    ASSUME NEW m \in Nat \ {0}, NEW x \in Int, NEW q \in Int
    PROVE  (x + m * q) % m = x % m
<1>1. PICK y : y = x + m * q
  OBVIOUS
<1>2. y \in Int /\ m * q \in Int
  BY <1>1
<1>3. PICK a, b, r, w : a = x \div m /\ b = y \div m /\ r = x % m /\ w = y % m
  OBVIOUS
<1>4. /\ a \in Int /\ b \in Int /\ r \in 0..m - 1 /\ w \in 0..m - 1
      /\ x = m * a + r /\ y = m * b + w
  BY <1>2, <1>3
<1>5. PICK d : d = a + q - b
  OBVIOUS
<1>6. d \in Int /\ m * d = w - r
  <2>1. m * d = m * a + m * q - m * b
    BY <1>4, <1>5
  <2>2. m * a \in Int /\ m * b \in Int
    BY <1>4
  <2> QED
    BY <1>1, <1>2, <1>4, <1>5, <2>1, <2>2
<1>7. d = 0
  <2>1. ASSUME d >= 1 PROVE FALSE
    <3>1. m * (d - 1) >= 0
      BY <1>6, <2>1
    <3>2. m * (d - 1) = m * d - m
      BY <1>6
    <3> QED
      BY <1>4, <1>6, <3>1, <3>2
  <2>2. ASSUME d <= -1 PROVE FALSE
    <3>1. m * (-d - 1) >= 0
      BY <1>6, <2>2
    <3>2. m * (-d - 1) = -(m * d) - m
      BY <1>6
    <3> QED
      BY <1>4, <1>6, <3>1, <3>2
  <2> QED
    BY <1>6, <2>1, <2>2
<1>8. w = r
  <2>1. m * d = 0
    BY <1>7
  <2> QED
    BY <1>4, <1>6, <2>1
<1> QED
  BY <1>1, <1>3, <1>8

\* Wrapping once is wrapping at every step.
LEMMA WrapOnce ==
    ASSUME NEW a \in Int, NEW d \in Int
    PROVE  Wrap(Wrap(a) * 10 + d) = Wrap(10 * a + d)
<1>1. PICK h, m : h = INT_MAX + 1 /\ m = 2 * h
  OBVIOUS
<1>2. h \in Nat /\ m \in Nat \ {0}
  BY <1>1, CalculatorAssumption
<1>3. \A n \in Int : Wrap(n) = ((n + h) % m) - h
  <2>1. ASSUME NEW n \in Int PROVE Wrap(n) = ((n + h) % m) - h
    <3>1. n + INT_MAX + 1 = n + h
      BY <1>1, CalculatorAssumption
    <3>2. PICK r : r = (n + h) % m
      OBVIOUS
    <3>3. Wrap(n) = r - INT_MAX - 1
      BY <1>1, <3>1, <3>2 DEF Wrap
    <3>4. r \in Int
      BY <1>2, <3>2
    <3> QED
      BY <1>1, <3>2, <3>3, <3>4, CalculatorAssumption
  <2> QED
    BY <2>1
<1>4. PICK q, r : q = (a + h) \div m /\ r = (a + h) % m
  OBVIOUS
<1>5. q \in Int /\ r \in Int /\ a + h = m * q + r /\ m * q \in Int
  BY <1>2, <1>4
<1>6. Wrap(a) = a - m * q
  BY <1>2, <1>3, <1>4, <1>5
<1>7. PICK x, p : x = 10 * a + d + h /\ p = -10 * q
  OBVIOUS
<1>8. x \in Int /\ p \in Int
  BY <1>2, <1>5, <1>7
<1>9. Wrap(a) * 10 + d + h = x + m * p
  <2>1. m * p = -10 * (m * q)
    BY <1>2, <1>5, <1>7
  <2> QED
    BY <1>2, <1>5, <1>6, <1>7, <2>1
<1>10. (x + m * p) % m = x % m
  BY <1>2, <1>8, ModShift
<1>11. Wrap(a) * 10 + d \in Int
  BY <1>5, <1>6
<1> QED
  BY <1>3, <1>7, <1>9, <1>10, <1>11

AtoiStep(r, c) == IF c \in Digit THEN Wrap(r * 10 + (c - 48)) ELSE r

LEMMA AtoiLoop ==
    ASSUME NEW str \in Seq(Nat)
    PROVE  \E r : /\ r[0] = 0 /\ atoi(str) = r[Len(str)]
                  /\ \A k \in 1..Len(str) : r[k] = AtoiStep(r[k - 1], str[k])
                  /\ \A k \in 0..Len(str) : r[k] \in Ints
<1> DEFINE n == Len(str)
           step == [k \in 1..n |-> [r \in Ints |-> AtoiStep(r, str[k])]]
           result == CHOOSE result : result = [k \in 0..Len(str) |->
                       IF k = 0 THEN 0
                       ELSE IF str[k] \in Digit THEN Wrap(result[k - 1] * 10 + (str[k] - 48))
                       ELSE result[k - 1]]
<1>0. n \in Nat /\ INT_MAX \in Nat /\ \A k \in 1..n : str[k] \in Nat
  BY CalculatorAssumption
<1>1. 0 \in Ints /\ \A r \in Ints : r \in Int
  BY <1>0 DEF Ints
<1>1a. \A r \in Ints, c \in Nat : AtoiStep(r, c) \in Ints
  BY <1>1, WrapIs DEF AtoiStep
<1>2. step \in [1..n -> [Ints -> Ints]]
  BY <1>0, <1>1a
<1>3. PICK f : Loop(f, n, 0, step) /\ f \in [0..n -> Ints]
  <2> HIDE DEF step, n
  <2> QED
    BY <1>0, <1>1, <1>2, LoopExists
<1>4. f = [k \in 0..n |-> IF k = 0 THEN 0
             ELSE IF str[k] \in Digit THEN Wrap(f[k - 1] * 10 + (str[k] - 48)) ELSE f[k - 1]]
  <2>1. f = [k \in 0..n |-> IF k = 0 THEN 0 ELSE step[k][f[k - 1]]]
    BY <1>3 DEF Loop
  <2>2. ASSUME NEW k \in 0..n, k # 0
        PROVE  step[k][f[k - 1]] = IF str[k] \in Digit THEN Wrap(f[k - 1] * 10 + (str[k] - 48))
                                   ELSE f[k - 1]
    <3>1. k \in 1..n /\ k - 1 \in 0..n
      BY <1>0, <2>2
    <3>2. f[k - 1] \in Ints
      BY <1>3, <3>1
    <3> QED
      BY <3>1, <3>2 DEF AtoiStep
  <2> HIDE DEF step, n
  <2> QED
    BY <2>1, <2>2
<1>5. result = [k \in 0..n |-> IF k = 0 THEN 0
                  ELSE IF str[k] \in Digit THEN Wrap(result[k - 1] * 10 + (str[k] - 48))
                  ELSE result[k - 1]]
  BY <1>4
<1>6. atoi(str) = result[n]
  BY DEF atoi
<1> HIDE DEF result
<1>7. result[0] = 0
  BY <1>0, <1>5
<1>8. \A k \in 1..n : result[k] = AtoiStep(result[k - 1], str[k])
  <2>1. \A k \in 1..n : k \in 0..n /\ k # 0
    BY <1>0
  <2> HIDE DEF n
  <2> QED
    BY <1>5, <2>1 DEF AtoiStep
<1> DEFINE S == {k \in 0..n : result[k] \in Ints}
<1>9. \A k \in 0..n : k \in S
  <2>1. 0 \in S
    BY <1>0, <1>1, <1>7
  <2>2. ASSUME NEW k \in 0..n - 1, k \in S PROVE k + 1 \in S
    <3>1. k + 1 \in 1..n /\ k + 1 - 1 = k /\ k + 1 \in 0..n
      BY <1>0
    <3>2. result[k + 1] = AtoiStep(result[k], str[k + 1])
      BY <1>8, <3>1
    <3>3. result[k] \in Ints /\ str[k + 1] \in Nat
      BY <1>0, <2>2, <3>1
    <3>4. AtoiStep(result[k], str[k + 1]) \in Ints
      BY <1>1a, <3>3
    <3> QED
      BY <3>1, <3>2, <3>4
  <2> HIDE DEF S
  <2>3. \A k \in 0..n - 1 : k \in S => k + 1 \in S
    BY <2>2
  <2> QED
    BY <1>0, <2>1, <2>3, CountUp
<1> QED
  BY <1>6, <1>7, <1>8, <1>9

\* The number of some digits is what atoi makes of them.
LEMMA AtoiIsNumber ==
    ASSUME NEW q \in Seq(Digit)
    PROVE  atoi(q) = Number(q)
<1> DEFINE n == Len(q)
           step == [k \in 1..n |-> [r \in Int |-> 10 * r + (q[k] - 48)]]
           number == CHOOSE number : number = [k \in 0..Len(q) |->
                        IF k = 0 THEN 0 ELSE 10 * number[k - 1] + (q[k] - 48)]
<1>0. n \in Nat /\ \A k \in 1..n : q[k] \in Digit /\ q[k] \in Int
  BY DEF Digit
<1>1. q \in Seq(Nat)
  <2>1. q \in [1..n -> Nat]
    BY DEF Digit
  <2> QED
    BY <1>0, <2>1
<1>2. step \in [1..n -> [Int -> Int]]
  BY <1>0
<1>3. PICK f : Loop(f, n, 0, step) /\ f \in [0..n -> Int]
  <2> HIDE DEF step, n
  <2>1. PICK D : D = Int
    OBVIOUS
  <2>2. 0 \in D /\ step \in [1..n -> [D -> D]]
    BY <1>2, <2>1
  <2>3. \E f : Loop(f, n, 0, step) /\ f \in [0..n -> D]
    BY <1>0, <2>2, LoopExists
  <2> QED
    BY <2>1, <2>3
<1>4. f = [k \in 0..n |-> IF k = 0 THEN 0 ELSE 10 * f[k - 1] + (q[k] - 48)]
  <2>1. f = [k \in 0..n |-> IF k = 0 THEN 0 ELSE step[k][f[k - 1]]]
    BY <1>3 DEF Loop
  <2>2. ASSUME NEW k \in 0..n, k # 0
        PROVE  step[k][f[k - 1]] = 10 * f[k - 1] + (q[k] - 48)
    <3>1. k \in 1..n /\ k - 1 \in 0..n
      BY <1>0, <2>2
    <3>2. f[k - 1] \in Int
      BY <1>3, <3>1
    <3> QED
      BY <3>1, <3>2
  <2> HIDE DEF step, n
  <2> QED
    BY <2>1, <2>2
<1>5. number = [k \in 0..n |-> IF k = 0 THEN 0 ELSE 10 * number[k - 1] + (q[k] - 48)]
  BY <1>4
<1>6. Number(q) = Wrap(number[n])
  BY DEF Number
<1> HIDE DEF number
<1>7. PICK r : /\ r[0] = 0 /\ atoi(q) = r[n]
               /\ \A k \in 1..n : r[k] = AtoiStep(r[k - 1], q[k])
  BY <1>1, AtoiLoop
<1> DEFINE S == {k \in 0..n : number[k] \in Int /\ r[k] = Wrap(number[k])}
<1>8. \A k \in 0..n : k \in S
  <2>1. 0 \in S
    <3>1. number[0] = 0
      BY <1>0, <1>5
    <3>2. Wrap(0) = 0
      BY WrapIs, CalculatorAssumption DEF Ints
    <3> QED
      BY <1>0, <1>7, <3>1, <3>2
  <2>2. ASSUME NEW k \in 0..n - 1, k \in S PROVE k + 1 \in S
    <3>1. k + 1 \in 1..n /\ k + 1 - 1 = k /\ k + 1 \in 0..n /\ k + 1 # 0
      BY <1>0
    <3>2. number[k + 1] = 10 * number[k] + (q[k + 1] - 48)
      BY <1>5, <3>1
    <3>3. r[k + 1] = AtoiStep(r[k], q[k + 1])
      BY <1>7, <3>1
    <3>4. PICK a \in Int, d \in Int : a = number[k] /\ d = q[k + 1] - 48
      BY <1>0, <2>2, <3>1
    <3>5. r[k + 1] = Wrap(Wrap(a) * 10 + d)
      BY <1>0, <2>2, <3>1, <3>3, <3>4 DEF AtoiStep
    <3>6. r[k + 1] = Wrap(10 * a + d)
      BY <3>5, WrapOnce
    <3> QED
      BY <3>1, <3>2, <3>4, <3>6
  <2> HIDE DEF S
  <2>3. \A k \in 0..n - 1 : k \in S => k + 1 \in S
    BY <2>2
  <2> QED
    BY <1>0, <2>1, <2>3, CountUp
<1> QED
  BY <1>0, <1>6, <1>7, <1>8

-----------------------------------------------------------------------------
(* The evaluation of a text *)

Parsing ==
    [parse_state : {"LEFT_NUMBER"}, number : Seq(Nat), current_op : {NUL}, left : {0}]
    \cup [parse_state : {"RIGHT_NUMBER"}, number : Seq(Nat), current_op : Operator, left : Int]

LEMMA AtoiIs == ASSUME NEW q \in Seq(Nat) PROVE atoi(q) \in Ints /\ atoi(q) \in Int
<1>1. atoi(q) \in Ints
  BY AtoiLoop
<1> QED
  BY <1>1, CalculatorAssumption DEF Ints

LEMMA MathIsInt ==
    ASSUME NEW left \in Int, NEW right \in Int, NEW op \in Operator
    PROVE  calculator_do_math(left, right, op) \in Int
<1>1. CASE op = 43
  BY <1>1, WrapIs DEF calculator_do_math
<1>2. CASE op = 45
  BY <1>2, WrapIs DEF calculator_do_math
<1>3. CASE op = 42
  <2>1. left * right \in Int
    OBVIOUS
  <2> QED
    BY <1>3, <2>1, WrapIs DEF calculator_do_math
<1>4. CASE op = 47
  <2>1. CASE right = 0
    BY <1>4, <2>1 DEF calculator_do_math
  <2>2. CASE right # 0
    <3>1. PICK a, b : a = Abs(left) /\ b = Abs(right)
      OBVIOUS
    <3>2. a \in Nat /\ b \in Nat \ {0}
      BY <2>2, <3>1 DEF Abs
    <3>3. PICK q : q = a \div b
      OBVIOUS
    <3>4. q \in Int
      BY <3>2, <3>3
    <3>5. Sign(left) * Sign(right) * q \in Int
      BY <3>4 DEF Sign
    <3>6. calculator_do_math(left, right, op) = Sign(left) * Sign(right) * q
      BY <1>4, <2>2, <3>1, <3>3 DEF calculator_do_math
    <3> QED
      BY <3>5, <3>6
  <2> QED
    BY <2>1, <2>2
<1> QED
  BY <1>1, <1>2, <1>3, <1>4 DEF Operator

LEMMA ResultIs ==
    ASSUME NEW p \in Parsing
    PROVE  /\ calculator_result(p) \in Int
           /\ calculator_result(p) =
                 IF p.parse_state = "RIGHT_NUMBER"
                 THEN calculator_do_math(p.left, atoi(p.number), p.current_op)
                 ELSE atoi(p.number)
<1>1. p.number \in Seq(Nat) /\ p.left \in Int
  BY DEF Parsing
<1>2. atoi(p.number) \in Int
  BY <1>1, AtoiIs
<1>3. CASE p.parse_state = "RIGHT_NUMBER"
  <2>1. p.current_op \in Operator /\ p.current_op # NUL
    BY <1>3 DEF Parsing, Operator, NUL
  <2> QED
    BY <1>1, <1>2, <1>3, <2>1, MathIsInt DEF calculator_result
<1>4. CASE p.parse_state # "RIGHT_NUMBER"
  <2>1. p.current_op = NUL
    BY <1>4 DEF Parsing
  <2> QED
    BY <1>2, <1>4, <2>1 DEF calculator_result
<1> QED
  BY <1>3, <1>4

LEMMA StepIs ==
    ASSUME NEW p \in Parsing, NEW c \in Nat
    PROVE  LET next == calculator_equals_step(p, c)
           IN  /\ next \in Parsing
               /\ c \notin Operator =>
                     /\ next.number = Append(p.number, c) /\ next.left = p.left
                     /\ next.current_op = p.current_op /\ next.parse_state = p.parse_state
               /\ c \in Operator =>
                     /\ next.number = <<>> /\ next.left = calculator_result(p)
                     /\ next.current_op = c /\ next.parse_state = "RIGHT_NUMBER"
<1>1. PICK next : next = calculator_equals_step(p, c)
  OBVIOUS
<1>2. CASE c \notin Operator
  <2>1. next = [p EXCEPT !.number = Append(@, c)]
    BY <1>1, <1>2 DEF calculator_equals_step
  <2>2. PICK q : q = Append(p.number, c)
    OBVIOUS
  <2>3. q \in Seq(Nat)
    <3>1. p.number \in Seq(Nat)
      BY DEF Parsing
    <3> QED
      BY <2>2, <3>1
  <2>4. next = [p EXCEPT !.number = q]
    BY <2>1, <2>2
  <2>5. /\ next \in Parsing /\ next.number = q /\ next.left = p.left
        /\ next.current_op = p.current_op /\ next.parse_state = p.parse_state
    BY ONLY <2>3, <2>4, p \in Parsing DEF Parsing
  <2> QED
    BY <1>1, <1>2, <2>2, <2>5
<1>3. CASE c \in Operator
  <2>1. PICK r : r = calculator_result(p)
    OBVIOUS
  <2>2. r \in Int
    BY <2>1, ResultIs
  <2>3. next = [parse_state |-> "RIGHT_NUMBER", number |-> <<>>, current_op |-> c, left |-> r]
    BY <1>1, <1>3, <2>1, ResultIs DEF calculator_equals_step
  <2>4. <<>> \in Seq(Nat)
    OBVIOUS
  <2>5. /\ next \in Parsing /\ next.number = <<>> /\ next.left = r
        /\ next.current_op = c /\ next.parse_state = "RIGHT_NUMBER"
    BY ONLY <1>3, <2>2, <2>3, <2>4 DEF Parsing
  <2> QED
    BY <1>1, <1>3, <2>1, <2>5
<1> QED
  BY <1>2, <1>3

LEMMA ParsedIs ==
    ASSUME NEW text \in Seq(Nat)
    PROVE  /\ Parsed(text)[0] = [parse_state |-> "LEFT_NUMBER", number |-> <<>>,
                                 current_op |-> NUL, left |-> 0]
           /\ \A k \in 0..Len(text) : Parsed(text)[k] \in Parsing
           /\ \A k \in 0..Len(text) - 1 :
                 Parsed(text)[k + 1] = calculator_equals_step(Parsed(text)[k], text[k + 1])
<1> DEFINE n == Len(text)
           first == [parse_state |-> "LEFT_NUMBER", number |-> <<>>, current_op |-> NUL,
                     left |-> 0]
           step == [k \in 1..n |-> [p \in Parsing |-> calculator_equals_step(p, text[k])]]
           parsed == CHOOSE parsed : parsed = [k \in 0..Len(text) |->
                        IF k = 0
                        THEN [parse_state |-> "LEFT_NUMBER", number |-> <<>>,
                              current_op |-> NUL, left |-> 0]
                        ELSE calculator_equals_step(parsed[k - 1], text[k])]
<1>0. n \in Nat /\ \A k \in 1..n : text[k] \in Nat
  OBVIOUS
<1>1. first \in Parsing
  <2>1. <<>> \in Seq(Nat)
    OBVIOUS
  <2> QED
    BY <2>1 DEF Parsing
<1>2. step \in [1..n -> [Parsing -> Parsing]]
  BY <1>0, StepIs
<1>3. PICK f : Loop(f, n, first, step) /\ f \in [0..n -> Parsing]
  <2> HIDE DEF step, n, first
  <2> QED
    BY <1>0, <1>1, <1>2, LoopExists
<1>4. f = [k \in 0..n |-> IF k = 0 THEN first ELSE calculator_equals_step(f[k - 1], text[k])]
  <2>1. f = [k \in 0..n |-> IF k = 0 THEN first ELSE step[k][f[k - 1]]]
    BY <1>3 DEF Loop
  <2>2. ASSUME NEW k \in 0..n, k # 0
        PROVE  step[k][f[k - 1]] = calculator_equals_step(f[k - 1], text[k])
    <3>1. k \in 1..n /\ k - 1 \in 0..n
      BY <1>0, <2>2
    <3>2. f[k - 1] \in Parsing
      BY <1>3, <3>1
    <3> QED
      BY <3>1, <3>2
  <2> HIDE DEF step, n, first
  <2> QED
    BY <2>1, <2>2
<1>5. parsed = [k \in 0..n |-> IF k = 0 THEN first
                              ELSE calculator_equals_step(parsed[k - 1], text[k])]
  BY <1>4
<1>6. Parsed(text) = parsed
  BY DEF Parsed
<1> HIDE DEF parsed
<1>7. parsed[0] = first
  BY <1>0, <1>5
<1>8. \A k \in 0..n - 1 : parsed[k + 1] = calculator_equals_step(parsed[k], text[k + 1])
  <2>1. ASSUME NEW k \in 0..n - 1
        PROVE  parsed[k + 1] = calculator_equals_step(parsed[k], text[k + 1])
    <3>1. PICK j : j = k + 1
      OBVIOUS
    <3>2. j \in 0..n /\ j # 0 /\ j - 1 = k
      BY <1>0, <3>1
    <3> HIDE DEF n, first
    <3>3. parsed[j] = calculator_equals_step(parsed[j - 1], text[j])
      BY <1>5, <3>2
    <3> QED
      BY <3>1, <3>2, <3>3
  <2> QED
    BY <2>1
<1> DEFINE S == {k \in 0..n : parsed[k] \in Parsing}
<1>9. \A k \in 0..n : k \in S
  <2>1. 0 \in S
    BY <1>0, <1>1, <1>7
  <2>2. ASSUME NEW k \in 0..n - 1, k \in S PROVE k + 1 \in S
    <3>1. k + 1 \in 1..n /\ k + 1 \in 0..n
      BY <1>0
    <3>2. parsed[k] \in Parsing /\ text[k + 1] \in Nat
      BY <1>0, <2>2, <3>1
    <3>3. parsed[k + 1] \in Parsing
      BY <1>8, <3>2, StepIs
    <3> QED
      BY <3>1, <3>3
  <2> HIDE DEF S
  <2>3. \A k \in 0..n - 1 : k \in S => k + 1 \in S
    BY <2>2
  <2> QED
    BY <1>0, <2>1, <2>3, CountUp
<1> QED
  BY <1>6, <1>7, <1>8, <1>9

LastOp(text, k) == SelectLastInSubSeq(text, 1, k, LAMBDA c : c \in Operator)

LEMMA LastOpIs ==
    ASSUME NEW text \in Seq(Nat)
    PROVE  /\ LastOp(text, 0) = 0
           /\ \A k \in 0..Len(text) - 1 :
                 LastOp(text, k + 1) = IF text[k + 1] \in Operator THEN k + 1 ELSE LastOp(text, k)
<1> DEFINE I(k) == {i \in 1..k : text[i] \in Operator}
<1>1. \A k \in Nat : LastOp(text, k) =
         IF I(k) # {} THEN CHOOSE x \in I(k) : \A y \in I(k) : x >= y ELSE 0
  BY DEF LastOp, SelectLastInSubSeq, Max
<1>2. LastOp(text, 0) = 0
  <2>1. I(0) = {}
    OBVIOUS
  <2> QED
    BY <1>1, <2>1
<1>3. ASSUME NEW k \in 0..Len(text) - 1, text[k + 1] \in Operator
      PROVE  LastOp(text, k + 1) = k + 1
  <2>1. k + 1 \in I(k + 1) /\ k + 1 \in Nat
    BY <1>3
  <2>2. \A y \in I(k + 1) : y \in Int /\ y <= k + 1
    OBVIOUS
  <2>3. \A x \in I(k + 1) : (\A y \in I(k + 1) : x >= y) <=> x = k + 1
    BY <2>1, <2>2
  <2>4. I(k + 1) # {}
    BY <2>1
  <2> HIDE DEF I
  <2>5. LastOp(text, k + 1) = CHOOSE x \in I(k + 1) : \A y \in I(k + 1) : x >= y
    BY <1>1, <2>1, <2>4
  <2>6. (CHOOSE x \in I(k + 1) : \A y \in I(k + 1) : x >= y) = k + 1
    BY <2>1, <2>3
  <2> QED
    BY <2>5, <2>6
<1>4. ASSUME NEW k \in 0..Len(text) - 1, text[k + 1] \notin Operator
      PROVE  LastOp(text, k + 1) = LastOp(text, k)
  <2>1. I(k + 1) = I(k)
    <3>1. \A i : i \in 1..k + 1 <=> i \in 1..k \/ i = k + 1
      OBVIOUS
    <3> QED
      BY <1>4, <3>1
  <2>2. k \in Nat /\ k + 1 \in Nat
    OBVIOUS
  <2> HIDE DEF I
  <2> QED
    BY <1>1, <2>1, <2>2
<1> QED
  BY <1>2, <1>3, <1>4

\* The state of the loop after k characters: the number read since the last
\* operator, and left of that operator the result of what is before it.
Evaluated(text, P, k) ==
    LET l == LastOp(text, k)
    IN  /\ l \in 0..k
        /\ P[k].number = SubSeq(text, l + 1, k) /\ P[k].number \in Seq(Digit)
        /\ l = 0 => P[k].parse_state = "LEFT_NUMBER"
        /\ l # 0 => /\ P[k].parse_state = "RIGHT_NUMBER"
                    /\ text[l] \in Operator /\ P[k].current_op = text[l]
                    /\ P[k].left = calculator_result(P[l - 1]) /\ P[k].left \in Ints

LEMMA EvaluatedIs ==
    ASSUME NEW text \in Seq(Nat), NEW k \in 0..Len(text),
           Evaluated(text, Parsed(text), k)
    PROVE  LET P == Parsed(text)
               l == LastOp(text, k)
               number == Number(SubSeq(text, l + 1, k))
           IN  /\ calculator_result(P[k]) =
                     IF l = 0 THEN number
                     ELSE Apply(text[l], calculator_result(P[l - 1]), number)
               /\ ~(k # 0 /\ P[k].current_op = 47 /\ P[k].left = -INT_MAX - 1
                        /\ atoi(P[k].number) = -1)
                  => calculator_result(P[k]) \in Ints
<1>1. PICK p : p = Parsed(text)[k] /\ p \in Parsing
  BY ParsedIs
<1>2. PICK l, q : l = LastOp(text, k) /\ q = SubSeq(text, l + 1, k)
  OBVIOUS
<1>3. /\ l \in 0..k /\ p.number = q /\ q \in Seq(Digit)
      /\ l = 0 => p.parse_state = "LEFT_NUMBER"
      /\ l # 0 => /\ p.parse_state = "RIGHT_NUMBER"
                  /\ text[l] \in Operator /\ p.current_op = text[l]
                  /\ p.left = calculator_result(Parsed(text)[l - 1]) /\ p.left \in Ints
  BY <1>1, <1>2 DEF Evaluated
<1>4. atoi(q) = Number(q) /\ atoi(q) \in Ints
  <2>1. q \in Seq(Nat)
    BY <1>1, <1>3 DEF Parsing
  <2> QED
    BY <1>3, <2>1, AtoiIs, AtoiIsNumber
<1>5. CASE l = 0
  <2>1. p.parse_state # "RIGHT_NUMBER"
    BY <1>3, <1>5
  <2>2. calculator_result(p) = atoi(q)
    BY <1>1, <1>3, <2>1, ResultIs
  <2> QED
    BY <1>1, <1>2, <1>4, <1>5, <2>2
<1>6. CASE l # 0
  <2>1. PICK left, op : left = p.left /\ op = p.current_op
    OBVIOUS
  <2>2. left \in Ints /\ op \in Operator /\ op = text[l] /\ p.parse_state = "RIGHT_NUMBER"
    BY <1>3, <1>6, <2>1
  <2>3. calculator_result(p) = calculator_do_math(left, atoi(q), op)
    BY <1>1, <1>3, <2>1, <2>2, ResultIs
  <2>4. /\ calculator_do_math(left, atoi(q), op) = Apply(op, left, atoi(q))
        /\ ~(op = 47 /\ left = -INT_MAX - 1 /\ atoi(q) = -1)
           => calculator_do_math(left, atoi(q), op) \in Ints
    BY <1>4, <2>2, MathIs
  <2>5. k # 0
    BY <1>3, <1>6
  <2> QED
    BY <1>1, <1>2, <1>3, <1>4, <1>6, <2>1, <2>2, <2>3, <2>4, <2>5
<1> QED
  BY <1>5, <1>6

LEMMA EvaluatedNext ==
    ASSUME NEW text \in Seq(Symbols), ~Traps(text, Parsed(text)),
           NEW k \in 0..Len(text) - 1, Evaluated(text, Parsed(text), k)
    PROVE  Evaluated(text, Parsed(text), k + 1)
<1>1. text \in Seq(Nat) /\ Len(text) \in Nat /\ k \in Nat /\ k + 1 \in 1..Len(text)
  <2>1. text \in [1..Len(text) -> Nat] /\ Len(text) \in Nat
    BY SymbolsAre
  <2> QED
    BY <2>1
<1>2. PICK P : P = Parsed(text)
  OBVIOUS
<1>3. /\ P[k] \in Parsing /\ P[k + 1] = calculator_equals_step(P[k], text[k + 1])
  BY <1>1, <1>2, ParsedIs
<1>4. PICK c : c = text[k + 1]
  OBVIOUS
<1>5. c \in Nat /\ c \in Digit \cup Operator
  BY <1>1, <1>4 DEF Symbols
<1>s. /\ c \notin Operator =>
            /\ P[k + 1].number = Append(P[k].number, c) /\ P[k + 1].left = P[k].left
            /\ P[k + 1].current_op = P[k].current_op /\ P[k + 1].parse_state = P[k].parse_state
      /\ c \in Operator =>
            /\ P[k + 1].number = <<>> /\ P[k + 1].left = calculator_result(P[k])
            /\ P[k + 1].current_op = c /\ P[k + 1].parse_state = "RIGHT_NUMBER"
  <2>1. PICK p, next : /\ p \in Parsing /\ p = P[k] /\ next = P[k + 1]
                       /\ next = calculator_equals_step(p, c)
    BY <1>3, <1>4
  <2>2. /\ c \notin Operator =>
              /\ next.number = Append(p.number, c) /\ next.left = p.left
              /\ next.current_op = p.current_op /\ next.parse_state = p.parse_state
        /\ c \in Operator =>
              /\ next.number = <<>> /\ next.left = calculator_result(p)
              /\ next.current_op = c /\ next.parse_state = "RIGHT_NUMBER"
    <3>1. ASSUME NEW d \in Nat, NEW n, n = calculator_equals_step(p, d)
          PROVE  /\ d \notin Operator =>
                       /\ n.number = Append(p.number, d) /\ n.left = p.left
                       /\ n.current_op = p.current_op /\ n.parse_state = p.parse_state
                 /\ d \in Operator =>
                       /\ n.number = <<>> /\ n.left = calculator_result(p)
                       /\ n.current_op = d /\ n.parse_state = "RIGHT_NUMBER"
      BY <2>1, <3>1, StepIs
    <3> QED
      BY <1>5, <2>1, <3>1
  <2> QED
    BY <2>1, <2>2
<1>6. PICK l : l = LastOp(text, k)
  OBVIOUS
<1>7. PICK m : m = LastOp(text, k + 1)
  OBVIOUS
<1>8. CASE c \in Operator
  <2>1. m = k + 1
    BY <1>1, <1>4, <1>7, <1>8, LastOpIs
  <2>2. /\ P[k + 1].number = <<>> /\ P[k + 1].left = calculator_result(P[k])
        /\ P[k + 1].current_op = c /\ P[k + 1].parse_state = "RIGHT_NUMBER"
    BY <1>8, <1>s
  <2>3. SubSeq(text, m + 1, k + 1) = <<>> /\ <<>> \in Seq(Digit)
    BY <1>1, <2>1
  <2>4. calculator_result(P[k]) \in Ints
    <3>1. ~(k # 0 /\ P[k].current_op = 47 /\ P[k].left = -INT_MAX - 1
            /\ atoi(P[k].number) = -1)
      <4>1. k # 0 => k \in 1..Len(text)
        BY <1>1
      <4> QED
        BY <1>2, <1>4, <1>8, <4>1 DEF Traps
    <3>2. k \in 0..Len(text)
      BY <1>1
    <3> QED
      BY <1>1, <1>2, <3>1, <3>2, EvaluatedIs
  <2>5. m \in 0..k + 1 /\ m # 0 /\ m - 1 = k
    BY <1>1, <2>1
  <2> QED
    BY <1>2, <1>4, <1>7, <1>8, <2>1, <2>2, <2>3, <2>4, <2>5 DEF Evaluated
<1>9. CASE c \notin Operator
  <2>1. m = l
    BY <1>1, <1>4, <1>6, <1>7, <1>9, LastOpIs
  <2>2. /\ P[k + 1].number = Append(P[k].number, c) /\ P[k + 1].left = P[k].left
        /\ P[k + 1].current_op = P[k].current_op /\ P[k + 1].parse_state = P[k].parse_state
    BY <1>9, <1>s
  <2>3. /\ l \in 0..k
        /\ P[k].number = SubSeq(text, l + 1, k) /\ P[k].number \in Seq(Digit)
        /\ l = 0 => P[k].parse_state = "LEFT_NUMBER"
        /\ l # 0 => /\ P[k].parse_state = "RIGHT_NUMBER"
                    /\ text[l] \in Operator /\ P[k].current_op = text[l]
                    /\ P[k].left = calculator_result(P[l - 1]) /\ P[k].left \in Ints
    BY <1>2, <1>6 DEF Evaluated
  <2>4. Append(P[k].number, c) \in Seq(Digit)
    BY <1>5, <1>9, <2>3
  <2>5. SubSeq(text, l + 1, k + 1) = Append(SubSeq(text, l + 1, k), text[k + 1])
    <3>1. PICK a, b : a = SubSeq(text, l + 1, k) /\ b = SubSeq(text, l + 1, k + 1)
      OBVIOUS
    <3>2. l \in Nat /\ l <= k /\ k + 1 <= Len(text)
      BY <1>1, <2>3
    <3>3. a \in Seq(Nat) /\ Len(a) = k - l /\ \A i \in 1..k - l : a[i] = text[l + i]
      <4>1. k <= Len(text) /\ k \in Nat /\ text \in Seq(Nat)
        BY <1>1, <3>2
      <4>2. /\ SubSeq(text, l + 1, k) \in Seq(Nat) /\ Len(SubSeq(text, l + 1, k)) = k - l
            /\ \A i \in 1..k - l : SubSeq(text, l + 1, k)[i] = text[l + i]
        BY ONLY <3>2, <4>1, PartOf
      <4> QED
        BY ONLY <3>1, <4>2
    <3>4. b \in Seq(Nat) /\ Len(b) = k + 1 - l /\ \A i \in 1..k + 1 - l : b[i] = text[l + i]
      <4>1. PICK j : /\ j \in Nat /\ j = k + 1 /\ l <= j /\ j <= Len(text)
                     /\ text \in Seq(Nat)
        BY <1>1, <3>2
      <4>2. /\ SubSeq(text, l + 1, j) \in Seq(Nat) /\ Len(SubSeq(text, l + 1, j)) = j - l
            /\ \A i \in 1..j - l : SubSeq(text, l + 1, j)[i] = text[l + i]
        BY ONLY <3>2, <4>1, PartOf
      <4>3. b = SubSeq(text, l + 1, j)
        BY ONLY <3>1, <4>1
      <4>4. b \in Seq(Nat) /\ Len(b) = j - l /\ \A i \in 1..j - l : b[i] = text[l + i]
        BY ONLY <4>2, <4>3
      <4>5. k + 1 - l = j - l
        BY <1>1, <3>2, <4>1
      <4> QED
        BY ONLY <4>4, <4>5
    <3>5. PICK d : d = Append(a, c)
      OBVIOUS
    <3>6. /\ d \in Seq(Nat) /\ Len(d) = k + 1 - l /\ d[k + 1 - l] = c
          /\ \A i \in 1..k - l : d[i] = a[i]
      <4>1. /\ d \in Seq(Nat) /\ Len(d) = Len(a) + 1 /\ d[Len(a) + 1] = c
            /\ \A i \in 1..Len(a) : d[i] = a[i]
        BY ONLY <1>5, <3>3, <3>5, AppendIs
      <4>2. k - l + 1 = k + 1 - l
        BY <1>1, <3>2
      <4> QED
        BY <3>3, <4>1, <4>2
    <3>7. \A i \in 1..k + 1 - l : b[i] = d[i]
      <4>1. \A i \in 1..k + 1 - l : i = k + 1 - l \/ i \in 1..k - l
        BY <1>1, <3>2
      <4>2. k + 1 - l \in 1..k + 1 - l /\ l + (k + 1 - l) = k + 1
        BY <1>1, <3>2
      <4> QED
        BY <1>4, <3>3, <3>4, <3>6, <4>1, <4>2
    <3>8. b = d
      BY <3>4, <3>6, <3>7
    <3> QED
      BY <1>4, <3>1, <3>5, <3>8
  <2>6. m \in 0..k + 1
    BY <1>1, <2>1, <2>3
  <2> QED
    BY <1>2, <1>4, <1>7, <2>1, <2>2, <2>3, <2>4, <2>5, <2>6 DEF Evaluated
<1> QED
  BY <1>8, <1>9

ValueOf(value, text) == value = [k \in 0..Len(text) |->
    IF LastOp(text, k) = 0 THEN Number(SubSeq(text, LastOp(text, k) + 1, k))
    ELSE Apply(text[LastOp(text, k)], value[LastOp(text, k) - 1],
               Number(SubSeq(text, LastOp(text, k) + 1, k)))]

(* What the calculator's loop over a text ends with is the value of the    *)
(* text, whatever it holds, unless a division traps: for every width of    *)
(* int and every text that can be typed.                                   *)
THEOREM TextEvaluates ==
    ASSUME NEW text \in Seq(Symbols), ~Traps(text, Parsed(text))
    PROVE  LET result == calculator_result(Parsed(text)[Len(text)])
           IN  result = Value(text) /\ result \in Ints
<1> DEFINE n == Len(text)
           P == Parsed(text)
           value == CHOOSE value : value = [k \in 0..Len(text) |->
              IF SelectLastInSubSeq(text, 1, k, LAMBDA c : c \in Operator) = 0
              THEN Number(SubSeq(text, SelectLastInSubSeq(text, 1, k, LAMBDA c : c \in Operator) + 1, k))
              ELSE Apply(text[SelectLastInSubSeq(text, 1, k, LAMBDA c : c \in Operator)],
                         value[SelectLastInSubSeq(text, 1, k, LAMBDA c : c \in Operator) - 1],
                         Number(SubSeq(text, SelectLastInSubSeq(text, 1, k, LAMBDA c : c \in Operator) + 1, k)))]
           f == [k \in 0..n |-> calculator_result(P[k])]
<1>1. text \in Seq(Nat) /\ n \in Nat
  <2>1. text \in [1..n -> Nat] /\ n \in Nat
    BY SymbolsAre
  <2> QED
    BY <2>1
<1>2. Value(text) = value[n]
  BY DEF Value
<1> DEFINE S == {k \in 0..n : Evaluated(text, P, k)}
<1>3. \A k \in 0..n : k \in S
  <2>1. 0 \in S
    <3>1. LastOp(text, 0) = 0
      BY <1>1, LastOpIs
    <3>2. P[0].number = <<>> /\ P[0].parse_state = "LEFT_NUMBER"
      BY <1>1, ParsedIs
    <3>3. SubSeq(text, 1, 0) = <<>> /\ <<>> \in Seq(Digit)
      BY <1>1
    <3>4. Evaluated(text, P, 0)
      BY <3>1, <3>2, <3>3 DEF Evaluated
    <3> QED
      BY <1>1, <3>4
  <2>2. \A k \in 0..n - 1 : k \in S => k + 1 \in S
    <3>1. ASSUME NEW k \in 0..n - 1, k \in S PROVE k + 1 \in S
      <4>1. Evaluated(text, P, k + 1)
        BY <3>1, EvaluatedNext
      <4>2. k + 1 \in 0..n
        BY <1>1
      <4> HIDE DEF P, n
      <4> QED
        BY <4>1, <4>2
    <3> HIDE DEF S
    <3> QED
      BY <3>1
  <2> HIDE DEF S, n
  <2> QED
    BY <1>1, <2>1, <2>2, CountUp
<1>4. \A k \in 0..n : Evaluated(text, P, k)
  BY <1>3
<1>5. \A k \in 0..n :
        f[k] = IF LastOp(text, k) = 0 THEN Number(SubSeq(text, LastOp(text, k) + 1, k))
               ELSE Apply(text[LastOp(text, k)], f[LastOp(text, k) - 1],
                          Number(SubSeq(text, LastOp(text, k) + 1, k)))
  <2>1. ASSUME NEW k \in 0..n
        PROVE  f[k] = IF LastOp(text, k) = 0 THEN Number(SubSeq(text, LastOp(text, k) + 1, k))
                      ELSE Apply(text[LastOp(text, k)], f[LastOp(text, k) - 1],
                                 Number(SubSeq(text, LastOp(text, k) + 1, k)))
    <3>1. PICK l : l = LastOp(text, k)
      OBVIOUS
    <3>2. PICK number : number = Number(SubSeq(text, l + 1, k))
      OBVIOUS
    <3>3. l \in 0..k
      BY <1>4, <3>1 DEF Evaluated
    <3>4. calculator_result(P[k]) = IF l = 0 THEN number
             ELSE Apply(text[l], calculator_result(P[l - 1]), number)
      BY <1>1, <1>4, <3>1, <3>2, EvaluatedIs
    <3>5. l # 0 => l - 1 \in 0..n
      BY <1>1, <3>3
    <3> HIDE DEF P, n
    <3>6. f[k] = IF l = 0 THEN number ELSE Apply(text[l], f[l - 1], number)
      BY <3>4, <3>5
    <3> QED
      BY <3>1, <3>2, <3>6
  <2> QED
    BY <2>1
<1>6. ValueOf(f, text)
  <2>1. f = [k \in 0..n |-> f[k]]
    OBVIOUS
  <2> HIDE DEF f
  <2> QED
    BY <1>5, <2>1 DEF ValueOf
<1>7. ValueOf(value, text)
  <2>1. \E v : ValueOf(v, text)
    BY <1>6
  <2> HIDE DEF f
  <2> QED
    BY <2>1 DEF ValueOf, LastOp
<1> HIDE DEF value, f
<1>8. value[n] = f[n]
  <2> DEFINE Rest == {k \in 0..n : value[k] # f[k]}
  <2>1. SUFFICES ASSUME Rest # {} PROVE FALSE
    BY <1>1
  <2>2. Rest \subseteq Nat
    OBVIOUS
  <2>3. PICK k \in Rest : \A j \in Rest : k <= j
    BY <2>1, <2>2, LeastNumber
  <2>4. PICK l : l = LastOp(text, k)
    OBVIOUS
  <2>5. k \in 0..n /\ l \in 0..k
    BY <1>4, <2>4 DEF Evaluated
  <2>6. l # 0 => l - 1 \in 0..n /\ ~(k <= l - 1)
    BY <1>1, <2>5
  <2>7. l # 0 => value[l - 1] = f[l - 1]
    BY <2>3, <2>6
  <2>8. value[k] = IF l = 0 THEN Number(SubSeq(text, l + 1, k))
                   ELSE Apply(text[l], value[l - 1], Number(SubSeq(text, l + 1, k)))
    BY <1>7, <2>4, <2>5 DEF ValueOf
  <2>9. f[k] = IF l = 0 THEN Number(SubSeq(text, l + 1, k))
               ELSE Apply(text[l], f[l - 1], Number(SubSeq(text, l + 1, k)))
    BY <1>5, <2>4, <2>5
  <2>10. value[k] = f[k]
    BY <2>7, <2>8, <2>9
  <2> QED
    BY <2>3, <2>10
<1>9. f[n] = calculator_result(P[n])
  BY <1>1 DEF f
<1>10. calculator_result(P[n]) \in Ints
  <2>1. CASE n # 0
    <3>1. n \in 1..n
      BY <1>1, <2>1
    <3>2. ~(P[n].current_op = 47 /\ P[n].left = -INT_MAX - 1 /\ atoi(P[n].number) = -1)
      BY <3>1 DEF Traps
    <3>3. Evaluated(text, P, n) /\ n \in 0..n
      BY <1>1, <1>4
    <3> QED
      BY <1>1, <3>2, <3>3, EvaluatedIs
  <2>2. CASE n = 0
    <3>1. Evaluated(text, P, n) /\ n \in 0..n
      BY <1>1, <1>4
    <3> QED
      BY <1>1, <2>2, <3>1, EvaluatedIs
  <2> QED
    BY <2>1, <2>2
<1> QED
  BY <1>2, <1>8, <1>9, <1>10

-----------------------------------------------------------------------------
(* The handlers *)

LEMMA CStringIs ==
    ASSUME NEW q \in Seq(Nat)
    PROVE  CString(q) \in Seq(Nat) /\ (Len(q) # 0 /\ q[1] = NUL => CString(q) = <<>>)
<1> DEFINE I == {k \in 1..Len(q) : q[k] = NUL}
           end == SelectInSeq(q, LAMBDA c : c = NUL)
<1>1. end = IF I # {} THEN CHOOSE x \in I : \A y \in I : x =< y ELSE 0
  BY DEF SelectInSeq, Min
<1>2. CString(q) = IF end = 0 THEN q ELSE SubSeq(q, 1, end - 1)
  BY DEF CString
<1>3. I # {} => end \in I /\ \A y \in I : end <= y
  <2>1. CASE I # {}
    <3>1. I \subseteq Nat
      OBVIOUS
    <3>2. \E x \in I : \A y \in I : x <= y
      BY <2>1, <3>1, LeastNumber
    <3> QED
      BY <1>1, <3>2
  <2> QED
    BY <2>1
<1>4. I = {} => end = 0
  BY <1>1
<1>5. \A k \in I : k \in 1..Len(q)
  OBVIOUS
<1> HIDE DEF end
<1>6. CString(q) \in Seq(Nat)
  <2>1. CASE I = {}
    BY <1>2, <1>4, <2>1
  <2>2. CASE I # {}
    <3>1. end \in 1..Len(q) /\ end # 0
      BY <1>3, <1>5, <2>2
    <3>2. SubSeq(q, 1, end - 1) \in Seq(Nat)
      BY <3>1
    <3> QED
      BY <1>2, <3>1, <3>2
  <2> QED
    BY <2>1, <2>2
<1>7. ASSUME Len(q) # 0, q[1] = NUL PROVE CString(q) = <<>>
  <2>1. 1 \in I
    BY <1>7
  <2>2. end = 1
    BY <1>3, <1>5, <2>1
  <2> QED
    BY <1>2, <2>2
<1> QED
  BY <1>6, <1>7

LEMMA ClearedText ==
    ASSUME NEW t, IsUi(t), t.field.element # NULL
    PROVE  CString(gui_element_textfield_clear(t).field.text) = <<>>
<1>1. PICK n \in Nat \ {0} : n = Len(t.field.text)
  BY FieldIs
<1>2. PICK q : q = Blanks(n, NUL)
  OBVIOUS
<1>3. q \in Seq(Nat) /\ Len(q) = n /\ q[1] = NUL
  <2>1. NUL \in Nat /\ 1 \in 1..n /\ n \in Nat
    BY <1>1 DEF NUL
  <2> QED
    BY <1>2, <2>1 DEF Blanks
<1>4. gui_element_textfield_clear(t).field.text = q
  BY <1>1, <1>2, ClearKeeps
<1> QED
  BY <1>1, <1>3, <1>4, CStringIs

LEMMA WildIs ==
    ASSUME NEW t, IsUi(t)
    PROVE  LET u == [t EXCEPT !.wild = TRUE]
           IN  /\ IsUi(u) /\ u.elements = t.elements /\ u.events = t.events
               /\ u.focused = t.focused /\ u.must_draw = t.must_draw /\ u.field = t.field
               /\ u.list = t.list /\ u.printed = t.printed /\ u.recycled = t.recycled
               /\ u.wild = TRUE
<1>1. PICK u : u = [t EXCEPT !.wild = TRUE]
  OBVIOUS
<1>2. t \in UiType
  BY DEF IsUi
<1>3. /\ u \in UiType /\ u.elements = t.elements /\ u.events = t.events
      /\ u.focused = t.focused /\ u.must_draw = t.must_draw /\ u.field = t.field
      /\ u.list = t.list /\ u.printed = t.printed /\ u.recycled = t.recycled
      /\ u.wild = TRUE
  BY ONLY <1>1, <1>2 DEF UiType
<1>4. IsUi(u)
  BY <1>3 DEF IsUi
<1> QED
  BY <1>1, <1>3, <1>4

LEMMA EqualsIs ==
    ASSUME NEW t, IsUi(t), t.field.element # NULL
    PROVE  LET text == gui_element_textfield_text(t)
               parsed == Parsed(text)
               shownText == itoa(calculator_result(parsed[Len(text)]))
           IN  /\ shownText \in Texts
               /\ Overruns(text, parsed) \/ Traps(text, parsed)
                  => calculator_equals(t) = [t EXCEPT !.wild = TRUE]
               /\ ~(Overruns(text, parsed) \/ Traps(text, parsed))
                  => PutUpTo(t, shownText, Len(shownText), calculator_equals(t))
<1>1. PICK text : text = gui_element_textfield_text(t)
  OBVIOUS
<1>2. text \in Seq(Nat)
  BY <1>1, FieldIs, CStringIs DEF gui_element_textfield_text
<1>3. PICK p : p = Parsed(text)[Len(text)]
  OBVIOUS
<1>4. p \in Parsing
  <2>1. Len(text) \in 0..Len(text)
    BY <1>2
  <2> QED
    BY <1>2, <1>3, <2>1, ParsedIs
<1>5. PICK answer : answer = itoa(calculator_result(p))
  OBVIOUS
<1>6. answer \in Texts /\ answer \in Seq(Nat)
  <2>1. answer \in Texts
    BY <1>4, <1>5, ResultIs, ItoaIs
  <2>2. answer \in Seq(Nat \ {NUL})
    BY <2>1, SymbolsAre DEF Texts
  <2>3. answer \in [1..Len(answer) -> Nat] /\ Len(answer) \in Nat
    BY <2>2
  <2> QED
    BY <2>1, <2>3
<1>7. PutUpTo(t, answer, Len(answer), gui_element_textfield_text_set(t, answer))
  BY <1>6, TextSetIs
<1> QED
  BY <1>1, <1>3, <1>5, <1>6, <1>7 DEF calculator_equals

\* What a handler finds beside its element.
WiredTo(t, i) ==
    LET e == t.elements[i]
    IN  /\ e.handler \in {"textfield", "digit", "operation", "delete"}
              => t.field.element # NULL
        /\ e.handler = "listarea" => t.list.element = i
        /\ e.handler = "digit" => e.id \in 0..9
        /\ e.handler \in {"operation", "delete"} => t.field.max_allowed_len > 1
        /\ e.handler = "operation" => e.id \in DOMAIN OperatorOf \cup {BUTTON_EQUALS}

Wired(t) == \A i \in 1..Len(t.elements) : WiredTo(t, i)

\* What no handler changes, and what it does to the events.
Keeps(t, u) ==
    /\ IsUi(u) /\ u.elements = t.elements /\ u.recycled = t.recycled
    /\ u.printed = t.printed /\ u.list.element = t.list.element
    /\ u.field.element = t.field.element
    /\ t.field.element # NULL => u.field.max_allowed_len = t.field.max_allowed_len
    /\ \E q \in Seq(EventType) : u.events = t.events \o q

\* A change that can be seen asks for a redraw, or events that will are on their way.
Owes(t, u) ==
    \/ u.must_draw = TRUE
    \/ /\ u.must_draw = t.must_draw /\ u.list = t.list
       /\ u.field = t.field
          \/ (t.field.element # NULL /\ CString(u.field.text) = <<>>)
       /\ \/ u.focused = t.focused
          \/ \E q : ForRoots(t, q) /\ u.events = t.events \o q

LEMMA UnchangedKeeps == ASSUME NEW t, IsUi(t) PROVE Keeps(t, t) /\ Owes(t, t)
<1>1. t.events \in Seq(EventType)
  BY DEF IsUi, UiType
<1>2. <<>> \in Seq(EventType) /\ t.events = t.events \o <<>>
  BY <1>1
<1> QED
  BY <1>2 DEF Keeps, Owes

LEMMA FieldKeeps ==
    ASSUME NEW t, IsUi(t), NEW u, IsUi(u), ButField(t, u), t.field.element # NULL,
           u.field.element = t.field.element,
           u.field.max_allowed_len = t.field.max_allowed_len
    PROVE  Keeps(t, u)
<1>1. t.events \in Seq(EventType)
  BY DEF IsUi, UiType
<1>2. <<>> \in Seq(EventType) /\ u.events = t.events \o <<>>
  BY <1>1 DEF ButField
<1> QED
  BY <1>2 DEF Keeps, ButField

LEMMA NewList ==
    ASSUME NEW t, IsUi(t), NEW l \in ListType, l.element = t.list.element
    PROVE  LET u == [t EXCEPT !.list = l]
           IN  /\ IsUi(u) /\ u.elements = t.elements /\ u.events = t.events
               /\ u.focused = t.focused /\ u.must_draw = t.must_draw /\ u.field = t.field
               /\ u.printed = t.printed /\ u.wild = t.wild /\ u.recycled = t.recycled
               /\ u.list = l
<1>1. PICK u : u = [t EXCEPT !.list = l]
  OBVIOUS
<1>2. t \in UiType
  BY DEF IsUi
<1>3. /\ u \in UiType /\ u.elements = t.elements /\ u.events = t.events
      /\ u.focused = t.focused /\ u.must_draw = t.must_draw /\ u.field = t.field
      /\ u.printed = t.printed /\ u.wild = t.wild /\ u.recycled = t.recycled
      /\ u.list = l
  BY ONLY <1>1, <1>2, l \in ListType DEF UiType
<1>4. IsUi(u)
  BY <1>3 DEF IsUi
<1> QED
  BY <1>1, <1>3, <1>4

LEMMA SelectIs ==
    ASSUME NEW t, IsUi(t), t.list.element # NULL, NEW index \in Int
    PROVE  LET u == gui_element_listarea_select(t, index)
           IN  \/ u = t
               \/ /\ Keeps(t, u) /\ u.must_draw = TRUE /\ u.focused = t.focused
                  /\ u.field = t.field /\ u.wild = t.wild
                  /\ u.list.selected_index = index
                  /\ \E e \in EventType : /\ u.events = t.events \o <<e>>
                                          /\ e.type = "LISTAREA_ITEM_SELECTED"
                                          /\ e.element = t.list.element /\ e.value = index
<1>1. PICK u : u = gui_element_listarea_select(t, index)
  OBVIOUS
<1>2. CASE index \notin 0..Len(t.list.items) - 1
  BY <1>2 DEF gui_element_listarea_select
<1>3. CASE index \in 0..Len(t.list.items) - 1
  <2>1. PICK f : f = t.list
    OBVIOUS
  <2>2. f \in [element : Nat \ {NULL}, items : Seq(Nat), selected_index : Int]
    BY <2>1 DEF IsUi, UiType, ListType
  <2>3. PICK g : g = [f EXCEPT !.selected_index = index]
    OBVIOUS
  <2>4. /\ g \in [element : Nat \ {NULL}, items : Seq(Nat), selected_index : Int]
        /\ g.element = f.element /\ g.selected_index = index
    BY ONLY <2>2, <2>3, index \in Int
  <2>5. PICK v : v = [t EXCEPT !.list = g]
    OBVIOUS
  <2>6. /\ IsUi(v) /\ v.elements = t.elements /\ v.events = t.events
        /\ v.focused = t.focused /\ v.field = t.field
        /\ v.printed = t.printed /\ v.wild = t.wild /\ v.recycled = t.recycled
        /\ v.list = g
    <3>1. g \in ListType
      BY <2>4 DEF ListType
    <3> QED
      BY <2>1, <2>4, <2>5, <3>1, NewList
  <2>7. PICK i : i = t.list.element
    OBVIOUS
  <2>8. i \in 1..Len(v.elements)
    <3>1. t.list.element \in 0..Len(t.elements) /\ Len(t.elements) \in Nat
      BY DEF IsUi, UiType
    <3> QED
      BY <2>6, <2>7, <3>1 DEF NULL
  <2>9. PICK w : w = gui_element_mark_for_redraw(v, i)
    OBVIOUS
  <2>10. IsUi(w) /\ ButField(v, w) /\ w.must_draw = TRUE /\ w.field = v.field
    <3>1. w = [v EXCEPT !.must_draw = TRUE]
      BY <2>6, <2>8, <2>9, MarkIs
    <3> QED
      BY <2>6, <3>1, MarkedIsUi
  <2>11. index \in Nat
    <3>1. f.items \in Seq(Nat)
      BY <2>2
    <3> QED
      BY <1>3, <2>1, <3>1
  <2>12. PICK event : event = Selected(index)
    OBVIOUS
  <2>13. event \in EventType /\ event.type = "LISTAREA_ITEM_SELECTED" /\ event.value = index
    <3>1. "CLICKED" \in EventKinds
      BY DEF EventKinds
    <3> QED
      BY <2>11, <2>12, <3>1, EventIsTyped
  <2>14. u = Push(w, <<i>>, event)
    <3>1. v = [t EXCEPT !.list.selected_index = index]
      <4>1. t \in UiType
        BY DEF IsUi
      <4> QED
        BY ONLY <2>1, <2>3, <2>5, <4>1 DEF UiType
    <3>2. u = gui_element_event_push(gui_element_mark_for_redraw(v, t.list.element),
                                     t.list.element, Selected(index))
      BY <1>1, <1>3, <3>1 DEF gui_element_listarea_select
    <3> QED
      BY <2>7, <2>9, <2>12, <3>2 DEF gui_element_event_push
  <2>15. i \in 1..Len(w.elements) /\ <<i>> \in Seq(1..Len(w.elements)) /\ i \in Nat
    <3>1. i \in 1..Len(w.elements)
      BY <2>8, <2>10 DEF ButField
    <3> QED
      BY <3>1
  <2>16. IsUi(u) /\ ButEvents(w, u) /\ u.events = w.events \o Sent(<<i>>, event)
    BY <2>10, <2>13, <2>14, <2>15, PushKeeps
  <2>17. PICK e : e = [event EXCEPT !.element = i]
    OBVIOUS
  <2>18. e \in EventType /\ e.type = event.type /\ e.element = i /\ e.value = event.value
    BY ONLY <2>13, <2>15, <2>17 DEF EventType
  <2>19. u.events = t.events \o <<e>> /\ <<e>> \in Seq(EventType)
    <3>1. Sent(<<i>>, event) = <<e>>
      BY <2>13, <2>15, <2>17, SentToOne
    <3>2. w.events = t.events
      BY <2>6, <2>10 DEF ButField
    <3>3. <<e>> \in Seq(EventType)
      BY <2>18
    <3> QED
      BY <2>16, <3>1, <3>2, <3>3
  <2>20. Keeps(t, u)
    BY <2>1, <2>4, <2>6, <2>10, <2>16, <2>19 DEF Keeps, ButField, ButEvents
  <2> QED
    <3>1. /\ u.must_draw = TRUE /\ u.focused = t.focused /\ u.field = t.field
          /\ u.wild = t.wild /\ u.list.selected_index = index
      BY <2>4, <2>6, <2>7, <2>10, <2>16 DEF ButField, ButEvents
    <3>2. /\ e.type = "LISTAREA_ITEM_SELECTED" /\ e.element = t.list.element
          /\ e.value = index
      BY ONLY <2>7, <2>13, <2>18
    <3>3. \E d \in EventType : /\ u.events = t.events \o <<d>>
                               /\ d.type = "LISTAREA_ITEM_SELECTED"
                               /\ d.element = t.list.element /\ d.value = index
      <4>1. e \in EventType /\ u.events = t.events \o <<e>>
        BY <2>18, <2>19
      <4> QED
        BY ONLY <3>2, <4>1
    <3> QED
      BY ONLY <1>1, <2>20, <3>1, <3>3
<1> QED
  BY <1>2, <1>3

LEMMA OperatorsOf ==
    ASSUME NEW id \in DOMAIN OperatorOf
    PROVE  OperatorOf[id] \in Operator /\ OperatorOf[id] \in Nat \ {NUL} /\ id # BUTTON_EQUALS
BY DEF OperatorOf, Operator, NUL, BUTTON_DIVIDE, BUTTON_MULTIPLY, BUTTON_ADD,
       BUTTON_SUBTRACT, BUTTON_EQUALS

LEMMA PutOwes ==
    ASSUME NEW t, IsUi(t), t.field.element # NULL, NEW c \in Nat
    PROVE  LET u == gui_element_textfield_put_char(t, c) IN Keeps(t, u) /\ Owes(t, u)
<1>1. PICK u : u = gui_element_textfield_put_char(t, c)
  OBVIOUS
<1>2. /\ IsUi(u) /\ ButField(t, u) /\ u.field.element = t.field.element
      /\ u.field.max_allowed_len = t.field.max_allowed_len
      /\ u = t \/ u.must_draw = TRUE
  BY <1>1, PutCharIs
<1>3. Keeps(t, u)
  BY <1>2, FieldKeeps
<1> QED
  BY <1>1, <1>2, <1>3, UnchangedKeeps DEF Owes

LEMMA BackspaceOwes ==
    ASSUME NEW t, IsUi(t), t.field.element # NULL
    PROVE  LET u == gui_element_textfield_backspace(t) IN Keeps(t, u) /\ Owes(t, u)
<1>1. PICK u : u = gui_element_textfield_backspace(t)
  OBVIOUS
<1>2. /\ IsUi(u) /\ ButField(t, u) /\ u.field.element = t.field.element
      /\ u.field.max_allowed_len = t.field.max_allowed_len
      /\ u = t \/ u.must_draw = TRUE
  BY <1>1, BackspaceIs
<1>3. Keeps(t, u)
  BY <1>2, FieldKeeps
<1> QED
  BY <1>1, <1>2, <1>3, UnchangedKeeps DEF Owes

LEMMA ResetOwes ==
    ASSUME NEW t, IsUi(t), t.field.element # NULL
    PROVE  LET u == calculator_reset(t)
           IN  Keeps(t, u) /\ Owes(t, u) /\ u = gui_element_textfield_clear(t)
<1>1. <<>> \in Seq(Nat) /\ Len(<<>>) = 0
  OBVIOUS
<1>2. PICK u : u = gui_element_textfield_text_set(t, <<>>)
  OBVIOUS
<1>3. u = gui_element_textfield_clear(t)
  BY <1>1, <1>2, TextSetIs DEF PutUpTo
<1>4. /\ IsUi(u) /\ ButField(t, u) /\ u.must_draw = t.must_draw
      /\ u.field.element = t.field.element
      /\ u.field.max_allowed_len = t.field.max_allowed_len
  BY <1>3, ClearKeeps
<1>5. CString(u.field.text) = <<>>
  BY <1>3, ClearedText
<1>6. Keeps(t, u)
  BY <1>4, FieldKeeps
<1>7. Owes(t, u)
  BY <1>4, <1>5 DEF Owes, ButField
<1> QED
  BY <1>2, <1>3, <1>6, <1>7 DEF calculator_reset

LEMMA EqualsOwes ==
    ASSUME NEW t, IsUi(t), t.field.element # NULL, t.field.max_allowed_len > 1
    PROVE  LET u == calculator_equals(t) IN Keeps(t, u) /\ Owes(t, u)
<1>1. PICK u : u = calculator_equals(t)
  OBVIOUS
<1>2. CASE u = [t EXCEPT !.wild = TRUE]
  <2>1. /\ IsUi(u) /\ u.elements = t.elements /\ u.events = t.events
        /\ u.focused = t.focused /\ u.must_draw = t.must_draw /\ u.field = t.field
        /\ u.list = t.list /\ u.printed = t.printed /\ u.recycled = t.recycled
    BY <1>2, WildIs
  <2>2. \E q \in Seq(EventType) : t.events = t.events \o q
    BY UnchangedKeeps DEF Keeps
  <2> QED
    BY <1>1, <2>1, <2>2 DEF Keeps, Owes
<1>3. CASE u # [t EXCEPT !.wild = TRUE]
  <2>1. PICK text \in Texts : PutUpTo(t, text, Len(text), u)
    BY <1>1, <1>3, EqualsIs
  <2>2. Len(text) # 0
    BY EmptySeq DEF Texts
  <2>3. /\ IsUi(u) /\ ButField(t, u) /\ u.field.element = t.field.element
        /\ u.field.max_allowed_len = t.field.max_allowed_len /\ u.must_draw = TRUE
    BY <2>1, <2>2 DEF PutUpTo
  <2>4. Keeps(t, u)
    BY <2>3, FieldKeeps
  <2> QED
    BY <1>1, <2>3, <2>4 DEF Owes
<1> QED
  BY <1>2, <1>3

LEMMA FocusOwes ==
    ASSUME NEW t, IsUi(t), NEW i \in 1..Len(t.elements)
    PROVE  LET u == gui_focus_on_element(t, i) IN Keeps(t, u) /\ Owes(t, u)
<1>1. PICK u : u = gui_focus_on_element(t, i)
  OBVIOUS
<1>2. IsUi(u) /\ ButFocus(t, u) /\ \E q : ForRoots(t, q) /\ u.events = t.events \o q
  BY <1>1, FocusKeeps
<1>3. \E q \in Seq(EventType) : u.events = t.events \o q
  BY <1>2 DEF ForRoots, IsFocusing
<1> QED
  BY <1>1, <1>2, <1>3 DEF Keeps, Owes, ButFocus

LEMMA SelectOwes ==
    ASSUME NEW t, IsUi(t), t.list.element # NULL, NEW index \in Int
    PROVE  LET u == gui_element_listarea_select(t, index) IN Keeps(t, u) /\ Owes(t, u)
<1>1. PICK u : u = gui_element_listarea_select(t, index)
  OBVIOUS
<1>2. u = t \/ (Keeps(t, u) /\ u.must_draw = TRUE)
  BY <1>1, SelectIs
<1> QED
  BY <1>1, <1>2, UnchangedKeeps DEF Owes

LEMMA MarkOwes ==
    ASSUME NEW t, IsUi(t), NEW i \in 1..Len(t.elements)
    PROVE  LET u == gui_element_mark_for_redraw(t, i)
           IN  Keeps(t, u) /\ Owes(t, u) /\ u.must_draw = TRUE
<1>1. PICK u : u = [t EXCEPT !.must_draw = TRUE]
  OBVIOUS
<1>2. IsUi(u) /\ ButField(t, u) /\ u.must_draw = TRUE /\ u.field = t.field
  BY <1>1, MarkedIsUi
<1>3. \E q \in Seq(EventType) : t.events = t.events \o q
  BY UnchangedKeeps DEF Keeps
<1>4. u = gui_element_mark_for_redraw(t, i)
  BY <1>1, MarkIs
<1> QED
  BY <1>2, <1>3, <1>4 DEF Keeps, Owes, ButField

LEMMA HandlerIs ==
    ASSUME NEW t, IsUi(t), Wired(t), NEW event \in EventType,
           event.element \in 1..Len(t.elements)
    PROVE  LET handled == event_handler(t, event)
           IN  /\ handled.res \in {"IGNORED", "PROCESSED_CONTINUE_WITH_CHILDREN"}
               /\ Keeps(t, handled.s) /\ Owes(t, handled.s)
               /\ t.elements[event.element].handler = "plane"
                  /\ event.type \in {"FOCUSED", "UNFOCUSED"} => handled.s.must_draw = TRUE
<1> DEFINE Done(h) == /\ h.res \in {"IGNORED", "PROCESSED_CONTINUE_WITH_CHILDREN"}
                      /\ Keeps(t, h.s) /\ Owes(t, h.s)
<1>1. PICK i, e : i = event.element /\ e = t.elements[i]
  OBVIOUS
<1>2. i \in 1..Len(t.elements) /\ e \in ElementType /\ WiredTo(t, i)
  BY <1>1 DEF IsUi, UiType, Wired
<1>3. PICK h : h = event_handler(t, event)
  OBVIOUS
<1>4. Keeps(t, t) /\ Owes(t, t)
  BY UnchangedKeeps
<1>5. event.value \in Nat /\ event.y \in Int
  BY DEF EventType
<1>6. CASE e.handler = "plane"
  <2>1. h = gui_element_plane_event_handler(t, event)
    BY <1>1, <1>3, <1>6 DEF event_handler
  <2>2. CASE event.type \in {"FOCUSED", "UNFOCUSED"}
    <3>1. h.res = "PROCESSED_CONTINUE_WITH_CHILDREN" /\ h.s = gui_element_mark_for_redraw(t, i)
      BY <1>1, <2>1, <2>2 DEF gui_element_plane_event_handler
    <3>2. Keeps(t, h.s) /\ Owes(t, h.s) /\ h.s.must_draw = TRUE
      BY <1>2, <3>1, MarkOwes
    <3> QED
      BY <1>3, <3>1, <3>2
  <2>3. CASE event.type \notin {"FOCUSED", "UNFOCUSED"}
    <3>1. h.res = "PROCESSED_CONTINUE_WITH_CHILDREN" /\ h.s = t
      BY <2>1, <2>3 DEF gui_element_plane_event_handler
    <3> QED
      BY <1>3, <1>4, <2>3, <3>1
  <2> QED
    BY <2>2, <2>3
<1>7. CASE e.handler # "plane"
  <2>1. SUFFICES Done(h)
    BY <1>1, <1>3, <1>7
  <2>2. CASE e.handler = "textfield"
    <3>1. h = gui_element_textfield_event_handler(t, event)
      BY <1>1, <1>3, <2>2 DEF event_handler
    <3>2. t.field.element # NULL
      BY <1>1, <1>2, <2>2 DEF WiredTo
    <3>3. PICK u, v : /\ u = gui_element_textfield_backspace(t)
                      /\ v = gui_element_textfield_put_char(t, event.value)
      OBVIOUS
    <3>4. Keeps(t, u) /\ Owes(t, u) /\ Keeps(t, v) /\ Owes(t, v)
      BY <1>5, <3>2, <3>3, PutOwes, BackspaceOwes
    <3>5. \/ h.res = "IGNORED" /\ h.s = t
          \/ h.res = "PROCESSED_CONTINUE_WITH_CHILDREN" /\ (h.s = u \/ h.s = v)
      BY <3>1, <3>3 DEF gui_element_textfield_event_handler
    <3> QED
      BY <1>4, <3>4, <3>5
  <2>3. CASE e.handler = "listarea"
    <3>1. h = gui_element_listarea_event_handler(t, event)
      BY <1>1, <1>3, <2>3 DEF event_handler
    <3>2. t.list.element # NULL
      BY <1>1, <1>2, <2>3 DEF WiredTo, NULL
    <3>3. PICK index : index = event.y \div gui_element_listarea_height_per_element
      OBVIOUS
    <3>4. index \in Int
      <4>1. gui_element_listarea_height_per_element \in Nat \ {0}
        BY TextfieldAssumption DEF gui_element_listarea_height_per_element
      <4> QED
        BY <1>5, <3>3, <4>1
    <3>5. PICK u : u = gui_element_listarea_select(t, index)
      OBVIOUS
    <3>6. Keeps(t, u) /\ Owes(t, u)
      BY <3>2, <3>4, <3>5, SelectOwes
    <3>7. h.res = "PROCESSED_CONTINUE_WITH_CHILDREN" /\ (h.s = t \/ h.s = u)
      BY <3>1, <3>3, <3>5 DEF gui_element_listarea_event_handler,
                              gui_element_listarea_event_handler_click
    <3> QED
      BY <1>4, <3>6, <3>7
  <2>4. CASE e.handler = "digit"
    <3>1. h = numerical_button_event_handler(t, event)
      BY <1>1, <1>3, <2>4 DEF event_handler
    <3>2. t.field.element # NULL /\ e.id \in 0..9
      BY <1>1, <1>2, <2>4 DEF WiredTo
    <3>3. Head(itoa(e.id)) = 48 + e.id /\ 48 + e.id \in Nat
      BY <3>2, ItoaIs
    <3>4. PICK u : u = gui_element_textfield_put_char(t, Head(itoa(e.id)))
      OBVIOUS
    <3>5. Keeps(t, u) /\ Owes(t, u)
      BY <3>2, <3>3, <3>4, PutOwes
    <3>6. \/ h.res = "IGNORED" /\ h.s = t
          \/ h.res = "PROCESSED_CONTINUE_WITH_CHILDREN" /\ h.s = u
      BY <1>1, <3>1, <3>4 DEF numerical_button_event_handler, OnClick
    <3> QED
      BY <1>4, <3>5, <3>6
  <2>5. CASE e.handler = "operation"
    <3>1. h = mathimatical_operation_button_event_handler(t, event)
      BY <1>1, <1>3, <2>5 DEF event_handler
    <3>2. /\ t.field.element # NULL /\ t.field.max_allowed_len > 1
          /\ e.id \in DOMAIN OperatorOf \cup {BUTTON_EQUALS}
      BY <1>1, <1>2, <2>5 DEF WiredTo
    <3>3. PICK u : u = IF e.id = BUTTON_EQUALS THEN calculator_equals(t)
                       ELSE gui_element_textfield_put_char(t, OperatorOf[e.id])
      OBVIOUS
    <3>4. Keeps(t, u) /\ Owes(t, u)
      <4>1. CASE e.id = BUTTON_EQUALS
        BY <3>2, <3>3, <4>1, EqualsOwes
      <4>2. CASE e.id # BUTTON_EQUALS
        <5>1. OperatorOf[e.id] \in Nat
          BY <3>2, <4>2, OperatorsOf
        <5> QED
          BY <3>2, <3>3, <4>2, <5>1, PutOwes
      <4> QED
        BY <4>1, <4>2
    <3>5. \/ h.res = "IGNORED" /\ h.s = t
          \/ h.res = "PROCESSED_CONTINUE_WITH_CHILDREN" /\ h.s = u
      BY <1>1, <3>1, <3>3 DEF mathimatical_operation_button_event_handler, OnClick
    <3> QED
      BY <1>4, <3>4, <3>5
  <2>6. CASE e.handler = "delete"
    <3>1. h = calculator_delete_button_event_handler(t, event)
      BY <1>1, <1>3, <2>6 DEF event_handler
    <3>2. t.field.element # NULL
      BY <1>1, <1>2, <2>6 DEF WiredTo
    <3>3. PICK u : u = calculator_reset(t)
      OBVIOUS
    <3>4. Keeps(t, u) /\ Owes(t, u)
      BY <3>2, <3>3, ResetOwes
    <3>5. \/ h.res = "IGNORED" /\ h.s = t
          \/ h.res = "PROCESSED_CONTINUE_WITH_CHILDREN" /\ h.s = u
      BY <3>1, <3>3 DEF calculator_delete_button_event_handler, OnClick
    <3> QED
      BY <1>4, <3>4, <3>5
  <2>7. CASE e.handler = "default"
    <3>1. h = gui_element_event_handler(t, event)
      BY <1>1, <1>3, <2>7 DEF event_handler
    <3>2. PICK u : u = gui_focus_on_element(t, i)
      OBVIOUS
    <3>3. Keeps(t, u) /\ Owes(t, u)
      BY <1>2, <3>2, FocusOwes
    <3>4. h.res = "IGNORED" /\ (h.s = t \/ h.s = u)
      BY <1>1, <3>1, <3>2 DEF gui_element_event_handler
    <3> QED
      BY <1>4, <3>3, <3>4
  <2> QED
    BY <1>2, <1>7, <2>2, <2>3, <2>4, <2>5, <2>6, <2>7 DEF ElementType, Handlers
<1> QED
  BY <1>6, <1>7

-----------------------------------------------------------------------------
(* Making elements *)

Root(x, y, width, height, handler, id) ==
    [parent |-> NULL, id |-> id, handler |-> handler, x |-> x, y |-> y,
     rel_root_x |-> 0, rel_root_y |-> 0, width |-> width, height |-> height,
     real_width |-> width, real_height |-> height, properties |-> <<>>, redraw |-> TRUE]

Cover(parent, x, y, width, height, handler, id) ==
    [parent |-> parent, id |-> id, handler |-> handler, x |-> x, y |-> y,
     rel_root_x |-> 0, rel_root_y |-> 0, width |-> width, height |-> height,
     real_width |-> width, real_height |-> height, properties |-> <<>>, redraw |-> TRUE]

WithElement(t, e) == [t EXCEPT !.elements = Append(t.elements, e), !.must_draw = TRUE]

Longer(t, u, e) ==
    /\ u.elements = Append(t.elements, e) /\ u.must_draw = TRUE
    /\ u.events = t.events /\ u.focused = t.focused /\ u.field = t.field
    /\ u.list = t.list /\ u.printed = t.printed /\ u.wild = t.wild
    /\ u.recycled = t.recycled

LEMMA GrownIs ==
    ASSUME NEW t, IsUi(t), NEW e \in ElementType,
           Stands(Append(t.elements, e), Len(t.elements) + 1)
    PROVE  LET u == WithElement(t, e) IN IsUi(u) /\ Longer(t, u, e)
<1>1. PICK u : u = WithElement(t, e)
  OBVIOUS
<1>2. PICK q, n : q = t.elements /\ n = Len(q)
  OBVIOUS
<1>3. t \in UiType /\ q \in Seq(ElementType) /\ n \in Nat
  BY <1>2 DEF IsUi, UiType
<1>4. PICK p : p = Append(q, e)
  OBVIOUS
<1>5. /\ p \in Seq(ElementType) /\ Len(p) = n + 1
      /\ \A i \in 1..n : p[i] = q[i]
  BY <1>2, <1>3, <1>4, AppendIs
<1>6. u = [t EXCEPT !.elements = p, !.must_draw = TRUE]
  BY <1>1, <1>2, <1>4 DEF WithElement
<1>7. /\ u \in UiType /\ u.elements = p /\ u.must_draw = TRUE
      /\ u.events = t.events /\ u.focused = t.focused /\ u.field = t.field
      /\ u.list = t.list /\ u.printed = t.printed /\ u.wild = t.wild
      /\ u.recycled = t.recycled
  BY ONLY <1>3, <1>5, <1>6 DEF UiType
<1>8. Tree(p)
  <2>1. ASSUME NEW i \in 1..n PROVE Stands(p, i)
    <3>1. Stands(q, i)
      BY <1>2 DEF IsUi, Tree
    <3>2. p[i] = q[i] /\ (i > 1 => p[i - 1] = q[i - 1])
      BY <1>3, <1>5
    <3> QED
      BY <3>1, <3>2 DEF Stands
  <2>2. Stands(p, n + 1)
    BY <1>2, <1>4
  <2>3. \A i \in 1..Len(p) : i \in 1..n \/ i = n + 1
    BY <1>3, <1>5
  <2> QED
    BY <2>1, <2>2, <2>3 DEF Tree
<1>9. IsUi(u)
  <2>1. EventsFor(t.events, n) /\ t.focused \in 0..n /\ t.field.element \in 0..n
        /\ t.list.element \in 0..n /\ (t.field.element # NULL => t.field.index < Len(t.field.text))
    BY <1>2 DEF IsUi
  <2>2. \A i \in 1..n : i \in 1..n + 1
    BY <1>3
  <2>3. \A i \in 0..n : i \in 0..n + 1
    BY <1>3
  <2>4. EventsFor(t.events, n + 1)
    BY <2>1, <2>2 DEF EventsFor
  <2> QED
    BY <1>5, <1>7, <1>8, <2>1, <2>3, <2>4 DEF IsUi
<1> QED
  BY <1>1, <1>2, <1>4, <1>7, <1>9 DEF Longer

PlacedType ==
    [parent : Nat, id : Int, handler : Handlers, x : Nat, y : Nat,
     rel_root_x : Nat, rel_root_y : Nat, width : Nat \ {0}, height : Nat \ {0},
     real_width : Nat, real_height : Nat, properties : Seq(Properties), redraw : BOOLEAN]

LEMMA MarkSet ==
    ASSUME NEW p \in PlacedType, NEW e \in ElementType,
           e.parent = p.parent, e.id = p.id, e.handler = p.handler, e.x = p.x, e.y = p.y,
           e.rel_root_x = p.rel_root_x, e.rel_root_y = p.rel_root_y, e.width = p.width,
           e.height = p.height, e.real_width = p.real_width,
           e.real_height = p.real_height, e.properties = p.properties
    PROVE  e = [p EXCEPT !.redraw = TRUE]
<1>1. PICK r : r = [p EXCEPT !.redraw = TRUE]
  OBVIOUS
<1>2. /\ r \in PlacedType
      /\ r.parent = p.parent /\ r.id = p.id /\ r.handler = p.handler /\ r.x = p.x /\ r.y = p.y
      /\ r.rel_root_x = p.rel_root_x /\ r.rel_root_y = p.rel_root_y /\ r.width = p.width
      /\ r.height = p.height /\ r.real_width = p.real_width
      /\ r.real_height = p.real_height /\ r.properties = p.properties /\ r.redraw = TRUE
  BY ONLY <1>1, p \in PlacedType DEF PlacedType
<1>3. e \in PlacedType /\ e.redraw = TRUE
  BY DEF ElementType, PlacedType
<1>4. e = r
  <2>1. /\ e.parent = r.parent /\ e.id = r.id /\ e.handler = r.handler /\ e.x = r.x
        /\ e.y = r.y /\ e.rel_root_x = r.rel_root_x /\ e.rel_root_y = r.rel_root_y
        /\ e.width = r.width /\ e.height = r.height /\ e.real_width = r.real_width
        /\ e.real_height = r.real_height /\ e.properties = r.properties
        /\ e.redraw = r.redraw
    BY <1>2, <1>3
  <2> QED
    BY ONLY <1>2, <1>3, <2>1, SMTT(30) DEF PlacedType
<1> QED
  BY <1>1, <1>4

LEMMA SamePlaced ==
    ASSUME NEW r \in PlacedType, NEW e \in PlacedType,
           e.parent = r.parent, e.id = r.id, e.handler = r.handler, e.x = r.x, e.y = r.y,
           e.rel_root_x = r.rel_root_x, e.rel_root_y = r.rel_root_y, e.width = r.width,
           e.height = r.height, e.real_width = r.real_width,
           e.real_height = r.real_height, e.properties = r.properties, e.redraw = r.redraw
    PROVE  e = r
BY SMTT(60) DEF PlacedType

LEMMA PlaceSet ==
    ASSUME NEW p \in PlacedType, NEW e \in PlacedType,
           e.parent = p.parent, e.id = p.id, e.handler = p.handler,
           e.width = p.width, e.height = p.height, e.properties = p.properties,
           e.redraw = p.redraw
    PROVE  [p EXCEPT !.x = e.x, !.y = e.y, !.rel_root_x = e.rel_root_x,
                     !.rel_root_y = e.rel_root_y, !.real_width = e.real_width,
                     !.real_height = e.real_height] = e
<1>1. PICK x, y, rx, ry, rw, rh :
         /\ x = e.x /\ y = e.y /\ rx = e.rel_root_x /\ ry = e.rel_root_y
         /\ rw = e.real_width /\ rh = e.real_height
  OBVIOUS
<1>2. x \in Nat /\ y \in Nat /\ rx \in Nat /\ ry \in Nat /\ rw \in Nat /\ rh \in Nat
  BY <1>1 DEF PlacedType
<1>3. PICK r : r = [p EXCEPT !.x = x, !.y = y, !.rel_root_x = rx, !.rel_root_y = ry,
                             !.real_width = rw, !.real_height = rh]
  OBVIOUS
<1>4. /\ r \in PlacedType
      /\ r.parent = p.parent /\ r.id = p.id /\ r.handler = p.handler /\ r.x = x /\ r.y = y
      /\ r.rel_root_x = rx /\ r.rel_root_y = ry /\ r.width = p.width
      /\ r.height = p.height /\ r.real_width = rw
      /\ r.real_height = rh /\ r.properties = p.properties /\ r.redraw = p.redraw
  BY ONLY <1>2, <1>3, p \in PlacedType DEF PlacedType
<1>5. e = r
  BY <1>1, <1>4, SamePlaced
<1> QED
  BY <1>1, <1>3, <1>5

LEMMA MarkedWhenMade ==
    ASSUME NEW t, t \in UiType, NEW placed, NEW e \in ElementType,
           e = [placed EXCEPT !.redraw = TRUE],
           placed \in PlacedType
    PROVE  gui_element_mark_for_redraw([t EXCEPT !.elements = Append(@, placed)],
                                       Len(t.elements) + 1) = WithElement(t, e)
<1>1. PICK q, n : q = t.elements /\ n = Len(q)
  OBVIOUS
<1>2. q \in Seq(ElementType) /\ n \in Nat
  BY <1>1 DEF UiType
<1>3. PICK p, r : p = Append(q, placed) /\ r = Append(q, e)
  OBVIOUS
<1>4. [p EXCEPT ![n + 1].redraw = TRUE] = r
  <2>1. p = [i \in 1..n + 1 |-> IF i = n + 1 THEN placed ELSE q[i]]
    BY <1>1, <1>2, <1>3
  <2>2. r = [i \in 1..n + 1 |-> IF i = n + 1 THEN e ELSE q[i]]
    BY <1>1, <1>2, <1>3
  <2>3. p[n + 1] = placed
    BY <1>2, <2>1
  <2>4. [p EXCEPT ![n + 1].redraw = TRUE] = [p EXCEPT ![n + 1] = e]
    BY <2>3
  <2> QED
    BY <1>2, <2>1, <2>2, <2>4
<1>5. PICK v : v = [t EXCEPT !.elements = p]
  OBVIOUS
<1>6. v \in [elements : {p}, events : Seq(EventType), focused : Nat,
             must_draw : BOOLEAN, field : FieldType, list : ListType,
             printed : Int, wild : BOOLEAN, recycled : Nat]
  BY ONLY <1>5, t \in UiType DEF UiType
<1>7. [v EXCEPT !.elements[n + 1].redraw = TRUE, !.must_draw = TRUE]
        = [t EXCEPT !.elements = r, !.must_draw = TRUE]
  <2>1. [v EXCEPT !.elements[n + 1].redraw = TRUE, !.must_draw = TRUE]
          = [v EXCEPT !.elements = r, !.must_draw = TRUE]
    BY <1>4, <1>6
  <2>2. [v EXCEPT !.elements = r, !.must_draw = TRUE]
          = [t EXCEPT !.elements = r, !.must_draw = TRUE]
    BY ONLY <1>5, t \in UiType DEF UiType
  <2> QED
    BY <2>1, <2>2
<1> QED
  BY <1>1, <1>3, <1>5, <1>7 DEF gui_element_mark_for_redraw, WithElement

LEMMA RootMade ==
    ASSUME NEW t, IsUi(t), NEW x \in Nat, NEW y \in Nat, NEW width \in Nat \ {0},
           NEW height \in Nat \ {0}, NEW handler \in Handlers, NEW id \in Int
    PROVE  LET u == gui_element_create(t, NULL, x, y, width, height, handler, id)
               e == Root(x, y, width, height, handler, id)
           IN  IsUi(u) /\ Longer(t, u, e) /\ e \in ElementType
<1>1. PICK e : e = Root(x, y, width, height, handler, id)
  OBVIOUS
<1>2. e \in ElementType
  <2>1. <<>> \in Seq(Properties) /\ NULL \in Nat
    BY DEF NULL
  <2> QED
    BY <1>1, <2>1 DEF Root, ElementType
<1>3. PICK placed : placed =
         [parent |-> NULL, id |-> id, handler |-> handler,
          x |-> x, y |-> y, rel_root_x |-> 0, rel_root_y |-> 0,
          width |-> width, height |-> height, real_width |-> width,
          real_height |-> height, properties |-> <<>>, redraw |-> FALSE]
  OBVIOUS
<1>4. /\ e = [placed EXCEPT !.redraw = TRUE]
      /\ placed \in PlacedType
  <2>1. <<>> \in Seq(Properties) /\ NULL \in Nat
    BY DEF NULL
  <2>2. placed \in PlacedType
    BY <1>3, <2>1 DEF PlacedType
  <2>3. /\ e.parent = placed.parent /\ e.id = placed.id /\ e.handler = placed.handler
        /\ e.x = placed.x /\ e.y = placed.y /\ e.rel_root_x = placed.rel_root_x
        /\ e.rel_root_y = placed.rel_root_y /\ e.width = placed.width
        /\ e.height = placed.height /\ e.real_width = placed.real_width
        /\ e.real_height = placed.real_height /\ e.properties = placed.properties
    BY <1>1, <1>3 DEF Root
  <2> QED
    BY ONLY <1>2, <2>2, <2>3, MarkSet
<1>5. t \in UiType /\ t.elements \in Seq(ElementType)
  BY DEF IsUi, UiType
<1>6. PICK u : u = gui_element_create(t, NULL, x, y, width, height, handler, id)
  OBVIOUS
<1>7. u = WithElement(t, e)
  <2>1. u = gui_element_mark_for_redraw([t EXCEPT !.elements = Append(@, placed)],
                                        Len(t.elements) + 1)
    BY <1>3, <1>6 DEF gui_element_create
  <2> QED
    BY <1>2, <1>4, <1>5, <2>1, MarkedWhenMade
<1>8. Stands(Append(t.elements, e), Len(t.elements) + 1)
  <2>1. Append(t.elements, e)[Len(t.elements) + 1] = e
    BY <1>2, <1>5
  <2>2. /\ e.rel_root_x = 0 /\ e.rel_root_y = 0 /\ e.parent = NULL
        /\ e.real_width = e.width /\ e.real_height = e.height
    BY <1>1 DEF Root
  <2> QED
    BY <2>1, <2>2 DEF Stands
<1>9. IsUi(u) /\ Longer(t, u, e)
  BY <1>2, <1>7, <1>8, GrownIs
<1> QED
  BY <1>1, <1>2, <1>6, <1>9

LEMMA CoverMade ==
    ASSUME NEW t, IsUi(t), NEW i \in Nat \ {0}, i = Len(t.elements),
           NEW p, p = t.elements[i], p.parent = NULL,
           NEW handler \in Handlers, NEW id \in Int
    PROVE  LET u == gui_element_create(t, i, 0, 0, p.width, p.height, handler, id)
               e == Cover(i, p.x, p.y, p.width, p.height, handler, id)
           IN  IsUi(u) /\ Longer(t, u, e) /\ e \in ElementType
<1>1. PICK e : e = Cover(i, p.x, p.y, p.width, p.height, handler, id)
  OBVIOUS
<1>2. p \in ElementType /\ Stands(t.elements, i)
  BY DEF IsUi, UiType, Tree
<1>3. /\ p.x \in Nat /\ p.y \in Nat /\ p.width \in Nat \ {0} /\ p.height \in Nat \ {0}
      /\ p.rel_root_x = 0 /\ p.rel_root_y = 0
      /\ p.real_width = p.width /\ p.real_height = p.height
  BY <1>2 DEF ElementType, Stands
<1>4. e \in ElementType
  <2>1. <<>> \in Seq(Properties)
    OBVIOUS
  <2> QED
    BY <1>1, <1>3, <2>1 DEF Cover, ElementType
<1>5. i # NULL /\ p.x + 0 = p.x /\ p.y + 0 = p.y
  BY <1>3 DEF NULL
<1>6. PICK placed : placed =
         [parent |-> i, id |-> id, handler |-> handler,
          x |-> p.x, y |-> p.y, rel_root_x |-> 0, rel_root_y |-> 0,
          width |-> p.width, height |-> p.height, real_width |-> p.width,
          real_height |-> p.height, properties |-> <<>>, redraw |-> FALSE]
  OBVIOUS
<1>7. /\ e = [placed EXCEPT !.redraw = TRUE]
      /\ placed \in PlacedType
  <2>1. <<>> \in Seq(Properties)
    OBVIOUS
  <2>2. placed \in PlacedType
    BY <1>3, <1>6, <2>1 DEF PlacedType
  <2>3. /\ e.parent = placed.parent /\ e.id = placed.id /\ e.handler = placed.handler
        /\ e.x = placed.x /\ e.y = placed.y /\ e.rel_root_x = placed.rel_root_x
        /\ e.rel_root_y = placed.rel_root_y /\ e.width = placed.width
        /\ e.height = placed.height /\ e.real_width = placed.real_width
        /\ e.real_height = placed.real_height /\ e.properties = placed.properties
    BY <1>1, <1>6 DEF Cover
  <2> QED
    BY ONLY <1>4, <2>2, <2>3, MarkSet
<1>8. t \in UiType /\ t.elements \in Seq(ElementType)
  BY DEF IsUi, UiType
<1>9. PICK u : u = gui_element_create(t, i, 0, 0, p.width, p.height, handler, id)
  OBVIOUS
<1>10. u = WithElement(t, e)
  <2>1. PICK element : element =
          [parent |-> i, id |-> id, handler |-> handler,
           x |-> 0, y |-> 0, rel_root_x |-> 0, rel_root_y |-> 0,
           width |-> p.width, height |-> p.height, real_width |-> p.width,
           real_height |-> p.height, properties |-> <<>>, redraw |-> FALSE]
    OBVIOUS
  <2>2. [element EXCEPT !.x = p.x + 0, !.y = p.y + 0,
                        !.rel_root_x = p.rel_root_x + 0, !.rel_root_y = p.rel_root_y + 0,
                        !.real_width = p.real_width, !.real_height = p.real_height] = placed
    <3>1. <<>> \in Seq(Properties)
      OBVIOUS
    <3>2. element \in PlacedType
      BY <1>3, <2>1, <3>1 DEF PlacedType
    <3>3. /\ placed.parent = element.parent /\ placed.id = element.id
          /\ placed.handler = element.handler /\ placed.width = element.width
          /\ placed.height = element.height /\ placed.properties = element.properties
          /\ placed.redraw = element.redraw
      BY <1>6, <2>1
    <3>4. /\ placed.x = p.x + 0 /\ placed.y = p.y + 0
          /\ placed.rel_root_x = p.rel_root_x + 0 /\ placed.rel_root_y = p.rel_root_y + 0
          /\ placed.real_width = p.real_width /\ placed.real_height = p.real_height
      BY <1>3, <1>5, <1>6
    <3>5. placed \in PlacedType
      BY <1>7
    <3> QED
      <4>1. [element EXCEPT !.x = placed.x, !.y = placed.y,
                            !.rel_root_x = placed.rel_root_x,
                            !.rel_root_y = placed.rel_root_y,
                            !.real_width = placed.real_width,
                            !.real_height = placed.real_height] = placed
        BY ONLY <3>2, <3>3, <3>5, PlaceSet
      <4> QED
        BY ONLY <3>4, <4>1, Zenon
  <2>3. u = gui_element_mark_for_redraw([t EXCEPT !.elements = Append(@, placed)],
                                        Len(t.elements) + 1)
    BY <1>5, <1>9, <2>1, <2>2 DEF gui_element_create
  <2> QED
    BY <1>4, <1>7, <1>8, <2>3, MarkedWhenMade
<1>11. Stands(Append(t.elements, e), i + 1)
  <2>1. PICK q : q = Append(t.elements, e)
    OBVIOUS
  <2>2. q[i + 1] = e /\ q[i] = p
    BY <1>4, <1>8, <2>1
  <2>3. /\ e.rel_root_x = 0 /\ e.rel_root_y = 0 /\ e.parent = i
        /\ e.real_width = e.width /\ e.real_height = e.height
    BY <1>1 DEF Cover
  <2>4. i + 1 > 1 /\ i + 1 - 1 = i
    OBVIOUS
  <2> QED
    BY <2>1, <2>2, <2>3, <2>4 DEF Stands
<1>12. IsUi(u) /\ Longer(t, u, e)
  BY <1>4, <1>10, <1>11, GrownIs
<1> QED
  BY <1>1, <1>4, <1>9, <1>12
=============================================================================
