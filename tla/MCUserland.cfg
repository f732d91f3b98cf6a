SPECIFICATION MCSpec
CONSTANTS
  TEXTFIELD_DEFAULT_BUFFER_SIZE = 4
  CharHeight = 9
  INT_MAX = 31
  NumberRoom = 3
  WindowWidth = 400
  Programs = {"calculator", "blank", "form"}
  Pressed = {9, 1004, 1001, 1005, 1006, 1000}
  ListRows = {10, 13, 22, 30, 40}
  Keys = {65, 8}
  Junk = 90
  FormMax = 7
  Element = {1, 2, 3}
  Unwritten = Unwritten
  Reserved = 1
  MaxElems = 4
  Grown = {2}
CHECK_DEADLOCK FALSE
INVARIANTS
  TextIsWhatWasEntered
  WindowIsCurrent
  SelectionIsTold
  PixelsStayInBuffer
PROPERTIES
  EventsDrain
  ListSpec
  ReorderSorts
