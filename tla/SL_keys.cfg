CONSTANTS
  Char = {"[", "A", "B"}
  Silent = {"ctrl_u"}
  History = 2
  MaxLine = 2
  Prompt = Prompt
SPECIFICATION Spec
INVARIANTS TypeOK EscapeEnds ScreenShowsLine
PROPERTIES KeepsLog ArrowsMove
