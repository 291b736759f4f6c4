SPECIFICATION Spec
CONSTANTS
  Symbols <- MCSymbols
  Texts <- MCTexts
  MaxPiece = 3
  Stops <- MCStops
  ThinkOpen <- Open
  ThinkClose <- Close
  ToolOpen <- Call
  ToolClose <- CallEnd
  FunctionOpen = "F"
INVARIANTS
  ShownIsFinal
  WholeAtEnd
  BatchAgrees
CHECK_DEADLOCK FALSE
