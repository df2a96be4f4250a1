\* Texts of up to two letters.
SPECIFICATION Spec
CONSTANTS
  Chars = {"a", "b"}
  MaxLen = 2
  MaxPieces = 1
  MaxChanges = 2
PROPERTY ReplacesTheComposed
CHECK_DEADLOCK FALSE
