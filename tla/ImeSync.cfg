\* Texts of up to three letters; edits by peers in up to three pieces.
SPECIFICATION Spec
CONSTANTS
  Chars = {"a", "b"}
  MaxLen = 3
  MaxPieces = 3
  MaxChanges = 2
INVARIANT Converged
PROPERTY ApartWhileComposing
CHECK_DEADLOCK FALSE
