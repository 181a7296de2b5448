CONSTANTS
  Questions  = {q1, q2}
  Ids        = {b1, b2}
  Pages      = 2
  Width      = 3
  Height     = 3
  Diameter   = 2
  Disc      <- MCDisc
  MaxWhite   = 3
  MaxBubbles = 3
  MaxInk     = 1
  MaxScans   = 2
SYMMETRY Symmetry
SPECIFICATION Spec
INVARIANTS AnswersAreThePages MatricesAreClosed
CHECK_DEADLOCK FALSE
