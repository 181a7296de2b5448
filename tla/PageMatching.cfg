CONSTANTS
  Pages      = 3
  MaxMatches = 5
SPECIFICATION Spec
INVARIANTS LocationsAreThePages OthersLieAsScanned OrderIsKept SeparableIsFound
CHECK_DEADLOCK FALSE
