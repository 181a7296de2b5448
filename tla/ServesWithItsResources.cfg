CONSTANTS
  Requests = {r1}
  Clients  = {c1}
  Ids      = {i1}
  Items    = 1
  MaxAge   = 1
  Unset    = Unset
SPECIFICATION ServerSpec
INVARIANT ServesWithItsResources
CHECK_DEADLOCK FALSE
