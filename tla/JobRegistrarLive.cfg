CONSTANTS
  Requests = {r1, r2}
  Clients  = {}
  Ids      = {i1, i2}
  Items    = 1
  MaxAge   = 1
  Unset    = Unset
SPECIFICATION FairSpec
PROPERTIES JobsAreForgotten AcceptedIsResolved
CHECK_DEADLOCK FALSE
