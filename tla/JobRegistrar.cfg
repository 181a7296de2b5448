CONSTANTS
  Requests = {r1, r2}
  Clients  = {c1}
  Ids      = {i1, i2}
  Items    = 2
  MaxAge   = 1
  Unset    = Unset
SYMMETRY Symmetry
SPECIFICATION Spec
INVARIANTS TypeOK ResultsMatchJobs ResultIsOwn AnsweredIsResolved
PROPERTIES ProgressNeverRegresses AnswersNeverRegress Lifecycle
CHECK_DEADLOCK FALSE
