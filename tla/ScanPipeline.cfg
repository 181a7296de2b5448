CONSTANTS
  d1 = d1
  d2 = d2
  Docs <- TwoDocs
  Blocks <- TwoEach
  Workers = {w1, w2}
  None = None
SPECIFICATION FairSpec
INVARIANTS ExamsConserved ClosedAfterLastSend AnswerIsComplete UsedWhileOpen
PROPERTIES HandlerReturns RenderersEnd MatricesEnd
CHECK_DEADLOCK FALSE
