CONSTANTS
  Tasks     = {t1, t2}
  Saver     = Saver
  Pages     = 2
  MaxScans  = 2
  MaxFaults = 1
SYMMETRY Symmetry
SPECIFICATION Spec
INVARIANTS SavedIsIntact RemovedIsGone LoadedIsWhole FailedSaveLeavesOneFile
CHECK_DEADLOCK FALSE
