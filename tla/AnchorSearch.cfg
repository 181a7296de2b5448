CONSTANTS
  Anchors       = 2
  InitialAngle <- Tilted
  HalfBreadth   = 16
  MaxQuality    = 26
  MinConfidence = 20
  Epsilon       = 4
  MaxIterations = 7
  Spacings     <- FineAndCoarse
  MaxSkew       = 36
  Far           = 80
  Falloffs     <- SomeFalloffs
  Powers       <- PowersOfTwo
SPECIFICATION Spec
INVARIANTS NoFalseRefusal FoundIsClose EndsInTime
CHECK_DEADLOCK FALSE
