CONSTANTS
  FileLimit           = 2
  JsonLimit           = 0
  TemplateLimit       = 1
  MaxSize             = 3
  MaxLayers           = 2
  Cores               = 4
  MaxConcurrentBlocks = 6
  MaxPages            = 9
  MaxBlockSize        = 3
SPECIFICATION FairSpec
INVARIANTS TemplateComesBack OnlyPostedAnchorsStay OnlyPlainIsProcessed LimitIsOnDecoded OnlyRefusedBodyStays EveryPageOnce
PROPERTY UploadEnds
CHECK_DEADLOCK FALSE
