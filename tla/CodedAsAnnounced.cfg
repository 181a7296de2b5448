CONSTANTS
  FileLimit           = 2
  JsonLimit           = 0
  TemplateLimit       = 1
  MaxSize             = 3
  MaxLayers           = 2
  Cores               = 4
  MaxConcurrentBlocks = 6
  MaxPages            = 9
  MaxBlockSize        = 3
SPECIFICATION Spec
INVARIANT CodedAsAnnounced
CHECK_DEADLOCK FALSE
