CONSTANTS
  NumDesc = 3
  Lens = {0, 1, 2}
  MaxOffset = 2
  MaxCount = 3
  SectorSize = 2
  HdrSize = 1
  IdSize = 2
  WireNumDesc = 2
  WireUnit = 6
  P9_EPROTO = 71
SPECIFICATION Spec
INVARIANT RwSizeMatchesReference
INVARIANT ScatterGatherTotality
INVARIANT BlockRequestServed
INVARIANT NinePRequestAnswered
INVARIANT NinePReplyFramed
