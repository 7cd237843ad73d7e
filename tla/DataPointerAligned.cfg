\* Page-aligned buffers of one page and more.
SPECIFICATION PointerSpec
CONSTANTS
  PageSize = 4
  BlockSize = 2
  ListEntries = 4
  Depth = 2
  Requests <- Aligned
INVARIANTS
  TransfersBuffer
