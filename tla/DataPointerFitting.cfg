\* Buffers that start inside a page or stay within one, with lists that fit.
SPECIFICATION PointerSpec
CONSTANTS
  PageSize = 4
  BlockSize = 2
  ListEntries = 4
  Depth = 2
  Requests <- Fitting
INVARIANTS
  TransfersBuffer
  TrimsRanges
