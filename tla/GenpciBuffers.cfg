\* Two threads in alloc_dma and free_dma, and a forked child.
SPECIFICATION MCSpec
CONSTANTS
  Thread = {t1, t2}
  Entry = {e1, e2, e3}
SYMMETRY MCSymmetry
INVARIANTS
  RefsCountVmas
  ListHoldsAllocated
  OwnAddressUnlessRaced
