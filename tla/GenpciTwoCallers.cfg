\* Two threads in alloc_dma at the same time.
SPECIFICATION MCSpec
CONSTANTS
  Thread = {t1, t2}
  Entry = {e1, e2}
SYMMETRY MCSymmetry
INVARIANTS
  OwnAddress
