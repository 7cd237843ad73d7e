\* The page of an executing command, two io_us on three slots.
SPECIFICATION Spec
CONSTANTS
  IoU = {u1, u2}
  NoIoU = NoIoU
  CidCount = 5
  Requests <- ListUsers
  Calls <- OneCall
VIEW LiveState
SYMMETRY MCSymmetry
INVARIANTS
  ListPageIntact
