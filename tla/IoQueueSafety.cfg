\* Safety of one queue pair: three io_us on four slots, four identifiers.
SPECIFICATION Spec
CONSTANTS
  IoU = {u1, u2, u3}
  NoIoU = NoIoU
  CidCount = 4
  Requests <- AllKinds
  Calls <- LookOrWait
VIEW LiveState
SYMMETRY MCSymmetry
INVARIANTS
  TypeOK
  SqHasRoom
  CqNeverFull
  CidTracksCommand
  PhaseTagsExact
  ExitOnlyOnFailure
  PendingPageIntact
PROPERTIES
  KeepsContract
