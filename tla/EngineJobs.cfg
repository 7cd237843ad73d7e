\* Three jobs under fair scheduling; queue identifiers wrap around.
SPECIFICATION MCSpec
CONSTANTS
  Job = {j1, j2, j3}
  NoJob = NoJob
  QidSpan = 3
INVARIANTS
  TypeOK
  ControllerAlive
  RunningHasQueues
  QidsFresh
  RingMemoryKept
  DataReleased
  BlockSizeKnown
  ControllerReleased

  
