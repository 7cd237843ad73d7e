\* Fields at and beyond their limits, an unsigned long of 20 bits, three starts.
SPECIFICATION StartupSpec
CONSTANTS
  MaxInits = 3
  Timeout = 2
  Filename <- MCFilename
  UlongSpan = 1048576
  Function <- MCFunction
INVARIANTS
  QueuesAllocated
  DownMeansReleased
  
  DrivesNamedFunction
PROPERTIES
  InitMeansReadyUnlessHalfway
  QueuesSetWhileOff
  CallsReturn
