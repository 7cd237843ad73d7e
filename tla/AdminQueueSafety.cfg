\* Rings of three entries, seven commands, one restart.
SPECIFICATION Spec
CONSTANTS
  Depth = 3
  MaxCommands = 7
  MaxStarts = 2
INVARIANTS
  SuccessMeansDone
  NothingOverwritten
PROPERTIES
  KeepsChannel
