\* Three functions.
SPECIFICATION DevicesSpec
CONSTANTS
  Fn = {f1, f2, f3}
  Module = Module
  NoFn = NoFn
SYMMETRY MCSymmetry
INVARIANTS
  AllOrNothing
  NumbersDistinct
  ClassOutlivesDevices
  
