SPECIFICATION Spec
CONSTANTS
  t1 = t1
  u = u
  f1 = f1
  f2 = f2
  Clients = {t1, u}
  May <- MayTurn
  Files = {f1, f2}
  Faults <- ErrorsAndSleep
  MaxOps = 6
  MaxFaults = 2
INVARIANTS
  UploadsAreDurable
  UnsavedWritesAreMarked
PROPERTIES
  R2NeverRegresses
  DiskNeverRegresses
  CommandsSeeWorkspace
  CopiesAreCurrent
SYMMETRY FileSymmetry
CHECK_DEADLOCK FALSE
