SPECIFICATION Spec
SYMMETRY Symmetry
CONSTANTS
  s1 = s1
  s2 = s2
  n1 = n1
  n2 = n2
  Sessions = {s1, s2}
  Names = {n1, n2}
  MaxMemories = 1
  MaxAttachAttempts = 1
  MaxText = 1
  MaxTurns = 2
  MaxAsks = 1
  Budgets <- SmallBudgets
INVARIANTS
  ResumeShowsOwnSession
  
  
  ReadYourWrites
CHECK_DEADLOCK FALSE
