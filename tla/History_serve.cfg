SPECIFICATION Spec
CONSTANTS
  p1 = p1
  p2 = p2
  p3 = p3
  Prompts = {p1, p2, p3}
  Legacy <- Greeted
  Keep = 1
  PageLimit = 3
  MaxTexts = 2
  MaxWipes = 1
SYMMETRY Symmetry
INVARIANTS
  ServedOnce
  RecentStayVerbatim
CHECK_DEADLOCK FALSE
