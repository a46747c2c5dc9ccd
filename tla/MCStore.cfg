CONSTANTS
  Programs = {p1, p2}
  Order <- MCOrder
  Texts = {t1, t2}
  Null = Null
  NoRow = NoRow
  MaxCalls = 3
SYMMETRY MCSymmetry
SPECIFICATION Spec
\* The calls are used up.
CHECK_DEADLOCK FALSE
INVARIANTS
  RowsOfOneState
PROPERTY
  WritesAreAtomic
