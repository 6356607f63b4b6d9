SPECIFICATION TPSpec
CONSTANTS
  Callers = {c1, c2}
  Workers = {w1, w2}
  NoOne = none
  Structured = FALSE
  MaxAdds = 4
  MaxThrows = 2
SYMMETRY PoolSymmetry
INVARIANT PoolSafe
PROPERTY WaitsMean
CHECK_DEADLOCK FALSE
