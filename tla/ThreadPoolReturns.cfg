SPECIFICATION TPFairSpec
CONSTANTS
  Callers = {c1}
  Workers = {w1, w2}
  NoOne = none
  Structured = TRUE
  MaxAdds = 3
  MaxThrows = 1
PROPERTY CallsReturn
CHECK_DEADLOCK FALSE
