SPECIFICATION Spec
CONSTANTS
  Threads = {t1, t2, t3}
  Nobody = Nobody
  Garbage = Garbage
  Width = 3
  MaxCalls = 4
  MaxGeneration = 4
  Clocks <- Times
  Delays = {0, 1, 600, 999, 1000, 2500}
  Codes = {0, 3}
  Errors = {2, 12}
  MaxExecs = 3
  p1 = p1
  p2 = p2
  Objects = {p1, p2}
  MaxStarts = 2
SYMMETRY Symmetry
INVARIANTS TypeOK Guarded Accounted
CHECK_DEADLOCK FALSE
