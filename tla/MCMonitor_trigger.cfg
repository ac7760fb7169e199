\* Is a poll really started by an accepted request?
SPECIFICATION LoopSpec
CONSTANTS
  c1 = c1
  c2 = c2
  c3 = c3
  Callers = {c1, c2, c3}
SYMMETRY CallerSymmetry
INVARIANT NoRequestLostToRollup
CHECK_DEADLOCK FALSE
