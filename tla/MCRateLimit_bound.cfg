SPECIFICATION Spec
CONSTANTS
  IPs = {a}
  Callers = {c1, c2}
  NoIP = NoIP
  Cost = 2
  Rps = 3
  Skew = 1
  Idle = 8
  MaxClock = 11
SYMMETRY Symmetry
INVARIANTS TypeOK RateBound
PROPERTIES DenialDeserved
CHECK_DEADLOCK FALSE
