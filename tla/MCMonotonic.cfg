SPECIFICATION Sweep
CONSTANTS
  TOKEN_UNIT = 10
  MAX_SIGMOID_STEPS = 128
  U64Max = 2000000000
  Curves <- DefaultCurve
  Spends = {1}
  Sales = {1}
  Samples = 20000
INVARIANT PriceMonotonic
CHECK_DEADLOCK FALSE
