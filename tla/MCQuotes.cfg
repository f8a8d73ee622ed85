SPECIFICATION Sweep
CONSTANTS
  TOKEN_UNIT = 10
  MAX_SIGMOID_STEPS = 128
  U64Max = 300000
  Curves <- MCCurves
  Spends = {1, 97, 5820, 242500}
  Sales = {1, 150, 201, 5003}
  Samples = 540
INVARIANTS ProgramQuotesAsSdk SdkQuotesAsProgram BuySpendsTheBudget SplitBuyGetsNoMore SellIsSumOfBands SplitSalePaysNoMore RoundTripBacked
CHECK_DEADLOCK FALSE
