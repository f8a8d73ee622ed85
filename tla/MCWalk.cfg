SPECIFICATION Spec
CONSTANTS
  TOKEN_UNIT = 10
  MAX_SIGMOID_STEPS = 128
  U64Max = 20150
  Curves <- MCCurves
  Supplies = {0, 7, 10, 89, 90, 150, 190, 1000, 1003, 1005, 4999, 19999}
  Amounts = {0, 1, 7, 90, 130, 189, 1003, 4999, 20100}
INVARIANTS TypeOK FairlyPriced BuyLoop SellLoop
PROPERTIES SalesAreQuoted BuysAreFilled
CHECK_DEADLOCK FALSE
