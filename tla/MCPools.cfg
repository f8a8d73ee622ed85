SPECIFICATION Spec
SYMMETRY PostSymmetry
CONSTANTS
  Admin = Admin
  Curator = Curator
  NoWallet = NoWallet
  None = None
  Posts = {p1, p2}
  Wallets = {Admin, Curator}
  TOKEN_UNIT = 10
  MAX_SIGMOID_STEPS = 128
  U64Max = 2000000000
  MinBinId = 0
  MaxBinId = 2
  MIN_TRADE_AMOUNT = 50
  SIGMOID_BAND_BPS = 100
  RENT_EXEMPT_MINIMUM = 0
  Defaults <- MCDefaults
  Deployers = {Admin}
  Treasuries = {Admin}
  Curators = {Curator}
  InitParams <- MCInitParams
  ConfigUpdates = {}
  Statuses = {}
  Creators = {}
  PoolParams <- MCPoolParams
  ActiveBinIds = {1}
  BuyAmounts = {200}
  SellAmounts = {97}
  MinimumsOut = {0}
  BinParams <- TwoBins
  LiquidityParams <- TwoSided
  GiftAmounts = {1}
  MaxTrades = 4
  MaxTime = 0
  Claimants = {Curator}
  MaxReserve = 300
  MaxGift = 1
INVARIANT TotalsAddUp
PROPERTIES PoolsIsolated ImplementsIdeal
CHECK_DEADLOCK FALSE
