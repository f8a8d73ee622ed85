SPECIFICATION ClientSpec
CONSTANTS
  Admin = Admin
  Curator = Curator
  NoWallet = NoWallet
  None = None
  Posts = {p1}
  Wallets = {Admin, Curator}
  TOKEN_UNIT = 10
  MAX_SIGMOID_STEPS = 128
  U64Max = 2000000000
  MinBinId = 0
  MaxBinId = 2
  MIN_TRADE_AMOUNT = 50
  SIGMOID_BAND_BPS = 100
  RENT_EXEMPT_MINIMUM = 0
  Defaults <- MCDefaults
  Deployers = {Admin}
  Treasuries = {Admin}
  Curators = {Curator}
  InitParams <- MCInitParams
  ConfigUpdates <- MCConfigUpdates
  Statuses = {}
  Creators = {}
  PoolParams <- MCPoolParams
  ActiveBinIds = {1}
  BuyAmounts = {200}
  SellAmounts = {97}
  MinimumsOut = {0}
  BinParams <- MCBinParams
  LiquidityParams = {}
  GiftAmounts = {}
  MaxTrades = 3
  MaxTime = 0
  Claimants = {}
  MaxReserve = 300
  MaxGift = 0
  ClientBuys = {200}
  ClientSells = {97}
  Tolerances = {0, 10000}
  MaxOrders = 2
INVARIANT FreshSwapAccepted
PROPERTIES CurveQuoteKept BinQuoteKept QuotedPhaseKept
CHECK_DEADLOCK FALSE
