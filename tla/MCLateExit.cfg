SPECIFICATION Spec
CONSTANTS
  Admin = Admin
  Curator = Curator
  NoWallet = NoWallet
  None = None
  Posts = {p1}
  Wallets = {Admin, Curator}
  TOKEN_UNIT = 10
  MAX_SIGMOID_STEPS = 128
  U64Max = 2000000000
  MinBinId = 0
  MaxBinId = 100
  MIN_TRADE_AMOUNT = 100
  SIGMOID_BAND_BPS = 100
  RENT_EXEMPT_MINIMUM = 0
  Defaults <- MCDefaults
  Deployers = {Admin}
  Treasuries = {Admin}
  Curators = {Curator}
  InitParams <- MCInitParams
  ConfigUpdates = {}
  Statuses = {}
  Creators = {}
  PoolParams <- WholeCurve
  ActiveBinIds = {None}
  BuyAmounts = {300000, 4314000, 5491317}
  SellAmounts = {}
  MinimumsOut = {0}
  BinParams = {}
  LiquidityParams = {}
  GiftAmounts = {}
  MaxTrades = 3
  MaxTime = 1
  Claimants = {}
  MaxReserve = 0
  MaxGift = 1
INVARIANT FullExitBacked
CHECK_DEADLOCK FALSE
