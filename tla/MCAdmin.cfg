SPECIFICATION Spec
CONSTANTS
  Admin = Admin
  Curator = Curator
  NoWallet = NoWallet
  None = None
  Posts = {p1}
  Wallets = {Admin, Curator}
  TOKEN_UNIT = 10
  MAX_SIGMOID_STEPS = 128
  U64Max = 2000000000
  MinBinId = 0
  MaxBinId = 2
  MIN_TRADE_AMOUNT = 50
  SIGMOID_BAND_BPS = 100
  RENT_EXEMPT_MINIMUM = 0
  Defaults <- MCDefaults
  Deployers = {Admin}
  Treasuries = {Admin}
  Curators = {Curator}
  InitParams <- MCInitParams
  ConfigUpdates <- MCConfigUpdates
  Statuses = {"Active", "LaunchProtection", "Paused"}
  Creators = {Admin}
  PoolParams <- MCPoolParams
  ActiveBinIds = {None}
  BuyAmounts = {100, 200}
  SellAmounts = {60}
  MinimumsOut = {0}
  BinParams <- MCBinParams
  LiquidityParams = {}
  Claimants = {Curator}
  GiftAmounts = {}
  MaxTrades = 3
  MaxTime = 2
  MaxReserve = 0
  MaxGift = 0
INVARIANT PriceBandSane
PROPERTIES LaunchGuard PauseHolds
CHECK_DEADLOCK FALSE
