SPECIFICATION Spec
CONSTANTS
  Admin = Admin
  Curator = Curator
  NoWallet = NoWallet
  None = None
  Posts = {p1}
  Wallets = {Admin, Curator}
  TOKEN_UNIT = 10
  MAX_SIGMOID_STEPS = 128
  U64Max = 2000000000
  MinBinId = 0
  MaxBinId = 100
  MIN_TRADE_AMOUNT = 100
  SIGMOID_BAND_BPS = 100
  RENT_EXEMPT_MINIMUM = 0
  Defaults <- MCDefaults
  Deployers = {Admin}
  Treasuries = {Admin}
  Curators = {Curator}
  InitParams <- MCInitParams
  ConfigUpdates = {}
  Statuses = {}
  Creators = {Curator}
  PoolParams <- MCPoolParams
  ActiveBinIds = {None}
  BuyAmounts = {777, 60000, 250000}
  SellAmounts = {150, 1999}
  MinimumsOut = {0}
  BinParams = {}
  LiquidityParams = {}
  GiftAmounts = {}
  MaxTrades = 4
  MaxTime = 1
  Claimants = {Admin, Curator}
  MaxReserve = 0
  MaxGift = 1
INVARIANTS SolCustody FeeLedger Lifecycle FullExitBacked
PROPERTY BuyerNeverOvercharged
CHECK_DEADLOCK FALSE
