SPECIFICATION Spec
CONSTANTS
  Admin = Admin
  Curator = Curator
  NoWallet = NoWallet
  None = None
  Posts = {p1}
  Wallets = {Admin, Curator}
  TOKEN_UNIT = 10
  MAX_SIGMOID_STEPS = 128
  U64Max = 2000000000
  MinBinId = 0
  MaxBinId = 2
  MIN_TRADE_AMOUNT = 50
  SIGMOID_BAND_BPS = 100
  RENT_EXEMPT_MINIMUM = 0
  Defaults <- MCDefaults
  Deployers = {Admin}
  Treasuries = {Admin}
  Curators = {Curator}
  InitParams <- MCInitParams
  ConfigUpdates = {}
  Statuses = {}
  Creators = {}
  PoolParams <- MCPoolParams
  ActiveBinIds = {None}
  BuyAmounts = {5, 200}
  SellAmounts = {97, 64}
  MinimumsOut = {0}
  BinParams <- ThreeBins
  LiquidityParams <- MCLiquidityParams
  GiftAmounts = {}
  MaxTrades = 4
  MaxTime = 1
  Claimants = {}
  MaxReserve = 300
  MaxGift = 0
INVARIANTS TypeOK SolCustody TokenCustody FeeLedger BinsBacked
PROPERTIES PhasesMoveForward BinValueKept ActiveBinFollows OnlyOpeningDrawsReserves StrandedForGood ResidueBlocksBuys
CHECK_DEADLOCK FALSE
