------------------------------ MODULE Accounts ------------------------------
(***************************************************************************)
(* The accounts the program owns and the balances it moves.  An            *)
(* instruction is one atomic transaction: it reads these accounts, either  *)
(* fails and leaves all of them alone, or writes all its updates.          *)
(*                                                                         *)
(* An account that was never initialised is blank: the sets pools and bins *)
(* and the flag initialized say which accounts exist.                      *)
(***************************************************************************)
EXTENDS DlmmMath, FiniteSets

CONSTANTS
  Posts,               \* posts that can be tokenised, one pool PDA each
  Wallets,             \* keys that sign
  NoWallet,            \* Pubkey::default()
  None,                \* an Option that is None
  MinBinId, MaxBinId,  \* the range of an i32 bin id
  MIN_TRADE_AMOUNT,    \* constants.rs
  SIGMOID_BAND_BPS,    \* constants.rs
  RENT_EXEMPT_MINIMUM, \* least balance the ledger lets an account keep
  Defaults             \* the DEFAULT_... constants, by field name

ASSUME BinIdsAssumption ==
  /\ MinBinId \in Int
  /\ MaxBinId \in Int
  /\ MinBinId <= 0
  /\ 0 <= MaxBinId

ASSUME LimitsAssumption ==
  /\ MIN_TRADE_AMOUNT \in U64
  /\ SIGMOID_BAND_BPS \in U64
  /\ RENT_EXEMPT_MINIMUM \in Nat

ASSUME DefaultsAssumption ==
  /\ Defaults.floor_price \in U64
  /\ Defaults.cap_price \in U64
  /\ Defaults.pool_creation_fee \in U64
  /\ Defaults.duration \in Int
  /\ Defaults.max_buy \in U64
  /\ Defaults.token_supply \in U64
  /\ Defaults.steepness_bps \in U64
  /\ Defaults.supply_threshold_bps \in Nat
  /\ Defaults.min_sol_reserve \in U64
  /\ Defaults.bin_step_bps \in Nat

(* i64::MAX of a u64 of this width *)
I64Max == U64Max \div 2

BinIds == MinBinId..MaxBinId
BinKeys == Posts \X BinIds

PoolStatus == {"Active", "LaunchProtection", "Paused"}
PoolModel == {"SigmoidBootstrap", "MigrationPending", "DLMM"}

Config ==
  [admin: Wallets \cup {NoWallet}, treasury: Wallets \cup {NoWallet},
   is_paused: BOOLEAN, total_pools: U64, total_volume: Nat,
   total_fees_collected: Nat, default_sigmoid_floor_price: U64,
   default_sigmoid_cap_price: U64, pool_creation_fee: U64,
   launch_protection_duration: Int, max_buy_during_protection: U64]

Pool ==
  [curator: Wallets \cup {NoWallet}, creator: Wallets \cup {NoWallet},
   status: PoolStatus, model: PoolModel,
   liquidity_sol_reserve: U64, liquidity_token_reserve: U64,
   tokens_sold: U64, token_supply: U64,
   total_volume: Nat, total_fees: U64,
   unclaimed_creator_fees: U64, unclaimed_curator_fees: U64,
   unclaimed_growth_fees: U64,
   launch_protection_ends_at: Int]

MarketState ==
  [model: PoolModel, sigmoid: SigmoidConfig,
   supply_threshold_bps: Nat, min_sol_reserve: U64,
   bin_step_bps: Nat, active_bin_id: BinIds,
   allocated_token_liquidity: U64, allocated_sol_liquidity: U64,
   total_trade_volume: Nat, total_fees_earned: Nat,
   platform_fees_earned: Nat, creator_fees_earned: Nat,
   curator_fees_earned: Nat, growth_fees_earned: Nat,
   total_trades: U64, buy_trades: U64, sell_trades: U64, migrated_at: Int]

Bin == [price_lamports_per_token: U64, token_liquidity: U64, sol_liquidity: U64]

VARIABLES
  initialized,  \* the config account exists
  config,       \* Config
  pools,        \* posts with a pool, a market, a mint and a token vault
  pool,         \* Pool of each post
  market,       \* MarketState of each post
  bins,         \* <<post, bin_id>> of the initialised bins
  bin,          \* Bin of each key
  solVault,     \* lamports in each pool's SOL vault
  tokenVault,   \* tokens in each pool's token vault
  payouts,      \* history: lamports paid to wallets, by pool and by purpose
  gifts,        \* history: transfers into the vaults made outside the program
  now           \* unix_timestamp of the Clock sysvar

accounts == <<config, pool, market, bin>>
registry == <<initialized, pools, bins>>
balances == <<solVault, tokenVault, payouts, gifts>>
vars == <<initialized, config, pools, pool, market, bins, bin,
          solVault, tokenVault, payouts, gifts, now>>

Payouts == [creation: Nat, platform: Nat, creator: Nat, curator: Nat, growth: Nat]
Gifts == [sol: Nat, token: Nat]
-----------------------------------------------------------------------------
(* Helpers of the handlers. *)

unwrap_or(option, default) == IF option = None THEN default ELSE option

(* The u64 fields that the handlers update with checked arithmetic. *)
PoolFits(r) ==
  /\ r.liquidity_sol_reserve \in U64
  /\ r.liquidity_token_reserve \in U64
  /\ r.tokens_sold \in U64
  /\ r.total_fees \in U64
  /\ r.unclaimed_creator_fees \in U64
  /\ r.unclaimed_curator_fees \in U64
  /\ r.unclaimed_growth_fees \in U64

MarketFitsAnyBin(r) ==  \* mutant: the bin id is not checked
  /\ r.allocated_token_liquidity \in U64
  /\ r.allocated_sol_liquidity \in U64
  /\ r.total_trades \in U64
  /\ r.buy_trades \in U64
  /\ r.sell_trades \in U64

MarketFits(r) ==
  /\ r.active_bin_id \in BinIds
  /\ r.allocated_token_liquidity \in U64
  /\ r.allocated_sol_liquidity \in U64
  /\ r.total_trades \in U64
  /\ r.buy_trades \in U64
  /\ r.sell_trades \in U64

BinFits(r) ==
  /\ r.token_liquidity \in U64
  /\ r.sol_liquidity \in U64

(* The ledger's rule for a system account, which every SOL vault is: after *)
(* a transaction it is empty or holds the minimum, or the whole            *)
(* transaction fails.                                                      *)
RentExempt(lamports) == lamports = 0 \/ lamports >= RENT_EXEMPT_MINIMUM

migration_threshold_supply(m) ==
  (m.sigmoid.token_supply * m.supply_threshold_bps) \div BPS_DENOMINATOR

(* migration_conditions_met, of a pool record and its market record *)
MigrationConditionsMet(r, m) ==
  /\ r.tokens_sold >= migration_threshold_supply(m)
  /\ r.liquidity_sol_reserve >= m.min_sol_reserve

IsTradeable(r) == r.status \in {"Active", "LaunchProtection"}

(* Tokens of a pool outside its vault, whoever holds them. *)
Circulating(p) == pool[p].token_supply - tokenVault[p]

IsAdmin(w) == initialized /\ w = config.admin
IsCurator(w, p) == p \in pools /\ w = pool[p].curator
PauseIgnored == initialized  \* mutant: the flag is not looked at
NotPaused == initialized /\ ~config.is_paused
-----------------------------------------------------------------------------
BlankConfig ==
  [admin |-> NoWallet, treasury |-> NoWallet, is_paused |-> FALSE,
   total_pools |-> 0, total_volume |-> 0, total_fees_collected |-> 0,
   default_sigmoid_floor_price |-> 0, default_sigmoid_cap_price |-> 0,
   pool_creation_fee |-> 0, launch_protection_duration |-> 0,
   max_buy_during_protection |-> 0]

BlankPool ==
  [curator |-> NoWallet, creator |-> NoWallet,
   status |-> "Active", model |-> "SigmoidBootstrap",
   liquidity_sol_reserve |-> 0, liquidity_token_reserve |-> 0,
   tokens_sold |-> 0, token_supply |-> 0, total_volume |-> 0, total_fees |-> 0,
   unclaimed_creator_fees |-> 0, unclaimed_curator_fees |-> 0,
   unclaimed_growth_fees |-> 0, launch_protection_ends_at |-> 0]

BlankSigmoid ==
  [token_supply |-> 0, floor_price_lamports |-> 0, cap_price_lamports |-> 0,
   midpoint_supply |-> 0, steepness_bps |-> 0, band_bps |-> 0]

BlankMarket ==
  [model |-> "SigmoidBootstrap", sigmoid |-> BlankSigmoid,
   supply_threshold_bps |-> 0, min_sol_reserve |-> 0,
   bin_step_bps |-> 0, active_bin_id |-> 0,
   allocated_token_liquidity |-> 0, allocated_sol_liquidity |-> 0,
   total_trade_volume |-> 0, total_fees_earned |-> 0,
   platform_fees_earned |-> 0, creator_fees_earned |-> 0,
   curator_fees_earned |-> 0, growth_fees_earned |-> 0,
   total_trades |-> 0, buy_trades |-> 0, sell_trades |-> 0, migrated_at |-> 0]

BlankBin == [price_lamports_per_token |-> 0, token_liquidity |-> 0, sol_liquidity |-> 0]

NoPayouts == [creation |-> 0, platform |-> 0, creator |-> 0, curator |-> 0, growth |-> 0]

(* The program is deployed and nobody has called it. *)
Init ==
  /\ initialized = FALSE
  /\ config = BlankConfig
  /\ pools = {}
  /\ pool = [p \in Posts |-> BlankPool]
  /\ market = [p \in Posts |-> BlankMarket]
  /\ bins = {}
  /\ bin = [b \in BinKeys |-> BlankBin]
  /\ solVault = [p \in Posts |-> 0]
  /\ tokenVault = [p \in Posts |-> 0]
  /\ payouts = [p \in Posts |-> NoPayouts]
  /\ gifts = [p \in Posts |-> [sol |-> 0, token |-> 0]]
  /\ now = 0
=============================================================================
