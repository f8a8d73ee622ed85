----------------------------- MODULE RedCircle -----------------------------
(***************************************************************************)
(* The whole program: every instruction of lib.rs, submitted by anybody    *)
(* who may sign it, in any order, against any number of pools, with the    *)
(* clock and transfers from outside in between.                            *)
(***************************************************************************)
EXTENDS ConfigAdmin, PoolSetup, SigmoidMarket, DlmmMarket, FeeClaims, FiniteSetsExt

CONSTANTS
  Deployers,       \* wallets that may call initialize first
  Treasuries,      \* treasuries it may name
  Curators,        \* wallets that create pools
  InitParams,      \* arguments of initialize
  ConfigUpdates,   \* arguments of update_config
  Statuses,        \* statuses the admin sets
  Creators,        \* wallets verified as creators
  PoolParams,      \* arguments of create_pool
  ActiveBinIds,    \* arguments of migrate_pool (an id, or None)
  BuyAmounts,      \* lamports offered
  SellAmounts,     \* tokens offered
  MinimumsOut,     \* slippage limits
  BinParams,       \* arguments of init_bin
  LiquidityParams, \* arguments of add_liquidity and remove_liquidity
  Claimants,       \* wallets that claim fees
  GiftAmounts,     \* transfers into a vault from outside
  MaxTrades,       \* bound: trades of one pool
  MaxTime,         \* bound: the clock
  MaxReserve,      \* bound: the SOL reserve that liquidity is added to
  MaxGift          \* bound: what a vault receives from outside

Optional(x, S) == x = None \/ x \in S

ASSUME WalletsAssumption ==
  /\ Deployers \subseteq Wallets
  /\ Treasuries \subseteq Wallets
  /\ Curators \subseteq Wallets
  /\ Creators \subseteq Wallets
  /\ Claimants \subseteq Wallets
  /\ Statuses \subseteq PoolStatus

ASSUME InitParamsAssumption ==
  \A x \in InitParams :
    /\ Optional(x.floor_price, U64)
    /\ Optional(x.cap_price, U64)
    /\ Optional(x.pool_creation_fee, U64)
    /\ Optional(x.duration, Int)
    /\ Optional(x.max_buy, U64)

ASSUME ConfigUpdatesAssumption ==
  \A x \in ConfigUpdates :
    /\ Optional(x.admin, Wallets)
    /\ Optional(x.treasury, Wallets)
    /\ Optional(x.is_paused, BOOLEAN)
    /\ Optional(x.floor_price, U64)
    /\ Optional(x.cap_price, U64)
    /\ Optional(x.pool_creation_fee, U64)
    /\ Optional(x.duration, Int)
    /\ Optional(x.max_buy, U64)

ASSUME PoolParamsAssumption ==
  \A x \in PoolParams :
    /\ Optional(x.token_supply, U64)
    /\ Optional(x.floor_price, U64)
    /\ Optional(x.cap_price, U64)
    /\ Optional(x.midpoint_supply, U64)
    /\ Optional(x.steepness_bps, U64)
    /\ Optional(x.supply_threshold_bps, Nat)
    /\ Optional(x.min_sol_reserve, U64)
    /\ Optional(x.bin_step_bps, Nat)

ASSUME AmountsAssumption ==
  /\ BuyAmounts \subseteq U64
  /\ SellAmounts \subseteq U64
  /\ MinimumsOut \subseteq U64
  /\ GiftAmounts \subseteq Nat
  /\ \A id \in ActiveBinIds : Optional(id, BinIds)

ASSUME LiquidityAssumption ==
  /\ \A x \in BinParams :
       /\ x.bin_id \in BinIds
       /\ x.price_lamports_per_token \in U64
       /\ x.token_liquidity \in U64
       /\ x.sol_liquidity \in U64
  /\ \A x \in LiquidityParams : x.token_amount \in U64 /\ x.sol_amount \in U64

(* One second passes, or more: validators only move the clock forward. *)
Tick ==
  /\ now < MaxTime
  /\ now' = now + 1
  /\ UNCHANGED <<registry, accounts, balances>>

(* Anybody may send lamports to a vault's address, before the pool exists  *)
(* as well as after; the program does not see it happen.                   *)
GiftSol(p, amount) ==
  /\ gifts[p].sol + amount <= MaxGift
  /\ RentExempt(solVault[p] + amount)
  /\ solVault' = [solVault EXCEPT ![p] = @ + amount]
  /\ gifts' = [gifts EXCEPT ![p].sol = @ + amount]
  /\ UNCHANGED <<registry, accounts, tokenVault, payouts, now>>

GiftTokens(p, amount) ==
  /\ gifts[p].token + amount <= MaxGift
  /\ amount <= Circulating(p)
  /\ tokenVault' = [tokenVault EXCEPT ![p] = @ + amount]
  /\ gifts' = [gifts EXCEPT ![p].token = @ + amount]
  /\ UNCHANGED <<registry, accounts, solVault, payouts, now>>

AdminStep ==
  \/ \E w \in Deployers, t \in Treasuries, params \in InitParams :
       Initialize(w, t, params)
  \/ \E w \in Wallets, u \in ConfigUpdates : UpdateConfig(w, u)
  \/ \E w \in Wallets, p \in Posts, s \in Statuses : SetPoolStatus(w, p, s)
  \/ \E w \in Wallets, p \in Posts, c \in Creators : SetCreator(w, p, c)

SetupStep ==
  \E p \in Posts :
    \/ \E w \in Curators, params \in PoolParams : CreatePool(w, p, params)
    \/ \E w \in Wallets, id \in ActiveBinIds, enforce \in BOOLEAN :
         MigratePool(w, p, id, enforce)

TradeStep ==
  \E p \in Posts, minimum \in MinimumsOut :
    /\ market[p].total_trades < MaxTrades
    /\ \/ \E a \in BuyAmounts : SigmoidBuy(p, a, minimum)
       \/ \E a \in SellAmounts : SigmoidSell(p, a, minimum)
       \/ \E b \in bins, a \in BuyAmounts : DlmmBuy(p, b, a, minimum)
       \/ \E b \in bins, a \in SellAmounts : DlmmSell(p, b, a, minimum)

LiquidityStep ==
  \E w \in Wallets, p \in Posts :
    \/ \E params \in BinParams : InitBin(w, p, params)
    \/ \E b \in bins, l \in LiquidityParams :
         \/ /\ pool[p].liquidity_sol_reserve + l.sol_amount <= MaxReserve
            /\ AddLiquidity(w, p, b, l.token_amount, l.sol_amount)
         \/ RemoveLiquidity(w, p, b, l.token_amount, l.sol_amount)

ClaimStep ==
  \E w \in Claimants, p \in Posts :
    \/ ClaimCreatorFees(w, p)
    \/ ClaimCuratorFees(w, p)
    \/ ClaimGrowthFees(w, p)

WorldStep ==
  \/ Tick
  \/ \E p \in Posts, a \in GiftAmounts : GiftSol(p, a)
  \/ \E p \in Posts, a \in GiftAmounts : GiftTokens(p, a)

Next ==
  \/ AdminStep
  \/ SetupStep
  \/ TradeStep
  \/ LiquidityStep
  \/ ClaimStep
  \/ WorldStep

Spec == Init /\ [][Next]_vars
=============================================================================
