------------------------------ MODULE Trading ------------------------------
(***************************************************************************)
(* What the four swaps share (instructions/swap.rs): the checks of         *)
(* swap_handler before it dispatches, the transfers of SOL and tokens      *)
(* between the trader, the vaults and the treasury, and the statistics     *)
(* kept in the pool, the market and the config.                            *)
(***************************************************************************)
EXTENDS Accounts

ProtectedThroughEnd(p) ==  \* mutant: the window lasts a second too long
  /\ pool[p].status = "LaunchProtection"
  /\ now <= pool[p].launch_protection_ends_at

(* Launch protection still limits the pool's buys. *)
Protected(p) ==
  /\ pool[p].status = "LaunchProtection"
  /\ now < pool[p].launch_protection_ends_at

EndedByAnyTrade(p) ==  \* mutant: the window is not looked at
  IF pool[p].status = "LaunchProtection" THEN "Active" ELSE pool[p].status

(* The first trade after the window also ends the protection for good. *)
StatusOnTrade(p) ==
  IF pool[p].status = "LaunchProtection" /\ ~Protected(p)
  THEN "Active" ELSE pool[p].status

MarketIsOrPending(p, model) ==  \* mutant: a pending market still trades
  /\ pool[p].model = market[p].model
  /\ market[p].model \in {model, "MigrationPending"}

AnyMarket(p, model) == pool[p].model = market[p].model  \* mutant: whatever it is

MarketIs(p, model) ==
  /\ pool[p].model = market[p].model
  /\ market[p].model = model

AnyAmountAllowed(p, amount_in, is_buy, model) ==  \* mutant: no minimum
  /\ NotPaused
  /\ p \in pools
  /\ IsTradeable(pool[p])
  /\ amount_in > 0
  /\ is_buy /\ Protected(p) => amount_in <= config.max_buy_during_protection
  /\ MarketIs(p, model)

SwapAllowed(p, amount_in, is_buy, model) ==
  /\ NotPaused
  /\ p \in pools
  /\ IsTradeable(pool[p])
  /\ amount_in > 0
  /\ amount_in >= MIN_TRADE_AMOUNT
  /\ is_buy /\ Protected(p) => amount_in <= config.max_buy_during_protection
  /\ MarketIs(p, model)

(* calculate_fee_breakdown multiplies in a u64. *)
FeesFit(amount) == amount * TOTAL_FEE_BPS \in U64

(* What a pool's SOL vault can take, and what it can pay.                  *)
CanTake(p, lamports) ==
  /\ solVault[p] + lamports \in U64
  /\ RentExempt(solVault[p] + lamports)

CanPay(p, lamports) ==
  /\ lamports <= solVault[p]
  /\ RentExempt(solVault[p] - lamports)

(* What a buyer pays into the vault, and what a sale takes out of it.      *)
BuyDeposit(pool_sol_amount, fees) ==
  pool_sol_amount + fees.creator + fees.curator + fees.growth

SalePayment(user_amount, fees) == user_amount + fees.platform

PlatformPaidTwice(p, pool_sol_amount, fees) ==  \* mutant: to the vault as well
  LET deposit == pool_sol_amount + fees.total
  IN  /\ CanTake(p, deposit)
      /\ solVault' = [solVault EXCEPT ![p] = @ + deposit]
      /\ payouts' = [payouts EXCEPT ![p].platform = @ + fees.platform]

GrowthNotDeposited(p, pool_sol_amount, fees) ==  \* mutant: one share is forgotten
  LET deposit == pool_sol_amount + fees.creator + fees.curator
  IN  /\ CanTake(p, deposit)
      /\ solVault' = [solVault EXCEPT ![p] = @ + deposit]
      /\ payouts' = [payouts EXCEPT ![p].platform = @ + fees.platform]

(* transfer_buy_sol: the trade's SOL and three of the fees go to the       *)
(* vault, the platform's share to the treasury.                            *)
TransferBuySol(p, pool_sol_amount, fees) ==
  LET deposit == BuyDeposit(pool_sol_amount, fees)
  IN  /\ CanTake(p, deposit)
      /\ solVault' = [solVault EXCEPT ![p] = @ + deposit]
      /\ payouts' = [payouts EXCEPT ![p].platform = @ + fees.platform]

PlatformFromNowhere(p, user_amount, fees) ==  \* mutant: its share stays in the vault
  /\ CanPay(p, user_amount)
  /\ solVault' = [solVault EXCEPT ![p] = @ - user_amount]
  /\ payouts' = [payouts EXCEPT ![p].platform = @ + fees.platform]

(* transfer_sell_sol: the vault pays the seller and the platform, and      *)
(* keeps the other three fees.                                             *)
TransferSellSol(p, user_amount, fees) ==
  LET paid == SalePayment(user_amount, fees)
  IN  /\ CanPay(p, paid)
      /\ solVault' = [solVault EXCEPT ![p] = @ - paid]
      /\ payouts' = [payouts EXCEPT ![p].platform = @ + fees.platform]

TokensNotSent(p, amount) ==  \* mutant: the transfer is missing
  /\ amount <= tokenVault[p]
  /\ UNCHANGED tokenVault

TransferTokensFromPool(p, amount) ==
  /\ amount <= tokenVault[p]
  /\ tokenVault' = [tokenVault EXCEPT ![p] = @ - amount]

TokensNotTaken(p, amount) ==  \* mutant: the transfer is missing
  /\ amount <= Circulating(p)
  /\ UNCHANGED tokenVault

(* A trader can only send tokens that are outside the vault. *)
TransferTokensToPool(p, amount) ==
  /\ amount <= Circulating(p)
  /\ tokenVault' = [tokenVault EXCEPT ![p] = @ + amount]

WithSwappedShares(r, volume, fees) ==  \* mutant: creator and curator swapped
  [r EXCEPT !.total_volume = @ + volume,
            !.total_fees = @ + fees.total,
            !.unclaimed_creator_fees = @ + fees.curator,
            !.unclaimed_curator_fees = @ + fees.creator,
            !.unclaimed_growth_fees = @ + fees.growth]

WithGrowthReserved(r, volume, fees) ==  \* mutant: growth counted as a reserve too
  [r EXCEPT !.total_volume = @ + volume,
            !.total_fees = @ + fees.total,
            !.liquidity_sol_reserve = @ + fees.growth,
            !.unclaimed_creator_fees = @ + fees.creator,
            !.unclaimed_curator_fees = @ + fees.curator,
            !.unclaimed_growth_fees = @ + fees.growth]

WithPoolFees(r, volume, fees) ==
  [r EXCEPT !.total_volume = @ + volume,
            !.total_fees = @ + fees.total,
            !.unclaimed_creator_fees = @ + fees.creator,
            !.unclaimed_curator_fees = @ + fees.curator,
            !.unclaimed_growth_fees = @ + fees.growth]

WithPlatformShareTwice(m, volume, fees, is_buy) ==  \* mutant: to the curator as well
  [m EXCEPT !.total_trade_volume = @ + volume,
            !.total_fees_earned = @ + fees.total,
            !.platform_fees_earned = @ + fees.platform,
            !.creator_fees_earned = @ + fees.creator,
            !.curator_fees_earned = @ + fees.platform,
            !.growth_fees_earned = @ + fees.growth,
            !.total_trades = @ + 1,
            !.buy_trades = @ + (IF is_buy THEN 1 ELSE 0),
            !.sell_trades = @ + (IF is_buy THEN 0 ELSE 1)]

WithMarketFees(m, volume, fees, is_buy) ==
  [m EXCEPT !.total_trade_volume = @ + volume,
            !.total_fees_earned = @ + fees.total,
            !.platform_fees_earned = @ + fees.platform,
            !.creator_fees_earned = @ + fees.creator,
            !.curator_fees_earned = @ + fees.curator,
            !.growth_fees_earned = @ + fees.growth,
            !.total_trades = @ + 1,
            !.buy_trades = @ + (IF is_buy THEN 1 ELSE 0),
            !.sell_trades = @ + (IF is_buy THEN 0 ELSE 1)]

WithNetVolume(c, volume, fees) ==  \* mutant: the fee is left out of the volume
  [c EXCEPT !.total_volume = @ + volume - fees.total,
            !.total_fees_collected = @ + fees.total]

WithConfigFees(c, volume, fees) ==
  [c EXCEPT !.total_volume = @ + volume,
            !.total_fees_collected = @ + fees.total]
=============================================================================
