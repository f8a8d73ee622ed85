--------------------------- MODULE SigmoidMarket ---------------------------
(***************************************************************************)
(* Trading on the bonding curve: execute_sigmoid_buy and                   *)
(* execute_sigmoid_sell of instructions/swap.rs, each with the checks of   *)
(* swap_handler that lead to it.                                           *)
(***************************************************************************)
EXTENDS Trading

(* The fee is taken of the whole amount offered, the curve is paid what    *)
(* the quote spends.                                                       *)
BuyFill(p, amount_in) ==
  quote_sigmoid_buy(market[p].sigmoid, pool[p].tokens_sold,
                    amount_in - FeeBreakdown(amount_in).total)

PoolAfterBuy(p, amount_in) ==
  LET quote == BuyFill(p, amount_in)
  IN  WithPoolFees([pool[p] EXCEPT !.status = StatusOnTrade(p),
                                   !.liquidity_sol_reserve = @ + quote.gross_sol,
                                   !.liquidity_token_reserve = @ - quote.amount_out,
                                   !.tokens_sold = @ + quote.amount_out],
                   amount_in, FeeBreakdown(amount_in))

(* A buy that reaches the migration conditions closes the curve in the     *)
(* same transaction.                                                       *)
ModelAfterBuy(p, amount_in) ==
  IF MigrationConditionsMet(PoolAfterBuy(p, amount_in), market[p])
  THEN "MigrationPending" ELSE "SigmoidBootstrap"

MarketAfterBuy(p, amount_in) ==
  WithMarketFees([market[p] EXCEPT !.model = ModelAfterBuy(p, amount_in)],
                 amount_in, FeeBreakdown(amount_in), TRUE)

(* What the program itself asks of a buy; the transfers ask for more.      *)
SigmoidBuyAllowed(p, amount_in, minimum_amount_out) ==
  LET quote == BuyFill(p, amount_in)
  IN  /\ SwapAllowed(p, amount_in, TRUE, "SigmoidBootstrap")
      /\ FeesFit(amount_in)
      /\ IsQuote(quote)
      /\ quote.amount_out >= minimum_amount_out
      /\ quote.amount_out <= pool[p].liquidity_token_reserve
      /\ PoolFits(PoolAfterBuy(p, amount_in))
      /\ MarketFits(MarketAfterBuy(p, amount_in))

SigmoidBuy(p, amount_in, minimum_amount_out) ==
  LET fees == FeeBreakdown(amount_in)
      quote == BuyFill(p, amount_in)
  IN  /\ SigmoidBuyAllowed(p, amount_in, minimum_amount_out)
      /\ TransferBuySol(p, quote.gross_sol, fees)
      /\ TransferTokensFromPool(p, quote.amount_out)
      /\ pool' = [pool EXCEPT ![p] = [PoolAfterBuy(p, amount_in) EXCEPT
                                         !.model = ModelAfterBuy(p, amount_in)]]
      /\ market' = [market EXCEPT ![p] = MarketAfterBuy(p, amount_in)]
      /\ config' = WithConfigFees(config, amount_in, fees)
      /\ UNCHANGED <<registry, bin, gifts, now>>

SalePays(p, amount_in) ==
  quote_sigmoid_sell(market[p].sigmoid, pool[p].tokens_sold, amount_in).gross_sol

(* The pool and the market after a sale of tokens for gross_sol.  The      *)
(* migration conditions are not looked at.                                 *)
PoolAfterSale(p, amount_in, gross_sol) ==
  WithPoolFees([pool[p] EXCEPT !.status = StatusOnTrade(p),
                               !.liquidity_sol_reserve = @ - gross_sol,
                               !.liquidity_token_reserve = @ + amount_in,
                               !.tokens_sold = @ - amount_in],
               gross_sol, FeeBreakdown(gross_sol))

MarketAfterSale(p, gross_sol) ==
  WithMarketFees(market[p], gross_sol, FeeBreakdown(gross_sol), FALSE)

SigmoidSellAllowed(p, amount_in, minimum_amount_out) ==
  LET gross_sol == SalePays(p, amount_in)
  IN  /\ SwapAllowed(p, amount_in, FALSE, "SigmoidBootstrap")
      /\ IsQuote(quote_sigmoid_sell(market[p].sigmoid, pool[p].tokens_sold, amount_in))
      /\ FeesFit(gross_sol)
      /\ gross_sol - FeeBreakdown(gross_sol).total >= minimum_amount_out
      /\ gross_sol <= pool[p].liquidity_sol_reserve
      /\ PoolFits(PoolAfterSale(p, amount_in, gross_sol))
      /\ MarketFits(MarketAfterSale(p, gross_sol))

(* The seller receives the quote less its fee.                             *)
SigmoidSell(p, amount_in, minimum_amount_out) ==
  LET gross_sol == SalePays(p, amount_in)
      fees == FeeBreakdown(gross_sol)
  IN  /\ SigmoidSellAllowed(p, amount_in, minimum_amount_out)
      /\ TransferTokensToPool(p, amount_in)
      /\ TransferSellSol(p, gross_sol - fees.total, fees)
      /\ pool' = [pool EXCEPT ![p] = PoolAfterSale(p, amount_in, gross_sol)]
      /\ market' = [market EXCEPT ![p] = MarketAfterSale(p, gross_sol)]
      /\ config' = WithConfigFees(config, gross_sol, fees)
      /\ UNCHANGED <<registry, bin, gifts, now>>
=============================================================================
