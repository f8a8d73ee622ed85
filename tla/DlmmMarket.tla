----------------------------- MODULE DlmmMarket -----------------------------
(***************************************************************************)
(* The market after migration: fixed-price liquidity bins (init_bins.rs,   *)
(* add_liquidity.rs, remove_liquidity.rs) and the two swaps against the    *)
(* active one (execute_dlmm_buy, execute_dlmm_sell).                       *)
(***************************************************************************)
EXTENDS Trading

CanProvide(w, p) ==
  /\ NotPaused
  /\ p \in pools
  /\ market[p].model = "DLMM"
  /\ IsAdmin(w) \/ IsCurator(w, p)

AllocateTokens(m, tokens, sol) ==  \* mutant: the SOL is not counted
  [m EXCEPT !.allocated_token_liquidity = @ + tokens]

(* Liquidity of a market's bins, counted in the market. *)
Allocate(m, tokens, sol) ==
  [m EXCEPT !.allocated_token_liquidity = @ + tokens,
            !.allocated_sol_liquidity = @ + sol]

(* init_bin hands reserves that no bin holds yet to a new bin. *)
InitBin(w, p, params) ==
  LET b == <<p, params.bin_id>>
      allocated == Allocate(market[p], params.token_liquidity, params.sol_liquidity)
  IN  /\ CanProvide(w, p)
      /\ b \notin bins
      /\ params.price_lamports_per_token > 0
      /\ params.token_liquidity > 0 \/ params.sol_liquidity > 0
      /\ allocated.allocated_token_liquidity <= pool[p].liquidity_token_reserve
      /\ allocated.allocated_sol_liquidity <= pool[p].liquidity_sol_reserve
      /\ bins' = bins \cup {b}
      /\ bin' = [bin EXCEPT ![b] =
                   [price_lamports_per_token |-> params.price_lamports_per_token,
                    token_liquidity |-> params.token_liquidity,
                    sol_liquidity |-> params.sol_liquidity]]
      /\ market' = [market EXCEPT ![p] = allocated]
      /\ UNCHANGED <<initialized, config, pools, pool, balances, now>>

(* A change of a bin by tokens and lamports, in all three places that      *)
(* count them: the bin, the pool's reserves and the market's allocation.   *)
MoveLiquidity(p, b, tokens, sol) ==
  LET filled == [bin[b] EXCEPT !.token_liquidity = @ + tokens,
                               !.sol_liquidity = @ + sol]
      reserved == [pool[p] EXCEPT !.liquidity_token_reserve = @ + tokens,
                                  !.liquidity_sol_reserve = @ + sol]
      allocated == Allocate(market[p], tokens, sol)
  IN  /\ BinFits(filled)
      /\ PoolFits(reserved)
      /\ MarketFits(allocated)
      /\ RentExempt(solVault[p] + sol)
      /\ bin' = [bin EXCEPT ![b] = filled]
      /\ pool' = [pool EXCEPT ![p] = reserved]
      /\ market' = [market EXCEPT ![p] = allocated]
      /\ solVault' = [solVault EXCEPT ![p] = @ + sol]
      /\ tokenVault' = [tokenVault EXCEPT ![p] = @ + tokens]
      /\ UNCHANGED <<registry, config, payouts, gifts, now>>

(* Liquidity added from outside is the pool's from then on: no account     *)
(* says who added it.                                                      *)
AddLiquidity(w, p, b, token_amount, sol_amount) ==
  /\ CanProvide(w, p)
  /\ b \in bins
  /\ b[1] = p
  /\ token_amount > 0 \/ sol_amount > 0
  /\ token_amount <= Circulating(p)
  /\ solVault[p] + sol_amount \in U64
  /\ MoveLiquidity(p, b, token_amount, sol_amount)

RemoveLiquidity(w, p, b, token_amount, sol_amount) ==
  /\ CanProvide(w, p)
  /\ b \in bins
  /\ b[1] = p
  /\ token_amount > 0 \/ sol_amount > 0
  /\ token_amount <= bin[b].token_liquidity
  /\ sol_amount <= bin[b].sol_liquidity
  /\ token_amount <= pool[p].liquidity_token_reserve
  /\ sol_amount <= pool[p].liquidity_sol_reserve
  /\ token_amount <= tokenVault[p]
  /\ sol_amount <= solVault[p]
  /\ MoveLiquidity(p, b, -token_amount, -sol_amount)
-----------------------------------------------------------------------------
AnyBinOfPool(p, b) == b \in bins /\ b[1] = p  \* mutant: not only the active one

AnyActiveBin(p, b) ==  \* mutant: of whatever pool
  /\ b \in bins
  /\ b[2] = market[p].active_bin_id

(* The bin a swap names must be the active one of the pool it names. *)
IsActiveBin(p, b) ==
  /\ b \in bins
  /\ b[1] = p
  /\ b[2] = market[p].active_bin_id

DlmmBuy(p, b, amount_in, minimum_amount_out) ==
  LET fees == FeeBreakdown(amount_in)
      sol_after_fee == amount_in - fees.total
      tokens_out == quote_dlmm_buy(sol_after_fee, bin[b].price_lamports_per_token)
      filled == [bin[b] EXCEPT !.token_liquidity = @ - tokens_out,
                               !.sol_liquidity = @ + sol_after_fee]
      bought == WithPoolFees(
                  [pool[p] EXCEPT !.status = StatusOnTrade(p),
                                  !.liquidity_sol_reserve = @ + sol_after_fee,
                                  !.liquidity_token_reserve = @ - tokens_out],
                  amount_in, fees)
      traded == WithMarketFees(
                  [market[p] EXCEPT
                     !.allocated_token_liquidity = @ - tokens_out,
                     !.allocated_sol_liquidity = @ + sol_after_fee,
                     !.active_bin_id = IF filled.token_liquidity = 0 THEN @ + 1 ELSE @],
                  amount_in, fees, TRUE)
  IN  /\ SwapAllowed(p, amount_in, TRUE, "DLMM")
      /\ FeesFit(amount_in)
      /\ IsActiveBin(p, b)
      /\ sol_after_fee > 0
      /\ tokens_out \in 1..U64Max
      /\ tokens_out >= minimum_amount_out
      /\ tokens_out <= bin[b].token_liquidity
      /\ tokens_out <= pool[p].liquidity_token_reserve
      /\ BinFits(filled)
      /\ PoolFits(bought)
      /\ MarketFits(traded)
      /\ TransferBuySol(p, sol_after_fee, fees)
      /\ TransferTokensFromPool(p, tokens_out)
      /\ bin' = [bin EXCEPT ![b] = filled]
      /\ pool' = [pool EXCEPT ![p] = bought]
      /\ market' = [market EXCEPT ![p] = traded]
      /\ config' = WithConfigFees(config, amount_in, fees)
      /\ UNCHANGED <<registry, gifts, now>>

DlmmSell(p, b, amount_in, minimum_amount_out) ==
  LET gross_sol == quote_dlmm_sell(amount_in, bin[b].price_lamports_per_token)
      fees == FeeBreakdown(gross_sol)
      filled == [bin[b] EXCEPT !.token_liquidity = @ + amount_in,
                               !.sol_liquidity = @ - gross_sol]
      sold == WithPoolFees(
                [pool[p] EXCEPT !.status = StatusOnTrade(p),
                                !.liquidity_sol_reserve = @ - gross_sol,
                                !.liquidity_token_reserve = @ + amount_in],
                gross_sol, fees)
      traded == WithMarketFees(
                  [market[p] EXCEPT
                     !.allocated_token_liquidity = @ + amount_in,
                     !.allocated_sol_liquidity = @ - gross_sol,
                     !.active_bin_id = IF filled.sol_liquidity = 0 THEN @ - 1 ELSE @],
                  gross_sol, fees, FALSE)
  IN  /\ SwapAllowed(p, amount_in, FALSE, "DLMM")
      /\ IsActiveBin(p, b)
      /\ gross_sol \in 1..U64Max
      /\ FeesFit(gross_sol)
      /\ gross_sol - fees.total >= minimum_amount_out
      /\ gross_sol <= bin[b].sol_liquidity
      /\ gross_sol <= pool[p].liquidity_sol_reserve
      /\ BinFits(filled)
      /\ PoolFits(sold)
      /\ MarketFits(traded)
      /\ TransferTokensToPool(p, amount_in)
      /\ TransferSellSol(p, gross_sol - fees.total, fees)
      /\ bin' = [bin EXCEPT ![b] = filled]
      /\ pool' = [pool EXCEPT ![p] = sold]
      /\ market' = [market EXCEPT ![p] = traded]
      /\ config' = WithConfigFees(config, gross_sol, fees)
      /\ UNCHANGED <<registry, gifts, now>>
=============================================================================
