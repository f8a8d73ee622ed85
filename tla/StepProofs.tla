----------------------------- MODULE StepProofs -----------------------------
(***************************************************************************)
(* What a step may never do, for any number of pools, wallets and bins,    *)
(* any arguments and any bounds.  Each instruction is first reduced to     *)
(* what it does to the phase, the counters and the bins of one pool        *)
(* (Created, Migrated, OpensBin, Provides, Traded) or shown to leave them  *)
(* alone (Quiet); the action properties are then read off these five.      *)
(***************************************************************************)
EXTENDS RedCircleProofs

(* A call that is about another pool leaves everything of pool q alone.    *)
Untouched(q) ==
  /\ q \in pools' <=> q \in pools
  /\ pool'[q] = pool[q] /\ market'[q] = market[q]
  /\ solVault'[q] = solVault[q] /\ tokenVault'[q] = tokenVault[q]
  /\ payouts'[q] = payouts[q]
  /\ \A id \in BinIds : /\ <<q, id>> \in bins' <=> <<q, id>> \in bins
                        /\ bin'[<<q, id>>] = bin[<<q, id>>]

OnlyOf(p) == \A q \in Posts \ {p} : Untouched(q)

(* The volume and the fees of pool q, and what the protocol counts.        *)
SameTotals(q) ==
  /\ pool'[q].total_volume = pool[q].total_volume
  /\ pool'[q].total_fees = pool[q].total_fees

Counts == <<config.total_pools, config.total_volume, config.total_fees_collected>>

(* Neither the phase, the reserves nor the bins of pool q are touched.     *)
Quiet(q) ==
  /\ q \in pools' <=> q \in pools
  /\ market'[q] = market[q]
  /\ pool'[q].liquidity_sol_reserve = pool[q].liquidity_sol_reserve
  /\ pool'[q].liquidity_token_reserve = pool[q].liquidity_token_reserve
  /\ pool'[q].tokens_sold = pool[q].tokens_sold
  /\ pool'[q].token_supply = pool[q].token_supply
  /\ pool'[q].model = pool[q].model
  /\ SameTotals(q)
  /\ \A id \in BinIds : /\ <<q, id>> \in bins' <=> <<q, id>> \in bins
                        /\ bin'[<<q, id>>] = bin[<<q, id>>]

SameBins == bins' = bins /\ bin' = bin

SameAllocated(p) ==
  /\ market'[p].allocated_token_liquidity = market[p].allocated_token_liquidity
  /\ market'[p].allocated_sol_liquidity = market[p].allocated_sol_liquidity

(* Fields of a market that only a trade writes.                            *)
SameTrades(p) ==
  /\ market'[p].total_trades = market[p].total_trades
  /\ market'[p].buy_trades = market[p].buy_trades

Created(p) ==
  /\ NotPaused
  /\ p \notin pools /\ pools' = pools \cup {p}
  /\ market'[p].model = "SigmoidBootstrap" /\ pool'[p].model = "SigmoidBootstrap"
  /\ pool'[p].tokens_sold = 0
  /\ pool'[p].liquidity_token_reserve = pool'[p].token_supply
  /\ \E params \in PoolParams : market'[p].sigmoid = NewSigmoid(params)
  /\ ValidSigmoid(market'[p].sigmoid)
  /\ pool'[p].token_supply = market'[p].sigmoid.token_supply
  /\ market'[p].allocated_token_liquidity = 0
  /\ market'[p].allocated_sol_liquidity = 0
  /\ pool'[p].total_volume = 0 /\ pool'[p].total_fees = 0
  /\ config'.total_pools = config.total_pools + 1
  /\ config'.total_volume = config.total_volume
  /\ config'.total_fees_collected = config.total_fees_collected
  /\ SameTrades(p)
  /\ SameBins

Migrated(p) ==
  /\ NotPaused
  /\ p \in pools /\ pools' = pools
  /\ market[p].model # "DLMM" /\ market'[p].model = "DLMM"
  /\ pool'[p].model = "DLMM"
  /\ market'[p].sigmoid = market[p].sigmoid
  /\ pool'[p].tokens_sold = pool[p].tokens_sold
  /\ pool'[p].liquidity_sol_reserve = pool[p].liquidity_sol_reserve
  /\ pool'[p].liquidity_token_reserve = pool[p].liquidity_token_reserve
  /\ SameAllocated(p) /\ SameTotals(p) /\ Counts' = Counts
  /\ SameTrades(p)
  /\ SameBins

(* What the liquidity calls leave of a pool of the second phase.           *)
InBins(p) ==
  /\ NotPaused
  /\ p \in pools /\ pools' = pools
  /\ market[p].model = "DLMM" /\ market'[p].model = "DLMM"
  /\ pool'[p].model = pool[p].model
  /\ market'[p].sigmoid = market[p].sigmoid
  /\ market'[p].migrated_at = market[p].migrated_at
  /\ market'[p].active_bin_id = market[p].active_bin_id
  /\ pool'[p].tokens_sold = pool[p].tokens_sold
  /\ SameTotals(p) /\ Counts' = Counts
  /\ SameTrades(p)

OpensBin(p, id, tokens, sol) ==
  LET b == <<p, id>>
  IN  /\ InBins(p)
      /\ id \in BinIds /\ b \notin bins /\ bins' = bins \cup {b}
      /\ \A k \in BinKeys \ {b} : bin'[k] = bin[k]
      /\ bin'[b].price_lamports_per_token > 0
      /\ tokens \in Nat /\ sol \in Nat /\ (tokens > 0 \/ sol > 0)
      /\ bin'[b].token_liquidity = tokens /\ bin'[b].sol_liquidity = sol
      /\ pool'[p] = pool[p]
      /\ market'[p].allocated_token_liquidity
           = market[p].allocated_token_liquidity + tokens
      /\ market'[p].allocated_sol_liquidity = market[p].allocated_sol_liquidity + sol
      /\ market'[p].allocated_token_liquidity <= pool[p].liquidity_token_reserve
      /\ market'[p].allocated_sol_liquidity <= pool[p].liquidity_sol_reserve

(* The reserves, the allocation and bin b of pool p move by as much.       *)
MovesTogether(p, b, tokens, sol) ==
  /\ b \in bins /\ bins' = bins
  /\ tokens \in Int /\ sol \in Int
  /\ \A k \in BinKeys \ {b} : bin'[k] = bin[k]
  /\ bin'[b].price_lamports_per_token = bin[b].price_lamports_per_token
  /\ bin'[b].token_liquidity = bin[b].token_liquidity + tokens
  /\ bin'[b].sol_liquidity = bin[b].sol_liquidity + sol
  /\ pool'[p].liquidity_token_reserve = pool[p].liquidity_token_reserve + tokens
  /\ pool'[p].liquidity_sol_reserve = pool[p].liquidity_sol_reserve + sol
  /\ market'[p].allocated_token_liquidity = market[p].allocated_token_liquidity + tokens
  /\ market'[p].allocated_sol_liquidity = market[p].allocated_sol_liquidity + sol

Provides(p, b, tokens, sol) == InBins(p) /\ b[1] = p /\ MovesTogether(p, b, tokens, sol)

(* What a trader of pool p hands over: to its vault, and to the platform.  *)
Paid(p) == (solVault'[p] - solVault[p]) + (payouts'[p].platform - payouts[p].platform)

(* What the four swaps have in common.                                     *)
Traded(p, is_buy, volume) ==
  /\ NotPaused /\ volume \in Nat
  /\ p \in pools /\ pools' = pools
  /\ pool[p].status # "Paused"
  /\ is_buy /\ Protected(p) => volume <= config.max_buy_during_protection
  /\ is_buy => Paid(p) <= volume
  /\ pool'[p].status = StatusOnTrade(p)
  /\ pool'[p].total_volume = pool[p].total_volume + volume
  /\ config'.total_pools = config.total_pools
  /\ config'.total_volume = config.total_volume + volume
  /\ \E fees \in Nat :
       /\ pool'[p].total_fees = pool[p].total_fees + fees
       /\ config'.total_fees_collected = config.total_fees_collected + fees
  /\ market'[p].total_trades = market[p].total_trades + 1
  /\ market'[p].buy_trades = market[p].buy_trades + (IF is_buy THEN 1 ELSE 0)
  /\ market'[p].sigmoid = market[p].sigmoid
  /\ market'[p].migrated_at = market[p].migrated_at

(* What a trade on the curve moves is what the quote says; a curve whose   *)
(* band is empty has no quotes.                                            *)
MovedAsQuoted(p, is_buy) ==
  LET c == market[p].sigmoid
      sold == pool[p].tokens_sold
      reserve == pool[p].liquidity_sol_reserve
  IN  \E amount \in Nat :
        IF is_buy
        THEN LET quote == quote_sigmoid_buy(c, sold, amount)
             IN  /\ quote.amount_out \in Nat /\ quote.gross_sol \in Nat
                 /\ pool'[p].tokens_sold = sold + quote.amount_out
                 /\ pool'[p].liquidity_sol_reserve = reserve + quote.gross_sol
        ELSE LET gross_sol == quote_sigmoid_sell(c, sold, amount).gross_sol
             IN  /\ amount <= sold /\ gross_sol \in Nat
                 /\ pool'[p].tokens_sold = sold - amount
                 /\ pool'[p].liquidity_sol_reserve = reserve - gross_sol

(* A trade on the curve.  What was sold and what is in reserve move        *)
(* against each other; a buy decides on the phase by the conditions as it  *)
(* leaves them, and a sell can only take the pool further from them.       *)
TradedOnCurve(p, is_buy) ==
  /\ market[p].model = "SigmoidBootstrap"
  /\ band_size(market[p].sigmoid) # 0
  /\ pool'[p].model = market'[p].model
  /\ market'[p].supply_threshold_bps = market[p].supply_threshold_bps
  /\ market'[p].min_sol_reserve = market[p].min_sol_reserve
  /\ pool'[p].token_supply = pool[p].token_supply
  /\ SameAllocated(p)
  /\ pool'[p].tokens_sold + pool'[p].liquidity_token_reserve
       = pool[p].tokens_sold + pool[p].liquidity_token_reserve
  /\ IF is_buy
     THEN market'[p].model = (IF MigrationConditionsMet(pool'[p], market'[p])
                              THEN "MigrationPending" ELSE "SigmoidBootstrap")
     ELSE /\ market'[p].model = "SigmoidBootstrap"
          /\ pool'[p].tokens_sold <= pool[p].tokens_sold
          /\ pool'[p].liquidity_sol_reserve <= pool[p].liquidity_sol_reserve
  /\ MovedAsQuoted(p, is_buy)
  /\ SameBins

TradedInBin(p, is_buy, tokens, sol) ==
  LET id == market[p].active_bin_id
      b == <<p, id>>
      price == bin[b].price_lamports_per_token
  IN  /\ market[p].model = "DLMM" /\ market'[p].model = "DLMM"
      /\ pool'[p].model = pool[p].model
      /\ pool'[p].tokens_sold = pool[p].tokens_sold
      /\ MovesTogether(p, b, tokens, sol)
      /\ IF is_buy
         THEN /\ \E amount \in Nat : /\ amount >= MIN_TRADE_AMOUNT
                                     /\ sol = amount - FeeBreakdown(amount).total
              /\ -tokens = quote_dlmm_buy(sol, price)
              /\ bin'[b].token_liquidity >= 0
              /\ market'[p].active_bin_id
                   = (IF bin'[b].token_liquidity = 0 THEN id + 1 ELSE id)
         ELSE /\ tokens \in Nat
              /\ -sol = quote_dlmm_sell(tokens, price)
              /\ market'[p].active_bin_id
                   = (IF bin'[b].sol_liquidity = 0 THEN id - 1 ELSE id)
-----------------------------------------------------------------------------
(* Writing the records and balances of one pool leaves the others.         *)
LEMMA OthersUntouched ==
  ASSUME TypeOK, NEW p \in Posts, NEW r, NEW m, NEW sv, NEW tv, NEW pay,
         pool' = [pool EXCEPT ![p] = r], market' = [market EXCEPT ![p] = m],
         solVault' = [solVault EXCEPT ![p] = sv],
         tokenVault' = [tokenVault EXCEPT ![p] = tv],
         payouts' = [payouts EXCEPT ![p] = pay],
         pools' \ {p} = pools \ {p},
         \A k \in BinKeys : k[1] # p => /\ k \in bins' <=> k \in bins
                                        /\ bin'[k] = bin[k]
  PROVE  /\ pool'[p] = r /\ market'[p] = m
         /\ OnlyOf(p)
<1>1. pool'[p] = r /\ market'[p] = m
  BY DEF TypeOK, Typed
<1>2. SUFFICES ASSUME NEW q \in Posts \ {p} PROVE Untouched(q)
  BY <1>1 DEF OnlyOf
<1>3. /\ pool'[q] = pool[q] /\ market'[q] = market[q]
      /\ solVault'[q] = solVault[q] /\ tokenVault'[q] = tokenVault[q]
      /\ payouts'[q] = payouts[q]
      /\ q \in pools' <=> q \in pools
  BY DEF TypeOK, Typed
<1>4. \A id \in BinIds : <<q, id>> \in BinKeys /\ <<q, id>>[1] = q
  BY DEF BinKeys
<1> QED
  BY <1>3, <1>4 DEF Untouched

(* The pool record of a trade once its fees are booked.                    *)
LEMMA TradedPool ==
  ASSUME NEW b \in RawPool, NEW volume \in Nat, NEW f, IsFees(f), NEW r,
         \/ r = WithPoolFees(b, volume, f)
         \/ \E model \in PoolModel : r = [WithPoolFees(b, volume, f) EXCEPT !.model = model]
  PROVE  /\ r.status = b.status
         /\ r = WithPoolFees(b, volume, f) => r.model = b.model
         /\ \A model : r = [WithPoolFees(b, volume, f) EXCEPT !.model = model]
                        => r.model = model
         /\ r.token_supply = b.token_supply
         /\ r.tokens_sold = b.tokens_sold
         /\ r.liquidity_sol_reserve = b.liquidity_sol_reserve
         /\ r.liquidity_token_reserve = b.liquidity_token_reserve
         /\ r.total_volume = b.total_volume + volume
         /\ r.total_fees = b.total_fees + f.total
<1> DEFINE v == b.total_volume + volume
           a == b.total_fees + f.total
           c == b.unclaimed_creator_fees + f.creator
           d == b.unclaimed_curator_fees + f.curator
           e == b.unclaimed_growth_fees + f.growth
           s == [b EXCEPT !.total_volume = v, !.total_fees = a,
                          !.unclaimed_creator_fees = c,
                          !.unclaimed_curator_fees = d,
                          !.unclaimed_growth_fees = e]
<1>1. WithPoolFees(b, volume, f) = s
  BY DEF WithPoolFees
<1> HIDE DEF v, a, c, d, e
<1>2. /\ s.status = b.status /\ s.tokens_sold = b.tokens_sold
      /\ s.model = b.model /\ s.token_supply = b.token_supply
      /\ s.liquidity_sol_reserve = b.liquidity_sol_reserve
      /\ s.liquidity_token_reserve = b.liquidity_token_reserve
      /\ s.total_volume = v /\ s.total_fees = a
      /\ \A model : LET t == [s EXCEPT !.model = model]
                    IN  /\ t.status = s.status /\ t.tokens_sold = s.tokens_sold
                        /\ t.model = model /\ t.token_supply = s.token_supply
                        /\ t.liquidity_sol_reserve = s.liquidity_sol_reserve
                        /\ t.liquidity_token_reserve = s.liquidity_token_reserve
                        /\ t.total_volume = s.total_volume
                        /\ t.total_fees = s.total_fees
  BY DEF RawPool
<1> HIDE DEF s
<1>3. \A model : r = [WithPoolFees(b, volume, f) EXCEPT !.model = model] => r.model = model
  BY <1>1, <1>2
<1>4. r = WithPoolFees(b, volume, f) => r.model = b.model
  BY <1>1, <1>2
<1>5. \A model : LET t == [s EXCEPT !.model = model]
                 IN  /\ t.status = b.status
                     /\ t.token_supply = b.token_supply
                     /\ t.tokens_sold = b.tokens_sold
                     /\ t.liquidity_sol_reserve = b.liquidity_sol_reserve
                     /\ t.liquidity_token_reserve = b.liquidity_token_reserve
                     /\ t.total_volume = v /\ t.total_fees = a
  BY <1>2
<1>6. CASE r = s
  BY <1>2, <1>3, <1>4, <1>6 DEF v, a
<1>7. ASSUME NEW model, r = [s EXCEPT !.model = model]
      PROVE  /\ r.status = b.status
             /\ r.token_supply = b.token_supply
             /\ r.tokens_sold = b.tokens_sold
             /\ r.liquidity_sol_reserve = b.liquidity_sol_reserve
             /\ r.liquidity_token_reserve = b.liquidity_token_reserve
             /\ r.total_volume = b.total_volume + volume
             /\ r.total_fees = b.total_fees + f.total
  BY <1>5, <1>7 DEF v, a
<1> QED
  BY <1>1, <1>3, <1>4, <1>6, <1>7

(* t is n with one more trade booked, of which as many are buys.           *)
TradeCounted(t, n, buys) ==
  /\ t.model = n.model /\ t.sigmoid = n.sigmoid
  /\ t.supply_threshold_bps = n.supply_threshold_bps
  /\ t.min_sol_reserve = n.min_sol_reserve
  /\ t.migrated_at = n.migrated_at
  /\ t.active_bin_id = n.active_bin_id
  /\ t.allocated_token_liquidity = n.allocated_token_liquidity
  /\ t.allocated_sol_liquidity = n.allocated_sol_liquidity
  /\ t.total_trades = n.total_trades + 1
  /\ t.buy_trades = n.buy_trades + buys

(* The market record of a trade once its fees are booked.                  *)
LEMMA TradedMarket ==
  ASSUME NEW n \in RawMarket, NEW volume, NEW f
  PROVE  /\ TradeCounted(WithMarketFees(n, volume, f, TRUE), n, 1)
         /\ TradeCounted(WithMarketFees(n, volume, f, FALSE), n, 0)
<1>1. TradeCounted(WithMarketFees(n, volume, f, TRUE), n, 1)
  BY DEF WithMarketFees, RawMarket, TradeCounted
<1>2. TradeCounted(WithMarketFees(n, volume, f, FALSE), n, 0)
  BY DEF WithMarketFees, RawMarket, TradeCounted
<1> QED
  BY <1>1, <1>2

(* apply_config_fee_stats counts the volume and the fees of a trade.       *)
LEMMA ConfigCounted ==
  ASSUME TypeOK, NEW volume, NEW f, config' = WithConfigFees(config, volume, f)
  PROVE  /\ config'.total_pools = config.total_pools
         /\ config'.total_volume = config.total_volume + volume
         /\ config'.total_fees_collected = config.total_fees_collected + f.total
BY DEF TypeOK, Typed, Config, WithConfigFees

(* transfer_buy_sol takes the trade's SOL and the four shares of the fee.  *)
LEMMA BuyPays ==
  ASSUME TypeOK, NEW p \in Posts, NEW sol \in Int, NEW f, IsFees(f),
         solVault' = [solVault EXCEPT ![p] =
                        solVault[p] + (sol + f.creator + f.curator + f.growth)],
         payouts' = [payouts EXCEPT ![p] =
                       [payouts[p] EXCEPT !.platform = @ + f.platform]]
  PROVE  Paid(p) = (sol + f.creator + f.curator + f.growth) + f.platform
<1>1. /\ solVault[p] \in Nat /\ payouts[p] \in Payouts
      /\ solVault'[p] = solVault[p] + (sol + f.creator + f.curator + f.growth)
      /\ payouts'[p] = [payouts[p] EXCEPT !.platform = @ + f.platform]
  BY DEF TypeOK, Typed
<1>2. /\ payouts[p].platform \in Nat
      /\ payouts'[p].platform = payouts[p].platform + f.platform
  BY <1>1 DEF Payouts
<1>3. ASSUME NEW i \in Int, NEW j \in Int, NEW k \in Int, NEW l \in Int
      PROVE  ((i + j) - i) + ((k + l) - k) = j + l
  OBVIOUS
<1>4. sol + f.creator + f.curator + f.growth \in Int /\ f.platform \in Int
  BY DEF IsFees
<1> QED
  BY <1>1, <1>2, <1>3, <1>4 DEF Paid

(* A curve whose band is empty quotes nothing.                             *)
LEMMA EmptyBandNoQuote ==
  ASSUME NEW c, NEW sold, NEW amount,
         \/ IsQuote(quote_sigmoid_buy(c, sold, amount))
         \/ IsQuote(quote_sigmoid_sell(c, sold, amount))
  PROVE  band_size(c) # 0
<1>1. ~IsQuote(NoQuote)
  BY U64Assumption DEF IsQuote, NoQuote
<1> QED
  BY <1>1 DEF quote_sigmoid_buy, quote_sigmoid_sell

(* execute_sigmoid_buy: one pool, one trade, no bin.                       *)
LEMMA SigmoidBuyStep ==
  ASSUME TypeOK, AllSound, NEW p \in Posts, NEW amount_in \in U64,
         NEW minimum, SigmoidBuy(p, amount_in, minimum)
  PROVE  OnlyOf(p) /\ Traded(p, TRUE, amount_in) /\ TradedOnCurve(p, TRUE)
<1> DEFINE f == FeeBreakdown(amount_in)
           quote == quote_sigmoid_buy(market[p].sigmoid, pool[p].tokens_sold,
                                      amount_in - f.total)
           x == pool[p].liquidity_sol_reserve + quote.gross_sol
           y == pool[p].liquidity_token_reserve - quote.amount_out
           z == pool[p].tokens_sold + quote.amount_out
           status == StatusOnTrade(p)
           b == [pool[p] EXCEPT !.status = status,
                                !.liquidity_sol_reserve = x,
                                !.liquidity_token_reserve = y,
                                !.tokens_sold = z]
           s == WithPoolFees(b, amount_in, f)
           model == IF MigrationConditionsMet(s, market[p])
                    THEN "MigrationPending" ELSE "SigmoidBootstrap"
           n == [market[p] EXCEPT !.model = model]
           t == WithMarketFees(n, amount_in, f, TRUE)
           sv == solVault[p] + (quote.gross_sol + f.creator + f.curator + f.growth)
           tv == tokenVault[p] - quote.amount_out
           pay == [payouts[p] EXCEPT !.platform = @ + f.platform]
           r == [s EXCEPT !.model = model]
<1>1. /\ NotPaused /\ p \in pools /\ IsTradeable(pool[p])
      /\ Protected(p) => amount_in <= config.max_buy_during_protection
      /\ market[p].model = "SigmoidBootstrap"
      /\ IsQuote(quote)
      /\ pool' = [pool EXCEPT ![p] = r]
      /\ market' = [market EXCEPT ![p] = t]
      /\ tokenVault' = [tokenVault EXCEPT ![p] = tv]
      /\ config' = WithConfigFees(config, amount_in, f)
      /\ UNCHANGED <<registry, bin>>
  BY DEF SigmoidBuy, SigmoidBuyAllowed, BuyFill, PoolAfterBuy, ModelAfterBuy,
         MarketAfterBuy, SwapAllowed, MarketIs, TransferTokensFromPool
<1>2. /\ solVault' = [solVault EXCEPT ![p] = sv]
      /\ payouts' = [payouts EXCEPT ![p] = pay]
  BY DEF SigmoidBuy, SigmoidBuyAllowed, BuyFill, PoolAfterBuy, ModelAfterBuy,
         MarketAfterBuy, TransferBuySol, BuyDeposit
<1>3. IsFees(f) /\ amount_in \in Nat
  BY FeesType, U64Assumption DEF U64
<1> HIDE DEF f, quote
<1>4. x \in Int /\ y \in Int /\ z \in Int
  BY <1>1, AccountsOf, U64Assumption DEF IsQuote, U64
<1>5. z + y = pool[p].tokens_sold + pool[p].liquidity_token_reserve
  <2>1. /\ pool[p].tokens_sold \in Int /\ pool[p].liquidity_token_reserve \in Int
        /\ quote.amount_out \in Int
    BY <1>1, AccountsOf, PoolIsRaw, U64Assumption DEF IsQuote, U64, RawPool
  <2> QED
    BY <2>1
<1> HIDE DEF x, y, z, sv, tv, pay
<1>6. status \in PoolStatus
  BY AccountsOf
<1> HIDE DEF status
<1>7. /\ b \in RawPool /\ b.status = status /\ b.total_volume = pool[p].total_volume
      /\ b.total_fees = pool[p].total_fees
      /\ b.tokens_sold = z /\ b.liquidity_token_reserve = y
      /\ b.liquidity_sol_reserve = x
      /\ b.token_supply = pool[p].token_supply
  BY <1>4, <1>6, AccountsOf, PoolIsRaw DEF RawPool
<1>8. /\ model \in {"SigmoidBootstrap", "MigrationPending"} /\ model \in PoolModel
      /\ model = IF MigrationConditionsMet(s, market[p])
                 THEN "MigrationPending" ELSE "SigmoidBootstrap"
  BY DEF PoolModel
<1> HIDE DEF b, model
<1>9. /\ n \in RawMarket /\ n.model = model /\ n.sigmoid = market[p].sigmoid
      /\ n.supply_threshold_bps = market[p].supply_threshold_bps
      /\ n.min_sol_reserve = market[p].min_sol_reserve
      /\ n.migrated_at = market[p].migrated_at
      /\ n.allocated_token_liquidity = market[p].allocated_token_liquidity
      /\ n.allocated_sol_liquidity = market[p].allocated_sol_liquidity
      /\ n.total_trades = market[p].total_trades
      /\ n.buy_trades = market[p].buy_trades
  BY <1>8, AccountsOf, MarketIsRaw DEF RawMarket
<1> HIDE DEF n
<1>10. TradeCounted(t, n, 1)
  BY <1>9, TradedMarket
<1>11. /\ r.status = status /\ r.model = model
       /\ r.total_volume = pool[p].total_volume + amount_in
       /\ r.total_fees = pool[p].total_fees + f.total
       /\ r.token_supply = pool[p].token_supply
       /\ r.tokens_sold = z /\ r.liquidity_token_reserve = y
       /\ r.liquidity_sol_reserve = x
  BY <1>3, <1>7, <1>8, TradedPool
<1>12. /\ r.tokens_sold = s.tokens_sold
       /\ r.liquidity_sol_reserve = s.liquidity_sol_reserve
  <2>1. /\ s.tokens_sold = b.tokens_sold
        /\ s.liquidity_sol_reserve = b.liquidity_sol_reserve
    BY <1>3, <1>7, TradedPool
  <2>2. /\ r.tokens_sold = b.tokens_sold
        /\ r.liquidity_sol_reserve = b.liquidity_sol_reserve
    BY <1>3, <1>7, <1>8, TradedPool
  <2> QED
    BY <2>1, <2>2
<1> HIDE DEF r, s, t
<1>13. model = IF MigrationConditionsMet(r, t)
               THEN "MigrationPending" ELSE "SigmoidBootstrap"
  BY <1>8, <1>9, <1>10, <1>12
     DEF MigrationConditionsMet, migration_threshold_supply, TradeCounted
<1>14. /\ pool'[p] = r /\ market'[p] = t
       /\ OnlyOf(p)
  BY <1>1, <1>2, OthersUntouched DEF registry
<1>15. Paid(p) <= amount_in
  <2>1. /\ amount_in - f.total \in Nat
        /\ pool[p].tokens_sold \in Nat /\ market[p].sigmoid \in SigmoidConfig
    BY <1>3, AccountsOf, FeesType DEF f, IsFees, MarketState
  <2>2. quote.gross_sol \in Nat /\ quote.gross_sol <= amount_in - f.total
    BY <2>1, BuyQuoteWithinBudget DEF quote
  <2>3. Paid(p) = (quote.gross_sol + f.creator + f.curator + f.growth) + f.platform
    <3>1. quote.gross_sol \in Int
      BY <2>2
    <3> QED
      BY <1>2, <1>3, <3>1, BuyPays DEF sv, pay
  <2> QED
    BY <1>3, <2>2, <2>3 DEF IsFees
<1>16. Traded(p, TRUE, amount_in)
  BY <1>1, <1>3, <1>9, <1>10, <1>11, <1>14, <1>15, ConfigCounted
     DEF Traded, TradeCounted, IsTradeable, IsFees, status, registry
<1>17. MovedAsQuoted(p, TRUE)
  <2>1. amount_in - f.total \in Nat
    BY <1>3, FeesType DEF f, IsFees
  <2>2. quote.amount_out \in Nat /\ quote.gross_sol \in Nat
    BY <1>1, U64Assumption DEF IsQuote, U64
  <2>3. /\ pool'[p].tokens_sold = pool[p].tokens_sold + quote.amount_out
        /\ pool'[p].liquidity_sol_reserve
             = pool[p].liquidity_sol_reserve + quote.gross_sol
    BY <1>11, <1>14 DEF x, z
  <2> QED
    BY <2>1, <2>2, <2>3 DEF MovedAsQuoted, quote
<1>18. band_size(market[p].sigmoid) # 0
  BY <1>1, EmptyBandNoQuote DEF quote
<1>19. TradedOnCurve(p, TRUE)
  BY <1>1, <1>5, <1>9, <1>10, <1>11, <1>13, <1>14, <1>17, <1>18
     DEF TradedOnCurve, TradeCounted, SameAllocated, SameBins, registry
<1> QED
  BY <1>14, <1>16, <1>19

(* execute_sigmoid_sell: the same.                                         *)
LEMMA SigmoidSellStep ==
  ASSUME TypeOK, AllSound, NEW p \in Posts, NEW amount_in \in U64,
         NEW minimum, SigmoidSell(p, amount_in, minimum)
  PROVE  /\ OnlyOf(p) /\ TradedOnCurve(p, FALSE)
         /\ \E volume \in Nat : Traded(p, FALSE, volume)
<1> DEFINE gross_sol == quote_sigmoid_sell(market[p].sigmoid, pool[p].tokens_sold,
                                           amount_in).gross_sol
           f == FeeBreakdown(gross_sol)
           x == pool[p].liquidity_sol_reserve - gross_sol
           y == pool[p].liquidity_token_reserve + amount_in
           z == pool[p].tokens_sold - amount_in
           status == StatusOnTrade(p)
           b == [pool[p] EXCEPT !.status = status,
                                !.liquidity_sol_reserve = x,
                                !.liquidity_token_reserve = y,
                                !.tokens_sold = z]
           r == WithPoolFees(b, gross_sol, f)
           n == market[p]
           t == WithMarketFees(n, gross_sol, f, FALSE)
           sv == solVault[p] - ((gross_sol - f.total) + f.platform)
           tv == tokenVault[p] + amount_in
           pay == [payouts[p] EXCEPT !.platform = @ + f.platform]
<1>1. /\ NotPaused /\ p \in pools /\ IsTradeable(pool[p])
      /\ market[p].model = "SigmoidBootstrap" /\ pool[p].model = market[p].model
      /\ gross_sol \in U64
      /\ pool' = [pool EXCEPT ![p] = r]
      /\ market' = [market EXCEPT ![p] = t]
      /\ tokenVault' = [tokenVault EXCEPT ![p] = tv]
      /\ config' = WithConfigFees(config, gross_sol, f)
      /\ UNCHANGED <<registry, bin>>
  BY DEF SigmoidSell, SigmoidSellAllowed, SalePays, PoolAfterSale, MarketAfterSale,
         SwapAllowed, MarketIs, TransferTokensToPool, IsQuote
<1>2. /\ solVault' = [solVault EXCEPT ![p] = sv]
      /\ payouts' = [payouts EXCEPT ![p] = pay]
  BY DEF SigmoidSell, SigmoidSellAllowed, SalePays, PoolAfterSale, MarketAfterSale,
         TransferSellSol, CanPay, SalePayment
<1>3. gross_sol \in Nat /\ amount_in \in Nat /\ amount_in <= pool[p].tokens_sold
  <2>1. gross_sol \in Nat /\ amount_in \in Nat
    BY <1>1, U64Assumption DEF U64
  <2>2. IsQuote(quote_sigmoid_sell(market[p].sigmoid, pool[p].tokens_sold, amount_in))
    BY DEF SigmoidSell, SigmoidSellAllowed, SalePays, PoolAfterSale, MarketAfterSale
  <2>3. ~IsQuote(NoQuote)
    BY U64Assumption DEF IsQuote, NoQuote
  <2>4. ~(amount_in > pool[p].tokens_sold)
    BY <2>2, <2>3 DEF quote_sigmoid_sell
  <2>5. pool[p].tokens_sold \in Int
    BY AccountsOf, PoolIsRaw DEF RawPool
  <2> QED
    BY ONLY <2>1, <2>4, <2>5
<1>4. IsFees(f)
  BY <1>3, FeesType
<1> HIDE DEF f, gross_sol
<1>5. /\ x \in Int /\ y \in Int /\ z \in Int
      /\ z + y = pool[p].tokens_sold + pool[p].liquidity_token_reserve
      /\ z <= pool[p].tokens_sold /\ x <= pool[p].liquidity_sol_reserve
  <2>1. /\ pool[p].tokens_sold \in Int /\ pool[p].liquidity_token_reserve \in Int
        /\ pool[p].liquidity_sol_reserve \in Int
    BY AccountsOf, PoolIsRaw DEF RawPool
  <2> QED
    BY <1>3, <2>1
<1> HIDE DEF x, y, z, sv, tv, pay
<1>6. status \in PoolStatus
  BY AccountsOf
<1> HIDE DEF status
<1>7. /\ b \in RawPool /\ b.status = status /\ b.total_volume = pool[p].total_volume
      /\ b.total_fees = pool[p].total_fees
      /\ b.tokens_sold = z /\ b.liquidity_token_reserve = y
      /\ b.liquidity_sol_reserve = x /\ b.model = pool[p].model
      /\ b.token_supply = pool[p].token_supply
  BY <1>5, <1>6, AccountsOf, PoolIsRaw DEF RawPool
<1> HIDE DEF b
<1>8. n \in RawMarket
  BY AccountsOf, MarketIsRaw
<1>9. TradeCounted(t, n, 0)
  BY <1>8, TradedMarket
<1>10. /\ r.status = status /\ r.model = pool[p].model
       /\ r.token_supply = pool[p].token_supply
       /\ r.tokens_sold = z /\ r.liquidity_token_reserve = y
       /\ r.liquidity_sol_reserve = x
       /\ r.total_volume = pool[p].total_volume + gross_sol
       /\ r.total_fees = pool[p].total_fees + f.total
  BY <1>3, <1>4, <1>7, TradedPool
<1> HIDE DEF r, t
<1>11. /\ pool'[p] = r /\ market'[p] = t
       /\ OnlyOf(p)
  BY <1>1, <1>2, OthersUntouched DEF registry
<1>12. Traded(p, FALSE, gross_sol)
  BY <1>1, <1>3, <1>4, <1>8, <1>9, <1>10, <1>11, ConfigCounted
     DEF Traded, TradeCounted, IsTradeable, IsFees, status, registry
<1>13. MovedAsQuoted(p, FALSE)
  <2>1. /\ pool'[p].tokens_sold = pool[p].tokens_sold - amount_in
        /\ pool'[p].liquidity_sol_reserve
             = pool[p].liquidity_sol_reserve - gross_sol
    BY <1>10, <1>11 DEF x, z
  <2> QED
    BY <1>3, <2>1 DEF MovedAsQuoted, gross_sol
<1>14. band_size(market[p].sigmoid) # 0
  BY EmptyBandNoQuote DEF SigmoidSell, SigmoidSellAllowed
<1>15. TradedOnCurve(p, FALSE)
  BY <1>1, <1>5, <1>9, <1>10, <1>11, <1>13, <1>14
     DEF TradedOnCurve, TradeCounted, SameAllocated, SameBins, registry
<1> QED
  BY <1>3, <1>11, <1>12, <1>15

(* The key of a bin is its pool and its id.                                *)
LEMMA BinKey ==
  ASSUME TypeOK, NEW k \in bins
  PROVE  k \in BinKeys /\ k = <<k[1], k[2]>> /\ k[2] \in BinIds /\ bin[k] \in Bin
<1>1. k \in BinKeys
  BY DEF TypeOK, Typed
<1> QED
  BY <1>1 DEF BinKeys, TypeOK, Typed

(* Rewriting one bin.                                                      *)
LEMMA BinRewritten ==
  ASSUME TypeOK, NEW k \in bins, NEW r, bin' = [bin EXCEPT ![k] = r]
  PROVE  bin'[k] = r /\ \A j \in BinKeys \ {k} : bin'[j] = bin[j]
BY BinKey DEF TypeOK, Typed

(* r is a bin with other liquidity and the same price.                     *)
Refilled(r, b, tokens, sol) ==
  /\ r.price_lamports_per_token = b.price_lamports_per_token
  /\ r.token_liquidity = tokens /\ r.sol_liquidity = sol

(* What a trade or a move of liquidity writes in a bin is that.            *)
LEMMA BinRefilled ==
  ASSUME NEW b \in Bin, NEW tokens, NEW sol
  PROVE  Refilled([b EXCEPT !.token_liquidity = tokens, !.sol_liquidity = sol],
                  b, tokens, sol)
BY DEF Bin, Refilled

(* execute_dlmm_buy: tokens leave the active bin against SOL.              *)
LEMMA DlmmBuyStep ==
  ASSUME TypeOK, AllSound, NEW p \in Posts, NEW k \in bins, NEW amount_in \in U64,
         NEW minimum, DlmmBuy(p, k, amount_in, minimum)
  PROVE  /\ OnlyOf(p) /\ Traded(p, TRUE, amount_in)
         /\ \E tokens, sol : TradedInBin(p, TRUE, tokens, sol)
<1> DEFINE f == FeeBreakdown(amount_in)
           sol == amount_in - f.total
           tokens_out == quote_dlmm_buy(sol, bin[k].price_lamports_per_token)
           bt == bin[k].token_liquidity - tokens_out
           bs == bin[k].sol_liquidity + sol
           filled == [bin[k] EXCEPT !.token_liquidity = bt, !.sol_liquidity = bs]
           x == pool[p].liquidity_sol_reserve + sol
           y == pool[p].liquidity_token_reserve - tokens_out
           status == StatusOnTrade(p)
           b == [pool[p] EXCEPT !.status = status,
                                !.liquidity_sol_reserve = x,
                                !.liquidity_token_reserve = y]
           r == WithPoolFees(b, amount_in, f)
           u == market[p].allocated_token_liquidity - tokens_out
           v == market[p].allocated_sol_liquidity + sol
           id == IF filled.token_liquidity = 0 THEN market[p].active_bin_id + 1
                                               ELSE market[p].active_bin_id
           n == [market[p] EXCEPT !.allocated_token_liquidity = u,
                                  !.allocated_sol_liquidity = v,
                                  !.active_bin_id = id]
           t == WithMarketFees(n, amount_in, f, TRUE)
           sv == solVault[p] + (sol + f.creator + f.curator + f.growth)
           tv == tokenVault[p] - tokens_out
           pay == [payouts[p] EXCEPT !.platform = @ + f.platform]
<1>1. /\ NotPaused /\ p \in pools /\ IsTradeable(pool[p])
      /\ Protected(p) => amount_in <= config.max_buy_during_protection
      /\ amount_in >= MIN_TRADE_AMOUNT
      /\ market[p].model = "DLMM"
      /\ k[1] = p /\ k[2] = market[p].active_bin_id
      /\ tokens_out \in 1..U64Max
      /\ BinFits(filled)
      /\ bin' = [bin EXCEPT ![k] = filled]
      /\ pool' = [pool EXCEPT ![p] = r]
      /\ market' = [market EXCEPT ![p] = t]
      /\ tokenVault' = [tokenVault EXCEPT ![p] = tv]
      /\ config' = WithConfigFees(config, amount_in, f)
      /\ UNCHANGED registry
  BY DEF DlmmBuy, SwapAllowed, MarketIs, IsActiveBin, TransferTokensFromPool
<1>2. /\ solVault' = [solVault EXCEPT ![p] = sv]
      /\ payouts' = [payouts EXCEPT ![p] = pay]
  BY DEF DlmmBuy, TransferBuySol, BuyDeposit
<1>3. IsFees(f) /\ amount_in \in Nat
  BY FeesType, U64Assumption DEF U64
<1>4. \E amount \in Nat : /\ amount >= MIN_TRADE_AMOUNT
                          /\ sol = amount - FeeBreakdown(amount).total
  BY <1>1, <1>3
<1>5. tokens_out = quote_dlmm_buy(sol, bin[k].price_lamports_per_token)
  OBVIOUS
<1> HIDE DEF f, tokens_out
<1>6. tokens_out \in Nat /\ sol \in Int
  BY <1>1, <1>3, U64Assumption DEF IsFees
<1>7. /\ k = <<p, market[p].active_bin_id>> /\ bin[k] \in Bin /\ k \in BinKeys
      /\ k[1] = p
  BY <1>1, BinKey
<1>8. /\ bin[k].token_liquidity \in Nat /\ bin[k].sol_liquidity \in Nat
      /\ bt \in Int /\ bs \in Int
  BY <1>6, <1>7, U64Assumption DEF Bin, U64
<1>9. x \in Int /\ y \in Int
  BY <1>6, AccountsOf
<1>10. /\ market[p].active_bin_id \in Int
       /\ market[p].allocated_token_liquidity \in Int
       /\ market[p].allocated_sol_liquidity \in Int
       /\ u \in Int /\ v \in Int /\ id \in Int
  BY <1>6, AccountsOf, MarketIsRaw DEF RawMarket
<1>11. /\ bt = bin[k].token_liquidity + (-tokens_out)
       /\ y = pool[p].liquidity_token_reserve + (-tokens_out)
       /\ u = market[p].allocated_token_liquidity + (-tokens_out)
       /\ bs = bin[k].sol_liquidity + sol
       /\ x = pool[p].liquidity_sol_reserve + sol
       /\ v = market[p].allocated_sol_liquidity + sol
       /\ -tokens_out \in Int
  BY <1>6, <1>8, <1>10, AccountsOf
<1> HIDE DEF x, y, u, v, sv, tv, pay, bt, bs
<1>12. /\ bin'[k].price_lamports_per_token = bin[k].price_lamports_per_token
       /\ bin'[k].token_liquidity = bt /\ bin'[k].sol_liquidity = bs
       /\ \A j \in BinKeys \ {k} : bin'[j] = bin[j]
  <2>1. Refilled(filled, bin[k], bt, bs)
    BY <1>7, BinRefilled
  <2>2. bin' = [bin EXCEPT ![k] = filled]
    BY <1>1
  <2> HIDE DEF filled
  <2>3. bin'[k] = filled /\ \A j \in BinKeys \ {k} : bin'[j] = bin[j]
    BY <2>2, BinRewritten
  <2> QED
    BY <2>1, <2>3 DEF Refilled
<1>13. filled.token_liquidity = bt /\ bt >= 0
  <2>1. filled.token_liquidity = bt
    BY <1>7 DEF Bin
  <2> HIDE DEF filled
  <2> QED
    BY <1>1, <2>1, U64Assumption DEF BinFits, U64
<1>14. id = IF bt = 0 THEN market[p].active_bin_id + 1 ELSE market[p].active_bin_id
  <2> HIDE DEF filled
  <2> QED
    BY <1>13
<1> HIDE DEF filled, id
<1>15. status \in PoolStatus
  BY AccountsOf
<1> HIDE DEF status
<1>16. /\ b \in RawPool /\ b.status = status /\ b.total_volume = pool[p].total_volume
      /\ b.total_fees = pool[p].total_fees
       /\ b.tokens_sold = pool[p].tokens_sold /\ b.model = pool[p].model
       /\ b.liquidity_sol_reserve = x /\ b.liquidity_token_reserve = y
  BY <1>9, <1>15, AccountsOf, PoolIsRaw DEF RawPool
<1> HIDE DEF b
<1>17. /\ n \in RawMarket /\ n.model = market[p].model /\ n.sigmoid = market[p].sigmoid
       /\ n.migrated_at = market[p].migrated_at
       /\ n.active_bin_id = id
       /\ n.allocated_token_liquidity = u /\ n.allocated_sol_liquidity = v
       /\ n.total_trades = market[p].total_trades
       /\ n.buy_trades = market[p].buy_trades
  BY <1>10, AccountsOf, MarketIsRaw DEF RawMarket
<1> HIDE DEF n
<1>18. TradeCounted(t, n, 1)
  BY <1>17, TradedMarket
<1>19. /\ r.status = status /\ r.tokens_sold = b.tokens_sold
       /\ r.model = b.model
       /\ r.liquidity_sol_reserve = b.liquidity_sol_reserve
       /\ r.liquidity_token_reserve = b.liquidity_token_reserve
       /\ r.total_volume = pool[p].total_volume + amount_in
       /\ r.total_fees = pool[p].total_fees + f.total
  BY <1>3, <1>16, TradedPool
<1> HIDE DEF r, t
<1>20. \A j \in BinKeys : j[1] # p => (j \in bins' <=> j \in bins) /\ bin'[j] = bin[j]
  BY <1>1, <1>12 DEF registry
<1>21. /\ pool'[p] = r /\ market'[p] = t
       /\ OnlyOf(p)
  BY <1>1, <1>2, <1>20, OthersUntouched DEF registry
<1>22. Traded(p, TRUE, amount_in)
  <2>1. Paid(p) = (sol + f.creator + f.curator + f.growth) + f.platform
    BY <1>2, <1>3, <1>6, BuyPays DEF sv, pay
  <2>2. Paid(p) <= amount_in
    BY <1>3, <2>1 DEF IsFees
  <2> QED
    BY <1>1, <1>3, <1>17, <1>18, <1>19, <1>21, <2>2, ConfigCounted
       DEF Traded, TradeCounted, IsTradeable, IsFees, status, registry
<1>23. MovesTogether(p, k, -tokens_out, sol)
  BY <1>1, <1>6, <1>11, <1>12, <1>16, <1>17, <1>18, <1>19, <1>21
     DEF MovesTogether, TradeCounted, registry
<1>24. market'[p].active_bin_id = (IF bin'[k].token_liquidity = 0
                                  THEN market[p].active_bin_id + 1
                                  ELSE market[p].active_bin_id)
  BY <1>12, <1>14, <1>17, <1>18, <1>21 DEF TradeCounted
<1>25. -(-tokens_out) = quote_dlmm_buy(sol, bin[k].price_lamports_per_token)
  BY <1>5, <1>6
<1>26. TradedInBin(p, TRUE, -tokens_out, sol)
  BY <1>1, <1>4, <1>7, <1>12, <1>13, <1>16, <1>17, <1>18, <1>19, <1>21, <1>23, <1>24, <1>25
     DEF TradedInBin, TradeCounted
<1> QED
  BY <1>21, <1>22, <1>26

(* execute_dlmm_sell: SOL leaves the active bin against tokens.            *)
LEMMA DlmmSellStep ==
  ASSUME TypeOK, AllSound, NEW p \in Posts, NEW k \in bins, NEW amount_in \in U64,
         NEW minimum, DlmmSell(p, k, amount_in, minimum)
  PROVE  /\ OnlyOf(p) /\ \E volume \in Nat : Traded(p, FALSE, volume)
         /\ \E tokens, sol : TradedInBin(p, FALSE, tokens, sol)
<1> DEFINE gross_sol == quote_dlmm_sell(amount_in, bin[k].price_lamports_per_token)
           f == FeeBreakdown(gross_sol)
           bt == bin[k].token_liquidity + amount_in
           bs == bin[k].sol_liquidity - gross_sol
           filled == [bin[k] EXCEPT !.token_liquidity = bt, !.sol_liquidity = bs]
           x == pool[p].liquidity_sol_reserve - gross_sol
           y == pool[p].liquidity_token_reserve + amount_in
           status == StatusOnTrade(p)
           b == [pool[p] EXCEPT !.status = status,
                                !.liquidity_sol_reserve = x,
                                !.liquidity_token_reserve = y]
           r == WithPoolFees(b, gross_sol, f)
           u == market[p].allocated_token_liquidity + amount_in
           v == market[p].allocated_sol_liquidity - gross_sol
           id == IF filled.sol_liquidity = 0 THEN market[p].active_bin_id - 1
                                             ELSE market[p].active_bin_id
           n == [market[p] EXCEPT !.allocated_token_liquidity = u,
                                  !.allocated_sol_liquidity = v,
                                  !.active_bin_id = id]
           t == WithMarketFees(n, gross_sol, f, FALSE)
           sv == solVault[p] - ((gross_sol - f.total) + f.platform)
           tv == tokenVault[p] + amount_in
           pay == [payouts[p] EXCEPT !.platform = @ + f.platform]
<1>1. /\ NotPaused /\ p \in pools /\ IsTradeable(pool[p])
      /\ market[p].model = "DLMM"
      /\ k[1] = p /\ k[2] = market[p].active_bin_id
      /\ gross_sol \in 1..U64Max
      /\ BinFits(filled)
      /\ bin' = [bin EXCEPT ![k] = filled]
      /\ pool' = [pool EXCEPT ![p] = r]
      /\ market' = [market EXCEPT ![p] = t]
      /\ tokenVault' = [tokenVault EXCEPT ![p] = tv]
      /\ config' = WithConfigFees(config, gross_sol, f)
      /\ UNCHANGED registry
  BY DEF DlmmSell, SwapAllowed, MarketIs, IsActiveBin, TransferTokensToPool
<1>2. /\ solVault' = [solVault EXCEPT ![p] = sv]
      /\ payouts' = [payouts EXCEPT ![p] = pay]
  BY DEF DlmmSell, TransferSellSol, CanPay, SalePayment
<1>3. gross_sol \in Nat /\ amount_in \in Nat
  BY <1>1, U64Assumption DEF U64
<1>4. IsFees(f)
  BY <1>3, FeesType
<1>5. gross_sol = quote_dlmm_sell(amount_in, bin[k].price_lamports_per_token)
  OBVIOUS
<1> HIDE DEF f, gross_sol
<1>6. -gross_sol \in Int /\ -(-gross_sol) = gross_sol
  BY <1>3
<1>7. /\ k = <<p, market[p].active_bin_id>> /\ bin[k] \in Bin /\ k \in BinKeys
      /\ k[1] = p
  BY <1>1, BinKey
<1>8. /\ bin[k].token_liquidity \in Nat /\ bin[k].sol_liquidity \in Nat
      /\ bt \in Int /\ bs \in Int
  BY <1>3, <1>7, U64Assumption DEF Bin, U64
<1>9. x \in Int /\ y \in Int
  BY <1>3, AccountsOf
<1>10. /\ market[p].active_bin_id \in Int
       /\ market[p].allocated_token_liquidity \in Int
       /\ market[p].allocated_sol_liquidity \in Int
       /\ u \in Int /\ v \in Int /\ id \in Int
  BY <1>3, AccountsOf, MarketIsRaw DEF RawMarket
<1>11. /\ bt = bin[k].token_liquidity + amount_in
       /\ y = pool[p].liquidity_token_reserve + amount_in
       /\ u = market[p].allocated_token_liquidity + amount_in
       /\ bs = bin[k].sol_liquidity + (-gross_sol)
       /\ x = pool[p].liquidity_sol_reserve + (-gross_sol)
       /\ v = market[p].allocated_sol_liquidity + (-gross_sol)
  BY <1>3, <1>8, <1>10, AccountsOf
<1> HIDE DEF x, y, u, v, sv, tv, pay, bt, bs
<1>12. /\ bin'[k].price_lamports_per_token = bin[k].price_lamports_per_token
       /\ bin'[k].token_liquidity = bt /\ bin'[k].sol_liquidity = bs
       /\ \A j \in BinKeys \ {k} : bin'[j] = bin[j]
  <2>1. Refilled(filled, bin[k], bt, bs)
    BY <1>7, BinRefilled
  <2>2. bin' = [bin EXCEPT ![k] = filled]
    BY <1>1
  <2> HIDE DEF filled
  <2>3. bin'[k] = filled /\ \A j \in BinKeys \ {k} : bin'[j] = bin[j]
    BY <2>2, BinRewritten
  <2> QED
    BY <2>1, <2>3 DEF Refilled
<1>13. filled.sol_liquidity = bs
  BY <1>7 DEF Bin
<1>14. id = IF bs = 0 THEN market[p].active_bin_id - 1 ELSE market[p].active_bin_id
  <2> HIDE DEF filled
  <2> QED
    BY <1>13
<1> HIDE DEF filled, id
<1>15. status \in PoolStatus
  BY AccountsOf
<1> HIDE DEF status
<1>16. /\ b \in RawPool /\ b.status = status /\ b.total_volume = pool[p].total_volume
      /\ b.total_fees = pool[p].total_fees
       /\ b.tokens_sold = pool[p].tokens_sold /\ b.model = pool[p].model
       /\ b.liquidity_sol_reserve = x /\ b.liquidity_token_reserve = y
  BY <1>9, <1>15, AccountsOf, PoolIsRaw DEF RawPool
<1> HIDE DEF b
<1>17. /\ n \in RawMarket /\ n.model = market[p].model /\ n.sigmoid = market[p].sigmoid
       /\ n.migrated_at = market[p].migrated_at
       /\ n.active_bin_id = id
       /\ n.allocated_token_liquidity = u /\ n.allocated_sol_liquidity = v
       /\ n.total_trades = market[p].total_trades
       /\ n.buy_trades = market[p].buy_trades
  BY <1>10, AccountsOf, MarketIsRaw DEF RawMarket
<1> HIDE DEF n
<1>18. TradeCounted(t, n, 0)
  BY <1>17, TradedMarket
<1>19. /\ r.status = status /\ r.tokens_sold = b.tokens_sold
       /\ r.model = b.model
       /\ r.liquidity_sol_reserve = b.liquidity_sol_reserve
       /\ r.liquidity_token_reserve = b.liquidity_token_reserve
       /\ r.total_volume = pool[p].total_volume + gross_sol
       /\ r.total_fees = pool[p].total_fees + f.total
  BY <1>3, <1>4, <1>16, TradedPool
<1> HIDE DEF r, t
<1>20. \A j \in BinKeys : j[1] # p => (j \in bins' <=> j \in bins) /\ bin'[j] = bin[j]
  BY <1>1, <1>12 DEF registry
<1>21. /\ pool'[p] = r /\ market'[p] = t
       /\ OnlyOf(p)
  BY <1>1, <1>2, <1>20, OthersUntouched DEF registry
<1>22. Traded(p, FALSE, gross_sol)
  BY <1>1, <1>3, <1>4, <1>17, <1>18, <1>19, <1>21, ConfigCounted
     DEF Traded, TradeCounted, IsTradeable, IsFees, status, registry
<1>23. MovesTogether(p, k, amount_in, -gross_sol)
  BY <1>1, <1>3, <1>6, <1>11, <1>12, <1>16, <1>17, <1>18, <1>19, <1>21
     DEF MovesTogether, TradeCounted, registry
<1>24. market'[p].active_bin_id = (IF bin'[k].sol_liquidity = 0
                                  THEN market[p].active_bin_id - 1
                                  ELSE market[p].active_bin_id)
  BY <1>12, <1>14, <1>17, <1>18, <1>21 DEF TradeCounted
<1>25. TradedInBin(p, FALSE, amount_in, -gross_sol)
  BY <1>1, <1>3, <1>5, <1>6, <1>7, <1>16, <1>17, <1>18, <1>19, <1>21, <1>23, <1>24
     DEF TradedInBin, TradeCounted
<1> QED
  BY <1>3, <1>21, <1>22, <1>25
-----------------------------------------------------------------------------
(* create_pool writes the records of one pool that did not exist.          *)
LEMMA CreatePoolStep ==
  ASSUME TypeOK, NEW w \in Curators, NEW p \in Posts, NEW params \in PoolParams,
         CreatePool(w, p, params)
  PROVE  OnlyOf(p) /\ Created(p)
<1> DEFINE sigmoid == NewSigmoid(params)
           threshold == unwrap_or(params.supply_threshold_bps, Defaults.supply_threshold_bps)
           reserve == unwrap_or(params.min_sol_reserve, Defaults.min_sol_reserve)
           step == unwrap_or(params.bin_step_bps, Defaults.bin_step_bps)
           status == IF config.launch_protection_duration > 0
                     THEN "LaunchProtection" ELSE "Active"
           ends_at == now + config.launch_protection_duration
           supply == sigmoid.token_supply
           r == [BlankPool EXCEPT !.curator = w,
                                  !.status = status,
                                  !.liquidity_token_reserve = supply,
                                  !.token_supply = supply,
                                  !.launch_protection_ends_at = ends_at]
           m == [BlankMarket EXCEPT !.sigmoid = sigmoid,
                                    !.supply_threshold_bps = threshold,
                                    !.min_sol_reserve = reserve,
                                    !.bin_step_bps = step]
           pay == [payouts[p] EXCEPT !.creation = config.pool_creation_fee]
<1>1. /\ NotPaused /\ p \notin pools
      /\ pools' = pools \cup {p}
      /\ pool' = [pool EXCEPT ![p] = r]
      /\ market' = [market EXCEPT ![p] = m]
      /\ tokenVault' = [tokenVault EXCEPT ![p] = supply]
      /\ payouts' = [payouts EXCEPT ![p] = pay]
      /\ config' = [config EXCEPT !.total_pools = @ + 1]
      /\ UNCHANGED <<bins, bin, solVault>>
      /\ ValidSigmoid(sigmoid)
  BY DEF CreatePool, CanCreate
<1>9. sigmoid = NewSigmoid(params) /\ supply = sigmoid.token_supply
  OBVIOUS
<1> HIDE DEF sigmoid, threshold, reserve, step, status, ends_at, supply, pay
<1>10. m.sigmoid = sigmoid /\ r.token_supply = supply
  BY DEF BlankMarket, BlankPool
<1>2. /\ m.model = "SigmoidBootstrap" /\ m.total_trades = 0 /\ m.buy_trades = 0
      /\ r.model = "SigmoidBootstrap" /\ r.tokens_sold = 0
      /\ r.liquidity_token_reserve = r.token_supply
      /\ m.allocated_token_liquidity = 0 /\ m.allocated_sol_liquidity = 0
      /\ r.total_volume = 0 /\ r.total_fees = 0
  BY DEF BlankMarket, BlankPool
<1> HIDE DEF r, m
<1>3. market[p].total_trades = 0 /\ market[p].buy_trades = 0
  BY <1>1 DEF TypeOK, Unborn, BlankMarket
<1>4. solVault' = [solVault EXCEPT ![p] = solVault[p]]
  BY <1>1 DEF TypeOK, Typed
<1>5. pools' \ {p} = pools \ {p}
  BY <1>1
<1>6. \A k \in BinKeys : k[1] # p => (k \in bins' <=> k \in bins) /\ bin'[k] = bin[k]
  BY <1>1
<1>7. pool'[p] = r /\ market'[p] = m /\ OnlyOf(p)
  BY <1>1, <1>4, <1>5, <1>6, OthersUntouched
<1>8. /\ config'.total_pools = config.total_pools + 1
      /\ config'.total_volume = config.total_volume
      /\ config'.total_fees_collected = config.total_fees_collected
  BY <1>1 DEF TypeOK, Typed, Config
<1>11. /\ market'[p].sigmoid = NewSigmoid(params) /\ ValidSigmoid(market'[p].sigmoid)
       /\ pool'[p].token_supply = market'[p].sigmoid.token_supply
  BY <1>1, <1>7, <1>9, <1>10
<1> QED
  BY <1>1, <1>2, <1>3, <1>7, <1>8, <1>11 DEF Created, SameTrades, SameBins

(* migrate_pool writes the phase of one pool, and its active bin.          *)
LEMMA MigratePoolStep ==
  ASSUME TypeOK, NEW w \in Wallets, NEW p \in Posts, NEW active_bin_id,
         NEW enforce, MigratePool(w, p, active_bin_id, enforce)
  PROVE  OnlyOf(p) /\ Migrated(p)
<1> DEFINE id == StartingBin(p, active_bin_id)
           r == [pool[p] EXCEPT !.model = "DLMM"]
           m == [market[p] EXCEPT !.model = "DLMM", !.active_bin_id = id,
                                  !.migrated_at = now]
<1>1. /\ NotPaused /\ p \in pools
      /\ market[p].model \in {"SigmoidBootstrap", "MigrationPending"}
      /\ pool' = [pool EXCEPT ![p] = r]
      /\ market' = [market EXCEPT ![p] = m]
      /\ UNCHANGED <<pools, bins, bin, solVault, tokenVault, payouts, config>>
  BY DEF MigratePool, MigrationAllowed, Unmigrated, registry, balances
<1> HIDE DEF id
<1>2. pool[p] \in Pool /\ market[p] \in MarketState
  BY DEF TypeOK, Typed
<1>3. /\ m.model = "DLMM" /\ m.sigmoid = market[p].sigmoid
      /\ m.total_trades = market[p].total_trades
      /\ m.buy_trades = market[p].buy_trades
      /\ m.allocated_token_liquidity = market[p].allocated_token_liquidity
      /\ m.allocated_sol_liquidity = market[p].allocated_sol_liquidity
      /\ r.tokens_sold = pool[p].tokens_sold /\ r.model = "DLMM"
      /\ r.liquidity_sol_reserve = pool[p].liquidity_sol_reserve
      /\ r.liquidity_token_reserve = pool[p].liquidity_token_reserve
      /\ r.total_volume = pool[p].total_volume
      /\ r.total_fees = pool[p].total_fees
  BY <1>2 DEF MarketState, Pool
<1> HIDE DEF r, m
<1>4. /\ solVault' = [solVault EXCEPT ![p] = solVault[p]]
      /\ tokenVault' = [tokenVault EXCEPT ![p] = tokenVault[p]]
      /\ payouts' = [payouts EXCEPT ![p] = payouts[p]]
  BY <1>1 DEF TypeOK, Typed
<1>5. \A k \in BinKeys : k[1] # p => (k \in bins' <=> k \in bins) /\ bin'[k] = bin[k]
  BY <1>1
<1>6. pool'[p] = r /\ market'[p] = m /\ OnlyOf(p)
  <2>1. /\ pool' = [pool EXCEPT ![p] = r] /\ market' = [market EXCEPT ![p] = m]
        /\ pools' \ {p} = pools \ {p}
    BY <1>1
  <2> QED
    BY <1>4, <1>5, <2>1, OthersUntouched
<1> QED
  BY <1>1, <1>3, <1>6
     DEF Migrated, SameAllocated, SameTotals, Counts, SameTrades, SameBins

(* init_bin opens one bin out of reserves that no bin holds.               *)
LEMMA InitBinStep ==
  ASSUME TypeOK, NEW w \in Wallets, NEW p \in Posts, NEW params \in BinParams,
         InitBin(w, p, params)
  PROVE  OnlyOf(p) /\ \E id, tokens, sol : OpensBin(p, id, tokens, sol)
<1> DEFINE id == params.bin_id
           tokens == params.token_liquidity
           sol == params.sol_liquidity
           b == <<p, id>>
           u == market[p].allocated_token_liquidity + tokens
           v == market[p].allocated_sol_liquidity + sol
           m == [market[p] EXCEPT !.allocated_token_liquidity = u,
                                  !.allocated_sol_liquidity = v]
           new == [price_lamports_per_token |-> params.price_lamports_per_token,
                   token_liquidity |-> tokens, sol_liquidity |-> sol]
<1>1. /\ NotPaused /\ p \in pools /\ market[p].model = "DLMM"
      /\ b \notin bins
      /\ params.price_lamports_per_token > 0
      /\ tokens > 0 \/ sol > 0
      /\ m.allocated_token_liquidity <= pool[p].liquidity_token_reserve
      /\ m.allocated_sol_liquidity <= pool[p].liquidity_sol_reserve
      /\ bins' = bins \cup {b}
      /\ bin' = [bin EXCEPT ![b] = new]
      /\ market' = [market EXCEPT ![p] = m]
      /\ UNCHANGED <<pools, pool, solVault, tokenVault, payouts, config>>
  BY DEF InitBin, CanProvide, Allocate, balances
<1>2. /\ id \in BinIds /\ b \in BinKeys /\ tokens \in Nat /\ sol \in Nat
      /\ new.price_lamports_per_token > 0
      /\ new.token_liquidity = tokens /\ new.sol_liquidity = sol
  BY <1>1, LiquidityAssumption, U64Assumption DEF BinKeys, U64
<1>3. b[1] = p
  OBVIOUS
<1> HIDE DEF id, tokens, sol, u, v, new
<1>4. market[p] \in MarketState
  BY DEF TypeOK, Typed
<1>5. /\ m.model = market[p].model /\ m.sigmoid = market[p].sigmoid
      /\ m.migrated_at = market[p].migrated_at
      /\ m.active_bin_id = market[p].active_bin_id
      /\ m.total_trades = market[p].total_trades
      /\ m.buy_trades = market[p].buy_trades
      /\ m.allocated_token_liquidity = u /\ m.allocated_sol_liquidity = v
  BY <1>4 DEF MarketState
<1> HIDE DEF m, b
<1>6. /\ pool' = [pool EXCEPT ![p] = pool[p]]
      /\ solVault' = [solVault EXCEPT ![p] = solVault[p]]
      /\ tokenVault' = [tokenVault EXCEPT ![p] = tokenVault[p]]
      /\ payouts' = [payouts EXCEPT ![p] = payouts[p]]
  BY <1>1 DEF TypeOK, Typed
<1>7. bin'[b] = new /\ \A k \in BinKeys \ {b} : bin'[k] = bin[k]
  BY <1>1, <1>2 DEF TypeOK, Typed
<1>8. \A k \in BinKeys : k[1] # p => (k \in bins' <=> k \in bins) /\ bin'[k] = bin[k]
  BY <1>1, <1>3, <1>7
<1>9. /\ pool'[p] = pool[p] /\ market'[p] = m
      /\ OnlyOf(p)
  <2>1. market' = [market EXCEPT ![p] = m] /\ pools' \ {p} = pools \ {p}
    BY <1>1
  <2> QED
    BY <1>6, <1>8, <2>1, OthersUntouched
<1>10. InBins(p)
  BY <1>1, <1>5, <1>9 DEF InBins, SameTotals, Counts, SameTrades
<1>11. OpensBin(p, id, tokens, sol)
  BY <1>1, <1>2, <1>5, <1>7, <1>9, <1>10 DEF OpensBin, u, v, b
<1> QED
  BY <1>9, <1>11

(* add_liquidity and remove_liquidity move a bin, the reserves and the     *)
(* allocation together.                                                    *)
LEMMA MoveLiquidityStep ==
  ASSUME TypeOK, NEW w \in Wallets, NEW p \in Posts, NEW b \in bins, b[1] = p,
         CanProvide(w, p), NEW tokens \in Int, NEW sol \in Int,
         MoveLiquidity(p, b, tokens, sol)
  PROVE  OnlyOf(p) /\ Provides(p, b, tokens, sol)
<1> DEFINE bt == bin[b].token_liquidity + tokens
           bs == bin[b].sol_liquidity + sol
           filled == [bin[b] EXCEPT !.token_liquidity = bt, !.sol_liquidity = bs]
           x == pool[p].liquidity_token_reserve + tokens
           y == pool[p].liquidity_sol_reserve + sol
           r == [pool[p] EXCEPT !.liquidity_token_reserve = x,
                                !.liquidity_sol_reserve = y]
           u == market[p].allocated_token_liquidity + tokens
           v == market[p].allocated_sol_liquidity + sol
           m == [market[p] EXCEPT !.allocated_token_liquidity = u,
                                  !.allocated_sol_liquidity = v]
           sv == solVault[p] + sol
           tv == tokenVault[p] + tokens
<1>1. /\ bin' = [bin EXCEPT ![b] = filled]
      /\ pool' = [pool EXCEPT ![p] = r]
      /\ market' = [market EXCEPT ![p] = m]
      /\ solVault' = [solVault EXCEPT ![p] = sv]
      /\ tokenVault' = [tokenVault EXCEPT ![p] = tv]
      /\ UNCHANGED <<registry, payouts, config>>
  BY DEF MoveLiquidity, Allocate
<1>2. NotPaused /\ p \in pools /\ market[p].model = "DLMM"
  BY DEF CanProvide
<1>3. /\ pool[p] \in Pool /\ market[p] \in MarketState
      /\ b \in BinKeys /\ bin[b] \in Bin
  BY BinKey DEF TypeOK, Typed
<1> HIDE DEF bt, bs, x, y, u, v, sv, tv
<1>4. Refilled(filled, bin[b], bt, bs)
  BY <1>3, BinRefilled
<1>5. /\ r.liquidity_token_reserve = x /\ r.liquidity_sol_reserve = y
      /\ r.tokens_sold = pool[p].tokens_sold /\ r.model = pool[p].model
      /\ r.total_volume = pool[p].total_volume
      /\ r.total_fees = pool[p].total_fees
  BY <1>3 DEF Pool
<1>6. /\ m.model = market[p].model /\ m.sigmoid = market[p].sigmoid
      /\ m.migrated_at = market[p].migrated_at
      /\ m.active_bin_id = market[p].active_bin_id
      /\ m.total_trades = market[p].total_trades
      /\ m.buy_trades = market[p].buy_trades
      /\ m.allocated_token_liquidity = u /\ m.allocated_sol_liquidity = v
  BY <1>3 DEF MarketState
<1> HIDE DEF filled, r, m
<1>7. bin'[b] = filled /\ \A k \in BinKeys \ {b} : bin'[k] = bin[k]
  BY <1>1, BinRewritten
<1>8. \A k \in BinKeys : k[1] # p => (k \in bins' <=> k \in bins) /\ bin'[k] = bin[k]
  BY <1>1, <1>7 DEF registry
<1>9. payouts' = [payouts EXCEPT ![p] = payouts[p]]
  BY <1>1 DEF TypeOK, Typed
<1>10. /\ pool'[p] = r /\ market'[p] = m
       /\ OnlyOf(p)
  BY <1>1, <1>8, <1>9, OthersUntouched DEF registry
<1>11. InBins(p)
  BY <1>1, <1>2, <1>5, <1>6, <1>10
     DEF InBins, SameTotals, Counts, SameTrades, registry
<1>12. MovesTogether(p, b, tokens, sol)
  BY <1>1, <1>4, <1>5, <1>6, <1>7, <1>10
     DEF MovesTogether, Refilled, registry, bt, bs, x, y, u, v
<1> QED
  BY <1>10, <1>11, <1>12 DEF Provides
-----------------------------------------------------------------------------
(* The protocol's counts stay as they are, or begin.                       *)
SameCounts == Counts' = Counts \/ (~initialized /\ Counts' = <<0, 0, 0>>)

AllQuiet == SameCounts /\ \A q \in Posts : Quiet(q)

(* Of any two pools a step leaves one alone.                               *)
Apart == \A p, q \in Posts : p # q => Untouched(p) \/ Untouched(q)

(* It does when it is about one pool.                                      *)
LEMMA OneApart == ASSUME NEW p \in Posts, OnlyOf(p) PROVE Apart
BY DEF OnlyOf, Apart

(* A call that writes no account of a pool.                                *)
LEMMA NothingWritten ==
  ASSUME UNCHANGED <<pools, pool, market, bins, bin>>, SameCounts,
         \A q \in Posts : payouts'[q] = payouts[q],
         (\E p \in Posts : \A q \in Posts \ {p} :
            solVault'[q] = solVault[q] /\ tokenVault'[q] = tokenVault[q])
           \/ (solVault' = solVault /\ tokenVault' = tokenVault)
  PROVE  AllQuiet /\ Apart
<1>1. AllQuiet
  BY DEF AllQuiet, Quiet, SameTotals
<1>2. \A q \in Posts :
        solVault'[q] = solVault[q] /\ tokenVault'[q] = tokenVault[q] => Untouched(q)
  BY DEF Untouched
<1> QED
  BY <1>1, <1>2 DEF Apart

(* A call that writes one pool record, elsewhere than in its reserves.     *)
LEMMA RecordWritten ==
  ASSUME TypeOK, NEW p \in Posts, NEW r, NEW sv, NEW pay,
         pool' = [pool EXCEPT ![p] = r],
         r.liquidity_sol_reserve = pool[p].liquidity_sol_reserve,
         r.liquidity_token_reserve = pool[p].liquidity_token_reserve,
         r.tokens_sold = pool[p].tokens_sold,
         r.token_supply = pool[p].token_supply, r.model = pool[p].model,
         r.total_volume = pool[p].total_volume, r.total_fees = pool[p].total_fees,
         config' = config,
         solVault' = [solVault EXCEPT ![p] = sv],
         payouts' = [payouts EXCEPT ![p] = pay],
         UNCHANGED <<pools, market, bins, bin, tokenVault>>
  PROVE  AllQuiet /\ Apart
<1>1. AllQuiet
  BY DEF AllQuiet, Quiet, SameTotals, SameCounts, Counts, TypeOK, Typed
<1>2. OnlyOf(p)
  <2> SUFFICES ASSUME NEW q \in Posts \ {p} PROVE Untouched(q)
    BY DEF OnlyOf
  <2>1. /\ pool'[q] = pool[q] /\ solVault'[q] = solVault[q]
        /\ payouts'[q] = payouts[q]
    BY DEF TypeOK, Typed
  <2> QED
    BY <2>1 DEF Untouched
<1> QED
  BY <1>1, <1>2, OneApart

(* The admin's calls are quiet.                                            *)
LEMMA AdminQuiet == ASSUME TypeOK, AdminStep PROVE AllQuiet /\ Apart
<1>1. ASSUME NEW w, NEW t, NEW params, Initialize(w, t, params)
      PROVE  AllQuiet /\ Apart
  BY <1>1, NothingWritten DEF Initialize, SameCounts, Counts, balances
<1>2. ASSUME NEW w, NEW u, UpdateConfig(w, u)
      PROVE  AllQuiet /\ Apart
  <2>1. Counts' = Counts
    BY <1>2 DEF UpdateConfig, Counts, TypeOK, Typed, Config
  <2> QED
    BY <1>2, <2>1, NothingWritten DEF UpdateConfig, SameCounts, balances
<1>3. ASSUME NEW p \in Posts, NEW r,
             pool' = [pool EXCEPT ![p] = r],
             r.liquidity_sol_reserve = pool[p].liquidity_sol_reserve,
             r.liquidity_token_reserve = pool[p].liquidity_token_reserve,
             r.tokens_sold = pool[p].tokens_sold,
             r.token_supply = pool[p].token_supply, r.model = pool[p].model,
             r.total_volume = pool[p].total_volume, r.total_fees = pool[p].total_fees,
             UNCHANGED <<registry, config, market, bin, balances, now>>
      PROVE  AllQuiet /\ Apart
  <2>1. /\ solVault' = [solVault EXCEPT ![p] = solVault[p]]
        /\ payouts' = [payouts EXCEPT ![p] = payouts[p]]
    BY <1>3 DEF TypeOK, Typed, balances
  <2>2. UNCHANGED <<pools, market, bins, bin, tokenVault>>
    BY <1>3 DEF registry, balances
  <2> QED
    BY <1>3, <2>1, <2>2, RecordWritten
<1>4. ASSUME NEW w, NEW p \in Posts, NEW s, SetPoolStatus(w, p, s)
      PROVE  AllQuiet /\ Apart
  <2> DEFINE r == [pool[p] EXCEPT !.status = s]
  <2>1. /\ pool' = [pool EXCEPT ![p] = r]
        /\ UNCHANGED <<registry, config, market, bin, balances, now>>
    BY <1>4 DEF SetPoolStatus
  <2>2. /\ r.liquidity_sol_reserve = pool[p].liquidity_sol_reserve
        /\ r.liquidity_token_reserve = pool[p].liquidity_token_reserve
        /\ r.tokens_sold = pool[p].tokens_sold
        /\ r.token_supply = pool[p].token_supply /\ r.model = pool[p].model
        /\ r.total_volume = pool[p].total_volume
        /\ r.total_fees = pool[p].total_fees
    BY DEF TypeOK, Typed, Pool
  <2> HIDE DEF r
  <2> QED
    BY <1>3, <2>1, <2>2
<1>5. ASSUME NEW w, NEW p \in Posts, NEW c, SetCreator(w, p, c)
      PROVE  AllQuiet /\ Apart
  <2> DEFINE r == [pool[p] EXCEPT !.creator = c]
  <2>1. /\ pool' = [pool EXCEPT ![p] = r]
        /\ UNCHANGED <<registry, config, market, bin, balances, now>>
    BY <1>5 DEF SetCreator
  <2>2. /\ r.liquidity_sol_reserve = pool[p].liquidity_sol_reserve
        /\ r.liquidity_token_reserve = pool[p].liquidity_token_reserve
        /\ r.tokens_sold = pool[p].tokens_sold
        /\ r.token_supply = pool[p].token_supply /\ r.model = pool[p].model
        /\ r.total_volume = pool[p].total_volume
        /\ r.total_fees = pool[p].total_fees
    BY DEF TypeOK, Typed, Pool
  <2> HIDE DEF r
  <2> QED
    BY <1>3, <2>1, <2>2
<1> QED
  BY <1>1, <1>2, <1>4, <1>5 DEF AdminStep

(* So are the claims.                                                      *)
LEMMA ClaimQuiet == ASSUME TypeOK, ClaimStep PROVE AllQuiet /\ Apart
<1>1. PICK w \in Claimants, p \in Posts :
        ClaimCreatorFees(w, p) \/ ClaimCuratorFees(w, p) \/ ClaimGrowthFees(w, p)
  BY DEF ClaimStep
<1>2. PICK r \in {[pool[p] EXCEPT !.unclaimed_creator_fees = 0],
                  [pool[p] EXCEPT !.unclaimed_curator_fees = 0],
                  [pool[p] EXCEPT !.unclaimed_growth_fees = 0]} :
        pool' = [pool EXCEPT ![p] = r]
  BY <1>1 DEF ClaimCreatorFees, ClaimCuratorFees, ClaimGrowthFees
<1>3. /\ r.liquidity_sol_reserve = pool[p].liquidity_sol_reserve
      /\ r.liquidity_token_reserve = pool[p].liquidity_token_reserve
      /\ r.tokens_sold = pool[p].tokens_sold
      /\ r.token_supply = pool[p].token_supply /\ r.model = pool[p].model
      /\ r.total_volume = pool[p].total_volume
      /\ r.total_fees = pool[p].total_fees
  <2>1. pool[p] \in Pool
    BY DEF TypeOK, Typed
  <2> QED
    BY <1>2, <2>1 DEF Pool
<1>4. \E sv : solVault' = [solVault EXCEPT ![p] = sv]
  BY <1>1 DEF ClaimCreatorFees, ClaimCuratorFees, ClaimGrowthFees, PaidFromVault
<1>5. \E pay : payouts' = [payouts EXCEPT ![p] = pay]
  BY <1>1 DEF ClaimCreatorFees, ClaimCuratorFees, ClaimGrowthFees
<1>6. UNCHANGED <<pools, market, bins, bin, tokenVault, config>>
  BY <1>1 DEF ClaimCreatorFees, ClaimCuratorFees, ClaimGrowthFees, PaidFromVault, registry
<1> QED
  BY <1>2, <1>3, <1>4, <1>5, <1>6, RecordWritten

(* And what happens outside the program.                                   *)
LEMMA WorldQuiet == ASSUME TypeOK, WorldStep PROVE AllQuiet /\ Apart
<1>1. CASE Tick
  BY <1>1, NothingWritten DEF Tick, SameCounts, Counts, registry, accounts, balances
<1>2. ASSUME NEW p \in Posts, NEW a, GiftSol(p, a)
      PROVE  AllQuiet /\ Apart
  <2>1. /\ UNCHANGED <<pools, pool, market, bins, bin>>
        /\ \A q \in Posts : payouts'[q] = payouts[q]
        /\ SameCounts
    BY <1>2 DEF GiftSol, SameCounts, Counts, registry, accounts
  <2>2. \A q \in Posts \ {p} : solVault'[q] = solVault[q] /\ tokenVault'[q] = tokenVault[q]
    BY <1>2 DEF GiftSol, TypeOK, Typed
  <2> QED
    BY <2>1, <2>2, NothingWritten
<1>3. ASSUME NEW p \in Posts, NEW a, GiftTokens(p, a)
      PROVE  AllQuiet /\ Apart
  <2>1. /\ UNCHANGED <<pools, pool, market, bins, bin>>
        /\ \A q \in Posts : payouts'[q] = payouts[q]
        /\ SameCounts
    BY <1>3 DEF GiftTokens, SameCounts, Counts, registry, accounts
  <2>2. \A q \in Posts \ {p} : solVault'[q] = solVault[q] /\ tokenVault'[q] = tokenVault[q]
    BY <1>3 DEF GiftTokens, TypeOK, Typed
  <2> QED
    BY <2>1, <2>2, NothingWritten
<1> QED
  BY <1>1, <1>2, <1>3 DEF WorldStep
-----------------------------------------------------------------------------
InBinsStep(p) ==
  \/ \E id, tokens, sol : OpensBin(p, id, tokens, sol)
  \/ \E b, tokens, sol : Provides(p, b, tokens, sol)

Swapped(p, is_buy) ==
  /\ \E volume : Traded(p, is_buy, volume)
  /\ TradedOnCurve(p, is_buy) \/ \E tokens, sol : TradedInBin(p, is_buy, tokens, sol)

(* Every step is one of these.                                             *)
LEMMA StepKinds ==
  ASSUME TypeOK, AllSound, [Next]_vars
  PROVE  /\ Apart
         /\ \/ AllQuiet
            \/ \E p \in Posts :
                 /\ OnlyOf(p)
                 /\ \/ Created(p) \/ Migrated(p) \/ InBinsStep(p)
                    \/ Swapped(p, TRUE) \/ Swapped(p, FALSE)
<1>1. ASSUME NEW p \in Posts, OnlyOf(p) PROVE Apart
  BY <1>1, OneApart
<1>2. CASE AdminStep
  BY <1>2, AdminQuiet
<1>3. CASE SetupStep
  <2>1. PICK p \in Posts :
          \/ \E w \in Curators, params \in PoolParams : CreatePool(w, p, params)
          \/ \E w \in Wallets, id \in ActiveBinIds, enforce \in BOOLEAN :
               MigratePool(w, p, id, enforce)
    BY <1>3 DEF SetupStep
  <2>2. OnlyOf(p) /\ (Created(p) \/ Migrated(p))
    BY <2>1, CreatePoolStep, MigratePoolStep
  <2> QED
    BY <1>1, <2>2
<1>4. CASE TradeStep
  <2>1. PICK p \in Posts, minimum \in MinimumsOut :
          \/ \E a \in BuyAmounts : SigmoidBuy(p, a, minimum)
          \/ \E a \in SellAmounts : SigmoidSell(p, a, minimum)
          \/ \E b \in bins, a \in BuyAmounts : DlmmBuy(p, b, a, minimum)
          \/ \E b \in bins, a \in SellAmounts : DlmmSell(p, b, a, minimum)
    BY <1>4 DEF TradeStep
  <2>2. BuyAmounts \subseteq U64 /\ SellAmounts \subseteq U64
    BY AmountsAssumption
  <2>3. CASE \E a \in BuyAmounts : SigmoidBuy(p, a, minimum)
    <3>1. OnlyOf(p) /\ Swapped(p, TRUE)
      BY <2>2, <2>3, SigmoidBuyStep DEF Swapped
    <3> QED
      BY <1>1, <3>1
  <2>4. CASE \E a \in SellAmounts : SigmoidSell(p, a, minimum)
    <3>1. OnlyOf(p) /\ Swapped(p, FALSE)
      BY <2>2, <2>4, SigmoidSellStep DEF Swapped
    <3> QED
      BY <1>1, <3>1
  <2>5. CASE \E b \in bins, a \in BuyAmounts : DlmmBuy(p, b, a, minimum)
    <3>1. OnlyOf(p) /\ Swapped(p, TRUE)
      BY <2>2, <2>5, DlmmBuyStep DEF Swapped
    <3> QED
      BY <1>1, <3>1
  <2>6. CASE \E b \in bins, a \in SellAmounts : DlmmSell(p, b, a, minimum)
    <3>1. OnlyOf(p) /\ Swapped(p, FALSE)
      BY <2>2, <2>6, DlmmSellStep DEF Swapped
    <3> QED
      BY <1>1, <3>1
  <2> QED
    BY <2>1, <2>3, <2>4, <2>5, <2>6
<1>5. CASE LiquidityStep
  <2>1. PICK w \in Wallets, p \in Posts :
          \/ \E params \in BinParams : InitBin(w, p, params)
          \/ \E b \in bins, l \in LiquidityParams :
               \/ AddLiquidity(w, p, b, l.token_amount, l.sol_amount)
               \/ RemoveLiquidity(w, p, b, l.token_amount, l.sol_amount)
    BY <1>5 DEF LiquidityStep
  <2>2. CASE \E params \in BinParams : InitBin(w, p, params)
    <3>1. OnlyOf(p) /\ InBinsStep(p)
      BY <2>2, InitBinStep DEF InBinsStep
    <3> QED
      BY <1>1, <3>1
  <2>3. CASE \E b \in bins, l \in LiquidityParams :
               \/ AddLiquidity(w, p, b, l.token_amount, l.sol_amount)
               \/ RemoveLiquidity(w, p, b, l.token_amount, l.sol_amount)
    <3>1. PICK b \in bins, l \in LiquidityParams :
               \/ AddLiquidity(w, p, b, l.token_amount, l.sol_amount)
               \/ RemoveLiquidity(w, p, b, l.token_amount, l.sol_amount)
      BY <2>3
    <3> DEFINE tokens == l.token_amount
               sol == l.sol_amount
    <3>2. tokens \in Nat /\ sol \in Nat
      BY LiquidityAssumption, U64Assumption DEF U64
    <3>3. /\ CanProvide(w, p) /\ b[1] = p
          /\ MoveLiquidity(p, b, tokens, sol) \/ MoveLiquidity(p, b, -tokens, -sol)
      BY <3>1 DEF AddLiquidity, RemoveLiquidity
    <3> HIDE DEF tokens, sol
    <3>4. -tokens \in Int /\ -sol \in Int /\ tokens \in Int /\ sol \in Int
      BY <3>2
    <3>5. /\ OnlyOf(p)
          /\ Provides(p, b, tokens, sol) \/ Provides(p, b, -tokens, -sol)
      BY <3>3, <3>4, MoveLiquidityStep
    <3>6. OnlyOf(p) /\ InBinsStep(p)
      BY <3>5 DEF InBinsStep
    <3> QED
      BY <1>1, <3>6
  <2> QED
    BY <2>1, <2>2, <2>3
<1>6. CASE ClaimStep
  BY <1>6, ClaimQuiet
<1>7. CASE WorldStep
  BY <1>7, WorldQuiet
<1>8. CASE UNCHANGED vars
  BY <1>8, NothingWritten DEF SameCounts, Counts, vars
<1> QED
  BY <1>2, <1>3, <1>4, <1>5, <1>6, <1>7, <1>8 DEF Next
=============================================================================
