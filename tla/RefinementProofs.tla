-------------------------- MODULE RefinementProofs --------------------------
(***************************************************************************)
(* The program implements IdealPools, for any number of pools and wallets, *)
(* any arguments and any bounds.  The invariant of RedCircleProofs does    *)
(* the work: it turns what the vaults hold, which is what the mapping      *)
(* speaks of, into the counters that the handlers write.  Each instruction *)
(* is then shown to move the counters of one pool as one abstract action   *)
(* does (Moved), or those of no pool.                                      *)
(***************************************************************************)
EXTENDS RedCircleProofs

Unclaimed(r) ==
  r.unclaimed_creator_fees + r.unclaimed_curator_fees + r.unclaimed_growth_fees

(* What the books of a pool make of its vaults.                            *)
LEMMA BooksRead ==
  ASSUME NEW r \in Pool, NEW m, NEW sv \in Nat, NEW tv \in Nat, NEW pay,
         NEW g \in Gifts, Sound(r, m, sv, tv, pay, g)
  PROVE  /\ sv - g.sol - r.liquidity_sol_reserve = Unclaimed(r)
         /\ r.token_supply - (tv - g.token) = r.token_supply - r.liquidity_token_reserve
         /\ r.liquidity_token_reserve <= r.token_supply
         /\ r.liquidity_sol_reserve \in Nat /\ r.liquidity_token_reserve \in Nat
         /\ r.token_supply \in Nat /\ Unclaimed(r) \in Nat
<1>1. /\ r.unclaimed_creator_fees \in Nat /\ r.unclaimed_curator_fees \in Nat
      /\ r.unclaimed_growth_fees \in Nat /\ r.liquidity_sol_reserve \in Nat
      /\ r.liquidity_token_reserve \in Nat /\ r.token_supply \in Nat
      /\ g.sol \in Nat /\ g.token \in Nat
  BY U64Assumption DEF Pool, U64, Gifts
<1> QED
  BY <1>1 DEF Sound, Unclaimed

(* The phase of a pool, of whether it exists and what its market says.     *)
NameOf(exists, model) ==
  IF ~exists THEN "unborn"
  ELSE IF model = "SigmoidBootstrap" THEN "curve"
  ELSE IF model = "MigrationPending" THEN "pending" ELSE "bins"

(* The name the mapping gives it is the one its accounts say.              *)
LEMMA PhaseRead ==
  ASSUME TypeOK, NEW p \in Posts
  PROVE  PhaseName(p) = NameOf(p \in pools, market[p].model)
<1>1. market[p].model \in {"SigmoidBootstrap", "MigrationPending", "DLMM"}
  BY DEF TypeOK, Typed, MarketState, PoolModel
<1>2. CASE p \notin pools
  BY <1>2 DEF PhaseName, Phase, NameOf
<1>3. CASE p \in pools /\ market[p].model = "SigmoidBootstrap"
  BY <1>3 DEF PhaseName, Phase, NameOf
<1>4. CASE p \in pools /\ market[p].model = "MigrationPending"
  BY <1>4 DEF PhaseName, Phase, NameOf
<1>5. CASE p \in pools /\ market[p].model = "DLMM"
  BY <1>5 DEF PhaseName, Phase, NameOf
<1> QED
  BY <1>1, <1>2, <1>3, <1>4, <1>5

(* The five things the abstract specification knows of a pool, in a state  *)
(* whose books balance.                                                    *)
LEMMA ViewRead ==
  ASSUME TypeOK, AllSound, NEW p \in Posts
  PROVE  /\ PhaseName(p) = NameOf(p \in pools, market[p].model)
         /\ FeesHeld(p) = Unclaimed(pool[p])
         /\ TokensOutside(p) = pool[p].token_supply - pool[p].liquidity_token_reserve
         /\ pool[p].liquidity_token_reserve <= pool[p].token_supply
         /\ pool[p].liquidity_sol_reserve \in Nat
         /\ pool[p].liquidity_token_reserve \in Nat
         /\ pool[p].token_supply \in Nat /\ Unclaimed(pool[p]) \in Nat
<1>1. /\ pool[p] \in Pool /\ solVault[p] \in Nat /\ tokenVault[p] \in Nat
      /\ gifts[p] \in Gifts
      /\ Sound(pool[p], market[p], solVault[p], tokenVault[p], payouts[p], gifts[p])
  BY DEF TypeOK, Typed, AllSound
<1> QED
  BY <1>1, BooksRead, PhaseRead DEF FeesHeld, TokensOutside

(* The same of the state a step leads to.                                  *)
LEMMA NextViewRead ==
  ASSUME TypeOK', AllSound', NEW p \in Posts
  PROVE  /\ PhaseName(p)' = NameOf(p \in pools', market'[p].model)
         /\ FeesHeld(p)' = Unclaimed(pool'[p])
         /\ TokensOutside(p)' = pool'[p].token_supply - pool'[p].liquidity_token_reserve
         /\ pool'[p].liquidity_token_reserve <= pool'[p].token_supply
         /\ pool'[p].liquidity_sol_reserve \in Nat
         /\ pool'[p].liquidity_token_reserve \in Nat
         /\ pool'[p].token_supply \in Nat /\ Unclaimed(pool'[p]) \in Nat
<1>1. /\ pool'[p] \in Pool /\ solVault'[p] \in Nat /\ tokenVault'[p] \in Nat
      /\ gifts'[p] \in Gifts
      /\ Sound(pool'[p], market'[p], solVault'[p], tokenVault'[p], payouts'[p], gifts'[p])
  BY DEF TypeOK, Typed, AllSound
<1>2. PhaseName(p)' = NameOf(p \in pools', market'[p].model)
  <2>1. market'[p].model \in {"SigmoidBootstrap", "MigrationPending", "DLMM"}
    BY DEF TypeOK, Typed, MarketState, PoolModel
  <2>2. CASE p \notin pools'
    BY <2>2 DEF PhaseName, Phase, NameOf
  <2>3. CASE p \in pools' /\ market'[p].model = "SigmoidBootstrap"
    BY <2>3 DEF PhaseName, Phase, NameOf
  <2>4. CASE p \in pools' /\ market'[p].model = "MigrationPending"
    BY <2>4 DEF PhaseName, Phase, NameOf
  <2>5. CASE p \in pools' /\ market'[p].model = "DLMM"
    BY <2>5 DEF PhaseName, Phase, NameOf
  <2> QED
    BY <2>1, <2>2, <2>3, <2>4, <2>5
<1> QED
  BY <1>1, <1>2, BooksRead DEF FeesHeld, TokensOutside
-----------------------------------------------------------------------------
(* Two pool records with the same money.                                   *)
SameMoney(s, r) ==
  /\ s.token_supply = r.token_supply
  /\ s.liquidity_sol_reserve = r.liquidity_sol_reserve
  /\ s.liquidity_token_reserve = r.liquidity_token_reserve
  /\ Unclaimed(s) = Unclaimed(r)

(* The abstract view of pool q is left as it was.                          *)
Kept(q) ==
  /\ q \in pools' <=> q \in pools
  /\ market'[q].model = market[q].model
  /\ SameMoney(pool'[q], pool[q])

(* How one pool's phase and counters move, as each abstract action says.   *)
Opened(p) ==
  /\ p \notin pools /\ p \in pools'
  /\ market'[p].model = "SigmoidBootstrap"
  /\ pool'[p].token_supply > 0
  /\ pool'[p].liquidity_token_reserve = pool'[p].token_supply
  /\ pool'[p].liquidity_sol_reserve = 0 /\ Unclaimed(pool'[p]) = 0

Bought(p) ==
  /\ \/ /\ market[p].model = "SigmoidBootstrap"
        /\ market'[p].model \in {"SigmoidBootstrap", "MigrationPending"}
     \/ market[p].model = "DLMM" /\ market'[p].model = "DLMM"
  /\ pool'[p].token_supply = pool[p].token_supply
  /\ pool'[p].liquidity_token_reserve < pool[p].liquidity_token_reserve
  /\ pool'[p].liquidity_sol_reserve >= pool[p].liquidity_sol_reserve
  /\ Unclaimed(pool'[p]) >= Unclaimed(pool[p])

Sold(p) ==
  /\ market[p].model \in {"SigmoidBootstrap", "DLMM"}
  /\ market'[p].model = market[p].model
  /\ pool'[p].token_supply = pool[p].token_supply
  /\ pool'[p].liquidity_token_reserve > pool[p].liquidity_token_reserve
  /\ pool'[p].liquidity_sol_reserve < pool[p].liquidity_sol_reserve
  /\ Unclaimed(pool'[p]) >= Unclaimed(pool[p])
  /\ pool'[p].liquidity_sol_reserve + Unclaimed(pool'[p])
       <= pool[p].liquidity_sol_reserve + Unclaimed(pool[p])

Migrated(p) ==
  /\ market[p].model \in {"SigmoidBootstrap", "MigrationPending"}
  /\ market'[p].model = "DLMM"
  /\ SameMoney(pool'[p], pool[p])

Liquidity(p) ==
  /\ market[p].model = "DLMM" /\ market'[p].model = "DLMM"
  /\ pool'[p].token_supply = pool[p].token_supply
  /\ Unclaimed(pool'[p]) = Unclaimed(pool[p])
  /\ \/ /\ pool'[p].liquidity_token_reserve >= pool[p].liquidity_token_reserve
        /\ pool'[p].liquidity_sol_reserve >= pool[p].liquidity_sol_reserve
     \/ /\ pool'[p].liquidity_token_reserve <= pool[p].liquidity_token_reserve
        /\ pool'[p].liquidity_sol_reserve <= pool[p].liquidity_sol_reserve

Claimed(p) ==
  /\ market'[p].model = market[p].model
  /\ pool'[p].token_supply = pool[p].token_supply
  /\ pool'[p].liquidity_sol_reserve = pool[p].liquidity_sol_reserve
  /\ pool'[p].liquidity_token_reserve = pool[p].liquidity_token_reserve
  /\ Unclaimed(pool'[p]) < Unclaimed(pool[p])

Moved(p) ==
  \/ Opened(p)
  \/ /\ p \in pools /\ p \in pools'
     /\ Bought(p) \/ Sold(p) \/ Migrated(p) \/ Liquidity(p) \/ Claimed(p)

(* A pool that is kept looks the same to the abstract specification.       *)
LEMMA KeptView ==
  ASSUME TypeOK, AllSound, TypeOK', AllSound', NEW q \in Posts, Kept(q)
  PROVE  /\ PhaseName(q)' = PhaseName(q)
         /\ pool'[q].token_supply = pool[q].token_supply
         /\ pool'[q].liquidity_sol_reserve = pool[q].liquidity_sol_reserve
         /\ FeesHeld(q)' = FeesHeld(q)
         /\ TokensOutside(q)' = TokensOutside(q)
BY ViewRead, NextViewRead DEF Kept, SameMoney

(* A call that keeps every pool is a stutter.                              *)
LEMMA AllKept ==
  ASSUME TypeOK, AllSound, TypeOK', AllSound', \A q \in Posts : Kept(q)
  PROVE  UNCHANGED Ideal!vars
<1>1. \A q \in Posts : /\ PhaseName(q)' = PhaseName(q)
                       /\ pool'[q].token_supply = pool[q].token_supply
                       /\ pool'[q].liquidity_sol_reserve = pool[q].liquidity_sol_reserve
                       /\ FeesHeld(q)' = FeesHeld(q)
                       /\ TokensOutside(q)' = TokensOutside(q)
  BY KeptView
<1> QED
  BY <1>1 DEF Ideal!vars

(* A call that moves one pool and keeps the others is an abstract step.    *)
LEMMA OneMoved ==
  ASSUME TypeOK, AllSound, TypeOK', AllSound', NEW p \in Posts, Moved(p),
         \A q \in Posts \ {p} : Kept(q)
  PROVE  Ideal!Next
<1>1. \A q \in Posts \ {p} : /\ PhaseName(q)' = PhaseName(q)
                             /\ pool'[q].token_supply = pool[q].token_supply
                             /\ pool'[q].liquidity_sol_reserve
                                  = pool[q].liquidity_sol_reserve
                             /\ FeesHeld(q)' = FeesHeld(q)
                             /\ TokensOutside(q)' = TokensOutside(q)
  BY KeptView
<1>2. /\ PhaseName(p) = NameOf(p \in pools, market[p].model)
      /\ FeesHeld(p) = Unclaimed(pool[p])
      /\ TokensOutside(p) = pool[p].token_supply - pool[p].liquidity_token_reserve
      /\ pool[p].liquidity_token_reserve <= pool[p].token_supply
      /\ pool[p].liquidity_sol_reserve \in Nat /\ pool[p].liquidity_token_reserve \in Nat
      /\ pool[p].token_supply \in Nat /\ Unclaimed(pool[p]) \in Nat
  BY ViewRead
<1>3. /\ PhaseName(p)' = NameOf(p \in pools', market'[p].model)
      /\ FeesHeld(p)' = Unclaimed(pool'[p])
      /\ TokensOutside(p)' = pool'[p].token_supply - pool'[p].liquidity_token_reserve
      /\ pool'[p].liquidity_token_reserve <= pool'[p].token_supply
      /\ pool'[p].liquidity_sol_reserve \in Nat /\ pool'[p].liquidity_token_reserve \in Nat
      /\ pool'[p].token_supply \in Nat /\ Unclaimed(pool'[p]) \in Nat
  BY NextViewRead
<1>4. Ideal!StepOf(p)
  BY <1>1, <1>3 DEF Ideal!StepOf, Ideal!View
<1>5. CASE Opened(p)
  <2>1. Ideal!Open(p)
    BY <1>2, <1>3, <1>5 DEF Opened, NameOf, Ideal!Open
  <2> QED
    BY <1>4, <2>1 DEF Ideal!Next
<1>6. CASE p \in pools /\ p \in pools' /\ Bought(p)
  <2>1. Ideal!Buy(p)
    BY <1>2, <1>3, <1>6 DEF Bought, NameOf, Ideal!Buy
  <2> QED
    BY <1>4, <2>1 DEF Ideal!Next
<1>7. CASE p \in pools /\ p \in pools' /\ Sold(p)
  <2>1. Ideal!Sell(p)
    BY <1>2, <1>3, <1>7 DEF Sold, NameOf, Ideal!Sell
  <2> QED
    BY <1>4, <2>1 DEF Ideal!Next
<1>8. CASE p \in pools /\ p \in pools' /\ Migrated(p)
  <2>1. /\ FeesHeld(p)' = FeesHeld(p) /\ TokensOutside(p)' = TokensOutside(p)
        /\ pool'[p].token_supply = pool[p].token_supply
        /\ pool'[p].liquidity_sol_reserve = pool[p].liquidity_sol_reserve
    BY <1>2, <1>3, <1>8 DEF Migrated, SameMoney
  <2>2. Ideal!Migrate(p)
    BY <1>1, <1>2, <1>3, <1>8, <2>1 DEF Migrated, NameOf, Ideal!Migrate
  <2> QED
    BY <1>4, <2>2 DEF Ideal!Next
<1>9. CASE p \in pools /\ p \in pools' /\ Liquidity(p)
  <2>1. Ideal!Provide(p) \/ Ideal!Withdraw(p)
    BY <1>2, <1>3, <1>9 DEF Liquidity, NameOf, Ideal!Provide, Ideal!Withdraw
  <2> QED
    BY <1>4, <2>1 DEF Ideal!Next
<1>10. CASE p \in pools /\ p \in pools' /\ Claimed(p)
  <2>1. /\ PhaseName(p)' = PhaseName(p) /\ TokensOutside(p)' = TokensOutside(p)
        /\ FeesHeld(p)' < FeesHeld(p)
    BY <1>2, <1>3, <1>10 DEF Claimed
  <2>2. Ideal!PayFees(p)
    BY <1>1, <1>10, <2>1 DEF Claimed, Ideal!PayFees
  <2> QED
    BY <1>4, <2>2 DEF Ideal!Next
<1> QED
  BY <1>5, <1>6, <1>7, <1>8, <1>9, <1>10 DEF Moved
-----------------------------------------------------------------------------
(* What a call that writes the records of pool p alone leaves of the rest. *)
LEMMA OthersKept ==
  ASSUME TypeOK, NEW p \in Posts, NEW r, NEW m,
         pool' = [pool EXCEPT ![p] = r], market' = [market EXCEPT ![p] = m],
         pools' \ {p} = pools \ {p}
  PROVE  /\ pool'[p] = r /\ market'[p] = m
         /\ \A q \in Posts \ {p} : Kept(q)
BY DEF TypeOK, Typed, Kept, SameMoney

(* The money of a pool once a trade and its fees are booked.               *)
LEMMA TradeMoney ==
  ASSUME TypeOK, NEW p \in Posts, NEW b \in RawPool, SameFees(b, pool[p]),
         NEW volume \in Nat, NEW f, IsFees(f), NEW r,
         \/ r = WithPoolFees(b, volume, f)
         \/ \E model \in PoolModel : r = [WithPoolFees(b, volume, f) EXCEPT !.model = model]
  PROVE  /\ r.token_supply = pool[p].token_supply
         /\ r.liquidity_sol_reserve = b.liquidity_sol_reserve
         /\ r.liquidity_token_reserve = b.liquidity_token_reserve
         /\ Unclaimed(r) = Unclaimed(pool[p]) + (f.creator + f.curator + f.growth)
<1> DEFINE s == WithPoolFees(b, volume, f)
<1>1. PoolBooked(s, b, volume, f)
  BY PoolFeesRaw
<1> HIDE DEF s
<1>2. /\ r.token_supply = s.token_supply
      /\ r.liquidity_sol_reserve = s.liquidity_sol_reserve
      /\ r.liquidity_token_reserve = s.liquidity_token_reserve
      /\ r.unclaimed_creator_fees = s.unclaimed_creator_fees
      /\ r.unclaimed_curator_fees = s.unclaimed_curator_fees
      /\ r.unclaimed_growth_fees = s.unclaimed_growth_fees
  BY <1>1 DEF PoolBooked, RawPool, s
<1>3. /\ pool[p] \in RawPool
      /\ pool[p].unclaimed_creator_fees \in Int /\ pool[p].unclaimed_curator_fees \in Int
      /\ pool[p].unclaimed_growth_fees \in Int
  BY PoolIsRaw DEF TypeOK, Typed, RawPool
<1> QED
  BY <1>1, <1>2, <1>3 DEF PoolBooked, SameFees, IsFees, Unclaimed

(* The fees of a trade leave the market's model alone.                     *)
LEMMA TradeModel ==
  ASSUME NEW n \in RawMarket, NEW volume, NEW f, NEW is_buy \in BOOLEAN
  PROVE  WithMarketFees(n, volume, f, is_buy).model = n.model
BY DEF WithMarketFees, RawMarket

(* A purchase on the curve takes tokens out and brings SOL in.             *)
LEMMA SigmoidBuyMoves ==
  ASSUME TypeOK, AllSound, NEW p \in Posts, NEW amount_in \in U64,
         NEW minimum, SigmoidBuy(p, amount_in, minimum)
  PROVE  Moved(p) /\ \A q \in Posts \ {p} : Kept(q)
<1> DEFINE f == FeeBreakdown(amount_in)
           quote == quote_sigmoid_buy(market[p].sigmoid, pool[p].tokens_sold,
                                      amount_in - f.total)
           x == pool[p].liquidity_sol_reserve + quote.gross_sol
           y == pool[p].liquidity_token_reserve - quote.amount_out
           z == pool[p].tokens_sold + quote.amount_out
           b == [pool[p] EXCEPT !.status = StatusOnTrade(p),
                                !.liquidity_sol_reserve = x,
                                !.liquidity_token_reserve = y,
                                !.tokens_sold = z]
           s == WithPoolFees(b, amount_in, f)
           model == IF MigrationConditionsMet(s, market[p])
                    THEN "MigrationPending" ELSE "SigmoidBootstrap"
           n == [market[p] EXCEPT !.model = model]
           t == WithMarketFees(n, amount_in, f, TRUE)
           r == [s EXCEPT !.model = model]
<1>1. /\ p \in pools /\ pools' = pools
      /\ market[p].model = "SigmoidBootstrap"
      /\ IsQuote(quote)
      /\ pool' = [pool EXCEPT ![p] = r]
      /\ market' = [market EXCEPT ![p] = t]
  BY DEF SigmoidBuy, SigmoidBuyAllowed, BuyFill, PoolAfterBuy, ModelAfterBuy,
         MarketAfterBuy, SwapAllowed, MarketIs, registry
<1>2. IsFees(f) /\ amount_in \in Nat
  BY FeesType, U64Assumption DEF U64
<1> HIDE DEF f, quote
<1>3. /\ quote.amount_out \in Nat \ {0} /\ quote.gross_sol \in Nat
      /\ x \in Int /\ y \in Int /\ z \in Int
      /\ x >= pool[p].liquidity_sol_reserve /\ y < pool[p].liquidity_token_reserve
  BY <1>1, AccountsOf, U64Assumption DEF IsQuote, U64
<1> HIDE DEF x, y, z
<1>4. PoolMoves(b, pool[p], x, y)
  BY <1>3, AccountsOf, PoolSold
<1>5. model \in {"SigmoidBootstrap", "MigrationPending"} /\ model \in PoolModel
  BY DEF PoolModel
<1> HIDE DEF b, model
<1>6. n \in RawMarket /\ n.model = model
  BY <1>5, AccountsOf, MarketIsRaw DEF RawMarket
<1> HIDE DEF n
<1>7. t.model = model
  BY <1>6, TradeModel
<1>8. /\ r.token_supply = pool[p].token_supply
      /\ r.liquidity_sol_reserve = x /\ r.liquidity_token_reserve = y
      /\ Unclaimed(r) = Unclaimed(pool[p]) + (f.creator + f.curator + f.growth)
  BY <1>2, <1>4, <1>5, TradeMoney DEF PoolMoves
<1> HIDE DEF r, t
<1>9. /\ pool'[p] = r /\ market'[p] = t
      /\ \A q \in Posts \ {p} : Kept(q)
  BY <1>1, OthersKept
<1>10. Unclaimed(pool[p]) \in Nat
  BY ViewRead
<1>11. Bought(p)
  BY <1>1, <1>2, <1>3, <1>5, <1>7, <1>8, <1>9, <1>10 DEF Bought, IsFees
<1> QED
  BY <1>1, <1>9, <1>11 DEF Moved

(* The gross lamports of a quoted sale are at least one.                   *)
LEMMA SaleWorthSomething ==
  ASSUME NEW c, NEW sold_supply, NEW tokens_in,
         IsQuote(quote_sigmoid_sell(c, sold_supply, tokens_in))
  PROVE  quote_sigmoid_sell(c, sold_supply, tokens_in).gross_sol \in 1..U64Max
BY DEF quote_sigmoid_sell, SellQuote, NoQuote, IsQuote

(* A sale on the curve brings tokens in, and takes SOL out of which the    *)
(* fees are kept.                                                          *)
LEMMA SigmoidSellMoves ==
  ASSUME TypeOK, AllSound, NEW p \in Posts, NEW amount_in \in U64,
         NEW minimum, SigmoidSell(p, amount_in, minimum)
  PROVE  Moved(p) /\ \A q \in Posts \ {p} : Kept(q)
<1> DEFINE gross_sol == quote_sigmoid_sell(market[p].sigmoid, pool[p].tokens_sold,
                                           amount_in).gross_sol
           f == FeeBreakdown(gross_sol)
           x == pool[p].liquidity_sol_reserve - gross_sol
           y == pool[p].liquidity_token_reserve + amount_in
           z == pool[p].tokens_sold - amount_in
           b == [pool[p] EXCEPT !.status = StatusOnTrade(p),
                                !.liquidity_sol_reserve = x,
                                !.liquidity_token_reserve = y,
                                !.tokens_sold = z]
           r == WithPoolFees(b, gross_sol, f)
           t == WithMarketFees(market[p], gross_sol, f, FALSE)
<1>1. /\ p \in pools /\ pools' = pools
      /\ market[p].model = "SigmoidBootstrap"
      /\ amount_in > 0
      /\ IsQuote(quote_sigmoid_sell(market[p].sigmoid, pool[p].tokens_sold, amount_in))
      /\ pool' = [pool EXCEPT ![p] = r]
      /\ market' = [market EXCEPT ![p] = t]
  BY DEF SigmoidSell, SigmoidSellAllowed, SalePays, PoolAfterSale, MarketAfterSale,
         SwapAllowed, MarketIs, registry
<1>2. gross_sol \in Nat \ {0} /\ amount_in \in Nat \ {0}
  <2>1. gross_sol \in 1..U64Max
    BY <1>1, SaleWorthSomething
  <2> HIDE DEF gross_sol
  <2> QED
    BY <1>1, <2>1, U64Assumption DEF U64
<1> HIDE DEF gross_sol
<1>3. IsFees(f) /\ f.total <= gross_sol
  BY <1>2, FeesType
<1> HIDE DEF f
<1>4. /\ x \in Int /\ y \in Int /\ z \in Int
      /\ x = pool[p].liquidity_sol_reserve - gross_sol
      /\ y > pool[p].liquidity_token_reserve
      /\ pool[p].liquidity_sol_reserve \in Nat
  BY <1>2, AccountsOf
<1> HIDE DEF x, y, z
<1>5. PoolMoves(b, pool[p], x, y)
  BY <1>4, AccountsOf, PoolSold
<1> HIDE DEF b
<1>6. t.model = market[p].model
  <2>1. market[p] \in RawMarket
    BY AccountsOf, MarketIsRaw
  <2> QED
    BY <2>1, TradeModel
<1>7. /\ r.token_supply = pool[p].token_supply
      /\ r.liquidity_sol_reserve = x /\ r.liquidity_token_reserve = y
      /\ Unclaimed(r) = Unclaimed(pool[p]) + (f.creator + f.curator + f.growth)
  BY <1>2, <1>3, <1>5, TradeMoney DEF PoolMoves
<1> HIDE DEF r, t
<1>8. /\ pool'[p] = r /\ market'[p] = t
      /\ \A q \in Posts \ {p} : Kept(q)
  BY <1>1, OthersKept
<1>9. Unclaimed(pool[p]) \in Nat
  BY ViewRead
<1>10. Sold(p)
  BY <1>1, <1>2, <1>3, <1>4, <1>6, <1>7, <1>8, <1>9 DEF Sold, IsFees
<1> QED
  BY <1>1, <1>8, <1>10 DEF Moved

(* A purchase from a bin does what one on the curve does.                  *)
LEMMA DlmmBuyMoves ==
  ASSUME TypeOK, AllSound, NEW p \in Posts, NEW k \in bins, NEW amount_in \in U64,
         NEW minimum, DlmmBuy(p, k, amount_in, minimum)
  PROVE  Moved(p) /\ \A q \in Posts \ {p} : Kept(q)
<1> DEFINE f == FeeBreakdown(amount_in)
           sol == amount_in - f.total
           tokens_out == quote_dlmm_buy(sol, bin[k].price_lamports_per_token)
           left == bin[k].token_liquidity - tokens_out
           held == bin[k].sol_liquidity + sol
           filled == [bin[k] EXCEPT !.token_liquidity = left, !.sol_liquidity = held]
           x == pool[p].liquidity_sol_reserve + sol
           y == pool[p].liquidity_token_reserve - tokens_out
           b == [pool[p] EXCEPT !.status = StatusOnTrade(p),
                                !.liquidity_sol_reserve = x,
                                !.liquidity_token_reserve = y]
           r == WithPoolFees(b, amount_in, f)
           u == market[p].allocated_token_liquidity - tokens_out
           v == market[p].allocated_sol_liquidity + sol
           id == IF filled.token_liquidity = 0 THEN market[p].active_bin_id + 1
                                               ELSE market[p].active_bin_id
           n == [market[p] EXCEPT !.allocated_token_liquidity = u,
                                  !.allocated_sol_liquidity = v,
                                  !.active_bin_id = id]
           t == WithMarketFees(n, amount_in, f, TRUE)
<1>1. /\ p \in pools /\ pools' = pools
      /\ market[p].model = "DLMM"
      /\ sol > 0
      /\ tokens_out \in 1..U64Max
      /\ pool' = [pool EXCEPT ![p] = r]
      /\ market' = [market EXCEPT ![p] = t]
  BY DEF DlmmBuy, SwapAllowed, MarketIs, registry
<1>2. IsFees(f) /\ amount_in \in Nat
  BY FeesType, U64Assumption DEF U64
<1> HIDE DEF f, tokens_out, filled
<1>3. tokens_out \in Nat \ {0} /\ sol \in Nat
  BY <1>1, <1>2, U64Assumption DEF IsFees
<1> HIDE DEF sol
<1>4. /\ x \in Int /\ y \in Int
      /\ x >= pool[p].liquidity_sol_reserve /\ y < pool[p].liquidity_token_reserve
  BY <1>3, AccountsOf
<1>5. u \in Int /\ v \in Int /\ id \in Int
  BY <1>3, AccountsOf, MarketIsRaw DEF RawMarket
<1> HIDE DEF x, y, u, v, id
<1>6. PoolMoves(b, pool[p], x, y)
  BY <1>4, AccountsOf, PoolMoved
<1> HIDE DEF b
<1>7. n \in RawMarket /\ n.model = market[p].model
  BY <1>5, AccountsOf, MarketIsRaw DEF RawMarket
<1> HIDE DEF n
<1>8. t.model = market[p].model
  <2>1. t.model = n.model
    BY <1>7, TradeModel
  <2> HIDE DEF t
  <2> QED
    BY <1>7, <2>1
<1>9. /\ r.token_supply = pool[p].token_supply
      /\ r.liquidity_sol_reserve = x /\ r.liquidity_token_reserve = y
      /\ Unclaimed(r) = Unclaimed(pool[p]) + (f.creator + f.curator + f.growth)
  BY <1>2, <1>6, TradeMoney DEF PoolMoves
<1> HIDE DEF r, t
<1>10. /\ pool'[p] = r /\ market'[p] = t
       /\ \A q \in Posts \ {p} : Kept(q)
  BY <1>1, OthersKept
<1>11. Unclaimed(pool[p]) \in Nat
  BY ViewRead
<1>12. Bought(p)
  BY <1>1, <1>2, <1>4, <1>8, <1>9, <1>10, <1>11 DEF Bought, IsFees
<1> QED
  BY <1>1, <1>10, <1>12 DEF Moved

(* A sale to a bin does what one on the curve does.                        *)
LEMMA DlmmSellMoves ==
  ASSUME TypeOK, AllSound, NEW p \in Posts, NEW k \in bins, NEW amount_in \in U64,
         NEW minimum, DlmmSell(p, k, amount_in, minimum)
  PROVE  Moved(p) /\ \A q \in Posts \ {p} : Kept(q)
<1> DEFINE gross_sol == quote_dlmm_sell(amount_in, bin[k].price_lamports_per_token)
           f == FeeBreakdown(gross_sol)
           held == bin[k].token_liquidity + amount_in
           left == bin[k].sol_liquidity - gross_sol
           filled == [bin[k] EXCEPT !.token_liquidity = held, !.sol_liquidity = left]
           x == pool[p].liquidity_sol_reserve - gross_sol
           y == pool[p].liquidity_token_reserve + amount_in
           b == [pool[p] EXCEPT !.status = StatusOnTrade(p),
                                !.liquidity_sol_reserve = x,
                                !.liquidity_token_reserve = y]
           r == WithPoolFees(b, gross_sol, f)
           u == market[p].allocated_token_liquidity + amount_in
           v == market[p].allocated_sol_liquidity - gross_sol
           id == IF filled.sol_liquidity = 0 THEN market[p].active_bin_id - 1
                                             ELSE market[p].active_bin_id
           n == [market[p] EXCEPT !.allocated_token_liquidity = u,
                                  !.allocated_sol_liquidity = v,
                                  !.active_bin_id = id]
           t == WithMarketFees(n, gross_sol, f, FALSE)
<1>1. /\ p \in pools /\ pools' = pools
      /\ market[p].model = "DLMM"
      /\ amount_in > 0
      /\ gross_sol \in 1..U64Max
      /\ pool' = [pool EXCEPT ![p] = r]
      /\ market' = [market EXCEPT ![p] = t]
  BY DEF DlmmSell, SwapAllowed, MarketIs, registry
<1> HIDE DEF gross_sol
<1>2. gross_sol \in Nat \ {0} /\ amount_in \in Nat \ {0}
  BY <1>1, U64Assumption DEF U64
<1>3. IsFees(f) /\ f.total <= gross_sol
  BY <1>2, FeesType
<1> HIDE DEF f, filled
<1>4. /\ x \in Int /\ y \in Int
      /\ x = pool[p].liquidity_sol_reserve - gross_sol
      /\ y > pool[p].liquidity_token_reserve
      /\ pool[p].liquidity_sol_reserve \in Nat
  BY <1>2, AccountsOf
<1>5. u \in Int /\ v \in Int /\ id \in Int
  BY <1>2, AccountsOf, MarketIsRaw DEF RawMarket
<1> HIDE DEF x, y, u, v, id
<1>6. PoolMoves(b, pool[p], x, y)
  BY <1>4, AccountsOf, PoolMoved
<1> HIDE DEF b
<1>7. n \in RawMarket /\ n.model = market[p].model
  BY <1>5, AccountsOf, MarketIsRaw DEF RawMarket
<1> HIDE DEF n
<1>8. t.model = market[p].model
  <2>1. t.model = n.model
    BY <1>7, TradeModel
  <2> HIDE DEF t
  <2> QED
    BY <1>7, <2>1
<1>9. /\ r.token_supply = pool[p].token_supply
      /\ r.liquidity_sol_reserve = x /\ r.liquidity_token_reserve = y
      /\ Unclaimed(r) = Unclaimed(pool[p]) + (f.creator + f.curator + f.growth)
  BY <1>2, <1>3, <1>6, TradeMoney DEF PoolMoves
<1> HIDE DEF r, t
<1>10. /\ pool'[p] = r /\ market'[p] = t
       /\ \A q \in Posts \ {p} : Kept(q)
  BY <1>1, OthersKept
<1>11. Unclaimed(pool[p]) \in Nat
  BY ViewRead
<1>12. Sold(p)
  BY <1>1, <1>2, <1>3, <1>4, <1>8, <1>9, <1>10, <1>11 DEF Sold, IsFees
<1> QED
  BY <1>1, <1>10, <1>12 DEF Moved

(* create_pool opens a pool with its whole supply inside.                  *)
LEMMA CreatePoolMoves ==
  ASSUME TypeOK, AllSound, NEW w \in Curators, NEW p \in Posts, NEW params \in PoolParams,
         CreatePool(w, p, params)
  PROVE  Moved(p) /\ \A q \in Posts \ {p} : Kept(q)
<1> DEFINE supply == NewSigmoid(params).token_supply
           status == IF config.launch_protection_duration > 0
                     THEN "LaunchProtection" ELSE "Active"
           ends_at == now + config.launch_protection_duration
           r == [BlankPool EXCEPT !.curator = w,
                                  !.status = status,
                                  !.liquidity_token_reserve = supply,
                                  !.token_supply = supply,
                                  !.launch_protection_ends_at = ends_at]
<1>1. /\ p \notin pools
      /\ supply > 0
      /\ pools' = pools \cup {p}
      /\ pool' = [pool EXCEPT ![p] = r]
  BY DEF CreatePool, CanCreate, ValidSigmoid
<1>2. PICK m : market' = [market EXCEPT ![p] = m] /\ m.model = "SigmoidBootstrap"
  <2> DEFINE n == [BlankMarket EXCEPT
                     !.sigmoid = NewSigmoid(params),
                     !.supply_threshold_bps =
                        unwrap_or(params.supply_threshold_bps,
                                  Defaults.supply_threshold_bps),
                     !.min_sol_reserve =
                        unwrap_or(params.min_sol_reserve, Defaults.min_sol_reserve),
                     !.bin_step_bps = unwrap_or(params.bin_step_bps, Defaults.bin_step_bps)]
  <2>1. market' = [market EXCEPT ![p] = n]
    BY DEF CreatePool, CanCreate
  <2>2. n.model = "SigmoidBootstrap"
    BY DEF BlankMarket
  <2> QED
    BY <2>1, <2>2
<1> HIDE DEF supply, status, ends_at
<1>3. /\ r.token_supply = supply /\ r.liquidity_token_reserve = supply
      /\ r.liquidity_sol_reserve = 0
      /\ r.unclaimed_creator_fees = 0 /\ r.unclaimed_curator_fees = 0
      /\ r.unclaimed_growth_fees = 0
  BY DEF BlankPool
<1> HIDE DEF r
<1>4. /\ pool'[p] = r /\ market'[p] = m
      /\ \A q \in Posts \ {p} : Kept(q)
  BY <1>1, <1>2, OthersKept
<1>5. Opened(p)
  BY <1>1, <1>2, <1>3, <1>4 DEF Opened, Unclaimed
<1> QED
  BY <1>4, <1>5 DEF Moved

(* migrate_pool closes the curve and moves nothing.                        *)
LEMMA MigratePoolMoves ==
  ASSUME TypeOK, AllSound, NEW w \in Wallets, NEW p \in Posts, NEW active_bin_id,
         NEW enforce, MigratePool(w, p, active_bin_id, enforce)
  PROVE  Moved(p) /\ \A q \in Posts \ {p} : Kept(q)
<1> DEFINE id == StartingBin(p, active_bin_id)
           r == [pool[p] EXCEPT !.model = "DLMM"]
           m == [market[p] EXCEPT !.model = "DLMM", !.active_bin_id = id,
                                  !.migrated_at = now]
<1>1. /\ p \in pools /\ pools' = pools
      /\ market[p].model \in {"SigmoidBootstrap", "MigrationPending"}
      /\ pool' = [pool EXCEPT ![p] = r]
      /\ market' = [market EXCEPT ![p] = m]
  BY DEF MigratePool, MigrationAllowed, Unmigrated, registry
<1> HIDE DEF id
<1>2. m.model = "DLMM"
  BY AccountsOf DEF MarketState
<1>3. SameMoney(r, pool[p])
  BY AccountsOf DEF Pool, SameMoney, Unclaimed
<1> HIDE DEF r, m
<1>4. /\ pool'[p] = r /\ market'[p] = m
      /\ \A q \in Posts \ {p} : Kept(q)
  BY <1>1, OthersKept
<1>5. Migrated(p)
  BY <1>1, <1>2, <1>3, <1>4 DEF Migrated
<1> QED
  BY <1>1, <1>4, <1>5 DEF Moved

(* Liquidity that moves in one direction, on the two sides.                *)
LEMMA LiquidityMoves ==
  ASSUME TypeOK, AllSound, NEW p \in Posts, p \in pools, market[p].model = "DLMM",
         NEW b, NEW tokens \in Int, NEW sol \in Int,
         (tokens >= 0 /\ sol >= 0) \/ (tokens <= 0 /\ sol <= 0),
         MoveLiquidity(p, b, tokens, sol)
  PROVE  Moved(p) /\ \A q \in Posts \ {p} : Kept(q)
<1> DEFINE x == pool[p].liquidity_token_reserve + tokens
           y == pool[p].liquidity_sol_reserve + sol
           r == [pool[p] EXCEPT !.liquidity_token_reserve = x,
                                !.liquidity_sol_reserve = y]
           u == market[p].allocated_token_liquidity + tokens
           v == market[p].allocated_sol_liquidity + sol
           m == [market[p] EXCEPT !.allocated_token_liquidity = u,
                                  !.allocated_sol_liquidity = v]
<1>1. /\ pools' = pools
      /\ pool' = [pool EXCEPT ![p] = r]
      /\ market' = [market EXCEPT ![p] = m]
  BY DEF MoveLiquidity, Allocate, registry
<1>2. \/ x >= pool[p].liquidity_token_reserve /\ y >= pool[p].liquidity_sol_reserve
      \/ x <= pool[p].liquidity_token_reserve /\ y <= pool[p].liquidity_sol_reserve
  BY AccountsOf
<1> HIDE DEF x, y, u, v
<1>3. /\ r.liquidity_token_reserve = x /\ r.liquidity_sol_reserve = y
      /\ r.token_supply = pool[p].token_supply /\ Unclaimed(r) = Unclaimed(pool[p])
      /\ m.model = market[p].model
  BY AccountsOf DEF Pool, MarketState, Unclaimed
<1> HIDE DEF r, m
<1>4. /\ pool'[p] = r /\ market'[p] = m
      /\ \A q \in Posts \ {p} : Kept(q)
  BY <1>1, OthersKept
<1>5. Liquidity(p)
  BY <1>1, <1>2, <1>3, <1>4 DEF Liquidity
<1> QED
  BY <1>1, <1>4, <1>5 DEF Moved

(* add_liquidity moves it in, remove_liquidity out.                        *)
LEMMA ProvisionMoves ==
  ASSUME TypeOK, AllSound, NEW w \in Wallets, NEW p \in Posts, NEW b \in bins,
         NEW token_amount \in U64, NEW sol_amount \in U64,
         \/ AddLiquidity(w, p, b, token_amount, sol_amount)
         \/ RemoveLiquidity(w, p, b, token_amount, sol_amount)
  PROVE  Moved(p) /\ \A q \in Posts \ {p} : Kept(q)
<1>1. /\ p \in pools /\ market[p].model = "DLMM"
      /\ \/ MoveLiquidity(p, b, token_amount, sol_amount)
         \/ MoveLiquidity(p, b, -token_amount, -sol_amount)
  BY DEF AddLiquidity, RemoveLiquidity, CanProvide
<1>2. token_amount \in Nat /\ sol_amount \in Nat
  BY U64Assumption DEF U64
<1>3. CASE MoveLiquidity(p, b, token_amount, sol_amount)
  BY <1>1, <1>2, <1>3, LiquidityMoves
<1>4. CASE MoveLiquidity(p, b, -token_amount, -sol_amount)
  <2>1. /\ -token_amount \in Int /\ -sol_amount \in Int
        /\ -token_amount <= 0 /\ -sol_amount <= 0
    BY <1>2
  <2> QED
    BY <1>1, <1>4, <2>1, LiquidityMoves
<1> QED
  BY <1>1, <1>3, <1>4

(* A claim lowers what is unclaimed and nothing else.                      *)
LEMMA ClaimMoves ==
  ASSUME TypeOK, AllSound, NEW w \in Claimants, NEW p \in Posts,
         \/ ClaimCreatorFees(w, p) \/ ClaimCuratorFees(w, p) \/ ClaimGrowthFees(w, p)
  PROVE  Moved(p) /\ \A q \in Posts \ {p} : Kept(q)
<1>1. PICK r \in {[pool[p] EXCEPT !.unclaimed_creator_fees = 0],
                  [pool[p] EXCEPT !.unclaimed_curator_fees = 0],
                  [pool[p] EXCEPT !.unclaimed_growth_fees = 0]} :
        /\ pool' = [pool EXCEPT ![p] = r]
        /\ Unclaimed(r) < Unclaimed(pool[p])
  <2>1. /\ pool[p] \in Pool
        /\ pool[p].unclaimed_creator_fees \in Nat
        /\ pool[p].unclaimed_curator_fees \in Nat
        /\ pool[p].unclaimed_growth_fees \in Nat
    BY AccountsOf, U64Assumption DEF Pool, U64
  <2>2. CASE ClaimCreatorFees(w, p)
    BY <2>1, <2>2 DEF ClaimCreatorFees, PaidFromVault, Pool, Unclaimed
  <2>3. CASE ClaimCuratorFees(w, p)
    BY <2>1, <2>3 DEF ClaimCuratorFees, PaidFromVault, Pool, Unclaimed
  <2>4. CASE ClaimGrowthFees(w, p)
    BY <2>1, <2>4 DEF ClaimGrowthFees, PaidFromVault, Pool, Unclaimed
  <2> QED
    BY <2>2, <2>3, <2>4
<1>2. /\ p \in pools /\ pools' = pools /\ market' = market
  BY DEF ClaimCreatorFees, ClaimCuratorFees, ClaimGrowthFees, PaidFromVault,
         IsCurator, registry
<1>3. /\ r.token_supply = pool[p].token_supply
      /\ r.liquidity_sol_reserve = pool[p].liquidity_sol_reserve
      /\ r.liquidity_token_reserve = pool[p].liquidity_token_reserve
  BY <1>1, AccountsOf DEF Pool
<1>4. market' = [market EXCEPT ![p] = market[p]]
  BY <1>2 DEF TypeOK, Typed
<1>5. /\ pool'[p] = r /\ market'[p] = market[p]
      /\ \A q \in Posts \ {p} : Kept(q)
  BY <1>1, <1>2, <1>4, OthersKept
<1>6. Claimed(p)
  BY <1>1, <1>3, <1>5 DEF Claimed
<1> QED
  BY <1>2, <1>5, <1>6 DEF Moved
-----------------------------------------------------------------------------
(* The other calls keep the money and the phase of every pool.             *)
LEMMA RecordsKept ==
  ASSUME UNCHANGED <<pools, pool, market>>
  PROVE  \A q \in Posts : Kept(q)
BY DEF Kept, SameMoney

(* The admin's calls write settings, statuses and beneficiaries.           *)
LEMMA AdminKeeps ==
  ASSUME TypeOK, AdminStep
  PROVE  \A q \in Posts : Kept(q)
<1>1. ASSUME NEW w, NEW t, NEW params, Initialize(w, t, params)
      PROVE  UNCHANGED <<pools, pool, market>>
  BY <1>1 DEF Initialize
<1>2. ASSUME NEW w, NEW u, UpdateConfig(w, u)
      PROVE  UNCHANGED <<pools, pool, market>>
  BY <1>2 DEF UpdateConfig
<1>3. ASSUME NEW w, NEW p \in Posts, NEW s, SetPoolStatus(w, p, s)
      PROVE  \A q \in Posts : Kept(q)
  BY <1>3 DEF SetPoolStatus, registry, TypeOK, Typed, Pool, Kept, SameMoney, Unclaimed
<1>4. ASSUME NEW w, NEW p \in Posts, NEW c, SetCreator(w, p, c)
      PROVE  \A q \in Posts : Kept(q)
  BY <1>4 DEF SetCreator, registry, TypeOK, Typed, Pool, Kept, SameMoney, Unclaimed
<1> QED
  BY <1>1, <1>2, <1>3, <1>4, RecordsKept DEF AdminStep

(* init_bin moves reserves within the pool.                                *)
LEMMA InitBinKeeps ==
  ASSUME TypeOK, NEW w, NEW p \in Posts, NEW params, InitBin(w, p, params)
  PROVE  \A q \in Posts : Kept(q)
<1> DEFINE tokens == market[p].allocated_token_liquidity + params.token_liquidity
           sol == market[p].allocated_sol_liquidity + params.sol_liquidity
           m == [market[p] EXCEPT !.allocated_token_liquidity = tokens,
                                  !.allocated_sol_liquidity = sol]
<1>1. pools' = pools /\ pool' = pool /\ market' = [market EXCEPT ![p] = m]
  BY DEF InitBin, Allocate
<1> HIDE DEF tokens, sol
<1>2. m.model = market[p].model
  BY DEF TypeOK, Typed, MarketState
<1> HIDE DEF m
<1> QED
  BY <1>1, <1>2 DEF TypeOK, Typed, Kept, SameMoney

(* Time and gifts are none of the pool's money.                            *)
LEMMA WorldKeeps == ASSUME WorldStep PROVE \A q \in Posts : Kept(q)
<1>1. UNCHANGED <<pools, pool, market>>
  BY DEF WorldStep, Tick, GiftSol, GiftTokens, registry, accounts
<1> QED
  BY <1>1, RecordsKept
-----------------------------------------------------------------------------
(* Every step is an abstract step or a stutter.                            *)
LEMMA StepRefines ==
  ASSUME TypeOK, AllSound, [Next]_vars
  PROVE  [Ideal!Next]_(Ideal!vars)
<1>1. TypeOK' /\ AllSound'
  BY NextSound
<1>2. ASSUME NEW p \in Posts, Moved(p), \A q \in Posts \ {p} : Kept(q)
      PROVE  [Ideal!Next]_(Ideal!vars)
  BY <1>1, <1>2, OneMoved
<1>3. ASSUME \A q \in Posts : Kept(q)
      PROVE  [Ideal!Next]_(Ideal!vars)
  BY <1>1, <1>3, AllKept
<1>4. CASE AdminStep
  BY <1>3, <1>4, AdminKeeps
<1>5. CASE SetupStep
  <2>1. PICK p \in Posts :
          \/ \E w \in Curators, params \in PoolParams : CreatePool(w, p, params)
          \/ \E w \in Wallets, id \in ActiveBinIds, enforce \in BOOLEAN :
               MigratePool(w, p, id, enforce)
    BY <1>5 DEF SetupStep
  <2>2. Moved(p) /\ \A q \in Posts \ {p} : Kept(q)
    BY <2>1, CreatePoolMoves, MigratePoolMoves
  <2> QED
    BY <1>2, <2>2
<1>6. CASE TradeStep
  <2>1. PICK p \in Posts, minimum \in MinimumsOut :
          \/ \E a \in BuyAmounts : SigmoidBuy(p, a, minimum)
          \/ \E a \in SellAmounts : SigmoidSell(p, a, minimum)
          \/ \E b \in bins, a \in BuyAmounts : DlmmBuy(p, b, a, minimum)
          \/ \E b \in bins, a \in SellAmounts : DlmmSell(p, b, a, minimum)
    BY <1>6 DEF TradeStep
  <2>2. BuyAmounts \subseteq U64 /\ SellAmounts \subseteq U64
    BY AmountsAssumption
  <2>3. Moved(p) /\ \A q \in Posts \ {p} : Kept(q)
    BY <2>1, <2>2, SigmoidBuyMoves, SigmoidSellMoves, DlmmBuyMoves, DlmmSellMoves
  <2> QED
    BY <1>2, <2>3
<1>7. CASE LiquidityStep
  <2>1. PICK w \in Wallets, p \in Posts :
          \/ \E params \in BinParams : InitBin(w, p, params)
          \/ \E b \in bins, l \in LiquidityParams :
               \/ AddLiquidity(w, p, b, l.token_amount, l.sol_amount)
               \/ RemoveLiquidity(w, p, b, l.token_amount, l.sol_amount)
    BY <1>7 DEF LiquidityStep
  <2>2. \A l \in LiquidityParams : l.token_amount \in U64 /\ l.sol_amount \in U64
    BY LiquidityAssumption
  <2>3. CASE \E params \in BinParams : InitBin(w, p, params)
    BY <1>3, <2>3, InitBinKeeps
  <2>4. CASE \E b \in bins, l \in LiquidityParams :
               \/ AddLiquidity(w, p, b, l.token_amount, l.sol_amount)
               \/ RemoveLiquidity(w, p, b, l.token_amount, l.sol_amount)
    <3>1. Moved(p) /\ \A q \in Posts \ {p} : Kept(q)
      BY <2>2, <2>4, ProvisionMoves
    <3> QED
      BY <1>2, <3>1
  <2> QED
    BY <2>1, <2>3, <2>4
<1>8. CASE ClaimStep
  <2>1. PICK w \in Claimants, p \in Posts :
          ClaimCreatorFees(w, p) \/ ClaimCuratorFees(w, p) \/ ClaimGrowthFees(w, p)
    BY <1>8 DEF ClaimStep
  <2>2. Moved(p) /\ \A q \in Posts \ {p} : Kept(q)
    BY <2>1, ClaimMoves
  <2> QED
    BY <1>2, <2>2
<1>9. CASE WorldStep
  BY <1>3, <1>9, WorldKeeps
<1>10. CASE UNCHANGED vars
  BY <1>3, <1>10, RecordsKept DEF vars
<1> QED
  BY <1>4, <1>5, <1>6, <1>7, <1>8, <1>9, <1>10 DEF Next

(* Before anything is created every abstract pool is unborn and empty.     *)
LEMMA InitRefines == Init => Ideal!Init
<1> SUFFICES ASSUME Init PROVE Ideal!Init
  OBVIOUS
<1>1. TypeOK /\ AllSound
  BY InitSound
<1>2. \A p \in Posts : /\ PhaseName(p) = "unborn"
                       /\ FeesHeld(p) = 0
                       /\ TokensOutside(p) = 0
                       /\ pool[p].token_supply = 0
                       /\ pool[p].liquidity_sol_reserve = 0
  <2> SUFFICES ASSUME NEW p \in Posts
               PROVE  /\ PhaseName(p) = "unborn" /\ FeesHeld(p) = 0
                      /\ TokensOutside(p) = 0 /\ pool[p].token_supply = 0
                      /\ pool[p].liquidity_sol_reserve = 0
    OBVIOUS
  <2>1. p \notin pools /\ pool[p] = BlankPool
    BY DEF Init
  <2> QED
    BY <1>1, <2>1, ViewRead DEF NameOf, BlankPool, Unclaimed
<1> QED
  BY <1>2 DEF Ideal!Init

(* Whatever the program does, each pool's money moves as the abstract      *)
(* pools allow: SOL behind the tokens leaves only against tokens or as     *)
(* withdrawn liquidity, fees only to their beneficiaries, one pool at a    *)
(* time.                                                                   *)
THEOREM Refines == Spec => ImplementsIdeal
<1>1. TypeOK /\ AllSound /\ [Next]_vars => [Ideal!Next]_(Ideal!vars)
  BY StepRefines
<1>2. Init => TypeOK /\ AllSound
  BY InitSound
<1>3. TypeOK /\ AllSound /\ [Next]_vars => (TypeOK /\ AllSound)'
  BY NextSound
<1> QED
  BY <1>1, <1>2, <1>3, InitRefines, PTL DEF Spec, ImplementsIdeal, Ideal!Spec
=============================================================================
