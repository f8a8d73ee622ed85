-------------------------- MODULE RedCircleProofs --------------------------
(***************************************************************************)
(* The theorems of the whole program, for any number of pools, wallets and *)
(* bins, any arguments and any bounds.  The inductive invariant is TypeOK  *)
(* together with AllSound, which is SolCustody, TokenCustody and FeeLedger *)
(* of every pool at once: TypeOK is needed because checked arithmetic is   *)
(* what keeps every counter a natural, and because a pool that does not    *)
(* exist must be blank for create_pool to open balanced books.             *)
(*                                                                         *)
(* The first part is about what the handlers' updates do to the books of   *)
(* one pool, record by record, without a state; the second has one lemma   *)
(* per handler; the third puts them together.                              *)
(***************************************************************************)
EXTENDS RedCircleProperties, MathProofs

(* A pool record in the middle of a handler, before its checked arithmetic *)
(* has confined the u64 fields.                                            *)
RawPool ==
  [curator: Wallets \cup {NoWallet}, creator: Wallets \cup {NoWallet},
   status: PoolStatus, model: PoolModel,
   liquidity_sol_reserve: Int, liquidity_token_reserve: Int,
   tokens_sold: Int, token_supply: U64,
   total_volume: Nat, total_fees: Int,
   unclaimed_creator_fees: Int, unclaimed_curator_fees: Int,
   unclaimed_growth_fees: Int,
   launch_protection_ends_at: Int]

(* A stored pool record is one.                                            *)
LEMMA PoolIsRaw == ASSUME NEW r \in Pool PROVE r \in RawPool
BY U64Assumption DEF Pool, RawPool, U64

(* The checked arithmetic of a handler (PoolFits) makes it a pool record   *)
(* again.                                                                  *)
LEMMA RawPoolFits == ASSUME NEW r \in RawPool, PoolFits(r) PROVE r \in Pool
BY DEF Pool, RawPool, PoolFits

(* The same of a market record.                                            *)
RawMarket ==
  [model: PoolModel, sigmoid: SigmoidConfig,
   supply_threshold_bps: Nat, min_sol_reserve: U64,
   bin_step_bps: Nat, active_bin_id: Int,
   allocated_token_liquidity: Int, allocated_sol_liquidity: Int,
   total_trade_volume: Nat, total_fees_earned: Nat,
   platform_fees_earned: Nat, creator_fees_earned: Nat,
   curator_fees_earned: Nat, growth_fees_earned: Nat,
   total_trades: Int, buy_trades: Int, sell_trades: Int, migrated_at: Int]

(* A stored market record is a raw one.                                    *)
LEMMA MarketIsRaw == ASSUME NEW m \in MarketState PROVE m \in RawMarket
BY U64Assumption, BinIdsAssumption DEF MarketState, RawMarket, U64, BinIds

(* Checked arithmetic (MarketFits) makes it a market record again.         *)
LEMMA RawMarketFits == ASSUME NEW m \in RawMarket, MarketFits(m) PROVE m \in MarketState
BY DEF MarketState, RawMarket, MarketFits

(* Two pool records that agree on the supply, the volume and the fees.     *)
SameFees(s, r) ==
  /\ s.unclaimed_creator_fees = r.unclaimed_creator_fees
  /\ s.unclaimed_curator_fees = r.unclaimed_curator_fees
  /\ s.unclaimed_growth_fees = r.unclaimed_growth_fees
  /\ s.total_fees = r.total_fees
  /\ s.total_volume = r.total_volume
  /\ s.token_supply = r.token_supply

(* Two market records that agree on volume, fees and trades.               *)
SameEarned(n, m) ==
  /\ n.total_trade_volume = m.total_trade_volume
  /\ n.total_fees_earned = m.total_fees_earned
  /\ n.platform_fees_earned = m.platform_fees_earned
  /\ n.creator_fees_earned = m.creator_fees_earned
  /\ n.curator_fees_earned = m.curator_fees_earned
  /\ n.growth_fees_earned = m.growth_fees_earned
  /\ n.total_trades = m.total_trades
  /\ n.buy_trades = m.buy_trades
  /\ n.sell_trades = m.sell_trades

(* The books of one pool balance: SolCustody, TokenCustody and FeeLedger   *)
(* of its pool record, its market record, its two vaults, what was paid    *)
(* out of it and what was given to it.                                     *)
Sound(r, m, sv, tv, pay, g) ==
  /\ sv = r.liquidity_sol_reserve + r.unclaimed_creator_fees
            + r.unclaimed_curator_fees + r.unclaimed_growth_fees + g.sol
  /\ tv = r.liquidity_token_reserve + g.token
  /\ tv <= r.token_supply
  /\ m.creator_fees_earned = r.unclaimed_creator_fees + pay.creator
  /\ m.curator_fees_earned = r.unclaimed_curator_fees + pay.curator
  /\ m.growth_fees_earned = r.unclaimed_growth_fees + pay.growth
  /\ m.platform_fees_earned = pay.platform
  /\ m.total_fees_earned = m.creator_fees_earned + m.curator_fees_earned
                             + m.growth_fees_earned + m.platform_fees_earned
  /\ r.total_fees = m.total_fees_earned
  /\ r.total_volume = m.total_trade_volume
  /\ m.total_trades = m.buy_trades + m.sell_trades

(* A breakdown of a fee: naturals that add up.                             *)
IsFees(f) ==
  /\ f.total \in Nat /\ f.platform \in Nat /\ f.curator \in Nat
  /\ f.creator \in Nat /\ f.growth \in Nat
  /\ f.total = f.platform + f.curator + f.creator + f.growth

(* s is r with a trade's volume and fees booked.                           *)
PoolBooked(s, r, volume, fees) ==
  /\ s \in RawPool
  /\ s.liquidity_sol_reserve = r.liquidity_sol_reserve
  /\ s.liquidity_token_reserve = r.liquidity_token_reserve
  /\ s.token_supply = r.token_supply
  /\ s.total_volume = r.total_volume + volume
  /\ s.total_fees = r.total_fees + fees.total
  /\ s.unclaimed_creator_fees = r.unclaimed_creator_fees + fees.creator
  /\ s.unclaimed_curator_fees = r.unclaimed_curator_fees + fees.curator
  /\ s.unclaimed_growth_fees = r.unclaimed_growth_fees + fees.growth

(* The same of market records.                                             *)
MarketBooked(s, m, volume, fees) ==
  /\ s \in RawMarket
  /\ s.total_trade_volume = m.total_trade_volume + volume
  /\ s.total_fees_earned = m.total_fees_earned + fees.total
  /\ s.platform_fees_earned = m.platform_fees_earned + fees.platform
  /\ s.creator_fees_earned = m.creator_fees_earned + fees.creator
  /\ s.curator_fees_earned = m.curator_fees_earned + fees.curator
  /\ s.growth_fees_earned = m.growth_fees_earned + fees.growth
  /\ s.total_trades - s.buy_trades - s.sell_trades
       = m.total_trades - m.buy_trades - m.sell_trades

(* Whatever the amount, its fee is broken down into naturals that add up,  *)
(* and is no more than the amount.                                         *)
LEMMA FeesType ==
  ASSUME NEW amount \in Nat
  PROVE  IsFees(FeeBreakdown(amount)) /\ FeeBreakdown(amount).total <= amount
BY FeeShares DEF IsFees

(* apply_pool_fee_stats books the volume and the three claimable shares,   *)
(* and leaves the reserves alone.                                          *)
LEMMA PoolFeesRaw ==
  ASSUME NEW r \in RawPool, NEW volume \in Nat, NEW fees, IsFees(fees)
  PROVE  PoolBooked(WithPoolFees(r, volume, fees), r, volume, fees)
<1> DEFINE v == r.total_volume + volume
           a == r.total_fees + fees.total
           b == r.unclaimed_creator_fees + fees.creator
           c == r.unclaimed_curator_fees + fees.curator
           d == r.unclaimed_growth_fees + fees.growth
           s == [r EXCEPT !.total_volume = v, !.total_fees = a,
                          !.unclaimed_creator_fees = b,
                          !.unclaimed_curator_fees = c,
                          !.unclaimed_growth_fees = d]
<1>1. v \in Nat /\ a \in Int /\ b \in Int /\ c \in Int /\ d \in Int
  BY DEF RawPool, IsFees
<1>2. WithPoolFees(r, volume, fees) = s
  BY DEF WithPoolFees
<1> HIDE DEF v, a, b, c, d
<1>3. /\ s \in RawPool
      /\ s.liquidity_sol_reserve = r.liquidity_sol_reserve
      /\ s.liquidity_token_reserve = r.liquidity_token_reserve
      /\ s.token_supply = r.token_supply
      /\ s.total_volume = v
      /\ s.total_fees = a
      /\ s.unclaimed_creator_fees = b
      /\ s.unclaimed_curator_fees = c
      /\ s.unclaimed_growth_fees = d
  BY <1>1 DEF RawPool
<1> HIDE DEF s
<1> QED
  BY <1>2, <1>3 DEF v, a, b, c, d, PoolBooked

(* s is r with other reserves, its fees untouched.                         *)
PoolMoves(s, r, sol, token) ==
  /\ s \in RawPool
  /\ s.liquidity_sol_reserve = sol
  /\ s.liquidity_token_reserve = token
  /\ SameFees(s, r)

(* What a trade in a bin writes in the pool before its fees.               *)
LEMMA PoolMoved ==
  ASSUME NEW r \in Pool, NEW status \in PoolStatus, NEW sol \in Int, NEW token \in Int
  PROVE  PoolMoves([r EXCEPT !.status = status,
                             !.liquidity_sol_reserve = sol,
                             !.liquidity_token_reserve = token], r, sol, token)
BY PoolIsRaw DEF RawPool, SameFees, PoolMoves

(* What a trade on the curve writes in the pool before its fees.           *)
LEMMA PoolSold ==
  ASSUME NEW r \in Pool, NEW status \in PoolStatus, NEW sol \in Int,
         NEW token \in Int, NEW out \in Int
  PROVE  PoolMoves([r EXCEPT !.status = status,
                             !.liquidity_sol_reserve = sol,
                             !.liquidity_token_reserve = token,
                             !.tokens_sold = out], r, sol, token)
BY PoolIsRaw DEF RawPool, SameFees, PoolMoves

(* apply_market_fee_stats books the volume, the five amounts of the fee    *)
(* and one trade, a buy or a sell.                                         *)
LEMMA MarketFeesRaw ==
  ASSUME NEW m \in RawMarket, NEW volume \in Nat, NEW fees, IsFees(fees),
         NEW is_buy \in BOOLEAN
  PROVE  MarketBooked(WithMarketFees(m, volume, fees, is_buy), m, volume, fees)
<1> DEFINE v == m.total_trade_volume + volume
           t == m.total_fees_earned + fees.total
           a == m.platform_fees_earned + fees.platform
           b == m.creator_fees_earned + fees.creator
           c == m.curator_fees_earned + fees.curator
           d == m.growth_fees_earned + fees.growth
           x == m.total_trades + 1
           y == m.buy_trades + (IF is_buy THEN 1 ELSE 0)
           z == m.sell_trades + (IF is_buy THEN 0 ELSE 1)
           s == [m EXCEPT !.total_trade_volume = v, !.total_fees_earned = t,
                          !.platform_fees_earned = a, !.creator_fees_earned = b,
                          !.curator_fees_earned = c, !.growth_fees_earned = d,
                          !.total_trades = x, !.buy_trades = y, !.sell_trades = z]
<1>1. /\ v \in Nat /\ t \in Nat /\ a \in Nat /\ b \in Nat /\ c \in Nat /\ d \in Nat
      /\ x \in Int /\ y \in Int /\ z \in Int
      /\ x - y - z = m.total_trades - m.buy_trades - m.sell_trades
  BY DEF RawMarket, IsFees
<1>2. WithMarketFees(m, volume, fees, is_buy) = s
  BY DEF WithMarketFees
<1> HIDE DEF v, t, a, b, c, d, x, y, z
<1>3. /\ s \in RawMarket
      /\ s.total_trade_volume = v
      /\ s.total_fees_earned = t
      /\ s.platform_fees_earned = a
      /\ s.creator_fees_earned = b
      /\ s.curator_fees_earned = c
      /\ s.growth_fees_earned = d
      /\ s.total_trades = x
      /\ s.buy_trades = y
      /\ s.sell_trades = z
  BY <1>1 DEF RawMarket
<1> HIDE DEF s
<1> QED
  BY <1>1, <1>2, <1>3 DEF v, t, a, b, c, d, MarketBooked

(* What a trade in a bin writes in the market before its fees.             *)
LEMMA MarketMoved ==
  ASSUME NEW m \in MarketState, NEW token \in Int, NEW sol \in Int, NEW id \in Int
  PROVE  LET n == [m EXCEPT !.allocated_token_liquidity = token,
                            !.allocated_sol_liquidity = sol,
                            !.active_bin_id = id]
         IN  n \in RawMarket /\ SameEarned(n, m)
BY MarketIsRaw DEF RawMarket, SameEarned

(* The records and balances of one pool before a trade (r, m, sv, tv, pay) *)
(* and after it (s, t, sv2, tv2, pay2): b and n are the records once the   *)
(* trade itself is booked and before its fees f are.                       *)
TradePosted(r, m, sv, tv, pay, b, n, f, volume, s, t, sv2, tv2, pay2) ==
  /\ s = WithPoolFees(b, volume, f)
  /\ t \in {WithMarketFees(n, volume, f, TRUE), WithMarketFees(n, volume, f, FALSE)}
  /\ pay2 = [pay EXCEPT !.platform = @ + f.platform]
  /\ sv2 = sv + (b.liquidity_sol_reserve - r.liquidity_sol_reserve)
              + f.creator + f.curator + f.growth
  /\ tv2 = tv + (b.liquidity_token_reserve - r.liquidity_token_reserve)
  /\ tv2 <= r.token_supply
  /\ SameFees(b, r)
  /\ SameEarned(n, m)

(* A trade keeps the books balanced: the vault receives, or pays, the      *)
(* change of the reserve and the three claimable shares, and the platform  *)
(* is paid its share.                                                      *)
LEMMA TradeSound ==
  ASSUME NEW r \in Pool, NEW m \in MarketState, NEW sv \in Nat, NEW tv \in Nat,
         NEW pay \in Payouts, NEW g \in Gifts, Sound(r, m, sv, tv, pay, g),
         NEW b \in RawPool, NEW n \in RawMarket, NEW volume \in Nat,
         NEW f, IsFees(f), NEW s, NEW t, NEW sv2 \in Nat, NEW tv2 \in Nat, NEW pay2,
         TradePosted(r, m, sv, tv, pay, b, n, f, volume, s, t, sv2, tv2, pay2)
  PROVE  /\ s \in RawPool
         /\ t \in RawMarket
         /\ pay2 \in Payouts
         /\ Sound(s, t, sv2, tv2, pay2, g)
<1>1. PoolBooked(s, b, volume, f)
  BY PoolFeesRaw DEF TradePosted
<1>2. MarketBooked(t, n, volume, f)
  BY MarketFeesRaw DEF TradePosted
<1>3. /\ pay2 \in Payouts
      /\ pay2.platform = pay.platform + f.platform
      /\ pay2.creator = pay.creator /\ pay2.curator = pay.curator
      /\ pay2.growth = pay.growth
  BY DEF Payouts, IsFees, TradePosted
<1>4. r \in RawPool /\ m \in RawMarket
  BY PoolIsRaw, MarketIsRaw
<1>5. sv2 = s.liquidity_sol_reserve + s.unclaimed_creator_fees
              + s.unclaimed_curator_fees + s.unclaimed_growth_fees + g.sol
  BY <1>1, <1>4 DEF TradePosted, Sound, SameFees, RawPool, Gifts, IsFees, PoolBooked
<1>6. /\ tv2 = s.liquidity_token_reserve + g.token
       /\ tv2 <= s.token_supply
  BY <1>1, <1>4 DEF TradePosted, Sound, SameFees, RawPool, Gifts, PoolBooked
<1>7. /\ t.creator_fees_earned = s.unclaimed_creator_fees + pay2.creator
      /\ t.curator_fees_earned = s.unclaimed_curator_fees + pay2.curator
      /\ t.growth_fees_earned = s.unclaimed_growth_fees + pay2.growth
      /\ t.platform_fees_earned = pay2.platform
  BY <1>1, <1>2, <1>3, <1>4
     DEF TradePosted, Sound, SameFees, SameEarned, RawPool, RawMarket, Payouts,
         IsFees, PoolBooked, MarketBooked
<1>8. t.total_fees_earned = t.creator_fees_earned + t.curator_fees_earned
                                 + t.growth_fees_earned + t.platform_fees_earned
  BY <1>2, <1>4 DEF TradePosted, Sound, SameEarned, RawMarket, IsFees, MarketBooked
<1>9. /\ s.total_fees = t.total_fees_earned
      /\ s.total_volume = t.total_trade_volume
  BY <1>1, <1>2, <1>4
     DEF TradePosted, Sound, SameFees, SameEarned, RawPool, RawMarket, IsFees,
         PoolBooked, MarketBooked
<1>10. t.total_trades = t.buy_trades + t.sell_trades
  <2>1. n.total_trades - n.buy_trades - n.sell_trades = 0
    BY <1>4 DEF TradePosted, Sound, SameEarned, RawMarket
  <2>2. t.total_trades \in Int /\ t.buy_trades \in Int /\ t.sell_trades \in Int
    BY <1>2 DEF RawMarket, MarketBooked
  <2>3. t.total_trades - t.buy_trades - t.sell_trades = 0
    BY <1>2, <2>1 DEF MarketBooked
  <2> QED
    BY <2>2, <2>3
<1> QED
  BY <1>1, <1>2, <1>3, <1>5, <1>7, <1>8, <1>9, <1>10, <1>6
     DEF Sound, PoolBooked, MarketBooked

(* The books of every pool balance.                                        *)
AllSound ==
  \A p \in Posts :
    Sound(pool[p], market[p], solVault[p], tokenVault[p], payouts[p], gifts[p])

(* That is what the three invariants of the runs say.                      *)
LEMMA AllSoundIsBooks == AllSound <=> SolCustody /\ TokenCustody /\ FeeLedger
BY DEF AllSound, Sound, SolCustody, TokenCustody, FeeLedger, SolOwed

(* The phase recorded in the pool is no part of its books.                 *)
LEMMA ModelAside ==
  ASSUME NEW r \in Pool, NEW model \in PoolModel,
         NEW m, NEW sv, NEW tv, NEW pay, NEW g, Sound(r, m, sv, tv, pay, g)
  PROVE  /\ [r EXCEPT !.model = model] \in Pool
         /\ Sound([r EXCEPT !.model = model], m, sv, tv, pay, g)
BY DEF Pool, Sound

(* apply_config_fee_stats leaves a config record.                          *)
LEMMA ConfigFees ==
  ASSUME NEW c \in Config, NEW volume \in Nat, NEW f, IsFees(f)
  PROVE  WithConfigFees(c, volume, f) \in Config
<1> DEFINE v == c.total_volume + volume
           t == c.total_fees_collected + f.total
<1>1. v \in Nat /\ t \in Nat
  BY DEF Config, IsFees
<1>2. WithConfigFees(c, volume, f) = [c EXCEPT !.total_volume = v, !.total_fees_collected = t]
  BY DEF WithConfigFees
<1> HIDE DEF v, t
<1>3. [c EXCEPT !.total_volume = v, !.total_fees_collected = t] \in Config
  BY <1>1 DEF Config
<1> QED
  BY <1>2, <1>3
-----------------------------------------------------------------------------

(* A call that writes the records and balances of pool p alone leaves the  *)
(* state sound when what it writes is sound.                               *)
LEMMA OnePoolWritten ==
  ASSUME TypeOK, AllSound, NEW p \in pools,
         NEW r \in Pool, NEW m \in MarketState, NEW sv \in Nat, NEW tv \in Nat,
         NEW pay \in Payouts, NEW g \in Gifts, Sound(r, m, sv, tv, pay, g),
         pool' = [pool EXCEPT ![p] = r],
         market' = [market EXCEPT ![p] = m],
         solVault' = [solVault EXCEPT ![p] = sv],
         tokenVault' = [tokenVault EXCEPT ![p] = tv],
         payouts' = [payouts EXCEPT ![p] = pay],
         gifts' = [gifts EXCEPT ![p] = g],
         config' \in Config, bin' \in [BinKeys -> Bin],
         \A b \in BinKeys \ bins : bin'[b] = bin[b],
         UNCHANGED <<registry, now>>
  PROVE  TypeOK' /\ AllSound'
<1>1. Typed'
  BY DEF TypeOK, Typed, registry
<1>2. Unborn'
  BY DEF TypeOK, Typed, Unborn, registry
<1>3. AllSound'
  <2> SUFFICES ASSUME NEW q \in Posts
               PROVE  Sound(pool'[q], market'[q], solVault'[q], tokenVault'[q],
                            payouts'[q], gifts'[q])
    BY DEF AllSound
  <2>1. CASE q = p
    BY <2>1 DEF TypeOK, Typed
  <2>2. CASE q # p
    BY <2>2 DEF TypeOK, Typed, AllSound
  <2> QED
    BY <2>1, <2>2
<1> QED
  BY <1>1, <1>2, <1>3 DEF TypeOK

(* The four swaps have this in common: records that hold a trade and its   *)
(* fees, and the balances that go with them.                               *)
LEMMA TradeWritten ==
  ASSUME TypeOK, AllSound, NEW p \in pools,
         NEW b \in RawPool, NEW n \in RawMarket, NEW volume \in Nat,
         NEW f, IsFees(f), NEW s, NEW t, NEW sv \in Nat, NEW tv \in Nat, NEW pay,
         TradePosted(pool[p], market[p], solVault[p], tokenVault[p], payouts[p],
                     b, n, f, volume, s, t, sv, tv, pay),
         PoolFits(s), MarketFits(t),
         NEW r, r = s \/ \E model \in PoolModel : r = [s EXCEPT !.model = model],
         pool' = [pool EXCEPT ![p] = r],
         market' = [market EXCEPT ![p] = t],
         solVault' = [solVault EXCEPT ![p] = sv],
         tokenVault' = [tokenVault EXCEPT ![p] = tv],
         payouts' = [payouts EXCEPT ![p] = pay],
         config' = WithConfigFees(config, volume, f),
         bin' \in [BinKeys -> Bin],
         \A k \in BinKeys \ bins : bin'[k] = bin[k],
         UNCHANGED <<registry, gifts, now>>
  PROVE  TypeOK' /\ AllSound'
<1>1. /\ pool[p] \in Pool /\ market[p] \in MarketState
      /\ solVault[p] \in Nat /\ tokenVault[p] \in Nat
      /\ payouts[p] \in Payouts /\ gifts[p] \in Gifts
      /\ config \in Config
      /\ gifts' = [gifts EXCEPT ![p] = gifts[p]]
      /\ Sound(pool[p], market[p], solVault[p], tokenVault[p], payouts[p], gifts[p])
  BY DEF TypeOK, Typed, AllSound
<1>2. /\ s \in RawPool
      /\ t \in RawMarket
      /\ pay \in Payouts
      /\ Sound(s, t, sv, tv, pay, gifts[p])
  BY <1>1, TradeSound
<1>3. /\ r \in Pool
      /\ t \in MarketState
      /\ Sound(r, t, sv, tv, pay, gifts[p])
  BY <1>2, RawPoolFits, RawMarketFits, ModelAside
<1>4. config' \in Config
  BY <1>1, ConfigFees
<1> QED
  BY <1>1, <1>2, <1>3, <1>4, OnePoolWritten

(* What BinFits confines is all that a trade or a move of liquidity writes *)
(* in a bin.                                                               *)
LEMMA BinMoved ==
  ASSUME NEW r \in Bin, NEW tokens \in Int, NEW sol \in Int,
         BinFits([r EXCEPT !.token_liquidity = tokens, !.sol_liquidity = sol])
  PROVE  [r EXCEPT !.token_liquidity = tokens, !.sol_liquidity = sol] \in Bin
BY DEF Bin, BinFits

(* What the handlers find in the accounts of a pool. *)
LEMMA AccountsOf ==
  ASSUME TypeOK, AllSound, NEW p \in Posts
  PROVE  /\ pool[p] \in Pool /\ market[p] \in MarketState
         /\ solVault[p] \in Nat /\ tokenVault[p] \in Nat
         /\ payouts[p] \in Payouts /\ gifts[p] \in Gifts
         /\ pool[p].liquidity_sol_reserve \in Nat
         /\ pool[p].liquidity_token_reserve \in Nat
         /\ pool[p].tokens_sold \in Nat
         /\ pool[p].token_supply \in Nat
         /\ tokenVault[p] <= pool[p].token_supply
         /\ StatusOnTrade(p) \in PoolStatus
         /\ bin \in [BinKeys -> Bin]
         /\ Sound(pool[p], market[p], solVault[p], tokenVault[p], payouts[p], gifts[p])
<1>1. /\ pool[p] \in Pool /\ market[p] \in MarketState
      /\ solVault[p] \in Nat /\ tokenVault[p] \in Nat
      /\ payouts[p] \in Payouts /\ gifts[p] \in Gifts
      /\ bin \in [BinKeys -> Bin]
      /\ Sound(pool[p], market[p], solVault[p], tokenVault[p], payouts[p], gifts[p])
  BY DEF TypeOK, Typed, AllSound
<1>2. /\ pool[p].liquidity_sol_reserve \in Nat
      /\ pool[p].liquidity_token_reserve \in Nat
      /\ pool[p].tokens_sold \in Nat
      /\ pool[p].token_supply \in Nat
  BY <1>1, U64Assumption DEF Pool, U64
<1>3. tokenVault[p] <= pool[p].token_supply
  BY <1>1 DEF Sound
<1>4. StatusOnTrade(p) \in PoolStatus
  BY <1>1 DEF StatusOnTrade, Pool, PoolStatus
<1> QED
  BY <1>1, <1>2, <1>3, <1>4

(* execute_sigmoid_buy keeps every account typed and every book balanced.  *)
LEMMA SigmoidBuySound ==
  ASSUME TypeOK, AllSound, NEW p \in Posts, NEW amount_in \in U64,
         NEW minimum, SigmoidBuy(p, amount_in, minimum)
  PROVE  TypeOK' /\ AllSound'
<1> DEFINE f == FeeBreakdown(amount_in)
           quote == quote_sigmoid_buy(market[p].sigmoid, pool[p].tokens_sold,
                                      amount_in - f.total)
           x == pool[p].liquidity_sol_reserve + quote.gross_sol
           y == pool[p].liquidity_token_reserve - quote.amount_out
           z == pool[p].tokens_sold + quote.amount_out
           b == [pool[p] EXCEPT !.status = StatusOnTrade(p),
                                !.liquidity_sol_reserve = x,
                                !.liquidity_token_reserve = y,
                                !.tokens_sold = z]
           s == WithPoolFees(b, amount_in, f)
           model == IF MigrationConditionsMet(s, market[p])
                    THEN "MigrationPending" ELSE "SigmoidBootstrap"
           n == [market[p] EXCEPT !.model = model]
           t == WithMarketFees(n, amount_in, f, TRUE)
           sv == solVault[p] + (quote.gross_sol + f.creator + f.curator + f.growth)
           tv == tokenVault[p] - quote.amount_out
           pay == [payouts[p] EXCEPT !.platform = @ + f.platform]
           r == [s EXCEPT !.model = model]
<1>1. /\ p \in pools
      /\ IsQuote(quote)
      /\ PoolFits(s)
      /\ MarketFits(t)
      /\ quote.amount_out <= tokenVault[p]
      /\ pool' = [pool EXCEPT ![p] = r]
      /\ market' = [market EXCEPT ![p] = t]
      /\ tokenVault' = [tokenVault EXCEPT ![p] = tv]
      /\ config' = WithConfigFees(config, amount_in, f)
      /\ UNCHANGED <<registry, bin, gifts, now>>
  BY DEF SigmoidBuy, SigmoidBuyAllowed, BuyFill, PoolAfterBuy, ModelAfterBuy,
         MarketAfterBuy, SwapAllowed, TransferTokensFromPool
<1>2. /\ solVault' = [solVault EXCEPT ![p] = sv]
      /\ payouts' = [payouts EXCEPT ![p] = pay]
  BY DEF SigmoidBuy, SigmoidBuyAllowed, BuyFill, PoolAfterBuy, ModelAfterBuy,
         MarketAfterBuy, TransferBuySol, BuyDeposit
<1>3. IsFees(f) /\ amount_in \in Nat
  BY FeesType, U64Assumption DEF U64
<1> HIDE DEF f, quote
<1>4. quote.amount_out \in Nat /\ quote.gross_sol \in Nat
  BY <1>1, U64Assumption DEF IsQuote, U64
<1>5. x \in Int /\ y \in Int /\ z \in Int /\ sv \in Nat /\ tv \in Nat
  BY <1>1, <1>3, <1>4, AccountsOf DEF IsFees
<1>6. /\ sv = solVault[p] + (x - pool[p].liquidity_sol_reserve)
                + f.creator + f.curator + f.growth
      /\ tv = tokenVault[p] + (y - pool[p].liquidity_token_reserve)
      /\ tv <= pool[p].token_supply
  BY <1>3, <1>4, AccountsOf DEF IsFees
<1> HIDE DEF x, y, z, sv, tv
<1>7. PoolMoves(b, pool[p], x, y)
  BY <1>5, AccountsOf, PoolSold
<1>8. model \in PoolModel
  BY DEF PoolModel
<1> HIDE DEF b, model
<1>9. n \in RawMarket /\ SameEarned(n, market[p])
  BY <1>8, AccountsOf, MarketIsRaw DEF RawMarket, SameEarned
<1> HIDE DEF n
<1>10. TradePosted(pool[p], market[p], solVault[p], tokenVault[p], payouts[p],
                   b, n, f, amount_in, s, t, sv, tv, pay)
  BY <1>6, <1>7, <1>9 DEF TradePosted, PoolMoves
<1>11. b \in RawPool
  BY <1>7 DEF PoolMoves
<1>12. r = s \/ \E any \in PoolModel : r = [s EXCEPT !.model = any]
  BY <1>8
<1>13. bin' \in [BinKeys -> Bin] /\ \A k \in BinKeys \ bins : bin'[k] = bin[k]
  BY <1>1, AccountsOf
<1> HIDE DEF s, t, pay, r
<1> QED
  BY <1>1, <1>2, <1>3, <1>5, <1>9, <1>10, <1>11, <1>12, <1>13, TradeWritten

(* execute_sigmoid_sell does: the seller and the platform leave the other  *)
(* three shares in the vault.                                              *)
LEMMA SigmoidSellSound ==
  ASSUME TypeOK, AllSound, NEW p \in Posts, NEW amount_in \in U64,
         NEW minimum, SigmoidSell(p, amount_in, minimum)
  PROVE  TypeOK' /\ AllSound'
<1> DEFINE gross_sol == quote_sigmoid_sell(market[p].sigmoid, pool[p].tokens_sold,
                                           amount_in).gross_sol
           f == FeeBreakdown(gross_sol)
           x == pool[p].liquidity_sol_reserve - gross_sol
           y == pool[p].liquidity_token_reserve + amount_in
           z == pool[p].tokens_sold - amount_in
           b == [pool[p] EXCEPT !.status = StatusOnTrade(p),
                                !.liquidity_sol_reserve = x,
                                !.liquidity_token_reserve = y,
                                !.tokens_sold = z]
           s == WithPoolFees(b, gross_sol, f)
           n == market[p]
           t == WithMarketFees(n, gross_sol, f, FALSE)
           sv == solVault[p] - ((gross_sol - f.total) + f.platform)
           tv == tokenVault[p] + amount_in
           pay == [payouts[p] EXCEPT !.platform = @ + f.platform]
<1>1. /\ p \in pools
      /\ gross_sol \in U64
      /\ PoolFits(s)
      /\ MarketFits(t)
      /\ amount_in <= Circulating(p)
      /\ pool' = [pool EXCEPT ![p] = s]
      /\ market' = [market EXCEPT ![p] = t]
      /\ tokenVault' = [tokenVault EXCEPT ![p] = tv]
      /\ config' = WithConfigFees(config, gross_sol, f)
      /\ UNCHANGED <<registry, bin, gifts, now>>
  BY DEF SigmoidSell, SigmoidSellAllowed, SalePays, PoolAfterSale, MarketAfterSale,
         SwapAllowed, TransferTokensToPool, IsQuote
<1>2. /\ (gross_sol - f.total) + f.platform <= solVault[p]
      /\ solVault' = [solVault EXCEPT ![p] = sv]
      /\ payouts' = [payouts EXCEPT ![p] = pay]
  BY DEF SigmoidSell, SigmoidSellAllowed, SalePays, PoolAfterSale, MarketAfterSale,
         TransferSellSol, CanPay, SalePayment
<1>3. gross_sol \in Nat /\ amount_in \in Nat
  BY <1>1, U64Assumption DEF U64
<1>4. IsFees(f)
  BY <1>3, FeesType
<1> HIDE DEF f, gross_sol
<1>5. x \in Int /\ y \in Int /\ z \in Int /\ sv \in Nat /\ tv \in Nat
  BY <1>2, <1>3, <1>4, AccountsOf DEF IsFees
<1>6. /\ sv = solVault[p] + (x - pool[p].liquidity_sol_reserve)
                + f.creator + f.curator + f.growth
      /\ tv = tokenVault[p] + (y - pool[p].liquidity_token_reserve)
      /\ tv <= pool[p].token_supply
  BY <1>1, <1>3, <1>4, AccountsOf DEF IsFees, Circulating
<1> HIDE DEF x, y, z, sv, tv
<1>7. PoolMoves(b, pool[p], x, y)
  BY <1>5, AccountsOf, PoolSold
<1> HIDE DEF b
<1>8. n \in RawMarket /\ SameEarned(n, market[p])
  BY AccountsOf, MarketIsRaw DEF SameEarned
<1>9. TradePosted(pool[p], market[p], solVault[p], tokenVault[p], payouts[p],
                  b, n, f, gross_sol, s, t, sv, tv, pay)
  BY <1>6, <1>7, <1>8 DEF TradePosted, PoolMoves
<1>10. b \in RawPool
  BY <1>7 DEF PoolMoves
<1>11. bin' \in [BinKeys -> Bin] /\ \A k \in BinKeys \ bins : bin'[k] = bin[k]
  BY <1>1, AccountsOf
<1> HIDE DEF n, s, t, pay
<1> QED
  BY <1>1, <1>2, <1>3, <1>4, <1>5, <1>8, <1>9, <1>10, <1>11, TradeWritten

(* execute_dlmm_buy does: the bin's SOL is the pool's reserve.             *)
LEMMA DlmmBuySound ==
  ASSUME TypeOK, AllSound, NEW p \in Posts, NEW k \in bins, NEW amount_in \in U64,
         NEW minimum, DlmmBuy(p, k, amount_in, minimum)
  PROVE  TypeOK' /\ AllSound'
<1> DEFINE f == FeeBreakdown(amount_in)
           sol == amount_in - f.total
           tokens_out == quote_dlmm_buy(sol, bin[k].price_lamports_per_token)
           bt == bin[k].token_liquidity - tokens_out
           bs == bin[k].sol_liquidity + sol
           filled == [bin[k] EXCEPT !.token_liquidity = bt, !.sol_liquidity = bs]
           x == pool[p].liquidity_sol_reserve + sol
           y == pool[p].liquidity_token_reserve - tokens_out
           b == [pool[p] EXCEPT !.status = StatusOnTrade(p),
                                !.liquidity_sol_reserve = x,
                                !.liquidity_token_reserve = y]
           s == WithPoolFees(b, amount_in, f)
           u == market[p].allocated_token_liquidity - tokens_out
           v == market[p].allocated_sol_liquidity + sol
           id == IF filled.token_liquidity = 0 THEN market[p].active_bin_id + 1
                                               ELSE market[p].active_bin_id
           n == [market[p] EXCEPT !.allocated_token_liquidity = u,
                                  !.allocated_sol_liquidity = v,
                                  !.active_bin_id = id]
           t == WithMarketFees(n, amount_in, f, TRUE)
           sv == solVault[p] + (sol + f.creator + f.curator + f.growth)
           tv == tokenVault[p] - tokens_out
           pay == [payouts[p] EXCEPT !.platform = @ + f.platform]
<1>1. /\ p \in pools
      /\ sol > 0
      /\ tokens_out \in 1..U64Max
      /\ BinFits(filled)
      /\ PoolFits(s)
      /\ MarketFits(t)
      /\ tokens_out <= tokenVault[p]
      /\ bin' = [bin EXCEPT ![k] = filled]
      /\ pool' = [pool EXCEPT ![p] = s]
      /\ market' = [market EXCEPT ![p] = t]
      /\ tokenVault' = [tokenVault EXCEPT ![p] = tv]
      /\ config' = WithConfigFees(config, amount_in, f)
      /\ UNCHANGED <<registry, gifts, now>>
  BY DEF DlmmBuy, SwapAllowed, TransferTokensFromPool
<1>2. /\ solVault' = [solVault EXCEPT ![p] = sv]
      /\ payouts' = [payouts EXCEPT ![p] = pay]
  BY DEF DlmmBuy, TransferBuySol, BuyDeposit
<1>3. IsFees(f) /\ amount_in \in Nat
  BY FeesType, U64Assumption DEF U64
<1> HIDE DEF f, tokens_out
<1>4. tokens_out \in Nat /\ sol \in Nat
  BY <1>1, <1>3, U64Assumption DEF IsFees
<1>5. x \in Int /\ y \in Int /\ sv \in Nat /\ tv \in Nat
  BY <1>1, <1>3, <1>4, AccountsOf DEF IsFees
<1>6. /\ sv = solVault[p] + (x - pool[p].liquidity_sol_reserve)
                + f.creator + f.curator + f.growth
      /\ tv = tokenVault[p] + (y - pool[p].liquidity_token_reserve)
      /\ tv <= pool[p].token_supply
  BY <1>3, <1>4, AccountsOf DEF IsFees
<1>7. u \in Int /\ v \in Int /\ id \in Int
  BY <1>4, AccountsOf, MarketIsRaw DEF RawMarket
<1>8. bin' \in [BinKeys -> Bin] /\ \A j \in BinKeys \ bins : bin'[j] = bin[j]
  <2>1. k \in BinKeys /\ bin[k] \in Bin
    BY AccountsOf DEF TypeOK, Typed
  <2>2. bt \in Int /\ bs \in Int
    BY <2>1, <1>4, U64Assumption DEF Bin, U64
  <2> HIDE DEF bt, bs
  <2>3. filled \in Bin
    BY <1>1, <2>1, <2>2, BinMoved DEF Bin, BinFits
  <2> QED
    BY <1>1, <2>1, <2>3, AccountsOf
<1> HIDE DEF x, y, sv, tv, u, v, id
<1>9. PoolMoves(b, pool[p], x, y)
  BY <1>5, AccountsOf, PoolMoved
<1> HIDE DEF b
<1>10. n \in RawMarket /\ SameEarned(n, market[p])
  BY <1>7, AccountsOf, MarketMoved
<1>11. TradePosted(pool[p], market[p], solVault[p], tokenVault[p], payouts[p],
                   b, n, f, amount_in, s, t, sv, tv, pay)
  BY <1>6, <1>9, <1>10 DEF TradePosted, PoolMoves
<1>12. b \in RawPool
  BY <1>9 DEF PoolMoves
<1> HIDE DEF n, s, t, pay
<1> QED
  BY <1>1, <1>2, <1>3, <1>5, <1>8, <1>10, <1>11, <1>12, TradeWritten

(* execute_dlmm_sell does.                                                 *)
LEMMA DlmmSellSound ==
  ASSUME TypeOK, AllSound, NEW p \in Posts, NEW k \in bins, NEW amount_in \in U64,
         NEW minimum, DlmmSell(p, k, amount_in, minimum)
  PROVE  TypeOK' /\ AllSound'
<1> DEFINE gross_sol == quote_dlmm_sell(amount_in, bin[k].price_lamports_per_token)
           f == FeeBreakdown(gross_sol)
           bt == bin[k].token_liquidity + amount_in
           bs == bin[k].sol_liquidity - gross_sol
           filled == [bin[k] EXCEPT !.token_liquidity = bt, !.sol_liquidity = bs]
           x == pool[p].liquidity_sol_reserve - gross_sol
           y == pool[p].liquidity_token_reserve + amount_in
           b == [pool[p] EXCEPT !.status = StatusOnTrade(p),
                                !.liquidity_sol_reserve = x,
                                !.liquidity_token_reserve = y]
           s == WithPoolFees(b, gross_sol, f)
           u == market[p].allocated_token_liquidity + amount_in
           v == market[p].allocated_sol_liquidity - gross_sol
           id == IF filled.sol_liquidity = 0 THEN market[p].active_bin_id - 1
                                             ELSE market[p].active_bin_id
           n == [market[p] EXCEPT !.allocated_token_liquidity = u,
                                  !.allocated_sol_liquidity = v,
                                  !.active_bin_id = id]
           t == WithMarketFees(n, gross_sol, f, FALSE)
           sv == solVault[p] - ((gross_sol - f.total) + f.platform)
           tv == tokenVault[p] + amount_in
           pay == [payouts[p] EXCEPT !.platform = @ + f.platform]
<1>1. /\ p \in pools
      /\ gross_sol \in 1..U64Max
      /\ BinFits(filled)
      /\ PoolFits(s)
      /\ MarketFits(t)
      /\ amount_in <= Circulating(p)
      /\ bin' = [bin EXCEPT ![k] = filled]
      /\ pool' = [pool EXCEPT ![p] = s]
      /\ market' = [market EXCEPT ![p] = t]
      /\ tokenVault' = [tokenVault EXCEPT ![p] = tv]
      /\ config' = WithConfigFees(config, gross_sol, f)
      /\ UNCHANGED <<registry, gifts, now>>
  BY DEF DlmmSell, SwapAllowed, TransferTokensToPool
<1>2. /\ (gross_sol - f.total) + f.platform <= solVault[p]
      /\ solVault' = [solVault EXCEPT ![p] = sv]
      /\ payouts' = [payouts EXCEPT ![p] = pay]
  BY DEF DlmmSell, TransferSellSol, CanPay, SalePayment
<1>3. gross_sol \in Nat /\ amount_in \in Nat
  BY <1>1, U64Assumption DEF U64
<1>4. IsFees(f)
  BY <1>3, FeesType
<1> HIDE DEF f, gross_sol
<1>5. x \in Int /\ y \in Int /\ sv \in Nat /\ tv \in Nat
  BY <1>2, <1>3, <1>4, AccountsOf DEF IsFees
<1>6. /\ sv = solVault[p] + (x - pool[p].liquidity_sol_reserve)
                + f.creator + f.curator + f.growth
      /\ tv = tokenVault[p] + (y - pool[p].liquidity_token_reserve)
      /\ tv <= pool[p].token_supply
  BY <1>1, <1>3, <1>4, AccountsOf DEF IsFees, Circulating
<1>7. u \in Int /\ v \in Int /\ id \in Int
  BY <1>3, AccountsOf, MarketIsRaw DEF RawMarket
<1>8. bin' \in [BinKeys -> Bin] /\ \A j \in BinKeys \ bins : bin'[j] = bin[j]
  <2>1. k \in BinKeys /\ bin[k] \in Bin
    BY AccountsOf DEF TypeOK, Typed
  <2>2. bt \in Int /\ bs \in Int
    BY <2>1, <1>3, U64Assumption DEF Bin, U64
  <2> HIDE DEF bt, bs
  <2>3. filled \in Bin
    BY <1>1, <2>1, <2>2, BinMoved DEF Bin, BinFits
  <2> QED
    BY <1>1, <2>1, <2>3, AccountsOf
<1> HIDE DEF x, y, sv, tv, u, v, id
<1>9. PoolMoves(b, pool[p], x, y)
  BY <1>5, AccountsOf, PoolMoved
<1> HIDE DEF b
<1>10. n \in RawMarket /\ SameEarned(n, market[p])
  BY <1>7, AccountsOf, MarketMoved
<1>11. TradePosted(pool[p], market[p], solVault[p], tokenVault[p], payouts[p],
                   b, n, f, gross_sol, s, t, sv, tv, pay)
  BY <1>6, <1>9, <1>10 DEF TradePosted, PoolMoves
<1>12. b \in RawPool
  BY <1>9 DEF PoolMoves
<1> HIDE DEF n, s, t, pay
<1> QED
  BY <1>1, <1>2, <1>3, <1>4, <1>5, <1>8, <1>10, <1>11, <1>12, TradeWritten

(* A call that writes no pool, market, bin, vault or payout. *)
LEMMA ConfigWritten ==
  ASSUME TypeOK, AllSound, config' \in Config, initialized' \in BOOLEAN, now' \in Nat,
         UNCHANGED <<pools, pool, market, bins, bin, balances>>
  PROVE  TypeOK' /\ AllSound'
BY DEF TypeOK, Typed, Unborn, AllSound, balances

(* initialize touches the config account alone, and leaves a config        *)
(* record.                                                                 *)
LEMMA InitializeSound ==
  ASSUME TypeOK, AllSound, NEW w \in Deployers, NEW treasury \in Treasuries,
         NEW params \in InitParams, Initialize(w, treasury, params)
  PROVE  TypeOK' /\ AllSound'
<1> DEFINE floor == unwrap_or(params.floor_price, Defaults.floor_price)
           cap == unwrap_or(params.cap_price, Defaults.cap_price)
           fee == unwrap_or(params.pool_creation_fee, Defaults.pool_creation_fee)
           duration == unwrap_or(params.duration, Defaults.duration)
           max_buy == unwrap_or(params.max_buy, Defaults.max_buy)
<1>1. /\ floor \in U64 /\ cap \in U64 /\ fee \in U64
      /\ duration \in Int /\ max_buy \in U64
  BY InitParamsAssumption, DefaultsAssumption DEF Optional, unwrap_or
<1>2. w \in Wallets /\ treasury \in Wallets
  BY WalletsAssumption
<1>3. /\ initialized' = TRUE
      /\ config' =
           [admin |-> w, treasury |-> treasury, is_paused |-> FALSE,
            total_pools |-> 0, total_volume |-> 0, total_fees_collected |-> 0,
            default_sigmoid_floor_price |-> floor,
            default_sigmoid_cap_price |-> cap,
            pool_creation_fee |-> fee,
            launch_protection_duration |-> duration,
            max_buy_during_protection |-> max_buy]
      /\ UNCHANGED <<pools, pool, market, bins, bin, balances, now>>
  BY DEF Initialize
<1> HIDE DEF floor, cap, fee, duration, max_buy
<1>4. config' \in Config
  BY <1>1, <1>2, <1>3, U64Assumption DEF Config, U64
<1> QED
  BY <1>3, <1>4, ConfigWritten DEF TypeOK, Typed

(* update_config does the same, whichever options are given.               *)
LEMMA UpdateConfigSound ==
  ASSUME TypeOK, AllSound, NEW w \in Wallets, NEW u \in ConfigUpdates, UpdateConfig(w, u)
  PROVE  TypeOK' /\ AllSound'
<1> DEFINE admin == unwrap_or(u.admin, config.admin)
           treasury == unwrap_or(u.treasury, config.treasury)
           paused == unwrap_or(u.is_paused, config.is_paused)
           floor == unwrap_or(u.floor_price, config.default_sigmoid_floor_price)
           cap == unwrap_or(u.cap_price, config.default_sigmoid_cap_price)
           fee == unwrap_or(u.pool_creation_fee, config.pool_creation_fee)
           duration == unwrap_or(u.duration, config.launch_protection_duration)
           max_buy == unwrap_or(u.max_buy, config.max_buy_during_protection)
<1>1. config \in Config
  BY DEF TypeOK, Typed
<1>2. /\ admin \in Wallets \cup {NoWallet} /\ treasury \in Wallets \cup {NoWallet}
      /\ paused \in BOOLEAN
  BY <1>1, ConfigUpdatesAssumption DEF Optional, unwrap_or, Config
<1>3. /\ floor \in U64 /\ cap \in U64 /\ fee \in U64
      /\ duration \in Int /\ max_buy \in U64
  BY <1>1, ConfigUpdatesAssumption DEF Optional, unwrap_or, Config
<1>4. /\ config' = [config EXCEPT
                      !.admin = admin,
                      !.treasury = treasury,
                      !.is_paused = paused,
                      !.default_sigmoid_floor_price = floor,
                      !.default_sigmoid_cap_price = cap,
                      !.pool_creation_fee = fee,
                      !.launch_protection_duration = duration,
                      !.max_buy_during_protection = max_buy]
      /\ UNCHANGED <<initialized, pools, pool, market, bins, bin, balances, now>>
  BY DEF UpdateConfig
<1> HIDE DEF admin, treasury, paused, floor, cap, fee, duration, max_buy
<1>5. config' \in Config
  BY <1>1, <1>2, <1>3, <1>4 DEF Config
<1> QED
  BY <1>4, <1>5, ConfigWritten DEF TypeOK, Typed

(* A call that rewrites pool p alone, and none of its books. *)
LEMMA PoolRewritten ==
  ASSUME TypeOK, AllSound, NEW p \in pools,
         NEW r \in Pool, NEW m \in MarketState,
         \A sv, tv, pay, g :
           Sound(pool[p], market[p], sv, tv, pay, g) => Sound(r, m, sv, tv, pay, g),
         pool' = [pool EXCEPT ![p] = r],
         market' = [market EXCEPT ![p] = m],
         config' \in Config, bin' \in [BinKeys -> Bin],
         \A k \in BinKeys \ bins : bin'[k] = bin[k],
         UNCHANGED <<registry, balances, now>>
  PROVE  TypeOK' /\ AllSound'
<1>1. p \in Posts
  BY DEF TypeOK, Typed
<1>2. /\ solVault' = [solVault EXCEPT ![p] = solVault[p]]
      /\ tokenVault' = [tokenVault EXCEPT ![p] = tokenVault[p]]
      /\ payouts' = [payouts EXCEPT ![p] = payouts[p]]
      /\ gifts' = [gifts EXCEPT ![p] = gifts[p]]
      /\ UNCHANGED <<registry, now>>
  BY DEF TypeOK, Typed, balances
<1>3. Sound(r, m, solVault[p], tokenVault[p], payouts[p], gifts[p])
  BY <1>1, AccountsOf
<1> QED
  BY <1>1, <1>2, <1>3, AccountsOf, OnePoolWritten

(* set_pool_status touches no book.                                        *)
LEMMA SetPoolStatusSound ==
  ASSUME TypeOK, AllSound, NEW w \in Wallets, NEW p \in Posts, NEW status \in Statuses,
         SetPoolStatus(w, p, status)
  PROVE  TypeOK' /\ AllSound'
<1> DEFINE r == [pool[p] EXCEPT !.status = status]
<1>1. /\ p \in pools
      /\ pool' = [pool EXCEPT ![p] = r]
      /\ UNCHANGED <<registry, config, market, bin, balances, now>>
  BY DEF SetPoolStatus
<1>2. pool[p] \in Pool /\ status \in PoolStatus
  BY AccountsOf, WalletsAssumption
<1>3. r \in Pool
  BY <1>2 DEF Pool
<1>4. \A sv, tv, pay, g :
        Sound(pool[p], market[p], sv, tv, pay, g) => Sound(r, market[p], sv, tv, pay, g)
  BY <1>2 DEF Sound, Pool
<1> HIDE DEF r
<1>5. /\ market' = [market EXCEPT ![p] = market[p]]
      /\ config' \in Config /\ bin' \in [BinKeys -> Bin]
      /\ \A k \in BinKeys \ bins : bin'[k] = bin[k]
  BY <1>1 DEF TypeOK, Typed
<1> QED
  BY <1>1, <1>3, <1>4, <1>5, AccountsOf, PoolRewritten

(* set_creator touches no book: the fees not yet claimed stay owed.        *)
LEMMA SetCreatorSound ==
  ASSUME TypeOK, AllSound, NEW w \in Wallets, NEW p \in Posts, NEW creator \in Creators,
         SetCreator(w, p, creator)
  PROVE  TypeOK' /\ AllSound'
<1> DEFINE r == [pool[p] EXCEPT !.creator = creator]
<1>1. /\ p \in pools
      /\ pool' = [pool EXCEPT ![p] = r]
      /\ UNCHANGED <<registry, config, market, bin, balances, now>>
  BY DEF SetCreator
<1>2. pool[p] \in Pool /\ creator \in Wallets
  BY AccountsOf, WalletsAssumption
<1>3. r \in Pool
  BY <1>2 DEF Pool
<1>4. \A sv, tv, pay, g :
        Sound(pool[p], market[p], sv, tv, pay, g) => Sound(r, market[p], sv, tv, pay, g)
  BY <1>2 DEF Sound, Pool
<1> HIDE DEF r
<1>5. /\ market' = [market EXCEPT ![p] = market[p]]
      /\ config' \in Config /\ bin' \in [BinKeys -> Bin]
      /\ \A k \in BinKeys \ bins : bin'[k] = bin[k]
  BY <1>1 DEF TypeOK, Typed
<1> QED
  BY <1>1, <1>3, <1>4, <1>5, AccountsOf, PoolRewritten

(* migrate_pool moves no lamport and no token.                             *)
LEMMA MigratePoolSound ==
  ASSUME TypeOK, AllSound, NEW w \in Wallets, NEW p \in Posts, NEW active_bin_id,
         NEW enforce, MigratePool(w, p, active_bin_id, enforce)
  PROVE  TypeOK' /\ AllSound'
<1> DEFINE id == StartingBin(p, active_bin_id)
           r == [pool[p] EXCEPT !.model = "DLMM"]
           m == [market[p] EXCEPT !.model = "DLMM", !.active_bin_id = id,
                                  !.migrated_at = now]
<1>1. /\ p \in pools
      /\ id \in BinIds
      /\ pool' = [pool EXCEPT ![p] = r]
      /\ market' = [market EXCEPT ![p] = m]
      /\ UNCHANGED <<registry, config, bin, balances, now>>
  BY DEF MigratePool, MigrationAllowed
<1>2. /\ pool[p] \in Pool /\ market[p] \in MarketState /\ now \in Int
      /\ "DLMM" \in PoolModel
  BY AccountsOf DEF TypeOK, Typed, PoolModel
<1> HIDE DEF id
<1>3. r \in Pool
  BY <1>2 DEF Pool
<1>4. m \in MarketState
  BY <1>1, <1>2 DEF MarketState
<1>5. \A sv, tv, pay, g :
        Sound(pool[p], market[p], sv, tv, pay, g) => Sound(r, m, sv, tv, pay, g)
  BY <1>2 DEF Sound, Pool, MarketState
<1> HIDE DEF r, m
<1>6. /\ config' \in Config /\ bin' \in [BinKeys -> Bin]
      /\ \A k \in BinKeys \ bins : bin'[k] = bin[k]
  BY <1>1 DEF TypeOK, Typed
<1> QED
  BY <1>1, <1>3, <1>4, <1>5, <1>6, AccountsOf, PoolRewritten

(* An account that was never initialised reads as zeros. *)
LEMMA BlankTypes ==
  /\ BlankConfig \in Config
  /\ BlankPool \in Pool
  /\ BlankMarket \in MarketState
  /\ BlankBin \in Bin
  /\ NoPayouts \in Payouts
<1>1. 0 \in U64 /\ 0 \in BinIds
  BY U64Assumption, BinIdsAssumption DEF U64, BinIds
<1>2. "Active" \in PoolStatus /\ "SigmoidBootstrap" \in PoolModel
  BY DEF PoolStatus, PoolModel
<1>3. BlankConfig \in Config
  BY <1>1 DEF BlankConfig, Config
<1>4. BlankPool \in Pool
  BY <1>1, <1>2 DEF BlankPool, Pool
<1>5. BlankSigmoid \in SigmoidConfig
  BY <1>1 DEF BlankSigmoid, SigmoidConfig
<1>6. BlankMarket \in MarketState
  BY <1>1, <1>2, <1>5 DEF BlankMarket, MarketState
<1>7. BlankBin \in Bin /\ NoPayouts \in Payouts
  BY <1>1 DEF BlankBin, Bin, NoPayouts, Payouts
<1> QED
  BY <1>3, <1>4, <1>6, <1>7

(* create_pool puts together a sigmoid configuration.                      *)
LEMMA NewSigmoidType ==
  ASSUME TypeOK, NEW params \in PoolParams
  PROVE  NewSigmoid(params) \in SigmoidConfig
<1> DEFINE supply == unwrap_or(params.token_supply, Defaults.token_supply)
           floor == unwrap_or(params.floor_price, config.default_sigmoid_floor_price)
           cap == unwrap_or(params.cap_price, config.default_sigmoid_cap_price)
           midpoint == unwrap_or(params.midpoint_supply, supply \div 2)
           steepness == unwrap_or(params.steepness_bps, Defaults.steepness_bps)
<1>1. config \in Config
  BY DEF TypeOK, Typed
<1>2. /\ supply \in U64 /\ floor \in U64 /\ cap \in U64 /\ steepness \in U64
  BY <1>1, PoolParamsAssumption, DefaultsAssumption DEF Optional, unwrap_or, Config
<1>3. supply \div 2 \in U64
  <2> HIDE DEF supply
  <2> QED
    BY <1>2, U64Assumption DEF U64
<1>4. midpoint \in U64
  BY <1>3, PoolParamsAssumption DEF Optional, unwrap_or
<1>5. NewSigmoid(params) =
        [token_supply |-> supply, floor_price_lamports |-> floor,
         cap_price_lamports |-> cap, midpoint_supply |-> midpoint,
         steepness_bps |-> steepness, band_bps |-> SIGMOID_BAND_BPS]
  BY DEF NewSigmoid
<1> HIDE DEF supply, floor, cap, midpoint, steepness
<1> QED
  BY <1>2, <1>4, <1>5, LimitsAssumption DEF SigmoidConfig

(* create_pool opens balanced books: the whole supply is in the vault and  *)
(* in the reserve, and lamports sent to the vault beforehand are a gift.   *)
LEMMA CreatePoolSound ==
  ASSUME TypeOK, AllSound, NEW w \in Curators, NEW p \in Posts, NEW params \in PoolParams,
         CreatePool(w, p, params)
  PROVE  TypeOK' /\ AllSound'
<1> DEFINE sigmoid == NewSigmoid(params)
           threshold == unwrap_or(params.supply_threshold_bps, Defaults.supply_threshold_bps)
           step == unwrap_or(params.bin_step_bps, Defaults.bin_step_bps)
           min_sol == unwrap_or(params.min_sol_reserve, Defaults.min_sol_reserve)
           supply == sigmoid.token_supply
           duration == config.launch_protection_duration
           ends_at == now + duration
           status == IF duration > 0 THEN "LaunchProtection" ELSE "Active"
           r == [BlankPool EXCEPT !.curator = w,
                                  !.status = status,
                                  !.liquidity_token_reserve = supply,
                                  !.token_supply = supply,
                                  !.launch_protection_ends_at = ends_at]
           m == [BlankMarket EXCEPT !.sigmoid = sigmoid,
                                    !.supply_threshold_bps = threshold,
                                    !.min_sol_reserve = min_sol,
                                    !.bin_step_bps = step]
           pay == [payouts[p] EXCEPT !.creation = config.pool_creation_fee]
           c == [config EXCEPT !.total_pools = @ + 1]
<1>1. /\ p \notin pools
      /\ pools' = pools \cup {p}
      /\ pool' = [pool EXCEPT ![p] = r]
      /\ market' = [market EXCEPT ![p] = m]
      /\ tokenVault' = [tokenVault EXCEPT ![p] = supply]
      /\ UNCHANGED <<initialized, bins, bin, solVault, gifts, now>>
  BY DEF CreatePool, CanCreate
<1>2. /\ config.total_pools + 1 \in U64
      /\ config' = c
      /\ payouts' = [payouts EXCEPT ![p] = pay]
  BY DEF CreatePool, CanCreate
<1>3. /\ pool[p] = BlankPool /\ market[p] = BlankMarket /\ payouts[p] = NoPayouts
      /\ config \in Config /\ now \in Nat
      /\ w \in Wallets
  BY <1>1, WalletsAssumption DEF TypeOK, Typed, Unborn
<1>4. /\ sigmoid \in SigmoidConfig /\ supply \in U64
  BY NewSigmoidType DEF SigmoidConfig
<1>5. threshold \in Nat /\ step \in Nat /\ min_sol \in U64
  BY PoolParamsAssumption, DefaultsAssumption DEF Optional, unwrap_or
<1>6. status \in PoolStatus /\ ends_at \in Int
  BY <1>3 DEF PoolStatus, Config
<1>7. c \in Config
  <2> DEFINE total == config.total_pools + 1
  <2>1. total \in U64
    BY <1>2
  <2> HIDE DEF total
  <2>2. [config EXCEPT !.total_pools = total] \in Config
    BY <1>3, <2>1 DEF Config
  <2> QED
    BY <2>2 DEF total
<1>8. /\ pay \in Payouts /\ pay.platform = 0 /\ pay.creator = 0
      /\ pay.curator = 0 /\ pay.growth = 0
  <2>1. config.pool_creation_fee \in Nat
    BY <1>3, U64Assumption DEF Config, U64
  <2> QED
    BY <1>3, <2>1 DEF NoPayouts, Payouts
<1> HIDE DEF sigmoid, threshold, step, min_sol, supply, status, ends_at, c, pay
<1>9. /\ r \in Pool
      /\ r.liquidity_sol_reserve = 0 /\ r.unclaimed_creator_fees = 0
      /\ r.unclaimed_curator_fees = 0 /\ r.unclaimed_growth_fees = 0
      /\ r.liquidity_token_reserve = supply /\ r.token_supply = supply
      /\ r.total_fees = 0 /\ r.total_volume = 0
  <2>1. BlankPool \in Pool
    BY BlankTypes
  <2>2. r \in Pool
    BY <1>3, <1>4, <1>6, <2>1 DEF Pool
  <2> QED
    BY <2>2 DEF BlankPool
<1>10. /\ m \in MarketState
       /\ m.total_trade_volume = 0 /\ m.total_fees_earned = 0
       /\ m.platform_fees_earned = 0 /\ m.creator_fees_earned = 0
       /\ m.curator_fees_earned = 0 /\ m.growth_fees_earned = 0
       /\ m.total_trades = 0 /\ m.buy_trades = 0 /\ m.sell_trades = 0
  <2>1. BlankMarket \in MarketState
    BY BlankTypes
  <2>2. m \in MarketState
    BY <1>4, <1>5, <2>1 DEF MarketState
  <2> QED
    BY <2>2 DEF BlankMarket
<1>11. solVault[p] = gifts[p].sol /\ gifts[p].token = 0
  <2>1. /\ Sound(BlankPool, BlankMarket, solVault[p], tokenVault[p], NoPayouts, gifts[p])
        /\ tokenVault[p] \in Nat /\ gifts[p] \in Gifts
    BY <1>3, AccountsOf
  <2> QED
    BY <2>1 DEF Sound, BlankPool, Gifts
<1> HIDE DEF r, m
<1>12. Sound(r, m, solVault[p], supply, pay, gifts[p])
  <2>1. supply \in Nat /\ gifts[p].sol \in Nat
    BY <1>4, AccountsOf, U64Assumption DEF U64, Gifts
  <2> QED
    BY <1>8, <1>9, <1>10, <1>11, <2>1 DEF Sound
<1>13. Typed'
  BY <1>1, <1>2, <1>4, <1>7, <1>8, <1>9, <1>10, U64Assumption DEF TypeOK, Typed, U64
<1>14. Unborn'
  BY <1>1, <1>2 DEF TypeOK, Typed, Unborn
<1>15. AllSound'
  <2> SUFFICES ASSUME NEW q \in Posts
               PROVE  Sound(pool'[q], market'[q], solVault'[q], tokenVault'[q],
                            payouts'[q], gifts'[q])
    BY DEF AllSound
  <2>1. CASE q = p
    BY <1>1, <1>2, <1>12, <2>1 DEF TypeOK, Typed
  <2>2. CASE q # p
    BY <1>1, <1>2, <2>2 DEF TypeOK, Typed, AllSound
  <2> QED
    BY <2>1, <2>2
<1> QED
  BY <1>13, <1>14, <1>15 DEF TypeOK

(* init_bin moves no lamport and no token.                                 *)
LEMMA InitBinSound ==
  ASSUME TypeOK, AllSound, NEW w \in Wallets, NEW p \in Posts, NEW params \in BinParams,
         InitBin(w, p, params)
  PROVE  TypeOK' /\ AllSound'
<1> DEFINE b == <<p, params.bin_id>>
           tokens == market[p].allocated_token_liquidity + params.token_liquidity
           sol == market[p].allocated_sol_liquidity + params.sol_liquidity
           new == [price_lamports_per_token |-> params.price_lamports_per_token,
                   token_liquidity |-> params.token_liquidity,
                   sol_liquidity |-> params.sol_liquidity]
           m == [market[p] EXCEPT !.allocated_token_liquidity = tokens,
                                  !.allocated_sol_liquidity = sol]
<1>1. /\ p \in pools
      /\ m.allocated_token_liquidity <= pool[p].liquidity_token_reserve
      /\ m.allocated_sol_liquidity <= pool[p].liquidity_sol_reserve
      /\ bins' = bins \cup {b}
      /\ bin' = [bin EXCEPT ![b] = new]
      /\ UNCHANGED <<initialized, config, pools, pool, balances, now>>
  BY DEF InitBin, CanProvide, Allocate
<1>2. market' = [market EXCEPT ![p] = m]
  BY DEF InitBin, Allocate
<1>3. /\ pool[p] \in Pool /\ market[p] \in MarketState
      /\ Sound(pool[p], market[p], solVault[p], tokenVault[p], payouts[p], gifts[p])
  BY AccountsOf
<1>4. b \in BinKeys /\ new \in Bin
  BY LiquidityAssumption DEF BinKeys, Bin
<1>5. tokens \in U64 /\ sol \in U64
  <2>1. /\ params.token_liquidity \in Nat /\ params.sol_liquidity \in Nat
    BY LiquidityAssumption, U64Assumption DEF U64
  <2>2. /\ market[p].allocated_token_liquidity \in Nat
        /\ market[p].allocated_sol_liquidity \in Nat
        /\ pool[p].liquidity_token_reserve \in U64
        /\ pool[p].liquidity_sol_reserve \in U64
    BY <1>3, U64Assumption DEF MarketState, Pool, U64
  <2>3. m.allocated_token_liquidity = tokens /\ m.allocated_sol_liquidity = sol
    <3> HIDE DEF tokens, sol
    <3> QED
      BY <1>3 DEF MarketState
  <2> HIDE DEF m
  <2> QED
    BY <1>1, <2>1, <2>2, <2>3, U64Assumption DEF U64
<1> HIDE DEF b, tokens, sol, new
<1>6. m \in MarketState
  BY <1>3, <1>5 DEF MarketState
<1>7. Sound(pool[p], m, solVault[p], tokenVault[p], payouts[p], gifts[p])
  BY <1>3 DEF Sound, MarketState
<1> HIDE DEF m
<1>8. Typed'
  BY <1>1, <1>2, <1>4, <1>6 DEF TypeOK, Typed, balances
<1>9. Unborn'
  <2>1. b[1] = p
    BY DEF b
  <2> QED
    BY <1>1, <1>2, <2>1 DEF TypeOK, Typed, Unborn, balances
<1>10. AllSound'
  BY <1>1, <1>2, <1>7 DEF TypeOK, Typed, AllSound, balances
<1> QED
  BY <1>8, <1>9, <1>10 DEF TypeOK

(* Liquidity added or removed changes reserve, allocation and vault by the *)
(* same amounts.                                                           *)
LEMMA MoveLiquiditySound ==
  ASSUME TypeOK, AllSound, NEW p \in pools, NEW b \in bins,
         NEW tokens \in Int, NEW sol \in Int,
         tokens <= Circulating(p), tokenVault[p] + tokens >= 0,
         solVault[p] + sol >= 0, MoveLiquidity(p, b, tokens, sol)
  PROVE  TypeOK' /\ AllSound'
<1> DEFINE bt == bin[b].token_liquidity + tokens
           bs == bin[b].sol_liquidity + sol
           filled == [bin[b] EXCEPT !.token_liquidity = bt, !.sol_liquidity = bs]
           x == pool[p].liquidity_token_reserve + tokens
           y == pool[p].liquidity_sol_reserve + sol
           r == [pool[p] EXCEPT !.liquidity_token_reserve = x,
                                !.liquidity_sol_reserve = y]
           u == market[p].allocated_token_liquidity + tokens
           v == market[p].allocated_sol_liquidity + sol
           m == [market[p] EXCEPT !.allocated_token_liquidity = u,
                                  !.allocated_sol_liquidity = v]
           sv == solVault[p] + sol
           tv == tokenVault[p] + tokens
<1>1. /\ BinFits(filled)
      /\ PoolFits(r)
      /\ MarketFits(m)
      /\ bin' = [bin EXCEPT ![b] = filled]
      /\ pool' = [pool EXCEPT ![p] = r]
      /\ market' = [market EXCEPT ![p] = m]
      /\ solVault' = [solVault EXCEPT ![p] = sv]
      /\ tokenVault' = [tokenVault EXCEPT ![p] = tv]
      /\ UNCHANGED <<registry, config, payouts, gifts, now>>
  BY DEF MoveLiquidity, Allocate
<1>2. p \in Posts /\ b \in BinKeys /\ bin[b] \in Bin /\ config \in Config
  BY DEF TypeOK, Typed
<1>3. /\ pool[p] \in Pool /\ market[p] \in MarketState
      /\ solVault[p] \in Nat /\ tokenVault[p] \in Nat
      /\ payouts[p] \in Payouts /\ gifts[p] \in Gifts
      /\ bin \in [BinKeys -> Bin]
      /\ Sound(pool[p], market[p], solVault[p], tokenVault[p], payouts[p], gifts[p])
  BY <1>2, AccountsOf
<1>4. bt \in Int /\ bs \in Int
  BY <1>2, U64Assumption DEF Bin, U64
<1>5. /\ x \in Int /\ y \in Int /\ u \in Int /\ v \in Int /\ sv \in Nat /\ tv \in Nat
  BY <1>3, U64Assumption DEF Pool, MarketState, U64
<1>6. tv <= pool[p].token_supply
  BY <1>2, AccountsOf DEF Circulating
<1>7. filled \in Bin
  <2> HIDE DEF bt, bs
  <2> QED
    BY <1>1, <1>2, <1>4, BinMoved
<1>8. r \in Pool
  <2> HIDE DEF x, y
  <2>1. r \in RawPool
    BY <1>3, <1>5, PoolIsRaw DEF RawPool
  <2> QED
    BY <1>1, <2>1, RawPoolFits
<1>9. m \in MarketState
  <2> HIDE DEF u, v
  <2>1. m \in RawMarket
    BY <1>3, <1>5, MarketIsRaw DEF RawMarket
  <2> QED
    BY <1>1, <2>1, RawMarketFits
<1>10. Sound(r, m, sv, tv, payouts[p], gifts[p])
  <2>1. /\ r.liquidity_sol_reserve = y
        /\ r.liquidity_token_reserve = x
        /\ SameFees(r, pool[p])
    <3> HIDE DEF x, y
    <3> QED
      BY <1>3 DEF Pool, SameFees
  <2>2. SameEarned(m, market[p])
    <3> HIDE DEF u, v
    <3> QED
      BY <1>3 DEF MarketState, SameEarned
  <2> HIDE DEF r, m
  <2>3. /\ sv = y + pool[p].unclaimed_creator_fees + pool[p].unclaimed_curator_fees
                  + pool[p].unclaimed_growth_fees + gifts[p].sol
        /\ tv = x + gifts[p].token
    BY <1>3, PoolIsRaw DEF Sound, RawPool, Gifts
  <2> HIDE DEF x, y, sv, tv
  <2> QED
    BY <1>3, <1>6, <2>1, <2>2, <2>3 DEF Sound, SameFees, SameEarned
<1>11. /\ payouts' = [payouts EXCEPT ![p] = payouts[p]]
       /\ gifts' = [gifts EXCEPT ![p] = gifts[p]]
       /\ config' \in Config /\ bin' \in [BinKeys -> Bin]
       /\ \A k \in BinKeys \ bins : bin'[k] = bin[k]
       /\ UNCHANGED <<registry, now>>
  <2> HIDE DEF filled
  <2> QED
    BY <1>1, <1>2, <1>3, <1>7 DEF TypeOK, Typed
<1> HIDE DEF r, m, sv, tv, filled
<1> QED
  BY <1>1, <1>3, <1>5, <1>8, <1>9, <1>10, <1>11, OnePoolWritten

(* add_liquidity does so upwards.                                          *)
LEMMA AddLiquiditySound ==
  ASSUME TypeOK, AllSound, NEW w \in Wallets, NEW p \in Posts, NEW b \in bins,
         NEW token_amount \in U64, NEW sol_amount \in U64,
         AddLiquidity(w, p, b, token_amount, sol_amount)
  PROVE  TypeOK' /\ AllSound'
<1>1. /\ p \in pools
      /\ token_amount <= Circulating(p)
      /\ MoveLiquidity(p, b, token_amount, sol_amount)
  BY DEF AddLiquidity, CanProvide
<1>2. /\ token_amount \in Nat /\ sol_amount \in Nat
      /\ tokenVault[p] \in Nat /\ solVault[p] \in Nat
  BY AccountsOf, U64Assumption DEF U64
<1> QED
  BY <1>1, <1>2, MoveLiquiditySound

(* remove_liquidity does so downwards.                                     *)
LEMMA RemoveLiquiditySound ==
  ASSUME TypeOK, AllSound, NEW w \in Wallets, NEW p \in Posts, NEW b \in bins,
         NEW token_amount \in U64, NEW sol_amount \in U64,
         RemoveLiquidity(w, p, b, token_amount, sol_amount)
  PROVE  TypeOK' /\ AllSound'
<1>1. /\ p \in pools
      /\ token_amount <= tokenVault[p]
      /\ sol_amount <= solVault[p]
      /\ MoveLiquidity(p, b, -token_amount, -sol_amount)
  BY DEF RemoveLiquidity, CanProvide
<1>2. /\ token_amount \in Nat /\ sol_amount \in Nat
      /\ tokenVault[p] \in Nat /\ solVault[p] \in Nat
      /\ pool[p].token_supply \in Nat /\ tokenVault[p] <= pool[p].token_supply
  BY AccountsOf, U64Assumption DEF U64
<1>3. /\ -token_amount \in Int /\ -sol_amount \in Int
      /\ -token_amount <= Circulating(p)
      /\ tokenVault[p] + (-token_amount) >= 0
      /\ solVault[p] + (-sol_amount) >= 0
  BY <1>1, <1>2 DEF Circulating
<1> QED
  BY <1>1, <1>3, MoveLiquiditySound

(* A claim rewrites one pool record, its SOL vault and its payouts.        *)
LEMMA ClaimWritten ==
  ASSUME TypeOK, AllSound, NEW p \in pools, NEW r \in Pool, NEW sv \in Nat,
         NEW pay \in Payouts,
         Sound(r, market[p], sv, tokenVault[p], pay, gifts[p]),
         pool' = [pool EXCEPT ![p] = r],
         solVault' = [solVault EXCEPT ![p] = sv],
         payouts' = [payouts EXCEPT ![p] = pay],
         UNCHANGED <<registry, config, market, bin, tokenVault, gifts, now>>
  PROVE  TypeOK' /\ AllSound'
<1> DEFINE m == market[p]
           tv == tokenVault[p]
           g == gifts[p]
<1>1. m \in MarketState /\ tv \in Nat /\ g \in Gifts /\ Sound(r, m, sv, tv, pay, g)
  BY DEF TypeOK, Typed
<1>2. /\ market' = [market EXCEPT ![p] = m]
      /\ tokenVault' = [tokenVault EXCEPT ![p] = tv]
      /\ gifts' = [gifts EXCEPT ![p] = g]
      /\ config' \in Config /\ bin' \in [BinKeys -> Bin]
      /\ \A k \in BinKeys \ bins : bin'[k] = bin[k]
      /\ UNCHANGED <<registry, now>>
  BY DEF TypeOK, Typed
<1> HIDE DEF m, tv, g
<1> QED
  BY <1>1, <1>2, OnePoolWritten

(* claim_creator_fees pays exactly what it stops owing.                    *)
LEMMA ClaimCreatorFeesSound ==
  ASSUME TypeOK, AllSound, NEW w \in Claimants, NEW p \in Posts, ClaimCreatorFees(w, p)
  PROVE  TypeOK' /\ AllSound'
<1> DEFINE claimable == pool[p].unclaimed_creator_fees
           paid == payouts[p].creator + claimable
           r == [pool[p] EXCEPT !.unclaimed_creator_fees = 0]
           pay == [payouts[p] EXCEPT !.creator = paid]
           sv == solVault[p] - claimable
<1>1. /\ p \in pools
      /\ claimable <= solVault[p]
      /\ pool' = [pool EXCEPT ![p] = r]
      /\ solVault' = [solVault EXCEPT ![p] = sv]
      /\ payouts' = [payouts EXCEPT ![p] = pay]
      /\ UNCHANGED <<registry, config, market, bin, tokenVault, gifts, now>>
  BY DEF ClaimCreatorFees, PaidFromVault
<1>2. /\ pool[p] \in Pool /\ market[p] \in MarketState
      /\ solVault[p] \in Nat /\ tokenVault[p] \in Nat
      /\ payouts[p] \in Payouts /\ gifts[p] \in Gifts
      /\ Sound(pool[p], market[p], solVault[p], tokenVault[p], payouts[p], gifts[p])
  BY AccountsOf
<1>3. claimable \in Nat /\ paid \in Nat /\ sv \in Nat
  BY <1>1, <1>2, U64Assumption DEF Pool, Payouts, U64
<1>4. r \in Pool /\ pay \in Payouts
  <2> HIDE DEF claimable, paid
  <2> QED
    BY <1>2, <1>3, U64Assumption DEF Pool, Payouts, U64
<1>5. Sound(r, market[p], sv, tokenVault[p], pay, gifts[p])
  <2>1. /\ r.unclaimed_creator_fees = 0
        /\ r.unclaimed_curator_fees = pool[p].unclaimed_curator_fees
        /\ r.unclaimed_growth_fees = pool[p].unclaimed_growth_fees
        /\ r.liquidity_sol_reserve = pool[p].liquidity_sol_reserve
        /\ r.liquidity_token_reserve = pool[p].liquidity_token_reserve
        /\ r.token_supply = pool[p].token_supply
        /\ r.total_fees = pool[p].total_fees
        /\ r.total_volume = pool[p].total_volume
    BY <1>2 DEF Pool
  <2>2. /\ pay.creator = paid
        /\ pay.curator = payouts[p].curator
        /\ pay.growth = payouts[p].growth
        /\ pay.platform = payouts[p].platform
    <3> HIDE DEF paid
    <3> QED
      BY <1>2 DEF Payouts
  <2> HIDE DEF r, pay
  <2> QED
    BY <1>2, <2>1, <2>2, PoolIsRaw, MarketIsRaw
       DEF Sound, RawPool, RawMarket, Payouts, Gifts
<1> HIDE DEF claimable, paid, r, pay, sv
<1> QED
  BY <1>1, <1>3, <1>4, <1>5, ClaimWritten

(* claim_curator_fees pays exactly what it stops owing.                    *)
LEMMA ClaimCuratorFeesSound ==
  ASSUME TypeOK, AllSound, NEW w \in Claimants, NEW p \in Posts, ClaimCuratorFees(w, p)
  PROVE  TypeOK' /\ AllSound'
<1> DEFINE claimable == pool[p].unclaimed_curator_fees
           paid == payouts[p].curator + claimable
           r == [pool[p] EXCEPT !.unclaimed_curator_fees = 0]
           pay == [payouts[p] EXCEPT !.curator = paid]
           sv == solVault[p] - claimable
<1>1. /\ p \in pools
      /\ claimable <= solVault[p]
      /\ pool' = [pool EXCEPT ![p] = r]
      /\ solVault' = [solVault EXCEPT ![p] = sv]
      /\ payouts' = [payouts EXCEPT ![p] = pay]
      /\ UNCHANGED <<registry, config, market, bin, tokenVault, gifts, now>>
  BY DEF ClaimCuratorFees, PaidFromVault, IsCurator
<1>2. /\ pool[p] \in Pool /\ market[p] \in MarketState
      /\ solVault[p] \in Nat /\ tokenVault[p] \in Nat
      /\ payouts[p] \in Payouts /\ gifts[p] \in Gifts
      /\ Sound(pool[p], market[p], solVault[p], tokenVault[p], payouts[p], gifts[p])
  BY AccountsOf
<1>3. claimable \in Nat /\ paid \in Nat /\ sv \in Nat
  BY <1>1, <1>2, U64Assumption DEF Pool, Payouts, U64
<1>4. r \in Pool /\ pay \in Payouts
  <2> HIDE DEF claimable, paid
  <2> QED
    BY <1>2, <1>3, U64Assumption DEF Pool, Payouts, U64
<1>5. Sound(r, market[p], sv, tokenVault[p], pay, gifts[p])
  <2>1. /\ r.unclaimed_curator_fees = 0
        /\ r.unclaimed_creator_fees = pool[p].unclaimed_creator_fees
        /\ r.unclaimed_growth_fees = pool[p].unclaimed_growth_fees
        /\ r.liquidity_sol_reserve = pool[p].liquidity_sol_reserve
        /\ r.liquidity_token_reserve = pool[p].liquidity_token_reserve
        /\ r.token_supply = pool[p].token_supply
        /\ r.total_fees = pool[p].total_fees
        /\ r.total_volume = pool[p].total_volume
    BY <1>2 DEF Pool
  <2>2. /\ pay.curator = paid
        /\ pay.creator = payouts[p].creator
        /\ pay.growth = payouts[p].growth
        /\ pay.platform = payouts[p].platform
    <3> HIDE DEF paid
    <3> QED
      BY <1>2 DEF Payouts
  <2> HIDE DEF r, pay
  <2> QED
    BY <1>2, <2>1, <2>2, PoolIsRaw, MarketIsRaw
       DEF Sound, RawPool, RawMarket, Payouts, Gifts
<1> HIDE DEF claimable, paid, r, pay, sv
<1> QED
  BY <1>1, <1>3, <1>4, <1>5, ClaimWritten

(* claim_growth_fees pays exactly what it stops owing.                     *)
LEMMA ClaimGrowthFeesSound ==
  ASSUME TypeOK, AllSound, NEW w \in Claimants, NEW p \in Posts, ClaimGrowthFees(w, p)
  PROVE  TypeOK' /\ AllSound'
<1> DEFINE claimable == pool[p].unclaimed_growth_fees
           paid == payouts[p].growth + claimable
           r == [pool[p] EXCEPT !.unclaimed_growth_fees = 0]
           pay == [payouts[p] EXCEPT !.growth = paid]
           sv == solVault[p] - claimable
<1>1. /\ p \in pools
      /\ claimable <= solVault[p]
      /\ pool' = [pool EXCEPT ![p] = r]
      /\ solVault' = [solVault EXCEPT ![p] = sv]
      /\ payouts' = [payouts EXCEPT ![p] = pay]
      /\ UNCHANGED <<registry, config, market, bin, tokenVault, gifts, now>>
  BY DEF ClaimGrowthFees, PaidFromVault
<1>2. /\ pool[p] \in Pool /\ market[p] \in MarketState
      /\ solVault[p] \in Nat /\ tokenVault[p] \in Nat
      /\ payouts[p] \in Payouts /\ gifts[p] \in Gifts
      /\ Sound(pool[p], market[p], solVault[p], tokenVault[p], payouts[p], gifts[p])
  BY AccountsOf
<1>3. claimable \in Nat /\ paid \in Nat /\ sv \in Nat
  BY <1>1, <1>2, U64Assumption DEF Pool, Payouts, U64
<1>4. r \in Pool /\ pay \in Payouts
  <2> HIDE DEF claimable, paid
  <2> QED
    BY <1>2, <1>3, U64Assumption DEF Pool, Payouts, U64
<1>5. Sound(r, market[p], sv, tokenVault[p], pay, gifts[p])
  <2>1. /\ r.unclaimed_growth_fees = 0
        /\ r.unclaimed_creator_fees = pool[p].unclaimed_creator_fees
        /\ r.unclaimed_curator_fees = pool[p].unclaimed_curator_fees
        /\ r.liquidity_sol_reserve = pool[p].liquidity_sol_reserve
        /\ r.liquidity_token_reserve = pool[p].liquidity_token_reserve
        /\ r.token_supply = pool[p].token_supply
        /\ r.total_fees = pool[p].total_fees
        /\ r.total_volume = pool[p].total_volume
    BY <1>2 DEF Pool
  <2>2. /\ pay.growth = paid
        /\ pay.creator = payouts[p].creator
        /\ pay.curator = payouts[p].curator
        /\ pay.platform = payouts[p].platform
    <3> HIDE DEF paid
    <3> QED
      BY <1>2 DEF Payouts
  <2> HIDE DEF r, pay
  <2> QED
    BY <1>2, <2>1, <2>2, PoolIsRaw, MarketIsRaw
       DEF Sound, RawPool, RawMarket, Payouts, Gifts
<1> HIDE DEF claimable, paid, r, pay, sv
<1> QED
  BY <1>1, <1>3, <1>4, <1>5, ClaimWritten

(* Time passing moves nothing.                                             *)
LEMMA TickSound ==
  ASSUME TypeOK, AllSound, Tick
  PROVE  TypeOK' /\ AllSound'
<1>1. now' \in Nat /\ UNCHANGED <<registry, accounts, balances>>
  BY DEF Tick, TypeOK, Typed
<1> QED
  BY <1>1, ConfigWritten DEF TypeOK, Typed, registry, accounts

(* A transfer from outside, to the vault of a pool that may not exist yet. *)
LEMMA Gifted ==
  ASSUME TypeOK, AllSound, NEW p \in Posts, NEW sv \in Nat, NEW tv \in Nat,
         NEW g \in Gifts, Sound(pool[p], market[p], sv, tv, payouts[p], g),
         solVault' = [solVault EXCEPT ![p] = sv],
         tokenVault' = [tokenVault EXCEPT ![p] = tv],
         gifts' = [gifts EXCEPT ![p] = g],
         UNCHANGED <<registry, accounts, payouts, now>>
  PROVE  TypeOK' /\ AllSound'
<1>1. Typed' /\ Unborn'
  BY DEF TypeOK, Typed, Unborn, registry, accounts
<1>2. AllSound'
  BY DEF TypeOK, Typed, AllSound, accounts
<1> QED
  BY <1>1, <1>2 DEF TypeOK

(* Lamports from outside are counted as gifts.                             *)
LEMMA GiftSolSound ==
  ASSUME TypeOK, AllSound, NEW p \in Posts, NEW amount \in GiftAmounts, GiftSol(p, amount)
  PROVE  TypeOK' /\ AllSound'
<1> DEFINE sol == gifts[p].sol + amount
           g == [gifts[p] EXCEPT !.sol = sol]
           sv == solVault[p] + amount
<1>1. /\ solVault' = [solVault EXCEPT ![p] = sv]
      /\ gifts' = [gifts EXCEPT ![p] = g]
      /\ UNCHANGED <<registry, accounts, tokenVault, payouts, now>>
  BY DEF GiftSol
<1>2. /\ amount \in Nat /\ sol \in Nat /\ sv \in Nat
      /\ pool[p] \in Pool /\ gifts[p] \in Gifts /\ tokenVault[p] \in Nat
      /\ Sound(pool[p], market[p], solVault[p], tokenVault[p], payouts[p], gifts[p])
  BY AccountsOf, AmountsAssumption DEF Gifts
<1>3. g \in Gifts /\ g.sol = sol /\ g.token = gifts[p].token
  <2> HIDE DEF sol
  <2> QED
    BY <1>2 DEF Gifts
<1>4. Sound(pool[p], market[p], sv, tokenVault[p], payouts[p], g)
  <2> HIDE DEF g
  <2> QED
    BY <1>2, <1>3, PoolIsRaw DEF Sound, RawPool, Gifts
<1>5. tokenVault' = [tokenVault EXCEPT ![p] = tokenVault[p]]
  BY <1>1 DEF TypeOK, Typed
<1> HIDE DEF g, sv
<1> QED
  BY <1>1, <1>2, <1>3, <1>4, <1>5, Gifted

(* Tokens from outside are counted as gifts, and come from those in        *)
(* circulation.                                                            *)
LEMMA GiftTokensSound ==
  ASSUME TypeOK, AllSound, NEW p \in Posts, NEW amount \in GiftAmounts,
         GiftTokens(p, amount)
  PROVE  TypeOK' /\ AllSound'
<1> DEFINE token == gifts[p].token + amount
           g == [gifts[p] EXCEPT !.token = token]
           tv == tokenVault[p] + amount
<1>1. /\ amount <= Circulating(p)
      /\ tokenVault' = [tokenVault EXCEPT ![p] = tv]
      /\ gifts' = [gifts EXCEPT ![p] = g]
      /\ UNCHANGED <<registry, accounts, solVault, payouts, now>>
  BY DEF GiftTokens
<1>2. /\ amount \in Nat /\ token \in Nat /\ tv \in Nat
      /\ pool[p] \in Pool /\ gifts[p] \in Gifts /\ solVault[p] \in Nat
      /\ tv <= pool[p].token_supply
      /\ Sound(pool[p], market[p], solVault[p], tokenVault[p], payouts[p], gifts[p])
  BY <1>1, AccountsOf, AmountsAssumption DEF Gifts, Circulating
<1>3. g \in Gifts /\ g.token = token /\ g.sol = gifts[p].sol
  <2> HIDE DEF token
  <2> QED
    BY <1>2 DEF Gifts
<1>4. Sound(pool[p], market[p], solVault[p], tv, payouts[p], g)
  <2> HIDE DEF g
  <2> QED
    BY <1>2, <1>3, PoolIsRaw DEF Sound, RawPool, Gifts
<1>5. solVault' = [solVault EXCEPT ![p] = solVault[p]]
  BY <1>1 DEF TypeOK, Typed
<1> HIDE DEF g, tv
<1> QED
  BY <1>1, <1>2, <1>3, <1>4, <1>5, Gifted
-----------------------------------------------------------------------------

(* The freshly deployed program has nothing and owes nothing.              *)
LEMMA InitSound == Init => TypeOK /\ AllSound
<1> SUFFICES ASSUME Init PROVE TypeOK /\ AllSound
  OBVIOUS
<1>1. Typed
  BY BlankTypes DEF Init, Typed, Gifts
<1>2. Unborn
  BY DEF Init, Unborn
<1>3. AllSound
  BY DEF Init, AllSound, Sound, BlankPool, BlankMarket, NoPayouts
<1> QED
  BY <1>1, <1>2, <1>3 DEF TypeOK

(* Every step of the program keeps the accounts typed and the books        *)
(* balanced: one lemma per instruction.                                    *)
LEMMA NextSound ==
  ASSUME TypeOK, AllSound, [Next]_vars
  PROVE  TypeOK' /\ AllSound'
<1>1. ASSUME NEW w \in Deployers, NEW t \in Treasuries, NEW params \in InitParams,
             Initialize(w, t, params)
      PROVE  TypeOK' /\ AllSound'
  BY <1>1, InitializeSound
<1>2. ASSUME NEW w \in Wallets, NEW u \in ConfigUpdates, UpdateConfig(w, u)
      PROVE  TypeOK' /\ AllSound'
  BY <1>2, UpdateConfigSound
<1>3. ASSUME NEW w \in Wallets, NEW p \in Posts, NEW st \in Statuses, SetPoolStatus(w, p, st)
      PROVE  TypeOK' /\ AllSound'
  BY <1>3, SetPoolStatusSound
<1>4. ASSUME NEW w \in Wallets, NEW p \in Posts, NEW c \in Creators, SetCreator(w, p, c)
      PROVE  TypeOK' /\ AllSound'
  BY <1>4, SetCreatorSound
<1>5. ASSUME NEW p \in Posts, NEW w \in Curators, NEW params \in PoolParams,
             CreatePool(w, p, params)
      PROVE  TypeOK' /\ AllSound'
  BY <1>5, CreatePoolSound
<1>6. ASSUME NEW p \in Posts, NEW w \in Wallets, NEW id \in ActiveBinIds,
             NEW enforce \in BOOLEAN, MigratePool(w, p, id, enforce)
      PROVE  TypeOK' /\ AllSound'
  BY <1>6, MigratePoolSound
<1>7. CASE TradeStep
  <2> SUFFICES ASSUME NEW p \in Posts, NEW minimum \in MinimumsOut,
                      \/ \E a \in BuyAmounts : SigmoidBuy(p, a, minimum)
                      \/ \E a \in SellAmounts : SigmoidSell(p, a, minimum)
                      \/ \E b \in bins, a \in BuyAmounts : DlmmBuy(p, b, a, minimum)
                      \/ \E b \in bins, a \in SellAmounts : DlmmSell(p, b, a, minimum)
               PROVE  TypeOK' /\ AllSound'
    BY <1>7 DEF TradeStep
  <2>1. BuyAmounts \subseteq U64 /\ SellAmounts \subseteq U64
    BY AmountsAssumption
  <2> QED
    BY <2>1, SigmoidBuySound, SigmoidSellSound, DlmmBuySound, DlmmSellSound
<1>8. CASE LiquidityStep
  <2> SUFFICES ASSUME NEW w \in Wallets, NEW p \in Posts,
                      \/ \E params \in BinParams : InitBin(w, p, params)
                      \/ \E b \in bins, l \in LiquidityParams :
                           \/ AddLiquidity(w, p, b, l.token_amount, l.sol_amount)
                           \/ RemoveLiquidity(w, p, b, l.token_amount, l.sol_amount)
               PROVE  TypeOK' /\ AllSound'
    BY <1>8 DEF LiquidityStep
  <2>1. \A l \in LiquidityParams : l.token_amount \in U64 /\ l.sol_amount \in U64
    BY LiquidityAssumption
  <2> QED
    BY <2>1, InitBinSound, AddLiquiditySound, RemoveLiquiditySound
<1>9. CASE ClaimStep
  BY <1>9, ClaimCreatorFeesSound, ClaimCuratorFeesSound, ClaimGrowthFeesSound
     DEF ClaimStep
<1>10. CASE WorldStep
  BY <1>10, TickSound, GiftSolSound, GiftTokensSound DEF WorldStep
<1>11. CASE UNCHANGED vars
  BY <1>11 DEF TypeOK, Typed, Unborn, AllSound, vars
<1> QED
  BY <1>1, <1>2, <1>3, <1>4, <1>5, <1>6, <1>7, <1>8, <1>9, <1>10, <1>11
     DEF Next, AdminStep, SetupStep

(* The accounts always hold what their fields can represent, and an        *)
(* account that was not created has never been written.                    *)
THEOREM TypeCorrect == Spec => []TypeOK
<1>1. Init => TypeOK /\ AllSound
  BY InitSound
<1>2. TypeOK /\ AllSound /\ [Next]_vars => (TypeOK /\ AllSound)'
  BY NextSound
<1> QED
  BY <1>1, <1>2, PTL DEF Spec

(* However trades, liquidity, claims and transfers from outside are        *)
(* interleaved, the lamports in a pool's vault are those its counters say  *)
(* it owes, and the transfers from outside.                                *)
THEOREM SolCustodyHolds == Spec => []SolCustody
<1>1. Init => TypeOK /\ AllSound
  BY InitSound
<1>2. TypeOK /\ AllSound /\ [Next]_vars => (TypeOK /\ AllSound)'
  BY NextSound
<1>3. AllSound => SolCustody
  BY AllSoundIsBooks
<1> QED
  BY <1>1, <1>2, <1>3, PTL DEF Spec

(* The same of the tokens, with no more of them outside the vault than     *)
(* were minted.                                                            *)
THEOREM TokenCustodyHolds == Spec => []TokenCustody
<1>1. Init => TypeOK /\ AllSound
  BY InitSound
<1>2. TypeOK /\ AllSound /\ [Next]_vars => (TypeOK /\ AllSound)'
  BY NextSound
<1>3. AllSound => TokenCustody
  BY AllSoundIsBooks
<1> QED
  BY <1>1, <1>2, <1>3, PTL DEF Spec

(* Every lamport of every fee is accounted for once, through any history   *)
(* of trades, claims and changes of the beneficiaries.                     *)
THEOREM FeeLedgerHolds == Spec => []FeeLedger
<1>1. Init => TypeOK /\ AllSound
  BY InitSound
<1>2. TypeOK /\ AllSound /\ [Next]_vars => (TypeOK /\ AllSound)'
  BY NextSound
<1>3. AllSound => FeeLedger
  BY AllSoundIsBooks
<1> QED
  BY <1>1, <1>2, <1>3, PTL DEF Spec
=============================================================================
