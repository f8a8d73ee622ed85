------------------------ MODULE RedCircleProperties ------------------------
(***************************************************************************)
(* What the program owes its users, as invariants and as properties of     *)
(* steps.                                                                  *)
(***************************************************************************)
EXTENDS RedCircle

Typed ==
  /\ initialized \in BOOLEAN
  /\ config \in Config
  /\ pools \in SUBSET Posts
  /\ pool \in [Posts -> Pool]
  /\ market \in [Posts -> MarketState]
  /\ bins \in SUBSET BinKeys
  /\ bin \in [BinKeys -> Bin]
  /\ solVault \in [Posts -> Nat]
  /\ tokenVault \in [Posts -> Nat]
  /\ payouts \in [Posts -> Payouts]
  /\ gifts \in [Posts -> Gifts]
  /\ now \in Nat

Unborn ==
  /\ \A p \in Posts \ pools : /\ pool[p] = BlankPool
                              /\ market[p] = BlankMarket
                              /\ payouts[p] = NoPayouts
  /\ \A b \in BinKeys \ bins : bin[b] = BlankBin
  /\ \A b \in bins : b[1] \in pools

(* Every account holds what its fields can represent, no handler writes an *)
(* account that was not created, and a bin belongs to an existing pool.    *)
TypeOK == Typed /\ Unborn
-----------------------------------------------------------------------------
(* Custody and the books. *)

(* What a pool's SOL vault must be able to pay: the reserve behind the     *)
(* tokens and the three fees not yet claimed.                              *)
SolOwed(p) ==
  pool[p].liquidity_sol_reserve + pool[p].unclaimed_creator_fees
    + pool[p].unclaimed_curator_fees + pool[p].unclaimed_growth_fees

(* A pool's SOL vault holds to the lamport what the pool's counters say it *)
(* owes, and what was sent to it from outside: eight handlers move the     *)
(* counters and the lamports in separate statements.                       *)
SolCustody == \A p \in Posts : solVault[p] = SolOwed(p) + gifts[p].sol

(* A pool's token vault holds to the token the pool's token reserve and    *)
(* what was sent to it from outside; no more tokens are outside the vault  *)
(* than were minted.                                                       *)
TokenCustody ==
  \A p \in Posts :
    /\ tokenVault[p] = pool[p].liquidity_token_reserve + gifts[p].token
    /\ tokenVault[p] <= pool[p].token_supply

(* Every lamport of fee is accounted for once: what each beneficiary has   *)
(* earned since launch is what he was paid plus what he can still claim,   *)
(* the platform is paid at once, the four shares add up to the fees        *)
(* charged, and the pool and the market agree on fees, volume and trades.  *)
FeeLedger ==
  \A p \in Posts :
    LET r == pool[p]
        m == market[p]
    IN  /\ m.creator_fees_earned = r.unclaimed_creator_fees + payouts[p].creator
        /\ m.curator_fees_earned = r.unclaimed_curator_fees + payouts[p].curator
        /\ m.growth_fees_earned = r.unclaimed_growth_fees + payouts[p].growth
        /\ m.platform_fees_earned = payouts[p].platform
        /\ m.total_fees_earned = m.creator_fees_earned + m.curator_fees_earned
                                   + m.growth_fees_earned + m.platform_fees_earned
        /\ r.total_fees = m.total_fees_earned
        /\ r.total_volume = m.total_trade_volume
        /\ m.total_trades = m.buy_trades + m.sell_trades

(* The protocol's totals are the sums over the pools (apply_config_fee_    *)
(* stats and create_pool update them from inside other accounts' calls).   *)
TotalsAddUp ==
  /\ config.total_pools = Cardinality(pools)
  /\ config.total_volume = SumFunction([p \in pools |-> pool[p].total_volume])
  /\ config.total_fees_collected = SumFunction([p \in pools |-> pool[p].total_fees])

(* The liquidity of a pool's bins is what its market has allocated, and    *)
(* the allocation is backed by the pool's reserves, in tokens and in SOL.  *)
BinsBacked ==
  \A p \in Posts :
    LET own == {b \in bins : b[1] = p}
    IN  /\ SumFunction([b \in own |-> bin[b].token_liquidity])
             = market[p].allocated_token_liquidity
        /\ SumFunction([b \in own |-> bin[b].sol_liquidity])
             = market[p].allocated_sol_liquidity
        /\ market[p].allocated_token_liquidity <= pool[p].liquidity_token_reserve
        /\ market[p].allocated_sol_liquidity <= pool[p].liquidity_sol_reserve
-----------------------------------------------------------------------------
(* The life of a pool. *)

OnCurve(p) == p \in pools /\ market[p].model # "DLMM"

(* The pool and the market, which each record the phase, agree on it; on   *)
(* the curve every token is either sold or in the reserve and nothing is   *)
(* allocated to bins; a pool awaits migration only while the migration     *)
(* conditions hold, so its curator can always carry it out; and the curve  *)
(* never stays open after a buy that met them.                             *)
Lifecycle ==
  \A p \in Posts :
    /\ pool[p].model = market[p].model
    /\ OnCurve(p) =>
         /\ pool[p].tokens_sold + pool[p].liquidity_token_reserve = pool[p].token_supply
         /\ \A b \in bins : b[1] # p
    /\ OnCurve(p) /\ market[p].buy_trades > 0 =>
         (MigrationConditionsMet(pool[p], market[p])
            <=> market[p].model = "MigrationPending")

(* While the curve is open every holder together can be bought out: the    *)
(* quote for selling all that was ever sold does not exceed the reserve,   *)
(* however buys and sells of every size were interleaved and rounded.      *)
FullExitBacked ==
  \A p \in Posts : OnCurve(p) =>
    quote_sigmoid_sell(market[p].sigmoid, pool[p].tokens_sold,
                       pool[p].tokens_sold).gross_sol
      <= pool[p].liquidity_sol_reserve

(* What a seller of all tokens ever sold, and the platform, would be paid. *)
ExitPayment(p) ==
  LET gross == quote_sigmoid_sell(market[p].sigmoid, pool[p].tokens_sold,
                                  pool[p].tokens_sold).gross_sol
      fees == FeeBreakdown(gross)
  IN  gross - fees.total + fees.platform

(* A vault that was once topped up by the rent minimum can pay every debt  *)
(* of an open curve, down to the last lamport and in any order: whichever  *)
(* claims and whether or not a sale of all tokens come first, none of them *)
(* is refused for lack of lamports or for what it would leave behind.      *)
PaymentsClear ==
  \A p \in Posts :
    OnCurve(p) /\ gifts[p].sol >= RENT_EXEMPT_MINIMUM =>
      LET r == pool[p]
      IN  \A creator \in {0, r.unclaimed_creator_fees},
             curator \in {0, r.unclaimed_curator_fees},
             growth \in {0, r.unclaimed_growth_fees},
             exit \in {0, ExitPayment(p)} :
            RentExempt(solVault[p] - (creator + curator + growth + exit))

(* The default price band of new pools is never empty or inverted, however *)
(* its two ends were updated, together or one at a time.                   *)
PriceBandSane ==
  initialized => /\ 0 < config.default_sigmoid_floor_price
                 /\ config.default_sigmoid_floor_price < config.default_sigmoid_cap_price

Phase(p) ==
  IF p \notin pools THEN 0
  ELSE CASE market[p].model = "SigmoidBootstrap" -> 1
         [] market[p].model = "MigrationPending" -> 2
         [] market[p].model = "DLMM" -> 3

(* A pool only moves forward: unborn, curve, awaiting migration, bins.     *)
(* Its curve is fixed at birth, the count of tokens sold on the curve and  *)
(* the time of migration do not change once the curve is left.             *)
PhasesMoveForward ==
  [][\A p \in Posts :
       /\ Phase(p) <= Phase(p)'
       /\ Phase(p) > 0 => market'[p].sigmoid = market[p].sigmoid
       /\ Phase(p) > 1 => pool'[p].tokens_sold = pool[p].tokens_sold
       /\ Phase(p) > 2 => market'[p].migrated_at = market[p].migrated_at]_vars
-----------------------------------------------------------------------------
(* Steps. *)

BuyOf(p) == market'[p].buy_trades > market[p].buy_trades
TradeOf(p) == market'[p].total_trades > market[p].total_trades
VolumeOf(p) == pool'[p].total_volume - pool[p].total_volume

(* During launch protection no single buy exceeds the limit in force, and  *)
(* a trade ends the protection only when the window has passed.            *)
LaunchGuard ==
  [][\A p \in pools :
       pool[p].status = "LaunchProtection" /\ TradeOf(p) =>
         IF now < pool[p].launch_protection_ends_at
         THEN /\ pool'[p].status = "LaunchProtection"
              /\ BuyOf(p) => VolumeOf(p) <= config.max_buy_during_protection
         ELSE pool'[p].status = "Active"]_vars

(* A buyer never pays more than the amount offered, pool, fees and         *)
(* platform together, whatever part of it the curve could fill.            *)
BuyerNeverOvercharged ==
  [][\A p \in Posts :
       BuyOf(p) => (solVault'[p] - solVault[p])
                     + (payouts'[p].platform - payouts[p].platform) <= VolumeOf(p)]_vars

(* No trade takes value out of a bin: tokens at the bin's price plus SOL   *)
(* never drop in a swap, so traders cannot gain on rounding by trading     *)
(* back and forth.                                                         *)
BinValue(b) == bin[b].token_liquidity * bin[b].price_lamports_per_token
                 + bin[b].sol_liquidity * TOKEN_UNIT

BinValueKept ==
  [][(\E p \in Posts : TradeOf(p)) =>
       \A b \in bins : BinValue(b)' >= BinValue(b)]_vars

(* After migration the active bin moves by one, upwards exactly when a buy *)
(* drains the bin's tokens and downwards exactly when a sell drains its    *)
(* SOL; no other call moves it.                                            *)
ActiveBinFollows ==
  [][\A p \in pools :
       LET id == market[p].active_bin_id
           b == <<p, id>>
           drained == \/ BuyOf(p) /\ bin'[b].token_liquidity = 0
                      \/ ~BuyOf(p) /\ bin'[b].sol_liquidity = 0
       IN  market[p].model = "DLMM" =>
             market'[p].active_bin_id =
               (IF TradeOf(p) /\ drained
                THEN IF BuyOf(p) THEN id + 1 ELSE id - 1
                ELSE id)]_vars

(* Reserves that no bin holds are out of reach of every trade, addition    *)
(* and removal: only the opening of a bin draws on them.                   *)
UnallocatedTokens(p) ==
  pool[p].liquidity_token_reserve - market[p].allocated_token_liquidity
UnallocatedSol(p) ==
  pool[p].liquidity_sol_reserve - market[p].allocated_sol_liquidity

OnlyOpeningDrawsReserves ==
  [][\A p \in Posts :
       market[p].model = "DLMM" =>
         IF \E b \in bins' \ bins : b[1] = p
         THEN /\ UnallocatedTokens(p)' <= UnallocatedTokens(p)
              /\ UnallocatedSol(p)' <= UnallocatedSol(p)
         ELSE /\ UnallocatedTokens(p)' = UnallocatedTokens(p)
              /\ UnallocatedSol(p)' = UnallocatedSol(p)]_vars

(* A market whose active bin was never opened, with every token and every  *)
(* lamport of its reserves in other bins, is out of everybody's reach for  *)
(* good: no bin can be opened without free reserves, removals and additions *)
(* free none, and no trade can move the active bin.                        *)
Stranded(p) ==
  /\ p \in pools
  /\ market[p].model = "DLMM"
  /\ <<p, market[p].active_bin_id>> \notin bins
  /\ UnallocatedTokens(p) = 0
  /\ UnallocatedSol(p) = 0

StrandedForGood == [][\A p \in Posts : Stranded(p) => Stranded(p)' /\ ~TradeOf(p)]_vars

(* What the least buy takes out of the active bin.                         *)
LeastBuy(p) ==
  quote_dlmm_buy(MIN_TRADE_AMOUNT - FeeBreakdown(MIN_TRADE_AMOUNT).total,
                 bin[<<p, market[p].active_bin_id>>].price_lamports_per_token)

(* The active bin is open and holds tokens, but fewer than that. *)
Residue(p) ==
  LET b == <<p, market[p].active_bin_id>>
  IN  /\ p \in pools /\ market[p].model = "DLMM"
      /\ b \in bins
      /\ bin[b].token_liquidity \in 1..LeastBuy(p) - 1

(* Nobody can buy out the last few tokens of a bin: a buy takes more or    *)
(* fails, so they hold up every buy of the market, whatever the bins above *)
(* hold, and the active bin moves only if a sell empties it of SOL.        *)
ResidueBlocksBuys ==
  [][\A p \in Posts : Residue(p) =>
       LET b == <<p, market[p].active_bin_id>>
       IN  /\ ~BuyOf(p)
           /\ market'[p].active_bin_id # b[2] => TradeOf(p) /\ bin'[b].sol_liquidity = 0]_vars

PoolView(p) == <<pool[p], market[p], solVault[p], tokenVault[p], payouts[p],
                 [id \in BinIds |-> bin[<<p, id>>]]>>

(* One call touches one pool: its records, its vaults and its bins, and    *)
(* never those of another pool.                                            *)
PoolsIsolated ==
  [][\A p, q \in Posts :
       p # q => UNCHANGED PoolView(p) \/ UNCHANGED PoolView(q)]_vars

(* While the protocol is paused no pool is created, migrated or traded and *)
(* no liquidity moves: SOL leaves a vault only as fees being claimed.  A   *)
(* pool that is paused on its own is not traded.                           *)
PauseHolds ==
  [][/\ config.is_paused =>
          /\ pools' = pools
          /\ UNCHANGED <<market, bin>>
          /\ \A p \in Posts :
               /\ pool'[p].liquidity_sol_reserve = pool[p].liquidity_sol_reserve
               /\ tokenVault'[p] - tokenVault[p] = gifts'[p].token - gifts[p].token
               /\ solVault'[p] - solVault[p] = SolOwed(p)' - SolOwed(p)
                                                + (gifts'[p].sol - gifts[p].sol)
     /\ \A p \in Posts : pool[p].status = "Paused" => ~TradeOf(p)]_vars
-----------------------------------------------------------------------------
(* The abstract specification, and the amounts it speaks of as the vaults  *)
(* hold them.                                                              *)

PhaseName(p) == CASE Phase(p) = 0 -> "unborn"
                  [] Phase(p) = 1 -> "curve"
                  [] Phase(p) = 2 -> "pending"
                  [] Phase(p) = 3 -> "bins"

(* What the vault holds beyond the reserve and gifts. *)
FeesHeld(p) == solVault[p] - gifts[p].sol - pool[p].liquidity_sol_reserve

(* Tokens sent to the vault by outsiders are lost, but not the pool's. *)
TokensOutside(p) == pool[p].token_supply - (tokenVault[p] - gifts[p].token)

Ideal == INSTANCE IdealPools WITH
           phase <- [p \in Posts |-> PhaseName(p)],
           supply <- [p \in Posts |-> pool[p].token_supply],
           backing <- [p \in Posts |-> pool[p].liquidity_sol_reserve],
           fees <- [p \in Posts |-> FeesHeld(p)],
           outside <- [p \in Posts |-> TokensOutside(p)]

(* The program implements the abstract pools: every instruction is, as far *)
(* as a pool's money goes, one of their steps or none.                     *)
ImplementsIdeal == Ideal!Spec
-----------------------------------------------------------------------------
(* What the source's comments say of a trade, and the code does not do. *)

(* constants.rs: "Total trading fee: 3% (300 basis points)".  No trade     *)
(* costs a buyer more than 3% of what the buyer pays, give or take the     *)
(* price of one base unit, the least that a quote can leave unspent.       *)
FeeIsThreePercent ==
  [][\A p \in Posts :
       BuyOf(p) =>
         LET paid == (solVault'[p] - solVault[p])
                       + (payouts'[p].platform - payouts[p].platform)
             fee == pool'[p].total_fees - pool[p].total_fees
             unit == ceil_div(market[p].sigmoid.cap_price_lamports, TOKEN_UNIT)
         IN  fee * BPS_DENOMINATOR <= (paid + unit) * TOTAL_FEE_BPS]_vars

(* constants.rs: "Minimum trade amount (in lamports)".  No trade moves     *)
(* fewer lamports than the minimum.                                        *)
MinTradeInLamports ==
  [][\A p \in Posts : TradeOf(p) => VolumeOf(p) >= MIN_TRADE_AMOUNT]_vars
=============================================================================
