------------------------------ MODULE SdkClient ------------------------------
(***************************************************************************)
(* A client that trades through the SDK (sdk/src/client.ts) while          *)
(* everybody else uses the program.  It reads the accounts one by one,     *)
(* each with a call of its own, estimates what a swap will deliver, signs  *)
(* the swap with a minimum derived from the estimate and sends it.  From   *)
(* then on the swap is out of its hands: it may land at any later time, at *)
(* most once, or never.                                                    *)
(*                                                                         *)
(* The SDK keeps no state and sends nothing itself.  What an application   *)
(* does with it, here, is what the integration tests do: fetch, estimate,  *)
(* build, send.                                                            *)
(***************************************************************************)
EXTENDS RedCircleProperties, SdkQuotes

CONSTANTS
  ClientBuys,   \* lamports the client offers
  ClientSells,  \* tokens it sells
  Tolerances,   \* shares of an estimate, in basis points, it can do without
  MaxOrders     \* bound: swaps the client signs

ASSUME ClientAssumption ==
  /\ ClientBuys \subseteq U64
  /\ ClientSells \subseteq U64
  /\ Tolerances \subseteq 0..BPS_DENOMINATOR
  /\ MaxOrders \in Nat

VARIABLES
  view,   \* what the client last read of each post's accounts
  order,  \* the swap it has signed and not yet heard of, or None
  signed  \* swaps signed so far

client == <<view, order, signed>>
clientVars == <<vars, view, order, signed>>

NothingSeen == [sold |-> None, market |-> None, bin |-> None, treasury |-> None]

ClientInit ==
  /\ Init
  /\ view = [p \in Posts |-> NothingSeen]
  /\ order = None
  /\ signed = 0

(* The four accounts a swap needs are read by four calls: nothing makes    *)
(* what they return belong to one moment.                                  *)
fetchPool(p) ==
  /\ p \in pools
  /\ view' = [view EXCEPT ![p].sold = pool[p].tokens_sold]
  /\ UNCHANGED <<vars, order, signed>>

fetchMarketState(p) ==
  /\ p \in pools
  /\ view' = [view EXCEPT ![p].market =
                [model |-> market[p].model, sigmoid |-> market[p].sigmoid,
                 active_bin_id |-> market[p].active_bin_id]]
  /\ UNCHANGED <<vars, order, signed>>

(* By its id, which the client knows from the market it read before. *)
fetchBin(p) ==
  /\ view[p].market # None
  /\ LET id == view[p].market.active_bin_id
     IN  /\ <<p, id>> \in bins
         /\ view' = [view EXCEPT ![p].bin =
                       [id |-> id,
                        price |-> bin[<<p, id>>].price_lamports_per_token]]
  /\ UNCHANGED <<vars, order, signed>>

fetchConfig(p) ==
  /\ initialized
  /\ view' = [view EXCEPT ![p].treasury = config.treasury]
  /\ UNCHANGED <<vars, order, signed>>
-----------------------------------------------------------------------------
SawBin(p) ==
  /\ view[p].bin # None
  /\ view[p].bin.id = view[p].market.active_bin_id

SawEnough(p) ==
  /\ view[p].treasury # None
  /\ view[p].market # None
  /\ IF view[p].market.model = "DLMM" THEN SawBin(p) ELSE view[p].sold # None

EstimateBeforeFees(p, is_buy, amount) ==  \* mutant: the fee is forgotten
  IF is_buy THEN quoteSigmoidBuy(view[p].market.sigmoid, view[p].sold, amount)
            ELSE quoteSigmoidSell(view[p].market.sigmoid, view[p].sold, amount)

(* The estimate of the market the client believes in. *)
Estimate(p, is_buy, amount) ==
  LET m == view[p].market
  IN  IF m.model = "DLMM"
      THEN IF is_buy THEN estimateDlmmBuyTokensOut(amount, view[p].bin.price)
                     ELSE estimateDlmmSellSolOut(amount, view[p].bin.price)
      ELSE IF is_buy THEN estimateSigmoidBuyTokensOut(m.sigmoid, view[p].sold, amount)
                     ELSE estimateSigmoidSellSolOut(m.sigmoid, view[p].sold, amount)

MinimumFor(estimate, tolerance) == estimate - (estimate * tolerance) \div BPS_DENOMINATOR

(* buy and sell of the client: the swap with the accounts it knows.  An    *)
(* estimate that throws signs nothing.  The active bin is left out before  *)
(* migration.                                                              *)
Sign(p, is_buy, amount, tolerance) ==
  /\ order = None
  /\ signed < MaxOrders
  /\ SawEnough(p)
  /\ LET estimate == Estimate(p, is_buy, amount)
         m == view[p].market
     IN  /\ estimate > 0
         /\ order' = [post |-> p, is_buy |-> is_buy, amount_in |-> amount,
                      estimate |-> estimate,
                      minimum |-> MinimumFor(estimate, tolerance),
                      model |-> m.model, sold |-> view[p].sold,
                      active_bin |-> IF m.model = "DLMM" THEN m.active_bin_id ELSE None,
                      treasury |-> view[p].treasury]
  /\ signed' = signed + 1
  /\ UNCHANGED <<vars, view>>

(* swap_handler called with the accounts and amounts of a signed swap: the *)
(* program compares the treasury, and takes the market it finds the pool   *)
(* in.                                                                     *)
Swap(o) ==
  /\ o.treasury = config.treasury
  /\ IF o.is_buy
     THEN \/ SigmoidBuy(o.post, o.amount_in, o.minimum)
          \/ /\ o.active_bin # None
             /\ DlmmBuy(o.post, <<o.post, o.active_bin>>, o.amount_in, o.minimum)
     ELSE \/ SigmoidSell(o.post, o.amount_in, o.minimum)
          \/ /\ o.active_bin # None
             /\ DlmmSell(o.post, <<o.post, o.active_bin>>, o.amount_in, o.minimum)

Land ==
  /\ order # None
  /\ Swap(order)
  /\ order' = None
  /\ UNCHANGED <<view, signed>>

(* Refused by the program, dropped on the way, or older than its blockhash *)
(* may be: the client sees no difference in the accounts.                  *)
Fail ==
  /\ order # None
  /\ order' = None
  /\ UNCHANGED <<vars, view, signed>>

Others == Next /\ UNCHANGED client

ClientNext ==
  \/ \E p \in Posts :
       \/ fetchPool(p)
       \/ fetchMarketState(p)
       \/ fetchBin(p)
       \/ fetchConfig(p)
       \/ \E tolerance \in Tolerances :
            \/ \E amount \in ClientBuys : Sign(p, TRUE, amount, tolerance)
            \/ \E amount \in ClientSells : Sign(p, FALSE, amount, tolerance)
  \/ Land
  \/ Fail
  \/ Others

ClientSpec == ClientInit /\ [][ClientNext]_clientVars
-----------------------------------------------------------------------------
(* The client's swap lands in this step, in post p's market. *)
Landing(p) ==
  /\ order # None
  /\ order' = None
  /\ order.post = p
  /\ TradeOf(p)

(* What it delivers: tokens that leave the vault, or lamports that leave   *)
(* it and do not go to the treasury.                                       *)
Delivered(p) ==
  IF order.is_buy
  THEN tokenVault[p] - tokenVault'[p]
  ELSE (solVault[p] - solVault'[p]) - (payouts'[p].platform - payouts[p].platform)

(* A swap on the curve delivers to the unit what was estimated as long as  *)
(* the tokens sold are again, or still, what the client read: whatever     *)
(* else has happened, and whichever moments the four reads came from.      *)
CurveQuoteKept ==
  [][\A p \in Posts :
       Landing(p) /\ order.model # "DLMM" /\ pool[p].tokens_sold = order.sold
         => Delivered(p) = order.estimate]_clientVars

(* A swap in a bin delivers what was estimated however old the estimate:   *)
(* it fills in the bin it was made for or not at all.                      *)
BinQuoteKept ==
  [][\A p \in Posts :
       Landing(p) /\ order.model = "DLMM" => Delivered(p) = order.estimate]_clientVars

(* An estimate made on the curve is never filled in a bin, one made in a   *)
(* bin never on the curve, though the two fields of the pool and of the    *)
(* market that decide it may change while the swap is on its way.          *)
QuotedPhaseKept ==
  [][\A p \in Posts :
       Landing(p) => (market[p].model = "DLMM" <=> order.model = "DLMM")]_clientVars

(* What a swap on the curve has to meet: the program's own conditions, and *)
(* those of its transfers.                                                 *)
SwapAccepted(o) ==
  LET p == o.post
      quote == BuyFill(p, o.amount_in)
      gross_sol == SalePays(p, o.amount_in)
      fees == FeeBreakdown(IF o.is_buy THEN o.amount_in ELSE gross_sol)
  IN  /\ o.treasury = config.treasury
      /\ IF o.is_buy
         THEN /\ SigmoidBuyAllowed(p, o.amount_in, o.minimum)
              /\ CanTake(p, BuyDeposit(quote.gross_sol, fees))
              /\ quote.amount_out <= tokenVault[p]
         ELSE /\ SigmoidSellAllowed(p, o.amount_in, o.minimum)
              /\ o.amount_in <= Circulating(p)
              /\ CanPay(p, SalePayment(gross_sol - fees.total, fees))

(* Trading is open to an amount of that size.                              *)
OpenTo(o) ==
  /\ NotPaused
  /\ o.treasury = config.treasury
  /\ IsTradeable(pool[o.post])
  /\ MarketIs(o.post, "SigmoidBootstrap")
  /\ o.amount_in >= MIN_TRADE_AMOUNT
  /\ IF o.is_buy THEN Protected(o.post) => o.amount_in <= config.max_buy_during_protection
                 ELSE o.amount_in <= Circulating(o.post)

(* No number of the pool is near the end of its width, and the vault was   *)
(* topped up by the rent minimum.                                          *)
HasRoom(o) ==
  LET p == o.post
      c == market[p].sigmoid
      most == IF o.is_buy THEN o.amount_in ELSE pool[p].liquidity_sol_reserve
  IN  /\ FeesFit(most)
      /\ pool[p].total_fees + most \in U64
      /\ market[p].total_trades + 1 \in U64
      /\ o.is_buy => /\ solVault[p] + o.amount_in \in U64
                     /\ c.token_supply + band_size(c) \in U64
      /\ gifts[p].sol >= RENT_EXEMPT_MINIMUM

(* A swap on the curve whose estimate is still fresh is not refused for    *)
(* what it asks: if trading is open to an amount of that size and the      *)
(* numbers have room for it, no reserve, minimum, transfer or rounding     *)
(* stands in its way.                                                      *)
FreshSwapAccepted ==
  order # None =>
    (OpenTo(order) /\ HasRoom(order) /\ order.sold = pool[order.post].tokens_sold
       => SwapAccepted(order))
=============================================================================
