---------------------------- MODULE CurveQuotes ----------------------------
(***************************************************************************)
(* The curve's quotes on their own, swept over the supply: a sample is a   *)
(* curve, a sold supply, an amount of SOL to buy for and a number of       *)
(* tokens to sell.  The quotes are compared with definitions that do not   *)
(* walk: a sum over the bands, a budget, one sale against two.             *)
(***************************************************************************)
EXTENDS CurveWorth

CONSTANTS
  Curves,   \* sigmoid configurations
  Spends,   \* amounts of SOL
  Sales,    \* amounts of tokens
  Samples   \* sold supplies at which a curve is sampled

ASSUME SweepAssumption ==
  /\ Curves \subseteq SigmoidConfig
  /\ Spends \subseteq U64 /\ Sales \subseteq U64
  /\ Samples \in Nat \ {0}

VARIABLES curve, sold, sol_in, tokens_in

sample == <<curve, sold, sol_in, tokens_in>>

Stride == IF curve.token_supply < Samples THEN 1 ELSE curve.token_supply \div Samples

Init ==
  /\ curve \in Curves
  /\ sold = 0
  /\ sol_in \in Spends
  /\ tokens_in \in Sales

Next ==
  /\ sold + Stride <= curve.token_supply
  /\ sold' = sold + Stride
  /\ UNCHANGED <<curve, sol_in, tokens_in>>

Sweep == Init /\ [][Next]_sample
-----------------------------------------------------------------------------
Buy == quote_sigmoid_buy(curve, sold, sol_in)

(* A buy never spends more than it was given, nor buys more than the       *)
(* supply; and it spends what it can: it stops short only when the supply  *)
(* is sold out, what remains does not pay for one more base unit, or it    *)
(* crossed as many bands as a quote may.                                   *)
BuySpendsTheBudget ==
  IsQuote(Buy) =>
    LET cursor == sold + Buy.amount_out
        left == sol_in - Buy.gross_sol
    IN  /\ left >= 0
        /\ cursor <= curve.token_supply
        /\ \/ cursor = curve.token_supply
           \/ left * TOKEN_UNIT < price_at_supply(curve, cursor)
           \/ BandsBetween(curve, sold, cursor) >= MAX_SIGMOID_STEPS

(* Nothing is gained by splitting a buy in two, though each call starts    *)
(* its walk where the one before stopped, in the midst of a band, and      *)
(* rounds on its own: only a price that dips on the way lets two calls buy *)
(* more than one, or a single call that crosses too many bands.            *)
SplitBuyGetsNoMore ==
  \A first \in Spends :
    LET before == quote_sigmoid_buy(curve, sold, first).amount_out
        after == quote_sigmoid_buy(curve, sold + before, sol_in - first).amount_out
    IN  first < sol_in /\ IsQuote(Buy)
          /\ BandsBetween(curve, sold, sold + Buy.amount_out) < MAX_SIGMOID_STEPS =>
        \/ before + after <= Buy.amount_out
        \/ ~RisesOnWay(curve, sold, sold + before + after)

(* A sell is worth, band by band, what the tokens are worth at the start   *)
(* of the band they were sold in: the walk from the top skips no token     *)
(* and counts none twice; and it is quoted unless it crosses too many      *)
(* bands.                                                                  *)
SellIsSumOfBands ==
  tokens_in <= sold /\ Quotable(curve) =>
    LET q == quote_sigmoid_sell(curve, sold, tokens_in)
    IN  q.gross_sol = IF BandsBetween(curve, sold - tokens_in, sold) <= MAX_SIGMOID_STEPS
                      THEN Worth(curve, sold - tokens_in, sold) ELSE 0

(* Nothing is gained by splitting a sale in two.                           *)
SplitSalePaysNoMore ==
  \A first \in Sales :
    first < tokens_in /\ tokens_in <= sold /\ Quotable(curve)
      /\ BandsBetween(curve, sold - tokens_in, sold) <= MAX_SIGMOID_STEPS =>
      quote_sigmoid_sell(curve, sold, first).gross_sol
        + quote_sigmoid_sell(curve, sold - first, tokens_in - first).gross_sol
      <= quote_sigmoid_sell(curve, sold, tokens_in).gross_sol

(* Buying and selling straight back never pays, as long as the curve is    *)
(* below the supply at which it migrates by default.                       *)
RoundTripBacked ==
  LET top == sold + Buy.amount_out
  IN  IsQuote(Buy) /\ 4 * top <= curve.token_supply =>
        quote_sigmoid_sell(curve, top, Buy.amount_out).gross_sol <= Buy.gross_sol
-----------------------------------------------------------------------------
(* What the tests say of the curve.                                        *)

(* math/sigmoid.rs, "price_is_monotonic_across_supply": selling more       *)
(* supply never lowers the price.                                          *)
PriceMonotonic ==
  price_at_supply(curve, sold) <= price_at_supply(curve, sold + Stride)
=============================================================================
