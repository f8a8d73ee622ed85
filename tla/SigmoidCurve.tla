---------------------------- MODULE SigmoidCurve ----------------------------
(***************************************************************************)
(* The bootstrap bonding curve (math/sigmoid.rs): the price of a whole     *)
(* token at a given sold supply, and the quotes of a buy and of a sell     *)
(* that walk the supply band by band.  The arithmetic is the program's     *)
(* integer arithmetic, every rounding included; only the token unit, the   *)
(* step limit and the integer width are parameters.                        *)
(*                                                                         *)
(* A quote that fails in the code (an error, a require! that does not      *)
(* hold) is one that IsQuote rejects here.                                 *)
(***************************************************************************)
EXTENDS FeeMath

CONSTANTS
  TOKEN_UNIT,          \* base units of one whole token
  MAX_SIGMOID_STEPS,   \* bands a single quote may cross
  U64Max               \* largest value of a u64

ASSUME TokenUnitAssumption == TOKEN_UNIT \in Nat \ {0}
ASSUME StepsAssumption == MAX_SIGMOID_STEPS \in Nat
ASSUME U64Assumption == U64Max \in Nat

U64 == 0..U64Max

least(a, b) == IF a <= b THEN a ELSE b

(* floor(a * b / c) without forming a * b, which the code holds in a u128. *)
MulDiv(a, b, c) == (a \div c) * b + ((a % c) * b) \div c

ceil_div_rounded_down(n, d) == n \div d  \* mutant: rounds for the buyer
ceil_div(n, d) == (n + d - 1) \div d

SigmoidConfig ==
  [token_supply: U64, floor_price_lamports: U64, cap_price_lamports: U64,
   midpoint_supply: U64, steepness_bps: U64, band_bps: U64]

(* SigmoidConfig::validate *)
ValidSigmoid(c) ==
  /\ c.token_supply > 0
  /\ c.floor_price_lamports > 0
  /\ c.cap_price_lamports > c.floor_price_lamports
  /\ c.midpoint_supply > 0
  /\ c.midpoint_supply < c.token_supply
  /\ c.steepness_bps > 0
  /\ c.band_bps > 0

(* 3t^2 - 2t^3 in basis points, each term rounded down on its own. *)
smoothstep_bps(t_bps) ==
  LET t == least(t_bps, BPS_DENOMINATOR)
      first == (3 * t * t) \div BPS_DENOMINATOR
      second == MulDiv(2 * t * t, t, BPS_DENOMINATOR) \div BPS_DENOMINATOR
  IN  first - second

(* How far along its range, in basis points, the price is at a supply:     *)
(* half way at the midpoint, eased towards both ends.                      *)
half_eased(c, distance, side_range) ==
  LET distance_bps == (distance * BPS_DENOMINATOR) \div side_range
      adjusted == (distance_bps * c.steepness_bps) \div BPS_DENOMINATOR
  IN  (smoothstep_bps(adjusted) * 5000) \div BPS_DENOMINATOR

sigmoid_bps(c, supply) ==
  IF supply < c.midpoint_supply
  THEN 5000 - half_eased(c, c.midpoint_supply - supply, c.midpoint_supply)
  ELSE 5000 + half_eased(c, supply - c.midpoint_supply,
                         c.token_supply - c.midpoint_supply)

price_at_supply(c, sold_supply) ==
  ((c.cap_price_lamports - c.floor_price_lamports)
     * sigmoid_bps(c, least(sold_supply, c.token_supply)))
    \div BPS_DENOMINATOR + c.floor_price_lamports

band_size(c) == (c.token_supply * c.band_bps) \div BPS_DENOMINATOR

(* The end of the band that holds the cursor, before it is cut off at the  *)
(* supply; the code forms it in a u64.                                     *)
raw_band_end(supply, size) == (supply \div size + 1) * size

next_band_end_uncapped(supply, size, token_supply) ==  \* mutant: runs past the supply
  raw_band_end(supply, size)

next_band_end_at_boundary(supply, size, token_supply) ==  \* mutant: is its own end
  least(ceil_div(supply, size) * size, token_supply)

next_band_end(supply, size, token_supply) ==
  least(raw_band_end(supply, size), token_supply)

band_start(supply, size) == (supply \div size) * size  \* mutant: stuck at a boundary

previous_band_start(supply, size) ==
  ((IF supply = 0 THEN 0 ELSE supply - 1) \div size) * size

(* Bands that hold a token between the two supplies. *)
BandsBetween(c, from, to) == (to - 1) \div band_size(c) - from \div band_size(c) + 1
-----------------------------------------------------------------------------
(* A quote in progress: what is still to be traded, where the cursor is,   *)
(* what has been exchanged so far, over how many bands; ok is FALSE after  *)
(* an overflow.                                                            *)
Walk == [remaining: Nat, cursor: Nat, tokens: Nat, sol: Nat,
         steps: 0..MAX_SIGMOID_STEPS, ok: BOOLEAN]

WalkFrom(cursor, amount) ==
  [remaining |-> amount, cursor |-> cursor, tokens |-> 0, sol |-> 0,
   steps |-> 0, ok |-> TRUE]

Advance(w, paid_in, cursor, tokens, sol) ==
  [remaining |-> w.remaining - paid_in, cursor |-> cursor,
   tokens |-> w.tokens + tokens, sol |-> w.sol + sol,
   steps |-> w.steps + 1, ok |-> w.ok]

(* One pass of the buy loop: as much of the band as the budget affords, at *)
(* the price where the cursor is.                                          *)
Affordable(w, price, band_remaining) ==
  least((w.remaining * TOKEN_UNIT) \div price, band_remaining)

PayFor(w, price, tokens) ==
  LET cost == ceil_div(tokens * price, TOKEN_UNIT)
  IN  Advance(w, cost, w.cursor + tokens, tokens, cost)

BuyAtPrice(c, w, price) ==
  LET band_end == next_band_end(w.cursor, band_size(c), c.token_supply)
  IN  PayFor(w, price, Affordable(w, price, band_end - w.cursor))

BuyBand(c, w) ==
  IF raw_band_end(w.cursor, band_size(c)) \notin U64
  THEN [w EXCEPT !.ok = FALSE]
  ELSE BuyAtPrice(c, w, price_at_supply(c, w.cursor))

BuyOverUnlimited(c, w) ==  \* mutant: no limit on the bands
  \/ w.remaining = 0
  \/ w.cursor >= c.token_supply
  \/ ~w.ok

(* The loop makes no further pass. *)
BuyOver(c, w) ==
  \/ w.remaining = 0
  \/ w.cursor >= c.token_supply
  \/ w.steps = MAX_SIGMOID_STEPS
  \/ ~w.ok

(* What remains does not pay for one base unit. *)
NothingAffordable(w, next) == next.ok /\ next.cursor = w.cursor

BuyWalk(c, sold_supply, sol_in) ==
  LET walk[w \in Walk] ==
        IF BuyOver(c, w) THEN w
        ELSE LET next == BuyBand(c, w)
             IN  IF NothingAffordable(w, next) THEN w ELSE walk[next]
  IN  walk[WalkFrom(sold_supply, sol_in)]

SellBandRoundedUp(c, w) ==  \* mutant: every band pays a fraction too much
  LET start == previous_band_start(w.cursor, band_size(c))
      band_tokens == least(w.remaining, w.cursor - start)
      band_sol == ceil_div(band_tokens * price_at_supply(c, start), TOKEN_UNIT)
  IN  Advance(w, band_tokens, w.cursor - band_tokens, band_tokens, band_sol)

SellBandAtItsTop(c, w) ==  \* mutant: priced where the walk is, not at the start
  LET start == previous_band_start(w.cursor, band_size(c))
      band_tokens == least(w.remaining, w.cursor - start)
      band_sol == (band_tokens * price_at_supply(c, w.cursor)) \div TOKEN_UNIT
  IN  Advance(w, band_tokens, w.cursor - band_tokens, band_tokens, band_sol)

SellWholeBand(c, w) ==  \* mutant: takes the band, not what is left to sell
  LET start == previous_band_start(w.cursor, band_size(c))
      band_tokens == w.cursor - start
      band_sol == (band_tokens * price_at_supply(c, start)) \div TOKEN_UNIT
  IN  Advance(w, band_tokens, w.cursor - band_tokens, band_tokens, band_sol)

SellBand(c, w) ==
  LET start == previous_band_start(w.cursor, band_size(c))
      band_tokens == least(w.remaining, w.cursor - start)
      band_sol == (band_tokens * price_at_supply(c, start)) \div TOKEN_UNIT
  IN  Advance(w, band_tokens, w.cursor - band_tokens, band_tokens, band_sol)

SellOver(w) == w.remaining = 0 \/ w.cursor = 0 \/ w.steps = MAX_SIGMOID_STEPS

SellWalk(c, sold_supply, tokens_in) ==
  LET walk[w \in Walk] == IF SellOver(w) THEN w ELSE walk[SellBand(c, w)]
  IN  walk[WalkFrom(sold_supply, tokens_in)]

NoQuote == [amount_out |-> 0, gross_sol |-> 0]

(* A partial fill is a quote: what the walk could not spend stays with the *)
(* buyer.                                                                  *)
BuyQuote(w) ==
  IF w.ok THEN [amount_out |-> w.tokens, gross_sol |-> w.sol] ELSE NoQuote

(* A sell is quoted in full or not at all. *)
SellQuote(w) ==
  IF w.remaining = 0 THEN [amount_out |-> w.sol, gross_sol |-> w.sol] ELSE NoQuote

quote_sigmoid_buy(c, sold_supply, sol_in) ==
  IF sol_in = 0 \/ ~ValidSigmoid(c) \/ band_size(c) = 0
  THEN NoQuote
  ELSE BuyQuote(BuyWalk(c, sold_supply, sol_in))

quote_sigmoid_sell(c, sold_supply, tokens_in) ==
  IF \/ tokens_in = 0 \/ tokens_in > sold_supply
     \/ ~ValidSigmoid(c) \/ band_size(c) = 0
  THEN NoQuote
  ELSE SellQuote(SellWalk(c, sold_supply, tokens_in))

(* The quote the code returns: both amounts fit a u64, something comes out. *)
IsQuote(q) == /\ q.amount_out \in 1..U64Max
              /\ q.gross_sol \in U64
=============================================================================
