------------------------------ MODULE SdkQuotes ------------------------------
(***************************************************************************)
(* The client's copy of the quotes (sdk/src/curve.ts), translated from the *)
(* TypeScript and not from the program.  Its numbers have no width.  A     *)
(* loop that breaks is written as a pass that changes nothing any more:    *)
(* whether it breaks depends on what the pass before left.  What throws    *)
(* is an estimate of zero, which is never returned otherwise.              *)
(***************************************************************************)
EXTENDS SigmoidCurve

calculateFee(amount) == (amount * TOTAL_FEE_BPS) \div BPS_DENOMINATOR

configAccepted(c) ==
  /\ c.token_supply > 0 /\ c.floor_price_lamports > 0 /\ c.cap_price_lamports > 0
  /\ c.midpoint_supply > 0 /\ c.steepness_bps > 0 /\ c.band_bps > 0
  /\ c.cap_price_lamports > c.floor_price_lamports
  /\ c.midpoint_supply < c.token_supply

(* 2t^3 over the square of the denominator, in one division: dividing by   *)
(* one factor after the other gives the same.                              *)
smoothstepBps(tBps) ==
  LET t == least(tBps, BPS_DENOMINATOR)
      t2 == t * t
  IN  (3 * t2) \div BPS_DENOMINATOR
        - MulDiv(2 * t2, t, BPS_DENOMINATOR) \div BPS_DENOMINATOR

priceAtSupply(c, soldSupply) ==
  LET supply == least(soldSupply, c.token_supply)
      below == supply < c.midpoint_supply
      distance == IF below THEN c.midpoint_supply - supply
                           ELSE supply - c.midpoint_supply
      sideRange == IF below THEN c.midpoint_supply
                            ELSE c.token_supply - c.midpoint_supply
      distanceBps == (distance * BPS_DENOMINATOR) \div sideRange
      adjusted == least((distanceBps * c.steepness_bps) \div BPS_DENOMINATOR,
                        BPS_DENOMINATOR)
      halfEased == (smoothstepBps(adjusted) * 5000) \div BPS_DENOMINATOR
      sigmoidBps == IF below THEN 5000 - halfEased ELSE 5000 + halfEased
  IN  ((c.cap_price_lamports - c.floor_price_lamports) * sigmoidBps)
        \div BPS_DENOMINATOR + c.floor_price_lamports

ceilDiv(numerator, denominator) == (numerator + (denominator - 1)) \div denominator

bandSize(c) == (c.token_supply * c.band_bps) \div BPS_DENOMINATOR

nextBandEnd(supply, band, tokenSupply) ==
  least((supply \div band + 1) * band, tokenSupply)

previousBandStart(supply, band) == ((supply - 1) \div band) * band
-----------------------------------------------------------------------------
(* The state of a loop: passes made, what remains to be traded, the        *)
(* cursor, and what has come out.                                          *)
Loops == [i: 0..MAX_SIGMOID_STEPS, remaining: Nat, cursor: Nat, out: Nat]

Start(amount, supply) ==
  [i |-> 0, remaining |-> amount, cursor |-> supply, out |-> 0]

Pass(s, paid, cursor, out) ==
  [i |-> s.i + 1, remaining |-> s.remaining - paid, cursor |-> cursor,
   out |-> s.out + out]

Purchase(s, price, tokens) ==
  Pass(s, ceilDiv(tokens * price, TOKEN_UNIT), s.cursor + tokens, tokens)

buyPass(c, s) ==
  IF s.remaining = 0 \/ s.cursor >= c.token_supply
  THEN Pass(s, 0, s.cursor, 0)
  ELSE LET price == priceAtSupply(c, s.cursor)
           left == nextBandEnd(s.cursor, bandSize(c), c.token_supply) - s.cursor
       IN  Purchase(s, price, least((s.remaining * TOKEN_UNIT) \div price, left))

sellPass(c, s) ==
  IF s.remaining = 0 \/ s.cursor = 0
  THEN Pass(s, 0, s.cursor, 0)
  ELSE LET start == previousBandStart(s.cursor, bandSize(c))
           tokens == least(s.remaining, s.cursor - start)
       IN  Pass(s, tokens, s.cursor - tokens,
                (tokens * priceAtSupply(c, start)) \div TOKEN_UNIT)

quoteSigmoidBuy(c, soldSupply, solIn) ==
  LET loop[s \in Loops] == IF s.i = MAX_SIGMOID_STEPS THEN s ELSE loop[buyPass(c, s)]
  IN  IF solIn > 0 /\ configAccepted(c) /\ bandSize(c) > 0
      THEN loop[Start(solIn, soldSupply)].out ELSE 0

quoteSigmoidSell(c, soldSupply, tokensIn) ==
  LET loop[s \in Loops] == IF s.i = MAX_SIGMOID_STEPS THEN s ELSE loop[sellPass(c, s)]
      end == loop[Start(tokensIn, soldSupply)]
  IN  IF /\ tokensIn > 0 /\ tokensIn <= soldSupply
         /\ configAccepted(c) /\ bandSize(c) > 0
         /\ end.remaining = 0
      THEN end.out ELSE 0

quoteDlmmBuy(solIn, price) ==
  IF solIn > 0 /\ price > 0 THEN (solIn * TOKEN_UNIT) \div price ELSE 0

quoteDlmmSell(tokensIn, price) ==
  IF tokensIn > 0 /\ price > 0 THEN (tokensIn * price) \div TOKEN_UNIT ELSE 0
-----------------------------------------------------------------------------
(* What a trader is told to expect, fees included. *)

NetOf(gross) == gross - calculateFee(gross)

estimateSigmoidBuyTokensOut(c, soldSupply, solAmount) ==
  quoteSigmoidBuy(c, soldSupply, NetOf(solAmount))

estimateSigmoidSellSolOut(c, soldSupply, tokenAmount) ==
  NetOf(quoteSigmoidSell(c, soldSupply, tokenAmount))

estimateDlmmBuyTokensOut(solAmount, price) == quoteDlmmBuy(NetOf(solAmount), price)

estimateDlmmSellSolOut(tokenAmount, price) == NetOf(quoteDlmmSell(tokenAmount, price))
=============================================================================
