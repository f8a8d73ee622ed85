----------------------------- MODULE QuoteProofs -----------------------------
(***************************************************************************)
(* The quotes of the curve against definitions that do not walk, for every *)
(* curve, supply, amount, token unit and step limit.  A sale is the sum of *)
(* what its bands are worth; hence it pays no less than the same tokens    *)
(* sold in two calls.  On a curve whose prices rise a buy spends what it   *)
(* can, gets no fewer tokens than two that share its budget, and does not  *)
(* pay when sold straight back.  And the client computes what the program  *)
(* does.                                                                   *)
(***************************************************************************)
EXTENDS SdkAgreement, MathProofs

(* A sample as the sweep reaches it.                                       *)
SampleOK ==
  /\ curve \in Curves
  /\ sold \in Nat /\ sold <= curve.token_supply
  /\ sol_in \in Spends
  /\ tokens_in \in Sales

(* The types of what a sample holds.                                       *)
LEMMA SampleTyped ==
  ASSUME SampleOK
  PROVE  /\ curve \in SigmoidConfig
         /\ sold <= curve.token_supply
         /\ curve.token_supply \in Nat /\ band_size(curve) \in Nat
         /\ sold \in Nat /\ sol_in \in Nat /\ tokens_in \in Nat
         /\ Sales \subseteq Nat
<1>1. curve \in SigmoidConfig /\ Sales \subseteq U64 /\ sol_in \in U64 /\ tokens_in \in U64
  BY SweepAssumption DEF SampleOK
<1> QED
  BY <1>1, BandNat, U64Assumption DEF U64, SampleOK

(* Every sample the sweep reaches is one.                                  *)
LEMMA SampleKept == Sweep => []SampleOK
<1>1. Init => SampleOK
  BY SweepAssumption, BandNat DEF Init, SampleOK
<1>2. ASSUME SampleOK, [Next]_sample PROVE SampleOK'
  <2>1. CASE Next
    <3>1. curve.token_supply \in Nat /\ sold \in Nat /\ Samples \in Nat \ {0}
      BY SampleTyped, SweepAssumption, <1>2
    <3>2. curve.token_supply \div Samples \in Nat
      BY <3>1, Division
    <3>3. Stride \in Nat
      BY <3>1, <3>2 DEF Stride
    <3> QED
      BY <1>2, <2>1, <3>1, <3>3 DEF Next, SampleOK
  <2>2. CASE UNCHANGED sample
    BY <1>2, <2>2 DEF sample, SampleOK
  <2> QED
    BY <1>2, <2>1, <2>2
<1> QED
  BY <1>1, <1>2, PTL DEF Sweep
-----------------------------------------------------------------------------
(* On every curve a sale pays, to the lamport, what its tokens are worth   *)
(* at the start of the band each was sold in, or is not quoted because it  *)
(* crosses too many bands: the loop skips no token and counts none twice.  *)
THEOREM SalesAreSums == Sweep => []SellIsSumOfBands
<1>1. SampleOK => SellIsSumOfBands
  <2> SUFFICES ASSUME SampleOK, tokens_in <= sold, Quotable(curve) PROVE SellIsSumOfBands
    BY DEF SellIsSumOfBands
  <2>1. IsCurve(curve) /\ sold \in Nat /\ tokens_in \in Nat
    BY SampleTyped DEF IsCurve, Quotable
  <2> QED
    BY <2>1, SellQuoteIs DEF SellIsSumOfBands
<1> QED
  BY <1>1, SampleKept, PTL


(* Selling in two calls what could be sold in one pays no more, whatever   *)
(* the curve, the size of its bands and the rounding of each band's price. *)
THEOREM SplittingPaysNoMore == Sweep => []SplitSalePaysNoMore
<1>1. SampleOK => SplitSalePaysNoMore
  <2> SUFFICES ASSUME SampleOK, NEW first \in Sales,
                      first < tokens_in, tokens_in <= sold, Quotable(curve),
                      BandsBetween(curve, sold - tokens_in, sold) <= MAX_SIGMOID_STEPS
               PROVE  quote_sigmoid_sell(curve, sold, first).gross_sol
                        + quote_sigmoid_sell(curve, sold - first, tokens_in - first).gross_sol
                      <= quote_sigmoid_sell(curve, sold, tokens_in).gross_sol
    BY DEF SplitSalePaysNoMore
  <2> DEFINE from == sold - tokens_in
             mid == sold - first
             rest == tokens_in - first
             a == quote_sigmoid_sell(curve, sold, first).gross_sol
             b == quote_sigmoid_sell(curve, mid, rest).gross_sol
             all == quote_sigmoid_sell(curve, sold, tokens_in).gross_sol
  <2>1. IsCurve(curve) /\ sold \in Nat /\ tokens_in \in Nat /\ first \in Nat
    BY SampleTyped DEF IsCurve, Quotable
  <2>2. /\ from \in Nat /\ mid \in Nat /\ rest \in Nat
        /\ from <= mid /\ mid <= sold /\ first <= sold /\ rest <= mid /\ from <= sold
        /\ mid - rest = from
    BY <2>1
  <2>3. Worth(curve, from, sold) \in Nat /\ Worth(curve, mid, sold) \in Nat /\ Worth(curve, from, mid) \in Nat
    <3> HIDE DEF from, mid
    <3> QED
      BY <2>1, <2>2, WorthTyped
  <2>4. a = Worth(curve, mid, sold) \/ a = 0
    BY <2>1, <2>2, SellQuoteIs
  <2>5. b = Worth(curve, from, mid) \/ b = 0
    <3>1. b = IF BandsBetween(curve, mid - rest, mid) <= MAX_SIGMOID_STEPS
              THEN Worth(curve, mid - rest, mid) ELSE 0
      <4> HIDE DEF mid, rest
      <4> QED
        BY <2>1, <2>2, SellQuoteIs DEF mid, rest
    <3> QED
      BY <2>2, <3>1
  <2>6. all = Worth(curve, from, sold)
    BY <2>1, SellQuoteIs
  <2>7. Worth(curve, mid, sold) + Worth(curve, from, mid) <= Worth(curve, from, sold)
    <3> HIDE DEF from, mid
    <3> QED
      BY <2>1, <2>2, WorthSplits
  <2> HIDE DEF a, b, all, from, mid
  <2>8. a + b <= all
    BY <2>3, <2>4, <2>5, <2>6, <2>7
  <2> QED
    BY <2>8 DEF a, b, all, mid, rest
<1> QED
  BY <1>1, SampleKept, PTL

-----------------------------------------------------------------------------
(* A buy that is quoted buys on a curve that can be quoted, with what the  *)
(* walk spent.                                                             *)
LEMMA QuotedBuy ==
  ASSUME SampleOK, IsQuote(Buy)
  PROVE  LET w == BuyWalk(curve, sold, sol_in)
         IN  /\ IsCurve(curve) /\ w.ok
             /\ Buy.amount_out = w.tokens /\ Buy.gross_sol = w.sol
             /\ w.tokens # 0
<1> DEFINE w == BuyWalk(curve, sold, sol_in)
<1>1. Buy.amount_out # 0 /\ Buy # NoQuote
  BY U64Assumption DEF IsQuote, NoQuote
<1>2. /\ Buy = BuyQuote(w)
      /\ ValidSigmoid(curve) /\ band_size(curve) # 0
  BY <1>1 DEF Buy, quote_sigmoid_buy
<1>3. IsCurve(curve)
  BY <1>2, SampleTyped DEF IsCurve
<1> HIDE DEF w
<1>4. w.ok /\ Buy.amount_out = w.tokens /\ Buy.gross_sol = w.sol
  BY <1>1, <1>2 DEF BuyQuote
<1> QED
  BY <1>1, <1>3, <1>4 DEF w

(* A buy spends what it can.  A price that dips within a band would let a  *)
(* buy that could afford no more of the band go on in it, and use up one   *)
(* of the steps it may take: hence the hypothesis.                         *)
THEOREM BudgetIsSpent ==
  Sweep => [](RisesWithinBands(curve, sold, sold + Buy.amount_out)
                => BuySpendsTheBudget)
<1>1. SampleOK => (RisesWithinBands(curve, sold, sold + Buy.amount_out)
                     => BuySpendsTheBudget)
  <2> DEFINE cursor == sold + Buy.amount_out
             left == sol_in - Buy.gross_sol
  <2> SUFFICES ASSUME SampleOK, IsQuote(Buy), RisesWithinBands(curve, sold, cursor)
               PROVE  /\ left >= 0
                      /\ cursor <= curve.token_supply
                      /\ \/ cursor = curve.token_supply
                         \/ left * TOKEN_UNIT < price_at_supply(curve, cursor)
                         \/ BandsBetween(curve, sold, cursor) >= MAX_SIGMOID_STEPS
    BY DEF BuySpendsTheBudget
  <2>1. /\ curve \in SigmoidConfig /\ sold \in Nat /\ sol_in \in Nat
        /\ sold <= curve.token_supply
    BY SampleTyped
  <2>2. left >= 0 /\ cursor <= curve.token_supply
    <3>1. /\ Buy.gross_sol \in Nat /\ Buy.gross_sol <= sol_in
          /\ sold + Buy.amount_out <= curve.token_supply
      BY <2>1, BuyQuoteWithinBudget DEF Buy
    <3> QED
      BY <2>1, <3>1
  <2> DEFINE w == BuyWalk(curve, sold, sol_in)
  <2>3. /\ IsCurve(curve) /\ w.ok /\ w.tokens # 0
        /\ cursor = sold + w.tokens /\ left = sol_in - w.sol
    BY QuotedBuy
  <2>4. RisesWithinBands(curve, sold, sold + w.tokens)
    <3> HIDE DEF cursor, w
    <3> QED
      BY <2>3
  <2>5. /\ w.cursor = sold + w.tokens /\ w.remaining = sol_in - w.sol
        /\ \/ w.cursor = curve.token_supply
           \/ w.remaining * TOKEN_UNIT < price_at_supply(curve, w.cursor)
           \/ BandsBetween(curve, sold, w.cursor) >= MAX_SIGMOID_STEPS
    BY <2>1, <2>3, <2>4, BuyWalkStops
  <2>6. w.cursor = cursor /\ w.remaining = left
    <3> HIDE DEF cursor, left, w
    <3> QED
      BY <2>3, <2>5
  <2> HIDE DEF cursor, left, w
  <2> QED
    BY <2>2, <2>5, <2>6
<1> QED
  BY <1>1, SampleKept, PTL

-----------------------------------------------------------------------------
(* Wherever prices rise, as far as the two calls together get, one buy     *)
(* that is not cut short by the number of bands gets as many tokens as two *)
(* that share its budget: the undivided buy is followed along both, band   *)
(* by band, and can always pay for what they bought and what they have     *)
(* still to spend.                                                         *)
THEOREM SplittingABuyGetsNoMore == Sweep => []SplitBuyGetsNoMore
<1>1. SampleOK => SplitBuyGetsNoMore
  <2> DEFINE before(first) == quote_sigmoid_buy(curve, sold, first).amount_out
             after(first) == quote_sigmoid_buy(curve, sold + before(first),
                                               sol_in - first).amount_out
  <2> SUFFICES ASSUME SampleOK, NEW first \in Spends, first < sol_in, IsQuote(Buy),
                      BandsBetween(curve, sold, sold + Buy.amount_out) < MAX_SIGMOID_STEPS,
                      RisesOnWay(curve, sold, sold + before(first) + after(first))
               PROVE  before(first) + after(first) <= Buy.amount_out
    BY DEF SplitBuyGetsNoMore
  <2> DEFINE x == before(first)
             y == after(first)
             mid == sold + x
             spare == sol_in - first
             size == band_size(curve)
             whole == WalkFrom(sold, sol_in)
             v == WalkFrom(sold, first)
             v2 == WalkFrom(mid, spare)
  <2>1. /\ sold \in Nat /\ sol_in \in Nat /\ first \in Nat /\ spare \in Nat
        /\ spare <= sol_in /\ IsCurve(curve)
        /\ curve \in SigmoidConfig /\ ValidSigmoid(curve) /\ size \in Nat \ {0}
    <3>1. first \in Nat
      BY SweepAssumption, U64Assumption DEF U64
    <3>2. IsCurve(curve)
      BY QuotedBuy
    <3> QED
      BY <3>1, <3>2, SampleTyped DEF IsCurve
  <2>2. x \in Nat /\ y \in Nat /\ mid \in Nat
    <3>1. x \in Nat
      BY <2>1, BuyQuoteWithinBudget
    <3> HIDE DEF x, spare
    <3>2. mid \in Nat
      BY <2>1, <3>1
    <3> HIDE DEF mid
    <3>3. quote_sigmoid_buy(curve, mid, spare).amount_out \in Nat
      BY <2>1, <3>2, BuyQuoteWithinBudget
    <3> QED
      BY <3>1, <3>2, <3>3 DEF x, spare, mid
  <2>3. y = 0 \/ (BuyWalk(curve, mid, spare).ok /\ y = BuyWalk(curve, mid, spare).tokens)
    BY <2>1, QuoteIsWalk
  <2>4. x = 0 \/ (BuyWalk(curve, sold, first).ok /\ x = BuyWalk(curve, sold, first).tokens)
    BY <2>1, QuoteIsWalk
  <2>5. RisesOnWay(curve, sold, mid + y)
    OBVIOUS
  <2> HIDE DEF x, y, spare
  <2>6. PICK run : /\ IsRun(run, Walk, BuyEnds(curve), BuyStep(curve))
                   /\ \A s, b : BuyWalk(curve, s, b) = run[WalkFrom(s, b)]
    BY <2>1, BuyWalksRun
  <2> DEFINE final == run[whole]
  <2>7. /\ whole \in Walk /\ whole.cursor = sold /\ whole.remaining = sol_in
        /\ whole.tokens = 0 /\ whole.steps = 0 /\ whole.ok
        /\ v \in Walk /\ v.cursor = sold /\ v.remaining = first /\ v.tokens = 0
        /\ v2 \in Walk /\ v2.cursor = mid /\ v2.remaining = spare /\ v2.tokens = 0
    BY <2>1, <2>2, StepsAssumption DEF WalkFrom, Walk
  <2>8. BuyWalk(curve, sold, sol_in) = final /\ BuyWalk(curve, sold, first) = run[v]
        /\ BuyWalk(curve, mid, spare) = run[v2]
    BY <2>6
  <2>9. Buy.amount_out = final.tokens
    BY <2>8, QuotedBuy
  <2> HIDE DEF whole, v, v2
  <2>10. /\ final \in Walk /\ final.cursor = sold + final.tokens
         /\ final.cursor \in Nat /\ final.tokens \in Nat
    <3>1. /\ final \in Walk
          /\ final.cursor - whole.cursor = final.tokens - whole.tokens
      BY <2>1, <2>6, <2>7, BuyMovesOn
    <3> HIDE DEF final
    <3>2. final.cursor \in Nat /\ final.tokens \in Nat
      BY <3>1 DEF Walk
    <3> QED
      BY <2>1, <2>7, <3>1, <3>2
  <2> HIDE DEF final
  <2>11. final.cursor \div size - sold \div size < MAX_SIGMOID_STEPS
    <3>1. (final.cursor - 1) \div size - sold \div size + 1 < MAX_SIGMOID_STEPS
      BY <2>9, <2>10 DEF BandsBetween
    <3>2. /\ (final.cursor - 1) \div size \in Int
          /\ final.cursor \div size <= (final.cursor - 1) \div size + 1
      BY <2>1, <2>10, BandOfLast
    <3>3. final.cursor \div size \in Nat /\ sold \div size \in Nat
      BY <2>1, <2>10, Division
    <3> QED
      BY <3>1, <3>2, <3>3, StepsAssumption
  <2>12. Beside(curve, sold, run, final, spare, v, whole)
    <3>1. v.remaining + spare = sol_in
      BY <2>1, <2>7 DEF spare
    <3>2. price_at_supply(curve, sold) \in Nat /\ sold \div size \in Nat
      BY <2>1, PriceInRange, Division
    <3>3. (v.cursor - whole.cursor) * price_at_supply(curve, whole.cursor) = 0
      BY <2>1, <2>7, <3>2
    <3>4. (whole.remaining - (v.remaining + spare)) * TOKEN_UNIT = 0
      BY <2>1, <2>7, <3>1, TokenUnitAssumption
    <3>5. whole.steps <= whole.cursor \div size - sold \div size
      BY <2>7, <3>2
    <3> QED
      BY <2>1, <2>7, <3>1, <3>3, <3>4, <3>5 DEF Beside, final
  <2>13. \E u : Beside(curve, sold, run, final, 0, v2, u)
    <3>1. CASE x = 0
      <4>1. price_at_supply(curve, sold) \in Nat /\ sold \div size \in Nat
        BY <2>1, PriceInRange, Division
      <4>2. v2.cursor = sold /\ v2.remaining = spare
        BY <2>1, <2>7, <3>1
      <4>3. (v2.cursor - whole.cursor) * price_at_supply(curve, whole.cursor) = 0
        BY <2>1, <2>7, <4>1, <4>2
      <4>4. (whole.remaining - (v2.remaining + 0)) * TOKEN_UNIT \in Nat
        <5>1. whole.remaining - (v2.remaining + 0) \in Nat
          BY <2>1, <2>7, <4>2
        <5> QED
          BY <5>1, TokenUnitAssumption, ProductNat
      <4>5. whole.steps <= whole.cursor \div size - sold \div size
        BY <2>7, <4>1
      <4>6. Beside(curve, sold, run, final, 0, v2, whole)
        BY <2>1, <2>7, <4>2, <4>3, <4>4, <4>5 DEF Beside, final
      <4> QED
        BY <4>6
    <3>2. CASE x # 0
      <4> DEFINE w == run[v]
      <4>1. w.ok /\ x = w.tokens
        BY <2>4, <2>8, <3>2
      <4>2. /\ w \in Walk /\ w.cursor = mid /\ w.remaining \in Nat
        <5>1. w \in Walk /\ w.cursor - v.cursor = w.tokens - v.tokens
          BY <2>1, <2>6, <2>7, BuyMovesOn
        <5> HIDE DEF w
        <5>2. w.cursor \in Nat /\ w.tokens \in Nat /\ w.remaining \in Nat
          BY <5>1 DEF Walk
        <5> QED
          BY <2>1, <2>7, <4>1, <5>1, <5>2
      <4>3. RisesOnWay(curve, sold, w.cursor)
        <5>1. mid + y \in Nat /\ mid <= mid + y
          BY <2>2
        <5> HIDE DEF mid
        <5> QED
          BY <2>1, <2>2, <2>5, <4>2, <5>1, RisesOnWayToo
      <4>4. PICK u : Beside(curve, sold, run, final, spare, w, u)
        BY <2>1, <2>6, <2>7, <2>10, <2>11, <2>12, <4>1, <4>3, BesideKept
      <4> HIDE DEF w
      <4>5. Beside(curve, sold, run, final, 0, v2, u)
        <5> DEFINE p == price_at_supply(curve, u.cursor)
                   had == u.remaining - (w.remaining + spare)
                   has == u.remaining - (v2.remaining + 0)
        <5>1. u.remaining \in Nat /\ w.remaining + spare <= u.remaining
              /\ u.cursor \in Nat
          BY <4>4 DEF Beside, Walk
        <5>2. had \in Nat /\ has \in Nat /\ had <= has /\ v2.remaining + 0 <= u.remaining
          BY <2>1, <2>7, <4>2, <5>1
        <5>3. (v2.cursor - u.cursor) * p <= had * TOKEN_UNIT
          BY <2>7, <4>2, <4>4 DEF Beside
        <5>4. (v2.cursor - u.cursor) * p \in Nat
          <6>1. v2.cursor - u.cursor \in Nat
            BY <2>2, <2>7, <4>2, <4>4, <5>1 DEF Beside
          <6>2. p \in Nat
            BY <2>1, <5>1, PriceInRange
          <6> QED
            BY <6>1, <6>2, ProductNat
        <5>5. had * TOKEN_UNIT <= has * TOKEN_UNIT
              /\ had * TOKEN_UNIT \in Nat /\ has * TOKEN_UNIT \in Nat
          <6> HIDE DEF had, has
          <6> QED
            BY <5>2, TokenUnitAssumption, SMTT(30)
        <5>6. (v2.cursor - u.cursor) * p <= has * TOKEN_UNIT
          BY <5>3, <5>4, <5>5
        <5> QED
          BY <2>7, <4>2, <4>4, <5>2, <5>6 DEF Beside
      <4> QED
        BY <4>5
    <3> QED
      BY <3>1, <3>2
  <2>14. mid + y <= final.cursor
    <3>1. CASE y = 0
      <4>1. v2.cursor <= final.cursor
        BY <2>1, <2>6, <2>7, <2>10, <2>11, <2>13, UndividedGetsThere
      <4> QED
        BY <2>2, <2>7, <3>1, <4>1
    <3>2. CASE y # 0
      <4> DEFINE w == run[v2]
      <4>1. w.ok /\ y = w.tokens
        BY <2>3, <2>8, <3>2
      <4>2. w \in Walk /\ w.cursor = mid + y
        <5>1. w \in Walk /\ w.cursor - v2.cursor = w.tokens - v2.tokens
          BY <2>1, <2>6, <2>7, BuyMovesOn
        <5> HIDE DEF w
        <5>2. w.cursor \in Nat /\ w.tokens \in Nat
          BY <5>1 DEF Walk
        <5> QED
          BY <2>2, <2>7, <4>1, <5>1, <5>2
      <4>3. sold <= v2.cursor
        BY <2>1, <2>2, <2>7
      <4>4. PICK u : Beside(curve, sold, run, final, 0, w, u)
        BY <2>1, <2>5, <2>6, <2>7, <2>10, <2>11, <2>13, <4>1, <4>2, <4>3, BesideKept
      <4>5. w.cursor <= final.cursor
        BY <2>1, <2>6, <2>10, <2>11, <4>2, <4>4, UndividedGetsThere
      <4> QED
        BY <4>2, <4>5
    <3> QED
      BY <3>1, <3>2
  <2>15. x + y <= Buy.amount_out
    BY <2>1, <2>2, <2>9, <2>10, <2>14
  <2> QED
    BY <2>15 DEF x, y
<1> QED
  BY <1>1, SampleKept, PTL

-----------------------------------------------------------------------------
(* What has just been bought cannot be sold back for more than it cost,    *)
(* whatever the two amounts round to, on every curve that up to there      *)
(* never asks less than at the start of a band.                            *)
THEOREM RoundTripPaysForItself ==
  Sweep => [](RisesBelow(curve, sold + Buy.amount_out) => RoundTripBacked)
<1>1. SampleOK => (RisesBelow(curve, sold + Buy.amount_out) => RoundTripBacked)
  <2> DEFINE out == Buy.amount_out
             top == sold + out
             back == quote_sigmoid_sell(curve, top, out).gross_sol
  <2> SUFFICES ASSUME SampleOK, RisesBelow(curve, top), IsQuote(Buy)
               PROVE  back <= Buy.gross_sol
    BY DEF RoundTripBacked
  <2>1. /\ curve \in SigmoidConfig /\ sold \in Nat /\ sol_in \in Nat
        /\ out \in Nat \ {0} /\ Buy.gross_sol \in Nat
    BY SampleTyped, U64Assumption DEF IsQuote, U64
  <2>2. IsCurve(curve)
    BY QuotedBuy
  <2>3. Worth(curve, sold, top) <= Worth(curve, sold, sold) + Buy.gross_sol
    <3>1. sold <= sold
      BY <2>1
    <3> QED
      BY <2>1, <2>2, <3>1, BuyCoversWorth DEF Buy
  <2>4. Worth(curve, sold, sold) = 0
    BY <2>1, <2>2, WorthOfNothing
  <2> HIDE DEF out
  <2>5. top \in Nat /\ out <= top /\ top - out = sold
    BY <2>1
  <2> HIDE DEF top
  <2>6. back = Worth(curve, sold, top) \/ back = 0
    <3>1. back = IF BandsBetween(curve, top - out, top) <= MAX_SIGMOID_STEPS
                 THEN Worth(curve, top - out, top) ELSE 0
      BY <2>1, <2>2, <2>5, SellQuoteIs
    <3> QED
      BY <2>5, <3>1
  <2> HIDE DEF back
  <2> QED
    BY <2>1, <2>3, <2>4, <2>6
<1> QED
  BY <1>1, SampleKept, PTL

(* On a curve of the shape create_pool gives by default nothing more is    *)
(* asked of it: a quarter of the supply, at which a pool migrates by       *)
(* default, is short of a midpoint that is no lower.                       *)
THEOREM DefaultRoundTripPaysForItself ==
  Sweep => [](DefaultShape(curve) /\ curve.token_supply <= 4 * curve.midpoint_supply
                => RoundTripBacked)
<1>1. SampleOK /\ (RisesBelow(curve, sold + Buy.amount_out) => RoundTripBacked)
        => (DefaultShape(curve) /\ curve.token_supply <= 4 * curve.midpoint_supply
              => RoundTripBacked)
  <2> DEFINE top == sold + Buy.amount_out
  <2> SUFFICES ASSUME SampleOK, RisesBelow(curve, top) => RoundTripBacked,
                      DefaultShape(curve), IsQuote(Buy),
                      curve.token_supply <= 4 * curve.midpoint_supply,
                      4 * top <= curve.token_supply
               PROVE  RoundTripBacked
    BY DEF RoundTripBacked
  <2>1. curve \in SigmoidConfig /\ sold \in Nat /\ ValidSigmoid(curve)
    BY SampleTyped, QuotedBuy DEF IsCurve, Quotable
  <2>2. top \in Nat
    BY <2>1, U64Assumption DEF IsQuote, U64
  <2>3. curve.midpoint_supply \in Nat /\ curve.token_supply \in Nat
    BY <2>1, U64Assumption DEF SigmoidConfig, U64
  <2> HIDE DEF top
  <2>4. top <= curve.midpoint_supply
    BY <2>2, <2>3
  <2>5. RisesBelow(curve, curve.midpoint_supply)
    BY <2>1, RisesToMidpoint
  <2>6. RisesBelow(curve, top)
    BY <2>2, <2>3, <2>4, <2>5, RisesBelowLess
  <2> QED
    BY <2>6
<1> QED
  BY <1>1, SampleKept, RoundTripPaysForItself, PTL

-----------------------------------------------------------------------------
(* For every curve, supply and amount: what the program quotes, the client *)
(* computes, to the base unit and to the lamport.                          *)
THEOREM ProgramAgreesWithSdk == Sweep => []ProgramQuotesAsSdk
<1>1. SampleOK => ProgramQuotesAsSdk
  BY SampleTyped, QuotesAreSdk DEF ProgramQuotesAsSdk, Buy
<1> QED
  BY <1>1, SampleKept, PTL

(* And what the client computes the program quotes, unless its numbers are *)
(* too narrow.                                                             *)
THEOREM SdkAgreesWithProgram == Sweep => []SdkQuotesAsProgram
<1>1. SampleOK => SdkQuotesAsProgram
  <2> SUFFICES ASSUME SampleOK PROVE SdkQuotesAsProgram
    OBVIOUS
  <2> DEFINE sell == quote_sigmoid_sell(curve, sold, tokens_in)
             buys == quoteSigmoidBuy(curve, sold, sol_in)
             sells == quoteSigmoidSell(curve, sold, tokens_in)
  <2>1. /\ curve \in SigmoidConfig /\ sold \in Nat /\ sol_in \in Nat /\ tokens_in \in Nat
        /\ sold <= curve.token_supply
        /\ sol_in \in 0..U64Max /\ curve.token_supply \in 0..U64Max
    BY SampleTyped, SweepAssumption DEF SampleOK, SigmoidConfig, U64
  <2>2. ASSUME buys > 0, ~(curve.token_supply + band_size(curve) > U64Max)
        PROVE  IsQuote(Buy)
    <3>1. curve.token_supply + band_size(curve) \in U64
      BY <2>1, <2>2, BandNat, U64Assumption DEF U64
    <3>2. Buy.amount_out = buys
      BY <2>1, <3>1, BuyIsSdk DEF Buy
    <3>3. /\ Buy.gross_sol \in Nat /\ Buy.gross_sol <= sol_in
          /\ Buy.amount_out \in Nat /\ sold + Buy.amount_out <= curve.token_supply
      BY <2>1, BuyQuoteWithinBudget DEF Buy
    <3> HIDE DEF buys
    <3> QED
      BY <2>1, <2>2, <3>2, <3>3, U64Assumption DEF IsQuote, U64
  <2>3. ASSUME sells \in 1..U64Max PROVE IsQuote(sell)
    <3>1. sell.amount_out = sells /\ sell.gross_sol = sells
      BY <2>1, SaleIsSdk
    <3> HIDE DEF sell, sells
    <3> QED
      BY <2>3, <3>1, U64Assumption DEF IsQuote, U64
  <2> HIDE DEF sells
  <2> QED
    BY <2>2, <2>3 DEF SdkQuotesAsProgram, sells
<1> QED
  BY <1>1, SampleKept, PTL
=============================================================================
