----------------------------- MODULE MathProofs -----------------------------
(***************************************************************************)
(* Facts about the arithmetic of the program and of its client, for every  *)
(* amount, price and token unit: the fee split, the quotes of a bin, the   *)
(* price of the bonding curve, the walks that quote a trade on it, sums    *)
(* over finite sets, the client's copy of the walks, and what the tokens   *)
(* of a curve are worth.                                                   *)
(*                                                                         *)
(* The loops are recursive functions.  What every pass keeps is shown of   *)
(* their end by induction on the steps they have left (RunKeeps), and      *)
(* induction itself by a least counterexample among the naturals.          *)
(***************************************************************************)
EXTENDS DlmmMath, SdkQuotes, CurveWorth, FiniteSets, FiniteSetTheorems,
        WellFoundedInduction, TLAPS

(* Integer division, as every quote uses it: the quotient times the        *)
(* divisor is the greatest multiple that does not exceed the dividend.     *)
LEMMA Division ==
  ASSUME NEW n \in Nat, NEW d \in Nat \ {0}
  PROVE  /\ n \div d \in Nat
         /\ (n \div d) * d <= n
         /\ n < (n \div d) * d + d
BY SMTT(30)

(* A quotient is at least q exactly when the dividend reaches q times the  *)
(* divisor.                                                                *)
LEMMA DivisionAtMost ==
  ASSUME NEW n \in Nat, NEW d \in Nat \ {0}, NEW q \in Nat, n <= q * d
  PROVE  n \div d <= q
<1>1. /\ n \div d \in Nat
      /\ (n \div d) * d <= n
  BY Division
<1>2. SUFFICES ASSUME n \div d >= q + 1 PROVE FALSE
  BY <1>1
<1>3. (n \div d) * d >= (q + 1) * d
  BY <1>1, <1>2, SMTT(30)
<1>4. (q + 1) * d = q * d + d
  BY SMTT(30)
<1> QED
  BY <1>1, <1>3, <1>4, SMTT(30)

(* The fee breakdown of any amount: five naturals, the four shares add up  *)
(* to the total, the total is at most the amount, and rounding moves at    *)
(* most three lamports to the platform, which otherwise earns what the     *)
(* creator does.                                                           *)
THEOREM FeeShares ==
  ASSUME NEW amount \in Nat
  PROVE  LET f == FeeBreakdown(amount)
         IN  /\ f.total \in Nat /\ f.platform \in Nat /\ f.curator \in Nat
             /\ f.creator \in Nat /\ f.growth \in Nat
             /\ f.total = f.platform + f.curator + f.creator + f.growth
             /\ f.total <= amount
             /\ f.creator <= f.platform /\ f.platform <= f.creator + 3
<1> DEFINE total == (amount * TOTAL_FEE_BPS) \div BPS_DENOMINATOR
<1>1. total \in Nat /\ total <= amount
  BY DEF TOTAL_FEE_BPS, BPS_DENOMINATOR
<1>2. ASSUME NEW t \in Nat
      PROVE  /\ (t * 50) \div 300 \in Nat
             /\ (t * 100) \div 300 \in Nat
             /\ (t * 100) \div 300
                  <= t - (t * 50) \div 300 - (t * 100) \div 300 - (t * 50) \div 300
             /\ t - (t * 50) \div 300 - (t * 100) \div 300 - (t * 50) \div 300
                  <= (t * 100) \div 300 + 3
  <2> DEFINE x == (t * 50) \div 300
             y == (t * 100) \div 300
  <2>1. x \in Nat /\ x * 300 <= t * 50 /\ t * 50 < x * 300 + 300
    BY Division
  <2>2. y \in Nat /\ y * 300 <= t * 100 /\ t * 100 < y * 300 + 300
    BY Division
  <2> HIDE DEF x, y
  <2>3. y <= t - x - y - x /\ t - x - y - x <= y + 3
    BY <2>1, <2>2
  <2> QED
    BY <2>1, <2>2, <2>3 DEF x, y
<1> QED
  BY <1>1, <1>2 DEF FeeBreakdown, split_fee, TOTAL_FEE_BPS, CREATOR_FEE_BPS,
                    CURATOR_FEE_BPS, GROWTH_FEE_BPS, BPS_DENOMINATOR

(* One pass of the buy loop never costs more than what remains: as many    *)
(* tokens as the remaining SOL affords, rounded down, cost no more than    *)
(* that SOL, rounded up.  The subtraction of the cost cannot underflow.    *)
THEOREM BandCostAffordable ==
  ASSUME NEW remaining \in Nat, NEW price \in Nat \ {0}, NEW tokens \in Nat,
         tokens <= (remaining * TOKEN_UNIT) \div price
  PROVE  ceil_div(tokens * price, TOKEN_UNIT) <= remaining
<1> USE TokenUnitAssumption
<1>1. remaining * TOKEN_UNIT \in Nat /\ tokens * price \in Nat
  BY SMTT(30)
<1>2. ((remaining * TOKEN_UNIT) \div price) * price <= remaining * TOKEN_UNIT
  BY <1>1, Division
<1>3. (remaining * TOKEN_UNIT) \div price \in Nat
  BY <1>1, Division
<1>4. tokens * price <= ((remaining * TOKEN_UNIT) \div price) * price
  BY <1>3, SMTT(30)
<1>5. tokens * price <= remaining * TOKEN_UNIT
  BY <1>1, <1>2, <1>3, <1>4, SMTT(30)
<1> DEFINE cost == (tokens * price + TOKEN_UNIT - 1) \div TOKEN_UNIT
<1>6. /\ cost \in Nat
      /\ cost * TOKEN_UNIT <= tokens * price + TOKEN_UNIT - 1
  BY <1>1, Division
<1>7. SUFFICES ASSUME cost >= remaining + 1 PROVE FALSE
  BY <1>6 DEF ceil_div
<1>8. cost * TOKEN_UNIT >= (remaining + 1) * TOKEN_UNIT
  BY <1>6, <1>7, SMTT(30)
<1>9. (remaining + 1) * TOKEN_UNIT = remaining * TOKEN_UNIT + TOKEN_UNIT
  BY SMTT(30)
<1> HIDE DEF cost
<1> QED
  BY <1>1, <1>5, <1>6, <1>8, <1>9, SMTT(30)

(* A swap at the price of a bin never lowers the bin's value, tokens at    *)
(* the price plus SOL: a buy takes tokens worth at most the SOL it brings, *)
(* a sell takes SOL worth at most the tokens it brings.                    *)
THEOREM BinQuotesKeepValue ==
  ASSUME NEW price \in Nat \ {0}, NEW sol \in Nat, NEW tokens \in Nat
  PROVE  /\ quote_dlmm_buy(sol, price) * price <= sol * TOKEN_UNIT
         /\ quote_dlmm_sell(tokens, price) * TOKEN_UNIT <= tokens * price
<1> USE TokenUnitAssumption
<1>1. sol * TOKEN_UNIT \in Nat /\ tokens * price \in Nat
  BY SMTT(30)
<1> QED
  BY <1>1, Division DEF quote_dlmm_buy, quote_dlmm_sell

(* Buying from a bin and selling straight back, or the other way round,    *)
(* never returns more than was put in.                                     *)
THEOREM BinRoundTrip ==
  ASSUME NEW price \in Nat \ {0}, NEW sol \in Nat, NEW tokens \in Nat
  PROVE  /\ quote_dlmm_sell(quote_dlmm_buy(sol, price), price) <= sol
         /\ quote_dlmm_buy(quote_dlmm_sell(tokens, price), price) <= tokens
<1> USE TokenUnitAssumption
<1>1. /\ sol * TOKEN_UNIT \in Nat
      /\ tokens * price \in Nat
  BY SMTT(30)
<1>2. /\ quote_dlmm_buy(sol, price) \in Nat
      /\ quote_dlmm_sell(tokens, price) \in Nat
  BY <1>1, Division DEF quote_dlmm_buy, quote_dlmm_sell
<1>3. /\ quote_dlmm_buy(sol, price) * price \in Nat
      /\ quote_dlmm_sell(tokens, price) * TOKEN_UNIT \in Nat
  BY <1>2, SMTT(30)
<1>4. (quote_dlmm_buy(sol, price) * price) \div TOKEN_UNIT <= sol
  BY <1>3, BinQuotesKeepValue, DivisionAtMost
<1>5. (quote_dlmm_sell(tokens, price) * TOKEN_UNIT) \div price <= tokens
  BY <1>3, BinQuotesKeepValue, DivisionAtMost
<1> QED
  BY <1>4, <1>5 DEF quote_dlmm_buy, quote_dlmm_sell
-----------------------------------------------------------------------------
(* The price of the bonding curve, for every configuration that the        *)
(* program accepts and every supply: the u128 arithmetic of the source, in *)
(* the form the model gives it, is exact, and what comes out lies between  *)
(* the floor and the cap, all roundings included.                          *)

(* A quotient is the only number whose multiple by the divisor comes       *)
(* within one divisor of the dividend.                                     *)
LEMMA DivisionUnique ==
  ASSUME NEW n \in Nat, NEW d \in Nat \ {0}, NEW q \in Nat,
         q * d <= n, n < q * d + d
  PROVE  n \div d = q
<1>1. n \div d \in Nat /\ (n \div d) * d <= n /\ n < (n \div d) * d + d
  BY Division
<1> DEFINE e == n \div d
<1> HIDE DEF e
<1>2. CASE e >= q + 1
  <2>1. e * d >= (q + 1) * d
    BY <1>1, <1>2, SMTT(30) DEF e
  <2>2. (q + 1) * d = q * d + d
    BY SMTT(30)
  <2> QED
    BY <1>1, <2>1, <2>2, SMTT(30) DEF e
<1>3. CASE q >= e + 1
  <2>1. q * d >= (e + 1) * d
    BY <1>1, <1>3, SMTT(30) DEF e
  <2>2. (e + 1) * d = e * d + d
    BY <1>1, SMTT(30) DEF e
  <2> QED
    BY <1>1, <2>1, <2>2, SMTT(30) DEF e
<1> QED
  BY <1>1, <1>2, <1>3 DEF e

(* Division is monotonic. *)
LEMMA DivisionMonotonic ==
  ASSUME NEW m \in Nat, NEW n \in Nat, NEW d \in Nat \ {0}, m <= n
  PROVE  m \div d <= n \div d
<1>1. n \div d \in Nat /\ n < (n \div d) * d + d
  BY Division
<1>2. m \div d \in Nat /\ (m \div d) * d <= m
  BY Division
<1>3. SUFFICES ASSUME m \div d >= n \div d + 1 PROVE FALSE
  BY <1>1, <1>2
<1>4. (m \div d) * d >= (n \div d + 1) * d
  BY <1>1, <1>2, <1>3, SMTT(30)
<1>5. (n \div d + 1) * d = (n \div d) * d + d
  BY <1>1, SMTT(30)
<1> QED
  BY <1>1, <1>2, <1>4, <1>5, SMTT(30)

(* MulDiv is the division of the product it does not form. *)
THEOREM MulDivExact ==
  ASSUME NEW a \in Nat, NEW b \in Nat, NEW c \in Nat \ {0}
  PROVE  MulDiv(a, b, c) = (a * b) \div c
<1> DEFINE q == a \div c
           r == a % c
           s == (r * b) \div c
<1>1. q \in Nat /\ r \in Nat /\ a = q * c + r
  BY SMTT(30)
<1> HIDE DEF q, r
<1>2. r * b \in Nat /\ q * b \in Nat /\ a * b \in Nat
  BY <1>1, SMTT(30)
<1>3. s \in Nat /\ s * c <= r * b /\ r * b < s * c + c
  BY <1>2, Division
<1> HIDE DEF s
<1>4. a * b = (q * b) * c + r * b
  BY <1>1, SMTT(30)
<1>5. (q * b + s) * c = (q * b) * c + s * c
  BY <1>2, <1>3, SMTT(30)
<1>6. (a * b) \div c = q * b + s
  <2>1. q * b + s \in Nat
    BY <1>2, <1>3
  <2>2. (q * b + s) * c <= a * b /\ a * b < (q * b + s) * c + c
    BY <1>2, <1>3, <1>4, <1>5, SMTT(30)
  <2> QED
    BY <2>1, <2>2, <1>2, DivisionUnique
<1> QED
  BY <1>6 DEF MulDiv, q, r, s

(* The smoothstep stays within its range whatever the two roundings do:    *)
(* the first term is not smaller than the second, and exceeds it by at     *)
(* most the denominator.                                                   *)
LEMMA SmoothstepRange ==
  ASSUME NEW t_bps \in Nat
  PROVE  smoothstep_bps(t_bps) \in Nat /\ smoothstep_bps(t_bps) <= 10000
<1> DEFINE t == least(t_bps, 10000)
           x == t * t
           y == x * t
           f == (3 * x) \div 10000
           g == (2 * y) \div 10000
           h == g \div 10000
<1>1. t \in 0..10000
  BY DEF least
<1> HIDE DEF t
<1>2. x \in Nat /\ y \in Nat /\ y <= 10000 * x
  <2>1. x \in Nat /\ x >= 0
    BY <1>1, SMTT(30)
  <2> HIDE DEF x
  <2> QED
    BY <1>1, <2>1, SMTT(30)
<1>4. 30000 * x - 2 * y <= 1000000000000
  <2> DEFINE u == 10000 - t
  <2>1. u \in 0..10000 /\ t = 10000 - u
    BY <1>1
  <2>2. (u * u) \in Nat /\ (u * u) * (10000 + 2 * t) >= 0
    <3>1. ASSUME NEW i \in Nat, NEW j \in Nat PROVE i * j \in Nat
      BY SMTT(30)
    <3>2. u \in Nat /\ 10000 + 2 * t \in Nat
      BY <1>1, <2>1
    <3> HIDE DEF u
    <3> QED
      BY <3>1, <3>2
  <2>3. u * u = 100000000 - 20000 * t + x
    BY <1>1, <2>1, SMTT(30) DEF x
  <2>4. (u * u) * (10000 + 2 * t) = 10000 * (u * u) + 2 * ((u * u) * t)
    BY <1>1, <2>1, SMTT(30)
  <2>5. (100000000 - 20000 * t + x) * t = 100000000 * t - 20000 * x + y
    <3>1. ASSUME NEW i \in Int, NEW j \in Int
          PROVE  (100000000 - 20000 * i + j) * i = 100000000 * i - 20000 * (i * i) + j * i
      BY SMTT(30)
    <3> QED
      BY <1>1, <1>2, <3>1 DEF x, y
  <2>6. (u * u) * (10000 + 2 * t) = 1000000000000 - 30000 * x + 2 * y
    BY <1>1, <1>2, <2>2, <2>3, <2>4, <2>5
  <2> QED
    BY <2>2, <2>6, <1>2
<1> HIDE DEF x, y
<1>5. f \in Nat /\ f * 10000 <= 3 * x /\ 3 * x < f * 10000 + 10000
  BY <1>2
<1>6. g \in Nat /\ g * 10000 <= 2 * y /\ 2 * y < g * 10000 + 10000
  BY <1>2
<1> HIDE DEF f, g
<1>7. h \in Nat /\ h * 10000 <= g /\ g < h * 10000 + 10000
  BY <1>6
<1> HIDE DEF h
<1>8. f - h \in Nat /\ f - h <= 10000
  BY <1>2, <1>4, <1>5, <1>6, <1>7
<1>9. smoothstep_bps(t_bps) = f - h
  <2>1. MulDiv(2 * t * t, t, 10000) = ((2 * t * t) * t) \div 10000
    <3> DEFINE a == 2 * t * t
    <3>1. a \in Nat
      BY <1>1, SMTT(30)
    <3> HIDE DEF a
    <3>2. MulDiv(a, t, 10000) = (a * t) \div 10000
      BY <1>1, <3>1, MulDivExact
    <3> QED
      BY <3>2 DEF a
  <2>2. (2 * t * t) * t = 2 * y /\ 3 * t * t = 3 * x
    BY <1>1, SMTT(30) DEF x, y
  <2> QED
    BY <2>1, <2>2 DEF smoothstep_bps, BPS_DENOMINATOR, t, f, g, h
<1> QED
  BY <1>8, <1>9

(* The easing moves the price by at most half of its range.                *)
LEMMA HalfEasedRange ==
  ASSUME NEW c \in SigmoidConfig, NEW distance \in Nat, NEW side_range \in Nat \ {0}
  PROVE  /\ half_eased(c, distance, side_range) \in Nat
         /\ half_eased(c, distance, side_range) <= 5000
<1> DEFINE d == (distance * 10000) \div side_range
           a == (d * c.steepness_bps) \div 10000
<1>1. distance * 10000 \in Nat
  OBVIOUS
<1>2. d \in Nat
  BY <1>1, Division
<1> HIDE DEF d
<1>3. c.steepness_bps \in Nat
  BY U64Assumption DEF SigmoidConfig, U64
<1>4. d * c.steepness_bps \in Nat
  BY <1>2, <1>3, SMTT(30)
<1>5. a \in Nat
  BY <1>4, Division
<1> HIDE DEF a
<1> DEFINE e == smoothstep_bps(a)
<1>6. e \in Nat /\ e <= 10000
  BY <1>5, SmoothstepRange
<1> HIDE DEF e
<1>7. (e * 5000) \div 10000 \in Nat /\ (e * 5000) \div 10000 <= 5000
  BY <1>6
<1>8. half_eased(c, distance, side_range) = (e * 5000) \div 10000
  BY DEF half_eased, BPS_DENOMINATOR, e, d, a
<1> QED
  BY <1>7, <1>8

(* At no supply does a valid curve ask less than its floor price or more   *)
(* than its cap, and it never asks nothing: the division by the price in   *)
(* the buy loop is defined.                                                *)
THEOREM PriceInRange ==
  ASSUME NEW c \in SigmoidConfig, ValidSigmoid(c), NEW sold \in Nat
  PROVE  /\ price_at_supply(c, sold) \in Nat \ {0}
         /\ c.floor_price_lamports <= price_at_supply(c, sold)
         /\ price_at_supply(c, sold) <= c.cap_price_lamports
<1> DEFINE s == least(sold, c.token_supply)
           b == sigmoid_bps(c, s)
           r == c.cap_price_lamports - c.floor_price_lamports
           q == (r * b) \div 10000
<1>1. /\ c.floor_price_lamports \in Nat \ {0} /\ c.cap_price_lamports \in Nat
      /\ c.token_supply \in Nat /\ c.midpoint_supply \in Nat \ {0}
      /\ c.midpoint_supply < c.token_supply
      /\ r \in Nat
  BY U64Assumption DEF SigmoidConfig, U64, ValidSigmoid
<1>2. s \in Nat
  BY <1>1 DEF least
<1> HIDE DEF s
<1>3. b \in Nat /\ b <= 10000
  <2>1. CASE s < c.midpoint_supply
    <3> DEFINE h == half_eased(c, c.midpoint_supply - s, c.midpoint_supply)
    <3>1. c.midpoint_supply - s \in Nat
      BY <1>1, <1>2, <2>1
    <3>2. h \in Nat /\ h <= 5000
      BY <1>1, <3>1, HalfEasedRange
    <3>3. b = 5000 - h
      BY <2>1 DEF sigmoid_bps
    <3> HIDE DEF h, b
    <3> QED
      BY <3>2, <3>3
  <2>2. CASE ~(s < c.midpoint_supply)
    <3> DEFINE side == c.token_supply - c.midpoint_supply
               h == half_eased(c, s - c.midpoint_supply, side)
    <3>1. s - c.midpoint_supply \in Nat /\ side \in Nat \ {0}
      BY <1>1, <1>2, <2>2
    <3> HIDE DEF side
    <3>2. h \in Nat /\ h <= 5000
      BY <3>1, HalfEasedRange
    <3>3. b = 5000 + h
      BY <2>2 DEF sigmoid_bps, side
    <3> HIDE DEF h, b
    <3> QED
      BY <3>2, <3>3
  <2> QED
    BY <2>1, <2>2
<1> HIDE DEF b, r
<1>4. r * b \in Nat /\ r * b <= r * 10000
  BY <1>1, <1>3, SMTT(30)
<1>5. q \in Nat /\ q <= r
  <2>1. q \in Nat
    BY <1>4, Division
  <2>2. q <= r
    BY <1>1, <1>4, DivisionAtMost
  <2> QED
    BY <2>1, <2>2
<1>6. price_at_supply(c, sold) = q + c.floor_price_lamports
  BY DEF price_at_supply, BPS_DENOMINATOR, q, r, b, s
<1> HIDE DEF q
<1>7. r = c.cap_price_lamports - c.floor_price_lamports
  BY DEF r
<1> QED
  BY <1>1, <1>5, <1>6, <1>7
-----------------------------------------------------------------------------
(* The product of two naturals is one, which the provers are told once.    *)
LEMMA ProductNat == ASSUME NEW i \in Nat, NEW j \in Nat PROVE i * j \in Nat
BY SMTT(30)

(* Rounding up adds less than one divisor.                                 *)
LEMMA CeilDivision ==
  ASSUME NEW n \in Nat, NEW d \in Nat \ {0}
  PROVE  /\ ceil_div(n, d) \in Nat
         /\ n <= ceil_div(n, d) * d
         /\ ceil_div(n, d) * d <= n + (d - 1)
<1> DEFINE k == (n + d - 1) \div d
           z == k * d
<1>1. n + d - 1 \in Nat
  OBVIOUS
<1>2. k \in Nat /\ z <= n + d - 1 /\ n + d - 1 < z + d
  BY <1>1, Division
<1>3. z \in Nat
  BY <1>2, ProductNat
<1> HIDE DEF k, z
<1>4. n <= z /\ z <= n + (d - 1)
  BY <1>2, <1>3
<1> QED
  BY <1>2, <1>4 DEF ceil_div, k, z

(* The band of a cursor below the supply ends above the cursor and not     *)
(* above the supply.                                                       *)
LEMMA BandAhead ==
  ASSUME NEW cursor \in Nat, NEW size \in Nat \ {0}, NEW supply \in Nat, cursor < supply
  PROVE  /\ next_band_end(cursor, size, supply) \in Nat
         /\ cursor < next_band_end(cursor, size, supply)
         /\ next_band_end(cursor, size, supply) <= supply
<1> DEFINE k == cursor \div size
<1>1. k \in Nat /\ cursor < k * size + size
  BY Division
<1> HIDE DEF k
<1>2. k * size \in Nat /\ (k + 1) * size = k * size + size
  BY <1>1, ProductNat, SMTT(30)
<1>3. raw_band_end(cursor, size) = k * size + size
  BY <1>2 DEF raw_band_end, k
<1> QED
  BY <1>1, <1>2, <1>3 DEF next_band_end, least

(* The band below a cursor above zero starts below the cursor.             *)
LEMMA BandBelow ==
  ASSUME NEW cursor \in Nat \ {0}, NEW size \in Nat \ {0}
  PROVE  /\ previous_band_start(cursor, size) \in Nat
         /\ previous_band_start(cursor, size) < cursor
<1> DEFINE k == (cursor - 1) \div size
<1>1. k \in Nat /\ k * size <= cursor - 1
  BY Division
<1>2. k * size \in Nat
  BY <1>1, ProductNat
<1>3. previous_band_start(cursor, size) = k * size
  BY DEF previous_band_start
<1> QED
  BY <1>1, <1>2, <1>3

(* A pass that buys: tokens of the band ahead, no more than it has left,   *)
(* for no more than remains, at the band's price rounded up.               *)
LEMMA BuyBandStep ==
  ASSUME NEW c \in SigmoidConfig, ValidSigmoid(c), band_size(c) \in Nat \ {0},
         c.token_supply \in Nat,
         NEW v \in Walk, v.remaining \in Nat, v.cursor \in Nat,
         v.cursor < c.token_supply
  PROVE  \/ BuyBand(c, v) = [v EXCEPT !.ok = FALSE]
         \/ \E tokens, cost, price \in Nat :
              /\ BuyBand(c, v) = Advance(v, cost, v.cursor + tokens, tokens, cost)
              /\ cost <= v.remaining
              /\ v.cursor + tokens <= c.token_supply
              /\ c.floor_price_lamports <= price /\ price <= c.cap_price_lamports
              /\ tokens * price <= cost * TOKEN_UNIT
              /\ cost * TOKEN_UNIT <= tokens * price + (TOKEN_UNIT - 1)
<1> SUFFICES ASSUME raw_band_end(v.cursor, band_size(c)) \in U64
             PROVE  \E tokens, cost, price \in Nat :
                      /\ BuyBand(c, v) = Advance(v, cost, v.cursor + tokens, tokens, cost)
                      /\ cost <= v.remaining
                      /\ v.cursor + tokens <= c.token_supply
                      /\ c.floor_price_lamports <= price /\ price <= c.cap_price_lamports
                      /\ tokens * price <= cost * TOKEN_UNIT
                      /\ cost * TOKEN_UNIT <= tokens * price + (TOKEN_UNIT - 1)
  BY DEF BuyBand
<1> DEFINE price == price_at_supply(c, v.cursor)
           end == next_band_end(v.cursor, band_size(c), c.token_supply)
           most == (v.remaining * TOKEN_UNIT) \div price
           tokens == least(most, end - v.cursor)
           cost == ceil_div(tokens * price, TOKEN_UNIT)
<1> USE TokenUnitAssumption
<1>1. /\ price \in Nat \ {0}
      /\ c.floor_price_lamports <= price /\ price <= c.cap_price_lamports
  BY PriceInRange
<1>2. BuyBand(c, v) = Advance(v, cost, v.cursor + tokens, tokens, cost)
  BY DEF BuyBand, BuyAtPrice, PayFor, Affordable
<1>3. end \in Nat /\ v.cursor < end /\ end <= c.token_supply
  BY BandAhead
<1> HIDE DEF price, end
<1>4. most \in Nat
  <2>1. v.remaining * TOKEN_UNIT \in Nat
    BY ProductNat
  <2> QED
    BY <1>1, <2>1, Division
<1>5. tokens \in Nat /\ tokens <= most /\ v.cursor + tokens <= c.token_supply
  <2> HIDE DEF most
  <2> QED
    BY <1>3, <1>4 DEF least
<1> HIDE DEF tokens
<1>6. cost <= v.remaining
  BY <1>1, <1>5, BandCostAffordable
<1>7. tokens * price \in Nat
  BY <1>1, <1>5, ProductNat
<1>8. /\ cost \in Nat
      /\ tokens * price <= cost * TOKEN_UNIT
      /\ cost * TOKEN_UNIT <= tokens * price + (TOKEN_UNIT - 1)
  BY <1>7, CeilDivision
<1> HIDE DEF cost
<1>9. tokens \in Nat /\ cost \in Nat /\ price \in Nat
  BY <1>1, <1>5, <1>8
<1> QED
  BY <1>1, <1>2, <1>5, <1>6, <1>8, <1>9

(* A pass that sells: tokens of the band below, no more than are left to   *)
(* sell, at the price where that band starts, rounded down.                *)
LEMMA SellBandStep ==
  ASSUME NEW c \in SigmoidConfig, ValidSigmoid(c), band_size(c) \in Nat \ {0},
         NEW v \in Walk, v.remaining \in Nat, v.cursor \in Nat \ {0}
  PROVE  \E tokens, sol, price \in Nat :
           /\ SellBand(c, v) = Advance(v, tokens, v.cursor - tokens, tokens, sol)
           /\ tokens <= v.remaining
           /\ tokens <= v.cursor
           /\ c.floor_price_lamports <= price /\ price <= c.cap_price_lamports
           /\ sol * TOKEN_UNIT <= tokens * price
           /\ tokens * price <= sol * TOKEN_UNIT + (TOKEN_UNIT - 1)
<1> DEFINE start == previous_band_start(v.cursor, band_size(c))
           price == price_at_supply(c, start)
           tokens == least(v.remaining, v.cursor - start)
           sol == (tokens * price) \div TOKEN_UNIT
<1> USE TokenUnitAssumption
<1>1. start \in Nat /\ start < v.cursor
  BY BandBelow
<1>2. SellBand(c, v) = Advance(v, tokens, v.cursor - tokens, tokens, sol)
  BY DEF SellBand
<1> HIDE DEF start
<1>3. /\ price \in Nat
      /\ c.floor_price_lamports <= price /\ price <= c.cap_price_lamports
  BY <1>1, PriceInRange
<1> HIDE DEF price
<1>4. tokens \in Nat /\ tokens <= v.remaining /\ tokens <= v.cursor
  BY <1>1 DEF least
<1> HIDE DEF tokens
<1>5. tokens * price \in Nat
  BY <1>3, <1>4, ProductNat
<1>6. /\ sol \in Nat /\ sol * TOKEN_UNIT \in Nat
      /\ sol * TOKEN_UNIT <= tokens * price
      /\ tokens * price < sol * TOKEN_UNIT + TOKEN_UNIT
  BY <1>5, Division, ProductNat
<1>7. tokens * price <= sol * TOKEN_UNIT + (TOKEN_UNIT - 1)
  <2> HIDE DEF sol
  <2>1. ASSUME NEW i \in Nat, NEW j \in Nat, i < j + TOKEN_UNIT
        PROVE  i <= j + (TOKEN_UNIT - 1)
    BY <2>1
  <2> QED
    BY <1>5, <1>6, <2>1
<1> HIDE DEF sol
<1>8. tokens \in Nat /\ sol \in Nat /\ price \in Nat
  BY <1>3, <1>4, <1>6
<1> QED
  BY <1>2, <1>3, <1>4, <1>6, <1>7, <1>8
-----------------------------------------------------------------------------
(* A walk is a step taken again and again until a state where it ends; a   *)
(* measure that grows, up to a limit, bounds the steps.  The quotes of the *)
(* program and of the client are walks, defined as recursive functions:    *)
(* what is proved here once says that such a function exists and that what *)
(* every step keeps, the end of the walk has.                              *)

(* Among naturals there is always a least one.                             *)
LEMMA LeastNatural ==
  ASSUME NEW T \in SUBSET Nat, T # {}
  PROVE  \E n \in T : \A m \in T : n <= m
<1> DEFINE R == OpToRel(<, Nat)
<1>1. IsWellFoundedOn(R, Nat)
  BY NatLessThanWellFounded
<1>2. ASSUME NEW n \in Nat, NEW m \in Nat, m < n PROVE <<m, n>> \in R
  BY <1>2 DEF OpToRel
<1> HIDE DEF R
<1>3. PICK n \in T : \A m \in T : ~(<<m, n>> \in R)
  BY <1>1, WFMin
<1>4. ASSUME NEW m \in T PROVE n <= m
  <2>1. ~(m < n)
    BY <1>2, <1>3
  <2> QED
    BY <2>1
<1> QED
  BY <1>4

(* A set that holds zero, and the successor of every natural it holds,     *)
(* holds every natural: the induction that the lemmas on walks and on sums *)
(* use, for a set and not for a predicate.                                 *)
LEMMA Induction ==
  ASSUME NEW T, 0 \in T, \A n \in Nat : n \in T => n + 1 \in T
  PROVE  Nat \subseteq T
<1> SUFFICES ASSUME Nat \ T # {} PROVE FALSE
  OBVIOUS
<1>1. PICK n \in Nat \ T : \A m \in Nat \ T : n <= m
  BY LeastNatural
<1>2. n - 1 \in Nat /\ n - 1 \notin T
  BY <1>1
<1> QED
  BY <1>1, <1>2

(* Where a walk over S comes to from each state: E is where it ends.       *)
IsRun(run, S, E, next) == run = [v \in S |-> IF v \in E THEN v ELSE run[next[v]]]

(* Every step either ends the walk or raises the measure m, at most to M.  *)
IsWalk(S, E, next, m, M) ==
  /\ E \subseteq S /\ next \in [S -> S] /\ M \in Nat /\ m \in [S -> 0..M]
  /\ \A v \in S \ E : next[v] \in E \/ m[next[v]] > m[v]

(* A walk that is bounded so comes to somewhere from each state.           *)
LEMMA RunExists ==
  ASSUME NEW S, NEW E, NEW next, NEW m, NEW M, IsWalk(S, E, next, m, M)
  PROVE  \E run \in [S -> S] : IsRun(run, S, E, next)
<1> USE DEF IsWalk
<1> DEFINE Good(k, f) == \A v \in S : v \in E \/ m[v] > M - k =>
                            f[v] = IF v \in E THEN v ELSE f[next[v]]
           T == {k \in Nat : \E f \in [S -> S] : Good(k, f)}
<1>1. 0 \in T
  <2> DEFINE f == [v \in S |-> v]
  <2>1. f \in [S -> S] /\ Good(0, f)
    OBVIOUS
  <2> QED
    BY <2>1
<1>2. ASSUME NEW k \in Nat, k \in T PROVE k + 1 \in T
  <2>1. PICK f \in [S -> S] : Good(k, f)
    BY <1>2
  <2> DEFINE g == [v \in S |-> IF v \in E THEN v ELSE f[next[v]]]
  <2>2. g \in [S -> S]
    OBVIOUS
  <2>3. ASSUME NEW v \in S, v \in E \/ m[v] > M - (k + 1)
        PROVE  g[v] = IF v \in E THEN v ELSE g[next[v]]
    <3>1. CASE v \in E
      BY <3>1
    <3>2. CASE v \notin E
      <4>1. next[v] \in S /\ m[next[v]] \in 0..M /\ m[v] \in 0..M
        OBVIOUS
      <4>2. next[v] \in E \/ m[next[v]] > M - k
        BY <3>2, <2>3, <4>1
      <4>3. f[next[v]] = g[next[v]]
        BY <2>1, <4>1, <4>2
      <4> QED
        BY <3>2, <4>3
    <3> QED
      BY <3>1, <3>2
  <2>4. Good(k + 1, g)
    BY <2>3
  <2> HIDE DEF g
  <2>5. k + 1 \in Nat
    OBVIOUS
  <2> QED
    BY <2>2, <2>4, <2>5
<1>3. M + 1 \in T
  <2> HIDE DEF T
  <2> QED
    BY <1>1, <1>2, Induction
<1>4. PICK f \in [S -> S] : Good(M + 1, f)
  BY <1>3
<1>5. \A v \in S : f[v] = IF v \in E THEN v ELSE f[next[v]]
  <2>1. \A v \in S : m[v] > M - (M + 1)
    OBVIOUS
  <2> QED
    BY <1>4, <2>1
<1>6. f = [v \in S |-> IF v \in E THEN v ELSE f[next[v]]]
  BY <1>5
<1> QED
  BY <1>6 DEF IsRun

(* What every step keeps, the end of the walk has.                         *)
LEMMA RunKeeps ==
  ASSUME NEW S, NEW E, NEW next, NEW m, NEW M, IsWalk(S, E, next, m, M),
         NEW run, IsRun(run, S, E, next),
         NEW I \in SUBSET S, \A v \in I : v \notin E => next[v] \in I
  PROVE  \A v \in I : run[v] \in I /\ run[v] \in E
<1> USE DEF IsWalk
<1>1. \A v \in S : run[v] = IF v \in E THEN v ELSE run[next[v]]
  BY DEF IsRun
<1> DEFINE T == {k \in Nat : \A v \in I : v \in E \/ m[v] > M - k => run[v] \in I \cap E}
<1>2. 0 \in T
  BY <1>1
<1>3. ASSUME NEW k \in Nat, k \in T PROVE k + 1 \in T
  <2> SUFFICES ASSUME NEW v \in I, v \in E \/ m[v] > M - (k + 1)
               PROVE  run[v] \in I \cap E
    OBVIOUS
  <2>1. CASE v \in E
    BY <2>1, <1>1
  <2>2. CASE v \notin E
    <3>1. next[v] \in I /\ m[next[v]] \in 0..M /\ m[v] \in 0..M
      BY <2>2
    <3>2. next[v] \in E \/ m[next[v]] > M - k
      BY <2>2, <3>1
    <3> QED
      BY <1>1, <1>3, <2>2, <3>1, <3>2
  <2> QED
    BY <2>1, <2>2
<1>4. M + 1 \in T
  <2> HIDE DEF T
  <2> QED
    BY <1>2, <1>3, Induction
<1>5. \A v \in I : m[v] > M - (M + 1)
  OBVIOUS
<1> QED
  BY <1>4, <1>5

-----------------------------------------------------------------------------
(* The band of an accepted curve.                                          *)
LEMMA BandNat ==
  ASSUME NEW c \in SigmoidConfig
  PROVE  /\ c.token_supply \in Nat /\ c.band_bps \in Nat
         /\ c.floor_price_lamports \in Nat /\ c.cap_price_lamports \in Nat
         /\ band_size(c) \in Nat
<1>1. /\ c.token_supply \in Nat /\ c.band_bps \in Nat
      /\ c.floor_price_lamports \in Nat /\ c.cap_price_lamports \in Nat
  BY U64Assumption DEF SigmoidConfig, U64
<1>2. c.token_supply * c.band_bps \in Nat
  BY <1>1, ProductNat
<1> QED
  BY <1>1, <1>2, Division DEF band_size, BPS_DENOMINATOR

(* A pass of a loop that is not over leaves its variables in their types   *)
(* and, unless it overflows, counts one step.                              *)
LEMMA BuyBandTyped ==
  ASSUME NEW c \in SigmoidConfig, ValidSigmoid(c), band_size(c) # 0,
         NEW v \in Walk, ~BuyOver(c, v)
  PROVE  /\ BuyBand(c, v) \in Walk
         /\ BuyBand(c, v).ok => BuyBand(c, v).steps = v.steps + 1
<1>1. /\ v.remaining \in Nat /\ v.cursor \in Nat /\ v.cursor < c.token_supply
      /\ v.tokens \in Nat /\ v.sol \in Nat /\ v.steps \in Nat
      /\ v.steps + 1 \in 0..MAX_SIGMOID_STEPS
  BY BandNat, StepsAssumption DEF Walk, BuyOver
<1>2. CASE BuyBand(c, v) = [v EXCEPT !.ok = FALSE]
  BY <1>2 DEF Walk
<1>3. CASE BuyBand(c, v) # [v EXCEPT !.ok = FALSE]
  <2>1. PICK tokens \in Nat, cost \in Nat :
          /\ BuyBand(c, v) = Advance(v, cost, v.cursor + tokens, tokens, cost)
          /\ cost <= v.remaining
    BY <1>1, <1>3, BandNat, BuyBandStep
  <2>2. v.cursor + tokens \in Nat
    BY <1>1, <2>1
  <2> QED
    BY <1>1, <2>1, <2>2 DEF Advance, Walk
<1> QED
  BY <1>2, <1>3

(* The same of a pass of the sale loop, which cannot overflow.             *)
LEMMA SellBandTyped ==
  ASSUME NEW c \in SigmoidConfig, ValidSigmoid(c), band_size(c) # 0,
         NEW v \in Walk, ~SellOver(v)
  PROVE  /\ SellBand(c, v) \in Walk
         /\ SellBand(c, v).steps = v.steps + 1
<1>1. /\ v.remaining \in Nat /\ v.cursor \in Nat \ {0}
      /\ v.tokens \in Nat /\ v.sol \in Nat /\ v.steps \in Nat
      /\ v.steps + 1 \in 0..MAX_SIGMOID_STEPS
  BY StepsAssumption DEF Walk, SellOver
<1>2. PICK tokens \in Nat, sol \in Nat :
        /\ SellBand(c, v) = Advance(v, tokens, v.cursor - tokens, tokens, sol)
        /\ tokens <= v.remaining /\ tokens <= v.cursor
  BY <1>1, BandNat, SellBandStep
<1>3. v.cursor - tokens \in Nat
  BY <1>1, <1>2
<1> QED
  BY <1>1, <1>2, <1>3 DEF Advance, Walk

(* Where the two walks end, and their steps as functions.                  *)
BuyEnds(c) == {v \in Walk : BuyOver(c, v) \/ NothingAffordable(v, BuyBand(c, v))}
SellEnds == {v \in Walk : SellOver(v)}
Steps == [v \in Walk |-> v.steps]
BuyStep(c) == [v \in Walk |-> IF v \in BuyEnds(c) THEN v ELSE BuyBand(c, v)]
SellStep(c) == [v \in Walk |-> IF v \in SellEnds THEN v ELSE SellBand(c, v)]

(* Both are walks in the sense above: a step makes one more pass, and an   *)
(* overflow ends a buy.                                                    *)
LEMMA BuyIsWalk ==
  ASSUME NEW c \in SigmoidConfig, ValidSigmoid(c), band_size(c) # 0
  PROVE  IsWalk(Walk, BuyEnds(c), BuyStep(c), Steps, MAX_SIGMOID_STEPS)
<1>1. Steps \in [Walk -> 0..MAX_SIGMOID_STEPS]
  BY DEF Steps, Walk
<1>2. ASSUME NEW v \in Walk \ BuyEnds(c)
      PROVE  /\ BuyStep(c)[v] = BuyBand(c, v) /\ BuyBand(c, v) \in Walk
             /\ BuyBand(c, v) \in BuyEnds(c) \/ Steps[BuyBand(c, v)] > Steps[v]
  <2>1. ~BuyOver(c, v) /\ BuyStep(c)[v] = BuyBand(c, v)
    BY DEF BuyEnds, BuyStep
  <2>2. /\ BuyBand(c, v) \in Walk
        /\ BuyBand(c, v).ok => BuyBand(c, v).steps = v.steps + 1
    BY <2>1, BuyBandTyped
  <2>3. CASE BuyBand(c, v).ok
    BY <2>1, <2>2, <2>3, StepsAssumption DEF Steps, Walk
  <2>4. CASE ~BuyBand(c, v).ok
    BY <2>1, <2>2, <2>4 DEF BuyEnds, BuyOver
  <2> QED
    BY <2>1, <2>2, <2>3, <2>4
<1>3. BuyStep(c) \in [Walk -> Walk]
  <2>1. ASSUME NEW v \in Walk PROVE (IF v \in BuyEnds(c) THEN v ELSE BuyBand(c, v)) \in Walk
    BY <1>2
  <2> QED
    BY <2>1 DEF BuyStep
<1> QED
  BY <1>1, <1>2, <1>3, StepsAssumption DEF IsWalk, BuyEnds

(* A sale is a walk too.                                                   *)
LEMMA SellIsWalk ==
  ASSUME NEW c \in SigmoidConfig, ValidSigmoid(c), band_size(c) # 0
  PROVE  IsWalk(Walk, SellEnds, SellStep(c), Steps, MAX_SIGMOID_STEPS)
<1>1. Steps \in [Walk -> 0..MAX_SIGMOID_STEPS]
  BY DEF Steps, Walk
<1>2. ASSUME NEW v \in Walk \ SellEnds
      PROVE  /\ SellStep(c)[v] = SellBand(c, v) /\ SellBand(c, v) \in Walk
             /\ Steps[SellBand(c, v)] > Steps[v]
  <2>1. ~SellOver(v) /\ SellStep(c)[v] = SellBand(c, v)
    BY DEF SellEnds, SellStep
  <2>2. /\ SellBand(c, v) \in Walk
        /\ SellBand(c, v).steps = v.steps + 1
    BY <2>1, SellBandTyped
  <2> QED
    BY <2>1, <2>2, StepsAssumption DEF Steps, Walk
<1>3. SellStep(c) \in [Walk -> Walk]
  <2>1. ASSUME NEW v \in Walk PROVE (IF v \in SellEnds THEN v ELSE SellBand(c, v)) \in Walk
    BY <1>2
  <2> QED
    BY <2>1 DEF SellStep
<1> QED
  BY <1>1, <1>2, <1>3, StepsAssumption DEF IsWalk, SellEnds

(* The recursive function of the model is the run of this walk, the same   *)
(* for every supply and budget.                                            *)
LEMMA BuyWalksRun ==
  ASSUME NEW c \in SigmoidConfig, ValidSigmoid(c), band_size(c) # 0
  PROVE  \E run : /\ IsRun(run, Walk, BuyEnds(c), BuyStep(c))
                  /\ \A sold, sol_in :
                       BuyWalk(c, sold, sol_in) = run[WalkFrom(sold, sol_in)]
<1> DEFINE Recurs(f) == f = [w \in Walk |->
                          IF BuyOver(c, w) THEN w
                          ELSE LET next == BuyBand(c, w)
                               IN  IF NothingAffordable(w, next) THEN w ELSE f[next]]
<1>1. \A f : Recurs(f) <=> IsRun(f, Walk, BuyEnds(c), BuyStep(c))
  <2>1. ASSUME NEW f, NEW v \in Walk
        PROVE  (IF BuyOver(c, v) THEN v
                ELSE LET next == BuyBand(c, v)
                     IN  IF NothingAffordable(v, next) THEN v ELSE f[next])
               = IF v \in BuyEnds(c) THEN v ELSE f[BuyStep(c)[v]]
    BY DEF BuyEnds, BuyStep
  <2> QED
    BY <2>1 DEF IsRun
<1>2. \E f : Recurs(f)
  <2>1. \E f : IsRun(f, Walk, BuyEnds(c), BuyStep(c))
    BY BuyIsWalk, RunExists
  <2> QED
    BY <1>1, <2>1
<1>3. Recurs(CHOOSE f : Recurs(f))
  BY <1>2
<1>4. \A sold, sol_in :
        BuyWalk(c, sold, sol_in) = (CHOOSE f : Recurs(f))[WalkFrom(sold, sol_in)]
  BY DEF BuyWalk
<1> QED
  BY <1>1, <1>3, <1>4

(* One of them.                                                            *)
LEMMA BuyWalkRuns ==
  ASSUME NEW c \in SigmoidConfig, ValidSigmoid(c), band_size(c) # 0,
         NEW sold, NEW sol_in
  PROVE  \E run : /\ IsRun(run, Walk, BuyEnds(c), BuyStep(c))
                  /\ BuyWalk(c, sold, sol_in) = run[WalkFrom(sold, sol_in)]
BY BuyWalksRun

(* A sale's function is the run of its walk.                               *)
LEMMA SellWalkRuns ==
  ASSUME NEW c \in SigmoidConfig, ValidSigmoid(c), band_size(c) # 0,
         NEW sold, NEW tokens_in
  PROVE  \E run : /\ IsRun(run, Walk, SellEnds, SellStep(c))
                  /\ SellWalk(c, sold, tokens_in) = run[WalkFrom(sold, tokens_in)]
<1> DEFINE Recurs(f) == f = [w \in Walk |-> IF SellOver(w) THEN w ELSE f[SellBand(c, w)]]
<1>1. \A f : Recurs(f) <=> IsRun(f, Walk, SellEnds, SellStep(c))
  <2>1. ASSUME NEW f, NEW v \in Walk
        PROVE  (IF SellOver(v) THEN v ELSE f[SellBand(c, v)])
               = IF v \in SellEnds THEN v ELSE f[SellStep(c)[v]]
    BY DEF SellEnds, SellStep
  <2> QED
    BY <2>1 DEF IsRun
<1>2. \E f : Recurs(f)
  <2>1. \E f : IsRun(f, Walk, SellEnds, SellStep(c))
    BY SellIsWalk, RunExists
  <2> QED
    BY <1>1, <2>1
<1>3. Recurs(CHOOSE f : Recurs(f))
  BY <1>2
<1>4. SellWalk(c, sold, tokens_in) = (CHOOSE f : Recurs(f))[WalkFrom(sold, tokens_in)]
  BY DEF SellWalk
<1> QED
  BY <1>1, <1>3, <1>4

(* A buy is never quoted for more than was offered, and no more tokens     *)
(* than the curve has left.                                                *)
THEOREM BuyQuoteWithinBudget ==
  ASSUME NEW c \in SigmoidConfig, NEW sold \in Nat, NEW sol_in \in Nat
  PROVE  LET q == quote_sigmoid_buy(c, sold, sol_in)
         IN  /\ q.gross_sol \in Nat /\ q.gross_sol <= sol_in
             /\ q.amount_out \in Nat
             /\ sold <= c.token_supply => sold + q.amount_out <= c.token_supply
<1> DEFINE q == quote_sigmoid_buy(c, sold, sol_in)
<1>1. CASE sol_in = 0 \/ ~ValidSigmoid(c) \/ band_size(c) = 0
  BY <1>1, BandNat DEF quote_sigmoid_buy, NoQuote
<1>2. CASE ~(sol_in = 0 \/ ~ValidSigmoid(c) \/ band_size(c) = 0)
  <2> DEFINE I == {v \in Walk : /\ v.remaining + v.sol = sol_in
                                /\ v.cursor = sold + v.tokens
                                /\ sold <= c.token_supply => v.cursor <= c.token_supply}
             w == BuyWalk(c, sold, sol_in)
  <2>1. PICK run : /\ IsRun(run, Walk, BuyEnds(c), BuyStep(c))
                   /\ w = run[WalkFrom(sold, sol_in)]
    BY <1>2, BuyWalkRuns
  <2>2. WalkFrom(sold, sol_in) \in I
    BY StepsAssumption DEF WalkFrom, Walk
  <2>3. ASSUME NEW v \in I, v \notin BuyEnds(c) PROVE BuyStep(c)[v] \in I
    <3>1. v \in Walk /\ ~BuyOver(c, v) /\ BuyStep(c)[v] = BuyBand(c, v)
      BY <2>3 DEF BuyEnds, BuyStep
    <3>2. BuyBand(c, v) \in Walk
      BY <1>2, <3>1, BuyBandTyped
    <3>3. /\ v.remaining \in Nat /\ v.cursor \in Nat /\ v.tokens \in Nat /\ v.sol \in Nat
          /\ v.cursor < c.token_supply
      BY <3>1, BandNat DEF Walk, BuyOver
    <3>4. CASE BuyBand(c, v) = [v EXCEPT !.ok = FALSE]
      BY <2>3, <3>1, <3>2, <3>4 DEF Walk
    <3>5. CASE BuyBand(c, v) # [v EXCEPT !.ok = FALSE]
      <4>1. PICK tokens \in Nat, cost \in Nat :
              /\ BuyBand(c, v) = Advance(v, cost, v.cursor + tokens, tokens, cost)
              /\ v.cursor + tokens <= c.token_supply
        BY <1>2, <3>1, <3>3, <3>5, BandNat, BuyBandStep
      <4> QED
        BY <2>3, <3>1, <3>2, <3>3, <4>1 DEF Advance
    <3> QED
      BY <3>4, <3>5
  <2>4. w \in I
    <3> HIDE DEF I, w
    <3>1. I \subseteq Walk
      BY DEF I
    <3> QED
      BY <1>2, <2>1, <2>2, <2>3, <3>1, BuyIsWalk, RunKeeps
  <2>5. q = BuyQuote(w)
    BY <1>2 DEF quote_sigmoid_buy
  <2> HIDE DEF q, w
  <2>6. /\ w.remaining \in Nat /\ w.sol \in Nat /\ w.tokens \in Nat
        /\ w.remaining + w.sol = sol_in /\ w.cursor = sold + w.tokens
        /\ sold <= c.token_supply => w.cursor <= c.token_supply
    BY <2>4 DEF Walk
  <2>7. /\ q.gross_sol \in Nat /\ q.gross_sol <= sol_in
        /\ q.amount_out \in Nat
        /\ sold <= c.token_supply => sold + q.amount_out <= c.token_supply
    BY <2>5, <2>6 DEF BuyQuote, NoQuote
  <2> QED
    BY <2>7 DEF q
<1> QED
  BY <1>1, <1>2

-----------------------------------------------------------------------------
(* Sums over finite sets.  SumFunction takes the elements one by one as    *)
(* CHOOSE picks them; what is proved here is that their order is of no     *)
(* consequence: a sum is what one element gives and the sum of the others. *)

(* What holds of the empty set, and of a set with one more element when it *)
(* holds of the set, holds of every subset of a finite set.                *)
LEMMA FiniteInduction ==
  ASSUME NEW S, IsFiniteSet(S), NEW T, {} \in T,
         \A s \in SUBSET S : \A x \in S \ s : s \in T => s \cup {x} \in T
  PROVE  SUBSET S \subseteq T
<1> DEFINE N == {n \in Nat : \A s \in SUBSET S : Cardinality(s) = n => s \in T}
<1>1. \A s \in SUBSET S : IsFiniteSet(s) /\ Cardinality(s) \in Nat
  BY FS_Subset, FS_CardinalityType
<1>2. 0 \in N
  BY <1>1, FS_EmptySet
<1>3. ASSUME NEW n \in Nat, n \in N PROVE n + 1 \in N
  <2> SUFFICES ASSUME NEW s \in SUBSET S, Cardinality(s) = n + 1 PROVE s \in T
    OBVIOUS
  <2>1. IsFiniteSet(s) /\ s # {}
    <3>1. IsFiniteSet(s) /\ Cardinality(s) # 0
      BY <1>1
    <3> QED
      BY <3>1, FS_EmptySet
  <2>2. PICK x \in s : TRUE
    BY <2>1
  <2>3. Cardinality(s \ {x}) = n
    <3>1. Cardinality(s \ {x}) = Cardinality(s) - 1
      BY <2>1, <2>2, FS_RemoveElement
    <3> QED
      BY <3>1
  <2>4. s \ {x} \in T /\ s \ {x} \in SUBSET S
    BY <1>3, <2>3
  <2>5. (s \ {x}) \cup {x} = s /\ x \in S \ (s \ {x})
    BY <2>2
  <2>6. (s \ {x}) \cup {x} \in T
    BY <2>4, <2>5
  <2> QED
    BY <2>5, <2>6
<1>4. Nat \subseteq N
  <2> HIDE DEF N
  <2> QED
    BY <1>2, <1>3, Induction
<1> QED
  BY <1>1, <1>4

(* The element that is taken first.                                        *)
Pick(s) == CHOOSE x \in s : TRUE

(* The sums of f over the subsets of a finite set, as SumFunction forms    *)
(* them.                                                                   *)
IsSum(run, S, f) ==
  /\ IsFiniteSet(S) /\ f \in [S -> Nat]
  /\ run = [s \in SUBSET S |->
              IF s = {} THEN 0 ELSE f[Pick(s)] + run[s \ {Pick(s)}]]

(* There are such sums.                                                    *)
LEMMA SumExists ==
  ASSUME NEW S, IsFiniteSet(S), NEW f \in [S -> Nat]
  PROVE  \E run : IsSum(run, S, f)
<1> DEFINE Good(n, run) == \A s \in SUBSET S : Cardinality(s) < n =>
                             run[s] = IF s = {} THEN 0 ELSE f[Pick(s)] + run[s \ {Pick(s)}]
           N == {n \in Nat : \E run : Good(n, run)}
<1>1. \A s \in SUBSET S : IsFiniteSet(s) /\ Cardinality(s) \in Nat
  BY FS_Subset, FS_CardinalityType
<1>2. 0 \in N
  <2>1. Good(0, [s \in SUBSET S |-> 0])
    BY <1>1
  <2> QED
    BY <2>1
<1>3. ASSUME NEW n \in Nat, n \in N PROVE n + 1 \in N
  <2>1. PICK run : Good(n, run)
    BY <1>3
  <2> DEFINE more == [s \in SUBSET S |->
                        IF s = {} THEN 0 ELSE f[Pick(s)] + run[s \ {Pick(s)}]]
  <2>2. ASSUME NEW s \in SUBSET S, Cardinality(s) < n + 1
        PROVE  more[s] = IF s = {} THEN 0 ELSE f[Pick(s)] + more[s \ {Pick(s)}]
    <3>1. CASE s = {}
      BY <3>1
    <3>2. CASE s # {}
      <4> DEFINE t == s \ {Pick(s)}
      <4>1. Pick(s) \in s
        BY <3>2 DEF Pick
      <4>2. t \in SUBSET S /\ Cardinality(t) = Cardinality(s) - 1
        BY <1>1, <4>1, FS_RemoveElement
      <4>3. Cardinality(t) < n
        BY <1>1, <2>2, <4>2
      <4>4. run[t] = more[t]
        <5>1. run[t] = IF t = {} THEN 0 ELSE f[Pick(t)] + run[t \ {Pick(t)}]
          BY <2>1, <4>2, <4>3
        <5> HIDE DEF t
        <5> QED
          BY <5>1, <4>2
      <4> QED
        BY <3>2, <4>4
    <3> QED
      BY <3>1, <3>2
  <2>3. Good(n + 1, more)
    BY <2>2
  <2> HIDE DEF more
  <2>4. n + 1 \in Nat
    OBVIOUS
  <2> QED
    BY <2>3, <2>4
<1>4. Cardinality(S) + 1 \in N
  <2>1. Cardinality(S) + 1 \in Nat
    BY <1>1
  <2> HIDE DEF N
  <2> QED
    BY <1>2, <1>3, <2>1, Induction
<1>5. PICK run : Good(Cardinality(S) + 1, run)
  BY <1>4
<1>6. \A s \in SUBSET S : Cardinality(s) < Cardinality(S) + 1
  <2>1. \A s \in SUBSET S : Cardinality(s) <= Cardinality(S)
    BY FS_Subset
  <2> QED
    BY <1>1, <2>1
<1> DEFINE all == [s \in SUBSET S |-> run[s]]
<1>7. ASSUME NEW s \in SUBSET S
      PROVE  all[s] = IF s = {} THEN 0 ELSE f[Pick(s)] + all[s \ {Pick(s)}]
  BY <1>5, <1>6
<1>8. IsSum(all, S, f)
  BY <1>7 DEF IsSum
<1> QED
  BY <1>8

(* Whichever element of a set is taken, the sum is what it gives and the   *)
(* sum of the others.                                                      *)
LEMMA SumTakes ==
  ASSUME NEW S, NEW f, NEW run, IsSum(run, S, f)
  PROVE  /\ run[{}] = 0
         /\ \A s \in SUBSET S : /\ run[s] \in Nat
                                /\ \A x \in s : run[s] = f[x] + run[s \ {x}]
<1>0. IsFiniteSet(S) /\ f \in [S -> Nat]
  BY DEF IsSum
<1>1. \A s \in SUBSET S : run[s] = IF s = {} THEN 0 ELSE f[Pick(s)] + run[s \ {Pick(s)}]
  BY DEF IsSum
<1>2. \A s \in SUBSET S : IsFiniteSet(s) /\ Cardinality(s) \in Nat
  BY <1>0, FS_Subset, FS_CardinalityType
<1> DEFINE Good(s) == /\ run[s] \in Nat
                      /\ \A x \in s : run[s] = f[x] + run[s \ {x}]
           N == {n \in Nat : \A s \in SUBSET S : Cardinality(s) <= n => Good(s)}
<1>3. run[{}] = 0
  BY <1>1
<1>4. 0 \in N
  <2>1. ASSUME NEW s \in SUBSET S, Cardinality(s) <= 0 PROVE Good(s)
    <3>1. s = {}
      BY <1>2, <2>1, FS_EmptySet
    <3> QED
      BY <1>3, <3>1
  <2> QED
    BY <2>1
<1>5. ASSUME NEW n \in Nat, n \in N PROVE n + 1 \in N
  <2> SUFFICES ASSUME NEW s \in SUBSET S, Cardinality(s) <= n + 1 PROVE Good(s)
    OBVIOUS
  <2>1. CASE s = {}
    BY <1>3, <2>1
  <2>2. CASE s # {}
    <3> DEFINE y == Pick(s)
    <3>1. y \in s
      BY <2>2 DEF Pick
    <3>2. run[s] = f[y] + run[s \ {y}]
      BY <1>1, <2>2
    <3> HIDE DEF y
    <3>3. ASSUME NEW x \in s PROVE s \ {x} \in SUBSET S /\ Good(s \ {x})
      <4>1. Cardinality(s \ {x}) = Cardinality(s) - 1
        BY <1>2, FS_RemoveElement
      <4>2. Cardinality(s \ {x}) <= n
        BY <1>2, <4>1
      <4> QED
        BY <1>5, <4>2
    <3>4. run[s] \in Nat
      <4>1. f[y] \in Nat
        BY <1>0, <3>1
      <4>2. run[s \ {y}] \in Nat
        BY <3>1, <3>3
      <4> QED
        BY <3>2, <4>1, <4>2
    <3>5. ASSUME NEW x \in s PROVE run[s] = f[x] + run[s \ {x}]
      <4>1. CASE x = y
        BY <3>2, <4>1
      <4>2. CASE x # y
        <5> DEFINE rest == (s \ {y}) \ {x}
        <5>1. run[s \ {y}] = f[x] + run[rest]
          BY <3>1, <3>3, <4>2
        <5>2. run[s \ {x}] = f[y] + run[(s \ {x}) \ {y}]
          BY <3>1, <3>3, <4>2
        <5>3. (s \ {x}) \ {y} = rest
          OBVIOUS
        <5>4. run[rest] \in Nat
          <6>1. rest \in SUBSET S
            OBVIOUS
          <6>2. Cardinality(rest) <= n
            <7>1. Cardinality(s \ {y}) = Cardinality(s) - 1
              BY <1>2, <3>1, FS_RemoveElement
            <7>2. Cardinality(rest) = Cardinality(s \ {y}) - 1
              BY <1>2, <3>1, <4>2, FS_RemoveElement
            <7>3. Cardinality(s) \in Nat
              BY <1>2
            <7> HIDE DEF rest
            <7> QED
              BY <7>1, <7>2, <7>3
          <6> HIDE DEF rest
          <6> QED
            BY <1>5, <6>1, <6>2
        <5>5. f[x] \in Nat /\ f[y] \in Nat
          BY <1>0, <3>1
        <5>6. ASSUME NEW i \in Nat, NEW j \in Nat, NEW k \in Nat
              PROVE  i + (j + k) = j + (i + k)
          OBVIOUS
        <5>7. f[y] + (f[x] + run[rest]) = f[x] + (f[y] + run[rest])
          BY <5>4, <5>5, <5>6
        <5> HIDE DEF rest
        <5> QED
          BY <3>2, <5>1, <5>2, <5>3, <5>7
      <4> QED
        BY <4>1, <4>2
    <3> QED
      BY <3>4, <3>5
  <2> QED
    BY <2>1, <2>2
<1>6. Nat \subseteq N
  <2> HIDE DEF N
  <2> QED
    BY <1>4, <1>5, Induction
<1>7. ASSUME NEW s \in SUBSET S PROVE Good(s)
  <2>1. Cardinality(s) \in N /\ Cardinality(s) <= Cardinality(s)
    <3>1. Cardinality(s) \in Nat
      BY <1>2
    <3> HIDE DEF N
    <3> QED
      BY <1>6, <3>1
  <2>2. \A t \in SUBSET S : Cardinality(t) <= Cardinality(s) => Good(t)
    <3> HIDE DEF Good
    <3> QED
      BY <2>1
  <2> HIDE DEF Good, N
  <2> QED
    BY <2>1, <2>2
<1> QED
  BY <1>3, <1>7

(* So it is for any one element.                                           *)
LEMMA SumTakesOne ==
  ASSUME NEW S, NEW f, NEW run, IsSum(run, S, f), NEW s \in SUBSET S, NEW x \in s
  PROVE  run[s] = f[x] + run[s \ {x}] /\ run[s] \in Nat
BY SumTakes

(* Sums of functions that agree on a set agree there.                      *)
LEMMA SumsAgree ==
  ASSUME NEW S, NEW f, NEW run, IsSum(run, S, f),
         NEW R, NEW g, NEW other, IsSum(other, R, g),
         NEW A, A \subseteq S, A \subseteq R, \A x \in A : f[x] = g[x]
  PROVE  run[A] = other[A]
<1> DEFINE T == {s \in SUBSET A : run[s] = other[s]}
<1>1. {} \in T
  BY SumTakes
<1>2. ASSUME NEW s \in SUBSET A, NEW x \in A \ s, s \in T PROVE s \cup {x} \in T
  <2>1. s \cup {x} \in SUBSET S /\ s \cup {x} \in SUBSET R /\ (s \cup {x}) \ {x} = s
    OBVIOUS
  <2>2. run[s \cup {x}] = f[x] + run[(s \cup {x}) \ {x}]
    BY <2>1, SumTakes
  <2>3. other[s \cup {x}] = g[x] + other[(s \cup {x}) \ {x}]
    BY <2>1, SumTakes
  <2> QED
    BY <1>2, <2>1, <2>2, <2>3
<1>3. IsFiniteSet(A)
  BY FS_Subset DEF IsSum
<1>4. SUBSET A \subseteq T
  <2> HIDE DEF T
  <2> QED
    BY <1>1, <1>2, <1>3, FiniteInduction
<1> QED
  BY <1>4

(* SumFunction is the last of these sums.                                  *)
LEMMA SumIsLast ==
  ASSUME NEW S, IsFiniteSet(S), NEW f \in [S -> Nat]
  PROVE  \E run : IsSum(run, S, f) /\ SumFunction(f) = run[S]
<1> DEFINE Recurs(run) ==
             run = [s \in SUBSET DOMAIN f |->
                      IF s = {} THEN 0
                      ELSE LET x == CHOOSE x \in s : TRUE IN f[x] + run[s \ {x}]]
<1>1. ASSUME NEW run PROVE Recurs(run) <=> IsSum(run, S, f)
  BY DEF IsSum, Pick
<1>2. \E run : Recurs(run)
  <2>1. PICK run : IsSum(run, S, f)
    BY SumExists
  <2>2. Recurs(run)
    BY <1>1, <2>1
  <2> HIDE DEF Recurs
  <2> QED
    BY <2>2
<1>3. Recurs(CHOOSE run : Recurs(run))
  BY <1>2
<1>4. SumFunction(f) = (CHOOSE run : Recurs(run))[DOMAIN f]
  BY DEF SumFunction, SumFunctionOnSet, FoldFunctionOnSet, MapThenFoldSet
<1> QED
  BY <1>1, <1>3, <1>4

(* The sum of nothing is zero, and a sum of naturals a natural.            *)
LEMMA SumIsNat ==
  ASSUME NEW S, IsFiniteSet(S), NEW f \in [S -> Nat]
  PROVE  SumFunction(f) \in Nat /\ (S = {} => SumFunction(f) = 0)
<1>1. PICK run : IsSum(run, S, f) /\ SumFunction(f) = run[S]
  BY SumIsLast
<1>2. run[{}] = 0 /\ \A s \in SUBSET S : run[s] \in Nat
  BY <1>1, SumTakes
<1> QED
  BY <1>1, <1>2

(* When one element is new, or gives something else than before, the sum   *)
(* changes by as much.                                                     *)
LEMMA SumChanges ==
  ASSUME NEW S, IsFiniteSet(S), NEW f \in [S -> Nat],
         NEW x, NEW g \in [S \cup {x} -> Nat], \A y \in S \ {x} : g[y] = f[y]
  PROVE  SumFunction(g) + (IF x \in S THEN f[x] ELSE 0) = SumFunction(f) + g[x]
<1> DEFINE R == S \cup {x}
           A == S \ {x}
<1>1. PICK run : IsSum(run, S, f) /\ SumFunction(f) = run[S]
  BY SumIsLast
<1>3. IsFiniteSet(R)
  BY FS_AddElement
<1>2. PICK other : IsSum(other, R, g) /\ SumFunction(g) = other[R]
  BY <1>3, SumIsLast
<1>4. /\ x \in R /\ R \ {x} = A /\ A \subseteq S /\ A \subseteq R
      /\ g[x] \in Nat
  OBVIOUS
<1>5. other[R] = g[x] + other[A] /\ other[R] \in Nat /\ other[A] \in Nat
  <2>1. g \in [R -> Nat] /\ R \in SUBSET R /\ A \in SUBSET R
    OBVIOUS
  <2> HIDE DEF A, R
  <2>2. other[A] \in Nat
    BY <1>2, <1>3, <2>1, SumTakes
  <2>3. other[R] = g[x] + other[R \ {x}] /\ other[R] \in Nat
    BY <1>2, <1>3, <1>4, <2>1, SumTakesOne
  <2> QED
    BY <1>4, <2>2, <2>3
<1>6. run[A] = other[A]
  BY <1>1, <1>2, <1>3, <1>4, SumsAgree
<1>7. run[S] \in Nat /\ (x \in S => run[S] = f[x] + run[A] /\ f[x] \in Nat)
  <2>1. \A s \in SUBSET S : run[s] \in Nat /\ \A y \in s : run[s] = f[y] + run[s \ {y}]
    BY <1>1, SumTakes
  <2> QED
    BY <2>1
<1>8. x \notin S => A = S
  OBVIOUS
<1> HIDE DEF A, R
<1> QED
  BY <1>1, <1>2, <1>4, <1>5, <1>6, <1>7, <1>8

(* The part in C of a set with one more element.                           *)
LEMMA SumOnPart ==
  ASSUME NEW C, NEW f, NEW run, IsSum(run, C, f), NEW s, NEW x, x \notin s
  PROVE  /\ run[(s \cup {x}) \cap C] = run[s \cap C] + (IF x \in C THEN f[x] ELSE 0)
         /\ run[s \cap C] \in Nat
<1> DEFINE t == (s \cup {x}) \cap C
<1>1. run[s \cap C] \in Nat
  BY SumTakes
<1> SUFFICES run[t] = run[s \cap C] + (IF x \in C THEN f[x] ELSE 0)
  BY <1>1
<1>2. CASE x \in C
  <2>1. t \in SUBSET C /\ x \in t /\ t \ {x} = s \cap C
    BY <1>2
  <2>2. f[x] \in Nat
    BY <1>2 DEF IsSum
  <2>3. run[t] = f[x] + run[t \ {x}]
    <3> HIDE DEF t
    <3> QED
      BY <2>1, SumTakesOne
  <2>4. run[t] = run[s \cap C] + f[x]
    <3>1. run[t \ {x}] = run[s \cap C]
      BY <2>1
    <3>2. ASSUME NEW i \in Nat, NEW j \in Nat PROVE i + j = j + i
      OBVIOUS
    <3>3. f[x] + run[s \cap C] = run[s \cap C] + f[x]
      BY <1>1, <2>2, <3>2
    <3> HIDE DEF t
    <3> QED
      BY <2>3, <3>1, <3>3
  <2> QED
    BY <1>2, <2>4
<1>3. CASE x \notin C
  <2>1. t = s \cap C
    BY <1>3
  <2>2. run[s \cap C] + 0 = run[s \cap C]
    BY <1>1
  <2>3. run[t] = run[s \cap C] + 0
    BY <2>1, <2>2
  <2> QED
    BY <1>3, <2>3
<1> QED
  BY <1>1, <1>2, <1>3

(* What is nowhere more in the parts than in the whole is not more in sum. *)
LEMMA SumsAtMost ==
  ASSUME NEW S, IsFiniteSet(S), NEW h \in [S -> Nat],
         NEW A, A \subseteq S, NEW f \in [A -> Nat],
         NEW B, B \subseteq S, NEW g \in [B -> Nat],
         \A x \in S : (IF x \in A THEN f[x] ELSE 0) + (IF x \in B THEN g[x] ELSE 0) <= h[x]
  PROVE  SumFunction(f) + SumFunction(g) <= SumFunction(h)
<1>1. IsFiniteSet(A) /\ IsFiniteSet(B)
  BY FS_Subset
<1>2. PICK run : IsSum(run, A, f) /\ SumFunction(f) = run[A]
  BY <1>1, SumIsLast
<1>3. PICK other : IsSum(other, B, g) /\ SumFunction(g) = other[B]
  BY <1>1, SumIsLast
<1>4. PICK all : IsSum(all, S, h) /\ SumFunction(h) = all[S]
  BY SumIsLast
<1> DEFINE T == {s \in SUBSET S : run[s \cap A] + other[s \cap B] <= all[s]}
<1>5. {} \in T
  <2>1. run[{}] = 0 /\ other[{}] = 0 /\ all[{}] = 0
    BY <1>1, <1>2, <1>3, <1>4, SumTakes
  <2>2. {} \cap A = {} /\ {} \cap B = {}
    OBVIOUS
  <2> QED
    BY <2>1, <2>2
<1>6. ASSUME NEW s \in SUBSET S, NEW x \in S \ s, s \in T PROVE s \cup {x} \in T
  <2> DEFINE t == s \cup {x}
  <2>1. /\ run[t \cap A] = run[s \cap A] + (IF x \in A THEN f[x] ELSE 0)
        /\ run[s \cap A] \in Nat
    BY <1>2, SumOnPart
  <2>2. /\ other[t \cap B] = other[s \cap B] + (IF x \in B THEN g[x] ELSE 0)
        /\ other[s \cap B] \in Nat
    BY <1>3, SumOnPart
  <2>3. all[t] = h[x] + all[s] /\ all[s] \in Nat /\ h[x] \in Nat
    <3>1. t \in SUBSET S /\ x \in t /\ t \ {x} = s
      OBVIOUS
    <3>2. all[t] = h[x] + all[t \ {x}]
      <4> HIDE DEF t
      <4> QED
        BY <1>4, <3>1, SumTakesOne
    <3> QED
      BY <1>4, <3>1, <3>2, SumTakes
  <2>4. /\ (IF x \in A THEN f[x] ELSE 0) \in Nat /\ (IF x \in B THEN g[x] ELSE 0) \in Nat
        /\ (IF x \in A THEN f[x] ELSE 0) + (IF x \in B THEN g[x] ELSE 0) <= h[x]
        /\ run[s \cap A] + other[s \cap B] <= all[s]
    BY <1>6
  <2>5. t \in SUBSET S
    OBVIOUS
  <2>6. ASSUME NEW a \in Nat, NEW b \in Nat, NEW c \in Nat,
               NEW i \in Nat, NEW j \in Nat, NEW k \in Nat, a + b <= c, i + j <= k
        PROVE  (a + i) + (b + j) <= k + c
    BY <2>6
  <2>7. run[t \cap A] + other[t \cap B] <= all[t]
    <3> HIDE DEF t
    <3> QED
      BY <2>1, <2>2, <2>3, <2>4, <2>6
  <2> QED
    BY <2>5, <2>7
<1>7. S \in T
  <2>1. \A s \in SUBSET S : \A x \in S \ s : s \in T => s \cup {x} \in T
    BY <1>6
  <2> HIDE DEF T
  <2>2. SUBSET S \subseteq T
    BY ONLY IsFiniteSet(S), <1>5, <2>1, FiniteInduction
  <2> QED
    BY <2>2
<1>8. S \cap A = A /\ S \cap B = B
  OBVIOUS
<1> QED
  BY <1>2, <1>3, <1>4, <1>7, <1>8

(* A sum of zeros is zero.                                                 *)
LEMMA SumOfZeros ==
  ASSUME NEW S, IsFiniteSet(S), NEW f \in [S -> Nat], \A x \in S : f[x] = 0
  PROVE  SumFunction(f) = 0
<1>1. SumFunction(f) + SumFunction(f) <= SumFunction(f)
  <2>1. \A x \in S : (IF x \in S THEN f[x] ELSE 0) + (IF x \in S THEN f[x] ELSE 0) <= f[x]
    OBVIOUS
  <2>2. S \subseteq S
    OBVIOUS
  <2> QED
    BY ONLY IsFiniteSet(S), f \in [S -> Nat], <2>1, <2>2, SumsAtMost
<1>2. SumFunction(f) \in Nat
  BY SumIsNat
<1> QED
  BY <1>1, <1>2

-----------------------------------------------------------------------------
(* The client's loops.  They always make every pass; one that has nothing  *)
(* left to do leaves all but its count as it was.                          *)

LoopEnds == {s \in Loops : s.i = MAX_SIGMOID_STEPS}
LoopCounts == [s \in Loops |-> s.i]
BuyPasses(c) == [s \in Loops |-> IF s \in LoopEnds THEN s ELSE buyPass(c, s)]
SellPassesOf(c) == [s \in Loops |-> IF s \in LoopEnds THEN s ELSE sellPass(c, s)]

(* A loop whose passes count one and keep the types is a walk.             *)
LEMMA LoopIsWalk ==
  ASSUME NEW next \in [Loops -> Loops], \A s \in Loops \ LoopEnds : next[s].i = s.i + 1
  PROVE  IsWalk(Loops, LoopEnds, next, LoopCounts, MAX_SIGMOID_STEPS)
<1>1. LoopCounts \in [Loops -> 0..MAX_SIGMOID_STEPS]
  BY DEF LoopCounts, Loops
<1>2. ASSUME NEW s \in Loops \ LoopEnds PROVE LoopCounts[next[s]] > LoopCounts[s]
  <2>1. s \in Loops /\ next[s] \in Loops /\ next[s].i = s.i + 1
    OBVIOUS
  <2>2. s.i \in 0..MAX_SIGMOID_STEPS
    BY <2>1 DEF Loops
  <2>3. LoopCounts[s] = s.i /\ LoopCounts[next[s]] = next[s].i
    BY <2>1 DEF LoopCounts
  <2> QED
    BY ONLY <2>1, <2>2, <2>3, StepsAssumption
<1> QED
  BY <1>1, <1>2, StepsAssumption DEF IsWalk, LoopEnds

(* The client's price is the program's: capping the eased distance before  *)
(* the smoothing and not in it makes no difference.                        *)
LEMMA SamePrice ==
  ASSUME NEW c \in SigmoidConfig, ValidSigmoid(c), NEW supply \in Nat
  PROVE  priceAtSupply(c, supply) = price_at_supply(c, supply)
<1>1. ASSUME NEW a \in Nat
      PROVE  smoothstepBps(least(a, BPS_DENOMINATOR)) = smoothstep_bps(a)
  <2>1. least(least(a, BPS_DENOMINATOR), BPS_DENOMINATOR) = least(a, BPS_DENOMINATOR)
    BY DEF least
  <2>2. least(a, BPS_DENOMINATOR) \in Nat
    BY DEF least, BPS_DENOMINATOR
  <2>3. ASSUME NEW t \in Nat
        PROVE  /\ 3 * (t * t) = 3 * t * t
               /\ 2 * (t * t) = 2 * t * t
    BY SMTT(30)
  <2> QED
    BY <2>1, <2>2, <2>3 DEF smoothstepBps, smoothstep_bps
<1> DEFINE supplied == least(supply, c.token_supply)
<1>2. /\ c.token_supply \in Nat /\ c.midpoint_supply \in Nat \ {0}
      /\ c.steepness_bps \in Nat /\ c.midpoint_supply < c.token_supply
      /\ supplied \in Nat
  BY U64Assumption DEF SigmoidConfig, U64, ValidSigmoid, least
<1>3. ASSUME NEW distance \in Nat, NEW side \in Nat \ {0}
      PROVE  (((distance * BPS_DENOMINATOR) \div side) * c.steepness_bps)
                \div BPS_DENOMINATOR \in Nat
  <2>1. distance * BPS_DENOMINATOR \in Nat
    BY DEF BPS_DENOMINATOR
  <2>2. (distance * BPS_DENOMINATOR) \div side \in Nat
    BY <2>1, Division
  <2>3. ((distance * BPS_DENOMINATOR) \div side) * c.steepness_bps \in Nat
    BY <1>2, <2>2, ProductNat
  <2> QED
    BY <2>3, Division DEF BPS_DENOMINATOR
<1> HIDE DEF supplied
<1>4. CASE supplied < c.midpoint_supply
  <2>1. c.midpoint_supply - supplied \in Nat
    BY <1>2, <1>4
  <2>2. smoothstepBps(least(((((c.midpoint_supply - supplied) * BPS_DENOMINATOR)
            \div c.midpoint_supply) * c.steepness_bps) \div BPS_DENOMINATOR, BPS_DENOMINATOR))
        = smoothstep_bps(((((c.midpoint_supply - supplied) * BPS_DENOMINATOR)
            \div c.midpoint_supply) * c.steepness_bps) \div BPS_DENOMINATOR)
    BY <1>1, <1>2, <1>3, <2>1
  <2> QED
    BY <1>4, <2>2 DEF priceAtSupply, price_at_supply, sigmoid_bps, half_eased, supplied
<1>5. CASE ~(supplied < c.midpoint_supply)
  <2> DEFINE side == c.token_supply - c.midpoint_supply
  <2>1. supplied - c.midpoint_supply \in Nat /\ side \in Nat \ {0}
    BY <1>2, <1>5
  <2>2. smoothstepBps(least(((((supplied - c.midpoint_supply) * BPS_DENOMINATOR)
            \div side) * c.steepness_bps) \div BPS_DENOMINATOR, BPS_DENOMINATOR))
        = smoothstep_bps(((((supplied - c.midpoint_supply) * BPS_DENOMINATOR)
            \div side) * c.steepness_bps) \div BPS_DENOMINATOR)
    <3> HIDE DEF side
    <3> QED
      BY <1>1, <1>3, <2>1
  <2> QED
    BY <1>5, <2>2 DEF priceAtSupply, price_at_supply, sigmoid_bps, half_eased, supplied
<1> QED
  BY <1>4, <1>5

(* A pass of the client's buy and of the program's, from the same budget   *)
(* and cursor: the same tokens for the same cost.                          *)
LEMMA BuyPassStep ==
  ASSUME NEW c \in SigmoidConfig, ValidSigmoid(c), band_size(c) \in Nat \ {0},
         c.token_supply \in Nat,
         NEW s \in Loops, s.remaining \in Nat \ {0}, s.cursor \in Nat,
         s.cursor < c.token_supply
  PROVE  \E tokens, cost \in Nat :
           /\ buyPass(c, s) = Pass(s, cost, s.cursor + tokens, tokens)
           /\ cost <= s.remaining
           /\ tokens = 0 => cost = 0
           /\ \A v \in Walk : v.remaining = s.remaining /\ v.cursor = s.cursor =>
                BuyBand(c, v) = IF raw_band_end(s.cursor, band_size(c)) \notin U64
                                THEN [v EXCEPT !.ok = FALSE]
                                ELSE Advance(v, cost, v.cursor + tokens, tokens, cost)
<1> DEFINE price == price_at_supply(c, s.cursor)
           end == next_band_end(s.cursor, band_size(c), c.token_supply)
           most == (s.remaining * TOKEN_UNIT) \div price
           tokens == least(most, end - s.cursor)
           cost == ceil_div(tokens * price, TOKEN_UNIT)
<1> USE TokenUnitAssumption
<1>1. price \in Nat \ {0}
  BY PriceInRange
<1>2. end \in Nat /\ s.cursor < end
  BY BandAhead
<1>3. \A v \in Walk : v.remaining = s.remaining /\ v.cursor = s.cursor =>
        BuyBand(c, v) = IF raw_band_end(s.cursor, band_size(c)) \notin U64
                        THEN [v EXCEPT !.ok = FALSE]
                        ELSE Advance(v, cost, v.cursor + tokens, tokens, cost)
  BY DEF BuyBand, BuyAtPrice, PayFor, Affordable
<1>4. buyPass(c, s) = Purchase(s, price, tokens)
  <2>1. ~(s.remaining = 0 \/ s.cursor >= c.token_supply)
    OBVIOUS
  <2>2. priceAtSupply(c, s.cursor) = price
    BY SamePrice
  <2>3. nextBandEnd(s.cursor, bandSize(c), c.token_supply) = end
    BY DEF nextBandEnd, bandSize, next_band_end, raw_band_end, band_size
  <2> HIDE DEF price, end
  <2> QED
    BY <2>1, <2>2, <2>3 DEF buyPass
<1> HIDE DEF price, end
<1>5. most \in Nat
  <2>1. s.remaining * TOKEN_UNIT \in Nat
    BY ProductNat
  <2> QED
    BY <1>1, <2>1, Division
<1>6. tokens \in Nat /\ tokens <= most
  <2> HIDE DEF most
  <2> QED
    BY <1>2, <1>5 DEF least
<1> HIDE DEF tokens
<1>7. cost <= s.remaining
  BY <1>1, <1>6, BandCostAffordable
<1>8. tokens * price \in Nat
  BY <1>1, <1>6, ProductNat
<1>9. cost \in Nat
  BY <1>8, CeilDivision
<1>10. ceilDiv(tokens * price, TOKEN_UNIT) = cost
  <2>1. ASSUME NEW n \in Nat
        PROVE  n + (TOKEN_UNIT - 1) = n + TOKEN_UNIT - 1
    OBVIOUS
  <2> QED
    BY <1>8, <2>1 DEF ceilDiv, ceil_div
<1>11. tokens = 0 => cost = 0
  <2> SUFFICES ASSUME tokens = 0 PROVE cost = 0
    OBVIOUS
  <2>1. tokens * price = 0
    BY <1>1
  <2>2. (TOKEN_UNIT - 1) \div TOKEN_UNIT = 0
    <3>1. TOKEN_UNIT - 1 \in Nat /\ 0 <= TOKEN_UNIT - 1 /\ TOKEN_UNIT - 1 < TOKEN_UNIT
      OBVIOUS
    <3>2. 0 * TOKEN_UNIT = 0
      OBVIOUS
    <3> QED
      BY <3>1, <3>2, DivisionUnique
  <2>3. 0 + TOKEN_UNIT - 1 = TOKEN_UNIT - 1
    OBVIOUS
  <2> QED
    BY <2>1, <2>2, <2>3 DEF ceil_div
<1> HIDE DEF cost
<1>12. buyPass(c, s) = Pass(s, cost, s.cursor + tokens, tokens)
  BY <1>4, <1>10 DEF Purchase
<1> QED
  BY <1>3, <1>6, <1>7, <1>9, <1>11, <1>12

(* The same of a sale.                                                     *)
LEMMA SellPassStep ==
  ASSUME NEW c \in SigmoidConfig, ValidSigmoid(c), band_size(c) \in Nat \ {0},
         NEW s \in Loops, s.remaining \in Nat \ {0}, s.cursor \in Nat \ {0}
  PROVE  \E tokens, sol \in Nat :
           /\ sellPass(c, s) = Pass(s, tokens, s.cursor - tokens, sol)
           /\ tokens <= s.remaining /\ tokens <= s.cursor
           /\ \A v \in Walk : v.remaining = s.remaining /\ v.cursor = s.cursor =>
                SellBand(c, v) = Advance(v, tokens, v.cursor - tokens, tokens, sol)
<1> DEFINE start == previous_band_start(s.cursor, band_size(c))
           price == price_at_supply(c, start)
           tokens == least(s.remaining, s.cursor - start)
           sol == (tokens * price) \div TOKEN_UNIT
<1> USE TokenUnitAssumption
<1>1. start \in Nat /\ start < s.cursor
  BY BandBelow
<1>2. \A v \in Walk : v.remaining = s.remaining /\ v.cursor = s.cursor =>
        SellBand(c, v) = Advance(v, tokens, v.cursor - tokens, tokens, sol)
  BY DEF SellBand
<1>3. sellPass(c, s) = Pass(s, tokens, s.cursor - tokens, sol)
  <2>1. previousBandStart(s.cursor, bandSize(c)) = start
    BY DEF previousBandStart, previous_band_start, bandSize, band_size
  <2>2. priceAtSupply(c, start) = price
    BY <1>1, SamePrice
  <2> HIDE DEF start, price
  <2> QED
    BY <2>1, <2>2 DEF sellPass
<1> HIDE DEF start
<1>4. price \in Nat
  BY <1>1, PriceInRange
<1> HIDE DEF price
<1>5. tokens \in Nat /\ tokens <= s.remaining /\ tokens <= s.cursor
  BY <1>1 DEF least
<1> HIDE DEF tokens
<1>6. sol \in Nat
  BY <1>4, <1>5, ProductNat, Division
<1> HIDE DEF sol
<1> QED
  BY <1>2, <1>3, <1>5, <1>6

(* Both loops are walks of this kind.                                      *)
LEMMA BuyLoopWalks ==
  ASSUME NEW c \in SigmoidConfig, ValidSigmoid(c), band_size(c) # 0
  PROVE  /\ \A s \in Loops \ LoopEnds : buyPass(c, s) \in Loops /\ buyPass(c, s).i = s.i + 1
         /\ IsWalk(Loops, LoopEnds, BuyPasses(c), LoopCounts, MAX_SIGMOID_STEPS)
<1>1. ASSUME NEW s \in Loops \ LoopEnds
      PROVE  buyPass(c, s) \in Loops /\ buyPass(c, s).i = s.i + 1
  <2>1. /\ s.i \in 0..MAX_SIGMOID_STEPS /\ s.i # MAX_SIGMOID_STEPS
        /\ s.remaining \in Nat /\ s.cursor \in Nat /\ s.out \in Nat
    BY DEF Loops, LoopEnds
  <2>2. s.i + 1 \in 0..MAX_SIGMOID_STEPS
    BY <2>1, StepsAssumption
  <2>3. CASE s.remaining = 0 \/ s.cursor >= c.token_supply
    BY <2>1, <2>2, <2>3 DEF buyPass, Pass, Loops
  <2>4. CASE ~(s.remaining = 0 \/ s.cursor >= c.token_supply)
    <3>1. PICK tokens \in Nat, cost \in Nat :
            /\ buyPass(c, s) = Pass(s, cost, s.cursor + tokens, tokens)
            /\ cost <= s.remaining
      <4>1. s.remaining \in Nat \ {0} /\ s.cursor < c.token_supply
        BY <2>1, <2>4, BandNat
      <4> QED
        BY <2>1, <4>1, BandNat, BuyPassStep
    <3> QED
      BY <2>1, <2>2, <3>1 DEF Pass, Loops
  <2> QED
    BY <2>3, <2>4
<1>2. BuyPasses(c) \in [Loops -> Loops]
  <2>1. ASSUME NEW s \in Loops PROVE (IF s \in LoopEnds THEN s ELSE buyPass(c, s)) \in Loops
    BY <1>1
  <2> QED
    BY <2>1 DEF BuyPasses
<1>3. \A s \in Loops \ LoopEnds : BuyPasses(c)[s].i = s.i + 1
  BY <1>1 DEF BuyPasses
<1> QED
  BY <1>1, <1>2, <1>3, LoopIsWalk

(* The client's sale loop is a walk as well.                               *)
LEMMA SellLoopWalks ==
  ASSUME NEW c \in SigmoidConfig, ValidSigmoid(c), band_size(c) # 0
  PROVE  /\ \A s \in Loops \ LoopEnds : sellPass(c, s) \in Loops /\ sellPass(c, s).i = s.i + 1
         /\ IsWalk(Loops, LoopEnds, SellPassesOf(c), LoopCounts, MAX_SIGMOID_STEPS)
<1>1. ASSUME NEW s \in Loops \ LoopEnds
      PROVE  sellPass(c, s) \in Loops /\ sellPass(c, s).i = s.i + 1
  <2>1. /\ s.i \in 0..MAX_SIGMOID_STEPS /\ s.i # MAX_SIGMOID_STEPS
        /\ s.remaining \in Nat /\ s.cursor \in Nat /\ s.out \in Nat
    BY DEF Loops, LoopEnds
  <2>2. s.i + 1 \in 0..MAX_SIGMOID_STEPS
    BY <2>1, StepsAssumption
  <2>3. CASE s.remaining = 0 \/ s.cursor = 0
    BY <2>1, <2>2, <2>3 DEF sellPass, Pass, Loops
  <2>4. CASE ~(s.remaining = 0 \/ s.cursor = 0)
    <3>1. PICK tokens \in Nat, sol \in Nat :
            /\ sellPass(c, s) = Pass(s, tokens, s.cursor - tokens, sol)
            /\ tokens <= s.remaining /\ tokens <= s.cursor
      BY <2>1, <2>4, BandNat, SellPassStep
    <3> QED
      BY <2>1, <2>2, <3>1 DEF Pass, Loops
  <2> QED
    BY <2>3, <2>4
<1>2. SellPassesOf(c) \in [Loops -> Loops]
  <2>1. ASSUME NEW s \in Loops PROVE (IF s \in LoopEnds THEN s ELSE sellPass(c, s)) \in Loops
    BY <1>1
  <2> QED
    BY <2>1 DEF SellPassesOf
<1>3. \A s \in Loops \ LoopEnds : SellPassesOf(c)[s].i = s.i + 1
  BY <1>1 DEF SellPassesOf
<1> QED
  BY <1>1, <1>2, <1>3, LoopIsWalk

(* The recursive functions of the client's quotes are these loops' runs.   *)
LEMMA BuyLoopRuns ==
  ASSUME NEW c \in SigmoidConfig, ValidSigmoid(c), band_size(c) # 0,
         NEW top \in Nat, NEW amount \in Nat \ {0}
  PROVE  \E run : /\ IsRun(run, Loops, LoopEnds, BuyPasses(c))
                  /\ quoteSigmoidBuy(c, top, amount) = run[Start(amount, top)].out
<1> DEFINE Recurs(f) == f = [s \in Loops |-> IF s.i = MAX_SIGMOID_STEPS THEN s
                                             ELSE f[buyPass(c, s)]]
<1>1. \A f : Recurs(f) <=> IsRun(f, Loops, LoopEnds, BuyPasses(c))
  <2>1. ASSUME NEW f, NEW s \in Loops
        PROVE  (IF s.i = MAX_SIGMOID_STEPS THEN s ELSE f[buyPass(c, s)])
               = IF s \in LoopEnds THEN s ELSE f[BuyPasses(c)[s]]
    BY DEF LoopEnds, BuyPasses
  <2> QED
    BY <2>1 DEF IsRun
<1>2. \E f : Recurs(f)
  <2>1. \E f : IsRun(f, Loops, LoopEnds, BuyPasses(c))
    BY BuyLoopWalks, RunExists
  <2> QED
    BY <1>1, <2>1
<1>3. Recurs(CHOOSE f : Recurs(f))
  BY <1>2
<1>4. configAccepted(c) /\ bandSize(c) > 0 /\ amount > 0
  BY BandNat DEF configAccepted, ValidSigmoid, bandSize, band_size
<1>5. quoteSigmoidBuy(c, top, amount) = (CHOOSE f : Recurs(f))[Start(amount, top)].out
  BY <1>4 DEF quoteSigmoidBuy
<1> QED
  BY <1>1, <1>3, <1>5

(* And its recursive function a run of it.                                 *)
LEMMA SellLoopRuns ==
  ASSUME NEW c \in SigmoidConfig, ValidSigmoid(c), band_size(c) # 0,
         NEW top \in Nat, NEW amount \in Nat \ {0}, amount <= top
  PROVE  \E run : /\ IsRun(run, Loops, LoopEnds, SellPassesOf(c))
                  /\ quoteSigmoidSell(c, top, amount)
                       = IF run[Start(amount, top)].remaining = 0
                         THEN run[Start(amount, top)].out ELSE 0
<1> DEFINE Recurs(f) == f = [s \in Loops |-> IF s.i = MAX_SIGMOID_STEPS THEN s
                                             ELSE f[sellPass(c, s)]]
<1>1. \A f : Recurs(f) <=> IsRun(f, Loops, LoopEnds, SellPassesOf(c))
  <2>1. ASSUME NEW f, NEW s \in Loops
        PROVE  (IF s.i = MAX_SIGMOID_STEPS THEN s ELSE f[sellPass(c, s)])
               = IF s \in LoopEnds THEN s ELSE f[SellPassesOf(c)[s]]
    BY DEF LoopEnds, SellPassesOf
  <2> QED
    BY ONLY <2>1 DEF IsRun
<1>2. \E f : Recurs(f)
  <2>1. \E f : IsRun(f, Loops, LoopEnds, SellPassesOf(c))
    BY SellLoopWalks, RunExists
  <2> QED
    BY <1>1, <2>1
<1>3. Recurs(CHOOSE f : Recurs(f))
  BY <1>2
<1>4. configAccepted(c) /\ bandSize(c) > 0 /\ amount > 0
  BY BandNat DEF configAccepted, ValidSigmoid, bandSize, band_size
<1>5. quoteSigmoidSell(c, top, amount)
        = IF (CHOOSE f : Recurs(f))[Start(amount, top)].remaining = 0
          THEN (CHOOSE f : Recurs(f))[Start(amount, top)].out ELSE 0
  BY <1>4 DEF quoteSigmoidSell
<1> QED
  BY <1>1, <1>3, <1>5

-----------------------------------------------------------------------------
(* The two loops side by side.  As long as the program's has not ended     *)
(* they make the same passes; once it has, the client's only counts; and   *)
(* the program's fails only at a curve that ends past the width.           *)

BuysAlike(c, v, s) ==
  /\ v.ok => /\ s.remaining = v.remaining /\ s.cursor = v.cursor /\ s.out = v.tokens
             /\ v.steps <= s.i
             /\ v.steps = s.i \/ v \in BuyEnds(c)
  /\ v.ok \/ c.token_supply + band_size(c) > U64Max

SalesAlike(v, s) ==
  /\ s.remaining = v.remaining /\ s.cursor = v.cursor /\ s.out = v.sol
  /\ v.steps <= s.i
  /\ v.steps = s.i \/ v \in SellEnds

(* A band of the supply ends at most a band past it.                       *)
LEMMA RawBandEnd ==
  ASSUME NEW cursor \in Nat, NEW size \in Nat \ {0}, NEW supply \in Nat, cursor < supply
  PROVE  /\ raw_band_end(cursor, size) \in Nat
         /\ raw_band_end(cursor, size) <= supply + size
<1> DEFINE k == cursor \div size
<1>1. k \in Nat /\ k * size <= cursor
  BY Division
<1> HIDE DEF k
<1>2. k * size \in Nat /\ (k + 1) * size = k * size + size
  BY <1>1, ProductNat, SMTT(30)
<1>3. raw_band_end(cursor, size) = k * size + size
  BY <1>2 DEF raw_band_end, k
<1> DEFINE l == k * size
<1> HIDE DEF l
<1>4. l \in Nat /\ l <= cursor /\ raw_band_end(cursor, size) = l + size
  BY <1>1, <1>2, <1>3 DEF l
<1> QED
  BY <1>4

(* A pass of each keeps them alike.                                        *)
LEMMA BuyPassesAlike ==
  ASSUME NEW c \in SigmoidConfig, ValidSigmoid(c), band_size(c) # 0,
         NEW v \in Walk, NEW s \in Loops \ LoopEnds, BuysAlike(c, v, s)
  PROVE  BuysAlike(c, IF v \in BuyEnds(c) THEN v ELSE BuyBand(c, v), buyPass(c, s))
<1>1. /\ s.i \in Nat /\ s.i < MAX_SIGMOID_STEPS /\ s.out \in Nat
      /\ s.remaining \in Nat /\ s.cursor \in Nat
      /\ v.tokens \in Nat /\ v.steps \in Nat /\ v.ok \in BOOLEAN
      /\ c.token_supply \in Nat /\ band_size(c) \in Nat \ {0}
  BY BandNat, StepsAssumption DEF Loops, LoopEnds, Walk
<1>2. CASE ~v.ok
  <2>1. v \in BuyEnds(c)
    BY <1>2 DEF BuyEnds, BuyOver
  <2> QED
    BY <1>2, <2>1 DEF BuysAlike
<1>3. CASE v.ok /\ (s.remaining = 0 \/ s.cursor >= c.token_supply)
  <2>1. v \in BuyEnds(c)
    BY <1>3 DEF BuysAlike, BuyEnds, BuyOver
  <2>2. buyPass(c, s) = Pass(s, 0, s.cursor, 0)
    BY <1>3 DEF buyPass
  <2> QED
    BY <1>1, <1>3, <2>1, <2>2 DEF BuysAlike, Pass
<1>4. CASE v.ok /\ ~(s.remaining = 0 \/ s.cursor >= c.token_supply)
  <2> DEFINE end == raw_band_end(s.cursor, band_size(c))
  <2>1. s.remaining \in Nat \ {0} /\ s.cursor < c.token_supply
    BY <1>1, <1>4
  <2>2. /\ s.remaining = v.remaining /\ s.cursor = v.cursor /\ s.out = v.tokens
        /\ v.steps <= s.i
        /\ v.steps = s.i \/ v \in BuyEnds(c)
    BY <1>4 DEF BuysAlike
  <2>3. PICK tokens \in Nat, cost \in Nat :
          /\ buyPass(c, s) = Pass(s, cost, s.cursor + tokens, tokens)
          /\ cost <= s.remaining
          /\ tokens = 0 => cost = 0
          /\ BuyBand(c, v) = IF end \notin U64 THEN [v EXCEPT !.ok = FALSE]
                             ELSE Advance(v, cost, v.cursor + tokens, tokens, cost)
    BY <1>1, <2>1, <2>2, BuyPassStep
  <2>4. end \in Nat /\ end <= c.token_supply + band_size(c)
    BY <1>1, <2>1, RawBandEnd
  <2> HIDE DEF end
  <2>5. CASE v \in BuyEnds(c)
    <3>1. BuyBand(c, v).ok /\ BuyBand(c, v).cursor = v.cursor
      BY <1>1, <1>4, <2>1, <2>2, <2>5 DEF BuyEnds, BuyOver, NothingAffordable
    <3>2. BuyBand(c, v) = Advance(v, cost, v.cursor + tokens, tokens, cost)
      BY <2>3, <3>1 DEF Walk
    <3>3. v.cursor + tokens = v.cursor
      BY <3>1, <3>2 DEF Advance
    <3>4. tokens = 0 /\ cost = 0
      BY <1>1, <2>2, <2>3, <3>3
    <3>5. /\ buyPass(c, s).remaining = s.remaining /\ buyPass(c, s).cursor = s.cursor
          /\ buyPass(c, s).out = s.out /\ buyPass(c, s).i = s.i + 1
      BY <1>1, <2>3, <3>4 DEF Pass
    <3> QED
      BY <1>1, <1>4, <2>2, <2>5, <3>5 DEF BuysAlike
  <2>6. CASE v \notin BuyEnds(c) /\ end \notin U64
    <3>1. BuyBand(c, v).ok = FALSE
      BY <2>3, <2>6 DEF Walk
    <3>2. c.token_supply + band_size(c) > U64Max
      BY <1>1, <2>4, <2>6, U64Assumption DEF U64
    <3> QED
      BY <2>6, <3>1, <3>2 DEF BuysAlike
  <2>7. CASE v \notin BuyEnds(c) /\ end \in U64
    <3> DEFINE n == BuyBand(c, v)
               t == buyPass(c, s)
    <3>1. /\ n.remaining = v.remaining - cost /\ n.cursor = v.cursor + tokens
          /\ n.tokens = v.tokens + tokens /\ n.steps = v.steps + 1 /\ n.ok = v.ok
      BY <2>3, <2>7 DEF Advance
    <3>2. /\ t.remaining = s.remaining - cost /\ t.cursor = s.cursor + tokens
          /\ t.out = s.out + tokens /\ t.i = s.i + 1
      BY <2>3 DEF Pass
    <3>3. v.steps = s.i
      BY <2>2, <2>7
    <3> HIDE DEF n, t
    <3>4. BuysAlike(c, n, t)
      BY <1>1, <1>4, <2>2, <3>1, <3>2, <3>3 DEF BuysAlike
    <3> QED
      BY <2>7, <3>4 DEF n, t
  <2> QED
    BY <2>5, <2>6, <2>7
<1> QED
  BY <1>1, <1>2, <1>3, <1>4

(* A pass of the client's sale loop does what a pass of the program's      *)
(* does.                                                                   *)
LEMMA SellPassesAlike ==
  ASSUME NEW c \in SigmoidConfig, ValidSigmoid(c), band_size(c) # 0,
         NEW v \in Walk, NEW s \in Loops \ LoopEnds, SalesAlike(v, s)
  PROVE  SalesAlike(IF v \in SellEnds THEN v ELSE SellBand(c, v), sellPass(c, s))
<1>1. /\ s.i \in Nat /\ s.i < MAX_SIGMOID_STEPS /\ s.out \in Nat
      /\ s.remaining \in Nat /\ s.cursor \in Nat
      /\ v.sol \in Nat /\ v.steps \in Nat
      /\ band_size(c) \in Nat \ {0}
  BY BandNat, StepsAssumption DEF Loops, LoopEnds, Walk
<1>2. /\ s.remaining = v.remaining /\ s.cursor = v.cursor /\ s.out = v.sol
      /\ v.steps <= s.i
      /\ v.steps = s.i \/ v \in SellEnds
  BY DEF SalesAlike
<1>3. CASE s.remaining = 0 \/ s.cursor = 0
  <2>1. v \in SellEnds
    BY <1>2, <1>3 DEF SellEnds, SellOver
  <2>2. sellPass(c, s) = Pass(s, 0, s.cursor, 0)
    BY <1>3 DEF sellPass
  <2> QED
    BY <1>1, <1>2, <2>1, <2>2 DEF SalesAlike, Pass
<1>4. CASE ~(s.remaining = 0 \/ s.cursor = 0)
  <2> DEFINE n == SellBand(c, v)
             t == sellPass(c, s)
  <2>1. v \notin SellEnds /\ v.steps = s.i
    BY <1>1, <1>2, <1>4, StepsAssumption DEF SellEnds, SellOver
  <2>2. PICK tokens \in Nat, sol \in Nat :
          /\ t = Pass(s, tokens, s.cursor - tokens, sol)
          /\ n = Advance(v, tokens, v.cursor - tokens, tokens, sol)
    BY <1>1, <1>2, <1>4, SellPassStep
  <2>3. /\ n.remaining = v.remaining - tokens /\ n.cursor = v.cursor - tokens
        /\ n.sol = v.sol + sol /\ n.steps = v.steps + 1
    BY <2>2 DEF Advance
  <2>4. /\ t.remaining = s.remaining - tokens /\ t.cursor = s.cursor - tokens
        /\ t.out = s.out + sol /\ t.i = s.i + 1
    BY <2>2 DEF Pass
  <2> HIDE DEF n, t
  <2>5. SalesAlike(n, t)
    BY <1>1, <1>2, <2>1, <2>3, <2>4 DEF SalesAlike
  <2> QED
    BY <2>1, <2>5 DEF n, t
<1> QED
  BY <1>3, <1>4

(* So the client's buy ends with the tokens of the program's, ...          *)
LEMMA BuysAgree ==
  ASSUME NEW c \in SigmoidConfig, ValidSigmoid(c), band_size(c) # 0,
         NEW top \in Nat, NEW amount \in Nat \ {0}
  PROVE  LET v == BuyWalk(c, top, amount)
         IN  /\ v \in Walk
             /\ v.ok => quoteSigmoidBuy(c, top, amount) = v.tokens
             /\ v.ok \/ c.token_supply + band_size(c) > U64Max
<1> DEFINE v0 == WalkFrom(top, amount)
           s0 == Start(amount, top)
           w == BuyWalk(c, top, amount)
<1>1. PICK prog : IsRun(prog, Walk, BuyEnds(c), BuyStep(c)) /\ w = prog[v0]
  BY BuyWalkRuns
<1>2. PICK run : /\ IsRun(run, Loops, LoopEnds, BuyPasses(c))
                 /\ quoteSigmoidBuy(c, top, amount) = run[s0].out
  BY BuyLoopRuns
<1> DEFINE I == {s \in Loops : \E v \in Walk : BuysAlike(c, v, s) /\ prog[v] = w}
<1>3. s0 \in I
  <2>1. v0 \in Walk /\ s0 \in Loops /\ BuysAlike(c, v0, s0)
    BY StepsAssumption DEF WalkFrom, Walk, Start, Loops, BuysAlike
  <2> QED
    BY <1>1, <2>1
<1>4. ASSUME NEW s \in I, s \notin LoopEnds PROVE BuyPasses(c)[s] \in I
  <2>1. PICK v \in Walk : BuysAlike(c, v, s) /\ prog[v] = w
    BY <1>4
  <2> DEFINE n == IF v \in BuyEnds(c) THEN v ELSE BuyBand(c, v)
  <2>2. s \in Loops \ LoopEnds /\ BuyPasses(c)[s] = buyPass(c, s)
    BY <1>4 DEF BuyPasses
  <2>3. BuysAlike(c, n, buyPass(c, s))
    BY <2>1, <2>2, BuyPassesAlike
  <2>4. buyPass(c, s) \in Loops
    BY <2>2, BuyLoopWalks
  <2>5. n = BuyStep(c)[v] /\ n \in Walk
    <3>1. n = BuyStep(c)[v]
      BY DEF BuyStep
    <3>2. BuyStep(c) \in [Walk -> Walk]
      BY BuyIsWalk DEF IsWalk
    <3> QED
      BY <3>1, <3>2
  <2>6. prog[n] = w
    BY <1>1, <2>1, <2>5 DEF IsRun
  <2> HIDE DEF n
  <2> QED
    BY <2>2, <2>3, <2>4, <2>5, <2>6
<1>5. run[s0] \in I /\ run[s0] \in LoopEnds
  <2>1. IsWalk(Loops, LoopEnds, BuyPasses(c), LoopCounts, MAX_SIGMOID_STEPS)
    BY BuyLoopWalks
  <2>2. I \in SUBSET Loops
    OBVIOUS
  <2> HIDE DEF I, w
  <2> QED
    BY <1>2, <1>3, <1>4, <2>1, <2>2, RunKeeps
<1>6. PICK v \in Walk : BuysAlike(c, v, run[s0]) /\ prog[v] = w
  BY <1>5
<1>7. v.ok => v \in BuyEnds(c)
  BY <1>5, <1>6 DEF BuysAlike, LoopEnds, BuyEnds, BuyOver
<1>8. v \in BuyEnds(c)
  BY <1>7 DEF BuyEnds, BuyOver
<1>9. v = w
  BY <1>1, <1>6, <1>8 DEF IsRun
<1> HIDE DEF w
<1> QED
  BY <1>2, <1>6, <1>9 DEF BuysAlike, w

(* ... and its sell with the same worth, or with the same left to sell.    *)
LEMMA SalesAgree ==
  ASSUME NEW c \in SigmoidConfig, ValidSigmoid(c), band_size(c) # 0,
         NEW top \in Nat, NEW amount \in Nat \ {0}, amount <= top
  PROVE  LET v == SellWalk(c, top, amount)
         IN  /\ v \in Walk
             /\ quoteSigmoidSell(c, top, amount) = IF v.remaining = 0 THEN v.sol ELSE 0
<1> DEFINE v0 == WalkFrom(top, amount)
           s0 == Start(amount, top)
           w == SellWalk(c, top, amount)
<1>1. PICK prog : IsRun(prog, Walk, SellEnds, SellStep(c)) /\ w = prog[v0]
  BY SellWalkRuns
<1>2. PICK run : /\ IsRun(run, Loops, LoopEnds, SellPassesOf(c))
                 /\ quoteSigmoidSell(c, top, amount)
                      = IF run[s0].remaining = 0 THEN run[s0].out ELSE 0
  BY SellLoopRuns
<1> DEFINE I == {s \in Loops : \E v \in Walk : SalesAlike(v, s) /\ prog[v] = w}
<1>3. s0 \in I
  <2>1. v0 \in Walk /\ s0 \in Loops /\ SalesAlike(v0, s0)
    BY StepsAssumption DEF WalkFrom, Walk, Start, Loops, SalesAlike
  <2> QED
    BY <1>1, <2>1
<1>4. ASSUME NEW s \in I, s \notin LoopEnds PROVE SellPassesOf(c)[s] \in I
  <2>1. PICK v \in Walk : SalesAlike(v, s) /\ prog[v] = w
    BY <1>4
  <2> DEFINE n == IF v \in SellEnds THEN v ELSE SellBand(c, v)
  <2>2. s \in Loops \ LoopEnds /\ SellPassesOf(c)[s] = sellPass(c, s)
    BY <1>4 DEF SellPassesOf
  <2>3. SalesAlike(n, sellPass(c, s))
    BY <2>1, <2>2, SellPassesAlike
  <2>4. sellPass(c, s) \in Loops
    BY <2>2, SellLoopWalks
  <2>5. n = SellStep(c)[v] /\ n \in Walk
    <3>1. n = SellStep(c)[v]
      BY DEF SellStep
    <3>2. SellStep(c) \in [Walk -> Walk]
      BY SellIsWalk DEF IsWalk
    <3> QED
      BY <3>1, <3>2
  <2>6. prog[n] = w
    BY <1>1, <2>1, <2>5 DEF IsRun
  <2> HIDE DEF n
  <2> QED
    BY <2>2, <2>3, <2>4, <2>5, <2>6
<1>5. run[s0] \in I /\ run[s0] \in LoopEnds
  <2>1. IsWalk(Loops, LoopEnds, SellPassesOf(c), LoopCounts, MAX_SIGMOID_STEPS)
    BY SellLoopWalks
  <2>2. I \in SUBSET Loops
    OBVIOUS
  <2> HIDE DEF I, w
  <2> QED
    BY <1>2, <1>3, <1>4, <2>1, <2>2, RunKeeps
<1>6. PICK v \in Walk : SalesAlike(v, run[s0]) /\ prog[v] = w
  BY <1>5
<1>7. v \in SellEnds
  BY <1>5, <1>6 DEF SalesAlike, LoopEnds, SellEnds, SellOver
<1>8. v = w
  BY <1>1, <1>6, <1>7 DEF IsRun
<1> HIDE DEF w
<1> QED
  BY <1>2, <1>6, <1>8 DEF SalesAlike, w

(* For every curve, supply and amount: what the program quotes, the client *)
(* computes, to the base unit and to the lamport.                          *)
LEMMA QuotesAreSdk ==
  ASSUME NEW c \in SigmoidConfig, NEW top \in Nat, NEW amount \in Nat
  PROVE  LET buy == quote_sigmoid_buy(c, top, amount)
             sell == quote_sigmoid_sell(c, top, amount)
         IN  /\ IsQuote(buy) => buy.amount_out = quoteSigmoidBuy(c, top, amount)
             /\ IsQuote(sell) => sell.amount_out = quoteSigmoidSell(c, top, amount)
<1> DEFINE buy == quote_sigmoid_buy(c, top, amount)
           sell == quote_sigmoid_sell(c, top, amount)
<1>1. ASSUME IsQuote(buy) PROVE buy.amount_out = quoteSigmoidBuy(c, top, amount)
  <2>1. buy.amount_out # 0
    BY <1>1 DEF IsQuote
  <2>2. amount # 0 /\ ValidSigmoid(c) /\ band_size(c) # 0
    BY <2>1 DEF quote_sigmoid_buy, NoQuote
  <2> DEFINE v == BuyWalk(c, top, amount)
  <2>3. v.ok => quoteSigmoidBuy(c, top, amount) = v.tokens
    BY <2>2, BuysAgree
  <2>4. buy = BuyQuote(v)
    BY <2>2 DEF quote_sigmoid_buy
  <2> HIDE DEF v, buy
  <2> QED
    BY <2>1, <2>3, <2>4 DEF BuyQuote, NoQuote
<1>2. ASSUME IsQuote(sell) PROVE sell.amount_out = quoteSigmoidSell(c, top, amount)
  <2>1. sell.amount_out # 0
    BY <1>2 DEF IsQuote
  <2>2. amount # 0 /\ ~(amount > top) /\ ValidSigmoid(c) /\ band_size(c) # 0
    BY <2>1 DEF quote_sigmoid_sell, NoQuote
  <2> DEFINE v == SellWalk(c, top, amount)
  <2>3. quoteSigmoidSell(c, top, amount) = IF v.remaining = 0 THEN v.sol ELSE 0
    BY <2>2, SalesAgree
  <2>4. sell = SellQuote(v)
    BY <2>2 DEF quote_sigmoid_sell
  <2> HIDE DEF v, sell
  <2> QED
    BY <2>1, <2>3, <2>4 DEF SellQuote, NoQuote
<1> QED
  BY <1>1, <1>2

(* A sale is worth the same to both, whatever the curve and the amount.    *)
LEMMA SaleIsSdk ==
  ASSUME NEW c \in SigmoidConfig, NEW top \in Nat, NEW amount \in Nat
  PROVE  LET q == quote_sigmoid_sell(c, top, amount)
         IN  /\ q.gross_sol = quoteSigmoidSell(c, top, amount)
             /\ q.amount_out = q.gross_sol
             /\ q.gross_sol \in Nat
<1> DEFINE q == quote_sigmoid_sell(c, top, amount)
           sells == quoteSigmoidSell(c, top, amount)
<1>1. band_size(c) \in Nat /\ bandSize(c) = band_size(c)
  BY BandNat DEF bandSize, band_size
<1>2. configAccepted(c) <=> ValidSigmoid(c)
  BY U64Assumption DEF configAccepted, ValidSigmoid, SigmoidConfig, U64
<1>3. CASE amount = 0 \/ amount > top \/ ~ValidSigmoid(c) \/ band_size(c) = 0
  BY <1>1, <1>2, <1>3 DEF quote_sigmoid_sell, quoteSigmoidSell, NoQuote
<1>4. CASE amount # 0 /\ ~(amount > top) /\ ValidSigmoid(c) /\ band_size(c) # 0
  <2> DEFINE v == SellWalk(c, top, amount)
  <2>1. amount \in Nat \ {0} /\ amount <= top
    BY <1>4
  <2>2. v \in Walk /\ sells = IF v.remaining = 0 THEN v.sol ELSE 0
    BY <1>4, <2>1, SalesAgree
  <2>3. q = SellQuote(v)
    BY <1>4 DEF quote_sigmoid_sell
  <2> HIDE DEF v, q, sells
  <2>4. v.sol \in Nat
    BY <2>2 DEF Walk
  <2>5. q.gross_sol = sells /\ q.amount_out = sells /\ sells \in Nat
    BY <2>2, <2>3, <2>4 DEF SellQuote, NoQuote
  <2> QED
    BY <2>5 DEF q, sells
<1> QED
  BY <1>3, <1>4

(* And so is a buy, on a curve that ends within the width.                 *)
LEMMA BuyIsSdk ==
  ASSUME NEW c \in SigmoidConfig, NEW top \in Nat, NEW amount \in Nat,
         c.token_supply + band_size(c) \in U64
  PROVE  quote_sigmoid_buy(c, top, amount).amount_out = quoteSigmoidBuy(c, top, amount)
<1> DEFINE q == quote_sigmoid_buy(c, top, amount)
           buys == quoteSigmoidBuy(c, top, amount)
<1>1. band_size(c) \in Nat /\ bandSize(c) = band_size(c)
  BY BandNat DEF bandSize, band_size
<1>2. configAccepted(c) <=> ValidSigmoid(c)
  BY U64Assumption DEF configAccepted, ValidSigmoid, SigmoidConfig, U64
<1>3. CASE amount = 0 \/ ~ValidSigmoid(c) \/ band_size(c) = 0
  BY <1>1, <1>2, <1>3 DEF quote_sigmoid_buy, quoteSigmoidBuy, NoQuote
<1>4. CASE amount # 0 /\ ValidSigmoid(c) /\ band_size(c) # 0
  <2> DEFINE v == BuyWalk(c, top, amount)
  <2>1. amount \in Nat \ {0}
    BY <1>4
  <2>2. ~(c.token_supply + band_size(c) > U64Max)
    BY U64Assumption DEF U64
  <2>3. v.ok /\ buys = v.tokens
    BY <1>4, <2>1, <2>2, BuysAgree
  <2>4. q = BuyQuote(v)
    BY <1>4 DEF quote_sigmoid_buy
  <2> HIDE DEF v, q, buys
  <2>5. q.amount_out = buys
    BY <2>3, <2>4 DEF BuyQuote
  <2> QED
    BY <2>5 DEF q, buys
<1> QED
  BY <1>3, <1>4

-----------------------------------------------------------------------------
(* The tokens of a band, between two supplies.                             *)

(* Where a band starts and ends.                                           *)
LEMMA BandEnds ==
  ASSUME NEW k \in Nat, NEW size \in Nat
  PROVE  k * size \in Nat /\ (k + 1) * size = k * size + size
BY ProductNat, SMTT(30)

(* The tokens of a band between two supplies are a number of tokens.       *)
LEMMA BandTokensNat ==
  ASSUME NEW c, band_size(c) \in Nat, NEW k \in Nat, NEW from \in Nat, NEW to \in Nat
  PROVE  BandTokens(c, k, from, to) \in Nat
<1> DEFINE l == k * band_size(c)
           u == (k + 1) * band_size(c)
<1>1. l \in Nat /\ u \in Nat
  BY BandEnds
<1>2. BandTokens(c, k, from, to) = LET low == IF from > l THEN from ELSE l
                                    high == IF to <= u THEN to ELSE u
                                IN  IF high <= low THEN 0 ELSE high - low
  BY DEF BandTokens, least
<1> HIDE DEF l, u
<1> QED
  BY <1>1, <1>2

(* The tokens between two supplies are those below and those above any     *)
(* supply between them.                                                    *)
LEMMA BandTokensAdd ==
  ASSUME NEW c, band_size(c) \in Nat, NEW k \in Nat,
         NEW from \in Nat, NEW mid \in Nat, NEW to \in Nat, from <= mid, mid <= to
  PROVE  BandTokens(c, k, from, to) = BandTokens(c, k, from, mid) + BandTokens(c, k, mid, to)
<1> DEFINE l == k * band_size(c)
           u == (k + 1) * band_size(c)
<1>1. l \in Nat /\ u \in Nat /\ l <= u
  BY BandEnds
<1> DEFINE cut(a, b) == LET low == IF a > l THEN a ELSE l
                            high == IF b <= u THEN b ELSE u
                        IN  IF high <= low THEN 0 ELSE high - low
<1>2. /\ BandTokens(c, k, from, to) = cut(from, to)
      /\ BandTokens(c, k, from, mid) = cut(from, mid)
      /\ BandTokens(c, k, mid, to) = cut(mid, to)
  BY DEF BandTokens, least
<1>3. cut(from, to) = cut(from, mid) + cut(mid, to)
  <2> HIDE DEF l, u
  <2> QED
    BY <1>1
<1> QED
  BY <1>2, <1>3

(* No token of a band lies outside it, all between two supplies of a band  *)
(* are its own.                                                            *)
LEMMA BandTokensOf ==
  ASSUME NEW c, band_size(c) \in Nat, NEW j \in Nat,
         NEW from \in Nat, NEW to \in Nat, from <= to,
         j * band_size(c) <= from, to <= (j + 1) * band_size(c)
  PROVE  \A k \in Nat : BandTokens(c, k, from, to) = IF k = j THEN to - from ELSE 0
<1> SUFFICES ASSUME NEW k \in Nat
             PROVE  BandTokens(c, k, from, to) = IF k = j THEN to - from ELSE 0
  OBVIOUS
<1> DEFINE size == band_size(c)
           l == k * size
           u == (k + 1) * size
           i == j * size
           e == (j + 1) * size
<1>1. /\ l \in Nat /\ u = l + size /\ size \in Nat
      /\ i \in Nat /\ e = i + size
  BY BandEnds
<1>2. k > j => l >= e
  <2>1. ASSUME NEW a \in Nat, NEW b \in Nat, NEW d \in Nat, a >= b PROVE a * d >= b * d
    BY <2>1, SMTT(30)
  <2> QED
    BY <2>1
<1>3. k < j => u <= i
  <2>1. ASSUME NEW a \in Nat, NEW b \in Nat, NEW d \in Nat, a >= b PROVE a * d >= b * d
    BY <2>1, SMTT(30)
  <2> QED
    BY <2>1
<1>4. BandTokens(c, k, from, to) =
        LET low == IF from > l THEN from ELSE l
            high == IF to <= u THEN to ELSE u
        IN  IF high <= low THEN 0 ELSE high - low
  BY DEF BandTokens, least
<1>5. k = j => l = i /\ u = e
  OBVIOUS
<1>6. i <= from /\ to <= e
  OBVIOUS
<1> HIDE DEF l, u, i, e, size
<1> QED
  BY <1>1, <1>2, <1>3, <1>4, <1>5, <1>6

-----------------------------------------------------------------------------
(* What is known of a curve whose trades can be quoted.                    *)
IsCurve(c) ==
  /\ c \in SigmoidConfig /\ ValidSigmoid(c)
  /\ band_size(c) \in Nat \ {0}

(* What every band gives of the tokens between two supplies.               *)
Values(c, from, to) == [k \in 0..(to \div band_size(c)) |-> BandValue(c, k, from, to)]

(* The price at the start of a band is a price.                            *)
LEMMA BandPrice ==
  ASSUME NEW c, IsCurve(c), NEW k \in Nat
  PROVE  price_at_supply(c, k * band_size(c)) \in Nat
BY ProductNat, PriceInRange DEF IsCurve

(* The worth of a range of supply is a sum of naturals.                    *)
LEMMA WorthTyped ==
  ASSUME NEW c, IsCurve(c), NEW from \in Nat, NEW to \in Nat, from <= to
  PROVE  /\ IsFiniteSet(0..(to \div band_size(c)))
         /\ 0..(to \div band_size(c)) \subseteq Nat
         /\ Values(c, from, to) \in [0..(to \div band_size(c)) -> Nat]
         /\ Worth(c, from, to) = SumFunction(Values(c, from, to))
         /\ Worth(c, from, to) \in Nat
<1>1. to \div band_size(c) \in Nat
  BY Division DEF IsCurve
<1>2. IsFiniteSet(0..(to \div band_size(c))) /\ 0..(to \div band_size(c)) \subseteq Nat
  BY <1>1, FS_Interval
<1>3. ASSUME NEW k \in Nat PROVE BandValue(c, k, from, to) \in Nat
  <2> DEFINE n == BandTokens(c, k, from, to)
             price == price_at_supply(c, k * band_size(c))
  <2>1. n \in Nat /\ price \in Nat
    BY BandPrice, BandTokensNat DEF IsCurve
  <2> HIDE DEF n, price
  <2>2. n * price \in Nat
    BY <2>1, ProductNat
  <2>3. (n * price) \div TOKEN_UNIT \in Nat
    BY <2>2, Division, TokenUnitAssumption
  <2> QED
    BY <2>3 DEF BandValue, n, price
<1>4. Values(c, from, to) \in [0..(to \div band_size(c)) -> Nat]
  BY <1>2, <1>3 DEF Values
<1>5. Worth(c, from, to) = SumFunction(Values(c, from, to))
  BY DEF Worth, Values
<1> QED
  BY <1>2, <1>4, <1>5, SumIsNat

(* Nothing is worth nothing.                                               *)
LEMMA WorthOfNothing ==
  ASSUME NEW c, IsCurve(c), NEW s \in Nat
  PROVE  Worth(c, s, s) = 0
<1>1. ASSUME NEW k \in Nat PROVE BandValue(c, k, s, s) = 0
  <2>1. BandTokens(c, k, s, s) = 0
    <3>1. /\ BandTokens(c, k, s, s) \in Nat
          /\ BandTokens(c, k, s, s) = BandTokens(c, k, s, s) + BandTokens(c, k, s, s)
      <4>1. band_size(c) \in Nat /\ s <= s
        BY DEF IsCurve
      <4> QED
        BY ONLY s \in Nat, k \in Nat, <4>1, BandTokensNat, BandTokensAdd
    <3>2. ASSUME NEW n \in Nat, n = n + n PROVE n = 0
      BY <3>2
    <3> QED
      BY <3>1, <3>2
  <2>2. ASSUME NEW price \in Nat PROVE (0 * price) \div TOKEN_UNIT = 0
    BY TokenUnitAssumption
  <2> QED
    BY <2>1, <2>2, BandPrice DEF BandValue
<1>2. \A k \in 0..(s \div band_size(c)) : Values(c, s, s)[k] = 0
  BY <1>1 DEF Values
<1> QED
  <2>1. s <= s
    OBVIOUS
  <2>2. /\ IsFiniteSet(0..(s \div band_size(c)))
        /\ Values(c, s, s) \in [0..(s \div band_size(c)) -> Nat]
        /\ Worth(c, s, s) = SumFunction(Values(c, s, s))
    BY <2>1, WorthTyped
  <2> QED
    BY ONLY <1>2, <2>2, SumOfZeros

(* Going down from a supply inside a band, or at its end, adds what the    *)
(* tokens passed are worth at the price of that band's start.              *)
LEMMA WorthBelow ==
  ASSUME NEW c, IsCurve(c), NEW j \in Nat, NEW from \in Nat, NEW mid \in Nat, NEW to \in Nat,
         from <= mid, mid <= to, j <= to \div band_size(c),
         j * band_size(c) <= from, mid <= (j + 1) * band_size(c),
         mid = to \/ mid = (j + 1) * band_size(c)
  PROVE  Worth(c, from, to)
           = Worth(c, mid, to)
               + ((mid - from) * price_at_supply(c, j * band_size(c))) \div TOKEN_UNIT
<1> DEFINE size == band_size(c)
           S == 0..(to \div size)
           f == Values(c, mid, to)
           g == Values(c, from, to)
           price == price_at_supply(c, j * size)
<1>1. size \in Nat \ {0} /\ to \div size \in Nat /\ price \in Nat
  BY Division, BandPrice DEF IsCurve
<1>2. /\ IsFiniteSet(S) /\ S \subseteq Nat
      /\ f \in [S -> Nat] /\ Worth(c, mid, to) = SumFunction(f)
      /\ g \in [S -> Nat] /\ Worth(c, from, to) = SumFunction(g)
  <2>1. from <= to
    OBVIOUS
  <2> QED
    BY <2>1, WorthTyped
<1>3. ASSUME NEW k \in Nat
      PROVE  BandTokens(c, k, from, to)
               = (IF k = j THEN mid - from ELSE 0) + BandTokens(c, k, mid, to)
             /\ BandTokens(c, k, mid, to) \in Nat
  <2>1. /\ BandTokens(c, k, from, to) = BandTokens(c, k, from, mid) + BandTokens(c, k, mid, to)
        /\ BandTokens(c, k, mid, to) \in Nat
    <3>1. band_size(c) \in Nat
      BY <1>1
    <3>2. BandTokens(c, k, from, to) = BandTokens(c, k, from, mid) + BandTokens(c, k, mid, to)
      BY ONLY <3>1, k \in Nat, from \in Nat, mid \in Nat, to \in Nat,
              from <= mid, mid <= to, BandTokensAdd
    <3> QED
      BY <3>1, <3>2, BandTokensNat
  <2>2. BandTokens(c, k, from, mid) = IF k = j THEN mid - from ELSE 0
    BY <1>1, BandTokensOf
  <2> QED
    BY <2>1, <2>2
<1>4. BandTokens(c, j, mid, to) = 0
  <2> DEFINE u == (j + 1) * size
             l == j * size
  <2>1. l \in Nat /\ u = l + size
    BY <1>1, BandEnds
  <2>2. BandTokens(c, j, mid, to) = LET low == IF mid > l THEN mid ELSE l
                                     high == IF to <= u THEN to ELSE u
                                 IN  IF high <= low THEN 0 ELSE high - low
    BY DEF BandTokens, least
  <2>3. mid <= u /\ (mid = to \/ mid = u) /\ l <= mid
    <3>1. l <= from /\ from <= mid
      OBVIOUS
    <3> HIDE DEF l
    <3> QED
      BY <2>1, <3>1
  <2> HIDE DEF l, u
  <2> QED
    BY <1>1, <2>1, <2>2, <2>3
<1>5. /\ f[j] = (0 * price) \div TOKEN_UNIT
      /\ g[j] = ((mid - from) * price) \div TOKEN_UNIT
      /\ j \in S
  <2>1. BandTokens(c, j, from, to) = mid - from
    BY <1>3, <1>4
  <2>2. j \in S
    BY <1>1
  <2> QED
    BY <1>4, <2>1, <2>2 DEF Values, BandValue
<1>6. f[j] = 0
  BY <1>1, <1>5, TokenUnitAssumption
<1>7. \A k \in S \ {j} : g[k] = f[k]
  <2> SUFFICES ASSUME NEW k \in S \ {j} PROVE g[k] = f[k]
    OBVIOUS
  <2>1. BandTokens(c, k, from, to) = BandTokens(c, k, mid, to)
    <3>1. k \in Nat /\ k # j
      BY <1>2
    <3>2. /\ BandTokens(c, k, from, to) = 0 + BandTokens(c, k, mid, to)
          /\ BandTokens(c, k, mid, to) \in Nat
      BY <1>3, <3>1
    <3> QED
      BY <3>2
  <2> QED
    BY <2>1 DEF Values, BandValue
<1>8. g \in [S \cup {j} -> Nat] /\ j \in S
  <2>1. S \cup {j} = S
    BY <1>5
  <2> QED
    BY <1>2, <1>5, <2>1
<1> HIDE DEF f, g, S, price
<1>9. SumFunction(g) + f[j] = SumFunction(f) + g[j]
  <2>1. /\ IsFiniteSet(S) /\ f \in [S -> Nat] /\ g \in [S \cup {j} -> Nat]
        /\ \A k \in S \ {j} : g[k] = f[k]
    BY <1>2, <1>7, <1>8
  <2>2. SumFunction(g) + (IF j \in S THEN f[j] ELSE 0) = SumFunction(f) + g[j]
    BY ONLY <2>1, SumChanges
  <2> QED
    BY <1>8, <2>2
<1>10. SumFunction(g) \in Nat /\ SumFunction(f) \in Nat
  BY <1>2, SumIsNat
<1>11. SumFunction(g) = SumFunction(f) + g[j]
  BY <1>6, <1>9, <1>10
<1> QED
  BY <1>2, <1>5, <1>11 DEF price

-----------------------------------------------------------------------------
(* What the sell loop keeps: it has gone down as far as it has sold, what  *)
(* it has summed up is the worth of the tokens passed, it has counted the  *)
(* bands passed, and it stands at the start of a band unless it has just   *)
(* begun or has sold everything.                                           *)
AtBand(c, v, m) ==
  /\ v.cursor \div band_size(c) = m
  /\ v.remaining = 0 \/ v.cursor = m * band_size(c)

Passed(c, v, from, top) ==
  /\ v.cursor = from + v.remaining /\ v.cursor <= top
  /\ v.sol = Worth(c, v.cursor, top)
  /\ \/ v.steps = 0 /\ v.cursor = top
     \/ v.steps > 0 /\ AtBand(c, v, ((top - 1) \div band_size(c)) - v.steps + 1)

(* The band below a supply at the end of a band.                           *)
LEMMA BandUnder ==
  ASSUME NEW m \in Nat, NEW size \in Nat \ {0}, NEW n \in Nat \ {0}, n = m * size
  PROVE  m - 1 \in Nat /\ (n - 1) \div size = m - 1
<1>1. m # 0
  <2>1. 0 * size = 0
    OBVIOUS
  <2> QED
    BY <2>1
<1> DEFINE i == m - 1
           l == i * size
<1>2. i \in Nat /\ m = i + 1
  BY <1>1
<1>3. l \in Nat /\ n = l + size
  <2>1. (i + 1) * size = i * size + size
    BY <1>2, BandEnds
  <2> QED
    BY <1>2, <2>1, BandEnds
<1>4. l <= n - 1 /\ n - 1 < l + size /\ n - 1 \in Nat
  <2> HIDE DEF l
  <2> QED
    BY <1>3
<1>5. (n - 1) \div size = i
  <2> HIDE DEF i
  <2> QED
    BY <1>2, <1>4, DivisionUnique DEF l
<1> QED
  BY <1>2, <1>5

(* A pass of a sale takes the top band of the range that is left, at the   *)
(* price of that band's start.                                             *)
LEMMA SellPasses ==
  ASSUME NEW c, IsCurve(c), NEW from \in Nat, NEW top \in Nat \ {0},
         NEW v \in Walk, ~SellOver(v), Passed(c, v, from, top)
  PROVE  Passed(c, SellBand(c, v), from, top)
<1> DEFINE size == band_size(c)
           j == (v.cursor - 1) \div size
           n == (top - 1) \div size
           start == j * size
           t == least(v.remaining, v.cursor - start)
           price == price_at_supply(c, start)
           sol == (t * price) \div TOKEN_UNIT
           next == SellBand(c, v)
<1>1. /\ v.remaining \in Nat \ {0} /\ v.cursor \in Nat \ {0} /\ v.sol \in Nat
      /\ v.steps \in Nat /\ v.tokens \in Nat
      /\ size \in Nat \ {0} /\ v.cursor - 1 \in Nat /\ top - 1 \in Nat
      /\ v.cursor <= top /\ v.cursor = from + v.remaining
  BY StepsAssumption DEF Walk, SellOver, IsCurve, Passed
<1>2. /\ j \in Nat /\ n \in Nat
      /\ start <= v.cursor - 1 /\ v.cursor - 1 < start + size
  BY <1>1, Division
<1>3. start \in Nat /\ (j + 1) * size = start + size
  BY <1>1, <1>2, BandEnds
<1>4. j = n - v.steps /\ (v.cursor = top \/ v.cursor = (j + 1) * size)
  <2>1. CASE v.steps = 0 /\ v.cursor = top
    BY <1>1, <1>2, <2>1
  <2>2. CASE v.steps > 0 /\ AtBand(c, v, n - v.steps + 1)
    <3> DEFINE m == v.cursor \div size
    <3>1. m = n - v.steps + 1 /\ v.cursor = m * size /\ m \in Nat
      BY <1>1, <2>2, Division DEF AtBand
    <3> HIDE DEF m
    <3>2. j = m - 1 /\ m - 1 \in Nat
      BY <1>1, <3>1, BandUnder
    <3>3. m = j + 1
      BY <3>1, <3>2
    <3> HIDE DEF j, n
    <3> QED
      BY <1>1, <1>2, <3>1, <3>2, <3>3
  <2> QED
    BY <2>1, <2>2 DEF Passed
<1>5. next = Advance(v, t, v.cursor - t, t, sol)
  <2>1. previous_band_start(v.cursor, size) = start
    BY <1>1 DEF previous_band_start
  <2> HIDE DEF start
  <2> QED
    BY <2>1 DEF SellBand
<1>6. /\ t \in Nat \ {0} /\ t <= v.remaining /\ start <= v.cursor - t
      /\ t = v.remaining \/ v.cursor - t = start
  <2> HIDE DEF start
  <2> QED
    BY <1>1, <1>2, <1>3 DEF least
<1> DEFINE cursor == v.cursor - t
<1>7. /\ cursor \in Nat /\ cursor <= v.cursor /\ cursor < start + size
      /\ v.cursor - cursor = t
  <2> HIDE DEF start, t
  <2> QED
    BY <1>1, <1>2, <1>3, <1>6
<1>8. cursor \div size = j
  <2> HIDE DEF cursor, j
  <2> QED
    BY <1>1, <1>2, <1>6, <1>7, DivisionUnique DEF cursor
<1>9. Worth(c, cursor, top) = Worth(c, v.cursor, top) + sol
  <2>1. j <= top \div size
    <3>1. v.cursor - 1 <= top /\ top \in Nat
      BY <1>1
    <3> HIDE DEF size
    <3> QED
      BY <1>1, <3>1, DivisionMonotonic
  <2>2. /\ j \in Nat /\ cursor \in Nat /\ v.cursor \in Nat /\ top \in Nat
        /\ cursor <= v.cursor /\ v.cursor <= top
        /\ j * band_size(c) <= cursor
        /\ v.cursor <= (j + 1) * band_size(c)
        /\ v.cursor = top \/ v.cursor = (j + 1) * band_size(c)
    <3>1. v.cursor <= start + size
      <4> HIDE DEF start
      <4> QED
        BY <1>1, <1>2, <1>3
    <3> HIDE DEF j, t
    <3> QED
      BY <1>1, <1>2, <1>3, <1>4, <1>6, <1>7, <3>1
  <2>3. Worth(c, cursor, top)
          = Worth(c, v.cursor, top)
              + ((v.cursor - cursor) * price_at_supply(c, j * band_size(c))) \div TOKEN_UNIT
    <3> HIDE DEF cursor, j
    <3> QED
      BY ONLY IsCurve(c), <2>1, <2>2, WorthBelow
  <2> QED
    BY <1>7, <2>3
<1>10. /\ next.remaining = v.remaining - t /\ next.cursor = cursor
       /\ next.sol = v.sol + sol /\ next.steps = v.steps + 1
  BY <1>5 DEF Advance
<1> HIDE DEF next, sol, cursor, t, j, n
<1>11. next.cursor = from + next.remaining /\ next.cursor <= top
  <2>1. ASSUME NEW a \in Nat, NEW b \in Nat, NEW d \in Nat, a = from + b
        PROVE  a - d = from + (b - d)
    BY <2>1
  <2>2. cursor = from + (v.remaining - t)
    BY <1>1, <1>6, <2>1 DEF cursor
  <2>3. cursor <= top
    BY <1>1, <1>7
  <2> QED
    BY <1>10, <2>2, <2>3
<1>12. next.sol = Worth(c, next.cursor, top)
  BY <1>9, <1>10 DEF Passed
<1>13. next.steps > 0 /\ n - next.steps + 1 = j
  BY <1>1, <1>2, <1>4, <1>10
<1>14. next.remaining = 0 \/ next.cursor = j * size
  BY <1>1, <1>6, <1>10 DEF cursor
<1>15. AtBand(c, next, j)
  BY <1>8, <1>10, <1>14 DEF AtBand
<1> QED
  BY <1>11, <1>12, <1>13, <1>15 DEF Passed, next, n

(* Where the loop ends: with everything sold, or after as many bands as a  *)
(* quote may cross and still inside the sale.                              *)
LEMMA SellEndsAt ==
  ASSUME NEW c, IsCurve(c), NEW top \in Nat, NEW amount \in Nat \ {0}, amount <= top
  PROVE  LET v == SellWalk(c, top, amount)
             from == top - amount
         IN  IF v.remaining = 0
             THEN v.sol = Worth(c, from, top) /\ BandsBetween(c, from, top) <= MAX_SIGMOID_STEPS
             ELSE BandsBetween(c, from, top) > MAX_SIGMOID_STEPS
<1> DEFINE v == SellWalk(c, top, amount)
           from == top - amount
           I == {u \in Walk : Passed(c, u, from, top)}
           size == band_size(c)
           n == (top - 1) \div size
<1>1. /\ from \in Nat /\ from <= top - 1 /\ top - 1 \in Nat /\ top \in Nat \ {0}
      /\ size \in Nat \ {0} /\ c \in SigmoidConfig /\ ValidSigmoid(c)
  BY DEF IsCurve
<1>2. PICK run : /\ IsRun(run, Walk, SellEnds, SellStep(c))
                 /\ v = run[WalkFrom(top, amount)]
  BY <1>1, SellWalkRuns
<1>3. WalkFrom(top, amount) \in I
  <2>1. WalkFrom(top, amount) \in Walk
    BY StepsAssumption DEF WalkFrom, Walk
  <2>2. top = from + amount
    OBVIOUS
  <2> HIDE DEF from
  <2>3. Passed(c, WalkFrom(top, amount), from, top)
    BY <1>1, <2>2, WorthOfNothing DEF WalkFrom, Passed
  <2> QED
    BY <2>1, <2>3
<1>4. ASSUME NEW u \in I, u \notin SellEnds PROVE SellStep(c)[u] \in I
  <2>1. u \in Walk /\ ~SellOver(u) /\ SellStep(c)[u] = SellBand(c, u)
    BY <1>4 DEF SellEnds, SellStep
  <2>2. SellBand(c, u) \in Walk
    BY <1>1, <2>1, SellBandTyped
  <2>3. Passed(c, SellBand(c, u), from, top)
    <3> HIDE DEF from
    <3> QED
      BY <1>1, <1>4, <2>1, SellPasses
  <2> QED
    BY <2>1, <2>2, <2>3
<1>5. v \in I /\ v \in SellEnds
  <2>1. IsWalk(Walk, SellEnds, SellStep(c), Steps, MAX_SIGMOID_STEPS)
    BY <1>1, SellIsWalk
  <2>2. I \in SUBSET Walk
    OBVIOUS
  <2> HIDE DEF I, v
  <2> QED
    BY <1>2, <1>3, <1>4, <2>1, <2>2, RunKeeps
<1>6. /\ v \in Walk /\ SellOver(v) /\ Passed(c, v, from, top)
  BY <1>5 DEF SellEnds
<1> HIDE DEF v, I
<1>7. /\ v.remaining \in Nat /\ v.cursor \in Nat /\ v.steps \in Nat
      /\ v.steps <= MAX_SIGMOID_STEPS /\ MAX_SIGMOID_STEPS \in Nat
      /\ v.cursor = from + v.remaining
  BY <1>6, StepsAssumption DEF Walk, Passed
<1>8. /\ n \in Int /\ from \div size \in Nat
      /\ BandsBetween(c, from, top) = n - from \div size + 1
  BY <1>1, Division DEF BandsBetween
<1>9. CASE v.remaining = 0
  <2>1. v.cursor = from /\ v.sol = Worth(c, from, top)
    <3>1. v.cursor = from + 0
      BY <1>7, <1>9
    <3>2. v.cursor = from
      BY <1>1, <3>1
    <3> QED
      BY <1>6, <3>2 DEF Passed
  <2>2. v.cursor # top
    BY <1>1, <2>1
  <2>3. from \div size = n - v.steps + 1
    BY <1>6, <2>1, <2>2 DEF Passed, AtBand
  <2>4. BandsBetween(c, from, top) <= MAX_SIGMOID_STEPS
    <3> HIDE DEF n
    <3> QED
      BY <1>7, <1>8, <2>3
  <2> QED
    BY <1>9, <2>1, <2>4 DEF v
<1>10. CASE v.remaining # 0
  <2>1. v.steps = MAX_SIGMOID_STEPS /\ from <= v.cursor - 1 /\ v.cursor \in Nat \ {0}
    <3> HIDE DEF from
    <3> QED
      BY <1>1, <1>6, <1>7, <1>10 DEF SellOver
  <2>2. CASE v.steps = 0 /\ v.cursor = top
    <3>1. from \div size <= n
      BY <1>1, DivisionMonotonic
    <3>2. n - from \div size + 1 > 0
      <4> HIDE DEF n
      <4> QED
        BY <1>8, <3>1
    <3> QED
      BY <1>8, <1>10, <2>1, <2>2, <3>2 DEF v
  <2>3. CASE v.steps > 0 /\ AtBand(c, v, n - v.steps + 1)
    <3> DEFINE m == v.cursor \div size
    <3>1. m = n - v.steps + 1 /\ v.cursor = m * size /\ m \in Nat
      BY <1>1, <1>7, <1>10, <2>3, Division DEF AtBand
    <3>2. (v.cursor - 1) \div size = m - 1
      <4> HIDE DEF m
      <4> QED
        BY <1>1, <2>1, <3>1, BandUnder
    <3>3. from \div size <= m - 1
      <4>1. v.cursor - 1 \in Nat
        BY <2>1
      <4>2. from \div size <= (v.cursor - 1) \div size
        <5> HIDE DEF from, size
        <5> QED
          BY <1>1, <2>1, <4>1, DivisionMonotonic
      <4> QED
        BY <3>2, <4>2
    <3> HIDE DEF m
    <3>4. n - from \div size + 1 > v.steps
      <4> HIDE DEF n
      <4> QED
        BY <1>7, <1>8, <3>1, <3>3
    <3> QED
      BY <1>8, <1>10, <2>1, <3>4 DEF v
  <2> QED
    BY <1>6, <2>2, <2>3 DEF Passed
<1> QED
  BY <1>9, <1>10

(* The quote of a sale, without the walk.                                  *)
LEMMA SellQuoteIs ==
  ASSUME NEW c, IsCurve(c), NEW top \in Nat, NEW amount \in Nat, amount <= top
  PROVE  quote_sigmoid_sell(c, top, amount).gross_sol
           = IF BandsBetween(c, top - amount, top) <= MAX_SIGMOID_STEPS
             THEN Worth(c, top - amount, top) ELSE 0
<1> DEFINE v == SellWalk(c, top, amount)
           q == quote_sigmoid_sell(c, top, amount)
<1>1. CASE amount = 0
  <2>1. q.gross_sol = 0
    BY <1>1 DEF quote_sigmoid_sell, NoQuote
  <2>2. top - amount = top
    BY <1>1
  <2>3. Worth(c, top - amount, top) = 0
    BY <2>2, WorthOfNothing
  <2> QED
    BY <2>1, <2>3
<1>2. CASE amount # 0
  <2>1. q = SellQuote(v)
    BY <1>2 DEF quote_sigmoid_sell, IsCurve
  <2>2. q.gross_sol = IF v.remaining = 0 THEN v.sol ELSE 0
    <3> HIDE DEF q, v
    <3> QED
      BY <2>1 DEF SellQuote, NoQuote
  <2>3. IF v.remaining = 0
        THEN /\ v.sol = Worth(c, top - amount, top)
             /\ BandsBetween(c, top - amount, top) <= MAX_SIGMOID_STEPS
        ELSE BandsBetween(c, top - amount, top) > MAX_SIGMOID_STEPS
    BY <1>2, SellEndsAt
  <2>4. BandsBetween(c, top - amount, top) \in Int /\ MAX_SIGMOID_STEPS \in Int
    <3>1. ASSUME NEW a \in Int, NEW d \in Nat \ {0} PROVE a \div d \in Int
      OBVIOUS
    <3> QED
      BY <3>1, StepsAssumption DEF BandsBetween, IsCurve
  <2> HIDE DEF q, v
  <2>5. q.gross_sol = IF BandsBetween(c, top - amount, top) <= MAX_SIGMOID_STEPS
                      THEN Worth(c, top - amount, top) ELSE 0
    BY <2>2, <2>3, <2>4
  <2> QED
    BY <2>5 DEF q
<1> QED
  BY <1>1, <1>2

(* Rounding down twice loses no less than rounding down once.              *)
LEMMA FloorsAdd ==
  ASSUME NEW a \in Nat, NEW b \in Nat, NEW d \in Nat \ {0}
  PROVE  a \div d + b \div d <= (a + b) \div d
<1> DEFINE i == a \div d
           j == b \div d
           k == (a + b) \div d
<1>1. i \in Nat /\ j \in Nat /\ k \in Nat
  BY Division
<1>2. i * d <= a /\ j * d <= b /\ a + b < k * d + d
  BY Division
<1> HIDE DEF i, j, k
<1>3. SUFFICES ASSUME k + 1 <= i + j PROVE FALSE
  BY <1>1 DEF i, j, k
<1>4. (k + 1) * d <= (i + j) * d
  <2>1. ASSUME NEW x \in Nat, NEW y \in Nat, x <= y PROVE x * d <= y * d
    BY <2>1, SMTT(30)
  <2> QED
    BY <1>1, <1>3, <2>1
<1>5. (k + 1) * d = k * d + d /\ (i + j) * d = i * d + j * d
  BY <1>1, SMTT(30)
<1>6. k * d \in Nat /\ i * d \in Nat /\ j * d \in Nat
  BY <1>1, ProductNat
<1> QED
  BY <1>2, <1>4, <1>5, <1>6

(* The parts of a range are worth no more than the whole.                  *)
LEMMA WorthSplits ==
  ASSUME NEW c, IsCurve(c), NEW from \in Nat, NEW mid \in Nat, NEW to \in Nat, from <= mid, mid <= to
  PROVE  Worth(c, mid, to) + Worth(c, from, mid) <= Worth(c, from, to)
<1> DEFINE size == band_size(c)
           S == 0..(to \div size)
           B == 0..(mid \div size)
           f == Values(c, mid, to)
           g == Values(c, from, mid)
           h == Values(c, from, to)
<1>1. size \in Nat \ {0} /\ to \div size \in Nat /\ mid \div size \in Nat
  BY Division DEF IsCurve
<1>2. mid \div size <= to \div size
  <2> HIDE DEF size
  <2> QED
    BY <1>1, DivisionMonotonic
<1>3. from <= to
  OBVIOUS
<1>4. /\ IsFiniteSet(S) /\ S \subseteq Nat
      /\ f \in [S -> Nat] /\ Worth(c, mid, to) = SumFunction(f)
      /\ g \in [B -> Nat] /\ Worth(c, from, mid) = SumFunction(g)
      /\ h \in [S -> Nat] /\ Worth(c, from, to) = SumFunction(h)
  BY <1>3, WorthTyped
<1>5. B \subseteq S
  BY <1>1, <1>2
<1>6. ASSUME NEW k \in S PROVE f[k] + (IF k \in B THEN g[k] ELSE 0) <= h[k]
  <2> DEFINE price == price_at_supply(c, k * size)
             a == BandTokens(c, k, mid, to)
             b == BandTokens(c, k, from, mid)
             x == a * price
             y == b * price
  <2>1. k \in Nat /\ band_size(c) \in Nat
    BY <1>1, <1>4
  <2>2. a \in Nat /\ b \in Nat /\ price \in Nat
    BY <2>1, BandTokensNat, BandPrice
  <2>3. BandTokens(c, k, from, to) = b + a
    BY ONLY <2>1, from \in Nat, mid \in Nat, to \in Nat, from <= mid, mid <= to, BandTokensAdd
  <2>4. /\ f[k] = x \div TOKEN_UNIT
        /\ k \in B => g[k] = y \div TOKEN_UNIT
        /\ h[k] = ((b + a) * price) \div TOKEN_UNIT
    BY <2>3 DEF Values, BandValue
  <2> HIDE DEF price, a, b
  <2>5. x \in Nat /\ y \in Nat /\ (b + a) * price = x + y
    <3>1. x \in Nat /\ y \in Nat
      BY <2>2, ProductNat
    <3>2. (b + a) * price = a * price + b * price
      BY <2>2, SMTT(30)
    <3> QED
      BY <3>1, <3>2
  <2> HIDE DEF x, y
  <2>6. /\ x \div TOKEN_UNIT + y \div TOKEN_UNIT <= (x + y) \div TOKEN_UNIT
        /\ x \div TOKEN_UNIT \in Nat /\ y \div TOKEN_UNIT \in Nat
        /\ (x + y) \div TOKEN_UNIT \in Nat
    BY <2>5, FloorsAdd, Division, TokenUnitAssumption
  <2> HIDE DEF f, g, h, B, S
  <2> QED
    BY <2>4, <2>5, <2>6
<1>7. \A k \in S : (IF k \in S THEN f[k] ELSE 0) + (IF k \in B THEN g[k] ELSE 0) <= h[k]
  <2> HIDE DEF f, g, h, B, S
  <2> QED
    BY <1>6
<1>8. SumFunction(f) + SumFunction(g) <= SumFunction(h)
  <2>1. S \subseteq S
    OBVIOUS
  <2> HIDE DEF f, g, h, B, S
  <2> QED
    BY ONLY <1>4, <1>5, <1>7, <2>1, SumsAtMost
<1> QED
  BY <1>4, <1>8

-----------------------------------------------------------------------------
(* What a buy pays covers what the tokens add to the worth of a range, as  *)
(* long as no price is lower than at the start of its band.                *)

(* What covers a dividend's increase covers the quotient's.                *)
LEMMA CoveredFloor ==
  ASSUME NEW x \in Nat, NEW y \in Nat, NEW cost \in Nat, NEW d \in Nat \ {0},
         y <= cost * d
  PROVE  (x + y) \div d <= x \div d + cost
<1> DEFINE i == x \div d
           k == (x + y) \div d
<1>1. i \in Nat /\ k \in Nat
  BY Division
<1>2. x < i * d + d /\ k * d <= x + y
  BY Division
<1> HIDE DEF i, k
<1> SUFFICES ASSUME i + cost + 1 <= k PROVE FALSE
  BY <1>1 DEF i, k
<1>3. (i + cost + 1) * d <= k * d
  <2>1. ASSUME NEW a \in Nat, NEW b \in Nat, a <= b PROVE a * d <= b * d
    BY <2>1, SMTT(30)
  <2> QED
    BY <1>1, <2>1
<1>4. (i + cost + 1) * d = i * d + cost * d + d
  BY <1>1, SMTT(30)
<1>5. i * d \in Nat /\ cost * d \in Nat /\ k * d \in Nat
  BY <1>1, ProductNat
<1> QED
  BY <1>2, <1>3, <1>4, <1>5

(* Going up from a supply inside a band, or to its end, changes the worth  *)
(* of that band alone.                                                     *)
LEMMA WorthAbove ==
  ASSUME NEW c, IsCurve(c), NEW j \in Nat, NEW from \in Nat, NEW mid \in Nat, NEW to \in Nat,
         from <= mid, mid <= to, mid \div band_size(c) = j, to <= (j + 1) * band_size(c)
  PROVE  LET price == price_at_supply(c, j * band_size(c))
             n == BandTokens(c, j, from, mid)
         IN  /\ n \in Nat
             /\ Worth(c, from, to) + (n * price) \div TOKEN_UNIT
                  = Worth(c, from, mid) + ((n + (to - mid)) * price) \div TOKEN_UNIT
<1> DEFINE size == band_size(c)
           price == price_at_supply(c, j * size)
           n == BandTokens(c, j, from, mid)
           l == j * size
           u == (j + 1) * size
           S == 0..(mid \div size)
           T == 0..(to \div size)
           f == Values(c, from, mid)
           h == Values(c, from, to)
           g == [k \in S |-> h[k]]
<1>1. /\ size \in Nat \ {0} /\ l \in Nat /\ u = l + size /\ u \in Nat
      /\ l <= mid /\ mid < l + size
  BY BandEnds, Division DEF IsCurve
<1>2. /\ IsFiniteSet(S) /\ f \in [S -> Nat] /\ Worth(c, from, mid) = SumFunction(f)
      /\ IsFiniteSet(T) /\ h \in [T -> Nat] /\ Worth(c, from, to) = SumFunction(h)
  <2>1. from <= to
    OBVIOUS
  <2> QED
    BY <2>1, WorthTyped
<1>3. /\ n \in Nat
      /\ \A k \in Nat : BandTokens(c, k, from, to)
                          = BandTokens(c, k, from, mid) + (IF k = j THEN to - mid ELSE 0)
  <2>1. band_size(c) \in Nat
    BY <1>1
  <2>2. \A k \in Nat : BandTokens(c, k, from, to)
                         = BandTokens(c, k, from, mid) + BandTokens(c, k, mid, to)
    BY ONLY <2>1, from \in Nat, mid \in Nat, to \in Nat, from <= mid, mid <= to, BandTokensAdd
  <2>3. \A k \in Nat : BandTokens(c, k, mid, to) = IF k = j THEN to - mid ELSE 0
    <3>1. j * band_size(c) <= mid /\ to <= (j + 1) * band_size(c)
      BY <1>1
    <3> QED
      BY ONLY <2>1, <3>1, mid \in Nat, to \in Nat, mid <= to, j \in Nat, BandTokensOf
  <2> QED
    BY <2>1, <2>2, <2>3, BandTokensNat
<1>4. /\ f[j] = (n * price) \div TOKEN_UNIT /\ j \in S
      /\ \A k \in S : k \in T
      /\ g \in [S -> Nat] /\ g[j] = ((n + (to - mid)) * price) \div TOKEN_UNIT
      /\ \A k \in S \ {j} : g[k] = f[k]
  <2>1. S = 0..j
    OBVIOUS
  <2>2. mid \div size <= to \div size /\ to \div size \in Nat
    <3> HIDE DEF size
    <3> QED
      BY <1>1, DivisionMonotonic, Division
  <2>3. j \in S /\ \A k \in S : k \in T /\ k \in Nat
    BY <2>1, <2>2
  <2>4. g \in [S -> Nat]
    <3> HIDE DEF S, T, h
    <3> QED
      BY <1>2, <2>3
  <2>5. f[j] = (n * price) \div TOKEN_UNIT
    BY <2>3 DEF Values, BandValue
  <2>6. h[j] = ((n + (to - mid)) * price) \div TOKEN_UNIT
    <3>1. BandTokens(c, j, from, to) = n + (to - mid)
      BY <1>3
    <3> HIDE DEF n
    <3> QED
      BY <2>3, <3>1 DEF Values, BandValue
  <2>7. ASSUME NEW k \in S \ {j} PROVE h[k] = f[k]
    <3>1. BandTokens(c, k, from, to) = BandTokens(c, k, from, mid)
      <4>1. k \in Nat /\ k # j
        BY <2>3
      <4>2. BandTokens(c, k, from, to) = BandTokens(c, k, from, mid) + 0
        BY <1>3, <4>1
      <4>3. BandTokens(c, k, from, mid) \in Nat
        BY <1>1, <4>1, BandTokensNat
      <4> QED
        BY <4>2, <4>3
    <3> QED
      BY <2>3, <3>1 DEF Values, BandValue
  <2> HIDE DEF S, T, f, h, n, price
  <2> QED
    BY <2>3, <2>4, <2>5, <2>6, <2>7
<1>5. SumFunction(h) = SumFunction(g)
  <2> DEFINE i == to \div size
  <2>1. CASE to < u
    <3>1. l <= to /\ to < l + size
      <4> HIDE DEF l, u, size
      <4> QED
        BY <1>1, <2>1
    <3>2. i = j
      BY <1>1, <3>1, DivisionUnique
    <3>3. T = S
      BY <3>2
    <3> HIDE DEF S, T, h
    <3>4. g = h
      BY <1>2, <3>3
    <3> QED
      BY <3>4
  <2>2. CASE to = u
    <3>1. u <= to /\ to < u + size
      <4> HIDE DEF l, u, size
      <4> QED
        BY <1>1, <2>2
    <3>2. i = j + 1
      <4>1. j + 1 \in Nat
        OBVIOUS
      <4> QED
        BY <1>1, <3>1, <4>1, DivisionUnique
    <3>3. T = S \cup {j + 1} /\ j + 1 \notin S
      BY <3>2
    <3>4. h[j + 1] = 0
      <4>1. BandTokens(c, j + 1, from, to) = 0
        <5>1. (j + 1) + 1 \in Nat /\ ((j + 1) + 1) * size \in Nat
          BY <1>1, ProductNat
        <5> DEFINE w == ((j + 1) + 1) * size
        <5>2. BandTokens(c, j + 1, from, to)
                = LET low == IF from > u THEN from ELSE u
                      high == IF to <= w THEN to ELSE w
                  IN  IF high <= low THEN 0 ELSE high - low
          BY DEF BandTokens, least
        <5>3. w \in Nat
          BY <5>1
        <5> HIDE DEF u, w
        <5> QED
          BY <1>1, <2>2, <5>2, <5>3
      <4>2. price_at_supply(c, (j + 1) * size) \in Nat
        BY BandPrice
      <4>3. ASSUME NEW x \in Nat PROVE (0 * x) \div TOKEN_UNIT = 0
        BY TokenUnitAssumption
      <4>4. BandValue(c, j + 1, from, to) = 0
        BY <4>1, <4>2, <4>3 DEF BandValue
      <4>5. j + 1 \in T
        BY <3>3
      <4> QED
        BY <4>4, <4>5 DEF Values
    <3>5. /\ h \in [S \cup {j + 1} -> Nat] /\ g \in [S -> Nat]
          /\ \A k \in S \ {j + 1} : h[k] = g[k]
      <4> HIDE DEF S, T, h
      <4> QED
        BY <1>2, <1>4, <3>3
    <3> HIDE DEF S, T, h, g
    <3>6. SumFunction(h) + (IF j + 1 \in S THEN g[j + 1] ELSE 0) = SumFunction(g) + h[j + 1]
      BY ONLY <1>2, <3>5, SumChanges
    <3>7. /\ SumFunction(h) + 0 = SumFunction(g) + 0
          /\ SumFunction(g) \in Nat /\ SumFunction(h) \in Nat
      BY <1>2, <3>3, <3>4, <3>5, <3>6, SumIsNat
    <3> QED
      BY <3>7
  <2>3. to < u \/ to = u
    <3>1. to <= u
      OBVIOUS
    <3> HIDE DEF u
    <3> QED
      BY <1>1, <3>1
  <2> QED
    BY <2>1, <2>2, <2>3
<1>6. SumFunction(g) + f[j] = SumFunction(f) + g[j]
  <2>1. S \cup {j} = S
    BY <1>4
  <2> HIDE DEF S, T, f, g, h
  <2>2. /\ IsFiniteSet(S) /\ f \in [S -> Nat] /\ g \in [S \cup {j} -> Nat]
        /\ \A k \in S \ {j} : g[k] = f[k]
    BY <1>2, <1>4, <2>1
  <2>3. SumFunction(g) + (IF j \in S THEN f[j] ELSE 0) = SumFunction(f) + g[j]
    BY ONLY <2>2, SumChanges
  <2> QED
    BY <1>4, <2>3
<1> HIDE DEF f, g, h, S, T
<1>7. Worth(c, from, to) + (n * price) \div TOKEN_UNIT
        = Worth(c, from, mid) + ((n + (to - mid)) * price) \div TOKEN_UNIT
  BY <1>2, <1>4, <1>5, <1>6
<1> QED
  BY <1>3, <1>7

(* So what is paid for those tokens, at no less than the price of the      *)
(* band's start, covers the change.                                        *)
LEMMA PaidCoversWorth ==
  ASSUME NEW c, IsCurve(c), NEW j \in Nat, NEW from \in Nat, NEW mid \in Nat, NEW to \in Nat,
         from <= mid, mid <= to, mid \div band_size(c) = j, to <= (j + 1) * band_size(c),
         NEW price \in Nat, price_at_supply(c, j * band_size(c)) <= price,
         NEW cost \in Nat, (to - mid) * price <= cost * TOKEN_UNIT
  PROVE  Worth(c, from, to) <= Worth(c, from, mid) + cost
<1> DEFINE low == price_at_supply(c, j * band_size(c))
           n == BandTokens(c, j, from, mid)
           t == to - mid
           x == n * low
           y == t * low
           before == Worth(c, from, mid)
           after == Worth(c, from, to)
<1>1. low \in Nat /\ t \in Nat
  BY BandPrice
<1>2. /\ n \in Nat
      /\ after + (n * low) \div TOKEN_UNIT = before + ((n + t) * low) \div TOKEN_UNIT
  BY WorthAbove
<1>3. before \in Nat /\ after \in Nat
  <2>1. from <= to
    OBVIOUS
  <2> QED
    BY <2>1, WorthTyped
<1>4. low <= price /\ t * price <= cost * TOKEN_UNIT
  OBVIOUS
<1> HIDE DEF low, n, t, before, after
<1>5. x \in Nat /\ y \in Nat /\ (n + t) * low = x + y
  <2>1. x \in Nat /\ y \in Nat
    BY <1>1, <1>2, ProductNat
  <2>2. (n + t) * low = n * low + t * low
    BY <1>1, <1>2, SMT
  <2> QED
    BY <2>1, <2>2
<1>6. y <= cost * TOKEN_UNIT
  <2>1. ASSUME NEW a \in Nat, NEW b \in Nat, a <= b PROVE t * a <= t * b
    BY <1>1, <2>1, SMTT(30)
  <2>2. y <= t * price
    BY <1>1, <1>4, <2>1
  <2>3. t * price \in Nat /\ cost * TOKEN_UNIT \in Nat
    BY <1>1, ProductNat, TokenUnitAssumption
  <2> HIDE DEF y
  <2> QED
    BY <1>4, <1>5, <2>2, <2>3
<1> HIDE DEF x, y
<1>7. (x + y) \div TOKEN_UNIT <= x \div TOKEN_UNIT + cost
  BY <1>5, <1>6, CoveredFloor, TokenUnitAssumption
<1>8. after + x \div TOKEN_UNIT = before + (x + y) \div TOKEN_UNIT
  BY <1>2, <1>5 DEF x
<1>9. x \div TOKEN_UNIT \in Nat /\ (x + y) \div TOKEN_UNIT \in Nat
  BY <1>5, Division, TokenUnitAssumption
<1>10. after <= before + cost
  BY <1>3, <1>7, <1>8, <1>9
<1> QED
  BY <1>10 DEF after, before

(* A pass that buys stays in the band of its cursor and pays at least the  *)
(* price where the cursor is; it fills the band, or leaves less than one   *)
(* base unit costs there.                                                  *)
LEMMA BuyBandPays ==
  ASSUME NEW c, IsCurve(c), NEW v \in Walk, ~BuyOver(c, v)
  PROVE  \/ BuyBand(c, v) = [v EXCEPT !.ok = FALSE]
         \/ \E tokens, cost \in Nat :
              /\ BuyBand(c, v) = Advance(v, cost, v.cursor + tokens, tokens, cost)
              /\ cost <= v.remaining /\ (tokens = 0 => cost = 0)
              /\ tokens * price_at_supply(c, v.cursor) <= cost * TOKEN_UNIT
              /\ v.cursor + tokens <= (v.cursor \div band_size(c) + 1) * band_size(c)
              /\ v.cursor + tokens
                   <= next_band_end(v.cursor, band_size(c), c.token_supply)
              /\ \/ v.cursor + tokens
                      = next_band_end(v.cursor, band_size(c), c.token_supply)
                 \/ (v.remaining - cost) * TOKEN_UNIT < price_at_supply(c, v.cursor)
<1> DEFINE price == price_at_supply(c, v.cursor)
           end == next_band_end(v.cursor, band_size(c), c.token_supply)
           raw == raw_band_end(v.cursor, band_size(c))
           most == (v.remaining * TOKEN_UNIT) \div price
           tokens == least(most, end - v.cursor)
           cost == ceil_div(tokens * price, TOKEN_UNIT)
<1> SUFFICES ASSUME raw \in U64
             PROVE  /\ tokens \in Nat /\ cost \in Nat
                    /\ BuyBand(c, v) = Advance(v, cost, v.cursor + tokens, tokens, cost)
                    /\ cost <= v.remaining /\ (tokens = 0 => cost = 0)
                    /\ tokens * price <= cost * TOKEN_UNIT
                    /\ v.cursor + tokens <= raw /\ v.cursor + tokens <= end
                    /\ v.cursor + tokens = end \/ (v.remaining - cost) * TOKEN_UNIT < price
  <2>1. raw = (v.cursor \div band_size(c) + 1) * band_size(c)
    BY DEF raw_band_end
  <2>2. raw \notin U64 => BuyBand(c, v) = [v EXCEPT !.ok = FALSE]
    BY DEF BuyBand
  <2> HIDE DEF raw, tokens, cost
  <2> QED
    BY <2>1, <2>2
<1> USE TokenUnitAssumption
<1>1. /\ v.cursor \in Nat /\ v.remaining \in Nat /\ v.cursor < c.token_supply
      /\ c \in SigmoidConfig /\ ValidSigmoid(c) /\ band_size(c) \in Nat \ {0}
      /\ c.token_supply \in Nat
  BY BandNat DEF Walk, BuyOver, IsCurve
<1>2. price \in Nat \ {0}
  BY <1>1, PriceInRange
<1>3. BuyBand(c, v) = Advance(v, cost, v.cursor + tokens, tokens, cost)
  BY DEF BuyBand, BuyAtPrice, PayFor, Affordable
<1>4. end \in Nat /\ v.cursor < end
  BY <1>1, BandAhead
<1>5. raw \in Nat /\ end <= raw
  BY <1>1, U64Assumption DEF next_band_end, least, U64
<1>6. (BuyBand(c, v)).remaining \in Nat
  <2>1. BuyBand(c, v) \in Walk
    BY <1>1, BuyBandTyped
  <2> QED
    BY <2>1 DEF Walk
<1> HIDE DEF price, end, raw
<1>7. /\ most \in Nat /\ v.remaining * TOKEN_UNIT \in Nat
      /\ v.remaining * TOKEN_UNIT < most * price + price
  <2>1. v.remaining * TOKEN_UNIT \in Nat
    BY <1>1, ProductNat
  <2> QED
    BY <1>2, <2>1, Division
<1> HIDE DEF most
<1>8. /\ tokens \in Nat /\ v.cursor + tokens <= raw /\ v.cursor + tokens <= end
      /\ v.cursor + tokens = end \/ tokens = most
  BY <1>1, <1>4, <1>5, <1>7 DEF least
<1> HIDE DEF tokens
<1>9. tokens * price \in Nat
  BY <1>2, <1>8, ProductNat
<1>10. cost \in Nat /\ tokens * price <= cost * TOKEN_UNIT
  BY <1>9, CeilDivision
<1>11. tokens = 0 => cost = 0
  <2>1. ASSUME tokens = 0 PROVE tokens * price + TOKEN_UNIT - 1 = TOKEN_UNIT - 1
    BY <1>2, <2>1
  <2>2. (TOKEN_UNIT - 1) \div TOKEN_UNIT = 0
    <3>1. TOKEN_UNIT - 1 \in Nat /\ 0 * TOKEN_UNIT <= TOKEN_UNIT - 1
          /\ TOKEN_UNIT - 1 < 0 * TOKEN_UNIT + TOKEN_UNIT
      OBVIOUS
    <3> QED
      BY <3>1, DivisionUnique
  <2> QED
    BY <2>1, <2>2 DEF ceil_div
<1> HIDE DEF cost
<1>12. cost <= v.remaining
  <2>1. (BuyBand(c, v)).remaining = v.remaining - cost
    BY <1>3 DEF Advance
  <2> QED
    BY <1>1, <1>6, <1>10, <2>1
<1>13. ASSUME tokens = most PROVE (v.remaining - cost) * TOKEN_UNIT < price
  <2>1. (v.remaining - cost) * TOKEN_UNIT = v.remaining * TOKEN_UNIT - cost * TOKEN_UNIT
    BY <1>1, <1>10, SMTT(30)
  <2>2. cost * TOKEN_UNIT \in Nat
    BY <1>10, ProductNat
  <2>3. v.remaining * TOKEN_UNIT < tokens * price + price
    BY <1>7, <1>13
  <2>4. ASSUME NEW i \in Int, NEW j \in Int, NEW k \in Int, NEW l \in Int,
               i < k + l, k <= j
        PROVE  i - j < l
    BY <2>4
  <2> QED
    BY <1>2, <1>7, <1>9, <1>10, <2>1, <2>2, <2>3, <2>4
<1> QED
  BY <1>3, <1>8, <1>10, <1>11, <1>12, <1>13

(* What a buy is quoted to spend covers the worth of what it is quoted to  *)
(* buy, counted with or without the tokens sold before it.                 *)
LEMMA BuyCoversWorth ==
  ASSUME NEW c, IsCurve(c), NEW from \in Nat, NEW sold \in Nat, from <= sold,
         NEW sol_in \in Nat,
         RisesBelow(c, sold + quote_sigmoid_buy(c, sold, sol_in).amount_out)
  PROVE  LET q == quote_sigmoid_buy(c, sold, sol_in)
         IN  Worth(c, from, sold + q.amount_out) <= Worth(c, from, sold) + q.gross_sol
<1> DEFINE q == quote_sigmoid_buy(c, sold, sol_in)
           w == BuyWalk(c, sold, sol_in)
           Covered(v) == Worth(c, from, v.cursor) <= Worth(c, from, sold) + v.sol
           I == {v \in Walk : /\ v.cursor = sold + v.tokens
                              /\ RisesBelow(c, v.cursor) => Covered(v)}
<1>1. /\ c \in SigmoidConfig /\ ValidSigmoid(c) /\ band_size(c) \in Nat \ {0}
      /\ band_size(c) # 0 /\ c.token_supply \in Nat
  BY BandNat DEF IsCurve
<1>2. Worth(c, from, sold) \in Nat
  BY WorthTyped
<1>3. ASSUME q = NoQuote PROVE Worth(c, from, sold + q.amount_out) <= Worth(c, from, sold) + q.gross_sol
  <2>1. sold + q.amount_out = sold /\ q.gross_sol = 0
    BY <1>3 DEF NoQuote
  <2> HIDE DEF q
  <2> QED
    BY <1>2, <2>1
<1>4. CASE sol_in = 0
  BY <1>3, <1>4 DEF quote_sigmoid_buy
<1>5. CASE sol_in # 0
  <2>1. PICK run : /\ IsRun(run, Walk, BuyEnds(c), BuyStep(c))
                   /\ w = run[WalkFrom(sold, sol_in)]
    BY <1>1, BuyWalkRuns
  <2>2. WalkFrom(sold, sol_in) \in I
    <3>1. /\ WalkFrom(sold, sol_in) \in Walk
          /\ WalkFrom(sold, sol_in).cursor = sold
          /\ WalkFrom(sold, sol_in).tokens = 0
          /\ WalkFrom(sold, sol_in).sol = 0
      BY StepsAssumption DEF WalkFrom, Walk
    <3> QED
      BY <1>2, <3>1
  <2>3. ASSUME NEW v \in I, v \notin BuyEnds(c) PROVE BuyStep(c)[v] \in I
    <3>1. v \in Walk /\ ~BuyOver(c, v) /\ BuyStep(c)[v] = BuyBand(c, v)
      BY <2>3 DEF BuyEnds, BuyStep
    <3>2. BuyBand(c, v) \in Walk
      BY <1>1, <3>1, BuyBandTyped
    <3>3. v.cursor \in Nat /\ v.tokens \in Nat /\ v.sol \in Nat /\ v.cursor = sold + v.tokens
      BY <3>1 DEF Walk
    <3>4. CASE BuyBand(c, v) = [v EXCEPT !.ok = FALSE]
      <4>1. /\ BuyBand(c, v).cursor = v.cursor /\ BuyBand(c, v).tokens = v.tokens
            /\ BuyBand(c, v).sol = v.sol
        BY <3>1, <3>4 DEF Walk
      <4> QED
        BY <3>1, <3>2, <4>1
    <3>5. CASE BuyBand(c, v) # [v EXCEPT !.ok = FALSE]
      <4>1. PICK tokens \in Nat, cost \in Nat :
              /\ BuyBand(c, v) = Advance(v, cost, v.cursor + tokens, tokens, cost)
              /\ v.cursor + tokens <= (v.cursor \div band_size(c) + 1) * band_size(c)
              /\ tokens * price_at_supply(c, v.cursor) <= cost * TOKEN_UNIT
        BY <3>1, <3>5, BuyBandPays
      <4> DEFINE next == BuyBand(c, v)
                 to == v.cursor + tokens
                 j == v.cursor \div band_size(c)
      <4>2. /\ next.cursor = to /\ next.tokens = v.tokens + tokens
            /\ next.sol = v.sol + cost
        BY <4>1 DEF Advance
      <4>3. next.cursor = sold + next.tokens
        <5> HIDE DEF next
        <5> QED
          BY <3>3, <4>1, <4>2
      <4>4. ASSUME RisesBelow(c, to) PROVE Worth(c, from, to) <= Worth(c, from, sold) + (v.sol + cost)
        <5>1. CASE tokens = 0
          <6>1. to = v.cursor
            BY <3>3, <5>1
          <6>2. Worth(c, from, v.cursor) <= Worth(c, from, sold) + v.sol
            BY <4>4, <6>1
          <6>3. Worth(c, from, v.cursor) \in Nat
            <7>1. from <= v.cursor
              BY <3>3
            <7> QED
              BY <3>3, <7>1, WorthTyped
          <6> HIDE DEF to
          <6> QED
            BY <1>2, <3>3, <4>1, <6>1, <6>2, <6>3
        <5>2. CASE tokens # 0
          <6>1. /\ v.cursor \in 0..to - 1
                /\ \A s \in 0..v.cursor - 1 : s \in 0..to - 1
                /\ to \in Nat /\ from <= v.cursor /\ v.cursor <= to /\ to - v.cursor = tokens
            BY <3>3, <4>1, <5>2
          <6>2. RisesBelow(c, v.cursor)
            <7> HIDE DEF to
            <7> QED
              BY <4>4, <6>1 DEF RisesBelow
          <6>3. Worth(c, from, v.cursor) <= Worth(c, from, sold) + v.sol
            BY <6>2
          <6>4. price_at_supply(c, j * band_size(c)) <= price_at_supply(c, v.cursor)
            <7> HIDE DEF to
            <7> QED
              BY <4>4, <6>1 DEF RisesBelow
          <6>5. j \in Nat /\ price_at_supply(c, v.cursor) \in Nat
            BY <1>1, <3>3, Division, PriceInRange
          <6>6. /\ to <= (j + 1) * band_size(c)
                /\ (to - v.cursor) * price_at_supply(c, v.cursor) <= cost * TOKEN_UNIT
            BY <4>1, <6>1
          <6>7. v.cursor \div band_size(c) = j
            OBVIOUS
          <6> HIDE DEF to, j
          <6>8. Worth(c, from, to) <= Worth(c, from, v.cursor) + cost
            BY ONLY IsCurve(c), from \in Nat, cost \in Nat, <3>3, <6>1, <6>4, <6>5, <6>6, <6>7,
                    PaidCoversWorth
          <6>9. Worth(c, from, v.cursor) \in Nat /\ Worth(c, from, to) \in Nat
            <7>1. from <= to
              BY <3>3, <6>1
            <7> QED
              BY <3>3, <6>1, <7>1, WorthTyped
          <6> QED
            BY <1>2, <3>3, <4>1, <6>3, <6>8, <6>9
        <5> QED
          BY <5>1, <5>2
      <4> HIDE DEF next, to
      <4> QED
        BY <3>1, <3>2, <4>2, <4>3, <4>4 DEF next
    <3> QED
      BY <3>4, <3>5
  <2>4. w \in I
    <3> HIDE DEF I, w
    <3>1. I \subseteq Walk
      BY DEF I
    <3> QED
      BY <1>1, <2>1, <2>2, <2>3, <3>1, BuyIsWalk, RunKeeps
  <2>5. q = BuyQuote(w)
    BY <1>1, <1>5 DEF quote_sigmoid_buy
  <2>6. CASE w.ok
    <3>1. q.amount_out = w.tokens /\ q.gross_sol = w.sol
      <4> HIDE DEF q, w
      <4> QED
        BY <2>5, <2>6 DEF BuyQuote
    <3>2. w.cursor = sold + w.tokens /\ RisesBelow(c, w.cursor) => Covered(w)
      BY <2>4
    <3>3. RisesBelow(c, sold + q.amount_out) /\ w.cursor = sold + w.tokens
      BY <2>4
    <3> HIDE DEF q, w
    <3> QED
      BY <3>1, <3>2, <3>3 DEF q
  <2>7. CASE ~w.ok
    <3>1. q = NoQuote
      <4> HIDE DEF q, w
      <4> QED
        BY <2>5, <2>7 DEF BuyQuote
    <3> QED
      BY <1>3, <3>1
  <2> QED
    BY <2>6, <2>7
<1> QED
  BY <1>4, <1>5

-----------------------------------------------------------------------------
(* What a buy leaves unspent.                                              *)

(* Why a buy stops where it does: the supply is sold out, one more base    *)
(* unit costs more than remains, or every pass so far finished its band.   *)
Stopped(c, sold, v) ==
  \/ v.cursor = c.token_supply
  \/ v.remaining * TOKEN_UNIT < price_at_supply(c, v.cursor)
  \/ v.steps <= v.cursor \div band_size(c) - sold \div band_size(c)

(* The prices that rise as far as a supply rise as far as an earlier one.  *)
LEMMA RisesToo ==
  ASSUME NEW c, NEW from \in Nat, NEW mid \in Nat, NEW to \in Nat, mid <= to,
         RisesWithinBands(c, from, to)
  PROVE  RisesWithinBands(c, from, mid)
<1>1. from..mid \subseteq from..to
  OBVIOUS
<1> QED
  BY <1>1 DEF RisesWithinBands

(* A pass of a buy that does not stop leaves one of the three reasons.     *)
LEMMA BuyBandStops ==
  ASSUME NEW c, IsCurve(c), NEW sold \in Nat, NEW v \in Walk, v \notin BuyEnds(c),
         sold <= v.cursor, Stopped(c, sold, v), BuyBand(c, v).ok,
         RisesWithinBands(c, sold, BuyBand(c, v).cursor)
  PROVE  Stopped(c, sold, BuyBand(c, v))
<1> DEFINE next == BuyBand(c, v)
           size == band_size(c)
           k == v.cursor \div size
           price == price_at_supply(c, v.cursor)
<1>1. ~BuyOver(c, v) /\ ~NothingAffordable(v, next)
  BY DEF BuyEnds
<1>2. /\ v.cursor \in Nat /\ v.remaining \in Nat /\ v.steps \in Nat
      /\ v.cursor < c.token_supply /\ v.ok
      /\ c \in SigmoidConfig /\ ValidSigmoid(c) /\ size \in Nat \ {0}
      /\ c.token_supply \in Nat
  BY <1>1, BandNat DEF Walk, BuyOver, IsCurve
<1>3. PICK tokens \in Nat, cost \in Nat :
        /\ next = Advance(v, cost, v.cursor + tokens, tokens, cost)
        /\ cost <= v.remaining /\ (tokens = 0 => cost = 0)
        /\ tokens * price <= cost * TOKEN_UNIT
        /\ v.cursor + tokens <= next_band_end(v.cursor, size, c.token_supply)
        /\ \/ v.cursor + tokens = next_band_end(v.cursor, size, c.token_supply)
           \/ (v.remaining - cost) * TOKEN_UNIT < price
  <2>1. next # [v EXCEPT !.ok = FALSE]
    BY <1>2 DEF Walk
  <2> QED
    BY <1>1, <2>1, BuyBandPays
<1> DEFINE to == v.cursor + tokens
<1>4. /\ next.cursor = to /\ next.remaining = v.remaining - cost
      /\ next.steps = v.steps + 1
      /\ RisesWithinBands(c, sold, to)
  <2>1. next.cursor = to
    BY <1>3 DEF Advance
  <2> QED
    BY <1>3, <2>1 DEF Advance
<1>5. to \in Nat /\ tokens # 0 /\ v.cursor <= to /\ sold <= to
  BY <1>1, <1>2, <1>3, <1>4 DEF NothingAffordable
<1>6. /\ k \in Nat /\ k * size <= v.cursor
      /\ k * size \in Nat /\ (k + 1) * size = k * size + size
      /\ to \div size \in Nat /\ sold \div size \in Nat
  BY <1>2, <1>5, Division, BandEnds
<1> HIDE DEF next, to
<1>7. /\ price \in Nat \ {0}
      /\ price_at_supply(c, v.cursor) = price
  BY <1>2, PriceInRange
<1> HIDE DEF price
<1>8. v.steps <= k - sold \div size
  <2>1. ASSUME v.remaining * TOKEN_UNIT < price PROVE FALSE
    <3>1. tokens * price \in Nat /\ price <= tokens * price
      <4>1. tokens \in Nat \ {0}
        BY <1>5
      <4> QED
        BY <1>7, <4>1, SMTT(30)
    <3>2. cost * TOKEN_UNIT \in Nat /\ v.remaining * TOKEN_UNIT \in Nat
          /\ cost * TOKEN_UNIT <= v.remaining * TOKEN_UNIT
      BY <1>2, <1>3, TokenUnitAssumption, SMTT(30)
    <3> QED
      BY <1>3, <1>7, <2>1, <3>1, <3>2
  <2>2. v.cursor # c.token_supply
    BY <1>2
  <2> QED
    BY <1>7, <2>1, <2>2 DEF Stopped
<1>9. CASE to = (k + 1) * size
  <2>1. to \div size = k + 1
    <3>1. k + 1 \in Nat /\ (k + 1) * size <= to /\ to < (k + 1) * size + size
      BY <1>2, <1>5, <1>6, <1>9
    <3> QED
      BY <1>2, <1>5, <3>1, DivisionUnique
  <2> HIDE DEF k
  <2>2. next.steps <= to \div size - sold \div size
    BY <1>2, <1>4, <1>6, <1>8, <2>1
  <2> QED
    BY <1>4, <2>2 DEF Stopped, next
<1>10. CASE to < (k + 1) * size /\ (v.remaining - cost) * TOKEN_UNIT < price
  <2>1. to \div size = k
    <3>1. k * size <= to /\ to < k * size + size
      BY <1>2, <1>5, <1>6, <1>10
    <3> QED
      BY <1>2, <1>5, <1>6, <3>1, DivisionUnique
  <2>2. price <= price_at_supply(c, to)
    <3>1. v.cursor \in sold..to /\ to \in sold..to
      BY <1>2, <1>5
    <3>2. v.cursor \div size = to \div size
      BY <2>1
    <3> HIDE DEF size
    <3>3. price_at_supply(c, v.cursor) <= price_at_supply(c, to)
      BY <1>4, <1>5, <3>1, <3>2 DEF RisesWithinBands, size
    <3> QED
      BY <1>7, <3>3
  <2>3. price_at_supply(c, to) \in Nat
    BY <1>2, <1>5, PriceInRange
  <2>4. (v.remaining - cost) * TOKEN_UNIT \in Int
    BY <1>2, <1>3, TokenUnitAssumption
  <2>5. (v.remaining - cost) * TOKEN_UNIT < price_at_supply(c, to)
    BY <1>7, <1>10, <2>2, <2>3, <2>4
  <2> QED
    BY <1>4, <2>5 DEF Stopped, next
<1>11. \/ to = c.token_supply
       \/ to = (k + 1) * size
       \/ to < (k + 1) * size /\ (v.remaining - cost) * TOKEN_UNIT < price
  <2> DEFINE end == next_band_end(v.cursor, size, c.token_supply)
  <2>1. end <= (k + 1) * size /\ end \in Nat /\ (end = c.token_supply \/ end = (k + 1) * size)
    BY <1>2, <1>6 DEF next_band_end, raw_band_end, least
  <2>2. to <= end /\ (to = end \/ (v.remaining - cost) * TOKEN_UNIT < price)
    BY <1>3 DEF to
  <2> HIDE DEF end, k
  <2> QED
    BY <1>2, <1>5, <1>6, <2>1, <2>2
<1>12. to = c.token_supply => Stopped(c, sold, next)
  BY <1>4 DEF Stopped, next
<1> QED
  BY <1>9, <1>10, <1>11, <1>12 DEF next

(* A supply ends in the band of the unit before it, or starts the next.    *)
LEMMA BandOfLast ==
  ASSUME NEW n \in Nat, NEW size \in Nat \ {0}
  PROVE  /\ (n - 1) \div size \in Int
         /\ n \div size <= (n - 1) \div size + 1
<1> DEFINE r == (n - 1) \div size
<1>1. CASE n = 0
  <2>1. (0 - 1) \div size = -1 /\ 0 \div size = 0
    OBVIOUS
  <2> QED
    BY <1>1, <2>1
<1>2. CASE n # 0
  <2>1. r \in Nat /\ n - 1 < r * size + size
    BY <1>2, Division
  <2> HIDE DEF r
  <2>2. r * size \in Nat /\ (r + 1) * size = r * size + size
    BY <2>1, BandEnds
  <2>3. n <= (r + 1) * size
    BY <2>1, <2>2
  <2>4. n \div size <= r + 1
    BY <2>1, <2>3, DivisionAtMost
  <2> QED
    BY <2>1, <2>4 DEF r
<1> QED
  BY <1>1, <1>2

(* A buy stops when the supply is sold out, when what remains does not pay *)
(* for one more base unit, or when it crossed as many bands as a quote     *)
(* may, on a curve whose prices rise within the bands it crossed.          *)
LEMMA BuyWalkStops ==
  ASSUME NEW c, IsCurve(c), NEW sold \in Nat, sold <= c.token_supply,
         NEW sol_in \in Nat, NEW w, w = BuyWalk(c, sold, sol_in),
         w.ok, RisesWithinBands(c, sold, sold + w.tokens)
  PROVE  /\ w.cursor = sold + w.tokens /\ w.remaining = sol_in - w.sol
         /\ \/ w.cursor = c.token_supply
            \/ w.remaining * TOKEN_UNIT < price_at_supply(c, w.cursor)
            \/ BandsBetween(c, sold, w.cursor) >= MAX_SIGMOID_STEPS
<1> DEFINE I == {v \in Walk :
                  /\ v.cursor = sold + v.tokens /\ v.remaining + v.sol = sol_in
                  /\ v.cursor <= c.token_supply
                  /\ v.ok /\ RisesWithinBands(c, sold, v.cursor) => Stopped(c, sold, v)}
<1>1. /\ c \in SigmoidConfig /\ ValidSigmoid(c) /\ band_size(c) \in Nat \ {0}
      /\ band_size(c) # 0 /\ c.token_supply \in Nat
  BY BandNat DEF IsCurve
<1>2. PICK run : /\ IsRun(run, Walk, BuyEnds(c), BuyStep(c))
                 /\ w = run[WalkFrom(sold, sol_in)]
  BY <1>1, BuyWalkRuns
<1>3. WalkFrom(sold, sol_in) \in I
  <2> DEFINE v == WalkFrom(sold, sol_in)
  <2>1. /\ v \in Walk /\ v.cursor = sold /\ v.tokens = 0 /\ v.sol = 0
        /\ v.remaining = sol_in /\ v.steps = 0
    BY StepsAssumption DEF WalkFrom, Walk
  <2> HIDE DEF v
  <2>2. sold \div band_size(c) \in Nat
    BY <1>1, Division
  <2>3. v.steps <= v.cursor \div band_size(c) - sold \div band_size(c)
    BY <2>1, <2>2
  <2> QED
    BY <2>1, <2>3 DEF Stopped, v
<1>4. ASSUME NEW v \in I, v \notin BuyEnds(c) PROVE BuyStep(c)[v] \in I
  <2> DEFINE next == BuyBand(c, v)
  <2>1. v \in Walk /\ ~BuyOver(c, v) /\ BuyStep(c)[v] = next
    BY <1>4 DEF BuyEnds, BuyStep
  <2>2. next \in Walk
    BY <1>1, <2>1, BuyBandTyped
  <2>3. /\ v.cursor \in Nat /\ v.tokens \in Nat /\ v.sol \in Nat /\ v.remaining \in Nat
        /\ v.cursor = sold + v.tokens /\ v.remaining + v.sol = sol_in
        /\ v.cursor < c.token_supply /\ v.ok
    BY <1>1, <2>1 DEF Walk, BuyOver
  <2>4. CASE next = [v EXCEPT !.ok = FALSE]
    <3>1. /\ next.cursor = v.cursor /\ next.tokens = v.tokens
          /\ next.sol = v.sol /\ next.remaining = v.remaining /\ ~next.ok
      BY <2>1, <2>4 DEF Walk
    <3> HIDE DEF next
    <3> QED
      BY <2>1, <2>2, <2>3, <3>1
  <2>5. CASE next # [v EXCEPT !.ok = FALSE]
    <3>1. PICK tokens \in Nat, cost \in Nat :
            /\ next = Advance(v, cost, v.cursor + tokens, tokens, cost)
            /\ cost <= v.remaining
            /\ v.cursor + tokens <= next_band_end(v.cursor, band_size(c), c.token_supply)
      BY <2>1, <2>5, BuyBandPays
    <3>2. /\ next.cursor = v.cursor + tokens /\ next.tokens = v.tokens + tokens
          /\ next.sol = v.sol + cost /\ next.remaining = v.remaining - cost /\ next.ok
      BY <2>3, <3>1 DEF Advance
    <3>3. next_band_end(v.cursor, band_size(c), c.token_supply) \in Nat
          /\ next_band_end(v.cursor, band_size(c), c.token_supply) <= c.token_supply
      BY ONLY <1>1, <2>3, BandAhead
    <3>4. ASSUME RisesWithinBands(c, sold, next.cursor) PROVE Stopped(c, sold, next)
      <4>1. v.cursor <= next.cursor /\ next.cursor \in Nat /\ sold <= v.cursor
        <5> HIDE DEF next
        <5> QED
          BY <2>3, <3>1, <3>2
      <4>2. RisesWithinBands(c, sold, v.cursor)
        <5> HIDE DEF next
        <5> QED
          BY <2>3, <3>4, <4>1, RisesToo
      <4>3. Stopped(c, sold, v)
        BY <2>3, <4>2
      <4> QED
        BY <1>4, <2>1, <3>2, <3>4, <4>1, <4>3, BuyBandStops
    <3> HIDE DEF next
    <3> QED
      BY <1>1, <2>1, <2>2, <2>3, <3>1, <3>2, <3>3, <3>4
  <2> QED
    BY <2>4, <2>5
<1>5. w \in I /\ w \in BuyEnds(c)
  <2> HIDE DEF I
  <2>1. I \subseteq Walk
    BY DEF I
  <2> QED
    BY <1>1, <1>2, <1>3, <1>4, <2>1, BuyIsWalk, RunKeeps
<1>6. /\ w \in Walk /\ Stopped(c, sold, w)
      /\ w.cursor = sold + w.tokens /\ w.remaining + w.sol = sol_in
      /\ w.cursor <= c.token_supply
      /\ w.cursor \in Nat /\ w.remaining \in Nat /\ w.sol \in Nat
      /\ w.tokens \in Nat
  BY <1>5 DEF Walk
<1>7. price_at_supply(c, w.cursor) \in Nat \ {0}
  BY <1>1, <1>6, PriceInRange
<1>8. CASE w.remaining = 0 \/ w.cursor >= c.token_supply
  <2>1. w.remaining = 0 => w.remaining * TOKEN_UNIT = 0
    BY TokenUnitAssumption
  <2>2. w.cursor = c.token_supply
          \/ w.remaining * TOKEN_UNIT < price_at_supply(c, w.cursor)
    BY ONLY <1>1, <1>6, <1>7, <1>8, <2>1
  <2>3. w.remaining = sol_in - w.sol
    BY ONLY <1>6, sol_in \in Nat
  <2> QED
    BY <1>6, <2>2, <2>3
<1>9. CASE w.steps = MAX_SIGMOID_STEPS
  <2>1. /\ w.cursor \div band_size(c) <= (w.cursor - 1) \div band_size(c) + 1
        /\ w.cursor \div band_size(c) \in Nat /\ sold \div band_size(c) \in Nat
        /\ (w.cursor - 1) \div band_size(c) \in Int
    BY ONLY <1>1, <1>6, sold \in Nat, BandOfLast, Division
  <2>2. w.steps <= w.cursor \div band_size(c) - sold \div band_size(c)
          => BandsBetween(c, sold, w.cursor) >= MAX_SIGMOID_STEPS
    BY <1>9, <2>1, StepsAssumption DEF BandsBetween
  <2>3. w.remaining = sol_in - w.sol
    BY ONLY <1>6, sol_in \in Nat
  <2> QED
    BY <1>6, <2>2, <2>3 DEF Stopped
<1>10. CASE ~BuyOver(c, w) /\ NothingAffordable(w, BuyBand(c, w))
  <2>1. BuyBand(c, w).ok /\ BuyBand(c, w).cursor = w.cursor
    BY <1>10 DEF NothingAffordable
  <2>2. PICK tokens \in Nat, cost \in Nat :
          /\ BuyBand(c, w) = Advance(w, cost, w.cursor + tokens, tokens, cost)
          /\ tokens = 0 => cost = 0
          /\ \/ w.cursor + tokens = next_band_end(w.cursor, band_size(c), c.token_supply)
             \/ (w.remaining - cost) * TOKEN_UNIT < price_at_supply(c, w.cursor)
    <3>1. BuyBand(c, w) # [w EXCEPT !.ok = FALSE]
      BY <1>6, <2>1 DEF Walk
    <3> QED
      BY <1>6, <1>10, <3>1, BuyBandPays
  <2>3. tokens = 0 /\ cost = 0
    <3>1. BuyBand(c, w).cursor = w.cursor + tokens
      BY <2>2 DEF Advance
    <3> QED
      BY <1>6, <2>1, <2>2, <3>1
  <2>4. w.cursor < c.token_supply
    BY ONLY <1>1, <1>6, <1>10 DEF BuyOver
  <2>5. w.cursor + tokens = w.cursor /\ w.remaining - cost = w.remaining
    BY <1>6, <2>3
  <2>6. /\ next_band_end(w.cursor, band_size(c), c.token_supply) \in Nat
        /\ w.cursor < next_band_end(w.cursor, band_size(c), c.token_supply)
    BY ONLY <1>1, <1>6, <2>4, BandAhead
  <2>7. w.remaining * TOKEN_UNIT < price_at_supply(c, w.cursor)
    BY ONLY <1>6, <2>2, <2>5, <2>6
  <2>8. w.remaining = sol_in - w.sol
    BY ONLY <1>6, sol_in \in Nat
  <2> QED
    BY <1>6, <2>7, <2>8
<1>11. w.remaining = 0 \/ w.cursor >= c.token_supply \/ w.steps = MAX_SIGMOID_STEPS
         \/ (~BuyOver(c, w) /\ NothingAffordable(w, BuyBand(c, w)))
  BY <1>5 DEF BuyEnds, BuyOver
<1> QED
  BY <1>6, <1>8, <1>9, <1>10, <1>11
-----------------------------------------------------------------------------
(* The shape of the curve: how far the price is from rising.               *)

(* The cubic that the smoothstep rounds, times the square of the           *)
(* denominator.                                                            *)
Cubic(t) == 30000 * (t * t) - 2 * ((t * t) * t)

(* It rises over the whole range.                                          *)
LEMMA CubicRises ==
  ASSUME NEW a \in Nat, NEW b \in Nat, a <= b, b <= 10000
  PROVE  Cubic(a) \in Int /\ Cubic(b) \in Int /\ Cubic(a) <= Cubic(b)
<1> DEFINE d == b - a
           x == a * a
           y == a * b
           z == b * b
           w == 30000 * (a + b) - 2 * (x + y + z)
<1>1. d \in Nat /\ b = a + d
  OBVIOUS
<1>2. /\ x \in Nat /\ y \in Nat /\ z \in Nat
      /\ x <= 10000 * a /\ z <= 10000 * b /\ y <= 10000 * a
  <2>2. x \in Nat /\ x <= 10000 * a
    BY ProductNat, SMTT(30)
  <2>3. z \in Nat /\ z <= 10000 * b
    BY SMTT(30)
  <2>4. y \in Nat /\ y <= 10000 * a
    <3>1. b * a \in Nat /\ b * a <= 10000 * a
      BY SMTT(30)
    <3>2. a * b = b * a
      OBVIOUS
    <3> QED
      BY <3>1, <3>2
  <2> HIDE DEF x, y, z
  <2> QED
    BY <2>2, <2>3, <2>4
<1>3. y <= 10000 * b
  <2>1. 10000 * a <= 10000 * b
    OBVIOUS
  <2> HIDE DEF y
  <2> QED
    BY <1>2, <2>1
<1>4. w \in Nat
  <2> HIDE DEF x, y, z
  <2> QED
    BY <1>2, <1>3
<1>5. d * w = Cubic(b) - Cubic(a)
  <2>1. ASSUME NEW i \in Int, NEW j \in Int
        PROVE  (j - i) * (30000 * (i + j) - 2 * (i * i + i * j + j * j))
                 = (30000 * (j * j) - 2 * ((j * j) * j)) - (30000 * (i * i) - 2 * ((i * i) * i))
    BY SMTT(30)
  <2> QED
    BY <2>1 DEF Cubic
<1>6. d * w \in Nat
  <2> HIDE DEF d, w
  <2> QED
    BY <1>1, <1>4, ProductNat
<1>7. Cubic(a) \in Int /\ Cubic(b) \in Int
  <2>1. ASSUME NEW i \in Int, NEW j \in Int PROVE i * j \in Int
    BY SMT
  <2>2. ASSUME NEW i \in Int PROVE Cubic(i) \in Int
    <3>1. i * i \in Int /\ (i * i) * i \in Int
      BY <2>1
    <3> HIDE DEF x
    <3> QED
      BY <3>1 DEF Cubic
  <2> QED
    BY <2>2
<1> DEFINE k == d * w
           ca == Cubic(a)
           cb == Cubic(b)
<1>8. k \in Nat /\ k = cb - ca /\ ca \in Int /\ cb \in Int
  BY <1>5, <1>6, <1>7
<1> HIDE DEF k, ca, cb
<1>9. ca <= cb
  BY <1>8
<1> QED
  BY <1>8, <1>9 DEF ca, cb

(* The smoothstep is within one of the cubic, and where the first of its   *)
(* two terms is a whole number it is not below it.                         *)
LEMMA SmoothstepNear ==
  ASSUME NEW t_bps \in Nat
  PROVE  LET t == least(t_bps, 10000)
             s == smoothstep_bps(t_bps)
         IN  /\ t \in 0..10000 /\ Cubic(t) \in Int /\ s \in Nat
             /\ s * (10000 * 10000) < Cubic(t) + (10000 * 10000)
             /\ Cubic(t) < s * (10000 * 10000) + (10000 * 10000)
             /\ \A m \in Nat : t = 100 * m => Cubic(t) <= s * (10000 * 10000)
<1> DEFINE t == least(t_bps, 10000)
           x == t * t
           y == x * t
           f == (3 * x) \div 10000
           g == (2 * y) \div 10000
           h == g \div 10000
<1>1. t \in 0..10000
  BY DEF least
<1>2. smoothstep_bps(t_bps) \in Nat
  BY SmoothstepRange
<1> HIDE DEF t
<1>3. x \in Nat /\ y \in Nat
  <2>1. t \in Nat
    BY <1>1
  <2>2. x \in Nat
    BY <2>1, ProductNat
  <2> HIDE DEF x
  <2> QED
    BY <2>1, <2>2, ProductNat
<1>4. smoothstep_bps(t_bps) = f - h
  <2>1. MulDiv(2 * t * t, t, 10000) = ((2 * t * t) * t) \div 10000
    <3> DEFINE a == 2 * t * t
    <3>1. a \in Nat
      BY <1>1, SMTT(30)
    <3> HIDE DEF a
    <3>2. MulDiv(a, t, 10000) = (a * t) \div 10000
      BY <1>1, <3>1, MulDivExact
    <3> QED
      BY <3>2 DEF a
  <2>2. (2 * t * t) * t = 2 * y /\ 3 * t * t = 3 * x
    BY <1>1, SMTT(30) DEF x, y
  <2> QED
    BY <2>1, <2>2 DEF smoothstep_bps, BPS_DENOMINATOR, t, f, g, h
<1>5. Cubic(t) = 30000 * x - 2 * y
  BY DEF Cubic
<1>6. ASSUME NEW m \in Nat, t = 100 * m PROVE f * 10000 = 3 * x
  <2> DEFINE n == m * m
  <2>1. n \in Nat
    BY ProductNat
  <2>2. x = 10000 * n
    BY <1>6, SMTT(30)
  <2> HIDE DEF n, x
  <2> QED
    BY <2>1, <2>2
<1> HIDE DEF x, y
<1>7. f \in Nat /\ f * 10000 <= 3 * x /\ 3 * x < f * 10000 + 10000
  BY <1>3
<1>8. g \in Nat /\ g * 10000 <= 2 * y /\ 2 * y < g * 10000 + 10000
  BY <1>3
<1> HIDE DEF f, g
<1>9. h \in Nat /\ h * 10000 <= g /\ g < h * 10000 + 10000
  BY <1>8
<1> HIDE DEF h
<1> DEFINE s == smoothstep_bps(t_bps)
<1>10. s \in Nat /\ s = f - h
  BY <1>2, <1>4
<1> HIDE DEF s
<1>11. /\ Cubic(t) \in Int
       /\ s * (10000 * 10000) < Cubic(t) + (10000 * 10000)
       /\ Cubic(t) < s * (10000 * 10000) + (10000 * 10000)
  BY <1>3, <1>5, <1>7, <1>8, <1>9, <1>10
<1>12. ASSUME NEW m \in Nat, t = 100 * m PROVE Cubic(t) <= s * (10000 * 10000)
  <2>1. f * 10000 = 3 * x
    BY <1>6, <1>12
  <2> QED
    BY <1>3, <1>5, <1>7, <1>8, <1>9, <1>10, <2>1
<1> QED
  BY <1>1, <1>10, <1>11, <1>12 DEF t, s

(* The rounding lets the smoothstep fall by one where it should rise, and  *)
(* by no more; below a whole hundred it is never above its value there.    *)
LEMMA SmoothstepRises ==
  ASSUME NEW a \in Nat, NEW b \in Nat, a <= b
  PROVE  /\ smoothstep_bps(a) <= smoothstep_bps(b) + 1
         /\ (\E m \in Nat : b = 100 * m) => smoothstep_bps(a) <= smoothstep_bps(b)
<1> DEFINE s == least(a, 10000)
           t == least(b, 10000)
           u == smoothstep_bps(a)
           v == smoothstep_bps(b)
           cs == Cubic(s)
           ct == Cubic(t)
<1>1. /\ s \in 0..10000 /\ cs \in Int /\ u \in Nat
      /\ u * (10000 * 10000) < cs + (10000 * 10000)
  BY SmoothstepNear
<1>2. /\ t \in 0..10000 /\ ct \in Int /\ v \in Nat
      /\ ct < v * (10000 * 10000) + (10000 * 10000)
      /\ \A m \in Nat : t = 100 * m => ct <= v * (10000 * 10000)
  BY SmoothstepNear
<1>3. cs <= ct
  <2>1. s <= t
    BY DEF least
  <2>2. s \in 0..10000 /\ t \in 0..10000
    BY <1>1, <1>2
  <2> HIDE DEF s, t
  <2>3. s \in Nat /\ t \in Nat /\ t <= 10000
    BY <2>2
  <2>4. Cubic(s) <= Cubic(t)
    BY <2>1, <2>3, CubicRises
  <2> QED
    BY <2>4
<1>4. ASSUME NEW m \in Nat, b = 100 * m PROVE \E k \in Nat : t = 100 * k
  <2>1. CASE b <= 10000
    BY <1>4, <2>1 DEF least
  <2>2. CASE ~(b <= 10000)
    <3>1. t = 100 * 100
      BY <2>2 DEF least
    <3> QED
      BY <3>1
  <2> QED
    BY <2>1, <2>2
<1> HIDE DEF s, t, u, v, cs, ct
<1>5. u <= v + 1
  BY <1>1, <1>2, <1>3
<1>6. ASSUME NEW m \in Nat, b = 100 * m PROVE u <= v
  <2>1. PICK k \in Nat : t = 100 * k
    BY <1>4, <1>6
  <2>2. ct <= v * (10000 * 10000)
    BY <1>2, <2>1
  <2> QED
    BY <1>1, <1>2, <1>3, <2>2
<1> QED
  BY <1>5, <1>6 DEF u, v

(* How much further along its half the easing puts a larger distance,      *)
(* before it is smoothed.                                                  *)
Adjusted(c, distance, side_range) ==
  (((distance * 10000) \div side_range) * c.steepness_bps) \div 10000

(* The easing follows the distance to within one basis point, and exactly  *)
(* where the further distance is eased to a whole hundred.                 *)
LEMMA HalfEasedRises ==
  ASSUME NEW c \in SigmoidConfig, NEW side \in Nat \ {0},
         NEW d \in Nat, NEW e \in Nat, d <= e
  PROVE  /\ half_eased(c, d, side) <= half_eased(c, e, side) + 1
         /\ (\E m \in Nat : Adjusted(c, e, side) = 100 * m)
              => half_eased(c, d, side) <= half_eased(c, e, side)
<1> DEFINE x == (d * 10000) \div side
           y == (e * 10000) \div side
           z == c.steepness_bps
           a == (x * z) \div 10000
           b == (y * z) \div 10000
<1>1. x \in Nat /\ y \in Nat /\ x <= y
  <2>1. d * 10000 \in Nat /\ e * 10000 \in Nat /\ d * 10000 <= e * 10000
    OBVIOUS
  <2> QED
    BY <2>1, Division, DivisionMonotonic
<1>2. z \in Nat
  BY U64Assumption DEF SigmoidConfig, U64
<1> HIDE DEF x, y, z
<1>3. a \in Nat /\ b \in Nat /\ a <= b
  <2>1. x * z \in Nat /\ y * z \in Nat
    BY <1>1, <1>2, ProductNat
  <2>2. x * z <= y * z
    BY <1>1, <1>2, SMTT(30)
  <2> QED
    BY <2>1, <2>2, Division, DivisionMonotonic
<1>4. Adjusted(c, e, side) = b
  BY DEF Adjusted, y, z, b
<1> DEFINE u == smoothstep_bps(a)
           v == smoothstep_bps(b)
<1>5. /\ half_eased(c, d, side) = (u * 5000) \div 10000
      /\ half_eased(c, e, side) = (v * 5000) \div 10000
  BY DEF half_eased, BPS_DENOMINATOR, u, v, a, b, x, y, z
<1> HIDE DEF a, b
<1>6. /\ u \in Nat /\ v \in Nat /\ u <= v + 1
      /\ (\E m \in Nat : b = 100 * m) => u <= v
  BY <1>3, SmoothstepRange, SmoothstepRises
<1> HIDE DEF u, v
<1>7. (u * 5000) \div 10000 <= (v * 5000) \div 10000 + 1
  BY <1>6
<1>8. ASSUME u <= v PROVE (u * 5000) \div 10000 <= (v * 5000) \div 10000
  BY <1>6, <1>8
<1> QED
  BY <1>4, <1>5, <1>6, <1>7, <1>8

(* Further along the curve the sigmoid is at most one basis point lower;   *)
(* below the midpoint it is no lower than at a supply that the easing puts *)
(* at a whole hundred.                                                     *)
LEMMA SigmoidRises ==
  ASSUME NEW c \in SigmoidConfig, ValidSigmoid(c),
         NEW s \in Nat, NEW t \in Nat, s <= t, t <= c.token_supply
  PROVE  LET mid == c.midpoint_supply
         IN  /\ sigmoid_bps(c, s) \in Nat /\ sigmoid_bps(c, t) \in Nat
             /\ sigmoid_bps(c, s) <= sigmoid_bps(c, t) + 1
             /\ t < mid /\ (\E m \in Nat : Adjusted(c, mid - s, mid) = 100 * m)
                  => sigmoid_bps(c, s) <= sigmoid_bps(c, t)
<1> DEFINE mid == c.midpoint_supply
           end == c.token_supply
<1>1. mid \in Nat \ {0} /\ end \in Nat /\ mid < end
  BY U64Assumption DEF SigmoidConfig, U64, ValidSigmoid
<1> HIDE DEF mid, end
<1>2. CASE t < mid
  <2> DEFINE u == half_eased(c, mid - s, mid)
             v == half_eased(c, mid - t, mid)
  <2>1. sigmoid_bps(c, s) = 5000 - u /\ sigmoid_bps(c, t) = 5000 - v
    BY <1>1, <1>2 DEF sigmoid_bps, mid
  <2>2. mid - s \in Nat /\ mid - t \in Nat /\ mid - t <= mid - s
    BY <1>1, <1>2
  <2>3. u \in Nat /\ u <= 5000 /\ v \in Nat /\ v <= 5000
    BY <1>1, <2>2, HalfEasedRange
  <2>4. /\ v <= u + 1
        /\ (\E m \in Nat : Adjusted(c, mid - s, mid) = 100 * m) => v <= u
    BY <1>1, <2>2, HalfEasedRises
  <2> HIDE DEF u, v
  <2> QED
    BY <2>1, <2>3, <2>4 DEF mid
<1>3. CASE ~(t < mid) /\ s < mid
  <2> DEFINE u == half_eased(c, mid - s, mid)
             v == half_eased(c, t - mid, end - mid)
  <2>1. sigmoid_bps(c, s) = 5000 - u /\ sigmoid_bps(c, t) = 5000 + v
    BY <1>1, <1>3 DEF sigmoid_bps, mid, end
  <2>2. mid - s \in Nat /\ t - mid \in Nat /\ end - mid \in Nat \ {0}
    BY <1>1, <1>3
  <2>3. u \in Nat /\ u <= 5000 /\ v \in Nat /\ v <= 5000
    BY <1>1, <2>2, HalfEasedRange
  <2> HIDE DEF u, v
  <2> QED
    BY <1>3, <2>1, <2>3 DEF mid
<1>4. CASE ~(t < mid) /\ ~(s < mid)
  <2> DEFINE u == half_eased(c, s - mid, end - mid)
             v == half_eased(c, t - mid, end - mid)
  <2>1. sigmoid_bps(c, s) = 5000 + u /\ sigmoid_bps(c, t) = 5000 + v
    BY <1>1, <1>4 DEF sigmoid_bps, mid, end
  <2>2. s - mid \in Nat /\ t - mid \in Nat /\ end - mid \in Nat \ {0}
        /\ s - mid <= t - mid
    BY <1>1, <1>4
  <2>3. u \in Nat /\ u <= 5000 /\ v \in Nat /\ v <= 5000
    BY <1>1, <2>2, HalfEasedRange
  <2>4. u <= v + 1
    BY <1>1, <2>2, HalfEasedRises
  <2> HIDE DEF u, v
  <2> QED
    BY <1>4, <2>1, <2>3, <2>4 DEF mid
<1> QED
  BY <1>2, <1>3, <1>4

(* The price is the floor and the sigmoid's share of the range.            *)
LEMMA PriceOfSigmoid ==
  ASSUME NEW c \in SigmoidConfig, ValidSigmoid(c),
         NEW s \in Nat, s <= c.token_supply
  PROVE  price_at_supply(c, s)
           = ((c.cap_price_lamports - c.floor_price_lamports) * sigmoid_bps(c, s))
               \div 10000 + c.floor_price_lamports
<1>1. c.token_supply \in Nat
  BY U64Assumption DEF SigmoidConfig, U64
<1>2. least(s, c.token_supply) = s
  BY <1>1 DEF least
<1> QED
  BY <1>2 DEF price_at_supply, BPS_DENOMINATOR

(* Tokens further along a valid curve are cheaper by at most a ten         *)
(* thousandth of its price range, rounded up: the price is not monotonic   *)
(* to the unit (math/sigmoid.rs rounds both terms of the smoothstep), but  *)
(* it never falls by more than one step of the sigmoid.                    *)
THEOREM PriceDipsLittle ==
  ASSUME NEW c \in SigmoidConfig, ValidSigmoid(c),
         NEW s \in Nat, NEW t \in Nat, s <= t
  PROVE  price_at_supply(c, s)
           <= price_at_supply(c, t)
                + ceil_div(c.cap_price_lamports - c.floor_price_lamports, 10000)
<1> DEFINE end == c.token_supply
           i == least(s, end)
           j == least(t, end)
           r == c.cap_price_lamports - c.floor_price_lamports
           u == sigmoid_bps(c, i)
           v == sigmoid_bps(c, j)
           f == c.floor_price_lamports
<1>1. end \in Nat /\ r \in Nat /\ f \in Nat
  BY U64Assumption DEF SigmoidConfig, U64, ValidSigmoid
<1>2. i \in Nat /\ j \in Nat /\ i <= j /\ j <= end
  BY <1>1 DEF least
<1>3. /\ price_at_supply(c, s) = (r * u) \div 10000 + f
      /\ price_at_supply(c, t) = (r * v) \div 10000 + f
  BY DEF price_at_supply, BPS_DENOMINATOR
<1>4. u \in Nat /\ v \in Nat /\ u <= v + 1
  <2> HIDE DEF i, j
  <2> QED
    BY <1>2, SigmoidRises
<1>5. ceil_div(r, 10000) = (r + 9999) \div 10000
  BY <1>1 DEF ceil_div
<1> HIDE DEF u, v, i, j
<1> DEFINE x == r * u
           y == r * v
<1>6. x \in Nat /\ y \in Nat /\ x <= y + r
  <2> HIDE DEF r
  <2>1. r * u <= r * (v + 1) /\ r * (v + 1) = r * v + r
    BY <1>1, <1>4, SMTT(30)
  <2>2. r * u \in Nat /\ r * v \in Nat
    BY <1>1, <1>4, ProductNat
  <2> QED
    BY <1>1, <2>1, <2>2
<1> HIDE DEF x, y, r, f
<1>7. x \div 10000 + f <= y \div 10000 + f + (r + 9999) \div 10000
  BY <1>1, <1>6
<1> QED
  BY <1>3, <1>5, <1>7 DEF x, y, r

(* A larger sigmoid is never a lower price.                                *)
LEMMA PriceFollows ==
  ASSUME NEW c \in SigmoidConfig, ValidSigmoid(c),
         NEW s \in Nat, NEW t \in Nat, s <= c.token_supply, t <= c.token_supply,
         sigmoid_bps(c, s) \in Nat, sigmoid_bps(c, t) \in Nat,
         sigmoid_bps(c, s) <= sigmoid_bps(c, t)
  PROVE  price_at_supply(c, s) <= price_at_supply(c, t)
<1> DEFINE r == c.cap_price_lamports - c.floor_price_lamports
           u == sigmoid_bps(c, s)
           v == sigmoid_bps(c, t)
           f == c.floor_price_lamports
<1>1. r \in Nat /\ f \in Nat
  BY U64Assumption DEF SigmoidConfig, U64, ValidSigmoid
<1>2. /\ price_at_supply(c, s) = (r * u) \div 10000 + f
      /\ price_at_supply(c, t) = (r * v) \div 10000 + f
  BY PriceOfSigmoid
<1> HIDE DEF u, v, r, f
<1>3. u \in Nat /\ v \in Nat /\ u <= v
  BY DEF u, v
<1> DEFINE x == r * u
           y == r * v
<1>4. x \in Nat /\ y \in Nat /\ x <= y
  <2>1. r * u <= r * v
    BY <1>1, <1>3, SMTT(30)
  <2> QED
    BY <1>1, <1>3, <2>1, ProductNat
<1> HIDE DEF x, y
<1>5. x \div 10000 + f <= y \div 10000 + f
  BY <1>1, <1>4
<1> QED
  BY <1>2, <1>5 DEF x, y

(* A curve of the shape create_pool gives by default asks, below its       *)
(* midpoint, nowhere less than at the start of the band: at the starts of  *)
(* its bands the distance to the midpoint is eased at a whole hundred,     *)
(* where the smoothstep, which lowers the price there, is not rounded down.*)
THEOREM RisesToMidpoint ==
  ASSUME NEW c \in SigmoidConfig, ValidSigmoid(c), DefaultShape(c)
  PROVE  RisesBelow(c, c.midpoint_supply)
<1> DEFINE mid == c.midpoint_supply
           size == band_size(c)
<1>1. mid \in Nat \ {0} /\ c.token_supply \in Nat /\ mid < c.token_supply
  BY U64Assumption DEF SigmoidConfig, U64, ValidSigmoid
<1>2. PICK n \in 1..100, q \in 1..100 : n * q = 100 /\ mid = n * size
  BY DEF DefaultShape
<1>3. PICK h \in Nat : c.steepness_bps = h * 10000
  <2>1. c.steepness_bps \in Nat /\ c.steepness_bps % 10000 = 0
    BY U64Assumption DEF SigmoidConfig, U64, DefaultShape, BPS_DENOMINATOR
  <2>2. c.steepness_bps = (c.steepness_bps \div 10000) * 10000
        /\ c.steepness_bps \div 10000 \in Nat
    BY <2>1
  <2> QED
    BY <2>2
<1>4. size \in Nat \ {0}
  <2>1. size \in Nat
    BY BandNat
  <2>2. size # 0
    BY <1>1, <1>2
  <2> QED
    BY <2>1, <2>2
<1> HIDE DEF mid, size
<1> SUFFICES ASSUME NEW s \in 0..mid - 1
             PROVE  price_at_supply(c, (s \div size) * size) <= price_at_supply(c, s)
  BY DEF RisesBelow, mid, size
<1> DEFINE k == s \div size
           b == k * size
<1>5. s \in Nat /\ s < mid
  BY <1>1
<1>6. k \in Nat /\ b \in Nat /\ b <= s
  BY <1>4, <1>5, Division, ProductNat
<1> HIDE DEF k
<1>7. n - k \in Nat
  <2>1. SUFFICES ASSUME k >= n + 1 PROVE FALSE
    BY <1>6
  <2>2. k * size >= n * size
    BY <1>4, <1>6, <2>1, SMTT(30)
  <2> HIDE DEF b
  <2> QED
    BY <1>1, <1>2, <1>5, <1>6, <2>2, SMTT(30) DEF b
<1>8. mid - b = (n - k) * size
  BY <1>2, <1>4, <1>6, SMTT(30)
<1>9. ((mid - b) * 10000) \div mid = 100 * ((n - k) * q)
  <2> DEFINE w == (n - k) * q
             v == 100 * w
             e == (mid - b) * 10000
  <2>1. w \in Nat
    BY <1>7, ProductNat
  <2>2. v * mid = e
    <3> DEFINE i == n - k
    <3>1. i \in Nat
      BY <1>7
    <3>2. v * mid = (100 * (i * q)) * (n * size)
      BY <1>2
    <3>3. e = (i * size) * 10000
      BY <1>8
    <3> HIDE DEF i, v, e
    <3>4. (100 * (i * q)) * (n * size) = (i * size) * (100 * (n * q))
      BY <1>4, <3>1, SMTT(30)
    <3>5. (i * size) * (100 * (n * q)) = (i * size) * 10000
      BY <1>2
    <3> QED
      BY <3>2, <3>3, <3>4, <3>5
  <2>3. e \in Nat
    BY <1>1, <1>5, <1>6
  <2> HIDE DEF w, e
  <2>4. v \in Nat
    BY <2>1
  <2> HIDE DEF v
  <2>5. e \div mid = v
    <3>1. v * mid <= e /\ e < v * mid + mid
      BY <1>1, <2>2, <2>3
    <3> QED
      BY <1>1, <2>3, <2>4, <3>1, DivisionUnique
  <2> QED
    BY <2>5 DEF v, w, e
<1>10. \E m \in Nat : Adjusted(c, mid - b, mid) = 100 * m
  <2> DEFINE w == (n - k) * q
             m == w * h
  <2>1. w \in Nat
    BY <1>7, ProductNat
  <2> HIDE DEF w
  <2>2. m \in Nat
    BY <2>1, ProductNat
  <2>3. Adjusted(c, mid - b, mid) = ((100 * w) * (h * 10000)) \div 10000
    BY <1>3, <1>9 DEF Adjusted, w
  <2>4. (100 * w) * (h * 10000) = (100 * m) * 10000
    BY <2>1, SMTT(30)
  <2> HIDE DEF m
  <2>5. ((100 * m) * 10000) \div 10000 = 100 * m
    BY <2>2
  <2> QED
    BY <2>2, <2>3, <2>4, <2>5
<1> HIDE DEF b
<1>11. /\ sigmoid_bps(c, b) \in Nat /\ sigmoid_bps(c, s) \in Nat
       /\ sigmoid_bps(c, b) <= sigmoid_bps(c, s)
  BY <1>1, <1>5, <1>6, <1>10, SigmoidRises DEF mid
<1>12. price_at_supply(c, b) <= price_at_supply(c, s)
  BY <1>1, <1>5, <1>6, <1>11, PriceFollows
<1> QED
  BY <1>12 DEF b, k

(* And so it does below any lower supply.                                  *)
LEMMA RisesBelowLess ==
  ASSUME NEW c, NEW low \in Nat, NEW top \in Nat, low <= top, RisesBelow(c, top)
  PROVE  RisesBelow(c, low)
<1>1. 0..low - 1 \subseteq 0..top - 1
  OBVIOUS
<1> QED
  BY <1>1 DEF RisesBelow
-----------------------------------------------------------------------------
(* One buy against two.                                                    *)

(* A pass that can pay for n tokens of the band ahead, with d of what      *)
(* remains, buys at least those; if they are all of the band it ends there *)
(* and spends no more than d.                                              *)
LEMMA BuyBandFills ==
  ASSUME NEW c, IsCurve(c), NEW u \in Walk, ~BuyOver(c, u),
         raw_band_end(u.cursor, band_size(c)) \in U64,
         NEW n \in Nat,
         u.cursor + n <= next_band_end(u.cursor, band_size(c), c.token_supply),
         NEW d \in Nat, d <= u.remaining,
         n * price_at_supply(c, u.cursor) <= d * TOKEN_UNIT
  PROVE  LET next == BuyBand(c, u)
         IN  /\ next.ok /\ next.steps = u.steps + 1
             /\ next.cursor >= u.cursor + n
             /\ u.cursor + n = next_band_end(u.cursor, band_size(c), c.token_supply)
                  => next.cursor = u.cursor + n /\ next.remaining >= u.remaining - d
<1> DEFINE price == price_at_supply(c, u.cursor)
           end == next_band_end(u.cursor, band_size(c), c.token_supply)
           most == (u.remaining * TOKEN_UNIT) \div price
           tokens == least(most, end - u.cursor)
           cost == ceil_div(tokens * price, TOKEN_UNIT)
<1> USE TokenUnitAssumption
<1>1. /\ u.cursor \in Nat /\ u.remaining \in Nat /\ u.cursor < c.token_supply
      /\ c \in SigmoidConfig /\ ValidSigmoid(c) /\ band_size(c) \in Nat \ {0}
      /\ c.token_supply \in Nat /\ u.ok
  BY BandNat DEF Walk, BuyOver, IsCurve
<1>2. price \in Nat \ {0}
  BY <1>1, PriceInRange
<1>3. BuyBand(c, u) = Advance(u, cost, u.cursor + tokens, tokens, cost)
  BY DEF BuyBand, BuyAtPrice, PayFor, Affordable
<1>4. end \in Nat /\ u.cursor < end
  BY <1>1, BandAhead
<1> HIDE DEF price, end
<1>5. n <= most /\ most \in Nat
  <2>1. u.remaining * TOKEN_UNIT \in Nat /\ n * price \in Nat /\ d * TOKEN_UNIT \in Nat
    BY <1>1, <1>2, ProductNat
  <2>2. d * TOKEN_UNIT <= u.remaining * TOKEN_UNIT
    BY <1>1, SMTT(30)
  <2>3. n * price <= u.remaining * TOKEN_UNIT
    BY <2>1, <2>2 DEF price
  <2>4. (n * price) \div price = n
    <3>1. n * price < n * price + price
      BY <1>2, <2>1
    <3> QED
      BY <1>2, <2>1, <3>1, DivisionUnique
  <2>5. (n * price) \div price <= most
    BY <1>2, <2>1, <2>3, DivisionMonotonic
  <2> QED
    BY <1>2, <2>1, <2>4, <2>5, Division
<1> HIDE DEF most
<1>6. /\ tokens \in Nat /\ n <= tokens
      /\ u.cursor + n = end => tokens = n
  BY <1>1, <1>4, <1>5 DEF least, end
<1> HIDE DEF tokens
<1>7. /\ BuyBand(c, u).cursor = u.cursor + tokens
      /\ BuyBand(c, u).remaining = u.remaining - cost
      /\ BuyBand(c, u).steps = u.steps + 1 /\ BuyBand(c, u).ok
  BY <1>1, <1>3 DEF Advance
<1>8. tokens * price \in Nat
  BY <1>2, <1>6, ProductNat
<1>9. /\ cost \in Nat
      /\ cost * TOKEN_UNIT <= tokens * price + (TOKEN_UNIT - 1)
  BY <1>8, CeilDivision
<1> HIDE DEF cost
<1>10. ASSUME u.cursor + n = end PROVE cost <= d
  <2>1. tokens * price <= d * TOKEN_UNIT
    BY <1>6, <1>10 DEF price
  <2>2. cost * TOKEN_UNIT \in Nat /\ d * TOKEN_UNIT \in Nat
    BY <1>9, ProductNat
  <2>3. cost * TOKEN_UNIT < d * TOKEN_UNIT + TOKEN_UNIT
    BY <1>8, <1>9, <2>1, <2>2
  <2>4. ASSUME cost >= d + 1 PROVE FALSE
    <3>1. cost * TOKEN_UNIT >= (d + 1) * TOKEN_UNIT
      BY <1>9, <2>4, SMTT(30)
    <3>2. (d + 1) * TOKEN_UNIT = d * TOKEN_UNIT + TOKEN_UNIT
      BY SMTT(30)
    <3> QED
      BY <2>2, <2>3, <3>1, <3>2
  <2> QED
    BY <1>9, <2>4
<1>11. u.cursor + tokens >= u.cursor + n
  BY <1>1, <1>6
<1>12. u.cursor + n = end =>
         u.cursor + tokens = u.cursor + n /\ u.remaining - cost >= u.remaining - d
  BY <1>1, <1>6, <1>9, <1>10
<1> QED
  BY <1>7, <1>11, <1>12 DEF end

(* The undivided buy comes to final.  Beside(v): it enters the band of v   *)
(* in a state u, when it has spare more than v has left after what the     *)
(* tokens from u to v cost at the price it pays there.                     *)
Beside(c, sold, run, final, spare, v, u) ==
  /\ u \in Walk /\ run[u] = final /\ u.ok
  /\ sold <= u.cursor /\ u.cursor <= v.cursor
  /\ u.cursor = sold \/ u.cursor = (u.cursor \div band_size(c)) * band_size(c)
       \/ u.cursor = c.token_supply
  /\ u.steps <= u.cursor \div band_size(c) - sold \div band_size(c)
       \/ u.cursor = c.token_supply
  /\ v.remaining + spare <= u.remaining
  /\ (v.cursor - u.cursor) * price_at_supply(c, u.cursor)
       <= (u.remaining - (v.remaining + spare)) * TOKEN_UNIT
  /\ u.cursor # v.cursor =>
       /\ v.cursor < next_band_end(u.cursor, band_size(c), c.token_supply)
       /\ raw_band_end(u.cursor, band_size(c)) \in U64

(* The undivided buy, whose final state spans fewer bands than a quote may *)
(* cross, makes another pass wherever a buy beside it can go on.           *)
LEMMA UndividedGoesOn ==
  ASSUME NEW c, IsCurve(c), NEW sold \in Nat, NEW run,
         IsRun(run, Walk, BuyEnds(c), BuyStep(c)),
         NEW final \in Walk,
         final.cursor \div band_size(c) - sold \div band_size(c) < MAX_SIGMOID_STEPS,
         NEW u \in Walk, run[u] = final, u.ok, u.remaining > 0,
         u.cursor < c.token_supply,
         u.steps <= u.cursor \div band_size(c) - sold \div band_size(c)
  PROVE  ~BuyOver(c, u)
<1>1. SUFFICES ASSUME u.steps = MAX_SIGMOID_STEPS PROVE FALSE
  BY BandNat DEF BuyOver, Walk, IsCurve
<1>2. u \in BuyEnds(c)
  BY <1>1 DEF BuyEnds, BuyOver
<1>3. final = u
  BY <1>2 DEF IsRun
<1>4. /\ u.cursor \div band_size(c) \in Nat /\ sold \div band_size(c) \in Nat
  BY Division DEF IsCurve, Walk
<1> QED
  BY <1>1, <1>3, <1>4, StepsAssumption

(* A pass that moves is a step of the run.                                 *)
LEMMA MovingPassRuns ==
  ASSUME NEW c, IsCurve(c), NEW run, IsRun(run, Walk, BuyEnds(c), BuyStep(c)),
         NEW u \in Walk, ~BuyOver(c, u), BuyBand(c, u).cursor # u.cursor
  PROVE  BuyBand(c, u) \in Walk /\ run[BuyBand(c, u)] = run[u]
<1>1. u \notin BuyEnds(c) /\ BuyStep(c)[u] = BuyBand(c, u)
  BY DEF BuyEnds, BuyStep, NothingAffordable
<1>2. BuyBand(c, u) \in Walk
  BY BuyBandTyped DEF IsCurve
<1> QED
  BY <1>1, <1>2 DEF IsRun

(* Wherever a buy beside the undivided one goes on in a band, the          *)
(* undivided one can pay for all that it buys there, and has the spare     *)
(* lamports still.                                                         *)
LEMMA BesidePass ==
  ASSUME NEW c, IsCurve(c), NEW sold \in Nat, NEW run,
         IsRun(run, Walk, BuyEnds(c), BuyStep(c)),
         NEW final \in Walk,
         final.cursor \div band_size(c) - sold \div band_size(c) < MAX_SIGMOID_STEPS,
         NEW spare \in Nat, NEW v \in Walk, v \notin BuyEnds(c),
         NEW u, Beside(c, sold, run, final, spare, v, u),
         BuyBand(c, v).ok, RisesOnWay(c, sold, BuyBand(c, v).cursor)
  PROVE  \E x : Beside(c, sold, run, final, spare, BuyBand(c, v), x)
<1> DEFINE next == BuyBand(c, v)
           size == band_size(c)
           supply == c.token_supply
           k == u.cursor \div size
           p == price_at_supply(c, u.cursor)
           q == price_at_supply(c, v.cursor)
           end == next_band_end(u.cursor, size, supply)
<1>1. ~BuyOver(c, v) /\ ~NothingAffordable(v, next)
  BY DEF BuyEnds
<1>2. /\ v.cursor \in Nat /\ v.remaining \in Nat \ {0} /\ v.cursor < supply /\ v.ok
      /\ c \in SigmoidConfig /\ ValidSigmoid(c) /\ size \in Nat \ {0} /\ supply \in Nat
      /\ u \in Walk /\ u.cursor \in Nat /\ u.remaining \in Nat /\ u.steps \in Nat
      /\ sold <= u.cursor /\ u.cursor <= v.cursor /\ u.cursor < supply
      /\ v.remaining + spare <= u.remaining
  BY <1>1, BandNat DEF Walk, BuyOver, IsCurve, Beside
<1>3. raw_band_end(v.cursor, size) \in U64
  BY DEF BuyBand
<1>4. PICK tokens \in Nat, cost \in Nat :
        /\ next = Advance(v, cost, v.cursor + tokens, tokens, cost)
        /\ cost <= v.remaining
        /\ tokens * q <= cost * TOKEN_UNIT
        /\ v.cursor + tokens <= next_band_end(v.cursor, size, supply)
  <2>1. next # [v EXCEPT !.ok = FALSE]
    BY <1>2 DEF Walk
  <2> QED
    BY <1>1, <2>1, BuyBandPays
<1> DEFINE to == v.cursor + tokens
<1>5. /\ next.cursor = to /\ next.remaining = v.remaining - cost
      /\ RisesOnWay(c, sold, to)
  BY <1>4 DEF Advance
<1>6. to \in Nat /\ v.cursor < to
  BY <1>1, <1>2, <1>4, <1>5 DEF NothingAffordable
<1>7. /\ k \in Nat /\ k * size \in Nat /\ k * size <= u.cursor
      /\ raw_band_end(u.cursor, size) = k * size + size
      /\ (k + 1) * size = k * size + size
      /\ end \in Nat /\ end <= k * size + size
      /\ end = supply \/ end = k * size + size
  <2>1. k \in Nat /\ k * size <= u.cursor
    BY <1>2, Division
  <2> HIDE DEF k
  <2>2. k * size \in Nat /\ (k + 1) * size = k * size + size
    BY <1>2, <2>1, BandEnds
  <2>3. raw_band_end(u.cursor, size) = k * size + size
    BY <2>2 DEF raw_band_end, k
  <2> QED
    BY <1>2, <2>1, <2>2, <2>3 DEF next_band_end, least
<1>8. v.cursor \div size = k
  <2>1. CASE u.cursor = v.cursor
    BY <2>1
  <2>2. CASE u.cursor # v.cursor
    <3>1. v.cursor < end
      BY <2>2 DEF Beside
    <3> HIDE DEF k, end
    <3>2. k * size <= v.cursor /\ v.cursor < k * size + size
      BY <1>2, <1>7, <3>1
    <3> QED
      BY <1>2, <1>7, <3>2, DivisionUnique
  <2> QED
    BY <2>1, <2>2
<1>9. /\ raw_band_end(u.cursor, size) \in U64
      /\ next_band_end(v.cursor, size, supply) = end
  BY <1>3, <1>8 DEF raw_band_end, next_band_end
<1>10. p \in Nat \ {0} /\ q \in Nat \ {0} /\ p <= q
  <2>1. p \in Nat \ {0} /\ q \in Nat \ {0}
    BY <1>2, PriceInRange
  <2>2. u.cursor = sold \/ u.cursor = k * size
    BY <1>2 DEF Beside
  <2>3. (IF k * size < sold THEN sold ELSE k * size) = u.cursor
    <3> HIDE DEF k
    <3> QED
      BY <1>2, <1>7, <2>2
  <2>4. v.cursor \in sold..to
    BY <1>2, <1>6
  <2>5. price_at_supply(c, IF k * size < sold THEN sold ELSE k * size) <= q
    BY <1>5, <1>8, <2>4 DEF RisesOnWay
  <2> QED
    BY <2>1, <2>3, <2>5
<1> DEFINE gap == v.cursor - u.cursor
           n == to - u.cursor
           had == u.remaining - (v.remaining + spare)
           d == u.remaining - ((v.remaining - cost) + spare)
<1>11. /\ n \in Nat /\ d \in Nat /\ d <= u.remaining
       /\ gap \in Nat /\ had \in Nat /\ n = gap + tokens /\ d = had + cost
       /\ u.cursor + n = to
  BY <1>2, <1>4, <1>6
<1>12. n * p <= d * TOKEN_UNIT
  <2>1. gap * p <= had * TOKEN_UNIT
    BY DEF Beside
  <2> HIDE DEF gap, n, had, d, p, q
  <2>2. tokens * p <= tokens * q
    BY <1>10, SMTT(30)
  <2>3. n * p = gap * p + tokens * p
    BY <1>10, <1>11, SMTT(30)
  <2>4. d * TOKEN_UNIT = had * TOKEN_UNIT + cost * TOKEN_UNIT
    BY <1>11, TokenUnitAssumption, SMTT(30)
  <2>5. /\ gap * p \in Nat /\ tokens * p \in Nat /\ tokens * q \in Nat
        /\ had * TOKEN_UNIT \in Nat /\ cost * TOKEN_UNIT \in Nat
    BY <1>10, <1>11, TokenUnitAssumption, ProductNat
  <2> QED
    BY <1>4, <2>1, <2>2, <2>3, <2>4, <2>5
<1>13. ~BuyOver(c, u)
  <2>1. u.steps <= k - sold \div size /\ u.ok /\ run[u] = final
    BY <1>2 DEF Beside
  <2> QED
    BY <1>2, <2>1, UndividedGoesOn
<1> HIDE DEF to, n, d, gap, had
<1>14. to <= end /\ next.cursor = to /\ next.remaining = v.remaining - cost
  BY <1>4, <1>5, <1>9 DEF to
<1>15. CASE to < end
  <2>1. /\ sold <= u.cursor /\ u.cursor <= to /\ u.cursor # to
        /\ (v.remaining - cost) + spare <= u.remaining
    BY <1>2, <1>4, <1>6
  <2>2. (to - u.cursor) * p <= (u.remaining - ((v.remaining - cost) + spare)) * TOKEN_UNIT
    BY <1>12 DEF n, d
  <2> HIDE DEF next
  <2>3. Beside(c, sold, run, final, spare, next, u)
    BY <1>9, <1>14, <1>15, <2>1, <2>2 DEF Beside
  <2> QED
    BY <2>3 DEF next
<1>16. CASE to = end
  <2> DEFINE x == BuyBand(c, u)
  <2>1. /\ x.ok /\ x.steps = u.steps + 1
        /\ x.cursor = to /\ x.remaining >= u.remaining - d
    BY <1>2, <1>9, <1>11, <1>12, <1>13, <1>16, BuyBandFills
  <2>2. x \in Walk /\ run[x] = final
    <3>1. x.cursor # u.cursor
      BY <1>2, <1>6, <2>1
    <3>2. x \in Walk /\ run[x] = run[u]
      BY <1>2, <1>13, <3>1, MovingPassRuns
    <3> QED
      BY <3>2 DEF Beside
  <2> HIDE DEF x
  <2>3. /\ x.remaining \in Nat
        /\ (v.remaining - cost) + spare <= x.remaining
    BY <1>2, <1>4, <2>1, <2>2 DEF Walk, d
  <2>4. (to - x.cursor) * price_at_supply(c, x.cursor)
          <= (x.remaining - ((v.remaining - cost) + spare)) * TOKEN_UNIT
    <3>1. price_at_supply(c, x.cursor) \in Nat
      BY <1>2, <1>6, <2>1, PriceInRange
    <3>2. (to - x.cursor) * price_at_supply(c, x.cursor) = 0
      BY <1>6, <2>1, <3>1
    <3>3. x.remaining - ((v.remaining - cost) + spare) \in Nat
      BY <1>2, <1>4, <2>3
    <3>4. (x.remaining - ((v.remaining - cost) + spare)) * TOKEN_UNIT \in Nat
      BY <3>3, TokenUnitAssumption, ProductNat
    <3> QED
      BY <3>2, <3>4
  <2>5. \/ to = supply
        \/ /\ to = (to \div size) * size
           /\ x.steps <= to \div size - sold \div size
    <3> SUFFICES ASSUME to # supply
                 PROVE  /\ to = (to \div size) * size
                        /\ x.steps <= to \div size - sold \div size
      OBVIOUS
    <3>1. to = k * size + size
      BY <1>7, <1>16
    <3>2. to \div size = k + 1
      <4>1. k + 1 \in Nat /\ (k + 1) * size <= to /\ to < (k + 1) * size + size
        BY <1>2, <1>6, <1>7, <3>1
      <4> QED
        BY <1>2, <1>6, <4>1, DivisionUnique
    <3>3. u.steps <= k - sold \div size
      BY <1>2 DEF Beside
    <3>4. sold \div size \in Nat
      BY <1>2, Division
    <3> HIDE DEF k
    <3> QED
      BY <1>2, <1>7, <2>1, <3>1, <3>2, <3>3, <3>4
  <2>6. sold <= x.cursor /\ x.cursor <= to /\ x.cursor = to
    BY <1>2, <1>6, <2>1
  <2> HIDE DEF next
  <2>7. Beside(c, sold, run, final, spare, next, x)
    BY <1>14, <2>1, <2>2, <2>3, <2>4, <2>5, <2>6 DEF Beside
  <2> QED
    BY <2>7 DEF next
<1>17. to < end \/ to = end
  <2> HIDE DEF end, k
  <2> QED
    BY ONLY <1>6, <1>7, <1>14
<1> QED
  BY ONLY <1>15, <1>16, <1>17

(* A buy only moves on, by the tokens it buys.                             *)
LEMMA BuyMovesOn ==
  ASSUME NEW c, IsCurve(c), NEW run, IsRun(run, Walk, BuyEnds(c), BuyStep(c)),
         NEW start \in Walk
  PROVE  /\ run[start] \in Walk
         /\ start.cursor <= run[start].cursor
         /\ run[start].cursor - start.cursor = run[start].tokens - start.tokens
<1> DEFINE I == {v \in Walk : /\ start.cursor <= v.cursor
                              /\ v.cursor - start.cursor = v.tokens - start.tokens}
<1>1. start \in I
  BY DEF Walk
<1>2. ASSUME NEW v \in I, v \notin BuyEnds(c) PROVE BuyStep(c)[v] \in I
  <2> DEFINE next == BuyBand(c, v)
  <2>1. v \in Walk /\ ~BuyOver(c, v) /\ BuyStep(c)[v] = next
    BY <1>2 DEF BuyEnds, BuyStep
  <2>2. next \in Walk
    BY <2>1, BuyBandTyped DEF IsCurve
  <2>3. CASE next = [v EXCEPT !.ok = FALSE]
    <3>1. next.cursor = v.cursor /\ next.tokens = v.tokens
      BY <2>1, <2>3 DEF Walk
    <3> HIDE DEF next
    <3> QED
      BY <2>1, <2>2, <3>1
  <2>4. CASE next # [v EXCEPT !.ok = FALSE]
    <3>1. PICK tokens \in Nat, cost \in Nat :
            next = Advance(v, cost, v.cursor + tokens, tokens, cost)
      BY <2>1, <2>4, BuyBandPays
    <3>2. next.cursor = v.cursor + tokens /\ next.tokens = v.tokens + tokens
      BY <3>1 DEF Advance
    <3>3. v.cursor \in Nat /\ v.tokens \in Nat /\ start.cursor \in Nat /\ start.tokens \in Nat
      BY <2>1 DEF Walk
    <3> HIDE DEF next
    <3> QED
      BY <2>1, <2>2, <3>2, <3>3
  <2> QED
    BY <2>3, <2>4
<1>3. run[start] \in I
  <2> HIDE DEF I
  <2>1. I \subseteq Walk
    BY DEF I
  <2> QED
    BY <1>1, <1>2, <2>1, BuyIsWalk, RunKeeps DEF IsCurve
<1> QED
  BY <1>3

(* Prices that rise on the way to a supply rise on the way to an earlier   *)
(* one.                                                                    *)
LEMMA RisesOnWayToo ==
  ASSUME NEW c, NEW from \in Nat, NEW mid \in Nat, NEW to \in Nat, mid <= to,
         RisesOnWay(c, from, to)
  PROVE  RisesOnWay(c, from, mid)
<1>1. from..mid \subseteq from..to
  OBVIOUS
<1> QED
  BY <1>1 DEF RisesOnWay

(* A buy that starts beside the undivided one stays beside it to its end.  *)
LEMMA BesideKept ==
  ASSUME NEW c, IsCurve(c), NEW sold \in Nat, NEW run,
         IsRun(run, Walk, BuyEnds(c), BuyStep(c)),
         NEW final \in Walk,
         final.cursor \div band_size(c) - sold \div band_size(c) < MAX_SIGMOID_STEPS,
         NEW spare \in Nat, NEW start \in Walk, sold <= start.cursor,
         \E u : Beside(c, sold, run, final, spare, start, u),
         run[start].ok, RisesOnWay(c, sold, run[start].cursor)
  PROVE  \E u : Beside(c, sold, run, final, spare, run[start], u)
<1> DEFINE I == {v \in Walk :
                  /\ sold <= v.cursor
                  /\ v.ok /\ RisesOnWay(c, sold, v.cursor)
                       => \E u : Beside(c, sold, run, final, spare, v, u)}
<1>1. start \in I
  OBVIOUS
<1>2. ASSUME NEW v \in I, v \notin BuyEnds(c) PROVE BuyStep(c)[v] \in I
  <2> DEFINE next == BuyBand(c, v)
  <2>1. v \in Walk /\ ~BuyOver(c, v) /\ v.ok /\ BuyStep(c)[v] = next
    BY <1>2 DEF BuyEnds, BuyStep, BuyOver
  <2>2. next \in Walk
    BY <2>1, BuyBandTyped DEF IsCurve
  <2>3. v.cursor \in Nat /\ next.cursor \in Nat /\ v.cursor <= next.cursor
    <3>1. CASE next = [v EXCEPT !.ok = FALSE]
      <4>1. next.cursor = v.cursor
        BY <2>1, <3>1 DEF Walk
      <4> HIDE DEF next
      <4> QED
        BY <2>1, <4>1 DEF Walk
    <3>2. CASE next # [v EXCEPT !.ok = FALSE]
      <4>1. PICK tokens \in Nat, cost \in Nat :
              next = Advance(v, cost, v.cursor + tokens, tokens, cost)
        BY <2>1, <3>2, BuyBandPays
      <4>2. next.cursor = v.cursor + tokens
        BY <4>1 DEF Advance
      <4> HIDE DEF next
      <4> QED
        BY <2>1, <2>2, <4>2 DEF Walk
    <3> QED
      BY <3>1, <3>2
  <2>4. ASSUME next.ok, RisesOnWay(c, sold, next.cursor)
        PROVE  \E u : Beside(c, sold, run, final, spare, next, u)
    <3>1. RisesOnWay(c, sold, v.cursor)
      <4> HIDE DEF next
      <4> QED
        BY <2>3, <2>4, RisesOnWayToo
    <3>2. PICK u : Beside(c, sold, run, final, spare, v, u)
      BY <2>1, <3>1
    <3> QED
      BY <1>2, <2>1, <2>4, <3>2, BesidePass
  <2>5. sold <= next.cursor
    <3> HIDE DEF next
    <3> QED
      BY <2>3
  <2> HIDE DEF next
  <2> QED
    BY <2>1, <2>2, <2>4, <2>5
<1>3. run[start] \in I
  <2> HIDE DEF I
  <2>1. I \subseteq Walk
    BY DEF I
  <2> QED
    BY <1>1, <1>2, <2>1, BuyIsWalk, RunKeeps DEF IsCurve
<1> QED
  BY <1>3

(* A buy beside the undivided one is not ahead of where that ends.         *)
LEMMA UndividedGetsThere ==
  ASSUME NEW c, IsCurve(c), NEW sold \in Nat, NEW run,
         IsRun(run, Walk, BuyEnds(c), BuyStep(c)),
         NEW final \in Walk,
         final.cursor \div band_size(c) - sold \div band_size(c) < MAX_SIGMOID_STEPS,
         NEW spare \in Nat, NEW w \in Walk,
         NEW u, Beside(c, sold, run, final, spare, w, u)
  PROVE  w.cursor <= final.cursor
<1> DEFINE size == band_size(c)
           p == price_at_supply(c, u.cursor)
<1>1. /\ u \in Walk /\ u.ok /\ run[u] = final
      /\ u.cursor \in Nat /\ w.cursor \in Nat /\ u.cursor <= w.cursor
      /\ u.remaining \in Nat /\ w.remaining \in Nat
      /\ w.remaining + spare <= u.remaining
      /\ c \in SigmoidConfig /\ ValidSigmoid(c) /\ size \in Nat \ {0}
      /\ c.token_supply \in Nat /\ final.cursor \in Nat
  BY BandNat DEF Beside, Walk, IsCurve
<1>2. CASE u.cursor = w.cursor
  <2>1. u.cursor <= run[u].cursor
    BY <1>1, BuyMovesOn
  <2> QED
    BY <1>1, <1>2, <2>1
<1>3. CASE u.cursor # w.cursor
  <2> DEFINE n == w.cursor - u.cursor
             d == u.remaining - (w.remaining + spare)
  <2>1. /\ n \in Nat \ {0} /\ d \in Nat /\ d <= u.remaining /\ u.cursor + n = w.cursor
    <3>1. n \in Nat \ {0} /\ u.cursor + n = w.cursor
      BY ONLY <1>1, <1>3
    <3>2. d \in Nat /\ d <= u.remaining
      BY ONLY <1>1, spare \in Nat
    <3> QED
      BY <3>1, <3>2
  <2>2. /\ w.cursor < next_band_end(u.cursor, size, c.token_supply)
        /\ raw_band_end(u.cursor, size) \in U64
        /\ n * p <= d * TOKEN_UNIT
    BY <1>3 DEF Beside
  <2>3. u.cursor < c.token_supply
    <3>1. next_band_end(u.cursor, size, c.token_supply) <= c.token_supply
      BY <1>1, <2>2, U64Assumption DEF next_band_end, least, U64
    <3>2. raw_band_end(u.cursor, size) \in Nat
      BY <2>2, U64Assumption DEF U64
    <3>3. next_band_end(u.cursor, size, c.token_supply) \in Nat
      BY <1>1, <3>2 DEF next_band_end, least
    <3> QED
      BY <1>1, <2>2, <3>1, <3>3
  <2>4. p \in Nat \ {0}
    BY <1>1, PriceInRange
  <2>5. u.remaining > 0
    <3> HIDE DEF n, d, p
    <3>1. ASSUME d = 0 PROVE FALSE
      <4>1. n * p > 0
        BY <2>1, <2>4, SMTT(30)
      <4>2. d * TOKEN_UNIT = 0
        BY <3>1, TokenUnitAssumption
      <4>3. n * p \in Nat
        BY <2>1, <2>4, ProductNat
      <4> QED
        BY <2>2, <4>1, <4>2, <4>3
    <3> QED
      BY <1>1, <2>1, <3>1
  <2>6. u.steps <= u.cursor \div size - sold \div size
    BY <1>1, <2>3 DEF Beside
  <2>7. ~BuyOver(c, u)
    BY <1>1, <2>3, <2>5, <2>6, UndividedGoesOn
  <2> DEFINE x == BuyBand(c, u)
  <2>8. x.cursor >= u.cursor + n
    <3> HIDE DEF n, d
    <3>1. u.cursor + n <= next_band_end(u.cursor, size, c.token_supply)
      <4>1. next_band_end(u.cursor, size, c.token_supply) \in Nat
        BY <1>1, <2>3, BandAhead
      <4> QED
        BY <1>1, <2>1, <2>2, <4>1
    <3> QED
      BY <1>1, <2>1, <2>2, <2>7, <3>1, BuyBandFills
  <2>9. BuyBand(c, u) \in Walk
    BY <1>1, <2>7, BuyBandTyped
  <2>10. x \in Walk /\ run[x] = final
    <3>1. BuyBand(c, u).cursor # u.cursor
      <4>1. x.cursor \in Nat
        BY <2>9 DEF Walk
      <4> HIDE DEF x
      <4> QED
        BY <1>1, <2>1, <2>8, <4>1 DEF x
    <3> QED
      BY <1>1, <2>7, <3>1, MovingPassRuns
  <2> HIDE DEF x
  <2>11. x.cursor <= final.cursor /\ x.cursor \in Nat
    BY <2>10, BuyMovesOn DEF Walk
  <2> QED
    BY <1>1, <2>1, <2>8, <2>11
<1> QED
  BY <1>2, <1>3

(* A quote of a buy is what its walk bought, or nothing.                   *)
LEMMA QuoteIsWalk ==
  ASSUME NEW c, IsCurve(c), NEW sold, NEW sol_in
  PROVE  LET w == BuyWalk(c, sold, sol_in)
             out == quote_sigmoid_buy(c, sold, sol_in).amount_out
         IN  out = 0 \/ (w.ok /\ out = w.tokens)
<1> DEFINE w == BuyWalk(c, sold, sol_in)
<1>1. CASE sol_in = 0 \/ ~ValidSigmoid(c) \/ band_size(c) = 0
  BY <1>1 DEF quote_sigmoid_buy, NoQuote
<1>2. CASE ~(sol_in = 0 \/ ~ValidSigmoid(c) \/ band_size(c) = 0)
  <2>1. quote_sigmoid_buy(c, sold, sol_in) = BuyQuote(w)
    BY <1>2 DEF quote_sigmoid_buy
  <2> HIDE DEF w
  <2>2. BuyQuote(w).amount_out = 0 \/ (w.ok /\ BuyQuote(w).amount_out = w.tokens)
    BY DEF BuyQuote, NoQuote
  <2> QED
    BY <2>1, <2>2 DEF w
<1> QED
  BY <1>1, <1>2
=============================================================================
