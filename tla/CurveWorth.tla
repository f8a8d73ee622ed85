----------------------------- MODULE CurveWorth -----------------------------
(***************************************************************************)
(* What tokens of a curve are worth, without walking it: the reference for *)
(* the quotes of a sale.                                                   *)
(***************************************************************************)
EXTENDS SigmoidCurve, Functions

(* A curve whose trades can be quoted.                                     *)
Quotable(c) == ValidSigmoid(c) /\ band_size(c) > 0

(* The tokens of band k between the two supplies, and what they are worth  *)
(* at the price of the band's start.                                       *)
BandTokens(c, k, from, to) ==
  LET size == band_size(c)
      low == IF from > k * size THEN from ELSE k * size
      high == least(to, (k + 1) * size)
  IN  IF high <= low THEN 0 ELSE high - low

BandValue(c, k, from, to) ==
  (BandTokens(c, k, from, to) * price_at_supply(c, k * band_size(c))) \div TOKEN_UNIT

Worth(c, from, to) ==
  SumFunction([k \in 0..(to \div band_size(c)) |-> BandValue(c, k, from, to)])

(* Below a supply no price is lower than at the start of its band.  It     *)
(* need not be so: the price is not monotonic to the unit.                 *)
RisesBelow(c, top) ==
  \A s \in 0..top - 1 :
    price_at_supply(c, (s \div band_size(c)) * band_size(c)) <= price_at_supply(c, s)

(* Between two supplies no price is lower than one before it in its band.  *)
RisesWithinBands(c, from, to) ==
  \A s, t \in from..to :
    s <= t /\ s \div band_size(c) = t \div band_size(c)
      => price_at_supply(c, s) <= price_at_supply(c, t)

(* Between two supplies no price is lower than where a walk that starts at *)
(* the first enters the band.                                              *)
RisesOnWay(c, from, to) ==
  \A s \in from..to :
    LET start == (s \div band_size(c)) * band_size(c)
        entry == IF start < from THEN from ELSE start
    IN  price_at_supply(c, entry) <= price_at_supply(c, s)

(* A curve of the shape create_pool gives by default: the midpoint is a    *)
(* number of bands that divides 100 (by default 50), and the steepness a   *)
(* multiple of one (by default one).                                       *)
DefaultShape(c) ==
  /\ \E n, q \in 1..100 : n * q = 100 /\ c.midpoint_supply = n * band_size(c)
  /\ c.steepness_bps % BPS_DENOMINATOR = 0
=============================================================================
