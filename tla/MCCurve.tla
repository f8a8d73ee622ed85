------------------------------- MODULE MCCurve -------------------------------
(***************************************************************************)
(* One pool on the default curve, scaled: 20000 base units of supply, ten  *)
(* to a whole token, the default prices, steepness, band and threshold.    *)
(* The trades are large enough to cross many bands and to reach the        *)
(* migration threshold of 5000 in three buys; one pool is cheap enough for *)
(* them to buy the whole supply, the last buy in part.                     *)
(***************************************************************************)
EXTENDS RedCircleProperties, CurveWorth

CONSTANTS Admin, Curator

MCDefaults ==
  [floor_price |-> 10, cap_price |-> 10000, pool_creation_fee |-> 100,
   duration |-> 1, max_buy |-> 60000, token_supply |-> 20000,
   steepness_bps |-> 10000, supply_threshold_bps |-> 2500,
   min_sol_reserve |-> 200000, bin_step_bps |-> 100]

MCInitParams ==
  {[floor_price |-> None, cap_price |-> None, pool_creation_fee |-> None,
    duration |-> None, max_buy |-> None]}

NoOptions ==
  [token_supply |-> None, floor_price |-> None, cap_price |-> None,
   midpoint_supply |-> None, steepness_bps |-> None,
   supply_threshold_bps |-> None, min_sol_reserve |-> None, bin_step_bps |-> None]

MCPoolParams ==
  {NoOptions,
   [NoOptions EXCEPT !.midpoint_supply = 5000, !.steepness_bps = 7000,
                     !.supply_threshold_bps = 1500],
   [NoOptions EXCEPT !.cap_price = 11, !.supply_threshold_bps = 10000]}

(* A pool that stays on the curve until all its supply is sold. *)
WholeCurve == {[NoOptions EXCEPT !.supply_threshold_bps = 10000]}

(* The curves of these pools rise as far as the trades of the runs take    *)
(* them, in the sense the proof of FullExitBacked asks for; what is sold   *)
(* between 98 and 100 percent of the supply is another matter.             *)
MCSigmoids ==
  {[token_supply |-> 20000, floor_price_lamports |-> 10, cap_price_lamports |-> 10000,
    midpoint_supply |-> 10000, steepness_bps |-> 10000, band_bps |-> SIGMOID_BAND_BPS],
   [token_supply |-> 20000, floor_price_lamports |-> 10, cap_price_lamports |-> 10000,
    midpoint_supply |-> 5000, steepness_bps |-> 7000, band_bps |-> SIGMOID_BAND_BPS],
   [token_supply |-> 20000, floor_price_lamports |-> 10, cap_price_lamports |-> 11,
    midpoint_supply |-> 10000, steepness_bps |-> 10000, band_bps |-> SIGMOID_BAND_BPS]}

ASSUME SigmoidsRise ==
  /\ \A c \in MCSigmoids :
       RisesBelow(c, IF c.cap_price_lamports = 11 THEN 20000 ELSE 19600)
  /\ \E c \in MCSigmoids : DefaultShape(c)
=============================================================================
