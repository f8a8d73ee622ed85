------------------------------ MODULE MCClient ------------------------------
(***************************************************************************)
(* The small pools of MCBins with a client beside the others: its amounts  *)
(* cross bands, drain bins and lie below what a bin has left, and the      *)
(* others move the curve, the phase, the active bin, the treasury and the  *)
(* pause flag while its swap is on its way.                                *)
(***************************************************************************)
EXTENDS SdkClient

CONSTANTS Admin, Curator

MCDefaults ==
  [floor_price |-> 10, cap_price |-> 30, pool_creation_fee |-> 0,
   duration |-> 0, max_buy |-> 500, token_supply |-> 1000,
   steepness_bps |-> 10000, supply_threshold_bps |-> 2500,
   min_sol_reserve |-> 150, bin_step_bps |-> 10]

MCInitParams ==
  {[floor_price |-> None, cap_price |-> None, pool_creation_fee |-> None,
    duration |-> None, max_buy |-> None]}

NoUpdate ==
  [admin |-> None, treasury |-> None, is_paused |-> None, floor_price |-> None,
   cap_price |-> None, pool_creation_fee |-> None, duration |-> None, max_buy |-> None]

MCConfigUpdates == {[NoUpdate EXCEPT !.treasury = Curator]}

MCPoolParams ==
  {[token_supply |-> None, floor_price |-> None, cap_price |-> None,
    midpoint_supply |-> None, steepness_bps |-> None,
    supply_threshold_bps |-> None, min_sol_reserve |-> None, bin_step_bps |-> None]}

BinOf(id, price, tokens, sol) ==
  [bin_id |-> id, price_lamports_per_token |-> price,
   token_liquidity |-> tokens, sol_liquidity |-> sol]

MCBinParams == {BinOf(1, 20, 97, 97), BinOf(2, 30, 194, 0)}
=============================================================================
