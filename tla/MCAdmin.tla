------------------------------ MODULE MCAdmin ------------------------------
(***************************************************************************)
(* The admin at work while a pool trades: pausing, resuming, handing over, *)
(* moving the default prices one end at a time or both at once, opening    *)
(* and closing a pool's launch protection while the clock runs.            *)
(***************************************************************************)
EXTENDS RedCircleProperties

CONSTANTS Admin, Curator

MCDefaults ==
  [floor_price |-> 10, cap_price |-> 30, pool_creation_fee |-> 7,
   duration |-> 2, max_buy |-> 150, token_supply |-> 1000,
   steepness_bps |-> 10000, supply_threshold_bps |-> 1500,
   min_sol_reserve |-> 150, bin_step_bps |-> 10]

DefaultInit ==
  [floor_price |-> None, cap_price |-> None, pool_creation_fee |-> None,
   duration |-> None, max_buy |-> None]

(* The second call is refused: its floor is above the default cap. *)
MCInitParams == {DefaultInit, [DefaultInit EXCEPT !.floor_price = 40]}

NoUpdate ==
  [admin |-> None, treasury |-> None, is_paused |-> None, floor_price |-> None,
   cap_price |-> None, pool_creation_fee |-> None, duration |-> None, max_buy |-> None]

MCConfigUpdates ==
  {[NoUpdate EXCEPT !.is_paused = TRUE],
   [NoUpdate EXCEPT !.is_paused = FALSE, !.treasury = Curator],
   [NoUpdate EXCEPT !.admin = Curator, !.max_buy = 250],
   [NoUpdate EXCEPT !.floor_price = 20],
   [NoUpdate EXCEPT !.cap_price = 20, !.duration = -1],
   [NoUpdate EXCEPT !.floor_price = 5, !.cap_price = 10]}

NoOptions ==
  [token_supply |-> None, floor_price |-> None, cap_price |-> None,
   midpoint_supply |-> None, steepness_bps |-> None,
   supply_threshold_bps |-> None, min_sol_reserve |-> None, bin_step_bps |-> None]

(* The last two are refused: a midpoint beyond the supply, no threshold. *)
MCPoolParams == {NoOptions,
                 [NoOptions EXCEPT !.midpoint_supply = 1000],
                 [NoOptions EXCEPT !.supply_threshold_bps = 0]}

MCBinParams == {[bin_id |-> 1, price_lamports_per_token |-> 20,
                 token_liquidity |-> 97, sol_liquidity |-> 97]}
=============================================================================
