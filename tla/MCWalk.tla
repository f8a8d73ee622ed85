------------------------------- MODULE MCWalk -------------------------------
(***************************************************************************)
(* Calls that end in every way: on a curve of ten-token bands with a       *)
(* supply that is not a multiple of the band, on one with more bands than  *)
(* a quote may cross, on the default curve, and on three that no quote     *)
(* accepts, for their prices, their midpoint and their empty band.         *)
(***************************************************************************)
EXTENDS QuoteWalk

Default ==
  [token_supply |-> 20000, floor_price_lamports |-> 10,
   cap_price_lamports |-> 10000, midpoint_supply |-> 10000,
   steepness_bps |-> 10000, band_bps |-> 100]

Small ==
  [Default EXCEPT !.token_supply = 1005, !.midpoint_supply = 400,
                  !.cap_price_lamports = 30]

MCCurves ==
  {Default, Small,
   [Small EXCEPT !.token_supply = 190, !.midpoint_supply = 95,
                 !.floor_price_lamports = 13],
   [Small EXCEPT !.cap_price_lamports = 10],
   [Small EXCEPT !.midpoint_supply = 1005],
   [Small EXCEPT !.token_supply = 90, !.midpoint_supply = 45]}
=============================================================================
