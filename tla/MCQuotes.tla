------------------------------ MODULE MCQuotes ------------------------------
(***************************************************************************)
(* Curves for the sweep: the default one at 20000 base units, on which     *)
(* large sales are worth more than the integers of the run hold; one that  *)
(* is steep and off-centre; a cheap one that the amounts can buy out and   *)
(* whose supply is not a multiple of its band; one whose last band ends    *)
(* past the width; one with so small a supply that it has more bands than  *)
(* the limit; and one that no pool may have.                               *)
(***************************************************************************)
EXTENDS SdkAgreement

Default ==
  [token_supply |-> 20000, floor_price_lamports |-> 10,
   cap_price_lamports |-> 10000, midpoint_supply |-> 10000,
   steepness_bps |-> 10000, band_bps |-> 100]

DefaultCurve == {Default}

MCCurves ==
  {Default,
   [Default EXCEPT !.midpoint_supply = 5000, !.steepness_bps = 15000,
                   !.cap_price_lamports = 3000],
   [Default EXCEPT !.token_supply = 19950, !.midpoint_supply = 12345,
                   !.steepness_bps = 7000, !.cap_price_lamports = 30],
   [Default EXCEPT !.token_supply = 298550, !.midpoint_supply = 149275,
                   !.cap_price_lamports = 30],
   [Default EXCEPT !.token_supply = 190, !.midpoint_supply = 95],
   [Default EXCEPT !.midpoint_supply = 20000]}

(* The proofs about the sweep suppose that prices rise: as far as each     *)
(* curve is traded by default they do, and on the cheap one within a band. *)
ASSUME CurvesRise ==
  /\ DefaultShape(Default)
  /\ \A c \in MCCurves : Quotable(c) => RisesBelow(c, c.token_supply \div 4)
  /\ \A c \in MCCurves :
       c.token_supply = 19950 => RisesWithinBands(c, 12300, 12600)
=============================================================================
