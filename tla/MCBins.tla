------------------------------- MODULE MCBins -------------------------------
(***************************************************************************)
(* Pools small enough that a trade can drain a bin: 200 lamports less the  *)
(* fee of 6 buy exactly the 97 tokens of the middle bin at 20 lamports per *)
(* ten base units, and 97 tokens sell for exactly 194 lamports, what the   *)
(* bin holds once 97 have been added to it.                                *)
(***************************************************************************)
EXTENDS RedCircleProperties, TLC

CONSTANTS Admin, Curator

MCDefaults ==
  [floor_price |-> 10, cap_price |-> 30, pool_creation_fee |-> 0,
   duration |-> 0, max_buy |-> 500, token_supply |-> 1000,
   steepness_bps |-> 10000, supply_threshold_bps |-> 1500,
   min_sol_reserve |-> 150, bin_step_bps |-> 10]

MCInitParams ==
  {[floor_price |-> None, cap_price |-> None, pool_creation_fee |-> None,
    duration |-> None, max_buy |-> None]}

NoOptions ==
  [token_supply |-> None, floor_price |-> None, cap_price |-> None,
   midpoint_supply |-> None, steepness_bps |-> None,
   supply_threshold_bps |-> None, min_sol_reserve |-> None, bin_step_bps |-> None]

MCPoolParams == {NoOptions}

BinOf(id, price, tokens, sol) ==
  [bin_id |-> id, price_lamports_per_token |-> price,
   token_liquidity |-> tokens, sol_liquidity |-> sol]

MCBinParams == {BinOf(0, 10, 0, 97), BinOf(1, 20, 97, 97), BinOf(2, 30, 194, 0)}

(* The middle bin and the one below it. *)
TwoBins == {BinOf(0, 10, 0, 97), BinOf(1, 20, 97, 97)}

TwoSided == {[token_amount |-> 97, sol_amount |-> 97]}

PostSymmetry == Permutations(Posts)

(* The upper bin may also be one of which a buy of 200 lamports leaves 11  *)
(* of 75 tokens, for which the least buy, of 50 lamports, takes too many.  *)
(* Or it takes every token and every lamport that a single buy on the      *)
(* curve leaves in the reserves: 818 tokens and 194 lamports.              *)
ThreeBins == MCBinParams \cup {BinOf(2, 30, 75, 0), BinOf(2, 20, 818, 194)}

MCLiquidityParams == {[token_amount |-> 97, sol_amount |-> 0],
                      [token_amount |-> 0, sol_amount |-> 97]}

=============================================================================
