------------------------------ MODULE FeeMath ------------------------------
(***************************************************************************)
(* The trading fee and its four-way split (constants.rs and                *)
(* calculate_fee_breakdown, split_fee of instructions/swap.rs).  The same  *)
(* breakdown is taken of the lamports a buyer offers and of the gross      *)
(* lamports a seller's tokens are worth.                                   *)
(***************************************************************************)
EXTENDS Integers

TOTAL_FEE_BPS == 300
CREATOR_FEE_BPS == 100
CURATOR_FEE_BPS == 50
GROWTH_FEE_BPS == 50
BPS_DENOMINATOR == 10000

split_fee(total, share_bps) == (total * share_bps) \div TOTAL_FEE_BPS

(* The platform takes what the other three leave, so no lamport of the     *)
(* total is lost to rounding.                                              *)
FeeBreakdown(amount) ==
  LET total == (amount * TOTAL_FEE_BPS) \div BPS_DENOMINATOR
      curator == split_fee(total, CURATOR_FEE_BPS)
      creator == split_fee(total, CREATOR_FEE_BPS)
      growth == split_fee(total, GROWTH_FEE_BPS)
  IN  [total |-> total,
       platform |-> total - curator - creator - growth,
       curator |-> curator,
       creator |-> creator,
       growth |-> growth]
=============================================================================
