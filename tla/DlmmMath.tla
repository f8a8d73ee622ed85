------------------------------ MODULE DlmmMath ------------------------------
(***************************************************************************)
(* Quotes at the single price of a liquidity bin, and the bin a price      *)
(* falls in (math/dlmm.rs).  A bin buys back at the price it sells at, and *)
(* every division rounds against the trader.                               *)
(***************************************************************************)
EXTENDS SigmoidCurve

quote_dlmm_buy_rounded_up(sol_in, price) ==  \* mutant: rounds for the buyer
  ceil_div(sol_in * TOKEN_UNIT, price)

quote_dlmm_buy(sol_in, price) == (sol_in * TOKEN_UNIT) \div price

quote_dlmm_sell(tokens_in, price) == (tokens_in * price) \div TOKEN_UNIT

(* Not logarithmic: the id is the price divided by the step. *)
bin_id_for_price(price, bin_step_bps) == price \div bin_step_bps
=============================================================================
