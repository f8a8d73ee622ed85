---------------------------- MODULE SdkAgreement ----------------------------
(***************************************************************************)
(* The two implementations of the quotes side by side, over the samples of *)
(* CurveQuotes.  Each sample's amount of SOL also serves as the amount of  *)
(* an estimate.                                                            *)
(***************************************************************************)
EXTENDS CurveQuotes, SdkQuotes

(* The program never quotes anything but what the client computes, for a   *)
(* buy and for a sell at any supply, to the base unit and the lamport.     *)
ProgramQuotesAsSdk ==
  LET sell == quote_sigmoid_sell(curve, sold, tokens_in)
  IN  /\ IsQuote(Buy) => Buy.amount_out = quoteSigmoidBuy(curve, sold, sol_in)
      /\ IsQuote(sell) => sell.amount_out = quoteSigmoidSell(curve, sold, tokens_in)

(* Where the client has a quote and the program has none, it is the width  *)
(* of the program's numbers: a sale worth more than a u64 holds, or a      *)
(* curve whose last band ends past it.                                     *)
SdkQuotesAsProgram ==
  LET sell == quote_sigmoid_sell(curve, sold, tokens_in)
  IN  /\ quoteSigmoidBuy(curve, sold, sol_in) > 0 =>
           \/ IsQuote(Buy)
           \/ curve.token_supply + band_size(curve) > U64Max
      /\ quoteSigmoidSell(curve, sold, tokens_in) \in 1..U64Max => IsQuote(sell)
=============================================================================
