------------------------------ MODULE QuoteWalk ------------------------------
(***************************************************************************)
(* One call of quote_sigmoid_buy or quote_sigmoid_sell, pass by pass: the  *)
(* loops that SigmoidCurve writes as functions, here as a system whose     *)
(* state is the loop's local variables.  What the loop keeps true can be   *)
(* proved of this system for every curve, supply and amount, and that it   *)
(* comes to an end, and how far it has then got, can be stated of it.      *)
(***************************************************************************)
EXTENDS SigmoidCurve

CONSTANTS
  Curves,    \* sigmoid configurations a quote is asked of
  Supplies,  \* tokens sold when it is asked
  Amounts    \* lamports offered, or tokens

ASSUME RequestsAssumption ==
  /\ Curves \subseteq SigmoidConfig
  /\ Supplies \subseteq U64
  /\ Amounts \subseteq U64

VARIABLES
  curve, side, sold, amount,  \* the arguments
  pc,                         \* "called", "walking", "answered" or "refused"
  w                           \* the loop's variables

arguments == <<curve, side, sold, amount>>
vars == <<curve, side, sold, amount, pc, w>>

(* A pool never has more tokens sold than it has. *)
Init ==
  /\ curve \in Curves
  /\ side \in {"buy", "sell"}
  /\ sold \in Supplies
  /\ sold <= curve.token_supply
  /\ amount \in Amounts
  /\ pc = "called"
  /\ w = WalkFrom(sold, amount)

Acceptable ==
  /\ amount > 0
  /\ side = "sell" => amount <= sold
  /\ ValidSigmoid(curve)
  /\ band_size(curve) > 0

(* The requirements at the head of both functions. *)
Require ==
  /\ pc = "called"
  /\ pc' = IF Acceptable THEN "walking" ELSE "refused"
  /\ UNCHANGED <<arguments, w>>

Over == IF side = "buy" THEN BuyOver(curve, w) ELSE SellOver(w)

Stalled == side = "buy" /\ NothingAffordable(w, BuyBand(curve, w))

BuyPass ==
  /\ pc = "walking" /\ side = "buy"
  /\ ~Over /\ ~Stalled
  /\ w' = BuyBand(curve, w)
  /\ UNCHANGED <<arguments, pc>>

SellPass ==
  /\ pc = "walking" /\ side = "sell"
  /\ ~Over
  /\ w' = SellBand(curve, w)
  /\ UNCHANGED <<arguments, pc>>

Return ==
  /\ pc = "walking"
  /\ Over \/ Stalled
  /\ pc' = "answered"
  /\ UNCHANGED <<arguments, w>>

Next == Require \/ BuyPass \/ SellPass \/ Return

(* A function that was called runs on: nothing in it waits. *)
Spec == Init /\ [][Next]_vars /\ WF_vars(Next)
-----------------------------------------------------------------------------
TypeOK ==
  /\ curve \in Curves
  /\ side \in {"buy", "sell"}
  /\ sold \in Supplies /\ sold <= curve.token_supply
  /\ amount \in Amounts
  /\ pc \in {"called", "walking", "answered", "refused"}
  /\ w \in Walk
  /\ pc \in {"walking", "answered"} => Acceptable

(* Lamports for tokens at a price between floor and cap: rounding costs    *)
(* the buyer, or the seller, less than one lamport per band.               *)
FairlyPriced ==
  LET most == w.tokens * curve.cap_price_lamports
      least_sol == w.tokens * curve.floor_price_lamports
      rounding == w.steps * (TOKEN_UNIT - 1)
  IN  IF side = "buy"
      THEN least_sol <= w.sol * TOKEN_UNIT /\ w.sol * TOKEN_UNIT <= most + rounding
      ELSE least_sol <= w.sol * TOKEN_UNIT + rounding /\ w.sol * TOKEN_UNIT <= most

(* Every lamport of a budget is spent or left, none is spent twice, and    *)
(* the cursor moves by the tokens bought and stays within the supply; what *)
(* a buy may leave the loop with is therefore never more than was offered. *)
BuyLoop ==
  side = "buy" =>
    /\ w.remaining >= 0 /\ w.sol >= 0
    /\ w.remaining + w.sol = amount
    /\ w.tokens >= 0
    /\ w.cursor = sold + w.tokens
    /\ w.cursor <= curve.token_supply

(* Every token of a sale is sold or left, and the cursor moves down by the *)
(* tokens sold and not below zero.                                         *)
SellLoop ==
  side = "sell" =>
    /\ w.tokens >= 0 /\ w.sol >= 0
    /\ w.remaining + w.tokens = amount
    /\ w.cursor + w.tokens = sold
    /\ w.cursor >= 0
    /\ amount <= sold => w.remaining >= 0

(* Every acceptable sale that spans no more bands than a quote may cross   *)
(* is eventually quoted in full.                                           *)
SalesAreQuoted ==
  (pc = "walking" /\ side = "sell"
     /\ BandsBetween(curve, sold - amount, sold) <= MAX_SIGMOID_STEPS)
  ~> (pc = "answered" /\ w.remaining = 0 /\ w.cursor = sold - amount)

(* Every acceptable buy is eventually filled as far as it can be: to the   *)
(* last unit it can pay for, to the end of the supply, or over as many     *)
(* bands as a quote may cross.                                             *)
BuysAreFilled ==
  (pc = "walking" /\ side = "buy"
     /\ curve.token_supply + band_size(curve) <= U64Max)
  ~> /\ pc = "answered"
     /\ \/ w.cursor = curve.token_supply
        \/ w.remaining * TOKEN_UNIT < price_at_supply(curve, w.cursor)
        \/ BandsBetween(curve, sold, w.cursor) >= MAX_SIGMOID_STEPS
=============================================================================
