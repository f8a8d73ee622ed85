----------------------------- MODULE WalkProofs -----------------------------
(***************************************************************************)
(* What the loops of the two quotes keep true, proved for every curve,     *)
(* supply, amount, token unit and step limit.  The invariant is inductive  *)
(* as it stands: the conjuncts that the runs check are what each pass      *)
(* needs of the one before.                                                *)
(***************************************************************************)
EXTENDS QuoteWalk, MathProofs

Inv == TypeOK /\ BuyLoop /\ SellLoop /\ FairlyPriced

(* What is known of the arguments while the loop runs.                     *)
LEMMA Arguments ==
  ASSUME TypeOK, Acceptable
  PROVE  /\ curve \in SigmoidConfig /\ ValidSigmoid(curve)
         /\ curve.token_supply \in Nat
         /\ curve.floor_price_lamports \in Nat /\ curve.cap_price_lamports \in Nat
         /\ band_size(curve) \in Nat \ {0}
         /\ sold \in Nat /\ amount \in Nat
         /\ w \in Walk /\ w.steps \in Nat
<1>1. curve \in SigmoidConfig /\ sold \in U64 /\ amount \in U64
  BY RequestsAssumption DEF TypeOK
<1>2. curve.token_supply \in Nat /\ curve.band_bps \in Nat
  BY <1>1, U64Assumption DEF SigmoidConfig, U64
<1>3. curve.token_supply * curve.band_bps \in Nat
  BY <1>2, ProductNat
<1>4. band_size(curve) \in Nat
  BY <1>3, Division DEF band_size, BPS_DENOMINATOR
<1> QED
  BY <1>1, <1>2, <1>4, U64Assumption, StepsAssumption
     DEF SigmoidConfig, U64, Acceptable, TypeOK, Walk

(* What a pass does to the three bounds of a fair price: the tokens and    *)
(* lamports exchanged grow by amounts that are themselves fairly priced.   *)
LEMMA BoundsAdd ==
  ASSUME NEW floor \in Nat, NEW cap \in Nat, NEW price \in Nat,
         floor <= price, price <= cap,
         NEW t \in Nat, NEW s \in Nat, NEW n \in Nat,
         NEW tokens \in Nat, NEW sol \in Nat
  PROVE  /\ tokens * floor <= tokens * price /\ tokens * price <= tokens * cap
         /\ (t + tokens) * floor = t * floor + tokens * floor
         /\ (t + tokens) * cap = t * cap + tokens * cap
         /\ (s + sol) * TOKEN_UNIT = s * TOKEN_UNIT + sol * TOKEN_UNIT
         /\ (n + 1) * (TOKEN_UNIT - 1) = n * (TOKEN_UNIT - 1) + (TOKEN_UNIT - 1)
<1> USE TokenUnitAssumption
<1>1. tokens * floor <= tokens * price
  BY SMTT(30)
<1>2. tokens * price <= tokens * cap
  BY SMTT(30)
<1>3. ASSUME NEW i \in Nat, NEW j \in Nat, NEW k \in Nat
      PROVE  (i + j) * k = i * k + j * k
  BY SMTT(30)
<1>4. (t + tokens) * floor = t * floor + tokens * floor
  BY <1>3
<1>5. (t + tokens) * cap = t * cap + tokens * cap
  BY <1>3
<1>6. (s + sol) * TOKEN_UNIT = s * TOKEN_UNIT + sol * TOKEN_UNIT
  BY <1>3
<1>7. (n + 1) * (TOKEN_UNIT - 1) = n * (TOKEN_UNIT - 1) + (TOKEN_UNIT - 1)
  <2>1. TOKEN_UNIT - 1 \in Nat /\ 1 * (TOKEN_UNIT - 1) = TOKEN_UNIT - 1
    OBVIOUS
  <2>2. (n + 1) * (TOKEN_UNIT - 1) = n * (TOKEN_UNIT - 1) + 1 * (TOKEN_UNIT - 1)
    BY <1>3, <2>1
  <2> QED
    BY <2>1, <2>2
<1> QED
  BY <1>1, <1>2, <1>4, <1>5, <1>6, <1>7

(* A call starts with nothing exchanged.                                   *)
LEMMA StartsSound == Init => Inv
<1> SUFFICES ASSUME Init PROVE Inv
  OBVIOUS
<1>1. /\ sold \in Nat /\ amount \in Nat
      /\ curve.token_supply \in Nat
      /\ curve.floor_price_lamports \in Nat /\ curve.cap_price_lamports \in Nat
  BY RequestsAssumption, U64Assumption DEF Init, SigmoidConfig, U64
<1>2. /\ w.remaining = amount /\ w.cursor = sold /\ w.tokens = 0 /\ w.sol = 0
      /\ w.steps = 0 /\ w \in Walk
  BY <1>1, StepsAssumption DEF Init, WalkFrom, Walk
<1>3. TypeOK
  BY <1>2 DEF Init, TypeOK
<1>4. BuyLoop /\ SellLoop
  BY <1>1, <1>2 DEF Init, BuyLoop, SellLoop
<1>5. FairlyPriced
  BY <1>1, <1>2, TokenUnitAssumption DEF FairlyPriced
<1> QED
  BY <1>3, <1>4, <1>5 DEF Inv

(* A pass of the buy loop keeps the invariant.                             *)
LEMMA BuyPassSound == Inv /\ BuyPass => Inv'
<1> SUFFICES ASSUME Inv, BuyPass PROVE Inv'
  OBVIOUS
<1> USE TokenUnitAssumption
<1>1. side = "buy" /\ pc = "walking" /\ Acceptable /\ TypeOK
  BY DEF Inv, TypeOK, BuyPass
<1>2. /\ curve \in SigmoidConfig /\ ValidSigmoid(curve)
      /\ curve.token_supply \in Nat
      /\ curve.floor_price_lamports \in Nat /\ curve.cap_price_lamports \in Nat
      /\ band_size(curve) \in Nat \ {0}
      /\ sold \in Nat /\ amount \in Nat /\ w \in Walk /\ w.steps \in Nat
  BY <1>1, Arguments
<1>3. /\ w.remaining \in Nat /\ w.sol \in Nat /\ w.tokens \in Nat
      /\ w.remaining + w.sol = amount
      /\ w.cursor = sold + w.tokens
  BY <1>1, <1>2 DEF Inv, BuyLoop, Walk
<1>4. w.cursor \in Nat /\ w.cursor < curve.token_supply
  BY <1>1, <1>2, <1>3 DEF BuyPass, Over, BuyOver
<1>5. w.steps + 1 \in 0..MAX_SIGMOID_STEPS
  BY <1>1, <1>2, StepsAssumption DEF BuyPass, Over, BuyOver, Walk
<1>6. /\ w' = BuyBand(curve, w)
      /\ UNCHANGED <<curve, side, sold, amount, pc>>
  BY DEF BuyPass, arguments
<1>7. CASE BuyBand(curve, w) = [w EXCEPT !.ok = FALSE]
  <2>1. /\ w' \in Walk
        /\ w'.remaining = w.remaining /\ w'.cursor = w.cursor
        /\ w'.tokens = w.tokens /\ w'.sol = w.sol /\ w'.steps = w.steps
    BY <1>2, <1>6, <1>7 DEF Walk
  <2> QED
    BY <1>6, <2>1
       DEF Inv, TypeOK, BuyLoop, SellLoop, FairlyPriced, Acceptable
<1>8. CASE BuyBand(curve, w) # [w EXCEPT !.ok = FALSE]
  <2>1. PICK tokens \in Nat, cost \in Nat, price \in Nat :
          /\ BuyBand(curve, w) = Advance(w, cost, w.cursor + tokens, tokens, cost)
          /\ cost <= w.remaining
          /\ w.cursor + tokens <= curve.token_supply
          /\ curve.floor_price_lamports <= price
          /\ price <= curve.cap_price_lamports
          /\ tokens * price <= cost * TOKEN_UNIT
          /\ cost * TOKEN_UNIT <= tokens * price + (TOKEN_UNIT - 1)
    BY <1>2, <1>3, <1>4, <1>8, BuyBandStep
  <2>2. /\ w' \in Walk
        /\ w'.remaining = w.remaining - cost /\ w'.cursor = w.cursor + tokens
        /\ w'.tokens = w.tokens + tokens /\ w'.sol = w.sol + cost
        /\ w'.steps = w.steps + 1
    <3>1. w.cursor + tokens \in Nat
      BY <1>4
    <3> QED
      BY <1>2, <1>3, <1>5, <1>6, <2>1, <3>1 DEF Advance, Walk
  <2>3. TypeOK'
    BY <1>1, <1>6, <2>2 DEF TypeOK, Acceptable
  <2>4. BuyLoop' /\ SellLoop'
    BY <1>1, <1>2, <1>3, <1>6, <2>1, <2>2 DEF BuyLoop, SellLoop
  <2>5. FairlyPriced'
    <3> DEFINE floor == curve.floor_price_lamports
               cap == curve.cap_price_lamports
    <3>1. /\ tokens * floor <= tokens * price /\ tokens * price <= tokens * cap
          /\ (w.tokens + tokens) * floor = w.tokens * floor + tokens * floor
          /\ (w.tokens + tokens) * cap = w.tokens * cap + tokens * cap
          /\ (w.sol + cost) * TOKEN_UNIT = w.sol * TOKEN_UNIT + cost * TOKEN_UNIT
          /\ (w.steps + 1) * (TOKEN_UNIT - 1)
               = w.steps * (TOKEN_UNIT - 1) + (TOKEN_UNIT - 1)
      <4>1. /\ floor \in Nat /\ cap \in Nat /\ floor <= price /\ price <= cap
        BY <1>2, <2>1
      <4> HIDE DEF floor, cap
      <4> QED
        BY <4>1, <1>2, <1>3, BoundsAdd
    <3>2. /\ w.tokens * floor <= w.sol * TOKEN_UNIT
          /\ w.sol * TOKEN_UNIT <= w.tokens * cap + w.steps * (TOKEN_UNIT - 1)
      BY <1>1 DEF Inv, FairlyPriced
    <3>3. /\ tokens * floor \in Nat /\ tokens * price \in Nat /\ tokens * cap \in Nat
          /\ w.tokens * floor \in Nat /\ w.tokens * cap \in Nat
          /\ w.sol * TOKEN_UNIT \in Nat /\ cost * TOKEN_UNIT \in Nat
          /\ w.steps * (TOKEN_UNIT - 1) \in Nat
      <4>1. TOKEN_UNIT - 1 \in Nat
        OBVIOUS
      <4> QED
        BY <1>2, <1>3, <2>1, <4>1, ProductNat
    <3>4. /\ (w.tokens + tokens) * floor <= (w.sol + cost) * TOKEN_UNIT
          /\ (w.sol + cost) * TOKEN_UNIT
               <= (w.tokens + tokens) * cap + (w.steps + 1) * (TOKEN_UNIT - 1)
      BY <2>1, <3>1, <3>2, <3>3
    <3> QED
      BY <1>1, <1>6, <2>2, <3>4 DEF FairlyPriced
  <2> QED
    BY <2>3, <2>4, <2>5 DEF Inv
<1> QED
  BY <1>7, <1>8

(* A pass of the sell loop keeps the invariant.                            *)
LEMMA SellPassSound == Inv /\ SellPass => Inv'
<1> SUFFICES ASSUME Inv, SellPass PROVE Inv'
  OBVIOUS
<1> USE TokenUnitAssumption
<1>1. side = "sell" /\ side # "buy" /\ pc = "walking" /\ Acceptable /\ TypeOK
  BY DEF Inv, TypeOK, SellPass
<1>2. /\ curve \in SigmoidConfig /\ ValidSigmoid(curve)
      /\ curve.token_supply \in Nat
      /\ curve.floor_price_lamports \in Nat /\ curve.cap_price_lamports \in Nat
      /\ band_size(curve) \in Nat \ {0}
      /\ sold \in Nat /\ amount \in Nat /\ w \in Walk /\ w.steps \in Nat
  BY <1>1, Arguments
<1>3. /\ w.remaining \in Nat /\ w.sol \in Nat /\ w.tokens \in Nat
      /\ w.remaining + w.tokens = amount
      /\ w.cursor + w.tokens = sold /\ w.cursor \in Nat
      /\ amount <= sold
  BY <1>1, <1>2 DEF Inv, SellLoop, Walk, Acceptable
<1>4. w.cursor \in Nat \ {0} /\ w.steps + 1 \in 0..MAX_SIGMOID_STEPS
  BY <1>1, <1>2, <1>3, StepsAssumption DEF SellPass, Over, SellOver, Walk
<1>5. /\ w' = SellBand(curve, w)
      /\ UNCHANGED <<curve, side, sold, amount, pc>>
  BY DEF SellPass, arguments
<1>6. PICK tokens \in Nat, sol \in Nat, price \in Nat :
        /\ SellBand(curve, w) = Advance(w, tokens, w.cursor - tokens, tokens, sol)
        /\ tokens <= w.remaining
        /\ tokens <= w.cursor
        /\ curve.floor_price_lamports <= price
        /\ price <= curve.cap_price_lamports
        /\ sol * TOKEN_UNIT <= tokens * price
        /\ tokens * price <= sol * TOKEN_UNIT + (TOKEN_UNIT - 1)
  BY <1>2, <1>3, <1>4, SellBandStep
<1>7. /\ w' \in Walk
      /\ w'.remaining = w.remaining - tokens /\ w'.cursor = w.cursor - tokens
      /\ w'.tokens = w.tokens + tokens /\ w'.sol = w.sol + sol
      /\ w'.steps = w.steps + 1
  <2>1. w.cursor - tokens \in Nat
    BY <1>4, <1>6
  <2> QED
    BY <1>2, <1>3, <1>4, <1>5, <1>6, <2>1 DEF Advance, Walk
<1>8. TypeOK'
  BY <1>1, <1>5, <1>7 DEF TypeOK, Acceptable
<1>9. BuyLoop' /\ SellLoop'
  BY <1>1, <1>2, <1>3, <1>5, <1>6, <1>7 DEF BuyLoop, SellLoop
<1>10. FairlyPriced'
  <2> DEFINE floor == curve.floor_price_lamports
             cap == curve.cap_price_lamports
  <2>1. /\ tokens * floor <= tokens * price /\ tokens * price <= tokens * cap
        /\ (w.tokens + tokens) * floor = w.tokens * floor + tokens * floor
        /\ (w.tokens + tokens) * cap = w.tokens * cap + tokens * cap
        /\ (w.sol + sol) * TOKEN_UNIT = w.sol * TOKEN_UNIT + sol * TOKEN_UNIT
        /\ (w.steps + 1) * (TOKEN_UNIT - 1)
             = w.steps * (TOKEN_UNIT - 1) + (TOKEN_UNIT - 1)
    BY <1>2, <1>3, <1>6, BoundsAdd
  <2>2. /\ w.tokens * floor <= w.sol * TOKEN_UNIT + w.steps * (TOKEN_UNIT - 1)
        /\ w.sol * TOKEN_UNIT <= w.tokens * cap
    BY <1>1 DEF Inv, FairlyPriced
  <2>3. /\ tokens * floor \in Nat /\ tokens * price \in Nat /\ tokens * cap \in Nat
        /\ w.tokens * floor \in Nat /\ w.tokens * cap \in Nat
        /\ w.sol * TOKEN_UNIT \in Nat /\ sol * TOKEN_UNIT \in Nat
        /\ w.steps * (TOKEN_UNIT - 1) \in Nat
    <3>1. TOKEN_UNIT - 1 \in Nat
      OBVIOUS
    <3> QED
      BY <1>2, <1>3, <1>6, <3>1, ProductNat
  <2>4. /\ (w.tokens + tokens) * floor
             <= (w.sol + sol) * TOKEN_UNIT + (w.steps + 1) * (TOKEN_UNIT - 1)
        /\ (w.sol + sol) * TOKEN_UNIT <= (w.tokens + tokens) * cap
    BY <1>6, <2>1, <2>2, <2>3
  <2> QED
    BY <1>1, <1>5, <1>7, <2>4 DEF FairlyPriced
<1> QED
  BY <1>8, <1>9, <1>10 DEF Inv

(* The other steps leave the loop's variables as they are.                 *)
LEMMA EveryPassSound == Inv /\ [Next]_vars => Inv'
<1> SUFFICES ASSUME Inv, [Next]_vars PROVE Inv'
  OBVIOUS
<1>1. CASE Require
  BY <1>1 DEF Require, arguments, Inv, TypeOK, BuyLoop, SellLoop, FairlyPriced, Acceptable
<1>2. CASE BuyPass
  BY <1>2, BuyPassSound
<1>3. CASE SellPass
  BY <1>3, SellPassSound
<1>4. CASE Return
  BY <1>4 DEF Return, arguments, Inv, TypeOK, BuyLoop, SellLoop, FairlyPriced, Acceptable
<1>5. CASE UNCHANGED vars
  BY <1>5 DEF vars, Inv, TypeOK, BuyLoop, SellLoop, FairlyPriced, Acceptable
<1> QED
  BY <1>1, <1>2, <1>3, <1>4, <1>5 DEF Next

(* The invariant of a call, from which the theorems below are read off.    *)
LEMMA WalkSound == Spec => []Inv
BY StartsSound, EveryPassSound, PTL DEF Spec

(* A quote crosses no more bands than the limit, and walks only when it    *)
(* was asked with acceptable arguments.                                    *)
THEOREM WalkTyped == Spec => []TypeOK
<1>1. Inv => TypeOK
  BY DEF Inv
<1> QED
  BY <1>1, WalkSound, PTL

(* No pass of the buy loop spends a lamport twice or loses one, none takes *)
(* the cursor past the supply and none underflows what remains.            *)
THEOREM BuyLoopHolds == Spec => []BuyLoop
<1>1. Inv => BuyLoop
  BY DEF Inv
<1> QED
  BY <1>1, WalkSound, PTL

(* No pass of the sell loop sells a token twice or takes the cursor below  *)
(* zero.                                                                   *)
THEOREM SellLoopHolds == Spec => []SellLoop
<1>1. Inv => SellLoop
  BY DEF Inv
<1> QED
  BY <1>1, WalkSound, PTL

(* Whatever the curve and the amount, a quote lies between the floor and   *)
(* the cap price but for one rounding per band, made against the caller.   *)
THEOREM QuotesFairlyPriced == Spec => []FairlyPriced
<1>1. Inv => FairlyPriced
  BY DEF Inv
<1> QED
  BY <1>1, WalkSound, PTL

-----------------------------------------------------------------------------
(* The functions that the swaps of the program use give, from where the    *)
(* call is, the answer they give from its start: every pass is one         *)
(* unfolding of their recursion, and a call that answers is at its end.    *)
BuyOnTheWay ==
  pc \in {"walking", "answered"} /\ side = "buy" =>
    \E run : /\ IsRun(run, Walk, BuyEnds(curve), BuyStep(curve))
             /\ BuyWalk(curve, sold, amount) = run[w]

SellOnTheWay ==
  pc \in {"walking", "answered"} /\ side = "sell" =>
    \E run : /\ IsRun(run, Walk, SellEnds, SellStep(curve))
             /\ SellWalk(curve, sold, amount) = run[w]

OnTheWay ==
  /\ pc = "called" => w = WalkFrom(sold, amount)
  /\ pc = "refused" => ~Acceptable
  /\ BuyOnTheWay /\ SellOnTheWay
  /\ pc = "answered" /\ side = "buy" => w \in BuyEnds(curve)
  /\ pc = "answered" /\ side = "sell" => w \in SellEnds

(* A call that is accepted starts where the functions start.               *)
LEMMA RequireOnTheWay ==
  ASSUME TypeOK, OnTheWay, Require
  PROVE  OnTheWay'
<1>1. /\ pc = "called" /\ w = WalkFrom(sold, amount) /\ w \in Walk
      /\ UNCHANGED <<curve, side, sold, amount, w>>
  BY DEF TypeOK, OnTheWay, Require, arguments
<1>2. CASE ~Acceptable
  BY <1>1, <1>2
     DEF Require, OnTheWay, BuyOnTheWay, SellOnTheWay, Acceptable
<1>3. CASE Acceptable
  <2>1. curve \in SigmoidConfig /\ ValidSigmoid(curve) /\ band_size(curve) # 0
    BY <1>3, Arguments
  <2>2. \E run : /\ IsRun(run, Walk, BuyEnds(curve), BuyStep(curve))
                 /\ BuyWalk(curve, sold, amount) = run[w]
    BY <1>1, <2>1, BuyWalkRuns
  <2>3. \E run : /\ IsRun(run, Walk, SellEnds, SellStep(curve))
                 /\ SellWalk(curve, sold, amount) = run[w]
    BY <1>1, <2>1, SellWalkRuns
  <2>4. pc' = "walking"
    BY <1>3 DEF Require
  <2>5. BuyOnTheWay' /\ SellOnTheWay'
    BY <1>1, <2>2, <2>3 DEF BuyOnTheWay, SellOnTheWay
  <2> QED
    BY <2>4, <2>5 DEF OnTheWay
<1> QED
  BY <1>2, <1>3

(* A pass takes the walk one step on.                                      *)
LEMMA PassOnTheWay ==
  ASSUME TypeOK, OnTheWay, BuyPass \/ SellPass
  PROVE  OnTheWay'
<1>1. /\ pc = "walking" /\ Acceptable /\ w \in Walk
      /\ UNCHANGED <<curve, side, sold, amount, pc>>
  BY DEF TypeOK, BuyPass, SellPass, arguments
<1>2. CASE BuyPass
  <2>1. PICK run : /\ IsRun(run, Walk, BuyEnds(curve), BuyStep(curve))
                   /\ BuyWalk(curve, sold, amount) = run[w]
    BY <1>1, <1>2 DEF OnTheWay, BuyOnTheWay, BuyPass
  <2>2. w \notin BuyEnds(curve) /\ BuyStep(curve)[w] = w'
    BY <1>1, <1>2 DEF BuyPass, Over, Stalled, BuyEnds, BuyStep
  <2>3. run[w] = run[w']
    BY <1>1, <2>1, <2>2 DEF IsRun
  <2>4. BuyOnTheWay' /\ SellOnTheWay'
    BY <1>1, <1>2, <2>1, <2>3 DEF BuyPass, BuyOnTheWay, SellOnTheWay
  <2> QED
    BY <1>1, <2>4 DEF OnTheWay
<1>3. CASE SellPass
  <2>1. PICK run : /\ IsRun(run, Walk, SellEnds, SellStep(curve))
                   /\ SellWalk(curve, sold, amount) = run[w]
    BY <1>1, <1>3 DEF OnTheWay, SellOnTheWay, SellPass
  <2>2. w \notin SellEnds /\ SellStep(curve)[w] = w'
    BY <1>1, <1>3 DEF SellPass, Over, SellEnds, SellStep
  <2>3. run[w] = run[w']
    BY <1>1, <2>1, <2>2 DEF IsRun
  <2>4. BuyOnTheWay' /\ SellOnTheWay'
    BY <1>1, <1>3, <2>1, <2>3 DEF SellPass, BuyOnTheWay, SellOnTheWay
  <2> QED
    BY <1>1, <2>4 DEF OnTheWay
<1> QED
  BY <1>2, <1>3

(* A call returns where the walk ends.                                     *)
LEMMA ReturnOnTheWay ==
  ASSUME TypeOK, OnTheWay, Return
  PROVE  OnTheWay'
<1>1. /\ pc = "walking" /\ pc' = "answered" /\ w \in Walk
      /\ UNCHANGED <<curve, side, sold, amount, w>>
  BY DEF TypeOK, Return, arguments
<1>2. side = "buy" => w \in BuyEnds(curve)
  BY <1>1 DEF Return, Over, Stalled, BuyEnds
<1>3. side = "sell" => w \in SellEnds
  BY <1>1 DEF Return, Over, Stalled, SellEnds
<1>4. BuyOnTheWay' /\ SellOnTheWay'
  BY <1>1 DEF OnTheWay, BuyOnTheWay, SellOnTheWay
<1> QED
  BY <1>1, <1>2, <1>3, <1>4 DEF OnTheWay

(* No other step touches the call.                                         *)
LEMMA WalkOnTheWay == Spec => []OnTheWay
<1>1. Init => OnTheWay
  BY DEF Init, OnTheWay, BuyOnTheWay, SellOnTheWay
<1>2. TypeOK /\ OnTheWay /\ [Next]_vars => OnTheWay'
  <2>1. ASSUME OnTheWay, UNCHANGED vars PROVE OnTheWay'
    <3>1. UNCHANGED <<curve, side, sold, amount, pc, w>>
      BY <2>1 DEF vars
    <3> QED
      BY <2>1, <3>1 DEF OnTheWay, BuyOnTheWay, SellOnTheWay, Acceptable
  <2> QED
    BY <2>1, RequireOnTheWay, PassOnTheWay, ReturnOnTheWay DEF Next
<1> QED
  BY <1>1, <1>2, WalkTyped, PTL DEF Spec

-----------------------------------------------------------------------------
(* Where the loops end, and that they do.                                  *)

(* A call that answered is where its function's recursion ends.            *)
LEMMA AnsweredIsWalk ==
  ASSUME TypeOK, OnTheWay, pc = "answered"
  PROVE  /\ side = "buy" => w = BuyWalk(curve, sold, amount)
         /\ side = "sell" => w = SellWalk(curve, sold, amount)
<1>1. ASSUME side = "buy" PROVE w = BuyWalk(curve, sold, amount)
  <2>1. PICK run : /\ IsRun(run, Walk, BuyEnds(curve), BuyStep(curve))
                   /\ BuyWalk(curve, sold, amount) = run[w]
    BY <1>1 DEF OnTheWay, BuyOnTheWay
  <2> QED
    BY <1>1, <2>1 DEF IsRun, TypeOK, OnTheWay
<1>2. ASSUME side = "sell" PROVE w = SellWalk(curve, sold, amount)
  <2>1. PICK run : /\ IsRun(run, Walk, SellEnds, SellStep(curve))
                   /\ SellWalk(curve, sold, amount) = run[w]
    BY <1>2 DEF OnTheWay, SellOnTheWay
  <2> QED
    BY <1>2, <2>1 DEF IsRun, TypeOK, OnTheWay
<1> QED
  BY <1>1, <1>2

(* A sale over no more bands than a quote may cross never answers before   *)
(* everything is sold: no pass of it is lost.                              *)
THEOREM SalesEndInFull ==
  Spec => [](pc = "answered" /\ side = "sell"
               /\ BandsBetween(curve, sold - amount, sold) <= MAX_SIGMOID_STEPS
             => w.remaining = 0 /\ w.cursor = sold - amount)
<1>1. ASSUME TypeOK, SellLoop, OnTheWay, pc = "answered", side = "sell",
             BandsBetween(curve, sold - amount, sold) <= MAX_SIGMOID_STEPS
      PROVE  w.remaining = 0 /\ w.cursor = sold - amount
  <2>1. Acceptable
    BY <1>1 DEF TypeOK
  <2>2. /\ IsCurve(curve) /\ sold \in Nat /\ amount \in Nat \ {0} /\ amount <= sold
    BY <1>1, <2>1, Arguments DEF Acceptable, IsCurve
  <2>3. w = SellWalk(curve, sold, amount)
    BY <1>1, AnsweredIsWalk
  <2>4. sold - amount \in Nat /\ band_size(curve) \in Nat \ {0}
    BY <2>2 DEF IsCurve
  <2>5. BandsBetween(curve, sold - amount, sold) \in Int
    <3>1. sold - 1 \in Nat
      BY <2>2
    <3>2. (sold - 1) \div band_size(curve) \in Nat
      BY <2>4, <3>1, Division
    <3>3. (sold - amount) \div band_size(curve) \in Nat
      BY <2>4, Division
    <3> QED
      BY <3>2, <3>3 DEF BandsBetween
  <2>6. w.remaining = 0
    BY <1>1, <2>2, <2>3, <2>5, SellEndsAt, StepsAssumption
  <2>7. /\ w.remaining + w.tokens = amount /\ w.cursor + w.tokens = sold
        /\ w.cursor \in Nat /\ w.tokens \in Nat
    BY <1>1 DEF SellLoop, TypeOK, Walk
  <2> QED
    BY <2>2, <2>6, <2>7
<1> QED
  BY <1>1, WalkTyped, SellLoopHolds, WalkOnTheWay, PTL

(* A buy of a supply that one more band would not take past the program's  *)
(* integers never stops for an overflow.                                   *)
Roomy == side = "buy" /\ curve.token_supply + band_size(curve) <= U64Max

(* No pass of it overflows.                                                *)
LEMMA NoPassOverflows ==
  ASSUME TypeOK, Roomy => w.ok, [Next]_vars
  PROVE  (Roomy => w.ok)'
<1> SUFFICES ASSUME Roomy' PROVE w'.ok
  OBVIOUS
<1>1. curve' = curve /\ side' = side
  BY DEF Next, Require, BuyPass, SellPass, Return, arguments, vars
<1>2. Roomy /\ w.ok
  BY <1>1 DEF Roomy
<1>3. CASE ~BuyPass
  BY <1>2, <1>3 DEF Next, Require, SellPass, Return, vars, Roomy
<1>4. CASE BuyPass
  <2>1. /\ pc = "walking" /\ ~BuyOver(curve, w) /\ w' = BuyBand(curve, w)
    BY <1>2, <1>4 DEF BuyPass, Over, Roomy
  <2>2. /\ band_size(curve) \in Nat \ {0} /\ curve.token_supply \in Nat /\ w \in Walk
    BY <2>1, Arguments DEF TypeOK
  <2>3. w.cursor \in Nat /\ w.cursor < curve.token_supply
    BY <2>1, <2>2 DEF Walk, BuyOver
  <2>4. /\ raw_band_end(w.cursor, band_size(curve)) \in Nat
        /\ raw_band_end(w.cursor, band_size(curve)) <= curve.token_supply + band_size(curve)
    BY <2>2, <2>3, RawBandEnd
  <2>5. raw_band_end(w.cursor, band_size(curve)) \in U64
    BY <1>2, <2>2, <2>4, U64Assumption DEF Roomy, U64
  <2>6. w' = BuyAtPrice(curve, w, price_at_supply(curve, w.cursor))
    BY <2>1, <2>5 DEF BuyBand
  <2> QED
    BY <1>2, <2>6 DEF BuyAtPrice, PayFor, Advance
<1> QED
  BY <1>3, <1>4

(* A buy answers only when it is filled as far as it can be: to the last   *)
(* unit it can pay for, to the end of the supply, or over as many bands as *)
(* a quote may cross.  A price that dips within a band may use up a pass.  *)
THEOREM BuysEndFilled ==
  Spec => [](pc = "answered" /\ side = "buy"
               /\ curve.token_supply + band_size(curve) <= U64Max
               /\ RisesWithinBands(curve, sold, w.cursor)
             => \/ w.cursor = curve.token_supply
                \/ w.remaining * TOKEN_UNIT < price_at_supply(curve, w.cursor)
                \/ BandsBetween(curve, sold, w.cursor) >= MAX_SIGMOID_STEPS)
<1>1. ASSUME TypeOK, BuyLoop, OnTheWay, Roomy => w.ok, pc = "answered", side = "buy",
             curve.token_supply + band_size(curve) <= U64Max,
             RisesWithinBands(curve, sold, w.cursor)
      PROVE  \/ w.cursor = curve.token_supply
             \/ w.remaining * TOKEN_UNIT < price_at_supply(curve, w.cursor)
             \/ BandsBetween(curve, sold, w.cursor) >= MAX_SIGMOID_STEPS
  <2>1. Acceptable
    BY <1>1 DEF TypeOK
  <2>2. /\ IsCurve(curve) /\ sold \in Nat /\ amount \in Nat
        /\ sold <= curve.token_supply
    BY <1>1, <2>1, Arguments DEF Acceptable, IsCurve, TypeOK
  <2>3. w = BuyWalk(curve, sold, amount)
    BY <1>1, AnsweredIsWalk
  <2>4. w.ok /\ w.cursor = sold + w.tokens
    BY <1>1 DEF Roomy, BuyLoop
  <2>5. RisesWithinBands(curve, sold, sold + w.tokens)
    BY <1>1, <2>4
  <2> QED
    BY <2>2, <2>3, <2>4, <2>5, BuyWalkStops
<1>2. Init => (Roomy => w.ok)
  BY DEF Init, WalkFrom
<1>3. TypeOK /\ (Roomy => w.ok) /\ [Next]_vars => (Roomy => w.ok)'
  BY NoPassOverflows
<1> QED
  BY <1>1, <1>2, <1>3, WalkTyped, BuyLoopHolds, WalkOnTheWay, PTL DEF Spec

(* Steps a call has left: its passes, the one that may overflow, the       *)
(* requirements and the return.                                            *)
Left == CASE pc = "called" -> MAX_SIGMOID_STEPS + 3
          [] pc = "walking" -> MAX_SIGMOID_STEPS - w.steps + (IF w.ok THEN 2 ELSE 1)
          [] OTHER -> 0

(* Every step of a call uses up one at least, so it answers or refuses     *)
(* after at most MAX_SIGMOID_STEPS + 3 of them: the loops cannot run on,   *)
(* not even by a pass that buys nothing or by an overflow, which leaves    *)
(* the step counter as it is.                                              *)
THEOREM CallsEnd == Spec => [][Left' < Left /\ Left \in Nat /\ Left' \in Nat]_vars
<1> DEFINE Goes == Left' < Left /\ Left \in Nat /\ Left' \in Nat
<1>1. ASSUME TypeOK, Next PROVE Goes
  <2>1. /\ w \in Walk /\ w.steps \in 0..MAX_SIGMOID_STEPS /\ w.ok \in BOOLEAN
        /\ MAX_SIGMOID_STEPS \in Nat
        /\ pc \in {"called", "walking", "answered", "refused"}
    BY <1>1, StepsAssumption DEF TypeOK, Walk
  <2>2. CASE Require
    BY <2>1, <2>2 DEF Require, Left
  <2>3. CASE Return
    BY <2>1, <2>3 DEF Return, Left
  <2>4. CASE BuyPass
    <3>1. /\ pc = "walking" /\ pc' = "walking" /\ ~BuyOver(curve, w)
          /\ w' = BuyBand(curve, w)
      BY <2>4 DEF BuyPass, Over
    <3>2. w.ok /\ w.steps < MAX_SIGMOID_STEPS
      BY <2>1, <3>1 DEF BuyOver
    <3>3. \/ w'.ok = FALSE /\ w'.steps = w.steps
          \/ w'.ok = TRUE /\ w'.steps = w.steps + 1
      BY <2>1, <3>1, <3>2 DEF BuyBand, BuyAtPrice, PayFor, Advance, Walk
    <3> QED
      BY <2>1, <3>1, <3>2, <3>3 DEF Left
  <2>5. CASE SellPass
    <3>1. /\ pc = "walking" /\ pc' = "walking" /\ w.steps # MAX_SIGMOID_STEPS
          /\ w' = SellBand(curve, w)
      BY <2>5 DEF SellPass, Over, SellOver
    <3>2. w'.ok = w.ok /\ w'.steps = w.steps + 1
      BY <3>1 DEF SellBand, Advance
    <3> QED
      BY <2>1, <3>1, <3>2 DEF Left
  <2> QED
    BY <1>1, <2>2, <2>3, <2>4, <2>5 DEF Next
<1>2. TypeOK /\ [Next]_vars => [Goes]_vars
  BY <1>1
<1> QED
  BY <1>2, WalkTyped, PTL DEF Spec
=============================================================================
