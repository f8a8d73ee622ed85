---------------------------- MODULE ClientProofs ----------------------------
(***************************************************************************)
(* What a client of the SDK can rely on, for any pools, amounts and        *)
(* tolerances, whatever the others do between its reads and while its swap *)
(* is on its way.  The invariant says what of a view cannot become false:  *)
(* a curve is fixed at birth, a pool in bins stays there, and a bin stays  *)
(* open at its price; all else in a view may be out of date.               *)
(***************************************************************************)
EXTENDS SdkClient, PropertyProofs

SeenMarket == [model: PoolModel, sigmoid: SigmoidConfig, active_bin_id: BinIds]
SeenBin == [id: BinIds, price: U64]
View == [sold: U64 \cup {None}, market: SeenMarket \cup {None},
         bin: SeenBin \cup {None}, treasury: Wallets \cup {NoWallet, None}]

(* What is true of a view for good.                                        *)
ViewSound(p) ==
  LET m == view[p].market
      b == view[p].bin
  IN  /\ m # None => /\ p \in pools
                     /\ m.sigmoid = market[p].sigmoid
                     /\ m.model = "DLMM" => market[p].model = "DLMM"
      /\ b # None => /\ <<p, b.id>> \in bins
                     /\ b.price = bin[<<p, b.id>>].price_lamports_per_token

(* What a signed swap says, of the curve and of the bin it was made for.   *)
OrderedOnCurve(o) ==
  LET c == market[o.post].sigmoid
  IN  /\ o.active_bin = None
      /\ o.estimate = IF o.is_buy THEN estimateSigmoidBuyTokensOut(c, o.sold, o.amount_in)
                                  ELSE estimateSigmoidSellSolOut(c, o.sold, o.amount_in)

OrderedInBin(o) ==
  LET b == <<o.post, o.active_bin>>
      price == bin[b].price_lamports_per_token
  IN  /\ market[o.post].model = "DLMM"
      /\ b \in bins
      /\ o.estimate = IF o.is_buy THEN estimateDlmmBuyTokensOut(o.amount_in, price)
                                  ELSE estimateDlmmSellSolOut(o.amount_in, price)

OrderSound ==
  order # None =>
    /\ order.post \in pools /\ order.amount_in \in U64 /\ order.is_buy \in BOOLEAN
    /\ order.estimate > 0
    /\ \E t \in Tolerances : order.minimum = MinimumFor(order.estimate, t)
    /\ IF order.model = "DLMM" THEN OrderedInBin(order) ELSE OrderedOnCurve(order)

ClientSound ==
  /\ view \in [Posts -> View]
  /\ \A p \in Posts : ViewSound(p)
  /\ OrderSound

Inv == TypeOK /\ AllSound /\ ClientSound
-----------------------------------------------------------------------------
(* What no step of the program undoes: a pool, its curve, that it is in    *)
(* bins, a bin and its price.                                              *)
Settled ==
  /\ \A p \in pools : /\ p \in pools'
                      /\ market'[p].sigmoid = market[p].sigmoid
                      /\ market[p].model = "DLMM" => market'[p].model = "DLMM"
  /\ \A b \in bins : /\ b \in bins'
                     /\ bin'[b].price_lamports_per_token = bin[b].price_lamports_per_token

(* Every kind of step leaves those as they are.                            *)
LEMMA StepsSettle ==
  ASSUME TypeOK,
         \A p \in Posts : \/ Quiet(p) \/ Created(p) \/ Migrated(p) \/ InBinsStep(p)
                          \/ Swapped(p, TRUE) \/ Swapped(p, FALSE)
  PROVE  Settled
<1>1. ASSUME NEW p \in pools
      PROVE  /\ p \in pools'
             /\ market'[p].sigmoid = market[p].sigmoid
             /\ market[p].model = "DLMM" => market'[p].model = "DLMM"
  <2>1. p \in Posts
    BY DEF TypeOK, Typed
  <2>2. CASE Quiet(p)
    BY <2>2 DEF Quiet
  <2>3. CASE Created(p)
    BY <2>3 DEF Created
  <2>4. CASE Migrated(p)
    BY <2>4 DEF Migrated
  <2>5. CASE InBinsStep(p)
    <3>1. InBins(p)
      BY <2>5 DEF InBinsStep, OpensBin, Provides
    <3> QED
      BY <3>1 DEF InBins
  <2>6. ASSUME NEW is_buy, Swapped(p, is_buy)
        PROVE  /\ p \in pools' /\ market'[p].sigmoid = market[p].sigmoid
               /\ market[p].model = "DLMM" => market'[p].model = "DLMM"
    BY <2>6 DEF Swapped, Traded, TradedOnCurve, TradedInBin
  <2> QED
    BY <2>1, <2>2, <2>3, <2>4, <2>5, <2>6
<1>2. ASSUME NEW k \in bins
      PROVE  /\ k \in bins'
             /\ bin'[k].price_lamports_per_token = bin[k].price_lamports_per_token
  <2> DEFINE p == k[1]
             id == k[2]
             Stays == /\ k \in bins'
                      /\ bin'[k].price_lamports_per_token = bin[k].price_lamports_per_token
  <2>1. p \in Posts /\ id \in BinIds /\ k = <<p, id>> /\ k \in BinKeys
    BY DEF TypeOK, Typed, BinKeys
  <2> HIDE DEF p, id
  <2>2. CASE Quiet(p)
    BY <2>1, <2>2 DEF Quiet
  <2>3. CASE SameBins
    BY <2>3 DEF SameBins
  <2>4. ASSUME NEW b, NEW tokens, NEW sol, MovesTogether(p, b, tokens, sol)
        PROVE  Stays
    BY <2>1, <2>4 DEF MovesTogether
  <2>5. CASE InBinsStep(p)
    <3>1. ASSUME NEW i, NEW tokens, NEW sol, OpensBin(p, i, tokens, sol)
          PROVE  Stays
      BY <2>1, <3>1 DEF OpensBin
    <3> QED
      BY <2>4, <2>5, <3>1 DEF InBinsStep, Provides
  <2>6. CASE Swapped(p, TRUE) \/ Swapped(p, FALSE)
    BY <2>3, <2>4, <2>6 DEF Swapped, TradedOnCurve, TradedInBin
  <2> QED
    BY <2>1, <2>2, <2>3, <2>5, <2>6 DEF Created, Migrated
<1> QED
  BY <1>1, <1>2 DEF Settled

-----------------------------------------------------------------------------
(* The fields of a view.                                                   *)
LEMMA Views ==
  ASSUME ClientSound, NEW p \in Posts
  PROVE  /\ view[p] \in View
         /\ view[p].market # None => view[p].market \in SeenMarket
         /\ view[p].bin # None => view[p].bin \in SeenBin
BY DEF ClientSound, View

(* What is settled keeps a view and an order sound, wherever they are.     *)
LEMMA SettledKeeps ==
  ASSUME ClientSound, Settled, UNCHANGED view, order' = order \/ order' = None
  PROVE  ClientSound'
<1>1. \A p \in Posts : ViewSound(p)'
  <2> SUFFICES ASSUME NEW p \in Posts PROVE ViewSound(p)'
    OBVIOUS
  <2> DEFINE m == view[p].market
             b == view[p].bin
  <2>1. ViewSound(p)
    BY DEF ClientSound
  <2>2. m # None => /\ p \in pools'
                    /\ m.sigmoid = market'[p].sigmoid
                    /\ m.model = "DLMM" => market'[p].model = "DLMM"
    BY <2>1 DEF ViewSound, Settled
  <2>3. b # None => /\ <<p, b.id>> \in bins'
                    /\ b.price = bin'[<<p, b.id>>].price_lamports_per_token
    <3> SUFFICES ASSUME b # None
                 PROVE  /\ <<p, b.id>> \in bins'
                        /\ b.price = bin'[<<p, b.id>>].price_lamports_per_token
      OBVIOUS
    <3>1. <<p, b.id>> \in bins /\ b.price = bin[<<p, b.id>>].price_lamports_per_token
      BY <2>1 DEF ViewSound
    <3> HIDE DEF b
    <3> QED
      BY <3>1 DEF Settled
  <2>4. view'[p] = view[p]
    OBVIOUS
  <2> QED
    BY <2>2, <2>3, <2>4 DEF ViewSound
<1>2. OrderSound'
  <2>1. CASE order' = order
    <3> SUFFICES ASSUME order # None
                 PROVE  /\ order.post \in pools' /\ order.amount_in \in U64
                        /\ order.is_buy \in BOOLEAN /\ order.estimate > 0
                        /\ \E t \in Tolerances : order.minimum = MinimumFor(order.estimate, t)
                        /\ IF order.model = "DLMM" THEN OrderedInBin(order)'
                                                   ELSE OrderedOnCurve(order)'
      BY <2>1 DEF OrderSound
    <3>1. /\ order.post \in pools /\ order.amount_in \in U64 /\ order.is_buy \in BOOLEAN
          /\ order.estimate > 0
          /\ \E t \in Tolerances : order.minimum = MinimumFor(order.estimate, t)
          /\ IF order.model = "DLMM" THEN OrderedInBin(order) ELSE OrderedOnCurve(order)
      BY DEF ClientSound, OrderSound
    <3>2. /\ order.post \in pools'
          /\ market'[order.post].sigmoid = market[order.post].sigmoid
          /\ market[order.post].model = "DLMM" => market'[order.post].model = "DLMM"
      BY <3>1 DEF Settled
    <3>3. CASE order.model = "DLMM"
      <4> DEFINE b == <<order.post, order.active_bin>>
      <4>1. b \in bins /\ market[order.post].model = "DLMM"
        BY <3>1, <3>3 DEF OrderedInBin
      <4>2. b \in bins' /\ bin'[b].price_lamports_per_token = bin[b].price_lamports_per_token
        BY <4>1 DEF Settled
      <4>3. OrderedInBin(order)'
        BY <2>1, <3>1, <3>2, <3>3, <4>1, <4>2 DEF OrderedInBin
      <4> QED
        BY <3>1, <3>2, <3>3, <4>3
    <3>4. CASE order.model # "DLMM"
      <4>1. OrderedOnCurve(order)'
        BY <2>1, <3>1, <3>2, <3>4 DEF OrderedOnCurve
      <4> QED
        BY <3>1, <3>2, <3>4, <4>1
    <3> QED
      BY <3>3, <3>4
  <2>2. CASE order' = None
    BY <2>2 DEF OrderSound
  <2> QED
    BY <2>1, <2>2
<1> QED
  BY <1>1, <1>2 DEF ClientSound

(* A read writes one field of the view with what the account says.         *)
LEMMA ReadSound ==
  ASSUME Inv, NEW p \in Posts,
         fetchPool(p) \/ fetchMarketState(p) \/ fetchBin(p) \/ fetchConfig(p)
  PROVE  ClientSound'
<1>1. /\ UNCHANGED vars /\ order' = order
      /\ view \in [Posts -> View] /\ view[p] \in View
      /\ TypeOK /\ AllSound /\ ClientSound
  BY Views DEF Inv, ClientSound, fetchPool, fetchMarketState, fetchBin, fetchConfig
<1>2. /\ pool[p] \in Pool /\ market[p] \in MarketState /\ bin \in [BinKeys -> Bin]
      /\ config \in Config /\ bins \subseteq BinKeys
  BY <1>1 DEF TypeOK, Typed
<1>3. \E v \in View : /\ view' = [view EXCEPT ![p] = v]
                      /\ v.market = None \/ v.market = view[p].market
                           \/ /\ p \in pools
                              /\ v.market = [model |-> market[p].model,
                                             sigmoid |-> market[p].sigmoid,
                                             active_bin_id |-> market[p].active_bin_id]
                      /\ v.bin = None \/ v.bin = view[p].bin
                           \/ /\ <<p, v.bin.id>> \in bins
                              /\ v.bin.price = bin[<<p, v.bin.id>>].price_lamports_per_token
  <2>1. CASE fetchPool(p)
    <3> DEFINE v == [view[p] EXCEPT !.sold = pool[p].tokens_sold]
    <3>1. v \in View /\ v.market = view[p].market /\ v.bin = view[p].bin
      BY <1>1, <1>2 DEF View, Pool
    <3>2. view' = [view EXCEPT ![p] = v]
      BY <2>1 DEF fetchPool
    <3> QED
      BY <3>1, <3>2
  <2>2. CASE fetchMarketState(p)
    <3> DEFINE m == [model |-> market[p].model, sigmoid |-> market[p].sigmoid,
                     active_bin_id |-> market[p].active_bin_id]
               v == [view[p] EXCEPT !.market = m]
    <3>1. m \in SeenMarket
      BY <1>2 DEF SeenMarket, MarketState
    <3>2. view' = [view EXCEPT ![p] = v] /\ p \in pools
      BY <2>2 DEF fetchMarketState
    <3> HIDE DEF m
    <3>3. v \in View /\ v.market = m /\ v.bin = view[p].bin
      BY <1>1, <3>1 DEF View
    <3> QED
      BY <3>2, <3>3 DEF m
  <2>3. CASE fetchBin(p)
    <3> DEFINE id == view[p].market.active_bin_id
               b == [id |-> id, price |-> bin[<<p, id>>].price_lamports_per_token]
               v == [view[p] EXCEPT !.bin = b]
    <3>1. /\ view[p].market # None /\ <<p, id>> \in bins
          /\ view' = [view EXCEPT ![p] = v]
      BY <2>3 DEF fetchBin
    <3>2. id \in BinIds
      BY <1>1, <3>1, Views DEF SeenMarket
    <3>3. <<p, id>> \in BinKeys /\ bin[<<p, id>>].price_lamports_per_token \in U64
      BY <1>2, <3>1 DEF Bin
    <3>4. b \in SeenBin
      BY <3>2, <3>3 DEF SeenBin
    <3>5. b.id = id /\ b.price = bin[<<p, id>>].price_lamports_per_token
      OBVIOUS
    <3> HIDE DEF b
    <3>6. v \in View /\ v.market = view[p].market /\ v.bin = b
      BY <1>1, <3>4 DEF View
    <3> QED
      BY <3>1, <3>5, <3>6
  <2>4. CASE fetchConfig(p)
    <3> DEFINE v == [view[p] EXCEPT !.treasury = config.treasury]
    <3>1. v \in View /\ v.market = view[p].market /\ v.bin = view[p].bin
      BY <1>1, <1>2 DEF View, Config
    <3>2. view' = [view EXCEPT ![p] = v]
      BY <2>4 DEF fetchConfig
    <3> QED
      BY <3>1, <3>2
  <2> QED
    BY <2>1, <2>2, <2>3, <2>4
<1>4. PICK v \in View : /\ view' = [view EXCEPT ![p] = v]
                        /\ v.market = None \/ v.market = view[p].market
                             \/ /\ p \in pools
                                /\ v.market = [model |-> market[p].model,
                                               sigmoid |-> market[p].sigmoid,
                                               active_bin_id |-> market[p].active_bin_id]
                        /\ v.bin = None \/ v.bin = view[p].bin
                             \/ /\ <<p, v.bin.id>> \in bins
                                /\ v.bin.price = bin[<<p, v.bin.id>>].price_lamports_per_token
  BY <1>3
<1>5. view' \in [Posts -> View] /\ view'[p] = v /\ \A q \in Posts \ {p} : view'[q] = view[q]
  BY <1>1, <1>4
<1>6. /\ pools' = pools /\ market' = market /\ bins' = bins /\ bin' = bin
  BY <1>1 DEF vars
<1>7. ASSUME NEW q \in Posts PROVE ViewSound(q)'
  <2>1. ViewSound(q)
    BY <1>1 DEF ClientSound
  <2>2. CASE q # p
    BY <1>5, <1>6, <2>1, <2>2 DEF ViewSound
  <2>3. CASE q = p
    <3>1. v.market # None => /\ p \in pools
                             /\ v.market.sigmoid = market[p].sigmoid
                             /\ v.market.model = "DLMM" => market[p].model = "DLMM"
      BY <1>4, <2>1, <2>3 DEF ViewSound
    <3>2. v.bin # None => /\ <<p, v.bin.id>> \in bins
                          /\ v.bin.price = bin[<<p, v.bin.id>>].price_lamports_per_token
      BY <1>4, <2>1, <2>3 DEF ViewSound
    <3> QED
      BY <1>5, <1>6, <2>3, <3>1, <3>2 DEF ViewSound
  <2> QED
    BY <2>2, <2>3
<1>8. OrderSound'
  BY <1>1, <1>6 DEF ClientSound, OrderSound, OrderedInBin, OrderedOnCurve
<1> QED
  BY <1>5, <1>7, <1>8 DEF ClientSound

(* What is signed is the estimate of a sound view.                         *)
LEMMA SignSound ==
  ASSUME Inv, NEW p \in Posts, NEW is_buy \in BOOLEAN, NEW amount \in U64,
         NEW tolerance \in Tolerances,
         Sign(p, is_buy, amount, tolerance)
  PROVE  ClientSound'
<1> DEFINE m == view[p].market
<1>1. /\ UNCHANGED vars /\ view' = view /\ SawEnough(p)
      /\ Estimate(p, is_buy, amount) > 0
      /\ order'.post = p /\ order'.is_buy = is_buy /\ order'.amount_in = amount
      /\ order'.estimate = Estimate(p, is_buy, amount)
      /\ order'.minimum = MinimumFor(order'.estimate, tolerance)
      /\ order'.model = m.model /\ order'.sold = view[p].sold
      /\ order'.active_bin = IF m.model = "DLMM" THEN m.active_bin_id ELSE None
  BY DEF Sign
<1>2. /\ view \in [Posts -> View] /\ \A q \in Posts : ViewSound(q)
  BY DEF Inv, ClientSound
<1>3. /\ pools' = pools /\ market' = market /\ bins' = bins /\ bin' = bin
  BY <1>1 DEF vars
<1>4. /\ m # None /\ p \in pools /\ m.sigmoid = market[p].sigmoid
      /\ m.model = "DLMM" => market[p].model = "DLMM"
  BY <1>1, <1>2 DEF SawEnough, ViewSound
<1>5. CASE m.model = "DLMM"
  <2> DEFINE b == <<p, m.active_bin_id>>
  <2>1. /\ b \in bins /\ view[p].bin.price = bin[b].price_lamports_per_token
    BY <1>1, <1>2, <1>5 DEF SawEnough, SawBin, ViewSound
  <2>2. OrderedInBin(order)'
    <3>1. /\ b \in bins'
          /\ view[p].bin.price = bin'[b].price_lamports_per_token
          /\ market'[p].model = "DLMM"
      BY <1>3, <1>4, <1>5, <2>1
    <3>2. <<order'.post, order'.active_bin>> = b
      BY <1>1, <1>5
    <3> HIDE DEF b
    <3>3. Estimate(p, is_buy, amount)
            = IF is_buy THEN estimateDlmmBuyTokensOut(amount, view[p].bin.price)
                        ELSE estimateDlmmSellSolOut(amount, view[p].bin.price)
      BY <1>5 DEF Estimate
    <3> HIDE DEF m
    <3> QED
      BY <1>1, <3>1, <3>2, <3>3 DEF OrderedInBin
  <2>3. OrderSound'
    BY <1>1, <1>3, <1>4, <1>5, <2>2 DEF OrderSound, OrderedInBin
  <2> QED
    BY <1>1, <1>2, <1>3, <2>3 DEF ClientSound, ViewSound
<1>6. CASE m.model # "DLMM"
  <2>1. OrderSound'
    BY <1>1, <1>3, <1>4, <1>6 DEF OrderSound, OrderedOnCurve, Estimate
  <2> QED
    BY <1>1, <1>2, <1>3, <2>1 DEF ClientSound, ViewSound
<1> QED
  BY <1>5, <1>6

(* A swap that lands is one of the program's four, with an amount that     *)
(* fits; and it fills in the phase it was signed for.                      *)
LEMMA LandsWhereSigned ==
  ASSUME Inv, order # None, Swap(order)
  PROVE  LET p == order.post
             b == <<order.post, order.active_bin>>
         IN  /\ p \in Posts /\ order.amount_in \in U64
             /\ \/ /\ order.model # "DLMM" /\ order.is_buy
                   /\ SigmoidBuy(p, order.amount_in, order.minimum)
                \/ /\ order.model # "DLMM" /\ ~order.is_buy
                   /\ SigmoidSell(p, order.amount_in, order.minimum)
                \/ /\ order.model = "DLMM" /\ order.is_buy
                   /\ b \in bins /\ DlmmBuy(p, b, order.amount_in, order.minimum)
                \/ /\ order.model = "DLMM" /\ ~order.is_buy
                   /\ b \in bins /\ DlmmSell(p, b, order.amount_in, order.minimum)
<1>1. /\ order.post \in pools /\ order.amount_in \in U64 /\ order.is_buy \in BOOLEAN
      /\ IF order.model = "DLMM" THEN OrderedInBin(order) ELSE OrderedOnCurve(order)
  BY DEF Inv, ClientSound, OrderSound
<1>2. order.post \in Posts
  BY <1>1 DEF Inv, TypeOK, Typed
<1>3. CASE order.model = "DLMM"
  <2>1. /\ market[order.post].model = "DLMM"
        /\ <<order.post, order.active_bin>> \in bins
    BY <1>1, <1>3 DEF OrderedInBin
  <2>2. /\ ~SigmoidBuy(order.post, order.amount_in, order.minimum)
        /\ ~SigmoidSell(order.post, order.amount_in, order.minimum)
    BY <2>1 DEF SigmoidBuy, SigmoidBuyAllowed, BuyFill, PoolAfterBuy, ModelAfterBuy,
           MarketAfterBuy, SigmoidSell, SigmoidSellAllowed, SalePays, PoolAfterSale,
           MarketAfterSale, SwapAllowed, MarketIs
  <2> QED
    BY <1>1, <1>2, <1>3, <2>1, <2>2 DEF Swap
<1>4. CASE order.model # "DLMM"
  <2>1. order.active_bin = None
    BY <1>1, <1>4 DEF OrderedOnCurve
  <2> QED
    BY <1>1, <1>2, <1>4, <2>1 DEF Swap
<1> QED
  BY <1>3, <1>4

(* A swap that lands is a trade of the pool it was built for.              *)
LEMMA LandIsTrade ==
  ASSUME Inv, order # None, Swap(order)
  PROVE  /\ TypeOK' /\ AllSound'
         /\ OnlyOf(order.post) /\ Swapped(order.post, order.is_buy)
<1> DEFINE p == order.post
           b == <<order.post, order.active_bin>>
<1>1. TypeOK /\ AllSound /\ p \in Posts /\ order.amount_in \in U64
  BY LandsWhereSigned DEF Inv
<1>2. order.is_buy \in BOOLEAN
  BY DEF Inv, ClientSound, OrderSound
<1>3. CASE SigmoidBuy(p, order.amount_in, order.minimum) /\ order.is_buy
  <2>1. TypeOK' /\ AllSound' /\ OnlyOf(p) /\ Swapped(p, TRUE)
    BY <1>1, <1>3, SigmoidBuySound, SigmoidBuyStep DEF Swapped
  <2> QED
    BY <1>2, <1>3, <2>1
<1>4. CASE SigmoidSell(p, order.amount_in, order.minimum) /\ ~order.is_buy
  <2>1. TypeOK' /\ AllSound' /\ OnlyOf(p) /\ Swapped(p, FALSE)
    BY <1>1, <1>4, SigmoidSellSound, SigmoidSellStep DEF Swapped
  <2> QED
    BY <1>2, <1>4, <2>1
<1>5. CASE b \in bins /\ DlmmBuy(p, b, order.amount_in, order.minimum) /\ order.is_buy
  <2>1. TypeOK' /\ AllSound' /\ OnlyOf(p) /\ Swapped(p, TRUE)
    BY <1>1, <1>5, DlmmBuySound, DlmmBuyStep DEF Swapped
  <2> QED
    BY <1>2, <1>5, <2>1
<1>6. CASE b \in bins /\ DlmmSell(p, b, order.amount_in, order.minimum) /\ ~order.is_buy
  <2>1. TypeOK' /\ AllSound' /\ OnlyOf(p) /\ Swapped(p, FALSE)
    BY <1>1, <1>6, DlmmSellSound, DlmmSellStep DEF Swapped
  <2> QED
    BY <1>2, <1>6, <2>1
<1> QED
  BY <1>3, <1>4, <1>5, <1>6, LandsWhereSigned

(* To every pool a step of the client's world is one of the kinds that a   *)
(* step of the program is, though the client's amounts are its own.        *)
LEMMA ClientStepKinds ==
  ASSUME Inv, [ClientNext]_clientVars
  PROVE  TypeOK' /\ AllSound' /\ Kinds
<1>1. TypeOK /\ AllSound
  BY DEF Inv
<1>2. CASE Land
  <2>1. order # None /\ Swap(order)
    BY <1>2 DEF Land
  <2>2. /\ TypeOK' /\ AllSound'
        /\ OnlyOf(order.post) /\ Swapped(order.post, order.is_buy)
    BY <2>1, LandIsTrade
  <2>3. order.is_buy \in BOOLEAN
    BY <2>1 DEF Inv, ClientSound, OrderSound
  <2>4. \A q \in Posts : Untouched(q) => Quiet(q)
    BY DEF Untouched, Quiet, SameTotals
  <2> QED
    BY <2>2, <2>3, <2>4 DEF OnlyOf, Kinds, StepKind
<1>3. CASE ~Land
  <2>1. [Next]_vars
    BY <1>3 DEF ClientNext, clientVars, fetchPool, fetchMarketState, fetchBin,
                fetchConfig, Sign, Fail, Others
  <2> QED
    BY <1>1, <2>1, NextKinds
<1> QED
  BY <1>2, <1>3

(* Every step keeps the invariant.                                         *)
LEMMA ClientStepSound ==
  ASSUME Inv, [ClientNext]_clientVars
  PROVE  Inv'
<1>1. TypeOK' /\ AllSound' /\ Settled
  <2>1. TypeOK /\ TypeOK' /\ AllSound' /\ Kinds
    BY ClientStepKinds DEF Inv
  <2>2. Settled
    BY <2>1, StepsSettle DEF Kinds, StepKind
  <2> QED
    BY <2>1, <2>2
<1>2. ClientSound
  BY DEF Inv
<1>3. CASE \E p \in Posts : fetchPool(p) \/ fetchMarketState(p) \/ fetchBin(p) \/ fetchConfig(p)
  BY <1>1, <1>3, ReadSound DEF Inv
<1>4. ASSUME NEW p \in Posts, NEW tolerance \in Tolerances,
             \/ \E amount \in ClientBuys : Sign(p, TRUE, amount, tolerance)
             \/ \E amount \in ClientSells : Sign(p, FALSE, amount, tolerance)
      PROVE  Inv'
  <2>1. ClientBuys \subseteq U64 /\ ClientSells \subseteq U64
    BY ClientAssumption
  <2>2. ClientSound'
    BY <1>4, <2>1, SignSound
  <2> QED
    BY <1>1, <2>2 DEF Inv
<1>5. CASE Land \/ Fail \/ Others \/ UNCHANGED clientVars
  <2>1. view' = view /\ (order' = order \/ order' = None)
    BY <1>5 DEF Land, Fail, Others, client, clientVars
  <2> QED
    BY <1>1, <1>2, <2>1, SettledKeeps DEF Inv
<1> QED
  BY <1>3, <1>4, <1>5 DEF ClientNext

(* A client that has seen nothing is sound.                                *)
LEMMA InitClientSound == ASSUME ClientInit PROVE Inv
<1>1. TypeOK /\ AllSound
  BY InitSound DEF ClientInit
<1>2. NothingSeen \in View
  BY DEF NothingSeen, View
<1>3. view \in [Posts -> View] /\ \A p \in Posts : view[p] = NothingSeen
  BY <1>2 DEF ClientInit
<1>4. OrderSound
  BY DEF ClientInit, OrderSound
<1>5. \A p \in Posts : ViewSound(p)
  BY <1>3 DEF ViewSound, NothingSeen
<1> QED
  BY <1>1, <1>3, <1>4, <1>5 DEF Inv, ClientSound

(* What the client has seen and not yet acted on stays sound.              *)
LEMMA ClientStaysSound == ClientSpec => []Inv
BY InitClientSound, ClientStepSound, PTL DEF ClientSpec
-----------------------------------------------------------------------------
(* What leaves the vaults in a swap is what the client's arithmetic says   *)
(* of the curve, and of the supply that the swap finds.                    *)
LEMMA CurveBuyDelivers ==
  ASSUME TypeOK, AllSound, NEW p \in Posts, NEW amount \in U64, NEW minimum,
         SigmoidBuy(p, amount, minimum)
  PROVE  tokenVault[p] - tokenVault'[p]
           = estimateSigmoidBuyTokensOut(market[p].sigmoid, pool[p].tokens_sold, amount)
<1> DEFINE c == market[p].sigmoid
           sold == pool[p].tokens_sold
           net == amount - FeeBreakdown(amount).total
           quote == quote_sigmoid_buy(c, sold, net)
<1>1. /\ IsQuote(quote)
      /\ tokenVault' = [tokenVault EXCEPT ![p] = @ - quote.amount_out]
  BY DEF SigmoidBuy, SigmoidBuyAllowed, BuyFill, PoolAfterBuy, ModelAfterBuy,
         MarketAfterBuy, TransferTokensFromPool
<1>2. c \in SigmoidConfig /\ sold \in Nat /\ amount \in Nat /\ tokenVault[p] \in Nat
  BY AccountsOf, U64Assumption DEF MarketState, U64
<1>3. net \in Nat
  BY <1>2, FeesType DEF IsFees
<1>4. NetOf(amount) = net
  BY DEF NetOf, calculateFee, FeeBreakdown
<1>5. tokenVault'[p] = tokenVault[p] - quote.amount_out
  BY <1>1 DEF TypeOK, Typed
<1>6. quote.amount_out \in Nat
  BY <1>1, U64Assumption DEF IsQuote
<1> HIDE DEF c, sold, net
<1>7. quote.amount_out = quoteSigmoidBuy(c, sold, net)
  BY <1>1, <1>2, <1>3, QuotesAreSdk
<1> HIDE DEF quote
<1>8. tokenVault[p] - tokenVault'[p] = quote.amount_out
  BY <1>2, <1>5, <1>6
<1>9. estimateSigmoidBuyTokensOut(c, sold, amount) = quoteSigmoidBuy(c, sold, net)
  BY <1>4 DEF estimateSigmoidBuyTokensOut
<1> QED
  BY <1>7, <1>8, <1>9 DEF c, sold

(* A sale pays out the gross amount less the fee: the platform's share     *)
(* leaves the vault too, the other three stay.                             *)
LEMMA SalePaysNet ==
  ASSUME TypeOK, AllSound, NEW p \in Posts, NEW gross \in Nat,
         TransferSellSol(p, gross - FeeBreakdown(gross).total, FeeBreakdown(gross))
  PROVE  (solVault[p] - solVault'[p]) - (payouts'[p].platform - payouts[p].platform)
           = NetOf(gross)
<1> DEFINE f == FeeBreakdown(gross)
<1>1. IsFees(f)
  BY FeesType
<1>2. NetOf(gross) = gross - f.total
  BY DEF NetOf, calculateFee, FeeBreakdown
<1>3. /\ solVault' = [solVault EXCEPT ![p] = @ - ((gross - f.total) + f.platform)]
      /\ payouts' = [payouts EXCEPT ![p].platform = @ + f.platform]
  BY DEF TransferSellSol, CanPay, SalePayment
<1> HIDE DEF f
<1>4. /\ solVault[p] \in Nat /\ payouts[p].platform \in Nat
      /\ solVault'[p] = solVault[p] - ((gross - f.total) + f.platform)
      /\ payouts'[p].platform = payouts[p].platform + f.platform
  BY <1>3, AccountsOf DEF TypeOK, Typed, Payouts
<1> QED
  BY <1>1, <1>2, <1>4 DEF IsFees

(* What a seller on the curve receives is what the client estimates for    *)
(* the pool as it is when the sale lands.                                  *)
LEMMA CurveSellDelivers ==
  ASSUME TypeOK, AllSound, NEW p \in Posts, NEW amount \in U64, NEW minimum,
         SigmoidSell(p, amount, minimum)
  PROVE  (solVault[p] - solVault'[p]) - (payouts'[p].platform - payouts[p].platform)
           = estimateSigmoidSellSolOut(market[p].sigmoid, pool[p].tokens_sold, amount)
<1> DEFINE c == market[p].sigmoid
           sold == pool[p].tokens_sold
           quote == quote_sigmoid_sell(c, sold, amount)
           gross == quote.gross_sol
<1>1. /\ IsQuote(quote)
      /\ TransferSellSol(p, gross - FeeBreakdown(gross).total, FeeBreakdown(gross))
  BY DEF SigmoidSell, SigmoidSellAllowed, SalePays, PoolAfterSale, MarketAfterSale
<1>2. c \in SigmoidConfig /\ sold \in Nat /\ amount \in Nat
  BY AccountsOf, U64Assumption DEF MarketState, U64
<1>3. gross = quote.amount_out
  BY DEF quote_sigmoid_sell, SellQuote, NoQuote
<1>4. gross \in Nat
  BY <1>1, U64Assumption DEF IsQuote, U64
<1> HIDE DEF c, sold
<1>5. gross = quoteSigmoidSell(c, sold, amount)
  BY <1>1, <1>2, <1>3, QuotesAreSdk
<1> HIDE DEF quote, gross
<1>6. (solVault[p] - solVault'[p]) - (payouts'[p].platform - payouts[p].platform)
        = NetOf(gross)
  BY <1>1, <1>4, SalePaysNet
<1>7. estimateSigmoidSellSolOut(c, sold, amount) = NetOf(gross)
  BY <1>5 DEF estimateSigmoidSellSolOut
<1> QED
  BY <1>6, <1>7 DEF c, sold

(* In a bin, of its price.  That the client estimated anything says that   *)
(* the price is not zero.                                                  *)
LEMMA BinBuyDelivers ==
  ASSUME TypeOK, AllSound, NEW p \in Posts, NEW b \in bins, NEW amount \in U64,
         NEW minimum, DlmmBuy(p, b, amount, minimum),
         estimateDlmmBuyTokensOut(amount, bin[b].price_lamports_per_token) > 0
  PROVE  tokenVault[p] - tokenVault'[p]
           = estimateDlmmBuyTokensOut(amount, bin[b].price_lamports_per_token)
<1> DEFINE price == bin[b].price_lamports_per_token
           net == amount - FeeBreakdown(amount).total
           out == quote_dlmm_buy(net, price)
<1>1. /\ net > 0 /\ out \in 1..U64Max
      /\ tokenVault' = [tokenVault EXCEPT ![p] = @ - out]
  BY DEF DlmmBuy, TransferTokensFromPool
<1>2. NetOf(amount) = net
  BY DEF NetOf, calculateFee, FeeBreakdown
<1> HIDE DEF net, price
<1>3. estimateDlmmBuyTokensOut(amount, price) = quoteDlmmBuy(net, price)
  BY <1>2 DEF estimateDlmmBuyTokensOut
<1>4. quoteDlmmBuy(net, price) > 0
  BY <1>3 DEF price
<1>5. quoteDlmmBuy(net, price) = out
  BY <1>4 DEF quoteDlmmBuy, quote_dlmm_buy
<1>6. out \in Nat /\ tokenVault[p] \in Nat
  BY <1>1, AccountsOf, U64Assumption
<1>7. tokenVault'[p] = tokenVault[p] - out
  BY <1>1 DEF TypeOK, Typed
<1> HIDE DEF out
<1>8. tokenVault[p] - tokenVault'[p] = out
  BY <1>6, <1>7
<1> QED
  BY <1>3, <1>5, <1>8 DEF price

(* And so is what a seller into a bin receives.                            *)
LEMMA BinSellDelivers ==
  ASSUME TypeOK, AllSound, NEW p \in Posts, NEW b \in bins, NEW amount \in U64,
         NEW minimum, DlmmSell(p, b, amount, minimum),
         estimateDlmmSellSolOut(amount, bin[b].price_lamports_per_token) > 0
  PROVE  (solVault[p] - solVault'[p]) - (payouts'[p].platform - payouts[p].platform)
           = estimateDlmmSellSolOut(amount, bin[b].price_lamports_per_token)
<1> DEFINE price == bin[b].price_lamports_per_token
           gross == quote_dlmm_sell(amount, price)
<1>1. /\ gross \in 1..U64Max
      /\ TransferSellSol(p, gross - FeeBreakdown(gross).total, FeeBreakdown(gross))
  BY DEF DlmmSell
<1> HIDE DEF price
<1>2. gross \in Nat
  BY <1>1, U64Assumption
<1>3. quoteDlmmSell(amount, price) = 0 \/ quoteDlmmSell(amount, price) = gross
  BY DEF quoteDlmmSell, quote_dlmm_sell
<1>4. NetOf(0) = 0
  BY DEF NetOf, calculateFee, TOTAL_FEE_BPS, BPS_DENOMINATOR
<1>5. NetOf(quoteDlmmSell(amount, price)) > 0
  BY DEF estimateDlmmSellSolOut, price
<1>6. quoteDlmmSell(amount, price) = gross
  BY <1>3, <1>4, <1>5
<1> HIDE DEF gross
<1>7. (solVault[p] - solVault'[p]) - (payouts'[p].platform - payouts[p].platform)
        = NetOf(gross)
  BY <1>1, <1>2, SalePaysNet
<1> QED
  BY <1>6, <1>7 DEF estimateDlmmSellSolOut, price

(* What a landing swap delivers.                                           *)
LEMMA LandDelivers ==
  ASSUME Inv, order # None, Swap(order),
         order.model # "DLMM" => pool[order.post].tokens_sold = order.sold
  PROVE  Delivered(order.post) = order.estimate
<1> DEFINE p == order.post
           b == <<order.post, order.active_bin>>
<1>1. TypeOK /\ AllSound /\ p \in Posts /\ order.amount_in \in U64
  BY LandsWhereSigned DEF Inv
<1>2. /\ order.estimate > 0
      /\ IF order.model = "DLMM" THEN OrderedInBin(order) ELSE OrderedOnCurve(order)
  BY DEF Inv, ClientSound, OrderSound
<1>3. CASE /\ order.model # "DLMM" /\ order.is_buy
           /\ SigmoidBuy(p, order.amount_in, order.minimum)
  BY <1>1, <1>2, <1>3, CurveBuyDelivers DEF Delivered, OrderedOnCurve
<1>4. CASE /\ order.model # "DLMM" /\ ~order.is_buy
           /\ SigmoidSell(p, order.amount_in, order.minimum)
  BY <1>1, <1>2, <1>4, CurveSellDelivers DEF Delivered, OrderedOnCurve
<1>5. CASE /\ order.model = "DLMM" /\ order.is_buy
           /\ b \in bins /\ DlmmBuy(p, b, order.amount_in, order.minimum)
  <2>1. /\ order.estimate
             = estimateDlmmBuyTokensOut(order.amount_in, bin[b].price_lamports_per_token)
        /\ order.estimate > 0
    BY <1>2, <1>5 DEF OrderedInBin
  <2> QED
    BY <1>1, <1>5, <2>1, BinBuyDelivers DEF Delivered
<1>6. CASE /\ order.model = "DLMM" /\ ~order.is_buy
           /\ b \in bins /\ DlmmSell(p, b, order.amount_in, order.minimum)
  <2>1. /\ order.estimate
             = estimateDlmmSellSolOut(order.amount_in, bin[b].price_lamports_per_token)
        /\ order.estimate > 0
    BY <1>2, <1>6 DEF OrderedInBin
  <2> QED
    BY <1>1, <1>6, <2>1, BinSellDelivers DEF Delivered
<1> QED
  BY <1>3, <1>4, <1>5, <1>6, LandsWhereSigned

(* Every swap that lands delivers at least the minimum it was signed with: *)
(* what the program compares with it is what leaves the vaults.            *)
LEMMA LandMeetsMinimum ==
  ASSUME Inv, order # None, Swap(order)
  PROVE  Delivered(order.post) >= order.minimum
<1> DEFINE p == order.post
           a == order.amount_in
           b == <<order.post, order.active_bin>>
           min == order.minimum
<1>1. TypeOK /\ AllSound /\ p \in Posts
  BY LandsWhereSigned DEF Inv
<1>2. /\ tokenVault[p] \in Nat /\ solVault[p] \in Nat
      /\ tokenVault \in [Posts -> Nat]
  BY <1>1, AccountsOf DEF TypeOK, Typed
<1>3. ASSUME NEW out \in Nat, out >= min, TransferTokensFromPool(p, out), order.is_buy
      PROVE  Delivered(p) >= min
  <2>1. tokenVault'[p] = tokenVault[p] - out
    BY <1>1, <1>2, <1>3 DEF TransferTokensFromPool
  <2>2. tokenVault[p] - tokenVault'[p] = out
    BY <1>2, <2>1
  <2> QED
    BY <1>3, <2>2 DEF Delivered
<1>4. ASSUME NEW gross \in Nat, gross - FeeBreakdown(gross).total >= min,
             TransferSellSol(p, gross - FeeBreakdown(gross).total, FeeBreakdown(gross)),
             ~order.is_buy
      PROVE  Delivered(p) >= min
  <2>1. Delivered(p) = NetOf(gross)
    BY <1>1, <1>4, SalePaysNet DEF Delivered
  <2>2. NetOf(gross) = gross - FeeBreakdown(gross).total
    BY DEF NetOf, calculateFee, FeeBreakdown
  <2> QED
    BY <1>4, <2>1, <2>2
<1>5. CASE order.is_buy /\ SigmoidBuy(p, a, min)
  <2> DEFINE out == BuyFill(p, a).amount_out
  <2>1. out \in Nat /\ out >= min /\ TransferTokensFromPool(p, out)
    BY <1>5, U64Assumption DEF SigmoidBuy, SigmoidBuyAllowed, IsQuote
  <2> HIDE DEF out
  <2> QED
    BY <1>3, <1>5, <2>1
<1>6. CASE ~order.is_buy /\ SigmoidSell(p, a, min)
  <2> DEFINE gross == SalePays(p, a)
  <2>1. /\ gross \in Nat /\ gross - FeeBreakdown(gross).total >= min
        /\ TransferSellSol(p, gross - FeeBreakdown(gross).total, FeeBreakdown(gross))
    <3> DEFINE quote == quote_sigmoid_sell(market[p].sigmoid, pool[p].tokens_sold, a)
    <3>1. /\ IsQuote(quote) /\ gross - FeeBreakdown(gross).total >= min
          /\ TransferSellSol(p, gross - FeeBreakdown(gross).total, FeeBreakdown(gross))
      BY <1>6 DEF SigmoidSell, SigmoidSellAllowed
    <3>2. gross = quote.gross_sol
      BY DEF SalePays
    <3> HIDE DEF quote, gross
    <3> QED
      BY <3>1, <3>2, U64Assumption DEF IsQuote, U64
  <2> HIDE DEF gross
  <2> QED
    BY <1>4, <1>6, <2>1
<1>7. CASE order.is_buy /\ DlmmBuy(p, b, a, min)
  <2> DEFINE out == quote_dlmm_buy(a - FeeBreakdown(a).total, bin[b].price_lamports_per_token)
  <2>1. out \in Nat /\ out >= min /\ TransferTokensFromPool(p, out)
    BY <1>7, U64Assumption DEF DlmmBuy
  <2> HIDE DEF out
  <2> QED
    BY <1>3, <1>7, <2>1
<1>8. CASE ~order.is_buy /\ DlmmSell(p, b, a, min)
  <2> DEFINE gross == quote_dlmm_sell(a, bin[b].price_lamports_per_token)
  <2>1. /\ gross \in Nat /\ gross - FeeBreakdown(gross).total >= min
        /\ TransferSellSol(p, gross - FeeBreakdown(gross).total, FeeBreakdown(gross))
    BY <1>8, U64Assumption DEF DlmmSell
  <2> HIDE DEF gross
  <2> QED
    BY <1>4, <1>8, <2>1
<1> QED
  BY <1>5, <1>6, <1>7, <1>8, LandsWhereSigned

(* A trade in a step that takes the order is the order's.                  *)
LEMMA LandingIsSwap ==
  ASSUME Inv, [ClientNext]_clientVars, NEW p \in Posts, Landing(p)
  PROVE  order # None /\ Swap(order) /\ order.post = p
<1>1. order # None /\ order' = None /\ order.post = p /\ TradeOf(p)
  BY DEF Landing
<1>2. market[p].total_trades \in Nat
  BY CountersType DEF Inv
<1>3. market' # market
  BY <1>1, <1>2 DEF TradeOf
<1>4. ASSUME Others \/ UNCHANGED clientVars PROVE FALSE
  BY <1>1, <1>4 DEF Others, client, clientVars
<1>5. ASSUME UNCHANGED vars PROVE FALSE
  BY <1>3, <1>5 DEF vars
<1>6. ~Fail
  BY <1>5 DEF Fail
<1>7. \A q \in Posts : ~fetchPool(q) /\ ~fetchMarketState(q) /\ ~fetchBin(q) /\ ~fetchConfig(q)
  BY <1>5 DEF fetchPool, fetchMarketState, fetchBin, fetchConfig
<1>8. \A q, is_buy, amount, tolerance : ~Sign(q, is_buy, amount, tolerance)
  BY <1>1 DEF Sign
<1>9. Land
  BY <1>4, <1>6, <1>7, <1>8 DEF ClientNext
<1> QED
  BY <1>1, <1>9 DEF Land
-----------------------------------------------------------------------------
(* A swap is filled in the phase it was signed for, whatever the pool and  *)
(* its market went through while it was on its way.                        *)
THEOREM QuotedPhaseIsKept == ClientSpec => QuotedPhaseKept
<1>1. ASSUME Inv, [ClientNext]_clientVars
      PROVE  \A p \in Posts :
               Landing(p) => (market[p].model = "DLMM" <=> order.model = "DLMM")
  <2> SUFFICES ASSUME NEW p \in Posts, Landing(p)
               PROVE  market[p].model = "DLMM" <=> order.model = "DLMM"
    OBVIOUS
  <2>1. order # None /\ Swap(order) /\ order.post = p
    BY <1>1, LandingIsSwap
  <2> QED
    BY <1>1, <2>1, LandsWhereSigned
       DEF SigmoidBuy, SigmoidBuyAllowed, BuyFill, PoolAfterBuy, ModelAfterBuy,
           MarketAfterBuy, SigmoidSell, SigmoidSellAllowed, SalePays, PoolAfterSale,
           MarketAfterSale, DlmmBuy, DlmmSell, SwapAllowed, MarketIs
<1> QED
  BY <1>1, ClientStaysSound, PTL DEF ClientSpec, QuotedPhaseKept

(* A swap in a bin delivers its estimate to the unit however old it is: a  *)
(* bin's price is fixed, and the swap names its bin.                       *)
THEOREM BinQuoteIsKept == ClientSpec => BinQuoteKept
<1>1. ASSUME Inv, [ClientNext]_clientVars
      PROVE  \A p \in Posts :
               Landing(p) /\ order.model = "DLMM" => Delivered(p) = order.estimate
  BY <1>1, LandingIsSwap, LandDelivers
<1> QED
  BY <1>1, ClientStaysSound, PTL DEF ClientSpec, BinQuoteKept

(* A swap on the curve delivers its estimate to the unit when as many      *)
(* tokens are sold as the client read, whatever else has changed: the      *)
(* program's quote and the client's agree, and a curve is fixed at birth.  *)
THEOREM CurveQuoteIsKept == ClientSpec => CurveQuoteKept
<1>1. ASSUME Inv, [ClientNext]_clientVars
      PROVE  \A p \in Posts :
               Landing(p) /\ order.model # "DLMM" /\ pool[p].tokens_sold = order.sold
                 => Delivered(p) = order.estimate
  BY <1>1, LandingIsSwap, LandDelivers
<1> QED
  BY <1>1, ClientStaysSound, PTL DEF ClientSpec, CurveQuoteKept

(* However stale its estimate, and whichever market it lands in, a swap    *)
(* that lands delivers what was estimated less the share that was given up *)
(* in signing it: the program compares the minimum with its own quote,     *)
(* before the transfers and with the fee already taken.                    *)
THEOREM MinimumIsDelivered ==
  ClientSpec =>
    [][\A p \in Posts :
         Landing(p) =>
           \E t \in Tolerances : Delivered(p) >= MinimumFor(order.estimate, t)]_clientVars
<1>1. ASSUME Inv, [ClientNext]_clientVars
      PROVE  \A p \in Posts :
               Landing(p) =>
                 \E t \in Tolerances : Delivered(p) >= MinimumFor(order.estimate, t)
  <2> SUFFICES ASSUME NEW p \in Posts, Landing(p)
               PROVE  \E t \in Tolerances :
                        Delivered(p) >= MinimumFor(order.estimate, t)
    OBVIOUS
  <2>1. order # None /\ Swap(order) /\ order.post = p
    BY <1>1, LandingIsSwap
  <2>2. Delivered(p) >= order.minimum
    BY <1>1, <2>1, LandMeetsMinimum
  <2>3. \E t \in Tolerances : order.minimum = MinimumFor(order.estimate, t)
    BY <1>1, <2>1 DEF Inv, ClientSound, OrderSound
  <2> QED
    BY <2>2, <2>3
<1> QED
  BY <1>1, ClientStaysSound, PTL DEF ClientSpec
-----------------------------------------------------------------------------
(* What a swap on the curve leaves behind, given what it has to meet.      *)
SwapWrites(o) ==
  LET p == o.post
      quote == BuyFill(p, o.amount_in)
      gross_sol == SalePays(p, o.amount_in)
      volume == IF o.is_buy THEN o.amount_in ELSE gross_sol
      fees == FeeBreakdown(volume)
  IN  /\ IF o.is_buy
         THEN /\ solVault' = [solVault EXCEPT ![p] = @ + BuyDeposit(quote.gross_sol, fees)]
              /\ tokenVault' = [tokenVault EXCEPT ![p] = @ - quote.amount_out]
              /\ pool' = [pool EXCEPT ![p] = [PoolAfterBuy(p, volume) EXCEPT
                                                !.model = ModelAfterBuy(p, volume)]]
              /\ market' = [market EXCEPT ![p] = MarketAfterBuy(p, volume)]
         ELSE /\ solVault' = [solVault EXCEPT ![p] = @ - SalePayment(volume - fees.total, fees)]
              /\ tokenVault' = [tokenVault EXCEPT ![p] = @ + o.amount_in]
              /\ pool' = [pool EXCEPT ![p] = PoolAfterSale(p, o.amount_in, volume)]
              /\ market' = [market EXCEPT ![p] = MarketAfterSale(p, volume)]
      /\ payouts' = [payouts EXCEPT ![p].platform = @ + fees.platform]
      /\ config' = WithConfigFees(config, volume, fees)
      /\ UNCHANGED <<registry, bin, gifts, now>>

(* SwapAccepted is all that it has to meet: what is left of the swap gives *)
(* every variable its next value.                                          *)
THEOREM AcceptedSwapsLand ==
  ASSUME order # None, order.active_bin = None, order.is_buy \in BOOLEAN
  PROVE  Land <=> /\ SwapAccepted(order) /\ SwapWrites(order)
                  /\ order' = None /\ UNCHANGED <<view, signed>>
<1> DEFINE p == order.post
           a == order.amount_in
           min == order.minimum
<1>1. Swap(order) <=> /\ order.treasury = config.treasury
                      /\ IF order.is_buy THEN SigmoidBuy(p, a, min) ELSE SigmoidSell(p, a, min)
  BY DEF Swap
<1>2. CASE order.is_buy
  <2>1. SigmoidBuy(p, a, min) /\ order.treasury = config.treasury
          <=> SwapAccepted(order) /\ SwapWrites(order)
    BY <1>2 DEF SigmoidBuy, SwapAccepted, SwapWrites, TransferBuySol, TransferTokensFromPool
  <2> QED
    BY <1>1, <1>2, <2>1 DEF Land
<1>3. CASE ~order.is_buy
  <2>1. SigmoidSell(p, a, min) /\ order.treasury = config.treasury
          <=> SwapAccepted(order) /\ SwapWrites(order)
    BY <1>3 DEF SigmoidSell, SwapAccepted, SwapWrites, TransferSellSol, TransferTokensToPool
  <2> QED
    BY <1>1, <1>3, <2>1 DEF Land
<1> QED
  BY <1>2, <1>3

(* A tolerance only lowers the minimum.                                    *)
LEMMA MinimumAtMost ==
  ASSUME NEW estimate \in Nat, NEW t \in Tolerances
  PROVE  MinimumFor(estimate, t) \in Int /\ MinimumFor(estimate, t) <= estimate
<1>1. t \in Nat
  BY ClientAssumption, t \in Tolerances DEF BPS_DENOMINATOR
<1> DEFINE share == estimate * t
<1>2. share \in Nat
  BY <1>1, ProductNat
<1>3. MinimumFor(estimate, t) = estimate - share \div 10000
  BY DEF MinimumFor, BPS_DENOMINATOR
<1> HIDE DEF share
<1> QED
  BY <1>2, <1>3

(* The records of a trade fit when its reserves do, its fees do and one    *)
(* more trade does: no beneficiary is owed more than all the fees, and no  *)
(* kind of trade is counted more often than all.                           *)
LEMMA TradeFits ==
  ASSUME TypeOK, AllSound, NEW p \in Posts, NEW status \in PoolStatus,
         NEW x \in U64, NEW y \in U64, NEW z \in U64, NEW volume \in Nat,
         NEW f, IsFees(f), pool[p].total_fees + f.total \in U64,
         market[p].total_trades + 1 \in U64
  PROVE  /\ PoolFits(WithPoolFees([pool[p] EXCEPT !.status = status,
                                                  !.liquidity_sol_reserve = x,
                                                  !.liquidity_token_reserve = y,
                                                  !.tokens_sold = z], volume, f))
         /\ \A is_buy \in BOOLEAN, model \in PoolModel :
              /\ MarketFits(WithMarketFees(market[p], volume, f, is_buy))
              /\ MarketFits(WithMarketFees([market[p] EXCEPT !.model = model],
                                           volume, f, is_buy))
<1> DEFINE r == pool[p]
           m == market[p]
           b == [r EXCEPT !.status = status, !.liquidity_sol_reserve = x,
                          !.liquidity_token_reserve = y, !.tokens_sold = z]
           s == WithPoolFees(b, volume, f)
<1>1. /\ r \in Pool /\ m \in MarketState /\ payouts[p] \in Payouts
      /\ Sound(r, m, solVault[p], tokenVault[p], payouts[p], gifts[p])
  BY AccountsOf
<1>2. /\ x \in Int /\ y \in Int /\ z \in Int
  BY U64Assumption DEF U64
<1>3. /\ r.unclaimed_creator_fees \in Nat /\ r.unclaimed_curator_fees \in Nat
      /\ r.unclaimed_growth_fees \in Nat /\ r.total_fees \in Nat
  BY <1>1, U64Assumption DEF Pool, U64
<1>4. /\ r.unclaimed_creator_fees <= r.total_fees
      /\ r.unclaimed_curator_fees <= r.total_fees
      /\ r.unclaimed_growth_fees <= r.total_fees
  <2>1. /\ payouts[p].creator \in Nat /\ payouts[p].curator \in Nat
        /\ payouts[p].growth \in Nat /\ payouts[p].platform \in Nat
    BY <1>1 DEF Payouts
  <2>2. r.total_fees = (r.unclaimed_creator_fees + payouts[p].creator)
                         + (r.unclaimed_curator_fees + payouts[p].curator)
                         + (r.unclaimed_growth_fees + payouts[p].growth)
                         + payouts[p].platform
    BY <1>1 DEF Sound
  <2> HIDE DEF r
  <2> QED
    BY <1>3, <2>1, <2>2
<1>5. /\ b \in RawPool /\ b.liquidity_sol_reserve = x /\ b.liquidity_token_reserve = y
      /\ b.tokens_sold = z /\ b.total_fees = r.total_fees
      /\ b.unclaimed_creator_fees = r.unclaimed_creator_fees
      /\ b.unclaimed_curator_fees = r.unclaimed_curator_fees
      /\ b.unclaimed_growth_fees = r.unclaimed_growth_fees
  BY <1>1, <1>2, PoolIsRaw DEF RawPool
<1> HIDE DEF b
<1>6. /\ s.liquidity_sol_reserve = x /\ s.liquidity_token_reserve = y /\ s.tokens_sold = z
      /\ s.total_fees = r.total_fees + f.total
      /\ s.unclaimed_creator_fees = r.unclaimed_creator_fees + f.creator
      /\ s.unclaimed_curator_fees = r.unclaimed_curator_fees + f.curator
      /\ s.unclaimed_growth_fees = r.unclaimed_growth_fees + f.growth
  <2>1. PoolBooked(s, b, volume, f)
    BY <1>5, PoolFeesRaw
  <2>2. s.tokens_sold = b.tokens_sold
    BY <1>5, TradedPool
  <2> HIDE DEF s
  <2> QED
    BY <1>5, <2>1, <2>2 DEF PoolBooked
<1> HIDE DEF s
<1>7. PoolFits(s)
  <2>1. /\ f.total \in Nat /\ f.creator \in Nat /\ f.curator \in Nat /\ f.growth \in Nat
        /\ f.creator <= f.total /\ f.curator <= f.total /\ f.growth <= f.total
    BY DEF IsFees
  <2>2. r.total_fees + f.total \in U64
    OBVIOUS
  <2> HIDE DEF r
  <2>3. /\ r.unclaimed_creator_fees + f.creator \in U64
        /\ r.unclaimed_curator_fees + f.curator \in U64
        /\ r.unclaimed_growth_fees + f.growth \in U64
    BY <1>3, <1>4, <2>1, <2>2, U64Assumption DEF U64
  <2> QED
    BY <1>6, <2>2, <2>3 DEF PoolFits
<1>8. ASSUME NEW n \in MarketState, NEW is_buy \in BOOLEAN,
             n.total_trades = m.total_trades, n.buy_trades = m.buy_trades,
             n.sell_trades = m.sell_trades
      PROVE  MarketFits(WithMarketFees(n, volume, f, is_buy))
  <2> DEFINE t == WithMarketFees(n, volume, f, is_buy)
             buys == m.buy_trades + (IF is_buy THEN 1 ELSE 0)
             sells == m.sell_trades + (IF is_buy THEN 0 ELSE 1)
  <2>1. /\ t.active_bin_id = n.active_bin_id
        /\ t.allocated_token_liquidity = n.allocated_token_liquidity
        /\ t.allocated_sol_liquidity = n.allocated_sol_liquidity
        /\ t.total_trades = m.total_trades + 1
        /\ t.buy_trades = buys /\ t.sell_trades = sells
    BY <1>8 DEF WithMarketFees, MarketState
  <2>2. /\ m.total_trades \in Nat /\ m.buy_trades \in Nat /\ m.sell_trades \in Nat
        /\ m.total_trades = m.buy_trades + m.sell_trades
    BY <1>1, U64Assumption DEF MarketState, U64, Sound
  <2> HIDE DEF t
  <2>3. buys \in U64 /\ sells \in U64
    <3>1. m.total_trades + 1 \in 0..U64Max
      BY DEF U64
    <3> HIDE DEF m
    <3> QED
      BY <1>8, <2>2, <3>1, U64Assumption DEF U64
  <2>4. /\ n.active_bin_id \in BinIds /\ n.allocated_token_liquidity \in U64
        /\ n.allocated_sol_liquidity \in U64
    BY DEF MarketState
  <2> HIDE DEF buys, sells
  <2> QED
    BY <2>1, <2>3, <2>4 DEF MarketFits, t
<1>9. \A model \in PoolModel :
        LET n == [m EXCEPT !.model = model]
        IN  /\ n \in MarketState /\ n.total_trades = m.total_trades
            /\ n.buy_trades = m.buy_trades /\ n.sell_trades = m.sell_trades
  BY <1>1 DEF MarketState
<1> QED
  BY <1>1, <1>7, <1>8, <1>9 DEF s, b

(* What is known of a fresh order that trading is open to.                 *)
Fresh(o) == /\ OpenTo(o) /\ HasRoom(o)
            /\ o.sold = pool[o.post].tokens_sold

(* It is sound, trading takes it, and the vaults hold the reserves.        *)
LEMMA FreshOrder ==
  ASSUME Inv, Lifecycle, CurvesValid, order # None, Fresh(order)
  PROVE  LET p == order.post
             a == order.amount_in
             c == market[p].sigmoid
             sold == pool[p].tokens_sold
         IN  /\ TypeOK /\ AllSound /\ p \in Posts /\ a \in Nat /\ a \in U64
             /\ OnCurve(p) /\ market[p].model = "SigmoidBootstrap"
             /\ c \in SigmoidConfig
             /\ sold + pool[p].liquidity_token_reserve = c.token_supply
             /\ sold <= c.token_supply
             /\ pool[p].liquidity_token_reserve <= tokenVault[p]
             /\ pool[p].liquidity_sol_reserve + gifts[p].sol <= solVault[p]
             /\ order.estimate > 0
             /\ \E t \in Tolerances : order.minimum = MinimumFor(order.estimate, t)
             /\ order.estimate
                  = IF order.is_buy THEN estimateSigmoidBuyTokensOut(c, sold, a)
                                    ELSE estimateSigmoidSellSolOut(c, sold, a)
             /\ a > 0 => SwapAllowed(p, a, order.is_buy, "SigmoidBootstrap")
<1> DEFINE p == order.post
           a == order.amount_in
           c == market[p].sigmoid
           sold == pool[p].tokens_sold
<1>1. /\ TypeOK /\ AllSound /\ p \in pools /\ a \in U64 /\ order.estimate > 0
      /\ order.is_buy \in BOOLEAN
      /\ \E t \in Tolerances : order.minimum = MinimumFor(order.estimate, t)
      /\ IF order.model = "DLMM" THEN OrderedInBin(order) ELSE OrderedOnCurve(order)
  BY DEF Inv, ClientSound, OrderSound
<1>2. p \in Posts /\ a \in Nat
  BY <1>1, U64Assumption DEF TypeOK, Typed, U64
<1>3. market[p].model = "SigmoidBootstrap" /\ OnCurve(p)
  BY <1>1 DEF Fresh, OpenTo, MarketIs, OnCurve
<1>4. OrderedOnCurve(order) /\ order.sold = sold
  BY <1>1, <1>3 DEF Fresh, OrderedInBin
<1>5. /\ c \in SigmoidConfig
      /\ sold + pool[p].liquidity_token_reserve = c.token_supply
  BY <1>1, <1>2, <1>3, CurveOf DEF Lifecycle, CurvesValid
<1>6. /\ sold \in Nat /\ pool[p].liquidity_token_reserve \in Nat
      /\ pool[p].liquidity_sol_reserve \in Nat /\ gifts[p] \in Gifts
      /\ Sound(pool[p], market[p], solVault[p], tokenVault[p], payouts[p], gifts[p])
      /\ pool[p] \in Pool
  BY <1>1, <1>2, AccountsOf
<1>7. sold <= c.token_supply
  <2> HIDE DEF sold, c
  <2> QED
    BY <1>5, <1>6
<1>8. /\ pool[p].liquidity_token_reserve <= tokenVault[p]
      /\ pool[p].liquidity_sol_reserve + gifts[p].sol <= solVault[p]
  <2>1. /\ pool[p].unclaimed_creator_fees \in Nat /\ pool[p].unclaimed_curator_fees \in Nat
        /\ pool[p].unclaimed_growth_fees \in Nat
        /\ gifts[p].sol \in Nat /\ gifts[p].token \in Nat
    BY <1>6, U64Assumption DEF Pool, U64, Gifts
  <2>2. /\ tokenVault[p] = pool[p].liquidity_token_reserve + gifts[p].token
        /\ solVault[p] = pool[p].liquidity_sol_reserve + pool[p].unclaimed_creator_fees
                           + pool[p].unclaimed_curator_fees
                           + pool[p].unclaimed_growth_fees + gifts[p].sol
    BY <1>6 DEF Sound
  <2> QED
    BY <1>6, <2>1, <2>2
<1>9. a > 0 => SwapAllowed(p, a, order.is_buy, "SigmoidBootstrap")
  BY <1>1 DEF Fresh, OpenTo, SwapAllowed
<1> QED
  BY <1>1, <1>2, <1>3, <1>4, <1>5, <1>7, <1>8, <1>9 DEF OrderedOnCurve

(* A fresh buy: the program's quote is the client's, its tokens are in the *)
(* reserve, and the vault takes what is paid.                              *)
LEMMA FreshBuyAccepted ==
  ASSUME Inv, Lifecycle, CurvesValid, order # None, Fresh(order), order.is_buy
  PROVE  SwapAccepted(order)
<1> DEFINE p == order.post
           a == order.amount_in
           c == market[p].sigmoid
           sold == pool[p].tokens_sold
           f == FeeBreakdown(a)
           net == a - f.total
           quote == BuyFill(p, a)
           out == quote.amount_out
           gross == quote.gross_sol
           reserve == pool[p].liquidity_token_reserve
           sv == solVault[p]
<1>1. /\ TypeOK /\ AllSound /\ p \in Posts /\ a \in Nat /\ a \in U64
      /\ c \in SigmoidConfig /\ sold + reserve = c.token_supply
      /\ sold <= c.token_supply /\ reserve <= tokenVault[p]
      /\ pool[p].liquidity_sol_reserve + gifts[p].sol <= sv
      /\ order.estimate > 0
      /\ \E t \in Tolerances : order.minimum = MinimumFor(order.estimate, t)
      /\ order.estimate = estimateSigmoidBuyTokensOut(c, sold, a)
      /\ a > 0 => SwapAllowed(p, a, TRUE, "SigmoidBootstrap")
  BY FreshOrder
<1>2. /\ FeesFit(a) /\ pool[p].total_fees + a \in U64
      /\ market[p].total_trades + 1 \in U64
      /\ sv + a \in U64 /\ c.token_supply + band_size(c) \in U64
      /\ gifts[p].sol >= RENT_EXEMPT_MINIMUM
  BY DEF Fresh, HasRoom
<1>3. IsFees(f) /\ f.total <= a /\ net \in Nat
  <2>1. IsFees(f) /\ f.total <= a
    BY <1>1, FeesType
  <2> HIDE DEF f
  <2> QED
    BY <1>1, <2>1 DEF IsFees
<1>4. /\ sold \in Nat /\ reserve \in Nat /\ pool[p].liquidity_sol_reserve \in Nat
      /\ sv \in Nat /\ tokenVault[p] \in Nat /\ gifts[p].sol \in Nat
      /\ pool[p].total_fees \in Nat /\ pool[p].token_supply \in U64
      /\ c.token_supply \in U64 /\ StatusOnTrade(p) \in PoolStatus
  BY <1>1, AccountsOf, U64Assumption DEF Pool, Gifts, U64, SigmoidConfig
<1>5. out = order.estimate
  <2>1. quote = quote_sigmoid_buy(c, sold, net)
    BY DEF BuyFill
  <2>2. order.estimate = quoteSigmoidBuy(c, sold, net)
    BY <1>1 DEF estimateSigmoidBuyTokensOut, NetOf, calculateFee, FeeBreakdown
  <2> HIDE DEF quote, net, c, sold
  <2> QED
    BY <1>1, <1>2, <1>3, <1>4, <2>1, <2>2, BuyIsSdk
<1>6. /\ gross \in Nat /\ gross <= net /\ out \in Nat /\ out > 0
      /\ sold + out <= c.token_supply
  <2>1. quote = quote_sigmoid_buy(c, sold, net)
    BY DEF BuyFill
  <2> HIDE DEF quote, net, c, sold
  <2> QED
    BY <1>1, <1>3, <1>4, <1>5, <2>1, BuyQuoteWithinBudget
<1> HIDE DEF c, f, quote
<1>7. /\ out <= reserve /\ out <= tokenVault[p] /\ gross <= a /\ a > 0
      /\ gross + f.total <= a
  <2>1. f.total \in Nat
    BY <1>3 DEF IsFees
  <2> HIDE DEF p, a, sold, reserve, out, gross
  <2>2. gross + f.total <= a
    BY <1>1, <1>3, <1>6, <2>1
  <2>3. out <= reserve
    BY <1>1, <1>4, <1>6
  <2>4. out <= tokenVault[p]
    BY <1>1, <1>4, <1>6, <2>3
  <2>5. a > 0
    <3>1. net > 0
      <4>1. order.estimate = quoteSigmoidBuy(c, sold, net)
        BY <1>1 DEF estimateSigmoidBuyTokensOut, NetOf, calculateFee, FeeBreakdown, f
      <4>2. order.estimate > 0
        BY <1>1
      <4> HIDE DEF net
      <4> QED
        BY <1>3, <4>1, <4>2 DEF quoteSigmoidBuy
    <3> QED
      BY <1>1, <1>3, <2>1, <3>1
  <2> QED
    BY <1>1, <1>6, <2>1, <2>2, <2>3, <2>4, <2>5
<1>8. /\ pool[p].liquidity_sol_reserve + gross \in U64
      /\ reserve - out \in U64 /\ sold + out \in U64
      /\ out \in U64 /\ gross \in U64
      /\ pool[p].total_fees + f.total \in U64
  BY <1>1, <1>2, <1>3, <1>4, <1>6, <1>7, U64Assumption DEF U64, IsFees
<1>9. IsQuote(quote)
  BY <1>6, <1>8, U64Assumption DEF IsQuote, U64
<1>10. out >= order.minimum
  BY <1>1, <1>5, <1>6, MinimumAtMost
<1>11. /\ PoolFits(PoolAfterBuy(p, a)) /\ MarketFits(MarketAfterBuy(p, a))
  <2>1. ModelAfterBuy(p, a) \in PoolModel
    BY DEF ModelAfterBuy, PoolModel
  <2>2. \A is_buy \in BOOLEAN, model \in PoolModel :
          MarketFits(WithMarketFees([market[p] EXCEPT !.model = model], a, f, is_buy))
    BY <1>1, <1>2, <1>3, <1>4, <1>8, TradeFits
  <2>3. MarketFits(MarketAfterBuy(p, a))
    BY <2>1, <2>2 DEF MarketAfterBuy, f
  <2> DEFINE x == pool[p].liquidity_sol_reserve + gross
             y == reserve - out
             z == sold + out
             status == StatusOnTrade(p)
  <2>4. PoolAfterBuy(p, a)
          = WithPoolFees([pool[p] EXCEPT !.status = status, !.liquidity_sol_reserve = x,
                                         !.liquidity_token_reserve = y,
                                         !.tokens_sold = z], a, f)
    BY DEF PoolAfterBuy, quote, f
  <2>5. x \in U64 /\ y \in U64 /\ z \in U64 /\ status \in PoolStatus
    BY <1>4, <1>8
  <2> HIDE DEF x, y, z, status
  <2> HIDE DEF p, a
  <2>6. PoolFits(WithPoolFees([pool[p] EXCEPT !.status = status,
                                              !.liquidity_sol_reserve = x,
                                              !.liquidity_token_reserve = y,
                                              !.tokens_sold = z], a, f))
    BY <1>1, <1>2, <1>3, <1>8, <2>5, TradeFits
  <2> QED
    BY <2>3, <2>4, <2>6
<1>12. CanTake(p, BuyDeposit(gross, f))
  <2>1. BuyDeposit(gross, f) \in Nat /\ BuyDeposit(gross, f) <= a
    <3>1. /\ f.creator \in Nat /\ f.curator \in Nat /\ f.growth \in Nat /\ f.total \in Nat
          /\ f.creator + f.curator + f.growth <= f.total
      BY <1>3 DEF IsFees
    <3> HIDE DEF a, gross
    <3> QED
      BY <1>1, <1>6, <1>7, <3>1 DEF BuyDeposit
  <2>2. sv + BuyDeposit(gross, f) \in U64
    BY <1>1, <1>2, <1>4, <2>1, U64Assumption DEF U64
  <2>3. sv + BuyDeposit(gross, f) >= RENT_EXEMPT_MINIMUM
    BY <1>1, <1>2, <1>4, <2>1, LimitsAssumption
  <2> QED
    BY <2>2, <2>3 DEF CanTake, RentExempt
<1>13. SigmoidBuyAllowed(p, a, order.minimum)
  BY <1>1, <1>2, <1>7, <1>9, <1>10, <1>11 DEF SigmoidBuyAllowed, quote
<1>14. order.treasury = config.treasury
  BY DEF Fresh, OpenTo
<1> QED
  BY <1>7, <1>12, <1>13, <1>14 DEF SwapAccepted, quote, f

(* A fresh sale: the program's quote is the client's, and the reserve,     *)
(* which covers the worth of all that was sold, covers the part of it that *)
(* is sold back; the vault pays it and stays rent exempt by its gifts.     *)
LEMMA FreshSaleAccepted ==
  ASSUME Inv, Lifecycle, CurvesValid, ExitCovered,
         order # None, Fresh(order), ~order.is_buy
  PROVE  SwapAccepted(order)
<1> DEFINE p == order.post
           a == order.amount_in
           c == market[p].sigmoid
           sold == pool[p].tokens_sold
           rest == sold - a
           quote == quote_sigmoid_sell(c, sold, a)
           gross == quote.gross_sol
           f == FeeBreakdown(gross)
           reserve == pool[p].liquidity_sol_reserve
           tokens == pool[p].liquidity_token_reserve
           sv == solVault[p]
           room == gifts[p].sol
<1>1. /\ TypeOK /\ AllSound /\ p \in Posts /\ a \in Nat /\ a \in U64
      /\ OnCurve(p) /\ c \in SigmoidConfig /\ sold + tokens = c.token_supply
      /\ reserve + room <= sv
      /\ order.estimate > 0
      /\ \E t \in Tolerances : order.minimum = MinimumFor(order.estimate, t)
      /\ order.estimate = estimateSigmoidSellSolOut(c, sold, a)
      /\ a > 0 => SwapAllowed(p, a, FALSE, "SigmoidBootstrap")
  <2>1. order.is_buy = FALSE
    BY DEF Inv, ClientSound, OrderSound
  <2> QED
    BY <2>1, FreshOrder
<1>2. /\ FeesFit(reserve) /\ pool[p].total_fees + reserve \in U64
      /\ market[p].total_trades + 1 \in U64
      /\ room >= RENT_EXEMPT_MINIMUM
  BY DEF Fresh, HasRoom
<1>3. /\ sold \in Nat /\ reserve \in Nat /\ tokens \in Nat /\ sv \in Nat /\ room \in Nat
      /\ reserve \in U64 /\ pool[p].total_fees \in Nat
      /\ c.token_supply \in U64 /\ StatusOnTrade(p) \in PoolStatus
  BY <1>1, AccountsOf, U64Assumption DEF Pool, Gifts, U64, SigmoidConfig
<1>4. /\ a <= Circulating(p) /\ order.treasury = config.treasury
  BY DEF Fresh, OpenTo
<1>5. /\ gross \in Nat /\ quote.amount_out = gross /\ order.estimate = NetOf(gross)
  <2> HIDE DEF quote, c, sold, a
  <2>1. /\ quote.gross_sol = quoteSigmoidSell(c, sold, a)
        /\ quote.amount_out = quote.gross_sol /\ quote.gross_sol \in Nat
    BY <1>1, <1>3, SaleIsSdk DEF quote
  <2> QED
    BY <1>1, <2>1 DEF estimateSigmoidSellSolOut
<1>6. gross > 0
  <2>1. NetOf(0) = 0
    BY DEF NetOf, calculateFee, TOTAL_FEE_BPS, BPS_DENOMINATOR
  <2> HIDE DEF gross
  <2> QED
    BY <1>1, <1>5, <2>1
<1>7. a > 0 /\ a <= sold /\ IsCurve(c)
  <2>1. ~(a = 0 \/ a > sold \/ ~ValidSigmoid(c) \/ band_size(c) = 0)
    <3> HIDE DEF a, sold, c
    <3> QED
      BY <1>6 DEF quote_sigmoid_sell, NoQuote
  <2>2. band_size(c) \in Nat
    BY <1>1, BandNat
  <2> HIDE DEF a, sold, c
  <2> QED
    BY <1>1, <1>3, <2>1, <2>2 DEF IsCurve
<1>8. gross <= reserve
  <2>1. Worth(c, 0, sold) <= reserve
    BY <1>1, <1>7 DEF ExitCovered, Covered
  <2> HIDE DEF p, a, c, sold, reserve, rest
  <2>2. rest \in Nat /\ rest <= sold
    BY <1>1, <1>3, <1>7 DEF rest
  <2>3. gross = Worth(c, rest, sold)
    BY <1>1, <1>3, <1>6, <1>7, SellQuoteIs DEF rest
  <2>4. /\ Worth(c, rest, sold) \in Nat /\ Worth(c, 0, rest) \in Nat
        /\ Worth(c, 0, sold) \in Nat
    BY <1>3, <1>7, <2>2, WorthNat
  <2>5. Worth(c, rest, sold) + Worth(c, 0, rest) <= Worth(c, 0, sold)
    BY <1>3, <1>7, <2>2, WorthSplits
  <2> HIDE DEF gross
  <2> QED
    BY <1>3, <2>1, <2>3, <2>4, <2>5
<1> HIDE DEF c, quote
<1>9. IsQuote(quote) /\ gross \in U64
  BY <1>3, <1>5, <1>6, <1>8, U64Assumption DEF IsQuote, U64
<1> HIDE DEF gross
<1>10. /\ IsFees(f) /\ f.total <= gross
       /\ FeesFit(gross) /\ pool[p].total_fees + f.total \in U64
  <2>1. IsFees(f) /\ f.total <= gross
    BY <1>5, FeesType
  <2>2. f.total \in Nat
    BY <2>1 DEF IsFees
  <2> HIDE DEF f, reserve
  <2>3. FeesFit(gross)
    BY <1>2, <1>3, <1>5, <1>8, U64Assumption
       DEF FeesFit, U64, TOTAL_FEE_BPS
  <2>4. pool[p].total_fees + f.total \in U64
    BY <1>2, <1>3, <1>5, <1>8, <2>1, <2>2, U64Assumption DEF U64
  <2> QED
    BY <2>1, <2>3, <2>4
<1>11. gross - f.total >= order.minimum
  <2>1. order.estimate = gross - f.total
    BY <1>5 DEF NetOf, calculateFee, FeeBreakdown, f
  <2>2. f.total \in Nat
    BY <1>10 DEF IsFees
  <2> HIDE DEF f
  <2>3. gross - f.total \in Nat
    BY <1>5, <1>10, <2>2
  <2> QED
    BY <1>1, <2>1, <2>3, MinimumAtMost
<1>12. /\ reserve - gross \in U64 /\ tokens + a \in U64 /\ rest \in U64
  <2> HIDE DEF p, a, sold, reserve, tokens
  <2> QED
    BY <1>1, <1>3, <1>5, <1>7, <1>8, U64Assumption DEF U64, rest
<1>13. PoolFits(PoolAfterSale(p, a, gross)) /\ MarketFits(MarketAfterSale(p, gross))
  <2> DEFINE x == reserve - gross
             y == tokens + a
             status == StatusOnTrade(p)
  <2>1. /\ PoolFits(WithPoolFees([pool[p] EXCEPT !.status = status,
                                                 !.liquidity_sol_reserve = x,
                                                 !.liquidity_token_reserve = y,
                                                 !.tokens_sold = rest], gross, f))
        /\ MarketFits(WithMarketFees(market[p], gross, f, FALSE))
    <3>1. x \in U64 /\ y \in U64 /\ rest \in U64 /\ status \in PoolStatus
      BY <1>3, <1>12
    <3> HIDE DEF x, y, status, rest, p, f
    <3>2. "SigmoidBootstrap" \in PoolModel
      BY DEF PoolModel
    <3> QED
      BY <1>1, <1>2, <1>5, <1>10, <3>1, <3>2, TradeFits
  <2>2. PoolAfterSale(p, a, gross)
          = WithPoolFees([pool[p] EXCEPT !.status = status,
                                         !.liquidity_sol_reserve = x,
                                         !.liquidity_token_reserve = y,
                                         !.tokens_sold = rest], gross, f)
    BY DEF PoolAfterSale
  <2>3. MarketAfterSale(p, gross) = WithMarketFees(market[p], gross, f, FALSE)
    BY DEF MarketAfterSale
  <2> QED
    BY <2>1, <2>2, <2>3
<1>14. CanPay(p, SalePayment(gross - f.total, f))
  <2> DEFINE paid == SalePayment(gross - f.total, f)
  <2>1. paid \in Nat /\ paid <= gross
    <3>1. /\ f.platform \in Nat /\ f.total \in Nat /\ f.platform <= f.total
      BY <1>10 DEF IsFees
    <3> HIDE DEF f
    <3> QED
      BY <1>5, <1>10, <3>1 DEF SalePayment
  <2> HIDE DEF paid, reserve, sv, room
  <2>2. paid <= sv /\ sv - paid >= RENT_EXEMPT_MINIMUM
    BY <1>1, <1>2, <1>3, <1>5, <1>8, <2>1, LimitsAssumption
  <2> QED
    BY <2>2 DEF CanPay, RentExempt, paid, sv
<1>15. SalePays(p, a) = gross
  BY DEF SalePays, gross, quote, c
<1>16. SigmoidSellAllowed(p, a, order.minimum)
  BY <1>1, <1>7, <1>8, <1>9, <1>10, <1>11, <1>13, <1>15
     DEF SigmoidSellAllowed, quote, c
<1> QED
  BY <1>4, <1>14, <1>15, <1>16 DEF SwapAccepted
-----------------------------------------------------------------------------
(* What acceptance rests on is kept by the client's steps as well as by    *)
(* the program's.                                                          *)
Grounds == Inv /\ Lifecycle /\ CurvesValid

(* No step of the client or of anybody else takes them away.               *)
LEMMA GroundsKept ==
  ASSUME Grounds, [ClientNext]_clientVars
  PROVE  Grounds' /\ TypeOK /\ TypeOK' /\ Kinds
<1>1. Inv' /\ TypeOK /\ TypeOK' /\ Kinds
  BY ClientStepSound, ClientStepKinds DEF Grounds, Inv
<1> QED
  BY <1>1, LifecycleKept, CurvesValidKept DEF Grounds

(* It holds at the start.                                                  *)
LEMMA GroundsAtFirst == ClientInit => Inv /\ Grounds /\ ExitCovered
<1> SUFFICES ASSUME ClientInit PROVE Inv /\ Grounds /\ ExitCovered
  OBVIOUS
<1>1. Inv
  BY InitClientSound
<1>2. Lifecycle /\ CurvesValid /\ ExitCovered
  BY DEF ClientInit, Init, Lifecycle, CurvesValid, ExitCovered, OnCurve, BlankPool,
         BlankMarket
<1> QED
  BY <1>1, <1>2 DEF Grounds

(* A buy on the curve whose estimate is still fresh is not refused for     *)
(* what it asks, whatever was traded before.                               *)
THEOREM FreshBuysAccepted ==
  ClientSpec => [](order # None /\ order.is_buy => FreshSwapAccepted)
<1>1. Grounds => (order # None /\ order.is_buy => FreshSwapAccepted)
  BY FreshBuyAccepted DEF Grounds, FreshSwapAccepted, Fresh
<1> QED
  BY <1>1, GroundsAtFirst, GroundsKept, PTL DEF ClientSpec

(* Nor is a sale, while no curve is sold past a dip of its price: past one *)
(* the reserve may not cover what the quote says.                          *)
THEOREM FreshSwapsAccepted == ClientSpec /\ []SoldWhereRising => []FreshSwapAccepted
<1>1. Grounds /\ ExitCovered => FreshSwapAccepted
  <2> SUFFICES ASSUME Grounds, ExitCovered, order # None, Fresh(order)
               PROVE  SwapAccepted(order)
    BY DEF FreshSwapAccepted, Fresh
  <2> QED
    BY FreshBuyAccepted, FreshSaleAccepted DEF Grounds
<1>2. /\ Grounds /\ ExitCovered /\ SoldWhereRising' /\ [ClientNext]_clientVars
      => (Grounds /\ ExitCovered)'
  BY GroundsKept, CoveredKept
<1> QED
  BY <1>1, <1>2, GroundsAtFirst, PTL DEF ClientSpec

(* On curves of the default shape that are sold no further than their      *)
(* midpoint the client of fresh estimates is never refused for what it     *)
(* asks, whatever the supply, the prices and the trades.                   *)
THEOREM DefaultSwapsAccepted == ClientSpec /\ []SoldBelowMidpoint => []FreshSwapAccepted
<1>1. Inv /\ SoldBelowMidpoint => SoldWhereRising
  BY BelowMidpointRises DEF Inv
<1> QED
  BY <1>1, ClientStaysSound, FreshSwapsAccepted, PTL
=============================================================================
