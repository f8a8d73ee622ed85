--------------------------- MODULE PropertyProofs ---------------------------
(***************************************************************************)
(* The action properties of RedCircleProperties as theorems, and its       *)
(* invariants beyond custody: the price band, the life of a pool, the      *)
(* backing of the bins, the protocol's totals and the backing of a curve.  *)
(* TypeOK and AllSound come from RedCircleProofs; a bin's price must be    *)
(* known to be positive (BinsPriced) before a quote at it means anything.  *)
(***************************************************************************)
EXTENDS StepProofs

(* What a step can be to one pool.                                         *)
StepKind(p) ==
  \/ Quiet(p) \/ Created(p) \/ Migrated(p) \/ InBinsStep(p)
  \/ Swapped(p, TRUE) \/ Swapped(p, FALSE)

Kinds == \A p \in Posts : StepKind(p)

(* Every step is one of these to every pool.                               *)
LEMMA StepOf ==
  ASSUME TypeOK, AllSound, [Next]_vars, NEW p \in Posts
  PROVE  \/ Quiet(p) \/ Created(p) \/ Migrated(p) \/ InBinsStep(p)
         \/ Swapped(p, TRUE) \/ Swapped(p, FALSE)
<1>1. \A q \in Posts : Untouched(q) => Quiet(q)
  BY DEF Untouched, Quiet, SameTotals
<1> QED
  BY <1>1, StepKinds DEF AllQuiet, OnlyOf

(* Which is all that the invariants below need to know of it.              *)
LEMMA NextKinds ==
  ASSUME TypeOK, AllSound, [Next]_vars
  PROVE  TypeOK' /\ AllSound' /\ Kinds
BY NextSound, StepOf DEF Kinds, StepKind

(* Counters of the trades of a pool are numbers.                           *)
LEMMA CountersType ==
  ASSUME TypeOK, NEW p \in Posts
  PROVE  /\ market[p].total_trades \in Nat /\ market[p].buy_trades \in Nat
         /\ pool[p].total_volume \in Nat /\ market[p].active_bin_id \in Int
         /\ market[p].allocated_token_liquidity \in Nat
         /\ market[p].allocated_sol_liquidity \in Nat
         /\ pool[p].liquidity_token_reserve \in Nat
         /\ pool[p].liquidity_sol_reserve \in Nat
         /\ market[p].model \in PoolModel
<1>1. pool[p] \in Pool /\ market[p] \in MarketState
  BY DEF TypeOK, Typed
<1> QED
  BY <1>1, U64Assumption, BinIdsAssumption DEF Pool, MarketState, U64, BinIds

(* A step is a trade of a pool, and a buy, just when it is swapped.        *)
LEMMA TradesAre ==
  ASSUME TypeOK, NEW p \in Posts
  PROVE  /\ Quiet(p) \/ Created(p) \/ Migrated(p) \/ InBinsStep(p)
              => ~TradeOf(p) /\ ~BuyOf(p)
         /\ Swapped(p, TRUE) => TradeOf(p) /\ BuyOf(p)
         /\ Swapped(p, FALSE) => TradeOf(p) /\ ~BuyOf(p)
<1>1. market[p].total_trades \in Nat /\ market[p].buy_trades \in Nat
  BY CountersType
<1>2. Quiet(p) \/ Created(p) \/ Migrated(p) \/ InBinsStep(p) => SameTrades(p)
  BY DEF Quiet, Created, Migrated, InBinsStep, OpensBin, Provides, InBins, SameTrades
<1>3. SameTrades(p) => ~TradeOf(p) /\ ~BuyOf(p)
  BY <1>1 DEF SameTrades, TradeOf, BuyOf
<1>4. Swapped(p, TRUE) => TradeOf(p) /\ BuyOf(p)
  BY <1>1 DEF Swapped, Traded, TradeOf, BuyOf
<1>5. Swapped(p, FALSE) => TradeOf(p) /\ ~BuyOf(p)
  BY <1>1 DEF Swapped, Traded, TradeOf, BuyOf
<1> QED
  BY <1>2, <1>3, <1>4, <1>5
-----------------------------------------------------------------------------
(* One call touches one pool: every handler writes the accounts derived    *)
(* from a single post.                                                     *)
THEOREM PoolsStayIsolated == Spec => PoolsIsolated
<1>1. ASSUME TypeOK, AllSound, [Next]_vars
      PROVE  \A p, q \in Posts : p # q => UNCHANGED PoolView(p) \/ UNCHANGED PoolView(q)
  <2>1. \A q \in Posts : Untouched(q) => UNCHANGED PoolView(q)
    BY DEF Untouched, PoolView
  <2> QED
    BY <1>1, <2>1, StepKinds DEF Apart
<1>2. TypeOK /\ AllSound /\ [Next]_vars => (TypeOK /\ AllSound)'
  BY NextSound
<1> QED
  BY <1>1, <1>2, InitSound, PTL DEF Spec, PoolsIsolated

(* A buy under launch protection is held to the limit, and the first trade *)
(* after the window, and no earlier one, ends it.                          *)
THEOREM LaunchIsGuarded == Spec => LaunchGuard
<1> DEFINE Guarded(p) == IF now < pool[p].launch_protection_ends_at
                         THEN /\ pool'[p].status = "LaunchProtection"
                              /\ BuyOf(p) => VolumeOf(p) <= config.max_buy_during_protection
                         ELSE pool'[p].status = "Active"
<1>1. ASSUME TypeOK, AllSound, [Next]_vars
      PROVE  \A p \in pools :
               pool[p].status = "LaunchProtection" /\ TradeOf(p) => Guarded(p)
  <2> SUFFICES ASSUME NEW p \in pools, pool[p].status = "LaunchProtection", TradeOf(p)
               PROVE  Guarded(p)
    OBVIOUS
  <2>1. p \in Posts
    BY <1>1 DEF TypeOK, Typed
  <2>2. PICK is_buy \in BOOLEAN : Swapped(p, is_buy) /\ (BuyOf(p) <=> is_buy)
    BY <1>1, <2>1, StepOf, TradesAre
  <2>3. PICK volume : Traded(p, is_buy, volume)
    BY <2>2 DEF Swapped
  <2>4. pool'[p].status = StatusOnTrade(p)
    BY <2>3 DEF Traded
  <2>5. CASE now < pool[p].launch_protection_ends_at
    <3>1. Protected(p) /\ StatusOnTrade(p) = "LaunchProtection"
      BY <1>1, <2>5 DEF Protected, StatusOnTrade
    <3>2. BuyOf(p) => volume <= config.max_buy_during_protection
      BY <2>2, <2>3, <3>1 DEF Traded
    <3>3. pool[p].total_volume \in Nat /\ pool'[p].total_volume \in Nat
      <4>1. TypeOK'
        BY <1>1, NextSound
      <4>2. pool[p] \in Pool /\ pool'[p] \in Pool
        BY <1>1, <2>1, <4>1 DEF TypeOK, Typed
      <4> QED
        BY <4>2 DEF Pool
    <3>4. pool'[p].total_volume = pool[p].total_volume + volume /\ volume \in Nat
      BY <2>3 DEF Traded
    <3>5. VolumeOf(p) = volume
      BY <3>3, <3>4 DEF VolumeOf
    <3> QED
      BY <2>4, <2>5, <3>1, <3>2, <3>5
  <2>6. CASE ~(now < pool[p].launch_protection_ends_at)
    BY <1>1, <2>4, <2>6 DEF Protected, StatusOnTrade
  <2> QED
    BY <2>5, <2>6
<1>2. TypeOK /\ AllSound /\ [Next]_vars => (TypeOK /\ AllSound)'
  BY NextSound
<1> QED
  BY <1>1, <1>2, InitSound, PTL DEF Spec, LaunchGuard

(* No buyer pays more than was offered: on the curve the vault receives    *)
(* what the quote spends, and no quote spends more than the amount less    *)
(* its fee; in a bin it receives the amount.                               *)
THEOREM NoOvercharge == Spec => BuyerNeverOvercharged
<1>1. ASSUME TypeOK, AllSound, [Next]_vars
      PROVE  \A p \in Posts : BuyOf(p) => Paid(p) <= VolumeOf(p)
  <2> SUFFICES ASSUME NEW p \in Posts, BuyOf(p)
               PROVE  Paid(p) <= VolumeOf(p)
    OBVIOUS
  <2>1. PICK volume : Traded(p, TRUE, volume)
    BY <1>1, StepOf, TradesAre DEF Swapped
  <2>2. pool[p].total_volume \in Nat /\ volume \in Nat
    BY <1>1, <2>1, CountersType DEF Traded
  <2>3. VolumeOf(p) = volume
    BY <2>1, <2>2 DEF Traded, VolumeOf
  <2> QED
    BY <2>1, <2>3 DEF Traded
<1>2. TypeOK /\ AllSound /\ [Next]_vars => (TypeOK /\ AllSound)'
  BY NextSound
<1>3. ASSUME TypeOK, AllSound, [Next]_vars
      PROVE  \A p \in Posts :
               BuyOf(p) => (solVault'[p] - solVault[p])
                             + (payouts'[p].platform - payouts[p].platform) <= VolumeOf(p)
  BY <1>1, <1>3 DEF Paid
<1> QED
  BY <1>2, <1>3, InitSound, PTL DEF Spec, BuyerNeverOvercharged

(* The phase of a pool, of whether it exists and what its market says.     *)
PhaseOf(exists, model) ==
  IF ~exists THEN 0
  ELSE IF model = "SigmoidBootstrap" THEN 1
  ELSE IF model = "MigrationPending" THEN 2 ELSE 3

(* Its phase is the one its accounts say, before a step.                   *)
LEMMA PhaseBefore ==
  ASSUME TypeOK, NEW p \in Posts
  PROVE  Phase(p) = PhaseOf(p \in pools, market[p].model)
<1>1. market[p].model \in {"SigmoidBootstrap", "MigrationPending", "DLMM"}
  BY CountersType DEF PoolModel
<1>2. CASE p \notin pools
  BY <1>2 DEF Phase, PhaseOf
<1>3. CASE p \in pools /\ market[p].model = "SigmoidBootstrap"
  BY <1>3 DEF Phase, PhaseOf
<1>4. CASE p \in pools /\ market[p].model = "MigrationPending"
  BY <1>4 DEF Phase, PhaseOf
<1>5. CASE p \in pools /\ market[p].model = "DLMM"
  BY <1>5 DEF Phase, PhaseOf
<1> QED
  BY <1>1, <1>2, <1>3, <1>4, <1>5

(* And after it.                                                           *)
LEMMA PhaseAfter ==
  ASSUME TypeOK', NEW p \in Posts
  PROVE  Phase(p)' = PhaseOf(p \in pools', market'[p].model)
<1>1. market'[p].model \in {"SigmoidBootstrap", "MigrationPending", "DLMM"}
  BY DEF TypeOK, Typed, MarketState, PoolModel
<1>2. CASE p \notin pools'
  BY <1>2 DEF Phase, PhaseOf
<1>3. CASE p \in pools' /\ market'[p].model = "SigmoidBootstrap"
  BY <1>3 DEF Phase, PhaseOf
<1>4. CASE p \in pools' /\ market'[p].model = "MigrationPending"
  BY <1>4 DEF Phase, PhaseOf
<1>5. CASE p \in pools' /\ market'[p].model = "DLMM"
  BY <1>5 DEF Phase, PhaseOf
<1> QED
  BY <1>1, <1>2, <1>3, <1>4, <1>5

(* No call takes a pool back to an earlier phase, and what a phase froze   *)
(* stays frozen.                                                           *)
THEOREM PhasesOnlyMoveForward == Spec => PhasesMoveForward
<1> DEFINE Forward(p) ==
             /\ Phase(p) <= Phase(p)'
             /\ Phase(p) > 0 => market'[p].sigmoid = market[p].sigmoid
             /\ Phase(p) > 1 => pool'[p].tokens_sold = pool[p].tokens_sold
             /\ Phase(p) > 2 => market'[p].migrated_at = market[p].migrated_at
<1>1. ASSUME TypeOK, AllSound, [Next]_vars
      PROVE  \A p \in Posts : Forward(p)
  <2> SUFFICES ASSUME NEW p \in Posts PROVE Forward(p)
    OBVIOUS
  <2>1. TypeOK'
    BY <1>1, NextSound
  <2>2. /\ Phase(p) = PhaseOf(p \in pools, market[p].model)
        /\ Phase(p)' = PhaseOf(p \in pools', market'[p].model)
    BY <1>1, <2>1, PhaseBefore, PhaseAfter
  <2>3. market[p].model \in {"SigmoidBootstrap", "MigrationPending", "DLMM"}
    BY <1>1, CountersType DEF PoolModel
  <2>4. CASE Quiet(p)
    BY <2>2, <2>4 DEF Quiet, PhaseOf
  <2>5. CASE Created(p)
    BY <2>2, <2>5 DEF Created, PhaseOf
  <2>6. CASE Migrated(p)
    BY <2>2, <2>3, <2>6 DEF Migrated, PhaseOf
  <2>7. CASE InBinsStep(p)
    <3>1. InBins(p)
      BY <2>7 DEF InBinsStep, OpensBin, Provides
    <3> QED
      BY <2>2, <3>1 DEF InBins, PhaseOf
  <2>8. ASSUME NEW is_buy, Swapped(p, is_buy) PROVE Forward(p)
    <3>1. /\ p \in pools /\ pools' = pools
          /\ market'[p].sigmoid = market[p].sigmoid
          /\ market'[p].migrated_at = market[p].migrated_at
      BY <2>8 DEF Swapped, Traded
    <3>2. \/ /\ market[p].model = "SigmoidBootstrap"
             /\ market'[p].model \in {"SigmoidBootstrap", "MigrationPending"}
          \/ /\ market[p].model = "DLMM" /\ market'[p].model = "DLMM"
             /\ pool'[p].tokens_sold = pool[p].tokens_sold
      BY <2>8 DEF Swapped, TradedOnCurve, TradedInBin
    <3> QED
      BY <2>2, <3>1, <3>2 DEF PhaseOf
  <2> QED
    BY <1>1, <2>4, <2>5, <2>6, <2>7, <2>8, StepOf
<1>2. TypeOK /\ AllSound /\ [Next]_vars => (TypeOK /\ AllSound)'
  BY NextSound
<1> QED
  BY <1>1, <1>2, InitSound, PTL DEF Spec, PhasesMoveForward

-----------------------------------------------------------------------------
(* The active bin id of a pool makes a key, whether or not it is open.     *)
LEMMA ActiveBinKey ==
  ASSUME TypeOK, NEW p \in Posts
  PROVE  <<p, market[p].active_bin_id>> \in BinKeys
BY DEF TypeOK, Typed, MarketState, BinKeys

(* The active bin of a migrated market moves when, and only when, a trade  *)
(* drains the side of it that the trade takes.                             *)
THEOREM ActiveBinOnlyFollows == Spec => ActiveBinFollows
<1> DEFINE Follows(p) ==
             LET id == market[p].active_bin_id
                 b == <<p, id>>
                 drained == \/ BuyOf(p) /\ bin'[b].token_liquidity = 0
                            \/ ~BuyOf(p) /\ bin'[b].sol_liquidity = 0
             IN  market[p].model = "DLMM" =>
                   market'[p].active_bin_id =
                     (IF TradeOf(p) /\ drained
                      THEN IF BuyOf(p) THEN id + 1 ELSE id - 1
                      ELSE id)
<1>1. ASSUME TypeOK, AllSound, [Next]_vars
      PROVE  \A p \in pools : Follows(p)
  <2> SUFFICES ASSUME NEW p \in pools, market[p].model = "DLMM" PROVE Follows(p)
    OBVIOUS
  <2>1. p \in Posts
    BY <1>1 DEF TypeOK, Typed
  <2>2. CASE Quiet(p) \/ InBinsStep(p)
    <3>1. market'[p].active_bin_id = market[p].active_bin_id
      BY <2>2 DEF Quiet, InBinsStep, OpensBin, Provides, InBins
    <3>2. ~TradeOf(p)
      BY <1>1, <2>1, <2>2, TradesAre
    <3> QED
      BY <3>1, <3>2
  <2>3. CASE Created(p) \/ Migrated(p)
    BY <2>3 DEF Created, Migrated
  <2>4. CASE Swapped(p, TRUE)
    <3>1. PICK tokens, sol : TradedInBin(p, TRUE, tokens, sol)
      BY <2>4 DEF Swapped, TradedOnCurve
    <3>2. TradeOf(p) /\ BuyOf(p)
      BY <1>1, <2>1, <2>4, TradesAre
    <3> QED
      BY <3>1, <3>2 DEF TradedInBin
  <2>5. CASE Swapped(p, FALSE)
    <3>1. PICK tokens, sol : TradedInBin(p, FALSE, tokens, sol)
      BY <2>5 DEF Swapped, TradedOnCurve
    <3>2. TradeOf(p) /\ ~BuyOf(p)
      BY <1>1, <2>1, <2>5, TradesAre
    <3> QED
      BY <3>1, <3>2 DEF TradedInBin
  <2> QED
    BY <1>1, <2>1, <2>2, <2>3, <2>4, <2>5, StepOf
<1>2. TypeOK /\ AllSound /\ [Next]_vars => (TypeOK /\ AllSound)'
  BY NextSound
<1> QED
  BY <1>1, <1>2, InitSound, PTL DEF Spec, ActiveBinFollows

(* Only init_bin draws on the reserves that no bin holds.                  *)
THEOREM ReservesDrawnByOpening == Spec => OnlyOpeningDrawsReserves
<1> DEFINE Opened(p) == \E b \in bins' \ bins : b[1] = p
           Free(p) == market[p].model = "DLMM" =>
             IF Opened(p)
             THEN /\ UnallocatedTokens(p)' <= UnallocatedTokens(p)
                  /\ UnallocatedSol(p)' <= UnallocatedSol(p)
             ELSE /\ UnallocatedTokens(p)' = UnallocatedTokens(p)
                  /\ UnallocatedSol(p)' = UnallocatedSol(p)
<1>1. ASSUME TypeOK, AllSound, [Next]_vars
      PROVE  \A p \in Posts : Free(p)
  <2> SUFFICES ASSUME NEW p \in Posts, market[p].model = "DLMM" PROVE Free(p)
    OBVIOUS
  <2>1. /\ market[p].allocated_token_liquidity \in Nat
        /\ market[p].allocated_sol_liquidity \in Nat
        /\ pool[p].liquidity_token_reserve \in Nat
        /\ pool[p].liquidity_sol_reserve \in Nat
    BY <1>1, CountersType
  <2>2. ASSUME UnallocatedTokens(p)' = UnallocatedTokens(p),
               UnallocatedSol(p)' = UnallocatedSol(p)
        PROVE  Free(p)
    <3>1. UnallocatedTokens(p) \in Int /\ UnallocatedSol(p) \in Int
      BY <2>1 DEF UnallocatedTokens, UnallocatedSol
    <3> QED
      BY <2>2, <3>1
  <2>3. ASSUME NEW b, NEW tokens, NEW sol, MovesTogether(p, b, tokens, sol)
        PROVE  Free(p)
    <3>1. /\ UnallocatedTokens(p)' = UnallocatedTokens(p)
          /\ UnallocatedSol(p)' = UnallocatedSol(p)
      BY <2>1, <2>3 DEF MovesTogether, UnallocatedTokens, UnallocatedSol
    <3> QED
      BY <2>2, <3>1
  <2>4. CASE Quiet(p)
    BY <2>2, <2>4 DEF Quiet, UnallocatedTokens, UnallocatedSol
  <2>5. CASE Created(p) \/ Migrated(p)
    <3>1. Migrated(p) => FALSE
      BY DEF Migrated
    <3>2. Created(p) => market[p] = BlankMarket
      BY <1>1 DEF Created, TypeOK, Unborn
    <3> QED
      BY <2>5, <3>1, <3>2 DEF BlankMarket
  <2>6. CASE InBinsStep(p)
    <3>1. ASSUME NEW id, NEW tokens, NEW sol, OpensBin(p, id, tokens, sol)
          PROVE  Free(p)
      <4>1. Opened(p)
        BY <3>1 DEF OpensBin
      <4>2. /\ UnallocatedTokens(p)' <= UnallocatedTokens(p)
            /\ UnallocatedSol(p)' <= UnallocatedSol(p)
        BY <2>1, <3>1 DEF OpensBin, UnallocatedTokens, UnallocatedSol
      <4> QED
        BY <4>1, <4>2
    <3> QED
      BY <2>3, <2>6, <3>1 DEF InBinsStep, Provides
  <2>7. CASE Swapped(p, TRUE) \/ Swapped(p, FALSE)
    BY <2>3, <2>7 DEF Swapped, TradedOnCurve, TradedInBin
  <2> QED
    BY <1>1, <2>4, <2>5, <2>6, <2>7, StepOf
<1>2. TypeOK /\ AllSound /\ [Next]_vars => (TypeOK /\ AllSound)'
  BY NextSound
<1> QED
  BY <1>1, <1>2, InitSound, PTL DEF Spec, OnlyOpeningDrawsReserves

(* A market without an active bin and without free reserves never trades   *)
(* again.                                                                  *)
THEOREM StrandedStays == Spec => StrandedForGood
<1> DEFINE Stays(p) == Stranded(p) => Stranded(p)' /\ ~TradeOf(p)
<1>1. ASSUME TypeOK, AllSound, [Next]_vars
      PROVE  \A p \in Posts : Stays(p)
  <2> SUFFICES ASSUME NEW p \in Posts, Stranded(p) PROVE Stays(p)
    OBVIOUS
  <2>1. /\ market[p].allocated_token_liquidity \in Nat
        /\ market[p].allocated_sol_liquidity \in Nat
        /\ pool[p].liquidity_token_reserve \in Nat
        /\ pool[p].liquidity_sol_reserve \in Nat
        /\ market[p].active_bin_id \in BinIds
    BY <1>1, CountersType DEF TypeOK, Typed, MarketState
  <2>2. /\ p \in pools /\ market[p].model = "DLMM"
        /\ <<p, market[p].active_bin_id>> \notin bins
        /\ UnallocatedTokens(p) = 0 /\ UnallocatedSol(p) = 0
    BY DEF Stranded
  <2>3. CASE Quiet(p)
    <3>1. Stranded(p)'
      BY <2>1, <2>2, <2>3 DEF Quiet, Stranded, UnallocatedTokens, UnallocatedSol
    <3> QED
      BY <1>1, <2>3, <3>1, TradesAre
  <2>4. CASE Created(p) \/ Migrated(p)
    BY <2>2, <2>4 DEF Created, Migrated
  <2>5. CASE InBinsStep(p)
    <3>1. ASSUME NEW id, NEW tokens, NEW sol, OpensBin(p, id, tokens, sol)
          PROVE  FALSE
      <4>1. /\ tokens \in Nat /\ sol \in Nat /\ (tokens > 0 \/ sol > 0)
            /\ market[p].allocated_token_liquidity + tokens
                 <= pool[p].liquidity_token_reserve
            /\ market[p].allocated_sol_liquidity + sol <= pool[p].liquidity_sol_reserve
        BY <3>1 DEF OpensBin
      <4>2. /\ pool[p].liquidity_token_reserve - market[p].allocated_token_liquidity = 0
            /\ pool[p].liquidity_sol_reserve - market[p].allocated_sol_liquidity = 0
        BY <2>2 DEF UnallocatedTokens, UnallocatedSol
      <4> DEFINE heldTokens == market[p].allocated_token_liquidity
                 heldSol == market[p].allocated_sol_liquidity
                 allTokens == pool[p].liquidity_token_reserve
                 allSol == pool[p].liquidity_sol_reserve
      <4>3. /\ tokens \in Nat /\ heldTokens \in Nat /\ allTokens \in Nat
            /\ allTokens - heldTokens = 0 /\ heldTokens + tokens <= allTokens
        BY <2>1, <4>1, <4>2
      <4>4. /\ sol \in Nat /\ heldSol \in Nat /\ allSol \in Nat
            /\ allSol - heldSol = 0 /\ heldSol + sol <= allSol
        BY <2>1, <4>1, <4>2
      <4> HIDE DEF heldTokens, heldSol, allTokens, allSol
      <4>5. tokens = 0
        BY <4>3
      <4>6. sol = 0
        BY <4>4
      <4> QED
        BY <4>1, <4>5, <4>6
    <3>2. ASSUME NEW b, NEW tokens, NEW sol, Provides(p, b, tokens, sol)
          PROVE  Stranded(p)'
      <4>1. /\ UnallocatedTokens(p)' = UnallocatedTokens(p)
            /\ UnallocatedSol(p)' = UnallocatedSol(p)
        BY <2>1, <3>2
           DEF Provides, MovesTogether, UnallocatedTokens, UnallocatedSol
      <4> QED
        BY <2>2, <3>2, <4>1 DEF Provides, MovesTogether, InBins, Stranded
    <3> QED
      BY <1>1, <2>5, <3>1, <3>2, TradesAre DEF InBinsStep
  <2>6. CASE Swapped(p, TRUE) \/ Swapped(p, FALSE)
    BY <2>2, <2>6 DEF Swapped, TradedOnCurve, TradedInBin, MovesTogether
  <2> QED
    BY <1>1, <2>3, <2>4, <2>5, <2>6, StepOf
<1>2. TypeOK /\ AllSound /\ [Next]_vars => (TypeOK /\ AllSound)'
  BY NextSound
<1> QED
  BY <1>1, <1>2, InitSound, PTL DEF Spec, StrandedForGood

(* While the protocol is paused nothing moves but claims and gifts; a      *)
(* paused pool is not traded.                                              *)
THEOREM PauseIsHeld == Spec => PauseHolds
<1> DEFINE Frozen(p) ==
             /\ pool'[p].liquidity_sol_reserve = pool[p].liquidity_sol_reserve
             /\ tokenVault'[p] - tokenVault[p] = gifts'[p].token - gifts[p].token
             /\ solVault'[p] - solVault[p] = SolOwed(p)' - SolOwed(p)
                                              + (gifts'[p].sol - gifts[p].sol)
           Held == config.is_paused =>
                     /\ pools' = pools
                     /\ UNCHANGED <<market, bin>>
                     /\ \A p \in Posts : Frozen(p)
           Untraded(p) == pool[p].status = "Paused" => ~TradeOf(p)
<1>1. ASSUME TypeOK, AllSound, [Next]_vars
      PROVE  Held /\ \A p \in Posts : Untraded(p)
  <2>1. TypeOK' /\ AllSound'
    BY <1>1, NextSound
  <2>2. ASSUME config.is_paused PROVE AllQuiet
    <3>1. ~NotPaused
      BY <2>2 DEF NotPaused
    <3>2. \A p \in Posts : ~Created(p) /\ ~Migrated(p)
      BY <3>1 DEF Created, Migrated
    <3>3. \A p \in Posts : ~InBinsStep(p)
      <4>1. \A p \in Posts : InBinsStep(p) => InBins(p)
        BY DEF InBinsStep, OpensBin, Provides
      <4> QED
        BY <3>1, <4>1 DEF InBins
    <3>4. \A p \in Posts : ~Swapped(p, TRUE) /\ ~Swapped(p, FALSE)
      BY <3>1 DEF Swapped, Traded
    <3> QED
      BY <1>1, <3>2, <3>3, <3>4, StepKinds
  <2>3. ASSUME AllQuiet PROVE pools' = pools /\ UNCHANGED <<market, bin>>
    <3>1. pools' = pools
      BY <1>1, <2>1, <2>3 DEF AllQuiet, Quiet, TypeOK, Typed
    <3>2. market' = market
      BY <1>1, <2>1, <2>3 DEF AllQuiet, Quiet, TypeOK, Typed
    <3>3. \A k \in BinKeys : bin'[k] = bin[k]
      BY <2>3 DEF AllQuiet, Quiet, BinKeys
    <3>4. bin' = bin
      BY <1>1, <2>1, <3>3 DEF TypeOK, Typed
    <3> QED
      BY <3>1, <3>2, <3>4
  <2>4. ASSUME AllQuiet, NEW p \in Posts PROVE Frozen(p)
    <3>1. /\ pool'[p].liquidity_sol_reserve = pool[p].liquidity_sol_reserve
          /\ pool'[p].liquidity_token_reserve = pool[p].liquidity_token_reserve
      BY <2>4 DEF AllQuiet, Quiet
    <3>2. /\ pool[p] \in Pool /\ gifts[p] \in Gifts
          /\ pool'[p] \in Pool /\ gifts'[p] \in Gifts
      BY <1>1, <2>1 DEF TypeOK, Typed
    <3>3. /\ gifts[p].sol \in Nat /\ gifts[p].token \in Nat
          /\ gifts'[p].sol \in Nat /\ gifts'[p].token \in Nat
          /\ pool[p].liquidity_token_reserve \in Nat
      BY <3>2, U64Assumption DEF Gifts, Pool, U64
    <3>4. SolOwed(p) \in Nat /\ SolOwed(p)' \in Nat
      <4>1. /\ pool[p].liquidity_sol_reserve \in Nat
            /\ pool[p].unclaimed_creator_fees \in Nat
            /\ pool[p].unclaimed_curator_fees \in Nat
            /\ pool[p].unclaimed_growth_fees \in Nat
            /\ pool'[p].liquidity_sol_reserve \in Nat
            /\ pool'[p].unclaimed_creator_fees \in Nat
            /\ pool'[p].unclaimed_curator_fees \in Nat
            /\ pool'[p].unclaimed_growth_fees \in Nat
        BY <3>2, U64Assumption DEF Pool, U64
      <4> QED
        BY <4>1 DEF SolOwed
    <3>5. /\ solVault[p] = SolOwed(p) + gifts[p].sol
          /\ tokenVault[p] = pool[p].liquidity_token_reserve + gifts[p].token
      BY <1>1, AllSoundIsBooks DEF SolCustody, TokenCustody
    <3>6. /\ solVault'[p] = SolOwed(p)' + gifts'[p].sol
          /\ tokenVault'[p] = pool'[p].liquidity_token_reserve + gifts'[p].token
      BY <2>1 DEF AllSound, Sound, SolOwed
    <3> QED
      BY <3>1, <3>3, <3>4, <3>5, <3>6
  <2>5. ASSUME NEW p \in Posts, pool[p].status = "Paused" PROVE ~TradeOf(p)
    <3>1. ~Swapped(p, TRUE) /\ ~Swapped(p, FALSE)
      BY <2>5 DEF Swapped, Traded
    <3> QED
      BY <1>1, <3>1, StepOf, TradesAre
  <2> QED
    BY <2>2, <2>3, <2>4, <2>5
<1>2. TypeOK /\ AllSound /\ [Next]_vars => (TypeOK /\ AllSound)'
  BY NextSound
<1> QED
  BY <1>1, <1>2, InitSound, PTL DEF Spec, PauseHolds

-----------------------------------------------------------------------------
(* The price band of new pools is written by initialize and update_config  *)
(* alone.                                                                  *)
SameBand ==
  /\ initialized' = initialized
  /\ config'.default_sigmoid_floor_price = config.default_sigmoid_floor_price
  /\ config'.default_sigmoid_cap_price = config.default_sigmoid_cap_price

(* update_config keeps the floor below the cap: each new end is compared   *)
(* with the other end as the call leaves it, or as it found it.            *)
LEMMA BandUpdated ==
  ASSUME TypeOK, PriceBandSane, NEW w, NEW u, UpdateConfig(w, u)
  PROVE  PriceBandSane'
<1> DEFINE floor == unwrap_or(u.floor_price, config.default_sigmoid_floor_price)
           cap == unwrap_or(u.cap_price, config.default_sigmoid_cap_price)
           a == unwrap_or(u.admin, config.admin)
           b == unwrap_or(u.treasury, config.treasury)
           c == unwrap_or(u.is_paused, config.is_paused)
           d == unwrap_or(u.pool_creation_fee, config.pool_creation_fee)
           e == unwrap_or(u.duration, config.launch_protection_duration)
           f == unwrap_or(u.max_buy, config.max_buy_during_protection)
           new == [config EXCEPT !.admin = a, !.treasury = b, !.is_paused = c,
                                 !.default_sigmoid_floor_price = floor,
                                 !.default_sigmoid_cap_price = cap,
                                 !.pool_creation_fee = d,
                                 !.launch_protection_duration = e,
                                 !.max_buy_during_protection = f]
<1>1. /\ initialized /\ initialized' = initialized
      /\ NewBandAllowed(u, floor)
      /\ config' = new
  BY DEF UpdateConfig, IsAdmin
<1>2. /\ 0 < config.default_sigmoid_floor_price
      /\ config.default_sigmoid_floor_price < config.default_sigmoid_cap_price
  BY <1>1 DEF PriceBandSane
<1>3. 0 < floor /\ floor < cap
  BY <1>1, <1>2 DEF NewBandAllowed, unwrap_or
<1> HIDE DEF floor, cap, a, b, c, d, e, f
<1>4. /\ new.default_sigmoid_floor_price = floor
      /\ new.default_sigmoid_cap_price = cap
  BY DEF TypeOK, Typed, Config
<1> HIDE DEF new
<1> QED
  BY <1>1, <1>3, <1>4 DEF PriceBandSane

(* The statistics of a trade are no part of the band.                      *)
LEMMA BandOfTrade ==
  ASSUME TypeOK, NEW volume, NEW fees, UNCHANGED registry,
         config' = WithConfigFees(config, volume, fees)
  PROVE  SameBand
BY DEF SameBand, WithConfigFees, TypeOK, Typed, Config, registry

(* The other calls keep it.                                                *)
LEMMA BandKept ==
  ASSUME TypeOK, SetupStep \/ TradeStep \/ LiquidityStep \/ ClaimStep \/ WorldStep
  PROVE  SameBand
<1>1. ASSUME initialized' = initialized, config' = config PROVE SameBand
  BY <1>1 DEF SameBand
<1>2. CASE SetupStep
  <2>1. ASSUME NEW w, NEW p, NEW params, CreatePool(w, p, params) PROVE SameBand
    <3> DEFINE n == config.total_pools + 1
    <3>1. initialized' = initialized /\ config' = [config EXCEPT !.total_pools = n]
      BY <2>1 DEF CreatePool
    <3> HIDE DEF n
    <3> QED
      BY <3>1 DEF SameBand, TypeOK, Typed, Config
  <2>2. ASSUME NEW w, NEW p, NEW id, NEW enforce, MigratePool(w, p, id, enforce)
        PROVE  SameBand
    BY <1>1, <2>2 DEF MigratePool, registry
  <2> QED
    BY <1>2, <2>1, <2>2 DEF SetupStep
<1>3. CASE TradeStep
  <2>1. ASSUME NEW p, NEW a, NEW minimum, SigmoidBuy(p, a, minimum) PROVE SameBand
    BY <2>1, BandOfTrade DEF SigmoidBuy, SigmoidBuyAllowed, BuyFill, PoolAfterBuy,
           ModelAfterBuy, MarketAfterBuy
  <2>2. ASSUME NEW p, NEW a, NEW minimum, SigmoidSell(p, a, minimum) PROVE SameBand
    BY <2>2, BandOfTrade DEF SigmoidSell, SigmoidSellAllowed, SalePays,
           PoolAfterSale, MarketAfterSale
  <2>3. ASSUME NEW p, NEW b, NEW a, NEW minimum, DlmmBuy(p, b, a, minimum)
        PROVE  SameBand
    BY <2>3, BandOfTrade DEF DlmmBuy
  <2>4. ASSUME NEW p, NEW b, NEW a, NEW minimum, DlmmSell(p, b, a, minimum)
        PROVE  SameBand
    BY <2>4, BandOfTrade DEF DlmmSell
  <2> QED
    BY <1>3, <2>1, <2>2, <2>3, <2>4 DEF TradeStep
<1>4. CASE LiquidityStep
  <2>1. ASSUME NEW w, NEW p, NEW params, InitBin(w, p, params) PROVE SameBand
    BY <1>1, <2>1 DEF InitBin
  <2>2. ASSUME NEW p, NEW b, NEW tokens, NEW sol, MoveLiquidity(p, b, tokens, sol)
        PROVE  SameBand
    BY <1>1, <2>2 DEF MoveLiquidity, registry
  <2>3. ASSUME NEW w, NEW p, NEW b, NEW tokens, NEW sol,
               AddLiquidity(w, p, b, tokens, sol) \/ RemoveLiquidity(w, p, b, tokens, sol)
        PROVE  SameBand
    BY <2>2, <2>3 DEF AddLiquidity, RemoveLiquidity
  <2> QED
    BY <1>4, <2>1, <2>3 DEF LiquidityStep
<1>5. CASE ClaimStep
  <2>1. initialized' = initialized /\ config' = config
    BY <1>5 DEF ClaimStep, ClaimCreatorFees, ClaimCuratorFees, ClaimGrowthFees,
                PaidFromVault, registry
  <2> QED
    BY <1>1, <2>1
<1>6. CASE WorldStep
  <2>1. initialized' = initialized /\ config' = config
    BY <1>6 DEF WorldStep, Tick, GiftSol, GiftTokens, registry, accounts
  <2> QED
    BY <1>1, <2>1
<1> QED
  BY <1>2, <1>3, <1>4, <1>5, <1>6

(* However its ends are moved, the default band stays a band.              *)
THEOREM BandStaysSane == Spec => []PriceBandSane
<1>1. Init => PriceBandSane
  BY DEF Init, PriceBandSane
<1>2. ASSUME TypeOK, PriceBandSane, SameBand PROVE PriceBandSane'
  BY <1>2 DEF PriceBandSane, SameBand
<1>3. ASSUME TypeOK, PriceBandSane, [Next]_vars PROVE PriceBandSane'
  <2>1. CASE AdminStep
    <3>1. ASSUME NEW w, NEW t, NEW params, Initialize(w, t, params) PROVE PriceBandSane'
      BY <3>1 DEF Initialize, PriceBandSane
    <3>2. ASSUME NEW w, NEW p, NEW s, SetPoolStatus(w, p, s) PROVE SameBand
      BY <3>2 DEF SetPoolStatus, SameBand, registry
    <3>3. ASSUME NEW w, NEW p, NEW c, SetCreator(w, p, c) PROVE SameBand
      BY <3>3 DEF SetCreator, SameBand, registry
    <3> QED
      BY <1>2, <1>3, <2>1, <3>1, <3>2, <3>3, BandUpdated DEF AdminStep
  <2>2. CASE UNCHANGED vars
    BY <1>2, <1>3, <2>2 DEF vars, SameBand
  <2>3. CASE SetupStep \/ TradeStep \/ LiquidityStep \/ ClaimStep \/ WorldStep
    BY <1>2, <1>3, <2>3, BandKept
  <2> QED
    BY <1>3, <2>1, <2>2, <2>3 DEF Next
<1> QED
  BY <1>1, <1>3, TypeCorrect, PTL DEF Spec

-----------------------------------------------------------------------------
(* A bin is opened with a price, and keeps it.                             *)
BinsPriced == \A b \in bins : bin[b].price_lamports_per_token > 0

(* No step changes the price of a bin or opens one without a price.        *)
LEMMA PricesKept ==
  ASSUME TypeOK, AllSound, TypeOK', BinsPriced, [Next]_vars
  PROVE  BinsPriced'
<1> SUFFICES ASSUME NEW k \in bins' PROVE bin'[k].price_lamports_per_token > 0
  BY DEF BinsPriced
<1> DEFINE p == k[1]
           id == k[2]
<1>1. p \in Posts /\ id \in BinIds /\ k = <<p, id>> /\ k \in BinKeys
  BY DEF TypeOK, Typed, BinKeys
<1> HIDE DEF p, id
<1>2. CASE k \in bins /\ bin'[k] = bin[k]
  BY <1>2 DEF BinsPriced
<1>3. CASE Quiet(p)
  BY <1>1, <1>2, <1>3 DEF Quiet
<1>4. CASE SameBins
  BY <1>2, <1>4 DEF SameBins
<1>5. ASSUME NEW b, NEW tokens, NEW sol, MovesTogether(p, b, tokens, sol)
      PROVE  bin'[k].price_lamports_per_token > 0
  BY <1>1, <1>5 DEF MovesTogether, BinsPriced
<1>6. CASE InBinsStep(p)
  <2>1. ASSUME NEW i, NEW tokens, NEW sol, OpensBin(p, i, tokens, sol)
        PROVE  bin'[k].price_lamports_per_token > 0
    BY <1>1, <2>1 DEF OpensBin, BinsPriced
  <2> QED
    BY <1>5, <1>6, <2>1 DEF InBinsStep, Provides
<1>7. CASE Swapped(p, TRUE) \/ Swapped(p, FALSE)
  BY <1>4, <1>5, <1>7 DEF Swapped, TradedOnCurve, TradedInBin
<1> QED
  BY <1>1, <1>3, <1>4, <1>6, <1>7, StepOf DEF Created, Migrated

(* That makes a quote of the active bin a division by something.           *)
LEMMA BinsArePriced == Spec => [](TypeOK /\ AllSound /\ BinsPriced)
<1>1. Init => BinsPriced
  BY DEF Init, BinsPriced
<1>2. TypeOK /\ AllSound /\ BinsPriced /\ [Next]_vars => (TypeOK /\ AllSound /\ BinsPriced)'
  BY NextSound, PricesKept
<1> QED
  BY <1>1, <1>2, InitSound, PTL DEF Spec

(* Moving tokens and SOL whose value, at the price, is not negative.       *)
LEMMA ValueMoves ==
  ASSUME NEW t \in Nat, NEW s \in Nat, NEW price \in Nat, NEW u \in Nat,
         NEW tokens \in Int, NEW sol \in Int, tokens * price + sol * u >= 0
  PROVE  (t + tokens) * price + (s + sol) * u >= t * price + s * u
<1>1. (t + tokens) * price = t * price + tokens * price
  BY SMTT(30)
<1>2. (s + sol) * u = s * u + sol * u
  BY SMTT(30)
<1>3. /\ t * price \in Int /\ tokens * price \in Int
      /\ s * u \in Int /\ sol * u \in Int
  BY SMTT(30)
<1> DEFINE a == t * price
           b == tokens * price
           c == s * u
           d == sol * u
<1> HIDE DEF a, b, c, d
<1>4. a \in Int /\ b \in Int /\ c \in Int /\ d \in Int /\ b + d >= 0
  BY <1>3 DEF a, b, c, d
<1>5. (a + b) + (c + d) >= a + c
  BY <1>4
<1> QED
  BY <1>1, <1>2, <1>5 DEF a, b, c, d

(* What a trade puts in the active bin is worth what it takes, at least.   *)
LEMMA TradeWorth ==
  ASSUME TypeOK, BinsPriced, NEW p \in Posts, NEW is_buy \in BOOLEAN,
         NEW tokens, NEW sol, TradedInBin(p, is_buy, tokens, sol)
  PROVE  LET price == bin[<<p, market[p].active_bin_id>>].price_lamports_per_token
         IN  tokens * price + sol * TOKEN_UNIT >= 0
<1> DEFINE b == <<p, market[p].active_bin_id>>
           price == bin[b].price_lamports_per_token
<1>1. b \in bins /\ tokens \in Int /\ sol \in Int
  BY DEF TradedInBin, MovesTogether
<1>2. price \in Nat \ {0}
  <2>1. bin[b] \in Bin /\ price > 0
    BY <1>1, BinKey DEF BinsPriced
  <2> QED
    BY <2>1, U64Assumption DEF Bin, U64
<1>3. CASE is_buy
  <2>1. PICK amount \in Nat : sol = amount - FeeBreakdown(amount).total
    BY <1>3 DEF TradedInBin
  <2>2. sol \in Nat
    BY <2>1, FeesType DEF IsFees
  <2> DEFINE q == quote_dlmm_buy(sol, price)
  <2>3. -tokens = q
    BY <1>3 DEF TradedInBin
  <2>4. q * price <= sol * TOKEN_UNIT
    BY <1>2, <2>2, BinQuotesKeepValue
  <2> HIDE DEF q, b, price
  <2>5. tokens * price = -(q * price) /\ q * price \in Int
    BY <1>1, <1>2, <2>3, SMTT(30)
  <2>6. sol * TOKEN_UNIT \in Int
    BY <2>2, TokenUnitAssumption, SMTT(30)
  <2>7. tokens * price + sol * TOKEN_UNIT >= 0
    BY <2>4, <2>5, <2>6
  <2> QED
    BY <2>7 DEF b, price
<1>4. CASE ~is_buy
  <2>1. tokens \in Nat
    BY <1>4 DEF TradedInBin
  <2> DEFINE q == quote_dlmm_sell(tokens, price)
  <2>2. -sol = q
    BY <1>4 DEF TradedInBin
  <2>3. q * TOKEN_UNIT <= tokens * price
    BY <1>2, <2>1, BinQuotesKeepValue
  <2> HIDE DEF q, b, price
  <2>4. sol * TOKEN_UNIT = -(q * TOKEN_UNIT) /\ q * TOKEN_UNIT \in Int
    BY <1>1, <2>2, TokenUnitAssumption, SMTT(30)
  <2>5. tokens * price \in Int
    BY <1>2, <2>1, SMTT(30)
  <2>6. tokens * price + sol * TOKEN_UNIT >= 0
    BY <2>3, <2>4, <2>5
  <2> QED
    BY <2>6 DEF b, price
<1> QED
  BY <1>3, <1>4

(* The value of an open bin is a number.                                   *)
LEMMA BinValueIsNat ==
  ASSUME TypeOK, NEW b \in bins
  PROVE  /\ bin[b].token_liquidity \in Nat /\ bin[b].sol_liquidity \in Nat
         /\ bin[b].price_lamports_per_token \in Nat
         /\ BinValue(b) \in Nat
<1>1. bin[b] \in Bin
  BY BinKey
<1>2. /\ bin[b].token_liquidity \in Nat /\ bin[b].sol_liquidity \in Nat
      /\ bin[b].price_lamports_per_token \in Nat
  BY <1>1, U64Assumption DEF Bin, U64
<1>3. \A x, y \in Nat : x * y \in Nat
  BY SMTT(30)
<1>4. /\ bin[b].token_liquidity * bin[b].price_lamports_per_token \in Nat
      /\ bin[b].sol_liquidity * TOKEN_UNIT \in Nat
  BY <1>2, <1>3, TokenUnitAssumption
<1> QED
  BY <1>2, <1>4 DEF BinValue

(* No trade takes value out of any bin: not out of the one it trades in,   *)
(* whichever way its quote was rounded, nor out of any other.              *)
THEOREM BinValueStaysKept == Spec => BinValueKept
<1> DEFINE Kept(b) == BinValue(b)' >= BinValue(b)
<1>1. ASSUME TypeOK, AllSound, BinsPriced, [Next]_vars
      PROVE  (\E p \in Posts : TradeOf(p)) => \A b \in bins : Kept(b)
  <2> SUFFICES ASSUME NEW p \in Posts, TradeOf(p), NEW k \in bins PROVE Kept(k)
    OBVIOUS
  <2>1. BinValue(k) \in Nat /\ k \in BinKeys
    BY <1>1, BinValueIsNat, BinKey
  <2>2. ASSUME bin'[k] = bin[k] PROVE Kept(k)
    <3>1. BinValue(k)' = BinValue(k)
      BY <2>2 DEF BinValue
    <3> QED
      BY <2>1, <3>1
  <2>3. PICK is_buy \in BOOLEAN : Swapped(p, is_buy)
    BY <1>1, StepOf, TradesAre
  <2>4. CASE TradedOnCurve(p, is_buy)
    BY <2>2, <2>4 DEF TradedOnCurve, SameBins
  <2>5. ASSUME NEW tokens, NEW sol, TradedInBin(p, is_buy, tokens, sol)
        PROVE  Kept(k)
    <3> DEFINE b == <<p, market[p].active_bin_id>>
    <3>1. MovesTogether(p, b, tokens, sol)
      BY <2>5 DEF TradedInBin
    <3>2. CASE k # b
      <4>1. bin'[k] = bin[k]
        BY <2>1, <3>1, <3>2 DEF MovesTogether
      <4> QED
        BY <2>2, <4>1
    <3>3. CASE k = b
      <4> DEFINE t == bin[k].token_liquidity
                 s == bin[k].sol_liquidity
                 price == bin[k].price_lamports_per_token
      <4>1. t \in Nat /\ s \in Nat /\ price \in Nat
        BY <1>1, BinValueIsNat
      <4>2. /\ tokens \in Int /\ sol \in Int
            /\ bin'[k].price_lamports_per_token = price
            /\ bin'[k].token_liquidity = t + tokens
            /\ bin'[k].sol_liquidity = s + sol
        BY <3>1, <3>3 DEF MovesTogether
      <4>3. tokens * price + sol * TOKEN_UNIT >= 0
        BY <1>1, <2>5, <3>3, TradeWorth
      <4>4. /\ BinValue(k)' = (t + tokens) * price + (s + sol) * TOKEN_UNIT
            /\ BinValue(k) = t * price + s * TOKEN_UNIT
        BY <4>2 DEF BinValue
      <4> HIDE DEF t, s, price, Kept
      <4>5. (t + tokens) * price + (s + sol) * TOKEN_UNIT >= t * price + s * TOKEN_UNIT
        BY <4>1, <4>2, <4>3, TokenUnitAssumption, ValueMoves
      <4> QED
        BY <4>4, <4>5 DEF Kept
    <3> QED
      BY <3>2, <3>3
  <2> QED
    BY <2>3, <2>4, <2>5 DEF Swapped
<1> QED
  BY <1>1, BinsArePriced, PTL DEF Spec, BinValueKept
-----------------------------------------------------------------------------
(* A larger offer leaves at least as much when its fee is taken off.       *)
LEMMA NetOfFeeGrows ==
  ASSUME NEW m \in Nat, NEW n \in Nat, m <= n
  PROVE  m - FeeBreakdown(m).total <= n - FeeBreakdown(n).total
<1> DEFINE x == (m * TOTAL_FEE_BPS) \div BPS_DENOMINATOR
           y == (n * TOTAL_FEE_BPS) \div BPS_DENOMINATOR
<1>1. FeeBreakdown(m).total = x /\ FeeBreakdown(n).total = y
  BY DEF FeeBreakdown
<1>2. x \in Nat /\ y \in Nat
  BY DEF TOTAL_FEE_BPS, BPS_DENOMINATOR
<1>3. /\ x * 10000 <= m * 300 /\ m * 300 < x * 10000 + 10000
      /\ y * 10000 <= n * 300 /\ n * 300 < y * 10000 + 10000
  BY DEF TOTAL_FEE_BPS, BPS_DENOMINATOR
<1> HIDE DEF x, y
<1>4. m - x <= n - y
  BY <1>2, <1>3
<1> QED
  BY <1>1, <1>4

(* So no buy takes less than the least buy does.                           *)
LEMMA LeastIsLeast ==
  ASSUME NEW p \in Posts, NEW amount \in Nat, amount >= MIN_TRADE_AMOUNT,
         bin[<<p, market[p].active_bin_id>>].price_lamports_per_token \in Nat \ {0}
  PROVE  LeastBuy(p) <= quote_dlmm_buy(amount - FeeBreakdown(amount).total,
           bin[<<p, market[p].active_bin_id>>].price_lamports_per_token)
<1> DEFINE price == bin[<<p, market[p].active_bin_id>>].price_lamports_per_token
           low == MIN_TRADE_AMOUNT - FeeBreakdown(MIN_TRADE_AMOUNT).total
           net == amount - FeeBreakdown(amount).total
<1>1. MIN_TRADE_AMOUNT \in Nat
  BY LimitsAssumption, U64Assumption DEF U64
<1>2. low \in Nat /\ net \in Nat /\ low <= net
  BY <1>1, FeesType, NetOfFeeGrows DEF IsFees
<1>3. LeastBuy(p) = (low * TOKEN_UNIT) \div price
  BY DEF LeastBuy, quote_dlmm_buy
<1>4. quote_dlmm_buy(net, price) = (net * TOKEN_UNIT) \div price
  BY DEF quote_dlmm_buy
<1> HIDE DEF low, net, price
<1>5. \A x, y, z \in Nat : x <= y => x * z <= y * z /\ x * z \in Nat /\ y * z \in Nat
  BY SMTT(30)
<1>6. /\ low * TOKEN_UNIT \in Nat /\ net * TOKEN_UNIT \in Nat
      /\ low * TOKEN_UNIT <= net * TOKEN_UNIT
  BY <1>2, <1>5, TokenUnitAssumption
<1>7. price \in Nat \ {0}
  BY DEF price
<1>8. (low * TOKEN_UNIT) \div price <= (net * TOKEN_UNIT) \div price
  BY <1>6, <1>7, DivisionMonotonic
<1> QED
  BY <1>3, <1>4, <1>8 DEF net, price

(* The last few tokens of the active bin cannot be bought, and hold the    *)
(* active bin where it is until a sell empties it of SOL.                  *)
THEOREM ResidueStaysBlocked == Spec => ResidueBlocksBuys
<1> DEFINE Blocked(p) ==
             LET b == <<p, market[p].active_bin_id>>
             IN  /\ ~BuyOf(p)
                 /\ market'[p].active_bin_id # b[2]
                      => TradeOf(p) /\ bin'[b].sol_liquidity = 0
<1>1. ASSUME TypeOK, AllSound, BinsPriced, [Next]_vars
      PROVE  \A p \in Posts : Residue(p) => Blocked(p)
  <2> SUFFICES ASSUME NEW p \in Posts, Residue(p) PROVE Blocked(p)
    OBVIOUS
  <2> DEFINE id == market[p].active_bin_id
             b == <<p, id>>
             price == bin[b].price_lamports_per_token
  <2>1. /\ p \in pools /\ market[p].model = "DLMM" /\ b \in bins
        /\ bin[b].token_liquidity \in 1..LeastBuy(p) - 1
    BY DEF Residue
  <2>2. CASE Quiet(p) \/ InBinsStep(p)
    <3>1. market'[p].active_bin_id = market[p].active_bin_id
      BY <2>2 DEF Quiet, InBinsStep, OpensBin, Provides, InBins
    <3>2. ~BuyOf(p)
      BY <1>1, <2>2, TradesAre
    <3> QED
      BY <3>1, <3>2
  <2>3. CASE Created(p) \/ Migrated(p)
    BY <2>1, <2>3 DEF Created, Migrated
  <2>4. ~Swapped(p, TRUE)
    <3> SUFFICES ASSUME Swapped(p, TRUE) PROVE FALSE
      OBVIOUS
    <3>1. PICK tokens, sol : TradedInBin(p, TRUE, tokens, sol)
      BY <2>1 DEF Swapped, TradedOnCurve
    <3>2. PICK amount \in Nat : /\ amount >= MIN_TRADE_AMOUNT
                                /\ sol = amount - FeeBreakdown(amount).total
      BY <3>1 DEF TradedInBin
    <3>3. /\ -tokens = quote_dlmm_buy(sol, price) /\ tokens \in Int
          /\ bin'[b].token_liquidity = bin[b].token_liquidity + tokens
          /\ bin'[b].token_liquidity >= 0
      BY <3>1 DEF TradedInBin, MovesTogether
    <3>4. price \in Nat \ {0} /\ bin[b].token_liquidity \in Nat
      BY <1>1, <2>1, BinValueIsNat DEF BinsPriced
    <3>5. LeastBuy(p) <= -tokens
      BY <3>2, <3>3, <3>4, LeastIsLeast
    <3>6. MIN_TRADE_AMOUNT \in Nat
      BY LimitsAssumption, U64Assumption DEF U64
    <3>7. LeastBuy(p) \in Int
      <4>1. MIN_TRADE_AMOUNT - FeeBreakdown(MIN_TRADE_AMOUNT).total \in Nat
        BY <3>6, FeesType DEF IsFees
      <4> DEFINE low == MIN_TRADE_AMOUNT - FeeBreakdown(MIN_TRADE_AMOUNT).total
      <4> HIDE DEF low
      <4>2. low * TOKEN_UNIT \in Nat
        <5>1. \A x, y \in Nat : x * y \in Nat
          BY SMTT(30)
        <5> QED
          BY <4>1, <5>1, TokenUnitAssumption DEF low
      <4>3. LeastBuy(p) = (low * TOKEN_UNIT) \div price
        BY DEF LeastBuy, quote_dlmm_buy, low
      <4> HIDE DEF price
      <4> QED
        BY <3>4, <4>2, <4>3
    <3> HIDE DEF b, price
    <3> QED
      BY <2>1, <3>3, <3>4, <3>5, <3>7
  <2>5. CASE Swapped(p, FALSE)
    <3>1. PICK tokens, sol : TradedInBin(p, FALSE, tokens, sol)
      BY <2>1, <2>5 DEF Swapped, TradedOnCurve
    <3>2. TradeOf(p) /\ ~BuyOf(p)
      BY <1>1, <2>5, TradesAre
    <3> QED
      BY <3>1, <3>2 DEF TradedInBin
  <2> QED
    BY <1>1, <2>2, <2>3, <2>4, <2>5, StepOf
<1> QED
  BY <1>1, BinsArePriced, PTL DEF Spec, ResidueBlocksBuys

-----------------------------------------------------------------------------
(* What Lifecycle says of the two records of a pool on the curve.          *)
LifeOf(r, m) ==
  /\ r.tokens_sold + r.liquidity_token_reserve = r.token_supply
  /\ m.buy_trades > 0 =>
       (MigrationConditionsMet(r, m) <=> m.model = "MigrationPending")

(* Fewer tokens sold and less SOL do not meet conditions that more did not.*)
LEMMA ConditionsRecede ==
  ASSUME TypeOK, TypeOK', NEW p \in Posts,
         market'[p].sigmoid = market[p].sigmoid,
         market'[p].supply_threshold_bps = market[p].supply_threshold_bps,
         market'[p].min_sol_reserve = market[p].min_sol_reserve,
         pool'[p].tokens_sold <= pool[p].tokens_sold,
         pool'[p].liquidity_sol_reserve <= pool[p].liquidity_sol_reserve,
         MigrationConditionsMet(pool'[p], market'[p])
  PROVE  MigrationConditionsMet(pool[p], market[p])
<1> DEFINE threshold == migration_threshold_supply(market[p])
<1>1. /\ pool[p] \in Pool /\ pool'[p] \in Pool /\ market[p] \in MarketState
  BY DEF TypeOK, Typed
<1>2. /\ pool[p].tokens_sold \in Int /\ pool'[p].tokens_sold \in Int
      /\ pool[p].liquidity_sol_reserve \in Int /\ pool'[p].liquidity_sol_reserve \in Int
      /\ market[p].min_sol_reserve \in Int
  BY <1>1, U64Assumption DEF Pool, MarketState, U64
<1>3. threshold \in Int
  <2>1. /\ market[p].sigmoid.token_supply \in Nat
        /\ market[p].supply_threshold_bps \in Nat
    BY <1>1, U64Assumption DEF MarketState, SigmoidConfig, U64
  <2>2. \A x, y \in Nat : x * y \in Nat
    BY SMTT(30)
  <2> DEFINE product == market[p].sigmoid.token_supply * market[p].supply_threshold_bps
  <2>3. product \in Nat
    BY <2>1, <2>2
  <2>4. threshold = product \div 10000
    BY DEF migration_threshold_supply, BPS_DENOMINATOR
  <2> HIDE DEF product, threshold
  <2> QED
    BY <2>3, <2>4
<1>4. migration_threshold_supply(market'[p]) = threshold
  BY DEF migration_threshold_supply
<1>5. /\ pool'[p].tokens_sold >= threshold
      /\ pool'[p].liquidity_sol_reserve >= market[p].min_sol_reserve
  BY <1>4 DEF MigrationConditionsMet
<1> HIDE DEF threshold
<1>6. /\ pool[p].tokens_sold >= threshold
      /\ pool[p].liquidity_sol_reserve >= market[p].min_sol_reserve
  BY <1>2, <1>3, <1>5
<1> QED
  BY <1>6 DEF MigrationConditionsMet, threshold

(* A trade on the curve leaves its pool's records in order: a buy decides  *)
(* anew whether the conditions are met, a sell cannot have met them.       *)
LEMMA CurveTradeLives ==
  ASSUME TypeOK, TypeOK', NEW p \in Posts, LifeOf(pool[p], market[p]),
         NEW is_buy \in BOOLEAN, NEW volume, Traded(p, is_buy, volume),
         TradedOnCurve(p, is_buy)
  PROVE  LifeOf(pool'[p], market'[p])
<1>1. pool'[p].tokens_sold + pool'[p].liquidity_token_reserve = pool'[p].token_supply
  BY DEF LifeOf, TradedOnCurve
<1>2. CASE is_buy
  BY <1>1, <1>2 DEF LifeOf, TradedOnCurve
<1>3. CASE ~is_buy
  <2>1. /\ market'[p].model = "SigmoidBootstrap"
        /\ market[p].model = "SigmoidBootstrap"
        /\ market'[p].buy_trades = market[p].buy_trades
    <3>1. market[p].buy_trades \in Nat
      BY CountersType
    <3> QED
      BY <1>3, <3>1 DEF TradedOnCurve, Traded
  <2>2. MigrationConditionsMet(pool'[p], market'[p])
          => MigrationConditionsMet(pool[p], market[p])
    <3>1. /\ market'[p].sigmoid = market[p].sigmoid
          /\ market'[p].supply_threshold_bps = market[p].supply_threshold_bps
          /\ market'[p].min_sol_reserve = market[p].min_sol_reserve
          /\ pool'[p].tokens_sold <= pool[p].tokens_sold
          /\ pool'[p].liquidity_sol_reserve <= pool[p].liquidity_sol_reserve
      BY <1>3 DEF TradedOnCurve, Traded
    <3> QED
      BY <3>1, ConditionsRecede
  <2> QED
    BY <1>1, <2>1, <2>2 DEF LifeOf
<1> QED
  BY <1>2, <1>3

(* No step breaks the lifecycle of any pool.                               *)
LEMMA LifecycleKept ==
  ASSUME TypeOK, TypeOK', Lifecycle, Kinds
  PROVE  Lifecycle'
<1> DEFINE NoBins(p) == \A b \in bins : b[1] # p
<1> SUFFICES ASSUME NEW p \in Posts
             PROVE  /\ pool'[p].model = market'[p].model
                    /\ OnCurve(p)' => LifeOf(pool'[p], market'[p]) /\ NoBins(p)'
  BY DEF Lifecycle, LifeOf, OnCurve
<1>1. /\ pool[p].model = market[p].model
      /\ OnCurve(p) => LifeOf(pool[p], market[p]) /\ NoBins(p)
  BY DEF Lifecycle, LifeOf
<1>2. CASE Quiet(p)
  <2>1. LifeOf(pool[p], market[p]) => LifeOf(pool'[p], market'[p])
    BY <1>2 DEF Quiet, LifeOf, MigrationConditionsMet
  <2>2. OnCurve(p)' => OnCurve(p)
    BY <1>2 DEF Quiet, OnCurve
  <2>3. NoBins(p) => NoBins(p)'
    <3> SUFFICES ASSUME NoBins(p), NEW b \in bins', b[1] = p PROVE FALSE
      OBVIOUS
    <3>1. b = <<p, b[2]>> /\ b[2] \in BinIds
      BY DEF TypeOK, Typed, BinKeys
    <3>2. b \in bins
      BY <1>2, <3>1 DEF Quiet
    <3> QED
      BY <3>2
  <2> QED
    BY <1>1, <1>2, <2>1, <2>2, <2>3 DEF Quiet
<1>3. CASE Created(p)
  <2>1. market[p].buy_trades = 0
    BY <1>3 DEF Created, TypeOK, Unborn, BlankMarket
  <2>2. market'[p].buy_trades = 0
    BY <1>3, <2>1 DEF Created, SameTrades
  <2>3. NoBins(p)'
    BY <1>3 DEF Created, SameBins, TypeOK, Unborn
  <2>4. pool'[p].tokens_sold + pool'[p].liquidity_token_reserve = pool'[p].token_supply
    <3>1. pool'[p] \in Pool
      BY DEF TypeOK, Typed
    <3>2. pool'[p].token_supply \in Nat
      BY <3>1, U64Assumption DEF Pool, U64
    <3> QED
      BY <1>3, <3>2 DEF Created
  <2> QED
    BY <1>3, <2>2, <2>3, <2>4 DEF Created, LifeOf
<1>4. CASE Migrated(p)
  BY <1>4 DEF Migrated, OnCurve
<1>5. CASE InBinsStep(p)
  <2>1. InBins(p)
    BY <1>5 DEF InBinsStep, OpensBin, Provides
  <2> QED
    BY <1>1, <2>1 DEF InBins, OnCurve
<1>6. ASSUME NEW is_buy \in BOOLEAN, Swapped(p, is_buy)
      PROVE  /\ pool'[p].model = market'[p].model
             /\ OnCurve(p)' => LifeOf(pool'[p], market'[p]) /\ NoBins(p)'
  <2>1. PICK volume : Traded(p, is_buy, volume)
    BY <1>6 DEF Swapped
  <2>2. CASE TradedOnCurve(p, is_buy)
    <3>1. OnCurve(p)
      BY <2>1, <2>2 DEF Traded, TradedOnCurve, OnCurve
    <3>2. LifeOf(pool'[p], market'[p])
      BY <1>1, <2>1, <2>2, <3>1, CurveTradeLives
    <3>3. NoBins(p)'
      BY <1>1, <2>2, <3>1 DEF TradedOnCurve, SameBins
    <3> QED
      BY <2>2, <3>2, <3>3 DEF TradedOnCurve
  <2>3. ASSUME NEW tokens, NEW sol, TradedInBin(p, is_buy, tokens, sol)
        PROVE  pool'[p].model = market'[p].model /\ ~OnCurve(p)'
    BY <1>1, <2>3 DEF TradedInBin, OnCurve
  <2> QED
    BY <1>6, <2>2, <2>3 DEF Swapped
<1> QED
  BY <1>2, <1>3, <1>4, <1>5, <1>6 DEF Kinds, StepKind

(* The two records of the phase agree, the curve loses no token, and a     *)
(* pool awaits migration only while its conditions hold: whoever calls     *)
(* what, the curator is never left with a pool that cannot be migrated.    *)
THEOREM LifecycleHolds == Spec => []Lifecycle
<1>1. Init => Lifecycle
  BY DEF Init, Lifecycle, OnCurve, BlankPool, BlankMarket
<1>2. TypeOK /\ AllSound /\ Lifecycle /\ [Next]_vars => (TypeOK /\ AllSound /\ Lifecycle)'
  BY NextKinds, LifecycleKept
<1> QED
  BY <1>1, <1>2, InitSound, PTL DEF Spec

-----------------------------------------------------------------------------
(* The bins of a pool, and their liquidity bin by bin.                     *)
Own(bs, p) == {b \in bs : b[1] = p}
TokensOf(bs, bn, p) == [b \in Own(bs, p) |-> bn[b].token_liquidity]
SolOf(bs, bn, p) == [b \in Own(bs, p) |-> bn[b].sol_liquidity]

(* What BinsBacked says of one pool.                                       *)
Backed(bs, bn, m, r, p) ==
  /\ SumFunction(TokensOf(bs, bn, p)) = m.allocated_token_liquidity
  /\ SumFunction(SolOf(bs, bn, p)) = m.allocated_sol_liquidity
  /\ m.allocated_token_liquidity <= r.liquidity_token_reserve
  /\ m.allocated_sol_liquidity <= r.liquidity_sol_reserve

(* BinsBacked says Backed of every pool.                                   *)
LEMMA BackedIs ==
  BinsBacked <=> \A p \in Posts : Backed(bins, bin, market[p], pool[p], p)
BY DEF BinsBacked, Backed, TokensOf, SolOf, Own

(* A pool has finitely many bins: their ids are those of an interval.      *)
LEMMA OwnFinite ==
  ASSUME NEW bs \in SUBSET BinKeys, NEW bn \in [BinKeys -> Bin], NEW p \in Posts
  PROVE  /\ IsFiniteSet(Own(bs, p))
         /\ TokensOf(bs, bn, p) \in [Own(bs, p) -> Nat]
         /\ SolOf(bs, bn, p) \in [Own(bs, p) -> Nat]
<1>1. IsFiniteSet({p} \X BinIds)
  BY BinIdsAssumption, FS_Singleton, FS_Interval, FS_Product DEF BinIds
<1>2. Own(bs, p) \subseteq {p} \X BinIds
  BY DEF Own, BinKeys
<1>3. ASSUME NEW b \in Own(bs, p)
      PROVE  bn[b].token_liquidity \in Nat /\ bn[b].sol_liquidity \in Nat
  <2>1. bn[b] \in Bin
    BY DEF Own
  <2> QED
    BY <2>1, U64Assumption DEF Bin, U64
<1> QED
  BY <1>1, <1>2, <1>3, FS_Subset DEF TokensOf, SolOf

(* The bins, the allocation and the reserves move together.                *)
LEMMA BackedMoves ==
  ASSUME TypeOK, TypeOK', NEW p \in Posts, NEW b \in BinKeys, b[1] = p,
         NEW tokens \in Int, NEW sol \in Int,
         Backed(bins, bin, market[p], pool[p], p),
         MovesTogether(p, b, tokens, sol)
  PROVE  Backed(bins', bin', market'[p], pool'[p], p)
<1> DEFINE S == Own(bins, p)
           f == TokensOf(bins, bin, p)
           g == TokensOf(bins', bin', p)
           h == SolOf(bins, bin, p)
           k == SolOf(bins', bin', p)
<1>1. /\ bins \in SUBSET BinKeys /\ bin \in [BinKeys -> Bin]
      /\ bins' \in SUBSET BinKeys /\ bin' \in [BinKeys -> Bin]
  BY DEF TypeOK, Typed
<1>2. b \in S /\ Own(bins', p) = S /\ S \cup {b} = S
  BY DEF MovesTogether, Own
<1>3. IsFiniteSet(S) /\ f \in [S -> Nat] /\ g \in [S -> Nat] /\ h \in [S -> Nat] /\ k \in [S -> Nat]
  BY <1>1, <1>2, OwnFinite
<1>4. /\ \A y \in S \ {b} : g[y] = f[y] /\ k[y] = h[y]
      /\ f[b] = bin[b].token_liquidity /\ g[b] = bin'[b].token_liquidity
      /\ h[b] = bin[b].sol_liquidity /\ k[b] = bin'[b].sol_liquidity
  BY <1>1, <1>2 DEF TokensOf, SolOf, MovesTogether, Own
<1>5. g[b] = f[b] + tokens /\ k[b] = h[b] + sol
  BY <1>4 DEF MovesTogether
<1> HIDE DEF S, f, g, h, k
<1>6. SumFunction(g) + f[b] = SumFunction(f) + g[b]
  BY <1>2, <1>3, <1>4, SumChanges
<1>7. SumFunction(k) + h[b] = SumFunction(h) + k[b]
  BY <1>2, <1>3, <1>4, SumChanges
<1>8. /\ SumFunction(f) \in Nat /\ SumFunction(g) \in Nat
      /\ SumFunction(h) \in Nat /\ SumFunction(k) \in Nat
  BY <1>3, SumIsNat
<1>9. f[b] \in Nat /\ h[b] \in Nat
  BY <1>2, <1>3
<1>10. SumFunction(g) = SumFunction(f) + tokens /\ SumFunction(k) = SumFunction(h) + sol
  BY <1>5, <1>6, <1>7, <1>8, <1>9
<1>11. /\ pool[p].liquidity_token_reserve \in Nat /\ pool[p].liquidity_sol_reserve \in Nat
       /\ market[p].allocated_token_liquidity \in Nat
       /\ market[p].allocated_sol_liquidity \in Nat
  BY CountersType
<1> QED
  BY <1>10, <1>11 DEF Backed, MovesTogether, f, g, h, k

(* A new bin is allocated what it is opened with.                          *)
LEMMA BackedOpens ==
  ASSUME TypeOK, TypeOK', NEW p \in Posts, NEW id, NEW tokens, NEW sol,
         Backed(bins, bin, market[p], pool[p], p),
         OpensBin(p, id, tokens, sol)
  PROVE  Backed(bins', bin', market'[p], pool'[p], p)
<1> DEFINE b == <<p, id>>
           S == Own(bins, p)
           R == Own(bins', p)
           f == TokensOf(bins, bin, p)
           g == TokensOf(bins', bin', p)
           h == SolOf(bins, bin, p)
           k == SolOf(bins', bin', p)
<1>1. /\ bins \in SUBSET BinKeys /\ bin \in [BinKeys -> Bin]
      /\ bins' \in SUBSET BinKeys /\ bin' \in [BinKeys -> Bin]
  BY DEF TypeOK, Typed
<1>2. /\ b \in BinKeys /\ b \notin S /\ R = S \cup {b} /\ bins' = bins \cup {b}
      /\ tokens \in Nat /\ sol \in Nat
  BY DEF OpensBin, Own, BinKeys
<1>3. /\ IsFiniteSet(S) /\ f \in [S -> Nat] /\ h \in [S -> Nat]
      /\ g \in [R -> Nat] /\ k \in [R -> Nat]
  BY <1>1, OwnFinite
<1>4. /\ \A y \in S \ {b} : g[y] = f[y] /\ k[y] = h[y]
      /\ g[b] = tokens /\ k[b] = sol
  BY <1>1, <1>2 DEF TokensOf, SolOf, OpensBin, Own
<1> HIDE DEF b, S, R, f, g, h, k
<1>5. SumFunction(g) + 0 = SumFunction(f) + tokens
  BY <1>2, <1>3, <1>4, SumChanges
<1>6. SumFunction(k) + 0 = SumFunction(h) + sol
  BY <1>2, <1>3, <1>4, SumChanges
<1>7. IsFiniteSet(R)
  BY <1>2, <1>3, FS_AddElement
<1>8. SumFunction(g) \in Nat /\ SumFunction(k) \in Nat
  BY <1>3, <1>7, SumIsNat
<1>9. SumFunction(g) = SumFunction(f) + tokens /\ SumFunction(k) = SumFunction(h) + sol
  BY <1>5, <1>6, <1>8
<1> QED
  BY <1>9 DEF Backed, OpensBin, f, g, h, k

(* No step takes the liquidity of a pool's bins away from what its market  *)
(* has allocated, nor that from its reserves.                              *)
LEMMA BackedKept ==
  ASSUME TypeOK, AllSound, Lifecycle, BinsBacked, TypeOK', [Next]_vars
  PROVE  BinsBacked'
<1> SUFFICES ASSUME NEW p \in Posts
             PROVE  Backed(bins', bin', market'[p], pool'[p], p)
  BY DEF BinsBacked, Backed, TokensOf, SolOf, Own
<1>1. Backed(bins, bin, market[p], pool[p], p)
  BY BackedIs
<1>2. /\ bins \in SUBSET BinKeys /\ bin \in [BinKeys -> Bin]
      /\ bins' \in SUBSET BinKeys
  BY DEF TypeOK, Typed
<1>3. ASSUME SameBins, \A b \in bins : b[1] # p,
             market'[p].allocated_token_liquidity = 0,
             market'[p].allocated_sol_liquidity = 0
      PROVE  Backed(bins', bin', market'[p], pool'[p], p)
  <2>1. Own(bins', p) = {}
    BY <1>3 DEF Own, SameBins
  <2>2. /\ TokensOf(bins', bin', p) \in [{} -> Nat] /\ SolOf(bins', bin', p) \in [{} -> Nat]
    BY <2>1 DEF TokensOf, SolOf
  <2>3. SumFunction(TokensOf(bins', bin', p)) = 0 /\ SumFunction(SolOf(bins', bin', p)) = 0
    BY <2>2, SumIsNat, FS_EmptySet
  <2>4. pool'[p] \in Pool
    BY DEF TypeOK, Typed
  <2>5. pool'[p].liquidity_token_reserve \in Nat /\ pool'[p].liquidity_sol_reserve \in Nat
    BY <2>4, U64Assumption DEF Pool, U64
  <2> QED
    BY <1>3, <2>3, <2>5 DEF Backed
<1>4. CASE Quiet(p)
  <2>1. Own(bins', p) = Own(bins, p)
    <3>1. \A b \in BinKeys : b[1] = p => b = <<p, b[2]>> /\ b[2] \in BinIds
      BY DEF BinKeys
    <3> QED
      BY <1>2, <1>4, <3>1 DEF Own, Quiet
  <2>2. \A b \in Own(bins, p) : bin'[b] = bin[b]
    <3>1. \A b \in Own(bins, p) : b = <<p, b[2]>> /\ b[2] \in BinIds
      BY <1>2 DEF Own, BinKeys
    <3> QED
      BY <1>4, <3>1 DEF Quiet
  <2>3. /\ TokensOf(bins', bin', p) = TokensOf(bins, bin, p)
        /\ SolOf(bins', bin', p) = SolOf(bins, bin, p)
    BY <2>1, <2>2 DEF TokensOf, SolOf
  <2> QED
    BY <1>1, <1>4, <2>3 DEF Backed, Quiet
<1>5. CASE Created(p)
  <2>1. \A b \in bins : b[1] # p
    BY <1>5 DEF Created, TypeOK, Unborn
  <2> QED
    BY <1>3, <1>5, <2>1 DEF Created
<1>6. CASE Migrated(p)
  BY <1>1, <1>6 DEF Migrated, SameBins, SameAllocated, Backed
<1>7. CASE InBinsStep(p)
  <2>1. ASSUME NEW b, NEW tokens, NEW sol, Provides(p, b, tokens, sol)
        PROVE  Backed(bins', bin', market'[p], pool'[p], p)
    <3>1. /\ b \in BinKeys /\ b[1] = p /\ tokens \in Int /\ sol \in Int
          /\ MovesTogether(p, b, tokens, sol)
      BY <1>2, <2>1 DEF Provides, MovesTogether
    <3> QED
      BY <1>1, <3>1, BackedMoves
  <2>2. ASSUME NEW id, NEW tokens, NEW sol, OpensBin(p, id, tokens, sol)
        PROVE  Backed(bins', bin', market'[p], pool'[p], p)
    BY <1>1, <2>2, BackedOpens
  <2> QED
    BY <1>7, <2>1, <2>2 DEF InBinsStep
<1>8. ASSUME NEW is_buy \in BOOLEAN, Swapped(p, is_buy)
      PROVE  Backed(bins', bin', market'[p], pool'[p], p)
  <2>1. CASE TradedOnCurve(p, is_buy)
    <3>1. p \in pools /\ SameBins /\ SameAllocated(p) /\ market[p].model # "DLMM"
      BY <1>8, <2>1 DEF Swapped, Traded, TradedOnCurve
    <3>2. \A b \in bins : b[1] # p
      BY <3>1 DEF Lifecycle, OnCurve
    <3>3. Own(bins, p) = {}
      BY <3>2 DEF Own
    <3>4. /\ TokensOf(bins, bin, p) \in [{} -> Nat] /\ SolOf(bins, bin, p) \in [{} -> Nat]
      BY <3>3 DEF TokensOf, SolOf
    <3>5. SumFunction(TokensOf(bins, bin, p)) = 0 /\ SumFunction(SolOf(bins, bin, p)) = 0
      BY <3>4, SumIsNat, FS_EmptySet
    <3>6. market[p].allocated_token_liquidity = 0 /\ market[p].allocated_sol_liquidity = 0
      BY <1>1, <3>5 DEF Backed
    <3> QED
      BY <1>3, <3>1, <3>2, <3>6 DEF SameAllocated
  <2>2. ASSUME NEW tokens, NEW sol, TradedInBin(p, is_buy, tokens, sol)
        PROVE  Backed(bins', bin', market'[p], pool'[p], p)
    <3> DEFINE b == <<p, market[p].active_bin_id>>
    <3>1. MovesTogether(p, b, tokens, sol)
      BY <2>2 DEF TradedInBin
    <3>2. b \in BinKeys /\ b[1] = p /\ tokens \in Int /\ sol \in Int
      BY <1>2, <3>1 DEF MovesTogether
    <3> HIDE DEF b
    <3> QED
      BY <1>1, <3>1, <3>2, BackedMoves
  <2> QED
    BY <1>8, <2>1, <2>2 DEF Swapped
<1> QED
  BY <1>4, <1>5, <1>6, <1>7, <1>8, StepOf

(* The liquidity of a pool's bins adds up to what its market has           *)
(* allocated, which its reserves cover: bins are opened, filled, emptied   *)
(* and traded in by different handlers, and none forgets one of the three. *)
THEOREM BinsStayBacked == Spec => []BinsBacked
<1>1. Init => BinsBacked
  <2> SUFFICES ASSUME Init, NEW p \in Posts
               PROVE  Backed(bins, bin, market[p], pool[p], p)
    BY BackedIs
  <2>1. /\ bins = {} /\ pool[p] = BlankPool /\ market[p] = BlankMarket
    BY DEF Init
  <2>2. TokensOf(bins, bin, p) \in [{} -> Nat] /\ SolOf(bins, bin, p) \in [{} -> Nat]
    BY <2>1 DEF TokensOf, SolOf, Own
  <2>3. SumFunction(TokensOf(bins, bin, p)) = 0 /\ SumFunction(SolOf(bins, bin, p)) = 0
    BY <2>2, SumIsNat, FS_EmptySet
  <2> QED
    BY <2>1, <2>3 DEF Backed, BlankPool, BlankMarket
<1>2. TypeOK /\ AllSound /\ Lifecycle /\ BinsBacked /\ [Next]_vars
        => (TypeOK /\ AllSound /\ BinsBacked)'
  BY NextSound, BackedKept
<1> QED
  BY <1>1, <1>2, InitSound, LifecycleHolds, PTL DEF Spec

-----------------------------------------------------------------------------
(* The volume and the fees of the pools, pool by pool.                     *)
VolumesOf(ps, r) == [q \in ps |-> r[q].total_volume]
FeesOf(ps, r) == [q \in ps |-> r[q].total_fees]

(* What TotalsAddUp says of the three counts of the protocol.              *)
Summed(ps, r, c) ==
  c = <<Cardinality(ps), SumFunction(VolumesOf(ps, r)), SumFunction(FeesOf(ps, r))>>

(* It is inductive with the finite number of pools, and with what makes a  *)
(* first initialize begin at zero: there is no pool before it.             *)
Counted ==
  /\ IsFiniteSet(pools)
  /\ ~initialized => pools = {}
  /\ Summed(pools, pool, Counts)

(* The strengthened count says that the totals add up.                     *)
LEMMA CountedAddsUp == Counted => TotalsAddUp
BY DEF Counted, Summed, Counts, TotalsAddUp, VolumesOf, FeesOf

(* The totals over a finite set of pools are numbers, zero over none.      *)
LEMMA TotalsTyped ==
  ASSUME NEW ps \in SUBSET Posts, NEW r \in [Posts -> Pool], IsFiniteSet(ps)
  PROVE  /\ VolumesOf(ps, r) \in [ps -> Nat] /\ FeesOf(ps, r) \in [ps -> Nat]
         /\ SumFunction(VolumesOf(ps, r)) \in Nat /\ SumFunction(FeesOf(ps, r)) \in Nat
         /\ ps = {} => SumFunction(VolumesOf(ps, r)) = 0 /\ SumFunction(FeesOf(ps, r)) = 0
<1>1. \A q \in ps : r[q].total_volume \in Nat /\ r[q].total_fees \in Nat
  BY U64Assumption DEF Pool, U64
<1>2. VolumesOf(ps, r) \in [ps -> Nat] /\ FeesOf(ps, r) \in [ps -> Nat]
  BY <1>1 DEF VolumesOf, FeesOf
<1> QED
  BY <1>2, SumIsNat

(* The config account is created once and stays.                           *)
LEMMA InitializedStays ==
  ASSUME TypeOK, [Next]_vars
  PROVE  initialized => initialized'
<1>1. CASE AdminStep
  <2>1. ASSUME NEW w, NEW t, NEW params, Initialize(w, t, params) PROVE initialized'
    BY <2>1 DEF Initialize
  <2>2. ASSUME NEW w, NEW u, UpdateConfig(w, u) PROVE initialized' = initialized
    BY <2>2 DEF UpdateConfig
  <2>3. ASSUME NEW w, NEW p, NEW s, SetPoolStatus(w, p, s) PROVE initialized' = initialized
    BY <2>3 DEF SetPoolStatus, registry
  <2>4. ASSUME NEW w, NEW p, NEW c, SetCreator(w, p, c) PROVE initialized' = initialized
    BY <2>4 DEF SetCreator, registry
  <2> QED
    BY <1>1, <2>1, <2>2, <2>3, <2>4 DEF AdminStep
<1>2. CASE SetupStep \/ TradeStep \/ LiquidityStep \/ ClaimStep \/ WorldStep
  BY <1>2, BandKept DEF SameBand
<1>3. CASE UNCHANGED vars
  BY <1>3 DEF vars, registry
<1> QED
  BY <1>1, <1>2, <1>3 DEF Next

(* One pool's volume and fees grow, and the protocol's by as much.         *)
LEMMA CountedGrows ==
  ASSUME TypeOK, TypeOK', Counted, NEW p \in pools, OnlyOf(p), pools' = pools,
         NEW volume \in Nat, NEW fees \in Nat,
         pool'[p].total_volume = pool[p].total_volume + volume,
         pool'[p].total_fees = pool[p].total_fees + fees,
         config'.total_pools = config.total_pools,
         config'.total_volume = config.total_volume + volume,
         config'.total_fees_collected = config.total_fees_collected + fees
  PROVE  Summed(pools', pool', Counts')
<1> DEFINE f == VolumesOf(pools, pool)
           g == VolumesOf(pools, pool')
           h == FeesOf(pools, pool)
           k == FeesOf(pools, pool')
<1>1. /\ pools \in SUBSET Posts /\ pool \in [Posts -> Pool] /\ pool' \in [Posts -> Pool]
      /\ IsFiniteSet(pools)
  BY DEF TypeOK, Typed, Counted
<1>2. /\ f \in [pools -> Nat] /\ g \in [pools -> Nat]
      /\ h \in [pools -> Nat] /\ k \in [pools -> Nat]
      /\ SumFunction(f) \in Nat /\ SumFunction(g) \in Nat
      /\ SumFunction(h) \in Nat /\ SumFunction(k) \in Nat
  BY <1>1, TotalsTyped
<1>3. /\ \A q \in pools \ {p} : g[q] = f[q] /\ k[q] = h[q]
      /\ g[p] = f[p] + volume /\ k[p] = h[p] + fees
  BY <1>1 DEF VolumesOf, FeesOf, OnlyOf, Untouched
<1>4. pools \cup {p} = pools
  OBVIOUS
<1> HIDE DEF f, g, h, k
<1>5. SumFunction(g) + f[p] = SumFunction(f) + g[p]
  BY <1>1, <1>2, <1>3, <1>4, SumChanges
<1>6. SumFunction(k) + h[p] = SumFunction(h) + k[p]
  BY <1>1, <1>2, <1>3, <1>4, SumChanges
<1>7. f[p] \in Nat /\ h[p] \in Nat
  BY <1>2
<1>8. SumFunction(g) = SumFunction(f) + volume /\ SumFunction(k) = SumFunction(h) + fees
  BY <1>2, <1>3, <1>5, <1>6, <1>7
<1>9. Counts = <<Cardinality(pools), SumFunction(f), SumFunction(h)>>
  BY DEF Counted, Summed, f, h
<1>10. Counts' = <<Cardinality(pools), SumFunction(f) + volume, SumFunction(h) + fees>>
  BY <1>9 DEF Counts
<1> QED
  BY <1>8, <1>10 DEF Summed, g, k

(* A new pool has traded nothing.                                          *)
LEMMA CountedCreates ==
  ASSUME TypeOK, TypeOK', Counted, NEW p \in Posts, OnlyOf(p), Created(p)
  PROVE  IsFiniteSet(pools') /\ Summed(pools', pool', Counts')
<1> DEFINE f == VolumesOf(pools, pool)
           g == VolumesOf(pools', pool')
           h == FeesOf(pools, pool)
           k == FeesOf(pools', pool')
<1>1. /\ pools \in SUBSET Posts /\ pool \in [Posts -> Pool]
      /\ pools' \in SUBSET Posts /\ pool' \in [Posts -> Pool]
      /\ IsFiniteSet(pools) /\ pools' = pools \cup {p} /\ p \notin pools
  BY DEF TypeOK, Typed, Counted, Created
<1>2. /\ IsFiniteSet(pools') /\ Cardinality(pools') = Cardinality(pools) + 1
  BY <1>1, FS_AddElement
<1>3. /\ f \in [pools -> Nat] /\ g \in [pools' -> Nat]
      /\ h \in [pools -> Nat] /\ k \in [pools' -> Nat]
      /\ SumFunction(f) \in Nat /\ SumFunction(g) \in Nat
      /\ SumFunction(h) \in Nat /\ SumFunction(k) \in Nat
  BY <1>1, <1>2, TotalsTyped
<1>4. /\ \A q \in pools \ {p} : g[q] = f[q] /\ k[q] = h[q]
      /\ g[p] = 0 /\ k[p] = 0
  BY <1>1 DEF VolumesOf, FeesOf, OnlyOf, Untouched, Created
<1> HIDE DEF f, g, h, k
<1>5. SumFunction(g) + (IF p \in pools THEN f[p] ELSE 0) = SumFunction(f) + g[p]
  <2>1. /\ IsFiniteSet(pools) /\ f \in [pools -> Nat] /\ g \in [pools \cup {p} -> Nat]
        /\ \A q \in pools \ {p} : g[q] = f[q]
    BY <1>1, <1>3, <1>4
  <2> QED
    BY ONLY <2>1, SumChanges
<1>6. SumFunction(k) + (IF p \in pools THEN h[p] ELSE 0) = SumFunction(h) + k[p]
  <2>1. /\ IsFiniteSet(pools) /\ h \in [pools -> Nat] /\ k \in [pools \cup {p} -> Nat]
        /\ \A q \in pools \ {p} : k[q] = h[q]
    BY <1>1, <1>3, <1>4
  <2> QED
    BY ONLY <2>1, SumChanges
<1>7. SumFunction(g) = SumFunction(f) /\ SumFunction(k) = SumFunction(h)
  BY <1>1, <1>3, <1>4, <1>5, <1>6
<1>8. Counts = <<Cardinality(pools), SumFunction(f), SumFunction(h)>>
  BY DEF Counted, Summed, f, h
<1>9. Counts' = <<Cardinality(pools) + 1, SumFunction(f), SumFunction(h)>>
  BY <1>8 DEF Counts, Created
<1> QED
  BY <1>2, <1>7, <1>9 DEF Summed, g, k

(* No call leaves the protocol's counts behind, or ahead.                  *)
LEMMA CountedKept ==
  ASSUME TypeOK, AllSound, TypeOK', Counted, [Next]_vars
  PROVE  Counted'
<1>1. /\ pools \in SUBSET Posts /\ pools' \in SUBSET Posts
      /\ pool \in [Posts -> Pool] /\ pool' \in [Posts -> Pool]
      /\ IsFiniteSet(pools)
  BY DEF TypeOK, Typed, Counted
<1>2. ASSUME pools' = pools, \A q \in Posts : SameTotals(q)
      PROVE  VolumesOf(pools', pool') = VolumesOf(pools, pool)
             /\ FeesOf(pools', pool') = FeesOf(pools, pool)
  BY <1>1, <1>2 DEF VolumesOf, FeesOf, SameTotals
<1>3. CASE AllQuiet
  <2>1. pools' = pools /\ \A q \in Posts : SameTotals(q)
    BY <1>1, <1>3 DEF AllQuiet, Quiet
  <2>2. CASE Counts' = Counts
    BY <1>2, <2>1, <2>2, InitializedStays DEF Counted, Summed
  <2>3. CASE ~initialized /\ Counts' = <<0, 0, 0>>
    <3>1. pools' = {}
      BY <2>1, <2>3 DEF Counted
    <3>2. /\ SumFunction(VolumesOf(pools', pool')) = 0
          /\ SumFunction(FeesOf(pools', pool')) = 0
      BY <1>1, <2>1, <3>1, TotalsTyped
    <3>3. Cardinality(pools') = 0
      BY <3>1, FS_EmptySet
    <3> QED
      BY <1>1, <2>1, <2>3, <3>1, <3>2, <3>3 DEF Counted, Summed
  <2> QED
    BY <1>3, <2>2, <2>3 DEF AllQuiet, SameCounts
<1>4. ASSUME NEW p \in Posts, OnlyOf(p),
             Created(p) \/ Migrated(p) \/ InBinsStep(p) \/ Swapped(p, TRUE) \/ Swapped(p, FALSE)
      PROVE  Counted'
  <2>1. \A q \in Posts \ {p} : SameTotals(q)
    BY <1>4 DEF OnlyOf, Untouched, SameTotals
  <2>2. initialized'
    <3>1. NotPaused
      BY <1>4 DEF Created, Migrated, InBinsStep, OpensBin, Provides, InBins, Swapped, Traded
    <3> QED
      BY <3>1, InitializedStays DEF NotPaused
  <2>3. CASE Created(p)
    BY <1>4, <2>2, <2>3, CountedCreates DEF Counted
  <2>4. CASE Migrated(p) \/ InBinsStep(p)
    <3>1. pools' = pools /\ SameTotals(p) /\ Counts' = Counts
      BY <2>4 DEF Migrated, InBinsStep, OpensBin, Provides, InBins
    <3> QED
      BY <1>1, <1>2, <2>1, <2>2, <3>1 DEF Counted, Summed
  <2>5. ASSUME NEW is_buy \in BOOLEAN, Swapped(p, is_buy) PROVE Counted'
    <3>1. PICK volume : Traded(p, is_buy, volume)
      BY <2>5 DEF Swapped
    <3>2. PICK fees \in Nat :
            /\ pool'[p].total_fees = pool[p].total_fees + fees
            /\ config'.total_fees_collected = config.total_fees_collected + fees
      BY <3>1 DEF Traded
    <3>3. /\ volume \in Nat /\ p \in pools /\ pools' = pools
          /\ pool'[p].total_volume = pool[p].total_volume + volume
          /\ config'.total_pools = config.total_pools
          /\ config'.total_volume = config.total_volume + volume
      BY <3>1 DEF Traded
    <3>4. Summed(pools', pool', Counts')
      BY <1>4, <3>2, <3>3, CountedGrows
    <3> QED
      BY <1>1, <2>2, <3>3, <3>4 DEF Counted
  <2> QED
    BY <1>4, <2>3, <2>4, <2>5
<1> QED
  BY <1>3, <1>4, StepKinds

(* The protocol's totals are the sums over its pools, whatever calls were  *)
(* made on however many of them: create_pool and the swaps write them from *)
(* inside calls that are about one pool.                                   *)
THEOREM TotalsAlwaysAddUp == Spec => []TotalsAddUp
<1>1. Init => Counted
  <2> SUFFICES ASSUME Init PROVE Counted
    OBVIOUS
  <2>1. pools = {} /\ IsFiniteSet(pools) /\ Cardinality(pools) = 0
    BY FS_EmptySet DEF Init
  <2>2. TypeOK
    BY InitSound
  <2>3. SumFunction(VolumesOf(pools, pool)) = 0 /\ SumFunction(FeesOf(pools, pool)) = 0
    BY <2>1, <2>2, TotalsTyped DEF TypeOK, Typed
  <2>4. Counts = <<0, 0, 0>>
    BY DEF Init, BlankConfig, Counts
  <2> QED
    BY <2>1, <2>3, <2>4 DEF Counted, Summed
<1>2. TypeOK /\ AllSound /\ Counted /\ [Next]_vars => (TypeOK /\ AllSound /\ Counted)'
  BY NextSound, CountedKept
<1> QED
  BY <1>1, <1>2, InitSound, CountedAddsUp, PTL DEF Spec
-----------------------------------------------------------------------------
(* No curve was sold past a dip of its price within a band: what the       *)
(* buyers of a band paid is then no less than its start, at which sellers  *)
(* are paid, would have charged.                                           *)
SoldWhereRising ==
  \A p \in Posts : OnCurve(p) /\ IsCurve(market[p].sigmoid) =>
    RisesBelow(market[p].sigmoid, pool[p].tokens_sold)

(* The reserve covers what all the tokens sold are worth, band by band.    *)
(* The quote for selling all of them is not inductive by itself: it does   *)
(* not say what the tokens below the cursor are worth, nor anything while  *)
(* they lie in more bands than a quote may cross.                          *)
Covered(c, sold, reserve) == IsCurve(c) => Worth(c, 0, sold) <= reserve

ExitCovered ==
  \A p \in Posts : OnCurve(p) =>
    Covered(market[p].sigmoid, pool[p].tokens_sold, pool[p].liquidity_sol_reserve)

(* A curve that can be quoted, of a pool.                                  *)
LEMMA CurveOf ==
  ASSUME TypeOK, NEW p \in Posts
  PROVE  /\ pool[p].tokens_sold \in Nat /\ pool[p].liquidity_sol_reserve \in Nat
         /\ market[p].sigmoid \in SigmoidConfig
         /\ IsCurve(market[p].sigmoid) <=> Quotable(market[p].sigmoid)
<1>1. pool[p] \in Pool /\ market[p] \in MarketState
  BY DEF TypeOK, Typed
<1>2. /\ pool[p].tokens_sold \in Nat /\ pool[p].liquidity_sol_reserve \in Nat
      /\ market[p].sigmoid \in SigmoidConfig
  BY <1>1, U64Assumption DEF Pool, MarketState, U64
<1>3. band_size(market[p].sigmoid) \in Nat
  BY <1>2, U64Assumption DEF SigmoidConfig, U64, band_size, BPS_DENOMINATOR
<1> QED
  BY <1>2, <1>3 DEF IsCurve, Quotable

(* Worth is counted in whole lamports.                                     *)
LEMMA WorthNat ==
  ASSUME NEW c, IsCurve(c), NEW from \in Nat, NEW to \in Nat
  PROVE  /\ Worth(c, 0, to) \in Nat
         /\ from <= to => Worth(c, from, to) \in Nat
<1>1. 0 \in Nat /\ 0 <= to
  OBVIOUS
<1> QED
  BY <1>1, WorthTyped

(* A buy adds to the reserve at least what it adds to the worth.           *)
LEMMA BuyKeepsCovered ==
  ASSUME NEW c, NEW sold \in Nat, NEW reserve \in Nat, NEW amount \in Nat,
         Covered(c, sold, reserve),
         quote_sigmoid_buy(c, sold, amount).gross_sol \in Nat,
         quote_sigmoid_buy(c, sold, amount).amount_out \in Nat,
         IsCurve(c) => RisesBelow(c, sold + quote_sigmoid_buy(c, sold, amount).amount_out)
  PROVE  Covered(c, sold + quote_sigmoid_buy(c, sold, amount).amount_out,
                 reserve + quote_sigmoid_buy(c, sold, amount).gross_sol)
<1> DEFINE top == sold + quote_sigmoid_buy(c, sold, amount).amount_out
           gross_sol == quote_sigmoid_buy(c, sold, amount).gross_sol
<1> SUFFICES ASSUME IsCurve(c) PROVE Worth(c, 0, top) <= reserve + gross_sol
  BY DEF Covered
<1>1. Worth(c, 0, sold) <= reserve
  BY DEF Covered
<1>2. Worth(c, 0, top) <= Worth(c, 0, sold) + gross_sol
  BY BuyCoversWorth
<1>3. top \in Nat /\ gross_sol \in Nat
  OBVIOUS
<1> HIDE DEF top, gross_sol
<1>4. Worth(c, 0, sold) \in Nat /\ Worth(c, 0, top) \in Nat
  BY ONLY IsCurve(c), <1>3, sold \in Nat, WorthNat
<1> QED
  BY ONLY <1>1, <1>2, <1>3, <1>4, reserve \in Nat

(* A sale takes from the reserve no more than it takes from the worth.     *)
LEMMA SaleKeepsCovered ==
  ASSUME NEW c, NEW sold \in Nat, NEW reserve \in Nat, NEW amount \in Nat,
         amount <= sold, Covered(c, sold, reserve)
  PROVE  Covered(c, sold - amount,
                 reserve - quote_sigmoid_sell(c, sold, amount).gross_sol)
<1> DEFINE rest == sold - amount
           gross_sol == quote_sigmoid_sell(c, sold, amount).gross_sol
<1> SUFFICES ASSUME IsCurve(c) PROVE Worth(c, 0, rest) <= reserve - gross_sol
  BY DEF Covered
<1>1. Worth(c, 0, sold) <= reserve
  BY DEF Covered
<1>2. rest \in Nat /\ rest <= sold
  OBVIOUS
<1>3. gross_sol = Worth(c, rest, sold) \/ gross_sol = 0
  BY SellQuoteIs
<1> HIDE DEF rest, gross_sol
<1>4. Worth(c, rest, sold) + Worth(c, 0, rest) <= Worth(c, 0, sold)
  BY <1>2, WorthSplits
<1>5. /\ Worth(c, rest, sold) \in Nat /\ Worth(c, 0, rest) \in Nat
      /\ Worth(c, 0, sold) \in Nat
  BY ONLY IsCurve(c), <1>2, sold \in Nat, WorthNat
<1> QED
  BY ONLY <1>1, <1>3, <1>4, <1>5, reserve \in Nat

(* No step uncovers a curve, as long as it leaves it where prices rise.    *)
LEMMA CoveredKept ==
  ASSUME TypeOK, TypeOK', SoldWhereRising', ExitCovered, Kinds
  PROVE  ExitCovered'
<1> SUFFICES ASSUME NEW p \in Posts, OnCurve(p)'
             PROVE  Covered(market'[p].sigmoid, pool'[p].tokens_sold,
                            pool'[p].liquidity_sol_reserve)
  BY DEF ExitCovered
<1>1. OnCurve(p) => Covered(market[p].sigmoid, pool[p].tokens_sold,
                            pool[p].liquidity_sol_reserve)
  BY DEF ExitCovered
<1>2. CASE Quiet(p)
  BY <1>1, <1>2 DEF Quiet, OnCurve
<1>3. CASE Created(p)
  <2>1. pool'[p].tokens_sold = 0 /\ pool'[p].liquidity_sol_reserve \in Nat
    <3>1. pool'[p] \in Pool
      BY DEF TypeOK, Typed
    <3> QED
      BY <1>3, <3>1, U64Assumption DEF Created, Pool, U64
  <2>2. IsCurve(market'[p].sigmoid) => Worth(market'[p].sigmoid, 0, 0) = 0
    BY WorthOfNothing
  <2> QED
    BY <2>1, <2>2 DEF Covered
<1>4. CASE Migrated(p)
  BY <1>4 DEF Migrated, OnCurve
<1>5. CASE InBinsStep(p)
  BY <1>5 DEF InBinsStep, OpensBin, Provides, InBins, OnCurve
<1>6. ASSUME NEW is_buy \in BOOLEAN, Swapped(p, is_buy)
      PROVE  Covered(market'[p].sigmoid, pool'[p].tokens_sold,
                     pool'[p].liquidity_sol_reserve)
  <2> DEFINE c == market[p].sigmoid
             sold == pool[p].tokens_sold
             reserve == pool[p].liquidity_sol_reserve
  <2>1. p \in pools /\ market'[p].sigmoid = c
    BY <1>6 DEF Swapped, Traded
  <2>2. TradedOnCurve(p, is_buy)
    BY <1>6 DEF Swapped, TradedInBin, OnCurve
  <2>3. OnCurve(p) /\ MovedAsQuoted(p, is_buy)
    BY <2>1, <2>2 DEF TradedOnCurve, OnCurve
  <2>4. IsCurve(c) => RisesBelow(c, pool'[p].tokens_sold)
    BY <2>1 DEF SoldWhereRising
  <2>5. sold \in Nat /\ reserve \in Nat /\ Covered(c, sold, reserve)
    BY <1>1, <2>3, CurveOf
  <2>6. PICK amount \in Nat :
          IF is_buy
          THEN LET quote == quote_sigmoid_buy(c, sold, amount)
               IN  /\ quote.amount_out \in Nat /\ quote.gross_sol \in Nat
                   /\ pool'[p].tokens_sold = sold + quote.amount_out
                   /\ pool'[p].liquidity_sol_reserve = reserve + quote.gross_sol
          ELSE LET gross_sol == quote_sigmoid_sell(c, sold, amount).gross_sol
               IN  /\ amount <= sold /\ gross_sol \in Nat
                   /\ pool'[p].tokens_sold = sold - amount
                   /\ pool'[p].liquidity_sol_reserve = reserve - gross_sol
    BY <2>3 DEF MovedAsQuoted
  <2> HIDE DEF c, sold, reserve
  <2>7. CASE is_buy
    BY <2>1, <2>4, <2>5, <2>6, <2>7, BuyKeepsCovered
  <2>8. CASE ~is_buy
    BY <2>1, <2>5, <2>6, <2>8, SaleKeepsCovered
  <2> QED
    BY <2>7, <2>8
<1> QED
  BY <1>2, <1>3, <1>4, <1>5, <1>6 DEF Kinds, StepKind

(* The quote for selling all tokens sold is what they are worth, or fails. *)
LEMMA ExitQuote ==
  ASSUME TypeOK, NEW p \in Posts
  PROVE  LET c == market[p].sigmoid
             sold == pool[p].tokens_sold
             gross_sol == quote_sigmoid_sell(c, sold, sold).gross_sol
         IN  /\ gross_sol \in Nat
             /\ gross_sol = 0 \/ (IsCurve(c) /\ gross_sol = Worth(c, 0, sold))
<1> DEFINE c == market[p].sigmoid
           sold == pool[p].tokens_sold
           gross_sol == quote_sigmoid_sell(c, sold, sold).gross_sol
<1>1. sold \in Nat /\ (IsCurve(c) <=> Quotable(c)) /\ c \in SigmoidConfig
  BY CurveOf
<1> HIDE DEF c, sold
<1>2. CASE IsCurve(c)
  <2>1. sold - sold = 0 /\ sold <= sold
    BY <1>1
  <2>2. gross_sol = Worth(c, 0, sold) \/ gross_sol = 0
    BY <1>1, <1>2, <2>1, SellQuoteIs
  <2>3. Worth(c, 0, sold) \in Nat
    BY <1>1, <1>2, WorthNat
  <2> QED
    BY <1>2, <2>2, <2>3 DEF gross_sol, c, sold
<1>3. CASE ~IsCurve(c)
  <2>1. band_size(c) \in Nat
    BY <1>1, U64Assumption DEF SigmoidConfig, U64, band_size, BPS_DENOMINATOR
  <2>2. ~ValidSigmoid(c) \/ band_size(c) = 0
    BY <1>1, <1>3, <2>1 DEF Quotable
  <2>3. gross_sol = 0
    BY <2>2 DEF quote_sigmoid_sell, NoQuote
  <2> QED
    BY <2>3 DEF gross_sol, c, sold
<1> QED
  BY <1>2, <1>3

(* A reserve that covers the worth of all tokens covers their quote.       *)
LEMMA CoveredExit == ASSUME TypeOK, ExitCovered PROVE FullExitBacked
<1> SUFFICES ASSUME NEW p \in Posts, OnCurve(p)
             PROVE  quote_sigmoid_sell(market[p].sigmoid, pool[p].tokens_sold,
                                       pool[p].tokens_sold).gross_sol
                      <= pool[p].liquidity_sol_reserve
  BY DEF FullExitBacked
<1>1. pool[p].liquidity_sol_reserve \in Nat
  BY CurveOf
<1>2. IsCurve(market[p].sigmoid) =>
        Worth(market[p].sigmoid, 0, pool[p].tokens_sold) <= pool[p].liquidity_sol_reserve
  BY DEF ExitCovered, Covered
<1> QED
  BY <1>1, <1>2, ExitQuote

(* While no curve is sold past a dip of its price, every holder together   *)
(* can be bought out of its reserve, however buys and sells of every size  *)
(* were interleaved and rounded (sigmoid_buy_quote rounds each band's cost *)
(* up, sigmoid_sell_quote each band's worth down).                         *)
THEOREM ExitsStayBacked == Spec /\ []SoldWhereRising => []FullExitBacked
<1>1. Init => ExitCovered
  BY DEF Init, ExitCovered, OnCurve
<1>2. /\ TypeOK /\ AllSound /\ ExitCovered
      /\ SoldWhereRising' /\ [Next]_vars
      => (TypeOK /\ AllSound /\ ExitCovered)'
  BY NextKinds, CoveredKept
<1>3. TypeOK /\ ExitCovered => FullExitBacked
  BY CoveredExit
<1> QED
  BY <1>1, <1>2, <1>3, InitSound, PTL DEF Spec

(* A vault that holds the rent minimum besides what it owes stays rent     *)
(* exempt whatever part of it is paid.                                     *)
LEMMA BackedPaysAll == ASSUME TypeOK, AllSound, FullExitBacked PROVE PaymentsClear
<1> SUFFICES ASSUME NEW p \in Posts, OnCurve(p), gifts[p].sol >= RENT_EXEMPT_MINIMUM,
                    NEW creator \in {0, pool[p].unclaimed_creator_fees},
                    NEW curator \in {0, pool[p].unclaimed_curator_fees},
                    NEW growth \in {0, pool[p].unclaimed_growth_fees},
                    NEW exit \in {0, ExitPayment(p)}
             PROVE  RentExempt(solVault[p] - (creator + curator + growth + exit))
  BY DEF PaymentsClear
<1> DEFINE r == pool[p]
           g == gifts[p].sol
           gross_sol == quote_sigmoid_sell(market[p].sigmoid, r.tokens_sold,
                                           r.tokens_sold).gross_sol
<1>1. /\ r.unclaimed_creator_fees \in Nat /\ r.unclaimed_curator_fees \in Nat
      /\ r.unclaimed_growth_fees \in Nat /\ r.liquidity_sol_reserve \in Nat
      /\ g \in Nat
  <2>1. pool[p] \in Pool /\ gifts[p] \in Gifts
    BY DEF TypeOK, Typed
  <2> QED
    BY <2>1, U64Assumption DEF Pool, Gifts, U64
<1>2. solVault[p] = r.liquidity_sol_reserve + r.unclaimed_creator_fees
                      + r.unclaimed_curator_fees + r.unclaimed_growth_fees + g
  BY AllSoundIsBooks DEF SolCustody, SolOwed
<1>3. exit \in Int /\ exit <= r.liquidity_sol_reserve
  <2>1. gross_sol \in Nat /\ gross_sol <= r.liquidity_sol_reserve
    BY ExitQuote DEF FullExitBacked
  <2> HIDE DEF gross_sol
  <2>2. /\ FeeBreakdown(gross_sol).total \in Nat
        /\ FeeBreakdown(gross_sol).platform \in Nat
        /\ FeeBreakdown(gross_sol).platform <= FeeBreakdown(gross_sol).total
    BY <2>1, FeesType DEF IsFees
  <2>3. exit = 0 \/ exit = gross_sol - FeeBreakdown(gross_sol).total
                             + FeeBreakdown(gross_sol).platform
    BY DEF ExitPayment, gross_sol
  <2> HIDE DEF r
  <2> QED
    BY <1>1, <2>1, <2>2, <2>3
<1>4. /\ creator \in Int /\ creator <= r.unclaimed_creator_fees
      /\ curator \in Int /\ curator <= r.unclaimed_curator_fees
      /\ growth \in Int /\ growth <= r.unclaimed_growth_fees
  BY <1>1
<1> HIDE DEF r
<1> DEFINE left == solVault[p] - (creator + curator + growth + exit)
<1>5. left \in Int /\ left >= g
  BY <1>1, <1>2, <1>3, <1>4
<1> HIDE DEF left
<1>6. left >= RENT_EXEMPT_MINIMUM
  BY <1>1, <1>5, LimitsAssumption
<1> QED
  BY <1>6 DEF RentExempt, left

(* While no curve is sold past a dip of its price, a vault topped up by    *)
(* the rent minimum clears every debt of its pool to the last lamport.     *)
THEOREM PaymentsStayClear == Spec /\ []SoldWhereRising => []PaymentsClear
<1>1. TypeOK /\ AllSound /\ FullExitBacked => PaymentsClear
  BY BackedPaysAll
<1>2. TypeOK /\ AllSound /\ [Next]_vars => (TypeOK /\ AllSound)'
  BY NextSound
<1> QED
  BY <1>1, <1>2, InitSound, ExitsStayBacked, PTL DEF Spec

-----------------------------------------------------------------------------
(* Curves of the default shape, sold no further than their midpoint.       *)
SoldBelowMidpoint ==
  \A p \in Posts : OnCurve(p) =>
    /\ DefaultShape(market[p].sigmoid)
    /\ pool[p].tokens_sold <= market[p].sigmoid.midpoint_supply

(* They do not dip below the start of a band as far as they are sold.      *)
LEMMA BelowMidpointRises == ASSUME TypeOK, SoldBelowMidpoint PROVE SoldWhereRising
<1> SUFFICES ASSUME NEW p \in Posts, OnCurve(p), IsCurve(market[p].sigmoid)
             PROVE  RisesBelow(market[p].sigmoid, pool[p].tokens_sold)
  BY DEF SoldWhereRising
<1> DEFINE c == market[p].sigmoid
           sold == pool[p].tokens_sold
<1>1. /\ c \in SigmoidConfig /\ ValidSigmoid(c) /\ DefaultShape(c)
      /\ sold \in Nat /\ sold <= c.midpoint_supply
  BY CurveOf DEF SoldBelowMidpoint, Quotable
<1>2. c.midpoint_supply \in Nat
  BY <1>1, U64Assumption DEF SigmoidConfig, U64
<1> HIDE DEF c, sold
<1>3. RisesBelow(c, c.midpoint_supply)
  BY <1>1, RisesToMidpoint
<1>4. RisesBelow(c, sold)
  BY <1>1, <1>2, <1>3, RisesBelowLess
<1> QED
  BY <1>4 DEF c, sold

(* Curves of the shape that create_pool gives by default can always buy    *)
(* out all their holders, and a topped-up vault of theirs pays every debt, *)
(* as long as no more than the midpoint is sold (half the supply, twice    *)
(* what migrates the pool): whatever the supply, the prices and the trades.*)
THEOREM DefaultCurvesStayBacked ==
  Spec /\ []SoldBelowMidpoint => [](FullExitBacked /\ PaymentsClear)
<1>1. TypeOK /\ SoldBelowMidpoint => SoldWhereRising
  BY BelowMidpointRises
<1> QED
  BY <1>1, TypeCorrect, ExitsStayBacked, PaymentsStayClear, PTL

-----------------------------------------------------------------------------
(* The curve of a pool is valid, and its supply is the pool's: create_pool *)
(* writes the supply into two accounts, and no call changes either.        *)
CurvesValid ==
  \A p \in pools :
    /\ ValidSigmoid(market[p].sigmoid)
    /\ OnCurve(p) => pool[p].token_supply = market[p].sigmoid.token_supply

(* Every kind of step keeps both.                                          *)
LEMMA CurvesValidKept ==
  ASSUME TypeOK, TypeOK', CurvesValid, Kinds
  PROVE  CurvesValid'
<1> SUFFICES ASSUME NEW p \in pools'
             PROVE  /\ ValidSigmoid(market'[p].sigmoid)
                    /\ OnCurve(p)' => pool'[p].token_supply = market'[p].sigmoid.token_supply
  BY DEF CurvesValid
<1>1. p \in Posts
  BY DEF TypeOK, Typed
<1>2. p \in pools => /\ ValidSigmoid(market[p].sigmoid)
                     /\ OnCurve(p) => pool[p].token_supply = market[p].sigmoid.token_supply
  BY DEF CurvesValid
<1>3. CASE Quiet(p)
  BY <1>2, <1>3 DEF Quiet, OnCurve
<1>4. CASE Created(p)
  BY <1>4 DEF Created
<1>5. CASE Migrated(p)
  BY <1>2, <1>5 DEF Migrated, OnCurve
<1>6. CASE InBinsStep(p)
  <2>1. InBins(p)
    BY <1>6 DEF InBinsStep, OpensBin, Provides
  <2> QED
    BY <1>2, <2>1 DEF InBins, OnCurve
<1>7. ASSUME NEW is_buy \in BOOLEAN, Swapped(p, is_buy)
      PROVE  /\ ValidSigmoid(market'[p].sigmoid)
             /\ OnCurve(p)' => pool'[p].token_supply = market'[p].sigmoid.token_supply
  <2>1. p \in pools /\ market'[p].sigmoid = market[p].sigmoid
    BY <1>7 DEF Swapped, Traded
  <2>2. CASE TradedOnCurve(p, is_buy)
    BY <1>2, <2>1, <2>2 DEF TradedOnCurve, OnCurve
  <2>3. CASE \E tokens, sol : TradedInBin(p, is_buy, tokens, sol)
    BY <1>2, <2>1, <2>3 DEF TradedInBin, OnCurve
  <2> QED
    BY <1>7, <2>2, <2>3 DEF Swapped
<1> QED
  BY <1>1, <1>3, <1>4, <1>5, <1>6, <1>7 DEF Kinds, StepKind

(* Every pool trades on a curve that SigmoidConfig::validate accepts, with *)
(* the supply that was minted.                                             *)
THEOREM CurvesStayValid == Spec => []CurvesValid
<1>1. Init => CurvesValid
  BY DEF Init, CurvesValid
<1>2. TypeOK /\ AllSound /\ CurvesValid /\ [Next]_vars => (TypeOK /\ AllSound /\ CurvesValid)'
  BY NextKinds, CurvesValidKept
<1> QED
  BY <1>1, <1>2, InitSound, PTL DEF Spec

(* Pools are created with the default midpoint and steepness, bands of one *)
(* percent, and supplies that a hundred divides.                           *)
OnlyDefaultShapes ==
  /\ SIGMOID_BAND_BPS = 100
  /\ Defaults.steepness_bps % BPS_DENOMINATOR = 0
  /\ \A params \in PoolParams :
       /\ params.midpoint_supply = None /\ params.steepness_bps = None
       /\ unwrap_or(params.token_supply, Defaults.token_supply) % 100 = 0

(* Those curves have fifty bands below the midpoint.                       *)
LEMMA DefaultsHaveShape ==
  ASSUME OnlyDefaultShapes, NEW params \in PoolParams, ValidSigmoid(NewSigmoid(params))
  PROVE  /\ DefaultShape(NewSigmoid(params))
         /\ 2 * NewSigmoid(params).midpoint_supply = NewSigmoid(params).token_supply
<1> DEFINE c == NewSigmoid(params)
           supply == unwrap_or(params.token_supply, Defaults.token_supply)
<1>1. /\ c.token_supply = supply /\ c.midpoint_supply = supply \div 2
      /\ c.steepness_bps = Defaults.steepness_bps /\ c.band_bps = 100
  BY DEF NewSigmoid, unwrap_or, OnlyDefaultShapes
<1>2. supply \in Nat /\ supply % 100 = 0
  BY U64Assumption, PoolParamsAssumption, DefaultsAssumption
     DEF unwrap_or, Optional, U64, OnlyDefaultShapes
<1> HIDE DEF c, supply
<1>3. PICK k \in Nat : supply = 100 * k
  <2>1. supply = 100 * (supply \div 100) /\ supply \div 100 \in Nat
    BY <1>2
  <2> QED
    BY <2>1
<1>4. c.midpoint_supply = 50 * k
  BY <1>1, <1>3
<1>5. band_size(c) = k
  BY <1>1, <1>3 DEF band_size, BPS_DENOMINATOR
<1>6. \E n, q \in 1..100 : n * q = 100 /\ c.midpoint_supply = n * band_size(c)
  <2>1. 50 \in 1..100 /\ 2 \in 1..100 /\ 50 * 2 = 100
    OBVIOUS
  <2> QED
    BY <1>4, <1>5, <2>1
<1>7. c.steepness_bps % BPS_DENOMINATOR = 0
  BY <1>1 DEF OnlyDefaultShapes
<1>8. 2 * c.midpoint_supply = c.token_supply
  BY <1>1, <1>3, <1>4
<1> QED
  BY <1>6, <1>7, <1>8 DEF DefaultShape, c

(* The curves of all pools have the default shape.                         *)
CurvesShaped ==
  \A p \in pools : /\ DefaultShape(market[p].sigmoid)
                   /\ 2 * market[p].sigmoid.midpoint_supply = market[p].sigmoid.token_supply

(* A curve never changes, and a new one has the shape.                     *)
LEMMA CurvesShapedKept ==
  ASSUME OnlyDefaultShapes, TypeOK, AllSound, CurvesShaped, [Next]_vars
  PROVE  CurvesShaped'
<1> SUFFICES ASSUME NEW p \in pools'
             PROVE  LET c == market'[p].sigmoid
                    IN  DefaultShape(c) /\ 2 * c.midpoint_supply = c.token_supply
  BY DEF CurvesShaped
<1>1. p \in Posts
  BY NextSound DEF TypeOK, Typed
<1>2. CASE Created(p)
  BY <1>2, DefaultsHaveShape DEF Created
<1>3. CASE p \in pools /\ market'[p].sigmoid = market[p].sigmoid
  BY <1>3 DEF CurvesShaped
<1>4. ASSUME Quiet(p) \/ Migrated(p) \/ InBinsStep(p) \/ Swapped(p, TRUE) \/ Swapped(p, FALSE)
      PROVE  p \in pools /\ market'[p].sigmoid = market[p].sigmoid
  BY <1>4 DEF Quiet, Migrated, InBinsStep, OpensBin, Provides, InBins, Swapped, Traded
<1> QED
  BY <1>1, <1>2, <1>3, <1>4, StepOf

(* When pools are created with the defaults, their holders can always be   *)
(* bought out and their topped-up vaults pay every debt as long as no      *)
(* curve sells more than half of its supply: whatever prices the admin     *)
(* sets, whatever is traded.                                               *)
THEOREM DefaultPoolsStayBacked ==
  ASSUME OnlyDefaultShapes
  PROVE  Spec /\ [](\A p \in Posts :
                      OnCurve(p) => 2 * pool[p].tokens_sold <= pool[p].token_supply)
           => [](FullExitBacked /\ PaymentsClear)
<1> DEFINE HalfSold == \A p \in Posts :
             OnCurve(p) => 2 * pool[p].tokens_sold <= pool[p].token_supply
<1>1. Init => CurvesShaped
  BY DEF Init, CurvesShaped
<1>2. TypeOK /\ AllSound /\ CurvesShaped /\ [Next]_vars
        => (TypeOK /\ AllSound /\ CurvesShaped)'
  BY NextSound, CurvesShapedKept
<1>3. TypeOK /\ CurvesShaped /\ CurvesValid /\ HalfSold => SoldBelowMidpoint
  <2> SUFFICES ASSUME TypeOK, CurvesShaped, CurvesValid, HalfSold,
                      NEW p \in Posts, OnCurve(p)
               PROVE  /\ DefaultShape(market[p].sigmoid)
                      /\ pool[p].tokens_sold <= market[p].sigmoid.midpoint_supply
    BY DEF SoldBelowMidpoint
  <2>1. /\ DefaultShape(market[p].sigmoid)
        /\ 2 * market[p].sigmoid.midpoint_supply = market[p].sigmoid.token_supply
        /\ 2 * pool[p].tokens_sold <= market[p].sigmoid.token_supply
    BY DEF CurvesShaped, CurvesValid, OnCurve
  <2>2. pool[p].tokens_sold \in Nat /\ market[p].sigmoid.midpoint_supply \in Nat
    BY CurveOf, U64Assumption DEF SigmoidConfig, U64
  <2> QED
    BY <2>1, <2>2
<1> QED
  BY <1>1, <1>2, <1>3, InitSound, CurvesStayValid, DefaultCurvesStayBacked, PTL DEF Spec

-----------------------------------------------------------------------------
(* A pool that awaits migration has met its conditions, and meets them     *)
(* still.                                                                  *)
PendingDue ==
  \A p \in Posts : market[p].model = "MigrationPending" =>
    /\ p \in pools
    /\ MigrationConditionsMet(pool[p], market[p])

(* Only a buy makes a pool wait, and nothing is taken from one that waits. *)
LEMMA PendingKept ==
  ASSUME TypeOK, TypeOK', PendingDue, Kinds
  PROVE  PendingDue'
<1> SUFFICES ASSUME NEW p \in Posts, market'[p].model = "MigrationPending"
             PROVE  p \in pools' /\ MigrationConditionsMet(pool'[p], market'[p])
  BY DEF PendingDue
<1>1. market[p].model = "MigrationPending" =>
        p \in pools /\ MigrationConditionsMet(pool[p], market[p])
  BY DEF PendingDue
<1>2. CASE Quiet(p)
  BY <1>1, <1>2 DEF Quiet, MigrationConditionsMet
<1>3. CASE Created(p) \/ Migrated(p)
  BY <1>3 DEF Created, Migrated
<1>4. CASE InBinsStep(p)
  BY <1>4 DEF InBinsStep, OpensBin, Provides, InBins
<1>5. CASE Swapped(p, TRUE) \/ Swapped(p, FALSE)
  <2>1. p \in pools'
    BY <1>5 DEF Swapped, Traded
  <2>2. CASE TradedOnCurve(p, TRUE)
    BY <2>1, <2>2 DEF TradedOnCurve
  <2> QED
    BY <1>5, <2>1, <2>2 DEF Swapped, TradedOnCurve, TradedInBin
<1> QED
  BY <1>2, <1>3, <1>4, <1>5 DEF Kinds, StepKind

(* A pool that awaits migration trades with nobody, and is never caught    *)
(* there: while the program is not paused its curator, as well as the      *)
(* admin, can migrate it to any bin, named by them or, if it has an id,    *)
(* the one of the price, whatever was called since it met its conditions.  *)
THEOREM PendingCanMigrate ==
  Spec => [](\A p \in Posts, w \in Wallets, id \in BinIds \cup {None}, enforce \in BOOLEAN :
               market[p].model = "MigrationPending" /\ NotPaused
                   /\ (IsAdmin(w) \/ IsCurator(w, p)) /\ StartingBin(p, id) \in BinIds
                 => MigrationAllowed(w, p, id, enforce))
<1> DEFINE Migratable ==
             \A p \in Posts, w \in Wallets, id \in BinIds \cup {None}, enforce \in BOOLEAN :
               market[p].model = "MigrationPending" /\ NotPaused
                   /\ (IsAdmin(w) \/ IsCurator(w, p)) /\ StartingBin(p, id) \in BinIds
                 => MigrationAllowed(w, p, id, enforce)
<1>1. Init => PendingDue
  BY DEF Init, PendingDue, BlankMarket
<1>2. TypeOK /\ AllSound /\ PendingDue /\ [Next]_vars => (TypeOK /\ AllSound /\ PendingDue)'
  BY NextKinds, PendingKept
<1>3. TypeOK /\ PendingDue /\ CurvesValid => Migratable
  <2> SUFFICES ASSUME TypeOK, PendingDue, CurvesValid,
                      NEW p \in Posts, NEW w \in Wallets, NEW id \in BinIds \cup {None},
                      NEW enforce \in BOOLEAN,
                      market[p].model = "MigrationPending", NotPaused,
                      IsAdmin(w) \/ IsCurator(w, p), StartingBin(p, id) \in BinIds
               PROVE  MigrationAllowed(w, p, id, enforce)
    OBVIOUS
  <2> DEFINE c == market[p].sigmoid
             price == price_at_supply(c, pool[p].tokens_sold)
  <2>1. p \in pools /\ MigrationConditionsMet(pool[p], market[p])
    BY DEF PendingDue
  <2>2. ValidSigmoid(c) /\ c \in SigmoidConfig /\ pool[p].tokens_sold \in Nat
    BY <2>1, CurveOf DEF CurvesValid
  <2>3. price \in U64
    <3>1. price \in Nat /\ price <= c.cap_price_lamports
      BY <2>2, PriceInRange
    <3>2. c.cap_price_lamports \in U64
      BY <2>2 DEF SigmoidConfig
    <3> HIDE DEF price, c
    <3> QED
      BY <3>1, <3>2, U64Assumption DEF U64
  <2> QED
    BY <2>1, <2>3 DEF MigrationAllowed, Unmigrated
<1> QED
  BY <1>1, <1>2, <1>3, InitSound, CurvesStayValid, PTL DEF Spec

-----------------------------------------------------------------------------
(* A supply of fewer base units than make a band.                          *)
Bandless(p) == OnCurve(p) /\ band_size(market[p].sigmoid) = 0

(* A pool of such a supply sells nothing on its curve and does not become  *)
(* due for migration.                                                      *)
BandlessIdle ==
  \A p \in Posts : Bandless(p) => /\ market[p].model = "SigmoidBootstrap"
                                 /\ market[p].total_trades = 0
                                 /\ pool[p].tokens_sold = 0

(* No step of any kind trades in it.                                       *)
LEMMA BandlessStaysIdle ==
  ASSUME TypeOK, AllSound, BandlessIdle, [Next]_vars
  PROVE  BandlessIdle'
<1> SUFFICES ASSUME NEW p \in Posts, Bandless(p)'
             PROVE  /\ market'[p].model = "SigmoidBootstrap"
                    /\ market'[p].total_trades = 0
                    /\ pool'[p].tokens_sold = 0
  BY DEF BandlessIdle
<1>1. Bandless(p) => /\ market[p].model = "SigmoidBootstrap"
                     /\ market[p].total_trades = 0
                     /\ pool[p].tokens_sold = 0
  BY DEF BandlessIdle
<1>2. /\ p \in pools' /\ market'[p].model # "DLMM"
      /\ band_size(market'[p].sigmoid) = 0
  BY DEF Bandless, OnCurve
<1>3. CASE Quiet(p)
  BY <1>1, <1>2, <1>3 DEF Quiet, Bandless, OnCurve
<1>4. CASE Created(p)
  BY <1>4 DEF Created, SameTrades, TypeOK, Unborn, BlankMarket
<1>5. CASE Migrated(p) \/ InBinsStep(p)
  BY <1>2, <1>5 DEF Migrated, InBinsStep, OpensBin, Provides, InBins
<1>6. CASE Swapped(p, TRUE) \/ Swapped(p, FALSE)
  <2>1. market'[p].sigmoid = market[p].sigmoid
    BY <1>6 DEF Swapped, Traded
  <2> QED
    BY <1>2, <1>6, <2>1 DEF Swapped, TradedOnCurve, TradedInBin
<1> QED
  BY <1>3, <1>4, <1>5, <1>6, StepOf

(* create_pool accepts a supply of fewer base units than 10000 divided by  *)
(* SIGMOID_BAND_BPS, but its curve is dead: nobody ever trades on it, and  *)
(* it is left only if migrate_pool is called without a buy.                *)
THEOREM TinySuppliesNeverTrade == Spec => []BandlessIdle
<1>1. Init => BandlessIdle
  BY DEF Init, BandlessIdle, Bandless, OnCurve
<1>2. TypeOK /\ AllSound /\ BandlessIdle /\ [Next]_vars
        => (TypeOK /\ AllSound /\ BandlessIdle)'
  BY NextSound, BandlessStaysIdle
<1> QED
  BY <1>1, <1>2, InitSound, PTL DEF Spec
=============================================================================
