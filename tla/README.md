# RedCircle protocol: TLA+ specification and proofs

RedCircle turns a social post into a token with its own market. The Solana
program (Rust, Anchor) under `src/programs/redcircle-protocol` keeps the money,
and a TypeScript SDK under `src/sdk` tells traders what to expect of it. This
directory specifies both, model-checks them with TLC and proves with TLAPS the
program's custody of SOL and tokens, the life of its pools, what its steps may
never do, what its quotes pay, that the SDK computes the same ones and that it
implements an abstract specification. The repository has no design document; what
the code is meant to do is taken from its comments and its tests.

## The system

| Component | State | Operations | Correct when |
| --- | --- | --- | --- |
| Config (`state/config.rs`, `instructions/initialize.rs`) | admin, treasury, pause flag, default prices, creation fee, launch protection, totals | `initialize`, `update_config` | the default price band is never inverted; pausing stops trading and liquidity; the totals are the sums over the pools |
| Pool administration (`pool_admin.rs`, `claim_fees.rs`) | a pool's status and creator | `set_pool_status`, `set_creator` | a paused pool does not trade |
| Pool setup (`create_pool.rs`, `migrate_pool.rs`) | pool and market accounts, token vault | `create_pool`, `migrate_pool` | a pool moves curve, pending, bins, never back; pool and market agree on the phase |
| Bonding curve (`math/sigmoid.rs`) | none | `price_at_supply`, `quote_sigmoid_buy`, `quote_sigmoid_sell` | a buy stays in its budget, a sell skips no band, a round trip does not pay |
| Curve trading (`swap.rs`) | reserves, tokens sold, fees, statistics | `swap` before migration | all holders together can be bought out; launch protection limits buys |
| Bins (`init_bins.rs`, `add_liquidity.rs`, `remove_liquidity.rs`, `math/dlmm.rs`, `swap.rs`) | bins, allocation, active bin | `init_bin`, `add_liquidity`, `remove_liquidity`, `swap` after migration | bins are backed by the reserves; trades take no value out; the active bin follows the trades |
| Fee claims (`claim_fees.rs`) | unclaimed fees, vault | three claims | every fee is paid once |
| SDK curve (`src/sdk/src/curve.ts`) | none | a second copy of the price and the quotes, fee-aware estimates | quotes what the program quotes, to the unit |
| SDK client (`src/sdk/src/client.ts`) | none; its user holds what was read | account reads, transaction builders | an estimate that is still true when the swap lands is what the swap delivers |

Components meet in shared accounts. One `swap` writes the pool, the market, the
config, a bin, two vaults and the treasury; a claim and a liquidity call write
some of the same. A Solana transaction is atomic and transactions that write
the same account are serialised, so the concurrency is between whole
instructions: anybody may submit any instruction at any time, in any order, and
nobody is obliged to submit anything. What is hard is

- the books: eight handlers move lamports or tokens in one statement and the
  counters that say who owns them in others, over arbitrarily long histories;
- rounding: fees, prices and quotes round at every band, in both directions;
- phases: the pool and the market both record the phase, migration is decided
  inside a buy and carried out by another call, launch protection ends by the
  clock without a call;
- three counters of liquidity (bin, market allocation, pool reserve), updated
  by five handlers;
- settings that the admin changes between two trades, and two-sided checks of
  one setting against the other;
- loops that may stop for four reasons, one of which makes the quote fail;
- a ledger that refuses whatever leaves a vault between empty and rent-exempt;
- clients that read four accounts at four moments and whose swap lands later,
  in a market that has moved.

`PROJECT.json` lists each hazard at its line with the properties that cover it.

## Modules

    FeeMath -- SigmoidCurve -- DlmmMath -- Accounts --+-- ConfigAdmin ---------+
                  |  |  |                             +-- PoolSetup -----------+
                  |  |  |                             +-- FeeClaims -----------+-- RedCircle
                  |  |  |                             +-- Trading --+          |       |
                  |  |  |                                 SigmoidMarket -------+  RedCircleProperties <~~ IdealPools
                  |  |  |                                 DlmmMarket ----------+       |
                  |  |  |                                                              +-- MCCurve, MCBins, MCAdmin
                  |  |  +-- SdkQuotes --------------------------------------------+    +-- RedCircleProofs
                  |  |          |                                                 |    |      -- StepProofs
                  |  +-- CurveWorth -- CurveQuotes                                |    |         -- PropertyProofs -- ClientProofs
                  |                        |                                      |    |         -- RefinementProofs
                  |                        +-- SdkAgreement -- MCQuotes           +-- SdkClient -- MCClient
                  |                                 +-- QuoteProofs
                  +-- QuoteWalk -- MCWalk
                          +-- WalkProofs

Each module EXTENDS the ones to its left; `SdkAgreement` and `SdkClient` extend
two each, `ClientProofs` extends `SdkClient` as well, `MCCurve` extends
`CurveWorth`, `RedCircleProperties` has an INSTANCE of `IdealPools`, and the proof
modules also extend `MathProofs`, the facts of the arithmetic.

- `FeeMath`, `SigmoidCurve`, `DlmmMath`: the program's arithmetic, every
  rounding included, as operators and one recursive function per quote loop. A
  quote that the code refuses is one that `IsQuote` rejects.
- `Accounts`: the record types, the variables, the conditions handlers share
  and `Init`. `pools`, `bins` and `initialized` say which accounts exist;
  an account that does not is blank.
- `ConfigAdmin`, `PoolSetup`, `FeeClaims`, `SigmoidMarket`, `DlmmMarket`: one
  action per instruction (`swap` has four: buy and sell, on the curve and in a
  bin). Each action is the whole instruction: the constraints of its
  `#[derive(Accounts)]` struct and its `require!`s are guards, checked
  arithmetic is a guard that the result fits (`PoolFits`, `MarketFits`,
  `BinFits`, `FeesFit`), and all its writes happen at once. An error is an
  action that is not enabled, since the ledger undoes a failed transaction.
  Where a property or a theorem is about being allowed to act, the guards are an
  operator of their own: `SigmoidBuyAllowed`, `SigmoidSellAllowed`,
  `MigrationAllowed`.
- `Trading`: what the four swaps share.
- `RedCircle`: the inputs as CONSTANTS with their assumptions, the environment
  (`Tick`, `GiftSol`, `GiftTokens`), `Next` and `Spec`.
- `IdealPools`: the abstract specification. A pool is a phase, a supply, the SOL
  behind its tokens, the fees set aside and the tokens outside; seven actions say
  how these may change together, without prices, rates, bins or statistics.
- `RedCircleProperties`: the properties, with a comment on each, and the
  refinement mapping `Ideal`.
- `CurveWorth`: what tokens are worth band by band, as a sum that does not walk,
  three ways to say that a curve does not dip, and the shape that `create_pool` gives
  a curve by default.
- `CurveQuotes`: a sweep of the quotes over the sold supply, with definitions
  of what they should be that do not walk the bands.
- `QuoteWalk`: one call of a quote as a system of its own, one pass of its loop
  per step, built from the same `BuyBand` and `SellBand` as the functions in
  `SigmoidCurve`.
- `SdkQuotes`: the TypeScript arithmetic, translated from `curve.ts` and sharing
  with the program's only the constants and plain helpers. `SdkAgreement`
  compares the two.
- `SdkClient`: the program with a client beside it. Its four `fetch` actions are
  the reads of `client.ts`; `Sign` is an estimate and the swap built from it;
  `Land` runs the program's own swap actions with the signed accounts and
  amounts; `Fail` loses the swap, for whatever reason. Everybody else is `Next`.
  `SwapAccepted` lists what a swap on the curve has to meet; `OpenTo` and `HasRoom`
  are the part of it that does not depend on what was estimated.
- `MathProofs`, `WalkProofs`, `QuoteProofs`, `RedCircleProofs`, `StepProofs`,
  `PropertyProofs`, `RefinementProofs`, `ClientProofs`: the proofs.

Some definitions carry the remark `\* mutant:`. They are deliberately wrong
variants of the definition below them, used nowhere in the specification:
putting one in the place of the right definition must make TLC report the
property it is listed with in `PROJECT.json`. They show that each property can fail.

### How state and code correspond

`config`, `pool[p]`, `market[p]`, `bin[<<p, id>>]` are the accounts of the
same names, with the fields' names; `market[p].sigmoid` is `SigmoidConfig`, and
the migration and DLMM settings are flattened into the market. `solVault[p]` and
`tokenVault[p]` are the balances of the pool's two vaults. `payouts` is history:
what has been paid to wallets from trades, claims and pool creation. `gifts`
is history as well: what outsiders sent to the vaults. `now` is the Clock sysvar.

The refinement mapping takes the abstract phase from the market's model, the
backing from `liquidity_sol_reserve`, the fees from what the vault holds beyond
the reserve and gifts, and the tokens outside from the supply and the token
vault: fees and tokens outside are read off the vaults, not off the counters, so
that the refinement is about the money and not about the books alone.

In `QuoteWalk` the variables `w.remaining`, `w.cursor`, `w.tokens`, `w.sol` are
the locals `remaining_sol` (or `remaining_tokens`), `supply_cursor`,
`tokens_out`, `sol_spent` (or `sol_out`), and `w.steps` is the loop counter.

Abstractions:

- Token holders are one aggregate, `Circulating`: tokens outside the vault. Whoever
  sells is assumed to have what is sold, up to that total. Wallets have as much
  SOL as they offer, the generous case for every property here.
- Names, symbols, URIs, bumps, reserved bytes and log messages are left out. A
  post is a model value and stands for the pool, market, mint and vault
  addresses derived from it; deriving them (PDAs) is taken to be injective, and
  account constraints that only re-derive an address hold by construction.
- u64 fields have the width `U64Max`. The u128 totals are unbounded naturals:
  2^64 trades of full size do not overflow them.
- The treasury and the recipient of growth fees are wallets that are not
  themselves pool vaults.
- A transaction that would leave a SOL vault holding something less than the
  rent-exempt minimum fails (`RentExempt`, part of every transfer). The rent of
  the wallets that are paid is left out, as is their SOL.
- The client's application is outside the repository. It is taken to do what the
  integration tests do, with any tolerance for slippage; it has one swap under
  way at a time.
- `create_pool` adds an i64 to the clock with overflow checks on
  (`src/Cargo.toml`), so an overflow is a refusal.

## Runs

| Run | Module | What it asks | Result |
| --- | --- | --- | --- |
| `MCCurve` | `MCCurve` | custody, ledger, life of a pool, full exit and buyer's bill on the bonding curve | holds, 371,408 states |
| `MCBins` | `MCBins` | types, custody, ledger, backing of bins, value of bins, active bin, unallocated reserves, stranded and blocked markets | holds, 280,562 states |
| `MCPools` | `MCBins` | two pools that share nothing but the config: isolation, totals, and with gifts from outside the refinement of `IdealPools` | holds, 99,684 states (symmetric pools) |
| `MCAdmin` | `MCAdmin` | price band, launch protection and pause while the admin changes everything | holds, 618,387 states |
| `MCQuotes` | `MCQuotes` | quotes against definitions without a walk, one call against two, and the SDK's quotes against the program's | holds, 46,560 states |
| `MCRent` | `MCCurve` | under the rent rule, a vault once topped up pays every claim and a full exit in any order | holds, 148,263 states |
| `MCWalk` | `MCWalk` | one quote pass by pass: conservation, rounding, termination, and how far a call gets | holds, 8,589 states |
| `MCClient` | `MCClient` | what a client's swap delivers against what it was quoted | holds, 26,582 states |
| `MCMonotonic` | `MCQuotes` | the price never falls as supply is sold | violated |
| `MCLateExit` | `MCCurve` | full exit with the whole supply on the curve | violated |
| `MCFee` | `MCCurve` | a buyer pays 3% of what is paid | violated |
| `MCMinTrade` | `MCCurve` | no trade moves fewer lamports than the minimum | violated |

All the passing runs of the program together take every action of `Next`. They
check no deadlock because the program may stop: at the bounds no call is enabled.

### Bounds

TLC's integers have 32 bits, so quantities are scaled: a whole token is 10 base
units (100 in `MCMinTrade`), a supply is 1000 or 20000, a u64 ends at 2*10^9 (just
above the supply in `MCWalk`, at 300000 in `MCQuotes`, so that overflows happen). The
ratios that matter are kept: basis points, the fee shares, 100 bands of 1% of
the supply, the step limit of 128, the default prices 10 and 10000 (MCCurve),
steepness and midpoint. Two bounds limit each run: `MaxTrades` per pool (3 or 4)
and `MaxTime`; `RENT_EXEMPT_MINIMUM` is 0 outside `MCRent`. In detail:

- `MCCurve`: a buy of 60000 lamports is the launch limit exactly, 250000 exceeds
  it and crosses up to 21 bands; two of these reach the migration threshold of
  5000 units; 777, 150 and 1999 end inside bands. Four trades allow buys and
  sells of every size before and between the buys that reach it. The second pool
  parameters shift the midpoint, the steepness and the threshold. The third pool
  costs so little that one large buy is offered more than the whole supply: it is
  filled in part, and sales, claims and further such buys follow. `MaxTime = 1`
  is the end of the protection window.
- `MCBins`: 200 lamports less the fee of 6 buy exactly the 97 tokens of the
  middle bin, and 97 tokens sell for the 194 lamports it holds once 97 have been
  added, so trades drain bins and move the active bin both ways; ids end at 0
  and 2, where a move out of range is refused. The upper bin holds 194 tokens,
  or 75 of which a buy leaves 11, too few for the least buy, or all that is in
  the reserves, which makes stranded markets reachable.
- `MCPools`: two bins per pool, of the same ids in both, the middle one active in
  both; one gift of each kind, before or after a pool is created.
- `MCAdmin`: two seconds of protection; floors and caps that are accepted
  together but not in the other order; a negative duration; a new admin.
- `MCQuotes`: six curves, among them one whose supply is not a multiple of the
  band, one that has more bands than the step limit, one whose last band ends
  past the integers' width, one that large budgets buy out and one that no pool
  may have; 540 supplies of each (every one of the smallest), which fall on all
  sides of band boundaries; on the default curve large sales are worth more than
  a u64.
- `MCRent`: a minimum of 900 lamports, 9 times the least trade, as 890,880 is 89
  times 10,000: a trade below it, some above it, and a gift of the minimum
  before, between or after them. Three trades give every combination of claims
  something to pay.
- `MCWalk`: three curves that quotes accept (one of 1005 units in bands of 10,
  one of 190 in bands of 1 and so with more bands than the step limit of 128,
  the default one) and three that they refuse; supplies on and beside
  boundaries; amounts that end a loop in each of the four ways, and zero.
- `MCClient`: two swaps by the client, three trades in the pool, a tolerance of
  nothing and of everything. Others buy, sell, migrate with and without
  conditions, open bins, move the active bin and change the treasury between any
  two of the client's reads and before its swap lands.

### Fairness and liveness

`QuoteWalk` assumes weak fairness of its next step, `WF_vars(Next)`: a quote is
a function that has been called, and neither of its loops waits for anything, so
it runs on. Under it `MCWalk` checks that every acceptable sale that spans no
more bands than the limit is quoted in full (`SalesAreQuoted`) and that every
buy is filled until the budget buys nothing more, the supply ends or the limit
is reached (`BuysAreFilled`).

Of the program no fairness is assumed and no liveness claimed. Instructions run
when a wallet submits them; nothing in the repository schedules one (there is no
keeper or crank), and the SDK neither sends nor retries, so no fairness could be
justified. What looks like progress is stated as safety instead: a pending pool
always meets the conditions of its migration (`Lifecycle`), a fresh swap is not
refused for what it asks (`FreshSwapAccepted`), a topped-up vault can pay
(`PaymentsClear`), a stranded market can never be revived (`StrandedForGood`), a
residue blocks (`ResidueBlocksBuys`).

### What the SDK runs show

The two implementations of the quotes agree to the unit wherever the program has
a quote. The SDK, whose integers have no width, also quotes where the program
fails: sales worth more than a u64, and curves whose last band ends past it.

A client that trades on what it read may be refused or get less, down to the
minimum it signed. What it is never exposed to: a quote made on the curve filled
in a bin or the other way round (`QuotedPhaseKept`: it names a bin exactly when
it was quoted in one, and no pool returns to its curve), a quote of one bin
filled in another (`BinQuoteKept`), or a difference without a cause: if the
tokens sold are the ones it read, the curve delivers its estimate to the unit,
even if the four reads were never true together (`CurveQuoteKept`). And a fresh
estimate on the curve is not only kept but accepted (`FreshSwapAccepted`): while
trading is open to an amount of that size (`OpenTo`) and no field of the pool is
near the end of its width (`HasRoom`), neither the minimum nor a reserve, a
transfer or the rent rule refuses the swap, whatever was traded before.

### What the violated runs show

- `PriceMonotonic`: `smoothstep_bps` rounds `3t^2` and `2t^3` down separately and
  subtracts, which is not monotonic. On the default curve the price drops from
  11 to 10 lamports between 0.495% and 0.5% of the supply. The tests named for
  monotonicity compare a few far-apart supplies.
- `FullExitBacked` on a pool that keeps its whole supply on the curve: a buy is
  priced where it stands inside a band, a sell at the band's start, and
  where the price dips the sell can be quoted above what was paid. Three buys
  leave a reserve smaller than the quote for selling everything. With the
  default threshold of a quarter of the supply it holds in `MCCurve`.
- `FeeIsThreePercent`: the buy that exhausts the supply is filled in part, the
  rest of the offer stays with the buyer, and the fee is 3% of the whole offer.
- `MinTradeInLamports`: for a sell the minimum is compared with token units.

Two properties that hold are warnings rather than guarantees. `migrate_pool`
does not require the active bin to exist. If all reserves are then put into
other bins, no further bin can be opened, liquidity calls do not free any
reserve, and no trade is possible: `StrandedForGood` states that this is final,
and `MCBins` reaches such states. The liquidity itself can still be removed bin
by bin by the admin or the curator. And a swap must be filled by the active bin
alone: once a bin holds fewer tokens than the least buy takes, every buy of the
market fails until somebody sells or moves liquidity (`ResidueBlocksBuys`).

## Proofs

For every value of the constants that satisfies the ASSUMEs (any number of
posts, wallets and bins; any inputs, bounds, token unit, step limit and integer
width; any default values; any rent minimum) TLAPS proves

- `TypeCorrect`: `Spec => []TypeOK`;
- `SolCustodyHolds`, `TokenCustodyHolds`, `FeeLedgerHolds`: the vaults hold the
  reserves, the unclaimed fees and what outsiders sent, to the lamport and the
  token, and each beneficiary's earnings are what was paid plus what is claimable;
- `BinsStayBacked`, `TotalsAlwaysAddUp`: a market's bins add up to what it has
  allocated and its reserves cover that; the totals of the config are the sums
  over the pools;
- `LifecycleHolds`, `BandStaysSane`: the invariants `Lifecycle` and `PriceBandSane`;
- `PoolsStayIsolated`, `LaunchIsGuarded`, `NoOvercharge`, `PhasesOnlyMoveForward`,
  `PauseIsHeld`, `ActiveBinOnlyFollows`, `BinValueStaysKept`,
  `ReservesDrawnByOpening`, `StrandedStays`, `ResidueStaysBlocked`: the step
  properties of the same subjects;
- `ExitsStayBacked`, `PaymentsStayClear`: all holders of a curve together can be
  bought out, and a topped-up vault pays every debt, *as long as no curve is sold
  past a dip of its price within a band* (`SoldWhereRising`);
- `DefaultCurvesStayBacked`, `DefaultPoolsStayBacked`: the same two, with nothing
  assumed about dips, for curves of the default shape: at whatever supply and
  prices, while at most half of the supply is sold, where by default a pool
  migrates at a quarter;
- `Refines`: `Spec => ImplementsIdeal`, the program implements `IdealPools`;
- `CurvesStayValid`: every pool trades on a curve that the program accepts, with
  the supply that was minted;
- `PendingCanMigrate`: a pending pool can be migrated, at any time after it met
  its conditions and while the program is not paused, by its curator as well as by
  the admin;
- `TinySuppliesNeverTrade`: a supply whose bands are empty passes `create_pool`, but
  never trades on the curve;
- `WalkTyped`, `BuyLoopHolds`, `SellLoopHolds`, `QuotesFairlyPriced`: of one quote
  pass by pass, that its loop conserves budget, tokens and supply, never
  underflows, and prices between floor and cap but for a lamport a band;
- `SalesEndInFull`, `BuysEndFilled`, `CallsEnd`: the safety part of `SalesAreQuoted`
  and `BuysAreFilled`. If a call answers, a sale over no more bands than the limit
  is complete, and a buy *on a curve that does not fall within its bands* is
  filled as far as its budget goes; and each step lowers a natural number, so no
  call takes more than `MAX_SIGMOID_STEPS + 3` of them;
- `BuyQuoteWithinBudget`, `SalesAreSums`, `SplittingPaysNoMore`: a buy spends at most
  its budget, a sale pays the sum of its bands' worth, a sale in two calls no more
  than in one;
- `SplittingABuyGetsNoMore`: two buys never get more tokens than one with the budget
  of both, *unless a price on the way is lower than where its band was entered* or
  the one buy is cut short by the number of bands (both are part of the property);
- `BudgetIsSpent`, `RoundTripPaysForItself`: a buy stops only where it must, and its
  tokens do not sell for more than they cost, *where the price does not dip*;
- `DefaultRoundTripPaysForItself`: nor on a curve of the default shape, with
  nothing assumed about dips;
- `ProgramAgreesWithSdk`, `SdkAgreesWithProgram`: the two implementations of the
  quotes agree to the unit wherever the integers of the program suffice;
- `QuotedPhaseIsKept`, `BinQuoteIsKept`, `CurveQuoteIsKept`: what a client's swap
  delivers against what it was quoted, as `MCClient` checks it;
- `MinimumIsDelivered`: a swap that lands, in whichever market and however late,
  delivers its estimate less the tolerance it was signed with;
- `FreshBuysAccepted`, `FreshSwapsAccepted`, `DefaultSwapsAccepted`: a fresh buy on the
  curve is accepted; so is a fresh sale *while no curve is sold past a dip*, and on
  curves of the default shape sold up to their midpoint without that hypothesis.
  `AcceptedSwapsLand` shows that being accepted is all that is needed: the rest of
  the step only gives every variable its next value;
- `PriceInRange` (the price of any valid curve lies between floor and cap),
  `PriceDipsLittle` (it never falls by more than a ten thousandth of its range, rounded
  up), `RisesToMidpoint` (on a curve of the default shape, below its midpoint, it is
  never lower than at the start of the band),
  `MulDivExact`, `FeeShares`, `BandCostAffordable`, `BinQuotesKeepValue`,
  `BinRoundTrip`: facts of the arithmetic on which these rest or that stand by
  themselves.

### The arguments

Custody and ledger. None of the three book properties is inductive alone: a claim
or a sell subtracts from counters and leaves naturals only because checked
arithmetic confined the record (`TypeOK`), and `create_pool` opens balanced books
only because an account that does not exist was never written (`Unborn`, part
of `TypeOK`). The inductive invariant is `TypeOK /\ AllSound`, where `AllSound`
is the three properties pool by pool; `MCBins` checks its conjuncts.
The first part of `RedCircleProofs` treats the records alone: what `WithPoolFees`,
`WithMarketFees` and the reserves' updates do to the balance of one pool
(`Sound`), using `FeeShares`. Then it has one lemma per action, most by
`OnePoolWritten` (a call that writes pool p soundly leaves every pool sound),
then `InitSound`, `NextSound` and the theorems. The proofs need of the quotes only
that `IsQuote` accepted them, so they hold whatever the curve computes.

Steps. `StepProofs` reduces every instruction to one of five kinds: it creates
pool p, migrates it, moves liquidity in its bins, trades in it, or leaves
phase, counters and bins of every pool alone (`StepKinds`), and it touches one
pool only (`Apart`). Each kind is a relation between old and new counters; the
quotes and fees of a trade are part of it. `PropertyProofs` reads the step
properties off these relations, with the inductive invariant for the types. Some
properties need more. `BuyerNeverOvercharged` needs `BuyQuoteWithinBudget` on the
curve; in a bin the pool takes the whole amount. `BinValueKept` needs every open bin to have
a positive price (`BinsPriced`, inductive) and `BinQuotesKeepValue`.
`ResidueBlocksBuys` needs that a larger buy never takes fewer tokens: net of the
fee and divided by the price, amounts keep their order. `Lifecycle` needs that
conditions once met are lost only by a sell, which a pending pool does not have.
`PendingCanMigrate` turns that around: the conditions are met in every pending pool
(`PendingDue`, inductive: it became pending by a buy that met them, and no
kind of step writes what they depend on), and the price is defined because the
curve is valid. `TinySuppliesNeverTrade` has as its invariant that a curve without
bands is as at its creation (`BandlessIdle`): a quote of no band is refused.
`PriceBandSane` needs the one-sided checks of `update_config`, case by case.

Refinement. `RefinementProofs` shows with the custody invariant that the fees
read off the vault are the three unclaimed counters (`BooksRead`), maps each
instruction to an action of `IdealPools` on one pool or to a stutter
(`StepRefines`), and that the initial states map to the initial state
(`InitRefines`).

Sums. `BinsBacked` and `TotalsAddUp` add up over finite sets. `MathProofs` shows
how `SumFunction` changes when one summand changes or one is added
(`SumChanges`, `SumIsLast`); each kind of step then moves one bin, or one pool,
and the counter that stands for the sum by the same amount. `BinsBacked` is
inductive beside `Lifecycle`, which says that a pool on its curve has no bins, so
that nothing is allocated when it migrates. `TotalsAddUp` needs that the pools are finitely many and that
there is none before the first `initialize`, which sets the totals to zero
(`Counted`).

The price. `MathProofs` bounds the smoothstep between 0 and 10000, although it
is not monotonic, and so the price. It also bounds how far from monotonic it is:
each of the two roundings loses less than one, so the smoothstep falls by at most
one of its 10000 steps (`PriceDipsLittle`). A curve has the default shape
(`DefaultShape`) when its midpoint is a number of bands that divides 100 and its
steepness a multiple of one. At the start of each band below the midpoint the
distance to the midpoint is then eased at a whole hundred `t`, where `3t^2` is
divided without a remainder; so the smoothstep is not rounded down there, and the
price, which it lowers, is not above what follows in the band
(`RisesToMidpoint`). This makes the hypothesis of the exit a theorem for a
family of curves: every supply that a hundred divides, all prices, the default
midpoint and steepness. `WalkProofs` shows that one pass keeps
`TypeOK /\ BuyLoop /\ SellLoop /\ FairlyPriced`, which is inductive as it stands:
`BandCostAffordable` keeps the budget from underflowing, `BandAhead` the cursor
within the supply, `PriceInRange` the division by the price defined.

Induction. The quotes are recursive functions and the sums folds, and no induction
theorem with an operator parameter can be instantiated here. `MathProofs` states
induction for sets instead: a set of naturals that holds 0 and every successor is
all of them (`Induction`, by the least natural that it lacks), and likewise for
the subsets of a finite set (`FiniteInduction`). A quote is then a walk over the
loop's variables that a measure bounds: it exists (`RunExists`), and what every pass
keeps its end has (`RunKeeps`). What the passes keep is, for a buy, that it has
spent what the budget has lost (`BuyQuoteWithinBudget`); for a sale, that it has
been paid what the tokens above its cursor are worth (`SalesAreSums`); for the
program's loop beside the SDK's, that both are at the same place
(`ProgramAgreesWithSdk`). In the same way the lemma `AnsweredIsWalk` takes what is
known of the recursive functions to the system of `QuoteWalk`, which is made of the
same passes.

Full exit. The quote for selling everything is not an inductive bound: it says
nothing of the tokens below a partial sale, nor anything while the tokens lie in
more bands than a quote may cross. The inductive invariant is `ExitCovered`:
what all tokens sold are *worth* is in the reserve. A sale takes out the worth of
its tokens, and the rest is worth no more than what is left (`SaleKeepsCovered`). A buy pays in, for
each band, its tokens at the price where it stood, rounded up; that is no less than
the tokens at the price of the band's start, unless the price dips below that
start (`BuyKeepsCovered`). Hence the hypothesis, which says that it does not
below what is sold. It is not a formality. `MCLateExit` sells past such a dip and
cannot pay its holders. On the default curve (floor 10, cap 10000, steepness
10000, midpoint at half) the price is below the start of its band only between
98.005% and 98.01% of the supply, and a pool migrates by default at 25%. In
`MCCurve` and `MCRent`, which check the two properties, no state of that curve is
sold as far: `MCCurve.tla` ASSUMEs, for TLC to evaluate, that the curves of the runs
rise in this sense below 19600 of their 20000 units, and to the end of the supply
the cheap one that is sold out.
For curves of the default shape `RisesToMidpoint` proves the hypothesis up to
the midpoint, so `DefaultCurvesStayBacked` has none about prices;
`DefaultPoolsStayBacked` shows that pools created with the defaults have such
curves (`CurvesShaped`, inductive) with the midpoint at half of the supply.
`PaymentsStayClear` follows with the two custody invariants and the fees' shares.

Budget. `BudgetIsSpent` asks for more, that the price does not fall within a band
between where the buy starts and where it ends. A band is otherwise left when
it is exhausted or the budget buys no more at its price; if the price falls in
between, a further pass buys in the same band, and uses up a step of the limit
without crossing a band. The default curve has about a hundred such dips, by one
lamport each, the first of them the one that `MCMonotonic` shows. `MCQuotes`
checks the property without the hypothesis, at its samples.
`RoundTripPaysForItself` has the hypothesis of the exit, which the ASSUME of
`MCQuotes.tla` evaluates for all the curves, to a quarter of their supply;
`DefaultRoundTripPaysForItself` proves it for the default shape with a midpoint no
lower than that.

Splitting a buy. `SplittingABuyGetsNoMore` follows two walks at once. The two calls
are walked as they are, and beside each of their states stands one of the undivided
buy (`Beside`): where it entered the band that the calls are in, with at least as
much left as they have, together, plus what their tokens of the band cost at the
price of the entry. Within the band the calls pay no less than that price, since
none there is lower; so whenever they finish the band, the undivided buy can pay for
all of it and is beside them again at its end (`BesidePass`). Rounding is on its
side: it rounds up once where they round twice. It is not stopped by the step limit
because each of its passes so far ended a band. In the end it gets at least as far as
they did (`UndividedGetsThere`). The dips are no formality here either: on the
default curve at 151 units sold, where the price is 13 lamports and at 153 but 12, 14
lamports buy 10 units, and 3 lamports and then 11 buy 11.

The end of a call. A sale that is stopped by the limit has made as many passes, and each
pass of a sale ends a band, so it has crossed as many bands; with fewer to
cross it ends by selling the rest (`SellWalk`, of which the system is a run). A buy's pass
ends a band or the budget, unless the price falls within the band: hence the
hypothesis of `BuysEndFilled`. `Left`, the measure of `CallsEnd`, counts the passes
left and one more while the loop has not overflowed.

The client. Almost all a client has read may be out of date; `ClientProofs`
has as its invariant what may not: the curve of a pool is as at its creation, a
pool seen in bins is in bins, a bin seen open is open at the same price, and a
signed swap names the bin, or none, and the estimate for what was read
(`ViewSound`, `OrderedOnCurve`, `OrderedInBin`). The step relations keep it, and
with the agreement of the two implementations it gives what a landing swap
delivers.

Acceptance. A fresh estimate equals the program's quote, since the curve is the
one that was read and the implementations agree (`BuyIsSdk`, `SaleIsSdk`), so
the minimum is met. A buy takes no more tokens than the supply has left, which
`Lifecycle` says is the reserve, and the vault holds the reserve by custody. A
sale is covered because what all tokens sold are worth is in the reserve
(`ExitCovered`), the sale's share of it no less; here alone does the
argument need the price not to dip. The rent rule is met by what was once
given, and the widths by `HasRoom`. These grounds (`Grounds`: types, books, `Lifecycle`, `CurvesValid`, and
that the order is as it was signed) are inductive.

Assumptions: `TOKEN_UNIT` is positive; the widths, limits and defaults
are numbers of the types of their Rust constants; the inputs have the types of
the handlers' arguments; bin ids are an interval around 0. TLC evaluates them in
every run.

### Only model-checked

- `SalesAreQuoted`, `BuysAreFilled`, the liveness of `QuoteWalk`. Of these only the
  use of fairness is left to TLC (that a step is enabled until the call is over, and
  is then taken), which is beyond the prover; that a call cannot go on for
  ever, and what it ends with, is proved.
- `FullExitBacked`, `PaymentsClear`, `FreshSwapAccepted` (for sales), `RoundTripBacked`,
  `BuySpendsTheBudget` without the hypotheses of their theorems. The first is false
  then (`MCLateExit`).
- That the curves of the runs satisfy these hypotheses where `RisesToMidpoint` does
  not reach: above the midpoint, and for other shapes. A price is smooth only up to
  rounding, and where it dips depends on the numbers of each curve, so this is
  evaluated, by the ASSUMEs of `MCCurve.tla` and `MCQuotes.tla`, curve by curve.
  The same ASSUMEs check that the default curves of the runs have the default shape.

## Not modelled

- `Position` and `FeeState`: no instruction uses these accounts.
- Compute limits of a transaction, the account layouts and sizes, string lengths.
- The SOL and the rent of wallets; the treasury is taken to be able to receive.
- The SDK's builders of instructions other than `swap`, which pass their
  arguments on; its market cap and bin id helpers, which nothing calls.
- The error codes (`error.rs`): an error is a disabled action, whichever it is.
- The deployment script, the generated interface, the tests.

The order in which the project was built: the arithmetic, all instructions and their
composition; custody and ledger proved; the rent rule, the abstract pools, the
quote pass by pass and the SDK; the step properties, the life of a pool and the
refinement proved; the sums, the quotes, the exit and the client proved; the
default curves, the acceptance of fresh swaps and the end of a quote proved. What
could come next: several swaps of one client under way at once, and the upper half of
the default curves, where the first dip below the start of a band has to be
located.
