----------------------------- MODULE PoolSetup -----------------------------
(***************************************************************************)
(* create_pool and migrate_pool: the birth of a pool on the bonding curve  *)
(* and its one-way move to the liquidity bins.                             *)
(***************************************************************************)
EXTENDS Accounts

(* The sigmoid configuration create_pool puts together from its options.   *)
NewSigmoid(params) ==
  LET supply == unwrap_or(params.token_supply, Defaults.token_supply)
  IN  [token_supply |-> supply,
       floor_price_lamports |->
         unwrap_or(params.floor_price, config.default_sigmoid_floor_price),
       cap_price_lamports |->
         unwrap_or(params.cap_price, config.default_sigmoid_cap_price),
       midpoint_supply |-> unwrap_or(params.midpoint_supply, supply \div 2),
       steepness_bps |-> unwrap_or(params.steepness_bps, Defaults.steepness_bps),
       band_bps |-> SIGMOID_BAND_BPS]

(* The accounts of create_pool: those of the pool must not exist yet.      *)
CanCreate(p) == NotPaused /\ p \notin pools

CreatePool(w, p, params) ==
  LET sigmoid == NewSigmoid(params)
      threshold == unwrap_or(params.supply_threshold_bps, Defaults.supply_threshold_bps)
      bin_step == unwrap_or(params.bin_step_bps, Defaults.bin_step_bps)
      duration == config.launch_protection_duration
  IN  /\ CanCreate(p)
      /\ ValidSigmoid(sigmoid)
      /\ threshold \in 1..BPS_DENOMINATOR
      /\ bin_step > 0
      /\ now + duration <= I64Max
      /\ config.total_pools + 1 \in U64
      /\ pools' = pools \cup {p}
      /\ pool' =
           [pool EXCEPT ![p] =
              [BlankPool EXCEPT
                 !.curator = w,
                 !.status = IF duration > 0 THEN "LaunchProtection" ELSE "Active",
                 !.liquidity_token_reserve = sigmoid.token_supply,
                 !.token_supply = sigmoid.token_supply,
                 !.launch_protection_ends_at = now + duration]]
      /\ market' =
           [market EXCEPT ![p] =
              [BlankMarket EXCEPT
                 !.sigmoid = sigmoid,
                 !.supply_threshold_bps = threshold,
                 !.min_sol_reserve =
                    unwrap_or(params.min_sol_reserve, Defaults.min_sol_reserve),
                 !.bin_step_bps = bin_step]]
      /\ tokenVault' = [tokenVault EXCEPT ![p] = sigmoid.token_supply]
      /\ payouts' = [payouts EXCEPT ![p].creation = config.pool_creation_fee]
      /\ config' = [config EXCEPT !.total_pools = @ + 1]
      /\ UNCHANGED <<initialized, bins, bin, solVault, gifts, now>>

AnyModel(p) == market[p].model \in PoolModel  \* mutant: may migrate again

Unmigrated(p) == market[p].model \in {"SigmoidBootstrap", "MigrationPending"}

(* The bin the market starts from is the caller's, or the one of the       *)
(* curve's price; nothing requires that bin to exist.                      *)
StartingBin(p, active_bin_id) ==
  LET current_price == price_at_supply(market[p].sigmoid, pool[p].tokens_sold)
  IN  unwrap_or(active_bin_id, bin_id_for_price(current_price, market[p].bin_step_bps))

(* The curator needs the migration conditions, the admin may waive them.   *)
MigrationAllowed(w, p, active_bin_id, enforce_conditions) ==
  /\ NotPaused
  /\ p \in pools
  /\ IsAdmin(w) \/ IsCurator(w, p)
  /\ Unmigrated(p)
  /\ enforce_conditions \/ ~IsAdmin(w) => MigrationConditionsMet(pool[p], market[p])
  /\ price_at_supply(market[p].sigmoid, pool[p].tokens_sold) \in U64
  /\ StartingBin(p, active_bin_id) \in BinIds

MigratePool(w, p, active_bin_id, enforce_conditions) ==
  /\ MigrationAllowed(w, p, active_bin_id, enforce_conditions)
  /\ market' = [market EXCEPT ![p].model = "DLMM",
                              ![p].active_bin_id = StartingBin(p, active_bin_id),
                              ![p].migrated_at = now]
  /\ pool' = [pool EXCEPT ![p].model = "DLMM"]
  /\ UNCHANGED <<registry, config, bin, balances, now>>
=============================================================================
