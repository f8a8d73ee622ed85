---------------------------- MODULE ConfigAdmin ----------------------------
(***************************************************************************)
(* The protocol's configuration and the admin's handles on a pool:         *)
(* initialize, update_config, set_pool_status and set_creator.             *)
(***************************************************************************)
EXTENDS Accounts

(* initialize: whoever signs first becomes the admin. *)
Initialize(w, treasury, params) ==
  LET floor == unwrap_or(params.floor_price, Defaults.floor_price)
      cap == unwrap_or(params.cap_price, Defaults.cap_price)
  IN  /\ ~initialized
      /\ cap > floor
      /\ floor > 0
      /\ initialized' = TRUE
      /\ config' =
           [admin |-> w, treasury |-> treasury, is_paused |-> FALSE,
            total_pools |-> 0, total_volume |-> 0, total_fees_collected |-> 0,
            default_sigmoid_floor_price |-> floor,
            default_sigmoid_cap_price |-> cap,
            pool_creation_fee |->
              unwrap_or(params.pool_creation_fee, Defaults.pool_creation_fee),
            launch_protection_duration |->
              unwrap_or(params.duration, Defaults.duration),
            max_buy_during_protection |->
              unwrap_or(params.max_buy, Defaults.max_buy)]
      /\ UNCHANGED <<pools, pool, market, bins, bin, balances, now>>

FloorAboveZero(u, floor) ==  \* mutant: a new floor is not held below the cap
  /\ u.floor_price # None => u.floor_price > 0
  /\ u.cap_price # None => u.cap_price > floor

(* The floor is compared with the cap in force before the call, the cap    *)
(* with the floor after it.                                                *)
NewBandAllowed(u, floor) ==
  /\ u.floor_price # None =>
       /\ u.floor_price > 0
       /\ u.floor_price < config.default_sigmoid_cap_price
  /\ u.cap_price # None => u.cap_price > floor

(* update_config: each option overwrites its field. *)
UpdateConfig(w, u) ==
  LET floor == unwrap_or(u.floor_price, config.default_sigmoid_floor_price)
  IN  /\ IsAdmin(w)
      /\ NewBandAllowed(u, floor)
      /\ config' =
           [config EXCEPT
              !.admin = unwrap_or(u.admin, @),
              !.treasury = unwrap_or(u.treasury, @),
              !.is_paused = unwrap_or(u.is_paused, @),
              !.default_sigmoid_floor_price = floor,
              !.default_sigmoid_cap_price = unwrap_or(u.cap_price, @),
              !.pool_creation_fee = unwrap_or(u.pool_creation_fee, @),
              !.launch_protection_duration = unwrap_or(u.duration, @),
              !.max_buy_during_protection = unwrap_or(u.max_buy, @)]
      /\ UNCHANGED <<initialized, pools, pool, market, bins, bin, balances, now>>

(* set_pool_status: any status, from any status. *)
SetPoolStatus(w, p, status) ==
  /\ IsAdmin(w)
  /\ p \in pools
  /\ pool' = [pool EXCEPT ![p].status = status]
  /\ UNCHANGED <<registry, config, market, bin, balances, now>>

(* set_creator: may be called again, and moves the fees not yet claimed to *)
(* the new creator with it.                                                *)
SetCreator(w, p, creator) ==
  /\ IsAdmin(w)
  /\ p \in pools
  /\ pool' = [pool EXCEPT ![p].creator = creator]
  /\ UNCHANGED <<registry, config, market, bin, balances, now>>
=============================================================================
