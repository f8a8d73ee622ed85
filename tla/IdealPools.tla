----------------------------- MODULE IdealPools -----------------------------
(***************************************************************************)
(* What the protocol promises about each pool's money, without prices,     *)
(* fees' rates, bins, statistics or accounts: a pool is an amount of SOL   *)
(* behind its tokens, an amount of fees set aside, and the tokens that are *)
(* outside.  SOL leaves the backing only against tokens that come back, or *)
(* with liquidity that its managers withdraw once the curve is closed;     *)
(* fees set aside leave only by being paid out, and never touch the        *)
(* backing; every step concerns one pool.                                  *)
(*                                                                         *)
(* The actions are relations between old and new amounts: how much a trade *)
(* moves is left to whoever implements this.                               *)
(***************************************************************************)
EXTENDS Integers

CONSTANT Posts

VARIABLES
  phase,    \* "unborn", "curve", "pending" or "bins", of each pool
  supply,   \* tokens minted
  backing,  \* lamports behind the tokens
  fees,     \* lamports set aside for the beneficiaries
  outside   \* tokens not in the pool

vars == <<phase, supply, backing, fees, outside>>

Init ==
  /\ phase = [p \in Posts |-> "unborn"]
  /\ supply = [p \in Posts |-> 0]
  /\ backing = [p \in Posts |-> 0]
  /\ fees = [p \in Posts |-> 0]
  /\ outside = [p \in Posts |-> 0]

View(p) == <<phase[p], supply[p], backing[p], fees[p], outside[p]>>

(* A step of pool p leaves amounts that make sense, and every other pool   *)
(* as it was.                                                              *)
StepOf(p) ==
  /\ backing'[p] >= 0
  /\ fees'[p] >= 0
  /\ 0 <= outside'[p] /\ outside'[p] <= supply'[p]
  /\ \A q \in Posts \ {p} : View(q)' = View(q)

(* A pool opens empty, with all its tokens inside. *)
Open(p) ==
  /\ phase[p] = "unborn"
  /\ phase'[p] = "curve"
  /\ supply'[p] > 0
  /\ backing'[p] = 0 /\ fees'[p] = 0 /\ outside'[p] = 0

(* Tokens go out, SOL comes in; on the curve the pool may start to wait    *)
(* for its migration.                                                      *)
Buy(p) ==
  /\ \/ phase[p] = "curve" /\ phase'[p] \in {"curve", "pending"}
     \/ phase[p] = "bins" /\ phase'[p] = "bins"
  /\ supply'[p] = supply[p]
  /\ outside'[p] > outside[p]
  /\ backing'[p] >= backing[p]
  /\ fees'[p] >= fees[p]

(* Tokens come back, SOL goes out; the fee is taken from that SOL. *)
Sell(p) ==
  /\ phase[p] \in {"curve", "bins"} /\ phase'[p] = phase[p]
  /\ supply'[p] = supply[p]
  /\ outside'[p] < outside[p]
  /\ backing'[p] < backing[p]
  /\ fees'[p] >= fees[p]
  /\ backing'[p] + fees'[p] <= backing[p] + fees[p]

(* The curve is closed for good, with nothing moved. *)
Migrate(p) ==
  /\ phase[p] \in {"curve", "pending"} /\ phase'[p] = "bins"
  /\ <<supply, backing, fees, outside>>' = <<supply, backing, fees, outside>>

(* Liquidity comes in, or goes out, on both sides or on one; the fees are  *)
(* not part of it.                                                         *)
Provide(p) ==
  /\ phase[p] = "bins" /\ phase'[p] = "bins"
  /\ supply'[p] = supply[p] /\ fees'[p] = fees[p]
  /\ outside'[p] <= outside[p] /\ backing'[p] >= backing[p]

Withdraw(p) ==
  /\ phase[p] = "bins" /\ phase'[p] = "bins"
  /\ supply'[p] = supply[p] /\ fees'[p] = fees[p]
  /\ outside'[p] >= outside[p] /\ backing'[p] <= backing[p]

(* A beneficiary is paid out of the fees. *)
PayFees(p) ==
  /\ fees'[p] < fees[p]
  /\ <<phase, supply, backing, outside>>' = <<phase, supply, backing, outside>>

Next ==
  \E p \in Posts :
    /\ StepOf(p)
    /\ \/ Open(p) \/ Buy(p) \/ Sell(p) \/ Migrate(p)
       \/ Provide(p) \/ Withdraw(p) \/ PayFees(p)

Spec == Init /\ [][Next]_vars
=============================================================================
