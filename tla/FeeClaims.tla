----------------------------- MODULE FeeClaims -----------------------------
(***************************************************************************)
(* The three claims of a pool's fees (claim_fees.rs).  Each one pays out   *)
(* all that is unclaimed from the pool's SOL vault and resets the counter; *)
(* none of them looks at the pause flag or at the pool's status.           *)
(***************************************************************************)
EXTENDS Accounts

PaidFromVault(p, claimable) ==
  /\ claimable > 0
  /\ claimable <= solVault[p]
  /\ RentExempt(solVault[p] - claimable)
  /\ solVault' = [solVault EXCEPT ![p] = @ - claimable]
  /\ UNCHANGED <<registry, config, market, bin, tokenVault, gifts, now>>

ClaimCreatorFees(w, p) ==
  LET claimable == pool[p].unclaimed_creator_fees
  IN  /\ p \in pools
      /\ w = pool[p].creator
      /\ PaidFromVault(p, claimable)
      /\ pool' = [pool EXCEPT ![p].unclaimed_creator_fees = 0]
      /\ payouts' = [payouts EXCEPT ![p].creator = @ + claimable]

ClaimCuratorFeesAgain(w, p) ==  \* mutant: what was paid stays claimable
  LET claimable == pool[p].unclaimed_curator_fees
  IN  /\ IsCurator(w, p)
      /\ PaidFromVault(p, claimable)
      /\ pool' = pool
      /\ payouts' = [payouts EXCEPT ![p].curator = @ + claimable]

ClaimCuratorFees(w, p) ==
  LET claimable == pool[p].unclaimed_curator_fees
  IN  /\ IsCurator(w, p)
      /\ PaidFromVault(p, claimable)
      /\ pool' = [pool EXCEPT ![p].unclaimed_curator_fees = 0]
      /\ payouts' = [payouts EXCEPT ![p].curator = @ + claimable]

(* The admin signs; the recipient is any wallet the admin names. *)
ClaimGrowthFees(w, p) ==
  LET claimable == pool[p].unclaimed_growth_fees
  IN  /\ IsAdmin(w)
      /\ p \in pools
      /\ PaidFromVault(p, claimable)
      /\ pool' = [pool EXCEPT ![p].unclaimed_growth_fees = 0]
      /\ payouts' = [payouts EXCEPT ![p].growth = @ + claimable]
=============================================================================
