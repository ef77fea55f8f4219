---------------------------- MODULE EscrowCustody ---------------------------
(***************************************************************************)
(* The escrow of contracts/base keeps the promise of Custody: where each   *)
(* deposit is held, read off the contract's storage, and the refinement.   *)
(***************************************************************************)
EXTENDS Escrow, Functions

\* There are finitely many addresses and identifiers, so that sums over them exist.
ASSUME FiniteAssumption ==
    /\ IsFiniteSet(Account)
    /\ IsFiniteSet(BountyId) /\ IsFiniteSet(ReservationId) /\ IsFiniteSet(AttemptIndex)

RewardItem == {<<"reward", b>> : b \in BountyId}
BondItem   == {<<"bond", b, r>> : b \in BountyId, r \in ReservationId}
AppealItem == {<<"appeal", b, i>> : b \in BountyId, i \in AttemptIndex}
Item == RewardItem \cup BondItem \cup AppealItem

HeldReward(b) == IF bounties[b].rewardSettled THEN 0 ELSE bounties[b].reward

\* A bond stays the deposit of its reservation, also after it moved into the
\* attempt the reservation is bound to.
HeldBond(b, r) ==
    IF pendingAttempts[b][r].bound
    THEN LET i == CHOOSE i \in AttemptIndex :
                     IsBound(b, i) /\ attempts[b][i].reservationId = r
         IN  IF attempts[b][i].settled THEN 0 ELSE attempts[b][i].bond
    ELSE pendingAttempts[b][r].bond

HeldAppeal(b, i) == IF attempts[b][i].settled THEN 0 ELSE attempts[b][i].appealBond

Held ==
    [d \in Item |-> CASE d[1] = "reward" -> HeldReward(d[2])
                      [] d[1] = "bond"   -> HeldBond(d[2], d[3])
                      [] d[1] = "appeal" -> HeldAppeal(d[2], d[3])]

\* The USDC in the contract is what it owes, to the last unit: every claim, and
\* every deposit that is not credited yet.
Solvent == usdc = SumFunction(claimable) + SumFunction(Held)

Vault == INSTANCE Custody WITH
            Claimant <- Account, held <- Held, owed <- claimable, vault <- usdc

\* The escrow implements Custody.
KeepsCustody == Vault!Spec

=============================================================================
