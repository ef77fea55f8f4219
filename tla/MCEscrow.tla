------------------------------ MODULE MCEscrow ------------------------------
(***************************************************************************)
(* A small escrow for TLC: one bounty, a creator, two challengers and a    *)
(* treasury.  One tick is the recovery delay of an unbound deposit, two    *)
(* are the orphan delay; authorizations end within the tick they are       *)
(* issued in.  Reward, bond and shares are chosen so that every division   *)
(* of a settlement rounds.                                                 *)
(***************************************************************************)
EXTENDS EscrowCustody, TLC

CONSTANTS creator, alice, bob, treasury

MCSymmetry == Permutations(ReservationId)
                \cup Permutations(AttemptIndex) \cup Permutations(StateHash)

=============================================================================
