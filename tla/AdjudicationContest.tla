------------------------- MODULE AdjudicationContest ------------------------
(***************************************************************************)
(* The GenLayer contract keeps the promise of Contest: the refinement.     *)
(***************************************************************************)
EXTENDS Adjudication

NoWinner == -1

RewardOutcome ==
    [b \in BountyId |->
        CASE bounties[b].status = "NONE"    -> "none"
          [] bounties[b].status = "OPEN"    -> "open"
          [] bounties[b].status = "SETTLED" -> "won"
          [] OTHER                          -> "returned"]

Winner ==
    [b \in BountyId |->
        IF bounties[b].attempts_won = 1 THEN bounties[b].winning_attempt_index ELSE NoWinner]

BondOutcome ==
    [b \in BountyId |-> [i \in AttemptIndex |->
        CASE attempts[b][i].status = "NONE"           -> "none"
          [] attempts[b][i].status = "BOND_FORFEITED" -> "forfeited"
          [] attempts[b][i].status \in TERMINAL_STATES \ {"BOND_FORFEITED"} -> "returned"
          [] OTHER                                    -> "held"]]

Promise == INSTANCE Contest WITH
              Contests <- BountyId, Contestant <- AttemptIndex,
              reward <- RewardOutcome, winner <- Winner, bond <- BondOutcome

\* The contract implements Contest: the reward has one destiny, a bond is decided
\* once, and nobody enters or wins a contest that is not open.
KeepsContest == Promise!Spec

=============================================================================
