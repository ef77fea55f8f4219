------------------------------ MODULE Contest -------------------------------
(***************************************************************************)
(* What the adjudication of bounties promises, with none of how: a reward  *)
(* that somebody wins or that goes back, and bonds that are returned or    *)
(* forfeited, each decided once.                                           *)
(***************************************************************************)
CONSTANTS
    Contests,
    Contestant,
    NoWinner

VARIABLES
    reward,     \* of each contest: "none", "open", "won" or "returned"
    winner,     \* the contestant who won it
    bond        \* of each contestant: "none", "held", "returned" or "forfeited"

contestVars == <<reward, winner, bond>>

Init ==
    /\ reward = [b \in Contests |-> "none"]
    /\ winner = [b \in Contests |-> NoWinner]
    /\ bond = [b \in Contests |-> [i \in Contestant |-> "none"]]

Offer(b) ==
    /\ reward[b] = "none"
    /\ reward' = [reward EXCEPT ![b] = "open"]
    /\ UNCHANGED <<winner, bond>>

Enter(b, i) ==
    /\ reward[b] = "open"
    /\ bond[b][i] = "none"
    /\ bond' = [bond EXCEPT ![b][i] = "held"]
    /\ UNCHANGED <<reward, winner>>

\* The winner has the bond back, and so has everybody who is told the race is over.
Win(b, i, others) ==
    /\ reward[b] = "open"
    /\ \A j \in others \cup {i} : bond[b][j] = "held"
    /\ reward' = [reward EXCEPT ![b] = "won"]
    /\ winner' = [winner EXCEPT ![b] = i]
    /\ bond' = [bond EXCEPT ![b] =
                   [j \in Contestant |-> IF j \in others \cup {i} THEN "returned" ELSE @[j]]]

ReturnReward(b) ==
    /\ reward[b] = "open"
    /\ reward' = [reward EXCEPT ![b] = "returned"]
    /\ UNCHANGED <<winner, bond>>

Decide(b, i, outcome) ==
    /\ bond[b][i] = "held"
    /\ bond' = [bond EXCEPT ![b][i] = outcome]
    /\ UNCHANGED <<reward, winner>>

Next ==
    \E b \in Contests :
        \/ Offer(b)
        \/ ReturnReward(b)
        \/ \E i \in Contestant :
             \/ Enter(b, i)
             \/ \E others \in SUBSET (Contestant \ {i}) : Win(b, i, others)
             \/ \E outcome \in {"returned", "forfeited"} : Decide(b, i, outcome)

Spec == Init /\ [][Next]_contestVars

=============================================================================
