----------------------------- MODULE PayoutMath -----------------------------
(***************************************************************************)
(* The arithmetic of a verdict: contracts/proof_bounty.py, the helpers     *)
(* that turn a reviewer's recommendation into the share that is paid.      *)
(*                                                                         *)
(* Everything here is a pure function of its arguments, so it is checked   *)
(* against reference definitions over bounded inputs (PayoutCheck).        *)
(***************************************************************************)
EXTENDS Integers

CONSTANTS
    BPS_DENOMINATOR,    \* 10000 in the code
    PAYOUT_BUCKET_BPS,  \* 500 in the code
    MAX_FEE_BPS,        \* 1000 in the code
    Malformed           \* a payout_bps that int() cannot read

ASSUME BucketAssumption ==
    /\ BPS_DENOMINATOR \in Nat \ {0}
    /\ PAYOUT_BUCKET_BPS \in Nat \ {0}
    /\ BPS_DENOMINATOR % PAYOUT_BUCKET_BPS = 0
    /\ 2 * PAYOUT_BUCKET_BPS <= BPS_DENOMINATOR
    /\ MAX_FEE_BPS \in 0 .. BPS_DENOMINATOR
    /\ Malformed \notin Int

-----------------------------------------------------------------------------
VALID_VERDICTS == {"APPROVED", "PARTIAL", "NEEDS_REVISION", "REJECTED", "INSUFFICIENT_EVIDENCE"}

ARBITER_VERDICTS == {"APPROVE", "REJECT", "PARTIAL"}

\* max(low, min(x, high))
Clamp(low, x, high) ==
    LET capped == IF x < high THEN x ELSE high IN IF low > capped THEN low ELSE capped

\* Mutant: the quotient is truncated.
RoundDown(n, d) == n \div d

\* round(n / d): to the nearest integer, halves to the even one.
RoundHalfEven(n, d) ==
    LET quotient == n \div d
        twice    == 2 * (n % d)
    IN  IF twice < d \/ (twice = d /\ quotient % 2 = 0) THEN quotient ELSE quotient + 1

\* Mutant: no clamp away from 0% and 100%.
BucketUnclamped(bps) ==
    RoundHalfEven(Clamp(0, bps, BPS_DENOMINATOR), PAYOUT_BUCKET_BPS) * PAYOUT_BUCKET_BPS

\* _bucket_payout_bps
Bucket(bps) ==
    LET bucketed == RoundHalfEven(Clamp(0, bps, BPS_DENOMINATOR), PAYOUT_BUCKET_BPS)
                      * PAYOUT_BUCKET_BPS
    IN  Clamp(PAYOUT_BUCKET_BPS, bucketed, BPS_DENOMINATOR - PAYOUT_BUCKET_BPS)

\* What a review that agreed on "verdict" and "bps" returns.  A PARTIAL share is
\* bucketed before validators compare it; an unreadable one counts as 0, and a
\* degenerate split collapses to the verdict it amounts to.
Reviewed(verdict, bps) ==
    LET share == IF bps = Malformed THEN 0
                 ELSE Clamp(0, Bucket(bps), BPS_DENOMINATOR)
    IN  CASE verdict \notin VALID_VERDICTS ->
                 [verdict |-> "NEEDS_REVISION", payout_bps |-> 0]
          [] verdict \in VALID_VERDICTS \ {"PARTIAL"} ->
                 [verdict |-> verdict, payout_bps |-> 0]
          [] verdict = "PARTIAL" /\ share <= 0 ->
                 [verdict |-> "REJECTED", payout_bps |-> share]
          [] verdict = "PARTIAL" /\ share >= BPS_DENOMINATOR ->
                 [verdict |-> "APPROVED", payout_bps |-> share]
          [] OTHER ->
                 [verdict |-> "PARTIAL", payout_bps |-> share]

\* _human_verdict_matches_ai_outcome; "" is an attempt that was never reviewed.
MatchesOutcome(aiVerdict, aiBps, humanVerdict, humanBps) ==
    \/ humanVerdict = "APPROVE" /\ aiVerdict = "APPROVED"
    \/ humanVerdict = "REJECT"  /\ aiVerdict = "REJECTED"
    \/ humanVerdict = "PARTIAL" /\ aiVerdict = "PARTIAL" /\ aiBps = humanBps

\* The challenger's gross share; payout_bps 0 stands for all of it.
ChallengerGross(reward, payout_bps) ==
    IF payout_bps <= 0 THEN reward ELSE (reward * payout_bps) \div BPS_DENOMINATOR

\* Mutant: the fee is taken from the reward, not from the gross share.
FeeOfReward(reward, payout_bps, fee_bps) == (reward * fee_bps) \div BPS_DENOMINATOR

\* _fee_and_net
PlatformFee(reward, payout_bps, fee_bps) ==
    (ChallengerGross(reward, payout_bps) * fee_bps) \div BPS_DENOMINATOR

ChallengerNet(reward, payout_bps, fee_bps) ==
    ChallengerGross(reward, payout_bps) - PlatformFee(reward, payout_bps, fee_bps)

ClientRefund(reward, payout_bps) == reward - ChallengerGross(reward, payout_bps)

-----------------------------------------------------------------------------
(* For the reference definitions: the shares a split can have. *)

Grid == {PAYOUT_BUCKET_BPS * k : k \in 1 .. (BPS_DENOMINATOR \div PAYOUT_BUCKET_BPS - 1)}

Distance(x, y) == IF x < y THEN y - x ELSE x - y

=============================================================================
