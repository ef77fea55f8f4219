---------------------------- MODULE PayoutCheck -----------------------------
(***************************************************************************)
(* PayoutMath against reference definitions: every state is one settlement *)
(* to compute.                                                             *)
(***************************************************************************)
EXTENDS PayoutMath

CONSTANTS
    MaxReward,      \* bound: rewards up to this
    RawVerdict      \* verdicts a review may produce, valid or not

ASSUME RewardAssumption == MaxReward \in Nat

VARIABLE terms      \* reward, recommended share, fee rate and verdict

Terms ==
    [reward : 0 .. MaxReward, bps : 0 .. (BPS_DENOMINATOR + 1) \cup {Malformed},
     fee_bps : 0 .. MAX_FEE_BPS, verdict : RawVerdict]

Init == terms \in Terms

\* The next reward; every other term is chosen initially.
Next == terms' = [terms EXCEPT !.reward = (@ + 1) % (MaxReward + 1)]

Spec == Init /\ [][Next]_terms

-----------------------------------------------------------------------------
\* The bucket of a share is the grid point nearest to it, the even multiple of the
\* bucket width when two are equally near: two reviewers whose estimates fall on
\* the same side of every midpoint agree exactly.  (_bucket_payout_bps)
BucketIsNearest ==
    terms.bps \in Int =>
        LET bucket == Bucket(terms.bps) IN
        /\ bucket \in Grid
        /\ \A g \in Grid \ {bucket} :
             \/ Distance(bucket, terms.bps) < Distance(g, terms.bps)
             \/ /\ Distance(bucket, terms.bps) = Distance(g, terms.bps)
                /\ (bucket \div PAYOUT_BUCKET_BPS) % 2 = 0

\* A review always ends in something that can be executed: a split that is really
\* a split, at the share nearest to what was found, or one of the verdicts that need
\* none.  (_collect_verdict)
FindingIsExecutable ==
    BucketIsNearest /\
    LET finding == Reviewed(terms.verdict, terms.bps) IN
    /\ finding.verdict \in VALID_VERDICTS
    /\ IF finding.verdict = "PARTIAL"
       THEN finding.payout_bps \in Grid /\ terms.verdict = "PARTIAL"
       ELSE finding.payout_bps = 0
    /\ terms.verdict = "APPROVED" <=> finding.verdict = "APPROVED"

Share == Reviewed("PARTIAL", terms.bps).payout_bps

\* Nothing of a reward is lost or minted by the split, nobody's part is negative,
\* and the platform takes its rate of the winning share and not of the refund.
SharesAddUp ==
    LET gross  == ChallengerGross(terms.reward, Share)
        net    == ChallengerNet(terms.reward, Share, terms.fee_bps)
        fee    == PlatformFee(terms.reward, Share, terms.fee_bps)
        refund == ClientRefund(terms.reward, Share)
    IN  /\ net + fee + refund = terms.reward
        /\ net >= 0 /\ refund >= 0
        /\ fee >= 0 /\ fee * BPS_DENOMINATOR <= gross * terms.fee_bps

=============================================================================
