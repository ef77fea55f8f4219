---------------------------- MODULE PayoutProofs ----------------------------
(***************************************************************************)
(* The arithmetic of a settlement, for every denominator, bucket width and *)
(* highest fee: what PayoutCheck evaluates over a grid.                    *)
(***************************************************************************)
EXTENDS PayoutCheck, PayoutLemmas

LEMMA TermsTyped == Spec => [](terms \in Terms)
  <1>1. Init => terms \in Terms
    BY DEF Init
  <1>2. terms \in Terms /\ [Next]_terms => (terms \in Terms)'
    <2> SUFFICES ASSUME terms \in Terms, Next PROVE terms' \in Terms
      BY DEF Next
    <2> DEFINE reward == (terms.reward + 1) % (MaxReward + 1)
    <2>1. terms.reward \in Nat /\ MaxReward \in Nat
      BY RewardAssumption DEF Terms
    <2>2. reward \in 0 .. MaxReward
      BY <2>1
    <2>3. terms' = [terms EXCEPT !.reward = reward]
      BY DEF Next
    <2> HIDE DEF reward
    <2> QED BY <2>2, <2>3 DEF Terms
  <1> QED BY <1>1, <1>2, PTL DEF Spec

LEMMA RecommendedType ==
    ASSUME terms \in Terms
    PROVE  terms.bps \in Nat \cup {Malformed} /\ (terms.bps \in Int => terms.bps \in Nat)
  BY BucketAssumption DEF Terms

\* Whatever verdict and share the validators agree on, and however wide the buckets:
\* a review returns something that can be executed, at the nearest share.
THEOREM Executable == Spec => []FindingIsExecutable
  <1>1. terms \in Terms => FindingIsExecutable
    <2> SUFFICES ASSUME terms \in Terms PROVE FindingIsExecutable
      OBVIOUS
    <2> DEFINE finding == Reviewed(terms.verdict, terms.bps)
    <2>1. BucketIsNearest
      BY RecommendedType, BucketNearest DEF BucketIsNearest
    <2>2. /\ finding.verdict \in VALID_VERDICTS
          /\ finding.verdict = "PARTIAL" =>
               terms.verdict = "PARTIAL" /\ terms.bps \in Nat /\ finding.payout_bps = Bucket(terms.bps)
          /\ finding.verdict # "PARTIAL" => finding.payout_bps = 0
          /\ terms.verdict = "APPROVED" <=> finding.verdict = "APPROVED"
      BY RecommendedType, ReviewEnds
    <2>3. terms.bps \in Nat => Bucket(terms.bps) \in Grid
      BY BucketNearest
    <2> QED BY <2>1, <2>2, <2>3 DEF FindingIsExecutable
  <1> QED BY <1>1, TermsTyped, PTL

\* For every reward, share and fee the three parts are the reward.
THEOREM AddUp == Spec => []SharesAddUp
  <1>1. terms \in Terms => SharesAddUp
    <2> SUFFICES ASSUME terms \in Terms PROVE SharesAddUp
      OBVIOUS
    <2> DEFINE reward == terms.reward  rate == terms.fee_bps
               gross == ChallengerGross(reward, Share)
               fee == PlatformFee(reward, Share, rate)
    <2>1. reward \in Nat /\ rate \in Nat /\ rate <= BPS_DENOMINATOR /\ BPS_DENOMINATOR \in Nat
      BY BucketAssumption, RewardAssumption DEF Terms
    <2>2. Share \in Nat /\ Share <= BPS_DENOMINATOR
      <3>1. Share = 0 \/ (terms.bps \in Nat /\ Share = Bucket(terms.bps))
        BY RecommendedType, ReviewEnds DEF Share
      <3>2. terms.bps \in Nat => Bucket(terms.bps) \in Nat /\ Bucket(terms.bps) < BPS_DENOMINATOR
        BY BucketNearest, SharesOfGrid
      <3> QED BY <2>1, <3>1, <3>2
    <2>3. gross \in Nat /\ gross <= reward
      BY <2>1, <2>2, PartOf DEF ChallengerGross
    <2>4. fee \in Nat /\ fee <= gross /\ fee * BPS_DENOMINATOR <= gross * rate
      BY <2>1, <2>3, PartOf DEF PlatformFee
    <2>5. /\ ChallengerNet(reward, Share, rate) = gross - fee
          /\ ClientRefund(reward, Share) = reward - gross
      BY DEF ChallengerNet, ClientRefund
    <2> HIDE DEF reward, rate, gross, fee
    <2>6. /\ (gross - fee) + fee + (reward - gross) = reward
          /\ gross - fee >= 0 /\ reward - gross >= 0 /\ fee >= 0
      BY <2>1, <2>3, <2>4 DEF reward
    <2> QED BY <2>4, <2>5, <2>6 DEF SharesAddUp, reward, rate, gross, fee
  <1> QED BY <1>1, TermsTyped, PTL

=============================================================================
