-------------------------- MODULE CrossChainProofs --------------------------
(***************************************************************************)
(* CrossChain, for every set of accounts, bounties and requests: what the  *)
(* relayer may conclude about one chain from what it read of the other.    *)
(* The inductive invariant is Consistent: the record of the contract is in *)
(* order, the positions on Base are those it has or had, and every request *)
(* and the sweep rely only on what has not changed since they read it.     *)
(*                                                                         *)
(* The contract on GenLayer is the module Adjudication, and what the       *)
(* relayer relies on is proved of it in AdjudicationProofs: Ledger is that *)
(* module with the constants and variables of this one.                    *)
(***************************************************************************)
EXTENDS CrossChain, TLAPS

Ledger == INSTANCE AdjudicationProofs WITH Owner <- Attestor, Pause <- {}

-----------------------------------------------------------------------------
(* Ledger and GenLayer are the same contract: each definition is the same  *)
(* text over the same names.                                               *)

LEMMA SameClamp ==
    \A low, x, high : GenLayer!Clamp(low, x, high) = Ledger!Clamp(low, x, high)
  BY DEF GenLayer!Clamp, Ledger!Clamp

LEMMA SameRoundHalfEven ==
    \A n, d : GenLayer!RoundHalfEven(n, d) = Ledger!RoundHalfEven(n, d)
  BY DEF GenLayer!RoundHalfEven, Ledger!RoundHalfEven

LEMMA SameBucket ==
    \A bps : GenLayer!Bucket(bps) = Ledger!Bucket(bps)
  BY SameClamp, SameRoundHalfEven DEF GenLayer!Bucket, Ledger!Bucket

LEMMA SameReviewed ==
    \A verdict, bps : GenLayer!Reviewed(verdict, bps) = Ledger!Reviewed(verdict, bps)
  BY SameBucket, SameClamp
  DEF GenLayer!Reviewed, Ledger!Reviewed, GenLayer!VALID_VERDICTS, Ledger!VALID_VERDICTS

LEMMA SameFinding ==
    GenLayer!Finding = Ledger!Finding
  BY SameReviewed DEF GenLayer!Finding, Ledger!Finding

LEMMA SameCredit ==
    \A rep, x, field, n :
        GenLayer!Credit(rep, x, field, n) = Ledger!Credit(rep, x, field, n)
  BY DEF GenLayer!Credit, Ledger!Credit

LEMMA SameStrike ==
    \A rep, a : GenLayer!Strike(rep, a) = Ledger!Strike(rep, a)
  BY SameCredit DEF GenLayer!Strike, Ledger!Strike

LEMMA SameChallengerNet ==
    \A reward, payout_bps, fee_bps :
        GenLayer!ChallengerNet(reward, payout_bps, fee_bps)
          = Ledger!ChallengerNet(reward, payout_bps, fee_bps)
  BY DEF GenLayer!ChallengerNet, Ledger!ChallengerNet, GenLayer!PlatformFee,
      Ledger!PlatformFee, GenLayer!ChallengerGross, Ledger!ChallengerGross

LEMMA SameLostRace ==
    \A b, winner, list :
        GenLayer!LostRace(b, winner, list) = Ledger!LostRace(b, winner, list)
  BY DEF GenLayer!LostRace, Ledger!LostRace, GenLayer!LIVE_STATES, Ledger!LIVE_STATES

LEMMA SameSettled ==
    \A b, i : GenLayer!Settled(b, i) = Ledger!Settled(b, i)
  BY DEF GenLayer!Settled, Ledger!Settled

LEMMA SameSettleRewardToWinner ==
    \A b, i, a, payout_bps, via_arbiter :
        GenLayer!SettleRewardToWinner(b, i, a, payout_bps, via_arbiter)
          <=> Ledger!SettleRewardToWinner(b, i, a, payout_bps, via_arbiter)
  BY SameCredit, SameLostRace, SameChallengerNet, SameSettled
  DEF GenLayer!SettleRewardToWinner, Ledger!SettleRewardToWinner, GenLayer!IsOpen, Ledger!IsOpen

LEMMA SameEffectiveBps ==
    \A finding : GenLayer!EffectiveBps(finding) = Ledger!EffectiveBps(finding)
  BY DEF GenLayer!EffectiveBps, Ledger!EffectiveBps

LEMMA SameSettleViaSecondConsensus ==
    ASSUME NEW b, NEW i, NEW a, NEW finding
    PROVE  GenLayer!SettleViaSecondConsensus(b, i, a, finding)
             <=> Ledger!SettleViaSecondConsensus(b, i, a, finding)
<1>1. GenLayer!Strike(reputation, a) = Ledger!Strike(reputation, a)
  BY SameStrike
<1>2. GenLayer!SettleRewardToWinner(b, i, a, GenLayer!EffectiveBps(finding), TRUE)
        <=> Ledger!SettleRewardToWinner(b, i, a, Ledger!EffectiveBps(finding), TRUE)
  BY Zenon, SameSettleRewardToWinner, SameEffectiveBps
<1>3. GenLayer!Forfeited(a, TRUE) = Ledger!Forfeited(a, TRUE)
  BY Zenon DEF GenLayer!Forfeited, Ledger!Forfeited
<1>4. \A status : GenLayer!Refunded(a, status) = Ledger!Refunded(a, status)
  BY DEF GenLayer!Refunded, Ledger!Refunded
<1>. QED
  BY Zenon, <1>1, <1>2, <1>3, <1>4
  DEF GenLayer!SettleViaSecondConsensus, Ledger!SettleViaSecondConsensus,
      GenLayer!RecordProvenance, Ledger!RecordProvenance, GenLayer!IsOpen, Ledger!IsOpen

LEMMA SameResolveDispute ==
    ASSUME NEW sender, NEW b, NEW i, NEW verdict, NEW bps
    PROVE  GenLayer!ResolveDispute(sender, b, i, verdict, bps)
             <=> Ledger!ResolveDispute(sender, b, i, verdict, bps)
<1>. DEFINE a == attempts[b][i]
<1>1. PICK share : share = GenLayer!RulingBps(verdict, bps)
  OBVIOUS
<1>2. Ledger!RulingBps(verdict, bps) = share
  BY <1>1, SameBucket DEF GenLayer!RulingBps, Ledger!RulingBps
<1>3. (~GenLayer!MatchesOutcome(a.last_verdict, a.last_payout_bps, verdict, share))
        = ~Ledger!MatchesOutcome(a.last_verdict, a.last_payout_bps, verdict, share)
  BY Zenon DEF GenLayer!MatchesOutcome, Ledger!MatchesOutcome
<1>. QED
  BY Zenon, <1>1, <1>2, <1>3 DEF GenLayer!ResolveDispute, Ledger!ResolveDispute

LEMMA SameRequestVerification ==
    ASSUME NEW b, NEW i, NEW finding
    PROVE  GenLayer!RequestVerification(b, i, finding)
             <=> Ledger!RequestVerification(b, i, finding)
<1>1. /\ GenLayer!Judged(b, i, finding) = Ledger!Judged(b, i, finding)
      /\ GenLayer!Revised(b, i, finding) = Ledger!Revised(b, i, finding)
  BY DEF GenLayer!Judged, Ledger!Judged, GenLayer!Revised, Ledger!Revised
<1>2. \A a : GenLayer!Exhausted(a) <=> Ledger!Exhausted(a)
  BY DEF GenLayer!Exhausted, Ledger!Exhausted
<1>3. \A a, status : GenLayer!Refunded(a, status) = Ledger!Refunded(a, status)
  BY DEF GenLayer!Refunded, Ledger!Refunded
<1>4. GenLayer!VerifyWinner(b, i, finding) <=> Ledger!VerifyWinner(b, i, finding)
  <2>1. GenLayer!SettleRewardToWinner(b, i, GenLayer!Judged(b, i, finding),
                                      GenLayer!EffectiveBps(finding), FALSE)
          <=> Ledger!SettleRewardToWinner(b, i, Ledger!Judged(b, i, finding),
                                          Ledger!EffectiveBps(finding), FALSE)
    BY Zenon, <1>1, SameSettleRewardToWinner, SameEffectiveBps
  <2>. QED
    BY Zenon, <2>1
    DEF GenLayer!VerifyWinner, Ledger!VerifyWinner, GenLayer!IsOpen, Ledger!IsOpen,
        GenLayer!RecordProvenance, Ledger!RecordProvenance
<1>5. /\ GenLayer!VerifyLostRace(b, i, finding) <=> Ledger!VerifyLostRace(b, i, finding)
      /\ GenLayer!VerifyInsufficient(b, i, finding) <=> Ledger!VerifyInsufficient(b, i, finding)
  BY <1>1, <1>2, <1>3
  DEF GenLayer!VerifyLostRace, Ledger!VerifyLostRace, GenLayer!VerifyInsufficient,
      Ledger!VerifyInsufficient, GenLayer!IsOpen, Ledger!IsOpen,
      GenLayer!RecordProvenance, Ledger!RecordProvenance
<1>6. GenLayer!VerifyResubmit(b, i, finding) <=> Ledger!VerifyResubmit(b, i, finding)
  BY <1>1, <1>2 DEF GenLayer!VerifyResubmit, Ledger!VerifyResubmit
<1>7. /\ GenLayer!VerifyRevisionsExhausted(b, i, finding)
           <=> Ledger!VerifyRevisionsExhausted(b, i, finding)
      /\ GenLayer!VerifyReject(b, i, finding) <=> Ledger!VerifyReject(b, i, finding)
  BY <1>1, <1>2, SameStrike
  DEF GenLayer!VerifyRevisionsExhausted, Ledger!VerifyRevisionsExhausted,
      GenLayer!VerifyReject, Ledger!VerifyReject,
      GenLayer!RecordProvenance, Ledger!RecordProvenance
<1>. QED
  BY <1>4, <1>5, <1>6, <1>7 DEF GenLayer!RequestVerification, Ledger!RequestVerification

LEMMA SameDecisions ==
    ASSUME NEW b, NEW i, NEW finding
    PROVE  /\ GenLayer!FinalizeArbiterResolution(b, i, finding)
                <=> Ledger!FinalizeArbiterResolution(b, i, finding)
           /\ GenLayer!ResolveAppeal(b, i, finding) <=> Ledger!ResolveAppeal(b, i, finding)
<1>1. /\ GenLayer!Reconsidered(attempts[b][i], finding)
           = Ledger!Reconsidered(attempts[b][i], finding)
      /\ GenLayer!AppealRecipient(b, attempts[b][i], finding)
           = Ledger!AppealRecipient(b, attempts[b][i], finding)
  BY Zenon, SameEffectiveBps
  DEF GenLayer!Reconsidered, Ledger!Reconsidered, GenLayer!AppealRecipient, Ledger!AppealRecipient,
      GenLayer!Counterparty, Ledger!Counterparty, GenLayer!MatchesOutcome, Ledger!MatchesOutcome
<1>2. \A a : GenLayer!SettleViaSecondConsensus(b, i, a, finding)
               <=> Ledger!SettleViaSecondConsensus(b, i, a, finding)
  BY SameSettleViaSecondConsensus
<1>. QED
  BY <1>1, <1>2
  DEF GenLayer!FinalizeArbiterResolution, Ledger!FinalizeArbiterResolution,
      GenLayer!ResolveAppeal, Ledger!ResolveAppeal, GenLayer!HasPassed, Ledger!HasPassed

LEMMA SameCreateBounty ==
    \A sender, b, arbiter, seconds, bond, reward :
        GenLayer!CreateBounty(sender, b, arbiter, seconds, bond, reward)
          <=> Ledger!CreateBounty(sender, b, arbiter, seconds, bond, reward)
  BY SameCredit DEF GenLayer!CreateBounty, Ledger!CreateBounty

LEMMA SameBountyCalls ==
    /\ \A sender, b : GenLayer!CancelBounty(sender, b) <=> Ledger!CancelBounty(sender, b)
    /\ \A sender, b :
         GenLayer!ClaimCreatorTimeout(sender, b) <=> Ledger!ClaimCreatorTimeout(sender, b)
    /\ \A sender, b, seconds :
         GenLayer!ExtendBountyDeadline(sender, b, seconds)
           <=> Ledger!ExtendBountyDeadline(sender, b, seconds)
  BY DEF GenLayer!CancelBounty, Ledger!CancelBounty, GenLayer!Cancellable, Ledger!Cancellable,
      GenLayer!IsOpen, Ledger!IsOpen, GenLayer!ClaimCreatorTimeout,
      Ledger!ClaimCreatorTimeout, GenLayer!DISPUTE_IN_PROGRESS_STATES,
      Ledger!DISPUTE_IN_PROGRESS_STATES, GenLayer!HasPassed, Ledger!HasPassed,
      GenLayer!ExtendBountyDeadline, Ledger!ExtendBountyDeadline

LEMMA SameReservationCalls ==
    /\ \A sender, b, r :
         GenLayer!ReserveAttempt(sender, b, r) <=> Ledger!ReserveAttempt(sender, b, r)
    /\ \A r : GenLayer!ExpireAttemptReservation(r) <=> Ledger!ExpireAttemptReservation(r)
  BY DEF GenLayer!ReserveAttempt, Ledger!ReserveAttempt, GenLayer!HasPassed, Ledger!HasPassed,
      GenLayer!IsOpen, Ledger!IsOpen, GenLayer!ExpireAttemptReservation,
      Ledger!ExpireAttemptReservation, GenLayer!IsOver, Ledger!IsOver

LEMMA SameAttemptFunding ==
    ASSUME NEW sender, NEW b, NEW r, NEW txHash
    PROVE  GenLayer!ConfirmAttemptFunding(sender, b, r, txHash)
             <=> Ledger!ConfirmAttemptFunding(sender, b, r, txHash)
<1>. DEFINE i == bounties[b].attempt_count
<1>1. GenLayer!ReservationAvailable(b, r) <=> Ledger!ReservationAvailable(b, r)
  BY DEF GenLayer!ReservationAvailable, Ledger!ReservationAvailable, GenLayer!IsOver, Ledger!IsOver
<1>2. GenLayer!ActivationOpen(b, i) <=> Ledger!ActivationOpen(b, i)
  BY DEF GenLayer!ActivationOpen, Ledger!ActivationOpen, GenLayer!IsOpen, Ledger!IsOpen
<1>3. GenLayer!Credit(reputation, reservations[r].challenger, "attempts_made", 1)
        = Ledger!Credit(reputation, reservations[r].challenger, "attempts_made", 1)
  BY SameCredit
<1>. QED
  BY Zenon, <1>1, <1>2, <1>3
  DEF GenLayer!ConfirmAttemptFunding, Ledger!ConfirmAttemptFunding

LEMMA SameAttemptCalls ==
    ASSUME NEW sender, NEW b, NEW i
    PROVE  /\ GenLayer!SubmitEvidence(sender, b, i) <=> Ledger!SubmitEvidence(sender, b, i)
           /\ GenLayer!ClaimBondForfeiture(sender, b, i)
                <=> Ledger!ClaimBondForfeiture(sender, b, i)
           /\ GenLayer!ReclaimBondAfterSettlement(sender, b, i)
                <=> Ledger!ReclaimBondAfterSettlement(sender, b, i)
           /\ GenLayer!RaiseDispute(sender, b, i) <=> Ledger!RaiseDispute(sender, b, i)
           /\ GenLayer!ForceDefaultResolution(sender, b, i)
                <=> Ledger!ForceDefaultResolution(sender, b, i)
<1>1. GenLayer!SubmitEvidence(sender, b, i) <=> Ledger!SubmitEvidence(sender, b, i)
  BY DEF GenLayer!SubmitEvidence, Ledger!SubmitEvidence, GenLayer!HasPassed, Ledger!HasPassed,
         GenLayer!IsOpen, Ledger!IsOpen
<1>2. GenLayer!ClaimBondForfeiture(sender, b, i) <=> Ledger!ClaimBondForfeiture(sender, b, i)
  BY Zenon, SameCredit
  DEF GenLayer!ClaimBondForfeiture, Ledger!ClaimBondForfeiture, GenLayer!RecordProvenance,
      Ledger!RecordProvenance, GenLayer!Strike, Ledger!Strike, GenLayer!Forfeited, Ledger!Forfeited
<1>3. GenLayer!ReclaimBondAfterSettlement(sender, b, i)
        <=> Ledger!ReclaimBondAfterSettlement(sender, b, i)
  BY DEF GenLayer!ReclaimBondAfterSettlement, Ledger!ReclaimBondAfterSettlement
<1>4. GenLayer!RaiseDispute(sender, b, i) <=> Ledger!RaiseDispute(sender, b, i)
  <2>1. GenLayer!IsParty(sender, b, i) <=> Ledger!IsParty(sender, b, i)
    BY DEF GenLayer!IsParty, Ledger!IsParty
  <2>2. GenLayer!Disputable(b, i) <=> Ledger!Disputable(b, i)
    BY DEF GenLayer!Disputable, Ledger!Disputable, GenLayer!LIVE_STATES, Ledger!LIVE_STATES
  <2>3. GenLayer!IsOpen(b) <=> Ledger!IsOpen(b)
    BY DEF GenLayer!IsOpen, Ledger!IsOpen
  <2>4. GenLayer!Credit(reputation, sender, "attempts_disputed", 1)
          = Ledger!Credit(reputation, sender, "attempts_disputed", 1)
    BY SameCredit
  <2>. QED
    BY Zenon, <2>1, <2>2, <2>3, <2>4 DEF GenLayer!RaiseDispute, Ledger!RaiseDispute
<1>5. GenLayer!ForceDefaultResolution(sender, b, i) <=> Ledger!ForceDefaultResolution(sender, b, i)
  BY DEF GenLayer!ForceDefaultResolution, Ledger!ForceDefaultResolution, GenLayer!IsParty,
         Ledger!IsParty, GenLayer!HasPassed, Ledger!HasPassed, GenLayer!Refunded, Ledger!Refunded
<1>. QED
  BY <1>1, <1>2, <1>3, <1>4, <1>5

LEMMA SameAppealCalls ==
    /\ \A sender, b, i :
         GenLayer!AppealArbiterResolution(sender, b, i)
           <=> Ledger!AppealArbiterResolution(sender, b, i)
    /\ \A sender, b, i, txHash :
         GenLayer!ConfirmAppealFunding(sender, b, i, txHash)
           <=> Ledger!ConfirmAppealFunding(sender, b, i, txHash)
    /\ \A sender, b, i :
         GenLayer!ConfirmAppealBinding(sender, b, i)
           <=> Ledger!ConfirmAppealBinding(sender, b, i)
    /\ \A b, i : GenLayer!ExpireAppealFunding(b, i) <=> Ledger!ExpireAppealFunding(b, i)
  BY DEF GenLayer!AppealArbiterResolution, Ledger!AppealArbiterResolution, GenLayer!HasPassed,
      Ledger!HasPassed, GenLayer!IsParty, Ledger!IsParty, GenLayer!ConfirmAppealFunding,
      Ledger!ConfirmAppealFunding, GenLayer!IsOver, Ledger!IsOver,
      GenLayer!ConfirmAppealBinding, Ledger!ConfirmAppealBinding,
      GenLayer!AppealAwaitsBinding, Ledger!AppealAwaitsBinding,
      GenLayer!ExpireAppealFunding, Ledger!ExpireAppealFunding,
      GenLayer!AppealFundingLapsed, Ledger!AppealFundingLapsed

LEMMA SameLedger ==
    /\ GenLayer!Init <=> Ledger!Init
    /\ GenLayer!Tick <=> Ledger!Tick
    /\ GenLayer!Participation <=> Ledger!Participation
<1>1. GenLayer!Init <=> Ledger!Init
  BY Zenon DEF GenLayer!Init, Ledger!Init, GenLayer!NoBounty, Ledger!NoBounty,
      GenLayer!UnissuedReservation, Ledger!UnissuedReservation, GenLayer!NoAttempt,
      Ledger!NoAttempt, GenLayer!NoReputation, Ledger!NoReputation
<1>2. GenLayer!Tick <=> Ledger!Tick
  BY Zenon DEF GenLayer!Tick, Ledger!Tick, GenLayer!Elapsed, Ledger!Elapsed, GenLayer!LongestGrace,
      Ledger!LongestGrace
<1>3. GenLayer!Participation <=> Ledger!Participation
  BY SameFinding, SameCreateBounty, SameBountyCalls, SameReservationCalls, SameRequestVerification,
     SameDecisions, SameAppealCalls, SameAttemptCalls, SameResolveDispute
  DEF GenLayer!Participation, Ledger!Participation
<1>. QED
  BY <1>1, <1>2, <1>3

-----------------------------------------------------------------------------
(* What is proved of the contract, for the constants of this module.       *)

LEMMA LedgerConstants ==
    /\ BPS_DENOMINATOR \in Nat \ {0} /\ PAYOUT_BUCKET_BPS \in Nat \ {0}
    /\ BPS_DENOMINATOR % PAYOUT_BUCKET_BPS = 0
    /\ 2 * PAYOUT_BUCKET_BPS <= BPS_DENOMINATOR
    /\ MAX_FEE_BPS \in 0 .. BPS_DENOMINATOR
    /\ Malformed \notin Int
    /\ BountyId # {} /\ NoOne \notin Account
    /\ Attestor \cup Attestor \cup Treasury \cup Creator \cup Arbiter \cup Challenger
         \subseteq Account
    /\ NoHash \notin TxHash
    /\ Reward \subseteq Nat /\ Bond \subseteq Nat /\ FeeBps \subseteq Nat
    /\ {} \subseteq BOOLEAN /\ Ruling \subseteq Ledger!ARBITER_VERDICTS
    /\ ReviewBps \subseteq Nat \cup {Malformed}
    /\ DEFAULT_MAX_REVISIONS \in Nat \ {0}
    /\ Ledger!IsFiniteSet(AttemptIndex)
    /\ AttemptIndex = 0 .. Ledger!Cardinality(AttemptIndex) - 1
    /\ DeadlineSeconds \subseteq Nat /\ ExtraSeconds \subseteq Nat
    /\ MIN_BOUNTY_DEADLINE_SECONDS \in Nat
    /\ FUNDING_RESERVATION_SECONDS \in Nat
    /\ VERIFICATION_GRACE_SECONDS \in Nat
    /\ APPEAL_WINDOW_SECONDS \in Nat
    /\ ARBITER_GRACE_SECONDS \in Nat
    /\ MaxDeadline \in Nat
<1>1. Ledger!IsFiniteSet(AttemptIndex) <=> IsFiniteSet(AttemptIndex)
  BY DEF Ledger!IsFiniteSet, IsFiniteSet
<1>2. Ledger!Cardinality(AttemptIndex) = Cardinality(AttemptIndex)
  BY <1>1 DEF Ledger!Cardinality, Cardinality, Ledger!IsFiniteSet, IsFiniteSet
<1>3. /\ Ledger!IsFiniteSet(AttemptIndex)
      /\ AttemptIndex = 0 .. Ledger!Cardinality(AttemptIndex) - 1
  BY <1>1, <1>2, TermsAssumption
<1>4. Ruling \subseteq Ledger!ARBITER_VERDICTS
  BY TermsAssumption DEF Ledger!ARBITER_VERDICTS
<1>. QED
  BY <1>3, <1>4, AccountAssumption, TermsAssumption, ShareAssumption, DurationAssumption

LEMMA LedgerBegins == Ledger!Init => Ledger!InOrder
BY LedgerConstants, Ledger!InitInOrder

LEMMA LedgerStays ==
    ASSUME Ledger!InOrder, [Ledger!Next]_Ledger!vars
    PROVE  Ledger!InOrder' /\ Ledger!AllKept
BY LedgerConstants, Ledger!StaysInOrder

LEMMA LedgerTick ==
    ASSUME Ledger!TypeOK, Ledger!Tick
    PROVE  \A b \in BountyId, i \in AttemptIndex : Ledger!WindowRuns(b, i)
BY LedgerConstants, Ledger!TickWindows

LEMMA LedgerCalls ==
    ASSUME Ledger!TypeOK, Ledger!Books,
           \/ Ledger!Participation
           \/ \E sender \in Account, b \in BountyId, r \in ReservationId, txHash \in TxHash :
                Ledger!ConfirmAttemptFunding(sender, b, r, txHash)
           \/ \E sender \in Account, b \in BountyId, i \in AttemptIndex, txHash \in TxHash :
                Ledger!ConfirmAppealFunding(sender, b, i, txHash)
    PROVE  \A b \in BountyId, i \in AttemptIndex :
             Ledger!WindowKept(b, i) /\ Ledger!Uncounted(b, i)
BY LedgerConstants, Ledger!CallWindows

LEMMA LedgerBinding ==
    ASSUME Ledger!TypeOK, NEW sender, NEW c \in BountyId, NEW j \in AttemptIndex,
           Ledger!ConfirmAppealBinding(sender, c, j), NEW b \in BountyId, NEW i \in AttemptIndex
    PROVE  /\ Ledger!WindowKept(b, i)
           /\ b # c \/ i # j => Ledger!Uncounted(b, i)
           /\ attempts[c][j].status = "APPEAL_FUNDED_PENDING_BINDING"
BY LedgerConstants, Ledger!BindingWindows

LEMMA LedgerIndices == AttemptIndex \subseteq Nat
BY LedgerConstants, Ledger!Indices

-----------------------------------------------------------------------------
(* The contract's record, in the terms of this module. *)

LEMMA BountyRead ==
    ASSUME Ledger!InOrder, NEW b \in BountyId
    PROVE  /\ bounties[b].creator \in Account \cup {NoOne}
           /\ bounties[b].reward_amount \in Nat /\ bounties[b].required_bond \in Nat
           /\ bounties[b].platform_fee_bps \in 0 .. MAX_FEE_BPS
           /\ bounties[b].attempt_count \in Nat
           /\ bounties[b].status = "NONE" => bounties[b].creator = NoOne
           /\ bounties[b].status = "SETTLED" => bounties[b].winning_attempt_index \in AttemptIndex
<1>1. bounties[b] \in Ledger!Bounty
  BY DEF Ledger!InOrder, Ledger!TypeOK
<1>2. /\ bounties[b].status = "NONE" => bounties[b] = Ledger!NoBounty
      /\ bounties[b].status = "SETTLED" => bounties[b].winning_attempt_index \in AttemptIndex
  BY DEF Ledger!InOrder, Ledger!Books, Ledger!BooksOf, Ledger!BountyBooks
<1>3. Ledger!NoBounty.creator = NoOne
  BY DEF Ledger!NoBounty
<1>. QED
  BY <1>1, <1>2, <1>3 DEF Ledger!Bounty

LEMMA AttemptRead ==
    ASSUME Ledger!InOrder, NEW b \in BountyId, NEW i \in AttemptIndex
    PROVE  LET a == attempts[b][i] IN
           /\ a.challenger \in Account \cup {NoOne} /\ a.appealed_by \in Account \cup {NoOne}
           /\ a.bond_amount \in Nat /\ a.last_payout_bps \in 0 .. BPS_DENOMINATOR
           /\ a.appeal_deadline \in Int /\ a.appeal_deadline <= APPEAL_WINDOW_SECONDS
           /\ a.appeal_bond_recipient \in Account \cup {NoOne}
           /\ a.appeal_base_funding_tx_hash \in TxHash \cup {NoHash}
           /\ a.status # "NONE" => a.bond_amount = bounties[b].required_bond
           /\ a.status = "WON" =>
                bounties[b].status = "SETTLED" /\ bounties[b].winning_attempt_index = i
           /\ a.appeal_bond_recipient # NoOne => a.status \in Ledger!TERMINAL_STATES
<1>1. attempts[b][i] \in Ledger!Attempt
  BY DEF Ledger!InOrder, Ledger!TypeOK
<1>2. Ledger!Agreed(b, i)
  BY DEF Ledger!InOrder
<1>3. Ledger!BooksOf(bounties[b], attempts[b], contested[b])
  BY DEF Ledger!InOrder, Ledger!Books
<1>4. /\ attempts[b][i].status = "WON" =>
           bounties[b].status = "SETTLED" /\ bounties[b].winning_attempt_index = i
      /\ Ledger!AttemptBooks(bounties[b].creator, attempts[b][i])
  BY <1>3 DEF Ledger!BooksOf
<1>5. attempts[b][i].appeal_bond_recipient # NoOne => attempts[b][i].status \in Ledger!TERMINAL_STATES
  BY <1>4 DEF Ledger!AttemptBooks
<1>6. LET a == attempts[b][i] IN
      /\ a.challenger \in Account \cup {NoOne} /\ a.appealed_by \in Account \cup {NoOne}
      /\ a.bond_amount \in Nat /\ a.last_payout_bps \in 0 .. BPS_DENOMINATOR
      /\ a.appeal_deadline \in Int
      /\ a.appeal_bond_recipient \in Account \cup {NoOne}
      /\ a.appeal_base_funding_tx_hash \in TxHash \cup {NoHash}
  BY <1>1 DEF Ledger!Attempt
<1>. QED
  BY <1>2, <1>4, <1>5, <1>6 DEF Ledger!Agreed

LEMMA ReservationRead ==
    ASSUME Ledger!InOrder, NEW r \in ReservationId
    PROVE  LET p == reservations[r] IN
           /\ p.bounty_id \in BountyId /\ p.challenger \in Account \cup {NoOne}
           /\ p.status # "NONE" <=> p.challenger # NoOne
           /\ p.status = "ACTIVATED" =>
                /\ p.activated_attempt_index \in AttemptIndex
                /\ attempts[p.bounty_id][p.activated_attempt_index].status # "NONE"
                /\ attempts[p.bounty_id][p.activated_attempt_index].challenger = p.challenger
<1>. DEFINE p == reservations[r]
            b == p.bounty_id
            i == p.activated_attempt_index
<1>1. p.bounty_id \in BountyId /\ p.challenger \in Account \cup {NoOne}
  BY DEF Ledger!InOrder, Ledger!TypeOK, Ledger!AttemptReservation
<1>2. Ledger!ReservationBooks(p)
  BY DEF Ledger!InOrder
<1>3. CASE p.status = "ACTIVATED"
  <2>1. i \in AttemptIndex
    BY <1>2, <1>3 DEF Ledger!ReservationBooks
  <2>2. Ledger!Reserved(b, i)
    BY <1>1, <2>1 DEF Ledger!InOrder
  <2>3. r \in Ledger!Origin(b, i)
    BY <1>3 DEF Ledger!Origin
  <2>4. attempts[b][i].status # "NONE" /\ attempts[b][i].challenger = p.challenger
    <3>1. /\ attempts[b][i].status # "NONE"
          /\ \E s \in Ledger!Origin(b, i) :
               /\ Ledger!Origin(b, i) = {s}
               /\ reservations[s].challenger = attempts[b][i].challenger
      BY <2>2, <2>3 DEF Ledger!Reserved
    <3>2. PICK s \in Ledger!Origin(b, i) :
            /\ Ledger!Origin(b, i) = {s}
            /\ reservations[s].challenger = attempts[b][i].challenger
      BY <3>1
    <3>3. s = r
      BY <2>3, <3>2
    <3>. QED
      BY <3>1, <3>2, <3>3
  <2>. QED
    BY <1>1, <1>2, <2>1, <2>4 DEF Ledger!ReservationBooks
<1>4. CASE p.status # "ACTIVATED"
  BY <1>1, <1>2, <1>4 DEF Ledger!ReservationBooks
<1>. QED
  BY <1>3, <1>4

-----------------------------------------------------------------------------
(* What the relayer has read is still so when it uses it. *)

\* What request h relies on.  A request about a reservation has compared it with the
\* receipt, and goes on to the position only once GenLayer activated it; a request
\* about an appeal reports the binding only after it.
Handles(h, receiptSet, reservationOf, positions) ==
    LET receipt == h.receipt IN
    \/ h = Idle
    \/ /\ h = [pc |-> h.pc, receipt |-> receipt, seen |-> h.seen]
       /\ receipt \in receiptSet
       /\ receipt.kind = "reservation" =>
            /\ h.pc # "received" =>
                 /\ reservationOf[receipt.slot].bounty_id = receipt.b
                 /\ reservationOf[receipt.slot].challenger = receipt.payer
            /\ h.pc \in {"position", "bind"} => reservationOf[receipt.slot].status = "ACTIVATED"
       /\ receipt.kind = "appeal" /\ h.pc = "activate" =>
            positions[receipt.b][receipt.slot].appealBound

\* The fields of a finalized attempt, as the sweep keeps them.
Sight ==
    [status : Ledger!ATTEMPT_STATUS, challenger : Account \cup {NoOne},
     last_payout_bps : 0 .. BPS_DENOMINATOR, appealed_by : Account \cup {NoOne},
     appeal_bond_recipient : Account \cup {NoOne},
     appeal_base_funding_tx_hash : TxHash \cup {NoHash}]

\* The stages of the sweep, and what it relies on in each.  It remembers that a bounty
\* can be refunded, which stays so, and an attempt, which need not be what it was
\* unless it was terminal.
AboutBounty(s, bountyOf) ==
    /\ s = [pc |-> s.pc, b |-> s.b, live |-> s.live]
    /\ s.pc \in {"base", "register"} /\ s.b \in BountyId
    /\ bountyOf[s.b].status # "NONE"
    /\ s.live \in REFUNDABLE => bountyOf[s.b].status \in REFUNDABLE

AboutRefund(s, bountyOf) ==
    /\ s = [pc |-> "refund", b |-> s.b, nonce |-> s.nonce]
    /\ s.b \in BountyId
    /\ bountyOf[s.b].status \in REFUNDABLE

BeforeAttempt(s) ==
    \/ s = [pc |-> "attempt", b |-> s.b, i |-> s.i, nonce |-> s.nonce]
       /\ s.b \in BountyId /\ s.i \in Nat
    \/ s = [pc |-> "refresh", b |-> s.b, i |-> s.i]
       /\ s.b \in BountyId /\ s.i \in AttemptIndex

AboutAttempt(s, attemptOf, positions) ==
    /\ s = [pc |-> s.pc, b |-> s.b, i |-> s.i, nonce |-> s.nonce, fresh |-> s.fresh]
    /\ s.pc \in {"position", "bind", "activate", "execute"}
    /\ s.b \in BountyId /\ s.i \in AttemptIndex /\ s.fresh \in Sight
    /\ attemptOf[s.b][s.i].status # "NONE"
    /\ s.fresh.status \in Ledger!TERMINAL_STATES => s.fresh = Fresh(attemptOf[s.b][s.i])
    /\ s.pc = "activate" => positions[s.b][s.i].appealBound

Sweeps(s, bountyOf, attemptOf, positions) ==
    \/ s = Idle
    \/ AboutBounty(s, bountyOf)
    \/ AboutRefund(s, bountyOf)
    \/ BeforeAttempt(s)
    \/ AboutAttempt(s, attemptOf, positions)

\* Bindings are not undone.
BindingsStay ==
    \A b \in BountyId, i \in AttemptIndex :
        baseAttempts[b][i].appealBound => baseAttempts'[b][i].appealBound

LEMMA RequestsStay ==
    ASSUME Ledger!InOrder, Ledger!AllKept, BindingsStay,
           receipts \subseteq Receipt, receipts \subseteq receipts',
           NEW h, Handles(h, receipts, reservations, baseAttempts)
    PROVE  Handles(h, receipts', reservations', baseAttempts')
<1>1. CASE h = Idle
  BY <1>1 DEF Handles
<1>2. CASE h # Idle
  <2>. DEFINE receipt == h.receipt
  <2>1. /\ h = [pc |-> h.pc, receipt |-> receipt, seen |-> h.seen]
        /\ receipt \in receipts
        /\ receipt.kind = "reservation" =>
             /\ h.pc # "received" =>
                  /\ reservations[receipt.slot].bounty_id = receipt.b
                  /\ reservations[receipt.slot].challenger = receipt.payer
             /\ h.pc \in {"position", "bind"} => reservations[receipt.slot].status = "ACTIVATED"
        /\ receipt.kind = "appeal" /\ h.pc = "activate" =>
             baseAttempts[receipt.b][receipt.slot].appealBound
    BY <1>2 DEF Handles
  <2>2. /\ receipt.b \in BountyId /\ receipt.payer \in Account
        /\ receipt.kind = "reservation" => receipt.slot \in ReservationId
        /\ receipt.kind = "appeal" => receipt.slot \in AttemptIndex
    BY <2>1 DEF Receipt
  <2>3. ASSUME receipt.kind = "reservation"
        PROVE  /\ h.pc # "received" =>
                    /\ reservations'[receipt.slot].bounty_id = receipt.b
                    /\ reservations'[receipt.slot].challenger = receipt.payer
               /\ h.pc \in {"position", "bind"} =>
                    reservations'[receipt.slot].status = "ACTIVATED"
    <3>1. Ledger!ReservationSucceeds(reservations[receipt.slot], reservations'[receipt.slot])
      BY <2>2, <2>3 DEF Ledger!AllKept
    <3>2. reservations[receipt.slot].status # "NONE" <=> reservations[receipt.slot].challenger # NoOne
      BY <2>2, <2>3, ReservationRead
    <3>3. receipt.payer # NoOne
      BY <2>2, AccountAssumption
    <3>. QED
      BY <2>1, <2>3, <3>1, <3>2, <3>3 DEF Ledger!ReservationSucceeds
  <2>4. receipt.kind = "appeal" /\ h.pc = "activate" =>
          baseAttempts'[receipt.b][receipt.slot].appealBound
    BY <2>1, <2>2 DEF BindingsStay
  <2>. HIDE DEF receipt
  <2>5. receipt \in receipts'
    BY <2>1
  <2>. QED
    BY <2>1, <2>3, <2>4, <2>5 DEF Handles, receipt
<1>. QED
  BY <1>1, <1>2

LEMMA SweepStays ==
    ASSUME Ledger!InOrder, Ledger!AllKept, BindingsStay,
           NEW s, Sweeps(s, bounties, attempts, baseAttempts)
    PROVE  Sweeps(s, bounties', attempts', baseAttempts')
<1>1. ASSUME NEW b \in BountyId
      PROVE  /\ bounties[b].status # "NONE" => bounties'[b].status # "NONE"
             /\ bounties[b].status \in REFUNDABLE => bounties'[b].status \in REFUNDABLE
  BY DEF Ledger!AllKept, Ledger!BountyKept, REFUNDABLE
<1>2. CASE AboutBounty(s, bounties) \/ AboutRefund(s, bounties)
  BY <1>1, <1>2 DEF Sweeps, AboutBounty, AboutRefund
<1>3. CASE AboutAttempt(s, attempts, baseAttempts)
  <2>. DEFINE a == attempts[s.b][s.i]
              z == attempts'[s.b][s.i]
  <2>1. /\ s.b \in BountyId /\ s.i \in AttemptIndex /\ a.status # "NONE"
        /\ s.fresh.status \in Ledger!TERMINAL_STATES => s.fresh = Fresh(a)
        /\ s.pc = "activate" => baseAttempts[s.b][s.i].appealBound
    BY <1>3 DEF AboutAttempt
  <2>2. Ledger!AttemptKept(s.b, s.i)
    BY <2>1 DEF Ledger!AllKept
  <2>3. z.status # "NONE"
    BY <2>1, <2>2 DEF Ledger!AttemptKept
  <2>4. s.fresh.status \in Ledger!TERMINAL_STATES => s.fresh = Fresh(z)
    <3>1. CASE s.fresh.status \in Ledger!TERMINAL_STATES
      <4>1. a.status \in Ledger!TERMINAL_STATES
        BY <2>1, <3>1 DEF Fresh
      <4>2. Fresh(z) = Fresh(a)
        BY <2>1, <2>2, <4>1 DEF Ledger!AttemptKept, Fresh
      <4>. QED
        BY <2>1, <3>1, <4>2
    <3>. QED
      BY <3>1
  <2>5. s.pc = "activate" => baseAttempts'[s.b][s.i].appealBound
    BY <2>1 DEF BindingsStay
  <2>. QED
    BY <1>3, <2>3, <2>4, <2>5 DEF Sweeps, AboutAttempt
<1>. QED
  BY <1>2, <1>3 DEF Sweeps

-----------------------------------------------------------------------------
(* What money on Base has to do with the record on GenLayer. *)

BaseTyped ==
    /\ now \in Nat
    /\ baseBounties \in [BountyId -> Base!BountyRecord]
    /\ pendingAttempts \in [BountyId -> [ReservationId -> Base!PendingAttemptRecord]]
    /\ baseAttempts \in [BountyId -> [AttemptIndex -> Base!AttemptRecord]]
    /\ claimable \in [Account -> Int]

\* A registered bounty is funded, on the terms of GenLayer.
Registered(b) == baseBounties[b].registered => TermsMatch(b) /\ baseBounties[b].creator # NoOne

\* Position p, of the bounty record y, is attempt i of b: the activation of its reservation.
BoundTo(p, y, b, i, reservationOf) ==
    p.challenger # NoOne =>
        /\ y.registered
        /\ p.reservationId \in ReservationId
        /\ reservationOf[p.reservationId].status = "ACTIVATED"
        /\ reservationOf[p.reservationId].bounty_id = b
        /\ reservationOf[p.reservationId].activated_attempt_index = i
        /\ reservationOf[p.reservationId].challenger = p.challenger

\* The window left to appeal against a, at time t, is no longer than what the window of
\* a deposit authorized at "made" can have left.
WindowEnds(a, t, made) ==
    a.appeal_deadline <= 0 \/ a.appeal_deadline + (t - made) <= APPEAL_WINDOW_SECONDS

\* The appeal deposit in p, at time t: made after the ruling, of the required bond; it
\* stays bound until it is paid or the appeal cannot be made any more; and an appeal
\* that counts has it.
DepositOf(p, y, a, t) ==
    /\ p.appealBond # 0 =>
         /\ y.registered /\ p.appealBond = y.requiredBond
         /\ a.status \in Ledger!AFTER_RULING
         /\ WindowEnds(a, t, p.appealAuthorizationExpiry)
    /\ p.appealBound => p.settled \/ p.appealBond # 0 \/ Ledger!Closed(a)
    /\ a.bond_amount > 0 /\ Ledger!AppealCounts(a) =>
         p.settled \/ (p.appealBond = a.bond_amount /\ p.appealBound)

Position(b, i) ==
    /\ BoundTo(baseAttempts[b][i], baseBounties[b], b, i, reservations)
    /\ DepositOf(baseAttempts[b][i], baseBounties[b], attempts[b][i], now)

\* A settled reward went where GenLayer's closed bounty says.
Rewarded(b) ==
    baseBounties[b].rewardSettled =>
        IF bounties[b].status = "SETTLED"
        THEN baseAttempts[b][bounties[b].winning_attempt_index].settled
        ELSE bounties[b].status \in {"CANCELLED", "EXPIRED_REFUNDED"}

BaseMatches ==
    /\ BaseTyped
    /\ \A b \in BountyId : Registered(b) /\ Rewarded(b)
    /\ \A b \in BountyId, i \in AttemptIndex : Position(b, i)

\* An appeal is authorized only after the ruling.
Authorized ==
    \A b \in BountyId, i \in AttemptIndex, payer \in Account :
        <<b, i, payer>> \in issued => attempts[b][i].status \in Ledger!AFTER_RULING

\* Receipts are of transactions, and every request may rely on what it has read.
Requests ==
    /\ receipts \subseteq Receipt
    /\ handler = [q \in Handler |-> handler[q]]
    /\ \A q \in Handler : Handles(handler[q], receipts, reservations, baseAttempts)

\* The inductive invariant.
Consistent ==
    /\ Ledger!InOrder
    /\ BaseMatches
    /\ Authorized
    /\ Requests
    /\ Sweeps(sweep, bounties, attempts, baseAttempts)

-----------------------------------------------------------------------------
(* The contract moves on and Base stays.                                   *)

LEMMA RegistrationStays ==
    ASSUME Ledger!InOrder, Ledger!AllKept, NEW b \in BountyId, Registered(b),
           UNCHANGED baseBounties
    PROVE  Registered(b)'
<1>1. CASE baseBounties[b].registered
  <2>1. TermsMatch(b) /\ baseBounties[b].creator # NoOne
    BY <1>1 DEF Registered
  <2>2. bounties[b].status # "NONE"
    BY <2>1, BountyRead DEF TermsMatch
  <2>3. /\ bounties'[b].creator = bounties[b].creator
        /\ bounties'[b].reward_amount = bounties[b].reward_amount
        /\ bounties'[b].required_bond = bounties[b].required_bond
        /\ bounties'[b].platform_fee_bps = bounties[b].platform_fee_bps
    BY <2>2 DEF Ledger!AllKept, Ledger!BountyKept, Ledger!SameTerms
  <2>. QED
    BY <2>1, <2>3 DEF Registered, TermsMatch
<1>2. CASE ~baseBounties[b].registered
  BY <1>2 DEF Registered
<1>. QED
  BY <1>1, <1>2

LEMMA RewardStays ==
    ASSUME Ledger!AllKept, NEW b \in BountyId, Rewarded(b),
           UNCHANGED <<baseBounties, baseAttempts>>
    PROVE  Rewarded(b)'
<1>1. CASE baseBounties[b].rewardSettled
  <2>1. bounties[b].status \notin {"NONE", "OPEN"}
    BY <1>1 DEF Rewarded
  <2>2. /\ bounties'[b].status = bounties[b].status
        /\ bounties'[b].winning_attempt_index = bounties[b].winning_attempt_index
    BY <2>1 DEF Ledger!AllKept, Ledger!BountyKept
  <2>. QED
    BY <2>2 DEF Rewarded
<1>2. CASE ~baseBounties[b].rewardSettled
  BY <1>2 DEF Rewarded
<1>. QED
  BY <1>1, <1>2

LEMMA BindingFollows ==
    ASSUME Ledger!AllKept, NEW p, NEW y, NEW b, NEW i, BoundTo(p, y, b, i, reservations)
    PROVE  BoundTo(p, y, b, i, reservations')
<1>1. CASE p.challenger # NoOne
  <2>1. p.reservationId \in ReservationId
    BY <1>1 DEF BoundTo
  <2>2. Ledger!ReservationSucceeds(reservations[p.reservationId], reservations'[p.reservationId])
    BY <2>1 DEF Ledger!AllKept
  <2>. QED
    BY <1>1, <2>2 DEF BoundTo, Ledger!ReservationSucceeds
<1>2. CASE p.challenger = NoOne
  BY <1>2 DEF BoundTo
<1>. QED
  BY <1>1, <1>2

\* An attempt whose appeal counts exists, and so does one that has been ruled on.
LEMMA CountsExists ==
    ASSUME Ledger!InOrder, NEW b \in BountyId, NEW i \in AttemptIndex,
           Ledger!AppealCounts(attempts[b][i])
    PROVE  attempts[b][i].status # "NONE"
BY AttemptRead DEF Ledger!AppealCounts, Ledger!TERMINAL_STATES

\* A call moves a to z, the clock stands still.
LEMMA DepositStays ==
    ASSUME NEW p, NEW y, NEW a, NEW z, NEW t, DepositOf(p, y, a, t),
           a.status \in Ledger!AFTER_RULING =>
             z.status \in Ledger!AFTER_RULING /\ z.appeal_deadline = a.appeal_deadline,
           Ledger!Closed(a) => Ledger!Closed(z),
           Ledger!AppealCounts(z) => Ledger!AppealCounts(a) \/ z.bond_amount = 0,
           Ledger!AppealCounts(a) => z.bond_amount = a.bond_amount
    PROVE  DepositOf(p, y, z, t)
<1>1. p.appealBond # 0 =>
        /\ y.registered /\ p.appealBond = y.requiredBond
        /\ z.status \in Ledger!AFTER_RULING
        /\ WindowEnds(z, t, p.appealAuthorizationExpiry)
  BY DEF DepositOf, WindowEnds
<1>2. p.appealBound => p.settled \/ p.appealBond # 0 \/ Ledger!Closed(z)
  BY DEF DepositOf
<1>3. z.bond_amount > 0 /\ Ledger!AppealCounts(z) =>
        p.settled \/ (p.appealBond = z.bond_amount /\ p.appealBound)
  BY DEF DepositOf
<1>. QED
  BY <1>1, <1>2, <1>3 DEF DepositOf

\* A second passes.
LEMMA DepositAges ==
    ASSUME NEW p, NEW y, NEW a, NEW z, NEW t \in Nat, DepositOf(p, y, a, t),
           p.appealAuthorizationExpiry \in Nat,
           a.appeal_deadline \in Int, z.appeal_deadline \in Int,
           a.status \in Ledger!AFTER_RULING => z.status \in Ledger!AFTER_RULING,
           z.appeal_deadline <= 0 \/ z.appeal_deadline <= a.appeal_deadline - 1,
           Ledger!Closed(a) => Ledger!Closed(z),
           Ledger!AppealCounts(z) => Ledger!AppealCounts(a),
           Ledger!AppealCounts(a) => z.bond_amount = a.bond_amount
    PROVE  DepositOf(p, y, z, t + 1)
<1>1. ASSUME WindowEnds(a, t, p.appealAuthorizationExpiry)
      PROVE  WindowEnds(z, t + 1, p.appealAuthorizationExpiry)
  <2>1. \A d, e, m \in Int : /\ d <= 0 \/ d + (t - m) <= APPEAL_WINDOW_SECONDS
                             /\ e <= 0 \/ e <= d - 1
                             => e <= 0 \/ e + (t + 1 - m) <= APPEAL_WINDOW_SECONDS
    BY DurationAssumption
  <2>2. PICK d \in Int : d = a.appeal_deadline
    OBVIOUS
  <2>3. PICK e \in Int : e = z.appeal_deadline
    OBVIOUS
  <2>4. PICK m \in Int : m = p.appealAuthorizationExpiry
    OBVIOUS
  <2>5. d <= 0 \/ d + (t - m) <= APPEAL_WINDOW_SECONDS
    BY ONLY <1>1, <2>2, <2>4 DEF WindowEnds
  <2>6. e <= 0 \/ e <= d - 1
    BY ONLY <2>2, <2>3, z.appeal_deadline <= 0 \/ z.appeal_deadline <= a.appeal_deadline - 1
  <2>7. e <= 0 \/ e + (t + 1 - m) <= APPEAL_WINDOW_SECONDS
    BY ONLY <2>1, <2>5, <2>6, d \in Int, e \in Int, m \in Int
  <2>. QED
    BY ONLY <2>7, <2>3, <2>4 DEF WindowEnds
<1>2. p.appealBond # 0 =>
        /\ y.registered /\ p.appealBond = y.requiredBond
        /\ z.status \in Ledger!AFTER_RULING
        /\ WindowEnds(z, t + 1, p.appealAuthorizationExpiry)
  BY <1>1 DEF DepositOf
<1>3. p.appealBound => p.settled \/ p.appealBond # 0 \/ Ledger!Closed(z)
  BY DEF DepositOf
<1>4. z.bond_amount > 0 /\ Ledger!AppealCounts(z) =>
        p.settled \/ (p.appealBond = z.bond_amount /\ p.appealBound)
  BY DEF DepositOf
<1>. QED
  BY <1>2, <1>3, <1>4 DEF DepositOf

\* GenLayer reports a binding of a bound deposit: a, which waited for it, becomes z.
LEMMA DepositCounts ==
    ASSUME NEW p, NEW y, NEW a, NEW z, NEW t, DepositOf(p, y, a, t),
           p.appealBound, p.appealBond \in Nat,
           p.appealBond # 0 => y.requiredBond = a.bond_amount,
           a.status = "APPEAL_FUNDED_PENDING_BINDING",
           z.status \in Ledger!AFTER_RULING, z.appeal_deadline = a.appeal_deadline,
           z.bond_amount = a.bond_amount
    PROVE  DepositOf(p, y, z, t)
<1>1. ~Ledger!Closed(a)
  BY DEF Ledger!Closed, Ledger!TERMINAL_STATES
<1>2. p.settled \/ p.appealBond # 0
  BY <1>1 DEF DepositOf
<1>3. p.appealBond # 0 => p.appealBond = z.bond_amount
  BY DEF DepositOf
<1>4. p.appealBond # 0 =>
        /\ y.registered /\ p.appealBond = y.requiredBond
        /\ z.status \in Ledger!AFTER_RULING
        /\ WindowEnds(z, t, p.appealAuthorizationExpiry)
  BY DEF DepositOf, WindowEnds
<1>. QED
  BY <1>2, <1>3, <1>4 DEF DepositOf

-----------------------------------------------------------------------------
(* Base moves on and the contract stays.                                   *)

\* A step that settles nothing: what it may do to Base, and to what was read of it.
NothingSettles ==
    \A b \in BountyId, i \in AttemptIndex :
        baseAttempts'[b][i].settled => baseAttempts[b][i].settled

KeepsBase == BaseMatches' /\ BindingsStay /\ NothingSettles

LEMMA BountyChange ==
    ASSUME BaseMatches, NEW b \in BountyId, NEW y \in Base!BountyRecord,
           baseBounties' = [baseBounties EXCEPT ![b] = y],
           UNCHANGED <<glVars, now, baseAttempts>>,
           pendingAttempts' \in [BountyId -> [ReservationId -> Base!PendingAttemptRecord]],
           claimable' \in [Account -> Int],
           Registered(b)', Rewarded(b)',
           baseBounties[b].registered =>
             y.registered /\ y.requiredBond = baseBounties[b].requiredBond
    PROVE  KeepsBase
<1>1. BaseTyped
  BY DEF BaseMatches
<1>2. baseBounties'[b] = y /\ \A c \in BountyId \ {b} : baseBounties'[c] = baseBounties[c]
  BY <1>1 DEF BaseTyped
<1>3. BaseTyped'
  BY <1>1 DEF BaseTyped
<1>4. ASSUME NEW c \in BountyId
      PROVE  Registered(c)' /\ Rewarded(c)'
  <2>1. CASE c = b
    BY <2>1
  <2>2. CASE c # b
    <3>1. Registered(c) /\ Rewarded(c)
      BY DEF BaseMatches
    <3>2. baseBounties'[c] = baseBounties[c]
      BY <1>2, <2>2
    <3>. QED
      BY <3>1, <3>2 DEF Registered, Rewarded, TermsMatch, glVars
  <2>. QED
    BY <2>1, <2>2
<1>5. ASSUME NEW c \in BountyId, NEW i \in AttemptIndex
      PROVE  Position(c, i)'
  <2>1. Position(c, i)
    BY DEF BaseMatches
  <2>2. baseBounties[c].registered =>
          /\ baseBounties'[c].registered
          /\ baseBounties'[c].requiredBond = baseBounties[c].requiredBond
    BY <1>2
  <2>. QED
    BY <2>1, <2>2 DEF Position, BoundTo, DepositOf, glVars
<1>6. BindingsStay /\ NothingSettles
  BY DEF BindingsStay, NothingSettles
<1>. QED
  BY <1>3, <1>4, <1>5, <1>6 DEF BaseMatches, KeepsBase

LEMMA PositionChange ==
    ASSUME Ledger!InOrder, BaseMatches, NEW b \in BountyId, NEW i \in AttemptIndex,
           NEW y \in Base!BountyRecord, NEW p \in Base!AttemptRecord,
           baseBounties' = [baseBounties EXCEPT ![b] = y],
           baseAttempts' = [baseAttempts EXCEPT ![b][i] = p],
           UNCHANGED <<glVars, now>>,
           pendingAttempts' \in [BountyId -> [ReservationId -> Base!PendingAttemptRecord]],
           claimable' \in [Account -> Int],
           y.creator = baseBounties[b].creator, y.reward = baseBounties[b].reward,
           y.requiredBond = baseBounties[b].requiredBond, y.feeBps = baseBounties[b].feeBps,
           y.registered = baseBounties[b].registered,
           y.rewardSettled =>
             \/ baseBounties[b].rewardSettled
             \/ bounties[b].status = "SETTLED" /\ bounties[b].winning_attempt_index = i /\ p.settled,
           baseAttempts[b][i].settled => p.settled,
           baseAttempts[b][i].appealBound => p.appealBound,
           BoundTo(p, baseBounties[b], b, i, reservations),
           DepositOf(p, baseBounties[b], attempts[b][i], now)
    PROVE  BaseMatches' /\ BindingsStay
<1>1. BaseTyped
  BY DEF BaseMatches
<1>2. baseBounties'[b] = y /\ \A c \in BountyId \ {b} : baseBounties'[c] = baseBounties[c]
  BY <1>1 DEF BaseTyped
<1>3. /\ baseAttempts'[b][i] = p
      /\ \A c \in BountyId, j \in AttemptIndex :
           c # b \/ j # i => baseAttempts'[c][j] = baseAttempts[c][j]
  BY <1>1 DEF BaseTyped
<1>4. BaseTyped'
  BY <1>1 DEF BaseTyped
<1>5. ASSUME NEW c \in BountyId
      PROVE  Registered(c)'
  <2>1. /\ baseBounties'[c].creator = baseBounties[c].creator
        /\ baseBounties'[c].reward = baseBounties[c].reward
        /\ baseBounties'[c].requiredBond = baseBounties[c].requiredBond
        /\ baseBounties'[c].feeBps = baseBounties[c].feeBps
        /\ baseBounties'[c].registered = baseBounties[c].registered
    BY <1>2
  <2>2. Registered(c)
    BY DEF BaseMatches
  <2>. QED
    BY <2>1, <2>2 DEF Registered, TermsMatch, glVars
<1>6. \A c \in BountyId, j \in AttemptIndex :
        baseAttempts[c][j].settled => baseAttempts'[c][j].settled
  BY <1>3
<1>7. ASSUME NEW c \in BountyId, Rewarded(c)
      PROVE  Rewarded(c)'
  <2>1. bounties' = bounties
    BY DEF glVars
  <2>2. CASE baseBounties[c].rewardSettled
    <3>1. CASE bounties[c].status = "SETTLED"
      <4>1. baseAttempts[c][bounties[c].winning_attempt_index].settled
        BY <2>2, <3>1, <1>7 DEF Rewarded
      <4>2. baseAttempts'[c][bounties[c].winning_attempt_index].settled
        <5>1. bounties[c].winning_attempt_index \in AttemptIndex
          BY <3>1, BountyRead
        <5>. QED
          BY <1>6, <4>1, <5>1
      <4>. QED
        BY <2>1, <3>1, <4>2 DEF Rewarded
    <3>2. CASE bounties[c].status # "SETTLED"
      BY <1>7, <2>1, <2>2, <3>2 DEF Rewarded
    <3>. QED
      BY <3>1, <3>2
  <2>3. CASE ~baseBounties[c].rewardSettled
    <3>1. CASE c = b
      BY <1>2, <1>3, <2>1, <2>3, <3>1 DEF Rewarded
    <3>2. CASE c # b
      BY <1>2, <2>3, <3>2 DEF Rewarded
    <3>. QED
      BY <3>1, <3>2
  <2>. QED
    BY <2>2, <2>3
<1>8. ASSUME NEW c \in BountyId, NEW j \in AttemptIndex
      PROVE  Position(c, j)'
  <2>1. /\ baseBounties'[c].registered = baseBounties[c].registered
        /\ baseBounties'[c].requiredBond = baseBounties[c].requiredBond
    BY <1>2
  <2>2. /\ BoundTo(baseAttempts'[c][j], baseBounties[c], c, j, reservations)
        /\ DepositOf(baseAttempts'[c][j], baseBounties[c], attempts[c][j], now)
    <3>1. CASE c = b /\ j = i
      BY <1>3, <3>1
    <3>2. CASE c # b \/ j # i
      <4>1. Position(c, j)
        BY DEF BaseMatches
      <4>. QED
        BY <1>3, <3>2, <4>1 DEF Position
    <3>. QED
      BY <3>1, <3>2
  <2>. QED
    BY <2>1, <2>2 DEF Position, BoundTo, DepositOf, glVars
<1>9. BindingsStay
  BY <1>3 DEF BindingsStay
<1>10. \A c \in BountyId : Rewarded(c)
  BY DEF BaseMatches
<1>. QED
  BY <1>4, <1>5, <1>7, <1>8, <1>9, <1>10 DEF BaseMatches

-----------------------------------------------------------------------------
(* The transactions on Base, one by one.                                   *)

LEMMA BaseFields ==
    ASSUME BaseTyped, NEW b \in BountyId
    PROVE  /\ baseBounties[b] \in Base!BountyRecord
           /\ \A i \in AttemptIndex : baseAttempts[b][i] \in Base!AttemptRecord
           /\ \A r \in ReservationId : pendingAttempts[b][r] \in Base!PendingAttemptRecord
BY DEF BaseTyped

LEMMA FundBountyMatches ==
    ASSUME Ledger!InOrder, BaseMatches, NEW b \in BountyId, FundBounty(b)
    PROVE  KeepsBase
<1>. DEFINE x == baseBounties[b]
            y == [x EXCEPT !.creator = bounties[b].creator, !.reward = bounties[b].reward_amount,
                           !.requiredBond = bounties[b].required_bond,
                           !.feeBps = bounties[b].platform_fee_bps, !.fundedAt = now]
<1>1. /\ UNCHANGED <<glVars, now, baseAttempts, pendingAttempts, claimable>>
      /\ baseBounties' = [baseBounties EXCEPT ![b] = y] /\ x.creator = NoOne
  BY DEF FundBounty, Base!FundBounty
<1>2. BaseTyped /\ Registered(b) /\ Rewarded(b)
  BY DEF BaseMatches
<1>3. x \in Base!BountyRecord /\ now \in Nat
  BY <1>2 DEF BaseTyped
<1>4. y \in Base!BountyRecord
  BY <1>3, BountyRead DEF Base!BountyRecord
<1>5. ~x.registered
  BY <1>1, <1>2 DEF Registered
<1>6. y.registered = x.registered /\ y.rewardSettled = x.rewardSettled
  BY <1>3 DEF Base!BountyRecord
<1>7. baseBounties'[b] = y
  BY <1>1, <1>2 DEF BaseTyped
<1>. HIDE DEF x, y
<1>8. Registered(b)'
  BY <1>5, <1>6, <1>7 DEF Registered
<1>9. Rewarded(b)'
  BY <1>1, <1>2, <1>6, <1>7 DEF Rewarded, glVars, x
<1>10. /\ pendingAttempts' \in [BountyId -> [ReservationId -> Base!PendingAttemptRecord]]
       /\ claimable' \in [Account -> Int]
  BY <1>1, <1>2 DEF BaseTyped
<1>11. x.registered => y.registered /\ y.requiredBond = x.requiredBond
  BY <1>5
<1>. QED
  BY <1>1, <1>4, <1>8, <1>9, <1>10, <1>11, BountyChange DEF x

LEMMA RecoverOrphanMatches ==
    ASSUME BaseMatches, NEW b \in BountyId, NEW sender \in Account,
           Base!RecoverOrphanBounty(sender, b), UNCHANGED glVars
    PROVE  KeepsBase
<1>. DEFINE x == baseBounties[b]
<1>1. /\ UNCHANGED <<glVars, now, baseAttempts, pendingAttempts>>
      /\ baseBounties' = [baseBounties EXCEPT ![b] = Base!EmptyBounty]
      /\ claimable' = [claimable EXCEPT ![sender] = @ + x.reward]
      /\ ~x.registered
  BY DEF Base!RecoverOrphanBounty, Base!OrphanRecoverable
<1>2. BaseTyped
  BY DEF BaseMatches
<1>3. x \in Base!BountyRecord
  BY <1>2 DEF BaseTyped
<1>4. /\ Base!EmptyBounty \in Base!BountyRecord
      /\ ~Base!EmptyBounty.registered /\ ~Base!EmptyBounty.rewardSettled
  BY ShareAssumption DEF Base!EmptyBounty, Base!BountyRecord
<1>5. baseBounties'[b] = Base!EmptyBounty
  BY <1>1, <1>2 DEF BaseTyped
<1>6. Registered(b)' /\ Rewarded(b)'
  BY <1>4, <1>5 DEF Registered, Rewarded
<1>7. /\ pendingAttempts' \in [BountyId -> [ReservationId -> Base!PendingAttemptRecord]]
      /\ claimable' \in [Account -> Int]
  BY <1>1, <1>2, <1>3 DEF BaseTyped, Base!BountyRecord
<1>. QED
  BY <1>1, <1>4, <1>6, <1>7, BountyChange

LEMMA RegisterMatches ==
    ASSUME BaseMatches, NEW b \in BountyId, NEW sender, NEW signer, TermsMatch(b),
           Base!RegisterBounty(sender, signer, b), UNCHANGED glVars
    PROVE  KeepsBase
<1>. DEFINE x == baseBounties[b]
            y == [x EXCEPT !.registered = TRUE]
<1>1. /\ UNCHANGED <<glVars, now, baseAttempts, pendingAttempts, claimable>>
      /\ baseBounties' = [baseBounties EXCEPT ![b] = y]
      /\ x.creator # NoOne
  BY DEF Base!RegisterBounty
<1>2. BaseTyped /\ Rewarded(b)
  BY DEF BaseMatches
<1>3. x \in Base!BountyRecord
  BY <1>2 DEF BaseTyped
<1>4. /\ y \in Base!BountyRecord
      /\ y.creator = x.creator /\ y.reward = x.reward /\ y.requiredBond = x.requiredBond
      /\ y.feeBps = x.feeBps /\ y.rewardSettled = x.rewardSettled
      /\ y.registered = TRUE
  BY <1>3 DEF Base!BountyRecord
<1>5. baseBounties'[b] = y
  BY <1>1, <1>2 DEF BaseTyped
<1>. HIDE DEF x, y
<1>6. Registered(b)'
  BY <1>1, <1>4, <1>5 DEF Registered, TermsMatch, glVars, x
<1>7. Rewarded(b)'
  BY <1>1, <1>2, <1>4, <1>5 DEF Rewarded, glVars, x
<1>8. /\ pendingAttempts' \in [BountyId -> [ReservationId -> Base!PendingAttemptRecord]]
      /\ claimable' \in [Account -> Int]
  BY <1>1, <1>2 DEF BaseTyped
<1>. QED
  BY <1>1, <1>4, <1>6, <1>7, <1>8, BountyChange DEF x

LEMMA RefundMatches ==
    ASSUME BaseMatches, NEW b \in BountyId, NEW sender, NEW signer, NEW stateHash, NEW nonce,
           bounties[b].status \in REFUNDABLE,
           Base!ExecuteBountyRefund(sender, signer, b, bounties[b].creator, stateHash, nonce),
           UNCHANGED glVars
    PROVE  KeepsBase
<1>. DEFINE x == baseBounties[b]
            y == [x EXCEPT !.decisionNonce = nonce, !.rewardSettled = TRUE]
            payee == bounties[b].creator
<1>1. /\ UNCHANGED <<glVars, now, baseAttempts, pendingAttempts>>
      /\ baseBounties' = [baseBounties EXCEPT ![b] = y]
      /\ claimable' = [claimable EXCEPT ![payee] = @ + x.reward]
      /\ nonce = x.decisionNonce + 1
  BY DEF Base!ExecuteBountyRefund, Base!DecisionAcceptable
<1>2. BaseTyped /\ Registered(b)
  BY DEF BaseMatches
<1>3. x \in Base!BountyRecord
  BY <1>2 DEF BaseTyped
<1>4. nonce \in Nat
  BY <1>1, <1>3 DEF Base!BountyRecord
<1>5. /\ y \in Base!BountyRecord
      /\ y.creator = x.creator /\ y.reward = x.reward /\ y.requiredBond = x.requiredBond
      /\ y.feeBps = x.feeBps /\ y.registered = x.registered
  BY <1>3, <1>4 DEF Base!BountyRecord
<1>6. baseBounties'[b] = y
  BY <1>1, <1>2 DEF BaseTyped
<1>. HIDE DEF x, y, payee
<1>7. Registered(b)'
  BY <1>1, <1>2, <1>5, <1>6 DEF Registered, TermsMatch, glVars, x
<1>8. Rewarded(b)'
  BY <1>1 DEF Rewarded, REFUNDABLE, glVars
<1>9. /\ pendingAttempts' \in [BountyId -> [ReservationId -> Base!PendingAttemptRecord]]
      /\ claimable' \in [Account -> Int]
  <2>1. x.reward \in Int /\ claimable \in [Account -> Int]
    BY <1>2, <1>3 DEF BaseTyped, Base!BountyRecord
  <2>2. claimable' \in [Account -> Int]
    <3>1. CASE payee \in Account
      <4>1. claimable[payee] + x.reward \in Int
        BY <2>1, <3>1
      <4>. QED
        BY <1>1, <2>1, <4>1
    <3>2. CASE payee \notin Account
      BY <1>1, <2>1, <3>2
    <3>. QED
      BY <3>1, <3>2
  <2>. QED
    BY <1>1, <1>2, <2>2 DEF BaseTyped
<1>. QED
  BY <1>1, <1>5, <1>7, <1>8, <1>9, BountyChange DEF x

\* Only a position changes.
LEMMA SlotChange ==
    ASSUME Ledger!InOrder, BaseMatches, NEW b \in BountyId, NEW i \in AttemptIndex,
           NEW p \in Base!AttemptRecord,
           baseAttempts' = [baseAttempts EXCEPT ![b][i] = p],
           UNCHANGED <<glVars, now, baseBounties>>,
           pendingAttempts' \in [BountyId -> [ReservationId -> Base!PendingAttemptRecord]],
           claimable' \in [Account -> Int],
           p.settled <=> baseAttempts[b][i].settled,
           baseAttempts[b][i].appealBound => p.appealBound,
           BoundTo(p, baseBounties[b], b, i, reservations),
           DepositOf(p, baseBounties[b], attempts[b][i], now)
    PROVE  KeepsBase
<1>1. PICK y \in Base!BountyRecord : y = baseBounties[b]
  BY DEF BaseMatches, BaseTyped
<1>2. baseBounties' = [baseBounties EXCEPT ![b] = y]
  BY <1>1 DEF BaseMatches, BaseTyped
<1>3. /\ y.creator = baseBounties[b].creator /\ y.reward = baseBounties[b].reward
      /\ y.requiredBond = baseBounties[b].requiredBond /\ y.feeBps = baseBounties[b].feeBps
      /\ y.registered = baseBounties[b].registered
      /\ y.rewardSettled =>
           \/ baseBounties[b].rewardSettled
           \/ bounties[b].status = "SETTLED" /\ bounties[b].winning_attempt_index = i /\ p.settled
  BY <1>1
<1>4. UNCHANGED <<glVars, now>>
  OBVIOUS
<1>5. BaseMatches' /\ BindingsStay
  BY <1>2, <1>3, <1>4, PositionChange
<1>6. NothingSettles
  <2>1. /\ baseAttempts'[b][i] = p
        /\ \A c \in BountyId, j \in AttemptIndex :
             c # b \/ j # i => baseAttempts'[c][j] = baseAttempts[c][j]
    BY DEF BaseMatches, BaseTyped
  <2>. QED
    BY <2>1 DEF NothingSettles
<1>. QED
  BY <1>5, <1>6 DEF KeepsBase

\* Neither a bounty record nor a position changes.
LEMMA PositionsSame ==
    ASSUME BaseMatches, UNCHANGED <<glVars, now, baseBounties, baseAttempts>>,
           pendingAttempts' \in [BountyId -> [ReservationId -> Base!PendingAttemptRecord]],
           claimable' \in [Account -> Int]
    PROVE  KeepsBase
<1>1. BindingsStay /\ NothingSettles
  BY DEF BindingsStay, NothingSettles
<1>2. BaseTyped'
  BY DEF BaseMatches, BaseTyped
<1>3. \A b \in BountyId : Registered(b)' /\ Rewarded(b)'
  BY DEF BaseMatches, Registered, Rewarded, TermsMatch, glVars
<1>4. \A b \in BountyId, i \in AttemptIndex : Position(b, i)'
  BY DEF BaseMatches, Position, glVars
<1>. QED
  BY <1>1, <1>2, <1>3, <1>4 DEF BaseMatches, KeepsBase

LEMMA FundAttemptMatches ==
    ASSUME Ledger!InOrder, BaseMatches, NEW b \in BountyId, NEW r \in ReservationId,
           FundAttempt(b, r)
    PROVE  KeepsBase
<1>. DEFINE p == pendingAttempts[b][r]
            payer == reservations[r].challenger
            z == [p EXCEPT !.challenger = payer, !.bond = baseBounties[b].requiredBond,
                           !.authorizationExpiry = now]
<1>1. /\ UNCHANGED <<glVars, now, baseBounties, baseAttempts, claimable>>
      /\ pendingAttempts' = [pendingAttempts EXCEPT ![b][r] = z]
  BY DEF FundAttempt, Base!FundAttempt
<1>2. BaseTyped
  BY DEF BaseMatches
<1>3. /\ p \in Base!PendingAttemptRecord /\ baseBounties[b].requiredBond \in Nat
      /\ now \in Nat /\ payer \in Account \cup {NoOne}
  BY <1>2, ReservationRead DEF BaseTyped, Base!BountyRecord
<1>. HIDE DEF payer
<1>4. z \in Base!PendingAttemptRecord
  BY <1>3 DEF Base!PendingAttemptRecord
<1>. HIDE DEF z
<1>5. /\ pendingAttempts' \in [BountyId -> [ReservationId -> Base!PendingAttemptRecord]]
      /\ claimable' \in [Account -> Int]
  BY <1>1, <1>2, <1>4 DEF BaseTyped
<1>. QED
  BY <1>1, <1>5, PositionsSame

LEMMA RecoverPendingMatches ==
    ASSUME BaseMatches, NEW b \in BountyId, NEW r \in ReservationId, NEW sender \in Account,
           Base!RecoverPendingAttempt(sender, b, r), UNCHANGED glVars
    PROVE  KeepsBase
<1>. DEFINE p == pendingAttempts[b][r]
            z == [p EXCEPT !.recovered = TRUE, !.bond = 0]
<1>1. /\ UNCHANGED <<glVars, now, baseBounties, baseAttempts>>
      /\ pendingAttempts' = [pendingAttempts EXCEPT ![b][r] = z]
      /\ claimable' = [claimable EXCEPT ![sender] = @ + p.bond]
  BY DEF Base!RecoverPendingAttempt
<1>2. BaseTyped
  BY DEF BaseMatches
<1>3. p \in Base!PendingAttemptRecord
  BY <1>2 DEF BaseTyped
<1>4. z \in Base!PendingAttemptRecord /\ p.bond \in Nat
  BY <1>3 DEF Base!PendingAttemptRecord
<1>. HIDE DEF z, p
<1>5. /\ pendingAttempts' \in [BountyId -> [ReservationId -> Base!PendingAttemptRecord]]
      /\ claimable' \in [Account -> Int]
  BY <1>1, <1>2, <1>4 DEF BaseTyped
<1>. QED
  BY <1>1, <1>5, PositionsSame

\* The reservation whose money is bound to position i is the one attempt i was made of.
LEMMA BindAttemptMatches ==
    ASSUME Ledger!InOrder, BaseMatches, NEW b \in BountyId, NEW r \in ReservationId,
           NEW i \in AttemptIndex, NEW sender, NEW signer,
           Base!BindAttempt(sender, signer, b, r, i), UNCHANGED glVars,
           reservations[r].status = "ACTIVATED", reservations[r].bounty_id = b,
           reservations[r].activated_attempt_index = i,
           reservations[r].challenger = pendingAttempts[b][r].challenger
    PROVE  KeepsBase
<1>. DEFINE u == pendingAttempts[b][r]
            v == [u EXCEPT !.bound = TRUE]
            p == baseAttempts[b][i]
            z == [p EXCEPT !.challenger = u.challenger, !.bond = Base!BoundBond(b, r),
                           !.reservationId = r]
            x == baseBounties[b]
<1>1. /\ UNCHANGED <<glVars, now, baseBounties, claimable>>
      /\ pendingAttempts' = [pendingAttempts EXCEPT ![b][r] = v]
      /\ baseAttempts' = [baseAttempts EXCEPT ![b][i] = z]
      /\ x.registered
  BY DEF Base!BindAttempt, Base!AttemptsOpen
<1>2. BaseTyped /\ Position(b, i)
  BY DEF BaseMatches
<1>3. /\ u \in Base!PendingAttemptRecord /\ p \in Base!AttemptRecord
      /\ x \in Base!BountyRecord
      /\ Base!BoundBond(b, r) = u.bond
  BY <1>2 DEF BaseTyped, Base!BoundBond
<1>4. v \in Base!PendingAttemptRecord
  BY <1>3 DEF Base!PendingAttemptRecord
<1>5. /\ z \in Base!AttemptRecord
      /\ z.challenger = u.challenger /\ z.reservationId = r
      /\ z.appealBond = p.appealBond /\ z.settled = p.settled
      /\ z.appealBound = p.appealBound
      /\ z.appealAuthorizationExpiry = p.appealAuthorizationExpiry
  <2>1. u.challenger \in Account \cup {NoOne} /\ Base!BoundBond(b, r) \in Nat
    BY <1>3 DEF Base!PendingAttemptRecord
  <2>. HIDE DEF u, p
  <2>. QED
    BY <1>3, <2>1 DEF Base!AttemptRecord
<1>. HIDE DEF u, v, z
<1>6. /\ pendingAttempts' \in [BountyId -> [ReservationId -> Base!PendingAttemptRecord]]
      /\ claimable' \in [Account -> Int]
  BY <1>1, <1>2, <1>4 DEF BaseTyped
<1>7. BoundTo(z, x, b, i, reservations)
  <2>1. reservations[r].challenger = z.challenger
    BY <1>5 DEF u
  <2>. QED
    BY <1>1, <1>5, <2>1 DEF BoundTo
<1>8. DepositOf(z, x, attempts[b][i], now)
  <2>1. DepositOf(p, x, attempts[b][i], now)
    BY <1>2 DEF Position
  <2>. HIDE DEF p, x
  <2>. QED
    BY <1>5, <2>1 DEF DepositOf
<1>9. /\ z.settled <=> baseAttempts[b][i].settled
      /\ baseAttempts[b][i].appealBound => z.appealBound
  BY <1>5
<1>10. /\ UNCHANGED <<glVars, now, baseBounties>>
       /\ baseAttempts' = [baseAttempts EXCEPT ![b][i] = z]
  BY <1>1
<1>. QED
  BY <1>10, <1>3, <1>5, <1>6, <1>7, <1>8, <1>9, SlotChange

LEMMA FundAppealMatches ==
    ASSUME Ledger!InOrder, BaseMatches, NEW b \in BountyId, NEW i \in AttemptIndex,
           NEW payer \in Account, NEW signer,
           Base!FundAppeal(payer, signer, b, i, now), UNCHANGED glVars,
           attempts[b][i].status \in Ledger!AFTER_RULING
    PROVE  KeepsBase
<1>. DEFINE p == baseAttempts[b][i]
            x == baseBounties[b]
            z == [p EXCEPT !.appealBond = x.requiredBond, !.appealPayer = payer,
                           !.appealAuthorizationExpiry = now]
<1>1. /\ UNCHANGED <<glVars, now, baseBounties, claimable, pendingAttempts>>
      /\ baseAttempts' = [baseAttempts EXCEPT ![b][i] = z]
      /\ x.registered /\ p.appealBond = 0 /\ x.requiredBond > 0 /\ ~p.settled
  BY DEF Base!FundAppeal, Base!AppealFundable
<1>2. BaseTyped /\ Position(b, i)
  BY DEF BaseMatches
<1>3. p \in Base!AttemptRecord /\ x \in Base!BountyRecord /\ now \in Nat
  BY <1>2 DEF BaseTyped
<1>4. /\ z \in Base!AttemptRecord
      /\ z.challenger = p.challenger /\ z.reservationId = p.reservationId
      /\ z.appealBond = x.requiredBond /\ z.settled = p.settled
      /\ z.appealBound = p.appealBound /\ z.appealAuthorizationExpiry = now
      /\ x.requiredBond # 0
  <2>1. x.requiredBond \in Nat /\ x.requiredBond # 0
    BY <1>1, <1>3 DEF Base!BountyRecord
  <2>. HIDE DEF x, p
  <2>. QED
    BY <1>3, <2>1 DEF Base!AttemptRecord
<1>. HIDE DEF z
<1>5. BoundTo(z, x, b, i, reservations)
  BY <1>2, <1>4 DEF Position, BoundTo
<1>6. DepositOf(z, x, attempts[b][i], now)
  <2>. DEFINE a == attempts[b][i]
  <2>1. WindowEnds(a, now, now)
    <3>1. a.appeal_deadline \in Int /\ a.appeal_deadline <= APPEAL_WINDOW_SECONDS
      BY AttemptRead
    <3>2. now - now = 0
      BY <1>3
    <3>. QED
      BY <3>1, <3>2 DEF WindowEnds
  <2>2. a.bond_amount \in Nat
    BY AttemptRead
  <2>3. DepositOf(p, x, a, now)
    BY <1>2 DEF Position
  <2>4. ~(a.bond_amount > 0 /\ Ledger!AppealCounts(a))
    BY <1>1, <2>2, <2>3 DEF DepositOf
  <2>. HIDE DEF a
  <2>5. a.status \in Ledger!AFTER_RULING
    BY DEF a
  <2>. QED
    BY <1>1, <1>4, <2>1, <2>4, <2>5 DEF DepositOf, a
<1>7. /\ z.settled <=> baseAttempts[b][i].settled
      /\ baseAttempts[b][i].appealBound => z.appealBound
  BY <1>4
<1>8. /\ pendingAttempts' \in [BountyId -> [ReservationId -> Base!PendingAttemptRecord]]
      /\ claimable' \in [Account -> Int]
  BY <1>1, <1>2 DEF BaseTyped
<1>9. /\ UNCHANGED <<glVars, now, baseBounties>>
      /\ baseAttempts' = [baseAttempts EXCEPT ![b][i] = z]
  BY <1>1
<1>. QED
  BY <1>9, <1>3, <1>4, <1>5, <1>6, <1>7, <1>8, SlotChange

LEMMA BindAppealMatches ==
    ASSUME Ledger!InOrder, BaseMatches, NEW b \in BountyId, NEW i \in AttemptIndex,
           NEW sender, NEW signer, NEW txHash \in TxHash \cup {NoHash},
           Base!BindAppeal(sender, signer, b, i, txHash), UNCHANGED glVars
    PROVE  /\ KeepsBase
           /\ baseAttempts'[b][i].appealBound
<1>. DEFINE p == baseAttempts[b][i]
            x == baseBounties[b]
            z == [p EXCEPT !.appealBound = TRUE, !.appealFundingTxHash = txHash]
<1>1. /\ UNCHANGED <<glVars, now, baseBounties, claimable, pendingAttempts>>
      /\ baseAttempts' = [baseAttempts EXCEPT ![b][i] = z]
      /\ p.appealBond > 0 /\ ~p.appealBound /\ ~p.settled
  BY DEF Base!BindAppeal, Base!AppealBindable
<1>2. BaseTyped /\ Position(b, i)
  BY DEF BaseMatches
<1>3. p \in Base!AttemptRecord /\ x \in Base!BountyRecord
  BY <1>2 DEF BaseTyped
<1>4. /\ z \in Base!AttemptRecord
      /\ z.challenger = p.challenger /\ z.reservationId = p.reservationId
      /\ z.appealBond = p.appealBond /\ z.settled = p.settled
      /\ z.appealAuthorizationExpiry = p.appealAuthorizationExpiry
      /\ z.appealBound = TRUE
  BY <1>3 DEF Base!AttemptRecord
<1>5. p.appealBond # 0
  BY <1>1, <1>3 DEF Base!AttemptRecord
<1>. HIDE DEF z
<1>6. BoundTo(z, x, b, i, reservations)
  BY <1>2, <1>4 DEF Position, BoundTo
<1>7. DepositOf(z, x, attempts[b][i], now)
  <2>1. DepositOf(p, x, attempts[b][i], now)
    BY <1>2 DEF Position
  <2>. QED
    BY <1>1, <1>4, <1>5, <2>1 DEF DepositOf
<1>8. /\ z.settled <=> baseAttempts[b][i].settled
      /\ baseAttempts[b][i].appealBound => z.appealBound
  BY <1>4
<1>9. /\ pendingAttempts' \in [BountyId -> [ReservationId -> Base!PendingAttemptRecord]]
      /\ claimable' \in [Account -> Int]
  BY <1>1, <1>2 DEF BaseTyped
<1>10. /\ UNCHANGED <<glVars, now, baseBounties>>
       /\ baseAttempts' = [baseAttempts EXCEPT ![b][i] = z]
  BY <1>1
<1>11. KeepsBase
  BY <1>10, <1>3, <1>4, <1>6, <1>7, <1>8, <1>9, SlotChange
<1>12. baseAttempts'[b][i] = z
  BY <1>1, <1>2 DEF BaseTyped
<1>. QED
  BY <1>4, <1>11, <1>12

\* An appeal deposit is given back: it was not bound, or the appeal is over.
LEMMA ReturnMatches ==
    ASSUME Ledger!InOrder, BaseMatches, NEW b \in BountyId, NEW i \in AttemptIndex,
           NEW sender \in Account,
           Base!ReturnAppealBond(sender, b, i), UNCHANGED glVars,
           ~baseAttempts[b][i].settled,
           baseAttempts[b][i].appealBound =>
             Ledger!Closed(attempts[b][i]) /\ ~Ledger!AppealCounts(attempts[b][i])
    PROVE  KeepsBase
<1>. DEFINE p == baseAttempts[b][i]
            x == baseBounties[b]
            z == [p EXCEPT !.appealBond = 0, !.appealRecovered = TRUE]
<1>1. /\ UNCHANGED <<glVars, now, baseBounties, pendingAttempts>>
      /\ baseAttempts' = [baseAttempts EXCEPT ![b][i] = z]
      /\ claimable' = [claimable EXCEPT ![sender] = @ + p.appealBond]
  BY DEF Base!ReturnAppealBond
<1>2. BaseTyped /\ Position(b, i)
  BY DEF BaseMatches
<1>3. p \in Base!AttemptRecord /\ x \in Base!BountyRecord
  BY <1>2 DEF BaseTyped
<1>4. /\ z \in Base!AttemptRecord
      /\ z.challenger = p.challenger /\ z.reservationId = p.reservationId
      /\ z.appealBond = 0 /\ z.settled = p.settled
      /\ z.appealBound = p.appealBound
  BY <1>3 DEF Base!AttemptRecord
<1>5. p.appealBond \in Nat
  BY <1>3 DEF Base!AttemptRecord
<1>6. /\ pendingAttempts' \in [BountyId -> [ReservationId -> Base!PendingAttemptRecord]]
      /\ claimable' \in [Account -> Int]
  BY <1>1, <1>2, <1>5 DEF BaseTyped
<1>. HIDE DEF z
<1>7. BoundTo(z, x, b, i, reservations)
  BY <1>2, <1>4 DEF Position, BoundTo
<1>8. DepositOf(z, x, attempts[b][i], now)
  <2>1. DepositOf(p, x, attempts[b][i], now)
    BY <1>2 DEF Position
  <2>2. ~(attempts[b][i].bond_amount > 0 /\ Ledger!AppealCounts(attempts[b][i]))
    BY <2>1 DEF DepositOf
  <2>3. z.appealBound => Ledger!Closed(attempts[b][i])
    BY <1>4
  <2>. QED
    BY <1>4, <2>2, <2>3 DEF DepositOf
<1>9. /\ z.settled <=> baseAttempts[b][i].settled
      /\ baseAttempts[b][i].appealBound => z.appealBound
  BY <1>4
<1>10. /\ UNCHANGED <<glVars, now, baseBounties>>
       /\ baseAttempts' = [baseAttempts EXCEPT ![b][i] = z]
  BY <1>1
<1>. QED
  BY <1>10, <1>3, <1>4, <1>6, <1>7, <1>8, <1>9, SlotChange

\* An abandoned appeal cannot be made any more: its window on GenLayer ended with the
\* recovery delay on Base.
LEMMA AbandonedIsClosed ==
    ASSUME Ledger!InOrder, BaseMatches, NEW b \in BountyId, NEW i \in AttemptIndex,
           Abandoned(b, i), baseAttempts[b][i].appealBond > 0,
           now >= baseAttempts[b][i].appealAuthorizationExpiry + ORPHAN_DELAY
    PROVE  Ledger!Closed(attempts[b][i]) /\ ~Ledger!AppealCounts(attempts[b][i])
<1>. DEFINE a == attempts[b][i]
            p == baseAttempts[b][i]
<1>1. /\ a.appeal_bond_recipient = NoOne
      /\ a.status \notin {"APPEAL_PENDING_FUNDING", "APPEAL_FUNDED_PENDING_BINDING", "APPEALED"}
  BY DEF Abandoned
<1>2. BaseTyped /\ Position(b, i)
  BY DEF BaseMatches
<1>3. p \in Base!AttemptRecord /\ now \in Nat
  BY <1>2 DEF BaseTyped
<1>4. p.appealBond # 0 /\ p.appealAuthorizationExpiry \in Nat
  BY <1>3 DEF Base!AttemptRecord
<1>5. a.status \in Ledger!AFTER_RULING /\ WindowEnds(a, now, p.appealAuthorizationExpiry)
  BY <1>2, <1>4 DEF Position, DepositOf
<1>6. a.appeal_deadline \in Int
  BY AttemptRead
<1>7. a.appeal_deadline <= 0
  <2>1. PICK d \in Int : d = a.appeal_deadline
    BY <1>6
  <2>2. PICK m \in Int : m = p.appealAuthorizationExpiry
    BY <1>4
  <2>3. d <= 0 \/ d + (now - m) <= APPEAL_WINDOW_SECONDS
    BY <1>5, <2>1, <2>2 DEF WindowEnds
  <2>4. now >= m + ORPHAN_DELAY
    BY <2>2
  <2>5. d <= 0
    BY ONLY <1>3, <2>3, <2>4, d \in Int, m \in Int, DurationAssumption
  <2>. QED
    BY <2>1, <2>5
<1>8. a.status \in Ledger!TERMINAL_STATES \/ a.status = "ARBITER_RESOLVED_PENDING_APPEAL"
  BY <1>1, <1>5 DEF Ledger!AFTER_RULING
<1>. QED
  BY <1>1, <1>7, <1>8 DEF Ledger!Closed, Ledger!AppealCounts

LEMMA RecoverMatches ==
    ASSUME Ledger!InOrder, BaseMatches, Recover
    PROVE  KeepsBase
<1>1. UNCHANGED glVars
  BY DEF Recover
<1>2. PICK b \in BountyId, sender \in Account :
        \/ Base!RecoverOrphanBounty(sender, b)
        \/ \E r \in ReservationId : Base!RecoverPendingAttempt(sender, b, r)
        \/ \E i \in AttemptIndex :
             \/ Base!RecoverUnactivatedAppeal(sender, b, i)
             \/ RecoverAbandonedBoundAppeal(sender, b, i)
  BY DEF Recover
<1>3. CASE Base!RecoverOrphanBounty(sender, b)
  BY <1>1, <1>3, RecoverOrphanMatches
<1>4. ASSUME NEW r \in ReservationId, Base!RecoverPendingAttempt(sender, b, r)
      PROVE  KeepsBase
  BY <1>1, <1>4, RecoverPendingMatches
<1>5. ASSUME NEW i \in AttemptIndex, Base!RecoverUnactivatedAppeal(sender, b, i)
      PROVE  KeepsBase
  <2>1. /\ Base!ReturnAppealBond(sender, b, i) /\ ~baseAttempts[b][i].settled
        /\ baseAttempts[b][i].appealBound = FALSE
    BY <1>5 DEF Base!RecoverUnactivatedAppeal, Base!AppealRecoverable
  <2>2. baseAttempts[b][i].appealBound =>
          Ledger!Closed(attempts[b][i]) /\ ~Ledger!AppealCounts(attempts[b][i])
    BY <2>1
  <2>. QED
    BY <1>1, <2>1, <2>2, ReturnMatches
<1>6. ASSUME NEW i \in AttemptIndex, RecoverAbandonedBoundAppeal(sender, b, i)
      PROVE  KeepsBase
  <2>1. /\ Abandoned(b, i) /\ Base!ReturnAppealBond(sender, b, i)
        /\ ~baseAttempts[b][i].settled /\ baseAttempts[b][i].appealBond > 0
        /\ now >= baseAttempts[b][i].appealAuthorizationExpiry + ORPHAN_DELAY
    BY <1>6 DEF RecoverAbandonedBoundAppeal, Base!RecoverAbandonedBoundAppeal,
                Base!AppealRecoverable
  <2>2. Ledger!Closed(attempts[b][i]) /\ ~Ledger!AppealCounts(attempts[b][i])
    BY <2>1, AbandonedIsClosed
  <2>. QED
    BY <1>1, <2>1, <2>2, ReturnMatches
<1>. QED
  BY <1>2, <1>3, <1>4, <1>5, <1>6

-----------------------------------------------------------------------------
(* The settlement.                                                         *)

\* What the stages of the sweep are named.
LEMMA SweepStages ==
    ASSUME NEW s, NEW bountyOf, NEW attemptOf, NEW positions,
           Sweeps(s, bountyOf, attemptOf, positions)
    PROVE  /\ s.pc \in {"base", "register"} => AboutBounty(s, bountyOf)
           /\ s.pc = "refund" => AboutRefund(s, bountyOf)
           /\ s.pc \in {"attempt", "refresh"} => BeforeAttempt(s)
           /\ s.pc \in {"position", "bind", "activate", "execute"} =>
                AboutAttempt(s, attemptOf, positions)
<1>1. s = Idle => s.pc = "idle"
  BY DEF Idle
<1>2. AboutBounty(s, bountyOf) => s.pc \in {"base", "register"}
  BY DEF AboutBounty
<1>3. AboutRefund(s, bountyOf) => s.pc = "refund"
  BY DEF AboutRefund
<1>4. BeforeAttempt(s) => s.pc \in {"attempt", "refresh"}
  BY DEF BeforeAttempt
<1>5. AboutAttempt(s, attemptOf, positions) => s.pc \in {"position", "bind", "activate", "execute"}
  BY DEF AboutAttempt
<1>. QED
  BY <1>1, <1>2, <1>3, <1>4, <1>5 DEF Sweeps

\* A final outcome is still what the contract has.
LEMMA OutcomeStands ==
    ASSUME Sweeps(sweep, bounties, attempts, baseAttempts), At("execute"),
           Outcome(sweep.fresh.status) # "none"
    PROVE  /\ sweep.b \in BountyId /\ sweep.i \in AttemptIndex
           /\ sweep.fresh = Fresh(attempts[sweep.b][sweep.i])
           /\ sweep.fresh.status \in Ledger!TERMINAL_STATES
<1>1. AboutAttempt(sweep, attempts, baseAttempts)
  BY SweepStages DEF At
<1>2. sweep.fresh.status \in Ledger!TERMINAL_STATES
  BY DEF Outcome, Ledger!TERMINAL_STATES
<1>. QED
  BY <1>1, <1>2 DEF AboutAttempt

\* The share of a final attempt: none recorded is all of the reward.
LEMMA PayoutShare ==
    ASSUME Ledger!InOrder, NEW b \in BountyId, NEW i \in AttemptIndex
    PROVE  /\ Payout(Fresh(attempts[b][i])) \in Nat
           /\ Payout(Fresh(attempts[b][i])) = IF attempts[b][i].last_payout_bps = 0
                THEN BPS_DENOMINATOR ELSE attempts[b][i].last_payout_bps
BY AttemptRead, ShareAssumption DEF Payout, Fresh

LEMMA SettleMatches ==
    ASSUME Ledger!InOrder, BaseMatches, NEW b \in BountyId, NEW i \in AttemptIndex,
           NEW y \in Base!BountyRecord,
           baseBounties' = [baseBounties EXCEPT ![b] = y],
           baseAttempts' = [baseAttempts EXCEPT ![b][i].settled = TRUE],
           UNCHANGED <<glVars, now, pendingAttempts>>,
           claimable' \in [Account -> Int],
           y.creator = baseBounties[b].creator, y.reward = baseBounties[b].reward,
           y.requiredBond = baseBounties[b].requiredBond, y.feeBps = baseBounties[b].feeBps,
           y.registered = baseBounties[b].registered,
           y.rewardSettled =>
             \/ baseBounties[b].rewardSettled
             \/ bounties[b].status = "SETTLED" /\ bounties[b].winning_attempt_index = i
    PROVE  BaseMatches' /\ BindingsStay
<1>. DEFINE p == baseAttempts[b][i]
            z == [p EXCEPT !.settled = TRUE]
<1>1. BaseTyped /\ Position(b, i)
  BY DEF BaseMatches
<1>2. p \in Base!AttemptRecord
  BY <1>1 DEF BaseTyped
<1>3. /\ z \in Base!AttemptRecord
      /\ z.challenger = p.challenger /\ z.reservationId = p.reservationId
      /\ z.appealBond = p.appealBond /\ z.appealBound = p.appealBound
      /\ z.appealAuthorizationExpiry = p.appealAuthorizationExpiry
      /\ z.settled = TRUE
  BY <1>2 DEF Base!AttemptRecord
<1>4. baseAttempts' = [baseAttempts EXCEPT ![b][i] = z]
  BY <1>1 DEF BaseTyped
<1>. HIDE DEF z
<1>5. BoundTo(z, baseBounties[b], b, i, reservations)
  BY <1>1, <1>3 DEF Position, BoundTo
<1>6. DepositOf(z, baseBounties[b], attempts[b][i], now)
  BY <1>1, <1>3 DEF Position, DepositOf
<1>7. /\ y.rewardSettled =>
           \/ baseBounties[b].rewardSettled
           \/ bounties[b].status = "SETTLED" /\ bounties[b].winning_attempt_index = i /\ z.settled
      /\ baseAttempts[b][i].settled => z.settled
      /\ baseAttempts[b][i].appealBound => z.appealBound
  BY <1>3
<1>8. /\ pendingAttempts' \in [BountyId -> [ReservationId -> Base!PendingAttemptRecord]]
      /\ UNCHANGED <<glVars, now>>
  BY <1>1 DEF BaseTyped
<1>. QED
  BY <1>3, <1>4, <1>5, <1>6, <1>7, <1>8, PositionChange

\* The split of a reward, in the arithmetic of either contract.
LEMMA SameSplit ==
    ASSUME NEW reward \in Nat, NEW feeBps \in Nat, NEW bps \in 0 .. BPS_DENOMINATOR,
           NEW share, share = IF bps = 0 THEN BPS_DENOMINATOR ELSE bps
    PROVE  LET gross == Base!Gross(reward, share) IN
           /\ gross \in Int /\ Base!Fee(gross, feeBps) \in Int
           /\ GenLayer!ChallengerNet(reward, bps, feeBps) = gross - Base!Fee(gross, feeBps)
           /\ GenLayer!PlatformFee(reward, bps, feeBps) = Base!Fee(gross, feeBps)
           /\ GenLayer!ClientRefund(reward, bps) = reward - gross
<1>. DEFINE gross == Base!Gross(reward, share)
<1>1. GenLayer!ChallengerGross(reward, bps) = gross
  <2>1. CASE bps = 0
    <3>1. gross = (reward * BPS_DENOMINATOR) \div BPS_DENOMINATOR
      BY <2>1 DEF Base!Gross
    <3>2. (reward * BPS_DENOMINATOR) \div BPS_DENOMINATOR = reward
      BY ShareAssumption
    <3>. QED
      BY <2>1, <3>1, <3>2 DEF GenLayer!ChallengerGross
  <2>2. CASE bps # 0
    BY <2>2 DEF Base!Gross, GenLayer!ChallengerGross
  <2>. QED
    BY <2>1, <2>2
<1>2. share \in Nat
  BY ShareAssumption
<1>3. gross \in Int
  BY <1>2, ShareAssumption DEF Base!Gross
<1>4. Base!Fee(gross, feeBps) = (gross * feeBps) \div BPS_DENOMINATOR
  BY DEF Base!Fee
<1>. HIDE DEF gross
<1>5. Base!Fee(gross, feeBps) \in Int
  BY <1>3, <1>4, ShareAssumption
<1>. QED
  BY <1>1, <1>3, <1>4, <1>5
  DEF gross, GenLayer!ChallengerNet, GenLayer!PlatformFee, GenLayer!ClientRefund

\* Either settlement credits what the final record of the attempt says.
LEMMA WinnerPays ==
    ASSUME Ledger!InOrder, BaseMatches, NEW b \in BountyId, NEW i \in AttemptIndex,
           NEW sender, NEW signer, NEW stateHash, NEW nonce, UNCHANGED glVars,
           Base!ExecuteWinner(sender, signer, b, i, Payout(Fresh(attempts[b][i])),
                              attempts[b][i].challenger, AppealRecipient(b, Fresh(attempts[b][i])),
                              stateHash, nonce),
           attempts[b][i].status = "WON"
    PROVE  /\ BaseMatches' /\ BindingsStay
           /\ baseAttempts' = [baseAttempts EXCEPT ![b][i].settled = TRUE]
           /\ \A x \in Account : claimable'[x] - claimable[x] = DecidedShare(b, i, x)
<1>. DEFINE a == attempts[b][i]
            p == baseAttempts[b][i]
            q == baseBounties[b]
            share == Payout(Fresh(a))
            gross == Base!Gross(q.reward, share)
            fee == Base!Fee(gross, q.feeBps)
            to == AppealRecipient(b, Fresh(a))
            y == [q EXCEPT !.decisionNonce = nonce, !.rewardSettled = TRUE]
<1>1. /\ baseBounties' = [baseBounties EXCEPT ![b] = y]
      /\ baseAttempts' = [baseAttempts EXCEPT ![b][i].settled = TRUE]
      /\ claimable' = [x \in Account |->
                         claimable[x] + Base!Due(x, a.challenger, gross - fee + p.bond)
                                      + Base!Due(x, to, p.appealBond)
                                      + Base!Due(x, roles.treasury, fee)
                                      + Base!Due(x, q.creator, q.reward - gross)]
      /\ UNCHANGED <<glVars, now, pendingAttempts>>
      /\ nonce = q.decisionNonce + 1 /\ q.registered
      /\ Base!AppealAllocatable(b, i, to)
  BY DEF Base!ExecuteWinner, Base!DecisionAcceptable
<1>2. BaseTyped /\ Registered(b)
  BY DEF BaseMatches
<1>3. p \in Base!AttemptRecord /\ q \in Base!BountyRecord /\ claimable \in [Account -> Int]
  BY <1>2 DEF BaseTyped
<1>4. nonce \in Nat
  BY <1>1, <1>3 DEF Base!BountyRecord
<1>5. /\ y \in Base!BountyRecord
      /\ y.creator = q.creator /\ y.reward = q.reward /\ y.requiredBond = q.requiredBond
      /\ y.feeBps = q.feeBps /\ y.registered = q.registered
  BY <1>3, <1>4 DEF Base!BountyRecord
<1>6. /\ q.creator = bounties[b].creator /\ q.reward = bounties[b].reward_amount
      /\ q.feeBps = bounties[b].platform_fee_bps
  BY <1>1, <1>2 DEF Registered, TermsMatch
<1>7. /\ p.bond \in Nat /\ p.appealBond \in Nat
      /\ q.reward \in Nat /\ q.feeBps \in Nat
  BY <1>3, ShareAssumption DEF Base!AttemptRecord, Base!BountyRecord
<1>8. a.last_payout_bps \in 0 .. BPS_DENOMINATOR
  BY AttemptRead
<1>9. share = IF a.last_payout_bps = 0 THEN BPS_DENOMINATOR ELSE a.last_payout_bps
  BY PayoutShare
<1>10. bounties[b].status = "SETTLED" /\ bounties[b].winning_attempt_index = i
  BY AttemptRead
<1>. HIDE DEF share, y
<1>11. /\ gross \in Int /\ fee \in Int
       /\ GenLayer!ChallengerNet(q.reward, a.last_payout_bps, q.feeBps) = gross - fee
       /\ GenLayer!PlatformFee(q.reward, a.last_payout_bps, q.feeBps) = fee
       /\ GenLayer!ClientRefund(q.reward, a.last_payout_bps) = q.reward - gross
  <2>1. PICK R \in Nat : R = q.reward
    BY <1>7
  <2>2. PICK F \in Nat : F = q.feeBps
    BY <1>7
  <2>3. PICK B \in 0 .. BPS_DENOMINATOR : B = a.last_payout_bps
    BY <1>8
  <2>4. share = IF B = 0 THEN BPS_DENOMINATOR ELSE B
    BY <1>9, <2>3
  <2>5. /\ Base!Gross(R, share) \in Int /\ Base!Fee(Base!Gross(R, share), F) \in Int
        /\ GenLayer!ChallengerNet(R, B, F)
             = Base!Gross(R, share) - Base!Fee(Base!Gross(R, share), F)
        /\ GenLayer!PlatformFee(R, B, F) = Base!Fee(Base!Gross(R, share), F)
        /\ GenLayer!ClientRefund(R, B) = R - Base!Gross(R, share)
    BY <2>4, SameSplit
  <2>. QED
    BY <2>1, <2>2, <2>3, <2>5
<1>. HIDE DEF gross, fee
<1>12. gross - fee + p.bond \in Int /\ q.reward - gross \in Int
  BY <1>7, <1>11
<1>13. claimable' \in [Account -> Int]
  <2>1. ASSUME NEW x \in Account
        PROVE  /\ claimable[x] \in Int /\ Base!Due(x, a.challenger, gross - fee + p.bond) \in Int
               /\ Base!Due(x, to, p.appealBond) \in Int /\ Base!Due(x, roles.treasury, fee) \in Int
               /\ Base!Due(x, q.creator, q.reward - gross) \in Int
    BY <1>3, <1>7, <1>11, <1>12 DEF Base!Due
  <2>. QED
    BY <1>1, <2>1
<1>14. BaseMatches' /\ BindingsStay
  BY <1>1, <1>5, <1>10, <1>13, SettleMatches
<1>15. to = a.appeal_bond_recipient \/ p.appealBond = 0
  BY <1>1 DEF AppealRecipient, Fresh, Base!AppealAllocatable
<1>16. ASSUME NEW x \in Account
       PROVE  claimable'[x] - claimable[x] = DecidedShare(b, i, x)
  <2>. DEFINE ToParty(v, amount) == IF x = v THEN amount ELSE 0
  <2>1. DecidedShare(b, i, x) =
          ToParty(a.challenger, p.bond) + ToParty(a.appeal_bond_recipient, p.appealBond)
            + (ToParty(a.challenger, gross - fee) + ToParty(roles.treasury, fee)
               + ToParty(q.creator, q.reward - gross))
    BY <1>6, <1>11 DEF DecidedShare
  <2>2. ToParty(to, p.appealBond) = ToParty(a.appeal_bond_recipient, p.appealBond)
    BY <1>15
  <2>3. claimable'[x] =
          claimable[x] + ToParty(a.challenger, gross - fee + p.bond) + ToParty(to, p.appealBond)
            + ToParty(roles.treasury, fee) + ToParty(q.creator, q.reward - gross)
    BY <1>1 DEF Base!Due
  <2>4. ToParty(a.challenger, gross - fee + p.bond)
          = ToParty(a.challenger, gross - fee) + ToParty(a.challenger, p.bond)
    BY <1>7, <1>11
  <2>5. /\ ToParty(a.challenger, gross - fee) \in Int /\ ToParty(a.challenger, p.bond) \in Int
        /\ ToParty(a.appeal_bond_recipient, p.appealBond) \in Int
        /\ ToParty(roles.treasury, fee) \in Int /\ ToParty(q.creator, q.reward - gross) \in Int
        /\ claimable[x] \in Int
    BY <1>3, <1>7, <1>11, <1>12
  <2>6. \A k, l, m, n, o, c \in Int : (c + (k + l) + m + n + o) - c = l + m + (k + n + o)
    OBVIOUS
  <2>. HIDE DEF ToParty
  <2>. QED
    BY <2>1, <2>2, <2>3, <2>4, <2>5, <2>6
<1>. QED
  BY <1>1, <1>14, <1>16

LEMMA BondPays ==
    ASSUME Ledger!InOrder, BaseMatches, NEW b \in BountyId, NEW i \in AttemptIndex,
           NEW sender, NEW signer, NEW stateHash, NEW nonce, NEW outcome, NEW party,
           UNCHANGED glVars,
           Base!ExecuteBond(sender, signer, b, i, outcome, party,
                            AppealRecipient(b, Fresh(attempts[b][i])), stateHash, nonce),
           attempts[b][i].status # "WON",
           party = IF attempts[b][i].status = "BOND_FORFEITED" THEN bounties[b].creator
                                                               ELSE attempts[b][i].challenger
    PROVE  /\ BaseMatches' /\ BindingsStay
           /\ baseAttempts' = [baseAttempts EXCEPT ![b][i].settled = TRUE]
           /\ \A x \in Account : claimable'[x] - claimable[x] = DecidedShare(b, i, x)
<1>. DEFINE a == attempts[b][i]
            p == baseAttempts[b][i]
            q == baseBounties[b]
            to == AppealRecipient(b, Fresh(a))
            y == [q EXCEPT !.decisionNonce = nonce]
<1>1. /\ baseBounties' = [baseBounties EXCEPT ![b] = y]
      /\ baseAttempts' = [baseAttempts EXCEPT ![b][i].settled = TRUE]
      /\ claimable' = [x \in Account |->
                         claimable[x] + Base!Due(x, party, p.bond)
                                      + Base!Due(x, to, p.appealBond)]
      /\ UNCHANGED <<glVars, now, pendingAttempts>>
      /\ nonce = q.decisionNonce + 1
      /\ Base!AppealAllocatable(b, i, to)
  BY DEF Base!ExecuteBond, Base!DecisionAcceptable
<1>2. BaseTyped
  BY DEF BaseMatches
<1>3. p \in Base!AttemptRecord /\ q \in Base!BountyRecord /\ claimable \in [Account -> Int]
  BY <1>2 DEF BaseTyped
<1>4. nonce \in Nat
  BY <1>1, <1>3 DEF Base!BountyRecord
<1>5. /\ y \in Base!BountyRecord
      /\ y.creator = q.creator /\ y.reward = q.reward /\ y.requiredBond = q.requiredBond
      /\ y.feeBps = q.feeBps /\ y.registered = q.registered
      /\ y.rewardSettled = q.rewardSettled
  BY <1>3, <1>4 DEF Base!BountyRecord
<1>6. p.bond \in Nat /\ p.appealBond \in Nat
  BY <1>3 DEF Base!AttemptRecord
<1>. HIDE DEF y
<1>7. claimable' \in [Account -> Int]
  <2>1. ASSUME NEW x \in Account
        PROVE  /\ claimable[x] \in Int /\ Base!Due(x, party, p.bond) \in Int
               /\ Base!Due(x, to, p.appealBond) \in Int
    BY <1>3, <1>6 DEF Base!Due
  <2>. QED
    BY <1>1, <2>1
<1>8. BaseMatches' /\ BindingsStay
  BY <1>1, <1>5, <1>7, SettleMatches
<1>9. to = a.appeal_bond_recipient \/ p.appealBond = 0
  BY <1>1 DEF AppealRecipient, Fresh, Base!AppealAllocatable
<1>10. ASSUME NEW x \in Account
       PROVE  claimable'[x] - claimable[x] = DecidedShare(b, i, x)
  <2>. DEFINE ToParty(v, amount) == IF x = v THEN amount ELSE 0
  <2>1. DecidedShare(b, i, x) =
          ToParty(party, p.bond) + ToParty(a.appeal_bond_recipient, p.appealBond) + 0
    BY DEF DecidedShare
  <2>2. ToParty(to, p.appealBond) = ToParty(a.appeal_bond_recipient, p.appealBond)
    BY <1>9
  <2>3. claimable'[x] = claimable[x] + ToParty(party, p.bond) + ToParty(to, p.appealBond)
    BY <1>1 DEF Base!Due
  <2>4. /\ ToParty(party, p.bond) \in Int
        /\ ToParty(a.appeal_bond_recipient, p.appealBond) \in Int
        /\ claimable[x] \in Int
    BY <1>3, <1>6
  <2>5. \A k, l, c \in Int : (c + k + l) - c = k + l + 0
    OBVIOUS
  <2>. HIDE DEF ToParty
  <2>. QED
    BY <2>1, <2>2, <2>3, <2>4, <2>5
<1>. QED
  BY <1>1, <1>8, <1>10

-----------------------------------------------------------------------------
(* The calls of the contract on GenLayer.                                  *)

\* It is enough to look at the appeal deposits.
LEMMA ContractMoves ==
    ASSUME Ledger!InOrder, Ledger!AllKept, BaseMatches,
           UNCHANGED <<baseBounties, pendingAttempts, baseAttempts, claimable>>, now' \in Nat,
           \A b \in BountyId, i \in AttemptIndex :
             DepositOf(baseAttempts[b][i], baseBounties[b], attempts'[b][i], now')
    PROVE  KeepsBase
<1>1. BaseTyped'
  BY DEF BaseMatches, BaseTyped
<1>2. ASSUME NEW b \in BountyId
      PROVE  Registered(b)' /\ Rewarded(b)'
  <2>1. Registered(b) /\ Rewarded(b)
    BY DEF BaseMatches
  <2>2. Registered(b)'
    BY <2>1, RegistrationStays
  <2>3. Rewarded(b)'
    BY <2>1, RewardStays
  <2>. QED
    BY <2>2, <2>3
<1>3. ASSUME NEW b \in BountyId, NEW i \in AttemptIndex
      PROVE  Position(b, i)'
  <2>1. BoundTo(baseAttempts[b][i], baseBounties[b], b, i, reservations)
    BY DEF BaseMatches, Position
  <2>2. BoundTo(baseAttempts[b][i], baseBounties[b], b, i, reservations')
    BY <2>1, BindingFollows
  <2>. QED
    BY <2>2 DEF Position
<1>4. BindingsStay /\ NothingSettles
  BY DEF BindingsStay, NothingSettles
<1>. QED
  BY <1>1, <1>2, <1>3, <1>4 DEF BaseMatches, KeepsBase

\* What the calls leave of a deposit and what it is for.
LEMMA CallKeepsDeposit ==
    ASSUME Ledger!InOrder, Ledger!AllKept, BaseMatches,
           NEW b \in BountyId, NEW i \in AttemptIndex,
           Ledger!WindowKept(b, i), Ledger!Uncounted(b, i)
    PROVE  DepositOf(baseAttempts[b][i], baseBounties[b], attempts'[b][i], now)
<1>. DEFINE a == attempts[b][i]
            z == attempts'[b][i]
<1>1. Ledger!AttemptKept(b, i)
  BY DEF Ledger!AllKept
<1>2. Ledger!AppealCounts(a) => z.bond_amount = a.bond_amount
  BY <1>1, CountsExists DEF Ledger!AttemptKept
<1>3. a.status \in Ledger!AFTER_RULING =>
        z.status \in Ledger!AFTER_RULING /\ z.appeal_deadline = a.appeal_deadline
  BY <1>1 DEF Ledger!AttemptKept, Ledger!WindowKept
<1>4. Ledger!Closed(a) => Ledger!Closed(z)
  BY <1>1 DEF Ledger!AttemptKept
<1>5. Ledger!AppealCounts(z) => Ledger!AppealCounts(a) \/ z.bond_amount = 0
  BY <1>2 DEF Ledger!Uncounted, Ledger!AppealUncounted
<1>6. DepositOf(baseAttempts[b][i], baseBounties[b], a, now)
  BY DEF BaseMatches, Position
<1>. QED
  BY <1>2, <1>3, <1>4, <1>5, <1>6, DepositStays

LEMMA CallMatches ==
    ASSUME Ledger!InOrder, Ledger!AllKept, BaseMatches, UNCHANGED baseVars,
           \/ Ledger!Participation
           \/ \E sender \in Account, b \in BountyId, r \in ReservationId, txHash \in TxHash :
                Ledger!ConfirmAttemptFunding(sender, b, r, txHash)
           \/ \E sender \in Account, b \in BountyId, i \in AttemptIndex, txHash \in TxHash :
                Ledger!ConfirmAppealFunding(sender, b, i, txHash)
    PROVE  KeepsBase
<1>1. \A b \in BountyId, i \in AttemptIndex : Ledger!WindowKept(b, i) /\ Ledger!Uncounted(b, i)
  BY LedgerCalls DEF Ledger!InOrder
<1>2. \A b \in BountyId, i \in AttemptIndex :
        DepositOf(baseAttempts[b][i], baseBounties[b], attempts'[b][i], now)
  BY <1>1, CallKeepsDeposit
<1>3. /\ UNCHANGED <<now, baseBounties, pendingAttempts, baseAttempts, claimable>>
      /\ now \in Nat
  BY DEF baseVars, BaseMatches, BaseTyped
<1>. QED
  BY <1>2, <1>3, ContractMoves

LEMMA TickMatches ==
    ASSUME Ledger!InOrder, Ledger!AllKept, BaseMatches, Ledger!Tick, Base!Tick
    PROVE  KeepsBase
<1>1. \A b \in BountyId, i \in AttemptIndex : Ledger!WindowRuns(b, i)
  BY LedgerTick DEF Ledger!InOrder
<1>2. /\ UNCHANGED <<baseBounties, pendingAttempts, baseAttempts, claimable>>
      /\ now' = now + 1 /\ now \in Nat
  BY DEF Base!Tick, BaseMatches, BaseTyped
<1>3. ASSUME NEW b \in BountyId, NEW i \in AttemptIndex
      PROVE  DepositOf(baseAttempts[b][i], baseBounties[b], attempts'[b][i], now + 1)
  <2>. DEFINE a == attempts[b][i]
              z == attempts'[b][i]
              p == baseAttempts[b][i]
  <2>1. Ledger!AttemptKept(b, i) /\ Ledger!WindowRuns(b, i)
    BY <1>1 DEF Ledger!AllKept
  <2>2. Ledger!AppealCounts(a) => z.bond_amount = a.bond_amount
    BY <2>1, CountsExists DEF Ledger!AttemptKept
  <2>3. /\ a.status \in Ledger!AFTER_RULING => z.status \in Ledger!AFTER_RULING
        /\ Ledger!Closed(a) => Ledger!Closed(z)
    BY <2>1 DEF Ledger!AttemptKept
  <2>4. /\ z.appeal_deadline <= 0 \/ z.appeal_deadline <= a.appeal_deadline - 1
        /\ Ledger!AppealCounts(z) => Ledger!AppealCounts(a)
    BY <2>1 DEF Ledger!WindowRuns
  <2>5. DepositOf(p, baseBounties[b], a, now) /\ p.appealAuthorizationExpiry \in Nat
    BY DEF BaseMatches, Position, BaseTyped, Base!AttemptRecord
  <2>6. a.appeal_deadline \in Int
    BY AttemptRead
  <2>7. z.appeal_deadline \in Int
    <3>1. attempts' = [c \in BountyId |-> [j \in AttemptIndex |->
             [attempts[c][j] EXCEPT !.appeal_deadline = Ledger!Elapsed(@, 0),
                                    !.appeal_funding_deadline = Ledger!Elapsed(@, -1)]]]
      BY DEF Ledger!Tick
    <3>2. z = [a EXCEPT !.appeal_deadline = Ledger!Elapsed(@, 0),
                        !.appeal_funding_deadline = Ledger!Elapsed(@, -1)]
      BY <3>1
    <3>3. a \in Ledger!Attempt
      BY DEF Ledger!InOrder, Ledger!TypeOK
    <3>4. z.appeal_deadline = Ledger!Elapsed(a.appeal_deadline, 0)
      BY <3>2, <3>3 DEF Ledger!Attempt
    <3>. QED
      BY <2>6, <3>4 DEF Ledger!Elapsed
  <2>. HIDE DEF a, z, p
  <2>8. DepositOf(p, baseBounties[b], z, now + 1)
    BY <1>2, <2>2, <2>3, <2>4, <2>5, <2>6, <2>7, DepositAges
  <2>. QED
    BY <2>8 DEF p, z
<1>. QED
  BY <1>2, <1>3, ContractMoves

\* The binding is reported of a deposit that is bound.
LEMMA BindingMatches ==
    ASSUME Ledger!InOrder, Ledger!AllKept, BaseMatches, UNCHANGED baseVars,
           NEW c \in BountyId, NEW j \in AttemptIndex, NEW sender,
           Ledger!ConfirmAppealBinding(sender, c, j), baseAttempts[c][j].appealBound
    PROVE  KeepsBase
<1>1. ASSUME NEW b \in BountyId, NEW i \in AttemptIndex
      PROVE  /\ Ledger!WindowKept(b, i)
             /\ b # c \/ i # j => Ledger!Uncounted(b, i)
             /\ attempts[c][j].status = "APPEAL_FUNDED_PENDING_BINDING"
  BY LedgerBinding DEF Ledger!InOrder
<1>2. ASSUME NEW b \in BountyId, NEW i \in AttemptIndex
      PROVE  DepositOf(baseAttempts[b][i], baseBounties[b], attempts'[b][i], now)
  <2>1. CASE b # c \/ i # j
    BY <1>1, <2>1, CallKeepsDeposit
  <2>2. CASE b = c /\ i = j
    <3>. DEFINE a == attempts[b][i]
                z == attempts'[b][i]
                p == baseAttempts[b][i]
    <3>1. a.status = "APPEAL_FUNDED_PENDING_BINDING" /\ Ledger!WindowKept(b, i)
      BY <1>1, <2>2
    <3>2. a.status \in Ledger!AFTER_RULING /\ a.status # "NONE"
      BY <3>1 DEF Ledger!AFTER_RULING
    <3>3. Ledger!AttemptKept(b, i)
      BY DEF Ledger!AllKept
    <3>4. z.status \in Ledger!AFTER_RULING /\ z.bond_amount = a.bond_amount
      BY <3>2, <3>3 DEF Ledger!AttemptKept
    <3>5. z.appeal_deadline = a.appeal_deadline
      BY <3>1, <3>2 DEF Ledger!WindowKept
    <3>6. DepositOf(p, baseBounties[b], a, now) /\ p.appealBound
      BY <2>2 DEF BaseMatches, Position
    <3>7. p.appealBond \in Nat
      BY DEF BaseMatches, BaseTyped, Base!AttemptRecord
    <3>8. p.appealBond # 0 => baseBounties[b].requiredBond = a.bond_amount
      <4>1. p.appealBond # 0 => baseBounties[b].registered
        BY <3>6 DEF DepositOf
      <4>2. baseBounties[b].registered => baseBounties[b].requiredBond = bounties[b].required_bond
        BY DEF BaseMatches, Registered, TermsMatch
      <4>3. a.bond_amount = bounties[b].required_bond
        BY <3>2, AttemptRead
      <4>. QED
        BY <4>1, <4>2, <4>3
    <3>. HIDE DEF a, z, p
    <3>9. DepositOf(p, baseBounties[b], z, now)
      BY <3>1, <3>4, <3>5, <3>6, <3>7, <3>8, DepositCounts
    <3>. QED
      BY <3>9 DEF p, z
  <2>. QED
    BY <2>1, <2>2
<1>3. /\ UNCHANGED <<now, baseBounties, pendingAttempts, baseAttempts, claimable>>
      /\ now \in Nat
  BY DEF baseVars, BaseMatches, BaseTyped
<1>. QED
  BY <1>2, <1>3, ContractMoves

-----------------------------------------------------------------------------
(* The requests, step by step.                                             *)

\* What a request relies on, while it runs.
LEMMA RequestRelies ==
    ASSUME Requests, NEW q \in Handler, handler[q] # Idle
    PROVE  LET h == handler[q]
               receipt == h.receipt
           IN
           /\ h = [pc |-> h.pc, receipt |-> receipt, seen |-> h.seen]
           /\ receipt \in receipts /\ receipt \in Receipt
           /\ receipt.b \in BountyId /\ receipt.payer \in Account /\ receipt.hash \in TxHash
           /\ receipt.kind = "reservation" => receipt.slot \in ReservationId
           /\ receipt.kind = "appeal" => receipt.slot \in AttemptIndex
           /\ receipt.kind = "reservation" /\ h.pc # "received" =>
                /\ reservations[receipt.slot].bounty_id = receipt.b
                /\ reservations[receipt.slot].challenger = receipt.payer
           /\ receipt.kind = "reservation" /\ h.pc \in {"position", "bind"} =>
                reservations[receipt.slot].status = "ACTIVATED"
           /\ receipt.kind = "appeal" /\ h.pc = "activate" =>
                baseAttempts[receipt.b][receipt.slot].appealBound
<1>. DEFINE h == handler[q]
            receipt == h.receipt
<1>1. Handles(h, receipts, reservations, baseAttempts)
  BY DEF Requests
<1>2. receipt \in receipts
  BY <1>1 DEF Handles
<1>3. receipt \in Receipt
  BY <1>2 DEF Requests
<1>4. /\ receipt.b \in BountyId /\ receipt.payer \in Account /\ receipt.hash \in TxHash
      /\ receipt.kind = "reservation" => receipt.slot \in ReservationId
      /\ receipt.kind = "appeal" => receipt.slot \in AttemptIndex
  BY <1>3 DEF Receipt
<1>. QED
  BY <1>1, <1>2, <1>3, <1>4 DEF Handles

\* One request moves, the others stay where they are.
LEMMA OneRequest ==
    ASSUME Ledger!InOrder, Ledger!AllKept, BindingsStay, Requests,
           receipts \subseteq receipts', receipts' \subseteq Receipt,
           NEW q \in Handler, NEW h, handler' = [handler EXCEPT ![q] = h],
           Handles(h, receipts', reservations', baseAttempts')
    PROVE  Requests'
<1>1. ASSUME NEW r \in Handler
      PROVE  Handles(handler'[r], receipts', reservations', baseAttempts')
  <2>1. CASE r = q
    <3>1. handler'[r] = h
      BY <2>1 DEF Requests
    <3>. QED
      BY <3>1
  <2>2. CASE r # q
    <3>1. handler'[r] = handler[r]
      BY <2>2 DEF Requests
    <3>2. Handles(handler[r], receipts, reservations, baseAttempts)
      BY DEF Requests
    <3>3. Handles(handler[r], receipts', reservations', baseAttempts')
      BY <3>2, RequestsStay DEF Requests
    <3>. QED
      BY <3>1, <3>3
  <2>. QED
    BY <2>1, <2>2
<1>2. handler' = [r \in Handler |-> handler'[r]]
  BY DEF Requests
<1>. QED
  BY <1>1, <1>2 DEF Requests

LEMMA NoRequest ==
    ASSUME Ledger!InOrder, Ledger!AllKept, BindingsStay, Requests,
           receipts \subseteq receipts', receipts' \subseteq Receipt, UNCHANGED handler
    PROVE  Requests'
<1>1. ASSUME NEW r \in Handler
      PROVE  Handles(handler'[r], receipts', reservations', baseAttempts')
  <2>1. Handles(handler[r], receipts, reservations, baseAttempts)
    BY DEF Requests
  <2>2. Handles(handler[r], receipts', reservations', baseAttempts')
    BY <2>1, RequestsStay DEF Requests
  <2>. QED
    BY <2>2
<1>. QED
  BY <1>1 DEF Requests

LEMMA RequestEnds ==
    ASSUME Ledger!InOrder, Ledger!AllKept, BindingsStay, Requests, UNCHANGED receipts,
           NEW q \in Handler, Finish(q)
    PROVE  Requests'
<1>1. Handles(Idle, receipts', reservations', baseAttempts')
  BY DEF Handles
<1>2. handler' = [handler EXCEPT ![q] = Idle]
  BY DEF Finish
<1>3. receipts \subseteq receipts' /\ receipts' \subseteq Receipt
  BY DEF Requests
<1>. QED
  BY <1>1, <1>2, <1>3, OneRequest

LEMMA RequestGoesOn ==
    ASSUME Ledger!InOrder, Ledger!AllKept, BindingsStay, Requests, UNCHANGED receipts,
           NEW q \in Handler, handler[q] # Idle, NEW pc, NEW seen, Goto(q, pc, seen),
           handler[q].receipt.kind = "reservation" =>
             /\ reservations'[handler[q].receipt.slot].bounty_id = handler[q].receipt.b
             /\ reservations'[handler[q].receipt.slot].challenger = handler[q].receipt.payer
             /\ pc \in {"position", "bind"} =>
                  reservations'[handler[q].receipt.slot].status = "ACTIVATED",
           handler[q].receipt.kind = "appeal" /\ pc = "activate" =>
             baseAttempts'[handler[q].receipt.b][handler[q].receipt.slot].appealBound
    PROVE  Requests'
<1>. DEFINE receipt == handler[q].receipt
            h == [pc |-> pc, receipt |-> receipt, seen |-> seen]
<1>1. handler[q] = [pc |-> handler[q].pc, receipt |-> receipt, seen |-> handler[q].seen]
      /\ receipt \in receipts
  BY RequestRelies
<1>2. handler' = [handler EXCEPT ![q] = h]
  <2>. DEFINE f == [handler EXCEPT ![q] = [handler[q] EXCEPT !.pc = pc]]
  <2>1. f = [r \in Handler |-> IF r = q THEN [handler[q] EXCEPT !.pc = pc] ELSE handler[r]]
    BY DEF Requests
  <2>2. handler' = [f EXCEPT ![q] = [f[q] EXCEPT !.seen = seen]]
    BY DEF Goto, Requests
  <2>. HIDE DEF f
  <2>3. f[q] = [handler[q] EXCEPT !.pc = pc]
    BY <2>1
  <2>4. [f[q] EXCEPT !.seen = seen] = h
    <3>1. \A c, r, s : [[pc |-> c, receipt |-> r, seen |-> s] EXCEPT !.pc = pc]
                        = [pc |-> pc, receipt |-> r, seen |-> s]
      OBVIOUS
    <3>2. \A c, r, s : [[pc |-> c, receipt |-> r, seen |-> s] EXCEPT !.seen = seen]
                        = [pc |-> c, receipt |-> r, seen |-> seen]
      OBVIOUS
    <3>3. PICK c, s : handler[q] = [pc |-> c, receipt |-> receipt, seen |-> s]
      BY <1>1
    <3>. HIDE DEF receipt
    <3>4. f[q] = [pc |-> pc, receipt |-> receipt, seen |-> s]
      BY <2>3, <3>1, <3>3
    <3>. QED
      BY <3>2, <3>4
  <2>5. handler' = [r \in Handler |-> IF r = q THEN h ELSE handler[r]]
    BY <2>1, <2>2, <2>4
  <2>. QED
    BY <2>5 DEF Requests
<1>3. h.pc = pc /\ h.receipt = receipt /\ h.seen = seen
  OBVIOUS
<1>4. receipts \subseteq receipts' /\ receipts' \subseteq Receipt
  BY DEF Requests
<1>5. Handles(h, receipts', reservations', baseAttempts')
  BY <1>1 DEF Handles
<1>. HIDE DEF h
<1>. QED
  BY <1>2, <1>4, <1>5, OneRequest

\* The transactions and calls of a request.
LEMMA HandleContract ==
    ASSUME Ledger!InOrder, Requests, NEW q \in Handler, Handle(q)
    PROVE  /\ UNCHANGED <<receipts, issued, sweep>>
           /\ \/ UNCHANGED glVars
              \/ /\ UNCHANGED baseVars
                 /\ \/ \E sender \in Account, b \in BountyId, r \in ReservationId, txHash \in TxHash :
                         Ledger!ConfirmAttemptFunding(sender, b, r, txHash)
                    \/ \E sender \in Account, b \in BountyId, i \in AttemptIndex, txHash \in TxHash :
                         Ledger!ConfirmAppealFunding(sender, b, i, txHash)
                    \/ \E sender \in Account, b \in BountyId, i \in AttemptIndex :
                         Ledger!ConfirmAppealBinding(sender, b, i) /\ baseAttempts[b][i].appealBound
<1>. DEFINE receipt == handler[q].receipt
            sender == config.funding_attestor
<1>1. sender \in Account
  BY DEF Ledger!InOrder, Ledger!TypeOK, Ledger!Config
<1>2. CASE ReadReservation(q) \/ ReadPending(q) \/ ReadAttemptPosition(q) \/ ReadAppeal(q)
             \/ ReadAppealPosition(q)
  BY <1>2 DEF ReadReservation, ReadPending, ReadAttemptPosition, ReadAppeal, ReadAppealPosition
<1>3. CASE BindAttempt(q) \/ BindAppeal(q)
  BY <1>3 DEF BindAttempt, BindAppeal
<1>4. CASE AttestAttemptFunding(q)
  <2>1. /\ Running(q, "reservation", "attest") /\ UNCHANGED <<baseVars, receipts, issued, sweep>>
        /\ GenLayer!ConfirmAttemptFunding(sender, receipt.b, receipt.slot, receipt.hash)
    BY <1>4 DEF AttestAttemptFunding
  <2>2. receipt.b \in BountyId /\ receipt.slot \in ReservationId /\ receipt.hash \in TxHash
    BY <2>1, RequestRelies DEF Running
  <2>3. Ledger!ConfirmAttemptFunding(sender, receipt.b, receipt.slot, receipt.hash)
    BY <2>1, SameAttemptFunding
  <2>. QED
    BY <1>1, <2>1, <2>2, <2>3
<1>5. CASE AttestAppealFunding(q)
  <2>1. /\ Running(q, "appeal", "attest") /\ UNCHANGED <<baseVars, receipts, issued, sweep>>
        /\ GenLayer!ConfirmAppealFunding(sender, receipt.b, receipt.slot, receipt.hash)
    BY <1>5 DEF AttestAppealFunding
  <2>2. receipt.b \in BountyId /\ receipt.slot \in AttemptIndex /\ receipt.hash \in TxHash
    BY <2>1, RequestRelies DEF Running
  <2>3. Ledger!ConfirmAppealFunding(sender, receipt.b, receipt.slot, receipt.hash)
    BY <2>1, SameAppealCalls
  <2>. QED
    BY <1>1, <2>1, <2>2, <2>3
<1>6. CASE AttestAppealBinding(q)
  <2>1. /\ Running(q, "appeal", "activate") /\ UNCHANGED <<baseVars, receipts, issued, sweep>>
        /\ GenLayer!ConfirmAppealBinding(sender, receipt.b, receipt.slot)
    BY <1>6 DEF AttestAppealBinding
  <2>2. /\ receipt.b \in BountyId /\ receipt.slot \in AttemptIndex
        /\ baseAttempts[receipt.b][receipt.slot].appealBound
    BY <2>1, RequestRelies DEF Running
  <2>3. Ledger!ConfirmAppealBinding(sender, receipt.b, receipt.slot)
    BY <2>1, SameAppealCalls
  <2>. QED
    BY <1>1, <2>1, <2>2, <2>3
<1>. QED
  BY <1>2, <1>3, <1>4, <1>5, <1>6 DEF Handle

LEMMA NothingMoves ==
    ASSUME BaseMatches, UNCHANGED <<glVars, baseVars>>
    PROVE  KeepsBase
<1>1. /\ pendingAttempts' \in [BountyId -> [ReservationId -> Base!PendingAttemptRecord]]
      /\ claimable' \in [Account -> Int]
      /\ UNCHANGED <<glVars, now, baseBounties, baseAttempts>>
  BY DEF BaseMatches, BaseTyped, baseVars
<1>. QED
  BY <1>1, PositionsSame

LEMMA HandleMatches ==
    ASSUME Ledger!InOrder, Ledger!AllKept, BaseMatches, Requests, NEW q \in Handler, Handle(q)
    PROVE  KeepsBase
<1>. DEFINE receipt == handler[q].receipt
<1>1. CASE BindAttempt(q)
  <2>. DEFINE r == receipt.slot
  <2>1. /\ Running(q, "reservation", "bind") /\ UNCHANGED glVars
        /\ pendingAttempts[receipt.b][r].challenger = receipt.payer
        /\ Base!BindAttempt(roles.relayer, roles.decisionSigner, receipt.b, r,
                            reservations[r].activated_attempt_index)
    BY <1>1 DEF BindAttempt, ActivatedIndex
  <2>2. handler[q] # Idle /\ receipt.kind = "reservation" /\ handler[q].pc = "bind"
    BY <2>1 DEF Running
  <2>3. /\ receipt.b \in BountyId /\ r \in ReservationId
        /\ reservations[r].bounty_id = receipt.b
        /\ reservations[r].challenger = receipt.payer
        /\ reservations[r].status = "ACTIVATED"
    BY <2>2, RequestRelies
  <2>4. reservations[r].activated_attempt_index \in AttemptIndex
    BY <2>3, ReservationRead
  <2>. HIDE DEF receipt, r
  <2>. QED
    BY <2>1, <2>3, <2>4, BindAttemptMatches
<1>2. CASE BindAppeal(q)
  <2>1. /\ Running(q, "appeal", "bind") /\ UNCHANGED glVars
        /\ Base!BindAppeal(roles.relayer, roles.decisionSigner, receipt.b, receipt.slot, receipt.hash)
    BY <1>2 DEF BindAppeal
  <2>2. receipt.b \in BountyId /\ receipt.slot \in AttemptIndex /\ receipt.hash \in TxHash
    BY <2>1, RequestRelies DEF Running
  <2>. QED
    BY <2>1, <2>2, BindAppealMatches
<1>3. CASE UNCHANGED <<glVars, baseVars>>
  BY <1>3, NothingMoves
<1>4. CASE UNCHANGED glVars /\ ~BindAttempt(q) /\ ~BindAppeal(q)
  <2>1. UNCHANGED baseVars
    BY <1>4 DEF Handle, ReadReservation, ReadPending, AttestAttemptFunding, ReadAttemptPosition,
                ReadAppeal, AttestAppealFunding, ReadAppealPosition, AttestAppealBinding
  <2>. QED
    BY <1>3, <1>4, <2>1
<1>5. CASE ~UNCHANGED glVars
  <2>1. /\ UNCHANGED baseVars
        /\ \/ \E sender \in Account, b \in BountyId, r \in ReservationId, txHash \in TxHash :
                Ledger!ConfirmAttemptFunding(sender, b, r, txHash)
           \/ \E sender \in Account, b \in BountyId, i \in AttemptIndex, txHash \in TxHash :
                Ledger!ConfirmAppealFunding(sender, b, i, txHash)
           \/ \E sender \in Account, b \in BountyId, i \in AttemptIndex :
                Ledger!ConfirmAppealBinding(sender, b, i) /\ baseAttempts[b][i].appealBound
    BY <1>5, HandleContract
  <2>2. ASSUME NEW sender \in Account, NEW b \in BountyId, NEW i \in AttemptIndex,
               Ledger!ConfirmAppealBinding(sender, b, i), baseAttempts[b][i].appealBound
        PROVE  KeepsBase
    BY <2>1, <2>2, BindingMatches
  <2>3. CASE \/ \E sender \in Account, b \in BountyId, r \in ReservationId, txHash \in TxHash :
                  Ledger!ConfirmAttemptFunding(sender, b, r, txHash)
             \/ \E sender \in Account, b \in BountyId, i \in AttemptIndex, txHash \in TxHash :
                  Ledger!ConfirmAppealFunding(sender, b, i, txHash)
    BY <2>1, <2>3, CallMatches
  <2>. QED
    BY <2>1, <2>2, <2>3
<1>. QED
  BY <1>1, <1>2, <1>4, <1>5

\* What a request reads, and what it has done, it may go on with.
LEMMA HandleRequests ==
    ASSUME Ledger!InOrder, Ledger!AllKept, BaseMatches, BindingsStay, Requests,
           NEW q \in Handler, Handle(q)
    PROVE  Requests'
<1>. DEFINE h == handler[q]
            receipt == h.receipt
            r == receipt.slot
<1>1. UNCHANGED receipts
  BY HandleContract
<1>2. h # Idle
  BY DEF Handle, Running, ReadReservation, ReadPending, AttestAttemptFunding, ReadAttemptPosition,
         BindAttempt, ReadAppeal, AttestAppealFunding, ReadAppealPosition, BindAppeal,
         AttestAppealBinding
<1>3. CASE Finish(q)
  BY <1>1, <1>3, RequestEnds
<1>4. ASSUME NEW pc, NEW seen, Goto(q, pc, seen), receipt.kind = "reservation",
             reservations'[r].bounty_id = receipt.b, reservations'[r].challenger = receipt.payer,
             pc \in {"position", "bind"} => reservations'[r].status = "ACTIVATED"
      PROVE  Requests'
  BY <1>1, <1>2, <1>4, RequestGoesOn
<1>5. ASSUME NEW pc, NEW seen, Goto(q, pc, seen), receipt.kind = "appeal",
             pc = "activate" => baseAttempts'[receipt.b][r].appealBound
      PROVE  Requests'
  BY <1>1, <1>2, <1>5, RequestGoesOn
<1>6. CASE ReadReservation(q)
  <2>1. /\ receipt.kind = "reservation"
        /\ reservations[r].bounty_id = receipt.b /\ reservations[r].challenger = receipt.payer
        /\ Goto(q, "pending", reservations[r].status)
        /\ UNCHANGED reservations
    BY <1>6 DEF ReadReservation, Running, glVars
  <2>. QED
    BY <1>4, <2>1
<1>7. CASE ReadPending(q)
  <2>1. /\ receipt.kind = "reservation" /\ h.pc = "pending"
        /\ \/ Goto(q, "attest", "PENDING")
           \/ reservations[r].status = "ACTIVATED" /\ Goto(q, "position", "ACTIVATED")
        /\ UNCHANGED reservations
    BY <1>7 DEF ReadPending, Running, ActivatedBy, glVars
  <2>2. reservations[r].bounty_id = receipt.b /\ reservations[r].challenger = receipt.payer
    BY <1>2, <2>1, RequestRelies
  <2>3. CASE Goto(q, "attest", "PENDING")
    BY <1>4, <2>1, <2>2, <2>3
  <2>4. CASE reservations[r].status = "ACTIVATED" /\ Goto(q, "position", "ACTIVATED")
    BY <1>4, <2>1, <2>2, <2>4
  <2>. QED
    BY <2>1, <2>3, <2>4
<1>8. CASE AttestAttemptFunding(q)
  <2>1. /\ receipt.kind = "reservation" /\ h.pc = "attest"
        /\ GenLayer!ConfirmAttemptFunding(config.funding_attestor, receipt.b, r, receipt.hash)
        /\ Goto(q, "position", "ACTIVATED")
    BY <1>8 DEF AttestAttemptFunding, Running
  <2>2. /\ r \in ReservationId /\ receipt.payer \in Account
        /\ reservations[r].bounty_id = receipt.b /\ reservations[r].challenger = receipt.payer
    BY <1>2, <2>1, RequestRelies
  <2>3. reservations[r] \in Ledger!AttemptReservation
        /\ DOMAIN reservations = ReservationId
    BY <2>2 DEF Ledger!InOrder, Ledger!TypeOK
  <2>4. reservations'[r].status = "ACTIVATED"
    BY <2>1, <2>2, <2>3 DEF GenLayer!ConfirmAttemptFunding, Ledger!AttemptReservation
  <2>5. Ledger!ReservationSucceeds(reservations[r], reservations'[r])
    BY <2>2 DEF Ledger!AllKept
  <2>6. reservations[r].status # "NONE"
    BY <2>2, ReservationRead, AccountAssumption
  <2>7. reservations'[r].bounty_id = receipt.b /\ reservations'[r].challenger = receipt.payer
    BY <2>2, <2>5, <2>6 DEF Ledger!ReservationSucceeds
  <2>. QED
    BY <1>4, <2>1, <2>4, <2>7
<1>9. CASE ReadAttemptPosition(q)
  <2>1. /\ receipt.kind = "reservation" /\ h.pc = "position"
        /\ Goto(q, "bind", "ACTIVATED") \/ Finish(q)
        /\ UNCHANGED reservations
    BY <1>9 DEF ReadAttemptPosition, Running, glVars
  <2>2. /\ reservations[r].bounty_id = receipt.b /\ reservations[r].challenger = receipt.payer
        /\ reservations[r].status = "ACTIVATED"
    BY <1>2, <2>1, RequestRelies
  <2>. QED
    BY <1>3, <1>4, <2>1, <2>2
<1>10. CASE BindAttempt(q) \/ AttestAppealBinding(q)
  BY <1>3, <1>10 DEF BindAttempt, AttestAppealBinding
<1>11. CASE ReadAppeal(q)
  <2>1. /\ receipt.kind = "appeal"
        /\ \E seen : Goto(q, "attest", seen) \/ Goto(q, "position", seen)
    BY <1>11 DEF ReadAppeal, Running
  <2>. QED
    BY <1>5, <2>1
<1>12. CASE AttestAppealFunding(q)
  <2>1. receipt.kind = "appeal" /\ Goto(q, "attested", h.seen)
    BY <1>12 DEF AttestAppealFunding, Running
  <2>. QED
    BY <1>5, <2>1
<1>13. CASE ReadAppealPosition(q)
  <2>1. /\ receipt.kind = "appeal" /\ UNCHANGED baseAttempts
        /\ \/ Finish(q)
           \/ baseAttempts[receipt.b][r].appealBound /\ Goto(q, "activate", h.seen)
           \/ Goto(q, "bind", h.seen)
    BY <1>13 DEF ReadAppealPosition, Running, Activate, baseVars
  <2>2. CASE Goto(q, "bind", h.seen)
    BY <1>5, <2>1, <2>2
  <2>3. CASE baseAttempts[receipt.b][r].appealBound /\ Goto(q, "activate", h.seen)
    BY <1>5, <2>1, <2>3
  <2>. QED
    BY <1>3, <2>1, <2>2, <2>3
<1>14. CASE BindAppeal(q)
  <2>1. /\ Running(q, "appeal", "bind") /\ UNCHANGED glVars
        /\ Base!BindAppeal(roles.relayer, roles.decisionSigner, receipt.b, r, receipt.hash)
        /\ Finish(q) \/ Goto(q, "activate", h.seen)
    BY <1>14 DEF BindAppeal, Activate
  <2>2. receipt.b \in BountyId /\ r \in AttemptIndex /\ receipt.hash \in TxHash
    BY <2>1, RequestRelies DEF Running
  <2>3. baseAttempts'[receipt.b][r].appealBound
    BY <2>1, <2>2, BindAppealMatches
  <2>4. receipt.kind = "appeal"
    BY <2>1 DEF Running
  <2>. QED
    BY <1>3, <1>5, <2>1, <2>3, <2>4
<1>. QED
  BY <1>6, <1>7, <1>8, <1>9, <1>10, <1>11, <1>12, <1>13, <1>14 DEF Handle

-----------------------------------------------------------------------------
(* The steps of the sweep. *)

\* The transactions and calls of the sweep.
LEMMA SweepContract ==
    ASSUME Ledger!InOrder, Sweeps(sweep, bounties, attempts, baseAttempts), SweepStep
    PROVE  /\ UNCHANGED <<receipts, issued, handler>>
           /\ \/ UNCHANGED glVars
              \/ /\ UNCHANGED baseVars
                 /\ \E sender \in Account, b \in BountyId, i \in AttemptIndex :
                      Ledger!ConfirmAppealBinding(sender, b, i) /\ baseAttempts[b][i].appealBound
<1>. DEFINE sender == config.funding_attestor
<1>1. CASE SweepAttestBinding
  <2>1. /\ At("activate") /\ UNCHANGED <<baseVars, receipts, issued, handler>>
        /\ GenLayer!ConfirmAppealBinding(sender, sweep.b, sweep.i)
    BY <1>1 DEF SweepAttestBinding
  <2>2. AboutAttempt(sweep, attempts, baseAttempts)
    BY <2>1, SweepStages DEF At
  <2>3. /\ sweep.b \in BountyId /\ sweep.i \in AttemptIndex
        /\ baseAttempts[sweep.b][sweep.i].appealBound
    BY <2>1, <2>2 DEF AboutAttempt, At
  <2>4. Ledger!ConfirmAppealBinding(sender, sweep.b, sweep.i)
    BY <2>1, SameAppealCalls
  <2>5. sender \in Account
    BY DEF Ledger!InOrder, Ledger!TypeOK, Ledger!Config
  <2>. QED
    BY <2>1, <2>3, <2>4, <2>5
<1>2. CASE SweepReadBounty \/ SweepReadAttempt \/ SweepReadPosition \/ SweepRefresh
  BY <1>2 DEF SweepReadBounty, SweepReadAttempt, SweepReadPosition, SweepRefresh
<1>3. CASE SweepRegister \/ SweepRefund \/ SweepBindAppeal \/ SweepExecute
  BY <1>3 DEF SweepRegister, SweepRefund, SweepBindAppeal, SweepExecute
<1>. QED
  BY <1>1, <1>2, <1>3 DEF SweepStep

\* The settlement of a final attempt, and what it pays.
LEMMA ExecuteMatches ==
    ASSUME Ledger!InOrder, BaseMatches, Sweeps(sweep, bounties, attempts, baseAttempts), SweepExecute
    PROVE  LET b == sweep.b
               i == sweep.i
           IN
           /\ b \in BountyId /\ i \in AttemptIndex
           /\ attempts[b][i].status \in Ledger!TERMINAL_STATES
           /\ BaseMatches' /\ BindingsStay
           /\ baseAttempts' = [baseAttempts EXCEPT ![b][i].settled = TRUE]
           /\ \A x \in Account : claimable'[x] - claimable[x] = DecidedShare(b, i, x)
<1>. DEFINE b == sweep.b
            i == sweep.i
            a == attempts[b][i]
            fresh == sweep.fresh
<1>1. /\ At("execute") /\ UNCHANGED glVars
      /\ Outcome(fresh.status) \in {"Winner", "BondRefund", "BondForfeit"}
  BY DEF SweepExecute
<1>2. Outcome(fresh.status) # "none"
  BY <1>1
<1>3. b \in BountyId /\ i \in AttemptIndex /\ fresh = Fresh(a)
      /\ fresh.status \in Ledger!TERMINAL_STATES
  BY <1>1, <1>2, OutcomeStands
<1>4. fresh.status = a.status /\ fresh.challenger = a.challenger
  BY <1>3 DEF Fresh
<1>5. CASE Outcome(fresh.status) = "Winner"
  <2>1. a.status = "WON"
    BY <1>4, <1>5 DEF Outcome
  <2>2. Base!ExecuteWinner(roles.relayer, roles.decisionSigner, b, i, Payout(Fresh(a)),
                           a.challenger, AppealRecipient(b, Fresh(a)), <<b, i>>, sweep.nonce + 1)
    BY <1>3, <1>4, <1>5 DEF SweepExecute
  <2>. HIDE DEF a, b, i, fresh
  <2>3. /\ BaseMatches' /\ BindingsStay
        /\ baseAttempts' = [baseAttempts EXCEPT ![b][i].settled = TRUE]
        /\ \A x \in Account : claimable'[x] - claimable[x] = DecidedShare(b, i, x)
    BY <1>1, <1>3, <2>1, <2>2, WinnerPays DEF a
  <2>. QED
    BY <1>3, <1>4, <2>3 DEF b, i, a
<1>6. CASE Outcome(fresh.status) \in {"BondRefund", "BondForfeit"}
  <2>. DEFINE outcome == Outcome(fresh.status)
              party == IF outcome = "BondRefund" THEN a.challenger ELSE bounties[b].creator
  <2>1. /\ a.status # "WON"
        /\ party = IF a.status = "BOND_FORFEITED" THEN bounties[b].creator ELSE a.challenger
    BY <1>4, <1>6 DEF Outcome
  <2>2. Base!ExecuteBond(roles.relayer, roles.decisionSigner, b, i, outcome, party,
                         AppealRecipient(b, Fresh(a)), <<b, i>>, sweep.nonce + 1)
    BY <1>3, <1>4, <1>6 DEF SweepExecute
  <2>. HIDE DEF a, b, i, fresh, outcome, party
  <2>3. /\ BaseMatches' /\ BindingsStay
        /\ baseAttempts' = [baseAttempts EXCEPT ![b][i].settled = TRUE]
        /\ \A x \in Account : claimable'[x] - claimable[x] = DecidedShare(b, i, x)
    BY <1>1, <1>3, <2>1, <2>2, BondPays DEF a
  <2>. QED
    BY <1>3, <1>4, <2>3 DEF b, i, a
<1>. QED
  BY <1>1, <1>5, <1>6

LEMMA SweepMatches ==
    ASSUME Ledger!InOrder, Ledger!AllKept, BaseMatches,
           Sweeps(sweep, bounties, attempts, baseAttempts), SweepStep
    PROVE  /\ BaseMatches' /\ BindingsStay
           /\ NothingSettles \/ SweepExecute
<1>1. CASE SweepReadBounty \/ SweepReadAttempt \/ SweepReadPosition \/ SweepRefresh
  <2>1. UNCHANGED <<glVars, baseVars>>
    BY <1>1 DEF SweepReadBounty, SweepReadAttempt, SweepReadPosition, SweepRefresh
  <2>. QED
    BY <2>1, NothingMoves DEF KeepsBase
<1>2. CASE SweepRegister
  <2>1. /\ At("register") /\ TermsMatch(sweep.b) /\ UNCHANGED glVars
        /\ Base!RegisterBounty(roles.relayer, roles.decisionSigner, sweep.b)
    BY <1>2 DEF SweepRegister
  <2>2. sweep.b \in BountyId
    BY <2>1, SweepStages DEF At, AboutBounty
  <2>. QED
    BY <2>1, <2>2, RegisterMatches DEF KeepsBase
<1>3. CASE SweepRefund
  <2>1. /\ At("refund") /\ UNCHANGED glVars
        /\ Base!ExecuteBountyRefund(roles.relayer, roles.decisionSigner, sweep.b,
                                    bounties[sweep.b].creator, <<sweep.b, -1>>, sweep.nonce + 1)
    BY <1>3 DEF SweepRefund
  <2>2. sweep.b \in BountyId /\ bounties[sweep.b].status \in REFUNDABLE
    BY <2>1, SweepStages DEF At, AboutRefund
  <2>. QED
    BY <2>1, <2>2, RefundMatches DEF KeepsBase
<1>4. CASE SweepBindAppeal
  <2>1. /\ At("bind") /\ UNCHANGED glVars
        /\ Base!BindAppeal(roles.relayer, roles.decisionSigner, sweep.b, sweep.i,
                           sweep.fresh.appeal_base_funding_tx_hash)
    BY <1>4 DEF SweepBindAppeal
  <2>2. AboutAttempt(sweep, attempts, baseAttempts)
    BY <2>1, SweepStages DEF At
  <2>3. /\ sweep.b \in BountyId /\ sweep.i \in AttemptIndex
        /\ sweep.fresh.appeal_base_funding_tx_hash \in TxHash \cup {NoHash}
    BY <2>2 DEF AboutAttempt, Sight
  <2>4. KeepsBase
    BY <2>1, <2>3, BindAppealMatches
  <2>. QED
    BY <2>4 DEF KeepsBase
<1>5. CASE SweepAttestBinding
  <2>1. /\ At("activate") /\ UNCHANGED baseVars
        /\ GenLayer!ConfirmAppealBinding(config.funding_attestor, sweep.b, sweep.i)
    BY <1>5 DEF SweepAttestBinding
  <2>2. AboutAttempt(sweep, attempts, baseAttempts)
    BY <2>1, SweepStages DEF At
  <2>3. /\ sweep.b \in BountyId /\ sweep.i \in AttemptIndex
        /\ baseAttempts[sweep.b][sweep.i].appealBound
    BY <2>1, <2>2 DEF AboutAttempt, At
  <2>4. Ledger!ConfirmAppealBinding(config.funding_attestor, sweep.b, sweep.i)
    BY <2>1, SameAppealCalls
  <2>5. KeepsBase
    BY <2>1, <2>3, <2>4, BindingMatches
  <2>. QED
    BY <2>5 DEF KeepsBase
<1>6. CASE SweepExecute
  BY <1>6, ExecuteMatches
<1>. QED
  BY <1>1, <1>2, <1>3, <1>4, <1>5, <1>6 DEF SweepStep

\* What the sweep reads, it may rely on.
ReadsOn == Sweeps(sweep', bounties', attempts', baseAttempts')

LEMMA SweepReads ==
    ASSUME Ledger!InOrder, Ledger!AllKept, BaseMatches, BindingsStay,
           Sweeps(sweep, bounties, attempts, baseAttempts), SweepStep
    PROVE  ReadsOn
<1>1. ASSUME sweep' = Idle \/ BeforeAttempt(sweep')
      PROVE  ReadsOn
  BY <1>1 DEF Sweeps, ReadsOn
<1>2. ASSUME NEW b \in BountyId, NEW i \in Nat, NEW nonce,
             sweep' = [pc |-> "attempt", b |-> b, i |-> i, nonce |-> nonce]
      PROVE  ReadsOn
  BY <1>1, <1>2 DEF BeforeAttempt
<1>3. ASSUME AboutAttempt(sweep, attempts, baseAttempts), NEW pc, sweep' = [sweep EXCEPT !.pc = pc],
             pc \in {"position", "bind", "activate", "execute"},
             pc = "activate" => baseAttempts'[sweep.b][sweep.i].appealBound
      PROVE  ReadsOn
  <2>1. /\ sweep = [pc |-> sweep.pc, b |-> sweep.b, i |-> sweep.i, nonce |-> sweep.nonce,
                    fresh |-> sweep.fresh]
        /\ sweep.pc \in {"position", "bind", "activate", "execute"}
        /\ sweep.b \in BountyId /\ sweep.i \in AttemptIndex /\ sweep.fresh \in Sight
        /\ attempts[sweep.b][sweep.i].status # "NONE"
        /\ sweep.fresh.status \in Ledger!TERMINAL_STATES =>
             sweep.fresh = Fresh(attempts[sweep.b][sweep.i])
    BY <1>3 DEF AboutAttempt
  <2>2. \A c, b, i, n, f, d :
          [[pc |-> c, b |-> b, i |-> i, nonce |-> n, fresh |-> f] EXCEPT !.pc = d]
            = [pc |-> d, b |-> b, i |-> i, nonce |-> n, fresh |-> f]
    OBVIOUS
  <2>3. PICK c, b, i, n, f : /\ sweep = [pc |-> c, b |-> b, i |-> i, nonce |-> n, fresh |-> f]
                             /\ b = sweep.b /\ i = sweep.i /\ n = sweep.nonce /\ f = sweep.fresh
    BY <2>1
  <2>4. sweep' = [pc |-> pc, b |-> b, i |-> i, nonce |-> n, fresh |-> f]
    BY <1>3, <2>2, <2>3
  <2>. DEFINE r == [pc |-> "position", b |-> b, i |-> i, nonce |-> n, fresh |-> f]
  <2>5. r.pc = "position" /\ r.b = b /\ r.i = i /\ r.nonce = n /\ r.fresh = f
    OBVIOUS
  <2>6. Sweeps(r, bounties, attempts, baseAttempts)
    <3>. HIDE DEF r
    <3>1. r = [pc |-> r.pc, b |-> r.b, i |-> r.i, nonce |-> r.nonce, fresh |-> r.fresh]
      BY <2>5 DEF r
    <3>. QED
      BY <2>1, <2>3, <2>5, <3>1 DEF Sweeps, AboutAttempt
  <2>7. Sweeps(r, bounties', attempts', baseAttempts')
    BY <2>6, SweepStays
  <2>8. AboutAttempt(r, attempts', baseAttempts')
    BY <2>5, <2>7, SweepStages
  <2>9. /\ sweep'.pc = pc /\ sweep'.b = b /\ sweep'.i = i /\ sweep'.nonce = n /\ sweep'.fresh = f
    BY <2>4
  <2>10. AboutAttempt(sweep', attempts', baseAttempts')
    <3>. HIDE DEF r
    <3>1. /\ b \in BountyId /\ i \in AttemptIndex /\ f \in Sight
          /\ attempts'[b][i].status # "NONE"
          /\ f.status \in Ledger!TERMINAL_STATES => f = Fresh(attempts'[b][i])
      BY <2>5, <2>8 DEF AboutAttempt
    <3>. QED
      BY <1>3, <2>3, <2>4, <2>9, <3>1 DEF AboutAttempt
  <2>. QED
    BY <2>10 DEF Sweeps, ReadsOn
<1>4. ASSUME AboutBounty(sweep, bounties), UNCHANGED bounties, NEW pc \in {"base", "register"},
             sweep' = [sweep EXCEPT !.pc = pc]
      PROVE  ReadsOn
  <2>1. /\ sweep = [pc |-> sweep.pc, b |-> sweep.b, live |-> sweep.live]
        /\ sweep.b \in BountyId /\ bounties[sweep.b].status # "NONE"
        /\ sweep.live \in REFUNDABLE => bounties[sweep.b].status \in REFUNDABLE
    BY <1>4 DEF AboutBounty
  <2>2. \A c, b, l, d : [[pc |-> c, b |-> b, live |-> l] EXCEPT !.pc = d]
                        = [pc |-> d, b |-> b, live |-> l]
    OBVIOUS
  <2>3. PICK c, b, l : /\ sweep = [pc |-> c, b |-> b, live |-> l]
                       /\ b = sweep.b /\ l = sweep.live
    BY <2>1
  <2>4. sweep' = [pc |-> pc, b |-> b, live |-> l]
    BY <1>4, <2>2, <2>3
  <2>5. sweep'.pc = pc /\ sweep'.b = b /\ sweep'.live = l
    BY <2>4
  <2>6. AboutBounty(sweep', bounties')
    BY <1>4, <2>1, <2>3, <2>4, <2>5 DEF AboutBounty
  <2>. QED
    BY <2>6 DEF Sweeps, ReadsOn
<1>5. CASE SweepReadBounty
  <2>. DEFINE base == baseBounties[sweep.b]
  <2>1. AboutBounty(sweep, bounties)
    BY <1>5, SweepStages DEF SweepReadBounty, At
  <2>2. /\ sweep.b \in BountyId
        /\ sweep.live \in REFUNDABLE => bounties[sweep.b].status \in REFUNDABLE
    BY <2>1 DEF AboutBounty
  <2>3. /\ \/ sweep' = Idle
           \/ sweep' = [sweep EXCEPT !.pc = "register"]
           \/ /\ sweep.live \in REFUNDABLE
              /\ sweep' = [pc |-> "refund", b |-> sweep.b, nonce |-> base.decisionNonce]
           \/ sweep' = [pc |-> "attempt", b |-> sweep.b, i |-> 0, nonce |-> base.decisionNonce]
        /\ UNCHANGED bounties
    BY <1>5 DEF SweepReadBounty, Attempt, glVars
  <2>4. ASSUME NEW nonce, NEW b, b = sweep.b, sweep.live \in REFUNDABLE,
               sweep' = [pc |-> "refund", b |-> b, nonce |-> nonce]
        PROVE  ReadsOn
    <3>1. sweep'.pc = "refund" /\ sweep'.b = b /\ sweep'.nonce = nonce
      BY <2>4
    <3>2. AboutRefund(sweep', bounties')
      BY <2>2, <2>3, <2>4, <3>1 DEF AboutRefund
    <3>. QED
      BY <3>2 DEF Sweeps, ReadsOn
  <2>5. 0 \in Nat
    OBVIOUS
  <2>. HIDE DEF base
  <2>. QED
    BY <1>1, <1>2, <1>4, <2>1, <2>2, <2>3, <2>4, <2>5
<1>6. CASE SweepRegister
  <2>1. /\ At("register") /\ UNCHANGED bounties
        /\ sweep' = [sweep EXCEPT !.pc = "base"]
    BY <1>6 DEF SweepRegister, glVars
  <2>2. AboutBounty(sweep, bounties)
    BY <2>1, SweepStages DEF At
  <2>. QED
    BY <1>4, <2>1, <2>2
<1>7. CASE SweepRefund
  <2>1. At("refund") /\ sweep' = [pc |-> "attempt", b |-> sweep.b, i |-> 0, nonce |-> sweep.nonce]
    BY <1>7 DEF SweepRefund, Attempt
  <2>2. sweep.b \in BountyId /\ 0 \in Nat
    BY <2>1, SweepStages DEF At, AboutRefund
  <2>. QED
    BY <1>2, <2>1, <2>2
<1>8. CASE SweepReadAttempt
  <2>. DEFINE b == sweep.b
              i == sweep.i
  <2>1. At("attempt") /\ UNCHANGED <<bounties, attempts>>
    BY <1>8 DEF SweepReadAttempt, glVars
  <2>2. b \in BountyId /\ i \in Nat
    BY <2>1, SweepStages DEF At, BeforeAttempt
  <2>3. \/ sweep' = Idle
        \/ /\ i < bounties[b].attempt_count
           /\ sweep' = [pc |-> "position", b |-> b, i |-> i, nonce |-> sweep.nonce,
                        fresh |-> Fresh(attempts[b][i])]
    BY <1>8 DEF SweepReadAttempt
  <2>4. ASSUME i < bounties[b].attempt_count, NEW nonce, NEW fresh, fresh = Fresh(attempts[b][i]),
               sweep' = [pc |-> "position", b |-> b, i |-> i, nonce |-> nonce, fresh |-> fresh]
        PROVE  ReadsOn
    <3>1. i \in AttemptIndex
      BY <2>2, <2>4 DEF Ledger!InOrder, Ledger!IndicesFit
    <3>2. attempts[b][i] \in Ledger!Attempt
      BY <2>2, <3>1 DEF Ledger!InOrder, Ledger!TypeOK
    <3>3. attempts[b][i].status # "NONE"
      BY <2>2, <2>4, <3>1 DEF Ledger!InOrder, Ledger!Books, Ledger!BooksOf
    <3>4. fresh \in Sight
      BY <2>4, <3>2 DEF Fresh, Sight, Ledger!Attempt
    <3>. HIDE DEF b, i
    <3>5. /\ sweep'.pc = "position" /\ sweep'.b = b /\ sweep'.i = i /\ sweep'.nonce = nonce
          /\ sweep'.fresh = fresh
      BY <2>4
    <3>6. AboutAttempt(sweep', attempts', baseAttempts')
      BY <2>1, <2>2, <2>4, <3>1, <3>3, <3>4, <3>5 DEF AboutAttempt
    <3>. QED
      BY <3>6 DEF Sweeps, ReadsOn
  <2>. HIDE DEF b, i
  <2>. QED
    BY <1>1, <2>3, <2>4
<1>9. ASSUME NextAttempt, sweep.b \in BountyId, sweep.i \in AttemptIndex
      PROVE  ReadsOn
  <2>. DEFINE k == sweep.i + 1
  <2>1. k \in Nat
    <3>1. sweep.i \in Nat
      BY <1>9, LedgerIndices
    <3>. QED
      BY <3>1
  <2>2. sweep' = [pc |-> "attempt", b |-> sweep.b, i |-> k, nonce |-> sweep.nonce]
    BY <1>9 DEF NextAttempt, Attempt
  <2>. HIDE DEF k
  <2>. QED
    BY <1>2, <1>9, <2>1, <2>2
<1>10. ASSUME sweep.pc \in {"position", "bind", "activate", "execute"}
       PROVE  /\ AboutAttempt(sweep, attempts, baseAttempts)
              /\ sweep.b \in BountyId /\ sweep.i \in AttemptIndex
  BY <1>10, SweepStages DEF AboutAttempt
<1>11. CASE SweepReadPosition
  <2>1. /\ At("position") /\ UNCHANGED baseAttempts
        /\ \/ NextAttempt
           \/ sweep' = [sweep EXCEPT !.pc = "bind"]
           \/ /\ baseAttempts[sweep.b][sweep.i].appealBound
              /\ sweep' = [sweep EXCEPT !.pc = "activate"]
           \/ sweep' = [sweep EXCEPT !.pc = "execute"]
    BY <1>11 DEF SweepReadPosition, baseVars
  <2>. QED
    BY <1>3, <1>9, <1>10, <2>1 DEF At
<1>12. CASE SweepBindAppeal
  <2>1. At("bind") /\ sweep' = [sweep EXCEPT !.pc = "position"]
    BY <1>12 DEF SweepBindAppeal
  <2>. QED
    BY <1>3, <1>10, <2>1 DEF At
<1>13. CASE SweepAttestBinding
  <2>. QED
    BY <1>9, <1>10, <1>13 DEF SweepAttestBinding, At
<1>14. CASE SweepExecute
  <2>1. At("execute") /\ sweep' = [pc |-> "refresh", b |-> sweep.b, i |-> sweep.i]
    BY <1>14 DEF SweepExecute
  <2>2. sweep.b \in BountyId /\ sweep.i \in AttemptIndex
    BY <1>10, <2>1 DEF At
  <2>3. BeforeAttempt(sweep')
    BY <2>1, <2>2 DEF BeforeAttempt
  <2>. QED
    BY <1>1, <2>3
<1>15. CASE SweepRefresh
  <2>. DEFINE k == sweep.i + 1
  <2>1. /\ At("refresh")
        /\ sweep' = [pc |-> "attempt", b |-> sweep.b, i |-> k,
                     nonce |-> baseBounties[sweep.b].decisionNonce]
    BY <1>15 DEF SweepRefresh, Attempt
  <2>2. sweep.b \in BountyId /\ sweep.i \in AttemptIndex
    BY <2>1, SweepStages DEF At, BeforeAttempt
  <2>3. k \in Nat
    <3>1. sweep.i \in Nat
      BY <2>2, LedgerIndices
    <3>. QED
      BY <3>1
  <2>. HIDE DEF k
  <2>. QED
    BY <1>2, <2>1, <2>2, <2>3
<1>. QED
  BY <1>5, <1>6, <1>7, <1>8, <1>11, <1>12, <1>13, <1>14, <1>15 DEF SweepStep

-----------------------------------------------------------------------------
(* Every step keeps the invariant. *)

\* What a step does to the contract is a step of the contract.
LEMMA LedgerMoves ==
    ASSUME Ledger!InOrder, Requests, Sweeps(sweep, bounties, attempts, baseAttempts), [Next]_vars
    PROVE  [Ledger!Next]_(Ledger!vars)
<1>1. CASE UNCHANGED glVars
  BY <1>1 DEF glVars, Ledger!vars
<1>2. CASE Tick
  BY <1>2, SameLedger DEF Tick, Ledger!Next
<1>3. CASE GenLayer!Participation
  BY <1>3, SameLedger DEF Ledger!Next
<1>4. ASSUME NEW q \in Handler, Handle(q)
      PROVE  [Ledger!Next]_(Ledger!vars)
  <2>1. UNCHANGED glVars \/ Ledger!Attestation
    BY <1>4, HandleContract DEF Ledger!Attestation
  <2>. QED
    BY <1>1, <2>1 DEF Ledger!Next
<1>5. CASE SweepStep
  <2>1. UNCHANGED glVars \/ Ledger!Attestation
    BY <1>5, SweepContract DEF Ledger!Attestation
  <2>. QED
    BY <1>1, <2>1 DEF Ledger!Next
<1>6. ASSUME NEW q \in Handler, Fails(q) \/ \E receipt \in receipts : Confirm(q, receipt)
      PROVE  UNCHANGED glVars
  BY <1>6 DEF Fails, Confirm
<1>7. CASE Recover \/ SweepFails \/ \E b \in BountyId : SweepBounty(b)
  <2>1. UNCHANGED glVars
    BY <1>7 DEF Recover, SweepFails, SweepBounty
  <2>. QED
    BY <1>1, <2>1
<1>8. ASSUME NEW b \in BountyId,
             \/ FundBounty(b)
             \/ \E r \in ReservationId : FundAttempt(b, r)
             \/ \E i \in AttemptIndex :
                  \/ AuthorizeAppeal(b, i)
                  \/ \E payer \in Account : FundAppeal(b, i, payer)
      PROVE  UNCHANGED glVars
  BY <1>8 DEF FundBounty, FundAttempt, AuthorizeAppeal, FundAppeal
<1>9. CASE UNCHANGED vars
  <2>1. UNCHANGED glVars
    BY <1>9 DEF vars
  <2>. QED
    BY <1>1, <2>1
<1>. QED
  BY <1>1, <1>2, <1>3, <1>4, <1>5, <1>6, <1>7, <1>8, <1>9 DEF Next

\* Nothing but the settlement of a final attempt settles one.
LEMMA BaseMoves ==
    ASSUME Consistent, Ledger!AllKept, [Next]_vars
    PROVE  /\ BaseMatches' /\ BindingsStay
           /\ NothingSettles \/ SweepExecute
<1>. DEFINE Moves == BaseMatches' /\ BindingsStay /\ (NothingSettles \/ SweepExecute)
<1>1. /\ Ledger!InOrder /\ BaseMatches /\ Authorized /\ Requests
      /\ Sweeps(sweep, bounties, attempts, baseAttempts)
  BY DEF Consistent
<1>2. KeepsBase => Moves
  BY DEF KeepsBase
<1>3. ASSUME UNCHANGED <<glVars, baseVars>>
      PROVE  KeepsBase
  BY <1>1, <1>3, NothingMoves
<1>4. ASSUME Tick
      PROVE  KeepsBase
  <2>1. Ledger!Tick /\ Base!Tick
    BY <1>4, SameLedger DEF Tick
  <2>. QED
    BY <1>1, <2>1, TickMatches
<1>5. ASSUME GenLayer!Participation, UNCHANGED baseVars
      PROVE  KeepsBase
  BY <1>1, <1>5, SameLedger, CallMatches
<1>6. ASSUME NEW b \in BountyId, FundBounty(b)
      PROVE  KeepsBase
  BY <1>1, <1>6, FundBountyMatches
<1>7. ASSUME NEW b \in BountyId, NEW r \in ReservationId, FundAttempt(b, r)
      PROVE  KeepsBase
  BY <1>1, <1>7, FundAttemptMatches
<1>8. ASSUME NEW b \in BountyId, NEW i \in AttemptIndex, AuthorizeAppeal(b, i)
      PROVE  KeepsBase
  BY <1>3, <1>8 DEF AuthorizeAppeal
<1>9. ASSUME NEW b \in BountyId, NEW i \in AttemptIndex, NEW payer \in Account,
             FundAppeal(b, i, payer)
      PROVE  KeepsBase
  <2>1. /\ <<b, i, payer>> \in issued /\ UNCHANGED glVars
        /\ Base!FundAppeal(payer, roles.decisionSigner, b, i, now)
    BY <1>9 DEF FundAppeal
  <2>2. attempts[b][i].status \in Ledger!AFTER_RULING
    BY <1>1, <2>1 DEF Authorized
  <2>. QED
    BY <1>1, <2>1, <2>2, FundAppealMatches
<1>10. ASSUME Recover
       PROVE  KeepsBase
  BY <1>1, <1>10, RecoverMatches
<1>11. ASSUME NEW q \in Handler, Fails(q) \/ \E receipt \in receipts : Confirm(q, receipt)
       PROVE  KeepsBase
  <2>1. UNCHANGED <<glVars, baseVars>>
    BY <1>11 DEF Fails, Confirm
  <2>. QED
    BY <1>3, <2>1
<1>12. ASSUME NEW q \in Handler, Handle(q)
       PROVE  KeepsBase
  BY <1>1, <1>12, HandleMatches
<1>13. ASSUME SweepFails \/ \E b \in BountyId : SweepBounty(b)
       PROVE  KeepsBase
  <2>1. UNCHANGED <<glVars, baseVars>>
    BY <1>13 DEF SweepFails, SweepBounty
  <2>. QED
    BY <1>3, <2>1
<1>14. ASSUME SweepStep
       PROVE  Moves
  BY <1>1, <1>14, SweepMatches
<1>15. ASSUME UNCHANGED vars
       PROVE  KeepsBase
  <2>1. UNCHANGED <<glVars, baseVars>>
    BY <1>15 DEF vars
  <2>. QED
    BY <1>3, <2>1
<1>16. KeepsBase \/ Moves
  <2>. HIDE DEF Moves
  <2>. QED
    BY <1>4, <1>5, <1>6, <1>7, <1>8, <1>9, <1>10, <1>11, <1>12, <1>13, <1>14, <1>15 DEF Next
<1>. QED
  BY <1>2, <1>16

\* Receipts are kept, and are of transactions that were made.
LEMMA ReceiptsGrow ==
    ASSUME Consistent, [Next]_vars
    PROVE  receipts \subseteq receipts' /\ receipts' \subseteq Receipt
<1>1. /\ Ledger!InOrder /\ Requests /\ Sweeps(sweep, bounties, attempts, baseAttempts)
      /\ receipts \subseteq Receipt
  BY DEF Consistent, Requests
<1>2. ASSUME TxHash \ SpentHashes # {}
      PROVE  FreshHash \in TxHash
  <2>1. \E h \in TxHash : h \notin SpentHashes
    BY <1>2
  <2>. QED
    BY <2>1 DEF FreshHash
<1>3. ASSUME NEW b \in BountyId, NEW r \in ReservationId, FundAttempt(b, r)
      PROVE  receipts \subseteq receipts' /\ receipts' \subseteq Receipt
  <2>. DEFINE payer == reservations[r].challenger
              mined == [kind |-> "reservation", b |-> b, slot |-> r, payer |-> payer,
                        hash |-> FreshHash]
  <2>1. /\ reservations[r].status = "PENDING" /\ TxHash \ SpentHashes # {}
        /\ receipts' = receipts \cup {mined}
    BY <1>3 DEF FundAttempt, MinedReceipt
  <2>2. payer \in Account
    BY <1>1, <2>1, ReservationRead
  <2>3. mined \in Receipt
    BY <1>2, <2>1, <2>2 DEF Receipt
  <2>. QED
    BY <1>1, <2>1, <2>3
<1>4. ASSUME NEW b \in BountyId, NEW i \in AttemptIndex, NEW payer \in Account,
             FundAppeal(b, i, payer)
      PROVE  receipts \subseteq receipts' /\ receipts' \subseteq Receipt
  <2>. DEFINE mined == [kind |-> "appeal", b |-> b, slot |-> i, payer |-> payer,
                        hash |-> FreshHash]
  <2>1. TxHash \ SpentHashes # {} /\ receipts' = receipts \cup {mined}
    BY <1>4 DEF FundAppeal, MinedReceipt
  <2>2. mined \in Receipt
    BY <1>2, <2>1 DEF Receipt
  <2>. QED
    BY <1>1, <2>1, <2>2
<1>5. CASE UNCHANGED receipts
  BY <1>1, <1>5
<1>6. ASSUME \/ Tick
             \/ GenLayer!Participation /\ UNCHANGED <<baseVars, receipts, issued, handler, sweep>>
             \/ \E b \in BountyId : FundBounty(b) \/ SweepBounty(b)
             \/ \E b \in BountyId, i \in AttemptIndex : AuthorizeAppeal(b, i)
             \/ \E q \in Handler : Fails(q) \/ \E receipt \in receipts : Confirm(q, receipt)
             \/ Recover
             \/ SweepFails
             \/ UNCHANGED vars
      PROVE  UNCHANGED receipts
  BY <1>6 DEF Tick, FundBounty, SweepBounty, AuthorizeAppeal, Fails, Confirm, Recover, SweepFails, vars
<1>7. ASSUME NEW q \in Handler, Handle(q)
      PROVE  UNCHANGED receipts
  BY <1>1, <1>7, HandleContract
<1>8. ASSUME SweepStep
      PROVE  UNCHANGED receipts
  BY <1>1, <1>8, SweepContract
<1>. QED
  BY <1>3, <1>4, <1>5, <1>6, <1>7, <1>8 DEF Next

\* What was authorized after the ruling is used after the ruling.
LEMMA AuthorizedStays ==
    ASSUME Consistent, Ledger!AllKept, [Next]_vars
    PROVE  Authorized'
<1>1. /\ Ledger!InOrder /\ Requests /\ Sweeps(sweep, bounties, attempts, baseAttempts)
      /\ Authorized
  BY DEF Consistent
<1>2. ASSUME issued' \subseteq issued
      PROVE  Authorized'
  BY <1>1, <1>2 DEF Authorized, Ledger!AllKept, Ledger!AttemptKept
<1>3. ASSUME NEW c \in BountyId, NEW j \in AttemptIndex, AuthorizeAppeal(c, j)
      PROVE  Authorized'
  <2>1. /\ attempts[c][j].status = "APPEAL_PENDING_FUNDING"
        /\ issued' = issued \cup {<<c, j, attempts[c][j].appealed_by>>}
        /\ UNCHANGED attempts
    BY <1>3 DEF AuthorizeAppeal, glVars
  <2>2. attempts[c][j].status \in Ledger!AFTER_RULING
    BY <2>1 DEF Ledger!AFTER_RULING
  <2>3. ASSUME NEW b \in BountyId, NEW i \in AttemptIndex, NEW payer \in Account,
               <<b, i, payer>> \in issued'
        PROVE  attempts'[b][i].status \in Ledger!AFTER_RULING
    <3>1. CASE <<b, i, payer>> \in issued
      BY <1>1, <2>1, <3>1 DEF Authorized
    <3>2. CASE <<b, i, payer>> = <<c, j, attempts[c][j].appealed_by>>
      BY <2>1, <2>2, <3>2
    <3>. QED
      BY <2>1, <2>3, <3>1, <3>2
  <2>. QED
    BY <2>3 DEF Authorized
<1>4. ASSUME \/ Tick
             \/ GenLayer!Participation /\ UNCHANGED <<baseVars, receipts, issued, handler, sweep>>
             \/ \E b \in BountyId : FundBounty(b) \/ SweepBounty(b)
             \/ \E b \in BountyId, r \in ReservationId : FundAttempt(b, r)
             \/ \E b \in BountyId, i \in AttemptIndex, payer \in Account : FundAppeal(b, i, payer)
             \/ \E q \in Handler : Fails(q) \/ \E receipt \in receipts : Confirm(q, receipt)
             \/ Recover
             \/ SweepFails
             \/ UNCHANGED vars
      PROVE  issued' \subseteq issued
  BY <1>4 DEF Tick, FundBounty, SweepBounty, FundAttempt, FundAppeal, Fails, Confirm, Recover,
              SweepFails, vars
<1>5. ASSUME NEW q \in Handler, Handle(q)
      PROVE  issued' \subseteq issued
  BY <1>1, <1>5, HandleContract
<1>6. ASSUME SweepStep
      PROVE  issued' \subseteq issued
  BY <1>1, <1>6, SweepContract
<1>. QED
  BY <1>2, <1>3, <1>4, <1>5, <1>6 DEF Next

\* A request goes on, another one waits.
LEMMA RequestsMove ==
    ASSUME Consistent, Ledger!AllKept, BindingsStay, [Next]_vars
    PROVE  Requests'
<1>1. /\ Ledger!InOrder /\ BaseMatches /\ Requests
      /\ Sweeps(sweep, bounties, attempts, baseAttempts)
  BY DEF Consistent
<1>2. receipts \subseteq receipts' /\ receipts' \subseteq Receipt
  BY ReceiptsGrow
<1>3. CASE UNCHANGED handler
  BY <1>1, <1>2, <1>3, NoRequest
<1>4. ASSUME NEW q \in Handler, NEW receipt \in receipts, Confirm(q, receipt)
      PROVE  Requests'
  <2>. DEFINE h == [pc |-> "received", receipt |-> receipt, seen |-> "NONE"]
  <2>1. handler' = [handler EXCEPT ![q] = h]
    BY <1>4 DEF Confirm
  <2>2. h.pc = "received" /\ h.receipt = receipt /\ h.seen = "NONE"
    OBVIOUS
  <2>3. h = [pc |-> h.pc, receipt |-> h.receipt, seen |-> h.seen]
    OBVIOUS
  <2>. HIDE DEF h
  <2>4. Handles(h, receipts', reservations', baseAttempts')
    BY <1>2, <2>2, <2>3 DEF Handles
  <2>. QED
    BY <1>1, <1>2, <2>1, <2>4, OneRequest
<1>5. ASSUME NEW q \in Handler, Fails(q)
      PROVE  Requests'
  BY <1>1, <1>5, RequestEnds DEF Fails
<1>6. ASSUME NEW q \in Handler, Handle(q)
      PROVE  Requests'
  BY <1>1, <1>6, HandleRequests
<1>7. ASSUME \/ Tick
             \/ GenLayer!Participation /\ UNCHANGED <<baseVars, receipts, issued, handler, sweep>>
             \/ \E b \in BountyId : FundBounty(b) \/ SweepBounty(b)
             \/ \E b \in BountyId, r \in ReservationId : FundAttempt(b, r)
             \/ \E b \in BountyId, i \in AttemptIndex :
                  AuthorizeAppeal(b, i) \/ \E payer \in Account : FundAppeal(b, i, payer)
             \/ Recover
             \/ SweepFails
             \/ UNCHANGED vars
      PROVE  UNCHANGED handler
  BY <1>7 DEF Tick, FundBounty, SweepBounty, FundAttempt, AuthorizeAppeal, FundAppeal, Recover,
              SweepFails, vars
<1>8. ASSUME SweepStep
      PROVE  UNCHANGED handler
  BY <1>1, <1>8, SweepContract
<1>. QED
  BY <1>3, <1>4, <1>5, <1>6, <1>7, <1>8 DEF Next

\* So does the sweep.
LEMMA SweepMoves ==
    ASSUME Consistent, Ledger!AllKept, BindingsStay, [Next]_vars
    PROVE  ReadsOn
<1>1. /\ Ledger!InOrder /\ BaseMatches /\ Requests
      /\ Sweeps(sweep, bounties, attempts, baseAttempts)
  BY DEF Consistent
<1>2. CASE UNCHANGED sweep
  <2>1. Sweeps(sweep, bounties', attempts', baseAttempts')
    BY <1>1, SweepStays
  <2>. QED
    BY <1>2, <2>1 DEF ReadsOn
<1>3. CASE SweepFails
  BY <1>3 DEF SweepFails, ReadsOn, Sweeps
<1>4. ASSUME NEW b \in BountyId, SweepBounty(b)
      PROVE  ReadsOn
  <2>. DEFINE live == bounties[b].status
  <2>1. /\ live # "NONE" /\ UNCHANGED bounties
        /\ sweep' = [pc |-> "base", b |-> b, live |-> live]
    BY <1>4 DEF SweepBounty, glVars
  <2>. HIDE DEF live
  <2>2. sweep'.pc = "base" /\ sweep'.b = b /\ sweep'.live = live
    BY <2>1
  <2>3. AboutBounty(sweep', bounties')
    BY <2>1, <2>2 DEF AboutBounty, live
  <2>. QED
    BY <2>3 DEF ReadsOn, Sweeps
<1>5. CASE SweepStep
  BY <1>1, <1>5, SweepReads
<1>6. ASSUME \/ Tick
             \/ GenLayer!Participation /\ UNCHANGED <<baseVars, receipts, issued, handler, sweep>>
             \/ \E b \in BountyId : FundBounty(b)
             \/ \E b \in BountyId, r \in ReservationId : FundAttempt(b, r)
             \/ \E b \in BountyId, i \in AttemptIndex :
                  AuthorizeAppeal(b, i) \/ \E payer \in Account : FundAppeal(b, i, payer)
             \/ \E q \in Handler : Fails(q) \/ \E receipt \in receipts : Confirm(q, receipt)
             \/ Recover
             \/ UNCHANGED vars
      PROVE  UNCHANGED sweep
  BY <1>6 DEF Tick, FundBounty, FundAttempt, AuthorizeAppeal, FundAppeal, Fails, Confirm, Recover, vars
<1>7. ASSUME NEW q \in Handler, Handle(q)
      PROVE  UNCHANGED sweep
  BY <1>1, <1>7, HandleContract
<1>. QED
  BY <1>2, <1>3, <1>4, <1>5, <1>6, <1>7 DEF Next

-----------------------------------------------------------------------------
(* The invariant holds, and what follows from it.                          *)

LEMMA InitConsistent == Init => Consistent
<1>. SUFFICES ASSUME Init PROVE Consistent
  OBVIOUS
<1>1. /\ Ledger!Init /\ receipts = {} /\ issued = {} /\ sweep = Idle
      /\ handler = [q \in Handler |-> Idle]
  BY SameLedger DEF Init
<1>2. Ledger!InOrder
  BY <1>1, LedgerBegins
<1>3. /\ now = 0
      /\ baseBounties = [b \in BountyId |-> Base!EmptyBounty]
      /\ pendingAttempts = [b \in BountyId |-> [r \in ReservationId |-> Base!EmptyPendingAttempt]]
      /\ baseAttempts = [b \in BountyId |-> [i \in AttemptIndex |-> Base!EmptyAttempt]]
      /\ claimable = [x \in Account |-> 0]
  BY DEF Init, Base!Init
<1>4. /\ Base!EmptyBounty \in Base!BountyRecord
      /\ ~Base!EmptyBounty.registered /\ ~Base!EmptyBounty.rewardSettled
  BY ShareAssumption DEF Base!EmptyBounty, Base!BountyRecord
<1>5. Base!EmptyPendingAttempt \in Base!PendingAttemptRecord
  BY DEF Base!EmptyPendingAttempt, Base!PendingAttemptRecord
<1>6. /\ Base!EmptyAttempt \in Base!AttemptRecord
      /\ Base!EmptyAttempt.challenger = NoOne /\ Base!EmptyAttempt.appealBond = 0
      /\ ~Base!EmptyAttempt.appealBound
  BY DEF Base!EmptyAttempt, Base!AttemptRecord
<1>7. BaseTyped
  BY <1>3, <1>4, <1>5, <1>6 DEF BaseTyped
<1>8. ASSUME NEW b \in BountyId
      PROVE  Registered(b) /\ Rewarded(b)
  BY <1>3, <1>4 DEF Registered, Rewarded
<1>9. ASSUME NEW b \in BountyId, NEW i \in AttemptIndex
      PROVE  Position(b, i)
  <2>1. baseAttempts[b][i] = Base!EmptyAttempt
    BY <1>3
  <2>2. ~Ledger!AppealCounts(attempts[b][i])
    <3>1. attempts[b][i] = Ledger!NoAttempt
      BY <1>1 DEF Ledger!Init
    <3>2. Ledger!NoAttempt.status = "NONE" /\ Ledger!NoAttempt.appeal_bond_recipient = NoOne
      BY DEF Ledger!NoAttempt
    <3>. QED
      BY <3>1, <3>2 DEF Ledger!AppealCounts
  <2>3. BoundTo(baseAttempts[b][i], baseBounties[b], b, i, reservations)
    BY <1>6, <2>1 DEF BoundTo
  <2>4. DepositOf(baseAttempts[b][i], baseBounties[b], attempts[b][i], now)
    BY <1>6, <2>1, <2>2 DEF DepositOf
  <2>. QED
    BY <2>3, <2>4 DEF Position
<1>10. Authorized
  BY <1>1 DEF Authorized
<1>11. Requests
  BY <1>1 DEF Requests, Handles
<1>12. Sweeps(sweep, bounties, attempts, baseAttempts)
  BY <1>1 DEF Sweeps
<1>. QED
  BY <1>2, <1>7, <1>8, <1>9, <1>10, <1>11, <1>12 DEF Consistent, BaseMatches

LEMMA StaysConsistent == Consistent /\ [Next]_vars => Consistent'
<1>. SUFFICES ASSUME Consistent, [Next]_vars PROVE Consistent'
  OBVIOUS
<1>1. /\ Ledger!InOrder /\ Requests
      /\ Sweeps(sweep, bounties, attempts, baseAttempts)
  BY DEF Consistent
<1>2. [Ledger!Next]_(Ledger!vars)
  BY <1>1, LedgerMoves
<1>3. Ledger!InOrder' /\ Ledger!AllKept
  BY <1>1, <1>2, LedgerStays
<1>4. BaseMatches' /\ BindingsStay
  BY <1>3, BaseMoves
<1>5. Authorized' /\ Requests' /\ ReadsOn
  BY <1>3, <1>4, AuthorizedStays, RequestsMove, SweepMoves
<1>. QED
  BY <1>3, <1>4, <1>5 DEF Consistent, ReadsOn

\* Whatever the relayer has read and not used yet, in a request or in the sweep, is
\* still what the contracts have as far as it goes on to rely on it, and the money on
\* Base is where the record on GenLayer says, in every reachable state: however many
\* requests run, wherever each fails, and whatever happens between any two of its steps.
THEOREM ReadsStandUp == Spec => []Consistent
BY InitConsistent, StaysConsistent, PTL DEF Spec

\* bindAttempt never gives an attempt on Base to a deposit other than the one GenLayer
\* activated for it: the handler's checks of the receipt, of the reservation and of the
\* index, each made in an earlier step, still hold when the binding is mined.
THEOREM BindingsMatch == Spec => []BindingMatchesReservation
<1>1. Consistent => BindingMatchesReservation
  <2>. SUFFICES ASSUME Consistent, NEW b \in BountyId, NEW i \in AttemptIndex,
                       baseAttempts[b][i].challenger # NoOne
                PROVE  LET base == baseAttempts[b][i]
                           reservation == reservations[base.reservationId]
                       IN  /\ reservation.status = "ACTIVATED"
                           /\ reservation.bounty_id = b
                           /\ reservation.activated_attempt_index = i
                           /\ attempts[b][i].challenger = base.challenger
    BY DEF BindingMatchesReservation
  <2>. DEFINE r == baseAttempts[b][i].reservationId
  <2>1. Ledger!InOrder /\ BoundTo(baseAttempts[b][i], baseBounties[b], b, i, reservations)
    BY DEF Consistent, BaseMatches, Position
  <2>2. /\ r \in ReservationId
        /\ reservations[r].status = "ACTIVATED"
        /\ reservations[r].bounty_id = b
        /\ reservations[r].activated_attempt_index = i
        /\ reservations[r].challenger = baseAttempts[b][i].challenger
    BY <2>1 DEF BoundTo
  <2>3. attempts[b][i].challenger = reservations[r].challenger
    BY <2>1, <2>2, ReservationRead
  <2>. QED
    BY <2>2, <2>3
<1>. QED
  BY <1>1, ReadsStandUp, PTL

\* An appeal that GenLayer hears or has decided has its bond bound on Base until it is
\* paid, whoever recovers what and when: the window to appeal closes before a deposit
\* made for it can be taken back.
THEOREM AppealsAreBacked == Spec => []ActiveAppealIsBacked
<1>1. Consistent => ActiveAppealIsBacked
  BY DEF Consistent, BaseMatches, Position, DepositOf, Ledger!AppealCounts, ActiveAppealIsBacked
<1>. QED
  BY <1>1, ReadsStandUp, PTL

\* The reward on Base leaves the escrow only as the closed bounty on GenLayer says: to
\* the winning attempt, or back to the creator of a bounty that nobody won.
THEOREM RewardsFollow == Spec => []RewardFollowsBounty
<1>1. Consistent => RewardFollowsBounty
  BY DEF Consistent, BaseMatches, Rewarded, RewardFollowsBounty
<1>. QED
  BY <1>1, ReadsStandUp, PTL

\* A settlement on Base, planned from an attempt the sweep read long before, is of an
\* attempt that was and is final, and credits every account with what the record of the
\* attempt on GenLayer gives it: the arithmetic of the two contracts is the same.
THEOREM SettlementsPayWhatWasDecided == Spec => PaysWhatWasDecided
<1>1. ASSUME Consistent, [Next]_vars, NEW b \in BountyId, NEW i \in AttemptIndex,
             baseAttempts'[b][i].settled, ~baseAttempts[b][i].settled
      PROVE  /\ attempts[b][i].status \in GenLayer!TERMINAL_STATES
             /\ \A x \in Account : claimable'[x] - claimable[x] = DecidedShare(b, i, x)
  <2>1. /\ Ledger!InOrder /\ BaseMatches /\ Requests
        /\ Sweeps(sweep, bounties, attempts, baseAttempts)
    BY <1>1 DEF Consistent
  <2>2. [Ledger!Next]_(Ledger!vars)
    BY <1>1, <2>1, LedgerMoves
  <2>3. Ledger!AllKept
    BY <2>1, <2>2, LedgerStays
  <2>4. NothingSettles \/ SweepExecute
    BY <1>1, <2>3, BaseMoves
  <2>5. SweepExecute
    BY <1>1, <2>4 DEF NothingSettles
  <2>6. /\ sweep.b \in BountyId /\ sweep.i \in AttemptIndex
        /\ attempts[sweep.b][sweep.i].status \in Ledger!TERMINAL_STATES
        /\ baseAttempts' = [baseAttempts EXCEPT ![sweep.b][sweep.i].settled = TRUE]
        /\ \A x \in Account : claimable'[x] - claimable[x] = DecidedShare(sweep.b, sweep.i, x)
    BY <2>1, <2>5, ExecuteMatches
  <2>7. sweep.b = b /\ sweep.i = i
    BY <1>1, <2>1, <2>6 DEF BaseMatches, BaseTyped
  <2>8. GenLayer!TERMINAL_STATES = Ledger!TERMINAL_STATES
    BY DEF GenLayer!TERMINAL_STATES, Ledger!TERMINAL_STATES
  <2>. QED
    BY <2>6, <2>7, <2>8
<1>2. Consistent /\ [Next]_vars =>
        [\A b \in BountyId, i \in AttemptIndex :
           baseAttempts'[b][i].settled /\ ~baseAttempts[b][i].settled =>
              /\ attempts[b][i].status \in GenLayer!TERMINAL_STATES
              /\ \A x \in Account : claimable'[x] - claimable[x] = DecidedShare(b, i, x)]_vars
  BY <1>1
<1>. QED
  BY <1>2, ReadsStandUp, PTL DEF Spec, PaysWhatWasDecided

=============================================================================
