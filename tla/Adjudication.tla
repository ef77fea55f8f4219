---------------------------- MODULE Adjudication ----------------------------
(***************************************************************************)
(* The GenLayer layer: contracts/proof_bounty.py.  Bounties, funding       *)
(* reservations, attempts, disputes, appeals and reputation.               *)
(*                                                                         *)
(* One action per public write method.  A method that raises rolls its     *)
(* transaction back, so a false guard is no step.  A transaction is        *)
(* atomic, the review by the validators inside it included.                *)
(*                                                                         *)
(* Abstractions.  The validators' verdict is any verdict: what is stated   *)
(* here holds however they judge.  Texts, URLs and digests are left out    *)
(* (their length checks with them), and so are time stamps that no method  *)
(* reads.  Identifiers are names a counter has not issued yet.             *)
(*                                                                         *)
(* Time.  A deadline is kept as the time left until it, negative after it, *)
(* so  now >= deadline + grace  is  HasPassed(deadline, grace).  It stops  *)
(* falling where no comparison can tell the difference any more: the clock *)
(* itself is unbounded.                                                    *)
(***************************************************************************)
EXTENDS PayoutMath, FiniteSets

CONSTANTS
    Account,        \* addresses other than address(0)
    NoOne,          \* address(0)
    BountyId,
    ReservationId,
    AttemptIndex,   \* 0 .. MAX_ATTEMPTS_PER_BOUNTY - 1
    TxHash,         \* hashes of Base funding transactions
    NoHash,         \* the empty string
    Owner,          \* bound: addresses ownership may go to,
    Attestor,       \*   addresses that may become the funding attestor,
    Treasury,       \*   addresses that may become the treasury,
    Creator,        \*   accounts that create bounties,
    Arbiter,        \*   accounts they name as arbiters
    Challenger,     \*   and accounts that attempt them
    Reward,         \* rewards a bounty may offer
    Bond,           \* bonds a bounty may require
    FeeBps,         \* fees the owner may set
    ReviewVerdict,  \* verdicts a review may agree on, valid or not,
    ReviewBps,      \*   and shares a review or an arbiter may recommend
    Ruling,         \* verdicts an arbiter may give
    Pause,          \* values the owner may set paused to
    DeadlineSeconds, \* choices of deadline_seconds_from_now
    ExtraSeconds,   \* choices of additional_seconds
    DEFAULT_MAX_REVISIONS,
    MIN_BOUNTY_DEADLINE_SECONDS,
    FUNDING_RESERVATION_SECONDS,
    VERIFICATION_GRACE_SECONDS,
    APPEAL_WINDOW_SECONDS,
    ARBITER_GRACE_SECONDS,
    MaxDeadline     \* bound: no deadline is further away than this

MAX_ATTEMPTS_PER_BOUNTY == Cardinality(AttemptIndex)

ASSUME AccountAssumption ==
    /\ BountyId # {} /\ NoOne \notin Account
    /\ Owner \cup Attestor \cup Treasury \cup Creator \cup Arbiter \cup Challenger
         \subseteq Account
    /\ NoHash \notin TxHash

ASSUME TermsAssumption ==
    /\ Reward \subseteq Nat /\ Bond \subseteq Nat /\ FeeBps \subseteq Nat
    /\ Pause \subseteq BOOLEAN /\ Ruling \subseteq ARBITER_VERDICTS
    /\ ReviewBps \subseteq Nat \cup {Malformed}
    /\ DEFAULT_MAX_REVISIONS \in Nat \ {0}
    /\ IsFiniteSet(AttemptIndex)
    /\ AttemptIndex = 0 .. Cardinality(AttemptIndex) - 1

ASSUME DurationAssumption ==
    /\ DeadlineSeconds \subseteq Nat /\ ExtraSeconds \subseteq Nat
    /\ MIN_BOUNTY_DEADLINE_SECONDS \in Nat
    /\ FUNDING_RESERVATION_SECONDS \in Nat
    /\ VERIFICATION_GRACE_SECONDS \in Nat
    /\ APPEAL_WINDOW_SECONDS \in Nat
    /\ ARBITER_GRACE_SECONDS \in Nat
    /\ MaxDeadline \in Nat

VARIABLES
    config,         \* owner, funding_attestor, treasury, default_fee_bps, paused
    bounties,
    reservations,
    attempts,
    reputation,
    attempts_settled_by_ai_consensus,
    contested       \* history: attempts whose dispute began on an open bounty

vars == <<config, bounties, reservations, attempts, reputation,
          attempts_settled_by_ai_consensus, contested>>

-----------------------------------------------------------------------------
(* States. *)

LIVE_STATES == {"ACCEPTED", "SUBMITTED", "NEEDS_REVISION", "REJECTED_FINAL"}

TERMINAL_STATES ==
    {"WON", "LOST_RACE", "BOND_FORFEITED", "CANCELLED", "INSUFFICIENT_EVIDENCE_FINAL"}

\* Mutant: the newest status is missing from the list.
DISPUTE_IN_PROGRESS_SHORT ==
    {"DISPUTED", "ARBITER_RESOLVED_PENDING_APPEAL", "APPEALED", "APPEAL_PENDING_FUNDING"}

DISPUTE_IN_PROGRESS_STATES ==
    {"DISPUTED", "ARBITER_RESOLVED_PENDING_APPEAL", "APPEALED",
     "APPEAL_PENDING_FUNDING", "APPEAL_FUNDED_PENDING_BINDING"}

NoBounty ==
    [status |-> "NONE", creator |-> NoOne, arbiter |-> NoOne, reward_amount |-> 0,
     reward_deposited |-> 0, required_bond |-> 0, platform_fee_bps |-> 0,
     attempt_count |-> 0, attempts_won |-> 0, winning_attempt_index |-> 0,
     criteria_locked |-> FALSE, deadline |-> 0]

UnissuedReservation ==
    [status |-> "NONE", bounty_id |-> CHOOSE b \in BountyId : TRUE,
     challenger |-> NoOne, funding_deadline |-> -1,
     activated_attempt_index |-> 0, base_funding_tx_hash |-> NoHash]

NoAttempt ==
    [status |-> "NONE", challenger |-> NoOne, bond_amount |-> 0, bond_deposited |-> 0,
     revision_count |-> 0, last_verdict |-> "", last_payout_bps |-> 0,
     pending_arbiter_verdict |-> "", pending_payout_bps |-> 0,
     appeal_deadline |-> 0, appealed_by |-> NoOne, appeal_bond_deposited |-> 0,
     appeal_bond_recipient |-> NoOne, appeal_funding_deadline |-> -1,
     appeal_base_funding_tx_hash |-> NoHash, resolved_by_arbiter |-> FALSE,
     human_verdict_overrode_ai |-> FALSE, rejection_counted |-> FALSE]

NoReputation ==
    [bounties_created |-> 0, bounties_funded_total |-> 0, attempts_made |-> 0,
     attempts_won |-> 0, attempts_partial |-> 0, attempts_rejected |-> 0,
     attempts_disputed |-> 0, total_earned |-> 0]

Init ==
    /\ \E owner \in Owner, treasury \in Treasury, fee \in FeeBps :
         /\ fee <= MAX_FEE_BPS
         /\ config = [owner |-> owner, funding_attestor |-> owner, treasury |-> treasury,
                      default_fee_bps |-> fee, paused |-> FALSE]
    /\ bounties = [b \in BountyId |-> NoBounty]
    /\ reservations = [r \in ReservationId |-> UnissuedReservation]
    /\ attempts = [b \in BountyId |-> [i \in AttemptIndex |-> NoAttempt]]
    /\ reputation = [x \in Account |-> NoReputation]
    /\ attempts_settled_by_ai_consensus = 0
    /\ contested = [b \in BountyId |-> {}]

-----------------------------------------------------------------------------
(* Guards and updates the methods share. *)

\* now >= deadline + grace, and now > deadline
HasPassed(deadline, grace) == deadline + grace <= 0
IsOver(deadline) == deadline < 0

IsOpen(b) == bounties[b].status = "OPEN"
IsParty(x, b, i) == x \in {bounties[b].creator, attempts[b][i].challenger}

\* Reputation of x after "field" grew by n.
Credit(rep, x, field, n) == [rep EXCEPT ![x][field] = @ + n]

\* Mutant: every rejected outcome is a strike.
StrikeAlways(rep, a) == Credit(rep, a.challenger, "attempts_rejected", 1)

\* One rejection strike per attempt, whichever path gets there first.
Strike(rep, a) ==
    IF a.rejection_counted THEN rep ELSE Credit(rep, a.challenger, "attempts_rejected", 1)

\* Mutant: a refund leaves the bond in the ledger.
RefundedKeepingBond(a, status) == [a EXCEPT !.status = status]

\* _refund_attempt_bond
Refunded(a, status) == [a EXCEPT !.bond_deposited = 0, !.status = status]

\* _forfeit_attempt_bond
Forfeited(a, via_arbiter) ==
    [a EXCEPT !.bond_deposited = 0, !.status = "BOND_FORFEITED",
              !.resolved_by_arbiter = via_arbiter, !.rejection_counted = TRUE]

\* Mutant: the winner's neighbours are skipped unless they submitted.
LostRaceSubmitted(b, winner, list) ==
    [i \in AttemptIndex |->
        IF i # winner /\ list[i].status = "SUBMITTED"
        THEN [list[i] EXCEPT !.status = "LOST_RACE"] ELSE list[i]]

\* _mark_other_attempts_lost_race
LostRace(b, winner, list) ==
    [i \in AttemptIndex |->
        IF i < bounties[b].attempt_count /\ i # winner /\ list[i].status \in LIVE_STATES
        THEN [list[i] EXCEPT !.status = "LOST_RACE"] ELSE list[i]]

\* _record_settlement_provenance
RecordProvenance ==
    attempts_settled_by_ai_consensus' = attempts_settled_by_ai_consensus + 1

\* Mutant: the reward stays in the ledger.
SettledKeepingReward(b, i) ==
    [bounties[b] EXCEPT !.status = "SETTLED", !.attempts_won = 1, !.winning_attempt_index = i]

Settled(b, i) ==
    [bounties[b] EXCEPT !.reward_deposited = 0, !.status = "SETTLED",
                        !.attempts_won = 1, !.winning_attempt_index = i]

\* _settle_reward_to_winner, and the race it ends: a is attempt i with the
\* verdict already recorded.
SettleRewardToWinner(b, i, a, payout_bps, via_arbiter) ==
    LET won == [a EXCEPT !.bond_deposited = 0, !.status = "WON",
                         !.resolved_by_arbiter = via_arbiter,
                         !.last_payout_bps = IF payout_bps > 0 THEN payout_bps
                                             ELSE BPS_DENOMINATOR]
        net == ChallengerNet(bounties[b].reward_deposited, payout_bps,
                             bounties[b].platform_fee_bps)
    IN
    /\ bounties[b].reward_deposited > 0
    /\ IsOpen(b)
    /\ bounties' = [bounties EXCEPT ![b] = Settled(b, i)]
    /\ attempts' = [attempts EXCEPT ![b] = LostRace(b, i, [@ EXCEPT ![i] = won])]
    /\ reputation' = Credit(Credit(Credit(reputation, a.challenger, "attempts_won", 1),
                                   a.challenger, "attempts_partial",
                                   IF payout_bps > 0 THEN 1 ELSE 0),
                            a.challenger, "total_earned", net)

-----------------------------------------------------------------------------
(* Bounty life cycle. *)

CreateBounty(sender, b, arbiter, seconds, bond, reward) ==
    /\ ~config.paused
    /\ bounties[b].status = "NONE"
    /\ seconds >= MIN_BOUNTY_DEADLINE_SECONDS
    /\ reward > 0
    /\ bounties' = [bounties EXCEPT ![b] =
                       [@ EXCEPT !.status = "OPEN", !.creator = sender, !.arbiter = arbiter,
                                 !.reward_amount = reward, !.reward_deposited = reward,
                                 !.required_bond = bond,
                                 !.platform_fee_bps = config.default_fee_bps,
                                 !.deadline = seconds]]
    /\ reputation' = Credit(Credit(reputation, sender, "bounties_created", 1),
                            sender, "bounties_funded_total", reward)
    /\ UNCHANGED <<config, reservations, attempts, attempts_settled_by_ai_consensus, contested>>

\* Mutant: a bounty with accepted attempts can be cancelled.
CancellableLocked(b) == IsOpen(b)

Cancellable(b) == IsOpen(b) /\ ~bounties[b].criteria_locked

CancelBounty(sender, b) ==
    /\ sender = bounties[b].creator
    /\ Cancellable(b)
    /\ bounties' = [bounties EXCEPT ![b] =
                       [@ EXCEPT !.reward_deposited = 0, !.status = "CANCELLED"]]
    /\ UNCHANGED <<config, reservations, attempts, reputation,
                   attempts_settled_by_ai_consensus, contested>>

ClaimCreatorTimeout(sender, b) ==
    /\ sender = bounties[b].creator
    /\ IsOpen(b)
    /\ HasPassed(bounties[b].deadline, VERIFICATION_GRACE_SECONDS)
    /\ \A i \in AttemptIndex :
         i < bounties[b].attempt_count => attempts[b][i].status \notin DISPUTE_IN_PROGRESS_STATES
    /\ bounties[b].reward_deposited > 0
    /\ bounties' = [bounties EXCEPT ![b] =
                       [@ EXCEPT !.reward_deposited = 0, !.status = "EXPIRED_REFUNDED"]]
    /\ UNCHANGED <<config, reservations, attempts, reputation,
                   attempts_settled_by_ai_consensus, contested>>

ExtendBountyDeadline(sender, b, seconds) ==
    /\ sender = bounties[b].creator
    /\ IsOpen(b)
    /\ seconds > 0
    /\ bounties[b].deadline + seconds <= MaxDeadline
    /\ bounties' = [bounties EXCEPT ![b].deadline = @ + seconds]
    /\ UNCHANGED <<config, reservations, attempts, reputation,
                   attempts_settled_by_ai_consensus, contested>>

-----------------------------------------------------------------------------
(* Reservations and attempts. *)

ReserveAttempt(sender, b, r) ==
    /\ reservations[r].status = "NONE"
    /\ IsOpen(b)
    /\ ~HasPassed(bounties[b].deadline, 0)
    /\ sender # bounties[b].creator
    /\ reservations' = [reservations EXCEPT ![r] =
                           [@ EXCEPT !.status = "PENDING", !.bounty_id = b,
                                     !.challenger = sender,
                                     !.funding_deadline = FUNDING_RESERVATION_SECONDS]]
    /\ UNCHANGED <<config, bounties, attempts, reputation,
                   attempts_settled_by_ai_consensus, contested>>

\* Mutant: a reservation can be activated again.
ReservationAvailableAgain(b, r) ==
    /\ reservations[r].status # "NONE"
    /\ reservations[r].bounty_id = b
    /\ ~IsOver(reservations[r].funding_deadline)

ReservationAvailable(b, r) ==
    /\ reservations[r].status = "PENDING"
    /\ reservations[r].bounty_id = b
    /\ ~IsOver(reservations[r].funding_deadline)

\* Mutant: a reservation is activated whatever became of its bounty.
ActivationOpenAlways(b, i) == i \in AttemptIndex

\* The bounty takes another attempt, and i is its index.
ActivationOpen(b, i) == IsOpen(b) /\ i \in AttemptIndex

ConfirmAttemptFunding(sender, b, r, txHash) ==
    LET i == bounties[b].attempt_count
        challenger == reservations[r].challenger
    IN
    /\ sender = config.funding_attestor
    /\ ReservationAvailable(b, r)
    /\ ActivationOpen(b, i)
    /\ attempts' = [attempts EXCEPT ![b][i] =
                       [@ EXCEPT !.status = "ACCEPTED", !.challenger = challenger,
                                 !.bond_amount = bounties[b].required_bond,
                                 !.bond_deposited = bounties[b].required_bond]]
    /\ bounties' = [bounties EXCEPT ![b] =
                       [@ EXCEPT !.criteria_locked = TRUE, !.attempt_count = i + 1]]
    /\ reservations' = [reservations EXCEPT ![r] =
                           [@ EXCEPT !.status = "ACTIVATED", !.activated_attempt_index = i,
                                     !.base_funding_tx_hash = txHash]]
    /\ reputation' = Credit(reputation, challenger, "attempts_made", 1)
    /\ UNCHANGED <<config, attempts_settled_by_ai_consensus, contested>>

ExpireAttemptReservation(r) ==
    /\ reservations[r].status = "PENDING"
    /\ IsOver(reservations[r].funding_deadline)
    /\ reservations' = [reservations EXCEPT ![r].status = "EXPIRED"]
    /\ UNCHANGED <<config, bounties, attempts, reputation,
                   attempts_settled_by_ai_consensus, contested>>

SubmitEvidence(sender, b, i) ==
    /\ sender = attempts[b][i].challenger
    /\ IsOpen(b)
    /\ ~HasPassed(bounties[b].deadline, 0)
    /\ attempts[b][i].status \in {"ACCEPTED", "NEEDS_REVISION"}
    /\ attempts' = [attempts EXCEPT ![b][i].status = "SUBMITTED"]
    /\ UNCHANGED <<config, bounties, reservations, reputation,
                   attempts_settled_by_ai_consensus, contested>>

-----------------------------------------------------------------------------
(* request_verification: one action per kind of verdict.  The attempt with *)
(* the verdict recorded is Judged; a revision cycle ends at the cap.       *)

Finding == {Reviewed(verdict, bps) : verdict \in ReviewVerdict, bps \in ReviewBps}

Judged(b, i, finding) == [attempts[b][i] EXCEPT !.last_verdict = finding.verdict]

Revised(b, i, finding) ==
    [attempts[b][i] EXCEPT !.last_verdict = finding.verdict, !.revision_count = @ + 1]

Exhausted(a) == a.revision_count >= DEFAULT_MAX_REVISIONS

\* The share a settlement pays: 0, that is all, unless the verdict is PARTIAL.
EffectiveBps(finding) == IF finding.verdict = "PARTIAL" THEN finding.payout_bps ELSE 0

VerifyWinner(b, i, finding) ==
    /\ finding.verdict \in {"APPROVED", "PARTIAL"}
    /\ IsOpen(b)
    /\ SettleRewardToWinner(b, i, Judged(b, i, finding), EffectiveBps(finding), FALSE)
    /\ RecordProvenance

VerifyLostRace(b, i, finding) ==
    /\ finding.verdict \in {"APPROVED", "PARTIAL"}
    /\ ~IsOpen(b)
    /\ attempts' = [attempts EXCEPT ![b][i] = Refunded(Judged(b, i, finding), "LOST_RACE")]
    /\ RecordProvenance
    /\ UNCHANGED <<bounties, reputation>>

VerifyResubmit(b, i, finding) ==
    /\ finding.verdict \in {"NEEDS_REVISION", "INSUFFICIENT_EVIDENCE"}
    /\ ~Exhausted(Revised(b, i, finding))
    /\ attempts' = [attempts EXCEPT ![b][i] =
                       [Revised(b, i, finding) EXCEPT !.status = "ACCEPTED"]]
    /\ UNCHANGED <<bounties, reputation, attempts_settled_by_ai_consensus>>

VerifyRevisionsExhausted(b, i, finding) ==
    LET a == Revised(b, i, finding) IN
    /\ finding.verdict = "NEEDS_REVISION"
    /\ Exhausted(a)
    /\ attempts' = [attempts EXCEPT ![b][i] =
                       [a EXCEPT !.status = "REJECTED_FINAL", !.rejection_counted = TRUE]]
    /\ reputation' = Strike(reputation, a)
    /\ RecordProvenance
    /\ UNCHANGED bounties

VerifyInsufficient(b, i, finding) ==
    LET a == Revised(b, i, finding) IN
    /\ finding.verdict = "INSUFFICIENT_EVIDENCE"
    /\ Exhausted(a)
    /\ attempts' = [attempts EXCEPT ![b][i] = Refunded(a, "INSUFFICIENT_EVIDENCE_FINAL")]
    /\ RecordProvenance
    /\ UNCHANGED <<bounties, reputation>>

VerifyReject(b, i, finding) ==
    LET a == Judged(b, i, finding) IN
    /\ finding.verdict = "REJECTED"
    /\ attempts' = [attempts EXCEPT ![b][i] =
                       [a EXCEPT !.status = "REJECTED_FINAL", !.rejection_counted = TRUE]]
    /\ reputation' = Strike(reputation, a)
    /\ UNCHANGED <<bounties, attempts_settled_by_ai_consensus>>

RequestVerification(b, i, finding) ==
    /\ attempts[b][i].status = "SUBMITTED"
    /\ \/ VerifyWinner(b, i, finding)
       \/ VerifyLostRace(b, i, finding)
       \/ VerifyResubmit(b, i, finding)
       \/ VerifyRevisionsExhausted(b, i, finding)
       \/ VerifyInsufficient(b, i, finding)
       \/ VerifyReject(b, i, finding)
    /\ UNCHANGED <<config, reservations, contested>>

ClaimBondForfeiture(sender, b, i) ==
    /\ sender = bounties[b].creator
    /\ attempts[b][i].status = "REJECTED_FINAL"
    /\ attempts' = [attempts EXCEPT ![b][i] = Forfeited(@, FALSE)]
    /\ reputation' = Strike(reputation, attempts[b][i])
    /\ RecordProvenance
    /\ UNCHANGED <<config, bounties, reservations, contested>>

ReclaimBondAfterSettlement(sender, b, i) ==
    /\ sender = attempts[b][i].challenger
    /\ attempts[b][i].status = "LOST_RACE"
    /\ attempts' = [attempts EXCEPT ![b][i].bond_deposited = 0]
    /\ UNCHANGED <<config, bounties, reservations, reputation,
                   attempts_settled_by_ai_consensus, contested>>

-----------------------------------------------------------------------------
(* Disputes. *)

\* Mutant: an attempt that is over can be disputed.
DisputableTerminal(b, i) ==
    attempts[b][i].status \in LIVE_STATES \cup {"BOND_FORFEITED"}

Disputable(b, i) == attempts[b][i].status \in LIVE_STATES

RaiseDispute(sender, b, i) ==
    /\ IsParty(sender, b, i)
    /\ Disputable(b, i)
    /\ attempts' = [attempts EXCEPT ![b][i].status = "DISPUTED"]
    /\ reputation' = Credit(reputation, sender, "attempts_disputed", 1)
    /\ contested' = [contested EXCEPT ![b] = IF IsOpen(b) THEN @ \cup {i} ELSE @]
    /\ UNCHANGED <<config, bounties, reservations, attempts_settled_by_ai_consensus>>

\* The share an arbiter's ruling names: only PARTIAL has one, strictly inside.
RulingBps(verdict, bps) == IF verdict = "PARTIAL" THEN Bucket(bps) ELSE 0

ResolveDispute(sender, b, i, verdict, bps) ==
    LET a == attempts[b][i] IN
    /\ sender = bounties[b].arbiter
    /\ a.status = "DISPUTED"
    /\ verdict = "PARTIAL" => bps > 0 /\ bps < BPS_DENOMINATOR
    /\ attempts' = [attempts EXCEPT ![b][i] =
                       [@ EXCEPT !.human_verdict_overrode_ai =
                                     ~MatchesOutcome(a.last_verdict, a.last_payout_bps,
                                                     verdict, RulingBps(verdict, bps)),
                                 !.status = "ARBITER_RESOLVED_PENDING_APPEAL",
                                 !.pending_arbiter_verdict = verdict,
                                 !.pending_payout_bps = RulingBps(verdict, bps),
                                 !.appeal_deadline = APPEAL_WINDOW_SECONDS]]
    /\ UNCHANGED <<config, bounties, reservations, reputation,
                   attempts_settled_by_ai_consensus, contested>>

\* The second consensus: what it makes of attempt a, whose recipient field is
\* already decided.  Its verdict replaces the arbiter's.
Reconsidered(a, finding) ==
    [a EXCEPT !.pending_arbiter_verdict = finding.verdict,
              !.pending_payout_bps = EffectiveBps(finding)]

SettleViaSecondConsensus(b, i, a, finding) ==
    /\ \/ /\ finding.verdict = "REJECTED"
          /\ attempts' = [attempts EXCEPT ![b][i] = Forfeited(a, TRUE)]
          /\ reputation' = Strike(reputation, a)
          /\ UNCHANGED bounties
       \/ /\ finding.verdict \in {"NEEDS_REVISION", "INSUFFICIENT_EVIDENCE"}
          /\ attempts' = [attempts EXCEPT ![b][i] = Refunded(a, "INSUFFICIENT_EVIDENCE_FINAL")]
          /\ UNCHANGED <<bounties, reputation>>
       \/ /\ finding.verdict \in {"APPROVED", "PARTIAL"}
          /\ ~IsOpen(b)
          /\ attempts' = [attempts EXCEPT ![b][i] = Refunded(a, "LOST_RACE")]
          /\ UNCHANGED <<bounties, reputation>>
       \/ /\ finding.verdict \in {"APPROVED", "PARTIAL"}
          /\ IsOpen(b)
          /\ SettleRewardToWinner(b, i, a, EffectiveBps(finding), TRUE)
    /\ RecordProvenance
    /\ UNCHANGED <<config, reservations, contested>>

FinalizeArbiterResolution(b, i, finding) ==
    /\ attempts[b][i].status = "ARBITER_RESOLVED_PENDING_APPEAL"
    /\ HasPassed(attempts[b][i].appeal_deadline, 0)
    /\ SettleViaSecondConsensus(b, i, Reconsidered(attempts[b][i], finding), finding)

-----------------------------------------------------------------------------
(* Appeals. *)

AppealArbiterResolution(sender, b, i) ==
    LET a == attempts[b][i]
        bond == a.bond_amount
    IN
    /\ IsParty(sender, b, i)
    /\ a.status = "ARBITER_RESOLVED_PENDING_APPEAL"
    /\ ~HasPassed(a.appeal_deadline, 0)
    /\ attempts' = [attempts EXCEPT ![b][i] =
                       [a EXCEPT !.appealed_by = sender,
                                 !.appeal_bond_deposited = bond,
                                 !.status = IF bond = 0 THEN "APPEALED"
                                            ELSE "APPEAL_PENDING_FUNDING",
                                 !.appeal_funding_deadline =
                                     IF bond = 0 THEN a.appeal_funding_deadline
                                     ELSE FUNDING_RESERVATION_SECONDS]]
    /\ UNCHANGED <<config, bounties, reservations, reputation,
                   attempts_settled_by_ai_consensus, contested>>

ConfirmAppealFunding(sender, b, i, txHash) ==
    /\ sender = config.funding_attestor
    /\ attempts[b][i].status = "APPEAL_PENDING_FUNDING"
    /\ ~IsOver(attempts[b][i].appeal_funding_deadline)
    /\ attempts' = [attempts EXCEPT ![b][i] =
                       [@ EXCEPT !.appeal_base_funding_tx_hash = txHash,
                                 !.status = "APPEAL_FUNDED_PENDING_BINDING"]]
    /\ UNCHANGED <<config, bounties, reservations, reputation,
                   attempts_settled_by_ai_consensus, contested>>

\* Mutant: the appeal is activated before it was funded.
AppealAwaitsBindingUnfunded(a) ==
    a.status \in {"APPEAL_PENDING_FUNDING", "APPEAL_FUNDED_PENDING_BINDING"}

AppealAwaitsBinding(a) == a.status = "APPEAL_FUNDED_PENDING_BINDING"

ConfirmAppealBinding(sender, b, i) ==
    /\ sender = config.funding_attestor
    /\ AppealAwaitsBinding(attempts[b][i])
    /\ attempts' = [attempts EXCEPT ![b][i].status = "APPEALED"]
    /\ UNCHANGED <<config, bounties, reservations, reputation,
                   attempts_settled_by_ai_consensus, contested>>

\* Mutant: the cleanup forgets appeals that were funded but never bound.
AppealFundingLapsedUnfunded(a) ==
    a.status = "APPEAL_PENDING_FUNDING" /\ IsOver(a.appeal_funding_deadline)

AppealFundingLapsed(a) ==
    /\ a.status \in {"APPEAL_PENDING_FUNDING", "APPEAL_FUNDED_PENDING_BINDING"}
    /\ IsOver(a.appeal_funding_deadline)

ExpireAppealFunding(b, i) ==
    /\ AppealFundingLapsed(attempts[b][i])
    /\ attempts' = [attempts EXCEPT ![b][i] =
                       [@ EXCEPT !.status = "ARBITER_RESOLVED_PENDING_APPEAL",
                                 !.appeal_bond_deposited = 0]]
    /\ UNCHANGED <<config, bounties, reservations, reputation,
                   attempts_settled_by_ai_consensus, contested>>

Counterparty(b, a) ==
    IF a.appealed_by = a.challenger THEN bounties[b].creator ELSE a.challenger

\* Mutant: the bond goes to the other side.
AppealRecipientSwapped(b, a, finding) ==
    IF MatchesOutcome(finding.verdict, finding.payout_bps,
                      a.pending_arbiter_verdict, a.pending_payout_bps)
    THEN a.appealed_by ELSE Counterparty(b, a)

\* The appellant has the bond back unless the second consensus upholds the arbiter.
AppealRecipient(b, a, finding) ==
    IF MatchesOutcome(finding.verdict, finding.payout_bps,
                      a.pending_arbiter_verdict, a.pending_payout_bps)
    THEN Counterparty(b, a) ELSE a.appealed_by

ResolveAppeal(b, i, finding) ==
    LET a == attempts[b][i] IN
    /\ a.status = "APPEALED"
    /\ SettleViaSecondConsensus(b, i,
           [Reconsidered(a, finding) EXCEPT
               !.appeal_bond_recipient = AppealRecipient(b, a, finding)], finding)

ForceDefaultResolution(sender, b, i) ==
    /\ IsParty(sender, b, i)
    /\ attempts[b][i].status = "DISPUTED"
    /\ HasPassed(bounties[b].deadline, ARBITER_GRACE_SECONDS)
    /\ attempts' = [attempts EXCEPT ![b][i] = Refunded(@, "CANCELLED")]
    /\ UNCHANGED <<config, bounties, reservations, reputation,
                   attempts_settled_by_ai_consensus, contested>>

-----------------------------------------------------------------------------
(* Administration, and time. *)

\* Mutant: the fee the owner sets is not checked.
AcceptableUnchecked(field, value) == TRUE

Acceptable(field, value) == field = "default_fee_bps" => value <= MAX_FEE_BPS

\* update_default_fee_bps, update_treasury, set_paused,
\* update_funding_attestor, transfer_ownership.
Administer(sender, field, value) ==
    /\ sender = config.owner
    /\ Acceptable(field, value)
    /\ config' = [config EXCEPT ![field] = value]
    /\ UNCHANGED <<bounties, reservations, attempts, reputation,
                   attempts_settled_by_ai_consensus, contested>>

\* No comparison of a bounty's deadline looks further back than this.
LongestGrace ==
    IF ARBITER_GRACE_SECONDS > VERIFICATION_GRACE_SECONDS
    THEN ARBITER_GRACE_SECONDS ELSE VERIFICATION_GRACE_SECONDS

Elapsed(left, floor) == IF left > floor THEN left - 1 ELSE left

Tick ==
    /\ bounties' = [b \in BountyId |->
          IF bounties[b].status = "NONE" THEN bounties[b]
          ELSE [bounties[b] EXCEPT !.deadline = Elapsed(@, -LongestGrace)]]
    /\ reservations' = [r \in ReservationId |->
          [reservations[r] EXCEPT !.funding_deadline = Elapsed(@, -1)]]
    /\ attempts' = [b \in BountyId |-> [i \in AttemptIndex |->
          [attempts[b][i] EXCEPT !.appeal_deadline = Elapsed(@, 0),
                                 !.appeal_funding_deadline = Elapsed(@, -1)]]]
    /\ UNCHANGED <<config, reputation, attempts_settled_by_ai_consensus, contested>>

\* The owner's calls.
Administration ==
    \E sender \in Owner :
        \/ \E value \in FeeBps : Administer(sender, "default_fee_bps", value)
        \/ \E value \in Treasury : Administer(sender, "treasury", value)
        \/ \E value \in Pause : Administer(sender, "paused", value)
        \/ \E value \in Attestor : Administer(sender, "funding_attestor", value)
        \/ \E value \in Owner : Administer(sender, "owner", value)

\* The calls that report what happened on Base.
Attestation ==
    \E sender \in Account, b \in BountyId :
        \/ \E r \in ReservationId, txHash \in TxHash : ConfirmAttemptFunding(sender, b, r, txHash)
        \/ \E i \in AttemptIndex, txHash \in TxHash : ConfirmAppealFunding(sender, b, i, txHash)
        \/ \E i \in AttemptIndex : ConfirmAppealBinding(sender, b, i)

\* The calls of creators, challengers, arbiters and the public.
Participation ==
    \/ \E r \in ReservationId : ExpireAttemptReservation(r)
    \/ \E b \in BountyId, sender \in Creator :
         \/ \E arbiter \in Arbiter, seconds \in DeadlineSeconds, bond \in Bond, reward \in Reward :
              CreateBounty(sender, b, arbiter, seconds, bond, reward)
         \/ CancelBounty(sender, b)
         \/ ClaimCreatorTimeout(sender, b)
         \/ \E seconds \in ExtraSeconds : ExtendBountyDeadline(sender, b, seconds)
    \/ \E b \in BountyId, r \in ReservationId, sender \in Challenger : ReserveAttempt(sender, b, r)
    \/ \E b \in BountyId, i \in AttemptIndex, finding \in Finding :
         \/ RequestVerification(b, i, finding)
         \/ FinalizeArbiterResolution(b, i, finding)
         \/ ResolveAppeal(b, i, finding)
    \/ \E b \in BountyId, i \in AttemptIndex :
         \/ ExpireAppealFunding(b, i)
         \/ \E sender \in Account :
              \/ SubmitEvidence(sender, b, i)
              \/ ClaimBondForfeiture(sender, b, i)
              \/ ReclaimBondAfterSettlement(sender, b, i)
              \/ RaiseDispute(sender, b, i)
              \/ \E verdict \in Ruling, bps \in ReviewBps \ {Malformed} :
                   ResolveDispute(sender, b, i, verdict, bps)
              \/ AppealArbiterResolution(sender, b, i)
              \/ ForceDefaultResolution(sender, b, i)

Next == Tick \/ Administration \/ Attestation \/ Participation

Spec == Init /\ [][Next]_vars

\* What the parties and the public have to do for the protocol to end: time
\* passes, whoever has an interest makes the calls anyone may make, a challenger
\* uses the exits of an attempt, a creator takes back what nobody won.  The
\* arbiter, the attestor and the requests for a review are promised nothing.
Fairness ==
    /\ WF_vars(Tick)
    /\ \A b \in BountyId : WF_vars(\E sender \in Creator : ClaimCreatorTimeout(sender, b))
    /\ \A b \in BountyId, i \in AttemptIndex :
         /\ WF_vars(\E finding \in Finding : FinalizeArbiterResolution(b, i, finding))
         /\ WF_vars(\E finding \in Finding : ResolveAppeal(b, i, finding))
         /\ WF_vars(ExpireAppealFunding(b, i))
         /\ WF_vars(\E sender \in Challenger : ForceDefaultResolution(sender, b, i))
         /\ WF_vars(\E sender \in Challenger : RaiseDispute(sender, b, i))

FairSpec == Spec /\ Fairness

-----------------------------------------------------------------------------
(* Types. *)

BOUNTY_STATUS == {"NONE", "OPEN", "SETTLED", "CANCELLED", "EXPIRED_REFUNDED"}
RESERVATION_STATUS == {"NONE", "PENDING", "ACTIVATED", "EXPIRED"}
ATTEMPT_STATUS == {"NONE"} \cup LIVE_STATES \cup TERMINAL_STATES \cup DISPUTE_IN_PROGRESS_STATES

Config ==
    [owner : Owner, funding_attestor : Account, treasury : Treasury,
     default_fee_bps : 0 .. MAX_FEE_BPS, paused : BOOLEAN]

Bounty ==
    [status : BOUNTY_STATUS, creator : Account \cup {NoOne}, arbiter : Account \cup {NoOne},
     reward_amount : Nat, reward_deposited : Nat, required_bond : Nat,
     platform_fee_bps : 0 .. MAX_FEE_BPS, attempt_count : Nat, attempts_won : Nat,
     winning_attempt_index : Nat, criteria_locked : BOOLEAN, deadline : Int]

AttemptReservation ==
    [status : RESERVATION_STATUS, bounty_id : BountyId, challenger : Account \cup {NoOne},
     funding_deadline : Int, activated_attempt_index : Nat,
     base_funding_tx_hash : TxHash \cup {NoHash}]

Attempt ==
    [status : ATTEMPT_STATUS, challenger : Account \cup {NoOne}, bond_amount : Nat,
     bond_deposited : Nat, revision_count : Nat, last_verdict : VALID_VERDICTS \cup {""},
     last_payout_bps : 0 .. BPS_DENOMINATOR, 
     pending_arbiter_verdict : VALID_VERDICTS \cup ARBITER_VERDICTS \cup {""},
     pending_payout_bps : 0 .. BPS_DENOMINATOR, appeal_deadline : Int,
     appealed_by : Account \cup {NoOne}, appeal_bond_deposited : Nat,
     appeal_bond_recipient : Account \cup {NoOne}, appeal_funding_deadline : Int,
     appeal_base_funding_tx_hash : TxHash \cup {NoHash}, resolved_by_arbiter : BOOLEAN,
     human_verdict_overrode_ai : BOOLEAN, rejection_counted : BOOLEAN]

Reputation ==
    [bounties_created : Nat, bounties_funded_total : Nat, attempts_made : Nat,
     attempts_won : Nat, attempts_partial : Nat, attempts_rejected : Nat,
     attempts_disputed : Nat, total_earned : Nat]

\* The state is well typed: no ledger, counter or net payout is ever negative and
\* no share exceeds the whole.
TypeOK ==
    /\ config \in Config
    /\ bounties \in [BountyId -> Bounty]
    /\ reservations \in [ReservationId -> AttemptReservation]
    /\ attempts \in [BountyId -> [AttemptIndex -> Attempt]]
    /\ reputation \in [Account -> Reputation]
    /\ attempts_settled_by_ai_consensus \in Nat
    /\ contested \in [BountyId -> SUBSET AttemptIndex]

-----------------------------------------------------------------------------
(* Safety. *)

Wins(b, i) == attempts[b][i].status = "WON"

\* A reward goes one way.  It is whole while the bounty is open and gone as soon
\* as it is not; a settled bounty has exactly one winner, the one it names, and
\* no other bounty has any: not a race, not a late appeal, not a timeout.
OneWinner ==
    \A b \in BountyId :
        /\ bounties[b].reward_deposited = IF IsOpen(b) THEN bounties[b].reward_amount ELSE 0
        /\ {i \in AttemptIndex : Wins(b, i)} =
              IF bounties[b].status = "SETTLED" THEN {bounties[b].winning_attempt_index} ELSE {}
        /\ bounties[b].attempts_won = IF bounties[b].status = "SETTLED" THEN 1 ELSE 0

\* The end of a bounty leaves nobody in between: a settled bounty has no attempt
\* that still waits for a verdict, and a cancelled one never had any attempt.
NobodyLeftRacing ==
    \A b \in BountyId, i \in AttemptIndex :
        /\ bounties[b].status = "SETTLED" => attempts[b][i].status \notin LIVE_STATES
        /\ bounties[b].status \in {"NONE", "CANCELLED"} => attempts[b][i] = NoAttempt

\* A race ends with one winner who has the reward, and with nobody still running.
RaceIsDecided == OneWinner /\ NobodyLeftRacing

\* The bond ledger of an attempt is the agreed bond for as long as the outcome is
\* open and nothing once it is decided; a lost race may still be reclaimed.
BondLedger ==
    \A b \in BountyId, i \in AttemptIndex :
        LET a == attempts[b][i] IN
        a.bond_deposited \in
            CASE a.status = "LOST_RACE" -> {0, a.bond_amount}
              [] a.status \in TERMINAL_STATES \ {"LOST_RACE"} -> {0}
              [] OTHER -> {a.bond_amount}

\* Attempts are numbered without gaps, and each is the activation of exactly one
\* reservation of its challenger for its bounty.
AttemptsComeFromReservations ==
    \A b \in BountyId, i \in AttemptIndex :
        LET origin == {r \in ReservationId :
                         /\ reservations[r].status = "ACTIVATED"
                         /\ reservations[r].bounty_id = b
                         /\ reservations[r].activated_attempt_index = i}
        IN  IF i < bounties[b].attempt_count
            THEN /\ attempts[b][i].status # "NONE"
                 /\ \E r \in origin : /\ origin = {r}
                                      /\ reservations[r].challenger = attempts[b][i].challenger
            ELSE attempts[b][i] = NoAttempt /\ origin = {}

\* A dispute raised while the reward was there is decided while the reward is
\* there, or after another attempt won it: whatever stage the dispute or its
\* appeal is in, a timeout has not taken the reward from under it.
DisputesKeepReward ==
    \A b \in BountyId : \A i \in contested[b] :
        attempts[b][i].status \in DISPUTE_IN_PROGRESS_STATES =>
            bounties[b].status \in {"OPEN", "SETTLED"}

\* An appeal that is being or was decided had its bond funded on Base before, and
\* a decided one names one of the two parties as its recipient.
AppealsAreFunded ==
    \A b \in BountyId, i \in AttemptIndex :
        LET a == attempts[b][i] IN
        /\ a.status = "APPEALED" \/ a.appeal_bond_recipient # NoOne =>
             /\ a.appealed_by # NoOne
             /\ a.appeal_bond_deposited = a.bond_amount
             /\ a.bond_amount > 0 => a.appeal_base_funding_tx_hash # NoHash
        /\ a.appeal_bond_recipient # NoOne =>
             /\ a.status \in TERMINAL_STATES
             /\ IsParty(a.appeal_bond_recipient, b, i)

Of(a) == attempts[a[1]][a[2]]

AttemptOf(x) == {a \in BountyId \X AttemptIndex : Of(a).challenger = x}
WonBy(x) == {a \in AttemptOf(x) : Of(a).status = "WON"}
PartlyWonBy(x) == {a \in WonBy(x) : Of(a).last_payout_bps < BPS_DENOMINATOR}
StruckOf(x) == {a \in AttemptOf(x) : Of(a).rejection_counted}

\* The reputation of an account is the record of its attempts, nothing counted
\* twice and nothing forgotten: in particular one rejection at most per attempt,
\* on whatever path or paths that attempt was rejected.
ReputationIsRecord ==
    \A x \in Account :
        /\ reputation[x].attempts_made = Cardinality(AttemptOf(x))
        /\ reputation[x].attempts_won = Cardinality(WonBy(x))
        /\ reputation[x].attempts_partial = Cardinality(PartlyWonBy(x))
        /\ reputation[x].attempts_rejected = Cardinality(StruckOf(x))
        /\ \A a \in AttemptOf(x) :
             Of(a).status \in {"REJECTED_FINAL", "BOND_FORFEITED"} => Of(a).rejection_counted

\* What is decided stays decided: a bounty that is not open any more keeps its
\* state, and a terminal attempt its outcome, share and appeal recipient; only the
\* bond of a lost race can still leave its ledger.
DecisionsAreFinal ==
    [][\A b \in BountyId :
         /\ bounties[b].status \notin {"NONE", "OPEN"} =>
               bounties'[b] = [bounties[b] EXCEPT !.deadline = bounties'[b].deadline]
         /\ \A i \in AttemptIndex :
               LET a == attempts[b][i] IN
               a.status \in TERMINAL_STATES =>
                  attempts'[b][i] =
                     [a EXCEPT !.bond_deposited = attempts'[b][i].bond_deposited,
                               !.appeal_deadline = attempts'[b][i].appeal_deadline,
                               !.appeal_funding_deadline =
                                   attempts'[b][i].appeal_funding_deadline]]_vars

\* An appeal costs its appellant the bond exactly when the outcome is the one the
\* arbiter had ruled: told from the outcome of the attempt, not from the verdict.
AppealBondFollowsOutcome ==
    [][\A b \in BountyId, i \in AttemptIndex :
         LET a == attempts[b][i]
             z == attempts'[b][i]
             asRuled ==
               \/ a.pending_arbiter_verdict = "REJECT" /\ z.status = "BOND_FORFEITED"
               \/ /\ a.pending_arbiter_verdict = "APPROVE"
                  /\ z.status = "WON" /\ z.last_payout_bps = BPS_DENOMINATOR
               \/ /\ a.pending_arbiter_verdict = "PARTIAL"
                  /\ z.status = "WON" /\ z.last_payout_bps = a.pending_payout_bps
         IN  a.status = "APPEALED" /\ z.status \in TERMINAL_STATES \ {"LOST_RACE"} =>
                z.appeal_bond_recipient =
                    IF asRuled THEN Counterparty(b, a) ELSE a.appealed_by]_vars

-----------------------------------------------------------------------------
(* Liveness. *)

\* The creator stops extending the deadline of an open bounty.
ExtensionsStop ==
    <>[][\A b \in BountyId : IsOpen(b) => bounties'[b].deadline <= bounties[b].deadline]_vars

InState(b, i, states) == attempts[b][i].status \in states

\* Once deadlines stay put, every attempt ends, whatever the arbiter, the attestor
\* and the reviewers do or fail to do: no bond is locked for ever.
AttemptsEnd ==
    ExtensionsStop =>
        \A b \in BountyId, i \in AttemptIndex :
            ~InState(b, i, {"NONE"}) ~> InState(b, i, TERMINAL_STATES)

\* A dispute ends even if its arbiter never acts: an attempt cannot be stuck in
\* DISPUTED for ever.  (ARBITER_GRACE_SECONDS, force_default_resolution)
DisputesEnd ==
    \A b \in BountyId, i \in AttemptIndex :
        InState(b, i, {"DISPUTED"}) ~> ~InState(b, i, {"DISPUTED"})

\* Once deadlines stay put, every bounty is decided or refunded.
BountiesClose ==
    ExtensionsStop => \A b \in BountyId : IsOpen(b) ~> ~IsOpen(b)

=============================================================================
