----------------------------- MODULE WebOffers -----------------------------
(***************************************************************************)
(* What the web application lets a wallet do about a bounty and its        *)
(* attempts (app/bounty/[id]/page.tsx, components/bounty/AttemptCard.tsx,  *)
(* lib/bounty-actions.ts), beside the contract that decides whether the    *)
(* call succeeds.                                                          *)
(*                                                                         *)
(* The page has read the contract's current state and its clock (useNow)   *)
(* is the contract's: what is offered in error here is refused however     *)
(* fresh the page is.  Times are time left, as in Adjudication; the        *)
(* second of a deadline counts as past it for isExpired, which compares    *)
(* milliseconds.  Forms that open before the call is made are part of the  *)
(* offer.  The Base side of accepting and of appealing is in WebAccept and *)
(* WebAppeal.                                                              *)
(***************************************************************************)
EXTENDS Adjudication

isExpired(left) == left <= 0

isCreator(x, b) == x = bounties[b].creator
isChallenger(x, b, i) == x = attempts[b][i].challenger
isArbiter(x, b) == x = bounties[b].arbiter

-----------------------------------------------------------------------------
(* The bounty page. *)

\* bounty-actions.ts, which says that it mirrors DISPUTE_IN_PROGRESS_STATES.
DISPUTE_IN_PROGRESS_STATUSES == {"DISPUTED", "ARBITER_RESOLVED_PENDING_APPEAL", "APPEALED"}

\* Mutant: the refund is offered as soon as the deadline has passed.
graceElapsedAtOnce(b) == isExpired(bounties[b].deadline)

graceElapsed(b) == bounties[b].deadline + VERIFICATION_GRACE_SECONDS <= 0

canClaimBountyTimeout(x, b) ==
    /\ isCreator(x, b)
    /\ IsOpen(b)
    /\ graceElapsed(b)
    /\ \A i \in AttemptIndex : attempts[b][i].status \notin DISPUTE_IN_PROGRESS_STATUSES

criteria_locked(b) == bounties[b].attempt_count > 0

BountyOffers(x, b) ==
    {action \in {"accept", "cancel", "timeout"} :
        \/ action = "accept" /\ IsOpen(b) /\ ~isExpired(bounties[b].deadline) /\ ~isCreator(x, b)
        \/ action = "cancel" /\ isCreator(x, b) /\ IsOpen(b) /\ ~criteria_locked(b)
        \/ action = "timeout" /\ canClaimBountyTimeout(x, b)}

\* What a click on one of them calls: handleAccept, handleCancel, handleTimeout.
BountyCall(action, x, b) ==
    \/ action = "accept" /\ \E r \in ReservationId : ReserveAttempt(x, b, r)
    \/ action = "cancel" /\ CancelBounty(x, b)
    \/ action = "timeout" /\ ClaimCreatorTimeout(x, b)

-----------------------------------------------------------------------------
(* The card of an attempt. *)

appealWindowOpen(a) ==
    a.status = "ARBITER_RESOLVED_PENDING_APPEAL" /\ a.appeal_deadline > 0

\* Mutant: strictly later than the deadline.
appealWindowClosedLater(a) ==
    a.status = "ARBITER_RESOLVED_PENDING_APPEAL" /\ a.appeal_deadline < 0

appealWindowClosed(a) ==
    a.status = "ARBITER_RESOLVED_PENDING_APPEAL" /\ a.appeal_deadline <= 0

canDispute(x, b, i) ==
    /\ isChallenger(x, b, i) \/ isCreator(x, b)
    /\ attempts[b][i].status \in {"ACCEPTED", "SUBMITTED", "NEEDS_REVISION", "REJECTED_FINAL"}

canRetryAppealFunding(x, a) ==
    /\ a.appealed_by # NoOne /\ x = a.appealed_by
    /\ a.bond_amount > 0
    /\ a.status \in {"APPEAL_PENDING_FUNDING", "APPEAL_FUNDED_PENDING_BINDING"}
    /\ a.appeal_funding_deadline >= 0

canExpireAppealFunding(a) ==
    a.status = "APPEAL_PENDING_FUNDING" /\ a.appeal_funding_deadline < 0

\* The forms of DISPUTED and APPEALED, and the buttons under the card.
AttemptOffers(x, b, i) ==
    LET a == attempts[b][i] IN
    {action \in {"submit evidence", "verify", "reclaim", "forfeit", "dispute", "appeal",
                 "fund appeal", "expire appeal", "finalize", "rule", "resolve appeal"} :
        \/ /\ action = "submit evidence" /\ isChallenger(x, b, i)
           /\ a.status \in {"ACCEPTED", "NEEDS_REVISION"}
        \/ action = "verify" /\ a.status = "SUBMITTED"
        \/ action = "reclaim" /\ isChallenger(x, b, i) /\ a.status = "LOST_RACE"
        \/ action = "forfeit" /\ isCreator(x, b) /\ a.status = "REJECTED_FINAL"
        \/ action = "dispute" /\ canDispute(x, b, i)
        \/ action = "appeal" /\ (isChallenger(x, b, i) \/ isCreator(x, b)) /\ appealWindowOpen(a)
        \/ action = "fund appeal" /\ canRetryAppealFunding(x, a)
        \/ action = "expire appeal" /\ canExpireAppealFunding(a)
        \/ action = "finalize" /\ appealWindowClosed(a)
        \/ action = "rule" /\ isArbiter(x, b) /\ a.status = "DISPUTED"
        \/ action = "resolve appeal" /\ a.status = "APPEALED"}

\* The arbiter's share of a PARTIAL ruling is entered in percent, 1 to 99.
SharesEntered == 1 .. BPS_DENOMINATOR - 1

\* Every button of the form is good for a ruling.
ArbiterResolutionForm(x, b, i) ==
    \A verdict \in {"APPROVE", "PARTIAL", "REJECT"} :
        \A bps \in IF verdict = "PARTIAL" THEN SharesEntered ELSE {0} :
            ENABLED ResolveDispute(x, b, i, verdict, bps)

ResolveAppealForm(b, i) == ENABLED \E finding \in Finding : ResolveAppeal(b, i, finding)

\* What a click calls: the handlers of the card.
AttemptCall(action, x, b, i) ==
    \/ action = "submit evidence" /\ SubmitEvidence(x, b, i)
    \/ action = "verify" /\ \E finding \in Finding : RequestVerification(b, i, finding)
    \/ action = "dispute" /\ RaiseDispute(x, b, i)
    \/ action = "reclaim" /\ ReclaimBondAfterSettlement(x, b, i)
    \/ action = "forfeit" /\ ClaimBondForfeiture(x, b, i)
    \/ action = "finalize" /\ \E finding \in Finding : FinalizeArbiterResolution(b, i, finding)
    \/ action = "appeal" /\ AppealArbiterResolution(x, b, i)
    \/ action = "expire appeal" /\ ExpireAppealFunding(b, i)

-----------------------------------------------------------------------------
Challenged(b, i) == attempts[b][i].status # "NONE"

\* The page does not ask for evidence to be in time, nor the timeout for an appeal
\* that awaits its deposit to be over: those two calls may be refused.
AwaitsAppealDeposit(b) ==
    \E i \in AttemptIndex :
        attempts[b][i].status \in {"APPEAL_PENDING_FUNDING", "APPEAL_FUNDED_PENDING_BINDING"}

\* A click is not wasted: what a page that is up to date offers, the contract does,
\* at every second of every deadline, but for the two calls above.
OffersAreAccepted ==
    \A x \in Account, b \in BountyId :
        /\ \A action \in BountyOffers(x, b) :
             \/ ENABLED BountyCall(action, x, b)
             \/ action = "timeout" /\ AwaitsAppealDeposit(b)
             \/ action = "accept" /\ \A r \in ReservationId : reservations[r].status # "NONE"
        /\ \A i \in AttemptIndex : \A action \in AttemptOffers(x, b, i) :
             \/ action \in {"submit evidence", "fund appeal"}
             \/ ENABLED AttemptCall(action, x, b, i)
             \/ action = "rule" /\ ArbiterResolutionForm(x, b, i)
             \/ action = "resolve appeal" /\ ResolveAppealForm(b, i)

\* Nobody needs another tool to have their money: whatever the contract would let a
\* wallet do to end an attempt or a bounty, the page offers it; and an appeal that
\* awaits its deposit can be paid for until the second it can be called off.  Not
\* offered: the default resolution of a dispute, the expiry of an appeal that was
\* funded and never bound.
ExitsAreOffered ==
    \A x \in Account, b \in BountyId :
        /\ \A action \in {"cancel", "timeout"} :
             ENABLED BountyCall(action, x, b) => action \in BountyOffers(x, b)
        /\ \A i \in AttemptIndex :
             /\ \A action \in {"verify", "reclaim", "forfeit", "dispute", "appeal", "finalize"} :
                  Challenged(b, i) /\ ENABLED AttemptCall(action, x, b, i) =>
                      action \in AttemptOffers(x, b, i)
             /\ attempts[b][i].status = "APPEAL_PENDING_FUNDING" =>
                  \/ "expire appeal" \in AttemptOffers(x, b, i)
                  \/ "fund appeal" \in AttemptOffers(attempts[b][i].appealed_by, b, i)

=============================================================================
