----------------------------- MODULE CrossChain -----------------------------
(***************************************************************************)
(* The two chains and the relayer between them:                            *)
(* apps/api/src/services/base-relayer.ts with appeal-reconciliation.ts,    *)
(* appeal-recovery.ts and lib/genlayer.ts.                                 *)
(*                                                                         *)
(* GenLayer and Base are the modules Adjudication and Escrow, whole.  The  *)
(* relayer holds the attestor's key on one and the relayer's and decision  *)
(* signer's keys on the other; everything else is called by the parties.   *)
(* Nothing spans the chains: every remote read and every transaction of a  *)
(* handler or of the sweep is a step of its own, between any two of which  *)
(* anything else may happen, and every call may fail or time out and end   *)
(* its caller (Fails).  A transaction whose caller gave up and that is     *)
(* mined later is a handler that was slow.                                 *)
(*                                                                         *)
(* Abstractions.  A signature the relayer uses at once is part of that     *)
(* step, its conditions included: what it covers is compared with what the *)
(* escrow hashes.  Authorizations handed to a wallet are kept only where   *)
(* something can change before they are used (issued).  The keys do not    *)
(* change, and nobody withdraws a claim: a withdrawal touches nothing else *)
(* the relayer reads.  Deployment has one API process, so one sweep.       *)
(***************************************************************************)
EXTENDS Integers, FiniteSets

CONSTANTS
    Account, NoOne, BountyId, ReservationId, AttemptIndex, TxHash, NoHash,
    Creator, Arbiter, Challenger, Attestor, Treasury, RelayerKey, SignerKey,
    Reward, Bond, FeeBps, ReviewVerdict, ReviewBps, Ruling, Malformed,
    DeadlineSeconds, ExtraSeconds, MaxDeadline,
    BPS_DENOMINATOR, PAYOUT_BUCKET_BPS, MAX_FEE_BPS, DEFAULT_MAX_REVISIONS,
    MIN_BOUNTY_DEADLINE_SECONDS, FUNDING_RESERVATION_SECONDS,
    VERIFICATION_GRACE_SECONDS, APPEAL_WINDOW_SECONDS, ARBITER_GRACE_SECONDS,
    PENDING_ATTEMPT_RECOVERY_DELAY, ORPHAN_DELAY, MaxTime,
    NoReservation,
    Handler         \* confirmation requests the API serves at a time

ASSUME AccountAssumption ==
    /\ BountyId # {} /\ NoOne \notin Account
    /\ Attestor \cup Treasury \cup Creator \cup Arbiter \cup Challenger \subseteq Account
    /\ NoHash \notin TxHash /\ NoReservation \notin ReservationId

ASSUME TermsAssumption ==
    /\ Reward \subseteq Nat /\ Bond \subseteq Nat /\ FeeBps \subseteq Nat
    /\ Ruling \subseteq {"APPROVE", "REJECT", "PARTIAL"}
    /\ ReviewBps \subseteq Nat \cup {Malformed} /\ Malformed \notin Int
    /\ DEFAULT_MAX_REVISIONS \in Nat \ {0}
    /\ IsFiniteSet(AttemptIndex) /\ AttemptIndex = 0 .. Cardinality(AttemptIndex) - 1

ASSUME ShareAssumption ==
    /\ BPS_DENOMINATOR \in Nat \ {0} /\ PAYOUT_BUCKET_BPS \in Nat \ {0}
    /\ BPS_DENOMINATOR % PAYOUT_BUCKET_BPS = 0
    /\ 2 * PAYOUT_BUCKET_BPS <= BPS_DENOMINATOR
    /\ MAX_FEE_BPS \in 0 .. BPS_DENOMINATOR

\* A bound deposit is not given back while its appeal could still be made: 7 days on
\* Base (ORPHAN_DELAY), 2 days on GenLayer (APPEAL_WINDOW_SECONDS).
ASSUME DurationAssumption ==
    /\ DeadlineSeconds \subseteq Nat /\ ExtraSeconds \subseteq Nat
    /\ MIN_BOUNTY_DEADLINE_SECONDS \in Nat /\ FUNDING_RESERVATION_SECONDS \in Nat
    /\ VERIFICATION_GRACE_SECONDS \in Nat /\ ARBITER_GRACE_SECONDS \in Nat
    /\ MaxDeadline \in Nat /\ PENDING_ATTEMPT_RECOVERY_DELAY \in Nat
    /\ APPEAL_WINDOW_SECONDS \in Nat /\ ORPHAN_DELAY \in Nat
    /\ APPEAL_WINDOW_SECONDS <= ORPHAN_DELAY

VARIABLES
    config, bounties, reservations, attempts, reputation,
    attempts_settled_by_ai_consensus, contested,            \* GenLayer
    now, roles, baseBounties, pendingAttempts, baseAttempts, claimable,
    consumedDecisions, usdc, paidReward, paidBond, paidAppeal,  \* Base
    receipts,       \* successful funding transactions of reservations and appeals
    issued,         \* appeal funding authorizations not expired yet
    handler,        \* what each confirmation request is about to do
    sweep           \* what relayBaseOnce is about to do

glVars == <<config, bounties, reservations, attempts, reputation,
            attempts_settled_by_ai_consensus, contested>>
baseVars == <<now, roles, baseBounties, pendingAttempts, baseAttempts, claimable,
              consumedDecisions, usdc, paidReward, paidBond, paidAppeal>>
vars == <<glVars, baseVars, receipts, issued, handler, sweep>>

GenLayer == INSTANCE Adjudication WITH Owner <- Attestor, Pause <- {}

Base == INSTANCE Escrow WITH
          bounties <- baseBounties, attempts <- baseAttempts,
          Appellant <- Creator \cup Challenger, Claimer <- {}, StateHash <- {},
          OwnerKey <- RelayerKey, PayoutBps <- {},
          BPS <- BPS_DENOMINATOR, MaxFeeBps <- MAX_FEE_BPS, AuthTTL <- 0

-----------------------------------------------------------------------------
(* States. *)

Idle == [pc |-> "idle"]

Receipt ==
    [kind : {"reservation"}, b : BountyId, slot : ReservationId,
     payer : Account, hash : TxHash]
    \cup
    [kind : {"appeal"}, b : BountyId, slot : AttemptIndex, payer : Account, hash : TxHash]

Init ==
    /\ GenLayer!Init
    /\ Base!Init
    /\ receipts = {}
    /\ issued = {}
    /\ handler = [q \in Handler |-> Idle]
    /\ sweep = Idle

-----------------------------------------------------------------------------
(* The parties' transactions on Base, with the relayer's authorization.    *)

SpentHashes == {receipt.hash : receipt \in receipts}

\* The hash of the next funding transaction.
FreshHash == CHOOSE h \in TxHash : h \notin SpentHashes

MinedReceipt(kind, b, slot, payer) ==
    /\ TxHash \ SpentHashes # {}
    /\ receipts' = receipts \cup
         {[kind |-> kind, b |-> b, slot |-> slot, payer |-> payer, hash |-> FreshHash]}

\* createBountyFundingAuthorization and fundBounty: the terms GenLayer fixed.
FundBounty(b) ==
    /\ bounties[b].status # "NONE"
    /\ Base!FundBounty(bounties[b].creator, roles.decisionSigner, b,
                       bounties[b].reward_amount, bounties[b].required_bond,
                       bounties[b].platform_fee_bps, now)
    /\ UNCHANGED <<glVars, receipts, issued, handler, sweep>>

\* createAttemptFundingAuthorization and fundAttempt.  The authorization expires
\* with the reservation, which nothing but its funding changes before.
FundAttempt(b, r) ==
    /\ reservations[r].status = "PENDING"
    /\ reservations[r].bounty_id = b
    /\ ~GenLayer!IsOver(reservations[r].funding_deadline)
    /\ Base!FundAttempt(reservations[r].challenger, roles.decisionSigner, b, r, now)
    /\ MinedReceipt("reservation", b, r, reservations[r].challenger)
    /\ UNCHANGED <<glVars, issued, handler, sweep>>

\* createAppealFundingAuthorization
AuthorizeAppeal(b, i) ==
    /\ attempts[b][i].status = "APPEAL_PENDING_FUNDING"
    /\ attempts[b][i].appeal_bond_deposited = baseBounties[b].requiredBond
    /\ Base!AppealFundable(b, i)
    /\ issued' = issued \cup {<<b, i, attempts[b][i].appealed_by>>}
    /\ UNCHANGED <<glVars, baseVars, receipts, handler, sweep>>

FundAppeal(b, i, payer) ==
    /\ <<b, i, payer>> \in issued
    /\ Base!FundAppeal(payer, roles.decisionSigner, b, i, now)
    /\ MinedReceipt("appeal", b, i, payer)
    /\ UNCHANGED <<glVars, issued, handler, sweep>>

\* Mutant: a deposit is given back while the appeal is only waiting for it.
AbandonedWhileWaiting(b, i) ==
    LET a == attempts[b][i] IN
    /\ a.appealed_by = baseAttempts[b][i].appealPayer
    /\ GenLayer!IsOver(a.appeal_funding_deadline)

\* assertBoundAppealRecoveryEligible
Abandoned(b, i) ==
    LET a == attempts[b][i] IN
    /\ a.appealed_by = baseAttempts[b][i].appealPayer
    /\ a.appeal_base_funding_tx_hash # NoHash
    /\ a.appeal_base_funding_tx_hash = baseAttempts[b][i].appealFundingTxHash
    /\ GenLayer!IsOver(a.appeal_funding_deadline)
    /\ a.appeal_bond_deposited = 0
    /\ a.appeal_bond_recipient = NoOne
    /\ a.status \notin {"APPEAL_PENDING_FUNDING", "APPEAL_FUNDED_PENDING_BINDING", "APPEALED"}

\* createAppealRecoveryAuthorization for a bound deposit, and its use within minutes.
RecoverAbandonedBoundAppeal(sender, b, i) ==
    /\ baseBounties[b].registered
    /\ Abandoned(b, i)
    /\ Base!RecoverAbandonedBoundAppeal(sender, roles.decisionSigner, b, i)

\* The recoveries that give a deposit back to whoever made it.
Recover ==
    /\ \E b \in BountyId, sender \in Account :
         \/ Base!RecoverOrphanBounty(sender, b)
         \/ \E r \in ReservationId : Base!RecoverPendingAttempt(sender, b, r)
         \/ \E i \in AttemptIndex :
              \/ Base!RecoverUnactivatedAppeal(sender, b, i)
              \/ RecoverAbandonedBoundAppeal(sender, b, i)
    /\ UNCHANGED <<glVars, receipts, issued, handler, sweep>>

-----------------------------------------------------------------------------
(* confirmAttemptFunding and confirmAppealFunding.  A check that fails     *)
(* throws: it is Fails(q), which is always possible.                       *)

Goto(q, pc, seen) == handler' = [handler EXCEPT ![q].pc = pc, ![q].seen = seen]
Finish(q) == handler' = [handler EXCEPT ![q] = Idle]

\* Anybody may ask, as often as they like, with any successful transaction.
Confirm(q, receipt) ==
    /\ handler[q] = Idle
    /\ handler' = [handler EXCEPT ![q] =
                      [pc |-> "received", receipt |-> receipt, seen |-> "NONE"]]
    /\ UNCHANGED <<glVars, baseVars, receipts, issued, sweep>>

Fails(q) ==
    /\ handler[q] # Idle
    /\ Finish(q)
    /\ UNCHANGED <<glVars, baseVars, receipts, issued, sweep>>

Running(q, kind, pc) == handler[q] # Idle /\ handler[q].receipt.kind = kind /\ handler[q].pc = pc

\* Mutant: any reservation that is not pending any more counts as activated.
ActivatedByAnyone(receipt) == reservations[receipt.slot].status # "PENDING"

\* GenLayer activated the reservation for this transaction.
ActivatedBy(receipt) ==
    /\ reservations[receipt.slot].status = "ACTIVATED"
    /\ reservations[receipt.slot].base_funding_tx_hash = receipt.hash

ReadReservation(q) ==
    LET receipt == handler[q].receipt IN
    /\ Running(q, "reservation", "received")
    /\ reservations[receipt.slot].bounty_id = receipt.b
    /\ reservations[receipt.slot].challenger = receipt.payer
    /\ Goto(q, "pending", reservations[receipt.slot].status)
    /\ UNCHANGED <<glVars, baseVars, receipts, issued, sweep>>

ReadPending(q) ==
    LET receipt == handler[q].receipt
        pending == pendingAttempts[receipt.b][receipt.slot]
    IN
    /\ Running(q, "reservation", "pending")
    /\ pending.challenger = receipt.payer
    /\ pending.recovered => handler[q].seen = "ACTIVATED"
    /\ \/ handler[q].seen = "PENDING" /\ Goto(q, "attest", "PENDING")
       \/ handler[q].seen # "PENDING" /\ ActivatedBy(receipt) /\ Goto(q, "position", "ACTIVATED")
    /\ UNCHANGED <<glVars, baseVars, receipts, issued, sweep>>

\* Once the attestation has succeeded, its reservation is activated for good.
AttestAttemptFunding(q) ==
    LET receipt == handler[q].receipt IN
    /\ Running(q, "reservation", "attest")
    /\ GenLayer!ConfirmAttemptFunding(config.funding_attestor, receipt.b, receipt.slot, receipt.hash)
    /\ Goto(q, "position", "ACTIVATED")
    /\ UNCHANGED <<baseVars, receipts, issued, sweep>>

ActivatedIndex(receipt) == reservations[receipt.slot].activated_attempt_index

ReadAttemptPosition(q) ==
    LET receipt == handler[q].receipt IN
    /\ Running(q, "reservation", "position")
    /\ IF baseAttempts[receipt.b][ActivatedIndex(receipt)].challenger = NoOne
       THEN Goto(q, "bind", "ACTIVATED")
       ELSE Finish(q)
    /\ UNCHANGED <<glVars, baseVars, receipts, issued, sweep>>

BindAttempt(q) ==
    LET receipt == handler[q].receipt IN
    /\ Running(q, "reservation", "bind")
    /\ pendingAttempts[receipt.b][receipt.slot].challenger = receipt.payer
    /\ Base!BindAttempt(roles.relayer, roles.decisionSigner, receipt.b, receipt.slot,
                        ActivatedIndex(receipt))
    /\ Finish(q)
    /\ UNCHANGED <<glVars, receipts, issued, sweep>>

\* GenLayer recorded this very deposit for the appeal.
RecordedFor(a, receipt) ==
    /\ a.status \in {"APPEAL_FUNDED_PENDING_BINDING", "APPEALED"}
    /\ a.appeal_base_funding_tx_hash = receipt.hash

ReadAppeal(q) ==
    LET receipt == handler[q].receipt
        a == attempts[receipt.b][receipt.slot]
    IN
    /\ \/ /\ Running(q, "appeal", "received")
          /\ a.status = "APPEAL_PENDING_FUNDING"
          /\ Goto(q, "attest", a.status)
       \/ /\ Running(q, "appeal", "received") \/ Running(q, "appeal", "attested")
          /\ RecordedFor(a, receipt)
          /\ Goto(q, "position", a.status)
    /\ UNCHANGED <<glVars, baseVars, receipts, issued, sweep>>

AttestAppealFunding(q) ==
    LET receipt == handler[q].receipt IN
    /\ Running(q, "appeal", "attest")
    /\ GenLayer!ConfirmAppealFunding(config.funding_attestor, receipt.b, receipt.slot, receipt.hash)
    /\ Goto(q, "attested", handler[q].seen)
    /\ UNCHANGED <<baseVars, receipts, issued, sweep>>

\* After the binding, or without one: activate the appeal unless it was seen active.
Activate(q) == IF handler[q].seen = "APPEALED" THEN Finish(q) ELSE Goto(q, "activate", handler[q].seen)

ReadAppealPosition(q) ==
    LET receipt == handler[q].receipt IN
    /\ Running(q, "appeal", "position")
    /\ IF baseAttempts[receipt.b][receipt.slot].appealBound
       THEN Activate(q)
       ELSE Goto(q, "bind", handler[q].seen)
    /\ UNCHANGED <<glVars, baseVars, receipts, issued, sweep>>

BindAppeal(q) ==
    LET receipt == handler[q].receipt IN
    /\ Running(q, "appeal", "bind")
    /\ baseAttempts[receipt.b][receipt.slot].appealPayer = receipt.payer
    /\ Base!BindAppeal(roles.relayer, roles.decisionSigner, receipt.b, receipt.slot, receipt.hash)
    /\ Activate(q)
    /\ UNCHANGED <<glVars, receipts, issued, sweep>>

AttestAppealBinding(q) ==
    LET receipt == handler[q].receipt IN
    /\ Running(q, "appeal", "activate")
    /\ GenLayer!ConfirmAppealBinding(config.funding_attestor, receipt.b, receipt.slot)
    /\ Finish(q)
    /\ UNCHANGED <<baseVars, receipts, issued, sweep>>

Handle(q) ==
    \/ ReadReservation(q) \/ ReadPending(q) \/ AttestAttemptFunding(q)
    \/ ReadAttemptPosition(q) \/ BindAttempt(q)
    \/ ReadAppeal(q) \/ AttestAppealFunding(q) \/ ReadAppealPosition(q)
    \/ BindAppeal(q) \/ AttestAppealBinding(q)

-----------------------------------------------------------------------------
(* relayBaseOnce.  The cache lists a bounty once GenLayer has it, and the  *)
(* attempts the indexer has seen: with fewer of them the sweep ends sooner *)
(* (SweepFails).                                                           *)

\* The fields of the finalized attempt the sweep goes on to use.
Fresh(a) ==
    [status |-> a.status, challenger |-> a.challenger, last_payout_bps |-> a.last_payout_bps,
     appealed_by |-> a.appealed_by, appeal_bond_recipient |-> a.appeal_bond_recipient,
     appeal_base_funding_tx_hash |-> a.appeal_base_funding_tx_hash]

SweepBounty(b) ==
    /\ sweep = Idle
    /\ bounties[b].status # "NONE"
    /\ sweep' = [pc |-> "base", b |-> b, live |-> bounties[b].status]
    /\ UNCHANGED <<glVars, baseVars, receipts, issued, handler>>

At(pc) == sweep.pc = pc
Attempt(i, nonce) == [pc |-> "attempt", b |-> sweep.b, i |-> i, nonce |-> nonce]
NextAttempt == sweep' = Attempt(sweep.i + 1, sweep.nonce)

TermsMatch(b) ==
    /\ baseBounties[b].creator = bounties[b].creator
    /\ baseBounties[b].reward = bounties[b].reward_amount
    /\ baseBounties[b].requiredBond = bounties[b].required_bond
    /\ baseBounties[b].feeBps = bounties[b].platform_fee_bps

\* Mutant: a settled bounty is refunded as well.
REFUNDABLE_ANY == {"CANCELLED", "EXPIRED_REFUNDED", "SETTLED"}

REFUNDABLE == {"CANCELLED", "EXPIRED_REFUNDED"}

SweepReadBounty ==
    LET base == baseBounties[sweep.b] IN
    /\ At("base")
    /\ sweep' =
         IF base.creator = NoOne \/ (~base.registered /\ ~TermsMatch(sweep.b)) THEN Idle
         ELSE IF ~base.registered THEN [sweep EXCEPT !.pc = "register"]
         ELSE IF ~base.rewardSettled /\ sweep.live \in REFUNDABLE
         THEN [pc |-> "refund", b |-> sweep.b, nonce |-> base.decisionNonce]
         ELSE Attempt(0, base.decisionNonce)
    /\ UNCHANGED <<glVars, baseVars, receipts, issued, handler>>

SweepRegister ==
    /\ At("register")
    /\ TermsMatch(sweep.b)
    /\ Base!RegisterBounty(roles.relayer, roles.decisionSigner, sweep.b)
    /\ sweep' = [sweep EXCEPT !.pc = "base"]
    /\ UNCHANGED <<glVars, receipts, issued, handler>>

\* The nonce is not read again before the attempts.
SweepRefund ==
    /\ At("refund")
    /\ Base!ExecuteBountyRefund(roles.relayer, roles.decisionSigner, sweep.b,
                                bounties[sweep.b].creator, <<sweep.b, -1>>, sweep.nonce + 1)
    /\ sweep' = Attempt(0, sweep.nonce)
    /\ UNCHANGED <<glVars, receipts, issued, handler>>

SweepReadAttempt ==
    /\ At("attempt")
    /\ IF sweep.i < bounties[sweep.b].attempt_count
       THEN sweep' = [pc |-> "position", b |-> sweep.b, i |-> sweep.i, nonce |-> sweep.nonce,
                      fresh |-> Fresh(attempts[sweep.b][sweep.i])]
       ELSE sweep' = Idle
    /\ UNCHANGED <<glVars, baseVars, receipts, issued, handler>>

Outcome(status) ==
    CASE status = "WON" -> "Winner"
      [] status \in {"LOST_RACE", "CANCELLED", "INSUFFICIENT_EVIDENCE_FINAL"} -> "BondRefund"
      [] status = "BOND_FORFEITED" -> "BondForfeit"
      [] OTHER -> "none"

\* planAppealSettlement: when it lets the settlement go on, and to whom it gives the
\* appeal deposit.  Any other combination with a recipient throws.
SettlementReady(b, fresh, base) ==
    IF fresh.appeal_bond_recipient = NoOne THEN base.appealBond = 0
    ELSE IF baseBounties[b].requiredBond = 0 THEN base.appealBond = 0
    ELSE base.appealBond = baseBounties[b].requiredBond /\ base.appealBound

SettlementDeferred(fresh, base) == fresh.appeal_bond_recipient = NoOne /\ base.appealBond # 0

AppealRecipient(b, fresh) ==
    IF baseBounties[b].requiredBond = 0 THEN NoOne ELSE fresh.appeal_bond_recipient

SweepReadPosition ==
    LET base == baseAttempts[sweep.b][sweep.i]
        fresh == sweep.fresh
        unbound == base.appealBond > 0 /\ ~base.appealBound
        activatable == base.appealBound /\ fresh.status = "APPEAL_FUNDED_PENDING_BINDING"
        skip == base.challenger = NoOne \/ base.settled \/ base.challenger # fresh.challenger
    IN
    /\ At("position")
    /\ \/ skip /\ NextAttempt
       \/ /\ ~skip /\ unbound /\ fresh.appeal_base_funding_tx_hash # NoHash
          /\ sweep' = [sweep EXCEPT !.pc = "bind"]
       \/ /\ ~skip /\ (unbound => fresh.appeal_base_funding_tx_hash = NoHash)
          /\ \/ /\ activatable
                /\ sweep' = [sweep EXCEPT !.pc = "activate"]
             \/ /\ ~activatable
                /\ Outcome(fresh.status) = "none" \/ SettlementDeferred(fresh, base)
                /\ NextAttempt
             \/ /\ Outcome(fresh.status) # "none"
                /\ SettlementReady(sweep.b, fresh, base)
                /\ sweep' = [sweep EXCEPT !.pc = "execute"]
    /\ UNCHANGED <<glVars, baseVars, receipts, issued, handler>>

SweepBindAppeal ==
    LET fresh == sweep.fresh IN
    /\ At("bind")
    /\ baseAttempts[sweep.b][sweep.i].appealPayer = fresh.appealed_by
    /\ Base!BindAppeal(roles.relayer, roles.decisionSigner, sweep.b, sweep.i,
                       fresh.appeal_base_funding_tx_hash)
    /\ sweep' = [sweep EXCEPT !.pc = "position"]
    /\ UNCHANGED <<glVars, receipts, issued, handler>>

SweepAttestBinding ==
    /\ At("activate")
    /\ GenLayer!ConfirmAppealBinding(config.funding_attestor, sweep.b, sweep.i)
    /\ NextAttempt
    /\ UNCHANGED <<baseVars, receipts, issued, handler>>

\* Mutant: a partial win is paid in full.
PayoutInFull(fresh) == BPS_DENOMINATOR

Payout(fresh) == IF fresh.last_payout_bps = 0 THEN BPS_DENOMINATOR ELSE fresh.last_payout_bps

SweepExecute ==
    LET b == sweep.b  i == sweep.i  fresh == sweep.fresh
        recipient == AppealRecipient(b, fresh)
    IN
    /\ At("execute")
    /\ \/ /\ Outcome(fresh.status) = "Winner"
          /\ Base!ExecuteWinner(roles.relayer, roles.decisionSigner, b, i, Payout(fresh),
                                fresh.challenger, recipient, <<b, i>>, sweep.nonce + 1)
       \/ /\ Outcome(fresh.status) \in {"BondRefund", "BondForfeit"}
          /\ Base!ExecuteBond(roles.relayer, roles.decisionSigner, b, i, Outcome(fresh.status),
                 IF Outcome(fresh.status) = "BondRefund" THEN fresh.challenger
                                                         ELSE bounties[b].creator,
                 recipient, <<b, i>>, sweep.nonce + 1)
    /\ sweep' = [pc |-> "refresh", b |-> b, i |-> i]
    /\ UNCHANGED <<glVars, receipts, issued, handler>>

SweepRefresh ==
    /\ At("refresh")
    /\ sweep' = Attempt(sweep.i + 1, baseBounties[sweep.b].decisionNonce)
    /\ UNCHANGED <<glVars, baseVars, receipts, issued, handler>>

\* A throw ends the sweep of this bounty; so does a crash, and an outage.
SweepFails ==
    /\ sweep # Idle
    /\ sweep' = Idle
    /\ UNCHANGED <<glVars, baseVars, receipts, issued, handler>>

SweepStep ==
    \/ SweepReadBounty \/ SweepRegister \/ SweepRefund \/ SweepReadAttempt
    \/ SweepReadPosition \/ SweepBindAppeal \/ SweepAttestBinding
    \/ SweepExecute \/ SweepRefresh

-----------------------------------------------------------------------------
Tick ==
    /\ GenLayer!Tick
    /\ Base!Tick
    /\ issued' = {}
    /\ UNCHANGED <<receipts, handler, sweep>>

Next ==
    \/ Tick
    \/ GenLayer!Participation /\ UNCHANGED <<baseVars, receipts, issued, handler, sweep>>
    \/ \E b \in BountyId :
         \/ FundBounty(b)
         \/ \E r \in ReservationId : FundAttempt(b, r)
         \/ \E i \in AttemptIndex :
              \/ AuthorizeAppeal(b, i)
              \/ \E payer \in Account : FundAppeal(b, i, payer)
    \/ Recover
    \/ \E q \in Handler :
         \/ \E receipt \in receipts : Confirm(q, receipt)
         \/ Handle(q)
         \/ Fails(q)
    \/ \E b \in BountyId : SweepBounty(b)
    \/ SweepStep
    \/ SweepFails

Spec == Init /\ [][Next]_vars

-----------------------------------------------------------------------------
(* Safety. *)

\* The Base position of an attempt is the money of the reservation GenLayer made
\* that attempt of, whichever of handler and handler, recovery and binding was first.
BindingMatchesReservation ==
    \A b \in BountyId, i \in AttemptIndex :
        LET base == baseAttempts[b][i]
            reservation == reservations[base.reservationId]
        IN  base.challenger # NoOne =>
              /\ reservation.status = "ACTIVATED"
              /\ reservation.bounty_id = b
              /\ reservation.activated_attempt_index = i
              /\ attempts[b][i].challenger = base.challenger

\* An appeal that GenLayer hears, or has given the bond of to somebody, has that
\* bond bound on Base until it is paid: not recovered, not another sum, not in flight.
ActiveAppealIsBacked ==
    \A b \in BountyId, i \in AttemptIndex :
        LET a == attempts[b][i]
            base == baseAttempts[b][i]
        IN  /\ a.bond_amount > 0
            /\ a.status = "APPEALED" \/ a.appeal_bond_recipient # NoOne
            => base.settled \/ (base.appealBond = a.bond_amount /\ base.appealBound)

\* Base settles a reward only after GenLayer closed the bounty, and in its favour:
\* by the winning attempt if there is one, by the refund if there is none.
RewardFollowsBounty ==
    \A b \in BountyId :
        baseBounties[b].rewardSettled =>
            IF bounties[b].status = "SETTLED"
            THEN baseAttempts[b][bounties[b].winning_attempt_index].settled
            ELSE bounties[b].status \in {"CANCELLED", "EXPIRED_REFUNDED"}

\* What GenLayer's record of attempt i gives x out of the money held on Base.
DecidedShare(b, i, x) ==
    LET a == attempts[b][i]
        base == baseAttempts[b][i]
        reward == bounties[b].reward_amount
        bps == a.last_payout_bps
        fee == bounties[b].platform_fee_bps
        ToParty(y, amount) == IF x = y THEN amount ELSE 0
    IN  ToParty(IF a.status = "BOND_FORFEITED" THEN bounties[b].creator ELSE a.challenger,
                base.bond)
        + ToParty(a.appeal_bond_recipient, base.appealBond)
        + (IF a.status # "WON" THEN 0
           ELSE ToParty(a.challenger, GenLayer!ChallengerNet(reward, bps, fee))
                + ToParty(roles.treasury, GenLayer!PlatformFee(reward, bps, fee))
                + ToParty(bounties[b].creator, GenLayer!ClientRefund(reward, bps)))

\* A settlement on Base credits every account with exactly what the final record of
\* the attempt on GenLayer gives it, however stale what the sweep read was: the two
\* contracts, each with arithmetic of its own, agree.
PaysWhatWasDecided ==
    [][\A b \in BountyId, i \in AttemptIndex :
         baseAttempts'[b][i].settled /\ ~baseAttempts[b][i].settled =>
            /\ attempts[b][i].status \in GenLayer!TERMINAL_STATES
            /\ \A x \in Account : claimable'[x] - claimable[x] = DecidedShare(b, i, x)]_vars

\* The money behind an active appeal is its appellant's own: funding is authorized
\* only for the pending appellant.  (docs/CROSS_CHAIN_SECURITY.md)
AppealPaidByAppellant ==
    \A b \in BountyId, i \in AttemptIndex :
        /\ attempts[b][i].status = "APPEALED"
        /\ baseAttempts[b][i].appealBond > 0
        => baseAttempts[b][i].appealPayer = attempts[b][i].appealed_by

\* A day after its authorization expired, an unbound appeal deposit can be recovered
\* by its payer.  (docs/CROSS_CHAIN_SECURITY.md)
UnboundDepositsRecover ==
    \A b \in BountyId, i \in AttemptIndex :
        LET base == baseAttempts[b][i] IN
        /\ base.appealBond > 0 /\ ~base.appealBound /\ ~base.settled
        /\ now >= base.appealAuthorizationExpiry + PENDING_ATTEMPT_RECOVERY_DELAY
        => Base!AppealRecoverable(base.appealPayer, b, i, FALSE, PENDING_ATTEMPT_RECOVERY_DELAY)

=============================================================================
