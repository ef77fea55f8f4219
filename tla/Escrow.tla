------------------------------- MODULE Escrow -------------------------------
(***************************************************************************)
(* The Base payment layer: contracts/base/ProofBountyEscrow.sol.           *)
(*                                                                         *)
(* One action per external function of the contract.  An action whose      *)
(* guard is false is a call that reverts, so it is no step at all.         *)
(*                                                                         *)
(* Abstractions.  An EIP-712 signature is the address that produced it;    *)
(* the fields it covers are the parameters of the action, so the decision  *)
(* signer may authorize any instruction whatever: everything stated about  *)
(* this module holds however wrong or late those instructions are.  A      *)
(* validity window that the contract does not store (validAfter,           *)
(* validBefore) then restricts nothing and is left out.  There is one      *)
(* GenLayer contract address.  USDC is its balance of the escrow; every    *)
(* wallet can pay, a transfer that fails is a reverted call.               *)
(***************************************************************************)
EXTENDS Integers, FiniteSets

CONSTANTS
    Account,        \* addresses that own money: creators, challengers, treasuries
    NoOne,          \* address(0)
    Creator,        \* bound: the accounts that fund bounties,
    Challenger,     \*   reservations
    Appellant,      \*   and appeals,
    Claimer,        \*   and those that withdraw their claims
    BountyId,       \* bounty identifiers
    ReservationId,  \* GenLayer reservation identifiers
    NoReservation,  \* the default 0 of an unbound attempt's reservationId
    AttemptIndex,   \* GenLayer attempt indices
    StateHash,      \* digests of finalized adjudication states
    TxHash,         \* hashes of Base funding transactions
    NoHash,         \* bytes32(0)
    OwnerKey,       \* addresses ownership may be given to
    RelayerKey,     \* addresses the relayer role may be given to
    SignerKey,      \* addresses the decision-signer role may be given to
    Treasury,       \* addresses the treasury role may be given to
    Reward,         \* rewards a creator may fund
    Bond,           \* bonds a bounty may require
    FeeBps,         \* platform fees a bounty may carry
    PayoutBps,      \* shares of the reward a decision may name
    BPS,            \* 10000 in the code
    MaxFeeBps,      \* 1000 in the code
    AuthTTL,        \* longest validity of a funding authorization
    PENDING_ATTEMPT_RECOVERY_DELAY,
    ORPHAN_DELAY,
    MaxTime         \* bound: the clock stops here

ASSUME AddressAssumption ==
    /\ NoOne \notin Account
    /\ Treasury \subseteq Account
    /\ Creator \cup Challenger \cup Appellant \cup Claimer \subseteq Account
    /\ NoHash \notin TxHash
    /\ NoReservation \notin ReservationId

ASSUME AmountAssumption ==
    /\ Reward \subseteq Nat
    /\ Bond \subseteq Nat
    /\ FeeBps \subseteq Nat
    /\ PayoutBps \subseteq Nat
    /\ BPS \in Nat \ {0}
    /\ MaxFeeBps \in Nat /\ MaxFeeBps <= BPS

ASSUME TimeAssumption ==
    /\ AuthTTL \in Nat
    /\ PENDING_ATTEMPT_RECOVERY_DELAY \in Nat
    /\ ORPHAN_DELAY \in Nat
    /\ MaxTime \in Nat

VARIABLES
    now,                \* block.timestamp
    roles,              \* owner, relayer, decisionSigner, treasury
    bounties,
    pendingAttempts,
    attempts,
    claimable,
    consumedDecisions,
    usdc,               \* usdc.balanceOf(escrow)
    paidReward,         \* history: what each deposit has credited so far,
    paidBond,           \*   by bounty, reservation
    paidAppeal          \*   and attempt

paidVars == <<paidReward, paidBond, paidAppeal>>
vars == <<now, roles, bounties, pendingAttempts, attempts, claimable,
          consumedDecisions, usdc, paidReward, paidBond, paidAppeal>>

-----------------------------------------------------------------------------
EmptyBounty ==
    [creator |-> NoOne, reward |-> 0, requiredBond |-> 0, feeBps |-> 0,
     fundedAt |-> 0, registered |-> FALSE, rewardSettled |-> FALSE,
     decisionNonce |-> 0]

EmptyPendingAttempt ==
    [challenger |-> NoOne, bond |-> 0, authorizationExpiry |-> 0,
     bound |-> FALSE, recovered |-> FALSE]

EmptyAttempt ==
    [challenger |-> NoOne, bond |-> 0, appealBond |-> 0, appealPayer |-> NoOne,
     settled |-> FALSE, reservationId |-> NoReservation,
     appealAuthorizationExpiry |-> 0, appealBound |-> FALSE,
     appealRecovered |-> FALSE, appealFundingTxHash |-> NoHash]

Init ==
    /\ now = 0
    /\ roles \in [owner : OwnerKey, relayer : RelayerKey,
                  decisionSigner : SignerKey, treasury : Treasury]
    /\ bounties = [b \in BountyId |-> EmptyBounty]
    /\ pendingAttempts = [b \in BountyId |-> [r \in ReservationId |-> EmptyPendingAttempt]]
    /\ attempts = [b \in BountyId |-> [i \in AttemptIndex |-> EmptyAttempt]]
    /\ claimable = [x \in Account |-> 0]
    /\ consumedDecisions = {}
    /\ usdc = 0
    /\ paidReward = [b \in BountyId |-> 0]
    /\ paidBond = [b \in BountyId |-> [r \in ReservationId |-> 0]]
    /\ paidAppeal = [b \in BountyId |-> [i \in AttemptIndex |-> 0]]

-----------------------------------------------------------------------------
(* Guards and accounting shared by the functions. *)

IsAuthorized(signer) == signer = roles.decisionSigner

OnlyRelayer(sender) == sender = roles.relayer

OnlyOwner(sender) == sender = roles.owner

\* What a payment of amount to "to" adds to the claim of x.
Due(x, to, amount) == IF x = to THEN amount ELSE 0

\* Mutant: the share is taken without dividing by BPS.
GrossUndivided(reward, payoutBps) == reward * payoutBps

Gross(reward, payoutBps) == (reward * payoutBps) \div BPS

Fee(gross, feeBps) == (gross * feeBps) \div BPS


-----------------------------------------------------------------------------
(* Funding and registration of a bounty. *)

FundBounty(sender, signer, b, reward, bond, feeBps, expiry) ==
    /\ reward > 0 /\ feeBps <= MaxFeeBps
    /\ now <= expiry
    /\ bounties[b].creator = NoOne
    /\ IsAuthorized(signer)
    /\ usdc' = usdc + reward
    /\ bounties' = [bounties EXCEPT ![b] =
                       [@ EXCEPT !.creator = sender, !.reward = reward,
                                 !.requiredBond = bond, !.feeBps = feeBps,
                                 !.fundedAt = now]]
    /\ UNCHANGED <<now, roles, pendingAttempts, attempts, claimable, consumedDecisions, paidVars>>

RegisterBounty(sender, signer, b) ==
    /\ OnlyRelayer(sender)
    /\ bounties[b].creator # NoOne
    /\ ~bounties[b].registered
    /\ ~bounties[b].rewardSettled
    /\ IsAuthorized(signer)
    /\ bounties' = [bounties EXCEPT ![b].registered = TRUE]
    /\ UNCHANGED <<now, roles, pendingAttempts, attempts, claimable, consumedDecisions, usdc, paidVars>>

\* Mutant: a registered bounty can be recovered as an orphan.
OrphanRecoverableRegistered(sender, b) ==
    /\ sender = bounties[b].creator
    /\ ~bounties[b].rewardSettled
    /\ now >= bounties[b].fundedAt + ORPHAN_DELAY

\* An unregistered bounty goes back to its creator, and its slot is free again.
OrphanRecoverable(sender, b) ==
    /\ sender = bounties[b].creator
    /\ ~bounties[b].registered
    /\ ~bounties[b].rewardSettled
    /\ now >= bounties[b].fundedAt + ORPHAN_DELAY

RecoverOrphanBounty(sender, b) ==
    /\ OrphanRecoverable(sender, b)
    /\ bounties' = [bounties EXCEPT ![b] = EmptyBounty]
    /\ claimable' = [claimable EXCEPT ![sender] = @ + bounties[b].reward]
    /\ paidReward' = [paidReward EXCEPT ![b] = 0]
    /\ UNCHANGED <<now, roles, pendingAttempts, attempts, consumedDecisions, usdc, paidBond, paidAppeal>>

-----------------------------------------------------------------------------
(* Attempt bonds: funded against a reservation, bound later to an attempt. *)

AttemptsOpen(b) == bounties[b].registered /\ ~bounties[b].rewardSettled

FundAttempt(sender, signer, b, r, expiry) ==
    /\ AttemptsOpen(b)
    /\ now <= expiry
    /\ pendingAttempts[b][r].challenger = NoOne
    /\ IsAuthorized(signer)
    /\ usdc' = usdc + bounties[b].requiredBond
    /\ pendingAttempts' = [pendingAttempts EXCEPT ![b][r] =
                              [@ EXCEPT !.challenger = sender,
                                        !.bond = bounties[b].requiredBond,
                                        !.authorizationExpiry = expiry]]
    /\ UNCHANGED <<now, roles, bounties, attempts, claimable, consumedDecisions, paidVars>>

\* Mutant: a reservation can be bound again.
ReservationBindableAgain(b, r) == pendingAttempts[b][r].challenger # NoOne

ReservationBindable(b, r) ==
    /\ pendingAttempts[b][r].challenger # NoOne
    /\ ~pendingAttempts[b][r].bound

\* Mutant: binding copies the required bond, recovered or not.
BoundBondRequired(b, r) == bounties[b].requiredBond

\* The bond that moves with the reservation: nothing once it was recovered.
BoundBond(b, r) == pendingAttempts[b][r].bond

BindAttempt(sender, signer, b, r, i) ==
    /\ OnlyRelayer(sender)
    /\ AttemptsOpen(b)
    /\ ReservationBindable(b, r)
    /\ attempts[b][i].challenger = NoOne
    /\ IsAuthorized(signer)
    /\ pendingAttempts' = [pendingAttempts EXCEPT ![b][r].bound = TRUE]
    /\ attempts' = [attempts EXCEPT ![b][i] =
                       [@ EXCEPT !.challenger = pendingAttempts[b][r].challenger,
                                 !.bond = BoundBond(b, r),
                                 !.reservationId = r]]
    /\ UNCHANGED <<now, roles, bounties, claimable, consumedDecisions, usdc, paidVars>>

\* Mutant: a bound reservation can be recovered.
PendingRecoverableBound(sender, b, r) ==
    /\ sender = pendingAttempts[b][r].challenger
    /\ ~pendingAttempts[b][r].recovered
    /\ now >= pendingAttempts[b][r].authorizationExpiry + PENDING_ATTEMPT_RECOVERY_DELAY

PendingRecoverable(sender, b, r) ==
    /\ sender = pendingAttempts[b][r].challenger
    /\ ~pendingAttempts[b][r].bound
    /\ ~pendingAttempts[b][r].recovered
    /\ now >= pendingAttempts[b][r].authorizationExpiry + PENDING_ATTEMPT_RECOVERY_DELAY

RecoverPendingAttempt(sender, b, r) ==
    LET amount == pendingAttempts[b][r].bond IN
    /\ PendingRecoverable(sender, b, r)
    /\ pendingAttempts' = [pendingAttempts EXCEPT ![b][r] =
                              [@ EXCEPT !.recovered = TRUE, !.bond = 0]]
    /\ claimable' = [claimable EXCEPT ![sender] = @ + amount]
    /\ paidBond' = [paidBond EXCEPT ![b][r] = @ + amount]
    /\ UNCHANGED <<now, roles, bounties, attempts, consumedDecisions, usdc, paidReward, paidAppeal>>

-----------------------------------------------------------------------------
(* Appeal deposits: one slot per attempt. *)

\* Mutant: an appeal deposit enters a settled attempt.
AppealFundableSettled(b, i) ==
    /\ bounties[b].registered
    /\ attempts[b][i].challenger # NoOne
    /\ attempts[b][i].appealBond = 0
    /\ bounties[b].requiredBond > 0

AppealFundable(b, i) ==
    /\ bounties[b].registered
    /\ ~attempts[b][i].settled
    /\ attempts[b][i].challenger # NoOne
    /\ attempts[b][i].appealBond = 0
    /\ bounties[b].requiredBond > 0

FundAppeal(sender, signer, b, i, expiry) ==
    /\ AppealFundable(b, i)
    /\ now <= expiry
    /\ IsAuthorized(signer)
    /\ usdc' = usdc + bounties[b].requiredBond
    /\ attempts' = [attempts EXCEPT ![b][i] =
                       [@ EXCEPT !.appealBond = bounties[b].requiredBond,
                                 !.appealPayer = sender,
                                 !.appealAuthorizationExpiry = expiry]]
    /\ UNCHANGED <<now, roles, bounties, pendingAttempts, claimable, consumedDecisions, paidVars>>

AppealBindable(b, i) ==
    /\ attempts[b][i].appealBond > 0
    /\ ~attempts[b][i].appealBound
    /\ ~attempts[b][i].settled

BindAppeal(sender, signer, b, i, txHash) ==
    /\ OnlyRelayer(sender)
    /\ AppealBindable(b, i)
    /\ IsAuthorized(signer)
    /\ attempts' = [attempts EXCEPT ![b][i] =
                       [@ EXCEPT !.appealBound = TRUE, !.appealFundingTxHash = txHash]]
    /\ UNCHANGED <<now, roles, bounties, pendingAttempts, claimable, consumedDecisions, usdc, paidVars>>

\* Mutant: a deposit the settlement has paid can be recovered too.
AppealRecoverableSettled(sender, b, i, bound, delay) ==
    /\ sender = attempts[b][i].appealPayer
    /\ attempts[b][i].appealBond > 0
    /\ attempts[b][i].appealBound = bound
    /\ ~attempts[b][i].appealRecovered
    /\ now >= attempts[b][i].appealAuthorizationExpiry + delay

\* Both recoveries return the deposit to its payer, once in the life of the slot.
AppealRecoverable(sender, b, i, bound, delay) ==
    /\ sender = attempts[b][i].appealPayer
    /\ attempts[b][i].appealBond > 0
    /\ attempts[b][i].appealBound = bound
    /\ ~attempts[b][i].settled
    /\ ~attempts[b][i].appealRecovered
    /\ now >= attempts[b][i].appealAuthorizationExpiry + delay

\* Mutant: the recovered deposit overwrites the claim instead of adding to it.
ReturnAppealBondOverwriting(sender, b, i) ==
    LET amount == attempts[b][i].appealBond IN
    /\ attempts' = [attempts EXCEPT ![b][i] =
                       [@ EXCEPT !.appealBond = 0, !.appealRecovered = TRUE]]
    /\ claimable' = [claimable EXCEPT ![sender] = amount]
    /\ paidAppeal' = [paidAppeal EXCEPT ![b][i] = @ + amount]
    /\ UNCHANGED <<now, roles, bounties, pendingAttempts, consumedDecisions, usdc, paidReward, paidBond>>

ReturnAppealBond(sender, b, i) ==
    LET amount == attempts[b][i].appealBond IN
    /\ attempts' = [attempts EXCEPT ![b][i] =
                       [@ EXCEPT !.appealBond = 0, !.appealRecovered = TRUE]]
    /\ claimable' = [claimable EXCEPT ![sender] = @ + amount]
    /\ paidAppeal' = [paidAppeal EXCEPT ![b][i] = @ + amount]
    /\ UNCHANGED <<now, roles, bounties, pendingAttempts, consumedDecisions, usdc, paidReward, paidBond>>

RecoverUnactivatedAppeal(sender, b, i) ==
    /\ AppealRecoverable(sender, b, i, FALSE, PENDING_ATTEMPT_RECOVERY_DELAY)
    /\ ReturnAppealBond(sender, b, i)

RecoverAbandonedBoundAppeal(sender, signer, b, i) ==
    /\ AppealRecoverable(sender, b, i, TRUE, ORPHAN_DELAY)
    /\ IsAuthorized(signer)
    /\ ReturnAppealBond(sender, b, i)

-----------------------------------------------------------------------------
(* executeDecision, one action per outcome.                                *)

\* The checks common to the outcomes: relayer, unused state, next nonce,
\* signature, registration.
DecisionAcceptable(sender, signer, b, stateHash, nonce) ==
    /\ OnlyRelayer(sender)
    /\ stateHash \notin consumedDecisions
    /\ nonce = bounties[b].decisionNonce + 1
    /\ IsAuthorized(signer)
    /\ bounties[b].registered

\* Mutant: a bound appeal deposit may be settled to address(0).
AppealAllocatableToNoOne(b, i, appealRecipient) ==
    IF attempts[b][i].appealBond = 0
    THEN appealRecipient = NoOne
    ELSE attempts[b][i].appealBound

\* _allocateAppeal: a recipient exactly when there is a bound appeal deposit.
AppealAllocatable(b, i, appealRecipient) ==
    IF attempts[b][i].appealBond = 0
    THEN appealRecipient = NoOne
    ELSE attempts[b][i].appealBound /\ appealRecipient # NoOne

ExecuteWinner(sender, signer, b, i, payoutBps, recipient, appealRecipient, stateHash, nonce) ==
    LET a     == attempts[b][i]
        gross == Gross(bounties[b].reward, payoutBps)
        fee   == Fee(gross, bounties[b].feeBps)
    IN
    /\ DecisionAcceptable(sender, signer, b, stateHash, nonce)
    /\ payoutBps <= BPS
    /\ ~bounties[b].rewardSettled
    /\ ~a.settled
    /\ a.challenger = recipient
    /\ payoutBps > 0
    /\ AppealAllocatable(b, i, appealRecipient)
    /\ consumedDecisions' = consumedDecisions \cup {stateHash}
    /\ bounties' = [bounties EXCEPT ![b] =
                       [@ EXCEPT !.decisionNonce = nonce, !.rewardSettled = TRUE]]
    /\ attempts' = [attempts EXCEPT ![b][i].settled = TRUE]
    /\ claimable' = [x \in Account |->
                       claimable[x] + Due(x, recipient, gross - fee + a.bond)
                                    + Due(x, appealRecipient, a.appealBond)
                                    + Due(x, roles.treasury, fee)
                                    + Due(x, bounties[b].creator, bounties[b].reward - gross)]
    /\ paidReward' = [paidReward EXCEPT ![b] =
                        @ + (gross - fee) + fee + (bounties[b].reward - gross)]
    /\ paidBond' = [paidBond EXCEPT ![b][a.reservationId] = @ + a.bond]
    /\ paidAppeal' = [paidAppeal EXCEPT ![b][i] = @ + a.appealBond]
    /\ UNCHANGED <<now, roles, pendingAttempts, usdc>>

ExecuteBountyRefund(sender, signer, b, recipient, stateHash, nonce) ==
    /\ DecisionAcceptable(sender, signer, b, stateHash, nonce)
    /\ ~bounties[b].rewardSettled
    /\ recipient = bounties[b].creator
    /\ consumedDecisions' = consumedDecisions \cup {stateHash}
    /\ bounties' = [bounties EXCEPT ![b] =
                       [@ EXCEPT !.decisionNonce = nonce, !.rewardSettled = TRUE]]
    /\ claimable' = [claimable EXCEPT ![recipient] = @ + bounties[b].reward]
    /\ paidReward' = [paidReward EXCEPT ![b] = @ + bounties[b].reward]
    /\ UNCHANGED <<now, roles, pendingAttempts, attempts, usdc, paidBond, paidAppeal>>

\* BondRefund pays the challenger, BondForfeit the creator.
BondRecipient(b, i, outcome) ==
    IF outcome = "BondRefund" THEN attempts[b][i].challenger ELSE bounties[b].creator

ExecuteBond(sender, signer, b, i, outcome, recipient, appealRecipient, stateHash, nonce) ==
    LET a == attempts[b][i] IN
    /\ DecisionAcceptable(sender, signer, b, stateHash, nonce)
    /\ ~a.settled
    /\ a.challenger # NoOne
    /\ recipient = BondRecipient(b, i, outcome)
    /\ AppealAllocatable(b, i, appealRecipient)
    /\ consumedDecisions' = consumedDecisions \cup {stateHash}
    /\ bounties' = [bounties EXCEPT ![b].decisionNonce = nonce]
    /\ attempts' = [attempts EXCEPT ![b][i].settled = TRUE]
    /\ claimable' = [x \in Account |->
                       claimable[x] + Due(x, recipient, a.bond)
                                    + Due(x, appealRecipient, a.appealBond)]
    /\ paidBond' = [paidBond EXCEPT ![b][a.reservationId] = @ + a.bond]
    /\ paidAppeal' = [paidAppeal EXCEPT ![b][i] = @ + a.appealBond]
    /\ UNCHANGED <<now, roles, pendingAttempts, usdc, paidReward>>

-----------------------------------------------------------------------------
Claim(sender) ==
    /\ claimable[sender] > 0
    /\ claimable' = [claimable EXCEPT ![sender] = 0]
    /\ usdc' = usdc - claimable[sender]
    /\ UNCHANGED <<now, roles, bounties, pendingAttempts, attempts, consumedDecisions, paidVars>>

\* setRelayer, setDecisionSigner, setTreasury, transferOwnership.
SetRole(sender, role, value) ==
    /\ OnlyOwner(sender)
    /\ roles' = [roles EXCEPT ![role] = value]
    /\ UNCHANGED <<now, bounties, pendingAttempts, attempts, claimable,
                   consumedDecisions, usdc, paidVars>>

Tick ==
    /\ now < MaxTime
    /\ now' = now + 1
    /\ UNCHANGED <<roles, bounties, pendingAttempts, attempts, claimable,
                   consumedDecisions, usdc, paidVars>>

\* Expiries a funding authorization may carry when it is used in time.
Expiry == now .. (now + AuthTTL)

Next ==
    \/ Tick
    \/ \E sender \in Claimer : Claim(sender)
    \/ \E sender \in OwnerKey :
         \/ \E value \in RelayerKey : SetRole(sender, "relayer", value)
         \/ \E value \in SignerKey : SetRole(sender, "decisionSigner", value)
         \/ \E value \in Treasury : SetRole(sender, "treasury", value)
         \/ \E value \in OwnerKey : SetRole(sender, "owner", value)
    \/ \E b \in BountyId, sender \in Account :
         \/ RecoverOrphanBounty(sender, b)
         \/ \E r \in ReservationId : RecoverPendingAttempt(sender, b, r)
         \/ \E i \in AttemptIndex : RecoverUnactivatedAppeal(sender, b, i)
         \/ \E i \in AttemptIndex, signer \in SignerKey :
              RecoverAbandonedBoundAppeal(sender, signer, b, i)
    \/ \E b \in BountyId, signer \in SignerKey, expiry \in Expiry :
         \/ \E sender \in Creator, reward \in Reward, bond \in Bond, feeBps \in FeeBps :
              FundBounty(sender, signer, b, reward, bond, feeBps, expiry)
         \/ \E sender \in Challenger, r \in ReservationId :
              FundAttempt(sender, signer, b, r, expiry)
         \/ \E sender \in Appellant, i \in AttemptIndex :
              FundAppeal(sender, signer, b, i, expiry)
    \/ \E b \in BountyId, sender \in RelayerKey, signer \in SignerKey :
         \/ RegisterBounty(sender, signer, b)
         \/ \E r \in ReservationId, i \in AttemptIndex : BindAttempt(sender, signer, b, r, i)
         \/ \E i \in AttemptIndex, txHash \in TxHash : BindAppeal(sender, signer, b, i, txHash)
         \/ \E stateHash \in StateHash, nonce \in 1 .. Cardinality(StateHash),
               recipient \in Account :
              \/ ExecuteBountyRefund(sender, signer, b, recipient, stateHash, nonce)
              \/ \E i \in AttemptIndex, appealRecipient \in Account \cup {NoOne} :
                   \/ \E outcome \in {"BondRefund", "BondForfeit"} :
                        ExecuteBond(sender, signer, b, i, outcome, recipient,
                                    appealRecipient, stateHash, nonce)
                   \/ \E payoutBps \in PayoutBps :
                        ExecuteWinner(sender, signer, b, i, payoutBps, recipient,
                                      appealRecipient, stateHash, nonce)

Spec == Init /\ [][Next]_vars

-----------------------------------------------------------------------------
(* Types. *)

Roles == [owner : OwnerKey, relayer : RelayerKey,
          decisionSigner : SignerKey, treasury : Treasury]

BountyRecord ==
    [creator : Account \cup {NoOne}, reward : Nat, requiredBond : Nat,
     feeBps : 0 .. MaxFeeBps, fundedAt : Nat, registered : BOOLEAN,
     rewardSettled : BOOLEAN, decisionNonce : Nat]

PendingAttemptRecord ==
    [challenger : Account \cup {NoOne}, bond : Nat, authorizationExpiry : Nat,
     bound : BOOLEAN, recovered : BOOLEAN]

AttemptRecord ==
    [challenger : Account \cup {NoOne}, bond : Nat, appealBond : Nat,
     appealPayer : Account \cup {NoOne}, settled : BOOLEAN,
     reservationId : ReservationId \cup {NoReservation},
     appealAuthorizationExpiry : Nat, appealBound : BOOLEAN,
     appealRecovered : BOOLEAN, appealFundingTxHash : TxHash \cup {NoHash}]

\* The state is well typed.  No claim and no payout share is ever negative,
\* that is, no uint256 subtraction of the contract underflows.
TypeOK ==
    /\ now \in Nat
    /\ roles \in Roles
    /\ bounties \in [BountyId -> BountyRecord]
    /\ pendingAttempts \in [BountyId -> [ReservationId -> PendingAttemptRecord]]
    /\ attempts \in [BountyId -> [AttemptIndex -> AttemptRecord]]
    /\ claimable \in [Account -> Nat]
    /\ consumedDecisions \subseteq StateHash
    /\ usdc \in Int
    /\ paidReward \in [BountyId -> Nat]
    /\ paidBond \in [BountyId -> [ReservationId -> Nat]]
    /\ paidAppeal \in [BountyId -> [AttemptIndex -> Nat]]

-----------------------------------------------------------------------------
(* Safety. *)

IsBound(b, i) == attempts[b][i].challenger # NoOne

\* The reservation that backs a bound attempt.
Backing(b, i) == pendingAttempts[b][attempts[b][i].reservationId]

BackedOnce(b) ==
    /\ \A i \in AttemptIndex :
         IsBound(b, i) =>
           /\ attempts[b][i].reservationId \in ReservationId
           /\ Backing(b, i).bound
           /\ Backing(b, i).challenger = attempts[b][i].challenger
    /\ \A i, j \in AttemptIndex :
         IsBound(b, i) /\ IsBound(b, j)
           /\ attempts[b][i].reservationId = attempts[b][j].reservationId => i = j
    /\ \A r \in ReservationId :
         pendingAttempts[b][r].bound =>
           \E i \in AttemptIndex : IsBound(b, i) /\ attempts[b][i].reservationId = r

\* A reservation backs exactly one attempt: every bound attempt names a bound
\* reservation of the same challenger, no two attempts share one, and no
\* reservation is bound to nothing.  (bindAttempt, and the recoveries that race it.)
ReservationsBackOneAttempt == \A b \in BountyId : BackedOnce(b)

Consistent(b) ==
    /\ bounties[b].creator = NoOne => bounties[b] = EmptyBounty
    /\ \A r \in ReservationId :
         IF pendingAttempts[b][r].challenger = NoOne
         THEN pendingAttempts[b][r] = EmptyPendingAttempt
         ELSE pendingAttempts[b][r].bond =
                (IF pendingAttempts[b][r].recovered THEN 0 ELSE bounties[b].requiredBond)
    /\ \A i \in AttemptIndex :
         IF IsBound(b, i)
         THEN /\ attempts[b][i].bond = Backing(b, i).bond
              /\ attempts[b][i].appealBond \in {0, bounties[b].requiredBond}
         ELSE attempts[b][i] = EmptyAttempt

\* The storage is consistent.  An empty slot is all default; a deposit is the
\* bond its bounty requires until it is recovered, whether it is still pending
\* or already bound; an appeal deposit sits only in a bound attempt.
StorageConsistent == \A b \in BountyId : Consistent(b)

\* What the deposits of a bounty have credited so far, in terms of its state.
RewardDue(b) == IF bounties[b].rewardSettled THEN bounties[b].reward ELSE 0

BondDue(b, r) ==
    IF \/ pendingAttempts[b][r].recovered
       \/ \E i \in AttemptIndex : attempts[b][i].settled /\ attempts[b][i].reservationId = r
    THEN bounties[b].requiredBond
    ELSE 0

AppealDue(b, i) ==
    (IF attempts[b][i].appealRecovered THEN bounties[b].requiredBond ELSE 0)
        + (IF attempts[b][i].settled THEN attempts[b][i].appealBond ELSE 0)

PaidOnce(b) ==
    /\ paidReward[b] = RewardDue(b)
    /\ \A r \in ReservationId : paidBond[b][r] = BondDue(b, r)
    /\ \A i \in AttemptIndex : paidAppeal[b][i] = AppealDue(b, i)

\* Every deposit is credited in full and once: a reward when it settles, a bond
\* when it is recovered or its attempt settles but never both, an appeal deposit
\* when it is recovered or the attempt settles over it.
DepositsPaidOnce == \A b \in BountyId : PaidOnce(b)

OnlyReward(b) ==
    ~bounties[b].registered =>
        /\ ~bounties[b].rewardSettled
        /\ bounties[b].decisionNonce = 0
        /\ \A r \in ReservationId : pendingAttempts[b][r] = EmptyPendingAttempt
        /\ \A i \in AttemptIndex : attempts[b][i] = EmptyAttempt

\* A bounty that is not registered holds nothing but its reward, so deleting its
\* slot for an orphan recovery strands no bond and no appeal deposit, and a
\* creator who funds the slot again inherits none.
UnregisteredHoldsOnlyReward == \A b \in BountyId : OnlyReward(b)

\* Nothing happens to a settled attempt any more: no deposit enters it that
\* could not leave, no recovery takes what the settlement has paid.
SettledAttemptsFrozen ==
    [][\A b \in BountyId, i \in AttemptIndex :
         attempts[b][i].settled => attempts'[b][i] = attempts[b][i]]_vars

\* An account's claim falls only when that account takes all of it out.
ClaimsLeaveWhole ==
    [][\A x \in Account :
         claimable'[x] < claimable[x] =>
             claimable'[x] = 0 /\ usdc' = usdc - claimable[x]]_vars

=============================================================================
