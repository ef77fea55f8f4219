---------------------------- MODULE EscrowProofs ----------------------------
(***************************************************************************)
(* What holds of the escrow for every set of accounts, bounties,           *)
(* reservations, attempts and decisions, and for all amounts and delays.   *)
(***************************************************************************)
EXTENDS EscrowCustody, FiniteSetTheorems, WellFoundedInduction, TLAPS

-----------------------------------------------------------------------------
(* Updates of the two shapes the contract's mappings have. *)

LEMMA Update1 ==
    ASSUME NEW D, NEW R, NEW f \in [D -> R], NEW d \in D, NEW v \in R
    PROVE  [f EXCEPT ![d] = v] \in [D -> R]
OBVIOUS

LEMMA Update2 ==
    ASSUME NEW D, NEW E, NEW R, NEW f \in [D -> [E -> R]],
           NEW d \in D, NEW e \in E, NEW v \in R
    PROVE  [f EXCEPT ![d][e] = v] \in [D -> [E -> R]]
OBVIOUS

LEMMA Add1 ==
    ASSUME NEW D, NEW f \in [D -> Nat], NEW d, NEW v \in Nat
    PROVE  [f EXCEPT ![d] = @ + v] \in [D -> Nat]
<1>1. CASE d \in D
  BY <1>1
<1>2. CASE d \notin D
  <2>1. [f EXCEPT ![d] = @ + v] = f
    BY <1>2
  <2>. QED
    BY <2>1
<1>. QED
  BY <1>1, <1>2

LEMMA Add2 ==
    ASSUME NEW D, NEW E, NEW f \in [D -> [E -> Nat]], NEW d \in D, NEW e, NEW v \in Nat
    PROVE  [f EXCEPT ![d][e] = @ + v] \in [D -> [E -> Nat]]
<1>1. [f[d] EXCEPT ![e] = @ + v] \in [E -> Nat]
  BY Add1
<1>. QED
  BY <1>1

-----------------------------------------------------------------------------
(* Types. *)

\* A share of an amount, rounded down, is part of that amount: the contract's
\* subtractions in a settlement do not underflow.
LEMMA ShareBound ==
    ASSUME NEW total \in Nat, NEW share \in Nat, share <= BPS
    PROVE  (total * share) \div BPS \in 0 .. total
<1>. DEFINE q == (total * share) \div BPS
<1>1. BPS \in Nat /\ BPS > 0
  BY AmountAssumption
<1>2. total * share \in Nat /\ total * share <= total * BPS
  BY <1>1
<1>3. q \in Int /\ q * BPS <= total * share /\ total * share < (q + 1) * BPS
  BY <1>1, <1>2
<1>4. q >= 0
  BY <1>1, <1>2, <1>3
<1>5. q <= total
  BY <1>1, <1>2, <1>3
<1>. QED
  BY <1>3, <1>4, <1>5

LEMMA InitType == Init => TypeOK
BY AddressAssumption, AmountAssumption
   DEF Init, TypeOK, Roles, BountyRecord, PendingAttemptRecord, AttemptRecord,
       EmptyBounty, EmptyPendingAttempt, EmptyAttempt

\* The fields of the records a well-typed state holds.
LEMMA BountyFields ==
    ASSUME TypeOK, NEW b \in BountyId
    PROVE  /\ bounties[b] \in BountyRecord
           /\ bounties[b].creator \in Account \cup {NoOne}
           /\ bounties[b].reward \in Nat
           /\ bounties[b].requiredBond \in Nat
           /\ bounties[b].feeBps \in 0 .. MaxFeeBps
           /\ bounties[b].fundedAt \in Nat
           /\ bounties[b].registered \in BOOLEAN
           /\ bounties[b].rewardSettled \in BOOLEAN
           /\ bounties[b].decisionNonce \in Nat
<1>1. bounties[b] \in BountyRecord
  BY DEF TypeOK
<1>. QED
  BY <1>1 DEF BountyRecord

LEMMA PendingFields ==
    ASSUME TypeOK, NEW b \in BountyId, NEW r \in ReservationId
    PROVE  /\ pendingAttempts[b][r] \in PendingAttemptRecord
           /\ pendingAttempts[b][r].challenger \in Account \cup {NoOne}
           /\ pendingAttempts[b][r].bond \in Nat
           /\ pendingAttempts[b][r].bound \in BOOLEAN
           /\ pendingAttempts[b][r].recovered \in BOOLEAN
<1>1. pendingAttempts[b][r] \in PendingAttemptRecord
  BY DEF TypeOK
<1>. QED
  BY <1>1 DEF PendingAttemptRecord

LEMMA AttemptFields ==
    ASSUME TypeOK, NEW b \in BountyId, NEW i \in AttemptIndex
    PROVE  /\ attempts[b][i] \in AttemptRecord
           /\ attempts[b][i].challenger \in Account \cup {NoOne}
           /\ attempts[b][i].bond \in Nat
           /\ attempts[b][i].appealBond \in Nat
           /\ attempts[b][i].settled \in BOOLEAN
           /\ attempts[b][i].reservationId \in ReservationId \cup {NoReservation}
           /\ attempts[b][i].appealBound \in BOOLEAN
           /\ attempts[b][i].appealRecovered \in BOOLEAN
<1>1. attempts[b][i] \in AttemptRecord
  BY DEF TypeOK
<1>. QED
  BY <1>1 DEF AttemptRecord

LEMMA TypeFundBounty ==
    ASSUME TypeOK, NEW b \in BountyId, NEW signer, NEW sender \in Creator, NEW reward \in Reward,
           NEW bond \in Bond, NEW feeBps \in FeeBps, NEW expiry,
           FundBounty(sender, signer, b, reward, bond, feeBps, expiry)
    PROVE  TypeOK'
<1>. DEFINE rec == [bounties[b] EXCEPT !.creator = sender, !.reward = reward,
                       !.requiredBond = bond, !.feeBps = feeBps, !.fundedAt = now]
<1>1. now \in Nat /\ feeBps \in 0 .. MaxFeeBps /\ reward \in Nat /\ bond \in Nat /\ sender \in Account
  BY AmountAssumption, AddressAssumption DEF TypeOK, FundBounty
<1>2. rec \in BountyRecord
  BY <1>1, BountyFields DEF BountyRecord
<1>3. bounties' = [bounties EXCEPT ![b] = rec]
  BY DEF FundBounty
<1>. HIDE DEF rec
<1>. QED
  BY <1>1, <1>2, <1>3 DEF FundBounty, TypeOK, paidVars

LEMMA TypeRegisterBounty ==
    ASSUME TypeOK, NEW b \in BountyId, NEW signer, NEW sender,
           RegisterBounty(sender, signer, b)
    PROVE  TypeOK'
<1>. DEFINE rec == [bounties[b] EXCEPT !.registered = TRUE]
<1>1. rec \in BountyRecord
  BY BountyFields DEF BountyRecord
<1>2. bounties' = [bounties EXCEPT ![b] = rec]
  BY DEF RegisterBounty
<1>. HIDE DEF rec
<1>. QED
  BY <1>1, <1>2 DEF RegisterBounty, TypeOK, paidVars

LEMMA TypeRecoverOrphanBounty ==
    ASSUME TypeOK, NEW b \in BountyId, NEW sender \in Account, RecoverOrphanBounty(sender, b)
    PROVE  TypeOK'
<1>1. EmptyBounty \in BountyRecord
  BY AmountAssumption DEF EmptyBounty, BountyRecord
<1>2. bounties[b].reward \in Nat
  BY BountyFields
<1>. QED
  BY <1>1, <1>2 DEF RecoverOrphanBounty, TypeOK

LEMMA TypeFundAttempt ==
    ASSUME TypeOK, NEW b \in BountyId, NEW r \in ReservationId, NEW signer,
           NEW sender \in Challenger, NEW expiry \in Expiry,
           FundAttempt(sender, signer, b, r, expiry)
    PROVE  TypeOK'
<1>. DEFINE rec == [pendingAttempts[b][r] EXCEPT !.challenger = sender,
                       !.bond = bounties[b].requiredBond, !.authorizationExpiry = expiry]
<1>1. expiry \in Nat /\ sender \in Account
  BY AddressAssumption, TimeAssumption DEF TypeOK, Expiry
<1>2. rec \in PendingAttemptRecord
  BY <1>1, BountyFields, PendingFields DEF PendingAttemptRecord
<1>3. pendingAttempts' = [pendingAttempts EXCEPT ![b][r] = rec]
  BY DEF FundAttempt
<1>4. usdc' \in Int
  BY BountyFields DEF FundAttempt, TypeOK
<1>5. pendingAttempts' \in [BountyId -> [ReservationId -> PendingAttemptRecord]]
  BY <1>2, <1>3 DEF TypeOK
<1>. QED
  BY <1>4, <1>5 DEF FundAttempt, TypeOK, paidVars

LEMMA TypeBindAttempt ==
    ASSUME TypeOK, NEW b \in BountyId, NEW r \in ReservationId, NEW i \in AttemptIndex,
           NEW signer, NEW sender, BindAttempt(sender, signer, b, r, i)
    PROVE  TypeOK'
<1>. DEFINE p == [pendingAttempts[b][r] EXCEPT !.bound = TRUE]
            a == [attempts[b][i] EXCEPT !.challenger = pendingAttempts[b][r].challenger,
                     !.bond = pendingAttempts[b][r].bond, !.reservationId = r]
<1>1. p \in PendingAttemptRecord
  BY PendingFields DEF PendingAttemptRecord
<1>2. a \in AttemptRecord
  BY PendingFields, AttemptFields DEF AttemptRecord
<1>3. /\ pendingAttempts' = [pendingAttempts EXCEPT ![b][r] = p]
      /\ attempts' = [attempts EXCEPT ![b][i] = a]
  BY DEF BindAttempt, BoundBond
<1>. HIDE DEF p, a
<1>4. pendingAttempts' \in [BountyId -> [ReservationId -> PendingAttemptRecord]]
  BY <1>1, <1>3 DEF TypeOK
<1>5. attempts' \in [BountyId -> [AttemptIndex -> AttemptRecord]]
  BY <1>2, <1>3 DEF TypeOK
<1>. QED
  BY <1>4, <1>5 DEF BindAttempt, TypeOK, paidVars

LEMMA TypeRecoverPendingAttempt ==
    ASSUME TypeOK, NEW b \in BountyId, NEW r \in ReservationId, NEW sender \in Account,
           RecoverPendingAttempt(sender, b, r)
    PROVE  TypeOK'
<1>. DEFINE rec == [pendingAttempts[b][r] EXCEPT !.recovered = TRUE, !.bond = 0]
<1>1. rec \in PendingAttemptRecord
  BY PendingFields DEF PendingAttemptRecord
<1>2. pendingAttempts' = [pendingAttempts EXCEPT ![b][r] = rec]
  BY DEF RecoverPendingAttempt
<1>3. pendingAttempts[b][r].bond \in Nat
  BY PendingFields
<1>. HIDE DEF rec
<1>. QED
  BY <1>1, <1>2, <1>3, Update2 DEF RecoverPendingAttempt, TypeOK

LEMMA TypeFundAppeal ==
    ASSUME TypeOK, NEW b \in BountyId, NEW i \in AttemptIndex, NEW signer,
           NEW sender \in Appellant, NEW expiry \in Expiry,
           FundAppeal(sender, signer, b, i, expiry)
    PROVE  TypeOK'
<1>. DEFINE rec == [attempts[b][i] EXCEPT !.appealBond = bounties[b].requiredBond,
                       !.appealPayer = sender, !.appealAuthorizationExpiry = expiry]
<1>1. expiry \in Nat /\ sender \in Account
  BY AddressAssumption, TimeAssumption DEF TypeOK, Expiry
<1>2. rec \in AttemptRecord
  BY <1>1, BountyFields, AttemptFields DEF AttemptRecord
<1>3. attempts' = [attempts EXCEPT ![b][i] = rec]
  BY DEF FundAppeal
<1>4. usdc' \in Int
  BY BountyFields DEF FundAppeal, TypeOK
<1>. HIDE DEF rec
<1>. QED
  BY <1>2, <1>3, <1>4, Update2 DEF FundAppeal, TypeOK, paidVars

LEMMA TypeBindAppeal ==
    ASSUME TypeOK, NEW b \in BountyId, NEW i \in AttemptIndex, NEW signer, NEW sender,
           NEW txHash \in TxHash, BindAppeal(sender, signer, b, i, txHash)
    PROVE  TypeOK'
<1>. DEFINE rec == [attempts[b][i] EXCEPT !.appealBound = TRUE, !.appealFundingTxHash = txHash]
<1>1. rec \in AttemptRecord
  BY AttemptFields DEF AttemptRecord
<1>2. attempts' = [attempts EXCEPT ![b][i] = rec]
  BY DEF BindAppeal
<1>. HIDE DEF rec
<1>. QED
  BY <1>1, <1>2, Update2 DEF BindAppeal, TypeOK, paidVars

LEMMA TypeReturnAppealBond ==
    ASSUME TypeOK, NEW b \in BountyId, NEW i \in AttemptIndex, NEW sender \in Account,
           ReturnAppealBond(sender, b, i)
    PROVE  TypeOK'
<1>. DEFINE rec == [attempts[b][i] EXCEPT !.appealBond = 0, !.appealRecovered = TRUE]
<1>1. rec \in AttemptRecord
  BY AttemptFields DEF AttemptRecord
<1>2. attempts' = [attempts EXCEPT ![b][i] = rec]
  BY DEF ReturnAppealBond
<1>3. attempts[b][i].appealBond \in Nat
  BY AttemptFields
<1>. HIDE DEF rec
<1>. QED
  BY <1>1, <1>2, <1>3, Update2 DEF ReturnAppealBond, TypeOK

LEMMA TypeSettleAttempt ==
    ASSUME TypeOK, NEW b \in BountyId, NEW i \in AttemptIndex
    PROVE  [attempts EXCEPT ![b][i].settled = TRUE]
              \in [BountyId -> [AttemptIndex -> AttemptRecord]]
<1>. DEFINE rec == [attempts[b][i] EXCEPT !.settled = TRUE]
<1>1. rec \in AttemptRecord
  BY AttemptFields DEF AttemptRecord
<1>2. [attempts EXCEPT ![b][i].settled = TRUE] = [attempts EXCEPT ![b][i] = rec]
  OBVIOUS
<1>. HIDE DEF rec
<1>. QED
  BY <1>1, <1>2 DEF TypeOK

LEMMA DueNat ==
    ASSUME NEW amount \in Nat, NEW x, NEW to
    PROVE  Due(x, to, amount) \in Nat
BY DEF Due

LEMMA TypeExecuteWinner ==
    ASSUME TypeOK, NEW b \in BountyId, NEW i \in AttemptIndex, NEW signer, NEW sender,
           NEW payoutBps \in PayoutBps, NEW recipient, NEW appealRecipient,
           NEW stateHash \in StateHash, NEW nonce \in Nat,
           ExecuteWinner(sender, signer, b, i, payoutBps, recipient, appealRecipient, stateHash, nonce)
    PROVE  TypeOK'
<1>. DEFINE a     == attempts[b][i]
            gross == Gross(bounties[b].reward, payoutBps)
            fee   == Fee(gross, bounties[b].feeBps)
            rec   == [bounties[b] EXCEPT !.decisionNonce = nonce, !.rewardSettled = TRUE]
<1>1. gross \in 0 .. bounties[b].reward
  BY ShareBound, BountyFields, AmountAssumption DEF ExecuteWinner, Gross
<1>2. fee \in 0 .. gross
  <2>1. gross \in Nat /\ bounties[b].feeBps \in Nat /\ bounties[b].feeBps <= BPS
    BY <1>1, BountyFields, AmountAssumption
  <2>. HIDE DEF gross
  <2>. QED
    BY <2>1, ShareBound DEF Fee
<1>3. rec \in BountyRecord
  BY BountyFields DEF BountyRecord
<1>4. /\ bounties' = [bounties EXCEPT ![b] = rec]
      /\ attempts' = [attempts EXCEPT ![b][i].settled = TRUE]
      /\ consumedDecisions' = consumedDecisions \cup {stateHash}
      /\ claimable' = [x \in Account |->
                       claimable[x] + Due(x, recipient, gross - fee + a.bond)
                                    + Due(x, appealRecipient, a.appealBond)
                                    + Due(x, roles.treasury, fee)
                                    + Due(x, bounties[b].creator, bounties[b].reward - gross)]
      /\ paidReward' = [paidReward EXCEPT ![b] =
                          @ + (gross - fee) + fee + (bounties[b].reward - gross)]
      /\ paidBond' = [paidBond EXCEPT ![b][a.reservationId] = @ + a.bond]
      /\ paidAppeal' = [paidAppeal EXCEPT ![b][i] = @ + a.appealBond]
      /\ UNCHANGED <<now, roles, pendingAttempts, usdc>>
  BY DEF ExecuteWinner
<1>5. bounties[b].reward \in Nat /\ a.bond \in Nat /\ a.appealBond \in Nat
  BY BountyFields, AttemptFields
<1>6. attempts' \in [BountyId -> [AttemptIndex -> AttemptRecord]]
  BY <1>4, TypeSettleAttempt
<1>. HIDE DEF a, gross, fee, rec
<1>7. claimable' \in [Account -> Nat]
  <2>1. /\ gross - fee + a.bond \in Nat
        /\ fee \in Nat
        /\ bounties[b].reward - gross \in Nat
    BY <1>1, <1>2, <1>5
  <2>2. ASSUME NEW x \in Account
        PROVE  claimable[x] + Due(x, recipient, gross - fee + a.bond)
                            + Due(x, appealRecipient, a.appealBond)
                            + Due(x, roles.treasury, fee)
                            + Due(x, bounties[b].creator, bounties[b].reward - gross) \in Nat
    BY <1>5, <2>1 DEF Due, TypeOK
  <2>. QED
    BY <1>4, <2>2
<1>8. paidReward' \in [BountyId -> Nat]
  BY <1>1, <1>2, <1>4, <1>5 DEF TypeOK
<1>9. /\ paidBond' \in [BountyId -> [ReservationId -> Nat]]
      /\ paidAppeal' \in [BountyId -> [AttemptIndex -> Nat]]
  BY <1>4, <1>5, Add2 DEF TypeOK
<1>. QED
  BY <1>3, <1>4, <1>6, <1>7, <1>8, <1>9, Update1 DEF TypeOK

LEMMA TypeExecuteBountyRefund ==
    ASSUME TypeOK, NEW b \in BountyId, NEW signer, NEW sender, NEW recipient \in Account,
           NEW stateHash \in StateHash, NEW nonce \in Nat,
           ExecuteBountyRefund(sender, signer, b, recipient, stateHash, nonce)
    PROVE  TypeOK'
<1>. DEFINE rec == [bounties[b] EXCEPT !.decisionNonce = nonce, !.rewardSettled = TRUE]
<1>1. rec \in BountyRecord
  BY BountyFields DEF BountyRecord
<1>2. bounties' = [bounties EXCEPT ![b] = rec]
  BY DEF ExecuteBountyRefund
<1>3. bounties[b].reward \in Nat
  BY BountyFields
<1>. HIDE DEF rec
<1>. QED
  BY <1>1, <1>2, <1>3, Update1 DEF ExecuteBountyRefund, TypeOK

LEMMA TypeExecuteBond ==
    ASSUME TypeOK, NEW b \in BountyId, NEW i \in AttemptIndex, NEW signer, NEW sender,
           NEW outcome, NEW recipient, NEW appealRecipient,
           NEW stateHash \in StateHash, NEW nonce \in Nat,
           ExecuteBond(sender, signer, b, i, outcome, recipient, appealRecipient, stateHash, nonce)
    PROVE  TypeOK'
<1>. DEFINE a   == attempts[b][i]
            rec == [bounties[b] EXCEPT !.decisionNonce = nonce]
<1>1. rec \in BountyRecord
  BY BountyFields DEF BountyRecord
<1>2. /\ bounties' = [bounties EXCEPT ![b] = rec]
      /\ attempts' = [attempts EXCEPT ![b][i].settled = TRUE]
      /\ consumedDecisions' = consumedDecisions \cup {stateHash}
      /\ claimable' = [x \in Account |->
                       claimable[x] + Due(x, recipient, a.bond)
                                    + Due(x, appealRecipient, a.appealBond)]
      /\ paidBond' = [paidBond EXCEPT ![b][a.reservationId] = @ + a.bond]
      /\ paidAppeal' = [paidAppeal EXCEPT ![b][i] = @ + a.appealBond]
      /\ UNCHANGED <<now, roles, pendingAttempts, usdc, paidReward>>
  BY DEF ExecuteBond
<1>3. a.bond \in Nat /\ a.appealBond \in Nat
  BY AttemptFields
<1>4. attempts' \in [BountyId -> [AttemptIndex -> AttemptRecord]]
  BY <1>2, TypeSettleAttempt
<1>. HIDE DEF a, rec
<1>5. claimable' \in [Account -> Nat]
  BY <1>2, <1>3, DueNat DEF TypeOK
<1>6. /\ paidBond' \in [BountyId -> [ReservationId -> Nat]]
      /\ paidAppeal' \in [BountyId -> [AttemptIndex -> Nat]]
  BY <1>2, <1>3, Add2 DEF TypeOK
<1>. QED
  BY <1>1, <1>2, <1>4, <1>5, <1>6, Update1 DEF TypeOK

LEMMA TypeClaim ==
    ASSUME TypeOK, NEW sender \in Claimer, Claim(sender)
    PROVE  TypeOK'
BY AddressAssumption DEF Claim, TypeOK, paidVars

-----------------------------------------------------------------------------
(* The books of one bounty.                                                *)

\* The four invariants are inductive together: that a bond is paid once needs
\* that its reservation backs one attempt, that a recovery returns the whole
\* deposit needs that the storage is consistent, and that an emptied slot is
\* clean needs that an unregistered bounty has no deposits.
Books(b) == BackedOnce(b) /\ Consistent(b) /\ PaidOnce(b) /\ OnlyReward(b)

AllBooks == \A b \in BountyId : Books(b)

SameBounty(b) ==
    /\ bounties'[b] = bounties[b]
    /\ pendingAttempts'[b] = pendingAttempts[b]
    /\ attempts'[b] = attempts[b]
    /\ paidReward'[b] = paidReward[b]
    /\ paidBond'[b] = paidBond[b]
    /\ paidAppeal'[b] = paidAppeal[b]

LEMMA BooksFrame ==
    ASSUME NEW b \in BountyId, Books(b), SameBounty(b)
    PROVE  Books(b)'
<1>1. BackedOnce(b)'
  BY DEF Books, SameBounty, BackedOnce, IsBound, Backing
<1>2. Consistent(b)'
  BY DEF Books, SameBounty, Consistent, IsBound, Backing
<1>3. PaidOnce(b)'
  BY DEF Books, SameBounty, PaidOnce, RewardDue, BondDue, AppealDue
<1>4. OnlyReward(b)'
  BY DEF Books, SameBounty, OnlyReward
<1>. QED
  BY <1>1, <1>2, <1>3, <1>4 DEF Books

LEMMA InitBooks == Init => AllBooks
BY AddressAssumption DEF Init, AllBooks, Books, BackedOnce, Consistent, PaidOnce, OnlyReward,
   RewardDue, BondDue, AppealDue, IsBound, Backing, EmptyBounty, EmptyPendingAttempt, EmptyAttempt

\* The books of a bounty without deposits other than its reward.
LEMMA BooksUnregistered ==
    ASSUME TypeOK, NEW b \in BountyId, Books(b), ~bounties[b].registered,
           pendingAttempts'[b] = pendingAttempts[b], attempts'[b] = attempts[b],
           paidReward'[b] = 0, paidBond'[b] = paidBond[b], paidAppeal'[b] = paidAppeal[b],
           bounties'[b].rewardSettled = FALSE, bounties'[b].decisionNonce = 0,
           bounties'[b].creator = NoOne => bounties'[b] = EmptyBounty
    PROVE  Books(b)'
<1>1. /\ \A r \in ReservationId : pendingAttempts'[b][r] = EmptyPendingAttempt
      /\ \A i \in AttemptIndex : attempts'[b][i] = EmptyAttempt
  BY DEF Books, OnlyReward
<1>2. BackedOnce(b)'
  BY <1>1 DEF BackedOnce, IsBound, EmptyPendingAttempt, EmptyAttempt
<1>3. Consistent(b)'
  <2>1. EmptyPendingAttempt.challenger = NoOne /\ EmptyAttempt.challenger = NoOne
    BY DEF EmptyPendingAttempt, EmptyAttempt
  <2>. QED
    BY <1>1, <2>1 DEF Consistent, IsBound
<1>4. PaidOnce(b)'
  <2>1. \A r \in ReservationId : paidBond[b][r] = 0
    BY <1>1, AddressAssumption DEF Books, PaidOnce, BondDue, EmptyPendingAttempt, EmptyAttempt
  <2>2. \A i \in AttemptIndex : paidAppeal[b][i] = 0
    BY <1>1 DEF Books, PaidOnce, AppealDue, EmptyAttempt
  <2>. QED
    BY <1>1, <2>1, <2>2, AddressAssumption
       DEF PaidOnce, RewardDue, BondDue, AppealDue, EmptyPendingAttempt, EmptyAttempt
<1>5. OnlyReward(b)'
  BY <1>1 DEF OnlyReward
<1>. QED
  BY <1>2, <1>3, <1>4, <1>5 DEF Books

LEMMA BooksFundBounty ==
    ASSUME TypeOK, AllBooks, NEW b \in BountyId, NEW signer, NEW sender \in Creator,
           NEW reward \in Reward, NEW bond \in Bond, NEW feeBps \in FeeBps, NEW expiry,
           FundBounty(sender, signer, b, reward, bond, feeBps, expiry)
    PROVE  AllBooks'
<1>1. ASSUME NEW c \in BountyId, c # b PROVE SameBounty(c)
  BY <1>1 DEF FundBounty, SameBounty, TypeOK, paidVars
<1>2. bounties[b] = EmptyBounty
  BY DEF FundBounty, AllBooks, Books, Consistent
<1>3. /\ bounties'[b].creator = sender
      /\ bounties'[b].rewardSettled = FALSE
      /\ bounties'[b].decisionNonce = 0
  BY <1>2 DEF FundBounty, TypeOK, EmptyBounty
<1>4. /\ pendingAttempts'[b] = pendingAttempts[b] /\ attempts'[b] = attempts[b]
      /\ paidReward'[b] = 0 /\ paidBond'[b] = paidBond[b] /\ paidAppeal'[b] = paidAppeal[b]
  BY <1>2 DEF FundBounty, AllBooks, Books, PaidOnce, RewardDue, EmptyBounty, paidVars
<1>5. Books(b)'
  <2>1. ~bounties[b].registered /\ sender # NoOne /\ Books(b)
    BY <1>2, AddressAssumption DEF EmptyBounty, AllBooks
  <2>. QED
    BY <1>3, <1>4, <2>1, BooksUnregistered
<1>. QED
  BY <1>1, <1>5, BooksFrame DEF AllBooks

LEMMA BooksRecoverOrphanBounty ==
    ASSUME TypeOK, AllBooks, NEW b \in BountyId, NEW sender \in Account,
           RecoverOrphanBounty(sender, b)
    PROVE  AllBooks'
<1>1. ASSUME NEW c \in BountyId, c # b PROVE SameBounty(c)
  BY <1>1 DEF RecoverOrphanBounty, SameBounty, TypeOK
<1>2. /\ ~bounties[b].registered
      /\ bounties'[b] = EmptyBounty
      /\ pendingAttempts'[b] = pendingAttempts[b] /\ attempts'[b] = attempts[b]
      /\ paidReward'[b] = 0 /\ paidBond'[b] = paidBond[b] /\ paidAppeal'[b] = paidAppeal[b]
  BY DEF RecoverOrphanBounty, OrphanRecoverable, TypeOK
<1>3. Books(b)'
  <2>1. EmptyBounty.rewardSettled = FALSE /\ EmptyBounty.decisionNonce = 0
    BY DEF EmptyBounty
  <2>. QED
    BY <1>2, <2>1, BooksUnregistered DEF AllBooks
<1>. QED
  BY <1>1, <1>3, BooksFrame DEF AllBooks

LEMMA BooksRegisterBounty ==
    ASSUME TypeOK, AllBooks, NEW b \in BountyId, NEW signer, NEW sender,
           RegisterBounty(sender, signer, b)
    PROVE  AllBooks'
<1>1. ASSUME NEW c \in BountyId, c # b PROVE SameBounty(c)
  BY <1>1 DEF RegisterBounty, SameBounty, TypeOK, paidVars
<1>2. /\ bounties'[b].creator = bounties[b].creator
      /\ bounties'[b].rewardSettled = bounties[b].rewardSettled
      /\ bounties'[b].decisionNonce = bounties[b].decisionNonce
      /\ bounties[b].creator # NoOne /\ ~bounties[b].registered /\ ~bounties[b].rewardSettled
      /\ pendingAttempts'[b] = pendingAttempts[b] /\ attempts'[b] = attempts[b]
      /\ paidReward'[b] = paidReward[b] /\ paidBond'[b] = paidBond[b]
      /\ paidAppeal'[b] = paidAppeal[b]
  BY DEF RegisterBounty, TypeOK, paidVars
<1>3. Books(b)'
  BY <1>2, BooksUnregistered, BountyFields DEF AllBooks, Books, OnlyReward, PaidOnce, RewardDue
<1>. QED
  BY <1>1, <1>3, BooksFrame DEF AllBooks

LEMMA BooksFundAttempt ==
    ASSUME TypeOK, AllBooks, NEW b \in BountyId, NEW r \in ReservationId, NEW signer,
           NEW sender \in Challenger, NEW expiry,
           FundAttempt(sender, signer, b, r, expiry)
    PROVE  AllBooks'
<1>1. ASSUME NEW c \in BountyId, c # b PROVE SameBounty(c)
  BY <1>1 DEF FundAttempt, SameBounty, TypeOK, paidVars
<1>2. /\ bounties'[b] = bounties[b] /\ bounties[b].registered
      /\ attempts'[b] = attempts[b]
      /\ paidReward'[b] = paidReward[b] /\ paidBond'[b] = paidBond[b]
      /\ paidAppeal'[b] = paidAppeal[b]
      /\ \A q \in ReservationId : q # r => pendingAttempts'[b][q] = pendingAttempts[b][q]
  BY DEF FundAttempt, AttemptsOpen, TypeOK, paidVars
<1>3. pendingAttempts[b][r] = EmptyPendingAttempt
  BY DEF FundAttempt, AllBooks, Books, Consistent
<1>4. /\ pendingAttempts'[b][r].challenger = sender
      /\ pendingAttempts'[b][r].bond = bounties[b].requiredBond
      /\ pendingAttempts'[b][r].bound = FALSE
      /\ pendingAttempts'[b][r].recovered = FALSE
  BY <1>3 DEF FundAttempt, TypeOK, EmptyPendingAttempt
<1>5. \A i \in AttemptIndex : IsBound(b, i) => attempts[b][i].reservationId # r
  BY <1>3 DEF AllBooks, Books, BackedOnce, Backing, EmptyPendingAttempt
<1>6. BackedOnce(b)'
  BY <1>2, <1>3, <1>4, <1>5 DEF AllBooks, Books, BackedOnce, IsBound, Backing
<1>7. Consistent(b)'
  BY <1>2, <1>3, <1>4, <1>5, AddressAssumption
     DEF AllBooks, Books, Consistent, BackedOnce, IsBound, Backing
<1>8. PaidOnce(b)'
  BY <1>2, <1>3, <1>4 DEF AllBooks, Books, PaidOnce, RewardDue, BondDue, AppealDue, EmptyPendingAttempt
<1>9. Books(b)'
  BY <1>2, <1>6, <1>7, <1>8 DEF Books, OnlyReward
<1>. QED
  BY <1>1, <1>9, BooksFrame DEF AllBooks

LEMMA BooksBindAttempt ==
    ASSUME TypeOK, AllBooks, NEW b \in BountyId, NEW r \in ReservationId, NEW i \in AttemptIndex,
           NEW signer, NEW sender, BindAttempt(sender, signer, b, r, i)
    PROVE  AllBooks'
<1>1. ASSUME NEW c \in BountyId, c # b PROVE SameBounty(c)
  BY <1>1 DEF BindAttempt, SameBounty, TypeOK, paidVars
<1>2. /\ bounties'[b] = bounties[b] /\ bounties[b].registered
      /\ paidReward'[b] = paidReward[b] /\ paidBond'[b] = paidBond[b]
      /\ paidAppeal'[b] = paidAppeal[b]
      /\ \A q \in ReservationId : q # r => pendingAttempts'[b][q] = pendingAttempts[b][q]
      /\ \A j \in AttemptIndex : j # i => attempts'[b][j] = attempts[b][j]
      /\ pendingAttempts[b][r].challenger # NoOne /\ ~pendingAttempts[b][r].bound
  BY DEF BindAttempt, AttemptsOpen, ReservationBindable, TypeOK, paidVars
<1>3. attempts[b][i] = EmptyAttempt
  BY DEF BindAttempt, AllBooks, Books, Consistent, IsBound
<1>4. /\ pendingAttempts'[b][r].challenger = pendingAttempts[b][r].challenger
      /\ pendingAttempts'[b][r].bond = pendingAttempts[b][r].bond
      /\ pendingAttempts'[b][r].recovered = pendingAttempts[b][r].recovered
      /\ pendingAttempts'[b][r].bound = TRUE
  BY PendingFields DEF BindAttempt, TypeOK, PendingAttemptRecord
<1>5. /\ attempts'[b][i].challenger = pendingAttempts[b][r].challenger
      /\ attempts'[b][i].bond = pendingAttempts[b][r].bond
      /\ attempts'[b][i].reservationId = r
      /\ attempts'[b][i].appealBond = 0
      /\ attempts'[b][i].settled = FALSE
      /\ attempts'[b][i].appealRecovered = FALSE
  BY <1>3 DEF BindAttempt, BoundBond, TypeOK, EmptyAttempt
<1>6. \A j \in AttemptIndex : IsBound(b, j) => attempts[b][j].reservationId # r
  BY <1>2 DEF AllBooks, Books, BackedOnce, Backing
<1>7. BackedOnce(b)'
  <2>1. BackedOnce(b)
    BY DEF AllBooks, Books
  <2>2. /\ \A j \in AttemptIndex : j # i => (IsBound(b, j)' <=> IsBound(b, j))
        /\ IsBound(b, i)'
    BY <1>2, <1>5 DEF IsBound
  <2>3. ASSUME NEW j \in AttemptIndex, IsBound(b, j)'
        PROVE  /\ attempts'[b][j].reservationId \in ReservationId
               /\ Backing(b, j)'.bound
               /\ Backing(b, j)'.challenger = attempts'[b][j].challenger
    BY <1>2, <1>4, <1>5, <1>6, <2>1, <2>2, <2>3 DEF BackedOnce, Backing
  <2>4. ASSUME NEW j \in AttemptIndex, NEW k \in AttemptIndex, IsBound(b, j)', IsBound(b, k)',
               attempts'[b][j].reservationId = attempts'[b][k].reservationId
        PROVE  j = k
    BY <1>2, <1>5, <1>6, <2>1, <2>2, <2>4 DEF BackedOnce
  <2>5. ASSUME NEW q \in ReservationId, pendingAttempts'[b][q].bound
        PROVE  \E j \in AttemptIndex : IsBound(b, j)' /\ attempts'[b][j].reservationId = q
    <3>1. CASE q = r
      BY <1>5, <2>2, <3>1
    <3>2. CASE q # r
      <4>1. PICK j \in AttemptIndex : IsBound(b, j) /\ attempts[b][j].reservationId = q
        BY <1>2, <2>1, <2>5, <3>2 DEF BackedOnce
      <4>2. j # i
        BY <1>3, <4>1 DEF IsBound, EmptyAttempt
      <4>. QED
        BY <1>2, <2>2, <4>1, <4>2
    <3>. QED
      BY <3>1, <3>2
  <2>. QED
    BY <2>3, <2>4, <2>5 DEF BackedOnce, IsBound, Backing
<1>8. Consistent(b)'
  BY <1>2, <1>4, <1>5, <1>6 DEF AllBooks, Books, Consistent, BackedOnce, IsBound, Backing
<1>9. PaidOnce(b)'
  <2>1. \A j \in AttemptIndex : attempts[b][j].reservationId = r => ~attempts[b][j].settled
    BY <1>6, AddressAssumption DEF AllBooks, Books, Consistent, IsBound, EmptyAttempt
  <2>2. /\ attempts[b][i].settled = FALSE /\ attempts[b][i].appealRecovered = FALSE
        /\ attempts[b][i].appealBond = 0
    BY <1>3 DEF EmptyAttempt
  <2>3. \A q \in ReservationId : BondDue(b, q)' = BondDue(b, q)
    BY <1>2, <1>4, <1>5, <2>1, <2>2 DEF BondDue
  <2>4. \A j \in AttemptIndex : AppealDue(b, j)' = AppealDue(b, j)
    BY <1>2, <1>5, <2>2 DEF AppealDue
  <2>. QED
    BY <1>2, <2>3, <2>4 DEF AllBooks, Books, PaidOnce, RewardDue
<1>10. Books(b)'
  BY <1>2, <1>7, <1>8, <1>9 DEF Books, OnlyReward
<1>. QED
  BY <1>1, <1>10, BooksFrame DEF AllBooks

LEMMA BooksRecoverPendingAttempt ==
    ASSUME TypeOK, AllBooks, NEW b \in BountyId, NEW r \in ReservationId, NEW sender \in Account,
           RecoverPendingAttempt(sender, b, r)
    PROVE  AllBooks'
<1>1. ASSUME NEW c \in BountyId, c # b PROVE SameBounty(c)
  BY <1>1 DEF RecoverPendingAttempt, SameBounty, TypeOK
<1>2. /\ bounties'[b] = bounties[b] /\ attempts'[b] = attempts[b]
      /\ paidReward'[b] = paidReward[b] /\ paidAppeal'[b] = paidAppeal[b]
      /\ paidBond'[b][r] = paidBond[b][r] + pendingAttempts[b][r].bond
      /\ \A q \in ReservationId : q # r => /\ pendingAttempts'[b][q] = pendingAttempts[b][q]
                                           /\ paidBond'[b][q] = paidBond[b][q]
      /\ pendingAttempts[b][r].challenger = sender
      /\ ~pendingAttempts[b][r].bound /\ ~pendingAttempts[b][r].recovered
  BY DEF RecoverPendingAttempt, PendingRecoverable, TypeOK
<1>3. /\ pendingAttempts'[b][r].challenger = sender
      /\ pendingAttempts'[b][r].bond = 0
      /\ pendingAttempts'[b][r].recovered = TRUE
      /\ pendingAttempts'[b][r].bound = FALSE
  BY <1>2, PendingFields DEF RecoverPendingAttempt, TypeOK, PendingAttemptRecord
<1>4. sender # NoOne /\ bounties[b].requiredBond \in Nat
  BY AddressAssumption, BountyFields
<1>5. \A j \in AttemptIndex : IsBound(b, j) => attempts[b][j].reservationId # r
  BY <1>2 DEF AllBooks, Books, BackedOnce, Backing
<1>6. BackedOnce(b)'
  BY <1>2, <1>3, <1>5 DEF AllBooks, Books, BackedOnce, IsBound, Backing
<1>7. Consistent(b)'
  BY <1>2, <1>3, <1>4, <1>5 DEF AllBooks, Books, Consistent, BackedOnce, IsBound, Backing
<1>8. PaidOnce(b)'
  <2>1. pendingAttempts[b][r].bond = bounties[b].requiredBond
    BY <1>2, <1>4 DEF AllBooks, Books, Consistent
  <2>2. \A j \in AttemptIndex : attempts[b][j].reservationId = r => ~attempts[b][j].settled
    BY <1>5, AddressAssumption DEF AllBooks, Books, Consistent, IsBound, EmptyAttempt
  <2>3. paidBond[b][r] = 0
    BY <1>2, <2>2 DEF AllBooks, Books, PaidOnce, BondDue
  <2>4. paidBond'[b][r] = BondDue(b, r)'
    BY <1>2, <1>3, <1>4, <2>1, <2>3 DEF BondDue
  <2>5. \A q \in ReservationId : q # r => BondDue(b, q)' = BondDue(b, q)
    BY <1>2 DEF BondDue
  <2>. QED
    BY <1>2, <2>4, <2>5 DEF AllBooks, Books, PaidOnce, RewardDue, AppealDue
<1>9. OnlyReward(b)'
  BY <1>2, <1>4 DEF AllBooks, Books, OnlyReward, EmptyPendingAttempt
<1>10. Books(b)'
  BY <1>6, <1>7, <1>8, <1>9 DEF Books
<1>. QED
  BY <1>1, <1>10, BooksFrame DEF AllBooks

\* A step that changes one bound attempt, in its appeal or settlement fields only.
AttemptTouched(b, i) ==
    /\ bounties'[b].creator = bounties[b].creator
    /\ bounties'[b].requiredBond = bounties[b].requiredBond
    /\ bounties[b].registered /\ bounties'[b].registered
    /\ bounties[b].creator # NoOne
    /\ pendingAttempts'[b] = pendingAttempts[b]
    /\ IsBound(b, i)
    /\ attempts'[b][i].challenger = attempts[b][i].challenger
    /\ attempts'[b][i].bond = attempts[b][i].bond
    /\ attempts'[b][i].reservationId = attempts[b][i].reservationId
    /\ \A j \in AttemptIndex : j # i => /\ attempts'[b][j] = attempts[b][j]
                                        /\ paidAppeal'[b][j] = paidAppeal[b][j]

LEMMA BooksAttemptTouched ==
    ASSUME TypeOK, NEW b \in BountyId, NEW i \in AttemptIndex, Books(b), AttemptTouched(b, i),
           attempts'[b][i].appealBond \in {0, bounties[b].requiredBond}
    PROVE  BackedOnce(b)' /\ Consistent(b)' /\ OnlyReward(b)'
<1>1. BackedOnce(b)'
  BY DEF Books, AttemptTouched, BackedOnce, IsBound, Backing
<1>2. Consistent(b)'
  BY DEF Books, AttemptTouched, Consistent, IsBound, Backing
<1>3. OnlyReward(b)'
  BY DEF AttemptTouched, OnlyReward
<1>. QED
  BY <1>1, <1>2, <1>3

\* A bound attempt belongs to a registered bounty.
LEMMA BoundIsRegistered ==
    ASSUME TypeOK, NEW b \in BountyId, NEW i \in AttemptIndex, Books(b),
           attempts[b][i] # EmptyAttempt
    PROVE  /\ bounties[b].registered
           /\ bounties[b].creator # NoOne
           /\ IsBound(b, i)
<1>1. bounties[b].registered
  BY DEF Books, OnlyReward
<1>2. bounties[b].creator # NoOne
  BY <1>1 DEF Books, Consistent, EmptyBounty
<1>3. IsBound(b, i)
  BY DEF Books, Consistent
<1>. QED
  BY <1>1, <1>2, <1>3

LEMMA BooksFundAppeal ==
    ASSUME TypeOK, AllBooks, NEW b \in BountyId, NEW i \in AttemptIndex, NEW signer,
           NEW sender, NEW expiry, FundAppeal(sender, signer, b, i, expiry)
    PROVE  AllBooks'
<1>1. ASSUME NEW c \in BountyId, c # b PROVE SameBounty(c)
  BY <1>1 DEF FundAppeal, SameBounty, TypeOK, paidVars
<1>2. Books(b) /\ attempts[b][i] # EmptyAttempt
  BY DEF FundAppeal, AppealFundable, AllBooks, EmptyAttempt
<1>3. /\ bounties'[b] = bounties[b] /\ pendingAttempts'[b] = pendingAttempts[b]
      /\ paidReward'[b] = paidReward[b] /\ paidBond'[b] = paidBond[b]
      /\ paidAppeal'[b] = paidAppeal[b]
      /\ \A j \in AttemptIndex : j # i => attempts'[b][j] = attempts[b][j]
      /\ ~attempts[b][i].settled
  BY DEF FundAppeal, AppealFundable, TypeOK, paidVars
<1>4. /\ attempts'[b][i].challenger = attempts[b][i].challenger
      /\ attempts'[b][i].bond = attempts[b][i].bond
      /\ attempts'[b][i].reservationId = attempts[b][i].reservationId
      /\ attempts'[b][i].settled = attempts[b][i].settled
      /\ attempts'[b][i].appealRecovered = attempts[b][i].appealRecovered
      /\ attempts'[b][i].appealBond = bounties[b].requiredBond
  BY AttemptFields DEF FundAppeal, TypeOK, AttemptRecord
<1>5. AttemptTouched(b, i)
  BY <1>2, <1>3, <1>4, BoundIsRegistered DEF AttemptTouched
<1>6. PaidOnce(b)'
  <2>1. \A r \in ReservationId : BondDue(b, r)' = BondDue(b, r)
    BY <1>3, <1>4 DEF BondDue
  <2>2. \A j \in AttemptIndex : AppealDue(b, j)' = AppealDue(b, j)
    BY <1>3, <1>4 DEF AppealDue
  <2>. QED
    BY <1>2, <1>3, <2>1, <2>2 DEF Books, PaidOnce, RewardDue
<1>7. Books(b)'
  BY <1>2, <1>4, <1>5, <1>6, BooksAttemptTouched DEF Books
<1>. QED
  BY <1>1, <1>7, BooksFrame DEF AllBooks

LEMMA BooksBindAppeal ==
    ASSUME TypeOK, AllBooks, NEW b \in BountyId, NEW i \in AttemptIndex, NEW signer,
           NEW sender, NEW txHash, BindAppeal(sender, signer, b, i, txHash)
    PROVE  AllBooks'
<1>1. ASSUME NEW c \in BountyId, c # b PROVE SameBounty(c)
  BY <1>1 DEF BindAppeal, SameBounty, TypeOK, paidVars
<1>2. Books(b) /\ attempts[b][i] # EmptyAttempt
  BY DEF BindAppeal, AppealBindable, AllBooks, EmptyAttempt
<1>3. /\ bounties'[b] = bounties[b] /\ pendingAttempts'[b] = pendingAttempts[b]
      /\ paidReward'[b] = paidReward[b] /\ paidBond'[b] = paidBond[b]
      /\ paidAppeal'[b] = paidAppeal[b]
      /\ \A j \in AttemptIndex : j # i => attempts'[b][j] = attempts[b][j]
  BY DEF BindAppeal, TypeOK, paidVars
<1>4. /\ attempts'[b][i].challenger = attempts[b][i].challenger
      /\ attempts'[b][i].bond = attempts[b][i].bond
      /\ attempts'[b][i].reservationId = attempts[b][i].reservationId
      /\ attempts'[b][i].settled = attempts[b][i].settled
      /\ attempts'[b][i].appealRecovered = attempts[b][i].appealRecovered
      /\ attempts'[b][i].appealBond = attempts[b][i].appealBond
  BY AttemptFields DEF BindAppeal, TypeOK, AttemptRecord
<1>5. AttemptTouched(b, i)
  BY <1>2, <1>3, <1>4, BoundIsRegistered DEF AttemptTouched
<1>6. attempts'[b][i].appealBond \in {0, bounties[b].requiredBond}
  BY <1>2, <1>4, <1>5 DEF AttemptTouched, Books, Consistent
<1>7. PaidOnce(b)'
  <2>1. \A r \in ReservationId : BondDue(b, r)' = BondDue(b, r)
    BY <1>3, <1>4 DEF BondDue
  <2>2. \A j \in AttemptIndex : AppealDue(b, j)' = AppealDue(b, j)
    BY <1>3, <1>4 DEF AppealDue
  <2>. QED
    BY <1>2, <1>3, <2>1, <2>2 DEF Books, PaidOnce, RewardDue
<1>8. Books(b)'
  BY <1>2, <1>5, <1>6, <1>7, BooksAttemptTouched DEF Books
<1>. QED
  BY <1>1, <1>8, BooksFrame DEF AllBooks

LEMMA BooksReturnAppealBond ==
    ASSUME TypeOK, AllBooks, NEW b \in BountyId, NEW i \in AttemptIndex, NEW sender,
           NEW bound, NEW delay, AppealRecoverable(sender, b, i, bound, delay),
           ReturnAppealBond(sender, b, i)
    PROVE  AllBooks'
<1>1. ASSUME NEW c \in BountyId, c # b PROVE SameBounty(c)
  BY <1>1 DEF ReturnAppealBond, SameBounty, TypeOK
<1>2. Books(b) /\ attempts[b][i] # EmptyAttempt
  BY DEF AppealRecoverable, AllBooks, EmptyAttempt
<1>3. /\ bounties'[b] = bounties[b] /\ pendingAttempts'[b] = pendingAttempts[b]
      /\ paidReward'[b] = paidReward[b] /\ paidBond'[b] = paidBond[b]
      /\ paidAppeal'[b][i] = paidAppeal[b][i] + attempts[b][i].appealBond
      /\ \A j \in AttemptIndex : j # i => /\ attempts'[b][j] = attempts[b][j]
                                          /\ paidAppeal'[b][j] = paidAppeal[b][j]
  BY DEF ReturnAppealBond, TypeOK
<1>4. /\ attempts'[b][i].challenger = attempts[b][i].challenger
      /\ attempts'[b][i].bond = attempts[b][i].bond
      /\ attempts'[b][i].reservationId = attempts[b][i].reservationId
      /\ attempts'[b][i].settled = attempts[b][i].settled
      /\ attempts'[b][i].appealRecovered = TRUE
      /\ attempts'[b][i].appealBond = 0
  BY AttemptFields DEF ReturnAppealBond, TypeOK, AttemptRecord
<1>5. /\ ~attempts[b][i].settled /\ ~attempts[b][i].appealRecovered
      /\ attempts[b][i].appealBond > 0
  BY DEF AppealRecoverable
<1>6. AttemptTouched(b, i)
  BY <1>2, <1>3, <1>4, BoundIsRegistered DEF AttemptTouched
<1>7. PaidOnce(b)'
  <2>1. \A r \in ReservationId : BondDue(b, r)' = BondDue(b, r)
    BY <1>3, <1>4 DEF BondDue
  <2>2. \A j \in AttemptIndex : j # i => AppealDue(b, j)' = AppealDue(b, j)
    BY <1>3 DEF AppealDue
  <2>3. paidAppeal'[b][i] = AppealDue(b, i)'
    <3>1. attempts[b][i].appealBond = bounties[b].requiredBond
      BY <1>2, <1>5, <1>6 DEF AttemptTouched, Books, Consistent
    <3>2. paidAppeal[b][i] = 0
      BY <1>2, <1>5 DEF Books, PaidOnce, AppealDue
    <3>. QED
      BY <1>3, <1>4, <1>5, <3>1, <3>2, BountyFields DEF AppealDue
  <2>. QED
    BY <1>2, <1>3, <2>1, <2>2, <2>3 DEF Books, PaidOnce, RewardDue
<1>8. Books(b)'
  BY <1>2, <1>4, <1>6, <1>7, BooksAttemptTouched DEF Books
<1>. QED
  BY <1>1, <1>8, BooksFrame DEF AllBooks

\* A decision that settles an attempt, whatever it does with the reward.
AttemptSettled(b, i) ==
    /\ pendingAttempts'[b] = pendingAttempts[b]
    /\ ~attempts[b][i].settled
    /\ IsBound(b, i)
    /\ attempts'[b][i] = [attempts[b][i] EXCEPT !.settled = TRUE]
    /\ \A j \in AttemptIndex : j # i => attempts'[b][j] = attempts[b][j]
    /\ bounties'[b].creator = bounties[b].creator
    /\ bounties'[b].requiredBond = bounties[b].requiredBond
    /\ bounties'[b].registered = bounties[b].registered
    /\ paidReward'[b] = RewardDue(b)'
    /\ paidBond' = [paidBond EXCEPT ![b][attempts[b][i].reservationId] = @ + attempts[b][i].bond]
    /\ paidAppeal' = [paidAppeal EXCEPT ![b][i] = @ + attempts[b][i].appealBond]

LEMMA BooksAttemptSettled ==
    ASSUME TypeOK, NEW b \in BountyId, NEW i \in AttemptIndex, Books(b), AttemptSettled(b, i)
    PROVE  Books(b)'
<1>0. PICK res \in ReservationId : res = attempts[b][i].reservationId
  BY DEF AttemptSettled, Books, BackedOnce
<1>1. /\ attempts[b][i] # EmptyAttempt
      /\ pendingAttempts[b][res].bound
      /\ pendingAttempts[b][res].challenger # NoOne
      /\ attempts[b][i].bond = pendingAttempts[b][res].bond
      /\ attempts[b][i].appealBond \in {0, bounties[b].requiredBond}
  BY <1>0 DEF AttemptSettled, Books, BackedOnce, Consistent, Backing, IsBound, EmptyAttempt
<1>2. /\ attempts'[b][i].challenger = attempts[b][i].challenger
      /\ attempts'[b][i].bond = attempts[b][i].bond
      /\ attempts'[b][i].reservationId = res
      /\ attempts'[b][i].settled = TRUE
      /\ attempts'[b][i].appealRecovered = attempts[b][i].appealRecovered
      /\ attempts'[b][i].appealBond = attempts[b][i].appealBond
  BY <1>0, AttemptFields DEF AttemptSettled, AttemptRecord
<1>3. /\ paidBond'[b][res] = paidBond[b][res] + attempts[b][i].bond
      /\ \A r \in ReservationId : r # res => paidBond'[b][r] = paidBond[b][r]
      /\ paidAppeal'[b][i] = paidAppeal[b][i] + attempts[b][i].appealBond
      /\ \A j \in AttemptIndex : j # i => paidAppeal'[b][j] = paidAppeal[b][j]
  BY <1>0 DEF AttemptSettled, TypeOK
<1>4. AttemptTouched(b, i)
  BY <1>0, <1>1, <1>2, <1>3, BoundIsRegistered DEF AttemptTouched, AttemptSettled
<1>5. BackedOnce(b)' /\ Consistent(b)' /\ OnlyReward(b)'
  BY <1>1, <1>2, <1>4, BooksAttemptTouched
<1>6. paidBond'[b][res] = BondDue(b, res)'
  <2>1. \A j \in AttemptIndex : attempts[b][j].reservationId = res => ~attempts[b][j].settled
    <3>1. ASSUME NEW j \in AttemptIndex, attempts[b][j].reservationId = res,
                 attempts[b][j].settled
          PROVE  FALSE
      <4>1. IsBound(b, j)
        BY <1>1, <3>1, AddressAssumption DEF Books, Consistent, EmptyAttempt
      <4>2. j = i
        BY <1>0, <3>1, <4>1 DEF AttemptSettled, Books, BackedOnce
      <4>. QED
        BY <3>1, <4>2 DEF AttemptSettled
    <3>. QED
      BY <3>1
  <2>2. BondDue(b, res)' = bounties[b].requiredBond
    BY <1>2, <1>4 DEF BondDue, AttemptTouched
  <2>3. pendingAttempts[b][res].recovered \in BOOLEAN
    BY <1>1, PendingFields
  <2>4. CASE pendingAttempts[b][res].recovered
    <3>1. attempts[b][i].bond = 0
      BY <1>1, <2>4 DEF Books, Consistent
    <3>2. paidBond[b][res] = bounties[b].requiredBond
      BY <1>1, <2>4 DEF Books, PaidOnce, BondDue
    <3>. QED
      BY <1>3, <2>2, <3>1, <3>2, BountyFields
  <2>5. CASE ~pendingAttempts[b][res].recovered
    <3>1. attempts[b][i].bond = bounties[b].requiredBond
      BY <1>1, <2>5 DEF Books, Consistent
    <3>2. paidBond[b][res] = 0
      BY <1>1, <2>1, <2>5 DEF Books, PaidOnce, BondDue
    <3>. QED
      BY <1>3, <2>2, <3>1, <3>2, BountyFields
  <2>. QED
    BY <2>4, <2>5
<1>7. ASSUME NEW r \in ReservationId, r # res
      PROVE  paidBond'[b][r] = BondDue(b, r)'
  <2>1. BondDue(b, r)' = BondDue(b, r)
    BY <1>0, <1>2, <1>4, <1>7 DEF BondDue, AttemptTouched
  <2>. QED
    BY <1>3, <1>7, <2>1 DEF Books, PaidOnce
<1>8. paidAppeal'[b][i] = AppealDue(b, i)'
  <2>1. paidAppeal[b][i] = (IF attempts[b][i].appealRecovered THEN bounties[b].requiredBond ELSE 0)
    BY BountyFields DEF AttemptSettled, Books, PaidOnce, AppealDue
  <2>. QED
    BY <1>2, <1>3, <1>4, <2>1 DEF AppealDue, AttemptTouched
<1>9. \A j \in AttemptIndex : j # i => paidAppeal'[b][j] = AppealDue(b, j)'
  <2>1. \A j \in AttemptIndex : j # i => AppealDue(b, j)' = AppealDue(b, j)
    BY <1>4 DEF AppealDue, AttemptTouched
  <2>. QED
    BY <1>3, <2>1 DEF Books, PaidOnce
<1>10. PaidOnce(b)'
  BY <1>6, <1>7, <1>8, <1>9 DEF PaidOnce, AttemptSettled
<1>. QED
  BY <1>5, <1>10 DEF Books

LEMMA BooksExecuteBond ==
    ASSUME TypeOK, AllBooks, NEW b \in BountyId, NEW i \in AttemptIndex, NEW signer, NEW sender,
           NEW outcome, NEW recipient, NEW appealRecipient, NEW stateHash, NEW nonce \in Nat,
           ExecuteBond(sender, signer, b, i, outcome, recipient, appealRecipient, stateHash, nonce)
    PROVE  AllBooks'
<1>1. ASSUME NEW c \in BountyId, c # b PROVE SameBounty(c)
  BY <1>1 DEF ExecuteBond, SameBounty, TypeOK
<1>2. /\ bounties'[b].creator = bounties[b].creator
      /\ bounties'[b].reward = bounties[b].reward
      /\ bounties'[b].requiredBond = bounties[b].requiredBond
      /\ bounties'[b].registered = bounties[b].registered
      /\ bounties'[b].rewardSettled = bounties[b].rewardSettled
      /\ paidReward'[b] = paidReward[b]
  BY BountyFields DEF ExecuteBond, TypeOK, BountyRecord
<1>3. paidReward'[b] = RewardDue(b)'
  BY <1>2 DEF AllBooks, Books, PaidOnce, RewardDue
<1>4. AttemptSettled(b, i)
  BY <1>2, <1>3 DEF ExecuteBond, AttemptSettled, IsBound, TypeOK
<1>5. Books(b)'
  BY <1>4, BooksAttemptSettled DEF AllBooks
<1>. QED
  BY <1>1, <1>5, BooksFrame DEF AllBooks

LEMMA BooksExecuteWinner ==
    ASSUME TypeOK, AllBooks, NEW b \in BountyId, NEW i \in AttemptIndex, NEW signer, NEW sender,
           NEW payoutBps \in PayoutBps, NEW recipient \in Account, NEW appealRecipient,
           NEW stateHash, NEW nonce \in Nat,
           ExecuteWinner(sender, signer, b, i, payoutBps, recipient, appealRecipient, stateHash, nonce)
    PROVE  AllBooks'
<1>. DEFINE gross == Gross(bounties[b].reward, payoutBps)
            fee   == Fee(gross, bounties[b].feeBps)
<1>1. ASSUME NEW c \in BountyId, c # b PROVE SameBounty(c)
  BY <1>1 DEF ExecuteWinner, SameBounty, TypeOK
<1>2. /\ bounties'[b].creator = bounties[b].creator
      /\ bounties'[b].reward = bounties[b].reward
      /\ bounties'[b].requiredBond = bounties[b].requiredBond
      /\ bounties'[b].registered = bounties[b].registered
      /\ bounties'[b].rewardSettled = TRUE
      /\ ~bounties[b].rewardSettled
      /\ paidReward'[b] = paidReward[b] + (gross - fee) + fee + (bounties[b].reward - gross)
  BY BountyFields DEF ExecuteWinner, TypeOK, BountyRecord
<1>3. gross \in 0 .. bounties[b].reward
  BY ShareBound, BountyFields, AmountAssumption DEF ExecuteWinner, Gross
<1>. HIDE DEF gross
<1>4. fee \in 0 .. gross
  BY <1>3, ShareBound, BountyFields, AmountAssumption DEF Fee
<1>. HIDE DEF fee
<1>5. paidReward'[b] = RewardDue(b)'
  <2>1. paidReward[b] = 0
    BY <1>2 DEF AllBooks, Books, PaidOnce, RewardDue
  <2>. QED
    BY <1>2, <1>3, <1>4, <2>1, BountyFields DEF RewardDue
<1>6. IsBound(b, i)
  BY AddressAssumption DEF ExecuteWinner, IsBound
<1>7. AttemptSettled(b, i)
  BY <1>2, <1>5, <1>6 DEF ExecuteWinner, AttemptSettled, TypeOK
<1>8. Books(b)'
  BY <1>7, BooksAttemptSettled DEF AllBooks
<1>. QED
  BY <1>1, <1>8, BooksFrame DEF AllBooks

LEMMA BooksExecuteBountyRefund ==
    ASSUME TypeOK, AllBooks, NEW b \in BountyId, NEW signer, NEW sender, NEW recipient,
           NEW stateHash, NEW nonce \in Nat,
           ExecuteBountyRefund(sender, signer, b, recipient, stateHash, nonce)
    PROVE  AllBooks'
<1>1. ASSUME NEW c \in BountyId, c # b PROVE SameBounty(c)
  BY <1>1 DEF ExecuteBountyRefund, SameBounty, TypeOK
<1>2. /\ bounties'[b].creator = bounties[b].creator
      /\ bounties'[b].reward = bounties[b].reward
      /\ bounties'[b].requiredBond = bounties[b].requiredBond
      /\ bounties'[b].registered /\ bounties[b].registered
      /\ bounties'[b].rewardSettled = TRUE
      /\ ~bounties[b].rewardSettled
      /\ paidReward'[b] = paidReward[b] + bounties[b].reward
      /\ pendingAttempts'[b] = pendingAttempts[b] /\ attempts'[b] = attempts[b]
      /\ paidBond'[b] = paidBond[b] /\ paidAppeal'[b] = paidAppeal[b]
  BY BountyFields DEF ExecuteBountyRefund, DecisionAcceptable, TypeOK, BountyRecord
<1>3. Books(b)
  BY DEF AllBooks
<1>4. BackedOnce(b)'
  BY <1>2, <1>3 DEF Books, BackedOnce, IsBound, Backing
<1>5. Consistent(b)'
  <2>1. bounties[b].creator # NoOne
    BY <1>2, <1>3 DEF Books, Consistent, EmptyBounty
  <2>. QED
    BY <1>2, <1>3, <2>1 DEF Books, Consistent, IsBound, Backing
<1>6. PaidOnce(b)'
  <2>1. paidReward'[b] = RewardDue(b)'
    BY <1>2, <1>3, BountyFields DEF Books, PaidOnce, RewardDue
  <2>. QED
    BY <1>2, <1>3, <2>1 DEF Books, PaidOnce, BondDue, AppealDue
<1>7. Books(b)'
  BY <1>2, <1>4, <1>5, <1>6 DEF Books, OnlyReward
<1>. QED
  BY <1>1, <1>7, BooksFrame DEF AllBooks

-----------------------------------------------------------------------------
(* The two action properties, step by step.                                *)

SettledKept ==
    \A b \in BountyId, i \in AttemptIndex :
      attempts[b][i].settled => attempts'[b][i] = attempts[b][i]

ClaimsKept ==
    \A x \in Account :
      claimable'[x] < claimable[x] => claimable'[x] = 0 /\ usdc' = usdc - claimable[x]

\* A step that replaces an unsettled attempt leaves the settled ones alone.
LEMMA SettledKeptByUpdate ==
    ASSUME TypeOK, NEW b \in BountyId, NEW i \in AttemptIndex, NEW rec,
           attempts' = [attempts EXCEPT ![b][i] = rec], ~attempts[b][i].settled
    PROVE  SettledKept
<1>1. ASSUME NEW c \in BountyId, NEW j \in AttemptIndex, attempts[c][j].settled
      PROVE  attempts'[c][j] = attempts[c][j]
  <2>1. <<c, j>> # <<b, i>>
    BY <1>1
  <2>. QED
    BY <2>1 DEF TypeOK
<1>. QED
  BY <1>1 DEF SettledKept

\* A step that adds to claims leaves none smaller.
LEMMA ClaimsKeptByCredit ==
    ASSUME TypeOK, NEW x \in Account, NEW amount \in Nat,
           claimable' = [claimable EXCEPT ![x] = @ + amount]
    PROVE  ClaimsKept
<1>1. ASSUME NEW y \in Account PROVE claimable'[y] >= claimable[y]
  BY DEF TypeOK
<1>2. ASSUME NEW y \in Account PROVE claimable[y] \in Nat /\ claimable'[y] \in Nat
  BY DEF TypeOK
<1>. QED
  BY <1>1, <1>2 DEF ClaimsKept

LEMMA ClaimsKeptByWinner ==
    ASSUME TypeOK, NEW b \in BountyId, NEW i \in AttemptIndex, NEW signer, NEW sender,
           NEW payoutBps \in PayoutBps, NEW recipient, NEW appealRecipient,
           NEW stateHash, NEW nonce,
           ExecuteWinner(sender, signer, b, i, payoutBps, recipient, appealRecipient, stateHash, nonce)
    PROVE  ClaimsKept
<1>. DEFINE gross == Gross(bounties[b].reward, payoutBps)
            fee   == Fee(gross, bounties[b].feeBps)
<1>1. gross \in 0 .. bounties[b].reward
  BY ShareBound, BountyFields, AmountAssumption DEF ExecuteWinner, Gross
<1>2. claimable' = [x \in Account |->
                      claimable[x] + Due(x, recipient, gross - fee + attempts[b][i].bond)
                                   + Due(x, appealRecipient, attempts[b][i].appealBond)
                                   + Due(x, roles.treasury, fee)
                                   + Due(x, bounties[b].creator, bounties[b].reward - gross)]
  BY DEF ExecuteWinner
<1>. HIDE DEF gross
<1>3. fee \in 0 .. gross
  BY <1>1, ShareBound, BountyFields, AmountAssumption DEF Fee
<1>. HIDE DEF fee
<1>4. /\ gross - fee + attempts[b][i].bond \in Nat
      /\ attempts[b][i].appealBond \in Nat
      /\ fee \in Nat
      /\ bounties[b].reward - gross \in Nat
  BY <1>1, <1>3, BountyFields, AttemptFields
<1>5. ASSUME NEW x \in Account PROVE ~(claimable'[x] < claimable[x])
  <2>1. claimable[x] \in Nat
    BY DEF TypeOK
  <2>. QED
    BY <1>2, <1>4, <2>1 DEF Due
<1>. QED
  BY <1>5 DEF ClaimsKept

LEMMA ClaimsKeptByBond ==
    ASSUME TypeOK, NEW b \in BountyId, NEW i \in AttemptIndex, NEW signer, NEW sender,
           NEW outcome, NEW recipient, NEW appealRecipient, NEW stateHash, NEW nonce,
           ExecuteBond(sender, signer, b, i, outcome, recipient, appealRecipient, stateHash, nonce)
    PROVE  ClaimsKept
<1>1. attempts[b][i].bond \in Nat /\ attempts[b][i].appealBond \in Nat
  BY AttemptFields
<1>2. ASSUME NEW x \in Account PROVE ~(claimable'[x] < claimable[x])
  <2>1. claimable[x] \in Nat
    BY DEF TypeOK
  <2>. QED
    BY <1>1, <2>1 DEF ExecuteBond, Due
<1>. QED
  BY <1>2 DEF ClaimsKept

LEMMA ClaimsKeptByClaim ==
    ASSUME TypeOK, NEW sender, Claim(sender)
    PROVE  ClaimsKept
<1>1. ASSUME NEW x \in Account, claimable'[x] < claimable[x]
      PROVE  claimable'[x] = 0 /\ usdc' = usdc - claimable[x]
  BY <1>1 DEF Claim, TypeOK
<1>. QED
  BY <1>1 DEF ClaimsKept

\* A step that leaves the bounties, deposits and payments alone.
LEMMA BooksUntouched ==
    ASSUME AllBooks, UNCHANGED <<bounties, pendingAttempts, attempts, paidVars>>
    PROVE  AllBooks'
BY BooksFrame DEF AllBooks, SameBounty, paidVars

LEMMA KeptByNothing ==
    ASSUME TypeOK, UNCHANGED attempts, UNCHANGED claimable
    PROVE  SettledKept /\ ClaimsKept
BY DEF SettledKept, ClaimsKept, TypeOK

-----------------------------------------------------------------------------
(* Every step of the escrow. *)

Kept == TypeOK' /\ AllBooks' /\ SettledKept /\ ClaimsKept

LEMMA KeepFundBounty ==
    ASSUME TypeOK, AllBooks, NEW b \in BountyId, NEW signer, NEW sender \in Creator,
           NEW reward \in Reward, NEW bond \in Bond, NEW feeBps \in FeeBps, NEW expiry,
           FundBounty(sender, signer, b, reward, bond, feeBps, expiry)
    PROVE  Kept
<1>1. TypeOK'
  BY TypeFundBounty
<1>2. AllBooks'
  BY BooksFundBounty
<1>3. SettledKept
  BY KeptByNothing DEF FundBounty
<1>4. ClaimsKept
  BY KeptByNothing DEF FundBounty
<1>. QED
  BY <1>1, <1>2, <1>3, <1>4 DEF Kept

LEMMA KeepRegisterBounty ==
    ASSUME TypeOK, AllBooks, NEW b \in BountyId, NEW signer, NEW sender, RegisterBounty(sender, signer, b)
    PROVE  Kept
<1>1. TypeOK'
  BY TypeRegisterBounty
<1>2. AllBooks'
  BY BooksRegisterBounty
<1>3. SettledKept
  BY KeptByNothing DEF RegisterBounty
<1>4. ClaimsKept
  BY KeptByNothing DEF RegisterBounty
<1>. QED
  BY <1>1, <1>2, <1>3, <1>4 DEF Kept

LEMMA KeepRecoverOrphanBounty ==
    ASSUME TypeOK, AllBooks, NEW b \in BountyId, NEW sender \in Account, RecoverOrphanBounty(sender, b)
    PROVE  Kept
<1>1. TypeOK'
  BY TypeRecoverOrphanBounty
<1>2. AllBooks'
  BY BooksRecoverOrphanBounty
<1>3. SettledKept
  BY DEF RecoverOrphanBounty, SettledKept
<1>4. ClaimsKept
  BY ClaimsKeptByCredit, BountyFields DEF RecoverOrphanBounty
<1>. QED
  BY <1>1, <1>2, <1>3, <1>4 DEF Kept

LEMMA KeepFundAttempt ==
    ASSUME TypeOK, AllBooks, NEW b \in BountyId, NEW r \in ReservationId, NEW signer,
           NEW sender \in Challenger, NEW expiry \in Expiry, FundAttempt(sender, signer, b, r, expiry)
    PROVE  Kept
<1>1. TypeOK'
  BY TypeFundAttempt
<1>2. AllBooks'
  BY BooksFundAttempt
<1>3. SettledKept
  BY KeptByNothing DEF FundAttempt
<1>4. ClaimsKept
  BY KeptByNothing DEF FundAttempt
<1>. QED
  BY <1>1, <1>2, <1>3, <1>4 DEF Kept

LEMMA KeepBindAttempt ==
    ASSUME TypeOK, AllBooks, NEW b \in BountyId, NEW r \in ReservationId, NEW i \in AttemptIndex,
           NEW signer, NEW sender, BindAttempt(sender, signer, b, r, i)
    PROVE  Kept
<1>1. TypeOK'
  BY TypeBindAttempt
<1>2. AllBooks'
  BY BooksBindAttempt
<1>3. SettledKept
  <2>1. attempts[b][i].settled = FALSE
    BY DEF BindAttempt, AllBooks, Books, Consistent, IsBound, EmptyAttempt
  <2>. QED
    BY <2>1, SettledKeptByUpdate DEF BindAttempt
<1>4. ClaimsKept
  BY DEF BindAttempt, ClaimsKept, TypeOK
<1>. QED
  BY <1>1, <1>2, <1>3, <1>4 DEF Kept

LEMMA KeepRecoverPendingAttempt ==
    ASSUME TypeOK, AllBooks, NEW b \in BountyId, NEW r \in ReservationId,
           NEW sender \in Account, RecoverPendingAttempt(sender, b, r)
    PROVE  Kept
<1>1. TypeOK'
  BY TypeRecoverPendingAttempt
<1>2. AllBooks'
  BY BooksRecoverPendingAttempt
<1>3. SettledKept
  BY DEF RecoverPendingAttempt, SettledKept
<1>4. ClaimsKept
  BY ClaimsKeptByCredit, PendingFields DEF RecoverPendingAttempt
<1>. QED
  BY <1>1, <1>2, <1>3, <1>4 DEF Kept

LEMMA KeepFundAppeal ==
    ASSUME TypeOK, AllBooks, NEW b \in BountyId, NEW i \in AttemptIndex, NEW signer,
           NEW sender \in Appellant, NEW expiry \in Expiry, FundAppeal(sender, signer, b, i, expiry)
    PROVE  Kept
<1>1. TypeOK'
  BY TypeFundAppeal
<1>2. AllBooks'
  BY BooksFundAppeal
<1>3. SettledKept
  BY SettledKeptByUpdate DEF FundAppeal, AppealFundable
<1>4. ClaimsKept
  BY DEF FundAppeal, ClaimsKept, TypeOK
<1>. QED
  BY <1>1, <1>2, <1>3, <1>4 DEF Kept

LEMMA KeepBindAppeal ==
    ASSUME TypeOK, AllBooks, NEW b \in BountyId, NEW i \in AttemptIndex, NEW signer, NEW sender,
           NEW txHash \in TxHash, BindAppeal(sender, signer, b, i, txHash)
    PROVE  Kept
<1>1. TypeOK'
  BY TypeBindAppeal
<1>2. AllBooks'
  BY BooksBindAppeal
<1>3. SettledKept
  BY SettledKeptByUpdate DEF BindAppeal, AppealBindable
<1>4. ClaimsKept
  BY DEF BindAppeal, ClaimsKept, TypeOK
<1>. QED
  BY <1>1, <1>2, <1>3, <1>4 DEF Kept

LEMMA KeepReturnAppealBond ==
    ASSUME TypeOK, AllBooks, NEW b \in BountyId, NEW i \in AttemptIndex, NEW sender \in Account,
           NEW bound, NEW delay, AppealRecoverable(sender, b, i, bound, delay),
           ReturnAppealBond(sender, b, i)
    PROVE  Kept
<1>1. TypeOK'
  BY TypeReturnAppealBond
<1>2. AllBooks'
  BY BooksReturnAppealBond
<1>3. SettledKept
  BY SettledKeptByUpdate DEF ReturnAppealBond, AppealRecoverable
<1>4. ClaimsKept
  BY ClaimsKeptByCredit, AttemptFields DEF ReturnAppealBond
<1>. QED
  BY <1>1, <1>2, <1>3, <1>4 DEF Kept

LEMMA KeepExecuteWinner ==
    ASSUME TypeOK, AllBooks, NEW b \in BountyId, NEW i \in AttemptIndex, NEW signer, NEW sender,
           NEW payoutBps \in PayoutBps, NEW recipient \in Account, NEW appealRecipient,
           NEW stateHash \in StateHash, NEW nonce,
           ExecuteWinner(sender, signer, b, i, payoutBps, recipient, appealRecipient, stateHash, nonce)
    PROVE  Kept
<1>0. nonce \in Nat
  BY BountyFields DEF ExecuteWinner, DecisionAcceptable
<1>1. TypeOK'
  BY <1>0, TypeExecuteWinner
<1>2. AllBooks'
  BY <1>0, BooksExecuteWinner
<1>3. SettledKept
  <2>1. attempts' = [attempts EXCEPT ![b][i] = [attempts[b][i] EXCEPT !.settled = TRUE]]
    BY DEF ExecuteWinner
  <2>. QED
    BY <2>1, SettledKeptByUpdate DEF ExecuteWinner
<1>4. ClaimsKept
  BY ClaimsKeptByWinner
<1>. QED
  BY <1>1, <1>2, <1>3, <1>4 DEF Kept

LEMMA KeepExecuteBond ==
    ASSUME TypeOK, AllBooks, NEW b \in BountyId, NEW i \in AttemptIndex, NEW signer, NEW sender,
           NEW outcome, NEW recipient, NEW appealRecipient, NEW stateHash \in StateHash, NEW nonce,
           ExecuteBond(sender, signer, b, i, outcome, recipient, appealRecipient, stateHash, nonce)
    PROVE  Kept
<1>0. nonce \in Nat
  BY BountyFields DEF ExecuteBond, DecisionAcceptable
<1>1. TypeOK'
  BY <1>0, TypeExecuteBond
<1>2. AllBooks'
  BY <1>0, BooksExecuteBond
<1>3. SettledKept
  <2>1. attempts' = [attempts EXCEPT ![b][i] = [attempts[b][i] EXCEPT !.settled = TRUE]]
    BY DEF ExecuteBond
  <2>. QED
    BY <2>1, SettledKeptByUpdate DEF ExecuteBond
<1>4. ClaimsKept
  BY ClaimsKeptByBond
<1>. QED
  BY <1>1, <1>2, <1>3, <1>4 DEF Kept

LEMMA KeepExecuteBountyRefund ==
    ASSUME TypeOK, AllBooks, NEW b \in BountyId, NEW signer, NEW sender,
           NEW recipient \in Account, NEW stateHash \in StateHash, NEW nonce,
           ExecuteBountyRefund(sender, signer, b, recipient, stateHash, nonce)
    PROVE  Kept
<1>0. nonce \in Nat
  BY BountyFields DEF ExecuteBountyRefund, DecisionAcceptable
<1>1. TypeOK'
  BY <1>0, TypeExecuteBountyRefund
<1>2. AllBooks'
  BY <1>0, BooksExecuteBountyRefund
<1>3. SettledKept
  BY DEF ExecuteBountyRefund, SettledKept
<1>4. ClaimsKept
  BY ClaimsKeptByCredit, BountyFields DEF ExecuteBountyRefund
<1>. QED
  BY <1>1, <1>2, <1>3, <1>4 DEF Kept

LEMMA KeepClaim ==
    ASSUME TypeOK, AllBooks, NEW sender \in Claimer, Claim(sender)
    PROVE  Kept
<1>1. TypeOK'
  BY TypeClaim
<1>2. AllBooks'
  BY BooksUntouched DEF Claim
<1>3. SettledKept
  BY DEF Claim, SettledKept
<1>4. ClaimsKept
  BY ClaimsKeptByClaim
<1>. QED
  BY <1>1, <1>2, <1>3, <1>4 DEF Kept

LEMMA KeepSetRole ==
    ASSUME TypeOK, AllBooks, NEW sender, NEW role, NEW value, SetRole(sender, role, value),
           roles' \in Roles
    PROVE  Kept
<1>1. TypeOK'
  BY DEF SetRole, TypeOK, paidVars
<1>2. AllBooks'
  BY BooksUntouched DEF SetRole
<1>3. SettledKept
  BY KeptByNothing DEF SetRole
<1>4. ClaimsKept
  BY KeptByNothing DEF SetRole
<1>. QED
  BY <1>1, <1>2, <1>3, <1>4 DEF Kept

LEMMA KeepTick ==
    ASSUME TypeOK, AllBooks, Tick
    PROVE  Kept
<1>1. TypeOK'
  BY DEF Tick, TypeOK, paidVars
<1>2. AllBooks'
  BY BooksUntouched DEF Tick
<1>3. SettledKept
  BY KeptByNothing DEF Tick
<1>4. ClaimsKept
  BY KeptByNothing DEF Tick
<1>. QED
  BY <1>1, <1>2, <1>3, <1>4 DEF Kept

LEMMA KeepStutter ==
    ASSUME TypeOK, AllBooks, UNCHANGED vars
    PROVE  Kept
<1>1. TypeOK'
  BY DEF vars, TypeOK
<1>2. AllBooks'
  BY BooksUntouched DEF vars, paidVars
<1>3. SettledKept
  BY KeptByNothing DEF vars
<1>4. ClaimsKept
  BY KeptByNothing DEF vars
<1>. QED
  BY <1>1, <1>2, <1>3, <1>4 DEF Kept

LEMMA NextKeeps ==
    ASSUME TypeOK, AllBooks, [Next]_vars
    PROVE  Kept
<1>1. CASE Tick
  BY <1>1, KeepTick
<1>2. ASSUME NEW sender \in Claimer, Claim(sender) PROVE Kept
  BY <1>2, KeepClaim
<1>3. ASSUME NEW sender \in OwnerKey,
             \/ \E value \in RelayerKey : SetRole(sender, "relayer", value)
             \/ \E value \in SignerKey : SetRole(sender, "decisionSigner", value)
             \/ \E value \in Treasury : SetRole(sender, "treasury", value)
             \/ \E value \in OwnerKey : SetRole(sender, "owner", value)
      PROVE  Kept
  <2>1. roles \in Roles
    BY DEF TypeOK
  <2>2. ASSUME NEW value \in RelayerKey, SetRole(sender, "relayer", value) PROVE Kept
    BY <2>1, <2>2, KeepSetRole DEF SetRole, Roles
  <2>3. ASSUME NEW value \in SignerKey, SetRole(sender, "decisionSigner", value) PROVE Kept
    BY <2>1, <2>3, KeepSetRole DEF SetRole, Roles
  <2>4. ASSUME NEW value \in Treasury, SetRole(sender, "treasury", value) PROVE Kept
    BY <2>1, <2>4, KeepSetRole DEF SetRole, Roles
  <2>5. ASSUME NEW value \in OwnerKey, SetRole(sender, "owner", value) PROVE Kept
    BY <2>1, <2>5, KeepSetRole DEF SetRole, Roles
  <2>. QED
    BY <1>3, <2>2, <2>3, <2>4, <2>5
<1>4. ASSUME NEW b \in BountyId, NEW sender \in Account,
             \/ RecoverOrphanBounty(sender, b)
             \/ \E r \in ReservationId : RecoverPendingAttempt(sender, b, r)
             \/ \E i \in AttemptIndex : RecoverUnactivatedAppeal(sender, b, i)
             \/ \E i \in AttemptIndex, signer \in SignerKey :
                  RecoverAbandonedBoundAppeal(sender, signer, b, i)
      PROVE  Kept
  <2>1. ASSUME NEW i \in AttemptIndex, RecoverUnactivatedAppeal(sender, b, i) PROVE Kept
    BY <2>1, KeepReturnAppealBond DEF RecoverUnactivatedAppeal
  <2>2. ASSUME NEW i \in AttemptIndex, NEW signer, RecoverAbandonedBoundAppeal(sender, signer, b, i)
        PROVE  Kept
    BY <2>2, KeepReturnAppealBond DEF RecoverAbandonedBoundAppeal
  <2>. QED
    BY <1>4, <2>1, <2>2, KeepRecoverOrphanBounty, KeepRecoverPendingAttempt
<1>5. ASSUME NEW b \in BountyId, NEW signer \in SignerKey, NEW expiry \in Expiry,
             \/ \E sender \in Creator, reward \in Reward, bond \in Bond, feeBps \in FeeBps :
                  FundBounty(sender, signer, b, reward, bond, feeBps, expiry)
             \/ \E sender \in Challenger, r \in ReservationId :
                  FundAttempt(sender, signer, b, r, expiry)
             \/ \E sender \in Appellant, i \in AttemptIndex :
                  FundAppeal(sender, signer, b, i, expiry)
      PROVE  Kept
  BY <1>5, KeepFundBounty, KeepFundAttempt, KeepFundAppeal
<1>6. ASSUME NEW b \in BountyId, NEW sender \in RelayerKey, NEW signer \in SignerKey,
             \/ RegisterBounty(sender, signer, b)
             \/ \E r \in ReservationId, i \in AttemptIndex : BindAttempt(sender, signer, b, r, i)
             \/ \E i \in AttemptIndex, txHash \in TxHash : BindAppeal(sender, signer, b, i, txHash)
             \/ \E stateHash \in StateHash, nonce \in 1 .. Cardinality(StateHash),
                   recipient \in Account :
                  \/ ExecuteBountyRefund(sender, signer, b, recipient, stateHash, nonce)
                  \/ \E i \in AttemptIndex, appealRecipient \in Account \cup {NoOne} :
                       \/ \E outcome \in {"BondRefund", "BondForfeit"} :
                            ExecuteBond(sender, signer, b, i, outcome, recipient,
                                        appealRecipient, stateHash, nonce)
                       \/ \E payoutBps \in PayoutBps :
                            ExecuteWinner(sender, signer, b, i, payoutBps, recipient,
                                          appealRecipient, stateHash, nonce)
      PROVE  Kept
  <2>1. ASSUME NEW stateHash \in StateHash, NEW nonce, NEW recipient \in Account,
               NEW i \in AttemptIndex, NEW appealRecipient,
               \/ \E outcome \in {"BondRefund", "BondForfeit"} :
                    ExecuteBond(sender, signer, b, i, outcome, recipient,
                                appealRecipient, stateHash, nonce)
               \/ \E payoutBps \in PayoutBps :
                    ExecuteWinner(sender, signer, b, i, payoutBps, recipient,
                                  appealRecipient, stateHash, nonce)
        PROVE  Kept
    BY <2>1, KeepExecuteBond, KeepExecuteWinner
  <2>2. ASSUME NEW stateHash \in StateHash, NEW nonce, NEW recipient \in Account,
               ExecuteBountyRefund(sender, signer, b, recipient, stateHash, nonce)
        PROVE  Kept
    BY <2>2, KeepExecuteBountyRefund
  <2>. QED
    BY <1>6, <2>1, <2>2, KeepRegisterBounty, KeepBindAttempt, KeepBindAppeal
<1>7. CASE UNCHANGED vars
  BY <1>7, KeepStutter
<1>8. CASE Next
  BY <1>1, <1>2, <1>3, <1>4, <1>5, <1>6, <1>8, ZenonT(60) DEF Next
<1>. QED
  BY <1>7, <1>8

\* The invariant all the theorems below rest on.
LEMMA Inductive == Spec => [](TypeOK /\ AllBooks)
<1>1. Init => TypeOK /\ AllBooks
  BY InitType, InitBooks
<1>2. TypeOK /\ AllBooks /\ [Next]_vars => (TypeOK /\ AllBooks)'
  BY NextKeeps DEF Kept
<1>. QED
  BY <1>1, <1>2, PTL DEF Spec

\* The state is always well typed: no uint256 subtraction of a settlement underflows.
THEOREM TypeCorrect == Spec => []TypeOK
BY Inductive, PTL

\* Whatever the relayer and the decision signer order, a reservation backs at
\* most one attempt, and a bound attempt is backed by its own challenger's deposit.
THEOREM ReservationsCorrect == Spec => []ReservationsBackOneAttempt
<1>1. AllBooks => ReservationsBackOneAttempt
  BY DEF AllBooks, Books, ReservationsBackOneAttempt
<1>. QED
  BY <1>1, Inductive, PTL

\* The contract's storage is always consistent, also after an orphan's slot is reused.
THEOREM StorageCorrect == Spec => []StorageConsistent
<1>1. AllBooks => StorageConsistent
  BY DEF AllBooks, Books, StorageConsistent
<1>. QED
  BY <1>1, Inductive, PTL

\* No deposit is ever credited twice, or in part.
THEOREM PaymentsCorrect == Spec => []DepositsPaidOnce
<1>1. AllBooks => DepositsPaidOnce
  BY DEF AllBooks, Books, DepositsPaidOnce
<1>. QED
  BY <1>1, Inductive, PTL

\* Deleting an orphan's slot never strands a bond or an appeal deposit.
THEOREM OrphansHoldOnlyReward == Spec => []UnregisteredHoldsOnlyReward
<1>1. AllBooks => UnregisteredHoldsOnlyReward
  BY DEF AllBooks, Books, UnregisteredHoldsOnlyReward
<1>. QED
  BY <1>1, Inductive, PTL

\* No step changes a settled attempt.
THEOREM SettledCorrect == Spec => SettledAttemptsFrozen
<1>1. TypeOK /\ AllBooks /\ [Next]_vars => SettledKept
  BY NextKeeps DEF Kept
<1>2. SettledKept =>
        \A b \in BountyId, i \in AttemptIndex :
          attempts[b][i].settled => attempts'[b][i] = attempts[b][i]
  BY DEF SettledKept
<1>. QED
  BY <1>1, <1>2, Inductive, PTL DEF Spec, SettledAttemptsFrozen

\* No step lowers a claim except the withdrawal of the whole of it.
THEOREM ClaimsCorrect == Spec => ClaimsLeaveWhole
<1>1. TypeOK /\ AllBooks /\ [Next]_vars => ClaimsKept
  BY NextKeeps DEF Kept
<1>2. ClaimsKept =>
        \A x \in Account :
          claimable'[x] < claimable[x] => claimable'[x] = 0 /\ usdc' = usdc - claimable[x]
  BY DEF ClaimsKept
<1>. QED
  BY <1>1, <1>2, Inductive, PTL DEF Spec, ClaimsLeaveWhole

LEMMA LeastNatural ==
    ASSUME NEW N, N \subseteq Nat, N # {}
    PROVE  \E n \in N : \A m \in N : n <= m
<1>. DEFINE R == OpToRel(<, Nat)
<1>1. IsWellFoundedOn(R, Nat)
  BY NatLessThanWellFounded
<1>2. \E n \in N : \A m \in N : ~(<<m, n>> \in R)
  <2>. HIDE DEF R
  <2>. QED
    BY <1>1, WFMin
<1>3. \A m, n \in N : <<m, n>> \in R <=> m < n
  BY DEF OpToRel
<1>4. PICK n \in N : \A m \in N : ~(<<m, n>> \in R)
  BY <1>2
<1>. HIDE DEF R
<1>5. ASSUME NEW m \in N PROVE n <= m
  <2>1. ~(m < n)
    BY <1>3, <1>4
  <2>2. m \in Nat /\ n \in Nat
    OBVIOUS
  <2>. QED
    BY ONLY <2>1, <2>2
<1>. QED
  BY <1>5

\* Induction over the subsets of a finite set, for a property given as the set of
\* the subsets that have it.
LEMMA SubsetInduction ==
    ASSUME NEW S, IsFiniteSet(S), NEW Good, {} \in Good,
           \A s \in SUBSET S : s # {} /\ (\A x \in s : s \ {x} \in Good) => s \in Good
    PROVE  \A s \in SUBSET S : s \in Good
<1>. SUFFICES ASSUME NEW bad \in SUBSET S, bad \notin Good
              PROVE  FALSE
  OBVIOUS
<1>. DEFINE Size == {Cardinality(s) : s \in {t \in SUBSET S : t \notin Good}}
<1>1. \A s \in SUBSET S : IsFiniteSet(s) /\ Cardinality(s) \in Nat
  BY FS_Subset, FS_CardinalityType
<1>2. Size \in SUBSET Nat /\ Size # {}
  BY <1>1
<1>3. PICK n \in Size : \A m \in Size : n <= m
  BY <1>2, LeastNatural
<1>4. PICK s \in SUBSET S : s \notin Good /\ Cardinality(s) = n
  OBVIOUS
<1>5. PICK x \in s : s \ {x} \notin Good
  BY <1>4
<1>6. Cardinality(s \ {x}) = Cardinality(s) - 1
  BY <1>1, FS_RemoveElement
<1>7. Cardinality(s \ {x}) \in Size
  BY <1>5
<1>8. n <= n - 1
  BY <1>3, <1>4, <1>6, <1>7
<1>. QED
  BY <1>2, <1>8

\* One unfolding of the sum of f over s, given the sums g over smaller sets.
Unfolded(f, g, s) ==
    IF s = {} THEN 0
    ELSE LET x == CHOOSE x \in s : TRUE IN f[x] + g[s \ {x}]

IsSum(f, g, S) == g = [s \in SUBSET S |-> Unfolded(f, g, s)]

LEMMA SumIsFold ==
    ASSUME NEW f, NEW S
    PROVE  SumFunctionOnSet(f, S) = (CHOOSE g : IsSum(f, g, S))[S]
BY DEF SumFunctionOnSet, FoldFunctionOnSet, MapThenFoldSet, IsSum, Unfolded

SumsUpTo(f, g, S, n) ==
    \A s \in SUBSET S : Cardinality(s) <= n => g[s] = Unfolded(f, g, s)

LEMMA SumExists ==
    ASSUME NEW f, NEW S, IsFiniteSet(S)
    PROVE  \E g : IsSum(f, g, S)
<1>0. \A s \in SUBSET S : /\ IsFiniteSet(s) /\ Cardinality(s) \in Nat
                          /\ s # {} => Cardinality(s \ {CHOOSE x \in s : TRUE}) = Cardinality(s) - 1
  BY FS_Subset, FS_CardinalityType, FS_RemoveElement
<1>1. \A n \in Nat : \E g : SumsUpTo(f, g, S, n)
  <2>1. \E g : SumsUpTo(f, g, S, 0)
    <3>1. SumsUpTo(f, [s \in SUBSET S |-> 0], S, 0)
      <4>1. \A s \in SUBSET S : Cardinality(s) <= 0 => s = {}
        BY <1>0, FS_EmptySet
      <4>. QED
        BY <4>1 DEF SumsUpTo, Unfolded
    <3>. QED
      BY <3>1
  <2>2. ASSUME NEW n \in Nat, NEW g, SumsUpTo(f, g, S, n)
        PROVE  \E h : SumsUpTo(f, h, S, n + 1)
    <3>. DEFINE h == [s \in SUBSET S |-> IF Cardinality(s) <= n THEN g[s] ELSE Unfolded(f, g, s)]
    <3>1. ASSUME NEW s \in SUBSET S, Cardinality(s) <= n + 1
          PROVE  h[s] = Unfolded(f, h, s)
      <4>1. h[s] = Unfolded(f, g, s)
        BY <2>2 DEF SumsUpTo
      <4>2. Unfolded(f, h, s) = Unfolded(f, g, s)
        <5>1. CASE s = {}
          BY <5>1 DEF Unfolded
        <5>2. CASE s # {}
          <6>. DEFINE x == CHOOSE x \in s : TRUE
          <6>0. Cardinality(s) \in Nat /\ Cardinality(s \ {x}) = Cardinality(s) - 1
            BY <1>0, <5>2
          <6>1. Cardinality(s \ {x}) <= n
            <7>. HIDE DEF x, h
            <7>. QED
              BY <3>1, <6>0
          <6>2. h[s \ {x}] = g[s \ {x}]
            BY <6>1
          <6>. QED
            BY <6>2 DEF Unfolded
        <5>. QED
          BY <5>1, <5>2
      <4>. QED
        BY <4>1, <4>2
    <3>2. SumsUpTo(f, h, S, n + 1)
      BY <3>1 DEF SumsUpTo
    <3>. QED
      BY <3>2
  <2>. DEFINE Bad == {n \in Nat : ~ \E g : SumsUpTo(f, g, S, n)}
  <2>. SUFFICES ASSUME Bad # {} PROVE FALSE
    OBVIOUS
  <2>3. PICK n \in Bad : \A m \in Bad : n <= m
    BY LeastNatural
  <2>4. n \in Nat \ {0}
    BY <2>1
  <2>5. n - 1 \notin Bad
    BY <2>3, <2>4
  <2>6. PICK g : SumsUpTo(f, g, S, n - 1)
    BY <2>4, <2>5
  <2>7. \E h : SumsUpTo(f, h, S, (n - 1) + 1)
    BY <2>2, <2>4, <2>6
  <2>. QED
    BY <2>4, <2>7
<1>2. PICK g : SumsUpTo(f, g, S, Cardinality(S))
  BY <1>0, <1>1
<1>. DEFINE h == [s \in SUBSET S |-> g[s]]
<1>3. \A s \in SUBSET S : Cardinality(s) <= Cardinality(S)
  BY FS_Subset
<1>4. ASSUME NEW s \in SUBSET S
      PROVE  h[s] = Unfolded(f, h, s)
  <2>1. g[s] = Unfolded(f, g, s)
    BY <1>2, <1>3 DEF SumsUpTo
  <2>. QED
    BY <2>1 DEF Unfolded
<1>5. IsSum(f, h, S)
  BY <1>4 DEF IsSum
<1>. QED
  BY <1>5

\* The sums of f over the subsets of S.
Sums(f, S) == CHOOSE g : IsSum(f, g, S)

LEMMA SumsUnfold ==
    ASSUME NEW f, NEW S, IsFiniteSet(S), NEW s \in SUBSET S
    PROVE  Sums(f, S)[s] = Unfolded(f, Sums(f, S), s)
<1>. DEFINE g == Sums(f, S)
<1>1. IsSum(f, g, S)
  BY SumExists DEF Sums
<1>. QED
  BY <1>1 DEF IsSum

LEMMA SumsType ==
    ASSUME NEW f, NEW S, IsFiniteSet(S), \A x \in S : f[x] \in Int
    PROVE  \A s \in SUBSET S : Sums(f, S)[s] \in Int
<1>. DEFINE g == Sums(f, S)
            Good == {s \in SUBSET S : g[s] \in Int}
<1>1. {} \in Good
  BY SumsUnfold DEF Unfolded
<1>2. ASSUME NEW s \in SUBSET S, s # {}, \A x \in s : s \ {x} \in Good
      PROVE  s \in Good
  <2>. DEFINE x == CHOOSE x \in s : TRUE
  <2>0. x \in s
    BY <1>2
  <2>1. g[s] = f[x] + g[s \ {x}]
    BY <1>2, SumsUnfold DEF Unfolded
  <2>2. g[s \ {x}] \in Int
    BY <1>2, <2>0
  <2>. QED
    BY <2>0, <2>1, <2>2
<1>3. \A s \in SUBSET S : s \in Good
  <2>. HIDE DEF Good
  <2>. QED
    BY <1>1, <1>2, SubsetInduction
<1>. QED
  BY <1>3

\* Any element may be taken out first.
LEMMA SumsTakeOut ==
    ASSUME NEW f, NEW S, IsFiniteSet(S), \A x \in S : f[x] \in Int
    PROVE  \A s \in SUBSET S : \A y \in s : Sums(f, S)[s] = f[y] + Sums(f, S)[s \ {y}]
<1>. DEFINE g == Sums(f, S)
            Good == {s \in SUBSET S : \A y \in s : g[s] = f[y] + g[s \ {y}]}
<1>1. {} \in Good
  OBVIOUS
<1>2. ASSUME NEW s \in SUBSET S, s # {}, \A x \in s : s \ {x} \in Good
      PROVE  s \in Good
  <2>. SUFFICES ASSUME NEW y \in s PROVE g[s] = f[y] + g[s \ {y}]
    OBVIOUS
  <2>. DEFINE x == CHOOSE x \in s : TRUE
  <2>0. x \in s
    BY <1>2
  <2>1. g[s] = f[x] + g[s \ {x}]
    BY <1>2, SumsUnfold DEF Unfolded
  <2>2. CASE x = y
    BY <2>1, <2>2
  <2>3. CASE x # y
    <3>1. g[s \ {x}] = f[y] + g[(s \ {x}) \ {y}]
      BY <1>2, <2>0, <2>3
    <3>2. g[s \ {y}] = f[x] + g[(s \ {y}) \ {x}]
      BY <1>2, <2>0, <2>3
    <3>3. (s \ {y}) \ {x} = (s \ {x}) \ {y}
      OBVIOUS
    <3>4. f[x] \in Int /\ f[y] \in Int /\ g[(s \ {x}) \ {y}] \in Int
      BY <2>0, SumsType
    <3>5. g[s] = f[x] + (f[y] + g[(s \ {x}) \ {y}])
      BY <2>1, <3>1
    <3>6. g[s \ {y}] = f[x] + g[(s \ {x}) \ {y}]
      BY <3>2, <3>3
    <3>. HIDE DEF g, x, Good
    <3>. QED
      BY <3>4, <3>5, <3>6
  <2>. QED
    BY <2>2, <2>3
<1>3. \A s \in SUBSET S : s \in Good
  <2>. HIDE DEF Good
  <2>. QED
    BY <1>1, <1>2, SubsetInduction
<1>. QED
  BY <1>3

\* The sum over a subset does not depend on the set it is a subset of.
LEMMA SumsOfSubset ==
    ASSUME NEW f, NEW S, IsFiniteSet(S), NEW T \in SUBSET S
    PROVE  Sums(f, S)[T] = Sums(f, T)[T]
<1>. DEFINE g == Sums(f, S)
            h == Sums(f, T)
            Good == {s \in SUBSET T : g[s] = h[s]}
<1>0. IsFiniteSet(T)
  BY FS_Subset
<1>a. \A s \in SUBSET T : g[s] = Unfolded(f, g, s) /\ h[s] = Unfolded(f, h, s)
  BY <1>0, SumsUnfold
<1>. HIDE DEF g, h
<1>1. {} \in Good
  BY <1>a DEF Unfolded
<1>2. ASSUME NEW s \in SUBSET T, s # {}, \A x \in s : s \ {x} \in Good
      PROVE  s \in Good
  <2>. DEFINE x == CHOOSE x \in s : TRUE
  <2>0. x \in s
    BY <1>2
  <2>1. g[s \ {x}] = h[s \ {x}]
    BY <1>2, <2>0
  <2>. QED
    BY <1>2, <1>a, <2>1 DEF Unfolded
<1>3. \A s \in SUBSET T : s \in Good
  <2>. HIDE DEF Good
  <2>. QED
    BY <1>0, <1>1, <1>2, SubsetInduction
<1>. QED
  BY <1>3 DEF g, h

\* The sum over a finite set: nothing for the empty set, and any element apart.
LEMMA SumEmpty ==
    ASSUME NEW f
    PROVE  SumFunctionOnSet(f, {}) = 0
<1>1. IsFiniteSet({})
  BY FS_EmptySet
<1>. QED
  BY <1>1, SumIsFold, SumsUnfold DEF Sums, Unfolded

LEMMA SumType ==
    ASSUME NEW f, NEW S, IsFiniteSet(S), \A x \in S : f[x] \in Int
    PROVE  SumFunctionOnSet(f, S) \in Int
BY SumIsFold, SumsType DEF Sums

LEMMA SumTakeOut ==
    ASSUME NEW f, NEW S, IsFiniteSet(S), \A x \in S : f[x] \in Int, NEW y \in S
    PROVE  /\ SumFunctionOnSet(f, S) = f[y] + SumFunctionOnSet(f, S \ {y})
           /\ SumFunctionOnSet(f, S \ {y}) \in Int
<1>1. Sums(f, S)[S] = f[y] + Sums(f, S)[S \ {y}]
  BY SumsTakeOut
<1>2. Sums(f, S)[S \ {y}] = Sums(f, S \ {y})[S \ {y}]
  BY SumsOfSubset
<1>3. IsFiniteSet(S \ {y})
  BY FS_RemoveElement
<1>4. SumFunctionOnSet(f, S \ {y}) \in Int
  BY <1>3, SumType
<1>. QED
  BY <1>1, <1>2, <1>4, SumIsFold DEF Sums

\* Sums of the same values are the same.
LEMMA SumSame ==
    ASSUME NEW f, NEW g, NEW S, IsFiniteSet(S),
           \A x \in S : f[x] \in Int /\ g[x] = f[x]
    PROVE  SumFunctionOnSet(g, S) = SumFunctionOnSet(f, S)
<1>. DEFINE Good == {s \in SUBSET S : SumFunctionOnSet(g, s) = SumFunctionOnSet(f, s)}
<1>1. {} \in Good
  BY SumEmpty
<1>2. ASSUME NEW s \in SUBSET S, s # {}, \A x \in s : s \ {x} \in Good
      PROVE  s \in Good
  <2>1. PICK x \in s : TRUE
    BY <1>2
  <2>2. IsFiniteSet(s)
    BY FS_Subset
  <2>3. /\ SumFunctionOnSet(f, s) = f[x] + SumFunctionOnSet(f, s \ {x})
        /\ SumFunctionOnSet(g, s) = g[x] + SumFunctionOnSet(g, s \ {x})
    BY <2>2, SumTakeOut
  <2>4. SumFunctionOnSet(g, s \ {x}) = SumFunctionOnSet(f, s \ {x})
    BY <1>2
  <2>. QED
    BY <2>3, <2>4
<1>3. \A s \in SUBSET S : s \in Good
  <2>. HIDE DEF Good
  <2>. QED
    BY <1>1, <1>2, SubsetInduction
<1>. QED
  BY <1>3

LEMMA SumAdd ==
    ASSUME NEW f, NEW g, NEW h, NEW S, IsFiniteSet(S),
           \A x \in S : f[x] \in Int /\ g[x] \in Int /\ h[x] = f[x] + g[x]
    PROVE  SumFunctionOnSet(h, S) = SumFunctionOnSet(f, S) + SumFunctionOnSet(g, S)
<1>. DEFINE Good == {s \in SUBSET S :
                        SumFunctionOnSet(h, s) = SumFunctionOnSet(f, s) + SumFunctionOnSet(g, s)}
<1>1. {} \in Good
  BY SumEmpty
<1>2. ASSUME NEW s \in SUBSET S, s # {}, \A x \in s : s \ {x} \in Good
      PROVE  s \in Good
  <2>1. PICK x \in s : TRUE
    BY <1>2
  <2>2. IsFiniteSet(s) /\ \A y \in s : h[y] \in Int
    BY FS_Subset
  <2>3. /\ SumFunctionOnSet(f, s) = f[x] + SumFunctionOnSet(f, s \ {x})
        /\ SumFunctionOnSet(f, s \ {x}) \in Int
    BY <2>2, SumTakeOut
  <2>a. /\ SumFunctionOnSet(g, s) = g[x] + SumFunctionOnSet(g, s \ {x})
        /\ SumFunctionOnSet(g, s \ {x}) \in Int
    BY <2>2, SumTakeOut
  <2>b. SumFunctionOnSet(h, s) = h[x] + SumFunctionOnSet(h, s \ {x})
    BY <2>2, SumTakeOut
  <2>4. SumFunctionOnSet(h, s \ {x})
          = SumFunctionOnSet(f, s \ {x}) + SumFunctionOnSet(g, s \ {x})
    BY <1>2
  <2>5. f[x] \in Int /\ g[x] \in Int /\ h[x] = f[x] + g[x]
    OBVIOUS
  <2>6. SumFunctionOnSet(h, s) = SumFunctionOnSet(f, s) + SumFunctionOnSet(g, s)
    BY ONLY <2>3, <2>4, <2>5, <2>a, <2>b
  <2>. QED
    BY <2>6
<1>3. \A s \in SUBSET S : s \in Good
  <2>. HIDE DEF Good
  <2>. QED
    BY <1>1, <1>2, SubsetInduction
<1>. QED
  BY <1>3

LEMMA SumSplit ==
    ASSUME NEW f, NEW S, IsFiniteSet(S), \A x \in S : f[x] \in Int, NEW T \in SUBSET S
    PROVE  SumFunctionOnSet(f, S) = SumFunctionOnSet(f, T) + SumFunctionOnSet(f, S \ T)
<1>. DEFINE Good == {s \in SUBSET S :
                        SumFunctionOnSet(f, S) = SumFunctionOnSet(f, s) + SumFunctionOnSet(f, S \ s)}
<1>1. {} \in Good
  <2>1. S \ {} = S
    OBVIOUS
  <2>. QED
    BY <2>1, SumEmpty, SumType
<1>2. ASSUME NEW s \in SUBSET S, s # {}, \A x \in s : s \ {x} \in Good
      PROVE  s \in Good
  <2>1. PICK x \in s : TRUE
    BY <1>2
  <2>. DEFINE rest == S \ (s \ {x})
  <2>2. /\ IsFiniteSet(s) /\ IsFiniteSet(rest)
        /\ x \in rest /\ rest \ {x} = S \ s
        /\ \A y \in rest : f[y] \in Int
    BY FS_Subset
  <2>. HIDE DEF rest
  <2>3. /\ SumFunctionOnSet(f, s) = f[x] + SumFunctionOnSet(f, s \ {x})
        /\ SumFunctionOnSet(f, s \ {x}) \in Int
    BY <2>2, SumTakeOut
  <2>4. /\ SumFunctionOnSet(f, rest) = f[x] + SumFunctionOnSet(f, S \ s)
        /\ SumFunctionOnSet(f, S \ s) \in Int
    <3>1. /\ SumFunctionOnSet(f, rest) = f[x] + SumFunctionOnSet(f, rest \ {x})
          /\ SumFunctionOnSet(f, rest \ {x}) \in Int
      BY <2>2, SumTakeOut
    <3>. QED
      BY <2>2, <3>1
  <2>5. SumFunctionOnSet(f, S) = SumFunctionOnSet(f, s \ {x}) + SumFunctionOnSet(f, rest)
    BY <1>2 DEF rest
  <2>6. f[x] \in Int
    OBVIOUS
  <2>7. SumFunctionOnSet(f, S) = SumFunctionOnSet(f, s) + SumFunctionOnSet(f, S \ s)
    BY ONLY <2>3, <2>4, <2>5, <2>6
  <2>. QED
    BY <2>7
<1>3. \A s \in SUBSET S : s \in Good
  <2>. HIDE DEF Good
  <2>. QED
    BY <1>1, <1>2, SubsetInduction
<1>. QED
  BY <1>3

LEMMA SumZero ==
    ASSUME NEW f, NEW S, IsFiniteSet(S), \A x \in S : f[x] = 0
    PROVE  SumFunctionOnSet(f, S) = 0
<1>1. SumFunctionOnSet(f, S) = SumFunctionOnSet(f, S) + SumFunctionOnSet(f, S)
  BY SumAdd
<1>2. SumFunctionOnSet(f, S) \in Int
  BY SumType
<1>3. \A x \in Int : x = x + x => x = 0
  OBVIOUS
<1>. QED
  BY ONLY <1>1, <1>2, <1>3

LEMMA SumNat ==
    ASSUME NEW f, NEW S, IsFiniteSet(S), \A x \in S : f[x] \in Nat
    PROVE  SumFunctionOnSet(f, S) \in Nat
<1>. DEFINE Good == {s \in SUBSET S : SumFunctionOnSet(f, s) \in Nat}
<1>1. {} \in Good
  BY SumEmpty
<1>2. ASSUME NEW s \in SUBSET S, s # {}, \A x \in s : s \ {x} \in Good
      PROVE  s \in Good
  <2>1. PICK x \in s : TRUE
    BY <1>2
  <2>2. IsFiniteSet(s) /\ \A y \in s : f[y] \in Int
    BY FS_Subset
  <2>3. SumFunctionOnSet(f, s) = f[x] + SumFunctionOnSet(f, s \ {x})
    BY <2>2, SumTakeOut
  <2>4. SumFunctionOnSet(f, s \ {x}) \in Nat /\ f[x] \in Nat
    BY <1>2
  <2>. QED
    BY <2>3, <2>4
<1>3. \A s \in SUBSET S : s \in Good
  <2>. HIDE DEF Good
  <2>. QED
    BY <1>1, <1>2, SubsetInduction
<1>. QED
  BY <1>3

\* Nothing adds up to nothing only.
LEMMA SumZeroOnly ==
    ASSUME NEW f, NEW S, IsFiniteSet(S), \A x \in S : f[x] \in Nat,
           SumFunctionOnSet(f, S) = 0, NEW y \in S
    PROVE  f[y] = 0
<1>1. SumFunctionOnSet(f, S) = f[y] + SumFunctionOnSet(f, S \ {y})
  BY SumTakeOut
<1>2. SumFunctionOnSet(f, S \ {y}) \in Nat
  BY FS_RemoveElement, SumNat
<1>. QED
  BY <1>1, <1>2

\* A sum with at most one part.
LEMMA SumOne ==
    ASSUME NEW f, NEW S, IsFiniteSet(S), NEW y \in S, f[y] \in Int,
           \A x \in S : x # y => f[x] = 0
    PROVE  SumFunctionOnSet(f, S) = f[y]
<1>1. SumFunctionOnSet(f, S) = f[y] + SumFunctionOnSet(f, S \ {y})
  BY SumTakeOut
<1>2. SumFunctionOnSet(f, S \ {y}) = 0
  BY FS_RemoveElement, SumZero
<1>. QED
  BY <1>1, <1>2

-----------------------------------------------------------------------------
(* Where each deposit is held, read off the storage of one bounty.         *)

LEMMA ItemsFinite == IsFiniteSet(Item)
<1>1. IsFiniteSet(RewardItem)
  <2>. DEFINE f == [b \in BountyId |-> <<"reward", b>>]
  <2>1. f \in Surjection(BountyId, RewardItem)
    BY DEF Surjection, RewardItem
  <2>. QED
    BY <2>1, FiniteAssumption, FS_Surjection
<1>2. IsFiniteSet(BondItem)
  <2>. DEFINE f == [p \in BountyId \X ReservationId |-> <<"bond", p[1], p[2]>>]
  <2>1. f \in Surjection(BountyId \X ReservationId, BondItem)
    <3>1. f \in [BountyId \X ReservationId -> BondItem]
      BY DEF BondItem
    <3>2. ASSUME NEW b \in BountyId, NEW r \in ReservationId
          PROVE  <<b, r>> \in BountyId \X ReservationId /\ f[<<b, r>>] = <<"bond", b, r>>
      OBVIOUS
    <3>. HIDE DEF f
    <3>3. ASSUME NEW t \in BondItem PROVE \E p \in BountyId \X ReservationId : f[p] = t
      <4>1. PICK b \in BountyId, r \in ReservationId : t = <<"bond", b, r>>
        BY DEF BondItem
      <4>2. <<b, r>> \in BountyId \X ReservationId /\ f[<<b, r>>] = t
        BY <3>2, <4>1
      <4>. QED
        BY <4>2
    <3>. QED
      BY <3>1, <3>3 DEF Surjection
  <2>2. IsFiniteSet(BountyId \X ReservationId)
    BY FiniteAssumption, FS_Product
  <2>. QED
    BY <2>1, <2>2, FS_Surjection
<1>3. IsFiniteSet(AppealItem)
  <2>. DEFINE f == [p \in BountyId \X AttemptIndex |-> <<"appeal", p[1], p[2]>>]
  <2>1. f \in Surjection(BountyId \X AttemptIndex, AppealItem)
    <3>1. f \in [BountyId \X AttemptIndex -> AppealItem]
      BY DEF AppealItem
    <3>2. ASSUME NEW b \in BountyId, NEW i \in AttemptIndex
          PROVE  <<b, i>> \in BountyId \X AttemptIndex /\ f[<<b, i>>] = <<"appeal", b, i>>
      OBVIOUS
    <3>. HIDE DEF f
    <3>3. ASSUME NEW t \in AppealItem PROVE \E p \in BountyId \X AttemptIndex : f[p] = t
      <4>1. PICK b \in BountyId, i \in AttemptIndex : t = <<"appeal", b, i>>
        BY DEF AppealItem
      <4>2. <<b, i>> \in BountyId \X AttemptIndex /\ f[<<b, i>>] = t
        BY <3>2, <4>1
      <4>. QED
        BY <4>2
    <3>. QED
      BY <3>1, <3>3 DEF Surjection
  <2>2. IsFiniteSet(BountyId \X AttemptIndex)
    BY FiniteAssumption, FS_Product
  <2>. QED
    BY <2>1, <2>2, FS_Surjection
<1>. QED
  BY <1>1, <1>2, <1>3, FS_Union DEF Item

\* What reservation r holds, p being the reservations and a the attempts of its bounty.
BondHeldBy(p, a, r) ==
    IF p[r].bound
    THEN LET i == CHOOSE i \in AttemptIndex : a[i].challenger # NoOne /\ a[i].reservationId = r
         IN  IF a[i].settled THEN 0 ELSE a[i].bond
    ELSE p[r].bond

LEMMA BondHeldNow ==
    ASSUME NEW b, NEW r
    PROVE  /\ HeldBond(b, r) = BondHeldBy(pendingAttempts[b], attempts[b], r)
           /\ HeldBond(b, r)' = BondHeldBy(pendingAttempts'[b], attempts'[b], r)
BY DEF HeldBond, BondHeldBy, IsBound

\* The attempt a bound reservation holds its bond in.
LEMMA BondHeldByAttempt ==
    ASSUME NEW p, NEW a, NEW r, p[r].bound, NEW i \in AttemptIndex,
           a[i].challenger # NoOne, a[i].reservationId = r,
           \A j \in AttemptIndex : a[j].challenger # NoOne /\ a[j].reservationId = r => j = i
    PROVE  BondHeldBy(p, a, r) = IF a[i].settled THEN 0 ELSE a[i].bond
<1>1. (CHOOSE j \in AttemptIndex : a[j].challenger # NoOne /\ a[j].reservationId = r) = i
  OBVIOUS
<1>. QED
  BY <1>1 DEF BondHeldBy

LEMMA HeldAt ==
    /\ \A b \in BountyId : Held[<<"reward", b>>] = HeldReward(b)
    /\ \A b \in BountyId, r \in ReservationId : Held[<<"bond", b, r>>] = HeldBond(b, r)
    /\ \A b \in BountyId, i \in AttemptIndex : Held[<<"appeal", b, i>>] = HeldAppeal(b, i)
<1>1. ASSUME NEW b \in BountyId PROVE Held[<<"reward", b>>] = HeldReward(b)
  <2>1. <<"reward", b>> \in Item
    BY DEF Item, RewardItem
  <2>. QED
    BY <2>1 DEF Held
<1>2. ASSUME NEW b \in BountyId, NEW r \in ReservationId
      PROVE  Held[<<"bond", b, r>>] = HeldBond(b, r)
  <2>1. <<"bond", b, r>> \in Item
    BY DEF Item, BondItem
  <2>. QED
    BY <2>1 DEF Held
<1>3. ASSUME NEW b \in BountyId, NEW i \in AttemptIndex
      PROVE  Held[<<"appeal", b, i>>] = HeldAppeal(b, i)
  <2>1. <<"appeal", b, i>> \in Item
    BY DEF Item, AppealItem
  <2>. QED
    BY <2>1 DEF Held
<1>. QED
  BY <1>1, <1>2, <1>3

\* Every item holds a natural number.
LEMMA HeldType ==
    ASSUME TypeOK, AllBooks
    PROVE  Held \in [Item -> Nat]
<1>1. ASSUME NEW b \in BountyId PROVE HeldReward(b) \in Nat
  BY BountyFields DEF HeldReward
<1>2. ASSUME NEW b \in BountyId, NEW r \in ReservationId PROVE HeldBond(b, r) \in Nat
  <2>1. CASE pendingAttempts[b][r].bound
    <3>1. PICK i \in AttemptIndex : IsBound(b, i) /\ attempts[b][i].reservationId = r
      BY <2>1 DEF AllBooks, Books, BackedOnce
    <3>2. \A j \in AttemptIndex :
            IsBound(b, j) /\ attempts[b][j].reservationId = r => j = i
      BY <3>1 DEF AllBooks, Books, BackedOnce
    <3>3. HeldBond(b, r) = IF attempts[b][i].settled THEN 0 ELSE attempts[b][i].bond
      BY <2>1, <3>1, <3>2, BondHeldNow, BondHeldByAttempt DEF IsBound
    <3>. QED
      BY <3>3, AttemptFields
  <2>2. CASE ~pendingAttempts[b][r].bound
    BY <2>2, PendingFields DEF HeldBond
  <2>. QED
    BY <2>1, <2>2
<1>3. ASSUME NEW b \in BountyId, NEW i \in AttemptIndex PROVE HeldAppeal(b, i) \in Nat
  BY AttemptFields DEF HeldAppeal
<1>4. ASSUME NEW d \in Item PROVE Held[d] \in Nat
  BY <1>1, <1>2, <1>3, HeldAt DEF Item, RewardItem, BondItem, AppealItem
<1>5. Held \in [Item -> {Held[d] : d \in Item}]
  BY DEF Held
<1>. HIDE DEF Held
<1>. QED
  BY <1>4, <1>5

-----------------------------------------------------------------------------
(* Sums over the claims and over the items a step touches. *)

LEMMA SumTwo ==
    ASSUME NEW f, NEW d, NEW e, d # e, f[d] \in Int, f[e] \in Int
    PROVE  SumFunctionOnSet(f, {d, e}) = f[d] + f[e]
<1>1. IsFiniteSet({d, e}) /\ IsFiniteSet({e})
  <2>1. IsFiniteSet({e}) /\ IsFiniteSet({e} \cup {d})
    BY FS_Singleton, FS_AddElement
  <2>2. {d, e} = {e} \cup {d}
    OBVIOUS
  <2>. QED
    BY <2>1, <2>2
<1>2. {d, e} \ {d} = {e}
  OBVIOUS
<1>3. SumFunctionOnSet(f, {d, e}) = f[d] + SumFunctionOnSet(f, {d, e} \ {d})
  BY <1>1, SumTakeOut
<1>4. SumFunctionOnSet(f, {e}) = f[e]
  BY <1>1, SumOne
<1>. QED
  BY <1>2, <1>3, <1>4

\* A payment adds its amount to the claims, if it has a recipient.
LEMMA SumCredited ==
    ASSUME NEW f \in [Account -> Nat], NEW to, NEW amount \in Nat,
           to \in Account \/ amount = 0
    PROVE  /\ [x \in Account |-> f[x] + Due(x, to, amount)] \in [Account -> Nat]
           /\ SumFunction([x \in Account |-> f[x] + Due(x, to, amount)]) = SumFunction(f) + amount
<1>. DEFINE g == [x \in Account |-> Due(x, to, amount)]
            h == [x \in Account |-> f[x] + Due(x, to, amount)]
<1>0. IsFiniteSet(Account)
  BY FiniteAssumption
<1>1. \A x \in Account : f[x] \in Int /\ g[x] \in Nat /\ h[x] = f[x] + g[x]
  BY DueNat
<1>2. SumFunctionOnSet(h, Account) = SumFunctionOnSet(f, Account) + SumFunctionOnSet(g, Account)
  <2>. HIDE DEF g, h
  <2>. QED
    BY <1>0, <1>1, SumAdd
<1>3. SumFunctionOnSet(g, Account) = amount
  <2>1. CASE to \in Account
    <3>1. g[to] = amount /\ \A x \in Account : x # to => g[x] = 0
      BY <2>1 DEF Due
    <3>. HIDE DEF g
    <3>2. SumFunctionOnSet(g, Account) = g[to]
      BY <1>0, <2>1, <3>1, SumOne
    <3>. QED
      BY <3>1, <3>2
  <2>2. CASE to \notin Account
    <3>1. \A x \in Account : g[x] = 0
      BY <2>2 DEF Due
    <3>2. amount = 0
      BY <2>2
    <3>. HIDE DEF g
    <3>. QED
      BY <1>0, <3>1, <3>2, SumZero
  <2>. QED
    BY <2>1, <2>2
<1>4. h \in [Account -> Nat]
  BY DueNat
<1>5. DOMAIN h = Account /\ DOMAIN f = Account
  OBVIOUS
<1>. HIDE DEF g, h
<1>6. SumFunction(h) = SumFunction(f) + amount
  BY <1>2, <1>3, <1>5 DEF SumFunction
<1>. QED
  BY <1>4, <1>6 DEF h

\* Claims that none has shrunk of and that add up to the same are the same.
LEMMA SameClaims ==
    ASSUME NEW f \in [Account -> Nat], NEW h \in [Account -> Nat],
           \A x \in Account : h[x] >= f[x], SumFunction(h) = SumFunction(f)
    PROVE  h = f
<1>. DEFINE g == [x \in Account |-> h[x] - f[x]]
<1>0. IsFiniteSet(Account)
  BY FiniteAssumption
<1>1. \A x \in Account : f[x] \in Int /\ g[x] \in Nat /\ h[x] = f[x] + g[x]
  OBVIOUS
<1>2. DOMAIN h = Account /\ DOMAIN f = Account
  OBVIOUS
<1>. HIDE DEF g
<1>3. SumFunctionOnSet(h, Account) = SumFunctionOnSet(f, Account) + SumFunctionOnSet(g, Account)
  BY <1>0, <1>1, SumAdd
<1>4. /\ SumFunctionOnSet(h, Account) = SumFunctionOnSet(f, Account)
      /\ SumFunctionOnSet(f, Account) \in Int
      /\ SumFunctionOnSet(g, Account) \in Int
  BY <1>0, <1>1, <1>2, SumType DEF SumFunction
<1>5. SumFunctionOnSet(g, Account) = 0
  BY ONLY <1>3, <1>4
<1>6. \A x \in Account : g[x] = 0
  BY <1>0, <1>1, <1>5, SumZeroOnly
<1>7. \A x \in Account : h[x] = f[x]
  BY <1>1, <1>6
<1>. QED
  BY <1>7

-----------------------------------------------------------------------------
(* Each step is one of Custody.  Some items of one bounty are emptied or   *)
(* filled, and the items of the others stay.                               *)

ReadsHeld ==
    /\ \A b \in BountyId : Held[<<"reward", b>>] = HeldReward(b)
    /\ \A b \in BountyId, r \in ReservationId : Held[<<"bond", b, r>>] = HeldBond(b, r)
    /\ \A b \in BountyId, i \in AttemptIndex : Held[<<"appeal", b, i>>] = HeldAppeal(b, i)

LEMMA ReadsHeldNow == ReadsHeld
BY HeldAt DEF ReadsHeld

LEMMA HeldTyped == TypeOK /\ AllBooks => Held \in [Item -> Nat]
BY HeldType

\* The storage before and after a step is sound.
Sound == TypeOK /\ AllBooks /\ TypeOK' /\ AllBooks'

\* A step of Custody, or none of its concern.
Seen == [Vault!Next]_Vault!custodyVars

SameStorage(c) ==
    /\ bounties'[c] = bounties[c]
    /\ pendingAttempts'[c] = pendingAttempts[c]
    /\ attempts'[c] = attempts[c]

LEMMA HeldFrame ==
    ASSUME NEW c \in BountyId, SameStorage(c)
    PROVE  /\ HeldReward(c)' = HeldReward(c)
           /\ \A r \in ReservationId : HeldBond(c, r)' = HeldBond(c, r)
           /\ \A i \in AttemptIndex : HeldAppeal(c, i)' = HeldAppeal(c, i)
<1>1. HeldReward(c)' = HeldReward(c)
  BY DEF HeldReward, SameStorage
<1>2. ASSUME NEW r \in ReservationId PROVE HeldBond(c, r)' = HeldBond(c, r)
  BY BondHeldNow DEF SameStorage
<1>3. ASSUME NEW i \in AttemptIndex PROVE HeldAppeal(c, i)' = HeldAppeal(c, i)
  BY DEF HeldAppeal, SameStorage
<1>. QED
  BY <1>1, <1>2, <1>3

\* A step that touches one bounty, and its items.
LEMMA HeldNext ==
    ASSUME Sound, NEW b \in BountyId,
           \A c \in BountyId : c # b => SameStorage(c),
           NEW F \in [Item -> Nat],
           \A c \in BountyId : c # b =>
              /\ F[<<"reward", c>>] = Held[<<"reward", c>>]
              /\ \A r \in ReservationId : F[<<"bond", c, r>>] = Held[<<"bond", c, r>>]
              /\ \A i \in AttemptIndex : F[<<"appeal", c, i>>] = Held[<<"appeal", c, i>>],
           F[<<"reward", b>>] = HeldReward(b)',
           \A r \in ReservationId : F[<<"bond", b, r>>] = HeldBond(b, r)',
           \A i \in AttemptIndex : F[<<"appeal", b, i>>] = HeldAppeal(b, i)'
    PROVE  Held' = F
<1>1. /\ \A c \in BountyId : Held'[<<"reward", c>>] = HeldReward(c)'
      /\ \A c \in BountyId, r \in ReservationId : Held'[<<"bond", c, r>>] = HeldBond(c, r)'
      /\ \A c \in BountyId, i \in AttemptIndex : Held'[<<"appeal", c, i>>] = HeldAppeal(c, i)'
  <2>1. ReadsHeld'
    BY ReadsHeldNow, PTL
  <2>. QED
    BY <2>1 DEF ReadsHeld
<1>2. Held' \in [Item -> Nat]
  <2>1. (TypeOK /\ AllBooks => Held \in [Item -> Nat])'
    BY HeldTyped, PTL
  <2>. QED
    BY <2>1 DEF Sound
<1>3. ASSUME NEW c \in BountyId
      PROVE  /\ F[<<"reward", c>>] = HeldReward(c)'
             /\ \A r \in ReservationId : F[<<"bond", c, r>>] = HeldBond(c, r)'
             /\ \A i \in AttemptIndex : F[<<"appeal", c, i>>] = HeldAppeal(c, i)'
  BY HeldAt, HeldFrame
<1>4. ASSUME NEW d \in Item PROVE F[d] = Held'[d]
  <2>1. CASE d \in RewardItem
    BY <1>1, <1>3, <2>1 DEF RewardItem
  <2>2. CASE d \in BondItem
    <3>1. PICK c \in BountyId, r \in ReservationId : d = <<"bond", c, r>>
      BY <2>2 DEF BondItem
    <3>. QED
      BY <1>1, <1>3, <3>1
  <2>3. CASE d \in AppealItem
    <3>1. PICK c \in BountyId, i \in AttemptIndex : d = <<"appeal", c, i>>
      BY <2>3 DEF AppealItem
    <3>. QED
      BY <1>1, <1>3, <3>1
  <2>. QED
    BY <2>1, <2>2, <2>3 DEF Item
<1>. QED
  BY <1>2, <1>4

\* A bond whose reservation and attempt keep what matters stays where it is.
LEMMA BondKept ==
    ASSUME Sound, NEW b \in BountyId, NEW r \in ReservationId,
           pendingAttempts'[b][r].bound = pendingAttempts[b][r].bound,
           ~pendingAttempts[b][r].bound => pendingAttempts'[b][r].bond = pendingAttempts[b][r].bond,
           \A i \in AttemptIndex :
              attempts[b][i].challenger # NoOne /\ attempts[b][i].reservationId = r =>
                /\ attempts'[b][i].challenger = attempts[b][i].challenger
                /\ attempts'[b][i].reservationId = r
                /\ attempts'[b][i].bond = attempts[b][i].bond
                /\ attempts'[b][i].settled = attempts[b][i].settled
    PROVE  HeldBond(b, r)' = HeldBond(b, r)
<1>1. BackedOnce(b) /\ BackedOnce(b)'
  BY DEF Sound, AllBooks, Books
<1>2. CASE ~pendingAttempts[b][r].bound
  BY <1>2 DEF HeldBond
<1>3. CASE pendingAttempts[b][r].bound
  <2>1. PICK i \in AttemptIndex : attempts[b][i].challenger # NoOne /\ attempts[b][i].reservationId = r
    BY <1>1, <1>3 DEF BackedOnce, IsBound
  <2>2. \A j \in AttemptIndex :
          attempts[b][j].challenger # NoOne /\ attempts[b][j].reservationId = r => j = i
    BY <1>1, <2>1 DEF BackedOnce, IsBound
  <2>3. \A j \in AttemptIndex :
          attempts'[b][j].challenger # NoOne /\ attempts'[b][j].reservationId = r => j = i
    BY <1>1, <2>1 DEF BackedOnce, IsBound
  <2>4. HeldBond(b, r) = IF attempts[b][i].settled THEN 0 ELSE attempts[b][i].bond
    BY <1>3, <2>1, <2>2, BondHeldNow, BondHeldByAttempt
  <2>5. HeldBond(b, r)' = IF attempts'[b][i].settled THEN 0 ELSE attempts'[b][i].bond
    <3>1. /\ pendingAttempts'[b][r].bound
          /\ attempts'[b][i].challenger # NoOne /\ attempts'[b][i].reservationId = r
      BY <1>3, <2>1
    <3>. DEFINE p == pendingAttempts'[b]
                a == attempts'[b]
    <3>2. HeldBond(b, r)' = BondHeldBy(p, a, r)
      BY BondHeldNow
    <3>3. /\ p[r].bound /\ a[i].challenger # NoOne /\ a[i].reservationId = r
          /\ \A j \in AttemptIndex : a[j].challenger # NoOne /\ a[j].reservationId = r => j = i
      BY <2>3, <3>1
    <3>. HIDE DEF p, a
    <3>4. BondHeldBy(p, a, r) = IF a[i].settled THEN 0 ELSE a[i].bond
      BY <3>3, BondHeldByAttempt
    <3>. QED
      BY <3>2, <3>4 DEF p, a
  <2>. QED
    BY <2>1, <2>4, <2>5
<1>. QED
  BY <1>2, <1>3

LEMMA SumOfVault ==
    ASSUME NEW f, NEW D
    PROVE  /\ Vault!SumFunction(f) = SumFunction(f)
           /\ Vault!SumFunctionOnSet(f, D) = SumFunctionOnSet(f, D)
BY DEF SumFunction, SumFunctionOnSet, FoldFunctionOnSet, MapThenFoldSet, Vault!SumFunction,
   Vault!SumFunctionOnSet, Vault!FoldFunctionOnSet, Vault!MapThenFoldSet

\* Items that empty into claims: a release, or nothing if they were empty.
LEMMA ReleaseSeen ==
    ASSUME Sound, NEW D \in SUBSET Item,
           Held' = [d \in Item |-> IF d \in D THEN 0 ELSE Held[d]],
           \A x \in Account : claimable'[x] >= claimable[x],
           SumFunction(claimable') = SumFunction(claimable) + SumFunctionOnSet(Held, D),
           usdc' = usdc
    PROVE  Seen
<1>. DEFINE released == {d \in D : Held[d] # 0}
<1>1. /\ claimable \in [Account -> Nat] /\ claimable' \in [Account -> Nat]
      /\ Held \in [Item -> Nat]
  BY HeldType DEF Sound, TypeOK
<1>2. IsFiniteSet(D) /\ released \in SUBSET D
  BY ItemsFinite, FS_Subset
<1>3. SumFunctionOnSet(Held, D) = SumFunctionOnSet(Held, released)
  <2>1. SumFunctionOnSet(Held, D)
          = SumFunctionOnSet(Held, released) + SumFunctionOnSet(Held, D \ released)
    BY <1>1, <1>2, SumSplit
  <2>2. IsFiniteSet(D \ released) /\ IsFiniteSet(released)
    BY <1>2, FS_Subset
  <2>3. \A d \in D \ released : Held[d] = 0
    OBVIOUS
  <2>4. SumFunctionOnSet(Held, D \ released) = 0
    BY <2>2, <2>3, SumZero
  <2>5. SumFunctionOnSet(Held, released) \in Int
    BY <1>1, <1>2, <2>2, SumType
  <2>. QED
    BY ONLY <2>1, <2>4, <2>5
<1>4. Held' = [d \in Item |-> IF d \in released THEN 0 ELSE Held[d]]
  BY <1>1
<1>5. CASE released = {}
  <2>1. Held' = Held
    BY <1>1, <1>4, <1>5
  <2>2. SumFunction(claimable) \in Int
    BY <1>1, FiniteAssumption, SumType DEF SumFunction
  <2>3. SumFunction(claimable') = SumFunction(claimable)
    <3>1. SumFunctionOnSet(Held, D) = 0
      BY <1>3, <1>5, SumEmpty
    <3>2. \A x \in Int : x + 0 = x
      OBVIOUS
    <3>. QED
      BY <2>2, <3>1, <3>2
  <2>4. claimable' = claimable
    BY <1>1, <2>3, SameClaims
  <2>. QED
    BY <2>1, <2>4 DEF Seen, Vault!custodyVars
<1>6. CASE released # {}
  <2>1. released \in (SUBSET Item) \ {{}} /\ \A d \in released : Held[d] > 0
    BY <1>1, <1>6
  <2>. HIDE DEF released
  <2>2. Vault!Release(released)
    BY <1>3, <1>4, <2>1, SumOfVault DEF Vault!Release
  <2>. QED
    BY <2>1, <2>2 DEF Seen, Vault!Next
<1>. QED
  BY <1>5, <1>6

\* An item that is filled from outside.
LEMMA DepositSeen ==
    ASSUME Sound, NEW d \in Item, NEW amount \in Nat, Held[d] = 0,
           Held' = [Held EXCEPT ![d] = amount],
           claimable' = claimable, usdc' = usdc + amount
    PROVE  Seen
<1>1. Held \in [Item -> Nat] /\ usdc \in Int
  BY HeldType DEF Sound, TypeOK
<1>2. Held'[d] = amount
  BY <1>1
<1>3. CASE amount = 0
  BY <1>1, <1>3 DEF Seen, Vault!custodyVars
<1>4. CASE amount # 0
  <2>1. Vault!Deposit(d)
    BY <1>1, <1>2, <1>4 DEF Vault!Deposit
  <2>. QED
    BY <2>1 DEF Seen, Vault!Next
<1>. QED
  BY <1>3, <1>4

\* A step that moves no deposit of the bounty it touches.
LEMMA HeldStays ==
    ASSUME Sound, NEW b \in BountyId,
           \A c \in BountyId : c # b => SameStorage(c),
           HeldReward(b)' = HeldReward(b),
           \A r \in ReservationId : HeldBond(b, r)' = HeldBond(b, r),
           \A i \in AttemptIndex : HeldAppeal(b, i)' = HeldAppeal(b, i)
    PROVE  Held' = Held
<1>1. Held \in [Item -> Nat]
  BY HeldType DEF Sound
<1>. QED
  BY <1>1, HeldAt, HeldNext

\* A step that empties items of one bounty.
LEMMA HeldEmpties ==
    ASSUME Sound, NEW b \in BountyId,
           \A c \in BountyId : c # b => SameStorage(c),
           NEW D \in SUBSET Item,
           \A c \in BountyId : c # b =>
              /\ <<"reward", c>> \notin D
              /\ \A r \in ReservationId : <<"bond", c, r>> \notin D
              /\ \A i \in AttemptIndex : <<"appeal", c, i>> \notin D,
           HeldReward(b)' = IF <<"reward", b>> \in D THEN 0 ELSE HeldReward(b),
           \A r \in ReservationId :
              HeldBond(b, r)' = IF <<"bond", b, r>> \in D THEN 0 ELSE HeldBond(b, r),
           \A i \in AttemptIndex :
              HeldAppeal(b, i)' = IF <<"appeal", b, i>> \in D THEN 0 ELSE HeldAppeal(b, i)
    PROVE  Held' = [d \in Item |-> IF d \in D THEN 0 ELSE Held[d]]
<1>. DEFINE F == [d \in Item |-> IF d \in D THEN 0 ELSE Held[d]]
<1>1. Held \in [Item -> Nat]
  BY HeldType DEF Sound
<1>2. F \in [Item -> Nat]
  BY <1>1
<1>3. /\ \A c \in BountyId : <<"reward", c>> \in Item
      /\ \A c \in BountyId, r \in ReservationId : <<"bond", c, r>> \in Item
      /\ \A c \in BountyId, i \in AttemptIndex : <<"appeal", c, i>> \in Item
  BY DEF Item, RewardItem, BondItem, AppealItem
<1>4. \A d \in Item : F[d] = IF d \in D THEN 0 ELSE Held[d]
  OBVIOUS
<1>. HIDE DEF F
<1>5. \A c \in BountyId : c # b =>
         /\ F[<<"reward", c>>] = Held[<<"reward", c>>]
         /\ \A r \in ReservationId : F[<<"bond", c, r>>] = Held[<<"bond", c, r>>]
         /\ \A i \in AttemptIndex : F[<<"appeal", c, i>>] = Held[<<"appeal", c, i>>]
  BY <1>3, <1>4
<1>6. F[<<"reward", b>>] = HeldReward(b)'
  BY <1>3, <1>4, HeldAt
<1>7. \A r \in ReservationId : F[<<"bond", b, r>>] = HeldBond(b, r)'
  BY <1>3, <1>4, HeldAt
<1>8. \A i \in AttemptIndex : F[<<"appeal", b, i>>] = HeldAppeal(b, i)'
  BY <1>3, <1>4, HeldAt
<1>9. Held' = F
  BY <1>2, <1>5, <1>6, <1>7, <1>8, HeldNext
<1>. QED
  BY <1>9 DEF F

\* A step that sets one item of a bounty.
LEMMA HeldSets ==
    ASSUME Sound, NEW b \in BountyId,
           \A c \in BountyId : c # b => SameStorage(c),
           NEW e \in Item, NEW amount \in Nat,
           \A c \in BountyId : c # b =>
              /\ <<"reward", c>> # e
              /\ \A r \in ReservationId : <<"bond", c, r>> # e
              /\ \A i \in AttemptIndex : <<"appeal", c, i>> # e,
           HeldReward(b)' = IF <<"reward", b>> = e THEN amount ELSE HeldReward(b),
           \A r \in ReservationId :
              HeldBond(b, r)' = IF <<"bond", b, r>> = e THEN amount ELSE HeldBond(b, r),
           \A i \in AttemptIndex :
              HeldAppeal(b, i)' = IF <<"appeal", b, i>> = e THEN amount ELSE HeldAppeal(b, i)
    PROVE  Held' = [Held EXCEPT ![e] = amount]
<1>. DEFINE F == [Held EXCEPT ![e] = amount]
<1>1. Held \in [Item -> Nat]
  BY HeldType DEF Sound
<1>2. F \in [Item -> Nat]
  BY <1>1
<1>3. /\ \A c \in BountyId : <<"reward", c>> \in Item
      /\ \A c \in BountyId, r \in ReservationId : <<"bond", c, r>> \in Item
      /\ \A c \in BountyId, i \in AttemptIndex : <<"appeal", c, i>> \in Item
  BY DEF Item, RewardItem, BondItem, AppealItem
<1>4. \A d \in Item : F[d] = IF d = e THEN amount ELSE Held[d]
  BY <1>1
<1>. HIDE DEF F
<1>5. \A c \in BountyId : c # b =>
         /\ F[<<"reward", c>>] = Held[<<"reward", c>>]
         /\ \A r \in ReservationId : F[<<"bond", c, r>>] = Held[<<"bond", c, r>>]
         /\ \A i \in AttemptIndex : F[<<"appeal", c, i>>] = Held[<<"appeal", c, i>>]
  BY <1>3, <1>4
<1>6. F[<<"reward", b>>] = HeldReward(b)'
  BY <1>3, <1>4, HeldAt
<1>7. \A r \in ReservationId : F[<<"bond", b, r>>] = HeldBond(b, r)'
  BY <1>3, <1>4, HeldAt
<1>8. \A i \in AttemptIndex : F[<<"appeal", b, i>>] = HeldAppeal(b, i)'
  BY <1>3, <1>4, HeldAt
<1>9. Held' = F
  BY <1>2, <1>5, <1>6, <1>7, <1>8, HeldNext
<1>. QED
  BY <1>9 DEF F

\* Deposits whose records a step leaves alone.
LEMMA BondsAlone ==
    ASSUME NEW b \in BountyId, pendingAttempts'[b] = pendingAttempts[b],
           attempts'[b] = attempts[b]
    PROVE  /\ \A r \in ReservationId : HeldBond(b, r)' = HeldBond(b, r)
           /\ \A i \in AttemptIndex : HeldAppeal(b, i)' = HeldAppeal(b, i)
<1>1. \A r \in ReservationId : HeldBond(b, r)' = HeldBond(b, r)
  BY BondHeldNow
<1>2. \A i \in AttemptIndex : HeldAppeal(b, i)' = HeldAppeal(b, i)
  BY DEF HeldAppeal
<1>. QED
  BY <1>1, <1>2

LEMMA NothingMoves ==
    ASSUME Held' = Held, claimable' = claimable, usdc' = usdc
    PROVE  Seen
BY DEF Seen, Vault!custodyVars

-----------------------------------------------------------------------------
(* The steps that move no money. *)

LEMMA SeenRegisterBounty ==
    ASSUME Sound, NEW b \in BountyId, NEW sender, NEW signer, RegisterBounty(sender, signer, b)
    PROVE  Seen
<1>1. /\ \A c \in BountyId : c # b => bounties'[c] = bounties[c]
      /\ bounties'[b] = [bounties[b] EXCEPT !.registered = TRUE]
      /\ pendingAttempts' = pendingAttempts /\ attempts' = attempts
      /\ claimable' = claimable /\ usdc' = usdc
  BY DEF RegisterBounty, Sound, TypeOK
<1>2. HeldReward(b)' = HeldReward(b)
  BY <1>1, BountyFields DEF HeldReward, Sound, BountyRecord
<1>3. \A c \in BountyId : c # b => SameStorage(c)
  BY <1>1 DEF SameStorage
<1>4. Held' = Held
  BY <1>1, <1>2, <1>3, BondsAlone, HeldStays
<1>. QED
  BY <1>1, <1>4, NothingMoves

LEMMA SeenBindAppeal ==
    ASSUME Sound, NEW b \in BountyId, NEW i \in AttemptIndex, NEW sender, NEW signer, NEW txHash,
           BindAppeal(sender, signer, b, i, txHash)
    PROVE  Seen
<1>. DEFINE rec == [attempts[b][i] EXCEPT !.appealBound = TRUE, !.appealFundingTxHash = txHash]
<1>1. /\ \A c \in BountyId : c # b => attempts'[c] = attempts[c]
      /\ \A j \in AttemptIndex : attempts'[b][j] = IF j = i THEN rec ELSE attempts[b][j]
      /\ pendingAttempts' = pendingAttempts /\ bounties' = bounties
      /\ claimable' = claimable /\ usdc' = usdc
  BY DEF BindAppeal, Sound, TypeOK
<1>2. /\ rec.challenger = attempts[b][i].challenger
      /\ rec.bond = attempts[b][i].bond
      /\ rec.appealBond = attempts[b][i].appealBond
      /\ rec.settled = attempts[b][i].settled
      /\ rec.reservationId = attempts[b][i].reservationId
  BY AttemptFields DEF Sound, AttemptRecord
<1>. HIDE DEF rec
<1>3. HeldReward(b)' = HeldReward(b)
  BY <1>1 DEF HeldReward
<1>4. ASSUME NEW r \in ReservationId PROVE HeldBond(b, r)' = HeldBond(b, r)
  BY <1>1, <1>2, BondKept
<1>5. \A j \in AttemptIndex : HeldAppeal(b, j)' = HeldAppeal(b, j)
  BY <1>1, <1>2 DEF HeldAppeal
<1>6. \A c \in BountyId : c # b => SameStorage(c)
  BY <1>1 DEF SameStorage
<1>7. Held' = Held
  BY <1>3, <1>4, <1>5, <1>6, HeldStays
<1>. QED
  BY <1>1, <1>7, NothingMoves

\* Binding moves a bond from the reservation into the attempt, and out of no item.
LEMMA SeenBindAttempt ==
    ASSUME Sound, NEW b \in BountyId, NEW r \in ReservationId, NEW i \in AttemptIndex,
           NEW sender, NEW signer, BindAttempt(sender, signer, b, r, i)
    PROVE  Seen
<1>. DEFINE old == pendingAttempts[b][r]
            pen == [old EXCEPT !.bound = TRUE]
            rec == [attempts[b][i] EXCEPT !.challenger = old.challenger, !.bond = old.bond,
                                          !.reservationId = r]
<1>1. /\ \A c \in BountyId : c # b => /\ attempts'[c] = attempts[c]
                                      /\ pendingAttempts'[c] = pendingAttempts[c]
      /\ \A j \in AttemptIndex : attempts'[b][j] = IF j = i THEN rec ELSE attempts[b][j]
      /\ \A q \in ReservationId :
            pendingAttempts'[b][q] = IF q = r THEN pen ELSE pendingAttempts[b][q]
      /\ bounties' = bounties /\ claimable' = claimable /\ usdc' = usdc
  BY DEF BindAttempt, BoundBond, Sound, TypeOK
<1>2. /\ attempts[b][i] = EmptyAttempt /\ attempts[b][i].challenger = NoOne
      /\ old.challenger # NoOne /\ ~old.bound
  BY DEF BindAttempt, ReservationBindable, Sound, AllBooks, Books, Consistent, IsBound
<1>3. /\ rec.challenger = old.challenger /\ rec.bond = old.bond /\ rec.reservationId = r
      /\ rec.settled = FALSE /\ rec.appealBond = 0 /\ attempts[b][i].appealBond = 0
      /\ attempts[b][i].settled = FALSE
  BY <1>2 DEF EmptyAttempt
<1>4. pen.bound
  BY PendingFields DEF Sound, PendingAttemptRecord
<1>. HIDE DEF rec, pen
<1>5. HeldReward(b)' = HeldReward(b)
  BY <1>1 DEF HeldReward
<1>6. ASSUME NEW q \in ReservationId PROVE HeldBond(b, q)' = HeldBond(b, q)
  <2>1. CASE q # r
    BY <1>1, <1>2, <2>1, BondKept
  <2>2. CASE q = r
    <3>. DEFINE p == pendingAttempts'[b]
                a == attempts'[b]
    <3>1. HeldBond(b, r)' = BondHeldBy(p, a, r)
      BY BondHeldNow
    <3>2. /\ p[r].bound /\ a[i].challenger # NoOne /\ a[i].reservationId = r
          /\ a[i].settled = FALSE /\ a[i].bond = old.bond
      BY <1>1, <1>2, <1>3, <1>4
    <3>3. \A j \in AttemptIndex : a[j].challenger # NoOne /\ a[j].reservationId = r => j = i
      BY <3>2 DEF Sound, AllBooks, Books, BackedOnce, IsBound
    <3>. HIDE DEF p, a
    <3>4. BondHeldBy(p, a, r) = IF a[i].settled THEN 0 ELSE a[i].bond
      BY <3>2, <3>3, BondHeldByAttempt
    <3>5. HeldBond(b, r) = old.bond
      BY <1>2 DEF HeldBond
    <3>. QED
      BY <2>2, <3>1, <3>2, <3>4, <3>5
  <2>. QED
    BY <2>1, <2>2
<1>7. \A j \in AttemptIndex : HeldAppeal(b, j)' = HeldAppeal(b, j)
  BY <1>1, <1>3 DEF HeldAppeal
<1>8. \A c \in BountyId : c # b => SameStorage(c)
  BY <1>1 DEF SameStorage
<1>9. Held' = Held
  BY <1>5, <1>6, <1>7, <1>8, HeldStays
<1>. QED
  BY <1>1, <1>9, NothingMoves

\* The storage of no bounty is touched: the clock, the roles, a claim.
LEMMA HeldAlone ==
    ASSUME Sound, bounties' = bounties, pendingAttempts' = pendingAttempts, attempts' = attempts
    PROVE  Held' = Held
<1>1. CASE \E b \in BountyId : TRUE
  <2>1. PICK b \in BountyId : TRUE
    BY <1>1
  <2>2. HeldReward(b)' = HeldReward(b)
    BY DEF HeldReward
  <2>3. \A c \in BountyId : c # b => SameStorage(c)
    BY DEF SameStorage
  <2>. QED
    BY <2>2, <2>3, BondsAlone, HeldStays
<1>2. CASE BountyId = {}
  <2>1. Item = {}
    BY <1>2 DEF Item, RewardItem, BondItem, AppealItem
  <2>2. Held \in [Item -> Nat]
    BY HeldType DEF Sound
  <2>3. Held' \in [Item -> Nat]
    <3>1. (TypeOK /\ AllBooks => Held \in [Item -> Nat])'
      BY HeldTyped, PTL
    <3>. QED
      BY <3>1 DEF Sound
  <2>. QED
    BY <2>1, <2>2, <2>3
<1>. QED
  BY <1>1, <1>2

LEMMA SeenIdle ==
    ASSUME Sound, UNCHANGED <<bounties, pendingAttempts, attempts, claimable, usdc>>
    PROVE  Seen
BY HeldAlone, NothingMoves

LEMMA SeenClaim ==
    ASSUME Sound, NEW sender \in Account, Claim(sender)
    PROVE  Seen
<1>1. Held' = Held
  BY HeldAlone DEF Claim
<1>2. Vault!Withdraw(sender)
  BY <1>1 DEF Vault!Withdraw, Claim
<1>. QED
  BY <1>2 DEF Seen, Vault!Next

-----------------------------------------------------------------------------
(* The deposits. *)

LEMMA SeenFundBounty ==
    ASSUME Sound, NEW b \in BountyId, NEW signer, NEW sender, NEW reward \in Nat,
           NEW bond, NEW feeBps, NEW expiry,
           FundBounty(sender, signer, b, reward, bond, feeBps, expiry)
    PROVE  Seen
<1>. DEFINE rec == [bounties[b] EXCEPT !.creator = sender, !.reward = reward,
                       !.requiredBond = bond, !.feeBps = feeBps, !.fundedAt = now]
            e == <<"reward", b>>
<1>1. /\ \A c \in BountyId : c # b => bounties'[c] = bounties[c]
      /\ bounties'[b] = rec
      /\ pendingAttempts' = pendingAttempts /\ attempts' = attempts
      /\ claimable' = claimable /\ usdc' = usdc + reward
  BY DEF FundBounty, Sound, TypeOK
<1>2. bounties[b] = EmptyBounty
  BY DEF FundBounty, Sound, AllBooks, Books, Consistent
<1>3. rec.reward = reward /\ rec.rewardSettled = FALSE
  BY <1>2 DEF EmptyBounty
<1>. HIDE DEF rec
<1>4. HeldReward(b)' = reward /\ HeldReward(b) = 0
  BY <1>1, <1>2, <1>3 DEF HeldReward, EmptyBounty
<1>5. \A c \in BountyId : c # b => SameStorage(c)
  BY <1>1 DEF SameStorage
<1>6. e \in Item /\ Held[e] = 0
  BY <1>4, HeldAt DEF Item, RewardItem
<1>7. Held' = [Held EXCEPT ![e] = reward]
  BY <1>1, <1>4, <1>5, <1>6, BondsAlone, HeldSets
<1>. HIDE DEF e
<1>. QED
  BY <1>1, <1>6, <1>7, DepositSeen

LEMMA SeenFundAttempt ==
    ASSUME Sound, NEW b \in BountyId, NEW r \in ReservationId, NEW signer, NEW sender, NEW expiry,
           FundAttempt(sender, signer, b, r, expiry)
    PROVE  Seen
<1>. DEFINE amount == bounties[b].requiredBond
            pen == [pendingAttempts[b][r] EXCEPT !.challenger = sender, !.bond = amount,
                                                 !.authorizationExpiry = expiry]
            e == <<"bond", b, r>>
<1>1. /\ \A c \in BountyId : c # b => pendingAttempts'[c] = pendingAttempts[c]
      /\ \A q \in ReservationId :
            pendingAttempts'[b][q] = IF q = r THEN pen ELSE pendingAttempts[b][q]
      /\ bounties' = bounties /\ attempts' = attempts
      /\ claimable' = claimable /\ usdc' = usdc + amount
  BY DEF FundAttempt, Sound, TypeOK
<1>2. pendingAttempts[b][r] = EmptyPendingAttempt
  BY DEF FundAttempt, Sound, AllBooks, Books, Consistent
<1>3. pen.bond = amount /\ pen.bound = FALSE
  BY <1>2 DEF EmptyPendingAttempt
<1>4. amount \in Nat
  BY BountyFields DEF Sound
<1>. HIDE DEF pen, amount
<1>5. HeldBond(b, r)' = amount /\ HeldBond(b, r) = 0
  BY <1>1, <1>2, <1>3 DEF HeldBond, EmptyPendingAttempt
<1>6. ASSUME NEW q \in ReservationId, q # r PROVE HeldBond(b, q)' = HeldBond(b, q)
  BY <1>1, <1>6, BondKept
<1>7. HeldReward(b)' = HeldReward(b) /\ \A i \in AttemptIndex : HeldAppeal(b, i)' = HeldAppeal(b, i)
  BY <1>1 DEF HeldReward, HeldAppeal
<1>8. \A c \in BountyId : c # b => SameStorage(c)
  BY <1>1 DEF SameStorage
<1>9. e \in Item /\ Held[e] = 0
  BY <1>5, HeldAt DEF Item, BondItem
<1>10. \A q \in ReservationId : HeldBond(b, q)' = IF <<"bond", b, q>> = e THEN amount ELSE HeldBond(b, q)
  BY <1>5, <1>6
<1>11. Held' = [Held EXCEPT ![e] = amount]
  BY <1>4, <1>7, <1>8, <1>9, <1>10, HeldSets
<1>. HIDE DEF e
<1>. QED
  BY <1>1, <1>4, <1>9, <1>11, DepositSeen

LEMMA SeenFundAppeal ==
    ASSUME Sound, NEW b \in BountyId, NEW i \in AttemptIndex, NEW signer, NEW sender, NEW expiry,
           FundAppeal(sender, signer, b, i, expiry)
    PROVE  Seen
<1>. DEFINE amount == bounties[b].requiredBond
            rec == [attempts[b][i] EXCEPT !.appealBond = amount, !.appealPayer = sender,
                                          !.appealAuthorizationExpiry = expiry]
            e == <<"appeal", b, i>>
<1>1. /\ \A c \in BountyId : c # b => attempts'[c] = attempts[c]
      /\ \A j \in AttemptIndex : attempts'[b][j] = IF j = i THEN rec ELSE attempts[b][j]
      /\ bounties' = bounties /\ pendingAttempts' = pendingAttempts
      /\ claimable' = claimable /\ usdc' = usdc + amount
      /\ ~attempts[b][i].settled /\ attempts[b][i].appealBond = 0
  BY DEF FundAppeal, AppealFundable, Sound, TypeOK
<1>2. /\ rec.challenger = attempts[b][i].challenger
      /\ rec.bond = attempts[b][i].bond
      /\ rec.appealBond = amount
      /\ rec.settled = attempts[b][i].settled
      /\ rec.reservationId = attempts[b][i].reservationId
  BY AttemptFields DEF Sound, AttemptRecord
<1>3. amount \in Nat
  BY BountyFields DEF Sound
<1>. HIDE DEF rec, amount
<1>4. HeldAppeal(b, i)' = amount /\ HeldAppeal(b, i) = 0
  BY <1>1, <1>2 DEF HeldAppeal
<1>5. \A j \in AttemptIndex : HeldAppeal(b, j)' = IF <<"appeal", b, j>> = e THEN amount ELSE HeldAppeal(b, j)
  BY <1>1, <1>4 DEF HeldAppeal
<1>6. ASSUME NEW r \in ReservationId PROVE HeldBond(b, r)' = HeldBond(b, r)
  BY <1>1, <1>2, BondKept
<1>7. HeldReward(b)' = HeldReward(b)
  BY <1>1 DEF HeldReward
<1>8. \A c \in BountyId : c # b => SameStorage(c)
  BY <1>1 DEF SameStorage
<1>9. e \in Item /\ Held[e] = 0
  BY <1>4, HeldAt DEF Item, AppealItem
<1>10. Held' = [Held EXCEPT ![e] = amount]
  BY <1>3, <1>5, <1>6, <1>7, <1>8, <1>9, HeldSets
<1>. HIDE DEF e
<1>. QED
  BY <1>1, <1>3, <1>9, <1>10, DepositSeen

-----------------------------------------------------------------------------
(* The releases. *)

\* A claim that grows by one credit.
LEMMA CreditSeen ==
    ASSUME claimable \in [Account -> Nat], NEW to \in Account, NEW amount \in Nat,
           claimable' = [claimable EXCEPT ![to] = @ + amount]
    PROVE  /\ \A x \in Account : claimable'[x] >= claimable[x]
           /\ SumFunction(claimable') = SumFunction(claimable) + amount
<1>1. claimable' = [x \in Account |-> claimable[x] + Due(x, to, amount)]
  <2>1. \A x \in Account : claimable[x] \in Nat /\ claimable[x] + 0 = claimable[x]
    OBVIOUS
  <2>. QED
    BY <2>1 DEF Due
<1>2. \A x \in Account : claimable'[x] >= claimable[x]
  OBVIOUS
<1>3. SumFunction([x \in Account |-> claimable[x] + Due(x, to, amount)])
        = SumFunction(claimable) + amount
  BY SumCredited
<1>. QED
  BY <1>1, <1>2, <1>3

\* One item that empties into the claim of one account.
LEMMA OneReleaseSeen ==
    ASSUME Sound, NEW d \in Item, NEW to \in Account, NEW amount \in Nat, Held[d] = amount,
           Held' = [Held EXCEPT ![d] = 0],
           claimable' = [claimable EXCEPT ![to] = @ + amount], usdc' = usdc
    PROVE  Seen
<1>1. claimable \in [Account -> Nat]
  BY DEF Sound, TypeOK
<1>2. /\ \A x \in Account : claimable'[x] >= claimable[x]
      /\ SumFunction(claimable') = SumFunction(claimable) + amount
  BY <1>1, CreditSeen
<1>3. SumFunctionOnSet(Held, {d}) = amount
  <2>1. IsFiniteSet({d})
    BY FS_Singleton
  <2>2. Held[d] \in Int /\ \A x \in {d} : x # d => Held[x] = 0
    OBVIOUS
  <2>3. SumFunctionOnSet(Held, {d}) = Held[d]
    BY <2>1, <2>2, SumOne
  <2>. QED
    BY <2>3
<1>4. {d} \in SUBSET Item
  OBVIOUS
<1>5. Held' = [e \in Item |-> IF e \in {d} THEN 0 ELSE Held[e]]
  BY HeldType DEF Sound
<1>. QED
  BY <1>2, <1>3, <1>4, <1>5, ReleaseSeen

LEMMA SeenRecoverOrphanBounty ==
    ASSUME Sound, NEW b \in BountyId, NEW sender \in Account, RecoverOrphanBounty(sender, b)
    PROVE  Seen
<1>. DEFINE e == <<"reward", b>>
            amount == bounties[b].reward
<1>1. /\ \A c \in BountyId : c # b => bounties'[c] = bounties[c]
      /\ bounties'[b] = EmptyBounty /\ ~bounties[b].rewardSettled
      /\ pendingAttempts' = pendingAttempts /\ attempts' = attempts
      /\ claimable' = [claimable EXCEPT ![sender] = @ + amount] /\ usdc' = usdc
  BY DEF RecoverOrphanBounty, OrphanRecoverable, Sound, TypeOK
<1>2. amount \in Nat
  BY BountyFields DEF Sound
<1>3. HeldReward(b)' = 0 /\ HeldReward(b) = amount
  BY <1>1 DEF HeldReward, EmptyBounty
<1>4. \A c \in BountyId : c # b => SameStorage(c)
  BY <1>1 DEF SameStorage
<1>5. e \in Item /\ Held[e] = amount
  BY <1>3, HeldAt DEF Item, RewardItem
<1>6. Held' = [Held EXCEPT ![e] = 0]
  BY <1>1, <1>3, <1>4, <1>5, BondsAlone, HeldSets
<1>. HIDE DEF e, amount
<1>. QED
  BY <1>1, <1>2, <1>5, <1>6, OneReleaseSeen

LEMMA SeenExecuteBountyRefund ==
    ASSUME Sound, NEW b \in BountyId, NEW signer, NEW sender, NEW recipient \in Account,
           NEW stateHash, NEW nonce,
           ExecuteBountyRefund(sender, signer, b, recipient, stateHash, nonce)
    PROVE  Seen
<1>. DEFINE e == <<"reward", b>>
            amount == bounties[b].reward
            rec == [bounties[b] EXCEPT !.decisionNonce = nonce, !.rewardSettled = TRUE]
<1>1. /\ \A c \in BountyId : c # b => bounties'[c] = bounties[c]
      /\ bounties'[b] = rec /\ ~bounties[b].rewardSettled
      /\ pendingAttempts' = pendingAttempts /\ attempts' = attempts
      /\ claimable' = [claimable EXCEPT ![recipient] = @ + amount] /\ usdc' = usdc
  BY DEF ExecuteBountyRefund, Sound, TypeOK
<1>2. amount \in Nat /\ rec.rewardSettled
  BY BountyFields DEF Sound, BountyRecord
<1>. HIDE DEF rec
<1>3. HeldReward(b)' = 0 /\ HeldReward(b) = amount
  BY <1>1, <1>2 DEF HeldReward
<1>4. \A c \in BountyId : c # b => SameStorage(c)
  BY <1>1 DEF SameStorage
<1>5. e \in Item /\ Held[e] = amount
  BY <1>3, HeldAt DEF Item, RewardItem
<1>6. Held' = [Held EXCEPT ![e] = 0]
  BY <1>1, <1>3, <1>4, <1>5, BondsAlone, HeldSets
<1>. HIDE DEF e, amount
<1>. QED
  BY <1>1, <1>2, <1>5, <1>6, OneReleaseSeen

LEMMA SeenRecoverPendingAttempt ==
    ASSUME Sound, NEW b \in BountyId, NEW r \in ReservationId, NEW sender \in Account,
           RecoverPendingAttempt(sender, b, r)
    PROVE  Seen
<1>. DEFINE e == <<"bond", b, r>>
            amount == pendingAttempts[b][r].bond
            pen == [pendingAttempts[b][r] EXCEPT !.recovered = TRUE, !.bond = 0]
<1>1. /\ \A c \in BountyId : c # b => pendingAttempts'[c] = pendingAttempts[c]
      /\ \A q \in ReservationId :
            pendingAttempts'[b][q] = IF q = r THEN pen ELSE pendingAttempts[b][q]
      /\ bounties' = bounties /\ attempts' = attempts
      /\ claimable' = [claimable EXCEPT ![sender] = @ + amount] /\ usdc' = usdc
      /\ ~pendingAttempts[b][r].bound
  BY DEF RecoverPendingAttempt, PendingRecoverable, Sound, TypeOK
<1>2. amount \in Nat /\ pen.bond = 0 /\ pen.bound = pendingAttempts[b][r].bound
  BY PendingFields DEF Sound, PendingAttemptRecord
<1>. HIDE DEF pen
<1>3. HeldBond(b, r)' = 0 /\ HeldBond(b, r) = amount
  BY <1>1, <1>2 DEF HeldBond
<1>. HIDE DEF amount
<1>4. ASSUME NEW q \in ReservationId, q # r PROVE HeldBond(b, q)' = HeldBond(b, q)
  BY <1>1, <1>4, BondKept
<1>5. HeldReward(b)' = HeldReward(b) /\ \A i \in AttemptIndex : HeldAppeal(b, i)' = HeldAppeal(b, i)
  BY <1>1 DEF HeldReward, HeldAppeal
<1>6. \A c \in BountyId : c # b => SameStorage(c)
  BY <1>1 DEF SameStorage
<1>7. e \in Item /\ Held[e] = amount
  BY <1>3, HeldAt DEF Item, BondItem
<1>8. \A q \in ReservationId : HeldBond(b, q)' = IF <<"bond", b, q>> = e THEN 0 ELSE HeldBond(b, q)
  BY <1>3, <1>4
<1>9. Held' = [Held EXCEPT ![e] = 0]
  BY <1>5, <1>6, <1>7, <1>8, HeldSets
<1>. HIDE DEF e
<1>. QED
  BY <1>1, <1>2, <1>7, <1>9, OneReleaseSeen

LEMMA SeenReturnAppealBond ==
    ASSUME Sound, NEW b \in BountyId, NEW i \in AttemptIndex, NEW sender \in Account,
           ~attempts[b][i].settled, ReturnAppealBond(sender, b, i)
    PROVE  Seen
<1>. DEFINE e == <<"appeal", b, i>>
            amount == attempts[b][i].appealBond
            rec == [attempts[b][i] EXCEPT !.appealBond = 0, !.appealRecovered = TRUE]
<1>1. /\ \A c \in BountyId : c # b => attempts'[c] = attempts[c]
      /\ \A j \in AttemptIndex : attempts'[b][j] = IF j = i THEN rec ELSE attempts[b][j]
      /\ bounties' = bounties /\ pendingAttempts' = pendingAttempts
      /\ claimable' = [claimable EXCEPT ![sender] = @ + amount] /\ usdc' = usdc
  BY DEF ReturnAppealBond, Sound, TypeOK
<1>2. /\ rec.challenger = attempts[b][i].challenger
      /\ rec.bond = attempts[b][i].bond
      /\ rec.appealBond = 0
      /\ rec.settled = attempts[b][i].settled
      /\ rec.reservationId = attempts[b][i].reservationId
      /\ amount \in Nat
  BY AttemptFields DEF Sound, AttemptRecord
<1>. HIDE DEF rec
<1>3. HeldAppeal(b, i)' = 0 /\ HeldAppeal(b, i) = amount
  BY <1>1, <1>2 DEF HeldAppeal
<1>. HIDE DEF amount
<1>4. \A j \in AttemptIndex :
         HeldAppeal(b, j)' = IF <<"appeal", b, j>> = e THEN 0 ELSE HeldAppeal(b, j)
  BY <1>1, <1>3 DEF HeldAppeal
<1>5. ASSUME NEW r \in ReservationId PROVE HeldBond(b, r)' = HeldBond(b, r)
  BY <1>1, <1>2, BondKept
<1>6. HeldReward(b)' = HeldReward(b)
  BY <1>1 DEF HeldReward
<1>7. \A c \in BountyId : c # b => SameStorage(c)
  BY <1>1 DEF SameStorage
<1>8. e \in Item /\ Held[e] = amount
  BY <1>3, HeldAt DEF Item, AppealItem
<1>9. Held' = [Held EXCEPT ![e] = 0]
  BY <1>4, <1>5, <1>6, <1>7, <1>8, HeldSets
<1>. HIDE DEF e
<1>. QED
  BY <1>1, <1>2, <1>8, <1>9, OneReleaseSeen

\* What the settlement of an attempt empties: its bond and its appeal deposit.
LEMMA SettlementEmpties ==
    ASSUME Sound, NEW b \in BountyId, NEW i \in AttemptIndex,
           ~attempts[b][i].settled, attempts[b][i].challenger # NoOne,
           attempts' = [attempts EXCEPT ![b][i].settled = TRUE],
           pendingAttempts' = pendingAttempts
    PROVE  /\ attempts[b][i].reservationId \in ReservationId
           /\ \A r \in ReservationId :
                IF r = attempts[b][i].reservationId
                THEN HeldBond(b, r) = attempts[b][i].bond /\ HeldBond(b, r)' = 0
                ELSE HeldBond(b, r)' = HeldBond(b, r)
           /\ \A j \in AttemptIndex :
                IF j = i
                THEN HeldAppeal(b, j) = attempts[b][i].appealBond /\ HeldAppeal(b, j)' = 0
                ELSE HeldAppeal(b, j)' = HeldAppeal(b, j)
           /\ \A c \in BountyId : c # b => attempts'[c] = attempts[c]
<1>. DEFINE rec == [attempts[b][i] EXCEPT !.settled = TRUE]
<1>0. PICK s : s = attempts[b][i].reservationId
  OBVIOUS
<1>1. /\ \A c \in BountyId : c # b => attempts'[c] = attempts[c]
      /\ \A j \in AttemptIndex : attempts'[b][j] = IF j = i THEN rec ELSE attempts[b][j]
  BY DEF Sound, TypeOK
<1>2. /\ rec.challenger = attempts[b][i].challenger
      /\ rec.bond = attempts[b][i].bond
      /\ rec.appealBond = attempts[b][i].appealBond
      /\ rec.settled
      /\ rec.reservationId = s
  BY <1>0, AttemptFields DEF Sound, AttemptRecord
<1>. HIDE DEF rec
<1>3. s \in ReservationId /\ pendingAttempts[b][s].bound
  BY <1>0 DEF Sound, AllBooks, Books, BackedOnce, IsBound, Backing
<1>4. \A j \in AttemptIndex : attempts[b][j].challenger # NoOne /\ attempts[b][j].reservationId = s => j = i
  BY <1>0 DEF Sound, AllBooks, Books, BackedOnce, IsBound
<1>5. HeldBond(b, s) = attempts[b][i].bond
  <2>1. HeldBond(b, s) = BondHeldBy(pendingAttempts[b], attempts[b], s)
    BY BondHeldNow
  <2>2. BondHeldBy(pendingAttempts[b], attempts[b], s)
          = IF attempts[b][i].settled THEN 0 ELSE attempts[b][i].bond
    BY <1>0, <1>3, <1>4, BondHeldByAttempt
  <2>. QED
    BY <2>1, <2>2
<1>6. HeldBond(b, s)' = 0
  <2>. DEFINE p == pendingAttempts'[b]
              a == attempts'[b]
  <2>1. HeldBond(b, s)' = BondHeldBy(p, a, s)
    BY BondHeldNow
  <2>2. /\ p[s].bound /\ a[i].challenger # NoOne /\ a[i].reservationId = s /\ a[i].settled
        /\ \A j \in AttemptIndex : a[j].challenger # NoOne /\ a[j].reservationId = s => j = i
    BY <1>0, <1>1, <1>2, <1>3, <1>4
  <2>. HIDE DEF p, a
  <2>3. BondHeldBy(p, a, s) = IF a[i].settled THEN 0 ELSE a[i].bond
    BY <2>2, BondHeldByAttempt
  <2>. QED
    BY <2>1, <2>2, <2>3
<1>7. ASSUME NEW r \in ReservationId, r # s PROVE HeldBond(b, r)' = HeldBond(b, r)
  BY <1>0, <1>1, <1>2, <1>7, BondKept
<1>8. /\ HeldAppeal(b, i) = attempts[b][i].appealBond /\ HeldAppeal(b, i)' = 0
      /\ \A j \in AttemptIndex : j # i => HeldAppeal(b, j)' = HeldAppeal(b, j)
  BY <1>1, <1>2 DEF HeldAppeal
<1>. QED
  BY <1>0, <1>1, <1>3, <1>5, <1>6, <1>7, <1>8

\* An address a settlement credits, or the credit is empty.
LEMMA AppealRecipientOwned ==
    ASSUME NEW b, NEW i, NEW appealRecipient \in Account \cup {NoOne},
           AppealAllocatable(b, i, appealRecipient)
    PROVE  appealRecipient \in Account \/ attempts[b][i].appealBond = 0
BY DEF AppealAllocatable

LEMMA SeenExecuteBond ==
    ASSUME Sound, NEW b \in BountyId, NEW i \in AttemptIndex, NEW signer, NEW sender,
           NEW outcome, NEW recipient \in Account, NEW appealRecipient \in Account \cup {NoOne},
           NEW stateHash, NEW nonce,
           ExecuteBond(sender, signer, b, i, outcome, recipient, appealRecipient, stateHash, nonce)
    PROVE  Seen
<1>. DEFINE a == attempts[b][i]
            rec == [bounties[b] EXCEPT !.decisionNonce = nonce]
            d == <<"bond", b, a.reservationId>>
            e == <<"appeal", b, i>>
            first == [x \in Account |-> claimable[x] + Due(x, recipient, a.bond)]
<1>1. /\ ~attempts[b][i].settled /\ attempts[b][i].challenger # NoOne
      /\ AppealAllocatable(b, i, appealRecipient)
      /\ attempts' = [attempts EXCEPT ![b][i].settled = TRUE]
      /\ pendingAttempts' = pendingAttempts /\ usdc' = usdc
      /\ claimable' = [x \in Account |->
                       claimable[x] + Due(x, recipient, a.bond)
                                    + Due(x, appealRecipient, a.appealBond)]
      /\ \A c \in BountyId : c # b => bounties'[c] = bounties[c]
      /\ bounties'[b] = rec
  BY DEF ExecuteBond, Sound, TypeOK
<1>2. rec.reward = bounties[b].reward /\ rec.rewardSettled = bounties[b].rewardSettled
  BY BountyFields DEF Sound, BountyRecord
<1>3. a.bond \in Nat /\ a.appealBond \in Nat
  BY AttemptFields DEF Sound
<1>4. /\ a.reservationId \in ReservationId
      /\ \A r \in ReservationId :
           IF r = a.reservationId
           THEN HeldBond(b, r) = a.bond /\ HeldBond(b, r)' = 0
           ELSE HeldBond(b, r)' = HeldBond(b, r)
      /\ \A j \in AttemptIndex :
           IF j = i
           THEN HeldAppeal(b, j) = a.appealBond /\ HeldAppeal(b, j)' = 0
           ELSE HeldAppeal(b, j)' = HeldAppeal(b, j)
      /\ \A c \in BountyId : c # b => attempts'[c] = attempts[c]
  BY <1>1, SettlementEmpties
<1>5. appealRecipient \in Account \/ a.appealBond = 0
  BY <1>1, AppealRecipientOwned
<1>. HIDE DEF rec, a
<1>6. HeldReward(b)' = HeldReward(b)
  BY <1>1, <1>2 DEF HeldReward
<1>7. \A c \in BountyId : c # b => SameStorage(c)
  BY <1>1, <1>4 DEF SameStorage
<1>8. d \in Item /\ e \in Item /\ d # e
  BY <1>4 DEF Item, BondItem, AppealItem
<1>9. Held[d] = a.bond /\ Held[e] = a.appealBond
  BY <1>4, HeldAt
<1>10. Held' = [x \in Item |-> IF x \in {d, e} THEN 0 ELSE Held[x]]
  <2>1. \A r \in ReservationId : HeldBond(b, r)' = IF <<"bond", b, r>> \in {d, e} THEN 0 ELSE HeldBond(b, r)
    BY <1>4
  <2>2. \A j \in AttemptIndex : HeldAppeal(b, j)' = IF <<"appeal", b, j>> \in {d, e} THEN 0 ELSE HeldAppeal(b, j)
    BY <1>4
  <2>3. /\ \A c \in BountyId : <<"reward", c>> \notin {d, e}
        /\ \A c \in BountyId, r \in ReservationId : c # b => <<"bond", c, r>> \notin {d, e}
        /\ \A c \in BountyId, j \in AttemptIndex : c # b => <<"appeal", c, j>> \notin {d, e}
    OBVIOUS
  <2>4. {d, e} \in SUBSET Item
    BY <1>8
  <2>. HIDE DEF d, e
  <2>. QED
    BY <1>6, <1>7, <2>1, <2>2, <2>3, <2>4, HeldEmpties
<1>. HIDE DEF d, e
<1>11. SumFunctionOnSet(Held, {d, e}) = a.bond + a.appealBond
  <2>1. Held[d] \in Int /\ Held[e] \in Int
    BY <1>3, <1>9
  <2>2. SumFunctionOnSet(Held, {d, e}) = Held[d] + Held[e]
    BY <1>8, <2>1, SumTwo
  <2>. QED
    BY <1>9, <2>2
<1>12. claimable \in [Account -> Nat]
  BY DEF Sound, TypeOK
<1>13. first \in [Account -> Nat] /\ SumFunction(first) = SumFunction(claimable) + a.bond
  BY <1>3, <1>12, SumCredited
<1>14. claimable' = [x \in Account |-> first[x] + Due(x, appealRecipient, a.appealBond)]
  BY <1>1
<1>15. \A x \in Account : claimable'[x] >= claimable[x]
  BY <1>1, <1>3, <1>12, DueNat
<1>. HIDE DEF first
<1>16. SumFunction(claimable') = SumFunction(first) + a.appealBond
  BY <1>3, <1>5, <1>13, <1>14, SumCredited
<1>17. SumFunction(claimable) \in Int
  BY <1>12, FiniteAssumption, SumType DEF SumFunction
<1>18. SumFunction(claimable') = SumFunction(claimable) + SumFunctionOnSet(Held, {d, e})
  BY ONLY <1>3, <1>11, <1>13, <1>16, <1>17
<1>19. {d, e} \in SUBSET Item
  BY <1>8
<1>. QED
  BY <1>1, <1>10, <1>15, <1>18, <1>19, ReleaseSeen

LEMMA SeenExecuteWinner ==
    ASSUME Sound, NEW b \in BountyId, NEW i \in AttemptIndex, NEW signer, NEW sender,
           NEW payoutBps \in PayoutBps, NEW recipient \in Account,
           NEW appealRecipient \in Account \cup {NoOne}, NEW stateHash, NEW nonce,
           ExecuteWinner(sender, signer, b, i, payoutBps, recipient, appealRecipient, stateHash, nonce)
    PROVE  Seen
<1>. DEFINE a == attempts[b][i]
            gross == Gross(bounties[b].reward, payoutBps)
            fee == Fee(gross, bounties[b].feeBps)
            rest == bounties[b].reward - gross
            rec == [bounties[b] EXCEPT !.decisionNonce = nonce, !.rewardSettled = TRUE]
            c == <<"reward", b>>
            d == <<"bond", b, a.reservationId>>
            e == <<"appeal", b, i>>
            first  == [x \in Account |-> claimable[x] + Due(x, recipient, gross - fee + a.bond)]
            second == [x \in Account |-> first[x] + Due(x, appealRecipient, a.appealBond)]
            third  == [x \in Account |-> second[x] + Due(x, roles.treasury, fee)]
<1>1. /\ ~attempts[b][i].settled /\ attempts[b][i].challenger # NoOne
      /\ AppealAllocatable(b, i, appealRecipient)
      /\ attempts' = [attempts EXCEPT ![b][i].settled = TRUE]
      /\ pendingAttempts' = pendingAttempts /\ usdc' = usdc
      /\ claimable' = [x \in Account |->
                       claimable[x] + Due(x, recipient, gross - fee + a.bond)
                                    + Due(x, appealRecipient, a.appealBond)
                                    + Due(x, roles.treasury, fee)
                                    + Due(x, bounties[b].creator, rest)]
      /\ \A o \in BountyId : o # b => bounties'[o] = bounties[o]
      /\ bounties'[b] = rec
      /\ ~bounties[b].rewardSettled /\ bounties[b].registered
  BY AddressAssumption DEF ExecuteWinner, DecisionAcceptable, Sound, TypeOK
<1>2. rec.rewardSettled
  BY BountyFields DEF Sound, BountyRecord
<1>3. bounties[b].reward \in Nat /\ a.bond \in Nat /\ a.appealBond \in Nat
  BY AttemptFields, BountyFields DEF Sound
<1>4. gross \in 0 .. bounties[b].reward
  BY ShareBound, BountyFields, AmountAssumption DEF ExecuteWinner, Gross, Sound
<1>5. fee \in 0 .. gross
  <2>1. gross \in Nat /\ bounties[b].feeBps \in Nat /\ bounties[b].feeBps <= BPS
    BY <1>4, BountyFields, AmountAssumption DEF Sound
  <2>. HIDE DEF gross
  <2>. QED
    BY <2>1, ShareBound DEF Fee
<1>6. /\ a.reservationId \in ReservationId
      /\ \A r \in ReservationId :
           IF r = a.reservationId
           THEN HeldBond(b, r) = a.bond /\ HeldBond(b, r)' = 0
           ELSE HeldBond(b, r)' = HeldBond(b, r)
      /\ \A j \in AttemptIndex :
           IF j = i
           THEN HeldAppeal(b, j) = a.appealBond /\ HeldAppeal(b, j)' = 0
           ELSE HeldAppeal(b, j)' = HeldAppeal(b, j)
      /\ \A o \in BountyId : o # b => attempts'[o] = attempts[o]
  BY <1>1, SettlementEmpties
<1>7. appealRecipient \in Account \/ a.appealBond = 0
  BY <1>1, AppealRecipientOwned
<1>8. roles.treasury \in Account
  BY AddressAssumption DEF Sound, TypeOK, Roles
<1>9. bounties[b].creator \in Account
  <2>1. bounties[b].creator # NoOne
    BY <1>1 DEF Sound, AllBooks, Books, Consistent, EmptyBounty
  <2>. QED
    BY <2>1, BountyFields DEF Sound
<1>. HIDE DEF rec, a, gross, fee
<1>10. HeldReward(b)' = 0 /\ HeldReward(b) = bounties[b].reward
  BY <1>1, <1>2 DEF HeldReward
<1>11. \A o \in BountyId : o # b => SameStorage(o)
  BY <1>1, <1>6 DEF SameStorage
<1>12. c \in Item /\ d \in Item /\ e \in Item /\ c # d /\ c # e /\ d # e
  BY <1>6 DEF Item, RewardItem, BondItem, AppealItem
<1>13. Held[c] = bounties[b].reward /\ Held[d] = a.bond /\ Held[e] = a.appealBond
  BY <1>6, <1>10, HeldAt
<1>14. Held' = [x \in Item |-> IF x \in {c, d, e} THEN 0 ELSE Held[x]]
  <2>1. \A r \in ReservationId :
           HeldBond(b, r)' = IF <<"bond", b, r>> \in {c, d, e} THEN 0 ELSE HeldBond(b, r)
    BY <1>6
  <2>2. \A j \in AttemptIndex :
           HeldAppeal(b, j)' = IF <<"appeal", b, j>> \in {c, d, e} THEN 0 ELSE HeldAppeal(b, j)
    BY <1>6
  <2>3. /\ \A o \in BountyId : o # b => <<"reward", o>> \notin {c, d, e}
        /\ \A o \in BountyId, r \in ReservationId : o # b => <<"bond", o, r>> \notin {c, d, e}
        /\ \A o \in BountyId, j \in AttemptIndex : o # b => <<"appeal", o, j>> \notin {c, d, e}
    OBVIOUS
  <2>4. {c, d, e} \in SUBSET Item
    BY <1>12
  <2>5. HeldReward(b)' = IF <<"reward", b>> \in {c, d, e} THEN 0 ELSE HeldReward(b)
    BY <1>10
  <2>. HIDE DEF c, d, e
  <2>. QED
    BY <1>11, <2>1, <2>2, <2>3, <2>4, <2>5, HeldEmpties
<1>. HIDE DEF c, d, e
<1>15. SumFunctionOnSet(Held, {c, d, e}) = bounties[b].reward + a.bond + a.appealBond
  <2>1. Held[c] \in Int /\ Held[d] \in Int /\ Held[e] \in Int
    BY <1>3, <1>13
  <2>2. SumFunctionOnSet(Held, {c, d, e}) = Held[c] + Held[d] + Held[e]
    <3>1. c # d /\ c # e /\ d # e /\ {c, d, e} \ {c} = {d, e}
      BY <1>12
    <3>2. SumFunctionOnSet(Held, {d, e}) = Held[d] + Held[e]
      BY <2>1, <3>1, SumTwo
    <3>3. IsFiniteSet({c, d, e}) /\ \A x \in {c, d, e} : Held[x] \in Int
      BY <1>12, <2>1, ItemsFinite, FS_Subset
    <3>4. SumFunctionOnSet(Held, {c, d, e}) = Held[c] + SumFunctionOnSet(Held, {c, d, e} \ {c})
      BY <3>3, SumTakeOut
    <3>5. SumFunctionOnSet(Held, {c, d, e}) = Held[c] + (Held[d] + Held[e])
      BY <3>1, <3>2, <3>4
    <3>. QED
      BY ONLY <2>1, <3>5
  <2>. QED
    BY <1>13, <2>2
<1>16. claimable \in [Account -> Nat]
  BY DEF Sound, TypeOK
<1>17. gross - fee + a.bond \in Nat /\ fee \in Nat /\ rest \in Nat
  BY <1>3, <1>4, <1>5
<1>18. claimable' = [x \in Account |-> third[x] + Due(x, bounties[b].creator, rest)]
  BY <1>1
<1>19. \A x \in Account : claimable'[x] >= claimable[x]
  <2>. HIDE DEF rest
  <2>1. ASSUME NEW x \in Account
        PROVE  /\ claimable[x] \in Nat
               /\ Due(x, recipient, gross - fee + a.bond) \in Nat
               /\ Due(x, appealRecipient, a.appealBond) \in Nat
               /\ Due(x, roles.treasury, fee) \in Nat
               /\ Due(x, bounties[b].creator, rest) \in Nat
    BY <1>3, <1>16, <1>17, DueNat
  <2>. QED
    BY <1>1, <2>1
<1>. HIDE DEF rest
<1>20. first \in [Account -> Nat] /\ SumFunction(first) = SumFunction(claimable) + (gross - fee + a.bond)
  BY <1>16, <1>17, SumCredited
<1>. HIDE DEF first
<1>21. second \in [Account -> Nat] /\ SumFunction(second) = SumFunction(first) + a.appealBond
  BY <1>3, <1>7, <1>20, SumCredited
<1>. HIDE DEF second
<1>22. third \in [Account -> Nat] /\ SumFunction(third) = SumFunction(second) + fee
  BY <1>8, <1>17, <1>21, SumCredited
<1>. HIDE DEF third
<1>23. SumFunction(claimable') = SumFunction(third) + rest
  BY <1>9, <1>17, <1>18, <1>22, SumCredited
<1>24. SumFunction(claimable) \in Int
  BY <1>16, FiniteAssumption, SumType DEF SumFunction
<1>25. rest = bounties[b].reward - gross /\ gross \in Int
  BY <1>4 DEF rest
<1>26. SumFunction(claimable') = SumFunction(claimable) + SumFunctionOnSet(Held, {c, d, e})
  <2>1. \A x, g, f, r, w, y, z \in Int :
           x + (g - f + y) + z + f + (r - g) = x + (r + y + z)
    OBVIOUS
  <2>2. fee \in Int /\ bounties[b].reward \in Int /\ a.bond \in Int /\ a.appealBond \in Int
    BY <1>3, <1>17
  <2>3. SumFunction(claimable') = SumFunction(claimable) + (gross - fee + a.bond)
                                    + a.appealBond + fee + (bounties[b].reward - gross)
    BY <1>20, <1>21, <1>22, <1>23, <1>25
  <2>4. SumFunction(claimable) + (gross - fee + a.bond)
              + a.appealBond + fee + (bounties[b].reward - gross)
          = SumFunction(claimable) + (bounties[b].reward + a.bond + a.appealBond)
    <3>1. SumFunction(claimable) \in Int /\ gross \in Int
      BY <1>24, <1>25
    <3>. QED
      BY ONLY <2>1, <2>2, <3>1
  <2>. QED
    BY <1>15, <2>3, <2>4
<1>27. {c, d, e} \in SUBSET Item
  BY <1>12
<1>. QED
  BY <1>1, <1>14, <1>19, <1>26, <1>27, ReleaseSeen

\* Every step of the escrow is a step of Custody, or none of its concern.
LEMMA StepSeen ==
    ASSUME Sound, [Next]_vars
    PROVE  Seen
<1>0. ASSUME UNCHANGED <<bounties, pendingAttempts, attempts, claimable, usdc>> PROVE Seen
  BY <1>0, SeenIdle
<1>1. CASE Tick
  BY <1>0, <1>1 DEF Tick
<1>2. ASSUME NEW sender \in Claimer, Claim(sender) PROVE Seen
  <2>1. sender \in Account
    BY AddressAssumption
  <2>. QED
    BY <1>2, <2>1, SeenClaim
<1>3. ASSUME NEW sender, NEW role, NEW value, SetRole(sender, role, value) PROVE Seen
  BY <1>0, <1>3 DEF SetRole
<1>4. ASSUME NEW b \in BountyId, NEW sender \in Account,
             \/ RecoverOrphanBounty(sender, b)
             \/ \E r \in ReservationId : RecoverPendingAttempt(sender, b, r)
             \/ \E i \in AttemptIndex : RecoverUnactivatedAppeal(sender, b, i)
             \/ \E i \in AttemptIndex, signer \in SignerKey :
                  RecoverAbandonedBoundAppeal(sender, signer, b, i)
      PROVE  Seen
  <2>1. ASSUME NEW i \in AttemptIndex, RecoverUnactivatedAppeal(sender, b, i) PROVE Seen
    BY <2>1, SeenReturnAppealBond DEF RecoverUnactivatedAppeal, AppealRecoverable
  <2>2. ASSUME NEW i \in AttemptIndex, NEW signer, RecoverAbandonedBoundAppeal(sender, signer, b, i)
        PROVE  Seen
    BY <2>2, SeenReturnAppealBond DEF RecoverAbandonedBoundAppeal, AppealRecoverable
  <2>3. ASSUME NEW r \in ReservationId, RecoverPendingAttempt(sender, b, r) PROVE Seen
    BY <2>3, SeenRecoverPendingAttempt
  <2>4. ASSUME RecoverOrphanBounty(sender, b) PROVE Seen
    BY <2>4, SeenRecoverOrphanBounty
  <2>. QED
    BY <1>4, <2>1, <2>2, <2>3, <2>4
<1>5. ASSUME NEW b \in BountyId, NEW signer \in SignerKey, NEW expiry \in Expiry,
             \/ \E sender \in Creator, reward \in Reward, bond \in Bond, feeBps \in FeeBps :
                  FundBounty(sender, signer, b, reward, bond, feeBps, expiry)
             \/ \E sender \in Challenger, r \in ReservationId :
                  FundAttempt(sender, signer, b, r, expiry)
             \/ \E sender \in Appellant, i \in AttemptIndex :
                  FundAppeal(sender, signer, b, i, expiry)
      PROVE  Seen
  <2>1. ASSUME NEW sender, NEW reward \in Reward, NEW bond, NEW feeBps,
               FundBounty(sender, signer, b, reward, bond, feeBps, expiry)
        PROVE  Seen
    <3>1. reward \in Nat
      BY AmountAssumption
    <3>. QED
      BY <2>1, <3>1, SeenFundBounty
  <2>2. ASSUME NEW sender, NEW r \in ReservationId, FundAttempt(sender, signer, b, r, expiry)
        PROVE  Seen
    BY <2>2, SeenFundAttempt
  <2>3. ASSUME NEW sender, NEW i \in AttemptIndex, FundAppeal(sender, signer, b, i, expiry)
        PROVE  Seen
    BY <2>3, SeenFundAppeal
  <2>. QED
    BY <1>5, <2>1, <2>2, <2>3
<1>6. ASSUME NEW b \in BountyId, NEW sender \in RelayerKey, NEW signer \in SignerKey,
             \/ RegisterBounty(sender, signer, b)
             \/ \E r \in ReservationId, i \in AttemptIndex : BindAttempt(sender, signer, b, r, i)
             \/ \E i \in AttemptIndex, txHash \in TxHash : BindAppeal(sender, signer, b, i, txHash)
             \/ \E stateHash \in StateHash, nonce \in 1 .. Cardinality(StateHash),
                   recipient \in Account :
                  \/ ExecuteBountyRefund(sender, signer, b, recipient, stateHash, nonce)
                  \/ \E i \in AttemptIndex, appealRecipient \in Account \cup {NoOne} :
                       \/ \E outcome \in {"BondRefund", "BondForfeit"} :
                            ExecuteBond(sender, signer, b, i, outcome, recipient,
                                        appealRecipient, stateHash, nonce)
                       \/ \E payoutBps \in PayoutBps :
                            ExecuteWinner(sender, signer, b, i, payoutBps, recipient,
                                          appealRecipient, stateHash, nonce)
      PROVE  Seen
  <2>1. ASSUME NEW stateHash, NEW nonce, NEW recipient \in Account, NEW i \in AttemptIndex,
               NEW appealRecipient \in Account \cup {NoOne}, NEW outcome,
               ExecuteBond(sender, signer, b, i, outcome, recipient,
                           appealRecipient, stateHash, nonce)
        PROVE  Seen
    BY <2>1, SeenExecuteBond
  <2>2. ASSUME NEW stateHash, NEW nonce, NEW recipient \in Account, NEW i \in AttemptIndex,
               NEW appealRecipient \in Account \cup {NoOne}, NEW payoutBps \in PayoutBps,
               ExecuteWinner(sender, signer, b, i, payoutBps, recipient,
                             appealRecipient, stateHash, nonce)
        PROVE  Seen
    BY <2>2, SeenExecuteWinner
  <2>3. ASSUME NEW stateHash, NEW nonce, NEW recipient \in Account,
               ExecuteBountyRefund(sender, signer, b, recipient, stateHash, nonce)
        PROVE  Seen
    BY <2>3, SeenExecuteBountyRefund
  <2>4. ASSUME RegisterBounty(sender, signer, b) PROVE Seen
    BY <2>4, SeenRegisterBounty
  <2>5. ASSUME NEW r \in ReservationId, NEW i \in AttemptIndex, BindAttempt(sender, signer, b, r, i)
        PROVE  Seen
    BY <2>5, SeenBindAttempt
  <2>6. ASSUME NEW i \in AttemptIndex, NEW txHash, BindAppeal(sender, signer, b, i, txHash)
        PROVE  Seen
    BY <2>6, SeenBindAppeal
  <2>. QED
    BY <1>6, <2>1, <2>2, <2>3, <2>4, <2>5, <2>6
<1>7. CASE UNCHANGED vars
  BY <1>0, <1>7 DEF vars
<1>8. CASE Next
  BY <1>1, <1>2, <1>3, <1>4, <1>5, <1>6, <1>8, ZenonT(60) DEF Next
<1>. QED
  BY <1>7, <1>8

LEMMA InitSeen == Init => Vault!Init
<1>. SUFFICES ASSUME Init PROVE Vault!Init
  OBVIOUS
<1>1. TypeOK /\ AllBooks
  BY InitType, InitBooks
<1>2. Held \in [Item -> Nat]
  BY <1>1, HeldType
<1>3. \A b \in BountyId : HeldReward(b) = 0
  BY DEF Init, HeldReward, EmptyBounty
<1>4. \A b \in BountyId, r \in ReservationId : HeldBond(b, r) = 0
  BY DEF Init, HeldBond, EmptyPendingAttempt
<1>5. \A b \in BountyId, i \in AttemptIndex : HeldAppeal(b, i) = 0
  BY DEF Init, HeldAppeal, EmptyAttempt
<1>6. \A d \in Item : Held[d] = 0
  BY <1>3, <1>4, <1>5, HeldAt DEF Item, RewardItem, BondItem, AppealItem
<1>7. Held = [d \in Item |-> 0]
  BY <1>2, <1>6
<1>. QED
  BY <1>7 DEF Vault!Init, Init

\* Whatever the relayer and the decision signer order, the escrow keeps the
\* promise of Custody: a deposit leaves its place whole and into claims only, to
\* the last unit, and money leaves the contract only as the whole claim of an account.
THEOREM CustodyIsKept == Spec => KeepsCustody
<1>1. Init => Vault!Init
  BY InitSeen
<1>2. TypeOK /\ AllBooks /\ (TypeOK /\ AllBooks)' /\ [Next]_vars
        => [Vault!Next]_Vault!custodyVars
  BY StepSeen DEF Sound, Seen
<1>. QED
  BY <1>1, <1>2, Inductive, PTL DEF Spec, KeepsCustody, Vault!Spec

-----------------------------------------------------------------------------
(* What the contract owes. *)

LEMMA ItemTaken ==
    ASSUME NEW f \in [Item -> Nat], NEW d \in Item
    PROVE  /\ SumFunction(f) = f[d] + SumFunctionOnSet(f, Item \ {d})
           /\ SumFunctionOnSet(f, Item \ {d}) \in Int
<1>1. SumFunction(f) = SumFunctionOnSet(f, Item)
  BY DEF SumFunction
<1>. QED
  BY <1>1, ItemsFinite, SumTakeOut

LEMMA SolventStep ==
    ASSUME Sound, Solvent, Seen
    PROVE  Solvent'
<1>1. Held \in [Item -> Nat]
  BY HeldType DEF Sound
<1>2. Held' \in [Item -> Nat]
  <2>1. (TypeOK /\ AllBooks => Held \in [Item -> Nat])'
    BY HeldTyped, PTL
  <2>. QED
    BY <2>1 DEF Sound
<1>3. claimable \in [Account -> Nat] /\ claimable' \in [Account -> Nat] /\ usdc \in Int
  BY DEF Sound, TypeOK
<1>4. SumFunction(claimable) \in Int /\ SumFunction(Held) \in Int
  BY <1>1, <1>3, FiniteAssumption, ItemsFinite, SumType DEF SumFunction
<1>5. usdc = SumFunction(claimable) + SumFunction(Held)
  BY DEF Solvent
<1>6. SUFFICES usdc' = SumFunction(claimable') + SumFunction(Held')
  BY DEF Solvent
<1>7. CASE UNCHANGED Vault!custodyVars
  BY <1>5, <1>7 DEF Vault!custodyVars
<1>8. ASSUME NEW d \in Item, Vault!Deposit(d)
      PROVE  usdc' = SumFunction(claimable') + SumFunction(Held')
  <2>1. /\ Held[d] = 0 /\ Held' = [Held EXCEPT ![d] = Held'[d]]
        /\ usdc' = usdc + Held'[d] /\ claimable' = claimable
    BY <1>8 DEF Vault!Deposit
  <2>2. SumFunctionOnSet(Held', Item \ {d}) = SumFunctionOnSet(Held, Item \ {d})
    <3>1. IsFiniteSet(Item \ {d})
      BY ItemsFinite, FS_Subset
    <3>2. \A x \in Item \ {d} : Held[x] \in Int /\ Held'[x] = Held[x]
      BY <1>1, <2>1
    <3>. QED
      BY <3>1, <3>2, SumSame
  <2>3. /\ SumFunction(Held) = Held[d] + SumFunctionOnSet(Held, Item \ {d})
        /\ SumFunctionOnSet(Held, Item \ {d}) \in Int
    BY <1>1, ItemTaken
  <2>4. SumFunction(Held') = Held'[d] + SumFunctionOnSet(Held', Item \ {d})
    BY <1>2, ItemTaken
  <2>5. Held'[d] \in Int
    BY <1>2
  <2>. QED
    BY ONLY <1>3, <1>4, <1>5, <2>1, <2>2, <2>3, <2>4, <2>5
<1>9. ASSUME NEW released \in SUBSET Item, Vault!Release(released)
      PROVE  usdc' = SumFunction(claimable') + SumFunction(Held')
  <2>1. /\ Held' = [d \in Item |-> IF d \in released THEN 0 ELSE Held[d]]
        /\ SumFunction(claimable') = SumFunction(claimable) + SumFunctionOnSet(Held, released)
        /\ usdc' = usdc
    BY <1>9, SumOfVault DEF Vault!Release
  <2>2. IsFiniteSet(released) /\ IsFiniteSet(Item \ released)
    BY ItemsFinite, FS_Subset
  <2>3. SumFunctionOnSet(Held, Item)
          = SumFunctionOnSet(Held, released) + SumFunctionOnSet(Held, Item \ released)
    BY <1>1, ItemsFinite, SumSplit
  <2>4. SumFunctionOnSet(Held', Item)
          = SumFunctionOnSet(Held', released) + SumFunctionOnSet(Held', Item \ released)
    <3>1. \A x \in Item : Held'[x] \in Int
      BY <1>2
    <3>. QED
      BY <3>1, ItemsFinite, SumSplit
  <2>5. SumFunctionOnSet(Held', released) = 0
    BY <2>1, <2>2, SumZero
  <2>6. SumFunctionOnSet(Held', Item \ released) = SumFunctionOnSet(Held, Item \ released)
    <3>1. \A x \in Item \ released : Held[x] \in Int /\ Held'[x] = Held[x]
      BY <1>1, <2>1
    <3>. QED
      BY <2>2, <3>1, SumSame
  <2>7. /\ SumFunction(Held) = SumFunctionOnSet(Held, Item)
        /\ SumFunction(Held') = SumFunctionOnSet(Held', Item)
    BY <1>1, <1>2 DEF SumFunction
  <2>8. /\ SumFunctionOnSet(Held, released) \in Int
        /\ SumFunctionOnSet(Held, Item \ released) \in Int
    BY <1>1, <2>2, SumType
  <2>. QED
    BY ONLY <1>3, <1>4, <1>5, <2>1, <2>3, <2>4, <2>5, <2>6, <2>7, <2>8
<1>10. ASSUME NEW x \in Account, Vault!Withdraw(x)
       PROVE  usdc' = SumFunction(claimable') + SumFunction(Held')
  <2>1. /\ claimable' = [claimable EXCEPT ![x] = 0]
        /\ usdc' = usdc - claimable[x] /\ Held' = Held
    BY <1>10 DEF Vault!Withdraw
  <2>2. \A y \in Account : claimable[y] \in Int /\ claimable'[y] \in Int
    BY <1>3
  <2>3. /\ SumFunctionOnSet(claimable, Account)
             = claimable[x] + SumFunctionOnSet(claimable, Account \ {x})
        /\ SumFunctionOnSet(claimable, Account \ {x}) \in Int
    BY <2>2, FiniteAssumption, SumTakeOut
  <2>4. SumFunctionOnSet(claimable', Account)
          = claimable'[x] + SumFunctionOnSet(claimable', Account \ {x})
    BY <2>2, FiniteAssumption, SumTakeOut
  <2>5. SumFunctionOnSet(claimable', Account \ {x}) = SumFunctionOnSet(claimable, Account \ {x})
    <3>1. IsFiniteSet(Account \ {x})
      BY FiniteAssumption, FS_Subset
    <3>2. \A y \in Account \ {x} : claimable[y] \in Int /\ claimable'[y] = claimable[y]
      BY <1>3, <2>1
    <3>. QED
      BY <3>1, <3>2, SumSame
  <2>6. claimable'[x] = 0 /\ claimable[x] \in Int
    BY <1>3, <2>1
  <2>7. /\ SumFunction(claimable) = SumFunctionOnSet(claimable, Account)
        /\ SumFunction(claimable') = SumFunctionOnSet(claimable', Account)
    BY <1>3 DEF SumFunction
  <2>. QED
    BY ONLY <1>3, <1>4, <1>5, <2>1, <2>3, <2>4, <2>5, <2>6, <2>7
<1>. QED
  BY <1>7, <1>8, <1>9, <1>10 DEF Seen, Vault!Next

LEMMA SolventAtFirst == Init => Solvent
<1>. SUFFICES ASSUME Init PROVE Solvent
  OBVIOUS
<1>1. claimable = [x \in Account |-> 0] /\ Held = [d \in Item |-> 0] /\ usdc = 0
  BY InitSeen DEF Init, Vault!Init
<1>2. SumFunctionOnSet(claimable, Account) = 0 /\ SumFunctionOnSet(Held, Item) = 0
  BY <1>1, FiniteAssumption, ItemsFinite, SumZero
<1>3. SumFunction(claimable) = 0 /\ SumFunction(Held) = 0
  BY <1>1, <1>2 DEF SumFunction
<1>. QED
  BY <1>1, <1>3 DEF Solvent

\* The contract always holds exactly what it owes: the claims, and the deposits
\* that are not credited yet.  No claim can find the contract short.
THEOREM SolvencyCorrect == Spec => []Solvent
<1>1. Init => Solvent
  BY SolventAtFirst
<1>2. TypeOK /\ AllBooks /\ (TypeOK /\ AllBooks)' /\ Solvent /\ [Next]_vars => Solvent'
  BY StepSeen, SolventStep DEF Sound
<1>. QED
  BY <1>1, <1>2, Inductive, PTL DEF Spec

=============================================================================
