SPECIFICATION Spec
CONSTANTS
    creator = creator
    alice = alice
    bob = bob
    treasury = treasury
    Account = {creator, alice, bob, treasury}
    Creator = {creator}
    Challenger = {alice, bob}
    Appellant = {creator}
    Claimer = {alice}
    NoOne = NoOne
    BountyId = {b1}
    ReservationId = {r1, r2}
    NoReservation = NoReservation
    AttemptIndex = {i1, i2}
    StateHash = {s1, s2, s3}
    TxHash = {t1}
    NoHash = NoHash
    OwnerKey = {owner}
    RelayerKey = {relayer}
    SignerKey = {signer}
    Treasury = {treasury}
    Reward = {7}
    Bond = {2}
    FeeBps = {1}
    PayoutBps = {3}
    BPS = 4
    MaxFeeBps = 1
    AuthTTL = 0
    PENDING_ATTEMPT_RECOVERY_DELAY = 1
    ORPHAN_DELAY = 1
    MaxTime = 1
INVARIANTS TypeOK ReservationsBackOneAttempt StorageConsistent DepositsPaidOnce Solvent
PROPERTIES ClaimsLeaveWhole
CHECK_DEADLOCK FALSE
SYMMETRY MCSymmetry
