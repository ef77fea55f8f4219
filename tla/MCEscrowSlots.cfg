SPECIFICATION Spec
CONSTANTS
    creator = creator
    alice = alice
    bob = bob
    treasury = treasury
    Account = {creator, alice, bob, treasury}
    Creator = {creator, alice}
    Challenger = {alice}
    Appellant = {creator, alice}
    Claimer = {creator}
    NoOne = NoOne
    BountyId = {b1}
    ReservationId = {r1}
    NoReservation = NoReservation
    AttemptIndex = {i1}
    StateHash = {s1, s2}
    TxHash = {t1}
    NoHash = NoHash
    OwnerKey = {owner}
    RelayerKey = {relayer}
    SignerKey = {signer}
    Treasury = {treasury, bob}
    Reward = {7}
    Bond = {0, 2}
    FeeBps = {0, 1}
    PayoutBps = {3, 4}
    BPS = 4
    MaxFeeBps = 1
    AuthTTL = 0
    PENDING_ATTEMPT_RECOVERY_DELAY = 1
    ORPHAN_DELAY = 2
    MaxTime = 3
INVARIANTS UnregisteredHoldsOnlyReward
PROPERTIES SettledAttemptsFrozen KeepsCustody
CHECK_DEADLOCK FALSE
SYMMETRY MCSymmetry
