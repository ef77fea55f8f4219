SPECIFICATION Spec
CONSTANTS
    creator = creator
    alice = alice
    bob = bob
    arbiter = arbiter
    attestor = attestor
    Account = {creator, alice, arbiter, attestor}
    NoOne = NoOne
    BountyId = {b1}
    ReservationId = {r1, r2}
    AttemptIndex = {0, 1}
    TxHash = {t1}
    NoHash = NoHash
    Owner = {attestor}
    Attestor = {attestor}
    Treasury = {creator}
    Creator = {creator}
    Arbiter = {arbiter}
    Challenger = {alice}
    Reward = {7}
    Bond = {2}
    FeeBps = {1}
    ReviewVerdict = {"APPROVED", "REJECTED", "NEEDS_REVISION"}
    ReviewBps = {4}
    Ruling = {"APPROVE"}
    Pause = {}
    Malformed = Malformed
    DeadlineSeconds = {1}
    ExtraSeconds = {}
    BPS_DENOMINATOR = 8
    PAYOUT_BUCKET_BPS = 2
    MAX_FEE_BPS = 1
    DEFAULT_MAX_REVISIONS = 1
    MIN_BOUNTY_DEADLINE_SECONDS = 1
    FUNDING_RESERVATION_SECONDS = 0
    VERIFICATION_GRACE_SECONDS = 1
    APPEAL_WINDOW_SECONDS = 1
    ARBITER_GRACE_SECONDS = 2
    MaxDeadline = 1
INVARIANTS RaceIsDecided AttemptsComeFromReservations ReputationIsRecord
PROPERTIES KeepsContest
SYMMETRY MCSymmetry
