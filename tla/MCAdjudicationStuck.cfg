SPECIFICATION FairSpec
CONSTANTS
    creator = creator
    alice = alice
    bob = bob
    arbiter = arbiter
    attestor = attestor
    Account = {creator, alice, arbiter, attestor}
    NoOne = NoOne
    BountyId = {b1}
    ReservationId = {r1}
    AttemptIndex = {0}
    TxHash = {t1}
    NoHash = NoHash
    Owner = {attestor}
    Attestor = {attestor}
    Treasury = {creator}
    Creator = {creator}
    Arbiter = {arbiter}
    Challenger = {alice}
    Reward = {7}
    Bond = {2}
    FeeBps = {1}
    ReviewVerdict = {"APPROVED", "REJECTED", "NEEDS_REVISION"}
    ReviewBps = {3}
    Ruling = {"APPROVE"}
    Pause = {}
    Malformed = Malformed
    DeadlineSeconds = {1}
    ExtraSeconds = {1}
    BPS_DENOMINATOR = 8
    PAYOUT_BUCKET_BPS = 2
    MAX_FEE_BPS = 1
    DEFAULT_MAX_REVISIONS = 2
    MIN_BOUNTY_DEADLINE_SECONDS = 1
    FUNDING_RESERVATION_SECONDS = 0
    VERIFICATION_GRACE_SECONDS = 1
    APPEAL_WINDOW_SECONDS = 2
    ARBITER_GRACE_SECONDS = 3
    MaxDeadline = 1
PROPERTIES DisputesEnd
