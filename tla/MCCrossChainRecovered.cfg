SPECIFICATION Spec
CONSTANTS
    creator = creator
    alice = alice
    arbiter = arbiter
    attestor = attestor
    relayer = relayer
    signer = signer
    b1 = b1
    r1 = r1
    t1 = t1
    t2 = t2
    t3 = t3
    Account = {creator, alice, arbiter, attestor}
    NoOne = NoOne
    BountyId = {b1}
    ReservationId = {r1}
    NoReservation = NoReservation
    AttemptIndex = {0}
    TxHash = {t1, t2, t3}
    NoHash = NoHash
    Creator = {creator}
    Arbiter = {arbiter}
    Challenger = {alice}
    Attestor = {attestor}
    Treasury = {arbiter}
    RelayerKey = {relayer}
    SignerKey = {signer}
    Reward = {7}
    Bond = {2}
    FeeBps = {1}
    ReviewVerdict = {"PARTIAL", "REJECTED"}
    ReviewBps = {3}
    Ruling = {"APPROVE"}
    Malformed = Malformed
    DeadlineSeconds = {1}
    ExtraSeconds = {}
    MaxDeadline = 1
    BPS_DENOMINATOR = 8
    PAYOUT_BUCKET_BPS = 2
    MAX_FEE_BPS = 1
    DEFAULT_MAX_REVISIONS = 1
    MIN_BOUNTY_DEADLINE_SECONDS = 1
    FUNDING_RESERVATION_SECONDS = 0
    VERIFICATION_GRACE_SECONDS = 1
    APPEAL_WINDOW_SECONDS = 2
    ARBITER_GRACE_SECONDS = 3
    PENDING_ATTEMPT_RECOVERY_DELAY = 1
    ORPHAN_DELAY = 2
    MaxTime = 2
    Handler = {q1}
INVARIANTS UnboundDepositsRecover
CHECK_DEADLOCK FALSE
