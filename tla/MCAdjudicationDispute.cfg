SPECIFICATION FairSpec
CONSTANTS
    creator = creator
    alice = alice
    bob = bob
    arbiter = arbiter
    attestor = attestor
    Account = {creator, alice, arbiter, attestor}
    NoOne = NoOne
    BountyId = {b1}
    ReservationId = {r1}
    AttemptIndex = {0}
    TxHash = {t1}
    NoHash = NoHash
    Owner = {attestor}
    Attestor = {attestor}
    Treasury = {creator}
    Creator = {creator}
    Arbiter = {arbiter}
    Challenger = {alice}
    Reward = {7}
    Bond = {0, 2}
    FeeBps = {1, 2}
    ReviewVerdict = {"APPROVED", "PARTIAL", "REJECTED", "INSUFFICIENT_EVIDENCE", "garbled"}
    ReviewBps = {3, 5, Malformed}
    Ruling = {"APPROVE", "REJECT", "PARTIAL"}
    Pause = {TRUE, FALSE}
    Malformed = Malformed
    DeadlineSeconds = {1}
    ExtraSeconds = {1}
    BPS_DENOMINATOR = 8
    PAYOUT_BUCKET_BPS = 2
    MAX_FEE_BPS = 1
    DEFAULT_MAX_REVISIONS = 2
    MIN_BOUNTY_DEADLINE_SECONDS = 1
    FUNDING_RESERVATION_SECONDS = 0
    VERIFICATION_GRACE_SECONDS = 1
    APPEAL_WINDOW_SECONDS = 2
    ARBITER_GRACE_SECONDS = 3
    MaxDeadline = 1
INVARIANTS TypeOK BondLedger DisputesKeepReward AppealsAreFunded  ExitsAreOffered
PROPERTIES DecisionsAreFinal AppealBondFollowsOutcome AttemptsEnd BountiesClose
