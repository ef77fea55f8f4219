SPECIFICATION Spec
CONSTANTS
    Malformed = Malformed
    BPS_DENOMINATOR = 24
    PAYOUT_BUCKET_BPS = 4
    MAX_FEE_BPS = 3
    MaxReward = 30
    RawVerdict = {"APPROVED", "PARTIAL", "REJECTED", "INSUFFICIENT_EVIDENCE", "garbled"}
INVARIANTS FindingIsExecutable SharesAddUp
