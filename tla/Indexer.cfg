SPECIFICATION FairSpec
CONSTANTS
    BountyId = {0, 1}
    AttemptIndex = {0, 1}
    Content = {"c"}
    LiveStatus = {"ACCEPTED", "SUBMITTED", "NEEDS_REVISION"}
    FinalStatus = {"WON", "LOST_RACE"}
    MaxAttempts = 2
    MaxMoves = 3
INVARIANTS JudgedEvidenceIsArchived
PROPERTIES EventsOncePerChange RowsConverge
