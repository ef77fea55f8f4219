SPECIFICATION FairSpec
CONSTANTS
    Message = {{"timeout", "network"}, {"user rejected"}}
    Flow = {1, 2}
    MaxReservations = 2
    MaxDisturbances = 1
    MaxAppeals = 2
    MaxHashes = 3
    MaxCutOffs = 1
    Click = {1, 2}
    Title = {"t"}
    Reward = {1, 2}
    MaxBounties = 2
    MaxListing = 2
    Account = {alice, bob}
    NoAccount = nobody
    Limit = 1
    MaxNotifications = 2
    MaxChanges = 2
    MaxRefreshes = 2
    MaxMarks = 1
    Content = {"c", "d"}
    MAX_REDIRECTS = 1
    MaxArchivings = 3
INVARIANTS  CreatedAsSigned ArchiveMarksAreTrue
CHECK_DEADLOCK FALSE
PROPERTIES ShownBecomesCurrent
