SPECIFICATION FairSpec
CONSTANTS
    o1 = o1
    o2 = o2
    d1 = d1
    d2 = d2
    OBJs = {o1, o2}
    Disks = {d1, d2}
    TierOf <- Tiers
    MaxItems = 2
    MaxEpochs = 2
    Removable = {d1}
    MaxLearnings = 1
    MaxExpiries = 2
    MaxLosses = 1
    MaxRemovals = 1
    MaxDeletions = 1
    MaxEvents = 2
    Results = {"ok", "failed"}
    TriggerChoices = {TRUE, FALSE}
    ConflictWins = {TRUE, FALSE}
    LeaseEnds = {TRUE, FALSE}
INVARIANTS
    OneMigrationPerDisk
    InFlightIsKnown
    CompletionsFit
    PinsHold
PROPERTIES
    EveryMigrationEnds
\* The bounds run out, and a failed assertion stops the HUB.
CHECK_DEADLOCK FALSE
