SPECIFICATION FairSpec
CONSTANTS
    MaxEnables = 1
    MaxDisables = 1
    MaxTicks = 2
    MaxChanges = 0
    MaxMigrations = 2
    ConfigAnswers = {TRUE}
    ObjBatches = {1, 2}
    ResolveResults = {TRUE}
    StartResults = {TRUE}
    AdviceChoices = {TRUE, FALSE}
INVARIANTS
    TypeOK
    OneConversation
    NothingIsStranded
    LockedWhileCollecting
    EchoesInOrder
PROPERTIES
    DisableEnds
    RoundsEnd
\* The bounds run out, and a failed assertion or a HUB that waits for its own
\* lock really stops the system.
CHECK_DEADLOCK FALSE
