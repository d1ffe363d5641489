SPECIFICATION Spec
CONSTANTS
    MaxEnables = 2
    MaxDisables = 1
    MaxTicks = 1
    MaxChanges = 1
    MaxMigrations = 0
    ConfigAnswers = {TRUE, FALSE}
    ObjBatches = {0, 1}
    ResolveResults = {TRUE, FALSE}
    StartResults = {TRUE, FALSE}
    AdviceChoices = {TRUE}
INVARIANTS
    OneRequestAtATime
    HubServesWhileEnabled
PROPERTIES
    SwitchSpec
    EnablingForgets
\* The bounds run out, and a failed assertion or a HUB that waits for its own
\* lock really stops the system.
CHECK_DEADLOCK FALSE
