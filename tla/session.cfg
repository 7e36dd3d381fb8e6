SPECIFICATION FairSpec
CONSTANTS
    Registered = {"1002"}
    Unknown = {"77"}
    MaxTwice = 2
CHECK_DEADLOCK FALSE
INVARIANTS
    TypeOK
    OneCommandPerMessage
    LoginsAreChecked
PROPERTIES
    BackToMenu
