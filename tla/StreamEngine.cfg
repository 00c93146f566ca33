SPECIFICATION FairSpec
CONSTANTS
    MaxGeneration = 4
    RecoveryLimit = 1
    MaxExtras = 1
CHECK_DEADLOCK FALSE
INVARIANTS
    BindingMatchesSession
    NothingLeftBehind
    SessionIsWatched
    EndReportedOnce
PROPERTIES
    ClipReportsInItsSession
    CommandEnds
    DeadReceiverEndsSession
