\* LinkConfig::default() scaled down, with Android 10's cap on requests, which
\* binds before the backoff list does.
SPECIFICATION FairSpec
CONSTANTS
    VerifyAttempts = 3
    HeartbeatMisses = 2
    BackoffLen = 3
    MaxRequests = 2
    MaxPings = 2
INVARIANTS
    NeverStranded
    RequestHeldWhileTrying
    ActiveOnlyWhenWanted
    HandoffOncePerSession
    RequestsInARowCapped
PROPERTIES
    Settles
