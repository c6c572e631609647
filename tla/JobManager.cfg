SPECIFICATION FairSpec
CONSTANTS
    Jobs = {j1, j2}
    WebhooksConfigured = TRUE
    Reports = 1
INVARIANTS
    StatusMatchesGoroutine
    WebhookStory
PROPERTIES
    GracefulSeesNoJob
    ImplementsContract
    EveryJobResolves
    ShutdownReturns
CHECK_DEADLOCK FALSE
