CONSTANTS
    Env <- MCEnv
    Aliases0 <- MCAliases
    StoredRoutes <- MCStored
    Shares <- MCShares
    KeyEnv <- MCEnv
    MaxKeys = 2
    MaxKeyVisits = 3
    Accounts = {"a"}
    ProviderStatus = {"pending", "active"}
    AccountStatus = {"pending", "suspended"}
    MaxFormVisits = 2
    MaxInfoVisits = 3
    Entries <- MCEntries
    Matches <- MCMatches
    Filters = {"m2", "m3"}
    PageSize = 2
    MaxListVisits = 4
    MaxActs = 4
    WebhookEvents = {"created", "succeeded"}
    Announcements = {"n1"}
    Announces <- MCAnnounces
    FirstEndpoints <- MCFirstEndpoints
    MaxEndpoints = 3
    MaxHookActs = 3
    MaxWebhookFaults = 1
SPECIFICATION Spec
INVARIANTS
    LiveIsWhatWasSent
    PagesAgree
    KeyInForceIsKnown
    ShownIsStored
    LogoIsThere
    ListIsWhatFormSays
    EveryEndpointIsTried
CHECK_DEADLOCK FALSE
