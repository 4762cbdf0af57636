SPECIFICATION MCSpec
CONSTANTS
    AdminKeyNames <- FourKeys
    Configured <- FirstKey
    Requests <- TwoRequests
    MaxRestarts = 1
    Servers <- TwoServers
    Tokens <- TwoScoped
    MaxTtl = 2
    MaxMishaps = 1
    MaxTokenClock = 4
    Clients <- OneClient
    Strangers <- OneStranger
    CodeTtl = 1
    AccessTtl = 1
    RefreshTtl = 2
    MaxCodes = 2
    MaxTokens = 4
    MaxClock = 5
    Streams <- ThreeStreams
    MaxSessions = 2
    MaxSsePerSession = 1
    SessionTimeout = 1
    MaxIds = 4
    a = a
    b = b
    k0 = k0
    k1 = k1
    k2 = k2
    k3 = k3
    r1 = r1
    r2 = r2
    e1 = e1
    e2 = e2
    e3 = e3
    t1 = t1
    t2 = t2
INVARIANTS OAuthHonoured SomeSuperAdmin OneBootstrapKey SessionsHonoured RulesHonoured
PROPERTIES RevokedForGood RejectedForGood OldestGoesFirst Forgotten
CHECK_DEADLOCK FALSE
