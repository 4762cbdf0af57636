SPECIFICATION MCSpec
CONSTANTS
    DaysPerMonth = 2
    WindowLength = 1
    Keys <- TwoKeys
    Tools <- TwoTools
    TeamIds <- OneTeam
    MaxTeamKeys = 1
    Budgets = {3}
    TeamQuotas <- QuotaChoices
    Price <- PriceTwo
    ToolRate <- OneAndTwo
    RateLimit = 2
    GlobalQuota <- TwoADay
    RefundOnFailure = TRUE
    ShadowModes = {TRUE, FALSE}
    Grants = {3}
    Limits = {1}
    KeyQuotas <- QuotaChoices
    Topups <- TopupChoices
    Expiries = {1}
    Origins <- AnyOrigin
    AdminOps = {"topup", "transfer", "rotate", "clone", "suspend"}
    Calls = 3
    MaxNow = 1
    MaxDay = 1
    MaxLife = 1
    MaxBalance = 4
    k1 = k1
    k2 = k2
    t1 = t1
    t2 = t2
    team1 = team1
    NoTeam = NoTeam
INVARIANTS TypeOK CreditsConserved SpentCovers  LimitsHonoured
SYMMETRY Accounts
CHECK_DEADLOCK FALSE
