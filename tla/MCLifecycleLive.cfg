\* Progress, with every task fair and one webhook delivered twice or one crash.
SPECIFICATION FairSpec
CONSTANTS
    c1 = c1
    k1 = k1
    lead1 = lead1
    NoKey = NoKey
    NoCall = NoCall
    Calls <- MCCalls
    Keys = {k1}
    Leads = {lead1}
    KeyOf <- MCKeyOf
    LeadOf <- MCLeadOf
    FollowUps = {}
    MaxCallsPerLead = 3
    Window = 1
    MinGap = 1
    Cloning = TRUE
    Disturbances = {"crash", "duplicate"}
    MaxDisturbances = 1
    MaxTime = 0
    Handlers = {h1, h2}
    MaxAttempts = 2
    Sweepers = {s1}
PROPERTIES
    NoRowLeftInPreparation
    CarrierEndReachesRow
    EndIsReported
    ClonesGo
CHECK_DEADLOCK FALSE
