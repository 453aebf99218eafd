\* No fault, crash or duplicate: a lost answer is enough.
SPECIFICATION Spec
CONSTANTS
    c1 = c1
    k1 = k1
    lead1 = lead1
    NoKey = NoKey
    NoCall = NoCall
    Calls <- MCCalls
    Keys = {k1}
    Leads = {lead1}
    KeyOf <- MCKeyOf
    LeadOf <- MCLeadOf
    FollowUps = {}
    MaxCallsPerLead = 3
    Window = 1
    MinGap = 1
    Cloning = FALSE
    Disturbances = {}
    MaxDisturbances = 0
    MaxTime = 0
    Handlers = {h1, h2}
    MaxAttempts = 2
    Sweepers = {s1}
INVARIANTS
    DeliveredAtMostOnce
CHECK_DEADLOCK FALSE
