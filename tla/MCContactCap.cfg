\* Nothing fails in the database and nothing crashes: overlapping requests and
\* failed placements are enough.
SPECIFICATION PlacementSpec
CONSTANTS
    r1 = r1
    r2 = r2
    r3 = r3
    k1 = k1
    lead1 = lead1
    NoKey = NoKey
    NoCall = NoCall
    Calls <- MCCalls
    Keys = {k1}
    Leads = {lead1}
    KeyOf <- MCKeyOf
    LeadOf <- MCLeadOf
    FollowUps <- MCFollowUps
    MaxCallsPerLead = 1
    Window = 1
    MinGap = 2
    Cloning = TRUE
    Disturbances = {}
    MaxDisturbances = 0
    MaxTime = 3
INVARIANTS
    PhonedWithinCap
CHECK_DEADLOCK FALSE
