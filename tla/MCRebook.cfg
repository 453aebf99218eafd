\* Bookings one by one, for a time beyond the window the check reads.
CONSTANTS
    Meetings = {m1, m2}
    Leads = {lead1}
    AEs = {ae1}
    Shared = demos
    None = none
    Requests = {r1, r2}
    LeadOf <- MCLeadOf
    AeOf <- MCAeOf
    StartOf <- MCStartBeyond
    r1 = r1
    ae1 = ae1
    lead1 = lead1
    Length = 1
    CheckWindow = 2
    MinNotice = 1
    AeStarts = {}
    MaxTime = 1
    MaxFailures = 0
SPECIFICATION BookingSpec
PROPERTY RebookingCreatesNothing
CHECK_DEADLOCK FALSE
