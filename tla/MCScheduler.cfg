\* A demo that stands, one that was declined, two processes that sweep.
CONSTANTS
    Meetings = {m1, m2}
    Leads = {lead1}
    AEs = {ae1, ae2}
    Shared = demos
    None = none
    Requests = {}
    LeadOf <- MCNoRequest
    AeOf <- MCNoRequest
    StartOf <- MCNoRequest
    lead1 = lead1
    m1 = m1
    Length = 1
    CheckWindow = 4
    MinNotice = 1
    AeStarts = {}
    MaxTime = 4
    MaxFailures = 1
    Sweepers = {w1, w2}
    Phones = {lead1}
    LeadTime = 3
    Grace = 1
    Horizon = 4
    EnableDeclineCalls = TRUE
    ByHand = {m1}
    MaxSweep = 1
SPECIFICATION MCSpec
INVARIANTS OneCallPerMeeting ReminderGoesOut
PROPERTIES GuestsKept ReminderBeforeDemo
CHECK_DEADLOCK FALSE
SYMMETRY MCSymmetry
