\* Two bookings for one prospect, a demo takes two units of time; two checks or
\* bookings and one sweep ask for tokens of two users; two waits ask for the
\* owner of one lead.
CONSTANTS
    Meetings = {m1, m2}
    Leads = {lead1, lead2}
    AEs = {ae1}
    Shared = demos
    None = none
    Requests = {r1, r2}
    LeadOf <- MCLeadOf
    AeOf <- MCAeOf
    StartOf <- MCStartOf
    r1 = r1
    ae1 = ae1
    lead1 = lead1
    Length = 2
    CheckWindow = 4
    MinNotice = 1
    AeStarts = {3}
    MaxTime = 2
    MaxFailures = 1
    Subjects = {u1, u2}
    Callers = {c1, c2, sweep}
    Timed = {c1, c2}
    NoToken = NoToken
    NoExchange = NoExchange
    Life = 4
    Margin = 3
    Timeout = 2
    Delay = 1
    MaxClock = 6
    DayLength = 12
    WeekLength = 4
    WorkingDays = {0, 1}
    HoursStart = 5
    HoursEnd = 9
    SlotMinutes = 1
    Zones <- MCZones
    Queries <- MCQueries
    Calendars <- MCCalendars
    NoLead = NoLead
    NoQuery = NoQuery
    Waits = {w1, w2}
    Prospects = {p1}
    Owners = {o1, o2}
    o1 = o1
    o2 = o2
    NoOwner = NoOwner
    NotCached = NotCached
    OwnerWaitTime = 4
    PollInterval = 2
    RequestTime = 1
    OwnerTtl = 2
    LastMoment = 6
    Assignments <- MCAssignments
    Profiles <- MCProfiles
SPECIFICATION Spec
INVARIANTS CallersServed SlotsAgree OwnerFound
PROPERTIES NoSecondDemo NoDoubleBooking
SYMMETRY MCSymmetry
CHECK_DEADLOCK FALSE
