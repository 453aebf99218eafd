\* The cap is one call in two units of time, the gap two units: with three
\* units on the clock a call can be refused, wait out the gap, and wait out
\* the window.  Of one call, two webhooks are handled at once, one of them
\* possibly delivered twice, beside the media stream and the request itself.
\* One database fault or one crash may hit any step.
SPECIFICATION MCSpec
CONSTANTS
    r1 = r1
    r2 = r2
    r3 = r3
    k1 = k1
    lead1 = lead1
    NoKey = NoKey
    NoCall = NoCall
    Calls <- MCCalls
    Keys = {k1}
    Leads = {lead1}
    KeyOf <- MCKeyOf
    LeadOf <- MCLeadOf
    FollowUps <- MCFollowUps
    MaxCallsPerLead = 1
    Window = 1
    MinGap = 2
    Cloning = TRUE
    Disturbances = {"fault", "crash", "duplicate"}
    MaxDisturbances = 1
    MaxTime = 3
    Handlers = {h1, h2}
    MaxAttempts = 2
    Sweepers = {s1, s2}
INVARIANTS
    TypeOK
    OneDialPerKey
    AnswersAgree
    AnswerMatchesEffect
    ContactCap
    FollowUpGap
    TimestampsFollowStatus
    ReportMatchesRow
    RepeatOnlyAfterLostAnswer
    ForgottenOnlyWhenGone
PROPERTIES
    DialPreconditions
    ImplementsIdempotentDial
    LegalUnlessOverlapped
    ImplementsCallReport
SYMMETRY MCSymmetry
CHECK_DEADLOCK FALSE
