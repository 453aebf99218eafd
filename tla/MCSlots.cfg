\* A calendar that is busy before the instant asked for, on its day, is among
\* those of the run.
SPECIFICATION MCSpec
CONSTANTS
    DayLength = 12
    WeekLength = 4
    WorkingDays = {0, 1}
    HoursStart = 5
    HoursEnd = 9
    SlotMinutes = 1
    Zones <- MCZones
    Queries <- MCQueries
    Calendars <- MCCalendars
    NoLead = NoLead
    NoQuery = NoQuery
INVARIANTS
    OfferedAreFree
CHECK_DEADLOCK FALSE
