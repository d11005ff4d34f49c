CONSTANTS
    d1 = d1
    d2 = d2
    Db = {d1, d2}
    MaxAge = 1
    MaxDays = 2
    MaxRequests = 1
    MaxChanges = 1
    MaxFaults = 1
    MaxRestarts = 1
SPECIFICATION VerifySpec
CHECK_DEADLOCK FALSE
INVARIANTS
    OneAtATime
    HealthyIsProved
PROPERTIES
    ScheduleGoesOn
