SPECIFICATION Spec
CONSTANTS
    s1 = s1
    s2 = s2
    Scenarios = {s1, s2}
    Jobs = {j1, j2}
    Requests = {q1, q2}
    Contents <- SomeContents
    None = none
    Later = later
    NoScenario = nobody
    MaxPerPass = 1
    MaxRequests = 2
    MaxDue = 2
    MaxFailures = 1
INVARIANTS OncePerDueTime ScheduleMatches
PROPERTIES RunsWhileEligible DueIsServed
CHECK_DEADLOCK FALSE
