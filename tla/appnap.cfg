\* Three Java threads, two calls each, on an OS that has the API: App Nap
\* is disabled once anyone has asked, however the increments interleave.
CONSTANTS
    Threads <- ThreeThreads
    Available = TRUE
    MaxCalls = 2
    t1 = t1
    t2 = t2
    t3 = t3
SPECIFICATION Spec
PROPERTY AppNapDisabled
CHECK_DEADLOCK FALSE
