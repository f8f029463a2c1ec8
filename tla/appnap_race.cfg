\* Two Java threads race on the unsynchronized count++: both read 0 and
\* both begin an activity; the first is overwritten in the global.
CONSTANTS
    Threads <- TwoThreads
    Available = TRUE
    MaxCalls = 1
    t1 = t1
    t2 = t2
    t3 = t3
SPECIFICATION Spec
INVARIANT SingleActivity
CHECK_DEADLOCK FALSE
