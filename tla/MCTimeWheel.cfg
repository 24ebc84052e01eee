SPECIFICATION MCSpec
CONSTANTS
    Tasks = {again, soon, free}
    Keyless = {free}
    Repeated = {again, soon}
    Timed = {again}
    Interval = 2
    SlotNum = 2
    MaxTime = 7
    MaxBack = 1
    MaxReadds = 1
    Delay <- MCDelay
    None = none
    again = again
    soon = soon
    free = free
    none = none
INVARIANT IndexAgrees
INVARIANT OnTime
INVARIANT NeverEarly
PROPERTY UpdateReturns
CHECK_DEADLOCK FALSE
