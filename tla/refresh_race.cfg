\* One tab that sends two requests at once.
\* Users may stop, and the last second of the clock is a bound of the model.
CHECK_DEADLOCK FALSE
SPECIFICATION MCSpec
CONSTANTS
    u1 = u1
    u2 = u2
    b1 = b1
    b2 = b2
    NoPair = NoPair
    User = {u1, u2}
    Tab = {b1}
    Slot = {1, 2}
    ATLife = 1
    RTLife = 3
    MaxTime = 2
    MaxPairs = 1
    MaxFails = 0
INVARIANTS
    SessionIsLive
