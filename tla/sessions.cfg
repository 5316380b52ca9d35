\* Two tabs with one account or an account each, one request of each at a time; and
\* a tab with two requests at once.
\* Users may stop, and the last second of the clock is a bound of the model.
CHECK_DEADLOCK FALSE
SPECIFICATION MCSpec
CONSTANTS
    u1 = u1
    u2 = u2
    b1 = b1
    b2 = b2
    NoPair = NoPair
    User = {u1, u2}
    Tab = {b1, b2}
    Slot = {1, 2}
    ATLife = 1
    RTLife = 2
    MaxTime = 2
    MaxPairs = 2
    MaxFails = 1
INVARIANTS
    SessionsInv
PROPERTIES
    RequestsEnd LiveUnlessRaced
