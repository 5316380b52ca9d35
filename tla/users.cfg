\* Two requests at once. Users may stop, and accounts and failures are bounded.
CHECK_DEADLOCK FALSE
SPECIFICATION MCSpec
CONSTANTS
    Email = {e1}
    Chosen = {p1, p2}
    Slot = {s1, s2}
    MaxResets = 1
    MaxFaults = 1
    MaxRemovals = 1
    n1 = n1
    n2 = n2
    Name = {n1, n2}
    Accented = {accented}
    MaxTimers = 1
    Empty = Empty
INVARIANTS
    AccountsInv ProfileInv
PROPERTIES
    ForgetfulUserGetsIn SpinnerStops
