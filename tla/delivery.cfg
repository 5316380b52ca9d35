\* Two clicks of each button, every failure.
\* The user may stop, and failures are bounded.
CHECK_DEADLOCK FALSE
SPECIFICATION FairSpec
CONSTANTS
    NoCode = NoCode
    Slot = {1, 2}
    MaxAborts = 1
    MaxFaults = 2
INVARIANTS
    DeliveryInv
PROPERTIES
    PersistentUserVotes
