\* A failure between the two requests.
\* Users may stop, and the bounds of the model end it.
CHECK_DEADLOCK FALSE
SPECIFICATION Spec
CONSTANTS
    x = x
    y = y
    Blank = Blank
    Empty = Empty
    None = None
    Failure = Failure
    Choice = {x, y, Blank}
    MaxChoices = 3
    Typed <- MCTyped
    Slot = {1}
    MaxTime = 0
    MaxFaults = 1
INVARIANTS
    NoInfoAlone
