\* Two forms at once; a voting around each change of the clock, for Rome changes
\* its time at 2 and at 5: its clock skips 3 and reads 6 twice; counts up to the
\* largest limit. Users may stop, and the bounds of the model end it.
CHECK_DEADLOCK FALSE
SPECIFICATION MCSpec
CONSTANTS
    x = x
    y = y
    Blank = Blank
    Empty = Empty
    None = None
    Failure = Failure
    Choice = {x, y, Blank}
    MaxChoices = 3
    Typed <- MCTyped
    Slot = {1, 2}
    MaxTime = 1
    MaxFaults = 1
    Goal = {"rector"}
    Spring = 2
    Autumn = 5
    Zones <- MCZones
    Fractions = {TRUE, FALSE}
    Clock = {3, 6, 7}
    MaxNow = 6
    Option = {"yes", "no", "blank"}
    Starts <- MCStarts
    MaxLong = 7
INVARIANTS
    CreationInv DatesInv CountsInv
PROPERTIES
    EveryInfoGetsElection AcceptedIsNotOver
