\* Four visits of a tab; two votes and two requests of the page of an election;
\* three votings, two on a page. Users may stop, and the bounds end the rest.
CHECK_DEADLOCK FALSE
SPECIFICATION MCSpec
CONSTANTS
    MaxVisits = 4
    MaxFaults = 1
    Blank = Blank
    Choice = {Blank}
    Vote = {v1, v2}
    Fetch = {f1, f2}
    Start = 1
    End = 3
    Begin = 0
    MaxTime = 3
    Nothing = Nothing
    Voting <- MCVoting
    Opens <- MCOpens
    Closes <- MCCloses
    ItemsPerPage = 2
    MaxClock = 4
INVARIANTS
    NavigationInv ElectionPageInv ListsInv
PROPERTIES
    TabSettles ClosingIsShown OpenIsOffered
