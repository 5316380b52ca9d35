\* Two elections, one of which may have started when it is created, the other be
\* further ahead than the longest delay of a timer; two notifications in a browser.
\* The bounds of the model end it.
CHECK_DEADLOCK FALSE
SPECIFICATION MCSpec
CONSTANTS
    e1 = e1
    e2 = e2
    Election <- MCElection
    Start <- MCStart
    End <- MCEnd
    noticeTime = 2
    MaxDelay = 3
    MaxTime = 5
    MaxStops = 1
    MaxCreated = 1
    Note = {n1, n2}
    Task = {t1, t2}
    MaxLoads = 2
    MaxFaults = 1
INVARIANTS
    PageInv NotificationsInv
PROPERTIES
    VisitReadsAll EveryNoticeIsSent
