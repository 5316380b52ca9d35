\* One election, two users, two transactions in flight.
SPECIFICATION Spec
CONSTANTS
    e1 = e1
    u1 = u1
    u2 = u2
    A = A
    B = B
    C = C
    t1 = t1
    t2 = t2
    Blank = Blank
    Missing = Missing
    NoVote = NoVote
    Election = {e1}
    User = {u1, u2}
    Choice = {A, B, C, Blank}
    Terms <- MCTerms
    Seed = {1, 2}
    VotersNumber = {2, 3}
    InitialResults <- MCSomeResults
    OpenUntil = 2
    MaxTime = 2
    TxId = {t1, t2}
SYMMETRY Symmetric
INVARIANTS
    TypeOK
    OneVotePerUser
    EveryVoteIsListed
    ResultsMatchBallots
    ListedVotersSpentTheirCode
    WithinSomeLimit
    PendingIsCurrent
PROPERTIES
    ImplementsBallotBox
    CodesAreFinal
