\* As votes_ledger, with an instant after the end.
SPECIFICATION Spec
CONSTANTS
    e1 = e1
    u1 = u1
    u2 = u2
    A = A
    B = B
    C = C
    t1 = t1
    t2 = t2
    Blank = Blank
    Missing = Missing
    NoVote = NoVote
    Election = {e1}
    User = {u1, u2}
    Choice = {A, B, C, Blank}
    Terms <- MCTerms
    Seed = {1}
    VotersNumber = {2, 3}
    InitialResults <- MCSomeResults
    OpenUntil = 2
    MaxTime = 3
    TxId = {t1, t2}
SYMMETRY Symmetric
PROPERTIES
    VotesCommittedWhileOpen
