\* Progress of two users of one election; no symmetry, which liveness forbids.
SPECIFICATION FairSpec
CONSTANTS
    e1 = e1
    u1 = u1
    u2 = u2
    A = A
    B = B
    C = C
    t1 = t1
    t2 = t2
    Blank = Blank
    Missing = Missing
    NoVote = NoVote
    Election = {e1}
    User = {u1, u2}
    Choice = {A, B, Blank}
    Terms <- MCTerms
    Seed = {1}
    VotersNumber = {2}
    InitialResults <- MCNoResults
    OpenUntil = 2
    MaxTime = 2
    TxId = {t1, t2}
PROPERTIES
    PersistentVoterVotes
