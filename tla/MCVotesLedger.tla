--------------------------- MODULE MCVotesLedger ---------------------------
(***************************************************************************)
(* Small instances of VotesLedger for TLC.                                 *)
(***************************************************************************)
EXTENDS VotesLedger, TLC

CONSTANTS e1, u1, u2, A, B, C, t1, t2

\* The election is open at the instants 1..OpenUntil - 1.
CONSTANT OpenUntil

MCTerms == [e \in Election |-> [start |-> 0, end |-> OpenUntil, choices |-> <<A, B>>]]

\* Start from nothing, as the API service does, or from one vote for A; and the
\* requests that the factory refuses: a negative count, a choice not on the
\* ballot (C is not).
MCNoResults   == {<< >>}
MCSomeResults == {<< >>, A :> 1, A :> -1, C :> 1}

Symmetric == Permutations(User) \cup Permutations(TxId)
============================================================================
