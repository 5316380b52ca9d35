------------------------------ MODULE Counts -------------------------------
(***************************************************************************)
(* The counts of an Election as Java has them: longs, here up to MaxLong,  *)
(* whose sum wraps. Elections takes them for integers; here it is what the *)
(* factory and the manager compute, for an Election that is created with   *)
(* results and voted in until it is full.                                  *)
(***************************************************************************)
EXTENDS Integers, FiniteSets, Functions

CONSTANTS
    Choice, \* the choices of the voting, the blank one among them
    Starts, \* the counts that the starting results may have
    MaxLong \* Long.MAX_VALUE

Long == -(MaxLong + 1) .. MaxLong

CountsAssumption == MaxLong \in Nat /\ Starts \subseteq Long /\ IsFiniteSet(Choice)

VARIABLES
    voters,  \* the limit of voters, 0 as long as there is no Election
    results, \* the counts
    started, \* history: the counts it was created with
    cast     \* history: how many votes were cast

vars == <<voters, results, started, cast>>

\* How a long keeps n.
Wrap(n) == ((n + MaxLong + 1) % (2 * (MaxLong + 1))) - (MaxLong + 1)

Exact(r) == FoldFunction(LAMBDA a, b : a + b, 0, r)

\* values().stream().reduce(Long::sum)
LongSum(r) == FoldFunction(LAMBDA a, b : Wrap(a + b), 0, r)

\* The sum, then each of the counts.
checkResults(r, limit) ==
    /\ LongSum(r) <= limit
    /\ \A c \in DOMAIN r : r[c] >= 0

\* buildElectionInfo and buildElection, while the voting is open.
Create(limit, r) ==
    /\ voters = 0 /\ limit > 1
    /\ checkResults(r, limit)
    /\ voters' = limit
    /\ results' = [c \in Choice |-> IF c \in DOMAIN r THEN r[c] ELSE 0]
    /\ started' = results' /\ cast' = 0

\* Mutant of checkBallot: one vote too many.
checkBallotPastLimit == LongSum(results) <= voters

\* The limit of checkBallot.
checkBallot == LongSum(results) < voters

CastVote(c) ==
    /\ voters # 0 /\ checkBallot
    /\ results' = [results EXCEPT ![c] = Wrap(@ + 1)]
    /\ cast' = cast + 1
    /\ UNCHANGED <<voters, started>>

----------------------------------------------------------------------------

Init ==
    /\ voters = 0 /\ cast = 0
    /\ results = [c \in Choice |-> 0] /\ started = results

Next ==
    \/ \E limit \in Long, listed \in SUBSET Choice :
          \E r \in [listed -> Starts] : Create(limit, r)
    \/ \E c \in Choice : CastVote(c)

Spec == Init /\ [][Next]_vars

----------------------------------------------------------------------------
(* Properties *)

\* Starting counts that are natural numbers add up to a long. Without it their sum
\* may wrap, and pass (ElectionFactory.java:175); the service starts with no counts.
StartsAddUp ==
    \A listed \in SUBSET Choice : \A r \in [listed -> Starts \cap Nat] : Exact(r) \in Long

\* The counts are longs, and never negative.
CountsTypeOK ==
    /\ voters \in Long /\ cast \in Nat
    /\ results \in [Choice -> Long] /\ started \in [Choice -> Long]
    /\ \A c \in Choice : results[c] >= 0

\* However they came, there are never more votes than voters
\* (ElectionManagerImpl.java:59). ElectionFactory.java:167, of the results that
\* an Election starts with: "The sum of values is lower than the limit number".
WithinVoters == voters # 0 => Exact(results) <= voters

\* No vote is lost, to an overflow or otherwise (ElectionImpl.java:38-42).
EveryVoteCounts == Exact(results) = Exact(started) + cast

\* The invariant: counts add up, below the number of voters.
CountsInv ==
    /\ CountsTypeOK
    /\ WithinVoters
    /\ EveryVoteCounts
=============================================================================
