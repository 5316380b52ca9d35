----------------------------- MODULE Elections -----------------------------
(***************************************************************************)
(* The election domain of the chaincode (smart-contracts/core): what an    *)
(* ElectionInfo and an Election are, which of them the factory agrees to   *)
(* build, which ballots the manager accepts and what a ballot changes.     *)
(*                                                                         *)
(* Everything here is a function of its arguments: the chaincode calls it  *)
(* on values it has read from the ledger (module VotesLedger).             *)
(*                                                                         *)
(*   terms     goal, dates and listed choices: what an election's          *)
(*             identifier is the hash of (Utils.calculateID)               *)
(*   info      an ElectionInfo: terms with the blank choice added, and     *)
(*             the number of voters, which the identifier does NOT cover   *)
(*   election  an Election: the results (a count for each choice) and the  *)
(*             list of the ballots cast                                    *)
(*                                                                         *)
(* Dates are natural numbers; a goal is not told apart from another one.   *)
(***************************************************************************)
EXTENDS Integers, Sequences, FiniteSets, Functions

CONSTANTS
    Choice,  \* every choice that a request may name
    Blank    \* FixedVotes.INFORMAL_BALLOT

ASSUME BlankAssumption == Blank \in Choice

----------------------------------------------------------------------------
(* ElectionInfo *)

\* Utils.isDateBetween: strict at both ends.
isDateBetween(date, from, to) == from < date /\ date < to

\* ElectionFactory.checkChoices: two choices beside the blank one, none twice.
checkChoices(listed) ==
    /\ Cardinality(Range(listed) \ {Blank}) >= 2
    /\ IsInjective(listed)

\* ElectionFactory.buildElectionInfo accepts these arguments.
checkInfo(terms, voters) ==
    /\ voters > 1
    /\ terms.start < terms.end
    /\ checkChoices(terms.choices)

\* The ElectionInfo it then builds: the blank choice is always on the ballot.
buildElectionInfo(terms, voters) ==
    [ start   |-> terms.start,
      end     |-> terms.end,
      choices |-> Range(terms.choices) \cup {Blank},
      voters  |-> voters ]

\* ElectionInfoImpl.isOpen, at the instant `now'.
isOpen(info, now) == isDateBetween(now, info.start, info.end)

----------------------------------------------------------------------------
(* Election *)

\* One pair <<c, k>> for the k-th vote of choice c: a set with as many
\* elements as the results have votes.
Votes(results) == UNION { {c} \X (1..results[c]) : c \in DOMAIN results }

\* results.values().stream().reduce(Long::sum).
Total(results) == Cardinality(Votes(results))

\* Mutant of checkResults: a negative count passes.
checkResultsAllowsNegative(info, results, now) ==
    /\ now > info.end => Total(results) > 0
    /\ Total(results) <= info.voters
    /\ DOMAIN results \subseteq info.choices

\* ElectionFactory.buildElection accepts the starting results: a closed
\* election must come with votes (checkDataAndResults), and the counts must
\* be natural numbers, for listed choices, within the limit (checkResults).
checkResults(info, results, now) ==
    /\ now > info.end => Total(results) > 0
    /\ Total(results) <= info.voters
    /\ \A c \in DOMAIN results : results[c] >= 0
    /\ DOMAIN results \subseteq info.choices

\* The Election it then builds: a count for every choice, no ballot.
buildElection(info, results) ==
    [ results |-> [c \in info.choices |->
                     IF c \in DOMAIN results THEN results[c] ELSE 0],
      ballots |-> << >> ]

\* Mutant of checkBallot: one vote too many.
checkBallotPastLimit(info, election, choice, now) ==
    /\ isOpen(info, now)
    /\ choice \in info.choices
    /\ Total(election.results) <= info.voters

\* Mutant of checkBallot: one vote too few.
checkBallotShortOfLimit(info, election, choice, now) ==
    /\ isOpen(info, now)
    /\ choice \in info.choices
    /\ Total(election.results) < info.voters - 1

\* ElectionManagerImpl.checkBallot, for a ballot dated `now'.
checkBallot(info, election, choice, now) ==
    /\ isOpen(info, now)
    /\ choice \in info.choices
    /\ Total(election.results) < info.voters

\* Mutant of recordBallot: a blank ballot is listed and not counted.
recordBallotSkipsBlank(election, choice) ==
    [ results |-> IF choice = Blank THEN election.results
                  ELSE [election.results EXCEPT ![choice] = @ + 1],
      ballots |-> Append(election.ballots, choice) ]

\* ElectionImpl.castVote: the ballot is listed and counted.
recordBallot(election, choice) ==
    [ results |-> [election.results EXCEPT ![choice] = @ + 1],
      ballots |-> Append(election.ballots, choice) ]
============================================================================
