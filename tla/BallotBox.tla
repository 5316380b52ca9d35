----------------------------- MODULE BallotBox -----------------------------
(***************************************************************************)
(* What the voting chaincode promises on channel ch2: a ballot box in      *)
(* which every operation happens at once. No endorsement, no pending       *)
(* transaction, no version: a vote finds the election and an unused code,  *)
(* and in the same step is listed, counted, and the code is used up.       *)
(*                                                                         *)
(* VotesLedger implements this specification: endorsing a transaction and  *)
(* losing one are stuttering steps here, a commit is one operation. What   *)
(* the box does not promise (that the election is open, or below its       *)
(* limit, when a vote is recorded) is what the implementation cannot keep. *)
(***************************************************************************)
EXTENDS Elections, OneTimeCodes

CONSTANTS
    Election,         \* election identifiers
    User,             \* user identifiers
    Code,             \* the codes that may be generated
    StartingResults   \* the results that an election may start with

VARIABLES
    box,  \* box[e]: the Election under identifier e, or Missing
    code  \* code[<<e, u>>]: the one-time code of user u for e, or Missing

boxVars == <<box, code>>

BoxInit ==
    /\ box = [e \in Election |-> Missing]
    /\ code = [eu \in Election \X User |-> Missing]

\* ElectionContract.createElection: no ballot yet.
Open(e) ==
    /\ box[e] = Missing
    /\ \E results \in StartingResults :
         box' = [box EXCEPT ![e] = [results |-> results, ballots |-> << >>]]
    /\ UNCHANGED code

\* ElectionContract.deleteElection: the codes of the election survive.
Remove(e) ==
    /\ box[e] # Missing
    /\ box' = [box EXCEPT ![e] = Missing]
    /\ UNCHANGED code

\* CodesManagerContract.generateCodeFor.
Issue(e, u) ==
    /\ box[e] # Missing
    /\ mayGenerate(code[<<e, u>>])
    /\ \E c \in Code : code' = [code EXCEPT ![<<e, u>>] = newCode(c)]
    /\ UNCHANGED box

\* CodesManagerContract.invalidate.
Void(e, u) ==
    /\ \E c \in Code : mayInvalidate(code[<<e, u>>], c)
    /\ code' = [code EXCEPT ![<<e, u>>] = consume(@)]
    /\ UNCHANGED box

\* ElectionContract.castVote.
Vote(e, u, choice) ==
    /\ box[e] # Missing
    /\ \E c \in Code : mayInvalidate(code[<<e, u>>], c)
    /\ choice \in DOMAIN box[e].results
    /\ box' = [box EXCEPT ![e] = recordBallot(@, choice)]
    /\ code' = [code EXCEPT ![<<e, u>>] = consume(@)]

BoxNext ==
    \E e \in Election :
        \/ Open(e)
        \/ Remove(e)
        \/ \E u \in User :
             \/ Issue(e, u)
             \/ Void(e, u)
             \/ \E choice \in Choice : Vote(e, u, choice)

BoxSpec == BoxInit /\ [][BoxNext]_boxVars
============================================================================
