---------------------------- MODULE CodeDelivery ----------------------------
(***************************************************************************)
(* How a user gets the one-time code of an election and votes with it: the *)
(* modal that asks for the code, the controller that generates it and      *)
(* sends its halves by two ways, the page where the code is typed and the  *)
(* page where the vote is cast. One user, one election that is open.       *)
(*                                                                         *)
(* On the ledger a code, once there, is final, and it is spent by a vote   *)
(* (OneTimeCodes, VotesLedger). A code is named after the seed it is made  *)
(* from; its halves are told apart by the way they take.                   *)
(***************************************************************************)
EXTENDS Integers

CONSTANTS
    Slot,      \* requests that the page may have in flight; each has its seed
    NoCode     \* no code

CONSTANTS      \* bounds of the model
    MaxAborts, \* transactions that fail before they are committed
    MaxFaults  \* mails not sent, answers lost, stops of the service

ASSUME DeliveryAssumption ==
    NoCode \notin Slot /\ MaxAborts \in Nat /\ MaxFaults \in Nat

VARIABLES
    code,     \* the code on the ledger, or NoCode
    ballots,  \* the votes of the user that are counted; the code is spent by one
    mailed,   \* the codes whose second half is in the mailbox
    noted,    \* the codes whose first half the modal has shown
    request,  \* request[s]: the request of a code and how far it got
    page,     \* "modal", "insert" or "vote"
    otp,      \* the code in the sessionStorage, and in the page of the vote
    vote,     \* vote[s]: the request of a vote
    shown,    \* what the page of the vote says
    aborts,   \* how many transactions have failed
    faults    \* how many other failures there have been

vars == <<code, ballots, mailed, noted, request, page, otp, vote, shown, aborts, faults>>
server == <<code, ballots, mailed>>
browser == <<noted, page, otp, shown>>
bounds == <<aborts, faults>>

Code == Slot

\* What the user can put together.
Whole == noted \cap mailed

Moves(s, at) == request' = [request EXCEPT ![s] = at]

----------------------------------------------------------------------------
(* The code *)

\* sendCodeRequest; the button can be clicked again meanwhile.
RequestCode(s) ==
    /\ page = "modal"
    /\ request[s] = "idle"
    /\ Moves(s, "sent")
    /\ UNCHANGED <<server, browser, vote, bounds>>

\* generateCodeFor: the chaincode refuses when there is a code; the modal shows
\* the error and keeps what it shows.
EndorseCode(s) ==
    /\ request[s] = "sent"
    /\ Moves(s, IF code = NoCode THEN "endorsed" ELSE "idle")
    /\ UNCHANGED <<server, browser, vote, bounds>>

\* Mutant of CommitCode: the result of the endorsement is taken for the code.
CommitOrNot(s) ==
    /\ request[s] = "endorsed"
    /\ code' = IF code = NoCode THEN s ELSE code
    /\ Moves(s, "committed")
    /\ UNCHANGED <<ballots, mailed, browser, vote, bounds>>

\* contract.submit waits for the commit: of two that were endorsed the second
\* is not valid, and its error is answered.
CommitCode(s) ==
    /\ request[s] = "endorsed"
    /\ IF code = NoCode THEN code' = s /\ Moves(s, "committed")
                        ELSE UNCHANGED code /\ Moves(s, "idle")
    /\ UNCHANGED <<ballots, mailed, browser, vote, bounds>>

\* The transaction fails, nothing is committed, and the error is answered.
AbortCode(s) ==
    /\ request[s] = "endorsed"
    /\ aborts < MaxAborts
    /\ aborts' = aborts + 1
    /\ Moves(s, "idle")
    /\ UNCHANGED <<server, browser, vote, faults>>

\* mailer.sendMail, the second half.
MailCode(s) ==
    /\ request[s] = "committed"
    /\ mailed' = mailed \cup {s}
    /\ Moves(s, "mailed")
    /\ UNCHANGED <<code, ballots, browser, vote, bounds>>

\* The answer, the first half: the modal shows it.
ShowCode(s) ==
    /\ request[s] = "mailed"
    /\ noted' = noted \cup {s}
    /\ Moves(s, "idle")
    /\ UNCHANGED <<server, page, otp, shown, vote, bounds>>

\* A request comes to nothing: the mail fails and the error is answered, or the
\* wait for the commit ends and with it the service, or the answer is lost. The
\* modal shows an error. What was endorsed may be committed all the same.
LoseCode(s) ==
    /\ request[s] \in {"endorsed", "committed", "mailed"}
    /\ faults < MaxFaults
    /\ faults' = faults + 1
    /\ Moves(s, "idle")
    /\ code' \in {code} \cup (IF request[s] = "endorsed" /\ code = NoCode THEN {s} ELSE {})
    /\ UNCHANGED <<ballots, mailed, browser, vote, aborts>>

----------------------------------------------------------------------------
(* The vote *)

\* The link "Vote now", and back.
Go(from, to) ==
    /\ page = from
    /\ page' = to
    /\ UNCHANGED <<server, noted, request, otp, vote, shown, bounds>>

\* Mutant of Check: the page of the vote is loaded without the code.
CheckUnstored(c) ==
    /\ page = "insert"
    /\ c = code /\ ballots = 0
    /\ page' = "vote" /\ shown' = "nothing"
    /\ UNCHANGED <<server, noted, otp, request, vote, bounds>>

\* submitCode: the user types a code; a valid one is stored and the page of the
\* vote is loaded, otherwise the inputs are cleared.
Check(c) ==
    /\ page = "insert"
    /\ c = code /\ ballots = 0
    /\ page' = "vote" /\ otp' = c /\ shown' = "nothing"
    /\ UNCHANGED <<server, noted, request, vote, bounds>>

\* submitForm, castVote of the store; the button can be clicked again.
Vote(s) ==
    /\ page = "vote"
    /\ vote[s] = "idle"
    /\ vote' = [vote EXCEPT ![s] = "sent"]
    /\ shown' = "submitting"
    /\ UNCHANGED <<server, noted, request, page, otp, bounds>>

\* What becomes of the request of a vote; one of a page that is gone is not
\* shown.
Ends(s, outcome) ==
    vote' = [vote EXCEPT ![s] = IF @ = "left" THEN "idle" ELSE outcome]

\* The controller castVote: of two votes with one code the second is refused.
CastVote(s) ==
    /\ vote[s] \in {"sent", "left"}
    /\ IF otp = code /\ ballots = 0
       THEN ballots' = ballots + 1 /\ Ends(s, "done")
       ELSE UNCHANGED ballots /\ Ends(s, "refused")
    /\ UNCHANGED <<code, mailed, browser, request, bounds>>

\* The transaction fails and the error is answered.
AbortVote(s) ==
    /\ vote[s] \in {"sent", "left"}
    /\ aborts < MaxAborts
    /\ aborts' = aborts + 1
    /\ Ends(s, "refused")
    /\ UNCHANGED <<server, browser, request, faults>>

\* The answer is shown, over the one of a former click; the storage is cleared
\* by a success, the page keeps the code.
ShowVote(s) ==
    /\ vote[s] \in {"done", "refused"}
    /\ vote' = [vote EXCEPT ![s] = "idle"]
    /\ shown' = IF vote[s] = "done" THEN "success" ELSE "failure"
    /\ UNCHANGED <<server, noted, request, page, otp, bounds>>

\* The answer is lost: the catch of submitForm reads e.response.data, there is
\* no response, and `submitting' stays.
LoseVote(s) ==
    /\ vote[s] \in {"done", "refused"}
    /\ faults < MaxFaults
    /\ faults' = faults + 1
    /\ vote' = [vote EXCEPT ![s] = "idle"]
    /\ UNCHANGED <<server, browser, request, aborts>>

\* Two seconds after a success the details are shown; the user may leave before.
LeaveVote ==
    /\ page = "vote"
    /\ page' = "insert" /\ shown' = "nothing"
    /\ vote' = [s \in Slot |-> IF vote[s] \in {"sent", "left"} THEN "left" ELSE "idle"]
    /\ UNCHANGED <<server, noted, request, otp, bounds>>

----------------------------------------------------------------------------

Init ==
    /\ code = NoCode /\ ballots = 0 /\ mailed = {} /\ noted = {}
    /\ request = [s \in Slot |-> "idle"] /\ vote = [s \in Slot |-> "idle"]
    /\ page = "modal" /\ otp = NoCode /\ shown = "nothing"
    /\ aborts = 0 /\ faults = 0

Next ==
    \/ \E s \in Slot :
         \/ RequestCode(s) \/ EndorseCode(s) \/ CommitCode(s) \/ AbortCode(s)
         \/ MailCode(s) \/ ShowCode(s) \/ LoseCode(s)
         \/ Vote(s) \/ CastVote(s) \/ AbortVote(s) \/ ShowVote(s) \/ LoseVote(s)
    \/ \E c \in Whole : Check(c)
    \/ Go("modal", "insert") \/ Go("insert", "modal")
    \/ LeaveVote

Spec == Init /\ [][Next]_vars

\* The services and the network go on, and the user is persistent: asks for a
\* code when there is none to be had, types it and votes.
FairSpec ==
    /\ Spec
    /\ \A s \in Slot :
         /\ WF_vars(EndorseCode(s)) /\ WF_vars(CommitCode(s))
         /\ WF_vars(MailCode(s)) /\ WF_vars(ShowCode(s))
         /\ WF_vars(CastVote(s)) /\ WF_vars(ShowVote(s))
         /\ SF_vars(RequestCode(s))
    /\ SF_vars(Go("insert", "modal") /\ Whole = {})
    /\ SF_vars(Go("modal", "insert") /\ Whole # {})
    /\ \A c \in Code : SF_vars(c \in Whole /\ Check(c))
    /\ SF_vars(ballots = 0 /\ \E s \in Slot : Vote(s))

----------------------------------------------------------------------------
(* Properties *)

DeliveryTypeOK ==
    /\ code \in Code \cup {NoCode} /\ ballots \in Nat
    /\ mailed \subseteq Code /\ noted \subseteq Code
    /\ request \in [Slot -> {"idle", "sent", "endorsed", "committed", "mailed"}]
    /\ vote \in [Slot -> {"idle", "sent", "left", "done", "refused"}]
    /\ page \in {"modal", "insert", "vote"} /\ otp \in Code \cup {NoCode}
    /\ shown \in {"nothing", "submitting", "success", "failure"}
    /\ aborts \in 0 .. MaxAborts /\ faults \in 0 .. MaxFaults

\* However many requests overlap, the half in the mailbox and the half on the
\* screen are of the one code that is on the ledger (codes.ts:123-138: both are
\* of the result of a transaction that was committed).
HalvesAreOfTheCode == mailed \cup noted \subseteq {code}

\* A vote that is shown as cast is counted, once, however many times the button
\* was clicked. report-asw.tex:69: "A user can cast a vote up to once per ballot."
ShownVoteIsCounted == ballots <= 1 /\ (shown = "success" => ballots = 1)

\* What is still on its way is true already: a request that was committed is of
\* the code on the ledger, whatever the others do before it is answered, and a vote
\* that is about to be answered with a success is counted (codes.ts:118-142,
\* election.ts:144-171: both answer after the commit).
AnswersAreTrue ==
    \A s \in Slot :
        /\ request[s] \in {"committed", "mailed"} => code = s
        /\ vote[s] = "done" => ballots = 1

\* The invariant: what reaches the user, the halves and the outcome, is what the
\* ledger has.
DeliveryInv ==
    /\ DeliveryTypeOK
    /\ HalvesAreOfTheCode
    /\ ShownVoteIsCounted
    /\ AnswersAreTrue

\* The code is on the ledger, nobody is going to tell its halves, and the user
\* does not have both.
CodeIsLost == code # NoCode /\ code \notin Whole /\ request[code] = "idle"

\* A user that goes on trying votes, whatever transactions fail and whatever
\* answers are lost on the way; the one thing that keeps the user from it is
\* that a half of the code was lost after the code was made (codes.ts:131-138).
PersistentUserVotes == <>(ballots = 1 \/ CodeIsLost)
=============================================================================
