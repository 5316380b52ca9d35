------------------------------ MODULE Votings ------------------------------
(***************************************************************************)
(* What becomes of a voting: its creation (Creation), its dates on their   *)
(* way from the form to a browser (Dates), and its counts in the ledger    *)
(* (Counts), as different views of it that share no variable.              *)
(***************************************************************************)
EXTENDS Creation

CONSTANTS
    Goal, Spring, Autumn, Zones, Fractions, Clock, MaxNow,   \* of Dates
    Option, Starts, MaxLong                                  \* of Counts

VARIABLES
    hour, info, voting, asked, byForm, inItaly, list,        \* of Dates
    voters, results, started, cast                           \* of Counts

dating   == <<hour, info, voting, asked, byForm, inItaly, list>>
counting == <<voters, results, started, cast>>

Dating   == INSTANCE Dates WITH now <- hour, page <- list
Counting == INSTANCE Counts WITH Choice <- Option

ASSUME DatingAssumption   == Dating!DatesAssumption
ASSUME CountingAssumption == Counting!CountsAssumption

----------------------------------------------------------------------------
(* Properties of Dates and of Counts *)

\* Dates.DatesInv: a browser in Italy shows the reading of the clock that was
\* picked, however the clocks change, the browsers and the chaincode agree on what
\* is open, and votings that come from the form can be listed.
DatesInv == Dating!DatesInv

\* Dates.AcceptedIsNotOver: a voting that the form accepts in Italy is not over.
AcceptedIsNotOver == Dating!AcceptedIsNotOver

\* Counts.CountsInv: there are never more votes than voters, whatever Java's long
\* makes of their sum, and no vote is lost, to an overflow or otherwise.
CountsInv == Counting!CountsInv
=============================================================================
