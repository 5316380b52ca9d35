------------------------------- MODULE Pages -------------------------------
(***************************************************************************)
(* The pages of the frontend: the routes of a tab (Navigation), the page   *)
(* of one election (ElectionPage), and the dashboard and the page of the   *)
(* elections that list the votings (ElectionLists), as parts that share no *)
(* state.                                                                  *)
(***************************************************************************)
EXTENDS Navigation

CONSTANTS
    Choice, Blank, Vote, Fetch, Start, End, Begin, MaxTime,   \* of ElectionPage
    Voting, Opens, Closes, ItemsPerPage, Nothing, MaxClock    \* of ElectionLists

VARIABLES
    instant, ballots, deleted, vote, read, timers, fetch, place, election, regressed,
    joined, joining, wire, failures,                             \* of ElectionPage
    dashboard, clock, now, data, failed, picked, currentPage, component, modal,
    anchor, electionId, opened, asked, shownCode                 \* of ElectionLists

detailing == <<instant, ballots, deleted, vote, read, timers, fetch, place, election,
               regressed, joined, joining, wire, failures>>
listing == <<dashboard, clock, now, data, failed, picked, currentPage, component, modal,
             anchor, electionId, opened, asked, shownCode>>

Details == INSTANCE ElectionPage WITH now <- instant, faults <- failures

Lists == INSTANCE ElectionLists WITH
           Start <- Opens, End <- Closes, None <- Nothing, MaxTime <- MaxClock,
           code <- shownCode

ASSUME DetailsAssumption == Details!ElectionPageAssumption
ASSUME ListsAssumption   == Lists!ListsAssumption

----------------------------------------------------------------------------
(* Properties of ElectionPage and of ElectionLists *)

\* ElectionPage.ElectionPageInv: no turnout counts a vote that has not got to the
\* ledger, and nobody sees a vote counted while votes can be cast.
ElectionPageInv == Details!ElectionPageInv

\* ElectionPage.ClosingIsShown: a page in the room of the election comes to show the
\* results and goes on, unless something fails, the election is deleted, or an older
\* answer comes last.
ClosingIsShown == Details!ClosingIsShown

\* ElectionLists.ListsInv: the pages of a filter have each voting once, and the links
\* and the modal of the dashboard are of the voting they are for.
ListsInv == Lists!ListsInv

\* ElectionLists.OpenIsOffered: on the dashboard, a voting that is open gets its
\* links, unless it closes before or the votings could not be read.
OpenIsOffered == Lists!OpenIsOffered
=============================================================================
