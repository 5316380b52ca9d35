---------------------------- MODULE ElectionLists ----------------------------
(***************************************************************************)
(* The two pages of ChainVote that list the votings: the dashboard, which  *)
(* has a list for each status, and the page of the elections, which shows  *)
(* one filtered list a page at a time; the links of each voting, and the   *)
(* modal that asks for its code.                                           *)
(*                                                                         *)
(* A page reads the votings once, and reads the clock every second. What   *)
(* is derived from these is rendered at once. The component of a voting is *)
(* made when the voting appears in a section of the page, with the time of *)
(* the page, which it keeps; it goes when the voting leaves the section.   *)
(***************************************************************************)
EXTENDS Integers, Sequences, FiniteSets, Functions

CONSTANTS
    Voting,        \* the votings that are read
    Start, End,    \* Start[v], End[v]: when the voting opens and closes
    ItemsPerPage,  \* votings on a page of the list
    None           \* no voting

CONSTANT MaxTime   \* bound of the model: the last instant of the clock

ListsAssumption ==
    /\ None \notin Voting /\ Voting # {} /\ IsFiniteSet(Voting)
    /\ \A v \in Voting : Start[v] \in Nat /\ End[v] \in Nat /\ Start[v] < End[v]
    /\ ItemsPerPage \in Nat \ {0} /\ MaxTime \in Nat

VARIABLES
    dashboard,    \* which of the two pages it is; it stays the one that it is
    clock,        \* the time
    now,          \* the time of the page
    data,         \* the votings that have been read
    failed,       \* they could not be read, and the page has given way to not-found
    picked,       \* the filter
    currentPage,  \* the page of the list
    component,    \* component[x]: the time that the component at x has kept, or Gone
    modal,        \* the modal that the page controls: "none", "mounted", "unmounted" or
                  \* "stuck": removed while it was open
    anchor,       \* the voting whose row the modal is in
    electionId,   \* the election that the modal is rendered with
    opened,       \* the voting whose modal the user has opened
    asked,        \* the elections whose code has been asked for, not yet answered
    code          \* the election of the code that the modal shows

vars == <<dashboard, clock, now, data, failed, picked, currentPage, component, modal, anchor,
          electionId, opened, asked, code>>
query == <<data, picked, currentPage>>
pages == <<dashboard, now, data, failed, picked, currentPage, component, modal, anchor>>
modals == <<electionId, opened, asked, code>>

Status == {"open", "closed", "soon"}
Qualifier == Status \cup {"all"}

\* A component that is not there.
Gone == -1

GetStatus(v, t) ==
    CASE t >= Start[v] /\ t < End[v] -> "open"
      [] t >= End[v] -> "closed"
      [] OTHER -> "soon"

----------------------------------------------------------------------------
(* What is rendered *)

\* s has each voting of vs once, by the date of its start.
IsSorted(s, vs) ==
    /\ Range(s) = vs /\ IsInjective(s)
    /\ \A i, j \in DOMAIN s : i < j => Start[s[i]] <= Start[s[j]]

sortElectionsByDate(vs) == CHOOSE s \in [1 .. Cardinality(vs) -> vs] : IsSorted(s, vs)

\* The filters, each sorted by date.
GetData(vs, q, t) == sortElectionsByDate({v \in vs : q \in {"all", GetStatus(v, t)}})

TotalPages(list) == (Len(list) + ItemsPerPage - 1) \div ItemsPerPage

Displayed(list, p) ==
    {list[i] : i \in {j \in DOMAIN list : (p - 1) * ItemsPerPage < j /\ j <= p * ItemsPerPage}}

\* The sections of the two pages, and where the votings appear in them.
Section == Status \cup {"list"}
Place == Section \X Voting

Rows == Displayed(GetData(data, picked, now), currentPage)

Appearing(vs, q, p, t) ==
    IF dashboard
    THEN {x \in Place : x[2] \in Range(GetData(vs, x[1], t))}
    ELSE {"list"} \X Displayed(GetData(vs, q, t), p)

\* The modal is looked for once, when the votings have been read: the first of the
\* document. The dashboard has one that is in no list.
FindModal(shown) ==
    /\ anchor' = IF dashboard \/ shown = {} THEN None ELSE GetData(data', picked', now')[1]
    /\ modal' = IF dashboard \/ shown # {} THEN "mounted" ELSE "none"

\* Any other goes with its row; if it is open, what covers the page stays.
KeepModal(shown) ==
    /\ UNCHANGED anchor
    /\ modal' = IF dashboard \/ modal # "mounted" \/ <<"list", anchor>> \in shown THEN modal
                ELSE IF opened = None THEN "unmounted" ELSE "stuck"

\* The page is rendered after its data, filter, page or time have changed.
Render ==
    LET shown == Appearing(data', picked', currentPage', now')
    IN  /\ UNCHANGED <<dashboard, failed>>
        /\ component' = [x \in Place |-> IF x \notin shown THEN Gone
                                         ELSE IF component[x] = Gone THEN now'
                                         ELSE component[x]]
        /\ IF data = {} /\ data' # {} THEN FindModal(shown) ELSE KeepModal(shown)

----------------------------------------------------------------------------
(* The page *)

Tick ==
    /\ clock < MaxTime
    /\ clock' = clock + 1
    /\ UNCHANGED <<pages, modals>>

\* Mutant of UpdateNow: it is scheduled once.
UpdateNowOnce ==
    /\ data # {} /\ now < clock /\ now = 0
    /\ now' = clock
    /\ UNCHANGED <<clock, query, modals>> /\ Render

\* updateNow, every second.
UpdateNow ==
    /\ data # {} /\ now < clock
    /\ now' = clock
    /\ UNCHANGED <<clock, query, modals>> /\ Render

\* onMounted: the votings are read; then the modal is looked for in the page.
GetVotings ==
    /\ data = {} /\ ~failed
    /\ data' = Voting
    /\ UNCHANGED <<clock, now, picked, currentPage, modals>> /\ Render

\* They cannot be read: the page pushes not-found, and asks no more.
FailGetVotings ==
    /\ data = {} /\ ~failed /\ failed' = TRUE
    /\ UNCHANGED <<clock, dashboard, now, query, component, modal, anchor, modals>>

Pick(q) ==
    /\ ~dashboard /\ ~failed /\ opened = None
    /\ picked' = q /\ currentPage' = 1
    /\ UNCHANGED <<clock, now, data, modals>> /\ Render

\* The buttons of the pages are there when something is displayed. An open modal
\* covers them.
Turn(p) ==
    /\ ~dashboard /\ opened = None /\ Rows # {}
    /\ p \in {currentPage - 1, currentPage + 1} \cap 1 .. TotalPages(GetData(data, picked, now))
    /\ currentPage' = p
    /\ UNCHANGED <<clock, now, data, picked, modals>> /\ Render

----------------------------------------------------------------------------
(* The links and the modal *)

\* isOpen of the component: by the time that it has kept.
IsOpen(x) == component[x] # Gone /\ GetStatus(x[2], component[x]) = "open"

\* Mutant of OpenModal: the election is set when the modal has been closed.
OpenModalAsItIs(x) ==
    /\ IsOpen(x) /\ opened = None
    /\ opened' = IF modal = "none" THEN None ELSE x[2]
    /\ electionId' = IF modal = "mounted" /\ electionId = None THEN x[2] ELSE electionId
    /\ UNCHANGED <<clock, pages, asked, code>>

\* The link "Get code": the modal is shown, if there is one. One that is no
\* longer mounted is put back into the document as it was.
OpenModal(x) ==
    /\ IsOpen(x) /\ opened = None
    /\ opened' = IF modal = "none" THEN None ELSE x[2]
    /\ electionId' = IF modal = "mounted" THEN x[2] ELSE electionId
    /\ UNCHANGED <<clock, pages, asked, code>>

CloseModal ==
    /\ opened # None /\ modal # "stuck"
    /\ opened' = None
    /\ UNCHANGED <<clock, pages, electionId, asked, code>>

\* sendCodeRequest.
RequestCode ==
    /\ opened # None /\ modal # "stuck"
    /\ asked' = asked \cup {electionId}
    /\ UNCHANGED <<clock, pages, electionId, opened, code>>

\* Its answer is shown by the modal, whichever election it is of by now.
ShowCode(v) ==
    /\ v \in asked
    /\ asked' = asked \ {v}
    /\ code' = IF modal = "mounted" THEN v ELSE code
    /\ UNCHANGED <<clock, pages, electionId, opened>>

----------------------------------------------------------------------------

\* The filter is in the address of the page.
Init ==
    /\ dashboard \in BOOLEAN
    /\ clock \in 0 .. MaxTime /\ now = clock
    /\ data = {} /\ failed = FALSE
    /\ picked \in (IF dashboard THEN {"all"} ELSE Qualifier) /\ currentPage = 1
    /\ component = [x \in Place |-> Gone]
    /\ modal = "none" /\ anchor = None
    /\ electionId = None /\ opened = None /\ asked = {} /\ code = None

Next ==
    \/ Tick \/ UpdateNow \/ GetVotings \/ FailGetVotings
    \/ \E q \in Qualifier : Pick(q)
    \/ \E p \in 1 .. Cardinality(Voting) : Turn(p)
    \/ \E x \in Place : OpenModal(x)
    \/ CloseModal \/ RequestCode
    \/ \E v \in Voting \cup {None} : ShowCode(v)

Spec == Init /\ [][Next]_vars

\* Timers expire and requests are answered, unless they fail.
FairSpec == Spec /\ WF_vars(UpdateNow) /\ WF_vars(GetVotings)

----------------------------------------------------------------------------
(* Properties *)

ListsTypeOK ==
    /\ dashboard \in BOOLEAN
    /\ clock \in 0 .. MaxTime /\ now \in 0 .. clock
    /\ data \in {{}, Voting} /\ failed \in BOOLEAN
    /\ picked \in Qualifier /\ currentPage \in 1 .. Cardinality(Voting)
    /\ component \in [Place -> {Gone} \cup 0 .. now]
    /\ modal \in {"none", "mounted", "unmounted", "stuck"} /\ anchor \in Voting \cup {None}
    /\ {electionId, opened, code} \cup asked \subseteq Voting \cup {None}

\* The pages of any filter have every voting of it, each on one page, and no page
\* is empty (ElectionsView.vue:123-133).
PagesPartitionTheList ==
    \A q \in Qualifier :
        LET list == GetData(data, q, now)
            page == 1 .. TotalPages(list)
        IN  /\ UNION {Displayed(list, p) : p \in page} = Range(list)
            /\ \A p \in page : Displayed(list, p) # {}
            /\ \A p, r \in page : p # r => Displayed(list, p) \cap Displayed(list, r) = {}

\* The links "Vote" and "Get code" are those of the votings that are open by the
\* time of the page. report-asw.tex:149: "must be able to refresh and show
\* voting-related information in real-time without having to refresh the page".
LinksFollowTheStatus ==
    \A x \in Place : component[x] # Gone => (IsOpen(x) <=> GetStatus(x[2], now) = "open")

\* The modal that opens asks for the code of the voting that was clicked.
\* report-asw.tex:762: "Clicking on "Get code" a modal pops up allowing to request a
\* one time code for that election".
ModalIsOfTheVoting == opened # None => electionId = opened

\* The invariant: nothing of a list is lost between its pages, and the links and the
\* modal of the dashboard are of the voting they are for.
ListsInv ==
    /\ ListsTypeOK
    /\ PagesPartitionTheList
    /\ dashboard => LinksFollowTheStatus /\ ModalIsOfTheVoting

\* A voting of the dashboard that is open gets its links at some time, unless it
\* closes or the votings could not be read (scheduleUpdateNow and getVotings,
\* DashboardView.vue:52-67).
OpenIsOffered ==
    dashboard =>
        \A v \in Voting :
            (clock >= Start[v] /\ clock < End[v])
                ~> (clock >= End[v] \/ failed \/ \E q \in Section : IsOpen(<<q, v>>))
=============================================================================
