---------------------------- MODULE PagesProofs ----------------------------
(***************************************************************************)
(* Proofs about the pages: what a tab shows is for its session; what the   *)
(* page of an election shows is what the ledger has, the results in their  *)
(* time; and the lists of the votings are whole, their links and their     *)
(* modal those of the voting they are for.                                 *)
(***************************************************************************)
EXTENDS Pages, Sequences, FiniteSetTheorems, TLAPS

USE DEF Role, None, Guarded, Free, Path, Allowed

----------------------------------------------------------------------------
(* Navigation *)

\* The paths and whom they allow, without the record of the routes.
LEMMA Routes ==
    /\ Guarded = {"dashboard", "vote", "elections", "insert_code", "create_election",
                  "election_details", "user_area", "notifications", "unknown_details"}
    /\ \A p \in Guarded \ {"vote", "insert_code", "create_election"} : Allowed[p] = Role
    /\ Allowed["vote"] = {"user"} /\ Allowed["insert_code"] = {"user"}
    /\ Allowed["create_election"] = {"admin"}
  OBVIOUS

\* A page that keeps its session has no link that the session forbids: those of
\* VotingLinks and of the bar ask for the role themselves.
LEMMA LinksFollowTheSession ==
    ASSUME NavigationTypeOK, SessionIsOfThePage
    PROVE  LinksArePermitted
<1> SUFFICES ASSUME token, NEW p \in Links, p \in Guarded PROVE role \in Allowed[p]
  BY DEF LinksArePermitted, Permitted
<1>1. role \in Role
  BY DEF NavigationTypeOK
<1>2. p \in {"dashboard", "elections", "election_details", "user_area", "notifications",
             "unknown_details"} \/ (p = "create_election" /\ role = "admin")
        \/ (p = "insert_code" /\ role # "admin")
  BY DEF Links, NavBar, VotingLinks, SessionIsOfThePage
<1> QED
  BY <1>1, <1>2

\* The type, and what is shown, after a step of the router.
LEMMA EnterKeepsNavigationInv ==
    ASSUME NavigationInv, Enter
    PROVE  NavigationTypeOK' /\ SessionIsOfThePage' /\ PageIsAllowed'
<1>1. CASE Permitted(going)
  <2>1. /\ page' = going /\ going' = OnMounted(going) /\ going \in Path
        /\ UNCHANGED <<token, role, code, asking, visits, faults>>
    BY <1>1 DEF Enter, tab, bounds, NavigationInv, NavigationTypeOK
  <2>2. going' \in {"dashboard", "login", "not_found", None}
    BY <2>1 DEF OnMounted
  <2>3. NavigationTypeOK'
    BY <2>1, <2>2 DEF NavigationInv, NavigationTypeOK
  <2>4. PageIsAllowed'
    BY <1>1, <2>1 DEF PageIsAllowed, Permitted
  <2>5. SessionIsOfThePage'
    BY <1>1, <2>1, <2>2 DEF Permitted, NavigationInv, SessionIsOfThePage
  <2> QED
    BY <2>3, <2>4, <2>5
<1>2. CASE ~Permitted(going)
  BY <1>2 DEF Enter, tab, bounds, NavigationInv, NavigationTypeOK, PageIsAllowed,
              SessionIsOfThePage
<1> QED
  BY <1>1, <1>2

\* What loads the application forgets the page and the logins.
LEMMA LoadKeepsNavigationInv ==
    ASSUME NavigationInv, InsertCode \/ SignOut \/ \E p \in Path : Visit(p)
    PROVE  NavigationTypeOK' /\ SessionIsOfThePage' /\ PageIsAllowed'
<1>1. /\ page' = "blank" /\ asking' = {} /\ going' \in Path
      /\ token' \in BOOLEAN /\ role' \in Role \cup {None} /\ (token' <=> role' # None)
      /\ code' \in BOOLEAN
  <2>1. CASE InsertCode
    BY <2>1 DEF InsertCode, session, NavigationInv, NavigationTypeOK
  <2>2. CASE SignOut
    BY <2>2 DEF SignOut, NavigationInv, NavigationTypeOK
  <2>3. CASE \E p \in Path : Visit(p)
    <3> HIDE DEF Path
    <3> QED
      BY <2>3 DEF Visit, tab, NavigationInv, NavigationTypeOK
  <2> QED
    BY <2>1, <2>2, <2>3
<1>2. visits' \in 0 .. MaxVisits /\ faults' \in 0 .. MaxFaults
  BY NavigationAssumption DEF NavigationAssumption, InsertCode, SignOut, Visit,
                              NavigationInv, NavigationTypeOK
<1>3. NavigationTypeOK'
  BY <1>1, <1>2 DEF NavigationTypeOK
<1> QED
  BY <1>1, <1>3 DEF SessionIsOfThePage, PageIsAllowed

\* What fails, and what a page pushes, keep the session.
LEMMA PushKeepsNavigationInv ==
    ASSUME NavigationInv, FailToEnter \/ FailToLoad \/ CastVote \/ LeaveVote
    PROVE  NavigationTypeOK' /\ SessionIsOfThePage' /\ PageIsAllowed'
<1>1. /\ UNCHANGED <<token, role, page, asking>> /\ code' \in BOOLEAN
      /\ going' \in {None, "not_found", "election_details"}
  BY DEF FailToEnter, FailToLoad, CastVote, LeaveVote, tab, session, NavigationInv,
         NavigationTypeOK
<1>2. visits' \in 0 .. MaxVisits /\ faults' \in 0 .. MaxFaults
  BY NavigationAssumption DEF NavigationAssumption, FailToEnter, FailToLoad, CastVote,
                              LeaveVote, bounds, NavigationInv, NavigationTypeOK
<1>3. NavigationTypeOK'
  BY <1>1, <1>2 DEF NavigationInv, NavigationTypeOK
<1>4. SessionIsOfThePage'
  <2>1. CASE FailToEnter
    BY <2>1, <1>1 DEF FailToEnter, NavigationInv, SessionIsOfThePage
  <2>2. CASE FailToLoad
    BY <2>2, <1>1 DEF FailToLoad, NavigationInv, SessionIsOfThePage
  <2>3. CASE CastVote \/ LeaveVote
    BY <2>3, <1>1 DEF CastVote, LeaveVote, bounds, NavigationInv, SessionIsOfThePage
  <2> QED
    BY <2>1, <2>2, <2>3
<1>5. PageIsAllowed'
  <2>1. going' = None => going = None \/ page = "blank"
    BY DEF FailToEnter, FailToLoad, CastVote, LeaveVote, NavigationInv,
           SessionIsOfThePage
  <2> QED
    BY <1>1, <2>1 DEF NavigationInv, PageIsAllowed
<1> QED
  BY <1>3, <1>4, <1>5

\* A login that is awaited ends where it began, or at the dashboard.
LEMMA LoginKeepsNavigationInv ==
    ASSUME NavigationInv,
           \/ \E form, account \in Role : Login(form, account)
           \/ \E a \in asking : SignIn(a)
    PROVE  NavigationTypeOK' /\ SessionIsOfThePage' /\ PageIsAllowed'
<1>1. ASSUME NEW form \in Role, NEW account \in Role, Login(form, account)
      PROVE  NavigationTypeOK' /\ SessionIsOfThePage' /\ PageIsAllowed'
  BY <1>1 DEF Login, tab, bounds, NavigationInv, NavigationTypeOK, SessionIsOfThePage,
              PageIsAllowed
<1>2. ASSUME NEW a \in asking, SignIn(a)
      PROVE  NavigationTypeOK' /\ SessionIsOfThePage' /\ PageIsAllowed'
  BY <1>2 DEF SignIn, session, bounds, NavigationInv, NavigationTypeOK,
              SessionIsOfThePage, PageIsAllowed
<1> QED
  BY <1>1, <1>2

\* However visits, logins that overlap, logouts and failures follow one another, the
\* page that stays is one that the session allows, and no link of it leads a user
\* that is logged in to the login.
THEOREM PagesAreAllowed == Spec => []NavigationInv
<1>1. Init => NavigationInv
  <2> SUFFICES ASSUME Init PROVE NavigationInv
    OBVIOUS
  <2>1. NavigationTypeOK /\ SessionIsOfThePage /\ PageIsAllowed
    <3>1. 0 \in 0 .. MaxVisits /\ 0 \in 0 .. MaxFaults
      BY NavigationAssumption DEF NavigationAssumption
    <3>2. NavigationTypeOK
      BY <3>1 DEF Init, NavigationTypeOK
    <3> QED
      BY <3>2 DEF Init, SessionIsOfThePage, PageIsAllowed
  <2> QED
    BY <2>1, LinksFollowTheSession DEF NavigationInv
<1>2. NavigationInv /\ [Next]_vars => NavigationInv'
  <2> SUFFICES ASSUME NavigationInv, [Next]_vars PROVE NavigationInv'
    OBVIOUS
  <2>1. NavigationTypeOK' /\ SessionIsOfThePage' /\ PageIsAllowed'
    <3>1. CASE UNCHANGED vars
      BY <3>1 DEF vars, NavigationInv, NavigationTypeOK, SessionIsOfThePage, PageIsAllowed
    <3>2. CASE Next
      BY <3>2, EnterKeepsNavigationInv, LoadKeepsNavigationInv, PushKeepsNavigationInv,
         LoginKeepsNavigationInv DEF Next
    <3> QED
      BY <3>1, <3>2
  <2>2. (NavigationTypeOK /\ SessionIsOfThePage => LinksArePermitted)'
    BY LinksFollowTheSession, PTL
  <2> QED
    BY <2>1, <2>2 DEF NavigationInv
<1> QED
  BY <1>1, <1>2, PTL DEF Spec
----------------------------------------------------------------------------
(* The page of an election *)

\* The cardinality of the instance is that of FiniteSets.
LEMMA SameCardinality ==
    \A S : Details!Cardinality(S) = Cardinality(S)
           /\ (Details!IsFiniteSet(S) <=> IsFiniteSet(S))
  BY DEF Details!Cardinality, Cardinality, Details!IsFiniteSet, IsFiniteSet

\* The constants, as they are needed.
LEMMA DetailsConstants ==
    /\ Start \in Nat /\ End \in Nat /\ Start < End
    /\ MaxTime \in Nat /\ Begin \in 0 .. MaxTime /\ MaxFaults \in Nat
    /\ IsFiniteSet(Vote) /\ Cardinality(Vote) \in Nat
    /\ Details!Turnout = 0 .. Cardinality(Vote)
  BY DetailsAssumption, SameCardinality, FS_CardinalityType
  DEF DetailsAssumption, Details!ElectionPageAssumption, Details!Turnout

\* There are as many ballots at most as votes.
LEMMA BallotsAreVotes ==
    ASSUME Details!ElectionPageTypeOK
    PROVE  /\ ballots \subseteq Vote /\ IsFiniteSet(ballots)
           /\ Cardinality(ballots) \in Details!Turnout
           /\ Cardinality(ballots) \in Nat
<1>1. ballots \subseteq Vote
  BY DEF Details!ElectionPageTypeOK
<1> QED
  BY <1>1, DetailsConstants, FS_Subset, FS_CardinalityType

\* A request that is not at work.
LEMMA NoFetchIsARequest ==
    /\ Details!NoFetch \in Details!Request
    /\ Details!NoFetch.turnout = 0 /\ Details!NoFetch.results = {}
    /\ Details!NoFetch.asOf = 0
  BY DetailsConstants DEF Details!NoFetch, Details!Request, Details!Hidden, Details!Results

\* What the invariant says of the numbers and the times. The rest follows.
DetailsIInv ==
    /\ Details!ElectionPageTypeOK
    /\ Details!TurnoutIsReal
    /\ Details!CountedAfterTheEnd

\* While votes can be cast the end has not come, so nothing is counted.
LEMMA OpenIsBeforeTheEnd == DetailsIInv => ElectionPageInv
  BY DetailsConstants
  DEF DetailsIInv, ElectionPageInv, Details!ElectionPageInv, Details!NoEarlyResults, Details!Open,
      Details!isDateBetween, Details!CountedAfterTheEnd, Details!Timely,
      Details!ElectionPageTypeOK, Details!Shown

\* What the requests and the page have so far.
LEMMA DetailsHeld ==
    ASSUME DetailsIInv
    PROVE  /\ failures \in 0 .. MaxFaults /\ instant \in 0 .. MaxTime
           /\ place \in {"loading", "shown", "not-found"}
           /\ joined \in BOOLEAN /\ joining \in BOOLEAN
           /\ fetch \in [Fetch -> Details!Request]
           /\ \A f \in Fetch : /\ fetch[f].turnout <= Cardinality(ballots)
                               /\ Details!Timely(fetch[f])
           /\ election \in Details!Shown /\ regressed \in BOOLEAN /\ deleted \in BOOLEAN
           /\ election.turnout <= Cardinality(ballots)
           /\ Details!Timely(election)
           /\ wire \in Seq(Details!Event)
           /\ \A i \in DOMAIN wire : wire[i].turnout <= Cardinality(ballots)
           /\ Cardinality(ballots) \in Details!Turnout /\ Cardinality(ballots) \in Nat
  BY SameCardinality, BallotsAreVotes, DetailsConstants
  DEF DetailsIInv, Details!ElectionPageTypeOK, Details!TurnoutIsReal,
      Details!CountedAfterTheEnd

\* A vote is endorsed, or its update read: nothing that is shown changes.
LEMMA EndorseKeepsDetails ==
    ASSUME DetailsIInv, NEW v \in Vote, Details!Endorse(v) \/ Details!Evaluate(v)
    PROVE  DetailsIInv'
<1>1. CASE Details!Endorse(v)
  <2>0. /\ UNCHANGED <<instant, ballots, deleted, read, timers, fetch, place, election,
                       regressed, joined, joining, wire, failures>>
        /\ vote' = [vote EXCEPT ![v] = "endorsed"] /\ vote[v] = "none" /\ Details!Open
    BY <1>1 DEF Details!Endorse, Details!page, Details!socket
  <2>1. Details!ElectionPageTypeOK'
    BY <2>0 DEF DetailsIInv, Details!ElectionPageTypeOK
  <2>2. Details!TurnoutIsReal'
    BY <2>0 DEF DetailsIInv, Details!TurnoutIsReal
  <2>3. Details!CountedAfterTheEnd'
    BY <2>0, DetailsConstants
    DEF DetailsIInv, Details!CountedAfterTheEnd, Details!ElectionPageTypeOK, Details!Open,
        Details!isDateBetween, Details!Timely
  <2> QED
    BY <2>1, <2>2, <2>3 DEF DetailsIInv
<1>2. CASE Details!Evaluate(v)
  <2>0. /\ UNCHANGED <<instant, ballots, deleted, timers, fetch, place, election,
                       regressed, joined, joining, wire, failures>>
        /\ vote' = [vote EXCEPT ![v] = "read"] /\ vote[v] = "committed"
        /\ read' = [read EXCEPT ![v] = Cardinality(ballots)]
    BY <1>2, SameCardinality DEF Details!Evaluate, Details!page, Details!socket
  <2>1. Details!ElectionPageTypeOK'
    <3>1. read' \in [Vote -> Details!Turnout]
      BY <2>0, DetailsHeld DEF DetailsIInv, Details!ElectionPageTypeOK
    <3>2. /\ vote' \in [Vote -> {"none", "endorsed", "left", "committed", "read", "done"}]
          /\ ballots = { w \in Vote : vote'[w] \in {"committed", "read", "done"} }
      BY <2>0 DEF DetailsIInv, Details!ElectionPageTypeOK
    <3> QED
      <4>1. UNCHANGED <<instant, ballots, deleted, timers, fetch, place, election,
                        regressed, joined, joining, wire, failures>>
        BY <2>0
      <4> QED
        BY <3>1, <3>2, <4>1 DEF DetailsIInv, Details!ElectionPageTypeOK
  <2>2. Details!TurnoutIsReal'
    <3>1. \A w \in Vote : read'[w] <= Cardinality(ballots)
      <4>1. Cardinality(ballots) \in Nat /\ Cardinality(ballots) <= Cardinality(ballots)
        BY DetailsHeld
      <4>2. \A w \in Vote : read[w] <= Cardinality(ballots)
        BY SameCardinality DEF DetailsIInv, Details!TurnoutIsReal
      <4>3. \A w \in Vote : read'[w] \in {read[w], Cardinality(ballots)}
        BY <2>0 DEF DetailsIInv, Details!ElectionPageTypeOK
      <4> QED
        BY <4>1, <4>2, <4>3
    <3> QED
      BY <2>0, <3>1, SameCardinality DEF DetailsIInv, Details!TurnoutIsReal
  <2>3. Details!CountedAfterTheEnd'
    BY <2>0 DEF DetailsIInv, Details!CountedAfterTheEnd, Details!ElectionPageTypeOK, Details!Timely
  <2> QED
    BY <2>1, <2>2, <2>3 DEF DetailsIInv
<1> QED
  BY <1>1, <1>2

\* A vote is committed: the turnout only grows.
LEMMA CommitKeepsDetails ==
    ASSUME DetailsIInv, NEW v \in Vote, Details!Commit(v)
    PROVE  DetailsIInv'
<1>0. /\ UNCHANGED <<instant, deleted, read, timers, fetch, place, election, regressed,
                     joined, joining, wire, failures>>
      /\ vote[v] \in {"endorsed", "left"}
      /\ \E at \in {"committed", "done"} : vote' = [vote EXCEPT ![v] = at]
      /\ ballots' = ballots \cup {v}
  BY DEF Details!Commit, Details!page, Details!socket
<1>1. Details!ElectionPageTypeOK'
  BY <1>0 DEF DetailsIInv, Details!ElectionPageTypeOK
<1>2. Cardinality(ballots) \in Nat /\ Cardinality(ballots') \in Nat
      /\ Cardinality(ballots) <= Cardinality(ballots')
  BY <1>0, BallotsAreVotes, FS_AddElement, FS_Subset, FS_CardinalityType DEF DetailsIInv
<1>3. Details!TurnoutIsReal'
  <2>1. /\ election.turnout \in Nat /\ \A w \in Vote : read[w] \in Nat
        /\ \A f \in Fetch : fetch[f].turnout \in Nat
        /\ \A i \in DOMAIN wire : wire[i].turnout \in Nat
    <3>1. election \in Details!Shown /\ read \in [Vote -> Details!Turnout]
          /\ fetch \in [Fetch -> Details!Request] /\ wire \in Seq(Details!Event)
      BY DEF DetailsIInv, Details!ElectionPageTypeOK
    <3>2. \A i \in DOMAIN wire : wire[i] \in Details!Event
      BY <3>1
    <3> QED
      BY <3>1, <3>2, DetailsConstants DEF Details!Shown, Details!Request, Details!Event
  <2>2. /\ election.turnout <= Cardinality(ballots)
        /\ \A w \in Vote : read[w] <= Cardinality(ballots)
        /\ \A f \in Fetch : fetch[f].turnout <= Cardinality(ballots)
        /\ \A i \in DOMAIN wire : wire[i].turnout <= Cardinality(ballots)
    BY SameCardinality DEF DetailsIInv, Details!TurnoutIsReal
  <2>3. \A n \in Nat : n <= Cardinality(ballots) => n <= Cardinality(ballots')
    BY <1>2
  <2>4. /\ election.turnout <= Cardinality(ballots')
        /\ \A w \in Vote : read[w] <= Cardinality(ballots')
        /\ \A f \in Fetch : fetch[f].turnout <= Cardinality(ballots')
        /\ \A i \in DOMAIN wire : wire[i].turnout <= Cardinality(ballots')
    BY <2>1, <2>2, <2>3, Zenon
  <2> QED
    BY <1>0, <2>4, SameCardinality DEF Details!TurnoutIsReal
<1>4. Details!CountedAfterTheEnd'
  BY <1>0 DEF DetailsIInv, Details!CountedAfterTheEnd, Details!ElectionPageTypeOK, Details!Timely
<1> QED
  BY <1>1, <1>3, <1>4 DEF DetailsIInv

\* What the service sends to the room, of a vote or by a timer, is a turnout that
\* was read, or none.
LEMMA EmitKeepsDetails ==
    ASSUME DetailsIInv,
           \/ \E v \in Vote : Details!EmitTurnout(v)
           \/ \E what \in {"opened", "closed"} : Details!FireTimer(what)
    PROVE  DetailsIInv'
<1>1. /\ UNCHANGED <<instant, ballots, deleted, fetch, place, election, regressed,
                     joined, joining, failures>>
      /\ \A v \in Vote : read'[v] \in {read[v], 0}
      /\ read' \in [Vote -> Details!Turnout]
      /\ timers' \subseteq timers
      /\ vote' \in [Vote -> {"none", "endorsed", "left", "committed", "read", "done"}]
      /\ ballots = { v \in Vote : vote'[v] \in {"committed", "read", "done"} }
      /\ \A v \in Vote : vote'[v] # "none" => vote[v] # "none"
  <2>1. CASE \E v \in Vote : Details!EmitTurnout(v)
    BY <2>1, DetailsConstants
    DEF DetailsIInv, Details!ElectionPageTypeOK, Details!EmitTurnout, Details!page
  <2>2. CASE \E what \in {"opened", "closed"} : Details!FireTimer(what)
    BY <2>2 DEF DetailsIInv, Details!ElectionPageTypeOK, Details!FireTimer, Details!page,
                Details!casting
  <2> QED
    BY <2>1, <2>2
<1>2. PICK event \in Details!Event :
        event.turnout <= Cardinality(ballots) /\ Details!Emits(event)
  <2>1. ASSUME NEW v \in Vote, Details!EmitTurnout(v)
        PROVE  \E event \in Details!Event :
                  event.turnout <= Cardinality(ballots) /\ Details!Emits(event)
    <3>1. /\ read[v] \in Details!Turnout /\ read[v] <= Cardinality(ballots)
          /\ Details!Emits([is |-> "updateTurnout", turnout |-> read[v]])
      BY <2>1, SameCardinality
      DEF DetailsIInv, Details!ElectionPageTypeOK, Details!TurnoutIsReal,
          Details!EmitTurnout
    <3>2. [is |-> "updateTurnout", turnout |-> read[v]] \in Details!Event
      BY <3>1 DEF Details!Event
    <3> QED
      BY <3>1, <3>2
  <2>2. ASSUME NEW what \in {"opened", "closed"}, Details!FireTimer(what)
        PROVE  \E event \in Details!Event :
                  event.turnout <= Cardinality(ballots) /\ Details!Emits(event)
    <3>1. Details!Emits([is |-> what, turnout |-> 0])
      BY <2>2 DEF Details!FireTimer
    <3>2. [is |-> what, turnout |-> 0] \in Details!Event /\ 0 <= Cardinality(ballots)
      BY DetailsConstants, BallotsAreVotes DEF DetailsIInv, Details!Event
    <3> QED
      BY <3>1, <3>2
  <2> QED
    BY <2>1, <2>2
<1>3. /\ wire' \in Seq(Details!Event)
      /\ \A i \in DOMAIN wire' : wire'[i].turnout <= Cardinality(ballots)
  <2>0. /\ wire \in Seq(Details!Event)
        /\ \A i \in DOMAIN wire : wire[i].turnout <= Cardinality(ballots)
    BY SameCardinality DEF DetailsIInv, Details!ElectionPageTypeOK, Details!TurnoutIsReal
  <2>1. CASE joined
    BY <1>2, <2>0, <2>1 DEF Details!Emits
  <2>2. CASE ~joined
    BY <1>2, <2>0, <2>2 DEF Details!Emits
  <2> QED
    BY <2>1, <2>2
<1>4. Details!ElectionPageTypeOK'
  <2>1. timers' \subseteq {"opened", "closed"}
    BY <1>1 DEF DetailsIInv, Details!ElectionPageTypeOK
  <2> QED
    BY <1>1, <1>3, <2>1 DEF DetailsIInv, Details!ElectionPageTypeOK
<1>5. Details!TurnoutIsReal'
  <2>1. \A v \in Vote : read'[v] <= Cardinality(ballots)
    <3>1. 0 <= Cardinality(ballots) /\ \A v \in Vote : read[v] <= Cardinality(ballots)
      BY DetailsHeld, SameCardinality DEF DetailsIInv, Details!TurnoutIsReal
    <3> QED
      BY <1>1, <3>1
  <2> QED
    BY <1>1, <1>3, <2>1, SameCardinality DEF DetailsIInv, Details!TurnoutIsReal
<1>6. Details!CountedAfterTheEnd'
  BY <1>1 DEF DetailsIInv, Details!CountedAfterTheEnd, Details!Timely
<1> QED
  BY <1>4, <1>5, <1>6 DEF DetailsIInv

\* What the requests and the page may change, as long as what they hold is sound.
PageHolds ==
    /\ failures \in 0 .. MaxFaults
    /\ place \in {"loading", "shown", "not-found"}
    /\ joined \in BOOLEAN /\ joining \in BOOLEAN
    /\ fetch \in [Fetch -> Details!Request]
    /\ \A f \in Fetch : /\ fetch[f].turnout <= Cardinality(ballots)
                        /\ Details!Timely(fetch[f])
    /\ election \in Details!Shown /\ regressed \in BOOLEAN
    /\ election.turnout <= Cardinality(ballots)
    /\ Details!Timely(election)

\* A page whose numbers hold after a step of its requests keeps the invariant.
LEMMA FetchKeepsDetails ==
    ASSUME DetailsIInv, UNCHANGED <<instant, ballots, deleted, vote, read, timers>>,
           wire' = wire \/ wire' = <<>> \/ (wire # <<>> /\ wire' = Tail(wire)),
           PageHolds'
    PROVE  DetailsIInv'
<1>1. /\ wire' \in Seq(Details!Event)
      /\ \A i \in DOMAIN wire' : wire'[i].turnout <= Cardinality(ballots)
  <2>0. /\ wire \in Seq(Details!Event)
        /\ \A i \in DOMAIN wire : wire[i].turnout <= Cardinality(ballots)
    BY SameCardinality DEF DetailsIInv, Details!ElectionPageTypeOK, Details!TurnoutIsReal
  <2>1. CASE wire' = wire
    BY <2>0, <2>1
  <2>3. CASE wire' = <<>>
    BY <2>3
  <2>2. CASE wire # <<>> /\ wire' = Tail(wire)
    BY <2>0, <2>2
  <2> QED
    BY <2>1, <2>2, <2>3
<1>2. Details!ElectionPageTypeOK'
  BY <1>1 DEF PageHolds, DetailsIInv, Details!ElectionPageTypeOK
<1>3. Details!TurnoutIsReal'
  BY <1>1, SameCardinality DEF PageHolds, DetailsIInv, Details!TurnoutIsReal
<1>4. Details!CountedAfterTheEnd'
  BY DEF PageHolds, DetailsIInv, Details!CountedAfterTheEnd
<1> QED
  BY <1>2, <1>3, <1>4 DEF DetailsIInv

\* A request that is replaced keeps the numbers if the new one does.
LEMMA FetchIsReplaced ==
    ASSUME DetailsIInv, NEW f \in Fetch, NEW r \in Details!Request,
           r.turnout <= Cardinality(ballots),
           Details!Timely(r),
           fetch' = [fetch EXCEPT ![f] = r]
    PROVE  /\ fetch' \in [Fetch -> Details!Request]
           /\ \A g \in Fetch : /\ fetch'[g].turnout <= Cardinality(ballots)
                               /\ Details!Timely(fetch'[g])
  BY DetailsHeld

\* The chaincode reads the election, then the clock for the status and again for
\* the results: what it counts it counts outside the dates.
LEMMA ReadKeepsDetails ==
    ASSUME DetailsIInv, NEW f \in Fetch, Details!ReadStatus(f) \/ Details!ReadResults(f)
    PROVE  DetailsIInv'
<1>1. /\ UNCHANGED <<instant, ballots, deleted, vote, read, timers, place, election,
                     regressed, joined, joining, wire, failures>>
  BY DEF Details!ReadStatus, Details!ReadResults, Details!casting, Details!socket
<1>2. PICK r \in Details!Request :
        /\ r.turnout <= Cardinality(ballots)
        /\ Details!Timely(r)
        /\ fetch' = [fetch EXCEPT ![f] = r]
  <2>1. CASE Details!ReadStatus(f)
    <3>0. PICK c \in Details!Request : c = fetch[f] /\ Details!Timely(c)
      BY DetailsHeld
    <3>1. PICK r : r = [c EXCEPT !.at = "status", !.turnout = Cardinality(ballots)]
      OBVIOUS
    <3>2. fetch' = [fetch EXCEPT ![f] = r]
      BY <2>1, <3>0, <3>1, SameCardinality DEF Details!ReadStatus
    <3>3. r \in Details!Request /\ Details!Timely(r) /\ r.turnout <= Cardinality(ballots)
      <4>1. /\ r.turnout = Cardinality(ballots) /\ r.results = c.results /\ r.asOf = c.asOf
            /\ r \in Details!Request
        BY <3>0, <3>1, DetailsHeld DEF Details!Request
      <4> QED
        BY <3>0, <4>1, DetailsHeld DEF Details!Timely
    <3> QED
      BY <3>2, <3>3
  <2>2. CASE Details!ReadResults(f)
    <3>1. PICK c \in Details!Request : c = fetch[f]
      BY DetailsHeld
    <3>2. PICK r : r = [c EXCEPT !.at = "answered", !.asOf = instant,
                          !.results = IF Details!Open THEN {} ELSE {c.turnout}]
      OBVIOUS
    <3>3. fetch' = [fetch EXCEPT ![f] = r]
      BY <2>2, <3>1, <3>2 DEF Details!ReadResults, Details!Hidden, Details!Counted
    <3>4. /\ r.turnout = c.turnout
          /\ r.results = (IF Details!Open THEN {} ELSE {c.turnout})
          /\ r.asOf = instant /\ r \in Details!Request /\ instant \in Nat
      <4>1. /\ c.turnout \in Details!Turnout /\ instant \in 0 .. MaxTime /\ instant \in Nat
        BY <3>1, DetailsHeld, DetailsConstants DEF Details!Request
      <4>2. PICK n \in Details!Results : n = IF Details!Open THEN {} ELSE {c.turnout}
        BY <4>1 DEF Details!Results, Details!Hidden, Details!Counted
      <4>3. r = [c EXCEPT !.at = "answered", !.asOf = instant, !.results = n]
        BY <3>2, <4>2
      <4> QED
        BY <3>1, <4>1, <4>2, <4>3 DEF Details!Request
    <3>5. c.turnout \in Nat /\ c.turnout <= Cardinality(ballots)
      BY <3>1, DetailsHeld, DetailsConstants DEF Details!Request
    <3>6. ASSUME ~Details!Open, ~(instant >= End) PROVE c.turnout = 0
      <4>1. ~(instant > Start)
        BY <3>6, DetailsConstants DEF Details!Open, Details!isDateBetween, DetailsIInv,
           Details!ElectionPageTypeOK
      <4>2. \A v \in Vote : vote[v] = "none"
        BY <4>1 DEF DetailsIInv, Details!CountedAfterTheEnd
      <4>3. ballots = {}
        BY <4>2 DEF DetailsIInv, Details!ElectionPageTypeOK
      <4> QED
        BY <3>5, <4>3, FS_EmptySet
    <3>7. Details!Timely(r)
      BY <3>4, <3>6 DEF Details!Timely
    <3> QED
      BY <3>3, <3>4, <3>5, <3>7
  <2> QED
    BY <2>1, <2>2
<1>3. /\ fetch' \in [Fetch -> Details!Request]
      /\ \A g \in Fetch : /\ fetch'[g].turnout <= Cardinality(ballots)
                          /\ Details!Timely(fetch'[g])
  BY <1>2, FetchIsReplaced
<1>4. /\ failures' \in 0 .. MaxFaults
      /\ place' \in {"loading", "shown", "not-found"}
      /\ joined' \in BOOLEAN /\ joining' \in BOOLEAN
      /\ election' \in Details!Shown
      /\ election'.turnout <= Cardinality(ballots)
      /\ Details!Timely(election')
  BY <1>1, DetailsHeld
<1>5. UNCHANGED <<instant, ballots, deleted, vote, read, timers>> /\ wire' = wire
  BY <1>1
<1> QED
  BY <1>1, <1>3, <1>4, <1>5, DetailsHeld, FetchKeepsDetails DEF PageHolds, Details!Timely

\* The answer is shown: its numbers are those of the page from now on.
LEMMA ShowKeepsDetails ==
    ASSUME DetailsIInv, NEW f \in Fetch, Details!Show(f)
    PROVE  DetailsIInv'
<1>1. /\ UNCHANGED <<instant, ballots, deleted, vote, read, timers>> /\ wire' = wire
      /\ failures' \in 0 .. MaxFaults
      /\ place' \in {"loading", "shown", "not-found"}
      /\ joined' \in BOOLEAN /\ joining' \in BOOLEAN /\ regressed' \in BOOLEAN
  BY DetailsHeld DEF Details!Show, Details!casting
<1>2. PICK c \in Details!Request : c = fetch[f]
  BY DetailsHeld
<1>3. /\ c.turnout <= Cardinality(ballots)
      /\ Details!Timely(c)
  BY <1>2, DetailsHeld
<1>4. PICK e : e = [turnout |-> c.turnout, results |-> c.results, asOf |-> c.asOf]
  OBVIOUS
<1>5. /\ e \in Details!Shown /\ e.turnout = c.turnout /\ Details!Timely(e)
  BY <1>2, <1>3, <1>4 DEF Details!Shown, Details!Request, Details!Timely
<1>6. election' = e
  BY <1>2, <1>4 DEF Details!Show
<1>7. PICK r \in Details!Request : r = Details!NoFetch /\ r.turnout = 0 /\ Details!Timely(r)
  BY NoFetchIsARequest, DetailsHeld DEF Details!Timely
<1>8. fetch' = [fetch EXCEPT ![f] = r] /\ 0 <= Cardinality(ballots)
  BY <1>7, DetailsHeld DEF Details!Show
<1>9. /\ fetch' \in [Fetch -> Details!Request]
      /\ \A g \in Fetch : /\ fetch'[g].turnout <= Cardinality(ballots)
                          /\ Details!Timely(fetch'[g])
  BY <1>7, <1>8, FetchIsReplaced
<1> QED
  BY <1>1, <1>3, <1>5, <1>6, <1>9, FetchKeepsDetails DEF PageHolds, Details!Timely

\* The page asks, when it is mounted or on an event.
LEMMA AskKeepsDetails ==
    ASSUME DetailsIInv, Details!Mount \/ Details!Receive
    PROVE  DetailsIInv'
<1>1. /\ UNCHANGED <<instant, ballots, deleted, vote, read, timers>>
      /\ failures' \in 0 .. MaxFaults
      /\ place' \in {"loading", "shown", "not-found"}
      /\ joined' \in BOOLEAN /\ joining' \in BOOLEAN /\ regressed' \in BOOLEAN
      /\ wire' = wire \/ (wire # <<>> /\ wire' = Tail(wire))
  <2>1. CASE Details!Mount
    <3>1. UNCHANGED <<instant, ballots, deleted, vote, read, timers, place, election,
                      regressed, joined, joining, wire, failures>>
      BY <2>1 DEF Details!Mount, Details!casting, Details!socket
    <3> QED
      BY <3>1, DetailsHeld
  <2>2. CASE Details!Receive
    BY <2>2, DetailsHeld DEF Details!Receive, Details!casting
  <2> QED
    BY <2>1, <2>2
<1>2. /\ fetch' \in [Fetch -> Details!Request]
      /\ \A g \in Fetch : /\ fetch'[g].turnout <= Cardinality(ballots)
                          /\ Details!Timely(fetch'[g])
  <2>1. CASE UNCHANGED fetch
    BY <2>1, DetailsHeld
  <2>2. ASSUME NEW f \in Fetch, Details!Ask(f)
        PROVE  /\ fetch' \in [Fetch -> Details!Request]
               /\ \A g \in Fetch : /\ fetch'[g].turnout <= Cardinality(ballots)
                                   /\ Details!Timely(fetch'[g])
    <3>1. PICK c \in Details!Request : c = fetch[f]
      BY DetailsHeld
    <3>2. PICK r : r = [c EXCEPT !.at = "asked"]
      OBVIOUS
    <3>3. /\ r \in Details!Request /\ r.turnout = c.turnout /\ r.results = c.results
          /\ r.asOf = c.asOf
      BY <3>1, <3>2 DEF Details!Request
    <3>4. fetch' = [fetch EXCEPT ![f] = r]
      BY <2>2, <3>1, <3>2 DEF Details!Ask
    <3>5. /\ c.turnout <= Cardinality(ballots)
          /\ Details!Timely(c)
      BY <3>1, DetailsHeld
    <3>6. Details!Timely(r)
      BY <3>3, <3>5 DEF Details!Timely
    <3> QED
      BY <3>3, <3>4, <3>5, <3>6, FetchIsReplaced
  <2> QED
    BY <2>1, <2>2 DEF Details!Mount, Details!Receive
<1>3. /\ election' \in Details!Shown
      /\ election'.turnout <= Cardinality(ballots)
      /\ Details!Timely(election')
  <2>1. CASE UNCHANGED election
    BY <2>1, DetailsHeld
  <2>2. CASE ~UNCHANGED election
    <3>1. /\ wire # <<>>
          /\ election' = [election EXCEPT !.turnout = Head(wire).turnout]
      BY <2>2 DEF Details!Mount, Details!Receive
    <3>2. PICK n \in Details!Turnout : n = Head(wire).turnout /\ n <= Cardinality(ballots)
      <4>1. Head(wire) = wire[1] /\ 1 \in DOMAIN wire /\ wire[1] \in Details!Event
        BY <3>1, DetailsHeld
      <4> QED
        BY <4>1, DetailsHeld DEF Details!Event
    <3>3. PICK e \in Details!Shown : e = election
      BY DetailsHeld
    <3>4. PICK d : d = [e EXCEPT !.turnout = n]
      OBVIOUS
    <3>5. /\ d \in Details!Shown /\ d.turnout = n /\ d.results = e.results /\ d.asOf = e.asOf
      BY <3>3, <3>4 DEF Details!Shown
    <3> QED
      BY <3>1, <3>2, <3>3, <3>4, <3>5, DetailsHeld DEF Details!Timely
  <2> QED
    BY <2>1, <2>2
<1> QED
  BY <1>1, <1>2, <1>3, FetchKeepsDetails DEF PageHolds, Details!Timely

\* A failure, the room, the connection and the clock.
LEMMA RestKeepsDetails ==
    ASSUME DetailsIInv,
           \/ \E f \in Fetch : Details!FailFetch(f)
           \/ Details!Join \/ Details!Reconnect \/ Details!Tick
    PROVE  DetailsIInv'
<1>1. CASE \E f \in Fetch : Details!FailFetch(f)
  <2>1. /\ UNCHANGED <<instant, ballots, deleted, vote, read, timers>> /\ wire' = <<>>
        /\ place' = "not-found" /\ joined' = FALSE /\ joining' = FALSE
        /\ election' = election /\ regressed' = regressed
        /\ fetch' = [g \in Fetch |-> Details!NoFetch]
    BY <1>1 DEF Details!FailFetch, Details!casting
  <2>2. failures' \in 0 .. MaxFaults
    BY <1>1, DetailsHeld, DetailsConstants DEF Details!FailFetch
  <2>3. /\ fetch' \in [Fetch -> Details!Request]
        /\ \A g \in Fetch : /\ fetch'[g].turnout <= Cardinality(ballots)
                            /\ Details!Timely(fetch'[g])
    BY <2>1, NoFetchIsARequest, DetailsHeld DEF Details!Timely
  <2> QED
    BY <2>1, <2>2, <2>3, DetailsHeld, FetchKeepsDetails DEF PageHolds, Details!Timely
<1>2. CASE Details!Join \/ Details!Reconnect
  <2>1. /\ UNCHANGED <<instant, ballots, deleted, vote, read, timers>>
        /\ wire' = wire \/ wire' = <<>>
        /\ joined' \in BOOLEAN /\ joining' \in BOOLEAN
        /\ UNCHANGED <<election, regressed, fetch, place>>
    BY <1>2, DetailsHeld DEF Details!Join, Details!Reconnect, Details!casting,
                             Details!page
  <2>2. failures' \in 0 .. MaxFaults
    BY <1>2, DetailsHeld, DetailsConstants DEF Details!Join, Details!Reconnect
  <2>3. PageHolds'
    BY <2>1, <2>2, DetailsHeld DEF PageHolds, Details!Timely
  <2> QED
    BY <2>1, <2>3, FetchKeepsDetails
<1>3. CASE Details!Tick
  <2>1. /\ UNCHANGED <<ballots, deleted, vote, read, timers, fetch, place, election,
                       regressed, joined, joining, wire, failures>>
        /\ instant < MaxTime /\ instant' = instant + 1
    BY <1>3 DEF Details!Tick, Details!casting, Details!page, Details!socket
  <2>2. instant \in Begin .. MaxTime /\ instant' \in Begin .. MaxTime
        /\ instant \in Int
        /\ (instant > Start => instant' > Start) /\ (instant >= End => instant' >= End)
    BY <2>1, DetailsConstants DEF DetailsIInv, Details!ElectionPageTypeOK
  <2>3. Details!ElectionPageTypeOK'
    BY <2>1, <2>2 DEF DetailsIInv, Details!ElectionPageTypeOK
  <2>4. Details!TurnoutIsReal'
    BY <2>1 DEF DetailsIInv, Details!TurnoutIsReal
  <2>5. Details!CountedAfterTheEnd'
    <3>1. \A a \in 0 .. MaxTime : a <= instant => a <= instant'
      BY <2>1, <2>2
    <3>2. election.asOf \in 0 .. MaxTime /\ \A f \in Fetch : fetch[f].asOf \in 0 .. MaxTime
      BY DetailsHeld DEF Details!Shown, Details!Request
    <3> QED
      BY <2>1, <2>2, <3>1, <3>2
      DEF DetailsIInv, Details!CountedAfterTheEnd, Details!Timely
  <2> QED
    BY <2>3, <2>4, <2>5 DEF DetailsIInv
<1> QED
  BY <1>1, <1>2, <1>3

\* The update of a vote cannot be read, and the process of the service ends with all
\* that it had; or the election is deleted.
LEMMA EndKeepsDetails ==
    ASSUME DetailsIInv, Details!Delete \/ \E v \in Vote : Details!FailToEvaluate(v)
    PROVE  DetailsIInv'
<1>1. CASE Details!Delete
  <2>1. /\ UNCHANGED <<instant, ballots, vote, read, timers, fetch, place, election,
                       regressed, joined, joining, wire, failures>>
        /\ deleted' \in BOOLEAN
    BY <1>1 DEF Details!Delete, Details!page, Details!socket
  <2> QED
    BY <2>1 DEF DetailsIInv, Details!ElectionPageTypeOK, Details!TurnoutIsReal,
                Details!CountedAfterTheEnd, Details!Timely
<1>2. CASE \E v \in Vote : Details!FailToEvaluate(v)
  <2>1. /\ UNCHANGED <<instant, ballots, deleted, election, regressed>>
        /\ timers' = {} /\ wire' = <<>> /\ joined' = FALSE /\ joining' \in {joining, FALSE}
        /\ read' = [v \in Vote |-> 0]
        /\ vote' = [v \in Vote |-> CASE vote[v] = "endorsed" -> "left"
                                     [] vote[v] \in {"committed", "read"} -> "done"
                                     [] OTHER -> vote[v]]
        /\ \/ place' = "not-found" /\ fetch' = [f \in Fetch |-> Details!NoFetch]
           \/ UNCHANGED <<place, fetch>>
    BY <1>2 DEF Details!FailToEvaluate, Details!Restart
  <2>2. failures' \in 0 .. MaxFaults
    BY <1>2, DetailsHeld, DetailsConstants DEF Details!FailToEvaluate
  <2>3. /\ fetch' \in [Fetch -> Details!Request]
        /\ \A g \in Fetch : /\ fetch'[g].turnout <= Cardinality(ballots)
                            /\ Details!Timely(fetch'[g])
    BY <2>1, NoFetchIsARequest, DetailsHeld DEF Details!Timely
  <2>4. /\ vote' \in [Vote -> {"none", "endorsed", "left", "committed", "read", "done"}]
        /\ ballots = { v \in Vote : vote'[v] \in {"committed", "read", "done"} }
        /\ \A v \in Vote : vote'[v] # "none" => vote[v] # "none"
    <3>1. ASSUME NEW v \in Vote
          PROVE  /\ vote'[v] \in {"none", "endorsed", "left", "committed", "read", "done"}
                 /\ vote[v] \in {"committed", "read", "done"}
                      <=> vote'[v] \in {"committed", "read", "done"}
                 /\ vote'[v] # "none" => vote[v] # "none"
      <4>1. vote[v] \in {"none", "endorsed", "left", "committed", "read", "done"}
        BY DEF DetailsIInv, Details!ElectionPageTypeOK
      <4> QED
        BY <2>1, <4>1
    <3>2. ballots = { v \in Vote : vote[v] \in {"committed", "read", "done"} }
      BY DEF DetailsIInv, Details!ElectionPageTypeOK
    <3> QED
      BY <2>1, <3>1, <3>2
  <2>5. read' \in [Vote -> Details!Turnout] /\ \A v \in Vote : read'[v] <= Cardinality(ballots)
    BY <2>1, DetailsHeld, DetailsConstants
  <2>6. Details!ElectionPageTypeOK'
    <3>1. instant' \in Begin .. MaxTime /\ timers' \subseteq {"opened", "closed"}
          /\ ballots' = { v \in Vote : vote'[v] \in {"committed", "read", "done"} }
      BY <2>1, <2>4 DEF DetailsIInv, Details!ElectionPageTypeOK
    <3>2. /\ place' \in {"loading", "shown", "not-found"}
          /\ election' \in Details!Shown /\ regressed' \in BOOLEAN /\ deleted' \in BOOLEAN
          /\ joined' \in BOOLEAN /\ joining' \in BOOLEAN /\ wire' \in Seq(Details!Event)
      <4>1. joined' \in BOOLEAN /\ joining' \in BOOLEAN
        BY <2>1, DetailsHeld, Zenon
      <4> QED
        BY <2>1, <4>1, DetailsHeld
    <3> QED
      BY <2>2, <2>3, <2>4, <2>5, <3>1, <3>2, Zenon DEF Details!ElectionPageTypeOK
  <2>7. Details!TurnoutIsReal'
    BY <2>1, <2>3, <2>5, DetailsHeld, SameCardinality DEF Details!TurnoutIsReal
  <2>8. Details!CountedAfterTheEnd'
    BY <2>1, <2>3, <2>4 DEF DetailsIInv, Details!CountedAfterTheEnd, Details!Timely
  <2> QED
    BY <2>6, <2>7, <2>8 DEF DetailsIInv
<1> QED
  BY <1>1, <1>2

\* For all votes, requests, dates and failures, and however answers and events
\* overtake one another, the page never has a turnout ahead of the ledger, and
\* never shows a vote as counted while votes can be cast.
THEOREM ResultsInTheirTime == Details!Spec => []ElectionPageInv
<1>1. Details!Init => DetailsIInv
  <2> SUFFICES ASSUME Details!Init PROVE DetailsIInv
    OBVIOUS
  <2>1. Details!Hidden \in Details!Results /\ 0 \in Details!Turnout
    BY DetailsConstants DEF Details!Results
  <2>2. [turnout |-> 0, results |-> Details!Hidden, asOf |-> 0] \in Details!Shown
    BY <2>1, DetailsConstants DEF Details!Shown
  <2>3. Details!ElectionPageTypeOK
    <3>1. instant \in Begin .. MaxTime /\ failures \in 0 .. MaxFaults
      BY DetailsConstants DEF Details!Init
    <3>2. ballots = { v \in Vote : vote[v] \in {"committed", "read", "done"} }
      BY DEF Details!Init
    <3>3. fetch \in [Fetch -> Details!Request]
      BY NoFetchIsARequest DEF Details!Init
    <3>4. /\ vote \in [Vote -> {"none", "endorsed", "left", "committed", "read", "done"}]
          /\ read \in [Vote -> Details!Turnout]
      BY <2>1 DEF Details!Init
    <3>5. /\ timers \subseteq {"opened", "closed"}
          /\ place = "loading" /\ joined = FALSE /\ joining = FALSE
          /\ deleted = FALSE /\ regressed = FALSE
          /\ wire \in Seq(Details!Event) /\ election \in Details!Shown
      BY <2>2 DEF Details!Init
    <3> QED
      BY <3>1, <3>2, <3>3, <3>4, <3>5 DEF Details!ElectionPageTypeOK
  <2>4. Details!TurnoutIsReal
    BY FS_EmptySet, SameCardinality, NoFetchIsARequest DEF Details!Init, Details!TurnoutIsReal
  <2>5. Details!CountedAfterTheEnd
    BY NoFetchIsARequest, DetailsConstants
    DEF Details!Init, Details!CountedAfterTheEnd, Details!Timely, Details!Hidden
  <2> QED
    BY <2>3, <2>4, <2>5 DEF DetailsIInv
<1>2. DetailsIInv /\ [Details!Next]_Details!vars => DetailsIInv'
  <2> SUFFICES ASSUME DetailsIInv, [Details!Next]_Details!vars PROVE DetailsIInv'
    OBVIOUS
  <2>1. CASE UNCHANGED Details!vars
    BY <2>1 DEF Details!vars, DetailsIInv, Details!ElectionPageTypeOK,
                Details!TurnoutIsReal, Details!CountedAfterTheEnd, Details!Timely
  <2>2. CASE Details!Next
    BY <2>2, EndorseKeepsDetails, CommitKeepsDetails, EmitKeepsDetails, ReadKeepsDetails,
       ShowKeepsDetails, AskKeepsDetails, RestKeepsDetails, EndKeepsDetails
    DEF Details!Next, Details!Answer
  <2> QED
    BY <2>1, <2>2
<1> QED
  BY <1>1, <1>2, OpenIsBeforeTheEnd, PTL DEF Details!Spec

----------------------------------------------------------------------------
(* The lists of the votings *)

\* The operators of the instance are those of the modules, and its constants as they
\* are needed.
LEMMA ListsCardinality ==
    \A S : Lists!Cardinality(S) = Cardinality(S)
           /\ (Lists!IsFiniteSet(S) <=> IsFiniteSet(S))
  BY DEF Lists!Cardinality, Cardinality, Lists!IsFiniteSet, IsFiniteSet

\* The constants, as they are needed.
LEMMA ListsConstants ==
    /\ Nothing \notin Voting /\ Voting # {} /\ IsFiniteSet(Voting)
    /\ \A v \in Voting : Opens[v] \in Nat /\ Closes[v] \in Nat /\ Opens[v] < Closes[v]
    /\ ItemsPerPage \in Nat /\ ItemsPerPage > 0 /\ MaxClock \in Nat
    /\ Cardinality(Voting) \in Nat /\ Cardinality(Voting) > 0
<1>1. /\ Nothing \notin Voting /\ Voting # {} /\ IsFiniteSet(Voting)
      /\ \A v \in Voting : Opens[v] \in Nat /\ Closes[v] \in Nat /\ Opens[v] < Closes[v]
      /\ ItemsPerPage \in Nat /\ ItemsPerPage > 0 /\ MaxClock \in Nat
  BY ListsAssumption, ListsCardinality DEF Lists!ListsAssumption
<1>2. Cardinality(Voting) \in Nat /\ Cardinality(Voting) # 0
  BY <1>1, FS_CardinalityType, FS_EmptySet
<1> QED
  BY <1>1, <1>2

\* Induction over the subsets of a finite set, for the set of those of which a claim
\* holds: one of which it does not would have a least one.
LEMMA SubsetInduction ==
    ASSUME NEW S, IsFiniteSet(S), NEW P,
           \A T \in SUBSET S : (\A V \in SUBSET T : V # T => V \in P) => T \in P
    PROVE  SUBSET S \subseteq P
<1> DEFINE U == { T \in SUBSET S : T \notin P }
<1>1. IsWellFoundedOn(StrictSubsetOrdering(S), SUBSET S)
  BY FS_StrictSubsetOrderingWellFounded, FS_FiniteSubsetsOfFinite
<1>2. CASE U # {}
  <2>1. U \subseteq SUBSET S
    OBVIOUS
  <2> HIDE DEF U
  <2>2. PICK T \in U : \A V \in U : ~(<<V, T>> \in StrictSubsetOrdering(S))
    BY <1>1, <1>2, <2>1, WFMin
  <2>3. \A V \in SUBSET T : V # T => V \in P
    BY <2>1, <2>2 DEF U, StrictSubsetOrdering
  <2>4. T \in SUBSET S /\ T \notin P
    BY DEF U
  <2> QED
    BY <2>3, <2>4
<1> QED
  BY <1>2

\* Of votings that are not none, one opens last.
LEMMA LastOpens ==
    ASSUME NEW vs, IsFiniteSet(vs), vs # {}, \A v \in vs : Opens[v] \in Nat
    PROVE  \E x \in vs : \A y \in vs : Opens[y] <= Opens[x]
<1> DEFINE P == { T \in SUBSET vs : T # {} => \E x \in T : \A y \in T : Opens[y] <= Opens[x] }
<1>1. ASSUME NEW T \in SUBSET vs, \A V \in SUBSET T : V # T => V \in P
      PROVE  T \in P
  <2> SUFFICES ASSUME NEW z \in T
               PROVE  \E x \in T : \A y \in T : Opens[y] <= Opens[x]
    OBVIOUS
  <2>1. CASE T \ {z} = {}
    BY <2>1
  <2>2. CASE T \ {z} # {}
    <3>1. T \ {z} \in P
      BY <1>1
    <3>2. PICK x \in T \ {z} : \A y \in T \ {z} : Opens[y] <= Opens[x]
      BY <2>2, <3>1
    <3>3. CASE Opens[z] <= Opens[x]
      BY <3>2, <3>3
    <3>4. CASE ~(Opens[z] <= Opens[x])
      <4>1. Opens[z] \in Nat /\ Opens[x] \in Nat /\ \A y \in T : Opens[y] \in Nat
        BY <3>2
      <4>2. \A y \in T : Opens[y] <= Opens[z]
        BY <3>2, <3>4, <4>1
      <4> QED
        BY <4>2
    <3> QED
      BY <3>3, <3>4
  <2> QED
    BY <2>1, <2>2
<1> HIDE DEF P
<1>2. SUBSET vs \subseteq P
  BY <1>1, SubsetInduction
<1> QED
  BY <1>2 DEF P

\* The votings can be sorted: the one that opens last comes after the others.
LEMMA SortedExists ==
    ASSUME NEW vs, IsFiniteSet(vs), \A v \in vs : Opens[v] \in Nat
    PROVE  \E s \in [1 .. Cardinality(vs) -> vs] : Lists!IsSorted(s, vs)
<1> DEFINE P == { T \in SUBSET vs : \E s \in [1 .. Cardinality(T) -> T] : Lists!IsSorted(s, T) }
<1>1. ASSUME NEW T \in SUBSET vs, \A V \in SUBSET T : V # T => V \in P
      PROVE  T \in P
  <2>1. IsFiniteSet(T)
    BY FS_Subset
  <2>2. CASE T = {}
    <3>1. Cardinality(T) = 0
      BY <2>2, FS_EmptySet
    <3>2. PICK s : s \in [1 .. Cardinality(T) -> T] /\ DOMAIN s = {}
      <4>1. 1 .. Cardinality(T) = {}
        BY <3>1
      <4>2. [i \in {} |-> i] \in [1 .. Cardinality(T) -> T] /\ DOMAIN [i \in {} |-> i] = {}
        BY <4>1
      <4> QED
        BY <4>2
    <3>3. Lists!IsSorted(s, T)
      BY <2>2, <3>2 DEF Lists!IsSorted, Lists!Range, Lists!IsInjective
    <3> QED
      BY <3>2, <3>3
  <2>3. CASE T # {}
    <3>1. PICK x \in T : \A y \in T : Opens[y] <= Opens[x]
      BY <2>1, <2>3, LastOpens
    <3>2. T \ {x} \in P
      BY <1>1
    <3>3. PICK n \in Nat : Cardinality(T) = n + 1 /\ Cardinality(T \ {x}) = n
      <4>1. IsFiniteSet(T \ {x}) /\ Cardinality(T \ {x}) = Cardinality(T) - 1
        BY <2>1, FS_RemoveElement
      <4>2. Cardinality(T) \in Nat /\ Cardinality(T \ {x}) \in Nat
        BY <2>1, <4>1, FS_CardinalityType
      <4> QED
        BY <4>1, <4>2
    <3>4. PICK s \in [1 .. n -> T \ {x}] : Lists!IsSorted(s, T \ {x})
      BY <3>2, <3>3
    <3>5. PICK t : t = [i \in 1 .. n + 1 |-> IF i = n + 1 THEN x ELSE s[i]]
      OBVIOUS
    <3>6. /\ t \in [1 .. n + 1 -> T] /\ t[n + 1] = x
          /\ \A i \in 1 .. n : t[i] = s[i] /\ t[i] \in T \ {x}
      BY <3>5
    <3>7. Lists!Range(s) = T \ {x} /\ Lists!IsInjective(s)
          /\ \A i, j \in 1 .. n : i < j => Opens[s[i]] <= Opens[s[j]]
      BY <3>4 DEF Lists!IsSorted
    <3>8. Lists!Range(t) = T
      <4>1. \A y \in T : \E i \in 1 .. n + 1 : t[i] = y
        <5> TAKE y \in T
        <5>1. CASE y = x
          BY <3>6, <5>1
        <5>2. CASE y # x
          <6>1. PICK i \in 1 .. n : s[i] = y
            BY <3>7, <5>2 DEF Lists!Range
          <6> QED
            BY <3>6, <6>1
        <5> QED
          BY <5>1, <5>2
      <4> QED
        BY <3>6, <4>1 DEF Lists!Range
    <3>9. Lists!IsInjective(t)
      <4> SUFFICES ASSUME NEW i \in 1 .. n + 1, NEW j \in 1 .. n + 1, t[i] = t[j]
                   PROVE  i = j
        BY <3>6 DEF Lists!IsInjective
      <4>1. CASE i \in 1 .. n /\ j \in 1 .. n
        BY <3>6, <3>7, <4>1 DEF Lists!IsInjective
      <4>2. CASE i = n + 1 \/ j = n + 1
        BY <3>6, <4>2
      <4> QED
        BY <4>1, <4>2
    <3>10. \A i, j \in 1 .. n + 1 : i < j => Opens[t[i]] <= Opens[t[j]]
      <4> SUFFICES ASSUME NEW i \in 1 .. n + 1, NEW j \in 1 .. n + 1, i < j
                   PROVE  Opens[t[i]] <= Opens[t[j]]
        OBVIOUS
      <4>1. CASE j = n + 1
        BY <3>1, <3>6, <4>1
      <4>2. CASE j # n + 1
        <5>1. i \in 1 .. n /\ j \in 1 .. n
          BY <4>2
        <5> QED
          BY <3>6, <3>7, <5>1
      <4> QED
        BY <4>1, <4>2
    <3>11. Lists!IsSorted(t, T)
      BY <3>6, <3>8, <3>9, <3>10 DEF Lists!IsSorted
    <3> QED
      BY <3>3, <3>6, <3>11
  <2> QED
    BY <2>2, <2>3
<1> HIDE DEF P
<1>2. SUBSET vs \subseteq P
  BY <1>1, SubsetInduction
<1> QED
  BY <1>2 DEF P

\* What a sorted list is: a sequence, with each voting once.
LEMMA SortedIs ==
    ASSUME NEW vs \in SUBSET Voting
    PROVE  LET s == Lists!sortElectionsByDate(vs)
           IN  /\ s \in Seq(Voting) /\ Len(s) \in Nat /\ DOMAIN s = 1 .. Len(s)
               /\ {s[i] : i \in 1 .. Len(s)} = vs
               /\ \A i, j \in 1 .. Len(s) : s[i] = s[j] => i = j
<1>1. IsFiniteSet(vs) /\ Cardinality(vs) \in Nat /\ \A v \in vs : Opens[v] \in Nat
  BY ListsConstants, FS_Subset, FS_CardinalityType
<1>2. PICK s : s = Lists!sortElectionsByDate(vs)
  OBVIOUS
<1>3. s \in [1 .. Cardinality(vs) -> vs] /\ Lists!IsSorted(s, vs)
  <2>1. s = CHOOSE t \in [1 .. Cardinality(vs) -> vs] : Lists!IsSorted(t, vs)
    BY <1>2, ListsCardinality DEF Lists!sortElectionsByDate
  <2>2. \E t \in [1 .. Cardinality(vs) -> vs] : Lists!IsSorted(t, vs)
    BY <1>1, SortedExists
  <2> QED
    BY <2>1, <2>2
<1>4. s \in Seq(vs) /\ Len(s) = Cardinality(vs) /\ DOMAIN s = 1 .. Cardinality(vs)
  BY <1>1, <1>3
<1>5. s \in Seq(Voting)
  BY <1>4
<1>6. {s[i] : i \in 1 .. Len(s)} = vs /\ \A i, j \in 1 .. Len(s) : s[i] = s[j] => i = j
  BY <1>3, <1>4 DEF Lists!IsSorted, Lists!Range, Lists!IsInjective
<1> QED
  BY <1>1, <1>2, <1>4, <1>5, <1>6

\* Each of n positions is on one of so many pages of k, and no page is without one.
OnePageEach(n, k, pages) ==
    /\ \A j \in 1 .. n : \E p \in 1 .. pages : (p - 1) * k < j /\ j <= p * k
    /\ \A p \in 1 .. pages : (p - 1) * k + 1 \in 1 .. n /\ (p - 1) * k + 1 <= p * k
    /\ \A j \in 1 .. n : \A p, r \in 1 .. pages :
          (p - 1) * k < j /\ j <= p * k /\ (r - 1) * k < j /\ j <= r * k => p = r

\* So it is with the number of pages that the page computes.
LEMMA PageOfPosition ==
    ASSUME NEW n \in Nat, NEW k \in Nat, k > 0, NEW pages, pages = (n + k - 1) \div k
    PROVE  pages \in Nat /\ pages <= n /\ OnePageEach(n, k, pages)
<1>1. pages \in Nat /\ pages * k <= n + k - 1 /\ n + k - 1 < pages * k + k
  OBVIOUS
<1>2. \A a, b \in Nat : a < b => a * k + k <= b * k
  <2> TAKE a \in Nat, b \in Nat
  <2> HAVE a < b
  <2>1. PICK d \in Nat : b = a + 1 + d
    <3>1. b - a - 1 \in Nat /\ b = a + 1 + (b - a - 1)
      OBVIOUS
    <3> QED
      BY <3>1
  <2>2. b * k = a * k + k + d * k /\ d * k \in Nat /\ a * k \in Nat
    BY <2>1
  <2> QED
    BY <2>2
<1>3. pages <= n
  <2>1. CASE n = 0
    <3>1. ~(0 < pages)
      BY <1>1, <1>2, <2>1
    <3> QED
      BY <1>1, <2>1, <3>1
  <2>2. CASE n > 0
    <3>1. n * k >= n + k - 1
      <4>1. PICK m \in Nat : n = m + 1
        BY <2>2
      <4>2. PICK l \in Nat : k = l + 1
        OBVIOUS
      <4>3. n * k = m * l + m + l + 1 /\ m * l \in Nat
        BY <4>1, <4>2
      <4> QED
        BY <4>1, <4>2, <4>3
    <3>2. CASE n < pages
      <4>1. n * k + k <= pages * k
        BY <1>1, <1>2, <3>2
      <4>2. n * k \in Nat /\ pages * k \in Nat
        BY <1>1
      <4> QED
        BY <1>1, <3>1, <4>1, <4>2
    <3> QED
      BY <1>1, <3>2
  <2> QED
    BY <2>1, <2>2
<1>4. ASSUME NEW j \in 1 .. n
      PROVE  \E p \in 1 .. pages : (p - 1) * k < j /\ j <= p * k
  <2>1. PICK q \in Nat : q * k <= j - 1 /\ j - 1 < q * k + k
    <3>1. (j - 1) \div k \in Nat
      OBVIOUS
    <3>2. ((j - 1) \div k) * k <= j - 1 /\ j - 1 < ((j - 1) \div k) * k + k
      OBVIOUS
    <3> QED
      BY <3>1, <3>2
  <2>2. q < pages
    <3>1. CASE pages = q
      BY <1>1, <2>1, <3>1
    <3>2. CASE pages < q
      <4>1. pages * k + k <= q * k
        BY <1>1, <1>2, <3>2
      <4>2. pages * k \in Nat /\ q * k \in Nat
        BY <1>1
      <4> QED
        BY <1>1, <2>1, <4>1, <4>2
    <3> QED
      BY <1>1, <3>1, <3>2
  <2>3. PICK p : p = q + 1
    OBVIOUS
  <2>4. p \in 1 .. pages /\ p - 1 = q
    BY <1>1, <2>2, <2>3
  <2>5. p * k = q * k + k /\ q * k \in Nat
    BY <2>3
  <2>6. (p - 1) * k < j /\ j <= p * k
    <3>1. j <= q * k + k
      BY <2>1, <2>5
    <3>2. (p - 1) * k = q * k
      BY <2>4
    <3>3. q * k < j
      BY <2>1, <2>5
    <3> QED
      BY <2>5, <3>1, <3>2, <3>3
  <2> QED
    BY <2>4, <2>6
<1>5. ASSUME NEW p \in 1 .. pages
      PROVE  (p - 1) * k + 1 \in 1 .. n /\ (p - 1) * k + 1 <= p * k
  <2>1. PICK q \in Nat : p = q + 1 /\ q < pages
    BY <1>1
  <2>2. q * k + k <= pages * k
    BY <1>1, <1>2, <2>1
  <2>3. p * k = q * k + k /\ q * k \in Nat /\ pages * k \in Nat
    BY <1>1, <2>1
  <2>4. q * k + 1 \in 1 .. n /\ q * k + 1 <= p * k
    BY <1>1, <2>2, <2>3
  <2> QED
    BY <2>1, <2>4
<1>6. ASSUME NEW j \in 1 .. n, NEW p \in 1 .. pages, NEW r \in 1 .. pages,
             (p - 1) * k < j, j <= p * k, (r - 1) * k < j, j <= r * k
      PROVE  p = r
  <2>1. PICK a \in Nat : p = a + 1
    BY <1>1
  <2>2. PICK b \in Nat : r = b + 1
    BY <1>1
  <2>3. a * k < j /\ j <= a * k + k /\ b * k < j /\ j <= b * k + k /\ a * k \in Nat /\ b * k \in Nat
    BY <1>6, <2>1, <2>2
  <2>4. CASE a < b
    BY <1>2, <2>3, <2>4
  <2>5. CASE b < a
    BY <1>2, <2>3, <2>5
  <2> QED
    BY <2>1, <2>2, <2>4, <2>5
<1> QED
  BY <1>1, <1>3, <1>4, <1>5, <1>6 DEF OnePageEach

\* The pages of a list partition it.
Paginated(list) ==
    LET number == 1 .. Lists!TotalPages(list)
    IN  /\ UNION {Lists!Displayed(list, p) : p \in number} = Lists!Range(list)
        /\ \A p \in number : Lists!Displayed(list, p) # {}
        /\ \A p, r \in number : p # r =>
              Lists!Displayed(list, p) \cap Lists!Displayed(list, r) = {}

\* What a filter lists: votings of the filter, each on one page.
LEMMA ListIs ==
    ASSUME NEW vs \in SUBSET Voting, NEW q, NEW t, NEW list, list = Lists!GetData(vs, q, t)
    PROVE  /\ \A v \in Lists!Range(list) : v \in vs /\ q \in {"all", Lists!GetStatus(v, t)}
           /\ Len(list) \in Nat /\ DOMAIN list = 1 .. Len(list)
           /\ \A i \in DOMAIN list : list[i] \in Voting
           /\ Paginated(list)
<1>1. PICK ws \in SUBSET Voting : ws = {v \in vs : q \in {"all", Lists!GetStatus(v, t)}}
  OBVIOUS
<1>2. list = Lists!sortElectionsByDate(ws)
  BY <1>1 DEF Lists!GetData
<1>3. /\ list \in Seq(Voting) /\ Len(list) \in Nat /\ DOMAIN list = 1 .. Len(list)
      /\ {list[i] : i \in 1 .. Len(list)} = ws
      /\ \A i, j \in 1 .. Len(list) : list[i] = list[j] => i = j
  BY <1>2, SortedIs
<1>4. Lists!Range(list) = ws
  BY <1>3 DEF Lists!Range
<1>5. PICK n \in Nat : n = Len(list)
  BY <1>3
<1>6. PICK k \in Nat : k = ItemsPerPage /\ k > 0
  BY ListsConstants
<1>7. PICK total : total = (n + k - 1) \div k
  OBVIOUS
<1>8. Lists!TotalPages(list) = total
  BY <1>5, <1>6, <1>7 DEF Lists!TotalPages
<1>9. /\ total \in Nat /\ total <= n
      /\ \A j \in 1 .. n : \E p \in 1 .. total : (p - 1) * k < j /\ j <= p * k
      /\ \A p \in 1 .. total : (p - 1) * k + 1 \in 1 .. n /\ (p - 1) * k + 1 <= p * k
      /\ \A j \in 1 .. n : \A p, r \in 1 .. total :
            (p - 1) * k < j /\ j <= p * k /\ (r - 1) * k < j /\ j <= r * k => p = r
  <2>1. total \in Nat /\ total <= n /\ OnePageEach(n, k, total)
    BY <1>6, <1>7, PageOfPosition
  <2> QED
    BY <2>1 DEF OnePageEach
<1>10. \A p : Lists!Displayed(list, p)
               = {list[i] : i \in {j \in 1 .. n : (p - 1) * k < j /\ j <= p * k}}
  BY <1>3, <1>5, <1>6 DEF Lists!Displayed
<1>11. UNION {Lists!Displayed(list, p) : p \in 1 .. total} = Lists!Range(list)
  <2>1. ASSUME NEW v \in UNION {Lists!Displayed(list, p) : p \in 1 .. total}
        PROVE  v \in Lists!Range(list)
    BY <1>3, <1>5, <1>10 DEF Lists!Range
  <2>2. ASSUME NEW v \in Lists!Range(list)
        PROVE  v \in UNION {Lists!Displayed(list, p) : p \in 1 .. total}
    <3>1. PICK j \in 1 .. n : v = list[j]
      BY <1>3, <1>5 DEF Lists!Range
    <3>2. PICK p \in 1 .. total : (p - 1) * k < j /\ j <= p * k
      BY <1>9
    <3>3. v \in Lists!Displayed(list, p)
      BY <1>10, <3>1, <3>2
    <3> QED
      BY <3>3
  <2> QED
    BY <2>1, <2>2
<1>12. ASSUME NEW p \in 1 .. total PROVE Lists!Displayed(list, p) # {}
  <2>1. PICK j \in 1 .. n : j = (p - 1) * k + 1 /\ j <= p * k
    BY <1>9
  <2>2. (p - 1) * k < j
    <3>1. PICK m \in Nat : m = (p - 1) * k
      <4>1. PICK a \in Nat : p - 1 = a
        BY <1>9
      <4>2. a * k \in Nat
        OBVIOUS
      <4> QED
        BY <4>1, <4>2
    <3> QED
      BY <2>1, <3>1
  <2>3. list[j] \in Lists!Displayed(list, p)
    BY <1>10, <2>1, <2>2
  <2> QED
    BY <2>3
<1>13. ASSUME NEW p \in 1 .. total, NEW r \in 1 .. total, p # r
       PROVE  Lists!Displayed(list, p) \cap Lists!Displayed(list, r) = {}
  <2> SUFFICES ASSUME NEW v \in Lists!Displayed(list, p), v \in Lists!Displayed(list, r)
               PROVE  FALSE
    OBVIOUS
  <2>1. PICK i \in 1 .. n : v = list[i] /\ (p - 1) * k < i /\ i <= p * k
    BY <1>10
  <2>2. PICK j \in 1 .. n : v = list[j] /\ (r - 1) * k < j /\ j <= r * k
    BY <1>10
  <2>3. i = j
    BY <1>3, <1>5, <2>1, <2>2
  <2> QED
    BY <1>9, <1>13, <2>1, <2>2, <2>3
<1>14. Paginated(list)
  BY <1>8, <1>11, <1>12, <1>13 DEF Paginated
<1>15. \A i \in DOMAIN list : list[i] \in Voting
  BY <1>3
<1> QED
  BY <1>1, <1>3, <1>4, <1>14, <1>15

\* A component of the dashboard is in the section of its status, by the time that it
\* has kept as by that of the page.
DashboardIsLive ==
    /\ modal \in {"none", "mounted"}
    /\ Lists!ModalIsOfTheVoting
    /\ \A x \in Lists!Place : component[x] # Lists!Gone =>
          x[1] = Lists!GetStatus(x[2], now) /\ x[1] = Lists!GetStatus(x[2], component[x])

ListsIInv == Lists!ListsTypeOK /\ (dashboard => DashboardIsLive)

\* The invariant says more than ListsInv.
LEMMA ListsFollow == ListsIInv => ListsInv
<1> SUFFICES ASSUME ListsIInv PROVE ListsInv
  OBVIOUS
<1>1. data \in SUBSET Voting
  BY DEF ListsIInv, Lists!ListsTypeOK
<1>2. Lists!PagesPartitionTheList
  <2>1. \A q \in Lists!Qualifier : Paginated(Lists!GetData(data, q, now))
    BY <1>1, ListIs
  <2> QED
    BY <2>1 DEF Paginated, Lists!PagesPartitionTheList
<1>3. ASSUME dashboard
      PROVE  Lists!LinksFollowTheStatus /\ Lists!ModalIsOfTheVoting
  BY <1>3 DEF ListsIInv, DashboardIsLive, Lists!LinksFollowTheStatus, Lists!IsOpen
<1> QED
  BY <1>2, <1>3 DEF ListsIInv, ListsInv, Lists!ListsInv

\* The types, without what the other parts of the module say.
LEMMA ListsHeld ==
    ASSUME ListsIInv
    PROVE  /\ dashboard \in BOOLEAN
           /\ clock \in Nat /\ clock <= MaxClock /\ now \in Nat /\ now <= clock
           /\ data \in {{}, Voting} /\ data \in SUBSET Voting /\ failed \in BOOLEAN
           /\ picked \in Lists!Qualifier
           /\ currentPage \in 1 .. Cardinality(Voting)
           /\ component \in [Lists!Place -> {Lists!Gone} \cup 0 .. now]
           /\ modal \in {"none", "mounted", "unmounted", "stuck"}
           /\ anchor \in Voting \cup {Nothing}
           /\ {electionId, opened, shownCode} \cup asked \subseteq Voting \cup {Nothing}
           /\ dashboard => DashboardIsLive
  BY ListsConstants, ListsCardinality DEF ListsIInv, Lists!ListsTypeOK

\* Rendering keeps it, whatever has changed of the time, the filter and the page.
LEMMA RenderKeepsLists ==
    ASSUME ListsIInv, Lists!Render, UNCHANGED clock, UNCHANGED Lists!modals,
           now' \in Nat, now <= now', now' <= clock,
           data' \in {{}, Voting}, picked' \in Lists!Qualifier,
           currentPage' \in 1 .. Cardinality(Voting)
    PROVE  ListsIInv'
<1>1. /\ data' \in SUBSET Voting
      /\ UNCHANGED <<dashboard, failed, electionId, opened, asked, shownCode>>
  BY DEF Lists!Render, Lists!modals
<1>2. PICK shown : /\ shown = Lists!Appearing(data', picked', currentPage', now')
                   /\ component' = [x \in Lists!Place |->
                                      IF x \notin shown THEN Lists!Gone
                                      ELSE IF component[x] = Lists!Gone THEN now'
                                      ELSE component[x]]
                   /\ IF data = {} /\ data' # {} THEN Lists!FindModal(shown)
                                                 ELSE Lists!KeepModal(shown)
  BY DEF Lists!Render
<1>3. component' \in [Lists!Place -> {Lists!Gone} \cup 0 .. now']
  <2>1. \A x \in Lists!Place : component[x] \in {Lists!Gone} \cup 0 .. now
    BY ListsHeld
  <2>2. 0 .. now \subseteq 0 .. now' /\ now' \in 0 .. now'
    BY ListsHeld
  <2> QED
    BY <1>2, <2>1, <2>2
<1>4. modal' \in {"none", "mounted", "unmounted", "stuck"}
  BY <1>2, ListsHeld DEF Lists!FindModal, Lists!KeepModal
<1>5. anchor' \in Voting \cup {Nothing}
  <2>1. CASE UNCHANGED anchor \/ anchor' = Nothing
    BY <2>1, ListsHeld
  <2>2. CASE ~(UNCHANGED anchor \/ anchor' = Nothing)
    <3>1. /\ ~dashboard /\ shown # {}
          /\ anchor' = Lists!GetData(data', picked', now')[1]
      BY <1>2, <2>2 DEF Lists!FindModal, Lists!KeepModal
    <3>2. PICK list : list = Lists!GetData(data', picked', now')
      OBVIOUS
    <3>3. Lists!Displayed(list, currentPage') # {}
      BY <1>2, <3>1, <3>2 DEF Lists!Appearing
    <3>4. DOMAIN list # {}
      BY <3>3 DEF Lists!Displayed
    <3>5. /\ Len(list) \in Nat /\ DOMAIN list = 1 .. Len(list)
          /\ \A i \in DOMAIN list : list[i] \in Voting
      BY <1>1, <3>2, ListIs
    <3>6. 1 \in DOMAIN list
      BY <3>4, <3>5
    <3> QED
      BY <3>1, <3>2, <3>5, <3>6
  <2> QED
    BY <2>1, <2>2
<1>6. Lists!ListsTypeOK'
  <2>1. /\ clock' \in 0 .. MaxClock /\ now' \in 0 .. clock'
        /\ dashboard' \in BOOLEAN /\ failed' \in BOOLEAN
    BY <1>1, ListsHeld, ListsConstants
  <2>2. {electionId', opened', shownCode'} \cup asked' \subseteq Voting \cup {Nothing}
    BY <1>1, ListsHeld
  <2> QED
    BY <1>3, <1>4, <1>5, <2>1, <2>2, ListsCardinality DEF Lists!ListsTypeOK
<1>7. ASSUME dashboard' PROVE DashboardIsLive'
  <2>1. dashboard /\ DashboardIsLive
    BY <1>1, <1>7, ListsHeld
  <2>2. modal' \in {"none", "mounted"}
    BY <1>2, <2>1 DEF Lists!FindModal, Lists!KeepModal, DashboardIsLive
  <2>3. Lists!ModalIsOfTheVoting'
    BY <1>1, <2>1 DEF DashboardIsLive, Lists!ModalIsOfTheVoting
  <2>4. ASSUME NEW x \in Lists!Place, component'[x] # Lists!Gone
        PROVE  x[1] = Lists!GetStatus(x[2], now') /\ x[1] = Lists!GetStatus(x[2], component'[x])
    <3>1. x \in shown /\ component'[x] = IF component[x] = Lists!Gone THEN now' ELSE component[x]
      BY <1>2, <2>4
    <3>2. x[2] \in Lists!Range(Lists!GetData(data', x[1], now'))
      BY <1>2, <2>1, <3>1 DEF Lists!Appearing
    <3>3. x[1] \in {"all", Lists!GetStatus(x[2], now')}
      <4>1. PICK vs \in SUBSET Voting : vs = data'
        BY <1>1
      <4>2. PICK q, t, v : q = x[1] /\ t = now' /\ v = x[2]
        OBVIOUS
      <4>3. PICK list : list = Lists!GetData(vs, q, t)
        OBVIOUS
      <4>4. v \in Lists!Range(list)
        BY <3>2, <4>1, <4>2, <4>3
      <4>5. q \in {"all", Lists!GetStatus(v, t)}
        BY <4>3, <4>4, ListIs
      <4> QED
        BY <4>2, <4>5
    <3>4. x[1] # "all"
      BY DEF Lists!Place, Lists!Section, Lists!Status
    <3>5. component[x] # Lists!Gone => x[1] = Lists!GetStatus(x[2], component[x])
      BY <2>1 DEF DashboardIsLive
    <3> QED
      BY <3>1, <3>3, <3>4, <3>5
  <2> QED
    BY <2>2, <2>3, <2>4 DEF DashboardIsLive
<1> QED
  BY <1>6, <1>7 DEF ListsIInv

\* The steps of the page: its clock, its votings, its filter and its pages.
LEMMA PageKeepsLists ==
    ASSUME ListsIInv,
           \/ Lists!UpdateNow \/ Lists!GetVotings \/ Lists!FailGetVotings
           \/ \E q \in Lists!Qualifier : Lists!Pick(q)
           \/ \E p \in 1 .. Lists!Cardinality(Voting) : Lists!Turn(p)
    PROVE  ListsIInv'
<1>0. 1 \in 1 .. Cardinality(Voting)
  BY ListsConstants
<1>1. CASE Lists!UpdateNow
  BY <1>1, ListsHeld, RenderKeepsLists DEF Lists!UpdateNow, Lists!query
<1>2. CASE Lists!GetVotings
  BY <1>2, ListsHeld, RenderKeepsLists DEF Lists!GetVotings
<1>5. CASE Lists!FailGetVotings
  <2>1. /\ UNCHANGED <<clock, dashboard, now, data, picked, currentPage, component, modal,
                       anchor, electionId, opened, asked, shownCode>>
        /\ failed' \in BOOLEAN
    BY <1>5 DEF Lists!FailGetVotings, Lists!query, Lists!modals
  <2> QED
    BY <2>1 DEF ListsIInv, Lists!ListsTypeOK, DashboardIsLive, Lists!ModalIsOfTheVoting
<1>3. ASSUME NEW q \in Lists!Qualifier, Lists!Pick(q) PROVE ListsIInv'
  BY <1>0, <1>3, ListsHeld, RenderKeepsLists DEF Lists!Pick
<1>4. ASSUME NEW p \in 1 .. Cardinality(Voting), Lists!Turn(p) PROVE ListsIInv'
  BY <1>4, ListsHeld, RenderKeepsLists DEF Lists!Turn
<1> QED
  BY <1>1, <1>2, <1>3, <1>4, <1>5, ListsCardinality

\* The steps of the modal, and of the time, render nothing.
LEMMA ModalKeepsLists ==
    ASSUME ListsIInv,
           \/ Lists!Tick \/ Lists!CloseModal \/ Lists!RequestCode
           \/ \E x \in Lists!Place : Lists!OpenModal(x)
           \/ \E v \in Voting \cup {Nothing} : Lists!ShowCode(v)
    PROVE  ListsIInv'
<1>1. UNCHANGED <<dashboard, now, data, failed, picked, currentPage, component, modal,
                    anchor>>
  BY DEF Lists!Tick, Lists!CloseModal, Lists!RequestCode, Lists!OpenModal, Lists!ShowCode,
         Lists!pages
<1>2. clock' \in 0 .. MaxClock /\ now' \in 0 .. clock'
  <2>1. clock' = clock \/ (clock' = clock + 1 /\ clock < MaxClock)
    BY DEF Lists!Tick, Lists!CloseModal, Lists!RequestCode, Lists!OpenModal, Lists!ShowCode
  <2> QED
    BY <1>1, <2>1, ListsHeld, ListsConstants
<1>3. /\ {electionId', opened', shownCode'} \cup asked' \subseteq Voting \cup {Nothing}
      /\ dashboard => Lists!ModalIsOfTheVoting'
  <2>1. CASE Lists!Tick
    BY <2>1, ListsHeld DEF Lists!Tick, Lists!modals, DashboardIsLive, Lists!ModalIsOfTheVoting
  <2>2. CASE Lists!CloseModal
    BY <2>2, ListsHeld DEF Lists!CloseModal, Lists!ModalIsOfTheVoting
  <2>3. CASE Lists!RequestCode
    BY <2>3, ListsHeld DEF Lists!RequestCode, DashboardIsLive, Lists!ModalIsOfTheVoting
  <2>4. ASSUME NEW x \in Lists!Place, Lists!OpenModal(x)
        PROVE  /\ {electionId', opened', shownCode'} \cup asked' \subseteq Voting \cup {Nothing}
               /\ dashboard => Lists!ModalIsOfTheVoting'
    <3>1. x[2] \in Voting
      BY DEF Lists!Place
    <3> QED
      BY <2>4, <3>1, ListsHeld DEF Lists!OpenModal, DashboardIsLive, Lists!ModalIsOfTheVoting
  <2>5. ASSUME NEW v \in Voting \cup {Nothing}, Lists!ShowCode(v)
        PROVE  /\ {electionId', opened', shownCode'} \cup asked' \subseteq Voting \cup {Nothing}
               /\ dashboard => Lists!ModalIsOfTheVoting'
    BY <2>5, ListsHeld DEF Lists!ShowCode, DashboardIsLive, Lists!ModalIsOfTheVoting
  <2> QED
    BY <2>1, <2>2, <2>3, <2>4, <2>5
<1>4. Lists!ListsTypeOK'
  BY <1>1, <1>2, <1>3, ListsHeld, ListsCardinality DEF Lists!ListsTypeOK
<1>5. dashboard' => DashboardIsLive'
  BY <1>1, <1>3, ListsHeld DEF DashboardIsLive
<1> QED
  BY <1>4, <1>5 DEF ListsIInv

\* For all votings, dates and pages: of every filter the pages have each voting once,
\* and the links and the modal of the dashboard are those of the voting they are for.
THEOREM ListsAreWhole == Lists!Spec => []ListsInv
<1>1. Lists!Init => ListsIInv
  <2> SUFFICES ASSUME Lists!Init PROVE ListsIInv
    OBVIOUS
  <2>1. /\ clock \in 0 .. MaxClock /\ now \in 0 .. clock /\ dashboard \in BOOLEAN
        /\ currentPage \in 1 .. Cardinality(Voting) /\ picked \in Lists!Qualifier
    BY ListsConstants DEF Lists!Init, Lists!Qualifier
  <2>2. Lists!ListsTypeOK
    BY <2>1, ListsCardinality DEF Lists!Init, Lists!ListsTypeOK
  <2>3. DashboardIsLive
    BY DEF Lists!Init, DashboardIsLive, Lists!ModalIsOfTheVoting
  <2> QED
    BY <2>2, <2>3 DEF ListsIInv
<1>2. ListsIInv /\ [Lists!Next]_Lists!vars => ListsIInv'
  <2> SUFFICES ASSUME ListsIInv, [Lists!Next]_Lists!vars PROVE ListsIInv'
    OBVIOUS
  <2>1. CASE UNCHANGED Lists!vars
    BY <2>1 DEF Lists!vars, ListsIInv, Lists!ListsTypeOK, DashboardIsLive,
                Lists!ModalIsOfTheVoting
  <2>2. CASE Lists!Next
    BY <2>2, PageKeepsLists, ModalKeepsLists DEF Lists!Next
  <2> QED
    BY <2>1, <2>2
<1> QED
  BY <1>1, <1>2, ListsFollow, PTL DEF Lists!Spec
=============================================================================
