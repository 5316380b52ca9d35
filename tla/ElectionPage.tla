---------------------------- MODULE ElectionPage ----------------------------
(***************************************************************************)
(* The page of the details of one election (ElectionDetails.vue), what it  *)
(* is answered and what it is sent: the turnout after a vote, and that the *)
(* election has opened or closed.                                          *)
(*                                                                         *)
(* The chaincode answers an ElectionFacade, whose constructor reads the    *)
(* clock twice. The page asks for the details and then joins the room of   *)
(* the election; the events of a socket keep their order, the answers to   *)
(* requests do not, and a socket that connects again is in no room. The    *)
(* update of the turnout is waited for by nobody: when it cannot be read,  *)
(* nobody handles it either, and the process of the service ends.          *)
(***************************************************************************)
EXTENDS Elections

CONSTANTS
    Vote,       \* the votes that are cast, each valid
    Fetch,      \* requests of the page that may be at work at once
    Start, End  \* the dates of the election

CONSTANTS       \* bounds of the model
    Begin,      \* the instant at which it begins, with the page not open
    MaxTime,    \* the last instant of the clock
    MaxFaults   \* requests and updates that fail, sockets that are disconnected

ElectionPageAssumption ==
    /\ IsFiniteSet(Vote)
    /\ Start \in Nat /\ End \in Nat /\ Start < End
    /\ MaxTime \in Nat /\ Begin \in 0 .. MaxTime /\ MaxFaults \in Nat

VARIABLES
    now,        \* the clock
    ballots,    \* the votes that have got to the ledger
    deleted,    \* the election has been deleted
    vote,       \* vote[v]: how far the request of a vote is
    read,       \* read[v]: the turnout that its update has read and is to send
    timers,     \* the timers of the service that have not fired
    fetch,      \* fetch[f]: a request of the page, its answer so far and of when it is
    place,      \* "loading", "shown", "not-found": the page
    election,   \* what the page shows, and of when: [turnout, results, asOf]
    regressed,  \* an older answer has replaced a newer one
    joined,     \* the socket is in the room
    joining,    \* "joinRoom" is on its way
    wire,       \* the events on their way to the page
    faults

vars == <<now, ballots, deleted, vote, read, timers, fetch, place, election, regressed,
          joined, joining, wire, faults>>
casting == <<ballots, deleted, vote, read>>
page    == <<fetch, place, election, regressed>>
socket  == <<joined, joining, wire>>

\* The results are the number of ballots that they count, or hidden.
Hidden == {}
Counted(n) == {n}

Open == isDateBetween(now, Start, End)

NoFetch == [at |-> "idle", turnout |-> 0, results |-> Hidden, asOf |-> 0]

\* io.to(room).emit
Emits(event) == wire' = IF joined THEN Append(wire, event) ELSE wire

----------------------------------------------------------------------------
(* ElectionFacadeImpl *)

\* The election is read, with its info and the clock, for a status that no page
\* looks at.
ReadStatus(f) ==
    /\ fetch[f].at = "asked" /\ ~deleted
    /\ fetch' = [fetch EXCEPT ![f].at = "status", ![f].turnout = Cardinality(ballots)]
    /\ UNCHANGED <<now, casting, timers, place, election, regressed, socket, faults>>

\* Mutant of ReadResults: whatever the clock says.
ReadAllResults(f) ==
    /\ fetch[f].at = "status"
    /\ fetch' = [fetch EXCEPT ![f].at = "answered", ![f].asOf = now,
                              ![f].results = Counted(fetch[f].turnout)]
    /\ UNCHANGED <<now, casting, timers, place, election, regressed, socket, faults>>

\* The clock is read again for the results.
ReadResults(f) ==
    /\ fetch[f].at = "status"
    /\ fetch' = [fetch EXCEPT ![f].at = "answered", ![f].asOf = now,
                              ![f].results = IF Open THEN Hidden ELSE Counted(fetch[f].turnout)]
    /\ UNCHANGED <<now, casting, timers, place, election, regressed, socket, faults>>

----------------------------------------------------------------------------
(* castVote and its update *)

\* A vote is endorsed while the election is open ...
Endorse(v) ==
    /\ vote[v] = "none" /\ Open /\ ~deleted
    /\ vote' = [vote EXCEPT ![v] = "endorsed"]
    /\ UNCHANGED <<now, ballots, deleted, read, timers, page, socket, faults>>

\* ... is committed, unless the election is no longer there, and answered;
\* emitTurnoutUpdate asks for the election, and nobody waits for it. A vote whose
\* process has ended is committed without it.
Commit(v) ==
    /\ vote[v] \in {"endorsed", "left"} /\ ~deleted
    /\ ballots' = ballots \cup {v}
    /\ vote' = [vote EXCEPT ![v] = IF @ = "left" THEN "done" ELSE "committed"]
    /\ UNCHANGED <<now, deleted, read, timers, page, socket, faults>>

\* The peer reads the turnout ...
Evaluate(v) ==
    /\ vote[v] = "committed" /\ ~deleted
    /\ vote' = [vote EXCEPT ![v] = "read"]
    /\ read' = [read EXCEPT ![v] = Cardinality(ballots)]
    /\ UNCHANGED <<now, ballots, deleted, timers, page, socket, faults>>

\* ... and the service sends it.
EmitTurnout(v) ==
    /\ vote[v] = "read"
    /\ vote' = [vote EXCEPT ![v] = "done"]
    /\ read' = [read EXCEPT ![v] = 0]
    /\ Emits([is |-> "updateTurnout", turnout |-> read[v]])
    /\ UNCHANGED <<now, ballots, deleted, timers, page, joined, joining, faults>>

\* Whatever the process of the service had is gone: its timers, its updates, its
\* sockets and rooms, and the requests of the page; pm2 starts it again. A "joinRoom"
\* that the browser has not sent is sent to the next.
Restart ==
    /\ timers' = {}
    /\ vote' = [v \in Vote |-> CASE vote[v] = "endorsed" -> "left"
                               [] vote[v] \in {"committed", "read"} -> "done"
                               [] OTHER -> vote[v]]
    /\ read' = [v \in Vote |-> 0]
    /\ joined' = FALSE /\ joining' \in {joining, FALSE} /\ wire' = <<>>
    /\ IF \E f \in Fetch : fetch[f].at \in {"asked", "status"}
       THEN place' = "not-found" /\ fetch' = [f \in Fetch |-> NoFetch]
       ELSE UNCHANGED <<place, fetch>>

\* The election cannot be read, or is no longer there: nobody handles the rejection.
FailToEvaluate(v) ==
    /\ vote[v] = "committed"
    /\ deleted \/ faults < MaxFaults
    /\ faults' = IF deleted THEN faults ELSE faults + 1
    /\ Restart
    /\ UNCHANGED <<now, ballots, deleted, election, regressed>>

\* The administrator deletes the election: nobody is told.
Delete ==
    /\ ~deleted /\ deleted' = TRUE
    /\ UNCHANGED <<now, ballots, vote, read, timers, page, socket, faults>>

\* Mutant of FireTimer: the closing is announced as a notification only.
FireOpening(what) ==
    /\ what \in timers
    /\ now >= (IF what = "opened" THEN Start ELSE End)
    /\ timers' = timers \ {what}
    /\ IF what = "opened" THEN Emits([is |-> what, turnout |-> 0]) ELSE UNCHANGED wire
    /\ UNCHANGED <<now, casting, page, joined, joining, faults>>

\* The timers of the service (notifications.ts:25-27, 39).
FireTimer(what) ==
    /\ what \in timers
    /\ now >= (IF what = "opened" THEN Start ELSE End)
    /\ timers' = timers \ {what}
    /\ Emits([is |-> what, turnout |-> 0])
    /\ UNCHANGED <<now, casting, page, joined, joining, faults>>

----------------------------------------------------------------------------
(* The page *)

\* getVotingDetails
Ask(f) ==
    /\ fetch[f].at = "idle"
    /\ fetch' = [fetch EXCEPT ![f].at = "asked"]

\* onMounted
Mount ==
    /\ place = "loading" /\ \A f \in Fetch : fetch[f].at = "idle"
    /\ \E f \in Fetch : Ask(f)
    /\ UNCHANGED <<now, casting, timers, place, election, regressed, socket, faults>>

\* The answer replaces what is shown; that of onMounted makes the page join the
\* room and listen to its events.
Show(f) ==
    /\ fetch[f].at = "answered"
    /\ fetch' = [fetch EXCEPT ![f] = NoFetch]
    /\ election' = [turnout |-> fetch[f].turnout, results |-> fetch[f].results,
                    asOf |-> fetch[f].asOf]
    /\ regressed' = (regressed \/ fetch[f].asOf < election.asOf)
    /\ place' = IF place = "loading" THEN "shown" ELSE place
    /\ joining' = (joining \/ place = "loading")
    /\ UNCHANGED <<now, casting, timers, joined, wire, faults>>

\* It fails, as any that finds no election, and the page not found is shown.
FailFetch(f) ==
    /\ fetch[f].at # "idle"
    /\ \/ fetch[f].at = "asked" /\ deleted /\ UNCHANGED faults
       \/ faults < MaxFaults /\ faults' = faults + 1
    /\ place' = "not-found"
    /\ fetch' = [g \in Fetch |-> NoFetch]
    /\ joined' = FALSE /\ joining' = FALSE /\ wire' = <<>>
    /\ UNCHANGED <<now, casting, timers, election, regressed>>

\* "joinRoom" reaches the service.
Join ==
    /\ joining
    /\ joined' = TRUE /\ joining' = FALSE
    /\ UNCHANGED <<now, casting, timers, page, wire, faults>>

\* The connection is lost, and made again: nobody joins the room again.
Reconnect ==
    /\ place = "shown" /\ faults < MaxFaults
    /\ faults' = faults + 1
    /\ joined' = FALSE /\ wire' = <<>>
    /\ UNCHANGED <<now, casting, timers, page, joining>>

\* An event: a turnout is shown, an opening or a closing asks again.
Receive ==
    /\ wire # <<>>
    /\ wire' = Tail(wire)
    /\ IF Head(wire).is = "updateTurnout"
       THEN election' = [election EXCEPT !.turnout = Head(wire).turnout] /\ UNCHANGED fetch
       ELSE (\E f \in Fetch : Ask(f)) /\ UNCHANGED election
    /\ UNCHANGED <<now, casting, timers, place, regressed, joined, joining, faults>>

Tick ==
    /\ now < MaxTime
    /\ now' = now + 1
    /\ UNCHANGED <<casting, timers, page, socket, faults>>

----------------------------------------------------------------------------

Init ==
    /\ now = Begin
    /\ ballots = {} /\ deleted = FALSE
    /\ vote = [v \in Vote |-> "none"] /\ read = [v \in Vote |-> 0]
    /\ timers = {"closed"} \cup (IF Begin < Start THEN {"opened"} ELSE {})
    /\ fetch = [f \in Fetch |-> NoFetch]
    /\ place = "loading" /\ election = [turnout |-> 0, results |-> Hidden, asOf |-> 0]
    /\ regressed = FALSE
    /\ joined = FALSE /\ joining = FALSE /\ wire = <<>>
    /\ faults = 0

\* A request is read and answered, and its answer is shown.
Answer(f) == ReadStatus(f) \/ ReadResults(f) \/ Show(f)

Next ==
    \/ \E v \in Vote : \/ Endorse(v) \/ Commit(v)
                       \/ Evaluate(v) \/ EmitTurnout(v) \/ FailToEvaluate(v)
    \/ Delete
    \/ \E what \in {"opened", "closed"} : FireTimer(what)
    \/ Mount \/ Join \/ Receive \/ Reconnect
    \/ \E f \in Fetch : Answer(f) \/ FailFetch(f)
    \/ Tick

Spec == Init /\ [][Next]_vars

\* Time passes, timers fire, requests are answered and the browser receives
\* what it is sent; nobody has to vote.
FairSpec ==
    /\ Spec
    /\ WF_vars(Tick) /\ WF_vars(Join) /\ WF_vars(Receive) /\ WF_vars(FireTimer("closed"))
    /\ \A f \in Fetch : WF_vars(Answer(f))

----------------------------------------------------------------------------
(* Properties *)

Turnout == 0 .. Cardinality(Vote)
Results == {Hidden} \cup { Counted(n) : n \in Turnout }
Shown   == [turnout : Turnout, results : Results, asOf : 0 .. MaxTime]
Request == [at : {"idle", "asked", "status", "answered"}, turnout : Turnout,
            results : Results, asOf : 0 .. MaxTime]
Event   == [is : {"updateTurnout", "opened", "closed"}, turnout : Turnout]

ElectionPageTypeOK ==
    /\ now \in Begin .. MaxTime /\ faults \in 0 .. MaxFaults
    /\ vote \in [Vote -> {"none", "endorsed", "left", "committed", "read", "done"}]
    /\ ballots = { v \in Vote : vote[v] \in {"committed", "read", "done"} }
    /\ read \in [Vote -> Turnout]
    /\ timers \subseteq {"opened", "closed"}
    /\ fetch \in [Fetch -> Request]
    /\ place \in {"loading", "shown", "not-found"}
    /\ election \in Shown /\ regressed \in BOOLEAN /\ deleted \in BOOLEAN
    /\ joined \in BOOLEAN /\ joining \in BOOLEAN /\ wire \in Seq(Event)

\* Whatever is late or out of order, the page never counts a vote that has not got to
\* the ledger.
TurnoutIsReal ==
    /\ election.turnout <= Cardinality(ballots)
    /\ \A v \in Vote : read[v] <= Cardinality(ballots)
    /\ \A f \in Fetch : fetch[f].turnout <= Cardinality(ballots)
    /\ \A i \in DOMAIN wire : wire[i].turnout <= Cardinality(ballots)

\* While votes can be cast nobody sees one counted. report-asw.tex:90: "While
\* a vote is open users can see only the turnout."
NoEarlyResults == Open => \A n \in election.results : n = 0

\* What `it' counts was counted when the end was past.
Timely(it) == it.asOf <= now /\ \A n \in it.results : n = 0 \/ it.asOf >= End

\* Why: there is nothing to count before the start, and what the page counts, or what
\* is on its way to it, is in its time.
CountedAfterTheEnd ==
    /\ \A v \in Vote : vote[v] # "none" => now > Start
    /\ Timely(election) /\ \A f \in Fetch : Timely(fetch[f])

\* The invariant: no turnout of the page is ahead of the ledger, and no vote is shown
\* as counted before the end.
ElectionPageInv ==
    /\ ElectionPageTypeOK
    /\ TurnoutIsReal
    /\ CountedAfterTheEnd
    /\ NoEarlyResults

\* What the page shows was counted when the election was over.
ShowsTheEnd == election.results # Hidden /\ election.asOf >= End

\* A page that is in the room before the closing shows the results in the end, and
\* goes on showing them: the closing makes it ask again (ElectionDetails.vue:44,
\* notifications.ts:26). Three things keep it from that: a failure, the deletion of
\* the election, and an older answer that comes after a newer one, since
\* getVotingDetails (52) shows whichever comes last.
ClosingIsShown ==
    (joined /\ "closed" \in timers) ~> [](faults > 0 \/ deleted \/ regressed \/ ShowsTheEnd)
=============================================================================
