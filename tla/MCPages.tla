------------------------------- MODULE MCPages -------------------------------
(***************************************************************************)
(* A small instance of Pages for TLC, which follows one of the parts at a  *)
(* time: `part' is the one that moves, and never changes.                  *)
(***************************************************************************)
EXTENDS Pages, TLC

VARIABLE part

all == <<part, vars, detailing, listing>>

\* Votings that open and close one after the other, or together.
MCOpens  == ("rector" :> 1) @@ ("council" :> 2) @@ ("budget" :> 2)
MCCloses == ("rector" :> 2) @@ ("council" :> 3) @@ ("budget" :> 4)
MCVoting == DOMAIN MCOpens

----------------------------------------------------------------------------

\* One start is enough for the parts that do not move.
MCInit ==
    /\ part \in {"tab", "details", "lists"}
    /\ Init /\ Details!Init /\ Lists!Init
    /\ part # "tab" => going = "home"
    /\ part # "lists" => clock = 0 /\ picked = "all" /\ ~dashboard

MCNext ==
    /\ UNCHANGED part
    /\ \/ part = "tab" /\ Next /\ UNCHANGED <<detailing, listing>>
       \/ part = "details" /\ Details!Next /\ UNCHANGED <<vars, listing>>
       \/ part = "lists" /\ Lists!Next /\ UNCHANGED <<vars, detailing>>

\* The fairness of each, of the one that moves.
MCSpec ==
    /\ MCInit /\ [][MCNext]_all
    /\ WF_vars(part = "tab" /\ Enter)
    /\ WF_detailing(part = "details" /\ Details!Tick)
    /\ WF_detailing(part = "details" /\ Details!Join)
    /\ WF_detailing(part = "details" /\ Details!Receive)
    /\ WF_detailing(part = "details" /\ Details!FireTimer("closed"))
    /\ \A f \in Fetch : WF_detailing(part = "details" /\ Details!Answer(f))
    /\ WF_listing(part = "lists" /\ Lists!UpdateNow)
    /\ WF_listing(part = "lists" /\ Lists!GetVotings)

----------------------------------------------------------------------------
(* Properties of one part *)

\* Navigation.NavigationSettles: as long as nobody clicks, the guard of the router
\* and what the pages push come to rest.
TabSettles == part = "tab" => NavigationSettles
=============================================================================
