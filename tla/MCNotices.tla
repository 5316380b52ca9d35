----------------------------- MODULE MCNotices -----------------------------
(***************************************************************************)
(* A small instance of Notices for TLC, which follows one of the parts at  *)
(* a time: `part' is the one that moves, and never changes.                *)
(***************************************************************************)
EXTENDS Notices, TLC

CONSTANTS e1, e2

VARIABLE part

all == <<part, vars, serving>>

\* An election that may have started, or ended, when it is created, and one that
\* may be further ahead than the longest delay.
MCElection == {e1, e2}
MCStart == (e1 :> 2) @@ (e2 :> 4)
MCEnd   == (e1 :> 3) @@ (e2 :> 5)

----------------------------------------------------------------------------

MCInit == part \in {"service", "browser"} /\ Init /\ Service!Init

MCNext ==
    /\ UNCHANGED part
    /\ \/ part = "browser" /\ Next /\ UNCHANGED serving
       \/ part = "service" /\ Service!Next /\ UNCHANGED vars

\* The fairness of each, of the one that moves.
MCSpec ==
    /\ MCInit /\ [][MCNext]_all
    /\ WF_vars(part = "browser" /\ \E n \in Note : Store(n))
    /\ WF_vars(part = "browser" /\ \E n \in Note : Event(n))
    /\ \A t \in Task : WF_vars(part = "browser" /\ Work(t))
    /\ WF_serving(part = "service" /\ Service!Tick)
    /\ WF_serving(part = "service" /\ \E n \in Service!Notice : Service!Schedule(n))
    /\ WF_serving(part = "service" /\ \E n \in Service!Notice : Service!Store(n))
    /\ WF_serving(part = "service" /\ \E t \in timers : Service!Fire(t))
=============================================================================
