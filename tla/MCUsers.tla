------------------------------- MODULE MCUsers -------------------------------
(***************************************************************************)
(* A small instance of Users for TLC, which follows one of the parts at a  *)
(* time: `part' is the one that moves, and never changes.                  *)
(***************************************************************************)
EXTENDS Users

CONSTANTS n1, n2

VARIABLE part

all == <<part, vars, naming>>

\* One name is enough for the form that does not move.
MCInit ==
    /\ part \in {"accounts", "form"}
    /\ Init /\ Form!Init
    /\ part = "accounts" => stored = n1

MCNext ==
    /\ UNCHANGED part
    /\ \/ part = "accounts" /\ Next /\ UNCHANGED naming
       \/ part = "form" /\ Form!Next /\ UNCHANGED vars

\* The fairness of each, of the one that moves.
MCSpec ==
    /\ MCInit /\ [][MCNext]_all
    /\ \A s \in Slot : WF_vars(part = "accounts" /\ Serve(s))
    /\ \A e \in Email :
         SF_vars(part = "accounts" /\ NeedsPassword(e) /\ \E s \in Slot : Ask(s, e))
    /\ \A s \in Slot : /\ WF_naming(part = "form" /\ Form!EditProfile(s))
                       /\ SF_naming(part = "form" /\ Form!Succeed(s))
                       /\ SF_naming(part = "form" /\ Form!Fail(s))
    /\ \A m \in Form!Message : WF_naming(part = "form" /\ Form!Expire(m))
=============================================================================
