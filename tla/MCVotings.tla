------------------------------ MODULE MCVotings ------------------------------
(***************************************************************************)
(* A small instance of Votings for TLC, which follows one of the views at  *)
(* a time: `view' is the one that moves, and never changes.                *)
(***************************************************************************)
EXTENDS Votings, MCCreation

VARIABLE view

all == <<view, vars, dating, counting>>

\* The zones of the browsers, and counts of which a long of four bits, up to 7, holds three.
MCZones  == {"Rome", "elsewhere"}
MCStarts == -2 .. 2

\* What the proofs ask of the counts.
ASSUME MCStartsAddUp == Counting!StartsAddUp

----------------------------------------------------------------------------

MCInit == view \in {"creation", "dates", "counts"} /\ Init /\ Dating!Init /\ Counting!Init

MCNext ==
    /\ UNCHANGED view
    /\ \/ view = "creation" /\ Next /\ UNCHANGED <<dating, counting>>
       \/ view = "dates" /\ Dating!Next /\ UNCHANGED <<vars, counting>>
       \/ view = "counts" /\ Counting!Next /\ UNCHANGED <<vars, dating>>

MCSpec ==
    /\ MCInit /\ [][MCNext]_all
    /\ \A s \in Slot : WF_vars(view = "creation" /\ Work(s))
=============================================================================
