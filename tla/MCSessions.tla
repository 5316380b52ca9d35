----------------------------- MODULE MCSessions -----------------------------
(***************************************************************************)
(* Small instances of Sessions for TLC: two tabs that have the same        *)
(* account, or an account each, with a request at a time; and a tab that   *)
(* has two requests in flight at once.                                     *)
(***************************************************************************)
EXTENDS Sessions, TLC

CONSTANTS u1, u2, b1, b2

VARIABLE lanes  \* the slots of the tabs that are in use

allVars == <<vars, lanes>>

MCShared == [t \in Tab |-> u1]
MCOwn    == [t \in Tab |-> IF t = b1 THEN u1 ELSE u2]

\* The accounts have no names that matter: these are all the cases of two tabs.
\* While one tab has two requests the user of the other does nothing.
MCInit ==
    /\ Init
    /\ \/ lanes = Tab \X {1}  /\ account \in {MCShared, MCOwn}
       \/ lanes = {b1} \X Slot /\ account = MCOwn

MCNext ==
    /\ Next
    /\ \A c \in Call \ lanes : call'[c] = Idle
    /\ UNCHANGED lanes

MCSpec ==
    /\ MCInit /\ [][MCNext]_allVars
    /\ \A c \in Call : WF_vars(Serve(c))
=============================================================================
