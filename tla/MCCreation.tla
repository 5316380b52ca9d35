----------------------------- MODULE MCCreation -----------------------------
(***************************************************************************)
(* Small instances of Creation for TLC: what the administrator types.      *)
(***************************************************************************)
EXTENDS Creation, TLC

CONSTANTS x, y

Values(goal, voters, end, choices) ==
    [goal |-> goal, voters |-> voters,
     terms |-> [start |-> 0, end |-> end, choices |-> choices]]

\* Two votings, a form that the rules refuse, of one voter, and one that only the
\* chaincode refuses, of a blank vote and one choice.
MCTyped ==
    { Values(x, 2, 1, <<x, y>>), Values(x, 3, 2, <<x, y>>), Values(x, 1, 1, <<x, y>>),
      Values(x, 2, 1, <<x, Blank>>) }

=============================================================================
