------------------------------- MODULE Users -------------------------------
(***************************************************************************)
(* The users of the service: their accounts (Accounts), and the form where *)
(* one of them changes a name (Profile), as parts that share no state.     *)
(***************************************************************************)
EXTENDS Accounts

CONSTANTS Name, Accented, Empty, MaxTimers \* of Profile

VARIABLES
    stored, past, input, old, editing, buttons, spinner, told, timers, call, lost \* of Profile

naming == <<stored, past, input, old, editing, buttons, spinner, told, timers, call, lost>>

Form == INSTANCE Profile WITH faults <- lost

ASSUME FormAssumption == Form!ProfileAssumption

----------------------------------------------------------------------------
(* Properties of Profile *)

\* Profile.ProfileInv: the value that the form restores is one that the document
\* of the user has had (UserPropertyComponent.vue:93, 102, 127).
ProfileInv == Form!ProfileInv

\* Profile.SpinnerStops: the form stops waiting at some time, whatever is refused
\* or lost (onSubmit, UserPropertyComponent.vue:108-140).
SpinnerStops == Form!SpinnerStops
=============================================================================
