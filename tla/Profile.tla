------------------------------ MODULE Profile ------------------------------
(***************************************************************************)
(* The page where a user changes a name: one form of the user area, the    *)
(* requests that it sends, and the document of the user.                   *)
(*                                                                         *)
(* The elements of the form are shown and hidden one by one; those that    *)
(* are always shown together are one field of the model. The buttons of    *)
(* the form, Submit too, can be clicked while a request is in flight, and  *)
(* the Enter key clicks the first of them, Change, shown or not: no button *)
(* but Submit is given its type.                                           *)
(***************************************************************************)
EXTENDS Integers, FiniteSets

CONSTANTS
    Name,       \* names of letters, which the service accepts
    Accented,   \* names that the form alone accepts
    Empty,      \* the input is empty
    Slot        \* requests that may be in flight

CONSTANTS       \* bounds of the model
    MaxFaults,  \* requests or answers that are lost
    MaxTimers   \* messages that are shown and not yet hidden

ProfileAssumption ==
    /\ Name \cap Accented = {} /\ Empty \notin Name \cup Accented
    /\ MaxFaults \in Nat /\ MaxTimers \in Nat

VARIABLES
    stored,   \* the name in the document of the user
    past,     \* history: the names that it has had
    input,    \* refValue
    old,      \* oldValue
    editing,  \* the input is not read-only
    buttons,  \* "change", or "submit" with Restore and the old value
    spinner,  \* the spinner is shown
    told,     \* the messages that are shown
    timers,   \* timers[m]: how many will hide message m
    call,     \* call[s]: the request in flight in slot s, and how far it got
    faults    \* how many have been lost

vars == <<stored, past, input, old, editing, buttons, spinner, told, timers, call, faults>>
form == <<input, old, editing, buttons, spinner, told, timers>>

Message == {"success", "error"}

Idle == [at |-> "idle"]
Moves(s, at) == call' = [call EXCEPT ![s].at = at]

----------------------------------------------------------------------------
(* The user *)

\* onChangeButton, by the button, or by the Enter key at any time.
Change ==
    /\ editing' = TRUE /\ input' = Empty /\ buttons' = "submit"
    /\ told' = {}
    /\ UNCHANGED <<stored, past, old, spinner, timers, call, faults>>

Type(v) ==
    /\ editing
    /\ input' = v
    /\ UNCHANGED <<stored, past, old, editing, buttons, spinner, told, timers, call, faults>>

Restore ==
    /\ buttons = "submit"
    /\ editing' = FALSE /\ input' = old /\ buttons' = "change"
    /\ told' = {}
    /\ UNCHANGED <<stored, past, old, spinner, timers, call, faults>>

\* Mutant of Submit: the value is taken for the old one at once.
SubmitEagerly(s) ==
    /\ buttons = "submit" /\ input # Empty /\ call[s] = Idle
    /\ call' = [call EXCEPT ![s] = [at |-> "sent", value |-> input]]
    /\ spinner' = TRUE /\ told' = {} /\ old' = input
    /\ UNCHANGED <<stored, past, input, editing, buttons, timers, faults>>

\* onSubmit, up to its await: the button is enabled by what the form accepts.
Submit(s) ==
    /\ buttons = "submit" /\ input # Empty /\ call[s] = Idle
    /\ call' = [call EXCEPT ![s] = [at |-> "sent", value |-> input]]
    /\ spinner' = TRUE /\ told' = {}
    /\ UNCHANGED <<stored, past, input, old, editing, buttons, timers, faults>>

----------------------------------------------------------------------------
(* The service *)

\* The validation of the route, and editProfile.
EditProfile(s) ==
    /\ call[s].at = "sent"
    /\ IF call[s].value \in Name
       THEN /\ stored' = call[s].value /\ past' = past \cup {stored'}
            /\ Moves(s, "edited")
       ELSE Moves(s, "refused") /\ UNCHANGED <<stored, past>>
    /\ UNCHANGED <<form, faults>>

\* The request, or its answer, is lost.
Lose(s) ==
    /\ call[s].at \in {"sent", "edited"} /\ faults < MaxFaults
    /\ faults' = faults + 1
    /\ Moves(s, "lost")
    /\ UNCHANGED <<stored, past, form>>

----------------------------------------------------------------------------
(* The answer *)

Shows(m) ==
    /\ timers[m] < MaxTimers
    /\ timers' = [timers EXCEPT ![m] = @ + 1]
    /\ told' = {m}

\* onSubmit goes on; the input keeps what was typed meanwhile.
Succeed(s) ==
    /\ call[s].at = "edited"
    /\ Shows("success")
    /\ editing' = FALSE /\ spinner' = FALSE /\ buttons' = "change"
    /\ old' = call[s].value
    /\ call' = [call EXCEPT ![s] = Idle]
    /\ UNCHANGED <<stored, past, input, faults>>

\* Mutant of Fail: the spinner is hidden by a success only.
FailSpinning(s) ==
    /\ call[s].at \in {"refused", "lost"}
    /\ Shows("error")
    /\ input' = old
    /\ call' = [call EXCEPT ![s] = Idle]
    /\ UNCHANGED <<stored, past, old, editing, buttons, spinner, faults>>

\* The catch of onSubmit.
Fail(s) ==
    /\ call[s].at \in {"refused", "lost"}
    /\ Shows("error")
    /\ spinner' = FALSE /\ input' = old
    /\ call' = [call EXCEPT ![s] = Idle]
    /\ UNCHANGED <<stored, past, old, editing, buttons, faults>>

\* Two seconds after a message.
Expire(m) ==
    /\ timers[m] > 0
    /\ timers' = [timers EXCEPT ![m] = @ - 1]
    /\ told' = told \ {m}
    /\ UNCHANGED <<stored, past, input, old, editing, buttons, spinner, call, faults>>

----------------------------------------------------------------------------

\* The page is mounted and has read the user.
Init ==
    /\ stored \in Name /\ past = {stored} /\ input = stored /\ old = stored
    /\ editing = FALSE /\ buttons = "change" /\ spinner = FALSE /\ told = {}
    /\ timers = [m \in Message |-> 0]
    /\ call = [s \in Slot |-> Idle] /\ faults = 0

Answer(s) == EditProfile(s) \/ Lose(s) \/ Succeed(s) \/ Fail(s)

Next ==
    \/ Change \/ Restore
    \/ \E v \in Name \cup Accented : Type(v)
    \/ \E s \in Slot : Submit(s) \/ Answer(s)
    \/ \E m \in Message : Expire(m)

Spec == Init /\ [][Next]_vars

\* Requests are answered or lost, and timers expire.
FairSpec ==
    /\ Spec
    /\ \A s \in Slot : WF_vars(EditProfile(s)) /\ SF_vars(Succeed(s)) /\ SF_vars(Fail(s))
    /\ \A m \in Message : WF_vars(Expire(m))

----------------------------------------------------------------------------
(* Properties *)

ProfileTypeOK ==
    /\ stored \in Name /\ past \subseteq Name /\ stored \in past
    /\ input \in Name \cup Accented \cup {Empty} /\ old \in Name
    /\ editing \in BOOLEAN /\ buttons \in {"change", "submit"} /\ spinner \in BOOLEAN
    /\ told \subseteq Message /\ \A m \in told : timers[m] > 0
    /\ timers \in [Message -> 0 .. MaxTimers]
    /\ call \in [Slot -> {Idle} \cup [at : {"sent", "edited", "refused", "lost"},
                                     value : Name \cup Accented]]
    /\ faults \in 0 .. MaxFaults

\* The old value that the form shows and restores is one that the document has
\* had, whatever was refused or lost (UserPropertyComponent.vue:93, 102, 127).
OldValueWasStored == old \in past

\* So was a value whose success is still on its way, whatever others have been
\* stored since (users.ts:110-136).
EditedWasStored == \A s \in Slot : call[s].at = "edited" => call[s].value \in past

\* The invariant: what the form restores is a name that was stored.
ProfileInv ==
    /\ ProfileTypeOK
    /\ OldValueWasStored
    /\ EditedWasStored

\* The spinner of a form is hidden at some time (onSubmit hides it either way).
SpinnerStops == spinner ~> ~spinner
=============================================================================
