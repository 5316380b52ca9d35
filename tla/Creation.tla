------------------------------ MODULE Creation ------------------------------
(***************************************************************************)
(* The creation of a voting from the page of the administrator, and what   *)
(* a dashboard reads meanwhile.                                            *)
(*                                                                         *)
(* A voting is an ElectionInfo on one channel and an Election on the       *)
(* other, made by two requests of the browser (stores/voting.ts); the      *)
(* service then schedules its notifications. The identifier of both is the *)
(* hash of the terms: here the terms themselves. axios throws on a status  *)
(* that is not 2xx, so that whatever fails ends createVoting there, and    *)
(* what follows `responseVoting.status !== 200' never runs.                *)
(***************************************************************************)
EXTENDS Elections

CONSTANTS
    Slot,       \* submissions of the form that may be at work at once
    Typed,      \* what the administrator types: [goal, voters, terms]
    Empty,      \* a field that is empty, or blanks
    None,       \* no submission, no response
    Failure     \* the response of a form that is refused

CONSTANTS       \* bounds of the model
    MaxTime,    \* the last instant of the clock
    MaxChoices, \* fields of choices that the form may have
    MaxFaults   \* requests that fail

ASSUME CreationAssumption ==
    /\ MaxTime \in Nat /\ MaxChoices \in Nat /\ MaxFaults \in Nat
    /\ MaxChoices >= 2

\* What the fields may hold: at least the two of the choices that the form shows.
ASSUME TypedAssumption ==
    \A v \in Typed :
        /\ v = [goal |-> v.goal, voters |-> v.voters,
                terms |-> [start |-> v.terms.start, end |-> v.terms.end,
                           choices |-> v.terms.choices]]
        /\ v.voters \in Nat /\ v.terms.start \in Nat /\ v.terms.end \in Nat
        /\ v.terms.choices \in Seq(Choice \cup {Empty})
        /\ Len(v.terms.choices) \in 2 .. MaxChoices

VARIABLES
    now,        \* the clock
    infos,      \* the terms with an ElectionInfo on ch1
    elections,  \* the terms with an Election on ch2
    scheduled,  \* the terms whose notifications are scheduled
    form,       \* what the fields hold
    submitting, \* the button shows that the form is being submitted
    response,   \* None, Failure, or the terms of the voting that was created
    call,       \* call[s]: a submission and how far it got
    dashboard,  \* what a dashboard has read, and what it shows
    faults      \* how many requests have failed

vars == <<now, infos, elections, scheduled, form, submitting, response, call,
          dashboard, faults>>
ledgers == <<infos, elections, scheduled>>
page    == <<form, submitting, response>>

Idle == [at |-> "idle", values |-> None]
Read(at, details, votings) == [at |-> at, details |-> details, votings |-> votings]

----------------------------------------------------------------------------
(* The form *)

\* startValues: two choices, and nothing written.
StartValues == [goal |-> Empty, voters |-> 2,
                terms |-> [start |-> 0, end |-> 1, choices |-> <<Empty, Empty>>]]

isValidList(choices) == Empty \notin Range(choices) /\ IsInjective(choices)

\* The rules of the fields (`validValue').
Accepted(values) ==
    /\ values.goal # Empty
    /\ values.voters > 1
    /\ values.terms.start < values.terms.end /\ now < values.terms.end
    /\ isValidList(values.terms.choices)

Fill(values) ==
    /\ form' = values
    /\ UNCHANGED <<now, ledgers, submitting, response, call, dashboard, faults>>

\* addElection: a field more.
AddChoice ==
    /\ Len(form.terms.choices) < MaxChoices
    /\ Fill([form EXCEPT !.terms.choices = Append(@, Empty)])

\* removeElection: the last field, if there are more than two.
RemoveChoice ==
    /\ Len(form.terms.choices) > 2
    /\ Fill([form EXCEPT !.terms.choices = SubSeq(@, 1, Len(@) - 1)])

\* onFormSubmit: the rules, and createVoting. The button is always enabled.
Submit(s) ==
    /\ call[s].at = "idle"
    /\ IF Accepted(form)
       THEN /\ call' = [call EXCEPT ![s] = [at |-> "info", values |-> form]]
            /\ submitting' = TRUE
            /\ UNCHANGED response
       ELSE /\ submitting' = FALSE /\ response' = Failure
            /\ UNCHANGED call
    /\ UNCHANGED <<now, ledgers, form, dashboard, faults>>

----------------------------------------------------------------------------
(* createVoting *)

Moves(s, at) == call' = [call EXCEPT ![s].at = at]
Throws(s)    == call' = [call EXCEPT ![s] = Idle]
TermsOf(s)   == call[s].values.terms

\* Mutant of CreateInfo: its answer, 201, is compared with 200.
CreateInfoNotOK(s) ==
    /\ call[s].at = "info"
    /\ infos' = infos \cup {TermsOf(s)} /\ Throws(s)
    /\ UNCHANGED <<now, elections, scheduled, page, dashboard, faults>>

\* POST /election/info. What the chaincode refuses is thrown, and nobody
\* catches it: the page shows nothing.
CreateInfo(s) ==
    /\ call[s].at = "info"
    /\ IF TermsOf(s) \notin infos /\ checkInfo(TermsOf(s), call[s].values.voters)
       THEN infos' = infos \cup {TermsOf(s)} /\ Moves(s, "made")
       ELSE UNCHANGED infos /\ Throws(s)
    /\ UNCHANGED <<now, elections, scheduled, page, dashboard, faults>>

\* Mutant of CreateVoting: the two requests are sent at once.
CreateVotingAtOnce(s) ==
    /\ call[s].at \in {"info", "made"}
    /\ TermsOf(s) \notin elections /\ now <= TermsOf(s).end
    /\ elections' = elections \cup {TermsOf(s)} /\ Moves(s, "voting")
    /\ UNCHANGED <<now, infos, scheduled, page, dashboard, faults>>

\* POST /election with the info that was answered. A voting that has closed
\* meanwhile is refused, for it has no results.
CreateVoting(s) ==
    /\ call[s].at = "made"
    /\ IF TermsOf(s) \notin elections /\ now <= TermsOf(s).end
       THEN elections' = elections \cup {TermsOf(s)} /\ Moves(s, "voting")
       ELSE UNCHANGED elections /\ Throws(s)
    /\ UNCHANGED <<now, infos, scheduled, page, dashboard, faults>>

\* The controller goes on: it reads the info and saves the notifications.
Schedule(s) ==
    /\ call[s].at = "voting"
    /\ scheduled' = scheduled \cup {TermsOf(s)}
    /\ Moves(s, "scheduled")
    /\ UNCHANGED <<now, infos, elections, page, dashboard, faults>>

\* Success: the page says so, and the form is as it was at first.
Created(s) ==
    /\ call[s].at = "scheduled"
    /\ Throws(s)
    /\ form' = StartValues /\ submitting' = FALSE /\ response' = TermsOf(s)
    /\ UNCHANGED <<now, ledgers, dashboard, faults>>

\* A request fails, in the service or on the way, or the page is closed.
Fail(s) ==
    /\ call[s].at # "idle"
    /\ faults < MaxFaults
    /\ faults' = faults + 1
    /\ Throws(s)
    /\ UNCHANGED <<now, ledgers, page, dashboard>>

----------------------------------------------------------------------------
(* A dashboard: getVotings *)

\* GET /election/all.
ReadDetails ==
    /\ dashboard.at # "details"
    /\ dashboard' = Read("details", elections, {})
    /\ UNCHANGED <<now, ledgers, page, call, faults>>

\* GET /election/info/all, and toVoting of each: an info with no details makes
\* it throw, and the page not found is shown.
ReadInfos ==
    /\ dashboard.at = "details"
    /\ dashboard' = IF infos \subseteq dashboard.details
                    THEN Read("shown", {}, infos) ELSE Read("not-found", {}, {})
    /\ UNCHANGED <<now, ledgers, page, call, faults>>

Tick ==
    /\ now < MaxTime
    /\ now' = now + 1
    /\ UNCHANGED <<ledgers, page, call, dashboard, faults>>

----------------------------------------------------------------------------

Init ==
    /\ now = 0
    /\ infos = {} /\ elections = {} /\ scheduled = {}
    /\ form = StartValues /\ submitting = FALSE /\ response = None
    /\ call = [s \in Slot |-> Idle]
    /\ dashboard = Read("idle", {}, {})
    /\ faults = 0

Next ==
    \/ \E values \in Typed : Fill(values)
    \/ AddChoice
    \/ RemoveChoice
    \/ \E s \in Slot : \/ Submit(s) \/ CreateInfo(s) \/ CreateVoting(s)
                       \/ Schedule(s) \/ Created(s) \/ Fail(s)
    \/ ReadDetails
    \/ ReadInfos
    \/ Tick

Spec == Init /\ [][Next]_vars

\* What the services, and the browser after their answers, do for a submission.
Work(s) == CreateInfo(s) \/ CreateVoting(s) \/ Schedule(s) \/ Created(s)

\* The services answer, and the browser goes on with what they answer.
FairSpec == Spec /\ \A s \in Slot : WF_vars(Work(s))

----------------------------------------------------------------------------
(* Properties *)

\* The forms that the rules may accept: fields that were added are empty.
Forms == UNION { { [values EXCEPT !.terms.choices = SubSeq(@, 1, n)] :
                     n \in 2 .. Len(values.terms.choices) } : values \in Typed }
Terms == { values.terms : values \in Forms }

\* How far a submission may be.
At == {"info", "made", "voting", "scheduled"}

CreationTypeOK ==
    /\ now \in 0 .. MaxTime /\ faults \in 0 .. MaxFaults
    /\ infos \cup elections \cup scheduled \subseteq Terms
    /\ submitting \in BOOLEAN
    /\ call \in [Slot -> {Idle} \cup [at : At, values : Forms]]
    /\ dashboard \in [at : {"idle", "details", "shown", "not-found"},
                      details : SUBSET Terms, votings : SUBSET Terms]
    /\ Len(form.terms.choices) \in 2 .. MaxChoices

\* The form holds what was typed, but for fields of choices that were added, which
\* are empty, and those that were removed, which were the last.
FormIsTyped ==
    \E v \in Typed \cup {StartValues}, n \in 2 .. MaxChoices :
        /\ form = [v EXCEPT !.terms.choices = form.terms.choices]
        /\ n <= Len(v.terms.choices) /\ n <= Len(form.terms.choices)
        /\ form.terms.choices \in Seq(Choice \cup {Empty})
        /\ \A i \in 1 .. Len(form.terms.choices) :
              form.terms.choices[i] = IF i <= n THEN v.terms.choices[i] ELSE Empty

\* A submission is of a form that the rules accepted, and what it has made is there.
CallsAreAccepted ==
    \A s \in Slot : call[s].at # "idle" =>
        /\ call[s].values.voters > 1 /\ TermsOf(s).start < TermsOf(s).end
        /\ isValidList(TermsOf(s).choices)
        /\ call[s].at # "info" => TermsOf(s) \in infos
        /\ call[s].at \in {"voting", "scheduled"} => TermsOf(s) \in elections
        /\ call[s].at = "scheduled" => TermsOf(s) \in scheduled

\* However submissions overlap, fail and repeat one another, there is no
\* election without its info (ElectionContract.createElection:
\* ELECTION_INFO_NOT_FOUND) and nothing is scheduled for one that is not there.
EveryElectionHasInfo == elections \subseteq infos /\ scheduled \subseteq elections

\* What the page says it has created is there as a whole (voting.ts:120).
CreatedIsWhole ==
    response \notin {None, Failure} => response \in infos \cap elections \cap scheduled

\* A dashboard shows only votings that can be voted: those read first and whose
\* info was read afterwards.
ShownHasElection == dashboard.details \cup dashboard.votings \subseteq elections

\* What the form accepts, the chaincode does not find ill formed; but for two choices
\* of which one is the blank vote, which the form takes for any other.
\* CreateElectionView.vue:116: "Choice must be at least 1 character long and
\* different from each others".
FormAgreesWithChaincode ==
    \A s \in Slot : call[s].at = "info" =>
        LET choices == TermsOf(s).choices IN
        Blank \notin Range(choices) \/ Len(choices) > 2
            => checkInfo(TermsOf(s), call[s].values.voters)

\* The invariant: votings are created, said and shown as wholes, and the rules of
\* the form are those of the chaincode, whatever overlaps and fails.
CreationInv ==
    /\ CreationTypeOK
    /\ FormIsTyped
    /\ CallsAreAccepted
    /\ EveryElectionHasInfo
    /\ CreatedIsWhole
    /\ ShownHasElection
    /\ FormAgreesWithChaincode

\* An info gets its election, unless a request fails or the voting closes first,
\* whatever else is submitted meanwhile (voting.ts:95-105).
EveryInfoGetsElection ==
    \A t \in Terms : t \in infos ~> t \in elections \/ faults > 0 \/ now > t.end

\* Once nothing is at work there is no info without an election. voting.ts:107:
\* "Something went wrong with creating election, delete the info".
NoInfoAlone == (\A s \in Slot : call[s].at = "idle") => infos \subseteq elections
=============================================================================
