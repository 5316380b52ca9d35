--------------------------- MODULE Notifications ---------------------------
(***************************************************************************)
(* The notifications of the elections in the service: what is saved, the   *)
(* timers of the process, and what they send (real-time/notifications.ts). *)
(*                                                                         *)
(* Each election has three: "closing", a notice some time before its end,  *)
(* "closed", for the page of the election only, and "opening". The timers  *)
(* live in the process and what is saved in the database is read by        *)
(* nobody. A promise that is rejected and not handled ends the process,    *)
(* which pm2 starts again. A delay that setTimeout cannot represent, and   *)
(* one that has passed, is no delay.                                       *)
(***************************************************************************)
EXTENDS Naturals, Integers, FiniteSets

CONSTANTS
    Election,   \* elections, each created once
    Start, End, \* Start[e], End[e]: its dates
    noticeTime, \* how long before the end the notice is sent
    MaxDelay    \* the longest delay of setTimeout, 2^31 - 1 ms

CONSTANTS       \* bounds of the model
    MaxTime,    \* the last instant of the clock
    MaxFaults,  \* saves that fail, and stops of the process
    MaxCreated  \* elections that are created

NotificationsAssumption ==
    /\ Start \in [Election -> Nat] /\ End \in [Election -> Nat]
    /\ noticeTime \in Nat /\ MaxDelay \in Nat
    /\ MaxTime \in Nat /\ MaxFaults \in Nat /\ MaxCreated \in Nat

VARIABLES
    now,        \* the clock
    created,    \* the elections that are on the ledger
    todo,       \* <<e, kind>>: what a request has yet to save and schedule
    scheduled,  \* ScheduledNotification: what is saved
    timers,     \* the timers of the process: [of, set, due], set when it was started
    sent,       \* what has been sent, and when: [of, set, at]
    saving,     \* notifications that were sent and are being saved
    stored,     \* Notification: what is saved
    faults      \* how many saves and processes have failed

vars == <<now, created, todo, scheduled, timers, sent, saving, stored, faults>>
process == <<todo, timers, saving>>

Kind == {"closing", "closed", "opening"}
Notice == Election \X Kind

\* When it should be sent.
At(n) == CASE n[2] = "closing" -> End[n[1]] - noticeTime
           [] n[2] = "closed"  -> End[n[1]]
           [] n[2] = "opening" -> Start[n[1]]

\* Mutant of Due: the notice of the opening is early as that of the closing.
DueEarly(n) ==
    LET delay == At(n) - now - (IF n[2] = "opening" THEN noticeTime ELSE 0)
    IN  IF delay \in 1 .. MaxDelay THEN now + delay ELSE now

\* setTimeout
Due(n) == LET delay == At(n) - now
          IN  IF delay \in 1 .. MaxDelay THEN now + delay ELSE now

----------------------------------------------------------------------------

\* createElection has the election on the ledger, and goes on with both of
\* setOpeningElectionNotification and setClosingElectionNotification.
Create(e) ==
    /\ e \notin created /\ Cardinality(created) < MaxCreated
    /\ created' = created \cup {e}
    /\ todo' = todo \cup ({e} \X Kind)
    /\ UNCHANGED <<now, scheduled, timers, sent, saving, stored, faults>>

\* "closed" is saved once "closing" is.
MaySave(n) == n \in todo /\ (n[2] = "closed" => <<n[1], "closing">> \notin todo)

\* Mutant of Schedule: what is saved is not scheduled when it is to come late.
ScheduleSoon(n) ==
    /\ MaySave(n)
    /\ todo' = todo \ {n}
    /\ scheduled' = scheduled \cup {n}
    /\ timers' = timers \cup {t \in {[of |-> n, set |-> now, due |-> Due(n)]} : t.due > now}
    /\ UNCHANGED <<now, created, sent, saving, stored, faults>>

\* A notification is saved, and its timer started.
Schedule(n) ==
    /\ MaySave(n)
    /\ todo' = todo \ {n}
    /\ scheduled' = scheduled \cup {n}
    /\ timers' = timers \cup {[of |-> n, set |-> now, due |-> Due(n)]}
    /\ UNCHANGED <<now, created, sent, saving, stored, faults>>

\* It cannot be saved: the request is answered an error, and the other of its
\* two chains goes on.
FailSchedule(n) ==
    /\ MaySave(n) /\ faults < MaxFaults
    /\ faults' = faults + 1
    /\ todo' = todo \ (IF n[2] = "closing" THEN {n, <<n[1], "closed">>} ELSE {n})
    /\ UNCHANGED <<now, created, scheduled, timers, sent, saving, stored>>

\* The callback of a timer: emitNotification sends it, then saves it; "closed"
\* is only sent to the room of the election.
Fire(t) ==
    /\ t \in timers /\ t.due <= now
    /\ timers' = timers \ {t}
    /\ sent' = sent \cup {[of |-> t.of, set |-> t.set, at |-> now]}
    /\ saving' = IF t.of[2] = "closed" THEN saving ELSE saving \cup {t.of}
    /\ UNCHANGED <<now, created, todo, scheduled, stored, faults>>

Store(n) ==
    /\ n \in saving
    /\ saving' = saving \ {n}
    /\ stored' = stored \cup {n}
    /\ UNCHANGED <<now, created, todo, scheduled, timers, sent, faults>>

\* The process ends, by itself or since a notification cannot be saved, and
\* starts again.
Restart ==
    /\ faults < MaxFaults
    /\ faults' = faults + 1
    /\ todo' = {} /\ timers' = {} /\ saving' = {}
    /\ UNCHANGED <<now, created, scheduled, sent, stored>>

Tick ==
    /\ now < MaxTime
    /\ now' = now + 1
    /\ UNCHANGED <<created, process, scheduled, sent, stored, faults>>

----------------------------------------------------------------------------

Init ==
    /\ now = 0
    /\ created = {} /\ todo = {} /\ scheduled = {}
    /\ timers = {} /\ sent = {} /\ saving = {} /\ stored = {}
    /\ faults = 0

Next ==
    \/ \E e \in Election : Create(e)
    \/ \E n \in Notice : Schedule(n) \/ FailSchedule(n) \/ Store(n)
    \/ \E t \in timers : Fire(t)
    \/ Restart
    \/ Tick

Spec == Init /\ [][Next]_vars

\* Time passes; the loop of the process runs the timers that are due and what
\* goes on after a save.
FairSpec ==
    /\ Spec
    /\ WF_vars(Tick)
    /\ WF_vars(\E n \in Notice : Schedule(n)) /\ WF_vars(\E n \in Notice : Store(n))
    /\ WF_vars(\E t \in timers : Fire(t))

----------------------------------------------------------------------------
(* Properties *)

NotificationsTypeOK ==
    /\ now \in 0 .. MaxTime /\ faults \in 0 .. MaxFaults
    /\ created \subseteq Election
    /\ todo \cup scheduled \cup saving \cup stored \subseteq Notice
    /\ timers \subseteq [of : Notice, set : 0 .. MaxTime, due : Nat]
    /\ sent \subseteq [of : Notice, set : 0 .. MaxTime, at : 0 .. MaxTime]

SentAt(n) == { s.at : s \in { m \in sent : m.of = n } }

\* The notice of `it' is further ahead of its timer than setTimeout can represent.
Overflows(it) == At(it.of) - it.set > MaxDelay

\* A notification is true when it is sent, and no timer is early: the election has
\* opened, has closed, or is about to close (notifications.ts:17, 26, 38). Only an
\* election that was created more than the longest delay before is told too early.
NoticesAreTrue ==
    /\ \A s \in sent : At(s.of) <= s.at \/ Overflows(s)
    /\ \A t \in timers : At(t.of) <= t.due \/ Overflows(t)

\* A notice of an election is in one place at a time: with a request, with one
\* timer, or sent.
NoticesAreInOnePlace ==
    /\ \A n \in todo : /\ n[1] \in created
                       /\ \A t \in timers \cup sent : t.of # n
    /\ \A t \in timers : /\ t.of[1] \in created
                         /\ \A s \in sent : s.of # t.of
    /\ \A s \in sent : s.of[1] \in created
    /\ \A t, u \in timers : t.of = u.of => t = u
    /\ \A r, s \in sent : r.of = s.of => r = s

\* Whatever is saved late, fails or is restarted, nobody is told twice.
NobodyIsToldTwice == \A n \in Notice : Cardinality(SentAt(n)) <= 1

\* What a client may find in its list of notifications was sent to those that
\* were connected (notifications.ts:44-50, in that order).
StoredWasSent == \A n \in saving \cup stored : SentAt(n) # {} /\ n[2] # "closed"

\* The invariant: what is sent is true, unless its delay was too long for a timer,
\* it is sent once, and what is saved was sent.
NotificationsInv ==
    /\ NotificationsTypeOK
    /\ NoticesAreInOnePlace
    /\ NoticesAreTrue
    /\ NobodyIsToldTwice
    /\ StoredWasSent

\* Every election is notified, and what is for the list is found there (the
\* closing is for the pages only). report-asw.tex:104: "Users are notified whenever
\* a new election opens and is about to close." One whose delay is too long for a
\* timer is sent as well, but at once.
EveryNoticeIsSent ==
    \A n \in Notice :
        n[1] \in created ~> \/ SentAt(n) # {} /\ (n[2] = "closed" \/ n \in stored)
                            \/ faults > 0
=============================================================================
