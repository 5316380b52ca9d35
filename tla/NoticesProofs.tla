--------------------------- MODULE NoticesProofs ---------------------------
(***************************************************************************)
(* Proofs about the notifications: each is sent once and in its time by    *)
(* the service, and the browser marks as read only what was shown.         *)
(***************************************************************************)
EXTENDS Notices, FiniteSetTheorems, TLAPS

----------------------------------------------------------------------------
(* The service *)

\* What is inductive whatever the delays are: everything but the times.
ToldInv ==
    /\ Service!NotificationsTypeOK
    /\ Service!NoticesAreInOnePlace
    /\ Service!StoredWasSent

\* The constants, without the module they are parameters of.
LEMMA ServiceConstants ==
    /\ Start \in [Election -> Nat] /\ End \in [Election -> Nat]
    /\ noticeTime \in Nat /\ MaxDelay \in Nat
    /\ MaxTime \in Nat /\ MaxStops \in Nat /\ MaxCreated \in Nat
  BY ServiceAssumption DEF Service!NotificationsAssumption

\* The time of a notice is a number, and its timer rings then or at once.
LEMMA DueIsNow ==
    ASSUME NEW n \in Service!Notice, now \in Nat
    PROVE  /\ Service!At(n) \in Int
           /\ Service!Due(n) \in Nat
           /\ Service!At(n) - now <= MaxDelay => Service!At(n) <= Service!Due(n)
<1>1. n[1] \in Election /\ n[2] \in {"closing", "closed", "opening"}
  BY DEF Service!Notice, Service!Kind
<1>2. Start[n[1]] \in Nat /\ End[n[1]] \in Nat /\ noticeTime \in Nat /\ MaxDelay \in Nat
  BY <1>1, ServiceConstants
<1>3. Service!At(n) \in Int
  BY <1>1, <1>2 DEF Service!At
<1> QED
  BY <1>2, <1>3 DEF Service!Due

\* A notice that was sent is one that a timer or a request does not have.
LEMMA SentAtIsOfTheSent ==
    ASSUME NEW n
    PROVE  Service!SentAt(n) # {} <=> \E s \in notices : s.of = n
  BY DEF Service!SentAt

\* The new election is in no place yet.
LEMMA CreateKeepsTold ==
    ASSUME ToldInv, NEW e \in Election, Service!Create(e)
    PROVE  ToldInv'
<1>1. Service!NotificationsTypeOK'
  BY DEF ToldInv, Service!NotificationsTypeOK, Service!Create, Service!Notice
<1>2. Service!NoticesAreInOnePlace'
  <2>1. ASSUME NEW n \in {e} \X Service!Kind
        PROVE  n[1] = e /\ \A t \in timers \cup notices : t.of # n
    BY DEF ToldInv, Service!NoticesAreInOnePlace, Service!Create
  <2> QED
    BY <2>1 DEF ToldInv, Service!NoticesAreInOnePlace, Service!Create
<1>3. Service!StoredWasSent'
  BY DEF ToldInv, Service!StoredWasSent, Service!SentAt, Service!Create
<1> QED
  BY <1>1, <1>2, <1>3 DEF ToldInv

\* A notice goes from the request to its timer.
LEMMA ScheduleKeepsTold ==
    ASSUME ToldInv, NEW n \in Service!Notice, Service!Schedule(n)
    PROVE  ToldInv'
<1>1. now \in Nat
  BY ServiceConstants DEF ToldInv, Service!NotificationsTypeOK
<1>2. Service!NotificationsTypeOK'
  BY <1>1, DueIsNow DEF ToldInv, Service!NotificationsTypeOK, Service!Schedule, Service!MaySave
<1>3. Service!NoticesAreInOnePlace'
  BY DEF ToldInv, Service!NoticesAreInOnePlace, Service!Schedule, Service!MaySave
<1>4. Service!StoredWasSent'
  BY DEF ToldInv, Service!StoredWasSent, Service!SentAt, Service!Schedule
<1> QED
  BY <1>2, <1>3, <1>4 DEF ToldInv

\* A notice goes from its timer to those that are connected.
LEMMA FireKeepsTold ==
    ASSUME ToldInv, NEW t \in timers, Service!Fire(t)
    PROVE  ToldInv'
<1>1. t.of \in Service!Notice
  BY DEF ToldInv, Service!NotificationsTypeOK
<1>2. Service!NotificationsTypeOK'
  BY <1>1 DEF ToldInv, Service!NotificationsTypeOK, Service!Fire
<1>3. Service!NoticesAreInOnePlace'
  BY DEF ToldInv, Service!NoticesAreInOnePlace, Service!Fire
<1>4. Service!StoredWasSent'
  <2>1. \A n : Service!SentAt(n) # {} => Service!SentAt(n)' # {}
    BY DEF Service!SentAt, Service!Fire
  <2>2. Service!SentAt(t.of)' # {}
    <3>1. [of |-> t.of, set |-> t.set, at |-> now] \in notices'
      BY DEF Service!Fire
    <3>2. [of |-> t.of, set |-> t.set, at |-> now].at \in Service!SentAt(t.of)'
      BY <3>1 DEF Service!SentAt
    <3> QED
      BY <3>2
  <2> QED
    BY <2>1, <2>2 DEF ToldInv, Service!StoredWasSent, Service!Fire
<1> QED
  BY <1>2, <1>3, <1>4 DEF ToldInv

\* The other steps put no notice anywhere but among the saved.
LEMMA RestKeepsTold ==
    ASSUME ToldInv,
           \/ \E n \in Service!Notice : Service!FailSchedule(n) \/ Service!Store(n)
           \/ Service!Restart \/ Service!Tick \/ UNCHANGED serving
    PROVE  ToldInv'
<1>1. /\ todo' \subseteq todo /\ timers' \subseteq timers /\ notices' = notices
      /\ created' = created /\ scheduled' = scheduled
      /\ saving' \cup saved' \subseteq saving \cup saved
      /\ now' \in {now} \cup (IF now < MaxTime THEN {now + 1} ELSE {})
      /\ failures' \in {failures} \cup (IF failures < MaxStops THEN {failures + 1} ELSE {})
  BY DEF Service!FailSchedule, Service!Store, Service!Restart, Service!Tick,
         Service!process, serving
<1>2. Service!NotificationsTypeOK'
  BY <1>1, ServiceConstants DEF ToldInv, Service!NotificationsTypeOK
<1>3. Service!NoticesAreInOnePlace'
  BY <1>1 DEF ToldInv, Service!NoticesAreInOnePlace
<1>4. Service!StoredWasSent'
  BY <1>1 DEF ToldInv, Service!StoredWasSent, Service!SentAt
<1> QED
  BY <1>2, <1>3, <1>4 DEF ToldInv

\* At first nothing is told.
LEMMA ToldInitially == Service!Init => ToldInv
  BY ServiceConstants DEF Service!Init, ToldInv, Service!NotificationsTypeOK,
       Service!NoticesAreInOnePlace, Service!StoredWasSent

\* No step tells a notice twice, or saves one that was not sent.
LEMMA ToldNext == ToldInv /\ [Service!Next]_(Service!vars) => ToldInv'
  BY CreateKeepsTold, ScheduleKeepsTold, FireKeepsTold, RestKeepsTold
  DEF Service!Next, Service!vars, serving

\* The cardinality of the instance is that of FiniteSets.
LEMMA SameCount == \A S : Service!Cardinality(S) = Cardinality(S)
  BY DEF Service!Cardinality, Cardinality

\* What is in one place is sent once.
LEMMA SentOnceIsToldOnce == ToldInv => Service!NobodyIsToldTwice
<1> SUFFICES ASSUME ToldInv, NEW n \in Service!Notice
             PROVE  Service!Cardinality(Service!SentAt(n)) <= 1
  BY DEF Service!NobodyIsToldTwice
<1>1. CASE Service!SentAt(n) = {}
  BY <1>1, FS_EmptySet, SameCount
<1>2. CASE \E s \in notices : Service!SentAt(n) = {s.at}
  BY <1>2, FS_Singleton, SameCount
<1> QED
  BY <1>1, <1>2 DEF ToldInv, Service!NoticesAreInOnePlace, Service!SentAt

\* Whatever the dates are, and whatever is late, fails or is restarted, a notice is
\* sent at most once, and what is saved for the users was sent to those that were
\* connected.
THEOREM NoticesAreToldOnce ==
    Service!Spec => [](Service!NobodyIsToldTwice /\ Service!StoredWasSent)
<1>1. ToldInv => Service!NobodyIsToldTwice /\ Service!StoredWasSent
  BY SentOnceIsToldOnce DEF ToldInv
<1> QED
  BY <1>1, ToldInitially, ToldNext, PTL DEF Service!Spec

\* A timer is not early, unless the delay of its notice was too long.
LEMMA NoticesStayTrue ==
    ASSUME ToldInv, Service!NoticesAreTrue, [Service!Next]_(Service!vars)
    PROVE  Service!NoticesAreTrue'
<1>1. now \in Nat /\ MaxDelay \in Nat
  BY ServiceConstants DEF ToldInv, Service!NotificationsTypeOK
<1>2. CASE \E n \in Service!Notice : Service!Schedule(n)
  <2>1. PICK n \in Service!Notice : Service!Schedule(n)
    BY <1>2
  <2>2. PICK t : t = [of |-> n, set |-> now, due |-> Service!Due(n)]
    OBVIOUS
  <2>3. Service!At(t.of) <= t.due \/ Service!Overflows(t)
    BY <1>1, <2>2, DueIsNow DEF Service!Overflows
  <2>4. timers' = timers \cup {t} /\ notices' = notices
    BY <2>1, <2>2 DEF Service!Schedule
  <2> QED
    BY <2>3, <2>4 DEF Service!NoticesAreTrue, Service!Overflows
<1>3. CASE \E t \in timers : Service!Fire(t)
  <2>1. PICK t \in timers : Service!Fire(t)
    BY <1>3
  <2>2. t.of \in Service!Notice /\ t.due \in Nat /\ Service!At(t.of) \in Int /\ t.due <= now
    BY <1>1, <2>1, DueIsNow DEF ToldInv, Service!NotificationsTypeOK, Service!Fire
  <2>3. PICK s : s = [of |-> t.of, set |-> t.set, at |-> now]
    OBVIOUS
  <2>4. Service!At(s.of) <= s.at \/ Service!Overflows(s)
    BY <1>1, <2>2, <2>3 DEF Service!NoticesAreTrue, Service!Overflows
  <2>5. timers' \subseteq timers /\ notices' = notices \cup {s}
    BY <2>1, <2>3 DEF Service!Fire
  <2> QED
    BY <2>4, <2>5 DEF Service!NoticesAreTrue, Service!Overflows
<1>4. CASE timers' \subseteq timers /\ notices' = notices
  BY <1>4 DEF Service!NoticesAreTrue, Service!Overflows
<1>5. \/ \E n \in Service!Notice : Service!Schedule(n)
      \/ \E t \in timers : Service!Fire(t)
      \/ timers' \subseteq timers /\ notices' = notices
  BY DEF Service!Next, Service!vars, Service!Create, Service!FailSchedule, Service!Store,
         Service!Restart, Service!Tick, Service!process
<1> QED
  BY <1>2, <1>3, <1>4, <1>5

\* For all dates, delays, failures and restarts: a notice is sent once and when it is
\* true, of an election that has opened, that has closed, or that is about to close;
\* only one whose delay setTimeout could not represent when its timer was started is
\* told before.
THEOREM NoticesAreInTime == Service!Spec => []NotificationsInv
<1>1. Service!Init => Service!NoticesAreTrue
  BY DEF Service!Init, Service!NoticesAreTrue
<1>2. /\ ToldInv /\ Service!NoticesAreTrue /\ [Service!Next]_(Service!vars)
      => (ToldInv /\ Service!NoticesAreTrue)'
  BY NoticesStayTrue, ToldNext
<1>3. ToldInv /\ Service!NoticesAreTrue => NotificationsInv
  BY SentOnceIsToldOnce DEF ToldInv, NotificationsInv, Service!NotificationsInv
<1> QED
  BY <1>1, <1>2, <1>3, ToldInitially, PTL DEF Service!Spec

----------------------------------------------------------------------------
(* The browser *)

\* The sizes of the sets of notifications.
LEMMA NotesAreFinite ==
    /\ Cardinality(Note) \in Nat
    /\ Cardinality({}) = 0
    /\ \A S \in SUBSET Note : /\ IsFiniteSet(S) /\ Cardinality(S) \in Nat
                              /\ Cardinality(S) <= Cardinality(Note)
                              /\ \A T \in SUBSET S : Cardinality(T) <= Cardinality(S)
                              /\ \A n \in S : Cardinality(S \ {n}) = Cardinality(S) - 1
  BY FS_EmptySet, FS_Subset, FS_CardinalityType, FS_RemoveElement, PageAssumption

\* What is inductive: the rest of PageInv follows.
BrowserInv ==
    /\ PageTypeOK
    /\ RoomForTheEvents
    /\ CountIsAttended
    /\ MarkedWasShown

\* A count that somebody attends to is no count when nobody is at work.
LEMMA AttendedLeavesNoCount == BrowserInv => PageInv
<1>1. ASSUME BrowserInv, Quiet, place = "view", ~missed
      PROVE  unread = 0
  <2>1. unread \in Nat
    BY <1>1, NotesAreFinite DEF BrowserInv, PageTypeOK
  <2> QED
    BY <1>1, <2>1 DEF BrowserInv, CountIsAttended, Attends, Quiet
<1> QED
  BY <1>1 DEF BrowserInv, PageInv, ViewLeavesNoCount

\* A task that starts, and one that ends.
LEMMA StartsAndEnds ==
    /\ Idle \in Doing
    /\ \A kind \in {"app", "guard", "watch"} :
         /\ Asks(kind) \in Doing /\ Asks(kind).at = "asked"
         /\ Asks(kind).kind = kind /\ Asks(kind).todo = {}
    /\ Idle.at = "idle" /\ Idle.todo = {}
  BY DEF Idle, Asks, Doing

\* A task of the page goes on as it should, whatever the other tasks do.
LEMMA TaskIsOrderly ==
    ASSUME BrowserInv, NEW t \in Task
    PROVE  /\ task[t].todo \subseteq shown
           /\ task[t].at = "asked" => task[t].kind # "idle"
           /\ task[t].at = "asked" /\ task[t].kind = "watch" => place = "view"
<1>1. Orderly(task, shown)
  BY DEF BrowserInv, CountIsAttended
<1> QED
  BY <1>1, Zenon DEF Orderly

\* The count has changed: whatever it is, somebody attends to it, or did not have
\* the list.
LEMMA CountsIsAttended ==
    ASSUME NEW count \in Nat, NEW tasks \in [Task -> Doing], NEW seen,
           Orderly(tasks, seen), Counts(count, tasks),
           place = "view" /\ count = unread /\ count > 0 /\ ~missed
             => \E t \in Task : Attends(tasks[t]),
           missed \in BOOLEAN
    PROVE  /\ unread' = count /\ task' \in [Task -> Doing] /\ Orderly(task', seen)
           /\ missed' \in BOOLEAN
           /\ place = "view" /\ count > 0 /\ ~missed' => \E t \in Task : Attends(task'[t])
<1>1. CASE ~Watched(count)
  BY <1>1 DEF Counts, Watched
<1>2. CASE Watched(count)
  <2>1. PICK u \in Task : task' = [tasks EXCEPT ![u] = Asks("watch")]
    BY <1>2 DEF Counts
  <2>2. task'[u] = Asks("watch") /\ \A t \in Task \ {u} : task'[t] = tasks[t]
    BY <2>1
  <2>3. task' \in [Task -> Doing]
    BY <2>1, StartsAndEnds
  <2>4. Orderly(task', seen)
    BY <1>2, <2>2, StartsAndEnds DEF Orderly, Watched
  <2> QED
    BY <1>2, <2>2, <2>3, <2>4, StartsAndEnds DEF Counts, Attends
<1> QED
  BY <1>1, <1>2

\* The service sends or saves.
LEMMA ServiceKeepsBrowser ==
    ASSUME BrowserInv, NEW n \in Note, Send(n) \/ Store(n)
    PROVE  BrowserInv'
<1>1. Doing \subseteq Doing'
  BY DEF BrowserInv, PageTypeOK, Doing, Send, Store
<1>2. PageTypeOK'
  BY <1>1 DEF BrowserInv, PageTypeOK, Send, Store, browser
<1>3. RoomForTheEvents'
  <2>1. wire' \cup (Note \ sent') \subseteq wire \cup (Note \ sent)
    BY DEF Send, Store, browser
  <2>2. wire \cup (Note \ sent) \in SUBSET Note
    BY DEF BrowserInv, PageTypeOK
  <2>3. unread' = unread /\ unread \in Nat
    BY NotesAreFinite DEF BrowserInv, PageTypeOK, Send, Store, browser
  <2> QED
    BY <2>1, <2>2, <2>3, NotesAreFinite DEF BrowserInv, RoomForTheEvents
<1>4. CountIsAttended' /\ MarkedWasShown'
  BY DEF BrowserInv, CountIsAttended, MarkedWasShown, Orderly, Send, Store, browser
<1> QED
  BY <1>2, <1>3, <1>4 DEF BrowserInv

\* A page is loaded: no count and no mark is left of the page before.
LEMMA LoadKeepsBrowser ==
    ASSUME BrowserInv, NEW to \in {"page", "entering"}, Load(to)
    PROVE  BrowserInv'
<1>1. task' \in [Task -> Doing] /\ Doing' = Doing
  BY StartsAndEnds DEF Load, Doing, service
<1>2. \A t \in Task : task'[t] \in {Idle, Asks("app"), Asks("guard")}
  <2> DEFINE app   == CHOOSE t \in Task : TRUE
             guard == CHOOSE t \in Task : t # app
             does(t) == CASE t = app -> Asks("app")
                          [] t = guard /\ to = "entering" -> Asks("guard")
                          [] OTHER -> Idle
  <2>1. task' = [t \in Task |-> does(t)]
    BY Zenon DEF Load
  <2>2. ASSUME NEW t \in Task PROVE does(t) \in {Idle, Asks("app"), Asks("guard")}
    <3> HIDE DEF app, guard
    <3> QED
      OBVIOUS
  <2>3. \A t \in Task : task'[t] = does(t)
    BY <2>1, Zenon
  <2> HIDE DEF does
  <2> QED
    BY <2>2, <2>3, Zenon
<1>3. PageTypeOK'
  <2>1. /\ place' \in {"page", "entering", "view"} /\ connected' \in BOOLEAN /\ wire' = {}
        /\ unread' = 0 /\ missed' \in BOOLEAN /\ list'.new = {} /\ list'.all = {}
        /\ UNCHANGED <<sent, stored, marked, shown, faults>>
    BY DEF Load, service
  <2>2. loads' \in 0 .. MaxLoads
    BY PageAssumption DEF BrowserInv, PageTypeOK, Load
  <2> QED
    BY <1>1, <2>1, <2>2, NotesAreFinite DEF BrowserInv, PageTypeOK
<1>4. RoomForTheEvents'
  <2>1. wire' \cup (Note \ sent') \in SUBSET Note /\ unread' = 0
    BY DEF BrowserInv, PageTypeOK, Load, service
  <2> QED
    BY <2>1, NotesAreFinite DEF RoomForTheEvents
<1>5. CountIsAttended'
  BY <1>2, StartsAndEnds DEF Load, CountIsAttended, Orderly
<1>6. MarkedWasShown'
  BY DEF BrowserInv, MarkedWasShown, Load, service
<1> QED
  BY <1>3, <1>4, <1>5, <1>6 DEF BrowserInv

\* An event arrives: the count rises, and somebody attends to it.
LEMMA EventKeepsBrowser ==
    ASSUME BrowserInv, NEW n \in Note, Event(n)
    PROVE  BrowserInv'
<1>1. unread \in Nat /\ unread + 1 \in Nat /\ unread + 1 # unread
  BY NotesAreFinite DEF BrowserInv, PageTypeOK
<1>2. /\ unread' = unread + 1 /\ task' \in [Task -> Doing] /\ Orderly(task', shown)
      /\ missed' \in BOOLEAN
      /\ place = "view" /\ ~missed' => \E t \in Task : Attends(task'[t])
  BY <1>1, CountsIsAttended DEF BrowserInv, PageTypeOK, CountIsAttended, Event
<1>3. RoomForTheEvents' /\ unread' <= 2 * Cardinality(Note)
  <2>1. /\ n \in wire \cup (Note \ sent)
        /\ wire' \cup (Note \ sent') = (wire \cup (Note \ sent)) \ {n}
        /\ wire \cup (Note \ sent) \in SUBSET Note
    BY DEF BrowserInv, PageTypeOK, Event, service
  <2>2. /\ Cardinality(wire' \cup (Note \ sent')) = Cardinality(wire \cup (Note \ sent)) - 1
        /\ Cardinality(wire \cup (Note \ sent)) \in Nat
        /\ Cardinality(wire' \cup (Note \ sent')) \in Nat
    BY <2>1, NotesAreFinite
  <2> QED
    BY <1>1, <1>2, <2>2, NotesAreFinite DEF BrowserInv, RoomForTheEvents
<1>4. PageTypeOK'
  BY <1>1, <1>2, <1>3, NotesAreFinite DEF BrowserInv, PageTypeOK, Doing, Event, service
<1>5. CountIsAttended' /\ MarkedWasShown'
  BY <1>2 DEF BrowserInv, CountIsAttended, MarkedWasShown, Orderly, Event, service
<1> QED
  BY <1>3, <1>4, <1>5 DEF BrowserInv

\* A task has its answer: what is new is counted, and what is to be marked is shown.
LEMMA AnswerKeepsBrowser ==
    ASSUME BrowserInv, NEW t \in Task, Answer(t)
    PROVE  BrowserInv'
<1> DEFINE all == task[t].all
           new == all \ task[t].read
           after == [task EXCEPT ![t] = CASE @.kind = "app"   -> Idle
                       [] @.kind = "guard" -> [Idle EXCEPT !.kind = "guard", !.at = "enter"]
                       [] @.kind = "watch" -> [Idle EXCEPT !.kind = "watch", !.at = "read", !.todo = new]]
<1>1. /\ task[t] \in Doing /\ task[t].at = "asked" /\ task[t].kind \in {"app", "guard", "watch"}
      /\ task[t].kind = "watch" => place = "view"
  <2>1. task[t] \in Doing
    BY DEF BrowserInv, PageTypeOK
  <2>2. task[t].at = "asked"
    BY DEF Answer
  <2>3. task[t].kind # "idle" /\ (task[t].kind = "watch" => place = "view")
    BY <2>2, TaskIsOrderly
  <2>4. task[t].kind \in {"idle", "app", "guard", "watch"}
    BY <2>1 DEF Doing
  <2> QED
    BY <2>1, <2>2, <2>3, <2>4
<1>2. /\ all \subseteq stored /\ new \subseteq all /\ all \in SUBSET Note
      /\ Cardinality(new) \in Nat /\ Cardinality(new) <= Cardinality(Note)
  <2>1. all \subseteq stored /\ stored \subseteq Note
    BY <1>1 DEF BrowserInv, PageTypeOK, Doing
  <2> QED
    BY <2>1, NotesAreFinite
<1>3. /\ list' = [all |-> all, new |-> new]
      /\ shown' = IF place = "view" THEN shown \cup all ELSE shown
      /\ Counts(Cardinality(new), after)
      /\ UNCHANGED <<sent, stored, marked, place, connected, wire, loads, faults>>
  BY DEF Answer, service
<1>4. /\ after \in [Task -> Doing]
      /\ \A u \in Task \ {t} : after[u] = task[u]
      /\ \/ after[t] = Idle /\ task[t].kind = "app"
         \/ after[t].kind = "guard" /\ after[t].at = "enter" /\ after[t].todo = {}
              /\ task[t].kind = "guard"
         \/ after[t].kind = "watch" /\ after[t].at = "read" /\ after[t].todo = new
              /\ task[t].kind = "watch"
  <2>1. CASE task[t].kind = "app"
    <3>1. after = [task EXCEPT ![t] = Idle]
      BY <2>1
    <3> QED
      BY <2>1, <3>1, StartsAndEnds DEF BrowserInv, PageTypeOK
  <2>2. CASE task[t].kind = "guard"
    <3>1. PICK it : it = [Idle EXCEPT !.kind = "guard", !.at = "enter"]
      OBVIOUS
    <3>2. after = [task EXCEPT ![t] = it]
      BY <2>2, <3>1
    <3>3. it \in Doing /\ it.kind = "guard" /\ it.at = "enter" /\ it.todo = {}
      BY <3>1 DEF Idle, Doing
    <3> QED
      BY <2>2, <3>2, <3>3 DEF BrowserInv, PageTypeOK
  <2>3. CASE task[t].kind = "watch"
    <3>1. PICK it : it = [Idle EXCEPT !.kind = "watch", !.at = "read", !.todo = new]
      OBVIOUS
    <3>2. after = [task EXCEPT ![t] = it]
      BY <2>3, <3>1
    <3>3. it \in Doing /\ it.kind = "watch" /\ it.at = "read" /\ it.todo = new
      BY <1>2, <3>1 DEF Idle, Doing
    <3> QED
      BY <2>3, <3>2, <3>3 DEF BrowserInv, PageTypeOK
  <2> QED
    BY <1>1, <2>1, <2>2, <2>3
<1> HIDE DEF all, new, after
<1>5. Orderly(after, shown')
  BY <1>1, <1>2, <1>3, <1>4, StartsAndEnds DEF BrowserInv, CountIsAttended, Orderly
<1>6. place = "view" /\ Cardinality(new) = unread /\ Cardinality(new) > 0 /\ ~missed
      => \E u \in Task : Attends(after[u])
  <2> SUFFICES ASSUME place = "view", unread > 0, ~missed
               PROVE  \E u \in Task : Attends(after[u])
    OBVIOUS
  <2>1. PICK u \in Task : Attends(task[u])
    BY DEF BrowserInv, CountIsAttended
  <2>2. CASE u = t
    BY <1>1, <1>4, <2>1, <2>2 DEF Attends
  <2>3. CASE u # t
    BY <1>4, <2>1, <2>3
  <2> QED
    BY <2>2, <2>3
<1>7. /\ unread' = Cardinality(new) /\ task' \in [Task -> Doing] /\ Orderly(task', shown')
      /\ missed' \in BOOLEAN
      /\ place = "view" /\ Cardinality(new) > 0 /\ ~missed' => \E u \in Task : Attends(task'[u])
  <2>1. PICK s : s = shown'
    OBVIOUS
  <2>2. missed \in BOOLEAN
    BY DEF BrowserInv, PageTypeOK
  <2> QED
    BY <1>2, <1>3, <1>4, <1>5, <1>6, <2>1, <2>2, CountsIsAttended
<1>8. shown \subseteq shown' /\ shown' \subseteq stored
  BY <1>2, <1>3 DEF BrowserInv, PageTypeOK
<1>9. PageTypeOK'
  <2>1. Doing' = Doing
    BY <1>3 DEF Doing
  <2>2. list'.new \subseteq list'.all /\ list'.all \subseteq stored
    BY <1>2, <1>3
  <2>3. unread' \in 0 .. 2 * Cardinality(Note)
    BY <1>2, <1>7, NotesAreFinite
  <2> QED
    BY <1>3, <1>7, <1>8, <2>1, <2>2, <2>3 DEF BrowserInv, PageTypeOK
<1>10. RoomForTheEvents'
  <2>1. wire \cup (Note \ sent) \in SUBSET Note
    BY DEF BrowserInv, PageTypeOK
  <2> QED
    BY <1>2, <1>3, <1>7, <2>1, NotesAreFinite DEF RoomForTheEvents
<1>11. CountIsAttended'
  BY <1>3, <1>7 DEF CountIsAttended, Orderly
<1>12. MarkedWasShown'
  BY <1>3, <1>8 DEF BrowserInv, MarkedWasShown
<1> QED
  BY <1>9, <1>10, <1>11, <1>12 DEF BrowserInv

\* One task goes on, and only what it has changes.
LEMMA OneTaskGoesOn ==
    ASSUME BrowserInv, NEW t \in Task, NEW it \in Doing', task' = [task EXCEPT ![t] = it],
           UNCHANGED <<sent, stored, connected, wire, list, loads>>,
           place' = place \/ (place' = "view" /\ Attends(it)),
           marked \subseteq marked', marked' \subseteq shown', shown \subseteq shown',
           shown' \subseteq stored, faults' \in 0 .. MaxFaults, it.todo \subseteq shown',
           it.at = "asked" => it.kind = task[t].kind /\ task[t].at = "asked",
           unread' = unread \/ unread' = 0, missed' \in BOOLEAN, missed => missed' \/ unread' = 0,
           Attends(task[t]) => Attends(it) \/ unread' = 0 \/ missed'
    PROVE  BrowserInv'
<1>1. task' \in [Task -> Doing'] /\ task'[t] = it /\ \A u \in Task \ {t} : task'[u] = task[u]
  <2>1. Doing \subseteq Doing'
    BY DEF Doing
  <2> QED
    BY <2>1 DEF BrowserInv, PageTypeOK
<1>2. marked' \subseteq stored' /\ place' \in {"page", "entering", "view"}
  BY DEF BrowserInv, PageTypeOK
<1>3. unread' \in 0 .. 2 * Cardinality(Note) /\ unread' <= unread /\ unread \in Nat
  BY NotesAreFinite DEF BrowserInv, PageTypeOK
<1>4. PageTypeOK'
  BY <1>1, <1>2, <1>3 DEF BrowserInv, PageTypeOK
<1>5. RoomForTheEvents'
  <2>1. wire \cup (Note \ sent) \in SUBSET Note
    BY DEF BrowserInv, PageTypeOK
  <2>2. Cardinality(wire \cup (Note \ sent)) \in Nat /\ Cardinality(Note) \in Nat
    BY <2>1, NotesAreFinite
  <2> QED
    BY <1>3, <2>2 DEF BrowserInv, RoomForTheEvents
<1>6. Orderly(task, shown)'
  <2> SUFFICES ASSUME NEW u \in Task
               PROVE  /\ task'[u].todo \subseteq shown'
                      /\ task'[u].at = "asked" => task'[u].kind # "idle"
                      /\ task'[u].at = "asked" /\ task'[u].kind = "watch" => place' = "view"
    BY DEF Orderly
  <2>1. /\ task[u].todo \subseteq shown
        /\ task[u].at = "asked" => task[u].kind # "idle"
        /\ task[u].at = "asked" /\ task[u].kind = "watch" => place = "view"
    BY TaskIsOrderly
  <2>2. CASE u = t
    BY <1>1, <2>1, <2>2
  <2>3. CASE u # t
    BY <1>1, <2>1, <2>3
  <2> QED
    BY <2>2, <2>3
<1>7. ASSUME place' = "view", unread' > 0, ~missed'
      PROVE  \E u \in Task : Attends(task'[u])
  <2>1. CASE Attends(it)
    BY <1>1, <2>1
  <2>2. CASE ~Attends(it)
    <3>1. place = "view" /\ unread > 0 /\ ~missed /\ ~Attends(task[t])
      BY <1>3, <1>7, <2>2
    <3>2. PICK u \in Task : Attends(task[u])
      BY <3>1 DEF BrowserInv, CountIsAttended
    <3>3. task'[u] = task[u]
      BY <1>1, <3>1, <3>2
    <3> QED
      BY <3>2, <3>3
  <2> QED
    BY <2>1, <2>2
<1>8. CountIsAttended'
  BY <1>6, <1>7 DEF CountIsAttended, Attends
<1>9. MarkedWasShown'
  BY DEF MarkedWasShown
<1> QED
  BY <1>4, <1>5, <1>8, <1>9 DEF BrowserInv

\* A query is answered: the task has what is saved, or what is read.
LEMMA FindKeepsBrowser ==
    ASSUME BrowserInv, NEW t \in Task, NEW what \in {"all", "read"}, Find(t, what)
    PROVE  BrowserInv'
<1>1. task[t] \in Doing /\ task[t].todo \subseteq shown /\ task[t].at = "asked"
  BY TaskIsOrderly DEF BrowserInv, PageTypeOK, Find
<1>2. PICK it : it = [task[t] EXCEPT !.found = @ \cup {what},
                                     !.all = IF what = "all" THEN stored ELSE @,
                                     !.read = IF what = "read" THEN marked ELSE @]
  OBVIOUS
<1>3. it \in Doing /\ it.at = "asked" /\ it.kind = task[t].kind /\ it.todo = task[t].todo
  BY <1>1, <1>2 DEF Doing
<1>4. task' = [task EXCEPT ![t] = it]
  BY <1>2, <1>1 DEF Find, BrowserInv, PageTypeOK, Doing
<1>5. /\ UNCHANGED <<sent, stored, marked, connected, wire, list, loads, place, shown, unread, missed, faults>>
      /\ Doing' = Doing
  BY DEF Find, service, Doing
<1>6. marked \subseteq shown /\ shown \subseteq stored /\ faults \in 0 .. MaxFaults /\ missed \in BOOLEAN
  BY DEF BrowserInv, PageTypeOK, MarkedWasShown
<1>7. Attends(task[t]) => Attends(it)
  BY <1>1, <1>3 DEF Attends
<1> QED
  BY <1>1, <1>3, <1>4, <1>5, <1>6, <1>7, OneTaskGoesOn

\* The list cannot be had: what the watch leaves is missed.
LEMMA FailFindKeepsBrowser ==
    ASSUME BrowserInv, NEW t \in Task, FailFind(t)
    PROVE  BrowserInv'
<1>1. /\ UNCHANGED <<sent, stored, marked, connected, wire, list, loads, place, shown, unread>>
      /\ Doing' = Doing /\ task' = [task EXCEPT ![t] = Idle] /\ task[t].at = "asked"
      /\ missed' = (missed \/ task[t].kind = "watch") /\ faults' = faults + 1 /\ faults < MaxFaults
  BY DEF FailFind, service, Doing
<1>2. marked \subseteq shown /\ shown \subseteq stored /\ missed \in BOOLEAN
  BY DEF BrowserInv, PageTypeOK, MarkedWasShown
<1>3. faults' \in 0 .. MaxFaults
  BY <1>1, PageAssumption DEF BrowserInv, PageTypeOK
<1>4. missed' \in BOOLEAN /\ (missed => missed') /\ (Attends(task[t]) => missed')
  BY <1>1, <1>2 DEF Attends
<1> QED
  BY <1>1, <1>2, <1>3, <1>4, StartsAndEnds, OneTaskGoesOn

\* The page of the notifications is entered: it shows its list and begins to mark it.
LEMMA EnterKeepsBrowser ==
    ASSUME BrowserInv, NEW t \in Task, Enter(t)
    PROVE  BrowserInv'
<1>1. task[t] \in Doing /\ task[t].at = "enter"
  BY DEF BrowserInv, PageTypeOK, Enter
<1>2. PICK it : it = [task[t] EXCEPT !.at = "read", !.todo = list.new]
  OBVIOUS
<1>3. list.new \subseteq list.all /\ list.all \subseteq stored
  BY DEF BrowserInv, PageTypeOK
<1>4. it \in Doing /\ it.at = "read" /\ it.todo = list.new
  BY <1>1, <1>2, <1>3 DEF Doing
<1>5. task' = [task EXCEPT ![t] = it]
  BY <1>2 DEF Enter
<1>6. /\ UNCHANGED <<sent, stored, marked, connected, wire, list, loads, unread, missed, faults>>
      /\ Doing' = Doing /\ place' = "view" /\ shown' = shown \cup list.all
  BY DEF Enter, service, Doing
<1>7. marked \subseteq shown' /\ shown' \subseteq stored /\ faults \in 0 .. MaxFaults /\ missed \in BOOLEAN
  BY <1>3, <1>6 DEF BrowserInv, PageTypeOK, MarkedWasShown
<1>8. Attends(it)
  BY <1>4 DEF Attends
<1> QED
  BY <1>3, <1>4, <1>5, <1>6, <1>7, <1>8, OneTaskGoesOn

\* A mark is saved, or cannot be.
LEMMA PutKeepsBrowser ==
    ASSUME BrowserInv, NEW t \in Task, NEW n \in Note, Put(t, n) \/ FailPut(t, n)
    PROVE  BrowserInv'
<1>1. /\ task[t] \in Doing /\ task[t].at = "read" /\ n \in task[t].todo
      /\ task[t].todo \subseteq shown
  BY TaskIsOrderly DEF BrowserInv, PageTypeOK, Put, FailPut
<1>2. PICK it : it = [task[t] EXCEPT !.todo = @ \ {n}]
  OBVIOUS
<1>3. /\ UNCHANGED <<sent, stored, connected, wire, list, loads, place, shown, unread, missed>>
      /\ marked' \in {marked, marked \cup {n}}
  BY DEF Put, FailPut, service
<1>4. it \in Doing' /\ it.at = "read" /\ it.todo \subseteq task[t].todo
  BY <1>1, <1>2, <1>3 DEF Doing
<1>5. task' = [task EXCEPT ![t] = it]
  BY <1>2 DEF Put, FailPut
<1>6. marked' \subseteq shown /\ shown \subseteq stored /\ missed \in BOOLEAN
  BY <1>1, <1>3 DEF BrowserInv, PageTypeOK, MarkedWasShown
<1>7. faults' \in 0 .. MaxFaults
  BY PageAssumption DEF BrowserInv, PageTypeOK, Put, FailPut
<1>8. Attends(it)
  BY <1>4 DEF Attends
<1> QED
  BY <1>1, <1>3, <1>4, <1>5, <1>6, <1>7, <1>8, OneTaskGoesOn

\* The marks are over: there is no count.
LEMMA DoneKeepsBrowser ==
    ASSUME BrowserInv, NEW t \in Task, Done(t)
    PROVE  BrowserInv'
<1>1. /\ UNCHANGED <<sent, stored, marked, connected, wire, list, loads, place, shown, faults>>
      /\ Doing' = Doing /\ unread' = 0 /\ missed' = FALSE /\ task' = [task EXCEPT ![t] = Idle]
  BY DEF Done, service, Doing
<1>2. marked \subseteq shown /\ shown \subseteq stored /\ faults \in 0 .. MaxFaults /\ missed \in BOOLEAN
  BY DEF BrowserInv, PageTypeOK, MarkedWasShown
<1> QED
  BY <1>1, <1>2, StartsAndEnds, OneTaskGoesOn

\* For all notifications, loads, tasks and failures: what is marked as read was shown,
\* and once nothing is at work the page of the notifications leaves no count, unless
\* the last list that it asked for since the count rose could not be had.
THEOREM MarksAreOfTheShown == Spec => []PageInv
<1>1. Init => BrowserInv
  <2> SUFFICES ASSUME Init PROVE BrowserInv
    OBVIOUS
  <2>1. PageTypeOK
    <3>1. task \in [Task -> Doing]
      BY StartsAndEnds DEF Init
    <3>2. list.new = {} /\ list.all = {} /\ unread = 0 /\ loads = 0 /\ faults = 0
      BY DEF Init
    <3>3. loads \in 0 .. MaxLoads /\ faults \in 0 .. MaxFaults /\ unread \in 0 .. 2 * Cardinality(Note)
      BY <3>2, NotesAreFinite, PageAssumption
    <3>4. /\ sent = {} /\ stored = {} /\ marked = {} /\ shown = {} /\ wire = {}
          /\ place = "page" /\ connected = FALSE /\ missed = FALSE
      BY DEF Init
    <3> QED
      BY <3>1, <3>2, <3>3, <3>4 DEF PageTypeOK
  <2>2. RoomForTheEvents
    BY NotesAreFinite DEF Init, RoomForTheEvents
  <2>3. CountIsAttended /\ MarkedWasShown
    BY StartsAndEnds DEF Init, CountIsAttended, Orderly, MarkedWasShown
  <2> QED
    BY <2>1, <2>2, <2>3 DEF BrowserInv
<1>2. BrowserInv /\ [Next]_vars => BrowserInv'
  <2> SUFFICES ASSUME BrowserInv, [Next]_vars PROVE BrowserInv'
    OBVIOUS
  <2>1. CASE Connect \/ UNCHANGED vars
    <3>1. /\ UNCHANGED <<sent, stored, marked, place, wire, unread, list, task, shown, missed,
                         loads, faults>>
          /\ connected' \in BOOLEAN /\ Doing' = Doing
      BY <2>1 DEF Connect, vars, service, BrowserInv, PageTypeOK, Doing
    <3> QED
      BY <3>1 DEF BrowserInv, PageTypeOK, RoomForTheEvents, CountIsAttended, Orderly,
                  MarkedWasShown
  <2>2. CASE Next
    BY <2>1, <2>2, ServiceKeepsBrowser, EventKeepsBrowser, LoadKeepsBrowser, FindKeepsBrowser,
       AnswerKeepsBrowser, FailFindKeepsBrowser, EnterKeepsBrowser, DoneKeepsBrowser,
       PutKeepsBrowser
    DEF Next
  <2> QED
    BY <2>1, <2>2
<1> QED
  BY <1>1, <1>2, AttendedLeavesNoCount, PTL DEF Spec
=============================================================================
