------------------------- MODULE NotificationsPage -------------------------
(***************************************************************************)
(* The notifications in the browser of one user: the count of the navbar,  *)
(* the page that lists them, and what marks them as read.                  *)
(*                                                                         *)
(* Every link of the application loads the page again. App.vue asks for    *)
(* the list once it is mounted; the router asks for it before it enters    *)
(* the page of the notifications; that page marks what is new as read,     *)
(* and does all of it again whenever the count rises. Each of these is a   *)
(* task: they run at once, and nothing tells them apart.                   *)
(***************************************************************************)
EXTENDS Naturals, FiniteSets

CONSTANTS
    Note,       \* notifications
    Task        \* tasks of the browser that may be at work at once

CONSTANTS       \* bounds of the model
    MaxLoads,   \* times that a page is loaded
    MaxFaults   \* requests that fail: for the list, or for a mark

ASSUME PageAssumption ==
    /\ IsFiniteSet(Note)
    /\ MaxLoads \in Nat /\ MaxFaults \in Nat

VARIABLES
    sent,       \* what the service has sent to whoever is connected
    stored,     \* Notification: what it has saved
    marked,     \* ReadNotification: what the user has read
    place,      \* "page", "entering" or "view": where the browser is
    connected,  \* the socket is connected
    wire,       \* events on their way to the browser
    unread,     \* unreadNotifications
    list,       \* notifications: [all, new]
    task,       \* task[t]: what it does and what it has so far
    shown,      \* notifications that the user has seen listed
    missed,     \* the last list that was asked for since the count rose was not had
    loads, faults

vars == <<sent, stored, marked, place, connected, wire, unread, list, task,
          shown, missed, loads, faults>>
service == <<sent, stored, marked>>
browser == <<place, connected, wire, unread, list, task, shown, missed>>

Idle == [kind |-> "idle", at |-> "idle", found |-> {}, all |-> {}, read |-> {}, todo |-> {}]
Asks(kind) == [Idle EXCEPT !.kind = kind, !.at = "asked"]

----------------------------------------------------------------------------
(* The service *)

\* emitNotification sends to those that are connected ...
Send(n) ==
    /\ n \notin sent
    /\ sent' = sent \cup {n}
    /\ wire' = IF connected THEN wire \cup {n} ELSE wire
    /\ UNCHANGED <<stored, marked, place, connected, unread, list, task, shown, missed,
                   loads, faults>>

\* ... and saves.
Store(n) ==
    /\ n \in sent \ stored
    /\ stored' = stored \cup {n}
    /\ UNCHANGED <<sent, marked, browser, loads, faults>>

\* getNotificationsForUser makes two queries at once, of all and of the read.
Find(t, what) ==
    /\ task[t].at = "asked" /\ what \notin task[t].found
    /\ task' = [task EXCEPT ![t].found = @ \cup {what},
                            ![t].all = IF what = "all" THEN stored ELSE @,
                            ![t].read = IF what = "read" THEN marked ELSE @]
    /\ UNCHANGED <<service, place, connected, wire, unread, list, shown, missed, loads, faults>>

----------------------------------------------------------------------------
(* The browser *)

\* Mutant of Watched: the count must rise from nothing.
WatchedFirst(count) == place = "view" /\ unread = 0 /\ count > 1

\* The watch of the page of the notifications.
Watched(count) == place = "view" /\ count # unread /\ count > 0

\* The count changes, and `tasks' are the tasks; one more starts if need be.
Counts(count, tasks) ==
    /\ unread' = count
    /\ IF Watched(count)
       THEN LET idle == { u \in Task : tasks[u].at = "idle" }
            IN  /\ idle # {}
                /\ task' = [tasks EXCEPT ![CHOOSE u \in idle : TRUE] = Asks("watch")]
                /\ missed' = FALSE
       ELSE task' = tasks /\ missed' = missed

\* A page is loaded: the application starts anew.
Load(to) ==
    /\ loads < MaxLoads
    /\ loads' = loads + 1
    /\ place' = to /\ connected' = FALSE /\ wire' = {}
    /\ unread' = 0 /\ list' = [all |-> {}, new |-> {}] /\ missed' = FALSE
    /\ LET app   == CHOOSE t \in Task : TRUE
           guard == CHOOSE t \in Task : t # app
       IN  task' = [t \in Task |->
              CASE t = app -> Asks("app")
                [] t = guard /\ to = "entering" -> Asks("guard")
                [] OTHER -> Idle]
    /\ UNCHANGED <<service, shown, faults>>

Connect ==
    /\ loads > 0 /\ ~connected
    /\ connected' = TRUE
    /\ UNCHANGED <<service, place, wire, unread, list, task, shown, missed, loads, faults>>

\* "new-notification": one more, and a toast.
Event(n) ==
    /\ n \in wire
    /\ wire' = wire \ {n}
    /\ Counts(unread + 1, task)
    /\ UNCHANGED <<service, place, connected, list, shown, loads, faults>>

\* The answer of getAllNotifications. App.vue asks for no more; the page of
\* the notifications goes on with readNotifications; the router, to the page.
Answer(t) ==
    /\ task[t].at = "asked" /\ task[t].found = {"all", "read"}
    /\ LET all == task[t].all
           new == all \ task[t].read
           next == [task EXCEPT ![t] = CASE @.kind = "app"   -> Idle
                      [] @.kind = "guard" -> [Idle EXCEPT !.kind = "guard", !.at = "enter"]
                      [] @.kind = "watch" ->
                              [Idle EXCEPT !.kind = "watch", !.at = "read", !.todo = new]]
       IN  /\ list' = [all |-> all, new |-> new]
           /\ shown' = IF place = "view" THEN shown \cup all ELSE shown
           /\ Counts(Cardinality(new), next)
    /\ UNCHANGED <<service, place, connected, wire, loads, faults>>

\* The list cannot be had. App.vue writes the error down and the router does not
\* enter the page; the watch of the page ends, and leaves the count as it is.
FailFind(t) ==
    /\ task[t].at = "asked"
    /\ faults < MaxFaults
    /\ faults' = faults + 1
    /\ task' = [task EXCEPT ![t] = Idle]
    /\ missed' = (missed \/ task[t].kind = "watch")
    /\ UNCHANGED <<service, place, connected, wire, unread, list, shown, loads>>

\* Mutant of Enter: the page waits for the count to change.
EnterOnly(t) ==
    /\ task[t].at = "enter"
    /\ place' = "view"
    /\ shown' = shown \cup list.all
    /\ task' = [task EXCEPT ![t] = Idle]
    /\ UNCHANGED <<service, connected, wire, unread, list, missed, loads, faults>>

\* The page of the notifications is mounted, and reads.
Enter(t) ==
    /\ task[t].at = "enter"
    /\ place' = "view"
    /\ shown' = shown \cup list.all
    /\ task' = [task EXCEPT ![t].at = "read", ![t].todo = list.new]
    /\ UNCHANGED <<service, connected, wire, unread, list, missed, loads, faults>>

\* readNotifications: one request after the other. A mark that is there
\* already is refused by the index, and the error is caught.
Put(t, n) ==
    /\ task[t].at = "read" /\ n \in task[t].todo
    /\ marked' = marked \cup {n}
    /\ task' = [task EXCEPT ![t].todo = @ \ {n}]
    /\ UNCHANGED <<sent, stored, place, connected, wire, unread, list, shown, missed, loads, faults>>

\* So is the error of a request that fails.
FailPut(t, n) ==
    /\ task[t].at = "read" /\ n \in task[t].todo
    /\ faults < MaxFaults
    /\ faults' = faults + 1
    /\ task' = [task EXCEPT ![t].todo = @ \ {n}]
    /\ UNCHANGED <<service, place, connected, wire, unread, list, shown, missed, loads>>

\* Whatever was marked, nothing is unread.
Done(t) ==
    /\ task[t].at = "read" /\ task[t].todo = {}
    /\ unread' = 0 /\ missed' = FALSE
    /\ task' = [task EXCEPT ![t] = Idle]
    /\ UNCHANGED <<service, place, connected, wire, list, shown, loads, faults>>

----------------------------------------------------------------------------

Init ==
    /\ sent = {} /\ stored = {} /\ marked = {}
    /\ place = "page" /\ connected = FALSE /\ wire = {}
    /\ unread = 0 /\ list = [all |-> {}, new |-> {}]
    /\ task = [t \in Task |-> Idle]
    /\ shown = {} /\ missed = FALSE /\ loads = 0 /\ faults = 0

Next ==
    \/ \E n \in Note : Send(n) \/ Store(n) \/ Event(n)
    \/ \E to \in {"page", "entering"} : Load(to)
    \/ Connect
    \/ \E t \in Task : \/ \E what \in {"all", "read"} : Find(t, what)
                       \/ Answer(t) \/ FailFind(t) \/ Enter(t) \/ Done(t)
                       \/ \E n \in Note : Put(t, n) \/ FailPut(t, n)

Spec == Init /\ [][Next]_vars

\* A task goes on.
Work(t) ==
    \/ \E what \in {"all", "read"} : Find(t, what)
    \/ Answer(t) \/ Enter(t) \/ Done(t)
    \/ \E n \in Note : Put(t, n)

\* The service and the tasks go on; nothing obliges the user.
FairSpec ==
    /\ Spec
    /\ WF_vars(\E n \in Note : Store(n)) /\ WF_vars(\E n \in Note : Event(n))
    /\ \A t \in Task : WF_vars(Work(t))

----------------------------------------------------------------------------
(* Properties *)

Doing ==
    [kind : {"idle", "app", "guard", "watch"}, at : {"idle", "asked", "enter", "read"},
     found : SUBSET {"all", "read"}, all : SUBSET stored, read : SUBSET marked,
     todo : SUBSET stored]

PageTypeOK ==
    /\ marked \subseteq stored /\ stored \subseteq sent /\ sent \subseteq Note
    /\ wire \subseteq sent /\ list.new \subseteq list.all /\ list.all \subseteq stored
    /\ place \in {"page", "entering", "view"} /\ connected \in BOOLEAN
    /\ unread \in 0 .. 2 * Cardinality(Note)
    /\ task \in [Task -> Doing]
    /\ shown \subseteq stored /\ missed \in BOOLEAN
    /\ loads \in 0 .. MaxLoads /\ faults \in 0 .. MaxFaults

\* Nothing is at work any more.
Quiet == loads > 0 /\ wire = {} /\ sent = stored /\ \A t \in Task : task[t].at = "idle"

\* Nothing is marked as read that the user has not seen in the list.
MarkedWasShown == marked \subseteq shown

\* Once nothing is at work, the page of the notifications leaves no count, unless
\* the list that it asked for when the count rose last could not be had: the watch
\* of the page (NotificationsView.vue:13-18) catches nothing, and what it leaves
\* stays until the next notification or the next load.
ViewLeavesNoCount == Quiet /\ place = "view" /\ ~missed => unread = 0

\* The count leaves room for what may still arrive: it counts a notification once
\* in the list and once as an event.
RoomForTheEvents ==
    unread + Cardinality(wire \cup (Note \ sent)) <= 2 * Cardinality(Note)

\* What `tasks' do is for what `seen' has, and those of the page of the
\* notifications are there with it.
Orderly(tasks, seen) ==
    \A t \in Task : /\ tasks[t].todo \subseteq seen
                    /\ tasks[t].at = "asked" => tasks[t].kind # "idle"
                    /\ tasks[t].at = "asked" /\ tasks[t].kind = "watch" => place = "view"

\* A task that is going to clear the count.
Attends(it) == it.at = "read" \/ (it.at = "asked" /\ it.kind = "watch")

\* What is being marked was seen, and a count on the page of the notifications is
\* somebody's to clear, or its list was not had.
CountIsAttended ==
    /\ Orderly(task, shown)
    /\ place = "view" /\ unread > 0 /\ ~missed => \E t \in Task : Attends(task[t])

\* The invariant: the marks and the count are of what the user has seen, as far as
\* it can be asked for.
PageInv ==
    /\ PageTypeOK
    /\ RoomForTheEvents
    /\ CountIsAttended
    /\ MarkedWasShown
    /\ ViewLeavesNoCount

\* Whoever goes to the page of the notifications reads those that are there:
\* they are marked in the end, unless the user leaves the page before, the list
\* cannot be had (the router then does not enter the page) or a mark cannot be
\* saved.
VisitReadsAll ==
    \A n \in Note :
        ( /\ place = "entering" /\ n \in stored
          /\ \A t \in Task : task[t].at \in {"idle", "asked"} /\ task[t].found = {} )
            ~> (n \in marked \/ place = "page" \/ faults > 0)
=============================================================================
