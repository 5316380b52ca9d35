------------------------------ MODULE Notices ------------------------------
(***************************************************************************)
(* The notifications as one: the service, from the creation of an election *)
(* to what it sends and saves (Notifications), and the browser that lists  *)
(* what was sent (NotificationsPage), as parts that share no state. The    *)
(* browser meets whatever the service may send, in any order.              *)
(***************************************************************************)
EXTENDS NotificationsPage

CONSTANTS
    Election, Start, End, noticeTime, MaxDelay,   \* of Notifications
    MaxTime, MaxStops, MaxCreated

VARIABLES
    now, created, todo, scheduled, timers, notices, saving, saved,
    failures                                      \* of Notifications

serving == <<now, created, todo, scheduled, timers, notices, saving, saved, failures>>

Service == INSTANCE Notifications WITH
             MaxFaults <- MaxStops, sent <- notices, stored <- saved, faults <- failures

ASSUME ServiceAssumption == Service!NotificationsAssumption

----------------------------------------------------------------------------
(* Properties of Notifications *)

\* Notifications.NotificationsInv: what is sent is true of the election at that
\* time, unless its delay was too long for a timer, is told once, and what is saved
\* for a user was sent.
NotificationsInv == Service!NotificationsInv

\* Notifications.EveryNoticeIsSent: every notice of an election is sent and saved,
\* unless something has failed.
EveryNoticeIsSent == Service!EveryNoticeIsSent
=============================================================================
