---------------------------- MODULE Notifications ----------------------------
(***************************************************************************)
(* Notifications and their delivery.  ensureNotification (apps/api) runs   *)
(* inside the transaction of whatever is announced, perhaps again when     *)
(* that is repeated; the communication worker (apps/worker) delivers what  *)
(* is pending, one row at a time and without a transaction, and may be     *)
(* killed anywhere.                                                        *)
(***************************************************************************)
EXTENDS Naturals

CONSTANT Announcements      \* deduplicationKey

VARIABLES
    notification,       \* Notification.status by key, "NONE" before it exists
    archivedAt,         \* Notification.archivedAt is set
    telegram,           \* NotificationDelivery.status of channel TELEGRAM
    attemptCount,       \* NotificationDelivery.attemptCount
    completed,          \* outbox events notification.delivery.completed
    deliveries,         \* what the running job has listed and not yet delivered
    delivering          \* the delivery whose outbox event is still to be written

notificationVars == <<notification, archivedAt, telegram, attemptCount, completed,
                      deliveries, delivering>>

NotificationsInit ==
    /\ notification = [k \in Announcements |-> "NONE"]
    /\ archivedAt = [k \in Announcements |-> FALSE]
    /\ telegram = [k \in Announcements |-> "NONE"]
    /\ attemptCount = [k \in Announcements |-> 0]
    /\ completed = [k \in Announcements |-> 0]
    /\ deliveries = {}
    /\ delivering = {}

\* Both upserts leave what exists alone.  (mutant) the alert is shown again
AnnouncedAgain(status) == "UNREAD"
Announced(status) == IF status = "NONE" THEN "UNREAD" ELSE status

\* Of every route that calls it, and POST /admin/notifications.
ensureNotification(k) ==
    /\ notification' = [notification EXCEPT ![k] = Announced(@)]
    /\ telegram' = [telegram EXCEPT ![k] = IF @ = "NONE" THEN "PENDING" ELSE @]
    /\ UNCHANGED <<archivedAt, attemptCount, completed, deliveries, delivering>>

ReadNotification(k) ==
    /\ notification[k] # "NONE"
    /\ notification' = [notification EXCEPT ![k] = "READ"]
    /\ UNCHANGED <<archivedAt, telegram, attemptCount, completed, deliveries, delivering>>

ReadAllNotifications ==
    /\ notification' = [k \in Announcements |->
           IF notification[k] = "UNREAD" THEN "READ" ELSE notification[k]]
    /\ UNCHANGED <<archivedAt, telegram, attemptCount, completed, deliveries, delivering>>

ArchiveNotification(k) ==
    /\ notification[k] # "NONE"
    /\ notification' = [notification EXCEPT ![k] = "ARCHIVED"]
    /\ archivedAt' = [archivedAt EXCEPT ![k] = TRUE]
    /\ UNCHANGED <<telegram, attemptCount, completed, deliveries, delivering>>

-----------------------------------------------------------------------------
(* communicationWorker                                                     *)

\* (mutant) only rows that failed before
Retrying == {k \in Announcements : telegram[k] = "RETRYING"}
Pending == {k \in Announcements : telegram[k] \in {"PENDING", "RETRYING"}}

ListDeliveries ==
    /\ deliveries = {} /\ delivering = {} /\ Pending # {}
    /\ deliveries' = Pending
    /\ UNCHANGED <<notification, archivedAt, telegram, attemptCount, completed, delivering>>

Deliver(k) ==
    /\ k \in deliveries /\ delivering = {}
    /\ telegram' = [telegram EXCEPT ![k] = "DELIVERED"]
    /\ attemptCount' = [attemptCount EXCEPT ![k] = @ + 1]
    /\ deliveries' = deliveries \ {k}
    /\ delivering' = {k}
    /\ UNCHANGED <<notification, archivedAt, completed>>

DeliveryCompleted(k) ==
    /\ k \in delivering
    /\ completed' = [completed EXCEPT ![k] = @ + 1]
    /\ delivering' = {}
    /\ UNCHANGED <<notification, archivedAt, telegram, attemptCount, deliveries>>

\* The event of the delivery in progress is never written.
CommunicationWorkerCrash ==
    /\ deliveries # {} \/ delivering # {}
    /\ deliveries' = {} /\ delivering' = {}
    /\ UNCHANGED <<notification, archivedAt, telegram, attemptCount, completed>>

CommunicationWorker ==
    \/ ListDeliveries
    \/ \E k \in Announcements : Deliver(k) \/ DeliveryCompleted(k)

NotificationsNext ==
    \/ \E k \in Announcements :
           ensureNotification(k) \/ ReadNotification(k) \/ ArchiveNotification(k)
    \/ ReadAllNotifications
    \/ CommunicationWorker
    \/ CommunicationWorkerCrash

\* The job is queued every minute and retried; a worker that is killed over and
\* over still delivers something now and then.
NotificationsFairness ==
    /\ WF_notificationVars(ListDeliveries)
    /\ SF_notificationVars(\E k \in Announcements : Deliver(k))
    /\ WF_notificationVars(\E k \in Announcements : DeliveryCompleted(k))

NotificationsSpec == NotificationsInit /\ [][NotificationsNext]_notificationVars /\ NotificationsFairness

-----------------------------------------------------------------------------
(* Telegram gets a notification once at most, and at most one event says   *)
(* so, although announcements are repeated and the worker is restarted.    *)
DeliveredAtMostOnce ==
    \A k \in Announcements : completed[k] <= attemptCount[k] /\ attemptCount[k] <= 1

(* Every notification reaches Telegram in the end, however often the       *)
(* worker is killed on the way.                                            *)
DeliveredInTheEnd == \A k \in Announcements :
    notification[k] # "NONE" ~> telegram[k] = "DELIVERED"

(* Announcing a thing again neither sends it again nor marks it unread:    *)
(* what the user has read or archived stays so, and what was archived      *)
(* never counts as unread.                                                 *)
AnnouncedOnce ==
    [][/\ DeliveredAtMostOnce'
       /\ \A k \in Announcements :
              notification[k] \in {"READ", "ARCHIVED"} \/ archivedAt[k]
                  => notification'[k] # "UNREAD"]_notificationVars
=============================================================================
