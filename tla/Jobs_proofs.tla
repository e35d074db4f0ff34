------------------------------ MODULE Jobs_proofs ------------------------------
(***************************************************************************)
(* The communication worker, for any number of notifications: each is      *)
(* delivered once at most, and announcing it again disturbs nothing, while *)
(* the worker is killed and announcements are repeated.  That everything   *)
(* is delivered in the end needs fairness and is left to TLC.              *)
(***************************************************************************)
EXTENDS MCJobs, TLAPS

NotificationsTypeOK ==
    /\ notification \in [Announcements -> {"NONE", "UNREAD", "READ", "ARCHIVED"}]
    /\ archivedAt \in [Announcements -> BOOLEAN]
    /\ telegram \in [Announcements -> {"NONE", "PENDING", "DELIVERED"}]
    /\ attemptCount \in [Announcements -> 0..1]
    /\ completed \in [Announcements -> 0..1]
    /\ deliveries \subseteq Announcements /\ delivering \subseteq Announcements

\* What the job has listed is not yet sent; an attempt was made of what was sent,
\* and the event that says so is written while nothing else is in delivery.
DeliveriesFollow ==
    /\ \A k \in deliveries : telegram[k] = "PENDING"
    /\ \A k \in Announcements : attemptCount[k] = IF telegram[k] = "DELIVERED" THEN 1 ELSE 0
    /\ \A k \in Announcements : completed[k] = 1 => telegram[k] = "DELIVERED" /\ k \notin delivering
    /\ \A k \in delivering : telegram[k] = "DELIVERED"
    /\ \A j, k \in delivering : j = k

ArchivedIsSeen ==
    \A k \in Announcements : archivedAt[k] => notification[k] \in {"READ", "ARCHIVED"}

NotificationsInv == NotificationsTypeOK /\ DeliveriesFollow /\ ArchivedIsSeen

LEMMA NotificationsInvInit == NotificationsInit => NotificationsInv
  BY DEF NotificationsInit, NotificationsInv, NotificationsTypeOK, DeliveriesFollow, ArchivedIsSeen

LEMMA AnnouncingKeeps ==
    ASSUME NotificationsInv, NEW k \in Announcements,
           ensureNotification(k) \/ ReadNotification(k) \/ ArchiveNotification(k)
    PROVE  NotificationsInv'
  <1>1. CASE ensureNotification(k)
    BY <1>1 DEF ensureNotification, Announced, NotificationsInv, NotificationsTypeOK,
       DeliveriesFollow, ArchivedIsSeen
  <1>2. CASE ReadNotification(k)
    BY <1>2 DEF ReadNotification, NotificationsInv, NotificationsTypeOK, DeliveriesFollow,
       ArchivedIsSeen
  <1>3. CASE ArchiveNotification(k)
    BY <1>3 DEF ArchiveNotification, NotificationsInv, NotificationsTypeOK, DeliveriesFollow,
       ArchivedIsSeen
  <1> QED BY <1>1, <1>2, <1>3

LEMMA WorkerKeeps ==
    ASSUME NotificationsInv, CommunicationWorker \/ CommunicationWorkerCrash
    PROVE  NotificationsInv'
  <1>1. CASE ListDeliveries
    BY <1>1 DEF ListDeliveries, Pending, NotificationsInv, NotificationsTypeOK, DeliveriesFollow,
       ArchivedIsSeen
  <1>2. ASSUME NEW k \in Announcements, Deliver(k) PROVE NotificationsInv'
    <2>1. telegram[k] = "PENDING" /\ attemptCount[k] = 0 /\ completed[k] = 0
      BY <1>2 DEF Deliver, NotificationsInv, NotificationsTypeOK, DeliveriesFollow
    <2>2. NotificationsTypeOK'
      BY <1>2, <2>1 DEF Deliver, NotificationsInv, NotificationsTypeOK
    <2>3. DeliveriesFollow'
      BY <1>2, <2>1 DEF Deliver, NotificationsInv, NotificationsTypeOK, DeliveriesFollow
    <2>4. ArchivedIsSeen'
      BY <1>2 DEF Deliver, NotificationsInv, ArchivedIsSeen
    <2> QED BY <2>2, <2>3, <2>4 DEF NotificationsInv
  <1>3. ASSUME NEW k \in Announcements, DeliveryCompleted(k) PROVE NotificationsInv'
    <2>1. telegram[k] = "DELIVERED" /\ completed[k] = 0
      BY <1>3 DEF DeliveryCompleted, NotificationsInv, NotificationsTypeOK, DeliveriesFollow
    <2>2. NotificationsTypeOK'
      BY <1>3, <2>1 DEF DeliveryCompleted, NotificationsInv, NotificationsTypeOK
    <2>3. DeliveriesFollow'
      BY <1>3, <2>1 DEF DeliveryCompleted, NotificationsInv, NotificationsTypeOK, DeliveriesFollow
    <2>4. ArchivedIsSeen'
      BY <1>3 DEF DeliveryCompleted, NotificationsInv, ArchivedIsSeen
    <2> QED BY <2>2, <2>3, <2>4 DEF NotificationsInv
  <1>4. CASE CommunicationWorkerCrash
    BY <1>4 DEF CommunicationWorkerCrash, NotificationsInv, NotificationsTypeOK, DeliveriesFollow,
       ArchivedIsSeen
  <1> QED BY <1>1, <1>2, <1>3, <1>4 DEF CommunicationWorker

LEMMA NotificationsInvStep == NotificationsInv /\ [NotificationsNext]_notificationVars => NotificationsInv'
  <1> SUFFICES ASSUME NotificationsInv, [NotificationsNext]_notificationVars PROVE NotificationsInv'
    OBVIOUS
  <1>1. CASE ReadAllNotifications
    BY <1>1 DEF ReadAllNotifications, NotificationsInv, NotificationsTypeOK, DeliveriesFollow,
       ArchivedIsSeen
  <1>2. CASE UNCHANGED notificationVars
    BY <1>2 DEF notificationVars, NotificationsInv, NotificationsTypeOK, DeliveriesFollow,
       ArchivedIsSeen
  <1> QED BY <1>1, <1>2, AnnouncingKeeps, WorkerKeeps DEF NotificationsNext

\* What was seen or archived is not marked unread by any step.
LEMMA SeenStaysSeen ==
    ASSUME NotificationsInv, [NotificationsNext]_notificationVars, NEW k \in Announcements,
           notification[k] \in {"READ", "ARCHIVED"} \/ archivedAt[k]
    PROVE  notification'[k] # "UNREAD"
  <1>1. notification[k] \in {"READ", "ARCHIVED"}
    BY DEF NotificationsInv, ArchivedIsSeen
  <1>2. ASSUME NEW j \in Announcements,
               ensureNotification(j) \/ ReadNotification(j) \/ ArchiveNotification(j)
        PROVE  notification'[k] # "UNREAD"
    BY <1>1, <1>2 DEF ensureNotification, ReadNotification, ArchiveNotification, Announced,
       NotificationsInv, NotificationsTypeOK
  <1>3. CASE ReadAllNotifications
    BY <1>1, <1>3 DEF ReadAllNotifications
  <1>4. CASE CommunicationWorker \/ CommunicationWorkerCrash \/ UNCHANGED notificationVars
    BY <1>1, <1>4 DEF CommunicationWorker, ListDeliveries, Deliver, DeliveryCompleted,
       CommunicationWorkerCrash, notificationVars
  <1> QED BY <1>2, <1>3, <1>4 DEF NotificationsNext

(* A notification is delivered once at most, with one event at most, and    *)
(* what the user has seen stays seen, for any number of announcements and   *)
(* however often one is repeated and the worker killed (ensureNotification, *)
(* the communication worker).                                               *)
THEOREM AnnouncementsMadeOnce == JobsSpec => AnnouncedOnce
  <1> DEFINE Once == /\ DeliveredAtMostOnce'
                     /\ \A k \in Announcements :
                            notification[k] \in {"READ", "ARCHIVED"} \/ archivedAt[k]
                                => notification'[k] # "UNREAD"
  <1>1. JobsInit => NotificationsInv
    BY NotificationsInvInit DEF JobsInit
  <1>2. [JobsNext]_<<part, vars, notificationVars, restrictionVars, passengerCodeVars>>
            => [NotificationsNext]_notificationVars
    BY DEF JobsNext
  <1>3. NotificationsInv => DeliveredAtMostOnce
    BY DEF NotificationsInv, NotificationsTypeOK, DeliveriesFollow, DeliveredAtMostOnce
  <1>4. NotificationsInv /\ [NotificationsNext]_notificationVars => [Once]_notificationVars
    <2> SUFFICES ASSUME NotificationsInv, [NotificationsNext]_notificationVars PROVE Once
      OBVIOUS
    <2>1. NotificationsInv'
      BY NotificationsInvStep
    <2>2. DeliveredAtMostOnce'
      BY <1>3, <2>1 DEF DeliveredAtMostOnce, NotificationsInv, NotificationsTypeOK, DeliveriesFollow
    <2> QED BY <2>2, SeenStaysSeen
  <1> QED BY <1>1, <1>2, <1>4, NotificationsInvStep, PTL DEF JobsSpec, AnnouncedOnce
===============================================================================
