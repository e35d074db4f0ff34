-------------------------------- MODULE MCJobs --------------------------------
(* The finance, communication and trust jobs with the requests they overlap,   *)
(* and a passenger who asks for a code until there is one.                     *)
(* They share no state, so part chooses one and the others keep their initial  *)
(* state, in which their fairness conditions have no step to ask for.          *)
EXTENDS Payments, Notifications, Restrictions, PassengerCodes

CONSTANTS r1, r2

VARIABLE part

JobsInit ==
    /\ part \in {"payments", "notifications", "restrictions", "codes"}
    /\ Init /\ NotificationsInit /\ RestrictionsInit /\ PassengerCodesInit
    /\ part # "codes" => secret = "START_PIN"

JobsNext ==
    /\ UNCHANGED part
    /\ \/ part = "payments" /\ Next /\ UNCHANGED <<notificationVars, restrictionVars, passengerCodeVars>>
       \/ part = "notifications" /\ NotificationsNext /\ UNCHANGED <<vars, restrictionVars, passengerCodeVars>>
       \/ part = "restrictions" /\ RestrictionsNext /\ UNCHANGED <<vars, notificationVars, passengerCodeVars>>
       \/ /\ part = "codes" /\ PassengerCodesNext
          /\ UNCHANGED <<vars, notificationVars, restrictionVars>>

JobsSpec ==
    /\ JobsInit /\ [][JobsNext]_<<part, vars, notificationVars, restrictionVars, passengerCodeVars>>
    /\ Fairness /\ NotificationsFairness /\ RestrictionsFairness /\ PassengerCodesFairness
===============================================================================
