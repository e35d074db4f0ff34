------------------------------- MODULE Rewards -------------------------------
(***************************************************************************)
(* What completed trips earn a driver (apps/api/src/main.ts): a ticket for *)
(* each trip, a ticket for whoever referred the driver, and a bonus when   *)
(* enough trips are confirmed.  They are written by the transaction that   *)
(* completes the trip; admins review them, and referrals are registered    *)
(* again.  What a passenger earns is the same without the bonus.           *)
(***************************************************************************)
EXTENDS Naturals, FiniteSets

CONSTANTS
    RewardTrips,        \* trips of the driver
    MilestoneTarget,    \* REWARD_DRIVER_MILESTONE_TARGET
    RewardRequests      \* requests that may be in flight together

ASSUME RewardTripsAssumption ==
    {"referral", "milestone"} \cap RewardTrips = {} /\ IsFiniteSet(RewardTrips)

VARIABLES
    reward,             \* RewardTransaction.status by source, "NONE" before it exists
    evaluation,         \* FraudEvaluation.status of the reward
    grants,             \* RewardTransaction rows created for the source
    referral,           \* Referral.status of the driver, "NONE" before it exists
    milestone,          \* DriverMilestoneProgress
    rewardedTrips,      \* trips that are COMPLETED
    rewardTx            \* what each request has read and is about to write

rewardVars == <<reward, evaluation, grants, referral, milestone, rewardedTrips, rewardTx>>

\* The unique sources of the driver's rewards, the referral's and the milestone's.
RewardSources == RewardTrips \cup {"referral", "milestone"}
NoRewardTx == [trip |-> "NONE"]
\* The progress of a request that has not come to the milestone.
NoProgress == [status |-> "NONE"]

RewardsInit ==
    /\ reward = [s \in RewardSources |-> "NONE"]
    /\ evaluation = [s \in RewardSources |-> "NONE"]
    /\ grants = [s \in RewardSources |-> 0]
    /\ referral = "NONE"
    /\ milestone = [count |-> 0, status |-> "IN_PROGRESS", linked |-> FALSE]
    /\ rewardedTrips = {}
    /\ rewardTx = [r \in RewardRequests |-> NoRewardTx]

\* rewardStatusForFraudStatus
rewardStatusForFraudStatus ==
    [AUTO_APPROVED |-> "CONFIRMED", PENDING_REVIEW |-> "PENDING_REVIEW", REJECTED |-> "REJECTED"]

\* evaluateRewardFraud: a trip is suspect or not, and only a referral that is a
\* cycle is rejected; the milestone's made-up trip is never suspect.
TripFraud == {"AUTO_APPROVED", "PENDING_REVIEW"}
ReferralFraud == TripFraud \cup {"REJECTED"}

\* qualifyReferralRewardForUser
referralStatusFor ==
    [CONFIRMED |-> "REWARDED", REJECTED |-> "REJECTED", PENDING_REVIEW |-> "QUALIFIED"]

-----------------------------------------------------------------------------
(* completeTripOperation and qualifyRewardsForCompletedTrip, of a trip that *)
(* somebody boarded.  The referral of a driver who is not verified, or of   *)
(* no driver, is left out.                                                  *)

\* createRewardWithEvaluation returns the reward that exists.
StatusOf(s, fraud) == IF reward[s] = "NONE" THEN rewardStatusForFraudStatus[fraud] ELSE reward[s]

\* The transaction reads what the trip and the referral earned so far.
QualifyBegin(r, t, ticket, referred) ==
    LET sources == {t} \cup (IF referred = "NONE" THEN {} ELSE {"referral"})
    IN  /\ rewardTx[r] = NoRewardTx /\ t \notin rewardedTrips
        /\ referred # "NONE" => referral \in {"REGISTERED", "QUALIFIED"}
        /\ rewardTx' = [rewardTx EXCEPT ![r] =
               [trip |-> t,
                granted |-> [s \in {s \in sources : reward[s] = "NONE"} |->
                    IF s = t THEN ticket ELSE referred],
                referral |-> IF referred = "NONE" THEN "NONE"
                             ELSE referralStatusFor[StatusOf("referral", referred)],
                milestone |-> NoProgress]]
        /\ UNCHANGED <<reward, evaluation, grants, referral, milestone, rewardedTrips>>

\* The unique index on user, type, sourceType and sourceId.
SourcesUnused(new) == \A s \in new : reward[s] = "NONE"

\* The upsert of the one milestone definition locks its row until the
\* transaction ends: two completions never read the progress together.
DefinitionFree == \A q \in RewardRequests :
    rewardTx[q] # NoRewardTx => rewardTx[q].milestone = NoProgress

\* The tickets that are confirmed, those of this transaction among them.
ConfirmedTrips(granted) == {u \in RewardTrips :
    (IF u \in DOMAIN granted THEN rewardStatusForFraudStatus[granted[u]] ELSE reward[u]) = "CONFIRMED"}
Reached(count) == count >= MilestoneTarget

\* (mutant) the bonus is due when the target is exceeded
BonusWhenExceeded(count) == count > MilestoneTarget /\ ~milestone.linked
BonusDue(count) == Reached(count) /\ ~milestone.linked

\* updateDriverMilestoneProgress, behind the inserts of the tickets: the bonus
\* is one more of them.
QualifyMilestone(r) ==
    LET x == rewardTx[r]
        count == Cardinality(ConfirmedTrips(x.granted))
        bonus == {s \in {"milestone"} : BonusDue(count) /\ reward[s] = "NONE"}
    IN  /\ x # NoRewardTx /\ x.milestone = NoProgress /\ DefinitionFree
        /\ x.trip \notin rewardedTrips /\ SourcesUnused(DOMAIN x.granted)
        /\ rewardTx' = [rewardTx EXCEPT ![r] = [x EXCEPT
               !.granted = [s \in DOMAIN x.granted \cup bonus |->
                   IF s \in bonus THEN "AUTO_APPROVED" ELSE x.granted[s]],
               !.milestone = [count |-> count,
                              status |-> IF Reached(count) THEN "REACHED" ELSE "IN_PROGRESS",
                              linked |-> milestone.linked \/ BonusDue(count)]]]
        /\ UNCHANGED <<reward, evaluation, grants, referral, milestone, rewardedTrips>>

QualifyCommit(r) ==
    LET x == rewardTx[r]
        new == DOMAIN x.granted
    IN  /\ x # NoRewardTx /\ x.milestone # NoProgress
        /\ reward' = [s \in RewardSources |->
               IF s \in new THEN rewardStatusForFraudStatus[x.granted[s]] ELSE reward[s]]
        /\ evaluation' = [s \in RewardSources |-> IF s \in new THEN x.granted[s] ELSE evaluation[s]]
        /\ grants' = [s \in RewardSources |-> IF s \in new THEN grants[s] + 1 ELSE grants[s]]
        /\ referral' = IF x.referral = "NONE" THEN referral ELSE x.referral
        /\ milestone' = x.milestone
        /\ rewardedTrips' = rewardedTrips \cup {x.trip}
        /\ rewardTx' = [rewardTx EXCEPT ![r] = NoRewardTx]

QualifyFails(r) ==
    /\ rewardTx[r] # NoRewardTx
    /\ rewardTx' = [rewardTx EXCEPT ![r] = NoRewardTx]
    /\ UNCHANGED <<reward, evaluation, grants, referral, milestone, rewardedTrips>>

-----------------------------------------------------------------------------
\* POST /referrals: the upsert registers again whatever the status is.
RegisterReferral ==
    /\ referral' = "REGISTERED"
    /\ UNCHANGED <<reward, evaluation, grants, milestone, rewardedTrips, rewardTx>>

\* POST /admin/rewards/:rewardId/review, at any time and again.
Reviewed(status, decided) == decided

ReviewReward(s, approve) ==
    /\ reward[s] # "NONE"
    /\ reward' = [reward EXCEPT ![s] = IF approve THEN "CONFIRMED" ELSE "REJECTED"]
    /\ evaluation' = [evaluation EXCEPT ![s] =
           Reviewed(@, IF approve THEN "APPROVED" ELSE "REJECTED")]
    /\ UNCHANGED <<grants, referral, milestone, rewardedTrips, rewardTx>>

RewardsNext ==
    \/ \E r \in RewardRequests :
           \/ \E t \in RewardTrips, ticket \in TripFraud, referred \in ReferralFraud \cup {"NONE"} :
                  QualifyBegin(r, t, ticket, referred)
           \/ QualifyMilestone(r) \/ QualifyCommit(r) \/ QualifyFails(r)
    \/ RegisterReferral
    \/ \E s \in RewardSources, approve \in BOOLEAN : ReviewReward(s, approve)

RewardsSpec == RewardsInit /\ [][RewardsNext]_rewardVars

-----------------------------------------------------------------------------
(* A trip, a referral and a milestone are rewarded once, although trips    *)
(* are completed at the same time, a rewarded referral is registered       *)
(* again, and progress falls below the target and reaches it again.        *)
RewardedOnce == \A s \in RewardSources : grants[s] <= 1

(* A reward counts exactly if its evaluation approved it, whether the      *)
(* rules or an admin did.                                                  *)
EvaluationAgrees == \A s \in RewardSources :
    /\ reward[s] = "CONFIRMED" <=> evaluation[s] \in {"AUTO_APPROVED", "APPROVED"}
    /\ reward[s] = "REJECTED" <=> evaluation[s] = "REJECTED"

(* A milestone that was REACHED has its bonus, although the progress falls *)
(* below the target when an admin rejects a ticket and reaches it again.    *)
(* The count misses no completion that overlapped another: while no ticket  *)
(* was reviewed, it is the number of the confirmed ones.                    *)
MilestoneHasBonus ==
    /\ milestone.status = "REACHED" => reward["milestone"] # "NONE"
    /\ (\A t \in RewardTrips : evaluation[t] \notin {"APPROVED", "REJECTED"})
           => milestone.count = Cardinality({t \in RewardTrips : reward[t] = "CONFIRMED"})

(* Each source is rewarded once, as its evaluation says, and the milestone *)
(* follows from the rewards.                                               *)
RewardsAddUp == RewardedOnce /\ EvaluationAgrees /\ MilestoneHasBonus
=============================================================================
