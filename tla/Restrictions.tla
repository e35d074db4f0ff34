---------------------------- MODULE Restrictions ----------------------------
(***************************************************************************)
(* Restrictions of one account and the reliability level they give it.  An *)
(* admin applies a restriction in three writes without a transaction and   *)
(* revokes it by id (apps/api); the trust and safety worker expires what   *)
(* has lapsed and computes the level anew (apps/worker).  The API counts   *)
(* RESTRICTION_APPLIED events, which are never removed, and the worker     *)
(* counts the restrictions that are ACTIVE.                                *)
(***************************************************************************)
EXTENDS Naturals

CONSTANT RestrictionIds

VARIABLES
    restriction,    \* AccountRestriction.status, "NONE" before it exists
    ended,          \* endsAt has passed
    applied,        \* ReliabilityEvent restriction:<id>:applied exists
    removed,        \* ReliabilityEvent restriction:<id>:expired exists
    level,          \* ReliabilityProfile.reliabilityLevel, RESTRICTED or not
    applying,       \* requests that have created the row: what they write next
    expiring,       \* what the running job has listed and not yet expired
    job             \* where the job is, and whether it counted a restriction

restrictionVars == <<restriction, ended, applied, removed, level, applying, expiring, job>>

RestrictionsInit ==
    /\ restriction = [i \in RestrictionIds |-> "NONE"]
    /\ ended = [i \in RestrictionIds |-> FALSE]
    /\ applied = {} /\ removed = {}
    /\ level = "STANDARD"
    /\ applying = [i \in RestrictionIds |-> "NONE"]
    /\ expiring = {}
    /\ job = "idle"

ActiveRestrictions == {i \in RestrictionIds : restriction[i] = "ACTIVE"}

-----------------------------------------------------------------------------
(* POST /admin/users/:userId/restrictions, and its revocation.             *)

CreateRestriction(i) ==
    /\ restriction[i] = "NONE"
    /\ restriction' = [restriction EXCEPT ![i] = "ACTIVE"]
    /\ applying' = [applying EXCEPT ![i] = "event"]
    /\ UNCHANGED <<ended, applied, removed, level, expiring, job>>

RecordApplied(i) ==
    /\ applying[i] = "event"
    /\ applied' = applied \cup {i}
    /\ applying' = [applying EXCEPT ![i] = "profile"]
    /\ UNCHANGED <<restriction, ended, removed, level, expiring, job>>

\* recomputeReliabilityProfile: the user has an applied event, this one.
RecomputeReliability(i) ==
    /\ applying[i] = "profile"
    /\ level' = "RESTRICTED"
    /\ applying' = [applying EXCEPT ![i] = "NONE"]
    /\ UNCHANGED <<restriction, ended, applied, removed, expiring, job>>

ApplyingFails(i) ==
    /\ applying[i] # "NONE"
    /\ applying' = [applying EXCEPT ![i] = "NONE"]
    /\ UNCHANGED <<restriction, ended, applied, removed, level, expiring, job>>

RevokeRestriction(i) ==
    /\ restriction[i] # "NONE"
    /\ restriction' = [restriction EXCEPT ![i] = "REVOKED"]
    /\ UNCHANGED <<ended, applied, removed, level, applying, expiring, job>>

RestrictionEnds(i) ==
    /\ restriction[i] # "NONE" /\ ~ended[i]
    /\ ended' = [ended EXCEPT ![i] = TRUE]
    /\ UNCHANGED <<restriction, applied, removed, level, applying, expiring, job>>

-----------------------------------------------------------------------------
(* trustSafetyWorker                                                       *)

\* (mutant) the query forgets endsAt
UnendedRestrictions == ActiveRestrictions \ {i \in RestrictionIds : ended[i]}
LapsedRestrictions == {i \in ActiveRestrictions : ended[i]}

\* A job that finds nothing to expire and nobody to count is no step.
ListRestrictions ==
    /\ job = "idle"
    /\ LapsedRestrictions # {} \/ applied # {} \/ removed # {}
    /\ job' = "expire"
    /\ expiring' = LapsedRestrictions
    /\ UNCHANGED <<restriction, ended, applied, removed, level, applying>>

\* One transaction; the dedupeKey of the event is unique.
ExpireRestriction(i) ==
    /\ job = "expire" /\ i \in expiring /\ i \notin removed
    /\ restriction' = [restriction EXCEPT ![i] = "EXPIRED"]
    /\ removed' = removed \cup {i}
    /\ expiring' = expiring \ {i}
    /\ UNCHANGED <<ended, applied, level, applying, job>>

\* Users without reliability events are skipped.
CountRestrictions ==
    /\ job = "expire" /\ expiring = {}
    /\ job' = IF applied = {} /\ removed = {} THEN "idle"
              ELSE IF ActiveRestrictions # {} THEN "restricted" ELSE "free"
    /\ UNCHANGED <<restriction, ended, applied, removed, level, applying, expiring>>

CountedLevel == IF job = "restricted" THEN "RESTRICTED" ELSE "STANDARD"

UpsertReliability ==
    /\ job \in {"restricted", "free"}
    /\ level' = CountedLevel
    /\ job' = "idle"
    /\ UNCHANGED <<restriction, ended, applied, removed, applying, expiring>>

TrustSafetyWorkerCrash ==
    /\ job # "idle"
    /\ job' = "idle" /\ expiring' = {}
    /\ UNCHANGED <<restriction, ended, applied, removed, level, applying>>

RestrictionsNext ==
    \/ \E i \in RestrictionIds :
           \/ CreateRestriction(i) \/ RecordApplied(i) \/ RecomputeReliability(i)
           \/ ApplyingFails(i) \/ RevokeRestriction(i) \/ RestrictionEnds(i)
           \/ ExpireRestriction(i)
    \/ ListRestrictions \/ CountRestrictions \/ UpsertReliability
    \/ TrustSafetyWorkerCrash

\* A request ends, and the job, queued every minute and retried, gets through its
\* list, and through its count, now and then, however often the worker is killed.
RestrictionsFairness ==
    /\ \A i \in RestrictionIds :
           WF_restrictionVars(RecordApplied(i) \/ RecomputeReliability(i) \/ ApplyingFails(i))
    /\ WF_restrictionVars(ListRestrictions)
    /\ SF_restrictionVars((\E i \in RestrictionIds : ExpireRestriction(i)) \/ CountRestrictions)
    /\ SF_restrictionVars(UpsertReliability)

RestrictionsSpec == RestrictionsInit /\ [][RestrictionsNext]_restrictionVars /\ RestrictionsFairness

-----------------------------------------------------------------------------
(* The job never lists a restriction whose expiry is recorded: the unique  *)
(* dedupeKey would fail the transaction, and with it the rest of this and  *)
(* of every later run.                                                     *)
ExpiryNotRepeated == expiring \cap removed = {}

(* A restriction that ran out, and was not revoked, is marked EXPIRED in   *)
(* the end (docs/architecture/reviews-reliability-safety.md:25).           *)
RestrictionExpires == \A i \in RestrictionIds :
    restriction[i] = "ACTIVE" /\ ended[i] ~> restriction[i] # "ACTIVE"

(* When no restriction is left, the account does not stay RESTRICTED,      *)
(* although the API never lowers the level and applying overlaps expiry    *)
(* and revocation.                                                         *)
LevelFollowsRestrictions ==
    ActiveRestrictions = {} ~> level = "STANDARD" \/ ActiveRestrictions # {}

(* A restriction ends by itself, once, and its effect on the account too.  *)
RestrictionsRunOut ==
    []ExpiryNotRepeated /\ RestrictionExpires /\ LevelFollowsRestrictions
=============================================================================
