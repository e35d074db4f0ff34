------------------------------ MODULE Reviews ------------------------------
(***************************************************************************)
(* Reviews of one user and the OVERALL rating computed from them           *)
(* (apps/api/src/main.ts).  Posting is protected by an idempotency key; a  *)
(* second post of an author edits the first review.  The unique index on   *)
(* the review's booking and parcel never applies, since one of the two is  *)
(* always NULL.  A transaction reads (Begin), writes its review and        *)
(* recomputes the rating from the rows it then sees (Recompute), and       *)
(* becomes visible (Commit).                                               *)
(***************************************************************************)
EXTENDS Naturals

CONSTANTS
    Reviewers,      \* each has one booking or parcel to review
    ReviewKeys,     \* idempotency keys; a review is named by the key that created it
    Ratings,        \* overallRating
    ReviewRequests  \* requests that may be in flight together

ASSUME RatingsAssumption == Ratings \subseteq Nat \ {0}
ASSUME ReviewNamesAssumption == "NONE" \notin Reviewers /\ "NONE" \notin ReviewKeys

VARIABLES
    review,         \* the review each key created
    record,         \* the keys of IdempotencyRecord rows
    counted,        \* the ratings RatingAggregate was computed from, by review
    reviewTx,       \* what each request is doing
    reviewsAlone,   \* assumption: no two requests overlap
    posts,          \* history: how often a post with each key had an effect
    entity          \* the booking or parcel of each reviewer

reviewVars == <<review, record, counted, reviewTx, reviewsAlone, posts, entity>>

NoReview == [status |-> "NONE", by |-> "NONE", rating |-> 0]
NoReviewTx == [op |-> "idle", key |-> "NONE", id |-> "NONE", row |-> NoReview,
               counted |-> [k \in ReviewKeys |-> 0], computed |-> FALSE]

ReviewsInit ==
    /\ review = [k \in ReviewKeys |-> NoReview]
    /\ record = {}
    /\ counted = [k \in ReviewKeys |-> 0]
    /\ reviewTx = [r \in ReviewRequests |-> NoReviewTx]
    /\ reviewsAlone \in BOOLEAN
    /\ posts = [k \in ReviewKeys |-> 0]
    /\ entity = [a \in Reviewers |-> "TRAVELLING"]

BeginReview(r, op, key, id, row) ==
    /\ reviewTx[r].op = "idle"
    /\ reviewsAlone => \A q \in ReviewRequests : reviewTx[q].op = "idle"
    /\ reviewTx' = [reviewTx EXCEPT ![r] = [NoReviewTx EXCEPT
                        !.op = op, !.key = key, !.id = id, !.row = row]]
    /\ UNCHANGED <<review, record, counted, reviewsAlone, posts, entity>>

-----------------------------------------------------------------------------
(* The booking is completed or the parcel delivered; then the window for   *)
(* reviews passes, or a payment of the booking moves it out of COMPLETED.  *)
EntityAdvances(a) ==
    /\ entity[a] # "CLOSED"
    /\ entity' = [entity EXCEPT ![a] = IF @ = "TRAVELLING" THEN "COMPLETED" ELSE "CLOSED"]
    /\ UNCHANGED <<review, record, counted, reviewTx, reviewsAlone, posts>>

\* reviewEligibilityContext: the reviewers are clients, or senders, of the user.
EligibilityContext(a, type) ==
    [entityStatus |-> entity[a], reviewerParticipated |-> type = "DRIVER_BY_CLIENT",
     revieweeIsCounterpart |-> type = "DRIVER_BY_CLIENT"]

\* evaluateReviewEligibility
Eligible(context) ==
    /\ context.entityStatus = "COMPLETED"
    /\ context.reviewerParticipated /\ context.revieweeIsCounterpart

\* (mutant) only a published review is found again
PublishedReviewsOf(a) == {k \in ReviewKeys : review[k].by = a /\ review[k].status = "PUBLISHED"}
ReviewsOf(a) == {k \in ReviewKeys : review[k].by = a}

-----------------------------------------------------------------------------
(* POST /reviews: ensureIdempotency, then create, or edit what is there.   *)
(* Whatever the status of the review was, an edit leaves it alone; other   *)
(* than PATCH, it needs an entity that is eligible.                        *)
PostBegin(r) == \E a \in Reviewers, k \in ReviewKeys, n \in Ratings :
    /\ k \notin record
    /\ \E type \in {"DRIVER_BY_CLIENT", "CLIENT_BY_DRIVER"} : Eligible(EligibilityContext(a, type))
    /\ IF ReviewsOf(a) = {}
       THEN BeginReview(r, "post", k, k, [status |-> "PUBLISHED", by |-> a, rating |-> n])
       ELSE \E id \in ReviewsOf(a) :
                BeginReview(r, "post", k, id, [NoReview EXCEPT !.by = a, !.rating = n])

PatchBegin(r) == \E k \in ReviewKeys, n \in Ratings :
    /\ review[k].status = "PUBLISHED"
    /\ BeginReview(r, "patch", "NONE", k, [NoReview EXCEPT !.by = review[k].by, !.rating = n])

DeleteBegin(r) == \E k \in ReviewKeys :
    /\ review[k].status # "NONE"
    /\ BeginReview(r, "delete", "NONE", k, [NoReview EXCEPT !.status = "DELETED_BY_AUTHOR"])

ReportBegin(r) == \E k \in ReviewKeys :
    /\ review[k].status # "NONE"
    /\ BeginReview(r, "report", "NONE", k, [NoReview EXCEPT !.status = "UNDER_REVIEW"])

-----------------------------------------------------------------------------
\* The review as the transaction leaves it: fields it does not set are kept.
Written(t) ==
    [status |-> IF t.row.status = "NONE" THEN review[t.id].status ELSE t.row.status,
     by |-> IF t.row.by = "NONE" THEN review[t.id].by ELSE t.row.by,
     rating |-> IF t.row.rating = 0 THEN review[t.id].rating ELSE t.row.rating]

\* recomputeRatingAggregate.
CountedPublished(rows) ==
    [k \in ReviewKeys |-> IF rows[k].status = "PUBLISHED" THEN rows[k].rating ELSE 0]

\* The review's row is locked from here to the commit; a report does not
\* recompute.
Recompute(r) ==
    LET t == reviewTx[r]
    IN  /\ t.op # "idle" /\ ~t.computed
        /\ \A q \in ReviewRequests : reviewTx[q].computed => reviewTx[q].id # t.id
        /\ reviewTx' = [reviewTx EXCEPT ![r].computed = TRUE,
               ![r].counted = CountedPublished([review EXCEPT ![t.id] = Written(t)])]
        /\ UNCHANGED <<review, record, counted, reviewsAlone, posts, entity>>

\* The unique index on the scope and the key of IdempotencyRecord.
KeyUnused(t) == t.key \notin record

ReviewCommit(r) ==
    LET t == reviewTx[r]
    IN  /\ t.computed /\ KeyUnused(t)
        /\ review' = [review EXCEPT ![t.id] = Written(t)]
        /\ counted' = IF t.op = "report" THEN counted ELSE t.counted
        /\ record' = record \cup ({t.key} \cap ReviewKeys)
        /\ posts' = [k \in ReviewKeys |-> IF k = t.key THEN posts[k] + 1 ELSE posts[k]]
        /\ reviewTx' = [reviewTx EXCEPT ![r] = NoReviewTx]
        /\ UNCHANGED <<reviewsAlone, entity>>

ReviewFails(r) ==
    /\ reviewTx[r].op # "idle"
    /\ reviewTx' = [reviewTx EXCEPT ![r] = NoReviewTx]
    /\ UNCHANGED <<review, record, counted, reviewsAlone, posts, entity>>

ReviewsNext ==
    \/ \E a \in Reviewers : EntityAdvances(a)
    \/ \E r \in ReviewRequests :
        \/ PostBegin(r) \/ PatchBegin(r) \/ DeleteBegin(r) \/ ReportBegin(r)
        \/ Recompute(r) \/ ReviewCommit(r) \/ ReviewFails(r)

ReviewsSpec == ReviewsInit /\ [][ReviewsNext]_reviewVars

-----------------------------------------------------------------------------
(* While requests do not overlap, the rating of a user is computed from    *)
(* every review that is published, as it now is, and from none that its    *)
(* author has deleted.  (A reported review keeps counting until something  *)
(* else is written: the report does not recompute.)                        *)
RatingIsCurrent == reviewsAlone => \A k \in ReviewKeys :
    /\ review[k].status = "PUBLISHED" => counted[k] = review[k].rating
    /\ review[k].status \in {"NONE", "DELETED_BY_AUTHOR"} => counted[k] = 0

(* While requests do not overlap, an author has one review of a booking,   *)
(* although it may be deleted, reported and posted again.                  *)
OneReviewPerAuthor ==
    reviewsAlone => \A k, l \in ReviewKeys :
        review[k].status # "NONE" /\ review[k].by = review[l].by => k = l

(* A post that is retried with its key, even while the first is in flight, *)
(* has one effect.                                                         *)
PostedOnce == \A k \in ReviewKeys : posts[k] <= 1

(* Nobody is rated by one who has not yet travelled with them: a rating    *)
(* counts only reviews whose booking or parcel has come to its end.        *)
RatedAfterTravel == \A k \in ReviewKeys :
    counted[k] > 0 => review[k].by \in Reviewers /\ entity[review[k].by] # "TRAVELLING"

(* A booking counts once in the rating of a user, after it is completed,   *)
(* with what its author has written last.                                  *)
RatingsAreEarned == OneReviewPerAuthor /\ PostedOnce /\ RatingIsCurrent /\ RatedAfterTravel
=============================================================================
