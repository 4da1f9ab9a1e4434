------------------------------- MODULE Reviews -------------------------------
(***************************************************************************)
(* Reviews: POST /products/{id}/reviews, PATCH and DELETE /reviews/{id},   *)
(* one action per statement at READ COMMITTED.  The unique constraint on   *)
(* (product, customer) is the only thing that two requests share.          *)
(*                                                                         *)
(* Request r creates the review r.  created_at is now() in PostgreSQL: the *)
(* time the transaction began, not the time it commits.                    *)
(***************************************************************************)
EXTENDS Catalogue

CONSTANTS OldReviews,   \* ids of the reviews there at the start
          Reviewed,     \* the contents of the reviews table to start from
          ReviewForms,  \* bodies of PATCH /reviews/{id}
          Ratings, Bodies,
          Horizon       \* no clock value reaches it

ReviewIds == OldReviews \cup Requests
ReviewRow == [product : Products, customer : Customers, created : 0..Horizon - 1,
              rating : Ratings, body : Bodies]
ReviewForm == [rating : Ratings \cup {Keep}, body : Bodies \cup {Keep}]

ASSUME OldReviewsAssumption ==
  IsFiniteSet(OldReviews) /\ Horizon \in Nat \ {0} /\ Cardinality(OldReviews) <= Horizon
ASSUME ReviewedAssumption ==
  /\ Reviewed \subseteq [ReviewIds -> ReviewRow \cup {NoRow}]
  /\ \A t \in Reviewed, i, j \in ReviewIds :
       t[i] # NoRow /\ t[j] # NoRow /\ i # j =>
         /\ <<t[i].product, t[i].customer>> # <<t[j].product, t[j].customer>>
         /\ t[i].created # t[j].created /\ t[i].created < Cardinality(OldReviews)
ASSUME ReviewFormsAssumption == ReviewForms \subseteq ReviewForm /\ NoRow \notin ReviewRow

VARIABLES
  review,      \* review[i]: the row of review i
  clock,       \* the transactions that have begun, as a time
  begun,       \* begun[r]: when the transaction of r began
  subject,     \* the review r is about, for PATCH and DELETE
  draft,       \* the body of r
  seenReview,  \* the row as r has read it
  overtaken    \* history: requests about to write a review that another has just written

reviewLocals == <<begun, subject, draft, seenReview>>
reviewVars == <<review, clock, reviewLocals, overtaken>>

ReviewPoints == {"look", "insert", "revise", "erase"}
NoDraft == [rating |-> Keep, body |-> Keep]

Existing == {i \in ReviewIds : review[i] # NoRow}
OfPair(p, c) == {i \in Existing : review[i].product = p /\ review[i].customer = c}

ReviewsTypeOK ==
  /\ review \in [ReviewIds -> ReviewRow \cup {NoRow}]
  /\ clock \in 0..Horizon
  /\ begun \in [Requests -> 0..Horizon - 1]
  /\ subject \in [Requests -> ReviewIds]
  /\ draft \in [Requests -> ReviewForm]
  /\ seenReview \in [Requests -> ReviewRow \cup {NoRow}]
  /\ overtaken \subseteq Requests

ReviewsInit ==
  /\ review \in Reviewed
  /\ clock = Cardinality(OldReviews)
  /\ begun = [r \in Requests |-> 0]
  /\ subject = [r \in Requests |-> r]
  /\ draft = [r \in Requests |-> NoDraft]
  /\ seenReview = [r \in Requests |-> NoRow]
  /\ overtaken = {}

ReviewAnswer(r, how) ==
  /\ Answer(r, how)
  /\ subject' = [subject EXCEPT ![r] = r]
  /\ draft' = [draft EXCEPT ![r] = NoDraft]
  /\ seenReview' = [seenReview EXCEPT ![r] = NoRow]
  /\ UNCHANGED <<product, clock, begun>>

-----------------------------------------------------------------------------
(* POST /products/{id}/reviews *)

\* The transaction begins, and get_visible_product finds its row (else 404).
BeginReview(r, c, p) ==
  /\ MayBegin(r)
  /\ Visible(p)
  /\ clock < Horizon
  /\ who' = [who EXCEPT ![r] = c]
  /\ item' = [item EXCEPT ![r] = p]
  /\ begun' = [begun EXCEPT ![r] = clock]
  /\ clock' = clock + 1
  /\ Goto(r, "look")
  /\ UNCHANGED <<product, form, seen, review, subject, draft, seenReview, overtaken>>

\* SELECT of the customer's review of the product: a 409 if there is one.
LookForReviewBlind(r) ==  \* Mutant: the review is looked for and never minded
  /\ pc[r] = "look"
  /\ Proceed(r, "insert")
  /\ UNCHANGED <<product, clock, reviewLocals, review, overtaken>>

LookForReview(r) ==
  /\ pc[r] = "look"
  /\ IF OfPair(item[r], who[r]) = {}
     THEN Proceed(r, "insert") /\ UNCHANGED <<product, clock, reviewLocals>>
     ELSE ReviewAnswer(r, "refused")
  /\ UNCHANGED <<review, overtaken>>

NewReview(r, x, b) == [product |-> item[r], customer |-> who[r],
                       created |-> begun[r], rating |-> x, body |-> b]

\* The INSERT, committed if the unique constraint allows it.
InsertReview(r) ==
  /\ pc[r] = "insert"
  /\ OfPair(item[r], who[r]) = {}
  /\ \E x \in Ratings, b \in Bodies : review' = [review EXCEPT ![r] = NewReview(r, x, b)]
  /\ overtaken' = overtaken \cup {q \in Requests \ {r} : /\ pc[q] = "insert"
                                                       /\ item[q] = item[r]
                                                       /\ who[q] = who[r]}
  /\ ReviewAnswer(r, "done")

\* IntegrityError: nothing catches it, a 500.
ViolatePair(r) ==
  /\ pc[r] = "insert"
  /\ OfPair(item[r], who[r]) # {}
  /\ ReviewAnswer(r, "failed")
  /\ UNCHANGED <<review, overtaken>>

-----------------------------------------------------------------------------
(* PATCH and DELETE /reviews/{id} *)

\* _load_owned_review: 404 without a row, 403 unless the caller wrote the review or is
\* an admin; neither changes anything.
LoadReview(r, i, f, to) ==
  /\ MayBegin(r)
  /\ review[i] # NoRow
  /\ subject' = [subject EXCEPT ![r] = i]
  /\ draft' = [draft EXCEPT ![r] = f]
  /\ seenReview' = [seenReview EXCEPT ![r] = review[i]]
  /\ Proceed(r, to)
  /\ UNCHANGED <<product, review, clock, begun, overtaken>>

Revised(row, f, loaded) ==
  [row EXCEPT !.rating = Column(f.rating, loaded.rating, @),
              !.body = Column(f.body, loaded.body, @)]

\* The UPDATE of the columns that change ...
CommitRevisionMerged(r) ==  \* Mutant: the row is merged, and so inserted when it is gone
  /\ pc[r] = "revise"
  /\ review' = [review EXCEPT ![subject[r]] = Revised(seenReview[r], draft[r], seenReview[r])]
  /\ ReviewAnswer(r, "done")
  /\ UNCHANGED overtaken

CommitRevision(r) ==
  /\ pc[r] = "revise"
  /\ review[subject[r]] # NoRow
  /\ review' = [review EXCEPT ![subject[r]] = Revised(@, draft[r], seenReview[r])]
  /\ ReviewAnswer(r, "done")
  /\ UNCHANGED overtaken

\* ... and when the row is gone: StaleDataError, or the refresh finds nothing, a 500.
LoseReview(r) ==
  /\ pc[r] = "revise"
  /\ review[subject[r]] = NoRow
  /\ ReviewAnswer(r, "failed")
  /\ UNCHANGED <<review, overtaken>>

\* The DELETE; one that finds no row any more is answered all the same.
EraseReview(r) ==
  /\ pc[r] = "erase"
  /\ review' = [review EXCEPT ![subject[r]] = NoRow]
  /\ ReviewAnswer(r, "done")
  /\ UNCHANGED overtaken

ReviewStep(r) ==
  \/ LookForReview(r) \/ InsertReview(r) \/ ViolatePair(r)
  \/ CommitRevision(r) \/ LoseReview(r) \/ EraseReview(r)

ReviewBegin(r) ==
  \/ \E c \in Customers, p \in Products : BeginReview(r, c, p)
  \/ \E i \in ReviewIds : \/ LoadReview(r, i, NoDraft, "erase")
                          \/ \E f \in ReviewForms : LoadReview(r, i, f, "revise")

-----------------------------------------------------------------------------
(* Properties *)

\* create_review looks before it inserts: the unique constraint refuses a review (a 500
\* instead of the 409) only when another request of the customer has written one in
\* between.
SecondReviewsAreRaces ==
  \A r \in Requests :
    pc[r] = "insert" /\ OfPair(item[r], who[r]) # {} => r \in overtaken

\* A review that was deleted does not come back when an edit that had read it commits
\* later (update_review against delete_review).
ErasedStaysErased ==
  [][\A i \in ReviewIds :
       review[i] = NoRow /\ review'[i] # NoRow => i \in Requests /\ pc[i] = "insert"]_review
=============================================================================
