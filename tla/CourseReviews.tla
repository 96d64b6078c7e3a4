---------------------------- MODULE CourseReviews ----------------------------
(***************************************************************************)
(* Reviews of courses (api/routes/reviews.py) over the table               *)
(* course_reviews.  The duplicate check and the INSERT of a new review are *)
(* one transaction without a lock, so another one may commit between them; *)
(* the UNIQUE constraint of the table ignores rows whose professor is NULL. *)
(***************************************************************************)
EXTENDS Integers, FiniteSets

CONSTANTS
    Users, Requests,
    None,          \* the professor of a review that names none: NULL
    Professors,    \* who gives the course, and None
    Ratings,
    Offered,       \* bound: the requests that students make
    MaxReviews     \* bound: reviews ever written

ReviewAssumption ==
    /\ None \notin Users /\ Ratings \subseteq 1..5 /\ MaxReviews \in Nat
    /\ Offered \subseteq {"create", "update", "delete", "list", "leave"}

VARIABLES
    users,    \* the accounts that exist
    reviews,  \* table course_reviews, by id: the reviews of one course and semester
    drawn,    \* how many ids were drawn
    req       \* the requests in progress, with the last answer of each client

vars == <<users, reviews, drawn, req>>

NoReview == [user |-> None, professor |-> None, rating |-> 0]
NoReq == [op |-> "none", step |-> "idle", user |-> None, id |-> 0, row |-> NoReview,
          status |-> 0]

Finish(p, status) ==
    req' = [req EXCEPT ![p] = [NoReq EXCEPT !.op = req[p].op, !.status = status]]

Init ==
    /\ users = Users
    /\ reviews = [x \in {} |-> NoReview] /\ drawn = 0
    /\ req = [p \in Requests |-> NoReq]

FirstStep(op) ==
    CASE op = "create"             -> "check"
      [] op \in {"update", "delete"} -> "owner"
      [] op = "list"               -> "summarise"
      [] OTHER                     -> "write"

Begin(p, u, op, id, row) ==
    /\ req[p].step = "idle" /\ u \in users /\ op \in Offered
    /\ req' = [req EXCEPT ![p] = [NoReq EXCEPT !.op = op, !.step = FirstStep(op), !.user = u,
                                               !.id = id, !.row = row]]
    /\ UNCHANGED <<users, reviews, drawn>>

(* What the duplicate check finds.  professor == None becomes IS NULL.  *)
Duplicates(row) ==
    {r \in DOMAIN reviews : reviews[r].user = row.user /\ reviews[r].professor = row.professor}

CheckDuplicate(p) ==
    LET n == Cardinality(Duplicates(req[p].row))
    IN  /\ req[p].step = "check"
        /\ CASE n = 0 -> req' = [req EXCEPT ![p].step = "insert"]
             [] n = 1 -> Finish(p, 409)
             [] OTHER -> Finish(p, 500)      \* one_or_none raises MultipleResultsFound
        /\ UNCHANGED <<users, reviews, drawn>>

\* Mutant: the table has no unique constraint.
NeverTaken(row) == FALSE

\* uq_course_reviews_author_course_offering: NULL differs from NULL.
Taken(row) == row.professor # None /\ Duplicates(row) # {}

(* INSERT: the constraint answers 409; so does the foreign key of an author *)
(* who left, for both raise an IntegrityError.                             *)
Insert(p) ==
    LET row == req[p].row
    IN  /\ req[p].step = "insert" /\ drawn < MaxReviews
        /\ IF Taken(row) \/ row.user \notin users
           THEN Finish(p, 409) /\ UNCHANGED <<reviews, drawn>>
           ELSE /\ drawn' = drawn + 1
                /\ reviews' = [x \in DOMAIN reviews \cup {drawn + 1} |->
                                  IF x = drawn + 1 THEN row ELSE reviews[x]]
                /\ req' = [req EXCEPT ![p].step = "summarise"]
        /\ UNCHANGED users

OwnerStatus(id, u) ==
    IF id \notin DOMAIN reviews THEN 404
    ELSE IF reviews[id].user # u THEN 403 ELSE 200

CheckOwner(p) ==
    LET r == req[p]
        status == OwnerStatus(r.id, r.user)
    IN  /\ r.step = "owner"
        /\ IF status # 200 THEN Finish(p, status)
           ELSE req' = [req EXCEPT ![p].step = "write"]
        /\ UNCHANGED <<users, reviews, drawn>>

(* The second transaction asserts that the review is still there.  *)
Update(p) ==
    LET r == req[p]
        found == r.id \in DOMAIN reviews
    IN  /\ r.step = "write" /\ r.op = "update"
        /\ reviews' = IF found THEN [reviews EXCEPT ![r.id].rating = r.row.rating] ELSE reviews
        /\ IF found THEN req' = [req EXCEPT ![p].step = "summarise"] ELSE Finish(p, 500)
        /\ UNCHANGED <<users, drawn>>

Delete(p) ==
    /\ req[p].step = "write" /\ req[p].op = "delete"
    /\ reviews' = [x \in DOMAIN reviews \ {req[p].id} |-> reviews[x]]
    /\ req' = [req EXCEPT ![p].step = "summarise"]
    /\ UNCHANGED <<users, drawn>>

Leave(p) ==
    LET u == req[p].user
    IN  /\ req[p].step = "write" /\ req[p].op = "leave"
        /\ reviews' = [x \in {r \in DOMAIN reviews : reviews[r].user # u} |-> reviews[x]]
        /\ users' = users \ {u}
        /\ Finish(p, 200)
        /\ UNCHANGED drawn

(* Lists, and answers to what was written, read the rating summary in a    *)
(* transaction of its own.                                                 *)
Summarise(p) ==
    /\ req[p].step = "summarise"
    /\ Finish(p, IF req[p].op = "create" THEN 201 ELSE 200)
    /\ UNCHANGED <<users, reviews, drawn>>

Ids(op) == IF op \in {"update", "delete"} THEN 1..drawn ELSE {0}

(* A change keeps the author and the professor, and may set the rating.    *)
RowsSent(op, u) ==
    CASE op = "create" -> [user : {u}, professor : Professors, rating : Ratings]
      [] op = "update" -> [user : {u}, professor : {None}, rating : Ratings]
      [] OTHER         -> {NoReview}

BeginAny ==
    \E p \in Requests, u \in Users, op \in Offered :
        \E id \in Ids(op), row \in RowsSent(op, u) : Begin(p, u, op, id, row)

Step(p) ==
    \/ CheckDuplicate(p) \/ Insert(p) \/ CheckOwner(p)
    \/ Update(p) \/ Delete(p) \/ Leave(p) \/ Summarise(p)

Next == BeginAny \/ \E p \in Requests : Step(p)

Spec == Init /\ [][Next]_vars
-----------------------------------------------------------------------------
(* A student has one review of a professor's offering at most, though the  *)
(* check and the insert of two requests overlap.                           *)
OneReviewPerOffering ==
    \A r, s \in DOMAIN reviews :
        r # s /\ reviews[r].user = reviews[s].user /\ reviews[r].professor = reviews[s].professor
            => reviews[r].professor = None
=============================================================================
