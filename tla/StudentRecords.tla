---------------------------- MODULE StudentRecords ----------------------------
(***************************************************************************)
(* What the server keeps of a student: saved timetables and their links    *)
(* (SavedTimetables), the profile (Profiles), reviews (CourseReviews) and  *)
(* courses taken (CompletedCourses).  Each router has tables of its own    *)
(* and they meet only in the account they refer to, whose deletion each    *)
(* module has for its own tables.  This module names the parameters,       *)
(* states and properties of the parts.                                     *)
(***************************************************************************)
EXTENDS SavedTimetables

CONSTANTS
    Fields, MaxConsents,                         \* of Profiles
    Professors, Ratings, ReviewOps, MaxReviews,  \* of CourseReviews
    CourseRequests, AreaOf, Entries, Changes, Plans, Archive, Lists, CourseOps, Serial,
    MaxCourses                                   \* of CompletedCourses

VARIABLES user, consents, pReq, reviews, rUsers, rDrawn, rReq, courses, cUsers, cDrawn, cReq

profile == <<user, consents, pReq>>
reviewing == <<reviews, rUsers, rDrawn, rReq>>
taken == <<courses, cUsers, cDrawn, cReq>>

Account == INSTANCE Profiles WITH req <- pReq

Reviews == INSTANCE CourseReviews WITH
    Offered <- ReviewOps, users <- rUsers, drawn <- rDrawn, req <- rReq

Courses == INSTANCE CompletedCourses WITH
    Requests <- CourseRequests, Bodies <- Entries, Timetables <- Plans, Offerings <- Archive,
    Offered <- CourseOps, MaxRows <- MaxCourses, users <- cUsers, drawn <- cDrawn, req <- cReq

ASSUME PartsAssumption ==
    Account!ProfileAssumption /\ Reviews!ReviewAssumption /\ Courses!CourseAssumption
-----------------------------------------------------------------------------
\* A profile is marked complete exactly when it is, though changes and
\* consents each read what the other one writes (users.py).
ProfileTruthful == Account!ProfileTruthful

\* A request on a profile that waits, waits for one that goes on or is aborted.
SomeoneGoesOn == Account!SomeoneGoesOn

\* A student has one review of a professor's offering at most (reviews.py).
OneReviewPerOffering == Reviews!OneReviewPerOffering

\* A course is registered once by the three ways in, for a student who sends
\* one request at a time (completed_courses.py, history.py).
RegisteredOnce == Courses!RegisteredOnce

\* The area of a completed course is that of its category, unless named.
AreaFollowsCategory == Courses!AreaFollowsCategory
=============================================================================
