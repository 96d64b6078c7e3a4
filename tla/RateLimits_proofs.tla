-------------------------- MODULE RateLimits_proofs --------------------------
(***************************************************************************)
(* Proofs about the two limiters (RateLimits).  The first part is about    *)
(* AuthService, for any number of students, addresses, browsers and        *)
(* overlapping requests: one usable code and one session per student,      *)
(* codes used once, dead tokens stay dead, the limits of sending.          *)
(*                                                                         *)
(* A verification reads in one step and writes in another.  Three facts    *)
(* join the two: nobody else has the advisory locks of its student or      *)
(* address (VerifyAlone), the challenge it has read is still live and of   *)
(* its student unless it is gone (LockedLive), and the room it has counted *)
(* under the limits is still there (RoomHolds).  The limits themselves are *)
(* about all that was ever admitted, and rest on two more: a transaction   *)
(* is not older than MaxLag (LagOK), and what a newer clock has purged is  *)
(* too old to be counted in the shorter window (HistoryOK, CodesOK).       *)
(*                                                                         *)
(* The second part is about SlidingWindow, for every limit, window and set *)
(* of clients.  The deque of a client is the end of its log, and what was  *)
(* dropped from it had left the window; everything else follows from the   *)
(* order of the log.                                                       *)
(***************************************************************************)
EXTENDS RateLimits, FiniteSums, SequenceTheorems

USE DEF Null

Kinds == {"OTP_START", "OTP_VERIFY"}

ChallengesOK ==
    /\ \A c \in challenges : c.id <= drawn.challenges /\ ~(c.consumed /\ c.invalidated)
    /\ \A c, d \in challenges : c.id = d.id => c = d
    /\ \A c, d \in challenges : Live(c) /\ Live(d) /\ c.student = d.student => c = d

SessionsOK ==
    /\ \A x \in sessions : x.id <= drawn.logins /\ x.gen <= x.rotated
    /\ \A x, y \in sessions : x.id = y.id => x = y
    /\ \A x, y \in sessions :
          x.revoked = Null /\ y.revoked = Null /\ x.student = y.student => x = y

(* What a request knows of itself.                                         *)
RequestOK(r, n) ==
    /\ r.step \in {"begun", "locked"} => r.t \in 0..MaxTime
    /\ r.op \in {"start", "verify"} => r.student \in Students /\ r.address \in Addresses
    /\ r.op = "delete" /\ r.step \in {"admitted", "deleted", "erasing"} => r.student \in Students
    /\ r.op = "start" => r.code = 0
    /\ r.challenge <= n

RequestsOK ==
    /\ \A p \in Requests : RequestOK(req[p], drawn.challenges)
    /\ drawn.challenges + Cardinality(OpenStarts) <= MaxChallenges
    /\ drawn.logins + Cardinality(OpenLogins) <= MaxLogins

VerifyAlone == \A p \in Verifying : LocksFree(p)

LockedLive ==
    \A p \in Verifying : \A c \in challenges :
        c.id = req[p].challenge => Live(c) /\ c.student = req[p].student

(* A transaction lasts MaxLag ticks at most from where it read the clock.  *)
LagOK == \A p \in Requests : InTransaction(p) => req[p].t <= now /\ now <= req[p].t + MaxLag

(* What was purged is older than every open transaction has to count.      *)
HistoryOK ==
    /\ IsFiniteSet(admissions) /\ events \subseteq admissions
    /\ \A e \in admissions : e.t >= now - RateWindow => e \in events

(* So is a code that was purged, for the cooldown.                         *)
CodesOK ==
    \A e \in admissions : e.kind = "OTP_START" /\ e.t >= now - OtpRetention =>
        \E c \in challenges : c.student = e.student /\ c.sent = e.t

WindowsOK ==
    \A kind \in Kinds, first \in Int :
        WithinLimits(AdmittedIn(kind, first, first + RateWindow - MaxLag), kind)

RoomHolds ==
    \A p \in Verifying : req[p].admitted =>
        Admits("OTP_VERIFY", req[p].student, req[p].address, req[p].t)

IInv ==
    /\ TypeOK /\ ChallengesOK /\ SessionsOK /\ RequestsOK
    /\ VerifyAlone /\ LockedLive /\ RoomHolds
    /\ LagOK /\ HistoryOK /\ CodesOK /\ WindowsOK /\ CooldownKept
-----------------------------------------------------------------------------
(* What a step may do to the table of challenges: rows go, end, or one is  *)
(* added that is the only live one of its student and late enough.         *)
Descends(d) ==
    \E c \in challenges : c.id = d.id /\ c.student = d.student /\ c.sent = d.sent
                          /\ (Live(d) => Live(c))

FreshCode(d) ==
    /\ d.id = drawn.challenges + 1 /\ drawn'.challenges = drawn.challenges + 1
    /\ \A c \in challenges' : c.student = d.student /\ c # d => ~Live(c)

ChallengesStep ==
    /\ drawn'.challenges \in {drawn.challenges, drawn.challenges + 1}
    /\ \A d \in challenges' : /\ d \in ChallengeRows /\ ~(d.consumed /\ d.invalidated)
                              /\ Descends(d) \/ FreshCode(d)
    /\ \A c, d \in challenges' : c.id = d.id => c = d

(* And to the table of sessions: rows go, are revoked or rotated, or one   *)
(* is added that is the only one of its student that is not revoked.       *)
Continues(x) ==
    \E y \in sessions : /\ y.id = x.id /\ y.student = x.student
                        /\ x.revoked = Null => y.revoked = Null /\ y.gen <= x.gen

FreshSession(x) ==
    /\ x.id = drawn.logins + 1 /\ drawn'.logins = drawn.logins + 1
    /\ \A y \in sessions' : y.student = x.student /\ y # x => y.revoked # Null

SessionsStep ==
    /\ drawn'.logins \in {drawn.logins, drawn.logins + 1}
    /\ \A x \in sessions' : /\ x \in SessionRows /\ x.gen <= x.rotated
                            /\ Continues(x) \/ FreshSession(x)
    /\ \A x, y \in sessions' : x.id = y.id => x = y

LEMMA ChallengesKeep ==
    ASSUME IInv, ChallengesStep, drawn' \in [challenges : Nat, logins : Nat]
    PROVE  ChallengesOK'
<1>1. /\ drawn.challenges \in Nat /\ drawn'.challenges \in Nat
      /\ drawn.challenges <= drawn'.challenges
      /\ challenges \subseteq ChallengeRows /\ challenges' \subseteq ChallengeRows
  BY DEF IInv, TypeOK, ChallengesStep
<1>2. \A c \in challenges : c.id \in Nat /\ c.id <= drawn.challenges /\ c.sent \in Int
  BY <1>1 DEF IInv, ChallengesOK, ChallengeRows
<1>3. \A c \in challenges' : c.id \in Nat /\ c.sent \in Int
  BY <1>1 DEF ChallengeRows
<1>4. \A c \in challenges' : c.id <= drawn'.challenges /\ ~(c.consumed /\ c.invalidated)
  BY <1>1, <1>2, <1>3 DEF ChallengesStep, Descends, FreshCode
<1>5. ASSUME NEW c \in challenges', NEW d \in challenges', c # d, c.student = d.student
      PROVE  ~(Live(c) /\ Live(d))
  <2>1. CASE Descends(c) /\ Descends(d)
    <3>1. PICK a \in challenges : a.id = c.id /\ a.student = c.student /\ a.sent = c.sent
                                  /\ (Live(c) => Live(a))
      BY <2>1 DEF Descends
    <3>2. PICK b \in challenges : b.id = d.id /\ b.student = d.student /\ b.sent = d.sent
                                  /\ (Live(d) => Live(b))
      BY <2>1 DEF Descends
    <3>3. a # b
      BY <1>5, <3>1, <3>2 DEF ChallengesStep
    <3> QED  BY <1>5, <3>1, <3>2, <3>3 DEF IInv, ChallengesOK
  <2>2. CASE FreshCode(c)
    BY <1>5, <2>2 DEF FreshCode
  <2>3. CASE FreshCode(d)
    BY <1>5, <2>3 DEF FreshCode
  <2> QED  BY <2>1, <2>2, <2>3 DEF ChallengesStep
<1>6. \A c, d \in challenges' : c.id = d.id => c = d
  BY DEF ChallengesStep
<1> QED  BY <1>4, <1>5, <1>6 DEF ChallengesOK, Live

LEMMA SessionsKeep ==
    ASSUME IInv, SessionsStep, drawn' \in [challenges : Nat, logins : Nat]
    PROVE  SessionsOK'
<1>1. /\ drawn.logins \in Nat /\ drawn'.logins \in Nat /\ drawn.logins <= drawn'.logins
      /\ sessions \subseteq SessionRows /\ sessions' \subseteq SessionRows
  BY DEF IInv, TypeOK, SessionsStep
<1>2. /\ \A x \in sessions : x.id \in Nat /\ x.id <= drawn.logins
      /\ \A x \in sessions' : x.id \in Nat
  BY <1>1 DEF IInv, SessionsOK, SessionRows
<1>3. \A x \in sessions' : x.id <= drawn'.logins /\ x.gen <= x.rotated
  BY <1>1, <1>2 DEF SessionsStep, Continues, FreshSession
<1>4. ASSUME NEW x \in sessions', NEW y \in sessions', x # y, x.student = y.student
      PROVE  ~(x.revoked = Null /\ y.revoked = Null)
  <2>1. CASE Continues(x) /\ Continues(y)
    <3>1. PICK a \in sessions : /\ a.id = x.id /\ a.student = x.student
                                /\ x.revoked = Null => a.revoked = Null
      BY <2>1 DEF Continues
    <3>2. PICK b \in sessions : /\ b.id = y.id /\ b.student = y.student
                                /\ y.revoked = Null => b.revoked = Null
      BY <2>1 DEF Continues
    <3>3. a # b
      BY <1>4, <3>1, <3>2 DEF SessionsStep
    <3> QED  BY <1>4, <3>1, <3>2, <3>3 DEF IInv, SessionsOK
  <2>2. CASE FreshSession(x)
    BY <1>4, <2>2 DEF FreshSession
  <2>3. CASE FreshSession(y)
    BY <1>4, <2>3 DEF FreshSession
  <2> QED  BY <2>1, <2>2, <2>3 DEF SessionsStep
<1>5. \A x, y \in sessions' : x.id = y.id => x = y
  BY DEF SessionsStep
<1> QED  BY <1>3, <1>4, <1>5 DEF SessionsOK
-----------------------------------------------------------------------------
(* Steps on the two tables.                                                *)
LEMMA RowsTyped ==
    ASSUME IInv
    PROVE  /\ \A c \in challenges : /\ c \in ChallengeRows /\ c.id \in 1..MaxChallenges
                                    /\ c.id <= drawn.challenges /\ c.sent \in 0..MaxTime
                                    /\ c.attempts \in 0..OtpMaxAttempts /\ c.student \in Students
                                    /\ c.consumed \in BOOLEAN /\ c.invalidated \in BOOLEAN
                                    /\ ~(c.consumed /\ c.invalidated)
           /\ \A x \in sessions : /\ x \in SessionRows /\ x.id \in 1..MaxLogins
                                  /\ x.id <= drawn.logins /\ x.gen \in 0..MaxTime
                                  /\ x.rotated \in 0..MaxTime /\ x.gen <= x.rotated
                                  /\ x.student \in Students
           /\ drawn.challenges \in Nat /\ drawn.logins \in Nat /\ MaxTime \in Nat
           /\ drawn.challenges <= MaxChallenges /\ drawn.logins <= MaxLogins
BY BoundsAssumption DEF IInv, TypeOK, ChallengesOK, SessionsOK, ChallengeRows, SessionRows

LEMMA FewerChallenges ==
    ASSUME IInv, challenges' \subseteq challenges, drawn' = drawn
    PROVE  ChallengesStep
<1>1. \A c \in challenges : c \in ChallengeRows /\ ~(c.consumed /\ c.invalidated)
  BY RowsTyped
<1>2. \A d \in challenges' : Descends(d)
  BY DEF Descends
<1>3. \A c, d \in challenges' : c.id = d.id => c = d
  BY DEF IInv, ChallengesOK
<1> QED  BY <1>1, <1>2, <1>3 DEF ChallengesStep

LEMMA FewerSessions ==
    ASSUME IInv, sessions' \subseteq sessions, drawn' = drawn
    PROVE  SessionsStep
<1>1. \A x \in sessions : x \in SessionRows /\ x.gen <= x.rotated /\ x.gen \in Nat
  BY RowsTyped
<1>2. \A x \in sessions' : Continues(x)
  BY <1>1 DEF Continues
<1>3. \A x, y \in sessions' : x.id = y.id => x = y
  BY DEF IInv, SessionsOK
<1> QED  BY <1>1, <1>2, <1>3 DEF SessionsStep

LEMMA KeptIsFewer ==
    ASSUME NEW t
    PROVE  Kept(t) \subseteq challenges /\ KeptSessions(t) \subseteq sessions
BY DEF Kept, KeptSessions

(* A code that is refused for the challenge that the request has locked.   *)
LEMMA TriedEnds ==
    ASSUME IInv, NEW c \in challenges, Live(c), NEW r
    PROVE  /\ Tried(c, r) \in ChallengeRows /\ Tried(c, r).id = c.id
           /\ Tried(c, r).student = c.student /\ Tried(c, r).sent = c.sent
           /\ ~Tried(c, r).consumed
<1>1. /\ c \in ChallengeRows /\ c.attempts \in 0..OtpMaxAttempts /\ OtpMaxAttempts \in Nat
      /\ c.consumed = FALSE
  BY RowsTyped, OtpAssumption DEF Live
<1>2. CASE Expired(c, r.t) \/ c.attempts >= OtpMaxAttempts
  <2>1. Tried(c, r) = [c EXCEPT !.invalidated = TRUE]
    BY <1>2 DEF Tried
  <2> QED  BY <1>1, <2>1 DEF ChallengeRows
<1>3. CASE ~(Expired(c, r.t) \/ c.attempts >= OtpMaxAttempts)
  <2> DEFINE n == c.attempts + 1  last == c.attempts + 1 >= OtpMaxAttempts
  <2>1. Tried(c, r) = [c EXCEPT !.attempts = n, !.invalidated = last]
    BY <1>3 DEF Tried
  <2>2. n \in 0..OtpMaxAttempts
    BY <1>1, <1>3
  <2>3. last \in BOOLEAN
    OBVIOUS
  <2> HIDE DEF n, last
  <2> QED  BY <1>1, <2>1, <2>2, <2>3 DEF ChallengeRows
<1> QED  BY <1>2, <1>3

LEMMA CreateChallengeTables ==
    ASSUME IInv, NEW p \in Requests, CreateChallenge(p), drawn.challenges + 1 \in 1..MaxChallenges
    PROVE  ChallengesStep
<1> DEFINE r == req[p]  new == NewChallenge(r.student, r.t)
<1>1. r.t \in 0..MaxTime /\ r.student \in Students
  BY DEF IInv, RequestsOK, RequestOK, CreateChallenge, At
<1>2. new \in ChallengeRows /\ ~new.invalidated /\ new.id = drawn.challenges + 1
      /\ new.student = r.student /\ new.sent = r.t
  BY <1>1, OtpAssumption DEF NewChallenge, ChallengeRows
<1>3. drawn'.challenges = drawn.challenges + 1
  BY DEF CreateChallenge, IInv, TypeOK
<1>4. challenges' = Invalidated(Kept(r.t), r.student) \cup {new}
  BY DEF CreateChallenge
<1> DEFINE old(c) == IF c.student = r.student /\ Live(c) THEN [c EXCEPT !.invalidated = TRUE] ELSE c
<1>5. ASSUME NEW c \in challenges
      PROVE  /\ old(c) \in ChallengeRows /\ old(c).id = c.id /\ old(c).student = c.student
             /\ old(c).sent = c.sent /\ ~(old(c).consumed /\ old(c).invalidated)
             /\ Live(old(c)) => Live(c) /\ c.student # r.student
  BY RowsTyped DEF ChallengeRows, Live
<1>6. ASSUME NEW d \in challenges', d # new
      PROVE  \E c \in Kept(r.t) : d = old(c) /\ c \in challenges
  BY <1>4, <1>6, KeptIsFewer DEF Invalidated
<1>7. \A c \in challenges : c.id <= drawn.challenges /\ c.id \in Nat /\ drawn.challenges \in Nat
  BY RowsTyped
<1> HIDE DEF old, new
<1>8. FreshCode(new)
  <2>1. ASSUME NEW d \in challenges', d.student = new.student, d # new
        PROVE  ~Live(d)
    <3>1. PICK c \in Kept(r.t) : d = old(c) /\ c \in challenges
      BY <1>6, <2>1
    <3> QED  BY <1>1, <1>2, <1>5, <2>1, <3>1
  <2> QED  BY <1>2, <1>3, <2>1 DEF FreshCode
<1>9. ASSUME NEW d \in challenges'
      PROVE  d \in ChallengeRows /\ ~(d.consumed /\ d.invalidated) /\ (Descends(d) \/ FreshCode(d))
  BY <1>2, <1>5, <1>6, <1>8 DEF Descends
<1>10. ASSUME NEW d \in challenges', NEW e \in challenges', d.id = e.id
       PROVE  d = e
  BY <1>2, <1>5, <1>6, <1>7, <1>10 DEF IInv, ChallengesOK
<1> QED  BY <1>3, <1>9, <1>10 DEF ChallengesStep

LEMMA MailFailedTables ==
    ASSUME IInv, NEW p \in Requests, MailFailed(p)
    PROVE  ChallengesStep
<1> DEFINE lost == {c \in challenges : Undelivered(c, req[p].challenge)}
           old(c) == IF c \in lost THEN [c EXCEPT !.invalidated = TRUE] ELSE c
<1>1. challenges' = {old(c) : c \in challenges} /\ drawn' = drawn
  BY DEF MailFailed
<1>2. ASSUME NEW c \in challenges
      PROVE  /\ old(c) \in ChallengeRows /\ old(c).id = c.id /\ old(c).student = c.student
             /\ old(c).sent = c.sent /\ ~(old(c).consumed /\ old(c).invalidated)
             /\ Live(old(c)) => Live(c)
  BY RowsTyped DEF ChallengeRows, Live, Undelivered
<1> HIDE DEF old
<1>3. \A d \in challenges' : d \in ChallengeRows /\ ~(d.consumed /\ d.invalidated) /\ Descends(d)
  BY <1>1, <1>2 DEF Descends
<1>4. \A d, e \in challenges' : d.id = e.id => d = e
  BY <1>1, <1>2 DEF IInv, ChallengesOK
<1> QED  BY <1>1, <1>3, <1>4 DEF ChallengesStep

LEMMA RefusalTables ==
    ASSUME IInv, NEW p \in Requests, CommitRefusal(p)
    PROVE  ChallengesStep
<1> DEFINE r == req[p]  tried == {c \in challenges : c.id = r.challenge}
           old(c) == IF c \in tried THEN Tried(c, r) ELSE c
<1>1. challenges' = {old(c) : c \in Kept(r.t)} /\ drawn' = drawn
  BY DEF CommitRefusal
<1>2. ASSUME NEW c \in challenges
      PROVE  /\ old(c) \in ChallengeRows /\ old(c).id = c.id /\ old(c).student = c.student
             /\ old(c).sent = c.sent /\ ~(old(c).consumed /\ old(c).invalidated)
             /\ Live(old(c)) => Live(c)
  <2>1. c \in tried => Live(c)
    BY DEF IInv, LockedLive, Verifying, CommitRefusal
  <2>2. CASE c \in tried
    BY <2>1, <2>2, TriedEnds
  <2>3. CASE c \notin tried
    BY <2>3, RowsTyped
  <2> QED  BY <2>2, <2>3
<1>3. Kept(r.t) \subseteq challenges
  BY KeptIsFewer
<1> HIDE DEF old
<1>4. \A d \in challenges' : d \in ChallengeRows /\ ~(d.consumed /\ d.invalidated) /\ Descends(d)
  BY <1>1, <1>2, <1>3 DEF Descends
<1>5. \A d, e \in challenges' : d.id = e.id => d = e
  BY <1>1, <1>2, <1>3 DEF IInv, ChallengesOK
<1> QED  BY <1>1, <1>4, <1>5 DEF ChallengesStep

LEMMA LoginTables ==
    ASSUME IInv, NEW p \in Requests, CommitLogin(p), drawn.logins + 1 \in 1..MaxLogins
    PROVE  ChallengesStep /\ SessionsStep
<1> DEFINE r == req[p]  new == NewSession(r.student, r.t)
           old(x) == IF x.student = r.student /\ x.revoked = Null THEN [x EXCEPT !.revoked = r.t] ELSE x
<1>1. r.t \in 0..MaxTime /\ r.student \in Students /\ At(p, "verify", "locked")
  BY DEF IInv, RequestsOK, RequestOK, CommitLogin, At
<1>2. drawn'.challenges = drawn.challenges /\ drawn'.logins = drawn.logins + 1
  BY DEF CommitLogin, IInv, TypeOK
<1>3. ChallengesStep
  <2>1. PICK c \in challenges : /\ c.id = r.challenge
                                /\ challenges' = (Kept(r.t) \ {c}) \cup {[c EXCEPT !.consumed = TRUE]}
    BY DEF CommitLogin
  <2>2. Live(c)
    BY <1>1, <2>1 DEF IInv, LockedLive, Verifying
  <2> DEFINE used == [c EXCEPT !.consumed = TRUE]
  <2>3. used \in ChallengeRows /\ ~used.invalidated /\ used.id = c.id /\ ~Live(used)
        /\ used.student = c.student /\ used.sent = c.sent
    BY <2>2, RowsTyped DEF ChallengeRows, Live
  <2> HIDE DEF used
  <2>4. \A d \in challenges' : d = used \/ (d \in challenges /\ d # c)
    BY <2>1, KeptIsFewer DEF used
  <2>5. \A d \in challenges' : d \in ChallengeRows /\ ~(d.consumed /\ d.invalidated) /\ Descends(d)
    BY <2>3, <2>4, RowsTyped DEF Descends
  <2>6. \A d, e \in challenges' : d.id = e.id => d = e
    BY <2>3, <2>4 DEF IInv, ChallengesOK
  <2> QED  BY <1>2, <2>5, <2>6 DEF ChallengesStep
<1>4. new \in SessionRows /\ new.gen <= new.rotated /\ new.id = drawn.logins + 1
      /\ new.student = r.student
  BY <1>1, SessionAssumption, BoundsAssumption DEF NewSession, SessionRows
<1>5. ASSUME NEW x \in sessions
      PROVE  /\ old(x) \in SessionRows /\ old(x).gen <= old(x).rotated /\ old(x).id = x.id
             /\ old(x).student = x.student /\ old(x).gen = x.gen /\ x.gen \in Nat
             /\ old(x).revoked = Null => x.revoked = Null /\ x.student # r.student
  BY <1>1, RowsTyped DEF SessionRows
<1>6. sessions' = Revoked(KeptSessions(r.t), r.student, r.t) \cup {new}
  BY DEF CommitLogin
<1>7. ASSUME NEW y \in sessions', y # new
      PROVE  \E x \in sessions : y = old(x)
  BY <1>6, <1>7, KeptIsFewer DEF Revoked
<1>8. \A x \in sessions : x.id <= drawn.logins /\ x.id \in Nat /\ drawn.logins \in Nat
  BY RowsTyped
<1> HIDE DEF old, new
<1>9. FreshSession(new)
  BY <1>2, <1>4, <1>5, <1>7 DEF FreshSession
<1>10. \A x \in sessions' : x \in SessionRows /\ x.gen <= x.rotated /\ (Continues(x) \/ FreshSession(x))
  BY <1>4, <1>5, <1>7, <1>9 DEF Continues
<1>11. ASSUME NEW x \in sessions', NEW y \in sessions', x.id = y.id
       PROVE  x = y
  BY <1>4, <1>5, <1>7, <1>8, <1>11 DEF IInv, SessionsOK
<1> QED  BY <1>2, <1>3, <1>10, <1>11 DEF SessionsStep

(* A session that is looked up keeps its type and never comes back.        *)
LEMMA LookedUpContinues ==
    ASSUME IInv, NEW x \in sessions, NEW t \in 0..MaxTime
    PROVE  LET y == LookedUp(x, t)
           IN  /\ y \in SessionRows /\ y.gen <= y.rotated /\ y.id = x.id /\ y.student = x.student
               /\ y.revoked = Null => x.revoked = Null /\ x.gen <= y.gen
<1>1. /\ x \in SessionRows /\ x.gen \in 0..MaxTime /\ x.rotated \in 0..MaxTime /\ x.gen <= x.rotated
      /\ MaxTime \in Nat /\ SessionRotation \in Nat \ {0}
  BY RowsTyped, SessionAssumption
<1>2. CASE x.revoked = Null /\ ~(x.expires <= t) /\ x.rotated <= t - SessionRotation
  <2> DEFINE g == x.gen + 1
  <2>1. LookedUp(x, t) = [x EXCEPT !.gen = g, !.rotated = t]
    BY <1>2 DEF LookedUp
  <2>2. g <= t /\ g \in 0..MaxTime /\ x.gen <= g
    BY <1>1, <1>2
  <2> HIDE DEF g
  <2>3. [x EXCEPT !.gen = g, !.rotated = t] \in SessionRows
    BY <1>1, <2>2 DEF SessionRows
  <2> QED  BY <1>1, <1>2, <2>1, <2>2, <2>3 DEF SessionRows
<1>3. CASE x.revoked = Null /\ x.expires <= t
  <2>1. LookedUp(x, t) = [x EXCEPT !.revoked = t]
    BY <1>3 DEF LookedUp
  <2> QED  BY <1>1, <1>3, <2>1 DEF SessionRows
<1>4. CASE LookedUp(x, t) = x
  BY <1>1, <1>4
<1> QED  BY <1>2, <1>3, <1>4 DEF LookedUp

LEMMA LookUpTables ==
    ASSUME IInv, NEW p \in Requests, LookUp(p)
    PROVE  SessionsStep
<1> DEFINE r == req[p]
           match == {x \in KeptSessions(r.t) : TokenOf(x) = r.token}
           old(x) == IF x \in match THEN LookedUp(x, r.t) ELSE x
<1>1. r.t \in 0..MaxTime /\ drawn' = drawn
  BY DEF IInv, RequestsOK, RequestOK, LookUp
<1>2. sessions' = (KeptSessions(r.t) \ match) \cup {LookedUp(x, r.t) : x \in match}
  BY DEF LookUp
<1>3. ASSUME NEW x \in sessions
      PROVE  /\ old(x) \in SessionRows /\ old(x).gen <= old(x).rotated /\ old(x).id = x.id
             /\ old(x).student = x.student
             /\ old(x).revoked = Null => x.revoked = Null /\ x.gen <= old(x).gen
  <2>1. CASE x \in match
    BY <1>1, <2>1, LookedUpContinues
  <2>2. CASE x \notin match
    BY <2>2, RowsTyped
  <2> QED  BY <2>1, <2>2
<1>4. \A y \in sessions' : \E x \in sessions : y = old(x)
  BY <1>2, KeptIsFewer
<1> HIDE DEF old
<1>5. \A x \in sessions' : x \in SessionRows /\ x.gen <= x.rotated /\ Continues(x)
  BY <1>3, <1>4 DEF Continues
<1>6. \A x, y \in sessions' : x.id = y.id => x = y
  BY <1>3, <1>4 DEF IInv, SessionsOK
<1> QED  BY <1>1, <1>5, <1>6 DEF SessionsStep

LEMMA LogoutTables ==
    ASSUME IInv, NEW p \in Requests, Logout(p)
    PROVE  SessionsStep
<1> DEFINE r == req[p]
           match == {x \in KeptSessions(r.t) : TokenOf(x) = r.token /\ x.revoked = Null}
           old(x) == IF x \in match THEN [x EXCEPT !.revoked = r.t] ELSE x
<1>1. r.t \in 0..MaxTime /\ drawn' = drawn
  BY DEF IInv, RequestsOK, RequestOK, Logout, At
<1>2. sessions' = (KeptSessions(r.t) \ match) \cup {[x EXCEPT !.revoked = r.t] : x \in match}
  BY DEF Logout
<1>3. ASSUME NEW x \in sessions
      PROVE  /\ old(x) \in SessionRows /\ old(x).gen <= old(x).rotated /\ old(x).id = x.id
             /\ old(x).student = x.student
             /\ old(x).revoked = Null => x.revoked = Null /\ x.gen <= old(x).gen
  BY <1>1, RowsTyped DEF SessionRows
<1>4. \A y \in sessions' : \E x \in sessions : y = old(x)
  BY <1>2, KeptIsFewer
<1> HIDE DEF old
<1>5. \A x \in sessions' : x \in SessionRows /\ x.gen <= x.rotated /\ Continues(x)
  BY <1>3, <1>4 DEF Continues
<1>6. \A x, y \in sessions' : x.id = y.id => x = y
  BY <1>3, <1>4 DEF IInv, SessionsOK
<1> QED  BY <1>1, <1>5, <1>6 DEF SessionsStep
-----------------------------------------------------------------------------
(* The requests in progress and the room they hold under the bounds.       *)
LEMMA Counted ==
    ASSUME NEW S \in SUBSET Requests
    PROVE  /\ Cardinality(S) \in Nat
           /\ \A T \in SUBSET S : Cardinality(T) \in Nat /\ Cardinality(T) <= Cardinality(S)
           /\ \A p \in Requests : Cardinality(S \cup {p}) \in Nat
                                  /\ Cardinality(S \cup {p}) <= Cardinality(S) + 1
           /\ \A p \in S : Cardinality(S) >= 1 /\ Cardinality(S \ {p}) = Cardinality(S) - 1
<1>1. IsFiniteSet(S) /\ Cardinality(S) \in Nat
  BY RequestsAssumption, FS_Subset, FS_CardinalityType
<1>2. ASSUME NEW T \in SUBSET S
      PROVE  Cardinality(T) \in Nat /\ Cardinality(T) <= Cardinality(S)
  BY <1>1, FS_Subset, FS_CardinalityType
<1>3. ASSUME NEW p \in Requests
      PROVE  Cardinality(S \cup {p}) \in Nat /\ Cardinality(S \cup {p}) <= Cardinality(S) + 1
  <2>1. \/ Cardinality(S \cup {p}) = Cardinality(S)
        \/ Cardinality(S \cup {p}) = Cardinality(S) + 1
    BY <1>1, FS_AddElement
  <2> QED  BY <1>1, <2>1
<1>4. ASSUME NEW p \in S
      PROVE  Cardinality(S) >= 1 /\ Cardinality(S \ {p}) = Cardinality(S) - 1
  <2>1. Cardinality(S \ {p}) \in Nat
    BY <1>2
  <2>2. Cardinality(S \ {p}) = Cardinality(S) - 1
    BY <1>1, FS_RemoveElement
  <2> QED  BY <1>1, <2>1, <2>2
<1> QED  BY <1>1, <1>2, <1>3, <1>4

LEMMA StartRoom ==
    ASSUME IInv, NEW p \in Requests, CreateChallenge(p)
    PROVE  drawn.challenges + 1 \in 1..MaxChallenges
<1>1. p \in OpenStarts /\ OpenStarts \in SUBSET Requests
  BY DEF CreateChallenge, OpenStarts
<1>2. Cardinality(OpenStarts) \in Nat /\ Cardinality(OpenStarts) >= 1
  BY <1>1, Counted
<1>3. drawn.challenges \in Nat /\ drawn.challenges + Cardinality(OpenStarts) <= MaxChallenges
  BY DEF IInv, TypeOK, RequestsOK
<1> QED  BY <1>2, <1>3, BoundsAssumption

LEMMA LoginRoom ==
    ASSUME IInv, NEW p \in Requests, CommitLogin(p)
    PROVE  drawn.logins + 1 \in 1..MaxLogins
<1>1. req[p].code # 0
  BY RowsTyped DEF CommitLogin, CodeAccepted
<1>2. p \in OpenLogins /\ OpenLogins \in SUBSET Requests
  BY <1>1 DEF CommitLogin, OpenLogins, At
<1>3. Cardinality(OpenLogins) \in Nat /\ Cardinality(OpenLogins) >= 1
  BY <1>2, Counted
<1>4. drawn.logins \in Nat /\ drawn.logins + Cardinality(OpenLogins) <= MaxLogins
  BY DEF IInv, TypeOK, RequestsOK
<1> QED  BY <1>3, <1>4, BoundsAssumption

Moved(p) ==
    /\ req' \in [Requests -> Reqs]
    /\ \A q \in Requests \ {p} : req'[q] = req[q]
    /\ RequestOK(req'[p], drawn'.challenges)

LEMMA MoveTo ==
    ASSUME IInv, NEW p \in Requests, NEW r \in Reqs, req' = [req EXCEPT ![p] = r],
           RequestOK(r, drawn'.challenges)
    PROVE  Moved(p)
BY DEF IInv, TypeOK, Moved

LEMMA NoReqTyped ==
    /\ NoReq \in Reqs /\ NoReq.step = "none" /\ NoReq.op = "none"
    /\ \A n \in Nat : RequestOK(NoReq, n)
BY BoundsAssumption DEF NoReq, Reqs, RequestOK, NoCookie, Keep

LEMMA FreedMoves ==
    ASSUME IInv, NEW p \in Requests, req' = [req EXCEPT ![p] = NoReq], drawn' = drawn
    PROVE  Moved(p)
<1>1. drawn' \in [challenges : Nat, logins : Nat]
  BY BoundsAssumption DEF IInv, TypeOK
<1>2. NoReq \in Reqs /\ RequestOK(NoReq, drawn'.challenges)
  BY <1>1, NoReqTyped
<1> QED  BY <1>2, MoveTo

LEMMA BeginStartMoves ==
    ASSUME IInv, NEW p \in Requests, NEW s \in Students, NEW a \in Addresses, BeginStart(p, s, a)
    PROVE  Moved(p)
<1> DEFINE r == [NoReq EXCEPT !.op = "start", !.step = "begun", !.student = s, !.address = a, !.t = now]
<1>1. NoReq \in Reqs /\ NoReq.challenge = 0 /\ NoReq.code = 0 /\ drawn' = drawn
      /\ now \in 0..MaxTime /\ drawn.challenges \in Nat
  BY NoReqTyped, BoundsAssumption DEF NoReq, BeginStart, IInv, TypeOK
<1>2. r \in Reqs
  BY <1>1 DEF Reqs
<1>3. RequestOK(r, drawn'.challenges)
  BY <1>1 DEF Reqs, RequestOK
<1> QED  BY <1>2, <1>3, MoveTo DEF BeginStart

LEMMA BeginVerifyMoves ==
    ASSUME IInv, NEW p \in Requests, NEW b \in Browsers, NEW s \in Students, NEW a \in Addresses,
           NEW code \in 0..drawn.challenges, BeginVerify(p, b, s, a, code)
    PROVE  Moved(p)
<1> DEFINE r == [NoReq EXCEPT !.op = "verify", !.step = "begun", !.browser = b, !.student = s,
                              !.address = a, !.code = code, !.t = now]
<1>1. code \in 0..MaxChallenges
  BY RowsTyped, BoundsAssumption
<1>2. NoReq \in Reqs /\ NoReq.challenge = 0 /\ NoReq.code = 0 /\ drawn' = drawn
      /\ now \in 0..MaxTime /\ drawn.challenges \in Nat
  BY NoReqTyped, BoundsAssumption DEF NoReq, BeginVerify, IInv, TypeOK
<1>3. r \in Reqs
  BY <1>1, <1>2 DEF Reqs
<1>4. RequestOK(r, drawn'.challenges)
  BY <1>2 DEF Reqs, RequestOK
<1> QED  BY <1>3, <1>4, MoveTo DEF BeginVerify

LEMMA BeginWithCookieMoves ==
    ASSUME IInv, NEW p \in Requests, NEW b \in Browsers, NEW op \in CookieOps,
           BeginWithCookie(p, b, op)
    PROVE  Moved(p)
<1> DEFINE r == [NoReq EXCEPT !.op = op, !.step = "begun", !.browser = b, !.token = cookie[b],
                              !.t = now]
<1>1. NoReq \in Reqs /\ NoReq.challenge = 0 /\ NoReq.code = 0 /\ drawn' = drawn
      /\ now \in 0..MaxTime /\ drawn.challenges \in Nat
  BY NoReqTyped, BoundsAssumption DEF NoReq, BeginWithCookie, IInv, TypeOK
<1>2. cookie[b] \in Tokens \cup {NoCookie}
  BY DEF IInv, TypeOK
<1>3. r \in Reqs
  BY <1>2, <1>1 DEF Reqs
<1>4. RequestOK(r, drawn'.challenges)
  BY <1>1 DEF Reqs, RequestOK, CookieOps
<1> QED  BY <1>3, <1>4, MoveTo DEF BeginWithCookie

LEMMA CreateChallengeMoves ==
    ASSUME IInv, NEW p \in Requests, CreateChallenge(p)
    PROVE  Moved(p)
<1> DEFINE r == [req[p] EXCEPT !.step = "mail", !.challenge = drawn.challenges + 1]
<1>1. req' = [req EXCEPT ![p] = r] /\ drawn'.challenges = drawn.challenges + 1
      /\ req[p] \in Reqs /\ RequestOK(req[p], drawn.challenges) /\ req[p].op = "start"
  BY DEF CreateChallenge, IInv, TypeOK, RequestsOK, At
<1>2. drawn.challenges + 1 \in 0..MaxChallenges
  BY StartRoom, BoundsAssumption
<1>3. r \in Reqs
  BY <1>1, <1>2 DEF Reqs
<1>4. RequestOK(r, drawn'.challenges)
  BY <1>1, <1>2 DEF Reqs, RequestOK
<1> QED  BY <1>1, <1>3, <1>4, MoveTo

LEMMA LockVerifyMoves ==
    ASSUME IInv, NEW p \in Requests, LockVerify(p)
    PROVE  Moved(p)
<1> DEFINE old == req[p]
           admitted == Admits("OTP_VERIFY", old.student, old.address, old.t)
           live == IF admitted THEN LiveOf(old.student) \cap Kept(old.t) ELSE {}
<1>1. /\ old \in Reqs /\ RequestOK(old, drawn.challenges) /\ old.op = "verify" /\ old.step = "begun"
      /\ old.student \in Students /\ drawn' = drawn
  BY DEF LockVerify, IInv, TypeOK, RequestsOK, RequestOK, At
<1>2. PICK c \in IF live = {} THEN {[id |-> 0]} ELSE Latest(live) :
         req' = [req EXCEPT ![p].step = "locked", ![p].admitted = admitted,
                            ![p].challenge = c.id, ![p].user = users[old.student]]
  BY DEF LockVerify
<1>3. c.id \in 0..MaxChallenges /\ c.id <= drawn.challenges
  <2>1. CASE live = {}
    BY <1>2, <2>1, RowsTyped, BoundsAssumption
  <2>2. CASE live # {}
    <3>1. c \in challenges
      BY <1>2, <2>2 DEF Latest, LiveOf
    <3> QED  BY <3>1, RowsTyped
  <2> QED  BY <2>1, <2>2
<1>4. users[old.student] \in 0..MaxLogins
  BY <1>1 DEF IInv, TypeOK
<1>5. admitted \in BOOLEAN
  BY DEF Admits
<1> HIDE DEF admitted
<1> DEFINE r == [old EXCEPT !.step = "locked", !.admitted = admitted, !.challenge = c.id,
                            !.user = users[old.student]]
<1>6. r \in Reqs
  BY <1>1, <1>3, <1>4, <1>5 DEF Reqs
<1>7. RequestOK(r, drawn'.challenges)
  BY <1>1, <1>3 DEF Reqs, RequestOK
<1>8. req' = [req EXCEPT ![p] = r]
  BY <1>2 DEF admitted, IInv, TypeOK
<1> QED  BY <1>6, <1>7, <1>8, MoveTo

LEMMA CommitLoginMoves ==
    ASSUME IInv, NEW p \in Requests, CommitLogin(p)
    PROVE  Moved(p)
<1> DEFINE old == req[p]
           token == TokenOf(NewSession(old.student, old.t))
           r == [old EXCEPT !.step = "answer", !.answer = token]
<1>1. /\ old \in Reqs /\ RequestOK(old, drawn.challenges) /\ old.op = "verify"
      /\ drawn'.challenges = drawn.challenges /\ req' = [req EXCEPT ![p] = r]
  BY DEF CommitLogin, IInv, TypeOK, RequestsOK, At
<1>2. token \in Tokens
  BY LoginRoom, BoundsAssumption DEF TokenOf, NewSession, Tokens
<1> HIDE DEF token
<1>3. r \in Reqs
  BY <1>1, <1>2 DEF Reqs
<1>4. RequestOK(r, drawn'.challenges)
  BY <1>1 DEF Reqs, RequestOK
<1> QED  BY <1>1, <1>3, <1>4, MoveTo

LEMMA AnswersTyped ==
    ASSUME IInv, NEW op \in {"session", "required", "optional"}, NEW t \in 0..MaxTime,
           NEW found \in SUBSET sessions, NEW a \in Answers(op, found, t)
    PROVE  a \in Tokens \cup {NoCookie, Keep}
<1>1. ASSUME NEW x \in found PROVE TokenOf(LookedUp(x, t)) \in Tokens
  <2>1. LookedUp(x, t) \in SessionRows
    BY LookedUpContinues
  <2> QED  BY <2>1 DEF TokenOf, Tokens, SessionRows
<1> DEFINE fresh == {TokenOf(LookedUp(x, t)) : x \in {y \in found : y.rotated <= t - SessionRotation}}
           set == IF found = {} THEN {NoCookie} ELSE IF fresh = {} THEN {Keep} ELSE fresh
<1>2. set \subseteq Tokens \cup {NoCookie, Keep}
  BY <1>1
<1>3. Answers(op, found, t) \subseteq set \cup {Keep}
  <2>1. CASE op = "session"
    BY <2>1 DEF Answers
  <2>2. CASE op = "required"
    BY <2>2 DEF Answers
  <2>3. CASE op = "optional"
    BY <2>3 DEF Answers
  <2> QED  BY <2>1, <2>2, <2>3
<1> HIDE DEF set
<1> QED  BY <1>2, <1>3

LEMMA LookUpMoves ==
    ASSUME IInv, NEW p \in Requests, LookUp(p)
    PROVE  Moved(p)
<1> DEFINE old == req[p]
           match == {x \in KeptSessions(old.t) : TokenOf(x) = old.token}
           found == {x \in match : Current(x, old.t)}
<1>1. /\ old \in Reqs /\ RequestOK(old, drawn.challenges) /\ old.t \in 0..MaxTime /\ drawn' = drawn
      /\ old.op \in {"session", "required", "optional", "delete"}
  BY DEF LookUp, IInv, TypeOK, RequestsOK, RequestOK
<1>2. found \in SUBSET sessions
  BY KeptIsFewer
<1>3. \/ /\ old.op # "delete"
         /\ \E answer \in Answers(old.op, found, old.t) :
               req' = [req EXCEPT ![p].step = "answer", ![p].answer = answer]
      \/ \E x \in found :
            req' = [req EXCEPT ![p].step = "admitted", ![p].student = x.student,
                               ![p].user = users[x.student]]
      \/ req' = [req EXCEPT ![p].step = "answer"]
  BY DEF LookUp
<1> HIDE DEF found
<1>4. CASE /\ old.op # "delete"
           /\ \E answer \in Answers(old.op, found, old.t) :
                 req' = [req EXCEPT ![p].step = "answer", ![p].answer = answer]
  <2>1. PICK answer \in Answers(old.op, found, old.t) :
           req' = [req EXCEPT ![p].step = "answer", ![p].answer = answer]
    BY <1>4
  <2> DEFINE r == [old EXCEPT !.step = "answer", !.answer = answer]
  <2>2. answer \in Tokens \cup {NoCookie, Keep}
    BY <1>1, <1>2, <1>4, AnswersTyped
  <2>3. r \in Reqs
    BY <1>1, <2>2 DEF Reqs
  <2>4. RequestOK(r, drawn'.challenges)
    BY <1>1 DEF Reqs, RequestOK
  <2>5. req' = [req EXCEPT ![p] = r]
    BY <2>1 DEF IInv, TypeOK
  <2> QED  BY <2>3, <2>4, <2>5, MoveTo
<1>5. CASE \E x \in found :
              req' = [req EXCEPT ![p].step = "admitted", ![p].student = x.student,
                                 ![p].user = users[x.student]]
  <2>1. PICK x \in found :
           req' = [req EXCEPT ![p].step = "admitted", ![p].student = x.student,
                              ![p].user = users[x.student]]
    BY <1>5
  <2> DEFINE r == [old EXCEPT !.step = "admitted", !.student = x.student, !.user = users[x.student]]
  <2>2. x.student \in Students
    BY <1>2, RowsTyped
  <2>3. users[x.student] \in 0..MaxLogins
    BY <2>2 DEF IInv, TypeOK
  <2>4. r \in Reqs
    BY <1>1, <2>2, <2>3 DEF Reqs
  <2>5. RequestOK(r, drawn'.challenges)
    BY <1>1, <2>2 DEF Reqs, RequestOK
  <2>6. req' = [req EXCEPT ![p] = r]
    BY <2>1 DEF IInv, TypeOK
  <2> QED  BY <2>4, <2>5, <2>6, MoveTo
<1>6. CASE req' = [req EXCEPT ![p].step = "answer"]
  <2> DEFINE r == [old EXCEPT !.step = "answer"]
  <2>1. r \in Reqs
    BY <1>1 DEF Reqs
  <2>2. RequestOK(r, drawn'.challenges)
    BY <1>1 DEF Reqs, RequestOK
  <2>3. req' = [req EXCEPT ![p] = r]
    BY <1>6 DEF IInv, TypeOK
  <2> QED  BY <2>1, <2>2, <2>3, MoveTo
<1> QED  BY <1>3, <1>4, <1>5, <1>6

LEMMA LogoutMoves ==
    ASSUME IInv, NEW p \in Requests, Logout(p)
    PROVE  Moved(p)
<1> DEFINE r == [req[p] EXCEPT !.step = "answer", !.answer = NoCookie]
<1>1. req[p] \in Reqs /\ RequestOK(req[p], drawn.challenges) /\ req' = [req EXCEPT ![p] = r] /\ drawn' = drawn
  BY DEF Logout, IInv, TypeOK, RequestsOK
<1>2. r \in Reqs
  BY <1>1 DEF Reqs
<1>3. RequestOK(r, drawn'.challenges)
  BY <1>1 DEF Reqs, RequestOK
<1> QED  BY <1>1, <1>2, <1>3, MoveTo

LEMMA DeletionMoves ==
    ASSUME IInv, NEW p \in Requests, DeleteUser(p) \/ BeginErase(p) \/ Erase(p)
    PROVE  Moved(p)
<1>1. req[p] \in Reqs /\ RequestOK(req[p], drawn.challenges) /\ req[p].student \in Students /\ drawn' = drawn
      /\ req[p].op = "delete"
  BY DEF DeleteUser, BeginErase, Erase, IInv, TypeOK, RequestsOK, RequestOK, At
<1>2. CASE DeleteUser(p)
  <2> DEFINE r == [req[p] EXCEPT !.step = "deleted"]
  <2>1. r \in Reqs /\ RequestOK(r, drawn'.challenges)
    BY <1>1 DEF Reqs, RequestOK
  <2>2. req' = [req EXCEPT ![p] = r]
    BY <1>2 DEF DeleteUser
  <2> QED  BY <2>1, <2>2, MoveTo
<1>3. CASE BeginErase(p)
  <2> DEFINE seen == {x.id : x \in {y \in sessions : y.student = req[p].student}}
             r == [req[p] EXCEPT !.step = "erasing", !.seen = seen]
  <2>1. seen \in SUBSET (1..MaxLogins)
    BY RowsTyped
  <2>2. req' = [req EXCEPT ![p] = r]
    BY <1>3 DEF BeginErase
  <2> HIDE DEF seen
  <2>3. r \in Reqs
    BY <1>1, <2>1 DEF Reqs
  <2>4. RequestOK(r, drawn'.challenges)
    BY <1>1 DEF Reqs, RequestOK
  <2> QED  BY <2>2, <2>3, <2>4, MoveTo
<1>4. CASE Erase(p)
  <2> DEFINE r == [req[p] EXCEPT !.step = "answer", !.answer = NoCookie]
  <2>1. r \in Reqs
    BY <1>1 DEF Reqs
  <2>2. RequestOK(r, drawn'.challenges)
    BY <1>1 DEF Reqs, RequestOK
  <2>3. req' = [req EXCEPT ![p] = r]
    BY <1>4 DEF Erase
  <2> QED  BY <2>1, <2>2, <2>3, MoveTo
<1> QED  BY <1>2, <1>3, <1>4
-----------------------------------------------------------------------------
(* What a step of a request does: to its record, to the tables, to rows    *)
(* that other verifications have locked, to the events.                    *)
Frees(p) == MailSent(p) \/ MailFailed(p) \/ RefuseStart(p) \/ CommitRefusal(p) \/ Answer(p) \/ Kill(p)

LEMMA FreesRequest ==
    ASSUME NEW p, Frees(p)
    PROVE  req' = [req EXCEPT ![p] = NoReq] /\ drawn' = drawn
<1> QED  BY DEF Frees, MailSent, MailFailed, RefuseStart, CommitRefusal, Answer, Kill

LEMMA StepMoves ==
    ASSUME IInv, NEW p \in Requests, RequestNext(p)
    PROVE  Moved(p)
<1>1. CASE \E s \in Students, a \in Addresses : BeginStart(p, s, a)
  BY <1>1, BeginStartMoves
<1>2. CASE Frees(p)
  BY <1>2, FreesRequest, FreedMoves
<1>3. CASE CreateChallenge(p)
  BY <1>3, CreateChallengeMoves
<1>4. CASE \E b \in Browsers, s \in Students, a \in Addresses, code \in 0..drawn.challenges :
              BeginVerify(p, b, s, a, code)
  BY <1>4, BeginVerifyMoves
<1>5. CASE LockVerify(p)
  BY <1>5, LockVerifyMoves
<1>6. CASE CommitLogin(p)
  BY <1>6, CommitLoginMoves
<1>7. CASE \E b \in Browsers, op \in CookieOps \cap Offered : BeginWithCookie(p, b, op)
  BY <1>7, BeginWithCookieMoves
<1>8. CASE LookUp(p)
  BY <1>8, LookUpMoves
<1>9. CASE Logout(p)
  BY <1>9, LogoutMoves
<1>10. CASE DeleteUser(p) \/ BeginErase(p) \/ Erase(p)
  BY <1>10, DeletionMoves
<1> QED  BY <1>1, <1>2, <1>3, <1>4, <1>5, <1>6, <1>7, <1>8, <1>9, <1>10 DEF RequestNext, Frees

LEMMA StepTables ==
    ASSUME IInv, NEW p \in Requests, RequestNext(p)
    PROVE  /\ ChallengesStep /\ SessionsStep
           /\ drawn' \in [challenges : 0..MaxChallenges, logins : 0..MaxLogins]
           /\ drawn.challenges <= drawn'.challenges
<1>1. drawn \in [challenges : 0..MaxChallenges, logins : 0..MaxLogins]
  BY DEF IInv, TypeOK
<1>2. CASE CreateChallenge(p)
  <2>1. drawn' = [drawn EXCEPT !.challenges = @ + 1] /\ drawn.challenges + 1 \in 1..MaxChallenges
    BY <1>2, StartRoom DEF CreateChallenge
  <2>2. ChallengesStep
    BY <1>2, <2>1, CreateChallengeTables
  <2>3. SessionsStep
    <3>1. sessions' \subseteq sessions /\ drawn'.logins = drawn.logins
      BY <1>1, <1>2, <2>1, KeptIsFewer DEF CreateChallenge
    <3>2. \A x \in sessions : x \in SessionRows /\ x.gen <= x.rotated /\ x.gen \in Nat
      BY RowsTyped
    <3>3. \A x \in sessions' : Continues(x)
      BY <3>1, <3>2 DEF Continues
    <3> QED  BY <3>1, <3>2, <3>3 DEF SessionsStep, IInv, SessionsOK
  <2> QED  BY <1>1, <2>1, <2>2, <2>3, BoundsAssumption
<1>3. CASE CommitLogin(p)
  <2>1. drawn' = [drawn EXCEPT !.logins = @ + 1] /\ drawn.logins + 1 \in 1..MaxLogins
    BY <1>3, LoginRoom DEF CommitLogin
  <2>2. ChallengesStep /\ SessionsStep
    BY <1>3, <2>1, LoginTables
  <2> QED  BY <1>1, <2>1, <2>2, BoundsAssumption
<1>4. CASE ~CreateChallenge(p) /\ ~CommitLogin(p)
  <2>1. drawn' = drawn
    BY <1>4 DEF RequestNext, BeginStart, RefuseStart, MailSent, MailFailed, BeginVerify, LockVerify,
                CommitRefusal, BeginWithCookie, LookUp, Logout, DeleteUser, BeginErase, Erase,
                Answer, Kill
  <2>2. ChallengesStep
    <3>1. CASE MailFailed(p)
      BY <3>1, MailFailedTables
    <3>2. CASE CommitRefusal(p)
      BY <3>2, RefusalTables
    <3>3. CASE ~MailFailed(p) /\ ~CommitRefusal(p)
      <4>1. challenges' \subseteq challenges
        BY <1>4, <3>3, KeptIsFewer
           DEF RequestNext, BeginStart, RefuseStart, Purge, MailSent, BeginVerify, LockVerify,
               BeginWithCookie, LookUp, Logout, DeleteUser, BeginErase, Erase, Answer, Kill
      <4> QED  BY <2>1, <4>1, FewerChallenges
    <3> QED  BY <3>1, <3>2, <3>3
  <2>3. SessionsStep
    <3>1. CASE LookUp(p)
      BY <3>1, LookUpTables
    <3>2. CASE Logout(p)
      BY <3>2, LogoutTables
    <3>3. CASE ~LookUp(p) /\ ~Logout(p)
      <4>1. sessions' \subseteq sessions
        BY <1>4, <3>3, KeptIsFewer
           DEF RequestNext, BeginStart, RefuseStart, Purge, MailSent, MailFailed, BeginVerify,
               LockVerify, CommitRefusal, BeginWithCookie, DeleteUser, BeginErase, Erase, Answer, Kill
      <4> QED  BY <2>1, <4>1, FewerSessions
    <3> QED  BY <3>1, <3>2, <3>3
  <2> QED  BY <1>1, <2>1, <2>2, <2>3, BoundsAssumption
<1> QED  BY <1>2, <1>3, <1>4

LEMMA LookUpEnds ==
    ASSUME IInv, NEW p \in Requests, LookUp(p)
    PROVE  req'[p].step \in {"answer", "admitted"} /\ req'[p].op # "verify"
<1> DEFINE r == req[p]
           match == {x \in KeptSessions(r.t) : TokenOf(x) = r.token}
           found == {x \in match : Current(x, r.t)}
<1>1. \/ \E answer \in Answers(r.op, found, r.t) :
            req' = [req EXCEPT ![p].step = "answer", ![p].answer = answer]
      \/ \E x \in found :
            req' = [req EXCEPT ![p].step = "admitted", ![p].student = x.student,
                               ![p].user = users[x.student]]
      \/ req' = [req EXCEPT ![p].step = "answer"]
  BY DEF LookUp
<1> HIDE DEF found
<1>2. req \in [Requests -> Reqs]
  BY DEF IInv, TypeOK
<1>3. ASSUME NEW a, req' = [req EXCEPT ![p].step = "answer", ![p].answer = a]
      PROVE  req'[p].step = "answer" /\ req'[p].op = r.op
  BY <1>2, <1>3 DEF Reqs
<1>4. ASSUME NEW s, NEW u,
             req' = [req EXCEPT ![p].step = "admitted", ![p].student = s, ![p].user = u]
      PROVE  req'[p].step = "admitted" /\ req'[p].op = r.op
  BY <1>2, <1>4 DEF Reqs
<1>5. ASSUME req' = [req EXCEPT ![p].step = "answer"]
      PROVE  req'[p].step = "answer" /\ req'[p].op = r.op
  BY <1>2, <1>5 DEF Reqs
<1>6. r.op # "verify"
  BY DEF LookUp
<1> QED  BY <1>1, <1>3, <1>4, <1>5, <1>6

Begins(p) ==
    \/ \E s \in Students, a \in Addresses : BeginStart(p, s, a)
    \/ \E b \in Browsers, s \in Students, a \in Addresses, code \in 0..drawn.challenges :
          BeginVerify(p, b, s, a, code)
    \/ \E b \in Browsers, op \in CookieOps \cap Offered : BeginWithCookie(p, b, op)

LEMMA BegunStep ==
    ASSUME IInv, NEW p \in Requests, Begins(p)
    PROVE  req'[p].step = "begun"
<1> DEFINE Begun == \E r : r.step = "begun" /\ req' = [req EXCEPT ![p] = r]
<1>1. ASSUME NEW s \in Students, NEW a \in Addresses, BeginStart(p, s, a) PROVE Begun
  BY <1>1 DEF BeginStart, NoReq
<1>2. ASSUME NEW b \in Browsers, NEW s \in Students, NEW a \in Addresses,
             NEW code \in 0..drawn.challenges, BeginVerify(p, b, s, a, code)
      PROVE  Begun
  BY <1>2 DEF BeginVerify, NoReq
<1>3. ASSUME NEW b \in Browsers, NEW op \in CookieOps, BeginWithCookie(p, b, op) PROVE Begun
  BY <1>3 DEF BeginWithCookie, NoReq
<1>4. Begun
  BY <1>1, <1>2, <1>3 DEF Begins
<1> QED  BY <1>4 DEF IInv, TypeOK

LEMMA BegunAtNow ==
    ASSUME IInv, NEW p \in Requests, Begins(p)
    PROVE  req'[p].t = now
<1> DEFINE Begun == \E r : r.t = now /\ req' = [req EXCEPT ![p] = r]
<1>1. ASSUME NEW s \in Students, NEW a \in Addresses, BeginStart(p, s, a) PROVE Begun
  BY <1>1 DEF BeginStart, NoReq
<1>2. ASSUME NEW b \in Browsers, NEW s \in Students, NEW a \in Addresses,
             NEW code \in 0..drawn.challenges, BeginVerify(p, b, s, a, code)
      PROVE  Begun
  BY <1>2 DEF BeginVerify, NoReq
<1>3. ASSUME NEW b \in Browsers, NEW op \in CookieOps, BeginWithCookie(p, b, op) PROVE Begun
  BY <1>3 DEF BeginWithCookie, NoReq
<1>4. Begun
  BY <1>1, <1>2, <1>3 DEF Begins
<1> QED  BY <1>4 DEF IInv, TypeOK

(* Where the other steps leave the request.                                *)
LEMMA OthersEnd ==
    ASSUME IInv, NEW p \in Requests, RequestNext(p), ~Begins(p), ~LockVerify(p)
    PROVE  /\ req'[p].step \notin {"begun", "locked"}
           /\ req'[p].op # "verify" \/ req'[p].step = "answer"
<1>1. req \in [Requests -> Reqs]
  BY DEF IInv, TypeOK
<1>2. CASE Frees(p)
  <2>1. req'[p] = NoReq
    BY <1>1, <1>2, FreesRequest
  <2> QED  BY <2>1 DEF NoReq
<1>3. CASE CreateChallenge(p)
  <2>1. req'[p].step = "mail" /\ req'[p].op = "start"
    BY <1>1, <1>3 DEF CreateChallenge, At, Reqs
  <2> QED  BY <2>1
<1>4. CASE CommitLogin(p) \/ Logout(p) \/ Erase(p)
  <2>1. req'[p].step = "answer"
    BY <1>1, <1>4 DEF CommitLogin, Logout, Erase, Reqs
  <2> QED  BY <2>1
<1>5. CASE LookUp(p)
  BY <1>5, LookUpEnds
<1>6. CASE DeleteUser(p) \/ BeginErase(p)
  <2>1. req'[p].step \in {"deleted", "erasing"} /\ req'[p].op = "delete"
    BY <1>1, <1>6 DEF DeleteUser, BeginErase, At, Reqs
  <2> QED  BY <2>1
<1> QED  BY <1>2, <1>3, <1>4, <1>5, <1>6 DEF RequestNext, Begins, Frees

(* A request is verifying after a step only if it was or has just locked.  *)
LEMMA VerifyingNext ==
    ASSUME IInv, NEW p \in Requests, RequestNext(p), NEW q \in Verifying'
    PROVE  \/ q # p /\ q \in Verifying /\ req'[q] = req[q]
           \/ q = p /\ LockVerify(p)
<1>1. q \in Requests /\ req'[q].op = "verify" /\ req'[q].step = "locked"
  BY DEF Verifying, At
<1>2. CASE q # p
  BY <1>1, <1>2, StepMoves DEF Moved, Verifying, At
<1>3. CASE q = p
  BY <1>1, <1>3, BegunStep, OthersEnd
<1> QED  BY <1>2, <1>3

LEMMA StartsNext ==
    ASSUME IInv, NEW p \in Requests, RequestNext(p)
    PROVE  drawn'.challenges + Cardinality(OpenStarts') <= MaxChallenges
<1> DEFINE n == drawn.challenges  S == OpenStarts
<1>1. /\ n \in Nat /\ MaxChallenges \in Nat /\ n + Cardinality(S) <= MaxChallenges
      /\ S \in SUBSET Requests
  BY BoundsAssumption DEF IInv, TypeOK, RequestsOK, OpenStarts
<1>2. \A q \in OpenStarts' : q \in S \/ q = p
  BY StepMoves DEF Moved, OpenStarts, At
<1>3. Cardinality(S) \in Nat /\ Cardinality(S \cup {p}) \in Nat
      /\ Cardinality(S \cup {p}) <= Cardinality(S) + 1
  BY <1>1, Counted
<1>4. CASE \E s \in Students, a \in Addresses : BeginStart(p, s, a)
  <2>1. n + Cardinality(S) < MaxChallenges /\ drawn' = drawn
    BY <1>4 DEF BeginStart
  <2>2. S \cup {p} \in SUBSET Requests /\ OpenStarts' \in SUBSET (S \cup {p})
    BY <1>1, <1>2
  <2>3. Cardinality(OpenStarts') \in Nat /\ Cardinality(OpenStarts') <= Cardinality(S \cup {p})
    BY <2>2, Counted
  <2> QED  BY <1>1, <1>3, <2>1, <2>3
<1>5. CASE CreateChallenge(p)
  <2>1. p \in S /\ drawn'.challenges = n + 1
    BY <1>5 DEF CreateChallenge, OpenStarts, IInv, TypeOK
  <2>2. p \notin OpenStarts'
    <3>1. req'[p].step = "mail"
      BY <1>5 DEF CreateChallenge, IInv, TypeOK, Reqs
    <3> QED  BY <3>1 DEF OpenStarts, At
  <2>3. OpenStarts' \in SUBSET (S \ {p}) /\ S \ {p} \in SUBSET Requests
    BY <1>1, <1>2, <2>2
  <2>4. Cardinality(OpenStarts') \in Nat /\ Cardinality(OpenStarts') <= Cardinality(S \ {p})
    BY <2>3, Counted
  <2>5. Cardinality(S \ {p}) = Cardinality(S) - 1
    BY <1>1, <2>1, Counted
  <2> QED  BY <1>1, <1>3, <2>1, <2>4, <2>5
<1>6. CASE ~CreateChallenge(p) /\ ~\E s \in Students, a \in Addresses : BeginStart(p, s, a)
  <2>1. drawn'.challenges = n
    BY <1>6 DEF RequestNext, BeginStart, RefuseStart, MailSent, MailFailed, BeginVerify, LockVerify,
                CommitRefusal, CommitLogin, BeginWithCookie, LookUp, Logout, DeleteUser, BeginErase,
                Erase, Answer, Kill, IInv, TypeOK
  <2>2. p \notin OpenStarts'
    <3>1. CASE LockVerify(p)
      <4>1. req'[p].op = "verify"
        BY <3>1 DEF LockVerify, At, IInv, TypeOK, Reqs
      <4> QED  BY <4>1 DEF OpenStarts, At
    <3>2. CASE Begins(p)
      <4> DEFINE Other == \E r : r.op # "start" /\ req' = [req EXCEPT ![p] = r]
      <4>1. ASSUME NEW b \in Browsers, NEW s \in Students, NEW a \in Addresses,
                   NEW code \in 0..n, BeginVerify(p, b, s, a, code)
            PROVE  Other
        BY <4>1 DEF BeginVerify, NoReq
      <4>2. ASSUME NEW b \in Browsers, NEW op \in CookieOps, BeginWithCookie(p, b, op)
            PROVE  Other
        BY <4>2 DEF BeginWithCookie, NoReq, CookieOps
      <4>3. Other
        BY <1>6, <3>2, <4>1, <4>2 DEF Begins
      <4>4. req'[p].op # "start"
        BY <4>3 DEF IInv, TypeOK
      <4> QED  BY <4>4 DEF OpenStarts, At
    <3>3. CASE ~LockVerify(p) /\ ~Begins(p)
      BY <3>3, OthersEnd DEF OpenStarts, At
    <3> QED  BY <3>1, <3>2, <3>3
  <2>3. OpenStarts' \in SUBSET S
    BY <1>2, <2>2
  <2>4. Cardinality(OpenStarts') \in Nat /\ Cardinality(OpenStarts') <= Cardinality(S)
    BY <1>1, <2>3, Counted
  <2> QED  BY <1>1, <1>3, <2>1, <2>4
<1> QED  BY <1>4, <1>5, <1>6

LEMMA LoginsNext ==
    ASSUME IInv, NEW p \in Requests, RequestNext(p)
    PROVE  drawn'.logins + Cardinality(OpenLogins') <= MaxLogins
<1> DEFINE n == drawn.logins  S == OpenLogins
           Typed == \E b \in Browsers, s \in Students, a \in Addresses, code \in 0..drawn.challenges :
                       BeginVerify(p, b, s, a, code)
<1>1. /\ n \in Nat /\ MaxLogins \in Nat /\ n + Cardinality(S) <= MaxLogins
      /\ S \in SUBSET Requests
  BY BoundsAssumption DEF IInv, TypeOK, RequestsOK, OpenLogins
<1>2. \A q \in OpenLogins' : q \in S \/ q = p
  BY StepMoves DEF Moved, OpenLogins
<1>3. Cardinality(S) \in Nat /\ Cardinality(S \cup {p}) \in Nat
      /\ Cardinality(S \cup {p}) <= Cardinality(S) + 1
  BY <1>1, Counted
<1>4. CASE CommitLogin(p)
  <2>1. req[p].code # 0
    BY <1>4, RowsTyped DEF CommitLogin, CodeAccepted
  <2>2. p \in S /\ drawn'.logins = n + 1
    BY <1>4, <2>1 DEF CommitLogin, OpenLogins, At, IInv, TypeOK
  <2>3. p \notin OpenLogins'
    <3>1. req'[p].step = "answer"
      BY <1>4 DEF CommitLogin, IInv, TypeOK, Reqs
    <3> QED  BY <3>1 DEF OpenLogins
  <2>4. OpenLogins' \in SUBSET (S \ {p}) /\ S \ {p} \in SUBSET Requests
    BY <1>1, <1>2, <2>3
  <2>5. Cardinality(OpenLogins') \in Nat /\ Cardinality(OpenLogins') <= Cardinality(S \ {p})
    BY <2>4, Counted
  <2>6. Cardinality(S \ {p}) = Cardinality(S) - 1
    BY <1>1, <2>2, Counted
  <2> QED  BY <1>1, <1>3, <2>2, <2>5, <2>6
<1>5. CASE ~CommitLogin(p)
  <2>1. drawn'.logins = n
    BY <1>5 DEF RequestNext, BeginStart, RefuseStart, CreateChallenge, MailSent, MailFailed,
                BeginVerify, LockVerify, CommitRefusal, BeginWithCookie, LookUp, Logout, DeleteUser,
                BeginErase, Erase, Answer, Kill, IInv, TypeOK
  <2>2. CASE p \in OpenLogins' /\ p \notin S
    <3>1. req'[p].op = "verify" /\ req'[p].step # "answer" /\ req'[p].code # 0
      BY <2>2 DEF OpenLogins
    <3>2. ~LockVerify(p)
      <4>1. LockVerify(p) => req'[p].code = req[p].code /\ At(p, "verify", "begun")
        BY DEF LockVerify, IInv, TypeOK, Reqs
      <4> QED  BY <2>2, <3>1, <4>1 DEF OpenLogins, At
    <3>3. Begins(p)
      BY <3>1, <3>2, OthersEnd
    <3>4. PICK b \in Browsers, s \in Students, a \in Addresses, code \in 0..drawn.challenges :
             BeginVerify(p, b, s, a, code)
      <4> DEFINE Other == \E r : r.op # "verify" /\ req' = [req EXCEPT ![p] = r]
      <4>1. ASSUME NEW s \in Students, NEW a \in Addresses, BeginStart(p, s, a) PROVE Other
        BY <4>1 DEF BeginStart, NoReq
      <4>2. ASSUME NEW b \in Browsers, NEW op \in CookieOps, BeginWithCookie(p, b, op)
            PROVE  Other
        BY <4>2 DEF BeginWithCookie, NoReq, CookieOps
      <4>3. Other => req'[p].op # "verify"
        BY DEF IInv, TypeOK
      <4> QED  BY <3>1, <3>3, <4>1, <4>2, <4>3 DEF Begins
    <3>5. req'[p].code = code
      <4>1. req' = [req EXCEPT ![p] = [NoReq EXCEPT !.op = "verify", !.step = "begun",
                                       !.browser = b, !.student = s, !.address = a,
                                       !.code = code, !.t = now]]
        BY <3>4 DEF BeginVerify
      <4> QED  BY <4>1 DEF IInv, TypeOK, NoReq
    <3>6. n + Cardinality(S) < MaxLogins
      BY <3>1, <3>4, <3>5 DEF BeginVerify
    <3>7. S \cup {p} \in SUBSET Requests /\ OpenLogins' \in SUBSET (S \cup {p})
      BY <1>1, <1>2
    <3>8. Cardinality(OpenLogins') \in Nat /\ Cardinality(OpenLogins') <= Cardinality(S \cup {p})
      BY <3>7, Counted
    <3> QED  BY <1>1, <1>3, <2>1, <3>6, <3>8
  <2>3. CASE ~(p \in OpenLogins' /\ p \notin S)
    <3>1. OpenLogins' \in SUBSET S
      BY <1>2, <2>3
    <3>2. Cardinality(OpenLogins') \in Nat /\ Cardinality(OpenLogins') <= Cardinality(S)
      BY <1>1, <3>1, Counted
    <3> QED  BY <1>1, <1>3, <2>1, <3>2
  <2> QED  BY <2>2, <2>3
<1> QED  BY <1>4, <1>5

LEMMA RequestsKeep ==
    ASSUME IInv, NEW p \in Requests, RequestNext(p)
    PROVE  RequestsOK'
<1>1. ASSUME NEW q \in Requests PROVE RequestOK(req'[q], drawn'.challenges)
  <2>1. CASE q = p
    BY <2>1, StepMoves DEF Moved
  <2>2. CASE q # p
    <3>1. req'[q] = req[q] /\ req[q].challenge \in Nat
      BY <2>2, StepMoves DEF Moved, IInv, TypeOK, Reqs
    <3>2. drawn.challenges \in Nat /\ drawn'.challenges \in Nat /\ drawn.challenges <= drawn'.challenges
      BY StepTables DEF IInv, TypeOK
    <3>3. RequestOK(req[q], drawn.challenges)
      BY DEF IInv, RequestsOK
    <3> QED  BY <3>1, <3>2, <3>3 DEF RequestOK
  <2> QED  BY <2>1, <2>2
<1> QED  BY <1>1, StartsNext, LoginsNext DEF RequestsOK

LEMMA AloneNext ==
    ASSUME IInv, NEW p \in Requests, RequestNext(p)
    PROVE  VerifyAlone'
<1> SUFFICES ASSUME NEW q \in Verifying', NEW s \in Verifying', q # s
             PROVE  req'[q].student # req'[s].student /\ req'[q].address # req'[s].address
  BY DEF VerifyAlone, LocksFree
<1>1. LockVerify(p) => /\ req'[p].student = req[p].student /\ req'[p].address = req[p].address
                       /\ LocksFree(p)
  BY DEF LockVerify, IInv, TypeOK, Reqs
<1>2. CASE q # p /\ s # p
  BY <1>2, VerifyingNext DEF IInv, VerifyAlone, LocksFree
<1>3. CASE q = p
  BY <1>1, <1>3, VerifyingNext DEF LocksFree
<1>4. CASE s = p
  BY <1>1, <1>4, VerifyingNext DEF LocksFree
<1> QED  BY <1>2, <1>3, <1>4

(* The challenge that another verification has locked is not changed.      *)
LEMMA LockedUntouched ==
    ASSUME IInv, NEW p \in Requests, RequestNext(p), NEW q \in Verifying, q # p,
           NEW d \in challenges', d.id = req[q].challenge
    PROVE  d \in challenges
<1>1. /\ req[q].challenge \in Nat /\ req[q].challenge <= drawn.challenges /\ drawn.challenges \in Nat
      /\ q \in Requests
  BY DEF IInv, TypeOK, RequestsOK, RequestOK, Reqs, Verifying
<1>2. \A c \in challenges : c.id = req[q].challenge => c.student = req[q].student
  BY DEF IInv, LockedLive
<1>3. CASE CreateChallenge(p)
  <2> DEFINE r == req[p]
  <2>1. CASE d = NewChallenge(r.student, r.t)
    BY <1>1, <2>1 DEF NewChallenge
  <2>2. CASE d # NewChallenge(r.student, r.t)
    <3>1. PICK c \in Kept(r.t) :
             d = IF c.student = r.student /\ Live(c) THEN [c EXCEPT !.invalidated = TRUE] ELSE c
      BY <1>3, <2>2 DEF CreateChallenge, Invalidated
    <3>2. c \in challenges /\ d.id = c.id
      BY <3>1, KeptIsFewer, RowsTyped DEF ChallengeRows
    <3>3. c.student # r.student
      BY <1>2, <1>3, <3>2 DEF CreateChallenge, LocksFree
    <3> QED  BY <3>1, <3>2, <3>3
  <2> QED  BY <2>1, <2>2
<1>4. CASE MailFailed(p)
  <2>1. PICK c \in challenges :
           d = IF c \in {e \in challenges : Undelivered(e, req[p].challenge)}
               THEN [c EXCEPT !.invalidated = TRUE] ELSE c
    BY <1>4 DEF MailFailed
  <2>2. d.id = c.id
    BY <2>1, RowsTyped DEF ChallengeRows
  <2>3. c.id # req[p].challenge
    BY <1>4, <2>1, <2>2 DEF MailFailed, ChallengesFree
  <2> QED  BY <2>1, <2>3 DEF Undelivered
<1>5. CASE CommitRefusal(p)
  <2> DEFINE r == req[p]
  <2>1. PICK c \in Kept(r.t) :
           d = IF c \in {e \in challenges : e.id = r.challenge} THEN Tried(c, r) ELSE c
    BY <1>5 DEF CommitRefusal
  <2>2. c \in challenges
    BY <2>1, KeptIsFewer
  <2>3. p \in Verifying
    BY <1>5 DEF CommitRefusal, Verifying
  <2>4. c.id # r.challenge
    <3> SUFFICES ASSUME c.id = r.challenge PROVE FALSE
      OBVIOUS
    <3>1. Live(c) /\ c.student = r.student
      BY <2>2, <2>3 DEF IInv, LockedLive
    <3>2. d.id = c.id
      BY <2>1, <2>2, <3>1, TriedEnds
    <3> QED  BY <1>2, <2>2, <2>3, <3>1, <3>2 DEF IInv, VerifyAlone, LocksFree
  <2> QED  BY <2>1, <2>2, <2>4
<1>6. CASE CommitLogin(p)
  <2> DEFINE r == req[p]
  <2>1. PICK c \in challenges : /\ c.id = r.challenge
                                /\ challenges' = (Kept(r.t) \ {c}) \cup {[c EXCEPT !.consumed = TRUE]}
    BY <1>6 DEF CommitLogin
  <2>2. p \in Verifying
    BY <1>6 DEF CommitLogin, Verifying
  <2>3. c.student = r.student
    BY <2>1, <2>2 DEF IInv, LockedLive
  <2>4. d # [c EXCEPT !.consumed = TRUE]
    <3>1. [c EXCEPT !.consumed = TRUE].id = c.id
      BY RowsTyped DEF ChallengeRows
    <3> QED  BY <1>2, <2>1, <2>2, <2>3, <3>1 DEF IInv, VerifyAlone, LocksFree
  <2> QED  BY <2>1, <2>4, KeptIsFewer
<1>7. CASE ~CreateChallenge(p) /\ ~MailFailed(p) /\ ~CommitRefusal(p) /\ ~CommitLogin(p)
  BY <1>7, KeptIsFewer
     DEF RequestNext, BeginStart, RefuseStart, Purge, MailSent, BeginVerify, LockVerify,
         BeginWithCookie, LookUp, Logout, DeleteUser, BeginErase, Erase, Answer, Kill
<1> QED  BY <1>3, <1>4, <1>5, <1>6, <1>7

LEMMA LockedNext ==
    ASSUME IInv, NEW p \in Requests, RequestNext(p)
    PROVE  LockedLive'
<1> SUFFICES ASSUME NEW q \in Verifying', NEW d \in challenges', d.id = req'[q].challenge
             PROVE  Live(d) /\ d.student = req'[q].student
  BY DEF LockedLive, Live
<1>1. CASE q # p
  <2>1. q \in Verifying /\ req'[q] = req[q]
    BY <1>1, VerifyingNext
  <2>2. d \in challenges
    BY <1>1, <2>1, LockedUntouched
  <2> QED  BY <2>1, <2>2 DEF IInv, LockedLive
<1>2. CASE q = p
  <2> DEFINE r == req[p]
             admitted == Admits("OTP_VERIFY", r.student, r.address, r.t)
             live == IF admitted THEN LiveOf(r.student) \cap Kept(r.t) ELSE {}
  <2>1. LockVerify(p)
    BY <1>2, VerifyingNext
  <2>2. PICK c \in IF live = {} THEN {[id |-> 0]} ELSE Latest(live) :
           req' = [req EXCEPT ![p].step = "locked", ![p].admitted = admitted,
                              ![p].challenge = c.id, ![p].user = users[r.student]]
    BY <2>1 DEF LockVerify
  <2>3. req'[p].challenge = c.id /\ req'[p].student = r.student
    BY <2>2 DEF IInv, TypeOK, Reqs
  <2>4. d \in challenges /\ d.id \in 1..MaxChallenges
    BY <2>1, RowsTyped DEF LockVerify
  <2>5. live # {}
    BY <1>2, <2>2, <2>3, <2>4
  <2>6. c \in LiveOf(r.student)
    BY <2>2, <2>5 DEF Latest
  <2> QED  BY <1>2, <2>3, <2>4, <2>6 DEF LiveOf, IInv, ChallengesOK
<1> QED  BY <1>1, <1>2
-----------------------------------------------------------------------------
(* The limits of sending and of verifying.                                 *)
AdmitsOne(p) ==
    \E kind \in Kinds :
        LET new == Event(kind, req[p].student, req[p].address, req[p].t)
        IN  /\ Admits(kind, req[p].student, req[p].address, req[p].t)
            /\ events' = Recent(req[p].t) \cup {new}
            /\ admissions' = admissions \cup {new}
            /\ kind = "OTP_START" => CreateChallenge(p)

AdmitsNone(p) ==
    /\ events' \subseteq events /\ admissions' \subseteq admissions
    /\ events' \subseteq admissions'
    /\ \A e \in events \cap admissions' :
          e \in events' \/ (InTransaction(p) /\ e.t < req[p].t - RateWindow)

LEMMA RecentLeaves ==
    ASSUME IInv, NEW p \in Requests, InTransaction(p), events' = Recent(req[p].t),
           admissions' = admissions
    PROVE  AdmitsNone(p)
<1>1. /\ req[p].t \in 0..MaxTime /\ MaxTime \in Nat /\ RateWindow \in Nat
      /\ \A e \in events : e.t \in 0..MaxTime /\ e \in admissions
  BY RateAssumption, BoundsAssumption
     DEF IInv, TypeOK, EventRows, RequestsOK, RequestOK, InTransaction, HistoryOK
<1>2. \A e \in events : e \in events' \/ e.t < req[p].t - RateWindow
  BY <1>1 DEF Recent
<1> QED  BY <1>1, <1>2 DEF AdmitsNone, Recent

LEMMA EventsStep ==
    ASSUME IInv, NEW p \in Requests, RequestNext(p)
    PROVE  \/ AdmitsNone(p)
           \/ /\ AdmitsOne(p) /\ LocksFree(p) /\ InTransaction(p)
              /\ req[p].student \in Students /\ req[p].address \in Addresses
              /\ req[p].t \in 0..MaxTime
<1>1. CASE CreateChallenge(p)
  <2>1. /\ req[p].student \in Students /\ req[p].address \in Addresses /\ req[p].t \in 0..MaxTime
        /\ InTransaction(p)
    BY <1>1 DEF CreateChallenge, IInv, RequestsOK, RequestOK, At, InTransaction
  <2>2. AdmitsOne(p) /\ LocksFree(p)
    BY <1>1 DEF CreateChallenge, AdmitsOne, Kinds
  <2> QED  BY <2>1, <2>2
<1>2. CASE CommitRefusal(p) \/ CommitLogin(p)
  <2>1. /\ p \in Verifying /\ events' = Recent(req[p].t) \cup Attempt(req[p])
        /\ admissions' = admissions \cup Attempt(req[p]) /\ InTransaction(p)
    BY <1>2 DEF CommitRefusal, CommitLogin, Verifying, InTransaction, At
  <2>2. CASE req[p].admitted
    <3>1. /\ req[p].student \in Students /\ req[p].address \in Addresses /\ req[p].t \in 0..MaxTime
      BY <2>1 DEF IInv, RequestsOK, RequestOK, Verifying, At
    <3>2. LocksFree(p)
      BY <2>1 DEF IInv, VerifyAlone
    <3>3. Admits("OTP_VERIFY", req[p].student, req[p].address, req[p].t)
      BY <2>1, <2>2 DEF IInv, RoomHolds
    <3>4. AdmitsOne(p)
      BY <2>1, <2>2, <3>3 DEF AdmitsOne, Attempt, Kinds
    <3> QED  BY <2>1, <3>1, <3>2, <3>4
  <2>3. CASE ~req[p].admitted
    <3>1. events' = Recent(req[p].t) /\ admissions' = admissions
      BY <2>1, <2>3 DEF Attempt
    <3> QED  BY <2>1, <3>1, RecentLeaves
  <2> QED  BY <2>2, <2>3
<1>3. CASE RefuseStart(p)
  <2>1. CASE events' = events
    BY <1>3, <2>1 DEF RefuseStart, AdmitsNone, IInv, HistoryOK
  <2>2. CASE events' = Recent(req[p].t)
    BY <1>3, <2>2, RecentLeaves DEF RefuseStart, InTransaction, At
  <2> QED  BY <1>3, <2>1, <2>2 DEF RefuseStart
<1>4. CASE Erase(p)
  BY <1>4 DEF Erase, AdmitsNone, IInv, HistoryOK
<1>5. CASE ~CreateChallenge(p) /\ ~CommitRefusal(p) /\ ~CommitLogin(p) /\ ~RefuseStart(p) /\ ~Erase(p)
  <2>1. events' = events /\ admissions' = admissions
    BY <1>5 DEF RequestNext, BeginStart, MailSent, MailFailed, BeginVerify, LockVerify,
                BeginWithCookie, LookUp, Logout, DeleteUser, BeginErase, Answer, Kill
  <2> QED  BY <2>1 DEF AdmitsNone, IInv, HistoryOK
<1> QED  BY <1>1, <1>2, <1>3, <1>4, <1>5

LEMMA SmallerSet ==
    ASSUME NEW S, IsFiniteSet(S), NEW T \in SUBSET S
    PROVE  IsFiniteSet(T) /\ Cardinality(T) \in Nat /\ Cardinality(S) \in Nat
           /\ Cardinality(T) <= Cardinality(S)
BY FS_Subset, FS_CardinalityType

LEMMA LimitsPositive ==
    ASSUME NEW kind
    PROVE  /\ AccountLimit(kind) \in Nat /\ AddressLimit(kind) \in Nat
           /\ AccountLimit(kind) > 0 /\ AddressLimit(kind) > 0
BY RateAssumption DEF AccountLimit, AddressLimit

LEMMA EventTyped ==
    ASSUME IInv, NEW kind \in Kinds, NEW s \in Students, NEW a \in Addresses, NEW t \in 0..MaxTime
    PROVE  LET e == Event(kind, s, a, t)
           IN  e \in EventRows /\ e.kind = kind /\ e.student = s /\ e.address = a /\ e.t = t
<1> DEFINE same == {e \in admissions : /\ e.kind = kind /\ e.student = s
                                      /\ e.address = a /\ e.t = t}
           n == Cardinality(same) + 1
<1>1. IsFiniteSet(admissions) /\ same \in SUBSET admissions
  BY DEF IInv, HistoryOK
<1>2. Cardinality(same) \in Nat
  BY <1>1, SmallerSet
<1>3. n \in Nat
  BY <1>2
<1>4. Event(kind, s, a, t) = [kind |-> kind, student |-> s, address |-> a, t |-> t, nth |-> n]
  BY DEF Event
<1> HIDE DEF n
<1> QED  BY <1>3, <1>4 DEF EventRows, Kinds

(* The clocks, as numbers.                                                 *)
LEMMA ClocksTyped ==
    ASSUME IInv
    PROVE  /\ now \in Nat /\ RateWindow \in Nat /\ MaxLag \in Nat /\ OtpRetention \in Nat
           /\ Cooldown \in Nat /\ OtpRetention >= Cooldown + MaxLag
           /\ \A e \in admissions : e.t \in Nat
           /\ \A p \in Requests : InTransaction(p) =>
                 req[p].t \in Nat /\ req[p].t <= now /\ now <= req[p].t + MaxLag
BY RateAssumption, BoundsAssumption, OtpAssumption
   DEF IInv, TypeOK, EventRows, LagOK, RequestsOK, RequestOK, InTransaction

LEMMA HistoryKeep ==
    ASSUME IInv, NEW p \in Requests, RequestNext(p), now' = now
    PROVE  HistoryOK' /\ events' \subseteq EventRows /\ admissions' \subseteq EventRows
<1>1. /\ IsFiniteSet(admissions) /\ events \subseteq admissions /\ admissions \subseteq EventRows
      /\ \A e \in admissions : e.t >= now - RateWindow => e \in events
  BY DEF IInv, HistoryOK, TypeOK
<1>2. CASE AdmitsNone(p)
  <2>1. IsFiniteSet(admissions')
    BY <1>1, <1>2, SmallerSet DEF AdmitsNone
  <2>2. \A e \in admissions' : e.t >= now - RateWindow => e \in events'
    BY <1>1, <1>2, ClocksTyped DEF AdmitsNone
  <2> QED  BY <1>1, <1>2, <2>1, <2>2 DEF AdmitsNone, HistoryOK
<1>3. CASE ~AdmitsNone(p)
  <2>1. /\ AdmitsOne(p) /\ InTransaction(p) /\ req[p].student \in Students
        /\ req[p].address \in Addresses /\ req[p].t \in 0..MaxTime
    BY <1>3, EventsStep
  <2>2. PICK new \in EventRows : /\ events' = Recent(req[p].t) \cup {new}
                                 /\ admissions' = admissions \cup {new}
    BY <2>1, EventTyped DEF AdmitsOne
  <2>3. IsFiniteSet(admissions') /\ events' \subseteq admissions' /\ admissions' \subseteq EventRows
    BY <1>1, <2>2, FS_AddElement DEF Recent
  <2>4. \A e \in admissions' : e.t >= now - RateWindow => e \in events'
    BY <1>1, <2>1, <2>2, ClocksTyped DEF Recent
  <2> QED  BY <2>3, <2>4 DEF HistoryOK
<1> QED  BY <1>2, <1>3

(* Of what is in the shorter window of a new admission, its request has    *)
(* counted every row.                                                      *)
LEMMA WindowCounted ==
    ASSUME IInv, NEW p \in Requests, InTransaction(p), NEW first \in Int,
           req[p].t >= first, req[p].t <= first + RateWindow - MaxLag,
           NEW e \in admissions, e.t >= first
    PROVE  e \in Recent(req[p].t)
<1>1. e.t >= now - RateWindow /\ e.t >= req[p].t - RateWindow
  BY ClocksTyped
<1> QED  BY <1>1 DEF IInv, HistoryOK, Recent

LEMMA OneMore ==
    ASSUME NEW R, IsFiniteSet(R), NEW new, NEW W \in SUBSET (R \cup {new}),
           NEW limit \in Nat, Cardinality(R) < limit
    PROVE  Cardinality(W) <= limit
<1>1. /\ IsFiniteSet(R \cup {new}) /\ Cardinality(R) \in Nat
      /\ \/ Cardinality(R \cup {new}) = Cardinality(R)
         \/ Cardinality(R \cup {new}) = Cardinality(R) + 1
  BY FS_AddElement, FS_CardinalityType
<1>2. Cardinality(W) \in Nat /\ Cardinality(W) <= Cardinality(R \cup {new})
  BY <1>1, SmallerSet
<1> QED  BY <1>1, <1>2

LEMMA WindowsKeep ==
    ASSUME IInv, NEW p \in Requests, RequestNext(p)
    PROVE  WindowsOK'
<1> SUFFICES ASSUME NEW k \in Kinds, NEW first \in Int
             PROVE  WithinLimits(AdmittedIn(k, first, first + RateWindow - MaxLag)', k)
  BY DEF WindowsOK, WithinLimits, AccountLimit, AddressLimit
<1> DEFINE S == AdmittedIn(k, first, first + RateWindow - MaxLag)
           S2 == AdmittedIn(k, first, first + RateWindow - MaxLag)'
<1>1. WithinLimits(S, k) /\ IsFiniteSet(admissions) /\ IsFiniteSet(S)
  <2>1. IsFiniteSet(admissions) /\ S \in SUBSET admissions
    BY DEF IInv, HistoryOK, AdmittedIn
  <2> QED  BY <2>1, SmallerSet DEF IInv, WindowsOK
<1>2. CASE S2 \subseteq S
  <2> HIDE DEF S, S2
  <2>1. ASSUME NEW s \in Students PROVE Cardinality({e \in S2 : e.student = s}) <= AccountLimit(k)
    <3> DEFINE T == {e \in S : e.student = s}  T2 == {e \in S2 : e.student = s}
    <3>1. IsFiniteSet(T) /\ T2 \in SUBSET T /\ Cardinality(T) <= AccountLimit(k)
      BY <1>1, <1>2, SmallerSet DEF WithinLimits
    <3> HIDE DEF T, T2
    <3>2. Cardinality(T2) <= AccountLimit(k)
      BY <3>1, SmallerSet, LimitsPositive
    <3> QED  BY <3>2 DEF T2
  <2>2. ASSUME NEW a \in Addresses PROVE Cardinality({e \in S2 : e.address = a}) <= AddressLimit(k)
    <3> DEFINE T == {e \in S : e.address = a}  T2 == {e \in S2 : e.address = a}
    <3>1. IsFiniteSet(T) /\ T2 \in SUBSET T /\ Cardinality(T) <= AddressLimit(k)
      BY <1>1, <1>2, SmallerSet DEF WithinLimits
    <3> HIDE DEF T, T2
    <3>2. Cardinality(T2) <= AddressLimit(k)
      BY <3>1, SmallerSet, LimitsPositive
    <3> QED  BY <3>2 DEF T2
  <2>3. WithinLimits(S2, k)
    BY <2>1, <2>2 DEF WithinLimits
  <2> QED  BY <2>3 DEF S2
<1>3. CASE ~(S2 \subseteq S)
  <2>1. /\ AdmitsOne(p) /\ InTransaction(p) /\ req[p].student \in Students
        /\ req[p].address \in Addresses /\ req[p].t \in 0..MaxTime
    BY <1>3, EventsStep DEF AdmitsNone, AdmittedIn
  <2>2. PICK kind \in Kinds, new \in EventRows :
           /\ new.kind = kind /\ new.student = req[p].student /\ new.address = req[p].address
           /\ new.t = req[p].t /\ Admits(kind, req[p].student, req[p].address, req[p].t)
           /\ admissions' = admissions \cup {new}
    BY <2>1, EventTyped DEF AdmitsOne
  <2>3. new \in S2 /\ k = kind
    BY <1>3, <2>2 DEF AdmittedIn
  <2>4. \A e \in S2 : e = new \/ (e \in S /\ e \in Recent(req[p].t) /\ e.kind = k)
    <3>1. req[p].t >= first /\ req[p].t <= first + RateWindow - MaxLag
      BY <2>2, <2>3 DEF AdmittedIn
    <3>2. \A e \in S2 : e = new \/ (e \in admissions /\ e \in S /\ e.t >= first /\ e.kind = k)
      BY <2>2 DEF AdmittedIn
    <3> QED  BY <2>1, <3>1, <3>2, WindowCounted
  <2>5. IsFiniteSet(Recent(req[p].t))
    BY <1>1, SmallerSet DEF IInv, HistoryOK, Recent
  <2> HIDE DEF S, S2
  <2>6. ASSUME NEW s \in Students PROVE Cardinality({e \in S2 : e.student = s}) <= AccountLimit(k)
    <3> DEFINE T == {e \in S : e.student = s}  T2 == {e \in S2 : e.student = s}
               R == {e \in Recent(req[p].t) : e.kind = k /\ e.student = s}
    <3>1. IsFiniteSet(T) /\ Cardinality(T) <= AccountLimit(k) /\ IsFiniteSet(R)
      BY <1>1, <2>5, SmallerSet DEF WithinLimits
    <3>2. CASE s = req[p].student
      <4>1. T2 \in SUBSET (R \cup {new}) /\ Cardinality(R) < AccountLimit(k)
        BY <2>2, <2>3, <2>4, <3>2 DEF Admits
      <4> HIDE DEF T2, R
      <4>2. Cardinality(T2) <= AccountLimit(k)
        BY <3>1, <4>1, OneMore, LimitsPositive
      <4> QED  BY <4>2 DEF T2
    <3>3. CASE s # req[p].student
      <4>1. T2 \in SUBSET T
        BY <2>2, <2>4, <3>3
      <4> HIDE DEF T, T2
      <4>2. Cardinality(T2) <= AccountLimit(k)
        BY <3>1, <4>1, SmallerSet, LimitsPositive
      <4> QED  BY <4>2 DEF T2
    <3> QED  BY <3>2, <3>3
  <2>7. ASSUME NEW a \in Addresses PROVE Cardinality({e \in S2 : e.address = a}) <= AddressLimit(k)
    <3> DEFINE T == {e \in S : e.address = a}  T2 == {e \in S2 : e.address = a}
               R == {e \in Recent(req[p].t) : e.kind = k /\ e.address = a}
    <3>1. IsFiniteSet(T) /\ Cardinality(T) <= AddressLimit(k) /\ IsFiniteSet(R)
      BY <1>1, <2>5, SmallerSet DEF WithinLimits
    <3>2. CASE a = req[p].address
      <4>1. T2 \in SUBSET (R \cup {new}) /\ Cardinality(R) < AddressLimit(k)
        BY <2>2, <2>3, <2>4, <3>2 DEF Admits
      <4> HIDE DEF T2, R
      <4>2. Cardinality(T2) <= AddressLimit(k)
        BY <3>1, <4>1, OneMore, LimitsPositive
      <4> QED  BY <4>2 DEF T2
    <3>3. CASE a # req[p].address
      <4>1. T2 \in SUBSET T
        BY <2>2, <2>4, <3>3
      <4> HIDE DEF T, T2
      <4>2. Cardinality(T2) <= AddressLimit(k)
        BY <3>1, <4>1, SmallerSet, LimitsPositive
      <4> QED  BY <4>2 DEF T2
    <3> QED  BY <3>2, <3>3
  <2>8. WithinLimits(S2, k)
    BY <2>6, <2>7 DEF WithinLimits
  <2> QED  BY <2>8 DEF S2
<1> QED  BY <1>2, <1>3

(* The row of a code goes only when it is old or its account is deleted.   *)
LEMMA CodeStays ==
    ASSUME IInv, NEW p \in Requests, RequestNext(p), NEW c \in challenges,
           Erase(p) => c.student # req[p].student,
           InTransaction(p) => c.sent >= req[p].t - OtpRetention
    PROVE  \E d \in challenges' : d.student = c.student /\ d.sent = c.sent
<1>1. c \in ChallengeRows /\ c.sent \in Nat /\ OtpRetention \in Nat
  BY RowsTyped, OtpAssumption
<1>2. InTransaction(p) => c \in Kept(req[p].t)
  BY <1>1, ClocksTyped DEF Kept, OldChallenges
<1>3. CASE CreateChallenge(p)
  <2>1. c \in Kept(req[p].t)
    BY <1>2, <1>3 DEF CreateChallenge, InTransaction, At
  <2> DEFINE d == IF c.student = req[p].student /\ Live(c) THEN [c EXCEPT !.invalidated = TRUE] ELSE c
  <2>2. d \in challenges'
    BY <1>3, <2>1 DEF CreateChallenge, Invalidated
  <2>3. d.student = c.student /\ d.sent = c.sent
    BY <1>1 DEF ChallengeRows
  <2> QED  BY <2>2, <2>3
<1>4. CASE MailFailed(p)
  <2> DEFINE d == IF Undelivered(c, req[p].challenge) THEN [c EXCEPT !.invalidated = TRUE] ELSE c
  <2>1. d \in challenges'
    BY <1>4 DEF MailFailed
  <2>2. d.student = c.student /\ d.sent = c.sent
    BY <1>1 DEF ChallengeRows
  <2> QED  BY <2>1, <2>2
<1>5. CASE CommitRefusal(p)
  <2>1. c \in Kept(req[p].t)
    BY <1>2, <1>5 DEF CommitRefusal, InTransaction, At
  <2> DEFINE d == IF c.id = req[p].challenge THEN Tried(c, req[p]) ELSE c
  <2>2. d \in challenges'
    BY <1>5, <2>1 DEF CommitRefusal
  <2>3. d.student = c.student /\ d.sent = c.sent
    BY <1>1 DEF ChallengeRows, Tried
  <2> QED  BY <2>2, <2>3
<1>6. CASE CommitLogin(p)
  <2>1. c \in Kept(req[p].t)
    BY <1>2, <1>6 DEF CommitLogin, InTransaction, At
  <2>2. PICK b \in challenges : challenges' = (Kept(req[p].t) \ {b}) \cup {[b EXCEPT !.consumed = TRUE]}
    BY <1>6 DEF CommitLogin
  <2>3. b \in ChallengeRows
    BY RowsTyped
  <2> DEFINE d == [b EXCEPT !.consumed = TRUE]
  <2>4. d \in challenges' /\ d.student = b.student /\ d.sent = b.sent
    BY <2>2, <2>3 DEF ChallengeRows
  <2> QED  BY <2>1, <2>2, <2>4
<1>7. CASE RefuseStart(p) \/ LookUp(p) \/ Logout(p)
  <2>1. challenges' = Kept(req[p].t) /\ InTransaction(p)
    BY <1>7 DEF RefuseStart, Purge, LookUp, Logout, InTransaction, At
  <2> QED  BY <1>2, <2>1
<1>8. CASE Erase(p)
  BY <1>8 DEF Erase
<1>9. CASE ~CreateChallenge(p) /\ ~MailFailed(p) /\ ~CommitRefusal(p) /\ ~CommitLogin(p)
           /\ ~RefuseStart(p) /\ ~LookUp(p) /\ ~Logout(p) /\ ~Erase(p)
  <2>1. challenges' = challenges
    BY <1>9 DEF RequestNext, BeginStart, MailSent, BeginVerify, LockVerify, BeginWithCookie,
                DeleteUser, BeginErase, Answer, Kill
  <2> QED  BY <2>1
<1> QED  BY <1>3, <1>4, <1>5, <1>6, <1>7, <1>8, <1>9

(* A step that admits a start creates its code, and only a deletion takes  *)
(* admissions away.                                                        *)
LEMMA StartAdmitted ==
    ASSUME IInv, NEW p \in Requests, RequestNext(p), NEW e \in admissions', e \notin admissions,
           e.kind = "OTP_START"
    PROVE  /\ CreateChallenge(p) /\ InTransaction(p) /\ e.student = req[p].student
           /\ e.t = req[p].t /\ admissions' = admissions \cup {e}
<1>1. /\ AdmitsOne(p) /\ InTransaction(p) /\ req[p].student \in Students
      /\ req[p].address \in Addresses /\ req[p].t \in 0..MaxTime
  BY EventsStep DEF AdmitsNone
<1> QED  BY <1>1, EventTyped DEF AdmitsOne

LEMMA CodesKeep ==
    ASSUME IInv, NEW p \in Requests, RequestNext(p), now' = now
    PROVE  CodesOK'
<1> SUFFICES ASSUME NEW e \in admissions', e.kind = "OTP_START", e.t >= now - OtpRetention
             PROVE  \E c \in challenges' : c.student = e.student /\ c.sent = e.t
  BY DEF CodesOK
<1>1. CASE e \in admissions
  <2>1. PICK c \in challenges : c.student = e.student /\ c.sent = e.t
    BY <1>1 DEF IInv, CodesOK
  <2>2. Erase(p) => c.student # req[p].student
    BY <2>1 DEF Erase
  <2>3. InTransaction(p) => c.sent >= req[p].t - OtpRetention
    BY <1>1, <2>1, ClocksTyped
  <2> QED  BY <2>1, <2>2, <2>3, CodeStays
<1>2. CASE e \notin admissions
  <2>1. CreateChallenge(p) /\ e.student = req[p].student /\ e.t = req[p].t
    BY <1>2, StartAdmitted
  <2>2. NewChallenge(req[p].student, req[p].t) \in challenges'
    BY <2>1 DEF CreateChallenge
  <2> QED  BY <2>1, <2>2 DEF NewChallenge
<1> QED  BY <1>1, <1>2

(* A new code is later than the earlier ones of its student by the         *)
(* cooldown: those that are still there, by the check; those that were     *)
(* purged, because they are older than that.                               *)
LEMMA CooldownKeep ==
    ASSUME IInv, NEW p \in Requests, RequestNext(p)
    PROVE  CooldownKept'
<1>1. ASSUME NEW e \in admissions', NEW f \in admissions, e \notin admissions,
             e.kind = "OTP_START", f.kind = "OTP_START", e.student = f.student
      PROVE  e.t - f.t >= Cooldown
  <2>1. /\ CreateChallenge(p) /\ InTransaction(p) /\ e.student = req[p].student
        /\ e.t = req[p].t
    BY <1>1, StartAdmitted
  <2>2. CASE f.t >= now - OtpRetention
    <3>1. PICK c \in challenges : c.student = f.student /\ c.sent = f.t
      BY <1>1, <2>2 DEF IInv, CodesOK
    <3>2. c \in Kept(req[p].t)
      BY <2>1, <2>2, <3>1, ClocksTyped DEF Kept, OldChallenges
    <3>3. ~(req[p].t - c.sent < Cooldown)
      BY <1>1, <2>1, <3>1, <3>2 DEF CreateChallenge, Cooling
    <3> QED  BY <2>1, <3>1, <3>3, ClocksTyped
  <2>3. CASE ~(f.t >= now - OtpRetention)
    BY <2>1, <2>3, ClocksTyped
  <2> QED  BY <2>2, <2>3
<1>2. ASSUME NEW e \in admissions', e \notin admissions, e.kind = "OTP_START"
      PROVE  \A f \in admissions' : f = e \/ f \in admissions
  BY <1>2, StartAdmitted
<1> SUFFICES ASSUME NEW e \in admissions', NEW f \in admissions', e # f, e.kind = "OTP_START",
                    f.kind = "OTP_START", e.student = f.student
             PROVE  e.t - f.t >= Cooldown \/ f.t - e.t >= Cooldown
  BY DEF CooldownKept
<1>3. CASE e \in admissions /\ f \in admissions
  BY <1>3 DEF IInv, CooldownKept
<1>4. CASE ~(e \in admissions /\ f \in admissions)
  BY <1>1, <1>2, <1>4
<1> QED  BY <1>3, <1>4

LEMMA LagKeep ==
    ASSUME IInv, NEW p \in Requests, RequestNext(p), now' = now
    PROVE  LagOK'
<1> SUFFICES ASSUME NEW q \in Requests, InTransaction(q)'
             PROVE  req'[q].t <= now /\ now <= req'[q].t + MaxLag
  BY DEF LagOK
<1>1. CASE q # p
  BY <1>1, StepMoves DEF Moved, IInv, LagOK, InTransaction
<1>2. CASE q = p /\ Begins(p)
  BY <1>2, BegunAtNow, ClocksTyped
<1>3. CASE q = p /\ LockVerify(p)
  <2>1. InTransaction(p) /\ req'[p].t = req[p].t
    BY <1>3 DEF LockVerify, InTransaction, At, IInv, TypeOK, Reqs
  <2> QED  BY <1>3, <2>1 DEF IInv, LagOK
<1>4. CASE q = p /\ ~Begins(p) /\ ~LockVerify(p)
  BY <1>4, OthersEnd DEF InTransaction
<1> QED  BY <1>1, <1>2, <1>3, <1>4

(* Events of other students and addresses leave the room that was counted. *)
LEMMA RoomStays ==
    ASSUME IsFiniteSet(events), NEW k, NEW s, NEW a, NEW t, Admits(k, s, a, t),
           \A e \in events' : e \in events \/ (e.student # s /\ e.address # a)
    PROVE  Admits(k, s, a, t)'
<1> DEFINE S == {e \in Recent(t) : e.kind = k /\ e.student = s}
           A == {e \in Recent(t) : e.kind = k /\ e.address = a}
           S2 == {e \in Recent(t)' : e.kind = k /\ e.student = s}
           A2 == {e \in Recent(t)' : e.kind = k /\ e.address = a}
<1>1. IsFiniteSet(S) /\ IsFiniteSet(A)
  BY SmallerSet DEF Recent
<1>2. S2 \in SUBSET S /\ A2 \in SUBSET A
  BY DEF Recent
<1>3. Cardinality(S) < AccountLimit(k) /\ Cardinality(A) < AddressLimit(k)
  BY DEF Admits
<1>4. Cardinality(S2) < AccountLimit(k) /\ Cardinality(A2) < AddressLimit(k)
  <2> HIDE DEF S, A, S2, A2
  <2> QED  BY <1>1, <1>2, <1>3, SmallerSet, LimitsPositive
<1> QED  BY <1>4 DEF Admits

LEMMA RoomKeep ==
    ASSUME IInv, NEW p \in Requests, RequestNext(p)
    PROVE  RoomHolds'
<1> SUFFICES ASSUME NEW q \in Verifying', req'[q].admitted
             PROVE  Admits("OTP_VERIFY", req[q].student, req[q].address, req[q].t)'
  BY DEF RoomHolds
<1>1. CASE q # p
  <2>1. q \in Verifying /\ req'[q] = req[q] /\ q \in Requests
    BY <1>1, VerifyingNext DEF Verifying
  <2>2. PICK s, a, t : /\ s = req[q].student /\ a = req[q].address /\ t = req[q].t
                      /\ s = req'[q].student /\ a = req'[q].address /\ t = req'[q].t
                      /\ Admits("OTP_VERIFY", s, a, t)
    BY <2>1 DEF IInv, RoomHolds
  <2>3. \A e \in events' : e \in events \/ (e.student # s /\ e.address # a)
    <3>1. CASE AdmitsNone(p)
      BY <3>1 DEF AdmitsNone
    <3>2. CASE ~AdmitsNone(p)
      <4>1. /\ AdmitsOne(p) /\ LocksFree(p)
            /\ req[p].student \in Students /\ req[p].address \in Addresses /\ req[p].t \in 0..MaxTime
        BY <3>2, EventsStep
      <4>2. PICK kind \in Kinds :
               events' = Recent(req[p].t) \cup {Event(kind, req[p].student, req[p].address, req[p].t)}
        BY <4>1 DEF AdmitsOne
      <4>3. s # req[p].student /\ a # req[p].address
        BY <1>1, <2>1, <2>2, <4>1 DEF LocksFree
      <4>4. Event(kind, req[p].student, req[p].address, req[p].t).student = req[p].student
            /\ Event(kind, req[p].student, req[p].address, req[p].t).address = req[p].address
        BY <4>1, EventTyped
      <4> QED  BY <4>2, <4>3, <4>4 DEF Recent
    <3> QED  BY <3>1, <3>2
  <2>4. IsFiniteSet(events)
    BY SmallerSet DEF IInv, HistoryOK
  <2>5. Admits("OTP_VERIFY", s, a, t)'
    BY <2>2, <2>3, <2>4, RoomStays
  <2> QED  BY <2>2, <2>5 DEF Admits, Recent
<1>2. CASE q = p
  <2>1. LockVerify(p)
    BY <1>2, VerifyingNext
  <2>2. /\ req'[p].student = req[p].student /\ req'[p].address = req[p].address
        /\ req'[p].t = req[p].t /\ events' = events
        /\ req'[p].admitted = Admits("OTP_VERIFY", req[p].student, req[p].address, req[p].t)
    BY <2>1 DEF LockVerify, IInv, TypeOK, Reqs
  <2> QED  BY <1>2, <2>2 DEF Admits, Recent
<1> QED  BY <1>1, <1>2
-----------------------------------------------------------------------------
(* The inductive invariant.                                                *)
LEMMA TypeKeep ==
    ASSUME IInv, NEW p \in Requests, RequestNext(p)
    PROVE  TypeOK'
<1>1. now' = now
  BY DEF RequestNext, BeginStart, RefuseStart, CreateChallenge, MailSent, MailFailed, BeginVerify,
         LockVerify, CommitRefusal, CommitLogin, BeginWithCookie, LookUp, Logout, DeleteUser,
         BeginErase, Erase, Answer, Kill
<1>2. challenges' \subseteq ChallengeRows /\ sessions' \subseteq SessionRows
      /\ drawn' \in [challenges : 0..MaxChallenges, logins : 0..MaxLogins]
  BY StepTables DEF ChallengesStep, SessionsStep
<1>3. events' \subseteq EventRows /\ admissions' \subseteq EventRows
  BY <1>1, HistoryKeep
<1>4. req' \in [Requests -> Reqs]
  BY StepMoves DEF Moved
<1>5. users' \in [Students -> 0..MaxLogins]
  <2>1. users \in [Students -> 0..MaxLogins] /\ MaxLogins \in Nat
    BY BoundsAssumption DEF IInv, TypeOK
  <2>2. CASE CommitLogin(p)
    <3>1. drawn.logins + 1 \in 1..MaxLogins
      BY <2>2, LoginRoom
    <3> DEFINE n == drawn.logins + 1
    <3>2. n \in 0..MaxLogins
      BY <2>1, <3>1
    <3>3. users' = users \/ users' = [users EXCEPT ![req[p].student] = n]
      BY <2>2 DEF CommitLogin, UsersAfterLogin
    <3> HIDE DEF n
    <3> QED  BY <2>1, <3>2, <3>3
  <2>3. CASE DeleteUser(p)
    <3> DEFINE s == req[p].student  u == IF users[s] = req[p].user THEN 0 ELSE users[s]
    <3>1. s \in Students
      BY <2>3 DEF DeleteUser, At, IInv, RequestsOK, RequestOK
    <3>2. u \in 0..MaxLogins
      BY <2>1, <3>1
    <3>3. users' = [users EXCEPT ![s] = u]
      BY <2>3 DEF DeleteUser
    <3> HIDE DEF u, s
    <3> QED  BY <2>1, <3>2, <3>3
  <2>4. CASE ~CommitLogin(p) /\ ~DeleteUser(p)
    BY <2>1, <2>4
       DEF RequestNext, BeginStart, RefuseStart, CreateChallenge, MailSent, MailFailed, BeginVerify,
           LockVerify, CommitRefusal, BeginWithCookie, LookUp, Logout, BeginErase, Erase, Answer, Kill
  <2> QED  BY <2>2, <2>3, <2>4
<1>6. cookie' \in [Browsers -> Tokens \cup {NoCookie}]
  <2>1. cookie \in [Browsers -> Tokens \cup {NoCookie}]
    BY DEF IInv, TypeOK
  <2>2. CASE Answer(p)
    <3>1. req[p].answer \in Tokens \cup {NoCookie, Keep}
      BY DEF IInv, TypeOK, Reqs
    <3> QED  BY <2>1, <2>2, <3>1 DEF Answer
  <2>3. CASE ~Answer(p)
    BY <2>1, <2>3
       DEF RequestNext, BeginStart, RefuseStart, CreateChallenge, MailSent, MailFailed, BeginVerify,
           LockVerify, CommitRefusal, CommitLogin, BeginWithCookie, LookUp, Logout, DeleteUser,
           BeginErase, Erase, Kill
  <2> QED  BY <2>2, <2>3
<1> QED  BY <1>1, <1>2, <1>3, <1>4, <1>5, <1>6 DEF IInv, TypeOK

LEMMA ClockStays ==
    ASSUME NEW p, RequestNext(p)
    PROVE  now' = now
BY DEF RequestNext, BeginStart, RefuseStart, CreateChallenge, MailSent, MailFailed, BeginVerify,
       LockVerify, CommitRefusal, CommitLogin, BeginWithCookie, LookUp, Logout, DeleteUser,
       BeginErase, Erase, Answer, Kill

LEMMA OnlyClock ==
    ASSUME IInv, now' \in now..MaxTime, LagOK',
           UNCHANGED <<challenges, sessions, users, events, admissions, drawn, cookie, req>>
    PROVE  IInv'
<1>1. TypeOK'
  BY ClocksTyped DEF IInv, TypeOK
<1>2. ChallengesOK' /\ SessionsOK'
  BY DEF IInv, ChallengesOK, SessionsOK, Live
<1>3. RequestsOK'
  BY DEF IInv, RequestsOK, RequestOK, OpenStarts, OpenLogins, At
<1>4. VerifyAlone' /\ LockedLive'
  BY DEF IInv, VerifyAlone, LockedLive, LocksFree, Verifying, At, Live
<1>5. HistoryOK' /\ CodesOK'
  BY ClocksTyped, BoundsAssumption DEF IInv, HistoryOK, CodesOK
<1>6. RoomHolds'
  BY DEF IInv, RoomHolds, Admits, Recent, Verifying, At
<1>7. WindowsOK' /\ CooldownKept'
  BY DEF IInv, WindowsOK, WithinLimits, AdmittedIn, CooldownKept
<1> QED  BY <1>1, <1>2, <1>3, <1>4, <1>5, <1>6, <1>7 DEF IInv

LEMMA InitIInv ==
    ASSUME Init
    PROVE  IInv
<1>1. NoReq \in Reqs /\ RequestOK(NoReq, 0) /\ NoReq.step = "none" /\ NoReq.op = "none"
  BY NoReqTyped
<1>2. \A p \in Requests : req[p] = NoReq
  BY DEF Init
<1>3. OpenStarts = {} /\ OpenLogins = {} /\ Verifying = {}
  BY <1>1, <1>2 DEF OpenStarts, OpenLogins, Verifying, At
<1>4. Cardinality({}) = 0 /\ IsFiniteSet({})
  BY FS_EmptySet
<1>5. TypeOK
  BY <1>1, BoundsAssumption DEF Init, TypeOK
<1>6. RequestsOK
  BY <1>1, <1>2, <1>3, <1>4, BoundsAssumption DEF Init, RequestsOK
<1>7. HistoryOK /\ CodesOK /\ CooldownKept /\ LagOK
  BY <1>1, <1>2, <1>4 DEF Init, HistoryOK, CodesOK, CooldownKept, LagOK, InTransaction
<1>10. WindowsOK
  <2>1. ASSUME NEW k, NEW first, NEW last PROVE WithinLimits(AdmittedIn(k, first, last), k)
    <3>1. AdmittedIn(k, first, last) = {}
      BY DEF Init, AdmittedIn
    <3> QED  BY <1>4, <3>1, LimitsPositive DEF WithinLimits
  <2> QED  BY <2>1 DEF WindowsOK
<1>8. ChallengesOK /\ SessionsOK /\ LockedLive
  BY DEF Init, ChallengesOK, SessionsOK, LockedLive
<1>9. VerifyAlone /\ RoomHolds
  BY <1>3 DEF VerifyAlone, RoomHolds
<1> QED  BY <1>5, <1>6, <1>7, <1>8, <1>9, <1>10 DEF IInv

LEMMA NextIInv ==
    ASSUME IInv, [Next]_vars
    PROVE  IInv'
<1>1. CASE UNCHANGED vars
  <2>1. /\ UNCHANGED <<challenges, sessions, users, events, admissions, drawn, cookie, req>>
        /\ now' = now /\ now' \in now..MaxTime
    BY <1>1, BoundsAssumption DEF vars, IInv, TypeOK
  <2>2. LagOK'
    BY <2>1 DEF IInv, LagOK, InTransaction
  <2> QED  BY <2>1, <2>2, OnlyClock
<1>2. CASE Tick
  <2>1. now' \in now..MaxTime
    BY <1>2, BoundsAssumption DEF Tick, IInv, TypeOK
  <2>2. LagOK'
    BY <1>2, ClocksTyped DEF Tick, LagOK, InTransaction
  <2> QED  BY <1>2, <2>1, <2>2, OnlyClock DEF Tick
<1>3. ASSUME NEW p \in Requests, RequestNext(p)
      PROVE  IInv'
  <2>1. drawn' \in [challenges : Nat, logins : Nat] /\ ChallengesStep /\ SessionsStep
    BY <1>3, StepTables
  <2>2. ChallengesOK' /\ SessionsOK'
    BY <2>1, ChallengesKeep, SessionsKeep
  <2>3. HistoryOK' /\ CodesOK' /\ WindowsOK' /\ CooldownKept' /\ LagOK'
    BY <1>3, ClockStays, HistoryKeep, CodesKeep, WindowsKeep, CooldownKeep, LagKeep
  <2> QED  BY <1>3, <2>2, <2>3, TypeKeep, RequestsKeep, AloneNext, LockedNext, RoomKeep DEF IInv
<1> QED  BY <1>1, <1>2, <1>3 DEF Next

(* The tables, the locks and the room under the limits stay as described.  *)
THEOREM Invariance == Spec => []IInv
BY InitIInv, NextIInv, PTL DEF Spec
-----------------------------------------------------------------------------
LEMMA OneRow ==
    ASSUME NEW S, \A x, y \in S : x = y
    PROVE  Cardinality(S) <= 1
<1>1. CASE S = {}
  BY <1>1, FS_EmptySet
<1>2. CASE S # {}
  <2>1. PICK x \in S : S = {x}
    BY <1>2
  <2> QED  BY <2>1, FS_Singleton
<1> QED  BY <1>1, <1>2

(* Overlapping starts, verifications, mailer errors and deletions leave a  *)
(* student one usable code and one session (OneLivePerStudent).            *)
THEOREM OneOfEach == Spec => []OneLivePerStudent
<1>1. ASSUME IInv PROVE OneLivePerStudent
  <2>1. ASSUME NEW s \in Students PROVE Cardinality(LiveOf(s)) <= 1
    BY <1>1, OneRow DEF IInv, ChallengesOK, LiveOf
  <2>2. ASSUME NEW s \in Students PROVE Cardinality(ActiveSessions(s)) <= 1
    BY <1>1, OneRow DEF IInv, SessionsOK, ActiveSessions
  <2> QED  BY <1>1, <2>1, <2>2 DEF IInv, ChallengesOK, OneLivePerStudent, OneLiveChallenge,
                                   OneLiveSession, SettledOnce
<1> QED  BY <1>1, Invariance, PTL

(* The cooldown between two codes of an account, and the limits of every   *)
(* window that is shorter than the whole one by the lag of a transaction,  *)
(* counted over all that was ever admitted to accounts that were not       *)
(* deleted (SendingLimited).                                               *)
THEOREM SendingIsLimited == Spec => []SendingLimited
<1>1. IInv => SendingLimited
  BY BoundsAssumption DEF IInv, WindowsOK, SendingLimited, RateRespected, Kinds
<1> QED  BY <1>1, Invariance, PTL
-----------------------------------------------------------------------------
(* A session begins only in CommitLogin, whose challenge is still live:    *)
(* a code is used once, and not after it was replaced, exhausted or        *)
(* invalidated by the error of the mailer (LoginConsumesLiveCode).         *)
LEMMA NewSessionLogin ==
    ASSUME IInv, NEW p \in Requests, RequestNext(p), NEW x \in sessions', x.id > drawn.logins
    PROVE  CommitLogin(p) /\ x = NewSession(req[p].student, req[p].t)
<1>1. drawn.logins \in Nat /\ \A y \in sessions : y.id \in Nat /\ y.id <= drawn.logins
  BY RowsTyped
<1>2. ~Continues(x)
  BY <1>1 DEF Continues
<1>3. drawn'.logins = drawn.logins + 1
  BY <1>2, StepTables DEF SessionsStep, FreshSession
<1>4. CommitLogin(p)
  <2> SUFFICES ASSUME ~CommitLogin(p) PROVE drawn'.logins = drawn.logins
    BY <1>1, <1>3
  <2> QED  BY DEF RequestNext, BeginStart, RefuseStart, CreateChallenge, MailSent, MailFailed,
                BeginVerify, LockVerify, CommitRefusal, BeginWithCookie, LookUp, Logout, DeleteUser,
                BeginErase, Erase, Answer, Kill, IInv, TypeOK
<1>5. CASE x # NewSession(req[p].student, req[p].t)
  <2>1. PICK y \in KeptSessions(req[p].t) :
           x = IF y.student = req[p].student /\ y.revoked = Null
               THEN [y EXCEPT !.revoked = req[p].t] ELSE y
    BY <1>4, <1>5 DEF CommitLogin, Revoked
  <2>2. y \in sessions /\ x.id = y.id
    BY <2>1, KeptIsFewer, RowsTyped DEF SessionRows
  <2> QED  BY <1>1, <2>2
<1> QED  BY <1>4, <1>5

THEOREM CodesUsedOnce == Spec => LoginConsumesLiveCode
<1> DEFINE Consumes == \A x \in sessions' : x.id > drawn.logins =>
               \E c \in LiveOf(x.student) : [c EXCEPT !.consumed = TRUE] \in challenges'
<1>1. ASSUME IInv, [Next]_vars PROVE [Consumes]_vars
  <2> SUFFICES ASSUME NEW x \in sessions', x.id > drawn.logins, ~UNCHANGED vars
               PROVE  \E c \in LiveOf(x.student) : [c EXCEPT !.consumed = TRUE] \in challenges'
    OBVIOUS
  <2>1. ~Tick
    BY <1>1, RowsTyped DEF Tick
  <2>2. PICK p \in Requests : RequestNext(p)
    BY <1>1, <2>1 DEF Next
  <2>3. CommitLogin(p) /\ x.student = req[p].student
    BY <1>1, <2>2, NewSessionLogin DEF NewSession
  <2>4. PICK c \in challenges : /\ c.id = req[p].challenge
                                /\ [c EXCEPT !.consumed = TRUE] \in challenges'
    BY <2>3 DEF CommitLogin
  <2>5. c \in LiveOf(x.student)
    BY <1>1, <2>3, <2>4 DEF IInv, LockedLive, LiveOf, CommitLogin, Verifying
  <2> QED  BY <2>4, <2>5
<1>2. IInv /\ [Next]_vars => [Consumes]_vars
  BY <1>1
<1> QED  BY <1>2, Invariance, PTL DEF Spec, LoginConsumesLiveCode

(* Rotation, logout, another login, expiry and deletion are final: a token *)
(* that has stopped working never works again (DeadTokenStaysDead).        *)
THEOREM TokensStayDead == Spec => DeadTokenStaysDead
<1> DEFINE Alive(x) == \/ TokenOf(x) \in LiveTokens
                      \/ x.id > drawn.logins
                      \/ \E y \in sessions : y.id = x.id /\ y.revoked = Null /\ y.gen < x.gen
           StaysDead == \A x \in sessions' : x.revoked = Null =>
               \/ TokenOf(x) \in LiveTokens
               \/ x.id > drawn.logins
               \/ \E y \in sessions : y.id = x.id /\ y.revoked = Null /\ y.gen < x.gen
<1>1. ASSUME IInv, NEW x \in sessions, x.revoked = Null PROVE Alive(x)
  BY <1>1 DEF LiveTokens
<1>2. ASSUME IInv, SessionsStep, NEW x \in sessions', x.revoked = Null PROVE Alive(x)
  <2>1. CASE FreshSession(x)
    BY <1>2, <2>1, RowsTyped DEF FreshSession
  <2>2. CASE Continues(x)
    <3>1. PICK y \in sessions : y.id = x.id /\ y.revoked = Null /\ y.gen <= x.gen
      BY <1>2, <2>2 DEF Continues
    <3>2. y.gen \in Nat /\ x.gen \in Nat
      BY <1>2, RowsTyped DEF SessionsStep, SessionRows
    <3>3. CASE y.gen = x.gen
      BY <3>1, <3>3 DEF LiveTokens, TokenOf
    <3>4. CASE y.gen < x.gen
      BY <3>1, <3>4
    <3> QED  BY <3>1, <3>2, <3>3, <3>4
  <2> QED  BY <1>2, <2>1, <2>2 DEF SessionsStep
<1>3. ASSUME IInv, [Next]_vars PROVE StaysDead
  <2>1. CASE UNCHANGED vars \/ Tick
    <3>1. sessions' = sessions
      BY <2>1 DEF vars, Tick
    <3> QED  BY <1>1, <1>3, <3>1
  <2>2. CASE \E p \in Requests : RequestNext(p)
    BY <1>2, <1>3, <2>2, StepTables
  <2> QED  BY <1>3, <2>1, <2>2 DEF Next
<1>4. IInv /\ [Next]_vars => [StaysDead]_vars
  BY <1>3
<1> QED  BY <1>4, Invariance, PTL DEF Spec, DeadTokenStaysDead
-----------------------------------------------------------------------------
(* A verification that has seen an account may find it deleted when it     *)
(* commits.  While the challenge it has locked exists, that deletion is    *)
(* not over: it erases the challenges of the student, and waits for them.  *)
Erasing(q, s) == req[q].op = "delete" /\ req[q].step \in {"deleted", "erasing"} /\ req[q].student = s

AccountSeen ==
    \A p \in Verifying :
        /\ req[p].user # 0 /\ users[req[p].student] = 0
        /\ \E c \in challenges : c.id = req[p].challenge
        => \E q \in Requests : Erasing(q, req[p].student)

LEMMA UsersStep ==
    ASSUME IInv, NEW p \in Requests, RequestNext(p), NEW s \in Students, users'[s] = 0, users[s] # 0
    PROVE  DeleteUser(p) /\ req[p].student = s
<1>1. users \in [Students -> 0..MaxLogins]
  BY DEF IInv, TypeOK
<1>2. CASE DeleteUser(p)
  <2> DEFINE u == IF users[req[p].student] = req[p].user THEN 0 ELSE users[req[p].student]
  <2>1. users' = [users EXCEPT ![req[p].student] = u]
    BY <1>2 DEF DeleteUser
  <2> HIDE DEF u
  <2> QED  BY <1>1, <1>2, <2>1
<1>3. CASE CommitLogin(p)
  <2> DEFINE n == drawn.logins + 1
  <2>1. n # 0
    BY RowsTyped
  <2>2. users' = users \/ users' = [users EXCEPT ![req[p].student] = n]
    BY <1>3 DEF CommitLogin, UsersAfterLogin
  <2> HIDE DEF n
  <2> QED  BY <1>1, <2>1, <2>2
<1>4. CASE ~DeleteUser(p) /\ ~CommitLogin(p)
  <2>1. users' = users
    BY <1>4 DEF RequestNext, BeginStart, RefuseStart, CreateChallenge, MailSent, MailFailed,
                BeginVerify, LockVerify, CommitRefusal, BeginWithCookie, LookUp, Logout,
                BeginErase, Erase, Answer, Kill
  <2> QED  BY <2>1
<1> QED  BY <1>2, <1>3, <1>4

LEMMA DeletionsGoOn ==
    ASSUME "delete" \notin Kills, IInv, NEW p \in Requests, RequestNext(p), NEW s \in Students,
           NEW q \in Requests, Erasing(q, s), ~(q = p /\ Erase(p))
    PROVE  Erasing(q, s)'
<1>1. CASE q # p
  <2>1. req'[q] = req[q]
    BY <1>1, StepMoves DEF Moved
  <2> QED  BY <2>1 DEF Erasing
<1>2. CASE q = p
  <2>1. req[p].op = "delete" /\ req[p].step \in {"deleted", "erasing"} /\ req[p] # NoReq
    BY <1>2 DEF Erasing, NoReq
  <2>2. BeginErase(p)
    BY <1>2, <2>1 DEF RequestNext, BeginStart, RefuseStart, CreateChallenge, MailSent, MailFailed,
                      BeginVerify, LockVerify, CommitRefusal, CommitLogin, BeginWithCookie, LookUp,
                      Logout, DeleteUser, Answer, Kill, At
  <2> DEFINE seen == {x.id : x \in {y \in sessions : y.student = req[p].student}}
  <2>3. req' = [req EXCEPT ![p].step = "erasing", ![p].seen = seen]
    BY <2>2 DEF BeginErase
  <2> HIDE DEF seen
  <2>4. req'[p].op = req[p].op /\ req'[p].student = req[p].student /\ req'[p].step = "erasing"
    BY <2>3 DEF IInv, TypeOK, Reqs
  <2> QED  BY <1>2, <2>1, <2>4 DEF Erasing
<1> QED  BY <1>1, <1>2

LEMMA AccountSeenNext ==
    ASSUME "delete" \notin Kills, IInv, AccountSeen, NEW p \in Requests, RequestNext(p)
    PROVE  AccountSeen'
<1> SUFFICES ASSUME NEW v \in Verifying', req'[v].user # 0, users'[req'[v].student] = 0,
                    NEW d \in challenges', d.id = req'[v].challenge
             PROVE  \E q \in Requests : Erasing(q, req[v].student)'
  BY DEF AccountSeen
<1>1. CASE v = p
  <2>1. LockVerify(p)
    BY <1>1, VerifyingNext
  <2>2. req'[p].student = req[p].student /\ req'[p].user = users[req[p].student] /\ users' = users
    BY <2>1 DEF LockVerify, IInv, TypeOK, Reqs
  <2> QED  BY <1>1, <2>2
<1>2. CASE v # p
  <2>1. v \in Verifying /\ req'[v] = req[v]
    BY <1>2, VerifyingNext
  <2>2. d \in challenges
    BY <1>2, <2>1, LockedUntouched
  <2>3. PICK s \in Students : s = req[v].student
    BY <2>1 DEF IInv, RequestsOK, RequestOK, Verifying, At
  <2>4. \E q \in Requests : Erasing(q, s)'
    <3>1. CASE users[s] = 0
      <4>1. PICK q \in Requests : Erasing(q, s)
        BY <2>1, <2>2, <2>3, <3>1 DEF AccountSeen
      <4>2. ~(q = p /\ Erase(p))
        <5> SUFFICES ASSUME q = p, Erase(p) PROVE FALSE
          OBVIOUS
        <5>1. d.student = s
          BY <2>1, <2>2, <2>3 DEF IInv, LockedLive
        <5>2. req[p].student = s
          BY <4>1 DEF Erasing
        <5> QED  BY <2>1, <2>2, <5>1, <5>2 DEF Erase, ChallengesFree
      <4> QED  BY <4>1, <4>2, DeletionsGoOn
    <3>2. CASE users[s] # 0
      <4>1. DeleteUser(p) /\ req[p].student = s
        BY <2>1, <2>3, <3>2, UsersStep
      <4>2. req'[p].op = "delete" /\ req'[p].step = "deleted" /\ req'[p].student = s
        BY <4>1 DEF DeleteUser, At, IInv, TypeOK, Reqs
      <4> QED  BY <4>2 DEF Erasing
    <3> QED  BY <3>1, <3>2
  <2> QED  BY <2>1, <2>3, <2>4 DEF Erasing
<1> QED  BY <1>1, <1>2

LEMMA AccountSeenInvariant ==
    ASSUME "delete" \notin Kills
    PROVE  Spec => []AccountSeen
<1>1. ASSUME Init PROVE AccountSeen
  <2>1. Verifying = {}
    BY <1>1 DEF Init, Verifying, At, NoReq
  <2> QED  BY <2>1 DEF AccountSeen
<1>2. ASSUME IInv, AccountSeen, [Next]_vars PROVE AccountSeen'
  <2>1. CASE UNCHANGED vars \/ Tick
    <3>1. UNCHANGED <<challenges, users, req>>
      BY <2>1 DEF vars, Tick
    <3> QED  BY <1>2, <3>1 DEF AccountSeen, Erasing, Verifying, At
  <2>2. CASE \E p \in Requests : RequestNext(p)
    BY <1>2, <2>2, AccountSeenNext
  <2> QED  BY <1>2, <2>1, <2>2 DEF Next
<1> QED  BY <1>1, <1>2, Invariance, PTL DEF Spec

(* Unless a deletion is killed between its transactions, the step that     *)
(* leaves a student with a session and without an account is taken while a *)
(* deletion of that account is in progress (LoginGivesAccount).  It does   *)
(* not say that the deletion takes that session along: one whose login     *)
(* commits after BeginErase stays.                                         *)
THEOREM AccountWithSession ==
    ASSUME "delete" \notin Kills
    PROVE  Spec => LoginGivesAccount
<1> DEFINE Gives == \A s \in Students :
               Orphan(s)' /\ ~Orphan(s) => \E p \in Requests : Deleting(p, s)'
<1>1. ASSUME IInv, AccountSeen, NEW p \in Requests, RequestNext(p), NEW s \in Students,
             Orphan(s)', ~Orphan(s)
      PROVE  \E q \in Requests : Deleting(q, s)'
  <2>1. users'[s] = 0
    BY <1>1 DEF Orphan
  <2>2. CASE users[s] # 0
    <3>1. DeleteUser(p) /\ req[p].student = s
      BY <1>1, <2>1, <2>2, UsersStep
    <3>2. req'[p].op = "delete" /\ req'[p].student = s
      BY <1>1, <3>1 DEF DeleteUser, At, IInv, TypeOK, Reqs
    <3> QED  BY <3>2 DEF Deleting
  <2>3. CASE users[s] = 0
    <3>1. ActiveSessions(s) = {}
      BY <1>1, <2>3 DEF Orphan
    <3>2. PICK x \in sessions' : x.student = s /\ x.revoked = Null
      BY <1>1 DEF Orphan, ActiveSessions
    <3>3. ~Continues(x)
      BY <3>1, <3>2 DEF Continues, ActiveSessions
    <3>4. x.id > drawn.logins
      BY <1>1, <3>3, StepTables, RowsTyped DEF SessionsStep, FreshSession
    <3>5. CommitLogin(p) /\ req[p].student = s
      BY <1>1, <3>2, <3>4, NewSessionLogin DEF NewSession
    <3>6. req[p].user # 0
      <4> SUFFICES ASSUME req[p].user = 0 PROVE FALSE
        OBVIOUS
      <4>1. users' = [users EXCEPT ![s] = drawn.logins + 1]
        BY <3>5 DEF CommitLogin, UsersAfterLogin
      <4>2. users'[s] = drawn.logins + 1
        BY <1>1, <4>1 DEF IInv, TypeOK
      <4> QED  BY <1>1, <2>1, <4>2, RowsTyped
    <3>7. p \in Verifying /\ \E c \in challenges : c.id = req[p].challenge
      BY <3>5 DEF CommitLogin, Verifying
    <3>8. PICK q \in Requests : Erasing(q, s)
      BY <1>1, <2>3, <3>5, <3>6, <3>7 DEF AccountSeen
    <3>9. q # p
      BY <3>5, <3>8 DEF Erasing, CommitLogin, At
    <3>10. req'[q] = req[q]
      BY <1>1, <3>9, StepMoves DEF Moved
    <3> QED  BY <3>8, <3>10 DEF Erasing, Deleting
  <2> QED  BY <2>2, <2>3
<1>2. ASSUME IInv, AccountSeen, [Next]_vars PROVE [Gives]_vars
  <2>1. CASE UNCHANGED vars
    BY <2>1
  <2>2. CASE Tick
    <3>1. UNCHANGED <<sessions, users>>
      BY <2>2 DEF Tick
    <3> QED  BY <3>1 DEF Orphan, ActiveSessions
  <2>3. CASE \E p \in Requests : RequestNext(p)
    BY <1>1, <1>2, <2>3
  <2> QED  BY <1>2, <2>1, <2>2, <2>3 DEF Next
<1>3. IInv /\ AccountSeen /\ [Next]_vars => [Gives]_vars
  BY <1>2
<1> QED  BY <1>3, Invariance, AccountSeenInvariant, PTL DEF Spec, LoginGivesAccount
-----------------------------------------------------------------------------
(* The limiter in memory.                                                  *)

USE DEF Memory!Never

Readings == Seq(0..LimiterTime)

LEMMA LimiterConstants ==
    Limit \in Nat \ {0} /\ Window \in Nat \ {0} /\ Second \in Nat \ {0} /\ LimiterTime \in Nat
  BY LimiterAssumption DEF Memory!WindowAssumption

LEMMA OfTimes ==
    ASSUME NEW v \in Readings
    PROVE  Len(v) \in Nat /\ \A i \in 1..Len(v) : v[i] \in 0..LimiterTime
  BY ElementOfSeq, LenProperties DEF Readings

\* Pruned drops the first k elements, which are stale, and no more.
LEMMA PrunedDrops ==
    ASSUME NEW v \in Readings, NEW t \in 0..LimiterTime
    PROVE  \E k \in 0..Len(v) :
              /\ Memory!Pruned(v, t) \in Readings
              /\ Len(Memory!Pruned(v, t)) = Len(v) - k
              /\ \A i \in 1..Len(v) - k : Memory!Pruned(v, t)[i] = v[k + i]
              /\ \A i \in 1..k : Memory!Stale(v[i], t)
              /\ k < Len(v) => ~Memory!Stale(v[k + 1], t)
<1> DEFINE fresh == {i \in DOMAIN v : ~Memory!Stale(v[i], t)}
<1>1. DOMAIN v = 1..Len(v) /\ Len(v) \in Nat /\ \A i \in 1..Len(v) : v[i] \in 0..LimiterTime
  BY OfTimes, LenProperties DEF Readings
<1>2. CASE fresh = {}
  <2>1. Memory!Pruned(v, t) = <<>>
    BY <1>2 DEF Memory!Pruned
  <2>2. \A i \in 1..Len(v) : Memory!Stale(v[i], t)
    BY <1>1, <1>2
  <2>3. /\ Len(v) \in 0..Len(v)
        /\ Memory!Pruned(v, t) \in Readings
        /\ Len(Memory!Pruned(v, t)) = Len(v) - Len(v)
        /\ \A i \in 1..Len(v) - Len(v) : Memory!Pruned(v, t)[i] = v[Len(v) + i]
        /\ ~(Len(v) < Len(v))
    BY <1>1, <2>1, EmptySeq DEF Readings
  <2> QED  BY <2>2, <2>3
<1>3. CASE fresh # {}
  <2> DEFINE n == CHOOSE i \in fresh : \A j \in fresh : i <= j
  <2>1. n \in fresh /\ \A j \in fresh : n <= j
    <3>1. fresh \in SUBSET Nat
      BY <1>1
    <3> QED  BY <1>3, <3>1, Smallest
  <2>2. Memory!Pruned(v, t) = SubSeq(v, n, Len(v))
    BY <1>3 DEF Memory!Pruned
  <2> HIDE DEF n
  <2>3. n \in 1..Len(v) /\ ~Memory!Stale(v[n], t)
    BY <1>1, <2>1
  <2>4. \A i \in 1..n - 1 : Memory!Stale(v[i], t)
    <3> SUFFICES ASSUME NEW i \in 1..n - 1, ~Memory!Stale(v[i], t)  PROVE FALSE
      OBVIOUS
    <3>1. i \in fresh
      BY <1>1, <2>3
    <3> QED  BY <2>1, <2>3, <3>1
  <2> HIDE DEF fresh
  <2>5. /\ SubSeq(v, n, Len(v)) \in Seq(0..LimiterTime)
        /\ Len(SubSeq(v, n, Len(v))) = Len(v) - n + 1
        /\ \A i \in 1..Len(v) - n + 1 : SubSeq(v, n, Len(v))[i] = v[n + i - 1]
    <3>1. \A i \in n..Len(v) : v[i] \in 0..LimiterTime
      BY <1>1, <2>3
    <3>2. n \in Int /\ Len(v) \in Int /\ n <= Len(v)
      BY <1>1, <2>3
    <3> QED  BY <3>1, <3>2, SubSeqProperties
  <2> DEFINE k == n - 1
  <2>6. /\ k \in 0..Len(v)
        /\ Len(v) - k = Len(v) - n + 1
        /\ \A i \in 1..Len(v) - k : n + i - 1 = k + i
        /\ k + 1 = n
    BY <1>1, <2>3
  <2> HIDE DEF k
  <2>7. \A i \in 1..k : Memory!Stale(v[i], t)
    BY <2>4 DEF k
  <2>8. Memory!Pruned(v, t) \in Readings /\ Len(Memory!Pruned(v, t)) = Len(v) - k
    BY <2>2, <2>5, <2>6 DEF Readings
  <2>9. \A i \in 1..Len(v) - k : Memory!Pruned(v, t)[i] = v[k + i]
    BY <2>2, <2>5, <2>6
  <2>10. ~Memory!Stale(v[k + 1], t)
    BY <2>3, <2>6
  <2> QED  BY <2>6, <2>7, <2>8, <2>9, <2>10
<1> QED  BY <1>2, <1>3

-----------------------------------------------------------------------------
(* The inductive invariant. *)

\* The deque e is the end of the log l, and the rest of l had left the window.
EndOf(e, l, t) ==
    /\ Len(e) <= Len(l)
    /\ \A i \in 1..Len(e) : e[i] = l[Len(l) - Len(e) + i]
    /\ \A i \in 1..Len(l) - Len(e) : Memory!Stale(l[i], t)

Ordered(l, t) ==
    /\ \A i, j \in 1..Len(l) : i <= j => l[i] <= l[j]
    /\ \A i \in 1..Len(l) : l[i] <= t

Spread(l) == \A i, j \in 1..Len(l) : j - i >= Limit => l[j] - l[i] >= Window

\* The admission that keeps the client out leaves the window before it is back.
PromiseFits(p, l) ==
    p # Memory!Never => Len(l) >= Limit /\ l[Len(l) - Limit + 1] + Window <= p

FreshEnd(e, t) == Len(e) > 0 => ~Memory!Stale(e[Len(e)], t)

ClientOK(c) ==
    /\ EndOf(deques[c], log[c], uptime)
    /\ Ordered(log[c], uptime)
    /\ Spread(log[c])
    /\ PromiseFits(promised[c], log[c])
    /\ FreshEnd(deques[c], lastCall)

MemoryInv == Memory!TypeOK /\ \A c \in Clients : ClientOK(c)

\* The deque after the pruning of a call is still the end of the log, and all
\* of it is in the window.
LEMMA PrunedOK ==
    ASSUME NEW e \in Readings, NEW l \in Readings, NEW t \in 0..LimiterTime,
           Len(e) <= Limit, EndOf(e, l, t), Ordered(l, t)
    PROVE  /\ Memory!Pruned(e, t) \in Readings
           /\ Len(Memory!Pruned(e, t)) <= Limit
           /\ EndOf(Memory!Pruned(e, t), l, t)
           /\ \A i \in 1..Len(Memory!Pruned(e, t)) : ~Memory!Stale(Memory!Pruned(e, t)[i], t)
<1> DEFINE p == Memory!Pruned(e, t)
<1>1. PICK k \in 0..Len(e) :
          /\ p \in Readings
          /\ Len(p) = Len(e) - k
          /\ \A i \in 1..Len(e) - k : p[i] = e[k + i]
          /\ \A i \in 1..k : Memory!Stale(e[i], t)
          /\ k < Len(e) => ~Memory!Stale(e[k + 1], t)
  BY PrunedDrops
<1> HIDE DEF p
<1>2. /\ Len(e) \in Nat /\ Len(l) \in Nat /\ Len(p) \in Nat /\ Limit \in Nat
      /\ \A i \in 1..Len(l) : l[i] \in 0..LimiterTime
  BY <1>1, OfTimes, LimiterConstants
<1>3. \A i \in 1..Len(p) : p[i] = l[Len(l) - Len(p) + i]
  BY <1>1, <1>2 DEF EndOf
<1>4. \A i \in 1..Len(l) - Len(p) : Memory!Stale(l[i], t)
  <2> SUFFICES ASSUME NEW i \in 1..Len(l) - Len(p)  PROVE Memory!Stale(l[i], t)
    OBVIOUS
  <2>1. CASE i <= Len(l) - Len(e)
    BY <1>2, <2>1 DEF EndOf
  <2>2. CASE i > Len(l) - Len(e)
    <3>1. i - (Len(l) - Len(e)) \in 1..k
      BY <1>1, <1>2, <2>2
    <3>2. e[i - (Len(l) - Len(e))] = l[i]
      BY <1>1, <1>2, <3>1 DEF EndOf
    <3> QED  BY <1>1, <3>1, <3>2
  <2> QED  BY <1>2, <2>1, <2>2
<1>5. \A i \in 1..Len(p) : ~Memory!Stale(p[i], t)
  <2> SUFFICES ASSUME NEW i \in 1..Len(p)  PROVE ~Memory!Stale(p[i], t)
    OBVIOUS
  <2>1. p[1] = e[k + 1] /\ ~Memory!Stale(p[1], t) /\ 1 \in 1..Len(p)
    BY <1>1, <1>2
  <2>2. p[1] = l[Len(l) - Len(p) + 1] /\ p[i] = l[Len(l) - Len(p) + i]
    BY <1>3, <2>1
  <2>3. Len(p) <= Len(l)
    BY <1>1, <1>2 DEF EndOf
  <2>4. p[1] <= p[i]
    BY <1>2, <2>1, <2>2, <2>3 DEF Ordered
  <2>5. p[1] \in Int /\ p[i] \in Int
    BY <1>1, <2>1, OfTimes
  <2> QED  BY <2>1, <2>4, <2>5, LimiterConstants DEF Memory!Stale
<1>6. EndOf(p, l, t)
  BY <1>1, <1>2, <1>3, <1>4 DEF EndOf
<1>7. Len(p) <= Limit
  BY <1>1, <1>2
<1> QED  BY <1>1, <1>5, <1>6, <1>7 DEF p

\* The client waits at least until the head has left the window.
LEMMA HintCovers ==
    ASSUME NEW head \in 0..LimiterTime, NEW t \in 0..LimiterTime, ~Memory!Stale(head, t)
    PROVE  /\ Memory!Hint(head, t) \in Nat
           /\ t + Second * Memory!Hint(head, t) \in Nat
           /\ t < t + Second * Memory!Hint(head, t)
           /\ head + Window <= t + Second * Memory!Hint(head, t)
<1> DEFINE a == head + Window - t
           s == (a + Second - 1) \div Second
<1>1. a \in Nat \ {0}
  BY LimiterConstants DEF Memory!Stale
<1> HIDE DEF a
<1>2. s \in Nat /\ s >= 1 /\ Second * s >= a
  BY <1>1, LimiterConstants, Z3T(30)
<1> HIDE DEF s
<1>3. Memory!Hint(head, t) = s
  BY <1>2 DEF Memory!Hint, s, a
<1>4. Second * s \in Nat
  BY <1>2, LimiterConstants
<1> QED  BY <1>1, <1>2, <1>3, <1>4, LimiterConstants DEF a

\* Time passes: what had left the window stays out of it.
LEMMA LaterOK ==
    ASSUME NEW e \in Readings, NEW l \in Readings, NEW t \in 0..LimiterTime, NEW u \in 0..LimiterTime,
           t <= u, EndOf(e, l, t), Ordered(l, t)
    PROVE  EndOf(e, l, u) /\ Ordered(l, u)
<1>1. /\ Len(l) \in Nat /\ Len(e) \in Nat
      /\ \A i \in 1..Len(l) : l[i] \in 0..LimiterTime
  BY OfTimes
<1>2. \A i \in 1..Len(l) - Len(e) : i \in 1..Len(l)
  BY <1>1
<1>3. \A i \in 1..Len(l) - Len(e) : Memory!Stale(l[i], u)
  BY <1>1, <1>2, LimiterConstants DEF EndOf, Memory!Stale
<1>4. \A i \in 1..Len(l) : l[i] <= u
  BY <1>1 DEF Ordered
<1> QED  BY <1>3, <1>4 DEF EndOf, Ordered

\* An admission puts the event at the end of both, and keeps the distance.
LEMMA AdmittedOK ==
    ASSUME NEW e \in Readings, NEW l \in Readings, NEW t \in 0..LimiterTime,
           ~Memory!Full(e), EndOf(e, l, t), Ordered(l, t), Spread(l)
    PROVE  /\ Append(e, t) \in Readings /\ Append(l, t) \in Readings
           /\ Len(Append(e, t)) <= Limit
           /\ EndOf(Append(e, t), Append(l, t), t)
           /\ Ordered(Append(l, t), t)
           /\ Spread(Append(l, t))
           /\ FreshEnd(Append(e, t), t)
<1> DEFINE f == Append(e, t)
           m == Append(l, t)
<1>1. /\ Len(l) \in Nat /\ Len(e) \in Nat /\ Limit \in Nat /\ Len(e) < Limit
      /\ \A i \in 1..Len(l) : l[i] \in 0..LimiterTime
  BY OfTimes, LimiterConstants DEF Memory!Full
<1>2. /\ f \in Readings /\ Len(f) = Len(e) + 1 /\ f[Len(e) + 1] = t
      /\ \A i \in 1..Len(e) : f[i] = e[i]
  BY AppendProperties DEF Readings
<1>3. /\ m \in Readings /\ Len(m) = Len(l) + 1 /\ m[Len(l) + 1] = t
      /\ \A i \in 1..Len(l) : m[i] = l[i]
  BY AppendProperties DEF Readings
<1> HIDE DEF f, m
<1>4. EndOf(f, m, t)
  <2>1. Len(m) - Len(f) = Len(l) - Len(e) /\ Len(f) <= Len(m)
    BY <1>1, <1>2, <1>3 DEF EndOf
  <2>2. ASSUME NEW i \in 1..Len(m) - Len(f)  PROVE Memory!Stale(m[i], t)
    <3>1. i \in 1..Len(l) - Len(e) /\ i \in 1..Len(l)
      BY <1>1, <2>1
    <3> QED  BY <1>3, <3>1 DEF EndOf
  <2>3. ASSUME NEW i \in 1..Len(f)  PROVE f[i] = m[Len(m) - Len(f) + i]
    <3>1. CASE i = Len(e) + 1
      BY <1>1, <1>2, <1>3, <2>1, <3>1
    <3>2. CASE i \in 1..Len(e)
      <4>1. Len(l) - Len(e) + i \in 1..Len(l) /\ e[i] = l[Len(l) - Len(e) + i]
        BY <1>1, <3>2 DEF EndOf
      <4> QED  BY <1>2, <1>3, <2>1, <3>2, <4>1
    <3> QED  BY <1>1, <1>2, <3>1, <3>2
  <2> QED  BY <2>1, <2>2, <2>3 DEF EndOf
<1>5. \A i \in 1..Len(m) : m[i] <= t /\ m[i] \in 0..LimiterTime
  BY <1>1, <1>3 DEF Ordered
<1>6. Ordered(m, t)
  <2> SUFFICES ASSUME NEW i \in 1..Len(m), NEW j \in 1..Len(m), i <= j
               PROVE  m[i] <= m[j]
    BY <1>5 DEF Ordered
  <2>1. CASE j = Len(l) + 1
    BY <1>3, <1>5, <2>1
  <2>2. CASE j # Len(l) + 1
    <3>1. i \in 1..Len(l) /\ j \in 1..Len(l)
      BY <1>1, <1>3, <2>2
    <3> QED  BY <1>3, <3>1 DEF Ordered
  <2> QED  BY <2>1, <2>2
<1>7. Spread(m)
  <2> SUFFICES ASSUME NEW i \in 1..Len(m), NEW j \in 1..Len(m), j - i >= Limit
               PROVE  m[j] - m[i] >= Window
    BY DEF Spread
  <2>1. CASE j = Len(l) + 1
    <3>1. i \in 1..Len(l) - Len(e) /\ i \in 1..Len(l)
      BY <1>1, <1>3, <2>1, LimiterConstants
    <3>2. Memory!Stale(m[i], t) /\ m[i] \in 0..LimiterTime
      BY <1>1, <1>3, <3>1 DEF EndOf
    <3> QED  BY <1>3, <2>1, <3>2, LimiterConstants DEF Memory!Stale
  <2>2. CASE j # Len(l) + 1
    <3>1. i \in 1..Len(l) /\ j \in 1..Len(l)
      BY <1>1, <1>3, <2>2, LimiterConstants
    <3> QED  BY <1>3, <3>1 DEF Spread
  <2> QED  BY <2>1, <2>2
<1>8. FreshEnd(f, t)
  BY <1>2, LimiterConstants DEF FreshEnd, Memory!Stale
<1>9. Len(f) <= Limit
  BY <1>1, <1>2
<1> QED  BY <1>2, <1>3, <1>4, <1>6, <1>7, <1>8, <1>9 DEF f, m

-----------------------------------------------------------------------------

LEMMA MemoryInit == Memory!Init => MemoryInv
<1> SUFFICES ASSUME Memory!Init  PROVE MemoryInv
  OBVIOUS
<1>1. <<>> \in Readings /\ Len(<<>>) = 0
  BY EmptySeq DEF Readings
<1>2. Memory!TypeOK
  BY <1>1, LimiterConstants DEF Memory!Init, Memory!TypeOK, Readings
<1>3. ASSUME NEW c \in Clients  PROVE ClientOK(c)
  <2>1. deques[c] = <<>> /\ log[c] = <<>> /\ promised[c] = Memory!Never
    BY DEF Memory!Init
  <2> QED
    BY <1>1, <2>1 DEF ClientOK, EndOf, Ordered, Spread, PromiseFits, FreshEnd
<1> QED  BY <1>2, <1>3 DEF MemoryInv

\* What a call finds: every deque pruned at the time of the call.
LEMMA CallFinds ==
    ASSUME MemoryInv, NEW c \in Clients
    PROVE  LET kept == Memory!PruneAll(c, uptime)[c]
           IN  /\ kept \in Readings /\ log[c] \in Readings
               /\ Len(kept) <= Limit
               /\ EndOf(kept, log[c], uptime)
               /\ \A i \in 1..Len(kept) : ~Memory!Stale(kept[i], uptime)
               /\ FreshEnd(kept, uptime)
<1>1. deques[c] \in Readings /\ log[c] \in Readings /\ uptime \in 0..LimiterTime /\ Len(deques[c]) <= Limit
  BY DEF MemoryInv, Memory!TypeOK, Readings
<1>2. Memory!PruneAll(c, uptime)[c] = Memory!Pruned(deques[c], uptime)
  BY DEF Memory!PruneAll
<1>3. /\ Memory!Pruned(deques[c], uptime) \in Readings
      /\ Len(Memory!Pruned(deques[c], uptime)) <= Limit
      /\ EndOf(Memory!Pruned(deques[c], uptime), log[c], uptime)
      /\ \A i \in 1..Len(Memory!Pruned(deques[c], uptime)) :
            ~Memory!Stale(Memory!Pruned(deques[c], uptime)[i], uptime)
  BY <1>1, PrunedOK DEF MemoryInv, ClientOK
<1>4. FreshEnd(Memory!Pruned(deques[c], uptime), uptime)
  BY <1>3, OfTimes DEF FreshEnd
<1> QED  BY <1>1, <1>2, <1>3, <1>4

\* A client that is refused has exactly Limit admissions in the window.
LEMMA RefusedHead ==
    ASSUME MemoryInv, NEW c \in Clients, Memory!Full(Memory!PruneAll(c, uptime)[c])
    PROVE  LET head == Memory!PruneAll(c, uptime)[c][1]
           IN  /\ head \in 0..LimiterTime /\ ~Memory!Stale(head, uptime)
               /\ Len(log[c]) >= Limit
               /\ head = log[c][Len(log[c]) - Limit + 1]
<1> DEFINE kept == Memory!PruneAll(c, uptime)[c]
<1>1. /\ kept \in Readings /\ log[c] \in Readings /\ Len(kept) <= Limit
      /\ EndOf(kept, log[c], uptime)
      /\ \A i \in 1..Len(kept) : ~Memory!Stale(kept[i], uptime)
  BY CallFinds
<1>2. Memory!Full(kept)
  OBVIOUS
<1> HIDE DEF kept
<1>3. Len(kept) \in Nat /\ Len(log[c]) \in Nat /\ \A i \in 1..Len(kept) : kept[i] \in 0..LimiterTime
  BY <1>1, OfTimes
<1>4. Len(kept) = Limit /\ 1 \in 1..Len(kept)
  BY <1>1, <1>2, <1>3, LimiterConstants DEF Memory!Full
<1>5. kept[1] = log[c][Len(log[c]) - Limit + 1] /\ Len(log[c]) >= Limit
  BY <1>1, <1>3, <1>4 DEF EndOf
<1> QED  BY <1>1, <1>3, <1>4, <1>5 DEF kept

\* A call leaves the other clients' parts in order: their deques are pruned.
LEMMA OthersOK ==
    ASSUME MemoryInv, NEW c \in Clients, NEW d \in Clients,
           deques'[d] = Memory!PruneAll(c, uptime)[d], log'[d] = log[d],
           promised'[d] = promised[d], uptime' = uptime, lastCall' = uptime
    PROVE  deques'[d] \in Readings /\ Len(deques'[d]) <= Limit /\ ClientOK(d)'
<1>1. Memory!PruneAll(c, uptime)[d] = Memory!PruneAll(d, uptime)[d]
  BY DEF Memory!PruneAll
<1>2. /\ deques'[d] \in Readings /\ Len(deques'[d]) <= Limit
      /\ EndOf(deques'[d], log[d], uptime) /\ FreshEnd(deques'[d], uptime)
  BY <1>1, CallFinds
<1> QED  BY <1>2 DEF MemoryInv, ClientOK

LEMMA MemoryAdmit ==
    ASSUME MemoryInv, NEW c \in Clients, Memory!Admit(c)
    PROVE  MemoryInv'
<1> DEFINE kept == Memory!PruneAll(c, uptime)
<1>1. uptime \in 0..LimiterTime /\ uptime' = uptime /\ lastCall' = uptime
  BY DEF MemoryInv, Memory!TypeOK, Memory!Admit
<1>2. /\ deques' = [kept EXCEPT ![c] = Append(kept[c], uptime)]
      /\ log' = [log EXCEPT ![c] = Append(log[c], uptime)]
      /\ promised' = [promised EXCEPT ![c] = Memory!Never]
      /\ ~Memory!Full(kept[c])
  BY DEF Memory!Admit
<1>3. /\ DOMAIN kept = Clients /\ log \in [Clients -> Readings]
      /\ promised \in [Clients -> Nat \cup {Memory!Never}]
  BY DEF Memory!PruneAll, MemoryInv, Memory!TypeOK, Readings
<1>4. ASSUME NEW d \in Clients
      PROVE  /\ deques'[d] \in Readings /\ Len(deques'[d]) <= Limit
             /\ log'[d] \in Readings /\ promised'[d] \in Nat \cup {Memory!Never}
             /\ ClientOK(d)'
  <2>1. CASE d = c
    <3>1. /\ deques'[c] = Append(kept[c], uptime) /\ log'[c] = Append(log[c], uptime)
          /\ promised'[c] = Memory!Never
      BY <1>2, <1>3
    <3>2. /\ Append(kept[c], uptime) \in Readings /\ Append(log[c], uptime) \in Readings
          /\ Len(Append(kept[c], uptime)) <= Limit
          /\ EndOf(Append(kept[c], uptime), Append(log[c], uptime), uptime)
          /\ Ordered(Append(log[c], uptime), uptime)
          /\ Spread(Append(log[c], uptime))
          /\ FreshEnd(Append(kept[c], uptime), uptime)
      <4>1. kept[c] \in Readings /\ log[c] \in Readings /\ EndOf(kept[c], log[c], uptime)
        BY CallFinds
      <4>2. Ordered(log[c], uptime) /\ Spread(log[c])
        BY DEF MemoryInv, ClientOK
      <4> HIDE DEF kept
      <4> QED  BY <1>1, <1>2, <4>1, <4>2, AdmittedOK
    <3> QED  BY <1>1, <2>1, <3>1, <3>2 DEF ClientOK, PromiseFits
  <2>2. CASE d # c
    <3>1. deques'[d] = kept[d] /\ log'[d] = log[d] /\ promised'[d] = promised[d]
      BY <1>2, <1>3, <2>2
    <3> QED  BY <1>1, <1>3, <3>1, OthersOK
  <2> QED  BY <2>1, <2>2
<1>5. Memory!TypeOK'
  <2>1. DOMAIN deques' = Clients /\ DOMAIN log' = Clients /\ DOMAIN promised' = Clients
    BY <1>2, <1>3
  <2>2. /\ deques' = [d \in Clients |-> deques'[d]]
        /\ log' = [d \in Clients |-> log'[d]]
        /\ promised' = [d \in Clients |-> promised'[d]]
    BY <1>2, <1>3, <2>1
  <2> QED  BY <1>1, <1>4, <2>2 DEF Memory!TypeOK, Readings
<1> QED  BY <1>4, <1>5 DEF MemoryInv

LEMMA MemoryRefuse ==
    ASSUME MemoryInv, NEW c \in Clients, Memory!Refuse(c)
    PROVE  MemoryInv'
<1> DEFINE kept == Memory!PruneAll(c, uptime)
           hint == uptime + Second * Memory!Hint(kept[c][1], uptime)
<1>1. uptime \in 0..LimiterTime /\ uptime' = uptime /\ lastCall' = uptime /\ log' = log
  BY DEF MemoryInv, Memory!TypeOK, Memory!Refuse
<1>2. deques' = kept /\ promised' = [promised EXCEPT ![c] = hint] /\ Memory!Full(kept[c])
  BY DEF Memory!Refuse
<1>3. /\ DOMAIN kept = Clients /\ log \in [Clients -> Readings]
      /\ promised \in [Clients -> Nat \cup {Memory!Never}]
  BY DEF Memory!PruneAll, MemoryInv, Memory!TypeOK, Readings
<1>4. hint \in Nat /\ PromiseFits(hint, log[c])
  <2>1. /\ kept[c][1] \in 0..LimiterTime /\ ~Memory!Stale(kept[c][1], uptime)
        /\ Len(log[c]) >= Limit /\ kept[c][1] = log[c][Len(log[c]) - Limit + 1]
    BY <1>2, RefusedHead
  <2> HIDE DEF kept
  <2>2. hint \in Nat /\ kept[c][1] + Window <= hint
    BY <1>1, <2>1, HintCovers
  <2> QED  BY <2>1, <2>2 DEF PromiseFits
<1> HIDE DEF hint
<1>5. ASSUME NEW d \in Clients
      PROVE  /\ deques'[d] \in Readings /\ Len(deques'[d]) <= Limit
             /\ promised'[d] \in Nat \cup {Memory!Never}
             /\ ClientOK(d)'
  <2>1. /\ deques'[d] \in Readings /\ Len(deques'[d]) <= Limit
        /\ EndOf(deques'[d], log[d], uptime) /\ FreshEnd(deques'[d], uptime)
    <3>1. deques'[d] = Memory!PruneAll(d, uptime)[d]
      BY <1>2 DEF Memory!PruneAll
    <3> QED  BY <3>1, CallFinds
  <2>2. Ordered(log[d], uptime) /\ Spread(log[d])
    BY DEF MemoryInv, ClientOK
  <2>3. promised'[d] \in Nat \cup {Memory!Never} /\ PromiseFits(promised'[d], log[d])
    <3>1. CASE d = c
      BY <1>2, <1>3, <1>4, <3>1
    <3>2. CASE d # c
      BY <1>2, <1>3, <3>2 DEF MemoryInv, ClientOK
    <3> QED  BY <3>1, <3>2
  <2> QED  BY <1>1, <2>1, <2>2, <2>3 DEF ClientOK
<1>6. Memory!TypeOK'
  <2>1. /\ deques' = [d \in Clients |-> deques'[d]]
        /\ promised' = [d \in Clients |-> promised'[d]]
    BY <1>2, <1>3 DEF kept, Memory!PruneAll
  <2> QED  BY <1>1, <1>3, <1>5, <2>1 DEF Memory!TypeOK, Readings
<1> QED  BY <1>5, <1>6 DEF MemoryInv

LEMMA MemoryTick ==
    ASSUME MemoryInv, Memory!Tick
    PROVE  MemoryInv'
<1>1. /\ uptime \in 0..LimiterTime /\ uptime' \in 0..LimiterTime /\ uptime <= uptime'
      /\ deques' = deques /\ log' = log /\ promised' = promised /\ lastCall' = lastCall
  BY LimiterConstants DEF MemoryInv, Memory!TypeOK, Memory!Tick
<1>2. Memory!TypeOK'
  BY <1>1, LimiterConstants DEF MemoryInv, Memory!TypeOK
<1>3. ASSUME NEW c \in Clients  PROVE ClientOK(c)'
  <2>1. deques[c] \in Readings /\ log[c] \in Readings
    BY DEF MemoryInv, Memory!TypeOK, Readings
  <2>2. EndOf(deques[c], log[c], uptime') /\ Ordered(log[c], uptime')
    BY <1>1, <2>1, LaterOK DEF MemoryInv, ClientOK
  <2> QED  BY <1>1, <2>2 DEF MemoryInv, ClientOK
<1> QED  BY <1>2, <1>3 DEF MemoryInv

LEMMA MemoryStep == MemoryInv /\ [Memory!Next]_(Memory!vars) => MemoryInv'
<1> SUFFICES ASSUME MemoryInv, [Memory!Next]_(Memory!vars)  PROVE MemoryInv'
  OBVIOUS
<1>1. CASE Memory!Tick
  BY <1>1, MemoryTick
<1>2. ASSUME NEW c \in Clients, Memory!Admit(c)  PROVE MemoryInv'
  BY <1>2, MemoryAdmit
<1>3. ASSUME NEW c \in Clients, Memory!Refuse(c)  PROVE MemoryInv'
  BY <1>3, MemoryRefuse
<1>4. CASE UNCHANGED Memory!vars
  BY <1>4 DEF Memory!vars, MemoryInv, Memory!TypeOK, ClientOK
<1> QED  BY <1>1, <1>2, <1>3, <1>4 DEF Memory!Next

\* The deque is the end of the log and what it lost is out of the window, in
\* every reachable state of every instance.
THEOREM MemoryInvariance == Memory!Spec => []MemoryInv
<1>1. Memory!Init => MemoryInv
  BY MemoryInit
<1>2. MemoryInv /\ [Memory!Next]_(Memory!vars) => MemoryInv'
  BY MemoryStep
<1> QED  BY <1>1, <1>2, PTL DEF Memory!Spec

\* Types; a deque never grows beyond the limit.
THEOREM DequesTyped == Memory!Spec => []Memory!TypeOK
<1>1. MemoryInv => Memory!TypeOK
  BY DEF MemoryInv
<1> QED  BY <1>1, MemoryInvariance, PTL

\* No window has more than Limit admissions of a client (consume).
THEOREM WindowCorrect == Memory!Spec => []Memory!WindowBounded
<1>1. MemoryInv => Memory!WindowBounded
  <2> SUFFICES ASSUME MemoryInv, NEW c \in Clients, NEW i \in DOMAIN log[c], NEW j \in DOMAIN log[c],
                      j - i >= Limit
               PROVE  log[c][j] - log[c][i] >= Window
    BY DEF Memory!WindowBounded
  <2>1. DOMAIN log[c] = 1..Len(log[c])
    BY LenProperties DEF MemoryInv, Memory!TypeOK
  <2> QED  BY <2>1 DEF MemoryInv, ClientOK, Spread
<1> QED  BY <1>1, MemoryInvariance, PTL

\* Only clients of the last window have a deque (the pruning of all keys).
THEOREM RecentCorrect == Memory!Spec => []Memory!OnlyRecentKept
<1>1. MemoryInv => Memory!OnlyRecentKept
  <2> SUFFICES ASSUME MemoryInv, NEW c \in Clients, deques[c] # <<>>
               PROVE  ~Memory!Stale(deques[c][Len(deques[c])], lastCall)
    BY DEF Memory!OnlyRecentKept
  <2>1. Len(deques[c]) > 0
    BY EmptySeq DEF MemoryInv, Memory!TypeOK
  <2> QED  BY <2>1 DEF MemoryInv, ClientOK, FreshEnd
<1> QED  BY <1>1, MemoryInvariance, PTL

\* A client that waits as long as Retry-After says is not refused again.
THEOREM HintCorrect == Memory!Spec => HintKept
<1> DEFINE PromiseKept(c) ==
        promised'[c] # promised[c] /\ promised'[c] # Memory!Never /\ promised[c] # Memory!Never =>
            uptime < promised[c]
<1>1. MemoryInv /\ [Memory!Next]_(Memory!vars) => \A c \in Clients : PromiseKept(c)
  <2> SUFFICES ASSUME MemoryInv, [Memory!Next]_(Memory!vars), NEW c \in Clients,
                      promised'[c] # promised[c], promised'[c] # Memory!Never, promised[c] # Memory!Never
               PROVE  uptime < promised[c]
    OBVIOUS
  <2>1. promised \in [Clients -> Nat \cup {Memory!Never}] /\ uptime \in 0..LimiterTime
    BY DEF MemoryInv, Memory!TypeOK
  <2>2. Memory!Refuse(c)
    BY <2>1 DEF Memory!Next, Memory!vars, Memory!Tick, Memory!Admit, Memory!Refuse
  <2>3. /\ Memory!PruneAll(c, uptime)[c][1] \in 0..LimiterTime
        /\ ~Memory!Stale(Memory!PruneAll(c, uptime)[c][1], uptime)
        /\ Memory!PruneAll(c, uptime)[c][1] = log[c][Len(log[c]) - Limit + 1]
    BY <2>2, RefusedHead DEF Memory!Refuse
  <2>4. log[c][Len(log[c]) - Limit + 1] + Window <= promised[c]
    BY DEF MemoryInv, ClientOK, PromiseFits
  <2>5. promised[c] \in Nat
    BY <2>1
  <2> QED  BY <2>1, <2>3, <2>4, <2>5, LimiterConstants DEF Memory!Stale
<1> QED  BY <1>1, MemoryInvariance, PTL DEF Memory!Spec, HintKept, Memory!HintKept

\* The limit holds in every window, and idle clients take no memory.
THEOREM LimitCorrect == Memory!Spec => []LimitKept
<1>1. Memory!WindowBounded /\ Memory!OnlyRecentKept => LimitKept
  BY DEF LimitKept, Memory!LimitKept
<1> QED  BY <1>1, WindowCorrect, RecentCorrect, PTL
=============================================================================
