----------------------------- MODULE AuthService -----------------------------
(***************************************************************************)
(* Login by a one-time code and the session of a browser: AuthService      *)
(* (auth/service.py), its callers in api/routes/auth.py,                   *)
(* api/dependencies.py and the deletion of an account in                   *)
(* api/routes/users.py, with the cookies of the browsers.                  *)
(*                                                                         *)
(* A request reads the clock, runs its transactions and is answered; the   *)
(* answers of a browser's requests arrive in any order.  start_otp and     *)
(* verify_otp run under the advisory locks of their student and address.   *)
(* verify_otp is split into Lock, where it has its locks and has read, and *)
(* Commit, because the deletion of an account, the error of the mailer and *)
(* the session lookup take no advisory lock and may run between the two.   *)
(***************************************************************************)
EXTENDS Integers, FiniteSets

CONSTANTS
    Students, Addresses, Browsers,
    Requests,             \* requests the API serves at the same time
    NoOne,                \* not a student, an address or a browser
    Cooldown, OtpExpiry, OtpMaxAttempts,
    SessionTtl, SessionRotation,
    OtpRetention, SessionRetention,
    RateWindow,
    StartAccountLimit, StartAddressLimit, VerifyAccountLimit, VerifyAddressLimit,
    Offered,              \* bound: the requests that browsers make
    Kills,                \* bound: requests whose API process may be killed between two steps
    MaxTime,              \* bound: the clock stops there
    MaxLag,               \* bound: the clock ticks between the clock read and the commit
    MaxChallenges, MaxLogins  \* bounds: codes sent and sessions created

ASSUME NamesAssumption == NoOne \notin Students \cup Addresses \cup Browsers
ASSUME RequestsAssumption == IsFiniteSet(Requests)
ASSUME OtpAssumption ==
    /\ Cooldown \in Nat \ {0} /\ OtpExpiry \in Nat \ {0} /\ OtpMaxAttempts \in Nat \ {0}
    /\ OtpRetention \in Nat /\ OtpRetention >= OtpExpiry /\ OtpExpiry >= Cooldown
    /\ OtpRetention >= Cooldown + MaxLag
ASSUME SessionAssumption ==
    SessionTtl \in Nat \ {0} /\ SessionRotation \in Nat \ {0} /\ SessionRetention \in Nat \ {0}
ASSUME RateAssumption ==
    /\ RateWindow \in Nat \ {0}
    /\ {StartAccountLimit, StartAddressLimit, VerifyAccountLimit, VerifyAddressLimit}
           \subseteq Nat \ {0}

CookieOps == {"session", "required", "optional", "logout", "delete"}

ASSUME BoundsAssumption ==
    /\ Offered \subseteq {"start", "verify"} \cup CookieOps
    /\ Kills \subseteq Offered /\ MaxTime \in Nat /\ MaxLag \in Nat \ {0}
    /\ MaxChallenges \in Nat /\ MaxLogins \in Nat

VARIABLES
    now,         \* the clock of the host
    challenges,  \* table auth_otp_challenges
    sessions,    \* table auth_sessions
    users,       \* table users: the login that created the student's row, 0 if none
    events,      \* table auth_rate_events
    admissions,  \* history: every row that table ever got, but those of deleted accounts
    drawn,       \* how many challenges and sessions were ever created
    cookie,      \* the session cookie of each browser
    req          \* the requests in progress

vars == <<now, challenges, sessions, users, events, admissions, drawn, cookie, req>>

-----------------------------------------------------------------------------
(* Rows. *)

Null == -1

\* A code is named by its challenge, and 0 is a code that was never sent.
\* created_at, last_sent_at: both are `sent`.
ChallengeRows ==
    [id : 1..MaxChallenges, student : Students, attempts : 0..OtpMaxAttempts,
     sent : 0..MaxTime, consumed : BOOLEAN, invalidated : BOOLEAN]

\* A session token is the session and the number of its rotation: fresh at
\* each login and each rotation.
SessionRows ==
    [id : 1..MaxLogins, gen : 0..MaxTime, student : Students,
     expires : 0..MaxTime + SessionTtl, rotated : 0..MaxTime,
     revoked : 0..MaxTime \cup {Null}]

EventRows ==
    [kind : {"OTP_START", "OTP_VERIFY"}, student : Students, address : Addresses,
     t : 0..MaxTime, nth : Nat]

Tokens == [id : 1..MaxLogins, gen : 0..MaxTime]
NoCookie == [id |-> 0, gen |-> 0]
Keep == [id |-> Null, gen |-> 0]     \* an answer without Set-Cookie

TokenOf(x) == [id |-> x.id, gen |-> x.gen]

Live(c) == ~c.consumed /\ ~c.invalidated

Expired(c, t) == c.sent + OtpExpiry <= t

LiveOf(s) == {c \in challenges : c.student = s /\ Live(c)}

ActiveSessions(s) == {x \in sessions : x.student = s /\ x.revoked = Null}

\* _purge_expired_records, in every transaction of this service but the
\* deletion of an account and the invalidation of an undelivered code.
OldChallenges(t) == {c \in challenges : c.sent < t - OtpRetention}

OldSessions(t) ==
    {x \in sessions :
        \/ x.expires < t - SessionRetention
        \/ x.revoked # Null /\ x.revoked < t - SessionRetention}

Kept(t) == challenges \ OldChallenges(t)

KeptSessions(t) == sessions \ OldSessions(t)

-----------------------------------------------------------------------------
(* Requests, and the locks of a verification in progress. *)

NoReq == [op |-> "none", step |-> "none", student |-> NoOne, address |-> NoOne,
          browser |-> NoOne, t |-> Null, code |-> 0, token |-> NoCookie,
          challenge |-> 0, admitted |-> FALSE, user |-> 0, seen |-> {},
          answer |-> Keep]

At(p, op, step) == req[p].op = op /\ req[p].step = step

Verifying == {q \in Requests : At(q, "verify", "locked")}

\* Mutant: the locks of start and verify cover the student only.
StudentLocksFree(p) ==
    \A q \in Verifying \ {p} : req[q].student # req[p].student

\* _advisory_locks: of the student and of the address of the request.
LocksFree(p) ==
    \A q \in Verifying \ {p} :
        req[q].student # req[p].student /\ req[q].address # req[p].address

\* Mutant: the challenge is read without FOR UPDATE.
ChallengesNeverLocked(S) == TRUE

\* The row locks of a verification: its challenge (FOR UPDATE) and, when the
\* code is right, the sessions it revokes.
ChallengesFree(S) ==
    \A q \in Verifying : \A c \in S : c.id # req[q].challenge

CodeAccepted(c, r) == ~Expired(c, r.t) /\ c.attempts < OtpMaxAttempts /\ c.id = r.code

SessionsFree(S) ==
    \A q \in Verifying :
        (\E c \in challenges : c.id = req[q].challenge /\ CodeAccepted(c, req[q])) =>
            S \cap ActiveSessions(req[q].student) = {}

PurgeFree(t) == ChallengesFree(OldChallenges(t)) /\ SessionsFree(OldSessions(t))

Purge(t) ==
    /\ PurgeFree(t)
    /\ challenges' = Kept(t)
    /\ sessions' = KeptSessions(t)

Init ==
    /\ now = 0
    /\ challenges = {}
    /\ sessions = {}
    /\ users = [s \in Students |-> 0]
    /\ events = {}
    /\ admissions = {}
    /\ drawn = [challenges |-> 0, logins |-> 0]
    /\ cookie = [b \in Browsers |-> NoCookie]
    /\ req = [p \in Requests |-> NoReq]

-----------------------------------------------------------------------------
(* _admit_rate_event. *)

AccountLimit(kind) == IF kind = "OTP_START" THEN StartAccountLimit ELSE VerifyAccountLimit
AddressLimit(kind) == IF kind = "OTP_START" THEN StartAddressLimit ELSE VerifyAddressLimit

Recent(t) == {e \in events : e.t >= t - RateWindow}

Admits(kind, s, a, t) ==
    /\ Cardinality({e \in Recent(t) : e.kind = kind /\ e.student = s}) < AccountLimit(kind)
    /\ Cardinality({e \in Recent(t) : e.kind = kind /\ e.address = a}) < AddressLimit(kind)

\* A row of its own for every admission.
Event(kind, s, a, t) ==
    LET same == {e \in admissions : /\ e.kind = kind /\ e.student = s
                                    /\ e.address = a /\ e.t = t}
    IN  [kind |-> kind, student |-> s, address |-> a, t |-> t,
         nth |-> Cardinality(same) + 1]

-----------------------------------------------------------------------------
(* POST /auth/otp/start. *)

\* bound: a start begins only while a challenge is left for it.
OpenStarts == {q \in Requests : At(q, "start", "begun")}

BeginStart(p, s, a) ==
    /\ req[p] = NoReq
    /\ "start" \in Offered
    /\ drawn.challenges + Cardinality(OpenStarts) < MaxChallenges
    /\ req' = [req EXCEPT ![p] = [NoReq EXCEPT !.op = "start", !.step = "begun",
                                  !.student = s, !.address = a, !.t = now]]
    /\ UNCHANGED <<now, challenges, sessions, users, events, admissions, drawn, cookie>>

\* The latest challenge of the student, whatever became of it.
Cooling(s, t) == \E c \in Kept(t) : c.student = s /\ t - c.sent < Cooldown

Invalidated(S, s) ==
    {IF c.student = s /\ Live(c) THEN [c EXCEPT !.invalidated = TRUE] ELSE c : c \in S}

NewChallenge(s, t) ==
    [id |-> drawn.challenges + 1, student |-> s, attempts |-> 0, sent |-> t,
     consumed |-> FALSE, invalidated |-> FALSE]

\* The request was too early or too often: the purge is committed, and the
\* answer is the same as to any other start.
RefuseStart(p) ==
    LET r == req[p]
    IN  /\ At(p, "start", "begun")
        /\ LocksFree(p)
        /\ Purge(r.t)
        /\ \/ Cooling(r.student, r.t) /\ UNCHANGED events
           \/ /\ ~Cooling(r.student, r.t)
              /\ ~Admits("OTP_START", r.student, r.address, r.t)
              /\ events' = Recent(r.t)
        /\ req' = [req EXCEPT ![p] = NoReq]
        /\ UNCHANGED <<now, users, admissions, drawn, cookie>>

\* A new challenge replaces those of the student that are still live.
CreateChallenge(p) ==
    LET r == req[p]
    IN  /\ At(p, "start", "begun")
        /\ LocksFree(p)
        /\ PurgeFree(r.t)
        /\ ~Cooling(r.student, r.t)
        /\ Admits("OTP_START", r.student, r.address, r.t)
        /\ events' = Recent(r.t) \cup {Event("OTP_START", r.student, r.address, r.t)}
        /\ admissions' = admissions \cup {Event("OTP_START", r.student, r.address, r.t)}
        /\ challenges' = Invalidated(Kept(r.t), r.student) \cup {NewChallenge(r.student, r.t)}
        /\ sessions' = KeptSessions(r.t)
        /\ drawn' = [drawn EXCEPT !.challenges = @ + 1]
        /\ req' = [req EXCEPT ![p].step = "mail", ![p].challenge = drawn.challenges + 1]
        /\ UNCHANGED <<now, users, cookie>>

MailSent(p) ==
    /\ At(p, "start", "mail")
    /\ req' = [req EXCEPT ![p] = NoReq]
    /\ UNCHANGED <<now, challenges, sessions, users, events, admissions, drawn, cookie>>

Undelivered(c, id) == c.id = id /\ ~c.consumed

\* send_otp raised, perhaps long after the challenge was replaced or used,
\* and perhaps although the mail was delivered.
MailFailed(p) ==
    LET lost == {c \in challenges : Undelivered(c, req[p].challenge)}
    IN  /\ At(p, "start", "mail")
        /\ ChallengesFree({c \in challenges : c.id = req[p].challenge})
        /\ challenges' = {IF c \in lost THEN [c EXCEPT !.invalidated = TRUE] ELSE c :
                              c \in challenges}
        /\ req' = [req EXCEPT ![p] = NoReq]
        /\ UNCHANGED <<now, sessions, users, events, admissions, drawn, cookie>>

-----------------------------------------------------------------------------
(* POST /auth/otp/verify. *)

\* bound: the right code is typed only while a session is left for it.
OpenLogins == {q \in Requests : req[q].op = "verify" /\ req[q].step # "answer" /\ req[q].code # 0}

BeginVerify(p, b, s, a, code) ==
    /\ req[p] = NoReq
    /\ "verify" \in Offered
    /\ code # 0 => drawn.logins + Cardinality(OpenLogins) < MaxLogins
    /\ req' = [req EXCEPT ![p] = [NoReq EXCEPT !.op = "verify", !.step = "begun",
                                  !.browser = b, !.student = s, !.address = a,
                                  !.code = code, !.t = now]]
    /\ UNCHANGED <<now, challenges, sessions, users, events, admissions, drawn, cookie>>

Latest(S) == {c \in S : \A d \in S : d.sent <= c.sent}

\* The advisory locks, the rate limit, the challenge FOR UPDATE, and whether
\* the student has an account.
LockVerify(p) ==
    LET r == req[p]
        admitted == Admits("OTP_VERIFY", r.student, r.address, r.t)
        live == IF admitted THEN LiveOf(r.student) \cap Kept(r.t) ELSE {}
    IN  /\ At(p, "verify", "begun")
        /\ LocksFree(p)
        /\ PurgeFree(r.t)
        /\ \E c \in IF live = {} THEN {[id |-> 0]} ELSE Latest(live) :
              req' = [req EXCEPT ![p].step = "locked", ![p].admitted = admitted,
                                 ![p].challenge = c.id, ![p].user = users[r.student]]
        /\ UNCHANGED <<now, challenges, sessions, users, events, admissions, drawn, cookie>>

\* The challenge after a code that was not accepted.
Tried(c, r) ==
    IF Expired(c, r.t) \/ c.attempts >= OtpMaxAttempts
    THEN [c EXCEPT !.invalidated = TRUE]
    ELSE [c EXCEPT !.attempts = @ + 1, !.invalidated = (c.attempts + 1 >= OtpMaxAttempts)]

\* The row of the attempt, unless it was one too many.
Attempt(r) ==
    IF r.admitted THEN {Event("OTP_VERIFY", r.student, r.address, r.t)} ELSE {}

\* No live challenge, too many requests, or a code that is wrong or late: 401.
CommitRefusal(p) ==
    LET r == req[p]
        tried == {c \in challenges : c.id = r.challenge}
    IN  /\ At(p, "verify", "locked")
        /\ \A c \in tried : ~CodeAccepted(c, r)
        /\ challenges' = {IF c \in tried THEN Tried(c, r) ELSE c : c \in Kept(r.t)}
        /\ sessions' = KeptSessions(r.t)
        /\ events' = Recent(r.t) \cup Attempt(r)
        /\ admissions' = admissions \cup Attempt(r)
        /\ req' = [req EXCEPT ![p] = NoReq]
        /\ UNCHANGED <<now, users, drawn, cookie>>

\* Mutant: the sessions of the student stay valid.
KeepSessions(S, s, t) == S

Revoked(S, s, t) ==
    {IF x.student = s /\ x.revoked = Null THEN [x EXCEPT !.revoked = t] ELSE x : x \in S}

NewSession(s, t) ==
    [id |-> drawn.logins + 1, gen |-> 0, student |-> s, expires |-> t + SessionTtl,
     rotated |-> t, revoked |-> Null]

\* Mutant: a student without an account gets none.
UsersAsBefore(s, known) == users

\* The account is created when the verification has seen none; one that was
\* deleted since then is not.
UsersAfterLogin(s, known) ==
    IF known # 0 THEN users ELSE [users EXCEPT ![s] = drawn.logins + 1]

CommitLogin(p) ==
    LET r == req[p]
    IN  /\ At(p, "verify", "locked")
        /\ \E c \in challenges :
              /\ c.id = r.challenge /\ CodeAccepted(c, r)
              /\ challenges' = (Kept(r.t) \ {c}) \cup {[c EXCEPT !.consumed = TRUE]}
        /\ sessions' = Revoked(KeptSessions(r.t), r.student, r.t) \cup {NewSession(r.student, r.t)}
        /\ users' = UsersAfterLogin(r.student, r.user)
        /\ events' = Recent(r.t) \cup Attempt(r)
        /\ admissions' = admissions \cup Attempt(r)
        /\ drawn' = [drawn EXCEPT !.logins = @ + 1]
        /\ req' = [req EXCEPT ![p].step = "answer",
                              ![p].answer = TokenOf(NewSession(r.student, r.t))]
        /\ UNCHANGED <<now, cookie>>

-----------------------------------------------------------------------------
(* Requests with a session cookie: GET /auth/session, the routes that require *)
(* a user or look for one, logout, and the deletion of an account.            *)

BeginWithCookie(p, b, op) ==
    /\ req[p] = NoReq
    /\ cookie[b] # NoCookie
    /\ req' = [req EXCEPT ![p] = [NoReq EXCEPT !.op = op, !.step = "begun",
                                  !.browser = b, !.token = cookie[b], !.t = now]]
    /\ UNCHANGED <<now, challenges, sessions, users, events, admissions, drawn, cookie>>

\* Mutant: the rotation writes the whole row, whether it was revoked or not.
LookedUpUnguarded(x, t) ==
    IF x.expires <= t THEN [x EXCEPT !.revoked = t]
    ELSE IF x.rotated <= t - SessionRotation
    THEN [x EXCEPT !.gen = @ + 1, !.rotated = t, !.revoked = Null]
    ELSE x

\* A session that is looked up is revoked when it has expired, and gets a new
\* token when its rotation is due.
LookedUp(x, t) ==
    IF x.revoked # Null THEN x
    ELSE IF x.expires <= t THEN [x EXCEPT !.revoked = t]
    ELSE IF x.rotated <= t - SessionRotation THEN [x EXCEPT !.gen = @ + 1, !.rotated = t]
    ELSE x

Current(x, t) == x.revoked = Null /\ x.expires > t

\* The cookie an answer may set.  An HTTPException of the route builds an
\* answer of its own: what the dependency has set on the response is lost.
\* A required user is read after the lookup and may be missing, and the route
\* may refuse what it was asked; an optional one is not read without a cookie.
Answers(op, found, t) ==
    LET fresh == {TokenOf(LookedUp(x, t)) : x \in {y \in found : y.rotated <= t - SessionRotation}}
        set == IF found = {} THEN {NoCookie} ELSE IF fresh = {} THEN {Keep} ELSE fresh
    IN  CASE op = "session" -> set
          [] op = "optional" -> set \cup {Keep}
          [] op = "required" -> IF found = {} THEN {Keep} ELSE set \cup {Keep}

\* current_session.
LookUp(p) ==
    LET r == req[p]
        match == {x \in KeptSessions(r.t) : TokenOf(x) = r.token}
        found == {x \in match : Current(x, r.t)}
    IN  /\ req[p].step = "begun" /\ req[p].op \in {"session", "required", "optional", "delete"}
        /\ PurgeFree(r.t)
        /\ SessionsFree(match)
        /\ challenges' = Kept(r.t)
        /\ sessions' = (KeptSessions(r.t) \ match) \cup {LookedUp(x, r.t) : x \in match}
        /\ \/ /\ r.op # "delete"
              /\ \E answer \in Answers(r.op, found, r.t) :
                    req' = [req EXCEPT ![p].step = "answer", ![p].answer = answer]
           \/ \E x \in found :
                 /\ r.op = "delete" /\ users[x.student] # 0
                 /\ req' = [req EXCEPT ![p].step = "admitted", ![p].student = x.student,
                                       ![p].user = users[x.student]]
           \/ /\ r.op = "delete"
              /\ \A x \in found : users[x.student] = 0
              /\ req' = [req EXCEPT ![p].step = "answer"]
        /\ UNCHANGED <<now, users, events, admissions, drawn, cookie>>

Logout(p) ==
    LET r == req[p]
        match == {x \in KeptSessions(r.t) : TokenOf(x) = r.token /\ x.revoked = Null}
    IN  /\ At(p, "logout", "begun")
        /\ PurgeFree(r.t)
        /\ SessionsFree(match)
        /\ challenges' = Kept(r.t)
        /\ sessions' = (KeptSessions(r.t) \ match) \cup {[x EXCEPT !.revoked = r.t] : x \in match}
        /\ req' = [req EXCEPT ![p].step = "answer", ![p].answer = NoCookie]
        /\ UNCHANGED <<now, users, events, admissions, drawn, cookie>>

\* delete_me: the user and what belongs to it, in one transaction ...
DeleteUser(p) ==
    /\ At(p, "delete", "admitted")
    /\ users' = [users EXCEPT ![req[p].student] = IF @ = req[p].user THEN 0 ELSE @]
    /\ req' = [req EXCEPT ![p].step = "deleted"]
    /\ UNCHANGED <<now, challenges, sessions, events, admissions, drawn, cookie>>

\* ... and delete_account_records in another.  Its first statement deletes the
\* sessions it sees when it starts, as soon as their rows are free.
BeginErase(p) ==
    /\ At(p, "delete", "deleted")
    /\ req' = [req EXCEPT ![p].step = "erasing",
                          ![p].seen = {x.id : x \in {y \in sessions : y.student = req[p].student}}]
    /\ UNCHANGED <<now, challenges, sessions, users, events, admissions, drawn, cookie>>

Erase(p) ==
    LET s == req[p].student
        mine == {c \in challenges : c.student = s}
        logins == {x \in sessions : x.id \in req[p].seen}
    IN  /\ At(p, "delete", "erasing")
        /\ ChallengesFree(mine)
        /\ SessionsFree(logins)
        /\ challenges' = challenges \ mine
        /\ sessions' = sessions \ logins
        /\ events' = {e \in events : e.student # s}
        /\ admissions' = {e \in admissions : e.student # s}
        /\ req' = [req EXCEPT ![p].step = "answer", ![p].answer = NoCookie]
        /\ UNCHANGED <<now, users, drawn, cookie>>

\* The browser gets the answer.
Answer(p) ==
    /\ req[p].step = "answer"
    /\ cookie' = [cookie EXCEPT ![req[p].browser] =
                      IF req[p].answer = Keep THEN @ ELSE req[p].answer]
    /\ req' = [req EXCEPT ![p] = NoReq]
    /\ UNCHANGED <<now, challenges, sessions, users, events, admissions, drawn>>

\* The process that serves the request is killed: an open transaction rolls
\* back, a committed one stays.
Kill(p) ==
    /\ req[p] # NoReq /\ req[p].op \in Kills
    /\ req' = [req EXCEPT ![p] = NoReq]
    /\ UNCHANGED <<now, challenges, sessions, users, events, admissions, drawn, cookie>>

-----------------------------------------------------------------------------
InTransaction(p) == req[p].step \in {"begun", "locked"}

\* bound: the clock waits for a transaction that has lasted MaxLag ticks.
Tick ==
    /\ now < MaxTime
    /\ \A p \in Requests : InTransaction(p) => now < req[p].t + MaxLag
    /\ now' = now + 1
    /\ UNCHANGED <<challenges, sessions, users, events, admissions, drawn, cookie, req>>

RequestNext(p) ==
    \/ \E s \in Students, a \in Addresses : BeginStart(p, s, a)
    \/ RefuseStart(p) \/ CreateChallenge(p) \/ MailSent(p) \/ MailFailed(p)
    \/ \E b \in Browsers, s \in Students, a \in Addresses, code \in 0..drawn.challenges :
          BeginVerify(p, b, s, a, code)
    \/ LockVerify(p) \/ CommitRefusal(p) \/ CommitLogin(p)
    \/ \E b \in Browsers, op \in CookieOps \cap Offered : BeginWithCookie(p, b, op)
    \/ LookUp(p) \/ Logout(p)
    \/ DeleteUser(p) \/ BeginErase(p) \/ Erase(p)
    \/ Answer(p) \/ Kill(p)

Next == Tick \/ \E p \in Requests : RequestNext(p)

Spec == Init /\ [][Next]_vars
-----------------------------------------------------------------------------
(* Properties. *)

Reqs ==
    [op : {"none", "start", "verify"} \cup CookieOps,
     step : {"none", "begun", "locked", "mail", "admitted", "deleted", "erasing", "answer"},
     student : Students \cup {NoOne}, address : Addresses \cup {NoOne},
     browser : Browsers \cup {NoOne}, t : 0..MaxTime \cup {Null}, code : 0..MaxChallenges,
     token : Tokens \cup {NoCookie}, challenge : 0..MaxChallenges, admitted : BOOLEAN,
     user : 0..MaxLogins, seen : SUBSET (1..MaxLogins), answer : Tokens \cup {NoCookie, Keep}]

TypeOK ==
    /\ now \in 0..MaxTime
    /\ challenges \subseteq ChallengeRows
    /\ sessions \subseteq SessionRows
    /\ users \in [Students -> 0..MaxLogins]
    /\ events \subseteq EventRows /\ admissions \subseteq EventRows
    /\ drawn \in [challenges : 0..MaxChallenges, logins : 0..MaxLogins]
    /\ cookie \in [Browsers -> Tokens \cup {NoCookie}]
    /\ req \in [Requests -> Reqs]

\* ARCHITECTURE.md:203: a new challenge replaces the unused one.  At most one
\* code of a student can be used at any time, however many starts,
\* verifications, mail errors and deletions run at once.
OneLiveChallenge == \A s \in Students : Cardinality(LiveOf(s)) <= 1

\* A login ends the other sessions of the student: two verifications at the
\* same time leave one session.
OneLiveSession == \A s \in Students : Cardinality(ActiveSessions(s)) <= 1

\* Two codes are never sent to a student within the cooldown, though the clock
\* is read before the lock, verifications and mail errors end the earlier code,
\* and requests with a newer clock purge it.  The deletion of the account is
\* the exception: it takes what the cooldown is counted from.
CooldownKept ==
    \A e, f \in admissions :
        e # f /\ e.kind = "OTP_START" /\ f.kind = "OTP_START" /\ e.student = f.student =>
            e.t - f.t >= Cooldown \/ f.t - e.t >= Cooldown

AdmittedIn(kind, first, last) == {e \in admissions : e.kind = kind /\ e.t \in first..last}

WithinLimits(S, kind) ==
    /\ \A s \in Students : Cardinality({e \in S : e.student = s}) <= AccountLimit(kind)
    /\ \A a \in Addresses : Cardinality({e \in S : e.address = a}) <= AddressLimit(kind)

\* No student and no address was admitted more often than its limit, counted
\* over all processes and over all that was ever admitted to accounts that
\* were not deleted.  A request whose clock is newer, by MaxLag ticks at most,
\* purges rows that one which waits for its locks still has to count: so the
\* limit holds for windows that are shorter by as much.
RateRespected ==
    \A kind \in {"OTP_START", "OTP_VERIFY"}, first \in 0..MaxTime :
        WithinLimits(AdmittedIn(kind, first, first + RateWindow - MaxLag), kind)

\* The limit of every whole window, which the code does not keep: an address
\* with a limit of 1 is admitted at 0; of two waiting requests that of clock
\* RateWindow + 1 is first and purges that row, and the one of clock
\* RateWindow is admitted as well.
RateRespectedInFull ==
    \A kind \in {"OTP_START", "OTP_VERIFY"}, first \in 0..MaxTime :
        WithinLimits(AdmittedIn(kind, first, first + RateWindow), kind)

\* Codes are not sent too often: the cooldown and the limits hold.
SendingLimited == CooldownKept /\ RateRespected

\* A session begins only by consuming a challenge of its student that is live
\* until that very step: a code is used once, and not after it was replaced,
\* exhausted, or invalidated by the error of the mailer.
LoginConsumesLiveCode ==
    [][\A x \in sessions' : x.id > drawn.logins =>
          \E c \in LiveOf(x.student) : [c EXCEPT !.consumed = TRUE] \in challenges']_vars

\* How a challenge ended is settled: a used code is never also invalid.
SettledOnce == \A c \in challenges : ~(c.consumed /\ c.invalidated)

\* Parallel requests leave a student one usable code and one session, and no
\* code that was both used and invalidated (every variable keeps its type).
OneLivePerStudent == TypeOK /\ OneLiveChallenge /\ OneLiveSession /\ SettledOnce

LiveTokens == {TokenOf(x) : x \in {y \in sessions : y.revoked = Null}}

\* A token that has stopped working, by rotation, logout, another login,
\* expiry or deletion, never works again.
DeadTokenStaysDead ==
    [][\A x \in sessions' : x.revoked = Null =>
          \/ TokenOf(x) \in LiveTokens
          \/ x.id > drawn.logins
          \/ \E y \in sessions : y.id = x.id /\ y.revoked = Null /\ y.gen < x.gen]_vars

Orphan(s) == ActiveSessions(s) # {} /\ users[s] = 0

Deleting(p, s) == req[p].op = "delete" /\ req[p].student = s

\* The step that leaves a student with a session and without an account, which
\* every route refuses, is taken while a deletion of that account is in progress
\* (which was not killed).  The session may stay: a login that read the account
\* before DeleteUser and commits after BeginErase is not seen by Erase.
LoginGivesAccount ==
    [][\A s \in Students :
          Orphan(s)' /\ ~Orphan(s) => \E p \in Requests : Deleting(p, s)']_vars

\* API_SPEC.md:548 (GET /auth/session): the answer replaces the cookie of a
\* valid session that is due for rotation.  So once every request is answered,
\* a browser holds the token of a session that was rotated.
RotationReachesBrowser ==
    (\A p \in Requests : req[p] = NoReq) =>
        \A x \in sessions : x.revoked = Null /\ x.gen > 0 =>
            \E b \in Browsers : cookie[b] = TokenOf(x)

\* API_SPEC.md:552: logout revokes the current session and deletes the cookie.
LogoutEndsSession ==
    \A p \in Requests : At(p, "logout", "answer") =>
        \A x \in sessions : x.id = req[p].token.id => x.revoked # Null
=============================================================================
