------------------------------ MODULE Accounts ------------------------------
(***************************************************************************)
(* The tables behind sign-up, log-in and enrollment: students with their   *)
(* unique email, sessions by their token, and one enrollment a student in  *)
(* the one supported exam.  Each operator is one statement; `at` is the    *)
(* clock the request read before it.                                       *)
(***************************************************************************)
EXTENDS Naturals

CONSTANTS
  None,
  Students,   \* ids of student rows
  Emails,
  Tokens,     \* session tokens
  Lifetime    \* of a session

ASSUME AccountsAssumption ==
  /\ Lifetime \in Nat \ {0}
  /\ None \notin Students \cup Emails \cup Tokens

Dates == Nat \cup {None}

StudentRows == [email : Emails, onboarded : Dates]

SessionRows == [student : Students, expires : Nat, revoked : Dates]

ASSUME NoneAssumption == None \notin Nat \cup StudentRows \cup SessionRows

VARIABLES
  students,   \* id -> None or its row
  sessions,   \* token -> None or its row
  enrolled    \* student -> None or the date of the enrollment

accountVars == <<students, sessions, enrolled>>

\* Every student of these has a session, and is enrolled unless new.
AccountsInit(known, fresh) ==
  /\ students = [s \in Students |->
       IF s \in DOMAIN known THEN [email |-> known[s].email, onboarded |-> None] ELSE None]
  /\ sessions = [k \in Tokens |->
       IF \E s \in DOMAIN known : known[s].token = k
       THEN [student |-> CHOOSE s \in DOMAIN known : known[s].token = k,
             expires |-> Lifetime, revoked |-> None]
       ELSE None]
  /\ enrolled = [s \in Students |-> IF s \in DOMAIN known \ fresh THEN 0 ELSE None]

Owner(email) == {s \in Students : students[s] # None /\ students[s].email = email}

\* The insertion of a student; the unique index on the email may refuse it.
CreateStudent(s, email) ==
  /\ students[s] = None
  /\ Owner(email) = {}
  /\ students' = [students EXCEPT ![s] = [email |-> email, onboarded |-> None]]
  /\ UNCHANGED <<sessions, enrolled>>

IssueSession(k, s, at) ==
  /\ sessions[k] = None
  /\ sessions' = [sessions EXCEPT ![k] =
       [student |-> s, expires |-> at + Lifetime, revoked |-> None]]
  /\ UNCHANGED <<students, enrolled>>

\* A session that has ended by t.
Over(session, t) == session.revoked # None \/ session.expires <= t

\* Mutant of Active: the revocation is not looked at.
Unexpired(k, at) == k # None /\ sessions[k] # None /\ at < sessions[k].expires

\* findActiveByTokenHash
Active(k, at) ==
  k # None /\ sessions[k] # None /\ sessions[k].revoked = None /\ at < sessions[k].expires

\* A date that stays when it is there.
Once(date, at) == IF date = None THEN at ELSE date

\* The session is revoked unless it already is.
Revoke(k, at) ==
  /\ sessions' = [sessions EXCEPT ![k] =
       [@ EXCEPT !.revoked = Once(sessions[k].revoked, at)]]
  /\ UNCHANGED <<students, enrolled>>

\* A conditional update.
CompleteOnboarding(s, at) ==
  /\ students' = [students EXCEPT ![s] =
       [@ EXCEPT !.onboarded = Once(students[s].onboarded, at)]]
  /\ UNCHANGED <<sessions, enrolled>>

\* Mutant of Enroll: the upsert writes the date anew.
EnrollAgain(s, at) ==
  /\ enrolled' = [enrolled EXCEPT ![s] = at]
  /\ UNCHANGED <<students, sessions>>

\* An upsert that changes nothing of an enrollment there is.
Enroll(s, at) ==
  /\ enrolled' = [enrolled EXCEPT ![s] = Once(@, at)]
  /\ UNCHANGED <<students, sessions>>

=============================================================================
