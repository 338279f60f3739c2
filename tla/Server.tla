------------------------------- MODULE Server -------------------------------
(***************************************************************************)
(* The HTTP server between its requests and the tables: which limits are   *)
(* counted when, when the session is resolved and the enrollment read, how *)
(* the tutor's gate is held and given back, and the deadline that answers  *)
(* a tutor request whose run goes on.  `pc` stands before what the request *)
(* awaits next; between two awaits nothing else runs.                      *)
(***************************************************************************)
EXTENDS RateLimit, Accounts, Tutor, FiniteSets

CONSTANTS
  Requests,     \* connections: each carries one request after another
  Ip,           \* the one address they come from
  Known,        \* students there are at the start: id -> [email, token]
  MaxInFlight,  \* tutor requests of one student
  MaxArrivals,  \* requests in all
  MaxTime

ASSUME ServerAssumption ==
  /\ MaxInFlight \in Nat \ {0}
  /\ MaxArrivals \in Nat /\ MaxTime \in Nat
  /\ DOMAIN Known \subseteq Students

\* Each limit has its rule.
ASSUME BucketsAssumption ==
  {"ip", "auth", "auth_account", "api", "tutor"} \subseteq DOMAIN Rules

\* The table of the start obeys the unique index on the email.
ASSUME KnownAssumption ==
  /\ \A s \in DOMAIN Known : Known[s].email \in Emails
  /\ \A s, t \in DOMAIN Known : Known[s].email = Known[t].email => s = t

VARIABLES
  windows,   \* the limiter
  gate,      \* student -> tutor requests in flight
  reqs,
  runs,      \* request -> the tutor run it started, which may outlive it
  arrived,   \* requests so far
  now

serverVars == <<windows, gate, reqs, runs, arrived, now>>
vars == <<accountVars, serverVars>>

AuthOps == {"signup", "login", "logout", "onboard", "enroll"}
StudyOps == {"practice", "ask"}

Idle ==
  [pc |-> "idle", op |-> "none", token |-> None, email |-> None, at |-> 0, student |-> None,
   old |-> FALSE, unit |-> "none", told |-> "nothing"]

Init ==
  /\ \E fresh \in SUBSET DOMAIN Known : AccountsInit(Known, fresh)
  /\ windows = <<>>
  /\ gate = [s \in Students |-> 0]
  /\ reqs = [r \in Requests |-> Idle]
  /\ runs = [r \in Requests |-> NoRun]
  /\ arrived = 0
  /\ now = 0

-----------------------------------------------------------------------------
(* Requests and answers *)

Holding == {"reserve", "asking", "settle"}

\* Mutant of Released: only an answer that was settled gives the slot back.
ReleasedBySettle(r) ==
  IF reqs[r].pc = "settle" THEN [gate EXCEPT ![reqs[r].student] = @ - 1] ELSE gate

\* The gate after a request is answered: it gives back the slot it holds.
Released(r) ==
  IF reqs[r].pc \in Holding THEN [gate EXCEPT ![reqs[r].student] = @ - 1] ELSE gate

\* A request is answered: what it was told is only kept where a unit hangs on it.
Answer(r) ==
  /\ reqs' = [reqs EXCEPT ![r] = [Idle EXCEPT !.unit = reqs[r].unit]]
  /\ gate' = Released(r)

To(r, pc) == reqs' = [reqs EXCEPT ![r] = [@ EXCEPT !.pc = pc]]

Continue(r, pc) == To(r, pc) /\ UNCHANGED gate

\* The request goes on for a student.
For(r, s, pc) ==
  /\ reqs' = [reqs EXCEPT ![r] = [@ EXCEPT !.pc = pc, !.student = s]]
  /\ UNCHANGED gate

Limited(bucket, who) == ~Allowed(windows', <<bucket, who>>)

\* What a request brings: it is remembered whether its session had ended by then.
Sent(op, token, email) ==
  [Idle EXCEPT !.pc = "body", !.op = op, !.token = token, !.email = email,
               !.old = token # None /\ Over(sessions[token], now)]

\* A request arrives.  Sign-up and log-in are counted twice by address.
Arrive(r) ==
  /\ reqs[r].pc = "idle"
  /\ ~Running(runs[r])
  /\ arrived < MaxArrivals
  /\ arrived' = arrived + 1
  /\ \E op \in AuthOps \cup StudyOps, token \in Tokens \cup {None}, email \in Emails :
       LET first  == Hit(windows, <<"ip", Ip>>, now)
           passed == Allowed(first, <<"ip", Ip>>)
           twice  == passed /\ op \in {"signup", "login"}
       IN /\ op \in {"signup", "login"} => token = None
          /\ op \notin {"signup", "login"} => email = CHOOSE e \in Emails : TRUE
          /\ token # None => sessions[token] # None
          /\ windows' = IF twice THEN Hit(first, <<"auth", Ip>>, now) ELSE first
          /\ reqs' = [reqs EXCEPT ![r] =
               IF passed /\ (twice => Allowed(windows', <<"auth", Ip>>))
               THEN Sent(op, token, email) ELSE Idle]
  /\ UNCHANGED <<accountVars, gate, runs, now>>

\* The body has been read.  Only then is the account of a log-in counted, the clock read
\* and the cookie looked at.
Body(r) ==
  /\ reqs[r].pc = "body"
  /\ windows' = IF reqs[r].op = "login"
                THEN Hit(windows, <<"auth_account", reqs[r].email>>, now) ELSE windows
  /\ \/ /\ reqs[r].op = "login"
        /\ Limited("auth_account", reqs[r].email)
        /\ Answer(r)  \* limited
     \/ /\ reqs[r].op \notin {"signup", "login"}
        /\ reqs[r].token = None
        /\ Answer(r)
     \/ /\ reqs[r].op = "login" => ~Limited("auth_account", reqs[r].email)
        /\ reqs[r].op \notin {"signup", "login"} => reqs[r].token # None
        /\ reqs' = [reqs EXCEPT ![r] = [@ EXCEPT !.at = now, !.pc =
             CASE reqs[r].op = "signup" -> "create"
               [] reqs[r].op = "login" -> "lookup"
               [] OTHER -> "find"]]
        /\ UNCHANGED gate
  /\ UNCHANGED <<accountVars, runs, arrived, now>>

\* An awaited call fails: the body is too large or never comes, a statement fails.
Fail(r) ==
  /\ reqs[r].pc \in {"body", "create", "lookup", "issue", "find", "revoke", "onboard", "enroll",
                     "enrollment", "guard", "work", "reserve"}
  /\ Answer(r)  \* error
  /\ UNCHANGED <<accountVars, windows, runs, arrived, now>>

-----------------------------------------------------------------------------
(* Accounts *)

Create(r) ==
  /\ reqs[r].pc = "create"
  /\ \/ \E s \in Students :
          CreateStudent(s, reqs[r].email) /\ For(r, s, "issue")
     \/ /\ Owner(reqs[r].email) # {}
        /\ Answer(r)  \* taken
        /\ UNCHANGED accountVars
  /\ UNCHANGED <<windows, runs, arrived, now>>

\* The account and the password; a wrong one and an unknown email are told alike.
Lookup(r) ==
  /\ reqs[r].pc = "lookup"
  /\ \/ \E s \in Owner(reqs[r].email) : For(r, s, "issue")
     \/ Answer(r)  \* invalid_credentials
  /\ UNCHANGED <<accountVars, windows, runs, arrived, now>>

Issue(r) ==
  /\ reqs[r].pc = "issue"
  /\ \E k \in Tokens : IssueSession(k, reqs[r].student, reqs[r].at)
  /\ Answer(r)  \* session
  /\ UNCHANGED <<windows, runs, arrived, now>>

\* The session of the cookie at the time the request read.
Find(r) ==
  /\ reqs[r].pc = "find"
  /\ \/ /\ ~Active(reqs[r].token, reqs[r].at)
        /\ Answer(r)
     \/ /\ Active(reqs[r].token, reqs[r].at)
        /\ reqs' = [reqs EXCEPT ![r] =
             [@ EXCEPT !.student = sessions[reqs[r].token].student,
                       !.at = IF reqs[r].op = "enroll" THEN now ELSE reqs[r].at,
                       !.pc = CASE reqs[r].op = "logout" -> "revoke"
                                [] reqs[r].op = "onboard" -> "onboard"
                                [] reqs[r].op = "enroll" -> "enroll"
                                [] OTHER -> "enrollment"]]
        /\ UNCHANGED gate
  /\ UNCHANGED <<accountVars, windows, runs, arrived, now>>

RevokeSession(r) ==
  /\ reqs[r].pc = "revoke"
  /\ Revoke(reqs[r].token, reqs[r].at)
  /\ Answer(r)  \* logged_out
  /\ UNCHANGED <<windows, runs, arrived, now>>

Onboard(r) ==
  /\ reqs[r].pc = "onboard"
  /\ CompleteOnboarding(reqs[r].student, reqs[r].at)
  /\ Answer(r)  \* onboarded
  /\ UNCHANGED <<windows, runs, arrived, now>>

\* The row is there whether or not the preparation phase can be told afterwards.
EnrollStudent(r) ==
  /\ reqs[r].pc = "enroll"
  /\ Enroll(reqs[r].student, reqs[r].at)
  /\ Answer(r)  \* enrolled, error
  /\ UNCHANGED <<windows, runs, arrived, now>>

-----------------------------------------------------------------------------
(* Studying *)

\* The claim is complete with the enrollment; only now is the student counted.
Enrollment(r) ==
  LET api  == Hit(windows, <<"api", reqs[r].student>>, now)
      both == Hit(api, <<"tutor", reqs[r].student>>, now)
      counts == reqs[r].op = "ask" /\ Allowed(api, <<"api", reqs[r].student>>)
  IN
  /\ reqs[r].pc = "enrollment"
  /\ \/ /\ enrolled[reqs[r].student] = None
        /\ Answer(r)  \* not_enrolled
        /\ UNCHANGED windows
     \/ /\ enrolled[reqs[r].student] # None
        /\ windows' = IF counts THEN both ELSE api
        /\ IF Limited("api", reqs[r].student) \/ (counts /\ Limited("tutor", reqs[r].student))
           THEN Answer(r)
           ELSE Continue(r, "guard")
  /\ UNCHANGED <<accountVars, runs, arrived, now>>

\* The exam must be covered by a plan.  A tutor request then takes a slot, if there is one.
Guard(r) ==
  /\ reqs[r].pc = "guard"
  /\ \/ Answer(r)  \* no_access
     \/ /\ reqs[r].op = "practice"
        /\ Continue(r, "work")
     \/ /\ reqs[r].op = "ask"
        /\ gate[reqs[r].student] >= MaxInFlight
        /\ Answer(r)  \* limited
     \/ /\ reqs[r].op = "ask"
        /\ gate[reqs[r].student] < MaxInFlight
        /\ To(r, "reserve")
        /\ gate' = [gate EXCEPT ![reqs[r].student] = @ + 1]
  /\ UNCHANGED <<accountVars, windows, runs, arrived, now>>

\* A practice route: what it does is another component's.
Practise(r) ==
  /\ reqs[r].pc = "work"
  /\ Answer(r)  \* done
  /\ UNCHANGED <<accountVars, windows, runs, arrived, now>>

\* A unit is reserved and the run begins, or the plan has none left.
Reserve(r) ==
  /\ reqs[r].pc = "reserve"
  /\ \/ /\ Answer(r)  \* no_access
        /\ UNCHANGED runs
     \/ /\ reqs' = [reqs EXCEPT ![r] = [@ EXCEPT !.pc = "asking", !.unit = "reserved"]]
        /\ \E task \in {"named", "help"} : runs' = [runs EXCEPT ![r] = Started(task)]
        /\ UNCHANGED gate
  /\ UNCHANGED <<accountVars, windows, arrived, now>>

\* A run that has ended and that nobody waits for is forgotten.
Kept(run) == IF Running(run) THEN run ELSE NoRun

\* The next step of a run, awaited or not.
Run(r) ==
  /\ \E next \in Steps(runs[r]) :
       runs' = [runs EXCEPT ![r] = IF reqs[r].pc = "asking" THEN next ELSE Kept(next)]
  /\ UNCHANGED <<accountVars, windows, gate, reqs, arrived, now>>

Replied(r, told) == reqs' = [reqs EXCEPT ![r] = [@ EXCEPT !.pc = "settle", !.told = told]]

\* The run ended first.
Reply(r) ==
  /\ reqs[r].pc = "asking"
  /\ runs[r].stage = "done"
  /\ \E told \in Answers(runs[r]) : Replied(r, told)
  /\ UNCHANGED <<accountVars, windows, gate, runs, arrived, now>>

\* Mutant of Deadline: the timer stands only while the model is asked.
DeadlineOnCall(r) ==
  /\ reqs[r].pc = "asking"
  /\ runs[r].stage = "call"
  /\ Replied(r, "temporarily_unavailable")
  /\ UNCHANGED <<accountVars, windows, gate, runs, arrived, now>>

\* The timer ended first; the run goes on.
Deadline(r) ==
  /\ reqs[r].pc = "asking"
  /\ Running(runs[r])
  /\ Replied(r, "temporarily_unavailable")
  /\ UNCHANGED <<accountVars, windows, gate, runs, arrived, now>>

\* The unit is settled, or it stays reserved when that fails; the answer goes out either way.
Settle(r) ==
  /\ reqs[r].pc = "settle"
  /\ \E unit \in {Outcome(reqs[r].told), "reserved"} :
       reqs' = [reqs EXCEPT ![r] = [Idle EXCEPT !.unit = unit]]
  /\ gate' = Released(r)
  /\ runs' = [runs EXCEPT ![r] = Kept(runs[r])]
  /\ UNCHANGED <<accountVars, windows, arrived, now>>

Tick ==
  /\ now < MaxTime
  /\ now' = now + 1
  /\ UNCHANGED <<accountVars, windows, gate, reqs, runs, arrived>>

\* What the server, its database and its timers bring about by themselves.
Serve(r) ==
  \/ Body(r) \/ Fail(r) \/ Create(r) \/ Lookup(r) \/ Issue(r) \/ Find(r) \/ RevokeSession(r)
  \/ Onboard(r) \/ EnrollStudent(r) \/ Enrollment(r) \/ Guard(r) \/ Practise(r) \/ Reserve(r)
  \/ Reply(r) \/ Deadline(r) \/ Settle(r)

Next ==
  \/ Tick
  \/ \E r \in Requests : Arrive(r) \/ Serve(r) \/ Run(r)

\* Statements return or fail, bodies end or time out, timers fire; the model of the tutor
\* may never answer.
Spec == Init /\ [][Next]_vars /\ \A r \in Requests : WF_vars(Serve(r))

-----------------------------------------------------------------------------
(* Properties *)

\* The account of an email, and a session as its holder knows it.
Account(e) ==
  IF Owner(e) = {} THEN None
  ELSE LET s == CHOOSE s \in Owner(e) : TRUE IN
       [onboarded |-> students[s].onboarded, enrolled |-> enrolled[s]]

Ticket(k) ==
  IF sessions[k] = None THEN None
  ELSE [owner |-> students[sessions[k].student].email, live |-> ~Over(sessions[k], now)]

accounts == [e \in Emails |-> Account(e)]

tickets == [k \in Tokens |-> Ticket(k)]

ASSUME LifeAssumption ==
  None \notin [onboarded : Dates, enrolled : Dates] \cup [owner : Emails, live : BOOLEAN]

L == INSTANCE AccountLife WITH sessions <- tickets

\* One account an email, dates that stay, and sessions that end for good.
KeepsAccounts == L!Spec

\* A request sent with a session that had ended is never taken for its student's.
EndedStaysEnded ==
  \A r \in Requests : reqs[r].old => reqs[r].student = None

\* The limiter forgets a window that still counts only when it is full, and then no
\* window it keeps is older.
OldestForgotten ==
  [][\A i \in DOMAIN windows :
       (Live(windows[i], now) /\ \A j \in DOMAIN windows' : windows'[j].key # windows[i].key)
       => /\ Len(windows') = MaxKeys
          /\ \A j \in DOMAIN windows' : windows'[j].start >= windows[i].start]_vars

\* The gate counts the requests that hold it, and never more than it may.
GateHeld ==
  \A s \in Students :
    /\ gate[s] = Cardinality({r \in Requests : reqs[r].student = s /\ reqs[r].pc \in Holding})
    /\ gate[s] <= MaxInFlight

\* A unit is charged for an answer, for one that could not be verified, or for a question
\* that needs more; never for one the deadline beat or that did not come.
ChargedIfTold ==
  [][\A r \in Requests : reqs[r].pc = "settle" /\ reqs'[r].pc = "idle" =>
       /\ reqs'[r].unit = "consumed" =>
            /\ reqs[r].told \in {"answered", "could_not_verify", "needs_more_information"}
            /\ runs[r].stage = "done"
       /\ reqs[r].told = "answered" => reqs'[r].unit # "released"]_vars

\* Every request is answered, and its slot given back, even when the model never answers.
Answered == \A r \in Requests : reqs[r].pc # "idle" ~> reqs[r].pc = "idle"

=============================================================================
