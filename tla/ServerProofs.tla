---------------------------- MODULE ServerProofs ----------------------------
(***************************************************************************)
(* Of Server, for any number of connections, students and sessions: a      *)
(* session that has ended is never taken for its student's, the tutor's    *)
(* gate counts the requests that hold it, a unit is charged for an answer  *)
(* only, the limiter forgets the oldest window when it must forget one,    *)
(* and the tables behind the accounts implement AccountLife.               *)
(***************************************************************************)
EXTENDS Server, FiniteSetTheorems, SequenceTheorems, WellFoundedInduction, TLAPS

-----------------------------------------------------------------------------
(* The inductive invariant *)

\* What a tutor request may be told.
Told ==
  {"answered", "could_not_verify", "needs_more_information", "error",
   "temporarily_unavailable", "not_available"}

Pcs ==
  {"idle", "body", "create", "lookup", "issue", "find", "revoke", "onboard", "enroll",
   "enrollment", "guard", "work", "reserve", "asking", "settle"}

\* The steps of a request that stands for a student.
Placed ==
  {"issue", "revoke", "onboard", "enroll", "enrollment", "guard", "work"} \cup Holding

Calls ==
  [pc : Pcs, op : AuthOps \cup StudyOps \cup {"none"}, token : Tokens \cup {None},
   email : Emails \cup {None}, at : Nat, student : Students \cup {None}, old : BOOLEAN,
   unit : {"none", "reserved", "consumed", "released"}, told : Told \cup {"nothing"}]

\* How a run may end, and what its preferences may come to.
Ends == {"none", "thrown", "answered", "skipped"} \cup Kinds

Runs ==
  [stage : {"none", "owner", "prefs", "context", "call", "ground", "done"},
   task : {"named", "help"}, prefs : {"ok", "handler_error", "insufficient_context"},
   gen : Nat, try : Nat, end : Ends]

RunOK(run) ==
  /\ run \in Runs
  /\ run.stage = "done" => run.end # "none"
  /\ run.end = "skipped" => run.prefs # "ok"

\* Rows belong to one another, and an email to one student.
TablesOK ==
  /\ students \in [Students -> StudentRows \cup {None}]
  /\ sessions \in [Tokens -> SessionRows \cup {None}]
  /\ enrolled \in [Students -> Dates]
  /\ \A k \in Tokens : sessions[k] # None => students[sessions[k].student] # None
  /\ \A s \in Students : students[s] = None => enrolled[s] = None
  /\ \A s, t \in Students :
       students[s] # None /\ students[t] # None /\ students[s].email = students[t].email => s = t

\* A request sent with a session that had ended has found no student, and will not: the
\* session has ended by the time the request reads.
StaysEnded(q, rows, t) ==
  q.old =>
    /\ q.pc \in {"body", "find"}
    /\ q.student = None
    /\ q.op \notin {"signup", "login"}
    /\ q.token \in Tokens /\ rows[q.token] # None
    /\ Over(rows[q.token], t)
    /\ q.pc = "find" => Over(rows[q.token], q.at)

\* A request stands for a student there is, with the session it showed.
Stands(q, people, rows) ==
  /\ q.pc # "idle" => q.email \in Emails
  /\ q.pc \in Placed => q.student \in Students /\ people[q.student] # None
  /\ q.pc \in {"body", "find"} /\ q.token # None => rows[q.token] # None
  /\ q.pc = "revoke" => q.token \in Tokens /\ rows[q.token] # None

\* What a request that settles was told, its run has come to, unless the deadline said it.
ToldOK(q, run) ==
  q.pc = "settle" =>
    /\ q.told \in Told
    /\ q.told # "temporarily_unavailable" => run.stage = "done"

CallOK(q, run, people, rows, t) ==
  /\ q \in Calls
  /\ RunOK(run)
  /\ StaysEnded(q, rows, t)
  /\ Stands(q, people, rows)
  /\ ToldOK(q, run)

RequestsOK ==
  /\ reqs \in [Requests -> Calls]
  /\ runs \in [Requests -> Runs]
  /\ \A r \in Requests : CallOK(reqs[r], runs[r], students, sessions, now)

\* The requests that hold a student's slots.
Holders(s) == {r \in Requests : reqs[r].student = s /\ reqs[r].pc \in Holding}

GateOK ==
  /\ gate \in [Students -> Nat]
  /\ \A s \in Students :
       IsFiniteSet(Holders(s)) /\ gate[s] = Cardinality(Holders(s)) /\ gate[s] <= MaxInFlight

VInv == TablesOK /\ RequestsOK /\ GateOK /\ now \in Nat

-----------------------------------------------------------------------------
(* What steps do to the tables *)

\* Students and sessions stay, a session that has ended stays ended, the clock goes on.
Grows(people, rows, t, people2, rows2, t2) ==
  /\ t \in Nat /\ t2 \in Nat /\ t <= t2
  /\ \A s \in Students : people[s] # None => people2[s] # None
  /\ \A k \in Tokens : rows[k] # None =>
       /\ rows2[k] # None
       /\ rows[k].expires \in Nat
       /\ rows2[k].expires = rows[k].expires
       /\ rows[k].revoked # None => rows2[k].revoked # None

LEMMA Stable ==
  ASSUME NEW people, NEW rows, NEW t, NEW people2, NEW rows2, NEW t2,
         Grows(people, rows, t, people2, rows2, t2),
         NEW q, NEW run, CallOK(q, run, people, rows, t)
  PROVE  CallOK(q, run, people2, rows2, t2)
<1>1. q \in Calls /\ RunOK(run) /\ ToldOK(q, run)
  BY DEF CallOK
<1>2. StaysEnded(q, rows2, t2)
  BY <1>1 DEF CallOK, StaysEnded, Over, Grows, Calls
<1>3. Stands(q, people2, rows2)
  BY <1>1 DEF CallOK, Stands, Grows, Calls
<1> QED BY <1>1, <1>2, <1>3 DEF CallOK

LEMMA Still ==
  ASSUME VInv, UNCHANGED accountVars, UNCHANGED now
  PROVE  TablesOK' /\ Grows(students, sessions, now, students', sessions', now') /\ now' \in Nat
  BY DEF VInv, TablesOK, accountVars, Grows, SessionRows

LEMMA Creates ==
  ASSUME VInv, NEW s \in Students, NEW e \in Emails, CreateStudent(s, e), UNCHANGED now
  PROVE  /\ TablesOK' /\ Grows(students, sessions, now, students', sessions', now')
         /\ students'[s] # None
<1> DEFINE new == [email |-> e, onboarded |-> None]
<1>1. new \in StudentRows /\ new # None /\ new.email = e
  BY NoneAssumption DEF StudentRows, Dates
<1> HIDE DEF new
<1>2. /\ students[s] = None /\ UNCHANGED <<sessions, enrolled>>
      /\ students' = [t \in Students |-> IF t = s THEN new ELSE students[t]]
      /\ \A t \in Students : ~(students[t] # None /\ students[t].email = e)
  BY DEF CreateStudent, Owner, VInv, TablesOK, new
<1>3. TablesOK'
  BY <1>1, <1>2 DEF VInv, TablesOK, SessionRows
<1> QED BY <1>1, <1>2, <1>3 DEF VInv, TablesOK, Grows, SessionRows

LEMMA Issues ==
  ASSUME VInv, NEW k \in Tokens, NEW s \in Students, students[s] # None, NEW at \in Nat,
         IssueSession(k, s, at), UNCHANGED now
  PROVE  TablesOK' /\ Grows(students, sessions, now, students', sessions', now')
<1> DEFINE new == [student |-> s, expires |-> at + Lifetime, revoked |-> None]
<1>1. new \in SessionRows /\ new # None /\ new.student = s
  BY NoneAssumption, AccountsAssumption DEF SessionRows, Dates
<1> HIDE DEF new
<1>2. /\ sessions[k] = None /\ UNCHANGED <<students, enrolled>>
      /\ sessions' = [j \in Tokens |-> IF j = k THEN new ELSE sessions[j]]
  BY DEF IssueSession, VInv, TablesOK, new
<1> QED BY <1>1, <1>2 DEF VInv, TablesOK, Grows, SessionRows

LEMMA Revokes ==
  ASSUME VInv, NEW k \in Tokens, sessions[k] # None, NEW at \in Nat,
         Revoke(k, at), UNCHANGED now
  PROVE  TablesOK' /\ Grows(students, sessions, now, students', sessions', now')
<1> DEFINE old == sessions[k]
           new == [old EXCEPT !.revoked = Once(old.revoked, at)]
<1>1. old \in SessionRows
  BY DEF VInv, TablesOK
<1>2. /\ new \in SessionRows /\ new # None /\ new.student = old.student
      /\ new.expires = old.expires /\ new.revoked # None
  BY <1>1, NoneAssumption DEF SessionRows, Dates, Once
<1>3. UNCHANGED <<students, enrolled>> /\ sessions' = [sessions EXCEPT ![k] = new]
  BY DEF Revoke
<1> HIDE DEF new
<1>4. sessions' = [j \in Tokens |-> IF j = k THEN new ELSE sessions[j]]
  BY <1>3 DEF VInv, TablesOK
<1> QED BY <1>1, <1>2, <1>3, <1>4 DEF VInv, TablesOK, Grows, SessionRows

LEMMA Onboards ==
  ASSUME VInv, NEW s \in Students, students[s] # None, NEW at \in Nat,
         CompleteOnboarding(s, at), UNCHANGED now
  PROVE  TablesOK' /\ Grows(students, sessions, now, students', sessions', now')
<1> DEFINE old == students[s]
           new == [old EXCEPT !.onboarded = Once(old.onboarded, at)]
<1>1. old \in StudentRows
  BY DEF VInv, TablesOK
<1>2. new \in StudentRows /\ new # None /\ new.email = old.email
  BY <1>1, NoneAssumption DEF StudentRows, Dates, Once
<1>3. UNCHANGED <<sessions, enrolled>> /\ students' = [students EXCEPT ![s] = new]
  BY DEF CompleteOnboarding
<1> HIDE DEF new
<1>4. students' = [t \in Students |-> IF t = s THEN new ELSE students[t]]
  BY <1>3 DEF VInv, TablesOK
<1> QED BY <1>1, <1>2, <1>3, <1>4 DEF VInv, TablesOK, Grows, SessionRows

LEMMA Enrolls ==
  ASSUME VInv, NEW s \in Students, students[s] # None, NEW at \in Nat,
         Enroll(s, at), UNCHANGED now
  PROVE  TablesOK' /\ Grows(students, sessions, now, students', sessions', now')
<1>1. /\ UNCHANGED <<students, sessions>>
      /\ enrolled' = [t \in Students |->
           IF t = s THEN IF enrolled[s] = None THEN at ELSE enrolled[s] ELSE enrolled[t]]
  BY DEF Enroll, Once, VInv, TablesOK
<1> QED BY <1>1 DEF VInv, TablesOK, Grows, SessionRows, Dates

-----------------------------------------------------------------------------
(* What steps do to the requests and the gate *)

\* One request moves, with its run; the others hold what they held.
LEMMA Moves ==
  ASSUME VInv, Grows(students, sessions, now, students', sessions', now'),
         NEW r \in Requests, NEW q, NEW run,
         reqs' = [reqs EXCEPT ![r] = q], runs' = [runs EXCEPT ![r] = run],
         CallOK(q, run, students', sessions', now')
  PROVE  RequestsOK'
<1>1. \A t \in Requests :
        /\ reqs'[t] = (IF t = r THEN q ELSE reqs[t])
        /\ runs'[t] = (IF t = r THEN run ELSE runs[t])
  BY DEF VInv, RequestsOK
<1>2. ASSUME NEW t \in Requests
      PROVE  CallOK(reqs'[t], runs'[t], students', sessions', now')
  <2>1. CASE t = r
    BY <1>1, <2>1
  <2>2. CASE t # r
    <3>1. CallOK(reqs[t], runs[t], students, sessions, now)
      BY DEF VInv, RequestsOK
    <3>2. CallOK(reqs[t], runs[t], students', sessions', now')
      BY <3>1, Stable
    <3> QED BY <1>1, <2>2, <3>2
  <2> QED BY <2>1, <2>2
<1>3. reqs' \in [Requests -> Calls] /\ runs' \in [Requests -> Runs]
  BY DEF VInv, RequestsOK, CallOK, RunOK
<1> QED BY <1>2, <1>3 DEF RequestsOK

LEMMA CallMoves ==
  ASSUME VInv, Grows(students, sessions, now, students', sessions', now'),
         NEW r \in Requests, NEW q, reqs' = [reqs EXCEPT ![r] = q], UNCHANGED runs,
         CallOK(q, runs[r], students', sessions', now')
  PROVE  RequestsOK'
<1> DEFINE run == runs[r]
<1>1. runs' = [runs EXCEPT ![r] = run]
  BY DEF VInv, RequestsOK
<1> HIDE DEF run
<1> QED BY <1>1, Moves DEF run

LEMMA NoneMoves ==
  ASSUME VInv, Grows(students, sessions, now, students', sessions', now'),
         UNCHANGED <<reqs, runs, gate>>
  PROVE  RequestsOK' /\ GateOK'
<1>1. ASSUME NEW t \in Requests
      PROVE  CallOK(reqs'[t], runs'[t], students', sessions', now')
  BY Stable DEF VInv, RequestsOK
<1>2. \A s \in Students : Holders(s)' = Holders(s)
  BY DEF Holders
<1> QED BY <1>1, <1>2 DEF VInv, RequestsOK, GateOK

\* What is known of one request.
LEMMA OfOne ==
  ASSUME VInv, NEW r \in Requests
  PROVE  /\ reqs[r] \in Calls /\ runs[r] \in Runs /\ RunOK(runs[r])
         /\ StaysEnded(reqs[r], sessions, now)
         /\ Stands(reqs[r], students, sessions)
         /\ ToldOK(reqs[r], runs[r])
  BY DEF VInv, RequestsOK, CallOK, RunOK

\* A request that neither takes nor gives back a slot.
LEMMA GateStays ==
  ASSUME VInv, NEW r \in Requests, NEW q, reqs' = [reqs EXCEPT ![r] = q], UNCHANGED gate,
         reqs[r].pc \in Holding <=> q.pc \in Holding,
         q.pc \in Holding => q.student = reqs[r].student
  PROVE  GateOK'
<1>1. \A t \in Requests : reqs'[t] = IF t = r THEN q ELSE reqs[t]
  BY DEF VInv, RequestsOK
<1>2. \A s \in Students : Holders(s)' = Holders(s)
  BY <1>1 DEF Holders
<1> QED BY <1>2 DEF VInv, GateOK

\* A request that takes a slot there is.
LEMMA GateTaken ==
  ASSUME VInv, NEW r \in Requests, NEW q, reqs' = [reqs EXCEPT ![r] = q],
         NEW s \in Students, q.student = s, gate[s] < MaxInFlight,
         reqs[r].pc \notin Holding, q.pc \in Holding, gate' = [gate EXCEPT ![s] = @ + 1]
  PROVE  GateOK'
<1>1. \A t \in Requests : reqs'[t] = IF t = r THEN q ELSE reqs[t]
  BY DEF VInv, RequestsOK
<1>2. \A u \in Students : Holders(u)' = IF u = s THEN Holders(u) \cup {r} ELSE Holders(u)
  BY <1>1 DEF Holders
<1>3. r \notin Holders(s)
  BY DEF Holders
<1>4. ASSUME NEW u \in Students
      PROVE  /\ IsFiniteSet(Holders(u)') /\ gate'[u] = Cardinality(Holders(u)')
             /\ gate'[u] <= MaxInFlight
  <2>1. IsFiniteSet(Holders(u)) /\ gate[u] = Cardinality(Holders(u)) /\ gate[u] <= MaxInFlight
        /\ gate[u] \in Nat
    BY DEF VInv, GateOK
  <2>2. CASE u = s
    <3>1. gate'[u] = gate[u] + 1 /\ gate'[u] <= MaxInFlight
      BY <2>1, <2>2, ServerAssumption DEF VInv, GateOK
    <3>2. /\ IsFiniteSet(Holders(u) \cup {r})
          /\ Cardinality(Holders(u) \cup {r}) = Cardinality(Holders(u)) + 1
      BY <1>3, <2>1, <2>2, FS_AddElement
    <3> QED BY <1>2, <2>1, <2>2, <3>1, <3>2
  <2>3. CASE u # s
    BY <1>2, <2>1, <2>3 DEF VInv, GateOK
  <2> QED BY <2>2, <2>3
<1>5. gate' \in [Students -> Nat]
  BY DEF VInv, GateOK
<1> QED BY <1>4, <1>5 DEF GateOK

\* A request that gives its slot back.
LEMMA GateReturned ==
  ASSUME VInv, NEW r \in Requests, NEW q, reqs' = [reqs EXCEPT ![r] = q],
         NEW s \in Students, reqs[r].student = s, reqs[r].pc \in Holding, q.pc \notin Holding,
         gate' = [gate EXCEPT ![s] = @ - 1]
  PROVE  GateOK'
<1>1. \A t \in Requests : reqs'[t] = IF t = r THEN q ELSE reqs[t]
  BY DEF VInv, RequestsOK
<1>2. \A u \in Students : Holders(u)' = IF u = s THEN Holders(u) \ {r} ELSE Holders(u)
  BY <1>1 DEF Holders
<1>3. r \in Holders(s)
  BY DEF Holders
<1>4. ASSUME NEW u \in Students
      PROVE  /\ gate'[u] \in Nat
             /\ IsFiniteSet(Holders(u)') /\ gate'[u] = Cardinality(Holders(u)')
             /\ gate'[u] <= MaxInFlight
  <2>1. IsFiniteSet(Holders(u)) /\ gate[u] = Cardinality(Holders(u)) /\ gate[u] <= MaxInFlight
        /\ gate[u] \in Nat
    BY DEF VInv, GateOK
  <2>2. CASE u = s
    <3>1. gate'[u] = gate[u] - 1
      BY <2>2 DEF VInv, GateOK
    <3>2. /\ IsFiniteSet(Holders(u) \ {r})
          /\ Cardinality(Holders(u) \ {r}) = Cardinality(Holders(u)) - 1
      BY <1>3, <2>1, <2>2, FS_RemoveElement
    <3>3. Cardinality(Holders(u) \ {r}) \in Nat
      BY <3>2, FS_CardinalityType
    <3> QED BY <1>2, <2>1, <2>2, <3>1, <3>2, <3>3, ServerAssumption
  <2>3. CASE u # s
    BY <1>2, <2>1, <2>3 DEF VInv, GateOK
  <2> QED BY <2>2, <2>3
<1>5. gate' = [u \in Students |-> gate'[u]]
  BY DEF VInv, GateOK
<1>6. gate' \in [Students -> Nat]
  BY <1>4, <1>5
<1> QED BY <1>4, <1>6 DEF GateOK

\* A request that is answered: whoever it held a slot for has it back.
LEMMA GateReleased ==
  ASSUME VInv, NEW r \in Requests, NEW q, reqs' = [reqs EXCEPT ![r] = q],
         q.pc \notin Holding, gate' = Released(r)
  PROVE  GateOK'
<1>1. CASE reqs[r].pc \in Holding
  <2> DEFINE s == reqs[r].student
  <2>1. s \in Students
    BY <1>1, OfOne DEF Stands, Placed
  <2>2. gate' = [gate EXCEPT ![s] = @ - 1]
    BY <1>1 DEF Released
  <2> HIDE DEF s
  <2> QED BY <1>1, <2>1, <2>2, GateReturned DEF s
<1>2. CASE reqs[r].pc \notin Holding
  BY <1>2, GateStays DEF Released
<1> QED BY <1>1, <1>2

\* An answered request waits for the next.
LEMMA AnsweredKeeps ==
  ASSUME VInv, Grows(students, sessions, now, students', sessions', now'),
         NEW r \in Requests, Answer(r), UNCHANGED runs
  PROVE  RequestsOK' /\ GateOK'
<1> DEFINE q == [Idle EXCEPT !.unit = reqs[r].unit]
<1>1. reqs[r] \in Calls /\ RunOK(runs[r])
  BY OfOne
<1>2. q \in Calls /\ q.pc = "idle" /\ ~q.old
  BY <1>1 DEF Idle, Calls, Pcs
<1>3. CallOK(q, runs[r], students', sessions', now')
  BY <1>1, <1>2 DEF CallOK, StaysEnded, Stands, ToldOK, Placed, Holding
<1>4. reqs' = [reqs EXCEPT ![r] = q] /\ gate' = Released(r) /\ q.pc \notin Holding
  BY <1>2 DEF Answer, Holding
<1> HIDE DEF q
<1> QED BY <1>3, <1>4, CallMoves, GateReleased

-----------------------------------------------------------------------------
(* Runs of the tutor *)

LEMMA RunsEnd ==
  ASSUME NEW run, RunOK(run), NEW end \in Ends \ {"none", "skipped"}
  PROVE  RunOK(Ended(run, end)) /\ Ended(run, end).stage = "done"
  BY DEF RunOK, Runs, Ended

\* From a stage to one that is not the last.
\* The run at a stage that is not the last.
At(run, stage, prefs, gen, try) ==
  [run EXCEPT !.stage = stage, !.prefs = prefs, !.gen = gen, !.try = try]

LEMMA RunsPass ==
  ASSUME NEW run, RunOK(run), NEW stage \in {"prefs", "context", "call", "ground"},
         NEW prefs, prefs = run.prefs \/ prefs = "handler_error", NEW gen \in Nat, NEW try \in Nat
  PROVE  LET next == At(run, stage, prefs, gen, try) IN RunOK(next) /\ next.stage = stage
<1> DEFINE next == At(run, stage, prefs, gen, try)
<1>1. next \in Runs /\ next.end = run.end /\ next.stage = stage /\ next.prefs = prefs
  BY DEF At, RunOK, Runs
<1> HIDE DEF next
<1> QED BY <1>1 DEF RunOK, next

LEMMA RunsOn ==
  ASSUME NEW run, RunOK(run), NEW next \in Steps(run)
  PROVE  RunOK(next) /\ Running(run) /\ next.stage # "none"
<1> DEFINE prefs == run.prefs
           gen == run.gen
           try == run.try
<1>1. run \in Runs /\ gen \in Nat /\ gen + 1 \in Nat /\ try \in Nat /\ try + 1 \in Nat /\ 0 \in Nat
  BY DEF RunOK, Runs
<1>2. Ends \ {"none", "skipped"} =
        {"thrown", "answered", "grounding_failure"} \cup ContextFailures \cup CallFailures
  BY DEF Ends, Kinds, ContextFailures, CallFailures
<1>3. CASE next \in Ownership(run)
  <2>1. run.stage = "owner"
    BY <1>3 DEF Ownership
  <2>2. next = At(run, "prefs", prefs, gen, try) \/ next = Ended(run, "thrown")
    BY <1>1, <1>3 DEF Ownership, At, Runs
  <2> HIDE DEF prefs, gen, try
  <2>3. RunOK(next) /\ next.stage # "none"
    BY <1>1, <1>2, <2>2, RunsPass, RunsEnd DEF prefs
  <2> QED BY <2>1, <2>3 DEF Running
<1>4. CASE next \in Preferences(run)
  <2>1. run.stage = "prefs"
    BY <1>4 DEF Preferences
  <2>2. \/ next = At(run, "context", prefs, gen, try)
        \/ next = At(run, "context", "handler_error", gen, try)
        \/ \E kind \in {"handler_error", "insufficient_context"} :
             next = [run EXCEPT !.stage = "done", !.prefs = kind, !.end = "skipped"]
    BY <1>1, <1>4 DEF Preferences, At, Runs
  <2>3. ASSUME NEW kind \in {"handler_error", "insufficient_context"},
               next = [run EXCEPT !.stage = "done", !.prefs = kind, !.end = "skipped"]
        PROVE  RunOK(next) /\ next.stage # "none"
    BY <1>1, <2>3 DEF RunOK, Runs, Ends
  <2> HIDE DEF prefs, gen, try
  <2>4. RunOK(next) /\ next.stage # "none"
    BY <1>1, <2>2, <2>3, RunsPass DEF prefs
  <2> QED BY <2>1, <2>4 DEF Running
<1>5. CASE next \in Context(run)
  <2>1. run.stage = "context"
    BY <1>5 DEF Context
  <2>2. \/ next = At(run, "call", prefs, gen, try)
        \/ \E kind \in ContextFailures : next = Ended(run, kind)
    BY <1>1, <1>5 DEF Context, At, Runs
  <2> HIDE DEF prefs, gen, try
  <2>3. RunOK(next) /\ next.stage # "none"
    BY <1>1, <1>2, <2>2, RunsPass, RunsEnd DEF prefs
  <2> QED BY <2>1, <2>3 DEF Running
<1>6. CASE next \in Call(run)
  <2>1. run.stage = "call"
    BY <1>6 DEF Call
  <2>2. \/ next = At(run, "ground", prefs, gen, try)
        \/ next = At(run, "call", prefs, gen, try + 1)
        \/ \E kind \in CallFailures : next = Ended(run, kind)
    BY <1>1, <1>6, <2>1 DEF Call, At, Runs
  <2> HIDE DEF prefs, gen, try
  <2>3. RunOK(next) /\ next.stage # "none"
    BY <1>1, <1>2, <2>2, RunsPass, RunsEnd DEF prefs
  <2> QED BY <2>1, <2>3 DEF Running
<1>7. CASE next \in Ground(run)
  <2>1. run.stage = "ground"
    BY <1>7 DEF Ground
  <2>2. \/ next = At(run, "call", prefs, gen + 1, 0)
        \/ \E end \in {"answered", "insufficient_context", "grounding_failure"} :
             next = Ended(run, end)
    BY <1>1, <1>7 DEF Ground, At, Runs
  <2>3. \A end \in {"answered", "insufficient_context", "grounding_failure"} :
          end \in Ends \ {"none", "skipped"}
    BY <1>2 DEF ContextFailures
  <2> HIDE DEF prefs, gen, try
  <2>4. RunOK(next) /\ next.stage # "none"
    BY <1>1, <2>2, <2>3, RunsPass, RunsEnd DEF prefs
  <2> QED BY <2>1, <2>4 DEF Running
<1> QED BY <1>3, <1>4, <1>5, <1>6, <1>7 DEF Steps

\* A run that has ended has something for the student.
LEMMA RunsTell ==
  ASSUME NEW run, RunOK(run), run.stage = "done", NEW told \in Answers(run)
  PROVE  told \in Told
<1> USE DEF RunOK, Runs, Ends
<1>1. CASE run.end = "thrown"
  BY <1>1 DEF Answers, Told
<1>2. CASE Completed(run)
  BY <1>2 DEF Answers, Completed, Told
<1>3. CASE run.end # "thrown" /\ ~Completed(run)
  <2> DEFINE kind == FailureKind(run)
  <2>1. kind \in Kinds
    BY <1>3 DEF FailureKind, Completed, Kinds, ContextFailures
  <2> HIDE DEF kind
  <2>2. SafeCode(kind) \in Told
    BY <2>1 DEF SafeCode, Kinds, ContextFailures, CallFailures, Told
  <2>3. told = SafeCode(kind)
    BY <1>3 DEF Answers, kind
  <2> QED BY <2>2, <2>3
<1> QED BY <1>1, <1>2, <1>3

LEMMA RunsBegin == ASSUME NEW task \in {"named", "help"} PROVE RunOK(Started(task))
  BY DEF Started, NoRun, RunOK, Runs, Ends, Kinds

LEMMA RunsRest == RunOK(NoRun) /\ NoRun.stage = "none"
  BY DEF NoRun, RunOK, Runs, Ends, Kinds

LEMMA RunsKept ==
  ASSUME NEW run, RunOK(run)
  PROVE  RunOK(Kept(run)) /\ (Running(run) => Kept(run) = run)
  BY RunsRest DEF Kept

-----------------------------------------------------------------------------
(* Every step keeps the invariant *)

LEMMA Answering ==
  ASSUME VInv, NEW r \in Requests, Answer(r), UNCHANGED <<accountVars, runs, now>>
  PROVE  VInv'
  BY Still, AnsweredKeeps DEF VInv

\* A request that goes on, no tables touched, no slot taken.
LEMMA Going ==
  ASSUME VInv, NEW r \in Requests, NEW q, reqs' = [reqs EXCEPT ![r] = q],
         UNCHANGED <<accountVars, runs, gate, now>>,
         q \in Calls, StaysEnded(q, sessions, now), Stands(q, students, sessions),
         q.pc # "settle", reqs[r].pc \notin Holding, q.pc \notin Holding
  PROVE  VInv'
<1>1. TablesOK' /\ Grows(students, sessions, now, students', sessions', now') /\ now' \in Nat
  BY Still
<1>2. CallOK(q, runs[r], students', sessions', now')
  BY OfOne DEF CallOK, ToldOK, accountVars
<1> QED BY <1>1, <1>2, CallMoves, GateStays DEF VInv

LEMMA Sends ==
  ASSUME VInv, NEW op \in AuthOps \cup StudyOps, NEW token \in Tokens \cup {None},
         NEW email \in Emails, op \in {"signup", "login"} => token = None,
         token # None => sessions[token] # None
  PROVE  LET q == Sent(op, token, email) IN
         /\ q \in Calls /\ q.pc = "body"
         /\ StaysEnded(q, sessions, now) /\ Stands(q, students, sessions)
<1> DEFINE q == Sent(op, token, email)
<1>1. (token # None /\ Over(sessions[token], now)) \in BOOLEAN
  BY DEF Over
<1>2. /\ q = [Idle EXCEPT !.pc = "body", !.op = op, !.token = token, !.email = email,
                          !.old = q.old]
      /\ q.old \in BOOLEAN
      /\ q.old => token # None /\ Over(sessions[token], now)
  BY <1>1 DEF Sent, Idle
<1> HIDE DEF q
<1>3. /\ q \in Calls /\ q.pc = "body" /\ q.op = op /\ q.token = token /\ q.email = email
      /\ q.student = None
  <2> DEFINE old == q.old
  <2>1. /\ old \in BOOLEAN
        /\ q = [Idle EXCEPT !.pc = "body", !.op = op, !.token = token, !.email = email,
                            !.old = old]
    BY <1>2
  <2> HIDE DEF old
  <2> QED BY <2>1 DEF Idle, Calls, Pcs
<1> QED BY <1>2, <1>3 DEF StaysEnded, Stands, Placed, Holding, q

LEMMA Arriving == ASSUME VInv, NEW r \in Requests, Arrive(r) PROVE VInv'
<1>1. UNCHANGED <<accountVars, runs, gate, now>> /\ reqs[r].pc \notin Holding
  BY DEF Arrive, Holding
<1>2. PICK op \in AuthOps \cup StudyOps, token \in Tokens \cup {None}, email \in Emails :
        /\ op \in {"signup", "login"} => token = None
        /\ token # None => sessions[token] # None
        /\ \/ reqs' = [reqs EXCEPT ![r] = Sent(op, token, email)]
           \/ reqs' = [reqs EXCEPT ![r] = Idle]
  BY DEF Arrive
<1>3. CASE reqs' = [reqs EXCEPT ![r] = Idle]
  <2> DEFINE q == Idle
  <2>1. q \in Calls /\ q.pc = "idle" /\ ~q.old
    BY DEF Idle, Calls, Pcs
  <2> HIDE DEF q
  <2>2. StaysEnded(q, sessions, now) /\ Stands(q, students, sessions) /\ q.pc \notin Holding
        /\ q.pc # "settle"
    BY <2>1 DEF StaysEnded, Stands, Placed, Holding
  <2> QED BY <1>1, <1>3, <2>1, <2>2, Going DEF q
<1>4. CASE reqs' = [reqs EXCEPT ![r] = Sent(op, token, email)]
  <2> DEFINE q == Sent(op, token, email)
  <2>1. /\ q \in Calls /\ q.pc = "body"
        /\ StaysEnded(q, sessions, now) /\ Stands(q, students, sessions)
    BY <1>2, Sends
  <2>2. q.pc \notin Holding /\ q.pc # "settle"
    BY <2>1 DEF Holding
  <2>3. reqs' = [reqs EXCEPT ![r] = q]
    BY <1>4
  <2> HIDE DEF q
  <2> QED BY <1>1, <2>1, <2>2, <2>3, Going
<1> QED BY <1>2, <1>3, <1>4

LEMMA Reading == ASSUME VInv, NEW r \in Requests, Body(r) PROVE VInv'
<1>1. CASE Answer(r)
  BY <1>1, Answering DEF Body
<1>2. CASE ~Answer(r)
  <2> DEFINE pc == CASE reqs[r].op = "signup" -> "create"
                     [] reqs[r].op = "login" -> "lookup"
                     [] OTHER -> "find"
             q == [reqs[r] EXCEPT !.at = now, !.pc = pc]
  <2>1. /\ reqs[r].pc = "body" /\ reqs' = [reqs EXCEPT ![r] = q]
        /\ reqs[r].op \notin {"signup", "login"} => reqs[r].token # None
        /\ UNCHANGED <<accountVars, runs, gate, now>>
    BY <1>2 DEF Body
  <2>2. pc \in {"create", "lookup", "find"}
    OBVIOUS
  <2>0. pc = "find" <=> reqs[r].op \notin {"signup", "login"}
    OBVIOUS
  <2> HIDE DEF pc
  <2>3. /\ reqs[r] \in Calls /\ now \in Nat /\ StaysEnded(reqs[r], sessions, now)
        /\ Stands(reqs[r], students, sessions)
    BY OfOne DEF VInv
  <2>4. /\ q \in Calls /\ q.pc = pc /\ q.at = now /\ q.op = reqs[r].op
        /\ q.token = reqs[r].token /\ q.old = reqs[r].old /\ q.student = reqs[r].student
        /\ q.email = reqs[r].email
    BY <2>2, <2>3 DEF Calls, Pcs
  <2> HIDE DEF q
  <2>5. StaysEnded(q, sessions, now)
    <3>1. CASE reqs[r].old
      BY <2>0, <2>2, <2>3, <2>4, <3>1 DEF StaysEnded
    <3>2. CASE ~reqs[r].old
      BY <2>4, <3>2 DEF StaysEnded
    <3> QED BY <3>1, <3>2
  <2>6. Stands(q, students, sessions)
    BY <2>1, <2>2, <2>3, <2>4 DEF Stands, Placed, Holding
  <2>7. reqs[r].pc \notin Holding /\ q.pc \notin Holding /\ q.pc # "settle"
    BY <2>1, <2>2, <2>4 DEF Holding
  <2> QED BY <2>1, <2>4, <2>5, <2>6, <2>7, Going
<1> QED BY <1>1, <1>2

LEMMA Failing == ASSUME VInv, NEW r \in Requests, Fail(r) PROVE VInv'
  BY Answering DEF Fail

\* A request that has found or made its student's account.
LEMMA Signing ==
  ASSUME VInv, Grows(students, sessions, now, students', sessions', now'),
         NEW r \in Requests, reqs[r].pc \in {"create", "lookup"}, NEW s \in Students,
         students'[s] # None, For(r, s, "issue"), UNCHANGED runs
  PROVE  RequestsOK' /\ GateOK'
<1> DEFINE q == [reqs[r] EXCEPT !.pc = "issue", !.student = s]
<1>1. /\ reqs[r] \in Calls /\ RunOK(runs[r]) /\ ~reqs[r].old /\ reqs[r].email \in Emails
  BY OfOne DEF StaysEnded, Stands, Calls
<1>2. q \in Calls /\ q.pc = "issue" /\ q.student = s /\ ~q.old /\ q.email \in Emails
  BY <1>1 DEF Calls, Pcs
<1>3. reqs' = [reqs EXCEPT ![r] = q] /\ UNCHANGED gate
  BY DEF For
<1> HIDE DEF q
<1>4. CallOK(q, runs[r], students', sessions', now')
  BY <1>1, <1>2 DEF CallOK, StaysEnded, Stands, ToldOK, Placed, Holding
<1>5. reqs[r].pc \notin Holding /\ q.pc \notin Holding
  BY <1>2 DEF Holding
<1> QED BY <1>3, <1>4, <1>5, CallMoves, GateStays

LEMMA Creating == ASSUME VInv, NEW r \in Requests, Create(r) PROVE VInv'
<1>1. CASE UNCHANGED accountVars /\ Answer(r)
  BY <1>1, Answering DEF Create
<1>2. ASSUME NEW s \in Students, CreateStudent(s, reqs[r].email), For(r, s, "issue")
      PROVE  VInv'
  <2> DEFINE e == reqs[r].email
  <2>1. e \in Emails /\ reqs[r].pc = "create" /\ UNCHANGED <<now, runs>>
    BY OfOne DEF Create, Stands
  <2>2. CreateStudent(s, e)
    BY <1>2
  <2> HIDE DEF e
  <2>3. /\ TablesOK' /\ Grows(students, sessions, now, students', sessions', now')
        /\ students'[s] # None
    BY <2>1, <2>2, Creates
  <2>4. RequestsOK' /\ GateOK'
    BY <1>2, <2>1, <2>3, Signing
  <2> QED BY <2>1, <2>3, <2>4 DEF VInv
<1> QED BY <1>1, <1>2 DEF Create

LEMMA LookingUp == ASSUME VInv, NEW r \in Requests, Lookup(r) PROVE VInv'
<1>1. CASE Answer(r)
  BY <1>1, Answering DEF Lookup
<1>2. ASSUME NEW s \in Owner(reqs[r].email), For(r, s, "issue")
      PROVE  VInv'
  <2>1. /\ s \in Students /\ students[s] # None /\ reqs[r].pc = "lookup"
        /\ UNCHANGED <<accountVars, now, runs>>
    BY DEF Owner, Lookup
  <2>2. /\ TablesOK' /\ Grows(students, sessions, now, students', sessions', now')
        /\ students'[s] # None
    BY <2>1, Still DEF accountVars
  <2>3. RequestsOK' /\ GateOK'
    BY <1>2, <2>1, <2>2, Signing
  <2> QED BY <2>1, <2>2, <2>3 DEF VInv
<1> QED BY <1>1, <1>2 DEF Lookup

LEMMA Issuing == ASSUME VInv, NEW r \in Requests, Issue(r) PROVE VInv'
<1>1. PICK k \in Tokens : IssueSession(k, reqs[r].student, reqs[r].at)
  BY DEF Issue
<1> DEFINE s == reqs[r].student
           at == reqs[r].at
<1>2. /\ s \in Students /\ students[s] # None /\ at \in Nat
      /\ Answer(r) /\ UNCHANGED <<now, runs>>
  BY OfOne DEF Issue, Stands, Placed, Calls
<1>3. IssueSession(k, s, at)
  BY <1>1
<1> HIDE DEF s, at
<1>4. TablesOK' /\ Grows(students, sessions, now, students', sessions', now')
  BY <1>2, <1>3, Issues
<1> QED BY <1>2, <1>4, AnsweredKeeps DEF VInv

LEMMA Finding == ASSUME VInv, NEW r \in Requests, Find(r) PROVE VInv'
<1>1. CASE Answer(r)
  BY <1>1, Answering DEF Find
<1>2. CASE ~Answer(r)
  <2> DEFINE pc == CASE reqs[r].op = "logout" -> "revoke"
                     [] reqs[r].op = "onboard" -> "onboard"
                     [] reqs[r].op = "enroll" -> "enroll"
                     [] OTHER -> "enrollment"
             at == IF reqs[r].op = "enroll" THEN now ELSE reqs[r].at
             s == sessions[reqs[r].token].student
             q == [reqs[r] EXCEPT !.student = s, !.at = at, !.pc = pc]
  <2>1. /\ reqs[r].pc = "find" /\ Active(reqs[r].token, reqs[r].at)
        /\ reqs' = [reqs EXCEPT ![r] = q] /\ UNCHANGED <<accountVars, runs, gate, now>>
    BY <1>2 DEF Find
  <2>2. /\ reqs[r] \in Calls /\ now \in Nat /\ StaysEnded(reqs[r], sessions, now)
        /\ Stands(reqs[r], students, sessions)
    BY OfOne DEF VInv
  <2>3. reqs[r].token \in Tokens /\ sessions[reqs[r].token] # None /\ s \in Students /\ students[s] # None
        /\ sessions[reqs[r].token] \in SessionRows
    BY <2>1, <2>2 DEF Active, Calls, VInv, TablesOK, SessionRows
  <2>4. ~reqs[r].old
    BY <2>1, <2>2, <2>3 DEF StaysEnded, Over, Active, SessionRows, Calls
  <2>5. pc \in {"revoke", "onboard", "enroll", "enrollment"} /\ at \in Nat
    BY <2>2 DEF Calls
  <2> HIDE DEF pc, at, s
  <2>6. /\ q \in Calls /\ q.pc = pc /\ q.student = s /\ q.token = reqs[r].token
        /\ q.old = reqs[r].old /\ q.email = reqs[r].email
    <3> DEFINE c == reqs[r]
    <3>1. c \in Calls /\ q = [c EXCEPT !.student = s, !.at = at, !.pc = pc]
      BY <2>2
    <3> HIDE DEF c, q
    <3>2. q \in Calls
      BY <2>3, <2>5, <3>1 DEF Calls, Pcs
    <3>3. /\ q.pc = pc /\ q.student = s /\ q.token = c.token
          /\ q.old = c.old /\ q.email = c.email
      BY <3>1 DEF Calls
    <3> QED BY <3>2, <3>3 DEF c
  <2> HIDE DEF q
  <2>7. StaysEnded(q, sessions, now) /\ Stands(q, students, sessions)
    BY <2>1, <2>2, <2>3, <2>4, <2>5, <2>6 DEF StaysEnded, Stands
  <2>8. reqs[r].pc \notin Holding /\ q.pc \notin Holding /\ q.pc # "settle"
    BY <2>1, <2>5, <2>6 DEF Holding
  <2> QED BY <2>1, <2>6, <2>7, <2>8, Going
<1> QED BY <1>1, <1>2

LEMMA Revoking == ASSUME VInv, NEW r \in Requests, RevokeSession(r) PROVE VInv'
<1> DEFINE k == reqs[r].token
           at == reqs[r].at
<1>1. /\ k \in Tokens /\ sessions[k] # None /\ at \in Nat /\ Revoke(k, at)
      /\ Answer(r) /\ UNCHANGED <<now, runs>>
  BY OfOne DEF RevokeSession, Stands, Calls
<1> HIDE DEF k, at
<1>2. TablesOK' /\ Grows(students, sessions, now, students', sessions', now')
  BY <1>1, Revokes
<1> QED BY <1>1, <1>2, AnsweredKeeps DEF VInv

LEMMA Onboarding == ASSUME VInv, NEW r \in Requests, Onboard(r) PROVE VInv'
<1> DEFINE s == reqs[r].student
           at == reqs[r].at
<1>1. /\ s \in Students /\ students[s] # None /\ at \in Nat /\ CompleteOnboarding(s, at)
      /\ Answer(r) /\ UNCHANGED <<now, runs>>
  BY OfOne DEF Onboard, Stands, Placed, Calls
<1> HIDE DEF s, at
<1>2. TablesOK' /\ Grows(students, sessions, now, students', sessions', now')
  BY <1>1, Onboards
<1> QED BY <1>1, <1>2, AnsweredKeeps DEF VInv

LEMMA Enrolling == ASSUME VInv, NEW r \in Requests, EnrollStudent(r) PROVE VInv'
<1> DEFINE s == reqs[r].student
           at == reqs[r].at
<1>1. /\ s \in Students /\ students[s] # None /\ at \in Nat /\ Enroll(s, at)
      /\ Answer(r) /\ UNCHANGED <<now, runs>>
  BY OfOne DEF EnrollStudent, Stands, Placed, Calls
<1> HIDE DEF s, at
<1>2. TablesOK' /\ Grows(students, sessions, now, students', sessions', now')
  BY <1>1, Enrolls
<1> QED BY <1>1, <1>2, AnsweredKeeps DEF VInv

\* A request that stands for its student goes on to another step, the same in all else.
LEMMA Standing ==
  ASSUME VInv, NEW r \in Requests, reqs[r].pc \in Placed, NEW pc \in {"guard", "work", "reserve"},
         NEW q, q = [reqs[r] EXCEPT !.pc = pc]
  PROVE  /\ q \in Calls /\ q.pc = pc /\ q.student = reqs[r].student
         /\ StaysEnded(q, sessions, now) /\ Stands(q, students, sessions)
<1>1. /\ reqs[r] \in Calls /\ StaysEnded(reqs[r], sessions, now)
      /\ Stands(reqs[r], students, sessions) /\ reqs[r].pc # "idle" /\ ~reqs[r].old
  BY OfOne DEF StaysEnded, Placed, Holding, Calls
<1>2. /\ q \in Calls /\ q.pc = pc /\ q.student = reqs[r].student /\ q.email = reqs[r].email
      /\ q.old = reqs[r].old
  BY <1>1 DEF Calls, Pcs
<1> QED BY <1>1, <1>2 DEF StaysEnded, Stands

LEMMA TakingPart == ASSUME VInv, NEW r \in Requests, Enrollment(r) PROVE VInv'
<1>1. CASE Answer(r)
  BY <1>1, Answering DEF Enrollment
<1>2. CASE Continue(r, "guard")
  <2> DEFINE q == [reqs[r] EXCEPT !.pc = "guard"]
  <2>1. /\ reqs' = [reqs EXCEPT ![r] = q] /\ reqs[r].pc = "enrollment"
        /\ UNCHANGED <<accountVars, runs, gate, now>>
    BY <1>2 DEF Enrollment, Continue, To
  <2>2. /\ q \in Calls /\ q.pc = "guard"
        /\ StaysEnded(q, sessions, now) /\ Stands(q, students, sessions)
    BY <2>1, Standing DEF Placed
  <2> HIDE DEF q
  <2> QED BY <2>1, <2>2, Going DEF Holding
<1> QED BY <1>1, <1>2 DEF Enrollment

LEMMA Guarding == ASSUME VInv, NEW r \in Requests, Guard(r) PROVE VInv'
<1>0. reqs[r].pc = "guard" /\ UNCHANGED <<accountVars, runs, now>>
  BY DEF Guard
<1>1. CASE Answer(r)
  BY <1>1, Answering DEF Guard
<1>2. CASE Continue(r, "work")
  <2> DEFINE q == [reqs[r] EXCEPT !.pc = "work"]
  <2>1. reqs' = [reqs EXCEPT ![r] = q] /\ UNCHANGED gate
    BY <1>2 DEF Continue, To
  <2>2. /\ q \in Calls /\ q.pc = "work"
        /\ StaysEnded(q, sessions, now) /\ Stands(q, students, sessions)
    BY <1>0, Standing DEF Placed
  <2> HIDE DEF q
  <2> QED BY <1>0, <2>1, <2>2, Going DEF Holding
<1>3. CASE /\ gate[reqs[r].student] < MaxInFlight
           /\ To(r, "reserve")
           /\ gate' = [gate EXCEPT ![reqs[r].student] = @ + 1]
  <2> DEFINE q == [reqs[r] EXCEPT !.pc = "reserve"]
             s == reqs[r].student
  <2>1. reqs' = [reqs EXCEPT ![r] = q]
    BY <1>3 DEF To
  <2>2. /\ q \in Calls /\ q.pc = "reserve" /\ q.student = s
        /\ StaysEnded(q, sessions, now) /\ Stands(q, students, sessions)
    BY <1>0, Standing DEF Placed
  <2>3. TablesOK' /\ Grows(students, sessions, now, students', sessions', now') /\ now' \in Nat
    BY <1>0, Still
  <2>4. gate[s] < MaxInFlight /\ gate' = [gate EXCEPT ![s] = @ + 1]
    BY <1>3
  <2>5. s \in Students
    BY <1>0, OfOne DEF Stands, Placed
  <2> HIDE DEF q, s
  <2>6. CallOK(q, runs[r], students', sessions', now')
    BY <1>0, <2>2, OfOne DEF CallOK, ToldOK, accountVars
  <2>7. RequestsOK'
    BY <1>0, <2>1, <2>3, <2>6, CallMoves
  <2>8. reqs[r].pc \notin Holding /\ q.pc \in Holding
    BY <1>0, <2>2 DEF Holding
  <2>9. GateOK'
    BY <2>1, <2>2, <2>4, <2>5, <2>8, GateTaken
  <2> QED BY <2>3, <2>7, <2>9 DEF VInv
<1> QED BY <1>1, <1>2, <1>3 DEF Guard

LEMMA Practising == ASSUME VInv, NEW r \in Requests, Practise(r) PROVE VInv'
  BY Answering DEF Practise

\* A request that holds its slot goes on holding it, its run with it.
LEMMA Holds ==
  ASSUME VInv, NEW r \in Requests, reqs[r].pc \in Holding, UNCHANGED <<accountVars, gate, now>>,
         NEW q \in Calls, q.pc \in {"asking", "settle"}, q.student = reqs[r].student,
         q.email = reqs[r].email, q.old = reqs[r].old,
         NEW run, RunOK(run), ToldOK(q, run),
         reqs' = [reqs EXCEPT ![r] = q], runs' = [runs EXCEPT ![r] = run]
  PROVE  VInv'
<1>1. TablesOK' /\ Grows(students, sessions, now, students', sessions', now') /\ now' \in Nat
  BY Still
<1>2. ~reqs[r].old /\ reqs[r].pc # "idle"
      /\ Stands(reqs[r], students, sessions) /\ reqs[r].pc \in Placed
  BY OfOne DEF StaysEnded, Holding, Placed
<1>3. CallOK(q, run, students', sessions', now')
  BY <1>2 DEF CallOK, StaysEnded, Stands, accountVars, Placed, Holding
<1>4. RequestsOK'
  BY <1>1, <1>3, Moves
<1>5. q.pc \in Holding
  BY DEF Holding
<1>6. GateOK'
  BY <1>5, GateStays
<1> QED BY <1>1, <1>4, <1>6 DEF VInv

LEMMA Reserving == ASSUME VInv, NEW r \in Requests, Reserve(r) PROVE VInv'
<1>1. CASE Answer(r) /\ UNCHANGED runs
  BY <1>1, Answering DEF Reserve
<1>2. CASE ~(Answer(r) /\ UNCHANGED runs)
  <2> DEFINE q == [reqs[r] EXCEPT !.pc = "asking", !.unit = "reserved"]
  <2>1. PICK task \in {"named", "help"} : runs' = [runs EXCEPT ![r] = Started(task)]
    BY <1>2 DEF Reserve
  <2>2. /\ reqs[r].pc = "reserve" /\ reqs' = [reqs EXCEPT ![r] = q]
        /\ UNCHANGED <<accountVars, gate, now>>
    BY <1>2 DEF Reserve
  <2>3. reqs[r] \in Calls
    BY OfOne
  <2>4. /\ q \in Calls /\ q.pc = "asking" /\ q.student = reqs[r].student
        /\ q.email = reqs[r].email /\ q.old = reqs[r].old
    BY <2>3 DEF Calls, Pcs
  <2> DEFINE run == Started(task)
  <2>5. RunOK(run) /\ runs' = [runs EXCEPT ![r] = run]
    BY <2>1, RunsBegin
  <2> HIDE DEF q, run
  <2>6. ToldOK(q, run) /\ reqs[r].pc \in Holding
    BY <2>2, <2>4 DEF ToldOK, Holding
  <2> QED BY <2>2, <2>4, <2>5, <2>6, Holds
<1> QED BY <1>1, <1>2

\* A run takes a step: a request that settles for what its run came to has seen its end.
LEMMA Stepping == ASSUME VInv, NEW r \in Requests, Run(r) PROVE VInv'
<1>1. PICK next \in Steps(runs[r]) :
        runs' = [runs EXCEPT ![r] = IF reqs[r].pc = "asking" THEN next ELSE Kept(next)]
  BY DEF Run
<1> DEFINE run == IF reqs[r].pc = "asking" THEN next ELSE Kept(next)
           q == reqs[r]
<1>2. /\ UNCHANGED <<accountVars, gate, reqs, now>> /\ runs' = [runs EXCEPT ![r] = run]
  BY <1>1 DEF Run
<1>3. q \in Calls /\ RunOK(runs[r]) /\ StaysEnded(q, sessions, now)
      /\ Stands(q, students, sessions) /\ ToldOK(q, runs[r])
  BY OfOne
<1>4. RunOK(next) /\ Running(runs[r])
  BY <1>3, RunsOn
<1>5. RunOK(run)
  BY <1>4, RunsKept
<1>6. runs[r].stage # "done"
  BY <1>4 DEF Running
<1>7. reqs' = [reqs EXCEPT ![r] = q]
  BY <1>2 DEF VInv, RequestsOK
<1>8. /\ TablesOK' /\ Grows(students, sessions, now, students', sessions', now') /\ now' \in Nat
      /\ UNCHANGED accountVars /\ UNCHANGED now
  BY <1>2, Still
<1>9. CallOK(q, run, students', sessions', now')
  BY <1>3, <1>5, <1>6, <1>8 DEF CallOK, ToldOK, accountVars
<1>10. q.pc = reqs[r].pc /\ q.student = reqs[r].student
  OBVIOUS
<1> HIDE DEF run, q
<1>11. RequestsOK'
  BY <1>2, <1>7, <1>8, <1>9, Moves
<1>12. GateOK'
  BY <1>2, <1>7, <1>10, GateStays
<1> QED BY <1>8, <1>11, <1>12 DEF VInv

LEMMA Replying ==
  ASSUME VInv, NEW r \in Requests, NEW told \in Told, Replied(r, told), reqs[r].pc = "asking",
         told # "temporarily_unavailable" => runs[r].stage = "done",
         UNCHANGED <<accountVars, gate, runs, now>>
  PROVE  VInv'
<1> DEFINE q == [reqs[r] EXCEPT !.pc = "settle", !.told = told]
           run == runs[r]
<1>1. reqs[r] \in Calls /\ RunOK(run)
  BY OfOne
<1>2. /\ q \in Calls /\ q.pc = "settle" /\ q.student = reqs[r].student /\ q.told = told
      /\ q.email = reqs[r].email /\ q.old = reqs[r].old
  BY <1>1 DEF Calls, Pcs
<1>3. reqs' = [reqs EXCEPT ![r] = q]
  BY DEF Replied
<1>4. runs' = [runs EXCEPT ![r] = run]
  BY DEF VInv, RequestsOK
<1> HIDE DEF q
<1>5. ToldOK(q, run) /\ reqs[r].pc \in Holding
  BY <1>2 DEF ToldOK, Holding
<1> HIDE DEF run
<1> QED BY <1>1, <1>2, <1>3, <1>4, <1>5, Holds

LEMMA Ending == ASSUME VInv, NEW r \in Requests, Reply(r) \/ Deadline(r) PROVE VInv'
<1>1. CASE Reply(r)
  <2>1. PICK told \in Answers(runs[r]) : Replied(r, told)
    BY <1>1 DEF Reply
  <2>2. told \in Told
    BY <1>1, OfOne, RunsTell DEF Reply
  <2> QED BY <1>1, <2>1, <2>2, Replying DEF Reply
<1>2. CASE Deadline(r)
  <2> DEFINE told == "temporarily_unavailable"
  <2>1. told \in Told /\ Replied(r, told)
    BY <1>2 DEF Deadline, Told
  <2> QED BY <1>2, <2>1, Replying DEF Deadline
<1> QED BY <1>1, <1>2

LEMMA Outcomes == ASSUME NEW told PROVE Outcome(told) \in {"released", "consumed"}
  BY DEF Outcome

LEMMA Settling == ASSUME VInv, NEW r \in Requests, Settle(r) PROVE VInv'
<1>1. PICK unit \in {Outcome(reqs[r].told), "reserved"} :
        reqs' = [reqs EXCEPT ![r] = [Idle EXCEPT !.unit = unit]]
  BY DEF Settle
<1> DEFINE q == [Idle EXCEPT !.unit = unit]
           run == Kept(runs[r])
<1>2. unit \in {"released", "consumed", "reserved"}
  BY Outcomes
<1>3. q \in Calls /\ q.pc = "idle" /\ ~q.old
  BY <1>2 DEF Idle, Calls, Pcs
<1>4. RunOK(run)
  BY OfOne, RunsKept
<1>5. /\ reqs' = [reqs EXCEPT ![r] = q] /\ runs' = [runs EXCEPT ![r] = run]
      /\ gate' = Released(r) /\ UNCHANGED <<accountVars, now>>
  BY <1>1 DEF Settle
<1> HIDE DEF q, run
<1>6. CallOK(q, run, students', sessions', now')
  BY <1>3, <1>4 DEF CallOK, StaysEnded, Stands, ToldOK, Placed, Holding
<1>7. TablesOK' /\ Grows(students, sessions, now, students', sessions', now') /\ now' \in Nat
  BY <1>5, Still
<1>8. RequestsOK'
  BY <1>5, <1>6, <1>7, Moves
<1>9. q.pc \notin Holding
  BY <1>3 DEF Holding
<1>10. GateOK'
  BY <1>5, <1>9, GateReleased
<1> QED BY <1>7, <1>8, <1>10 DEF VInv

LEMMA Ticking == ASSUME VInv, Tick PROVE VInv'
<1>1. UNCHANGED <<accountVars, reqs, runs, gate>> /\ now' = now + 1 /\ now \in Nat
  BY DEF Tick, VInv
<1>2. TablesOK' /\ Grows(students, sessions, now, students', sessions', now') /\ now' \in Nat
  BY <1>1 DEF VInv, TablesOK, accountVars, Grows, SessionRows
<1> QED BY <1>1, <1>2, NoneMoves DEF VInv

LEMMA Begins == Init => VInv
<1> SUFFICES ASSUME Init PROVE VInv
  OBVIOUS
<1>1. PICK fresh \in SUBSET DOMAIN Known : AccountsInit(Known, fresh)
  BY DEF Init
<1>2. TablesOK
  <2>1. students \in [Students -> StudentRows \cup {None}]
    BY <1>1, KnownAssumption DEF AccountsInit, StudentRows, Dates
  <2>2. \A s \in Students : students[s] # None =>
          s \in DOMAIN Known /\ students[s].email = Known[s].email
    BY <1>1 DEF AccountsInit
  <2>3. \A s \in DOMAIN Known : s \in Students /\ students[s] # None
    <3> SUFFICES ASSUME NEW s \in DOMAIN Known PROVE s \in Students /\ students[s] # None
      OBVIOUS
    <3> DEFINE row == [email |-> Known[s].email, onboarded |-> None]
    <3>1. row \in StudentRows
      BY KnownAssumption DEF StudentRows, Dates
    <3>2. s \in Students /\ students[s] = row
      BY <1>1, ServerAssumption DEF AccountsInit
    <3> QED BY <3>1, <3>2, NoneAssumption
  <2>4. ASSUME NEW k \in Tokens, sessions[k] # None
        PROVE  sessions[k] \in SessionRows /\ students[sessions[k].student] # None
    <3> DEFINE s == CHOOSE s \in DOMAIN Known : Known[s].token = k
    <3>1. s \in DOMAIN Known
      BY <1>1, <2>4 DEF AccountsInit
    <3>2. sessions[k] = [student |-> s, expires |-> Lifetime, revoked |-> None]
      BY <1>1, <2>4 DEF AccountsInit
    <3> HIDE DEF s
    <3> QED BY <2>3, <3>1, <3>2, AccountsAssumption DEF SessionRows, Dates
  <2>5. sessions \in [Tokens -> SessionRows \cup {None}]
    <3>1. sessions = [k \in Tokens |-> sessions[k]]
      BY <1>1 DEF AccountsInit
    <3> QED BY <2>4, <3>1
  <2>6. enrolled \in [Students -> Dates]
    BY <1>1 DEF AccountsInit, Dates
  <2>7. \A s \in Students : students[s] = None => enrolled[s] = None
    BY <1>1, <2>3 DEF AccountsInit
  <2> QED BY <2>1, <2>2, <2>4, <2>5, <2>6, <2>7, KnownAssumption DEF TablesOK
<1>3. RequestsOK
  <2> DEFINE q == Idle
             run == NoRun
  <2>1. /\ reqs = [r \in Requests |-> q] /\ runs = [r \in Requests |-> run]
    BY DEF Init
  <2>2. q \in Calls /\ q.pc = "idle" /\ ~q.old
    BY DEF Idle, Calls, Pcs
  <2>3. RunOK(run)
    BY RunsRest
  <2> HIDE DEF q, run
  <2>4. CallOK(q, run, students, sessions, now) /\ run \in Runs
    BY <2>2, <2>3 DEF CallOK, StaysEnded, Stands, ToldOK, Placed, Holding, RunOK
  <2> QED BY <2>1, <2>2, <2>4 DEF RequestsOK
<1>4. GateOK
  <2>1. \A s \in Students : Holders(s) = {} /\ gate[s] = 0
    BY DEF Init, Holders, Idle, Holding
  <2>2. gate \in [Students -> Nat] /\ 0 <= MaxInFlight
    BY ServerAssumption DEF Init
  <2> QED BY <2>1, <2>2, FS_EmptySet DEF GateOK
<1>5. now \in Nat
  BY DEF Init
<1> QED BY <1>2, <1>3, <1>4, <1>5 DEF VInv

LEMMA StepKeeps == ASSUME VInv, [Next]_vars PROVE VInv'
<1>1. ASSUME NEW r \in Requests, Arrive(r) \/ Serve(r) \/ Run(r)
      PROVE  VInv'
  BY <1>1, Arriving, Reading, Failing, Creating, LookingUp, Issuing, Finding, Revoking,
     Onboarding, Enrolling, TakingPart, Guarding, Practising, Reserving, Stepping, Ending,
     Settling DEF Serve
<1>2. CASE UNCHANGED vars
  <2>1. UNCHANGED <<accountVars, reqs, runs, gate, now>>
    BY <1>2 DEF vars, serverVars
  <2> QED BY <2>1, Still, NoneMoves DEF VInv
<1> QED BY <1>1, <1>2, Ticking DEF Next

\* Tables, requests, runs and the gate hang together as VInv says, whatever is sent and
\* whatever fails.
THEOREM VInvHolds == Spec => []VInv
<1>1. Init => VInv
  BY Begins
<1>2. VInv /\ [Next]_vars => VInv'
  BY StepKeeps
<1> QED BY <1>1, <1>2, PTL DEF Spec

\* A request sent with a session that had ended is never taken for its student's, however
\* long its body takes and whatever becomes of the session meanwhile.
THEOREM SessionsStayEnded == Spec => []EndedStaysEnded
<1>1. VInv => EndedStaysEnded
  <2> SUFFICES ASSUME VInv, NEW r \in Requests, reqs[r].old PROVE reqs[r].student = None
    BY DEF EndedStaysEnded
  <2> QED BY OfOne DEF StaysEnded
<1> QED BY <1>1, VInvHolds, PTL

\* The gate counts exactly the tutor requests in flight of each student, whichever way each
\* of them ends, and never more than it may.
THEOREM SlotsCounted == Spec => []GateHeld
<1>1. VInv => GateHeld
  BY DEF VInv, GateOK, GateHeld, Holders
<1> QED BY <1>1, VInvHolds, PTL

-----------------------------------------------------------------------------
(* What is charged *)

\* A step of one request leaves the others where they are.
LEMMA OthersWait ==
  ASSUME VInv, NEW r \in Requests, NEW t \in Requests, t # r, Arrive(t) \/ Serve(t) \/ Run(t)
  PROVE  reqs'[r] = reqs[r]
<1>1. ASSUME NEW q, reqs' = [reqs EXCEPT ![t] = q] PROVE reqs'[r] = reqs[r]
  BY <1>1 DEF VInv, RequestsOK
<1>2. CASE Arrive(t)
  BY <1>1, <1>2 DEF Arrive
<1>3. CASE Answer(t)
  BY <1>1, <1>3 DEF Answer
<1>4. CASE Body(t) \/ Find(t)
  BY <1>1, <1>3, <1>4 DEF Body, Find
<1>5. CASE Fail(t) \/ Issue(t) \/ RevokeSession(t) \/ Onboard(t) \/ EnrollStudent(t) \/ Practise(t)
  BY <1>3, <1>5 DEF Fail, Issue, RevokeSession, Onboard, EnrollStudent, Practise
<1>6. CASE Create(t) \/ Lookup(t)
  BY <1>1, <1>3, <1>6 DEF Create, Lookup, For
<1>7. CASE Enrollment(t) \/ Guard(t)
  BY <1>1, <1>3, <1>7 DEF Enrollment, Guard, Continue, To
<1>8. CASE Reserve(t)
  BY <1>1, <1>3, <1>8 DEF Reserve
<1>9. CASE Reply(t) \/ Deadline(t)
  BY <1>1, <1>9 DEF Reply, Deadline, Replied
<1>10. CASE Settle(t)
  BY <1>1, <1>10 DEF Settle
<1>11. CASE Run(t)
  BY <1>11 DEF Run
<1> QED BY <1>2, <1>4, <1>5, <1>6, <1>7, <1>8, <1>9, <1>10, <1>11 DEF Serve

\* A request that settles is done only by settling.
LEMMA OnlySettles ==
  ASSUME VInv, [Next]_vars, NEW r \in Requests, reqs[r].pc = "settle", reqs'[r].pc = "idle"
  PROVE  Settle(r)
<1>1. reqs'[r] # reqs[r]
  OBVIOUS
<1>2. CASE UNCHANGED vars \/ Tick
  BY <1>1, <1>2 DEF vars, serverVars, Tick
<1>3. ASSUME NEW t \in Requests, Arrive(t) \/ Serve(t) \/ Run(t) PROVE Settle(r)
  <2>1. t = r
    BY <1>1, <1>3, OthersWait
  <2>2. ~Run(r)
    BY <1>1 DEF Run
  <2>3. ~Arrive(r) /\ ~Body(r) /\ ~Fail(r) /\ ~Create(r) /\ ~Lookup(r) /\ ~Issue(r)
    BY DEF Arrive, Body, Fail, Create, Lookup, Issue
  <2>4. ~Find(r) /\ ~RevokeSession(r) /\ ~Onboard(r) /\ ~EnrollStudent(r) /\ ~Enrollment(r)
    BY DEF Find, RevokeSession, Onboard, EnrollStudent, Enrollment
  <2>5. ~Guard(r) /\ ~Practise(r) /\ ~Reserve(r) /\ ~Reply(r) /\ ~Deadline(r)
    BY DEF Guard, Practise, Reserve, Reply, Deadline
  <2> QED BY <1>3, <2>1, <2>2, <2>3, <2>4, <2>5 DEF Serve
<1> QED BY <1>2, <1>3 DEF Next

\* A unit is charged only for a run that has ended and delivered something; one the deadline
\* beat is not, although its run goes on.
THEOREM UnitsCharged == Spec => ChargedIfTold
<1>1. ASSUME VInv, [Next]_vars, NEW r \in Requests, reqs[r].pc = "settle", reqs'[r].pc = "idle"
      PROVE  /\ reqs'[r].unit = "consumed" =>
                  /\ reqs[r].told \in {"answered", "could_not_verify", "needs_more_information"}
                  /\ runs[r].stage = "done"
             /\ reqs[r].told = "answered" => reqs'[r].unit # "released"
  <2>1. PICK unit \in {Outcome(reqs[r].told), "reserved"} :
          reqs' = [reqs EXCEPT ![r] = [Idle EXCEPT !.unit = unit]]
    BY <1>1, OnlySettles DEF Settle
  <2>2. reqs'[r].unit = unit
    BY <1>1, <2>1 DEF VInv, RequestsOK, Idle
  <2>3. reqs[r].told \in Told /\ (reqs[r].told # "temporarily_unavailable" => runs[r].stage = "done")
    BY <1>1, OfOne DEF ToldOK
  <2> QED BY <2>1, <2>2, <2>3 DEF Outcome, NotDelivered, Told
<1>2. VInv /\ [Next]_vars =>
        [\A r \in Requests : reqs[r].pc = "settle" /\ reqs'[r].pc = "idle" =>
           /\ reqs'[r].unit = "consumed" =>
                /\ reqs[r].told \in {"answered", "could_not_verify", "needs_more_information"}
                /\ runs[r].stage = "done"
           /\ reqs[r].told = "answered" => reqs'[r].unit # "released"]_vars
  BY <1>1
<1> QED BY <1>2, VInvHolds, PTL DEF Spec, ChargedIfTold

-----------------------------------------------------------------------------
(* The limiter: its windows stand in the order of their starts, and one that still counts  *)
(* is only forgotten when all that are kept count, too, and none of them is older.         *)

Buckets == {"ip", "auth", "auth_account", "api", "tutor"}

Windows == [key : Buckets \X ({Ip, None} \cup Emails \cup Students), start : Nat, count : Nat]

\* Windows as they may stand at the time t, in the order in which they were opened.
Filed(ws, t) ==
  /\ ws \in Seq(Windows)
  /\ \A i \in 1..Len(ws) : ws[i].start <= t
  /\ \A i, j \in 1..Len(ws) : i < j => ws[i].start <= ws[j].start

WindowsOK(ws, t) == Filed(ws, t) /\ Len(ws) <= MaxKeys

\* The order of the naturals, as a relation that has no infinite descent.
LEMMA NaturalOrder ==
  \E R : IsWellFoundedOn(R, Nat) /\ \A m, n \in Nat : n < m => <<n, m>> \in R
<1> DEFINE R == OpToRel(<, Nat)
<1>1. IsWellFoundedOn(R, Nat)
  BY NatLessThanWellFounded
<1>2. \A m, n \in Nat : n < m => <<n, m>> \in R
  BY DEF OpToRel
<1> HIDE DEF R
<1> WITNESS R
<1> QED BY <1>1, <1>2

LEMMA LeastNatural ==
  ASSUME NEW S \in SUBSET Nat, S # {}
  PROVE  \E m \in S : \A n \in S : m <= n
<1>1. PICK R : IsWellFoundedOn(R, Nat) /\ \A m, n \in Nat : n < m => <<n, m>> \in R
  BY NaturalOrder
<1>2. PICK m \in S : \A n \in S : ~(<<n, m>> \in R)
  BY <1>1, WFMin
<1>3. ASSUME NEW n \in S PROVE m <= n
  <2>1. m \in Nat /\ n \in Nat /\ ~(n < m)
    BY <1>1, <1>2
  <2> QED BY <2>1
<1> QED BY <1>3

LEMMA Places ==
  ASSUME NEW n \in Nat
  PROVE  IsFiniteSet(1..n) /\ Cardinality(1..n) = n
BY FS_Interval

\* Of finitely many places one is the last: the one after which there are the fewest.
LEMMA LargestPlace ==
  ASSUME NEW S, IsFiniteSet(S), S \subseteq Nat, S # {}
  PROVE  \E m \in S : \A n \in S : n <= m
<1> DEFINE After(i) == {j \in S : j > i}
           counts == {Cardinality(After(i)) : i \in S}
<1>1. \A i \in S : IsFiniteSet(After(i)) /\ Cardinality(After(i)) \in Nat
  BY FS_Subset, FS_CardinalityType
<1>2. counts \in SUBSET Nat /\ counts # {}
  BY <1>1
<1> HIDE DEF counts
<1>3. PICK c \in counts : \A d \in counts : c <= d
  BY <1>2, LeastNatural
<1>4. PICK m \in S : c = Cardinality(After(m))
  BY <1>3 DEF counts
<1>5. ASSUME NEW n \in S, ~(n <= m)
      PROVE  FALSE
  <2>1. m \in Nat /\ n \in Nat /\ n > m
    BY <1>5
  <2>a. \A k \in S : k > n => k > m
    BY <2>1
  <2>b. ~(n > n)
    BY <2>1
  <2>2. After(n) \subseteq After(m) /\ n \in After(m) /\ n \notin After(n)
    BY <2>1, <2>a, <2>b
  <2>3. c <= Cardinality(After(n))
    BY <1>3 DEF counts
  <2>4. IsFiniteSet(After(n)) /\ IsFiniteSet(After(m))
    BY <1>1
  <2>5. Cardinality(After(n)) \in Nat /\ Cardinality(After(m)) \in Nat
    BY <1>1
  <2> HIDE DEF After
  <2>6. /\ Cardinality(After(n)) <= Cardinality(After(m))
        /\ Cardinality(After(n)) # Cardinality(After(m))
    BY <2>2, <2>4, FS_Subset
  <2> QED BY <1>4, <2>3, <2>5, <2>6
<1> QED BY <1>5

\* What is picked are the windows of those places, in their order.
LEMMA PickedInOrder ==
  ASSUME NEW ws \in Seq(Windows), NEW I \in SUBSET (1..Len(ws))
  PROVE  /\ Cardinality(I) \in Nat /\ IsFiniteSet(I)
         /\ Picked(ws, I) \in Seq(Windows)
         /\ Len(Picked(ws, I)) = Cardinality(I)
         /\ \E f \in [1..Cardinality(I) -> I] :
              /\ \A n \in 1..Cardinality(I) : Picked(ws, I)[n] = ws[f[n]]
              /\ \A m, n \in 1..Cardinality(I) : m < n => f[m] < f[n]
              /\ \A i \in I : \E n \in 1..Cardinality(I) : f[n] = i
<1> DEFINE N == Len(ws)
           C == Cardinality(I)
           Upto(i) == {j \in I : j <= i}
           Place(i) == Cardinality(Upto(i))
           Nth(n) == CHOOSE i \in I : Place(i) = n
           f == [n \in 1..C |-> Nth(n)]
<1>1. N \in Nat /\ I \subseteq 1..N /\ \A i \in I : i \in Nat /\ ws[i] \in Windows
  BY LenProperties
<1>2. IsFiniteSet(I) /\ C \in Nat
  <2> HIDE DEF N
  <2>1. IsFiniteSet(1..N)
    BY <1>1, FS_Interval
  <2>2. IsFiniteSet(I)
    BY <1>1, <2>1, FS_Subset
  <2> QED BY <2>2, FS_CardinalityType
<1>3. IsFiniteSet(1..C) /\ Cardinality(1..C) = C
  BY <1>2, FS_Interval
<1>4. Picked(ws, I) = [n \in 1..C |-> ws[Nth(n)]]
  BY DEF Picked
<1> HIDE DEF N, C
<1>5. \A i \in I : IsFiniteSet(Upto(i)) /\ Upto(i) \subseteq I /\ i \in Upto(i)
  <2> TAKE i \in I
  <2>1. Upto(i) \subseteq I /\ i \in Upto(i)
    BY <1>1
  <2> QED BY <1>2, <2>1, FS_Subset
<1>6. \A i \in I : Place(i) \in 1..C
  <2> TAKE i \in I
  <2> HIDE DEF Upto
  <2>1. Place(i) \in Nat /\ Place(i) <= C /\ Place(i) # 0
    BY <1>2, <1>5, FS_Subset, FS_EmptySet, FS_CardinalityType DEF C
  <2> QED BY <1>2, <2>1
<1>7. \A i, j \in I : i < j => Place(i) < Place(j)
  <2> TAKE i, j \in I
  <2> HAVE i < j
  <2>0. i \in Nat /\ j \in Nat
    BY <1>1
  <2>a. \A k \in I : k <= i => k <= j
    <3> TAKE k \in I
    <3>1. k \in Nat
      BY <1>1
    <3> QED BY <2>0, <3>1
  <2>b. Upto(i) \subseteq Upto(j)
    BY <2>a
  <2>1. Upto(i) \subseteq Upto(j) /\ j \notin Upto(i)
    <3>1. ~(j <= i)
      BY <2>0
    <3> QED BY <2>b, <3>1
  <2> HIDE DEF Upto
  <2>2. Upto(i) # Upto(j)
    BY <1>5, <2>1
  <2>3. Place(i) <= Place(j) /\ Place(i) # Place(j)
    BY <1>5, <2>1, <2>2, FS_Subset
  <2>4. Place(i) \in Nat /\ Place(j) \in Nat
    BY <1>5, FS_CardinalityType
  <2> QED BY <2>3, <2>4
<1> HIDE DEF Place
<1>8. \A i, j \in I : Place(i) = Place(j) => i = j
  <2> TAKE i, j \in I
  <2>1. i \in Nat /\ j \in Nat /\ Place(i) \in Nat /\ Place(j) \in Nat
    BY <1>1, <1>6
  <2>2. i < j \/ j < i \/ i = j
    BY <2>1
  <2> QED BY <1>7, <2>1, <2>2
<1>9. \A n \in 1..C : \E i \in I : Place(i) = n
  <2> SUFFICES ASSUME NEW n \in 1..C, \A i \in I : Place(i) # n PROVE FALSE
    OBVIOUS
  <2> DEFINE g == [i \in I |-> Place(i)]
             T == (1..C) \ {n}
  <2>1. g \in [I -> T]
    BY <1>6
  <2>2. IsFiniteSet(T) /\ Cardinality(T) = C - 1
    BY <1>2, <1>3, FS_RemoveElement
  <2>3. Cardinality(T) < Cardinality(I)
    BY <1>2, <2>2 DEF C
  <2> HIDE DEF g, T
  <2>4. PICK i, j \in I : i # j /\ g[i] = g[j]
    BY <1>2, <2>1, <2>2, <2>3, FS_PigeonHole
  <2>5. Place(i) = Place(j)
    BY <2>4 DEF g
  <2> QED BY <1>8, <2>4, <2>5
<1>10. \A n \in 1..C : Nth(n) \in I /\ Place(Nth(n)) = n
  BY <1>9
<1>11. \A i \in I : Nth(Place(i)) = i
  <2> TAKE i \in I
  <2>1. Nth(Place(i)) \in I /\ Place(Nth(Place(i))) = Place(i)
    BY <1>6, <1>10
  <2> HIDE DEF Nth
  <2> QED BY <1>8, <2>1
<1> HIDE DEF Nth
<1>12. f \in [1..C -> I] /\ \A n \in 1..C : Picked(ws, I)[n] = ws[f[n]]
  BY <1>4, <1>10
<1>13. \A m, n \in 1..C : m < n => f[m] < f[n]
  <2> TAKE m, n \in 1..C
  <2> HAVE m < n
  <2>1. /\ f[m] = Nth(m) /\ f[n] = Nth(n)
        /\ Nth(m) \in I /\ Nth(n) \in I /\ Place(Nth(m)) = m /\ Place(Nth(n)) = n
    BY <1>10
  <2>a. m \in Nat /\ n \in Nat
    BY <1>2
  <2>2. Nth(m) \in Nat /\ Nth(n) \in Nat /\ m \in Nat /\ n \in Nat
    BY <1>1, <2>1, <2>a
  <2>3. Nth(m) < Nth(n) \/ Nth(n) < Nth(m) \/ Nth(m) = Nth(n)
    BY <2>2
  <2>4. CASE Nth(n) < Nth(m)
    <3>1. n < m
      BY <1>7, <2>1, <2>4
    <3> QED BY <2>2, <3>1
  <2> QED BY <2>1, <2>2, <2>3, <2>4
<1>14. \A i \in I : \E n \in 1..C : f[n] = i
  <2> TAKE i \in I
  <2>1. Place(i) \in 1..C /\ f[Place(i)] = i
    BY <1>6, <1>11
  <2> QED BY <2>1
<1>15. \A n \in 1..C : ws[Nth(n)] \in Windows
  BY <1>1, <1>10
<1>16. Picked(ws, I) \in [1..C -> Windows]
  BY <1>4, <1>15
<1>17. Picked(ws, I) \in Seq(Windows) /\ Len(Picked(ws, I)) = C
  BY <1>2, <1>16
<1> HIDE DEF f
<1> QED BY <1>2, <1>12, <1>13, <1>14, <1>17 DEF C

LEMMA PickedFiled ==
  ASSUME NEW t, NEW ws, Filed(ws, t), NEW I \in SUBSET (1..Len(ws))
  PROVE  Filed(Picked(ws, I), t)
<1> DEFINE p == Picked(ws, I)
<1>1. ws \in Seq(Windows) /\ Len(ws) \in Nat
  BY LenProperties DEF Filed
<1>2. /\ p \in Seq(Windows) /\ Len(p) = Cardinality(I) /\ Cardinality(I) \in Nat
  BY <1>1, PickedInOrder
<1>3. PICK f \in [1..Cardinality(I) -> I] :
         /\ \A n \in 1..Cardinality(I) : p[n] = ws[f[n]]
         /\ \A m, n \in 1..Cardinality(I) : m < n => f[m] < f[n]
  BY <1>1, PickedInOrder
<1> HIDE DEF p
<1>4. \A n \in 1..Len(p) : f[n] \in 1..Len(ws) /\ p[n] = ws[f[n]]
  BY <1>2, <1>3
<1> QED BY <1>2, <1>3, <1>4 DEF Filed, p

\* The youngest of the places: no more than asked for, and as many when one place was not
\* among them.
LEMMA YoungestFew ==
  ASSUME NEW live, IsFiniteSet(live), live \subseteq Nat, NEW few \in Nat
  PROVE  /\ Youngest(live, few) \subseteq live
         /\ Cardinality(Youngest(live, few)) <= few
         /\ \A i \in live \ Youngest(live, few) :
              /\ Cardinality(Youngest(live, few)) = few
              /\ \A j \in Youngest(live, few) : j > i
<1> DEFINE young == Youngest(live, few)
<1>0. young \subseteq live
  BY DEF Youngest
<1> DEFINE After(i) == {j \in live : j > i}
<1>1. IsFiniteSet(young) /\ Cardinality(young) \in Nat
  BY <1>0, FS_Subset, FS_CardinalityType
<1>2. \A i \in live : IsFiniteSet(After(i)) /\ Cardinality(After(i)) \in Nat
  BY FS_Subset, FS_CardinalityType
<1>3. \A i \in live : i \in young <=> Cardinality(After(i)) < few
  BY DEF Youngest
<1> HIDE DEF young
<1>4. Cardinality(young) <= few
  <2>1. CASE young = {}
    BY <2>1, FS_EmptySet
  <2>2. CASE young # {}
    <3>1. young \in SUBSET Nat
      BY <1>0
    <3>2. PICK i \in young : \A j \in young : i <= j
      BY <2>2, <3>1, LeastNatural
    <3>3. young \ {i} \subseteq After(i)
      <4>1. \A j \in young \ {i} : j > i
        BY <3>1, <3>2
      <4> QED BY <1>0, <4>1
    <3>4. Cardinality(young \ {i}) = Cardinality(young) - 1
      BY <1>1, FS_RemoveElement
    <3>5. Cardinality(young \ {i}) <= Cardinality(After(i))
      BY <1>0, <1>2, <3>3, FS_Subset
    <3>6. Cardinality(After(i)) < few /\ Cardinality(After(i)) \in Nat
      BY <1>0, <1>2, <1>3
    <3> HIDE DEF After
    <3> QED BY <1>1, <3>4, <3>5, <3>6
  <2> QED BY <2>1, <2>2
<1>5. ASSUME NEW i \in live \ young, NEW j \in young
      PROVE  j > i
  <2>1. i \in Nat /\ j \in Nat
    BY <1>0
  <2>2. ASSUME j <= i
        PROVE  FALSE
    <3>1. After(i) \subseteq After(j)
      <4>1. \A k \in live : k > i => k > j
        BY <2>1, <2>2
      <4> QED BY <4>1
    <3>2. Cardinality(After(i)) <= Cardinality(After(j))
      BY <1>0, <1>2, <3>1, FS_Subset
    <3>3. /\ Cardinality(After(j)) < few /\ ~(Cardinality(After(i)) < few)
          /\ Cardinality(After(i)) \in Nat /\ Cardinality(After(j)) \in Nat
      BY <1>0, <1>2, <1>3
    <3> HIDE DEF After
    <3> QED BY <3>2, <3>3
  <2> QED BY <2>1, <2>2
<1>6. ASSUME NEW i \in live \ young
      PROVE  Cardinality(young) = few
  <2> DEFINE old == live \ young
  \* All the places after the youngest one that is too old are young.
  <2>0. IsFiniteSet(old) /\ old \subseteq Nat /\ old # {} /\ old \subseteq live
    BY FS_Subset
  <2>1. PICK x \in old : \A y \in old : y <= x
    <3> HIDE DEF old
    <3> QED BY <2>0, LargestPlace
  <2>2. After(x) \subseteq young
    <3>1. \A k \in old : ~(k > x)
      BY <2>0, <2>1
    <3> QED BY <3>1
  <2>3. Cardinality(After(x)) <= Cardinality(young)
    BY <1>1, <2>2, FS_Subset
  <2>4. ~(Cardinality(After(x)) < few) /\ Cardinality(After(x)) \in Nat
    BY <1>2, <1>3
  <2> HIDE DEF After
  <2> QED BY <1>1, <1>4, <2>3, <2>4
<1> QED BY <1>0, <1>4, <1>5, <1>6 DEF young

\* A window is still there, perhaps counted once more.
Remains(w, ws) == \E n \in 1..Len(ws) : ws[n].key = w.key /\ ws[n].start = w.start

\* There is room for none but windows that count, none of them opened before b.
Crowded(ws, room, t, b) ==
  /\ Len(ws) = room
  /\ \A n \in 1..Len(ws) : Live(ws[n], t) /\ ws[n].start >= b

\* Making room leaves less than there may be, loses no window that counts unless all that are
\* left count and none is older, and has no window that was not there.
LEMMA RoomMade ==
  ASSUME NEW t \in Nat, NEW ws, WindowsOK(ws, t)
  PROVE  LET made == MakeRoom(ws, t) IN
         /\ Filed(made, t) /\ Len(made) <= MaxKeys - 1
         /\ \A n \in 1..Len(made) : \E i \in 1..Len(ws) : made[n] = ws[i]
         /\ \A i \in 1..Len(ws) : Live(ws[i], t) =>
              \/ \E n \in 1..Len(made) : made[n] = ws[i]
              \/ Crowded(made, MaxKeys - 1, t, ws[i].start)
         /\ \A b : Crowded(ws, MaxKeys, t, b) => Crowded(made, MaxKeys - 1, t, b)
<1> DEFINE made == MakeRoom(ws, t)
           live == {i \in DOMAIN ws : Live(ws[i], t)}
           young == Youngest(live, MaxKeys - 1)
<1>1. /\ ws \in Seq(Windows) /\ Len(ws) \in Nat /\ DOMAIN ws = 1..Len(ws)
      /\ Len(ws) <= MaxKeys /\ MaxKeys \in Nat \ {0}
      /\ \A i \in 1..Len(ws) : ws[i] \in Windows
  BY LenProperties, RateLimitAssumption DEF WindowsOK, Filed
<1>0. Len(ws) \in Nat /\ MaxKeys \in Nat /\ Len(ws) <= MaxKeys
  BY <1>1
<1>2. CASE Len(ws) < MaxKeys
  <2>1. made = ws
    BY <1>2 DEF MakeRoom
  <2>a. Len(ws) # MaxKeys
    BY <1>0, <1>2
  <2>2. \A b : ~Crowded(ws, MaxKeys, t, b)
    BY <2>a DEF Crowded
  <2>3. Len(ws) <= MaxKeys - 1
    BY <1>1, <1>2
  <2> HIDE DEF made
  <2>4. Filed(made, t)
    BY <2>1 DEF WindowsOK
  <2> QED BY <2>1, <2>2, <2>3, <2>4 DEF made
<1>3. CASE Len(ws) = MaxKeys
  <2>1. made = Picked(ws, young)
    BY <1>1, <1>3 DEF MakeRoom
  <2>2. live \subseteq 1..Len(ws) /\ live \subseteq Nat
    BY <1>1
  <2>3. IsFiniteSet(live)
    <3>1. IsFiniteSet(1..Len(ws))
      BY <1>1, Places
    <3> QED BY <2>2, <3>1, FS_Subset
  <2>4. MaxKeys - 1 \in Nat
    BY <1>1
  <2>5. \A i \in 1..Len(ws) : i \in live <=> Live(ws[i], t)
    BY <1>1
  <2> HIDE DEF live, made
  <2>6. /\ young \subseteq live /\ Cardinality(young) <= MaxKeys - 1
        /\ \A i \in live \ young :
             Cardinality(young) = MaxKeys - 1 /\ \A j \in young : j > i
    BY <2>2, <2>3, <2>4, YoungestFew
  <2> HIDE DEF young
  <2>7. young \in SUBSET (1..Len(ws))
    BY <2>2, <2>6
  <2>8. Filed(made, t) /\ Len(made) = Cardinality(young) /\ Cardinality(young) \in Nat
    BY <1>1, <2>1, <2>7, PickedFiled, PickedInOrder DEF WindowsOK
  <2>9. PICK f \in [1..Cardinality(young) -> young] :
          /\ \A n \in 1..Cardinality(young) : made[n] = ws[f[n]]
          /\ \A i \in young : \E n \in 1..Cardinality(young) : f[n] = i
    BY <1>1, <2>1, <2>7, PickedInOrder
  <2>10. \A n \in 1..Len(made) : f[n] \in young /\ f[n] \in 1..Len(ws) /\ made[n] = ws[f[n]]
    BY <2>7, <2>8, <2>9
  <2>11. \A n \in 1..Len(made) : Live(made[n], t)
    BY <2>5, <2>6, <2>10
  <2>12. ASSUME NEW i \in 1..Len(ws), Live(ws[i], t)
         PROVE  \/ \E n \in 1..Len(made) : made[n] = ws[i]
                \/ Crowded(made, MaxKeys - 1, t, ws[i].start)
    <3>1. i \in live
      BY <2>5, <2>12
    <3>2. CASE i \in young
      BY <2>8, <2>9, <3>2
    <3>3. CASE i \notin young
      <4>1. Len(made) = MaxKeys - 1 /\ \A n \in 1..Len(made) : f[n] > i
        BY <2>6, <2>8, <2>10, <3>1, <3>3
      <4>2. ASSUME NEW n \in 1..Len(made)
            PROVE  made[n].start >= ws[i].start
        <5>1. f[n] \in 1..Len(ws) /\ i < f[n] /\ made[n] = ws[f[n]]
          BY <1>1, <2>10, <4>1
        <5>2. ws[i].start <= ws[f[n]].start
          BY <5>1 DEF WindowsOK, Filed
        <5>3. ws[i].start \in Nat /\ ws[f[n]].start \in Nat
          BY <1>1, <5>1 DEF Windows
        <5> QED BY <5>1, <5>2, <5>3
      <4> QED BY <2>11, <4>1, <4>2 DEF Crowded
    <3> QED BY <3>2, <3>3
  <2>13. ASSUME NEW b, Crowded(ws, MaxKeys, t, b)
         PROVE  Crowded(made, MaxKeys - 1, t, b)
    <3>1. live = 1..Len(ws)
      BY <2>2, <2>5, <2>13 DEF Crowded
    <3>2. Cardinality(live) = MaxKeys
      BY <1>1, <1>3, <3>1, Places
    <3>a. ~(MaxKeys <= MaxKeys - 1)
      BY <1>1
    <3>b. live # young
      BY <2>6, <3>2, <3>a
    <3>3. PICK i \in live : i \notin young
      BY <2>6, <3>b
    <3>4. Len(made) = MaxKeys - 1
      BY <2>6, <2>8, <3>3
    <3>5. \A n \in 1..Len(made) : made[n].start >= b
      BY <2>10, <2>13 DEF Crowded
    <3> QED BY <2>11, <3>4, <3>5 DEF Crowded
  <2>14. \A n \in 1..Len(made) : \E i \in 1..Len(ws) : made[n] = ws[i]
    BY <2>10
  <2>15. Len(made) <= MaxKeys - 1
    BY <2>6, <2>8
  <2> QED BY <2>8, <2>12, <2>13, <2>14, <2>15 DEF made
<1>4. Len(ws) < MaxKeys \/ Len(ws) = MaxKeys
  BY <1>0
<1> HIDE DEF made
<1> QED BY <1>2, <1>3, <1>4 DEF made

\* Without the window of a key, what stays is all of the others.
LEMMA OthersStay ==
  ASSUME NEW t \in Nat, NEW ws, Filed(ws, t), NEW key
  PROVE  LET rest == Others(ws, key) IN
         /\ Filed(rest, t) /\ Len(rest) <= Len(ws)
         /\ \A n \in 1..Len(rest) : \E i \in 1..Len(ws) : rest[n] = ws[i]
         /\ \A i \in 1..Len(ws) : ws[i].key # key => \E n \in 1..Len(rest) : rest[n] = ws[i]
         /\ (\A i \in 1..Len(ws) : ws[i].key # key) => Len(rest) = Len(ws)
<1> DEFINE rest == Others(ws, key)
           I == {i \in DOMAIN ws : ws[i].key # key}
<1>1. ws \in Seq(Windows) /\ Len(ws) \in Nat /\ DOMAIN ws = 1..Len(ws)
  BY LenProperties DEF Filed
<1>2. I \in SUBSET (1..Len(ws)) /\ \A i \in 1..Len(ws) : i \in I <=> ws[i].key # key
  BY <1>1
<1>3. rest = Picked(ws, I)
  BY DEF Others
<1> HIDE DEF I, rest
<1>4. Filed(rest, t) /\ Len(rest) = Cardinality(I) /\ Cardinality(I) \in Nat
  BY <1>1, <1>2, <1>3, PickedFiled, PickedInOrder
<1>5. PICK f \in [1..Cardinality(I) -> I] :
         /\ \A n \in 1..Cardinality(I) : rest[n] = ws[f[n]]
         /\ \A i \in I : \E n \in 1..Cardinality(I) : f[n] = i
  BY <1>1, <1>2, <1>3, PickedInOrder
<1>6. IsFiniteSet(1..Len(ws)) /\ Cardinality(1..Len(ws)) = Len(ws)
  BY <1>1, Places
<1>7. Cardinality(I) <= Len(ws)
  <2>1. Cardinality(I) <= Cardinality(1..Len(ws))
    BY <1>2, <1>6, FS_Subset
  <2> QED BY <1>6, <2>1
<1>8. (\A i \in 1..Len(ws) : ws[i].key # key) => Cardinality(I) = Len(ws)
  <2> HAVE \A i \in 1..Len(ws) : ws[i].key # key
  <2>1. I = 1..Len(ws)
    BY <1>2
  <2> QED BY <1>6, <2>1
<1>9. \A n \in 1..Len(rest) : f[n] \in 1..Len(ws) /\ rest[n] = ws[f[n]]
  BY <1>2, <1>4, <1>5
<1>10. \A i \in 1..Len(ws) : ws[i].key # key => \E n \in 1..Len(rest) : rest[n] = ws[i]
  BY <1>2, <1>4, <1>5
<1> QED BY <1>4, <1>7, <1>8, <1>9, <1>10 DEF rest

WindowKeys == Buckets \X ({Ip, None} \cup Emails \cup Students)

\* A window that is opened counts.
LEMMA OpenedCounts ==
  ASSUME NEW key \in WindowKeys, NEW t \in Nat
  PROVE  LET w == [key |-> key, start |-> t, count |-> 1] IN w \in Windows /\ Live(w, t)
<1> DEFINE w == [key |-> key, start |-> t, count |-> 1]
<1>1. w \in Windows
  BY DEF Windows, WindowKeys
<1>2. w.start = t /\ w.key[1] \in DOMAIN Rules
  BY BucketsAssumption DEF WindowKeys, Buckets
<1>3. Rules[w.key[1]].length \in Nat \ {0}
  BY <1>2, RateLimitAssumption
<1>4. t < w.start + Rules[w.key[1]].length
  <2> DEFINE length == Rules[w.key[1]].length
  <2>1. length \in Nat \ {0}
    BY <1>3
  <2> HIDE DEF length, w
  <2> QED BY <1>2, <2>1 DEF length
<1> QED BY <1>1, <1>4 DEF Live

\* A count changes no key and no start.
LEMMA CountedStays ==
  ASSUME NEW w \in Windows
  PROVE  Counted(w) \in Windows /\ Counted(w).key = w.key /\ Counted(w).start = w.start
BY DEF Windows, Counted

\* One request is counted in a window that counts: the windows stand as they are.
LEMMA HitCounts ==
  ASSUME NEW t \in Nat, NEW ws, WindowsOK(ws, t), NEW key, Counting(ws, key, t) # {}
  PROVE  LET hit == Hit(ws, key, t) IN
         /\ WindowsOK(hit, t) /\ Len(hit) = Len(ws)
         /\ \A i \in 1..Len(ws) : hit[i].key = ws[i].key /\ hit[i].start = ws[i].start
<1> DEFINE hit == Hit(ws, key, t)
           at(i) == IF i \in Counting(ws, key, t) THEN Counted(ws[i]) ELSE ws[i]
<1>1. /\ ws \in Seq(Windows) /\ Len(ws) \in Nat /\ DOMAIN ws = 1..Len(ws)
      /\ \A i \in 1..Len(ws) : ws[i] \in Windows
  BY LenProperties DEF WindowsOK, Filed
<1>2. hit = [i \in 1..Len(ws) |-> at(i)]
  BY <1>1 DEF Hit
<1>3. \A i \in 1..Len(ws) :
        at(i) \in Windows /\ at(i).key = ws[i].key /\ at(i).start = ws[i].start
  BY <1>1, CountedStays
<1> HIDE DEF at, hit
<1>4. hit \in [1..Len(ws) -> Windows]
  BY <1>2, <1>3
<1>5. hit \in Seq(Windows) /\ Len(hit) = Len(ws)
  BY <1>1, <1>4
<1>6. \A i \in 1..Len(ws) : hit[i].key = ws[i].key /\ hit[i].start = ws[i].start
  BY <1>2, <1>3
<1>7. WindowsOK(hit, t)
  BY <1>5, <1>6 DEF WindowsOK, Filed
<1> QED BY <1>5, <1>6, <1>7 DEF hit

\* One request that opens a window: it stands last.
LEMMA HitOpens ==
  ASSUME NEW t \in Nat, NEW ws, WindowsOK(ws, t), NEW key \in WindowKeys,
         Counting(ws, key, t) = {}
  PROVE  LET hit == Hit(ws, key, t)
             made == MakeRoom(ws, t)
             rest == Others(made, key)
         IN  /\ WindowsOK(hit, t)
             /\ Filed(rest, t) /\ Len(hit) = Len(rest) + 1 /\ Len(rest) \in Nat
             /\ \A n \in 1..Len(rest) : hit[n] = rest[n]
             /\ hit[Len(hit)].start = t /\ Live(hit[Len(hit)], t)
<1> DEFINE made == MakeRoom(ws, t)
           rest == Others(made, key)
           new == [key |-> key, start |-> t, count |-> 1]
           hit == Hit(ws, key, t)
<1>1. hit = Append(rest, new)
  BY DEF Hit
<1>2. new \in Windows /\ Live(new, t) /\ new.start = t
  BY OpenedCounts
<1>3. Filed(made, t) /\ Len(made) <= MaxKeys - 1
  BY RoomMade
<1> HIDE DEF made, new, hit
<1>4. Filed(rest, t) /\ Len(rest) <= Len(made)
  BY <1>3, OthersStay
<1> HIDE DEF rest
<1>5. /\ rest \in Seq(Windows) /\ made \in Seq(Windows)
  BY <1>3, <1>4 DEF Filed
<1>6. Len(rest) \in Nat /\ Len(made) \in Nat /\ MaxKeys \in Nat
  BY <1>5, LenProperties, RateLimitAssumption
<1>7. /\ hit \in Seq(Windows) /\ Len(hit) = Len(rest) + 1
      /\ \A n \in 1..Len(rest) : hit[n] = rest[n]
      /\ hit[Len(rest) + 1] = new
  BY <1>1, <1>2, <1>5, AppendProperties
<1>8. Len(hit) <= MaxKeys
  BY <1>3, <1>4, <1>6, <1>7
<1>9. \A i \in 1..Len(hit) : hit[i].start <= t /\ (i \in 1..Len(rest) \/ hit[i].start = t)
  <2> TAKE i \in 1..Len(hit)
  <2>1. i \in 1..Len(rest) \/ i = Len(rest) + 1
    BY <1>6, <1>7
  <2>2. CASE i \in 1..Len(rest)
    BY <1>4, <1>7, <2>2 DEF Filed
  <2>3. CASE i = Len(rest) + 1
    BY <1>2, <1>7, <2>3
  <2> QED BY <2>1, <2>2, <2>3
<1>10. ASSUME NEW i \in 1..Len(hit), NEW j \in 1..Len(hit), i < j
       PROVE  hit[i].start <= hit[j].start
  <2>1. i \in 1..Len(rest)
    BY <1>6, <1>7, <1>10
  <2>2. CASE j \in 1..Len(rest)
    BY <1>4, <1>7, <1>10, <2>1, <2>2 DEF Filed
  <2>3. CASE hit[j].start = t
    BY <1>9, <2>3
  <2> QED BY <1>9, <2>2, <2>3
<1>11. WindowsOK(hit, t)
  BY <1>7, <1>8, <1>9, <1>10 DEF WindowsOK, Filed
<1> QED BY <1>2, <1>4, <1>6, <1>7, <1>11 DEF hit, rest, made

\* All windows that stand before the one just opened count, and so do all, if they did.
LEMMA HitCrowds ==
  ASSUME NEW t \in Nat, NEW ws, WindowsOK(ws, t), NEW key \in WindowKeys, NEW b \in Nat, b <= t,
         Counting(ws, key, t) = {}, Crowded(MakeRoom(ws, t), MaxKeys - 1, t, b)
  PROVE  Crowded(Hit(ws, key, t), MaxKeys, t, b)
<1> DEFINE hit == Hit(ws, key, t)
           made == MakeRoom(ws, t)
           rest == Others(made, key)
<1>1. /\ Filed(made, t) /\ \A n \in 1..Len(made) : \E i \in 1..Len(ws) : made[n] = ws[i]
  BY RoomMade
<1>2. /\ Filed(rest, t) /\ Len(hit) = Len(rest) + 1 /\ Len(rest) \in Nat
      /\ \A n \in 1..Len(rest) : hit[n] = rest[n]
      /\ hit[Len(hit)].start = t /\ Live(hit[Len(hit)], t)
  BY HitOpens
<1> HIDE DEF made, hit
<1>3. \A i \in 1..Len(made) : made[i].key # key
  <2> TAKE n \in 1..Len(made)
  <2>1. PICK i \in 1..Len(ws) : made[n] = ws[i]
    BY <1>1
  <2>2. Live(ws[i], t)
    BY <2>1 DEF Crowded, made
  <2>3. ws \in Seq(Windows) /\ DOMAIN ws = 1..Len(ws)
    BY LenProperties DEF WindowsOK, Filed
  <2> QED BY <2>1, <2>2, <2>3 DEF Counting
<1>a. /\ \A n \in 1..Len(rest) : \E i \in 1..Len(made) : rest[n] = made[i]
      /\ (\A i \in 1..Len(made) : made[i].key # key) => Len(rest) = Len(made)
  BY <1>1, OthersStay
<1> HIDE DEF rest
<1>4. /\ Len(rest) = Len(made)
      /\ \A n \in 1..Len(rest) : \E i \in 1..Len(made) : rest[n] = made[i]
  BY <1>3, <1>a
<1>5. Len(hit) = MaxKeys
  <2>1. Len(made) = MaxKeys - 1 /\ MaxKeys \in Nat
    BY RateLimitAssumption DEF Crowded, made
  <2> QED BY <1>2, <1>4, <2>1
<1>6. ASSUME NEW n \in 1..Len(hit)
      PROVE  Live(hit[n], t) /\ hit[n].start >= b
  <2>1. n \in 1..Len(rest) \/ n = Len(hit)
    BY <1>2
  <2>2. CASE n \in 1..Len(rest)
    <3>1. PICK i \in 1..Len(made) : hit[n] = made[i]
      BY <1>2, <1>4, <2>2
    <3> QED BY <3>1 DEF Crowded, made
  <2>3. CASE n = Len(hit)
    BY <1>2, <2>3
  <2> QED BY <2>1, <2>2, <2>3
<1> QED BY <1>5, <1>6 DEF Crowded, hit

\* Counting one request forgets a window that counts only when it is crowded.
LEMMA HitKeeps ==
  ASSUME NEW t \in Nat, NEW ws, WindowsOK(ws, t), NEW key \in WindowKeys
  PROVE  LET hit == Hit(ws, key, t) IN
         /\ WindowsOK(hit, t)
         /\ \A i \in 1..Len(ws) : Live(ws[i], t) =>
              Remains(ws[i], hit) \/ Crowded(hit, MaxKeys, t, ws[i].start)
         /\ \A b \in Nat : b <= t /\ Crowded(ws, MaxKeys, t, b) => Crowded(hit, MaxKeys, t, b)
<1> DEFINE hit == Hit(ws, key, t)
<1>a. ws \in Seq(Windows)
  BY DEF WindowsOK, Filed
<1>b. DOMAIN ws = 1..Len(ws) /\ \A i \in 1..Len(ws) : ws[i] \in Windows
  BY <1>a, LenProperties
<1>0. /\ ws \in Seq(Windows) /\ DOMAIN ws = 1..Len(ws)
      /\ \A i \in 1..Len(ws) : ws[i].start \in Nat /\ ws[i].start <= t
  BY <1>a, <1>b DEF WindowsOK, Filed, Windows
<1>1. CASE Counting(ws, key, t) # {}
  <2>1. /\ WindowsOK(hit, t) /\ Len(hit) = Len(ws)
        /\ \A i \in 1..Len(ws) : hit[i].key = ws[i].key /\ hit[i].start = ws[i].start
    BY <1>1, HitCounts
  <2> HIDE DEF hit
  <2>2. \A i \in 1..Len(ws) : Remains(ws[i], hit)
    BY <2>1 DEF Remains
  <2>3. \A b : Crowded(ws, MaxKeys, t, b) => Crowded(hit, MaxKeys, t, b)
    BY <2>1 DEF Crowded, Live
  <2> QED BY <2>1, <2>2, <2>3 DEF hit
<1>2. CASE Counting(ws, key, t) = {}
  <2> DEFINE made == MakeRoom(ws, t)
             rest == Others(made, key)
  <2>1. /\ WindowsOK(hit, t)
        /\ Filed(rest, t) /\ Len(hit) = Len(rest) + 1 /\ Len(rest) \in Nat
        /\ \A n \in 1..Len(rest) : hit[n] = rest[n]
    <3>1. WindowsOK(hit, t) /\ Filed(rest, t)
      BY <1>2, HitOpens
    <3>2. Len(hit) = Len(rest) + 1 /\ Len(rest) \in Nat
      BY <1>2, HitOpens
    <3>3. \A n \in 1..Len(rest) : hit[n] = rest[n]
      BY <1>2, HitOpens
    <3> QED BY <3>1, <3>2, <3>3
  <2>2. /\ Filed(made, t)
        /\ \A i \in 1..Len(ws) : Live(ws[i], t) =>
             \/ \E n \in 1..Len(made) : made[n] = ws[i]
             \/ Crowded(made, MaxKeys - 1, t, ws[i].start)
        /\ \A b : Crowded(ws, MaxKeys, t, b) => Crowded(made, MaxKeys - 1, t, b)
    BY RoomMade
  <2>3. \A b \in Nat : b <= t /\ Crowded(made, MaxKeys - 1, t, b) => Crowded(hit, MaxKeys, t, b)
    BY <1>2, HitCrowds
  <2> HIDE DEF made, hit
  <2>4. \A n \in 1..Len(made) : made[n].key # key => \E m \in 1..Len(rest) : rest[m] = made[n]
    BY <2>2, OthersStay
  <2> HIDE DEF rest
  <2>5. ASSUME NEW i \in 1..Len(ws), Live(ws[i], t)
        PROVE  Remains(ws[i], hit) \/ Crowded(hit, MaxKeys, t, ws[i].start)
    <3>1. CASE \E n \in 1..Len(made) : made[n] = ws[i]
      <4>1. PICK n \in 1..Len(made) : made[n] = ws[i]
        BY <3>1
      <4>2. ws[i].key # key
        BY <1>0, <1>2, <2>5 DEF Counting
      <4>3. PICK m \in 1..Len(rest) : rest[m] = ws[i]
        BY <2>4, <4>1, <4>2
      <4>4. m \in 1..Len(hit) /\ hit[m] = ws[i]
        BY <2>1, <4>3
      <4> QED BY <4>4 DEF Remains
    <3>2. CASE Crowded(made, MaxKeys - 1, t, ws[i].start)
      BY <1>0, <2>3, <3>2
    <3> QED BY <2>2, <2>5, <3>1, <3>2
  <2> QED BY <2>1, <2>2, <2>3, <2>5 DEF hit
<1> QED BY <1>1, <1>2

\* Every window that counts is still there, or room was made where all counted.
Forgets(ws, vs, t) ==
  \A i \in 1..Len(ws) : Live(ws[i], t) =>
    Remains(ws[i], vs) \/ Crowded(vs, MaxKeys, t, ws[i].start)

LEMMA OneHit ==
  ASSUME NEW t \in Nat, NEW ws, WindowsOK(ws, t), NEW key \in WindowKeys
  PROVE  WindowsOK(Hit(ws, key, t), t) /\ Forgets(ws, Hit(ws, key, t), t)
BY HitKeeps DEF Forgets

LEMMA TwoHits ==
  ASSUME NEW t \in Nat, NEW ws, WindowsOK(ws, t),
         NEW key \in WindowKeys, NEW other \in WindowKeys
  PROVE  LET both == Hit(Hit(ws, key, t), other, t) IN WindowsOK(both, t) /\ Forgets(ws, both, t)
<1> DEFINE first == Hit(ws, key, t)
           both == Hit(first, other, t)
<1>1. WindowsOK(first, t) /\ Forgets(ws, first, t)
  BY OneHit
<1> HIDE DEF first
<1>2. WindowsOK(both, t) /\ Forgets(first, both, t)
  BY <1>1, OneHit
<1>3. \A b \in Nat : b <= t /\ Crowded(first, MaxKeys, t, b) => Crowded(both, MaxKeys, t, b)
  BY <1>1, HitKeeps
<1> HIDE DEF both
<1>4. ASSUME NEW i \in 1..Len(ws), Live(ws[i], t)
      PROVE  Remains(ws[i], both) \/ Crowded(both, MaxKeys, t, ws[i].start)
  <2>1. CASE Remains(ws[i], first)
    <3>1. PICK n \in 1..Len(first) : first[n].key = ws[i].key /\ first[n].start = ws[i].start
      BY <2>1 DEF Remains
    <3>2. Live(first[n], t)
      BY <1>4, <3>1 DEF Live
    <3> QED BY <1>2, <3>1, <3>2 DEF Forgets, Remains
  <2>2. CASE Crowded(first, MaxKeys, t, ws[i].start)
    <3>1. ws \in Seq(Windows) /\ ws[i].start <= t
      BY DEF WindowsOK, Filed
    <3>2. ws[i] \in Windows
      BY <3>1, LenProperties
    <3>3. ws[i].start \in Nat
      BY <3>2 DEF Windows
    <3> QED BY <1>3, <2>2, <3>1, <3>3
  <2> QED BY <1>1, <1>4, <2>1, <2>2 DEF Forgets
<1> QED BY <1>2, <1>4 DEF Forgets, both, first

LEMMA NoHit ==
  ASSUME NEW ws, NEW t
  PROVE  Forgets(ws, ws, t)
BY DEF Forgets, Remains

\* The keys of the limits that requests are counted against.
LEMMA KeysThere ==
  /\ <<"ip", Ip>> \in WindowKeys /\ <<"auth", Ip>> \in WindowKeys
  /\ \A e \in Emails \cup {None} : <<"auth_account", e>> \in WindowKeys
  /\ \A s \in Students \cup {None} :
       <<"api", s>> \in WindowKeys /\ <<"tutor", s>> \in WindowKeys
BY DEF WindowKeys, Buckets

\* A step counts no request, one, or one twice.
LEMMA StepWindows ==
  ASSUME VInv, WindowsOK(windows, now), [Next]_vars
  PROVE  WindowsOK(windows', now') /\ Forgets(windows, windows', now)
<1>0. now \in Nat
  BY DEF VInv
<1> DEFINE ip == <<"ip", Ip>>
           auth == <<"auth", Ip>>
           account(e) == <<"auth_account", e>>
           api(s) == <<"api", s>>
           tutor(s) == <<"tutor", s>>
<1>k. /\ ip \in WindowKeys /\ auth \in WindowKeys
      /\ \A e \in Emails \cup {None} : account(e) \in WindowKeys
      /\ \A s \in Students \cup {None} : api(s) \in WindowKeys /\ tutor(s) \in WindowKeys
  BY KeysThere
<1>q. \A r \in Requests : /\ reqs[r].email \in Emails \cup {None}
                         /\ reqs[r].student \in Students \cup {None}
  BY DEF VInv, RequestsOK, Calls
<1>1. CASE UNCHANGED windows /\ now' = now
  BY <1>1, NoHit
<1>2. CASE Tick
  <2>1. now <= now' /\ windows' = windows
    BY <1>0, <1>2 DEF Tick
  <2>2. WindowsOK(windows, now')
    <3>1. now' \in Nat /\ windows \in Seq(Windows)
      BY <1>0, <1>2 DEF Tick, WindowsOK, Filed
    <3>2. \A i \in 1..Len(windows) : windows[i].start \in Nat /\ windows[i].start <= now
      <4>1. \A i \in 1..Len(windows) : windows[i] \in Windows
        BY <3>1, LenProperties
      <4> QED BY <4>1 DEF WindowsOK, Filed, Windows
    <3>3. \A i \in 1..Len(windows) : windows[i].start <= now'
      BY <1>0, <2>1, <3>1, <3>2
    <3> QED BY <3>3 DEF WindowsOK, Filed
  <2> QED BY <2>1, <2>2, NoHit
<1>3. ASSUME NEW r \in Requests, Arrive(r)
      PROVE  WindowsOK(windows', now') /\ Forgets(windows, windows', now)
  <2>1. /\ now' = now
        /\ \/ windows' = Hit(windows, ip, now)
           \/ windows' = Hit(Hit(windows, ip, now), auth, now)
    BY <1>3 DEF Arrive
  <2> HIDE DEF ip, auth
  <2> QED BY <1>0, <1>k, <2>1, OneHit, TwoHits
<1>4. ASSUME NEW r \in Requests, Body(r)
      PROVE  WindowsOK(windows', now') /\ Forgets(windows, windows', now)
  <2> DEFINE key == account(reqs[r].email)
  <2>1. now' = now /\ (windows' = windows \/ windows' = Hit(windows, key, now))
    BY <1>4 DEF Body
  <2>2. key \in WindowKeys
    BY <1>k, <1>q
  <2> HIDE DEF key
  <2> QED BY <1>0, <2>1, <2>2, OneHit, NoHit
<1>5. ASSUME NEW r \in Requests, Enrollment(r)
      PROVE  WindowsOK(windows', now') /\ Forgets(windows, windows', now)
  <2> DEFINE key == api(reqs[r].student)
             other == tutor(reqs[r].student)
  <2>1. /\ now' = now
        /\ \/ windows' = windows
           \/ windows' = Hit(windows, key, now)
           \/ windows' = Hit(Hit(windows, key, now), other, now)
    BY <1>5 DEF Enrollment
  <2>2. key \in WindowKeys /\ other \in WindowKeys
    BY <1>k, <1>q
  <2> HIDE DEF key, other
  <2> QED BY <1>0, <2>1, <2>2, OneHit, TwoHits, NoHit
<1>6. ASSUME NEW r \in Requests,
             \/ Fail(r) \/ Create(r) \/ Lookup(r) \/ Issue(r) \/ Find(r) \/ RevokeSession(r)
             \/ Onboard(r) \/ EnrollStudent(r) \/ Guard(r) \/ Practise(r) \/ Reserve(r)
             \/ Reply(r) \/ Deadline(r) \/ Settle(r) \/ Run(r)
      PROVE  UNCHANGED windows /\ now' = now
  BY <1>6 DEF Fail, Create, Lookup, Issue, Find, RevokeSession, Onboard, EnrollStudent, Guard,
              Practise, Reserve, Reply, Deadline, Settle, Run
<1>7. CASE UNCHANGED vars
  BY <1>1, <1>7 DEF vars, serverVars
<1> QED BY <1>1, <1>2, <1>3, <1>4, <1>5, <1>6, <1>7 DEF Next, Serve

\* The windows of the limiter are never more than it may keep, and stand in the order in which
\* they were opened.
THEOREM WindowsHold == Spec => []WindowsOK(windows, now)
<1>1. Init => WindowsOK(windows, now)
  <2> SUFFICES ASSUME Init PROVE WindowsOK(windows, now)
    OBVIOUS
  <2>1. windows = <<>> /\ Len(windows) = 0 /\ windows \in Seq(Windows) /\ 1..Len(windows) = {}
    BY DEF Init
  <2>2. 0 <= MaxKeys
    BY RateLimitAssumption
  <2> QED BY <2>1, <2>2 DEF WindowsOK, Filed
<1>2. VInv /\ WindowsOK(windows, now) /\ [Next]_vars => WindowsOK(windows, now)'
  BY StepWindows
<1> QED BY <1>1, <1>2, VInvHolds, PTL DEF Spec

\* A window that counts is only forgotten when the limiter is full of windows that count, and
\* then none that is kept is older, even where one request is counted twice in a step.
THEOREM TheOldestGo == Spec => OldestForgotten
<1> DEFINE W == WindowsOK(windows, now)
           Lost == \A i \in DOMAIN windows :
             (Live(windows[i], now) /\ \A j \in DOMAIN windows' : windows'[j].key # windows[i].key)
             => /\ Len(windows') = MaxKeys
                /\ \A j \in DOMAIN windows' : windows'[j].start >= windows[i].start
<1>1. VInv /\ W /\ [Next]_vars => [Lost]_vars
  <2> SUFFICES ASSUME VInv, W, [Next]_vars
               PROVE  Lost
    OBVIOUS
  <2>1. WindowsOK(windows', now') /\ Forgets(windows, windows', now)
    BY StepWindows
  <2>2. DOMAIN windows = 1..Len(windows) /\ DOMAIN windows' = 1..Len(windows')
    BY <2>1, LenProperties DEF WindowsOK, Filed
  <2> QED BY <2>1, <2>2 DEF Forgets, Remains, Crowded
<1>2. Spec => []W
  BY WindowsHold
<1> HIDE DEF W
<1> QED BY <1>1, <1>2, VInvHolds, PTL DEF Spec, OldestForgotten

-----------------------------------------------------------------------------
(* The accounts *)

\* Account(e) of given tables.
Held(people, dates, e) ==
  LET owner == {s \in Students : people[s] # None /\ people[s].email = e} IN
  IF owner = {} THEN None
  ELSE LET s == CHOOSE s \in owner : TRUE IN
       [onboarded |-> people[s].onboarded, enrolled |-> dates[s]]

\* Ticket(k) of given tables.
Shown(people, rows, t, k) ==
  IF rows[k] = None THEN None
  ELSE [owner |-> people[rows[k].student].email, live |-> ~Over(rows[k], t)]

LEMMA AsHeld ==
  /\ accounts = [e \in Emails |-> Held(students, enrolled, e)]
  /\ accounts' = [e \in Emails |-> Held(students', enrolled', e)]
  /\ tickets = [k \in Tokens |-> Shown(students, sessions, now, k)]
  /\ tickets' = [k \in Tokens |-> Shown(students', sessions', now', k)]
<1>1. accounts = [e \in Emails |-> Held(students, enrolled, e)]
  BY DEF accounts, Account, Owner, Held
<1>2. accounts' = [e \in Emails |-> Held(students', enrolled', e)]
  BY DEF accounts, Account, Owner, Held
<1>3. tickets = [k \in Tokens |-> Shown(students, sessions, now, k)]
  BY DEF tickets, Ticket, Shown
<1>4. tickets' = [k \in Tokens |-> Shown(students', sessions', now', k)]
  BY DEF tickets, Ticket, Shown
<1> QED BY <1>1, <1>2, <1>3, <1>4

\* An email has one student.
Fits(people, dates) ==
  /\ people \in [Students -> StudentRows \cup {None}]
  /\ dates \in [Students -> Dates]
  /\ \A s, t \in Students :
       people[s] # None /\ people[t] # None /\ people[s].email = people[t].email => s = t

LEMMA Owned ==
  ASSUME NEW people, NEW dates, Fits(people, dates), NEW s \in Students, people[s] # None
  PROVE  /\ people[s].email \in Emails
         /\ Held(people, dates, people[s].email) =
              [onboarded |-> people[s].onboarded, enrolled |-> dates[s]]
         /\ Held(people, dates, people[s].email) # None
<1> DEFINE e == people[s].email
           owner == {t \in Students : people[t] # None /\ people[t].email = e}
<1>1. owner = {s}
  BY DEF Fits
<1>2. (CHOOSE t \in owner : TRUE) = s
  BY <1>1
<1>3. Held(people, dates, e) = [onboarded |-> people[s].onboarded, enrolled |-> dates[s]]
  BY <1>1, <1>2 DEF Held
<1>4. people[s].onboarded \in Dates /\ dates[s] \in Dates /\ e \in Emails
  BY DEF Fits, StudentRows
<1>5. Held(people, dates, e) # None
  BY <1>3, <1>4, LifeAssumption
<1> QED BY <1>3, <1>4, <1>5

LEMMA Unowned ==
  ASSUME NEW people, NEW dates, NEW e,
         \A s \in Students : ~(people[s] # None /\ people[s].email = e)
  PROVE  Held(people, dates, e) = None
  BY DEF Held

\* What happens to one student is nothing to the account of another email.
LEMMA Untouched ==
  ASSUME NEW people, NEW dates, NEW people2, NEW dates2, NEW s \in Students, NEW e,
         \A t \in Students \ {s} : people2[t] = people[t] /\ dates2[t] = dates[t],
         people[s] # None => people[s].email = e, people2[s] # None => people2[s].email = e,
         NEW other, other # e
  PROVE  Held(people2, dates2, other) = Held(people, dates, other)
<1> DEFINE owner == {t \in Students : people[t] # None /\ people[t].email = other}
           owner2 == {t \in Students : people2[t] # None /\ people2[t].email = other}
<1>1. owner2 = owner /\ owner \subseteq Students \ {s}
  OBVIOUS
<1>2. CASE owner = {}
  BY <1>1, <1>2 DEF Held
<1>3. CASE owner # {}
  <2> DEFINE t == CHOOSE x \in owner : TRUE
  <2>1. t \in owner
    BY <1>3
  <2>2. Held(people, dates, other) = [onboarded |-> people[t].onboarded, enrolled |-> dates[t]]
    BY <1>3 DEF Held
  <2>3. Held(people2, dates2, other) = [onboarded |-> people2[t].onboarded, enrolled |-> dates2[t]]
    BY <1>1, <1>3 DEF Held
  <2> HIDE DEF t, owner, owner2
  <2> QED BY <1>1, <2>1, <2>2, <2>3
<1> QED BY <1>2, <1>3

\* A step of one student's rows that changes one account.
LEMMA OneAccount ==
  ASSUME VInv, VInv', NEW s \in Students, students'[s] # None, NEW e, students'[s].email = e,
         students[s] # None => students[s].email = e,
         \A t \in Students \ {s} : students'[t] = students[t] /\ enrolled'[t] = enrolled[t]
  PROVE  /\ e \in Emails
         /\ accounts' = [accounts EXCEPT ![e] =
              [onboarded |-> students'[s].onboarded, enrolled |-> enrolled'[s]]]
<1> DEFINE new == [onboarded |-> students'[s].onboarded, enrolled |-> enrolled'[s]]
<1>1. Fits(students', enrolled')
  BY DEF VInv, TablesOK, Fits
<1>2. e \in Emails /\ Held(students', enrolled', e) = new
  BY <1>1, Owned
<1>3. \A other \in Emails : other # e =>
        Held(students', enrolled', other) = Held(students, enrolled, other)
  BY Untouched
<1> HIDE DEF new
<1>4. accounts' = [accounts EXCEPT ![e] = new]
  BY <1>2, <1>3, AsHeld
<1> QED BY <1>2, <1>4 DEF new

LEMMA AccountsStay ==
  ASSUME UNCHANGED <<students, enrolled>>
  PROVE  UNCHANGED accounts
  BY AsHeld

\* Emails do not change, and sessions belong to students there are.
LEMMA TicketsStay ==
  ASSUME VInv, UNCHANGED <<sessions, now>>,
         \A s \in Students : students[s] # None => students'[s].email = students[s].email
  PROVE  UNCHANGED tickets
<1>1. ASSUME NEW k \in Tokens
      PROVE  Shown(students', sessions', now', k) = Shown(students, sessions, now, k)
  BY DEF Shown, VInv, TablesOK, SessionRows
<1> QED BY <1>1, AsHeld

\* One session changes.
LEMMA OneTicket ==
  ASSUME VInv, UNCHANGED <<students, now>>, NEW k \in Tokens, NEW row, row # None,
         sessions' = [sessions EXCEPT ![k] = row]
  PROVE  tickets' = [tickets EXCEPT ![k] =
           [owner |-> students[row.student].email, live |-> ~Over(row, now)]]
<1> DEFINE new == [owner |-> students[row.student].email, live |-> ~Over(row, now)]
<1>1. \A j \in Tokens : sessions'[j] = IF j = k THEN row ELSE sessions[j]
  BY DEF VInv, TablesOK
<1>2. Shown(students', sessions', now', k) = new
  BY <1>1 DEF Shown
<1>3. \A j \in Tokens : j # k =>
        Shown(students', sessions', now', j) = Shown(students, sessions, now, j)
  BY <1>1 DEF Shown
<1> HIDE DEF new
<1>4. tickets' = [tickets EXCEPT ![k] = new]
  BY <1>2, <1>3, AsHeld
<1> QED BY <1>4 DEF new

LEMMA Joins ==
  ASSUME VInv, VInv', NEW s \in Students, NEW e \in Emails, CreateStudent(s, e), UNCHANGED now
  PROVE  L!Join(e)
<1>1. /\ students[s] = None /\ UNCHANGED <<sessions, enrolled>>
      /\ students' = [students EXCEPT ![s] = [email |-> e, onboarded |-> None]]
      /\ \A t \in Students : ~(students[t] # None /\ students[t].email = e)
  BY DEF CreateStudent, Owner
<1>2. /\ students'[s] = [email |-> e, onboarded |-> None]
      /\ \A t \in Students \ {s} : students'[t] = students[t]
      /\ enrolled'[s] = None
  BY <1>1 DEF VInv, TablesOK
<1>3. students'[s] # None /\ students'[s].email = e /\ students'[s].onboarded = None
  BY <1>2, NoneAssumption DEF StudentRows, Dates
<1>4. accounts' = [accounts EXCEPT ![e] = L!Fresh]
  BY <1>1, <1>2, <1>3, OneAccount DEF L!Fresh
<1>5. accounts[e] = None
  BY <1>1, Unowned, AsHeld
<1>6. UNCHANGED tickets
  BY <1>1, <1>2, TicketsStay
<1> QED BY <1>4, <1>5, <1>6 DEF L!Join

\* The account of a student there is.
LEMMA HasAccount ==
  ASSUME VInv, NEW s \in Students, students[s] # None
  PROVE  LET e == students[s].email IN
         /\ e \in Emails /\ accounts[e] # None
         /\ accounts[e] = [onboarded |-> students[s].onboarded, enrolled |-> enrolled[s]]
<1>1. Fits(students, enrolled)
  BY DEF VInv, TablesOK, Fits
<1> QED BY <1>1, Owned, AsHeld

LEMMA SetsOnboarded ==
  ASSUME VInv, VInv', NEW s \in Students, students[s] # None, NEW at \in Nat,
         CompleteOnboarding(s, at), UNCHANGED now
  PROVE  (\E e \in Emails : L!Date(e, "onboarded")) \/ UNCHANGED <<accounts, tickets>>
<1> DEFINE e == students[s].email
           row == [students[s] EXCEPT !.onboarded = Once(students[s].onboarded, at)]
<1>1. /\ students[s] \in StudentRows /\ UNCHANGED <<sessions, enrolled>>
      /\ students' = [students EXCEPT ![s] = row]
  BY DEF VInv, TablesOK, CompleteOnboarding
<1>2. /\ row \in StudentRows /\ row # None /\ row.email = e
      /\ row.onboarded = Once(students[s].onboarded, at)
  BY <1>1, NoneAssumption DEF StudentRows, Dates, Once
<1>3. CASE students[s].onboarded # None
  <2>1. row = students[s]
    BY <1>1, <1>3 DEF StudentRows, Once
  <2>2. UNCHANGED <<students, enrolled, sessions>>
    BY <1>1, <2>1 DEF VInv, TablesOK
  <2> QED BY <2>2, AccountsStay, TicketsStay
<1>4. CASE students[s].onboarded = None
  <2> HIDE DEF row
  <2>1. \A t \in Students : students'[t] = IF t = s THEN row ELSE students[t]
    BY <1>1 DEF VInv, TablesOK
  <2>2. row.onboarded = at
    BY <1>2, <1>4 DEF Once
  <2>3. /\ e \in Emails /\ accounts[e] # None
        /\ accounts[e] = [onboarded |-> None, enrolled |-> enrolled[s]]
    BY <1>4, HasAccount
  <2> HIDE DEF e
  <2>4. accounts' = [accounts EXCEPT ![e] = [onboarded |-> at, enrolled |-> enrolled[s]]]
    BY <1>1, <1>2, <2>1, <2>2, OneAccount DEF e
  <2>5. UNCHANGED tickets
    BY <1>1, <1>2, <2>1, TicketsStay DEF e
  <2>6. L!Date(e, "onboarded")
    <3>1. accounts'[e] = [onboarded |-> at, enrolled |-> enrolled[s]]
      BY <2>3, <2>4, AsHeld
    <3>2. accounts[e]["onboarded"] = None /\ accounts'[e]["onboarded"] = at /\ at # None
      BY <2>3, <3>1, NoneAssumption
    <3>3. [accounts[e] EXCEPT !["onboarded"] = at] = [onboarded |-> at, enrolled |-> enrolled[s]]
      BY <2>3
    <3> QED BY <2>3, <2>4, <2>5, <3>2, <3>3 DEF L!Date
  <2> QED BY <2>3, <2>6
<1> QED BY <1>3, <1>4

LEMMA SetsEnrolled ==
  ASSUME VInv, VInv', NEW s \in Students, students[s] # None, NEW at \in Nat,
         Enroll(s, at), UNCHANGED now
  PROVE  (\E e \in Emails : L!Date(e, "enrolled")) \/ UNCHANGED <<accounts, tickets>>
<1> DEFINE e == students[s].email
<1>1. /\ UNCHANGED <<sessions, students>>
      /\ \A t \in Students : enrolled'[t] = IF t = s THEN Once(enrolled[s], at) ELSE enrolled[t]
      /\ enrolled' = [enrolled EXCEPT ![s] = Once(@, at)]
  BY DEF VInv, TablesOK, Enroll
<1>2. UNCHANGED tickets
  BY <1>1, TicketsStay
<1>3. CASE enrolled[s] # None
  <2>1. UNCHANGED enrolled
    BY <1>1, <1>3 DEF VInv, TablesOK, Once
  <2> QED BY <1>1, <1>2, <2>1, AccountsStay
<1>4. CASE enrolled[s] = None
  <2>1. enrolled'[s] = at
    BY <1>1, <1>4 DEF Once
  <2>2. /\ e \in Emails /\ accounts[e] # None
        /\ accounts[e] = [onboarded |-> students[s].onboarded, enrolled |-> None]
    BY <1>4, HasAccount
  <2> HIDE DEF e
  <2>3. accounts' = [accounts EXCEPT ![e] = [onboarded |-> students[s].onboarded, enrolled |-> at]]
    BY <1>1, <2>1, OneAccount DEF e
  <2>4. L!Date(e, "enrolled")
    <3>1. accounts'[e] = [onboarded |-> students[s].onboarded, enrolled |-> at]
      BY <2>2, <2>3, AsHeld
    <3>2. accounts[e]["enrolled"] = None /\ accounts'[e]["enrolled"] = at /\ at # None
      BY <2>2, <3>1, NoneAssumption
    <3>3. [accounts[e] EXCEPT !["enrolled"] = at] =
            [onboarded |-> students[s].onboarded, enrolled |-> at]
      BY <2>2
    <3> QED BY <1>2, <2>2, <2>3, <3>2, <3>3 DEF L!Date
  <2> QED BY <2>2, <2>4
<1> QED BY <1>3, <1>4

LEMMA IssuesTicket ==
  ASSUME VInv, NEW k \in Tokens, NEW s \in Students, students[s] # None, NEW at \in Nat,
         IssueSession(k, s, at), UNCHANGED now
  PROVE  \E e \in Emails : L!Issue(k, e)
<1> DEFINE e == students[s].email
           row == [student |-> s, expires |-> at + Lifetime, revoked |-> None]
           live == ~Over(row, now)
<1>1. /\ sessions[k] = None /\ UNCHANGED <<students, enrolled>>
      /\ sessions' = [sessions EXCEPT ![k] = row]
  BY DEF IssueSession
<1>2. row # None /\ row.student = s
  BY NoneAssumption, AccountsAssumption DEF SessionRows, Dates
<1>3. e \in Emails /\ accounts[e] # None /\ UNCHANGED accounts
  BY <1>1, HasAccount, AccountsStay
<1>4. tickets[k] = None
  BY <1>1, AsHeld DEF Shown
<1>5. live \in BOOLEAN
  BY DEF Over
<1> HIDE DEF row
<1>6. tickets' = [tickets EXCEPT ![k] =
        [owner |-> students[row.student].email, live |-> ~Over(row, now)]]
  BY <1>1, <1>2, OneTicket
<1>7. tickets' = [tickets EXCEPT ![k] = [owner |-> e, live |-> live]]
  BY <1>2, <1>6
<1> HIDE DEF e, live
<1> QED BY <1>3, <1>4, <1>5, <1>7 DEF L!Issue

\* What its holder knows of a session, and how that changes when it ends.
LEMMA TicketEnds ==
  ASSUME NEW owner \in Emails, NEW live \in BOOLEAN, NEW ticket,
         ticket = [owner |-> owner, live |-> live]
  PROVE  /\ ticket # None
         /\ ticket.owner = owner /\ ticket.live = live
         /\ [ticket EXCEPT !.live = FALSE] = [owner |-> owner, live |-> FALSE]
<1>1. ticket \in [owner : Emails, live : BOOLEAN]
  OBVIOUS
<1>2. ticket # None
  BY <1>1, LifeAssumption
<1>3. ticket.owner = owner /\ ticket.live = live
  OBVIOUS
<1>4. ASSUME NEW ended \in BOOLEAN
      PROVE  [ticket EXCEPT !.live = ended] = [owner |-> owner, live |-> ended]
  OBVIOUS
<1> QED BY <1>2, <1>3, <1>4

\* A session a request may revoke: it was live, and is no longer, or nothing changes.
LEMMA RevokesTicket ==
  ASSUME VInv, NEW k \in Tokens, sessions[k] # None, NEW at \in Nat,
         Revoke(k, at), UNCHANGED now
  PROVE  L!End({k}) \/ UNCHANGED <<accounts, tickets>>
<1> DEFINE old == sessions[k]
           row == [old EXCEPT !.revoked = Once(old.revoked, at)]
           owner == students[old.student].email
<1>1. /\ old \in SessionRows /\ UNCHANGED <<students, enrolled>>
      /\ sessions' = [sessions EXCEPT ![k] = row]
  BY DEF Revoke, VInv, TablesOK
<1>2. row # None /\ row.student = old.student /\ row.revoked # None
  BY <1>1, NoneAssumption DEF SessionRows, Dates, Once
<1>3. Over(row, now)
  BY <1>2 DEF Over
<1>4. UNCHANGED accounts
  BY <1>1, AccountsStay
<1> DEFINE live == ~Over(old, now)
<1>5. tickets[k] = [owner |-> owner, live |-> live] /\ live \in BOOLEAN
  BY AsHeld DEF Shown, Over
<1>6. owner \in Emails
  BY <1>1 DEF VInv, TablesOK, SessionRows, StudentRows
<1> HIDE DEF row
<1>7. tickets' = [tickets EXCEPT ![k] =
        [owner |-> students[row.student].email, live |-> ~Over(row, now)]]
  BY <1>1, <1>2, OneTicket
<1>8. tickets' = [tickets EXCEPT ![k] = [owner |-> owner, live |-> FALSE]]
  BY <1>2, <1>3, <1>7
<1> HIDE DEF owner, live
<1>9. CASE ~live
  <2>1. tickets[k] = [owner |-> owner, live |-> FALSE]
    BY <1>5, <1>9
  <2>2. tickets' = tickets
    BY <1>8, <2>1, AsHeld
  <2> QED BY <1>4, <2>2
<1>10. CASE live
  <2>1. tickets[k] # None /\ tickets[k].live
    BY <1>5, <1>6, <1>10, TicketEnds
  <2>2. [tickets[k] EXCEPT !.live = FALSE] = [owner |-> owner, live |-> FALSE]
    BY <1>5, <1>6, TicketEnds
  <2>3. tickets' = [j \in Tokens |-> IF j \in {k} THEN [tickets[j] EXCEPT !.live = FALSE]
                                     ELSE tickets[j]]
    BY <1>8, <2>2, AsHeld
  <2> QED BY <1>4, <2>1, <2>3 DEF L!End
<1> QED BY <1>9, <1>10

\* The clock ends the sessions that expire.
LEMMA TicksTickets == ASSUME VInv, Tick PROVE L!Next
<1> DEFINE ended == {k \in Tokens : tickets[k] # None /\ tickets[k].live
                                   /\ Over(sessions[k], now')}
<1>1. UNCHANGED <<students, sessions, enrolled>> /\ now' = now + 1 /\ now \in Nat
  BY DEF Tick, VInv, accountVars
<1>2. UNCHANGED accounts
  BY <1>1, AccountsStay
<1>3. ASSUME NEW k \in Tokens
      PROVE  tickets'[k] = IF k \in ended THEN [tickets[k] EXCEPT !.live = FALSE] ELSE tickets[k]
  <2>1. CASE sessions[k] = None
    <3>1. tickets[k] = None /\ tickets'[k] = None
      BY <1>1, <2>1, AsHeld DEF Shown
    <3> QED BY <3>1
  <2>2. CASE sessions[k] # None
    <3> DEFINE owner == students[sessions[k].student].email
               live == ~Over(sessions[k], now)
               still == ~Over(sessions[k], now')
               ticket == tickets[k]
    <3>1. owner \in Emails
      BY <2>2 DEF VInv, TablesOK, SessionRows, StudentRows
    <3>2. ticket = [owner |-> owner, live |-> live] /\ live \in BOOLEAN
      BY <2>2, AsHeld DEF Shown, Over
    <3>3. tickets'[k] = [owner |-> owner, live |-> still] /\ still \in BOOLEAN
      BY <1>1, <2>2, AsHeld DEF Shown, Over
    <3>4. sessions[k].expires \in Nat
      BY <2>2 DEF VInv, TablesOK, SessionRows
    <3>5. still => live
      BY <1>1, <3>4 DEF Over
    <3>6. k \in ended <=> ticket # None /\ ticket.live /\ ~still
      OBVIOUS
    <3> HIDE DEF owner, live, still, ticket, ended
    <3>7. /\ ticket # None /\ ticket.live = live
          /\ [ticket EXCEPT !.live = FALSE] = [owner |-> owner, live |-> FALSE]
      BY <3>1, <3>2, TicketEnds
    <3>8. CASE still
      BY <3>2, <3>3, <3>5, <3>6, <3>8 DEF ticket
    <3>9. CASE ~still /\ live
      BY <3>2, <3>3, <3>6, <3>7, <3>9 DEF ticket
    <3>10. CASE ~still /\ ~live
      BY <3>2, <3>3, <3>6, <3>7, <3>10 DEF ticket
    <3> QED BY <3>8, <3>9, <3>10
  <2> QED BY <2>1, <2>2
<1>4. /\ tickets' = [k \in Tokens |-> tickets'[k]]
      /\ \A k \in ended : tickets[k] # None /\ tickets[k].live
      /\ ended \in SUBSET Tokens
  BY AsHeld
<1> HIDE DEF ended
<1>5. tickets' = [k \in Tokens |->
        IF k \in ended THEN [tickets[k] EXCEPT !.live = FALSE] ELSE tickets[k]]
  BY <1>3, <1>4
<1>6. L!End(ended)
  BY <1>2, <1>4, <1>5 DEF L!End
<1> QED BY <1>4, <1>6 DEF L!Next

LEMMA StepKeepsAccounts ==
  ASSUME VInv, VInv', [Next]_vars
  PROVE  L!Next \/ UNCHANGED <<accounts, tickets>>
<1>1. ASSUME UNCHANGED accountVars, UNCHANGED now PROVE UNCHANGED <<accounts, tickets>>
  BY <1>1, AccountsStay, TicketsStay DEF accountVars
<1>2. ASSUME NEW r \in Requests,
             \/ Arrive(r) \/ Body(r) \/ Fail(r) \/ Lookup(r) \/ Find(r) \/ Enrollment(r)
             \/ Guard(r) \/ Practise(r) \/ Reserve(r) \/ Reply(r) \/ Deadline(r) \/ Settle(r)
             \/ Run(r)
      PROVE  UNCHANGED accountVars /\ UNCHANGED now
  BY <1>2 DEF Arrive, Body, Fail, Lookup, Find, Enrollment, Guard, Practise, Reserve, Reply,
              Deadline, Settle, Run
<1>3. ASSUME NEW r \in Requests, Create(r) PROVE L!Next \/ UNCHANGED <<accounts, tickets>>
  <2>1. CASE UNCHANGED accountVars
    BY <1>1, <1>3, <2>1 DEF Create
  <2>2. ASSUME NEW s \in Students, CreateStudent(s, reqs[r].email) PROVE L!Next
    <3> DEFINE e == reqs[r].email
    <3>1. e \in Emails /\ UNCHANGED now
      BY <1>3, OfOne DEF Create, Stands
    <3>2. CreateStudent(s, e)
      BY <2>2
    <3> HIDE DEF e
    <3>3. L!Join(e)
      BY <3>1, <3>2, Joins
    <3> QED BY <3>1, <3>3 DEF L!Next
  <2> QED BY <1>3, <2>1, <2>2 DEF Create
<1>4. ASSUME NEW r \in Requests, reqs[r].pc \in Placed
      PROVE  reqs[r].student \in Students /\ students[reqs[r].student] # None /\ reqs[r].at \in Nat
  BY <1>4, OfOne DEF Stands, Calls
<1>5. ASSUME NEW r \in Requests, Issue(r) PROVE L!Next
  <2> DEFINE s == reqs[r].student
             at == reqs[r].at
  <2>1. PICK k \in Tokens : IssueSession(k, s, at)
    BY <1>5 DEF Issue
  <2>2. s \in Students /\ students[s] # None /\ at \in Nat /\ UNCHANGED now
    BY <1>4, <1>5 DEF Issue, Placed
  <2> HIDE DEF s, at
  <2>3. \E e \in Emails : L!Issue(k, e)
    BY <2>1, <2>2, IssuesTicket
  <2> QED BY <2>3 DEF L!Next
<1>6. ASSUME NEW r \in Requests, RevokeSession(r)
      PROVE  L!Next \/ UNCHANGED <<accounts, tickets>>
  <2> DEFINE k == reqs[r].token
             at == reqs[r].at
  <2>1. k \in Tokens /\ sessions[k] # None /\ at \in Nat /\ Revoke(k, at) /\ UNCHANGED now
    BY <1>6, OfOne DEF RevokeSession, Stands, Calls
  <2> HIDE DEF k, at
  <2>2. L!End({k}) \/ UNCHANGED <<accounts, tickets>>
    BY <2>1, RevokesTicket
  <2>3. {k} \in SUBSET Tokens
    BY <2>1
  <2> QED BY <2>2, <2>3 DEF L!Next
<1>7. ASSUME NEW r \in Requests, Onboard(r) PROVE L!Next \/ UNCHANGED <<accounts, tickets>>
  <2> DEFINE s == reqs[r].student
             at == reqs[r].at
  <2>1. /\ s \in Students /\ students[s] # None /\ at \in Nat /\ CompleteOnboarding(s, at)
        /\ UNCHANGED now
    BY <1>4, <1>7 DEF Onboard, Placed
  <2> HIDE DEF s, at
  <2>2. (\E e \in Emails : L!Date(e, "onboarded")) \/ UNCHANGED <<accounts, tickets>>
    BY <2>1, SetsOnboarded
  <2> QED BY <2>2 DEF L!Next
<1>8. ASSUME NEW r \in Requests, EnrollStudent(r)
      PROVE  L!Next \/ UNCHANGED <<accounts, tickets>>
  <2> DEFINE s == reqs[r].student
             at == reqs[r].at
  <2>1. /\ s \in Students /\ students[s] # None /\ at \in Nat /\ Enroll(s, at)
        /\ UNCHANGED now
    BY <1>4, <1>8 DEF EnrollStudent, Placed
  <2> HIDE DEF s, at
  <2>2. (\E e \in Emails : L!Date(e, "enrolled")) \/ UNCHANGED <<accounts, tickets>>
    BY <2>1, SetsEnrolled
  <2> QED BY <2>2 DEF L!Next
<1>9. CASE UNCHANGED vars
  BY <1>1, <1>9 DEF vars, serverVars
<1>10. CASE Tick
  BY <1>10, TicksTickets
<1>11. ASSUME NEW r \in Requests, Arrive(r) \/ Serve(r) \/ Run(r)
       PROVE  L!Next \/ UNCHANGED <<accounts, tickets>>
  BY <1>1, <1>2, <1>3, <1>5, <1>6, <1>7, <1>8, <1>11 DEF Serve
<1> QED BY <1>9, <1>10, <1>11 DEF Next

LEMMA AccountsBegin == Init => L!Init
<1> SUFFICES ASSUME Init PROVE L!Init
  OBVIOUS
<1>1. VInv
  BY Begins
<1>2. PICK fresh \in SUBSET DOMAIN Known : AccountsInit(Known, fresh)
  BY DEF Init
<1>3. ASSUME NEW s \in Students, students[s] # None
      PROVE  students[s].onboarded = None /\ enrolled[s] \in {0, None}
  BY <1>2, <1>3 DEF AccountsInit
<1>4. ASSUME NEW e \in Emails
      PROVE  accounts[e] \in {None, L!Fresh} \cup {[onboarded |-> None, enrolled |-> 0]}
  <2>1. CASE Owner(e) = {}
    BY <2>1 DEF accounts, Account
  <2>2. CASE Owner(e) # {}
    <3>1. PICK s \in Students : students[s] # None /\ students[s].email = e
      BY <2>2 DEF Owner
    <3>2. accounts[e] = [onboarded |-> students[s].onboarded, enrolled |-> enrolled[s]]
      BY <1>1, <3>1, HasAccount
    <3> QED BY <1>3, <3>1, <3>2 DEF L!Fresh
  <2> QED BY <2>1, <2>2
<1>5. accounts \in [Emails -> {None, L!Fresh} \cup {[onboarded |-> None, enrolled |-> 0]}]
  <2>1. accounts = [e \in Emails |-> accounts[e]]
    BY AsHeld
  <2> QED BY <1>4, <2>1
<1>6. ASSUME NEW k \in Tokens, tickets[k] # None
      PROVE  accounts[tickets[k].owner] # None
  <2>1. sessions[k] # None
    BY <1>6, AsHeld DEF Shown
  <2> DEFINE s == sessions[k].student
  <2>2. s \in Students /\ students[s] # None
    BY <1>1, <2>1 DEF VInv, TablesOK, SessionRows
  <2>3. tickets[k].owner = students[s].email
    BY <2>1, AsHeld DEF Shown
  <2> HIDE DEF s
  <2> QED BY <1>1, <2>2, <2>3, HasAccount
<1> QED BY <1>5, <1>6 DEF L!Init

\* The tables implement AccountLife, however sign-ups, log-ins, enrollments and the clock
\* interleave: one account an email, dates that stay, sessions that end for good.
THEOREM AccountsKept == Spec => KeepsAccounts
<1>1. Init => L!Init
  BY AccountsBegin
<1>2. VInv /\ VInv' /\ [Next]_vars => [L!Next]_<<accounts, tickets>>
  BY StepKeepsAccounts
<1>3. Spec => L!Init /\ [][L!Next]_<<accounts, tickets>>
  BY <1>1, <1>2, VInvHolds, PTL DEF Spec
<1> QED BY <1>3 DEF KeepsAccounts, L!Spec, L!vars

=============================================================================
