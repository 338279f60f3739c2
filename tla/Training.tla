------------------------------ MODULE Training ------------------------------
(***************************************************************************)
(* Training sessions of one student's enrollment.  A session is a row on   *)
(* one practice block, and its questions are ordinary attempts allocated   *)
(* into that block.  The handlers that start a session, ask for its next   *)
(* question and finish it run on several server processes; each process    *)
(* runs its operations on one enrollment, or on one session, one after     *)
(* another, and processes meet only in the database.                       *)
(*                                                                         *)
(* The attempts are AttemptTable's: Practice shows that its handlers open  *)
(* and close them so.  A request's pc stands before its next statement.    *)
(***************************************************************************)
EXTENDS Integers, FiniteSets

CONSTANTS None, Attempts, Questions, Sessions, Systems, Plans, Servers, Requests, MaxTime

VARIABLES
  now,        \* the clock
  table,      \* the attempts
  sessions,   \* training_sessions, each with its practice block
  reqs,       \* the requests being served
  ahead,      \* the operations each waits for: those before it on its key, in its process
  late        \* history: inserts in flight whose session was completed after they read it

vars == <<now, table, sessions, reqs, ahead, late>>

T == INSTANCE AttemptTable WITH Blocks <- Sessions

ASSUME AttemptsAssumption == IsFiniteSet(Attempts)

\* A session ends after a number of questions or after a time.
Configs ==
  {p \in [questions : Nat \cup {None}, time : Nat \cup {None}] :
     p.questions # None <=> p.time = None}

ASSUME PlanAssumption == Plans \subseteq Configs

SessionRows ==
  [system : Systems, plan : Plans, startedAt : Nat, status : {"active", "completed"}]

ASSUME NoneAssumption == None \notin Sessions \cup SessionRows

\* What an operation excludes others on: the sessions of the enrollment, or one session.
Enrollment == "enrollment"
Idle ==
  [pc |-> "idle", step |-> "none", server |-> None, session |-> None, system |-> None,
   plan |-> None, question |-> None, at |-> 0]

StartPcs == {"find", "select", "create", "refind"}

SessionPcs == {"load", "attempts", "resume", "precheck", "allocate", "insert", "retry",
               "complete"}

InFlight == {"asked", "queued"} \cup StartPcs \cup SessionPcs

Ended == {"done", "failed"}

RequestStates ==
  [pc : {"idle"} \cup InFlight \cup Ended, step : {"none", "start", "next", "finish"},
   server : Servers \cup {None}, session : Sessions \cup {None}, system : Systems \cup {None},
   plan : Plans \cup {None}, question : Questions \cup {None}, at : Nat]

TypeOK ==
  /\ now \in Nat
  /\ T!TypeOK
  /\ sessions \in [Sessions -> SessionRows \cup {None}]
  /\ reqs \in [Requests -> RequestStates]
  /\ ahead \in [Requests -> SUBSET Requests]
  /\ late \in SUBSET Requests

Init ==
  /\ now = 0
  /\ T!Init
  /\ sessions = [b \in Sessions |-> None]
  /\ reqs = [r \in Requests |-> Idle]
  /\ ahead = [r \in Requests |-> {}]
  /\ late = {}

Active == {b \in Sessions : sessions[b] # None /\ sessions[b].status = "active"}

OpenIn(b) == {a \in T!In(b) : T!IsOpen(a)}

Asked(b) == {table[a].question : a \in T!In(b)}

\* The attempts of session b that count as completed questions.
Completed(b) == {a \in T!In(b) : table[a].status \in {"submitted", "skipped"}}

Key(r) ==
  <<reqs[r].server, IF reqs[r].step = "start" THEN Enrollment ELSE reqs[r].session>>

\* The operations that have joined the tail of their key and have not settled.
InLine == {r \in Requests : reqs[r].pc \in InFlight \ {"asked"}}

\* No operation waits for r any longer.
Released(r) == [x \in Requests |-> IF x = r THEN {} ELSE ahead[x] \ {r}]

\* Request r ends and lets the next operation on its key in; r is then free for another.
End(r, pc) ==
  /\ reqs' = [reqs EXCEPT ![r] = [Idle EXCEPT !.pc = pc]]
  /\ ahead' = Released(r)

Goto(r, pc) ==
  /\ reqs' = [reqs EXCEPT ![r].pc = pc]
  /\ UNCHANGED ahead

-----------------------------------------------------------------------------
(* Requests arrive, and wait for their turn.                               *)

AskStart(r, s, system, plan) ==
  /\ reqs[r].pc \notin InFlight
  /\ reqs' = [reqs EXCEPT ![r] =
       [Idle EXCEPT !.pc = "asked", !.step = "start", !.server = s, !.system = system,
                    !.plan = plan, !.at = now]]
  /\ UNCHANGED <<now, table, sessions, ahead, late>>

\* The session is known to the client, and belongs to it.  The time of a finish is only
\* that of the session's end.
AskSession(r, s, step, b) ==
  /\ reqs[r].pc \notin InFlight
  /\ sessions[b] # None
  /\ reqs' = [reqs EXCEPT ![r] =
       [Idle EXCEPT !.pc = "asked", !.step = step, !.server = s, !.session = b,
                    !.at = IF step = "next" THEN now ELSE 0]]
  /\ UNCHANGED <<now, table, sessions, ahead, late>>

\* serialized: the request becomes the tail of its key.
Wait(r) ==
  /\ reqs[r].pc = "asked"
  /\ ahead' = [ahead EXCEPT ![r] = {x \in InLine : Key(x) = Key(r)}]
  /\ reqs' = [reqs EXCEPT ![r].pc = "queued"]
  /\ UNCHANGED <<now, table, sessions, late>>

\* Mutant of First: operations on one key are not serialized.
Anytime(r) == TRUE

\* The operations before r on its key have settled.
First(r) == ahead[r] = {}

Enter(r) ==
  /\ reqs[r].pc = "queued"
  /\ First(r)
  /\ Goto(r, IF reqs[r].step = "start" THEN "find" ELSE "load")
  /\ UNCHANGED <<now, table, sessions, late>>

-----------------------------------------------------------------------------
(* Starting a session.                                                     *)

\* An active session of the same system is resumed, one of another system is in the way.
Resumes(r) ==
  \E b \in Active : End(r, IF sessions[b].system = reqs[r].system THEN "done" ELSE "failed")

FindActive(r) ==
  /\ reqs[r].pc = "find"
  /\ Resumes(r) \/ (Active = {} /\ Goto(r, "select"))
  /\ UNCHANGED <<now, table, sessions, late>>

\* The system's provider finds it applicable, with a question to serve, or does not.
Select(r) ==
  /\ reqs[r].pc = "select"
  /\ Goto(r, "create") \/ End(r, "failed")
  /\ UNCHANGED <<now, table, sessions, late>>

Insert(r, b) ==
  /\ sessions[b] = None
  /\ sessions' = [sessions EXCEPT ![b] =
       [system |-> reqs[r].system, plan |-> reqs[r].plan, startedAt |-> reqs[r].at,
        status |-> "active"]]

\* Mutant of Create: the transaction does not look for an active session.
CreateUnchecked(r) ==
  /\ reqs[r].pc = "create"
  /\ \E b \in Sessions : Insert(r, b)
  /\ End(r, "done")
  /\ UNCHANGED <<now, table, late>>

\* The serializable transaction looks again before it inserts; a conflict, with a session
\* that is there or is being inserted, leads to a re-read.
Create(r) ==
  /\ reqs[r].pc = "create"
  /\ \/ Active = {} /\ (\E b \in Sessions : Insert(r, b)) /\ End(r, "done")
     \/ UNCHANGED sessions /\ Goto(r, "refind")
  /\ UNCHANGED <<now, table, late>>

Refind(r) ==
  /\ reqs[r].pc = "refind"
  /\ Resumes(r) \/ (Active = {} /\ End(r, "failed"))
  /\ UNCHANGED <<now, table, sessions, late>>

-----------------------------------------------------------------------------
(* The next question of a session, and its end.                            *)

\* A session that has ended has no next question, and needs no end.
Load(r) ==
  /\ reqs[r].pc = "load"
  /\ IF reqs[r].session \in Active THEN Goto(r, "attempts") ELSE End(r, "done")
  /\ UNCHANGED <<now, table, sessions, late>>

\* Progress counts the questions completed, and the time to the request's arrival.
Reached(r) ==
  LET b == reqs[r].session  plan == sessions[b].plan IN
  IF plan.time = None THEN Cardinality(Completed(b)) >= plan.questions
  ELSE reqs[r].at - sessions[b].startedAt >= plan.time

Serve(r, question) ==
  /\ reqs' = [reqs EXCEPT ![r] = [@ EXCEPT !.pc = "resume", !.question = question, !.at = 0]]
  /\ UNCHANGED ahead

\* The attempts of the session are read: an open question is served again, a session whose
\* rule is met is completed, or the provider picks a question it has not asked, if any.
ReadForNext(r) ==
  LET b == reqs[r].session IN
  /\ reqs[r].pc = "attempts" /\ reqs[r].step = "next"
  /\ \/ \E a \in OpenIn(b) :
          (\A x \in OpenIn(b) : table[a].place <= table[x].place) /\ Serve(r, table[a].question)
     \/ OpenIn(b) = {} /\ Reached(r) /\ Goto(r, "complete")
     \/ /\ OpenIn(b) = {} /\ ~Reached(r)
        /\ End(r, "done") \/ \E question \in Questions \ Asked(b) : Serve(r, question)
  /\ UNCHANGED <<now, table, sessions, late>>

ReadForFinish(r) ==
  /\ reqs[r].pc = "attempts" /\ reqs[r].step = "finish"
  /\ IF OpenIn(reqs[r].session) = {} THEN Goto(r, "complete") ELSE End(r, "failed")
  /\ UNCHANGED <<now, table, sessions, late>>

\* findResumableAttempt: an open attempt on the question is served if it is this session's,
\* and refused if it is not.
ResumeAttempt(r) ==
  \E a \in T!OpenOn(reqs[r].question) :
    End(r, IF table[a].block = reqs[r].session THEN "done" ELSE "failed")

FindAttempt(r) ==
  /\ reqs[r].pc = "resume"
  /\ ResumeAttempt(r) \/ (T!OpenOn(reqs[r].question) = {} /\ Goto(r, "precheck"))
  /\ UNCHANGED <<now, table, sessions, late>>

\* PracticeLoopService looks at the block before it saves.
Precheck(r) ==
  /\ reqs[r].pc = "precheck"
  /\ IF reqs[r].session \in Active THEN Goto(r, "allocate") ELSE End(r, "failed")
  /\ UNCHANGED <<now, table, sessions, late>>

\* Mutant of Allocate: the transaction trusts the check made before it.
AllocateUnchecked(r) ==
  /\ reqs[r].pc = "allocate"
  /\ Goto(r, "insert") \/ Goto(r, "retry")
  /\ UNCHANGED <<now, table, sessions, late>>

\* The transaction that inserts the attempt looks at the block again, in its snapshot.
Allocate(r) ==
  /\ reqs[r].pc = "allocate"
  /\ \/ reqs[r].session \in Active /\ Goto(r, "insert")
     \/ reqs[r].session \notin Active /\ End(r, "failed")
     \/ Goto(r, "retry")
  /\ UNCHANGED <<now, table, sessions, late>>

\* Mutant of Commit: nothing makes an open attempt on the question a conflict.
CommitAnyway(r) ==
  /\ reqs[r].pc = "insert"
  /\ \E a \in Attempts :
       /\ table[a] = None
       /\ table' = [table EXCEPT ![a] =
            [question |-> reqs[r].question, status |-> "in_progress", block |-> reqs[r].session,
             place |-> T!NextPlace(reqs[r].session)]]
  /\ End(r, "done")
  /\ late' = late \ {r}
  /\ UNCHANGED <<now, sessions>>

\* The transaction commits.  An attempt on the question or in the block that came after its
\* snapshot is a conflict, and leads to a re-read.  A session completed since is none: its
\* completion reads no attempt, so that the two are serializable, this one first.
Commit(r) ==
  /\ reqs[r].pc = "insert"
  /\ \/ (\E a \in Attempts : T!Open(a, reqs[r].question, reqs[r].session)) /\ End(r, "done")
     \/ UNCHANGED table /\ Goto(r, "retry")
  /\ late' = late \ {r}
  /\ UNCHANGED <<now, sessions>>

Retry(r) ==
  /\ reqs[r].pc = "retry"
  /\ ResumeAttempt(r) \/ (T!OpenOn(reqs[r].question) = {} /\ End(r, "failed"))
  /\ UNCHANGED <<now, table, sessions, late>>

\* completeIfActive: a session that another request has ended is read again.
Complete(r) ==
  LET b == reqs[r].session IN
  /\ reqs[r].pc = "complete"
  /\ sessions' = IF b \notin Active THEN sessions
                 ELSE [sessions EXCEPT ![b].status = "completed"]
  /\ late' = IF b \notin Active THEN late
             ELSE late \cup {x \in Requests : reqs[x].pc = "insert" /\ reqs[x].session = b}
  /\ End(r, "done")
  /\ UNCHANGED <<now, table>>

-----------------------------------------------------------------------------
\* Mutant of Fail: an operation that throws is not the end of its turn.
FailInTurn(r) ==
  /\ reqs[r].pc \in InFlight
  /\ reqs' = [reqs EXCEPT ![r] = [Idle EXCEPT !.pc = "failed"]]
  /\ UNCHANGED <<now, table, sessions, ahead, late>>

\* A statement fails or the process stops: what has been committed stays.
Fail(r) ==
  /\ reqs[r].pc \in InFlight
  /\ End(r, "failed")
  /\ late' = late \ {r}
  /\ UNCHANGED <<now, table, sessions>>

\* Ordinary practice opens attempts outside any block, and closes attempts of both kinds.
Practise ==
  /\ \E a \in Attempts :
       \/ \E question \in Questions : T!Open(a, question, None)
       \/ \E status \in {"submitted", "skipped"} : T!Close(a, status)
  /\ UNCHANGED <<now, sessions, reqs, ahead, late>>

Tick ==
  /\ now < MaxTime
  /\ now' = now + 1
  /\ UNCHANGED <<table, sessions, reqs, ahead, late>>

Ask(r) ==
  \E s \in Servers :
    \/ \E system \in Systems, plan \in Plans : AskStart(r, s, system, plan)
    \/ \E b \in Sessions, step \in {"next", "finish"} : AskSession(r, s, step, b)

Run(r) ==
  \/ Wait(r) \/ Enter(r) \/ FindActive(r) \/ Select(r) \/ Create(r) \/ Refind(r)
  \/ Load(r) \/ ReadForNext(r) \/ ReadForFinish(r) \/ FindAttempt(r) \/ Precheck(r)
  \/ Allocate(r) \/ Commit(r) \/ Retry(r) \/ Complete(r)

Next ==
  \/ \E r \in Requests : Ask(r) \/ Run(r) \/ Fail(r)
  \/ Practise
  \/ Tick

Spec == Init /\ [][Next]_vars

\* A request being served goes on.  Nothing says that one arrives.
FairSpec == Spec /\ \A r \in Requests : WF_vars(Run(r))

-----------------------------------------------------------------------------
(* Properties.                                                             *)

\* The enrollment has at most one active session, whichever processes start one.  Reading
\* two would make findActiveByEnrollmentId, and with it every later start, fail.
OneActive == Cardinality(Active) <= 1

\* An attempt enters a session's block only while the session is active, although the
\* session can be completed while the question is being chosen.  The exception is a
\* transaction that had read the block active before it was completed: each such
\* transaction, and no other, can still bring one attempt into a session that has ended.
AllocatedWhileActive ==
  [][\A a \in Attempts :
       table[a] = None /\ table'[a] # None /\ table'[a].block # None =>
         \/ table'[a].block \in Active
         \/ \E r \in late : reqs[r].session = table'[a].block /\ r \notin late']_table

\* Whatever the handlers do, the attempts remain what the table promises: each block
\* numbers its attempts in order, and no question has two open ones.
KeepsTable == T!Spec

\* What serializing the operations on a session buys within one process: its questions
\* come one at a time, and none is left open by its end.
InTurn ==
  \A b \in Sessions :
    /\ Cardinality(OpenIn(b)) <= 1
    /\ sessions[b] # None /\ sessions[b].status = "completed" => OpenIn(b) = {}

\* No request waits for ever, although the operations before it may fail.
Answered == \A r \in Requests : reqs[r].pc \in InFlight ~> reqs[r].pc \in Ended

=============================================================================
