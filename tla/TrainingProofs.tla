--------------------------- MODULE TrainingProofs ---------------------------
(***************************************************************************)
(* For any number of sessions, questions, requests and processes: the      *)
(* training handlers keep at most one session active and the promise of    *)
(* the attempts table; and within one process they keep a session's turns. *)
(***************************************************************************)
EXTENDS Training, FiniteSetTheorems, WellFoundedInduction, TLAPS

\* A request past the queue of its key.
Inside == StartPcs \cup SessionPcs

\* A request with a question to serve.
Serving == {"resume", "precheck", "allocate", "insert", "retry"}

\* What a request in flight knows, when the sessions are rows.
SoundIn(rows, q) ==
  q.pc \in InFlight =>
    /\ q.server \in Servers
    /\ q.step \in {"start", "next", "finish"}
    /\ q.step = "start" => q.system \in Systems /\ q.plan \in Plans /\ q.pc \notin SessionPcs
    /\ q.step # "start" => q.session \in Sessions /\ rows[q.session] # None /\ q.pc \notin StartPcs
    /\ q.pc \in Serving => q.question \in Questions

AtMostOneActive == \A b, c \in Active : b = c

TInv == TypeOK /\ AtMostOneActive /\ \A r \in Requests : SoundIn(sessions, reqs[r])

-----------------------------------------------------------------------------
(* The largest of a finite set of numbers.                                 *)

\* The order of the naturals, as a relation.
LEMMA Order ==
  \E R : IsWellFoundedOn(R, Nat) /\ \A m, n \in Nat : n < m => <<n, m>> \in R
<1> DEFINE R == OpToRel(<, Nat)
<1>1. IsWellFoundedOn(R, Nat)
  BY NatLessThanWellFounded
<1>2. \A m, n \in Nat : n < m => <<n, m>> \in R
  BY DEF OpToRel
<1> HIDE DEF R
<1> WITNESS R
<1> QED BY <1>1, <1>2

\* A set of naturals that is not empty has a least element.
LEMMA Least ==
  ASSUME NEW S \in SUBSET Nat, S # {}
  PROVE  \E m \in S : \A n \in S : m <= n
<1>0. \A n \in S : n \in Nat
  OBVIOUS
<1>1. PICK R : IsWellFoundedOn(R, Nat) /\ \A m, n \in Nat : n < m => <<n, m>> \in R
  BY Order
<1>2. \E m \in S : \A n \in S : ~(<<n, m>> \in R)
  BY <1>1, WFMin
<1>3. PICK m \in S : \A n \in S : ~(<<n, m>> \in R)
  BY <1>2
<1>4. ASSUME NEW n \in S PROVE m <= n
  <2>1. m \in Nat /\ n \in Nat
    BY <1>0
  <2>2. ~(n < m)
    BY <1>1, <1>3, <2>1
  <2> QED BY <2>1, <2>2
<1> QED BY <1>4

\* A finite set of naturals is bounded: the least prefix of an enumeration that is not
\* would be one longer than a prefix that is.
LEMMA FiniteIsBounded ==
  ASSUME NEW S \in SUBSET Nat, IsFiniteSet(S)
  PROVE  \E n \in Nat : \A x \in S : x <= n
<1>0. PICK k \in Nat : ExistsSurjection(1..k, S)
  BY FS_NatSurjection
<1>1. PICK f : f \in Surjection(1..k, S)
  BY <1>0 DEF ExistsSurjection
<1> DEFINE Unbounded == {i \in 0..k : ~ \E n \in Nat : \A j \in 1..i : f[j] <= n}
<1>2. \A j \in 1..k : f[j] \in Nat
  <2>1. \A n \in S : n \in Nat
    OBVIOUS
  <2> QED BY <1>1, <2>1 DEF Surjection
<1>3. SUFFICES ASSUME Unbounded # {} PROVE FALSE
  <2>1. k \notin Unbounded
    BY <1>3
  <2>2. PICK n \in Nat : \A j \in 1..k : f[j] <= n
    BY <2>1
  <2> QED BY <1>1, <2>2 DEF Surjection
<1>4. PICK i \in Unbounded : \A j \in Unbounded : i <= j
  <2>1. Unbounded \in SUBSET Nat
    OBVIOUS
  <2> HIDE DEF Unbounded
  <2> QED BY <1>3, <2>1, Least
<1>5. i # 0
  <2>1. \A j \in 1..0 : f[j] <= 0
    OBVIOUS
  <2> QED BY <2>1
<1>6. i - 1 \in 0..k /\ i \in 1..k /\ i - 1 \notin Unbounded
  <2>1. i \in 0..k /\ i - 1 \in 0..k /\ i \in 1..k /\ ~(i <= i - 1)
    BY <1>5
  <2> QED BY <1>4, <2>1
<1>7. PICK n \in Nat : \A j \in 1..(i - 1) : f[j] <= n
  BY <1>6
<1>8. n + f[i] \in Nat /\ \A j \in 1..i : f[j] <= n + f[i]
  <2>1. \A j \in 1..i : j \in 1..(i - 1) \/ j = i
    BY <1>6
  <2>2. f[i] \in Nat /\ \A j \in 1..i : f[j] \in Nat
    BY <1>2, <1>6
  <2> QED BY <1>7, <2>1, <2>2
<1> QED BY <1>4, <1>8

\* Max of a finite set of naturals that is not empty is its largest element.
LEMMA MaxOfFinite ==
  ASSUME NEW S \in SUBSET Nat, IsFiniteSet(S), S # {}
  PROVE  T!Max(S) \in S /\ \A n \in S : T!Max(S) >= n
<1> DEFINE Bounds == {n \in Nat : \A x \in S : x <= n}
<1>0. \A n \in S : n \in Nat
  OBVIOUS
<1>1. PICK m \in Bounds : \A n \in Bounds : m <= n
  <2>1. Bounds # {} /\ Bounds \in SUBSET Nat
    BY FiniteIsBounded
  <2> HIDE DEF Bounds
  <2> QED BY <2>1, Least
<1>2. m \in S
  <2> SUFFICES ASSUME m \notin S PROVE FALSE
    OBVIOUS
  <2>1. \A x \in S : x < m
    BY <1>0
  <2>2. PICK x \in S : x \in Nat /\ x < m
    BY <1>0, <2>1
  <2>3. m - 1 \in Bounds
    BY <1>0, <2>1, <2>2
  <2> QED BY <1>1, <2>3
<1>3. \E x \in S : \A y \in S : x >= y
  BY <1>0, <1>2
<1> QED BY <1>3 DEF T!Max

\* A block's next number is a number.
LEMMA NextPlaceType ==
  ASSUME T!TypeOK, NEW b \in Sessions \cup {None}
  PROVE  T!NextPlace(b) \in Nat
<1> DEFINE Places == {table[a].place : a \in T!In(b)}
           f == [a \in T!In(b) |-> table[a].place]
<1>1. IsFiniteSet(T!In(b))
  BY AttemptsAssumption, FS_Subset DEF T!In
<1>2. f \in Surjection(T!In(b), Places)
  BY DEF Surjection
<1>3. IsFiniteSet(Places \cup {0})
  <2>1. IsFiniteSet(Places)
    <3> HIDE DEF f, Places
    <3> QED BY <1>1, <1>2, FS_Surjection
  <2> HIDE DEF Places
  <2> QED BY <2>1, FS_AddElement
<1>4. Places \cup {0} \in SUBSET Nat
  BY DEF T!TypeOK, T!Rows, T!In
<1>5. T!Max(Places \cup {0}) \in Nat
  <2> HIDE DEF Places
  <2> QED BY <1>3, <1>4, MaxOfFinite
<1> QED BY <1>5 DEF T!NextPlace

-----------------------------------------------------------------------------
(* Types, and at most one active session.                                  *)

LEMMA InitTInv ==
  ASSUME Init
  PROVE  TInv
<1>1. T!TypeOK
  BY DEF Init, T!Init, T!TypeOK
<1>2. TypeOK
  BY <1>1 DEF Init, TypeOK, Idle, RequestStates
<1>3. \A r \in Requests : SoundIn(sessions, reqs[r])
  BY DEF Init, SoundIn, Idle, InFlight, StartPcs, SessionPcs
<1>4. AtMostOneActive
  BY DEF Init, AtMostOneActive, Active
<1> QED BY <1>2, <1>3, <1>4 DEF TInv

\* A request moves, and no session disappears.
LEMMA MoveTInv ==
  ASSUME TInv, NEW r \in Requests, NEW q \in RequestStates,
         reqs' = [reqs EXCEPT ![r] = q], SoundIn(sessions', q),
         ahead' \in [Requests -> SUBSET Requests], UNCHANGED now, T!TypeOK',
         late' \in SUBSET Requests, sessions' \in [Sessions -> SessionRows \cup {None}],
         \A b \in Sessions : sessions[b] # None => sessions'[b] # None,
         AtMostOneActive'
  PROVE  TInv'
<1>1. \A p \in Requests : reqs'[p] = IF p = r THEN q ELSE reqs[p]
  BY DEF TInv, TypeOK
<1>2. TypeOK'
  BY DEF TInv, TypeOK
<1>3. ASSUME NEW p \in Requests
      PROVE  SoundIn(sessions, reqs[p])'
  <2>1. CASE p = r
    BY <1>1, <2>1
  <2>2. CASE p # r
    <3>1. reqs'[p] = reqs[p] /\ SoundIn(sessions, reqs[p])
      BY <1>1, <2>2 DEF TInv
    <3> QED BY <3>1 DEF SoundIn
  <2> QED BY <2>1, <2>2
<1> QED BY <1>2, <1>3 DEF TInv

\* A request that ends leaves a record that nothing depends on.
LEMMA EndFacts ==
  ASSUME TInv, NEW r \in Requests, NEW pc \in Ended, End(r, pc), NEW rows
  PROVE  /\ [Idle EXCEPT !.pc = pc] \in RequestStates
         /\ reqs' = [reqs EXCEPT ![r] = [Idle EXCEPT !.pc = pc]]
         /\ SoundIn(rows, [Idle EXCEPT !.pc = pc])
         /\ ahead' \in [Requests -> SUBSET Requests]
<1>1. [Idle EXCEPT !.pc = pc] \in RequestStates /\ [Idle EXCEPT !.pc = pc].pc = pc
  BY DEF Idle, RequestStates
<1>2. pc \notin InFlight
  BY DEF Ended, InFlight, StartPcs, SessionPcs
<1>3. ahead' \in [Requests -> SUBSET Requests]
  BY DEF End, Released, TInv, TypeOK
<1> QED BY <1>1, <1>2, <1>3 DEF End, SoundIn

LEMMA EndTInv ==
  ASSUME TInv, NEW r \in Requests, NEW pc \in Ended, End(r, pc),
         late' \in SUBSET Requests, UNCHANGED <<now, table, sessions>>
  PROVE  TInv'
<1>1. T!TypeOK' /\ AtMostOneActive' /\ sessions' \in [Sessions -> SessionRows \cup {None}]
  BY DEF TInv, TypeOK, T!TypeOK, AtMostOneActive, Active
<1> DEFINE q == [Idle EXCEPT !.pc = pc]
<1>2. /\ q \in RequestStates /\ reqs' = [reqs EXCEPT ![r] = q]
      /\ SoundIn(sessions', q) /\ ahead' \in [Requests -> SUBSET Requests]
  BY EndFacts
<1> HIDE DEF q
<1> QED BY <1>1, <1>2, MoveTInv

\* A request that goes on keeps what it knows.
LEMMA GoFacts ==
  ASSUME TInv, NEW r \in Requests, reqs[r].pc \in InFlight, NEW pc \in InFlight,
         NEW question \in Questions \cup {None}, NEW at \in Nat,
         reqs[r].step = "start" => pc \notin SessionPcs,
         reqs[r].step # "start" => pc \notin StartPcs,
         pc \in Serving => question \in Questions
  PROVE  LET q == [reqs[r] EXCEPT !.pc = pc, !.question = question, !.at = at] IN
         q \in RequestStates /\ SoundIn(sessions, q)
<1> DEFINE q == [reqs[r] EXCEPT !.pc = pc, !.question = question, !.at = at]
<1>1. reqs[r] \in RequestStates /\ SoundIn(sessions, reqs[r])
  BY DEF TInv, TypeOK
<1>2. /\ q \in RequestStates
      /\ q.pc = pc /\ q.question = question /\ q.step = reqs[r].step
      /\ q.server = reqs[r].server /\ q.system = reqs[r].system /\ q.plan = reqs[r].plan
      /\ q.session = reqs[r].session
  BY <1>1 DEF RequestStates
<1> HIDE DEF q
<1>3. SoundIn(sessions, q)
  BY <1>1, <1>2 DEF SoundIn
<1> QED BY <1>2, <1>3 DEF q

LEMMA GoTInv ==
  ASSUME TInv, NEW r \in Requests, reqs[r].pc \in InFlight, NEW pc \in InFlight,
         NEW question \in Questions \cup {None}, NEW at \in Nat,
         reqs[r].step = "start" => pc \notin SessionPcs,
         reqs[r].step # "start" => pc \notin StartPcs,
         pc \in Serving => question \in Questions,
         reqs' = [reqs EXCEPT ![r] = [reqs[r] EXCEPT !.pc = pc, !.question = question, !.at = at]],
         ahead' \in [Requests -> SUBSET Requests], late' \in SUBSET Requests,
         UNCHANGED <<now, table, sessions>>
  PROVE  TInv'
<1> DEFINE q == [reqs[r] EXCEPT !.pc = pc, !.question = question, !.at = at]
<1>1. q \in RequestStates /\ SoundIn(sessions, q)
  BY GoFacts
<1>2. T!TypeOK' /\ AtMostOneActive' /\ sessions' \in [Sessions -> SessionRows \cup {None}]
  BY DEF TInv, TypeOK, T!TypeOK, AtMostOneActive, Active
<1>3. reqs' = [reqs EXCEPT ![r] = q] /\ SoundIn(sessions', q) /\ UNCHANGED now
  BY <1>1
<1> HIDE DEF q
<1> QED BY <1>1, <1>2, <1>3, MoveTInv

LEMMA GotoTInv ==
  ASSUME TInv, NEW r \in Requests, reqs[r].pc \in InFlight, NEW pc \in InFlight,
         reqs[r].step = "start" => pc \notin SessionPcs,
         reqs[r].step # "start" => pc \notin StartPcs,
         pc \in Serving => reqs[r].question \in Questions,
         Goto(r, pc), late' \in SUBSET Requests, UNCHANGED <<now, table, sessions>>
  PROVE  TInv'
<1>1. reqs[r] \in RequestStates
  BY DEF TInv, TypeOK
<1>2. [reqs[r] EXCEPT !.pc = pc] =
      [reqs[r] EXCEPT !.pc = pc, !.question = reqs[r].question, !.at = reqs[r].at]
  BY <1>1 DEF RequestStates
<1>3. reqs' = [reqs EXCEPT ![r] =
        [reqs[r] EXCEPT !.pc = pc, !.question = reqs[r].question, !.at = reqs[r].at]]
  BY <1>2 DEF Goto
<1>4. reqs[r].question \in Questions \cup {None} /\ reqs[r].at \in Nat
  BY <1>1 DEF RequestStates
<1>5. ahead' \in [Requests -> SUBSET Requests]
  BY DEF Goto, TInv, TypeOK
<1> QED BY <1>3, <1>4, <1>5, GoTInv

\* Opening and closing attempts keeps the table's type.
LEMMA OpenType ==
  ASSUME T!TypeOK, NEW a \in Attempts, NEW q \in Questions, NEW b \in Sessions \cup {None},
         T!Open(a, q, b)
  PROVE  T!TypeOK'
<1> DEFINE row == [question |-> q, status |-> "in_progress", block |-> b, place |-> T!NextPlace(b)]
<1>1. row \in T!Rows
  BY NextPlaceType DEF T!Rows
<1>2. table' = [table EXCEPT ![a] = row]
  BY DEF T!Open
<1> HIDE DEF row
<1> QED BY <1>1, <1>2 DEF T!TypeOK

LEMMA CloseType ==
  ASSUME T!TypeOK, NEW a \in Attempts, NEW status \in T!Final, T!Close(a, status)
  PROVE  T!TypeOK'
<1>1. table[a] \in T!Rows
  BY DEF T!Close, T!IsOpen, T!TypeOK
<1>2. [table[a] EXCEPT !.status = status] \in T!Rows
  BY <1>1 DEF T!Rows
<1>3. table' = [table EXCEPT ![a] = [table[a] EXCEPT !.status = status]]
  BY DEF T!Close
<1> QED BY <1>2, <1>3 DEF T!TypeOK

LEMMA AskTInv ==
  ASSUME TInv, NEW r \in Requests, Ask(r)
  PROVE  TInv'
<1>0. /\ T!TypeOK' /\ AtMostOneActive' /\ sessions' \in [Sessions -> SessionRows \cup {None}]
      /\ ahead' \in [Requests -> SUBSET Requests] /\ UNCHANGED <<now, sessions>> /\ now \in Nat
      /\ late' \in SUBSET Requests
  BY DEF Ask, AskStart, AskSession, TInv, TypeOK, T!TypeOK, AtMostOneActive, Active
<1>1. ASSUME NEW s \in Servers, NEW system \in Systems, NEW plan \in Plans,
             AskStart(r, s, system, plan)
      PROVE  TInv'
  <2> DEFINE q == [Idle EXCEPT !.pc = "asked", !.step = "start", !.server = s,
                               !.system = system, !.plan = plan, !.at = now]
  <2>1. /\ q \in RequestStates /\ q.pc = "asked" /\ q.step = "start" /\ q.server = s
        /\ q.system = system /\ q.plan = plan
    BY <1>0 DEF Idle, RequestStates, InFlight
  <2>2. reqs' = [reqs EXCEPT ![r] = q]
    BY <1>1 DEF AskStart
  <2> HIDE DEF q
  <2>3. SoundIn(sessions', q)
    BY <2>1 DEF SoundIn, SessionPcs, Serving
  <2> QED BY <1>0, <2>1, <2>2, <2>3, MoveTInv
<1>2. ASSUME NEW s \in Servers, NEW b \in Sessions, NEW step \in {"next", "finish"},
             AskSession(r, s, step, b)
      PROVE  TInv'
  <2> DEFINE at == IF step = "next" THEN now ELSE 0
             q == [Idle EXCEPT !.pc = "asked", !.step = step, !.server = s, !.session = b,
                               !.at = at]
  <2>0. at \in Nat
    BY <1>0
  <2>2. reqs' = [reqs EXCEPT ![r] = q] /\ sessions[b] # None
    BY <1>2 DEF AskSession
  <2> HIDE DEF at
  <2>1. /\ q \in RequestStates /\ q.pc = "asked" /\ q.step = step /\ q.server = s
        /\ q.session = b
    BY <2>0 DEF Idle, RequestStates, InFlight
  <2> HIDE DEF q
  <2>3. SoundIn(sessions', q)
    BY <1>0, <2>1, <2>2 DEF SoundIn, StartPcs, Serving
  <2> QED BY <1>0, <2>1, <2>2, <2>3, MoveTInv
<1> QED BY <1>1, <1>2 DEF Ask

\* Waiting, and the steps that read.
LEMMA ReadTInv ==
  ASSUME TInv, NEW r \in Requests,
         \/ Wait(r) \/ Enter(r) \/ FindActive(r) \/ Select(r) \/ Refind(r) \/ Load(r)
         \/ ReadForNext(r) \/ ReadForFinish(r) \/ FindAttempt(r) \/ Precheck(r) \/ Allocate(r)
         \/ Retry(r) \/ Fail(r)
  PROVE  TInv'
<1> DEFINE q == reqs[r]
<1>0. /\ q \in RequestStates /\ SoundIn(sessions, q)
      /\ q.question \in Questions \cup {None} /\ q.at \in Nat
  BY DEF TInv, TypeOK, RequestStates
<1>1. UNCHANGED <<now, table, sessions>> /\ late' \in SUBSET Requests
  BY DEF Wait, Enter, FindActive, Select, Refind, Load, ReadForNext, ReadForFinish, FindAttempt,
         Precheck, Allocate, Retry, Fail, TInv, TypeOK
<1>2. ASSUME NEW pc \in Ended, End(r, pc)
      PROVE  TInv'
  BY <1>1, <1>2, EndTInv
<1>3. CASE Wait(r)
  <2>1. /\ q.pc = "asked" /\ reqs' = [reqs EXCEPT ![r].pc = "queued"]
        /\ ahead' = [ahead EXCEPT ![r] = {x \in InLine : Key(x) = Key(r)}]
    BY <1>3 DEF Wait
  <2>2. ahead' \in [Requests -> SUBSET Requests]
    BY <2>1 DEF TInv, TypeOK, InLine
  <2>3. [q EXCEPT !.pc = "queued"] =
        [q EXCEPT !.pc = "queued", !.question = q.question, !.at = q.at]
    BY <1>0 DEF RequestStates
  <2>4. reqs' = [reqs EXCEPT ![r] =
          [q EXCEPT !.pc = "queued", !.question = q.question, !.at = q.at]]
    BY <2>1, <2>3
  <2>5. "queued" \in InFlight /\ q.pc \in InFlight /\ "queued" \notin StartPcs \cup SessionPcs \cup Serving
    BY <2>1 DEF InFlight, StartPcs, SessionPcs, Serving
  <2> QED BY <1>0, <1>1, <2>2, <2>4, <2>5, GoTInv
<1>4. ASSUME NEW pc \in InFlight, Goto(r, pc), q.pc \in InFlight,
             q.step = "start" => pc \notin SessionPcs,
             q.step # "start" => pc \notin StartPcs,
             pc \in Serving => q.question \in Questions
      PROVE  TInv'
  BY <1>1, <1>4, GotoTInv
<1>5. CASE Enter(r)
  <2> DEFINE pc == IF q.step = "start" THEN "find" ELSE "load"
  <2>1. q.pc \in InFlight /\ Goto(r, pc)
    BY <1>5 DEF Enter, InFlight
  <2>2. /\ pc \in InFlight /\ pc \notin Serving
        /\ q.step = "start" => pc \notin SessionPcs
        /\ q.step # "start" => pc \notin StartPcs
    BY DEF InFlight, StartPcs, SessionPcs, Serving
  <2> HIDE DEF pc
  <2> QED BY <1>4, <2>1, <2>2
<1>6. CASE FindActive(r)
  BY <1>0, <1>2, <1>4, <1>6
     DEF FindActive, Resumes, Ended, InFlight, StartPcs, SessionPcs, Serving, SoundIn
<1>7. CASE Select(r)
  BY <1>0, <1>2, <1>4, <1>7 DEF Select, Ended, InFlight, StartPcs, SessionPcs, Serving, SoundIn
<1>8. CASE Refind(r)
  BY <1>2, <1>8 DEF Refind, Resumes, Ended
<1>9. CASE Load(r)
  BY <1>0, <1>2, <1>4, <1>9 DEF Load, Ended, InFlight, StartPcs, SessionPcs, Serving, SoundIn
<1>10. ASSUME NEW question \in Questions, Serve(r, question), q.pc = "attempts"
       PROVE  TInv'
  <2>1. reqs' = [reqs EXCEPT ![r] = [q EXCEPT !.pc = "resume", !.question = question, !.at = 0]]
    BY <1>10 DEF Serve
  <2>2. ahead' \in [Requests -> SUBSET Requests]
    BY <1>10 DEF Serve, TInv, TypeOK
  <2>3. /\ q.pc \in InFlight /\ "resume" \in InFlight /\ "resume" \notin StartPcs
        /\ q.step # "start"
    BY <1>0, <1>10 DEF InFlight, StartPcs, SessionPcs, SoundIn
  <2> QED BY <1>1, <2>1, <2>2, <2>3, GoTInv
<1>11. CASE ReadForNext(r)
  <2>1. ASSUME NEW a \in OpenIn(q.session)
        PROVE  table[a].question \in Questions
    BY <2>1 DEF OpenIn, T!In, TInv, TypeOK, T!TypeOK, T!Rows
  <2>2. q.pc = "attempts"
    BY <1>11 DEF ReadForNext
  <2>3. CASE Goto(r, "complete")
    BY <1>0, <1>4, <2>2, <2>3 DEF InFlight, StartPcs, SessionPcs, Serving, SoundIn
  <2>4. CASE \E question \in Questions : Serve(r, question)
    BY <1>10, <2>2, <2>4
  <2>5. CASE End(r, "done")
    BY <1>2, <2>5 DEF Ended
  <2> QED BY <1>11, <2>1, <2>3, <2>4, <2>5 DEF ReadForNext
<1>12. CASE ReadForFinish(r)
  BY <1>0, <1>2, <1>4, <1>12
     DEF ReadForFinish, Ended, InFlight, StartPcs, SessionPcs, Serving, SoundIn
<1>13. CASE FindAttempt(r)
  BY <1>0, <1>2, <1>4, <1>13
     DEF FindAttempt, ResumeAttempt, Ended, InFlight, StartPcs, SessionPcs, Serving, SoundIn
<1>14. CASE Precheck(r)
  BY <1>0, <1>2, <1>4, <1>14
     DEF Precheck, Ended, InFlight, StartPcs, SessionPcs, Serving, SoundIn
<1>17. CASE Allocate(r)
  BY <1>0, <1>2, <1>4, <1>17
     DEF Allocate, Ended, InFlight, StartPcs, SessionPcs, Serving, SoundIn
<1>15. CASE Retry(r)
  BY <1>2, <1>15 DEF Retry, ResumeAttempt, Ended
<1>16. CASE Fail(r)
  BY <1>2, <1>16 DEF Fail, Ended
<1> QED BY <1>3, <1>5, <1>6, <1>7, <1>8, <1>9, <1>11, <1>12, <1>13, <1>14, <1>15, <1>16, <1>17

\* Starting a session, when there is none that is active, leaves one.
LEMMA CreateTInv ==
  ASSUME TInv, NEW r \in Requests, Create(r)
  PROVE  TInv'
<1> DEFINE q == reqs[r]
<1>0. /\ q \in RequestStates /\ SoundIn(sessions, q) /\ q.pc = "create" /\ UNCHANGED <<now, table>>
      /\ q.pc \in InFlight /\ q.at \in Nat /\ T!TypeOK'
      /\ sessions \in [Sessions -> SessionRows \cup {None}] /\ late' \in SUBSET Requests
  BY DEF TInv, TypeOK, RequestStates, Create, InFlight, StartPcs, T!TypeOK
<1>1. q.step = "start" /\ q.system \in Systems /\ q.plan \in Plans
  BY <1>0 DEF SoundIn, StartPcs
<1>2. CASE UNCHANGED sessions /\ Goto(r, "refind")
  <2>1. "refind" \in InFlight /\ "refind" \notin SessionPcs \cup Serving
    BY DEF InFlight, StartPcs, SessionPcs, Serving
  <2> QED BY <1>0, <1>1, <1>2, <2>1, GotoTInv
<1>3. ASSUME Active = {}, NEW b \in Sessions, Insert(r, b), End(r, "done")
      PROVE  TInv'
  <2> DEFINE row == [system |-> q.system, plan |-> q.plan, startedAt |-> q.at, status |-> "active"]
             next == [Idle EXCEPT !.pc = "done"]
  <2>1. row \in SessionRows
    BY <1>0, <1>1 DEF SessionRows
  <2>2. sessions' = [sessions EXCEPT ![b] = row] /\ sessions[b] = None
    BY <1>3 DEF Insert
  <2> HIDE DEF row
  <2>3. sessions' \in [Sessions -> SessionRows \cup {None}]
    BY <1>0, <2>1, <2>2
  <2>4. \A c \in Sessions : sessions[c] # None => sessions'[c] # None
    BY <1>0, <2>2
  <2>5. AtMostOneActive'
    <3>1. \A c \in Sessions : c # b => sessions'[c] = sessions[c]
      BY <1>0, <2>2
    <3>2. \A c \in Active' : c = b
      BY <1>3, <3>1 DEF Active
    <3> QED BY <3>2 DEF AtMostOneActive
  <2>6. /\ next \in RequestStates /\ reqs' = [reqs EXCEPT ![r] = next]
        /\ SoundIn(sessions', next) /\ ahead' \in [Requests -> SUBSET Requests]
    BY <1>3, EndFacts DEF Ended
  <2> HIDE DEF next
  <2> QED BY <1>0, <2>3, <2>4, <2>5, <2>6, MoveTInv
<1> QED BY <1>2, <1>3 DEF Create

LEMMA CompleteTInv ==
  ASSUME TInv, NEW r \in Requests, Complete(r)
  PROVE  TInv'
<1> DEFINE b == reqs[r].session
           next == [Idle EXCEPT !.pc = "done"]
<1>0. /\ sessions \in [Sessions -> SessionRows \cup {None}] /\ UNCHANGED <<now, table>>
      /\ T!TypeOK' /\ End(r, "done") /\ AtMostOneActive /\ late' \in SUBSET Requests
      /\ sessions' = IF b \notin Active THEN sessions
                     ELSE [sessions EXCEPT ![b].status = "completed"]
  BY DEF TInv, TypeOK, Complete, T!TypeOK
<1>1. /\ next \in RequestStates /\ reqs' = [reqs EXCEPT ![r] = next]
      /\ SoundIn(sessions', next) /\ ahead' \in [Requests -> SUBSET Requests]
  BY <1>0, EndFacts DEF Ended
<1> HIDE DEF next
<1>2. CASE b \notin Active
  BY <1>0, <1>1, <1>2, EndTInv DEF Ended
<1>3. CASE b \in Active
  <2> DEFINE row == [sessions[b] EXCEPT !.status = "completed"]
  <2>1. b \in Sessions /\ sessions[b] \in SessionRows
    BY <1>0, <1>3 DEF Active
  <2>2. row \in SessionRows /\ row.status = "completed"
    BY <2>1 DEF SessionRows
  <2>3. sessions' = [sessions EXCEPT ![b] = row]
    BY <1>0, <1>3
  <2> HIDE DEF row
  <2>4. sessions' \in [Sessions -> SessionRows \cup {None}]
    BY <1>0, <2>1, <2>2, <2>3
  <2>5. \A c \in Sessions : sessions'[c] = IF c = b THEN row ELSE sessions[c]
    BY <1>0, <2>3
  <2>6. \A c \in Sessions : sessions[c] # None => sessions'[c] # None
    BY <2>2, <2>5, NoneAssumption
  <2>7. AtMostOneActive'
    <3>1. Active' \subseteq Active
      BY <2>2, <2>5 DEF Active
    <3> QED BY <1>0, <3>1 DEF AtMostOneActive
  <2> QED BY <1>0, <1>1, <2>4, <2>6, <2>7, MoveTInv
<1> QED BY <1>2, <1>3

LEMMA CommitTInv ==
  ASSUME TInv, NEW r \in Requests, Commit(r)
  PROVE  TInv'
<1> DEFINE q == reqs[r]
           next == [Idle EXCEPT !.pc = "done"]
<1>0. /\ q \in RequestStates /\ SoundIn(sessions, q) /\ q.pc = "insert" /\ T!TypeOK
      /\ UNCHANGED <<now, sessions>> /\ AtMostOneActive' /\ late' \in SUBSET Requests
      /\ sessions' \in [Sessions -> SessionRows \cup {None}]
  BY DEF TInv, TypeOK, Commit, AtMostOneActive, Active
<1>1. q.pc \in InFlight /\ q.step # "start" /\ q.session \in Sessions /\ q.question \in Questions
  BY <1>0 DEF SoundIn, InFlight, SessionPcs, Serving
<1>2. ASSUME NEW a \in Attempts, T!Open(a, q.question, q.session), End(r, "done")
      PROVE  TInv'
  <2>1. T!TypeOK'
    BY <1>0, <1>1, <1>2, OpenType
  <2>2. /\ next \in RequestStates /\ reqs' = [reqs EXCEPT ![r] = next]
        /\ SoundIn(sessions', next) /\ ahead' \in [Requests -> SUBSET Requests]
    BY <1>2, EndFacts DEF Ended
  <2> HIDE DEF next
  <2> QED BY <1>0, <2>1, <2>2, MoveTInv
<1>3. CASE UNCHANGED table /\ Goto(r, "retry")
  <2>1. "retry" \in InFlight /\ "retry" \notin StartPcs
    BY DEF InFlight, StartPcs, SessionPcs
  <2> QED BY <1>0, <1>1, <1>3, <2>1, GotoTInv
<1> QED BY <1>2, <1>3 DEF Commit

LEMMA PractiseTInv ==
  ASSUME TInv, Practise
  PROVE  TInv'
<1>1. T!TypeOK'
  BY OpenType, CloseType DEF Practise, TInv, TypeOK, T!Final
<1>2. TypeOK'
  BY <1>1 DEF TInv, TypeOK, Practise
<1> QED BY <1>2 DEF TInv, Practise, SoundIn, AtMostOneActive, Active

\* Training keeps its types, and never starts a session while another is active.
THEOREM TInvHolds == Spec => []TInv
<1>1. Init => TInv
  BY InitTInv
<1>2. TInv /\ [Next]_vars => TInv'
  <2> SUFFICES ASSUME TInv, [Next]_vars PROVE TInv'
    OBVIOUS
  <2>1. ASSUME NEW r \in Requests, Ask(r) \/ Run(r) \/ Fail(r)
        PROVE  TInv'
    BY <2>1, AskTInv, ReadTInv, CreateTInv, CompleteTInv, CommitTInv DEF Run
  <2>2. CASE Practise
    BY <2>2, PractiseTInv
  <2>3. CASE Tick \/ UNCHANGED vars
    <3>1. UNCHANGED <<table, sessions, reqs, ahead, late>> /\ now' \in Nat
      BY <2>3 DEF Tick, vars, TInv, TypeOK
    <3>2. TypeOK' /\ AtMostOneActive'
      BY <3>1 DEF TInv, TypeOK, T!TypeOK, AtMostOneActive, Active
    <3> QED BY <3>1, <3>2 DEF TInv, SoundIn
  <2> QED BY <2>1, <2>2, <2>3 DEF Next
<1> QED BY <1>1, <1>2, PTL DEF Spec

\* Every variable keeps its type.
THEOREM TrainingTypeCorrect == Spec => []TypeOK
BY TInvHolds, PTL DEF TInv

\* However many processes start sessions, the enrollment has at most one active session.
THEOREM OneActiveSession == Spec => []OneActive
<1>1. TInv => OneActive
  <2> SUFFICES ASSUME TInv PROVE Cardinality(Active) <= 1
    BY DEF OneActive
  <2>1. CASE Active = {}
    BY <2>1, FS_EmptySet
  <2>2. CASE Active # {}
    <3>1. PICK b : Active = {b}
      BY <2>2 DEF TInv, AtMostOneActive
    <3>2. Cardinality({b}) = 1
      BY FS_Singleton
    <3> QED BY <3>1, <3>2
  <2> QED BY <2>1, <2>2
<1> QED BY <1>1, TInvHolds, PTL

-----------------------------------------------------------------------------
(* The attempts.                                                           *)

\* What a step does to the table.
LEMMA TableSteps ==
  ASSUME TInv, [Next]_vars
  PROVE  \/ UNCHANGED table
         \/ \E r \in Requests, a \in Attempts :
              /\ reqs[r].pc = "insert" /\ reqs[r].question \in Questions
              /\ reqs[r].session \in Sessions /\ late' = late \ {r}
              /\ T!Open(a, reqs[r].question, reqs[r].session)
         \/ \E a \in Attempts, question \in Questions : T!Open(a, question, None) /\ Practise
         \/ \E a \in Attempts, status \in T!Final : T!Close(a, status) /\ Practise
<1>1. ASSUME NEW r \in Requests, Commit(r), ~UNCHANGED table
      PROVE  /\ reqs[r].pc = "insert" /\ reqs[r].question \in Questions
             /\ reqs[r].session \in Sessions /\ late' = late \ {r}
             /\ \E a \in Attempts : T!Open(a, reqs[r].question, reqs[r].session)
  <2>1. reqs[r].pc = "insert" /\ SoundIn(sessions, reqs[r])
    BY <1>1 DEF Commit, TInv
  <2>2. reqs[r].question \in Questions /\ reqs[r].session \in Sessions
    BY <2>1 DEF SoundIn, InFlight, SessionPcs, Serving
  <2> QED BY <1>1, <2>1, <2>2 DEF Commit
<1>2. CASE Practise
  BY <1>2 DEF Practise, T!Final
<1>3. ASSUME ~Practise, ~UNCHANGED table
      PROVE  \E r \in Requests : Commit(r)
  BY <1>3 DEF Next, vars, Tick, Ask, AskStart, AskSession, Run, Fail, Wait, Enter, FindActive,
              Select, Create, Refind, Load, ReadForNext, ReadForFinish, FindAttempt, Precheck,
              Allocate, Retry, Complete
<1> QED BY <1>1, <1>2, <1>3

\* A transaction about to insert into a session had read it active: if the session is not
\* any more, it was completed since.
LInv == \A r \in Requests : reqs[r].pc = "insert" => reqs[r].session \in Active \/ r \in late

\* Only the check of the block leads to an insert, and only a completion ends a session.
LEMMA NextLInv ==
  ASSUME TInv, LInv, [Next]_vars
  PROVE  LInv'
<1> SUFFICES ASSUME NEW x \in Requests, reqs'[x].pc = "insert"
             PROVE  reqs'[x].session \in Active' \/ x \in late'
  BY DEF LInv
<1> USE DEF TInv, TypeOK
<1>1. ASSUME NEW r \in Requests, NEW pc \in Ended, End(r, pc)
      PROVE  x # r /\ reqs'[x] = reqs[x]
  <2>1. reqs'[r].pc = pc
    BY <1>1 DEF End, Idle
  <2> QED BY <1>1, <2>1 DEF End, Ended
<1>2. ASSUME NEW r \in Requests, NEW pc, Goto(r, pc), pc # "insert"
      PROVE  x # r /\ reqs'[x] = reqs[x]
  <2>1. reqs[r] \in RequestStates
    OBVIOUS
  <2>2. reqs'[r].pc = pc
    BY <1>2, <2>1 DEF Goto, RequestStates
  <2> QED BY <1>2, <2>2 DEF Goto
<1>3. ASSUME reqs'[x] = reqs[x], Active \subseteq Active', late \subseteq late'
      PROVE  reqs'[x].session \in Active' \/ x \in late'
  BY <1>3 DEF LInv
<1>4. ASSUME UNCHANGED sessions
      PROVE  Active' = Active
  BY <1>4 DEF Active
<1>5. ASSUME NEW r \in Requests, NEW q, reqs' = [reqs EXCEPT ![r] = q], q.pc # "insert"
      PROVE  x # r /\ reqs'[x] = reqs[x]
  BY <1>5
<1>6. ASSUME NEW r \in Requests, Ask(r)
      PROVE  reqs'[x] = reqs[x] /\ UNCHANGED <<sessions, late>>
  <2>1. ASSUME NEW s, NEW system, NEW plan, AskStart(r, s, system, plan)
        PROVE  reqs'[x] = reqs[x]
    <3> DEFINE q == [Idle EXCEPT !.pc = "asked", !.step = "start", !.server = s,
                                 !.system = system, !.plan = plan, !.at = now]
    <3>1. q.pc = "asked" /\ reqs' = [reqs EXCEPT ![r] = q]
      BY <2>1 DEF AskStart, Idle
    <3> HIDE DEF q
    <3> QED BY <1>5, <3>1
  <2>2. ASSUME NEW s, NEW c, NEW step, AskSession(r, s, step, c)
        PROVE  reqs'[x] = reqs[x]
    <3> DEFINE q == [Idle EXCEPT !.pc = "asked", !.step = step, !.server = s, !.session = c,
                                 !.at = IF step = "next" THEN now ELSE 0]
    <3>1. q.pc = "asked" /\ reqs' = [reqs EXCEPT ![r] = q]
      BY <2>2 DEF AskSession, Idle
    <3> HIDE DEF q
    <3> QED BY <1>5, <3>1
  <2> QED BY <1>6, <2>1, <2>2 DEF Ask, AskStart, AskSession
<1>7. ASSUME NEW r \in Requests, Wait(r)
      PROVE  reqs'[x] = reqs[x] /\ UNCHANGED <<sessions, late>>
  <2>1. reqs[r] \in RequestStates
    OBVIOUS
  <2> DEFINE q == [reqs[r] EXCEPT !.pc = "queued"]
  <2>2. q.pc = "queued" /\ reqs' = [reqs EXCEPT ![r] = q]
    BY <1>7, <2>1 DEF Wait, RequestStates
  <2> HIDE DEF q
  <2> QED BY <1>5, <1>7, <2>2 DEF Wait
<1>8. ASSUME NEW r \in Requests, NEW question, Serve(r, question)
      PROVE  reqs'[x] = reqs[x]
  <2>1. reqs[r] \in RequestStates
    OBVIOUS
  <2> DEFINE q == [reqs[r] EXCEPT !.pc = "resume", !.question = question, !.at = 0]
  <2>2. q.pc = "resume" /\ reqs' = [reqs EXCEPT ![r] = q]
    BY <1>8, <2>1 DEF Serve, RequestStates
  <2> HIDE DEF q
  <2> QED BY <1>5, <2>2
<1>9. ASSUME NEW r \in Requests,
             \/ Enter(r) \/ FindActive(r) \/ Select(r) \/ Refind(r) \/ Load(r) \/ ReadForNext(r)
             \/ ReadForFinish(r) \/ FindAttempt(r) \/ Precheck(r) \/ Retry(r)
      PROVE  reqs'[x] = reqs[x] /\ UNCHANGED <<sessions, late>>
  <2>1. CASE ReadForNext(r)
    BY <1>1, <1>2, <1>8, <2>1 DEF ReadForNext, Ended
  <2>2. CASE Enter(r) \/ FindActive(r) \/ Select(r) \/ Refind(r) \/ Load(r)
    BY <1>1, <1>2, <2>2 DEF Enter, FindActive, Resumes, Select, Refind, Load, Ended
  <2>3. CASE ReadForFinish(r) \/ FindAttempt(r) \/ Precheck(r) \/ Retry(r)
    BY <1>1, <1>2, <2>3 DEF ReadForFinish, FindAttempt, ResumeAttempt, Precheck, Retry, Ended
  <2> QED BY <1>9, <2>1, <2>2, <2>3
<1>10. ASSUME NEW r \in Requests, Create(r)
       PROVE  reqs'[x] = reqs[x] /\ Active \subseteq Active' /\ late' = late
  <2>1. ASSUME NEW b \in Sessions, Insert(r, b)
        PROVE  Active \subseteq Active'
    <3>1. \A c \in Sessions : c # b => sessions'[c] = sessions[c]
      BY <2>1 DEF Insert
    <3> QED BY <2>1, <3>1 DEF Active, Insert
  <2> QED BY <1>1, <1>2, <1>4, <1>10, <2>1 DEF Create, Ended
<1>11. ASSUME NEW r \in Requests, Allocate(r)
       PROVE  reqs'[x].session \in Active' \/ x \in late'
  <2>1. UNCHANGED <<sessions, late>>
    BY <1>11 DEF Allocate
  <2>2. CASE reqs[r].session \in Active /\ Goto(r, "insert") /\ x = r
    <3>1. reqs[r] \in RequestStates
      OBVIOUS
    <3>2. reqs'[r].session = reqs[r].session
      BY <2>2, <3>1 DEF Goto, RequestStates
    <3> QED BY <1>4, <2>1, <2>2, <3>2
  <2>3. CASE ~(Goto(r, "insert") /\ x = r)
    <3>1. reqs'[x] = reqs[x]
      BY <1>1, <1>2, <1>11, <2>3 DEF Allocate, Goto, Ended
    <3> QED BY <1>3, <1>4, <2>1, <3>1
  <2>4. ~(reqs[r].session \in Active) => x # r
    BY <1>1, <1>2, <1>11 DEF Allocate, Ended
  <2> QED BY <1>11, <2>2, <2>3, <2>4 DEF Allocate
<1>12. ASSUME NEW r \in Requests, Commit(r) \/ Fail(r)
       PROVE  reqs'[x].session \in Active' \/ x \in late'
  <2>1. x # r /\ reqs'[x] = reqs[x] /\ UNCHANGED sessions /\ late' = late \ {r}
    BY <1>1, <1>2, <1>12 DEF Commit, Fail, Ended
  <2> QED BY <1>4, <2>1 DEF LInv
<1>13. ASSUME NEW r \in Requests, Complete(r)
       PROVE  reqs'[x].session \in Active' \/ x \in late'
  <2> DEFINE b == reqs[r].session
  <2>1. reqs'[x] = reqs[x]
    BY <1>1, <1>13 DEF Complete, Ended
  <2>2. CASE x \in late
    BY <1>13, <2>2 DEF Complete
  <2>3. CASE reqs[x].session \in Active /\ reqs[x].session = b
    BY <1>13, <2>1, <2>3 DEF Complete
  <2>4. CASE reqs[x].session \in Active /\ reqs[x].session # b
    <3>1. reqs[x].session \in Sessions /\ sessions'[reqs[x].session] = sessions[reqs[x].session]
      BY <1>13, <2>4 DEF Complete, Active
    <3> QED BY <2>1, <2>4, <3>1 DEF Active
  <2> QED BY <2>1, <2>2, <2>3, <2>4 DEF LInv
<1>14. CASE Practise \/ Tick \/ UNCHANGED vars
  <2>1. UNCHANGED <<sessions, reqs, late>>
    BY <1>14 DEF Practise, Tick, vars
  <2> QED BY <1>3, <1>4, <2>1
<1> QED BY <1>3, <1>4, <1>6, <1>7, <1>9, <1>10, <1>11, <1>12, <1>13, <1>14 DEF Next, Run

LEMMA LInvHolds == Spec => []LInv
<1>1. Init => LInv
  <2> SUFFICES ASSUME Init PROVE \A r \in Requests : reqs[r].pc = "idle"
    BY DEF LInv
  <2> QED BY DEF Init, Idle
<1> QED BY <1>1, NextLInv, TInvHolds, PTL DEF Spec

\* An attempt enters a block only while its session is active, or from a transaction that
\* had read it active before it was completed, and brings no second one.
THEOREM TrainingAllocates == Spec => AllocatedWhileActive
<1> DEFINE Admitted(a) ==
      \/ table'[a].block \in Active
      \/ \E r \in late : reqs[r].session = table'[a].block /\ r \notin late'
<1>1. TInv /\ LInv /\ [Next]_vars => [\A a \in Attempts :
        table[a] = None /\ table'[a] # None /\ table'[a].block # None => Admitted(a)]_table
  <2> SUFFICES ASSUME TInv, LInv, [Next]_vars, ~UNCHANGED table,
                      NEW a \in Attempts, table[a] = None, table'[a] # None,
                      table'[a].block # None
               PROVE  Admitted(a)
    OBVIOUS
  <2> USE DEF TInv, TypeOK, T!TypeOK
  <2>1. ASSUME NEW x \in Attempts, NEW question, NEW b, T!Open(x, question, b)
        PROVE  IF a = x THEN table'[a].block = b ELSE table'[a] = table[a]
    BY <2>1 DEF T!Open
  <2>2. ASSUME NEW x \in Attempts, NEW status, T!Close(x, status)
        PROVE  a # x /\ table'[a] = table[a]
    BY <2>2 DEF T!Close, T!IsOpen
  <2>3. PICK r \in Requests : /\ reqs[r].pc = "insert" /\ late' = late \ {r}
                              /\ table'[a].block = reqs[r].session
    BY <2>1, <2>2, TableSteps
  <2> QED BY <2>3 DEF LInv
<1> QED BY <1>1, TInvHolds, LInvHolds, PTL DEF Spec, AllocatedWhileActive

\* Every step of Training opens an attempt as the table promises, closes one, or leaves the
\* table as it is.
THEOREM TrainingKeepsTable == Spec => KeepsTable
<1>1. Init => T!Init
  BY DEF Init
<1>2. TInv /\ [Next]_vars => [T!Next]_table
  <2> SUFFICES ASSUME TInv, [Next]_vars PROVE T!Next \/ UNCHANGED table
    OBVIOUS
  <2> QED BY TableSteps DEF T!Next
<1>3. Spec => T!Init /\ [][T!Next]_table
  BY <1>1, <1>2, TInvHolds, PTL DEF Spec
<1> QED BY <1>3, PTL DEF KeepsTable, T!Spec

-----------------------------------------------------------------------------
(* The turns of a session within one process.                              *)

\* A request past the queue waits for nobody; of two in one line one waits for the other.
QInv ==
  /\ \A r \in Requests :
       ahead[r] \subseteq InLine /\ (reqs[r].pc \in Inside => ahead[r] = {})
  /\ \A x, y \in InLine : x # y /\ Key(x) = Key(y) => x \in ahead[y] \/ y \in ahead[x]

LEMMA Alone ==
  ASSUME QInv, NEW x \in Requests, NEW y \in Requests,
         reqs[x].pc \in Inside, reqs[y].pc \in Inside, Key(x) = Key(y)
  PROVE  x = y
<1>1. x \in InLine /\ y \in InLine
  BY DEF InLine, Inside, InFlight, StartPcs, SessionPcs
<1> QED BY <1>1 DEF QInv

\* The ways a request and the lines change together.
Arrives(r, q) == reqs[r].pc \notin InFlight /\ q.pc = "asked" /\ UNCHANGED ahead

Goes(r, q) ==
  /\ r \in InLine /\ ahead[r] = {}
  /\ q.pc \in Inside
  /\ q.server = reqs[r].server /\ q.step = reqs[r].step /\ q.session = reqs[r].session
  /\ UNCHANGED ahead

LEMMA Shapes ==
  ASSUME TInv, QInv, NEW r \in Requests, Ask(r) \/ Run(r) \/ Fail(r)
  PROVE  \/ Wait(r)
         \/ \E pc \in Ended : End(r, pc)
         \/ \E q \in RequestStates : reqs' = [reqs EXCEPT ![r] = q] /\ (Arrives(r, q) \/ Goes(r, q))
<1> DEFINE Moves(q) == reqs' = [reqs EXCEPT ![r] = q] /\ (Arrives(r, q) \/ Goes(r, q))
<1>0. reqs[r] \in RequestStates /\ now \in Nat
  BY DEF TInv, TypeOK
<1>1. ASSUME NEW s \in Servers, NEW system \in Systems, NEW plan \in Plans,
             AskStart(r, s, system, plan)
      PROVE  \E q \in RequestStates : Moves(q)
  <2> DEFINE q == [Idle EXCEPT !.pc = "asked", !.step = "start", !.server = s,
                               !.system = system, !.plan = plan, !.at = now]
  <2>1. q \in RequestStates /\ q.pc = "asked"
    BY <1>0 DEF Idle, RequestStates, InFlight
  <2>2. reqs' = [reqs EXCEPT ![r] = q] /\ reqs[r].pc \notin InFlight /\ UNCHANGED ahead
    BY <1>1 DEF AskStart
  <2> HIDE DEF q
  <2> QED BY <2>1, <2>2 DEF Arrives
<1>2. ASSUME NEW s \in Servers, NEW b \in Sessions, NEW step \in {"next", "finish"},
             AskSession(r, s, step, b)
      PROVE  \E q \in RequestStates : Moves(q)
  <2> DEFINE at == IF step = "next" THEN now ELSE 0
             q == [Idle EXCEPT !.pc = "asked", !.step = step, !.server = s, !.session = b,
                               !.at = at]
  <2>1. at \in Nat
    BY <1>0
  <2>2. reqs' = [reqs EXCEPT ![r] = q] /\ reqs[r].pc \notin InFlight /\ UNCHANGED ahead
    BY <1>2 DEF AskSession
  <2> HIDE DEF at
  <2>3. q \in RequestStates /\ q.pc = "asked"
    BY <2>1 DEF Idle, RequestStates, InFlight
  <2> HIDE DEF q
  <2> QED BY <2>2, <2>3 DEF Arrives
<1>3. ASSUME NEW pc \in Inside, NEW question \in Questions \cup {None}, NEW at \in Nat,
             reqs' = [reqs EXCEPT ![r] = [reqs[r] EXCEPT !.pc = pc, !.question = question, !.at = at]],
             UNCHANGED ahead, r \in InLine, ahead[r] = {}
      PROVE  \E q \in RequestStates : Moves(q)
  <2> DEFINE q == [reqs[r] EXCEPT !.pc = pc, !.question = question, !.at = at]
  <2>1. pc \in InFlight
    BY DEF Inside, InFlight
  <2>2. /\ q \in RequestStates /\ q.pc = pc /\ q.server = reqs[r].server
        /\ q.step = reqs[r].step /\ q.session = reqs[r].session
    BY <1>0, <2>1 DEF RequestStates
  <2> HIDE DEF q
  <2>3. reqs' = [reqs EXCEPT ![r] = q]
    BY <1>3 DEF q
  <2> QED BY <1>3, <2>2, <2>3 DEF Goes
<1>4. ASSUME NEW pc \in Inside, Goto(r, pc), r \in InLine, ahead[r] = {}
      PROVE  \E q \in RequestStates : Moves(q)
  <2>1. /\ [reqs[r] EXCEPT !.pc = pc] =
             [reqs[r] EXCEPT !.pc = pc, !.question = reqs[r].question, !.at = reqs[r].at]
        /\ reqs[r].question \in Questions \cup {None} /\ reqs[r].at \in Nat
    BY <1>0 DEF RequestStates
  <2>2. reqs' = [reqs EXCEPT ![r] =
          [reqs[r] EXCEPT !.pc = pc, !.question = reqs[r].question, !.at = reqs[r].at]]
    BY <1>4, <2>1 DEF Goto
  <2>3. UNCHANGED ahead
    BY <1>4 DEF Goto
  <2> QED BY <1>3, <1>4, <2>1, <2>2, <2>3
<1>5. CASE Enter(r)
  <2>1. r \in InLine /\ ahead[r] = {}
    BY <1>5 DEF Enter, First, InLine, InFlight, StartPcs, SessionPcs
  <2> QED BY <1>4, <1>5, <2>1 DEF Enter, Inside, StartPcs, SessionPcs
<1>6. ASSUME reqs[r].pc \in Inside, NEW question \in Questions, Serve(r, question)
      PROVE  \E q \in RequestStates : Moves(q)
  <2>1. r \in InLine /\ ahead[r] = {}
    BY <1>6 DEF QInv, InLine, Inside, InFlight, StartPcs, SessionPcs
  <2>2. reqs' = [reqs EXCEPT ![r] = [reqs[r] EXCEPT !.pc = "resume", !.question = question, !.at = 0]]
        /\ UNCHANGED ahead
    BY <1>6 DEF Serve
  <2>3. "resume" \in Inside
    BY DEF Inside, SessionPcs
  <2> QED BY <1>3, <2>1, <2>2, <2>3
<1>7. ASSUME reqs[r].pc \in Inside, NEW pc \in Inside, Goto(r, pc)
      PROVE  \E q \in RequestStates : Moves(q)
  <2>1. r \in InLine /\ ahead[r] = {}
    BY <1>7 DEF QInv, InLine, Inside, InFlight, StartPcs, SessionPcs
  <2> QED BY <1>4, <1>7, <2>1
<1>8. CASE FindActive(r) \/ Select(r) \/ Create(r) \/ Refind(r)
  BY <1>7, <1>8 DEF FindActive, Resumes, Select, Create, Refind, Ended, Inside, StartPcs
<1>9. CASE Load(r) \/ ReadForFinish(r) \/ FindAttempt(r) \/ Precheck(r) \/ Allocate(r) \/ Retry(r)
          \/ Complete(r)
  BY <1>7, <1>9 DEF Load, ReadForFinish, FindAttempt, ResumeAttempt, Precheck, Allocate, Retry,
                    Complete, Ended, Inside, SessionPcs
<1>10. CASE ReadForNext(r)
  <2>1. \A a \in OpenIn(reqs[r].session) : table[a].question \in Questions
    BY DEF OpenIn, T!In, TInv, TypeOK, T!TypeOK, T!Rows
  <2>2. reqs[r].pc \in Inside /\ "complete" \in Inside /\ "done" \in Ended
    BY <1>10 DEF ReadForNext, Inside, SessionPcs, Ended
  <2> QED BY <1>6, <1>7, <1>10, <2>1, <2>2 DEF ReadForNext
<1>11. CASE Commit(r)
  BY <1>7, <1>11 DEF Commit, Ended, Inside, SessionPcs
<1>12. CASE Fail(r)
  BY <1>12 DEF Fail, Ended
<1> QED BY <1>1, <1>2, <1>5, <1>8, <1>9, <1>10, <1>11, <1>12 DEF Ask, Run

LEMMA EndQInv ==
  ASSUME TInv, QInv, NEW r \in Requests, NEW pc \in Ended, End(r, pc)
  PROVE  QInv'
<1>1. \A x \in Requests : /\ x # r => reqs'[x] = reqs[x] /\ ahead'[x] = ahead[x] \ {r}
                          /\ reqs'[r].pc = pc /\ ahead'[r] = {}
  BY DEF End, Released, Idle, TInv, TypeOK
<1>2. pc \notin InFlight /\ pc \notin Inside
  BY DEF Ended, InFlight, Inside, StartPcs, SessionPcs
<1>3. InLine' = InLine \ {r}
  BY <1>1, <1>2 DEF InLine
<1>4. ASSUME NEW x \in Requests
      PROVE  ahead'[x] \subseteq InLine' /\ (reqs'[x].pc \in Inside => ahead'[x] = {})
  BY <1>1, <1>2, <1>3 DEF QInv
<1>5. ASSUME NEW x \in InLine', NEW y \in InLine', x # y, Key(x)' = Key(y)'
      PROVE  x \in ahead'[y] \/ y \in ahead'[x]
  <2>1. Key(x) = Key(y) /\ x \in InLine /\ y \in InLine /\ x # r /\ y # r
    BY <1>1, <1>3, <1>5 DEF Key, InLine
  <2> QED BY <1>1, <1>5, <2>1 DEF QInv, InLine
<1> QED BY <1>4, <1>5 DEF QInv

LEMMA WaitQInv ==
  ASSUME TInv, QInv, NEW r \in Requests, Wait(r)
  PROVE  QInv'
<1>1. /\ \A x \in Requests : x # r => reqs'[x] = reqs[x] /\ ahead'[x] = ahead[x]
      /\ reqs'[r] = [reqs[r] EXCEPT !.pc = "queued"]
      /\ ahead'[r] = {x \in InLine : Key(x) = Key(r)}
      /\ reqs[r].pc = "asked" /\ reqs[r] \in RequestStates
  BY DEF Wait, TInv, TypeOK
<1>2. /\ reqs'[r].pc = "queued" /\ reqs'[r].server = reqs[r].server
      /\ reqs'[r].step = reqs[r].step /\ reqs'[r].session = reqs[r].session
  BY <1>1 DEF RequestStates
<1>3. r \notin InLine /\ InLine' = InLine \cup {r}
  <2>1. "queued" \in InFlight \ {"asked"}
    BY DEF InFlight
  <2>2. r \notin InLine
    BY <1>1 DEF InLine
  <2>3. \A x \in Requests : x \in InLine' <=> x \in InLine \/ x = r
    BY <1>1, <1>2, <2>1 DEF InLine
  <2> QED BY <2>2, <2>3 DEF InLine
<1>4. \A x \in Requests : Key(x)' = Key(x)
  BY <1>1, <1>2 DEF Key
<1>5. ASSUME NEW x \in Requests
      PROVE  ahead'[x] \subseteq InLine' /\ (reqs'[x].pc \in Inside => ahead'[x] = {})
  <2>1. CASE x = r
    <3>1. "queued" \notin Inside
      BY DEF Inside, StartPcs, SessionPcs
    <3> QED BY <1>1, <1>2, <1>3, <2>1, <3>1
  <2>2. CASE x # r
    <3>1. ahead[x] \subseteq InLine /\ (reqs[x].pc \in Inside => ahead[x] = {})
      BY DEF QInv
    <3> QED BY <1>1, <1>3, <2>2, <3>1
  <2> QED BY <2>1, <2>2
<1>6. ASSUME NEW x \in InLine', NEW y \in InLine', x # y, Key(x)' = Key(y)'
      PROVE  x \in ahead'[y] \/ y \in ahead'[x]
  <2>1. x \in Requests /\ y \in Requests /\ Key(x) = Key(y)
    BY <1>4, <1>6 DEF InLine
  <2>2. CASE x = r \/ y = r
    BY <1>1, <1>3, <1>6, <2>1, <2>2
  <2>3. CASE x # r /\ y # r
    BY <1>1, <1>3, <1>6, <2>1, <2>3 DEF QInv
  <2> QED BY <2>2, <2>3
<1> QED BY <1>5, <1>6 DEF QInv

LEMMA MoveQInv ==
  ASSUME TInv, QInv, NEW r \in Requests, NEW q \in RequestStates,
         reqs' = [reqs EXCEPT ![r] = q], Arrives(r, q) \/ Goes(r, q)
  PROVE  QInv'
<1>1. /\ \A x \in Requests : reqs'[x] = IF x = r THEN q ELSE reqs[x]
      /\ UNCHANGED ahead
  BY DEF TInv, TypeOK, Arrives, Goes
<1>2. InLine' = InLine
  <2>1. \A pc \in Inside : pc \in InFlight \ {"asked"}
    BY DEF Inside, InFlight, StartPcs, SessionPcs
  <2> QED BY <1>1, <2>1 DEF InLine, Arrives, Goes
<1>3. \A x \in InLine : Key(x)' = Key(x)
  BY <1>1 DEF Key, InLine, Arrives, Goes
<1>4. ASSUME NEW x \in Requests
      PROVE  ahead'[x] \subseteq InLine' /\ (reqs'[x].pc \in Inside => ahead'[x] = {})
  <2>1. "asked" \notin Inside
    BY DEF Inside, StartPcs, SessionPcs
  <2> QED BY <1>1, <1>2, <2>1 DEF QInv, Arrives, Goes
<1> QED BY <1>1, <1>2, <1>3, <1>4 DEF QInv

\* The lines are kept in order.
LEMMA NextQInv ==
  ASSUME TInv, QInv, [Next]_vars
  PROVE  QInv'
<1>1. ASSUME NEW r \in Requests, Ask(r) \/ Run(r) \/ Fail(r)
      PROVE  QInv'
  BY <1>1, Shapes, EndQInv, WaitQInv, MoveQInv
<1>2. CASE UNCHANGED <<reqs, ahead>>
  BY <1>2 DEF QInv, InLine, Key
<1> QED BY <1>1, <1>2 DEF Next, Practise, Tick, vars

\* The open attempts of session b when the attempts are rows.
OpenOf(rows, b) ==
  {a \in Attempts : rows[a] # None /\ rows[a].block = b /\ rows[a].status = "in_progress"}

\* A request that serves a question knows that no other is open in its session, and one
\* that completes the session that none is.
TurnIn(rows, q) ==
  /\ q.pc \in Serving => \A a \in OpenOf(rows, q.session) : rows[a].question = q.question
  /\ q.pc = "complete" => OpenOf(rows, q.session) = {}

KInv ==
  /\ \A b \in Sessions :
       /\ \A a, x \in OpenOf(table, b) : a = x
       /\ b \notin Active => OpenOf(table, b) = {}
  /\ \A r \in Requests : TurnIn(table, reqs[r])
  /\ late = {}

OneServer == \A s, t \in Servers : s = t

LEMMA OpenInIs == \A b : OpenIn(b) = OpenOf(table, b)
BY DEF OpenIn, OpenOf, T!In, T!IsOpen

LEMMA MoveKInv ==
  ASSUME TInv, KInv, NEW r \in Requests, NEW q, reqs' = [reqs EXCEPT ![r] = q],
         UNCHANGED table, TurnIn(table, q), late' = {},
         \A b \in Sessions : b \notin Active' => OpenOf(table, b) = {}
  PROVE  KInv'
<1>1. \A x \in Requests : reqs'[x] = IF x = r THEN q ELSE reqs[x]
  BY DEF TInv, TypeOK
<1>2. ASSUME NEW x \in Requests
      PROVE  TurnIn(table', reqs'[x])
  <2>1. TurnIn(table, reqs[x]) /\ table' = table
    BY DEF KInv
  <2> QED BY <1>1, <2>1
<1>3. ASSUME NEW b \in Sessions
      PROVE  /\ \A a, x \in OpenOf(table', b) : a = x
             /\ b \notin Active' => OpenOf(table', b) = {}
  <2>1. table' = table
    OBVIOUS
  <2> QED BY <2>1 DEF KInv
<1> QED BY <1>2, <1>3 DEF KInv

LEMMA EndKInv ==
  ASSUME TInv, KInv, NEW r \in Requests, NEW pc \in Ended, End(r, pc), UNCHANGED table,
         late' = {}, \A b \in Sessions : b \notin Active' => OpenOf(table, b) = {}
  PROVE  KInv'
<1> DEFINE q == [Idle EXCEPT !.pc = pc]
<1>1. q.pc = pc /\ pc \notin Serving /\ pc # "complete" /\ reqs' = [reqs EXCEPT ![r] = q]
  BY DEF Idle, Ended, Serving, End
<1> HIDE DEF q
<1>2. TurnIn(table, q)
  BY <1>1 DEF TurnIn
<1> QED BY <1>1, <1>2, MoveKInv

LEMMA GotoKInv ==
  ASSUME TInv, KInv, NEW r \in Requests, NEW pc, Goto(r, pc), UNCHANGED <<table, sessions>>, late' = {},
         pc \in Serving => reqs[r].pc \in Serving,
         pc = "complete" => OpenOf(table, reqs[r].session) = {}
  PROVE  KInv'
<1> DEFINE q == [reqs[r] EXCEPT !.pc = pc]
<1>1. reqs[r] \in RequestStates /\ TurnIn(table, reqs[r])
  BY DEF TInv, TypeOK, KInv
<1>2. /\ q.pc = pc /\ q.session = reqs[r].session /\ q.question = reqs[r].question
      /\ reqs' = [reqs EXCEPT ![r] = q]
  BY <1>1 DEF RequestStates, Goto
<1> HIDE DEF q
<1>3. TurnIn(table, q)
  BY <1>1, <1>2 DEF TurnIn
<1>4. \A b \in Sessions : b \notin Active' => OpenOf(table, b) = {}
  BY DEF KInv, Active
<1> QED BY <1>2, <1>3, <1>4, MoveKInv

LEMMA ReadKInv ==
  ASSUME TInv, KInv, NEW r \in Requests,
         \/ Ask(r) \/ Wait(r) \/ Enter(r) \/ FindActive(r) \/ Select(r) \/ Refind(r) \/ Load(r)
         \/ ReadForNext(r) \/ ReadForFinish(r) \/ FindAttempt(r) \/ Precheck(r) \/ Allocate(r)
         \/ Retry(r) \/ Fail(r)
  PROVE  KInv'
<1> DEFINE b == reqs[r].session
<1>0. /\ UNCHANGED <<table, sessions>> /\ late' = {}
      /\ \A c \in Sessions : c \notin Active' => OpenOf(table, c) = {}
  BY DEF Ask, AskStart, AskSession, Wait, Enter, FindActive, Select, Refind, Load, ReadForNext,
         ReadForFinish, FindAttempt, Precheck, Allocate, Retry, Fail, KInv, Active
<1>1. ASSUME NEW pc \in Ended, End(r, pc)
      PROVE  KInv'
  BY <1>0, <1>1, EndKInv
<1>2. ASSUME NEW pc, Goto(r, pc), pc \in Serving => reqs[r].pc \in Serving,
             pc = "complete" => OpenIn(b) = {}
      PROVE  KInv'
  BY <1>0, <1>2, GotoKInv, OpenInIs
<1>3. ASSUME NEW q, reqs' = [reqs EXCEPT ![r] = q], q.pc \in {"asked", "queued"}
      PROVE  KInv'
  <2>1. TurnIn(table, q)
    BY <1>3 DEF TurnIn, Serving
  <2> QED BY <1>0, <1>3, <2>1, MoveKInv
<1>4. CASE Ask(r)
  <2>1. ASSUME NEW s, NEW system, NEW plan, AskStart(r, s, system, plan)
        PROVE  KInv'
    <3> DEFINE q == [Idle EXCEPT !.pc = "asked", !.step = "start", !.server = s,
                                 !.system = system, !.plan = plan, !.at = now]
    <3>1. q.pc = "asked" /\ reqs' = [reqs EXCEPT ![r] = q]
      BY <2>1 DEF AskStart, Idle
    <3> HIDE DEF q
    <3> QED BY <1>3, <3>1
  <2>2. ASSUME NEW s, NEW c, NEW step, AskSession(r, s, step, c)
        PROVE  KInv'
    <3> DEFINE q == [Idle EXCEPT !.pc = "asked", !.step = step, !.server = s, !.session = c,
                                 !.at = IF step = "next" THEN now ELSE 0]
    <3>1. q.pc = "asked" /\ reqs' = [reqs EXCEPT ![r] = q]
      BY <2>2 DEF AskSession, Idle
    <3> HIDE DEF q
    <3> QED BY <1>3, <3>1
  <2> QED BY <1>4, <2>1, <2>2 DEF Ask
<1>5. CASE Wait(r)
  <2> DEFINE q == [reqs[r] EXCEPT !.pc = "queued"]
  <2>1. q.pc = "queued" /\ reqs' = [reqs EXCEPT ![r] = q]
    BY <1>5 DEF Wait, TInv, TypeOK, RequestStates
  <2> HIDE DEF q
  <2> QED BY <1>3, <2>1
<1>6. ASSUME NEW question, Serve(r, question), \A a \in OpenIn(b) : table[a].question = question
      PROVE  KInv'
  <2> DEFINE q == [reqs[r] EXCEPT !.pc = "resume", !.question = question, !.at = 0]
  <2>1. q.pc = "resume" /\ q.question = question /\ q.session = b /\ reqs' = [reqs EXCEPT ![r] = q]
    BY <1>6 DEF Serve, TInv, TypeOK, RequestStates
  <2> HIDE DEF q
  <2>2. TurnIn(table, q)
    BY <1>6, <2>1, OpenInIs DEF TurnIn
  <2> QED BY <1>0, <2>1, <2>2, MoveKInv
<1>7. CASE ReadForNext(r)
  <2>1. \A a, x \in OpenIn(b) : a = x
    <3>1. CASE b \in Sessions
      BY <3>1, OpenInIs DEF KInv
    <3>2. CASE b \notin Sessions
      BY <1>7, <3>2 DEF ReadForNext, TInv, SoundIn, InFlight, StartPcs, SessionPcs
    <3> QED BY <3>1, <3>2
  <2>2. CASE Goto(r, "complete") /\ OpenIn(b) = {}
    BY <1>2, <2>2 DEF Serving
  <2>3. CASE \E question \in Questions : Serve(r, question) /\ OpenIn(b) = {}
    BY <1>6, <2>3
  <2>4. CASE \E a \in OpenIn(b) : Serve(r, table[a].question)
    BY <1>6, <2>1, <2>4
  <2>5. CASE End(r, "done")
    BY <1>1, <2>5 DEF Ended
  <2> QED BY <1>7, <2>2, <2>3, <2>4, <2>5 DEF ReadForNext
<1>8. CASE ReadForFinish(r)
  BY <1>1, <1>2, <1>8 DEF ReadForFinish, Ended, Serving
<1>9. CASE Enter(r) \/ FindActive(r) \/ Select(r) \/ Refind(r) \/ Load(r) \/ Fail(r)
  BY <1>1, <1>2, <1>9 DEF Enter, FindActive, Resumes, Select, Refind, Load, Fail, Ended, Serving
<1>10. CASE FindAttempt(r) \/ Precheck(r) \/ Allocate(r) \/ Retry(r)
  BY <1>1, <1>2, <1>10 DEF FindAttempt, ResumeAttempt, Precheck, Allocate, Retry, Ended, Serving
<1> QED BY <1>4, <1>5, <1>7, <1>8, <1>9, <1>10

\* Within one process, only one request is past the queue of a session.
LEMMA AloneInSession ==
  ASSUME OneServer, TInv, QInv, NEW x \in Requests, NEW y \in Requests,
         reqs[x].pc \in SessionPcs, reqs[y].pc \in SessionPcs,
         reqs[x].session = reqs[y].session
  PROVE  x = y
<1>1. \A r \in Requests : reqs[r].pc \in SessionPcs =>
        reqs[r].step # "start" /\ reqs[r].server \in Servers /\ reqs[r].pc \in Inside
  BY DEF TInv, SoundIn, InFlight, Inside
<1>2. Key(x) = Key(y)
  BY <1>1 DEF Key, OneServer
<1> QED BY <1>1, <1>2, Alone

\* A session that starts or completes has no open attempt.
LEMMA SessionKInv ==
  ASSUME OneServer, TInv, QInv, KInv, NEW r \in Requests, Create(r) \/ Complete(r)
  PROVE  KInv'
<1>0. UNCHANGED table /\ sessions \in [Sessions -> SessionRows \cup {None}] /\ late = {}
  BY DEF Create, Complete, TInv, TypeOK, KInv
<1>4. late' = {}
  <2>1. ASSUME Complete(r), NEW x \in Requests, reqs[x].pc = "insert",
               reqs[x].session = reqs[r].session
        PROVE  FALSE
    <3>1. reqs[r].pc = "complete"
      BY <2>1 DEF Complete
    <3> QED BY <2>1, <3>1, AloneInSession DEF SessionPcs
  <2> QED BY <1>0, <2>1 DEF Create, Complete
<1>1. ASSUME NEW b \in Sessions, Insert(r, b)
      PROVE  Active \subseteq Active'
  <2>1. \A c \in Sessions : c # b => sessions'[c] = sessions[c]
    BY <1>0, <1>1 DEF Insert
  <2> QED BY <1>1, <2>1 DEF Active, Insert
<1>2. CASE Create(r)
  <2>1. Active \subseteq Active'
    BY <1>1, <1>2 DEF Create, Active
  <2>2. \A b \in Sessions : b \notin Active' => OpenOf(table, b) = {}
    BY <2>1 DEF KInv
  <2>3. CASE End(r, "done")
    BY <1>0, <1>4, <2>2, <2>3, EndKInv DEF Ended
  <2>4. CASE UNCHANGED sessions /\ Goto(r, "refind")
    BY <1>0, <1>4, <2>4, GotoKInv DEF Serving
  <2> QED BY <1>2, <2>3, <2>4 DEF Create
<1>3. CASE Complete(r)
  <2> DEFINE b == reqs[r].session
  <2>1. b \in Sessions /\ OpenOf(table, b) = {}
    BY <1>3 DEF Complete, KInv, TurnIn, TInv, SoundIn, InFlight, StartPcs, SessionPcs
  <2>2. \A c \in Sessions : c # b => sessions'[c] = sessions[c]
    BY <1>0, <1>3 DEF Complete
  <2>3. \A c \in Sessions : c \notin Active' => OpenOf(table, c) = {}
    BY <2>1, <2>2 DEF KInv, Active
  <2> QED BY <1>0, <1>3, <1>4, <2>3, EndKInv DEF Complete, Ended
<1> QED BY <1>2, <1>3

\* Allocating a question opens the one attempt of its session.
LEMMA CommitKInv ==
  ASSUME OneServer, TInv, LInv, QInv, KInv, NEW r \in Requests, Commit(r)
  PROVE  KInv'
<1> DEFINE b == reqs[r].session
           question == reqs[r].question
<1>0. /\ reqs[r].pc = "insert" /\ UNCHANGED sessions /\ b \in Active /\ late' = {}
      /\ table \in [Attempts -> T!Rows \cup {None}]
      /\ \A c \in Sessions : c \notin Active' => OpenOf(table, c) = {}
  BY DEF Commit, LInv, TInv, TypeOK, T!TypeOK, KInv, Active
<1>1. b \in Sessions
  BY <1>0 DEF Active
<1>2. CASE UNCHANGED table /\ Goto(r, "retry")
  BY <1>0, <1>2, GotoKInv DEF Serving
<1>3. ASSUME NEW a \in Attempts, T!Open(a, question, b), End(r, "done")
      PROVE  KInv'
  <2>1. OpenOf(table, b) = {}
    <3>1. \A x \in OpenOf(table, b) : table[x].question = question
      BY <1>0, <1>1 DEF KInv, TurnIn, Serving
    <3>2. \A x \in OpenOf(table, b) : x \in T!OpenOn(question)
      BY <3>1 DEF OpenOf, T!OpenOn, T!IsOpen
    <3> QED BY <1>3, <3>2 DEF T!Open
  <2>2. table' = [table EXCEPT ![a] = table'[a]] /\ table'[a].block = b
    BY <1>0, <1>3 DEF T!Open
  <2>3. \A x \in Attempts : x # a => table'[x] = table[x]
    BY <1>0, <1>3 DEF T!Open
  <2>4. OpenOf(table', b) \subseteq {a}
    BY <2>1, <2>3 DEF OpenOf
  <2>5. \A c \in Sessions : c # b =>
          /\ OpenOf(table', c) \subseteq OpenOf(table, c)
          /\ \A x \in OpenOf(table', c) : table'[x] = table[x]
    BY <2>2, <2>3 DEF OpenOf
  <2>6. ASSUME NEW c \in Sessions
        PROVE  /\ \A x, y \in OpenOf(table', c) : x = y
               /\ c \notin Active' => OpenOf(table', c) = {}
    <3>1. CASE c = b
      BY <1>0, <1>3, <2>4, <3>1 DEF Active
    <3>2. CASE c # b
      BY <1>0, <2>5, <3>2 DEF KInv
    <3> QED BY <3>1, <3>2
  <2>7. ASSUME NEW x \in Requests
        PROVE  TurnIn(table', reqs'[x])
    <3>1. CASE x = r
      <4>1. reqs'[r].pc = "done"
        BY <1>3 DEF End, Idle, TInv, TypeOK
      <4> QED BY <3>1, <4>1 DEF TurnIn, Serving
    <3>2. CASE x # r /\ reqs[x].pc \in SessionPcs
      <4>1. reqs[x].session # b
        BY <1>0, <3>2, AloneInSession DEF SessionPcs
      <4>2. reqs'[x] = reqs[x] /\ TurnIn(table, reqs[x])
        BY <1>3, <3>2 DEF End, KInv, TInv, TypeOK
      <4>3. reqs[x].session \in Sessions
        BY <3>2 DEF TInv, SoundIn, InFlight
      <4> QED BY <2>5, <4>1, <4>2, <4>3 DEF TurnIn
    <3>3. CASE x # r /\ reqs[x].pc \notin SessionPcs
      <4>1. reqs'[x] = reqs[x]
        BY <1>3, <3>3 DEF End, TInv, TypeOK
      <4> QED BY <3>3, <4>1 DEF TurnIn, Serving, SessionPcs
    <3> QED BY <3>1, <3>2, <3>3
  <2> QED BY <1>0, <2>6, <2>7 DEF KInv
<1> QED BY <1>2, <1>3 DEF Commit

\* Practice outside any session opens nothing in one, and closes attempts.
LEMMA PractiseKInv ==
  ASSUME TInv, KInv, Practise
  PROVE  KInv'
<1>0. UNCHANGED <<sessions, reqs>> /\ table \in [Attempts -> T!Rows \cup {None}] /\ late' = {}
  BY DEF Practise, TInv, TypeOK, T!TypeOK, KInv
<1>1. \A b \in Sessions :
        /\ OpenOf(table', b) \subseteq OpenOf(table, b)
        /\ \A a \in OpenOf(table', b) : table'[a].question = table[a].question
  <2>1. ASSUME NEW a \in Attempts, NEW question, T!Open(a, question, None)
        PROVE  /\ table'[a].block = None
               /\ \A x \in Attempts : x # a => table'[x] = table[x]
    BY <1>0, <2>1 DEF T!Open
  <2>2. ASSUME NEW a \in Attempts, NEW status \in {"submitted", "skipped"}, T!Close(a, status)
        PROVE  /\ table'[a].status = status
               /\ \A x \in Attempts : x # a => table'[x] = table[x]
    <3>1. table[a] \in T!Rows
      BY <1>0, <2>2 DEF T!Close, T!IsOpen
    <3>2. [table[a] EXCEPT !.status = status].status = status
      BY <3>1 DEF T!Rows
    <3> QED BY <1>0, <2>2, <3>2 DEF T!Close
  <2>3. None \notin Sessions
    BY NoneAssumption
  <2>4. PICK a \in Attempts : /\ \A x \in Attempts : x # a => table'[x] = table[x]
                              /\ table'[a].block = None \/ table'[a].status \in {"submitted", "skipped"}
    BY <2>1, <2>2 DEF Practise
  <2> QED BY <2>3, <2>4 DEF OpenOf
<1>2. ASSUME NEW x \in Requests
      PROVE  TurnIn(table', reqs'[x])
  <2>1. reqs'[x] = reqs[x] /\ TurnIn(table, reqs[x]) /\ SoundIn(sessions, reqs[x])
    BY <1>0 DEF KInv, TInv
  <2>2. reqs[x].pc \in Serving \cup {"complete"} => reqs[x].session \in Sessions
    BY <2>1 DEF SoundIn, InFlight, StartPcs, SessionPcs, Serving
  <2> QED BY <1>1, <2>1, <2>2 DEF TurnIn
<1>3. ASSUME NEW b \in Sessions
      PROVE  /\ \A a, x \in OpenOf(table', b) : a = x
             /\ b \notin Active' => OpenOf(table', b) = {}
  BY <1>0, <1>1 DEF KInv, Active
<1> QED BY <1>0, <1>2, <1>3 DEF KInv

\* Within one process the questions of a session come one at a time, and none is left open
\* by the session's end.
THEOREM TurnsKept ==
  ASSUME OneServer
  PROVE  Spec => []InTurn
<1>1. Init => QInv /\ KInv
  <2> SUFFICES ASSUME Init PROVE QInv /\ KInv
    OBVIOUS
  <2>1. \A r \in Requests : reqs[r].pc = "idle" /\ ahead[r] = {}
    BY DEF Init, Idle
  <2>2. \A b : OpenOf(table, b) = {}
    BY DEF Init, T!Init, OpenOf
  <2>3. "idle" \notin InFlight \cup Inside \cup Serving
    BY DEF InFlight, Inside, StartPcs, SessionPcs, Serving
  <2>4. late = {}
    BY DEF Init
  <2> QED BY <2>1, <2>2, <2>3, <2>4 DEF QInv, KInv, TurnIn, InLine
<1>2. TInv /\ LInv /\ QInv /\ KInv /\ [Next]_vars => QInv' /\ KInv'
  <2> SUFFICES ASSUME TInv, LInv, QInv, KInv, [Next]_vars PROVE KInv'
    BY NextQInv
  <2>1. ASSUME NEW r \in Requests, Ask(r) \/ Run(r) \/ Fail(r)
        PROVE  KInv'
    BY <2>1, OneServer, ReadKInv, SessionKInv, CommitKInv DEF Run
  <2>2. CASE Practise
    BY <2>2, PractiseKInv
  <2>3. CASE Tick \/ UNCHANGED vars
    <3>1. UNCHANGED <<table, sessions, reqs, late>>
      BY <2>3 DEF Tick, vars
    <3> QED BY <3>1 DEF KInv, Active
  <2> QED BY <2>1, <2>2, <2>3 DEF Next
<1>3. KInv => InTurn
  <2> SUFFICES ASSUME KInv, NEW b \in Sessions
               PROVE  /\ Cardinality(OpenIn(b)) <= 1
                      /\ sessions[b] # None /\ sessions[b].status = "completed" => OpenIn(b) = {}
    BY DEF InTurn
  <2>1. sessions[b] # None /\ sessions[b].status = "completed" => OpenIn(b) = {}
    BY OpenInIs DEF KInv, Active
  <2>2. CASE OpenIn(b) = {}
    BY <2>1, <2>2, FS_EmptySet
  <2>3. CASE OpenIn(b) # {}
    <3>1. PICK a : OpenIn(b) = {a}
      BY <2>3, OpenInIs DEF KInv
    <3>2. Cardinality({a}) = 1
      BY FS_Singleton
    <3> QED BY <2>1, <3>1, <3>2
  <2> QED BY <2>2, <2>3
<1> QED BY <1>1, <1>2, <1>3, TInvHolds, LInvHolds, PTL DEF Spec

=============================================================================
