-------------------------- MODULE SimulationProofs --------------------------
(***************************************************************************)
(* For any paper, catalog, clock and number of requests: an exam           *)
(* simulation keeps its deadline, its result is that of its answers, and   *)
(* it lives the life that ExamLife promises.                               *)
(*                                                                         *)
(* A request decides on the locked row with a time, a content and keys     *)
(* that it read before the lock.  What makes that harmless is that a row   *)
(* only grows: its times and paper are fixed, its log is only appended to, *)
(* and once it has ended it does not change.  The keys are those of a      *)
(* moment no earlier than the end is dated, which is all that can be said  *)
(* of them: an edit of the key alone does not show in the version.         *)
(***************************************************************************)
EXTENDS Simulation, FiniteSetTheorems, WellFoundedInduction, TLAPS

-----------------------------------------------------------------------------
(* The inductive invariant.                                                *)

Ops == {"none", "start", "recover", "get", "question", "submit", "answer"}

\* What a request may have been told. That its keys were not loaded is not among it.
Replies ==
  Ended \cup
  {"nothing", "in_progress", "simulation_not_found", "no_simulation_configured", "invalid",
   "created", "error", "rejected_expired", "expired_before_submit", "invalid_position",
   "recorded", "refused", "served", "question_content_changed"}

Calls ==
  [pc : Steps, op : Ops, sim : Sims \cup {None}, at : Nat, position : Positions \cup {0},
   answer : Answers \cup {None}, draft : Rows \cup {None}, then : {"lock", "keys"},
   keys : Readings \cup {None}, content : Contents \cup {None}, told : Replies]

\* A row at time t.
RowOK(row, t) ==
  /\ row \in Rows
  /\ row.startedAt <= t
  /\ \A i \in DOMAIN row.events :
       row.startedAt <= row.events[i].at /\ row.events[i].at < row.deadline
  /\ row.status = "in_progress" <=> row.finalizedAt = None
  /\ row.status = "expired" => row.finalizedAt = row.deadline
  /\ row.status = "submitted" =>
       row.startedAt <= row.finalizedAt /\ row.finalizedAt < row.deadline

\* A row that has just been started.
Blank(row, t) == RowOK(row, t) /\ row.status = "in_progress" /\ row.events = <<>>

\* The steps between the reading of a simulation and the transaction on it.
Deciding == {"content", "keys", "lock"}

Logged(q, row) == \E i \in DOMAIN row.events : row.events[i] = Event(q)

\* A request with the variables q, over the given rows at time t.
CallOK(q, rows, t) ==
  /\ q \in Calls
  /\ q.at <= t
  /\ q.sim # None => rows[q.sim] # None
  /\ q.pc \in Deciding \cup {"row", "serve"} => q.sim # None
  /\ q.pc # "done" => q.told = "nothing"
  /\ q.pc \in {"find", "row", "assemble", "insert", "conflict"} => q.op \in {"start", "recover"}
  /\ q.pc \in Deciding /\ q.op \in {"answer", "submit"} => rows[q.sim].startedAt <= q.at
  /\ q.pc \in Deciding /\ q.op = "answer" => q.position \in Positions /\ q.answer \in Answers
  /\ q.pc \in {"content", "serve"} => q.position \in DOMAIN rows[q.sim].paper
  /\ q.pc = "lock" /\ q.keys = None => ~KeysNeeded(rows[q.sim], q.op, q.at)
  /\ q.pc = "content" /\ q.then = "lock" => ~KeysNeeded(rows[q.sim], q.op, q.at)
  /\ q.pc = "insert" => q.draft # None /\ Blank(q.draft, t)
  /\ q.pc = "serve" \/ (q.sim # None /\ q.told \in InTime) => q.at < rows[q.sim].deadline
  /\ q.told = "recorded" => q.sim # None /\ Logged(q, rows[q.sim])

RowsOK ==
  /\ sims = [s \in Sims |-> sims[s]]
  /\ \A s \in Sims : sims[s] # None => RowOK(sims[s], now)

CallsOK ==
  /\ reqs = [r \in Requests |-> reqs[r]]
  /\ \A r \in Requests : CallOK(reqs[r], sims, now)

BankOK ==
  /\ catalog \in [Questions -> Entries \cup {None}]
  /\ replaced \in [Questions -> SUBSET [entry : Entries, until : Nat]]
  /\ now \in 0 .. MaxTime

SInv == RowsOK /\ CallsOK /\ BankOK

-----------------------------------------------------------------------------
(* The log of answers: the last one of a position.                         *)

\* The order of the naturals, as a relation that has no infinite descent.
LEMMA NaturalOrder ==
  \E R : IsWellFoundedOn(R, Nat) /\ \A m, n \in Nat : n < m => <<n, m>> \in R
<1> DEFINE R == OpToRel(<, Nat)
<1>1. IsWellFoundedOn(R, Nat)
  BY NatLessThanWellFounded
<1>2. \A m, n \in Nat : n < m => <<n, m>> \in R
  BY DEF OpToRel
<1> HIDE DEF R
<1> WITNESS R
<1> QED BY <1>1, <1>2

LEMMA LeastNatural ==
  ASSUME NEW S \in SUBSET Nat, S # {}
  PROVE  \E m \in S : \A n \in S : m <= n
<1>1. PICK R : IsWellFoundedOn(R, Nat) /\ \A m, n \in Nat : n < m => <<n, m>> \in R
  BY NaturalOrder
<1>2. PICK m \in S : \A n \in S : ~(<<n, m>> \in R)
  BY <1>1, WFMin
<1>3. ASSUME NEW n \in S PROVE m <= n
  <2>1. m \in Nat /\ n \in Nat /\ ~(n < m)
    BY <1>1, <1>2
  <2> QED BY <2>1
<1> QED BY <1>3

LEMMA GreatestIndex ==
  ASSUME NEW n \in Nat, NEW S \in SUBSET (1..n), S # {}
  PROVE  \E m \in S : \A i \in S : i <= m
<1> DEFINE Gaps == {n - i : i \in S}
<1>1. Gaps \in SUBSET Nat /\ Gaps # {}
  OBVIOUS
<1>2. PICK g \in Gaps : \A h \in Gaps : g <= h
  BY <1>1, LeastNatural
<1>3. PICK m \in S : g = n - m
  OBVIOUS
<1>4. ASSUME NEW i \in S PROVE i <= m
  <2>1. n - i \in Gaps
    OBVIOUS
  <2>2. n - m <= n - i
    BY <2>1, <1>2, <1>3
  <2>3. i \in Int /\ m \in Int
    OBVIOUS
  <2> QED BY <2>2, <2>3
<1> QED BY <1>4

LEMMA AtIsIndices ==
  ASSUME NEW log \in Seq(Events), NEW p
  PROVE  At(log, p) \in SUBSET (1..Len(log)) /\ Len(log) \in Nat /\ DOMAIN log = 1..Len(log)
  BY DEF At

\* Without an event a position has no answer; else it has that of its last one.
LEMMA CurrentIsLast ==
  ASSUME NEW log \in Seq(Events), NEW p
  PROVE  /\ At(log, p) = {} => Current(log, p) = None
         /\ At(log, p) # {} =>
              \E i \in At(log, p) :
                Current(log, p) = log[i].answer /\ \A j \in At(log, p) : j <= i
<1>1. ASSUME At(log, p) # {}
      PROVE  \E i \in At(log, p) :
                Current(log, p) = log[i].answer /\ \A j \in At(log, p) : j <= i
  <2>1. \E i \in At(log, p) : \A j \in At(log, p) : j <= i
    BY <1>1, AtIsIndices, GreatestIndex
  <2> QED BY <2>1, <1>1 DEF Current
<1> QED BY <1>1 DEF Current

LEMMA CurrentIsAnswer ==
  ASSUME NEW log \in Seq(Events), NEW p
  PROVE  Current(log, p) \in Answers \cup {None} /\ (Current(log, p) = None <=> At(log, p) = {})
<1>1. ASSUME NEW i \in At(log, p) PROVE log[i].answer \in Answers
  <2>1. i \in 1..Len(log)
    BY AtIsIndices
  <2>2. log[i] \in Events
    BY <2>1
  <2> QED BY <2>2 DEF Events
<1>2. None \notin Answers
  BY PaperAssumption
<1> QED BY <1>1, <1>2, CurrentIsLast

\* An event more becomes the answer of its position, and leaves the others theirs.
LEMMA CurrentAppended ==
  ASSUME NEW log \in Seq(Events), NEW e \in Events, NEW p
  PROVE  Current(Append(log, e), p) = IF p = e.position THEN e.answer ELSE Current(log, p)
<1> DEFINE longer == Append(log, e)
           n == Len(log)
<1>1. /\ longer \in Seq(Events) /\ n \in Nat
      /\ DOMAIN log = 1..n /\ DOMAIN longer = 1..(n + 1)
      /\ \A i \in 1..n : longer[i] = log[i]
      /\ longer[n + 1] = e
  OBVIOUS
<1> HIDE DEF longer, n
<1>2. CASE p = e.position
  <2>1. n + 1 \in At(longer, p)
    BY <1>1, <1>2 DEF At
  <2>2. PICK i \in At(longer, p) :
          Current(longer, p) = longer[i].answer /\ \A j \in At(longer, p) : j <= i
    BY <2>1, <1>1, CurrentIsLast
  <2>3. i \in 1..(n + 1) /\ n + 1 <= i
    BY <2>1, <2>2, <1>1 DEF At
  <2>4. i = n + 1
    BY <2>3, <1>1
  <2> QED BY <2>2, <2>4, <1>1, <1>2 DEF longer
<1>3. CASE p # e.position
  <2>1. At(longer, p) = At(log, p)
    <3>1. ASSUME NEW i \in At(longer, p) PROVE i \in At(log, p)
      <4>1. i \in 1..(n + 1) /\ longer[i].position = p
        BY <3>1, <1>1 DEF At
      <4>2. i # n + 1
        BY <4>1, <1>1, <1>3
      <4>3. i \in 1..n
        BY <4>1, <4>2, <1>1
      <4> QED BY <4>1, <4>3, <1>1 DEF At
    <3>2. ASSUME NEW i \in At(log, p) PROVE i \in At(longer, p)
      <4>1. i \in 1..n /\ log[i].position = p
        BY <3>2, <1>1 DEF At
      <4>2. i \in 1..(n + 1)
        BY <4>1, <1>1
      <4> QED BY <4>1, <4>2, <1>1 DEF At
    <3> QED BY <3>1, <3>2
  <2>2. CASE At(log, p) = {}
    BY <2>1, <2>2, <1>3 DEF Current, longer
  <2>3. CASE At(log, p) # {}
    <3>1. PICK i \in At(log, p) :
            Current(log, p) = log[i].answer /\ \A j \in At(log, p) : j <= i
      BY <2>3, CurrentIsLast
    <3>2. PICK k \in At(longer, p) :
            Current(longer, p) = longer[k].answer /\ \A j \in At(longer, p) : j <= k
      BY <2>1, <2>3, <1>1, CurrentIsLast
    <3>3. i \in 1..n /\ k \in 1..n
      BY <2>1, <1>1 DEF At
    <3>4. i = k
      BY <3>1, <3>2, <3>3, <2>1
    <3> QED BY <3>1, <3>2, <3>3, <3>4, <1>1, <1>3 DEF longer
  <2> QED BY <2>2, <2>3
<1> QED BY <1>2, <1>3

-----------------------------------------------------------------------------
(* The result of a sitting.                                                *)

LEMMA OutcomeTyped ==
  ASSUME NEW place \in Places, NEW log \in Seq(Events), NEW p, NEW key
  PROVE  Outcome(place, log, p, key) \in Verdicts
<1> DEFINE S == At(log, p)
           o == Outcome(place, log, p, key)
<1>1. S \in SUBSET (1..Len(log)) /\ Len(log) \in Nat
  BY AtIsIndices
<1>2. Changes(log, p) \in Nat
  <2>1. IsFiniteSet(1..Len(log))
    BY <1>1, FS_Interval
  <2> DEFINE C == {i \in S : LET before == {j \in S : j < i} IN
                     before # {} /\ log[Max(before)].answer # log[i].answer}
  <2>2. IsFiniteSet(C)
    BY <1>1, <2>1, FS_Subset
  <2>3. Cardinality(C) \in Nat
    BY <2>2, FS_CardinalityType
  <2> QED BY <2>3 DEF Changes
<1>3. ASSUME S # {} PROVE log[Min(S)].at \in Nat /\ log[Max(S)].at \in Nat
  <2>1. \E m \in S : \A i \in S : m <= i
    BY <1>1, <1>3, LeastNatural
  <2>2. Min(S) \in S
    BY <2>1 DEF Min
  <2>3. \E m \in S : \A i \in S : i <= m
    BY <1>1, <1>3, GreatestIndex
  <2>4. \E m \in S : \A i \in S : m >= i
    BY <2>3, <1>1
  <2>5. Max(S) \in S
    BY <2>4 DEF Max
  <2>6. Min(S) \in 1..Len(log) /\ Max(S) \in 1..Len(log)
    BY <2>2, <2>5, <1>1
  <2>7. log[Min(S)] \in Events /\ log[Max(S)] \in Events
    BY <2>6
  <2> QED BY <2>7 DEF Events
<1>4. /\ Current(log, p) \in Answers \cup {None}
      /\ Current(log, p) # None => S # {}
  BY CurrentIsAnswer
<1> HIDE DEF S
<1>5. /\ (IF Current(log, p) = None THEN None ELSE log[Min(S)].at) \in Nat \cup {None}
      /\ (IF Current(log, p) = None THEN None ELSE log[Max(S)].at) \in Nat \cup {None}
  BY <1>3, <1>4
<1> QED BY <1>2, <1>4, <1>5 DEF Outcome, Verdicts, S

LEMMA ResultTyped ==
  ASSUME NEW paper \in Seq(Places), NEW log \in Seq(Events), NEW keys
  PROVE  Result(paper, log, keys) \in Seq(Verdicts) /\ DOMAIN Result(paper, log, keys) = DOMAIN paper
<1>1. DOMAIN paper = 1..Len(paper) /\ Len(paper) \in Nat
  OBVIOUS
<1>2. \A i \in DOMAIN paper : Outcome(paper[i], log, i, keys[paper[i].question]) \in Verdicts
  BY OutcomeTyped
<1>3. Result(paper, log, keys) \in [1..Len(paper) -> Verdicts]
  BY <1>1, <1>2 DEF Result
<1> QED BY <1>1, <1>3 DEF Result

\* The outcome of a position shows its last answer, with the grade of the key it was given.
LEMMA OutcomeFaithful ==
  ASSUME NEW place \in Places, NEW log \in Seq(Events), NEW p,
         NEW entry \in Entries \cup {None}, NEW o, o = Outcome(place, log, p, Reading(entry)), NEW entries, entry \in entries
  PROVE  Shows(o, place, log, p, entries)
<1>1. o.chosen = Current(log, p)
  BY DEF Outcome
<1>2. o.chosen = None <=> At(log, p) = {}
  BY <1>1, CurrentIsAnswer
<1>3. At(log, p) = {} <=> \A i \in DOMAIN log : log[i].position # p
  BY DEF At
<1>4. o.chosen # None =>
        \E i \in At(log, p) : log[i].answer = o.chosen /\ \A j \in At(log, p) : j <= i
  BY <1>1, <1>2, CurrentIsLast
<1>5. o.chosen # None => GradedBy(o, place, entry)
  <2>1. CASE entry = None
    BY <2>1 DEF Outcome, Graded, GradedBy, Reading
  <2>2. CASE entry # None
    <3> DEFINE key == Reading(entry)
    <3>1. key = [version |-> entry.version, correct |-> entry.key] /\ key \in AnswerKeys
      BY <2>2 DEF Reading, AnswerKeys, Entries
    <3>2. key # None /\ key.version = entry.version /\ key.correct = entry.key
      BY <3>1, NoneAssumption
    <3> HIDE DEF key
    <3>3. o = Outcome(place, log, p, key)
      BY DEF key
    <3> QED BY <2>2, <3>2, <3>3 DEF Outcome, Graded, GradedBy
  <2> QED BY <2>1, <2>2
<1> QED BY <1>2, <1>3, <1>4, <1>5 DEF Shows

\* The keys read of each question are of one of the entries it is given.
Among(keys, E) ==
  \A q \in Questions :
    E[q] \subseteq Entries \cup {None} /\ \E e \in E[q] : keys[q] = Reading(e)

LEMMA RowFaithful ==
  ASSUME NEW row \in Rows, NEW keys, row.result = Result(row.paper, row.events, keys),
         NEW E, Among(keys, E)
  PROVE  /\ DOMAIN row.result = DOMAIN row.paper
         /\ \A p \in DOMAIN row.paper :
              Shows(row.result[p], row.paper[p], row.events, p, E[row.paper[p].question])
<1>1. row.paper \in Seq(Places) /\ row.events \in Seq(Events)
  BY DEF Rows
<1>2. DOMAIN row.result = DOMAIN row.paper
  BY <1>1, ResultTyped
<1>3. ASSUME NEW p \in DOMAIN row.paper
      PROVE  Shows(row.result[p], row.paper[p], row.events, p, E[row.paper[p].question])
  <2>0. row.paper[p] \in Places
    BY <1>1
  <2>1. row.paper[p] \in Places /\ row.paper[p].question \in Questions
    BY <2>0 DEF Places
  <2>2. PICK e \in E[row.paper[p].question] : keys[row.paper[p].question] = Reading(e)
    BY <2>1 DEF Among
  <2>4. e \in Entries \cup {None}
    BY <2>1, <2>2 DEF Among
  <2>3. row.result[p] = Outcome(row.paper[p], row.events, p, Reading(e))
    BY <2>2 DEF Result
  <2> QED BY <1>1, <2>1, <2>2, <2>3, <2>4, OutcomeFaithful
<1> QED BY <1>2, <1>3

-----------------------------------------------------------------------------
(* Rows only grow, and what a request knows of its row stays true.         *)

\* The row b is the row a at a later moment.
Later(a, b) ==
  /\ b # None
  /\ b.startedAt = a.startedAt /\ b.deadline = a.deadline /\ b.paper = a.paper
  /\ a.status # "in_progress" => b = a
  /\ \A i \in DOMAIN a.events : i \in DOMAIN b.events /\ b.events[i] = a.events[i]

Grows(rows, later) == \A s \in Sims : rows[s] # None => Later(rows[s], later[s])

LEMMA GrowsSelf ==
  ASSUME NEW rows
  PROVE  Grows(rows, rows)
  BY DEF Grows, Later

LEMMA BlankStays ==
  ASSUME NEW row, NEW t \in Nat, NEW u \in Nat, t <= u, RowOK(row, t)
  PROVE  RowOK(row, u) /\ (Blank(row, t) => Blank(row, u))
<1>1. row.startedAt \in Nat
  BY DEF RowOK, Rows
<1>2. row.startedAt <= u
  BY <1>1 DEF RowOK
<1> QED BY <1>2 DEF RowOK, Blank

LEMMA CallStays ==
  ASSUME NEW q, NEW rows, NEW later, NEW t \in Nat, NEW u \in Nat, t <= u,
         CallOK(q, rows, t), Grows(rows, later)
  PROVE  CallOK(q, later, u)
<1> DEFINE row == rows[q.sim]
           next == later[q.sim]
<1>1. q \in Calls /\ q.at \in Nat /\ q.sim \in Sims \cup {None}
  BY DEF CallOK, Calls
<1>2. q.at <= u
  BY <1>1 DEF CallOK
<1>3. q.sim # None => Later(row, next)
  BY <1>1 DEF CallOK, Grows
<1>4. q.sim # None /\ ~KeysNeeded(row, q.op, q.at) => ~KeysNeeded(next, q.op, q.at)
  BY <1>3 DEF Later, KeysNeeded, PastDeadline
<1>5. q.sim # None /\ Logged(q, row) => Logged(q, next)
  BY <1>3 DEF Later, Logged
<1>6. q.sim # None => next # None /\ next.startedAt = row.startedAt
                      /\ next.deadline = row.deadline /\ next.paper = row.paper
  BY <1>3 DEF Later
<1>7. q.pc = "insert" => q.draft # None /\ Blank(q.draft, u)
  BY BlankStays DEF CallOK, Blank
<1> QED BY <1>1, <1>2, <1>4, <1>5, <1>6, <1>7 DEF CallOK, Deciding

LEMMA ClockTyped ==
  ASSUME BankOK
  PROVE  now \in Nat /\ now <= MaxTime
  BY SimulationAssumption DEF BankOK

\* A request moves on while the rows it left grow.
LEMMA OneCall ==
  ASSUME CallsOK, NEW later, NEW t \in Nat, now \in Nat, now <= t, Grows(sims, later),
         NEW r \in Requests, NEW q, CallOK(q, later, t)
  PROVE  LET calls == [reqs EXCEPT ![r] = q] IN
         /\ calls = [p \in Requests |-> calls[p]]
         /\ \A p \in Requests : CallOK(calls[p], later, t)
<1> DEFINE calls == [reqs EXCEPT ![r] = q]
<1>1. calls = [p \in Requests |-> IF p = r THEN q ELSE reqs[p]]
  BY DEF CallsOK
<1>2. ASSUME NEW p \in Requests PROVE CallOK(calls[p], later, t)
  <2>1. CallOK(reqs[p], later, t)
    BY CallStays DEF CallsOK
  <2> QED BY <2>1, <1>1
<1> QED BY <1>1, <1>2

\* A step that changes nothing but the variables of one request.
LEMMA Moves ==
  ASSUME SInv, NEW r \in Requests, NEW q, CallOK(q, sims, now),
         reqs' = [reqs EXCEPT ![r] = q], UNCHANGED <<sims, catalog, replaced, now>>
  PROVE  SInv'
<1>1. CallsOK'
  BY OneCall, GrowsSelf, ClockTyped DEF SInv, CallsOK
<1> QED BY <1>1 DEF SInv, RowsOK, BankOK

\* A step that also writes the row s.
LEMMA Writes ==
  ASSUME SInv, NEW r \in Requests, NEW q, NEW s \in Sims, NEW row, RowOK(row, now),
         sims[s] # None => Later(sims[s], row),
         sims' = [sims EXCEPT ![s] = row], CallOK(q, sims', now),
         reqs' = [reqs EXCEPT ![r] = q], UNCHANGED <<catalog, replaced, now>>
  PROVE  SInv'
<1>1. \A x \in Sims : sims'[x] = IF x = s THEN row ELSE sims[x]
  BY DEF SInv, RowsOK
<1>2. sims' = [x \in Sims |-> sims'[x]]
  BY DEF SInv, RowsOK
<1>3. Grows(sims, sims')
  BY <1>1 DEF Grows, Later
<1>4. RowsOK'
  BY <1>1, <1>2 DEF SInv, RowsOK
<1>5. /\ reqs' = [p \in Requests |-> reqs'[p]]
      /\ \A p \in Requests : CallOK(reqs'[p], sims', now)
  <2>1. CallsOK /\ now \in Nat /\ now <= now
    BY ClockTyped DEF SInv
  <2> QED BY <1>3, <2>1, OneCall
<1> QED BY <1>4, <1>5 DEF SInv, BankOK, CallsOK

-----------------------------------------------------------------------------
(* The steps of a request that read.                                       *)

\* A request that is answered with something that claims nothing of a row.
LEMMA Told ==
  ASSUME NEW q, NEW rows, NEW t \in Nat, CallOK(q, rows, t), NEW told \in Replies,
         told = "recorded" => q.sim # None /\ Logged(q, rows[q.sim]),
         told \in InTime /\ q.sim # None => q.at < rows[q.sim].deadline
  PROVE  CallOK(Replied(q, told), rows, t)
<1>1. CASE told \in InTime
  <2> DEFINE c == [q EXCEPT !.pc = "done", !.told = told, !.draft = None, !.then = "lock",
                            !.keys = None, !.content = None]
  <2>1. q \in Calls
    BY DEF CallOK
  <2>2. c \in Calls
    BY <2>1 DEF Calls, Steps
  <2>3. c.pc = "done" /\ c.told = told /\ c.sim = q.sim /\ c.at = q.at /\ Event(c) = Event(q)
    BY <2>1 DEF Calls, Event
  <2> HIDE DEF c
  <2>4. CallOK(c, rows, t)
    BY <2>2, <2>3 DEF CallOK, Deciding, Logged
  <2> QED BY <1>1, <2>4 DEF Replied, c
<1>2. CASE told \notin InTime
  <2> DEFINE c == [Idle EXCEPT !.pc = "done", !.told = told]
  <2>1. c \in Calls /\ c.pc = "done" /\ c.at = 0 /\ c.sim = None /\ c.told = told
    BY DEF Idle, Calls, Steps, Ops
  <2>2. told # "recorded"
    BY <1>2 DEF InTime
  <2> HIDE DEF c
  <2>3. CallOK(c, rows, t)
    BY <2>1, <2>2 DEF CallOK, Deciding
  <2> QED BY <1>2, <2>3 DEF Replied, c
<1> QED BY <1>1, <1>2

LEMMA Starting ==
  ASSUME SInv, NEW r \in Requests, AskStart(r)
  PROVE  SInv'
<1> DEFINE q == [reqs[r] EXCEPT !.pc = "find", !.op = "start", !.at = now]
<1>1. CallOK(reqs[r], sims, now) /\ reqs[r] \in Calls /\ now \in Nat
  BY ClockTyped DEF SInv, CallsOK, CallOK
<1>2. reqs[r].told = "nothing"
  BY <1>1 DEF CallOK, AskStart
<1>3. q \in Calls /\ q.pc = "find" /\ q.op = "start" /\ q.at = now /\ q.sim = reqs[r].sim
      /\ q.told = "nothing"
  BY <1>1, <1>2 DEF Calls, Steps, Ops
<1> HIDE DEF q
<1>4. CallOK(q, sims, now)
  BY <1>1, <1>3 DEF CallOK, Deciding, InTime
<1> QED BY <1>4, Moves DEF AskStart, q

LEMMA Finding ==
  ASSUME SInv, NEW r \in Requests, Find(r)
  PROVE  SInv'
<1>1. CallOK(reqs[r], sims, now) /\ reqs[r] \in Calls /\ reqs[r].pc = "find" /\ now \in Nat
  BY ClockTyped DEF SInv, CallsOK, CallOK, Find
<1>2. reqs[r].told = "nothing"
  BY <1>1 DEF CallOK
<1>3. CASE To(r, "assemble")
  <2> DEFINE q == [reqs[r] EXCEPT !.pc = "assemble"]
  <2>1. q \in Calls /\ q.pc = "assemble" /\ q.op = reqs[r].op /\ q.at = reqs[r].at /\ q.sim = reqs[r].sim
        /\ q.told = "nothing"
    BY <1>1, <1>2 DEF Calls, Steps
  <2> HIDE DEF q
  <2>2. CallOK(q, sims, now)
    BY <1>1, <2>1 DEF CallOK, Deciding, InTime
  <2> QED BY <1>3, <2>2, Moves DEF To, Find, q
<1>4. CASE Tell(r, "simulation_not_found")
  BY <1>1, <1>4, Told, Moves DEF Tell, Find, Replies, InTime
<1>5. ASSUME NEW s \in Running,
             reqs' = [reqs EXCEPT ![r] = [@ EXCEPT !.pc = "row", !.sim = s]]
      PROVE  SInv'
  <2> DEFINE q == [reqs[r] EXCEPT !.pc = "row", !.sim = s]
  <2>1. s \in Sims /\ sims[s] # None /\ s # None
    BY NoneAssumption DEF Running
  <2>2. q \in Calls /\ q.pc = "row" /\ q.op = reqs[r].op /\ q.at = reqs[r].at /\ q.sim = s
        /\ q.told = "nothing"
    BY <1>1, <1>2, <2>1 DEF Calls, Steps
  <2> HIDE DEF q
  <2>3. CallOK(q, sims, now)
    BY <1>1, <2>1, <2>2 DEF CallOK, Deciding, InTime
  <2> QED BY <1>5, <2>3, Moves DEF Find, q
<1> QED BY <1>3, <1>4, <1>5 DEF Find

LEMMA ReadingRow ==
  ASSUME SInv, NEW r \in Requests, Row(r)
  PROVE  SInv'
<1> DEFINE row == sims[reqs[r].sim]
<1>1. CallOK(reqs[r], sims, now) /\ reqs[r] \in Calls /\ reqs[r].pc = "row" /\ now \in Nat
  BY ClockTyped DEF SInv, CallsOK, CallOK, Row
<1>2. reqs[r].told = "nothing" /\ reqs[r].sim # None
  BY <1>1 DEF CallOK
<1>3. CASE row.status = "in_progress"
  <2> DEFINE pc == BeforeLock(row, reqs[r].op, reqs[r].at)
             q == [reqs[r] EXCEPT !.pc = pc]
  <2>1. /\ pc \in {"keys", "lock"}
        /\ pc = "lock" => ~KeysNeeded(row, reqs[r].op, reqs[r].at)
    BY DEF BeforeLock
  <2> HIDE DEF pc
  <2>2. q \in Calls /\ q.pc = pc /\ q.at = reqs[r].at /\ q.sim = reqs[r].sim
        /\ q.op = reqs[r].op /\ q.told = "nothing" /\ q.keys = reqs[r].keys
    BY <1>1, <1>2, <2>1 DEF Calls, Steps
  <2>3. reqs[r].op \notin {"answer", "submit"}
    BY <1>1 DEF CallOK
  <2> HIDE DEF q
  <2>4. CallOK(q, sims, now)
    BY <1>1, <1>2, <2>1, <2>2, <2>3 DEF CallOK, InTime
  <2> QED BY <1>3, <2>4, Moves DEF Row, To, q, pc
<1>4. CASE To(r, "assemble")
  <2> DEFINE q == [reqs[r] EXCEPT !.pc = "assemble"]
  <2>1. q \in Calls /\ q.pc = "assemble" /\ q.op = reqs[r].op /\ q.at = reqs[r].at /\ q.sim = reqs[r].sim
        /\ q.told = "nothing"
    BY <1>1, <1>2 DEF Calls, Steps
  <2> HIDE DEF q
  <2>2. CallOK(q, sims, now)
    BY <1>1, <2>1 DEF CallOK, Deciding, InTime
  <2> QED BY <1>4, <2>2, Moves DEF To, Row, q
<1>5. ASSUME row.status # "in_progress", Tell(r, row.status) PROVE SInv'
  <2>1. row \in Rows
    BY <1>1, <1>2 DEF SInv, RowsOK, RowOK, CallOK, Calls
  <2>2. row.status \in Replies /\ row.status \notin InTime
    BY <2>1, <1>5 DEF Rows, Ended, Replies, InTime
  <2> QED BY <1>1, <1>5, <2>2, Told, Moves DEF Tell, Row, InTime
<1> QED BY <1>3, <1>4, <1>5 DEF Row

LEMMA PaperTyped ==
  ASSUME NEW d \in Definitions, NEW bank \in [Questions -> Entries \cup {None}],
         Assembles(d.config, d.selection, bank)
  PROVE  Paper(d.config, d.selection, bank) \in Seq(Places)
<1> DEFINE places == Layout(d.config, d.selection)
<1>1. places \in Seq([section : STRING, question : Questions])
  BY LayoutAssumption
<1>2. DOMAIN places = 1..Len(places) /\ Len(places) \in Nat
  BY <1>1
<1>3. ASSUME NEW i \in DOMAIN places
      PROVE  [section |-> places[i].section, question |-> places[i].question,
              version |-> bank[places[i].question].version] \in Places
  <2> DEFINE Spots == [section : STRING, question : Questions]
  <2> HIDE DEF places, Spots
  <2>1. places \in Seq(Spots) /\ i \in 1..Len(places)
    BY <1>1, <1>2 DEF Spots
  <2>2. places[i] \in Spots
    BY <2>1
  <2>3. bank[places[i].question] # None
    BY <1>3 DEF Assembles, Admissible, places
  <2>4. bank[places[i].question] \in Entries
    BY <2>2, <2>3 DEF Spots
  <2> QED BY <2>2, <2>4 DEF Entries, Places, Spots
<1>4. Paper(d.config, d.selection, bank) \in [1..Len(places) -> Places]
  BY <1>2, <1>3 DEF Paper
<1> QED BY <1>2, <1>4

\* A simulation that starts at a time there has been.
LEMMA StartsBlank ==
  ASSUME NEW d \in Definitions, NEW bank \in [Questions -> Entries \cup {None}],
         Assembles(d.config, d.selection, bank), NEW at \in Nat, NEW t \in Nat, at <= t
  PROVE  LET row == StartSimulation(d.config, Paper(d.config, d.selection, bank), at) IN
         row # None /\ Blank(row, t)
<1> DEFINE paper == Paper(d.config, d.selection, bank)
           row == StartSimulation(d.config, paper, at)
<1>1. paper \in Seq(Places) /\ d.config.duration \in Nat
  BY PaperTyped, SimulationAssumption
<1> HIDE DEF paper
<1>2. row \in Rows
  BY <1>1 DEF StartSimulation, Rows
<1>3. row # None
  BY <1>2, NoneAssumption
<1>4. RowOK(row, t)
  BY <1>2 DEF RowOK, StartSimulation, Ended
<1> QED BY <1>3, <1>4 DEF Blank, StartSimulation, paper

LEMMA Assembling ==
  ASSUME SInv, NEW r \in Requests, Assemble(r)
  PROVE  SInv'
<1>1. CallOK(reqs[r], sims, now) /\ reqs[r] \in Calls /\ reqs[r].pc = "assemble"
  BY DEF SInv, CallsOK, CallOK, Assemble
<1>2. reqs[r].told = "nothing" /\ reqs[r].op \in {"start", "recover"}
      /\ reqs[r].at \in Nat /\ reqs[r].at <= now /\ now \in Nat
  BY <1>1, ClockTyped DEF CallOK, Calls, SInv
<1>3. ASSUME NEW told \in {"no_simulation_configured", "invalid"}, Tell(r, told)
      PROVE  SInv'
  BY <1>1, <1>2, <1>3, Told, Moves DEF Tell, Assemble, Replies, InTime
<1>4. ASSUME NEW d \in Definitions, Assembles(d.config, d.selection, catalog),
             reqs' = [reqs EXCEPT ![r] = [@ EXCEPT !.pc = "insert", !.sim = None, !.keys = None,
                 !.draft = StartSimulation(d.config, Paper(d.config, d.selection, catalog),
                                           reqs[r].at)]]
      PROVE  SInv'
  <2> DEFINE draft == StartSimulation(d.config, Paper(d.config, d.selection, catalog), reqs[r].at)
             q == [reqs[r] EXCEPT !.pc = "insert", !.sim = None, !.keys = None, !.draft = draft]
  <2>1. draft # None /\ Blank(draft, now)
    BY <1>2, <1>4, StartsBlank DEF SInv, BankOK
  <2> HIDE DEF draft
  <2>2. draft \in Rows
    BY <2>1 DEF Blank, RowOK
  <2>3. q \in Calls /\ q.pc = "insert" /\ q.op = reqs[r].op /\ q.at = reqs[r].at /\ q.sim = None
        /\ q.told = "nothing" /\ q.draft = draft
    BY <1>1, <1>2, <2>2 DEF Calls, Steps
  <2> HIDE DEF q
  <2>4. CallOK(q, sims, now)
    BY <1>2, <2>1, <2>3 DEF CallOK, Deciding
  <2> QED BY <1>4, <2>4, Moves DEF Assemble, q, draft
<1> QED BY <1>3, <1>4 DEF Assemble

LEMMA Conflicting ==
  ASSUME SInv, NEW r \in Requests, Conflict(r)
  PROVE  SInv'
<1>1. CallOK(reqs[r], sims, now) /\ reqs[r] \in Calls /\ reqs[r].pc = "conflict" /\ now \in Nat
  BY ClockTyped DEF SInv, CallsOK, CallOK, Conflict
<1>2. reqs[r].told = "nothing"
  BY <1>1 DEF CallOK
<1>3. CASE Tell(r, "error")
  BY <1>1, <1>3, Told, Moves DEF Tell, Conflict, Replies, InTime
<1>4. CASE reqs' = [reqs EXCEPT ![r] = [@ EXCEPT !.pc = "find", !.op = "recover"]]
  <2> DEFINE q == [reqs[r] EXCEPT !.pc = "find", !.op = "recover"]
  <2>1. q \in Calls /\ q.pc = "find" /\ q.op = "recover" /\ q.at = reqs[r].at
        /\ q.sim = reqs[r].sim /\ q.told = "nothing"
    BY <1>1, <1>2 DEF Calls, Steps, Ops
  <2> HIDE DEF q
  <2>2. CallOK(q, sims, now)
    BY <1>1, <2>1 DEF CallOK, Deciding, InTime
  <2> QED BY <1>4, <2>2, Moves DEF Conflict, q
<1> QED BY <1>3, <1>4 DEF Conflict

LEMMA Failing ==
  ASSUME SInv, NEW r \in Requests, Fail(r)
  PROVE  SInv'
<1>1. CallOK(reqs[r], sims, now) /\ now \in Nat
  BY ClockTyped DEF SInv, CallsOK
<1>2. CallOK(Replied(reqs[r], "error"), sims, now)
  BY <1>1, Told DEF Replies, InTime
<1> QED BY <1>2, Moves DEF Fail, Tell

LEMMA Inserting ==
  ASSUME SInv, NEW r \in Requests, Insert(r)
  PROVE  SInv'
<1>1. CallOK(reqs[r], sims, now) /\ reqs[r] \in Calls /\ reqs[r].pc = "insert"
  BY DEF SInv, CallsOK, CallOK, Insert
<1>2. /\ reqs[r].told = "nothing" /\ reqs[r].op \in {"start", "recover"}
      /\ RowOK(reqs[r].draft, now)
  BY <1>1 DEF CallOK, Blank
<1>3. ASSUME NEW s \in Sims, sims[s] = None, sims' = [sims EXCEPT ![s] = reqs[r].draft],
             Tell(r, "created")
      PROVE  SInv'
  <2>1. reqs[r].draft # None
    BY <1>1 DEF CallOK
  <2>2. sims' = [x \in Sims |-> IF x = s THEN reqs[r].draft ELSE sims[x]]
    BY <1>3 DEF SInv, RowsOK
  <2>3. Grows(sims, sims')
    BY <1>3, <2>2 DEF Grows, Later
  <2>4. CallOK(reqs[r], sims', now)
    BY <1>1, <2>3, CallStays, ClockTyped DEF SInv
  <2>5. CallOK(Replied(reqs[r], "created"), sims', now)
    BY <2>4, Told, ClockTyped DEF SInv, Replies, InTime
  <2> QED BY <1>2, <1>3, <2>5, Writes DEF Insert, Tell
<1>4. CASE To(r, "conflict") /\ UNCHANGED sims
  <2> DEFINE q == [reqs[r] EXCEPT !.pc = "conflict"]
  <2>1. q \in Calls /\ q.pc = "conflict" /\ q.op = reqs[r].op /\ q.at = reqs[r].at
        /\ q.sim = reqs[r].sim /\ q.told = "nothing"
    BY <1>1, <1>2 DEF Calls, Steps
  <2> HIDE DEF q
  <2>2. CallOK(q, sims, now)
    BY <1>1, <2>1 DEF CallOK, Deciding, InTime
  <2> QED BY <1>4, <2>2, Moves DEF Insert, To, q
<1> QED BY <1>3, <1>4 DEF Insert

LEMMA Asking ==
  ASSUME SInv, NEW r \in Requests, NEW op \in Ops \ {"none", "start", "recover"}, NEW s \in Sims,
         NEW position \in Positions \cup {0}, NEW answer \in Answers \cup {None},
         op = "answer" => position \in Positions /\ answer \in Answers,
         Ask(r, op, s, position, answer)
  PROVE  SInv'
<1> DEFINE row == sims[s]
           then == BeforeLock(row, op, now)
           asked == [reqs[r] EXCEPT !.op = op, !.sim = s, !.at = now, !.position = position,
                                    !.answer = answer, !.then = then]
<1>1. CallOK(reqs[r], sims, now) /\ reqs[r] \in Calls /\ reqs[r].pc = "idle" /\ now \in Nat
  BY ClockTyped DEF SInv, CallsOK, CallOK, Ask
<1>2. reqs[r].told = "nothing" /\ row # None /\ RowOK(row, now) /\ s # None
  BY <1>1, NoneAssumption DEF CallOK, Ask, SInv, RowsOK
<1>3. /\ then \in {"keys", "lock"}
      /\ then = "lock" => ~KeysNeeded(row, op, now)
  BY DEF BeforeLock
<1> HIDE DEF then
<1>4. /\ asked \in Calls
      /\ asked.op = op /\ asked.sim = s /\ asked.at = now /\ asked.position = position
      /\ asked.answer = answer /\ asked.then = then /\ asked.told = "nothing"
  BY <1>1, <1>2, <1>3 DEF Calls
<1> HIDE DEF asked
<1>5. CASE /\ row.status \in Ended
           /\ reqs' = [reqs EXCEPT ![r] = Replied(asked, row.status)]
  <2> DEFINE q == [Idle EXCEPT !.pc = "done", !.told = row.status]
  <2>1. Replied(asked, row.status) = q
    BY <1>5 DEF Replied, Ended, InTime
  <2>2. q \in Calls /\ q.pc = "done" /\ q.sim = None /\ q.at = 0 /\ q.told \in Ended
    BY <1>5 DEF Idle, Calls, Steps, Ops, Replies
  <2> HIDE DEF q
  <2>3. CallOK(q, sims, now)
    BY <1>1, <2>2 DEF CallOK, Deciding, Ended
  <2> QED BY <1>5, <2>1, <2>3, Moves DEF Ask
<1>6. CASE /\ op = "answer" /\ position \in DOMAIN row.paper
           /\ reqs' = [reqs EXCEPT ![r] = [asked EXCEPT !.pc = "content"]]
  <2> DEFINE q == [asked EXCEPT !.pc = "content"]
  <2>1. /\ q \in Calls /\ q.pc = "content"
        /\ q.op = op /\ q.sim = s /\ q.at = now /\ q.position = position
        /\ q.answer = answer /\ q.then = then /\ q.told = "nothing"
    BY <1>4 DEF Calls, Steps
  <2> HIDE DEF q
  <2>2. CallOK(q, sims, now)
    BY <1>1, <1>2, <1>3, <1>6, <2>1 DEF CallOK, RowOK, InTime
  <2> QED BY <1>6, <2>2, Moves DEF Ask, q
<1>7. CASE reqs' = [reqs EXCEPT ![r] = [asked EXCEPT !.pc = then]]
  <2> DEFINE q == [asked EXCEPT !.pc = then]
  <2>1. /\ q \in Calls /\ q.pc = then
        /\ q.op = op /\ q.sim = s /\ q.at = now /\ q.position = position
        /\ q.answer = answer /\ q.told = "nothing"
    BY <1>3, <1>4 DEF Calls, Steps
  <2> HIDE DEF q
  <2>2. CallOK(q, sims, now)
    BY <1>1, <1>2, <1>3, <2>1 DEF CallOK, RowOK, InTime
  <2> QED BY <1>7, <2>2, Moves DEF Ask, q
<1> QED BY <1>5, <1>6, <1>7 DEF Ask, asked, then

LEMMA AskingAny ==
  ASSUME SInv, NEW r \in Requests, AskRead(r) \/ AskSubmit(r) \/ AskAnswer(r)
  PROVE  SInv'
<1>1. CASE AskRead(r)
  BY <1>1, Asking DEF AskRead, Reads, Ops
<1>2. CASE AskSubmit(r)
  BY <1>2, Asking DEF AskSubmit, Ops
<1>3. CASE AskAnswer(r)
  BY <1>3, Asking DEF AskAnswer, Ops
<1> QED BY <1>1, <1>2, <1>3

LEMMA ReadingContent ==
  ASSUME SInv, NEW r \in Requests, Content(r)
  PROVE  SInv'
<1> DEFINE row == sims[reqs[r].sim]
           q == [reqs[r] EXCEPT !.content = Published(r), !.pc = reqs[r].then]
<1>1. CallOK(reqs[r], sims, now) /\ reqs[r] \in Calls /\ reqs[r].pc = "content"
  BY DEF SInv, CallsOK, CallOK, Content
<1>2. /\ reqs[r].told = "nothing" /\ reqs[r].sim # None /\ row \in Rows
      /\ reqs[r].position \in DOMAIN row.paper
  BY <1>1 DEF CallOK, Deciding, SInv, RowsOK, RowOK, Calls
<1>3. Published(r) \in Contents \cup {None}
  <2>1. row.paper \in Seq(Places)
    BY <1>2 DEF Rows
  <2>2. row.paper[reqs[r].position] \in Places
    BY <1>2, <2>1
  <2>3. catalog[row.paper[reqs[r].position].question] \in Entries \cup {None}
    BY <2>2 DEF SInv, BankOK, Places
  <2> QED BY <2>3 DEF Published, Entries, Contents
<1>4. /\ q \in Calls /\ q.pc = reqs[r].then /\ q.op = reqs[r].op /\ q.sim = reqs[r].sim
      /\ q.at = reqs[r].at /\ q.position = reqs[r].position /\ q.answer = reqs[r].answer
      /\ q.told = "nothing" /\ q.then = reqs[r].then /\ reqs[r].then \in {"lock", "keys"}
  BY <1>1, <1>2, <1>3 DEF Calls, Steps
<1> HIDE DEF q
<1>5. CallOK(q, sims, now)
  BY <1>1, <1>2, <1>4 DEF CallOK, Deciding, InTime
<1> QED BY <1>5, Moves DEF Content, q

LEMMA ReadingKeys ==
  ASSUME SInv, NEW r \in Requests, Keys(r)
  PROVE  SInv'
<1> DEFINE keys == [x \in Questions |-> Reading(catalog[x])]
           q == [reqs[r] EXCEPT !.keys = keys, !.pc = "lock"]
<1>1. CallOK(reqs[r], sims, now) /\ reqs[r] \in Calls /\ reqs[r].pc = "keys"
  BY DEF SInv, CallsOK, CallOK, Keys
<1>2. reqs[r].told = "nothing"
  BY <1>1 DEF CallOK
<1>3. keys \in Readings /\ keys # None
  BY NoneAssumption DEF Reading, Readings, AnswerKeys, SInv, BankOK, Entries
<1> HIDE DEF keys
<1>4. /\ q \in Calls /\ q.pc = "lock" /\ q.op = reqs[r].op /\ q.sim = reqs[r].sim
      /\ q.at = reqs[r].at /\ q.position = reqs[r].position /\ q.answer = reqs[r].answer
      /\ q.told = "nothing" /\ q.keys = keys
  BY <1>1, <1>2, <1>3 DEF Calls, Steps
<1> HIDE DEF q
<1>5. CallOK(q, sims, now)
  BY <1>1, <1>3, <1>4 DEF CallOK, Deciding, InTime
<1> QED BY <1>5, Moves DEF Keys, q, keys

-----------------------------------------------------------------------------
(* The transaction on the locked row.                                      *)

\* What a request at the lock knows.
LEMMA Locked ==
  ASSUME SInv, NEW r \in Requests, reqs[r].pc = "lock"
  PROVE  LET row == sims[reqs[r].sim] IN
         /\ CallOK(reqs[r], sims, now) /\ reqs[r] \in Calls /\ now \in Nat
         /\ reqs[r].sim \in Sims /\ row # None /\ row \in Rows /\ RowOK(row, now)
         /\ reqs[r].told = "nothing"
         /\ reqs[r].keys = None => ~KeysNeeded(row, reqs[r].op, reqs[r].at)
         /\ reqs[r].op \in {"answer", "submit"} => row.startedAt <= reqs[r].at
         /\ reqs[r].op = "answer" => reqs[r].position \in Positions /\ reqs[r].answer \in Answers
         /\ reqs[r].at \in Nat /\ reqs[r].at <= now
<1>1. CallOK(reqs[r], sims, now) /\ reqs[r] \in Calls /\ now \in Nat
  BY ClockTyped DEF SInv, CallsOK, CallOK
<1>2. reqs[r].sim \in Sims /\ sims[reqs[r].sim] # None
  BY <1>1 DEF CallOK, Calls, Deciding
<1>3. RowOK(sims[reqs[r].sim], now)
  BY <1>2 DEF SInv, RowsOK
<1>4. reqs[r].at \in Nat
  BY <1>1 DEF Calls
<1> QED BY <1>1, <1>2, <1>3, <1>4 DEF CallOK, RowOK, Deciding

\* A request that settles the simulation goes on with its status.
LEMMA Settling ==
  ASSUME NEW r \in Requests, NEW rows, NEW status, now \in Nat, CallOK(reqs[r], rows, now),
         reqs[r].pc = "lock", reqs[r].told = "nothing", status \in Ended \cup {"in_progress"},
         reqs[r].op \notin {"answer", "submit"},
         status = "in_progress" => reqs[r].at < rows[reqs[r].sim].deadline,
         sims[reqs[r].sim].paper = rows[reqs[r].sim].paper,
         Settled(r, status)
  PROVE  \E q : reqs' = [reqs EXCEPT ![r] = q] /\ CallOK(q, rows, now)
<1>1. reqs[r] \in Calls
  BY DEF CallOK
<1>2. ASSUME reqs[r].op = "start", To(r, "assemble")
      PROVE  \E q : reqs' = [reqs EXCEPT ![r] = q] /\ CallOK(q, rows, now)
  <2> DEFINE q == [reqs[r] EXCEPT !.pc = "assemble"]
  <2>1. q \in Calls /\ q.pc = "assemble" /\ q.op = "start" /\ q.at = reqs[r].at
        /\ q.sim = reqs[r].sim /\ q.told = "nothing"
    BY <1>1, <1>2 DEF Calls, Steps
  <2> HIDE DEF q
  <2>2. CallOK(q, rows, now)
    BY <1>1, <2>1 DEF CallOK, Deciding, InTime
  <2> QED BY <1>2, <2>2 DEF To, q
<1>3. ASSUME status = "in_progress", To(r, "serve"),
             reqs[r].position \in DOMAIN sims[reqs[r].sim].paper
      PROVE  \E q : reqs' = [reqs EXCEPT ![r] = q] /\ CallOK(q, rows, now)
  <2> DEFINE q == [reqs[r] EXCEPT !.pc = "serve"]
  <2>1. q \in Calls /\ q.pc = "serve" /\ q.at = reqs[r].at /\ q.position = reqs[r].position
        /\ q.sim = reqs[r].sim /\ q.told = "nothing"
    BY <1>1 DEF Calls, Steps
  <2> HIDE DEF q
  <2>2. CallOK(q, rows, now)
    BY <1>1, <1>3, <2>1 DEF CallOK, Deciding, InTime
  <2> QED BY <1>3, <2>2 DEF To, q
<1>4. ASSUME NEW told \in {"invalid_position", status}, Tell(r, told)
      PROVE  \E q : reqs' = [reqs EXCEPT ![r] = q] /\ CallOK(q, rows, now)
  BY <1>4, Told DEF Tell, Replies, InTime, Ended
<1> QED BY <1>2, <1>3, <1>4 DEF Settled

\* A row that ends by a decision at its deadline, or at a time before it.
LEMMA Finalizes ==
  ASSUME NEW row, NEW t, RowOK(row, t), row # None, row.status = "in_progress",
         NEW keys \in Readings, NEW at \in Nat, NEW status \in Ended,
         status = "expired" => at = row.deadline,
         status = "submitted" => row.startedAt <= at /\ at < row.deadline
  PROVE  LET ended == Finalized(row, status, at, keys) IN
         /\ RowOK(ended, t) /\ Later(row, ended) /\ ended.paper = row.paper
         /\ ended.deadline = row.deadline
<1> DEFINE result == Result(row.paper, row.events, keys)
           ended == Finalized(row, status, at, keys)
<1>1. row \in Rows /\ result \in Seq(Verdicts)
  BY ResultTyped DEF RowOK, Rows
<1> HIDE DEF result
<1>2. /\ ended \in Rows
      /\ ended.status = status /\ ended.finalizedAt = at /\ ended.result = result
      /\ ended.startedAt = row.startedAt /\ ended.deadline = row.deadline
      /\ ended.paper = row.paper /\ ended.events = row.events
  BY <1>1 DEF Finalized, Rows, result
<1> HIDE DEF ended
<1>3. ended # None /\ at # None
  BY <1>2, NoneAssumption
<1>4. RowOK(ended, t)
  BY <1>2, <1>3 DEF RowOK, Ended, result
<1> QED BY <1>2, <1>3, <1>4 DEF Later, ended

\* The request's own row is written, and the request knows of it what it knew.
LEMMA WritesOwn ==
  ASSUME SInv, NEW r \in Requests, reqs[r].pc = "lock", NEW row,
         Later(sims[reqs[r].sim], row), sims' = [sims EXCEPT ![reqs[r].sim] = row]
  PROVE  CallOK(reqs[r], sims', now) /\ sims'[reqs[r].sim] = row
<1>1. sims' = [s \in Sims |-> IF s = reqs[r].sim THEN row ELSE sims[s]]
  BY DEF SInv, RowsOK
<1>2. Grows(sims, sims')
  BY <1>1 DEF Grows, Later
<1>3. now \in Nat /\ now <= now /\ CallOK(reqs[r], sims, now) /\ reqs[r].sim \in Sims
  BY Locked
<1> QED BY <1>1, <1>2, <1>3, CallStays

LEMMA Expiring ==
  ASSUME SInv, NEW r \in Requests, Expire(r)
  PROVE  SInv'
<1> DEFINE row == sims[reqs[r].sim]
           ended == Finalized(row, "expired", row.deadline, reqs[r].keys)
<1>1. reqs[r].pc = "lock" /\ PastDeadline(row, reqs[r].at)
  BY DEF Expire
<1>2. reqs[r].keys # None /\ row.status = "in_progress"
  BY <1>1, Locked DEF KeysNeeded, PastDeadline
<1>3. reqs[r].keys \in Readings /\ row.deadline \in Nat
  BY <1>1, <1>2, Locked DEF Calls, Rows
<1>4. RowOK(ended, now) /\ Later(row, ended) /\ ended.paper = row.paper
      /\ ended.deadline = row.deadline
  BY <1>1, <1>2, <1>3, Locked, Finalizes DEF Ended
<1> HIDE DEF ended
<1>5. sims' = [sims EXCEPT ![reqs[r].sim] = ended]
  BY <1>2 DEF Expire, Finalize, ended
<1>6. CallOK(reqs[r], sims', now) /\ sims'[reqs[r].sim] = ended
  BY <1>1, <1>4, <1>5, WritesOwn
<1>7. \E q : reqs' = [reqs EXCEPT ![r] = q] /\ CallOK(q, sims', now)
  <2>1. ASSUME NEW told \in {"rejected_expired", "expired_before_submit"}, Tell(r, told)
        PROVE  \E q : reqs' = [reqs EXCEPT ![r] = q] /\ CallOK(q, sims', now)
    <3>1. told \in Replies /\ told \notin InTime
      BY DEF Replies, InTime
    <3>2. CallOK(Replied(reqs[r], told), sims', now)
      BY <3>1, <1>1, <1>6, Locked, Told
    <3> QED BY <2>1, <3>2 DEF Tell
  <2>2. ASSUME Settled(r, "expired"), reqs[r].op \notin {"answer", "submit"}
        PROVE  \E q : reqs' = [reqs EXCEPT ![r] = q] /\ CallOK(q, sims', now)
    BY <2>2, <1>1, <1>4, <1>6, Locked, Settling DEF Ended
  <2> QED BY <2>1, <2>2, <1>2 DEF Expire
<1>8. reqs[r].sim \in Sims
  BY <1>1, Locked
<1> QED BY <1>4, <1>5, <1>7, <1>8, Writes DEF Expire

LEMMA Submitting ==
  ASSUME SInv, NEW r \in Requests, Submit(r)
  PROVE  SInv'
<1> DEFINE row == sims[reqs[r].sim]
           ended == Finalized(row, "submitted", reqs[r].at, reqs[r].keys)
<1>1. /\ reqs[r].pc = "lock" /\ row.status = "in_progress" /\ reqs[r].op = "submit"
      /\ ~PastDeadline(row, reqs[r].at)
  BY DEF Submit, Open
<1>2. reqs[r].keys # None
  BY <1>1, Locked DEF KeysNeeded
<1>3. /\ reqs[r].keys \in Readings /\ row.deadline \in Nat /\ row.startedAt \in Nat
      /\ reqs[r].at \in Nat /\ row.startedAt <= reqs[r].at
  BY <1>1, <1>2, Locked DEF Calls, Rows
<1>4. reqs[r].at < row.deadline
  BY <1>1, <1>3 DEF PastDeadline
<1>5. RowOK(ended, now) /\ Later(row, ended)
  BY <1>1, <1>3, <1>4, Locked, Finalizes DEF Ended
<1> HIDE DEF ended
<1>6. sims' = [sims EXCEPT ![reqs[r].sim] = ended]
  BY <1>2 DEF Submit, Finalize, ended
<1>7. CallOK(reqs[r], sims', now)
  BY <1>1, <1>5, <1>6, WritesOwn
<1>8. CallOK(Replied(reqs[r], "submitted"), sims', now)
  BY <1>1, <1>7, Locked, Told DEF Replies, InTime, Ended
<1>9. reqs[r].sim \in Sims
  BY <1>1, Locked
<1> QED BY <1>2, <1>5, <1>6, <1>8, <1>9, Writes DEF Submit, Tell

\* An answer of this time is logged.
LEMMA Logs ==
  ASSUME NEW row, NEW t, RowOK(row, t), row # None, row.status = "in_progress",
         NEW e \in Events, row.startedAt <= e.at, e.at < row.deadline
  PROVE  LET longer == Logging(row, e) IN
         /\ RowOK(longer, t) /\ Later(row, longer) /\ longer.deadline = row.deadline
         /\ longer.status = "in_progress" /\ longer.events = Append(row.events, e)
         /\ \E i \in DOMAIN longer.events : longer.events[i] = e
<1> DEFINE longer == Logging(row, e)
           log == Append(row.events, e)
           n == Len(row.events)
<1>1. row \in Rows
  BY DEF RowOK
<1>2. row.events \in Seq(Events)
  BY <1>1 DEF Rows
<1>3. /\ log \in Seq(Events) /\ n \in Nat
      /\ DOMAIN row.events = 1..n /\ DOMAIN log = 1..(n + 1)
      /\ \A i \in 1..n : log[i] = row.events[i]
      /\ log[n + 1] = e
  BY <1>2
<1> HIDE DEF log, n
<1>4. longer \in Rows /\ longer.events = log
      /\ longer.startedAt = row.startedAt /\ longer.deadline = row.deadline
      /\ longer.paper = row.paper /\ longer.status = row.status
      /\ longer.finalizedAt = row.finalizedAt
  BY <1>1, <1>3 DEF Rows, Logging, log
<1> HIDE DEF longer
<1>5. longer # None
  BY <1>4, NoneAssumption
<1>6. \A i \in DOMAIN log :
        longer.startedAt <= log[i].at /\ log[i].at < longer.deadline
  <2> SUFFICES ASSUME NEW i \in 1..(n + 1)
               PROVE  longer.startedAt <= log[i].at /\ log[i].at < longer.deadline
    BY <1>3
  <2>1. CASE i = n + 1
    BY <2>1, <1>3, <1>4
  <2>2. CASE i # n + 1
    <3>1. i \in 1..n
      BY <2>2, <1>3
    <3> QED BY <3>1, <1>3, <1>4 DEF RowOK
  <2> QED BY <2>1, <2>2
<1>7. RowOK(longer, t)
  BY <1>4, <1>6 DEF RowOK, Ended
<1>8. \A i \in 1..n : i \in 1..(n + 1)
  BY <1>3
<1>9. Later(row, longer)
  BY <1>3, <1>4, <1>5, <1>8 DEF Later
<1>10. n + 1 \in DOMAIN log
  BY <1>3
<1> QED BY <1>3, <1>4, <1>7, <1>9, <1>10 DEF longer, log

LEMMA Recording ==
  ASSUME SInv, NEW r \in Requests, Record(r)
  PROVE  SInv'
<1> DEFINE row == sims[reqs[r].sim]
           longer == Logging(row, Event(reqs[r]))
<1>1. /\ reqs[r].pc = "lock" /\ row.status = "in_progress" /\ reqs[r].op = "answer"
      /\ ~PastDeadline(row, reqs[r].at)
  BY DEF Record, Open
<1>2. /\ Event(reqs[r]) \in Events /\ Event(reqs[r]).at = reqs[r].at
      /\ row.startedAt <= reqs[r].at /\ row.deadline \in Nat /\ reqs[r].at \in Nat
  BY <1>1, Locked DEF Event, Events, Rows
<1>3. reqs[r].at < row.deadline
  BY <1>1, <1>2 DEF PastDeadline
<1>4. /\ RowOK(longer, now) /\ Later(row, longer) /\ longer.deadline = row.deadline
      /\ Logged(reqs[r], longer)
  BY <1>1, <1>2, <1>3, Locked, Logs DEF Logged
<1> HIDE DEF longer
<1>5. sims' = [sims EXCEPT ![reqs[r].sim] = longer]
  BY DEF Record, longer
<1>6. CallOK(reqs[r], sims', now) /\ sims'[reqs[r].sim] = longer
  BY <1>1, <1>4, <1>5, WritesOwn
<1>7. reqs[r].sim \in Sims /\ reqs[r].sim # None
  BY <1>1, Locked, NoneAssumption
<1>8. CallOK(Replied(reqs[r], "recorded"), sims', now)
  BY <1>1, <1>3, <1>4, <1>6, <1>7, Locked, Told DEF Replies
<1> QED BY <1>4, <1>5, <1>7, <1>8, Writes DEF Record, Tell

LEMMA LeavingAlone ==
  ASSUME SInv, NEW r \in Requests, Refuse(r) \/ TooLate(r) \/ Settle(r)
  PROVE  SInv'
<1> DEFINE row == sims[reqs[r].sim]
<1>1. /\ reqs[r].pc = "lock" /\ row \in Rows /\ reqs[r].told = "nothing"
      /\ CallOK(reqs[r], sims, now) /\ reqs[r].at \in Nat /\ now \in Nat
  BY Locked DEF Refuse, TooLate, Settle, Open
<1>2. row.status \in Ended \cup {"in_progress"} /\ row.deadline \in Nat
  BY <1>1 DEF Rows
<1>3. \E q : reqs' = [reqs EXCEPT ![r] = q] /\ CallOK(q, sims, now)
  <2>1. ASSUME NEW told \in {"refused"} \cup Ended, Tell(r, told)
        PROVE  \E q : reqs' = [reqs EXCEPT ![r] = q] /\ CallOK(q, sims, now)
    <3>1. told \in Replies /\ told \notin InTime
      BY DEF Replies, InTime, Ended
    <3>2. CallOK(Replied(reqs[r], told), sims, now)
      BY <1>1, <3>1, Told DEF InTime
    <3> QED BY <2>1, <3>2 DEF Tell
  <2>2. ASSUME Settle(r)
        PROVE  \E q : reqs' = [reqs EXCEPT ![r] = q] /\ CallOK(q, sims, now)
    <3>1. row.status = "in_progress" => reqs[r].at < row.deadline
      BY <1>1, <1>2, <2>2 DEF Settle, PastDeadline
    <3> QED BY <1>1, <1>2, <2>2, <3>1, Settling DEF Settle
  <2> QED BY <2>1, <2>2 DEF Refuse, TooLate
<1> QED BY <1>3, Moves DEF Refuse, TooLate, Settle

LEMMA Serving ==
  ASSUME SInv, NEW r \in Requests, Serve(r)
  PROVE  SInv'
<1>1. CallOK(reqs[r], sims, now) /\ reqs[r].pc = "serve" /\ now \in Nat
  BY ClockTyped DEF SInv, CallsOK, Serve
<1>2. reqs[r].at < sims[reqs[r].sim].deadline
  BY <1>1 DEF CallOK
<1>3. PICK told \in {"served", "question_content_changed"} : Tell(r, told)
  BY DEF Serve
<1>4. told \in Replies /\ told # "recorded"
  BY DEF Replies
<1>5. CallOK(Replied(reqs[r], told), sims, now)
  BY <1>1, <1>2, <1>4, Told
<1> QED BY <1>3, <1>5, Moves DEF Tell, Serve

LEMMA Revising ==
  ASSUME SInv, NEW q \in Questions, Revise(q)
  PROVE  SInv'
<1>1. catalog[q] \in Entries
  BY DEF SInv, BankOK, Revise
<1>2. PICK entry \in Edits(catalog[q]) : catalog' = [catalog EXCEPT ![q] = entry]
  BY DEF Revise
<1>3. entry \in Entries
  BY <1>1, <1>2 DEF Edits, Entries
<1>4. BankOK'
  BY <1>2, <1>3, ClockTyped DEF SInv, BankOK, Revise
<1> QED BY <1>4 DEF SInv, RowsOK, CallsOK, Revise

LEMMA Ticking ==
  ASSUME SInv, Tick
  PROVE  SInv'
<1>1. now \in Nat /\ now' = now + 1 /\ now <= now' /\ now' \in Nat /\ MaxTime \in Nat
  BY ClockTyped, SimulationAssumption DEF SInv, Tick
<1>2. RowsOK'
  BY <1>1, BlankStays DEF SInv, RowsOK, Tick
<1>3. \A r \in Requests : CallOK(reqs[r], sims, now')
  BY <1>1, CallStays, GrowsSelf DEF SInv, CallsOK
<1>4. CallsOK'
  BY <1>3 DEF SInv, CallsOK, Tick
<1>5. BankOK'
  BY <1>1 DEF SInv, BankOK, Tick
<1> QED BY <1>2, <1>4, <1>5 DEF SInv

LEMMA Initially == Init => SInv
<1> SUFFICES ASSUME Init PROVE SInv
  OBVIOUS
<1>1. BankOK /\ now = 0
  BY SimulationAssumption DEF Init, BankOK
<1>2. RowsOK
  <2>1. CASE sims = [s \in Sims |-> None]
    BY <2>1 DEF RowsOK
  <2>2. ASSUME NEW s \in Sims, NEW d \in Definitions, Assembles(d.config, d.selection, Entry),
               sims = [t \in Sims |->
                 IF t = s THEN StartSimulation(d.config, Paper(d.config, d.selection, Entry), 0)
                 ELSE None]
        PROVE  RowsOK
    <3> DEFINE row == StartSimulation(d.config, Paper(d.config, d.selection, Entry), 0)
    <3>1. RowOK(row, 0)
      BY <2>2, StartsBlank, SimulationAssumption DEF Blank
    <3> HIDE DEF row
    <3>2. sims = [t \in Sims |-> IF t = s THEN row ELSE None]
      BY <2>2 DEF row
    <3> QED BY <3>1, <3>2, <1>1 DEF RowsOK
  <2> QED BY <2>1, <2>2 DEF Init
<1>3. CallOK(Idle, sims, 0)
  BY DEF Idle, Calls, Steps, Ops, Replies, CallOK, Deciding, InTime
<1>4. CallsOK
  BY <1>1, <1>3 DEF Init, CallsOK
<1> QED BY <1>1, <1>2, <1>4 DEF SInv

LEMMA StepKeeps ==
  ASSUME SInv, [Next]_vars
  PROVE  SInv'
<1>1. CASE UNCHANGED vars
  BY <1>1 DEF vars, SInv, RowsOK, CallsOK, BankOK
<1>2. ASSUME NEW r \in Requests,
             \/ AskStart(r) \/ AskRead(r) \/ AskSubmit(r) \/ AskAnswer(r)
             \/ Work(r) \/ Fail(r)
      PROVE  SInv'
  <2>1. CASE AskStart(r)
    BY <2>1, Starting
  <2>2. CASE AskRead(r) \/ AskSubmit(r) \/ AskAnswer(r)
    BY <2>2, AskingAny
  <2>3. CASE Find(r) \/ Row(r) \/ Assemble(r) \/ Insert(r) \/ Conflict(r)
    BY <2>3, Finding, ReadingRow, Assembling, Inserting, Conflicting
  <2>4. CASE Content(r) \/ Keys(r)
    BY <2>4, ReadingContent, ReadingKeys
  <2>5. CASE Expire(r) \/ Submit(r) \/ Record(r)
    BY <2>5, Expiring, Submitting, Recording
  <2>6. CASE Refuse(r) \/ TooLate(r) \/ Settle(r) \/ Serve(r)
    BY <2>6, LeavingAlone, Serving
  <2>7. CASE Fail(r)
    BY <2>7, Failing
  <2> QED BY <1>2, <2>1, <2>2, <2>3, <2>4, <2>5, <2>6, <2>7 DEF Work
<1>3. ASSUME NEW q \in Questions, Revise(q) PROVE SInv'
  BY <1>3, Revising
<1>4. CASE Tick
  BY <1>4, Ticking
<1> QED BY <1>1, <1>2, <1>3, <1>4 DEF Next

\* What rows hold and requests know, through any interleaving of requests, edits and time.
THEOREM SInvHolds == Spec => []SInv
<1>1. Init => SInv
  BY Initially
<1>2. SInv /\ [Next]_vars => SInv'
  BY StepKeeps
<1>3. QED
  BY <1>1, <1>2, PTL DEF Spec

-----------------------------------------------------------------------------
(* The keys a result was graded with.  What a question was before an edit   *)
(* is dated with the edit: keys read since a time t are none that was       *)
(* replaced before t.                                                       *)

Fresh(keys, t) == \A q \in Questions : \E entry \in BeenSince(q, t) : keys[q] = Reading(entry)

KeysOK ==
  \A r \in Requests :
    /\ reqs[r].pc = "idle" => reqs[r].keys = None
    /\ reqs[r].keys # None => Fresh(reqs[r].keys, reqs[r].at)

\* The result that a row has once it has ended.
GradedAt(row, t) ==
  /\ row.finalizedAt <= t
  /\ \E keys \in Readings :
       row.result = Result(row.paper, row.events, keys) /\ Fresh(keys, row.finalizedAt)

ResultsOK == \A s \in Sims : sims[s] # None /\ sims[s].status \in Ended => GradedAt(sims[s], now)

KInv == KeysOK /\ ResultsOK

\* What was read since a time was read since an earlier one.
LEMMA FreshEarlier ==
  ASSUME BankOK, NEW keys, NEW t \in Nat, NEW u \in Nat, u <= t, Fresh(keys, t)
  PROVE  Fresh(keys, u)
<1>1. ASSUME NEW q \in Questions, NEW p \in replaced[q], p.until >= t PROVE p.until >= u
  <2>1. p \in [entry : Entries, until : Nat]
    BY DEF BankOK
  <2> QED BY <1>1, <2>1
<1> QED BY <1>1 DEF Fresh, BeenSince

\* An edit, at the earliest now, leaves what was read since a time that has been.
LEMMA FreshSurvives ==
  ASSUME SInv, NEW x \in Questions, Revise(x),
         NEW keys, NEW t \in Nat, t <= now, Fresh(keys, t)
  PROVE  Fresh(keys, t)'
<1> DEFINE old == [entry |-> catalog[x], until |-> now]
<1>1. /\ now \in Nat /\ catalog \in [Questions -> Entries \cup {None}]
      /\ replaced \in [Questions -> SUBSET [entry : Entries, until : Nat]]
  BY ClockTyped DEF SInv, BankOK
<1>2. replaced' = [replaced EXCEPT ![x] = @ \cup {old}]
  BY DEF Revise
<1>3. PICK entry : catalog' = [catalog EXCEPT ![x] = entry]
  BY DEF Revise
<1>4. old.entry = catalog[x] /\ old.until >= t
  BY <1>1
<1> HIDE DEF old
<1>5. ASSUME NEW q \in Questions
      PROVE  \E e \in BeenSince(q, t)' : keys[q] = Reading(e)
  <2>1. PICK e \in BeenSince(q, t) : keys[q] = Reading(e)
    BY DEF Fresh
  <2>2. replaced[q] \subseteq replaced'[q] /\ (q = x => old \in replaced'[q])
    BY <1>1, <1>2
  <2>3. CASE e = catalog[q]
    <3>1. CASE q = x
      BY <2>1, <2>2, <2>3, <3>1, <1>4 DEF BeenSince
    <3>2. CASE q # x
      <4>1. catalog'[q] = catalog[q]
        BY <3>2, <1>1, <1>3
      <4> QED BY <2>1, <2>3, <4>1 DEF BeenSince
    <3> QED BY <3>1, <3>2
  <2>4. CASE e # catalog[q]
    <3>1. PICK p \in replaced[q] : p.until >= t /\ e = p.entry
      BY <2>1, <2>4 DEF BeenSince
    <3> QED BY <2>1, <2>2, <3>1 DEF BeenSince
  <2> QED BY <2>3, <2>4
<1> QED BY <1>5 DEF Fresh

\* What a step of a request leaves it with of the keys.
KeepsKeys(q, p) ==
  /\ p.pc # "idle"
  /\ \/ p.keys = None
     \/ p.keys = q.keys /\ p.at = q.at

LEMMA RepliedKeys ==
  ASSUME NEW q \in Calls, NEW told
  PROVE  KeepsKeys(q, Replied(q, told))
  BY DEF KeepsKeys, Replied, Idle, Calls

\* A step of a request keeps the keys it has, forgets them, or reads them.
LEMMA KeysKept ==
  ASSUME SInv, KeysOK, NEW r \in Requests,
         \/ AskStart(r) \/ AskRead(r) \/ AskSubmit(r) \/ AskAnswer(r) \/ Work(r) \/ Fail(r),
         ~Keys(r)
  PROVE  \E p : reqs' = [reqs EXCEPT ![r] = p] /\ KeepsKeys(reqs[r], p)
<1> DEFINE Goal == \E p : reqs' = [reqs EXCEPT ![r] = p] /\ KeepsKeys(reqs[r], p)
<1>1. reqs[r] \in Calls /\ (reqs[r].pc = "idle" => reqs[r].keys = None)
  BY DEF SInv, CallsOK, CallOK, KeysOK
<1>2. ASSUME NEW told, Tell(r, told) PROVE Goal
  BY <1>1, <1>2, RepliedKeys DEF Tell
<1>3. ASSUME NEW pc, pc # "idle", To(r, pc) PROVE Goal
  <2> DEFINE p == [reqs[r] EXCEPT !.pc = pc]
  <2>1. KeepsKeys(reqs[r], p)
    BY <1>1, <1>3 DEF KeepsKeys, Calls
  <2> QED BY <1>3, <2>1 DEF To
<1>4. CASE AskStart(r)
  <2> DEFINE p == [reqs[r] EXCEPT !.pc = "find", !.op = "start", !.at = now]
  <2>1. KeepsKeys(reqs[r], p)
    BY <1>1, <1>4 DEF KeepsKeys, Calls, AskStart
  <2> QED BY <1>4, <2>1 DEF AskStart
<1>5. ASSUME NEW op, NEW s, NEW position, NEW answer, Ask(r, op, s, position, answer)
      PROVE  Goal
  <2> DEFINE row == sims[s]
             then == BeforeLock(row, op, now)
             asked == [reqs[r] EXCEPT !.op = op, !.sim = s, !.at = now, !.position = position,
                                      !.answer = answer, !.then = then]
             status == row.status
  <2>1. then \in {"keys", "lock"} /\ reqs[r].keys = None
    BY <1>1, <1>5 DEF BeforeLock, Ask
  <2> HIDE DEF then, status
  <2>2. asked.keys = None
    BY <1>1, <2>1 DEF Calls
  <2>3. ASSUME NEW pc \in {"content", then} PROVE KeepsKeys(reqs[r], [asked EXCEPT !.pc = pc])
    BY <1>1, <2>1, <2>3 DEF KeepsKeys, Calls
  <2>4. KeepsKeys(reqs[r], Replied(asked, status))
    BY <1>1, <2>2 DEF KeepsKeys, Replied, Idle, Calls
  <2>5. \/ reqs' = [reqs EXCEPT ![r] = Replied(asked, status)]
        \/ reqs' = [reqs EXCEPT ![r] = [asked EXCEPT !.pc = "content"]]
        \/ reqs' = [reqs EXCEPT ![r] = [asked EXCEPT !.pc = then]]
    BY <1>5 DEF Ask, then, status
  <2> HIDE DEF asked
  <2> QED BY <2>3, <2>4, <2>5
<1>6. CASE AskRead(r) \/ AskSubmit(r) \/ AskAnswer(r)
  BY <1>5, <1>6 DEF AskRead, AskSubmit, AskAnswer
<1>7. CASE Find(r)
  <2>1. ASSUME NEW s, reqs' = [reqs EXCEPT ![r] = [@ EXCEPT !.pc = "row", !.sim = s]] PROVE Goal
    <3> DEFINE p == [reqs[r] EXCEPT !.pc = "row", !.sim = s]
    <3>1. KeepsKeys(reqs[r], p)
      BY <1>1 DEF KeepsKeys, Calls
    <3> QED BY <2>1, <3>1
  <2> QED BY <1>2, <1>3, <1>7, <2>1 DEF Find
<1>8. CASE Row(r)
  <2>1. BeforeLock(sims[reqs[r].sim], reqs[r].op, reqs[r].at) # "idle"
    BY DEF BeforeLock
  <2> QED BY <1>2, <1>3, <1>8, <2>1 DEF Row
<1>9. CASE Assemble(r)
  <2>1. ASSUME NEW draft,
               reqs' = [reqs EXCEPT ![r] =
                 [@ EXCEPT !.pc = "insert", !.sim = None, !.keys = None, !.draft = draft]]
        PROVE  Goal
    <3> DEFINE p == [reqs[r] EXCEPT !.pc = "insert", !.sim = None, !.keys = None, !.draft = draft]
    <3>1. KeepsKeys(reqs[r], p)
      BY <1>1 DEF KeepsKeys, Calls
    <3> QED BY <2>1, <3>1
  <2> QED BY <1>2, <1>9, <2>1 DEF Assemble
<1>10. CASE Insert(r)
  BY <1>2, <1>3, <1>10 DEF Insert
<1>11. CASE Conflict(r)
  <2> DEFINE p == [reqs[r] EXCEPT !.pc = "find", !.op = "recover"]
  <2>1. KeepsKeys(reqs[r], p)
    BY <1>1 DEF KeepsKeys, Calls
  <2> QED BY <1>2, <1>11, <2>1 DEF Conflict
<1>12. CASE Content(r)
  <2> DEFINE content == Published(r)
             p == [reqs[r] EXCEPT !.content = content, !.pc = reqs[r].then]
  <2>1. reqs[r].then # "idle"
    BY <1>1 DEF Calls
  <2>2. reqs' = [reqs EXCEPT ![r] = p]
    BY <1>12 DEF Content
  <2> HIDE DEF content
  <2>3. KeepsKeys(reqs[r], p)
    BY <1>1, <2>1 DEF KeepsKeys, Calls
  <2> QED BY <2>2, <2>3
<1>13. ASSUME NEW status, Settled(r, status) PROVE Goal
  BY <1>2, <1>3, <1>13 DEF Settled
<1>14. CASE Expire(r)
  BY <1>2, <1>13, <1>14 DEF Expire
<1>15. CASE Submit(r) \/ Record(r) \/ Refuse(r) \/ TooLate(r) \/ Serve(r) \/ Fail(r)
  BY <1>2, <1>15 DEF Submit, Record, Refuse, TooLate, Serve, Fail
<1>16. CASE Settle(r)
  BY <1>13, <1>16 DEF Settle
<1> QED
  BY <1>4, <1>6, <1>7, <1>8, <1>9, <1>10, <1>11, <1>12, <1>14, <1>15, <1>16 DEF Work

LEMMA KeysStay ==
  ASSUME SInv, SInv', KeysOK, [Next]_vars
  PROVE  KeysOK'
<1>1. \A r \in Requests : reqs[r].at \in Nat /\ reqs[r].at <= now /\ reqs[r] \in Calls
  BY DEF SInv, CallsOK, CallOK, Calls
<1>2. CASE UNCHANGED vars \/ Tick
  BY <1>2 DEF KeysOK, Fresh, BeenSince, Tick, vars
<1>3. ASSUME NEW x \in Questions, Revise(x) PROVE KeysOK'
  <2>1. ASSUME NEW r \in Requests, reqs[r].keys # None PROVE Fresh(reqs[r].keys, reqs[r].at)'
    <3>1. PICK keys : keys = reqs[r].keys
      OBVIOUS
    <3>2. PICK t \in Nat : t = reqs[r].at
      BY <1>1
    <3>3. Fresh(keys, t) /\ t <= now
      BY <1>1, <2>1, <3>1, <3>2 DEF KeysOK
    <3>4. Fresh(keys, t)'
      BY <1>3, <3>3, FreshSurvives
    <3> QED BY <1>3, <3>1, <3>2, <3>4 DEF Revise, Fresh, BeenSince
  <2> QED BY <1>3, <2>1 DEF KeysOK, Revise
<1>4. ASSUME NEW r \in Requests,
             \/ AskStart(r) \/ AskRead(r) \/ AskSubmit(r) \/ AskAnswer(r)
             \/ Work(r) \/ Fail(r)
      PROVE  KeysOK'
  <2>1. UNCHANGED <<catalog, replaced>>
    BY <1>4 DEF AskStart, AskRead, AskSubmit, AskAnswer, Ask, Work, Find, Row, Assemble, Insert,
                Conflict, Content, Keys, Expire, Submit, Record, Refuse, TooLate, Settle, Serve, Fail
  <2>2. ASSUME NEW p, reqs' = [reqs EXCEPT ![r] = p],
               p.pc # "idle", p.keys # None => Fresh(p.keys, p.at)
        PROVE  KeysOK'
    <3>1. \A z \in Requests : reqs'[z] = IF z = r THEN p ELSE reqs[z]
      BY <2>2 DEF SInv, CallsOK
    <3> QED BY <2>1, <2>2, <3>1 DEF KeysOK, Fresh, BeenSince
  <2>3. CASE Keys(r)
    <3> DEFINE keys == [x \in Questions |-> Reading(catalog[x])]
               p == [reqs[r] EXCEPT !.keys = keys, !.pc = "lock"]
    <3>1. \A t : Fresh(keys, t)
      BY DEF Fresh, BeenSince
    <3>2. reqs' = [reqs EXCEPT ![r] = p]
      BY <2>3 DEF Keys
    <3> HIDE DEF keys
    <3>3. p.pc = "lock" /\ p.keys = keys
      BY <1>1 DEF Calls
    <3> HIDE DEF p
    <3> QED BY <2>2, <3>1, <3>2, <3>3
  <2>4. CASE ~Keys(r)
    <3>1. PICK p : reqs' = [reqs EXCEPT ![r] = p] /\ KeepsKeys(reqs[r], p)
      BY <1>4, <2>4, KeysKept
    <3>2. p.pc # "idle" /\ (p.keys # None => Fresh(p.keys, p.at))
      BY <3>1 DEF KeepsKeys, KeysOK
    <3> QED BY <2>2, <3>1, <3>2
  <2> QED BY <2>3, <2>4
<1> QED BY <1>2, <1>3, <1>4 DEF Next

\* A row that ends is graded with keys read since the time its end is dated.
LEMMA EndsGraded ==
  ASSUME SInv, KeysOK, NEW r \in Requests, Expire(r) \/ Submit(r), NEW row, row = sims[reqs[r].sim]
  PROVE  \E ended :
           sims' = [sims EXCEPT ![reqs[r].sim] = ended] /\ GradedAt(ended, now)
<1>1. /\ reqs[r].pc = "lock" /\ row.status = "in_progress" /\ row \in Rows /\ now \in Nat
      /\ reqs[r].at \in Nat /\ reqs[r].at <= now /\ row.deadline \in Nat
  BY Locked DEF Expire, Submit, Open, PastDeadline, Rows
<1>2. PICK keys : keys = reqs[r].keys
  OBVIOUS
<1>3. keys # None /\ keys \in Readings
  BY <1>1, <1>2, Locked DEF KeysNeeded, Expire, Submit, Calls
<1>4. Fresh(keys, reqs[r].at)
  BY <1>2, <1>3 DEF KeysOK
<1>5. ASSUME NEW status, NEW at \in Nat, at <= reqs[r].at,
             sims' = [sims EXCEPT ![reqs[r].sim] = Finalized(@, status, at, keys)]
      PROVE  \E ended :
               sims' = [sims EXCEPT ![reqs[r].sim] = ended] /\ GradedAt(ended, now)
  <2> DEFINE result == Result(row.paper, row.events, keys)
             ended == Finalized(row, status, at, keys)
  <2>1. sims' = [sims EXCEPT ![reqs[r].sim] = ended]
    BY <1>5
  <2>0. result = Result(row.paper, row.events, keys)
    OBVIOUS
  <2> HIDE DEF result
  <2>2. ended.finalizedAt = at /\ ended.result = result
        /\ ended.paper = row.paper /\ ended.events = row.events
    BY <1>1 DEF Finalized, Rows, result
  <2>3. Fresh(keys, at)
    BY <1>1, <1>4, <1>5, FreshEarlier DEF SInv
  <2> HIDE DEF ended
  <2>4. GradedAt(ended, now)
    BY <1>1, <1>3, <1>5, <2>0, <2>2, <2>3 DEF GradedAt
  <2> QED BY <2>1, <2>4
<1>6. CASE Expire(r)
  <2>1. row.deadline <= reqs[r].at
    BY <1>1, <1>6 DEF Expire, PastDeadline
  <2> QED BY <1>1, <1>2, <1>3, <1>5, <1>6, <2>1 DEF Expire, Finalize
<1>7. CASE Submit(r)
  <2>1. reqs[r].at <= reqs[r].at
    BY <1>1
  <2> QED BY <1>1, <1>2, <1>3, <1>5, <1>7, <2>1 DEF Submit, Finalize
<1> QED BY <1>6, <1>7

LEMMA ResultsStay ==
  ASSUME SInv, SInv', KeysOK, ResultsOK, [Next]_vars
  PROVE  ResultsOK'
<1>1. now \in Nat
  BY ClockTyped DEF SInv
<1>2. \A s \in Sims : sims[s] # None /\ sims[s].status \in Ended => sims[s].finalizedAt \in Nat
  <2> SUFFICES ASSUME NEW s \in Sims, sims[s] # None, sims[s].status \in Ended
               PROVE  sims[s].finalizedAt \in Nat
    OBVIOUS
  <2>1. RowOK(sims[s], now)
    BY DEF SInv, RowsOK
  <2> QED BY <2>1 DEF RowOK, Rows, Ended
<1>3. ASSUME UNCHANGED <<sims, catalog, replaced>>, now' = now \/ now' = now + 1 PROVE ResultsOK'
  <2>1. \A s \in Sims : sims[s] # None /\ sims[s].status \in Ended => sims[s].finalizedAt <= now'
    BY <1>1, <1>2, <1>3 DEF ResultsOK, GradedAt
  <2> QED BY <1>3, <2>1 DEF ResultsOK, GradedAt, Fresh, BeenSince
<1>4. ASSUME NEW x \in Questions, Revise(x) PROVE ResultsOK'
  <2>1. ASSUME NEW s \in Sims, sims[s] # None, sims[s].status \in Ended
        PROVE  GradedAt(sims[s], now)'
    <3>1. PICK row : row = sims[s]
      OBVIOUS
    <3>2. row.finalizedAt \in Nat /\ row.finalizedAt <= now
      BY <1>2, <2>1, <3>1 DEF ResultsOK, GradedAt
    <3>3. PICK keys \in Readings :
            row.result = Result(row.paper, row.events, keys) /\ Fresh(keys, row.finalizedAt)
      BY <2>1, <3>1 DEF ResultsOK, GradedAt
    <3>4. PICK t \in Nat : t = row.finalizedAt
      BY <3>2
    <3>5. Fresh(keys, t)'
      BY <1>4, <3>2, <3>3, <3>4, FreshSurvives
    <3>6. sims'[s] = row /\ now' = now
      BY <1>4, <3>1 DEF Revise
    <3> QED BY <3>2, <3>3, <3>4, <3>5, <3>6 DEF GradedAt, Fresh, BeenSince
  <2> QED BY <1>4, <2>1 DEF ResultsOK, Revise
<1>5. ASSUME NEW s \in Sims, NEW row, sims' = [sims EXCEPT ![s] = row],
             row.status \in Ended => GradedAt(row, now), UNCHANGED <<catalog, replaced, now>>
      PROVE  ResultsOK'
  <2>1. \A x \in Sims : sims'[x] = IF x = s THEN row ELSE sims[x]
    BY <1>5 DEF SInv, RowsOK
  <2> QED BY <1>5, <2>1 DEF ResultsOK, GradedAt, Fresh, BeenSince
<1>6. ASSUME NEW r \in Requests, Expire(r) \/ Submit(r) PROVE ResultsOK'
  <2>1. reqs[r].sim \in Sims /\ UNCHANGED <<catalog, replaced, now>>
    BY <1>6, Locked DEF Expire, Submit, Open
  <2>2. PICK row : row = sims[reqs[r].sim]
    OBVIOUS
  <2>3. PICK ended : sims' = [sims EXCEPT ![reqs[r].sim] = ended] /\ GradedAt(ended, now)
    BY <1>6, <2>2, EndsGraded
  <2> QED BY <1>5, <2>1, <2>3
<1>7. ASSUME NEW r \in Requests, Record(r) PROVE ResultsOK'
  <2> DEFINE row == Logging(sims[reqs[r].sim], Event(reqs[r]))
  <2>1. /\ reqs[r].sim \in Sims /\ sims[reqs[r].sim] \in Rows
        /\ sims[reqs[r].sim].status = "in_progress" /\ UNCHANGED <<catalog, replaced, now>>
    BY <1>7, Locked DEF Record, Open
  <2>2. row.status \notin Ended
    BY <2>1 DEF Logging, Ended, Rows
  <2>3. sims' = [sims EXCEPT ![reqs[r].sim] = row]
    BY <1>7 DEF Record
  <2> HIDE DEF row
  <2> QED BY <1>5, <2>1, <2>2, <2>3
<1>8. ASSUME NEW r \in Requests, Insert(r) PROVE ResultsOK'
  <2>1. CASE UNCHANGED sims
    BY <1>3, <1>8, <2>1 DEF Insert
  <2>2. ASSUME NEW s \in Sims, sims' = [sims EXCEPT ![s] = reqs[r].draft] PROVE ResultsOK'
    <3>1. reqs[r].draft.status \notin Ended
      BY <1>8 DEF SInv, CallsOK, CallOK, Blank, Insert, Ended
    <3> QED BY <1>5, <1>8, <2>2, <3>1 DEF Insert
  <2> QED BY <1>8, <2>1, <2>2 DEF Insert
<1>9. ASSUME NEW r \in Requests,
             \/ AskStart(r) \/ AskRead(r) \/ AskSubmit(r) \/ AskAnswer(r)
             \/ Find(r) \/ Row(r) \/ Assemble(r) \/ Conflict(r) \/ Content(r) \/ Keys(r)
             \/ Refuse(r) \/ TooLate(r) \/ Settle(r) \/ Serve(r) \/ Fail(r)
      PROVE  UNCHANGED <<sims, catalog, replaced, now>>
  BY <1>9 DEF AskStart, AskRead, AskSubmit, AskAnswer, Ask, Find, Row, Assemble, Conflict,
              Content, Keys, Refuse, TooLate, Settle, Serve, Fail
<1>10. CASE UNCHANGED vars \/ Tick
  BY <1>3, <1>10 DEF vars, Tick
<1> QED BY <1>3, <1>4, <1>6, <1>7, <1>8, <1>9, <1>10 DEF Next, Work

\* Keys are those of their time, through any interleaving of requests and edits.
THEOREM KInvHolds == Spec => []KInv
<1>1. Init => KInv
  <2> SUFFICES ASSUME Init PROVE KInv
    OBVIOUS
  <2>1. KeysOK
    BY DEF Init, KeysOK, Idle
  <2>2. SInv
    BY Initially
  <2>3. \A s \in Sims : sims[s] # None => sims[s].status \notin Ended
    BY DEF Init, StartSimulation, Ended
  <2> QED BY <2>1, <2>3 DEF KInv, ResultsOK
<1>2. SInv /\ SInv' /\ KInv /\ [Next]_vars => KInv'
  BY KeysStay, ResultsStay DEF KInv
<1>3. QED
  BY <1>1, <1>2, SInvHolds, PTL DEF Spec

-----------------------------------------------------------------------------
(* Theorems.                                                               *)

\* Rows, questions, requests and the clock have their types.
THEOREM SimulationTypeCorrect == Spec => []TypeOK
<1>1. SInv => TypeOK
  <2> SUFFICES ASSUME SInv PROVE TypeOK
    OBVIOUS
  <2>1. \A s \in Sims : sims[s] # None => sims[s] \in Rows
    BY DEF SInv, RowsOK, RowOK
  <2>2. ASSUME NEW r \in Requests
        PROVE  /\ reqs[r].pc \in Steps
               /\ reqs[r].pc \in {"row", "content", "keys", "lock", "serve"} =>
                    reqs[r].sim \in Sims /\ sims[reqs[r].sim] # None
               /\ reqs[r].keys # None => reqs[r].keys \in Readings
    BY DEF SInv, CallsOK, CallOK, Calls, Deciding
  <2> QED BY <2>1, <2>2 DEF TypeOK, SInv, BankOK
<1>2. QED
  BY <1>1, SInvHolds, PTL

\* However long a request waited with the time it read, no answer is dated outside its
\* sitting, a simulation ends at its deadline or by a submission before it, and none is
\* told to be open to a request that came too late.
THEOREM DeadlineKept == Spec => []DeadlineHolds
<1>1. SInv => DeadlineHolds
  BY DEF SInv, RowsOK, RowOK, CallsOK, CallOK, InTime, DeadlineHolds
<1>2. QED
  BY <1>1, SInvHolds, PTL

\* The stored result is that of the answers, graded with the keys as they were when the
\* sitting ended or later; each acknowledged answer is logged, and no request is ever found
\* without the keys it needs.
THEOREM ResultsFaithful == Spec => []ResultFaithful
<1>1. SInv /\ KInv => ResultFaithful
  <2> SUFFICES ASSUME SInv, KInv PROVE ResultFaithful
    OBVIOUS
  <2>1. \A r \in Requests : reqs[r].told # "keys_not_preloaded"
    BY DEF SInv, CallsOK, CallOK, Calls, Replies, Ended
  <2>2. ASSUME NEW s \in Sims, sims[s] # None, sims[s].status \in Ended
        PROVE  /\ DOMAIN sims[s].result = DOMAIN sims[s].paper
               /\ \A p \in DOMAIN sims[s].paper :
                    Shows(sims[s].result[p], sims[s].paper[p], sims[s].events, p,
                          BeenSince(sims[s].paper[p].question, sims[s].finalizedAt))
    <3>1. PICK row : row = sims[s]
      OBVIOUS
    <3>2. PICK E : E = [q \in Questions |-> BeenSince(q, row.finalizedAt)]
      OBVIOUS
    <3>3. row \in Rows /\ row.paper \in Seq(Places)
      BY <2>2, <3>1 DEF SInv, RowsOK, RowOK, Rows
    <3>4. PICK keys \in Readings :
            /\ row.result = Result(row.paper, row.events, keys)
            /\ \A q \in Questions : \E e \in E[q] : keys[q] = Reading(e)
      BY <2>2, <3>2, <3>1 DEF KInv, ResultsOK, GradedAt, Fresh
    <3>5. \A q \in Questions : E[q] = BeenSince(q, row.finalizedAt)
      BY <3>2
    <3>6. Among(keys, E)
      BY <3>4, <3>5, SimulationAssumption DEF Among, BeenSince, SInv, BankOK
    <3>7. ASSUME NEW p \in DOMAIN row.paper PROVE row.paper[p].question \in Questions
      <4>1. row.paper[p] \in Places
        BY <3>3
      <4> QED BY <4>1 DEF Places
    <3>8. /\ DOMAIN row.result = DOMAIN row.paper
          /\ \A p \in DOMAIN row.paper :
               Shows(row.result[p], row.paper[p], row.events, p, E[row.paper[p].question])
      BY <3>3, <3>4, <3>6, RowFaithful
    <3>9. /\ DOMAIN row.result = DOMAIN row.paper
          /\ \A p \in DOMAIN row.paper :
               Shows(row.result[p], row.paper[p], row.events, p,
                     BeenSince(row.paper[p].question, row.finalizedAt))
      BY <3>5, <3>7, <3>8
    <3> QED BY <3>9, <3>1
  <2>3. \A r \in Requests : reqs[r].told = "recorded" => Logged(reqs[r], sims[reqs[r].sim])
    BY DEF SInv, CallsOK, CallOK
  <2> QED BY <2>1, <2>2, <2>3 DEF ResultFaithful, Logged
<1>2. QED
  BY <1>1, SInvHolds, KInvHolds, PTL

-----------------------------------------------------------------------------
(* The life of a simulation: ExamLife under the answers the student sees.  *)

LEMMA LifeTyped ==
  ASSUME NEW row \in Rows
  PROVE  LET life == [status |-> row.status,
                      answers |-> [p \in Positions |-> Current(row.events, p)]] IN
         life \in L!Lives /\ life # None
<1>1. row.events \in Seq(Events) /\ row.status \in Ended \cup {"in_progress"}
  BY DEF Rows
<1>2. \A p \in Positions : Current(row.events, p) \in Answers \cup {None}
  BY <1>1, CurrentIsAnswer
<1> QED BY <1>1, <1>2, LifeAssumption DEF L!Lives, L!Ended, Ended

\* A simulation that runs here runs there.
LEMMA RunsAlike ==
  ASSUME RowsOK, NEW s \in Sims
  PROVE  /\ L!Runs(s) <=> s \in Running
         /\ lives[s] = None <=> sims[s] = None
<1>1. CASE sims[s] = None
  BY <1>1 DEF lives, Life, L!Runs, Running
<1>2. CASE sims[s] # None
  <2>1. sims[s] \in Rows
    BY <1>2 DEF RowsOK, RowOK
  <2>2. lives[s] = [status |-> sims[s].status,
                    answers |-> [p \in Positions |-> Current(sims[s].events, p)]]
    BY <1>2 DEF lives, Life
  <2>3. lives[s] # None /\ lives[s].status = sims[s].status
    BY <2>1, <2>2, LifeTyped
  <2> QED BY <1>2, <2>3 DEF L!Runs, Running
<1> QED BY <1>1, <1>2

\* A step that writes one row changes one life.
LEMMA OneLife ==
  ASSUME RowsOK, NEW s \in Sims, NEW row, sims' = [sims EXCEPT ![s] = row], row # None,
         NEW answers, answers = [p \in Positions |-> Current(row.events, p)]
  PROVE  lives' = [lives EXCEPT ![s] = [status |-> row.status, answers |-> answers]]
<1>1. sims' = [t \in Sims |-> IF t = s THEN row ELSE sims[t]]
  BY DEF RowsOK
<1>2. ASSUME NEW t \in Sims
      PROVE  lives'[t] = IF t = s THEN [status |-> row.status, answers |-> answers] ELSE lives[t]
  BY <1>1 DEF lives, Life
<1> QED BY <1>2 DEF lives

LEMMA Opens ==
  ASSUME SInv, NEW r \in Requests, Insert(r)
  PROVE  (\E s \in Sims : L!Open(s)) \/ UNCHANGED lives
<1>1. CASE UNCHANGED sims
  BY <1>1 DEF lives, Life
<1>2. ASSUME NEW s \in Sims, Running = {}, sims[s] = None,
             sims' = [sims EXCEPT ![s] = reqs[r].draft]
      PROVE  L!Open(s)
  <2> DEFINE draft == reqs[r].draft
             none == [p \in Positions |-> None]
  <2>1. draft # None /\ draft.status = "in_progress" /\ draft.events = <<>> /\ draft \in Rows
    BY DEF SInv, CallsOK, CallOK, Blank, RowOK, Insert
  <2>2. \A p \in Positions : Current(draft.events, p) = None
    BY <2>1 DEF Current, At
  <2>3. none = [p \in Positions |-> Current(draft.events, p)]
    BY <2>2
  <2> HIDE DEF draft, none
  <2>4. lives' = [lives EXCEPT ![s] = [status |-> "in_progress", answers |-> none]]
    BY <1>2, <2>1, <2>3, OneLife DEF SInv, draft
  <2>5. lives[s] = None /\ \A t \in Sims : ~L!Runs(t)
    BY <1>2, RunsAlike DEF SInv
  <2> QED BY <2>4, <2>5 DEF L!Open, L!Fresh, none
<1> QED BY <1>1, <1>2 DEF Insert

\* The life of a row there is.
LEMMA LifeOf ==
  ASSUME RowsOK, NEW s \in Sims, sims[s] # None
  PROVE  lives[s] = [status |-> sims[s].status,
                     answers |-> [p \in Positions |-> Current(sims[s].events, p)]]
  BY DEF lives, Life

LEMMA Ends ==
  ASSUME SInv, NEW s \in Running, NEW row, sims' = [sims EXCEPT ![s] = row], row # None,
         row.status \in Ended, row.events = sims[s].events
  PROVE  \E how \in L!Ended : L!End(s, how)
<1> DEFINE how == row.status
           answers == [p \in Positions |-> Current(row.events, p)]
           ended == [status |-> how, answers |-> answers]
<1>1. s \in Sims /\ sims[s] # None /\ sims[s].status = "in_progress"
  BY DEF Running
<1>2. lives[s] = [status |-> "in_progress", answers |-> answers]
  BY <1>1, LifeOf DEF SInv
<1>3. lives' = [lives EXCEPT ![s] = ended]
  <2>1. row.status = how /\ answers = [p \in Positions |-> Current(row.events, p)]
    OBVIOUS
  <2> HIDE DEF how, answers
  <2>2. lives' = [lives EXCEPT ![s] = [status |-> how, answers |-> answers]]
    BY <1>1, <2>1, OneLife DEF SInv
  <2> QED BY <2>2
<1>4. [lives[s] EXCEPT !.status = how] = ended
  BY <1>2
<1>5. L!Runs(s) /\ how \in L!Ended
  BY <1>1, RunsAlike DEF SInv, L!Ended, Ended
<1> HIDE DEF how, answers, ended
<1> QED BY <1>3, <1>4, <1>5 DEF L!End

LEMMA Answering ==
  ASSUME SInv, NEW s \in Running, NEW e \in Events, NEW longer,
         sims' = [sims EXCEPT ![s] = longer], longer # None,
         longer.status = "in_progress", longer.events = Append(sims[s].events, e)
  PROVE  L!Answer(s, e.position, e.answer)
<1> DEFINE before == [p \in Positions |-> Current(sims[s].events, p)]
           after == [p \in Positions |-> Current(longer.events, p)]
           next == [status |-> "in_progress", answers |-> after]
<1>1. s \in Sims /\ sims[s] # None /\ sims[s].status = "in_progress" /\ sims[s] \in Rows
  BY DEF Running, SInv, RowsOK, RowOK
<1>2. lives[s] = [status |-> "in_progress", answers |-> before]
  BY <1>1, LifeOf DEF SInv
<1>3. lives' = [lives EXCEPT ![s] = next]
  <2>1. after = [p \in Positions |-> Current(longer.events, p)]
    OBVIOUS
  <2> HIDE DEF after
  <2>2. lives' = [lives EXCEPT ![s] = [status |-> longer.status, answers |-> after]]
    BY <1>1, <2>1, OneLife DEF SInv
  <2> QED BY <2>2
<1>4. after = [before EXCEPT ![e.position] = e.answer]
  <2>1. sims[s].events \in Seq(Events) /\ e.position \in Positions
    BY <1>1 DEF Rows, Events
  <2>2. \A p \in Positions :
          Current(longer.events, p) = IF p = e.position THEN e.answer ELSE Current(sims[s].events, p)
    BY <2>1, CurrentAppended
  <2> QED BY <2>1, <2>2
<1>5. [lives[s] EXCEPT !.answers = [before EXCEPT ![e.position] = e.answer]] = next
  BY <1>2, <1>4
<1>6. L!Runs(s) /\ lives[s].answers = before
  BY <1>1, <1>2, RunsAlike DEF SInv
<1> HIDE DEF before, after, next
<1> QED BY <1>3, <1>5, <1>6 DEF L!Answer

\* What a request writes of a row there is: an answer, or an end.
LEMMA Decides ==
  ASSUME SInv, NEW r \in Requests, Expire(r) \/ Submit(r) \/ Record(r)
  PROVE  L!Next
<1> DEFINE s == reqs[r].sim
           row == sims[s]
<1>1. /\ reqs[r].pc = "lock" /\ row.status = "in_progress"
      /\ s \in Sims /\ row # None /\ row \in Rows /\ RowOK(row, now)
  BY Locked DEF Expire, Submit, Record, Open, PastDeadline
<1>2. s \in Running
  BY <1>1 DEF Running
<1>3. ASSUME NEW how \in Ended, NEW at \in Nat, NEW keys \in Readings,
             sims' = [sims EXCEPT ![s] = Finalized(@, how, at, keys)]
      PROVE  L!Next
  <2> DEFINE ended == Finalized(row, how, at, keys)
             result == Result(row.paper, row.events, keys)
  <2>1. result \in Seq(Verdicts)
    BY <1>1, ResultTyped DEF Rows
  <2> HIDE DEF result
  <2>2. ended \in Rows /\ ended.status = how /\ ended.events = row.events
    BY <1>1, <2>1 DEF Finalized, Rows, result
  <2>3. ended # None
    BY <2>2, NoneAssumption
  <2>4. sims' = [sims EXCEPT ![s] = ended]
    BY <1>3
  <2> HIDE DEF ended
  <2>5. \E x \in L!Ended : L!End(s, x)
    BY <1>2, <2>2, <2>3, <2>4, Ends
  <2> QED BY <1>1, <2>5 DEF L!Next
<1>4. CASE Expire(r)
  <2>1. reqs[r].keys # None
    BY <1>1, <1>4, Locked DEF KeysNeeded, Expire
  <2>2. reqs[r].keys \in Readings /\ row.deadline \in Nat /\ "expired" \in Ended
    BY <1>1, <2>1, Locked DEF Calls, Rows, Ended
  <2>3. sims' = [sims EXCEPT ![s] = Finalized(@, "expired", row.deadline, reqs[r].keys)]
    BY <1>4, <2>1 DEF Expire, Finalize
  <2> QED BY <1>3, <2>2, <2>3
<1>5. CASE Submit(r)
  <2>1. reqs[r].keys # None
    BY <1>1, <1>5, Locked DEF KeysNeeded, Submit
  <2>2. reqs[r].keys \in Readings /\ reqs[r].at \in Nat /\ "submitted" \in Ended
    BY <1>1, <2>1, Locked DEF Calls, Ended
  <2>3. sims' = [sims EXCEPT ![s] = Finalized(@, "submitted", reqs[r].at, reqs[r].keys)]
    BY <1>5, <2>1 DEF Submit, Finalize
  <2> QED BY <1>3, <2>2, <2>3
<1>6. CASE Record(r)
  <2> DEFINE e == Event(reqs[r])
  <2>1. /\ e \in Events /\ e.position \in Positions /\ e.answer \in Answers
        /\ e.at = reqs[r].at
        /\ row.startedAt <= reqs[r].at /\ row.deadline \in Nat /\ reqs[r].at \in Nat
    BY <1>1, <1>6, Locked DEF Event, Events, Rows, Record
  <2>2. reqs[r].at < row.deadline
    BY <1>1, <1>6, <2>1 DEF Record, Open, PastDeadline
  <2>3. Logging(row, e) # None
    BY <1>1, <2>1, <2>2, Logs DEF Later
  <2> DEFINE longer == Logging(row, e)
  <2>4. sims' = [sims EXCEPT ![s] = longer]
    BY <1>6 DEF Record
  <2> HIDE DEF e
  <2>6. longer.status = "in_progress" /\ longer.events = Append(row.events, e)
    BY <1>1 DEF Logging, Rows
  <2>7. longer # None
    BY <2>3
  <2> HIDE DEF longer
  <2>5. L!Answer(s, e.position, e.answer)
    BY <1>2, <2>1, <2>4, <2>6, <2>7, Answering
  <2> QED BY <1>1, <2>1, <2>5 DEF L!Next
<1> QED BY <1>4, <1>5, <1>6

LEMMA StepKeepsLife ==
  ASSUME SInv, [Next]_vars
  PROVE  [L!Next]_lives
<1>1. ASSUME UNCHANGED sims PROVE UNCHANGED lives
  BY <1>1 DEF lives, Life
<1>2. ASSUME NEW r \in Requests,
             \/ AskStart(r) \/ AskRead(r) \/ AskSubmit(r) \/ AskAnswer(r)
             \/ Find(r) \/ Row(r) \/ Assemble(r) \/ Conflict(r) \/ Content(r) \/ Keys(r)
             \/ Refuse(r) \/ TooLate(r) \/ Settle(r) \/ Serve(r) \/ Fail(r)
      PROVE  UNCHANGED sims
  BY <1>2 DEF AskStart, AskRead, AskSubmit, AskAnswer, Ask, Find, Row, Assemble, Conflict,
              Content, Keys, Refuse, TooLate, Settle, Serve, Fail
<1>3. ASSUME NEW r \in Requests, Insert(r) PROVE [L!Next]_lives
  BY <1>3, Opens DEF L!Next
<1>4. ASSUME NEW r \in Requests, Expire(r) \/ Submit(r) \/ Record(r) PROVE [L!Next]_lives
  BY <1>4, Decides
<1>5. ASSUME UNCHANGED vars \/ Tick \/ \E q \in Questions : Revise(q) PROVE UNCHANGED sims
  BY <1>5 DEF vars, Tick, Revise
<1> QED BY <1>1, <1>2, <1>3, <1>4, <1>5 DEF Next, Work

LEMMA LifeBegins == Init => L!Init
<1> SUFFICES ASSUME Init PROVE L!Init
  OBVIOUS
<1>1. CASE sims = [s \in Sims |-> None]
  <2>1. lives = [s \in Sims |-> IF s = None THEN L!Fresh ELSE None]
    BY <1>1, NoneAssumption DEF lives, Life
  <2> QED BY <2>1 DEF L!Init
<1>2. ASSUME NEW s \in Sims, NEW d \in Definitions, Assembles(d.config, d.selection, Entry),
             sims = [t \in Sims |->
               IF t = s THEN StartSimulation(d.config, Paper(d.config, d.selection, Entry), 0)
               ELSE None]
      PROVE  L!Init
  <2> DEFINE row == StartSimulation(d.config, Paper(d.config, d.selection, Entry), 0)
  <2>0. Entry \in [Questions -> Entries \cup {None}] /\ 0 \in Nat /\ 0 <= 0
    BY SimulationAssumption
  <2>1. row # None /\ Blank(row, 0)
    BY <1>2, <2>0, StartsBlank
  <2> HIDE DEF row
  <2>2. sims = [t \in Sims |-> IF t = s THEN row ELSE None]
    BY <1>2 DEF row
  <2>3. row.status = "in_progress" /\ \A p \in Positions : Current(row.events, p) = None
    BY <2>1 DEF Blank, Current, At
  <2>4. \A t \in Sims : Life(t) = IF t = s THEN L!Fresh ELSE None
    BY <2>1, <2>2, <2>3 DEF Life, L!Fresh
  <2>5. lives = [t \in Sims |-> IF t = s THEN L!Fresh ELSE None]
    BY <2>4 DEF lives
  <2> QED BY <2>5 DEF L!Init
<1> QED BY <1>1, <1>2 DEF Init

\* One simulation at a time, answers only while it runs, and an end that stands: whatever
\* the requests had read before the lock.
THEOREM LifeKept == Spec => KeepsLife
<1>1. Init => L!Init
  BY LifeBegins
<1>2. SInv /\ [Next]_vars => [L!Next]_lives
  BY StepKeepsLife
<1>3. Spec => L!Init /\ [][L!Next]_lives
  BY <1>1, <1>2, SInvHolds, PTL DEF Spec
<1> QED BY <1>3 DEF KeepsLife, L!Spec

=============================================================================
