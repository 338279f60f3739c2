---------------------------- MODULE StudyProofs -----------------------------
(***************************************************************************)
(* For any student, any past, any number of requests: the diagnosis of a   *)
(* wrong answer keeps its promise, a student is told what is stored, no    *)
(* row is ahead of the student's repair, and no recommendation repeats the *)
(* question just attempted.                                                *)
(*                                                                         *)
(* Requests act on what they read some statements ago. What makes that     *)
(* harmless is that little of it goes back: questions are only added, an   *)
(* answered diagnosis keeps its answer and the repair it describes, and    *)
(* how far a log carries a repair only grows with it. The log itself does  *)
(* go back where an attempt is saved again; what was read of it is then    *)
(* still one of its readings, each attempt as it is or as it was.          *)
(***************************************************************************)
EXTENDS Study, FiniteSetTheorems, SequenceTheorems, WellFoundedInduction, TLAPS

-----------------------------------------------------------------------------
(* The rankings of the selections are total: among finitely many candidates  *)
(* whose keys differ one comes first, it is a candidate, and the choice does *)
(* not depend on the order they were listed in.                              *)

\* Keys of one length.
Keys(n) == [1..n -> Int]

-----------------------------------------------------------------------------
(* Least elements.                                                         *)

\* The order of the naturals, as a relation that has no infinite descent.
LEMMA NaturalOrder ==
  \E R : IsWellFoundedOn(R, Nat) /\ \A m, n \in Nat : n < m => <<n, m>> \in R
<1> DEFINE R == OpToRel(<, Nat)
<1>1. IsWellFoundedOn(R, Nat)
  BY NatLessThanWellFounded
<1>2. \A m, n \in Nat : n < m => <<n, m>> \in R
  BY DEF OpToRel
<1> HIDE DEF R
<1> WITNESS R
<1> QED BY <1>1, <1>2

LEMMA LeastNatural ==
  ASSUME NEW S \in SUBSET Nat, S # {}
  PROVE  \E m \in S : \A n \in S : m <= n
<1>1. PICK R : IsWellFoundedOn(R, Nat) /\ \A m, n \in Nat : n < m => <<n, m>> \in R
  BY NaturalOrder
<1>2. PICK m \in S : \A n \in S : ~(<<n, m>> \in R)
  BY <1>1, WFMin
<1>3. ASSUME NEW n \in S PROVE m <= n
  <2>1. m \in Nat /\ n \in Nat /\ ~(n < m)
    BY <1>1, <1>2
  <2> QED BY <2>1
<1> QED BY <1>3

-----------------------------------------------------------------------------
(* The lexicographic order of keys.                                        *)

LEMMA KeysTotal ==
  ASSUME NEW n \in Nat, NEW j \in Keys(n), NEW k \in Keys(n), j # k
  PROVE  Precedes(j, k) \/ Precedes(k, j)
<1> DEFINE Apart == {i \in 1..n : j[i] # k[i]}
<1>1. Apart # {}
  BY DEF Keys
<1>2. Apart \in SUBSET Nat
  OBVIOUS
<1> HIDE DEF Apart
<1>3. PICK m \in Apart : \A i \in Apart : m <= i
  BY <1>1, <1>2, LeastNatural
<1>4. m \in 1..n /\ j[m] # k[m] /\ j[m] \in Int /\ k[m] \in Int
  BY DEF Apart, Keys
<1>5. \A h \in 1..(m - 1) : j[h] = k[h]
  <2> TAKE h \in 1..(m - 1)
  <2>1. h \in 1..n /\ ~(m <= h)
    BY <1>4
  <2> QED BY <1>3, <2>1 DEF Apart
<1>6. DOMAIN j = 1..n /\ DOMAIN k = 1..n
  BY DEF Keys
<1>7. CASE j[m] < k[m]
  BY <1>4, <1>5, <1>6, <1>7 DEF Precedes
<1>8. CASE k[m] < j[m]
  BY <1>4, <1>5, <1>6, <1>8 DEF Precedes
<1> QED BY <1>4, <1>7, <1>8

LEMMA KeysTransitive ==
  ASSUME NEW n \in Nat, NEW j \in Keys(n), NEW k \in Keys(n), NEW l \in Keys(n),
         Precedes(j, k), Precedes(k, l)
  PROVE  Precedes(j, l)
<1>0. /\ DOMAIN j = 1..n /\ DOMAIN k = 1..n
      /\ \A i \in 1..n : j[i] \in Int /\ k[i] \in Int /\ l[i] \in Int
  BY DEF Keys
<1>1. PICK a \in 1..n : j[a] < k[a] /\ \A h \in 1..(a - 1) : j[h] = k[h]
  BY <1>0 DEF Precedes
<1>2. PICK b \in 1..n : k[b] < l[b] /\ \A h \in 1..(b - 1) : k[h] = l[h]
  BY <1>0 DEF Precedes
<1>3. CASE a < b
  <2>1. k[a] = l[a] /\ \A h \in 1..(a - 1) : j[h] = l[h]
    BY <1>1, <1>2, <1>3
  <2>2. j[a] < l[a]
    BY <1>1, <2>1
  <2> QED BY <1>0, <2>1, <2>2 DEF Precedes
<1>4. CASE b < a
  <2>1. j[b] = k[b] /\ \A h \in 1..(b - 1) : j[h] = l[h]
    BY <1>1, <1>2, <1>4
  <2>2. j[b] < l[b]
    BY <1>2, <2>1
  <2> QED BY <1>0, <2>1, <2>2 DEF Precedes
<1>5. CASE a = b
  <2>1. \A h \in 1..(a - 1) : j[h] = l[h]
    BY <1>1, <1>2, <1>5
  <2>2. j[a] < l[a]
    BY <1>0, <1>1, <1>2, <1>5
  <2> QED BY <1>0, <2>1, <2>2 DEF Precedes
<1> QED BY <1>3, <1>4, <1>5

\* m comes before every other element of S.
Leads(key, S, m) == m \in S /\ \A p \in S \ {m} : Precedes(key[m], key[p])

\* A set without a first element would have a smallest subset without one; what is left of
\* that without any one element has a first.
LEMMA SomeoneLeads ==
  ASSUME NEW n \in Nat, NEW S, IsFiniteSet(S), S # {}, NEW key,
         \A q \in S : key[q] \in Keys(n),
         \A p, q \in S : key[p] = key[q] => p = q
  PROVE  \E m \in S : Leads(key, S, m)
<1> SUFFICES ASSUME ~ \E m \in S : Leads(key, S, m)
             PROVE  FALSE
  OBVIOUS
<1> DEFINE Leaderless(T) == T # {} /\ ~ \E m \in T : Leads(key, T, m)
           Sizes == {c \in Nat : \E T \in SUBSET S : Leaderless(T) /\ Cardinality(T) = c}
<1>1. Sizes # {} /\ Sizes \in SUBSET Nat
  BY FS_CardinalityType
<1> HIDE DEF Sizes
<1>2. PICK c \in Sizes : \A d \in Sizes : c <= d
  BY <1>1, LeastNatural
<1>3. PICK T \in SUBSET S : Leaderless(T) /\ Cardinality(T) = c
  BY <1>2 DEF Sizes
<1>4. PICK x \in T : TRUE
  BY <1>3
<1> DEFINE U == T \ {x}
<1>5. IsFiniteSet(T) /\ IsFiniteSet(U) /\ Cardinality(U) = c - 1 /\ Cardinality(U) \in Nat
  BY <1>3, <1>4, FS_Subset, FS_RemoveElement, FS_CardinalityType
<1>6. U # {}
  <2>1. ~Leads(key, T, x)
    BY <1>3, <1>4
  <2> QED BY <1>4, <2>1 DEF Leads
<1>7. ~Leaderless(U)
  <2>1. c \in Nat /\ Cardinality(U) \notin Sizes
    BY <1>1, <1>2, <1>5
  <2> QED BY <1>5, <2>1 DEF Sizes
<1>8. PICK y \in U : Leads(key, U, y)
  BY <1>6, <1>7
<1>9. key[x] \in Keys(n) /\ key[y] \in Keys(n) /\ key[x] # key[y]
  BY <1>4, <1>8
<1>10. CASE Precedes(key[y], key[x])
  <2>1. Leads(key, T, y)
    BY <1>4, <1>8, <1>10 DEF Leads
  <2> QED BY <1>3, <1>8, <2>1
<1>11. CASE Precedes(key[x], key[y])
  <2>1. ASSUME NEW p \in T \ {x} PROVE Precedes(key[x], key[p])
    <3>1. CASE p = y
      BY <1>11, <3>1
    <3>2. CASE p # y
      <4>1. Precedes(key[y], key[p]) /\ key[p] \in Keys(n)
        BY <1>8, <2>1, <3>2 DEF Leads
      <4> QED BY <1>9, <1>11, <4>1, KeysTransitive
    <3> QED BY <3>1, <3>2
  <2>2. Leads(key, T, x)
    BY <1>4, <2>1 DEF Leads
  <2> QED BY <1>3, <1>4, <2>2
<1> QED BY <1>9, <1>10, <1>11, KeysTotal

\* The one that First chooses is a candidate and comes before all the others.
LEMMA FirstLeads ==
  ASSUME NEW n \in Nat, NEW key, IsFiniteSet(DOMAIN key), DOMAIN key # {},
         \A q \in DOMAIN key : key[q] \in Keys(n),
         \A p, q \in DOMAIN key : key[p] = key[q] => p = q
  PROVE  Leads(key, DOMAIN key, First(key))
<1>1. \E m \in DOMAIN key : Leads(key, DOMAIN key, m)
  BY SomeoneLeads
<1>2. \E m \in DOMAIN key : \A p \in DOMAIN key \ {m} : Precedes(key[m], key[p])
  BY <1>1 DEF Leads
<1> QED BY <1>2 DEF First, Leads

-----------------------------------------------------------------------------
(* What requests know.                                                      *)


\* Two plans, or one plan at two moments, that ask for the same repair.
SameRepair(p, o) ==
  /\ p.attempt = o.attempt /\ p.concept = o.concept /\ p.family = o.family
  /\ p.trap = o.trap /\ p.confirmedAt = o.confirmedAt

\* The diagnoses e come after the diagnoses d.
Later(d, e) ==
  \A a \in AttemptIds :
    /\ d[a] # NoOffer => e[a] # NoOffer
    /\ d[a].answer \in Answers => e[a].answer = d[a].answer
    /\ d[a].plan # None => e[a].plan # None /\ SameRepair(d[a].plan, e[a].plan)

\* All that the attempts are and were.
Ever == attempts \cup overwritten

\* Every log of P has one of Q that contains it.
Continues(P, Q) == \A log \in P : \E more \in Q : log \subseteq more /\ IsFiniteSet(more)

Grown ==
  /\ Ever \subseteq Ever' /\ pool \subseteq pool' /\ Later(diagnoses, diagnoses')
  /\ \A a \in attempts : \E b \in attempts' : b.id = a.id
  /\ Continues(Readings, Readings')

ClockOK == clock \in 0..MaxTime /\ pool \subseteq Questions

LogOK ==
  /\ IsFiniteSet(attempts) /\ IsFiniteSet(overwritten)
  /\ \A a \in Ever : /\ a.id \in AttemptIds /\ a.question \in Questions
                     /\ a.out \in Outcomes /\ a.at \in Int
  /\ OneEach(attempts)
  /\ \A a \in overwritten : \E b \in attempts : b.id = a.id
  /\ \A l \in late : l.by \in Int

AnsweredOK(a, d) ==
  /\ d \in [answer : Answers, at : 0..MaxTime, plan : {None} \cup Plans]
  /\ d.plan # None => d.answer = "confirmed" /\ d.plan.attempt = a

DiagnosesOK ==
  /\ diagnoses = [a \in AttemptIds |-> diagnoses[a]]
  /\ \A a \in AttemptIds :
       /\ diagnoses[a] = NoOffer \/ diagnoses[a] = Open \/ AnsweredOK(a, diagnoses[a])
       /\ diagnoses[a] # NoOffer => \E b \in attempts : b.id = a

TokensOK == \A t \in tokens : t.attempt \in AttemptIds /\ diagnoses[t.attempt] # NoOffer

\* A plan read from a row, or the stage to write to one, in the diagnoses d.
PlanOK(p, d) ==
  /\ p.attempt \in AttemptIds
  /\ d[p.attempt].plan # None
  /\ SameRepair(p, d[p.attempt].plan)

\* One of the logs carries the repair as far as the status.
Reached(plan, status, logs) == \E log \in logs : Rank(status) <= Rank(Lifecycle(plan, log))

StageOK(t, d, logs) ==
  /\ t.attempt \in AttemptIds
  /\ d[t.attempt].plan # None
  /\ t.to \in Statuses
  /\ Reached(d[t.attempt].plan, t.to, logs)

AnswersOf == [phase : {"plan", "write"}, attempt : AttemptIds, now : 0..MaxTime,
              answer : Answers, plan : {None} \cup Plans]

ToldAnswer(q) == q.phase = "done" /\ q.told = "answered"

\* What holds of a request by where it stands, in the diagnoses d and all attempts log.
Sound(q, d, log) ==
  /\ q.phase = "explain" => /\ q.attempt \in AttemptIds /\ q.now \in 0..MaxTime
                            /\ \E b \in log : b.id = q.attempt
  /\ q.phase \in {"plan", "write"} =>
       /\ q \in AnswersOf
       /\ d[q.attempt] # NoOffer
       /\ q.phase = "plan" => q.answer = "confirmed"
       /\ q.plan # None => /\ q.answer = "confirmed" /\ q.plan.attempt = q.attempt
                           /\ q.plan.status = "pending"
  /\ q.phase = "reread" => q.attempt \in AttemptIds /\ d[q.attempt].answer \in Answers
  /\ ToldAnswer(q) => /\ q.attempt \in AttemptIds /\ d[q.attempt].answer \in Answers
                      /\ q.answer = d[q.attempt].answer
  /\ q.phase \in {"log", "plans"} => q.seen \subseteq log /\ OneEach(q.seen)
  /\ q.phase = "plans" => \A p \in q.plans : PlanOK(p, d)

Behindhand(q, d, logs) ==
  q.phase = "advance" =>
    /\ q = [phase |-> "advance", todo |-> q.todo, over |-> q.over, via |-> q.via,
            question |-> q.question, plan |-> q.plan, last |-> q.last, only |-> q.only]
    /\ \A t \in q.todo : StageOK(t, d, logs)

RequestsOK ==
  /\ DOMAIN requests = Requests
  /\ \A r \in Requests :
       /\ Sound(requests[r], diagnoses, Ever)
       /\ Behindhand(requests[r], diagnoses, Readings)

\* A request that will tell, or has told, that its own answer was recorded.
Claims(q) == (q.phase = "reread" \/ ToldAnswer(q)) /\ ~q.already

ClaimedOnce ==
  \A r, s \in Requests :
    /\ Claims(requests[r]) /\ Claims(requests[s])
    /\ requests[r].attempt = requests[s].attempt
    => r = s

Base == ClockOK /\ LogOK /\ DiagnosesOK /\ TokensOK /\ RequestsOK

SInv == Base /\ ClaimedOnce /\ StatusEarned

-----------------------------------------------------------------------------
(* How far a log carries a repair.                                         *)

\* The status of a row does not matter to the lifecycle.
LEMMA SameLifecycle ==
  ASSUME NEW p, NEW o, NEW log, SameRepair(p, o)
  PROVE  Lifecycle(p, log) = Lifecycle(o, log)
<1>1. Rounds(p, log) = Rounds(o, log)
  BY DEF SameRepair, Rounds
<1>2. Direct(p, log) = Direct(o, log)
  BY <1>1 DEF SameRepair, Direct
<1> QED BY <1>1, <1>2 DEF Lifecycle

LEMMA LifecycleStatus ==
  \A p, log : Lifecycle(p, log) \in Statuses /\ Rank(Lifecycle(p, log)) \in 0..2
<1> TAKE p, log
<1>1. Lifecycle(p, log) \in Statuses
  BY DEF Lifecycle, Statuses
<1> QED BY <1>1 DEF Rank, Statuses

\* More practice never takes a repair back: a miss after two answers in a row is a third
\* round, and three rounds are enough.
LEMMA LifecycleMonotone ==
  ASSUME NEW p, NEW L, NEW M, IsFiniteSet(M), L \subseteq M
  PROVE  Rank(Lifecycle(p, L)) <= Rank(Lifecycle(p, M))
<1> DEFINE RL == Rounds(p, L)
           RM == Rounds(p, M)
           TL == {a \in Direct(p, L) : \A b \in Direct(p, L) :
                    b = a \/ Earlier(a, b) => b.out \in {"correct"}}
<1>1. RL \subseteq RM /\ IsFiniteSet(RM) /\ IsFiniteSet(RL)
  <2>1. RL \subseteq RM /\ RM \subseteq M
    BY DEF Rounds
  <2> QED BY <2>1, FS_Subset
<1>2. Cardinality(RL) \in Nat /\ Cardinality(RM) \in Nat
  BY <1>1, FS_CardinalityType
<1>3. /\ Lifecycle(p, L) \in Statuses /\ Lifecycle(p, M) \in Statuses
  BY DEF Lifecycle, Statuses
<1>4. CASE RL = RM
  <2>1. Direct(p, L) = Direct(p, M)
    BY <1>4 DEF Direct
  <2>2. Lifecycle(p, L) = Lifecycle(p, M)
    BY <1>4, <2>1 DEF Lifecycle
  <2> QED BY <1>3, <2>2 DEF Rank, Statuses
<1>5. CASE RL # RM
  <2>1. PICK x \in RM : x \notin RL
    BY <1>1, <1>5
  <2>2. Cardinality(RL \cup {x}) = Cardinality(RL) + 1
    BY <1>1, <2>1, FS_AddElement
  <2>3. Cardinality(RL \cup {x}) <= Cardinality(RM)
    BY <1>1, <2>1, FS_Subset
  <2>4. TL \subseteq RL /\ Trailing(Direct(p, L), {"correct"}) = Cardinality(TL)
    BY DEF Trailing, Direct
  <2>5. Cardinality(TL) <= Cardinality(RL) /\ Cardinality(TL) \in Nat
    BY <1>1, <2>4, FS_Subset, FS_CardinalityType
  <2>6. CASE Lifecycle(p, L) = "completed"
    <3>1. Cardinality(RL) >= 2
      BY <1>2, <2>4, <2>5, <2>6 DEF Lifecycle, MaxRounds
    <3>2. Lifecycle(p, M) = "completed"
      BY <3>1, <1>2, <2>2, <2>3 DEF Lifecycle, MaxRounds
    <3> QED BY <3>2, <2>6 DEF Rank
  <2>7. CASE Lifecycle(p, L) # "completed"
    <3>1. RM # {}
      BY <2>1
    <3>2. Lifecycle(p, M) # "pending"
      BY <3>1 DEF Lifecycle
    <3> QED BY <3>2, <2>7, <1>3 DEF Rank, Statuses
  <2> QED BY <2>6, <2>7
<1> QED BY <1>4, <1>5


LEMMA RecordsGrow ==
  ASSUME NEW log, NEW more, NEW p, NEW q, log \subseteq more, p \subseteq q
  PROVE  Records(log, p) \subseteq Records(more, q)
BY DEF Records

LEMMA RecordsFinite ==
  ASSUME NEW log, NEW p, IsFiniteSet(log)
  PROVE  IsFiniteSet(Records(log, p))
<1>1. Records(log, p) \subseteq log
  BY DEF Records
<1> QED BY <1>1, FS_Subset

\* The plan made of an attempt.
LEMMA PlanForType ==
  ASSUME NEW a, NEW log, NEW now \in Nat, a.id \in Nat, a.question \in Questions,
         NEW p, p = PlanFor(a, log, now), p # None
  PROVE  p \in Plans /\ p.attempt = a.id /\ p.status = "pending"
<1>1. Mode(a, log) \in {"timed", "novelty", "standard"}
  BY DEF Mode
<1>2. p.priority \in 0..2 /\ p.trap \in {None, Of(a).trap}
  BY DEF PlanFor
<1>3. Of(a) = Dna[a.question]
  BY DEF Of
<1> QED BY <1>1, <1>2, <1>3 DEF PlanFor, Plans, Statuses

-----------------------------------------------------------------------------
(* Nothing that was read goes back.                                        *)

LEMMA Reflexive == \A d : Later(d, d)
BY DEF Later, SameRepair

\* One diagnosis changes, and comes after what it was.
LEMMA OneLater ==
  ASSUME DiagnosesOK, NEW a \in AttemptIds, NEW v,
         diagnoses' = [diagnoses EXCEPT ![a] = v],
         diagnoses[a] # NoOffer => v # NoOffer,
         diagnoses[a].answer \in Answers => v.answer = diagnoses[a].answer,
         diagnoses[a].plan # None => v.plan # None /\ SameRepair(diagnoses[a].plan, v.plan)
  PROVE  Later(diagnoses, diagnoses')
<1> SUFFICES ASSUME NEW b \in AttemptIds
             PROVE  /\ diagnoses[b] # NoOffer => diagnoses'[b] # NoOffer
                    /\ diagnoses[b].answer \in Answers
                         => diagnoses'[b].answer = diagnoses[b].answer
                    /\ diagnoses[b].plan # None
                         => diagnoses'[b].plan # None
                              /\ SameRepair(diagnoses[b].plan, diagnoses'[b].plan)
  BY DEF Later
<1>1. CASE b = a
  BY <1>1 DEF DiagnosesOK
<1>2. CASE b # a
  <2>1. diagnoses'[b] = diagnoses[b]
    BY <1>2 DEF DiagnosesOK
  <2> QED BY <2>1 DEF SameRepair
<1> QED BY <1>1, <1>2

LEMMA StepGrows ==
  ASSUME Base, Next
  PROVE  Grown
<1> USE DEF Base
<1>0. IsFiniteSet(attempts) /\ IsFiniteSet(overwritten) /\ OneEach(attempts)
  BY DEF LogOK
\* More attempts or questions add to every reading.
<1>a. ASSUME UNCHANGED overwritten, attempts \subseteq attempts', IsFiniteSet(attempts'),
             pool \subseteq pool'
      PROVE  /\ Ever \subseteq Ever' /\ Continues(Readings, Readings')
             /\ \A a \in attempts : \E b \in attempts' : b.id = a.id
  <2>1. ASSUME NEW S \in SUBSET overwritten, OneEach(S)
        PROVE  \E more \in Readings' : /\ Records(With(S), pool) \subseteq more
                                       /\ IsFiniteSet(more)
    <3> DEFINE more == Records(With(S)', pool')
    <3>1. more \in Readings'
      BY <1>a, <2>1 DEF Readings, Records
    <3>2. Records(With(S), pool) \subseteq more
      BY <1>a DEF Records, With
    <3>3. IsFiniteSet(more)
      <4>1. more \subseteq attempts' \cup overwritten
        BY <1>a DEF Records, With
      <4> QED BY <1>0, <1>a, <4>1, FS_Union, FS_Subset
    <3> QED BY <3>1, <3>2, <3>3
  <2> QED BY <1>a, <2>1 DEF Continues, Readings, Ever
<1>1. ASSUME UNCHANGED <<history, pool, diagnoses>>
      PROVE  Grown
  BY <1>0, <1>a, <1>1, Reflexive DEF Grown, history
<1>b. ASSUME UNCHANGED <<history, pool>>, Later(diagnoses, diagnoses')
      PROVE  Grown
  BY <1>0, <1>a, <1>b DEF Grown, history
<1>2. CASE Practise
  <2>1. PICK a : attempts' = attempts \cup {a} /\ UNCHANGED <<pool, overwritten, diagnoses>>
    BY <1>2 DEF Practise
  <2>2. IsFiniteSet(attempts')
    BY <1>0, <2>1, FS_AddElement
  <2> QED BY <1>a, <2>1, <2>2, Reflexive DEF Grown
<1>c. CASE Resave
  <2>1. PICK a, b :
          /\ a \in attempts /\ a.id = b.id /\ attempts' = (attempts \ {a}) \cup {b}
          /\ overwritten' = overwritten \cup {a} /\ UNCHANGED <<pool, diagnoses>>
    BY <1>c DEF Resave, Finalized
  <2>2. IsFiniteSet(attempts') /\ IsFiniteSet(overwritten')
    BY <1>0, <2>1, FS_AddElement, FS_RemoveElement
  <2>3. \A x \in attempts : x # a => x.id # a.id
    BY <1>0, <2>1 DEF OneEach
  <2>4. ASSUME NEW S \in SUBSET overwritten, OneEach(S)
        PROVE  \E more \in Readings' : /\ Records(With(S), pool) \subseteq more
                                       /\ IsFiniteSet(more)
    <3> DEFINE T == IF \E x \in S : x.id = a.id THEN S ELSE S \cup {a}
               more == Records(With(T)', pool')
    <3>1. T \subseteq overwritten' /\ OneEach(T)
      BY <2>1, <2>4 DEF OneEach
    <3>2. With(S) \subseteq With(T)'
      <4>1. CASE \E x \in S : x.id = a.id
        BY <2>1, <4>1 DEF With
      <4>2. CASE ~\E x \in S : x.id = a.id
        BY <2>1, <2>3, <4>2 DEF With
      <4> QED BY <4>1, <4>2
    <3>3. With(T)' \subseteq attempts' \cup overwritten'
      BY <3>1 DEF With
    <3> HIDE DEF T
    <3>4. more \in Readings'
      BY <3>1 DEF Readings, Records
    <3>5. Records(With(S), pool) \subseteq more
      BY <2>1, <3>2 DEF Records
    <3>6. IsFiniteSet(more)
      <4>1. more \subseteq attempts' \cup overwritten'
        BY <3>3 DEF Records
      <4> QED BY <2>2, <4>1, FS_Union, FS_Subset
    <3> QED BY <3>4, <3>5, <3>6
  <2>5. Continues(Readings, Readings')
    BY <2>4 DEF Continues, Readings
  <2> QED BY <2>1, <2>5, Reflexive DEF Grown, Ever
<1>3. CASE Publish
  BY <1>0, <1>a, <1>3, Reflexive DEF Publish, Grown, history
<1>4. CASE Tick
  BY <1>1, <1>4 DEF Tick, history
<1>5. ASSUME NEW r \in Requests,
             AskWhy(r) \/ Respond(r) \/ ComposePlan(r) \/ Reread(r) \/ ReadLog(r)
               \/ ReadPlans(r) \/ Choose(r) \/ Fail(r)
      PROVE  Grown
  BY <1>1, <1>5 DEF AskWhy, Respond, ComposePlan, Reread, ReadLog, ReadPlans, Choose, Fail
<1>6. ASSUME NEW r \in Requests, StoreOffer(r)
      PROVE  Grown
  <2> DEFINE a == requests[r].attempt
             v == IF diagnoses[a] = NoOffer THEN Open ELSE diagnoses[a]
  <2>1. a \in AttemptIds
    BY <1>6 DEF StoreOffer, At, RequestsOK, Sound
  <2>2. diagnoses' = [diagnoses EXCEPT ![a] = v] /\ UNCHANGED <<history, pool>>
    BY <1>6 DEF StoreOffer
  <2>3. CASE diagnoses[a] = NoOffer
    <3>1. v = Open /\ v # NoOffer /\ diagnoses[a].answer \notin Answers
            /\ diagnoses[a].plan = None
      BY <2>3 DEF NoOffer, Open, Answers
    <3> QED BY <1>b, <2>1, <2>2, <3>1, OneLater
  <2>4. CASE diagnoses[a] # NoOffer
    <3>1. v = diagnoses[a]
      BY <2>4
    <3> QED BY <1>b, <2>1, <2>2, <2>4, <3>1, OneLater DEF SameRepair
  <2> QED BY <2>3, <2>4
<1>7. ASSUME NEW r \in Requests, RecordAnswer(r)
      PROVE  Grown
  <2> DEFINE q == requests[r]
             a == q.attempt
             v == [answer |-> q.answer, at |-> q.now, plan |-> q.plan]
  <2>1. a \in AttemptIds /\ UNCHANGED <<history, pool>>
    BY <1>7 DEF RecordAnswer, At, RequestsOK, Sound, AnswersOf
  <2>2. CASE diagnoses[a].answer = "open"
    <3>1. diagnoses' = [diagnoses EXCEPT ![a] = v]
      BY <1>7, <2>2 DEF RecordAnswer, Unanswered
    <3>2. diagnoses[a] = Open
      BY <2>1, <2>2 DEF DiagnosesOK, AnsweredOK, NoOffer, Answers
    <3>3. v # NoOffer /\ diagnoses[a].answer \notin Answers /\ diagnoses[a].plan = None
      <4>1. q.answer \in Answers
        BY <1>7 DEF RecordAnswer, At, RequestsOK, Sound, AnswersOf
      <4> QED BY <4>1, <3>2 DEF NoOffer, Open, Answers
    <3> QED BY <1>b, <2>1, <3>1, <3>3, OneLater
  <2>3. CASE diagnoses[a].answer # "open"
    BY <1>1, <1>7, <2>1, <2>3 DEF RecordAnswer, Unanswered
  <2> QED BY <2>2, <2>3
<1>8. ASSUME NEW r \in Requests, Advance(r)
      PROVE  Grown
  <2>1. PICK t \in requests[r].todo :
          \/ /\ Rank(diagnoses[t.attempt].plan.status) < Rank(t.to)
             /\ diagnoses' = [diagnoses EXCEPT ![t.attempt].plan.status = t.to]
          \/ UNCHANGED diagnoses
    BY <1>8 DEF Advance
  <2> DEFINE a == t.attempt
             d == diagnoses[a]
             v == [d EXCEPT !.plan.status = t.to]
  <2>2. a \in AttemptIds /\ d.plan # None /\ UNCHANGED <<history, pool>>
    BY <1>8, <2>1 DEF Advance, At, RequestsOK, Behindhand, StageOK
  <2>3. CASE diagnoses' = [diagnoses EXCEPT ![a].plan.status = t.to]
    <3>1. diagnoses' = [diagnoses EXCEPT ![a] = v]
      BY <2>3
    <3>2. AnsweredOK(a, d)
      BY <2>2 DEF DiagnosesOK, NoOffer, Open
    <3>3. /\ v.answer = d.answer /\ v.plan = [d.plan EXCEPT !.status = t.to]
          /\ v # NoOffer
      BY <3>2 DEF AnsweredOK, Answers, NoOffer
    <3>4. v.plan \in Plans /\ SameRepair(d.plan, v.plan)
      <4>1. d.plan \in Plans /\ t.to \in Statuses
        BY <1>8, <2>1, <2>2, <3>2
           DEF Advance, At, AnsweredOK, RequestsOK, Behindhand, StageOK
      <4> QED BY <3>3, <4>1 DEF Plans, SameRepair
    <3> HIDE DEF d, v
    <3> QED BY <2>2, <3>1, <3>3, <3>4, StudyAssumption, OneLater, <1>b DEF d
  <2>4. CASE UNCHANGED diagnoses
    BY <1>1, <2>2, <2>4
  <2> QED BY <2>1, <2>3, <2>4
<1> QED BY <1>2, <1>c, <1>3, <1>4, <1>5, <1>6, <1>7, <1>8 DEF Next

-----------------------------------------------------------------------------
(* What a request holds on to stays sound while others act.                *)

LEMMA SoundLater ==
  ASSUME NEW q, NEW d, NEW e, NEW log, NEW more, Later(d, e), log \subseteq more,
         Sound(q, d, log)
  PROVE  Sound(q, e, more)
<1>1. q.phase = "explain" => /\ q.attempt \in AttemptIds /\ q.now \in 0..MaxTime
                            /\ \E b \in more : b.id = q.attempt
  BY DEF Sound
<1>2. q.phase \in {"plan", "write"} => q \in AnswersOf /\ e[q.attempt] # NoOffer
  BY DEF Sound, Later, AnswersOf
<1>3. q.phase = "reread" => q.attempt \in AttemptIds /\ e[q.attempt].answer \in Answers
  BY DEF Sound, Later
<1>4. ToldAnswer(q) => /\ q.attempt \in AttemptIds /\ e[q.attempt].answer \in Answers
                      /\ q.answer = e[q.attempt].answer
  BY DEF Sound, Later
<1>5. q.phase = "plans" => \A p \in q.plans : PlanOK(p, e)
  <2> SUFFICES ASSUME q.phase = "plans", NEW p \in q.plans
               PROVE  PlanOK(p, e)
    OBVIOUS
  <2>1. PlanOK(p, d)
    BY DEF Sound
  <2> QED BY <2>1 DEF PlanOK, Later, SameRepair
<1> QED BY <1>1, <1>2, <1>3, <1>4, <1>5 DEF Sound

\* A status that was reached stays reached, for the same repair.
LEMMA ReachedLater ==
  ASSUME NEW p, NEW o, NEW status \in Statuses, NEW P, NEW Q, Continues(P, Q),
         SameRepair(p, o), Reached(p, status, P)
  PROVE  Reached(o, status, Q)
<1>1. PICK log \in P : Rank(status) <= Rank(Lifecycle(p, log))
  BY DEF Reached
<1>2. PICK more \in Q : log \subseteq more /\ IsFiniteSet(more)
  BY DEF Continues
<1>3. Lifecycle(p, more) = Lifecycle(o, more)
  BY SameLifecycle
<1>4. Rank(Lifecycle(p, log)) <= Rank(Lifecycle(p, more))
  BY <1>2, LifecycleMonotone
<1>5. /\ Rank(status) \in 0..2 /\ Rank(Lifecycle(p, log)) \in 0..2
      /\ Rank(Lifecycle(p, more)) \in 0..2
  BY LifecycleStatus DEF Rank, Statuses
<1>6. Rank(status) <= Rank(Lifecycle(o, more))
  BY <1>1, <1>3, <1>4, <1>5
<1> QED BY <1>6 DEF Reached

LEMMA StageLater ==
  ASSUME NEW t, NEW d, NEW e, NEW P, NEW Q, Later(d, e), Continues(P, Q), StageOK(t, d, P)
  PROVE  StageOK(t, e, Q)
<1> DEFINE p == d[t.attempt].plan
           o == e[t.attempt].plan
<1>1. t.attempt \in AttemptIds /\ p # None /\ t.to \in Statuses /\ Reached(p, t.to, P)
  BY DEF StageOK
<1>2. o # None /\ SameRepair(p, o)
  BY <1>1 DEF Later
<1> HIDE DEF p, o
<1>3. Reached(o, t.to, Q)
  BY <1>1, <1>2, ReachedLater
<1> QED BY <1>1, <1>2, <1>3 DEF StageOK, o

LEMMA BehindLater ==
  ASSUME NEW q, NEW d, NEW e, NEW P, NEW Q, Later(d, e), Continues(P, Q),
         Behindhand(q, d, P)
  PROVE  Behindhand(q, e, Q)
BY StageLater DEF Behindhand

-----------------------------------------------------------------------------
(* Each part of the invariant is kept.                                     *)

LEMMA StepLog ==
  ASSUME Base, Next
  PROVE  ClockOK' /\ LogOK'
<1> USE DEF Base
<1>1. ASSUME UNCHANGED <<clock, pool, history>>
      PROVE  ClockOK' /\ LogOK'
  BY <1>1 DEF ClockOK, LogOK, OneEach, Ever, history
<1>a. ASSUME NEW id \in AttemptIds, NEW m \in Moves, NEW at \in Int
      PROVE  LET a == Finalized(id, m, at)
             IN  /\ a.id = id /\ a.question = m.question /\ a.id \in AttemptIds
                 /\ a.question \in Questions /\ a.out \in Outcomes /\ a.at \in Int
  BY StudyAssumption DEF Finalized
<1>2. CASE Practise
  <2>1. PICK id \in NewIds \ {a.id : a \in attempts}, m \in Moves, at \in {clock - 1, clock} :
          /\ attempts' = attempts \cup {Finalized(id, m, at)}
          /\ late' = late \cup {[id |-> id, by |-> clock]}
          /\ UNCHANGED <<clock, pool, overwritten>>
    BY <1>2 DEF Practise
  <2> DEFINE a == Finalized(id, m, at)
  <2>2. /\ a.id = id /\ a.id \in AttemptIds /\ a.question \in Questions
        /\ a.out \in Outcomes /\ a.at \in Int /\ clock \in Int
    BY <1>a, StudyAssumption DEF ClockOK
  <2> HIDE DEF a
  <2>3. \A b \in attempts : b.id # a.id
    BY <2>1, <2>2
  <2>4. IsFiniteSet(attempts') /\ attempts' = attempts \cup {a}
    BY <2>1, FS_AddElement DEF LogOK, a
  <2>5. /\ OneEach(attempts') /\ \A b \in Ever' : b \in Ever \/ b = a
        /\ \A l \in late' : l.by \in Int
    BY <2>1, <2>2, <2>3, <2>4 DEF LogOK, OneEach, Ever
  <2>6. LogOK'
    BY <2>1, <2>2, <2>4, <2>5 DEF LogOK
  <2> QED BY <2>1, <2>6 DEF ClockOK
<1>b. CASE Resave
  <2>1. PICK l \in late, m \in Moves, a \in attempts, at \in Int :
          /\ attempts' = (attempts \ {a}) \cup {Finalized(a.id, m, at)}
          /\ overwritten' = overwritten \cup {a}
          /\ UNCHANGED <<clock, pool, late>>
    BY <1>b DEF Resave, LogOK
  <2> DEFINE b == Finalized(a.id, m, at)
  <2>2. /\ b.id = a.id /\ b.id \in AttemptIds /\ b.question \in Questions
        /\ b.out \in Outcomes /\ b.at \in Int
    BY <1>a DEF LogOK, Ever
  <2> HIDE DEF b
  <2>3. attempts' = (attempts \ {a}) \cup {b}
    BY <2>1 DEF b
  <2>4. IsFiniteSet(attempts') /\ IsFiniteSet(overwritten')
    <3>1. IsFiniteSet(attempts \ {a}) /\ IsFiniteSet(overwritten)
      BY FS_RemoveElement DEF LogOK
    <3> QED BY <2>1, <2>3, <3>1, FS_AddElement
  <2>5. OneEach(attempts') /\ \A c \in Ever' : c \in Ever \/ c = b
    BY <2>1, <2>2, <2>3 DEF LogOK, OneEach, Ever
  <2>6. \A c \in overwritten' : \E e \in attempts' : e.id = c.id
    BY <2>1, <2>2, <2>3 DEF LogOK
  <2>7. LogOK'
    BY <2>1, <2>2, <2>4, <2>5, <2>6 DEF LogOK
  <2> QED BY <2>1, <2>7 DEF ClockOK
<1>3. CASE Publish
  BY <1>3 DEF Publish, ClockOK, LogOK, OneEach, Ever, history
<1>4. CASE Tick
  BY <1>4, StudyAssumption DEF Tick, ClockOK, LogOK, OneEach, Ever, history
<1>5. ASSUME NEW r \in Requests,
             \/ AskWhy(r) \/ StoreOffer(r) \/ Respond(r) \/ ComposePlan(r) \/ RecordAnswer(r)
             \/ Reread(r) \/ ReadLog(r) \/ ReadPlans(r) \/ Choose(r) \/ Advance(r) \/ Fail(r)
      PROVE  ClockOK' /\ LogOK'
  BY <1>1, <1>5 DEF AskWhy, StoreOffer, Respond, ComposePlan, RecordAnswer, Reread, ReadLog,
                    ReadPlans, Choose, Advance, Fail
<1> QED BY <1>2, <1>b, <1>3, <1>4, <1>5 DEF Next

\* A diagnosis takes one step, or none.
LEMMA OneDiagnosis ==
  ASSUME DiagnosesOK, \A b \in attempts : \E c \in attempts' : c.id = b.id,
         NEW a \in AttemptIds, NEW v,
         diagnoses' = [diagnoses EXCEPT ![a] = v],
         v = Open \/ AnsweredOK(a, v),
         \E b \in attempts : b.id = a
  PROVE  DiagnosesOK'
<1>1. diagnoses' = [b \in AttemptIds |-> diagnoses'[b]]
  BY DEF DiagnosesOK
<1>2. \A b \in AttemptIds : diagnoses'[b] = IF b = a THEN v ELSE diagnoses[b]
  BY DEF DiagnosesOK
<1> SUFFICES ASSUME NEW b \in AttemptIds
             PROVE  /\ diagnoses'[b] = NoOffer \/ diagnoses'[b] = Open
                         \/ AnsweredOK(b, diagnoses'[b])
                    /\ diagnoses'[b] # NoOffer => \E c \in attempts' : c.id = b
  BY <1>1 DEF DiagnosesOK
<1>3. CASE b = a
  BY <1>2, <1>3
<1>4. CASE b # a
  BY <1>2, <1>4 DEF DiagnosesOK
<1> QED BY <1>3, <1>4

LEMMA StepDiagnoses ==
  ASSUME Base, Next
  PROVE  DiagnosesOK'
<1> USE DEF Base
<1>0. \A b \in attempts : \E c \in attempts' : c.id = b.id
  BY StepGrows DEF Grown
<1>1. ASSUME UNCHANGED diagnoses
      PROVE  DiagnosesOK'
  BY <1>0, <1>1 DEF DiagnosesOK, AnsweredOK, NoOffer, Open
<1>2. ASSUME NEW r \in Requests, StoreOffer(r)
      PROVE  DiagnosesOK'
  <2> DEFINE a == requests[r].attempt
             v == IF diagnoses[a] = NoOffer THEN Open ELSE diagnoses[a]
  <2>1. a \in AttemptIds /\ \E b \in attempts : b.id = a
    <3>1. a \in AttemptIds /\ \E b \in Ever : b.id = a
      BY <1>2 DEF StoreOffer, At, RequestsOK, Sound
    <3> QED BY <3>1 DEF Ever, LogOK
  <2>2. diagnoses' = [diagnoses EXCEPT ![a] = v]
    BY <1>2 DEF StoreOffer
  <2>3. v = Open \/ AnsweredOK(a, v)
    BY <2>1 DEF DiagnosesOK
  <2> HIDE DEF a, v
  <2> QED BY <1>0, <2>1, <2>2, <2>3, OneDiagnosis
<1>3. ASSUME NEW r \in Requests, RecordAnswer(r)
      PROVE  DiagnosesOK'
  <2> DEFINE q == requests[r]
             a == q.attempt
             v == [answer |-> q.answer, at |-> q.now, plan |-> q.plan]
  <2>1. /\ q \in AnswersOf /\ diagnoses[a] # NoOffer
        /\ q.plan # None => q.answer = "confirmed" /\ q.plan.attempt = a
    BY <1>3 DEF RecordAnswer, At, RequestsOK, Sound
  <2>2. a \in AttemptIds /\ \E b \in attempts : b.id = a
    BY <2>1 DEF DiagnosesOK, AnswersOf
  <2>3. AnsweredOK(a, v)
    BY <2>1 DEF AnsweredOK, AnswersOf
  <2>4. \/ diagnoses' = [diagnoses EXCEPT ![a] = v]
        \/ UNCHANGED diagnoses
    BY <1>3 DEF RecordAnswer
  <2> HIDE DEF a, v
  <2> QED BY <1>0, <1>1, <2>2, <2>3, <2>4, OneDiagnosis
<1>4. ASSUME NEW r \in Requests, Advance(r)
      PROVE  DiagnosesOK'
  <2>1. PICK t \in requests[r].todo :
          \/ diagnoses' = [diagnoses EXCEPT ![t.attempt].plan.status = t.to]
          \/ UNCHANGED diagnoses
    BY <1>4 DEF Advance
  <2> DEFINE a == t.attempt
             d == diagnoses[a]
             v == [d EXCEPT !.plan.status = t.to]
  <2>2. a \in AttemptIds /\ d.plan # None /\ t.to \in Statuses
    BY <1>4, <2>1 DEF Advance, At, RequestsOK, Behindhand, StageOK
  <2>3. AnsweredOK(a, d) /\ \E b \in attempts : b.id = a
    BY <2>2 DEF DiagnosesOK, NoOffer, Open
  <2>4. AnsweredOK(a, v)
    <3>1. d.plan \in Plans /\ d.answer = "confirmed" /\ d.plan.attempt = a
      BY <2>2, <2>3 DEF AnsweredOK
    <3>2. /\ v.plan = [d.plan EXCEPT !.status = t.to] /\ v.answer = d.answer
          /\ v = [d EXCEPT !.plan = v.plan]
      BY <2>3 DEF AnsweredOK
    <3>3. v.plan \in Plans /\ v.plan.attempt = a
      BY <2>2, <3>1, <3>2 DEF Plans
    <3> HIDE DEF v
    <3> QED BY <2>3, <3>1, <3>2, <3>3 DEF AnsweredOK
  <2>5. diagnoses' = [diagnoses EXCEPT ![a] = v] \/ UNCHANGED diagnoses
    BY <2>1
  <2> HIDE DEF a, v
  <2> QED BY <1>0, <1>1, <2>2, <2>3, <2>4, <2>5, OneDiagnosis
<1>5. ASSUME NEW r \in Requests,
             \/ AskWhy(r) \/ Respond(r) \/ ComposePlan(r)
             \/ Reread(r) \/ ReadLog(r) \/ ReadPlans(r) \/ Choose(r) \/ Fail(r)
      PROVE  UNCHANGED diagnoses
  BY <1>5 DEF AskWhy, Respond, ComposePlan, Reread, ReadLog, ReadPlans, Choose, Fail
<1>6. ASSUME Practise \/ Resave \/ Publish \/ Tick
      PROVE  UNCHANGED diagnoses
  BY <1>6 DEF Practise, Resave, Publish, Tick
<1> QED BY <1>1, <1>2, <1>3, <1>4, <1>5, <1>6 DEF Next

LEMMA StepTokens ==
  ASSUME Base, Next
  PROVE  TokensOK'
<1> USE DEF Base
<1>0. Later(diagnoses, diagnoses')
  BY StepGrows DEF Grown
<1>1. ASSUME UNCHANGED tokens
      PROVE  TokensOK'
  BY <1>0, <1>1 DEF TokensOK, Later
<1>2. ASSUME NEW r, NEW a \in AttemptIds, NEW stored, NEW now, Issue(r, a, stored, now),
             diagnoses'[a] # NoOffer
      PROVE  TokensOK'
  <2>1. CASE UNCHANGED tokens
    BY <1>1, <2>1
  <2>2. CASE tokens' = tokens \cup {[attempt |-> a, expires |-> now + Lifetime]}
    BY <1>0, <1>2, <2>2 DEF TokensOK, Later
  <2> QED BY <1>2, <2>1, <2>2 DEF Issue
<1>3. ASSUME NEW r \in Requests, AskWhy(r)
      PROVE  TokensOK'
  <2>1. PICK a \in {b.id : b \in Missed(attempts)} :
          IF diagnoses[a] # NoOffer THEN Issue(r, a, diagnoses[a], clock) ELSE UNCHANGED tokens
    BY <1>3 DEF AskWhy
  <2>2. a \in AttemptIds
    BY DEF LogOK, Missed, Ever
  <2>3. CASE diagnoses[a] # NoOffer
    <3>1. diagnoses'[a] # NoOffer
      BY <1>0, <2>2, <2>3 DEF Later
    <3> QED BY <1>2, <2>1, <2>2, <2>3, <3>1
  <2>4. CASE diagnoses[a] = NoOffer
    BY <1>1, <2>1, <2>4
  <2> QED BY <2>3, <2>4
<1>4. ASSUME NEW r \in Requests, StoreOffer(r)
      PROVE  TokensOK'
  <2> DEFINE a == requests[r].attempt
             v == IF diagnoses[a] = NoOffer THEN Open ELSE diagnoses[a]
  <2>1. a \in AttemptIds
    BY <1>4 DEF StoreOffer, At, RequestsOK, Sound
  <2>2. diagnoses' = [diagnoses EXCEPT ![a] = v] /\ Issue(r, a, v, requests[r].now)
    BY <1>4 DEF StoreOffer
  <2>3. diagnoses'[a] # NoOffer
    BY <2>1, <2>2 DEF DiagnosesOK, NoOffer, Open
  <2> HIDE DEF a, v
  <2> QED BY <1>2, <2>1, <2>2, <2>3
<1>5. ASSUME NEW r \in Requests,
             \/ Respond(r) \/ ComposePlan(r) \/ RecordAnswer(r) \/ Advance(r)
             \/ Reread(r) \/ ReadLog(r) \/ ReadPlans(r) \/ Choose(r) \/ Fail(r)
      PROVE  UNCHANGED tokens
  BY <1>5 DEF Respond, ComposePlan, RecordAnswer, Advance, Reread, ReadLog, ReadPlans, Choose,
              Fail
<1>6. ASSUME Practise \/ Resave \/ Publish \/ Tick
      PROVE  UNCHANGED tokens
  BY <1>6 DEF Practise, Resave, Publish, Tick
<1> QED BY <1>1, <1>3, <1>4, <1>5, <1>6 DEF Next

\* One request moves; what the others hold stays sound.
LEMMA OneRequest ==
  ASSUME Base, Next, NEW r \in Requests, NEW q, Set(r, q),
         Sound(q, diagnoses', Ever'),
         Behindhand(q, diagnoses', Readings')
  PROVE  RequestsOK'
<1> USE DEF Base
<1>1. Grown /\ LogOK'
  BY StepGrows, StepLog
<1>3. DOMAIN requests' = Requests
  BY DEF Set, RequestsOK
<1> SUFFICES ASSUME NEW s \in Requests
             PROVE  /\ Sound(requests'[s], diagnoses', Ever')
                    /\ Behindhand(requests'[s], diagnoses', Readings')
  BY <1>3 DEF RequestsOK
<1>4. CASE s = r
  <2>1. requests'[s] = q
    BY <1>4 DEF Set, RequestsOK
  <2> QED BY <2>1
<1>5. CASE s # r
  <2>1. requests'[s] = requests[s]
    BY <1>5 DEF Set, RequestsOK
  <2>2. /\ Sound(requests[s], diagnoses, Ever)
        /\ Behindhand(requests[s], diagnoses, Readings)
    BY DEF RequestsOK
  <2> QED BY <1>1, <2>1, <2>2, SoundLater, BehindLater DEF Grown
<1> QED BY <1>4, <1>5

\* A request that was told an answer, or told nothing.
LEMMA SoundOnceTold ==
  \A a \in AttemptIds : \A d, log, more, answer, already :
    /\ d[a].answer = answer /\ answer \in Answers
    => /\ Sound(Told(a, answer, already), d, log)
       /\ Behindhand(Told(a, answer, already), d, more)
BY DEF Sound, Behindhand, Told, ToldAnswer

LEMMA SoundIdle ==
  \A d, log, more : Sound(Idle, d, log) /\ Behindhand(Idle, d, more)
BY DEF Sound, Behindhand, Idle, ToldAnswer

\* A stored diagnosis with an answer has one of the three.
LEMMA StoredAnswer ==
  ASSUME DiagnosesOK, NEW a \in AttemptIds, diagnoses[a] # NoOffer,
         diagnoses[a].answer # "open"
  PROVE  diagnoses[a].answer \in Answers
BY DEF DiagnosesOK, AnsweredOK, NoOffer, Open

\* What a request saw of the attempts is in one of their readings.
LEMMA SeenIsReading ==
  ASSUME NEW seen, seen \subseteq Ever, OneEach(seen)
  PROVE  \E log \in Readings : Records(seen, pool) \subseteq log
<1> DEFINE S == seen \ attempts
<1>1. S \subseteq overwritten /\ OneEach(S)
  BY DEF Ever, OneEach
<1>2. seen \subseteq With(S)
  <2> SUFFICES ASSUME NEW a \in seen, a \in attempts, NEW b \in S, a.id = b.id
               PROVE  FALSE
    BY DEF With
  <2> QED BY DEF OneEach
<1> HIDE DEF S
<1>3. Records(With(S), pool) \in Readings
  BY <1>1 DEF Readings
<1>4. Records(seen, pool) \subseteq Records(With(S), pool)
  BY <1>2, RecordsGrow
<1> QED BY <1>3, <1>4

LEMMA StepRequests ==
  ASSUME Base, Next
  PROVE  RequestsOK'
<1> USE DEF Base
<1>0. Grown /\ LogOK' /\ DiagnosesOK'
  BY StepGrows, StepLog, StepDiagnoses
<1>1. ASSUME UNCHANGED requests
      PROVE  RequestsOK'
  <2>1. \A s \in Requests : /\ Sound(requests[s], diagnoses', Ever')
                            /\ Behindhand(requests[s], diagnoses', Readings')
    BY <1>0, SoundLater, BehindLater DEF RequestsOK, Grown
  <2> QED BY <1>1, <2>1 DEF RequestsOK
<1>2. ASSUME NEW r \in Requests, NEW a \in AttemptIds, NEW stored, NEW now,
             Issue(r, a, stored, now), stored = diagnoses'[a], diagnoses'[a] # NoOffer
      PROVE  RequestsOK'
  <2>1. CASE stored.answer # "open"
    <3>1. diagnoses'[a].answer \in Answers
      BY <1>0, <1>2, <2>1 DEF DiagnosesOK, AnsweredOK, NoOffer, Open
    <3>2. Set(r, Told(a, stored.answer, TRUE))
      BY <1>2, <2>1 DEF Issue
    <3>3. /\ Sound(Told(a, stored.answer, TRUE), diagnoses', Ever')
          /\ Behindhand(Told(a, stored.answer, TRUE), diagnoses', Readings')
      BY <1>2, <3>1, SoundOnceTold
    <3> QED BY <3>2, <3>3, OneRequest
  <2>2. CASE stored.answer = "open"
    <3> DEFINE q == [phase |-> "done", told |-> "ready", attempt |-> a]
    <3>1. Set(r, q)
      BY <1>2, <2>2 DEF Issue
    <3>2. Sound(q, diagnoses', Ever') /\ Behindhand(q, diagnoses', Readings')
      BY DEF Sound, Behindhand, ToldAnswer
    <3> HIDE DEF q
    <3> QED BY <3>1, <3>2, OneRequest
  <2> QED BY <2>1, <2>2
<1>3. ASSUME NEW r \in Requests, AskWhy(r)
      PROVE  RequestsOK'
  <2>1. PICK a \in {b.id : b \in Missed(attempts)} :
          IF diagnoses[a] # NoOffer THEN Issue(r, a, diagnoses[a], clock)
          ELSE Set(r, [phase |-> "explain", attempt |-> a, now |-> clock])
    BY <1>3 DEF AskWhy
  <2>2. /\ a \in AttemptIds /\ \E b \in Ever : b.id = a
        /\ UNCHANGED <<clock, pool, Ever, diagnoses>>
    BY <1>3 DEF LogOK, Missed, AskWhy, Ever, history
  <2>3. CASE diagnoses[a] # NoOffer
    BY <1>2, <2>1, <2>2, <2>3
  <2>4. CASE diagnoses[a] = NoOffer
    <3> DEFINE q == [phase |-> "explain", attempt |-> a, now |-> clock]
    <3>1. Set(r, q)
      BY <2>1, <2>4
    <3>2. Sound(q, diagnoses', Ever') /\ Behindhand(q, diagnoses', Readings')
      BY <2>2 DEF Sound, Behindhand, ToldAnswer, ClockOK
    <3> HIDE DEF q
    <3> QED BY <3>1, <3>2, OneRequest
  <2> QED BY <2>3, <2>4
<1>4. ASSUME NEW r \in Requests, StoreOffer(r)
      PROVE  RequestsOK'
  <2> DEFINE a == requests[r].attempt
             v == IF diagnoses[a] = NoOffer THEN Open ELSE diagnoses[a]
  <2>1. a \in AttemptIds
    BY <1>4 DEF StoreOffer, At, RequestsOK, Sound
  <2>2. diagnoses' = [diagnoses EXCEPT ![a] = v] /\ Issue(r, a, v, requests[r].now)
    BY <1>4 DEF StoreOffer
  <2>3. v # NoOffer
    BY DEF NoOffer, Open
  <2>4. diagnoses'[a] = v
    BY <2>1, <2>2 DEF DiagnosesOK
  <2> HIDE DEF a, v
  <2> QED BY <1>2, <2>1, <2>2, <2>3, <2>4
<1>5. ASSUME NEW r \in Requests, Respond(r)
      PROVE  RequestsOK'
  <2>1. PICK token \in tokens, answer \in Answers :
          IF diagnoses[token.attempt].answer # "open"
          THEN Set(r, Told(token.attempt, diagnoses[token.attempt].answer, TRUE))
          ELSE Set(r, [phase |-> IF answer = "confirmed" THEN "plan" ELSE "write",
                       attempt |-> token.attempt, now |-> clock, answer |-> answer,
                       plan |-> None])
    BY <1>5 DEF Respond
  <2> DEFINE a == token.attempt
             q == [phase |-> IF answer = "confirmed" THEN "plan" ELSE "write",
                   attempt |-> a, now |-> clock, answer |-> answer, plan |-> None]
  <2>2. /\ a \in AttemptIds /\ diagnoses[a] # NoOffer
        /\ UNCHANGED <<clock, pool, diagnoses>>
    BY <1>5 DEF TokensOK, Respond
  <2>3. CASE diagnoses[a].answer # "open"
    <3>1. diagnoses'[a].answer \in Answers
      BY <2>2, <2>3, StoredAnswer
    <3> DEFINE t == Told(a, diagnoses[a].answer, TRUE)
    <3>2. Set(r, t)
      BY <2>1, <2>3
    <3>3. Sound(t, diagnoses', Ever') /\ Behindhand(t, diagnoses', Readings')
      BY <2>2, <3>1, SoundOnceTold
    <3> HIDE DEF t
    <3> QED BY <3>2, <3>3, OneRequest
  <2>4. CASE diagnoses[a].answer = "open"
    <3>1. Set(r, q)
      BY <2>1, <2>4
    <3>2. q \in AnswersOf
      BY <2>2 DEF AnswersOf, ClockOK
    <3>3. /\ q.phase \in {"plan", "write"} /\ q.plan = None /\ q.attempt = a
          /\ q.phase = "plan" => q.answer = "confirmed"
      OBVIOUS
    <3> HIDE DEF q
    <3>4. Sound(q, diagnoses', Ever') /\ Behindhand(q, diagnoses', Readings')
      BY <2>2, <3>2, <3>3 DEF Sound, Behindhand, ToldAnswer
    <3> QED BY <3>1, <3>4, OneRequest
  <2> QED BY <2>3, <2>4
<1>6. ASSUME NEW r \in Requests, ComposePlan(r)
      PROVE  RequestsOK'
  <2> DEFINE o == requests[r]
             a == Attempt(o.attempt)
             made == PlanFor(a, Records(attempts, pool), o.now)
  <2>1. /\ o.phase = "plan" /\ o \in AnswersOf /\ diagnoses[o.attempt] # NoOffer
        /\ UNCHANGED diagnoses
    BY <1>6 DEF ComposePlan, At, RequestsOK, Sound
  <2>2. a \in attempts /\ a.id = o.attempt
    <3>1. \E b \in attempts : b.id = o.attempt
      BY <2>1 DEF DiagnosesOK, AnswersOf
    <3> QED BY <3>1 DEF Attempt
  <2>3. o.now \in Nat /\ o.attempt \in Nat /\ a.question \in Questions
    <3>1. o.now \in 0..MaxTime /\ o.attempt \in AttemptIds
      BY <2>1 DEF AnswersOf
    <3>2. AttemptIds \subseteq Nat /\ MaxTime \in Nat
      BY StudyAssumption
    <3>3. a.question \in Questions
      <4> HIDE DEF a, o
      <4> QED BY <2>2 DEF LogOK, Ever
    <3>4. o.now \in Nat
      BY <3>1, <3>2
    <3>5. o.attempt \in Nat
      BY <3>1, <3>2
    <3> QED BY <3>3, <3>4, <3>5
  <2>4. PICK p \in {made, None} : Set(r, [o EXCEPT !.phase = "write", !.plan = p])
    BY <1>6 DEF ComposePlan
  <2> DEFINE q == [o EXCEPT !.phase = "write", !.plan = p]
  <2>5. p # None => p \in Plans /\ p.attempt = o.attempt /\ p.status = "pending"
    <3>1. made # None => made \in Plans /\ made.attempt = o.attempt /\ made.status = "pending"
      <4> HIDE DEF made, a, o
      <4> QED BY <2>2, <2>3, PlanForType DEF made
    <3> HIDE DEF made
    <3> QED BY <3>1
  <2>6. o.answer = "confirmed"
    BY <2>1 DEF RequestsOK, Sound
  <2> HIDE DEF a, made
  <2>7. /\ q \in AnswersOf /\ q.phase = "write" /\ q.attempt = o.attempt
        /\ q.answer = o.answer /\ q.plan = p
    <3> HIDE DEF o
    <3> QED BY <2>1, <2>5 DEF AnswersOf
  <2> HIDE DEF q
  <2>8. Sound(q, diagnoses', Ever') /\ Behindhand(q, diagnoses', Readings')
    BY <2>1, <2>5, <2>6, <2>7 DEF Sound, Behindhand, ToldAnswer
  <2>9. Set(r, q)
    BY <2>4 DEF q
  <2> QED BY <2>8, <2>9, OneRequest
<1>7. ASSUME NEW r \in Requests, RecordAnswer(r)
      PROVE  RequestsOK'
  <2> DEFINE o == requests[r]
             won == Unanswered(diagnoses[o.attempt])
             q == [phase |-> "reread", attempt |-> o.attempt, already |-> ~won,
                   answer |-> o.answer]
  <2>1. /\ o \in AnswersOf /\ diagnoses[o.attempt] # NoOffer
    BY <1>7 DEF RecordAnswer, At, RequestsOK, Sound
  <2>2. Set(r, q)
    BY <1>7 DEF RecordAnswer
  <2>3. o.attempt \in AttemptIds /\ o.answer \in Answers
    BY <2>1 DEF AnswersOf
  <2>4. diagnoses'[o.attempt].answer \in Answers
    <3>1. CASE won
      BY <1>7, <2>3, <3>1 DEF RecordAnswer, DiagnosesOK
    <3>2. CASE ~won
      <4>1. diagnoses[o.attempt].answer \in Answers
        BY <2>1, <2>3, <3>2, StoredAnswer DEF Unanswered
      <4> QED BY <1>0, <2>3, <4>1 DEF Grown, Later
    <3> QED BY <3>1, <3>2
  <2>5. q.phase = "reread" /\ q.attempt = o.attempt
    OBVIOUS
  <2> HIDE DEF q
  <2>6. Sound(q, diagnoses', Ever') /\ Behindhand(q, diagnoses', Readings')
    BY <2>3, <2>4, <2>5 DEF Sound, Behindhand, ToldAnswer
  <2> QED BY <2>2, <2>6, OneRequest
<1>8. ASSUME NEW r \in Requests, Reread(r)
      PROVE  RequestsOK'
  <2> DEFINE o == requests[r]
             q == Told(o.attempt, Stands(o), o.already)
  <2>1. /\ o.attempt \in AttemptIds /\ diagnoses[o.attempt].answer \in Answers
        /\ UNCHANGED diagnoses
    BY <1>8 DEF Reread, At, RequestsOK, Sound
  <2>2. Set(r, q)
    BY <1>8 DEF Reread
  <2>3. Sound(q, diagnoses', Ever') /\ Behindhand(q, diagnoses', Readings')
    BY <2>1, SoundOnceTold DEF Stands
  <2> HIDE DEF q
  <2> QED BY <2>2, <2>3, OneRequest
<1>9. ASSUME NEW r \in Requests, ReadLog(r)
      PROVE  RequestsOK'
  <2> DEFINE q == [phase |-> "log", seen |-> attempts,
                   over |-> Over(Records(attempts, pool))]
  <2>1. Set(r, q) /\ attempts \subseteq Ever' /\ OneEach(attempts)
    BY <1>9 DEF ReadLog, Ever, history, LogOK
  <2>2. q.phase = "log" /\ q.seen = attempts
    OBVIOUS
  <2> HIDE DEF q
  <2>3. Sound(q, diagnoses', Ever') /\ Behindhand(q, diagnoses', Readings')
    BY <2>1, <2>2 DEF Sound, Behindhand, ToldAnswer
  <2> QED BY <2>1, <2>3, OneRequest
<1>10. ASSUME NEW r \in Requests, ReadPlans(r)
       PROVE  RequestsOK'
  <2> DEFINE rows == {a \in Confirmed : diagnoses[a].plan.status # "completed"}
             q == [phase |-> "plans", seen |-> requests[r].seen, over |-> requests[r].over,
                   plans |-> {diagnoses[a].plan : a \in rows}]
  <2>1. Set(r, q) /\ UNCHANGED <<Ever, diagnoses>>
    BY <1>10 DEF ReadPlans, Ever, history
  <2>2. requests[r].seen \subseteq Ever /\ OneEach(requests[r].seen)
    BY <1>10 DEF ReadPlans, At, RequestsOK, Sound
  <2>3. \A p \in q.plans : PlanOK(p, diagnoses)
    <3> SUFFICES ASSUME NEW a \in rows
                 PROVE  PlanOK(diagnoses[a].plan, diagnoses)
      OBVIOUS
    <3>1. a \in AttemptIds /\ diagnoses[a].answer = "confirmed" /\ diagnoses[a].plan # None
      BY DEF Confirmed
    <3>2. diagnoses[a].plan.attempt = a
      BY <3>1 DEF DiagnosesOK, AnsweredOK, NoOffer, Open
    <3> QED BY <3>1, <3>2 DEF PlanOK, SameRepair
  <2>4. q.phase = "plans" /\ q.seen = requests[r].seen
    OBVIOUS
  <2> HIDE DEF q, rows
  <2>5. Sound(q, diagnoses', Ever') /\ Behindhand(q, diagnoses', Readings')
    BY <2>1, <2>2, <2>3, <2>4 DEF Sound, Behindhand, ToldAnswer
  <2> QED BY <2>1, <2>5, OneRequest
<1>11. ASSUME NEW r \in Requests, Choose(r)
       PROVE  RequestsOK'
  <2> DEFINE o == requests[r]
             log == Records(o.seen, pool)
             todo == Behind(o.plans, log)
  <2>1. PICK told : Set(r, [phase |-> "advance", todo |-> todo, over |-> o.over,
                            via |-> told.via, question |-> told.question, plan |-> told.plan,
                            last |-> JustAttempted(log), only |-> Cardinality(pool) = 1])
    BY <1>11 DEF Choose
  <2> DEFINE q == [phase |-> "advance", todo |-> todo, over |-> o.over,
                   via |-> told.via, question |-> told.question, plan |-> told.plan,
                   last |-> JustAttempted(log), only |-> Cardinality(pool) = 1]
  <2>2. /\ o.seen \subseteq Ever /\ OneEach(o.seen)
        /\ \A p \in o.plans : PlanOK(p, diagnoses)
    BY <1>11 DEF Choose, At, RequestsOK, Sound
  <2>3. \A t \in todo : StageOK(t, diagnoses, {log})
    <3> SUFFICES ASSUME NEW p \in o.plans
                 PROVE  StageOK([attempt |-> p.attempt, to |-> Lifecycle(p, log)], diagnoses, {log})
      BY DEF Behind
    <3>1. PlanOK(p, diagnoses)
      BY <2>2
    <3>2. Lifecycle(p, log) = Lifecycle(diagnoses[p.attempt].plan, log)
      BY <3>1, SameLifecycle DEF PlanOK
    <3>3. Lifecycle(p, log) \in Statuses /\ Rank(Lifecycle(p, log)) \in 0..2
      BY LifecycleStatus
    <3> HIDE DEF log
    <3> QED BY <3>1, <3>2, <3>3 DEF StageOK, PlanOK, Reached
  <2>4. \A t \in todo : StageOK(t, diagnoses', Readings')
    <3>1. PICK read \in Readings : log \subseteq read
      BY <2>2, SeenIsReading
    <3>2. Continues({log}, Readings')
      <4>1. PICK more \in Readings' : read \subseteq more /\ IsFiniteSet(more)
        BY <1>0 DEF Grown, Continues
      <4> QED BY <3>1, <4>1 DEF Continues
    <3> HIDE DEF todo, log
    <3> QED BY <1>0, <2>3, <3>2, StageLater DEF Grown
  <2>5. /\ q.phase = "advance" /\ q.todo = todo
        /\ q = [phase |-> "advance", todo |-> q.todo, over |-> q.over, via |-> q.via,
                question |-> q.question, plan |-> q.plan, last |-> q.last, only |-> q.only]
    <3> HIDE DEF todo, log
    <3> QED OBVIOUS
  <2>6. Set(r, q)
    BY <2>1
  <2> HIDE DEF q, todo, log
  <2>7. Sound(q, diagnoses', Ever') /\ Behindhand(q, diagnoses', Readings')
    BY <2>4, <2>5 DEF Sound, Behindhand, ToldAnswer
  <2> QED BY <2>6, <2>7, OneRequest
<1>12. ASSUME NEW r \in Requests, Advance(r)
       PROVE  RequestsOK'
  <2> DEFINE o == requests[r]
  <2>1. PICK t \in o.todo : Set(r, [o EXCEPT !.todo = @ \ {t}])
    BY <1>12 DEF Advance
  <2> DEFINE q == [o EXCEPT !.todo = @ \ {t}]
  <2>2. Behindhand(o, diagnoses, Readings) /\ o.phase = "advance"
    BY <1>12 DEF RequestsOK, Advance, At
  <2>3. Behindhand(o, diagnoses', Readings')
    BY <1>0, <2>2, BehindLater DEF Grown
  <2>4. /\ q.todo \subseteq o.todo /\ q.phase = "advance"
        /\ q = [phase |-> "advance", todo |-> q.todo, over |-> q.over, via |-> q.via,
                question |-> q.question, plan |-> q.plan, last |-> q.last, only |-> q.only]
    <3>1. o = [phase |-> "advance", todo |-> o.todo, over |-> o.over, via |-> o.via,
               question |-> o.question, plan |-> o.plan, last |-> o.last, only |-> o.only]
      BY <2>2 DEF Behindhand
    <3> HIDE DEF o
    <3> QED BY <3>1
  <2>5. Set(r, q)
    BY <2>1
  <2> HIDE DEF q
  <2>6. Sound(q, diagnoses', Ever') /\ Behindhand(q, diagnoses', Readings')
    BY <2>2, <2>3, <2>4 DEF Sound, Behindhand, ToldAnswer
  <2> QED BY <2>5, <2>6, OneRequest
<1>13. ASSUME NEW r \in Requests, Fail(r)
       PROVE  RequestsOK'
  <2>1. Set(r, Idle)
    BY <1>13 DEF Fail
  <2> QED BY <2>1, SoundIdle, OneRequest
<1>14. ASSUME Practise \/ Resave \/ Publish \/ Tick
       PROVE  UNCHANGED requests
  BY <1>14 DEF Practise, Resave, Publish, Tick
<1> QED BY <1>1, <1>3, <1>4, <1>5, <1>6, <1>7, <1>8, <1>9, <1>10, <1>11, <1>12, <1>13, <1>14
       DEF Next

LEMMA StepBase ==
  ASSUME Base, Next
  PROVE  Base'
BY StepLog, StepDiagnoses, StepTokens, StepRequests DEF Base

-----------------------------------------------------------------------------
(* One answer is claimed, and no row is ahead.                             *)

LEMMA StepClaims ==
  ASSUME Base, Next, ClaimedOnce
  PROVE  ClaimedOnce'
<1> USE DEF Base
\* Who claims an answer claimed it before, or has just recorded it.
<1>1. ASSUME NEW r \in Requests, Claims(requests'[r])
      PROVE  \/ Claims(requests[r]) /\ requests[r].attempt = requests'[r].attempt
             \/ /\ RecordAnswer(r) /\ requests'[r].attempt \in AttemptIds
                /\ diagnoses[requests'[r].attempt].answer = "open"
  <2> DEFINE kept == Claims(requests[r]) /\ requests[r].attempt = requests'[r].attempt
  <2>1. ASSUME NEW s \in Requests, s # r, NEW q, Set(s, q)
        PROVE  kept
    BY <1>1, <2>1 DEF Set, RequestsOK
  <2>2. ASSUME UNCHANGED requests
        PROVE  kept
    BY <1>1, <2>2
  <2>3. ASSUME NEW q, Set(r, q), ~Claims(q)
        PROVE  FALSE
    BY <1>1, <2>3 DEF Set, RequestsOK
  <2>4. \A a, b : ~Claims(Told(a, b, TRUE))
    BY DEF Claims, Told, ToldAnswer
  <2>5. ASSUME NEW s \in Requests, NEW a, NEW d, NEW now, Issue(s, a, d, now)
        PROVE  \E q : Set(s, q) /\ ~Claims(q)
    <3>1. CASE d.answer # "open"
      BY <2>4, <2>5, <3>1 DEF Issue
    <3>2. CASE d.answer = "open"
      <4> DEFINE q == [phase |-> "done", told |-> "ready", attempt |-> a]
      <4>1. Set(s, q) /\ ~Claims(q)
        BY <2>5, <3>2 DEF Issue, Claims, ToldAnswer
      <4> QED BY <4>1
    <3> QED BY <3>1, <3>2
  <2>6. ASSUME NEW s \in Requests, AskWhy(s) \/ StoreOffer(s)
        PROVE  \E q : Set(s, q) /\ ~Claims(q)
    <3>1. ASSUME NEW a
          PROVE  ~Claims([phase |-> "explain", attempt |-> a, now |-> clock])
      BY DEF Claims, ToldAnswer
    <3> QED BY <2>5, <2>6, <3>1 DEF AskWhy, StoreOffer
  <2>7. ASSUME NEW s \in Requests, Respond(s)
        PROVE  \E q : Set(s, q) /\ ~Claims(q)
    <3>1. ASSUME NEW a, NEW answer, NEW phase \in {"plan", "write"}
          PROVE  ~Claims([phase |-> phase, attempt |-> a, now |-> clock, answer |-> answer,
                          plan |-> None])
      BY DEF Claims, ToldAnswer
    <3>2. \A answer : (IF answer = "confirmed" THEN "plan" ELSE "write") \in {"plan", "write"}
      OBVIOUS
    <3> QED BY <2>4, <2>7, <3>1, <3>2 DEF Respond
  <2>8. ASSUME NEW s \in Requests, ComposePlan(s)
        PROVE  \E q : Set(s, q) /\ ~Claims(q)
    <3>1. requests[s] \in AnswersOf
      BY <2>8 DEF ComposePlan, At, RequestsOK, Sound
    <3>2. \A p : [requests[s] EXCEPT !.phase = "write", !.plan = p].phase = "write"
      BY <3>1 DEF AnswersOf
    <3>3. \A p : ~Claims([requests[s] EXCEPT !.phase = "write", !.plan = p])
      BY <3>2 DEF Claims, ToldAnswer
    <3> QED BY <2>8, <3>3 DEF ComposePlan
  <2>9. ASSUME NEW s \in Requests, ReadLog(s) \/ ReadPlans(s) \/ Choose(s) \/ Fail(s)
        PROVE  \E q : Set(s, q) /\ ~Claims(q)
    <3>1. ASSUME NEW q, q.phase \in {"log", "plans", "advance", "idle"}
          PROVE  ~Claims(q)
      BY <3>1 DEF Claims, ToldAnswer
    <3>2. CASE ReadLog(s)
      BY <3>1, <3>2 DEF ReadLog
    <3>3. CASE ReadPlans(s)
      BY <3>1, <3>3 DEF ReadPlans
    <3>4. CASE Choose(s)
      <4>1. PICK todo, over, via, question, plan, last, only :
              Set(s, [phase |-> "advance", todo |-> todo, over |-> over, via |-> via,
                      question |-> question, plan |-> plan, last |-> last, only |-> only])
        BY <3>4 DEF Choose
      <4> QED BY <3>1, <4>1
    <3>5. CASE Fail(s)
      BY <3>1, <3>5 DEF Fail, Idle
    <3> QED BY <2>9, <3>2, <3>3, <3>4, <3>5
  <2>10. ASSUME NEW s \in Requests, Advance(s)
         PROVE  \E q : Set(s, q) /\ ~Claims(q)
    <3>1. PICK t : Set(s, [requests[s] EXCEPT !.todo = @ \ {t}])
      BY <2>10 DEF Advance
    <3>2. requests[s].phase = "advance" /\ Behindhand(requests[s], diagnoses, Readings)
      BY <2>10 DEF Advance, At, RequestsOK
    <3>3. [requests[s] EXCEPT !.todo = @ \ {t}].phase = "advance"
      BY <3>2 DEF Behindhand
    <3> QED BY <3>1, <3>3 DEF Claims, ToldAnswer
  <2>11. ASSUME Reread(r)
         PROVE  kept
    BY <1>1, <2>11 DEF Reread, Set, At, RequestsOK, Claims, Told, ToldAnswer
  <2>12. ASSUME RecordAnswer(r)
         PROVE  /\ requests'[r].attempt \in AttemptIds
                /\ diagnoses[requests'[r].attempt].answer = "open"
    <3> DEFINE a == requests[r].attempt
               q == [phase |-> "reread", attempt |-> a,
                     already |-> ~Unanswered(diagnoses[a]), answer |-> requests[r].answer]
    <3>1. Set(r, q) /\ a \in AttemptIds
      BY <2>12 DEF RecordAnswer, At, RequestsOK, Sound, AnswersOf
    <3>2. requests'[r] = q
      BY <3>1 DEF Set, RequestsOK
    <3>3. Unanswered(diagnoses[a])
      <4> SUFFICES ASSUME ~Unanswered(diagnoses[a])
                   PROVE  FALSE
        OBVIOUS
      <4>1. q.already = TRUE
        OBVIOUS
      <4> HIDE DEF q
      <4> QED BY <1>1, <3>2, <4>1 DEF Claims
    <3> QED BY <3>1, <3>2, <3>3 DEF Unanswered
  <2>13. ASSUME NEW s \in Requests, Reread(s) \/ RecordAnswer(s)
         PROVE  \E q : Set(s, q)
    BY <2>13 DEF Reread, RecordAnswer
  <2>14. CASE Practise \/ Resave \/ Publish \/ Tick
    BY <2>2, <2>14 DEF Practise, Resave, Publish, Tick
  <2>15. CASE \E s \in Requests : /\ s # r
                                  /\ \/ AskWhy(s) \/ StoreOffer(s) \/ Respond(s) \/ ComposePlan(s)
                                     \/ RecordAnswer(s) \/ Reread(s) \/ ReadLog(s) \/ ReadPlans(s)
                                     \/ Choose(s) \/ Advance(s) \/ Fail(s)
    BY <2>1, <2>6, <2>7, <2>8, <2>9, <2>10, <2>13, <2>15
  <2>16. CASE \/ AskWhy(r) \/ StoreOffer(r) \/ Respond(r) \/ ComposePlan(r) \/ ReadLog(r)
              \/ ReadPlans(r) \/ Choose(r) \/ Advance(r) \/ Fail(r)
    BY <2>3, <2>6, <2>7, <2>8, <2>9, <2>10, <2>16
  <2> QED BY <2>11, <2>12, <2>14, <2>15, <2>16 DEF Next
\* A claim is about an answer that is stored.
<1>2. ASSUME NEW r \in Requests, Claims(requests[r])
      PROVE  diagnoses[requests[r].attempt].answer \in Answers
  BY <1>2 DEF Claims, RequestsOK, Sound
<1>3. \A r, s \in Requests : RecordAnswer(r) /\ Claims(requests'[s]) /\ RecordAnswer(s) => r = s
  <2> SUFFICES ASSUME NEW r \in Requests, NEW s \in Requests, RecordAnswer(r),
                      RecordAnswer(s), Claims(requests'[s]), r # s
               PROVE  FALSE
    OBVIOUS
  <2>1. requests'[s] = requests[s]
    BY DEF RecordAnswer, Set, RequestsOK
  <2>2. requests[s].phase = "write"
    BY DEF RecordAnswer, At
  <2> QED BY <2>1, <2>2 DEF Claims, ToldAnswer
<1>4. "open" \notin Answers
  BY DEF Answers
<1> SUFFICES ASSUME NEW r \in Requests, NEW s \in Requests,
                    Claims(requests'[r]), Claims(requests'[s]),
                    requests'[r].attempt = requests'[s].attempt
             PROVE  r = s
  BY DEF ClaimedOnce, Claims, ToldAnswer
<1> QED BY <1>1, <1>2, <1>3, <1>4 DEF ClaimedOnce

LEMMA StepStatus ==
  ASSUME Base, Next, StatusEarned
  PROVE  StatusEarned'
<1> USE DEF Base
<1>1. Grown /\ DiagnosesOK'
  BY StepGrows, StepDiagnoses
<1> SUFFICES ASSUME NEW a \in AttemptIds, diagnoses'[a].answer = "confirmed",
                    diagnoses'[a].plan # None
             PROVE  Reached(diagnoses'[a].plan, diagnoses'[a].plan.status, Readings')
  BY DEF StatusEarned, Confirmed, Reached
\* What was earned stays earned, for any status of the same repair.
<1>2. ASSUME NEW p, NEW o, NEW status \in Statuses, SameRepair(p, o),
             Reached(p, status, Readings)
      PROVE  Reached(o, status, Readings')
  BY <1>1, <1>2, ReachedLater DEF Grown
<1>3. ASSUME diagnoses'[a] = diagnoses[a]
      PROVE  Reached(diagnoses'[a].plan, diagnoses'[a].plan.status, Readings')
  <2>1. Reached(diagnoses[a].plan, diagnoses[a].plan.status, Readings)
    BY <1>3 DEF StatusEarned, Confirmed, Reached
  <2>2. diagnoses[a].plan.status \in Statuses
    BY <1>3 DEF DiagnosesOK, AnsweredOK, NoOffer, Open, Plans
  <2> QED BY <1>2, <1>3, <2>1, <2>2 DEF SameRepair
<1>4. ASSUME NEW r \in Requests, StoreOffer(r)
      PROVE  diagnoses'[a] = diagnoses[a]
  BY <1>4 DEF StoreOffer, DiagnosesOK, Open
<1>5. ASSUME NEW r \in Requests, RecordAnswer(r), diagnoses'[a] # diagnoses[a]
      PROVE  Reached(diagnoses'[a].plan, diagnoses'[a].plan.status, Readings')
  <2>1. diagnoses'[a].plan = requests[r].plan /\ requests[r].phase = "write"
    BY <1>5 DEF RecordAnswer, At, DiagnosesOK
  <2>2. diagnoses'[a].plan.status = "pending"
    BY <2>1 DEF RequestsOK, Sound
  <2>3. Rank("pending") = 0
    BY DEF Rank
  <2>4. PICK log : log \in Readings'
    <3>1. With({})' \in {With(S)' : S \in {T \in SUBSET overwritten' : OneEach(T)}}
      BY DEF OneEach
    <3> QED BY <3>1 DEF Readings
  <2>5. Rank(Lifecycle(diagnoses'[a].plan, log)) \in 0..2
    BY LifecycleStatus
  <2> QED BY <2>2, <2>3, <2>4, <2>5 DEF Reached
<1>6. ASSUME NEW r \in Requests, Advance(r), diagnoses'[a] # diagnoses[a]
      PROVE  Reached(diagnoses'[a].plan, diagnoses'[a].plan.status, Readings')
  <2>1. PICK t \in requests[r].todo : diagnoses' = [diagnoses EXCEPT ![t.attempt].plan.status = t.to]
    BY <1>6 DEF Advance
  <2>2. StageOK(t, diagnoses, Readings)
    BY <1>6, <2>1 DEF Advance, At, RequestsOK, Behindhand
  <2>3. t.attempt = a
    BY <1>6, <2>1 DEF DiagnosesOK
  <2>4. AnsweredOK(a, diagnoses[a]) /\ diagnoses[a].plan \in Plans
    BY <2>2, <2>3 DEF StageOK, DiagnosesOK, AnsweredOK, NoOffer, Open
  <2>5. diagnoses'[a].plan = [diagnoses[a].plan EXCEPT !.status = t.to]
    BY <2>1, <2>3, <2>4 DEF DiagnosesOK, AnsweredOK
  <2>6. diagnoses'[a].plan.status = t.to /\ SameRepair(diagnoses[a].plan, diagnoses'[a].plan)
    BY <2>4, <2>5 DEF Plans, SameRepair
  <2> QED BY <1>2, <2>2, <2>3, <2>6 DEF StageOK
<1>7. ASSUME NEW r \in Requests,
             \/ AskWhy(r) \/ Respond(r) \/ ComposePlan(r)
             \/ Reread(r) \/ ReadLog(r) \/ ReadPlans(r) \/ Choose(r) \/ Fail(r)
      PROVE  diagnoses'[a] = diagnoses[a]
  BY <1>7 DEF AskWhy, Respond, ComposePlan, Reread, ReadLog, ReadPlans, Choose, Fail
<1>8. ASSUME Practise \/ Resave \/ Publish \/ Tick
      PROVE  diagnoses'[a] = diagnoses[a]
  BY <1>8 DEF Practise, Resave, Publish, Tick
<1> QED BY <1>3, <1>4, <1>5, <1>6, <1>7, <1>8 DEF Next

-----------------------------------------------------------------------------
(* A repair that is over is not served.                                    *)

LEMMA FiniteImage ==
  ASSUME NEW S, IsFiniteSet(S), NEW f, f = [x \in S |-> f[x]]
  PROVE  IsFiniteSet({f[x] : x \in S})
<1> DEFINE T == {f[x] : x \in S}
<1>1. f \in Surjection(S, T)
  BY DEF Surjection
<1> HIDE DEF T
<1>2. IsFiniteSet(T)
  BY <1>1, FS_Surjection
<1> QED BY <1>2 DEF T

\* The repair of attempt a has ended in the log.
Ended(a, d, log) ==
  a \in AttemptIds /\ d[a].plan # None /\ Lifecycle(d[a].plan, log) = "completed"

\* What a recommendation knows of the repairs that were over when it was asked for.
Current(q, d, published) ==
  /\ q.phase \in {"log", "plans"} =>
       /\ IsFiniteSet(q.seen)
       /\ \A a \in q.over : Ended(a, d, Records(q.seen, published))
  /\ q.phase = "plans" =>
       /\ IsFiniteSet(q.plans) /\ q.plans \subseteq Plans
       /\ \A p, o \in q.plans : p.attempt = o.attempt => p = o
  /\ q.phase = "advance" /\ q.via = "targeted_repair" => q.plan \notin q.over

AllCurrent == \A r \in Requests : Current(requests[r], diagnoses, pool)

LEMMA EndedLater ==
  ASSUME NEW a, NEW d, NEW e, NEW log, NEW more, Later(d, e), log \subseteq more,
         IsFiniteSet(more), Ended(a, d, log)
  PROVE  Ended(a, e, more)
<1> DEFINE p == d[a].plan
           o == e[a].plan
<1>1. a \in AttemptIds /\ p # None /\ Lifecycle(p, log) = "completed"
  BY DEF Ended
<1>2. o # None /\ SameRepair(p, o)
  BY <1>1 DEF Later
<1> HIDE DEF p, o
<1>3. Lifecycle(o, more) = Lifecycle(p, more) /\ Lifecycle(p, more) \in Statuses
  BY <1>2, SameLifecycle, LifecycleStatus
<1>4. Rank(Lifecycle(p, log)) <= Rank(Lifecycle(p, more))
  BY LifecycleMonotone
<1>5. Rank("completed") = 2 /\ \A s \in Statuses : Rank(s) \in 0..2 /\ (Rank(s) >= 2 => s = "completed")
  BY DEF Rank, Statuses
<1>6. Lifecycle(o, more) = "completed"
  BY <1>1, <1>3, <1>4, <1>5
<1> QED BY <1>1, <1>2, <1>6 DEF Ended, o

LEMMA CurrentLater ==
  ASSUME NEW q, NEW d, NEW e, NEW old, NEW new, Later(d, e), old \subseteq new,
         Current(q, d, old)
  PROVE  Current(q, e, new)
<1>1. ASSUME q.phase \in {"log", "plans"}, NEW a \in q.over
      PROVE  Ended(a, e, Records(q.seen, new))
  <2>1. Ended(a, d, Records(q.seen, old)) /\ IsFiniteSet(Records(q.seen, new))
    BY <1>1, RecordsFinite DEF Current
  <2>2. Records(q.seen, old) \subseteq Records(q.seen, new)
    BY DEF Records
  <2> QED BY <2>1, <2>2, EndedLater
<1> QED BY <1>1 DEF Current

\* Only a request's own action moves it.
LEMMA Mover ==
  ASSUME Base, Next, NEW r \in Requests, requests'[r] # requests[r]
  PROVE  \/ AskWhy(r) \/ StoreOffer(r) \/ Respond(r) \/ ComposePlan(r) \/ RecordAnswer(r)
         \/ Reread(r) \/ ReadLog(r) \/ ReadPlans(r) \/ Choose(r) \/ Advance(r) \/ Fail(r)
<1>1. ASSUME NEW s \in Requests, s # r, NEW q, Set(s, q)
      PROVE  FALSE
  BY <1>1 DEF Set, Base, RequestsOK
<1>2. ASSUME NEW s, NEW a, NEW d, NEW now, Issue(s, a, d, now)
      PROVE  \E q : Set(s, q)
  BY <1>2 DEF Issue
<1>3. ASSUME NEW s \in Requests, AskWhy(s) \/ StoreOffer(s)
      PROVE  \E q : Set(s, q)
  BY <1>2, <1>3 DEF AskWhy, StoreOffer
<1>4. ASSUME NEW s \in Requests, Respond(s) \/ ComposePlan(s) \/ RecordAnswer(s)
      PROVE  \E q : Set(s, q)
  BY <1>4 DEF Respond, ComposePlan, RecordAnswer
<1>5. ASSUME NEW s \in Requests, Reread(s) \/ ReadLog(s) \/ ReadPlans(s) \/ Fail(s)
      PROVE  \E q : Set(s, q)
  BY <1>5 DEF Reread, ReadLog, ReadPlans, Fail
<1>6. ASSUME NEW s \in Requests, Choose(s) \/ Advance(s)
      PROVE  \E q : Set(s, q)
  BY <1>6 DEF Choose, Advance
<1>7. CASE Practise \/ Resave \/ Publish \/ Tick
  BY <1>7 DEF Practise, Resave, Publish, Tick
<1> QED BY <1>1, <1>3, <1>4, <1>5, <1>6, <1>7 DEF Next

\* A request about a diagnosis is not a recommendation.
LEMMA DiagnosisPhases ==
  ASSUME Base, NEW r \in Requests,
         \/ AskWhy(r) \/ StoreOffer(r) \/ Respond(r) \/ ComposePlan(r) \/ RecordAnswer(r)
         \/ Reread(r) \/ Fail(r)
  PROVE  requests'[r].phase \in {"done", "explain", "plan", "write", "reread", "idle"}
<1> USE DEF Base
<1>1. ASSUME NEW q, Set(r, q)
      PROVE  requests'[r] = q
  BY <1>1 DEF Set, RequestsOK
<1>2. ASSUME NEW a, NEW answer, NEW already, Set(r, Told(a, answer, already))
      PROVE  requests'[r].phase = "done"
  BY <1>1, <1>2 DEF Told
<1>3. ASSUME NEW a, NEW d, NEW now, Issue(r, a, d, now)
      PROVE  requests'[r].phase = "done"
  <2>1. CASE d.answer # "open"
    <3>1. Set(r, Told(a, d.answer, TRUE))
      BY <1>3, <2>1 DEF Issue
    <3> QED BY <1>2, <3>1
  <2>2. CASE d.answer = "open"
    <3> DEFINE q == [phase |-> "done", told |-> "ready", attempt |-> a]
    <3>1. Set(r, q)
      BY <1>3, <2>2 DEF Issue
    <3>2. requests'[r] = q
      BY <1>1, <3>1
    <3> QED BY <3>2
  <2> QED BY <2>1, <2>2
<1>4. CASE AskWhy(r)
  <2>1. PICK a : \/ Issue(r, a, diagnoses[a], clock)
                 \/ Set(r, [phase |-> "explain", attempt |-> a, now |-> clock])
    BY <1>4 DEF AskWhy
  <2> DEFINE q == [phase |-> "explain", attempt |-> a, now |-> clock]
  <2>2. CASE Issue(r, a, diagnoses[a], clock)
    BY <1>3, <2>2
  <2>3. CASE Set(r, q)
    <3>1. requests'[r] = q
      BY <1>1, <2>3
    <3> QED BY <3>1
  <2> QED BY <2>1, <2>2, <2>3
<1>10. CASE StoreOffer(r)
  <2>1. \E a, d, now : Issue(r, a, d, now)
    BY <1>10 DEF StoreOffer
  <2> QED BY <1>3, <2>1
<1>5. CASE Respond(r)
  <2>1. PICK token \in tokens, answer \in Answers :
          IF diagnoses[token.attempt].answer # "open"
          THEN Set(r, Told(token.attempt, diagnoses[token.attempt].answer, TRUE))
          ELSE Set(r, [phase |-> IF answer = "confirmed" THEN "plan" ELSE "write",
                       attempt |-> token.attempt, now |-> clock, answer |-> answer,
                       plan |-> None])
    BY <1>5 DEF Respond
  <2> DEFINE q == [phase |-> IF answer = "confirmed" THEN "plan" ELSE "write",
                   attempt |-> token.attempt, now |-> clock, answer |-> answer,
                   plan |-> None]
  <2>2. CASE diagnoses[token.attempt].answer # "open"
    BY <1>2, <2>1, <2>2
  <2>3. CASE diagnoses[token.attempt].answer = "open"
    <3>1. requests'[r] = q
      BY <1>1, <2>1, <2>3
    <3>2. q.phase \in {"plan", "write"}
      OBVIOUS
    <3> QED BY <3>1, <3>2
  <2> QED BY <2>2, <2>3
<1>6. CASE ComposePlan(r)
  <2>1. requests[r] \in AnswersOf
    BY <1>6 DEF ComposePlan, At, RequestsOK, Sound
  <2>2. \A p : [requests[r] EXCEPT !.phase = "write", !.plan = p].phase = "write"
    BY <2>1 DEF AnswersOf
  <2> QED BY <1>1, <1>6, <2>2 DEF ComposePlan
<1>7. CASE RecordAnswer(r)
  BY <1>1, <1>7 DEF RecordAnswer
<1>8. CASE Reread(r)
  BY <1>2, <1>8 DEF Reread
<1>9. CASE Fail(r)
  BY <1>1, <1>9 DEF Fail, Idle
<1> QED BY <1>4, <1>5, <1>6, <1>7, <1>8, <1>9, <1>10

\* The plan that is tried is one of those that are active.
LEMMA ChosenIsOne ==
  ASSUME NEW S, S \subseteq Plans, IsFiniteSet(S), S # {},
         \A p, o \in S : p.attempt = o.attempt => p = o
  PROVE  Chosen(S) \in S
<1> DEFINE key == [p \in S |-> << p.priority, -p.confirmedAt, p.concept, p.family, p.cell,
                                   IF p.trap = None THEN -1 ELSE p.trap, p.attempt >>]
<1>1. \A p \in S : key[p] \in Keys(7)
  <2> SUFFICES ASSUME NEW p \in S PROVE key[p] \in Keys(7)
    OBVIOUS
  <2>1. p \in Plans
    OBVIOUS
  <2>2. /\ p.priority \in Int /\ -p.confirmedAt \in Int /\ p.attempt \in Int
        /\ p.concept \in Int /\ p.family \in Int /\ p.cell \in Int
        /\ (IF p.trap = None THEN -1 ELSE p.trap) \in Int
    BY <2>1, DnaAssumption DEF Plans
  <2> QED BY <2>2 DEF Keys
<1>2. \A p, o \in S : key[p] = key[o] => p = o
  BY Zenon
<1>3. DOMAIN key = S
  OBVIOUS
<1> HIDE DEF key
<1>4. First(key) \in S
  BY <1>1, <1>2, <1>3, FirstLeads DEF Leads
<1> QED BY <1>4 DEF Chosen, key

LEMMA StepCurrent ==
  ASSUME Base, Next, AllCurrent
  PROVE  AllCurrent'
<1> USE DEF Base
<1>0. Grown
  BY StepGrows
<1> SUFFICES ASSUME NEW r \in Requests
             PROVE  Current(requests'[r], diagnoses', pool')
  BY DEF AllCurrent
<1>1. CASE requests'[r] = requests[r]
  BY <1>0, <1>1, CurrentLater DEF AllCurrent, Grown
<1>2. CASE requests'[r].phase \in {"done", "explain", "plan", "write", "reread", "idle"}
  BY <1>2 DEF Current
<1>a. ASSUME NEW q, Set(r, q)
      PROVE  requests'[r] = q
  BY <1>a DEF Set, RequestsOK
<1>3. CASE ReadLog(r)
  <2> DEFINE q == [phase |-> "log", seen |-> attempts,
                   over |-> Over(Records(attempts, pool))]
  <2>1. Set(r, q) /\ UNCHANGED <<pool, diagnoses>>
    BY <1>3 DEF ReadLog
  <2>2. \A a \in q.over : Ended(a, diagnoses, Records(attempts, pool))
    BY DEF Over, Confirmed, Ended
  <2>3. q.phase = "log" /\ q.seen = attempts
    OBVIOUS
  <2> HIDE DEF q
  <2>4. Current(q, diagnoses, pool)
    BY <2>2, <2>3 DEF Current, LogOK
  <2> QED BY <1>a, <2>1, <2>4
<1>4. CASE ReadPlans(r)
  <2> DEFINE rows == {a \in Confirmed : diagnoses[a].plan.status # "completed"}
             plans == {diagnoses[a].plan : a \in rows}
             q == [phase |-> "plans", seen |-> requests[r].seen, over |-> requests[r].over,
                   plans |-> plans]
  <2>1. Set(r, q) /\ UNCHANGED <<pool, diagnoses>> /\ requests[r].phase = "log"
    BY <1>4 DEF ReadPlans, At
  <2>2. \A a \in rows : /\ a \in AttemptIds /\ diagnoses[a].plan \in Plans
                         /\ diagnoses[a].plan.attempt = a
                         /\ \E b \in attempts : b.id = a
    <3> SUFFICES ASSUME NEW a \in rows
                 PROVE  /\ a \in AttemptIds /\ diagnoses[a].plan \in Plans
                        /\ diagnoses[a].plan.attempt = a
                        /\ \E b \in attempts : b.id = a
      OBVIOUS
    <3>1. a \in AttemptIds /\ diagnoses[a].answer = "confirmed" /\ diagnoses[a].plan # None
      BY DEF Confirmed
    <3> QED BY <3>1 DEF DiagnosesOK, AnsweredOK, NoOffer, Open
  <2>3. IsFiniteSet(plans)
    <3> DEFINE id == [b \in attempts |-> b.id]
               plan == [a \in rows |-> diagnoses[a].plan]
    <3>1. IsFiniteSet({id[b] : b \in attempts})
      <4>1. id = [b \in attempts |-> id[b]] /\ IsFiniteSet(attempts)
        BY DEF LogOK
      <4> HIDE DEF rows, id
      <4> QED BY <4>1, FiniteImage
    <3>2. rows \subseteq {id[b] : b \in attempts}
      BY <2>2
    <3> HIDE DEF rows, id
    <3>3. IsFiniteSet(rows)
      BY <3>1, <3>2, FS_Subset
    <3>4. IsFiniteSet({plan[a] : a \in rows})
      BY <3>3, FiniteImage
    <3> QED BY <3>4
  <2>4. plans \subseteq Plans /\ \A p, o \in plans : p.attempt = o.attempt => p = o
    BY <2>2
  <2>5. q.phase = "plans" /\ q.seen = requests[r].seen /\ q.over = requests[r].over /\ q.plans = plans
    OBVIOUS
  <2> HIDE DEF q, plans, rows
  <2>6. Current(q, diagnoses, pool)
    BY <2>1, <2>3, <2>4, <2>5 DEF Current, AllCurrent
  <2> QED BY <1>a, <2>1, <2>6
<1>5. CASE Choose(r)
  <2> DEFINE o == requests[r]
             log == Records(o.seen, pool)
             active == Active(o.plans, log)
  <2>0. PICK pressed : \E told \in Recommendation(pool, log, active, pressed) :
          Set(r, [phase |-> "advance", todo |-> Behind(o.plans, log), over |-> o.over,
                  via |-> told.via, question |-> told.question, plan |-> told.plan,
                  last |-> JustAttempted(log), only |-> Cardinality(pool) = 1])
    BY <1>5 DEF Choose
  <2>1. PICK told \in Recommendation(pool, log, active, pressed) :
          Set(r, [phase |-> "advance", todo |-> Behind(o.plans, log), over |-> o.over,
                  via |-> told.via, question |-> told.question, plan |-> told.plan,
                  last |-> JustAttempted(log), only |-> Cardinality(pool) = 1])
    BY <2>0
  <2>2. o.phase = "plans" /\ Current(o, diagnoses, pool) /\ Sound(o, diagnoses, Ever)
    BY <1>5 DEF Choose, At, AllCurrent, RequestsOK
  <2>3. ASSUME told.via = "targeted_repair"
        PROVE  told.plan \notin o.over
    <3>1. active # {} /\ told.plan = Chosen(active).attempt
      BY <2>1, <2>3 DEF Recommendation, Else, Tell
    <3>2. active \subseteq o.plans
      BY DEF Active
    <3>3. Chosen(active) \in active
      <4>1. IsFiniteSet(active) /\ active \subseteq Plans
              /\ \A p, t \in active : p.attempt = t.attempt => p = t
        BY <2>2, <3>2, FS_Subset DEF Current
      <4> HIDE DEF active
      <4> QED BY <3>1, <4>1, ChosenIsOne
    <3>4. PICK p \in o.plans : p = Chosen(active) /\ Lifecycle(p, log) # "completed"
      BY <3>3 DEF Active
    <3>5. PlanOK(p, diagnoses)
      BY <2>2 DEF Sound
    <3>6. Lifecycle(diagnoses[p.attempt].plan, log) # "completed"
      BY <3>4, <3>5, SameLifecycle DEF PlanOK
    <3>7. \A a \in o.over : Ended(a, diagnoses, log)
      BY <2>2 DEF Current
    <3> HIDE DEF log, active
    <3> QED BY <3>1, <3>4, <3>6, <3>7 DEF Ended
  <2>4. /\ requests'[r].phase = "advance" /\ requests'[r].via = told.via
        /\ requests'[r].plan = told.plan /\ requests'[r].over = o.over
    BY <1>a, <2>1
  <2> QED BY <2>3, <2>4 DEF Current
<1>6. CASE Advance(r)
  <2> DEFINE o == requests[r]
  <2>1. PICK t : Set(r, [o EXCEPT !.todo = @ \ {t}])
    BY <1>6 DEF Advance
  <2>2. o.phase = "advance" /\ Current(o, diagnoses, pool)
    BY <1>6 DEF Advance, At, AllCurrent
  <2>3. o = [phase |-> "advance", todo |-> o.todo, over |-> o.over, via |-> o.via,
             question |-> o.question, plan |-> o.plan, last |-> o.last, only |-> o.only]
    BY <2>2 DEF RequestsOK, Behindhand
  <2> DEFINE q == [o EXCEPT !.todo = @ \ {t}]
  <2>4. q.phase = "advance" /\ q.via = o.via /\ q.plan = o.plan /\ q.over = o.over
    BY <2>3
  <2>5. requests'[r] = q
    BY <1>a, <2>1
  <2> HIDE DEF q
  <2> QED BY <2>2, <2>4, <2>5 DEF Current
<1> QED BY <1>1, <1>2, <1>3, <1>4, <1>5, <1>6, Mover, DiagnosisPhases

-----------------------------------------------------------------------------
(* What is chosen is one of those it was chosen from.                      *)

\* A log a selection may be made from.
History(log) ==
  /\ IsFiniteSet(log)
  /\ \A a \in log : /\ a.id \in Nat /\ a.question \in Questions
                    /\ a.out \in Outcomes /\ a.at \in Int
  /\ \A a, b \in log : a.id = b.id => a = b

LEMMA MinIsOne ==
  ASSUME NEW S \in SUBSET Nat, S # {}
  PROVE  Min(S) \in S
<1>1. \E m \in S : \A n \in S : m <= n
  BY LeastNatural
<1> QED BY <1>1 DEF Min

\* A key that ends in the id chooses from its domain.
LEMMA FirstIsOne ==
  ASSUME NEW n \in Nat \ {0}, NEW key, IsFiniteSet(DOMAIN key), DOMAIN key # {},
         \A q \in DOMAIN key : key[q] \in Keys(n) /\ key[q][n] = q
  PROVE  First(key) \in DOMAIN key
<1>1. \A p, q \in DOMAIN key : key[p] = key[q] => p = q
  <2> TAKE p, q \in DOMAIN key
  <2> HAVE key[p] = key[q]
  <2>1. key[p][n] = p /\ key[q][n] = q
    OBVIOUS
  <2> QED BY <2>1
<1>2. n \in Nat
  OBVIOUS
<1>3. Leads(key, DOMAIN key, First(key))
  BY <1>1, <1>2, FirstLeads
<1> QED BY <1>3 DEF Leads

LEMMA Counted ==
  ASSUME NEW log, IsFiniteSet(log), NEW S, S \subseteq log
  PROVE  Cardinality(S) \in Nat
BY FS_Subset, FS_CardinalityType

LEMMA TimesCount ==
  ASSUME NEW log, IsFiniteSet(log), NEW q
  PROVE  Times(log, q) \in Nat
<1>1. {a \in log : a.question = q} \subseteq log
  OBVIOUS
<1> QED BY <1>1, Counted DEF Times

LEMMA LatestIsOne ==
  ASSUME NEW log, History(log), log # {}
  PROVE  Latest(log) \in log
<1> DEFINE key == [a \in log |-> << -a.at, -a.id >>]
<1>1. \A a \in log : key[a] \in Keys(2)
  <2> SUFFICES ASSUME NEW a \in log PROVE key[a] \in Keys(2)
    OBVIOUS
  <2>1. -a.at \in Int /\ -a.id \in Int
    BY DEF History
  <2> QED BY <2>1 DEF Keys
<1>2. \A a, b \in log : key[a] = key[b] => a = b
  <2> TAKE a, b \in log
  <2> HAVE key[a] = key[b]
  <2>1. -a.id = -b.id
    OBVIOUS
  <2>2. a.id = b.id
    BY <2>1 DEF History
  <2> QED BY <2>2 DEF History
<1>3. \A a, b \in log : Precedes(key[a], key[b]) => Earlier(b, a)
  <2> TAKE a, b \in log
  <2> HAVE Precedes(key[a], key[b])
  <2>1. /\ a.at \in Int /\ b.at \in Int /\ a.id \in Int /\ b.id \in Int
    BY DEF History
  <2>2. /\ DOMAIN key[a] = 1..2 /\ key[a][1] = -a.at /\ key[a][2] = -a.id
        /\ key[b][1] = -b.at /\ key[b][2] = -b.id
    OBVIOUS
  <2> HIDE DEF key
  <2>3. PICK i \in 1..2 : key[a][i] < key[b][i] /\ \A h \in 1..(i - 1) : key[a][h] = key[b][h]
    BY <2>2 DEF Precedes
  <2>4. CASE i = 1
    BY <2>1, <2>2, <2>3, <2>4 DEF Earlier
  <2>5. CASE i = 2
    <3>1. key[a][1] = key[b][1]
      BY <2>3, <2>5
    <3> QED BY <2>1, <2>2, <2>3, <2>5, <3>1 DEF Earlier
  <2> QED BY <2>4, <2>5
<1> HIDE DEF key
<1>4. PICK m \in log : Leads(key, log, m)
  BY <1>1, <1>2, SomeoneLeads DEF History
<1>5. \A b \in log \ {m} : Earlier(b, m)
  BY <1>3, <1>4 DEF Leads
<1> QED BY <1>5 DEF Latest

LEMMA PartHistory ==
  ASSUME NEW log, History(log), NEW S, S \subseteq log
  PROVE  History(S)
BY FS_Subset DEF History

LEMMA TierType == \A q \in Questions : Dna[q].tier \in 0..4
BY DnaAssumption DEF Tiers

LEMMA LastGraded ==
  ASSUME NEW log, History(log), NEW c, Graded(OnConcept(log, c)) # {}
  PROVE  LastGradedTier(log, c) \in 0..4
<1>1. Graded(OnConcept(log, c)) \subseteq log
  BY DEF Graded, OnConcept
<1>2. History(Graded(OnConcept(log, c)))
  BY <1>1, PartHistory
<1>3. Latest(Graded(OnConcept(log, c))) \in log
  BY <1>1, <1>2, LatestIsOne
<1> QED BY <1>3, TierType DEF LastGradedTier, Of, History

LEMMA MaxTier ==
  ASSUME NEW S, S \subseteq 0..4, S # {}
  PROVE  Max(S) \in S
<1> DEFINE T == {4 - n : n \in S}
<1>1. T \in SUBSET Nat /\ T # {}
  <2>1. \A n \in S : 4 - n \in Nat
    OBVIOUS
  <2> QED BY <2>1
<1> HIDE DEF T
<1>2. PICK m \in T : \A n \in T : m <= n
  BY <1>1, LeastNatural
<1>3. PICK x \in S : m = 4 - x
  BY <1>2 DEF T
<1>4. \A y \in S : x >= y
  <2> TAKE y \in S
  <2>1. 4 - y \in T
    BY DEF T
  <2>2. m <= 4 - y
    BY <1>2, <2>1
  <2> QED BY <1>3, <2>2
<1> QED BY <1>4 DEF Max

LEMMA MaxTiers == Max(Tiers) = 4
<1>1. Max(0..4) \in 0..4 /\ \A y \in 0..4 : Max(0..4) >= y
  <2>1. \E x \in 0..4 : \A y \in 0..4 : x >= y
    <3> WITNESS 4 \in 0..4
    <3> QED OBVIOUS
  <2> QED BY <2>1 DEF Max
<1> QED BY <1>1 DEF Tiers

LEMMA TargetType ==
  ASSUME NEW log, NEW c
  PROVE  TargetTier(log, c) \in Nat
<1> DEFINE K == DemonstratedTiers(log, c)
<1>1. K \subseteq 0..4
  BY DEF DemonstratedTiers, Tiers
<1> HIDE DEF K
<1>2. CASE K = {}
  BY <1>2 DEF TargetTier, Above, K
<1>3. CASE K # {}
  <2>1. Max(K) \in 0..4
    BY <1>1, <1>3, MaxTier
  <2> DEFINE two == {Max(K) + 1, Max(Tiers)}
  <2>2. two \in SUBSET Nat /\ two # {}
    BY <2>1, MaxTiers
  <2>3. Min(two) \in Nat
    BY <2>2, MinIsOne
  <2> QED BY <1>3, <2>3 DEF TargetTier, Above, K
<1> QED BY <1>2, <1>3

\* The rows of a trend that gives a direction were graded.
LEMMA TrendGraded ==
  ASSUME NEW log, NEW c, Trend(log, c) \in {"improving", "deteriorating"}
  PROVE  Graded(OnConcept(log, c)) # {}
<1> SUFFICES ASSUME Graded(OnConcept(log, c)) = {}
             PROVE  FALSE
  OBVIOUS
<1>1. Trend(log, c) = Shift({}, {})
  BY DEF Trend, LastThree
<1>2. Cardinality({}) = 0
  BY FS_EmptySet
<1>3. Shift({}, {}) = "none"
  BY <1>2 DEF Shift
<1> QED BY <1>1, <1>3

\* Repair and the systems serve questions they were offered.
LEMMA SparedOnes ==
  ASSUME NEW S, S # {}, NEW log
  PROVE  NotOverused(S, log) # {} /\ NotOverused(S, log) \subseteq S
BY DEF NotOverused

LEMMA UnseenServes ==
  ASSUME NEW S, S \subseteq Questions, NEW seen, NEW log, IsFiniteSet(log)
  PROVE  Unseen(S, seen, log) \subseteq S
<1> DEFINE new == {q \in S : Dna[q].cell \notin seen}
           best == IF new = {} THEN S ELSE new
           key == [q \in best |-> << Times(log, q), q >>]
<1>1. CASE S = {}
  BY <1>1 DEF Unseen
<1>2. CASE S # {}
  <2>1. best # {} /\ best \subseteq S /\ IsFiniteSet(best)
    BY <1>2, DnaAssumption, FS_Subset
  <2>2. Unseen(S, seen, log) = {First(key)}
    BY <1>2 DEF Unseen
  <2> HIDE DEF best
  <2>3. DOMAIN key = best
    OBVIOUS
  <2>4. \A q \in best : key[q] \in Keys(2) /\ key[q][2] = q
    <3> TAKE q \in best
    <3>1. q \in Int /\ Times(log, q) \in Int
      BY <2>1, TimesCount, DnaAssumption
    <3> QED BY <3>1 DEF Keys
  <2> HIDE DEF key
  <2>5. First(key) \in best
    BY <2>1, <2>3, <2>4, FirstIsOne
  <2> QED BY <2>1, <2>2, <2>5
<1> QED BY <1>1, <1>2

LEMMA GymServes ==
  ASSUME NEW shelf, shelf \subseteq Questions, NEW log, IsFiniteSet(log)
  PROVE  CalculationGym(shelf, log) \subseteq shelf
<1> SUFFICES ASSUME CalculationGym(shelf, log) # {}
             PROVE  CalculationGym(shelf, log) \subseteq shelf
  OBVIOUS
<1>1. PICK S, base :
        /\ base \in {0, 5}
        /\ S \subseteq shelf /\ S # {}
        /\ CalculationGym(shelf, log)
             = {First([q \in S |-> << Times(log, q), Abs(Dna[q].load - base), q >>])}
  BY DEF CalculationGym
<1> DEFINE key == [q \in S |-> << Times(log, q), Abs(Dna[q].load - base), q >>]
<1>2. IsFiniteSet(S) /\ S \subseteq Questions
  BY <1>1, DnaAssumption, FS_Subset
<1>3. DOMAIN key = S
  OBVIOUS
<1>4. \A q \in S : key[q] \in Keys(3) /\ key[q][3] = q
  <2> TAKE q \in S
  <2>1. q \in Int /\ Times(log, q) \in Int /\ Dna[q].load \in Int /\ base \in Int
    BY <1>1, <1>2, TimesCount, DnaAssumption
  <2>2. Abs(Dna[q].load - base) \in Int
    BY <2>1 DEF Abs
  <2> QED BY <2>1, <2>2 DEF Keys
<1> HIDE DEF key
<1>5. First(key) \in S
  BY <1>1, <1>2, <1>3, <1>4, FirstIsOne
<1> QED BY <1>1, <1>5 DEF key

LEMMA SpeedServes ==
  ASSUME NEW shelf, shelf \subseteq Questions, NEW log, IsFiniteSet(log)
  PROVE  SpeedLab(shelf, log) \subseteq shelf
<1> SUFFICES ASSUME SpeedLab(shelf, log) # {}
             PROVE  SpeedLab(shelf, log) \subseteq shelf
  OBVIOUS
<1>1. PICK S :
        /\ S \subseteq shelf /\ S # {}
        /\ SpeedLab(shelf, log)
             = {First([q \in S |-> << Times(log, q), Dna[q].expected, q >>])}
  BY DEF SpeedLab
<1> DEFINE key == [q \in S |-> << Times(log, q), Dna[q].expected, q >>]
<1>2. IsFiniteSet(S) /\ S \subseteq Questions
  BY <1>1, DnaAssumption, FS_Subset
<1>3. DOMAIN key = S
  OBVIOUS
<1>4. \A q \in S : key[q] \in Keys(3) /\ key[q][3] = q
  <2> TAKE q \in S
  <2>1. q \in Int /\ Times(log, q) \in Int /\ Dna[q].expected \in Int
    BY <1>2, TimesCount, DnaAssumption
  <2> QED BY <2>1 DEF Keys
<1> HIDE DEF key
<1>5. First(key) \in S
  BY <1>1, <1>2, <1>3, <1>4, FirstIsOne
<1> QED BY <1>1, <1>5 DEF key

LEMMA SystemsServe ==
  ASSUME NEW shelf, shelf \subseteq Questions, NEW log, IsFiniteSet(log), NEW pressed
  PROVE  FromSystems(shelf, log, pressed) \subseteq shelf
<1>1. TrapLab(shelf, log) \subseteq shelf
  <2>1. \A t : {q \in shelf : Dna[q].trap = t} \subseteq Questions
    OBVIOUS
  <2>2. PICK t, seen :
          TrapLab(shelf, log) \in {{}, Unseen({q \in shelf : Dna[q].trap = t}, seen, log)}
    BY DEF TrapLab
  <2>3. Unseen({q \in shelf : Dna[q].trap = t}, seen, log) \subseteq {q \in shelf : Dna[q].trap = t}
    BY <2>1, UnseenServes
  <2> QED BY <2>2, <2>3
<1>2. PressureTraining(shelf, log, pressed) \subseteq shelf
  <2> DEFINE S == {q \in shelf : Dna[q].concept = pressed}
  <2>1. S \subseteq Questions
    OBVIOUS
  <2>2. PICK seen : PressureTraining(shelf, log, pressed) \in {{}, Unseen(S, seen, log)}
    BY DEF PressureTraining
  <2>3. Unseen(S, seen, log) \subseteq S
    BY <2>1, UnseenServes
  <2> QED BY <2>2, <2>3
<1>3. NoveltyTraining(shelf, log) \subseteq shelf
  <2>1. PICK S, seen : /\ S \subseteq shelf
                       /\ NoveltyTraining(shelf, log) \in {{}, Unseen(S, seen, log)}
    BY DEF NoveltyTraining
  <2>2. S \subseteq Questions
    BY <2>1
  <2>3. Unseen(S, seen, log) \subseteq S
    BY <2>2, UnseenServes
  <2> QED BY <2>1, <2>3
<1> QED BY <1>1, <1>2, <1>3, GymServes, SpeedServes DEF FromSystems, Else

LEMMA RepairServes ==
  ASSUME NEW shelf, shelf \subseteq Questions, NEW log, History(log), NEW plan
  PROVE  RepairQuestion(plan, shelf, log) \subseteq shelf
<1> DEFINE suiting == {q \in shelf : Suits(q, plan)}
           tiers == {MatchTier(q, plan) : q \in suiting}
           tier == Min(tiers)
           same == {q \in suiting : MatchTier(q, plan) = tier}
           best == NotOverused(same, log)
           known == {a \in log : a.id = plan.attempt}
           away(q) == IF known = {} THEN 0
                      ELSE Abs(Dna[q].tier - Of(CHOOSE a \in known : TRUE).tier)
           key == [q \in best |-> << away(q), q >>]
<1> SUFFICES ASSUME suiting # {}
             PROVE  RepairQuestion(plan, shelf, log) \subseteq shelf
  BY DEF RepairQuestion
<1>1. RepairQuestion(plan, shelf, log) = {First(key)}
  BY DEF RepairQuestion
<1>2. same # {} /\ same \subseteq shelf
  <2>1. \A q : MatchTier(q, plan) \in 1..6
    BY DEF MatchTier
  <2>2. tiers \in SUBSET Nat /\ tiers # {}
    BY <2>1
  <2>3. tier \in tiers
    <3> HIDE DEF tiers
    <3> QED BY <2>2, MinIsOne
  <2> QED BY <2>3
<1> HIDE DEF same
<1>3. best # {} /\ best \subseteq shelf
  BY <1>2, SparedOnes
<1>4. IsFiniteSet(best) /\ best \subseteq Questions
  BY <1>3, DnaAssumption, FS_Subset
<1>5. \A q \in best : away(q) \in Int
  <2> TAKE q \in best
  <2>1. CASE known = {}
    BY <2>1
  <2>2. CASE known # {}
    <3>1. PICK a \in log : a = CHOOSE b \in known : TRUE
      BY <2>2
    <3>2. Of(a).tier \in Int /\ Dna[q].tier \in Int
      BY <1>4, TierType DEF Of, History
    <3> QED BY <2>2, <3>1, <3>2 DEF Abs
  <2> QED BY <2>1, <2>2
<1> HIDE DEF best, away
<1>6. DOMAIN key = best
  OBVIOUS
<1>7. \A q \in best : key[q] \in Keys(2) /\ key[q][2] = q
  <2> TAKE q \in best
  <2>1. q \in Int /\ away(q) \in Int
    BY <1>4, <1>5, DnaAssumption
  <2> QED BY <2>1 DEF Keys
<1> HIDE DEF key
<1>8. First(key) \in best
  BY <1>3, <1>4, <1>6, <1>7, FirstIsOne
<1> QED BY <1>1, <1>3, <1>8

\* The need a bucket is named after is one of its questions' own.
LEMMA PrimaryNeed ==
  ASSUME NEW needs
  PROVE  /\ Primary(needs) \in 1..16
         /\ Primary(needs) <= 15 => Order[Primary(needs)] \in needs
<1> DEFINE N == {i \in DOMAIN Order : Order[i] \in needs}
<1>1. DOMAIN Order = 1..15 /\ Len(Order) = 15
  BY DEF Order
<1>2. CASE N = {}
  BY <1>1, <1>2 DEF Primary
<1>3. CASE N # {}
  <2>1. N \in SUBSET Nat
    BY <1>1
  <2>2. Min(N) \in N
    <3> HIDE DEF N
    <3> QED BY <1>3, <2>1, MinIsOne
  <2> QED BY <1>1, <1>3, <2>2 DEF Primary
<1> QED BY <1>2, <1>3

\* What a question's need lets its ranking read.
LEMMA NeedReads ==
  ASSUME NEW q, NEW shelf, NEW log, History(log), NEW plans,
         NEW n \in FittingNeeds(q, shelf, log, plans)
  PROVE  /\ n \in {"recent_incorrect", "recent_skip", "recent_slow", "recent_correct_on_pace"}
              => log # {}
         /\ n \in {"recent_improvement", "recent_deterioration"}
              => Graded(OnConcept(log, Dna[q].concept)) # {}
<1> DEFINE trend == Trend(log, Dna[q].concept)
<1>1. n \in Needs(q, log, plans, trend)
  BY DEF FittingNeeds
<1>2. log # {} => Recent[Signal(log)] \notin {"recent_improvement", "recent_deterioration"}
  <2> SUFFICES ASSUME log # {}
               PROVE  Recent[Signal(log)] \notin {"recent_improvement", "recent_deterioration"}
    OBVIOUS
  <2>1. Latest(log).out \in Outcomes
    BY LatestIsOne DEF History
  <2>2. Signal(log) \in {"incorrect", "skipped", "slow", "on_pace"}
    BY <2>1 DEF Signal, Outcomes
  <2> QED BY <2>2 DEF Recent
<1> HIDE DEF trend
<1>3. n \in {"recent_incorrect", "recent_skip", "recent_slow", "recent_correct_on_pace"}
        => log # {}
  BY <1>1 DEF Needs
<1>4. n = "recent_improvement" => trend = "improving"
  BY <1>1, <1>2 DEF Needs
<1>5. n = "recent_deterioration" => trend = "deteriorating"
  BY <1>1, <1>2 DEF Needs
<1> QED BY <1>3, <1>4, <1>5, TrendGraded DEF trend

\* A ranking is a key that ends in the id.
LEMMA PreferenceType ==
  ASSUME NEW q \in Questions, NEW log, History(log), NEW need,
         need \in {"recent_incorrect", "recent_skip", "recent_slow", "recent_correct_on_pace"}
              => log # {},
         need \in {"recent_improvement", "recent_deterioration"}
              => Graded(OnConcept(log, Dna[q].concept)) # {}
  PROVE  Preference(q, need, log) \in Int \X Int
<1>1. Dna[q].tier \in Int /\ Dna[q].expected \in Int /\ Max(Tiers) + 1 \in Int
  BY DnaAssumption, TierType, MaxTiers
<1>2. log # {} => Of(Latest(log)).tier \in Int
  BY LatestIsOne, TierType DEF History, Of
<1>3. Graded(OnConcept(log, Dna[q].concept)) # {} => LastGradedTier(log, Dna[q].concept) \in Int
  BY LastGraded
<1>4. CASE need = "recent_incorrect"
  BY <1>4 DEF Preference
<1>5. CASE need = "recent_skip"
  BY <1>1, <1>5 DEF Preference
<1>6. CASE need = "recent_slow"
  BY <1>1, <1>6 DEF Preference
<1>7. CASE need = "recent_correct_on_pace"
  BY <1>1, <1>2, <1>7 DEF Preference
<1>8. CASE need = "recent_improvement"
  BY <1>1, <1>3, <1>8 DEF Preference
<1>9. CASE need = "recent_deterioration"
  BY <1>1, <1>3, <1>9 DEF Preference, Abs
<1>10. CASE need \notin {"recent_incorrect", "recent_skip", "recent_slow",
                         "recent_correct_on_pace", "recent_improvement",
                         "recent_deterioration"}
  BY <1>10 DEF Preference
<1> QED BY <1>4, <1>5, <1>6, <1>7, <1>8, <1>9, <1>10

LEMMA RankingKey ==
  ASSUME NEW q \in Questions, NEW log, History(log), NEW need,
         Preference(q, need, log) \in Int \X Int
  PROVE  Ranking(q, need, log) \in Keys(8) /\ Ranking(q, need, log)[8] = q
<1>1. PICK a \in Int, b \in Int : Preference(q, need, log) = <<a, b>>
  OBVIOUS
<1>2. Fit(q, need, log) \in Int
  <2>1. TargetTier(log, Dna[q].concept) \in Int /\ Dna[q].tier \in Int
    BY TargetType, TierType
  <2>2. Graded(OnConcept(log, Dna[q].concept)) # {}
          => LastGradedTier(log, Dna[q].concept) \in Int
    BY LastGraded
  <2> QED BY <2>1, <2>2 DEF Fit, Abs
<1> DEFINE family == Cardinality({x \in log : Of(x).family = Dna[q].family})
           cell == Cardinality({x \in log : Of(x).cell = Dna[q].cell})
<1>3. family \in Int /\ cell \in Int /\ Times(log, q) \in Int
  <2>1. family \in Nat /\ cell \in Nat
    BY Counted DEF History
  <2> QED BY <2>1, TimesCount DEF History
<1>4. Dna[q].tier \in Int /\ q \in Int
  BY TierType, DnaAssumption
<1>5. Ranking(q, need, log)
        = <<a, b>> \o <<Fit(q, need, log), family, cell, Times(log, q), Dna[q].tier, q>>
  BY <1>1 DEF Ranking
<1> HIDE DEF family, cell
<1> DEFINE front == <<a, b>>
           rear == <<Fit(q, need, log), family, cell, Times(log, q), Dna[q].tier, q>>
<1>6. front \in Seq(Int) /\ Len(front) = 2
  OBVIOUS
<1>7. rear \in Seq(Int) /\ Len(rear) = 6 /\ rear[6] = q
  BY <1>2, <1>3, <1>4
<1> HIDE DEF front, rear
<1>8. /\ front \o rear \in Seq(Int) /\ Len(front \o rear) = 8
      /\ (front \o rear)[8] = rear[6]
  <2>1. /\ front \o rear \in Seq(Int)
        /\ Len(front \o rear) = Len(front) + Len(rear)
        /\ \A i \in 1 .. Len(front) + Len(rear) : (front \o rear)[i]
              = IF i <= Len(front) THEN front[i] ELSE rear[i - Len(front)]
    BY <1>6, <1>7, ConcatProperties
  <2>2. 8 \in 1 .. Len(front) + Len(rear) /\ 8 - Len(front) = 6 /\ ~(8 <= Len(front))
    BY <1>6, <1>7
  <2> QED BY <1>6, <1>7, <2>1, <2>2
<1>9. front \o rear \in [1..8 -> Int]
  BY <1>8, LenProperties
<1>10. Ranking(q, need, log) = front \o rear
  BY <1>5 DEF front, rear
<1> QED BY <1>7, <1>8, <1>9, <1>10 DEF Keys

\* Adaptive practice serves a question that is not withheld.
LEMMA SelectServes ==
  ASSUME NEW shelf, shelf \subseteq Questions, NEW log, History(log), NEW plans,
         Withheld(shelf, log) # {}
  PROVE  SelectNext(shelf, log, plans) \in Withheld(shelf, log)
<1> DEFINE from == Withheld(shelf, log)
           rank == [q \in from |-> Primary(FittingNeeds(q, from, log, plans))]
           ranks == {rank[q] : q \in DOMAIN rank}
           top == Min(ranks)
           need == IF top > Len(Order) THEN "difficulty_progression" ELSE Order[top]
           bucket == {q \in DOMAIN rank : rank[q] = top}
           best == NotOverused(bucket, log)
           key == [q \in best |-> Ranking(q, need, log)]
<1>1. SelectNext(shelf, log, plans) = First(key)
  BY DEF SelectNext, MostUrgent
<1>2. from \subseteq Questions /\ IsFiniteSet(from) /\ from # {}
  <2>1. from \subseteq Questions
    BY DEF Withheld
  <2> QED BY <2>1, DnaAssumption, FS_Subset
<1>3. DOMAIN rank = from /\ \A q \in from : rank[q] = Primary(FittingNeeds(q, from, log, plans))
  OBVIOUS
<1> HIDE DEF from, rank
<1>4. ranks \in SUBSET Nat /\ ranks # {}
  BY <1>2, <1>3, PrimaryNeed
<1>5. top \in ranks
  <2> HIDE DEF ranks
  <2> QED BY <1>4, MinIsOne
<1>6. bucket # {} /\ bucket \subseteq from
  BY <1>3, <1>5
<1>7. \A q \in bucket : Preference(q, need, log) \in Int \X Int
  <2> TAKE q \in bucket
  <2>1. q \in from /\ q \in Questions /\ top = Primary(FittingNeeds(q, from, log, plans))
    BY <1>2, <1>3, <1>6
  <2>2. Len(Order) = 15
    BY DEF Order
  <2>3. top \in 1..16 /\ (top <= 15 => Order[top] \in FittingNeeds(q, from, log, plans))
    BY <2>1, PrimaryNeed
  <2> HIDE DEF bucket, top
  <2>4. CASE top > 15
    <3>1. need = "difficulty_progression"
      BY <2>2, <2>4
    <3> QED BY <2>1, <3>1, PreferenceType
  <2>5. CASE top <= 15
    <3>1. need \in FittingNeeds(q, from, log, plans)
      BY <2>2, <2>3, <2>5
    <3> HIDE DEF need
    <3> QED BY <2>1, <3>1, NeedReads, PreferenceType
  <2> QED BY <2>3, <2>4, <2>5
<1> HIDE DEF bucket, need
<1>8. best # {} /\ best \subseteq bucket
  BY <1>6, SparedOnes
<1>9. IsFiniteSet(best) /\ best \subseteq from /\ best \subseteq Questions
  BY <1>2, <1>6, <1>8, FS_Subset
<1>10. DOMAIN key = best /\ \A q \in best : key[q] = Ranking(q, need, log)
  OBVIOUS
<1>11. \A q \in best : key[q] \in Keys(8) /\ key[q][8] = q
  BY <1>7, <1>8, <1>9, <1>10, RankingKey
<1> HIDE DEF key
<1>12. First(key) \in best
  <2> HIDE DEF best
  <2> QED BY <1>8, <1>9, <1>10, <1>11, FirstIsOne
<1> QED BY <1>1, <1>9, <1>12 DEF from

-----------------------------------------------------------------------------
(* The question just attempted is not recommended again.                   *)

\* A recommendation is one of what is not withheld, or there is none to make.
LEMMA RecommendedIsOffered ==
  ASSUME NEW shelf, shelf \subseteq Questions, NEW log, History(log), NEW plans, NEW pressed,
         NEW told \in Recommendation(shelf, log, plans, pressed)
  PROVE  told.via # "no_action" => told.question \in Withheld(shelf, log)
<1> DEFINE offered == Withheld(shelf, log)
<1>1. offered \subseteq shelf /\ offered \subseteq Questions
  BY DEF Withheld
<1>2. ASSUME NEW via, NEW S, S \subseteq offered, NEW plan, NEW t \in Tell(via, S, plan)
      PROVE  t.question \in offered
  BY <1>2 DEF Tell
<1>3. CASE shelf = {}
  <2>1. told \in Tell("no_action", {None}, None)
    BY <1>3 DEF Recommendation
  <2> QED BY <2>1 DEF Tell
<1>4. CASE shelf # {}
  <2>1. SelectNext(shelf, log, plans) \in offered
    <3>1. offered # {}
      <4>1. CASE Cardinality(shelf) > 1
        <5>1. PICK x \in shelf : TRUE
          BY <1>4
        <5>2. ASSUME shelf \ {JustAttempted(log)} = {}
              PROVE  FALSE
          <6>1. shelf = {x}
            BY <5>1, <5>2
          <6>2. Cardinality(shelf) = 1
            BY <6>1, FS_Singleton
          <6> QED BY <6>2, <4>1
        <5> QED BY <4>1, <5>2 DEF Withheld
      <4>2. CASE ~(Cardinality(shelf) > 1)
        BY <1>4, <4>2 DEF Withheld
      <4> QED BY <4>1, <4>2
    <3> QED BY <3>1, SelectServes
  <2>2. \A p : RepairQuestion(p, offered, log) \subseteq offered
    <3> TAKE p
    <3> HIDE DEF offered
    <3> QED BY <1>1, RepairServes
  <2>3. FromSystems(offered, log, pressed) \subseteq offered
    <3> HIDE DEF offered
    <3> QED BY <1>1, SystemsServe DEF History
  <2>4. \/ told \in Tell("targeted_repair", RepairQuestion(Chosen(plans), offered, log),
                         Chosen(plans).attempt)
        \/ told \in Tell("training_system_practice", FromSystems(offered, log, pressed), None)
        \/ told \in Tell("adaptive_practice", {SelectNext(shelf, log, plans)}, None)
    BY <1>4 DEF Recommendation, Offered, Else
  <2> HIDE DEF offered
  <2> QED BY <1>2, <2>1, <2>2, <2>3, <2>4 DEF offered
<1> QED BY <1>3, <1>4

\* What a request recommends is not what it saw attempted last.
Fresh(q) ==
  q.phase = "advance" /\ q.via # "no_action" /\ ~q.only => q.question # q.last

AllFresh == \A r \in Requests : Fresh(requests[r])

LEMMA SeenHistory ==
  ASSUME Base, NEW seen, seen \subseteq Ever, OneEach(seen), NEW p
  PROVE  History(Records(seen, p))
<1>1. IsFiniteSet(seen)
  <2>1. IsFiniteSet(Ever)
    BY FS_Union DEF Base, LogOK, Ever
  <2> QED BY <2>1, FS_Subset
<1>2. History(seen)
  BY <1>1, StudyAssumption DEF Base, LogOK, History, OneEach
<1>3. Records(seen, p) \subseteq seen
  BY DEF Records
<1> QED BY <1>2, <1>3, PartHistory

LEMMA StepFresh ==
  ASSUME Base, Next, AllFresh
  PROVE  AllFresh'
<1> USE DEF Base
<1> SUFFICES ASSUME NEW r \in Requests
             PROVE  Fresh(requests'[r])
  BY DEF AllFresh
<1>1. CASE requests'[r] = requests[r]
  BY <1>1 DEF AllFresh
<1>2. CASE requests'[r].phase \in {"done", "explain", "plan", "write", "reread", "idle"}
  BY <1>2 DEF Fresh
<1>a. ASSUME NEW q, Set(r, q)
      PROVE  requests'[r] = q
  BY <1>a DEF Set, RequestsOK
<1>3. CASE ReadLog(r)
  <2> DEFINE q == [phase |-> "log", seen |-> attempts,
                   over |-> Over(Records(attempts, pool))]
  <2>1. requests'[r] = q
    BY <1>3, <1>a DEF ReadLog
  <2> QED BY <2>1 DEF Fresh
<1>4. CASE ReadPlans(r)
  <2>1. PICK over, plans : requests'[r] = [phase |-> "plans", seen |-> requests[r].seen,
                                           over |-> over, plans |-> plans]
    BY <1>4, <1>a DEF ReadPlans
  <2> QED BY <2>1 DEF Fresh
<1>5. CASE Choose(r)
  <2> DEFINE o == requests[r]
             log == Records(o.seen, pool)
             active == Active(o.plans, log)
  <2>0. PICK pressed : \E told \in Recommendation(pool, log, active, pressed) :
          Set(r, [phase |-> "advance", todo |-> Behind(o.plans, log), over |-> o.over,
                  via |-> told.via, question |-> told.question, plan |-> told.plan,
                  last |-> JustAttempted(log), only |-> Cardinality(pool) = 1])
    BY <1>5 DEF Choose
  <2>1. PICK told \in Recommendation(pool, log, active, pressed) :
          Set(r, [phase |-> "advance", todo |-> Behind(o.plans, log), over |-> o.over,
                  via |-> told.via, question |-> told.question, plan |-> told.plan,
                  last |-> JustAttempted(log), only |-> Cardinality(pool) = 1])
    BY <2>0
  <2>2. o.phase = "plans" /\ o.seen \subseteq Ever /\ OneEach(o.seen)
    BY <1>5 DEF Choose, At, RequestsOK, Sound
  <2>3. History(log) /\ pool \subseteq Questions
    BY <2>2, SeenHistory DEF ClockOK
  <2>4. /\ requests'[r].via = told.via /\ requests'[r].question = told.question
        /\ requests'[r].last = JustAttempted(log)
        /\ requests'[r].only = (Cardinality(pool) = 1)
    BY <1>a, <2>1
  <2> HIDE DEF log, active
  <2>5. told.via # "no_action" => told.question \in Withheld(pool, log)
    BY <2>1, <2>3, RecommendedIsOffered
  <2>6. ASSUME told.question \in Withheld(pool, log), Cardinality(pool) # 1
        PROVE  told.question # JustAttempted(log)
    <3>1. IsFiniteSet(pool) /\ pool # {}
      BY <2>3, <2>6, DnaAssumption, FS_Subset DEF Withheld
    <3>2. Cardinality(pool) > 1
      BY <3>1, <2>6, FS_CardinalityType, FS_EmptySet
    <3> QED BY <3>2, <2>6 DEF Withheld
  <2> QED BY <2>4, <2>5, <2>6 DEF Fresh
<1>6. CASE Advance(r)
  <2> DEFINE o == requests[r]
  <2>1. PICK t : Set(r, [o EXCEPT !.todo = @ \ {t}])
    BY <1>6 DEF Advance
  <2>2. o.phase = "advance" /\ Fresh(o)
    BY <1>6 DEF Advance, At, AllFresh
  <2>3. o = [phase |-> "advance", todo |-> o.todo, over |-> o.over, via |-> o.via,
             question |-> o.question, plan |-> o.plan, last |-> o.last, only |-> o.only]
    BY <2>2 DEF RequestsOK, Behindhand
  <2> DEFINE q == [o EXCEPT !.todo = @ \ {t}]
  <2>4. /\ q.phase = "advance" /\ q.via = o.via /\ q.question = o.question
        /\ q.last = o.last /\ q.only = o.only
    BY <2>3
  <2>5. requests'[r] = q
    BY <1>a, <2>1
  <2> HIDE DEF q
  <2> QED BY <2>2, <2>4, <2>5 DEF Fresh
<1> QED BY <1>1, <1>2, <1>3, <1>4, <1>5, <1>6, Mover, DiagnosisPhases

-----------------------------------------------------------------------------
(* The theorems.                                                           *)

LEMMA InitInv ==
  ASSUME Init
  PROVE  SInv
<1>1. PICK h \in Histories :
        /\ clock = h.now /\ attempts = h.log /\ late = {} /\ overwritten = {}
        /\ tokens = h.tokens
        /\ diagnoses = [a \in AttemptIds |->
                          IF a \in DOMAIN h.diagnoses THEN h.diagnoses[a] ELSE NoOffer]
  BY DEF Init
<1>2. /\ pool = Pool /\ requests = [r \in Requests |-> Idle]
  BY DEF Init
<1>3. ClockOK
  BY <1>1, <1>2, StudyAssumption, HistoryAssumption DEF ClockOK
<1>4. LogOK
  BY <1>1, HistoryAssumption, StudyAssumption, FS_EmptySet
     DEF LogOK, Attempts, Ever, OneEach
<1>5. \A a \in DOMAIN h.diagnoses :
        /\ a \in AttemptIds /\ diagnoses[a] = h.diagnoses[a]
        /\ \E b \in attempts : b.id = a
        /\ diagnoses[a] = Open \/ Diagnosed(a, diagnoses[a], Records(attempts, pool), h.now)
  <2> TAKE a \in DOMAIN h.diagnoses
  <2>0. a \in {b.id : b \in Missed(h.log)}
    BY HistoryAssumption
  <2>1. \E b \in attempts : b.id = a
    BY <1>1, <2>0 DEF Missed
  <2>2. a \in AttemptIds
    BY <2>1, <1>4 DEF LogOK, Ever
  <2>3. diagnoses[a] = h.diagnoses[a]
    BY <1>1, <2>2
  <2>4. {b \in h.log : b.question \in Pool} = Records(attempts, pool)
    BY <1>1, <1>2 DEF Records
  <2>5. \/ h.diagnoses[a] = Open
        \/ Diagnosed(a, h.diagnoses[a], {b \in h.log : b.question \in Pool}, h.now)
    BY HistoryAssumption DEF Open
  <2> QED BY <2>1, <2>2, <2>3, <2>4, <2>5
<1>6. \A a \in AttemptIds \ DOMAIN h.diagnoses : diagnoses[a] = NoOffer
  BY <1>1
<1>7. \A a \in DOMAIN h.diagnoses : diagnoses[a] = Open \/ AnsweredOK(a, diagnoses[a])
  <2> SUFFICES ASSUME NEW a, Diagnosed(a, diagnoses[a], Records(attempts, pool), h.now)
               PROVE  AnsweredOK(a, diagnoses[a])
    BY <1>5
  <2>1. \A n \in 0..h.now : n \in 0..MaxTime
    BY StudyAssumption, HistoryAssumption
  <2> QED BY <2>1 DEF Diagnosed, AnsweredOK, Answers
<1>8. DiagnosesOK
  <2>1. diagnoses = [a \in AttemptIds |-> diagnoses[a]]
    BY <1>1
  <2> QED BY <1>5, <1>6, <1>7, <2>1 DEF DiagnosesOK
<1>9. TokensOK
  <2> SUFFICES ASSUME NEW token \in tokens
               PROVE  token.attempt \in AttemptIds /\ diagnoses[token.attempt] # NoOffer
    BY DEF TokensOK
  <2>1. token.attempt \in DOMAIN h.diagnoses
    BY <1>1, HistoryAssumption
  <2> QED BY <1>5, <1>7, <2>1 DEF AnsweredOK, Answers, NoOffer, Open
<1>10. RequestsOK
  BY <1>2, SoundIdle DEF RequestsOK
<1>11. ClaimedOnce
  BY <1>2 DEF ClaimedOnce, Claims, Idle, ToldAnswer
<1>12. StatusEarned
  <2> SUFFICES ASSUME NEW a \in AttemptIds, diagnoses[a].answer = "confirmed",
                      diagnoses[a].plan # None
               PROVE  \E log \in Readings : Rank(diagnoses[a].plan.status)
                                               <= Rank(Lifecycle(diagnoses[a].plan, log))
    BY DEF StatusEarned, Confirmed
  <2>1. diagnoses[a] # NoOffer /\ diagnoses[a] # Open
    BY DEF NoOffer, Open
  <2>2. Diagnosed(a, diagnoses[a], Records(attempts, pool), h.now)
    BY <1>5, <1>6, <2>1
  <2>3. Records(attempts, pool) \in Readings
    <3>1. With({}) = attempts /\ OneEach({})
      BY DEF With, OneEach
    <3> QED BY <3>1 DEF Readings
  <2> QED BY <2>2, <2>3 DEF Diagnosed
<1> QED BY <1>3, <1>4, <1>8, <1>9, <1>10, <1>11, <1>12 DEF SInv, Base

LEMMA NextInv ==
  ASSUME SInv, [Next]_vars
  PROVE  SInv'
<1>1. CASE Next
  BY <1>1, StepBase, StepClaims, StepStatus DEF SInv
<1>2. CASE UNCHANGED vars
  <2> USE <1>2 DEF vars
  <2>1. ClockOK' /\ LogOK' /\ TokensOK'
    BY DEF SInv, Base, ClockOK, LogOK, TokensOK, Ever, OneEach, history
  <2>2. DiagnosesOK'
    BY DEF SInv, Base, DiagnosesOK, history
  <2>0. Ever' = Ever /\ Readings' = Readings
    BY DEF Ever, Readings, With, Records, history
  <2>3. RequestsOK'
    BY <2>0 DEF SInv, Base, RequestsOK
  <2>4. ClaimedOnce' /\ StatusEarned'
    BY <2>0 DEF SInv, ClaimedOnce, StatusEarned, Confirmed
  <2> QED BY <2>1, <2>2, <2>3, <2>4 DEF SInv, Base
<1> QED BY <1>1, <1>2

\* Every reachable state satisfies the invariant, the types of the rows and of what requests
\* hold among its parts.
THEOREM StudyInvariant == Spec => []SInv
BY InitInv, NextInv, PTL DEF Spec

\* No row of a repair plan is ahead of what the student's attempts have reached, whatever
\* log it was computed from: more practice never takes a repair back. The attempts are taken
\* in one of their readings: the grade of one that was saved again may have been counted
\* as it was before.
THEOREM StatusIsEarned == Spec => []StatusEarned
<1>1. SInv => StatusEarned
  BY DEF SInv
<1> QED BY <1>1, StudyInvariant, PTL

\* A repair that was over when a recommendation was asked for is not what it serves,
\* whatever the rows of the plans say and whichever of them are written meanwhile.
THEOREM RepairIsOver == Spec => []RepairEnds
<1>1. Init => AllCurrent
  BY DEF Init, AllCurrent, Current, Idle
<1>2. SInv /\ AllCurrent /\ [Next]_vars => AllCurrent'
  <2> SUFFICES ASSUME SInv, AllCurrent, [Next]_vars
               PROVE  AllCurrent'
    OBVIOUS
  <2>1. CASE Next
    BY <2>1, StepCurrent DEF SInv
  <2>2. CASE UNCHANGED vars
    BY <2>2 DEF vars, AllCurrent
  <2> QED BY <2>1, <2>2
<1>3. AllCurrent => RepairEnds
  BY DEF AllCurrent, Current, RepairEnds
<1> QED BY <1>1, <1>2, <1>3, StudyInvariant, PTL DEF Spec

\* Whatever the log, the plans and the pool, no recommendation is the question just
\* attempted, unless it was the only one: it is withheld from repair and from every system,
\* and the ranking of adaptive practice always has another to choose.
THEOREM JustAttemptedIsSpared == Spec => []NoRepeat
<1>1. Init => AllFresh
  BY DEF Init, AllFresh, Fresh, Idle
<1>2. SInv /\ AllFresh /\ [Next]_vars => AllFresh'
  <2> SUFFICES ASSUME SInv, AllFresh, [Next]_vars
               PROVE  AllFresh'
    OBVIOUS
  <2>1. CASE Next
    BY <2>1, StepFresh DEF SInv
  <2>2. CASE UNCHANGED vars
    BY <2>2 DEF vars, AllFresh
  <2> QED BY <2>1, <2>2
<1>3. AllFresh => NoRepeat
  BY DEF AllFresh, Fresh, NoRepeat
<1> QED BY <1>1, <1>2, <1>3, StudyInvariant, PTL DEF Spec

\* A student is told the stored answer, and one request at most is told that it was its own
\* answer that was recorded.
THEOREM StoredAnswerIsTold == Spec => []ToldAsStored
<1>1. SInv => ToldAsStored
  <2> SUFFICES ASSUME SInv
               PROVE  ToldAsStored
    OBVIOUS
  <2>1. \A r \in Requests : ToldAnswer(requests[r])
          => requests[r].answer = diagnoses[requests[r].attempt].answer
    BY DEF SInv, Base, RequestsOK, Sound
  <2>2. \A r, s \in Requests :
          /\ ToldAnswer(requests[r]) /\ ToldAnswer(requests[s])
          /\ requests[r].attempt = requests[s].attempt
          /\ ~requests[r].already /\ ~requests[s].already
          => r = s
    BY DEF SInv, ClaimedOnce, Claims
  <2> QED BY <2>1, <2>2 DEF ToldAsStored, ToldAnswer
<1> QED BY <1>1, StudyInvariant, PTL

\* The diagnoses live as promised: one offer, the first answer for good, a plan with a
\* confirmation alone, and a row that only moves forward.
THEOREM DiagnosisKept == Spec => KeepsDiagnosis
<1>1. Init => D!Init
  <2> SUFFICES ASSUME Init
               PROVE  D!Init
    OBVIOUS
  <2>1. DiagnosesOK
    BY InitInv DEF SInv, Base
  <2>2. \A a \in AttemptIds : AnsweredOK(a, diagnoses[a]) => D!Answered(diagnoses[a])
    <3> TAKE a \in AttemptIds
    <3>1. \A p \in Plans : \E i \in 1..3 : p.status = D!Statuses[i]
      BY DEF Plans, Statuses, D!Statuses
    <3> QED BY <3>1 DEF AnsweredOK, D!Answered, D!Answers, Answers
  <2> QED BY <2>1, <2>2 DEF D!Init, DiagnosesOK, NoOffer, Open, D!NoOffer, D!Open
<1>2. SInv /\ [Next]_vars => [D!Next]_diagnoses
  <2> SUFFICES ASSUME SInv, Next
               PROVE  D!Next \/ UNCHANGED diagnoses
    BY DEF vars
  <2> USE DEF SInv, Base
  \* One diagnosis takes one of the promised steps.
  <2>0. ASSUME NEW a \in AttemptIds, NEW v, diagnoses' = [diagnoses EXCEPT ![a] = v],
               D!Offer(diagnoses[a], v) \/ D!Answer(diagnoses[a], v)
                 \/ D!Forward(diagnoses[a], v)
        PROVE  D!Next
    <3>1. diagnoses'[a] = v
      BY <2>0 DEF DiagnosesOK
    <3> QED BY <2>0, <3>1 DEF D!Next
  <2>1. ASSUME NEW r \in Requests, StoreOffer(r)
        PROVE  D!Next \/ UNCHANGED diagnoses
    <3> DEFINE a == requests[r].attempt
    <3>1. a \in AttemptIds
      BY <2>1 DEF StoreOffer, At, RequestsOK, Sound
    <3>2. CASE diagnoses[a] = NoOffer
      <4>1. diagnoses' = [diagnoses EXCEPT ![a] = Open]
        BY <2>1, <3>2 DEF StoreOffer
      <4>2. D!Offer(diagnoses[a], Open)
        BY <3>2 DEF D!Offer, D!NoOffer, D!Open, NoOffer, Open
      <4> QED BY <2>0, <3>1, <4>1, <4>2
    <3>3. CASE diagnoses[a] # NoOffer
      BY <2>1, <3>1, <3>3 DEF StoreOffer, DiagnosesOK
    <3> QED BY <3>2, <3>3
  <2>2. ASSUME NEW r \in Requests, RecordAnswer(r)
        PROVE  D!Next \/ UNCHANGED diagnoses
    <3> DEFINE q == requests[r]
               a == q.attempt
               v == [answer |-> q.answer, at |-> q.now, plan |-> q.plan]
    <3>1. /\ q \in AnswersOf /\ a \in AttemptIds
          /\ q.plan # None => q.answer = "confirmed" /\ q.plan.status = "pending"
      BY <2>2 DEF RecordAnswer, At, RequestsOK, Sound, AnswersOf
    <3>2. CASE diagnoses[a].answer = "open"
      <4>1. diagnoses' = [diagnoses EXCEPT ![a] = v]
        BY <2>2, <3>2 DEF RecordAnswer, Unanswered
      <4>2. diagnoses[a] = Open
        BY <3>1, <3>2 DEF DiagnosesOK, AnsweredOK, NoOffer, Answers
      <4>3. D!Answered(v)
        <5>1. "pending" = D!Statuses[1]
          BY DEF D!Statuses
        <5> QED BY <3>1, <5>1 DEF D!Answered, AnswersOf, D!Answers, Answers
      <4>4. D!Answer(diagnoses[a], v)
        BY <3>1, <4>2, <4>3 DEF D!Answer, D!Open, Open
      <4> HIDE DEF v, a
      <4> QED BY <2>0, <3>1, <4>1, <4>4
    <3>3. CASE diagnoses[a].answer # "open"
      BY <2>2, <3>3 DEF RecordAnswer, Unanswered
    <3> QED BY <3>2, <3>3
  <2>3. ASSUME NEW r \in Requests, Advance(r)
        PROVE  D!Next \/ UNCHANGED diagnoses
    <3>1. PICK t \in requests[r].todo :
            \/ /\ Rank(diagnoses[t.attempt].plan.status) < Rank(t.to)
               /\ diagnoses' = [diagnoses EXCEPT ![t.attempt].plan.status = t.to]
            \/ UNCHANGED diagnoses
      BY <2>3 DEF Advance
    <3> DEFINE a == t.attempt
               d == diagnoses[a]
               v == [d EXCEPT !.plan.status = t.to]
    <3>2. a \in AttemptIds /\ d.plan # None /\ t.to \in Statuses
      BY <2>3, <3>1 DEF Advance, At, RequestsOK, Behindhand, StageOK
    <3>3. AnsweredOK(a, d) /\ d.plan \in Plans
      BY <3>2 DEF DiagnosesOK, AnsweredOK, NoOffer, Open
    <3>4. CASE /\ Rank(d.plan.status) < Rank(t.to)
               /\ diagnoses' = [diagnoses EXCEPT ![a] = v]
      <4>1. v.plan = [d.plan EXCEPT !.status = t.to] /\ v = [d EXCEPT !.plan.status = v.plan.status]
        BY <3>3 DEF AnsweredOK, Plans
      <4>2. v.plan.status = t.to
        BY <3>3, <4>1 DEF Plans
      <4>3. \E i, j \in 1..3 : i < j /\ d.plan.status = D!Statuses[i] /\ t.to = D!Statuses[j]
        <5>1. d.plan.status \in Statuses
          BY <3>3 DEF Plans
        <5>2. /\ D!Statuses[1] = "pending" /\ D!Statuses[2] = "in_progress"
              /\ D!Statuses[3] = "completed"
          BY DEF D!Statuses
        <5> HIDE DEF d
        <5> QED BY <3>2, <3>4, <5>1, <5>2 DEF Rank, Statuses
      <4>4. D!Forward(d, v)
        <5> HIDE DEF d, v
        <5> QED BY <3>2, <4>1, <4>2, <4>3 DEF D!Forward
      <4> HIDE DEF v
      <4> QED BY <2>0, <3>2, <3>4, <4>4
    <3>5. CASE UNCHANGED diagnoses
      BY <3>5
    <3> QED BY <3>1, <3>4, <3>5
  <2>4. ASSUME NEW r \in Requests,
               \/ AskWhy(r) \/ Respond(r) \/ ComposePlan(r)
               \/ Reread(r) \/ ReadLog(r) \/ ReadPlans(r) \/ Choose(r) \/ Fail(r)
        PROVE  UNCHANGED diagnoses
    BY <2>4 DEF AskWhy, Respond, ComposePlan, Reread, ReadLog, ReadPlans, Choose, Fail
  <2>5. ASSUME Practise \/ Resave \/ Publish \/ Tick
        PROVE  UNCHANGED diagnoses
    BY <2>5 DEF Practise, Resave, Publish, Tick
  <2> QED BY <2>1, <2>2, <2>3, <2>4, <2>5 DEF Next
<1>3. Spec => D!Init /\ [][D!Next]_diagnoses
  BY <1>1, <1>2, StudyInvariant, PTL DEF Spec
<1> QED BY <1>3 DEF KeepsDiagnosis, D!Spec

=============================================================================
