------------------------------- MODULE Repair -------------------------------
(* The plan made of a confirmed diagnosis, how far the student's later attempts have taken  *)
(* it, which plan is served and with which question.                                        *)
EXTENDS Adaptive

\* What a miss of attempt a looks like in the history it was made in: the attempts before it
\* and itself. Nothing is repeated without a past.
Missing(a, log) ==
  LET before == {b \in log : Earlier(b, a)}
  IN  IF before = {} THEN {} ELSE Missed(before \cup {a})

Mode(a, log) ==
  LET misses == {b \in Missing(a, log) : Of(b).concept = Of(a).concept}
  IN  CASE Cardinality({b \in misses : "time_pressured" \in Of(b).modes}) >= 2 -> "timed"
        [] /\ Cardinality({b \in misses : "time_pressured" \in Of(b).modes}) < 2
           /\ Cardinality({b \in misses : Of(b).novelty # 0}) >= 2 -> "novelty"
        [] OTHER -> "standard"

Repeated(a, log) ==
  \/ Cardinality({b \in Missing(a, log) : Of(b).concept = Of(a).concept}) >= 2
  \/ Cardinality({b \in Missing(a, log) : Of(b).cell = Of(a).cell}) >= 2

\* The plan for a confirmed diagnosis of attempt a. Without a designed trap there is no
\* category to target, and no plan; an answer that is right by now shows no trap.
PlanFor(a, log, now) ==
  IF Of(a).trap = None THEN None
  ELSE [attempt |-> a.id, concept |-> Of(a).concept, family |-> Of(a).family,
        cell |-> Of(a).cell, trap |-> IF a.out = "incorrect" THEN Of(a).trap ELSE None,
        mode |-> Mode(a, log),
        priority |-> IF Repeated(a, log) THEN 0 ELSE IF a.out = "incorrect" THEN 1 ELSE 2,
        confirmedAt |-> now,
        status |-> "pending"]

\* The rounds of a plan: later attempts on its concept, and those that match it directly.
Rounds(plan, log) ==
  {a \in log : /\ a.id # plan.attempt
               /\ Of(a).concept = plan.concept
               /\ a.at > plan.confirmedAt}

Direct(plan, log) ==
  {a \in Rounds(plan, log) : \/ Of(a).family = plan.family
                             \/ plan.trap # None /\ Of(a).trap = plan.trap}

\* Mutant of MaxRounds: a plan is given one round more.
FourRounds == 4

MaxRounds == 3

\* evaluateRepairLifecycle: nothing is kept, the log decides.
Lifecycle(plan, log) ==
  IF \/ Trailing(Direct(plan, log), {"correct"}) >= 2
     \/ Cardinality(Rounds(plan, log)) >= MaxRounds
  THEN "completed"
  ELSE IF Rounds(plan, log) # {} THEN "in_progress" ELSE "pending"

Statuses == {"pending", "in_progress", "completed"}

\* The plans there can be.
Plans ==
  [attempt : Nat, concept : {Dna[q].concept : q \in Questions},
   family : {Dna[q].family : q \in Questions}, cell : {Dna[q].cell : q \in Questions},
   trap : {Dna[q].trap : q \in Questions} \cup {None}, mode : {"timed", "novelty", "standard"},
   priority : 0..2, confirmedAt : Nat, status : Statuses]

Rank(status) == CASE status = "pending" -> 0
                  [] status = "in_progress" -> 1
                  [] status = "completed" -> 2

\* The one plan a recommendation tries.
Chosen(plans) ==
  First([p \in plans |-> << p.priority, -p.confirmedAt, p.concept, p.family, p.cell,
                            IF p.trap = None THEN -1 ELSE p.trap, p.attempt >>])

\* How well a question matches a plan, best first.
MatchTier(q, plan) ==
  LET d == Dna[q]
      cell == d.cell = plan.cell
      trap == plan.trap # None /\ d.trap = plan.trap
      family == d.family = plan.family
  IN  CASE cell /\ (plan.trap # None => trap) -> 1
        [] cell /\ plan.trap # None /\ ~trap -> 2
        [] ~cell /\ trap /\ family -> 3
        [] ~cell /\ trap /\ ~family -> 4
        [] ~cell /\ ~trap /\ family -> 5
        [] OTHER -> 6

Suits(q, plan) ==
  /\ Dna[q].concept = plan.concept
  /\ plan.mode = "timed" => "time_pressured" \in Dna[q].modes
  /\ plan.mode = "novelty" => Dna[q].novelty # 0

\* selectRepairQuestion: the question, if any suits.
RepairQuestion(plan, pool, log) ==
  LET suiting == {q \in pool : Suits(q, plan)}
      tier    == Min({MatchTier(q, plan) : q \in suiting})
      best    == NotOverused({q \in suiting : MatchTier(q, plan) = tier}, log)
      known   == {a \in log : a.id = plan.attempt}
      away(q) == IF known = {} THEN 0
                 ELSE Abs(Dna[q].tier - Of(CHOOSE a \in known : TRUE).tier)
  IN  IF suiting = {} THEN {} ELSE {First([q \in best |-> << away(q), q >>])}

=============================================================================
