------------------------------ MODULE Evidence ------------------------------
(* What a student's finalized attempts are evidence of: the counts behind a mastery state,  *)
(* the trend on a concept and the most recent attempt. A log is a set of attempts; nothing  *)
(* here depends on the order in which a query returned them.                                *)
EXTENDS Integers, FiniteSets, FiniteSetsExt

CONSTANTS
  None,   \* no value
  Dna     \* question -> [concept, family, cell, trap, tier, novelty, modes, load,
          \*              conceptual, expected, combines]; names and ids are numbers, in
          \*              the order of their text; loads are tenths

Questions == DOMAIN Dna

\* standard, advanced, hard, extreme, novel.
Tiers == 0..4

ASSUME DnaAssumption ==
  /\ Questions \subseteq Nat /\ IsFiniteSet(Questions)
  /\ \A q \in Questions :
       /\ Dna[q].concept \in Nat /\ Dna[q].family \in Nat /\ Dna[q].cell \in Nat
       /\ Dna[q].trap \in Nat \cup {None}
       /\ Dna[q].tier \in Tiers /\ Dna[q].load \in Nat /\ Dna[q].expected \in Nat

Outcomes == {"correct", "incorrect", "skipped"}

\* An attempt: its time over the expected one in tenths, and when it was finalized.
Attempts(ids, paces, times) ==
  [id : ids, question : Questions, out : Outcomes, pace : paces, at : times]

Of(a) == Dna[a.question]

\* By time, then by id: total, so one history has one order.
Earlier(a, b) == a.at < b.at \/ (a.at = b.at /\ a.id < b.id)

Graded(log) == {a \in log : a.out # "skipped"}

Right(log) == {a \in log : a.out = "correct"}

Missed(log) == {a \in log : a.out = "incorrect"}

OnConcept(log, c) == {a \in log : Of(a).concept = c}

Times(log, q) == Cardinality({a \in log : a.question = q})

\* The length of the run of the given outcomes that ends the log.
Trailing(log, outs) ==
  Cardinality({a \in log : \A b \in log : b = a \/ Earlier(a, b) => b.out \in outs})

Latest(log) == CHOOSE a \in log : \A b \in log \ {a} : Earlier(b, a)

LastThree(log) == {a \in log : Cardinality({b \in log : Earlier(a, b)}) < 3}

\* Accuracy below 0.6, at or above 0.8.
Low(log) == 5 * Cardinality(Right(log)) < 3 * Cardinality(log)

High(log) == 5 * Cardinality(Right(log)) >= 4 * Cardinality(log)

\* A measure of fewer than three observations is null.
Measured(log) == Cardinality(log) >= 3

AccuracyWeak(log, c) ==
  LET S == Graded(OnConcept(log, c)) IN Measured(S) /\ Low(S)

SpeedWeak(log, c) ==
  LET S == OnConcept(log, c)
  IN  Measured(S) /\ MapThenSumSet(LAMBDA a : a.pace, S) >= 13 * Cardinality(S)

\* A gap is a measure that is low or missing.
NoveltyGap(log, c) ==
  LET S == {a \in Graded(OnConcept(log, c)) : Of(a).novelty # 0} IN ~Measured(S) \/ Low(S)

PressureGap(log, c) ==
  LET S == {a \in Graded(OnConcept(log, c)) : "time_pressured" \in Of(a).modes}
  IN  ~Measured(S) \/ Low(S)

DemonstratedTiers(log, c) ==
  {t \in Tiers : LET S == {a \in Graded(OnConcept(log, c)) : Of(a).tier = t}
                 IN  Measured(S) /\ High(S)}

Above(known) == IF known = {} THEN 0 ELSE Min({Max(known) + 1, Max(Tiers)})

TargetTier(log, c) == Above(DemonstratedTiers(log, c))

LastGradedTier(log, c) == Of(Latest(Graded(OnConcept(log, c)))).tier

\* The last three graded answers against the ones before them.
Shift(recent, before) ==
  LET change == Cardinality(before) >= 2
      sure   == Missed(recent) = {}
  IN  CASE before = {} -> "none"
        [] before # {} /\ sure -> IF change /\ Low(before) THEN "improving" ELSE "sustained"
        [] change /\ ~sure /\ Low(recent) /\ High(before) -> "deteriorating"
        [] change /\ ~sure /\ Low(recent) /\ Low(before) -> "persistent"
        [] OTHER -> "none"

Trend(log, c) ==
  LET S == Graded(OnConcept(log, c)) IN Shift(LastThree(S), S \ LastThree(S))

\* What the most recent attempt says.
Signal(log) ==
  LET a == Latest(log)
  IN  IF a.out # "correct" THEN a.out
      ELSE IF a.pace >= 13 THEN "slow" ELSE "on_pace"

=============================================================================
