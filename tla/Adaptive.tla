------------------------------ MODULE Adaptive ------------------------------
(* The choice of adaptive practice: the needs each question of the pool meets, the bucket   *)
(* of the most urgent need, and the ranking inside that bucket.                             *)
EXTENDS Evidence, Sequences

\* The needs, most urgent first.
Order == << "repair_priority", "repeated_error", "recent_deterioration", "accuracy_weakness",
            "speed_weakness", "recent_improvement", "recent_incorrect", "recent_skip",
            "recent_slow", "coverage_gap", "underexposure", "pressure_gap", "novelty_gap",
            "difficulty_progression", "recent_correct_on_pace" >>

Remediation == {"repeated_error", "recent_deterioration", "accuracy_weakness",
                "speed_weakness"}

Exploration == {"coverage_gap", "underexposure", "pressure_gap", "novelty_gap",
                "recent_correct_on_pace"}

Recent == [incorrect |-> "recent_incorrect", skipped |-> "recent_skip",
           slow |-> "recent_slow", on_pace |-> "recent_correct_on_pace"]

\* Lexicographic order of two keys of the same length.
Precedes(j, k) ==
  \E i \in DOMAIN j : j[i] < k[i] /\ \A h \in 1..(i - 1) : j[h] = k[h]

\* The argument whose key comes first; a key ends in the id, so it is one.
First(key) ==
  CHOOSE q \in DOMAIN key : \A p \in DOMAIN key \ {q} : Precedes(key[q], key[p])

Abs(n) == IF n < 0 THEN -n ELSE n

\* Questions attempted twice give way to the others, if there are any.
NotOverused(S, log) ==
  LET fresh == {q \in S : Times(log, q) < 2} IN IF fresh = {} THEN S ELSE fresh

JustAttempted(log) == IF log = {} THEN None ELSE Latest(log).question

Withheld(pool, log) ==
  IF Cardinality(pool) > 1 THEN pool \ {JustAttempted(log)} ELSE pool

\* The question is one the most recent attempt leads to.
Follows(q, log) ==
  LET last == Of(Latest(log))
      d    == Dna[q]
  IN  CASE Signal(log) = "incorrect" ->
             /\ d.tier <= last.tier
             /\ \/ d.concept = last.concept
                \/ d.concept \in last.combines
                \/ last.concept \in d.combines
        [] Signal(log) = "skipped" -> d.tier <= last.tier
        [] Signal(log) = "slow"    -> d.tier = last.tier /\ d.concept = last.concept
        [] Signal(log) = "on_pace" -> d.tier >= last.tier

Needs(q, log, plans, trend) ==
  LET d      == Dna[q]
      on     == OnConcept(log, d.concept)
      again  == q = JustAttempted(log)
      family == Cardinality({a \in log : Of(a).family = d.family})
  IN  {n \in {Order[i] : i \in DOMAIN Order} :
        \/ /\ n = "repair_priority"
           /\ \E p \in plans : p.concept = d.concept /\ p.family = d.family
        \/ n = "repeated_error" /\ Trailing(Graded(on), {"incorrect"}) >= 2
        \/ /\ n = "recent_deterioration" /\ ~again /\ trend = "deteriorating"
           /\ d.tier <= LastGradedTier(log, d.concept)
        \/ n = "accuracy_weakness" /\ trend # "improving" /\ AccuracyWeak(log, d.concept)
        \/ n = "speed_weakness" /\ SpeedWeak(log, d.concept)
        \/ /\ n = "recent_improvement" /\ ~again /\ trend = "improving"
           /\ d.tier >= LastGradedTier(log, d.concept)
        \/ log # {} /\ ~again /\ n = Recent[Signal(log)] /\ Follows(q, log)
        \/ n = "coverage_gap" /\ \A a \in on : Of(a).cell # d.cell
        \/ n = "underexposure" /\ log # {} /\ family <= 2
        \/ /\ n = "pressure_gap" /\ "time_pressured" \in d.modes
           /\ PressureGap(log, d.concept)
        \/ n = "novelty_gap" /\ d.novelty # 0 /\ NoveltyGap(log, d.concept)
        \/ n = "difficulty_progression" /\ d.tier = TargetTier(log, d.concept)}

\* The concept has a demonstrated tier and no active problem.
ProgressionReady(log, c) ==
  /\ DemonstratedTiers(log, c) # {}
  /\ Trend(log, c) \notin {"deteriorating", "persistent"}
  /\ Of(Latest(log)).concept = c => Signal(log) = "on_pace"

\* The tier exploration keeps to on a concept: the target, or the demonstrated one, of which
\* the pool has a question.
Nearest(known, there) ==
  IF Above(known) \in there THEN {Above(known)} ELSE {Max(known)} \cap there

Band(pool, log, c) ==
  IF ProgressionReady(log, c)
  THEN Nearest(DemonstratedTiers(log, c), {Dna[q].tier : q \in {p \in pool : Dna[p].concept = c}})
  ELSE {}

Within(tier, band) == band = {} \/ tier \in band

\* A need does not count for a question that is at the wrong tier for it.
FittingNeeds(q, pool, log, plans) ==
  LET d    == Dna[q]
      tier == LastGradedTier(log, d.concept)
      hard == /\ Graded(OnConcept(log, d.concept)) # {}
              /\ d.tier > tier
              /\ \E p \in pool : Dna[p].concept = d.concept /\ Dna[p].tier <= tier
      band == Band(pool, log, d.concept)
  IN  {n \in Needs(q, log, plans, Trend(log, d.concept)) :
        /\ n \in Remediation => ~hard
        /\ n \in Exploration => Within(d.tier, band)}

Primary(needs) ==
  LET N == {i \in DOMAIN Order : Order[i] \in needs}
  IN  IF N = {} THEN Len(Order) + 1 ELSE Min(N)

\* What the need itself prefers, before the general ranking.
Preference(q, need, log) ==
  LET d    == Dna[q]
      last == Of(Latest(log))
      up(t) == IF d.tier > t THEN d.tier - t ELSE Max(Tiers) + 1
  IN  CASE need = "recent_incorrect" ->
             << IF d.family = last.family THEN 0 ELSE 1, IF d.tier < last.tier THEN 0 ELSE 1 >>
        [] need = "recent_skip" -> << IF d.tier < last.tier THEN 0 ELSE 1, d.expected >>
        [] need = "recent_slow" -> << 0, d.expected >>
        [] need = "recent_correct_on_pace" -> << 0, up(last.tier) >>
        [] need = "recent_improvement" -> << 0, up(LastGradedTier(log, d.concept)) >>
        [] need = "recent_deterioration" ->
             << 0, Abs(d.tier - LastGradedTier(log, d.concept)) >>
        [] OTHER -> << 0, 0 >>

\* Distance to the last graded tier when repairing, else to the target tier.
Fit(q, need, log) ==
  LET d == Dna[q]
      t == LastGradedTier(log, d.concept)
  IN  IF need \in Remediation /\ Graded(OnConcept(log, d.concept)) # {}
      THEN (IF d.tier > t THEN 100 ELSE 0) + Abs(d.tier - t)
      ELSE Abs(d.tier - TargetTier(log, d.concept))

Ranking(q, need, log) ==
  Preference(q, need, log) \o
    << Fit(q, need, log),
       Cardinality({a \in log : Of(a).family = Dna[q].family}),
       Cardinality({a \in log : Of(a).cell = Dna[q].cell}),
       Times(log, q), Dna[q].tier, q >>

\* The bucket of the most urgent need, and the first of its ranking.
MostUrgent(rank, log) ==
  LET top  == Min({rank[q] : q \in DOMAIN rank})
      need == IF top > Len(Order) THEN "difficulty_progression" ELSE Order[top]
      best == NotOverused({q \in DOMAIN rank : rank[q] = top}, log)
  IN  First([q \in best |-> Ranking(q, need, log)])

\* selectNextQuestion of a pool that is not empty.
SelectNext(pool, log, plans) ==
  LET from == Withheld(pool, log)
  IN  MostUrgent([q \in from |-> Primary(FittingNeeds(q, from, log, plans))], log)

=============================================================================
