------------------------------ MODULE Systems -------------------------------
(* The five training systems of the recommendation, in their order: each finds its evidence *)
(* in the log, or not, and serves a question of the pool, or none; and the recommendation   *)
(* that asks repair, then the systems, then adaptive practice.                              *)
EXTENDS Repair

Concepts(pool) == {Dna[q].concept : q \in pool}

Timed(d) == "time_pressured" \in d.modes

\* Among S, a cell not yet seen first, then the least attempted, then the id.
Unseen(S, seen, log) ==
  LET new == {q \in S : Dna[q].cell \notin seen}
  IN  IF S = {} THEN {}
      ELSE {First([q \in IF new = {} THEN S ELSE new |-> << Times(log, q), q >>])}

Cells(log) == {Of(a).cell : a \in log}

----------------------------------------------------------------------------
(* Trap lab: a trap that caught the student on two questions.                             *)

CaughtOn(log, t) == {a.question : a \in {b \in Missed(log) : Of(b).trap = t}}

TrapLab(pool, log) ==
  LET traps == {t \in {Of(a).trap : a \in log} \ {None} : Cardinality(CaughtOn(log, t)) >= 2}
      trap  == First([t \in traps |-> << -Cardinality(CaughtOn(log, t)), t >>])
  IN  IF traps = {} THEN {}
      ELSE Unseen({q \in pool : Dna[q].trap = trap},
                  Cells({a \in Graded(log) : Of(a).trap = trap}), log)

----------------------------------------------------------------------------
(* Calculation gym: accuracy falls by a fifth when the computational load is high.         *)

Loaded(log, c, high) == {a \in Graded(OnConcept(log, c)) : (Of(a).load >= 5) = high}

\* The gap, as a fraction of the product of the two counts.
Gap(log, c) ==
  Cardinality(Right(Loaded(log, c, FALSE))) * Cardinality(Loaded(log, c, TRUE))
    - Cardinality(Right(Loaded(log, c, TRUE))) * Cardinality(Loaded(log, c, FALSE))

Whole(log, c) == Cardinality(Loaded(log, c, TRUE)) * Cardinality(Loaded(log, c, FALSE))

Friction(log, c) ==
  /\ Measured(Loaded(log, c, TRUE)) /\ Measured(Loaded(log, c, FALSE))
  /\ 5 * Gap(log, c) >= Whole(log, c)

\* Three quarters right of at least three.
Cleared(S) == Measured(S) /\ 4 * Cardinality(Right(S)) >= 3 * Cardinality(S)

GymStage(log, c) ==
  LET steps == {a \in Loaded(log, c, FALSE) : "multi_step" \notin Of(a).modes}
      mixed == {a \in Loaded(log, c, TRUE) : ~Timed(Of(a))}
  IN  IF ~Cleared(steps) THEN "foundational" ELSE IF ~Cleared(mixed) THEN "mixed" ELSE "timed"

Serves(d, stage) ==
  CASE stage = "foundational" -> d.load < 5 /\ "multi_step" \notin d.modes
    [] stage = "mixed"        -> d.load >= 5 /\ ~Timed(d)
    [] stage = "timed"        -> d.load >= 5 /\ Timed(d)

CalculationGym(pool, log) ==
  LET found == {c \in Concepts(pool) : Friction(log, c)}
      worst == CHOOSE c \in found : \A e \in found \ {c} :
                 LET more == Gap(log, c) * Whole(log, e) - Gap(log, e) * Whole(log, c)
                 IN  more > 0 \/ (more = 0 /\ c < e)
      stage == GymStage(log, worst)
      S     == {q \in pool : Dna[q].concept = worst /\ Serves(Dna[q], stage)}
      base  == IF stage = "foundational" THEN 0 ELSE 5
  IN  IF found = {} \/ S = {} THEN {}
      ELSE {First([q \in S |-> << Times(log, q), Abs(Dna[q].load - base), q >>])}

----------------------------------------------------------------------------
(* Speed lab: at least half of the plain attempts on a concept are right and slow.         *)

Plain(log, c) == {a \in Graded(OnConcept(log, c)) : ~Timed(Of(a)) /\ Of(a).conceptual < 5}

RightAndSlow(log, c) == {a \in Right(Plain(log, c)) : a.pace >= 13}

SlowOn(log, c) ==
  Measured(Plain(log, c))
    /\ 2 * Cardinality(RightAndSlow(log, c)) >= Cardinality(Plain(log, c))

SpeedStage(log, c) ==
  LET paced  == {a \in Right(OnConcept(log, c)) : ~Timed(Of(a)) /\ a.pace <= 10}
      steady == {a \in paced : Of(a).conceptual < 5}
  IN  IF ~Measured(steady) THEN "steady"
      ELSE IF ~Measured(paced \ steady) THEN "mixed" ELSE "timed"

SpeedLab(pool, log) ==
  LET found == {c \in Concepts(pool) : SlowOn(log, c)}
      worst == CHOOSE c \in found : \A e \in found \ {c} :
                 LET more == Cardinality(RightAndSlow(log, c)) * Cardinality(Plain(log, e))
                               - Cardinality(RightAndSlow(log, e)) * Cardinality(Plain(log, c))
                 IN  more > 0 \/ (more = 0 /\ c < e)
      stage == SpeedStage(log, worst)
      S     == {q \in pool : /\ Dna[q].concept = worst
                             /\ Timed(Dna[q]) = (stage = "timed")
                             /\ stage = "steady" => Dna[q].conceptual < 5
                             /\ stage = "mixed" => Dna[q].conceptual >= 5}
  IN  IF found = {} \/ S = {} THEN {}
      ELSE {First([q \in S |-> << Times(log, q), Dna[q].expected, q >>])}

----------------------------------------------------------------------------
(* Pressure training: its evidence comes from timed blocks of the session, of which only    *)
(* the concept it points at is kept: three blocks of three attempts, most of each block on  *)
(* the concept.                                                                             *)

Pressed(log) ==
  {c \in {Of(a).concept : a \in log} :
     Cardinality(log) >= 9 /\ Cardinality(OnConcept(log, c)) >= 6}

PressureTraining(pool, log, pressed) ==
  IF pressed = None THEN {}
  ELSE Unseen({q \in pool : Dna[q].concept = pressed},
              Cells(Graded(OnConcept(log, pressed))), log)

----------------------------------------------------------------------------
(* Novelty training: a concept known from three standard questions, and a kind of novelty   *)
(* met on fewer than three.                                                                 *)

Met(log, c, level) ==
  {a.question : a \in {b \in Graded(OnConcept(log, c)) : Of(b).novelty = level}}

NoveltyTraining(pool, log) ==
  LET targets == {t \in {Of(a).concept : a \in log} \X (1..3) :
                    /\ Cardinality(Met(log, t[1], 0)) >= 3
                    /\ Cardinality(Met(log, t[1], t[2])) < 3}
      target  == First([t \in targets |-> << Cardinality(Met(log, t[1], t[2])), t[1], t[2] >>])
      Aimed(d) == d.concept = target[1] /\ d.novelty = target[2]
  IN  IF targets = {} THEN {}
      ELSE Unseen({q \in pool : Aimed(Dna[q])},
                  Cells({a \in Graded(log) : Aimed(Of(a))}), log)

----------------------------------------------------------------------------
(* The recommendation.                                                                    *)

\* Whoever comes first and serves a question.
Else(S, T) == IF S = {} THEN T ELSE S

FromSystems(pool, log, pressed) ==
  Else(TrapLab(pool, log),
  Else(CalculationGym(pool, log),
  Else(SpeedLab(pool, log),
  Else(PressureTraining(pool, log, pressed),
       NoveltyTraining(pool, log)))))

\* Mutant of Offered: nothing is withheld.
WholePool(pool, log) == pool

\* The question just attempted is withheld from repair and from the systems.
Offered(pool, log) == Withheld(pool, log)

Tell(via, S, plan) == {[via |-> via, question |-> q, plan |-> plan] : q \in S}

\* One plan is tried; then the systems; adaptive practice sees the whole pool.
Recommendation(pool, log, plans, pressed) ==
  LET offered == Offered(pool, log)
  IN  IF pool = {} THEN Tell("no_action", {None}, None)
      ELSE Else(IF plans = {} THEN {}
                ELSE Tell("targeted_repair", RepairQuestion(Chosen(plans), offered, log),
                          Chosen(plans).attempt),
           Else(Tell("training_system_practice", FromSystems(offered, log, pressed), None),
                Tell("adaptive_practice", {SelectNext(pool, log, plans)}, None)))

=============================================================================
