------------------------------ MODULE MCStudy ------------------------------
(* A small instance of Study: five questions on two concepts, a student with one of    *)
(* seven pasts, one more attempt and two requests at a time.                           *)
EXTENDS Study, TLC

CONSTANTS r1, r2

Plain5 ==
  [concept |-> 1, family |-> 1, cell |-> 1, trap |-> 1, tier |-> 0, novelty |-> 0,
   modes |-> {}, load |-> 3, conceptual |-> 3, expected |-> 60, combines |-> {}]

\* A plain question, the same trap under load, a slower one without a trap, a novel one,
\* and a timed one on another concept.
Five ==
  1 :> Plain5
  @@ 2 :> [Plain5 EXCEPT !.cell = 2, !.tier = 1, !.load = 6, !.modes = {"multi_step"}]
  @@ 3 :> [Plain5 EXCEPT !.cell = 3, !.family = 2, !.trap = None, !.conceptual = 6]
  @@ 4 :> [Plain5 EXCEPT !.cell = 4, !.tier = 1, !.novelty = 1, !.combines = {2}]
  @@ 5 :> [Plain5 EXCEPT !.concept = 2, !.family = 3, !.cell = 5, !.trap = 2,
                         !.modes = {"time_pressured"}]

Past(id, question, out, pace, at) ==
  [id |-> id, question |-> question, out |-> out, pace |-> pace, at |-> at]

\* A past whose wrong answers were all explained, and the explanations rejected.
Log(log) ==
  [now |-> 3, log |-> log, tokens |-> {},
   diagnoses |-> [a \in {b.id : b \in Missed(log)} |->
                    [answer |-> "rejected", at |-> 2, plan |-> None]]]

Confirm(id, concept, family, cell, trap, now) ==
  [answer |-> "confirmed", at |-> now,
   plan |-> [attempt |-> id, concept |-> concept, family |-> family, cell |-> cell,
             trap |-> trap, mode |-> "standard", priority |-> 1, confirmedAt |-> now,
             status |-> "pending"]]

Miss == Past(20, 1, "incorrect", 8, 1)

Planned(rounds) ==
  [now |-> 3, log |-> {Miss, Past(22, 5, "incorrect", 8, 1)} \cup rounds, tokens |-> {},
   diagnoses |-> 20 :> Confirm(20, 1, 1, 1, 1, 1) @@ 22 :> Confirm(22, 2, 3, 5, 2, 1)]

Pasts ==
  { \* Nothing yet.
    [now |-> 2, log |-> {}, diagnoses |-> << >>, tokens |-> {}],
    \* Two plans: one a round away from its end, or past it without a row that says so.
    Planned({Past(24, 2, "correct", 8, 2)}),
    Planned({Past(24, 2, "correct", 8, 2), Past(26, 1, "correct", 8, 2)}),
    \* Caught by one trap on two questions.
    Log({Miss, Past(22, 2, "incorrect", 8, 1), Past(24, 3, "correct", 8, 2)}),
    \* Wrong under load alone.
    Log({Past(20 + 2 * i, 1, "correct", 8, 1) : i \in 0..2}
          \cup {Past(30 + 2 * i, 2, IF i = 0 THEN "incorrect" ELSE "correct", 8, 2)
                 : i \in 0..2}),
    \* Right and slow.
    Log({Past(20 + 2 * i, 1, "correct", 20, 1) : i \in 0..2}),
    \* Nine attempts, three blocks' worth, and three standard questions of a concept.
    Log({Past(20 + 2 * i, IF i % 3 = 0 THEN 5 ELSE 1 + (i % 3), "correct", 8, 1) : i \in 0..7}
          \cup {Past(36, 1, "correct", 8, 1)}) }

SmallMoves ==
  {[question |-> 2, out |-> "skipped", pace |-> 8],
   [question |-> 1, out |-> "correct", pace |-> 20],
   [question |-> 1, out |-> "incorrect", pace |-> 20]}

Fresh == {99}

Ids == UNION {{a.id : a \in h.log} : h \in Pasts} \cup Fresh

Symmetry == Permutations(Requests)

============================================================================
