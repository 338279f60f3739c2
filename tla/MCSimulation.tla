---------------------------- MODULE MCSimulation ----------------------------
(* A small instance of Simulation: a paper of one question in one section, and a *)
(* definition whose selection names a section that is not configured. *)
EXTENDS Simulation, TLC

CONSTANTS q1, right, wrong

OneSection(n) == <<[name |-> "quant", order |-> 1, count |-> n]>>

Config(n) ==
  [duration |-> 2, sections |-> OneSection(n), kind |-> "authored", reviewed |-> FALSE]

Good == [config |-> Config(1), selection |-> [quant |-> <<q1>>]]

Misplaced == [config |-> Config(1), selection |-> [verbal |-> <<q1>>]]

Offered == {Good, Misplaced}

Rows0 ==
  [q \in Questions |-> [section |-> "quant", version |-> 1, options |-> {right, wrong},
                        key |-> right, published |-> TRUE, sourced |-> TRUE]]

Two == 1 .. 2

Both == {{right, wrong}}

Symmetric == Permutations(Requests) \cup Permutations(Sims)

=============================================================================
