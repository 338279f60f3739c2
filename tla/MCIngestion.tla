----------------------------- MODULE MCIngestion -----------------------------
(* Small instances of Ingestion. *)
EXTENDS Ingestion, TLC

\* One content cut in two ways, one of which finds nothing, and a name that is no concept.
TwoCuts == [fine |-> [book |-> << {"ratio"}, {"novel"} >>],
            coarse |-> [book |-> << {} >>]]

Symmetry == Permutations(Requests)

=============================================================================
