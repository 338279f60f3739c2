------------------------------ MODULE MCContent ------------------------------
(* Small instances of Generation. *)
EXTENDS Generation

\* A question that can be recomputed, and one alike that needs a person twice: for its
\* tier and for its answer.
Plain == [text |-> "t1", print |-> "p1", cell |-> "c", answer |-> "a", derived |-> "holds",
          sound |-> TRUE, hard |-> FALSE]

Hard == [text |-> "t2", print |-> "p2", cell |-> "c", answer |-> "b", derived |-> "none",
         sound |-> TRUE, hard |-> TRUE]

SmallItems == {Plain, Hard}

SmallAlike == {"t1", "t2"} \X {"t1", "t2"}

SmallReviews == {[verified |-> "yes", distinct |-> "yes"], [verified |-> "no", distinct |-> "no"]}

SmallBatches == {<<1, 2, 1>>}

SmallRederivations == {None, "a"}

SmallCosts == {1}

Symmetry == Permutations(Ids)

=============================================================================
