----------------------------- MODULE MCBilling -----------------------------
(* Small instances of Billing for TLC. *)
EXTENDS Billing, TLC

CONSTANTS st1, p1, s1, s2, f1, f2, f3, e1, e2, e3, e4, r1, r2, r3, a1, a2

OneUnit == [p \in Plans |-> 1]

EventSymmetry == Permutations(EventIds)

\* The identifiers are interchangeable: every one is only compared for equality.
CheckoutSymmetry == Permutations(SubIds) \cup Permutations(Refs)
            \cup Permutations(EventIds) \cup Permutations(Requests)
            \cup Permutations(Amounts)

=============================================================================
