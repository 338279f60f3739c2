----------------------------- MODULE MCMetering -----------------------------
(* A small instance of Metering: months of two days, days of one tick. *)
EXTENDS Metering, TLC

CONSTANTS r1, r2, base, plan

Calendar == [p \in Periods |-> IF p = "day" THEN 1 ELSE 2]

\* One unit in all: a day for free, a month for a subscriber.
OneUnit == [s \in Sources |->
  IF s = base THEN [max |-> 1, period |-> "day"] ELSE [max |-> 1, period |-> "month"]]

=============================================================================
