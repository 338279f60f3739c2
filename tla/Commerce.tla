------------------------------ MODULE Commerce ------------------------------
(***************************************************************************)
(* What checkout, billing and metering share: null, the requests that are  *)
(* being served, and the clock of the server.                              *)
(***************************************************************************)
EXTENDS Integers

CONSTANTS
  None,        \* null: no row, no reference, no holder of a lock
  Requests,
  MaxTime      \* bound of the clock

VARIABLE now   \* the server clock

=============================================================================
