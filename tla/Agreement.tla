------------------------------ MODULE Agreement ------------------------------
(***************************************************************************)
(* What the subscription table promises, without references, events or     *)
(* requests: the life of one agreement per id, as the transition table of  *)
(* the billing review documents it.  until[s] is the end of the period     *)
(* paid for.  A payment is the only thing that moves it, always forward by *)
(* at least one plan duration, and never after the agreement is over; an   *)
(* agreement that stopped renewing never renews again; a refund is final.  *)
(* An agreement two events wrote over at once is lost: of it nothing more  *)
(* is promised.                                                            *)
(***************************************************************************)
EXTENDS Integers

CONSTANTS Ids, Durations     \* Durations: what one payment may buy

VARIABLES
  standing,   \* "none", "open", "live", "ending", "closed", "revoked" or "lost"
  until       \* end of the paid period, -1 before the first payment

vars == <<standing, until>>

Init ==
  /\ standing = [s \in Ids |-> "none"]
  /\ until = [s \in Ids |-> -1]

Move(s, from, to) ==
  /\ standing[s] \in from
  /\ standing' = [standing EXCEPT ![s] = to]
  /\ UNCHANGED until

Open(s)   == Move(s, {"none"}, "open")
End(s)    == Move(s, {"open", "live"}, "ending")
Close(s)  == Move(s, {"open", "live", "ending"}, "closed")
Revoke(s) == Move(s, {"open", "live", "ending", "closed"}, "revoked")

\* A payment taken at some time t: the period already paid for is kept.
Pay(s) ==
  /\ standing[s] \in {"open", "live", "ending"}
  /\ \E d \in Durations :
       /\ until'[s] >= until[s] + d
       /\ until'[s] >= d
  /\ until' = [until EXCEPT ![s] = until'[s]]
  /\ standing' = [standing EXCEPT ![s] = IF @ = "ending" THEN "ending" ELSE "live"]

\* A row that had moved since an event read it is overwritten.
Lose(s) ==
  /\ standing[s] \notin {"none", "open", "lost"}
  /\ standing' = [standing EXCEPT ![s] = "lost"]
  /\ until' = [until EXCEPT ![s] = -1]

Next == \E s \in Ids : Open(s) \/ End(s) \/ Close(s) \/ Revoke(s) \/ Pay(s) \/ Lose(s)

Spec == Init /\ [][Next]_vars

=============================================================================
