---------------------------- MODULE AccountLife ----------------------------
(***************************************************************************)
(* What accounts and sessions promise: an email has one account, dates     *)
(* once set do not move, a session belongs to the account it was issued    *)
(* for, and once it has ended it does not come back.                       *)
(***************************************************************************)
CONSTANTS
  None,
  Emails,
  Tokens

VARIABLES
  accounts,  \* email -> None or [onboarded, enrolled], each None or its date
  sessions   \* token -> None or [owner, live]

vars == <<accounts, sessions>>

Fresh == [onboarded |-> None, enrolled |-> None]

Init ==
  /\ accounts \in [Emails -> {None, Fresh} \cup
                             {[onboarded |-> None, enrolled |-> 0]}]
  /\ \A k \in Tokens :
       sessions[k] # None => accounts[sessions[k].owner] # None

Join(e) ==
  /\ accounts[e] = None
  /\ accounts' = [accounts EXCEPT ![e] = Fresh]
  /\ UNCHANGED sessions

\* A date that was not set is set, and nothing else of the account changes.
Date(e, field) ==
  /\ accounts[e] # None
  /\ accounts[e][field] = None
  /\ accounts'[e][field] # None
  /\ accounts' = [accounts EXCEPT ![e][field] = accounts'[e][field]]
  /\ UNCHANGED sessions

Issue(k, e) ==
  /\ accounts[e] # None
  /\ sessions[k] = None
  /\ \E live \in BOOLEAN : sessions' = [sessions EXCEPT ![k] = [owner |-> e, live |-> live]]
  /\ UNCHANGED accounts

\* Sessions end, one by a logout or several by the clock.
End(ended) ==
  /\ \A k \in ended : sessions[k] # None /\ sessions[k].live
  /\ sessions' = [k \in Tokens |->
                    IF k \in ended THEN [sessions[k] EXCEPT !.live = FALSE] ELSE sessions[k]]
  /\ UNCHANGED accounts

Next ==
  \/ \E e \in Emails : Join(e)
  \/ \E e \in Emails, field \in {"onboarded", "enrolled"} : Date(e, field)
  \/ \E k \in Tokens, e \in Emails : Issue(k, e)
  \/ \E ended \in SUBSET Tokens : End(ended)

Spec == Init /\ [][Next]_vars

=============================================================================
