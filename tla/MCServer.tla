------------------------------ MODULE MCServer ------------------------------
(* A small instance of Server: one student with a session, one to sign up, and a      *)
(* limiter with room for few windows.                                                 *)
EXTENDS Server, TLC

CONSTANTS s1, s2, e1, e2, t1, t2, address

One == s1 :> [email |-> e1, token |-> t1]

Rule(n, length) == [limit |-> n, length |-> length]

Few ==
  [ip |-> Rule(2, 1), auth |-> Rule(1, 2), auth_account |-> Rule(1, 1), api |-> Rule(2, 1),
   tutor |-> Rule(1, 1)]

=============================================================================
