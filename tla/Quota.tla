-------------------------------- MODULE Quota --------------------------------
(***************************************************************************)
(* What metering promises: a ledger of units.  A unit is taken under a     *)
(* limit that the units of its period, this one included, respect; it is   *)
(* then kept or given back, once, and its entry never changes again.       *)
(***************************************************************************)
EXTENDS Integers, FiniteSets

CONSTANTS
  Units,
  Length,        \* Length[p]: the length of period p
  Unlimited

VARIABLE ledger  \* ledger[u]: [state, at, limit], "free" before the unit is taken

Counting == {"held", "kept"}

\* The units that count in the period of kind p that contains time t.
Used(book, p, t) ==
  {u \in Units : /\ book[u].state \in Counting
                 /\ book[u].at \div Length[p] = t \div Length[p]}

Within(book, limit, t) ==
  limit.max = Unlimited \/ Cardinality(Used(book, limit.period, t)) <= limit.max

Init == \A u \in Units : ledger[u].state = "free"

Take(u) ==
  /\ ledger[u].state = "free"
  /\ ledger'[u].state = "held"
  /\ \A v \in Units \ {u} : ledger'[v] = ledger[v]
  /\ Within(ledger', ledger'[u].limit, ledger'[u].at)

\* A unit still held is kept or given back.
Settle(u) ==
  /\ ledger[u].state = "held"
  /\ \E state \in {"kept", "returned"} :
       ledger' = [ledger EXCEPT ![u].state = state]

Next == \E u \in Units : Take(u) \/ Settle(u)

Spec == Init /\ [][Next]_ledger

=============================================================================
