----------------------------- MODULE RateLimit -----------------------------
(***************************************************************************)
(* The fixed-window limiter of one server process: windows in the order    *)
(* they were opened, never more than MaxKeys of them.  A key is a pair     *)
(* <<bucket, who>>, and the rules are those of the bucket.                 *)
(***************************************************************************)
EXTENDS Naturals, Sequences, FiniteSets

CONSTANTS
  MaxKeys,   \* windows kept at most
  Rules      \* bucket -> [limit, length]

ASSUME RateLimitAssumption ==
  /\ MaxKeys \in Nat \ {0}
  /\ \A b \in DOMAIN Rules : Rules[b].limit \in Nat \ {0} /\ Rules[b].length \in Nat \ {0}

\* A window that still counts at t.
Live(w, t) == t < w.start + Rules[w.key[1]].length

\* The windows at the places I, in their order.
Picked(windows, I) ==
  [n \in 1..Cardinality(I) |-> windows[CHOOSE i \in I : Cardinality({j \in I : j <= i}) = n]]

\* The last n of the places I.
Youngest(I, n) == {i \in I : Cardinality({j \in I : j > i}) < n}

\* Make room for one more: the windows that have ended go, then the oldest.
MakeRoom(windows, t) ==
  LET live == {i \in DOMAIN windows : Live(windows[i], t)}
  IN  IF Len(windows) < MaxKeys THEN windows
      ELSE Picked(windows, Youngest(live, MaxKeys - 1))

\* The window that counts for a key, if there is one.
Counting(windows, key, t) ==
  {i \in DOMAIN windows : windows[i].key = key /\ Live(windows[i], t)}

\* The windows of other keys.
Others(windows, key) == Picked(windows, {i \in DOMAIN windows : windows[i].key # key})

\* A count stands still once it is past the limit: nothing looks further.
Counted(w) == IF w.count <= Rules[w.key[1]].limit THEN [w EXCEPT !.count = @ + 1] ELSE w

\* Mutant of Hit: the new window of a key takes the place of the one that has ended.
HitInPlace(windows, key, t) ==
  LET old == {i \in DOMAIN windows : windows[i].key = key}
  IN IF old # {} /\ Counting(windows, key, t) = {}
     THEN [i \in DOMAIN windows |->
             IF i \in old THEN [key |-> key, start |-> t, count |-> 1] ELSE windows[i]]
     ELSE IF old # {}
     THEN [i \in DOMAIN windows |-> IF i \in old THEN Counted(windows[i]) ELSE windows[i]]
     ELSE Append(MakeRoom(windows, t), [key |-> key, start |-> t, count |-> 1])

\* One request of the key is counted, in its window or in a new one.
Hit(windows, key, t) ==
  IF Counting(windows, key, t) # {}
  THEN [i \in DOMAIN windows |->
          IF i \in Counting(windows, key, t) THEN Counted(windows[i]) ELSE windows[i]]
  ELSE Append(Others(MakeRoom(windows, t), key), [key |-> key, start |-> t, count |-> 1])

\* Whether the request just counted may proceed.
Allowed(windows, key) ==
  \E i \in DOMAIN windows :
    windows[i].key = key /\ windows[i].count <= Rules[key[1]].limit

=============================================================================
