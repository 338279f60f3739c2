------------------------------- MODULE Metering -------------------------------
(***************************************************************************)
(* Metered requests: CommerceGuard.metered over the entitlement service,   *)
(* the usage service and the usage_events table, for one student and one   *)
(* meter (the advisory lock, the idempotency key and every query are       *)
(* scoped to the pair).                                                    *)
(*                                                                         *)
(* Several server processes serve requests concurrently; a request's pc    *)
(* stands before its next database statement or provider call.  The        *)
(* subscriptions that grant the feature may change between any two reads.  *)
(* The idempotency key is the id the server gives the request, so it is    *)
(* fresh, and the lookup of an earlier reservation under it finds nothing. *)
(***************************************************************************)
EXTENDS Commerce, FiniteSets

CONSTANTS
  Sources,      \* the baseline and the subscriptions that may grant the feature
  Limits,       \* Limits[s]: the usage limit of source s for the meter
  Length,       \* Length[p]: the length of a calendar period
  Unlimited

Periods == {"day", "month"}

LimitValues == [max : Nat \cup {Unlimited}, period : Periods]

ASSUME LimitsAssumption ==
  /\ Limits \in [Sources -> LimitValues]
  /\ Length \in [Periods -> Nat \ {0}]
  /\ Unlimited \notin Nat

VARIABLES
  granted,   \* the sources that grant the feature for the student's exam now
  usage,     \* table usage_events, by the request that inserted the row
  lock,      \* holder of the advisory lock of the (student, meter), or None
  reqs       \* the requests being served

meteringVars == <<now, granted, usage, lock, reqs>>

UsageRows == [at : Nat, status : {"reserved", "consumed", "released"}]

ASSUME MeteringNoneAssumption == None \notin Requests \cup UsageRows \cup LimitValues

Unserved == [pc |-> "idle", limit |-> None, at |-> 0, outcome |-> "none"]

InTransaction == {"check", "insert"}

Underway == {"limit", "lock", "work", "settle"} \cup InTransaction

Ended == {"denied", "done", "crashed"}

RequestStates ==
  [pc : {"idle"} \cup Underway \cup Ended, limit : LimitValues \cup {None}, at : Nat,
   outcome : {"none", "consumed", "released"}]

MeteringTypeOK ==
  /\ now \in Nat
  /\ granted \in SUBSET Sources
  /\ usage \in [Requests -> UsageRows \cup {None}]
  /\ lock \in Requests \cup {None}
  /\ reqs \in [Requests -> RequestStates]

MeteringInit ==
  /\ now = 0
  /\ granted \in SUBSET Sources
  /\ usage = [r \in Requests |-> None]
  /\ lock = None
  /\ reqs = [r \in Requests |-> Unserved]

-----------------------------------------------------------------------------
(* Entitlement.                                                            *)

\* a is at least as generous as b: unlimited first, then the larger number, then
\* the longer period.
Generous(a, b) ==
  IF a.max = Unlimited \/ b.max = Unlimited
  THEN a.max = Unlimited /\ (b.max = Unlimited => a.period = "month" \/ b.period = "day")
  ELSE a.max > b.max \/ (a.max = b.max /\ (a.period = "month" \/ b.period = "day"))

MostGenerous(limits) == {a \in limits : \A b \in limits : Generous(a, b)}

\* The feature is granted by no source: the request is refused (403).
Decide(r) ==
  /\ reqs[r].pc = "idle"
  /\ reqs' = [reqs EXCEPT ![r].pc = IF granted = {} THEN "denied" ELSE "limit"]
  /\ UNCHANGED <<now, granted, usage, lock>>

\* getUsageLimit takes a snapshot of its own, which may grant nothing any more; the
\* clock is read once, before the transaction, for the period and the row.
ReadLimit(r) ==
  /\ reqs[r].pc = "limit"
  /\ \/ granted = {} /\ reqs' = [reqs EXCEPT ![r].pc = "denied"]
     \/ \E limit \in MostGenerous({Limits[s] : s \in granted}) :
          reqs' = [reqs EXCEPT ![r].pc = "lock", ![r].limit = limit, ![r].at = now]
  /\ UNCHANGED <<now, granted, usage, lock>>

-----------------------------------------------------------------------------
(* UsageStore.reserve: one transaction under the advisory lock.            *)

\* Mutant of Lock: the sum and the insert run without the lock.
LockNothing(r) ==
  /\ reqs[r].pc = "lock"
  /\ reqs' = [reqs EXCEPT ![r].pc = "check"]
  /\ UNCHANGED <<now, granted, usage, lock>>

\* pg_advisory_xact_lock, held until the transaction ends.
Lock(r) ==
  /\ reqs[r].pc = "lock"
  /\ lock = None
  /\ lock' = r
  /\ reqs' = [reqs EXCEPT ![r].pc = "check"]
  /\ UNCHANGED <<now, granted, usage>>

\* Reserved and consumed units of the period that contains t.
Used(period, t) ==
  {r \in Requests : /\ usage[r] # None
                    /\ usage[r].status \in {"reserved", "consumed"}
                    /\ usage[r].at \div Length[period] = t \div Length[period]}

\* Room for one more unit under the limit of request q.
Room(q) ==
  \/ q.limit.max = Unlimited
  \/ Cardinality(Used(q.limit.period, q.at)) + 1 <= q.limit.max

Check(r) ==
  /\ reqs[r].pc = "check"
  /\ IF Room(reqs[r])
     THEN reqs' = [reqs EXCEPT ![r].pc = "insert"] /\ UNCHANGED lock
     ELSE reqs' = [reqs EXCEPT ![r] = [Unserved EXCEPT !.pc = "denied"]] /\ lock' = None
  /\ UNCHANGED <<now, granted, usage>>

\* The row is inserted, the transaction commits and the lock is released.
Insert(r) ==
  /\ reqs[r].pc = "insert"
  /\ usage' = [usage EXCEPT ![r] = [at |-> reqs[r].at, status |-> "reserved"]]
  /\ reqs' = [reqs EXCEPT ![r].pc = "work"]
  /\ lock' = None
  /\ UNCHANGED <<now, granted>>

-----------------------------------------------------------------------------
(* The metered work and its settlement.                                    *)

\* The tutor answers, or does not; the work throws; the simulation started is one
\* that was already running: the unit is to be kept, or given back.
Work(r) ==
  /\ reqs[r].pc = "work"
  /\ \E outcome \in {"consumed", "released"} :
       reqs' = [reqs EXCEPT ![r].pc = "settle", ![r].outcome = outcome]
  /\ UNCHANGED <<now, granted, usage, lock>>

\* Mutant of Settle: a unit the answer used is given back.
SettleReleases(r) ==
  /\ reqs[r].pc = "settle"
  /\ usage' = [usage EXCEPT ![r].status = "released"]
  /\ reqs' = [reqs EXCEPT ![r].pc = "done"]
  /\ UNCHANGED <<now, granted, lock>>

\* The update moves a row that is still reserved; its failure is swallowed, and the
\* unit goes on counting.
Settle(r) ==
  /\ reqs[r].pc = "settle"
  /\ \/ usage' = [usage EXCEPT ![r].status = IF @ = "reserved" THEN reqs[r].outcome ELSE @]
     \/ UNCHANGED usage
  /\ reqs' = [reqs EXCEPT ![r].pc = "done"]
  /\ UNCHANGED <<now, granted, lock>>

\* Mutant of Crash: the lock outlives the connection that took it.
CrashKeepsLock(r) ==
  /\ reqs[r].pc \in Underway
  /\ reqs' = [reqs EXCEPT ![r].pc = "crashed"]
  /\ UNCHANGED <<now, granted, usage, lock>>

\* The process dies or the database fails: the transaction rolls back and its lock
\* goes; a row already committed stays.
Crash(r) ==
  /\ reqs[r].pc \in Underway
  /\ reqs' = [reqs EXCEPT ![r] =
       IF usage[r] = None THEN [Unserved EXCEPT !.pc = "crashed"] ELSE [@ EXCEPT !.pc = "crashed"]]
  /\ lock' = IF lock = r THEN None ELSE lock
  /\ UNCHANGED <<now, granted, usage>>

-----------------------------------------------------------------------------
\* A subscription starts, lapses, is refunded, or leaves the catalog.
Regrant(sources) ==
  /\ granted # sources
  /\ granted' = sources
  /\ UNCHANGED <<now, usage, lock, reqs>>

TimePasses ==
  /\ now < MaxTime
  /\ now' = now + 1
  /\ UNCHANGED <<granted, usage, lock, reqs>>

Serve(r) == Decide(r) \/ ReadLimit(r) \/ Lock(r) \/ Check(r) \/ Insert(r) \/ Work(r) \/ Settle(r)

MeteringNext ==
  \/ \E r \in Requests : Serve(r) \/ Crash(r)
  \/ \E sources \in SUBSET Sources : Regrant(sources)
  \/ TimePasses

MeteringSpec == MeteringInit /\ [][MeteringNext]_meteringVars

\* A request that has started goes on: statements return or fail, and the work is
\* bounded by its own deadline.  Nothing says that a request arrives.
FairSpec == MeteringSpec /\ \A r \in Requests : WF_meteringVars(reqs[r].pc # "idle" /\ Serve(r))

-----------------------------------------------------------------------------
(* Properties.                                                             *)

\* The ledger behind the table: the limit under which a unit was reserved is known
\* to the request that reserved it.
Entry(r) ==
  IF usage[r] = None THEN [state |-> "free", at |-> 0, limit |-> None]
  ELSE [state |-> CASE usage[r].status = "reserved" -> "held"
                    [] usage[r].status = "consumed" -> "kept"
                    [] usage[r].status = "released" -> "returned",
        at |-> usage[r].at, limit |-> reqs[r].limit]

Q == INSTANCE Quota WITH Units <- Requests, ledger <- [r \in Requests |-> Entry(r)]

\* No interleaving of requests on any number of processes, no crash and no change of
\* plan lets a reservation exceed the limit it was made under, or a settled unit move.
KeepsQuota == Q!Spec

\* What was delivered stays counted, whether or not its settlement succeeded; and a
\* unit is given back only for a request that delivered nothing.
DeliveredCounts ==
  \A r \in Requests :
    /\ reqs[r].outcome = "consumed" => usage[r] # None /\ usage[r].status # "released"
    /\ usage[r] # None /\ usage[r].status = "released" => reqs[r].outcome = "released"

\* The lock is held exactly by the transaction between its statements.
LockHeld == \A r \in Requests : reqs[r].pc \in InTransaction <=> lock = r

\* No request waits for the lock for ever, although holders crash.
Answered == \A r \in Requests : reqs[r].pc \in Underway ~> reqs[r].pc \in Ended

=============================================================================
