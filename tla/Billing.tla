------------------------------- MODULE Billing -------------------------------
(***************************************************************************)
(* Checkout, the provider webhook and the subscription table.              *)
(*                                                                         *)
(* A checkout request is one call of BillingApiService.startCheckout; its  *)
(* pc advances over each statement that touches the database or the        *)
(* payment provider, so several requests of one student interleave, fail   *)
(* between any two statements, or are lost with their process.  A webhook  *)
(* delivery is one transaction of processEvent.  Where its first statement *)
(* locks the row of the event's reference, the delivery is one step.  Where*)
(* no row has the reference yet nothing is locked, and a checkout or other *)
(* deliveries may commit between its statements (Overlook, ReadRow,        *)
(* Record).  The provider is external: it may create a second session for  *)
(* one idempotency key, deliver events late, in any order and any number   *)
(* of times, with a wrong amount or a wrong client reference.  What it may *)
(* not do is report a payment through a page nobody was given (Pays), or   *)
(* use one event id for two events.                                        *)
(***************************************************************************)
EXTENDS Subscription, FiniteSets

CONSTANTS
  Students, Plans,
  SubIds,           \* ids newId() can return
  Refs,             \* the provider's session references
  EventIds,         \* the provider's event ids
  Amounts,          \* prices, in minor units with their currency
  Days,             \* Days[p]: the duration of one payment of plan p
  Echoed,           \* the client references the provider may echo
  MaxUnlocked       \* bound of the deliveries that run without a lock at one time

ASSUME DaysAssumption == Days \in [Plans -> Nat \ {0}]
VARIABLES
  catalog,     \* catalog[p]: the price of p, "not_for_sale" or "unlisted"
  subs,        \* table billing_subscriptions
  events,      \* table billing_events
  checkouts,   \* the requests being served
  sessions,    \* provider: the checkout session behind a reference
  wire,        \* provider: the events it has emitted, by id
  unlocked,    \* unlocked[e]: the delivery of e that goes on without a lock
  overwritten  \* history, read by no step: the rows a delivery wrote over a newer one

vars == <<now, catalog, subs, events, checkouts, sessions, wire, unlocked, overwritten>>

Offers == Amounts \cup {"not_for_sale", "unlisted"}

Rows == [student: Students, plan: Plans, amount: Amounts, ref: Refs \cup {None},
         status: Statuses, paidThrough: Nat \cup {Never}, lastEventAt: Nat \cup {Never}]

ProviderEvents == [type: EventTypes, at: Nat, ref: Refs, amount: Amounts,
                   echo: Echoed]

Sessions == [sub: SubIds, amount: Amounts]

EventRows == [type: EventTypes, at: Nat, sub: SubIds \cup {None}, outcome: Outcomes]

\* The row a delivery has read, what it made of it, and what it will record.
Deliveries == [sub: SubIds \cup {None}, row: Rows \cup {None}, next: Rows \cup {None},
               outcome: Outcomes \cup {"unread"}]

\* null is no value of any other kind.
ASSUME NoneAssumption ==
  /\ None \notin SubIds \cup Refs
  /\ None \notin Rows \cup ProviderEvents \cup EventRows
  /\ None \notin Sessions \cup Deliveries

Idle == [pc |-> "idle", student |-> None, plan |-> None, amount |-> None,
         sub |-> None, ref |-> None, tries |-> 0]

InFlight == {"insert", "find", "create", "attach"}

Checkouts == [pc: InFlight \cup {"idle", "done", "refused", "failed"},
              student: Students \cup {None}, plan: Plans \cup {None},
              amount: Amounts \cup {None}, sub: SubIds \cup {None},
              ref: Refs \cup {None}, tries: 0..3]

TypeOK ==
  /\ now \in Nat
  /\ catalog \in [Plans -> Offers]
  /\ subs \in [SubIds -> Rows \cup {None}]
  /\ events \in [EventIds -> EventRows \cup {None}]
  /\ checkouts \in [Requests -> Checkouts]
  /\ sessions \in [Refs -> Sessions \cup {None}]
  /\ wire \in [EventIds -> ProviderEvents \cup {None}]
  /\ unlocked \in [EventIds -> Deliveries \cup {None}]
  /\ overwritten \subseteq SubIds

Init ==
  /\ now = 0
  /\ catalog \in [Plans -> Amounts]
  /\ subs = [s \in SubIds |-> None]
  /\ events = [e \in EventIds |-> None]
  /\ checkouts = [r \in Requests |-> Idle]
  /\ sessions = [f \in Refs |-> None]
  /\ wire = [e \in EventIds |-> None]
  /\ unlocked = [e \in EventIds |-> None]
  /\ overwritten = {}

-----------------------------------------------------------------------------
(* Checkout: BillingApiService.startCheckout and the store under it.       *)

Of(st, p) == {s \in SubIds : subs[s] # None /\ subs[s].student = st /\ subs[s].plan = p}

Mapped(f) == {s \in SubIds : subs[s] # None /\ subs[s].ref = f}

Pending(st, p) == {s \in Of(st, p) : subs[s].status = "pending"}

\* The student already holds the plan at this moment.
Holds(st, p) == \E s \in Of(st, p) : GrantsAccess(subs[s], now)

\* The plan is looked up in the purchasable allowlist (any other id is a 400
\* that changes nothing), the student's subscriptions are listed, and a plan
\* already held is refused.  What follows acts on this reading.
StartCheckout(r, st, p) ==
  /\ checkouts[r].pc = "idle"
  /\ catalog[p] \in Amounts
  /\ checkouts' = [checkouts EXCEPT ![r] =
       [@ EXCEPT !.pc = IF Holds(st, p) THEN "refused" ELSE "insert",
                 !.student = st, !.plan = p, !.amount = catalog[p]]]
  /\ UNCHANGED <<now, catalog, subs, events, sessions, wire, unlocked, overwritten>>

\* INSERT ... ON CONFLICT (student_id, plan_id) WHERE status = 'pending' DO NOTHING.
InsertPending(r) ==
  LET c == checkouts[r] IN
  /\ c.pc = "insert"
  /\ \/ /\ Pending(c.student, c.plan) = {}
        /\ \E s \in SubIds :
             /\ subs[s] = None
             /\ subs' = [subs EXCEPT ![s] =
                  [student |-> c.student, plan |-> c.plan, amount |-> c.amount,
                   ref |-> None, status |-> "pending",
                   paidThrough |-> Never, lastEventAt |-> Never]]
             /\ checkouts' = [checkouts EXCEPT ![r].pc = "create", ![r].sub = s]
     \/ /\ Pending(c.student, c.plan) # {}
        /\ checkouts' = [checkouts EXCEPT ![r].pc = "find"]
        /\ UNCHANGED subs
  /\ UNCHANGED <<now, catalog, events, sessions, wire, unlocked, overwritten>>

\* The open checkout found by the insert is read back; it can have closed in
\* between, and then the insert is tried again, three times in all.
FindPending(r) ==
  LET c == checkouts[r] IN
  /\ c.pc = "find"
  /\ \/ \E s \in Pending(c.student, c.plan) :
          checkouts' = [checkouts EXCEPT ![r].pc = "create", ![r].sub = s]
     \/ /\ Pending(c.student, c.plan) = {}
        /\ checkouts' = [checkouts EXCEPT
             ![r].pc = IF c.tries < 2 THEN "insert" ELSE "failed",
             ![r].tries = c.tries + 1]
  /\ UNCHANGED <<now, catalog, subs, events, sessions, wire, unlocked, overwritten>>

\* Mutant of CreateSession: the session is opened at the catalog's price of today.
CreateSessionAtListPrice(r) ==
  LET c == checkouts[r] IN
  /\ c.pc = "create"
  /\ \E f \in Refs :
       /\ \/ sessions[f] # None /\ sessions[f].sub = c.sub /\ UNCHANGED sessions
          \/ /\ sessions[f] = None
             /\ sessions' = [sessions EXCEPT ![f] = [sub |-> c.sub, amount |-> c.amount]]
       /\ checkouts' = [checkouts EXCEPT ![r].pc = "attach", ![r].ref = f]
  /\ UNCHANGED <<now, catalog, subs, events, wire, unlocked, overwritten>>

\* provider.createCheckout with the row's id as idempotency key and the row's
\* own amount: the session it has for that key, or a session it opens now.
CreateSession(r) ==
  LET c == checkouts[r]
      order == [sub |-> c.sub, amount |-> subs[c.sub].amount]
  IN
  /\ c.pc = "create"
  /\ \E f \in Refs :
       /\ \/ sessions[f] # None /\ sessions[f].sub = c.sub /\ UNCHANGED sessions
          \/ sessions[f] = None /\ sessions' = [sessions EXCEPT ![f] = order]
       /\ checkouts' = [checkouts EXCEPT ![r].pc = "attach", ![r].ref = f]
  /\ UNCHANGED <<now, catalog, subs, events, wire, unlocked, overwritten>>

\* Mutant of Attach: the page is handed out whatever the attach answered.
AttachUnchecked(r) ==
  LET c == checkouts[r]
      free == subs[c.sub].ref = None /\ Mapped(c.ref) = {}
  IN
  /\ c.pc = "attach"
  /\ subs' = IF free THEN [subs EXCEPT ![c.sub].ref = c.ref] ELSE subs
  /\ checkouts' = [checkouts EXCEPT ![r].pc = "done"]
  /\ UNCHANGED <<now, catalog, events, sessions, wire, unlocked, overwritten>>

\* attachProviderRef: compare-and-set of a null provider_ref under the unique
\* index on it.  Only an attached session's URL is returned to the student.
Attach(r) ==
  LET c == checkouts[r]
      free == subs[c.sub].ref = None /\ Mapped(c.ref) = {}
  IN
  /\ c.pc = "attach"
  /\ subs' = IF free THEN [subs EXCEPT ![c.sub].ref = c.ref] ELSE subs
  /\ checkouts' = [checkouts EXCEPT
       ![r].pc = IF free \/ subs[c.sub].ref = c.ref THEN "done" ELSE "failed"]
  /\ UNCHANGED <<now, catalog, events, sessions, wire, unlocked, overwritten>>

\* The database or the provider fails, or the process dies: the request ends
\* with what it had already written left in place.
Abandon(r) ==
  /\ checkouts[r].pc \in InFlight
  /\ checkouts' = [checkouts EXCEPT ![r].pc = "failed"]
  /\ UNCHANGED <<now, catalog, subs, events, sessions, wire, unlocked, overwritten>>

-----------------------------------------------------------------------------
(* The provider (external) and the webhook.                                *)

\* The sessions whose payment page some student was given.
Issued == {checkouts[r].ref : r \in {q \in Requests : checkouts[q].pc = "done"}}

\* A payment was made through a page the student was given.
Pays(e, f, amount, echo) ==
  /\ wire[e] = None
  /\ f \in Issued
  /\ wire' = [wire EXCEPT ![e] =
       [type |-> "payment_succeeded", at |-> now, ref |-> f, amount |-> amount, echo |-> echo]]
  /\ UNCHANGED <<now, catalog, subs, events, checkouts, sessions, unlocked, overwritten>>

\* Any other event about a session that exists.
Reports(e, type, f, echo) ==
  /\ wire[e] = None
  /\ sessions[f] # None
  /\ wire' = [wire EXCEPT ![e] =
       [type |-> type, at |-> now, ref |-> f, amount |-> sessions[f].amount, echo |-> echo]]
  /\ UNCHANGED <<now, catalog, subs, events, checkouts, sessions, unlocked, overwritten>>

\* findPlan at the moment of processing: the duration, or 0 for an unlisted plan.
PlanDays(p) == IF catalog[p] = "unlisted" THEN 0 ELSE Days[p]

\* Mutant of ProcessEvent: the recorded event ids are not looked up.
ProcessEveryDelivery(e) ==
  LET ev == wire[e] IN
  /\ ev # None
  /\ \E s \in Mapped(ev.ref) :
       LET outcome == Outcome(s, subs[s], ev, PlanDays(subs[s].plan)) IN
       /\ subs' = IF outcome = "applied"
                  THEN [subs EXCEPT ![s] = Applied(@, ev, PlanDays(@.plan))] ELSE subs
       /\ events' = [events EXCEPT ![e] =
            [type |-> ev.type, at |-> ev.at, sub |-> s, outcome |-> outcome]]
  /\ UNCHANGED <<now, catalog, checkouts, sessions, wire, unlocked, overwritten>>

\* The billing_events row of e, about subscription s or about none.
Recorded(e, s, outcome) ==
  [events EXCEPT ![e] = [type |-> wire[e].type, at |-> wire[e].at, sub |-> s,
                         outcome |-> outcome]]

\* processEvent, first delivery of e: lock and read the row with this
\* reference, decide, update the row if the event applies, record the event.
ProcessEvent(e) ==
  LET ev == wire[e] IN
  /\ ev # None
  /\ events[e] = None
  /\ \E s \in Mapped(ev.ref) :
       LET row == subs[s]
           days == PlanDays(row.plan)
           outcome == Outcome(s, row, ev, days)
       IN
       /\ subs' = IF outcome = "applied"
                  THEN [subs EXCEPT ![s] = Applied(row, ev, days)] ELSE subs
       /\ events' = Recorded(e, s, outcome)
  /\ UNCHANGED <<now, catalog, checkouts, sessions, wire, unlocked, overwritten>>

Unread == [sub |-> None, row |-> None, next |-> None, outcome |-> "unread"]

\* No row has the reference when the lock is taken, and e has not been recorded: the
\* delivery goes on with nothing locked.
Overlook(e) ==
  /\ wire[e] # None
  /\ Mapped(wire[e].ref) = {}
  /\ events[e] = None
  /\ Cardinality({d \in EventIds : unlocked[d] # None}) < MaxUnlocked
  /\ unlocked[e] = None
  /\ unlocked' = [unlocked EXCEPT ![e] = Unread]
  /\ UNCHANGED <<now, catalog, subs, events, checkouts, sessions, wire, overwritten>>

\* It reads the row, which may have been attached since, and decides.
ReadRow(e) ==
  LET ev == wire[e] IN
  /\ unlocked[e] = Unread
  /\ \/ \E s \in Mapped(ev.ref) :
          LET days == PlanDays(subs[s].plan)
              outcome == Outcome(s, subs[s], ev, days)
          IN unlocked' = [unlocked EXCEPT ![e] =
               [sub |-> s, row |-> subs[s], outcome |-> outcome,
                next |-> IF outcome = "applied" THEN Applied(subs[s], ev, days) ELSE subs[s]]]
     \/ /\ Mapped(ev.ref) = {}
        /\ unlocked' = [unlocked EXCEPT ![e].outcome = "ignored_unknown_reference"]
  /\ UNCHANGED <<now, catalog, subs, events, checkouts, sessions, wire, overwritten>>

\* It writes the status, the paid period and the time it has computed over whatever the
\* row has become, and records the event.
Record(e) ==
  LET d == unlocked[e] IN
  /\ d # None
  /\ d.outcome # "unread"
  /\ events[e] = None
  /\ subs' = IF d.outcome = "applied"
             THEN [subs EXCEPT ![d.sub].status = d.next.status,
                               ![d.sub].paidThrough = d.next.paidThrough,
                               ![d.sub].lastEventAt = d.next.lastEventAt]
             ELSE subs
  /\ overwritten' = IF d.outcome = "applied" /\ subs[d.sub] # d.row
                    THEN overwritten \cup {d.sub} ELSE overwritten
  /\ events' = Recorded(e, d.sub, d.outcome)
  /\ unlocked' = [unlocked EXCEPT ![e] = None]
  /\ UNCHANGED <<now, catalog, checkouts, sessions, wire>>

\* The transaction is rolled back: another delivery of e was recorded first, a statement
\* fails or the process dies.
RollBack(e) ==
  /\ unlocked[e] # None
  /\ unlocked' = [unlocked EXCEPT ![e] = None]
  /\ UNCHANGED <<now, catalog, subs, events, checkouts, sessions, wire, overwritten>>

\* A delivery of an event id already recorded: the answer is 200 whatever the
\* stored outcome, and nothing changes.
Redeliver(e) ==
  /\ wire[e] # None
  /\ events[e] # None
  /\ UNCHANGED vars

-----------------------------------------------------------------------------
Tick == /\ now < MaxTime
        /\ now' = now + 1
        /\ UNCHANGED <<catalog, subs, events, checkouts, sessions, wire, unlocked, overwritten>>

\* A deployment with another catalog: plans are configuration.
Redeploy(p, offer) ==
  /\ catalog[p] # offer
  /\ catalog' = [catalog EXCEPT ![p] = offer]
  /\ UNCHANGED <<now, subs, events, checkouts, sessions, wire, unlocked, overwritten>>

Next ==
  \/ \E r \in Requests, st \in Students, p \in Plans : StartCheckout(r, st, p)
  \/ \E r \in Requests : \/ InsertPending(r) \/ FindPending(r) \/ CreateSession(r)
                         \/ Attach(r) \/ Abandon(r)
  \/ \E e \in EventIds, f \in Refs, echo \in Echoed :
       \/ \E amount \in Amounts : Pays(e, f, amount, echo)
       \/ \E type \in EventTypes \ {"payment_succeeded"} : Reports(e, type, f, echo)
  \/ \E e \in EventIds : \/ ProcessEvent(e) \/ Redeliver(e)
                         \/ Overlook(e) \/ ReadRow(e) \/ Record(e) \/ RollBack(e)
  \/ \E p \in Plans, offer \in Offers : Redeploy(p, offer)
  \/ Tick

Spec == Init /\ [][Next]_vars

-----------------------------------------------------------------------------
(* Properties.                                                             *)

\* The payments that count for subscription s: the recorded events that applied.
Payments(s) == {e \in EventIds :
  /\ events[e] # None
  /\ events[e].sub = s
  /\ events[e].type = "payment_succeeded"
  /\ events[e].outcome = "applied"}

Since(s, t) == {e \in Payments(s) : events[e].at >= t}

\* Every payment buys its whole duration, unless a delivery without a lock has written over
\* the row.  The right-hand side, over all applied payments, is the end of the period had
\* they arrived in the order they were made, so no reordering or redelivery of the webhook
\* shortens access.
PaidInFull ==
  \A s \in SubIds \ overwritten : subs[s] # None =>
    \A e \in Payments(s) :
      subs[s].paidThrough >=
        events[e].at + Days[subs[s].plan] * Cardinality(Since(s, events[e].at))

\* Nothing else does: without an applied payment there is no paid period, and n
\* payments end at most n durations after the latest event (processing one event
\* twice, or extending on another event, would go further).
NothingUnpaid ==
  \A s \in SubIds : subs[s] # None =>
    IF Payments(s) = {} THEN subs[s].paidThrough = Never
    ELSE subs[s].paidThrough <=
           subs[s].lastEventAt + Days[subs[s].plan] * Cardinality(Payments(s))

\* Once a refund of a subscription has been recorded, nothing that was or will be
\* delivered, before or after it, gives the access back, unless a delivery without a lock
\* writes over it.
RefundRevokes ==
  \A e \in EventIds :
    /\ events[e] # None
    /\ events[e].type = "payment_refunded"
    /\ events[e].outcome \in {"applied", "ignored_terminal"}
    /\ events[e].sub \notin overwritten
    => subs[events[e].sub].status = "refunded"

\* A payment reported by the provider is never filed under an unknown reference,
\* where no redelivery could ever recover it, nor credited to another subscription
\* than the one its session was opened for: the reference is attached before the
\* page is handed out, and is never replaced.
NoOrphanPayment ==
  \A e \in EventIds :
    /\ events[e] # None
    /\ events[e].type = "payment_succeeded"
    => events[e].sub = sessions[wire[e].ref].sub

\* The provider charges what the row says, although requests share one pending row
\* and the catalog's price changes between them: applyBillingEvent rejects any
\* other amount, so a student charged otherwise would pay for nothing.
ChargedAsRecorded ==
  \A f \in Refs : sessions[f] # None =>
    sessions[f].amount = subs[sessions[f].sub].amount

\* Concurrent and repeated checkouts of one plan share one open row.
OneOpenCheckout ==
  \A st \in Students, p \in Plans : Cardinality(Pending(st, p)) <= 1

\* The CHECK constraints of migration 0018 never reject an update: a violation would
\* fail the webhook's transaction on every redelivery, for ever.
ChecksHold ==
  \A s \in SubIds : subs[s] # None =>
    /\ subs[s].status \in {"active", "past_due"} => subs[s].paidThrough # Never
    /\ subs[s].status = "pending" => subs[s].paidThrough = Never

\* The table as the abstract specification sees it.
Standing(row) ==
  IF row = None THEN "none"
  ELSE CASE row.status = "pending"                -> "open"
         [] row.status \in {"active", "past_due"} -> "live"
         [] row.status = "cancelled"              -> "ending"
         [] row.status \in {"expired", "failed"}  -> "closed"
         [] row.status = "refunded"               -> "revoked"

A == INSTANCE Agreement WITH
       Ids       <- SubIds,
       Durations <- {Days[p] : p \in Plans},
       standing  <- [s \in SubIds |-> IF s \in overwritten THEN "lost" ELSE Standing(subs[s])],
       until     <- [s \in SubIds |-> IF s \in overwritten \/ subs[s] = None THEN Never
                                     ELSE subs[s].paidThrough]

\* Whatever the requests, the provider and the catalog do, every row lives one of
\* the documented lives, until a delivery writes over what another wrote under the lock.
KeepsAgreements == A!Spec

=============================================================================
